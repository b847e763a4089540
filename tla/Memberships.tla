----------------------------- MODULE Memberships -----------------------------
(***************************************************************************)
(* Who belongs to which tenant: creating a tenant, inviting and accepting, *)
(* changing and removing members, and an owner who leaves.                 *)
(*                                                                         *)
(* A request reads, awaits, and writes.  All it reads to decide is one     *)
(* step, its write is another, and the two are not in one transaction that *)
(* would keep other requests from changing what was read.                  *)
(*                                                                         *)
(* Users are told apart by their e-mail address and have an account.       *)
(***************************************************************************)
EXTENDS Naturals, FiniteSets

CONSTANTS
  Tenant, User,
  Invite,    \* rows of tenant_invitations
  InviteRole,  \* bound: the roles invitations are made for
  Request,   \* requests under way at once
  None

MembershipAssumption ==
  /\ None \notin Tenant \cup User \cup Invite
  /\ InviteRole \subseteq {"admin", "member"}

Role == {"owner", "admin", "member"}

\* A row of tenant_users; "none" where there is no row.  The status invited of the
\* enumeration is never written.
MemberRecord == [role : Role, status : {"none", "active", "disabled"}]
NoMember == [role |-> "member", status |-> "none"]
Active(role) == [role |-> role, status |-> "active"]

\* lapsed: still pending in the table, and past its date.
InviteRecord == [
  status : {"none", "pending", "lapsed", "expired", "accepted"},
  tenant : Tenant \cup {None},
  user   : User \cup {None},
  role   : {"admin", "member"}]
NoInvite == [status |-> "none", tenant |-> None, user |-> None, role |-> "member"]

Phase == {"idle", "create", "invite", "join", "update", "remove", "leaving", "leave"}

\* What an update may set: a role or a status.
Change == {"admin", "member", "active", "disabled"}

RequestRecord == [
  at     : Phase,
  tenant : Tenant \cup {None},
  user   : User \cup {None},      \* the member it is about
  next   : User \cup {None},      \* the replacement of an owner
  invite : Invite \cup {None},
  what   : Change \cup {"none"},  \* the change, the role, or the status that was read
  stale  : BOOLEAN]               \* history: a membership or an invitation changed since

Idle == [at |-> "idle", tenant |-> None, user |-> None, next |-> None, invite |-> None,
         what |-> "none", stale |-> FALSE]

VARIABLES
  tenant,  \* the tenants there are
  member,  \* tenant_users
  invite,  \* tenant_invitations
  req,     \* the local variables of each request
  slipped  \* history: <<tenant, user>> invited, or let in, on a reading out of date, or
           \* let in with the invitation of another

vars == <<tenant, member, invite, req, slipped>>

Init ==
  /\ tenant = {}
  /\ member = [t \in Tenant |-> [u \in User |-> NoMember]]
  /\ invite = [i \in Invite |-> NoInvite]
  /\ req = [r \in Request |-> Idle]
  /\ slipped = {}

IsMember(t, u) == member[t][u].status # "none"
IsOwner(t, u)  == IsMember(t, u) /\ member[t][u].role = "owner"

\* requireAdminRole
IsAdmin(t, u) == member[t][u].status = "active" /\ member[t][u].role \in {"owner", "admin"}

\* enforceSingleTenantRule, countActiveMemberships; the mutation counts nothing.
ActiveElsewhereNever(u, t) == {}
ActiveElsewhere(u, t) == {x \in Tenant \ {t} : member[x][u].status = "active"}

Begin(r, phase, t, u, i, what) ==
  /\ req[r].at = "idle"
  /\ req' = [req EXCEPT ![r] = [Idle EXCEPT !.at = phase, !.tenant = t, !.user = u,
                                            !.invite = i, !.what = what]]
  /\ UNCHANGED <<tenant, member, invite, slipped>>

\* A write ends its request, and what the others have read is out of date.
Finish(r) ==
  req' = [q \in Request |-> IF q = r THEN Idle
                            ELSE [req[q] EXCEPT !.stale = req[q].at # "idle"]]

NoteSlip(r, ofAnother) ==
  slipped' = IF req[r].stale \/ ofAnother THEN slipped \cup {<<req[r].tenant, req[r].user>>} ELSE slipped

SetMember(t, u, m) == member' = [member EXCEPT ![t][u] = m]

-----------------------------------------------------------------------------
(* A tenant, with its owner.                                                *)

BeginCreate(r, u) ==
  /\ ActiveElsewhere(u, None) = {}
  /\ Begin(r, "create", None, u, None, "none")

Create(r, t) ==
  /\ req[r].at = "create"
  /\ t \notin tenant
  /\ tenant' = tenant \cup {t}
  /\ SetMember(t, req[r].user, Active("owner"))
  /\ Finish(r)
  /\ UNCHANGED <<invite, slipped>>

-----------------------------------------------------------------------------
(* Invitations.                                                             *)

Pending(i) == invite[i].status \in {"pending", "lapsed"}

\* A member is not invited, an active one or a disabled one.
MayJoin(t, u) == ~IsMember(t, u)

\* A pending invitation is given back instead of a second one, past its date or not.
BeginInvite(r, by, t, u, role) ==
  /\ IsAdmin(t, by)
  /\ ~\E i \in Invite : Pending(i) /\ invite[i].tenant = t /\ invite[i].user = u
  /\ MayJoin(t, u)
  /\ ActiveElsewhere(u, t) = {}
  /\ Begin(r, "invite", t, u, None, role)

\* The row stays when the message cannot be sent: the answer is an error.
CreateInvite(r, i) ==
  /\ req[r].at = "invite"
  /\ invite[i] = NoInvite
  /\ invite' = [invite EXCEPT ![i] = [status |-> "pending", tenant |-> req[r].tenant,
                                      user |-> req[r].user, role |-> req[r].what]]
  /\ NoteSlip(r, FALSE)
  /\ Finish(r)
  /\ UNCHANGED <<tenant, member>>

Lapse(i) ==
  /\ invite[i].status = "pending"
  /\ invite' = [invite EXCEPT ![i].status = "lapsed"]
  /\ UNCHANGED <<tenant, member, req, slipped>>

\* The preview, or an attempt to accept, finds the date past.
Expire(i) ==
  /\ invite[i].status = "lapsed"
  /\ invite' = [invite EXCEPT ![i].status = "expired"]
  /\ UNCHANGED <<tenant, member, req, slipped>>

\* The address of the invitation is compared with that of the identity, if it has one: an
\* access token has none, and then whoever holds the link may accept.
BeginAccept(r, i, u, hasEmail) ==
  LET t == invite[i].tenant
  IN  /\ invite[i].status = "pending"
      /\ hasEmail => u = invite[i].user
      /\ ActiveElsewhere(u, t) = {}
      /\ Begin(r, "join", t, u, i, member[t][u].status)

\* A row that was there is made active, and keeps its role; otherwise one is created,
\* unless another request created it in between: then the transaction fails.
Accept(r) ==
  LET t == req[r].tenant
      u == req[r].user
      i == req[r].invite
  IN  /\ req[r].at = "join"
      /\ IF req[r].what = "none"
           THEN IF IsMember(t, u)
                  THEN UNCHANGED <<member, invite>>
                  ELSE /\ SetMember(t, u, Active(invite[i].role))
                       /\ invite' = [invite EXCEPT ![i].status = "accepted"]
           ELSE /\ IF req[r].what = "disabled" /\ IsMember(t, u)
                     THEN SetMember(t, u, [member[t][u] EXCEPT !.status = "active"])
                     ELSE UNCHANGED member
                /\ invite' = [invite EXCEPT ![i].status = "accepted"]
      /\ NoteSlip(r, invite[i].user # u)
      /\ Finish(r)
      /\ UNCHANGED tenant

-----------------------------------------------------------------------------
(* Members.                                                                 *)

\* The row of the owner is neither changed nor removed by others; the mutation
\* forgets it.
MayTouchAny(m) == TRUE
MayTouch(m)    == m.role # "owner"

BeginUpdate(r, by, t, u, change) ==
  /\ IsAdmin(t, by) /\ IsMember(t, u) /\ MayTouch(member[t][u])
  /\ change = "admin" => IsOwner(t, by)
  /\ Begin(r, "update", t, u, None, change)

Changed(m, change) ==
  IF change \in {"active", "disabled"} THEN [m EXCEPT !.status = change]
  ELSE [m EXCEPT !.role = change]

\* A row that is gone is not updated.
Update(r) ==
  LET t == req[r].tenant
      u == req[r].user
  IN  /\ req[r].at = "update"
      /\ IF IsMember(t, u)
           THEN SetMember(t, u, Changed(member[t][u], req[r].what))
           ELSE UNCHANGED member
      /\ Finish(r)
      /\ UNCHANGED <<tenant, invite, slipped>>

BeginRemove(r, by, t, u) ==
  /\ IsAdmin(t, by) /\ IsMember(t, u) /\ MayTouch(member[t][u])
  /\ member[t][u].role = "admin" => IsOwner(t, by)
  /\ Begin(r, "remove", t, u, None, "none")

Remove(r) ==
  /\ req[r].at = "remove"
  /\ SetMember(req[r].tenant, req[r].user, NoMember)
  /\ Finish(r)
  /\ UNCHANGED <<tenant, invite, slipped>>

\* Only the owner removes the owner.
BeginLeave(r, t, u) ==
  /\ IsOwner(t, u) /\ IsAdmin(t, u)
  /\ Begin(r, "leaving", t, u, None, "none")

\* promoteReplacementOwner: an active member, an administrator if there is one.
Replacements(t, u) ==
  LET others == {v \in User \ {u} : member[t][v].status = "active"}
      admins == {v \in others : member[t][v].role = "admin"}
  IN  IF admins # {} THEN admins ELSE others

PickReplacement(r) ==
  /\ req[r].at = "leaving"
  /\ \E v \in Replacements(req[r].tenant, req[r].user) :
       req' = [req EXCEPT ![r].at = "leave", ![r].next = v]
  /\ UNCHANGED <<tenant, member, invite, slipped>>

Leave(r) ==
  LET t == req[r].tenant
      v == req[r].next
  IN  /\ req[r].at = "leave"
      /\ member' = [member EXCEPT
           ![t] = [@ EXCEPT ![v] = IF IsMember(t, v) THEN [member[t][v] EXCEPT !.role = "owner"]
                                   ELSE NoMember,
                            ![req[r].user] = NoMember]]
      /\ Finish(r)
      /\ UNCHANGED <<tenant, invite, slipped>>

\* A query that fails, nobody to replace the owner, or a server that dies.
Fail(r) ==
  /\ req[r].at # "idle"
  /\ req' = [req EXCEPT ![r] = Idle]
  /\ UNCHANGED <<tenant, member, invite, slipped>>

Next ==
  \/ \E r \in Request :
       \/ \E u \in User : BeginCreate(r, u)
       \/ \E t \in Tenant : Create(r, t)
       \/ \E by, u \in User, t \in Tenant :
            \/ \E role \in InviteRole : BeginInvite(r, by, t, u, role)
            \/ \E change \in Change : BeginUpdate(r, by, t, u, change)
            \/ BeginRemove(r, by, t, u)
       \/ \E i \in Invite :
            \/ CreateInvite(r, i)
            \/ \E u \in User, hasEmail \in BOOLEAN : BeginAccept(r, i, u, hasEmail)
       \/ Accept(r) \/ Update(r) \/ Remove(r)
       \/ \E t \in Tenant, u \in User : BeginLeave(r, t, u)
       \/ PickReplacement(r) \/ Leave(r)
       \/ Fail(r)
  \/ \E i \in Invite : Lapse(i) \/ Expire(i)

Spec == Init /\ [][Next]_vars

-----------------------------------------------------------------------------
(* Properties.                                                              *)

TypeOK ==
  /\ tenant \subseteq Tenant
  /\ member \in [Tenant -> [User -> MemberRecord]]
  /\ invite \in [Invite -> InviteRecord]
  /\ req \in [Request -> RequestRecord]
  /\ slipped \subseteq Tenant \X User

Owners(t) == {u \in User : IsOwner(t, u)}

OneOwner(t) ==
  \E u \in User : Owners(t) = {u} /\ member[t][u].status = "active"

\* The request whose step this is, and the step writes what it decided before
\* something else changed.
StepOfStale == \E r \in Request : req[r].stale /\ req'[r] = Idle

\* A tenant has one owner, who is active, and keeps one: only a request that decided
\* before another write can leave it without, or with two.
OwnerKeptStep ==
  \A t \in tenant : OneOwner(t) /\ ~OneOwner(t)' => StepOfStale

Homes(u) == {t \in Tenant : member[t][u].status = "active"}

\* A user becomes active in a second tenant only when an administrator enables a
\* member again, or through a request that counted before another write.
OneTenantStep ==
  \A u \in User :
    Cardinality(Homes(u)') > 1 /\ Cardinality(Homes(u)') > Cardinality(Homes(u))
      => \/ StepOfStale
         \/ \E r \in Request : req[r].at = "update" /\ req[r].what = "active"
                               /\ req'[r] = Idle

\* A disabled member comes back only when an administrator enables him, or with the
\* invitation of another, or with one that he has because he was invited, or let in, on
\* a reading out of date or with the invitation of another.
DisabledStep ==
  \A t \in Tenant, u \in User :
    member[t][u].status = "disabled" /\ member'[t][u].status = "active"
      => \/ \E r \in Request : req[r].at = "update" /\ req'[r] = Idle
         \/ <<t, u>> \in slipped'
=============================================================================
