------------------------------ MODULE Accounts ------------------------------
(***************************************************************************)
(* Signing up, signing in and the rows of users: the accounts of the       *)
(* identity provider (Cognito), one with a password and one through        *)
(* Google or Microsoft for each address, and the row this program keeps    *)
(* for whoever has signed in.                                              *)
(*                                                                         *)
(* The provider is a service of its own, modelled from the calls made to   *)
(* it: it refuses a second account with a password for an address, not one *)
(* with a password beside one without (auth.service.js:295).               *)
(*                                                                         *)
(* A row holds a name ("typed" by the user, from the "token", or "none");  *)
(* the telephone is written by the same code and goes the same way.        *)
(***************************************************************************)
EXTENDS Naturals, FiniteSets

CONSTANTS
  Email,
  Request    \* requests under way at once

AccountsAssumption == Email # {}

Kind == {"password", "social"}

\* The subject of a token: each account has its own.
Sub == Email \X Kind

PoolRecord == [password : {"none", "unconfirmed", "confirmed"}, social : BOOLEAN]

\* One row for a subject, which is unique; the address is not.
UserRow == [status : {"none", "active"}, name : {"none", "token", "typed"}]
NoRow == [status |-> "none", name |-> "none"]

Phase == {"idle", "signup", "social", "profile", "ensure", "fill", "rename"}

RequestRecord == [
  at    : Phase,
  email : Email,
  sub   : Sub,        \* the subject of the token, then the row that was found
  stale : BOOLEAN]    \* history: something was written since the request read

VARIABLES
  pool,     \* the accounts at the provider
  users,    \* the table users, by subject
  session,  \* the accounts with a session in some browser: the cookies
  req

vars == <<pool, users, session, req>>

AnyEmail == CHOOSE e \in Email : TRUE
Idle == [at |-> "idle", email |-> AnyEmail, sub |-> <<AnyEmail, "password">>, stale |-> FALSE]

Init ==
  /\ pool = [e \in Email |-> [password |-> "none", social |-> FALSE]]
  /\ users = [s \in Sub |-> NoRow]
  /\ session = {}
  /\ req = [r \in Request |-> Idle]

Begin(r, phase, s) ==
  req' = [req EXCEPT ![r] = [at |-> phase, email |-> s[1], sub |-> s, stale |-> FALSE]]

\* A write ends its request; what the others have read is out of date.
Written(r, next) ==
  req' = [q \in Request |-> IF q = r THEN next
                            ELSE [req[q] EXCEPT !.stale = req[q].at # "idle"]]

Done(r) == Written(r, Idle)

\* The tokens become cookies, a guarded route asks for them, signing out drops them.
SetAuthCookies(s)   == session' = session \cup {s}
ClearAuthCookies(s) == session' = session \ {s}
SignedIn(s)         == s \in session

-----------------------------------------------------------------------------
(* Which accounts an address has.                                           *)

HasPassword(e) == pool[e].password # "none"
AuthMethod(e) ==
  IF pool[e].social THEN "social" ELSE IF HasPassword(e) THEN "password" ELSE "none"

\* register looks first.
MayRegister(e) == AuthMethod(e) = "none"

\* The look may fail, and the sign-up goes on.
BeginRegister(r, e) ==
  /\ req[r].at = "idle"
  /\ MayRegister(e)
  /\ Begin(r, "signup", <<e, "password">>)
  /\ UNCHANGED <<pool, users, session>>

BeginRegisterUnseen(r, e) ==
  /\ req[r].at = "idle"
  /\ req' = [req EXCEPT ![r] = [at |-> "signup", email |-> e, sub |-> <<e, "password">>,
                                stale |-> TRUE]]
  /\ UNCHANGED <<pool, users, session>>

SignUp(r) ==
  /\ req[r].at = "signup"
  /\ IF HasPassword(req[r].email)
       THEN UNCHANGED pool
       ELSE pool' = [pool EXCEPT ![req[r].email].password = "unconfirmed"]
  /\ Done(r)
  /\ UNCHANGED <<users, session>>

Confirm(e) ==
  /\ pool[e].password = "unconfirmed"
  /\ pool' = [pool EXCEPT ![e].password = "confirmed"]
  /\ UNCHANGED <<users, session, req>>

\* A refusal names the social account, if there is one; nothing changes.
Login(e) ==
  /\ pool[e].password = "confirmed"
  /\ SetAuthCookies(<<e, "password">>)
  /\ UNCHANGED <<pool, users, req>>

\* The refresh token is revoked and the cookies cleared.
Logout(s) ==
  /\ SignedIn(s)
  /\ ClearAuthCookies(s)
  /\ UNCHANGED <<pool, users, req>>

-----------------------------------------------------------------------------
(* The row of whoever signs in.                                             *)

Rows(e) == {s \in Sub : s[1] = e /\ users[s].status # "none"}

\* The identity in the tokens: the subject, and the address.
AddressOf(s) == s[1]

\* By subject, then by address; and by address, then by subject.  The mutation looks
\* for the subject only.
GetUserByAuth(s) == IF users[s].status # "none" THEN {s} ELSE Rows(AddressOf(s))
FoundBySub(s) == IF users[s].status # "none" THEN {s} ELSE {}
FoundForAuth(s) == IF Rows(AddressOf(s)) # {} THEN Rows(AddressOf(s)) ELSE FoundBySub(s)

\* The code is exchanged at the provider, which makes the account the first time.
ExchangeCode(e) == pool' = [pool EXCEPT ![e].social = TRUE]

\* An address the provider lists with a password only is sent back to it: the
\* account just made may not be listed yet.
OauthCallback(r, e) ==
  /\ req[r].at = "idle"
  /\ ExchangeCode(e)
  /\ \/ /\ HasPassword(e) /\ ~pool[e].social
        /\ UNCHANGED <<session, users>>
        /\ Written(r, Idle)
     \/ /\ SetAuthCookies(<<e, "social">>)
        /\ UNCHANGED users
        /\ Written(r, IF GetUserByAuth(<<e, "social">>) = {}
                        THEN [at |-> "social", email |-> e, sub |-> <<e, "social">>,
                              stale |-> FALSE]
                        ELSE Idle)

\* GET /auth/me: a row that is found is completed, one that is missing is created.
Me(r, s) ==
  /\ req[r].at = "idle"
  /\ SignedIn(s)
  /\ Begin(r, "ensure", s)
  /\ UNCHANGED <<pool, users, session>>

\* A name is filled in where there is none.
NeedsName(row) == users[row].name = "none"

\* ensureUserFromAuth reads, with a name in the token or without one.
EnsureFind(r) ==
  LET s == req[r].sub
  IN  /\ req[r].at \in {"social", "ensure"}
      /\ IF FoundForAuth(s) = {}
           THEN req' = [req EXCEPT ![r].at = "profile", ![r].stale = FALSE]
           ELSE \E row \in FoundForAuth(s), named \in BOOLEAN :
                  req' = [req EXCEPT
                    ![r] = IF named /\ NeedsName(row)
                             THEN [at |-> "fill", email |-> s[1], sub |-> row, stale |-> FALSE]
                             ELSE Idle]
      /\ UNCHANGED <<pool, users, session>>

\* The mutation leaves the status to the default of the column.
NewRowByDefault(name) == [status |-> "pending", name |-> name]
NewRow(name) == [status |-> "active", name |-> name]

\* createFromAuth, with or without a name in the token.  A subject that has a row by
\* now is refused by the table.
EnsureCreate(r, name) ==
  /\ req[r].at = "profile"
  /\ users' = IF users[req[r].sub].status = "none"
                THEN [users EXCEPT ![req[r].sub] = NewRow(name)]
                ELSE users
  /\ Done(r)
  /\ UNCHANGED <<pool, session>>

EnsureFill(r) ==
  /\ req[r].at = "fill"
  /\ users' = [users EXCEPT ![req[r].sub].name = "token"]
  /\ Done(r)
  /\ UNCHANGED <<pool, session>>

\* PATCH /auth/me finds the row, the one of the subject first, and then writes it.
BeginUpdateMe(r, s) ==
  /\ req[r].at = "idle"
  /\ SignedIn(s)
  /\ \E row \in GetUserByAuth(s) : Begin(r, "rename", row)
  /\ UNCHANGED <<pool, users, session>>

UpdateMe(r) ==
  /\ req[r].at = "rename"
  /\ users' = [users EXCEPT ![req[r].sub].name = "typed"]
  /\ Done(r)
  /\ UNCHANGED <<pool, session>>

\* A call that fails, or a server that dies.
Fail(r) ==
  /\ req[r].at # "idle"
  /\ req' = [req EXCEPT ![r] = Idle]
  /\ UNCHANGED <<pool, users, session>>

Next ==
  \/ \E r \in Request, e \in Email :
       BeginRegister(r, e) \/ BeginRegisterUnseen(r, e) \/ OauthCallback(r, e)
  \/ \E e \in Email : Confirm(e) \/ Login(e)
  \/ \E s \in Sub : Logout(s)
  \/ \E r \in Request :
       \/ SignUp(r) \/ EnsureFind(r) \/ EnsureFill(r) \/ UpdateMe(r) \/ Fail(r)
       \/ \E name \in {"none", "token"} : EnsureCreate(r, name)
       \/ \E s \in Sub : Me(r, s) \/ BeginUpdateMe(r, s)

Spec == Init /\ [][Next]_vars

-----------------------------------------------------------------------------
(* Properties.                                                              *)

TypeOK ==
  /\ pool \in [Email -> PoolRecord]
  /\ users \in [Sub -> UserRow]
  /\ session \subseteq Sub
  /\ req \in [Request -> RequestRecord]

\* A request that writes what it decided before another write, or without a look.
StepOfStale == \E r \in Request : req[r].stale /\ req'[r] = Idle

\* Whoever has a social account only is not given a password beside it, unless the
\* look failed or somebody wrote after it.
NoSecondAccountStep ==
  \A e \in Email :
    /\ pool[e].social
    /\ ~HasPassword(e)
    /\ HasPassword(e)'
    => StepOfStale

\* However an address signs in, it has one row, unless two requests made theirs at the
\* same time: the table does not refuse the second.
OneRowStep ==
  \A e \in Email :
    Rows(e) # {} /\ Cardinality(Rows(e)') > Cardinality(Rows(e)) => StepOfStale

\* A name the user typed is not replaced by that of a token, unless the request read
\* the row before he typed it.
TypedNameStep ==
  \A s \in Sub :
    users[s].name = "typed" /\ users'[s].name # "typed" => StepOfStale
=============================================================================
