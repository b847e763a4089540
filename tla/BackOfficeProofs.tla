--------------------------- MODULE BackOfficeProofs ---------------------------
(***************************************************************************)
(* Theorems of BackOffice, for any sets of addresses, tenants, users,      *)
(* requests, rows and cases: the accounts, the memberships, the board of   *)
(* an automation, its activity, the imports, and the types of all of them. *)
(* A behaviour is about one part; what a part keeps is proved of its own   *)
(* steps, and the steps of the others leave its variables alone.           *)
(***************************************************************************)
EXTENDS BackOffice, FiniteSetTheorems, SequenceTheorems, SumTheorems, TLAPS

\* A step is one of a part, or leaves the part alone.
LEMMA PartSteps ==
  ASSUME [Next]_vars
  PROVE  /\ part' = part
         /\ (part = "accounts" /\ A!Next) \/ UNCHANGED accounts
         /\ (part = "memberships" /\ M!Next) \/ UNCHANGED memberships
         /\ (part = "imports" /\ I!Next) \/ UNCHANGED imports
         /\ (part = "board" /\ B!Next) \/ UNCHANGED board
         /\ (part = "activity" /\ F!Next) \/ UNCHANGED activity
BY DEF Next, vars

-----------------------------------------------------------------------------
(***************************************************************************)
(* Accounts.  A request that has not been overtaken still sees what it     *)
(* decided by: no social account where it signs up, no row where it makes  *)
(* one, no name where it fills one in.                                     *)
(***************************************************************************)
AccountsType ==
  /\ A!TypeOK
  /\ \A s \in A!Sub : users[s].status = "none" => users[s].name # "typed"

Fresh ==
  \A r \in Request : ~call[r].stale =>
    /\ call[r].at = "signup" => ~pool[call[r].email].social
    /\ call[r].at = "profile" => A!Rows(call[r].sub[1]) = {}
    /\ call[r].at = "fill" => users[call[r].sub].name = "none"

\* The row that is to be renamed is there.
RowIsThere == \A r \in Request : call[r].at = "rename" => users[call[r].sub].status # "none"

LEMMA SubType ==
  ASSUME NEW s \in A!Sub
  PROVE  s[1] \in Email /\ s = <<s[1], s[2]>> /\ s[2] \in A!Kind
BY DEF A!Sub

LEMMA SubOfEmail ==
  ASSUME NEW e \in Email
  PROVE  <<e, "password">> \in A!Sub /\ <<e, "social">> \in A!Sub
         /\ <<e, "password">>[1] = e /\ <<e, "social">>[1] = e
BY DEF A!Sub, A!Kind

LEMMA IdleType ==
  A!Idle \in A!RequestRecord /\ A!Idle.at = "idle" /\ ~A!Idle.stale
<1>1. A!AnyEmail \in Email
  BY BackOfficeAssumption DEF A!AccountsAssumption, A!AnyEmail
<1>2. <<A!AnyEmail, "password">> \in A!Sub
  BY <1>1 DEF A!Sub, A!Kind
<1> QED BY <1>1, <1>2 DEF A!Idle, A!RequestRecord, A!Phase

\* A write leaves its request where it says, and the others where they were.
LEMMA WrittenType ==
  ASSUME call \in [Request -> A!RequestRecord], NEW r \in Request, NEW next \in A!RequestRecord,
         A!Written(r, next)
  PROVE  /\ call' \in [Request -> A!RequestRecord]
         /\ call'[r] = next
         /\ \A q \in Request \ {r} : /\ call'[q].at = call[q].at /\ call'[q].sub = call[q].sub
                                     /\ call'[q].stale = (call[q].at # "idle")
BY DEF A!Written, A!RequestRecord

LEMMA BeginType ==
  ASSUME call \in [Request -> A!RequestRecord], NEW r \in Request, NEW s \in A!Sub,
         NEW phase \in A!Phase, A!Begin(r, phase, s)
  PROVE  /\ call' \in [Request -> A!RequestRecord]
         /\ call'[r].at = phase /\ call'[r].email = s[1] /\ call'[r].sub = s /\ ~call'[r].stale
         /\ \A q \in Request \ {r} : call'[q] = call[q]
<1>1. [at |-> phase, email |-> s[1], sub |-> s, stale |-> FALSE] \in A!RequestRecord
  BY SubType DEF A!RequestRecord
<1> QED BY <1>1 DEF A!Begin

LEMMA FreshBegun ==
  ASSUME Fresh, NEW r \in Request, UNCHANGED <<pool, users>>,
         \A q \in Request \ {r} : call'[q] = call[q],
         ~call'[r].stale =>
           /\ call'[r].at = "signup" => ~pool[call'[r].email].social
           /\ call'[r].at = "profile" => A!Rows(call'[r].sub[1]) = {}
           /\ call'[r].at = "fill" => users[call'[r].sub].name = "none"
  PROVE  Fresh'
BY DEF Fresh, A!Rows

LEMMA FreshWritten ==
  ASSUME NEW r \in Request, call'[r].at \in {"idle", "social"},
         \A q \in Request \ {r} : call'[q].stale = (call'[q].at # "idle")
  PROVE  Fresh'
BY DEF Fresh

\* What is found for a subject has a row.
LEMMA FoundType ==
  ASSUME users \in [A!Sub -> A!UserRow], NEW s \in A!Sub
  PROVE  /\ A!FoundForAuth(s) \subseteq A!Sub /\ A!GetUserByAuth(s) \subseteq A!Sub
         /\ \A row \in A!FoundForAuth(s) \cup A!GetUserByAuth(s) : users[row].status # "none"
         /\ A!FoundForAuth(s) = {} => A!Rows(s[1]) = {}
BY SubType DEF A!FoundForAuth, A!GetUserByAuth, A!FoundBySub, A!AddressOf, A!Rows

LEMMA SignUpSteps ==
  ASSUME AccountsType, Fresh, NEW r \in Request, NEW e \in Email,
         A!BeginRegister(r, e) \/ A!BeginRegisterUnseen(r, e)
  PROVE  AccountsType' /\ Fresh'
<1>0. /\ call \in [Request -> A!RequestRecord] /\ UNCHANGED <<pool, users, session>>
      /\ <<e, "password">> \in A!Sub /\ <<e, "password">>[1] = e
      /\ "signup" \in A!Phase
  BY SubOfEmail DEF A!BeginRegister, A!BeginRegisterUnseen, AccountsType, A!TypeOK, A!Phase
<1>1. CASE A!BeginRegister(r, e)
  <2>1. ~pool[e].social
    BY <1>1 DEF A!BeginRegister, A!MayRegister, A!AuthMethod
  <2>2. /\ call' \in [Request -> A!RequestRecord]
        /\ call'[r].at = "signup" /\ call'[r].email = e
        /\ \A q \in Request \ {r} : call'[q] = call[q]
    BY <1>0, <1>1, BeginType DEF A!BeginRegister
  <2>3. Fresh'
    BY <1>0, <2>1, <2>2, FreshBegun
  <2> QED BY <1>0, <2>2, <2>3 DEF AccountsType, A!TypeOK
<1>2. CASE A!BeginRegisterUnseen(r, e)
  <2> DEFINE new == [at |-> "signup", email |-> e, sub |-> <<e, "password">>, stale |-> TRUE]
  <2>1. new \in A!RequestRecord /\ new.stale
    BY <1>0 DEF A!RequestRecord
  <2>2. call' = [call EXCEPT ![r] = new]
    BY <1>2 DEF A!BeginRegisterUnseen
  <2> HIDE DEF new
  <2>3. /\ call' \in [Request -> A!RequestRecord] /\ call'[r].stale
        /\ \A q \in Request \ {r} : call'[q] = call[q]
    BY <1>0, <2>1, <2>2
  <2>4. Fresh'
    BY <1>0, <2>3, FreshBegun
  <2> QED BY <1>0, <2>3, <2>4 DEF AccountsType, A!TypeOK
<1> QED BY <1>1, <1>2

\* Requests that write and end, or go on to make a row.
LEMMA WriteSteps ==
  ASSUME AccountsType, NEW r \in Request,
         \/ A!SignUp(r)
         \/ \E e \in Email : A!OauthCallback(r, e)
         \/ \E name \in {"none", "token"} : A!EnsureCreate(r, name)
         \/ A!EnsureFill(r)
  PROVE  AccountsType' /\ Fresh'
<1>0. /\ call \in [Request -> A!RequestRecord] /\ pool \in [Email -> A!PoolRecord]
      /\ users \in [A!Sub -> A!UserRow] /\ session \subseteq A!Sub
  BY DEF AccountsType, A!TypeOK
<1>keep. ASSUME NEW next \in A!RequestRecord, next.at \in {"idle", "social"}, A!Written(r, next)
         PROVE  call' \in [Request -> A!RequestRecord] /\ Fresh'
  <2>1. /\ call' \in [Request -> A!RequestRecord]
        /\ call'[r].at \in {"idle", "social"}
        /\ \A q \in Request \ {r} : call'[q].stale = (call'[q].at # "idle")
    BY <1>0, <1>keep, WrittenType
  <2> QED BY <2>1, FreshWritten
<1>1. CASE A!SignUp(r)
  <2>1. call' \in [Request -> A!RequestRecord] /\ Fresh'
    BY <1>1, <1>keep, IdleType DEF A!SignUp, A!Done
  <2>2. pool' \in [Email -> A!PoolRecord]
    BY <1>0, <1>1 DEF A!SignUp, A!PoolRecord
  <2> QED BY <1>1, <2>1, <2>2 DEF A!SignUp, AccountsType, A!TypeOK
<1>2. ASSUME NEW e \in Email, A!OauthCallback(r, e)
      PROVE  AccountsType' /\ Fresh'
  <2> DEFINE made == [at |-> "social", email |-> e, sub |-> <<e, "social">>, stale |-> FALSE]
  <2>1. made \in A!RequestRecord /\ made.at = "social"
    BY SubOfEmail DEF A!RequestRecord, A!Phase
  <2>2. /\ A!Written(r, A!Idle) \/ A!Written(r, made)
        /\ session' \in {session, session \cup {<<e, "social">>}}
        /\ pool' = [pool EXCEPT ![e].social = TRUE] /\ users' = users
    BY <1>2 DEF A!OauthCallback, A!ExchangeCode, A!SetAuthCookies
  <2> HIDE DEF made
  <2>3. call' \in [Request -> A!RequestRecord] /\ Fresh'
    BY <1>keep, <2>1, <2>2, IdleType
  <2>4. pool' \in [Email -> A!PoolRecord] /\ session' \subseteq A!Sub
    BY <1>0, <2>2, SubOfEmail DEF A!PoolRecord
  <2> QED BY <2>2, <2>3, <2>4 DEF AccountsType, A!TypeOK
<1>3. ASSUME NEW name \in {"none", "token"}, A!EnsureCreate(r, name)
      PROVE  AccountsType' /\ Fresh'
  <2>1. call' \in [Request -> A!RequestRecord] /\ Fresh'
    BY <1>3, <1>keep, IdleType DEF A!EnsureCreate, A!Done
  <2>2. call[r].sub \in A!Sub
    BY <1>0 DEF A!RequestRecord
  <2>3. users' = users \/ users' = [users EXCEPT ![call[r].sub] = [status |-> "active", name |-> name]]
    BY <1>3 DEF A!EnsureCreate, A!NewRow
  <2>4. /\ users' \in [A!Sub -> A!UserRow]
        /\ \A s \in A!Sub : users'[s].status = "none" => users'[s].name # "typed"
    BY <1>0, <2>2, <2>3 DEF AccountsType, A!UserRow
  <2> QED BY <1>3, <2>1, <2>4 DEF A!EnsureCreate, AccountsType, A!TypeOK
<1>4. CASE A!EnsureFill(r)
  <2>1. call' \in [Request -> A!RequestRecord] /\ Fresh'
    BY <1>4, <1>keep, IdleType DEF A!EnsureFill, A!Done
  <2>2. call[r].sub \in A!Sub /\ users' = [users EXCEPT ![call[r].sub].name = "token"]
    BY <1>0, <1>4 DEF A!EnsureFill, A!RequestRecord
  <2>3. /\ users' \in [A!Sub -> A!UserRow]
        /\ \A s \in A!Sub : users'[s].status = "none" => users'[s].name # "typed"
    BY <1>0, <2>2 DEF AccountsType, A!UserRow
  <2> QED BY <1>4, <2>1, <2>3 DEF A!EnsureFill, AccountsType, A!TypeOK
<1> QED BY <1>1, <1>2, <1>3, <1>4

\* Requests that only look, and browsers.
LEMMA ReadSteps ==
  ASSUME AccountsType, Fresh,
         \/ \E e \in Email : A!Confirm(e) \/ A!Login(e)
         \/ \E s \in A!Sub : A!Logout(s)
         \/ \E r \in Request : \/ A!EnsureFind(r) \/ A!Fail(r)
                             \/ \E s \in A!Sub : A!Me(r, s) \/ A!BeginUpdateMe(r, s)
  PROVE  AccountsType' /\ Fresh'
<1>0. /\ call \in [Request -> A!RequestRecord] /\ pool \in [Email -> A!PoolRecord]
      /\ users \in [A!Sub -> A!UserRow] /\ session \subseteq A!Sub
  BY DEF AccountsType, A!TypeOK
<1>1. ASSUME NEW e \in Email, A!Confirm(e)
      PROVE  AccountsType' /\ Fresh'
  <2>1. /\ pool' \in [Email -> A!PoolRecord] /\ \A f \in Email : pool'[f].social = pool[f].social
        /\ UNCHANGED <<users, session, call>>
    BY <1>0, <1>1 DEF A!Confirm, A!PoolRecord
  <2>2. \A r \in Request : call[r].email \in Email
    BY <1>0 DEF A!RequestRecord
  <2> QED BY <2>1, <2>2 DEF AccountsType, A!TypeOK, Fresh, A!Rows
<1>2. ASSUME NEW s \in A!Sub, A!Logout(s) \/ \E e \in Email : s = <<e, "password">> /\ A!Login(e)
      PROVE  AccountsType' /\ Fresh'
  <2>1. session' \subseteq A!Sub /\ UNCHANGED <<users, pool, call>>
    BY <1>0, <1>2 DEF A!Logout, A!Login, A!SetAuthCookies, A!ClearAuthCookies
  <2> QED BY <2>1 DEF AccountsType, A!TypeOK, Fresh, A!Rows
<1>3. ASSUME NEW r \in Request, A!EnsureFind(r)
      PROVE  AccountsType' /\ Fresh'
  <2> DEFINE s == call[r].sub
  <2>0. s \in A!Sub /\ UNCHANGED <<pool, users, session>>
    BY <1>0, <1>3 DEF A!EnsureFind, A!RequestRecord
  <2>1. CASE A!FoundForAuth(s) = {} /\ call' = [call EXCEPT ![r].at = "profile", ![r].stale = FALSE]
    <3>1. A!Rows(s[1]) = {}
      BY <1>0, <2>0, <2>1, FoundType
    <3>2. /\ call' \in [Request -> A!RequestRecord] /\ call'[r].at = "profile" /\ call'[r].sub = s
          /\ \A q \in Request \ {r} : call'[q] = call[q]
      BY <1>0, <2>1 DEF A!RequestRecord, A!Phase
    <3>3. Fresh'
      BY <2>0, <3>1, <3>2, FreshBegun
    <3> QED BY <2>0, <3>2, <3>3 DEF AccountsType, A!TypeOK
  <2>2. ASSUME NEW row \in A!FoundForAuth(s), NEW next,
               \/ next = A!Idle
               \/ /\ A!NeedsName(row)
                  /\ next = [at |-> "fill", email |-> s[1], sub |-> row, stale |-> FALSE],
               call' = [call EXCEPT ![r] = next]
        PROVE  AccountsType' /\ Fresh'
    <3>1. row \in A!Sub
      BY <1>0, <2>0, FoundType
    <3>2. next \in A!RequestRecord
      <4>1. s[1] \in Email
        BY <2>0, SubType
      <4>2. [at |-> "fill", email |-> s[1], sub |-> row, stale |-> FALSE] \in A!RequestRecord
        BY <3>1, <4>1 DEF A!RequestRecord, A!Phase
      <4> QED BY <2>2, <4>2, IdleType
    <3>3. /\ call' \in [Request -> A!RequestRecord] /\ call'[r] = next
          /\ \A q \in Request \ {r} : call'[q] = call[q]
      BY <1>0, <2>2, <3>2
    <3>4. /\ next.at \in {"idle", "fill"}
          /\ next.at = "fill" => users[next.sub].name = "none"
      BY <2>2, IdleType DEF A!NeedsName
    <3>5. Fresh'
      BY <2>0, <3>3, <3>4, FreshBegun
    <3> QED BY <2>0, <3>3, <3>5 DEF AccountsType, A!TypeOK
  <2>3. CASE A!FoundForAuth(s) # {}
    <3>1. PICK row \in A!FoundForAuth(s), named \in BOOLEAN :
            call' = [call EXCEPT
              ![r] = IF named /\ A!NeedsName(row)
                       THEN [at |-> "fill", email |-> s[1], sub |-> row, stale |-> FALSE]
                       ELSE A!Idle]
      BY <1>3, <2>3 DEF A!EnsureFind
    <3>2. CASE named /\ A!NeedsName(row)
      BY <2>2, <3>1, <3>2
    <3>3. CASE ~(named /\ A!NeedsName(row))
      BY <2>2, <3>1, <3>3
    <3> QED BY <3>2, <3>3
  <2> QED BY <1>3, <2>1, <2>3 DEF A!EnsureFind
<1>4. ASSUME NEW r \in Request, A!Fail(r)
      PROVE  AccountsType' /\ Fresh'
  <2>1. /\ call' \in [Request -> A!RequestRecord] /\ call'[r].at = "idle"
        /\ \A q \in Request \ {r} : call'[q] = call[q]
        /\ UNCHANGED <<pool, users, session>>
    BY <1>0, <1>4, IdleType DEF A!Fail
  <2>2. Fresh'
    BY <2>1, FreshBegun
  <2> QED BY <2>1, <2>2 DEF AccountsType, A!TypeOK
<1>5. ASSUME NEW r \in Request, NEW s \in A!Sub, A!Me(r, s)
      PROVE  AccountsType' /\ Fresh'
  <2>1. "ensure" \in A!Phase /\ UNCHANGED <<pool, users, session>> /\ A!Begin(r, "ensure", s)
    BY <1>5 DEF A!Me, A!Phase
  <2>2. /\ call' \in [Request -> A!RequestRecord] /\ call'[r].at = "ensure"
        /\ \A q \in Request \ {r} : call'[q] = call[q]
    BY <1>0, <2>1, BeginType
  <2>3. Fresh'
    BY <2>1, <2>2, FreshBegun
  <2> QED BY <2>1, <2>2, <2>3 DEF AccountsType, A!TypeOK
<1>6. ASSUME NEW e \in Email, A!Login(e)
      PROVE  AccountsType' /\ Fresh'
  BY <1>2, <1>6, SubOfEmail
<1>7. ASSUME NEW r \in Request, NEW s \in A!Sub, A!BeginUpdateMe(r, s)
      PROVE  AccountsType' /\ Fresh'
  <2>1. PICK row \in A!GetUserByAuth(s) : A!Begin(r, "rename", row)
    BY <1>7 DEF A!BeginUpdateMe
  <2>2. "rename" \in A!Phase /\ UNCHANGED <<pool, users, session>> /\ row \in A!Sub
    BY <1>0, <1>7, FoundType DEF A!BeginUpdateMe, A!Phase
  <2>3. /\ call' \in [Request -> A!RequestRecord] /\ call'[r].at = "rename"
        /\ \A q \in Request \ {r} : call'[q] = call[q]
    BY <1>0, <2>1, <2>2, BeginType
  <2>4. Fresh'
    BY <2>2, <2>3, FreshBegun
  <2> QED BY <2>2, <2>3, <2>4 DEF AccountsType, A!TypeOK
<1> QED BY <1>1, <1>2, <1>3, <1>4, <1>5, <1>6, <1>7

\* A name the user types: what every request has read is out of date.
LEMMA TypeStep ==
  ASSUME AccountsType, RowIsThere, NEW r \in Request, A!UpdateMe(r)
  PROVE  AccountsType' /\ Fresh'
<1>0. /\ call \in [Request -> A!RequestRecord] /\ users \in [A!Sub -> A!UserRow]
      /\ A!Written(r, A!Idle)
  BY DEF AccountsType, A!TypeOK, A!UpdateMe, A!Done
<1>1. /\ call' \in [Request -> A!RequestRecord] /\ call'[r].at = "idle"
      /\ \A q \in Request \ {r} : call'[q].stale = (call'[q].at # "idle")
  BY <1>0, IdleType, WrittenType
<1>2. /\ call[r].sub \in A!Sub /\ users[call[r].sub].status # "none"
      /\ users' = [users EXCEPT ![call[r].sub].name = "typed"]
  BY <1>0 DEF A!UpdateMe, A!RequestRecord, RowIsThere
<1>3. /\ users' \in [A!Sub -> A!UserRow]
      /\ \A t \in A!Sub : users'[t].status = "none" => users'[t].name # "typed"
  BY <1>0, <1>2 DEF AccountsType, A!UserRow
<1>4. Fresh'
  BY <1>1, FreshWritten
<1> QED BY <1>1, <1>3, <1>4 DEF A!UpdateMe, AccountsType, A!TypeOK

LEMMA AccountsStep ==
  ASSUME AccountsType, Fresh, RowIsThere, [Next]_vars
  PROVE  AccountsType' /\ Fresh'
<1>1. CASE A!Next
  BY <1>1, SignUpSteps, WriteSteps, ReadSteps, TypeStep DEF A!Next
<1>2. CASE UNCHANGED accounts
  BY <1>2 DEF accounts, AccountsType, A!TypeOK, Fresh, A!Rows
<1> QED BY <1>1, <1>2, PartSteps

\* A request gets to rename by finding a row, and keeps it.
LEMMA RenameBegun ==
  ASSUME AccountsType, A!Next, NEW q \in Request, call'[q].at = "rename"
  PROVE  \/ call[q].at = "rename" /\ call'[q].sub = call[q].sub
         \/ call'[q].sub \in A!Sub /\ users[call'[q].sub].status # "none"
<1>0. call \in [Request -> A!RequestRecord] /\ users \in [A!Sub -> A!UserRow]
  BY DEF AccountsType, A!TypeOK
<1>1. ASSUME NEW r \in Request, NEW next \in A!RequestRecord, next.at # "rename", A!Written(r, next)
      PROVE  call[q].at = "rename" /\ call'[q].sub = call[q].sub
  BY <1>0, <1>1, WrittenType
<1>2. ASSUME NEW r \in Request, NEW s \in A!Sub, NEW phase \in A!Phase, phase # "rename",
             A!Begin(r, phase, s)
      PROVE  call[q].at = "rename" /\ call'[q].sub = call[q].sub
  BY <1>0, <1>2, BeginType
<1>3. ASSUME NEW r \in Request, NEW e \in Email, A!OauthCallback(r, e)
      PROVE  call[q].at = "rename" /\ call'[q].sub = call[q].sub
  <2> DEFINE made == [at |-> "social", email |-> e, sub |-> <<e, "social">>, stale |-> FALSE]
  <2>1. made \in A!RequestRecord /\ made.at # "rename"
    BY SubOfEmail DEF A!RequestRecord, A!Phase
  <2>2. A!Written(r, A!Idle) \/ A!Written(r, made)
    BY <1>3 DEF A!OauthCallback
  <2> HIDE DEF made
  <2> QED BY <1>1, <2>1, <2>2, IdleType
<1>4. ASSUME NEW r \in Request, NEW e \in Email, A!BeginRegister(r, e) \/ A!BeginRegisterUnseen(r, e)
      PROVE  call[q].at = "rename" /\ call'[q].sub = call[q].sub
  <2>1. <<e, "password">> \in A!Sub /\ "signup" \in A!Phase
    BY SubOfEmail DEF A!Phase
  <2>2. CASE A!BeginRegister(r, e)
    BY <1>2, <2>1, <2>2 DEF A!BeginRegister
  <2>3. CASE A!BeginRegisterUnseen(r, e)
    <3> DEFINE new == [at |-> "signup", email |-> e, sub |-> <<e, "password">>, stale |-> TRUE]
    <3>1. call' = [call EXCEPT ![r] = new] /\ new.at # "rename"
      BY <2>3 DEF A!BeginRegisterUnseen
    <3> HIDE DEF new
    <3> QED BY <1>0, <3>1
  <2> QED BY <1>4, <2>2, <2>3
<1>5. ASSUME NEW r \in Request, A!EnsureFind(r)
      PROVE  call[q].at = "rename" /\ call'[q].sub = call[q].sub
  <2>1. CASE call' = [call EXCEPT ![r].at = "profile", ![r].stale = FALSE]
    BY <1>0, <2>1 DEF A!RequestRecord
  <2>2. ASSUME NEW next, call' = [call EXCEPT ![r] = next], next.at # "rename"
        PROVE  call[q].at = "rename" /\ call'[q].sub = call[q].sub
    BY <1>0, <2>2
  <2>3. CASE A!FoundForAuth(call[r].sub) # {}
    <3>1. PICK row \in A!FoundForAuth(call[r].sub), named \in BOOLEAN :
            call' = [call EXCEPT
              ![r] = IF named /\ A!NeedsName(row)
                       THEN [at |-> "fill", email |-> call[r].sub[1], sub |-> row, stale |-> FALSE]
                       ELSE A!Idle]
      BY <1>5, <2>3 DEF A!EnsureFind
    <3>2. CASE named /\ A!NeedsName(row)
      BY <2>2, <3>1, <3>2
    <3>3. CASE ~(named /\ A!NeedsName(row))
      BY <2>2, <3>1, <3>3, IdleType
    <3> QED BY <3>2, <3>3
  <2> QED BY <1>5, <2>1, <2>3 DEF A!EnsureFind
<1>6. ASSUME NEW r \in Request, A!Fail(r)
      PROVE  call[q].at = "rename" /\ call'[q].sub = call[q].sub
  BY <1>0, <1>6, IdleType DEF A!Fail
<1>7. ASSUME NEW r \in Request, NEW s \in A!Sub, A!BeginUpdateMe(r, s)
      PROVE  \/ call[q].at = "rename" /\ call'[q].sub = call[q].sub
             \/ call'[q].sub \in A!Sub /\ users[call'[q].sub].status # "none"
  <2>1. PICK row \in A!GetUserByAuth(s) : A!Begin(r, "rename", row)
    BY <1>7 DEF A!BeginUpdateMe
  <2>2. row \in A!Sub /\ users[row].status # "none" /\ "rename" \in A!Phase
    BY <1>0, FoundType DEF A!Phase
  <2> QED BY <1>0, <2>1, <2>2, BeginType
<1>8. ASSUME NEW r \in Request, NEW s \in A!Sub, A!Me(r, s)
      PROVE  call[q].at = "rename" /\ call'[q].sub = call[q].sub
  BY <1>2, <1>8 DEF A!Me, A!Phase
<1>9. ASSUME NEW r \in Request,
             \/ A!SignUp(r) \/ A!EnsureFill(r) \/ A!UpdateMe(r)
             \/ \E name \in {"none", "token"} : A!EnsureCreate(r, name)
      PROVE  call[q].at = "rename" /\ call'[q].sub = call[q].sub
  BY <1>1, <1>9, IdleType DEF A!SignUp, A!EnsureFill, A!UpdateMe, A!EnsureCreate, A!Done
<1>10. ASSUME call' = call
       PROVE  call[q].at = "rename" /\ call'[q].sub = call[q].sub
  BY <1>10
<1>11. CASE \E r \in Request, e \in Email :
              A!BeginRegister(r, e) \/ A!BeginRegisterUnseen(r, e) \/ A!OauthCallback(r, e)
  BY <1>3, <1>4, <1>11
<1>12. CASE (\E e \in Email : A!Confirm(e) \/ A!Login(e)) \/ \E s \in A!Sub : A!Logout(s)
  BY <1>10, <1>12 DEF A!Confirm, A!Login, A!Logout
<1>13. CASE \E r \in Request :
              \/ A!SignUp(r) \/ A!EnsureFind(r) \/ A!EnsureFill(r) \/ A!UpdateMe(r) \/ A!Fail(r)
              \/ \E name \in {"none", "token"} : A!EnsureCreate(r, name)
              \/ \E s \in A!Sub : A!Me(r, s) \/ A!BeginUpdateMe(r, s)
  BY <1>5, <1>6, <1>7, <1>8, <1>9, <1>13
<1> QED BY <1>11, <1>12, <1>13 DEF A!Next

LEMMA AccountsInit ==
  ASSUME Init PROVE AccountsType /\ Fresh /\ RowIsThere
<1>1. A!Init
  BY DEF Init
<1>2. /\ pool \in [Email -> A!PoolRecord] /\ users \in [A!Sub -> A!UserRow] /\ session \subseteq A!Sub
      /\ \A s \in A!Sub : users[s].name = "none"
  BY <1>1 DEF A!Init, A!PoolRecord, A!UserRow, A!NoRow
<1>3. /\ call \in [Request -> A!RequestRecord]
      /\ \A r \in Request : call[r].at = "idle"
  BY <1>1, IdleType DEF A!Init
<1> QED BY <1>2, <1>3 DEF AccountsType, A!TypeOK, Fresh, RowIsThere

\* The steps that write the provider's accounts, and those that write the rows.
LEMMA PoolWrites ==
  ASSUME [Next]_vars, pool' # pool
  PROVE  \/ \E r \in Request : A!SignUp(r)
         \/ \E f \in Email : A!Confirm(f)
         \/ \E f \in Email, r \in Request : A!OauthCallback(r, f)
<1>1. A!Next
  BY PartSteps DEF accounts
<1> QED BY <1>1 DEF A!Next, A!BeginRegister, A!BeginRegisterUnseen, A!Login, A!Logout, A!UpdateMe,
                   A!EnsureFind, A!EnsureFill, A!Fail, A!EnsureCreate, A!Me, A!BeginUpdateMe

LEMMA UserWrites ==
  ASSUME [Next]_vars, users' # users
  PROVE  \/ \E r \in Request, name \in {"none", "token"} : A!EnsureCreate(r, name)
         \/ \E r \in Request : A!EnsureFill(r)
         \/ \E r \in Request : A!UpdateMe(r)
<1>1. A!Next
  BY PartSteps DEF accounts
<1> QED BY <1>1 DEF A!Next, A!BeginRegister, A!BeginRegisterUnseen, A!Login, A!Logout,
                   A!EnsureFind, A!Fail, A!Me, A!BeginUpdateMe, A!SignUp, A!Confirm,
                   A!OauthCallback

\* No row is taken away, so a row that was found is still there.
LEMMA FoundStep ==
  ASSUME AccountsType, RowIsThere, [Next]_vars
  PROVE  RowIsThere'
<1>0. call \in [Request -> A!RequestRecord] /\ users \in [A!Sub -> A!UserRow]
  BY DEF AccountsType, A!TypeOK
<1>1. \A s \in A!Sub : users[s].status # "none" => users'[s].status # "none"
  <2>1. ASSUME NEW r \in Request, NEW name \in {"none", "token"}, A!EnsureCreate(r, name)
        PROVE  \A s \in A!Sub : users[s].status # "none" => users'[s].status # "none"
    BY <1>0, <2>1 DEF A!EnsureCreate, A!NewRow
  <2>2. ASSUME NEW r \in Request, A!EnsureFill(r) \/ A!UpdateMe(r)
        PROVE  \A s \in A!Sub : users[s].status # "none" => users'[s].status # "none"
    BY <1>0, <2>2 DEF A!EnsureFill, A!UpdateMe, A!UserRow
  <2> QED BY <2>1, <2>2, UserWrites
<1>2. ASSUME NEW q \in Request, call'[q].at = "rename"
      PROVE  users'[call'[q].sub].status # "none"
  <2>1. CASE A!Next
    <3>1. \/ call[q].at = "rename" /\ call'[q].sub = call[q].sub
          \/ call'[q].sub \in A!Sub /\ users[call'[q].sub].status # "none"
      BY <1>2, <2>1, RenameBegun
    <3>2. call[q].sub \in A!Sub
      BY <1>0 DEF A!RequestRecord
    <3> QED BY <1>1, <3>1, <3>2 DEF RowIsThere
  <2>2. CASE UNCHANGED accounts
    BY <1>2, <2>2 DEF accounts, RowIsThere
  <2> QED BY <2>1, <2>2, PartSteps
<1> QED BY <1>2 DEF RowIsThere

\* Cardinality is the same in every part.
LEMMA SameCardinality ==
  ASSUME NEW S
  PROVE  /\ A!Cardinality(S) = Cardinality(S)
         /\ M!Cardinality(S) = Cardinality(S)
         /\ I!Cardinality(S) = Cardinality(S)
         /\ B!Cardinality(S) = Cardinality(S)
         /\ F!Cardinality(S) = Cardinality(S)
BY DEF A!Cardinality, M!Cardinality, I!Cardinality, B!Cardinality, F!Cardinality, Cardinality

LEMMA RowsCounted ==
  ASSUME NEW e \in Email
  PROVE  Cardinality(A!Rows(e)) \in Nat
<1>1. IsFiniteSet({<<e, "password">>} \cup {<<e, "social">>})
  BY FS_Singleton, FS_AddElement
<1>2. A!Rows(e) \subseteq {<<e, "password">>} \cup {<<e, "social">>}
  BY DEF A!Rows, A!Sub, A!Kind
<1>3. IsFiniteSet(A!Rows(e))
  BY <1>1, <1>2, FS_Subset
<1> QED BY <1>3, FS_CardinalityType

LEMMA DoneType ==
  ASSUME AccountsType, NEW r \in Request, A!Done(r)
  PROVE  call'[r] = A!Idle
BY WrittenType, IdleType DEF A!Done, AccountsType, A!TypeOK

LEMMA SecondAccountSafe ==
  ASSUME AccountsType, Fresh, [Next]_vars
  PROVE  A!NoSecondAccountStep
<1> SUFFICES ASSUME NEW e \in Email, pool[e].social, ~A!HasPassword(e), A!HasPassword(e)'
             PROVE  A!StepOfStale
  BY DEF A!NoSecondAccountStep
<1>0. call \in [Request -> A!RequestRecord] /\ pool \in [Email -> A!PoolRecord]
  BY DEF AccountsType, A!TypeOK
<1>1. ASSUME NEW r \in Request, A!SignUp(r)
      PROVE  A!StepOfStale
  <2>1. pool' = [pool EXCEPT ![call[r].email].password = "unconfirmed"]
    BY <1>1 DEF A!SignUp, A!HasPassword
  <2>2. call[r].email = e
    BY <1>0, <2>1 DEF A!HasPassword, A!PoolRecord
  <2>3. call[r].stale
    BY <1>1, <2>2 DEF Fresh, A!SignUp
  <2>4. call'[r] = A!Idle
    BY <1>1, DoneType DEF A!SignUp
  <2> QED BY <2>3, <2>4 DEF A!StepOfStale
<1>2. ASSUME NEW f \in Email, A!Confirm(f)
      PROVE  FALSE
  BY <1>0, <1>2 DEF A!Confirm, A!HasPassword, A!PoolRecord
<1>3. ASSUME NEW f \in Email, NEW r \in Request, A!OauthCallback(r, f)
      PROVE  FALSE
  BY <1>0, <1>3 DEF A!OauthCallback, A!ExchangeCode, A!HasPassword, A!PoolRecord
<1>4. pool' # pool
  BY DEF A!HasPassword
<1> QED BY <1>1, <1>2, <1>3, <1>4, PoolWrites

\* A row is made by createFromAuth only, and none is taken away.
LEMMA OneRowSafe ==
  ASSUME AccountsType, Fresh, [Next]_vars
  PROVE  A!OneRowStep
<1> SUFFICES ASSUME NEW e \in Email,
                    A!Rows(e) # {} /\ Cardinality(A!Rows(e)') > Cardinality(A!Rows(e))
             PROVE  A!StepOfStale
  BY SameCardinality, Zenon DEF A!OneRowStep
<1>0. call \in [Request -> A!RequestRecord] /\ users \in [A!Sub -> A!UserRow]
  BY DEF AccountsType, A!TypeOK
<1>1. ASSUME \A s \in A!Sub : s[1] = e => users'[s].status = users[s].status
      PROVE  FALSE
  <2>1. A!Rows(e)' = A!Rows(e)
    BY <1>1 DEF A!Rows
  <2> QED BY <2>1, RowsCounted
<1>2. ASSUME NEW r \in Request, NEW name \in {"none", "token"}, A!EnsureCreate(r, name)
      PROVE  A!StepOfStale
  <2>1. call[r].sub \in A!Sub /\ call[r].at = "profile"
    BY <1>0, <1>2 DEF A!EnsureCreate, A!RequestRecord
  <2>2. users' = users \/ users' = [users EXCEPT ![call[r].sub] = [status |-> "active", name |-> name]]
    BY <1>2 DEF A!EnsureCreate, A!NewRow
  <2>3. call[r].sub[1] = e
    BY <1>0, <1>1, <2>1, <2>2
  <2>4. call[r].stale
    BY <2>1, <2>3 DEF Fresh
  <2>5. call'[r] = A!Idle
    BY <1>2, DoneType DEF A!EnsureCreate
  <2> QED BY <2>4, <2>5 DEF A!StepOfStale
<1>3. ASSUME NEW r \in Request, A!EnsureFill(r)
      PROVE  FALSE
  <2>1. call[r].sub \in A!Sub /\ users' = [users EXCEPT ![call[r].sub].name = "token"]
    BY <1>0, <1>3 DEF A!EnsureFill, A!RequestRecord
  <2> QED BY <1>0, <1>1, <2>1 DEF A!UserRow
<1>4. ASSUME NEW r \in Request, A!UpdateMe(r)
      PROVE  FALSE
  <2>1. call[r].sub \in A!Sub /\ users' = [users EXCEPT ![call[r].sub].name = "typed"]
    BY <1>0, <1>4 DEF A!UpdateMe, A!RequestRecord
  <2> QED BY <1>0, <1>1, <2>1 DEF A!UserRow
<1>5. users' # users
  BY <1>1
<1> QED BY <1>2, <1>3, <1>4, <1>5, UserWrites

LEMMA TypedNameSafe ==
  ASSUME AccountsType, Fresh, [Next]_vars
  PROVE  A!TypedNameStep
<1> SUFFICES ASSUME NEW s \in A!Sub, users[s].name = "typed", users'[s].name # "typed"
             PROVE  A!StepOfStale
  BY DEF A!TypedNameStep
<1>0. call \in [Request -> A!RequestRecord] /\ users \in [A!Sub -> A!UserRow]
  BY DEF AccountsType, A!TypeOK
<1>1. ASSUME NEW r \in Request, NEW name \in {"none", "token"}, A!EnsureCreate(r, name)
      PROVE  FALSE
  <2>1. users[s].status # "none"
    BY DEF AccountsType
  <2>2. users' = users \/ (users[call[r].sub].status = "none"
                           /\ users' = [users EXCEPT ![call[r].sub] = [status |-> "active", name |-> name]])
    BY <1>1 DEF A!EnsureCreate, A!NewRow
  <2> QED BY <1>0, <2>1, <2>2
<1>2. ASSUME NEW r \in Request, A!EnsureFill(r)
      PROVE  A!StepOfStale
  <2>1. users' = [users EXCEPT ![call[r].sub].name = "token"] /\ call[r].at = "fill"
    BY <1>2 DEF A!EnsureFill
  <2>2. call[r].sub = s
    BY <1>0, <2>1 DEF A!UserRow
  <2>3. call[r].stale
    BY <2>1, <2>2 DEF Fresh
  <2>4. call'[r] = A!Idle
    BY <1>2, DoneType DEF A!EnsureFill
  <2> QED BY <2>3, <2>4 DEF A!StepOfStale
<1>3. ASSUME NEW r \in Request, A!UpdateMe(r)
      PROVE  FALSE
  <2>1. users' = [users EXCEPT ![call[r].sub].name = "typed"]
    BY <1>3 DEF A!UpdateMe
  <2> QED BY <1>0, <2>1 DEF A!UserRow
<1>4. users' # users
  OBVIOUS
<1> QED BY <1>1, <1>2, <1>3, <1>4, UserWrites

\* An address gets no password account beside a social one and no second row of users,
\* and a typed name is not lost, but by a request that was overtaken.
THEOREM OneAccountKept == Spec => OneAccountEach
<1>1. Init => AccountsType /\ Fresh /\ RowIsThere
  BY AccountsInit
<1>2. AccountsType /\ Fresh /\ RowIsThere /\ [Next]_vars => AccountsType' /\ Fresh' /\ RowIsThere'
  BY AccountsStep, FoundStep
<1>3. AccountsType /\ Fresh /\ [Next]_vars
        => [A!NoSecondAccountStep /\ A!OneRowStep /\ A!TypedNameStep]_vars
  BY SecondAccountSafe, OneRowSafe, TypedNameSafe
<1> QED BY <1>1, <1>2, <1>3, PTL DEF Spec, OneAccountEach

-----------------------------------------------------------------------------
(***************************************************************************)
(* Memberships.  What a request needs of the rows it has read, whatever    *)
(* came after; and what it still knows while no other has written.         *)
(***************************************************************************)
OpenFor(i, t, u) == M!Pending(i) /\ invite[i].tenant = t /\ invite[i].user = u

OfAnother(x) == invite[x.invite].user # x.user

Asked(x) ==
  /\ x.at # "idle" => x.user \in User
  /\ x.at \notin {"idle", "create"} => x.tenant \in tenant
  /\ x.at = "leave" => x.next \in User
  /\ x.at = "invite" => x.what \in {"admin", "member"}
  /\ x.at = "update" => x.what \in M!Change
  /\ x.at = "join" =>
       /\ x.invite \in Invite /\ invite[x.invite].status # "none"
       /\ invite[x.invite].tenant = x.tenant
       /\ x.what = "disabled" => OfAnother(x) \/ <<x.tenant, x.user>> \in slipped

StillTrue(x) ==
  /\ x.at = "create" => M!Homes(x.user) = {}
  /\ x.at = "invite" => /\ ~M!IsMember(x.tenant, x.user)
                        /\ \A i \in Invite : ~OpenFor(i, x.tenant, x.user)
  /\ x.at = "join" =>
       /\ M!ActiveElsewhere(x.user, x.tenant) = {}
       /\ \A j \in Invite \ {x.invite} :
            OpenFor(j, x.tenant, x.user) => OfAnother(x) \/ <<x.tenant, x.user>> \in slipped
  /\ x.at \in {"update", "remove"} => member[x.tenant][x.user].role # "owner"
  /\ x.at \in {"leaving", "leave"} =>
       M!IsOwner(x.tenant, x.user) /\ member[x.tenant][x.user].status = "active"
  /\ x.at = "leave" => x.next # x.user /\ member[x.tenant][x.next].status = "active"

\* Who is in a tenant and invited to it, was invited twice or let in on a reading that
\* another write had overtaken, or let in with the invitation of another.
RowsInv ==
  /\ \A t \in Tenant, u \in User : M!IsMember(t, u) => t \in tenant
  /\ \A i \in Invite : invite[i].status # "none" => invite[i].tenant \in tenant /\ invite[i].user \in User
  /\ \A i \in Invite, t \in Tenant, u \in User :
       OpenFor(i, t, u) /\ (M!IsMember(t, u) \/ \E j \in Invite \ {i} : OpenFor(j, t, u))
         => <<t, u>> \in slipped
  /\ \A u \in User : IsFiniteSet(M!Homes(u))

MemberInv ==
  /\ M!TypeOK
  /\ RowsInv
  /\ \A r \in Request : Asked(req[r]) /\ (~req[r].stale => StillTrue(req[r]))

LEMMA RequestIdle ==
  /\ M!Idle \in M!RequestRecord /\ M!Idle.at = "idle" /\ ~M!Idle.stale
  /\ Asked(M!Idle) /\ StillTrue(M!Idle) /\ Asked(M!Idle)' /\ StillTrue(M!Idle)'
BY DEF M!Idle, M!RequestRecord, M!Phase, M!Change, Asked, StillTrue

\* A request that only reads, or ends without a write.
LEMMA ReadKeeps ==
  ASSUME MemberInv, NEW r \in Request, NEW x \in M!RequestRecord,
         Asked(x), ~x.stale => StillTrue(x),
         req' = [req EXCEPT ![r] = x], UNCHANGED <<tenant, member, invite, slipped>>
  PROVE  MemberInv'
<1>1. /\ req' \in [Request -> M!RequestRecord] /\ req'[r] = x
      /\ \A q \in Request \ {r} : req'[q] = req[q]
  BY DEF MemberInv, M!TypeOK
<1>2. M!TypeOK'
  BY <1>1 DEF MemberInv, M!TypeOK
<1>3. RowsInv'
  BY SMTT(30) DEF MemberInv, RowsInv, OpenFor, M!Pending, M!IsMember, M!Homes
<1>4. ASSUME NEW q \in Request
      PROVE  (Asked(req[q]) /\ (~req[q].stale => StillTrue(req[q])))'
  <2>1. PICK y : /\ y = req'[q] /\ Asked(y) /\ (~y.stale => StillTrue(y))
    BY <1>1 DEF MemberInv
  <2>2. Asked(y)' /\ (StillTrue(y) => StillTrue(y)')
    BY <2>1, ZenonT(40)
       DEF Asked, StillTrue, OfAnother, OpenFor, M!Pending, M!IsMember, M!IsOwner, M!Homes, M!ActiveElsewhere
  <2> QED BY <2>1, <2>2, SMTT(30) DEF Asked, StillTrue, OfAnother
<1> QED BY <1>2, <1>3, <1>4 DEF MemberInv

\* A write: what the others have read is out of date.
LEMMA FinishKeeps ==
  ASSUME MemberInv, NEW r \in Request, M!Finish(r), tenant \subseteq tenant', slipped \subseteq slipped',
         \A i \in Invite : invite[i].status # "none" =>
           /\ invite'[i].status # "none"
           /\ invite'[i].tenant = invite[i].tenant /\ invite'[i].user = invite[i].user
  PROVE  /\ req' \in [Request -> M!RequestRecord] /\ req'[r] = M!Idle
         /\ \A q \in Request : (Asked(req[q]) /\ (~req[q].stale => StillTrue(req[q])))'
<1>0. req \in [Request -> M!RequestRecord]
  BY DEF MemberInv, M!TypeOK
<1>1. /\ req' \in [Request -> M!RequestRecord] /\ req'[r] = M!Idle
      /\ \A q \in Request \ {r} : req'[q] = [req[q] EXCEPT !.stale = req[q].at # "idle"]
  BY <1>0, RequestIdle DEF M!Finish, M!RequestRecord
<1>2. ASSUME NEW q \in Request \ {r}
      PROVE  (Asked(req[q]) /\ (~req[q].stale => StillTrue(req[q])))'
  <2>1. PICK x : x = req[q]
    OBVIOUS
  <2>2. PICK y : y = req'[q]
    OBVIOUS
  <2>3. /\ y.at = x.at /\ y.tenant = x.tenant /\ y.user = x.user /\ y.next = x.next
        /\ y.invite = x.invite /\ y.what = x.what /\ (~y.stale => y.at = "idle") /\ Asked(x)
    BY <1>0, <1>1, <2>1, <2>2 DEF M!RequestRecord, MemberInv
  <2>4. Asked(y)'
    BY <2>3 DEF Asked, OfAnother
  <2>5. ~y.stale => StillTrue(y)'
    BY <2>3 DEF StillTrue
  <2> QED BY <2>2, <2>4, <2>5, SMTT(30) DEF Asked, StillTrue, OfAnother
<1>3. (Asked(req[r]) /\ (~req[r].stale => StillTrue(req[r])))'
  BY <1>1, RequestIdle DEF Asked, StillTrue
<1> QED BY <1>1, <1>2, <1>3

\* What a request begins with.
LEMMA BeginKeeps ==
  ASSUME MemberInv, NEW r \in Request, NEW phase \in M!Phase, NEW t \in Tenant \cup {None},
         NEW u \in User, NEW i \in Invite \cup {None}, NEW what \in M!Change \cup {"none"},
         M!Begin(r, phase, t, u, i, what),
         \A x : /\ x.at = phase /\ x.tenant = t /\ x.user = u /\ x.invite = i /\ x.what = what
               => Asked(x) /\ StillTrue(x)
  PROVE  MemberInv'
<1>1. PICK x : x = [M!Idle EXCEPT !.at = phase, !.tenant = t, !.user = u, !.invite = i, !.what = what]
  OBVIOUS
<1>2. /\ x \in M!RequestRecord
      /\ x.at = phase /\ x.tenant = t /\ x.user = u /\ x.invite = i /\ x.what = what
  BY <1>1 DEF M!Idle, M!RequestRecord
<1>3. req' = [req EXCEPT ![r] = x] /\ UNCHANGED <<tenant, member, invite, slipped>>
  BY <1>1 DEF M!Begin
<1> QED BY <1>2, <1>3, ReadKeeps

LEMMA MembersRead ==
  ASSUME MemberInv, NEW r \in Request,
         \/ \E u \in User : M!BeginCreate(r, u)
         \/ \E by, u \in User, t \in Tenant :
              \/ \E role \in InviteRole : M!BeginInvite(r, by, t, u, role)
              \/ \E change \in M!Change : M!BeginUpdate(r, by, t, u, change)
              \/ M!BeginRemove(r, by, t, u)
         \/ \E i \in Invite, u \in User, hasEmail \in BOOLEAN : M!BeginAccept(r, i, u, hasEmail)
         \/ \E t \in Tenant, u \in User : M!BeginLeave(r, t, u)
  PROVE  MemberInv'
<1>0. /\ tenant \subseteq Tenant /\ member \in [Tenant -> [User -> M!MemberRecord]]
      /\ invite \in [Invite -> M!InviteRecord] /\ slipped \subseteq Tenant \X User
      /\ None \notin Tenant \cup User \cup Invite /\ InviteRole \subseteq {"admin", "member"}
      /\ \A t \in Tenant, u \in User : M!IsMember(t, u) => t \in tenant
  BY BackOfficeAssumption DEF MemberInv, M!TypeOK, RowsInv, M!MembershipAssumption
<1>1. ASSUME NEW u \in User, M!BeginCreate(r, u)
      PROVE  MemberInv'
  <2>1. M!Homes(u) = {}
    BY <1>0, <1>1 DEF M!BeginCreate, M!ActiveElsewhere, M!Homes
  <2>2. \A x : x.at = "create" /\ x.user = u => Asked(x) /\ StillTrue(x)
    BY <2>1 DEF Asked, StillTrue
  <2>3. M!Begin(r, "create", None, u, None, "none") /\ "create" \in M!Phase
    BY <1>1 DEF M!BeginCreate, M!Phase
  <2> QED BY <2>2, <2>3, BeginKeeps
<1>2. ASSUME NEW t \in Tenant, NEW u \in User, NEW by \in User, NEW role \in InviteRole,
             M!BeginInvite(r, by, t, u, role)
      PROVE  MemberInv'
  <2>1. t \in tenant /\ role \in {"admin", "member"} /\ role \in M!Change
    BY <1>0, <1>2 DEF M!BeginInvite, M!IsAdmin, M!IsMember, M!Change
  <2>2. ~M!IsMember(t, u) /\ \A i \in Invite : ~OpenFor(i, t, u)
    BY <1>2 DEF M!BeginInvite, M!MayJoin, OpenFor
  <2>3. \A x : x.at = "invite" /\ x.tenant = t /\ x.user = u /\ x.what = role => Asked(x) /\ StillTrue(x)
    BY <2>1, <2>2 DEF Asked, StillTrue
  <2>4. M!Begin(r, "invite", t, u, None, role) /\ "invite" \in M!Phase
    BY <1>2 DEF M!BeginInvite, M!Phase
  <2> QED BY <2>1, <2>3, <2>4, BeginKeeps
<1>3. ASSUME NEW t \in Tenant, NEW u \in User, NEW by \in User, NEW change \in M!Change,
             M!BeginUpdate(r, by, t, u, change)
      PROVE  MemberInv'
  <2>1. t \in tenant /\ member[t][u].role # "owner"
    BY <1>0, <1>3 DEF M!BeginUpdate, M!MayTouch
  <2>2. \A x : x.at = "update" /\ x.tenant = t /\ x.user = u /\ x.what = change => Asked(x) /\ StillTrue(x)
    BY <2>1 DEF Asked, StillTrue
  <2>3. M!Begin(r, "update", t, u, None, change) /\ "update" \in M!Phase
    BY <1>3 DEF M!BeginUpdate, M!Phase
  <2> QED BY <2>2, <2>3, BeginKeeps
<1>4. ASSUME NEW t \in Tenant, NEW u \in User, NEW by \in User, M!BeginRemove(r, by, t, u)
      PROVE  MemberInv'
  <2>1. t \in tenant /\ member[t][u].role # "owner"
    BY <1>0, <1>4 DEF M!BeginRemove, M!MayTouch
  <2>2. \A x : x.at = "remove" /\ x.tenant = t /\ x.user = u => Asked(x) /\ StillTrue(x)
    BY <2>1 DEF Asked, StillTrue
  <2>3. M!Begin(r, "remove", t, u, None, "none") /\ "remove" \in M!Phase
    BY <1>4 DEF M!BeginRemove, M!Phase
  <2> QED BY <2>2, <2>3, BeginKeeps
<1>5. ASSUME NEW t \in Tenant, NEW u \in User, M!BeginLeave(r, t, u)
      PROVE  MemberInv'
  <2>1. t \in tenant /\ M!IsOwner(t, u) /\ member[t][u].status = "active"
    BY <1>0, <1>5 DEF M!BeginLeave, M!IsAdmin, M!IsOwner
  <2>2. \A x : x.at = "leaving" /\ x.tenant = t /\ x.user = u => Asked(x) /\ StillTrue(x)
    BY <2>1 DEF Asked, StillTrue
  <2>3. M!Begin(r, "leaving", t, u, None, "none") /\ "leaving" \in M!Phase
    BY <1>5 DEF M!BeginLeave, M!Phase
  <2> QED BY <2>2, <2>3, BeginKeeps
<1>6. ASSUME NEW i \in Invite, NEW u \in User, NEW hasEmail \in BOOLEAN,
             M!BeginAccept(r, i, u, hasEmail)
      PROVE  MemberInv'
  <2>1. PICK t, what : t = invite[i].tenant /\ what = member[t][u].status
    OBVIOUS
  <2>2. /\ t \in tenant /\ t \in Tenant /\ M!Pending(i)
        /\ what \in {"none", "active", "disabled"}
        /\ M!ActiveElsewhere(u, t) = {} /\ invite[i].status # "none"
    BY <1>0, <1>6, <2>1, SMTT(30)
       DEF M!BeginAccept, MemberInv, RowsInv, M!Pending, M!MemberRecord
  <2>3. what = "disabled" => invite[i].user # u \/ <<t, u>> \in slipped
    BY <2>1, <2>2 DEF MemberInv, RowsInv, M!IsMember, OpenFor
  <2>4. \A j \in Invite \ {i} : OpenFor(j, t, u) => invite[i].user # u \/ <<t, u>> \in slipped
    BY <2>1, <2>2 DEF MemberInv, RowsInv, OpenFor
  <2>5. \A x : x.at = "join" /\ x.tenant = t /\ x.user = u /\ x.invite = i /\ x.what = what
              => Asked(x) /\ StillTrue(x)
    BY <2>1, <2>2, <2>3, <2>4 DEF Asked, StillTrue, OfAnother
  <2>6. M!Begin(r, "join", t, u, i, what) /\ "join" \in M!Phase /\ what \in M!Change \cup {"none"}
    BY <1>6, <2>1, <2>2 DEF M!BeginAccept, M!Phase, M!Change
  <2> QED BY <2>2, <2>5, <2>6, BeginKeeps
<1> QED BY <1>1, <1>2, <1>3, <1>4, <1>5, <1>6

LEMMA MembersRest ==
  ASSUME MemberInv, NEW r \in Request, M!PickReplacement(r) \/ M!Fail(r)
  PROVE  MemberInv'
<1>0. req[r] \in M!RequestRecord /\ UNCHANGED <<tenant, member, invite, slipped>>
  BY DEF MemberInv, M!TypeOK, M!PickReplacement, M!Fail
<1>1. CASE M!Fail(r)
  BY <1>0, <1>1, RequestIdle, ReadKeeps DEF M!Fail
<1>2. CASE M!PickReplacement(r)
  <2>1. PICK v \in M!Replacements(req[r].tenant, req[r].user) :
          req' = [req EXCEPT ![r].at = "leave", ![r].next = v]
    BY <1>2 DEF M!PickReplacement
  <2>2. v \in User \ {req[r].user} /\ member[req[r].tenant][v].status = "active"
    BY DEF M!Replacements
  <2>3. PICK x : x = [req[r] EXCEPT !.at = "leave", !.next = v]
    OBVIOUS
  <2>4. req' = [req EXCEPT ![r] = x]
    BY <2>1, <2>3 DEF MemberInv, M!TypeOK
  <2>5. /\ x \in M!RequestRecord /\ x.at = "leave" /\ x.next = v /\ x.tenant = req[r].tenant
        /\ x.user = req[r].user /\ x.stale = req[r].stale
    BY <1>0, <2>2, <2>3 DEF M!RequestRecord, M!Phase
  <2>6. req[r].at = "leaving" /\ Asked(req[r]) /\ (~req[r].stale => StillTrue(req[r]))
    BY <1>2 DEF M!PickReplacement, MemberInv
  <2>7. Asked(x) /\ (~x.stale => StillTrue(x))
    BY <2>2, <2>5, <2>6 DEF Asked, StillTrue
  <2> QED BY <1>0, <2>4, <2>5, <2>7, ReadKeeps
<1> QED BY <1>1, <1>2

\* A write that lets in nobody but one whose open invitations are on record, and opens no
\* invitation.
LEMMA RowsKept ==
  ASSUME MemberInv, tenant \subseteq tenant', slipped \subseteq slipped',
         \A i \in Invite :
           \/ invite'[i] = invite[i]
           \/ /\ invite[i].status # "none" /\ invite'[i].status # "none"
              /\ invite'[i].tenant = invite[i].tenant /\ invite'[i].user = invite[i].user
              /\ M!Pending(i)' => M!Pending(i),
         \A t \in Tenant, u \in User :
           M!IsMember(t, u)' =>
             \/ M!IsMember(t, u)
             \/ t \in tenant' /\ \A i \in Invite : OpenFor(i, t, u)' => <<t, u>> \in slipped',
         \A u \in User : \E t \in Tenant : \A x \in Tenant \ {t} :
           member'[x][u].status = "active" => member[x][u].status = "active"
  PROVE  RowsInv'
<1>0. RowsInv
  BY DEF MemberInv
<1>1. \A i \in Invite, t \in Tenant, u \in User : OpenFor(i, t, u)' => OpenFor(i, t, u)
  BY DEF OpenFor, M!Pending
<1>2. \A t \in Tenant, u \in User : M!IsMember(t, u)' => t \in tenant'
  BY <1>0 DEF RowsInv
<1>3. \A i \in Invite : invite'[i].status # "none" => invite'[i].tenant \in tenant' /\ invite'[i].user \in User
  BY <1>0 DEF RowsInv
<1>4. ASSUME NEW i \in Invite, NEW t \in Tenant, NEW u \in User, OpenFor(i, t, u)',
             M!IsMember(t, u)' \/ \E j \in Invite \ {i} : OpenFor(j, t, u)'
      PROVE  <<t, u>> \in slipped'
  BY <1>0, <1>1, <1>4 DEF RowsInv
<1>5. ASSUME NEW u \in User
      PROVE  IsFiniteSet(M!Homes(u)')
  <2>1. PICK t \in Tenant : \A x \in Tenant \ {t} :
          member'[x][u].status = "active" => member[x][u].status = "active"
    OBVIOUS
  <2>2. M!Homes(u)' \subseteq M!Homes(u) \cup {t}
    BY <2>1 DEF M!Homes
  <2>3. IsFiniteSet(M!Homes(u) \cup {t})
    BY <1>0, FS_AddElement DEF RowsInv
  <2> QED BY <2>2, <2>3, FS_Subset
<1> QED BY <1>2, <1>3, <1>4, <1>5 DEF RowsInv

LEMMA RowSet ==
  ASSUME member \in [Tenant -> [User -> M!MemberRecord]], NEW t \in Tenant, NEW u \in User,
         NEW m \in M!MemberRecord, M!SetMember(t, u, m)
  PROVE  /\ member' \in [Tenant -> [User -> M!MemberRecord]] /\ member'[t][u] = m
         /\ \A x \in Tenant, v \in User : x # t \/ v # u => member'[x][v] = member[x][v]
BY DEF M!SetMember

\* The row of one user in one tenant is written.
LEMMA RowWritten ==
  ASSUME MemberInv, NEW r \in Request, NEW t \in tenant', t \in Tenant, NEW u \in User,
         NEW m \in M!MemberRecord, M!SetMember(t, u, m), M!Finish(r),
         tenant \subseteq tenant', tenant' \subseteq Tenant,
         slipped \subseteq slipped', slipped' \subseteq Tenant \X User,
         invite' \in [Invite -> M!InviteRecord],
         \A i \in Invite :
           \/ invite'[i] = invite[i]
           \/ /\ invite[i].status # "none" /\ invite'[i].status # "none"
              /\ invite'[i].tenant = invite[i].tenant /\ invite'[i].user = invite[i].user
              /\ M!Pending(i)' => M!Pending(i),
         m.status # "none" /\ ~M!IsMember(t, u) =>
           \A i \in Invite : OpenFor(i, t, u)' => <<t, u>> \in slipped'
  PROVE  MemberInv'
<1>1. /\ member' \in [Tenant -> [User -> M!MemberRecord]] /\ member'[t][u] = m
      /\ \A x \in Tenant, v \in User : x # t \/ v # u => member'[x][v] = member[x][v]
  BY RowSet DEF MemberInv, M!TypeOK
<1>2. \A x \in Tenant, v \in User :
        M!IsMember(x, v)' =>
          \/ M!IsMember(x, v)
          \/ x \in tenant' /\ \A i \in Invite : OpenFor(i, x, v)' => <<x, v>> \in slipped'
  BY <1>1 DEF M!IsMember
<1>3. \A v \in User : \E x \in Tenant : \A y \in Tenant \ {x} :
        member'[y][v].status = "active" => member[y][v].status = "active"
  BY <1>1
<1>4. RowsInv'
  BY <1>2, <1>3, RowsKept
<1>5. /\ req' \in [Request -> M!RequestRecord]
      /\ \A q \in Request : (Asked(req[q]) /\ (~req[q].stale => StillTrue(req[q])))'
  BY FinishKeeps
<1> QED BY <1>1, <1>4, <1>5 DEF MemberInv, M!TypeOK

\* The same, when only the request ends.
LEMMA NothingWritten ==
  ASSUME MemberInv, NEW r \in Request, M!Finish(r), UNCHANGED <<tenant, member>>,
         slipped \subseteq slipped', slipped' \subseteq Tenant \X User,
         invite' \in [Invite -> M!InviteRecord],
         \A i \in Invite :
           \/ invite'[i] = invite[i]
           \/ /\ invite[i].status # "none" /\ invite'[i].status # "none"
              /\ invite'[i].tenant = invite[i].tenant /\ invite'[i].user = invite[i].user
              /\ M!Pending(i)' => M!Pending(i)
  PROVE  MemberInv'
<1>1. RowsInv'
  <2>1. RowsInv
    BY DEF MemberInv
  <2>2. \A i \in Invite, t \in Tenant, u \in User : OpenFor(i, t, u)' => OpenFor(i, t, u)
    BY DEF OpenFor, M!Pending
  <2>3. \A t \in Tenant, u \in User : M!IsMember(t, u)' = M!IsMember(t, u)
    BY DEF M!IsMember
  <2>4. \A u \in User : M!Homes(u)' = M!Homes(u)
    BY DEF M!Homes
  <2>5. ASSUME NEW i \in Invite, NEW t \in Tenant, NEW u \in User, OpenFor(i, t, u)',
               M!IsMember(t, u)' \/ \E j \in Invite \ {i} : OpenFor(j, t, u)'
        PROVE  <<t, u>> \in slipped'
    BY <2>1, <2>2, <2>3, <2>5 DEF RowsInv
  <2>6. \A i \in Invite : invite'[i].status # "none" => invite'[i].tenant \in tenant' /\ invite'[i].user \in User
    BY <2>1 DEF RowsInv
  <2> QED BY <2>1, <2>3, <2>4, <2>5, <2>6 DEF RowsInv
<1>2. /\ req' \in [Request -> M!RequestRecord]
      /\ \A q \in Request : (Asked(req[q]) /\ (~req[q].stale => StillTrue(req[q])))'
  BY FinishKeeps
<1> QED BY <1>1, <1>2 DEF MemberInv, M!TypeOK

LEMMA MembersWrite ==
  ASSUME MemberInv, NEW r \in Request,
         (\E t \in Tenant : M!Create(r, t)) \/ M!Update(r) \/ M!Remove(r)
  PROVE  MemberInv'
<1>0. /\ tenant \subseteq Tenant /\ member \in [Tenant -> [User -> M!MemberRecord]]
      /\ invite \in [Invite -> M!InviteRecord] /\ slipped \subseteq Tenant \X User
      /\ Asked(req[r]) /\ RowsInv
  BY DEF MemberInv, M!TypeOK
<1>1. ASSUME NEW t \in Tenant, M!Create(r, t)
      PROVE  MemberInv'
  <2> PICK u : u = req[r].user
    OBVIOUS
  <2>1. u \in User /\ t \notin tenant
    BY <1>0, <1>1 DEF M!Create, Asked
  <2>2. /\ M!SetMember(t, u, M!Active("owner")) /\ M!Finish(r) /\ tenant' = tenant \cup {t}
        /\ UNCHANGED <<invite, slipped>>
    BY <1>1 DEF M!Create
  <2>3. M!Active("owner") \in M!MemberRecord
    BY DEF M!Active, M!MemberRecord, M!Role
  <2>4. \A i \in Invite : ~OpenFor(i, t, u)'
    BY <1>0, <2>1, <2>2 DEF RowsInv, OpenFor, M!Pending
  <2> QED BY <1>0, <2>1, <2>2, <2>3, <2>4, RowWritten
<1>2. CASE M!Update(r)
  <2> PICK t, u : t = req[r].tenant /\ u = req[r].user
    OBVIOUS
  <2>1. /\ t \in tenant /\ u \in User /\ req[r].what \in M!Change
        /\ M!Finish(r) /\ UNCHANGED <<tenant, invite, slipped>>
    BY <1>0, <1>2 DEF M!Update, Asked
  <2>2. CASE M!IsMember(t, u)
    <3>1. PICK m : m = M!Changed(member[t][u], req[r].what)
      OBVIOUS
    <3>2. m \in M!MemberRecord
      BY <1>0, <2>1, <3>1, SMTT(30) DEF M!Changed, M!MemberRecord, M!Change, M!Role
    <3>3. M!SetMember(t, u, m)
      BY <1>2, <2>2, <3>1 DEF M!Update
    <3> QED BY <1>0, <2>1, <2>2, <3>2, <3>3, RowWritten
  <2>3. CASE ~M!IsMember(t, u)
    BY <1>0, <1>2, <2>1, <2>3, NothingWritten DEF M!Update
  <2> QED BY <2>2, <2>3
<1>3. CASE M!Remove(r)
  <2>1. /\ req[r].tenant \in tenant /\ req[r].user \in User
        /\ M!SetMember(req[r].tenant, req[r].user, M!NoMember)
        /\ M!Finish(r) /\ UNCHANGED <<tenant, invite, slipped>>
    BY <1>0, <1>3 DEF M!Remove, Asked
  <2>2. M!NoMember \in M!MemberRecord /\ M!NoMember.status = "none"
    BY DEF M!NoMember, M!MemberRecord, M!Role
  <2> QED BY <1>0, <2>1, <2>2, RowWritten
<1> QED BY <1>1, <1>2, <1>3

\* What NoteSlip leaves on record.
LEMMA SlipNoted ==
  ASSUME slipped \subseteq Tenant \X User, NEW r \in Request, NEW other, M!NoteSlip(r, other),
         req[r].tenant \in Tenant, req[r].user \in User
  PROVE  /\ slipped \subseteq slipped' /\ slipped' \subseteq Tenant \X User
         /\ req[r].stale \/ other => <<req[r].tenant, req[r].user>> \in slipped'
BY DEF M!NoteSlip

LEMMA InviteAccepted ==
  ASSUME MemberInv, NEW r \in Request, M!Accept(r)
  PROVE  MemberInv'
<1> PICK t, u, i : t = req[r].tenant /\ u = req[r].user /\ i = req[r].invite
  OBVIOUS
<1>0. /\ tenant \subseteq Tenant /\ member \in [Tenant -> [User -> M!MemberRecord]]
      /\ invite \in [Invite -> M!InviteRecord] /\ slipped \subseteq Tenant \X User
      /\ req[r].at = "join" /\ Asked(req[r]) /\ (~req[r].stale => StillTrue(req[r]))
      /\ M!Finish(r) /\ M!NoteSlip(r, invite[i].user # u) /\ tenant' = tenant
  BY DEF MemberInv, M!TypeOK, M!Accept
<1>1. /\ t \in tenant /\ t \in Tenant /\ u \in User /\ i \in Invite
      /\ invite[i].status # "none" /\ invite[i].tenant = t
  BY <1>0 DEF Asked
<1>2. /\ slipped \subseteq slipped' /\ slipped' \subseteq Tenant \X User
      /\ req[r].stale \/ invite[i].user # u => <<t, u>> \in slipped'
  BY <1>0, <1>1, SlipNoted
<1>3. ASSUME invite' = [invite EXCEPT ![i].status = "accepted"]
      PROVE  /\ invite' \in [Invite -> M!InviteRecord] /\ ~M!Pending(i)'
             /\ \A j \in Invite :
                  \/ invite'[j] = invite[j]
                  \/ /\ invite[j].status # "none" /\ invite'[j].status # "none"
                     /\ invite'[j].tenant = invite[j].tenant /\ invite'[j].user = invite[j].user
                     /\ M!Pending(j)' => M!Pending(j)
             /\ \A j \in Invite : OpenFor(j, t, u)' => j # i /\ OpenFor(j, t, u)
  BY <1>0, <1>1, <1>3, SMTT(30) DEF M!InviteRecord, M!Pending, OpenFor
<1>4. CASE UNCHANGED <<member, invite>>
  BY <1>0, <1>1, <1>2, <1>4, NothingWritten
<1>5. CASE /\ ~M!IsMember(t, u) /\ M!SetMember(t, u, M!Active(invite[i].role))
           /\ invite' = [invite EXCEPT ![i].status = "accepted"]
  <2>1. PICK m : m = M!Active(invite[i].role)
    OBVIOUS
  <2>2. m \in M!MemberRecord
    <3>1. invite[i].role \in {"admin", "member"}
      BY <1>0, <1>1 DEF M!InviteRecord
    <3> QED BY <2>1, <3>1 DEF M!Active, M!MemberRecord, M!Role
  <2>3. \A j \in Invite : OpenFor(j, t, u)' => <<t, u>> \in slipped'
    BY <1>0, <1>1, <1>2, <1>3, <1>5, SMTT(30) DEF StillTrue, OfAnother
  <2> QED BY <1>0, <1>1, <1>2, <1>3, <1>5, <2>1, <2>2, <2>3, RowWritten
<1>6. CASE /\ M!IsMember(t, u) /\ M!SetMember(t, u, [member[t][u] EXCEPT !.status = "active"])
           /\ invite' = [invite EXCEPT ![i].status = "accepted"]
  <2>1. PICK m : m = [member[t][u] EXCEPT !.status = "active"]
    OBVIOUS
  <2>2. m \in M!MemberRecord
    <3>1. member[t][u] \in M!MemberRecord
      BY <1>0, <1>1
    <3> QED BY <2>1, <3>1 DEF M!MemberRecord
  <2> QED BY <1>0, <1>1, <1>2, <1>3, <1>6, <2>1, <2>2, RowWritten
<1>7. CASE member' = member /\ invite' = [invite EXCEPT ![i].status = "accepted"]
  BY <1>0, <1>1, <1>2, <1>3, <1>7, NothingWritten
<1> QED BY <1>4, <1>5, <1>6, <1>7 DEF M!Accept

\* The owner leaves: what becomes of the rows of his tenant.
LEMMA LeftRows ==
  ASSUME MemberInv, NEW r \in Request, M!Leave(r)
  PROVE  LET t == req[r].tenant
             u == req[r].user
             v == req[r].next
         IN  /\ t \in tenant /\ t \in Tenant /\ u \in User /\ v \in User
             /\ member' \in [Tenant -> [User -> M!MemberRecord]]
             /\ \A x \in Tenant, w \in User : x # t \/ w \notin {u, v} => member'[x][w] = member[x][w]
             /\ member'[t][u] = M!NoMember
             /\ v # u => /\ member'[t][v].status = member[t][v].status
                         /\ M!IsMember(t, v) => member'[t][v].role = "owner"
<1> PICK t, u, v : t = req[r].tenant /\ u = req[r].user /\ v = req[r].next
  OBVIOUS
<1>1. /\ member \in [Tenant -> [User -> M!MemberRecord]]
      /\ t \in tenant /\ t \in Tenant /\ u \in User /\ v \in User
  BY DEF MemberInv, M!TypeOK, M!Leave, Asked
<1>2. PICK m : m = IF M!IsMember(t, v) THEN [member[t][v] EXCEPT !.role = "owner"] ELSE M!NoMember
  OBVIOUS
<1>3. M!NoMember \in M!MemberRecord /\ M!NoMember.status = "none"
  BY DEF M!NoMember, M!MemberRecord, M!Role
<1>4. /\ m \in M!MemberRecord /\ m.status = member[t][v].status
      /\ M!IsMember(t, v) => m.role = "owner"
  BY <1>1, <1>2, <1>3, SMTT(30) DEF M!MemberRecord, M!Role, M!IsMember
<1>5. member' = [member EXCEPT ![t] = [member[t] EXCEPT ![v] = m, ![u] = M!NoMember]]
  BY <1>1, <1>2 DEF M!Leave
<1>6. PICK f : f = [member[t] EXCEPT ![v] = m, ![u] = M!NoMember]
  OBVIOUS
<1>7. /\ f \in [User -> M!MemberRecord] /\ f[u] = M!NoMember /\ (v # u => f[v] = m)
      /\ \A w \in User : w \notin {u, v} => f[w] = member[t][w]
  BY <1>1, <1>3, <1>4, <1>6
<1>8. /\ member' \in [Tenant -> [User -> M!MemberRecord]] /\ member'[t] = f
      /\ \A x \in Tenant : x # t => member'[x] = member[x]
  BY <1>1, <1>5, <1>6, <1>7
<1> QED BY <1>1, <1>4, <1>7, <1>8

LEMMA OwnerLeft ==
  ASSUME MemberInv, NEW r \in Request, M!Leave(r)
  PROVE  MemberInv'
<1> PICK t, u, v : t = req[r].tenant /\ u = req[r].user /\ v = req[r].next
  OBVIOUS
<1>1. /\ t \in tenant /\ t \in Tenant /\ u \in User /\ v \in User
      /\ member' \in [Tenant -> [User -> M!MemberRecord]]
      /\ \A x \in Tenant, w \in User : x # t \/ w \notin {u, v} => member'[x][w] = member[x][w]
      /\ member'[t][u] = M!NoMember
      /\ v # u => member'[t][v].status = member[t][v].status
  BY LeftRows
<1>2. M!Finish(r) /\ UNCHANGED <<tenant, invite, slipped>>
  BY DEF M!Leave
<1>3. \A x \in Tenant, w \in User :
        /\ M!IsMember(x, w)' => M!IsMember(x, w)
        /\ member'[x][w].status = "active" => member[x][w].status = "active"
  BY <1>1 DEF M!IsMember, M!NoMember
<1>4. RowsInv'
  <2>1. \A w \in User : \E y \in Tenant : \A x \in Tenant \ {y} :
          member'[x][w].status = "active" => member[x][w].status = "active"
    BY <1>1, <1>3
  <2>2. \A i \in Invite : invite'[i] = invite[i]
    BY <1>2
  <2>3. tenant \subseteq tenant' /\ slipped \subseteq slipped'
    BY <1>2
  <2>4. \A x \in Tenant, w \in User : M!IsMember(x, w)' => M!IsMember(x, w)
    BY <1>3
  <2> QED BY <2>1, <2>2, <2>3, <2>4, RowsKept
<1>5. /\ req' \in [Request -> M!RequestRecord]
      /\ \A q \in Request : (Asked(req[q]) /\ (~req[q].stale => StillTrue(req[q])))'
  BY <1>2, FinishKeeps
<1> QED BY <1>1, <1>2, <1>4, <1>5 DEF MemberInv, M!TypeOK

LEMMA InviteWritten ==
  ASSUME MemberInv, NEW r \in Request, NEW i \in Invite, M!CreateInvite(r, i)
  PROVE  MemberInv'
<1> PICK t, u : t = req[r].tenant /\ u = req[r].user
  OBVIOUS
<1>0. /\ tenant \subseteq Tenant /\ member \in [Tenant -> [User -> M!MemberRecord]]
      /\ invite \in [Invite -> M!InviteRecord] /\ slipped \subseteq Tenant \X User /\ RowsInv
      /\ req[r].at = "invite" /\ Asked(req[r]) /\ (~req[r].stale => StillTrue(req[r]))
      /\ M!Finish(r) /\ M!NoteSlip(r, FALSE) /\ UNCHANGED <<tenant, member>> /\ invite[i] = M!NoInvite
  BY DEF MemberInv, M!TypeOK, M!CreateInvite
<1>1. t \in tenant /\ t \in Tenant /\ u \in User /\ req[r].what \in {"admin", "member"}
  BY <1>0 DEF Asked
<1>2. /\ slipped \subseteq slipped' /\ slipped' \subseteq Tenant \X User
      /\ req[r].stale => <<t, u>> \in slipped'
  BY <1>0, <1>1, SlipNoted
<1>3. PICK x : x = [status |-> "pending", tenant |-> t, user |-> u, role |-> req[r].what]
  OBVIOUS
<1>4. x \in M!InviteRecord /\ x.status = "pending" /\ x.tenant = t /\ x.user = u
  BY <1>1, <1>3 DEF M!InviteRecord
<1>5. invite' = [invite EXCEPT ![i] = x] /\ invite[i].status = "none"
  BY <1>0, <1>3 DEF M!CreateInvite, M!NoInvite
<1>6. invite' \in [Invite -> M!InviteRecord] /\ invite'[i] = x
      /\ \A j \in Invite \ {i} : invite'[j] = invite[j]
  BY <1>0, <1>4, <1>5
<1>7. ASSUME NEW j \in Invite, NEW y \in Tenant, NEW w \in User, OpenFor(j, y, w)',
             M!IsMember(y, w)' \/ \E k \in Invite \ {j} : OpenFor(k, y, w)'
      PROVE  <<y, w>> \in slipped'
  <2>1. M!IsMember(y, w)' = M!IsMember(y, w) /\ \A k \in Invite \ {i} : OpenFor(k, y, w)' = OpenFor(k, y, w)
    BY <1>0, <1>6 DEF M!IsMember, OpenFor, M!Pending
  <2>2. CASE y = t /\ w = u
    <3>1. M!IsMember(t, u) \/ \E k \in Invite \ {i} : OpenFor(k, t, u)
      BY <1>7, <2>1, <2>2
    <3>2. ~req[r].stale => ~M!IsMember(t, u) /\ \A k \in Invite : ~OpenFor(k, t, u)
      BY <1>0 DEF StillTrue
    <3> QED BY <1>2, <2>2, <3>1, <3>2
  <2>3. CASE ~(y = t /\ w = u)
    <3>1. ~OpenFor(i, y, w)' /\ ~OpenFor(i, y, w)
      BY <1>4, <1>5, <1>6, <2>3 DEF OpenFor, M!Pending
    <3> QED BY <1>0, <1>2, <1>7, <2>1, <3>1 DEF RowsInv
  <2> QED BY <2>2, <2>3
<1>8. RowsInv'
  <2>1. \A j \in Invite : invite'[j].status # "none" => invite'[j].tenant \in tenant' /\ invite'[j].user \in User
    BY <1>0, <1>1, <1>4, <1>6 DEF RowsInv
  <2>2. /\ \A y \in Tenant, w \in User : M!IsMember(y, w)' => y \in tenant'
        /\ \A w \in User : IsFiniteSet(M!Homes(w)')
    BY <1>0 DEF RowsInv, M!IsMember, M!Homes
  <2> QED BY <1>7, <2>1, <2>2 DEF RowsInv
<1>9. /\ req' \in [Request -> M!RequestRecord]
      /\ \A q \in Request : (Asked(req[q]) /\ (~req[q].stale => StillTrue(req[q])))'
  BY <1>0, <1>2, <1>4, <1>5, <1>6, FinishKeeps
<1> QED BY <1>0, <1>2, <1>6, <1>8, <1>9 DEF MemberInv, M!TypeOK

\* Time passes: an invitation is open to fewer.
LEMMA InviteLapses ==
  ASSUME MemberInv, NEW i \in Invite, M!Lapse(i) \/ M!Expire(i)
  PROVE  MemberInv'
<1>0. /\ invite \in [Invite -> M!InviteRecord] /\ UNCHANGED <<tenant, member, req, slipped>>
      /\ invite[i].status \in {"pending", "lapsed"}
  BY DEF MemberInv, M!TypeOK, M!Lapse, M!Expire
<1>1. /\ invite' \in [Invite -> M!InviteRecord]
      /\ \A j \in Invite : /\ invite'[j].tenant = invite[j].tenant /\ invite'[j].user = invite[j].user
                           /\ (invite'[j].status = "none") = (invite[j].status = "none")
                           /\ M!Pending(j)' => M!Pending(j)
                           /\ j # i => invite'[j] = invite[j]
  BY <1>0 DEF M!Lapse, M!Expire, M!InviteRecord, M!Pending
<1>2. \A j \in Invite : \A t, u : OpenFor(j, t, u)' => OpenFor(j, t, u)
  BY <1>1 DEF OpenFor
<1>3. RowsInv'
  BY <1>0, <1>1, <1>2, SMTT(30) DEF MemberInv, RowsInv, M!IsMember, M!Homes
<1>4. ASSUME NEW q \in Request
      PROVE  (Asked(req[q]) /\ (~req[q].stale => StillTrue(req[q])))'
  <2>1. PICK x : x = req[q] /\ Asked(x) /\ (~x.stale => StillTrue(x))
    BY DEF MemberInv
  <2>2. Asked(x)'
    BY <1>0, <1>1, <2>1 DEF Asked, OfAnother
  <2>3. StillTrue(x) => StillTrue(x)'
    <3>1. x.at = "join" => (OfAnother(x) <=> OfAnother(x)')
      BY <1>1, <2>1 DEF Asked, OfAnother
    <3>2. x.at = "join" => (M!ActiveElsewhere(x.user, x.tenant)' = M!ActiveElsewhere(x.user, x.tenant))
      BY <1>0 DEF M!ActiveElsewhere
    <3> QED BY <1>0, <1>2, <3>1, <3>2 DEF StillTrue, M!IsMember, M!IsOwner, M!Homes
  <2> QED BY <1>0, <2>1, <2>2, <2>3, SMTT(30) DEF Asked, StillTrue, OfAnother
<1> QED BY <1>0, <1>1, <1>3, <1>4 DEF MemberInv, M!TypeOK

LEMMA MemberStep ==
  ASSUME MemberInv, [Next]_vars
  PROVE  MemberInv'
<1>1. CASE M!Next
  BY <1>1, MembersRead, MembersRest, MembersWrite, InviteAccepted, OwnerLeft, InviteWritten, InviteLapses
  DEF M!Next
<1>2. CASE UNCHANGED memberships
  <2>1. UNCHANGED <<tenant, member, invite, req, slipped>>
    BY <1>2, SMTT(30) DEF memberships
  <2>2. ASSUME NEW q \in Request
        PROVE  (Asked(req[q]) /\ (~req[q].stale => StillTrue(req[q])))'
    <3>1. Asked(req[q]) /\ (~req[q].stale => StillTrue(req[q]))
      BY DEF MemberInv
    <3> QED
      BY <2>1, <3>1, SMTT(30)
         DEF Asked, StillTrue, OfAnother, OpenFor, M!Pending, M!IsMember, M!IsOwner, M!Homes, M!ActiveElsewhere
  <2>3. M!TypeOK' /\ RowsInv'
    BY <2>1 DEF MemberInv, M!TypeOK, RowsInv, OpenFor, M!Pending, M!IsMember, M!Homes
  <2> QED BY <2>2, <2>3 DEF MemberInv
<1> QED BY <1>1, <1>2, PartSteps

LEMMA MemberInit ==
  ASSUME Init PROVE MemberInv
<1>1. M!Init
  BY DEF Init
<1>2. /\ member \in [Tenant -> [User -> M!MemberRecord]]
      /\ \A t \in Tenant, u \in User : member[t][u].status = "none"
  BY <1>1 DEF M!Init, M!NoMember, M!MemberRecord, M!Role
<1>3. /\ invite \in [Invite -> M!InviteRecord]
      /\ \A i \in Invite : invite[i].status = "none"
  BY <1>1 DEF M!Init, M!NoInvite, M!InviteRecord
<1>4. req \in [Request -> M!RequestRecord] /\ \A r \in Request : req[r] = M!Idle
  BY <1>1, RequestIdle DEF M!Init
<1>5. M!TypeOK
  BY <1>1, <1>2, <1>3, <1>4 DEF M!Init, M!TypeOK
<1>6. RowsInv
  <2>1. \A u \in User : IsFiniteSet(M!Homes(u))
    <3>1. \A u \in User : M!Homes(u) = {}
      BY <1>2 DEF M!Homes
    <3> QED BY <3>1, FS_EmptySet
  <2> QED BY <1>2, <1>3, <2>1 DEF RowsInv, M!IsMember, OpenFor, M!Pending
<1>7. \A r \in Request : Asked(req[r]) /\ StillTrue(req[r])
  BY <1>4, RequestIdle
<1> QED BY <1>5, <1>6, <1>7 DEF MemberInv

\* The steps that write rows of tenant_users, each the end of its request.
LEMMA MemberWrites ==
  ASSUME [Next]_vars, member' # member
  PROVE  \E r \in Request :
           /\ M!Finish(r)
           /\ \/ \E t \in Tenant : M!Create(r, t)
              \/ M!Accept(r) \/ M!Update(r) \/ M!Remove(r) \/ M!Leave(r)
<1>1. M!Next
  BY PartSteps DEF memberships
<1>2. \A r, p, t, u, i, w : ~M!Begin(r, p, t, u, i, w)
  BY DEF M!Begin
<1>3. \A r \in Request : \A i \in Invite : ~M!CreateInvite(r, i) /\ \A u, e : ~M!BeginAccept(r, i, u, e)
  BY <1>2 DEF M!CreateInvite, M!BeginAccept
<1>4. \A r \in Request : ~M!PickReplacement(r) /\ ~M!Fail(r)
  BY DEF M!PickReplacement, M!Fail
<1>5. \A i \in Invite : ~M!Lapse(i) /\ ~M!Expire(i)
  BY DEF M!Lapse, M!Expire
<1>6. /\ \A r, u : ~M!BeginCreate(r, u)
      /\ \A r, t, u : ~M!BeginLeave(r, t, u)
      /\ \A r, v, t, u : ~M!BeginRemove(r, v, t, u)
      /\ \A r, v, t, u, w : ~M!BeginInvite(r, v, t, u, w) /\ ~M!BeginUpdate(r, v, t, u, w)
  BY <1>2 DEF M!BeginCreate, M!BeginLeave, M!BeginRemove, M!BeginInvite, M!BeginUpdate
<1>7. PICK r \in Request : \/ \E t \in Tenant : M!Create(r, t)
                           \/ M!Accept(r) \/ M!Update(r) \/ M!Remove(r) \/ M!Leave(r)
  BY <1>1, <1>3, <1>4, <1>5, <1>6, SMTT(30) DEF M!Next
<1>8. M!Finish(r)
  BY <1>7 DEF M!Create, M!Accept, M!Update, M!Remove, M!Leave
<1> QED BY <1>7, <1>8

\* What is known of the request that ends, when the step is not one of stale reading.
LEMMA FreshWrite ==
  ASSUME MemberInv, NEW r \in Request, M!Finish(r), ~M!StepOfStale
  PROVE  /\ StillTrue(req[r]) /\ Asked(req[r]) /\ req'[r] = M!Idle
         /\ tenant \subseteq Tenant /\ member \in [Tenant -> [User -> M!MemberRecord]]
         /\ invite \in [Invite -> M!InviteRecord]
<1>1. req \in [Request -> M!RequestRecord]
  BY DEF MemberInv, M!TypeOK
<1>2. req'[r] = M!Idle
  BY <1>1 DEF M!Finish
<1>3. ~req[r].stale
  BY <1>2, SMTT(30) DEF M!StepOfStale
<1> QED BY <1>2, <1>3 DEF MemberInv, M!TypeOK

\* What an acceptance does to the rows: it may make the user active, and nothing else.
LEMMA AcceptedRows ==
  ASSUME MemberInv, NEW r \in Request, M!Accept(r)
  PROVE  \E t \in Tenant, u \in User :
           /\ t = req[r].tenant /\ u = req[r].user
           /\ member' \in [Tenant -> [User -> M!MemberRecord]]
           /\ \A x \in Tenant, v \in User : x # t \/ v # u => member'[x][v] = member[x][v]
           /\ M!IsOwner(t, u)' <=> M!IsOwner(t, u)
           /\ member[t][u].status = "active" => member'[t][u].status = "active"
           /\ member'[t][u] # member[t][u] /\ M!IsMember(t, u) => req[r].what = "disabled"
<1> PICK t, u, i : t = req[r].tenant /\ u = req[r].user /\ i = req[r].invite
  OBVIOUS
<1>1. /\ member \in [Tenant -> [User -> M!MemberRecord]] /\ invite \in [Invite -> M!InviteRecord]
      /\ t \in Tenant /\ u \in User /\ i \in Invite
  BY DEF MemberInv, M!TypeOK, M!Accept, Asked
<1> SUFFICES
      /\ member' \in [Tenant -> [User -> M!MemberRecord]]
      /\ \A x \in Tenant, v \in User : x # t \/ v # u => member'[x][v] = member[x][v]
      /\ M!IsOwner(t, u)' <=> M!IsOwner(t, u)
      /\ member[t][u].status = "active" => member'[t][u].status = "active"
      /\ member'[t][u] # member[t][u] /\ M!IsMember(t, u) => req[r].what = "disabled"
  BY <1>1
<1>2. CASE member' = member
  BY <1>1, <1>2 DEF M!IsOwner, M!IsMember
<1>3. CASE ~M!IsMember(t, u) /\ M!SetMember(t, u, M!Active(invite[i].role))
  <2>1. PICK m : m = M!Active(invite[i].role)
    OBVIOUS
  <2>2. invite[i].role \in {"admin", "member"}
    BY <1>1 DEF M!InviteRecord
  <2>3. m \in M!MemberRecord /\ m.status = "active" /\ m.role # "owner"
    BY <2>1, <2>2 DEF M!Active, M!MemberRecord, M!Role
  <2>4. /\ member' \in [Tenant -> [User -> M!MemberRecord]] /\ member'[t][u] = m
        /\ \A x \in Tenant, v \in User : x # t \/ v # u => member'[x][v] = member[x][v]
    BY <1>1, <1>3, <2>1, <2>3, RowSet
  <2>5. ~M!IsOwner(t, u)' /\ ~M!IsOwner(t, u) /\ member[t][u].status # "active"
    BY <1>3, <2>3, <2>4 DEF M!IsOwner, M!IsMember
  <2> QED BY <1>3, <2>4, <2>5
<1>4. CASE /\ req[r].what = "disabled" /\ M!IsMember(t, u)
           /\ M!SetMember(t, u, [member[t][u] EXCEPT !.status = "active"])
  <2>1. PICK m : m = [member[t][u] EXCEPT !.status = "active"]
    OBVIOUS
  <2>2. member[t][u] \in M!MemberRecord
    BY <1>1
  <2>3. m \in M!MemberRecord /\ m.status = "active" /\ m.role = member[t][u].role
    BY <2>1, <2>2, SMTT(30) DEF M!MemberRecord
  <2>4. /\ member' \in [Tenant -> [User -> M!MemberRecord]] /\ member'[t][u] = m
        /\ \A x \in Tenant, v \in User : x # t \/ v # u => member'[x][v] = member[x][v]
    BY <1>1, <1>4, <2>1, <2>3, RowSet, SMTT(30)
  <2>5. M!IsOwner(t, u)' <=> M!IsOwner(t, u)
    BY <1>4, <2>3, <2>4 DEF M!IsOwner, M!IsMember
  <2> QED BY <1>4, <2>3, <2>4, <2>5
<1> QED BY <1>2, <1>3, <1>4 DEF M!Accept

LEMMA OwnerSafe ==
  ASSUME MemberInv, [Next]_vars
  PROVE  M!OwnerKeptStep
<1> SUFFICES ASSUME ~M!StepOfStale, NEW t \in tenant, M!OneOwner(t)
             PROVE  M!OneOwner(t)'
  BY DEF M!OwnerKeptStep
<1>0. t \in Tenant /\ member \in [Tenant -> [User -> M!MemberRecord]]
  BY DEF MemberInv, M!TypeOK
<1>1. PICK o \in User : M!Owners(t) = {o} /\ member[t][o].status = "active"
  BY DEF M!OneOwner
<1>2. /\ M!IsOwner(t, o) /\ \A w \in User : M!IsOwner(t, w) => w = o
  BY <1>1 DEF M!Owners
<1>3. ASSUME \A w \in User : M!IsOwner(t, w)' <=> M!IsOwner(t, w), member'[t][o].status = "active"
      PROVE  M!OneOwner(t)'
  <2>1. M!Owners(t)' = {o}
    BY <1>2, <1>3 DEF M!Owners
  <2> QED BY <1>3, <2>1 DEF M!OneOwner
<1>4. CASE \A w \in User : member'[t][w] = member[t][w]
  BY <1>1, <1>3, <1>4 DEF M!IsOwner, M!IsMember
<1>5. ASSUME NEW r \in Request, M!Finish(r), M!Accept(r)
      PROVE  M!OneOwner(t)'
  <2>0. PICK x \in Tenant, u \in User :
          /\ \A z \in Tenant, v \in User : z # x \/ v # u => member'[z][v] = member[z][v]
          /\ M!IsOwner(x, u)' <=> M!IsOwner(x, u)
          /\ member[x][u].status = "active" => member'[x][u].status = "active"
    BY <1>5, AcceptedRows
  <2>1. ASSUME NEW w \in User PROVE M!IsOwner(t, w)' <=> M!IsOwner(t, w)
    <3>1. CASE x = t /\ w = u
      BY <2>0, <3>1
    <3>2. CASE x # t \/ w # u
      <4>1. member'[t][w] = member[t][w]
        BY <1>0, <2>0, <3>2
      <4> QED BY <4>1 DEF M!IsOwner, M!IsMember
    <3> QED BY <3>1, <3>2
  <2>2. member'[t][o].status = "active"
    BY <1>0, <1>1, <2>0
  <2> QED BY <1>3, <2>1, <2>2
<1>6. ASSUME NEW r \in Request, NEW u \in User, NEW m \in M!MemberRecord,
             u = req[r].user, req[r].tenant = t, M!SetMember(t, u, m),
             member[t][u].role # "owner", m.role # "owner"
      PROVE  M!OneOwner(t)'
  <2>1. /\ member'[t][u] = m /\ \A w \in User : w # u => member'[t][w] = member[t][w]
    BY <1>0, <1>6, RowSet
  <2>2. u # o
    BY <1>2, <1>6 DEF M!IsOwner
  <2> QED BY <1>1, <1>3, <1>6, <2>1, <2>2 DEF M!IsOwner, M!IsMember
<1>7. ASSUME NEW r \in Request, M!Finish(r), M!Update(r)
      PROVE  M!OneOwner(t)'
  <2> PICK u : u = req[r].user
    OBVIOUS
  <2>1. /\ u \in User /\ req[r].tenant \in Tenant /\ req[r].what \in M!Change
        /\ member[req[r].tenant][u].role # "owner"
    BY <1>7, FreshWrite DEF M!Update, Asked, StillTrue
  <2>2. CASE req[r].tenant = t /\ M!IsMember(t, u)
    <3>1. PICK m : m = M!Changed(member[t][u], req[r].what)
      OBVIOUS
    <3>2. member[t][u] \in M!MemberRecord
      BY <1>0, <2>1
    <3>3. m \in M!MemberRecord /\ m.role # "owner"
      BY <2>1, <2>2, <3>1, <3>2 DEF M!Changed, M!MemberRecord, M!Change, M!Role
    <3>4. M!SetMember(t, u, m)
      BY <1>7, <2>2, <3>1 DEF M!Update
    <3> QED BY <1>6, <2>1, <2>2, <3>3, <3>4
  <2>3. CASE ~(req[r].tenant = t /\ M!IsMember(t, u))
    BY <1>0, <1>4, <1>7, <2>1, <2>3 DEF M!Update, M!SetMember
  <2> QED BY <2>2, <2>3
<1>8. ASSUME NEW r \in Request, M!Finish(r), M!Remove(r)
      PROVE  M!OneOwner(t)'
  <2>1. /\ req[r].user \in User /\ member[req[r].tenant][req[r].user].role # "owner"
        /\ M!SetMember(req[r].tenant, req[r].user, M!NoMember) /\ req[r].tenant \in Tenant
    BY <1>8, FreshWrite DEF M!Remove, Asked, StillTrue
  <2>2. M!NoMember \in M!MemberRecord /\ M!NoMember.role # "owner"
    BY DEF M!NoMember, M!MemberRecord, M!Role
  <2> QED BY <1>0, <1>4, <1>6, <2>1, <2>2 DEF M!SetMember
<1>9. ASSUME NEW r \in Request, M!Finish(r), M!Leave(r)
      PROVE  M!OneOwner(t)'
  <2> PICK s, u, v : s = req[r].tenant /\ u = req[r].user /\ v = req[r].next
    OBVIOUS
  <2>1. /\ s \in Tenant /\ u \in User /\ v \in User
        /\ \A x \in Tenant, w \in User : x # s \/ w \notin {u, v} => member'[x][w] = member[x][w]
        /\ member'[s][u] = M!NoMember
        /\ v # u => /\ member'[s][v].status = member[s][v].status
                    /\ M!IsMember(s, v) => member'[s][v].role = "owner"
    BY <1>9, LeftRows
  <2>2. M!IsOwner(s, u) /\ v # u /\ member[s][v].status = "active"
    BY <1>9, FreshWrite DEF M!Leave, StillTrue
  <2>3. CASE s # t
    BY <1>0, <1>4, <2>1, <2>3
  <2>4. CASE s = t
    <3>1. u = o /\ M!IsOwner(t, v)' /\ ~M!IsOwner(t, u)' /\ member'[t][v].status = "active"
      BY <1>2, <2>1, <2>2, <2>4 DEF M!IsOwner, M!IsMember, M!NoMember
    <3>2. \A w \in User : M!IsOwner(t, w)' => w = v
      BY <1>0, <1>2, <2>1, <2>4, <3>1 DEF M!IsOwner, M!IsMember
    <3>3. M!Owners(t)' = {v}
      BY <2>1, <3>1, <3>2 DEF M!Owners
    <3> QED BY <2>1, <3>1, <3>3 DEF M!OneOwner
  <2> QED BY <2>3, <2>4
<1>10. ASSUME NEW r \in Request, NEW x \in Tenant, M!Create(r, x)
       PROVE  M!OneOwner(t)'
  BY <1>0, <1>4, <1>10 DEF M!Create, M!SetMember
<1>11. CASE member' = member
  BY <1>4, <1>11
<1> QED BY <1>5, <1>7, <1>8, <1>9, <1>10, <1>11, MemberWrites

\* A tenant with one active owner keeps one, unless the step writes what was decided
\* before another request wrote: an invitation accepted, a change, a removal and the
\* owner's own leaving all keep the owner or put one in his place.
THEOREM OwnerStays == Spec => OwnerKept
<1>1. Init => MemberInv
  BY MemberInit
<1>2. MemberInv /\ [Next]_vars => MemberInv'
  BY MemberStep
<1>3. MemberInv /\ [Next]_vars => [M!OwnerKeptStep]_vars
  BY OwnerSafe
<1> QED BY <1>1, <1>2, <1>3, PTL DEF Spec, OwnerKept

-----------------------------------------------------------------------------
LEMMA HomesCounted ==
  ASSUME MemberInv, NEW u \in User
  PROVE  /\ M!Homes(u)' \subseteq M!Homes(u)
              => ~(M!Cardinality(M!Homes(u)') > M!Cardinality(M!Homes(u)))
         /\ \A t : M!Homes(u)' \subseteq {t} => ~(M!Cardinality(M!Homes(u)') > 1)
<1>1. IsFiniteSet(M!Homes(u))
  BY DEF MemberInv, RowsInv
<1>2. ASSUME NEW S, IsFiniteSet(S), M!Homes(u)' \subseteq S
      PROVE  Cardinality(M!Homes(u)') <= Cardinality(S) /\ Cardinality(S) \in Nat
                                      /\ Cardinality(M!Homes(u)') \in Nat
  BY <1>2, FS_Subset, FS_CardinalityType
<1>3. \A t : IsFiniteSet({t}) /\ Cardinality({t}) = 1
  BY FS_Singleton
<1> PICK new, old : new = M!Homes(u)' /\ old = M!Homes(u)
  OBVIOUS
<1>4. M!Cardinality(new) = Cardinality(new) /\ M!Cardinality(old) = Cardinality(old)
  BY SameCardinality
<1>5. new \subseteq old => ~(Cardinality(new) > Cardinality(old))
  BY <1>1, <1>2
<1>6. ASSUME NEW t, new \subseteq {t} PROVE ~(Cardinality(new) > 1)
  <2>1. PICK S : S = {t}
    OBVIOUS
  <2>2. IsFiniteSet(S) /\ Cardinality(S) = 1
    BY <1>3, <2>1
  <2>3. Cardinality(new) <= Cardinality(S) /\ Cardinality(new) \in Nat
    BY <1>2, <1>6, <2>1, <2>2
  <2> QED BY <2>2, <2>3
<1>7. /\ new \subseteq old => ~(M!Cardinality(new) > M!Cardinality(old))
      /\ \A t : new \subseteq {t} => ~(M!Cardinality(new) > 1)
  BY <1>4, <1>5, <1>6
<1>8. M!Cardinality(M!Homes(u)') = M!Cardinality(new)
  OBVIOUS
<1> QED BY <1>7, <1>8

\* Whoever becomes active by a request that was not overtaken was active nowhere else,
\* or is enabled by an administrator.
LEMMA OneTenantSafe ==
  ASSUME MemberInv, [Next]_vars
  PROVE  M!OneTenantStep
<1> SUFFICES ASSUME NEW u \in User, ~M!StepOfStale,
                    ~\E r \in Request : /\ req[r].at = "update" /\ req[r].what = "active"
                                        /\ req'[r] = M!Idle
             PROVE  M!Homes(u)' \subseteq M!Homes(u) \/ \E t : M!Homes(u)' \subseteq {t}
  BY HomesCounted DEF M!OneTenantStep
<1>0. member \in [Tenant -> [User -> M!MemberRecord]] /\ tenant \subseteq Tenant
  BY DEF MemberInv, M!TypeOK
<1>1. ASSUME \A t \in Tenant : member'[t][u].status = "active" => member[t][u].status = "active"
      PROVE  M!Homes(u)' \subseteq M!Homes(u)
  BY <1>1 DEF M!Homes
<1>2. ASSUME NEW r \in Request, NEW t \in Tenant, M!Finish(r), M!Create(r, t)
      PROVE  M!Homes(u)' \subseteq M!Homes(u) \/ \E x : M!Homes(u)' \subseteq {x}
  <2> PICK v, m : v = req[r].user /\ m = M!Active("owner")
    OBVIOUS
  <2>1. v \in User /\ M!Homes(v) = {} /\ m \in M!MemberRecord
    BY <1>2, FreshWrite DEF M!Create, Asked, StillTrue, M!Active, M!MemberRecord, M!Role
  <2>2. \A x \in Tenant, w \in User : x # t \/ w # v => member'[x][w] = member[x][w]
    BY <1>0, <1>2, <2>1, RowSet DEF M!Create
  <2>3. CASE u = v
    <3>1. \A x \in Tenant : member[x][u].status # "active"
      BY <2>1, <2>3 DEF M!Homes
    <3>2. \A x \in Tenant : member'[x][u].status = "active" => x = t
      BY <2>2, <3>1
    <3> QED BY <3>2 DEF M!Homes
  <2>4. CASE u # v
    BY <1>1, <2>2, <2>4
  <2> QED BY <2>3, <2>4
<1>3. ASSUME NEW r \in Request, M!Finish(r), M!Accept(r)
      PROVE  M!Homes(u)' \subseteq M!Homes(u) \/ \E x : M!Homes(u)' \subseteq {x}
  <2>1. PICK t \in Tenant, v \in User :
          /\ t = req[r].tenant /\ v = req[r].user
          /\ \A x \in Tenant, w \in User : x # t \/ w # v => member'[x][w] = member[x][w]
    BY <1>3, AcceptedRows, SMTT(30)
  <2>2. M!ActiveElsewhere(v, t) = {}
    BY <1>3, <2>1, FreshWrite DEF M!Accept, StillTrue
  <2>3. CASE u = v
    <3>1. \A x \in Tenant : member'[x][u].status = "active" => x = t
      BY <2>1, <2>2, <2>3 DEF M!ActiveElsewhere
    <3> QED BY <3>1 DEF M!Homes
  <2>4. CASE u # v
    BY <1>1, <2>1, <2>4
  <2> QED BY <2>3, <2>4
<1>4. ASSUME NEW r \in Request, M!Finish(r), M!Update(r)
      PROVE  M!Homes(u)' \subseteq M!Homes(u)
  <2> PICK t, v : t = req[r].tenant /\ v = req[r].user
    OBVIOUS
  <2>1. /\ t \in Tenant /\ v \in User /\ req[r].what \in M!Change \ {"active"}
    BY <1>4, FreshWrite DEF M!Update, Asked
  <2>2. CASE M!IsMember(t, v)
    <3>1. PICK m : m = M!Changed(member[t][v], req[r].what)
      OBVIOUS
    <3>2. member[t][v] \in M!MemberRecord
      BY <1>0, <2>1, SMTT(30)
    <3>3. m \in M!MemberRecord /\ (m.status = "active" => member[t][v].status = "active")
      BY <2>1, <3>1, <3>2 DEF M!Changed, M!MemberRecord, M!Change, M!Role
    <3>4. M!SetMember(t, v, m)
      BY <1>4, <2>2, <3>1 DEF M!Update
    <3>5. /\ member'[t][v] = m
          /\ \A x \in Tenant, w \in User : x # t \/ w # v => member'[x][w] = member[x][w]
      BY <1>0, <2>1, <3>3, <3>4, RowSet
    <3> QED BY <1>1, <3>3, <3>5
  <2>3. CASE ~M!IsMember(t, v)
    BY <1>1, <1>4, <2>3 DEF M!Update
  <2> QED BY <2>2, <2>3
<1>5. ASSUME NEW r \in Request, M!Finish(r), M!Remove(r)
      PROVE  M!Homes(u)' \subseteq M!Homes(u)
  <2> PICK t, v, m : t = req[r].tenant /\ v = req[r].user /\ m = M!NoMember
    OBVIOUS
  <2>1. t \in Tenant /\ v \in User /\ m \in M!MemberRecord /\ m.status # "active"
    BY <1>5, FreshWrite DEF M!Remove, Asked, M!NoMember, M!MemberRecord, M!Role
  <2>2. M!SetMember(t, v, m)
    BY <1>5 DEF M!Remove
  <2>3. /\ member'[t][v] = m
        /\ \A x \in Tenant, w \in User : x # t \/ w # v => member'[x][w] = member[x][w]
    BY <1>0, <2>1, <2>2, RowSet
  <2> QED BY <1>1, <2>1, <2>3
<1>6. ASSUME NEW r \in Request, M!Finish(r), M!Leave(r)
      PROVE  M!Homes(u)' \subseteq M!Homes(u)
  <2> PICK t, v, w : t = req[r].tenant /\ v = req[r].user /\ w = req[r].next
    OBVIOUS
  <2>1. /\ t \in Tenant /\ v \in User /\ w \in User
        /\ \A x \in Tenant, z \in User : x # t \/ z \notin {v, w} => member'[x][z] = member[x][z]
        /\ member'[t][v] = M!NoMember
        /\ w # v => member'[t][w].status = member[t][w].status
    BY <1>6, LeftRows
  <2>2. member'[t][v].status # "active"
    BY <2>1 DEF M!NoMember
  <2> QED BY <1>1, <2>1, <2>2
<1>7. CASE member' = member
  BY <1>1, <1>7
<1> QED BY <1>2, <1>3, <1>4, <1>5, <1>6, <1>7, MemberWrites

\* Nobody but an administrator enables a member again, but for the invitations he should
\* not have had.
LEMMA DisabledSafe ==
  ASSUME MemberInv, [Next]_vars
  PROVE  M!DisabledStep
<1> SUFFICES ASSUME NEW t \in Tenant, NEW u \in User,
                    member[t][u].status = "disabled", member'[t][u].status = "active",
                    ~\E r \in Request : req[r].at = "update" /\ req'[r] = M!Idle
             PROVE  <<t, u>> \in slipped'
  BY DEF M!DisabledStep
<1>0. /\ member \in [Tenant -> [User -> M!MemberRecord]] /\ tenant \subseteq Tenant
      /\ req \in [Request -> M!RequestRecord] /\ \A r \in Request : Asked(req[r])
      /\ t \in tenant
  BY DEF MemberInv, RowsInv, M!TypeOK, M!IsMember
<1>1. ASSUME NEW r \in Request, NEW x \in Tenant, M!Create(r, x)
      PROVE  FALSE
  BY <1>0, <1>1 DEF M!Create, M!SetMember
<1>2. ASSUME NEW r \in Request, M!Accept(r)
      PROVE  <<t, u>> \in slipped'
  <2>1. PICK x \in Tenant, v \in User :
          /\ x = req[r].tenant /\ v = req[r].user
          /\ \A y \in Tenant, w \in User : y # x \/ w # v => member'[y][w] = member[y][w]
          /\ member'[x][v] # member[x][v] /\ M!IsMember(x, v) => req[r].what = "disabled"
    BY <1>2, AcceptedRows
  <2>2. x = t /\ v = u
    BY <2>1
  <2>3. req[r].what = "disabled"
    BY <2>1, <2>2 DEF M!IsMember
  <2>4. invite[req[r].invite].user # u \/ <<t, u>> \in slipped
    BY <1>0, <1>2, <2>1, <2>2, <2>3 DEF M!Accept, Asked, OfAnother
  <2>5. M!NoteSlip(r, invite[req[r].invite].user # u)
    BY <1>2, <2>1, <2>2 DEF M!Accept
  <2> QED BY <2>1, <2>2, <2>4, <2>5 DEF M!NoteSlip
<1>3. ASSUME NEW r \in Request, M!Finish(r), M!Update(r)
      PROVE  FALSE
  BY <1>0, <1>3 DEF M!Update, M!Finish
<1>4. ASSUME NEW r \in Request, M!Remove(r)
      PROVE  FALSE
  <2> PICK x, v, m : x = req[r].tenant /\ v = req[r].user /\ m = M!NoMember
    OBVIOUS
  <2>1. x \in Tenant /\ v \in User /\ m \in M!MemberRecord /\ m.status # "active"
    BY <1>0, <1>4 DEF M!Remove, Asked, M!NoMember, M!MemberRecord, M!Role
  <2>2. M!SetMember(x, v, m)
    BY <1>4 DEF M!Remove
  <2>3. /\ member'[x][v] = m
        /\ \A y \in Tenant, w \in User : y # x \/ w # v => member'[y][w] = member[y][w]
    BY <1>0, <2>1, <2>2, RowSet
  <2> QED BY <2>1, <2>3
<1>5. ASSUME NEW r \in Request, M!Leave(r)
      PROVE  FALSE
  <2> PICK x, v, w : x = req[r].tenant /\ v = req[r].user /\ w = req[r].next
    OBVIOUS
  <2>1. /\ \A y \in Tenant, z \in User : y # x \/ z \notin {v, w} => member'[y][z] = member[y][z]
        /\ member'[x][v] = M!NoMember
        /\ w # v => member'[x][w].status = member[x][w].status
    BY <1>5, LeftRows
  <2>2. member'[x][v].status # "active"
    BY <2>1 DEF M!NoMember
  <2> QED BY <2>1, <2>2
<1>6. member' # member
  OBVIOUS
<1> QED BY <1>1, <1>2, <1>3, <1>4, <1>5, <1>6, MemberWrites

\* A user becomes active in a second tenant only when an administrator enables him or a
\* request was overtaken, and a disabled member comes back only when an administrator
\* enables him, with the invitation of another, or with one he has because a request that
\* was overtaken invited him or let him in, or because he got in with one of another.
THEOREM OneTenantKept == Spec => OneTenantEach
<1>1. Init => MemberInv
  BY MemberInit
<1>2. MemberInv /\ [Next]_vars => MemberInv'
  BY MemberStep
<1>3. MemberInv /\ [Next]_vars => [M!OneTenantStep /\ M!DisabledStep]_vars
  BY OneTenantSafe, DisabledSafe
<1> QED BY <1>1, <1>2, <1>3, PTL DEF Spec, OneTenantEach


-----------------------------------------------------------------------------
(***************************************************************************)
(* The board.  A refusal holds, if no other write took a part of it back:  *)
(* between its writes the case is refused, else the enrolment is closed    *)
(* just when it is, and what a bulk is about to approve is open.           *)
(***************************************************************************)
Agrees(c) == cases[c].enrolment = "closed" <=> cases[c].approval \in B!Refused

HalfRefused(c) == c \in closing \/ B!HalfExcluded(c)

ToApprove(c) == bulk.pc = "write" /\ bulk.action = "approve" /\ c \in bulk.ids

Holds(c) ==
  /\ HalfRefused(c) => cases[c].approval \in B!Refused
  /\ ~HalfRefused(c) => Agrees(c)
  /\ ToApprove(c) => c \notin closing /\ cases[c].enrolment # "closed"

\* What is excluded is on record, or will be when the bulk has come so far.
OnRecord(c) ==
  cases[c].approval = "EXCLUDED" =>
    \/ <<c, "case_excluded">> \in events
    \/ bulk.action = "exclude" /\ bulk.pc \in {"close", "log"} /\ c \in bulk.ids

BulkType == [pc : {"idle", "write", "close", "log"}, action : B!Action, ids : SUBSET Case]

BoardInv ==
  /\ B!TypeOK
  /\ bulk.pc = "idle" => bulk = B!Idle
  /\ bulk.pc = "close" => bulk.action = "exclude"
  /\ \A c \in Case : c \notin overridden => Holds(c)
  /\ \A c \in Case : c \notin unlogged => OnRecord(c)

LEMMA BoardFacts ==
  ASSUME BoardInv
  PROVE  /\ cases \in [Case -> B!CaseRow] /\ bulk \in BulkType
         /\ events \subseteq Case \X {"case_approved", "case_excluded"} /\ acts \in 0 .. MaxActs
         /\ closing \subseteq Case /\ overridden \subseteq Case /\ unlogged \subseteq Case
         /\ MaxActs \in Nat /\ B!Idle \in BulkType /\ B!Idle.ids = {} /\ B!Idle.pc = "idle"
         /\ bulk.pc = "idle" => bulk = B!Idle
         /\ bulk.pc = "close" => bulk.action = "exclude"
BY BackOfficeAssumption DEF BackOfficeAssumption, B!BoardAssumption, BoardInv, B!TypeOK, BulkType,
   B!Idle, B!Action

LEMMA ListType ==
  ASSUME NEW action \in B!Action, NEW f \in B!Filter
  PROVE  B!BulkList(action, f) \subseteq Case
BY DEF B!BulkList, B!findCaseStates

LEMMA BoardInit ==
  ASSUME Init PROVE BoardInv
<1>1. B!Init
  BY DEF Init
<1>2. /\ cases \in [Case -> B!CaseRow] /\ bulk = B!Idle /\ events = {} /\ acts = 0
      /\ closing = {} /\ overridden = {} /\ unlogged = {}
      /\ \A c \in Case : cases[c].approval \in {"PENDING_APPROVAL", "APPROVED"}
                         /\ cases[c].enrolment = "active"
  BY <1>1 DEF B!Init, B!CaseRow, B!Approval
<1>3. MaxActs \in Nat
  BY BackOfficeAssumption DEF BackOfficeAssumption, B!BoardAssumption
<1>4. B!TypeOK
  BY <1>2, <1>3 DEF B!TypeOK, B!Idle, B!Action
<1>5. \A c \in Case : Holds(c) /\ OnRecord(c)
  BY <1>2 DEF Holds, HalfRefused, Agrees, ToApprove, OnRecord, B!HalfExcluded, B!Idle, B!Refused
<1> QED BY <1>2, <1>4, <1>5 DEF BoardInv, B!Idle

LEMMA BulkFound ==
  ASSUME BoardInv, NEW action \in B!Action, NEW ids \in SUBSET Case, B!BulkFind(action, ids)
  PROVE  BoardInv'
<1>1. /\ bulk = B!Idle /\ UNCHANGED <<cases, events, closing, unlogged>>
      /\ bulk' = [pc |-> "write", action |-> action, ids |-> ids]
      /\ overridden' = IF action = "approve"
                       THEN overridden \cup {c \in ids : cases[c].enrolment = "closed" \/ c \in closing}
                       ELSE overridden
      /\ acts' = acts + 1 /\ acts < MaxActs
  BY DEF B!BulkFind, B!Act
<1>2. B!TypeOK'
  BY <1>1, BoardFacts DEF B!TypeOK
<1>3. ASSUME NEW c \in Case, c \notin overridden'
      PROVE  Holds(c)'
  <2>1. c \notin overridden /\ Holds(c) /\ ~B!HalfExcluded(c) /\ ~B!HalfExcluded(c)'
    BY <1>1, <1>3, BoardFacts DEF BoardInv, B!HalfExcluded
  <2>2. ToApprove(c)' => c \notin closing /\ cases[c].enrolment # "closed"
    BY <1>1, <1>3 DEF ToApprove
  <2> QED BY <1>1, <2>1, <2>2 DEF Holds, HalfRefused, Agrees
<1>4. ASSUME NEW c \in Case, c \notin unlogged'
      PROVE  OnRecord(c)'
  <2>1. OnRecord(c)
    BY <1>1, <1>4 DEF BoardInv
  <2> QED BY <1>1, <2>1, BoardFacts DEF OnRecord
<1> QED BY <1>1, <1>2, <1>3, <1>4 DEF BoardInv

LEMMA BulkWritten ==
  ASSUME BoardInv, B!BulkWrite
  PROVE  BoardInv'
<1>1. /\ bulk.pc = "write" /\ UNCHANGED <<events, acts, closing, overridden, unlogged>>
      /\ bulk'.ids = bulk.ids /\ bulk'.action = bulk.action
      /\ bulk'.pc = IF bulk.action = "approve" THEN "log" ELSE "close"
  BY BoardFacts DEF B!BulkWrite, BulkType
<1>2. \A c \in Case :
        /\ cases'[c].enrolment = cases[c].enrolment
        /\ cases'[c].approval = IF c \notin bulk.ids THEN cases[c].approval
                                ELSE IF bulk.action = "approve" THEN "APPROVED" ELSE "EXCLUDED"
  BY BoardFacts DEF B!BulkWrite, B!CaseRow
<1>3. B!TypeOK'
  BY BoardFacts DEF B!TypeOK, B!BulkWrite, B!CaseRow, B!Approval, BulkType
<1>4. bulk.action \in {"approve", "exclude"}
  BY BoardFacts DEF BulkType, B!Action
<1>5. ASSUME NEW c \in Case, c \notin overridden'
      PROVE  Holds(c)'
  <2>1. Holds(c) /\ ~ToApprove(c)' /\ (B!HalfExcluded(c)' <=> c \in bulk.ids /\ bulk.action = "exclude")
    BY <1>1, <1>4, <1>5 DEF BoardInv, ToApprove, B!HalfExcluded
  <2>2. ~B!HalfExcluded(c)
    BY <1>1 DEF B!HalfExcluded
  <2>3. CASE c \notin bulk.ids
    BY <1>1, <1>2, <2>1, <2>2, <2>3 DEF Holds, HalfRefused, Agrees
  <2>4. CASE c \in bulk.ids /\ bulk.action = "exclude"
    BY <1>1, <1>2, <2>1, <2>4 DEF Holds, HalfRefused, B!Refused
  <2>5. CASE c \in bulk.ids /\ bulk.action = "approve"
    <3>1. c \notin closing /\ cases[c].enrolment # "closed"
      BY <1>1, <2>1, <2>5 DEF Holds, ToApprove
    <3> QED BY <1>1, <1>2, <2>1, <2>5, <3>1 DEF Holds, HalfRefused, Agrees, B!Refused
  <2> QED BY <1>4, <2>3, <2>4, <2>5
<1>6. ASSUME NEW c \in Case, c \notin unlogged'
      PROVE  OnRecord(c)'
  <2>1. OnRecord(c)
    BY <1>1, <1>6 DEF BoardInv
  <2> QED BY <1>1, <1>2, <1>4, <2>1 DEF OnRecord
<1> QED BY <1>1, <1>3, <1>4, <1>5, <1>6 DEF BoardInv

LEMMA BulkClosed ==
  ASSUME BoardInv, B!BulkClose
  PROVE  BoardInv'
<1>1. /\ bulk.pc = "close" /\ UNCHANGED <<events, acts, closing, overridden, unlogged>>
      /\ bulk'.ids = bulk.ids /\ bulk'.action = bulk.action /\ bulk'.pc = "log"
  BY BoardFacts DEF B!BulkClose, BulkType
<1>2. \A c \in Case :
        /\ cases'[c].approval = cases[c].approval
        /\ cases'[c].enrolment = IF c \in bulk.ids THEN "closed" ELSE cases[c].enrolment
  BY BoardFacts DEF B!BulkClose, B!CaseRow
<1>3. B!TypeOK'
  BY BoardFacts DEF B!TypeOK, B!BulkClose, B!CaseRow, BulkType
<1>4. ASSUME NEW c \in Case, c \notin overridden'
      PROVE  Holds(c)'
  <2>1. Holds(c) /\ ~ToApprove(c)' /\ ~B!HalfExcluded(c)' /\ (B!HalfExcluded(c) <=> c \in bulk.ids)
    BY <1>1, <1>4 DEF BoardInv, ToApprove, B!HalfExcluded
  <2> QED BY <1>1, <1>2, <2>1 DEF Holds, HalfRefused, Agrees
<1>5. ASSUME NEW c \in Case, c \notin unlogged'
      PROVE  OnRecord(c)'
  <2>1. OnRecord(c)
    BY <1>1, <1>5 DEF BoardInv
  <2> QED BY <1>1, <1>2, <2>1 DEF OnRecord
<1> QED BY <1>1, <1>3, <1>4, <1>5 DEF BoardInv

LEMMA BulkStopped ==
  ASSUME BoardInv, B!BulkStops
  PROVE  BoardInv'
<1>1. /\ bulk.pc # "idle" /\ bulk' = B!Idle /\ UNCHANGED <<cases, events, acts, closing>>
      /\ overridden' = IF bulk.pc = "close" THEN overridden \cup bulk.ids ELSE overridden
      /\ unlogged' = IF bulk.pc = "write" THEN unlogged ELSE unlogged \cup bulk.ids
  BY DEF B!BulkStops
<1>2. B!TypeOK'
  BY <1>1, BoardFacts DEF B!TypeOK, BulkType
<1>3. ASSUME NEW c \in Case, c \notin overridden'
      PROVE  Holds(c)'
  <2>1. Holds(c) /\ ~B!HalfExcluded(c)
    BY <1>1, <1>3 DEF BoardInv, B!HalfExcluded
  <2>2. ~B!HalfExcluded(c)' /\ ~ToApprove(c)'
    BY <1>1, BoardFacts DEF B!HalfExcluded, ToApprove
  <2> QED BY <1>1, <2>1, <2>2 DEF Holds, HalfRefused, Agrees
<1>4. ASSUME NEW c \in Case, c \notin unlogged'
      PROVE  OnRecord(c)'
  <2>1. OnRecord(c) /\ (bulk.pc = "write" \/ c \notin bulk.ids)
    BY <1>1, <1>4 DEF BoardInv
  <2> QED BY <1>1, <2>1 DEF OnRecord
<1> QED BY <1>1, <1>2, <1>3, <1>4, BoardFacts DEF BoardInv

LEMMA BulkWrote ==
  ASSUME BoardInv, NEW d \in Case, B!BulkLog(d)
  PROVE  BoardInv'
<1>1. /\ bulk.pc = "log" /\ d \in bulk.ids /\ UNCHANGED <<cases, acts, closing, overridden, unlogged>>
      /\ events' = events \cup
           {<<d, IF bulk.action = "approve" THEN "case_approved" ELSE "case_excluded">>}
  BY DEF B!BulkLog
<1>2. /\ bulk' \in BulkType /\ bulk'.ids = bulk.ids \ {d} /\ bulk'.pc \in {"idle", "log"}
      /\ bulk'.ids # {} => bulk'.pc = "log" /\ bulk'.action = bulk.action
      /\ bulk'.pc = "idle" => bulk' = B!Idle
  BY BoardFacts DEF B!BulkLog, BulkType
<1>3. B!TypeOK'
  BY <1>1, <1>2, BoardFacts DEF B!TypeOK, BulkType
<1>4. ASSUME NEW c \in Case, c \notin overridden'
      PROVE  Holds(c)'
  <2>1. /\ Holds(c) /\ ~B!HalfExcluded(c)
        /\ ~B!HalfExcluded(c)' /\ ~ToApprove(c)'
    BY <1>1, <1>2, <1>4 DEF BoardInv, B!HalfExcluded, ToApprove
  <2> QED BY <1>1, <2>1 DEF Holds, HalfRefused, Agrees
<1>5. ASSUME NEW c \in Case, c \notin unlogged'
      PROVE  OnRecord(c)'
  <2>1. OnRecord(c)
    BY <1>1, <1>5 DEF BoardInv
  <2>2. CASE c = d
    BY <1>1, <2>1, <2>2 DEF OnRecord
  <2>3. CASE c # d
    <3>1. c \in bulk.ids => c \in bulk'.ids /\ bulk'.pc = "log" /\ bulk'.action = bulk.action
      BY <1>2, <2>3
    <3> QED BY <1>1, <2>1, <3>1 DEF OnRecord
  <2> QED BY <2>2, <2>3
<1> QED BY <1>2, <1>3, <1>4, <1>5 DEF BoardInv

\* One case is written, the bulk goes on as it was, and so do the other cases.
OtherCasesKeep(c) ==
  /\ UNCHANGED <<bulk, events>>
  /\ B!TypeOK'
  /\ \A k \in Case \ {c} : /\ cases'[k] = cases[k]
                           /\ k \in closing' <=> k \in closing
                           /\ k \in overridden' <=> k \in overridden
                           /\ k \in unlogged' <=> k \in unlogged

LEMMA CaseWritten ==
  ASSUME BoardInv, NEW c \in Case, OtherCasesKeep(c),
         c \notin overridden' => Holds(c)', c \notin unlogged' => OnRecord(c)'
  PROVE  BoardInv'
<1>1. UNCHANGED <<bulk, events>> /\ B!TypeOK'
  BY DEF OtherCasesKeep
<1>2. ASSUME NEW k \in Case, k # c
      PROVE  (k \notin overridden' => Holds(k)') /\ (k \notin unlogged' => OnRecord(k)')
  <2>1. /\ cases'[k] = cases[k]
        /\ k \in closing' <=> k \in closing
        /\ k \in overridden' <=> k \in overridden
        /\ k \in unlogged' <=> k \in unlogged
    BY <1>2 DEF OtherCasesKeep
  <2>2. (k \notin overridden => Holds(k)) /\ (k \notin unlogged => OnRecord(k))
    BY DEF BoardInv
  <2>3. Holds(k) => Holds(k)'
    BY <1>1, <2>1 DEF Holds, HalfRefused, Agrees, ToApprove, B!HalfExcluded
  <2>4. OnRecord(k) => OnRecord(k)'
    BY <1>1, <2>1 DEF OnRecord
  <2> QED BY <2>1, <2>2, <2>3, <2>4
<1>3. \A k \in Case : (k \notin overridden' => Holds(k)') /\ (k \notin unlogged' => OnRecord(k)')
  BY <1>2
<1> QED BY <1>1, <1>3 DEF BoardInv

LEMMA HandStep ==
  ASSUME BoardInv, NEW c \in Case,
         \/ B!Approve(c) \/ B!Close(c) \/ B!CloseFails(c) \/ B!Dispute(c)
         \/ \E s \in {"active", "paused"} : B!SetEnrolment(c, s)
         \/ \E a \in B!Refused : B!Refuse(c, a)
  PROVE  BoardInv'
<1>0. (c \notin overridden => Holds(c)) /\ (c \notin unlogged => OnRecord(c))
  BY DEF BoardInv
<1>1. CASE B!Approve(c)
  <2>1. /\ acts' = acts + 1 /\ acts < MaxActs /\ UNCHANGED <<bulk, events, closing, unlogged>>
        /\ cases' = [cases EXCEPT ![c].approval = "APPROVED"]
        /\ overridden' = IF cases[c].enrolment = "closed" \/ HalfRefused(c)
                         THEN overridden \cup {c} ELSE overridden
    BY <1>1 DEF B!Approve, B!Act, HalfRefused
  <2>2. /\ cases' \in [Case -> B!CaseRow] /\ \A k \in Case \ {c} : cases'[k] = cases[k]
        /\ cases'[c].approval = "APPROVED" /\ cases'[c].enrolment = cases[c].enrolment
    BY <2>1, BoardFacts DEF B!CaseRow, B!Approval
  <2>3. OtherCasesKeep(c)
    BY <2>1, <2>2, BoardFacts DEF OtherCasesKeep, B!TypeOK, BulkType
  <2>4. c \notin overridden' => Holds(c)'
    BY <1>0, <2>1, <2>2 DEF Holds, HalfRefused, Agrees, ToApprove, B!HalfExcluded, B!Refused
  <2>5. OnRecord(c)'
    BY <2>2 DEF OnRecord
  <2> QED BY <2>3, <2>4, <2>5, CaseWritten
<1>2. CASE B!Close(c)
  <2>1. /\ c \in closing /\ UNCHANGED <<bulk, events, acts, overridden, unlogged>>
        /\ cases' = [cases EXCEPT ![c].enrolment = "closed"] /\ closing' = closing \ {c}
    BY <1>2 DEF B!Close
  <2>2. /\ cases' \in [Case -> B!CaseRow] /\ \A k \in Case \ {c} : cases'[k] = cases[k]
        /\ cases'[c].approval = cases[c].approval /\ cases'[c].enrolment = "closed"
    BY <2>1, BoardFacts DEF B!CaseRow
  <2>3. OtherCasesKeep(c)
    BY <2>1, <2>2, BoardFacts DEF OtherCasesKeep, B!TypeOK, BulkType
  <2>4. c \notin overridden' => Holds(c)'
    BY <1>0, <2>1, <2>2 DEF Holds, HalfRefused, Agrees, ToApprove, B!HalfExcluded
  <2>5. c \notin unlogged' => OnRecord(c)'
    BY <1>0, <2>1, <2>2 DEF OnRecord
  <2> QED BY <2>3, <2>4, <2>5, CaseWritten
<1>3. CASE B!CloseFails(c)
  <2>1. /\ UNCHANGED <<cases, bulk, events, acts, unlogged>>
        /\ closing' = closing \ {c} /\ overridden' = overridden \cup {c}
    BY <1>3 DEF B!CloseFails
  <2>2. OtherCasesKeep(c)
    BY <2>1, BoardFacts DEF OtherCasesKeep, B!TypeOK, BulkType
  <2>3. c \notin unlogged' => OnRecord(c)'
    BY <1>0, <2>1 DEF OnRecord
  <2> QED BY <2>1, <2>2, <2>3, CaseWritten
<1>4. CASE B!Dispute(c)
  <2>1. /\ acts' = acts + 1 /\ acts < MaxActs
        /\ UNCHANGED <<bulk, events, closing, overridden, unlogged>>
        /\ cases' = [cases EXCEPT ![c].disputed = ~@]
    BY <1>4 DEF B!Dispute, B!Act
  <2>2. /\ cases' \in [Case -> B!CaseRow] /\ \A k \in Case \ {c} : cases'[k] = cases[k]
        /\ cases'[c].approval = cases[c].approval /\ cases'[c].enrolment = cases[c].enrolment
    BY <2>1, BoardFacts DEF B!CaseRow
  <2>3. OtherCasesKeep(c)
    BY <2>1, <2>2, BoardFacts DEF OtherCasesKeep, B!TypeOK, BulkType
  <2>4. c \notin overridden' => Holds(c)'
    BY <1>0, <2>1, <2>2 DEF Holds, HalfRefused, Agrees, ToApprove, B!HalfExcluded
  <2>5. c \notin unlogged' => OnRecord(c)'
    BY <1>0, <2>1, <2>2 DEF OnRecord
  <2> QED BY <2>3, <2>4, <2>5, CaseWritten
<1>5. ASSUME NEW s \in {"active", "paused"}, B!SetEnrolment(c, s)
      PROVE  BoardInv'
  <2>1. /\ acts' = acts + 1 /\ acts < MaxActs /\ UNCHANGED <<bulk, events, closing, unlogged>>
        /\ cases' = [cases EXCEPT ![c].enrolment = s]
        /\ overridden' = IF cases[c].enrolment = "closed" THEN overridden \cup {c} ELSE overridden
    BY <1>5 DEF B!SetEnrolment, B!Act
  <2>2. /\ cases' \in [Case -> B!CaseRow] /\ \A k \in Case \ {c} : cases'[k] = cases[k]
        /\ cases'[c].approval = cases[c].approval /\ cases'[c].enrolment # "closed"
    BY <2>1, BoardFacts DEF B!CaseRow
  <2>3. OtherCasesKeep(c)
    BY <2>1, <2>2, BoardFacts DEF OtherCasesKeep, B!TypeOK, BulkType
  <2>4. c \notin overridden' => Holds(c)'
    BY <1>0, <2>1, <2>2 DEF Holds, HalfRefused, Agrees, ToApprove, B!HalfExcluded
  <2>5. c \notin unlogged' => OnRecord(c)'
    BY <1>0, <2>1, <2>2 DEF OnRecord
  <2> QED BY <2>3, <2>4, <2>5, CaseWritten
<1>6. ASSUME NEW a \in B!Refused, B!Refuse(c, a)
      PROVE  BoardInv'
  <2>1. /\ acts' = acts + 1 /\ acts < MaxActs /\ UNCHANGED <<bulk, events>>
        /\ cases' = [cases EXCEPT ![c].approval = a] /\ closing' = closing \cup {c}
        /\ overridden' = IF ToApprove(c) THEN overridden \cup {c} ELSE overridden
        /\ unlogged' = IF a = "EXCLUDED" THEN unlogged \cup {c} ELSE unlogged
    BY <1>6 DEF B!Refuse, B!Act, ToApprove
  <2>2. /\ cases' \in [Case -> B!CaseRow] /\ \A k \in Case \ {c} : cases'[k] = cases[k]
        /\ cases'[c].approval = a
    BY <2>1, BoardFacts DEF B!CaseRow, B!Approval, B!Refused
  <2>3. OtherCasesKeep(c)
    BY <2>1, <2>2, BoardFacts DEF OtherCasesKeep, B!TypeOK, BulkType
  <2>4. c \notin overridden' => Holds(c)'
    BY <1>0, <2>1, <2>2 DEF Holds, HalfRefused, ToApprove
  <2>5. c \notin unlogged' => OnRecord(c)'
    BY <2>1, <2>2 DEF OnRecord
  <2> QED BY <2>3, <2>4, <2>5, CaseWritten
<1> QED BY <1>1, <1>2, <1>3, <1>4, <1>5, <1>6

LEMMA BoardStep ==
  ASSUME BoardInv, [Next]_vars
  PROVE  BoardInv'
<1>1. CASE UNCHANGED board
  BY <1>1 DEF board, BoardInv, B!TypeOK, Holds, HalfRefused, Agrees, ToApprove, OnRecord,
              B!HalfExcluded
<1>2. CASE B!Next
  <2>1. CASE \E action \in B!Action : \E ids \in {B!BulkList(action, f) : f \in B!Filter} :
               B!BulkFind(action, ids)
    BY <2>1, ListType, BulkFound
  <2>2. CASE B!BulkWrite \/ B!BulkClose \/ B!BulkStops
    BY <2>2, BulkWritten, BulkClosed, BulkStopped
  <2>3. CASE \E c \in Case : B!BulkLog(c)
    BY <2>3, BulkWrote
  <2>4. CASE \E c \in Case : \/ B!Dispute(c) \/ B!Approve(c) \/ B!Close(c) \/ B!CloseFails(c)
                             \/ B!pause(c) \/ B!resume(c)
    BY <2>4, HandStep DEF B!pause, B!resume
  <2>5. CASE \E c \in Case, a \in B!Refused : B!Refuse(c, a)
    BY <2>5, HandStep
  <2> QED BY <1>2, <2>1, <2>2, <2>3, <2>4, <2>5 DEF B!Next
<1> QED BY <1>1, <1>2, PartSteps

\* An enrolment is closed just when its case was refused, and what a bulk has excluded is on
\* record: but for the cases of which another write took a part back, and for those that a
\* manager excluded by hand or a bulk without coming to its event.
THEOREM ClosedStaysRefused == Spec => []ClosedMeansRefused
<1>1. BoardInv => ClosedMeansRefused
  <2> SUFFICES ASSUME BoardInv PROVE B!ClosedMeansRefused /\ B!BulkIsLogged
    BY DEF ClosedMeansRefused
  <2>1. B!ClosedMeansRefused
    BY DEF BoardInv, Holds, HalfRefused, Agrees, B!ClosedMeansRefused
  <2>2. B!BulkIsLogged
    BY BoardFacts DEF BoardInv, OnRecord, B!BulkIsLogged
  <2> QED BY <2>1, <2>2
<1>2. Init => BoardInv
  BY BoardInit
<1>3. BoardInv /\ [Next]_vars => BoardInv'
  BY BoardStep
<1> QED BY <1>1, <1>2, <1>3, PTL DEF Spec

-----------------------------------------------------------------------------
(***************************************************************************)
(* What the board shows.  The clauses that list and those that count let   *)
(* the same rows through; what the list leaves out is in dispute.          *)
(***************************************************************************)
LetThrough(tab, f) == {c \in Case : B!findWhere(tab, f, cases[c])}

\* The list leaves disputes out: approved cases are asked for.
Hiding(tab, f) ==
  IF f.status = {} THEN tab = "active" ELSE "APPROVED" \in f.status

LEMMA CasesAndDays == IsFiniteSet(Case) /\ IsFiniteSet(Days)
<1>1. \A X : B!IsFiniteSet(X) <=> IsFiniteSet(X)
  BY DEF B!IsFiniteSet, IsFiniteSet
<1> QED BY <1>1, BackOfficeAssumption DEF BackOfficeAssumption, B!BoardAssumption

LEMMA NoneIsNoTab == None \notin {"pending", "active", "excluded", "disputes"}
BY BackOfficeAssumption DEF BackOfficeAssumption, B!BoardAssumption, B!Tab

LEMMA PartOfCases ==
  ASSUME NEW S \in SUBSET Case
  PROVE  IsFiniteSet(S) /\ Cardinality(S) \in Nat /\ Cardinality(S) <= Cardinality(Case)
<1>1. IsFiniteSet(Case)
  BY CasesAndDays
<1> QED BY <1>1, FS_Subset, FS_CardinalityType

LEMMA CountsWhatItLists ==
  ASSUME B!TypeOK, NEW tab \in {None, "pending", "active", "excluded"}, NEW f \in B!Filter
  PROVE  /\ B!countCaseStates(tab, f) = Cardinality(LetThrough(tab, f))
         /\ B!findCaseStates(tab, f) =
              LetThrough(tab, f) \ (IF Hiding(tab, f) THEN B!findDisputesByAutomation ELSE {})
<1> DEFINE ofTab == [pending |-> "PENDING_APPROVAL", active |-> "APPROVED", excluded |-> "EXCLUDED"]
           Counted(row) ==
             /\ \/ row.enrolment = "active"
                \/ /\ "EXCLUDED" \in f.status \/ (f.status = {} /\ tab = "excluded")
                   /\ row.enrolment = "closed"
             /\ IF f.status # {}
                THEN row.approval \in f.status
                ELSE tab \in DOMAIN ofTab => row.approval = ofTab[tab]
             /\ B!InRange(row, f)
<1>1. None \notin {"pending", "active", "excluded"}
  BY NoneIsNoTab
<1>2. ASSUME NEW row \in B!CaseRow PROVE B!findWhere(tab, f, row) <=> Counted(row)
  <2>2. DOMAIN ofTab = {"pending", "active", "excluded"}
    OBVIOUS
  <2>3. tab \in DOMAIN ofTab => ofTab[tab] = IF tab = "pending" THEN "PENDING_APPROVAL"
                                             ELSE IF tab = "active" THEN "APPROVED" ELSE "EXCLUDED"
    BY <2>2
  <2>4. row.enrolment \in B!stateStatuses(tab, f)
          <=> \/ row.enrolment = "active"
              \/ /\ "EXCLUDED" \in f.status \/ (f.status = {} /\ tab = "excluded")
                 /\ row.enrolment = "closed"
    BY DEF B!stateStatuses
  <2> HIDE DEF ofTab
  <2>5. CASE f.status = {}
    BY <1>1, <2>2, <2>3, <2>4, <2>5 DEF B!findWhere
  <2>6. CASE f.status # {}
    BY <2>4, <2>6 DEF B!findWhere
  <2> QED BY <2>5, <2>6
<1>3. \A c \in Case : cases[c] \in B!CaseRow
  BY DEF B!TypeOK
<1>4. LetThrough(tab, f) = {c \in Case : Counted(cases[c])}
  <2> HIDE DEF Counted
  <2> QED BY <1>2, <1>3 DEF LetThrough
<1>5. B!countCaseStates(tab, f) = Cardinality({c \in Case : Counted(cases[c])})
  <2>1. B!countCaseStates(tab, f) = B!Cardinality({c \in Case : Counted(cases[c])})
    BY DEF B!countCaseStates
  <2> HIDE DEF Counted
  <2> QED BY <2>1, SameCardinality
<1>6. B!findCaseStates(tab, f) =
        LetThrough(tab, f) \ (IF Hiding(tab, f) THEN B!findDisputesByAutomation ELSE {})
  BY DEF B!findCaseStates, B!findDisputesByAutomation, LetThrough, Hiding
<1> QED BY <1>4, <1>5, <1>6

\* A part of a finite set is smaller by what it leaves out at most.
LEMMA LessThoseLeftOut ==
  ASSUME NEW S \in SUBSET Case, NEW D \in SUBSET Case
  PROVE  /\ Cardinality(S \ D) <= Cardinality(S)
         /\ Cardinality(S) - Cardinality(S \ D) <= Cardinality(D)
<1>1. IsFiniteSet(S) /\ IsFiniteSet(D) /\ IsFiniteSet(S \cap D) /\ IsFiniteSet(S \ D)
  BY PartOfCases
<1>2. Cardinality(S \ D) = Cardinality(S) - Cardinality(S \cap D)
  BY <1>1, FS_Difference
<1>3. Cardinality(S \cap D) <= Cardinality(D)
  BY <1>1, FS_Subset
<1>4. /\ Cardinality(S) \in Nat /\ Cardinality(D) \in Nat
      /\ Cardinality(S \cap D) \in Nat /\ Cardinality(S \ D) \in Nat
  BY <1>1, FS_CardinalityType
<1> QED BY <1>2, <1>3, <1>4

LEMMA TotalsAgree == ASSUME B!TypeOK PROVE B!CountAgrees
<1> SUFFICES ASSUME NEW tab \in B!Tab, NEW f \in B!Filter, ~B!QueryFails(f)
             PROVE  LET page == B!getCases(tab, f)
                    IN  \/ page.total = B!Cardinality(page.data)
                        \/ /\ page.total > B!Cardinality(page.data)
                           /\ "APPROVED" \in f.status \/ (~B!useFilters(f) /\ tab = "active")
                           /\ page.total - B!Cardinality(page.data)
                                <= B!Cardinality(B!findDisputesByAutomation)
  BY Zenon DEF B!CountAgrees
<1>0. \A X : B!Cardinality(X) = Cardinality(X)
  BY SameCardinality
<1>1. CASE tab = "disputes" /\ ~B!useFilters(f)
  BY <1>1 DEF B!getCases
<1>2. CASE ~(tab = "disputes" /\ ~B!useFilters(f))
  <2> DEFINE shown == IF B!useFilters(f) THEN None ELSE tab
             D     == B!findDisputesByAutomation
             S     == LetThrough(shown, f)
  <2>1. shown \in {None, "pending", "active", "excluded"}
    BY <1>2 DEF B!Tab
  <2>2. B!getCases(tab, f) = [data |-> B!findCaseStates(shown, f),
                              total |-> B!countCaseStates(shown, f)]
    BY <1>2 DEF B!getCases
  <2>3. S \in SUBSET Case /\ D \in SUBSET Case
    BY DEF LetThrough, B!findDisputesByAutomation
  <2>4. ~B!useFilters(f) => f.status = {}
    BY DEF B!useFilters, B!NoFilter
  <2>5. None # "active"
    BY NoneIsNoTab
  <2>6. Hiding(shown, f) => "APPROVED" \in f.status \/ (~B!useFilters(f) /\ tab = "active")
    BY <2>4, <2>5 DEF Hiding
  <2> HIDE DEF S, D, shown
  <2>7. /\ B!countCaseStates(shown, f) = Cardinality(S)
        /\ B!findCaseStates(shown, f) = S \ (IF Hiding(shown, f) THEN D ELSE {})
    BY <2>1, CountsWhatItLists DEF S, D
  <2>8. CASE ~Hiding(shown, f)
    <3>1. B!findCaseStates(shown, f) = S
      BY <2>7, <2>8
    <3> QED BY <1>0, <2>2, <2>7, <3>1
  <2>9. CASE Hiding(shown, f)
    <3>1. B!findCaseStates(shown, f) = S \ D
      BY <2>7, <2>9
    <3>2. /\ Cardinality(S \ D) <= Cardinality(S)
          /\ Cardinality(S) - Cardinality(S \ D) <= Cardinality(D)
      BY <2>3, LessThoseLeftOut
    <3>3. Cardinality(S) \in Nat /\ Cardinality(S \ D) \in Nat
      BY <2>3, PartOfCases
    <3> QED BY <1>0, <2>2, <2>6, <2>7, <2>9, <3>1, <3>2, <3>3 DEF D
  <2> QED BY <2>8, <2>9
<1> QED BY <1>1, <1>2

\* The lists without filters.
LEMMA TabLists ==
  ASSUME B!TypeOK
  PROVE  /\ LetThrough("pending", B!NoFilter) =
              {c \in Case : cases[c].enrolment = "active" /\ cases[c].approval = "PENDING_APPROVAL"}
         /\ LetThrough("active", B!NoFilter) =
              {c \in Case : cases[c].enrolment = "active" /\ cases[c].approval = "APPROVED"}
         /\ LetThrough("excluded", B!NoFilter) =
              {c \in Case : cases[c].enrolment # "paused" /\ cases[c].approval = "EXCLUDED"}
         /\ LetThrough(None, B!NoFilter) = {c \in Case : cases[c].enrolment = "active"}
         /\ B!NoFilter \in B!Filter
<1>1. None \notin {"pending", "active", "excluded"}
  BY NoneIsNoTab
<1>2. \A c \in Case : cases[c].enrolment \in {"active", "paused", "closed"}
  BY DEF B!TypeOK, B!CaseRow
<1>3. B!NoFilter.status = {} /\ B!NoFilter.dpdMin = None /\ B!NoFilter \in B!Filter
  BY BackOfficeAssumption DEF B!NoFilter, B!Filter, B!BoardAssumption
<1>4. \A row : B!InRange(row, B!NoFilter)
  BY <1>3 DEF B!InRange
<1>5. \A tab : B!stateStatuses(tab, B!NoFilter) =
                 IF tab = "excluded" THEN {"active", "closed"} ELSE {"active"}
  BY <1>3 DEF B!stateStatuses
<1> QED BY <1>1, <1>2, <1>3, <1>4, <1>5 DEF LetThrough, B!findWhere

LEMMA CasesShown == ASSUME B!TypeOK PROVE B!EveryCaseShown
<1> SUFFICES ASSUME NEW c \in Case,
                    \/ cases[c].enrolment = "active"
                    \/ cases[c].enrolment = "closed" /\ cases[c].approval = "EXCLUDED",
                    cases[c].approval # "REJECTED"
             PROVE  \E tab \in B!Tab : c \in B!getCases(tab, B!NoFilter).data
  BY DEF B!EveryCaseShown
<1>1. cases[c].approval \in B!Approval /\ cases[c].disputed \in BOOLEAN
  BY DEF B!TypeOK, B!CaseRow
<1>2. ~B!useFilters(B!NoFilter) /\ B!NoFilter.status = {} /\ ~B!QueryFails(B!NoFilter)
  BY DEF B!useFilters, B!NoFilter, B!QueryFails
<1>3. CASE cases[c].approval = "APPROVED" /\ cases[c].disputed
  <2>1. c \in B!getCases("disputes", B!NoFilter).data
    BY <1>2, <1>3 DEF B!getCases, B!findDisputesByAutomation
  <2> QED BY <2>1 DEF B!Tab
<1>4. CASE ~(cases[c].approval = "APPROVED" /\ cases[c].disputed)
  <2>1. PICK tab \in {"pending", "active", "excluded"} :
          /\ c \in LetThrough(tab, B!NoFilter)
          /\ tab = "active" => ~cases[c].disputed
    BY <1>1, <1>4, TabLists DEF B!Approval
  <2>2. c \in B!findCaseStates(tab, B!NoFilter)
    BY <1>2, <2>1, TabLists, CountsWhatItLists DEF Hiding, B!findDisputesByAutomation
  <2>3. B!getCases(tab, B!NoFilter).data = B!findCaseStates(tab, B!NoFilter)
    BY <1>2 DEF B!getCases
  <2> QED BY <2>2, <2>3 DEF B!Tab
<1> QED BY <1>3, <1>4

LEMMA OverviewFits == ASSUME B!TypeOK PROVE B!OverviewAddsUp
<1> DEFINE P == LetThrough("pending", B!NoFilter)
           A1 == LetThrough("active", B!NoFilter)
           E == LetThrough("excluded", B!NoFilter)
           Work == {c \in Case : cases[c].enrolment = "active"}
           Rest == {c \in Case : \/ cases[c].approval = "REJECTED"
                                 \/ cases[c].enrolment = "paused"
                                 \/ cases[c].enrolment = "closed" /\ cases[c].approval # "EXCLUDED"}
           o == B!getOverviewData
<1>1. /\ o.total = Cardinality(Case)
      /\ o.pendingApproval = Cardinality(P) /\ o.active = Cardinality(A1) /\ o.excluded = Cardinality(E)
      /\ o.stages = [d \in Days |-> Cardinality(B!stageRows(d))]
      /\ B!getSummary.targetCases = Cardinality(Work)
  BY SameCardinality, TabLists, CountsWhatItLists DEF B!getOverviewData, B!getSummary
<1>2. \A c \in Case : cases[c].enrolment \in {"active", "paused", "closed"} /\ cases[c].approval \in B!Approval
                      /\ cases[c].days \in Days
  BY DEF B!TypeOK, B!CaseRow
<1>3. /\ P \in SUBSET Case /\ A1 \in SUBSET Case /\ E \in SUBSET Case /\ Rest \in SUBSET Case
      /\ P \cap A1 = {} /\ (P \cup A1) \cap E = {} /\ (P \cup A1 \cup E) \cap Rest = {}
      /\ P \cup A1 \cup E \cup Rest = Case
  BY <1>2, TabLists DEF B!Approval
<1>4. /\ Cardinality(P) + Cardinality(A1) + Cardinality(E) + Cardinality(Rest) = Cardinality(Case)
      /\ Cardinality(P) \in Nat /\ Cardinality(A1) \in Nat /\ Cardinality(E) \in Nat
      /\ Cardinality(Rest) \in Nat
  <2> HIDE DEF P, A1, E, Rest
  <2>1. Cardinality(P \cup A1) = Cardinality(P) + Cardinality(A1)
    BY <1>3, PartOfCases, DisjointUnion
  <2>2. P \cup A1 \in SUBSET Case /\ P \cup A1 \cup E \in SUBSET Case
    BY <1>3
  <2>3. Cardinality(P \cup A1 \cup E) = Cardinality(P \cup A1) + Cardinality(E)
    BY <1>3, <2>2, PartOfCases, DisjointUnion
  <2>4. Cardinality(P \cup A1 \cup E \cup Rest) = Cardinality(P \cup A1 \cup E) + Cardinality(Rest)
    BY <1>3, <2>2, PartOfCases, DisjointUnion
  <2>5. /\ Cardinality(P) \in Nat /\ Cardinality(A1) \in Nat /\ Cardinality(E) \in Nat
        /\ Cardinality(Rest) \in Nat
    BY <1>3, PartOfCases
  <2> QED BY <1>3, <2>1, <2>3, <2>4, <2>5
<1>5. B!SumFunction([d \in Days |-> Cardinality(B!stageRows(d))]) = Cardinality(Work)
  <2> DEFINE R == [d \in Days |-> B!stageRows(d)]
  <2>1. R \in [Days -> SUBSET Case] /\ \A d, e \in Days : d # e => R[d] \cap R[e] = {}
    BY DEF B!stageRows
  <2>2. UNION {R[d] : d \in Days} = Work
    BY <1>2 DEF B!stageRows
  <2>3. SumFunction([d \in Days |-> Cardinality(R[d])]) = Cardinality(UNION {R[d] : d \in Days})
    <3> HIDE DEF R
    <3> QED BY <2>1, CasesAndDays, CountByParts
  <2>4. [d \in Days |-> Cardinality(R[d])] = [d \in Days |-> Cardinality(B!stageRows(d))]
    OBVIOUS
  <2>5. \A f : B!SumFunction(f) = SumFunction(f)
    BY DEF SumFunction, SumFunctionOnSet, FoldFunctionOnSet, MapThenFoldSet, B!SumFunction,
           B!SumFunctionOnSet, B!FoldFunctionOnSet, B!MapThenFoldSet
  <2> HIDE DEF R
  <2> QED BY <2>2, <2>3, <2>4, <2>5
<1> HIDE DEF P, A1, E, Work, o
<1>6. /\ o.pendingApproval + o.active + o.excluded <= o.total
      /\ o.total - (o.pendingApproval + o.active + o.excluded) = Cardinality(Rest)
      /\ B!getSummary.targetCases = B!SumFunction(o.stages)
  <2> HIDE DEF Rest
  <2> QED BY <1>1, <1>4, <1>5
<1> QED BY <1>6, SameCardinality DEF B!OverviewAddsUp, o, Rest

\* A case that is worked on, or was excluded and is not paused, is on a tab, the total of a list is the number of
\* its cases but for hidden disputes, and the numbers of the overview fit together, whatever
\* managers and bulks have done.
THEOREM BoardShowsAll == Spec => []BoardAddsUp
<1>1. BoardInv => BoardAddsUp
  BY CasesShown, TotalsAgree, OverviewFits DEF BoardInv, BoardAddsUp
<1>2. Init => BoardInv
  BY BoardInit
<1>3. BoardInv /\ [Next]_vars => BoardInv'
  BY BoardStep
<1> QED BY <1>1, <1>2, <1>3, PTL DEF Spec

-----------------------------------------------------------------------------
(***************************************************************************)
(* The activity.  An event has the number of its place in the log, so that *)
(* no two are the same, and a call is behind events that are in the log.   *)
(***************************************************************************)
CallRow == [case : Case, status : F!CallStatus, after : 0 .. MaxEvents]

ActivityInv ==
  /\ log \in Seq(F!Event) /\ Len(log) <= MaxEvents
  /\ \A i \in 1 .. Len(log) : log[i].id = i
  /\ calls \in Seq(CallRow) /\ Len(calls) <= 1
  /\ \A k \in 1 .. Len(calls) : calls[k].after <= Len(log)
  /\ stage \in [Case -> F!Stage]
  /\ day \in 0 .. MaxDay

LEMMA ActivityInit ==
  ASSUME Init PROVE ActivityInv
<1>1. F!Init
  BY DEF Init
<1>2. MaxEvents \in Nat /\ MaxDay \in Nat
  BY BackOfficeAssumption DEF F!ActivityAssumption
<1>3. <<>> \in Seq(F!Event) /\ <<>> \in Seq(CallRow) /\ Len(<<>>) = 0
  BY EmptySeq
<1>4. stage \in [Case -> F!Stage]
  BY <1>1 DEF F!Init, F!Stage
<1> QED BY <1>1, <1>2, <1>3, <1>4 DEF F!Init, ActivityInv

LEMMA ActivityStep ==
  ASSUME ActivityInv, [Next]_vars
  PROVE  ActivityInv'
<1>0. MaxEvents \in Nat /\ MaxDay \in Nat
  BY BackOfficeAssumption DEF F!ActivityAssumption
<1>1. ASSUME NEW c \in Case, NEW type \in EventType, F!Written(c, type)
      PROVE  ActivityInv'
  <2> DEFINE event == [id |-> Len(log) + 1, case |-> c, type |-> type, day |-> day]
  <2>1. Len(log) \in Nat /\ Len(log) < MaxEvents
    BY <1>1, LenProperties DEF ActivityInv, F!Written
  <2>2. event \in F!Event
    BY <1>0, <2>1 DEF ActivityInv, F!Event
  <2>3. log' = Append(log, event)
    BY <1>1 DEF F!Written
  <2> HIDE DEF event
  <2>4. /\ log' \in Seq(F!Event) /\ Len(log') = Len(log) + 1
        /\ \A i \in 1 .. Len(log) : log'[i] = log[i]
        /\ log'[Len(log) + 1] = event
    BY <2>2, <2>3, AppendProperties DEF ActivityInv
  <2>5. event.id = Len(log) + 1
    BY DEF event
  <2>6. \A i \in 1 .. Len(log') : log'[i].id = i
    BY <2>1, <2>4, <2>5 DEF ActivityInv
  <2>7. calls' = calls /\ \A k \in 1 .. Len(calls) : calls[k].after <= Len(log) + 1
    <3>1. \A k \in 1 .. Len(calls) : calls[k] \in CallRow
      BY DEF ActivityInv
    <3>2. \A x \in CallRow : x.after \in 0 .. MaxEvents
      BY DEF CallRow
    <3>3. \A k \in 1 .. Len(calls) : calls[k].after \in Int
      BY <1>0, <3>1, <3>2
    <3> QED BY <1>1, <2>1, <3>3 DEF ActivityInv, F!Written
  <2> QED BY <1>0, <1>1, <2>1, <2>4, <2>6, <2>7 DEF ActivityInv, F!Written
<1>2. ASSUME NEW c \in Case, F!CallLogged(c)
      PROVE  ActivityInv'
  <2> DEFINE row == [case |-> c, status |-> "queued", after |-> Len(log)]
  <2>1. Len(log) \in 0 .. MaxEvents
    BY <1>0, LenProperties DEF ActivityInv
  <2>2. row \in CallRow
    BY <2>1 DEF CallRow, F!CallStatus
  <2>3. calls' = <<row>>
    BY <1>2 DEF F!CallLogged
  <2>4. row.after = Len(log)
    OBVIOUS
  <2> HIDE DEF row
  <2>5. calls' \in Seq(CallRow) /\ Len(calls') = 1 /\ calls'[1] = row
    BY <2>2, <2>3
  <2> QED BY <1>2, <2>1, <2>4, <2>5 DEF ActivityInv, F!CallLogged
<1>3. ASSUME NEW status \in F!CallStatus, F!CallEnds(status)
      PROVE  ActivityInv'
  <2>1. calls \in Seq(CallRow) /\ Len(calls) = 1 /\ calls' = [calls EXCEPT ![1].status = status]
    BY <1>3 DEF F!CallEnds, ActivityInv
  <2>2. calls[1] \in CallRow
    BY <2>1
  <2>3. [calls[1] EXCEPT !.status = status] \in CallRow
    BY <2>2 DEF CallRow
  <2>4. calls' \in Seq(CallRow) /\ Len(calls') = 1
    BY <2>1, <2>3, ExceptSeq
  <2>5. calls'[1].after = calls[1].after
    <3>1. 1 \in DOMAIN calls
      BY <2>1
    <3>2. calls'[1] = [calls[1] EXCEPT !.status = status]
      BY <2>1, <3>1
    <3> QED BY <2>2, <3>2 DEF CallRow
  <2>6. \A k \in 1 .. Len(calls') : calls'[k].after <= Len(log)
    <3>1. calls[1].after <= Len(log)
      BY <2>1 DEF ActivityInv
    <3>2. \A k \in 1 .. Len(calls') : k = 1
      BY <2>4
    <3> QED BY <2>5, <3>1, <3>2, Zenon
  <2> QED BY <1>3, <2>4, <2>6 DEF ActivityInv, F!CallEnds
<1>4. ASSUME NEW c \in Case, F!StageMoves(c)
      PROVE  ActivityInv'
  BY <1>4 DEF F!StageMoves, ActivityInv, F!Stage
<1>5. CASE F!NextDay
  BY <1>0, <1>5 DEF F!NextDay, ActivityInv
<1>6. CASE UNCHANGED activity
  BY <1>6 DEF activity, ActivityInv
<1>7. CASE F!Next
  BY <1>1, <1>2, <1>3, <1>4, <1>5, <1>7 DEF F!Next
<1> QED BY <1>6, <1>7, PartSteps

LEMMA ActivityTyped ==
  ASSUME ActivityInv PROVE F!TypeOK
<1>1. \A x \in F!Range(calls) : x \in CallRow
  BY DEF ActivityInv, F!Range
<1>2. \A x \in F!Range(calls) :
        x.case \in Case /\ x.status \in F!CallStatus /\ x.after \in 0 .. MaxEvents
  BY <1>1 DEF CallRow
<1> QED BY <1>2 DEF ActivityInv, F!TypeOK

-----------------------------------------------------------------------------
(***************************************************************************)
(* What the activity shows.  The entries at some places of the log stand   *)
(* in the order of their places, one for each; so those at earlier places  *)
(* come before the others, and a group counts places.                      *)
(***************************************************************************)
LEMMA NthPlace ==
  ASSUME NEW n \in Nat, NEW P \in SUBSET (1 .. n)
  PROVE  /\ IsFiniteSet(P) /\ F!Cardinality(P) = Cardinality(P) /\ Cardinality(P) \in 0 .. n
         /\ \A k \in 1 .. Cardinality(P) : F!Nth(P, k) \in P /\ PlaceIn(P, F!Nth(P, k)) = k
         /\ \A i \in P : PlaceIn(P, i) \in 1 .. Cardinality(P) /\ F!Nth(P, PlaceIn(P, i)) = i
<1>1. /\ IsFiniteSet(P) /\ Cardinality(P) \in 0 .. n
      /\ \A i \in P : PlaceIn(P, i) \in 1 .. Cardinality(P)
      /\ \A i, j \in P : PlaceIn(P, i) <= PlaceIn(P, j) <=> i <= j
      /\ \A k \in 1 .. Cardinality(P) : \E i \in P : PlaceIn(P, i) = k
  BY PlaceNumbers
<1>2. F!Cardinality(P) = Cardinality(P)
  BY SameCardinality
<1>3. \A i \in P : F!Cardinality({j \in P : j <= i}) = PlaceIn(P, i)
  BY SameCardinality DEF PlaceIn
<1>4. ASSUME NEW k \in 1 .. Cardinality(P)
      PROVE  F!Nth(P, k) \in P /\ PlaceIn(P, F!Nth(P, k)) = k
  <2> DEFINE Has(i) == F!Cardinality({j \in P : j <= i}) = k
  <2>1. \E i \in P : Has(i)
    BY <1>1, <1>3
  <2>2. F!Nth(P, k) = CHOOSE i \in P : Has(i)
    BY DEF F!Nth
  <2> HIDE DEF Has
  <2>3. F!Nth(P, k) \in P /\ Has(F!Nth(P, k))
    BY <2>1, <2>2
  <2> QED BY <1>3, <2>3 DEF Has
<1>5. ASSUME NEW i \in P PROVE F!Nth(P, PlaceIn(P, i)) = i
  <2>1. PlaceIn(P, i) \in 1 .. Cardinality(P) /\ PlaceIn(P, i) \in Int
    BY <1>1
  <2>2. PICK m \in P : m = F!Nth(P, PlaceIn(P, i)) /\ PlaceIn(P, m) = PlaceIn(P, i)
    BY <1>4, <2>1
  <2>3. PlaceIn(P, m) <= PlaceIn(P, i) /\ PlaceIn(P, i) <= PlaceIn(P, m)
    BY <2>1, <2>2
  <2>4. m <= i /\ i <= m
    BY <1>1, <2>3
  <2> QED BY <2>2, <2>4
<1> QED BY <1>1, <1>2, <1>4, <1>5

LEMMA EntriesOf ==
  ASSUME log \in Seq(F!Event), NEW P \in SUBSET (1 .. Len(log))
  PROVE  /\ F!Entries(P) \in Seq(F!Event) /\ Len(F!Entries(P)) = Cardinality(P)
         /\ Cardinality(P) \in 0 .. Len(log)
         /\ \A k \in 1 .. Cardinality(P) :
              F!Nth(P, k) \in P /\ F!Entries(P)[k] = log[F!Nth(P, k)]
<1>1. Len(log) \in Nat /\ \A i \in 1 .. Len(log) : log[i] \in F!Event
  BY LenProperties
<1>2. /\ F!Cardinality(P) = Cardinality(P) /\ Cardinality(P) \in 0 .. Len(log)
      /\ \A k \in 1 .. Cardinality(P) : F!Nth(P, k) \in P
  BY <1>1, NthPlace
<1>3. F!Entries(P) = [k \in 1 .. Cardinality(P) |-> log[F!Nth(P, k)]]
  BY <1>2 DEF F!Entries
<1>4. \A k \in 1 .. Cardinality(P) : log[F!Nth(P, k)] \in F!Event
  BY <1>1, <1>2
<1> QED BY <1>2, <1>3, <1>4

\* Of places that come before others, the entries come before theirs.
LEMMA EntriesOfParts ==
  ASSUME log \in Seq(F!Event), NEW P \in SUBSET (1 .. Len(log)), NEW Q \in SUBSET (1 .. Len(log)),
         \A i \in P, j \in Q : i < j
  PROVE  /\ Cardinality(P \cup Q) = Cardinality(P) + Cardinality(Q)
         /\ \A k \in 1 .. Cardinality(P) : F!Entries(P \cup Q)[k] = F!Entries(P)[k]
         /\ \A k \in 1 .. Cardinality(Q) : F!Entries(P \cup Q)[Cardinality(P) + k] = F!Entries(Q)[k]
<1>1. Len(log) \in Nat /\ P \cup Q \in SUBSET (1 .. Len(log))
  BY LenProperties
<1>2. /\ Cardinality(P \cup Q) = Cardinality(P) + Cardinality(Q)
      /\ \A i \in P : PlaceIn(P \cup Q, i) = PlaceIn(P, i)
      /\ \A j \in Q : PlaceIn(P \cup Q, j) = Cardinality(P) + PlaceIn(Q, j)
  BY <1>1, PlacesOfParts
<1>3. Cardinality(P) \in Nat /\ Cardinality(Q) \in Nat
  BY <1>1, NthPlace
<1>4. ASSUME NEW k \in 1 .. Cardinality(P) PROVE F!Entries(P \cup Q)[k] = F!Entries(P)[k]
  <2>1. F!Nth(P, k) \in P /\ PlaceIn(P, F!Nth(P, k)) = k /\ F!Entries(P)[k] = log[F!Nth(P, k)]
    BY <1>1, NthPlace, EntriesOf
  <2>2. F!Nth(P \cup Q, k) = F!Nth(P, k)
    <3>1. F!Nth(P \cup Q, PlaceIn(P \cup Q, F!Nth(P, k))) = F!Nth(P, k)
      BY <1>1, <2>1, NthPlace
    <3> QED BY <1>2, <2>1, <3>1
  <2>3. k \in 1 .. Cardinality(P \cup Q)
    BY <1>2, <1>3
  <2> QED BY <1>1, <2>1, <2>2, <2>3, EntriesOf
<1>5. ASSUME NEW k \in 1 .. Cardinality(Q)
      PROVE  F!Entries(P \cup Q)[Cardinality(P) + k] = F!Entries(Q)[k]
  <2>1. F!Nth(Q, k) \in Q /\ PlaceIn(Q, F!Nth(Q, k)) = k /\ F!Entries(Q)[k] = log[F!Nth(Q, k)]
    BY <1>1, NthPlace, EntriesOf
  <2>2. F!Nth(P \cup Q, Cardinality(P) + k) = F!Nth(Q, k)
    <3>1. F!Nth(P \cup Q, PlaceIn(P \cup Q, F!Nth(Q, k))) = F!Nth(Q, k)
      BY <1>1, <2>1, NthPlace
    <3> QED BY <1>2, <2>1, <3>1
  <2>3. Cardinality(P) + k \in 1 .. Cardinality(P \cup Q)
    BY <1>2, <1>3
  <2> QED BY <1>1, <2>1, <2>2, <2>3, EntriesOf
<1> QED BY <1>2, <1>4, <1>5

LEMMA LatestOf ==
  ASSUME NEW T, NEW s \in Seq(T), NEW limit \in Nat
  PROVE  /\ F!Latest(s, limit) \in Seq(T) /\ Len(F!Latest(s, limit)) <= Len(s)
         /\ Len(s) <= limit => F!Latest(s, limit) = s
         /\ \A k \in 1 .. Len(F!Latest(s, limit)) :
              /\ k + (Len(s) - Len(F!Latest(s, limit))) \in 1 .. Len(s)
              /\ F!Latest(s, limit)[k] = s[k + (Len(s) - Len(F!Latest(s, limit)))]
<1>1. Len(s) \in Nat
  BY LenProperties
<1>2. CASE Len(s) <= limit
  BY <1>1, <1>2 DEF F!Latest
<1>3. CASE ~(Len(s) <= limit)
  <2>1. F!Latest(s, limit) = SubSeq(s, Len(s) - limit + 1, Len(s))
    BY <1>3 DEF F!Latest
  <2>2. /\ F!Latest(s, limit) \in Seq(T) /\ Len(F!Latest(s, limit)) = limit
        /\ \A k \in 1 .. limit : F!Latest(s, limit)[k] = s[k + (Len(s) - limit)]
    BY <1>1, <1>3, <2>1
  <2> QED BY <1>1, <1>3, <2>2
<1> QED BY <1>2, <1>3

\* What a query lets through.
Through(query, e) ==
  /\ e.day >= query.dateFrom
  /\ query.channels = {} \/ F!channelOf(e.type) \in query.channels
  /\ \/ F!eventTypes(query.statuses, query.outcomes) = None
     \/ e.type \in F!eventTypes(query.statuses, query.outcomes)
  /\ query.search = None \/ e.case \in query.search
  /\ query.stages = {} \/ stage[e.case] \in query.stages

LEMMA Found ==
  ASSUME NEW query
  PROVE  F!findEvents(query) =
           F!Latest(F!Entries({i \in 1 .. Len(log) : Through(query, log[i])}), query.limit)
BY DEF F!findEvents, Through

\* The timeline of a case: the events before its call, the call if it is its own, those after.
CallAt == IF Len(calls) = 1 THEN calls[1].after ELSE 0
OwnCall(c) == IF Len(calls) = 1 /\ calls[1].case = c
              THEN <<F!callEventType(calls[1].status)>> ELSE <<>>
Own(c, lo, hi) == {i \in lo .. hi : log[i].case = c}
Types(P) == [k \in 1 .. Cardinality(P) |-> F!Entries(P)[k].type]

LEMMA TimelineOf ==
  ASSUME NEW c
  PROVE  F!getCaseTimeline(c) =
           Types(Own(c, 1, CallAt)) \o OwnCall(c) \o Types(Own(c, CallAt + 1, Len(log)))
<1> DEFINE Told(P) == [k \in 1 .. F!Cardinality(P) |-> F!Entries(P)[k].type]
<1>1. F!getCaseTimeline(c) =
        Told(Own(c, 1, CallAt)) \o OwnCall(c) \o Told(Own(c, CallAt + 1, Len(log)))
  BY DEF F!getCaseTimeline, Own, OwnCall, CallAt
<1>2. ASSUME NEW P PROVE Told(P) = Types(P)
  BY SameCardinality DEF Types
<1> HIDE DEF Told
<1> QED BY <1>1, <1>2

LEMMA CallsCounted ==
  ASSUME ActivityInv, NEW c \in Case
  PROVE  /\ OwnCall(c) \in Seq({"call_failed", "call_completed", "call_in_progress", "call_queued"})
         /\ Len(OwnCall(c)) \in {0, 1}
         /\ Len(OwnCall(c)) = F!Cardinality({k \in 1 .. Len(calls) : calls[k].case = c})
         /\ CallAt \in 0 .. Len(log)
<1>1. Len(calls) \in {0, 1} /\ Len(log) \in Nat
  <2>1. Len(calls) \in Nat /\ Len(calls) <= 1 /\ Len(log) \in Nat
    BY LenProperties DEF ActivityInv
  <2>2. \A n \in Nat : n <= 1 => n = 0 \/ n = 1
    OBVIOUS
  <2>3. Len(calls) = 0 \/ Len(calls) = 1
    BY <2>1, <2>2
  <2> QED BY <2>1, <2>3
<1>2. Len(calls) = 1 => calls[1].after \in 0 .. Len(log)
  <2> SUFFICES ASSUME Len(calls) = 1 PROVE calls[1].after \in 0 .. Len(log)
    OBVIOUS
  <2>1. calls[1] \in CallRow /\ calls[1].after <= Len(log)
    <3>1. 1 \in 1 .. Len(calls)
      OBVIOUS
    <3>2. /\ calls \in Seq(CallRow)
          /\ \A k \in 1 .. Len(calls) : calls[k].after <= Len(log)
      BY DEF ActivityInv
    <3>3. calls[1] \in CallRow
      BY <3>1, <3>2, ElementOfSeq
    <3> QED BY <3>1, <3>2, <3>3
  <2>2. calls[1].after \in 0 .. MaxEvents /\ MaxEvents \in Nat
    BY <2>1, BackOfficeAssumption DEF CallRow, F!ActivityAssumption
  <2> QED BY <1>1, <2>1, <2>2
<1>3. \A S : F!Cardinality(S) = Cardinality(S)
  BY SameCardinality
<1>4. Cardinality({}) = 0 /\ Cardinality({1}) = 1
  BY FS_EmptySet, FS_Singleton
<1>5. CASE Len(calls) = 1 /\ calls[1].case = c
  <2>1. {k \in 1 .. Len(calls) : calls[k].case = c} = {1}
    BY <1>5
  <2>2. OwnCall(c) = <<F!callEventType(calls[1].status)>> /\ Len(OwnCall(c)) = 1
    BY <1>5 DEF OwnCall
  <2>3. F!callEventType(calls[1].status)
          \in {"call_failed", "call_completed", "call_in_progress", "call_queued"}
    BY DEF F!callEventType
  <2>4. OwnCall(c) \in Seq({"call_failed", "call_completed", "call_in_progress", "call_queued"})
    BY <2>2, <2>3
  <2> QED BY <1>1, <1>2, <1>3, <1>4, <1>5, <2>1, <2>2, <2>4 DEF CallAt
<1>6. CASE ~(Len(calls) = 1 /\ calls[1].case = c)
  <2>1. {k \in 1 .. Len(calls) : calls[k].case = c} = {}
    BY <1>1, <1>6
  <2>2. OwnCall(c) = <<>> /\ Len(OwnCall(c)) = 0
    BY <1>6 DEF OwnCall
  <2>3. OwnCall(c) \in Seq({"call_failed", "call_completed", "call_in_progress", "call_queued"})
    BY <2>2, EmptySeq
  <2>4. CallAt \in 0 .. Len(log)
    BY <1>1, <1>2 DEF CallAt
  <2>5. F!Cardinality({k \in 1 .. Len(calls) : calls[k].case = c}) = 0
    BY <1>3, <1>4, <2>1
  <2> QED BY <2>2, <2>3, <2>4, <2>5
<1> QED BY <1>5, <1>6

LEMMA FeedFitsTimeline ==
  ASSUME ActivityInv PROVE F!FeedMatchesTimeline
<1> SUFFICES ASSUME NEW c \in Case
             PROVE  LET query == [statuses |-> {}, outcomes |-> {}, channels |-> {},
                                stages |-> {stage[c]}, dateFrom |-> 0, search |-> {c},
                                limit |-> MaxEvents]
                        told == F!getCaseTimeline(c)
                        Feed == F!findEvents(query)
                    IN  /\ Len(told) - Len(Feed) =
                             F!Cardinality({k \in 1 .. Len(calls) : calls[k].case = c})
                        /\ \A k \in 1 .. Len(Feed) : \E n \in {k, k + 1} :
                             n <= Len(told) /\ told[n] = Feed[k].type
  BY Zenon DEF F!FeedMatchesTimeline
<1> DEFINE query == [statuses |-> {}, outcomes |-> {}, channels |-> {}, stages |-> {stage[c]},
                   dateFrom |-> 0, search |-> {c}, limit |-> MaxEvents]
           P == Own(c, 1, CallAt)
           Q == Own(c, CallAt + 1, Len(log))
           told == F!getCaseTimeline(c)
           Feed == F!findEvents(query)
           Word == EventType \cup {"call_failed", "call_completed", "call_in_progress", "call_queued"}
<1>1. /\ log \in Seq(F!Event) /\ Len(log) \in Nat /\ Len(log) <= MaxEvents
      /\ MaxEvents \in Nat /\ MaxDay \in Nat /\ None # {c}
  BY LenProperties, BackOfficeAssumption DEF ActivityInv, F!ActivityAssumption
<1>2. \A i \in 1 .. Len(log) :
        log[i] \in F!Event /\ log[i].case \in Case /\ log[i].type \in EventType /\ log[i].day >= 0
  <2>1. \A i \in 1 .. Len(log) : log[i] \in F!Event
    BY <1>1
  <2>2. \A e \in F!Event : e.case \in Case /\ e.type \in EventType /\ e.day >= 0
    BY <1>1 DEF F!Event
  <2> QED BY <2>1, <2>2
<1>3. /\ OwnCall(c) \in Seq(Word) /\ Len(OwnCall(c)) \in {0, 1}
      /\ Len(OwnCall(c)) = F!Cardinality({k \in 1 .. Len(calls) : calls[k].case = c})
      /\ CallAt \in 0 .. Len(log)
  BY CallsCounted
<1>4. /\ P \in SUBSET (1 .. Len(log)) /\ Q \in SUBSET (1 .. Len(log))
      /\ \A i \in P, j \in Q : i < j
      /\ P \cup Q = Own(c, 1, Len(log))
  BY <1>1, <1>3 DEF Own
<1>5. Feed = F!Entries(P \cup Q)
  <2>1. Feed = F!Latest(F!Entries({i \in 1 .. Len(log) : Through(query, log[i])}), MaxEvents)
    <3>1. query.limit = MaxEvents
      OBVIOUS
    <3> HIDE DEF query
    <3> QED BY <3>1, Found
  <2>2. F!eventTypes({}, {}) = None
    BY DEF F!eventTypes
  <2>3. \A i \in 1 .. Len(log) : Through(query, log[i]) <=> log[i].case = c
    BY <1>1, <1>2, <2>2 DEF Through
  <2>4. {i \in 1 .. Len(log) : Through(query, log[i])} = Own(c, 1, Len(log))
    <3> HIDE DEF query
    <3> QED BY <2>3 DEF Own
  <2> HIDE DEF P, Q, query, Feed
  <2>5. P \cup Q \in SUBSET (1 .. Len(log))
    BY <1>4
  <2>6. F!Entries(P \cup Q) \in Seq(F!Event) /\ Len(F!Entries(P \cup Q)) <= MaxEvents
    BY <1>1, <2>5, EntriesOf
  <2> QED BY <1>1, <1>4, <2>1, <2>4, <2>6, LatestOf
<1>6. told = Types(P) \o OwnCall(c) \o Types(Q)
  BY TimelineOf
<1> HIDE DEF P, Q, told, Feed, query
<1>7. ASSUME NEW S \in SUBSET (1 .. Len(log))
      PROVE  /\ Types(S) \in Seq(Word) /\ Len(Types(S)) = Cardinality(S)
             /\ \A k \in 1 .. Cardinality(S) : Types(S)[k] = F!Entries(S)[k].type
             /\ Cardinality(S) \in Nat
  <2>1. /\ Cardinality(S) \in 0 .. Len(log)
        /\ \A k \in 1 .. Cardinality(S) : F!Nth(S, k) \in S /\ F!Entries(S)[k] = log[F!Nth(S, k)]
    BY <1>1, EntriesOf
  <2>2. \A k \in 1 .. Cardinality(S) : F!Entries(S)[k].type \in Word
    BY <1>2, <2>1
  <2> QED BY <1>1, <2>1, <2>2 DEF Types
<1> HIDE DEF Word
<1>8. /\ Cardinality(P) \in Nat /\ Cardinality(Q) \in Nat
      /\ Types(P) \in Seq(Word) /\ Types(Q) \in Seq(Word)
      /\ Len(Types(P)) = Cardinality(P) /\ Len(Types(Q)) = Cardinality(Q)
  BY <1>4, <1>7
<1>9. /\ Len(told) = Cardinality(P) + Len(OwnCall(c)) + Cardinality(Q)
      /\ \A k \in 1 .. Cardinality(P) : told[k] = Types(P)[k]
      /\ \A k \in 1 .. Cardinality(Q) : told[Cardinality(P) + Len(OwnCall(c)) + k] = Types(Q)[k]
  <2> DEFINE head == Types(P) \o OwnCall(c)
  <2>1. /\ head \in Seq(Word) /\ Len(head) = Cardinality(P) + Len(OwnCall(c))
        /\ \A k \in 1 .. Cardinality(P) : head[k] = Types(P)[k]
    BY <1>3, <1>8, ConcatProperties
  <2>2. told = head \o Types(Q)
    BY <1>6
  <2> HIDE DEF head
  <2>3. /\ Len(told) = Len(head) + Cardinality(Q)
        /\ \A k \in 1 .. Len(head) + Cardinality(Q) :
             told[k] = IF k <= Len(head) THEN head[k] ELSE Types(Q)[k - Len(head)]
    BY <1>8, <2>1, <2>2, ConcatProperties
  <2>4. Len(OwnCall(c)) \in Nat /\ Len(head) \in Nat
    BY <1>3, <1>8, <2>1
  <2>5. \A k \in 1 .. Cardinality(P) : told[k] = Types(P)[k]
    BY <1>8, <2>1, <2>3, <2>4
  <2>6. ASSUME NEW k \in 1 .. Cardinality(Q) PROVE told[Len(head) + k] = Types(Q)[k]
    <3>1. /\ Len(head) + k \in 1 .. Len(head) + Cardinality(Q) /\ ~(Len(head) + k <= Len(head))
          /\ (Len(head) + k) - Len(head) = k
      BY <1>8, <2>4
    <3>2. told[Len(head) + k] = Types(Q)[(Len(head) + k) - Len(head)]
      BY <2>3, <3>1, Zenon
    <3> QED BY <3>1, <3>2
  <2> QED BY <2>1, <2>3, <2>5, <2>6
<1>10. Len(Feed) = Cardinality(P) + Cardinality(Q)
  <2>1. P \cup Q \in SUBSET (1 .. Len(log))
    BY <1>4
  <2> QED BY <1>1, <1>4, <1>5, <2>1, EntriesOf, EntriesOfParts
<1>11. Len(told) - Len(Feed) = F!Cardinality({k \in 1 .. Len(calls) : calls[k].case = c})
  BY <1>3, <1>8, <1>9, <1>10
<1>12. ASSUME NEW k \in 1 .. Len(Feed)
       PROVE  \E n \in {k, k + 1} : n <= Len(told) /\ told[n] = Feed[k].type
  <2>1. CASE k <= Cardinality(P)
    <3>1. k \in 1 .. Cardinality(P)
      BY <1>8, <1>10, <2>1
    <3>2. Feed[k] = F!Entries(P)[k]
      BY <1>1, <1>4, <1>5, <3>1, EntriesOfParts
    <3>3. told[k] = Feed[k].type
      BY <1>4, <1>7, <1>9, <3>1, <3>2
    <3>4. k <= Len(told)
      BY <1>3, <1>8, <1>9, <3>1
    <3> QED BY <3>3, <3>4
  <2>2. CASE ~(k <= Cardinality(P))
    <3>1. PICK j \in 1 .. Cardinality(Q) : k = Cardinality(P) + j
      <4>1. k - Cardinality(P) \in 1 .. Cardinality(Q)
        BY <1>8, <1>10, <2>2
      <4> QED BY <1>8, <4>1
    <3>2. Feed[k] = F!Entries(Q)[j]
      BY <1>1, <1>4, <1>5, <3>1, EntriesOfParts
    <3>3. told[Cardinality(P) + Len(OwnCall(c)) + j] = Feed[k].type
      BY <1>4, <1>7, <1>9, <3>1, <3>2
    <3>4. /\ Cardinality(P) + Len(OwnCall(c)) + j \in {k, k + 1}
          /\ Cardinality(P) + Len(OwnCall(c)) + j <= Len(told)
      <4>1. k \in Nat /\ j \in Nat /\ j <= Cardinality(Q)
        BY <1>8, <3>1
      <4>2. Len(OwnCall(c)) = 0 \/ Len(OwnCall(c)) = 1
        BY <1>3
      <4>3. Cardinality(P) + Len(OwnCall(c)) + j <= Len(told)
        BY <1>8, <1>9, <4>1, <4>2
      <4>4. Cardinality(P) + Len(OwnCall(c)) + j \in {k, k + 1}
        <5>1. k = Cardinality(P) + j
          BY <3>1
        <5>2. Cardinality(P) + 0 + j = k /\ Cardinality(P) + 1 + j = k + 1
          BY <1>8, <4>1, <5>1, SMTT(30)
        <5> QED BY <4>2, <5>2
      <4> QED BY <4>3, <4>4
    <3> QED BY <3>3, <3>4
  <2> QED BY <2>1, <2>2
<1> QED BY <1>11, <1>12 DEF told, Feed, query

\* What is found is found once: no two of its events are the same.
LEMMA FoundOnce ==
  ASSUME ActivityInv, NEW query, query.limit \in Nat, NEW q, q = F!findEvents(query)
  PROVE  /\ Len(q) \in Nat /\ F!Range(q) \in SUBSET F!Event
         /\ IsFiniteSet(F!Range(q)) /\ Cardinality(F!Range(q)) = Len(q)
<1> DEFINE P == {i \in 1 .. Len(log) : Through(query, log[i])}
           s == F!Entries(P)
<1>1. /\ log \in Seq(F!Event) /\ Len(log) \in Nat /\ P \in SUBSET (1 .. Len(log))
      /\ \A i \in 1 .. Len(log) : log[i].id = i
  BY LenProperties DEF ActivityInv
<1>2. q = F!Latest(s, query.limit)
  BY Found
<1> HIDE DEF P
<1>3. /\ s \in Seq(F!Event) /\ Len(s) = Cardinality(P) /\ Cardinality(P) \in Nat
      /\ \A k \in 1 .. Cardinality(P) : F!Nth(P, k) \in P /\ s[k] = log[F!Nth(P, k)]
  BY <1>1, EntriesOf
<1>4. \A k \in 1 .. Cardinality(P) : PlaceIn(P, F!Nth(P, k)) = k
  BY <1>1, NthPlace
<1>5. \A k, l \in 1 .. Cardinality(P) : s[k] = s[l] => k = l
  <2> SUFFICES ASSUME NEW k \in 1 .. Cardinality(P), NEW l \in 1 .. Cardinality(P), s[k] = s[l]
               PROVE  k = l
    OBVIOUS
  <2>1. s[k].id = F!Nth(P, k) /\ s[l].id = F!Nth(P, l)
    BY <1>1, <1>3
  <2> QED BY <1>4, <2>1
<1> HIDE DEF s
<1>6. /\ q \in Seq(F!Event) /\ Len(q) \in Nat
      /\ \A k \in 1 .. Len(q) :
           k + (Len(s) - Len(q)) \in 1 .. Len(s) /\ q[k] = s[k + (Len(s) - Len(q))]
  BY <1>2, <1>3, LatestOf, LenProperties, SMTT(30)
<1>7. \A k, l \in 1 .. Len(q) : q[k] = q[l] => k = l
  <2> SUFFICES ASSUME NEW k \in 1 .. Len(q), NEW l \in 1 .. Len(q), q[k] = q[l]
               PROVE  k = l
    OBVIOUS
  <2>1. k + (Len(s) - Len(q)) = l + (Len(s) - Len(q))
    BY <1>3, <1>5, <1>6
  <2> QED BY <1>3, <1>6, <2>1
<1>8. F!Range(q) = {q[k] : k \in 1 .. Len(q)} /\ F!Range(q) \in SUBSET F!Event
  BY <1>6, LenProperties DEF F!Range
<1>9. q \in Injection(1 .. Len(q), F!Range(q)) /\ q \in Surjection(1 .. Len(q), F!Range(q))
  <2>1. q \in [1 .. Len(q) -> F!Range(q)]
    BY <1>6, <1>8, LenProperties
  <2> QED BY <1>7, <1>8, <2>1 DEF Injection, IsInjective, Surjection
<1>10. IsFiniteSet(1 .. Len(q)) /\ Cardinality(1 .. Len(q)) = Len(q)
  <2>1. PICK n \in Nat : n = Len(q)
    BY <1>6
  <2>2. IsFiniteSet(1 .. n) /\ Cardinality(1 .. n) = n
    BY FS_Interval, SMTT(30)
  <2> QED BY <2>1, <2>2
<1> DEFINE W == 1 .. Len(q)
           R == F!Range(q)
<1>11. q \in Injection(W, R) /\ q \in Surjection(W, R) /\ IsFiniteSet(W) /\ Cardinality(W) = Len(q)
  BY <1>9, <1>10
<1> HIDE DEF W, R
<1>12. IsFiniteSet(R) /\ Cardinality(R) = Len(q)
  BY <1>11, FS_Surjection
<1> QED BY <1>6, <1>8, <1>12 DEF R

\* The groups: by day, and in each day by case.
Ordered(R, d, c) == {e \in R : e.day = d /\ e.case = c}
CasesOf(R, d) == {e.case : e \in {f \in R : f.day = d}}

Group(S) ==
  [events          |-> S,
   totalEvents     |-> F!Cardinality(S),
   channels        |-> {F!channelOf(e.type) : e \in S} \ {None},
   eventTypeCounts |-> [t \in {e.type : e \in S} |-> F!Cardinality({e \in S : e.type = t})],
   lastEvent       |-> CHOOSE e \in S : \A f \in S : f.id <= e.id]

LEMMA GroupsOf ==
  ASSUME NEW q, NEW R, R = F!Range(q)
  PROVE  /\ DOMAIN F!groupsByDay(q) = {e.day : e \in R}
         /\ \A d \in {e.day : e \in R} : DOMAIN F!groupsByDay(q)[d] = CasesOf(R, d)
BY DEF F!groupsByDay, CasesOf

LEMMA GroupAt ==
  ASSUME NEW q, NEW R, R = F!Range(q), NEW d \in {e.day : e \in R}, NEW c \in CasesOf(R, d)
  PROVE  F!groupsByDay(q)[d][c] = Group(Ordered(R, d, c))
<1>1. F!groupsByDay(q)[d] =
        [x \in {e.case : e \in {f \in R : f.day = d}} |->
          Group({e \in {f \in R : f.day = d} : e.case = x})]
  BY DEF F!groupsByDay, Group
<1>2. {e \in {f \in R : f.day = d} : e.case = c} = Ordered(R, d, c)
  BY DEF Ordered
<1>3. F!groupsByDay(q)[d][c] = Group({e \in {f \in R : f.day = d} : e.case = c})
  BY <1>1 DEF CasesOf
<1> QED BY <1>2, <1>3

LEMMA GroupOf ==
  ASSUME NEW S
  PROVE  /\ Group(S).events = S /\ Group(S).totalEvents = Cardinality(S)
         /\ Group(S).eventTypeCounts =
              [t \in {e.type : e \in S} |-> Cardinality({e \in S : e.type = t})]
         /\ Group(S).lastEvent = CHOOSE e \in S : \A f \in S : f.id <= e.id
<1>1. \A X : F!Cardinality(X) = Cardinality(X)
  BY SameCardinality
<1> QED BY <1>1 DEF Group

LEMMA FeedSum == ASSUME NEW f PROVE F!SumFunction(f) = SumFunction(f)
BY DEF SumFunction, SumFunctionOnSet, FoldFunctionOnSet, MapThenFoldSet, F!SumFunction,
       F!SumFunctionOnSet, F!FoldFunctionOnSet, F!MapThenFoldSet

\* Events are counted by their days, by their cases and by their types.
LEMMA CountedBy ==
  ASSUME NEW X, IsFiniteSet(X)
  PROVE  /\ SumFunction([a \in {e.day : e \in X} |-> Cardinality({e \in X : e.day = a})])
            = Cardinality(X)
         /\ SumFunction([a \in {e.case : e \in X} |-> Cardinality({e \in X : e.case = a})])
            = Cardinality(X)
         /\ SumFunction([a \in {e.type : e \in X} |-> Cardinality({e \in X : e.type = a})])
            = Cardinality(X)
<1>1. SumFunction([a \in {e.day : e \in X} |-> Cardinality({e \in X : e.day = a})]) = Cardinality(X)
  <2> DEFINE K   == {e.day : e \in X}
             key == [e \in X |-> e.day]
  <2>1. key \in [X -> K] /\ {key[e] : e \in X} = K
    OBVIOUS
  <2>2. [a \in K |-> Cardinality({e \in X : key[e] = a})]
        = [a \in K |-> Cardinality({e \in X : e.day = a})]
    OBVIOUS
  <2>3. SumFunction([a \in {key[e] : e \in X} |-> Cardinality({e \in X : key[e] = a})])
        = Cardinality(X)
    <3> HIDE DEF key, K
    <3> QED BY <2>1, CountByKey, ZenonT(40)
  <2> QED BY <2>1, <2>2, <2>3
<1>2. SumFunction([a \in {e.case : e \in X} |-> Cardinality({e \in X : e.case = a})]) = Cardinality(X)
  <2> DEFINE K   == {e.case : e \in X}
             key == [e \in X |-> e.case]
  <2>1. key \in [X -> K] /\ {key[e] : e \in X} = K
    OBVIOUS
  <2>2. [a \in K |-> Cardinality({e \in X : key[e] = a})]
        = [a \in K |-> Cardinality({e \in X : e.case = a})]
    OBVIOUS
  <2>3. SumFunction([a \in {key[e] : e \in X} |-> Cardinality({e \in X : key[e] = a})])
        = Cardinality(X)
    <3> HIDE DEF key, K
    <3> QED BY <2>1, CountByKey, ZenonT(40)
  <2> QED BY <2>1, <2>2, <2>3
<1>3. SumFunction([a \in {e.type : e \in X} |-> Cardinality({e \in X : e.type = a})]) = Cardinality(X)
  <2> DEFINE K   == {e.type : e \in X}
             key == [e \in X |-> e.type]
  <2>1. key \in [X -> K] /\ {key[e] : e \in X} = K
    OBVIOUS
  <2>2. [a \in K |-> Cardinality({e \in X : key[e] = a})]
        = [a \in K |-> Cardinality({e \in X : e.type = a})]
    OBVIOUS
  <2>3. SumFunction([a \in {key[e] : e \in X} |-> Cardinality({e \in X : key[e] = a})])
        = Cardinality(X)
    <3> HIDE DEF key, K
    <3> QED BY <2>1, CountByKey, ZenonT(40)
  <2> QED BY <2>1, <2>2, <2>3
<1> QED BY <1>1, <1>2, <1>3

LEMMA GroupsFit ==
  ASSUME NEW q, NEW R \in SUBSET F!Event, R = F!Range(q), IsFiniteSet(R), Cardinality(R) = Len(q)
  PROVE  LET days  == F!groupsByDay(q)
             total == [d \in DOMAIN days |->
                        F!SumFunction([c \in DOMAIN days[d] |-> days[d][c].totalEvents])]
             byCase == F!groupsByCase(q)
         IN  /\ F!SumFunction(total) = Len(q)
             /\ UNION {byCase[c] : c \in DOMAIN byCase}
                = UNION {UNION {days[d][c].events : c \in DOMAIN days[d]} : d \in DOMAIN days}
             /\ \A d \in DOMAIN days : \A c \in DOMAIN days[d] :
                  /\ F!SumFunction(days[d][c].eventTypeCounts) = days[d][c].totalEvents
                  /\ days[d][c].lastEvent.day = d
<1> DEFINE days  == F!groupsByDay(q)
           total == [d \in DOMAIN days |->
                      F!SumFunction([c \in DOMAIN days[d] |-> days[d][c].totalEvents])]
           byCase == F!groupsByCase(q)
           DaysOf == {e.day : e \in R}
           OfDay(d) == {e \in R : e.day = d}
<1>1. MaxEvents \in Nat
  BY BackOfficeAssumption DEF F!ActivityAssumption
<1>2. byCase = [c \in {e.case : e \in R} |-> {e \in R : e.case = c}]
  BY DEF F!groupsByCase
<1>3. /\ DOMAIN days = DaysOf
      /\ \A d \in DaysOf : DOMAIN days[d] = CasesOf(R, d)
  BY GroupsOf
<1>4. ASSUME NEW d \in DaysOf, NEW c \in CasesOf(R, d)
      PROVE  /\ days[d][c].events = Ordered(R, d, c)
             /\ days[d][c].totalEvents = Cardinality(Ordered(R, d, c))
             /\ days[d][c].eventTypeCounts =
                  [t \in {e.type : e \in Ordered(R, d, c)} |->
                    Cardinality({e \in Ordered(R, d, c) : e.type = t})]
             /\ days[d][c].lastEvent =
                  CHOOSE e \in Ordered(R, d, c) : \A f \in Ordered(R, d, c) : f.id <= e.id
  <2>1. days[d][c] = Group(Ordered(R, d, c))
    BY GroupAt DEF days
  <2> QED BY <2>1, GroupOf
<1> HIDE DEF days, byCase
<1>5. \A d : OfDay(d) \in SUBSET R /\ IsFiniteSet(OfDay(d))
  <2> SUFFICES ASSUME NEW d PROVE OfDay(d) \in SUBSET R /\ IsFiniteSet(OfDay(d))
    OBVIOUS
  <2>1. OfDay(d) \in SUBSET R
    OBVIOUS
  <2> HIDE DEF OfDay
  <2> QED BY <2>1, FS_Subset
<1>6. \A d, c : Ordered(R, d, c) = {e \in OfDay(d) : e.case = c} /\ CasesOf(R, d) = {e.case : e \in OfDay(d)}
  BY DEF Ordered, CasesOf
<1>7. ASSUME NEW d \in DaysOf
      PROVE  F!SumFunction([c \in DOMAIN days[d] |-> days[d][c].totalEvents]) = Cardinality(OfDay(d))
  <2> DEFINE X == OfDay(d)
  <2>1. [c \in DOMAIN days[d] |-> days[d][c].totalEvents]
        = [a \in {e.case : e \in X} |-> Cardinality({e \in X : e.case = a})]
    <3>1. DOMAIN days[d] = {e.case : e \in X}
      BY <1>3, <1>6
    <3>2. \A c \in {e.case : e \in X} :
            days[d][c].totalEvents = Cardinality({e \in X : e.case = c})
      <4> SUFFICES ASSUME NEW c \in {e.case : e \in X}
                   PROVE  days[d][c].totalEvents = Cardinality({e \in X : e.case = c})
        OBVIOUS
      <4>1. c \in CasesOf(R, d) /\ Ordered(R, d, c) = {e \in X : e.case = c}
        BY <1>6
      <4>2. days[d][c].totalEvents = Cardinality(Ordered(R, d, c))
        BY <1>4, <4>1
      <4> QED BY <4>1, <4>2
    <3> HIDE DEF X
    <3> QED BY <3>1, <3>2
  <2>2. IsFiniteSet(X)
    BY <1>5
  <2> HIDE DEF X
  <2>3. SumFunction([a \in {e.case : e \in X} |-> Cardinality({e \in X : e.case = a})]) = Cardinality(X)
    BY <2>2, CountedBy
  <2>4. F!SumFunction([c \in DOMAIN days[d] |-> days[d][c].totalEvents]) = Cardinality(X)
    BY <2>1, <2>3, FeedSum
  <2> QED BY <2>4 DEF X
<1>8. F!SumFunction(total) = Len(q)
  <2>1. total = [a \in DaysOf |-> Cardinality({e \in R : e.day = a})]
    BY <1>3, <1>7
  <2> HIDE DEF total
  <2>2. SumFunction([a \in DaysOf |-> Cardinality({e \in R : e.day = a})]) = Cardinality(R)
    BY CountedBy
  <2> QED BY <2>1, <2>2, FeedSum
<1>9. UNION {byCase[c] : c \in DOMAIN byCase} = R
  <2>1. \A e \in R : e.case \in DOMAIN byCase /\ e \in byCase[e.case]
    BY <1>2
  <2>2. \A c \in DOMAIN byCase : byCase[c] \subseteq R
    BY <1>2
  <2> QED BY <2>1, <2>2
<1>10. UNION {UNION {days[d][c].events : c \in DOMAIN days[d]} : d \in DOMAIN days} = R
  <2>1. ASSUME NEW e \in R
        PROVE  /\ e.day \in DOMAIN days /\ e.case \in DOMAIN days[e.day]
               /\ e \in days[e.day][e.case].events
    <3>1. e.day \in DaysOf /\ e.case \in CasesOf(R, e.day) /\ e \in Ordered(R, e.day, e.case)
      BY <1>6 DEF Ordered
    <3> QED BY <1>3, <1>4, <3>1
  <2>2. ASSUME NEW d \in DOMAIN days, NEW c \in DOMAIN days[d]
        PROVE  days[d][c].events \subseteq R
    <3>1. d \in DaysOf /\ c \in CasesOf(R, d)
      BY <1>3
    <3>2. days[d][c].events = Ordered(R, d, c)
      BY <1>4, <3>1
    <3> QED BY <3>2 DEF Ordered
  <2> QED BY <2>1, <2>2
<1>11. ASSUME NEW d \in DOMAIN days, NEW c \in DOMAIN days[d]
       PROVE  /\ F!SumFunction(days[d][c].eventTypeCounts) = days[d][c].totalEvents
              /\ days[d][c].lastEvent.day = d
  <2> DEFINE X == Ordered(R, d, c)
  <2>0. d \in DaysOf /\ c \in CasesOf(R, d)
    BY <1>3
  <2>1. /\ days[d][c].totalEvents = Cardinality(X)
        /\ days[d][c].eventTypeCounts =
             [a \in {e.type : e \in X} |-> Cardinality({e \in X : e.type = a})]
        /\ days[d][c].lastEvent = CHOOSE e \in X : \A f \in X : f.id <= e.id
    BY <1>4, <2>0
  <2>2. X \in SUBSET R /\ X # {} /\ \A e \in X : e.day = d
    BY <2>0 DEF Ordered, CasesOf
  <2> HIDE DEF X
  <2>3. IsFiniteSet(X)
    BY <2>2, FS_Subset
  <2>4. F!SumFunction(days[d][c].eventTypeCounts) = days[d][c].totalEvents
    <3>1. SumFunction([a \in {e.type : e \in X} |-> Cardinality({e \in X : e.type = a})])
          = Cardinality(X)
      BY <2>3, CountedBy
    <3> QED BY <2>1, <3>1, FeedSum
  <2>5. \E e \in X : \A f \in X : f.id <= e.id
    <3> DEFINE number == [e \in X |-> e.id]
    <3>1. number \in [X -> 0 .. MaxEvents]
      BY <1>1, <2>2 DEF F!Event
    <3>2. \E e \in X : \A f \in X : number[f] <= number[e]
      <4> HIDE DEF number
      <4> QED BY <1>1, <2>2, <3>1, FirstAndLast
    <3> QED BY <3>2
  <2>6. days[d][c].lastEvent \in X
    BY <2>1, <2>5
  <2> QED BY <2>2, <2>4, <2>6
<1> QED BY <1>8, <1>9, <1>10, <1>11 DEF days, byCase, total

LEMMA FeedGrouped ==
  ASSUME ActivityInv PROVE F!GroupsAddUp
<1>1. ASSUME NEW query \in F!Query
      PROVE  query.limit \in Nat
  BY BackOfficeAssumption DEF F!Query, F!ActivityAssumption
<1>2. ASSUME NEW query \in F!Query
      PROVE  LET days  == F!groupsByDay(F!findEvents(query))
                 total == [d \in DOMAIN days |->
                            F!SumFunction([c \in DOMAIN days[d] |-> days[d][c].totalEvents])]
                 byCase == F!groupsByCase(F!findEvents(query))
             IN  /\ F!SumFunction(total) = Len(F!findEvents(query))
                 /\ UNION {byCase[c] : c \in DOMAIN byCase}
                    = UNION {UNION {days[d][c].events : c \in DOMAIN days[d]} : d \in DOMAIN days}
                 /\ \A d \in DOMAIN days : \A c \in DOMAIN days[d] :
                      /\ F!SumFunction(days[d][c].eventTypeCounts) = days[d][c].totalEvents
                      /\ days[d][c].lastEvent.day = d
  <2>1. PICK q : q = F!findEvents(query)
    OBVIOUS
  <2>2. /\ F!Range(q) \in SUBSET F!Event /\ IsFiniteSet(F!Range(q))
        /\ Cardinality(F!Range(q)) = Len(q)
    BY <1>1, <2>1, FoundOnce
  <2> QED BY <2>1, <2>2, GroupsFit
<1> QED BY <1>2 DEF F!GroupsAddUp

\* The activity loses and repeats nothing of what it found, and its feed tells the same of a
\* case as the timeline, whatever was written, called and moved before.
THEOREM FeedShowsAll == Spec => []FeedAddsUp
<1>1. ActivityInv => FeedAddsUp
  BY FeedGrouped, FeedFitsTimeline DEF FeedAddsUp
<1>2. Init => ActivityInv
  BY ActivityInit
<1>3. ActivityInv /\ [Next]_vars => ActivityInv'
  BY ActivityStep
<1> QED BY <1>1, <1>2, <1>3, PTL DEF Spec

\* What the back office shows adds up, on the board and in the feed.
THEOREM ViewsShowAll == Spec => []ViewsAddUp
BY BoardShowsAll, FeedShowsAll, PTL DEF ViewsAddUp

-----------------------------------------------------------------------------
(***************************************************************************)
(* The imports.  Every worker has counted each row before its own once; a  *)
(* batch that waits has left nothing.                                      *)
(***************************************************************************)
Working == {"claimed", "find", "write"}

\* A case of one of n debtors.
ImportRow(n) == [debtor : 1 .. n, row : 1 .. MaxRows]

Fits(x) ==
  /\ x.row <= Len(rows) + 1 /\ x.success + x.errors = x.row - 1 /\ x.debtor <= Len(debtors)
  /\ x.at = "write" => x.row <= Len(rows) /\ I!IsImportable(rows[x.row])
  /\ x.at \in {"idle", "seen", "claimed"} => x.row = 1
  /\ x.at = "seen" => x.read = "PENDING"

ImportInv ==
  /\ rows \in I!SomeRows /\ batch \in I!BatchRecord
  /\ debtors \in Seq(I!DebtorRecord) /\ imported \in Seq(ImportRow(Len(debtors)))
  /\ worker \in [Worker -> I!WorkerRecord] /\ \A w \in Worker : Fits(worker[w])
  /\ claimedTwice \in BOOLEAN /\ broken \in BOOLEAN
  /\ batch.status = "PENDING" =>
       imported = <<>> /\ debtors = <<>> /\ \A w \in Worker : worker[w].at \notin Working

LEMMA RowsType ==
  ASSUME rows \in I!SomeRows
  PROVE  /\ MaxRows \in Nat \ {0} /\ rows \in Seq(I!Row) /\ Len(rows) \in 0 .. MaxRows
         /\ DOMAIN rows = 1 .. Len(rows) /\ rows = <<>> <=> Len(rows) = 0
<1>1. MaxRows \in Nat \ {0}
  BY BackOfficeAssumption DEF I!ImportAssumption
<1>2. PICK n \in 0 .. MaxRows : rows \in [1 .. n -> I!Row]
  BY DEF I!SomeRows
<1>3. rows \in Seq(I!Row) /\ Len(rows) = n
  BY <1>1, <1>2
<1> QED BY <1>1, <1>2, <1>3, EmptySeq

LEMMA MoreDebtors ==
  ASSUME NEW n \in Nat, NEW m \in Nat, n <= m, NEW s \in Seq(ImportRow(n))
  PROVE  /\ s \in Seq(ImportRow(m)) /\ Len(s) \in Nat /\ DOMAIN s = 1 .. Len(s)
         /\ \A k \in DOMAIN s : s[k] \in ImportRow(m)
<1>1. /\ Len(s) \in Nat /\ DOMAIN s = 1 .. Len(s) /\ s \in [1 .. Len(s) -> ImportRow(n)]
  BY LenProperties
<1>2. \A k \in DOMAIN s : s[k] \in ImportRow(m)
  BY <1>1 DEF ImportRow
<1> QED BY <1>1, <1>2

LEMMA NewWorkerFits ==
  ASSUME rows \in I!SomeRows, debtors \in Seq(I!DebtorRecord)
  PROVE  /\ I!NewWorker \in I!WorkerRecord /\ Fits(I!NewWorker) /\ I!NewWorker.at = "idle"
         /\ [I!NewWorker EXCEPT !.at = "gone"] \in I!WorkerRecord
         /\ Fits([I!NewWorker EXCEPT !.at = "gone"])
         /\ [I!NewWorker EXCEPT !.at = "gone"].at = "gone"
<1>1. MaxRows \in Nat \ {0} /\ Len(rows) \in Nat /\ Len(debtors) \in Nat
  BY RowsType, LenProperties
<1> QED BY <1>1 DEF I!NewWorker, I!WorkerRecord, I!Phase, Fits

LEMMA ImportInit ==
  ASSUME Init PROVE ImportInv
<1>1. I!Init
  BY DEF Init
<1>2. debtors = <<>> /\ imported = <<>> /\ rows \in I!SomeRows
  BY <1>1 DEF I!Init
<1>3. debtors \in Seq(I!DebtorRecord) /\ imported \in Seq(ImportRow(Len(debtors)))
  BY <1>2, EmptySeq
<1>4. batch \in I!BatchRecord
  BY <1>1, <1>2, RowsType DEF I!Init, I!BatchRecord
<1>5. worker = [w \in Worker |-> I!NewWorker] /\ claimedTwice = FALSE /\ broken = FALSE
  BY <1>1 DEF I!Init
<1>6. /\ worker \in [Worker -> I!WorkerRecord] /\ \A w \in Worker : Fits(worker[w])
      /\ \A w \in Worker : worker[w].at = "idle"
  BY <1>2, <1>3, <1>5, NewWorkerFits
<1> QED BY <1>2, <1>3, <1>4, <1>5, <1>6 DEF ImportInv, Working

\* A worker that takes a step leaves the others where they were.
LEMMA WorkerMoves ==
  ASSUME ImportInv, NEW w \in Worker, NEW x \in I!WorkerRecord, Fits(x)',
         worker' = [worker EXCEPT ![w] = x],
         rows' = rows, debtors' \in Seq(I!DebtorRecord), Len(debtors') >= Len(debtors)
  PROVE  /\ worker' \in [Worker -> I!WorkerRecord] /\ \A v \in Worker : Fits(worker[v])'
         /\ worker'[w] = x /\ \A v \in Worker \ {w} : worker'[v] = worker[v]
<1>1. Len(debtors) \in Nat /\ Len(debtors') \in Nat
  BY LenProperties DEF ImportInv
<1>2. \A v \in Worker \ {w} : worker'[v] = worker[v] /\ worker[v].debtor \in Nat
  BY DEF ImportInv, I!WorkerRecord
<1>3. worker'[w] = x
  BY DEF ImportInv
<1>4. \A v \in Worker \ {w} : Fits(worker[v])'
  BY <1>1, <1>2 DEF ImportInv, Fits, I!IsImportable
<1>5. Fits(worker[w])'
  BY <1>3 DEF Fits
<1> QED BY <1>2, <1>3, <1>4, <1>5 DEF ImportInv

\* What a step of a worker does with the batch, when it writes no row.
LEMMA WorkerKeeps ==
  ASSUME ImportInv, NEW w \in Worker, NEW x \in I!WorkerRecord, Fits(x),
         worker' = [worker EXCEPT ![w] = x],
         UNCHANGED <<rows, debtors, imported>>, claimedTwice' \in BOOLEAN, broken' \in BOOLEAN,
         batch' \in I!BatchRecord,
         batch'.status = "PENDING" => batch.status = "PENDING" /\ x.at \notin Working
  PROVE  ImportInv'
<1>1. Fits(x)'
  BY DEF Fits, I!IsImportable
<1>2. debtors' \in Seq(I!DebtorRecord) /\ Len(debtors') >= Len(debtors)
  BY LenProperties DEF ImportInv
<1>3. /\ worker' \in [Worker -> I!WorkerRecord] /\ \A v \in Worker : Fits(worker[v])'
      /\ worker'[w] = x /\ \A v \in Worker \ {w} : worker'[v] = worker[v]
  BY <1>1, <1>2, WorkerMoves
<1>4. (imported \in Seq(ImportRow(Len(debtors))))'
  BY DEF ImportInv
<1> QED BY <1>2, <1>3, <1>4 DEF ImportInv

LEMMA StartSteps ==
  ASSUME ImportInv, NEW w \in Worker,
         I!BeginProcess(w) \/ I!Claim(w) \/ I!ReadSheet(w)
  PROVE  ImportInv'
<1>0. /\ worker[w] \in I!WorkerRecord /\ Fits(worker[w]) /\ batch \in I!BatchRecord
      /\ claimedTwice \in BOOLEAN /\ broken \in BOOLEAN
  BY DEF ImportInv
<1>1. CASE I!BeginProcess(w)
  <2>1. PICK x : x = [worker[w] EXCEPT !.at = "seen", !.read = batch.status]
    OBVIOUS
  <2>2. worker' = [worker EXCEPT ![w] = x]
    BY <1>1, <2>1 DEF I!BeginProcess, ImportInv
  <2>3. x \in I!WorkerRecord /\ Fits(x) /\ x.at \notin Working
    BY <1>0, <1>1, <2>1 DEF I!BeginProcess, I!MayProcess, I!WorkerRecord, I!Phase, Fits, Working
  <2> QED BY <1>0, <1>1, <2>2, <2>3, WorkerKeeps DEF I!BeginProcess
<1>2. CASE I!Claim(w)
  <2>1. PICK x : x = [worker[w] EXCEPT !.at = "claimed"]
    OBVIOUS
  <2>2. worker' = [worker EXCEPT ![w] = x]
    BY <1>2, <2>1 DEF I!Claim, ImportInv
  <2>3. x \in I!WorkerRecord /\ Fits(x)
    BY <1>0, <1>2, <2>1 DEF I!Claim, I!WorkerRecord, I!Phase, Fits
  <2>4. batch' \in I!BatchRecord /\ batch'.status = "PROCESSING" /\ claimedTwice' \in BOOLEAN
    BY <1>0, <1>2 DEF I!Claim, I!BatchRecord
  <2> QED BY <1>0, <1>2, <2>2, <2>3, <2>4, WorkerKeeps DEF I!Claim
<1>3. CASE I!ReadSheet(w)
  <2>1. PICK x : x = [worker[w] EXCEPT !.at = "find"]
    OBVIOUS
  <2>2. worker' = [worker EXCEPT ![w] = x]
    BY <1>3, <2>1 DEF I!ReadSheet, ImportInv
  <2>3. x \in I!WorkerRecord /\ Fits(x)
    BY <1>0, <1>3, <2>1 DEF I!ReadSheet, I!WorkerRecord, I!Phase, Fits
  <2>4. batch' \in I!BatchRecord /\ batch'.status = batch.status
    BY <1>0, <1>3, RowsType DEF I!ReadSheet, I!BatchRecord, ImportInv
  <2>5. batch.status # "PENDING"
    BY <1>3 DEF ImportInv, I!ReadSheet, Working
  <2> QED BY <1>0, <1>3, <2>2, <2>3, <2>4, <2>5, WorkerKeeps DEF I!ReadSheet
<1> QED BY <1>1, <1>2, <1>3

\* The row of a worker and what it has counted, and the same of the next row.
LEMMA CountedRow ==
  ASSUME ImportInv, NEW w \in Worker
  PROVE  /\ worker[w].row \in 1 .. MaxRows + 1 /\ worker[w].debtor \in 0 .. Len(debtors)
         /\ worker[w].success \in 0 .. MaxRows /\ worker[w].errors \in 0 .. MaxRows
         /\ worker[w].success + worker[w].errors = worker[w].row - 1
         /\ worker[w].row <= Len(rows) =>
              /\ worker[w].row + 1 \in 1 .. MaxRows + 1 /\ worker[w].row + 1 <= Len(rows) + 1
              /\ worker[w].errors + 1 \in 0 .. MaxRows /\ worker[w].success + 1 \in 0 .. MaxRows
              /\ worker[w].success + (worker[w].errors + 1) = (worker[w].row + 1) - 1
              /\ (worker[w].success + 1) + worker[w].errors = (worker[w].row + 1) - 1
<1>1. /\ worker[w] \in I!WorkerRecord /\ Fits(worker[w]) /\ Len(debtors) \in Nat
      /\ MaxRows \in Nat /\ Len(rows) \in 0 .. MaxRows
  BY LenProperties, RowsType DEF ImportInv
<1>2. /\ worker[w].row \in 1 .. MaxRows + 1 /\ worker[w].debtor \in 0 .. Len(debtors)
      /\ worker[w].success \in 0 .. MaxRows /\ worker[w].errors \in 0 .. MaxRows
      /\ worker[w].success + worker[w].errors = worker[w].row - 1
  BY <1>1 DEF I!WorkerRecord, Fits
<1>3. PICK i, e, s, m, n : /\ i = worker[w].row /\ e = worker[w].errors /\ s = worker[w].success
                           /\ m = MaxRows /\ n = Len(rows)
  OBVIOUS
<1>4. /\ m \in Nat /\ n \in 0 .. m /\ s \in 0 .. m /\ e \in 0 .. m /\ i \in 1 .. m + 1
      /\ s + e = i - 1
  BY <1>1, <1>2, <1>3
<1>5. i <= n => /\ i + 1 \in 1 .. m + 1 /\ i + 1 <= n + 1
                /\ e + 1 \in 0 .. m /\ s + 1 \in 0 .. m
                /\ s + (e + 1) = (i + 1) - 1 /\ (s + 1) + e = (i + 1) - 1
  BY <1>4
<1> QED BY <1>2, <1>3, <1>5

LEMMA RowSteps ==
  ASSUME ImportInv, NEW w \in Worker, I!FindDebtor(w) \/ I!RollBack(w)
  PROVE  ImportInv'
<1>0. /\ worker[w] \in I!WorkerRecord /\ Fits(worker[w]) /\ batch \in I!BatchRecord
      /\ claimedTwice \in BOOLEAN /\ broken \in BOOLEAN
      /\ Len(debtors) \in Nat /\ DOMAIN debtors = 1 .. Len(debtors)
      /\ MaxRows \in Nat /\ Len(rows) \in 0 .. MaxRows
  BY LenProperties, RowsType DEF ImportInv
<1>1. batch.status # "PENDING" /\ UNCHANGED <<rows, batch, debtors, imported, claimedTwice, broken>>
  BY DEF ImportInv, I!FindDebtor, I!RollBack, Working
<1>2. ASSUME NEW x \in I!WorkerRecord, Fits(x), worker' = [worker EXCEPT ![w] = x]
      PROVE  ImportInv'
  BY <1>0, <1>1, <1>2, WorkerKeeps
<1>3. ASSUME worker' = [worker EXCEPT ![w].row = @ + 1, ![w].errors = @ + 1],
             worker[w].at = "find", worker[w].row <= Len(rows)
      PROVE  ImportInv'
  <2>1. PICK x : x = [worker[w] EXCEPT !.row = @ + 1, !.errors = @ + 1]
    OBVIOUS
  <2>2. worker' = [worker EXCEPT ![w] = x]
    BY <1>3, <2>1 DEF ImportInv
  <2>3. x \in I!WorkerRecord
    BY <1>0, CountedRow, <1>3, <2>1 DEF I!WorkerRecord
  <2>4. Fits(x)
    BY <1>0, CountedRow, <1>3, <2>1 DEF I!WorkerRecord, Fits
  <2> QED BY <1>2, <2>2, <2>3, <2>4
<1>4. ASSUME NEW d \in 0 .. Len(debtors),
             worker' = [worker EXCEPT ![w].at = "write", ![w].debtor = d],
             worker[w].row <= Len(rows), I!IsImportable(rows[worker[w].row])
      PROVE  ImportInv'
  <2>1. PICK x : x = [worker[w] EXCEPT !.at = "write", !.debtor = d]
    OBVIOUS
  <2>2. worker' = [worker EXCEPT ![w] = x]
    BY <1>4, <2>1 DEF ImportInv
  <2>3. x \in I!WorkerRecord
    <3>1. d \in Nat
      BY <1>0
    <3> QED BY <1>0, <2>1, <3>1 DEF I!WorkerRecord, I!Phase
  <2>4. Fits(x)
    BY <1>0, CountedRow, <1>4, <2>1 DEF I!WorkerRecord, Fits
  <2> QED BY <1>2, <2>2, <2>3, <2>4
<1>5. CASE I!FindDebtor(w)
  <2>1. I!Matches(rows[worker[w].row]) \subseteq 1 .. Len(debtors)
    BY <1>0 DEF I!Matches
  <2>2. CASE ~I!IsImportable(rows[worker[w].row])
    BY <1>3, <1>5, <2>2 DEF I!FindDebtor
  <2>3. CASE I!IsImportable(rows[worker[w].row])
    <3>1. PICK d \in IF I!Matches(rows[worker[w].row]) = {} THEN {0} ELSE I!Matches(rows[worker[w].row]) :
            worker' = [worker EXCEPT ![w].at = "write", ![w].debtor = d]
      BY <1>5, <2>3 DEF I!FindDebtor
    <3>2. d \in 0 .. Len(debtors)
      BY <1>0, <2>1
    <3> QED BY <1>4, <1>5, <2>3, <3>1, <3>2 DEF I!FindDebtor
  <2> QED BY <2>2, <2>3
<1>6. CASE I!RollBack(w)
  <2>1. PICK x : x = [worker[w] EXCEPT !.at = "find", !.debtor = 0, !.row = @ + 1, !.errors = @ + 1]
    OBVIOUS
  <2>2. worker' = [worker EXCEPT ![w] = x]
    BY <1>6, <2>1 DEF I!RollBack, ImportInv
  <2>3. worker[w].row <= Len(rows)
    BY <1>0, <1>6 DEF I!RollBack, Fits
  <2>4. x \in I!WorkerRecord
    BY <1>0, CountedRow, <2>1, <2>3 DEF I!WorkerRecord, I!Phase
  <2>5. Fits(x)
    BY <1>0, CountedRow, <2>1, <2>3 DEF I!WorkerRecord, Fits
  <2> QED BY <1>2, <2>2, <2>4, <2>5
<1> QED BY <1>5, <1>6

LEMMA WriteTypes ==
  ASSUME ImportInv, NEW w \in Worker, I!WriteRow(w)
  PROVE  ImportInv'
<1> DEFINE i == worker[w].row
           new == [email |-> rows[i].email, phone |-> rows[i].phone]
           d == IF worker[w].debtor = 0 THEN Len(debtors) + 1 ELSE worker[w].debtor
<1>0. /\ worker[w] \in I!WorkerRecord /\ Fits(worker[w]) /\ worker[w].at = "write"
      /\ debtors \in Seq(I!DebtorRecord) /\ imported \in Seq(ImportRow(Len(debtors)))
      /\ Len(debtors) \in Nat /\ Len(imported) \in Nat
      /\ MaxRows \in Nat /\ Len(rows) \in 0 .. MaxRows /\ rows \in Seq(I!Row)
  BY LenProperties, RowsType DEF ImportInv, I!WriteRow
<1>1. i \in 1 .. Len(rows) /\ i \in 1 .. MaxRows /\ worker[w].debtor \in 0 .. Len(debtors)
  BY <1>0, CountedRow DEF Fits
<1>2. new \in I!DebtorRecord
  <2>1. rows[i] \in I!Row
    BY <1>0, <1>1
  <2> QED BY <2>1 DEF I!Row, I!DebtorRecord
<1>3. /\ debtors' = IF worker[w].debtor = 0 THEN Append(debtors, new) ELSE [debtors EXCEPT ![d] = new]
      /\ \/ imported' = Append(imported, [debtor |-> d, row |-> i])
         \/ \E c \in DOMAIN imported : imported' = [imported EXCEPT ![c].row = i]
      /\ UNCHANGED <<rows, batch, claimedTwice, broken>>
  BY DEF I!WriteRow, I!CasesOf
<1> HIDE DEF new
<1>4. /\ debtors' \in Seq(I!DebtorRecord) /\ Len(debtors') >= Len(debtors)
      /\ d \in 1 .. Len(debtors') /\ Len(debtors') \in Nat
  <2>1. CASE worker[w].debtor = 0
    BY <1>0, <1>2, <1>3, <2>1, AppendProperties
  <2>2. CASE worker[w].debtor # 0
    <3>1. worker[w].debtor \in 1 .. Len(debtors)
      BY <1>0, <1>1, <2>2
    <3> QED BY <1>0, <1>2, <1>3, <2>2, <3>1, ExceptSeq
  <2> QED BY <2>1, <2>2
<1> HIDE DEF d, i
<1>5. imported' \in Seq(ImportRow(Len(debtors')))
  <2> PICK m \in Nat : m = Len(debtors')
    BY <1>4
  <2>1. /\ imported \in Seq(ImportRow(m)) /\ DOMAIN imported = 1 .. Len(imported)
        /\ \A k \in DOMAIN imported : imported[k] \in ImportRow(m)
    BY <1>0, <1>4, MoreDebtors
  <2>2. CASE imported' = Append(imported, [debtor |-> d, row |-> i])
    <3>1. [debtor |-> d, row |-> i] \in ImportRow(m)
      BY <1>1, <1>4 DEF ImportRow
    <3> QED BY <2>1, <2>2, <3>1, AppendProperties
  <2>3. ASSUME NEW c \in DOMAIN imported, imported' = [imported EXCEPT ![c].row = i]
        PROVE  imported' \in Seq(ImportRow(m))
    <3>1. PICK x : x = [imported[c] EXCEPT !.row = i]
      OBVIOUS
    <3>2. x \in ImportRow(m)
      BY <1>1, <2>1, <3>1 DEF ImportRow
    <3> QED BY <2>1, <2>3, <3>1, <3>2, ExceptSeq
  <2> QED BY <1>3, <2>2, <2>3
<1> USE DEF i
<1>6. PICK x : x = [worker[w] EXCEPT !.at = "find", !.debtor = 0, !.row = @ + 1, !.success = @ + 1]
  OBVIOUS
<1>7. worker' = [worker EXCEPT ![w] = x]
  BY <1>6 DEF I!WriteRow, ImportInv
<1>8. x \in I!WorkerRecord
  <2>1. i + 1 \in 1 .. MaxRows + 1 /\ worker[w].success + 1 \in 0 .. MaxRows
    BY <1>0, <1>1, CountedRow
  <2> QED BY <1>0, <1>6, <2>1 DEF I!WorkerRecord, I!Phase
<1>9. Fits(x)'
  BY <1>0, <1>1, <1>3, <1>4, <1>6, CountedRow DEF I!WorkerRecord, Fits
<1>10. /\ worker' \in [Worker -> I!WorkerRecord] /\ \A v \in Worker : Fits(worker[v])'
  BY <1>3, <1>4, <1>7, <1>8, <1>9, WorkerMoves
<1>11. batch.status # "PENDING"
  BY <1>0 DEF ImportInv, Working
<1> QED BY <1>3, <1>4, <1>5, <1>10, <1>11 DEF ImportInv

LEMMA EndSteps ==
  ASSUME ImportInv, NEW w \in Worker, I!Finish(w) \/ I!Fatal(w) \/ I!Crash(w)
  PROVE  ImportInv'
<1>0. /\ worker[w] \in I!WorkerRecord /\ batch \in I!BatchRecord
      /\ claimedTwice \in BOOLEAN /\ broken \in BOOLEAN
  BY DEF ImportInv
<1>1. PICK x : x = [I!NewWorker EXCEPT !.at = "gone"]
  OBVIOUS
<1>2. x \in I!WorkerRecord /\ Fits(x) /\ x.at \notin Working
  BY <1>1, NewWorkerFits DEF ImportInv, Working
<1>3. worker' = [worker EXCEPT ![w] = x] /\ UNCHANGED <<rows, debtors, imported>>
  BY <1>1 DEF I!Finish, I!Fatal, I!Crash
<1>4. /\ batch' \in I!BatchRecord /\ (batch'.status = "PENDING" => batch.status = "PENDING")
      /\ claimedTwice' \in BOOLEAN /\ broken' \in BOOLEAN
  BY <1>0 DEF I!Finish, I!Fatal, I!Crash, I!BatchRecord, I!WorkerRecord, I!Outcome
<1> QED BY <1>2, <1>3, <1>4, WorkerKeeps

LEMMA UploadTypes ==
  ASSUME ImportInv, NEW stored \in BOOLEAN, I!Upload(stored)
  PROVE  ImportInv'
<1>1. batch' \in I!BatchRecord
  BY DEF ImportInv, I!Upload, I!BatchRecord
<1> QED BY <1>1 DEF ImportInv, I!Upload, Fits, I!IsImportable

LEMMA ImportStep ==
  ASSUME ImportInv, [Next]_vars
  PROVE  ImportInv'
<1>1. CASE I!Next
  BY <1>1, UploadTypes, StartSteps, RowSteps, WriteTypes, EndSteps DEF I!Next
<1>2. CASE UNCHANGED imports
  BY <1>2 DEF imports, ImportInv, Fits, I!IsImportable
<1> QED BY <1>1, <1>2, PartSteps

LEMMA ImportTyped ==
  ASSUME ImportInv PROVE I!TypeOK
BY DEF ImportInv, ImportRow, I!TypeOK

-----------------------------------------------------------------------------
(***************************************************************************)
(* Unless the batch was claimed on a status that had changed, one worker   *)
(* at most is at work, and the batch is PROCESSING while it is.            *)
(***************************************************************************)
SoleWorker ==
  ~claimedTwice =>
    \A w \in Worker : worker[w].at \in Working =>
      batch.status = "PROCESSING" /\ \A v \in Worker \ {w} : worker[v].at \notin Working

\* What a step does with the workers and the batch: it starts one that is not at work,
\* on a batch that waits; or one that is at work takes a step, or a server dies.
LEMMA WorkSteps ==
  ASSUME ImportInv, [Next]_vars
  PROVE  \/ UNCHANGED <<worker, batch, claimedTwice>>
         \/ batch.status = "PENDING" /\ UNCHANGED <<worker, claimedTwice>>
         \/ \E w \in Worker :
              /\ \A v \in Worker \ {w} : worker'[v] = worker[v]
              /\ \/ worker'[w].at \notin Working /\ batch' = batch /\ claimedTwice' = claimedTwice
                 \/ /\ worker[w].at = "seen" /\ batch'.status = "PROCESSING"
                    /\ claimedTwice' = (claimedTwice \/ batch.status # "PENDING")
                 \/ /\ worker[w].at \in Working /\ claimedTwice' = claimedTwice
                    /\ worker'[w].at \in Working => batch'.status = batch.status
<1>0. worker \in [Worker -> I!WorkerRecord]
  BY DEF ImportInv
<1>1. CASE UNCHANGED imports
  BY <1>1 DEF imports
<1>2. ASSUME NEW stored \in BOOLEAN, I!Upload(stored)
      PROVE  batch.status = "PENDING" /\ UNCHANGED <<worker, claimedTwice>>
  BY <1>2 DEF I!Upload
<1>3. ASSUME NEW w \in Worker,
             \/ I!BeginProcess(w) \/ I!Claim(w) \/ I!ReadSheet(w)
             \/ I!FindDebtor(w) \/ I!WriteRow(w) \/ I!RollBack(w)
             \/ I!Finish(w) \/ I!Fatal(w) \/ I!Crash(w)
      PROVE  /\ \A v \in Worker \ {w} : worker'[v] = worker[v]
             /\ \/ worker'[w].at \notin Working /\ batch' = batch /\ claimedTwice' = claimedTwice
                \/ /\ worker[w].at = "seen" /\ batch'.status = "PROCESSING"
                   /\ claimedTwice' = (claimedTwice \/ batch.status # "PENDING")
                \/ /\ worker[w].at \in Working /\ claimedTwice' = claimedTwice
                   /\ worker'[w].at \in Working => batch'.status = batch.status
  <2>1. CASE I!BeginProcess(w)
    BY <1>0, <2>1 DEF I!BeginProcess, Working
  <2>2. CASE I!Claim(w)
    <3>1. worker[w].read = "PENDING" /\ batch \in I!BatchRecord
      BY <2>2 DEF I!Claim, ImportInv, Fits
    <3> QED BY <1>0, <2>2, <3>1 DEF I!Claim, I!BatchRecord
  <2>3. CASE I!ReadSheet(w)
    BY <1>0, <2>3 DEF I!ReadSheet, Working, ImportInv, I!BatchRecord
  <2>4. CASE I!FindDebtor(w)
    BY <1>0, <2>4 DEF I!FindDebtor, Working
  <2>5. CASE I!WriteRow(w)
    BY <1>0, <2>5 DEF I!WriteRow, Working
  <2>6. CASE I!RollBack(w)
    BY <1>0, <2>6 DEF I!RollBack, Working
  <2>7. CASE I!Finish(w) \/ I!Fatal(w)
    BY <1>0, <2>7 DEF I!Finish, I!Fatal, I!NewWorker, Working
  <2>8. CASE I!Crash(w)
    BY <1>0, <2>8 DEF I!Crash, I!NewWorker, Working
  <2> QED BY <1>3, <2>1, <2>2, <2>3, <2>4, <2>5, <2>6, <2>7, <2>8
<1>4. CASE I!Next
  BY <1>2, <1>3, <1>4 DEF I!Next
<1> QED BY <1>1, <1>4, PartSteps

LEMMA SoleStep ==
  ASSUME ImportInv, SoleWorker, [Next]_vars
  PROVE  SoleWorker' /\ [I!EndedStep]_vars
<1>0. /\ claimedTwice \in BOOLEAN
      /\ batch.status = "PENDING" => \A w \in Worker : worker[w].at \notin Working
  BY DEF ImportInv
<1>1. "seen" \notin Working
  BY DEF Working
<1>2. SoleWorker'
  BY <1>0, <1>1, WorkSteps DEF SoleWorker
<1>3. I!EndedStep
  BY <1>0, <1>1, WorkSteps DEF SoleWorker, I!EndedStep
<1> QED BY <1>2, <1>3

\* The end of a batch is not undone, unless two requests claimed it.
THEOREM EndStands == Spec => Ended
<1>1. Init => ImportInv /\ SoleWorker
  <2> SUFFICES ASSUME Init PROVE SoleWorker
    BY ImportInit
  <2>1. I!Init
    BY DEF Init
  <2> QED BY <2>1 DEF I!Init, I!NewWorker, SoleWorker, Working
<1>2. ImportInv /\ SoleWorker /\ [Next]_vars => ImportInv' /\ SoleWorker' /\ [I!EndedStep]_vars
  BY ImportStep, SoleStep
<1> QED BY <1>1, <1>2, PTL DEF Spec, Ended

-----------------------------------------------------------------------------
(***************************************************************************)
(* What the only worker has done so far.  It has counted at least the rows *)
(* that cannot be imported, and when it has counted no other, those it     *)
(* could import have landed.                                               *)
(***************************************************************************)
NotImportable(n) == {i \in 1 .. n : ~I!IsImportable(rows[i])}

HasLanded(i) ==
  \E c \in DOMAIN imported :
    /\ {k \in DOMAIN imported : imported[k].row = i} = {c}
    /\ debtors[imported[c].debtor].email = rows[i].email
    /\ debtors[imported[c].debtor].phone = rows[i].phone

Landed(n) ==
  \A i \in 1 .. n :
    /\ I!IsImportable(rows[i])
    /\ \A j \in i + 1 .. n : ~I!SharesIdentifier(rows[i], rows[j])
    => HasLanded(i)

Progress(x) ==
  /\ x.success = 0 => imported = <<>>
  /\ \A k \in DOMAIN imported : imported[k].row < x.row
  /\ x.errors >= Cardinality(NotImportable(x.row - 1))
  /\ x.errors = Cardinality(NotImportable(x.row - 1)) => Landed(x.row - 1)
  /\ x.at = "write" => IF x.debtor = 0 THEN I!Matches(rows[x.row]) = {}
                                      ELSE x.debtor \in I!Matches(rows[x.row])

AtWork == ~claimedTwice => \A w \in Worker : worker[w].at \in Working => Progress(worker[w])

Told == I!EveryRowLands /\ I!FailedLeavesNothing

LEMMA RowsNotImportable ==
  ASSUME NEW n \in Nat
  PROVE  /\ IsFiniteSet(NotImportable(n)) /\ Cardinality(NotImportable(n)) \in Nat
         /\ NotImportable(0) = {} /\ Cardinality(NotImportable(0)) = 0
         /\ Cardinality(NotImportable(n + 1)) =
              IF I!IsImportable(rows[n + 1]) THEN Cardinality(NotImportable(n))
                                             ELSE Cardinality(NotImportable(n)) + 1
<1>1. IsFiniteSet(1 .. n)
  BY FS_Interval
<1>2. NotImportable(n) \subseteq 1 .. n
  BY DEF NotImportable
<1>3. IsFiniteSet(NotImportable(n)) /\ Cardinality(NotImportable(n)) \in Nat
  BY <1>1, <1>2, FS_Subset, FS_CardinalityType
<1>4. NotImportable(0) = {} /\ Cardinality(NotImportable(0)) = 0
  <2>1. NotImportable(0) = {}
    BY DEF NotImportable
  <2> QED BY <2>1, FS_EmptySet
<1>5. 1 .. (n + 1) = (1 .. n) \cup {n + 1} /\ n + 1 \notin NotImportable(n)
  BY DEF NotImportable
<1>6. CASE I!IsImportable(rows[n + 1])
  <2>1. NotImportable(n + 1) = NotImportable(n)
    BY <1>5, <1>6 DEF NotImportable
  <2> QED BY <1>3, <1>4, <1>6, <2>1
<1>7. CASE ~I!IsImportable(rows[n + 1])
  <2>1. NotImportable(n + 1) = NotImportable(n) \cup {n + 1}
    BY <1>5, <1>7 DEF NotImportable
  <2>2. Cardinality(NotImportable(n) \cup {n + 1}) = Cardinality(NotImportable(n)) + 1
    BY <1>3, <1>5, FS_AddElement
  <2> QED BY <1>3, <1>4, <1>7, <2>1, <2>2
<1> QED BY <1>6, <1>7

LEMMA SkipLands ==
  ASSUME NEW n \in Nat, Landed(n), ~I!IsImportable(rows[n + 1])
  PROVE  Landed(n + 1)
<1> SUFFICES ASSUME NEW i \in 1 .. n + 1, I!IsImportable(rows[i]),
                    \A j \in i + 1 .. n + 1 : ~I!SharesIdentifier(rows[i], rows[j])
             PROVE  HasLanded(i)
  BY DEF Landed
<1>1. i \in 1 .. n
  OBVIOUS
<1>2. \A j \in i + 1 .. n : j \in i + 1 .. n + 1
  OBVIOUS
<1> QED BY <1>1, <1>2 DEF Landed

\* The debtor and the case that a row is written to.
LEMMA WrittenTo ==
  ASSUME ImportInv, NEW w \in Worker, I!WriteRow(w), Progress(worker[w])
  PROVE  LET i == worker[w].row
         IN  \E d, c :
               /\ d \in DOMAIN debtors => d \in I!Matches(rows[i])
               /\ debtors'[d].email = rows[i].email /\ debtors'[d].phone = rows[i].phone
               /\ \A e \in DOMAIN debtors \ {d} : debtors'[e] = debtors[e]
               /\ c \in DOMAIN imported' /\ imported'[c].debtor = d /\ imported'[c].row = i
               /\ c \in DOMAIN imported => imported[c].debtor = d
               /\ DOMAIN imported' = DOMAIN imported \cup {c}
               /\ \A k \in DOMAIN imported \ {c} : imported'[k] = imported[k]
<1> DEFINE i == worker[w].row
           new == [email |-> rows[i].email, phone |-> rows[i].phone]
           d == IF worker[w].debtor = 0 THEN Len(debtors) + 1 ELSE worker[w].debtor
<1>0. /\ debtors \in Seq(I!DebtorRecord) /\ imported \in Seq(ImportRow(Len(debtors)))
      /\ Len(debtors) \in Nat /\ DOMAIN debtors = 1 .. Len(debtors)
      /\ Len(imported) \in Nat /\ DOMAIN imported = 1 .. Len(imported)
      /\ worker[w].debtor \in 0 .. Len(debtors) /\ worker[w].at = "write"
  BY LenProperties, CountedRow DEF ImportInv, I!WriteRow
<1>1. /\ debtors' = IF worker[w].debtor = 0 THEN Append(debtors, new) ELSE [debtors EXCEPT ![d] = new]
      /\ \/ imported' = Append(imported, [debtor |-> d, row |-> i])
         \/ \E c \in DOMAIN imported : imported[c].debtor = d /\ imported' = [imported EXCEPT ![c].row = i]
  BY DEF I!WriteRow, I!CasesOf
<1>2. d \in DOMAIN debtors => d \in I!Matches(rows[i])
  BY <1>0 DEF Progress
<1>3. new.email = rows[i].email /\ new.phone = rows[i].phone
  OBVIOUS
<1> HIDE DEF new
<1>4. debtors'[d] = new /\ \A e \in DOMAIN debtors \ {d} : debtors'[e] = debtors[e]
  <2>1. CASE worker[w].debtor = 0
    <3>1. debtors' = Append(debtors, new) /\ d = Len(debtors) + 1
      BY <1>1, <2>1
    <3> HIDE DEF d
    <3> QED BY <1>0, <3>1
  <2>2. CASE worker[w].debtor # 0
    <3>1. d \in DOMAIN debtors /\ debtors' = [debtors EXCEPT ![d] = new]
      BY <1>0, <1>1, <2>2
    <3> HIDE DEF d
    <3> QED BY <1>0, <3>1
  <2> QED BY <2>1, <2>2
<1> HIDE DEF d, i
<1>5. \E c : /\ c \in DOMAIN imported' /\ imported'[c].debtor = d /\ imported'[c].row = i
             /\ c \in DOMAIN imported => imported[c].debtor = d
             /\ DOMAIN imported' = DOMAIN imported \cup {c}
             /\ \A k \in DOMAIN imported \ {c} : imported'[k] = imported[k]
  <2>1. CASE imported' = Append(imported, [debtor |-> d, row |-> i])
    <3> PICK row : row = [debtor |-> d, row |-> i]
      OBVIOUS
    <3>1. imported' = Append(imported, row) /\ row.debtor = d /\ row.row = i
      BY <2>1
    <3> WITNESS Len(imported) + 1
    <3> QED BY <1>0, <3>1
  <2>2. ASSUME NEW c \in DOMAIN imported, imported[c].debtor = d, imported' = [imported EXCEPT ![c].row = i]
        PROVE  /\ c \in DOMAIN imported' /\ imported'[c].debtor = d /\ imported'[c].row = i
               /\ c \in DOMAIN imported => imported[c].debtor = d
               /\ DOMAIN imported' = DOMAIN imported \cup {c}
               /\ \A k \in DOMAIN imported \ {c} : imported'[k] = imported[k]
    <3>1. imported[c] \in ImportRow(Len(debtors))
      BY <1>0, <2>2
    <3> QED BY <1>0, <2>2, <3>1 DEF ImportRow
  <2> QED BY <1>1, <2>1, <2>2
<1> USE DEF i
<1> QED BY <1>2, <1>3, <1>4, <1>5

LEMMA WriteLands ==
  ASSUME ImportInv, NEW w \in Worker, I!WriteRow(w), Progress(worker[w]), Landed(worker[w].row - 1)
  PROVE  Landed(worker[w].row - 1)'
<1> PICK i : i = worker[w].row
  OBVIOUS
<1>1. PICK d, c :
        /\ d \in DOMAIN debtors => d \in I!Matches(rows[i])
        /\ debtors'[d].email = rows[i].email /\ debtors'[d].phone = rows[i].phone
        /\ \A e \in DOMAIN debtors \ {d} : debtors'[e] = debtors[e]
        /\ c \in DOMAIN imported' /\ imported'[c].debtor = d /\ imported'[c].row = i
        /\ c \in DOMAIN imported => imported[c].debtor = d
        /\ DOMAIN imported' = DOMAIN imported \cup {c}
        /\ \A k \in DOMAIN imported \ {c} : imported'[k] = imported[k]
  BY WrittenTo, ZenonT(40)
<1>2. /\ i \in Nat \ {0} /\ \A k \in DOMAIN imported : imported[k].row < i /\ imported[k].debtor \in DOMAIN debtors
      /\ \A k \in DOMAIN imported : imported[k].row \in Nat
  <2>1. i \in 1 .. MaxRows + 1 /\ MaxRows \in Nat
    BY CountedRow, RowsType DEF ImportInv
  <2>2. /\ DOMAIN debtors = 1 .. Len(debtors) /\ Len(debtors) \in Nat
    BY LenProperties DEF ImportInv
  <2>3. \A k \in DOMAIN imported : imported[k] \in ImportRow(Len(debtors))
    BY <2>2, MoreDebtors DEF ImportInv
  <2> QED BY <2>1, <2>2, <2>3 DEF Progress, ImportRow
<1>3. rows' = rows /\ worker'[w].row = i + 1
  BY DEF I!WriteRow, ImportInv
<1>4. HasLanded(i)'
  <2>1. {k \in DOMAIN imported' : imported'[k].row = i} = {c}
    BY <1>1, <1>2
  <2> QED BY <1>1, <1>3, <2>1 DEF HasLanded
<1>5. ASSUME NEW j \in 1 .. (i - 1), HasLanded(j), ~I!SharesIdentifier(rows[j], rows[i])
      PROVE  HasLanded(j)'
  <2>1. PICK k \in DOMAIN imported :
          /\ {n \in DOMAIN imported : imported[n].row = j} = {k}
          /\ debtors[imported[k].debtor].email = rows[j].email
          /\ debtors[imported[k].debtor].phone = rows[j].phone
    BY <1>5 DEF HasLanded
  <2>2. imported[k].debtor # d
    BY <1>1, <1>2, <1>5, <2>1 DEF I!Matches, I!SharesIdentifier
  <2>3. k # c /\ imported'[k] = imported[k] /\ k \in DOMAIN imported'
    BY <1>1, <2>2
  <2>4. debtors'[imported'[k].debtor] = debtors[imported[k].debtor]
    BY <1>1, <1>2, <2>2, <2>3
  <2>5. {n \in DOMAIN imported' : imported'[n].row = j} = {k}
    <3>1. j # i
      BY <1>2
    <3> QED BY <1>1, <2>1, <2>3, <3>1
  <2> QED BY <1>3, <2>1, <2>3, <2>4, <2>5 DEF HasLanded
<1>6. ASSUME NEW j \in 1 .. i, I!IsImportable(rows[j]),
             \A n \in j + 1 .. i : ~I!SharesIdentifier(rows[j], rows[n])
      PROVE  HasLanded(j)'
  <2>1. CASE j = i
    BY <1>4, <2>1
  <2>2. CASE j # i
    <3>1. j \in 1 .. (i - 1) /\ i \in j + 1 .. i /\ \A n \in j + 1 .. (i - 1) : n \in j + 1 .. i
      BY <1>2, <2>2
    <3>2. HasLanded(j)
      BY <1>6, <3>1 DEF Landed
    <3> QED BY <1>5, <1>6, <3>1, <3>2
  <2> QED BY <2>1, <2>2
<1>7. worker'[w].row - 1 = i
  BY <1>2, <1>3
<1> QED BY <1>3, <1>6, <1>7 DEF Landed, I!IsImportable, I!SharesIdentifier

\* Progress is about the row a worker has come to, and what has been written.
LEMMA ProgressKept ==
  ASSUME NEW w \in Worker, Progress(worker[w]), worker'[w] = worker[w],
         UNCHANGED <<rows, debtors, imported>>
  PROVE  Progress(worker[w])'
BY DEF Progress, NotImportable, Landed, HasLanded, I!IsImportable, I!SharesIdentifier, I!Matches

\* A worker that goes on to the next row.
LEMMA RowProgress ==
  ASSUME ImportInv, NEW w \in Worker, Progress(worker[w]),
         I!FindDebtor(w) \/ I!WriteRow(w) \/ I!RollBack(w)
  PROVE  Progress(worker[w])'
<1>i. PICK i, n : i = worker[w].row /\ n = i - 1
  OBVIOUS
<1>0. /\ worker \in [Worker -> I!WorkerRecord] /\ Fits(worker[w])
      /\ worker[w].errors \in Nat /\ worker[w].success \in Nat
      /\ \A k \in DOMAIN imported : imported[k].row \in Nat
  <2>1. worker[w].errors \in 0 .. MaxRows /\ worker[w].success \in 0 .. MaxRows
    BY CountedRow
  <2>2. \A k \in DOMAIN imported : imported[k] \in ImportRow(Len(debtors))
    BY LenProperties, MoreDebtors DEF ImportInv
  <2>3. MaxRows \in Nat
    BY RowsType DEF ImportInv
  <2> QED BY <2>1, <2>2, <2>3 DEF ImportInv, ImportRow
<1>n. i \in Nat /\ n \in Nat /\ n + 1 = i /\ (i + 1) - 1 = i
  <2>1. worker[w].row \in 1 .. MaxRows + 1
    BY CountedRow, SMTT(30)
  <2>2. MaxRows \in Nat
    BY RowsType DEF ImportInv
  <2> QED BY <1>i, <2>1, <2>2
<1>1. rows' = rows /\ \A m : NotImportable(m)' = NotImportable(m)
  BY DEF I!FindDebtor, I!WriteRow, I!RollBack, NotImportable, I!IsImportable
<1>2. /\ Cardinality(NotImportable(n)) \in Nat
      /\ Cardinality(NotImportable(i)) =
           IF I!IsImportable(rows[i]) THEN Cardinality(NotImportable(n))
                                      ELSE Cardinality(NotImportable(n)) + 1
  BY <1>n, RowsNotImportable
<1>3p. /\ worker[w].success = 0 => imported = <<>>
       /\ \A k \in DOMAIN imported : imported[k].row < i
       /\ worker[w].errors >= Cardinality(NotImportable(n))
       /\ worker[w].errors = Cardinality(NotImportable(n)) => Landed(n)
  BY <1>i DEF Progress
<1>3. CASE I!FindDebtor(w) /\ ~I!IsImportable(rows[i])
  <2>1. /\ worker'[w] = [worker[w] EXCEPT !.row = i + 1, !.errors = worker[w].errors + 1]
        /\ UNCHANGED <<debtors, imported>> /\ worker[w].at = "find"
    BY <1>0, <1>i, <1>3 DEF I!FindDebtor
  <2>2. /\ worker'[w].row = i + 1 /\ worker'[w].errors = worker[w].errors + 1
        /\ worker'[w].success = worker[w].success /\ worker'[w].at = "find"
    BY <1>0, <2>1 DEF I!WorkerRecord
  <2>3. worker[w].errors = Cardinality(NotImportable(n)) => Landed(i)
    BY <1>n, <1>3, <1>3p, SkipLands
  <2>4. Landed(i)' <=> Landed(i)
    BY <1>1, <2>1 DEF Landed, HasLanded, I!IsImportable, I!SharesIdentifier
  <2>5. \A k \in DOMAIN imported' : imported'[k].row < i + 1
    BY <1>0, <1>n, <1>3p, <2>1
  <2>6. /\ worker[w].errors + 1 >= Cardinality(NotImportable(i))
        /\ worker[w].errors + 1 = Cardinality(NotImportable(i)) => Landed(i)
    BY <1>0, <1>2, <1>3, <1>3p, <2>3
  <2> QED BY <1>n, <1>1, <1>3p, <2>1, <2>2, <2>4, <2>5, <2>6 DEF Progress
<1>4. CASE I!FindDebtor(w) /\ I!IsImportable(rows[i])
  <2>1. PICK d \in IF I!Matches(rows[i]) = {} THEN {0} ELSE I!Matches(rows[i]) :
          worker' = [worker EXCEPT ![w].at = "write", ![w].debtor = d]
    BY <1>i, <1>4 DEF I!FindDebtor
  <2>2. /\ worker'[w].row = i /\ worker'[w].errors = worker[w].errors /\ worker'[w].debtor = d
        /\ worker'[w].success = worker[w].success /\ worker'[w].at = "write"
        /\ UNCHANGED <<debtors, imported>>
    <3>1. UNCHANGED <<debtors, imported>>
      BY <1>4 DEF I!FindDebtor
    <3>2. worker[w] \in I!WorkerRecord
      BY <1>0
    <3>3. worker'[w] = [worker[w] EXCEPT !.at = "write", !.debtor = d]
      BY <1>0, <2>1
    <3> QED BY <1>i, <3>1, <3>2, <3>3 DEF I!WorkerRecord
  <2>3. /\ Landed(n)' <=> Landed(n)
        /\ I!Matches(rows[i])' = I!Matches(rows[i])
    BY <1>1, <2>2 DEF Landed, HasLanded, I!IsImportable, I!SharesIdentifier, I!Matches
  <2>4. 0 \notin DOMAIN debtors
    BY LenProperties DEF ImportInv
  <2>5. IF d = 0 THEN I!Matches(rows[i]) = {} ELSE d \in I!Matches(rows[i])
    BY <2>1, <2>4 DEF I!Matches
  <2> QED BY <1>0, <1>1, <1>i, <1>3p, <2>2, <2>3, <2>5 DEF Progress
<1>5. CASE I!WriteRow(w)
  <2>1. /\ worker'[w].row = i + 1 /\ worker'[w].errors = worker[w].errors
        /\ worker'[w].success = worker[w].success + 1 /\ worker'[w].at = "find"
    BY <1>0, <1>i, <1>5 DEF I!WriteRow, I!WorkerRecord
  <2>2. I!IsImportable(rows[i])
    BY <1>0, <1>i, <1>5 DEF I!WriteRow, Fits
  <2>3. \A k \in DOMAIN imported' : imported'[k].row < i + 1
    <3>1. PICK c : /\ imported'[c].row = i
                   /\ DOMAIN imported' = DOMAIN imported \cup {c}
                   /\ \A k \in DOMAIN imported \ {c} : imported'[k] = imported[k]
      BY <1>i, <1>5, WrittenTo
    <3> QED BY <1>0, <1>n, <1>3p, <3>1
  <2>4. worker[w].errors = Cardinality(NotImportable(n)) => Landed(i)'
    <3>1. worker[w].errors = Cardinality(NotImportable(n)) => Landed(worker[w].row - 1)'
      BY <1>5, <1>i, <1>3p, WriteLands
    <3>2. worker'[w].row - 1 = i
      BY <1>n, <2>1
    <3> QED BY <3>1, <3>2 DEF Landed
  <2> QED BY <1>0, <1>n, <1>1, <1>2, <1>3p, <2>1, <2>2, <2>3, <2>4 DEF Progress
<1>6. CASE I!RollBack(w)
  <2>1. /\ worker'[w].row = i + 1 /\ worker'[w].errors = worker[w].errors + 1
        /\ worker'[w].success = worker[w].success /\ worker'[w].at = "find"
        /\ UNCHANGED <<debtors, imported>>
    BY <1>0, <1>i, <1>6 DEF I!RollBack, I!WorkerRecord
  <2>2. I!IsImportable(rows[i])
    BY <1>0, <1>i, <1>6 DEF I!RollBack, Fits
  <2> QED BY <1>0, <1>n, <1>1, <1>2, <1>3p, <2>1, <2>2 DEF Progress
<1> QED BY <1>3, <1>4, <1>5, <1>6

LEMMA AtWorkStep ==
  ASSUME ImportInv, SoleWorker, AtWork, [Next]_vars
  PROVE  AtWork'
<1> SUFFICES ASSUME ~claimedTwice', NEW w \in Worker, worker'[w].at \in Working
             PROVE  Progress(worker[w])'
  BY DEF AtWork
<1>0. /\ worker \in [Worker -> I!WorkerRecord]
      /\ batch.status = "PENDING" => imported = <<>> /\ debtors = <<>>
  BY DEF ImportInv
<1>1. CASE worker'[w] = worker[w] /\ UNCHANGED <<rows, debtors, imported>>
  <2>1. ~claimedTwice
    BY WorkSteps DEF ImportInv
  <2> QED BY <1>1, <2>1, ProgressKept DEF AtWork
<1>2. ASSUME NEW v \in Worker,
             \/ I!BeginProcess(v) \/ I!Claim(v) \/ I!ReadSheet(v)
             \/ I!FindDebtor(v) \/ I!WriteRow(v) \/ I!RollBack(v)
             \/ I!Finish(v) \/ I!Fatal(v) \/ I!Crash(v)
      PROVE  Progress(worker[w])'
  <2>1. CASE I!BeginProcess(v) \/ I!Finish(v) \/ I!Fatal(v) \/ I!Crash(v)
    <3>1. worker'[v].at \notin Working
      <4>1. CASE I!BeginProcess(v)
        BY <1>0, <4>1 DEF I!BeginProcess, Working
      <4>2. CASE I!Finish(v) \/ I!Fatal(v) \/ I!Crash(v)
        <5>1. worker'[v] = [I!NewWorker EXCEPT !.at = "gone"]
          BY <1>0, <4>2 DEF I!Finish, I!Fatal, I!Crash
        <5> QED BY <5>1 DEF I!NewWorker, Working
      <4> QED BY <2>1, <4>1, <4>2
    <3>2. v # w /\ worker'[w] = worker[w] /\ UNCHANGED <<rows, debtors, imported>>
      BY <1>0, <2>1, <3>1 DEF I!BeginProcess, I!Finish, I!Fatal, I!Crash
    <3> QED BY <1>1, <3>2
  <2>2. CASE I!Claim(v)
    <3>1. CASE v # w
      BY <1>0, <1>1, <2>2, <3>1 DEF I!Claim
    <3>2. CASE v = w
      <4>1. /\ worker[w].read = "PENDING" /\ worker[w].row = 1 /\ worker[w].at = "seen"
            /\ worker[w].success + worker[w].errors = 0
            /\ worker[w].success \in Nat /\ worker[w].errors \in Nat
        BY <1>0, <2>2, <3>2 DEF I!Claim, ImportInv, Fits, I!WorkerRecord
      <4>2. imported = <<>> /\ imported' = imported
        BY <1>0, <2>2, <3>2, <4>1 DEF I!Claim
      <4>3. /\ worker'[w].row = 1 /\ worker'[w].errors = 0 /\ worker'[w].at = "claimed"
        BY <1>0, <2>2, <3>2, <4>1 DEF I!Claim, I!WorkerRecord
      <4>4. worker'[w].row - 1 = 0
        BY <4>3
      <4>5. Cardinality(NotImportable(worker[w].row - 1))' = 0
        <5>1. NotImportable(worker[w].row - 1)' = {}
          BY <4>4 DEF NotImportable
        <5> QED BY <5>1, FS_EmptySet
      <4>6. DOMAIN imported' = {} /\ Landed(worker[w].row - 1)'
        BY <4>2, <4>4 DEF Landed
      <4> QED BY <4>2, <4>3, <4>5, <4>6 DEF Progress
    <3> QED BY <3>1, <3>2
  <2>3. CASE I!ReadSheet(v)
    <3>1. CASE v # w
      BY <1>0, <1>1, <2>3, <3>1 DEF I!ReadSheet
    <3>2. CASE v = w
      <4>1. /\ worker'[w].row = worker[w].row /\ worker'[w].errors = worker[w].errors
            /\ worker'[w].success = worker[w].success /\ worker'[w].at = "find"
            /\ UNCHANGED <<rows, debtors, imported>>
        BY <1>0, <2>3, <3>2 DEF I!ReadSheet, I!WorkerRecord
      <4>2. Progress(worker[w])
        BY <2>3, <3>2 DEF I!ReadSheet, AtWork, Working
      <4> QED BY <4>1, <4>2 DEF Progress, NotImportable, Landed, HasLanded,
                               I!IsImportable, I!SharesIdentifier
    <3> QED BY <3>1, <3>2
  <2>4. CASE I!FindDebtor(v) \/ I!WriteRow(v) \/ I!RollBack(v)
    <3>1. ~claimedTwice /\ worker[v].at \in Working
      BY <2>4 DEF I!FindDebtor, I!WriteRow, I!RollBack, Working
    <3>2. v = w
      BY <1>0, <2>4, <3>1 DEF I!FindDebtor, I!WriteRow, I!RollBack, SoleWorker
    <3> QED BY <2>4, <3>1, <3>2, RowProgress DEF AtWork
  <2> QED BY <1>2, <2>1, <2>2, <2>3, <2>4
<1>3. ASSUME NEW stored \in BOOLEAN, I!Upload(stored)
      PROVE  Progress(worker[w])'
  BY <1>1, <1>3 DEF I!Upload
<1>4. CASE UNCHANGED imports
  BY <1>1, <1>4 DEF imports
<1>5. CASE I!Next
  BY <1>2, <1>3, <1>5 DEF I!Next
<1> QED BY <1>4, <1>5, PartSteps

\* What the worker has done by the last row is what the batch tells.
LEMMA FinishTells ==
  ASSUME ImportInv, SoleWorker, AtWork, NEW w \in Worker, I!Finish(w), ~claimedTwice
  PROVE  Told'
<1>0. /\ worker[w].at \in Working /\ worker[w].at = "find" /\ worker[w].row > Len(rows)
      /\ batch' = [batch EXCEPT !.status = I!Outcome(worker[w].errors),
                                !.success = worker[w].success, !.errors = worker[w].errors]
      /\ UNCHANGED <<rows, debtors, imported>> /\ batch \in I!BatchRecord
  BY DEF I!Finish, Working, ImportInv
<1>1. Progress(worker[w])
  BY <1>0 DEF AtWork
<1>2. PICK n : n = Len(rows)
  OBVIOUS
<1>3. /\ n \in Nat /\ worker[w].row - 1 = n /\ DOMAIN rows = 1 .. n
      /\ worker[w].success \in Nat /\ worker[w].errors \in Nat
      /\ worker[w].success + worker[w].errors = n
  <2>1. /\ MaxRows \in Nat /\ Len(rows) \in 0 .. MaxRows /\ DOMAIN rows = 1 .. Len(rows)
    BY RowsType DEF ImportInv
  <2>2. /\ worker[w].row \in 1 .. MaxRows + 1 /\ worker[w].success \in 0 .. MaxRows
        /\ worker[w].errors \in 0 .. MaxRows
        /\ worker[w].success + worker[w].errors = worker[w].row - 1
    BY CountedRow
  <2>3. worker[w].row <= Len(rows) + 1
    BY DEF ImportInv, Fits
  <2> QED BY <1>0, <1>2, <2>1, <2>2, <2>3, SMTT(30)
<1>4. batch'.status = I!Outcome(worker[w].errors) /\ batch'.errors = worker[w].errors
  BY <1>0 DEF I!BatchRecord
<1>5. I!FailedLeavesNothing'
  <2> SUFFICES ASSUME batch'.status = "FAILED"
               PROVE  imported' = <<>>
    BY DEF I!FailedLeavesNothing
  <2>1. worker[w].errors = n
    BY <1>2, <1>4 DEF I!Outcome
  <2> QED BY <1>0, <1>1, <1>3, <2>1 DEF Progress
<1>6. I!EveryRowLands'
  <2> SUFFICES ASSUME (batch.errors = I!Cardinality({i \in DOMAIN rows : ~I!IsImportable(rows[i])}))',
                      NEW j \in DOMAIN rows', I!IsImportable(rows[j])',
                      (\A k \in j + 1 .. Len(rows) : ~I!SharesIdentifier(rows[j], rows[k]))'
               PROVE  HasLanded(j)'
    BY Zenon DEF I!EveryRowLands, HasLanded
  <2>1. {i \in DOMAIN rows' : ~I!IsImportable(rows[i])'} = NotImportable(n)
    BY <1>0, <1>3 DEF NotImportable, I!IsImportable
  <2>2. worker[w].errors = Cardinality(NotImportable(n))
    BY <1>4, <2>1, SameCardinality
  <2>3. Landed(n)
    BY <1>1, <1>3, <2>2 DEF Progress
  <2>4. I!IsImportable(rows[j]) /\ \A k \in j + 1 .. n : ~I!SharesIdentifier(rows[j], rows[k])
    BY <1>0, <1>2 DEF I!IsImportable, I!SharesIdentifier
  <2>5. HasLanded(j)
    BY <1>0, <1>3, <2>3, <2>4 DEF Landed
  <2> QED BY <1>0, <2>5 DEF HasLanded
<1> QED BY <1>5, <1>6 DEF Told

LEMMA ToldStep ==
  ASSUME ImportInv, SoleWorker, AtWork, Told, [Next]_vars
  PROVE  Told'
<1> SUFFICES ASSUME ~claimedTwice' PROVE Told'
  BY DEF Told, I!EveryRowLands, I!FailedLeavesNothing
<1>0. ~claimedTwice /\ batch \in I!BatchRecord /\ worker \in [Worker -> I!WorkerRecord]
  BY WorkSteps DEF ImportInv
<1>1. ASSUME UNCHANGED <<rows, debtors, imported>>, batch'.status = batch.status,
             batch'.errors = batch.errors, broken => broken'
      PROVE  Told'
  BY <1>0, <1>1 DEF Told, I!EveryRowLands, I!FailedLeavesNothing, I!IsImportable, I!SharesIdentifier
<1>2. ASSUME batch'.status \in {"PENDING", "PROCESSING"}
      PROVE  Told'
  BY <1>2 DEF Told, I!EveryRowLands, I!FailedLeavesNothing
<1>3. ASSUME batch'.status = "FAILED", imported' = <<>> \/ broken'
      PROVE  Told'
  BY <1>3 DEF Told, I!EveryRowLands, I!FailedLeavesNothing
<1>4. ASSUME NEW stored \in BOOLEAN, I!Upload(stored)
      PROVE  Told'
  <2>1. imported' = <<>> /\ batch'.status \in {"PENDING", "FAILED"}
    BY <1>0, <1>4 DEF I!Upload, ImportInv, I!BatchRecord
  <2> QED BY <1>2, <1>3, <2>1
<1>5. ASSUME NEW w \in Worker, I!BeginProcess(w) \/ I!Crash(w)
      PROVE  Told'
  BY <1>1, <1>5 DEF I!BeginProcess, I!Crash
<1>6. ASSUME NEW w \in Worker, I!Claim(w) \/ I!ReadSheet(w) \/ I!FindDebtor(w) \/ I!WriteRow(w) \/ I!RollBack(w)
      PROVE  Told'
  <2>1. batch'.status = "PROCESSING"
    <3>1. CASE I!Claim(w)
      BY <1>0, <3>1 DEF I!Claim, I!BatchRecord
    <3>2. CASE I!ReadSheet(w) \/ I!FindDebtor(w) \/ I!WriteRow(w) \/ I!RollBack(w)
      <4>1. batch.status = "PROCESSING" /\ batch'.status = batch.status
        BY <1>0, <3>2 DEF I!ReadSheet, I!FindDebtor, I!WriteRow, I!RollBack, SoleWorker, Working, I!BatchRecord
      <4> QED BY <4>1
    <3> QED BY <1>6, <3>1, <3>2
  <2> QED BY <1>2, <2>1
<1>7. ASSUME NEW w \in Worker, I!Fatal(w)
      PROVE  Told'
  BY <1>0, <1>3, <1>7 DEF I!Fatal, I!BatchRecord
<1>8. CASE UNCHANGED imports
  BY <1>1, <1>8 DEF imports
<1>9. CASE I!Next
  BY <1>0, <1>4, <1>5, <1>6, <1>7, <1>9, FinishTells DEF I!Next
<1> QED BY <1>8, <1>9, PartSteps

LEMMA ImportsBegin ==
  ASSUME Init PROVE SoleWorker /\ AtWork /\ Told
<1>1. \A w \in Worker : worker[w].at \notin Working
  <2>1. I!Init
    BY DEF Init
  <2> QED BY <2>1 DEF I!Init, I!NewWorker, Working
<1>2. batch.status = "PENDING"
  BY DEF Init, I!Init
<1> QED BY <1>1, <1>2 DEF SoleWorker, AtWork, Told, I!EveryRowLands, I!FailedLeavesNothing

\* A completed batch that one request processed without a refusal of the database has a
\* case for each importable row that no later row touches, with its identifiers; one that
\* failed, no server having died, has left none.
THEOREM BatchTells == Spec => []BatchTellsAll
<1>1. Init => ImportInv /\ SoleWorker /\ AtWork /\ Told
  BY ImportInit, ImportsBegin
<1>2. ImportInv /\ SoleWorker /\ AtWork /\ Told /\ [Next]_vars
        => ImportInv' /\ SoleWorker' /\ AtWork' /\ Told'
  BY ImportStep, SoleStep, AtWorkStep, ToldStep
<1>3. Told => BatchTellsAll
  BY DEF Told, BatchTellsAll
<1> QED BY <1>1, <1>2, <1>3, PTL DEF Spec

\* Each part stays in the types of its tables, whichever the behaviour is about.
THEOREM BackOfficeTypeCorrect == Spec => []TypeOK
<1> DEFINE Inv == AccountsType /\ Fresh /\ RowIsThere /\ MemberInv /\ ImportInv /\ BoardInv /\ ActivityInv
<1>1. Init => Inv
  BY AccountsInit, MemberInit, ImportInit, BoardInit, ActivityInit
<1>2. Inv /\ [Next]_vars => Inv'
  BY AccountsStep, FoundStep, MemberStep, ImportStep, BoardStep, ActivityStep
<1>3. Inv => TypeOK
  BY ImportTyped, ActivityTyped DEF TypeOK, AccountsType, MemberInv, BoardInv
<1> QED BY <1>1, <1>2, <1>3, PTL DEF Spec
=============================================================================
