------------------------------ MODULE SyncSlot ------------------------------
(***************************************************************************)
(* What a PMS sync promises (PMS_SYNC_CANON, section 5): a connection has  *)
(* one active sync, and only that sync writes the canonical tables.  A     *)
(* sync whose process died keeps the slot.                                 *)
(***************************************************************************)
CONSTANTS Sync, Table, NoSync

VARIABLES
  slot,    \* the sync that is active
  writer   \* the sync that last wrote each table

vars == <<slot, writer>>

Init == slot = NoSync /\ writer = [t \in Table |-> NoSync]

Begin(s) == slot = NoSync /\ slot' = s /\ UNCHANGED writer

\* Each table is written in a transaction of its own.
Write(s, t) == slot = s /\ writer' = [writer EXCEPT ![t] = s] /\ UNCHANGED slot

End(s) == slot = s /\ slot' = NoSync /\ UNCHANGED writer

Next == \E s \in Sync : Begin(s) \/ End(s) \/ \E t \in Table : Write(s, t)

Spec == Init /\ [][Next]_vars
=============================================================================
