---------------------------- MODULE MCCollectionFlow ----------------------------
(***************************************************************************)
(* CollectionFlow from fewer initial states: the PMS begins with leases    *)
(* that it lists alike, until an edit tells them apart, and with charges   *)
(* that are open.                                                          *)
(***************************************************************************)
EXTENDS CollectionFlow

MCInit ==
  /\ Init
  /\ \A l, k \in Lease : items[l] = items[k]
  /\ part = "ledger" => \A c \in Charge : unpaid[c].open > 0
MCSpec == MCInit /\ [][Next]_vars
=============================================================================
