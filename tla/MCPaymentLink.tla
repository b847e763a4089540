--------------------------- MODULE MCPaymentLink ---------------------------
(***************************************************************************)
(* Small instances of PaymentLink for TLC.                                 *)
(***************************************************************************)
EXTENDS PaymentLink, TLC

PortalSymmetry == Permutations(Request) \cup Permutations(Link) \cup Permutations(Dispute)
                  \cup Permutations(Key)
=============================================================================
