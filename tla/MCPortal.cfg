\* One link, two requests at once.
SPECIFICATION Spec
CONSTANTS
  Link = {l1}
  Request = {r1, r2}
  Dispute = {d1, d2}
  Key = {k1, k2}
  None = None
  MaxTries = 2
  MaxKeys = 1
  MaxWrong = 3
SYMMETRY PortalSymmetry
INVARIANTS TypeOK VerifiedNeedsMatch TriesBounded
PROPERTIES ClosedStays EvidenceKept
CHECK_DEADLOCK FALSE
