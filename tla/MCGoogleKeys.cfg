CONSTANTS
  Request = {r1, r2, r3}
  Key = {k1, k2}
  Timeout = 1
  MaxTtl = 1
  Expiry = {2}
  Horizon = 3
  None = None
SPECIFICATION Spec
INVARIANTS
  TypeOK
  WithdrawnKeyExpires
  PublishedKeyFound
  ExpiredTokenBound
SYMMETRY Symmetry
\* Each request is made once and the clock stops at Horizon.
CHECK_DEADLOCK FALSE
