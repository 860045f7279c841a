CONSTANTS
  Request = {r1, r2, r3}
  Earlier = {d1, d2}
  Discovery <- MCDiscovery
  Company = {c1, c2}
  Hash = {h1, h2, h3}
  Purchase <- MCPurchase
  Wallet = {w1, w2}
  Malformed = Malformed
  Unlisted = Unlisted
  Traded = {c1}
  Limit = {2}
  MaxLimit = 1
  PoolSize = 2
  None = None
  h1 = h1
  h2 = h2
  h3 = h3
  w1 = w1
  w2 = w2
  c1 = c1
  c2 = c2
  d1 = d1
  d2 = d2
  r1 = r1
  Asked <- MCAsked
SPECIFICATION Spec
INVARIANTS
  TypeOK
  RecordedOnce
  ClaimedByPurchase
  WorldIsCurrent
PROPERTIES
  EveryRequestAnswered
  ImplementsBook
\* Each request is handled once, so an instance comes to an end.
CHECK_DEADLOCK FALSE
