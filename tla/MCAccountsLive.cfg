CONSTANTS
  Request = {r1, r2, r3}
  Email = {e1, e2}
  Password = {dummy}
  DummyPassword = dummy
  Subject = {s1}
  Wallet = {w1}
  LegacyWallet = {}
  PoolSize = 2
  None = None
SPECIFICATION Spec
PROPERTIES
  EveryRequestAnswered
  ImplementsRegistry
\* Each request is handled once, so an instance comes to an end.
CHECK_DEADLOCK FALSE
