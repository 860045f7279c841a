CONSTANTS
  Request = {r1, r2, r3, r4}
  Email = {e1, e2}
  Password = {p1, dummy}
  DummyPassword = dummy
  Subject = {s1, s2}
  Wallet = {w1, w2}
  LegacyWallet = {w1}
  PoolSize = 2
  None = None
SPECIFICATION Spec
INVARIANTS
  TypeOK
  UniqueKeys
  EveryAccountReachable
  SessionsMatchCredentials
  RepliesStayTrue
  EndedSessionsRefused
SYMMETRY Symmetry
\* Each request is handled once, so an instance comes to an end.
CHECK_DEADLOCK FALSE
