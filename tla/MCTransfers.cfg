CONSTANTS
  Send = {s1, s2}
  Fetch = {f1, f2}
  Recipient = {p1}
  Amount = {1, 2}
  Funds = 3
  None = None
SPECIFICATION Spec
INVARIANTS
  TypeOK
  PaidAsConfirmed
  SentMeansPaid
PROPERTY NeverBackwards
SYMMETRY Symmetry
