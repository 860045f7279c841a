CONSTANTS
  Send = {s1}
  Fetch = {f1, f2}
  Recipient = {p1}
  Amount = {1, 2}
  Funds = 3
  None = None
SPECIFICATION FairSpec
PROPERTIES
  PaymentsAreShown
  SheetComesBack
