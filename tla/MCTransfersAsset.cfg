CONSTANTS
  Send = {s1}
  Fetch = {f1}
  Recipient = {p1}
  Amount = {1}
  Funds = 3
  None = None
SPECIFICATION Spec
PROPERTY AssetAsConfirmed
