CONSTANTS
  Task = {t1, t2, t3, t4}
  User = {u1}
  ForeignWallet = {f}
  None = None
SPECIFICATION Spec
INVARIANTS
  TradingNeedsBinding
SYMMETRY Symmetry
\* The number of handler runs is bounded, so an instance comes to an end.
CHECK_DEADLOCK FALSE
