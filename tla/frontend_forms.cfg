SPECIFICATION Spec
CONSTANTS
  Accounts = {a1, a2}
  Tasks = {t1, t2}
  Depositors = {a1}
  MaxConnects = 1
  MaxAmount = 2
  Slippage = 1
  None = None
SYMMETRY Alike
INVARIANTS
  AllowanceBounded
  EnoughToSpend
  OnePerModal
  ButtonsComeBack
PROPERTY MovesForItsClick
