CONSTANTS
  a = a
  b = b
  t = t
  u = u
  Connection = {a, b}
  Text = {t}
  Project = {"pip", "home"}
  None = None
  MaxRow = 2
  MaxCandidate = 2
SPECIFICATION Spec
SYMMETRY Alike
INVARIANTS TypeOK SerialLogIsUnique PromotedIsLogged
PROPERTY AnswerStands
