CONSTANTS
  a = a
  b = b
  editor = editor
  python = python
  x = x
  y = y
  Connection = {a}
  Field = {python}
  Gated = {python}
  Value = {x, y}
  None = None
  Week = {2, 4}
  Frequency = 2
  SampleSize = 1
  TriggerSessions = 1
  MaxSession = 2
  MaxQuestion = 2
SPECIFICATION Spec
SYMMETRY Alike
INVARIANTS TypeOK AskedOnce
PROPERTY AnswerStands
