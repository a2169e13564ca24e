CONSTANTS
  a = a
  b = b
  editor = editor
  python = python
  x = x
  y = y
  Connection = {a}
  Field = {editor}
  Gated = {}
  Value = {x, y}
  None = None
  Week = {2, 4, 6}
  Frequency = 2
  SampleSize = 1
  TriggerSessions = 2
  MaxSession = 2
  MaxQuestion = 0
SPECIFICATION Spec
SYMMETRY Alike
INVARIANTS SerialWordStands InferenceIsRepeated
