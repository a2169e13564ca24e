CONSTANTS
  a = a
  b = b
  w = w
  v = v
  Worker = {w, v}
  CatchUp = "catchUp"
  Path <- SmallPath
  Content = {a, b}
  Chunks <- SmallChunks
  None = None
  OwnDir = "root"
  MaxChunk = 2
  MaxRequest = 2
  MaxEdit = 2
  MaxStart = 2
  MaxFail = 2
SPECIFICATION Spec
SYMMETRY Alike
INVARIANTS TypeOK IndexAgrees BytesAreIndexed StartRepairs DocumentsComeBack
CHECK_DEADLOCK FALSE
