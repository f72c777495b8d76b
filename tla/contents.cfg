SPECIFICATION ContentsSpec
CONSTANTS
  None = None
  Cell = {c1, c2}
  CellBlock = {b1, b2}
  CellValue = {"empty", "short", "long", "huge"}
  Number = {"int"}
  CellLen <- MCLen
  CellHead <- MCHead
  MaxOf <- MCMaxOf
  Hdr = 1
  Ptr = 2
  LocalRoom = 8
  Slack = 0
  CellKind <- MCKind
  ElemSize = 4
  ElemValue = {"p", "q"}
  MaxInline = 2
  TreeAddr = {1, 2, 3, 4, 5, 6, 7}
  Root = 1
  TreeKind = {"field", "list"}
  Name = {"a"}
  Tag = {"t"}
  Datum = {"1"}
  Repush = FALSE
  Loaded <- MCLoaded
  Calls = 3
  Object = {o1, o2, o3}
  Heap = {h1, h2, h3}
  ObjectBlock = {1, 2, 3, 4}
  CopyRefused = FALSE
  Small = 4
  Full = 8
  Wide = 16
  Word = 64
  FieldValue = {4, 16}
  FieldSize = {1, 3}
  MaxItems = 2
SYMMETRY Twins
CHECK_DEADLOCK FALSE
INVARIANTS CellSound ElemSound TreeSound  FieldReadsBack
PROPERTIES ElemImplements TreeImplements
