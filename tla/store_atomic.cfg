SPECIFICATION Spec
CONSTANTS
  Saver = {1, 2}
  Process = {1, 2}
  Home <- ProcessEach
  Tid <- ThreadIds
  Loader = {1}
  Image = {v, w}
  Inode = {1, 2, 3, 4, 5, 6, 7, 8}
  Parts = 2
  MaxTries = 1
  FlockMayFail = TRUE
  FlushMayFail = FALSE
  MayCrash = TRUE
  None = None
  Nil = Nil
VIEW View
SYMMETRY Images
INVARIANTS TypeOK StoreWhole ReaderWhole
PROPERTIES Implements
