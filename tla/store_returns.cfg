SPECIFICATION FairSpec
CONSTANTS
  Saver = {1, 2}
  Process = {1, 2}
  Home <- ProcessEach
  Tid <- FirstThreads
  Loader = {}
  Image = {v}
  Inode = {1, 2, 3, 4, 5, 6, 7}
  Parts = 1
  MaxTries = 1
  FlockMayFail = FALSE
  FlushMayFail = FALSE
  MayCrash = FALSE
  None = None
  Nil = Nil
VIEW View
PROPERTIES SavesEnd
