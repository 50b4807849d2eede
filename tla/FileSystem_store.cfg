SPECIFICATION Spec
CONSTANTS
  DISK_BLOCKS = 7
  BLOCK_SIZE = 1
  MAX_F_NUM = 2
  MAX_FILDES = 2
  MAX_F_SIZE = 2
  IntsPerBlock = 7
  Names = {f, g}
  Bytes = {"o", "x", "y"}
  Zero = "o"
  Junk = "junk"
  Buffers <- TwoLetters
  Counts = {2}
  Lengths = {}
  Careless = FALSE
VIEW StateView
INVARIANT HasRoom
PROPERTY KeepsStore
