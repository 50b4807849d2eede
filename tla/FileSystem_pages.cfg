SPECIFICATION Spec
CONSTANTS
  DISK_BLOCKS = 10
  BLOCK_SIZE = 2
  MAX_F_NUM = 2
  MAX_FILDES = 2
  MAX_F_SIZE = 3
  IntsPerBlock = 5
  Names = {f, g}
  Bytes = {"o", "x", "y"}
  Zero = "o"
  Junk = "junk"
  Buffers <- OneBuffer
  Counts = {1, 3}
  Lengths = {}
  Careless = FALSE
VIEW StateView
PROPERTY KeepsStore
