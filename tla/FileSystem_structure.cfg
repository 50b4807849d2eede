SPECIFICATION Spec
CONSTANTS
  DISK_BLOCKS = 6
  BLOCK_SIZE = 1
  MAX_F_NUM = 2
  MAX_FILDES = 2
  MAX_F_SIZE = 2
  IntsPerBlock = 6
  Names = {f, g, h}
  Bytes = {"o"}
  Zero = "o"
  Junk = "junk"
  Buffers <- ZeroPair
  Counts = {0, 2}
  Lengths = {0, 1}
  Careless = TRUE
VIEW StructureView
SYMMETRY NameSymmetry
INVARIANTS TypeOK NoCrossLinks NoLeak RefCounts ChainFitsBuffer OffsetInFile
