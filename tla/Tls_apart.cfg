SPECIFICATION Spec
CONSTANTS
  Thread = {1, 2, 3}
  HASH_SIZE = 2
  page_size = 2
  UINT = 8
  Sizes = {3}
  Offsets = {1}
  Lengths = {2}
  Bytes = {"o", "x"}
  Zero = "o"
  Written = {"x"}
  MaxElements = 3
  MaxPages = 4
  KeptApart = {"bucket", "pages"}
  MallocReuses = FALSE
  Strays = {3}
INVARIANTS TypeOK RefCountsExact ProtectedAtRest CallsNeverFault
PROPERTY KeepsLocal
