CONSTANTS
  Handle = {3, 4, 5}
  Node = {"t", "r", "d", "u", "b"}
  Kind <- MCKind
  Archived <- MCArchived
  Buffers <- MCBuffers
  THREAD_MAX_FD = 5
  Lengths = {0, 2, 15}
  Offsets <- MCOffsets
  Byte = {"x", "y", "j"}
  JUNK = "j"
  DEFAULT_FILE_SIZE = 1
  MAX_ALLOC = 4
  LONG = 8
SPECIFICATION Spec
INVARIANT SizeFits
PROPERTY ImplementsByteFile
