CONSTANTS
  BUFFER_SIZE = 3
  Char = {"cr", "lf"}
  CR = "cr"
  LF = "lf"
  RX_FIFO = 1
SPECIFICATION FairSpec
PROPERTY ImplementsFifo
