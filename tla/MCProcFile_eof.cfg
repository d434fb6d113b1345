\* A pipe's write-end slot reused by open keeps its reader asleep.
CONSTANTS
  NPROC = 2
  NFILE = 2
  NOFILE = 2
  NPIPE = 1
  SIZE = 1
  IntBits = 2
  MaxN = 1
SPECIFICATION Spec
INVARIANT ReaderHasWriter
\* Every process may sleep on a pipe nobody will write: the kernel then idles.
CHECK_DEADLOCK FALSE
