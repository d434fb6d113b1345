\* A killed parent blocked in wait never exits while its child runs.
CONSTANTS
  NPROC = 3
  NFILE = 1
  NOFILE = 1
  NPIPE = 1
  SIZE = 1
  IntBits = 2
  MaxN = 1
SPECIFICATION Spec
PROPERTY KilledExits
\* Every process may sleep on a pipe nobody will write: the kernel then idles.
CHECK_DEADLOCK FALSE
