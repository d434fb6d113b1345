\* Two processes sharing one pipe page: fork, dup, close, exit, wait, kill,
\* blocking reads and writes on a one-byte buffer.
CONSTANTS
  NPROC = 2
  NFILE = 2
  NOFILE = 2
  NPIPE = 1
  SIZE = 1
  IntBits = 2
  MaxN = 2
SPECIFICATION Spec
INVARIANT FileRefsExact
INVARIANT PipeEndsLive
INVARIANT SleepingWriterFull
\* Every process may sleep on a pipe nobody will write: the kernel then idles.
CHECK_DEADLOCK FALSE
