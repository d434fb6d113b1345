\* Four processes with one descriptor each: fork trees, exits that
\* reparent to initcode, waits, kills, and a shared open file.
CONSTANTS
  NPROC = 4
  NFILE = 1
  NOFILE = 1
  NPIPE = 1
  SIZE = 1
  IntBits = 2
  MaxN = 1
SPECIFICATION Spec
INVARIANT ZombieReparented
PROPERTY WaitReturns
\* Every process may sleep on a pipe nobody will write: the kernel then idles.
CHECK_DEADLOCK FALSE
