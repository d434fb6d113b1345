\* Two processes opening, creating and closing two names, one of them
\* present at boot; four icache slots.  No symmetry: the run checks liveness.
CONSTANTS
  p1 = p1
  p2 = p2
  n1 = n1
  n2 = n2
  NoProc = NoProc
  NoName = NoName
  Procs = {p1, p2}
  Names = {n1, n2}
  InitNames = {n1}
  NINODE = 4
  NFILE = 1
  NOFILE = 1
  MaxFiles = 2
  MaxRef = 3
SPECIFICATION FairSpec

INVARIANT TypeOK
INVARIANT RefsCoverHolders
PROPERTY OpenReturns
\* A kernel panic (iget: no type) halts every process.
CHECK_DEADLOCK FALSE
