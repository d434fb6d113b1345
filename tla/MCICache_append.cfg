\* Two processes opening, creating and closing two names, one of them
\* present at boot; four icache slots, enough that iget never runs out.
CONSTANTS
  p1 = p1
  p2 = p2
  n1 = n1
  n2 = n2
  NoProc = NoProc
  NoName = NoName
  Procs = {p1, p2}
  Names = {n1, n2}
  InitNames = {n1, n2}
  NINODE = 4
  NFILE = 2
  NOFILE = 1
  MaxFiles = 3
  MaxRef = 4
SPECIFICATION Spec




PROPERTY DirentsAppendOnly
\* A kernel panic, or a write the model does not follow, halts every process.
CHECK_DEADLOCK FALSE
