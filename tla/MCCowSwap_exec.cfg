\* exec in one process under memory pressure (four frames): vspacecopy's
\* kalloc evicts frames the old and the temporary page tables still map.
CONSTANTS
  p1 = p1
  p2 = p2
  p3 = p3
  Procs = {p1}
  InitProc = p1
  NFrames = 4
  NSlots = 4
  NHeap = 1
  NStack = 2
  LowWater = 1
  Vals = {0, 1}
SPECIFICATION SpecExec
INVARIANT ViewConsistent
\* Once every process has exited nothing is left to run: the scheduler idles.
CHECK_DEADLOCK FALSE
