\* One process under memory pressure: sbrk, stack growth, eviction, swap-in.
CONSTANTS
  p1 = p1
  p2 = p2
  p3 = p3
  Procs = {p1}
  InitProc = p1
  NFrames = 3
  NSlots = 4
  NHeap = 1
  NStack = 2
  LowWater = 1
  Vals = {0, 1}
SPECIFICATION Spec
INVARIANT TypeOK
INVARIANT ViewConsistent
INVARIANT RefCountExact
INVARIANT FreePagesAccurate
INVARIANT KAllocReturns
\* Once every process has exited nothing is left to run: the scheduler idles.
CHECK_DEADLOCK FALSE
