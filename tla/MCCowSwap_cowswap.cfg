\* Copy-on-write fork together with eviction and swap-in (two processes, three frames).
CONSTANTS
  p1 = p1
  p2 = p2
  p3 = p3
  Procs = {p1, p2}
  InitProc = p1
  NFrames = 3
  NSlots = 3
  NHeap = 1
  NStack = 2
  LowWater = 1
  Vals = {0, 1}
SPECIFICATION Spec
INVARIANT RefCountExact
\* Once every process has exited nothing is left to run: the scheduler idles.
CHECK_DEADLOCK FALSE
