\* Copy-on-write fork without memory pressure: kalloc never evicts.
CONSTANTS
  p1 = p1
  p2 = p2
  p3 = p3
  Procs = {p1, p2}
  InitProc = p1
  NFrames = 3
  NSlots = 1
  NHeap = 1
  NStack = 2
  LowWater = 0
  Vals = {0, 1}
SPECIFICATION Spec
INVARIANT ViewConsistent
INVARIANT RefCountExact
INVARIANT NoSharedWritable
\* Once every process has exited nothing is left to run: the scheduler idles.
CHECK_DEADLOCK FALSE
