\* One open file written sequentially: a two-block append, read back.
CONSTANTS
  EXTB = 2
  EXTENT_N = 3
  NGROUP = 3
  Fds = {f1}
  Tags = {t1, t2}
  MaxW = 2
  MaxFile = 3
  LOGSIZE = 2
  f1 = f1
  f2 = f2
  t1 = t1
  t2 = t2
SPECIFICATION Spec
INVARIANT ReadBack
