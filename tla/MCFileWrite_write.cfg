\* One file, two open slots, three 2-block extents: writes, overwrites
\* through a second offset, reads, every transaction through the log,
\* and a crash between any two disk writes, recovery included.
CONSTANTS
  EXTB = 2
  EXTENT_N = 3
  NGROUP = 3
  Fds = {f1, f2}
  Tags = {t1}
  MaxW = 2
  MaxFile = 3
  LOGSIZE = 2
  f1 = f1
  f2 = f2
  t1 = t1
  t2 = t2
SPECIFICATION Spec
VIEW View
INVARIANT TypeOK
INVARIANT ExtentsOwned
INVARIANT InodeSynced
INVARIANT CacheCoherent
PROPERTY LogAtomic
