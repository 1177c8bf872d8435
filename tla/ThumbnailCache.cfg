\* Two threads, three pictures of two files, and room for two of them.
CONSTANTS
  f1 = f1  f2 = f2  n1 = n1  n2 = n2  n3 = n3  t1 = t1  t2 = t2
  None = None
  Files = {f1, f2}
  Nonces = {n1, n2, n3}
  FileOf <- MCFileOf
  Threads = {t1, t2}
  MaxSize = 2
  Ttl = 1
SYMMETRY AnyThread
SPECIFICATION Spec
INVARIANTS PictureMatches HitsAreFresh LeastRecentlyUsed
CHECK_DEADLOCK FALSE
