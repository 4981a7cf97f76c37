SPECIFICATION StoreSpec
CONSTANTS
  u1 = u1  u2 = u2  base = base  dirty1 = dirty1  dirty2 = dirty2
  alpha = alpha  t1 = t1  t2 = t2  t3 = t3  t4 = t4
  Uploaders = {u1, u2}
  Pages = {base, dirty1, dirty2}
  Ids = {alpha}
  Tmps = {t1, t2, t3, t4}
  Inodes = {1, 2, 3, 4, 5, 6, 7, 8, 9, 10}
  Hole = Hole  NoFile = NoFile  CutShort = CutShort
  IdOf <- MCIdOf
  TmpOf <- MCTmpOf
  Modes <- MCOverlapping
INVARIANT NeverHalfWritten
