SPECIFICATION Spec
CONSTANTS
  Threads = {t1, t2}
  Keys = {k1, k2}
  BlockSize = 2
  None = None
  MaxRestarts = 1
SYMMETRY MetaSymmetry
INVARIANT FileRecordSurvives
