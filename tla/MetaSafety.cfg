\* Three keys for two inode numbers in blocks of one: numbers leak when an
\* insertion is lost, and the bitmap runs out before every key has one.
SPECIFICATION Spec
CONSTANTS
  Threads = {t1, t2}
  Keys = {k1, k2, k3}
  BlockSize = 1
  None = None
  MaxRestarts = 1
SYMMETRY MetaSymmetry
INVARIANTS TypeOK FreshInodesUnique ToldAgree CreatedOnce
PROPERTIES KeysKeepInodes
