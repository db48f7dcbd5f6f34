CONSTANTS
  t1 = t1
  t2 = t2
  d1 = d1
  Threads = {t1, t2}
  Dpcs = {}
  CoreOf <- OwnCores
  Keys = {k1, k2}
  NoKey = NoKey
  Tags = {a}
  Zero = Zero
  NumSlots = 2
  NumWords = 1
  MaxSeq = 3
SPECIFICATION Spec
SYMMETRY ThreadSymmetry
INVARIANTS
  TypeOK
  WordCountsOwners
