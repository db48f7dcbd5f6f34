CONSTANTS
  Threads = {t1, t2}
  Keys = {k1, k2}
  NoKey = NoKey
  Tags = {a}
  Zero = Zero
  NumSlots = 2
  NumWords = 1
  MaxVersion = 2
SPECIFICATION Spec
SYMMETRY Symmetry
INVARIANTS
  NoDuplicateKeys
