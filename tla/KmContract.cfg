CONSTANTS
  Threads = {t1, t2}
  Dpcs = {}
  CoreOf <- OwnCores
  Keys = {k1, k2, k3}
  NoKey = NoKey
  Tags = {a}
  Zero = Zero
  NumSlots = 2
  NumWords = 2
  MaxSeq = 4
SPECIFICATION CDisciplinedSpec
SYMMETRY Symmetry
CONSTRAINT FewLocks
INVARIANTS
  SlotOwnership
  PublishedEntriesAreWhole
  ReturnedContextsAreWhole
PROPERTIES
  ImplementsContract
