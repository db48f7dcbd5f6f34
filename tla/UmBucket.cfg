CONSTANTS
  Threads = {t1, t2}
  Keys = {k1, k2}
  NoKey = NoKey
  Tags = {a, b}
  Zero = Zero
  NumSlots = 2
  NumWords = 2
  MaxVersion = 2
SPECIFICATION HSpec
SYMMETRY Symmetry
INVARIANTS
  TypeOK
  SlotOwnership
  ReadersSeeOneVersion
  PublishedEntriesAreWhole
  ReturnedContextsAreWhole
PROPERTIES
  StableUnlessLocked
  HitsAreCurrent
  ContainsMissWasAbsent
