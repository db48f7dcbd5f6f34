CONSTANTS
  t1 = t1
  t2 = t2
  d1 = d1
  Threads = {t1, t2, d1}
  Dpcs = {d1}
  CoreOf <- SharedCore
  Keys = {k1}
  NoKey = NoKey
  Tags = {}
  Zero = Zero
  NumSlots = 1
  NumWords = 0
  MaxSeq = 2
SPECIFICATION FairSpec
PROPERTIES
  LockedSlotIsReleased
  DpcReadersFinish
INVARIANTS
  PreemptedOwnsNothing
