-------------------------- MODULE SampleSortProofs --------------------------
(***************************************************************************)
(* What holds of the sort of the tail latency test for every number of      *)
(* samples and whatever the samples are.                                    *)
(***************************************************************************)
EXTENDS TestDriverProofs, FiniteSetTheorems, WellFoundedInduction

(***************************************************************************)
(* The inductive invariant.                                                 *)
(***************************************************************************)
(* What there is to sort: numbers, from index 0. *)
Numbered ==
  /\ Size \in Nat
  /\ DOMAIN samples = 0 .. Size - 1
  /\ \A k \in 0 .. Size - 1 : samples[k] \in Int

(* A range worth sorting, inside the buffer. *)
Ranges == [low : Nat, high : Nat]
Proper(range) == range \in Ranges /\ range.low < range.high /\ range.high < Size
Waiting(stack) ==
  /\ stack \in Seq(Ranges)
  /\ \A n \in DOMAIN stack : Proper(stack[n])

PivotSample == samples[sort.pivot]

(* The scans: all below i and above j is on its side of the pivot, and each *)
(* scan has a sample ahead of it, in the range, that will stop it.          *)
Scanning ==
  /\ sort = [step |-> "scan", low |-> sort.low, high |-> sort.high,
             i |-> sort.i, j |-> sort.j, pivot |-> sort.pivot,
             stack |-> sort.stack]
  /\ Proper(RangeOf(sort.low, sort.high))
  /\ {sort.i, sort.j, sort.pivot} \subseteq sort.low .. sort.high
  /\ \A k \in sort.low .. sort.i - 1 : samples[k] <= PivotSample
  /\ \A k \in sort.j + 1 .. sort.high : samples[k] >= PivotSample
  /\ \E k \in sort.i .. sort.high : samples[k] >= PivotSample
  /\ \E k \in sort.low .. sort.j : samples[k] <= PivotSample

Sorting ==
  \/ sort = NotSorting
  \/ Numbered /\ sort = Popping(sort.stack) /\ Waiting(sort.stack)
  \/ Numbered /\ Scanning /\ Waiting(sort.stack)
(* A sort that scans is what the invariant says of one. *)
LEMMA ScanIsScanning ==
  ASSUME Sorting, sort.step = "scan"
  PROVE  Numbered /\ Scanning /\ Waiting(sort.stack)
<1>1. NotSorting.step = "idle"
  BY DEF NotSorting
<1>2. Popping(sort.stack).step = "pop"
  BY DEF NotSorting, Popping
<1>3. sort # NotSorting /\ sort # Popping(sort.stack)
  BY <1>1, <1>2
<1> QED
  BY <1>3 DEF Sorting
-----------------------------------------------------------------------------
(***************************************************************************)
(* Where the scans stop.                                                    *)
(***************************************************************************)
(* A set of naturals has a least member. *)
LEMMA LeastMember ==
  ASSUME NEW S \in SUBSET Nat, S # {}
  PROVE  \E n \in S : \A m \in S : n <= m
<1> DEFINE Less == {r \in Nat \X Nat : r[1] < r[2]}
<1>1. IsWellFoundedOn(Less, Nat)
  BY NatLessThanWellFounded DEF OpToRel
<1>2. PICK n \in S : \A m \in S : <<m, n>> \notin Less
  <2> HIDE DEF Less
  <2> QED
    BY <1>1, WFMin
<1>3. \A x, y \in Nat : <<x, y>> \notin Less => y <= x
  OBVIOUS
<1>4. \A m \in S : n <= m
  <2> HIDE DEF Less
  <2> QED
    BY <1>2, <1>3
<1> QED
  BY <1>4

(* A bounded one has a greatest. *)
LEMMA GreatestMember ==
  ASSUME NEW top \in Nat, NEW S \in SUBSET (0 .. top), S # {}
  PROVE  \E n \in S : \A m \in S : n >= m
<1> DEFINE Mirror == {top - m : m \in S}
<1>1. Mirror \in SUBSET Nat /\ Mirror # {}
  <2>1. \A m \in S : top - m \in Nat
    OBVIOUS
  <2> QED
    BY <2>1
<1>2. PICK d \in Mirror : \A m \in Mirror : d <= m
  BY <1>1, LeastMember
<1>3. PICK n \in S : d = top - n
  OBVIOUS
<1>4. \A m \in S : top - n <= top - m
  BY <1>2, <1>3
<1> QED
  BY <1>4

(* Each scan stops inside the range, at a sample that is not on its side,   *)
(* and passes over those that are.                                          *)
LEMMA ScansStop ==
  ASSUME Numbered, Scanning
  PROVE  /\ Up \in sort.i .. sort.high
         /\ samples[Up] >= PivotSample
         /\ \A k \in sort.low .. Up - 1 : samples[k] <= PivotSample
         /\ Down \in sort.low .. sort.j
         /\ samples[Down] <= PivotSample
         /\ \A k \in Down + 1 .. sort.high : samples[k] >= PivotSample
<1> DEFINE above == {k \in sort.i .. Size - 1 : samples[k] >= samples[sort.pivot]}
           below == {k \in 0 .. sort.j : samples[k] <= samples[sort.pivot]}
<1>1. /\ Size \in Nat /\ sort.low \in Nat /\ sort.high \in Nat
      /\ sort.low < sort.high /\ sort.high < Size
      /\ sort.i \in sort.low .. sort.high /\ sort.j \in sort.low .. sort.high
      /\ sort.pivot \in sort.low .. sort.high
      /\ \A k \in 0 .. Size - 1 : samples[k] \in Int
      /\ PivotSample \in Int
  BY DEF Numbered, Scanning, Proper, RangeOf, Ranges, PivotSample
<1>2. PICK u \in sort.i .. sort.high : samples[u] >= PivotSample
  BY DEF Scanning
<1>3. PICK d \in sort.low .. sort.j : samples[d] <= PivotSample
  BY DEF Scanning
<1>4. above \in SUBSET Nat /\ u \in above
  BY <1>1, <1>2 DEF PivotSample
<1>5. below \in SUBSET (0 .. sort.j) /\ d \in below
  BY <1>1, <1>3 DEF PivotSample
<1>6. Up \in above /\ \A m \in above : Up <= m
  <2>1. \E n \in above : \A m \in above : n <= m
    BY <1>4, LeastMember
  <2>2. Up = CHOOSE n \in above : \A m \in above : n <= m
    BY <1>4 DEF Up
  <2> QED
    BY <2>1, <2>2
<1>7. Down \in below /\ \A m \in below : Down >= m
  <2>1. sort.j \in Nat
    BY <1>1
  <2>2. \E n \in below : \A m \in below : n >= m
    BY <1>5, <2>1, GreatestMember
  <2>3. Down = CHOOSE n \in below : \A m \in below : n >= m
    BY <1>5 DEF Down
  <2> QED
    BY <2>2, <2>3
<1>8. Up \in sort.i .. sort.high /\ samples[Up] >= PivotSample
  <2>1. Up \in sort.i .. Size - 1 /\ Up <= u /\ samples[Up] >= samples[sort.pivot]
    BY <1>4, <1>6
  <2> QED
    BY <1>1, <2>1 DEF PivotSample
<1>9. Down \in sort.low .. sort.j /\ samples[Down] <= PivotSample
  <2>1. Down \in 0 .. sort.j /\ d <= Down /\ samples[Down] <= samples[sort.pivot]
    BY <1>5, <1>7
  <2> QED
    BY <1>1, <2>1 DEF PivotSample
<1>10. ASSUME NEW k \in sort.low .. Up - 1
       PROVE  samples[k] <= PivotSample
  <2>1. CASE k < sort.i
    BY <1>1, <1>8, <2>1 DEF Scanning
  <2>2. CASE k >= sort.i
    <3>1. k \notin above
      BY <1>1, <1>6, <1>8
    <3>2. k \in sort.i .. Size - 1 /\ samples[k] \in Int
      BY <1>1, <1>8, <2>2
    <3> QED
      BY <1>1, <3>1, <3>2 DEF PivotSample
  <2> QED
    BY <1>1, <1>8, <2>1, <2>2
<1>11. ASSUME NEW k \in Down + 1 .. sort.high
       PROVE  samples[k] >= PivotSample
  <2>1. CASE k > sort.j
    BY <1>1, <1>9, <2>1 DEF Scanning
  <2>2. CASE k <= sort.j
    <3>1. k \notin below
      BY <1>1, <1>7, <1>9
    <3>2. k \in 0 .. sort.j /\ samples[k] \in Int
      BY <1>1, <1>9, <2>2
    <3> QED
      BY <1>1, <3>1, <3>2 DEF PivotSample
  <2> QED
    BY <1>1, <1>9, <2>1, <2>2
<1> QED
  BY <1>8, <1>9, <1>10, <1>11
-----------------------------------------------------------------------------
(***************************************************************************)
(* The steps.                                                               *)
(***************************************************************************)
(* A range begins with its scans at its ends and its pivot ahead of both.   *)
LEMMA PartitioningScans ==
  ASSUME Numbered, UNCHANGED samples, NEW range, Proper(range),
         NEW stack, Waiting(stack), sort' = Partitioning(range, stack)
  PROVE  Sorting'
<1> DEFINE mid == range.low + (range.high - range.low) \div 2
<1>1. /\ range.low \in Nat /\ range.high \in Nat
      /\ range.low < range.high /\ range.high < Size /\ Size \in Nat
      /\ \A k \in 0 .. Size - 1 : samples[k] \in Int
  BY DEF Proper, Ranges, Numbered
<1>2. mid \in range.low .. range.high
  BY <1>1
<1>3. Size' = Size
  BY DEF Size
<1>4. Numbered'
  BY <1>3 DEF Numbered
<1>5. /\ sort'.step = "scan"
      /\ sort'.low = range.low /\ sort'.high = range.high
      /\ sort'.i = range.low /\ sort'.j = range.high
      /\ sort'.pivot = mid /\ sort'.stack = stack
      /\ sort' = [step |-> "scan", low |-> range.low, high |-> range.high,
                  i |-> range.low, j |-> range.high, pivot |-> mid,
                  stack |-> stack]
  BY DEF Partitioning
<1>6. Waiting(sort.stack)'
  BY <1>3, <1>5 DEF Waiting, Proper
<1>7. Scanning'
  <2> HIDE DEF mid
  <2>1. PivotSample' = samples[mid] /\ samples[mid] \in Int
    BY <1>1, <1>2, <1>5 DEF PivotSample
  <2>2. Proper(RangeOf(sort.low, sort.high))'
    BY <1>1, <1>3, <1>5 DEF Proper, RangeOf, Ranges
  <2>3. /\ \A k \in range.low .. range.low - 1 : samples[k] <= samples[mid]
        /\ \A k \in range.high + 1 .. range.high : samples[k] >= samples[mid]
    BY <1>1
  <2>4. /\ \E k \in range.low .. range.high : samples[k] >= samples[mid]
        /\ \E k \in range.low .. range.high : samples[k] <= samples[mid]
    BY <1>2, <2>1
  <2>5. {sort'.i, sort'.j, sort'.pivot} \subseteq sort'.low .. sort'.high
    BY <1>1, <1>2, <1>5
  <2> QED
    BY <1>5, <2>1, <2>2, <2>3, <2>4, <2>5 DEF Scanning
<1> QED
  BY <1>4, <1>6, <1>7 DEF Sorting

(* With nothing to partition the next range is taken from the stack. *)
LEMMA PoppingWaits ==
  ASSUME Numbered, UNCHANGED samples, NEW stack, Waiting(stack),
         sort' = Popping(stack)
  PROVE  Sorting'
<1>1. Size' = Size
  BY DEF Size
<1>2. Numbered'
  BY <1>1 DEF Numbered
<1>3. sort'.stack = stack
  BY DEF Popping, NotSorting
<1>4. Waiting(sort.stack)'
  BY <1>1, <1>3 DEF Waiting, Proper
<1>5. (sort = Popping(sort.stack))'
  BY <1>3 DEF Popping, NotSorting
<1> QED
  BY <1>2, <1>4, <1>5 DEF Sorting

(* What is taken from it is worth sorting. *)
LEMMA PopSorts ==
  ASSUME Sorting, Pop
  PROVE  Sorting'
<1>1. Numbered /\ sort = Popping(sort.stack) /\ Waiting(sort.stack)
  BY DEF Sorting, Pop, NotSorting, Scanning
<1> DEFINE top  == sort.stack[Len(sort.stack)]
           rest == SubSeq(sort.stack, 1, Len(sort.stack) - 1)
<1>2. CASE sort.stack = <<>>
  BY <1>2 DEF Pop, Sorting
<1>3. CASE sort.stack # <<>>
  <2>1. sort.stack \in Seq(Ranges) /\ Len(sort.stack) \in DOMAIN sort.stack
    BY <1>1, <1>3 DEF Waiting
  <2>2. Proper(top)
    BY <1>1, <2>1 DEF Waiting
  <2>3. Waiting(rest)
    BY <1>1, <2>1 DEF Waiting
  <2>4. sort' = Partitioning(top, rest) /\ UNCHANGED samples
    BY <1>3, <2>2 DEF Pop, Proper
  <2> QED
    BY <1>1, <2>2, <2>3, <2>4, PartitioningScans
<1> QED
  BY <1>2, <1>3

(* The two samples change places, the pivot with them: each stops the other *)
(* scan from now on.                                                        *)
LEMMA SwapSorts ==
  ASSUME Sorting, Swap
  PROVE  Sorting'
<1>1. Numbered /\ Scanning /\ Waiting(sort.stack)
  <2>1. sort.step = "scan"
    BY DEF Swap
  <2> QED
    BY <2>1, ScanIsScanning
<1> DEFINE u == Up
           d == Down
           low == sort.low
           high == sort.high
           value == PivotSample
<1>2. /\ Size \in Nat /\ low \in Nat /\ high \in Nat /\ high < Size
      /\ sort.i \in low .. high /\ sort.j \in low .. high
      /\ sort.pivot \in low .. high
      /\ DOMAIN samples = 0 .. Size - 1
  BY <1>1 DEF Numbered, Scanning, Proper, RangeOf, Ranges
<1>3. /\ u \in low .. high /\ samples[u] >= value
      /\ d \in low .. high /\ samples[d] <= value
  <2>1. /\ u \in sort.i .. high /\ samples[u] >= value
        /\ d \in low .. sort.j /\ samples[d] <= value
    BY <1>1, ScansStop
  <2> HIDE DEF u, d, value
  <2> QED
    BY <1>2, <2>1
<1>sides. /\ \A k \in 0 .. Size - 1 : samples[k] \in Int
          /\ \A k \in low .. u - 1 : samples[k] <= value
          /\ \A k \in d + 1 .. high : samples[k] >= value
  BY <1>1, ScansStop DEF Numbered
<1>4. u < d
  BY DEF Swap
<1>5. samples' = [samples EXCEPT ![u] = samples[d], ![d] = samples[u]]
  BY DEF Swap
<1>6. sort' = [step |-> "scan", low |-> low, high |-> high,
               i |-> u + 1, j |-> d - 1,
               pivot |-> CASE sort.pivot = u -> d [] sort.pivot = d -> u
                           [] OTHER -> sort.pivot,
               stack |-> sort.stack]
  BY <1>1 DEF Swap, Scanning
<1> HIDE DEF u, d
<1>7. /\ DOMAIN samples' = 0 .. Size - 1
      /\ samples'[u] = samples[d] /\ samples'[d] = samples[u]
      /\ \A k \in 0 .. Size - 1 : k # u /\ k # d => samples'[k] = samples[k]
  BY <1>2, <1>3, <1>4, <1>5
<1>8. Size' = Size
  BY <1>2, <1>7 DEF Size
<1>9. Numbered'
  <2>1. \A k \in 0 .. Size - 1 : samples'[k] \in Int
    BY <1>2, <1>3, <1>7, <1>sides
  <2> QED
    BY <1>2, <1>7, <1>8, <2>1 DEF Numbered
<1>10. Waiting(sort.stack)'
  BY <1>1, <1>6, <1>8 DEF Waiting, Proper
<1>11. sort'.pivot \in low .. high /\ samples'[sort'.pivot] = value
  <2>1. CASE sort.pivot = u
    BY <1>2, <1>3, <1>4, <1>6, <1>7, <2>1 DEF PivotSample
  <2>2. CASE sort.pivot = d
    BY <1>2, <1>3, <1>4, <1>6, <1>7, <2>2 DEF PivotSample
  <2>3. CASE sort.pivot # u /\ sort.pivot # d
    BY <1>2, <1>3, <1>4, <1>6, <1>7, <2>3 DEF PivotSample
  <2> QED
    BY <2>1, <2>2, <2>3
<1>12. Scanning'
  <2>1. /\ sort'.low = low /\ sort'.high = high /\ sort'.i = u + 1
        /\ sort'.j = d - 1 /\ sort'.stack = sort.stack
        /\ PivotSample' = value /\ sort'.step = "scan"
    BY <1>6, <1>11 DEF PivotSample
  <2>2. Proper(RangeOf(sort.low, sort.high))'
    BY <1>1, <1>8, <2>1 DEF Scanning, Proper, RangeOf
  <2>3. {sort'.i, sort'.j, sort'.pivot} \subseteq low .. high
    <3>1. u + 1 \in low .. high /\ d - 1 \in low .. high
      BY <1>2, <1>3, <1>4
    <3> QED
      BY <1>11, <2>1, <3>1
  <2>4. \A k \in low .. u : samples'[k] <= value
    <3> SUFFICES ASSUME NEW k \in low .. u PROVE samples'[k] <= value
      OBVIOUS
    <3>1. CASE k = u
      BY <1>3, <1>7, <3>1
    <3>2. CASE k # u
      <4>1. k \in low .. u - 1 /\ k \in 0 .. Size - 1 /\ k # d
        BY <1>2, <1>3, <1>4, <3>2
      <4> QED
        BY <1>7, <1>sides, <3>2, <4>1
    <3> QED
      BY <3>1, <3>2
  <2>5. \A k \in d .. high : samples'[k] >= value
    <3> SUFFICES ASSUME NEW k \in d .. high PROVE samples'[k] >= value
      OBVIOUS
    <3>1. CASE k = d
      BY <1>3, <1>7, <3>1
    <3>2. CASE k # d
      <4>1. k \in d + 1 .. high /\ k \in 0 .. Size - 1 /\ k # u
        BY <1>2, <1>3, <1>4, <3>2
      <4> QED
        BY <1>7, <1>sides, <3>2, <4>1
    <3> QED
      BY <3>1, <3>2
  <2>6. /\ d \in u + 1 .. high /\ samples'[d] >= value
        /\ u \in low .. d - 1 /\ samples'[u] <= value
    BY <1>2, <1>3, <1>4, <1>7
  <2>7. /\ \A k \in sort'.low .. sort'.i - 1 : samples'[k] <= value
        /\ \A k \in sort'.j + 1 .. sort'.high : samples'[k] >= value
    <3>1. sort'.i - 1 = u /\ sort'.j + 1 = d
      BY <1>2, <1>3, <2>1
    <3> QED
      BY <2>1, <2>4, <2>5, <3>1
  <2>8. sort' = [step |-> "scan", low |-> sort'.low, high |-> sort'.high,
                 i |-> sort'.i, j |-> sort'.j, pivot |-> sort'.pivot,
                 stack |-> sort'.stack]
    BY <1>6
  <2> QED
    BY <2>1, <2>2, <2>3, <2>6, <2>7, <2>8 DEF Scanning
<1> QED
  BY <1>9, <1>10, <1>12 DEF Sorting

(* Two things of two, or at most one. *)
LEMMA PairOfTwo ==
  ASSUME NEW a, NEW b, NEW S \in SUBSET {a, b}, Cardinality(S) = 2
  PROVE  a \in S /\ b \in S /\ a # b
<1>1. ASSUME NEW c, S \subseteq {c} PROVE FALSE
  <2>1. IsFiniteSet({c}) /\ Cardinality({c}) = 1
    BY FS_Singleton
  <2>2. Cardinality(S) <= 1
    BY <1>1, <2>1, FS_Subset
  <2> QED
    BY <2>2
<1>2. a \in S /\ b \in S
  <2>1. CASE a \notin S
    BY <1>1, <2>1
  <2>2. CASE b \notin S
    BY <1>1, <2>2
  <2> QED
    BY <2>1, <2>2
<1>3. a # b
  BY <1>1
<1> QED
  BY <1>2, <1>3

(* Of the two parts, those worth sorting are sorted next and later. *)
LEMMA SplitSorts ==
  ASSUME Sorting, Split
  PROVE  Sorting'
<1>1. Numbered /\ Scanning /\ Waiting(sort.stack)
  <2>1. sort.step = "scan"
    BY DEF Split
  <2> QED
    BY <2>1, ScanIsScanning
<1> DEFINE left  == RangeOf(sort.low, IF Down > 0 THEN Down - 1 ELSE 0)
           right == RangeOf(Down + 1, sort.high)
           parts == {p \in {left, right} : Length(p) > 1}
           later == Later(left, right)
<1>2. /\ Size \in Nat /\ sort.low \in Nat /\ sort.high \in Nat /\ sort.high < Size
      /\ Down \in sort.low .. sort.high
  <2>1. /\ Size \in Nat /\ sort.low \in Nat /\ sort.high \in Nat /\ sort.high < Size
        /\ sort.j \in sort.low .. sort.high
    BY <1>1 DEF Numbered, Scanning, Proper, RangeOf, Ranges
  <2> QED
    BY <1>1, <2>1, ScansStop
<1>3. \A p \in parts : Proper(p)
  <2>1. ASSUME Length(left) > 1 PROVE Proper(left)
    BY <1>2, <2>1 DEF Length, Proper, RangeOf, Ranges
  <2>2. ASSUME Length(right) > 1 PROVE Proper(right)
    BY <1>2, <2>2 DEF Length, Proper, RangeOf, Ranges
  <2> QED
    BY <2>1, <2>2
<1>4. later \in {left, right}
  BY DEF Later
<1>5. UNCHANGED samples
  BY DEF Split
<1>6. sort' = IF parts = {} THEN Popping(sort.stack)
              ELSE IF Cardinality(parts) = 2
                THEN Partitioning(CHOOSE p \in parts : p # later,
                                  Append(sort.stack, later))
              ELSE Partitioning(CHOOSE p \in parts : TRUE, sort.stack)
  BY DEF Split
<1>7. parts \subseteq {left, right}
  OBVIOUS
<1> HIDE DEF left, right, parts, later
<1>8. CASE parts = {}
  BY <1>1, <1>5, <1>6, <1>8, PoppingWaits
<1>9. CASE parts # {} /\ Cardinality(parts) = 2
  <2>1. left \in parts /\ right \in parts /\ left # right
    BY <1>7, <1>9, PairOfTwo
  <2>2. PICK p \in parts : p = CHOOSE q \in parts : q # later
    BY <2>1
  <2>3. Proper(p) /\ Proper(later)
    BY <1>3, <1>4, <2>1
  <2>4. Waiting(Append(sort.stack, later))
    BY <1>1, <2>3 DEF Waiting, Proper
  <2>5. sort' = Partitioning(p, Append(sort.stack, later))
    BY <1>6, <1>9, <2>2
  <2> QED
    BY <1>1, <1>5, <2>3, <2>4, <2>5, PartitioningScans
<1>10. CASE parts # {} /\ Cardinality(parts) # 2
  <2>1. PICK p \in parts : p = CHOOSE q \in parts : TRUE
    BY <1>10
  <2>2. sort' = Partitioning(p, sort.stack)
    BY <1>6, <1>10, <2>1
  <2> QED
    BY <1>1, <1>3, <1>5, <2>2, PartitioningScans
<1> QED
  BY <1>8, <1>9, <1>10

(* The sort begins with one range, the whole buffer. *)
LEMMA StartSorts ==
  ASSUME Numbered', Size' = Size, sort' = StartSort
  PROVE  Sorting'
<1>1. CASE Size <= 1
  BY <1>1 DEF StartSort, Sorting
<1>2. CASE ~(Size <= 1)
  <2> DEFINE whole == RangeOf(0, Size - 1)
  <2>1. Size \in Nat /\ Size > 1
    BY <1>2 DEF Numbered
  <2>2. whole \in Ranges /\ whole.low < whole.high /\ whole.high < Size'
    BY <2>1 DEF RangeOf, Ranges
  <2>3. sort' = Popping(<<whole>>)
    BY <1>2 DEF StartSort
  <2>4. sort'.stack = <<whole>>
    BY <2>3 DEF Popping, NotSorting
  <2> HIDE DEF whole
  <2>5. Waiting(sort.stack)'
    BY <2>2, <2>4 DEF Waiting, Proper
  <2> QED
    BY <2>3, <2>4, <2>5 DEF Sorting
<1> QED
  BY <1>1, <1>2
-----------------------------------------------------------------------------
(***************************************************************************)
(* The driver, which sorts the samples in one test only.                    *)
(***************************************************************************)
SortInvariant == Sorting /\ (master # "sort" => sort = NotSorting)

(* Only the sort itself goes on with a sort; CleanUp starts one. *)
LEMMA MasterLeavesSort ==
  ASSUME Master, ~Sort, ~CleanUp
  PROVE  /\ UNCHANGED sort /\ master' # "sort"
         /\ master = "sort" => sort = NotSorting
<1>1. CASE Check \/ InitializeCache \/ RunAlone \/ AllocateSamples \/ AllocateManager
  BY <1>1 DEF Check, InitializeCache, RunAlone, AllocateSamples, AllocateManager,
     Return, sorting
<1>2. CASE StartThread \/ AwaitUnreferenced \/ SetEvent \/ Go \/ Stop \/ AwaitThreads
  BY <1>2 DEF StartThread, AwaitUnreferenced, SetEvent, Go, Stop, AwaitThreads,
     sorting
<1>3. CASE LogPercentiles \/ Verify \/ Sweep
  BY <1>3 DEF LogPercentiles, Verify, Sweep, Return
<1>4. CASE Report \/ Flush \/ WriteLog
  BY <1>4 DEF Report, Flush, WriteLog, sorting
<1> QED
  BY <1>1, <1>2, <1>3, <1>4 DEF Master

(* What is sorted is numbers, as many as the buffer has. *)
LEMMA CleanUpNumbers ==
  ASSUME Typed, CleanUp, Current.worker = "tail"
  PROVE  Numbered' /\ Size' = Size
<1>1. PICK n \in Nat : DOMAIN samples = 0 .. n - 1
  <2>1. Threads * SamplesPerThread \in Nat
    BY ThreadsAssumption, SamplesAssumption
  <2>2. CASE DOMAIN samples = {}
    <3>1. 0 .. 0 - 1 = {}
      OBVIOUS
    <3> QED
      BY <2>2, <3>1
  <2> QED
    BY <2>1, <2>2 DEF Typed, TypeOK
<1>2. samples' \in [DOMAIN samples -> Times \cup {0}]
  BY DEF CleanUp
<1>3. Cardinality(0 .. n - 1) = n
  BY FS_Interval
<1>4. Size = n /\ Size' = n /\ DOMAIN samples' = 0 .. n - 1
  BY <1>1, <1>2, <1>3 DEF Size
<1>5. \A k \in 0 .. n - 1 : samples'[k] \in Int
  <2>1. \A k \in 0 .. n - 1 : samples'[k] \in Times \cup {0}
    BY <1>1, <1>2
  <2>2. Times \cup {0} \subseteq Int
    BY TimesAssumption
  <2> QED
    BY <2>1, <2>2
<1> QED
  BY <1>4, <1>5 DEF Numbered

LEMMA SortInitially == Init => SortInvariant
BY DEF Init, SortInvariant, Sorting

LEMMA SortStays ==
  ASSUME Driving, SortInvariant, [Next]_vars
  PROVE  SortInvariant'
<1>1. ASSUME UNCHANGED <<samples, sort>>
      PROVE  Sorting'
  <2>1. Size' = Size
    BY <1>1 DEF Size
  <2> QED
    BY <1>1, <2>1 DEF SortInvariant, Sorting, Numbered, Scanning, Waiting, Proper,
       PivotSample
<1>2. CASE System \/ RequestUnload
  <2>1. UNCHANGED <<samples, sort>> /\ (master = "sort" => master' = "sort")
    BY <1>2, SystemFrame DEF Driving, Lifecycle
  <2> QED
    BY <1>1, <2>1 DEF SortInvariant
<1>3. CASE Master /\ ~Sort /\ ~CleanUp
  <2>1. sort' = NotSorting /\ master' # "sort"
    BY <1>3, MasterLeavesSort DEF SortInvariant
  <2> QED
    BY <2>1 DEF SortInvariant, Sorting
<1>4. CASE CleanUp
  <2>1. sort = NotSorting
    BY <1>4 DEF CleanUp, SortInvariant
  <2>2. CASE Current.worker = "tail"
    <3>1. sort' = StartSort /\ master' = "sort"
      BY <1>4, <2>2 DEF CleanUp
    <3>2. Numbered' /\ Size' = Size
      BY <1>4, <2>2, CleanUpNumbers DEF Driving
    <3> QED
      BY <3>1, <3>2, StartSorts DEF SortInvariant
  <2>3. CASE Current.worker # "tail"
    BY <1>1, <1>4, <2>1, <2>3 DEF CleanUp, SortInvariant, sorting
  <2> QED
    BY <2>2, <2>3
<1>5. CASE Sort
  <2>1. SortStep /\ master = "sort" /\ UNCHANGED master
    BY <1>5 DEF Sort
  <2>2. Sorting'
    BY <2>1, PopSorts, SwapSorts, SplitSorts DEF SortStep, SortInvariant
  <2> QED
    BY <2>1, <2>2 DEF SortInvariant
<1>6. ASSUME NEW w \in Workers, Worker(w) PROVE SortInvariant'
  <2>1. UNCHANGED <<samples, sort, master>>
    BY <1>6, WorkerFrame DEF Driving
  <2> QED
    BY <1>1, <2>1 DEF SortInvariant
<1>7. CASE UNCHANGED vars
  BY <1>1, <1>7 DEF vars, SortInvariant
<1> QED
  BY <1>2, <1>3, <1>4, <1>5, <1>6, <1>7 DEF Next

LEMMA SortInvariantHolds == Spec => []SortInvariant
<1>1. Driving /\ SortInvariant /\ [Next]_vars => SortInvariant'
  BY SortStays
<1> QED
  BY <1>1, SortInitially, DrivingInvariant, PTL DEF Spec

(* QuickSort reads and writes no sample outside the range it sorts, nor     *)
(* outside the buffer, although its scans look at no bound.                 *)
THEOREM SortInRange == Spec => []SortStaysInRange
<1>1. SortInvariant => SortStaysInRange
  <2> SUFFICES ASSUME SortInvariant, sort.step = "scan"
               PROVE  {sort.i, sort.j, sort.pivot, Up, Down}
                        \subseteq sort.low .. sort.high
    BY DEF SortStaysInRange
  <2>1. Numbered /\ Scanning
    BY ScanIsScanning DEF SortInvariant
  <2>2. /\ sort.low \in Nat /\ sort.high \in Nat
        /\ {sort.i, sort.j, sort.pivot} \subseteq sort.low .. sort.high
    BY <2>1 DEF Scanning, Proper, RangeOf, Ranges
  <2>3. Up \in sort.i .. sort.high /\ Down \in sort.low .. sort.j
    BY <2>1, ScansStop
  <2>4. Up \in sort.low .. sort.high /\ Down \in sort.low .. sort.high
    BY <2>2, <2>3
  <2> QED
    BY <2>2, <2>4
<1> QED
  BY <1>1, SortInvariantHolds, PTL

(* What QuickSort leaves below a split is never larger than what it leaves  *)
(* above it.                                                                *)
THEOREM SortSplits == Spec => []SortSplitsInOrder
<1>1. SortInvariant => SortSplitsInOrder
  <2> SUFFICES ASSUME SortInvariant, sort.step = "scan", Up >= Down,
                      NEW x \in sort.low .. Down, NEW y \in Down + 1 .. sort.high
               PROVE  samples[x] <= samples[y]
    BY DEF SortSplitsInOrder
  <2>1. Numbered /\ Scanning
    BY ScanIsScanning DEF SortInvariant
  <2>2. /\ Size \in Nat /\ sort.low \in Nat /\ sort.high \in Nat /\ sort.high < Size
        /\ {sort.i, sort.j, sort.pivot} \subseteq sort.low .. sort.high
        /\ \A k \in 0 .. Size - 1 : samples[k] \in Int
    BY <2>1 DEF Numbered, Scanning, Proper, RangeOf, Ranges
  <2>3. /\ Up \in sort.i .. sort.high /\ Down \in sort.low .. sort.j
        /\ samples[Down] <= PivotSample
        /\ \A k \in sort.low .. Up - 1 : samples[k] <= PivotSample
        /\ \A k \in Down + 1 .. sort.high : samples[k] >= PivotSample
    BY <2>1, ScansStop
  <2>4. samples[x] <= PivotSample
    BY <2>2, <2>3
  <2>5. /\ samples[x] \in Int /\ samples[y] \in Int /\ PivotSample \in Int
    BY <2>2, <2>3 DEF PivotSample
  <2> QED
    BY <2>3, <2>4, <2>5
<1> QED
  BY <1>1, SortInvariantHolds, PTL
-----------------------------------------------------------------------------
(***************************************************************************)
(* The stack, where there are fewer than 2^31 samples: the driver takes     *)
(* 50000 for each thread.                                                   *)
(***************************************************************************)
FewSamples == Threads * SamplesPerThread < 2^31

(* What waits and what is being sorted.  The one at place m has been halved *)
(* at least m - 1 times.                                                    *)
Pieces ==
  IF sort.step = "scan" THEN Append(sort.stack, RangeOf(sort.low, sort.high))
  ELSE sort.stack

Apart(a, b) == a.high < b.low \/ b.high < a.low
Fits(range, halvings) == (Length(range) + 1) * 2^halvings <= Size + 1
Halved(pieces) ==
  /\ Len(pieces) <= 31
  /\ \A m, n \in DOMAIN pieces : m < n => Apart(pieces[m], pieces[n])
  /\ \A m \in DOMAIN pieces : Fits(pieces[m], m - 1)

StackInvariant == Halved(Pieces)

(* The powers of two that occur; the provers know each of them, and no law. *)
LEMMA Powers ==
  /\ \A n \in 0 .. 31 : 2^n \in Nat
  /\ \A n \in 0 .. 30 : 2^(n + 1) = 2 * 2^n
<1> DEFINE P(m) == 2^m
<1>1. P(0) = 1
  OBVIOUS
<1>2. /\ P(1) = 2 * P(0) /\ P(2) = 2 * P(1) /\ P(3) = 2 * P(2)
      /\ P(4) = 2 * P(3) /\ P(5) = 2 * P(4) /\ P(6) = 2 * P(5)
      /\ P(7) = 2 * P(6) /\ P(8) = 2 * P(7) /\ P(9) = 2 * P(8)
      /\ P(10) = 2 * P(9) /\ P(11) = 2 * P(10) /\ P(12) = 2 * P(11)
      /\ P(13) = 2 * P(12) /\ P(14) = 2 * P(13) /\ P(15) = 2 * P(14)
      /\ P(16) = 2 * P(15) /\ P(17) = 2 * P(16) /\ P(18) = 2 * P(17)
      /\ P(19) = 2 * P(18) /\ P(20) = 2 * P(19) /\ P(21) = 2 * P(20)
      /\ P(22) = 2 * P(21) /\ P(23) = 2 * P(22) /\ P(24) = 2 * P(23)
      /\ P(25) = 2 * P(24) /\ P(26) = 2 * P(25) /\ P(27) = 2 * P(26)
      /\ P(28) = 2 * P(27) /\ P(29) = 2 * P(28) /\ P(30) = 2 * P(29)
      /\ P(31) = 2 * P(30)
  OBVIOUS
<1>3. \A n \in 0 .. 30 : P(n + 1) = 2 * P(n)
  <2> SUFFICES ASSUME NEW n \in 0 .. 30 PROVE P(n + 1) = 2 * P(n)
    OBVIOUS
  <2>1. \/ n = 0 \/ n = 1 \/ n = 2 \/ n = 3 \/ n = 4 \/ n = 5 \/ n = 6 \/ n = 7
        \/ n = 8 \/ n = 9 \/ n = 10 \/ n = 11 \/ n = 12 \/ n = 13 \/ n = 14 \/ n = 15
        \/ n = 16 \/ n = 17 \/ n = 18 \/ n = 19 \/ n = 20 \/ n = 21 \/ n = 22 \/ n = 23
        \/ n = 24 \/ n = 25 \/ n = 26 \/ n = 27 \/ n = 28 \/ n = 29 \/ n = 30
    OBVIOUS
  <2> HIDE DEF P
  <2> QED
    BY <1>2, <2>1
<1>4. \A n \in 0 .. 31 : P(n) \in Nat
  <2> SUFFICES ASSUME NEW n \in 0 .. 31 PROVE P(n) \in Nat
    OBVIOUS
  <2>1. \/ n = 0 \/ n = 1 \/ n = 2 \/ n = 3 \/ n = 4 \/ n = 5 \/ n = 6 \/ n = 7
        \/ n = 8 \/ n = 9 \/ n = 10 \/ n = 11 \/ n = 12 \/ n = 13 \/ n = 14 \/ n = 15
        \/ n = 16 \/ n = 17 \/ n = 18 \/ n = 19 \/ n = 20 \/ n = 21 \/ n = 22 \/ n = 23
        \/ n = 24 \/ n = 25 \/ n = 26 \/ n = 27 \/ n = 28 \/ n = 29 \/ n = 30
        \/ n = 31
    OBVIOUS
  <2> HIDE DEF P
  <2> QED
    BY <1>1, <1>2, <2>1
<1> QED
  BY <1>3, <1>4

(* Half as much, doubled, fits where the whole did; and so does less. *)
LEMMA HalfDoubled ==
  ASSUME NEW a \in Nat, NEW b \in Nat, NEW e \in Nat, NEW room \in Nat,
         2 * a <= b, b * e <= room
  PROVE  a * (2 * e) <= room
<1>1. (b - 2 * a) * e >= 0
  <2>1. b - 2 * a \in Nat
    OBVIOUS
  <2> QED
    BY <2>1
<1>2. (b - 2 * a) * e = b * e - a * (2 * e)
  OBVIOUS
<1>3. b * e \in Int /\ a * (2 * e) \in Int
  OBVIOUS
<1> QED
  BY <1>1, <1>2, <1>3

LEMMA LessFits ==
  ASSUME NEW a \in Nat, NEW b \in Nat, NEW e \in Nat, NEW room \in Nat,
         a <= b, b * e <= room
  PROVE  a * e <= room
<1>1. (b - a) * e >= 0
  <2>1. b - a \in Nat
    OBVIOUS
  <2> QED
    BY <2>1
<1>2. (b - a) * e = b * e - a * e
  OBVIOUS
<1>3. b * e \in Int /\ a * e \in Int
  OBVIOUS
<1> QED
  BY <1>1, <1>2, <1>3

(* A piece fits its place also in the next state, if the buffer does. *)
LEMMA PiecesKept ==
  ASSUME StackInvariant, Pieces' = Pieces, Size' = Size
  PROVE  StackInvariant'
BY DEF StackInvariant, Halved, Fits

(* A part of a range: inside it, and short of one sample at least. *)
Part(p, range) ==
  /\ Proper(p) /\ range.low <= p.low /\ p.high <= range.high
  /\ Length(p) < Length(range)

LEMMA PartFacts ==
  ASSUME NEW range, Proper(range), NEW p, Part(p, range)
  PROVE  /\ range.low \in Nat /\ range.high \in Nat /\ p.low \in Nat /\ p.high \in Nat
         /\ range.low <= p.low /\ p.high <= range.high
         /\ Length(range) \in Nat /\ Length(p) \in Nat /\ Length(p) < Length(range)
<1>1. /\ range.low \in Nat /\ range.high \in Nat /\ p.low \in Nat /\ p.high \in Nat
      /\ range.low < range.high /\ p.low < p.high
  BY DEF Part, Proper, Ranges
<1>2. Length(range) \in Nat /\ Length(p) \in Nat
  BY <1>1 DEF Length
<1> QED
  BY <1>1, <1>2 DEF Part

(* What is apart from a range is apart from its parts. *)
LEMMA ApartFromPart ==
  ASSUME NEW a \in Ranges, NEW range, Proper(range), Apart(a, range),
         NEW p, Part(p, range)
  PROVE  Apart(a, p)
<1>1. /\ p.low \in Nat /\ p.high \in Nat /\ range.low \in Nat /\ range.high \in Nat
      /\ range.low <= p.low /\ p.high <= range.high
      /\ a.low \in Nat /\ a.high \in Nat
  BY PartFacts DEF Ranges
<1>2. a.high < range.low \/ range.high < a.low
  BY DEF Apart
<1>3. a.high < p.low \/ p.high < a.low
  BY <1>1, <1>2
<1> QED
  BY <1>3 DEF Apart

(* With two parts in the place of the last piece, the second the smaller:  *)
(* it has been halved once more.                                           *)
LEMMA TwoParts ==
  ASSUME Size \in Nat, Size < 2^31,
         NEW stack \in Seq(Ranges), NEW range, Proper(range),
         Halved(Append(stack, range)),
         NEW p, NEW q, Part(p, range), Part(q, range), Apart(p, q),
         2 * (Length(q) + 1) <= Length(range) + 1, Length(q) > 1
  PROVE  Halved(Append(Append(stack, p), q))
<1> DEFINE d == Len(stack)
           e == 2^d
           old == Append(stack, range)
           new == Append(Append(stack, p), q)
<1>depth. d \in 0 .. 30 /\ d \in 0 .. 31
  <2>1. Len(old) = d + 1 /\ d \in Nat
    OBVIOUS
  <2>2. Len(old) <= 31
    BY DEF Halved
  <2> HIDE DEF d, old
  <2> QED
    BY <2>1, <2>2
<1>1. /\ d \in Nat /\ d <= 30 /\ DOMAIN stack = 1 .. d
      /\ DOMAIN old = 1 .. d + 1 /\ old[d + 1] = range
      /\ \A m \in 1 .. d : old[m] = stack[m] /\ stack[m] \in Ranges
  <2>1. d \in Nat /\ d <= 30
    <3> HIDE DEF d
    <3> QED
      BY <1>depth
  <2>2. /\ DOMAIN stack = 1 .. d
        /\ DOMAIN old = 1 .. d + 1 /\ old[d + 1] = range
        /\ \A m \in 1 .. d : old[m] = stack[m] /\ stack[m] \in Ranges
    OBVIOUS
  <2> QED
    BY <2>1, <2>2
<1>2. /\ Len(new) = d + 2 /\ DOMAIN new = 1 .. d + 2
      /\ new[d + 1] = p /\ new[d + 2] = q
      /\ \A m \in 1 .. d : new[m] = stack[m]
  BY <1>1
<1>3. /\ Length(range) \in Nat /\ Length(p) \in Nat /\ Length(q) \in Nat
      /\ Length(p) < Length(range)
  BY PartFacts
<1>4. e \in Nat /\ 2^(d + 1) = 2 * e
  <2> HIDE DEF d
  <2>1. 2^d \in Nat /\ 2^(d + 1) = 2 * 2^d
    BY <1>depth, Powers
  <2> QED
    BY <2>1
<1>5. (Length(range) + 1) * e <= Size + 1
  <2>1. d + 1 - 1 = d
    BY <1>1
  <2>2. Fits(old[d + 1], d + 1 - 1)
    BY <1>1 DEF Halved
  <2> QED
    BY <1>1, <2>1, <2>2 DEF Fits
<1> HIDE DEF d, e
<1>6. Fits(p, d)
  <2>1. /\ Length(p) + 1 \in Nat /\ Length(range) + 1 \in Nat /\ Size + 1 \in Nat
        /\ Length(p) + 1 <= Length(range) + 1
    BY <1>3
  <2>2. (Length(p) + 1) * e <= Size + 1
    BY <1>4, <1>5, <2>1, LessFits
  <2> QED
    BY <2>2 DEF Fits, e
<1>7. (Length(q) + 1) * (2 * e) <= Size + 1
  <2>1. Length(q) + 1 \in Nat /\ Length(range) + 1 \in Nat /\ Size + 1 \in Nat
    BY <1>3
  <2> QED
    BY <1>4, <1>5, <2>1, HalfDoubled
<1>8. Fits(q, d + 1)
  BY <1>4, <1>7 DEF Fits
<1>9. d <= 29
  <2>1. /\ Length(q) + 1 \in Nat /\ Size + 1 \in Nat /\ 2 * e \in Nat
        /\ 3 <= Length(q) + 1
    BY <1>3, <1>4
  <2>2. 3 * (2 * e) <= Size + 1
    BY <1>7, <2>1, LessFits
  <2>3. ASSUME d = 30 PROVE FALSE
    <3>1. e = 2^30
      BY <2>3 DEF e
    <3> QED
      BY <2>2, <3>1
  <2> QED
    BY <1>1, <2>3
<1>10. ASSUME NEW m \in 1 .. d
       PROVE  Apart(stack[m], p) /\ Apart(stack[m], q) /\ Fits(stack[m], m - 1)
  <2>1. m \in DOMAIN old /\ d + 1 \in DOMAIN old /\ m < d + 1
    BY <1>1
  <2>2. Apart(old[m], old[d + 1]) /\ Fits(old[m], m - 1)
    BY <2>1 DEF Halved
  <2>3. /\ stack[m] \in Ranges /\ Apart(stack[m], range)
        /\ Fits(stack[m], m - 1)
    BY <1>1, <2>2
  <2> QED
    BY <2>3, ApartFromPart
<1>11. ASSUME NEW m \in DOMAIN new, NEW n \in DOMAIN new, m < n
       PROVE  Apart(new[m], new[n])
  <2>1. CASE n \in 1 .. d
    <3>1. m \in 1 .. d
      BY <1>1, <1>2, <1>11, <2>1
    <3>2. m \in DOMAIN old /\ n \in DOMAIN old
      BY <1>1, <2>1, <3>1
    <3>3. Apart(old[m], old[n])
      BY <1>11, <3>2 DEF Halved
    <3> QED
      BY <1>1, <1>2, <2>1, <3>1, <3>3
  <2>2. CASE n = d + 1
    <3>1. m \in 1 .. d
      BY <1>1, <1>2, <1>11, <2>2
    <3> QED
      BY <1>2, <1>10, <2>2, <3>1
  <2>3. CASE n = d + 2
    <3>1. m \in 1 .. d \/ m = d + 1
      BY <1>1, <1>2, <1>11, <2>3
    <3> QED
      BY <1>2, <1>10, <2>3, <3>1
  <2> QED
    BY <1>1, <1>2, <2>1, <2>2, <2>3
<1>12. ASSUME NEW m \in DOMAIN new
       PROVE  Fits(new[m], m - 1)
  <2>1. m \in 1 .. d \/ (m = d + 1 /\ m - 1 = d) \/ (m = d + 2 /\ m - 1 = d + 1)
    BY <1>1, <1>2
  <2> QED
    BY <1>2, <1>6, <1>8, <1>10, <2>1
<1>13. Len(new) <= 31
  BY <1>1, <1>2, <1>9
<1> HIDE DEF new
<1>14. Halved(new)
  BY <1>11, <1>12, <1>13 DEF Halved
<1> QED
  BY <1>14 DEF new

(* With one part in its place ... *)
LEMMA OnePart ==
  ASSUME Size \in Nat,
         NEW stack \in Seq(Ranges), NEW range, Proper(range),
         Halved(Append(stack, range)), NEW p, Part(p, range)
  PROVE  Halved(Append(stack, p))
<1> DEFINE d == Len(stack)
           e == 2^d
           old == Append(stack, range)
           new == Append(stack, p)
<1>depth. d \in 0 .. 30 /\ d \in 0 .. 31
  <2>1. Len(old) = d + 1 /\ d \in Nat
    OBVIOUS
  <2>2. Len(old) <= 31
    BY DEF Halved
  <2> HIDE DEF d, old
  <2> QED
    BY <2>1, <2>2
<1>1. /\ d \in Nat /\ d <= 30 /\ DOMAIN stack = 1 .. d
      /\ DOMAIN old = 1 .. d + 1 /\ old[d + 1] = range
      /\ \A m \in 1 .. d : old[m] = stack[m] /\ stack[m] \in Ranges
  <2>1. d \in Nat /\ d <= 30
    <3> HIDE DEF d
    <3> QED
      BY <1>depth
  <2>2. /\ DOMAIN stack = 1 .. d
        /\ DOMAIN old = 1 .. d + 1 /\ old[d + 1] = range
        /\ \A m \in 1 .. d : old[m] = stack[m] /\ stack[m] \in Ranges
    OBVIOUS
  <2> QED
    BY <2>1, <2>2
<1>2. /\ Len(new) = d + 1 /\ DOMAIN new = 1 .. d + 1 /\ new[d + 1] = p
      /\ \A m \in 1 .. d : new[m] = stack[m]
  BY <1>1
<1>3. Length(range) \in Nat /\ Length(p) \in Nat /\ Length(p) < Length(range)
  BY PartFacts
<1>4. e \in Nat
  <2> HIDE DEF d
  <2> QED
    BY <1>depth, Powers
<1>5. d + 1 - 1 = d
  BY <1>1
<1>6. (Length(range) + 1) * e <= Size + 1
  <2>1. Fits(old[d + 1], d + 1 - 1)
    BY <1>1 DEF Halved
  <2> QED
    BY <1>1, <1>5, <2>1 DEF Fits
<1> HIDE DEF d, e
<1>7. Fits(p, d)
  <2>1. /\ Length(p) + 1 \in Nat /\ Length(range) + 1 \in Nat /\ Size + 1 \in Nat
        /\ Length(p) + 1 <= Length(range) + 1
    BY <1>3
  <2>2. (Length(p) + 1) * e <= Size + 1
    BY <1>4, <1>6, <2>1, LessFits
  <2> QED
    BY <2>2 DEF Fits, e
<1>8. ASSUME NEW m \in 1 .. d
      PROVE  Apart(stack[m], p) /\ Fits(stack[m], m - 1)
  <2>1. m \in DOMAIN old /\ d + 1 \in DOMAIN old /\ m < d + 1
    BY <1>1
  <2>2. Apart(old[m], old[d + 1]) /\ Fits(old[m], m - 1)
    BY <2>1 DEF Halved
  <2>3. /\ stack[m] \in Ranges /\ Apart(stack[m], range)
        /\ Fits(stack[m], m - 1)
    BY <1>1, <2>2
  <2> QED
    BY <2>3, ApartFromPart
<1>9. ASSUME NEW m \in DOMAIN new, NEW n \in DOMAIN new, m < n
      PROVE  Apart(new[m], new[n])
  <2>1. CASE n \in 1 .. d
    <3>1. m \in 1 .. d
      BY <1>1, <1>2, <1>9, <2>1
    <3>2. m \in DOMAIN old /\ n \in DOMAIN old
      BY <1>1, <2>1, <3>1
    <3>3. Apart(old[m], old[n])
      BY <1>9, <3>2 DEF Halved
    <3> QED
      BY <1>1, <1>2, <2>1, <3>1, <3>3
  <2>2. CASE n = d + 1
    <3>1. m \in 1 .. d
      BY <1>1, <1>2, <1>9, <2>2
    <3> QED
      BY <1>2, <1>8, <2>2, <3>1
  <2> QED
    BY <1>1, <1>2, <2>1, <2>2
<1>10. ASSUME NEW m \in DOMAIN new
       PROVE  Fits(new[m], m - 1)
  <2>1. m \in 1 .. d \/ (m = d + 1 /\ m - 1 = d)
    BY <1>1, <1>2, <1>5
  <2> QED
    BY <1>2, <1>7, <1>8, <2>1
<1>11. Len(new) <= 31
  BY <1>1, <1>2
<1> HIDE DEF new
<1>12. Halved(new)
  BY <1>9, <1>10, <1>11 DEF Halved
<1> QED
  BY <1>12 DEF new

(* ... and with none. *)
LEMMA NoPart ==
  ASSUME NEW stack \in Seq(Ranges), NEW range, Halved(Append(stack, range))
  PROVE  Halved(stack)
<1> DEFINE old == Append(stack, range)
<1>1. /\ Len(old) = Len(stack) + 1 /\ Len(stack) \in Nat
      /\ \A m \in DOMAIN stack : m \in DOMAIN old /\ old[m] = stack[m]
  OBVIOUS
<1> HIDE DEF old
<1>2. Halved(old)
  BY DEF old
<1> QED
  BY <1>1, <1>2 DEF Halved

(* Whatever the pieces are after a step, if they fit their places.          *)
LEMMA PiecesFit ==
  ASSUME NEW pieces, Halved(pieces), Pieces' = pieces, Size' = Size
  PROVE  StackInvariant'
BY DEF StackInvariant, Halved, Fits

LEMMA NoPieces ==
  ASSUME sort' = NotSorting
  PROVE  StackInvariant'
<1>1. sort'.step = "idle" /\ sort'.stack = <<>>
  BY DEF NotSorting
<1>2. Pieces' = <<>>
  BY <1>1 DEF Pieces
<1>3. Len(<<>>) = 0 /\ DOMAIN <<>> = {}
  OBVIOUS
<1> QED
  BY <1>2, <1>3 DEF StackInvariant, Halved

(* What is partitioned next, on top of a stack. *)
LEMMA PartitioningPieces ==
  ASSUME NEW range \in Ranges, NEW stack, sort' = Partitioning(range, stack)
  PROVE  Pieces' = Append(stack, range)
<1>1. /\ sort'.step = "scan" /\ sort'.low = range.low /\ sort'.high = range.high
      /\ sort'.stack = stack
  BY DEF Partitioning
<1>2. range = RangeOf(range.low, range.high)
  BY DEF Ranges, RangeOf
<1> QED
  BY <1>1, <1>2 DEF Pieces

LEMMA PopStack ==
  ASSUME Sorting, StackInvariant, Pop
  PROVE  StackInvariant'
<1>1. Numbered /\ sort.step = "pop" /\ Waiting(sort.stack)
  BY DEF Sorting, Pop, NotSorting, Scanning
<1> DEFINE top  == sort.stack[Len(sort.stack)]
           rest == SubSeq(sort.stack, 1, Len(sort.stack) - 1)
<1>2. CASE sort.stack = <<>>
  BY <1>2, NoPieces DEF Pop
<1>3. CASE sort.stack # <<>>
  <2>1. sort.stack \in Seq(Ranges) /\ Len(sort.stack) \in DOMAIN sort.stack
    BY <1>1, <1>3 DEF Waiting
  <2>2. Proper(top)
    BY <1>1, <2>1 DEF Waiting
  <2>3. sort' = Partitioning(top, rest) /\ UNCHANGED samples
    BY <1>3, <2>2 DEF Pop, Proper
  <2>4. Append(rest, top) = sort.stack
    BY <1>3, <2>1
  <2>5. Pieces' = sort.stack /\ Pieces = sort.stack
    BY <1>1, <2>2, <2>3, <2>4, PartitioningPieces DEF Proper, Pieces
  <2>6. Size' = Size
    BY <2>3 DEF Size
  <2> QED
    BY <2>5, <2>6, PiecesKept
<1> QED
  BY <1>2, <1>3

LEMMA SwapStack ==
  ASSUME Sorting, StackInvariant, Swap
  PROVE  StackInvariant'
<1>1. Scanning /\ sort.step = "scan"
  BY ScanIsScanning DEF Swap
<1>2. sort' = [step |-> "scan", low |-> sort.low, high |-> sort.high,
               i |-> Up + 1, j |-> Down - 1,
               pivot |-> CASE sort.pivot = Up -> Down [] sort.pivot = Down -> Up
                           [] OTHER -> sort.pivot,
               stack |-> sort.stack]
  BY <1>1 DEF Swap, Scanning
<1>3. Pieces' = Pieces
  <2>1. /\ sort'.step = "scan" /\ sort'.low = sort.low /\ sort'.high = sort.high
        /\ sort'.stack = sort.stack
    BY <1>2
  <2> QED
    BY <1>1, <2>1 DEF Pieces
<1>4. Size' = Size
  <2>1. DOMAIN samples' = DOMAIN samples
    BY DEF Swap
  <2> QED
    BY <2>1 DEF Size
<1> QED
  BY <1>3, <1>4, PiecesKept

LEMMA SplitStack ==
  ASSUME Sorting, StackInvariant, Split, Size < 2^31
  PROVE  StackInvariant'
<1>1. Numbered /\ Scanning /\ Waiting(sort.stack) /\ sort.step = "scan"
  <2>1. sort.step = "scan"
    BY DEF Split
  <2> QED
    BY <2>1, ScanIsScanning
<1> DEFINE range == RangeOf(sort.low, sort.high)
           left  == RangeOf(sort.low, IF Down > 0 THEN Down - 1 ELSE 0)
           right == RangeOf(Down + 1, sort.high)
           parts == {p \in {left, right} : Length(p) > 1}
           later == Later(left, right)
<1>2. /\ Size \in Nat /\ sort.low \in Nat /\ sort.high \in Nat /\ sort.high < Size
      /\ sort.low < sort.high /\ Down \in sort.low .. sort.high
  <2>1. /\ Size \in Nat /\ sort.low \in Nat /\ sort.high \in Nat /\ sort.high < Size
        /\ sort.low < sort.high /\ sort.j \in sort.low .. sort.high
    BY <1>1 DEF Numbered, Scanning, Proper, RangeOf, Ranges
  <2> QED
    BY <1>1, <2>1, ScansStop
<1>3. Proper(range)
  BY <1>1 DEF Scanning
<1>4. ASSUME Length(left) > 1
      PROVE  Part(left, range) /\ Length(left) = Down - sort.low /\ Down > 0
  BY <1>2, <1>4 DEF Length, Part, Proper, RangeOf, Ranges
<1>5. ASSUME Length(right) > 1
      PROVE  Part(right, range) /\ Length(right) = sort.high - Down
  BY <1>2, <1>5 DEF Length, Part, Proper, RangeOf, Ranges
<1>6. Length(range) = sort.high - sort.low + 1
  BY <1>2 DEF Length, RangeOf
<1>7. ASSUME Length(left) > 1, Length(right) > 1
      PROVE  Apart(left, right) /\ Apart(right, left)
  BY <1>2, <1>4, <1>7 DEF Apart, RangeOf
<1>8. \A p \in parts : Part(p, range) /\ Length(p) > 1
  BY <1>4, <1>5
<1>9. Size' = Size
  BY DEF Split, Size
<1>10. Pieces = Append(sort.stack, range) /\ Halved(Append(sort.stack, range))
  BY <1>1 DEF Pieces, StackInvariant
<1>11. sort' = IF parts = {} THEN Popping(sort.stack)
               ELSE IF Cardinality(parts) = 2
                 THEN Partitioning(CHOOSE p \in parts : p # later,
                                   Append(sort.stack, later))
               ELSE Partitioning(CHOOSE p \in parts : TRUE, sort.stack)
  BY DEF Split
<1>12. parts \subseteq {left, right}
  OBVIOUS
<1>13. sort.stack \in Seq(Ranges)
  BY <1>1 DEF Waiting
<1>14. \A p \in parts : p \in Ranges
  BY <1>8 DEF Part, Proper
<1>15. CASE parts = {}
  <2>1. sort' = Popping(sort.stack)
    BY <1>11, <1>15
  <2>2. sort'.step = "pop" /\ sort'.stack = sort.stack
    BY <2>1 DEF Popping, NotSorting
  <2>3. Pieces' = sort.stack
    BY <2>2 DEF Pieces
  <2>4. Halved(sort.stack)
    BY <1>10, <1>13, NoPart
  <2> QED
    BY <1>9, <2>3, <2>4, PiecesFit
<1>16. CASE parts # {} /\ Cardinality(parts) = 2
  <2>1. /\ left \in parts /\ right \in parts /\ left # right
    BY <1>12, <1>16, PairOfTwo
  <2>2. Length(left) > 1 /\ Length(right) > 1
    BY <1>8, <2>1
  <2>3. \/ later = left /\ Length(right) <= Length(left)
        \/ later = right /\ Length(left) <= Length(right)
    BY <1>2, <1>4, <1>5, <2>2 DEF Later
  <2> HIDE DEF left, right, parts, later, range
  <2>4. PICK p \in parts : p = CHOOSE q \in parts : q # later
    BY <2>1
  <2>5. p # later
    BY <2>1, <2>4
  <2>6. /\ p \in {left, right} /\ later \in {left, right}
        /\ Length(p) <= Length(later)
    BY <1>12, <2>3, <2>5
  <2>7. Length(left) + Length(right) + 1 = Length(range)
    BY <1>2, <1>4, <1>5, <1>6, <2>2
  <2>8. Part(p, range) /\ Part(later, range) /\ Apart(later, p) /\ Length(p) > 1
    BY <1>7, <1>8, <2>1, <2>2, <2>5, <2>6
  <2>9. 2 * (Length(p) + 1) <= Length(range) + 1
    <3>1. Length(left) \in Int /\ Length(right) \in Int
      BY <1>2, <1>4, <1>5, <2>2
    <3>2. CASE p = left /\ later = right
      BY <2>6, <2>7, <3>1, <3>2
    <3>3. CASE p = right /\ later = left
      BY <2>6, <2>7, <3>1, <3>3
    <3> QED
      BY <2>5, <2>6, <3>2, <3>3
  <2>10. Halved(Append(Append(sort.stack, later), p))
    BY <1>2, <1>3, <1>10, <1>13, <2>8, <2>9, TwoParts
  <2>11. sort' = Partitioning(p, Append(sort.stack, later))
    BY <1>11, <1>16, <2>4
  <2>12. Pieces' = Append(Append(sort.stack, later), p)
    BY <1>14, <2>11, PartitioningPieces
  <2> QED
    BY <1>9, <2>10, <2>12, PiecesFit
<1>17. CASE parts # {} /\ Cardinality(parts) # 2
  <2> HIDE DEF left, right, parts, later, range
  <2>1. PICK p \in parts : p = CHOOSE q \in parts : TRUE
    BY <1>17
  <2>2. sort' = Partitioning(p, sort.stack)
    BY <1>11, <1>17, <2>1
  <2>3. Pieces' = Append(sort.stack, p)
    BY <1>14, <2>2, PartitioningPieces
  <2>4. Halved(Append(sort.stack, p))
    BY <1>2, <1>3, <1>8, <1>10, <1>13, OnePart
  <2> QED
    BY <1>9, <2>3, <2>4, PiecesFit
<1> QED
  BY <1>15, <1>16, <1>17

LEMMA StartStack ==
  ASSUME Size \in Nat, Size' = Size, sort' = StartSort
  PROVE  StackInvariant'
<1>1. CASE Size <= 1
  BY <1>1, NoPieces DEF StartSort
<1>2. CASE ~(Size <= 1)
  <2> DEFINE whole == RangeOf(0, Size - 1)
  <2>1. Length(whole) = Size
    BY <1>2 DEF Length, RangeOf
  <2>2. sort' = Popping(<<whole>>)
    BY <1>2 DEF StartSort
  <2>3. sort'.step = "pop" /\ sort'.stack = <<whole>>
    BY <2>2 DEF Popping, NotSorting
  <2>4. Pieces' = <<whole>>
    BY <2>3 DEF Pieces
  <2>5. Fits(whole, 0)
    <3>1. 2^0 = 1
      OBVIOUS
    <3> QED
      BY <2>1, <3>1 DEF Fits
  <2> HIDE DEF whole
  <2>6. Halved(<<whole>>)
    BY <2>5 DEF Halved
  <2> QED
    BY <2>4, <2>6, PiecesFit
<1> QED
  BY <1>1, <1>2

(* The buffer has a sample for each turn of each thread, or is not there.   *)
LEMMA SizeIsSmall ==
  ASSUME Typed, FewSamples
  PROVE  Size \in Nat /\ Size < 2^31
<1> DEFINE total == Threads * SamplesPerThread
<1>1. total \in Nat /\ total < 2^31
  BY ThreadsAssumption, SamplesAssumption DEF FewSamples
<1>2. DOMAIN samples = {} \/ DOMAIN samples = 0 .. total - 1
  BY DEF Typed, TypeOK
<1> HIDE DEF total
<1>3. CASE DOMAIN samples = {}
  BY <1>3, FS_EmptySet DEF Size
<1>4. CASE DOMAIN samples = 0 .. total - 1
  <2>1. Cardinality(0 .. total - 1) = total
    BY <1>1, FS_Interval
  <2> QED
    BY <1>1, <1>4, <2>1 DEF Size
<1> QED
  BY <1>2, <1>3, <1>4

LEMMA StackStays ==
  ASSUME Driving, SortInvariant, StackInvariant, FewSamples, [Next]_vars
  PROVE  StackInvariant'
<1>1. Size \in Nat /\ Size < 2^31
  BY SizeIsSmall DEF Driving
<1>2. ASSUME UNCHANGED <<samples, sort>>
      PROVE  StackInvariant'
  <2>1. Size' = Size /\ Pieces' = Pieces
    BY <1>2 DEF Size, Pieces
  <2> QED
    BY <2>1, PiecesKept
<1>3. CASE System \/ RequestUnload
  <2>1. UNCHANGED <<samples, sort>>
    BY <1>3, SystemFrame
  <2> QED
    BY <1>2, <2>1
<1>4. CASE Master /\ ~Sort /\ ~CleanUp
  <2>1. sort' = NotSorting
    BY <1>4, MasterLeavesSort DEF SortInvariant
  <2> QED
    BY <2>1, NoPieces
<1>5. CASE CleanUp
  <2>1. sort = NotSorting
    BY <1>5 DEF CleanUp, SortInvariant
  <2>2. CASE Current.worker = "tail"
    <3>1. sort' = StartSort
      BY <1>5, <2>2 DEF CleanUp
    <3>2. Size' = Size
      BY <1>5, <2>2, CleanUpNumbers DEF Driving
    <3> QED
      BY <1>1, <3>1, <3>2, StartStack
  <2>3. CASE Current.worker # "tail"
    BY <1>2, <1>5, <2>1, <2>3 DEF CleanUp, sorting
  <2> QED
    BY <2>2, <2>3
<1>6. CASE Sort
  <2>1. SortStep
    BY <1>6 DEF Sort
  <2> QED
    BY <1>1, <2>1, PopStack, SwapStack, SplitStack DEF SortStep, SortInvariant
<1>7. ASSUME NEW w \in Workers, Worker(w) PROVE StackInvariant'
  <2>1. UNCHANGED <<samples, sort>>
    BY <1>7, WorkerFrame DEF Driving
  <2> QED
    BY <1>2, <2>1
<1>8. CASE UNCHANGED vars
  BY <1>2, <1>8 DEF vars
<1> QED
  BY <1>3, <1>4, <1>5, <1>6, <1>7, <1>8 DEF Next

(* QuickSort's ranges never overlap, and its stack of 64 is never full: the *)
(* larger part waits, so that each range that waits doubles the samples     *)
(* there have to be.                                                        *)
THEOREM SortStackBounded ==
  ASSUME FewSamples
  PROVE  Spec => []SortStackIsSmall
<1>1. Init => StackInvariant
  <2> SUFFICES ASSUME Init PROVE StackInvariant
    OBVIOUS
  <2>1. sort.step = "idle" /\ sort.stack = <<>>
    BY DEF Init, NotSorting
  <2>2. Pieces = <<>>
    BY <2>1 DEF Pieces
  <2>3. Len(<<>>) = 0 /\ DOMAIN <<>> = {}
    OBVIOUS
  <2> QED
    BY <2>2, <2>3 DEF StackInvariant, Halved
<1>2. Driving /\ SortInvariant /\ StackInvariant /\ [Next]_vars => StackInvariant'
  BY StackStays
<1>3. Driving /\ SortInvariant /\ StackInvariant => SortStackIsSmall
  <2> SUFFICES ASSUME Driving, SortInvariant, StackInvariant, sort.step = "scan"
               PROVE  LET ranges == Append(sort.stack, RangeOf(sort.low, sort.high))
                      IN  /\ \A m, n \in DOMAIN ranges : m < n =>
                               \/ ranges[m].high < ranges[n].low
                               \/ ranges[n].high < ranges[m].low
                          /\ 3 * 2^Len(sort.stack) <= Size + 1
    BY DEF SortStackIsSmall
  <2> DEFINE ranges == Append(sort.stack, RangeOf(sort.low, sort.high))
             d == Len(sort.stack)
  <2>1. Halved(ranges)
    BY DEF StackInvariant, Pieces
  <2>2. Scanning /\ Numbered /\ Waiting(sort.stack)
    BY ScanIsScanning DEF SortInvariant
  <2>3. /\ sort.low \in Nat /\ sort.high \in Nat /\ sort.low < sort.high
        /\ Size + 1 \in Nat
    BY <2>2 DEF Scanning, Proper, RangeOf, Ranges, Numbered
  <2>4. /\ d \in Nat /\ d + 1 \in DOMAIN ranges /\ d + 1 - 1 = d
        /\ ranges[d + 1] = RangeOf(sort.low, sort.high) /\ Len(ranges) = d + 1
    BY <2>2 DEF Waiting
  <2>5. \A m, n \in DOMAIN ranges : m < n => Apart(ranges[m], ranges[n])
    BY <2>1 DEF Halved
  <2> HIDE DEF ranges, d
  <2>6. Fits(ranges[d + 1], d + 1 - 1)
    BY <2>1, <2>4 DEF Halved
  <2>7. (sort.high - sort.low + 2) * 2^d <= Size + 1
    <3>1. Length(RangeOf(sort.low, sort.high)) + 1 = sort.high - sort.low + 2
      BY <2>3 DEF Length, RangeOf
    <3> QED
      BY <2>4, <2>6, <3>1 DEF Fits
  <2>8. 2^d \in Nat
    <3>1. d \in 0 .. 31
      BY <2>1, <2>4 DEF Halved
    <3> QED
      BY <3>1, Powers
  <2>9. 3 * 2^d <= Size + 1
    <3>1. sort.high - sort.low + 2 \in Nat /\ 3 <= sort.high - sort.low + 2
      BY <2>3
    <3> QED
      BY <2>3, <2>7, <2>8, <3>1, LessFits
  <2> QED
    BY <2>5, <2>9 DEF Apart, ranges, d
<1> QED
  BY <1>1, <1>2, <1>3, DrivingInvariant, SortInvariantHolds, PTL DEF Spec
=============================================================================
