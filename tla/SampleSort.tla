----------------------------- MODULE SampleSort -----------------------------
(***************************************************************************)
(* QuickSort of test_drv/TestOptCacheDrv.cpp, which puts the samples of the *)
(* tail latency test in order: one step per turn of its inner loop.         *)
(*                                                                          *)
(* The insertion sort of the full stack is left out: SortStackIsSmall shows *)
(* that a stack of 64 ranges is never full.                                 *)
(***************************************************************************)
EXTENDS Integers, Sequences, FiniteSets

VARIABLES
  samples,  \* pBase, from 0
  sort      \* the locals: the range low .. high, i, j, pivot and the stack

Size == Cardinality(DOMAIN samples)
RangeOf(low, high) == [low |-> low, high |-> high]

NotSorting ==
  [step |-> "idle", low |-> 0, high |-> 0, i |-> 0, j |-> 0, pivot |-> 0,
   stack |-> <<>>]
Popping(stack) == [NotSorting EXCEPT !.step = "pop", !.stack = stack]

Partitioning(range, stack) ==
  [step |-> "scan", low |-> range.low, high |-> range.high,
   i |-> range.low, j |-> range.high,
   pivot |-> range.low + (range.high - range.low) \div 2, stack |-> stack]

StartSort ==
  IF Size <= 1 THEN NotSorting ELSE Popping(<<RangeOf(0, Size - 1)>>)

Pop ==
  /\ sort.step = "pop"
  /\ LET top == sort.stack[Len(sort.stack)]
         rest == SubSeq(sort.stack, 1, Len(sort.stack) - 1)
     IN  sort' = IF sort.stack = <<>> THEN NotSorting
                 ELSE IF top.low < top.high THEN Partitioning(top, rest)
                 ELSE Popping(rest)
  /\ UNCHANGED samples

(* Mutant of Up: the scan passes samples equal to the pivot. *)
UpPastEqual ==
  LET stops == {k \in sort.i .. Size - 1 : samples[k] > samples[sort.pivot]}
  IN  IF stops = {} THEN Size ELSE CHOOSE k \in stops : \A m \in stops : k <= m

(* Where the scans stop.  Nothing but the samples themselves stops the one  *)
(* upwards; at Size it would read past the end.                             *)
Up ==
  LET stops == {k \in sort.i .. Size - 1 : samples[k] >= samples[sort.pivot]}
  IN  IF stops = {} THEN Size ELSE CHOOSE k \in stops : \A m \in stops : k <= m

Down ==
  LET stops == {k \in 0 .. sort.j : samples[k] <= samples[sort.pivot]}
  IN  IF stops = {} THEN 0 ELSE CHOOSE k \in stops : \A m \in stops : k >= m

(* Mutant of Swap: the pivot's index does not follow its sample down. *)
SwapLosingPivot ==
  /\ sort.step = "scan"
  /\ Up < Down
  /\ samples' = [samples EXCEPT ![Up] = samples[Down], ![Down] = samples[Up]]
  /\ sort' = [sort EXCEPT
       !.pivot = IF @ = Up THEN Down ELSE @,
       !.i = Up + 1, !.j = Down - 1]

Swap ==
  /\ sort.step = "scan"
  /\ Up < Down
  /\ samples' = [samples EXCEPT ![Up] = samples[Down], ![Down] = samples[Up]]
  /\ sort' = [sort EXCEPT
       !.pivot = CASE @ = Up -> Down [] @ = Down -> Up [] OTHER -> @,
       !.i = Up + 1, !.j = Down - 1]

Length(range) == IF range.high < range.low THEN 0 ELSE range.high - range.low + 1

(* Mutant of Later: the smaller part is left for later. *)
Smaller(left, right) == IF Length(left) < Length(right) THEN left ELSE right

(* Of two parts the one that waits on the stack, the larger. *)
Later(left, right) == IF Length(left) < Length(right) THEN right ELSE left

(* The sample at Down counts as being in its place. *)
Split ==
  /\ sort.step = "scan"
  /\ Up >= Down
  /\ LET left == RangeOf(sort.low, IF Down > 0 THEN Down - 1 ELSE 0)
         right == RangeOf(Down + 1, sort.high)
         parts == {p \in {left, right} : Length(p) > 1}
         later == Later(left, right)
     IN  sort' =
           IF parts = {} THEN Popping(sort.stack)
           ELSE IF Cardinality(parts) = 2
             THEN Partitioning(CHOOSE p \in parts : p # later,
                               Append(sort.stack, later))
           ELSE Partitioning(CHOOSE p \in parts : TRUE, sort.stack)
  /\ UNCHANGED samples

SortStep == Pop \/ Swap \/ Split
-----------------------------------------------------------------------------
(* The scans, which check no bound but 0, never leave the range they sort:  *)
(* no sample outside the buffer is read or swapped.                         *)
SortStaysInRange ==
  sort.step = "scan" =>
    {sort.i, sort.j, sort.pivot, Up, Down} \subseteq sort.low .. sort.high

(* When a range is split, no sample up to Down is larger than one above it. *)
(* (The one at Down need not be the largest up to there, so the result of   *)
(* the whole need not be in order: 1, 2, 0 comes out as 1, 0, 2.)           *)
SortSplitsInOrder ==
  sort.step = "scan" /\ Up >= Down =>
    \A x \in sort.low .. Down, y \in Down + 1 .. sort.high :
      samples[x] <= samples[y]

(* The ranges still to sort are apart from each other, and the larger part  *)
(* waits: with n samples there are at most log2((n + 1) / 3) ranges waiting *)
(* while one is sorted, never 64.                                           *)
SortStackIsSmall ==
  sort.step = "scan" =>
    LET ranges == Append(sort.stack, RangeOf(sort.low, sort.high))
    IN  /\ \A m, n \in DOMAIN ranges : m < n =>
             ranges[m].high < ranges[n].low \/ ranges[n].high < ranges[m].low
        /\ 3 * 2^Len(sort.stack) <= Size + 1
=============================================================================
