------------------------- MODULE MemoryBudget_proofs -------------------------
(***************************************************************************)
(* Safety of MemoryBudget for every number of goroutines, every limit and  *)
(* every width of the counter.                                             *)
(***************************************************************************)
EXTENDS MemoryBudget, DataLemmas

USE ProcsAssumption, MaxIntAssumption, LimitAssumption, SizesAssumption

\* Within the type's range nothing wraps around.
LEMMA WrapInRange ==
  ASSUME NEW x \in 0..MaxInt
  PROVE  Wrap(x) = x
BY DEF Wrap

\* The comparison of TryReserve is "size + used > limit", although that sum
\* may not fit the type (output.go:37).
LEMMA ExceedsIsExact ==
  ASSUME NEW s \in 0..MaxInt, NEW u \in 0..Limit
  PROVE  Exceeds(s, u) <=> u + s > Limit
<1>1. CASE s > Limit
  BY <1>1 DEF Exceeds
<1>2. CASE ~(s > Limit)
  <2>1. Wrap(Limit - s) = Limit - s
    BY <1>2 DEF Wrap
  <2> QED
    BY <1>2, <2>1 DEF Exceeds
<1> QED
  BY <1>1, <1>2

LEMMA InitIInv == Init => IInv
<1> SUFFICES ASSUME Init PROVE IInv
  OBVIOUS
<1>1. TypeOK
  BY DEF Init, TypeOK
<1>2. CounterExact
  <2>1. SumFunction([p \in Procs |-> 0]) = 0
    BY SumZero
  <2> QED
    BY <2>1 DEF Init, CounterExact
<1>3. RoomWasSeen
  BY DEF Init, RoomWasSeen
<1> QED
  BY <1>1, <1>2, <1>3 DEF IInv

LEMMA TryReserveIInv ==
  ASSUME IInv, NEW p \in Procs, NEW s \in Sizes, TryReserve(p, s)
  PROVE  IInv'
<1>1. TypeOK'
  BY DEF IInv, TypeOK, TryReserve
<1>2. CounterExact'
  BY DEF IInv, CounterExact, TryReserve
<1>3. RoomWasSeen'
  BY DEF IInv, TypeOK, RoomWasSeen, TryReserve
<1> QED
  BY <1>1, <1>2, <1>3 DEF IInv

LEMMA LoadIInv ==
  ASSUME IInv, NEW p \in Procs, Load(p)
  PROVE  IInv'
<1>1. TypeOK'
  BY DEF IInv, TypeOK, Load, Return
<1>2. CounterExact'
  BY DEF IInv, CounterExact, Load
<1>3. RoomWasSeen'
  <2>1. Exceeds(size[p], used) <=> used + size[p] > Limit
    BY ExceedsIsExact DEF IInv, TypeOK
  <2>2. CASE Exceeds(size[p], used)
    BY <2>2 DEF IInv, TypeOK, RoomWasSeen, Load, Return
  <2>3. CASE ~Exceeds(size[p], used)
    BY <2>1, <2>3 DEF IInv, TypeOK, RoomWasSeen, Load
  <2> QED
    BY <2>2, <2>3
<1> QED
  BY <1>1, <1>2, <1>3 DEF IInv

LEMMA CompareAndSwapIInv ==
  ASSUME IInv, NEW p \in Procs, CompareAndSwap(p)
  PROVE  IInv'
<1>1. CASE used = loaded[p]
  <2>1. used + size[p] \in 0..Limit
    BY <1>1 DEF IInv, TypeOK, RoomWasSeen, CompareAndSwap
  <2>2. used' = used + size[p]
    BY <1>1, <2>1, WrapInRange DEF CompareAndSwap
  <2>3. owned' = [owned EXCEPT ![p] = owned[p] + size[p]]
    BY <1>1 DEF CompareAndSwap
  <2>4. /\ pc' = [pc EXCEPT ![p] = "idle"]
        /\ size' = [size EXCEPT ![p] = 0]
        /\ loaded' = [loaded EXCEPT ![p] = 0]
    BY <1>1 DEF CompareAndSwap, Return
  <2>5. TypeOK'
    BY <2>1, <2>2, <2>3, <2>4 DEF IInv, TypeOK
  <2>6. SumFunction(owned') = SumFunction(owned) - owned[p] + (owned[p] + size[p])
    <3>1. owned \in [Procs -> Int] /\ owned[p] + size[p] \in Int
      BY DEF IInv, TypeOK
    <3> QED
      BY <2>3, <3>1, SumChange
  <2>7. CounterExact'
    BY <2>1, <2>2, <2>6 DEF IInv, TypeOK, CounterExact
  <2>8. RoomWasSeen'
    BY <2>4 DEF IInv, TypeOK, RoomWasSeen
  <2> QED
    BY <2>5, <2>7, <2>8 DEF IInv
<1>2. CASE used # loaded[p]
  <2>1. /\ pc' = [pc EXCEPT ![p] = "load"]
        /\ loaded' = [loaded EXCEPT ![p] = 0]
        /\ UNCHANGED <<used, owned, size>>
    BY <1>2 DEF CompareAndSwap
  <2> QED
    BY <2>1 DEF IInv, TypeOK, CounterExact, RoomWasSeen
<1> QED
  BY <1>1, <1>2

LEMMA ReleaseIInv ==
  ASSUME IInv, NEW p \in Procs, NEW s \in Sizes, Release(p, s)
  PROVE  IInv'
<1>1. owned[p] \in Nat /\ s \in Nat /\ s <= owned[p]
  BY DEF IInv, TypeOK, Release
<1>2. owned[p] <= used
  BY SumElement DEF IInv, TypeOK, CounterExact
<1>3. used' = used - s
  <2>1. used - s \in 0..MaxInt
    BY <1>1, <1>2 DEF IInv, TypeOK
  <2> QED
    BY <2>1, WrapInRange DEF Release
<1>4. TypeOK'
  BY <1>1, <1>2, <1>3 DEF IInv, TypeOK, Release
<1>5. SumFunction(owned') = SumFunction(owned) - owned[p] + (owned[p] - s)
  <2>1. owned \in [Procs -> Int] /\ owned[p] - s \in Int
    BY <1>1 DEF IInv, TypeOK
  <2>2. owned' = [owned EXCEPT ![p] = owned[p] - s]
    BY DEF Release
  <2> QED
    BY <2>1, <2>2, SumChange
<1>6. CounterExact'
  BY <1>1, <1>2, <1>3, <1>5 DEF IInv, TypeOK, CounterExact
<1>7. RoomWasSeen'
  BY DEF IInv, RoomWasSeen, Release
<1> QED
  BY <1>4, <1>6, <1>7 DEF IInv

LEMMA StepIInv == IInv /\ [Next]_vars => IInv'
<1> SUFFICES ASSUME IInv, [Next]_vars PROVE IInv'
  OBVIOUS
<1>1. CASE UNCHANGED vars
  BY <1>1 DEF vars, IInv, TypeOK, CounterExact, RoomWasSeen
<1>2. CASE Next
  BY <1>2, LoadIInv, CompareAndSwapIInv, TryReserveIInv, ReleaseIInv DEF Next
<1> QED
  BY <1>1, <1>2

LEMMA Invariance == Spec => []IInv
BY InitIInv, StepIInv, PTL DEF Spec

\* For every number of goroutines: the counter is exactly what they own, and
\* they never own more than the limit (output.go:31-50).
THEOREM CounterIsExact == Spec => []CounterExact
<1>1. IInv => CounterExact
  BY DEF IInv
<1> QED
  BY <1>1, Invariance, PTL

\* Whatever the others do, a refusal means that the room was missing
\* (output.go:37-39).
THEOREM RefusalsAreHonest == Spec => RefusedWhenFull
<1> DEFINE A == \A p \in Procs :
                   pc[p] = "load" /\ pc'[p] = "idle" =>
                      SumFunction(owned) + size[p] > Limit
<1>1. ASSUME IInv, Next, NEW p \in Procs, pc[p] = "load", pc'[p] = "idle"
      PROVE  SumFunction(owned) + size[p] > Limit
  <2>1. PICK q \in Procs : \/ Load(q)
                           \/ CompareAndSwap(q)
                           \/ \E s \in Sizes : TryReserve(q, s) \/ Release(q, s)
    BY <1>1 DEF Next
  <2>2. CASE Load(q)
    <3>1. Exceeds(size[q], used)
      BY <1>1, <2>2 DEF IInv, TypeOK, Load
    <3>2. pc' = [pc EXCEPT ![q] = "idle"] /\ pc[q] = "load"
      BY <2>2, <3>1 DEF Load, Return
    <3>3. q = p
      BY <1>1, <3>2 DEF IInv, TypeOK
    <3> QED
      BY <1>1, <3>1, <3>3, ExceedsIsExact DEF IInv, TypeOK, CounterExact
  <2>3. CASE CompareAndSwap(q)
    BY <1>1, <2>3 DEF IInv, TypeOK, CompareAndSwap, Return
  <2>4. CASE \E s \in Sizes : TryReserve(q, s) \/ Release(q, s)
    BY <1>1, <2>4 DEF IInv, TypeOK, TryReserve, Release
  <2> QED
    BY <2>1, <2>2, <2>3, <2>4
<1>2. IInv /\ [Next]_vars => [A]_vars
  BY <1>1
<1> HIDE DEF A
<1>3. Spec => [][A]_vars
  BY <1>2, Invariance, PTL DEF Spec
<1> QED
  BY <1>3 DEF A, RefusedWhenFull
=============================================================================
