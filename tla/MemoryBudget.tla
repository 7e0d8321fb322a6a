---------------------------- MODULE MemoryBudget ----------------------------
(***************************************************************************)
(* memoryBudget (pkg/pssh/output.go): an int64 counter with a limit that   *)
(* every reader goroutine reserves from and releases to without a lock.    *)
(* TryReserve is a loop around a load and a compare-and-swap, so the       *)
(* counter may change between the two.  Arithmetic wraps around, as in Go. *)
(*                                                                         *)
(* SpillBuffer uses the budget as if TryReserve were one step; this module *)
(* is what justifies that.                                                 *)
(***************************************************************************)
EXTENDS Integers, FiniteSets, Functions

CONSTANTS
    Procs,      \* the goroutines that share the budget
    MaxInt,     \* the largest value of the counter's type (Go: 2^63 - 1)
    Limit,      \* memoryBudget.limit
    Sizes       \* sizes that are reserved (lengths, so never negative)

ASSUME ProcsAssumption == IsFiniteSet(Procs)
ASSUME MaxIntAssumption == MaxInt \in Nat
ASSUME LimitAssumption == Limit \in Nat /\ Limit <= MaxInt
ASSUME SizesAssumption == Sizes \subseteq Nat /\ \A s \in Sizes : s <= MaxInt

\* The value of a sum or difference x in two's complement.
Wrap(x) == IF x > MaxInt THEN x - 2 * (MaxInt + 1)
           ELSE IF x < -(MaxInt + 1) THEN x + 2 * (MaxInt + 1)
           ELSE x

VARIABLES
    used,       \* memoryBudget.used
    pc,         \* "idle" | "load" | "cas": where each goroutine is
    size,       \* argument of the TryReserve in progress
    loaded,     \* the value it loaded
    owned       \* what each goroutine has reserved and not released

vars == <<used, pc, size, loaded, owned>>

Init ==
    /\ used = 0
    /\ pc = [p \in Procs |-> "idle"]
    /\ size = [p \in Procs |-> 0]
    /\ loaded = [p \in Procs |-> 0]
    /\ owned = [p \in Procs |-> 0]

TryReserve(p, s) ==
    /\ pc[p] = "idle"
    /\ pc' = [pc EXCEPT ![p] = "load"]
    /\ size' = [size EXCEPT ![p] = s]
    /\ UNCHANGED <<used, loaded, owned>>

\* Mutant: the last unit of the limit is never given out.
Exceeds_offByOne(s, u) == s > Limit \/ u >= Wrap(Limit - s)

\* size > limit || used > limit-size: subtracting from the limit rather than
\* adding to the counter keeps the comparison from overflowing.
Exceeds(s, u) == s > Limit \/ u > Wrap(Limit - s)

Return(p) ==
    /\ pc' = [pc EXCEPT ![p] = "idle"]
    /\ size' = [size EXCEPT ![p] = 0]

\* used := b.used.Load(), and `return false` when there is no room.
Load(p) ==
    /\ pc[p] = "load"
    /\ IF Exceeds(size[p], used)
       THEN /\ Return(p)
            /\ UNCHANGED loaded
       ELSE /\ pc' = [pc EXCEPT ![p] = "cas"]
            /\ loaded' = [loaded EXCEPT ![p] = used]
            /\ UNCHANGED size
    /\ UNCHANGED <<used, owned>>

\* Mutant: Store instead of CompareAndSwap.
CompareAndSwap_store(p) ==
    /\ pc[p] = "cas"
    /\ IF TRUE
       THEN /\ used' = Wrap(loaded[p] + size[p])
            /\ owned' = [owned EXCEPT ![p] = @ + size[p]]
            /\ Return(p)
       ELSE /\ pc' = [pc EXCEPT ![p] = "load"]
            /\ UNCHANGED <<used, owned, size>>
    /\ loaded' = [loaded EXCEPT ![p] = 0]

\* Mutant: the swap is repeated without loading the counter again.
CompareAndSwap_noReload(p) ==
    /\ pc[p] = "cas"
    /\ IF used = loaded[p]
       THEN /\ used' = Wrap(used + size[p])
            /\ owned' = [owned EXCEPT ![p] = @ + size[p]]
            /\ Return(p)
            /\ loaded' = [loaded EXCEPT ![p] = 0]
       ELSE /\ UNCHANGED pc
            /\ UNCHANGED <<used, owned, size, loaded>>

\* b.used.CompareAndSwap(used, used+size); the loop starts again if it fails.
CompareAndSwap(p) ==
    /\ pc[p] = "cas"
    /\ IF used = loaded[p]
       THEN /\ used' = Wrap(used + size[p])
            /\ owned' = [owned EXCEPT ![p] = @ + size[p]]
            /\ Return(p)
       ELSE /\ pc' = [pc EXCEPT ![p] = "load"]
            /\ UNCHANGED <<used, owned, size>>
    /\ loaded' = [loaded EXCEPT ![p] = 0]

\* Goroutines release what they reserved, in one piece or in several.
Release(p, s) ==
    /\ pc[p] = "idle"
    /\ s > 0
    /\ s <= owned[p]
    /\ used' = Wrap(used - s)
    /\ owned' = [owned EXCEPT ![p] = @ - s]
    /\ UNCHANGED <<pc, size, loaded>>

Next ==
    \E p \in Procs :
        \/ Load(p)
        \/ CompareAndSwap(p)
        \/ \E s \in Sizes : TryReserve(p, s) \/ Release(p, s)

Spec == Init /\ [][Next]_vars

\* A goroutine in TryReserve keeps running.
LiveSpec ==
    Spec /\ \A p \in Procs : WF_vars(Load(p) \/ CompareAndSwap(p))

-----------------------------------------------------------------------------
(*                                properties                                *)

\* However loads, swaps and releases interleave, and up to the largest limit
\* an int64 can hold, the counter is exactly what the goroutines own, and that
\* never exceeds the limit: no reservation or release is lost between a load
\* and a swap, and the counter never wraps around (output.go:31-50).
CounterExact ==
    /\ used = SumFunction(owned)
    /\ used <= Limit

\* A reservation is refused only when, at the load, the rest of the limit is
\* smaller than the size (output.go:37-39).
RefusedWhenFull ==
    [][\A p \in Procs :
          pc[p] = "load" /\ pc'[p] = "idle" =>
              SumFunction(owned) + size[p] > Limit]_vars

\* The loop ends as soon as the other goroutines leave the counter alone: a
\* failed swap loads the counter again (output.go:35-43).
ReserveReturns ==
    \A p \in Procs :
        <>[](\A q \in Procs \ {p} : pc[q] = "idle") => []<>(pc[p] = "idle")

-----------------------------------------------------------------------------
(*                  an inductive invariant (MemoryBudget_proofs)            *)

TypeOK ==
    /\ used \in 0..Limit
    /\ pc \in [Procs -> {"idle", "load", "cas"}]
    /\ size \in [Procs -> 0..MaxInt]
    /\ loaded \in [Procs -> 0..Limit]
    /\ owned \in [Procs -> Nat]

\* A swap that succeeds stays within the limit: what was loaded left room.
RoomWasSeen ==
    \A p \in Procs : pc[p] = "cas" => loaded[p] + size[p] <= Limit

IInv == TypeOK /\ CounterExact /\ RoomWasSeen
=============================================================================
