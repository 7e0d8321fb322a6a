--------------------------- MODULE AgentPool_proofs ---------------------------
(***************************************************************************)
(* Safety of AgentPool for any set of callers and any number of slots.     *)
(***************************************************************************)
EXTENDS AgentPool, FiniteSetTheorems, TLAPS

USE MaxAgentConnsAssumption, NoneAssumption

LEMMA InitIInv == Init => IInv
<1> SUFFICES ASSUME Init PROVE IInv
  OBVIOUS
<1>1. TypeOK
  BY DEF Init, TypeOK, Kinds
<1>2. Holders = {}
  BY DEF Init, Holders
<1>3. IsFiniteSet(Holders) /\ SlotsExact
  BY <1>2, FS_EmptySet DEF Init, SlotsExact
<1>4. Attached
  BY DEF Init, Attached
<1>5. ExclusiveUse
  BY DEF Init, ExclusiveUse
<1> QED
  BY <1>1, <1>3, <1>4, <1>5 DEF IInv

-----------------------------------------------------------------------------
(* Types.                                                                   *)

LEMMA TypeStep ==
  ASSUME TypeOK, Attached, slots' \in Nat, Next
  PROVE  TypeOK'
<1>1. ASSUME NEW c \in Callers, NEW k \in Kinds, Request(c, k) PROVE TypeOK'
  BY <1>1 DEF TypeOK, Request, Goto, At
<1>2. ASSUME NEW c \in Callers, Acquire(c) PROVE TypeOK'
  BY <1>2 DEF TypeOK, Acquire, Goto, At
<1>3. ASSUME NEW c \in Callers, GetConn(c) PROVE TypeOK'
  BY <1>3 DEF TypeOK, GetConn, PoolHit, PoolMiss, Goto, At
<1>4. ASSUME NEW c \in Callers, Dial(c) PROVE TypeOK'
  BY <1>4 DEF TypeOK, Dial, DialSucceeds, newKeyAgentFails, Goto, At
<1>5. ASSUME NEW c \in Callers, Answered(c) PROVE TypeOK'
  <2>1. ka[c] \in Conns
    BY <1>5 DEF Answered, At, Attached, TypeOK
  <2>2. broken' \subseteq Conns
    BY <1>5, <2>1 DEF Answered, TypeOK
  <2>3. cached' \in [Callers -> BOOLEAN]
    BY <1>5 DEF Answered, TypeOK
  <2> QED
    BY <1>5, <2>2, <2>3 DEF Answered, TypeOK, Goto
<1>6. ASSUME NEW c \in Callers, PoolPut(c) PROVE TypeOK'
  <2>1. ka[c] \in Conns
    BY <1>6 DEF PoolPut, At, Attached, TypeOK
  <2> QED
    BY <1>6, <2>1 DEF TypeOK, PoolPut, Goto
<1>7. ASSUME NEW c \in Callers, Release(c) PROVE TypeOK'
  BY <1>7 DEF TypeOK, Release, Goto, At
<1>8. ASSUME NEW conn \in Conns, Collect(conn) PROVE TypeOK'
  BY <1>8 DEF TypeOK, Collect
<1> QED
  BY <1>1, <1>2, <1>3, <1>4, <1>5, <1>6, <1>7, <1>8 DEF Next

-----------------------------------------------------------------------------
(* Slots: a request holds one from Acquire to Release or to a failed dial.  *)

\* Who holds a slot, after a step of one caller.
LEMMA HoldersAfter ==
  ASSUME TypeOK, NEW c \in Callers, NEW where, Goto(c, where)
  PROVE  Holders' = IF where \in {"idle", "limit"} THEN Holders \ {c}
                                                   ELSE Holders \cup {c}
  BY DEF TypeOK, Goto, Holders

LEMMA SlotsKept ==
  ASSUME IsFiniteSet(Holders), SlotsExact, Holders' = Holders, slots' = slots
  PROVE  IsFiniteSet(Holders)' /\ SlotsExact' /\ slots' \in Nat
  BY FS_CardinalityType DEF SlotsExact

LEMMA SlotTaken ==
  ASSUME TypeOK, IsFiniteSet(Holders), SlotsExact, NEW c \in Callers, Acquire(c)
  PROVE  IsFiniteSet(Holders)' /\ SlotsExact' /\ slots' \in Nat
<1>1. Holders' = Holders \cup {c} /\ c \notin Holders
  BY HoldersAfter DEF Acquire, At, Holders
<1>2. IsFiniteSet(Holders') /\ Cardinality(Holders') = Cardinality(Holders) + 1
  BY <1>1, FS_AddElement
<1> QED
  BY <1>2, FS_CardinalityType DEF Acquire, SlotsExact

LEMMA SlotGiven ==
  ASSUME TypeOK, IsFiniteSet(Holders), SlotsExact, NEW c \in Callers,
         newKeyAgentFails(c) \/ Release(c)
  PROVE  IsFiniteSet(Holders)' /\ SlotsExact' /\ slots' \in Nat
<1>1. Holders' = Holders \ {c} /\ c \in Holders
  BY HoldersAfter DEF newKeyAgentFails, Release, At, Holders
<1>2. IsFiniteSet(Holders') /\ Cardinality(Holders') = Cardinality(Holders) - 1
  BY <1>1, FS_RemoveElement
<1>3. Cardinality(Holders') \in Nat
  BY <1>2, FS_CardinalityType
<1> QED
  BY <1>2, <1>3, FS_CardinalityType DEF newKeyAgentFails, Release, SlotsExact

LEMMA SlotsStep ==
  ASSUME TypeOK, IsFiniteSet(Holders), SlotsExact, Next
  PROVE  IsFiniteSet(Holders)' /\ SlotsExact' /\ slots' \in Nat
<1>1. ASSUME NEW c \in Callers, NEW k \in Kinds, Request(c, k)
      PROVE  Holders' = Holders /\ slots' = slots
  BY <1>1, HoldersAfter DEF Request, At, Holders
<1>2. ASSUME NEW c \in Callers, GetConn(c)
      PROVE  Holders' = Holders /\ slots' = slots
  BY <1>2, HoldersAfter DEF GetConn, PoolHit, PoolMiss, At, Holders
<1>3. ASSUME NEW c \in Callers, NEW conn \in Conns, DialSucceeds(c, conn)
      PROVE  Holders' = Holders /\ slots' = slots
  BY <1>3, HoldersAfter DEF DialSucceeds, At, Holders
<1>4. ASSUME NEW c \in Callers, Answered(c) \/ PoolPut(c)
      PROVE  Holders' = Holders /\ slots' = slots
  BY <1>4, HoldersAfter DEF Answered, PoolPut, At, Holders
<1>5. ASSUME NEW conn \in Conns, Collect(conn)
      PROVE  Holders' = Holders /\ slots' = slots
  BY <1>5 DEF Collect, Holders
<1> QED
  BY <1>1, <1>2, <1>3, <1>4, <1>5, SlotsKept, SlotTaken, SlotGiven DEF Next, Dial

-----------------------------------------------------------------------------
(* Connections: where each one is.                                          *)

LEMMA ConnStep ==
  ASSUME TypeOK, Attached, ExclusiveUse, Next
  PROVE  Attached' /\ ExclusiveUse'
<1>1. ASSUME NEW c \in Callers, NEW k \in Kinds, Request(c, k)
      PROVE  Attached' /\ ExclusiveUse'
  BY <1>1 DEF Request, Goto, At, TypeOK, Attached, ExclusiveUse
<1>2. ASSUME NEW c \in Callers, Acquire(c) \/ PoolMiss(c) \/ newKeyAgentFails(c)
                                  \/ Release(c)
      PROVE  Attached' /\ ExclusiveUse'
  BY <1>2 DEF Acquire, PoolMiss, newKeyAgentFails, Release, Goto, At, TypeOK,
              Attached, ExclusiveUse
<1>3. ASSUME NEW c \in Callers, NEW conn \in Conns, PoolHit(c, conn)
      PROVE  Attached' /\ ExclusiveUse'
  BY <1>3 DEF PoolHit, Goto, At, TypeOK, Attached, ExclusiveUse
<1>4. ASSUME NEW c \in Callers, NEW conn \in Conns, DialSucceeds(c, conn)
      PROVE  Attached' /\ ExclusiveUse'
  BY <1>4 DEF DialSucceeds, Goto, At, TypeOK, Attached, ExclusiveUse
<1>5. ASSUME NEW c \in Callers, Answered(c)
      PROVE  Attached' /\ ExclusiveUse'
  BY <1>5 DEF Answered, Goto, At, TypeOK, Attached, ExclusiveUse
<1>6. ASSUME NEW c \in Callers, PoolPut(c)
      PROVE  Attached' /\ ExclusiveUse'
  BY <1>6 DEF PoolPut, Goto, At, TypeOK, Attached, ExclusiveUse
<1>7. ASSUME NEW conn \in Conns, Collect(conn)
      PROVE  Attached' /\ ExclusiveUse'
  BY <1>7 DEF Collect, TypeOK, Attached, ExclusiveUse
<1> QED
  BY <1>1, <1>2, <1>3, <1>4, <1>5, <1>6, <1>7 DEF Next, GetConn, Dial

-----------------------------------------------------------------------------
LEMMA StepIInv == IInv /\ [Next]_vars => IInv'
<1> SUFFICES ASSUME IInv, [Next]_vars PROVE IInv'
  OBVIOUS
<1>1. CASE Next
  BY <1>1, SlotsStep, TypeStep, ConnStep DEF IInv
<1>2. CASE UNCHANGED vars
  BY <1>2 DEF vars, IInv, TypeOK, Holders, SlotsExact, Attached, ExclusiveUse
<1> QED
  BY <1>1, <1>2

\* The inductive invariant holds in every reachable state (agent_wrap.go:60-79).
THEOREM Invariance == Spec => []IInv
  BY InitIInv, StepIInv, PTL DEF Spec

\* Every slot of the agent pool is held by one request, whichever way its dial
\* and its use end, and there are never more than MaxAgentConns requests that
\* use the agent (agent_wrap.go:60-79).
THEOREM SlotsTheorem == Spec => []SlotsExact
<1>1. IInv => SlotsExact
  BY DEF IInv
<1> QED
  BY <1>1, Invariance, PTL

\* No two requests use one agent connection, and none uses one that is in the
\* pool, where the garbage collector may close it (agent_wrap.go:62-64, 73-78).
THEOREM ExclusiveTheorem == Spec => []ExclusiveUse
<1>1. IInv => ExclusiveUse
  BY DEF IInv
<1> QED
  BY <1>1, Invariance, PTL
=============================================================================
