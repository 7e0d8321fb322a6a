------------------------------ MODULE AgentPool ------------------------------
(***************************************************************************)
(* connPools and agentClient (pkg/pssh/agent_wrap.go): the SSH Agent       *)
(* sockets that the authenticating workers share.  A request takes a slot  *)
(* of the channel `limit`, then a connection out of a sync.Pool or a fresh *)
(* one, and gives both back when the agent has answered.                   *)
(*                                                                         *)
(* sync.Pool is modelled from how connPools uses it: a Get may miss a      *)
(* connection another processor has put back, and the garbage collector    *)
(* may drop an idle one, whose finalizer then closes the socket.  The pool  *)
(* is shared; an agentClient belongs to one worker (sshKeyAgentCallback).  *)
(***************************************************************************)
EXTENDS Integers, FiniteSets

CONSTANTS
    Callers,        \* workers that authenticate
    Conns,          \* bound: identities of the sockets open at one time
    MaxAgentConns,  \* Config.MaxAgentConns, the capacity of `limit`
    None            \* no connection

ASSUME MaxAgentConnsAssumption == MaxAgentConns \in Nat \ {0}    \* Validate
\* There is always a free identity for a caller that finds the pool empty.
ASSUME ConnsAssumption ==
    IsFiniteSet(Conns) /\ Cardinality(Conns) >= MaxAgentConns
ASSUME NoneAssumption == None \notin Conns

VARIABLES
    pc,         \* where the request of each caller is
    kind,       \* "List" | "Sign": what it asks for
    slots,      \* len(limit)
    ka,         \* the keyAgent each caller uses, or None
    pool,       \* connections in the sync.Pool
    open,       \* sockets connected to the agent
    broken,     \* open sockets that the agent has given up
    cached      \* signers # nil in the agentClient of each caller

vars == <<pc, kind, slots, ka, pool, open, broken, cached>>

Kinds == {"List", "Sign"}

At(c, where) == pc[c] = where
Goto(c, where) == pc' = [pc EXCEPT ![c] = where]

Init ==
    /\ pc = [c \in Callers |-> "idle"]
    /\ kind = [c \in Callers |-> "List"]
    /\ slots = 0
    /\ ka = [c \in Callers |-> None]
    /\ pool = {} /\ open = {} /\ broken = {}
    /\ cached = [c \in Callers |-> FALSE]

\* Signers (a List unless the keys are cached), or a Sign with one of the keys.
Request(c, k) ==
    /\ At(c, "idle")
    /\ k = "List" <=> ~cached[c]
    /\ kind' = [kind EXCEPT ![c] = k]
    /\ Goto(c, "limit")
    /\ UNCHANGED <<slots, ka, pool, open, broken, cached>>

\* Get: cp.limit <- struct{}{}
Acquire(c) ==
    /\ At(c, "limit")
    /\ slots < MaxAgentConns
    /\ slots' = slots + 1
    /\ Goto(c, "pool")
    /\ UNCHANGED <<kind, ka, pool, open, broken, cached>>

\* Mutant: the connection is used but not taken out of the pool.
PoolHit_shared(c, conn) ==
    /\ At(c, "pool")
    /\ conn \in pool
    /\ ka' = [ka EXCEPT ![c] = conn]
    /\ UNCHANGED pool
    /\ Goto(c, "use")
    /\ UNCHANGED <<kind, slots, open, broken, cached>>

\* cp.connPool.Get() # nil
PoolHit(c, conn) ==
    /\ At(c, "pool")
    /\ conn \in pool
    /\ ka' = [ka EXCEPT ![c] = conn]
    /\ pool' = pool \ {conn}
    /\ Goto(c, "use")
    /\ UNCHANGED <<kind, slots, open, broken, cached>>

\* cp.connPool.Get() = nil, whether or not the pool is empty (as long as Conns
\* has an identity for the new socket).
PoolMiss(c) ==
    /\ At(c, "pool")
    /\ Cardinality(open) + Cardinality({d \in Callers : At(d, "dial")})
           < Cardinality(Conns)
    /\ Goto(c, "dial")
    /\ UNCHANGED <<kind, slots, ka, pool, open, broken, cached>>

\* newKeyAgent: the dial succeeds, at once or repeated after temporary errors
\* (a caller that backs off stays here) ...
DialSucceeds(c, conn) ==
    /\ At(c, "dial")
    /\ conn \notin open
    /\ open' = open \cup {conn}
    /\ ka' = [ka EXCEPT ![c] = conn]
    /\ Goto(c, "use")
    /\ UNCHANGED <<kind, slots, pool, broken, cached>>

\* Mutant: a failed dial keeps its slot.
newKeyAgentFails_leaks(c) ==
    /\ At(c, "dial")
    /\ slots' = slots
    /\ Goto(c, "idle")
    /\ UNCHANGED <<kind, ka, pool, open, broken, cached>>

\* ... or fails for good: <-cp.limit, and the request returns the error.
newKeyAgentFails(c) ==
    /\ At(c, "dial")
    /\ slots' = slots - 1
    /\ Goto(c, "idle")
    /\ UNCHANGED <<kind, ka, pool, open, broken, cached>>

\* ka.List() or ka.Sign() returns; on a broken connection it fails, and a
\* connection may break now.  Signers caches the keys of a List.
Answered(c) ==
    /\ At(c, "use")
    /\ broken' \in {broken, broken \cup {ka[c]}}
    /\ cached' = [cached EXCEPT ![c] = @ \/ ka[c] \notin broken']
    /\ Goto(c, "put")
    /\ UNCHANGED <<kind, slots, ka, pool, open>>

\* Put: cp.connPool.Put(ka), broken or not ...
PoolPut(c) ==
    /\ At(c, "put")
    /\ pool' = pool \cup {ka[c]}
    /\ ka' = [ka EXCEPT ![c] = None]
    /\ Goto(c, "release")
    /\ UNCHANGED <<kind, slots, open, broken, cached>>

\* Mutant: Put does not give the slot back.
Release_leaks(c) ==
    /\ At(c, "release")
    /\ slots' = slots
    /\ Goto(c, "idle")
    /\ UNCHANGED <<kind, ka, pool, open, broken, cached>>

\* ... then <-cp.limit.
Release(c) ==
    /\ At(c, "release")
    /\ slots' = slots - 1
    /\ Goto(c, "idle")
    /\ UNCHANGED <<kind, ka, pool, open, broken, cached>>

\* The garbage collector empties the pool; the socket of an unreachable
\* keyAgent is closed by its finalizer.
Collect(conn) ==
    /\ conn \in pool
    /\ pool' = pool \ {conn}
    /\ open' = open \ {conn}
    /\ broken' = broken \ {conn}
    /\ UNCHANGED <<kind, pc, slots, ka, cached>>

GetConn(c) ==
    \/ PoolMiss(c)
    \/ \E conn \in Conns : PoolHit(c, conn)

Dial(c) ==
    \/ newKeyAgentFails(c)
    \/ \E conn \in Conns : DialSucceeds(c, conn)

Next ==
    \/ \E c \in Callers :
          \/ \E k \in Kinds : Request(c, k)
          \/ Acquire(c) \/ GetConn(c) \/ Dial(c) \/ Answered(c)
          \/ PoolPut(c) \/ Release(c)
    \/ \E conn \in Conns : Collect(conn)

Spec == Init /\ [][Next]_vars

\* Go wakes the goroutines that wait for room in a channel in their order of
\* arrival, hence strong fairness of Acquire.  The exponential backoff ends
\* after its MaxElapsedTime, and the agent answers or hangs up.
LiveSpec ==
    /\ Spec
    /\ \A c \in Callers :
          /\ SF_vars(Acquire(c))
          /\ WF_vars(GetConn(c)) /\ WF_vars(Dial(c)) /\ WF_vars(Answered(c))
          /\ WF_vars(PoolPut(c)) /\ WF_vars(Release(c))

-----------------------------------------------------------------------------
(*                                properties                                *)

TypeOK ==
    /\ pc \in [Callers -> {"idle", "limit", "pool", "dial", "use", "put",
                          "release"}]
    /\ kind \in [Callers -> Kinds]
    /\ slots \in Nat
    /\ ka \in [Callers -> Conns \cup {None}]
    /\ pool \subseteq Conns /\ open \subseteq Conns /\ broken \subseteq Conns
    /\ cached \in [Callers -> BOOLEAN]

\* Every slot is held by one request, from Get to the end of Put, whichever
\* way it ends, and at most MaxAgentConns requests dial or talk to the agent
\* at any time (agent_wrap.go:60-79).
Holders == {c \in Callers : pc[c] \notin {"idle", "limit"}}

SlotsExact ==
    /\ slots = Cardinality(Holders)
    /\ slots <= MaxAgentConns

\* A connection belongs to one request or to the pool, never to two requests
\* and never to both: request and reply of two workers cannot mix on one
\* socket, and the collector never closes a socket in use
\* (agent_wrap.go:62-64, 73-78).
ExclusiveUse ==
    /\ \A c, d \in Callers : c # d /\ ka[c] # None => ka[c] # ka[d]
    /\ \A c \in Callers : ka[c] \notin pool
    /\ open = pool \cup {ka[c] : c \in {d \in Callers : ka[d] # None}}

\* Inductive: a request has a connection exactly from the Get that returned to
\* its Put, and only open connections are broken (agent_wrap.go:60-79).
Attached ==
    /\ \A c \in Callers : ka[c] # None <=> pc[c] \in {"use", "put"}
    /\ broken \subseteq open

IInv == TypeOK /\ IsFiniteSet(Holders) /\ SlotsExact /\ Attached /\ ExclusiveUse

\* Every request ends, also when dials fail, connections break and more
\* workers than slots wait (agent_wrap.go:60-79).
RequestServed == \A c \in Callers : At(c, "limit") ~> At(c, "idle")
=============================================================================
