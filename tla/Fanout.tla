------------------------------- MODULE Fanout -------------------------------
(***************************************************************************)
(* What one RunContext promises its caller, without workers, channels,     *)
(* semaphores or spool files: targets are reported one at a time, each at  *)
(* most once (in input order when the output is sorted); the call returns  *)
(* after all of them were reported, or earlier when it was interrupted;    *)
(* and the exit code it returns is the exit policy applied to what was     *)
(* reported, or 1 for an interrupted or refused run.                       *)
(*                                                                         *)
(* Executor.tla is shown to implement this module.                         *)
(***************************************************************************)
EXTENDS Naturals, Sequences

CONSTANTS
    NumTargets,    \* len(p.cws); targets are numbered from 1
    Codes,         \* exit codes a result can carry
    Policies,      \* values of Config.ExitPolicy under consideration
    Orders         \* values of Config.SortPrint under consideration

Targets == 1..NumTargets

\* One reported result: its target, its exit code, and whether printing it or
\* removing its spool file failed locally.
Report == [con : Targets, code : Codes, err : BOOLEAN]

VARIABLES
    conf,          \* [policy, sortPrint]: the configuration of this run
    emitted,       \* reports in the order they were made
    interrupted,   \* the caller's context was canceled
    status,        \* "running" | "returned" | "died"
    code           \* what RunContext returned (0 while running)

vars == <<conf, emitted, interrupted, status, code>>

EmittedTargets == {emitted[i].con : i \in DOMAIN emitted}

-----------------------------------------------------------------------------
(* The exit policies, as README.md ("stdout, stderr, color, and exit        *)
(* codes") and aggregateCode give them: "first" is the first report in      *)
(* output order that is not clean, "any" is 1 if there is one, and          *)
(* "always-zero" ignores what the remote side did.                          *)

Verdict(r) == IF r.code # 0 THEN r.code ELSE IF r.err THEN 1 ELSE 0

Unclean(reports) == {i \in DOMAIN reports : Verdict(reports[i]) # 0}

First(S) == CHOOSE i \in S : \A j \in S : i <= j

PolicyCode(policy, reports) ==
    IF policy = "always-zero"
    THEN IF \E i \in DOMAIN reports : reports[i].err THEN 1 ELSE 0
    ELSE IF Unclean(reports) = {} THEN 0
    ELSE IF policy = "any" THEN 1
    ELSE Verdict(reports[First(Unclean(reports))])

-----------------------------------------------------------------------------
Init ==
    /\ conf \in [policy : Policies, sortPrint : Orders]
    /\ emitted = <<>>
    /\ interrupted = FALSE
    /\ status = "running"
    /\ code = 0

Emit(r) ==
    /\ status = "running"
    /\ r.con \notin EmittedTargets
    /\ conf.sortPrint => r.con = Len(emitted) + 1
    /\ emitted' = Append(emitted, r)
    /\ UNCHANGED <<conf, interrupted, status, code>>

Interrupt ==
    /\ status = "running"
    /\ interrupted' = TRUE
    /\ UNCHANGED <<conf, emitted, status, code>>

\* Every target was reported: the exit policy decides.
ReturnComplete ==
    /\ status = "running"
    /\ EmittedTargets = Targets
    /\ code' = PolicyCode(conf.policy, emitted)
    /\ status' = "returned"
    /\ UNCHANGED <<conf, emitted, interrupted>>

\* Interrupted, or refused before any target was contacted: never 0.
ReturnEarly ==
    /\ status = "running"
    /\ interrupted \/ emitted = <<>>
    /\ code' = 1
    /\ status' = "returned"
    /\ UNCHANGED <<conf, emitted, interrupted>>

\* log.Fatal: stdin could not be read.
Die ==
    /\ status = "running"
    /\ emitted = <<>>
    /\ status' = "died"
    /\ UNCHANGED <<conf, emitted, interrupted, code>>

Next ==
    \/ \E r \in Report : Emit(r)
    \/ Interrupt
    \/ ReturnComplete
    \/ ReturnEarly
    \/ Die

Spec == Init /\ [][Next]_vars
=============================================================================
