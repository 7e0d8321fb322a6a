------------------------------ MODULE Executor ------------------------------
(***************************************************************************)
(* RunContext (pkg/pssh/pssh.go) and the goroutines it coordinates:        *)
(*                                                                         *)
(*   main      the caller of RunContext: set-up, reading stdin, sending    *)
(*             the command to every worker, collecting results, cancel(),  *)
(*             workerWG.Wait() and the deferred removal of the spool       *)
(*   launcher  `go p.launchConWorkers(ctx)`: one semaphore slot per worker *)
(*   workers   one conWorker goroutine per target                          *)
(*                                                                         *)
(* They share the semaphore channel concurrentGoroutines, the WaitGroup    *)
(* workerWG, a command channel per worker (capacity 1), one results        *)
(* channel (capacity len(hosts)), the derived context and the spool        *)
(* directory.                                                              *)
(*                                                                         *)
(* What happens inside one SSH session is the module Session; here a       *)
(* session spools or not and ends with some exit code.  Targets are        *)
(* numbered from 1 (Go: 0).                                                *)
(***************************************************************************)
EXTENDS Integers, Sequences, FiniteSets

CONSTANTS
    NumTargets,      \* len(hosts)
    SessionCodes,    \* exit codes a session's result may carry
    Configs          \* configurations under consideration: ExitPolicy,
                     \* SortPrint and Concurrency of a Config

ASSUME NumTargetsAssumption  == NumTargets \in Nat
ASSUME CodesAssumption       == SessionCodes \subseteq Nat /\ 0 \in SessionCodes
ASSUME ConfigsAssumption     ==                               \* Validate
    Configs \subseteq [policy      : STRING,
                       sortPrint   : BOOLEAN,
                       concurrency : Nat \ {0}]

Targets == 1..NumTargets

ConnectFailureCode == 255

Codes == SessionCodes \cup {ConnectFailureCode}

Result == [con : Targets, code : Codes]

VARIABLES
    conf,        \* the configuration of this run
    ctx,         \* derived context: "live" | "interrupted" (by the caller)
                 \*   | "finished" (canceled by main's own cancel())
    main,        \* where RunContext is
    sent,        \* commands sent so far
    iter,        \* completed iterations of the collector's loop
    cur,         \* printSortResults' cur: next target to print
    held,        \* results received and not printed yet (resSlise)
    emitted,     \* reports in output order: [con, code, err]
    firstCode,   \* the collector's firstCode, then RunContext's result
    launcher,    \* where launchConWorkers is
    next,        \* index of the worker it handles
    slots,       \* len(concurrentGoroutines)
    wg,          \* counter of workerWG
    pc,          \* where each worker is
    cmd,         \* workers whose command channel holds the command
    outcome,     \* the exit code of the result a worker has made
    conns,       \* workers with an open SSH connection
    results,     \* the results channel
    spool,       \* workers whose result owns a spool file
    spoolDir     \* the spool directory exists

collectorVars == <<iter, cur, held, emitted, firstCode>>
launcherVars  == <<launcher, next>>
syncVars      == <<slots, wg>>
workerVars    == <<pc, outcome, conns>>
channelVars   == <<cmd, results>>
storageVars   == <<spool, spoolDir>>
vars == <<conf, ctx, main, sent, collectorVars, launcherVars, syncVars,
          workerVars, channelVars, storageVars>>

Canceled == ctx # "live"                    \* ctx.Err() # nil

-----------------------------------------------------------------------------
(*                                  main                                    *)

Init ==
    /\ conf \in Configs
    /\ ctx = "live"
    /\ main = "setup"
    /\ sent = 0 /\ iter = 0 /\ cur = 1
    /\ held = {} /\ emitted = <<>> /\ firstCode = 0
    /\ launcher = "idle" /\ next = 1
    /\ slots = 0 /\ wg = 0
    /\ pc = [w \in Targets |-> "unlaunched"]
    /\ cmd = {}
    /\ outcome = [w \in Targets |-> 0]
    /\ conns = {}
    /\ results = <<>>
    /\ spool = {} /\ spoolDir = FALSE

\* Config, hosts file or known_hosts refused: return 1 (the spool clean-up is
\* already deferred).
SetupFails ==
    /\ main = "setup"
    /\ main' = "cleanup"
    /\ firstCode' = 1
    /\ UNCHANGED <<conf, ctx, sent, iter, cur, held, emitted, launcherVars,
                   syncVars, workerVars, channelVars, storageVars>>

\* workerWG.Add(len(p.cws)); go p.launchConWorkers(ctx).
StartLauncher ==
    /\ main = "setup"
    /\ main' = "stdin"
    /\ wg' = NumTargets
    /\ launcher' = "check"
    /\ UNCHANGED <<conf, ctx, sent, collectorVars, next, slots, workerVars,
                   channelVars, storageVars>>

ReadStdin ==
    /\ main = "stdin"
    /\ main' = "dispatch"
    /\ UNCHANGED <<conf, ctx, sent, collectorVars, launcherVars, syncVars,
                   workerVars, channelVars, storageVars>>

\* log.Fatal: the process ends here, deferred functions do not run.
StdinFails ==
    /\ main = "stdin"
    /\ main' = "died"
    /\ UNCHANGED <<conf, ctx, sent, collectorVars, launcherVars, syncVars,
                   workerVars, channelVars, storageVars>>

\* p.cws[i].command <- in, for every worker, launched or not.
Dispatch ==
    /\ main = "dispatch"
    /\ IF sent < NumTargets
       THEN /\ sent + 1 \notin cmd                    \* capacity 1
            /\ cmd' = cmd \cup {sent + 1}
            /\ sent' = sent + 1
            /\ main' = main
       ELSE /\ main' = "collect"
            /\ UNCHANGED <<sent, cmd>>
    /\ UNCHANGED <<conf, ctx, collectorVars, launcherVars, syncVars,
                   workerVars, results, storageVars>>

\* Mutant: a result per collector turn should do.
Capacity_one == 1

\* make(chan *result, len(hosts))
Capacity == NumTargets

\* case res := <-results
Receive ==
    /\ main = "collect"
    /\ iter < NumTargets
    /\ results # <<>>
    /\ held' = held \cup {Head(results)}
    /\ results' = Tail(results)
    /\ main' = "emit"
    /\ UNCHANGED <<conf, ctx, sent, iter, cur, emitted, firstCode,
                   launcherVars, syncVars, workerVars, cmd, storageVars>>

\* Mutant: an interrupted iteration does not count as a failure.
CollectCanceled_keepsCode ==
    /\ main = "collect"
    /\ iter < NumTargets
    /\ Canceled
    /\ iter' = iter + 1
    /\ UNCHANGED firstCode
    /\ UNCHANGED <<conf, ctx, main, sent, cur, held, emitted, launcherVars,
                   syncVars, workerVars, channelVars, storageVars>>

\* case <-ctx.Done(): the iteration is spent without a result.
CollectCanceled ==
    /\ main = "collect"
    /\ iter < NumTargets
    /\ Canceled
    /\ iter' = iter + 1
    /\ firstCode' = 1
    /\ UNCHANGED <<conf, ctx, main, sent, cur, held, emitted, launcherVars,
                   syncVars, workerVars, channelVars, storageVars>>

\* Mutant: the last result decides.
aggregateCode_last(current, resultCode) ==
    IF resultCode = 0 THEN 0
    ELSE IF conf.policy = "any" THEN 1
    ELSE IF conf.policy = "always-zero" THEN 0
    ELSE resultCode

\* Mutant: the policy any is treated as first.
aggregateCode_anyIsFirst(current, resultCode) ==
    IF current # 0 \/ resultCode = 0 THEN current
    ELSE IF conf.policy = "always-zero" THEN 0
    ELSE resultCode

aggregateCode(current, resultCode) ==
    IF current # 0 \/ resultCode = 0 THEN current
    ELSE IF conf.policy = "any" THEN 1
    ELSE IF conf.policy = "always-zero" THEN 0
    ELSE resultCode

\* Mutant: --order completion waits for the input order too.
Printable_sorted == {r \in held : r.con = cur}

\* Mutant: --order input prints what it has.
Printable_unsorted == held

\* The results that can be printed now: the next one in input order when the
\* output is sorted, whatever was received otherwise.
Printable == {r \in held : conf.sortPrint => r.con = cur}

\* Mutant: resSlise[j] = nil is missing.
Emit_keepsHeld(r, printErr, cleanupErr) ==
    /\ main = "emit"
    /\ r \in Printable
    /\ cleanupErr => r.con \in spool
    /\ LET c == aggregateCode(firstCode, r.code)
       IN  firstCode' = IF c = 0 /\ (printErr \/ cleanupErr) THEN 1 ELSE c
    /\ emitted' = Append(emitted, [con  |-> r.con,
                                   code |-> r.code,
                                   err  |-> printErr \/ cleanupErr])
    /\ spool' = IF cleanupErr THEN spool ELSE spool \ {r.con}
    /\ held' = held
    /\ cur' = IF conf.sortPrint THEN cur + 1 ELSE cur
    /\ UNCHANGED <<conf, ctx, main, sent, iter, launcherVars, syncVars,
                   workerVars, channelVars, spoolDir>>

\* emitResult, aggregateCode and delReslt for one result.  Printing it and
\* closing its output buffers may each fail; a spool file that could not be
\* removed stays until the spool directory is removed.
Emit(r, printErr, cleanupErr) ==
    /\ main = "emit"
    /\ r \in Printable
    /\ cleanupErr => r.con \in spool
    /\ LET c == aggregateCode(firstCode, r.code)
       IN  firstCode' = IF c = 0 /\ (printErr \/ cleanupErr) THEN 1 ELSE c
    /\ emitted' = Append(emitted, [con  |-> r.con,
                                   code |-> r.code,
                                   err  |-> printErr \/ cleanupErr])
    /\ spool' = IF cleanupErr THEN spool ELSE spool \ {r.con}
    /\ held' = held \ {r}
    /\ cur' = IF conf.sortPrint THEN cur + 1 ELSE cur
    /\ UNCHANGED <<conf, ctx, main, sent, iter, launcherVars, syncVars,
                   workerVars, channelVars, spoolDir>>

EmitDone ==
    /\ main = "emit"
    /\ Printable = {}
    /\ main' = "collect"
    /\ iter' = iter + 1
    /\ UNCHANGED <<conf, ctx, sent, cur, held, emitted, firstCode,
                   launcherVars, syncVars, workerVars, channelVars,
                   storageVars>>

\* The collector returns; cancel().
CancelRun ==
    /\ main = "collect"
    /\ iter = NumTargets
    /\ main' = "wait"
    /\ ctx' = IF ctx = "live" THEN "finished" ELSE ctx
    /\ UNCHANGED <<conf, sent, collectorVars, launcherVars, syncVars,
                   workerVars, channelVars, storageVars>>

\* Mutant: workerWG.Wait() is missing.
WaitForWorkers_noWait ==
    /\ main = "wait"
    /\ main' = "cleanup"
    /\ UNCHANGED <<conf, ctx, sent, collectorVars, launcherVars, syncVars,
                   workerVars, channelVars, storageVars>>

WaitForWorkers ==
    /\ main = "wait"
    /\ wg = 0
    /\ main' = "cleanup"
    /\ UNCHANGED <<conf, ctx, sent, collectorVars, launcherVars, syncVars,
                   workerVars, channelVars, storageVars>>

\* The deferred cleanupOutputStorage: RemoveAll of the spool directory.
cleanupOutputStorage ==
    /\ main = "cleanup"
    /\ main' = "returned"
    /\ spool' = {}
    /\ spoolDir' = FALSE
    /\ UNCHANGED <<conf, ctx, sent, collectorVars, launcherVars, syncVars,
                   workerVars, channelVars>>

-----------------------------------------------------------------------------
(*                                launcher                                  *)

\* Mutant: the worker that waited for the slot is not counted out.
finishUnlaunchedWorkers_offByOne ==
    /\ wg' = wg - (NumTargets - next)
    /\ launcher' = "done"
    /\ UNCHANGED next

\* Mutant: the launcher returns without a Done.
finishUnlaunchedWorkers_missing ==
    /\ wg' = wg
    /\ launcher' = "done"
    /\ UNCHANGED next

\* finishUnlaunchedWorkers(next): one Done per worker that will never start.
finishUnlaunchedWorkers ==
    /\ wg' = wg - (NumTargets - next + 1)
    /\ launcher' = "done"
    /\ UNCHANGED next

\* The head of launchConWorkers' loop.
LaunchCheck ==
    /\ launcher = "check"
    /\ \/ /\ next > NumTargets
          /\ launcher' = "done"
          /\ UNCHANGED <<wg, next>>
       \/ /\ next <= NumTargets /\ Canceled
          /\ finishUnlaunchedWorkers
       \/ /\ next <= NumTargets /\ ~Canceled
          /\ launcher' = "acquire"
          /\ UNCHANGED <<wg, next>>
    /\ UNCHANGED <<conf, ctx, main, sent, collectorVars, slots, workerVars,
                   channelVars, storageVars>>

\* case p.concurrentGoroutines <- struct{}{} (capacity Concurrency), then
\* `go func(cw)`.
Launch ==
    /\ launcher = "acquire"
    /\ slots < conf.concurrency
    /\ slots' = slots + 1
    /\ pc' = [pc EXCEPT ![next] = "start"]
    /\ next' = next + 1
    /\ launcher' = "check"
    /\ UNCHANGED <<conf, ctx, main, sent, collectorVars, wg, outcome, conns,
                   channelVars, storageVars>>

\* case <-ctx.Done() while waiting for a slot.
LaunchCanceled ==
    /\ launcher = "acquire"
    /\ Canceled
    /\ finishUnlaunchedWorkers
    /\ UNCHANGED <<conf, ctx, main, sent, collectorVars, slots, workerVars,
                   channelVars, storageVars>>

-----------------------------------------------------------------------------
(*                                 workers                                  *)

\* conWorker's first check of the context.
StartWorker(w) ==
    /\ pc[w] = "start"
    /\ pc' = [pc EXCEPT ![w] = IF Canceled THEN "return" ELSE "dial"]
    /\ UNCHANGED <<conf, ctx, main, sent, collectorVars, launcherVars,
                   syncVars, outcome, conns, channelVars, storageVars>>

\* DialContext succeeded; the connection is kept unless the run was canceled
\* meanwhile.
DialSucceeds(w) ==
    /\ pc[w] = "dial"
    /\ IF Canceled
       THEN /\ pc' = [pc EXCEPT ![w] = "return"]
            /\ UNCHANGED conns
       ELSE /\ pc' = [pc EXCEPT ![w] = "command"]
            /\ conns' = conns \cup {w}
    /\ UNCHANGED <<conf, ctx, main, sent, collectorVars, launcherVars,
                   syncVars, outcome, channelVars, storageVars>>

\* Mutant: a canceled dial returns past the deferred release.
DialFails_leaksSlot(w) ==
    /\ pc[w] = "dial"
    /\ pc' = [pc EXCEPT ![w] = IF Canceled THEN "done" ELSE "commandFailed"]
    /\ UNCHANGED <<conf, ctx, main, sent, collectorVars, launcherVars,
                   syncVars, outcome, conns, channelVars, storageVars>>

DialFails(w) ==
    /\ pc[w] = "dial"
    /\ pc' = [pc EXCEPT ![w] = IF Canceled THEN "return" ELSE "commandFailed"]
    /\ UNCHANGED <<conf, ctx, main, sent, collectorVars, launcherVars,
                   syncVars, outcome, conns, channelVars, storageVars>>

\* case cmd := <-c.command, in commandLoop and, for a failed dial, in
\* conWorker; the context is checked again before the command is used.
TakeCommand(w) ==
    /\ pc[w] \in {"command", "commandFailed"}
    /\ w \in cmd
    /\ cmd' = cmd \ {w}
    /\ IF Canceled
       THEN /\ pc' = [pc EXCEPT ![w] = "return"]
            /\ UNCHANGED outcome
       ELSE IF pc[w] = "command"
       THEN /\ pc' = [pc EXCEPT ![w] = "session"]
            /\ UNCHANGED outcome
       ELSE /\ pc' = [pc EXCEPT ![w] = "deliver"]
            /\ outcome' = [outcome EXCEPT ![w] = ConnectFailureCode]
    /\ UNCHANGED <<conf, ctx, main, sent, collectorVars, launcherVars,
                   syncVars, conns, results, storageVars>>

\* case <-ctx.Done() of the same selects.
CommandCanceled(w) ==
    /\ pc[w] \in {"command", "commandFailed"}
    /\ Canceled
    /\ pc' = [pc EXCEPT ![w] = "return"]
    /\ UNCHANGED <<conf, ctx, main, sent, collectorVars, launcherVars,
                   syncVars, outcome, conns, channelVars, storageVars>>

\* The session's output outgrows the memory budget: createOutputSpoolFile
\* makes the directory (once) and a file in it.
Spill(w) ==
    /\ pc[w] = "session"
    /\ w \notin spool
    /\ spoolDir' = TRUE
    /\ spool' = spool \cup {w}
    /\ UNCHANGED <<conf, ctx, main, sent, collectorVars, launcherVars,
                   syncVars, workerVars, channelVars>>

\* _ = delReslt(res): the spool file is removed, or the error is ignored.
delReslt(w) == spool' \in {spool, spool \ {w}}

\* The session is over and errResult checks the context: a result of a
\* canceled run is deleted.
SessionEnds(w, c) ==
    /\ pc[w] = "session"
    /\ outcome' = [outcome EXCEPT ![w] = c]
    /\ IF Canceled
       THEN /\ pc' = [pc EXCEPT ![w] = "return"]
            /\ delReslt(w)
       ELSE /\ pc' = [pc EXCEPT ![w] = "deliver"]
            /\ UNCHANGED spool
    /\ UNCHANGED <<conf, ctx, main, sent, collectorVars, launcherVars,
                   syncVars, conns, channelVars, spoolDir>>

\* case s.results <- res
Deliver(w) ==
    /\ pc[w] = "deliver"
    /\ Len(results) < Capacity
    /\ results' = Append(results, [con |-> w, code |-> outcome[w]])
    /\ pc' = [pc EXCEPT ![w] = "return"]
    /\ UNCHANGED <<conf, ctx, main, sent, collectorVars, launcherVars,
                   syncVars, outcome, conns, cmd, storageVars>>

\* case <-ctx.Done(): delReslt
DropResult(w) ==
    /\ pc[w] = "deliver"
    /\ Canceled
    /\ delReslt(w)
    /\ pc' = [pc EXCEPT ![w] = "return"]
    /\ UNCHANGED <<conf, ctx, main, sent, collectorVars, launcherVars,
                   syncVars, outcome, conns, channelVars, spoolDir>>

\* The deferred calls, in the order they run: conn.Close(), the semaphore
\* slot, workerWG.Done().
CloseConn(w) ==
    /\ pc[w] = "return"
    /\ conns' = conns \ {w}
    /\ pc' = [pc EXCEPT ![w] = "release"]
    /\ UNCHANGED <<conf, ctx, main, sent, collectorVars, launcherVars,
                   syncVars, outcome, channelVars, storageVars>>

\* Mutant: the slot is not given back.
ReleaseSlot_leaks(w) ==
    /\ pc[w] = "release"
    /\ slots > 0                                      \* <-concurrentGoroutines
    /\ slots' = slots
    /\ pc' = [pc EXCEPT ![w] = "done"]
    /\ UNCHANGED <<conf, ctx, main, sent, collectorVars, launcherVars, wg,
                   outcome, conns, channelVars, storageVars>>

ReleaseSlot(w) ==
    /\ pc[w] = "release"
    /\ slots > 0                                      \* <-concurrentGoroutines
    /\ slots' = slots - 1
    /\ pc' = [pc EXCEPT ![w] = "done"]
    /\ UNCHANGED <<conf, ctx, main, sent, collectorVars, launcherVars, wg,
                   outcome, conns, channelVars, storageVars>>

WorkerDone(w) ==
    /\ pc[w] = "done"
    /\ wg' = wg - 1
    /\ pc' = [pc EXCEPT ![w] = "exited"]
    /\ UNCHANGED <<conf, ctx, main, sent, collectorVars, launcherVars, slots,
                   outcome, conns, channelVars, storageVars>>

-----------------------------------------------------------------------------
(*                              specification                               *)

\* The caller's context is canceled (SIGINT or SIGTERM in cmd/gopssh).
Interrupt ==
    /\ ctx = "live"
    /\ main # "returned"
    /\ ctx' = "interrupted"
    /\ UNCHANGED <<conf, main, sent, collectorVars, launcherVars, syncVars,
                   workerVars, channelVars, storageVars>>

MainStep ==
    \/ SetupFails \/ StartLauncher \/ Dispatch \/ Receive \/ CollectCanceled
    \/ \E r \in held, printErr, cleanupErr \in BOOLEAN :
           Emit(r, printErr, cleanupErr)
    \/ EmitDone \/ CancelRun \/ WaitForWorkers \/ cleanupOutputStorage

Stdin == ReadStdin \/ StdinFails

LauncherStep == LaunchCheck \/ Launch \/ LaunchCanceled

Dial(w) == DialSucceeds(w) \/ DialFails(w)

SessionReturns(w) == \E c \in SessionCodes : SessionEnds(w, c)

\* The steps of a worker that wait for nobody outside the process.
WorkerStep(w) ==
    \/ StartWorker(w) \/ TakeCommand(w) \/ CommandCanceled(w)
    \/ Deliver(w) \/ DropResult(w)
    \/ CloseConn(w) \/ ReleaseSlot(w) \/ WorkerDone(w)

Ended == main \in {"returned", "died"}

\* RunContext returned, or the process is gone.
Terminated == Ended /\ UNCHANGED vars

Next ==
    \/ /\ main # "died"
       /\ \/ MainStep
          \/ Stdin
          \/ LauncherStep
          \/ Interrupt
          \/ \E w \in Targets :
                 WorkerStep(w) \/ Dial(w) \/ Spill(w) \/ SessionReturns(w)
    \/ Terminated

Spec == Init /\ [][Next]_vars

-----------------------------------------------------------------------------
(*                                fairness                                  *)

\* The Go scheduler runs every goroutine that can run: weak fairness of every
\* step that waits for nobody outside the process.
LocalFairness ==
    /\ WF_vars(MainStep)
    /\ WF_vars(LauncherStep)
    /\ \A w \in Targets : WF_vars(WorkerStep(w))

\* A dial or a session ends once it is canceled: the watcher of DialContext or
\* of the worker closes the connection under it.  Nothing ends one that nobody
\* canceled: ClientConfig.Timeout bounds the TCP connect only, and neither
\* ssh.NewClientConn nor a session has a deadline.
PeerFairness ==
    \A w \in Targets : /\ WF_vars(Canceled /\ Dial(w))
                       /\ WF_vars(Canceled /\ SessionReturns(w))

\* Whoever writes to our stdin closes it.
StdinFairness == WF_vars(Stdin)

LiveSpec == Spec /\ LocalFairness /\ PeerFairness /\ StdinFairness

\* The same program, its stdin left open.
OpenStdinSpec == Spec /\ LocalFairness /\ PeerFairness

-----------------------------------------------------------------------------
(*                                properties                                *)

MainStates == {"setup", "stdin", "dispatch", "collect", "emit", "wait",
               "cleanup", "returned", "died"}

\* Where a worker holds a semaphore slot.
Active == {"start", "dial", "command", "commandFailed", "session", "deliver",
           "return", "release"}

WorkerStates == Active \cup {"unlaunched", "done", "exited"}

Report == [con : Targets, code : Codes, err : BOOLEAN]

TypeOK ==
    /\ conf \in Configs
    /\ ctx \in {"live", "interrupted", "finished"}
    /\ main \in MainStates
    /\ sent \in 0..NumTargets
    /\ iter \in 0..NumTargets
    /\ cur \in Nat
    /\ held \subseteq Result
    /\ emitted \in Seq(Report)
    /\ firstCode \in Nat
    /\ launcher \in {"idle", "check", "acquire", "done"}
    /\ next \in 1..(NumTargets + 1)
    /\ slots \in Nat
    /\ wg \in Nat
    /\ pc \in [Targets -> WorkerStates]
    /\ cmd \subseteq Targets
    /\ outcome \in [Targets -> Codes]
    /\ conns \subseteq Targets
    /\ results \in Seq(Result)
    /\ spool \subseteq Targets
    /\ spoolDir \in BOOLEAN

\* --concurrency bounds the workers that dial or hold a connection at any
\* time, whichever way earlier workers ended, and every slot taken is given
\* back by the worker that took it (pssh.go:628-651).
ActiveWorkers == {w \in Targets : pc[w] \in Active}

ConcurrencyBounded ==
    /\ slots = Cardinality(ActiveWorkers)
    /\ slots <= conf.concurrency
    /\ conns \subseteq ActiveWorkers

\* workerWG counts exactly the workers that still may touch shared state: a
\* worker that was never launched is counted out by the launcher, a launched
\* one by itself, nobody twice (a negative counter panics; pssh.go:564,
\* 628-657).
Finished(w) == pc[w] = "exited" \/ (launcher = "done" /\ w >= next)

WaitGroupExact ==
    launcher # "idle" => wg = Cardinality({w \in Targets : ~Finished(w)})

\* When RunContext returns no worker runs or will run, every connection is
\* closed, every semaphore slot is free for the next run, and no spool file
\* or directory is left; when log.Fatal skips the deferred clean-up there is
\* nothing to clean, since no session starts before stdin was read
\* (pssh.go:527-531, 567-588).
NothingLeftBehind ==
    /\ main = "returned" =>
          /\ \A w \in Targets : pc[w] \in {"unlaunched", "exited"}
          /\ launcher \in {"idle", "done"} \/ next = NumTargets + 1
          /\ conns = {} /\ slots = 0
          /\ spool = {} /\ ~spoolDir
    /\ main = "died" => spool = {} /\ ~spoolDir

\* The places where the result of worker w is.
Places(w) ==
    Cardinality({i \in DOMAIN results : results[i].con = w})
    + Cardinality({r \in held : r.con = w})
    + Cardinality({i \in DOMAIN emitted : emitted[i].con = w})

\* As long as the run is not canceled every worker that ended has its result
\* in exactly one place on the way to the output (the collector counts on one
\* result per host, pssh.go:663, 700); canceled or not, no target is reported
\* twice, none before its worker made the result, and none with the exit code
\* of another target.
ResultsAccounted ==
    /\ \A w \in Targets :
          /\ Places(w) <= 1
          /\ pc[w] \notin {"return", "release", "done", "exited"} =>
                Places(w) = 0
          /\ ~Canceled /\ pc[w] \in {"return", "release", "done", "exited"} =>
                Places(w) = 1
    /\ \A r \in held : r.code = outcome[r.con]
    /\ \A i \in DOMAIN results : results[i].code = outcome[results[i].con]
    /\ \A i \in DOMAIN emitted : emitted[i].code = outcome[emitted[i].con]

\* A worker never waits for room in the results channel: its capacity covers
\* every result that can be made, even when the collector has stopped reading
\* (pssh.go:577).
DeliverNeverBlocks ==
    \A w \in Targets : pc[w] = "deliver" => Len(results) < Capacity

\* Sorted output reports the targets of the hosts file in order, with no gap,
\* also when the run is interrupted half way (pssh.go:667-683).
SortedOrder ==
    conf.sortPrint => \A i \in DOMAIN emitted : emitted[i].con = i

\* Exit code 0 is never returned for a run that skipped a target, failed to
\* print one or, unless the policy says so, had one fail (pssh.go:659-730).
ZeroMeansComplete ==
    main = "returned" /\ firstCode = 0 =>
        /\ \A w \in Targets : \E i \in DOMAIN emitted : emitted[i].con = w
        /\ \A i \in DOMAIN emitted :
               /\ ~emitted[i].err
               /\ conf.policy # "always-zero" => emitted[i].code = 0

\* A failure once recorded is never forgotten: no later result, local error
\* or cancellation turns the exit code back to 0 (pssh.go:718-721).
FailureSticks == [][firstCode # 0 => firstCode' # 0]_vars

\* After an interrupt RunContext returns, although some targets may not have
\* been launched, dialed or collected (pssh.go:587-590).
InterruptReturns == ctx = "interrupted" ~> Ended

\* If no dial and no session lasts forever the whole run ends: no worker,
\* launcher or collector waits for another in a circle (pssh.go:551-591,
\* 628-657, 659-716).
RunTerminates ==
    (\A w \in Targets : []<>(pc[w] \notin {"dial", "session"})) => <>Ended

\* In completion order a result that was delivered is reported (or the run
\* canceled) even if every other session hangs (pssh.go:698-716).
ResultsFlow ==
    \A w \in Targets :
        (~conf.sortPrint /\ \E i \in DOMAIN results : results[i].con = w)
            ~> (Canceled \/ \E i \in DOMAIN emitted : emitted[i].con = w)

\* The run keeps the promise of Fanout.
Promise == INSTANCE Fanout WITH
    Policies    <- {c.policy : c \in Configs},
    Orders      <- {c.sortPrint : c \in Configs},
    conf        <- [policy |-> conf.policy, sortPrint |-> conf.sortPrint],
    interrupted <- ctx = "interrupted",
    status      <- IF main \in {"returned", "died"} THEN main ELSE "running",
    code        <- IF main = "returned" THEN firstCode ELSE 0

KeepsPromise == Promise!Spec

-----------------------------------------------------------------------------
(*                     the inductive invariant (proved)                     *)

\* The launcher goes through the workers in order: exactly those from `next`
\* on have not been launched.
LauncherInv ==
    /\ main = "setup" => launcher = "idle"
    /\ launcher = "idle" => main \in {"setup", "cleanup", "returned"} /\ next = 1
    /\ launcher = "acquire" => next <= NumTargets
    /\ \A w \in Targets : pc[w] = "unlaunched" <=> w >= next

ConnsInv ==
    \A w \in conns : pc[w] \in {"command", "session", "deliver", "return"}

\* No session has started while no command was sent.
BeforeDispatch ==
    main \in {"setup", "stdin", "died"} =>
        /\ cmd = {}
        /\ \A w \in Targets : pc[w] # "session"
        /\ spool = {} /\ ~spoolDir

\* Once RunContext is past Wait() no worker or launcher step is left.
Quiet ==
    main \in {"cleanup", "returned"} =>
        /\ \A w \in Targets : pc[w] \in {"unlaunched", "exited"}
        /\ launcher \in {"idle", "done"} \/ next = NumTargets + 1

\* A result is only received in an iteration that is not over.
CollectorInv == main = "emit" => iter < NumTargets

StorageGone == main = "returned" => spool = {} /\ ~spoolDir

\* cur is the next target to print.
SortedInv ==
    conf.sortPrint => /\ cur = Len(emitted) + 1
                      /\ \A i \in DOMAIN emitted : emitted[i].con = i

IInv ==
    /\ TypeOK
    /\ LauncherInv
    /\ ConcurrencyBounded
    /\ ConnsInv
    /\ WaitGroupExact
    /\ BeforeDispatch
    /\ Quiet
    /\ CollectorInv
    /\ SortedInv
    /\ StorageGone

\* Where a worker is once it has delivered its result, or has given it up.
Past == {"return", "release", "done", "exited"}

\* Each target has at most one result, in one of the three places on the way
\* to the output, made by a worker that is past its delivery.
ResultsInv ==
    /\ \A i, j \in DOMAIN results : results[i].con = results[j].con => i = j
    /\ \A r, s \in held : r.con = s.con => r = s
    /\ \A i, j \in DOMAIN emitted : emitted[i].con = emitted[j].con => i = j
    /\ \A i \in DOMAIN results, r \in held : results[i].con # r.con
    /\ \A i \in DOMAIN results, j \in DOMAIN emitted :
          results[i].con # emitted[j].con
    /\ \A r \in held, j \in DOMAIN emitted : r.con # emitted[j].con
    /\ \A i \in DOMAIN results : /\ pc[results[i].con] \in Past
                                 /\ results[i].code = outcome[results[i].con]
    /\ \A r \in held : pc[r.con] \in Past /\ r.code = outcome[r.con]
    /\ \A i \in DOMAIN emitted : /\ pc[emitted[i].con] \in Past
                                 /\ emitted[i].code = outcome[emitted[i].con]

\* A worker that is past its delivery has a result unless the run is canceled.
DeliveredInv ==
    ~Canceled => \A w \in Targets : pc[w] \in Past =>
        \/ \E i \in DOMAIN results : results[i].con = w
        \/ \E r \in held : r.con = w
        \/ \E i \in DOMAIN emitted : emitted[i].con = w

\* As long as nothing has failed every iteration of the collector is a result,
\* and what it has not printed has to wait for another one.
ZeroInv ==
    /\ main # "emit" => Printable = {}
    /\ firstCode = 0 =>
          /\ Len(emitted) + Cardinality(held)
                = IF main = "emit" THEN iter + 1 ELSE iter
          /\ main \in {"wait", "cleanup", "returned"} => iter = NumTargets
          /\ \A i \in DOMAIN emitted :
                /\ ~emitted[i].err
                /\ conf.policy # "always-zero" => emitted[i].code = 0

\* What the caller of RunContext may rely on at each point of it: nothing is
\* reported before the collector runs, only an interrupt cancels the context
\* before it is through, and the exit code is the policy applied to what was
\* reported unless the run was interrupted or refused.
PromiseInv ==
    /\ main \in {"setup", "stdin", "dispatch", "collect", "emit"} =>
          ctx # "finished"
    /\ main \in {"setup", "stdin", "dispatch", "died"} => emitted = <<>>
    /\ \/ /\ firstCode = 1
          /\ \/ ctx = "interrupted"
             \/ main \in {"cleanup", "returned"} /\ emitted = <<>>
       \/ /\ firstCode = Promise!PolicyCode(conf.policy, emitted)
          /\ Len(emitted) + Cardinality(held)
                = IF main = "emit" THEN iter + 1 ELSE iter
          /\ main \in {"wait", "cleanup", "returned"} => iter = NumTargets
=============================================================================
