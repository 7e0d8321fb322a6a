--------------------------- MODULE Executor_proofs ---------------------------
(***************************************************************************)
(* Safety of Executor for every number of targets and every concurrency:   *)
(* the invariant of the coordination (contexts, launcher, workers, slots), *)
(* then where the results are between the worker that made them and the    *)
(* output, then that Executor implements Fanout.                           *)
(***************************************************************************)
EXTENDS Executor, DataLemmas

USE NumTargetsAssumption, CodesAssumption, ConfigsAssumption

LEMMA TargetsFinite == IsFiniteSet(Targets) /\ Cardinality(Targets) = NumTargets
  BY FS_Interval DEF Targets

LEMMA SubsetFinite ==
  ASSUME NEW S \in SUBSET Targets
  PROVE  IsFiniteSet(S) /\ Cardinality(S) \in Nat
  BY TargetsFinite, FS_Subset, FS_CardinalityType

LEMMA InitIInv == Init => IInv
<1> SUFFICES ASSUME Init PROVE IInv
  OBVIOUS
<1>1. TypeOK
  <2>1. emitted \in Seq(Report) /\ results \in Seq(Result)
    BY DEF Init
  <2>2. pc \in [Targets -> WorkerStates] /\ outcome \in [Targets -> Codes]
    BY DEF Init, WorkerStates, Codes
  <2>3. conf \in Configs
    BY DEF Init
  <2>4. /\ ctx \in {"live", "interrupted", "finished"}
        /\ main \in MainStates
        /\ launcher \in {"idle", "check", "acquire", "done"}
    BY DEF Init, MainStates
  <2>5. /\ sent \in 0..NumTargets /\ iter \in 0..NumTargets /\ cur \in Nat
        /\ firstCode \in Nat /\ next \in 1..(NumTargets + 1)
        /\ slots \in Nat /\ wg \in Nat
    BY DEF Init
  <2>6. /\ held \subseteq Result /\ cmd \subseteq Targets
        /\ conns \subseteq Targets /\ spool \subseteq Targets
        /\ spoolDir \in BOOLEAN
    BY DEF Init
  <2> QED
    BY <2>1, <2>2, <2>3, <2>4, <2>5, <2>6 DEF TypeOK
<1>2. ActiveWorkers = {}
  BY DEF Init, ActiveWorkers, Active
<1>3. ConcurrencyBounded
  BY <1>2, FS_EmptySet DEF Init, ConcurrencyBounded
<1>4. LauncherInv
  BY DEF Init, LauncherInv, Targets
<1>5. /\ ConnsInv /\ WaitGroupExact /\ BeforeDispatch /\ Quiet
      /\ CollectorInv /\ SortedInv /\ StorageGone
  BY DEF Init, ConnsInv, WaitGroupExact, BeforeDispatch, Quiet, CollectorInv,
         SortedInv, StorageGone
<1> QED
  BY <1>1, <1>3, <1>4, <1>5 DEF IInv

-----------------------------------------------------------------------------
(* Types.                                                                   *)

LEMMA TypeStep ==
  ASSUME TypeOK, LauncherInv, CollectorInv, Next, wg' \in Nat
  PROVE  TypeOK'
<1> USE DEF TypeOK, collectorVars, launcherVars, syncVars, workerVars,
            channelVars, storageVars
<1>1. CASE SetupFails
  BY <1>1 DEF SetupFails, MainStates
<1>2. CASE StartLauncher
  BY <1>2 DEF StartLauncher, MainStates
<1>3. CASE ReadStdin
  BY <1>3 DEF ReadStdin, MainStates
<1>4. CASE StdinFails
  BY <1>4 DEF StdinFails, MainStates
<1>5. CASE Dispatch
  <2>1. CASE sent < NumTargets
    <3>1. sent + 1 \in Targets /\ sent + 1 \in 0..NumTargets
      BY <2>1 DEF Targets
    <3> QED
      BY <1>5, <2>1, <3>1 DEF Dispatch
  <2>2. CASE ~(sent < NumTargets)
    BY <1>5, <2>2 DEF Dispatch, MainStates
  <2> QED
    BY <2>1, <2>2
<1>6. CASE Receive
  BY <1>6 DEF Receive, MainStates
<1>7. CASE CollectCanceled
  BY <1>7 DEF CollectCanceled
<1>8. CASE EmitDone
  BY <1>8 DEF EmitDone, MainStates, CollectorInv
<1>9. CASE CancelRun
  BY <1>9 DEF CancelRun, MainStates
<1>10. CASE WaitForWorkers
  BY <1>10 DEF WaitForWorkers, MainStates
<1>11. CASE cleanupOutputStorage
  BY <1>11 DEF cleanupOutputStorage, MainStates
<1>12. CASE LaunchCheck
  BY <1>12 DEF LaunchCheck, finishUnlaunchedWorkers
<1>13. CASE Launch
  BY <1>13 DEF Launch, LauncherInv, WorkerStates, Active, Targets
<1>14. CASE LaunchCanceled
  BY <1>14 DEF LaunchCanceled, finishUnlaunchedWorkers, LauncherInv
<1>15. CASE Interrupt
  BY <1>15 DEF Interrupt
<1>16. ASSUME NEW r \in held, NEW printErr \in BOOLEAN,
             NEW cleanupErr \in BOOLEAN, Emit(r, printErr, cleanupErr)
      PROVE  TypeOK'
  <2>1. r \in Result
    OBVIOUS
  <2>2. firstCode' \in Nat
    BY <1>16, <2>1 DEF Emit, aggregateCode, Result, Codes, ConnectFailureCode
  <2>3. emitted' \in Seq(Report)
    BY <1>16, <2>1 DEF Emit, Result, Report
  <2>4. cur' \in Nat /\ held' \subseteq Result /\ spool' \subseteq Targets
    BY <1>16 DEF Emit
  <2> QED
    BY <1>16, <2>2, <2>3, <2>4 DEF Emit
<1>17. ASSUME NEW w \in Targets, StartWorker(w)
      PROVE  TypeOK'
  BY <1>17 DEF StartWorker, WorkerStates, Active
<1>18. ASSUME NEW w \in Targets, DialSucceeds(w)
      PROVE  TypeOK'
  BY <1>18 DEF DialSucceeds, WorkerStates, Active
<1>19. ASSUME NEW w \in Targets, DialFails(w)
      PROVE  TypeOK'
  BY <1>19 DEF DialFails, WorkerStates, Active
<1>20. ASSUME NEW w \in Targets, TakeCommand(w)
      PROVE  TypeOK'
  BY <1>20 DEF TakeCommand, WorkerStates, Active, Codes
<1>21. ASSUME NEW w \in Targets, CommandCanceled(w)
      PROVE  TypeOK'
  BY <1>21 DEF CommandCanceled, WorkerStates, Active
<1>22. ASSUME NEW w \in Targets, Spill(w)
      PROVE  TypeOK'
  BY <1>22 DEF Spill, WorkerStates, Active
<1>23. ASSUME NEW w \in Targets, Deliver(w)
      PROVE  TypeOK'
  BY <1>23 DEF Deliver, WorkerStates, Active, Result
<1>24. ASSUME NEW w \in Targets, DropResult(w)
      PROVE  TypeOK'
  BY <1>24 DEF DropResult, WorkerStates, Active, delReslt
<1>25. ASSUME NEW w \in Targets, CloseConn(w)
      PROVE  TypeOK'
  BY <1>25 DEF CloseConn, WorkerStates, Active
<1>26. ASSUME NEW w \in Targets, ReleaseSlot(w)
      PROVE  TypeOK'
  BY <1>26 DEF ReleaseSlot, WorkerStates, Active
<1>27. ASSUME NEW w \in Targets, WorkerDone(w)
      PROVE  TypeOK'
  BY <1>27 DEF WorkerDone, WorkerStates, Active
<1>28. ASSUME NEW w \in Targets, NEW c \in SessionCodes, SessionEnds(w, c)
      PROVE  TypeOK'
  BY <1>28 DEF SessionEnds, delReslt, WorkerStates, Active, Codes
<1>29. CASE Terminated
  BY <1>29 DEF Terminated, vars
<1> QED
  BY <1>1, <1>2, <1>3, <1>4, <1>5, <1>6, <1>7, <1>8, <1>9, <1>10, <1>11, <1>12, <1>13, <1>14, <1>15, <1>16, <1>17, <1>18, <1>19, <1>20, <1>21, <1>22, <1>23, <1>24, <1>25, <1>26, <1>27, <1>28, <1>29, SMTT(30)
  DEF Next, MainStep, Stdin, LauncherStep, WorkerStep, Dial, SessionReturns

-----------------------------------------------------------------------------
(* What the steps leave alone.                                              *)

\* Every step of main but the start of the launcher.
MainOnly == Stdin \/ Interrupt \/ (MainStep /\ ~StartLauncher)

WorkerOnly(w) == WorkerStep(w) \/ Dial(w) \/ Spill(w) \/ SessionReturns(w)

LEMMA MainFrame ==
  ASSUME MainOnly
  PROVE  UNCHANGED <<launcherVars, syncVars, workerVars>>
<1> USE DEF launcherVars, syncVars, workerVars
<1>1. CASE Stdin
  BY <1>1 DEF Stdin, ReadStdin, StdinFails
<1>2. CASE Interrupt
  BY <1>2 DEF Interrupt
<1>3. CASE SetupFails \/ Dispatch \/ Receive \/ CollectCanceled
  BY <1>3 DEF SetupFails, Dispatch, Receive, CollectCanceled
<1>4. CASE EmitDone \/ CancelRun \/ WaitForWorkers \/ cleanupOutputStorage
  BY <1>4 DEF EmitDone, CancelRun, WaitForWorkers, cleanupOutputStorage
<1>5. CASE \E r \in held, printErr, cleanupErr \in BOOLEAN :
              Emit(r, printErr, cleanupErr)
  BY <1>5 DEF Emit
<1> QED
  BY <1>1, <1>2, <1>3, <1>4, <1>5 DEF MainOnly, MainStep

\* A worker that moves was launched, has not exited, and stays launched.
LEMMA WorkerFrame ==
  ASSUME TypeOK, NEW w \in Targets, WorkerOnly(w)
  PROVE  /\ UNCHANGED <<conf, ctx, main, sent, collectorVars, launcherVars>>
         /\ pc[w] \notin {"unlaunched", "exited"}
         /\ pc'[w] # "unlaunched"
         /\ pc' = [pc EXCEPT ![w] = pc'[w]]
<1> USE DEF TypeOK, workerVars
<1>1. CASE StartWorker(w) \/ Dial(w)
  BY <1>1 DEF StartWorker, Dial, DialSucceeds, DialFails
<1>2. CASE TakeCommand(w) \/ CommandCanceled(w)
  BY <1>2 DEF TakeCommand, CommandCanceled
<1>3. CASE Spill(w)
  BY <1>3 DEF Spill
<1>4. CASE SessionReturns(w)
  BY <1>4 DEF SessionReturns, SessionEnds
<1>5. CASE Deliver(w) \/ DropResult(w)
  BY <1>5 DEF Deliver, DropResult
<1>6. CASE CloseConn(w) \/ ReleaseSlot(w) \/ WorkerDone(w)
  BY <1>6 DEF CloseConn, ReleaseSlot, WorkerDone
<1> QED
  BY <1>1, <1>2, <1>3, <1>4, <1>5, <1>6 DEF WorkerOnly, WorkerStep

LEMMA NextCases ==
  ASSUME Next
  PROVE  \/ MainOnly \/ StartLauncher \/ LauncherStep
         \/ \E w \in Targets : WorkerOnly(w)
         \/ UNCHANGED vars
  BY DEF Next, MainOnly, MainStep, WorkerOnly, Terminated

-----------------------------------------------------------------------------
(* The launcher.                                                            *)

LEMMA LauncherStepInv ==
  ASSUME TypeOK, LauncherInv, Next
  PROVE  LauncherInv'
<1> USE DEF TypeOK, LauncherInv
<1>1. CASE MainOnly
  <2>1. UNCHANGED <<launcher, next, pc>>
    BY <1>1, MainFrame DEF launcherVars, workerVars
  <2>2. main' = "setup" => main = "setup"
    BY <1>1 DEF MainOnly, MainStep, Stdin, ReadStdin, StdinFails, Interrupt,
                SetupFails, Dispatch, Receive, CollectCanceled, Emit, EmitDone,
                CancelRun, WaitForWorkers, cleanupOutputStorage
  <2>3. main \in {"setup", "cleanup", "returned"} =>
           main' \in {"setup", "cleanup", "returned"}
    BY <1>1 DEF MainOnly, MainStep, Stdin, ReadStdin, StdinFails, Interrupt,
                SetupFails, Dispatch, Receive, CollectCanceled, Emit, EmitDone,
                CancelRun, WaitForWorkers, cleanupOutputStorage
  <2> QED
    BY <2>1, <2>2, <2>3
<1>2. CASE StartLauncher
  BY <1>2 DEF StartLauncher, workerVars
<1>3. CASE LaunchCheck
  BY <1>3 DEF LaunchCheck, finishUnlaunchedWorkers, workerVars
<1>4. CASE Launch
  BY <1>4 DEF Launch, Targets
<1>5. CASE LaunchCanceled
  BY <1>5 DEF LaunchCanceled, finishUnlaunchedWorkers, workerVars
<1>6. ASSUME NEW w \in Targets, WorkerOnly(w)
      PROVE  LauncherInv'
  BY <1>6, WorkerFrame DEF launcherVars
<1>7. CASE UNCHANGED vars
  BY <1>7 DEF vars, launcherVars, workerVars
<1> QED
  BY <1>1, <1>2, <1>3, <1>4, <1>5, <1>6, <1>7, NextCases DEF LauncherStep

-----------------------------------------------------------------------------
(* The semaphore.                                                           *)

LEMMA ConnsStep ==
  ASSUME TypeOK, ConnsInv, LauncherInv, Next
  PROVE  ConnsInv'
<1> USE DEF TypeOK, ConnsInv
<1>1. CASE MainOnly
  BY <1>1, MainFrame DEF workerVars
<1>2. CASE StartLauncher
  BY <1>2 DEF StartLauncher, workerVars
<1>3. CASE LauncherStep
  BY <1>3 DEF LauncherStep, LaunchCheck, Launch, LaunchCanceled, LauncherInv,
              workerVars
<1>4. ASSUME NEW w \in Targets, WorkerOnly(w)
      PROVE  ConnsInv'
  BY <1>4 DEF WorkerOnly, WorkerStep, Dial, SessionReturns, StartWorker,
              DialSucceeds, DialFails, TakeCommand, CommandCanceled, Spill,
              SessionEnds, Deliver, DropResult, CloseConn, ReleaseSlot,
              WorkerDone, workerVars
<1>5. CASE UNCHANGED vars
  BY <1>5 DEF vars, workerVars
<1> QED
  BY <1>1, <1>2, <1>3, <1>4, <1>5, NextCases

LEMMA ActiveFinite ==
  IsFiniteSet(ActiveWorkers) /\ Cardinality(ActiveWorkers) \in Nat
<1>1. ActiveWorkers \in SUBSET Targets
  BY DEF ActiveWorkers
<1> QED
  BY <1>1, SubsetFinite

LEMMA ConcurrencyStep ==
  ASSUME TypeOK, LauncherInv, ConnsInv, ConnsInv', TypeOK', ConcurrencyBounded,
         Next
  PROVE  ConcurrencyBounded'
<1> USE DEF TypeOK
<1>1. conns' \subseteq ActiveWorkers'
  BY DEF ConnsInv, ActiveWorkers, Active
<1>2. CASE UNCHANGED <<conf, pc, slots>>
  BY <1>1, <1>2 DEF ConcurrencyBounded, ActiveWorkers
<1>3. CASE Launch
  <2>1. next \in Targets /\ pc[next] = "unlaunched"
    BY <1>3 DEF Launch, LauncherInv, Targets
  <2>2. ActiveWorkers' = ActiveWorkers \cup {next} /\ next \notin ActiveWorkers
    BY <1>3, <2>1 DEF Launch, ActiveWorkers, Active
  <2>3. Cardinality(ActiveWorkers') = Cardinality(ActiveWorkers) + 1
    BY <2>2, ActiveFinite, FS_AddElement
  <2>4. /\ slots' = slots + 1 /\ slots < conf.concurrency /\ slots \in Nat
        /\ conf' = conf /\ conf.concurrency \in Nat
        /\ slots = Cardinality(ActiveWorkers)
    BY <1>3 DEF Launch, ConcurrencyBounded
  <2> HIDE DEF TypeOK
  <2>5. slots' = Cardinality(ActiveWorkers') /\ slots' <= conf'.concurrency
    BY <2>3, <2>4
  <2> QED
    BY <1>1, <2>5 DEF ConcurrencyBounded
<1>4. ASSUME NEW w \in Targets, ReleaseSlot(w)
      PROVE  ConcurrencyBounded'
  <2>1. ActiveWorkers' = ActiveWorkers \ {w} /\ w \in ActiveWorkers
    BY <1>4 DEF ReleaseSlot, ActiveWorkers, Active
  <2>2. Cardinality(ActiveWorkers') = Cardinality(ActiveWorkers) - 1
    BY <2>1, ActiveFinite, FS_RemoveElement
  <2>3. /\ slots' = slots - 1 /\ slots <= conf.concurrency /\ slots \in Nat
        /\ conf' = conf /\ conf.concurrency \in Nat
        /\ slots = Cardinality(ActiveWorkers)
    BY <1>4 DEF ReleaseSlot, ConcurrencyBounded
  <2> HIDE DEF TypeOK
  <2>4. slots' = Cardinality(ActiveWorkers') /\ slots' <= conf'.concurrency
    BY <2>2, <2>3
  <2> QED
    BY <1>1, <2>4 DEF ConcurrencyBounded
<1>5. ASSUME NEW w \in Targets, WorkerOnly(w), ~ReleaseSlot(w)
      PROVE  ConcurrencyBounded'
  <2>1. slots' = slots /\ (pc'[w] \in Active <=> pc[w] \in Active)
    BY <1>5 DEF WorkerOnly, WorkerStep, Dial, SessionReturns, StartWorker,
                DialSucceeds, DialFails, TakeCommand, CommandCanceled, Spill,
                SessionEnds, Deliver, DropResult, CloseConn, WorkerDone,
                workerVars, syncVars, Active
  <2>2. pc' = [pc EXCEPT ![w] = pc'[w]] /\ conf' = conf
    BY <1>5, WorkerFrame
  <2>3. ActiveWorkers' = ActiveWorkers
    BY <2>1, <2>2 DEF ActiveWorkers
  <2> QED
    BY <1>1, <2>1, <2>2, <2>3 DEF ConcurrencyBounded
<1>6. CASE LaunchCheck \/ LaunchCanceled
  BY <1>2, <1>6 DEF LaunchCheck, LaunchCanceled, workerVars
<1>7. CASE MainOnly
  <2>1. UNCHANGED <<pc, slots>>
    BY <1>7, MainFrame DEF workerVars, syncVars
  <2>2. UNCHANGED conf
    BY <1>7 DEF MainOnly, MainStep, Stdin, ReadStdin, StdinFails, Interrupt,
                SetupFails, Dispatch, Receive, CollectCanceled, Emit, EmitDone,
                CancelRun, WaitForWorkers, cleanupOutputStorage
  <2> QED
    BY <1>2, <2>1, <2>2
<1>8. CASE StartLauncher \/ UNCHANGED vars
  BY <1>2, <1>8 DEF StartLauncher, vars, workerVars, syncVars
<1> QED
  BY <1>3, <1>4, <1>5, <1>6, <1>7, <1>8, NextCases DEF LauncherStep

-----------------------------------------------------------------------------
(* The WaitGroup.                                                           *)

Pending == {w \in Targets : ~Finished(w)}

LEMMA PendingFinite == IsFiniteSet(Pending) /\ Cardinality(Pending) \in Nat
<1>1. Pending \in SUBSET Targets
  BY DEF Pending
<1> QED
  BY <1>1, SubsetFinite

\* finishUnlaunchedWorkers counts out exactly the workers that will not start.
LEMMA FinishUnlaunched ==
  ASSUME TypeOK, LauncherInv, launcher # "idle", launcher # "done",
         next <= NumTargets, wg = Cardinality(Pending),
         finishUnlaunchedWorkers, pc' = pc
  PROVE  wg' = Cardinality(Pending') /\ wg' \in Nat
<1> USE DEF TypeOK
<1>1. next..NumTargets \subseteq Pending
  BY DEF LauncherInv, Pending, Finished, Targets
<1>2. Pending' = Pending \ (next..NumTargets)
  BY DEF finishUnlaunchedWorkers, LauncherInv, Pending, Finished, Targets
<1>3. Pending \cap (next..NumTargets) = next..NumTargets
  BY <1>1
<1>4. Cardinality(next..NumTargets) = NumTargets - next + 1
  BY FS_Interval
<1>5. Cardinality(Pending') = Cardinality(Pending) - (NumTargets - next + 1)
  <2>1. Cardinality(Pending \ (next..NumTargets)) =
           Cardinality(Pending) - Cardinality(Pending \cap (next..NumTargets))
    BY PendingFinite, FS_Difference
  <2> QED
    BY <1>2, <1>3, <1>4, <2>1
<1>6. Pending' \in SUBSET Targets
  BY <1>2 DEF Pending
<1> QED
  BY <1>5, <1>6, SubsetFinite DEF finishUnlaunchedWorkers

LEMMA WaitGroupStep ==
  ASSUME TypeOK, LauncherInv, WaitGroupExact, Next
  PROVE  WaitGroupExact' /\ wg' \in Nat
<1> USE DEF TypeOK
<1>1. CASE UNCHANGED <<wg, pc, launcherVars>>
  BY <1>1 DEF WaitGroupExact, Finished, launcherVars
<1>2. CASE StartLauncher
  <2>1. pc' = pc /\ launcher' = "check" /\ wg' = NumTargets
    BY <1>2 DEF StartLauncher, workerVars
  <2>2. \A w \in Targets : pc[w] = "unlaunched"
    BY <1>2 DEF StartLauncher, LauncherInv, Targets
  <2>3. Pending' = Targets
    BY <2>1, <2>2 DEF Pending, Finished
  <2> QED
    BY <2>1, <2>3, TargetsFinite DEF WaitGroupExact, Pending
<1>3. CASE LaunchCheck
  <2>1. CASE next > NumTargets
    <3>1. wg' = wg /\ pc' = pc /\ next' = next /\ launcher' = "done"
      BY <1>3, <2>1 DEF LaunchCheck, finishUnlaunchedWorkers, workerVars
    <3>2. Pending' = Pending
      BY <2>1, <3>1 DEF Pending, Finished, Targets
    <3> QED
      BY <1>3, <3>1, <3>2 DEF WaitGroupExact, Pending, LaunchCheck
  <2>2. CASE next <= NumTargets /\ Canceled
    <3>1. finishUnlaunchedWorkers /\ pc' = pc /\ launcher = "check"
      BY <1>3, <2>2 DEF LaunchCheck, workerVars
    <3> QED
      BY <2>2, <3>1, FinishUnlaunched DEF WaitGroupExact, Pending
  <2>3. CASE next <= NumTargets /\ ~Canceled
    <3>1. /\ wg' = wg /\ pc' = pc /\ next' = next
          /\ launcher = "check" /\ launcher' = "acquire"
      BY <1>3, <2>3 DEF LaunchCheck, workerVars
    <3> QED
      BY <3>1 DEF WaitGroupExact, Finished
  <2> QED
    BY <2>1, <2>2, <2>3
<1>4. CASE Launch
  <2>1. /\ wg' = wg /\ launcher = "acquire" /\ launcher' = "check"
        /\ pc' = [pc EXCEPT ![next] = "start"]
        /\ next \in Targets /\ pc[next] = "unlaunched"
    BY <1>4 DEF Launch, LauncherInv, Targets
  <2>2. Pending' = Pending
    BY <2>1 DEF Pending, Finished
  <2> QED
    BY <2>1, <2>2 DEF WaitGroupExact, Pending
<1>5. CASE LaunchCanceled
  <2>1. /\ finishUnlaunchedWorkers /\ pc' = pc /\ launcher = "acquire"
        /\ next <= NumTargets
    BY <1>5 DEF LaunchCanceled, workerVars, LauncherInv
  <2> QED
    BY <2>1, FinishUnlaunched DEF WaitGroupExact, Pending
<1>6. ASSUME NEW w \in Targets, WorkerDone(w)
      PROVE  WaitGroupExact' /\ wg' \in Nat
  <2>1. /\ wg' = wg - 1 /\ pc' = [pc EXCEPT ![w] = "exited"] /\ pc[w] = "done"
        /\ launcher' = launcher /\ next' = next
    BY <1>6 DEF WorkerDone, launcherVars
  <2>2. w < next /\ launcher # "idle"
    BY <2>1 DEF LauncherInv, Targets
  <2>3. w \in Pending /\ Pending' = Pending \ {w}
    BY <2>1, <2>2 DEF Pending, Finished, Targets
  <2>4. Cardinality(Pending') = Cardinality(Pending) - 1
    BY <2>3, PendingFinite, FS_RemoveElement
  <2>5. Cardinality(Pending') \in Nat
    BY <2>3, SubsetFinite DEF Pending
  <2> QED
    BY <2>1, <2>2, <2>4, <2>5 DEF WaitGroupExact, Pending
<1>7. ASSUME NEW w \in Targets, WorkerOnly(w), ~WorkerDone(w)
      PROVE  WaitGroupExact' /\ wg' \in Nat
  <2>1. wg' = wg /\ pc'[w] # "exited"
    BY <1>7 DEF WorkerOnly, WorkerStep, Dial, SessionReturns, StartWorker,
                DialSucceeds, DialFails, TakeCommand, CommandCanceled, Spill,
                SessionEnds, Deliver, DropResult, CloseConn, ReleaseSlot,
                workerVars, syncVars
  <2>2. /\ pc' = [pc EXCEPT ![w] = pc'[w]] /\ pc[w] # "exited"
        /\ launcher' = launcher /\ next' = next
    BY <1>7, WorkerFrame DEF launcherVars
  <2>3. Pending' = Pending
    BY <2>1, <2>2 DEF Pending, Finished
  <2> QED
    BY <2>1, <2>2, <2>3 DEF WaitGroupExact, Pending
<1>8. CASE MainOnly \/ UNCHANGED vars
  BY <1>1, <1>8, MainFrame DEF vars, workerVars, syncVars
<1> QED
  BY <1>2, <1>3, <1>4, <1>5, <1>6, <1>7, <1>8, NextCases DEF LauncherStep

-----------------------------------------------------------------------------
(* Before the first command, and after Wait().                              *)

LEMMA BeforeDispatchStep ==
  ASSUME TypeOK, BeforeDispatch, Next
  PROVE  BeforeDispatch'
<1> USE DEF TypeOK, BeforeDispatch
<1>1. CASE MainOnly
  <2>1. pc' = pc
    BY <1>1, MainFrame DEF workerVars
  <2>2. CASE Stdin \/ Interrupt
    BY <2>1, <2>2 DEF Stdin, ReadStdin, StdinFails, Interrupt, channelVars,
                      storageVars
  <2>3. CASE MainStep /\ ~StartLauncher
    BY <2>1, <2>3 DEF MainStep, SetupFails, Dispatch, Receive, CollectCanceled,
                      Emit, EmitDone, CancelRun, WaitForWorkers,
                      cleanupOutputStorage
  <2> QED
    BY <1>1, <2>2, <2>3 DEF MainOnly
<1>2. CASE StartLauncher
  BY <1>2 DEF StartLauncher, channelVars, storageVars, workerVars
<1>3. CASE LauncherStep
  BY <1>3 DEF LauncherStep, LaunchCheck, Launch, LaunchCanceled, channelVars,
              storageVars, workerVars
<1>4. ASSUME NEW w \in Targets, WorkerOnly(w)
      PROVE  BeforeDispatch'
  <2>1. main' = main
    BY <1>4, WorkerFrame
  <2>2. ASSUME main \in {"setup", "stdin", "died"}
        PROVE  /\ cmd' = {} /\ spool' = {} /\ spoolDir' = FALSE
               /\ pc'[w] # "session"
    BY <1>4, <2>2 DEF WorkerOnly, WorkerStep, Dial, SessionReturns,
              StartWorker, DialSucceeds, DialFails, TakeCommand,
              CommandCanceled, Spill, SessionEnds, Deliver, DropResult,
              delReslt, CloseConn, ReleaseSlot, WorkerDone, channelVars,
              storageVars, workerVars
  <2>3. pc' = [pc EXCEPT ![w] = pc'[w]]
    BY <1>4, WorkerFrame
  <2> QED
    BY <2>1, <2>2, <2>3
<1>5. CASE UNCHANGED vars
  BY <1>5 DEF vars, workerVars, channelVars, storageVars
<1> QED
  BY <1>1, <1>2, <1>3, <1>4, <1>5, NextCases

\* workerWG.Wait() returns only when nobody is left to run.
LEMMA WaitReturns ==
  ASSUME TypeOK, LauncherInv, WaitGroupExact, main = "wait", wg = 0
  PROVE  /\ \A w \in Targets : pc[w] \in {"unlaunched", "exited"}
         /\ launcher = "done" \/ next = NumTargets + 1
<1>1. launcher # "idle" /\ Cardinality(Pending) = 0
  BY DEF LauncherInv, WaitGroupExact, Pending
<1>2. \A w \in Targets : Finished(w)
  BY <1>1, PendingFinite, FS_EmptySet DEF Pending
<1>3. \A w \in Targets : pc[w] \in {"unlaunched", "exited"}
  BY <1>2 DEF Finished, LauncherInv
<1>4. ASSUME launcher # "done", next # NumTargets + 1
      PROVE  FALSE
  <2>1. next \in Targets
    BY <1>4 DEF TypeOK, Targets
  <2>2. pc[next] = "unlaunched"
    BY <2>1 DEF LauncherInv, Targets
  <2> QED
    BY <1>2, <1>4, <2>1, <2>2 DEF Finished
<1> QED
  BY <1>3, <1>4

LEMMA QuietStep ==
  ASSUME TypeOK, LauncherInv, WaitGroupExact, Quiet, Next
  PROVE  Quiet'
<1> USE DEF TypeOK, Quiet
<1>1. CASE MainOnly
  <2>1. UNCHANGED <<pc, launcher, next>>
    BY <1>1, MainFrame DEF workerVars, launcherVars
  <2>2. CASE SetupFails
    BY <2>1, <2>2 DEF SetupFails, LauncherInv, Targets
  <2>3. CASE WaitForWorkers
    BY <2>1, <2>3, WaitReturns DEF WaitForWorkers
  <2>4. CASE cleanupOutputStorage
    BY <2>1, <2>4 DEF cleanupOutputStorage
  <2>5. CASE Stdin \/ Interrupt
    BY <2>1, <2>5 DEF Stdin, ReadStdin, StdinFails, Interrupt
  <2>6. CASE Dispatch \/ Receive \/ CollectCanceled \/ EmitDone \/ CancelRun
    BY <2>6 DEF Dispatch, Receive, CollectCanceled, EmitDone, CancelRun
  <2>7. CASE \E r \in held, printErr, cleanupErr \in BOOLEAN :
                Emit(r, printErr, cleanupErr)
    BY <2>7 DEF Emit
  <2> QED
    BY <1>1, <2>2, <2>3, <2>4, <2>5, <2>6, <2>7 DEF MainOnly, MainStep
<1>2. CASE StartLauncher
  BY <1>2 DEF StartLauncher
<1>3. CASE LauncherStep
  BY <1>3 DEF LauncherStep, LaunchCheck, Launch, LaunchCanceled,
              finishUnlaunchedWorkers, LauncherInv, workerVars
<1>4. ASSUME NEW w \in Targets, WorkerOnly(w)
      PROVE  Quiet'
  BY <1>4, WorkerFrame DEF launcherVars
<1>5. CASE UNCHANGED vars
  BY <1>5 DEF vars, workerVars, launcherVars
<1> QED
  BY <1>1, <1>2, <1>3, <1>4, <1>5, NextCases

LEMMA CollectorStep ==
  ASSUME TypeOK, CollectorInv, Next
  PROVE  CollectorInv'
<1> USE DEF CollectorInv
<1>1. CASE MainOnly
  BY <1>1 DEF MainOnly, MainStep, Stdin, ReadStdin, StdinFails, Interrupt,
              SetupFails, Dispatch, Receive, CollectCanceled, Emit, EmitDone,
              CancelRun, WaitForWorkers, cleanupOutputStorage, collectorVars
<1>2. CASE StartLauncher
  BY <1>2 DEF StartLauncher
<1>3. CASE LauncherStep
  BY <1>3 DEF LauncherStep, LaunchCheck, Launch, LaunchCanceled, collectorVars
<1>4. ASSUME NEW w \in Targets, WorkerOnly(w)
      PROVE  CollectorInv'
  BY <1>4, WorkerFrame DEF collectorVars
<1>5. CASE UNCHANGED vars
  BY <1>5 DEF vars, collectorVars
<1> QED
  BY <1>1, <1>2, <1>3, <1>4, <1>5, NextCases

LEMMA SortedStep ==
  ASSUME TypeOK, SortedInv, Next
  PROVE  SortedInv'
<1> USE DEF TypeOK, SortedInv
<1>1. ASSUME NEW r \in held, NEW printErr \in BOOLEAN,
             NEW cleanupErr \in BOOLEAN, Emit(r, printErr, cleanupErr)
      PROVE  SortedInv'
  <2> DEFINE report == [con |-> r.con, code |-> r.code,
                        err |-> printErr \/ cleanupErr]
  <2>1. /\ emitted' = Append(emitted, report) /\ conf' = conf
        /\ conf.sortPrint => r.con = cur /\ cur' = cur + 1
    BY <1>1 DEF Emit, Printable
  <2>2. report \in Report
    BY DEF Result, Report
  <2> QED
    BY <2>1, <2>2
<1>2. CASE UNCHANGED <<conf, cur, emitted>>
  BY <1>2
<1>3. CASE MainOnly
  BY <1>1, <1>2, <1>3 DEF MainOnly, MainStep, Stdin, ReadStdin, StdinFails,
              Interrupt, SetupFails, Dispatch, Receive, CollectCanceled,
              EmitDone, CancelRun, WaitForWorkers, cleanupOutputStorage,
              collectorVars
<1>4. CASE StartLauncher \/ LauncherStep \/ UNCHANGED vars
  BY <1>2, <1>4 DEF StartLauncher, LauncherStep, LaunchCheck, Launch,
              LaunchCanceled, vars, collectorVars
<1>5. ASSUME NEW w \in Targets, WorkerOnly(w)
      PROVE  SortedInv'
  BY <1>2, <1>5, WorkerFrame DEF collectorVars
<1> QED
  BY <1>3, <1>4, <1>5, NextCases

\* Nothing is spooled after the clean-up: no session is left to spool.
LEMMA StorageStep ==
  ASSUME TypeOK, Quiet, StorageGone, Next
  PROVE  StorageGone'
<1> USE DEF StorageGone
<1>1. CASE MainOnly
  BY <1>1 DEF MainOnly, MainStep, Stdin, ReadStdin, StdinFails, Interrupt,
              SetupFails, Dispatch, Receive, CollectCanceled, Emit, EmitDone,
              CancelRun, WaitForWorkers, cleanupOutputStorage, storageVars
<1>2. CASE StartLauncher
  BY <1>2 DEF StartLauncher
<1>3. CASE LauncherStep
  BY <1>3 DEF LauncherStep, LaunchCheck, Launch, LaunchCanceled, storageVars
<1>4. ASSUME NEW w \in Targets, WorkerOnly(w)
      PROVE  StorageGone'
  BY <1>4, WorkerFrame DEF Quiet
<1>5. CASE UNCHANGED vars
  BY <1>5 DEF vars, storageVars
<1> QED
  BY <1>1, <1>2, <1>3, <1>4, <1>5, NextCases

-----------------------------------------------------------------------------
(* The theorems.                                                            *)

\* IInv holds in every reachable state.
THEOREM Invariance == Spec => []IInv
<1>1. IInv /\ [Next]_vars => IInv'
  <2> SUFFICES ASSUME IInv, [Next]_vars PROVE IInv'
    OBVIOUS
  <2>1. CASE Next
    <3>1. LauncherInv' /\ CollectorInv' /\ ConnsInv' /\ SortedInv'
      BY <2>1, LauncherStepInv, CollectorStep, ConnsStep, SortedStep DEF IInv
    <3>2. WaitGroupExact' /\ wg' \in Nat
      BY <2>1, WaitGroupStep DEF IInv
    <3>3. TypeOK'
      BY <2>1, <3>2, TypeStep DEF IInv
    <3>4. ConcurrencyBounded'
      BY <2>1, <3>1, <3>3, ConcurrencyStep DEF IInv
    <3>5. BeforeDispatch' /\ Quiet' /\ StorageGone'
      BY <2>1, BeforeDispatchStep, QuietStep, StorageStep DEF IInv
    <3> QED
      BY <3>1, <3>2, <3>3, <3>4, <3>5 DEF IInv
  <2>2. CASE UNCHANGED vars
    BY <2>2 DEF IInv, TypeOK, LauncherInv, ConcurrencyBounded, ActiveWorkers,
                ConnsInv, WaitGroupExact, Finished, BeforeDispatch, Quiet,
                CollectorInv, SortedInv, StorageGone, vars, collectorVars, launcherVars,
                syncVars, workerVars, channelVars, storageVars
  <2> QED
    BY <2>1, <2>2
<1> QED
  BY InitIInv, <1>1, PTL DEF Spec

\* Every variable keeps its type; in particular the WaitGroup counter, which
\* panics when negative, never is (pssh.go:628-657).
THEOREM TypeCorrect == Spec => []TypeOK
<1>1. IInv => TypeOK
  BY DEF IInv
<1> QED
  BY <1>1, Invariance, PTL

\* At no time do more than --concurrency workers dial or hold a connection
\* (pssh.go:634-648).
THEOREM ConcurrencyTheorem == Spec => []ConcurrencyBounded
<1>1. IInv => ConcurrencyBounded
  BY DEF IInv
<1> QED
  BY <1>1, Invariance, PTL

\* workerWG counts the workers that may still run (pssh.go:564, 628-657).
THEOREM WaitGroupTheorem == Spec => []WaitGroupExact
<1>1. IInv => WaitGroupExact
  BY DEF IInv
<1> QED
  BY <1>1, Invariance, PTL

\* RunContext leaves no goroutine, connection, semaphore slot or spool file
\* behind, and neither does the log.Fatal on stdin (pssh.go:527-531, 567-588).
THEOREM CleanupTheorem == Spec => []NothingLeftBehind
<1>1. IInv => NothingLeftBehind
  <2> SUFFICES ASSUME IInv PROVE NothingLeftBehind
    OBVIOUS
  <2>1. CASE main = "returned"
    <3>1. ActiveWorkers = {}
      BY <2>1 DEF IInv, Quiet, ActiveWorkers, Active
    <3>2. conns = {} /\ slots = 0
      BY <3>1, FS_EmptySet DEF IInv, ConcurrencyBounded
    <3> QED
      BY <2>1, <3>2 DEF IInv, Quiet, StorageGone, NothingLeftBehind
  <2>2. CASE main = "died"
    BY <2>2 DEF IInv, BeforeDispatch, NothingLeftBehind
  <2> QED
    BY <2>1, <2>2 DEF NothingLeftBehind
<1> QED
  BY <1>1, Invariance, PTL

\* Sorted output follows the hosts file without a gap (pssh.go:667-683).
THEOREM SortedTheorem == Spec => []SortedOrder
<1>1. IInv => SortedOrder
  BY DEF IInv, SortedInv, SortedOrder
<1> QED
  BY <1>1, Invariance, PTL

\* A nonzero exit code never becomes 0 again (pssh.go:718-721).
THEOREM FailureSticksTheorem == Spec => FailureSticks
<1>1. IInv /\ [Next]_vars => [firstCode # 0 => firstCode' # 0]_vars
  <2> SUFFICES ASSUME IInv, Next, firstCode # 0
               PROVE  firstCode' # 0
    OBVIOUS
  <2>1. ASSUME NEW r \in held, NEW printErr \in BOOLEAN,
               NEW cleanupErr \in BOOLEAN, Emit(r, printErr, cleanupErr)
        PROVE  firstCode' # 0
    BY <2>1 DEF Emit, aggregateCode
  <2>2. CASE MainOnly
    BY <2>1, <2>2 DEF MainOnly, MainStep, Stdin, ReadStdin, StdinFails,
                Interrupt, SetupFails, Dispatch, Receive, CollectCanceled,
                EmitDone, CancelRun, WaitForWorkers, cleanupOutputStorage,
                collectorVars
  <2>3. CASE StartLauncher \/ LauncherStep \/ UNCHANGED vars
    BY <2>3 DEF StartLauncher, LauncherStep, LaunchCheck, Launch,
                LaunchCanceled, vars, collectorVars
  <2>4. ASSUME NEW w \in Targets, WorkerOnly(w)
        PROVE  firstCode' # 0
    BY <2>4, WorkerFrame DEF collectorVars, IInv
  <2> QED
    BY <2>2, <2>3, <2>4, NextCases
<1> QED
  BY <1>1, Invariance, PTL DEF Spec, FailureSticks

-----------------------------------------------------------------------------
(* The results: from the worker that made them to the output.               *)

LEMMA ResultTypes ==
  ASSUME TypeOK
  PROVE  /\ \A i \in DOMAIN results : results[i].con \in Targets
         /\ \A r \in held : r.con \in Targets
         /\ \A i \in DOMAIN emitted : emitted[i].con \in Targets
<1>1. results \in Seq(Result) /\ held \subseteq Result /\ emitted \in Seq(Report)
  BY DEF TypeOK
<1>2. \A i \in DOMAIN results : results[i] \in Result
  BY <1>1
<1>3. \A i \in DOMAIN emitted : emitted[i] \in Report
  BY <1>1
<1> QED
  BY <1>1, <1>2, <1>3 DEF Result, Report

\* Results stay where they are, and what they say of their workers stays true.
LEMMA ResultsKept ==
  ASSUME TypeOK, ResultsInv, UNCHANGED <<results, held, emitted>>,
         \A w \in Targets :
            pc[w] \in Past => pc'[w] \in Past /\ outcome'[w] = outcome[w]
  PROVE  ResultsInv'
<1>1. /\ \A i \in DOMAIN results : results[i].con \in Targets
      /\ \A r \in held : r.con \in Targets
      /\ \A i \in DOMAIN emitted : emitted[i].con \in Targets
  BY ResultTypes
<1> QED
  BY <1>1 DEF ResultsInv

\* The same for the workers that have delivered.
LEMMA DeliveredKept ==
  ASSUME TypeOK, DeliveredInv, UNCHANGED <<results, held, emitted>>,
         Canceled => Canceled',
         \A w \in Targets :
            pc'[w] \in Past => pc[w] \in Past \/ Canceled'
  PROVE  DeliveredInv'
  BY DEF DeliveredInv

\* The steps of a worker other than Deliver.
LEMMA WorkerKeeps ==
  ASSUME TypeOK, NEW w \in Targets, WorkerOnly(w), ~Deliver(w)
  PROVE  /\ UNCHANGED results
         /\ \A v \in Targets :
               /\ pc[v] \in Past => pc'[v] \in Past /\ outcome'[v] = outcome[v]
               /\ pc'[v] \in Past => pc[v] \in Past \/ Canceled
<1> USE DEF TypeOK, Past, channelVars, workerVars
<1>1. CASE StartWorker(w) \/ Dial(w)
  BY <1>1 DEF StartWorker, Dial, DialSucceeds, DialFails
<1>2. CASE TakeCommand(w) \/ CommandCanceled(w)
  BY <1>2 DEF TakeCommand, CommandCanceled
<1>3. CASE Spill(w)
  BY <1>3 DEF Spill
<1>4. CASE SessionReturns(w)
  BY <1>4 DEF SessionReturns, SessionEnds
<1>5. CASE DropResult(w)
  BY <1>5 DEF DropResult
<1>6. CASE CloseConn(w) \/ ReleaseSlot(w) \/ WorkerDone(w)
  BY <1>6 DEF CloseConn, ReleaseSlot, WorkerDone
<1> QED
  BY <1>1, <1>2, <1>3, <1>4, <1>5, <1>6 DEF WorkerOnly, WorkerStep

\* The launcher and the steps of main that move no result.
LEMMA OthersKeep ==
  ASSUME TypeOK, LauncherInv,
         \/ StartLauncher \/ LauncherStep \/ UNCHANGED vars
         \/ MainOnly /\ ~Receive
                     /\ ~(\E r \in held, printErr, cleanupErr \in BOOLEAN :
                             Emit(r, printErr, cleanupErr))
  PROVE  /\ UNCHANGED <<results, held, emitted>>
         /\ Canceled => Canceled'
         /\ \A v \in Targets :
               /\ pc[v] \in Past => pc'[v] \in Past /\ outcome'[v] = outcome[v]
               /\ pc'[v] \in Past => pc[v] \in Past \/ Canceled'
<1> USE DEF TypeOK, Past, channelVars, workerVars, collectorVars, Canceled
<1>1. CASE StartLauncher \/ UNCHANGED vars
  BY <1>1 DEF StartLauncher, vars
<1>2. CASE LauncherStep
  BY <1>2 DEF LauncherStep, LaunchCheck, Launch, LaunchCanceled, LauncherInv
<1>3. CASE /\ MainOnly /\ ~Receive
           /\ ~(\E r \in held, printErr, cleanupErr \in BOOLEAN :
                   Emit(r, printErr, cleanupErr))
  BY <1>3, MainFrame DEF MainOnly, MainStep, Stdin, ReadStdin, StdinFails,
          Interrupt, SetupFails, Dispatch, CollectCanceled, EmitDone,
          CancelRun, WaitForWorkers, cleanupOutputStorage
<1> QED
  BY <1>1, <1>2, <1>3

-----------------------------------------------------------------------------
(* The steps that move a result.                                            *)

\* The result leaves the channel.
LEMMA ReceiveResults ==
  ASSUME TypeOK, ResultsInv, DeliveredInv, Receive
  PROVE  ResultsInv' /\ DeliveredInv'
<1> DEFINE head == results[1]
<1>1. /\ UNCHANGED <<emitted, pc, outcome, ctx>>
      /\ held' = held \cup {head} /\ results' = Tail(results)
      /\ results # <<>>
  BY DEF Receive, workerVars
<1>2. /\ results \in Seq(Result) /\ Len(results) \in Nat \ {0}
      /\ 1 \in DOMAIN results /\ DOMAIN results = 1..Len(results)
  BY <1>1 DEF TypeOK
<1>3. /\ DOMAIN results' = 1..(Len(results) - 1)
      /\ \A i \in DOMAIN results' :
            i + 1 \in DOMAIN results /\ results'[i] = results[i + 1] /\ i + 1 # 1
  BY <1>1, <1>2
<1>4. \A i \in DOMAIN results : i = 1 \/ (i - 1 \in DOMAIN results'
                                          /\ results'[i - 1] = results[i])
  BY <1>1, <1>2, <1>3
<1>5. /\ \A i, j \in DOMAIN results' :
            results'[i].con = results'[j].con => i = j
      /\ \A i \in DOMAIN results' :
            /\ results'[i].con # head.con
            /\ \A r \in held : results'[i].con # r.con
            /\ \A j \in DOMAIN emitted : results'[i].con # emitted[j].con
            /\ pc[results'[i].con] \in Past
            /\ results'[i].code = outcome[results'[i].con]
  <2>1. ASSUME NEW i \in DOMAIN results', NEW j \in DOMAIN results',
               results'[i].con = results'[j].con
        PROVE  i = j
    <3>1. i + 1 = j + 1
      BY <2>1, <1>3 DEF ResultsInv
    <3> QED
      BY <3>1, <1>3, <1>2
  <2> QED
    BY <2>1, <1>2, <1>3 DEF ResultsInv
<1>6. /\ \A r \in held : head.con # r.con
      /\ \A j \in DOMAIN emitted : head.con # emitted[j].con
      /\ pc[head.con] \in Past /\ head.code = outcome[head.con]
  BY <1>2 DEF ResultsInv
<1>7. ResultsInv'
  BY <1>1, <1>5, <1>6 DEF ResultsInv
<1>8. DeliveredInv'
  <2> SUFFICES ASSUME ~Canceled', NEW w \in Targets, pc[w] \in Past
               PROVE  \/ \E i \in DOMAIN results' : results'[i].con = w
                      \/ \E r \in held' : r.con = w
                      \/ \E i \in DOMAIN emitted : emitted[i].con = w
    BY <1>1 DEF DeliveredInv
  <2>1. ~Canceled
    BY <1>1 DEF Canceled
  <2>2. CASE \E i \in DOMAIN results : results[i].con = w
    BY <2>2, <1>1, <1>4
  <2> QED
    BY <2>1, <2>2, <1>1 DEF DeliveredInv
<1> QED
  BY <1>7, <1>8

\* The result is printed.
LEMMA EmitResults ==
  ASSUME TypeOK, ResultsInv, DeliveredInv, NEW r \in held,
         NEW printErr \in BOOLEAN, NEW cleanupErr \in BOOLEAN,
         Emit(r, printErr, cleanupErr)
  PROVE  ResultsInv' /\ DeliveredInv'
<1> DEFINE report == [con |-> r.con, code |-> r.code,
                      err |-> printErr \/ cleanupErr]
<1>1. /\ UNCHANGED <<results, pc, outcome, ctx>>
      /\ held' = held \ {r}
      /\ emitted' = Append(emitted, report)
  BY DEF Emit, workerVars, channelVars
<1>2. emitted \in Seq(Report) /\ Len(emitted) \in Nat
  BY DEF TypeOK
<1>3. /\ DOMAIN emitted = 1..Len(emitted)
      /\ DOMAIN emitted' = 1..(Len(emitted) + 1)
      /\ \A i \in DOMAIN emitted : emitted'[i] = emitted[i]
      /\ emitted'[Len(emitted) + 1] = report
  BY <1>1, <1>2
<1>4. \A i \in DOMAIN emitted' : i \in DOMAIN emitted \/ i = Len(emitted) + 1
  BY <1>2, <1>3
<1>5. report.con = r.con /\ report.code = r.code
  OBVIOUS
<1>6. ResultsInv'
  BY <1>1, <1>3, <1>4, <1>5 DEF ResultsInv
<1>7. DeliveredInv'
  <2> SUFFICES ASSUME ~Canceled', NEW w \in Targets, pc[w] \in Past
               PROVE  \/ \E i \in DOMAIN results : results[i].con = w
                      \/ \E s \in held' : s.con = w
                      \/ \E i \in DOMAIN emitted' : emitted'[i].con = w
    BY <1>1 DEF DeliveredInv
  <2>1. ~Canceled
    BY <1>1 DEF Canceled
  <2>2. CASE \E s \in held : s.con = w
    BY <2>2, <1>1, <1>2, <1>3, <1>5
  <2>3. CASE \E i \in DOMAIN emitted : emitted[i].con = w
    BY <2>3, <1>2, <1>3
  <2> QED
    BY <2>1, <2>2, <2>3 DEF DeliveredInv
<1> QED
  BY <1>6, <1>7

\* The result enters the channel: its worker had none.
LEMMA DeliverResults ==
  ASSUME TypeOK, ResultsInv, DeliveredInv, NEW w \in Targets, Deliver(w)
  PROVE  ResultsInv' /\ DeliveredInv'
<1> DEFINE res == [con |-> w, code |-> outcome[w]]
<1>1. /\ UNCHANGED <<held, emitted, outcome, ctx>>
      /\ results' = Append(results, res)
      /\ pc[w] = "deliver" /\ pc' = [pc EXCEPT ![w] = "return"]
  BY DEF Deliver, collectorVars
<1>2. /\ results \in Seq(Result) /\ Len(results) \in Nat
      /\ pc \in [Targets -> WorkerStates]
  BY DEF TypeOK
<1>3. /\ DOMAIN results = 1..Len(results)
      /\ DOMAIN results' = 1..(Len(results) + 1)
      /\ \A i \in DOMAIN results : results'[i] = results[i]
      /\ results'[Len(results) + 1] = res
  BY <1>1, <1>2
<1>4. \A i \in DOMAIN results' : i \in DOMAIN results \/ i = Len(results) + 1
  BY <1>2, <1>3
<1>5. /\ \A i \in DOMAIN results : results[i].con # w
      /\ \A r \in held : r.con # w
      /\ \A i \in DOMAIN emitted : emitted[i].con # w
  BY <1>1 DEF ResultsInv, Past
<1>6. /\ pc'[w] \in Past
      /\ \A v \in Targets : v # w => pc'[v] = pc[v]
      /\ res.con = w /\ res.code = outcome[w]
  BY <1>1, <1>2 DEF Past
<1>7. /\ \A i \in DOMAIN results : results[i].con \in Targets
      /\ \A r \in held : r.con \in Targets
      /\ \A i \in DOMAIN emitted : emitted[i].con \in Targets
  BY ResultTypes
<1>8. ResultsInv'
  BY <1>1, <1>3, <1>4, <1>5, <1>6, <1>7 DEF ResultsInv
<1>9. DeliveredInv'
  <2> SUFFICES ASSUME ~Canceled', NEW v \in Targets, pc'[v] \in Past
               PROVE  \/ \E i \in DOMAIN results' : results'[i].con = v
                      \/ \E r \in held : r.con = v
                      \/ \E i \in DOMAIN emitted : emitted[i].con = v
    BY <1>1 DEF DeliveredInv
  <2>1. ~Canceled
    BY <1>1 DEF Canceled
  <2>2. CASE v = w
    BY <2>2, <1>2, <1>3, <1>6
  <2>3. CASE v # w
    BY <2>1, <2>3, <1>2, <1>3, <1>6 DEF DeliveredInv
  <2> QED
    BY <2>2, <2>3
<1> QED
  BY <1>8, <1>9

-----------------------------------------------------------------------------
(* The invariant and what it says.                                          *)

LEMMA ResultsStep ==
  ASSUME TypeOK, LauncherInv, ResultsInv, DeliveredInv, Next
  PROVE  ResultsInv' /\ DeliveredInv'
<1>1. CASE Receive
  BY <1>1, ReceiveResults
<1>2. CASE \E r \in held, printErr, cleanupErr \in BOOLEAN :
              Emit(r, printErr, cleanupErr)
  BY <1>2, EmitResults
<1>3. ASSUME NEW w \in Targets, WorkerOnly(w)
      PROVE  ResultsInv' /\ DeliveredInv'
  <2>1. CASE Deliver(w)
    BY <2>1, DeliverResults
  <2>2. CASE ~Deliver(w)
    <3>1. UNCHANGED <<results, held, emitted, ctx>>
      BY <1>3, <2>2, WorkerKeeps, WorkerFrame DEF collectorVars
    <3>2. \A v \in Targets :
            /\ pc[v] \in Past => pc'[v] \in Past /\ outcome'[v] = outcome[v]
            /\ pc'[v] \in Past => pc[v] \in Past \/ Canceled
      BY <1>3, <2>2, WorkerKeeps
    <3>3. Canceled' <=> Canceled
      BY <3>1 DEF Canceled
    <3> QED
      BY <3>1, <3>2, <3>3, ResultsKept, DeliveredKept
  <2> QED
    BY <2>1, <2>2
<1>4. CASE /\ ~Receive
           /\ ~(\E r \in held, printErr, cleanupErr \in BOOLEAN :
                   Emit(r, printErr, cleanupErr))
           /\ ~(\E w \in Targets : WorkerOnly(w))
  <2>1. \/ StartLauncher \/ LauncherStep \/ UNCHANGED vars
        \/ MainOnly /\ ~Receive
                    /\ ~(\E r \in held, printErr, cleanupErr \in BOOLEAN :
                            Emit(r, printErr, cleanupErr))
    BY <1>4, NextCases
  <2> QED
    BY <2>1, OthersKeep, ResultsKept, DeliveredKept
<1> QED
  BY <1>1, <1>2, <1>3, <1>4

LEMMA ResultsInvariance == Spec => [](TypeOK /\ ResultsInv /\ DeliveredInv)
<1>1. Init => ResultsInv /\ DeliveredInv
  BY DEF Init, ResultsInv, DeliveredInv, Past
<1>2. IInv /\ ResultsInv /\ DeliveredInv /\ [Next]_vars
        => ResultsInv' /\ DeliveredInv'
  <2> SUFFICES ASSUME IInv, ResultsInv, DeliveredInv, [Next]_vars
               PROVE  ResultsInv' /\ DeliveredInv'
    OBVIOUS
  <2>1. CASE Next
    BY <2>1, ResultsStep DEF IInv
  <2>2. CASE UNCHANGED vars
    BY <2>2 DEF vars, collectorVars, channelVars, workerVars, ResultsInv,
               DeliveredInv, Canceled
  <2> QED
    BY <2>1, <2>2
<1>3. IInv => TypeOK
  BY DEF IInv
<1> QED
  BY <1>1, <1>2, <1>3, Invariance, PTL DEF Spec

\* The cardinality of a set that has at most one element.
LEMMA AtMostOne ==
  ASSUME NEW S, \A x, y \in S : x = y
  PROVE  Cardinality(S) = IF S = {} THEN 0 ELSE 1
<1>1. CASE S = {}
  BY <1>1, FS_EmptySet
<1>2. CASE S # {}
  <2>1. PICK x \in S : TRUE
    BY <1>2
  <2>2. S = {x}
    BY <2>1
  <2> QED
    BY <1>2, <2>2, FS_Singleton
<1> QED
  BY <1>1, <1>2

\* A result is nowhere twice, never without its worker, and not lost before
\* the run is canceled (pssh.go:659-716).
THEOREM AccountTheorem == Spec => []ResultsAccounted
<1>1. TypeOK /\ ResultsInv /\ DeliveredInv => ResultsAccounted
  <2> SUFFICES ASSUME TypeOK, ResultsInv, DeliveredInv PROVE ResultsAccounted
    OBVIOUS
  <2>1. ASSUME NEW w \in Targets
        PROVE  /\ Places(w) <= 1
               /\ pc[w] \notin Past => Places(w) = 0
               /\ ~Canceled /\ pc[w] \in Past => Places(w) = 1
    <3> DEFINE A == {i \in DOMAIN results : results[i].con = w}
               B == {r \in held : r.con = w}
               C == {i \in DOMAIN emitted : emitted[i].con = w}
    <3>1. /\ Cardinality(A) = IF A = {} THEN 0 ELSE 1
          /\ Cardinality(B) = IF B = {} THEN 0 ELSE 1
          /\ Cardinality(C) = IF C = {} THEN 0 ELSE 1
      <4>1. /\ \A x, y \in A : x = y
            /\ \A x, y \in B : x = y
            /\ \A x, y \in C : x = y
        BY DEF ResultsInv
      <4> HIDE DEF A, B, C
      <4> QED
        BY <4>1, AtMostOne
    <3>2. /\ A = {} \/ B = {}
          /\ A = {} \/ C = {}
          /\ B = {} \/ C = {}
      BY DEF ResultsInv
    <3>3. pc[w] \notin Past => A = {} /\ B = {} /\ C = {}
      BY DEF ResultsInv
    <3>4. ~Canceled /\ pc[w] \in Past => A # {} \/ B # {} \/ C # {}
      BY DEF DeliveredInv
    <3>5. Places(w) = Cardinality(A) + Cardinality(B) + Cardinality(C)
      BY DEF Places
    <3> HIDE DEF A, B, C
    <3> QED
      BY <3>1, <3>2, <3>3, <3>4, <3>5
  <2> QED
    BY <2>1 DEF ResultsAccounted, ResultsInv, Past
<1> QED
  BY <1>1, ResultsInvariance, PTL

\* A worker finds room in the results channel: the results in it are those of
\* other workers (pssh.go:577).
THEOREM DeliverTheorem == Spec => []DeliverNeverBlocks
<1>1. TypeOK /\ ResultsInv => DeliverNeverBlocks
  <2> SUFFICES ASSUME TypeOK, ResultsInv, NEW w \in Targets, pc[w] = "deliver"
               PROVE  Len(results) < NumTargets
    BY DEF DeliverNeverBlocks, Capacity
  <2> DEFINE n == Len(results)
             f == [i \in 1..n |-> results[i].con]
  <2>1. n \in Nat /\ DOMAIN results = 1..n
    BY DEF TypeOK
  <2>2. \A i \in DOMAIN results : results[i].con \in Targets \ {w}
    BY ResultTypes DEF ResultsInv, Past
  <2>3. f \in Injection(1..n, Targets \ {w})
    BY <2>1, <2>2 DEF Injection, IsInjective, ResultsInv
  <2>4. /\ IsFiniteSet(Targets \ {w})
        /\ Cardinality(Targets \ {w}) = NumTargets - 1
    BY TargetsFinite, FS_RemoveElement
  <2>5. Cardinality(1..n) <= Cardinality(Targets \ {w})
    BY <2>3, <2>4, FS_Injection
  <2> HIDE DEF n, f
  <2>6. Cardinality(1..n) = n
    BY <2>1, FS_Interval
  <2>7. n <= NumTargets - 1
    BY <2>4, <2>5, <2>6, Zenon
  <2> QED
    BY <2>1, <2>7, NumTargetsAssumption DEF n
<1> QED
  BY <1>1, ResultsInvariance, PTL

-----------------------------------------------------------------------------
(* Exit code 0.                                                             *)

LEMMA HeldFinite ==
  ASSUME TypeOK, ResultsInv
  PROVE  IsFiniteSet(held) /\ Cardinality(held) \in Nat
<1> DEFINE f == [r \in held |-> r.con]
<1>1. f \in Injection(held, Targets)
  BY ResultTypes DEF ResultsInv, Injection, IsInjective
<1> QED
  BY <1>1, TargetsFinite, FS_Injection, FS_CardinalityType

\* Steps that move no result and are not the collector's.
LEMMA ZeroKept ==
  ASSUME TypeOK, ZeroInv,
         UNCHANGED <<conf, cur, held, emitted, iter, firstCode>>,
         main' = "emit" <=> main = "emit",
         main' \in {"wait", "cleanup", "returned"} =>
            iter = NumTargets \/ main \in {"wait", "cleanup", "returned"}
  PROVE  ZeroInv'
  BY DEF ZeroInv, Printable

LEMMA ZeroReceive ==
  ASSUME TypeOK, ResultsInv, ZeroInv, Receive
  PROVE  ZeroInv'
<1> DEFINE head == results[1]
<1>1. /\ UNCHANGED <<conf, cur, emitted, iter, firstCode>>
      /\ main = "collect" /\ main' = "emit"
      /\ held' = held \cup {head} /\ results # <<>>
  BY DEF Receive
<1>2. head \notin held
  <2>1. results \in Seq(Result)
    BY DEF TypeOK
  <2>2. 1 \in DOMAIN results
    BY <1>1, <2>1
  <2> QED
    BY <2>2 DEF ResultsInv
<1> HIDE DEF head
<1>3. Cardinality(held') = Cardinality(held) + 1
  BY <1>1, <1>2, HeldFinite, FS_AddElement
<1>4. /\ Len(emitted) \in Nat /\ iter \in Nat /\ Cardinality(held) \in Nat
  BY HeldFinite DEF TypeOK
<1> QED
  BY <1>1, <1>3, <1>4 DEF ZeroInv

LEMMA ZeroEmit ==
  ASSUME TypeOK, ResultsInv, ZeroInv, NEW r \in held,
         NEW printErr \in BOOLEAN, NEW cleanupErr \in BOOLEAN,
         Emit(r, printErr, cleanupErr)
  PROVE  ZeroInv'
<1> DEFINE report == [con |-> r.con, code |-> r.code,
                      err |-> printErr \/ cleanupErr]
<1>1. /\ UNCHANGED <<conf, iter, main>> /\ main = "emit"
      /\ held' = held \ {r} /\ emitted' = Append(emitted, report)
  BY DEF Emit
<1>2. Cardinality(held') = Cardinality(held) - 1
  BY <1>1, HeldFinite, FS_RemoveElement
<1>3. emitted \in Seq(Report) /\ report \in Report
  BY DEF TypeOK, Result, Report
<1>4. /\ Len(emitted') = Len(emitted) + 1
      /\ DOMAIN emitted' = DOMAIN emitted \cup {Len(emitted) + 1}
      /\ \A i \in DOMAIN emitted : emitted'[i] = emitted[i]
      /\ emitted'[Len(emitted) + 1] = report
  BY <1>1, <1>3
<1>5. firstCode' = 0 =>
        /\ firstCode = 0
        /\ ~report.err
        /\ conf.policy # "always-zero" => report.code = 0
  BY DEF Emit, aggregateCode
<1>6. Len(emitted) \in Nat /\ iter \in Nat /\ Cardinality(held) \in Nat
  BY HeldFinite DEF TypeOK
<1> HIDE DEF report
<1>7. firstCode' = 0 => \A i \in DOMAIN emitted' :
         /\ ~emitted'[i].err
         /\ conf.policy # "always-zero" => emitted'[i].code = 0
  BY <1>4, <1>5 DEF ZeroInv
<1>8. firstCode' = 0 => Len(emitted') + Cardinality(held') = iter + 1
  BY <1>1, <1>2, <1>4, <1>5, <1>6 DEF ZeroInv
<1> QED
  BY <1>1, <1>7, <1>8 DEF ZeroInv

LEMMA ZeroStep ==
  ASSUME TypeOK, ResultsInv, ZeroInv, CollectorInv, Next
  PROVE  ZeroInv'
<1> USE DEF collectorVars
<1>1. CASE \E r \in held, printErr, cleanupErr \in BOOLEAN :
              Emit(r, printErr, cleanupErr)
  BY <1>1, ZeroEmit
<1>2. CASE Receive
  BY <1>2, ZeroReceive
<1>3. CASE SetupFails \/ CollectCanceled
  BY <1>3 DEF SetupFails, CollectCanceled, ZeroInv, Printable
<1>4. CASE EmitDone
  <2>1. Len(emitted) \in Nat /\ iter \in Nat /\ Cardinality(held) \in Nat
    BY HeldFinite DEF TypeOK
  <2> QED
    BY <1>4, <2>1 DEF EmitDone, ZeroInv, Printable
<1>5. CASE Stdin \/ Interrupt \/ Dispatch \/ CancelRun \/ WaitForWorkers
              \/ cleanupOutputStorage \/ StartLauncher
  BY <1>5, ZeroKept DEF Stdin, ReadStdin, StdinFails, Interrupt, Dispatch,
          CancelRun, WaitForWorkers, cleanupOutputStorage, StartLauncher
<1>6. CASE LauncherStep \/ UNCHANGED vars
  BY <1>6, ZeroKept DEF LauncherStep, LaunchCheck, Launch, LaunchCanceled, vars
<1>7. ASSUME NEW w \in Targets, WorkerOnly(w)
      PROVE  ZeroInv'
  BY <1>7, WorkerFrame, ZeroKept
<1> QED
  BY <1>1, <1>2, <1>3, <1>4, <1>5, <1>6, <1>7, NextCases DEF MainOnly, MainStep

LEMMA ZeroInvariance == Spec => []ZeroInv
<1>1. Init => ZeroInv
  <2> SUFFICES ASSUME Init PROVE ZeroInv
    OBVIOUS
  <2>1. Len(emitted) = 0 /\ Cardinality(held) = 0 /\ iter = 0 /\ held = {}
    BY FS_EmptySet DEF Init
  <2> QED
    BY <2>1 DEF Init, ZeroInv, Printable
<1>2. IInv /\ ResultsInv /\ ZeroInv /\ [Next]_vars => ZeroInv'
  <2> SUFFICES ASSUME IInv, ResultsInv, ZeroInv, [Next]_vars PROVE ZeroInv'
    OBVIOUS
  <2>1. CASE Next
    BY <2>1, ZeroStep DEF IInv
  <2>2. CASE UNCHANGED vars
    BY <2>2, ZeroKept DEF vars, collectorVars, IInv
  <2> QED
    BY <2>1, <2>2
<1> QED
  BY <1>1, <1>2, Invariance, ResultsInvariance, PTL DEF Spec

\* In completion order every result is printed when nothing is held, and there
\* is one of every target.
LEMMA AllUnsorted ==
  ASSUME TypeOK, ResultsInv, held = {}, Len(emitted) = NumTargets
  PROVE  \A w \in Targets : \E i \in DOMAIN emitted : emitted[i].con = w
<1> DEFINE f == [i \in 1..NumTargets |-> emitted[i].con]
<1>1. DOMAIN emitted = 1..NumTargets
  BY DEF TypeOK
<1>2. f \in Injection(1..NumTargets, Targets)
  BY <1>1, ResultTypes DEF ResultsInv, Injection, IsInjective
<1>3. Cardinality(1..NumTargets) = Cardinality(Targets)
  BY DEF Targets
<1>4. f \in Surjection(1..NumTargets, Targets)
  <2> HIDE DEF f
  <2> QED
    BY <1>2, <1>3, TargetsFinite, FS_Injection
<1> QED
  BY <1>1, <1>4 DEF Surjection

\* In sorted order the results that wait are those after a target that is
\* missing: if none is missing, none waits.
LEMMA AllSorted ==
  ASSUME TypeOK, ResultsInv, SortedInv, conf.sortPrint, Printable = {},
         Len(emitted) + Cardinality(held) = NumTargets
  PROVE  \A w \in Targets : \E i \in DOMAIN emitted : emitted[i].con = w
<1> DEFINE n == Len(emitted)
           f == [r \in held |-> r.con]
<1>1. n \in Nat /\ DOMAIN emitted = 1..n /\ cur = n + 1
  BY DEF TypeOK, SortedInv
<1>2. \A i \in 1..n : emitted[i].con = i
  BY <1>1 DEF SortedInv
<1>3. \A r \in held : r.con \in (n + 2)..NumTargets
  <2> SUFFICES ASSUME NEW r \in held PROVE r.con \in (n + 2)..NumTargets
    OBVIOUS
  <2>1. r.con \in 1..NumTargets
    BY ResultTypes DEF Targets
  <2>2. r.con # n + 1
    BY <1>1 DEF Printable
  <2>3. r.con \notin 1..n
    BY <1>1, <1>2 DEF ResultsInv
  <2> HIDE DEF n
  <2> QED
    BY <1>1, <2>1, <2>2, <2>3, NumTargetsAssumption
<1>4. f \in Injection(held, (n + 2)..NumTargets)
  BY <1>3 DEF ResultsInv, Injection, IsInjective
<1> HIDE DEF n, f
<1>5. /\ IsFiniteSet((n + 2)..NumTargets)
      /\ Cardinality((n + 2)..NumTargets)
            = IF n + 2 > NumTargets THEN 0 ELSE NumTargets - (n + 2) + 1
  <2> DEFINE a == n + 2
  <2>1. a \in Int /\ NumTargets \in Int
    BY <1>1, NumTargetsAssumption
  <2> HIDE DEF a
  <2>2. /\ IsFiniteSet(a..NumTargets)
        /\ Cardinality(a..NumTargets)
              = IF a > NumTargets THEN 0 ELSE NumTargets - a + 1
    BY <2>1, FS_Interval
  <2> QED
    BY <2>2 DEF a
<1>6. Cardinality(held) <= Cardinality((n + 2)..NumTargets)
  BY <1>4, <1>5, FS_Injection
<1>7. Cardinality(held) \in Nat /\ n + Cardinality(held) = NumTargets
  BY HeldFinite DEF n
<1>8. n = NumTargets
  <2> DEFINE h == Cardinality(held)
             k == Cardinality((n + 2)..NumTargets)
  <2>1. /\ h \in Nat /\ n + h = NumTargets /\ h <= k
        /\ k = IF n + 2 > NumTargets THEN 0 ELSE NumTargets - (n + 2) + 1
    BY <1>5, <1>6, <1>7
  <2> HIDE DEF h, k
  <2> QED
    BY <1>1, <2>1, NumTargetsAssumption
<1> QED
  BY <1>1, <1>2, <1>8 DEF Targets

LEMMA AllReported ==
  ASSUME TypeOK, SortedInv, ResultsInv, Printable = {},
         Len(emitted) + Cardinality(held) = NumTargets
  PROVE  \A w \in Targets : \E i \in DOMAIN emitted : emitted[i].con = w
<1>1. CASE conf.sortPrint
  BY <1>1, AllSorted
<1>2. CASE ~conf.sortPrint
  <2>1. held = {}
    BY <1>2 DEF Printable
  <2>2. Cardinality(held) = 0 /\ Len(emitted) \in Nat
    BY <2>1, FS_EmptySet DEF TypeOK
  <2>3. Len(emitted) = NumTargets
    BY <2>2
  <2> QED
    BY <2>1, <2>3, AllUnsorted
<1> QED
  BY <1>1, <1>2

\* Exit code 0 means that every target was reported, printed and, unless the
\* policy is always-zero, successful (pssh.go:659-730).
THEOREM ZeroTheorem == Spec => []ZeroMeansComplete
<1>1. TypeOK /\ SortedInv /\ ResultsInv /\ ZeroInv => ZeroMeansComplete
  <2> SUFFICES ASSUME TypeOK, SortedInv, ResultsInv, ZeroInv,
                      main = "returned", firstCode = 0
               PROVE  /\ \A w \in Targets :
                            \E i \in DOMAIN emitted : emitted[i].con = w
                      /\ \A i \in DOMAIN emitted :
                            /\ ~emitted[i].err
                            /\ conf.policy # "always-zero" => emitted[i].code = 0
    BY DEF ZeroMeansComplete
  <2>1. /\ Printable = {}
        /\ Len(emitted) + Cardinality(held) = NumTargets
    BY DEF ZeroInv
  <2>2. \A i \in DOMAIN emitted :
           /\ ~emitted[i].err
           /\ conf.policy # "always-zero" => emitted[i].code = 0
    BY DEF ZeroInv
  <2> QED
    BY <2>1, <2>2, AllReported
<1>2. IInv => SortedInv
  BY DEF IInv
<1> QED
  BY <1>1, <1>2, Invariance, ResultsInvariance, ZeroInvariance, PTL

-----------------------------------------------------------------------------
(* Executor implements Fanout: the caller of RunContext sees reports one at *)
(* a time and an exit code that is the exit policy applied to all of them.  *)


-----------------------------------------------------------------------------
(* The exit policy, report by report.                                       *)

LEMMA FirstExists ==
  ASSUME NEW S \in SUBSET Nat, S # {}
  PROVE  /\ Promise!First(S) \in S
         /\ \A j \in S : Promise!First(S) <= j
<1>1. \E i \in S : \A j \in S : i <= j
  BY LeastExists
<1> QED
  BY <1>1 DEF Promise!First

\* The first of a set stays the first when a larger number joins it.
LEMMA FirstKept ==
  ASSUME NEW S \in SUBSET Nat, S # {}, NEW n \in Nat, \A j \in S : j < n
  PROVE  Promise!First(S \cup {n}) = Promise!First(S)
<1> DEFINE a == Promise!First(S)
           b == Promise!First(S \cup {n})
<1>1. a \in S /\ \A j \in S : a <= j
  BY FirstExists
<1>2. S \cup {n} \in SUBSET Nat /\ S \cup {n} # {}
  OBVIOUS
<1>3. b \in S \cup {n} /\ \A j \in S \cup {n} : b <= j
  BY <1>2, FirstExists
<1> HIDE DEF a, b
<1>4. a = b
  BY <1>1, <1>3
<1> QED
  BY <1>4 DEF a, b

\* What one more report does to the policy's code: nothing once there is one.
LEMMA PolicyAppend ==
  ASSUME NEW p, NEW s \in Seq(Report), NEW r \in Report
  PROVE  Promise!PolicyCode(p, Append(s, r))
            = IF Promise!PolicyCode(p, s) # 0 THEN Promise!PolicyCode(p, s)
              ELSE IF p = "always-zero" THEN IF r.err THEN 1 ELSE 0
              ELSE IF Promise!Verdict(r) = 0 THEN 0
              ELSE IF p = "any" THEN 1
              ELSE Promise!Verdict(r)
<1> DEFINE t == Append(s, r)
           n == Len(s) + 1
           U == Promise!Unclean(s)
           V == Promise!Unclean(t)
<1>1. /\ n \in Nat \ {0}
      /\ DOMAIN s = 1..(n - 1) /\ DOMAIN t = 1..n
      /\ \A i \in DOMAIN s : t[i] = s[i]
      /\ t[n] = r
  OBVIOUS
<1>2. \A i \in DOMAIN t : i \in DOMAIN s \/ i = n
  BY <1>1
<1>3. \A i \in DOMAIN s : i \in DOMAIN t /\ i \in Nat /\ i < n
  BY <1>1
<1> HIDE DEF t, n
<1>4. CASE p = "always-zero"
  BY <1>1, <1>2, <1>3, <1>4 DEF Promise!PolicyCode, t
<1>5. CASE p # "always-zero"
  <2>1. V = U \cup (IF Promise!Verdict(r) = 0 THEN {} ELSE {n})
    BY <1>1, <1>2, <1>3 DEF Promise!Unclean
  <2>2. U \in SUBSET Nat /\ \A j \in U : j < n /\ t[j] = s[j]
    BY <1>1, <1>3 DEF Promise!Unclean
  <2>3. CASE U = {}
    <3>1. Promise!First({n}) = n
      BY <1>1, FirstExists
    <3> QED
      BY <1>1, <1>5, <2>1, <2>3, <3>1 DEF Promise!PolicyCode, t
  <2>4. CASE U # {}
    <3>1. /\ Promise!First(U) \in U
          /\ Promise!First(U \cup {n}) = Promise!First(U)
      BY <1>1, <2>2, <2>4, FirstExists, FirstKept
    <3>2. V # {} /\ Promise!First(V) = Promise!First(U)
      BY <2>1, <2>4, <3>1
    <3>3. Promise!PolicyCode(p, t)
            = IF p = "any" THEN 1 ELSE Promise!Verdict(t[Promise!First(V)])
      BY <1>5, <3>2 DEF Promise!PolicyCode
    <3>4. Promise!PolicyCode(p, s)
            = IF p = "any" THEN 1 ELSE Promise!Verdict(s[Promise!First(U)])
      BY <1>5, <2>4 DEF Promise!PolicyCode
    <3>5. Promise!Verdict(s[Promise!First(U)]) # 0
      BY <3>1 DEF Promise!Unclean
    <3>6. t[Promise!First(V)] = s[Promise!First(U)]
      BY <2>2, <3>1, <3>2
    <3> HIDE DEF U, V
    <3> QED
      BY <3>3, <3>4, <3>5, <3>6 DEF t
  <2> QED
    BY <2>3, <2>4
<1> QED
  BY <1>4, <1>5

-----------------------------------------------------------------------------
(* The invariant.                                                           *)

LEMMA PolicyPrimed ==
  ASSUME UNCHANGED <<conf, emitted>>
  PROVE  Promise!PolicyCode(conf.policy, emitted)'
            = Promise!PolicyCode(conf.policy, emitted)
  BY DEF Promise!PolicyCode, Promise!Unclean, Promise!First, Promise!Verdict

LEMMA PromiseEmit ==
  ASSUME TypeOK, ResultsInv, PromiseInv, NEW r \in held,
         NEW printErr \in BOOLEAN, NEW cleanupErr \in BOOLEAN,
         Emit(r, printErr, cleanupErr)
  PROVE  PromiseInv'
<1> DEFINE report == [con |-> r.con, code |-> r.code,
                      err |-> printErr \/ cleanupErr]
<1>1. /\ UNCHANGED <<conf, ctx, iter, main>> /\ main = "emit"
      /\ held' = held \ {r} /\ emitted' = Append(emitted, report)
  BY DEF Emit
<1>2. Cardinality(held') = Cardinality(held) - 1
  BY <1>1, HeldFinite, FS_RemoveElement
<1>3. /\ emitted \in Seq(Report) /\ report \in Report
      /\ iter \in Nat /\ Cardinality(held) \in Nat
  BY HeldFinite DEF TypeOK, Result, Report
<1>4. Len(emitted') = Len(emitted) + 1 /\ Len(emitted) \in Nat
  BY <1>1, <1>3
<1>5. /\ report.code = r.code /\ report.err = (printErr \/ cleanupErr)
      /\ firstCode' = LET c == aggregateCode(firstCode, r.code)
                      IN  IF c = 0 /\ (printErr \/ cleanupErr) THEN 1 ELSE c
  BY DEF Emit
<1> HIDE DEF report
<1>6. CASE firstCode = 1 /\ ctx = "interrupted"
  <2>1. firstCode' = 1
    BY <1>5, <1>6 DEF aggregateCode
  <2> QED
    BY <1>1, <1>6, <2>1 DEF PromiseInv
<1>7. CASE /\ firstCode = Promise!PolicyCode(conf.policy, emitted)
           /\ Len(emitted) + Cardinality(held) = iter + 1
  <2>1. Promise!PolicyCode(conf.policy, emitted)'
          = Promise!PolicyCode(conf.policy, Append(emitted, report))
    BY <1>1 DEF Promise!PolicyCode, Promise!Unclean, Promise!First,
                Promise!Verdict
  <2>2. firstCode' = Promise!PolicyCode(conf.policy, Append(emitted, report))
    BY <1>3, <1>5, <1>7, PolicyAppend DEF aggregateCode, Promise!Verdict
  <2>3. Len(emitted') + Cardinality(held') = iter + 1
    BY <1>2, <1>3, <1>4, <1>7
  <2> QED
    BY <1>1, <2>1, <2>2, <2>3 DEF PromiseInv
<1> QED
  BY <1>1, <1>6, <1>7 DEF PromiseInv

LEMMA PromiseStep ==
  ASSUME TypeOK, ResultsInv, PromiseInv, Next
  PROVE  PromiseInv'
<1> USE DEF collectorVars
<1>1. CASE \E r \in held, printErr, cleanupErr \in BOOLEAN :
              Emit(r, printErr, cleanupErr)
  BY <1>1, PromiseEmit
<1>2. CASE Receive
  <2> DEFINE head == results[1]
  <2>1. /\ UNCHANGED <<conf, ctx, emitted, iter, firstCode>>
        /\ main = "collect" /\ main' = "emit"
        /\ held' = held \cup {head} /\ results # <<>>
    BY <1>2 DEF Receive
  <2>2. results \in Seq(Result)
    BY DEF TypeOK
  <2>3. head \notin held
    BY <2>1, <2>2 DEF ResultsInv
  <2> HIDE DEF head
  <2>4. Cardinality(held') = Cardinality(held) + 1
    BY <2>1, <2>3, HeldFinite, FS_AddElement
  <2>5. /\ Len(emitted) \in Nat /\ iter \in Nat /\ Cardinality(held) \in Nat
    BY HeldFinite DEF TypeOK
  <2>6. Promise!PolicyCode(conf.policy, emitted)'
           = Promise!PolicyCode(conf.policy, emitted)
    BY <2>1, PolicyPrimed
  <2> QED
    BY <2>1, <2>4, <2>5, <2>6 DEF PromiseInv
<1>3. CASE SetupFails
  BY <1>3 DEF SetupFails, PromiseInv
<1>4. CASE CollectCanceled
  BY <1>4 DEF CollectCanceled, PromiseInv, Canceled, TypeOK
<1>5. CASE EmitDone
  <2>1. Len(emitted) \in Nat /\ iter \in Nat /\ Cardinality(held) \in Nat
    BY HeldFinite DEF TypeOK
  <2>2. Promise!PolicyCode(conf.policy, emitted)'
           = Promise!PolicyCode(conf.policy, emitted)
    BY <1>5, PolicyPrimed DEF EmitDone
  <2> QED
    BY <1>5, <2>1, <2>2 DEF EmitDone, PromiseInv
<1>6. CASE Stdin \/ Interrupt \/ Dispatch \/ CancelRun \/ WaitForWorkers
              \/ cleanupOutputStorage \/ StartLauncher
  <2>1. /\ UNCHANGED <<conf, held, emitted, iter, firstCode>>
        /\ main' = "emit" <=> main = "emit"
    BY <1>6 DEF Stdin, ReadStdin, StdinFails, Interrupt, Dispatch, CancelRun,
            WaitForWorkers, cleanupOutputStorage, StartLauncher
  <2>2. Promise!PolicyCode(conf.policy, emitted)'
           = Promise!PolicyCode(conf.policy, emitted)
    BY <2>1, PolicyPrimed
  <2> QED
    BY <1>6, <2>1, <2>2 DEF Stdin, ReadStdin, StdinFails, Interrupt, Dispatch,
            CancelRun, WaitForWorkers, cleanupOutputStorage, StartLauncher,
            PromiseInv
<1>7. ASSUME UNCHANGED <<conf, ctx, main, collectorVars>>
      PROVE  PromiseInv'
  BY <1>7, PolicyPrimed DEF PromiseInv
<1>8. CASE LauncherStep \/ UNCHANGED vars
  BY <1>7, <1>8 DEF LauncherStep, LaunchCheck, Launch, LaunchCanceled, vars
<1>9. ASSUME NEW w \in Targets, WorkerOnly(w)
      PROVE  PromiseInv'
  BY <1>7, <1>9, WorkerFrame
<1> QED
  BY <1>1, <1>2, <1>3, <1>4, <1>5, <1>6, <1>8, <1>9, NextCases
     DEF MainOnly, MainStep

LEMMA PromiseInvariance == Spec => []PromiseInv
<1>1. Init => PromiseInv
  <2> SUFFICES ASSUME Init PROVE PromiseInv
    OBVIOUS
  <2>1. Len(emitted) = 0 /\ Cardinality(held) = 0 /\ iter = 0
    BY FS_EmptySet DEF Init
  <2>2. Promise!PolicyCode(conf.policy, emitted) = 0
    BY DEF Init, Promise!PolicyCode, Promise!Unclean
  <2> QED
    BY <2>1, <2>2 DEF Init, PromiseInv
<1>2. IInv /\ ResultsInv /\ PromiseInv /\ [Next]_vars => PromiseInv'
  <2> SUFFICES ASSUME IInv, ResultsInv, PromiseInv, [Next]_vars
               PROVE  PromiseInv'
    OBVIOUS
  <2>1. CASE Next
    BY <2>1, PromiseStep DEF IInv
  <2>2. CASE UNCHANGED vars
    BY <2>2, PolicyPrimed DEF vars, collectorVars, PromiseInv
  <2> QED
    BY <2>1, <2>2
<1> QED
  BY <1>1, <1>2, Invariance, ResultsInvariance, PTL DEF Spec

-----------------------------------------------------------------------------
(* The refinement: a report is a report, the deferred clean-up is the       *)
(* return, and everything else is invisible to the caller.                  *)

LEMMA ReportStep ==
  ASSUME TypeOK, SortedInv, ResultsInv, NEW r \in held,
         NEW printErr \in BOOLEAN, NEW cleanupErr \in BOOLEAN,
         Emit(r, printErr, cleanupErr)
  PROVE  Promise!Next
<1> DEFINE report == [con |-> r.con, code |-> r.code,
                      err |-> printErr \/ cleanupErr]
<1>1. /\ UNCHANGED <<conf, ctx, main>> /\ main = "emit"
      /\ emitted' = Append(emitted, report)
      /\ conf.sortPrint => r.con = cur
  BY DEF Emit, Printable
<1>2. report \in Promise!Report
  BY DEF TypeOK, Result, Promise!Report, Promise!Targets, Targets
<1>3. report.con \notin Promise!EmittedTargets
  BY DEF ResultsInv, Promise!EmittedTargets
<1>4. conf.sortPrint => report.con = Len(emitted) + 1
  BY <1>1 DEF SortedInv
<1> HIDE DEF report
<1>5. Promise!Emit(report)
  BY <1>1, <1>3, <1>4 DEF Promise!Emit
<1> QED
  BY <1>2, <1>5 DEF Promise!Next

LEMMA ReturnStep ==
  ASSUME TypeOK, SortedInv, ResultsInv, ZeroInv, PromiseInv,
         cleanupOutputStorage
  PROVE  Promise!Next
<1>1. /\ main = "cleanup" /\ main' = "returned"
      /\ UNCHANGED <<conf, ctx, emitted, firstCode>>
  BY DEF cleanupOutputStorage, collectorVars
<1>2. CASE firstCode = 1 /\ (ctx = "interrupted" \/ emitted = <<>>)
  BY <1>1, <1>2 DEF Promise!Next, Promise!ReturnEarly
<1>3. CASE /\ firstCode = Promise!PolicyCode(conf.policy, emitted)
           /\ Len(emitted) + Cardinality(held) = NumTargets
  <2>1. Printable = {}
    BY <1>1 DEF ZeroInv
  <2>2. Promise!EmittedTargets = Promise!Targets
    BY <1>3, <2>1, AllReported, ResultTypes
       DEF Promise!EmittedTargets, Promise!Targets, Targets
  <2> QED
    BY <1>1, <1>3, <2>2 DEF Promise!Next, Promise!ReturnComplete
<1> QED
  BY <1>1, <1>2, <1>3 DEF PromiseInv

LEMMA RefinementStep ==
  ASSUME IInv, ResultsInv, ZeroInv, PromiseInv, [Next]_vars
  PROVE  [Promise!Next]_(Promise!vars)
<1> USE DEF collectorVars
<1>1. CASE \E r \in held, printErr, cleanupErr \in BOOLEAN :
              Emit(r, printErr, cleanupErr)
  BY <1>1, ReportStep DEF IInv
<1>2. CASE cleanupOutputStorage
  BY <1>2, ReturnStep DEF IInv
<1>3. CASE Interrupt /\ main # "died"
  BY <1>3 DEF Interrupt, Promise!Next, Promise!Interrupt
<1>4. CASE StdinFails
  BY <1>4 DEF StdinFails, PromiseInv, Promise!Next, Promise!Die
<1>5. ASSUME UNCHANGED <<conf, emitted>>,
             ctx' = "interrupted" <=> ctx = "interrupted",
             \/ main \notin {"returned", "died"} /\ main' \notin {"returned", "died"}
             \/ UNCHANGED <<main, firstCode>>
      PROVE  UNCHANGED Promise!vars
  BY <1>5 DEF Promise!vars
<1>6. CASE SetupFails \/ StartLauncher \/ ReadStdin \/ Dispatch \/ Receive
              \/ CollectCanceled \/ EmitDone \/ CancelRun \/ WaitForWorkers
  BY <1>5, <1>6 DEF SetupFails, StartLauncher, ReadStdin, Dispatch, Receive,
          CollectCanceled, EmitDone, CancelRun, WaitForWorkers
<1>7. CASE LauncherStep \/ UNCHANGED vars
  BY <1>5, <1>7 DEF LauncherStep, LaunchCheck, Launch, LaunchCanceled, vars
<1>8. ASSUME NEW w \in Targets, WorkerOnly(w)
      PROVE  UNCHANGED Promise!vars
  <2>1. UNCHANGED <<conf, ctx, main, emitted, firstCode>>
    BY <1>8, WorkerFrame DEF IInv
  <2> QED
    BY <1>5, <2>1
<1> QED
  BY <1>1, <1>2, <1>3, <1>4, <1>6, <1>7, <1>8
     DEF Next, MainStep, Stdin, Terminated, WorkerOnly

\* RunContext keeps the promise of Fanout: whatever its goroutines do, the
\* caller sees one report per target at most, in order when it is sorted, and
\* the exit code of the policy (pssh.go:521-591, 659-730).
THEOREM PromiseTheorem == Spec => KeepsPromise
<1>1. Init => Promise!Init
  BY DEF Init, Promise!Init
<1>2. IInv /\ ResultsInv /\ ZeroInv /\ PromiseInv /\ [Next]_vars
        => [Promise!Next]_(Promise!vars)
  BY RefinementStep
<1> QED
  BY <1>1, <1>2, Invariance, ResultsInvariance, ZeroInvariance,
     PromiseInvariance, PTL DEF Spec, KeepsPromise, Promise!Spec
=============================================================================
