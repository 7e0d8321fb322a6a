------------------------------- MODULE JsonRun -------------------------------
(***************************************************************************)
(* `gopssh run --json` (cmd/gopssh/cli.go, main.go) around one RunContext: *)
(* runModern reads the options, the targets and stdin, and either prints   *)
(* what it would do or checks what the run needs;                          *)
(* executeRun passes every result of the engine to handleRunResult, which  *)
(* prints one line of NDJSON and counts it; after an interrupted run it    *)
(* adds the targets that were not reported; then it prints the summary and *)
(* main ends the process.  The signal goroutine of main runs next to all   *)
(* of that.                                                                *)
(*                                                                         *)
(* The engine is what Fanout promises of it (Executor.tla implements       *)
(* Fanout), one step of Fanout per result.  Without --output-dir the       *)
(* captured output is part of the line; with it, the output is written to  *)
(* two files first.                                                        *)
(***************************************************************************)
EXTENDS Integers, Sequences, FiniteSets

CONSTANTS
    NumTargets,    \* len(targets)
    Codes,         \* exit codes a result can carry
    Policies,      \* values of --exit-policy
    Orders         \* values of SortPrint: --order input is TRUE

ASSUME CodesAssumption == {0, 1, 255} \subseteq Codes /\ Codes \subseteq 0..255
ASSUME TargetsAssumption == NumTargets \in Nat

VARIABLES
    conf, emitted, status, code,   \* the engine, see Fanout
    dir,           \* --output-dir is given
    pending,       \* the signal in signalChannel, or "none"
    cause,         \* context.Cause(ctx): the signal, or "none"
    pc,            \* where the main goroutine is
    lines,         \* what was written to stdout
    writeErr,      \* some write to stdout has failed
    stats,         \* runStats
    seen,          \* targets the handler was called for
    rc             \* code that executeRun returns, then the process's

Engine == INSTANCE Fanout WITH interrupted <- (cause # "none")

Targets == 1..NumTargets
Signals == {"INT", "TERM"}

engineVars == <<conf, emitted, status, code>>
outVars    == <<lines, writeErr, stats, seen>>
vars == <<engineVars, dir, pending, cause, pc, outVars, rc>>

Init ==
    /\ cause = "none"
    /\ Engine!Init
    /\ dir \in BOOLEAN
    /\ pending = "none"
    /\ pc = "options"
    /\ lines = <<>> /\ writeErr = FALSE
    /\ stats = [succeeded |-> 0, failed |-> 0, connectionFailed |-> 0,
                canceled |-> 0, localErrors |-> 0]
    /\ seen = {}
    /\ rc = 0

-----------------------------------------------------------------------------
(*                          writing lines of JSON                           *)

ResultLine(con, st) == [type |-> "result", con |-> con, status |-> st]
Torn(con)           == [type |-> "torn", con |-> con]
Summary(c)          == [type |-> "summary", code |-> c]
ErrorLine           == [type |-> "error"]
DryRunLine          == [type |-> "dry_run"]

\* A write of line to stdout, after what is in `before`, succeeds ...
Written(before, line) ==
    /\ lines' = Append(before, line)
    /\ UNCHANGED writeErr

\* ... or fails, with a part of the line written or not.
WriteFails(before, con) ==
    /\ lines' \in {before, Append(before, Torn(con))}
    /\ writeErr' = TRUE

\* A result as the handler sees it.  Its output can be read back unless it
\* failed before a byte was kept, or the spool file is gone.
Result == [con : Targets,
           kind : {"success", "failed", "connection_failed", "output_failed",
                   "canceled"},
           readable : BOOLEAN]

\* writeJSONResult returns no error: one complete line.
resultWritten(res) ==
    /\ res.readable
    /\ Written(lines, ResultLine(res.con, res.kind))

\* writeJSONResult fails without --output-dir: the first part of the line is
\* on stdout before the output is read.
inlineFails(res) ==
    /\ ~dir
    /\ \/ /\ ~res.readable
          /\ Written(lines, Torn(res.con))
       \/ WriteFails(lines, res.con)

\* writeJSONOutputFailure: the replacement for the line that failed.
outputFailure(res, before) ==
    \/ Written(before, ResultLine(res.con, "output_failed"))
    \/ WriteFails(before, res.con)

\* writeJSONResult fails with --output-dir: a file cannot be written (or its
\* output not read), or the line, and another line is tried in its place.
dirFails(res) ==
    /\ dir
    /\ \/ outputFailure(res, lines)
       \/ /\ \E before \in {lines, Append(lines, Torn(res.con))} :
                \/ lines' = Append(before, ResultLine(res.con, "output_failed"))
                \/ lines' \in {before, Append(before, Torn(res.con))}
          /\ writeErr' = TRUE

\* One more in each of these counters.
Plus(counters) ==
    [c \in DOMAIN stats |-> IF c \in counters THEN stats[c] + 1 ELSE stats[c]]

\* Mutant: a failed connection is not counted as failed.
updateRunStats_connectionOnly(st) ==
    stats' = Plus(CASE st = "canceled"          -> {"canceled"}
                    [] st = "connection_failed" -> {"connectionFailed"}
                    [] st = "success"           -> {"succeeded"}
                    [] OTHER                    -> {"failed"})

updateRunStats(st) ==
    stats' = Plus(CASE st = "canceled"          -> {"canceled"}
                    [] st = "connection_failed" -> {"failed", "connectionFailed"}
                    [] st = "success"           -> {"succeeded"}
                    [] OTHER                    -> {"failed"})

\* executeRun's handler, returning an error or not: the host is seen, then
\* handleRunResult.
handleRunResult(res, failed) ==
    /\ seen' = seen \cup {res.con}
    /\ IF failed
       THEN /\ inlineFails(res) \/ dirFails(res)
            /\ stats' = Plus({"failed", "localErrors"})
       ELSE /\ resultWritten(res)
            /\ updateRunStats(res.kind)

-----------------------------------------------------------------------------
(*                              before the run                              *)

\* The main goroutine goes on; nothing here looks at the context, so that a
\* signal taken now takes effect in executeRun or in main.
Advance(from, to) ==
    /\ pc = from
    /\ pc' = to
    /\ UNCHANGED <<engineVars, dir, pending, cause, outVars, rc>>

\* renderUsageError and renderCommandError: one JSON object, and the code is
\* the same when it cannot be written.
renderError(c) ==
    /\ \/ Written(lines, ErrorLine)
       \/ WriteFails(lines, 0)
    /\ rc' = c
    /\ pc' = "exit"
    /\ UNCHANGED <<engineVars, dir, pending, cause, stats, seen>>

\* The flags, and a command given in one of the two ways.
OptionsParsed == Advance("options", "validate")

\* validateRunOptions returns nil.
OptionsValid == Advance("validate", "targets")

\* loadTargets returns at least one target, all of them normalized.
TargetsLoaded == NumTargets > 0 /\ Advance("targets", "stdin")

\* readStdin returns: nothing to read, or all of it and no more than 64 MiB.
StdinRead == Advance("stdin", "configured")

\* Any of the four fails, or help is asked for with --json.
UsageError ==
    /\ pc \in {"options", "validate", "targets", "stdin"}
    /\ renderError(2)

\* --dry-run: printDryRun, and nothing else.
DryRun ==
    /\ pc = "configured"
    /\ \/ Written(lines, DryRunLine) /\ rc' = 0
       \/ WriteFails(lines, 0) /\ rc' = 1
    /\ pc' = "exit"
    /\ UNCHANGED <<engineVars, dir, pending, cause, stats, seen>>

\* preflightRun finds known_hosts, and can create the output directory ...
PreflightSucceeds == Advance("configured", "run")

\* ... or not.
PreflightFails == pc = "configured" /\ renderError(1)

-----------------------------------------------------------------------------
(*                                the engine                                *)

\* What Session.tla and Executor.tla say of the results the engine reports.
Reportable(res, r) ==
    /\ res.con = r.con
    /\ res.kind # "canceled"
    /\ res.kind = "success" <=> r.code = 0
    /\ res.kind = "connection_failed" => r.code = 255

\* The collector emits a result: the handler runs, and an error of it (or of
\* removing the spool file) counts in the engine's exit code.
EngineEmits(r, res, failed) ==
    /\ pc = "run"
    /\ Reportable(res, r)
    /\ failed => r.err
    /\ handleRunResult(res, failed)
    /\ UNCHANGED <<cause, dir, pending, pc, rc>>
    /\ Engine!Emit(r)

\* RunContext returns, complete, interrupted or refused.
EngineReturns ==
    /\ pc = "run"
    /\ pc' = "check"
    /\ UNCHANGED <<cause, dir, pending, outVars>>
    /\ Engine!ReturnComplete \/ Engine!ReturnEarly
    /\ rc' = code'

-----------------------------------------------------------------------------
(*                        after RunContext returned                         *)

\* if ctx.Err() != nil
CheckCanceled ==
    /\ pc = "check"
    /\ pc' = IF cause # "none" THEN "cancelRest" ELSE "cause"
    /\ UNCHANGED <<engineVars, dir, pending, cause, outVars, rc>>

\* The loop over the targets that were not seen, in their order; an error ends
\* it without a summary, unless there is an output directory.
CancelRest(failed) ==
    /\ pc = "cancelRest"
    /\ seen # Targets
    /\ LET con == CHOOSE w \in Targets \ seen :
                     \A v \in Targets \ seen : w <= v
       IN  handleRunResult([con |-> con, kind |-> "canceled",
                            readable |-> TRUE], failed)
    /\ IF failed /\ ~dir
       THEN pc' = "exit" /\ rc' = 1
       ELSE UNCHANGED <<pc, rc>>
    /\ UNCHANGED <<engineVars, dir, pending, cause>>

CancelRestDone ==
    /\ pc = "cancelRest"
    /\ seen = Targets
    /\ pc' = "cause"
    /\ UNCHANGED <<engineVars, dir, pending, cause, outVars, rc>>

signalExitCode(c) ==
    CASE cause = "none" -> c
      [] cause = "TERM" -> 143
      [] OTHER          -> 130

\* Mutant: the summary carries the code of the engine.
ApplyCause_missing ==
    /\ pc = "cause"
    /\ UNCHANGED rc
    /\ pc' = "summary"
    /\ UNCHANGED <<engineVars, dir, pending, cause, outVars>>

\* code = signalExitCode(code, context.Cause(ctx))
ApplyCause ==
    /\ pc = "cause"
    /\ rc' = signalExitCode(rc)
    /\ pc' = "summary"
    /\ UNCHANGED <<engineVars, dir, pending, cause, outVars>>

\* writeJSONSummary, or return 1.
WriteSummary ==
    /\ pc = "summary"
    /\ \/ /\ Written(lines, Summary(rc))
          /\ UNCHANGED rc
       \/ /\ WriteFails(lines, 0)
          /\ rc' = 1
    /\ pc' = "exit"
    /\ UNCHANGED <<engineVars, dir, pending, cause, stats, seen>>

\* main: signalExitCode once more, os.Exit(code).
Exit ==
    /\ pc = "exit"
    /\ rc' = signalExitCode(rc)
    /\ pc' = "exited"
    /\ UNCHANGED <<engineVars, dir, pending, cause, outVars>>

-----------------------------------------------------------------------------
(*                                 signals                                  *)

\* signal.Notify: the channel has room for one signal.
Notify(s) ==
    /\ pc # "exited"
    /\ pending = "none"
    /\ pending' = s
    /\ UNCHANGED <<engineVars, dir, cause, pc, outVars, rc>>

\* The signal goroutine takes the first signal and cancels; it never reads
\* the channel again.
CancelCause ==
    /\ pc # "exited"
    /\ pending # "none" /\ cause = "none"
    /\ cause' = pending
    /\ pending' = "none"
    /\ UNCHANGED <<engineVars, dir, pc, outVars, rc>>

Terminated == pc = "exited" /\ UNCHANGED vars

Next ==
    \/ OptionsParsed \/ OptionsValid \/ TargetsLoaded \/ StdinRead
    \/ UsageError
    \/ DryRun
    \/ PreflightSucceeds \/ PreflightFails
    \/ \E r \in Engine!Report, res \in Result, failed \in BOOLEAN :
          EngineEmits(r, res, failed)
    \/ EngineReturns
    \/ CheckCanceled
    \/ \E failed \in BOOLEAN : CancelRest(failed)
    \/ CancelRestDone
    \/ ApplyCause \/ WriteSummary \/ Exit
    \/ \E s \in Signals : Notify(s)
    \/ CancelCause
    \/ Terminated

Spec == Init /\ [][Next]_vars

-----------------------------------------------------------------------------
(*                                properties                                *)

Lines(t) == {i \in DOMAIN lines : lines[i].type = t}
HasStatus(st) == {i \in Lines("result") : lines[i].status = st}

Ended == pc \in {"exit", "exited"}

\* The engine refused to run: nothing was reported and nobody interrupted it
\* before the results were completed.
Refused == seen = {}

\* Before the summary there is one line per host (cut short, at worst, when
\* its captured output cannot be read back), from the engine or from the loop
\* over what it left, never from both; with --output-dir all of them are
\* complete (cli.go:561-598, README.md "JSON / NDJSON").
OneLinePerHost ==
    Ended /\ Lines("summary") # {} /\ ~writeErr =>
        /\ Lines("summary") = {Len(lines)}
        /\ \/ Refused /\ Len(lines) = 1
           \/ \A w \in Targets :
                 Cardinality({i \in Lines("result") \cup Lines("torn") :
                                 lines[i].con = w}) = 1
        /\ dir => Lines("torn") = {}

\* The counters of the summary are those of the lines above it, and add up to
\* the number of hosts (cli.go:600-659).
SummaryAddsUp ==
    Ended /\ Lines("summary") # {} /\ ~writeErr =>
        /\ stats.succeeded = Cardinality(HasStatus("success"))
        /\ stats.canceled = Cardinality(HasStatus("canceled"))
        /\ stats.connectionFailed = Cardinality(HasStatus("connection_failed"))
        /\ stats.localErrors >= Cardinality(Lines("torn"))
        /\ \/ Refused
           \/ stats.succeeded + stats.failed + stats.canceled = NumTargets

\* Exit code 0 means that a dry run printed its one line and no host was
\* contacted, or that every host has its complete line, that none was
\* canceled, that no call of the handler failed (an output that could not be
\* read back, an output file or a line that could not be written), and, unless
\* the policy is always-zero, that every host succeeded.  An output that the
\* engine could not keep is a host that did not succeed (output_failed): always-zero
\* hides it, see LocalErrorsShow (cli.go:507-533, 577-597, main.go:241-244).
ZeroIsSuccess ==
    pc = "exited" /\ rc = 0 =>
        /\ ~writeErr
        /\ stats.canceled = 0 /\ stats.localErrors = 0
        /\ \/ lines = <<DryRunLine>> /\ emitted = <<>> /\ seen = {}
           \/ /\ Cardinality(Lines("result")) = NumTargets
              /\ conf.policy # "always-zero" => stats.succeeded = NumTargets

\* The process ends with the aggregate_exit_code of the summary, or a signal
\* was taken after the code in the summary was computed, which was then the
\* engine's; a run that a signal canceled while it had work left says so in
\* both (cli.go:592, main.go:242).  That they always match, as README.md says,
\* is SummaryMatchesExit, which does not hold.
SummaryOrLateSignal ==
    pc = "exited" =>
        \A i \in Lines("summary") :
            /\ lines[i].code # rc => lines[i].code = code /\ cause # "none"
            /\ stats.canceled > 0 => lines[i].code = rc /\ rc \in {130, 143}

\* The lines and the summary of `run --json` (cli.go:557-659).
RunLines == OneLinePerHost /\ SummaryAddsUp

\* The exit code of `run --json`: what 0 stands for under each policy, and the
\* summary's code unless a signal came later (cli.go:592-598, main.go:234-262).
RunExit == ZeroIsSuccess /\ SummaryOrLateSignal

-----------------------------------------------------------------------------
(*                          an inductive invariant                          *)

Statuses == {"success", "failed", "connection_failed", "output_failed", "canceled"}

Line == [type : {"result"}, con : Targets, status : Statuses]
        \cup [type : {"torn"}, con : 0..NumTargets]
        \cup [type : {"summary"}, code : 0..255]
        \cup [type : {"error", "dry_run"}]

Stats == [succeeded : Nat, failed : Nat, connectionFailed : Nat,
          canceled : Nat, localErrors : Nat]

Early == {"options", "validate", "targets", "stdin", "configured"}
Late  == {"check", "cancelRest", "cause", "summary"}

TypeOK ==
    /\ conf \in [policy : Policies, sortPrint : Orders]
    /\ emitted \in Seq(Engine!Report)
    /\ code \in 0..255 /\ rc \in 0..255
    /\ dir \in BOOLEAN /\ writeErr \in BOOLEAN
    /\ pending \in Signals \cup {"none"} /\ cause \in Signals \cup {"none"}
    /\ pc \in Early \cup {"run"} \cup Late \cup {"exit", "exited"}
    /\ lines \in Seq(Line)
    /\ stats \in Stats
    /\ seen \subseteq Targets

NothingYet == /\ ~writeErr /\ seen = {} /\ emitted = <<>>
              /\ stats.succeeded = 0 /\ stats.failed = 0
              /\ stats.connectionFailed = 0
              /\ stats.canceled = 0 /\ stats.localErrors = 0

EarlyInv == pc \in Early => NothingYet /\ lines = <<>>

\* The handler saw what the engine reported, and once it returned, every
\* target or none, or there was a signal.
SeenInv ==
    /\ pc = "run" => seen = Engine!EmittedTargets
    /\ pc = "check" => seen \in {{}, Targets} \/ cause # "none"
    /\ pc \in {"cause", "summary"} => seen \in {{}, Targets}

\* The first n lines are one line for each host that was seen.
Reported(n) ==
    /\ n = Cardinality(seen)
    /\ \A i \in 1..n : /\ lines[i].type \in {"result", "torn"}
                       /\ lines[i].con \in seen
                       /\ dir => lines[i].type = "result"
    /\ \A w \in seen : \E i \in 1..n : lines[i].con = w
    /\ \A i, j \in 1..n : lines[i].con = lines[j].con => i = j

LinesInv ==
    /\ pc \in {"run"} \cup Late /\ ~writeErr => Reported(Len(lines))
    /\ ~Ended => Lines("summary") = {}
    /\ \A i \in Lines("summary") :
          /\ i = Len(lines)
          /\ seen \in {{}, Targets}
          /\ ~writeErr => Reported(Len(lines) - 1)

CountInv ==
    /\ stats.succeeded + stats.failed + stats.canceled = Cardinality(seen)
    /\ ~writeErr =>
          /\ stats.succeeded = Cardinality(HasStatus("success"))
          /\ stats.canceled = Cardinality(HasStatus("canceled"))
          /\ stats.connectionFailed = Cardinality(HasStatus("connection_failed"))
          /\ stats.localErrors >= Cardinality(Lines("torn"))

\* What goes wrong in the handler is in a report of the engine.
RunInv ==
    pc = "run" =>
        /\ stats.canceled = 0
        /\ writeErr \/ stats.localErrors > 0 =>
              \E i \in DOMAIN emitted : emitted[i].err
        /\ stats.failed > 0 =>
              \E i \in DOMAIN emitted : emitted[i].code # 0 \/ emitted[i].err

Complete ==
    /\ ~writeErr /\ stats.canceled = 0 /\ stats.localErrors = 0
    /\ seen = Targets
    /\ conf.policy # "always-zero" => stats.succeeded = NumTargets

ZeroInv ==
    /\ pc \in Late /\ rc = 0 => Complete
    /\ Ended /\ rc = 0 =>
          \/ lines = <<DryRunLine>> /\ NothingYet
          \/ Complete /\ Lines("summary") # {}

\* A code that a signal gave, or that the engine returned before any signal.
FromSignal(c) == cause # "none" /\ c = signalExitCode(c)
Explained(c)  == /\ c = code \/ FromSignal(c)
                 /\ stats.canceled > 0 => FromSignal(c)

CodeInv ==
    /\ pc \in {"check", "cancelRest", "cause"} =>
          rc = code /\ (stats.canceled > 0 => cause # "none")
    /\ pc = "cancelRest" => cause # "none"
    /\ pc = "summary" => Explained(rc)
    /\ \A i \in Lines("summary") :
          /\ Explained(lines[i].code)
          /\ lines[i].code # rc => pc = "exited" /\ FromSignal(rc)

IInv == TypeOK /\ EarlyInv /\ SeenInv /\ LinesInv /\ CountInv /\ RunInv
        /\ ZeroInv /\ CodeInv

-----------------------------------------------------------------------------
(*                      what the documentation promises                     *)

\* "With `--json`, stdout contains only JSON" (README.md, JSON / NDJSON): every
\* line is complete, as long as stdout can be written.
OnlyJSON == ~writeErr => Lines("torn") = {}

\* "always-zero: 0 for remote failures, but non-zero for syntax, local I/O,
\* and internal errors" (README.md): exit code 0 is not given to a run in
\* which an output could not be kept.
LocalErrorsShow == pc = "exited" /\ rc = 0 => HasStatus("output_failed") = {}

\* "The `aggregate_exit_code` in the NDJSON summary matches the process exit
\* code" (README.md): main looks for a signal once more after the summary was
\* written (main.go:242), so that a late one changes only the latter.
SummaryMatchesExit ==
    pc = "exited" => \A i \in Lines("summary") : lines[i].code = rc
=============================================================================
