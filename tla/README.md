# Verification of gopssh

TLA+ models of gopssh, a parallel SSH client, with TLC runs on small instances
and TLAPS proofs. `PROJECT.json` lists components, runs, mutants, the map from
definitions to source lines, findings, hazards and theorems.

    tlc -config Executor.cfg ExecutorMC.tla            # any run
    tlc -config Gopssh.cfg GopsshMC.tla
    tlapm Executor_proofs.tla                          # the proofs of one module

## 1. The system

| component | state | operations | talks to |
|---|---|---|---|
| **run coordination** (`pkg/pssh/pssh.go`, `conwork.go`) | semaphore channel, `workerWG`, a command channel per worker, the results channel, derived context, spool directory | `RunContext`, `launchConWorkers`, `conWorker`, `commandLoop`, `printResults` / `printSortResults`, `aggregateCode`, clean-up | starts one session per worker; calls the result handler |
| **session** (`pssh.go` `DialContext`, `sessionwork.go`) | socket, cancellation watcher, SSH channel, two readers, a waiter, the result | dial, handshake, `NewSession`, `Start`, the `select`, joining, `Finalize`, `errResult` | fills two outputs, delivers to the collector |
| **budgets** (`output.go` `memoryBudget`) | an atomic `int64` | `TryReserve`, `Release` | shared by all outputs |
| **captured output** (`output.go` `spillBuffer`) | chunks, spool file, error, `Fatal` token | `Write`, `spillToDisk`, `writeToFile`, `Finalize`, `WriteTo`, `Close` | two budgets, the spool directory |
| **agent connections** (`agent_wrap.go`) | slot channel, `sync.Pool`, cached signers | `Get`, `Put`, `dialSocket`, `Signers`, `Sign` | shared by the workers that authenticate |
| **JSON run** (`cmd/gopssh/cli.go`, `main.go`) | `runStats`, `seen`, stdout, cancellation cause | `runModern`, `executeRun`, `handleRunResult`, summary, signal goroutine | wraps `RunContext` |
| **authentication** (`pssh.go:806-849`) | the identity files read, a list of methods per connection | `readIdentFiles`, `getIdentFileAuthMethods`, `mergeAuthMethods` | agent connections; x/crypto/ssh |
| **result line** (`cli.go:756-950`) | two passes over a captured output, a tail of bytes between writes | `utf8Validator`, `jsonStringWriter`, base64 | reads a captured output |
| **output files** (`cli.go:651-754`) | the output directory | `prepareOutputDirectory`, `writeResultFile` | called by the result handler |
| **command line** (`cli.go:50-400, 1507-1590`) | none that outlives a call | `executeModern`, `scanControlFlags`, flag parsing, rules of each command | starts the other parts |
| **hosts** (`pssh.go:416-477`, `cli.go:409-472, 964-1120`) | none | two parsers and two normalizations, `hosts list` / `validate` | feed runs and probes |
| **doctor** (`cli.go:1122-1345`, `ProbeContext`) | the list of checks, one connection at a time | local checks, probes | uses hosts, authentication |
| **byte sizes** (`main.go:150-195`) | a limit | `parseByteSize`, `formatByteSize` | the budgets' limits |
| help, completion, version, packaging | none | | |

What is hard here: `2 + 4n` goroutines share channels, a WaitGroup and two
lock-free counters; a signal may arrive at any step; any file operation may
fail; results arrive in any order and must come out in order, once, with an
exit code computed from all of them; output buffers have no lock and change
hands three times. Outside the engine the difficulty is agreement: a scan of the
arguments that anticipates the flag parser, two readers of one hosts file, two
passes over one output, a summary and an exit code that a signal may overtake.

What makes each part correct:

- *coordination*: never more than `--concurrency` connections; the WaitGroup
  exact; every result in one place; order; exit policies; nothing left behind;
  termination when every dial and session ends, and after every interrupt.
- *session*: one truthful result unless canceled; no overlap of readers and
  the owner of a buffer; no goroutine or socket survives; cancellation and
  broken outputs end it.
- *budgets and output*: limits kept, nothing leaked, and the bytes kept are a
  prefix of the stream whatever fails.
- *agent*: slots exact, a connection is used by one worker at a time, every
  request ends.
- *JSON run*: one line per host, then the summary; counters, lines, aggregate
  code and process exit code agree.
- *result line, files*: what a line says of an output is the output, byte for
  byte; a file named in a line holds it, and no file of another host is touched.
- *command line*: the form of the output and the command that runs are those the
  parser would have decided on.
- *hosts, doctor, sizes*: every reader of a file sees the same targets; doctor
  says what a run would meet; a limit is the number that was written.

## 2. The modules

| module | models | implements / uses |
|---|---|---|
| `Fanout` | abstract: what one `RunContext` promises its caller | |
| `Executor` | run coordination in full: 29 actions for main, launcher and workers | implements `Fanout` (`KeepsPromise`) |
| `ExecutorMC` | instances of `Executor` | |
| `Executor_proofs` | proofs: all safety properties of `Executor`, and that it implements `Fanout` | extends `DataLemmas` |
| `DataLemmas` | lemmas about numbers, sums, sequences and concatenations that several proofs need | |
| `MemoryBudget` | the compare-and-swap loop with wrap-around arithmetic | justifies the one-step reservation of `SpillBuffer` |
| `MemoryBudget_proofs` | proofs: `CounterExact`, `RefusedWhenFull` | extends `DataLemmas` |
| `OutputStream` | abstract: an append-only stream that fails at most once, is sealed, printed, discarded | |
| `SpillBuffer`, `SpillBufferMC` | outputs that share two budgets | implements `OutputStream` (`IsOutputStream`) |
| `SpillBuffer_proofs` | proofs: all safety properties of `SpillBuffer`, and that it implements `OutputStream` | extends `DataLemmas` |
| `Session` | one worker's connection and session | gives `Executor` its session, `SpillBuffer` its single owner |
| `Session_proofs` | proofs: all safety invariants of `Session` | |
| `AgentPool` | slots, pool and connections of the SSH Agent | |
| `AgentPool_proofs` | proofs: `SlotsExact`, `ExclusiveUse` | |
| `Authentication` | identity files, methods, the keys one connection offers | |
| `JsonRun` | `run --json` around the engine | instantiates `Fanout`: one step of `Fanout` per result |
| `JsonRun_proofs` | proofs about what a run gives to its caller: `RunLines`, `RunExit`, `FilesTruthful`, `FieldFaithful` | extends `GopsshMC`, `DataLemmas` |
| `TextStream` | one output field of a result line | |
| `OutputFiles` | the files of `--output-dir` | |
| `CommandLine` | from `os.Args` to a command | |
| `HostSpecs` | the readers of targets, as operators | |
| `HostsCommand` | `hosts list`, `hosts validate` | extends `HostSpecs` |
| `Doctor` | `doctor` and `ProbeContext` | extends `HostSpecs` |
| `ByteSizes` | the two size options | |
| `GopsshMC` | the process: one of the parts above, chosen at the start | instantiates them and extends `JsonRun` |
| `GopsshMC_proofs` | proofs about what precedes a run: `SizesExact`, `ReadersAgree`, `DoctorTruthful`, `OffersAsDocumented`, `AnticipatesParser`, `FormTruthful` | extends `GopsshMC`, `DataLemmas` |

How they fit: `Executor` treats a session as one interval that may spool and
ends with some code; `Session` is that interval in detail, and its
`ResultUnlessCanceled` is what `Executor`'s `SessionEnds` assumes. `Session`
treats an output as an error flag, its `Fatal` token and whether it is sealed;
`SpillBuffer` has the rest and relies on `SingleOwner`. `JsonRun` sees the
engine only through `Fanout`, which `Executor` is shown to implement.

**Executor.** Variables are the Go objects: `slots` is
`len(concurrentGoroutines)`, `wg` the WaitGroup, `cmd` the full command
channels, `results` the results channel, `held` `resSlise`, `iter` and `cur`
the loop variables of the collector, `ctx` the derived context and why it was
canceled. `main`, `launcher` and `pc[w]` say where each goroutine is. An action
is the code between two points where another goroutine can interfere; a `select`
is one action per case, so that both a ready channel and a canceled context may
win. The deferred calls of a worker are three actions in their order (close the
connection, give the slot back, `Done`). Targets are numbered from 1.

**Session.** `pc` walks through `DialContext`, `worker` and `run`; `watcher` is
the `context.AfterFunc`, which may fire before `stopCancel()` and close the
socket after it. The peer (`HandshakeSucceeds`, `SessionOpened`,
`StartAccepted`, `PeerCloses`) is modelled from how the code uses
`golang.org/x/crypto/ssh`.

**MemoryBudget.** `Wrap` is two's complement; the run's `Limit` is the largest
integer, where `used + size` would overflow if it were computed first.

**SpillBuffer.** Bytes are the numbers 1, 2, 3, ... of their stream, so that a
lost, repeated or misplaced byte shows. Each budget operation and each file
write is a step of its own and may fail. `releaseMemory` is two steps: it returns
the memory budget (`SpillDone`, `CloseRelease`) and then drops the chunks
(`SpillDrop`, `CloseDrop`), and other buffers run in between. `os.Remove` is taken
to succeed (section 7). A `WriteTo` that fails half way is left to `Executor`'s
`printErr`.

**AgentPool.** `pool` is the `sync.Pool`, which may miss an idle connection and
may drop one to the garbage collector; `broken` are sockets the agent has given
up, which `Put` returns to the pool all the same.

**JsonRun.** `lines` is stdout, a line cut short is `torn`; a write to stdout, to
an output file, or the reading of a captured output may fail at any result.
`pending` is the signal channel, `cause` the context's cause.
Before the run `runModern` parses and checks the options, loads the targets and
reads stdin, and ends with an error object (code 2, or 1 from `preflightRun`) or a
dry run. Which options are given is a free choice at the step that looks at them;
that the run gets all of stdin, or none of it, is not represented.

**Authentication.** The identity files are read once, as `readIdentFiles` does
for all workers; then one worker makes its list of methods and the library goes
through it. That of several methods with one name only the first is used is
what `ssh.ClientConfig.Auth` documents (external). The server accepts some set
of keys, or ends the connection after any refusal.

**TextStream.** A byte is its class in UTF-8 (one-byte character, escaped one,
lead byte, continuation, invalid, and the first byte of U+FFFD, which is what
`utf8.DecodeRune` returns for an error). Each pass divides the stream into
writes of its own. `FieldFaithful` decodes what was written and compares.

**OutputFiles.** The directory holds the files of an earlier run and symbolic
links; each file operation may fail. Names are the index and what is left of the
host.

**CommandLine.** Arguments are classes of words. `scanControlFlags` is the code's
with its rules for values and for the end of options, `FlagParse` the flag
package as the commands use it: each is a loop, a state and what one more argument
makes of it (`ScanNext`, `LookNext`, `ParseNext`). The steps of the module are those
of `executeModern` and of the commands.

**HostSpecs, HostsCommand, Doctor.** A value is a kind of host and a kind of
port; `normalizeHost` and `normalizeModernHost` are partial functions on them.
`HostsCommand` compares what `hosts` prints with what each reader gives to the
engine; `Doctor` adds the machine that is looked at and the signal. Of the identity
files only whether all, some or none of them can be opened matters to `doctor`.

**ByteSizes.** `MaxInt` and `Kilo` scale int64 and 1024 down together; products
wrap around as in Go unless the code's check stops them.

**GopsshMC.** `part` says which of the modules takes the steps. Variables of the
same name are shared by the parts, those a part does not have are `Off`; the
invariants are those of the parts, each under its `part`.

Definitions named `X_word` that follow "Mutant:" are not part of the models:
each is a variant of `X` with a plausible bug, and the property named in
`PROJECT.json` is violated when it takes the place of `X`.

## 3. The runs

| run | instance | distinct states | shows |
|---|---|---|---|
| `executor` | 2 targets; 1 slot with 3 policies, 2 slots with policy first; both orders | 233,084 | `WaitGroupExact`, `NothingLeftBehind`, `ConcurrencyBounded`, `ResultsAccounted`, `SortedOrder`, `DeliverNeverBlocks`, `ZeroMeansComplete`, `FailureSticks`, refinement of `Fanout`, `InterruptReturns`, `RunTerminates`, `ResultsFlow` |
| `memory_budget` | 3 goroutines, limit = largest integer = 7 | 7,070 | `CounterExact`, `RefusedWhenFull`, `ReserveReturns` |
| `spill_buffer` | 2 interchangeable buffers, chunk 2, memory 5, spool 6, 7 bytes each | 59,436 | `LimitsRespected`, `BudgetsExact`, `HoldsPrefix`, `PrintsPrefix`, refinement of `OutputStream` |
| `session` | exit statuses 1 and 3 | 1,597 | `ResultUnlessCanceled`, `SingleOwner`, `NothingSurvives`, `ResultTruthful`, `WatcherDisarmed`, `CancelEnds`, `BrokenOutputEnds` |
| `agent_pool` | 3 workers, 2 slots, 3 socket identities | 99,942 | `SlotsExact`, `ExclusiveUse`, `RequestServed` |
| `gopssh` | see below | 1,562,155 | `FieldFaithful`, `AnticipatesParser`, `FormTruthful`, `ReadersAgree`, `DoctorTruthful`, `OffersAsDocumented`, `FilesTruthful`, `SizesExact`, `RunLines`, `RunExit` |
| `executor_open_stdin` | as `executor`, 1 slot, policy first | | `InterruptReturns` is violated (finding 1) |
| `session_silent_peer` | as `session` | | `CancelEnds` is violated (finding 2) |
| `json_run_torn_line` | `JsonRun`, 2 hosts | | `OnlyJSON` is violated (finding 3) |
| `json_run_always_zero` | `JsonRun`, 2 hosts | | `LocalErrorsShow` is violated (finding 4) |
| `json_run_late_signal` | `JsonRun`, 2 hosts | | `SummaryMatchesExit` is violated (finding 6) |
| `authentication_sources` | `Authentication`, 2 keys, 2 files | | `EverySourceTried` is violated (finding 5) |

Why the bounds are enough. With two targets and one slot there is a worker that
waits for the slot, one that runs and one that is never launched; with two slots
a hanging session runs next to one that ends, and the second target's result
overtakes the first one's. How many slots there are is part of the configuration a
behaviour starts with (`Configs`), so that every property is checked on both. More targets are the matter of the proofs, which hold
for any number of them.
Session codes are `{0}` besides the 255 of a failed connection, since the code
is only compared with 0 and passed on. Two buffers of chunk 2 with a memory
limit of 5 reach every case of `Write`: a partly filled chunk, several chunks, a
limit that is no multiple of a chunk, a spill that runs out of spool at the
second chunk, a write that runs out of spool after a spill. Three agent callers
on two slots give a waiting one. Deadlock is checked in every run; the models
stop only in their final states (`Terminated`).

In `gopssh`: streams of up to `MaxLen` = 4 bytes hold a character of three
bytes, cut at both places, next to another one. `MaxArgs` = 3 arguments hold an
option, its value and a word or delimiter after them. Two lines of a hosts file
make a duplicate, two words on a line make one that is no target. `MaxLimit` = 2
probes are one that fails and one that does not, with a signal between them. Two
keys, and files that hold either, both in one order, or none, make an agent and
files that disagree. `MaxSize` = 1 tells an empty output from one that is longer
than the file it replaces. `MaxInt` = 255 and `Kilo` = 4 leave three units whose
products overflow. Two hosts with codes 0, 1 and 255 are a success, a failure and
a connection failure in any order (`Orders` is `{FALSE}`: completion order admits
every sequence of reports that input order does).

State bounds: `MaxBytes` (bytes per buffer), `Conns` (identities of sockets
open at once; always one left for a caller that finds the pool empty). Nothing
else is bounded besides the constants of the program.

## 4. Fairness

- Weak fairness of every step that a goroutine can take by itself: the Go
  scheduler runs what can run. A `select` with several ready cases is one fair
  step, not one per case.
- `Executor`: a dial or a session ends once it is canceled, since the connection is
  closed under it (pssh.go:185, sessionwork.go:107). Nothing ends one that nobody
  canceled: `ClientConfig.Timeout` bounds the TCP connect only (pssh.go:179), and
  neither `ssh.NewClientConn` (pssh.go:188) nor a session has a deadline.
  `RunTerminates` therefore has the premise that no dial and no session lasts
  forever, and `ResultsFlow` says what is left without it. `StdinFairness`
  (whoever writes our stdin closes it) is needed by `LiveSpec` and absent from
  `OpenStdinSpec`.
- `Session`: the peer answers channel and exec requests and closes a channel we
  closed (`PeerFairness`); nothing is assumed of it in the handshake, which only
  cancellation ends. `SilentPeerSpec` drops the assumption.
- `AgentPool`: strong fairness of taking a slot, because Go wakes the senders
  that wait on a channel in the order they came. The backoff ends
  (`MaxElapsedTime`), and the agent answers or hangs up.
- `MemoryBudget`: a goroutine in `TryReserve` keeps running. The loop is
  lock-free, not wait-free, hence the premise of `ReserveReturns`.

## 5. What is proved

Each theorem holds for every value of the constants that satisfies the assumptions
of its module, all of them evaluated by TLC in the runs:

| modules | for every | assumed |
|---|---|---|
| `Executor` | number of targets, set of exit codes, and set of configurations (policy, order, concurrency) | `NumTargetsAssumption`, `CodesAssumption`, `ConfigsAssumption` (concurrency is positive: `Validate` enforces it) |
| `MemoryBudget` | number of goroutines, limit, integer width, sizes | `ProcsAssumption`, `MaxIntAssumption`, `LimitAssumption` (the limit is an int64), `SizesAssumption` |
| `SpillBuffer` | number of outputs, chunk size, limits, bytes written | `BuffersAssumption`, `ChunkSizeAssumption`, `LimitsAssumption`, `MaxBytesAssumption` |
| `Session` | set of exit statuses | `StatusAssumption` |
| `AgentPool` | set of workers and connections, number of slots | `MaxAgentConnsAssumption`, `ConnsAssumption`, `NoneAssumption` |
| `JsonRun` | number of targets, set of exit codes, any engine that `Fanout` admits | `TargetsAssumption`, `CodesAssumption` |
| the parts of `GopsshMC` | command line, stream, hosts file, `--limit`, keys, identity files, output size, integer width and unit | `SizesAssumption`, `BoundsAssumption` (the bounds are natural numbers), `KeysAssumption` |

| theorem | states |
|---|---|
| `Invariance` (`Executor_proofs`) | `Spec => []IInv` |
| `TypeCorrect` | `Spec => []TypeOK` |
| `ConcurrencyTheorem` | `Spec => []ConcurrencyBounded` |
| `WaitGroupTheorem` | `Spec => []WaitGroupExact` |
| `CleanupTheorem` | `Spec => []NothingLeftBehind` |
| `SortedTheorem` | `Spec => []SortedOrder` |
| `FailureSticksTheorem` | `Spec => FailureSticks` |
| `AccountTheorem` | `Spec => []ResultsAccounted` |
| `DeliverTheorem` | `Spec => []DeliverNeverBlocks` |
| `ZeroTheorem` | `Spec => []ZeroMeansComplete` |
| `PromiseTheorem` | `Spec => KeepsPromise`: the refinement of `Fanout` |
| `CounterIsExact` (`MemoryBudget_proofs`) | `Spec => []CounterExact` |
| `RefusalsAreHonest` | `Spec => RefusedWhenFull` |
| `Invariance` (`SpillBuffer_proofs`) | `Spec => []IInv` |
| `BudgetsAreExact` | `Spec => []BudgetsExact` |
| `LimitsAreRespected` | `Spec => []LimitsRespected` |
| `PrefixIsHeld` | `Spec => []HoldsPrefix` |
| `PrefixIsPrinted` | `Spec => []PrintsPrefix` |
| `BufferIsStream` | `Spec => IsOutputStream`: the refinement of `OutputStream` |
| `OwnerTheorem` (`Session_proofs`) | `Spec => []SingleOwner` |
| `TruthTheorem` | `Spec => []ResultTruthful` |
| `ResultTheorem` | `Spec => []ResultUnlessCanceled` |
| `SurvivorTheorem` | `Spec => []NothingSurvives` |
| `WatcherTheorem` | `Spec => []WatcherDisarmed` |
| `SlotsTheorem` (`AgentPool_proofs`) | `Spec => []SlotsExact` |
| `ExclusiveTheorem` | `Spec => []ExclusiveUse` |
| `RunLinesTheorem` (`JsonRun_proofs`) | `Spec => []RunLines` |
| `RunExitTheorem` | `Spec => []RunExit` |
| `NamedFilesAreWhole` | `GopsshSpec => []FilesTruthful` |
| `FieldsAreOutputs` | `GopsshSpec => []FieldFaithful` |
| `LimitIsMeant` (`GopsshMC_proofs`) | `GopsshSpec => []SizesExact` |
| `HostsReadAlike` | `GopsshSpec => []ReadersAgree` |
| `DoctorKeepsPromise` | `GopsshSpec => []DoctorTruthful` |
| `KeysAreOffered` | `GopsshSpec => []OffersAsDocumented` |
| `ScanAnticipates` | `GopsshSpec => []AnticipatesParser` |
| `FormIsTruthful` | `GopsshSpec => []FormTruthful` |

**Executor.** `WaitGroupExact` alone is not inductive: that
`finishUnlaunchedWorkers(next)` takes the right number off needs `LauncherInv`,
the workers from `next` on are exactly those never launched. That `Wait()`
returns with nobody left (`Quiet`) follows from `WaitGroupExact` at zero.
`NothingLeftBehind` needs `Quiet`, `ConcurrencyBounded` (no active worker, so no
slot and no connection), `StorageGone`, and for `log.Fatal` `BeforeDispatch`: no
session has started while no command was sent. `ConnsInv` places every open
connection at a worker between its dial and its `Close`. `SortedInv` ties `cur`
to the number of reports, and `CollectorInv` bounds the collector's loop.

The proof has one lemma per conjunct and step (`TypeStep`, `LauncherStepInv`,
`ConcurrencyStep`, `WaitGroupStep`, ...), each split over the actions that can
disturb it; `MainFrame` and `WorkerFrame` say once what the others leave alone.
Counting arguments (`ActiveFinite`, `PendingFinite`, `FinishUnlaunched`) rest on
the library's theorems on finite sets.

Three more invariants are about the results. `ResultsInv`: no two results of a
target in the channel, in `held` and in `emitted` together, all of them made by
workers past their delivery (`Past`), and carrying their `outcome`; with that a
worker at `deliver` has no result yet, and the map from the channel's places to
the other workers is injective, which bounds its length (`DeliverTheorem`).
`DeliveredInv`: a worker past its delivery has a result somewhere, or the run is
canceled. `ZeroInv`: as long as no failure is recorded, each iteration of the
collector stands for one result printed or held. That none is held at the end is
a counting argument: what sorted output still holds lies after a gap of one
target (`AllSorted`), and there are not enough targets after it.

The refinement of `Fanout` maps the clean-up to its return, a printed result
to a report, a failing stdin to its death, and everything else to a stutter.
`PromiseInv` says that `firstCode` is the exit policy applied to the reports so
far, or 1 for a reason `Fanout` admits; `PolicyAppend` is the heart of it: the
policy of `Fanout` looks at the whole sequence of reports, `aggregateCode` only
at the last one and at the code so far.

**MemoryBudget.** `CounterExact` (the counter is the sum of what the goroutines
own) needs that a swap that succeeds stays within the limit: what was loaded left
room (`RoomWasSeen`), and the swap succeeds only on the value loaded. The
wrap-around is excluded by the order of the code's comparison (`ExceedsIsExact`).

**SpillBuffer.** `IInv` is, per buffer: which file there is at each step
(`FileKnown`), where the bytes handed to `Write` are (`BytesCounted`), the chunks
in order and full but the last (`ChunksInOrder`), the content in the chunks or in
the file and never in both (`HeldOnce`), how far a spill has come (`SpillInOrder`),
the buffer's part of each budget (`SharesKnown`: it pays for the chunks unless
`releaseMemory` is between its steps) and what was printed (`PrintedWhole`); and for all of them, that the two counters are the sums of the
parts and within the limits (`BudgetsOK`). A step is that of one buffer and leaves
the others alone (`Step`, `OthersSame`), so that its sums change by what that
buffer's part does (`ShareChanges`). `LimitsRespected` follows since the bytes in
memory and on disk are at most the parts (`FilePaidFor`); the chunks between the two
steps of `releaseMemory`, for which nobody pays, are bounded buffer by buffer only.
That they can come on top of a full budget is a real effect of the code (section 6). The refinement maps the
writes to the abstract append, or to nothing when the bytes only move.

**Session.** One inductive invariant in four parts, the watcher and socket
(`WatcherInv`, `SockInv`), the goroutines and their channel (`GoroutinesInv`),
the result while it is made (`DraftInv`) and afterwards (`ResultInv`).

**JsonRun.** `RunExit` says what an exit code of 0 stands for: a dry run, or a complete
line for every host, none canceled, no call of the handler failed, and every host
succeeded unless the policy is `always-zero`. Under that policy it says nothing of an
output that the engine could not keep (finding 4).
Before the summary the lines are one for each host that was seen
(`Reported`), and the counters are cardinalities of sets of lines (`CountInv`); both
only as long as no write to stdout has failed. `SeenInv` says that the engine leaves
all hosts, none, or a canceled context, which is what lets the summary follow;
`RunInv` that a local error is in some report of the engine, so that its code is not
0 (`PolicyZero`, from `Fanout`'s exit policy); `CodeInv` where the code in the summary
comes from, a signal or the engine. The lines that one call of the handler may write,
complete or not, are in `HandlerWrites`.

**AgentPool.** Slots are counted by the callers between `Get` and `Put`, and
each connection is used, pooled, or free.

**GopsshMC.** Each theorem has an invariant of its part: `Inv == part = "..." => ...`;
files and field are in `JsonRun_proofs`, the others in `GopsshMC_proofs`.

- *sizes*: `SizesInv`. A suffix is found by the first unit that fits, and the
  product is the number that was meant or is refused.
- *files*: `FilesInv`. The lines are about different hosts that were handled
  (`LinesKnown`); the file in progress holds the pieces copied so far (`CopyKnown`);
  the files of a line stay whole (`LinesKept`) because the paths of two hosts differ
  and only those of the host in progress change.
- *hosts*: `HostsInv`. The errors counted are those of the entries (`ErrorsKnown`);
  the rest is about the readers as functions: one normalization rejects what the
  other does, value by value, and so for files of any length.
- *doctor*: `DoctorInv`. The targets contacted are the first ones, up to the probe
  in progress or up to a reason to stop (`ContactsKnown`); the checks are the local
  ones and those of the probes so far (`ChecksKnown`); an exit code of 0 follows a
  report without a failed check (`ExitKnown`).
- *field*: `FieldInv`. `Window`: the tail and the data at hand are what follows the
  bytes decoded so far, which are characters (`Boundary`); a tail is never a whole
  character. `Validating`, `WritingText`, `WritingBase64` are that for each pass.
  That a stream cut anywhere is valid if and only if it is valid as a whole follows
  from the places where characters start (`RuneAt`).
- *auth*: `AuthInv`. The methods in the list are those of the usable files, in order
  (`MethodsAreKeys`, by induction over the files), and the keys offered and those the
  first method still has are together the keys of that method (`OffersKnown`).
- *args*: `ArgsInv`. When the parser is reached its arguments were scanned, and the
  scan found no help (`ScannedFirst`); an outcome is what the two properties say of it
  (`OutcomeKnown`). The rest is a simulation: after each argument the scan, the search
  for `--` and the parser are in states that belong together (`Follows`), as long as
  the parser is among options, or behind the positional argument that ends them
  (`Followed`). From there on the scan of `run` is done, and a command that takes no
  arguments is refused. The states of a loop are those of its recursive function
  (`LoopExists`), and what each argument preserves holds at the end (`EachStep`).

`DataLemmas` has what the library lacks: least elements (with which the inductions
over lengths are done, as a least counterexample), sums over finite sets and how a
change of one summand changes them, and concatenations of sequences of sequences.

Only model-checked: all liveness, which is out of the prover's reach
(`InterruptReturns`, `RunTerminates`, `ResultsFlow`, `ReserveReturns`, `CancelEnds`,
`BrokenOutputEnds`, `RequestServed`). Every other property of a passing run is a theorem.
The parts of `GopsshMC` stand next to each other; that they work together is
argued in section 2.

## 6. Findings

1. **An interrupted run that reads stdin does not return.** `RunContext` calls
   `io.ReadAll(os.Stdin)` (pssh.go:569) without looking at its context, although
   "RunContext runs the main task until completion or context cancellation"
   (pssh.go:520). The legacy command line reads stdin whenever it is no
   terminal. Run `executor_open_stdin`.
2. **A silent peer outlives cancellation.** After the handshake the watcher is
   disarmed, and until `Start` has returned nothing closes the connection on
   cancellation, so the worker stays in `NewSession` or `Start`, and
   `RunContext` in `Wait()`; README.md:199 says that on cancellation "gopssh
   stops the SSH session". Run `session_silent_peer`.
3. **A torn line of NDJSON.** Without `--output-dir` the first part of a result
   line is written before the captured output is read (cli.go:775). For an output
   that failed before a byte was kept, `WriteTo` returns the error
   (output.go:210), the line stays unfinished and the next one is appended to it;
   README.md:124 says "With `--json`, stdout contains only JSON". Run
   `json_run_torn_line`.
4. **`always-zero` hides local errors.** A result of kind `output_failed` is
   aggregated like a remote failure (pssh.go:725); README.md:177 says "non-zero
   for syntax, local I/O, and internal errors". Run `json_run_always_zero`.

5. **Only one source of keys is tried.** `mergeAuthMethods` makes one public-key
   method for the agent and one for each identity file; x/crypto/ssh uses only the
   first instance of a method ("Only the first instance of a particular RFC 4252
   method will be used"). With an agent no identity file is tried, without one only
   the first that could be read. README.md:186 says "Authentication normally tries
   the SSH Agent first, then explicitly configured identity files, then the default
   identity files". Run `authentication_sources`.

6. **A late signal parts summary and exit code.** The code in the summary is
   computed from the cause of the context (cli.go:592), and `main` looks at the cause
   once more (main.go:242). A signal in between changes the exit code of the process
   to 130 or 143, and not the summary; README.md:182 says that "The
   `aggregate_exit_code` in the NDJSON summary matches the process exit code". Run
   `json_run_late_signal`; `RunExit` shows that this is the only way to differ.

Smaller observations that no run states:

- A server that accepts the TCP connection and is silent in the handshake hangs a run
  that nobody interrupts: `--connect-timeout` ("maximum amount of time for the TCP
  connection to establish", main.go:103) does not reach `ssh.NewClientConn`.
- `releaseMemory` returns the memory budget before it drops the chunks
  (output.go:286-288), so that for a moment more than `--max-buffer-memory` may be
  allocated, by as much as the buffers in between hold (`DefaultMaxBufferMemory`
  "limits total in-memory buffered remote output", pssh.go:34).
- A run that is refused because `known_hosts` disappeared after `preflightRun` prints
  a summary and no result line (README.md:129 has one per host), and ends with 1.
- `DefaultMaxAgentConns` "limits simultaneous SSH Agent socket connections"
  (pssh.go:32), but only connections in use are limited: `sync.Pool` may miss an
  idle one and a further socket is opened.
- `gopssh run word --` is accepted, since `hasArgumentDelimiter` looks for `--`
  anywhere (cli.go:287).
- `readIdentFiles` replaces the first `~` anywhere in a path (pssh.go:841), doctor
  only a leading `~/`.
- `gopssh --help --json` prints the text help; `-json` is taken by the flag package
  and not by the scan, so an error before it is reported as text.
- Ports `22` and `022` of one host are two targets to the duplicate check.
- A second Ctrl-C does not end a run that hangs (main.go:234); `run --stdin`
  ignores a signal while it reads stdin (cli.go:490).
- A remote exit status of 256 would make the process exit with 0 (main.go:244).

## 7. What is not modelled

- The SSH protocol, key exchange and host keys: external, an outcome of the
  handshake.
- `os.Remove` of a spool file failing in `SpillBuffer` (in `Executor` it may fail,
  and the file stays until the directory is removed).
- The removal of the spool directory failing (logged only).
- The text output modes, colours, wording and help texts.
- The quoting of the remote command (`shellJoin`): a conversion of characters, with
  nothing of the system's state.
- `suggestions` and `editDistance`: they choose a hint in an error message. The
  value rules of `validateRunOptions` are one outcome in `JsonRun`.
- The 64 MiB limit of stdin, permissions of output files, nested directories.
- The legacy command line (main.go:50-150), apart from the reader of hosts files
  and the engine, which it shares.
- Packaging, installation scripts, completion.

## 8. Plan

Done: sections 2 to 5. Left, most useful first:

1. The composition of `Session` with two `SpillBuffer`s, instead of the error
   flags and tokens that stand for them.
2. `validateRunOptions` rule by rule, and the legacy command line next to it.
