------------------------------- MODULE Session -------------------------------
(***************************************************************************)
(* One worker's SSH connection: sshDial.DialContext (pkg/pssh/pssh.go),    *)
(* then sessionWork.worker and run (pkg/pssh/sessionwork.go) with the      *)
(* goroutines run starts: one reader per output stream (readStream) and    *)
(* one that waits for the remote command, next to the context watcher of   *)
(* the dial (context.AfterFunc).                                           *)
(*                                                                         *)
(* The peer and golang.org/x/crypto/ssh are modelled from how run uses     *)
(* them: NewSession and Start block until the peer answers or the socket   *)
(* is closed, Wait and the readers until the channel is closed by the      *)
(* peer.  A spillBuffer is its error, its Fatal token and whether it is    *)
(* sealed (SpillBuffer.tla has the rest).                                  *)
(***************************************************************************)
EXTENDS Integers

CONSTANT ExitStatuses      \* nonzero exit statuses of the remote command

ASSUME StatusAssumption == ExitStatuses \subseteq Nat \ {0}

Streams == {"stdout", "stderr"}

Lost == -1            \* Wait failed without an exit status

VARIABLES
    canceled,   \* ctx.Err() # nil
    pc,         \* where the worker is
    sock,       \* the TCP connection: "none" | "open" | "closed"
    watcher,    \* AfterFunc: "none" | "armed" | "fired" | "stopped" | "done"
    chan,       \* the SSH channel: "none" | "open" | "running" | "closed"
    status,     \* how the remote command ended: 0, an exit status, Lost
    reader,     \* [Streams -> "off" | "reading" | "ended"]
    waiter,     \* "off" | "waiting" | "sent" (waitCh is full) | "taken"
    outErr,     \* [Streams -> BOOLEAN]: spillBuffer.err # nil
    fatal,      \* streams whose Fatal channel holds its token
    kind, code, err,   \* the result: kind, code, err # nil
    sealed,     \* Finalize was called on both outputs
    fate        \* of the result: "none" | "sent" | "deleted"

connVars   == <<sock, watcher>>
goVars     == <<reader, waiter>>
outVars    == <<outErr, fatal, sealed>>
resultVars == <<kind, code, err, fate>>
vars == <<canceled, pc, connVars, chan, status, goVars, outVars, resultVars>>

Init ==
    /\ canceled = FALSE
    /\ pc = "netDial"
    /\ sock = "none" /\ watcher = "none"
    /\ chan = "none" /\ status = 0
    /\ reader = [s \in Streams |-> "off"] /\ waiter = "off"
    /\ outErr = [s \in Streams |-> FALSE] /\ fatal = {} /\ sealed = FALSE
    /\ kind = "success" /\ code = 0 /\ err = FALSE /\ fate = "none"

-----------------------------------------------------------------------------
(*                               DialContext                                *)

\* dialer.DialContext, which honours both ctx and the timeout.
NetDial ==
    /\ pc = "netDial"
    /\ \/ /\ ~canceled
          /\ sock' = "open"
          /\ pc' = "arm"
       \/ /\ pc' = "dialFailed"
          /\ UNCHANGED sock
    /\ UNCHANGED <<canceled, watcher, chan, status, goVars, outVars, resultVars>>

\* context.AfterFunc(ctx, netConn.Close).
Arm ==
    /\ pc = "arm"
    /\ watcher' = "armed"
    /\ pc' = "handshake"
    /\ UNCHANGED <<canceled, sock, chan, status, goVars, outVars, resultVars>>

WatcherFires ==
    /\ watcher = "armed" /\ canceled
    /\ watcher' = "fired"
    /\ UNCHANGED <<canceled, pc, sock, chan, status, goVars, outVars, resultVars>>

WatcherCloses ==
    /\ watcher = "fired"
    /\ watcher' = "done"
    /\ sock' = "closed"
    /\ UNCHANGED <<canceled, pc, chan, status, goVars, outVars, resultVars>>

\* ssh.NewClientConn returns a connection (the peer answered) or an error.
HandshakeSucceeds ==
    /\ pc = "handshake"
    /\ sock = "open"
    /\ pc' = "stopCancel"
    /\ UNCHANGED <<canceled, connVars, chan, status, goVars, outVars, resultVars>>

HandshakeFails ==
    /\ pc = "handshake"
    /\ pc' = "stopCancelFailed"
    /\ UNCHANGED <<canceled, connVars, chan, status, goVars, outVars, resultVars>>

\* Mutant: the socket of a failed handshake stays open.
StopCancel_leaksSocket ==
    /\ pc \in {"stopCancel", "stopCancelFailed"}
    /\ watcher' = IF watcher = "armed" THEN "stopped" ELSE watcher
    /\ IF pc = "stopCancelFailed"
       THEN /\ UNCHANGED sock
            /\ pc' = "dialFailed"
       ELSE /\ pc' = "checkDial"
            /\ UNCHANGED sock
    /\ UNCHANGED <<canceled, chan, status, goVars, outVars, resultVars>>

\* stopCancel(): a watcher that has already fired is not waited for.
StopCancel ==
    /\ pc \in {"stopCancel", "stopCancelFailed"}
    /\ watcher' = IF watcher = "armed" THEN "stopped" ELSE watcher
    /\ IF pc = "stopCancelFailed"
       THEN /\ sock' = "closed"
            /\ pc' = "dialFailed"
       ELSE /\ pc' = "checkDial"
            /\ UNCHANGED sock
    /\ UNCHANGED <<canceled, chan, status, goVars, outVars, resultVars>>

\* Mutant: the context is not checked again after stopCancel.
CheckDial_unchecked ==
    /\ pc = "checkDial"
    /\ IF FALSE
       THEN /\ sock' = "closed"
            /\ pc' = "ended"
       ELSE /\ pc' = "newSession"
            /\ UNCHANGED sock
    /\ UNCHANGED <<canceled, watcher, chan, status, goVars, outVars, resultVars>>

\* DialContext's last check of ctx, and conWorker's.
CheckDial ==
    /\ pc = "checkDial"
    /\ IF canceled
       THEN /\ sock' = "closed"
            /\ pc' = "ended"
       ELSE /\ pc' = "newSession"
            /\ UNCHANGED sock
    /\ UNCHANGED <<canceled, watcher, chan, status, goVars, outVars, resultVars>>

\* Mutant: a failed connection makes no result.
DialFailed_silent ==
    /\ pc = "dialFailed"
    /\ IF TRUE
       THEN /\ pc' = "ended"
            /\ UNCHANGED <<kind, code, err>>
       ELSE /\ kind' = "connection_failed"
            /\ code' = 255
            /\ err' = TRUE
            /\ pc' = "send"
    /\ UNCHANGED <<canceled, connVars, chan, status, goVars, outVars, fate>>

\* conWorker, after a failed dial: nothing for a canceled run, else a result.
DialFailed ==
    /\ pc = "dialFailed"
    /\ IF canceled
       THEN /\ pc' = "ended"
            /\ UNCHANGED <<kind, code, err>>
       ELSE /\ kind' = "connection_failed"
            /\ code' = 255
            /\ err' = TRUE
            /\ pc' = "send"
    /\ UNCHANGED <<canceled, connVars, chan, status, goVars, outVars, fate>>

-----------------------------------------------------------------------------
(*                             worker and run                               *)

\* sessionWork.result: a result for a session that did not get off the ground.
startFailed ==
    /\ kind' = "remote_start_failed"
    /\ code' = 1
    /\ err' = TRUE
    /\ pc' = "errResult"

\* conn.NewSession()
SessionOpened ==
    /\ pc = "newSession"
    /\ sock = "open"
    /\ chan' = "open"
    /\ pc' = "pipes"
    /\ UNCHANGED <<canceled, connVars, status, goVars, outVars, resultVars>>

SessionRefused ==
    /\ pc = "newSession"
    /\ startFailed
    /\ UNCHANGED <<canceled, connVars, chan, status, goVars, outVars, fate>>

\* StdoutPipe and StderrPipe; the context is checked before Start, and a
\* canceled session goes straight to Finalize.
Pipes ==
    /\ pc = "pipes"
    /\ \/ /\ startFailed
       \/ /\ canceled
          /\ kind' = "canceled"
          /\ err' = TRUE
          /\ pc' = "finalize"
          /\ UNCHANGED code
       \/ /\ ~canceled
          /\ pc' = "start"
          /\ UNCHANGED <<kind, code, err>>
    /\ UNCHANGED <<canceled, connVars, chan, status, goVars, outVars, fate>>

\* session.Start(command): the peer accepts, and the goroutines start ...
StartAccepted ==
    /\ pc = "start"
    /\ chan' = "running"
    /\ reader' = [s \in Streams |-> "reading"]
    /\ waiter' = "waiting"
    /\ pc' = "select"
    /\ UNCHANGED <<canceled, connVars, status, outVars, resultVars>>

\* ... or refuses.
StartRefused ==
    /\ pc = "start"
    /\ kind' = "remote_start_failed"
    /\ err' = TRUE
    /\ pc' = "finalize"
    /\ UNCHANGED <<canceled, connVars, chan, status, goVars, outVars, code, fate>>

\* case waitErr = <-waitCh: exit status 0, an *ssh.ExitError, or no status.
SelectWait ==
    /\ pc = "select"
    /\ waiter = "sent"
    /\ waiter' = "taken"
    /\ pc' = "join"
    /\ CASE status = 0      -> UNCHANGED <<kind, code, err>>
         [] status = Lost -> /\ kind' = "internal_failed"
                               /\ err' = TRUE
                               /\ UNCHANGED code
         [] OTHER           -> /\ kind' = "remote_exit"
                               /\ code' = status
                               /\ err' = TRUE
    /\ UNCHANGED <<canceled, connVars, chan, status, reader, outVars, fate>>

\* case outputErr := <-res.stdout.Fatal(), and the same for stderr; then
\* session.Close() and <-waitCh.
SelectFatal(s) ==
    /\ pc = "select"
    /\ s \in fatal
    /\ fatal' = fatal \ {s}
    /\ kind' = "output_failed"
    /\ err' = TRUE
    /\ pc' = "closing"
    /\ UNCHANGED <<canceled, connVars, chan, status, goVars, outErr, sealed,
                   code, fate>>

\* Mutant: the select has no case for the context.
SelectCanceled_missing == FALSE

\* case <-ctx.Done(); then session.Close() and <-waitCh.
SelectCanceled ==
    /\ pc = "select"
    /\ canceled
    /\ kind' = "canceled"
    /\ err' = TRUE
    /\ pc' = "closing"
    /\ UNCHANGED <<canceled, connVars, chan, status, goVars, outVars, code, fate>>

\* <-waitCh of an interrupted session: its error is not looked at.
ClosingWait ==
    /\ pc = "closing"
    /\ waiter = "sent"
    /\ waiter' = "taken"
    /\ pc' = "join"
    /\ UNCHANGED <<canceled, connVars, chan, status, reader, outVars, resultVars>>

\* Mutant: only the reader of stdout is waited for.
JoinReaders_oneOnly ==
    /\ pc = "join"
    /\ reader["stdout"] = "ended"
    /\ \E readErr \in BOOLEAN : err' = (err \/ readErr)
    /\ pc' = "finalize"
    /\ UNCHANGED <<canceled, connVars, chan, status, goVars, outVars, kind, code,
                   fate>>

\* errs[i].err = <-errChs[i], for both readers; a reader may report an error.
JoinReaders ==
    /\ pc = "join"
    /\ \A s \in Streams : reader[s] = "ended"
    /\ \E readErr \in BOOLEAN : err' = (err \/ readErr)
    /\ pc' = "finalize"
    /\ UNCHANGED <<canceled, connVars, chan, status, goVars, outVars, kind, code,
                   fate>>

\* Mutant: an output error does not change the kind.
Finalize_ignoresOutput ==
    /\ pc = "finalize"
    /\ sealed' = TRUE
    /\ outErr' \in {f \in [Streams -> BOOLEAN] :
                      \A s \in Streams :
                         /\ outErr[s] => f[s]
                         /\ (reader[s] = "off") => ~f[s]}
    /\ LET outputFailed == \E s \in Streams : outErr'[s]
           kind1 == kind
           failed == err \/ outputFailed
       IN  /\ err' = failed
           /\ kind' = IF code = 0 /\ failed /\ kind1 = "success"
                      THEN "internal_failed" ELSE kind1
           /\ code' = IF code = 0 /\ failed THEN 1 ELSE code
    /\ pc' = "errResult"
    /\ UNCHANGED <<canceled, connVars, chan, status, goVars, fatal, fate>>

\* Finalize of both outputs (closing a spool file may still fail), and what
\* kind and code become.
Finalize ==
    /\ pc = "finalize"
    /\ sealed' = TRUE
    /\ outErr' \in {f \in [Streams -> BOOLEAN] :
                      \A s \in Streams :
                         /\ outErr[s] => f[s]
                         /\ (reader[s] = "off") => ~f[s]}
    /\ LET outputFailed == \E s \in Streams : outErr'[s]
           kind1 == IF outputFailed THEN "output_failed" ELSE kind
           failed == err \/ outputFailed
       IN  /\ err' = failed
           /\ kind' = IF code = 0 /\ failed /\ kind1 = "success"
                      THEN "internal_failed" ELSE kind1
           /\ code' = IF code = 0 /\ failed THEN 1 ELSE code
    /\ pc' = "errResult"
    /\ UNCHANGED <<canceled, connVars, chan, status, goVars, fatal, fate>>

\* errResult's check of the context.
ErrResult ==
    /\ pc = "errResult"
    /\ IF canceled
       THEN /\ fate' = "deleted"
            /\ pc' = "close"
       ELSE /\ pc' = "send"
            /\ UNCHANGED fate
    /\ UNCHANGED <<canceled, connVars, chan, status, goVars, outVars, kind, code,
                   err>>

\* s.results <- res
SendResult ==
    /\ pc = "send"
    /\ fate' = "sent"
    /\ pc' = "close"
    /\ UNCHANGED <<canceled, connVars, chan, status, goVars, outVars, kind, code,
                   err>>

\* case <-ctx.Done(): delReslt
DeleteResult ==
    /\ pc = "send"
    /\ canceled
    /\ fate' = "deleted"
    /\ pc' = "close"
    /\ UNCHANGED <<canceled, connVars, chan, status, goVars, outVars, kind, code,
                   err>>

\* The deferred session.Close() and conn.Close().
CloseConn ==
    /\ pc = "close"
    /\ sock' = IF sock = "open" THEN "closed" ELSE sock
    /\ pc' = "ended"
    /\ UNCHANGED <<canceled, watcher, chan, status, goVars, outVars, resultVars>>

-----------------------------------------------------------------------------
(*                    readers, waiter, peer and context                     *)

\* Mutant: setError does not signal Fatal.
OutputBreaks_silent(s) ==
    /\ reader[s] = "reading"
    /\ ~outErr[s]
    /\ outErr' = [outErr EXCEPT ![s] = TRUE]
    /\ UNCHANGED fatal
    /\ UNCHANGED <<canceled, pc, connVars, chan, status, goVars, sealed,
                   resultVars>>

\* spillBuffer.Write fails (spool exhausted, disk error): setError puts the
\* token into Fatal; the reader goes on draining.
OutputBreaks(s) ==
    /\ reader[s] = "reading"
    /\ ~outErr[s]
    /\ outErr' = [outErr EXCEPT ![s] = TRUE]
    /\ fatal' = fatal \cup {s}
    /\ UNCHANGED <<canceled, pc, connVars, chan, status, goVars, sealed,
                   resultVars>>

\* io.CopyBuffer returns, errCh <- err.
ReaderEnds(s) ==
    /\ reader[s] = "reading"
    /\ chan = "closed"
    /\ reader' = [reader EXCEPT ![s] = "ended"]
    /\ UNCHANGED <<canceled, pc, connVars, chan, status, waiter, outVars,
                   resultVars>>

\* waitCh <- session.Wait()
WaitReturns ==
    /\ waiter = "waiting"
    /\ chan = "closed"
    /\ waiter' = "sent"
    /\ UNCHANGED <<canceled, pc, connVars, chan, status, reader, outVars,
                   resultVars>>

\* The remote command ends, or the connection is lost.
PeerCloses ==
    /\ chan = "running"
    /\ chan' = "closed"
    /\ status' \in {0, Lost} \cup ExitStatuses
    /\ UNCHANGED <<canceled, pc, connVars, goVars, outVars, resultVars>>

Cancel ==
    /\ ~canceled
    /\ pc # "ended"
    /\ canceled' = TRUE
    /\ UNCHANGED <<pc, connVars, chan, status, goVars, outVars, resultVars>>

RunStep ==
    \/ Arm \/ StopCancel \/ CheckDial \/ DialFailed
    \/ Pipes \/ SelectWait \/ SelectCanceled \/ \E s \in Streams : SelectFatal(s)
    \/ ClosingWait \/ JoinReaders \/ Finalize
    \/ ErrResult \/ SendResult \/ DeleteResult \/ CloseConn

PeerAnswers ==
    SessionOpened \/ SessionRefused \/ StartAccepted \/ StartRefused

Terminated == pc = "ended" /\ UNCHANGED vars

Next ==
    \/ RunStep
    \/ NetDial \/ HandshakeSucceeds \/ HandshakeFails
    \/ WatcherFires \/ WatcherCloses
    \/ PeerAnswers \/ PeerCloses
    \/ \E s \in Streams : OutputBreaks(s) \/ ReaderEnds(s)
    \/ WaitReturns
    \/ Cancel
    \/ Terminated

Spec == Init /\ [][Next]_vars

-----------------------------------------------------------------------------
(*                                fairness                                  *)

\* Every goroutine that can run does; reading from or writing to a socket
\* that was closed locally fails; dialing ends (it has a timeout).
LocalFairness ==
    /\ WF_vars(RunStep)
    /\ WF_vars(NetDial)
    /\ WF_vars(WatcherFires) /\ WF_vars(WatcherCloses)
    /\ WF_vars(sock = "closed" /\ HandshakeFails)
    /\ \A s \in Streams : WF_vars(ReaderEnds(s))
    /\ WF_vars(WaitReturns)

\* The peer answers a channel or exec request, and closes a channel that was
\* closed on this side.  Nothing is assumed of it during the handshake.
PeerFairness ==
    /\ WF_vars(PeerAnswers)
    /\ WF_vars(pc = "closing" /\ PeerCloses)

LiveSpec == Spec /\ LocalFairness /\ PeerFairness

\* The same worker in front of a peer that may fall silent.
SilentPeerSpec == Spec /\ LocalFairness

-----------------------------------------------------------------------------
(*                                properties                                *)

\* A worker that ends without a result does so only in a canceled run, and
\* only before it made one: the collector, which counts results, is never
\* left waiting (conwork.go:37-62, sessionwork.go:180-189).
ResultUnlessCanceled ==
    pc = "ended" => \/ fate = "sent"
                    \/ canceled /\ fate \in {"none", "deleted"}

\* An output is sealed, sent or deleted only when its reader has ended, so
\* that no Write overlaps Finalize, WriteTo or Close: spillBuffer has no lock
\* (sessionwork.go:126-134).
SingleOwner ==
    sealed \/ fate # "none" => \A s \in Streams : reader[s] # "reading"

\* No goroutine of the session and no open socket survives the worker
\* (sessionwork.go:59, 80-128, conwork.go:64).
NothingSurvives ==
    pc = "ended" =>
        /\ \A s \in Streams : reader[s] # "reading"
        /\ waiter # "waiting"
        /\ sock # "open"

\* What a result that is sent says is what happened: code 0 exactly for
\* success; success only if the command exited 0 and both outputs are whole; a
\* broken output is always reported as such; a remote exit status is reported
\* unchanged; "canceled" is never sent (sessionwork.go:87-152).
ResultTruthful ==
    fate = "sent" =>
        /\ (code = 0) <=> (kind = "success")
        /\ (code = 0) <=> ~err
        /\ (kind = "success") => (chan = "closed" /\ status = 0)
        /\ (\E s \in Streams : outErr[s]) <=> (kind = "output_failed")
        /\ (kind = "remote_exit") => (code = status)
        /\ kind # "canceled"

\* DialContext never hands out a connection its own watcher closes: the
\* session phase starts on a socket that only this worker closes
\* (pssh.go:185-201).
WatcherDisarmed ==
    pc \in {"newSession", "pipes", "start", "select", "closing", "join",
            "finalize"} => sock = "open" /\ watcher = "stopped"

\* After a cancellation the worker ends, from the handshake even if the peer
\* is silent, from a session if the peer answers
\* (pssh.go:185-189, sessionwork.go:107-114).
CancelEnds == canceled ~> pc = "ended"

\* An output that breaks ends the session, although the remote command would
\* go on (sessionwork.go:91-106).
BrokenOutputEnds ==
    (\E s \in Streams : outErr[s]) ~> pc = "ended"

-----------------------------------------------------------------------------
(*                     the inductive invariant (proved)                     *)

DialPhase == {"netDial", "arm", "handshake", "stopCancel", "stopCancelFailed",
              "checkDial", "dialFailed"}

SessionPhase == {"newSession", "pipes", "start", "select", "closing", "join",
                 "finalize", "errResult"}

ResultPhase == {"send", "close", "ended"}

Kinds == {"success", "connection_failed", "remote_start_failed", "remote_exit",
          "output_failed", "internal_failed", "canceled"}

TypeOK ==
    /\ canceled \in BOOLEAN
    /\ pc \in DialPhase \cup SessionPhase \cup ResultPhase
    /\ sock \in {"none", "open", "closed"}
    /\ watcher \in {"none", "armed", "fired", "stopped", "done"}
    /\ chan \in {"none", "open", "running", "closed"}
    /\ status \in {0, Lost} \cup ExitStatuses
    /\ reader \in [Streams -> {"off", "reading", "ended"}]
    /\ waiter \in {"off", "waiting", "sent", "taken"}
    /\ outErr \in [Streams -> BOOLEAN]
    /\ fatal \subseteq Streams
    /\ kind \in Kinds /\ code \in Nat /\ err \in BOOLEAN
    /\ sealed \in BOOLEAN
    /\ fate \in {"none", "sent", "deleted"}

\* The watcher is armed during the handshake only; once it has fired the run
\* is canceled, and the dial cannot succeed any more.
WatcherInv ==
    /\ watcher = "none" <=> pc \in {"netDial", "arm"} \/ sock = "none"
    /\ watcher = "armed" => pc \in {"handshake", "stopCancel",
                                    "stopCancelFailed"}
    /\ watcher \in {"fired", "done"} =>
          /\ canceled
          /\ pc \in {"handshake", "stopCancel", "stopCancelFailed",
                     "checkDial", "dialFailed", "ended"}
    /\ watcher = "stopped" => pc \notin {"handshake", "stopCancel",
                                         "stopCancelFailed"}

\* Until the worker closes it the socket is open, unless the watcher did.
SockInv ==
    /\ pc = "netDial" => sock = "none"
    /\ pc \in {"dialFailed", "ended"} => sock # "open"
    /\ pc = "arm" \/ pc \in SessionPhase => sock = "open"
    /\ pc \in {"handshake", "stopCancel", "stopCancelFailed", "checkDial"} =>
          sock = "open" \/ watcher = "done"

\* Readers and waiter run between Start and the joins that end them, and end
\* only when the channel is closed.
GoroutinesInv ==
    /\ pc \in DialPhase \cup {"newSession", "pipes", "start"} => waiter = "off"
    /\ pc \in {"select", "closing"} => waiter \in {"waiting", "sent"}
    /\ pc = "join" => waiter = "taken"
    /\ pc \in {"finalize", "errResult"} \cup ResultPhase =>
          waiter \in {"off", "taken"} /\ \A s \in Streams : reader[s] # "reading"
    /\ \A s \in Streams : reader[s] = "off" <=> waiter = "off"
    /\ \A s \in Streams : reader[s] = "ended" => chan = "closed"
    /\ waiter \in {"sent", "taken"} => chan = "closed"
    /\ chan = "running" => pc \in {"select", "closing"}
    /\ \A s \in Streams : outErr[s] => waiter # "off"
    /\ \A s \in fatal : outErr[s]

\* What the result says while it is made.
DraftInv ==
    /\ pc \in DialPhase \cup {"newSession", "pipes", "start", "select"} =>
          kind = "success" /\ code = 0 /\ ~err
    /\ pc \in {"closing", "join", "finalize"} =>
          /\ code # 0 <=> kind = "remote_exit"
          /\ kind = "remote_exit" => code = status
          /\ kind # "success" => err
          /\ kind = "success" => waiter = "taken" /\ status = 0
          /\ kind = "output_failed" => \E s \in Streams : outErr[s]
    /\ pc = "closing" => kind \in {"output_failed", "canceled"}
    /\ kind = "canceled" => canceled

Truthful ==
    /\ (code = 0) <=> (kind = "success")
    /\ (code = 0) <=> ~err
    /\ (kind = "success") => (chan = "closed" /\ status = 0)
    /\ (\E s \in Streams : outErr[s]) <=> (kind = "output_failed")
    /\ (kind = "remote_exit") => (code = status)

\* What it says once it is made, and what becomes of it.
ResultInv ==
    /\ pc \in {"errResult", "send"} => Truthful
    /\ pc = "send" => kind # "canceled"
    /\ fate = "sent" => Truthful /\ kind # "canceled"
    /\ sealed => pc \in {"errResult"} \cup ResultPhase
    /\ fate # "none" => pc \in {"close", "ended"}
    /\ pc = "close" => fate # "none"
    /\ fate = "deleted" => canceled
    /\ pc = "ended" /\ fate = "none" => canceled

IInv == TypeOK /\ WatcherInv /\ SockInv /\ GoroutinesInv /\ DraftInv /\ ResultInv
=============================================================================
