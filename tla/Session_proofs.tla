---------------------------- MODULE Session_proofs ----------------------------
(***************************************************************************)
(* Safety of Session for every set of exit statuses of the remote command. *)
(***************************************************************************)
EXTENDS Session, TLAPS

USE StatusAssumption

LEMMA InitIInv == Init => IInv
<1> SUFFICES ASSUME Init PROVE IInv
  OBVIOUS
<1> USE DEF Init
<1>1. TypeOK
  BY DEF TypeOK, DialPhase, Kinds
<1>2. WatcherInv /\ SockInv
  BY DEF WatcherInv, SockInv, SessionPhase
<1>3. GoroutinesInv
  BY DEF GoroutinesInv, ResultPhase
<1>4. DraftInv /\ ResultInv
  BY DEF DraftInv, ResultInv
<1> QED
  BY <1>1, <1>2, <1>3, <1>4 DEF IInv

-----------------------------------------------------------------------------
(* Each part of the invariant, with the parts it needs.                     *)

LEMMA TypeStep ==
  ASSUME TypeOK, Next
  PROVE  TypeOK'
<1> USE DEF TypeOK, Kinds, Lost, goVars, outVars, resultVars, connVars,
            DialPhase, SessionPhase, ResultPhase
<1>1. CASE NetDial \/ Arm \/ HandshakeSucceeds \/ HandshakeFails
  BY <1>1 DEF NetDial, Arm, HandshakeSucceeds, HandshakeFails
<1>2. CASE StopCancel \/ CheckDial
  BY <1>2 DEF StopCancel, CheckDial
<1>3. CASE WatcherFires \/ WatcherCloses \/ Cancel
  BY <1>3 DEF WatcherFires, WatcherCloses, Cancel
<1>4. CASE SessionOpened
  BY <1>4 DEF SessionOpened
<1>5. CASE SessionRefused
  BY <1>5 DEF SessionRefused, startFailed
<1>6. CASE StartAccepted \/ StartRefused
  BY <1>6 DEF StartAccepted, StartRefused
<1>7. CASE Pipes
  <2>1. kind' \in Kinds /\ code' \in Nat
    BY <1>7 DEF Pipes, startFailed
  <2>2. err' \in BOOLEAN
    BY <1>7 DEF Pipes, startFailed
  <2>3. pc' \in SessionPhase
    BY <1>7 DEF Pipes, startFailed
  <2> QED
    BY <1>7, <2>1, <2>2, <2>3 DEF Pipes
<1>8. CASE SelectWait
  <2>1. CASE status = 0
    BY <1>8, <2>1 DEF SelectWait
  <2>2. CASE status = Lost
    BY <1>8, <2>2 DEF SelectWait
  <2>3. CASE status \in ExitStatuses
    BY <1>8, <2>3 DEF SelectWait
  <2> QED
    BY <2>1, <2>2, <2>3
<1>9. CASE SelectCanceled \/ ClosingWait \/ JoinReaders
  <2>1. CASE SelectCanceled
    BY <2>1 DEF SelectCanceled
  <2>2. CASE ClosingWait
    BY <2>2 DEF ClosingWait
  <2>3. CASE JoinReaders
    BY <2>3 DEF JoinReaders
  <2> QED
    BY <1>9, <2>1, <2>2, <2>3
<1>10. CASE Finalize
  BY <1>10 DEF Finalize
<1>11. CASE ErrResult \/ SendResult \/ DeleteResult \/ CloseConn
  BY <1>11 DEF ErrResult, SendResult, DeleteResult, CloseConn
<1>12. CASE DialFailed
  <2>1. CASE canceled
    BY <1>12, <2>1 DEF DialFailed
  <2>2. CASE ~canceled
    BY <1>12, <2>2 DEF DialFailed
  <2> QED
    BY <2>1, <2>2
<1>13. CASE WaitReturns \/ PeerCloses
  BY <1>13 DEF WaitReturns, PeerCloses
<1>14. ASSUME NEW s \in Streams, SelectFatal(s)
      PROVE  TypeOK'
  BY <1>14 DEF SelectFatal
<1>15. ASSUME NEW s \in Streams, OutputBreaks(s)
      PROVE  TypeOK'
  BY <1>15 DEF OutputBreaks
<1>16. ASSUME NEW s \in Streams, ReaderEnds(s)
      PROVE  TypeOK'
  BY <1>16 DEF ReaderEnds
<1>17. CASE UNCHANGED vars
  BY <1>17 DEF vars
<1> QED
  BY <1>1, <1>2, <1>3, <1>4, <1>5, <1>6, <1>7, <1>8, <1>9, <1>10, <1>11,
     <1>12, <1>13, <1>14, <1>15, <1>16, <1>17
     DEF Next, RunStep, PeerAnswers, Terminated

\* The dial and its watcher.
LEMMA WatcherStep ==
  ASSUME TypeOK, WatcherInv, SockInv, Next
  PROVE  WatcherInv' /\ SockInv'
<1> USE DEF TypeOK, WatcherInv, SockInv, goVars, outVars, resultVars,
            connVars, DialPhase, SessionPhase, ResultPhase
<1>1. CASE NetDial \/ Arm \/ HandshakeSucceeds \/ HandshakeFails
  BY <1>1 DEF NetDial, Arm, HandshakeSucceeds, HandshakeFails
<1>2. CASE StopCancel \/ CheckDial
  BY <1>2 DEF StopCancel, CheckDial
<1>3. CASE WatcherFires \/ WatcherCloses \/ Cancel
  BY <1>3 DEF WatcherFires, WatcherCloses, Cancel
<1>4. CASE SessionOpened
  BY <1>4 DEF SessionOpened
<1>5. CASE SessionRefused
  BY <1>5 DEF SessionRefused, startFailed
<1>6. CASE StartAccepted \/ StartRefused
  BY <1>6 DEF StartAccepted, StartRefused
<1>7. CASE Pipes
  BY <1>7 DEF Pipes, startFailed
<1>8. CASE SelectWait
  BY <1>8 DEF SelectWait
<1>9. CASE SelectCanceled \/ ClosingWait \/ JoinReaders
  BY <1>9 DEF SelectCanceled, ClosingWait, JoinReaders
<1>10. CASE Finalize
  BY <1>10 DEF Finalize
<1>11. CASE ErrResult \/ SendResult \/ DeleteResult \/ CloseConn
  BY <1>11 DEF ErrResult, SendResult, DeleteResult, CloseConn
<1>12. CASE DialFailed
  BY <1>12 DEF DialFailed
<1>13. CASE WaitReturns \/ PeerCloses
  BY <1>13 DEF WaitReturns, PeerCloses
<1>14. ASSUME NEW s \in Streams, SelectFatal(s)
      PROVE  WatcherInv' /\ SockInv'
  BY <1>14 DEF SelectFatal
<1>15. ASSUME NEW s \in Streams, OutputBreaks(s)
      PROVE  WatcherInv' /\ SockInv'
  BY <1>15 DEF OutputBreaks
<1>16. ASSUME NEW s \in Streams, ReaderEnds(s)
      PROVE  WatcherInv' /\ SockInv'
  BY <1>16 DEF ReaderEnds
<1>17. CASE UNCHANGED vars
  BY <1>17 DEF vars
<1> QED
  BY <1>1, <1>2, <1>3, <1>4, <1>5, <1>6, <1>7, <1>8, <1>9, <1>10, <1>11,
     <1>12, <1>13, <1>14, <1>15, <1>16, <1>17
     DEF Next, RunStep, PeerAnswers, Terminated

\* Readers, waiter and channel.
LEMMA GoroutinesStep ==
  ASSUME TypeOK, GoroutinesInv, Next
  PROVE  GoroutinesInv'
<1> USE DEF TypeOK, GoroutinesInv, goVars, outVars, resultVars, connVars,
            DialPhase, SessionPhase, ResultPhase
<1>1. CASE NetDial \/ Arm \/ HandshakeSucceeds \/ HandshakeFails
  BY <1>1 DEF NetDial, Arm, HandshakeSucceeds, HandshakeFails
<1>2. CASE StopCancel \/ CheckDial
  BY <1>2 DEF StopCancel, CheckDial
<1>3. CASE WatcherFires \/ WatcherCloses \/ Cancel
  BY <1>3 DEF WatcherFires, WatcherCloses, Cancel
<1>4. CASE SessionOpened
  BY <1>4 DEF SessionOpened
<1>5. CASE SessionRefused
  BY <1>5 DEF SessionRefused, startFailed
<1>6. CASE StartAccepted \/ StartRefused
  BY <1>6 DEF StartAccepted, StartRefused
<1>7. CASE Pipes
  BY <1>7 DEF Pipes, startFailed
<1>8. CASE SelectWait
  BY <1>8 DEF SelectWait
<1>9. CASE SelectCanceled \/ ClosingWait \/ JoinReaders
  BY <1>9 DEF SelectCanceled, ClosingWait, JoinReaders
<1>10. CASE Finalize
  BY <1>10 DEF Finalize
<1>11. CASE ErrResult \/ SendResult \/ DeleteResult \/ CloseConn
  BY <1>11 DEF ErrResult, SendResult, DeleteResult, CloseConn
<1>12. CASE DialFailed
  BY <1>12 DEF DialFailed
<1>13. CASE WaitReturns \/ PeerCloses
  BY <1>13 DEF WaitReturns, PeerCloses
<1>14. ASSUME NEW s \in Streams, SelectFatal(s)
      PROVE  GoroutinesInv'
  BY <1>14 DEF SelectFatal
<1>15. ASSUME NEW s \in Streams, OutputBreaks(s)
      PROVE  GoroutinesInv'
  BY <1>15 DEF OutputBreaks
<1>16. ASSUME NEW s \in Streams, ReaderEnds(s)
      PROVE  GoroutinesInv'
  BY <1>16 DEF ReaderEnds
<1>17. CASE UNCHANGED vars
  BY <1>17 DEF vars
<1> QED
  BY <1>1, <1>2, <1>3, <1>4, <1>5, <1>6, <1>7, <1>8, <1>9, <1>10, <1>11,
     <1>12, <1>13, <1>14, <1>15, <1>16, <1>17
     DEF Next, RunStep, PeerAnswers, Terminated

\* The result while run makes it.
LEMMA DraftStep ==
  ASSUME TypeOK, GoroutinesInv, DraftInv, Next
  PROVE  DraftInv'
<1> USE DEF TypeOK, GoroutinesInv, DraftInv, Lost, goVars, outVars,
            resultVars, connVars, DialPhase, SessionPhase, ResultPhase
<1>1. CASE NetDial \/ Arm \/ HandshakeSucceeds \/ HandshakeFails
  BY <1>1 DEF NetDial, Arm, HandshakeSucceeds, HandshakeFails
<1>2. CASE StopCancel \/ CheckDial
  BY <1>2 DEF StopCancel, CheckDial
<1>3. CASE WatcherFires \/ WatcherCloses \/ Cancel
  BY <1>3 DEF WatcherFires, WatcherCloses, Cancel
<1>4. CASE SessionOpened
  BY <1>4 DEF SessionOpened
<1>5. CASE SessionRefused
  BY <1>5 DEF SessionRefused, startFailed
<1>6. CASE StartAccepted \/ StartRefused
  BY <1>6 DEF StartAccepted, StartRefused
<1>7. CASE Pipes
  BY <1>7 DEF Pipes, startFailed
<1>8. CASE SelectWait
  BY <1>8 DEF SelectWait
<1>9. CASE SelectCanceled \/ ClosingWait \/ JoinReaders
  BY <1>9 DEF SelectCanceled, ClosingWait, JoinReaders
<1>10. CASE Finalize
  BY <1>10 DEF Finalize
<1>11. CASE ErrResult \/ SendResult \/ DeleteResult \/ CloseConn
  BY <1>11 DEF ErrResult, SendResult, DeleteResult, CloseConn
<1>12. CASE DialFailed
  BY <1>12 DEF DialFailed
<1>13. CASE WaitReturns \/ PeerCloses
  BY <1>13 DEF WaitReturns, PeerCloses
<1>14. ASSUME NEW s \in Streams, SelectFatal(s)
      PROVE  DraftInv'
  BY <1>14 DEF SelectFatal
<1>15. ASSUME NEW s \in Streams, OutputBreaks(s)
      PROVE  DraftInv'
  BY <1>15 DEF OutputBreaks
<1>16. ASSUME NEW s \in Streams, ReaderEnds(s)
      PROVE  DraftInv'
  BY <1>16 DEF ReaderEnds
<1>17. CASE UNCHANGED vars
  BY <1>17 DEF vars
<1> QED
  BY <1>1, <1>2, <1>3, <1>4, <1>5, <1>6, <1>7, <1>8, <1>9, <1>10, <1>11,
     <1>12, <1>13, <1>14, <1>15, <1>16, <1>17
     DEF Next, RunStep, PeerAnswers, Terminated

\* The result from Finalize on.
LEMMA ResultStep ==
  ASSUME TypeOK, WatcherInv, GoroutinesInv, DraftInv, ResultInv, Next
  PROVE  ResultInv'
<1> USE DEF TypeOK, GoroutinesInv, WatcherInv, DraftInv, ResultInv, Truthful,
            goVars, outVars, resultVars, connVars, DialPhase, SessionPhase,
            ResultPhase
<1>1. CASE NetDial \/ Arm \/ HandshakeSucceeds \/ HandshakeFails
  BY <1>1 DEF NetDial, Arm, HandshakeSucceeds, HandshakeFails
<1>2. CASE StopCancel \/ CheckDial
  BY <1>2 DEF StopCancel, CheckDial
<1>3. CASE WatcherFires \/ WatcherCloses \/ Cancel
  BY <1>3 DEF WatcherFires, WatcherCloses, Cancel
<1>4. CASE SessionOpened
  BY <1>4 DEF SessionOpened
<1>5. CASE SessionRefused
  BY <1>5 DEF SessionRefused, startFailed
<1>6. CASE StartAccepted \/ StartRefused
  BY <1>6 DEF StartAccepted, StartRefused
<1>7. CASE Pipes
  BY <1>7 DEF Pipes, startFailed
<1>8. CASE SelectWait
  BY <1>8 DEF SelectWait
<1>9. CASE SelectCanceled \/ ClosingWait \/ JoinReaders
  BY <1>9 DEF SelectCanceled, ClosingWait, JoinReaders
<1>10. CASE Finalize
  BY <1>10 DEF Finalize
<1>11. CASE ErrResult \/ SendResult \/ DeleteResult \/ CloseConn
  BY <1>11 DEF ErrResult, SendResult, DeleteResult, CloseConn
<1>12. CASE DialFailed
  BY <1>12 DEF DialFailed
<1>13. CASE WaitReturns \/ PeerCloses
  BY <1>13 DEF WaitReturns, PeerCloses
<1>14. ASSUME NEW s \in Streams, SelectFatal(s)
      PROVE  ResultInv'
  BY <1>14 DEF SelectFatal
<1>15. ASSUME NEW s \in Streams, OutputBreaks(s)
      PROVE  ResultInv'
  BY <1>15 DEF OutputBreaks
<1>16. ASSUME NEW s \in Streams, ReaderEnds(s)
      PROVE  ResultInv'
  BY <1>16 DEF ReaderEnds
<1>17. CASE UNCHANGED vars
  BY <1>17 DEF vars
<1> QED
  BY <1>1, <1>2, <1>3, <1>4, <1>5, <1>6, <1>7, <1>8, <1>9, <1>10, <1>11,
     <1>12, <1>13, <1>14, <1>15, <1>16, <1>17
     DEF Next, RunStep, PeerAnswers, Terminated

LEMMA Invariance == Spec => []IInv
<1>1. IInv /\ [Next]_vars => IInv'
  <2> SUFFICES ASSUME IInv, [Next]_vars PROVE IInv'
    OBVIOUS
  <2>1. CASE Next
    BY <2>1, TypeStep, WatcherStep, GoroutinesStep, DraftStep, ResultStep DEF IInv
  <2>2. CASE UNCHANGED vars
    BY <2>2 DEF vars, connVars, goVars, outVars, resultVars, IInv, TypeOK,
               WatcherInv, SockInv, GoroutinesInv, DraftInv, ResultInv, Truthful
  <2> QED
    BY <2>1, <2>2
<1> QED
  BY InitIInv, <1>1, PTL DEF Spec

-----------------------------------------------------------------------------
(* What the invariant says.                                                 *)

\* A worker that ends without a result does so in a canceled run only
\* (conwork.go:37-62, sessionwork.go:180-189).
THEOREM ResultTheorem == Spec => []ResultUnlessCanceled
<1>1. IInv => ResultUnlessCanceled
  BY DEF IInv, TypeOK, ResultInv, ResultUnlessCanceled
<1> QED
  BY <1>1, Invariance, PTL

\* No reader writes to an output that is sealed, sent or deleted
\* (sessionwork.go:126-134).
THEOREM OwnerTheorem == Spec => []SingleOwner
<1>1. IInv => SingleOwner
  BY DEF IInv, ResultInv, GoroutinesInv, ResultPhase, SingleOwner
<1> QED
  BY <1>1, Invariance, PTL

\* The worker's end is the end of its goroutines and of its socket
\* (sessionwork.go:59, 80-128, conwork.go:64).
THEOREM SurvivorTheorem == Spec => []NothingSurvives
<1>1. IInv => NothingSurvives
  BY DEF IInv, SockInv, GoroutinesInv, ResultPhase, NothingSurvives
<1> QED
  BY <1>1, Invariance, PTL

\* What a result says is what happened (sessionwork.go:87-152).
THEOREM TruthTheorem == Spec => []ResultTruthful
<1>1. IInv => ResultTruthful
  BY DEF IInv, ResultInv, Truthful, ResultTruthful
<1> QED
  BY <1>1, Invariance, PTL

\* A connection that is handed out is not closed by its watcher
\* (pssh.go:185-201).
THEOREM WatcherTheorem == Spec => []WatcherDisarmed
<1>1. IInv => WatcherDisarmed
  BY DEF IInv, TypeOK, WatcherInv, SockInv, SessionPhase, WatcherDisarmed
<1> QED
  BY <1>1, Invariance, PTL
=============================================================================
