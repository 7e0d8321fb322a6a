--------------------------- MODULE JsonRun_proofs ---------------------------
(***************************************************************************)
(* What a run gives to its caller.  For every number of targets: one line  *)
(* per host, a summary that counts them, and an exit code of 0 only for a  *)
(* success; the invariant is IInv of JsonRun.  For outputs of any size:    *)
(* the files that a line names hold the whole outputs, and the fields of a *)
(* line decode to them (OutputFiles and TextStream, parts of GopsshMC).    *)
(***************************************************************************)
EXTENDS GopsshMC, DataLemmas

-----------------------------------------------------------------------------
(* Lines and their numbers.                                                 *)

LEMMA FiniteLines ==
  ASSUME lines \in Seq(Line), NEW S \in SUBSET DOMAIN lines
  PROVE  IsFiniteSet(S) /\ Cardinality(S) \in Nat
<1>1. DOMAIN lines = 1..Len(lines) /\ Len(lines) \in Nat
  OBVIOUS
<1>2. IsFiniteSet(1..Len(lines))
  BY <1>1, FS_Interval
<1> QED
  BY <1>1, <1>2, FS_Subset, FS_CardinalityType

LEMMA FiniteSeen ==
  ASSUME NEW S \in SUBSET Targets
  PROVE  IsFiniteSet(S) /\ Cardinality(S) \in Nat
<1>1. IsFiniteSet(1..NumTargets)
  BY TargetsAssumption, FS_Interval
<1> QED
  BY <1>1, FS_Subset, FS_CardinalityType DEF Targets

LEMMA NumberOfTargets == Cardinality(Targets) = NumTargets
  BY TargetsAssumption, FS_Interval DEF Targets

\* One more line, and which lines have its type and its status.
LEMMA AppendLine ==
  ASSUME lines \in Seq(Line), NEW l \in Line, lines' = Append(lines, l)
  PROVE  /\ lines' \in Seq(Line)
         /\ Len(lines') = Len(lines) + 1 /\ Len(lines) \in Nat
         /\ \A i \in 1..Len(lines) : lines'[i] = lines[i]
         /\ lines'[Len(lines) + 1] = l
         /\ \A t : Lines(t)' = Lines(t) \cup
                       IF l.type = t THEN {Len(lines) + 1} ELSE {}
         /\ \A st : HasStatus(st)' = HasStatus(st) \cup
                       IF l.type = "result" /\ l.status = st
                       THEN {Len(lines) + 1} ELSE {}
<1> DEFINE n == Len(lines) + 1
<1>1. /\ Append(lines, l) \in Seq(Line)
      /\ Len(lines) \in Nat /\ Len(Append(lines, l)) = n
      /\ DOMAIN lines = 1..(n - 1) /\ DOMAIN Append(lines, l) = 1..n
      /\ \A i \in 1..(n - 1) : Append(lines, l)[i] = lines[i]
      /\ Append(lines, l)[n] = l
  OBVIOUS
<1>2. /\ lines' \in Seq(Line) /\ Len(lines) \in Nat /\ n \in Nat
      /\ DOMAIN lines = 1..(n - 1) /\ DOMAIN lines' = 1..n
      /\ \A i \in 1..(n - 1) : lines'[i] = lines[i]
      /\ lines'[n] = l /\ Len(lines') = n
  BY <1>1
<1>3. /\ \A i \in DOMAIN lines' : i \in DOMAIN lines \/ i = n
      /\ \A i \in DOMAIN lines : i \in DOMAIN lines' /\ i # n
                                 /\ lines'[i] = lines[i]
      /\ n \in DOMAIN lines' /\ lines'[n] = l
  BY <1>2
<1> HIDE DEF n
<1>4. ASSUME NEW t
      PROVE  Lines(t)' = Lines(t) \cup IF l.type = t THEN {n} ELSE {}
  BY <1>3 DEF Lines
<1>5. ASSUME NEW st
      PROVE  HasStatus(st)' = HasStatus(st) \cup
                 IF l.type = "result" /\ l.status = st THEN {n} ELSE {}
  <2>1. \A i \in Lines("result") : i \in DOMAIN lines
    BY DEF Lines
  <2>2. Lines("result")' = Lines("result") \cup
                             IF l.type = "result" THEN {n} ELSE {}
    BY <1>4
  <2> QED
    BY <1>3, <2>1, <2>2 DEF HasStatus
<1> QED
  BY <1>2, <1>4, <1>5 DEF n

\* ... and how many there are.
LEMMA AppendCounts ==
  ASSUME lines \in Seq(Line), NEW l \in Line, lines' = Append(lines, l)
  PROVE  /\ \A t : Cardinality(Lines(t)') = Cardinality(Lines(t)) +
                       IF l.type = t THEN 1 ELSE 0
         /\ \A st : Cardinality(HasStatus(st)') = Cardinality(HasStatus(st)) +
                       IF l.type = "result" /\ l.status = st THEN 1 ELSE 0
<1> DEFINE n == Len(lines) + 1
<1>1. /\ Len(lines) \in Nat /\ n \notin DOMAIN lines
      /\ \A t : Lines(t)' = Lines(t) \cup IF l.type = t THEN {n} ELSE {}
      /\ \A st : HasStatus(st)' = HasStatus(st) \cup
            IF l.type = "result" /\ l.status = st THEN {n} ELSE {}
  BY AppendLine
<1>2. /\ \A t : Lines(t) \subseteq DOMAIN lines
      /\ \A st : HasStatus(st) \subseteq DOMAIN lines
  BY DEF Lines, HasStatus
<1> HIDE DEF n
<1>3. ASSUME NEW S \in SUBSET DOMAIN lines
      PROVE  /\ Cardinality(S) \in Nat
             /\ Cardinality(S \cup {n}) = Cardinality(S) + 1
             /\ S \cup {} = S
  BY <1>1, <1>3, FiniteLines, FS_AddElement
<1>4. ASSUME NEW t
      PROVE  Cardinality(Lines(t)') = Cardinality(Lines(t)) +
                 IF l.type = t THEN 1 ELSE 0
  <2>1. CASE l.type = t
    BY <1>1, <1>2, <1>3, <2>1
  <2>2. CASE l.type # t
    <3>1. Lines(t)' = Lines(t)
      BY <1>1, <2>2
    <3>2. Lines(t) \in SUBSET DOMAIN lines
      BY <1>2
    <3>3. Cardinality(Lines(t)) \in Nat
      BY <1>3, <3>2
    <3> QED
      BY <2>2, <3>1, <3>3
  <2> QED
    BY <2>1, <2>2
<1>5. ASSUME NEW st
      PROVE  Cardinality(HasStatus(st)') = Cardinality(HasStatus(st)) +
                 IF l.type = "result" /\ l.status = st THEN 1 ELSE 0
  <2>1. CASE l.type = "result" /\ l.status = st
    BY <1>1, <1>2, <1>3, <2>1
  <2>2. CASE ~(l.type = "result" /\ l.status = st)
    <3>1. HasStatus(st)' = HasStatus(st)
      BY <1>1, <2>2
    <3>2. HasStatus(st) \in SUBSET DOMAIN lines
      BY <1>2
    <3>3. Cardinality(HasStatus(st)) \in Nat
      BY <1>3, <3>2
    <3> QED
      BY <2>2, <3>1, <3>3
  <2> QED
    BY <2>1, <2>2
<1> QED
  BY <1>4, <1>5

-----------------------------------------------------------------------------
(* The handler: one more host seen, one more line, one more count.          *)

LEMMA LineTypes ==
  ASSUME NEW con \in Targets, NEW st \in Statuses
  PROVE  /\ ResultLine(con, st) \in Line /\ Torn(con) \in Line
         /\ ResultLine(con, st).type = "result" /\ Torn(con).type = "torn"
         /\ ResultLine(con, st).status = st
         /\ ResultLine(con, st).con = con /\ Torn(con).con = con
<1>1. con \in 0..NumTargets
  BY TargetsAssumption DEF Targets
<1>2. ResultLine(con, st) \in [type : {"result"}, con : Targets, status : Statuses]
  BY DEF ResultLine
<1>3. Torn(con) \in [type : {"torn"}, con : 0..NumTargets]
  BY <1>1 DEF Torn
<1> QED
  BY <1>2, <1>3 DEF Line, ResultLine, Torn

HostLines(s) == s \in Seq(Line) /\ \A i \in DOMAIN s : s[i].type # "summary"

LEMMA AppendHostLine ==
  ASSUME NEW s, HostLines(s), NEW l \in Line, l.type # "summary"
  PROVE  HostLines(Append(s, l))
<1>1. /\ Append(s, l) \in Seq(Line)
      /\ \A i \in DOMAIN Append(s, l) :
            \/ Append(s, l)[i] = l
            \/ i \in DOMAIN s /\ Append(s, l)[i] = s[i]
  BY DEF HostLines
<1> QED
  BY <1>1 DEF HostLines

\* The line that the handler wrote, when stdout took it.
HandlerLine(l, con, kind, failed) ==
    /\ lines' = Append(lines, l)
    /\ l.con = con
    /\ l.type \in {"result", "torn"}
    /\ dir => l.type = "result"
    /\ IF failed THEN l.type = "torn" \/ l.status = "output_failed"
                 ELSE l.type = "result" /\ l.status = kind

LEMMA HandlerWrites ==
  ASSUME HostLines(lines), dir \in BOOLEAN, NEW res \in Result,
         NEW failed \in BOOLEAN, handleRunResult(res, failed)
  PROVE  \/ writeErr' = TRUE /\ failed /\ HostLines(lines')
         \/ writeErr' = writeErr /\ \E l \in Line :
               HandlerLine(l, res.con, res.kind, failed)
<1> DEFINE con == res.con
           bad == ResultLine(con, "output_failed")
<1>1. con \in Targets /\ res.kind \in Statuses /\ "output_failed" \in Statuses
  BY DEF Result, Statuses
<1>2. /\ bad \in Line /\ bad.type = "result" /\ bad.con = con
      /\ bad.status = "output_failed"
      /\ Torn(con) \in Line /\ Torn(con).type = "torn" /\ Torn(con).con = con
  BY <1>1, LineTypes
<1>3. ASSUME NEW s, HostLines(s)
      PROVE  HostLines(Append(s, bad)) /\ HostLines(Append(s, Torn(con)))
  BY <1>2, <1>3, AppendHostLine
<1>4. CASE ~failed
  <2>1. /\ lines' = Append(lines, ResultLine(con, res.kind))
        /\ writeErr' = writeErr
    BY <1>4 DEF handleRunResult, resultWritten, Written
  <2>2. /\ ResultLine(con, res.kind) \in Line
        /\ HandlerLine(ResultLine(con, res.kind), con, res.kind, failed)
    BY <1>1, <1>4, <2>1, LineTypes DEF HandlerLine
  <2> QED
    BY <2>1, <2>2
<1>5. CASE failed /\ inlineFails(res)
  <2>1. \/ /\ ~dir /\ lines' = Append(lines, Torn(con)) /\ writeErr' = writeErr
        \/ /\ lines' \in {lines, Append(lines, Torn(con))} /\ writeErr' = TRUE
    BY <1>5 DEF inlineFails, Written, WriteFails
  <2>2. CASE ~dir /\ lines' = Append(lines, Torn(con)) /\ writeErr' = writeErr
    <3>1. HandlerLine(Torn(con), con, res.kind, failed)
      BY <1>2, <1>5, <2>2 DEF HandlerLine
    <3> QED
      BY <1>2, <2>2, <3>1
  <2>3. CASE lines' \in {lines, Append(lines, Torn(con))} /\ writeErr' = TRUE
    BY <1>3, <1>5, <2>3
  <2> QED
    BY <2>1, <2>2, <2>3
<1>6. CASE failed /\ dirFails(res)
  <2>1. \/ /\ lines' = Append(lines, bad) /\ writeErr' = writeErr
        \/ /\ lines' \in {lines, Append(lines, Torn(con))} /\ writeErr' = TRUE
        \/ /\ \E before \in {lines, Append(lines, Torn(con))} :
                 \/ lines' = Append(before, bad)
                 \/ lines' \in {before, Append(before, Torn(con))}
           /\ writeErr' = TRUE
    BY <1>6 DEF dirFails, outputFailure, Written, WriteFails
  <2>2. CASE lines' = Append(lines, bad) /\ writeErr' = writeErr
    <3>1. HandlerLine(bad, con, res.kind, failed)
      BY <1>2, <1>6, <2>2 DEF HandlerLine
    <3> QED
      BY <1>2, <2>2, <3>1
  <2>3. CASE lines' \in {lines, Append(lines, Torn(con))} /\ writeErr' = TRUE
    BY <1>3, <1>6, <2>3
  <2>4. CASE /\ \E before \in {lines, Append(lines, Torn(con))} :
                   \/ lines' = Append(before, bad)
                   \/ lines' \in {before, Append(before, Torn(con))}
             /\ writeErr' = TRUE
    <3>1. PICK before \in {lines, Append(lines, Torn(con))} :
             lines' = Append(before, bad)
             \/ lines' \in {before, Append(before, Torn(con))}
      BY <2>4
    <3>2. HostLines(before)
      BY <1>3
    <3>3. HostLines(Append(before, bad)) /\ HostLines(Append(before, Torn(con)))
      BY <1>3, <3>2
    <3> QED
      BY <1>6, <2>4, <3>1, <3>2, <3>3
  <2> QED
    BY <2>1, <2>2, <2>3, <2>4
<1>7. failed => inlineFails(res) \/ dirFails(res)
  BY DEF handleRunResult
<1> QED
  BY <1>4, <1>5, <1>6, <1>7

\* The counters, host by host.
LEMMA HandlerCounts ==
  ASSUME stats \in Stats, NEW res \in Result, NEW failed \in BOOLEAN,
         handleRunResult(res, failed)
  PROVE  LET good == IF failed THEN 0 ELSE 1 IN
         /\ stats' \in Stats
         /\ stats'.succeeded = stats.succeeded +
               IF res.kind = "success" THEN good ELSE 0
         /\ stats'.canceled = stats.canceled +
               IF res.kind = "canceled" THEN good ELSE 0
         /\ stats'.connectionFailed = stats.connectionFailed +
               IF res.kind = "connection_failed" THEN good ELSE 0
         /\ stats'.failed = stats.failed +
               IF res.kind \in {"success", "canceled"} THEN 1 - good ELSE 1
         /\ stats'.localErrors = stats.localErrors + (1 - good)
<1> DEFINE Names == {"succeeded", "failed", "connectionFailed", "canceled",
                    "localErrors"}
<1>1. ASSUME NEW counters, stats' = Plus(counters)
      PROVE  /\ stats' \in Stats
             /\ \A c \in Names : stats'[c] =
                   IF c \in counters THEN stats[c] + 1 ELSE stats[c]
  <2>1. DOMAIN stats = Names /\ \A c \in Names : stats[c] \in Nat
    BY DEF Stats
  <2>2. /\ stats' = [c \in Names |-> IF c \in counters THEN stats[c] + 1
                                                      ELSE stats[c]]
        /\ \A c \in Names : stats'[c] \in Nat
    BY <1>1, <2>1 DEF Plus
  <2> QED
    BY <2>2 DEF Stats
<1>2. \A c \in Names : stats[c] \in Nat
  BY DEF Stats
<1>3. CASE failed
  <2>1. stats' = Plus({"failed", "localErrors"})
    BY <1>3 DEF handleRunResult
  <2> QED
    BY <1>1, <1>2, <1>3, <2>1
<1>4. CASE ~failed
  <2>1. updateRunStats(res.kind)
    BY <1>4 DEF handleRunResult
  <2>2. res.kind \in {"success", "failed", "connection_failed",
                      "output_failed", "canceled"}
    BY DEF Result
  <2>3. CASE res.kind = "canceled"
    <3>1. stats' = Plus({"canceled"})
      BY <2>1, <2>3 DEF updateRunStats
    <3> QED
      BY <1>1, <1>2, <1>4, <2>3, <3>1
  <2>4. CASE res.kind = "connection_failed"
    <3>1. stats' = Plus({"failed", "connectionFailed"})
      BY <2>1, <2>4 DEF updateRunStats
    <3> QED
      BY <1>1, <1>2, <1>4, <2>4, <3>1
  <2>5. CASE res.kind = "success"
    <3>1. stats' = Plus({"succeeded"})
      BY <2>1, <2>5 DEF updateRunStats
    <3> QED
      BY <1>1, <1>2, <1>4, <2>5, <3>1
  <2>6. CASE res.kind \in {"failed", "output_failed"}
    <3>1. stats' = Plus({"failed"})
      BY <2>1, <2>6 DEF updateRunStats
    <3> QED
      BY <1>1, <1>2, <1>4, <2>6, <3>1
  <2> QED
    BY <2>2, <2>3, <2>4, <2>5, <2>6
<1> QED
  BY <1>3, <1>4

LEMMA HandlerReports ==
  ASSUME lines \in Seq(Line), seen \subseteq Targets, Reported(Len(lines)),
         NEW l \in Line, NEW con \in Targets \ seen, lines' = Append(lines, l),
         l.con = con, l.type \in {"result", "torn"}, dir => l.type = "result",
         seen' = seen \cup {con}, dir' = dir
  PROVE  Reported(Len(lines))'
<1> DEFINE n == Len(lines)
<1>1. /\ n \in Nat /\ Len(lines') = n + 1
      /\ \A i \in 1..n : lines'[i] = lines[i]
      /\ lines'[n + 1] = l
  BY AppendLine
<1>2. Cardinality(seen') = Cardinality(seen) + 1
  BY FiniteSeen, FS_AddElement
<1>3. /\ n = Cardinality(seen)
      /\ \A i \in 1..n : /\ lines[i].type \in {"result", "torn"}
                         /\ lines[i].con \in seen
                         /\ dir => lines[i].type = "result"
      /\ \A w \in seen : \E i \in 1..n : lines[i].con = w
      /\ \A i, j \in 1..n : lines[i].con = lines[j].con => i = j
  BY DEF Reported
<1> HIDE DEF n
<1>4. /\ \A i \in 1..(n + 1) : i \in 1..n \/ i = n + 1
      /\ \A i \in 1..n : i \in 1..(n + 1)
      /\ n + 1 \in 1..(n + 1)
  BY <1>1
<1>5. \A i \in 1..(n + 1) : /\ lines'[i].type \in {"result", "torn"}
                            /\ lines'[i].con \in seen'
                            /\ dir' => lines'[i].type = "result"
  BY <1>1, <1>3, <1>4
<1>6. \A w \in seen' : \E i \in 1..(n + 1) : lines'[i].con = w
  <2>1. SUFFICES ASSUME NEW w \in seen'
                 PROVE  \E i \in 1..(n + 1) : lines'[i].con = w
    OBVIOUS
  <2>2. CASE w = con
    BY <1>1, <1>4, <2>2
  <2>3. CASE w \in seen
    <3>1. PICK i \in 1..n : lines[i].con = w
      BY <1>3, <2>3
    <3> QED
      BY <1>1, <1>4, <3>1
  <2> QED
    BY <2>2, <2>3
<1>7. \A i, j \in 1..(n + 1) : lines'[i].con = lines'[j].con => i = j
  <2>1. \A i \in 1..n : lines'[i].con \in seen /\ lines'[i].con = lines[i].con
    BY <1>1, <1>3
  <2>2. lines'[n + 1].con = con /\ con \notin seen
    BY <1>1
  <2> QED
    BY <1>3, <1>4, <2>1, <2>2
<1> QED
  BY <1>1, <1>2, <1>3, <1>5, <1>6, <1>7 DEF Reported

Handling(res, failed) ==
    /\ handleRunResult(res, failed)
    /\ res \in Result /\ failed \in BOOLEAN
    /\ res.con \notin seen
    /\ pc \in {"run", "cancelRest"}
    /\ dir' = dir

LEMMA HandlerStep ==
  ASSUME TypeOK, LinesInv, CountInv, NEW res, NEW failed, Handling(res, failed)
  PROVE  /\ seen' = seen \cup {res.con} /\ seen' \subseteq Targets
         /\ HostLines(lines') /\ Lines("summary")' = {}
         /\ writeErr' \in BOOLEAN /\ stats' \in Stats
         /\ CountInv'
         /\ ~writeErr' => Reported(Len(lines))'
         /\ ~failed => writeErr' = writeErr
<1> DEFINE con == res.con
<1>1. /\ con \in Targets \ seen /\ seen' = seen \cup {con}
      /\ res \in Result /\ failed \in BOOLEAN /\ res.kind \in Statuses
      /\ dir' = dir /\ dir \in BOOLEAN
      /\ seen \subseteq Targets /\ lines \in Seq(Line) /\ stats \in Stats
      /\ writeErr \in BOOLEAN
  BY DEF Handling, handleRunResult, Result, Statuses, TypeOK
<1>2. Cardinality(seen') = Cardinality(seen) + 1 /\ Cardinality(seen) \in Nat
  BY <1>1, FiniteSeen, FS_AddElement
<1>3. HostLines(lines)
  BY <1>1 DEF LinesInv, Handling, Ended, Lines, HostLines
<1>4. \/ writeErr' = TRUE /\ failed /\ HostLines(lines')
      \/ writeErr' = writeErr /\ \E l \in Line :
            HandlerLine(l, con, res.kind, failed)
  BY <1>1, <1>3, HandlerWrites DEF Handling
<1>5. /\ stats' \in Stats
      /\ stats'.succeeded = stats.succeeded +
            IF res.kind = "success" THEN IF failed THEN 0 ELSE 1 ELSE 0
      /\ stats'.canceled = stats.canceled +
            IF res.kind = "canceled" THEN IF failed THEN 0 ELSE 1 ELSE 0
      /\ stats'.connectionFailed = stats.connectionFailed +
            IF res.kind = "connection_failed" THEN IF failed THEN 0 ELSE 1 ELSE 0
      /\ stats'.failed = stats.failed +
            IF res.kind \in {"success", "canceled"}
            THEN IF failed THEN 1 ELSE 0 ELSE 1
      /\ stats'.localErrors = stats.localErrors + IF failed THEN 1 ELSE 0
  BY <1>1, HandlerCounts DEF Handling
<1>6. /\ stats.succeeded \in Nat /\ stats.failed \in Nat
      /\ stats.canceled \in Nat /\ stats.localErrors \in Nat
      /\ stats.connectionFailed \in Nat
  BY <1>1 DEF Stats
<1>7. stats'.succeeded + stats'.failed + stats'.canceled = Cardinality(seen')
  <2>1. stats.succeeded + stats.failed + stats.canceled = Cardinality(seen)
    BY DEF CountInv
  <2> HIDE DEF con
  <2> QED
    BY <1>2, <1>5, <1>6, <2>1
<1>8. seen' \subseteq Targets
  BY <1>1
<1>9. CASE writeErr' = TRUE /\ failed /\ HostLines(lines')
  BY <1>1, <1>5, <1>7, <1>8, <1>9 DEF CountInv, HostLines, Lines
<1>10. ASSUME writeErr' = writeErr, NEW l \in Line,
              HandlerLine(l, con, res.kind, failed)
       PROVE  /\ HostLines(lines') /\ CountInv'
              /\ ~writeErr' => Reported(Len(lines))'
  <2>1. /\ lines' = Append(lines, l) /\ l.con = con
        /\ l.type \in {"result", "torn"}
        /\ dir => l.type = "result"
        /\ IF failed THEN l.type = "torn" \/ l.status = "output_failed"
                     ELSE l.type = "result" /\ l.status = res.kind
    BY <1>10 DEF HandlerLine
  <2>2. HostLines(lines')
    BY <1>3, <2>1, AppendHostLine
  <2>3. ASSUME ~writeErr'
        PROVE  Reported(Len(lines))'
    <3>1. Reported(Len(lines))
      BY <1>10, <2>3 DEF LinesInv, Handling, Late
    <3> QED
      BY <1>1, <2>1, <3>1, HandlerReports
  <2>4. ASSUME ~writeErr'
        PROVE  /\ stats'.succeeded = Cardinality(HasStatus("success")')
               /\ stats'.canceled = Cardinality(HasStatus("canceled")')
               /\ stats'.connectionFailed
                     = Cardinality(HasStatus("connection_failed")')
               /\ stats'.localErrors >= Cardinality(Lines("torn")')
    <3>1. /\ stats.succeeded = Cardinality(HasStatus("success"))
          /\ stats.canceled = Cardinality(HasStatus("canceled"))
          /\ stats.connectionFailed = Cardinality(HasStatus("connection_failed"))
          /\ stats.localErrors >= Cardinality(Lines("torn"))
      BY <1>10, <2>4 DEF CountInv
    <3>2. \A st : Cardinality(HasStatus(st)') = Cardinality(HasStatus(st)) +
                     IF l.type = "result" /\ l.status = st THEN 1 ELSE 0
      BY <1>1, <2>1, AppendCounts
    <3>3. Cardinality(Lines("torn")') = Cardinality(Lines("torn")) +
                     IF l.type = "torn" THEN 1 ELSE 0
      BY <1>1, <2>1, AppendCounts
    <3>4. Cardinality(Lines("torn")) \in Nat
      BY <1>1, FiniteLines DEF Lines
    <3>5. res.kind \in Statuses
      BY <1>1
    <3> HIDE DEF con
    <3>6. CASE failed
      BY <1>5, <1>6, <2>1, <3>1, <3>2, <3>3, <3>4, <3>6, SMTT(30)
    <3>7. CASE ~failed
      BY <1>5, <1>6, <2>1, <3>1, <3>2, <3>3, <3>4, <3>7
    <3> QED
      BY <1>1, <3>6, <3>7
  <2> QED
    BY <1>7, <2>2, <2>3, <2>4 DEF CountInv
<1>11. HostLines(lines') => Lines("summary")' = {}
  BY DEF HostLines, Lines
<1> QED
  BY <1>1, <1>4, <1>5, <1>8, <1>9, <1>10, <1>11

-----------------------------------------------------------------------------
(* The invariant, step by step.                                             *)

LEMMA Frame ==
  ASSUME UNCHANGED <<outVars, dir, conf, emitted>>
  PROVE  /\ CountInv' <=> CountInv
         /\ \A t : Lines(t)' = Lines(t)
         /\ \A n : Reported(n)' <=> Reported(n)
         /\ NothingYet' <=> NothingYet
         /\ Complete' <=> Complete
<1>1. /\ lines' = lines /\ writeErr' = writeErr /\ stats' = stats
      /\ seen' = seen /\ dir' = dir /\ conf' = conf /\ emitted' = emitted
  BY DEF outVars
<1>2. \A t : Lines(t)' = Lines(t)
  BY <1>1 DEF Lines
<1>3. \A st : HasStatus(st)' = HasStatus(st)
  BY <1>1, <1>2 DEF HasStatus
<1>4. \A n : Reported(n)' <=> Reported(n)
  BY <1>1 DEF Reported
<1>5. CountInv' <=> CountInv
  BY <1>1, <1>2, <1>3 DEF CountInv
<1> QED
  BY <1>1, <1>2, <1>4, <1>5 DEF NothingYet, Complete

LEMMA InitIInv == Init => IInv
<1> SUFFICES ASSUME Init PROVE IInv
  OBVIOUS
<1>1. /\ lines = <<>> /\ seen = {} /\ emitted = <<>> /\ pc = "options"
      /\ writeErr = FALSE /\ code = 0 /\ rc = 0 /\ cause = "none"
      /\ pending = "none" /\ dir \in BOOLEAN
      /\ conf \in [policy : Policies, sortPrint : Orders]
      /\ stats = [succeeded |-> 0, failed |-> 0, connectionFailed |-> 0,
                  canceled |-> 0, localErrors |-> 0]
  BY DEF Init, Engine!Init
<1>2. \A t : Lines(t) = {}
  BY <1>1 DEF Lines
<1>3. \A st : HasStatus(st) = {}
  BY <1>2 DEF HasStatus
<1>4. Cardinality({}) = 0
  BY FS_EmptySet
<1>5. TypeOK
  <2>1. stats \in Stats
    BY <1>1 DEF Stats
  <2>2. emitted \in Seq(Engine!Report) /\ lines \in Seq(Line)
    BY <1>1
  <2>3. /\ code \in 0..255 /\ rc \in 0..255 /\ seen \subseteq Targets
        /\ pc \in Early /\ cause \in {"none"} /\ pending \in {"none"}
    BY <1>1 DEF Early
  <2>4. dir \in BOOLEAN /\ writeErr \in BOOLEAN
    BY <1>1
  <2> QED
    BY <1>1, <2>1, <2>2, <2>3, <2>4 DEF TypeOK
<1>6. NothingYet
  BY <1>1 DEF NothingYet
<1>7. CountInv
  <2>1. /\ stats.succeeded = 0 /\ stats.failed = 0 /\ stats.canceled = 0
        /\ stats.connectionFailed = 0 /\ stats.localErrors = 0
    BY <1>1
  <2>2. /\ Cardinality(seen) = 0 /\ Cardinality(Lines("torn")) = 0
        /\ \A st : Cardinality(HasStatus(st)) = 0
    BY <1>1, <1>2, <1>3, <1>4
  <2> QED
    BY <2>1, <2>2 DEF CountInv
<1> QED
  BY <1>1, <1>2, <1>5, <1>6, <1>7
  DEF IInv, EarlyInv, SeenInv, LinesInv, RunInv, ZeroInv, CodeInv, Early, Late,
      Ended

\* Before the run: the options, the targets and stdin.
LEMMA AdvanceStep ==
  ASSUME IInv, NEW from \in Early, NEW to \in Early \cup {"run"},
         Advance(from, to)
  PROVE  IInv'
<1>1. /\ pc = from /\ pc' = to
      /\ UNCHANGED <<engineVars, dir, pending, cause, outVars, rc>>
  BY DEF Advance
<1>2. /\ UNCHANGED <<conf, emitted, code, lines, writeErr, stats, seen>>
      /\ UNCHANGED <<outVars, dir, conf, emitted>>
  BY <1>1 DEF engineVars, outVars
<1>3. /\ CountInv' <=> CountInv
      /\ \A t : Lines(t)' = Lines(t)
      /\ \A n : Reported(n)' <=> Reported(n)
      /\ NothingYet' <=> NothingYet
  BY <1>2, Frame
<1>4. NothingYet /\ lines = <<>> /\ Lines("summary") = {}
  BY <1>1 DEF IInv, EarlyInv, LinesInv, Early, Ended
<1>5. Reported(Len(lines))
  <2>1. Cardinality({}) = 0 /\ Len(<<>>) = 0 /\ seen = {}
    BY <1>4, FS_EmptySet DEF NothingYet
  <2> QED
    BY <1>4, <2>1 DEF Reported
<1>6. TypeOK'
  BY <1>1, <1>2 DEF IInv, TypeOK
<1>7. EarlyInv' /\ CountInv' /\ LinesInv'
  BY <1>1, <1>2, <1>3, <1>4, <1>5 DEF IInv, EarlyInv, LinesInv, Early, Late, Ended
<1>8. SeenInv'
  <2>1. seen' = {} /\ emitted' = <<>>
    BY <1>2, <1>4 DEF NothingYet
  <2>2. Engine!EmittedTargets' = {}
    BY <2>1 DEF Engine!EmittedTargets
  <2> QED
    BY <1>1, <2>1, <2>2 DEF SeenInv, Early
<1>9. RunInv'
  BY <1>2, <1>4 DEF RunInv, NothingYet
<1>10. ZeroInv' /\ CodeInv'
  BY <1>1, <1>3, <1>4 DEF ZeroInv, CodeInv, Early, Late, Ended
<1> QED
  BY <1>6, <1>7, <1>8, <1>9, <1>10 DEF IInv

\* An error or a dry run: at most one line, which is not a summary.
LEMMA EarlyExit ==
  ASSUME IInv, pc \in Early, pc' = "exit",
         UNCHANGED <<engineVars, dir, pending, cause, stats, seen>>,
         rc' \in 0..255,
         \/ \E l \in Line : /\ l.type \in {"error", "dry_run"}
                            /\ Written(lines, l)
                            /\ rc' = 0 => l = DryRunLine
         \/ WriteFails(lines, 0) /\ rc' # 0
  PROVE  IInv'
<1>1. /\ lines = <<>> /\ lines \in Seq(Line) /\ NothingYet
      /\ Lines("summary") = {} /\ HostLines(lines)
  BY DEF IInv, EarlyInv, TypeOK, LinesInv, Early, Ended, HostLines
<1>2. /\ UNCHANGED <<conf, emitted, code, dir, pending, cause, stats, seen>>
      /\ stats \in Stats
  BY DEF engineVars, IInv, TypeOK
<1>3. Torn(0) \in Line /\ Torn(0).type = "torn"
  BY TargetsAssumption DEF Torn, Line
<1>4. /\ HostLines(lines') /\ writeErr' \in BOOLEAN
      /\ ~writeErr' => \E l \in Line :
                          /\ l.type \in {"error", "dry_run"}
                          /\ lines' = Append(lines, l)
                          /\ rc' = 0 => l = DryRunLine
      /\ writeErr' => rc' # 0
  <2>1. CASE \E l \in Line :
                /\ l.type \in {"error", "dry_run"}
                /\ Written(lines, l)
                /\ rc' = 0 => l = DryRunLine
    <3>1. PICK l \in Line :
             /\ l.type \in {"error", "dry_run"}
             /\ Written(lines, l)
             /\ rc' = 0 => l = DryRunLine
      BY <2>1
    <3>2. HostLines(lines') /\ writeErr' = FALSE /\ lines' = Append(lines, l)
      BY <1>1, <3>1, AppendHostLine DEF Written, NothingYet, IInv, TypeOK
    <3> QED
      BY <3>1, <3>2
  <2>2. CASE WriteFails(lines, 0) /\ rc' # 0
    <3>1. HostLines(lines') /\ writeErr' = TRUE
      BY <1>1, <1>3, <2>2, AppendHostLine DEF WriteFails
    <3> QED
      BY <2>2, <3>1
  <2> QED
    BY <2>1, <2>2
<1>5. Lines("summary")' = {} /\ lines' \in Seq(Line)
  BY <1>4 DEF HostLines, Lines
<1>6. TypeOK'
  BY <1>2, <1>4, <1>5 DEF IInv, TypeOK
<1>7. CountInv'
  <2>1. CASE writeErr'
    BY <1>2, <2>1 DEF IInv, CountInv
  <2>2. CASE ~writeErr'
    <3>1. PICK l \in Line : /\ l.type \in {"error", "dry_run"}
                            /\ lines' = Append(lines, l)
      BY <1>4, <2>2
    <3>2. /\ \A t : Cardinality(Lines(t)') = Cardinality(Lines(t)) +
                       IF l.type = t THEN 1 ELSE 0
          /\ \A st : Cardinality(HasStatus(st)') = Cardinality(HasStatus(st)) +
                       IF l.type = "result" /\ l.status = st THEN 1 ELSE 0
      BY <1>1, <3>1, AppendCounts
    <3>3. /\ \A st : Cardinality(HasStatus(st)) \in Nat
          /\ \A t : Cardinality(Lines(t)) \in Nat
      BY <1>1, FiniteLines DEF Lines, HasStatus
    <3>4. ~writeErr
      BY <1>1 DEF NothingYet
    <3> QED
      BY <1>2, <3>1, <3>2, <3>3, <3>4 DEF IInv, CountInv
  <2> QED
    BY <2>1, <2>2
<1>8. ASSUME rc' = 0
      PROVE  lines' = <<DryRunLine>> /\ NothingYet'
  <2>1. ~writeErr' /\ lines' = Append(lines, DryRunLine)
    BY <1>4, <1>8
  <2> QED
    BY <1>1, <1>2, <2>1 DEF NothingYet
<1> QED
  BY <1>5, <1>6, <1>7, <1>8
  DEF IInv, EarlyInv, SeenInv, LinesInv, RunInv, ZeroInv, CodeInv, Early, Late,
      Ended

-----------------------------------------------------------------------------
(* The engine's exit code.                                                  *)

LEMMA PolicyZero ==
  ASSUME TypeOK
  PROVE  /\ Engine!PolicyCode(conf.policy, emitted) \in 0..255
         /\ Engine!PolicyCode(conf.policy, emitted) = 0 =>
               \A i \in DOMAIN emitted :
                  /\ ~emitted[i].err
                  /\ conf.policy # "always-zero" => emitted[i].code = 0
<1> DEFINE U == Engine!Unclean(emitted)
<1>1. \A i \in DOMAIN emitted : /\ emitted[i].code \in 0..255
                                /\ emitted[i].err \in BOOLEAN
  <2>1. \A i \in DOMAIN emitted : emitted[i] \in Engine!Report
    BY DEF TypeOK
  <2> QED
    BY <2>1, CodesAssumption DEF Engine!Report
<1>2. U \in SUBSET Nat /\ U \subseteq DOMAIN emitted
  BY DEF TypeOK, Engine!Unclean
<1>3. \A i \in DOMAIN emitted : /\ Engine!Verdict(emitted[i]) \in 0..255
                                /\ i \in U <=> Engine!Verdict(emitted[i]) # 0
  BY <1>1 DEF Engine!Verdict, Engine!Unclean
<1>4. CASE conf.policy = "always-zero"
  BY <1>4 DEF Engine!PolicyCode
<1>5. CASE conf.policy # "always-zero" /\ U = {}
  <2>1. Engine!PolicyCode(conf.policy, emitted) = 0
    BY <1>5 DEF Engine!PolicyCode
  <2>2. \A i \in DOMAIN emitted : emitted[i].code = 0 /\ ~emitted[i].err
    BY <1>1, <1>3, <1>5 DEF Engine!Verdict
  <2> QED
    BY <2>1, <2>2
<1>6. CASE conf.policy # "always-zero" /\ U # {}
  <2>1. \E i \in U : \A j \in U : i <= j
    BY <1>2, <1>6, LeastExists
  <2>2. Engine!First(U) \in U
    BY <2>1 DEF Engine!First
  <2>3. \/ Engine!PolicyCode(conf.policy, emitted) = 1
        \/ Engine!PolicyCode(conf.policy, emitted)
              = Engine!Verdict(emitted[Engine!First(U)])
    BY <1>6 DEF Engine!PolicyCode
  <2>4. Engine!Verdict(emitted[Engine!First(U)]) \in 1..255
    BY <1>2, <1>3, <2>2
  <2> QED
    BY <2>3, <2>4
<1> QED
  BY <1>4, <1>5, <1>6

-----------------------------------------------------------------------------
(* The run.                                                                 *)

LEMMA EmitStep ==
  ASSUME IInv, NEW r \in Engine!Report, NEW res \in Result,
         NEW failed \in BOOLEAN, EngineEmits(r, res, failed)
  PROVE  IInv'
<1>1. /\ pc = "run" /\ pc' = "run" /\ rc' = rc /\ cause' = cause
      /\ dir' = dir /\ pending' = pending /\ conf' = conf /\ code' = code
      /\ emitted' = Append(emitted, r) /\ r.con \notin Engine!EmittedTargets
      /\ Reportable(res, r) /\ (failed => r.err)
      /\ handleRunResult(res, failed)
  BY DEF EngineEmits, Engine!Emit
<1>2. TypeOK /\ LinesInv /\ CountInv /\ seen = Engine!EmittedTargets
  BY <1>1 DEF IInv, SeenInv
<1>3. Handling(res, failed) /\ res.con = r.con
  BY <1>1, <1>2 DEF Handling, Reportable
<1>4. /\ seen' = seen \cup {r.con} /\ seen' \subseteq Targets
      /\ HostLines(lines') /\ Lines("summary")' = {}
      /\ writeErr' \in BOOLEAN /\ stats' \in Stats
      /\ CountInv'
      /\ ~writeErr' => Reported(Len(lines))'
      /\ ~failed => writeErr' = writeErr
  BY <1>2, <1>3, HandlerStep
<1>5. /\ emitted' \in Seq(Engine!Report)
      /\ \A i \in DOMAIN emitted : i \in DOMAIN emitted' /\ emitted'[i] = emitted[i]
      /\ Len(emitted) + 1 \in DOMAIN emitted' /\ emitted'[Len(emitted) + 1] = r
      /\ \A i \in DOMAIN emitted' : i \in DOMAIN emitted \/ i = Len(emitted) + 1
  BY <1>1, <1>2 DEF TypeOK
<1>6. TypeOK'
  BY <1>1, <1>2, <1>4, <1>5 DEF TypeOK, HostLines
<1>7. SeenInv'
  <2>1. Engine!EmittedTargets' = Engine!EmittedTargets \cup {r.con}
    BY <1>5 DEF Engine!EmittedTargets
  <2> QED
    BY <1>1, <1>2, <1>4, <2>1 DEF SeenInv
<1>8. RunInv'
  <2>1. /\ stats'.canceled = stats.canceled + 
              IF res.kind = "canceled" THEN IF failed THEN 0 ELSE 1 ELSE 0
        /\ stats'.failed = stats.failed +
              IF res.kind \in {"success", "canceled"}
              THEN IF failed THEN 1 ELSE 0 ELSE 1
        /\ stats'.localErrors = stats.localErrors + IF failed THEN 1 ELSE 0
    BY <1>1, <1>2, HandlerCounts DEF TypeOK
  <2>2. /\ stats.failed \in Nat /\ stats.canceled \in Nat
        /\ stats.localErrors \in Nat
    BY <1>2 DEF TypeOK, Stats
  <2>3. /\ stats.canceled = 0
        /\ writeErr \/ stats.localErrors > 0 =>
              \E i \in DOMAIN emitted : emitted[i].err
        /\ stats.failed > 0 =>
              \E i \in DOMAIN emitted : emitted[i].code # 0 \/ emitted[i].err
    BY <1>1 DEF IInv, RunInv
  <2>4. res.kind # "canceled" /\ (res.kind = "success" <=> r.code = 0)
    BY <1>1 DEF Reportable
  <2>5. stats'.canceled = 0
    BY <2>1, <2>3, <2>4
  <2>6. writeErr' \/ stats'.localErrors > 0 =>
          \E i \in DOMAIN emitted' : emitted'[i].err
    <3>1. CASE failed
      BY <1>1, <1>5, <3>1
    <3>2. CASE ~failed
      BY <1>4, <1>5, <2>1, <2>2, <2>3, <3>2
    <3> QED
      BY <3>1, <3>2
  <2>7. stats'.failed > 0 =>
          \E i \in DOMAIN emitted' : emitted'[i].code # 0 \/ emitted'[i].err
    <3>1. CASE failed \/ r.code # 0
      BY <1>1, <1>5, <3>1
    <3>2. CASE ~failed /\ r.code = 0
      <4>1. stats'.failed = stats.failed
        BY <2>1, <2>2, <2>4, <3>2
      <4> QED
        BY <1>5, <2>3, <4>1
    <3> QED
      BY <3>1, <3>2
  <2> QED
    BY <2>5, <2>6, <2>7 DEF RunInv
<1> QED
  BY <1>1, <1>4, <1>6, <1>7, <1>8
  DEF IInv, EarlyInv, LinesInv, ZeroInv, CodeInv, Early, Late, Ended

LEMMA ReturnStep ==
  ASSUME IInv, EngineReturns
  PROVE  IInv'
<1>1. /\ pc = "run" /\ pc' = "check" /\ rc' = code'
      /\ UNCHANGED <<cause, dir, pending, conf, emitted>>
      /\ UNCHANGED <<outVars, dir, conf, emitted>>
      /\ UNCHANGED <<lines, writeErr, stats, seen>>
      /\ \/ /\ Engine!EmittedTargets = Targets
            /\ code' = Engine!PolicyCode(conf.policy, emitted)
         \/ /\ cause # "none" \/ emitted = <<>>
            /\ code' = 1
  BY DEF EngineReturns, Engine!ReturnComplete, Engine!ReturnEarly,
         Engine!Targets, Targets, outVars
<1>2. /\ TypeOK /\ CountInv /\ seen = Engine!EmittedTargets
      /\ Lines("summary") = {}
      /\ ~writeErr => Reported(Len(lines))
      /\ stats.canceled = 0
      /\ writeErr \/ stats.localErrors > 0 =>
            \E i \in DOMAIN emitted : emitted[i].err
      /\ stats.failed > 0 =>
            \E i \in DOMAIN emitted : emitted[i].code # 0 \/ emitted[i].err
  BY <1>1 DEF IInv, SeenInv, LinesInv, RunInv, Ended
<1>3. /\ CountInv' <=> CountInv
      /\ \A t : Lines(t)' = Lines(t)
      /\ \A n : Reported(n)' <=> Reported(n)
      /\ Complete' <=> Complete
  BY <1>1, Frame
<1>4. code' \in 0..255
  BY <1>1, <1>2, PolicyZero
<1>5. TypeOK'
  BY <1>1, <1>2, <1>4 DEF TypeOK, Late
<1>6. SeenInv'
  <2>1. CASE Engine!EmittedTargets = Targets
    BY <1>1, <1>2, <2>1 DEF SeenInv
  <2>2. CASE cause # "none"
    BY <1>1, <2>2 DEF SeenInv
  <2>3. CASE emitted = <<>>
    <3>1. Engine!EmittedTargets = {}
      BY <2>3 DEF Engine!EmittedTargets
    <3> QED
      BY <1>1, <1>2, <3>1 DEF SeenInv
  <2> QED
    BY <1>1, <2>1, <2>2, <2>3
<1>7. code' = 0 => Complete
  <2>1. SUFFICES ASSUME code' = 0 PROVE Complete
    OBVIOUS
  <2>2. /\ seen = Targets
        /\ \A i \in DOMAIN emitted :
              /\ ~emitted[i].err
              /\ conf.policy # "always-zero" => emitted[i].code = 0
    BY <1>1, <1>2, <2>1, PolicyZero
  <2>3. /\ stats.succeeded \in Nat /\ stats.failed \in Nat
        /\ stats.localErrors \in Nat
    BY <1>2 DEF TypeOK, Stats
  <2>4. ~writeErr /\ stats.localErrors = 0
    BY <1>2, <2>2, <2>3
  <2>5. conf.policy # "always-zero" => stats.succeeded = NumTargets
    <3>1. stats.succeeded + stats.failed + stats.canceled = NumTargets
      BY <1>2, <2>2, NumberOfTargets DEF CountInv
    <3>2. conf.policy # "always-zero" => stats.failed = 0
      BY <1>2, <2>2, <2>3
    <3> QED
      BY <1>2, <2>3, <3>1, <3>2
  <2> QED
    BY <1>2, <2>2, <2>4, <2>5 DEF Complete
<1> QED
  BY <1>1, <1>2, <1>3, <1>5, <1>6, <1>7
  DEF IInv, EarlyInv, LinesInv, RunInv, ZeroInv, CodeInv, Early, Late, Ended

-----------------------------------------------------------------------------
(* After the run, and signals.                                              *)

\* The code of a signal does not depend on the code it replaces.
LEMMA SignalCode ==
  ASSUME TypeOK, NEW c
  PROVE  /\ cause = "none" => signalExitCode(c) = c
         /\ signalExitCode(c) = 0 => c = 0
         /\ cause # "none" => /\ signalExitCode(c) \in {130, 143}
                              /\ FromSignal(signalExitCode(c))
                              /\ \A d : FromSignal(d) => d = signalExitCode(c)
  BY DEF TypeOK, Signals, signalExitCode, FromSignal

\* Steps of main that print nothing.
LEMMA QuietStep ==
  ASSUME IInv, UNCHANGED <<engineVars, dir, pending, cause, outVars>>,
         rc' \in 0..255,
         \/ /\ pc = "check" /\ rc' = rc
            /\ pc' = IF cause # "none" THEN "cancelRest" ELSE "cause"
         \/ /\ pc = "cancelRest" /\ rc' = rc /\ pc' = "cause" /\ seen = Targets
         \/ /\ pc = "cause" /\ rc' = signalExitCode(rc) /\ pc' = "summary"
         \/ /\ pc = "exit" /\ rc' = signalExitCode(rc) /\ pc' = "exited"
  PROVE  IInv'
<1>1. /\ UNCHANGED <<conf, emitted, code, dir, pending, cause, lines, writeErr,
                     stats, seen>>
      /\ UNCHANGED <<outVars, dir, conf, emitted>>
  BY DEF engineVars, outVars
<1>2. /\ CountInv' <=> CountInv
      /\ \A t : Lines(t)' = Lines(t)
      /\ \A n : Reported(n)' <=> Reported(n)
      /\ NothingYet' <=> NothingYet
      /\ Complete' <=> Complete
  BY <1>1, Frame
<1>3. \A c : FromSignal(c)' <=> FromSignal(c)
  BY <1>1 DEF FromSignal, signalExitCode
<1>4. \A c : Explained(c)' <=> Explained(c)
  BY <1>1, <1>3 DEF Explained
<1>5. TypeOK' /\ TypeOK
  BY <1>1 DEF IInv, TypeOK, Late
<1>6. EarlyInv' /\ LinesInv' /\ CountInv' /\ RunInv'
  BY <1>1, <1>2 DEF IInv, EarlyInv, LinesInv, RunInv, Early, Late, Ended
<1>7. CASE /\ pc = "check" /\ rc' = rc
           /\ pc' = IF cause # "none" THEN "cancelRest" ELSE "cause"
  BY <1>1, <1>2, <1>4, <1>5, <1>6, <1>7
  DEF IInv, SeenInv, LinesInv, ZeroInv, CodeInv, Late, Ended
<1>8. CASE /\ pc = "cancelRest" /\ rc' = rc /\ pc' = "cause" /\ seen = Targets
  BY <1>1, <1>2, <1>4, <1>5, <1>6, <1>8
  DEF IInv, SeenInv, LinesInv, ZeroInv, CodeInv, Late, Ended
<1>9. CASE pc = "cause" /\ rc' = signalExitCode(rc) /\ pc' = "summary"
  <2>1. rc = code /\ (stats.canceled > 0 => cause # "none") /\ Lines("summary") = {}
    BY <1>9 DEF IInv, CodeInv, LinesInv, Ended
  <2>2. Explained(rc')
    <3>1. CASE cause = "none"
      BY <1>5, <1>9, <2>1, <3>1, SignalCode DEF Explained
    <3>2. CASE cause # "none"
      BY <1>5, <1>9, <2>1, <3>2, SignalCode DEF Explained
    <3> QED
      BY <3>1, <3>2
  <2>3. rc' = 0 => rc = 0
    BY <1>5, <1>9, SignalCode
  <2>4. CodeInv'
    BY <1>2, <1>4, <1>9, <2>1, <2>2 DEF CodeInv
  <2>5. SeenInv' /\ ZeroInv'
    BY <1>1, <1>2, <1>9, <2>3 DEF IInv, SeenInv, ZeroInv, Late, Ended
  <2> QED
    BY <1>5, <1>6, <2>4, <2>5 DEF IInv
<1>10. CASE pc = "exit" /\ rc' = signalExitCode(rc) /\ pc' = "exited"
  <2>1. ASSUME NEW i \in Lines("summary")
        PROVE  /\ Explained(lines[i].code)
               /\ lines[i].code # rc' => FromSignal(rc')
    <3>1. Explained(lines[i].code) /\ lines[i].code = rc
      BY <1>10 DEF IInv, CodeInv
    <3> QED
      BY <1>5, <1>10, <3>1, SignalCode
  <2>2. rc' = 0 => rc = 0
    BY <1>5, <1>10, SignalCode
  <2>3. CodeInv'
    BY <1>1, <1>2, <1>3, <1>4, <1>10, <2>1 DEF CodeInv
  <2>4. SeenInv' /\ ZeroInv'
    BY <1>1, <1>2, <1>10, <2>2 DEF IInv, SeenInv, ZeroInv, Late, Ended
  <2> QED
    BY <1>5, <1>6, <2>3, <2>4 DEF IInv
<1> QED
  BY <1>7, <1>8, <1>9, <1>10

LEMMA CancelRestStep ==
  ASSUME IInv, NEW failed \in BOOLEAN, CancelRest(failed)
  PROVE  IInv'
<1> DEFINE con == CHOOSE w \in Targets \ seen : \A v \in Targets \ seen : w <= v
           res == [con |-> con, kind |-> "canceled", readable |-> TRUE]
<1>1. /\ pc = "cancelRest" /\ seen # Targets
      /\ handleRunResult(res, failed)
      /\ \/ pc' = "exit" /\ rc' = 1
         \/ pc' = pc /\ rc' = rc
      /\ UNCHANGED <<conf, emitted, code, dir, pending, cause>>
  BY DEF CancelRest, engineVars
<1>2. /\ TypeOK /\ LinesInv /\ CountInv /\ cause # "none" /\ rc = code
      /\ seen \subseteq Targets
  BY <1>1 DEF IInv, CodeInv, TypeOK
<1>3. con \in Targets \ seen
  <2>1. Targets \ seen \in SUBSET Nat
    BY TargetsAssumption DEF Targets
  <2> Targets \ seen # {}
    BY <1>1, <1>2
  <2>2. \E w \in Targets \ seen : \A v \in Targets \ seen : w <= v
    BY <2>1, LeastExists
  <2> QED
    BY <2>2
<1> HIDE DEF con
<1>4. Handling(res, failed)
  BY <1>1, <1>3 DEF Handling, Result
<1> HIDE DEF res
<1>5. /\ seen' \subseteq Targets
      /\ HostLines(lines') /\ Lines("summary")' = {}
      /\ writeErr' \in BOOLEAN /\ stats' \in Stats
      /\ CountInv'
      /\ ~writeErr' => Reported(Len(lines))'
  BY <1>2, <1>4, HandlerStep
<1>6. TypeOK'
  <2>1. rc \in 0..255 /\ 1 \in 0..255
    BY <1>2 DEF TypeOK
  <2>2. rc' \in 0..255
    BY <1>1, <2>1
  <2>3. pc' \in Late \cup {"exit"}
    BY <1>1 DEF Late
  <2>4. lines' \in Seq(Line)
    BY <1>5 DEF HostLines
  <2> QED
    BY <1>1, <1>2, <1>5, <2>2, <2>3, <2>4 DEF TypeOK
<1>7. rc # 0
  BY <1>1 DEF IInv, ZeroInv, Complete, Late
<1> QED
  BY <1>1, <1>2, <1>5, <1>6, <1>7
  DEF IInv, EarlyInv, SeenInv, LinesInv, RunInv, ZeroInv, CodeInv, Early, Late,
      Ended

LEMMA SummaryStep ==
  ASSUME IInv, WriteSummary
  PROVE  IInv'
<1>1. /\ pc = "summary" /\ pc' = "exit"
      /\ UNCHANGED <<conf, emitted, code, dir, pending, cause, stats, seen>>
      /\ \/ /\ lines' = Append(lines, Summary(rc)) /\ writeErr' = writeErr
            /\ rc' = rc
         \/ /\ lines' \in {lines, Append(lines, Torn(0))} /\ writeErr' = TRUE
            /\ rc' = 1
  BY DEF WriteSummary, Written, WriteFails, engineVars
<1>2. /\ TypeOK /\ CountInv /\ Lines("summary") = {} /\ HostLines(lines)
      /\ lines \in Seq(Line) /\ rc \in 0..255 /\ Len(lines) \in Nat
      /\ seen \in {{}, Targets} /\ stats \in Stats
      /\ ~writeErr => Reported(Len(lines))
      /\ Explained(rc)
      /\ rc = 0 => Complete
  BY <1>1 DEF IInv, TypeOK, LinesInv, SeenInv, CodeInv, ZeroInv, Late, Ended,
              Lines, HostLines
<1>3. \A c : Explained(c)' <=> Explained(c)
  BY <1>1 DEF Explained, FromSignal, signalExitCode
<1>4. CASE /\ lines' \in {lines, Append(lines, Torn(0))} /\ writeErr' = TRUE
           /\ rc' = 1
  <2>1. Torn(0) \in Line /\ Torn(0).type = "torn"
    BY TargetsAssumption DEF Torn, Line
  <2>2. HostLines(lines')
    BY <1>2, <1>4, <2>1, AppendHostLine
  <2>3. Lines("summary")' = {} /\ lines' \in Seq(Line)
    BY <2>2 DEF HostLines, Lines
  <2>4. TypeOK'
    BY <1>1, <1>2, <1>4, <2>3 DEF TypeOK
  <2>5. CountInv'
    BY <1>1, <1>2, <1>4 DEF CountInv
  <2> QED
    BY <1>1, <1>4, <2>3, <2>4, <2>5
    DEF IInv, EarlyInv, SeenInv, LinesInv, RunInv, ZeroInv, CodeInv, Early, Late,
        Ended
<1>5. CASE /\ lines' = Append(lines, Summary(rc)) /\ writeErr' = writeErr
           /\ rc' = rc
  <2> DEFINE l == Summary(rc)
             n == Len(lines)
  <2>1. l \in Line /\ l.type = "summary" /\ l.code = rc
    <3>1. l \in [type : {"summary"}, code : 0..255]
      BY <1>2 DEF Summary
    <3> QED
      BY <3>1 DEF Line, Summary
  <2> HIDE DEF l
  <2>2. /\ lines' \in Seq(Line) /\ Len(lines') = n + 1 /\ n \in Nat
        /\ \A i \in 1..n : lines'[i] = lines[i]
        /\ lines'[n + 1] = l
        /\ Lines("summary")' = {n + 1}
    <3>1. lines' = Append(lines, l)
      BY <1>5 DEF l
    <3>2. Lines("summary")' = Lines("summary") \cup {n + 1}
      BY <1>2, <2>1, <3>1, AppendLine
    <3> QED
      BY <1>2, <2>1, <3>1, <3>2, AppendLine
  <2>3. /\ \A st : Cardinality(HasStatus(st)') = Cardinality(HasStatus(st))
        /\ \A t : t # "summary" => Cardinality(Lines(t)') = Cardinality(Lines(t))
    <3>1. lines' = Append(lines, l)
      BY <1>5 DEF l
    <3>2. /\ \A t : Cardinality(Lines(t)') = Cardinality(Lines(t)) +
                       IF l.type = t THEN 1 ELSE 0
          /\ \A st : Cardinality(HasStatus(st)') = Cardinality(HasStatus(st)) +
                       IF l.type = "result" /\ l.status = st THEN 1 ELSE 0
      BY <1>2, <2>1, <3>1, AppendCounts
    <3>3. /\ \A st : Cardinality(HasStatus(st)) \in Nat
          /\ \A t : Cardinality(Lines(t)) \in Nat
      BY <1>2, FiniteLines DEF Lines, HasStatus
    <3> QED
      BY <2>1, <3>2, <3>3
  <2>4. TypeOK'
    BY <1>1, <1>2, <1>5, <2>2 DEF TypeOK
  <2>5. CountInv'
    BY <1>1, <1>2, <1>5, <2>3 DEF CountInv
  <2>6. ~writeErr' => Reported(Len(lines) - 1)'
    <3>1. ~writeErr => Reported(n)
      BY <1>2
    <3>2. Len(lines') - 1 = n
      BY <2>2
    <3> QED
      BY <1>1, <1>5, <2>2, <3>1, <3>2 DEF Reported
  <2>7. LinesInv'
    BY <1>1, <1>2, <2>2, <2>6 DEF LinesInv, Late, Ended
  <2>8. CodeInv'
    BY <1>1, <1>2, <1>3, <1>5, <2>1, <2>2 DEF CodeInv
  <2>9. Complete' <=> Complete
    BY <1>1, <1>5 DEF Complete
  <2>10. ZeroInv'
    BY <1>1, <1>2, <1>5, <2>2, <2>9 DEF ZeroInv, Late
  <2> QED
    BY <1>1, <2>4, <2>5, <2>7, <2>8, <2>10
    DEF IInv, EarlyInv, SeenInv, RunInv, Early
<1> QED
  BY <1>1, <1>4, <1>5

\* A signal arrives, or the signal goroutine takes it.
LEMMA SignalStep ==
  ASSUME IInv, UNCHANGED <<engineVars, dir, pc, outVars, rc>>,
         pc # "exited", pending' \in Signals \cup {"none"},
         \/ cause' = cause
         \/ cause = "none" /\ cause' \in Signals
  PROVE  IInv'
<1>1. /\ UNCHANGED <<conf, emitted, status, code, dir, pc, lines, writeErr, stats,
                     seen, rc>>
      /\ UNCHANGED <<outVars, dir, conf, emitted>>
  BY DEF engineVars, outVars
<1>2. /\ CountInv' <=> CountInv
      /\ \A t : Lines(t)' = Lines(t)
      /\ \A n : Reported(n)' <=> Reported(n)
      /\ NothingYet' <=> NothingYet
      /\ Complete' <=> Complete
  BY <1>1, Frame
<1>3. cause # "none" => cause' = cause
  OBVIOUS
<1>4. \A c : FromSignal(c) => FromSignal(c)'
  BY <1>3 DEF FromSignal, signalExitCode
<1>5. \A c : Explained(c) => Explained(c)'
  BY <1>1, <1>4 DEF Explained
<1>6. TypeOK'
  BY <1>1 DEF IInv, TypeOK
<1>7. SeenInv'
  <2>1. Engine!EmittedTargets' = Engine!EmittedTargets
    BY <1>1 DEF Engine!EmittedTargets
  <2> QED
    BY <1>1, <1>3, <2>1 DEF IInv, SeenInv
<1>8. EarlyInv' /\ LinesInv' /\ CountInv' /\ RunInv' /\ ZeroInv'
  BY <1>1, <1>2 DEF IInv, EarlyInv, LinesInv, RunInv, ZeroInv, Ended
<1>9. CodeInv'
  BY <1>1, <1>2, <1>3, <1>4, <1>5 DEF IInv, CodeInv
<1> QED
  BY <1>6, <1>7, <1>8, <1>9 DEF IInv

LEMMA NextIInv == IInv /\ [Next]_vars => IInv'
<1> SUFFICES ASSUME IInv, [Next]_vars PROVE IInv'
  OBVIOUS
<1>1. TypeOK
  BY DEF IInv
<1>2. CASE OptionsParsed \/ OptionsValid \/ TargetsLoaded \/ StdinRead
           \/ PreflightSucceeds
  BY <1>2, AdvanceStep DEF OptionsParsed, OptionsValid, TargetsLoaded, StdinRead,
                           PreflightSucceeds, Early
<1>3. ASSUME NEW c \in {1, 2}, pc \in Early, renderError(c)
      PROVE  IInv'
  <2>1. ErrorLine \in Line /\ ErrorLine.type = "error"
    BY DEF ErrorLine, Line
  <2>2. /\ pc' = "exit" /\ rc' = c
        /\ UNCHANGED <<engineVars, dir, pending, cause, stats, seen>>
        /\ Written(lines, ErrorLine) \/ WriteFails(lines, 0)
    BY <1>3 DEF renderError
  <2> QED
    BY <1>3, <2>1, <2>2, EarlyExit
<1>4. CASE UsageError
  BY <1>3, <1>4 DEF UsageError, Early
<1>5. CASE PreflightFails
  BY <1>3, <1>5 DEF PreflightFails, Early
<1>6. CASE DryRun
  <2>1. DryRunLine \in Line /\ DryRunLine.type = "dry_run"
    BY DEF DryRunLine, Line
  <2>2. /\ pc \in Early /\ pc' = "exit"
        /\ UNCHANGED <<engineVars, dir, pending, cause, stats, seen>>
        /\ \/ Written(lines, DryRunLine) /\ rc' = 0
           \/ WriteFails(lines, 0) /\ rc' = 1
    BY <1>6 DEF DryRun, Early
  <2> QED
    BY <2>1, <2>2, EarlyExit
<1>7. CASE \E r \in Engine!Report, res \in Result, failed \in BOOLEAN :
              EngineEmits(r, res, failed)
  BY <1>7, EmitStep
<1>8. CASE EngineReturns
  BY <1>8, ReturnStep
<1>9. CASE CheckCanceled
  BY <1>1, <1>9, QuietStep DEF CheckCanceled, TypeOK
<1>10. CASE CancelRestDone
  BY <1>1, <1>10, QuietStep DEF CancelRestDone, TypeOK
<1>11. CASE ApplyCause \/ Exit
  <2>1. rc' \in 0..255
    BY <1>1, <1>11 DEF ApplyCause, Exit, signalExitCode, TypeOK
  <2> QED
    BY <1>11, <2>1, QuietStep DEF ApplyCause, Exit
<1>12. CASE \E failed \in BOOLEAN : CancelRest(failed)
  BY <1>12, CancelRestStep
<1>13. CASE WriteSummary
  BY <1>13, SummaryStep
<1>14. CASE \E s \in Signals : Notify(s)
  BY <1>14, SignalStep DEF Notify
<1>15. CASE CancelCause
  BY <1>1, <1>15, SignalStep DEF CancelCause, TypeOK
<1>16. CASE Terminated \/ UNCHANGED vars
  <2>1. /\ UNCHANGED <<engineVars, conf, emitted, code, dir, pending, cause, pc,
                       lines, writeErr, stats, seen, rc>>
        /\ UNCHANGED <<outVars, dir, conf, emitted>>
    BY <1>16 DEF Terminated, vars, engineVars, outVars
  <2>2. /\ CountInv' <=> CountInv
        /\ \A t : Lines(t)' = Lines(t)
        /\ \A n : Reported(n)' <=> Reported(n)
        /\ NothingYet' <=> NothingYet
        /\ Complete' <=> Complete
    BY <2>1, Frame
  <2>3. \A c : FromSignal(c)' <=> FromSignal(c)
    BY <2>1 DEF FromSignal, signalExitCode
  <2>4. \A c : Explained(c)' <=> Explained(c)
    BY <2>1, <2>3 DEF Explained
  <2>5. Engine!EmittedTargets' = Engine!EmittedTargets
    BY <2>1 DEF Engine!EmittedTargets
  <2>6. TypeOK'
    BY <1>1, <2>1 DEF TypeOK
  <2>7. EarlyInv' /\ SeenInv' /\ LinesInv' /\ CountInv' /\ RunInv' /\ ZeroInv'
    BY <2>1, <2>2, <2>5
    DEF IInv, EarlyInv, SeenInv, LinesInv, RunInv, ZeroInv, Ended
  <2>8. CodeInv'
    BY <2>1, <2>2, <2>3, <2>4 DEF IInv, CodeInv
  <2> QED
    BY <2>6, <2>7, <2>8 DEF IInv
<1> QED
  BY <1>2, <1>4, <1>5, <1>6, <1>7, <1>8, <1>9, <1>10, <1>11, <1>12, <1>13, <1>14,
     <1>15, <1>16 DEF Next

LEMMA Invariant == Spec => []IInv
  BY InitIInv, NextIInv, PTL DEF Spec

-----------------------------------------------------------------------------
(* What follows from it.                                                    *)

\* The summary is the last line, and the lines before it are one per host.
LEMMA BeforeSummary ==
  ASSUME IInv, Ended, Lines("summary") # {}, ~writeErr
  PROVE  LET n == Len(lines) - 1 IN
         /\ n \in Nat /\ DOMAIN lines = 1..(n + 1)
         /\ Lines("summary") = {n + 1}
         /\ seen \in {{}, Targets} /\ n = Cardinality(seen)
         /\ \A i \in 1..n : /\ lines[i].type \in {"result", "torn"}
                            /\ lines[i].con \in seen
                            /\ dir => lines[i].type = "result"
         /\ \A w \in seen : \E i \in 1..n : lines[i].con = w
         /\ \A i, j \in 1..n : lines[i].con = lines[j].con => i = j
         /\ Lines("result") \cup Lines("torn") = 1..n
<1> DEFINE n == Len(lines) - 1
<1>1. \A i \in Lines("summary") : i = n + 1 /\ i \in DOMAIN lines
                                 /\ lines[i].type = "summary"
                                 /\ seen \in {{}, Targets} /\ Reported(n)
  <2>1. \A i \in Lines("summary") : i \in DOMAIN lines /\ lines[i].type = "summary"
    BY DEF Lines
  <2>2. Len(lines) \in Nat
    BY DEF IInv, TypeOK
  <2> QED
    BY <2>1, <2>2 DEF IInv, LinesInv
<1>2. Lines("summary") = {n + 1} /\ seen \in {{}, Targets} /\ Reported(n)
  BY <1>1
<1>3. DOMAIN lines = 1..(n + 1) /\ n \in Nat
  <2>1. Len(lines) \in Nat /\ DOMAIN lines = 1..Len(lines)
    BY DEF IInv, TypeOK
  <2>2. Len(lines) \in DOMAIN lines
    BY <1>1, <1>2, <2>1
  <2> QED
    BY <2>1, <2>2
<1>4. lines[n + 1].type = "summary"
  BY <1>1, <1>2
<1> HIDE DEF n
<1>5. /\ n = Cardinality(seen)
      /\ \A i \in 1..n : /\ lines[i].type \in {"result", "torn"}
                         /\ lines[i].con \in seen
                         /\ dir => lines[i].type = "result"
      /\ \A w \in seen : \E i \in 1..n : lines[i].con = w
      /\ \A i, j \in 1..n : lines[i].con = lines[j].con => i = j
  BY <1>2 DEF Reported
<1>6. /\ \A i \in 1..n : i \in DOMAIN lines
      /\ \A i \in DOMAIN lines : i \in 1..n \/ i = n + 1
  BY <1>3
<1>7. Lines("result") \cup Lines("torn") = 1..n
  BY <1>4, <1>5, <1>6 DEF Lines
<1> QED
  BY <1>2, <1>3, <1>5, <1>7 DEF n

LEMMA RunLinesHolds == IInv => RunLines
<1> SUFFICES ASSUME IInv, Ended, Lines("summary") # {}, ~writeErr
             PROVE  RunLines
  BY DEF RunLines, OneLinePerHost, SummaryAddsUp
<1> DEFINE n == Len(lines) - 1
<1>1. /\ n \in Nat /\ DOMAIN lines = 1..(n + 1)
      /\ Lines("summary") = {n + 1} /\ n + 1 = Len(lines)
      /\ seen \in {{}, Targets} /\ n = Cardinality(seen)
      /\ \A i \in 1..n : /\ lines[i].type \in {"result", "torn"}
                         /\ lines[i].con \in seen
                         /\ dir => lines[i].type = "result"
      /\ \A w \in seen : \E i \in 1..n : lines[i].con = w
      /\ \A i, j \in 1..n : lines[i].con = lines[j].con => i = j
      /\ Lines("result") \cup Lines("torn") = 1..n
  BY BeforeSummary DEF IInv, TypeOK
<1> HIDE DEF n
<1>2. Refused \/ seen = Targets
  BY <1>1 DEF Refused
<1>3. OneLinePerHost
  <2>1. ASSUME seen = Targets, NEW w \in Targets
        PROVE  Cardinality({i \in Lines("result") \cup Lines("torn") :
                              lines[i].con = w}) = 1
    <3>1. PICK k \in 1..n : lines[k].con = w
      BY <1>1, <2>1
    <3>2. {i \in Lines("result") \cup Lines("torn") : lines[i].con = w} = {k}
      BY <1>1, <3>1
    <3> QED
      BY <3>2, FS_Singleton
  <2>2. Refused => Len(lines) = 1
    BY <1>1, FS_EmptySet DEF Refused
  <2>3. dir => Lines("torn") = {}
    <3>1. SUFFICES ASSUME dir, NEW i \in Lines("torn") PROVE FALSE
      OBVIOUS
    <3>2. i \in 1..n /\ lines[i].type = "torn"
      BY <1>1, <3>1 DEF Lines
    <3> QED
      BY <1>1, <3>1, <3>2
  <2> QED
    BY <1>1, <1>2, <2>1, <2>2, <2>3 DEF OneLinePerHost
<1>4. SummaryAddsUp
  <2>1. seen = Targets => stats.succeeded + stats.failed + stats.canceled = NumTargets
    BY NumberOfTargets DEF IInv, CountInv
  <2> QED
    BY <1>2, <2>1 DEF SummaryAddsUp, IInv, CountInv
<1> QED
  BY <1>3, <1>4 DEF RunLines

LEMMA ZeroHolds == IInv => ZeroIsSuccess
<1> SUFFICES ASSUME IInv, pc = "exited", rc = 0
             PROVE  /\ ~writeErr
                    /\ stats.canceled = 0 /\ stats.localErrors = 0
                    /\ \/ lines = <<DryRunLine>> /\ emitted = <<>> /\ seen = {}
                       \/ /\ Cardinality(Lines("result")) = NumTargets
                          /\ conf.policy # "always-zero" =>
                                stats.succeeded = NumTargets
  BY DEF ZeroIsSuccess
<1>1. \/ lines = <<DryRunLine>> /\ NothingYet
      \/ Complete /\ Lines("summary") # {}
  BY DEF IInv, ZeroInv, Ended
<1>2. CASE lines = <<DryRunLine>> /\ NothingYet
  BY <1>2 DEF NothingYet
<1>3. CASE Complete /\ Lines("summary") # {}
  <2>1. /\ ~writeErr /\ stats.canceled = 0 /\ stats.localErrors = 0
        /\ seen = Targets
        /\ conf.policy # "always-zero" => stats.succeeded = NumTargets
    BY <1>3 DEF Complete
  <2> DEFINE n == Len(lines) - 1
  <2>2. /\ n \in Nat /\ n = NumTargets
        /\ Lines("result") \cup Lines("torn") = 1..n
    BY <1>3, <2>1, BeforeSummary, NumberOfTargets DEF Ended
  <2>3. Lines("torn") = {}
    <3>1. stats.localErrors >= Cardinality(Lines("torn"))
      BY <2>1 DEF IInv, CountInv
    <3>2. IsFiniteSet(Lines("torn")) /\ Cardinality(Lines("torn")) \in Nat
      BY FiniteLines DEF IInv, TypeOK, Lines
    <3>3. Cardinality(Lines("torn")) = 0
      BY <2>1, <3>1, <3>2
    <3> QED
      BY <3>2, <3>3, FS_EmptySet
  <2> HIDE DEF n
  <2>4. Lines("result") = 1..n
    BY <2>2, <2>3
  <2>5. Cardinality(1..n) = n
    BY <2>2, FS_Interval
  <2> QED
    BY <2>1, <2>2, <2>4, <2>5
<1> QED
  BY <1>1, <1>2, <1>3

LEMMA RunExitHolds == IInv => RunExit
<1> SUFFICES ASSUME IInv PROVE RunExit
  OBVIOUS
<1>1. ASSUME pc = "exited", NEW i \in Lines("summary")
      PROVE  /\ lines[i].code # rc => lines[i].code = code /\ cause # "none"
             /\ stats.canceled > 0 => lines[i].code = rc /\ rc \in {130, 143}
  <2>1. /\ Explained(lines[i].code)
        /\ lines[i].code # rc => FromSignal(rc)
        /\ TypeOK
    BY DEF IInv, CodeInv
  <2>2. FromSignal(rc) /\ FromSignal(lines[i].code) => lines[i].code = rc
    BY <2>1, SignalCode DEF FromSignal
  <2>3. FromSignal(lines[i].code) => lines[i].code \in {130, 143}
    BY <2>1, SignalCode DEF FromSignal
  <2>4. FromSignal(rc) => cause # "none"
    BY DEF FromSignal
  <2> QED
    BY <2>1, <2>2, <2>3, <2>4 DEF Explained
<1>2. SummaryOrLateSignal
  BY <1>1 DEF SummaryOrLateSignal
<1> QED
  BY <1>2, ZeroHolds DEF RunExit

-----------------------------------------------------------------------------
(* The theorems.                                                            *)

\* For every number of targets: the lines before the summary are one per
\* host, with --output-dir all of them complete, and the summary counts them
\* (cli.go:557-659).
THEOREM RunLinesTheorem == Spec => []RunLines
  BY Invariant, RunLinesHolds, PTL

\* For every number of targets and every policy: exit code 0 is given only if
\* every host has its complete line, none was canceled, no call of the handler
\* failed and, but for always-zero, every host succeeded, or to a dry run; and
\* the exit code is the summary's unless a signal came after its code was
\* computed (cli.go:592-598, main.go:234-262).
THEOREM RunExitTheorem == Spec => []RunExit
  BY Invariant, RunExitHolds, PTL

-----------------------------------------------------------------------------
(* OutputFiles                                                              *)

LEMMA PathsDiffer ==
  ASSUME NEW g \in Files!Hosts, NEW h \in Files!Hosts,
         NEW s \in Files!Streams, NEW t \in Files!Streams,
         Files!Path(g, s) = Files!Path(h, t)
  PROVE  g = h /\ s = t
BY DEF Files!Path

\* The first k pieces of an output.
Piece(h, s, k) == SubSeq(Files!Whole(h, s), 1, k)

LEMMA PieceLength ==
  ASSUME NEW h, NEW s, size[s] \in Nat, NEW k \in 0..size[s]
  PROVE  /\ Len(Piece(h, s, k)) = k
         /\ k = size[s] => Piece(h, s, k) = Files!Whole(h, s)
<1> DEFINE w == Files!Whole(h, s)
<1>1. w = [i \in 1..size[s] |-> <<h, s, i>>] /\ Len(w) = size[s]
  BY DEF Files!Whole
<1>2. w \in Seq({<<h, s, i>> : i \in 1..size[s]})
  BY <1>1
<1> HIDE DEF w
<1>3. Len(SubSeq(w, 1, k)) = k /\ (k = size[s] => SubSeq(w, 1, k) = w)
  BY <1>1, <1>2
<1> QED
  BY <1>3 DEF Piece, w

LEMMA NoPiece == ASSUME NEW h, NEW s PROVE Piece(h, s, 0) = <<>>
BY DEF Piece, Files!Whole

\* The files of a host hold its outputs.
Kept(h) == \A s \in Files!Streams :
              entries[Files!Path(h, s)] = Files!File(Files!Whole(h, s))

FileSteps == {"prepare", "open stdout", "copy stdout", "open stderr",
             "copy stderr", "line"}

AllPaths == {Files!Path(h, s) : h \in Files!Hosts, s \in Files!Streams}

FilesTypes ==
    /\ json \in BOOLEAN /\ size \in [Files!Streams -> Nat]
    /\ todo \subseteq Files!Hosts
    /\ lines \in Seq(Files!Hosts \X {"files", "failed"})
    /\ DOMAIN entries = AllPaths
    /\ step \in FileSteps \cup {"preflight", "refused", "result", "done"}
    /\ IF step \in FileSteps THEN cur \in Files!Hosts \ todo ELSE cur = 0
    /\ step \in {"preflight", "refused"} => lines = <<>> /\ todo = Files!Hosts

\* The lines are about different hosts that have been handled.
LinesKnown ==
    /\ \A i \in DOMAIN lines : lines[i][1] \notin todo /\ lines[i][1] # cur
    /\ \A i, j \in DOMAIN lines : lines[i][1] = lines[j][1] => i = j
    /\ ~json => \A i \in DOMAIN lines : lines[i][2] = "files"

\* The file that is being written holds the pieces copied so far.
CopyKnown ==
    /\ step = "copy stdout" => \E k \in 0..size["stdout"] :
          entries[Files!Path(cur, "stdout")] = Files!File(Piece(cur, "stdout", k))
    /\ step = "copy stderr" => \E k \in 0..size["stderr"] :
          entries[Files!Path(cur, "stderr")] = Files!File(Piece(cur, "stderr", k))
    /\ step \in {"open stderr", "copy stderr", "line"} =>
          entries[Files!Path(cur, "stdout")] = Files!File(Files!Whole(cur, "stdout"))
    /\ step = "line" =>
          entries[Files!Path(cur, "stderr")] = Files!File(Files!Whole(cur, "stderr"))

\* The files that a line names hold the outputs.
LinesKept == \A i \in DOMAIN lines : lines[i][2] = "files" => Kept(lines[i][1])

FilesInv == FilesTypes /\ LinesKnown /\ CopyKnown /\ LinesKept

LEMMA FileLineTypes ==
  ASSUME FilesTypes
  PROVE  \A i \in DOMAIN lines : i \in 1..Len(lines) /\ lines[i][1] \in Files!Hosts
BY DEF FilesTypes

\* Only the files of the host in progress change.
LEMMA KeptStays ==
  ASSUME FilesTypes, NEW h \in Files!Hosts, Kept(h), UNCHANGED Files!given,
         NEW s \in Files!Streams, NEW x,
         entries' = entries \/
            (cur \in Files!Hosts /\ h # cur
             /\ entries' = [entries EXCEPT ![Files!Path(cur, s)] = x])
  PROVE  Kept(h)'
<1>1. ASSUME NEW t \in Files!Streams
      PROVE  entries'[Files!Path(h, t)] = entries[Files!Path(h, t)]
  <2>1. CASE entries' = entries
    BY <2>1
  <2>2. CASE /\ cur \in Files!Hosts /\ h # cur
             /\ entries' = [entries EXCEPT ![Files!Path(cur, s)] = x]
    <3>1. Files!Path(h, t) # Files!Path(cur, s)
      BY <2>2, PathsDiffer
    <3>2. Files!Path(h, t) \in DOMAIN entries
      BY DEF FilesTypes, AllPaths
    <3> QED
      BY <2>2, <3>1, <3>2
  <2> QED
    BY <2>1, <2>2
<1>2. ASSUME NEW t \in Files!Streams
      PROVE  /\ Files!Path(h, t)' = Files!Path(h, t)
             /\ Files!Whole(h, t)' = Files!Whole(h, t)
  BY DEF Files!Path, Files!Whole, Files!given
<1>3. ASSUME NEW t \in Files!Streams
      PROVE  entries'[Files!Path(h, t)'] = Files!File(Files!Whole(h, t)')
  BY <1>1, <1>2 DEF Kept
<1> QED
  BY <1>3 DEF Kept, Files!File

\* A line that names files is added when they hold the outputs.
LineAdded(newLines) ==
    \/ newLines = lines
    \/ cur \in Files!Hosts /\ json /\ newLines = Append(lines, <<cur, "failed">>)
    \/ cur \in Files!Hosts /\ Kept(cur) /\ newLines = Append(lines, <<cur, "files">>)

LEMMA LinesStayKept ==
  ASSUME FilesInv, UNCHANGED Files!given, LineAdded(lines'),
         NEW s \in Files!Streams, NEW x,
         \/ entries' = entries
         \/ /\ cur \in Files!Hosts
            /\ entries' = [entries EXCEPT ![Files!Path(cur, s)] = x]
            /\ lines' # Append(lines, <<cur, "files">>)
  PROVE  LinesKept'
<1>1. ASSUME NEW h \in Files!Hosts, Kept(h), h # cur \/ entries' = entries
      PROVE  Kept(h)'
  BY <1>1, KeptStays DEF FilesInv
<1>2. \A i \in DOMAIN lines : lines[i][1] \in Files!Hosts /\ lines[i][1] # cur
  BY FileLineTypes DEF FilesInv, LinesKnown
<1>3. \A i \in DOMAIN lines : lines[i][2] = "files" => Kept(lines[i][1])
  BY DEF FilesInv, LinesKept
<1> HIDE DEF Kept
<1>4. ASSUME NEW i \in DOMAIN lines', lines'[i][2] = "files"
      PROVE  Kept(lines[i][1])'
  <2>1. PICK h \in Files!Hosts :
            h = lines'[i][1] /\ Kept(h) /\ (h # cur \/ entries' = entries)
    <3>1. CASE i \in DOMAIN lines /\ lines'[i] = lines[i]
      BY <3>1, <1>2, <1>3, <1>4
    <3>2. CASE /\ lines'[i] = <<cur, "files">> /\ cur \in Files!Hosts
               /\ Kept(cur) /\ lines' = Append(lines, <<cur, "files">>)
      BY <3>2
    <3>3. lines \in Seq(Files!Hosts \X {"files", "failed"})
      BY DEF FilesInv, FilesTypes
    <3>4. CASE lines' = Append(lines, <<cur, "failed">>)
      <4>1. i \in DOMAIN lines /\ lines'[i] = lines[i]
        BY <3>3, <3>4, <1>4
      <4> QED
        BY <4>1, <3>1
    <3>5. CASE /\ lines' = Append(lines, <<cur, "files">>)
               /\ cur \in Files!Hosts /\ Kept(cur)
      <4>1. \/ lines'[i] = <<cur, "files">>
            \/ i \in DOMAIN lines /\ lines'[i] = lines[i]
        BY <3>3, <3>5, <1>4
      <4> QED
        BY <4>1, <3>1, <3>2, <3>5
    <3>6. CASE lines' = lines
      BY <3>1, <3>6, <1>4
    <3> QED
      BY <3>4, <3>5, <3>6 DEF LineAdded
  <2>2. Kept(h)'
    BY <2>1, <1>1
  <2> QED
    BY <2>1, <2>2 DEF Kept, Files!Path, Files!Whole, Files!File
<1> QED
  BY <1>4 DEF LinesKept

LEMMA LinesStayKnown ==
  ASSUME LinesKnown, FilesTypes, UNCHANGED json, LineAdded(lines'),
         todo' \subseteq todo,
         (cur' = cur /\ lines' = lines) \/ cur' \in {0} \cup todo
  PROVE  LinesKnown'
<1>1. \A i \in DOMAIN lines : /\ lines[i][1] \notin todo /\ lines[i][1] # cur
                              /\ lines[i][1] \in Files!Hosts
  BY FileLineTypes DEF LinesKnown
<1>2. lines \in Seq(Files!Hosts \X {"files", "failed"})
  BY DEF FilesTypes
<1>3. CASE lines' = lines
  <2>1. \A i \in DOMAIN lines : lines[i][1] \notin todo' /\ lines[i][1] # cur'
    BY <1>1, <1>3 DEF Files!Hosts
  <2> QED
    BY <2>1, <1>3 DEF LinesKnown
<1>4. ASSUME NEW o, lines' = Append(lines, <<cur, o>>), cur \in Files!Hosts \ todo,
             cur' \in {0} \cup todo, json \/ o = "files"
      PROVE  LinesKnown'
  <2>1. /\ DOMAIN lines' = DOMAIN lines \cup {Len(lines) + 1}
        /\ \A i \in DOMAIN lines : lines'[i] = lines[i] /\ i # Len(lines) + 1
        /\ lines'[Len(lines) + 1] = <<cur, o>>
    BY <1>2, <1>4
  <2>2. \A i \in DOMAIN lines' : lines'[i][1] \notin todo' /\ lines'[i][1] # cur'
    BY <1>1, <1>4, <2>1 DEF Files!Hosts
  <2>3. \A i, j \in DOMAIN lines' : lines'[i][1] = lines'[j][1] => i = j
    BY <1>1, <2>1 DEF LinesKnown
  <2>4. ~json' => \A i \in DOMAIN lines' : lines'[i][2] = "files"
    BY <1>4, <2>1 DEF LinesKnown
  <2> QED
    BY <2>2, <2>3, <2>4 DEF LinesKnown
<1>5. cur \in Files!Hosts => cur \notin todo
  BY DEF FilesTypes, Files!Hosts
<1> QED
  BY <1>3, <1>4, <1>5 DEF LineAdded

\* An EXCEPT keeps the paths.
LEMMA SamePaths ==
  ASSUME FilesTypes, UNCHANGED targets, NEW s \in Files!Streams, NEW x,
         \/ entries' = entries
         \/ entries' = [entries EXCEPT ![Files!Path(cur, s)] = x]
  PROVE  (DOMAIN entries = AllPaths)'
<1>1. DOMAIN entries' = DOMAIN entries
  OBVIOUS
<1> QED
  BY <1>1 DEF FilesTypes, AllPaths, Files!Path

\* The result of a host has been handled.
LEMMA HandledStep ==
  ASSUME FilesInv, step \in FileSteps, NEW s \in Files!Streams, NEW x,
         \/ entries' = entries
         \/ /\ entries' = [entries EXCEPT ![Files!Path(cur, s)] = x]
            /\ lines' # Append(lines, <<cur, "files">>),
         NEW newLines, LineAdded(lines \o newLines), Files!Handled(newLines)
  PROVE  FilesInv'
<1>1. /\ cur \in Files!Hosts \ todo /\ cur' = 0 /\ step' = "result"
      /\ UNCHANGED <<json, size, targets, directory, todo>>
      /\ LineAdded(lines')
  BY DEF FilesInv, FilesTypes, Files!Handled, Files!given
<1>2. LinesKept'
  BY <1>1, LinesStayKept DEF Files!given
<1>3. LinesKnown'
  BY <1>1, LinesStayKnown DEF FilesInv
<1>4. CopyKnown'
  BY <1>1 DEF CopyKnown
<1>5. (DOMAIN entries = AllPaths)'
  BY <1>1, SamePaths DEF FilesInv
<1>6. lines' \in Seq(Files!Hosts \X {"files", "failed"})
  <2>1. lines \in Seq(Files!Hosts \X {"files", "failed"})
    BY DEF FilesInv, FilesTypes
  <2>2. \A o \in {"files", "failed"} :
           Append(lines, <<cur, o>>) \in Seq(Files!Hosts \X {"files", "failed"})
    BY <1>1, <2>1
  <2> QED
    BY <1>1, <2>1, <2>2 DEF LineAdded
<1>7. FilesTypes'
  BY <1>1, <1>5, <1>6 DEF FilesInv, FilesTypes, FileSteps
<1> QED
  BY <1>2, <1>3, <1>4, <1>7 DEF FilesInv

\* A step of the handler that adds no line.
LEMMA FilesQuietStep ==
  ASSUME FilesInv, UNCHANGED <<Files!given, lines>>, NEW s \in Files!Streams, NEW x,
         \/ entries' = entries
         \/ /\ entries' = [entries EXCEPT ![Files!Path(cur, s)] = x]
            /\ cur \in Files!Hosts,
         todo' \subseteq todo,
         cur' = cur \/ cur' \in todo,
         step' \in FileSteps => cur' \in Files!Hosts \ todo',
         step' \notin FileSteps => cur' = 0,
         step' \in FileSteps \cup {"preflight", "refused", "result", "done"},
         step' \in {"preflight", "refused"} => step = "preflight" /\ UNCHANGED todo,
         CopyKnown'
  PROVE  FilesInv'
<1>1. LinesKept'
  BY LinesStayKept DEF LineAdded
<1>2. LinesKnown'
  BY LinesStayKnown DEF FilesInv, LineAdded, Files!given
<1>3. (DOMAIN entries = AllPaths)'
  BY SamePaths DEF FilesInv, Files!given
<1>4. FilesTypes'
  BY <1>3 DEF FilesInv, FilesTypes, Files!given
<1> QED
  BY <1>1, <1>2, <1>4 DEF FilesInv

\* The paths and the outputs of the host in progress.
LEMMA GivenStays ==
  ASSUME UNCHANGED <<Files!given, cur>>
  PROVE  \A s \in Files!Streams :
            /\ Files!Path(cur, s)' = Files!Path(cur, s)
            /\ Files!Whole(cur, s)' = Files!Whole(cur, s)
BY DEF Files!Path, Files!Whole, Files!given

LEMMA OpenStep == ASSUME FilesInv, Files!OpenFile PROVE FilesInv'
<1> DEFINE p == Files!Path(cur, "stdout")
           q == Files!Path(cur, "stderr")
<1>1. /\ UNCHANGED <<Files!given, directory, todo, cur, lines>>
      /\ cur \in Files!Hosts \ todo /\ size["stdout"] \in Nat /\ size["stderr"] \in Nat
      /\ DOMAIN entries = AllPaths
  BY DEF FilesInv, FilesTypes, Files!OpenFile, FileSteps, Files!Streams
<1>2. p # q /\ p \in DOMAIN entries /\ q \in DOMAIN entries
  BY <1>1, PathsDiffer DEF AllPaths, Files!Streams
<1>3. p' = p /\ q' = q /\ (Files!Whole(cur, "stdout")' = Files!Whole(cur, "stdout"))
  BY <1>1, GivenStays DEF Files!Streams
<1>4. /\ Piece(cur, "stdout", 0)' = <<>> /\ Piece(cur, "stderr", 0)' = <<>>
      /\ size' = size
  BY <1>1 DEF Piece, Files!Whole, Files!given
<1>5. CASE step = "open stdout"
  <2>1. /\ entries' = [entries EXCEPT ![p] = Files!File(<<>>)]
        /\ step' = "copy stdout"
    BY <1>5 DEF Files!OpenFile, Files!Here, Files!Stream
  <2>2. entries'[p] = Files!File(<<>>)
    BY <1>2, <2>1
  <2>3. CopyKnown'
    <3>1. entries'[p'] = Files!File(Piece(cur, "stdout", 0)')
      BY <1>3, <1>4, <2>2
    <3>2. 0 \in 0..size'["stdout"]
      BY <1>1, <1>4
    <3>3. (\E k \in 0..size["stdout"] :
              entries[p] = Files!File(Piece(cur, "stdout", k)))'
      BY <3>1, <3>2 DEF Files!File
    <3> QED
      BY <2>1, <3>3 DEF CopyKnown
  <2> QED
    BY <1>1, <1>5, <2>1, <2>3, FilesQuietStep DEF FileSteps, Files!Streams
<1>6. CASE step = "open stderr"
  <2>1. /\ entries' = [entries EXCEPT ![q] = Files!File(<<>>)]
        /\ step' = "copy stderr"
    BY <1>6 DEF Files!OpenFile, Files!Here, Files!Stream
  <2>2. entries'[q] = Files!File(<<>>) /\ entries'[p] = entries[p]
    BY <1>2, <2>1
  <2>3. CopyKnown'
    <3>1. entries'[q'] = Files!File(Piece(cur, "stderr", 0)')
      BY <1>3, <1>4, <2>2
    <3>2. 0 \in 0..size'["stderr"]
      BY <1>1, <1>4
    <3>3. (\E k \in 0..size["stderr"] :
              entries[q] = Files!File(Piece(cur, "stderr", k)))'
      BY <3>1, <3>2 DEF Files!File
    <3>4. entries[p] = Files!File(Files!Whole(cur, "stdout"))
      BY <1>6 DEF FilesInv, CopyKnown
    <3>5. (entries[p] = Files!File(Files!Whole(cur, "stdout")))'
      BY <3>4, <2>2, <1>3 DEF Files!File
    <3> QED
      BY <2>1, <3>3, <3>5 DEF CopyKnown
  <2> QED
    BY <1>1, <1>6, <2>1, <2>3, FilesQuietStep DEF FileSteps, Files!Streams
<1> QED
  BY <1>5, <1>6 DEF Files!OpenFile

\* One more piece of an output is in its file.
LEMMA NextPiece ==
  ASSUME NEW s \in Files!Streams, size[s] \in Nat, NEW k \in 0..size[s], NEW e,
         e = Files!File(Piece(cur, s, k)), Len(e.data) < size[s]
  PROVE  /\ k + 1 \in 0..size[s]
         /\ SubSeq(Files!Whole(cur, s), 1, Len(e.data) + 1) = Piece(cur, s, k + 1)
<1>1. Len(e.data) = k
  BY PieceLength DEF Files!File
<1> QED
  BY <1>1 DEF Piece

LEMMA LastPiece ==
  ASSUME NEW s \in Files!Streams, size[s] \in Nat, NEW k \in 0..size[s], NEW e,
         e = Files!File(Piece(cur, s, k)), Len(e.data) = size[s]
  PROVE  e = Files!File(Files!Whole(cur, s))
<1>1. e.data = Piece(cur, s, k)
  BY DEF Files!File
<1>2. Len(Piece(cur, s, k)) = k
  BY PieceLength
<1>3. Piece(cur, s, k) = Files!Whole(cur, s)
  BY <1>1, <1>2, PieceLength
<1> QED
  BY <1>3

LEMMA CopyStep == ASSUME FilesInv, Files!CopyPiece PROVE FilesInv'
<1> DEFINE p == Files!Path(cur, "stdout")
           q == Files!Path(cur, "stderr")
<1>1. /\ UNCHANGED <<Files!given, directory, todo, cur, lines, step>>
      /\ cur \in Files!Hosts \ todo /\ size["stdout"] \in Nat /\ size["stderr"] \in Nat
      /\ DOMAIN entries = AllPaths
  BY DEF FilesInv, FilesTypes, Files!CopyPiece, FileSteps, Files!Streams
<1>2. p # q /\ p \in DOMAIN entries /\ q \in DOMAIN entries
  BY <1>1, PathsDiffer DEF AllPaths, Files!Streams
<1>3. p' = p /\ q' = q /\ (Files!Whole(cur, "stdout")' = Files!Whole(cur, "stdout"))
  BY <1>1, GivenStays DEF Files!Streams
<1>4. /\ \A k : Piece(cur, "stdout", k)' = Piece(cur, "stdout", k)
      /\ \A k : Piece(cur, "stderr", k)' = Piece(cur, "stderr", k)
      /\ size' = size
  BY <1>1 DEF Piece, Files!Whole, Files!given
<1>5. CASE step = "copy stdout"
  <2>1. /\ Len(entries[p].data) < size["stdout"]
        /\ entries' = [entries EXCEPT ![p] =
                          Files!File(SubSeq(Files!Whole(cur, "stdout"), 1,
                                            Len(entries[p].data) + 1))]
    BY <1>5 DEF Files!CopyPiece, Files!Here, Files!Stream
  <2>2. PICK k \in 0..size["stdout"] :
            entries[p] = Files!File(Piece(cur, "stdout", k))
    BY <1>5 DEF FilesInv, CopyKnown
  <2>3. /\ k + 1 \in 0..size["stdout"]
        /\ entries'[p] = Files!File(Piece(cur, "stdout", k + 1))
    BY <1>1, <1>2, <2>1, <2>2, NextPiece DEF Files!Streams
  <2>4. (\E j \in 0..size["stdout"] :
            entries[p] = Files!File(Piece(cur, "stdout", j)))'
    BY <1>3, <1>4, <2>3 DEF Files!File
  <2>5. CopyKnown'
    BY <1>1, <1>5, <2>4 DEF CopyKnown
  <2> QED
    BY <1>1, <1>5, <2>1, <2>5, FilesQuietStep DEF FileSteps, Files!Streams
<1>6. CASE step = "copy stderr"
  <2>1. /\ Len(entries[q].data) < size["stderr"]
        /\ entries' = [entries EXCEPT ![q] =
                          Files!File(SubSeq(Files!Whole(cur, "stderr"), 1,
                                            Len(entries[q].data) + 1))]
    BY <1>6 DEF Files!CopyPiece, Files!Here, Files!Stream
  <2>2. PICK k \in 0..size["stderr"] :
            entries[q] = Files!File(Piece(cur, "stderr", k))
    BY <1>6 DEF FilesInv, CopyKnown
  <2>3. /\ k + 1 \in 0..size["stderr"]
        /\ entries'[q] = Files!File(Piece(cur, "stderr", k + 1))
        /\ entries'[p] = entries[p]
    BY <1>1, <1>2, <2>1, <2>2, NextPiece DEF Files!Streams
  <2>4. (\E j \in 0..size["stderr"] :
            entries[q] = Files!File(Piece(cur, "stderr", j)))'
    BY <1>3, <1>4, <2>3 DEF Files!File
  <2>5. entries[p] = Files!File(Files!Whole(cur, "stdout"))
    BY <1>6 DEF FilesInv, CopyKnown
  <2>6. (entries[p] = Files!File(Files!Whole(cur, "stdout")))'
    BY <2>5, <2>3, <1>3 DEF Files!File
  <2>7. CopyKnown'
    BY <1>1, <1>6, <2>4, <2>6 DEF CopyKnown
  <2> QED
    BY <1>1, <1>6, <2>1, <2>7, FilesQuietStep DEF FileSteps, Files!Streams
<1> QED
  BY <1>5, <1>6 DEF Files!CopyPiece

LEMMA CloseStep == ASSUME FilesInv, Files!CloseFile PROVE FilesInv'
<1> DEFINE p == Files!Path(cur, "stdout")
           q == Files!Path(cur, "stderr")
<1>1. /\ UNCHANGED <<Files!given, directory, todo, cur, lines, entries>>
      /\ cur \in Files!Hosts \ todo /\ size["stdout"] \in Nat /\ size["stderr"] \in Nat
  BY DEF FilesInv, FilesTypes, Files!CloseFile, FileSteps, Files!Streams
<1>2. /\ p' = p /\ Files!Whole(cur, "stdout")' = Files!Whole(cur, "stdout")
      /\ q' = q /\ Files!Whole(cur, "stderr")' = Files!Whole(cur, "stderr")
  BY <1>1, GivenStays DEF Files!Streams
<1>3. CASE step = "copy stdout"
  <2>1. Len(entries[p].data) = size["stdout"] /\ step' = "open stderr"
    BY <1>3 DEF Files!CloseFile, Files!Here, Files!Stream
  <2>2. PICK k \in 0..size["stdout"] :
            entries[p] = Files!File(Piece(cur, "stdout", k))
    BY <1>3 DEF FilesInv, CopyKnown
  <2>4. entries[p] = Files!File(Files!Whole(cur, "stdout"))
    BY <1>1, <2>1, <2>2, LastPiece DEF Files!Streams
  <2>5. CopyKnown'
    BY <1>1, <1>2, <2>1, <2>4 DEF CopyKnown, Files!File
  <2> QED
    BY <1>1, <1>3, <2>1, <2>5, FilesQuietStep DEF FileSteps, Files!Streams
<1>4. CASE step = "copy stderr"
  <2>1. Len(entries[q].data) = size["stderr"] /\ step' = "line"
    BY <1>4 DEF Files!CloseFile, Files!Here, Files!Stream
  <2>2. PICK k \in 0..size["stderr"] :
            entries[q] = Files!File(Piece(cur, "stderr", k))
    BY <1>4 DEF FilesInv, CopyKnown
  <2>3. entries[q] = Files!File(Files!Whole(cur, "stderr"))
    BY <1>1, <2>1, <2>2, LastPiece DEF Files!Streams
  <2>4. entries[p] = Files!File(Files!Whole(cur, "stdout"))
    BY <1>4 DEF FilesInv, CopyKnown
  <2>5. CopyKnown'
    BY <1>1, <1>2, <2>1, <2>3, <2>4 DEF CopyKnown, Files!File
  <2> QED
    BY <1>1, <1>4, <2>1, <2>5, FilesQuietStep DEF FileSteps, Files!Streams
<1> QED
  BY <1>3, <1>4 DEF Files!CloseFile

LEMMA FailsStep == ASSUME FilesInv, Files!FileFails PROVE FilesInv'
<1>1. step \in FileSteps /\ cur \in Files!Hosts \ todo
  BY DEF Files!FileFails, FileSteps, FilesInv, FilesTypes
<1>2. Files!Stream \in Files!Streams
  BY DEF Files!Stream, Files!Streams
<1>3. \/ entries' = entries
      \/ entries' = [entries EXCEPT ![Files!Path(cur, Files!Stream)] = Files!File(<<>>)]
  BY DEF Files!FileFails, Files!Here
<1>4. lines \in Seq(Files!Hosts \X {"files", "failed"})
  BY DEF FilesInv, FilesTypes
<1>5. CASE json /\ Files!Handled(<<<<cur, "failed">>>>)
  <2>1. lines \o <<<<cur, "failed">>>> = Append(lines, <<cur, "failed">>)
    BY <1>1, <1>4
  <2>2. LineAdded(lines \o <<<<cur, "failed">>>>)
    BY <1>1, <1>5, <2>1 DEF LineAdded
  <2>3. lines' # Append(lines, <<cur, "files">>)
    <3>1. lines' = Append(lines, <<cur, "failed">>)
      BY <1>5, <2>1 DEF Files!Handled
    <3> QED
      BY <3>1, <1>1, <1>4
  <2> QED
    BY <1>1, <1>2, <1>3, <1>5, <2>2, <2>3, HandledStep
<1>6. CASE Files!Handled(<<>>)
  <2>1. lines \o <<>> = lines
    BY <1>4
  <2>2. LineAdded(lines \o <<>>)
    BY <2>1 DEF LineAdded
  <2>3. lines' # Append(lines, <<cur, "files">>)
    BY <1>1, <1>4, <1>6, <2>1 DEF Files!Handled
  <2> QED
    BY <1>1, <1>2, <1>3, <1>6, <2>2, <2>3, HandledStep
<1> QED
  BY <1>5, <1>6 DEF Files!FileFails

LEMMA LineStep == ASSUME FilesInv, Files!WriteLine PROVE FilesInv'
<1>1. /\ step = "line" /\ step \in FileSteps /\ cur \in Files!Hosts \ todo
      /\ entries' = entries
  BY DEF Files!WriteLine, FileSteps, FilesInv, FilesTypes
<1>2. lines \in Seq(Files!Hosts \X {"files", "failed"})
  BY DEF FilesInv, FilesTypes
<1>3. Kept(cur)
  BY <1>1 DEF FilesInv, CopyKnown, Kept, Files!Streams
<1>4. LineAdded(lines \o <<>>) /\ LineAdded(lines \o <<<<cur, "files">>>>)
  <2>1. /\ lines \o <<>> = lines
        /\ lines \o <<<<cur, "files">>>> = Append(lines, <<cur, "files">>)
    BY <1>1, <1>2
  <2> QED
    BY <1>1, <1>3, <2>1 DEF LineAdded
<1>5. json => LineAdded(lines \o <<<<cur, "failed">>>>)
  <2>1. lines \o <<<<cur, "failed">>>> = Append(lines, <<cur, "failed">>)
    BY <1>1, <1>2
  <2> QED
    BY <1>1, <2>1 DEF LineAdded
<1>6. "stdout" \in Files!Streams
  BY DEF Files!Streams
<1> QED
  BY <1>1, <1>4, <1>5, <1>6, HandledStep DEF Files!WriteLine

LEMMA FilesStutter == ASSUME FilesInv, UNCHANGED Files!vars PROVE FilesInv'
<1>1. UNCHANGED <<json, targets, size, entries, todo, cur, step, lines>>
  BY DEF Files!vars, Files!given
<1>2. FilesTypes'
  BY <1>1 DEF FilesInv, FilesTypes, AllPaths, Files!Path
<1>3. LinesKnown'
  BY <1>1 DEF FilesInv, LinesKnown
<1>4. CopyKnown'
  BY <1>1 DEF FilesInv, CopyKnown, Piece, Files!Path, Files!Whole, Files!File
<1>5. LinesKept'
  BY <1>1 DEF FilesInv, LinesKept, Kept, Files!Path, Files!Whole, Files!File
<1> QED
  BY <1>2, <1>3, <1>4, <1>5 DEF FilesInv

LEMMA FilesStep == ASSUME FilesInv, Files!Next PROVE FilesInv'
<1>1. "stdout" \in Files!Streams
  BY DEF Files!Streams
<1>2. ASSUME UNCHANGED <<Files!given, lines, entries>>,
             \/ Files!Preflight \/ Files!PreflightFails \/ Files!Prepare
             \/ Files!AllHandled \/ \E host \in Files!Hosts : Files!HandleResult(host)
      PROVE  FilesInv'
  <2>1. CopyKnown'
    BY <1>2 DEF CopyKnown, Files!Preflight, Files!PreflightFails, Files!Prepare,
                Files!AllHandled, Files!HandleResult
  <2>2. /\ todo' \subseteq todo
        /\ cur' = cur \/ cur' \in todo
        /\ step' \in FileSteps => cur' \in Files!Hosts \ todo'
        /\ step' \notin FileSteps => cur' = 0
        /\ step' \in FileSteps \cup {"preflight", "refused", "result", "done"}
        /\ step' \in {"preflight", "refused"} => step = "preflight" /\ UNCHANGED todo
    BY <1>2 DEF FilesInv, FilesTypes, FileSteps, Files!Preflight, Files!PreflightFails,
                Files!Prepare, Files!AllHandled, Files!HandleResult
  <2>3. UNCHANGED Files!given /\ UNCHANGED lines /\ entries' = entries
    BY <1>2
  <2>4. \A x : \/ entries' = entries
               \/ /\ entries' = [entries EXCEPT ![Files!Path(cur, "stdout")] = x]
                  /\ cur \in Files!Hosts
    BY <2>3
  <2> QED
    BY <1>1, <2>1, <2>2, <2>3, <2>4, FilesQuietStep
<1>3. CASE UNCHANGED Files!vars
  BY <1>3, FilesStutter
<1>4. \/ Files!Preflight \/ Files!PreflightFails \/ Files!Prepare
      \/ Files!AllHandled \/ (\E host \in Files!Hosts : Files!HandleResult(host))
      => UNCHANGED <<Files!given, lines, entries>>
  BY DEF Files!Preflight, Files!PreflightFails, Files!Prepare,
         Files!AllHandled, Files!HandleResult
<1> QED
  BY <1>2, <1>3, <1>4, OpenStep, CopyStep, CloseStep, FailsStep, LineStep
     DEF Files!Next, Files!Terminated

LEMMA FilesStart == ASSUME Files!Init PROVE FilesInv
<1>1. entries \in [AllPaths -> {Files!Nothing, Files!Earlier, Files!Link}]
  BY DEF Files!Init, AllPaths
<1>2. size \in [Files!Streams -> Nat]
  BY BoundsAssumption DEF Files!Init
<1> QED
  BY <1>1, <1>2 DEF Files!Init, FilesInv, FilesTypes, LinesKnown, CopyKnown,
                    LinesKept, FileSteps

\* A line that names the files of a host stays true to the end of the run: the
\* files hold the whole outputs of that host, whatever the names of the hosts,
\* the files of an earlier run and the operations that fail (cli.go:600-748).
THEOREM NamedFilesAreWhole == GopsshSpec => []FilesTruthful
<1> DEFINE Inv == part = "files" => FilesInv
<1>1. GopsshInit => Inv
  BY FilesStart DEF GopsshInit
<1>2. Inv /\ [GopsshNext]_gopsshVars => Inv'
  <2> SUFFICES ASSUME Inv, [GopsshNext]_gopsshVars, part' = "files"
               PROVE  FilesInv'
    OBVIOUS
  <2>1. CASE UNCHANGED gopsshVars
    <3>1. UNCHANGED <<part, Files!vars>>
      BY <2>1 DEF gopsshVars, filesVars, Files!vars, Files!given
    <3> QED
      BY <3>1, FilesStutter
  <2>2. CASE GopsshNext
    <3>1. part = "files" /\ Files!Next
      BY <2>2 DEF GopsshNext
    <3> QED
      BY <3>1, FilesStep
  <2> QED
    BY <2>1, <2>2
<1>3. Inv => FilesTruthful
  BY DEF FilesInv, FilesTypes, LinesKnown, LinesKept, Kept, FilesTruthful, Files!FilesTruthful
<1> QED
  BY <1>1, <1>2, <1>3, PTL DEF GopsshSpec

-----------------------------------------------------------------------------
(* TextStream                                                               *)

LEMMA Needs ==
  ASSUME NEW b \in Field!Bytes
  PROVE  Field!Need(b) \in 1..3 /\ (b \in {"c", "x"} => Field!Need(b) = 1)
BY DEF Field!Need, Field!Bytes

LEMMA PieceOf ==
  ASSUME NEW X, NEW s \in Seq(X), NEW p \in Nat, NEW q \in (p + 1)..Len(s)
  PROVE  /\ SubSeq(s, p + 1, q) \in Seq(X) /\ Len(SubSeq(s, p + 1, q)) = q - p
         /\ Head(SubSeq(s, p + 1, q)) = s[p + 1]
         /\ \A i \in 1..(q - p) : SubSeq(s, p + 1, q)[i] = s[p + i]
<1>1. SubSeq(s, p + 1, q) \in Seq(X) /\ Len(SubSeq(s, p + 1, q)) = q - p
  OBVIOUS
<1>2. \A i \in 1..(q - p) : SubSeq(s, p + 1, q)[i] = s[p + i]
  OBVIOUS
<1>3. Head(SubSeq(s, p + 1, q)) = SubSeq(s, p + 1, q)[1]
  BY <1>1
<1> QED
  BY <1>1, <1>2, <1>3

\* What the decoder sees of a part of a stream.
LEMMA StartsRuneAt ==
  ASSUME NEW s \in Seq(Field!Bytes), NEW p \in Nat, NEW q \in (p + 1)..Len(s)
  PROVE  Field!StartsRune(SubSeq(s, p + 1, q)) <=>
            /\ s[p + 1] \notin {"c", "x"} /\ p + Field!Need(s[p + 1]) <= q
            /\ \A i \in 2..Field!Need(s[p + 1]) : s[p + i] = "c"
<1> DEFINE d == SubSeq(s, p + 1, q)
           k == Field!Need(s[p + 1])
<1>1. /\ d \in Seq(Field!Bytes) /\ Len(d) = q - p /\ Head(d) = s[p + 1]
      /\ \A i \in 1..(q - p) : d[i] = s[p + i]
  BY PieceOf
<1>2. k \in 1..3 /\ q \in Nat
  BY Needs
<1> HIDE DEF d, k
<1>3. ASSUME k <= Len(d)
      PROVE  Field!Continued(SubSeq(d, 1, k)) <=> \A i \in 2..k : s[p + i] = "c"
  <2>1. Len(SubSeq(d, 1, k)) = k /\ \A i \in 1..k : SubSeq(d, 1, k)[i] = d[i]
    BY <1>1, <1>2, <1>3
  <2>2. \A i \in 2..k : SubSeq(d, 1, k)[i] = s[p + i]
    BY <1>1, <1>2, <1>3, <2>1
  <2>3. Field!Continued(SubSeq(d, 1, k)) <=> \A i \in 2..k : SubSeq(d, 1, k)[i] = "c"
    BY <2>1 DEF Field!Continued
  <2> QED
    BY <2>2, <2>3
<1>4. Len(d) >= k <=> p + k <= q
  BY <1>1, <1>2
<1>5. Field!StartsRune(d) <=> /\ s[p + 1] \notin {"c", "x"} /\ Len(d) >= k
                              /\ Field!Continued(SubSeq(d, 1, k))
  BY <1>1 DEF Field!StartsRune, k
<1> QED
  BY <1>1, <1>2, <1>3, <1>4, <1>5 DEF d, k

LEMMA FullRuneAt ==
  ASSUME NEW s \in Seq(Field!Bytes), NEW p \in Nat, NEW q \in (p + 1)..Len(s)
  PROVE  Field!FullRune(SubSeq(s, p + 1, q)) <=>
            \/ p + Field!Need(s[p + 1]) <= q
            \/ \E i \in 2..(q - p) : s[p + i] # "c"
<1> DEFINE d == SubSeq(s, p + 1, q)
           k == Field!Need(s[p + 1])
<1>1. /\ d \in Seq(Field!Bytes) /\ Len(d) = q - p /\ Head(d) = s[p + 1]
      /\ \A i \in 1..(q - p) : d[i] = s[p + i]
  BY PieceOf
<1>2. k \in 1..3 /\ q \in Nat
  BY Needs
<1> HIDE DEF d, k
<1>3. Len(d) >= k <=> p + k <= q
  BY <1>1, <1>2
<1>4. Field!Continued(d) <=> \A i \in 2..(q - p) : s[p + i] = "c"
  <2>1. Field!Continued(d) <=> \A i \in 2..(q - p) : d[i] = "c"
    BY <1>1 DEF Field!Continued
  <2>2. \A i \in 2..(q - p) : d[i] = s[p + i]
    BY <1>1, <1>2
  <2> QED
    BY <2>1, <2>2
<1>5. Field!FullRune(d) <=> Len(d) >= k \/ ~Field!Continued(d)
  BY <1>1 DEF Field!FullRune, k
<1> QED
  BY <1>3, <1>4, <1>5 DEF d, k

\* A character is at i.
RuneAt(s, i) == /\ s[i] \notin {"c", "x"} /\ i + Field!Need(s[i]) <= Len(s) + 1
                /\ \A j \in (i + 1)..(i + Field!Need(s[i]) - 1) : s[j] = "c"

\* The first p bytes are characters.
Boundary(s, p) ==
    \A i \in 1..p :
        /\ s[i] # "c" => RuneAt(s, i) /\ i + Field!Need(s[i]) <= p + 1
        /\ s[i] = "c" => \E j \in 1..(i - 1) : s[j] # "c" /\ i < j + Field!Need(s[j])

LEMMA RuneAtStart ==
  ASSUME NEW s \in Seq(Field!Bytes), NEW i \in 1..Len(s)
  PROVE  Field!StartsRune(SubSeq(s, i, Len(s))) <=> RuneAt(s, i)
<1>1. i - 1 \in Nat /\ (i - 1) + 1 = i /\ Len(s) \in ((i - 1) + 1)..Len(s)
      /\ Len(s) \in Nat /\ Field!Need(s[i]) \in 1..3
  BY Needs
<1>2. Field!StartsRune(SubSeq(s, i, Len(s))) <=>
         /\ s[i] \notin {"c", "x"} /\ (i - 1) + Field!Need(s[i]) <= Len(s)
         /\ \A j \in 2..Field!Need(s[i]) : s[(i - 1) + j] = "c"
  BY <1>1, StartsRuneAt
<1>3. (i - 1) + Field!Need(s[i]) <= Len(s) <=> i + Field!Need(s[i]) <= Len(s) + 1
  BY <1>1
<1>4. (\A j \in 2..Field!Need(s[i]) : s[(i - 1) + j] = "c")
         <=> \A j \in (i + 1)..(i + Field!Need(s[i]) - 1) : s[j] = "c"
  <2>1. ASSUME \A j \in 2..Field!Need(s[i]) : s[(i - 1) + j] = "c",
               NEW j \in (i + 1)..(i + Field!Need(s[i]) - 1)
        PROVE  s[j] = "c"
    <3>1. (j - i) + 1 \in 2..Field!Need(s[i]) /\ (i - 1) + ((j - i) + 1) = j
      BY <1>1
    <3> QED
      BY <2>1, <3>1
  <2>2. ASSUME \A j \in (i + 1)..(i + Field!Need(s[i]) - 1) : s[j] = "c",
               NEW j \in 2..Field!Need(s[i])
        PROVE  s[(i - 1) + j] = "c"
    <3>1. (i - 1) + j \in (i + 1)..(i + Field!Need(s[i]) - 1)
      BY <1>1
    <3> QED
      BY <2>2, <3>1
  <2> QED
    BY <2>1, <2>2
<1> QED
  BY <1>2, <1>3, <1>4 DEF RuneAt

\* The part that is at hand decides whether a character is there.
LEMMA FullRuneDecides ==
  ASSUME NEW s \in Seq(Field!Bytes), NEW p \in Nat, NEW q \in (p + 1)..Len(s)
  PROVE  /\ Field!StartsRune(SubSeq(s, p + 1, q)) => RuneAt(s, p + 1)
         /\ /\ RuneAt(s, p + 1)
            /\ Field!FullRune(SubSeq(s, p + 1, q)) \/ q = Len(s)
            => Field!StartsRune(SubSeq(s, p + 1, q))
<1> DEFINE k == Field!Need(s[p + 1])
<1>1. k \in 1..3 /\ q \in Nat /\ Len(s) \in Nat /\ p + 1 \in 1..Len(s)
  BY Needs
<1>2. RuneAt(s, p + 1) <=> /\ s[p + 1] \notin {"c", "x"} /\ p + k <= Len(s)
                           /\ \A i \in 2..k : s[p + i] = "c"
  <2>1. Len(s) \in (p + 1)..Len(s)
    BY <1>1
  <2> QED
    BY <1>1, <2>1, RuneAtStart, StartsRuneAt
<1>3. Field!StartsRune(SubSeq(s, p + 1, q)) => RuneAt(s, p + 1)
  <2>1. p + k <= q => p + k <= Len(s)
    BY <1>1
  <2> QED
    BY <1>2, <2>1, StartsRuneAt
<1>4. ASSUME RuneAt(s, p + 1), Field!FullRune(SubSeq(s, p + 1, q)) \/ q = Len(s)
      PROVE  Field!StartsRune(SubSeq(s, p + 1, q))
  <2>1. p + k <= q
    <3>1. CASE q = Len(s)
      BY <1>2, <1>4, <3>1
    <3>2. ASSUME NEW i \in 2..(q - p), s[p + i] # "c", ~(p + k <= q) PROVE FALSE
      <4>1. i \in 2..k
        BY <1>1, <3>2
      <4> QED
        BY <1>2, <1>4, <3>2, <4>1
    <3> QED
      BY <1>4, <3>1, <3>2, FullRuneAt
  <2> QED
    BY <1>2, <1>4, <2>1, StartsRuneAt
<1> QED
  BY <1>3, <1>4

LEMMA BoundaryMoves ==
  ASSUME NEW s \in Seq(Field!Bytes), NEW p \in Nat, p < Len(s),
         Boundary(s, p), RuneAt(s, p + 1)
  PROVE  /\ Boundary(s, p + Field!Need(s[p + 1]))
         /\ p + Field!Need(s[p + 1]) <= Len(s)
<1> DEFINE k == Field!Need(s[p + 1])
<1>1. k \in 1..3 /\ Len(s) \in Nat /\ p + 1 \in 1..Len(s)
  BY Needs
<1>2. s[p + 1] # "c" /\ p + k <= Len(s)
      /\ \A j \in (p + 2)..(p + k) : s[j] = "c"
  BY <1>1 DEF RuneAt
<1> HIDE DEF k
<1>3. ASSUME NEW i \in 1..(p + k)
      PROVE  /\ s[i] # "c" => RuneAt(s, i) /\ i + Field!Need(s[i]) <= (p + k) + 1
             /\ s[i] = "c" =>
                   \E j \in 1..(i - 1) : s[j] # "c" /\ i < j + Field!Need(s[j])
  <2>1. CASE i \in 1..p
    <3>1. Field!Need(s[i]) \in 1..3
      BY <1>1, <2>1, Needs
    <3> QED
      BY <1>1, <2>1, <3>1 DEF Boundary
  <2>2. CASE i = p + 1
    BY <1>1, <1>2, <2>2 DEF k
  <2>3. CASE i \in (p + 2)..(p + k)
    <3>1. s[i] = "c" /\ p + 1 \in 1..(i - 1) /\ i < (p + 1) + k
      BY <1>1, <1>2, <2>3
    <3> QED
      BY <1>2, <3>1 DEF k
  <2> QED
    BY <1>1, <2>1, <2>2, <2>3
<1> QED
  BY <1>2, <1>3 DEF Boundary, k

LEMMA BoundaryAtEnd ==
  ASSUME NEW s \in Seq(Field!Bytes), Boundary(s, Len(s))
  PROVE  Field!IsUTF8(s)
<1>1. \A i \in 1..Len(s) : s[i] # "c" => Field!StartsRune(SubSeq(s, i, Len(s)))
  BY RuneAtStart DEF Boundary
<1> QED
  BY <1>1 DEF Field!IsUTF8, Boundary

LEMMA BoundaryNext ==
  ASSUME NEW s \in Seq(Field!Bytes), NEW p \in Nat, p < Len(s),
         Boundary(s, p), Field!IsUTF8(s)
  PROVE  RuneAt(s, p + 1)
<1>1. p + 1 \in 1..Len(s) /\ Len(s) \in Nat
  OBVIOUS
<1>2. CASE s[p + 1] # "c"
  BY <1>1, <1>2, RuneAtStart DEF Field!IsUTF8
<1>3. CASE s[p + 1] = "c"
  <2>1. PICK i \in 1..p : s[i] # "c" /\ p + 1 < i + Field!Need(s[i])
    BY <1>1, <1>3 DEF Field!IsUTF8
  <2>2. Field!Need(s[i]) \in 1..3 /\ i + Field!Need(s[i]) <= p + 1
    BY <1>1, <2>1, Needs DEF Boundary
  <2> QED
    BY <2>1, <2>2
<1> QED
  BY <1>2, <1>3

-----------------------------------------------------------------------------
\* Parts of a sequence that follow each other.
LEMMA PartsJoin ==
  ASSUME NEW X, NEW s \in Seq(X), NEW a \in Nat, NEW b \in a..Len(s), NEW c \in b..Len(s)
  PROVE  /\ SubSeq(s, a + 1, b) \o SubSeq(s, b + 1, c) = SubSeq(s, a + 1, c)
         /\ SubSeq(s, a + 1, b) \in Seq(X) /\ Len(SubSeq(s, a + 1, b)) = b - a
<1>1. a + 1 \in 1..(Len(s) + 1) /\ b \in ((a + 1) - 1)..Len(s) /\ c \in b..Len(s)
  OBVIOUS
<1>2. SubSeq(s, a + 1, b) \o SubSeq(s, b + 1, c) = SubSeq(s, a + 1, c)
  BY <1>1, ConcatAdjacentSubSeq, Zenon
<1>3. SubSeq(s, a + 1, b) \in Seq(X) /\ Len(SubSeq(s, a + 1, b)) = b - a
  OBVIOUS
<1> QED
  BY <1>2, <1>3

\* Groups of three elements, one after the other, are the sequence.
LEMMA GroupsAre ==
  ASSUME NEW X, NEW s \in Seq(Seq(X)), NEW d \in Seq(X)
  PROVE  \A n \in Nat : 3 * n <= Len(d) =>
            FlattenSeq(s \o [i \in 1..n |-> SubSeq(d, 3 * i - 2, 3 * i)])
               = FlattenSeq(s) \o SubSeq(d, 1, 3 * n)
<1> DEFINE G(n) == [i \in 1..n |-> SubSeq(d, 3 * i - 2, 3 * i)]
           Good(n) == FlattenSeq(s \o G(n)) = FlattenSeq(s) \o SubSeq(d, 1, 3 * n)
           Bad == {n \in Nat : 3 * n <= Len(d) /\ ~Good(n)}
<1> SUFFICES ASSUME Bad # {} PROVE FALSE
  OBVIOUS
<1>1. PICK n \in Bad : \A m \in Bad : n <= m
  <2>1. Bad \in SUBSET Nat
    OBVIOUS
  <2> QED
    BY <2>1, LeastExists, Zenon
<1>2. n \in Nat /\ 3 * n <= Len(d) /\ Len(d) \in Nat /\ ~Good(n)
  <2> HIDE DEF Good
  <2> QED
    BY <1>1
<1>3. FlattenSeq(s) \in Seq(X)
  BY FlattenType
<1>4. CASE n = 0
  <2>1. G(0) = <<>> /\ SubSeq(d, 1, 3 * 0) = <<>>
    OBVIOUS
  <2>2. s \o <<>> = s /\ FlattenSeq(s) \o <<>> = FlattenSeq(s)
    BY <1>3
  <2>3. Good(0)
    BY <2>1, <2>2
  <2> QED
    BY <1>2, <1>4, <2>3
<1>5. CASE n # 0
  <2>1. n - 1 \in Nat /\ 3 * (n - 1) <= Len(d) /\ 3 * (n - 1) + 3 = 3 * n
        /\ ~(n <= n - 1)
    BY <1>2, <1>5
  <2>2. Good(n - 1)
    <3> HIDE DEF Good
    <3>1. n - 1 \notin Bad
      <4> HIDE DEF Bad
      <4> QED
        BY <1>1, <2>1
    <3> QED
      BY <2>1, <3>1
  <2> DEFINE e == SubSeq(d, 3 * n - 2, 3 * n)
             g == G(n - 1)
  <2>3. e \in Seq(X)
    BY <1>2, <1>5
  <2>4. g \in Seq(Seq(X)) /\ Len(g) = n - 1
    <3>1. \A i \in 1..(n - 1) : SubSeq(d, 3 * i - 2, 3 * i) \in Seq(X)
      BY <1>2
    <3> QED
      BY <2>1, <3>1
  <2>5. G(n) = Append(g, e)
    <3>1. Append(g, e) \in Seq(Seq(X)) /\ Len(Append(g, e)) = n
      <4> HIDE DEF g, e
      <4> QED
        BY <1>2, <2>3, <2>4
    <3>2. G(n) \in Seq(Seq(X)) /\ Len(G(n)) = n
      <4>1. \A i \in 1..n : SubSeq(d, 3 * i - 2, 3 * i) \in Seq(X)
        BY <1>2
      <4> QED
        BY <1>2, <4>1
    <3>3. ASSUME NEW i \in 1..n PROVE G(n)[i] = Append(g, e)[i]
      <4>1. CASE i \in 1..(n - 1)
        <5>1. G(n)[i] = g[i]
          BY <1>2, <4>1
        <5> HIDE DEF g, e, G
        <5>2. Append(g, e)[i] = g[i]
          BY <1>2, <2>3, <2>4, <4>1
        <5> QED
          BY <5>1, <5>2
      <4>2. CASE i = n
        <5>1. G(n)[n] = e
          BY <1>2, <4>2
        <5> HIDE DEF g, e, G
        <5>2. Append(g, e)[n] = e
          BY <1>2, <2>3, <2>4
        <5> QED
          BY <4>2, <5>1, <5>2
      <4> QED
        BY <1>2, <4>1, <4>2
    <3> HIDE DEF G, g, e
    <3> QED
      BY <3>1, <3>2, <3>3, SeqEqual, Zenon
  <2>6. s \o Append(g, e) = Append(s \o g, e) /\ s \o g \in Seq(Seq(X))
    <3> HIDE DEF g, e
    <3> QED
      BY <2>3, <2>4, SMTT(30)
  <2>7. FlattenSeq(s \o G(n)) = FlattenSeq(s \o g) \o e
    <3> HIDE DEF G, g, e
    <3>1. FlattenSeq(Append(s \o g, e)) = FlattenSeq(s \o g) \o e
      BY <2>3, <2>6, FlattenAppend
    <3> QED
      BY <2>5, <2>6, <3>1, Zenon
  <2>8. FlattenSeq(s \o g) = FlattenSeq(s) \o SubSeq(d, 1, 3 * (n - 1))
    BY <2>2
  <2>9. SubSeq(d, 1, 3 * (n - 1)) \o e = SubSeq(d, 1, 3 * n)
        /\ SubSeq(d, 1, 3 * (n - 1)) \in Seq(X)
    <3>1. 0 \in Nat /\ 3 * (n - 1) \in 0..Len(d) /\ 3 * n \in (3 * (n - 1))..Len(d)
          /\ 0 + 1 = 1 /\ 3 * (n - 1) + 1 = 3 * n - 2
      BY <1>2, <2>1
    <3> HIDE DEF e
    <3>2. /\ SubSeq(d, 0 + 1, 3 * (n - 1)) \o SubSeq(d, 3 * (n - 1) + 1, 3 * n)
               = SubSeq(d, 0 + 1, 3 * n)
          /\ SubSeq(d, 0 + 1, 3 * (n - 1)) \in Seq(X)
      BY <3>1, PartsJoin
    <3> QED
      BY <3>1, <3>2 DEF e
  <2>10. (FlattenSeq(s) \o SubSeq(d, 1, 3 * (n - 1))) \o e
            = FlattenSeq(s) \o (SubSeq(d, 1, 3 * (n - 1)) \o e)
    <3>1. \A u, v, w \in Seq(X) : (u \o v) \o w = u \o (v \o w)
      BY ConcatAssociative, SMTT(30)
    <3> HIDE DEF e
    <3> QED
      BY <1>3, <2>3, <2>9, <3>1
  <2>11. Good(n)
    <3> HIDE DEF e, g, G
    <3> QED
      BY <2>7, <2>8, <2>9, <2>10, Zenon
  <2> QED
    BY <1>2, <2>11
<1> QED
  BY <1>4, <1>5

-----------------------------------------------------------------------------
\* The bytes that have been decoded, and those of the pieces written.
Pos == read - Len(tail) - Len(data)

Of(o) == [i \in DOMAIN o |-> o[i].of]

\* What is at hand is the part of the stream behind the decoded bytes, and
\* these are characters.
Window ==
    /\ Pos \in Nat
    /\ data = <<>> \/ tail = <<>>
    /\ tail \o data = SubSeq(stream, Pos + 1, read)
    /\ tail # <<>> => ~Field!FullRune(tail)
    /\ Boundary(stream, Pos)

Pieces == [escaped : BOOLEAN, of : Seq(Field!Bytes)]

FieldTypes ==
    /\ stream \in Seq(Field!Bytes)
    /\ pass \in {"validate", "text", "base64", "done", "failed"}
    /\ read \in 0..Len(stream)
    /\ data \in Seq(Field!Bytes) /\ tail \in Seq(Field!Bytes)
    /\ valid \in BOOLEAN
    /\ out \in Seq(Pieces)

Validating == pass = "validate" =>
    /\ encoding = "none" /\ out = <<>>
    /\ IF valid THEN Window ELSE data = <<>> /\ ~Field!IsUTF8(stream)

WritingText == pass = "text" =>
    encoding = "utf-8" /\ Window /\ Field!Decoded = SubSeq(stream, 1, Pos)

WritingBase64 == pass = "base64" =>
    /\ encoding = "base64" /\ data = <<>>
    /\ Field!Decoded \o tail = SubSeq(stream, 1, read)
    /\ \A i \in DOMAIN out : Len(out[i].of) = 3

WrittenSoFar ==
    /\ \E k \in 0..Len(stream) : Field!Decoded = SubSeq(stream, 1, k)
    /\ pass = "done" => Field!Decoded = stream
    /\ encoding # "none" => (encoding = "utf-8" <=> Field!IsUTF8(stream))
    /\ \A i \in DOMAIN out :
          IF encoding = "utf-8"
          THEN out[i].escaped <=> "q" \in Range(out[i].of)
          ELSE Len(out[i].of) = 3 \/ (i = Len(out) /\ pass = "done")

FieldInv == FieldTypes /\ Validating /\ WritingText /\ WritingBase64 /\ WrittenSoFar

\* The part at hand, when a call has bytes to decode.
LEMMA AtHand ==
  ASSUME FieldTypes, Window, data # <<>>
  PROVE  /\ tail = <<>> /\ Len(tail) = 0 /\ Pos = read - Len(data)
         /\ data = SubSeq(stream, Pos + 1, read)
         /\ Pos \in Nat /\ read \in (Pos + 1)..Len(stream) /\ Pos < Len(stream)
<1>1. tail = <<>> /\ Len(tail) = 0
  BY DEF Window
<1>2. data = SubSeq(stream, Pos + 1, read)
  BY <1>1 DEF Window, FieldTypes
<1>3. Len(data) \in Nat \ {0} /\ read \in Nat /\ Len(stream) \in Nat
  BY DEF FieldTypes
<1> QED
  BY <1>1, <1>2, <1>3 DEF FieldTypes, Window, Pos

\* Nothing to decode: what is kept is the part.
LEMMA AtRest ==
  ASSUME FieldTypes, Window, data = <<>>
  PROVE  Pos = read - Len(tail) /\ tail = SubSeq(stream, Pos + 1, read)
<1>1. tail \o data = tail
  BY DEF FieldTypes
<1> QED
  BY <1>1 DEF FieldTypes, Window, Pos

LEMMA WindowGrows ==
  ASSUME FieldTypes, Window, NEW n \in 1..MaxLen, Field!More(n),
         data' = tail \o Field!Chunk(n), tail' = <<>>, stream' = stream
  PROVE  Window' /\ read' \in 0..Len(stream) /\ data' \in Seq(Field!Bytes)
         /\ Pos' = Pos
<1>1. n \in 1..(Len(stream) - read) /\ read' = read + n /\ data = <<>>
  BY DEF Field!More
<1>2. /\ read \in Nat /\ n \in Nat /\ Len(stream) \in Nat
      /\ Len(tail) \in Nat /\ Pos \in Nat
      /\ Pos = read - Len(tail) /\ tail = SubSeq(stream, Pos + 1, read)
  BY <1>1, AtRest DEF FieldTypes, Window
<1>3. read \in Pos..Len(stream) /\ read + n \in read..Len(stream)
  BY <1>1, <1>2 DEF FieldTypes
<1>4. /\ tail \o Field!Chunk(n) = SubSeq(stream, Pos + 1, read + n)
      /\ Field!Chunk(n) \in Seq(Field!Bytes) /\ Len(Field!Chunk(n)) = n
  <2>1. SubSeq(stream, Pos + 1, read) \o SubSeq(stream, read + 1, read + n)
           = SubSeq(stream, Pos + 1, read + n)
    <3>1. stream \in Seq(Field!Bytes) /\ Pos \in Nat
      BY <1>2 DEF FieldTypes
    <3> QED
      BY <1>3, <3>1, PartsJoin, Zenon
  <2>2. /\ SubSeq(stream, read + 1, read + n) \in Seq(Field!Bytes)
        /\ Len(SubSeq(stream, read + 1, read + n)) = n
    BY <1>1, <1>2, <1>3 DEF FieldTypes
  <2> QED
    BY <1>2, <2>1, <2>2 DEF Field!Chunk
<1>5. data' \in Seq(Field!Bytes) /\ Len(data') = Len(tail) + n /\ Len(tail') = 0
  <2>1. \A u, v \in Seq(Field!Bytes) :
           u \o v \in Seq(Field!Bytes) /\ Len(u \o v) = Len(u) + Len(v)
    BY ConcatProperties
  <2>2. tail \in Seq(Field!Bytes) /\ Len(<<>>) = 0
    BY DEF FieldTypes
  <2>3. Field!Chunk(n) \in Seq(Field!Bytes) /\ Len(Field!Chunk(n)) = n
    BY <1>4
  <2> QED
    BY <2>1, <2>2, <2>3
<1>6. Pos' = Pos
  BY <1>1, <1>2, <1>5 DEF Pos
<1>7. tail' \o data' = SubSeq(stream, Pos + 1, read + n)
  <2>1. <<>> \o data' = data'
    BY <1>5
  <2> QED
    BY <1>4, <2>1
<1>8. tail' = <<>> /\ Pos' \in Nat /\ Boundary(stream', Pos')
      /\ tail' \o data' = SubSeq(stream', Pos' + 1, read')
  BY <1>1, <1>2, <1>6, <1>7 DEF Window
<1> HIDE DEF Pos
<1>9. Window'
  BY <1>8 DEF Window
<1>10. read' \in 0..Len(stream)
  BY <1>1, <1>2, <1>3
<1> QED
  BY <1>5, <1>6, <1>9, <1>10

LEMMA WindowKept ==
  ASSUME FieldTypes, Window, data # <<>>, ~Field!FullRune(data),
         tail' = data, data' = <<>>, stream' = stream, read' = read
  PROVE  Window' /\ Pos' = Pos
<1>1. /\ tail = <<>> /\ Len(tail) = 0 /\ data = SubSeq(stream, Pos + 1, read)
  BY AtHand
<1>2. Len(data) \in Nat /\ read \in Int /\ Len(data') = 0
  BY DEF FieldTypes
<1>3. Pos' = Pos
  BY <1>1, <1>2 DEF Pos
<1>4. tail' \o data' = data
  BY DEF FieldTypes
<1> QED
  BY <1>1, <1>3, <1>4 DEF Window

\* The next character is taken from what is at hand.
LEMMA WindowMoves ==
  ASSUME FieldTypes, Window, data # <<>>, Field!StartsRune(data),
         data' = Field!Rest(data), UNCHANGED <<stream, read, tail>>
  PROVE  /\ Window' /\ data' \in Seq(Field!Bytes)
         /\ Pos' = Pos + Field!Need(Head(data)) /\ Head(data) = stream[Pos + 1]
         /\ Pos' \in Nat /\ Pos' <= Len(stream)
         /\ Field!StartsRune(SubSeq(stream, Pos + 1, read))
         /\ RuneAt(stream, Pos + 1)
<1> DEFINE k == Field!Need(stream[Pos + 1])
<1>1. /\ tail = <<>> /\ Len(tail) = 0 /\ data = SubSeq(stream, Pos + 1, read)
      /\ Pos = read - Len(data)
      /\ Pos \in Nat /\ read \in (Pos + 1)..Len(stream) /\ Pos < Len(stream)
  BY AtHand
<1>2. stream \in Seq(Field!Bytes) /\ Len(stream) \in Nat /\ Len(data) \in Nat
      /\ stream[Pos + 1] \in Field!Bytes
  BY <1>1 DEF FieldTypes
<1>3. Head(data) = stream[Pos + 1] /\ k \in 1..3
  BY <1>1, <1>2, PieceOf, Needs
<1>4. RuneAt(stream, Pos + 1)
  BY <1>1, <1>2, FullRuneDecides
<1>5. Boundary(stream, Pos + k) /\ Pos + k <= Len(stream)
  BY <1>1, <1>2, <1>4, BoundaryMoves DEF Window
<1>6. Pos + k <= read
  BY <1>1, <1>2, StartsRuneAt
<1>7. data' = SubSeq(data, k + 1, Len(data))
  BY <1>3 DEF Field!Rest, Field!DecodeRune
<1> HIDE DEF k
<1>8. data' = SubSeq(stream, (Pos + k) + 1, read) /\ Len(data') = read - (Pos + k)
      /\ data' \in Seq(Field!Bytes)
  <2>1. Len(data) = read - Pos /\ read \in Nat
    BY <1>1
  <2>2. data' \in Seq(Field!Bytes) /\ Len(data') = Len(data) - k
    <3>1. \A u \in Seq(Field!Bytes), m \in Nat : m <= Len(u) =>
             /\ SubSeq(u, m + 1, Len(u)) \in Seq(Field!Bytes)
             /\ Len(SubSeq(u, m + 1, Len(u))) = Len(u) - m
      OBVIOUS
    <3>2. data \in Seq(Field!Bytes) /\ k \in Nat /\ k <= Len(data)
      BY <1>1, <1>3, <1>6, <2>1 DEF FieldTypes
    <3> QED
      BY <1>7, <3>1, <3>2
  <2>3. SubSeq(stream, (Pos + k) + 1, read) \in Seq(Field!Bytes)
        /\ Len(SubSeq(stream, (Pos + k) + 1, read)) = read - (Pos + k)
    BY <1>1, <1>2, <1>3, <1>6
  <2>4. ASSUME NEW i \in 1..(read - (Pos + k))
        PROVE  data'[i] = SubSeq(stream, (Pos + k) + 1, read)[i]
    <3>1. i + k \in 1..(read - Pos) /\ i \in 1..(Len(data) - k)
      BY <1>1, <1>3, <1>6, <2>1, <2>4
    <3>2. data[i + k] = stream[Pos + (i + k)]
      <4>1. \A j \in 1..(read - Pos) :
               SubSeq(stream, Pos + 1, read)[j] = stream[Pos + j]
        BY <1>1, <1>2, PieceOf
      <4> QED
        BY <1>1, <3>1, <4>1
    <3>3. data'[i] = data[i + k]
      BY <1>3, <1>6, <1>7, <2>1, <3>1 DEF FieldTypes
    <3>4. SubSeq(stream, (Pos + k) + 1, read)[i] = stream[(Pos + k) + i]
      BY <1>1, <1>2, <1>3, <1>6, <2>4
    <3>5. Pos + (i + k) = (Pos + k) + i
      BY <1>1, <1>3, <3>1
    <3> QED
      BY <3>2, <3>3, <3>4, <3>5
  <2>5. data' = SubSeq(stream, (Pos + k) + 1, read)
    <3>1. Len(data') = read - (Pos + k)
      BY <1>1, <1>3, <2>1, <2>2
    <3> QED
      BY <2>2, <2>3, <2>4, <3>1, SeqEqual, Zenon
  <2> QED
    BY <2>2, <2>3, <2>5
<1>9. Pos' = Pos + k
  BY <1>1, <1>2, <1>3, <1>6, <1>8 DEF Pos
<1>10. tail' \o data' = data' /\ tail' = <<>>
  BY <1>1, <1>8
<1>11. Window'
  <2>1. Pos' \in Nat
    BY <1>1, <1>3, <1>9
  <2> QED
    BY <1>5, <1>8, <1>9, <1>10, <2>1 DEF Window
<1>12. Field!StartsRune(SubSeq(stream, Pos + 1, read))
  BY <1>1
<1> QED
  BY <1>1, <1>3, <1>4, <1>5, <1>8, <1>9, <1>11, <1>12, SMTT(30) DEF k

-----------------------------------------------------------------------------
LEMMA OfType ==
  ASSUME NEW o \in Seq(Pieces)
  PROVE  Of(o) \in Seq(Seq(Field!Bytes)) /\ Len(Of(o)) = Len(o)
         /\ \A i \in 1..Len(o) : Of(o)[i] = o[i].of
<1>1. DOMAIN o = 1..Len(o) /\ Len(o) \in Nat /\ \A i \in 1..Len(o) : o[i] \in Pieces
  OBVIOUS
<1>2. \A i \in 1..Len(o) : o[i].of \in Seq(Field!Bytes)
  BY <1>1 DEF Pieces
<1>3. Of(o) \in [1..Len(o) -> Seq(Field!Bytes)]
  BY <1>1, <1>2 DEF Of
<1>4. Of(o) \in Seq(Seq(Field!Bytes)) /\ Len(Of(o)) = Len(o)
  BY <1>1, <1>3
<1> QED
  BY <1>1, <1>4 DEF Of

LEMMA OfAppend ==
  ASSUME NEW o \in Seq(Pieces), NEW p \in Pieces
  PROVE  Of(Append(o, p)) = Append(Of(o), p.of)
<1>1. Append(o, p) \in Seq(Pieces) /\ Len(Append(o, p)) = Len(o) + 1 /\ Len(o) \in Nat
      /\ Append(o, p)[Len(o) + 1] = p /\ \A i \in 1..Len(o) : Append(o, p)[i] = o[i]
  OBVIOUS
<1>2. p.of \in Seq(Field!Bytes)
  BY DEF Pieces
<1> DEFINE u == Of(Append(o, p))
           v == Append(Of(o), p.of)
<1>3. u \in Seq(Seq(Field!Bytes)) /\ Len(u) = Len(o) + 1
      /\ \A i \in 1..(Len(o) + 1) : u[i] = Append(o, p)[i].of
  BY <1>1, OfType
<1>4. v \in Seq(Seq(Field!Bytes)) /\ Len(v) = Len(o) + 1
      /\ v[Len(o) + 1] = p.of /\ \A i \in 1..Len(o) : v[i] = Of(o)[i]
  <2>1. \A w \in Seq(Seq(Field!Bytes)), x \in Seq(Field!Bytes) :
           /\ Append(w, x) \in Seq(Seq(Field!Bytes)) /\ Len(Append(w, x)) = Len(w) + 1
           /\ Append(w, x)[Len(w) + 1] = x
           /\ \A i \in 1..Len(w) : Append(w, x)[i] = w[i]
    OBVIOUS
  <2> QED
    BY <1>2, <2>1, OfType
<1> HIDE DEF u, v
<1>5. ASSUME NEW i \in 1..(Len(o) + 1) PROVE u[i] = v[i]
  <2>1. CASE i \in 1..Len(o)
    BY <1>1, <1>3, <1>4, <2>1, OfType
  <2>2. CASE i = Len(o) + 1
    BY <1>1, <1>3, <1>4, <2>2
  <2> QED
    BY <1>1, <2>1, <2>2
<1>6. u = v
  BY <1>3, <1>4, <1>5, SeqEqual, Zenon
<1> QED
  BY <1>6 DEF u, v

LEMMA Joined ==
  ASSUME NEW X, NEW s \in Seq(X), NEW t \in Seq(X), NEW m, NEW n, Len(s) = m, Len(t) = n
  PROVE  /\ s \o t \in Seq(X) /\ Len(s \o t) = m + n
         /\ \A i \in 1..(m + n) : (s \o t)[i] = IF i <= m THEN s[i] ELSE t[i - m]
BY ConcatProperties

LEMMA OfGroups ==
  ASSUME NEW o \in Seq(Pieces), NEW d \in Seq(Field!Bytes)
  PROVE  /\ Field!Groups(d) \in Seq(Pieces)
         /\ Len(Field!Groups(d)) = Len(d) \div 3
         /\ \A i \in 1..(Len(d) \div 3) : Len(Field!Groups(d)[i].of) = 3
         /\ Of(o \o Field!Groups(d)) =
               Of(o) \o [i \in 1..(Len(d) \div 3) |-> SubSeq(d, 3 * i - 2, 3 * i)]
<1> DEFINE n == Len(d) \div 3
           G == [i \in 1..n |-> SubSeq(d, 3 * i - 2, 3 * i)]
           g == Field!Groups(d)
           u == Of(o \o g)
           v == Of(o) \o G
<1>1. Len(d) \in Nat /\ n \in Nat /\ 3 * n <= Len(d) /\ Len(o) \in Nat
  OBVIOUS
<1> HIDE DEF n
<1>2. ASSUME NEW i \in 1..n
      PROVE  /\ SubSeq(d, 3 * i - 2, 3 * i) \in Seq(Field!Bytes)
             /\ Len(SubSeq(d, 3 * i - 2, 3 * i)) = 3
  <2>1. 3 * i - 2 \in 1..Len(d) /\ 3 * i \in 1..Len(d)
    BY <1>1, <1>2
  <2> QED
    BY <2>1
<1>3. G \in Seq(Seq(Field!Bytes)) /\ Len(G) = n
      /\ \A i \in 1..n : G[i] = SubSeq(d, 3 * i - 2, 3 * i)
  BY <1>1, <1>2
<1>4. g \in Seq(Pieces) /\ Len(g) = n /\ \A i \in 1..n : g[i].of = G[i]
  <2>1. g = [i \in 1..n |-> [escaped |-> FALSE, of |-> SubSeq(d, 3 * i - 2, 3 * i)]]
    BY DEF Field!Groups, Field!Group, n
  <2>2. \A i \in 1..n :
           [escaped |-> FALSE, of |-> SubSeq(d, 3 * i - 2, 3 * i)] \in Pieces
    BY <1>2 DEF Pieces
  <2> HIDE DEF g
  <2>3. g \in [1..n -> Pieces]
    BY <2>1, <2>2
  <2>4. g \in Seq(Pieces) /\ Len(g) = n
    BY <1>1, <2>3
  <2>5. \A i \in 1..n : g[i].of = SubSeq(d, 3 * i - 2, 3 * i)
    BY <2>1
  <2> QED
    BY <1>3, <2>4, <2>5
<1> HIDE DEF G, g
<1>5. o \o g \in Seq(Pieces) /\ Len(o \o g) = Len(o) + n
      /\ \A i \in 1..(Len(o) + n) :
            (o \o g)[i] = IF i <= Len(o) THEN o[i] ELSE g[i - Len(o)]
  BY <1>4, Joined
<1>6. u \in Seq(Seq(Field!Bytes)) /\ Len(u) = Len(o) + n
      /\ \A i \in 1..(Len(o) + n) : u[i] = (o \o g)[i].of
  BY <1>5, OfType
<1>7. v \in Seq(Seq(Field!Bytes)) /\ Len(v) = Len(o) + n
      /\ \A i \in 1..(Len(o) + n) :
            v[i] = IF i <= Len(o) THEN Of(o)[i] ELSE G[i - Len(o)]
  <2>1. Of(o) \in Seq(Seq(Field!Bytes)) /\ Len(Of(o)) = Len(o)
    BY OfType
  <2> QED
    BY <1>3, <2>1, Joined
<1> HIDE DEF u, v
<1>8. ASSUME NEW i \in 1..(Len(o) + n) PROVE u[i] = v[i]
  <2>1. CASE i <= Len(o)
    <3>1. i \in 1..Len(o)
      BY <1>1, <2>1
    <3> QED
      BY <1>5, <1>6, <1>7, <2>1, <3>1, OfType
  <2>2. CASE ~(i <= Len(o))
    <3>1. i - Len(o) \in 1..n
      BY <1>1, <2>2
    <3> QED
      BY <1>4, <1>5, <1>6, <1>7, <2>2, <3>1
  <2> QED
    BY <2>1, <2>2
<1>9. u = v
  BY <1>6, <1>7, <1>8, SeqEqual, Zenon
<1> QED
  BY <1>2, <1>3, <1>4, <1>9 DEF n, G, g, u, v

LEMMA DecodedIs == Field!Decoded = FlattenSeq(Of(out))
BY DEF Field!Decoded, Of, Field!FlattenSeq, FlattenSeq

\* The piece written for a character stands for its bytes.
LEMMA PieceIsRune ==
  ASSUME NEW s \in Seq(Field!Bytes), NEW p \in Nat, NEW q \in (p + 1)..Len(s),
         Field!StartsRune(SubSeq(s, p + 1, q))
  PROVE  LET e == Field!Escaped(Field!DecodeRune(SubSeq(s, p + 1, q)))
         IN  /\ e \in Pieces
             /\ e.of = SubSeq(s, p + 1, p + Field!Need(s[p + 1]))
             /\ e.escaped <=> "q" \in Range(e.of)
<1> DEFINE k == Field!Need(s[p + 1])
           d == SubSeq(s, p + 1, q)
           e == Field!Escaped(Field!DecodeRune(d))
           c == [i \in 1..(k - 1) |-> "c"]
           b == s[p + 1]
<1>1. Head(d) = b /\ k \in 1..3 /\ Len(s) \in Nat /\ q \in Nat /\ b \in Field!Bytes
      /\ k - 1 \in Nat
  BY PieceOf, Needs
<1>2. /\ b \notin {"c", "x"} /\ p + k <= q /\ \A i \in 2..k : s[p + i] = "c"
  BY StartsRuneAt
<1>3. e.escaped = (b = "q") /\ e.of = <<b>> \o c /\ e = [escaped |-> e.escaped, of |-> e.of]
  BY <1>1 DEF Field!Escaped, Field!DecodeRune
<1> HIDE DEF k, d, e
<1>4. c \in Seq(Field!Bytes) /\ Len(c) = k - 1 /\ \A i \in 1..(k - 1) : c[i] = "c"
  BY <1>1 DEF Field!Bytes
<1>5. <<b>> \in Seq(Field!Bytes) /\ Len(<<b>>) = 1 /\ <<b>>[1] = b
  BY <1>1
<1> HIDE DEF c
<1>6. /\ e.of \in Seq(Field!Bytes) /\ Len(e.of) = k
      /\ \A i \in 1..k : e.of[i] = IF i = 1 THEN b ELSE "c"
  BY <1>1, <1>3, <1>4, <1>5, SMTT(30)
<1>7. e.of = SubSeq(s, p + 1, p + k)
  <2> DEFINE t == SubSeq(s, p + 1, p + k)
  <2>1. p + k \in (p + 1)..Len(s) /\ (p + k) - p = k
    BY <1>1, <1>2
  <2>2. t \in Seq(Field!Bytes) /\ Len(t) = k /\ \A i \in 1..k : t[i] = s[p + i]
    BY <2>1, PieceOf
  <2>3. ASSUME NEW i \in 1..k PROVE e.of[i] = t[i]
    <3>1. i = 1 \/ i \in 2..k
      BY <1>1
    <3> HIDE DEF t
    <3> QED
      BY <1>2, <1>6, <2>2, <3>1
  <2> HIDE DEF t
  <2>4. e.of = t
    BY <1>6, <2>2, <2>3, SeqEqual, Zenon
  <2> QED
    BY <2>4 DEF t
<1>8. e.escaped <=> "q" \in Range(e.of)
  <2>1. DOMAIN e.of = 1..k
    BY <1>6
  <2>2. Range(e.of) = {e.of[i] : i \in 1..k}
    BY <2>1 DEF Range
  <2>3. "q" \in Range(e.of) <=> \E i \in 1..k : e.of[i] = "q"
    BY <2>2
  <2>4. 1 \in 1..k
    BY <1>1
  <2>5. (\E i \in 1..k : e.of[i] = "q") <=> b = "q"
    BY <1>6, <2>4
  <2> QED
    BY <1>3, <2>3, <2>5
<1>9. e \in Pieces
  <2>1. e.escaped \in BOOLEAN
    BY <1>3
  <2> QED
    BY <1>3, <1>6, <2>1 DEF Pieces
<1> QED
  BY <1>7, <1>8, <1>9 DEF k, e, d

-----------------------------------------------------------------------------
LEMMA WrittenStays ==
  ASSUME WrittenSoFar, UNCHANGED <<stream, encoding, out>>,
         pass' = pass \/ (pass # "done" /\ pass' # "done")
  PROVE  WrittenSoFar' /\ Field!Decoded' = Field!Decoded
<1>1. Field!Decoded' = Field!Decoded
  BY DEF Field!Decoded
<1>2. Field!IsUTF8(stream)' = Field!IsUTF8(stream)
  OBVIOUS
<1> QED
  BY <1>1, <1>2 DEF WrittenSoFar

LEMMA ChunkStep ==
  ASSUME FieldInv, NEW n \in 1..MaxLen, Field!WriteChunk(n)
  PROVE  FieldInv'
<1>1. /\ pass \in {"validate", "text"} /\ Field!More(n)
      /\ UNCHANGED <<stream, pass, valid, encoding, out>>
  BY DEF Field!WriteChunk
<1>2. WrittenSoFar' /\ Field!Decoded' = Field!Decoded
  BY <1>1, WrittenStays DEF FieldInv
<1>3. CASE pass = "validate" /\ ~valid
  <2>1. UNCHANGED <<data, tail>>
    BY <1>3 DEF Field!WriteChunk
  <2>2. read' \in 0..Len(stream)
    BY <1>1 DEF Field!More, FieldInv, FieldTypes
  <2>3. FieldTypes'
    BY <1>1, <2>1, <2>2 DEF FieldInv, FieldTypes
  <2>4. Validating' /\ WritingText' /\ WritingBase64'
    BY <1>1, <1>3, <2>1 DEF FieldInv, Validating, WritingText, WritingBase64
  <2> QED
    BY <1>2, <2>3, <2>4 DEF FieldInv
<1>4. CASE ~(pass = "validate" /\ ~valid)
  <2>1. data' = tail \o Field!Chunk(n) /\ tail' = <<>>
    BY <1>4 DEF Field!WriteChunk
  <2>2. FieldTypes /\ Window
    BY <1>1, <1>4 DEF FieldInv, Validating, WritingText
  <2>3. Window' /\ read' \in 0..Len(stream) /\ data' \in Seq(Field!Bytes) /\ Pos' = Pos
    BY <1>1, <2>1, <2>2, WindowGrows
  <2>4. FieldTypes'
    BY <1>1, <2>1, <2>2, <2>3 DEF FieldTypes
  <2>5. Validating'
    BY <1>1, <1>4, <2>3 DEF FieldInv, Validating
  <2>6. WritingText'
    <3> HIDE DEF Pos
    <3> QED
      BY <1>1, <1>2, <2>3 DEF FieldInv, WritingText
  <2>7. WritingBase64'
    BY <1>1 DEF WritingBase64
  <2> QED
    BY <1>2, <2>4, <2>5, <2>6, <2>7 DEF FieldInv
<1> QED
  BY <1>3, <1>4

LEMMA KeepStep == ASSUME FieldInv, Field!KeepTail PROVE FieldInv'
<1>1. /\ pass \in {"validate", "text"} /\ data # <<>> /\ ~Field!FullRune(data)
      /\ tail' = data /\ data' = <<>>
      /\ UNCHANGED <<stream, pass, read, valid, encoding, out>>
  BY DEF Field!KeepTail
<1>2. WrittenSoFar' /\ Field!Decoded' = Field!Decoded
  BY <1>1, WrittenStays DEF FieldInv
<1>3. FieldTypes /\ Window
  BY <1>1 DEF FieldInv, Validating, WritingText
<1>4. Window' /\ Pos' = Pos
  BY <1>1, <1>3, WindowKept
<1>5. FieldTypes'
  BY <1>1, <1>3 DEF FieldTypes
<1>6. Validating' /\ WritingText' /\ WritingBase64'
  BY <1>1, <1>2, <1>4 DEF FieldInv, Validating, WritingText, WritingBase64
<1> QED
  BY <1>2, <1>5, <1>6 DEF FieldInv

LEMMA ValidateStep == ASSUME FieldInv, Field!ValidateRune PROVE FieldInv'
<1>1. /\ pass = "validate" /\ data # <<>> /\ Field!FullRune(data)
      /\ UNCHANGED <<stream, pass, read, tail, encoding, out>>
  BY DEF Field!ValidateRune
<1>2. WrittenSoFar' /\ Field!Decoded' = Field!Decoded
  BY <1>1, WrittenStays DEF FieldInv
<1>3. FieldTypes /\ Window /\ valid = TRUE
  BY <1>1 DEF FieldInv, FieldTypes, Validating
<1>4. /\ data = SubSeq(stream, Pos + 1, read) /\ Pos \in Nat
      /\ read \in (Pos + 1)..Len(stream) /\ Pos < Len(stream)
      /\ stream \in Seq(Field!Bytes)
  BY <1>1, <1>3, AtHand DEF FieldTypes
<1>5. CASE Field!StartsRune(data)
  <2>1. Field!DecodeRune(data) # [rune |-> Field!RuneError, size |-> 1]
    BY <1>5 DEF Field!DecodeRune, Field!RuneError, Field!Need
  <2>2. data' = Field!Rest(data) /\ valid' = valid
    BY <2>1 DEF Field!ValidateRune
  <2>3. Window' /\ data' \in Seq(Field!Bytes)
    BY <1>1, <1>3, <1>5, <2>2, WindowMoves
  <2>4. FieldTypes' /\ Validating' /\ WritingText' /\ WritingBase64'
    BY <1>1, <1>3, <2>2, <2>3
    DEF FieldInv, FieldTypes, Validating, WritingText, WritingBase64
  <2> QED
    BY <1>2, <2>4 DEF FieldInv
<1>6. CASE ~Field!StartsRune(data)
  <2>1. Field!DecodeRune(data) = [rune |-> Field!RuneError, size |-> 1]
    BY <1>6 DEF Field!DecodeRune
  <2>2. valid' = FALSE /\ data' = <<>>
    BY <2>1 DEF Field!ValidateRune
  <2>3. ~RuneAt(stream, Pos + 1)
    BY <1>1, <1>4, <1>6, FullRuneDecides
  <2>4. ~Field!IsUTF8(stream)
    <3>1. Boundary(stream, Pos)
      BY <1>3 DEF Window
    <3> QED
      BY <1>4, <2>3, <3>1, BoundaryNext
  <2>5. data' \in Seq(Field!Bytes) /\ valid' \in BOOLEAN
    <3>1. <<>> \in Seq(Field!Bytes)
      OBVIOUS
    <3>2. data' \in Seq(Field!Bytes)
      BY <2>2, <3>1, Zenon
    <3>3. valid' \in BOOLEAN
      BY <2>2, Zenon
    <3> QED
      BY <3>2, <3>3
  <2>6. FieldTypes'
    BY <1>1, <1>3, <2>5 DEF FieldTypes
  <2>7. ~Field!IsUTF8(stream)' /\ valid' # TRUE
    BY <1>1, <2>2, <2>4
  <2>8. encoding' = "none" /\ out' = <<>> /\ pass' = "validate"
    BY <1>1 DEF FieldInv, Validating
  <2>9. Validating' /\ WritingText' /\ WritingBase64'
    BY <2>2, <2>7, <2>8 DEF Validating, WritingText, WritingBase64
  <2> QED
    BY <1>2, <2>6, <2>9 DEF FieldInv
<1> QED
  BY <1>5, <1>6

\* At the end of a stream that is UTF-8 nothing is kept back.
LEMMA NothingKept ==
  ASSUME FieldTypes, Window, data = <<>>, read = Len(stream), Field!IsUTF8(stream)
  PROVE  tail = <<>> /\ Pos = Len(stream)
<1>1. Pos = read - Len(tail) /\ tail = SubSeq(stream, Pos + 1, read)
      /\ Pos \in Nat /\ Len(tail) \in Nat /\ Len(stream) \in Nat
  BY AtRest DEF FieldTypes, Window
<1>2. tail = <<>>
  <2> SUFFICES ASSUME tail # <<>> PROVE FALSE
    OBVIOUS
  <2>1. Len(tail) # 0 /\ ~Field!FullRune(tail)
    BY DEF FieldTypes, Window
  <2>2. read \in (Pos + 1)..Len(stream) /\ Pos < Len(stream)
    BY <1>1, <2>1
  <2>3. RuneAt(stream, Pos + 1)
    BY <1>1, <2>2, BoundaryNext DEF FieldTypes, Window
  <2>4. Field!StartsRune(tail)
    BY <1>1, <2>2, <2>3, FullRuneDecides DEF FieldTypes
  <2> QED
    BY <2>1, <2>4 DEF Field!StartsRune, Field!FullRune
<1> QED
  BY <1>1, <1>2

LEMMA ChooseStep == ASSUME FieldInv, Field!ChooseEncoding PROVE FieldInv'
<1>1. /\ pass = "validate" /\ read = Len(stream) /\ data = <<>>
      /\ read' = 0 /\ tail' = <<>> /\ UNCHANGED <<stream, data, valid, out>>
      /\ FieldTypes /\ encoding = "none" /\ out = <<>>
  BY DEF Field!ChooseEncoding, FieldInv, Validating
<1>2. /\ stream \in Seq(Field!Bytes) /\ Len(stream) \in Nat /\ valid \in BOOLEAN
  BY <1>1 DEF FieldTypes
<1>3. Field!Decoded' = <<>>
  <2>1. Of(<<>>) = <<>> /\ out' = <<>>
    BY <1>1 DEF Of
  <2>2. Field!Decoded' = FlattenSeq(Of(out'))
    BY DEF Field!Decoded, Of, Field!FlattenSeq, FlattenSeq
  <2> QED
    BY <2>1, <2>2, FlattenEmpty
<1>4. Pos' = 0 /\ SubSeq(stream, 1, 0) = <<>> /\ Boundary(stream, 0)
      /\ 0 \in 0..Len(stream)
  <2>1. Len(tail') = 0 /\ Len(data') = 0 /\ read' = 0
    <3>1. tail' = <<>> /\ data' = <<>> /\ read' = 0
      BY <1>1
    <3>2. Len(<<>>) = 0
      OBVIOUS
    <3> QED
      BY <3>1, <3>2, Zenon
  <2>2. Pos' = 0
    BY <2>1 DEF Pos
  <2>3. SubSeq(stream, 1, 0) = <<>>
    BY <1>2
  <2>4. Boundary(stream, 0)
    BY DEF Boundary
  <2> QED
    BY <1>2, <2>2, <2>3, <2>4
<1>5. CASE valid /\ tail = <<>>
  <2>1. pass' = "text" /\ encoding' = "utf-8"
    BY <1>5 DEF Field!ChooseEncoding
  <2>2. Window
    BY <1>1, <1>5 DEF FieldInv, Validating
  <2>3. Pos = Len(stream)
    BY <1>1, <1>2, <1>5, <2>2, AtRest
  <2>4. Field!IsUTF8(stream)
    BY <1>2, <2>2, <2>3, BoundaryAtEnd DEF Window
  <2>5. Window'
    <3>1. tail' \o data' = SubSeq(stream', 0 + 1, read')
      BY <1>1, <1>4
    <3> QED
      BY <1>1, <1>4, <3>1 DEF Window
  <2>6. WritingText'
    BY <1>1, <1>3, <1>4, <2>1, <2>5 DEF WritingText
  <2>7. WrittenSoFar'
    BY <1>1, <1>2, <1>3, <1>4, <2>1, <2>4 DEF WrittenSoFar
  <2>8. FieldTypes' /\ Validating' /\ WritingBase64'
    BY <1>1, <1>2, <2>1 DEF FieldTypes, Validating, WritingBase64
  <2> QED
    BY <2>6, <2>7, <2>8 DEF FieldInv
<1>6. CASE ~(valid /\ tail = <<>>)
  <2>1. pass' = "base64" /\ encoding' = "base64"
    BY <1>6 DEF Field!ChooseEncoding
  <2>2. ~Field!IsUTF8(stream)
    BY <1>1, <1>2, <1>6, NothingKept DEF FieldInv, Validating
  <2>3. WritingBase64'
    BY <1>1, <1>2, <1>3, <1>4, <2>1 DEF WritingBase64
  <2>4. WrittenSoFar'
    BY <1>1, <1>2, <1>3, <1>4, <2>1, <2>2 DEF WrittenSoFar
  <2>5. FieldTypes' /\ Validating' /\ WritingText'
    BY <1>1, <1>2, <2>1 DEF FieldTypes, Validating, WritingText
  <2> QED
    BY <2>3, <2>4, <2>5 DEF FieldInv
<1> QED
  BY <1>5, <1>6

-----------------------------------------------------------------------------
LEMMA PartsFromStart ==
  ASSUME NEW X, NEW s \in Seq(X), NEW b \in 0..Len(s), NEW c \in b..Len(s)
  PROVE  /\ SubSeq(s, 1, b) \o SubSeq(s, b + 1, c) = SubSeq(s, 1, c)
         /\ SubSeq(s, 1, b) \in Seq(X) /\ SubSeq(s, b + 1, c) \in Seq(X)
<1>1. 1 \in 1..(Len(s) + 1) /\ b \in (1 - 1)..Len(s) /\ c \in b..Len(s)
  OBVIOUS
<1>2. SubSeq(s, 1, b) \o SubSeq(s, b + 1, c) = SubSeq(s, 1, c)
  BY <1>1, ConcatAdjacentSubSeq, Zenon
<1>3. SubSeq(s, 1, b) \in Seq(X) /\ SubSeq(s, b + 1, c) \in Seq(X)
  OBVIOUS
<1> QED
  BY <1>2, <1>3

LEMMA WriteRuneStep == ASSUME FieldInv, Field!WriteRune PROVE FieldInv'
<1> DEFINE e == Field!Escaped(Field!DecodeRune(data))
           k == Field!Need(stream[Pos + 1])
           q == Pos
           s == stream
<1>1. /\ pass = "text" /\ data # <<>> /\ Field!FullRune(data)
      /\ out' = Append(out, e) /\ data' = Field!Rest(data)
      /\ UNCHANGED <<stream, pass, read, tail, valid, encoding>>
  BY DEF Field!WriteRune
<1>2. /\ FieldTypes /\ Window /\ encoding = "utf-8"
      /\ Field!Decoded = SubSeq(stream, 1, Pos) /\ Field!IsUTF8(stream)
  BY <1>1 DEF FieldInv, WritingText, WrittenSoFar
<1>3. /\ data = SubSeq(stream, Pos + 1, read) /\ Pos \in Nat
      /\ read \in (Pos + 1)..Len(stream) /\ Pos < Len(stream)
      /\ stream \in Seq(Field!Bytes) /\ out \in Seq(Pieces)
  BY <1>1, <1>2, AtHand DEF FieldTypes
<1>4. RuneAt(stream, Pos + 1)
  BY <1>2, <1>3, BoundaryNext DEF Window
<1>5. Field!StartsRune(data)
  BY <1>1, <1>3, <1>4, FullRuneDecides
<1>6. /\ Window' /\ data' \in Seq(Field!Bytes) /\ Pos' = Pos + k
      /\ Pos' \in Nat /\ Pos' <= Len(stream)
  BY <1>1, <1>2, <1>5, WindowMoves
<1>7. /\ e \in Pieces /\ e.of = SubSeq(stream, Pos + 1, Pos + k)
      /\ e.escaped <=> "q" \in Range(e.of)
  BY <1>3, <1>5, PieceIsRune
<1>8. Field!Decoded' = SubSeq(stream, 1, Pos + k)
  <2>1. Field!Decoded' = FlattenSeq(Of(out'))
    BY DEF Field!Decoded, Of, Field!FlattenSeq, FlattenSeq
  <2> HIDE DEF e, k
  <2>2. Of(out') = Append(Of(out), e.of)
    BY <1>1, <1>3, <1>7, OfAppend
  <2>3. FlattenSeq(Append(Of(out), e.of)) = FlattenSeq(Of(out)) \o e.of
    <3>1. Of(out) \in Seq(Seq(Field!Bytes)) /\ e.of \in Seq(Field!Bytes)
      BY <1>3, <1>7, OfType DEF Pieces
    <3> QED
      BY <3>1, FlattenAppend
  <2>4. SubSeq(stream, 1, Pos) \o SubSeq(stream, Pos + 1, Pos + k)
           = SubSeq(stream, 1, Pos + k)
    <3>1. k \in 1..3 /\ Len(stream) \in Nat
      BY <1>3, Needs DEF k
    <3>2. Pos \in 0..Len(stream) /\ Pos + k \in Pos..Len(stream)
      BY <1>3, <1>6, <3>1
    <3> HIDE DEF Pos
    <3> QED
      BY <1>3, <3>2, PartsFromStart
  <2>5. FlattenSeq(Of(out)) = SubSeq(stream, 1, Pos)
    BY <1>2, DecodedIs
  <2>6. Field!Decoded' = SubSeq(stream, 1, Pos) \o SubSeq(stream, Pos + 1, Pos + k)
    BY <1>7, <2>1, <2>2, <2>3, <2>5, Zenon
  <2> QED
    BY <2>4, <2>6, Zenon
<1> HIDE DEF e, k
<1>9. FieldTypes'
  <2>1. out' \in Seq(Pieces)
    BY <1>1, <1>3, <1>7
  <2> QED
    BY <1>1, <1>2, <1>6, <2>1 DEF FieldTypes
<1>10. Validating' /\ WritingBase64'
  BY <1>1 DEF Validating, WritingBase64
<1>11. WritingText'
  BY <1>1, <1>2, <1>6, <1>8 DEF WritingText
<1>12. WrittenSoFar'
  <2>1. \E m \in 0..Len(stream) : Field!Decoded' = SubSeq(stream, 1, m)
    <3>1. Pos + k \in 0..Len(stream)
      BY <1>3, <1>6
    <3> QED
      BY <1>8, <3>1
  <2>2. ASSUME NEW i \in DOMAIN out'
        PROVE  out'[i].escaped <=> "q" \in Range(out'[i].of)
    <3>1. /\ DOMAIN out' = 1..(Len(out) + 1) /\ DOMAIN out = 1..Len(out)
          /\ Len(out) \in Nat /\ out'[Len(out) + 1] = e
          /\ \A j \in 1..Len(out) : out'[j] = out[j]
      BY <1>1, <1>3, <1>7
    <3>2. CASE i = Len(out) + 1
      BY <1>7, <3>1, <3>2
    <3>3. CASE i \in 1..Len(out)
      BY <1>2, <3>1, <3>3 DEF FieldInv, WrittenSoFar
    <3> QED
      BY <2>2, <3>1, <3>2, <3>3
  <2> QED
    BY <1>1, <1>2, <2>1, <2>2 DEF WrittenSoFar
<1> QED
  BY <1>9, <1>10, <1>11, <1>12 DEF FieldInv

LEMMA EndTextStep == ASSUME FieldInv, Field!EndText PROVE FieldInv'
<1>1. /\ pass = "text" /\ read = Len(stream) /\ data = <<>>
      /\ pass' = IF tail = <<>> THEN "done" ELSE "failed"
      /\ UNCHANGED <<stream, read, data, tail, valid, encoding, out>>
  BY DEF Field!EndText
<1>2. /\ FieldTypes /\ Window /\ encoding = "utf-8"
      /\ Field!Decoded = SubSeq(stream, 1, Pos) /\ Field!IsUTF8(stream)
  BY <1>1 DEF FieldInv, WritingText, WrittenSoFar
<1>3. Field!Decoded = stream
  <2>1. Pos = Len(stream)
    BY <1>1, <1>2, NothingKept
  <2>2. SubSeq(stream, 1, Len(stream)) = stream
    BY <1>2 DEF FieldTypes
  <2> QED
    BY <1>2, <2>1, <2>2
<1>4. Field!Decoded' = Field!Decoded /\ Field!IsUTF8(stream)' = Field!IsUTF8(stream)
  BY <1>1 DEF Field!Decoded
<1>5. WrittenSoFar'
  BY <1>1, <1>2, <1>3, <1>4 DEF FieldInv, WrittenSoFar
<1>6. FieldTypes' /\ Validating' /\ WritingText' /\ WritingBase64'
  BY <1>1, <1>2 DEF FieldTypes, Validating, WritingText, WritingBase64
<1> QED
  BY <1>5, <1>6 DEF FieldInv

\* The beginning of a beginning.
LEMMA PartOfPrefix ==
  ASSUME NEW X, NEW s \in Seq(X), NEW r \in 0..Len(s), NEW u \in Seq(X), NEW v \in Seq(X),
         u \o v = SubSeq(s, 1, r)
  PROVE  Len(u) \in 0..Len(s) /\ u = SubSeq(s, 1, Len(u))
<1>1. Len(u) \in Nat /\ Len(v) \in Nat /\ Len(s) \in Nat /\ r \in Nat
  OBVIOUS
<1>2. Len(SubSeq(s, 1, r)) = r /\ \A i \in 1..r : SubSeq(s, 1, r)[i] = s[i]
  OBVIOUS
<1>3. Len(u \o v) = Len(u) + Len(v)
      /\ \A i \in 1..(Len(u) + Len(v)) :
            (u \o v)[i] = IF i <= Len(u) THEN u[i] ELSE v[i - Len(u)]
  BY ConcatProperties
<1>4. Len(u) + Len(v) = r /\ Len(u) <= Len(s)
  BY <1>1, <1>2, <1>3
<1>5. \A i \in 1..Len(u) : u[i] = s[i]
  BY <1>1, <1>2, <1>3, <1>4
<1>6. /\ SubSeq(s, 1, Len(u)) \in Seq(X) /\ Len(SubSeq(s, 1, Len(u))) = Len(u)
      /\ \A i \in 1..Len(u) : SubSeq(s, 1, Len(u))[i] = s[i]
  BY <1>1, <1>4
<1>7. u = SubSeq(s, 1, Len(u))
  <2>1. \A i \in 1..Len(u) : u[i] = SubSeq(s, 1, Len(u))[i]
    BY <1>5, <1>6
  <2> QED
    BY <1>6, <2>1, SeqEqual
<1> QED
  BY <1>1, <1>4, <1>7

LEMMA Base64Step ==
  ASSUME FieldInv, NEW n \in 1..MaxLen, Field!WriteBase64(n)
  PROVE  FieldInv'
<1> DEFINE d == tail \o Field!Chunk(n)
           m == Len(d) \div 3
<1>1. /\ pass = "base64" /\ data = <<>> /\ n \in 1..(Len(stream) - read)
      /\ read' = read + n
      /\ out' = out \o Field!Groups(d) /\ tail' = SubSeq(d, 3 * m + 1, Len(d))
      /\ UNCHANGED <<stream, pass, data, valid, encoding>>
  BY DEF Field!WriteBase64, Field!More
<1>2. /\ FieldTypes /\ encoding = "base64" /\ Field!Decoded \o tail = SubSeq(stream, 1, read)
      /\ \A i \in DOMAIN out : Len(out[i].of) = 3
  BY <1>1 DEF FieldInv, WritingBase64
<1>3. /\ stream \in Seq(Field!Bytes) /\ Len(stream) \in Nat /\ read \in Nat
      /\ tail \in Seq(Field!Bytes) /\ out \in Seq(Pieces) /\ n \in Nat
      /\ read \in 0..Len(stream) /\ read + n \in read..Len(stream) /\ 0 \in Nat
  BY <1>1, <1>2 DEF FieldTypes
<1>4. /\ Field!Chunk(n) \in Seq(Field!Bytes)
      /\ SubSeq(stream, 1, read) \o Field!Chunk(n) = SubSeq(stream, 1, read + n)
  BY <1>3, PartsFromStart DEF Field!Chunk
<1>5. d \in Seq(Field!Bytes) /\ Len(d) \in Nat
  <2>1. \A u, v \in Seq(Field!Bytes) : u \o v \in Seq(Field!Bytes)
    BY ConcatProperties
  <2>2. d \in Seq(Field!Bytes)
    BY <1>3, <1>4, <2>1
  <2> QED
    BY <2>2
<1> HIDE DEF d
<1>6. m \in Nat /\ 3 * m <= Len(d)
  BY <1>5
<1>7. /\ Field!Groups(d) \in Seq(Pieces) /\ Len(Field!Groups(d)) = m
      /\ \A i \in 1..m : Len(Field!Groups(d)[i].of) = 3
      /\ Of(out') = Of(out) \o [i \in 1..m |-> SubSeq(d, 3 * i - 2, 3 * i)]
  BY <1>1, <1>3, <1>5, OfGroups
<1> HIDE DEF m
<1>8. Field!Decoded \in Seq(Field!Bytes) /\ Field!Decoded = FlattenSeq(Of(out))
      /\ Of(out) \in Seq(Seq(Field!Bytes))
  BY <1>3, DecodedIs, OfType, FlattenType
<1>9. Field!Decoded' = Field!Decoded \o SubSeq(d, 1, 3 * m)
  <2>1. Field!Decoded' = FlattenSeq(Of(out'))
    BY DEF Field!Decoded, Of, Field!FlattenSeq, FlattenSeq
  <2>2. FlattenSeq(Of(out) \o [i \in 1..m |-> SubSeq(d, 3 * i - 2, 3 * i)])
           = FlattenSeq(Of(out)) \o SubSeq(d, 1, 3 * m)
    BY <1>5, <1>6, <1>8, GroupsAre
  <2> QED
    BY <1>7, <1>8, <2>1, <2>2
<1>10. /\ SubSeq(d, 1, 3 * m) \o tail' = d
       /\ SubSeq(d, 1, 3 * m) \in Seq(Field!Bytes) /\ tail' \in Seq(Field!Bytes)
  <2>1. 3 * m \in 0..Len(d) /\ Len(d) \in (3 * m)..Len(d)
    BY <1>5, <1>6
  <2>2. /\ SubSeq(d, 1, 3 * m) \o SubSeq(d, 3 * m + 1, Len(d)) = SubSeq(d, 1, Len(d))
        /\ SubSeq(d, 1, 3 * m) \in Seq(Field!Bytes)
        /\ SubSeq(d, 3 * m + 1, Len(d)) \in Seq(Field!Bytes)
    BY <1>5, <2>1, PartsFromStart
  <2>3. SubSeq(d, 1, Len(d)) = d
    BY <1>5, SubSeqFull
  <2>4. tail' = SubSeq(d, 3 * m + 1, Len(d))
    BY <1>1
  <2> QED
    BY <2>2, <2>3, <2>4, Zenon
<1>11. Field!Decoded' \o tail' = SubSeq(stream, 1, read + n)
       /\ Field!Decoded' \in Seq(Field!Bytes)
  <2>1. \A u, v, w \in Seq(Field!Bytes) : (u \o v) \o w = u \o (v \o w)
    BY ConcatAssociative
  <2>2. Field!Decoded' \o tail' = Field!Decoded \o d
    <3>1. (Field!Decoded \o SubSeq(d, 1, 3 * m)) \o tail'
             = Field!Decoded \o (SubSeq(d, 1, 3 * m) \o tail')
      BY <1>8, <1>10, <2>1
    <3> QED
      BY <1>9, <1>10, <3>1, Zenon
  <2>3. Field!Decoded \o d = (Field!Decoded \o tail) \o Field!Chunk(n)
    BY <1>3, <1>4, <1>8, <2>1 DEF d
  <2>4. Field!Decoded' \in Seq(Field!Bytes)
    BY <1>8, <1>9, <1>10, ConcatProperties
  <2> QED
    BY <1>2, <1>4, <2>2, <2>3, <2>4
<1>12. out' \in Seq(Pieces) /\ \A i \in DOMAIN out' : Len(out'[i].of) = 3
  <2>1. /\ out' \in Seq(Pieces) /\ Len(out') = Len(out) + m
        /\ \A i \in 1..(Len(out) + m) :
              out'[i] = IF i <= Len(out) THEN out[i] ELSE Field!Groups(d)[i - Len(out)]
    <3> DEFINE g == Field!Groups(d)
    <3>1. g \in Seq(Pieces) /\ Len(g) = m /\ out' = out \o g
      BY <1>1, <1>7
    <3> HIDE DEF g
    <3>2. /\ out \o g \in Seq(Pieces) /\ Len(out \o g) = Len(out) + Len(g)
          /\ \A i \in 1..(Len(out) + Len(g)) :
                (out \o g)[i] = IF i <= Len(out) THEN out[i] ELSE g[i - Len(out)]
      <4>1. \A u, v \in Seq(Pieces) :
               /\ u \o v \in Seq(Pieces) /\ Len(u \o v) = Len(u) + Len(v)
               /\ \A i \in 1..(Len(u) + Len(v)) :
                     (u \o v)[i] = IF i <= Len(u) THEN u[i] ELSE v[i - Len(u)]
        BY ConcatProperties
      <4>2. out \in Seq(Pieces)
        BY <1>3
      <4> QED
        BY <3>1, <4>1, <4>2, Zenon
    <3> QED
      BY <3>1, <3>2, Zenon DEF g
  <2>2. Len(out) \in Nat /\ DOMAIN out = 1..Len(out) /\ DOMAIN out' = 1..(Len(out) + m)
    BY <1>3, <1>6, <2>1
  <2>3. ASSUME NEW i \in DOMAIN out' PROVE Len(out'[i].of) = 3
    <3>1. CASE i <= Len(out)
      <4>1. i \in DOMAIN out
        BY <1>6, <2>2, <2>3, <3>1
      <4> QED
        BY <1>2, <2>1, <2>2, <2>3, <3>1, <4>1
    <3>2. CASE ~(i <= Len(out))
      <4>1. i - Len(out) \in 1..m
        BY <1>6, <2>2, <2>3, <3>2
      <4> QED
        BY <1>7, <2>1, <2>2, <2>3, <3>2, <4>1
    <3> QED
      BY <3>1, <3>2
  <2> QED
    BY <2>1, <2>3
<1>13. FieldTypes'
  <2>1. read' \in 0..Len(stream')
    BY <1>1, <1>3
  <2> QED
    BY <1>1, <1>2, <1>10, <1>12, <2>1 DEF FieldTypes
<1>14. WritingBase64' /\ Validating' /\ WritingText'
  BY <1>1, <1>2, <1>11, <1>12 DEF WritingBase64, Validating, WritingText
<1>15. WrittenSoFar'
  <2>1. \E k \in 0..Len(stream) : Field!Decoded' = SubSeq(stream, 1, k)
    <3>1. read + n \in 0..Len(stream)
      BY <1>3
    <3> QED
      <4>1. \A u, v \in Seq(Field!Bytes) : u \o v = SubSeq(stream, 1, read + n) =>
               Len(u) \in 0..Len(stream) /\ u = SubSeq(stream, 1, Len(u))
        BY <1>3, <3>1, PartOfPrefix
      <4> QED
        BY <1>10, <1>11, <4>1, Zenon
  <2>2. Field!IsUTF8(stream)' = Field!IsUTF8(stream)
    BY <1>1
  <2> QED
    BY <1>1, <1>2, <1>12, <2>1, <2>2 DEF FieldInv, WrittenSoFar
<1> QED
  BY <1>13, <1>14, <1>15 DEF FieldInv

LEMMA CloseBase64Step == ASSUME FieldInv, Field!CloseBase64 PROVE FieldInv'
<1>1. /\ pass = "base64" /\ read = Len(stream) /\ pass' = "done"
      /\ out' = IF tail = <<>> THEN out ELSE Append(out, Field!Group(tail))
      /\ UNCHANGED <<stream, read, data, tail, valid, encoding>>
  BY DEF Field!CloseBase64
<1>2. /\ FieldTypes /\ encoding = "base64" /\ Field!Decoded \o tail = SubSeq(stream, 1, read)
      /\ \A i \in DOMAIN out : Len(out[i].of) = 3
  BY <1>1 DEF FieldInv, WritingBase64
<1>3. /\ stream \in Seq(Field!Bytes) /\ tail \in Seq(Field!Bytes) /\ out \in Seq(Pieces)
      /\ Len(stream) \in Nat
  BY <1>2 DEF FieldTypes
<1>4. /\ Field!Decoded = FlattenSeq(Of(out)) /\ Of(out) \in Seq(Seq(Field!Bytes))
      /\ Field!Decoded \in Seq(Field!Bytes)
  BY <1>3, DecodedIs, OfType, FlattenType
<1>5. Field!Decoded' = FlattenSeq(Of(out'))
  BY DEF Field!Decoded, Of, Field!FlattenSeq, FlattenSeq
<1>6. SubSeq(stream, 1, read) = stream
  BY <1>1, <1>3, SubSeqFull
<1>7. /\ Field!Decoded' = stream /\ out' \in Seq(Pieces)
      /\ \A i \in DOMAIN out' : Len(out'[i].of) = 3 \/ i = Len(out')
  <2>1. CASE tail = <<>>
    <3>1. out' = out
      BY <1>1, <2>1
    <3>2. Field!Decoded \o <<>> = Field!Decoded
      BY <1>4, ConcatEmptySeq
    <3> QED
      BY <1>2, <1>3, <1>4, <1>5, <1>6, <2>1, <3>1, <3>2
  <2>2. CASE tail # <<>>
    <3>1. out' = Append(out, Field!Group(tail))
      BY <1>1, <2>2
    <3>2. Field!Group(tail) \in Pieces /\ Field!Group(tail).of = tail
      BY <1>3 DEF Field!Group, Pieces
    <3>3. Of(out') = Append(Of(out), tail)
      BY <1>3, <3>1, <3>2, OfAppend
    <3>4. FlattenSeq(Append(Of(out), tail)) = FlattenSeq(Of(out)) \o tail
      BY <1>3, <1>4, FlattenAppend
    <3>5. Field!Decoded' = stream
      BY <1>2, <1>4, <1>5, <1>6, <3>3, <3>4
    <3>6. /\ out' \in Seq(Pieces) /\ Len(out) \in Nat /\ Len(out') = Len(out) + 1
          /\ DOMAIN out' = 1..(Len(out) + 1) /\ DOMAIN out = 1..Len(out)
          /\ \A i \in 1..Len(out) : out'[i] = out[i]
      <4> HIDE DEF Field!Group
      <4> QED
        BY <1>3, <3>1, <3>2
    <3>7. ASSUME NEW i \in DOMAIN out' PROVE Len(out'[i].of) = 3 \/ i = Len(out')
      BY <1>2, <3>6, <3>7
    <3> QED
      BY <3>5, <3>6, <3>7
  <2> QED
    BY <2>1, <2>2
<1>8. FieldTypes' /\ Validating' /\ WritingText' /\ WritingBase64'
  BY <1>1, <1>2, <1>7 DEF FieldTypes, Validating, WritingText, WritingBase64
<1>9. WrittenSoFar'
  <2>1. \E k \in 0..Len(stream) : Field!Decoded' = SubSeq(stream, 1, k)
    <3>1. read \in 0..Len(stream)
      BY <1>1, <1>3
    <3> QED
      BY <1>6, <1>7, <3>1
  <2>2. Field!IsUTF8(stream)' = Field!IsUTF8(stream)
    BY <1>1
  <2>3. encoding # "utf-8"
    BY <1>2
  <2> QED
    BY <1>1, <1>7, <2>1, <2>2, <2>3 DEF FieldInv, WrittenSoFar
<1> QED
  BY <1>8, <1>9 DEF FieldInv

LEMMA FieldFails == ASSUME FieldInv, Field!Fail PROVE FieldInv'
<1>1. /\ pass \in {"validate", "text", "base64"} /\ pass' = "failed"
      /\ UNCHANGED <<stream, read, data, tail, valid, encoding, out>>
  BY DEF Field!Fail
<1>2. WrittenSoFar'
  BY <1>1, WrittenStays DEF FieldInv
<1>3. FieldTypes' /\ Validating' /\ WritingText' /\ WritingBase64'
  BY <1>1 DEF FieldInv, FieldTypes, Validating, WritingText, WritingBase64
<1> QED
  BY <1>2, <1>3 DEF FieldInv

LEMMA FieldStutter == ASSUME FieldInv, UNCHANGED Field!vars PROVE FieldInv'
<1>1. UNCHANGED <<stream, pass, read, data, tail, valid, encoding, out>>
  BY DEF Field!vars
<1>2. WrittenSoFar' /\ Field!Decoded' = Field!Decoded
  BY <1>1, WrittenStays DEF FieldInv
<1>3. Window' <=> Window
  BY <1>1 DEF Window, Pos
<1>4. Pos' = Pos
  BY <1>1 DEF Pos
<1>5. Validating'
  BY <1>1, <1>3 DEF FieldInv, Validating
<1>6. WritingText' /\ WritingBase64' /\ FieldTypes'
  BY <1>1, <1>2, <1>3, <1>4 DEF FieldInv, FieldTypes, WritingText, WritingBase64
<1> QED
  BY <1>2, <1>5, <1>6 DEF FieldInv

LEMMA FieldStep == ASSUME FieldInv, Field!Next PROVE FieldInv'
<1>1. CASE \E n \in 1..MaxLen : Field!WriteChunk(n) \/ Field!WriteBase64(n)
  BY <1>1, ChunkStep, Base64Step
<1>2. CASE Field!Terminated
  BY <1>2, FieldStutter DEF Field!Terminated
<1> QED
  BY <1>1, <1>2, KeepStep, ValidateStep, ChooseStep, WriteRuneStep, EndTextStep,
     CloseBase64Step, FieldFails DEF Field!Next

LEMMA FieldStart == ASSUME Field!Init PROVE FieldInv
<1>1. /\ stream \in Field!SeqOf(Field!Bytes, MaxLen) /\ pass = "validate" /\ read = 0
      /\ data = <<>> /\ tail = <<>> /\ valid = TRUE /\ encoding = "none" /\ out = <<>>
  BY DEF Field!Init
<1>2. stream \in Seq(Field!Bytes) /\ Len(stream) \in Nat
  <2>1. PICK m \in 0..MaxLen : stream \in [1..m -> Field!Bytes]
    BY <1>1 DEF Field!SeqOf
  <2>2. m \in Nat
    BY <2>1, BoundsAssumption
  <2> QED
    BY <2>1, <2>2
<1>3. <<>> \in Seq(Field!Bytes) /\ <<>> \in Seq(Pieces) /\ Len(<<>>) = 0
      /\ DOMAIN <<>> = {} /\ Of(<<>>) = <<>>
  BY DEF Of
<1>4. Field!Decoded = <<>>
  BY <1>1, <1>3, DecodedIs, FlattenEmpty
<1>5. SubSeq(stream, 1, 0) = <<>> /\ Pos = 0
  <2>1. Len(tail) = 0 /\ Len(data) = 0 /\ read = 0
    BY <1>1, <1>3, Zenon
  <2>2. Pos = 0
    BY <2>1 DEF Pos
  <2>3. SubSeq(stream, 1, 0) = <<>>
    BY <1>2
  <2> QED
    BY <2>2, <2>3
<1>6. Window
  <2>1. Boundary(stream, 0)
    BY DEF Boundary
  <2>2. tail \o data = SubSeq(stream, 0 + 1, read)
    BY <1>1, <1>2
  <2> QED
    BY <1>1, <1>5, <2>1, <2>2 DEF Window
<1>7. FieldTypes
  <2>1. data \in Seq(Field!Bytes) /\ tail \in Seq(Field!Bytes) /\ out \in Seq(Pieces)
    BY <1>1, <1>3, Zenon
  <2>2. valid \in BOOLEAN
    BY <1>1, Zenon
  <2> QED
    BY <1>1, <1>2, <2>1, <2>2 DEF FieldTypes
<1>8. Validating /\ WritingText /\ WritingBase64
  BY <1>1, <1>6 DEF Validating, WritingText, WritingBase64
<1>9. WrittenSoFar
  <2>1. 0 \in 0..Len(stream)
    BY <1>2
  <2>2. \A i \in DOMAIN out : FALSE
    BY <1>1, <1>3
  <2> QED
    BY <1>1, <1>4, <1>5, <2>1, <2>2 DEF WrittenSoFar
<1> QED
  BY <1>7, <1>8, <1>9 DEF FieldInv

\* A line says of an output what it is: see FieldFaithful.
LEMMA FieldIsFaithful == ASSUME FieldInv PROVE Field!FieldFaithful
<1>1. FieldTypes /\ WrittenSoFar
  BY DEF FieldInv
<1>2. stream \in Seq(Field!Bytes) /\ Len(stream) \in Nat
  BY <1>1 DEF FieldTypes
<1>3. Field!IsPrefix(Field!Decoded, stream)
  <2>1. PICK k \in 0..Len(stream) : Field!Decoded = SubSeq(stream, 1, k)
    BY <1>1 DEF WrittenSoFar
  <2>2. Len(SubSeq(stream, 1, k)) = k /\ k <= Len(stream)
        /\ SubSeq(SubSeq(stream, 1, k), 1, k) = SubSeq(stream, 1, k)
    <3>1. k \in Nat /\ k <= Len(stream)
      BY <1>2, <2>1
    <3>2. SubSeq(stream, 1, k) \in Seq(Field!Bytes) /\ Len(SubSeq(stream, 1, k)) = k
      BY <1>2, <3>1
    <3> QED
      BY <3>1, <3>2, SubSeqFull
  <2> QED
    BY <2>1, <2>2 DEF Field!IsPrefix
<1>4. pass = "text" /\ read = Len(stream) /\ data = <<>> => tail = <<>>
  BY <1>1, NothingKept DEF FieldInv, WritingText, WrittenSoFar
<1> QED
  BY <1>1, <1>3, <1>4 DEF Field!FieldFaithful, WrittenSoFar, Field!Range, Range

\* For streams of any length, cut into writes anywhere, what is written of an
\* output field decodes to a beginning of the captured bytes, and a finished
\* value to all of them.  It is text exactly when they are UTF-8, and nothing
\* that JSON forbids is unescaped in it (cli.go:819-950).
THEOREM FieldsAreOutputs == GopsshSpec => []FieldFaithful
<1> DEFINE Inv == part = "field" => FieldInv
<1>1. GopsshInit => Inv
  BY FieldStart DEF GopsshInit
<1>2. Inv /\ [GopsshNext]_gopsshVars => Inv'
  <2> SUFFICES ASSUME Inv, [GopsshNext]_gopsshVars, part' = "field"
               PROVE  FieldInv'
    OBVIOUS
  <2>1. CASE UNCHANGED gopsshVars
    <3>1. UNCHANGED <<part, Field!vars>>
      BY <2>1 DEF gopsshVars, fieldVars, Field!vars
    <3> QED
      BY <3>1, FieldStutter
  <2>2. CASE GopsshNext
    <3>1. part = "field" /\ Field!Next
      BY <2>2 DEF GopsshNext
    <3> QED
      BY <3>1, FieldStep
  <2> QED
    BY <2>1, <2>2
<1>3. Inv => FieldFaithful
  BY FieldIsFaithful DEF FieldFaithful
<1> QED
  BY <1>1, <1>2, <1>3, PTL DEF GopsshSpec
=============================================================================
