---------------------------- MODULE HostsCommand ----------------------------
(***************************************************************************)
(* `gopssh hosts list` and `gopssh hosts validate` (cmd/gopssh/cli.go:     *)
(* runHosts) on one hosts file, compared with what the commands that use   *)
(* the file make of it.                                                    *)
(***************************************************************************)
EXTENDS HostSpecs

CONSTANTS
    Values,      \* bound: the values that files are made of
    MaxLines,    \* bound: lines of a file
    MaxWords     \* bound: words of a line

VARIABLES
    file,        \* the hosts file
    readable,    \* it can be opened, and no line is too long for the scanner
    strict,      \* validate --strict (never set for list)
    step,        \* where runHosts is
    entries,     \* what parseHostEntries returned
    counted,     \* entries counted so far
    errorsCount, warnings,
    exitCode     \* what runHosts returned

vars == <<file, readable, strict, step, entries, counted, errorsCount,
          warnings, exitCode>>

Files == SeqOf(SeqOf(Values \cup {Comment}, MaxWords), MaxLines)

Init ==
    /\ file \in Files
    /\ readable \in BOOLEAN
    /\ strict \in BOOLEAN
    /\ step = "parse"
    /\ entries = <<>> /\ counted = 0
    /\ errorsCount = 0 /\ warnings = 0
    /\ exitCode = 0

Return(code) == step' = "returned" /\ exitCode' = code

ParseEntries ==
    /\ step = "parse"
    /\ readable
    /\ entries' = parseHostEntries(file)
    /\ step' = "count"
    /\ UNCHANGED <<file, readable, strict, counted, errorsCount, warnings,
                   exitCode>>

\* renderUsageError
ParseFails ==
    /\ step = "parse"
    /\ ~readable
    /\ Return(2)
    /\ UNCHANGED <<file, readable, strict, entries, counted, errorsCount,
                   warnings>>

CountEntry ==
    /\ step = "count"
    /\ counted < Len(entries)
    /\ counted' = counted + 1
    /\ LET entry == entries[counted + 1]
           bad   == entry.normalized = Rejected \/ (entry.duplicate /\ strict)
       IN  /\ errorsCount' = IF bad THEN errorsCount + 1 ELSE errorsCount
           /\ warnings' = IF entry.duplicate /\ ~strict THEN warnings + 1
                                                        ELSE warnings
    /\ UNCHANGED <<file, readable, strict, step, entries, exitCode>>

\* A file without a target is an error as well.
CountDone ==
    /\ step = "count"
    /\ counted = Len(entries)
    /\ errorsCount' = IF entries = <<>> THEN errorsCount + 1 ELSE errorsCount
    /\ step' = "print"
    /\ UNCHANGED <<file, readable, strict, entries, counted, warnings,
                   exitCode>>

Report ==
    /\ step = "print"
    /\ Return(IF errorsCount # 0 THEN 1 ELSE 0)
    /\ UNCHANGED <<file, readable, strict, entries, counted, errorsCount,
                   warnings>>

ReportFails ==
    /\ step = "print"
    /\ Return(1)
    /\ UNCHANGED <<file, readable, strict, entries, counted, errorsCount,
                   warnings>>

Terminated == step = "returned" /\ UNCHANGED vars

Next ==
    \/ ParseEntries \/ ParseFails \/ CountEntry \/ CountDone
    \/ Report \/ ReportFails
    \/ Terminated

Spec == Init /\ [][Next]_vars

-----------------------------------------------------------------------------
(*                                properties                                *)

\* run --hosts-file accepts the file.
RunAccepts == readable /\ loadTargets(file, <<>>) \notin {Error, <<>>}

\* The readers of hosts files agree.  A file that hosts list or hosts validate
\* passes is one that run accepts, and without --strict a file that fails is
\* one that run refuses (unless the report could not be printed); --strict
\* lets no target pass twice.  What run accepts, doctor and the legacy reader
\* understand as the same targets, and a target is not changed when it is
\* normalized again (cli.go:409-472, 975-1010, 1050-1108, pssh.go:416-473).
ReadersAgree ==
    /\ step = "returned" /\ exitCode = 0 => RunAccepts
    /\ step = "print" /\ RunAccepts /\ ~strict => errorsCount = 0
    /\ step = "returned" /\ exitCode = 0 /\ strict =>
          IsInjective(loadTargets(file, <<>>))
    /\ RunAccepts => readHosts(file) = loadTargets(file, <<>>)
    /\ \A i \in DOMAIN entries :
          LET n == entries[i].normalized
          IN  n # Rejected => normalizeModernHost(AsValue(n)) = n
=============================================================================
