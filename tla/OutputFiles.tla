------------------------------ MODULE OutputFiles ------------------------------
(***************************************************************************)
(* `run --output-dir` (cmd/gopssh/cli.go: preflightRun, writeOutputFiles,  *)
(* writeResultFile): the outputs of each host are copied into two files of *)
(* one directory, and the line of the host names them.  The directory may  *)
(* hold the files of an earlier run and symbolic links; any operation on a *)
(* file may fail.  Results are handled one at a time, in any order.        *)
(***************************************************************************)
EXTENDS Naturals, Sequences, SequencesExt

CONSTANT MaxSize    \* bound: pieces that an output is copied in

Hosts   == 1..2
Streams == {"stdout", "stderr"}

VARIABLES
    json,        \* --json
    targets,     \* the name of each host
    size,        \* pieces of the stdout and the stderr of every host
    directory,   \* what is at the path of --output-dir
    entries,     \* what is in it
    todo,        \* hosts whose result has not been handled
    cur,         \* the host whose result is handled, or 0
    step,        \* where the handler is
    lines        \* the lines on stdout: <<host, "files" | "failed">>

given == <<json, targets, size>>
vars == <<given, directory, entries, todo, cur, step, lines>>

sanitizeTarget(target) == IF target = "h:22" THEN "h_22" ELSE target

\* Mutant: names without the index of the host.
Path_noIndex(host, stream) == <<0, sanitizeTarget(targets[host]), stream>>

\* %d-%s.stdout, %d-%s.stderr
Path(host, stream) == <<host, sanitizeTarget(targets[host]), stream>>

Nothing == [kind |-> "nothing", data |-> <<>>]
Link    == [kind |-> "link", data |-> <<>>]
File(d) == [kind |-> "file", data |-> d]
Earlier == File(<<"a", "b", "c">>)

\* What is copied into a file, piece by piece.
Whole(host, stream) == [k \in 1..size[stream] |-> <<host, stream, k>>]

Init ==
    /\ json \in BOOLEAN
    /\ targets \in [Hosts -> {"h:22", "h_22"}]
    /\ size \in [Streams -> 0..MaxSize]
    /\ directory \in {"missing", "directory", "other"}
    /\ entries \in [{Path(h, s) : h \in Hosts, s \in Streams}
                        -> {Nothing, Earlier, Link}]
    /\ directory # "directory" => \A p \in DOMAIN entries : entries[p] = Nothing
    /\ todo = Hosts /\ cur = 0
    /\ step = "preflight"
    /\ lines = <<>>

-----------------------------------------------------------------------------
\* prepareOutputDirectory succeeds: it is there, or it is made.
prepareOutputDirectory ==
    /\ directory \in {"missing", "directory"}
    /\ directory' = "directory"

Preflight ==
    /\ step = "preflight"
    /\ prepareOutputDirectory
    /\ step' = "result"
    /\ UNCHANGED <<given, entries, todo, cur, lines>>

\* Stat, MkdirAll and Chmod may fail as well.
PreflightFails ==
    /\ step = "preflight"
    /\ step' = "refused"
    /\ UNCHANGED <<given, directory, entries, todo, cur, lines>>

HandleResult(host) ==
    /\ step = "result" /\ host \in todo
    /\ todo' = todo \ {host} /\ cur' = host
    /\ step' = "prepare"
    /\ UNCHANGED <<given, directory, entries, lines>>

Prepare ==
    /\ step = "prepare"
    /\ prepareOutputDirectory
    /\ step' = "open stdout"
    /\ UNCHANGED <<given, entries, todo, cur, lines>>

Stream == IF step \in {"open stdout", "copy stdout"} THEN "stdout" ELSE "stderr"
Here   == Path(cur, Stream)

\* Lstat, then OpenFile with O_TRUNC, and Chmod.
OpenFile ==
    /\ step \in {"open stdout", "open stderr"}
    /\ entries[Here].kind # "link"
    /\ entries' = [entries EXCEPT ![Here] = File(<<>>)]
    /\ step' = IF Stream = "stdout" THEN "copy stdout" ELSE "copy stderr"
    /\ UNCHANGED <<given, directory, todo, cur, lines>>

\* output.WriteTo(file)
CopyPiece ==
    /\ step \in {"copy stdout", "copy stderr"}
    /\ Len(entries[Here].data) < size[Stream]
    /\ entries' = [entries EXCEPT ![Here] =
                      File(SubSeq(Whole(cur, Stream), 1, Len(@.data) + 1))]
    /\ UNCHANGED <<given, directory, todo, cur, step, lines>>

CloseFile ==
    /\ step \in {"copy stdout", "copy stderr"}
    /\ Len(entries[Here].data) = size[Stream]
    /\ step' = IF Stream = "stdout" THEN "open stderr" ELSE "line"
    /\ UNCHANGED <<given, directory, entries, todo, cur, lines>>

\* handleRunResult and its line, when there is one.
Handled(newLines) ==
    /\ lines' = lines \o newLines
    /\ cur' = 0 /\ step' = "result"
    /\ UNCHANGED <<given, directory, todo>>

\* A link, or an operation that failed; a file that was opened has been
\* truncated.  With --json a line reports it.
FileFails ==
    /\ step \in {"prepare", "open stdout", "open stderr", "copy stdout",
                 "copy stderr"}
    /\ entries' \in {entries} \cup
          IF step \in {"open stdout", "open stderr"} /\ entries[Here].kind # "link"
          THEN {[entries EXCEPT ![Here] = File(<<>>)]} ELSE {}
    /\ \/ Handled(IF json THEN <<<<cur, "failed">>>> ELSE <<>>)
       \/ json /\ Handled(<<>>)

\* The line that names the files; writing it may fail, and with --json that
\* is reported by another line, if it can be.
WriteLine ==
    /\ step = "line"
    /\ \/ Handled(<<<<cur, "files">>>>)
       \/ Handled(<<>>)
       \/ json /\ Handled(<<<<cur, "failed">>>>)
    /\ UNCHANGED entries

AllHandled ==
    /\ step = "result" /\ todo = {}
    /\ step' = "done"
    /\ UNCHANGED <<given, directory, entries, todo, cur, lines>>

Terminated == step \in {"refused", "done"} /\ UNCHANGED vars

Next ==
    \/ Preflight \/ PreflightFails
    \/ \E host \in Hosts : HandleResult(host)
    \/ Prepare \/ OpenFile \/ CopyPiece \/ CloseFile
    \/ FileFails \/ WriteLine \/ AllHandled
    \/ Terminated

Spec == Init /\ [][Next]_vars

-----------------------------------------------------------------------------
(*                                properties                                *)

\* A line that names the files of a host stays true to the end of the run: the
\* files hold the whole outputs of that host and nothing of an earlier run or
\* of another host, also of one whose name becomes the same file name.  A host
\* has one line, and a host without --json has a line only for its files
\* (cli.go:679-748, 600-631).
FilesTruthful ==
    /\ \A i \in DOMAIN lines : lines[i][2] = "files" =>
          \A s \in Streams :
              entries[Path(lines[i][1], s)] = File(Whole(lines[i][1], s))
    /\ \A i, j \in DOMAIN lines : lines[i][1] = lines[j][1] => i = j
    /\ ~json => \A i \in DOMAIN lines : lines[i][2] = "files"
    /\ step = "refused" => lines = <<>> /\ todo = Hosts
=============================================================================
