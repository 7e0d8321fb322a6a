-------------------------------- MODULE Doctor --------------------------------
(***************************************************************************)
(* `gopssh doctor` after its arguments are parsed (cmd/gopssh/cli.go:      *)
(* runDoctor): the local checks, then, with --connect, a connection to     *)
(* each of the first --limit targets (pkg/pssh/pssh.go: ProbeContext), one *)
(* after the other, while the signal goroutine of main.go may cancel the   *)
(* context.  The machine that is looked at does not change meanwhile.      *)
(***************************************************************************)
EXTENDS HostSpecs

CONSTANTS
    Values,      \* bound: the values that a hosts file is made of
    MaxWords,    \* bound: values in a file
    MaxLimit     \* bound: --limit

VARIABLES
    conf,        \* the options
    machine,     \* what the checks find
    file,        \* the hosts file: one value on each line
    step,        \* where runDoctor is
    checks,      \* the required checks that failed, a probe with its index
    targets,     \* what loadTargets returned
    probed,      \* targets of the loop that are done
    contacted,   \* targets a TCP connection was asked for
    reached,     \* targets that accepted us
    open,        \* connections that are open
    cause,       \* context.Cause(ctx): the signal, or "none"
    exitCode

given == <<conf, machine, file>>
net   == <<probed, contacted, reached, open>>
vars  == <<given, step, checks, targets, net, cause, exitCode>>

\* settings: the required settings are all valid, or one that Validate looks
\* at is not, or another one (user, spool directory).  agent: its socket can
\* be dialed, or not, or it is not configured or disabled.  identity: which
\* of the identity files, given or default, can be opened; there is one at
\* least.
Init ==
    /\ conf \in [connect : BOOLEAN, limit : 0..MaxLimit, hostsFile : BOOLEAN,
                 identitySet : BOOLEAN, insecure : BOOLEAN]
    /\ machine \in [settings : {"valid", "limits", "other"},
                    agent : {"up", "down", "off"},
                    identity : {"all", "some", "none"},
                    knownHosts : {"valid", "malformed", "missing"},
                    readable : BOOLEAN]
    /\ file \in {[i \in DOMAIN words |-> <<words[i]>>] :
                    words \in SeqOf(Values, MaxWords)}
    /\ conf.hostsFile \/ (file = <<>> /\ ~machine.readable)
    /\ step = "options"
    /\ checks = {} /\ targets = <<>>
    /\ probed = 0 /\ contacted = <<>> /\ reached = <<>> /\ open = {}
    /\ cause = "none" /\ exitCode = 0

\* main's signal goroutine: one signal, while the process runs.
Signal ==
    /\ step # "exited" /\ cause = "none"
    /\ cause' \in {"INT", "TERM"}
    /\ UNCHANGED <<given, step, checks, targets, net, exitCode>>

Return(code) == step' = "returned" /\ exitCode' = code

\* loadTargets(options.hostsFile, nil), which fails as a whole.
Loaded == IF ~conf.hostsFile THEN <<>>
          ELSE IF machine.readable THEN loadTargets(file, <<>>) ELSE Error

\* The targets are read before anything is checked.
LoadTargets ==
    /\ step = "options"
    /\ IF conf.limit = 0 \/ (conf.connect /\ Loaded = <<>>)
       THEN Return(2) /\ UNCHANGED targets
       ELSE /\ targets' = IF conf.connect THEN Loaded ELSE <<>>
            /\ step' = "check"
            /\ UNCHANGED exitCode
    /\ UNCHANGED <<given, checks, net, cause>>

\* hosts_file: the legacy reader has to accept the file.
HostsFileBad ==
    conf.hostsFile /\ (~machine.readable \/ readHosts(file) \in {Error, <<>>})

\* The required checks that are not OK.  known_hosts is opened, not parsed;
\* the files of --identity are required, the default ones are not.
doctorChecks ==
    {c \in {"settings", "identity", "known_hosts", "hosts_file",
            "authentication"} :
        CASE c = "settings"       -> machine.settings # "valid"
          [] c = "identity"       -> conf.identitySet /\ machine.identity # "all"
          [] c = "known_hosts"    -> ~conf.insecure /\ machine.knownHosts = "missing"
          [] c = "hosts_file"     -> HostsFileBad
          [] c = "authentication" -> machine.agent # "up"
                                     /\ machine.identity = "none"}

Check ==
    /\ step = "check"
    /\ checks' = {<<c, 0>> : c \in doctorChecks}
                  \cup IF targets = Error THEN {<<"network", 0>>} ELSE {}
    /\ step' = IF conf.connect /\ targets # Error THEN "probe" ELSE "print"
    /\ UNCHANGED <<given, targets, net, cause, exitCode>>

Target == targets[probed + 1]

ProbeFailed == checks' = checks \cup {<<"ssh", probed + 1>>}

\* ProbeContext returns before a connection is made: Validate, known_hosts, or
\* a context that is done.
ProbeRefused ==
    /\ step = "probe" /\ probed < Len(targets) /\ probed < conf.limit
    /\ \/ machine.settings = "limits"
       \/ ~conf.insecure /\ machine.knownHosts # "valid"
       \/ cause # "none"
    /\ ProbeFailed
    /\ probed' = probed + 1
    /\ UNCHANGED <<given, step, targets, contacted, reached, open, cause,
                   exitCode>>

ProbeDial ==
    /\ step = "probe" /\ probed < Len(targets) /\ probed < conf.limit
    /\ machine.settings # "limits"
    /\ conf.insecure \/ machine.knownHosts = "valid"
    /\ cause = "none"
    /\ contacted' = Append(contacted, Target)
    /\ open' = open \cup {Target}
    /\ step' = "dialing"
    /\ UNCHANGED <<given, checks, targets, probed, reached, cause, exitCode>>

\* DialContext fails and has closed its connection: no answer, a wrong host
\* key, no accepted key, or the context.
ProbeFails ==
    /\ step = "dialing"
    /\ ProbeFailed
    /\ open' = open \ {Target}
    /\ probed' = probed + 1
    /\ step' = "probe"
    /\ UNCHANGED <<given, targets, contacted, reached, cause, exitCode>>

\* Mutant: the connection of a probe stays open.
ProbeSucceeds_leaks ==
    /\ step = "dialing"
    /\ reached' = Append(reached, Target)
    /\ probed' = probed + 1
    /\ step' = "probe"
    /\ UNCHANGED <<given, checks, targets, contacted, open, cause, exitCode>>

\* The target accepted us; connection.Close() ends the probe, and its error
\* is the probe's.
ProbeSucceeds ==
    /\ step = "dialing"
    /\ reached' = Append(reached, Target)
    /\ open' = open \ {Target}
    /\ checks' \in {checks, checks \cup {<<"ssh", probed + 1>>}}
    /\ probed' = probed + 1
    /\ step' = "probe"
    /\ UNCHANGED <<given, targets, contacted, cause, exitCode>>

ProbesDone ==
    /\ step = "probe"
    /\ probed = Len(targets) \/ probed = conf.limit
    /\ step' = "print"
    /\ UNCHANGED <<given, checks, targets, net, cause, exitCode>>

\* The report; writing it may fail.
Report ==
    /\ step = "print"
    /\ \/ Return(1)
       \/ checks = {} /\ Return(0)
    /\ UNCHANGED <<given, checks, targets, net, cause>>

\* main: signalExitCode, with the cause that is set by then.
Exit ==
    /\ step = "returned"
    /\ step' = "exited"
    /\ exitCode' = CASE cause = "none" -> exitCode
                     [] cause = "INT"  -> 130
                     [] cause = "TERM" -> 143
    /\ UNCHANGED <<given, checks, targets, net, cause>>

Terminated == step = "exited" /\ UNCHANGED vars

Next ==
    \/ LoadTargets \/ Check
    \/ ProbeRefused \/ ProbeDial \/ ProbeFails \/ ProbeSucceeds \/ ProbesDone
    \/ Report \/ Exit
    \/ Signal
    \/ Terminated

Spec == Init /\ [][Next]_vars

-----------------------------------------------------------------------------
(*                                properties                                *)

\* The first targets of the file, as many as --limit allows.
Probes == SubSeq(targets, 1, IF Len(targets) < conf.limit THEN Len(targets)
                                                          ELSE conf.limit)

\* An exit code of 0 is a promise, and only a failure takes it back.  It says
\* that run can authenticate from here, with an agent or a key, that the
\* hosts file has targets, and with --connect that each of the first --limit
\* targets that run would use accepted us, in order, and that no signal came.
\* Without --connect no target is contacted, and no connection survives
\* (cli.go:1175-1245, pssh.go:595-621, README.md:75-90).
DoctorTruthful ==
    /\ exitCode = 0 /\ step = "exited" =>
          /\ machine.settings = "valid"
          /\ machine.agent = "up" \/ machine.identity # "none"
          /\ conf.insecure \/ machine.knownHosts # "missing"
          /\ conf.identitySet => machine.identity = "all"
          /\ conf.hostsFile => machine.readable /\ readHosts(file) # <<>>
          /\ conf.connect => /\ reached = Probes /\ reached # <<>>
                             /\ targets = loadTargets(file, <<>>)
                             /\ conf.insecure \/ machine.knownHosts = "valid"
          /\ cause = "none"
    /\ /\ step = "print" /\ machine.settings = "valid"
       /\ machine.identity = "all" \/ (machine.identity = "some" /\ ~conf.identitySet)
       /\ conf.insecure \/ machine.knownHosts = "valid"
       /\ ~HostsFileBad /\ targets # Error
       => checks \subseteq {<<"ssh", i>> : i \in DOMAIN Probes}
    /\ IsPrefix(contacted, Probes) /\ (contacted # <<>> => conf.connect)
    /\ step \in {"print", "returned", "exited"} => open = {}
=============================================================================
