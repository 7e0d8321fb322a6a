------------------------------ MODULE GopsshMC ------------------------------
(***************************************************************************)
(* The gopssh process for TLC.  What it is used for is chosen at the start *)
(* (`part`), and the module of that part takes the steps: CommandLine      *)
(* reads the arguments, JsonRun is `run --json`, HostsCommand is `hosts`,  *)
(* Doctor is `doctor`, Authentication is one connection, TextStream is one *)
(* output field of a result, OutputFiles are the files of --output-dir,    *)
(* and ByteSizes reads the value of one option.  Variables with the same   *)
(* name are shared; those that the part does not have are Off.             *)
(***************************************************************************)
EXTENDS JsonRun

CONSTANTS MaxLen, MaxArgs, MaxLines, MaxWords, MaxLimit, Keys, MaxFiles, MaxSize,
          MaxInt, Kilo, Off

ASSUME SizesAssumption == MaxInt \in Nat /\ Kilo \in Nat \ {0}
ASSUME BoundsAssumption ==
    /\ MaxSize \in Nat /\ MaxLimit \in Nat /\ MaxLen \in Nat /\ MaxArgs \in Nat
    /\ MaxLines \in Nat /\ MaxWords \in Nat /\ MaxFiles \in Nat

\* A file that holds a key is told from one that does not.
ASSUME KeysAssumption == "garbage" \notin Keys /\ "missing" \notin Keys

VARIABLES
    part,
    stream, pass, read, data, tail, valid, encoding, out,    \* TextStream
    globalJSON, command, args, jsonMode, outcome,            \* CommandLine
    readable, strict, counted, errorsCount, warnings,        \* HostsCommand
    machine, checks, probed, contacted, reached, open,       \* Doctor
    files, agent, authorized, identFileData, auth, tried, signers, offered,
                                                             \* Authentication
    json, size, directory, todo, cur,                        \* OutputFiles
    text, limit, setting,                                    \* ByteSizes
    file, targets, entries, step, exitCode                   \* several

\* Values that are equal or not to the different readers of a hosts file.
HostValues ==
    [host : {"name", "ipv6"}, port : {"22", "022"}, brackets : {TRUE}]
    \cup [host : {"name", "ipv6", "dotted"}, port : {"none"}, brackets : {FALSE}]
    \cup [host : {"ipv4"}, port : {"99999"}, brackets : {FALSE}]

ProbeValues ==
    {[host |-> "name", port |-> "none", brackets |-> FALSE],
     [host |-> "dotted", port |-> "none", brackets |-> FALSE]}

Field  == INSTANCE TextStream
Args   == INSTANCE CommandLine
Hosts  == INSTANCE HostsCommand WITH Values <- HostValues
Doctor == INSTANCE Doctor WITH Values <- ProbeValues
Auth   == INSTANCE Authentication
Files  == INSTANCE OutputFiles
Sizes  == INSTANCE ByteSizes

fieldVars  == <<stream, pass, read, data, tail, valid, encoding, out>>
argsVars   == <<globalJSON, command, args, jsonMode, outcome>>
hostsVars  == <<readable, strict, counted, errorsCount, warnings>>
doctorVars == <<machine, checks, probed, contacted, reached, open>>
authVars   == <<files, agent, authorized, identFileData, auth, tried, signers, offered>>
filesVars  == <<json, size, directory, todo, cur>>
sizesVars  == <<text, limit, setting>>
runVars    == <<emitted, status, code, dir, pending, pc, writeErr, stats, seen, rc>>

FieldOff  == /\ stream = Off /\ pass = Off /\ read = Off
             /\ data = Off /\ tail = Off /\ valid = Off
             /\ encoding = Off /\ out = Off
ArgsOff   == /\ globalJSON = Off /\ command = Off /\ args = Off
             /\ jsonMode = Off /\ outcome = Off
HostsOff  == /\ readable = Off /\ strict = Off /\ counted = Off
             /\ errorsCount = Off /\ warnings = Off
DoctorOff == /\ machine = Off /\ checks = Off /\ probed = Off
             /\ contacted = Off /\ reached = Off /\ open = Off
AuthOff   == /\ files = Off /\ agent = Off /\ authorized = Off
             /\ identFileData = Off /\ auth = Off /\ tried = Off
             /\ signers = Off /\ offered = Off
FilesOff  == /\ json = Off /\ size = Off /\ directory = Off
             /\ todo = Off /\ cur = Off
SizesOff  == /\ text = Off /\ limit = Off /\ setting = Off
RunOff    == /\ emitted = Off /\ status = Off /\ code = Off
             /\ dir = Off /\ pending = Off /\ pc = Off
             /\ writeErr = Off /\ stats = Off /\ seen = Off
             /\ rc = Off

\* A part starts, and the variables of the others are Off.
GopsshInit ==
    \/ /\ part = "field" /\ Field!Init
       /\ ArgsOff /\ HostsOff /\ DoctorOff /\ AuthOff /\ FilesOff
       /\ SizesOff /\ RunOff /\ file = Off /\ targets = Off
       /\ entries = Off /\ step = Off /\ exitCode = Off /\ conf = Off
       /\ cause = Off /\ lines = Off
    \/ /\ part = "args" /\ Args!Init
       /\ FieldOff /\ HostsOff /\ DoctorOff /\ AuthOff /\ FilesOff
       /\ SizesOff /\ RunOff /\ file = Off /\ targets = Off
       /\ entries = Off /\ exitCode = Off /\ conf = Off
       /\ cause = Off /\ lines = Off
    \/ /\ part = "hosts" /\ Hosts!Init
       /\ FieldOff /\ ArgsOff /\ DoctorOff /\ AuthOff /\ FilesOff
       /\ SizesOff /\ RunOff /\ targets = Off /\ conf = Off
       /\ cause = Off /\ lines = Off
    \/ /\ part = "doctor" /\ Doctor!Init
       /\ FieldOff /\ ArgsOff /\ HostsOff /\ AuthOff /\ FilesOff
       /\ SizesOff /\ RunOff /\ entries = Off /\ lines = Off
    \/ /\ part = "auth" /\ Auth!Init
       /\ FieldOff /\ ArgsOff /\ HostsOff /\ DoctorOff /\ FilesOff
       /\ SizesOff /\ RunOff /\ file = Off /\ targets = Off
       /\ entries = Off /\ exitCode = Off /\ cause = Off
       /\ lines = Off
    \/ /\ part = "files" /\ Files!Init
       /\ FieldOff /\ ArgsOff /\ HostsOff /\ DoctorOff /\ AuthOff
       /\ SizesOff /\ RunOff /\ file = Off /\ exitCode = Off
       /\ conf = Off /\ cause = Off
    \/ /\ part = "sizes" /\ Sizes!Init
       /\ FieldOff /\ ArgsOff /\ HostsOff /\ DoctorOff /\ AuthOff
       /\ FilesOff /\ RunOff /\ file = Off /\ targets = Off
       /\ entries = Off /\ step = Off /\ exitCode = Off /\ conf = Off
       /\ cause = Off /\ lines = Off
    \/ /\ part = "run" /\ Init
       /\ FieldOff /\ ArgsOff /\ HostsOff /\ DoctorOff /\ AuthOff
       /\ FilesOff /\ SizesOff /\ file = Off /\ targets = Off
       /\ entries = Off /\ step = Off /\ exitCode = Off

GopsshNext ==
    \/ /\ part = "field" /\ Field!Next
       /\ UNCHANGED <<part, argsVars, hostsVars, doctorVars, authVars,
                      filesVars, sizesVars, runVars, file, targets, entries,
                      step, exitCode, conf, cause, lines>>
    \/ /\ part = "args" /\ Args!Next
       /\ UNCHANGED <<part, fieldVars, hostsVars, doctorVars, authVars,
                      filesVars, sizesVars, runVars, file, targets, entries,
                      exitCode, conf, cause, lines>>
    \/ /\ part = "hosts" /\ Hosts!Next
       /\ UNCHANGED <<part, fieldVars, argsVars, doctorVars, authVars,
                      filesVars, sizesVars, runVars, targets, conf, cause,
                      lines>>
    \/ /\ part = "doctor" /\ Doctor!Next
       /\ UNCHANGED <<part, fieldVars, argsVars, hostsVars, authVars,
                      filesVars, sizesVars, runVars, entries, lines>>
    \/ /\ part = "auth" /\ Auth!Next
       /\ UNCHANGED <<part, fieldVars, argsVars, hostsVars, doctorVars,
                      filesVars, sizesVars, runVars, file, targets, entries,
                      exitCode, cause, lines>>
    \/ /\ part = "files" /\ Files!Next
       /\ UNCHANGED <<part, fieldVars, argsVars, hostsVars, doctorVars,
                      authVars, sizesVars, runVars, file, exitCode, conf,
                      cause>>
    \/ /\ part = "sizes" /\ Sizes!Next
       /\ UNCHANGED <<part, fieldVars, argsVars, hostsVars, doctorVars,
                      authVars, filesVars, runVars, file, targets, entries,
                      step, exitCode, conf, cause, lines>>
    \/ /\ part = "run" /\ Next
       /\ UNCHANGED <<part, fieldVars, argsVars, hostsVars, doctorVars,
                      authVars, filesVars, sizesVars, file, targets, entries,
                      step, exitCode>>

gopsshVars == <<part, fieldVars, argsVars, hostsVars, doctorVars, authVars,
                filesVars, sizesVars, runVars,
                file, targets, entries, step, exitCode, conf, cause, lines>>

GopsshSpec == GopsshInit /\ [][GopsshNext]_gopsshVars

-----------------------------------------------------------------------------
(* properties, besides RunLines and RunExit of JsonRun                      *)

\* An output field arrives as it was captured, see TextStream (cli.go:819-950).
FieldFaithful == part = "field" => Field!FieldFaithful

\* The scan for --help and --json anticipates the flag parser, see CommandLine
\* (cli.go:1507-1540).
AnticipatesParser == part = "args" => Args!AnticipatesParser

\* stdout has the form the arguments ask for, see CommandLine (cli.go:98-141).
FormTruthful == part = "args" => Args!FormTruthful

\* hosts, run, doctor and the legacy reader agree on a hosts file, see
\* HostsCommand (cli.go:975-1108, pssh.go:416-473).
ReadersAgree == part = "hosts" => Hosts!ReadersAgree

\* What doctor's exit code promises, see Doctor (cli.go:1126-1250).
DoctorTruthful == part = "doctor" => Doctor!DoctorTruthful

\* The keys that a connection offers, see Authentication (pssh.go:806-849).
OffersAsDocumented == part = "auth" => Auth!OffersAsDocumented

\* The files that --output-dir names, see OutputFiles (cli.go:679-748).
FilesTruthful == part = "files" => Files!FilesTruthful

\* The limits of the output budgets, see ByteSizes (main.go:152-193).
SizesExact == part = "sizes" => Sizes!SizesExact
=============================================================================
