----------------------------- MODULE CommandLine -----------------------------
(***************************************************************************)
(* From os.Args to a command (cmd/gopssh/cli.go): executeModern picks the  *)
(* command; the command looks for --help and --json with a scan of its     *)
(* own, scanControlFlags, before the flag package parses its arguments;    *)
(* then come the command's rules.  The scan has to guess what the parser   *)
(* will do: which arguments are values of options, and where options end.  *)
(*                                                                         *)
(* An argument is one of Arguments.  "sub" stands for the name that the    *)
(* command knows at its place (validate, show, a shell, a topic), "word"  *)
(* for any other argument without a dash, "--bogus" for an option that no  *)
(* command has, "--file=x" for an option with its value.  Values are not   *)
(* empty.  Options are spelled as documented: the flag package also takes  *)
(* -json for --json, which the scan does not.                              *)
(***************************************************************************)
EXTENDS Naturals, Sequences, SequencesExt

CONSTANT MaxArgs    \* bound: arguments after the command

VARIABLES
    globalJSON,     \* the first argument is --json
    command,        \* the argument after it
    args,           \* the rest
    step,           \* where executeModern is
    jsonMode,       \* the command's jsonMode
    outcome         \* what the process did with the command line

vars == <<globalJSON, command, args, step, jsonMode, outcome>>

Options   == {"--hosts-file", "--file", "--file=x", "--command"}
Switches  == {"--help", "--json", "--json=false", "--strict"}
Arguments == Options \cup Switches \cup {"--bogus", "--", "word", "sub"}

Dashed(a) == a \notin {"word", "sub"}
Inline(a) == a \in {"--file=x", "--json=false"}
Name(a)   == CASE a = "--file=x"     -> "--file"
               [] a = "--json=false" -> "--json"
               [] OTHER              -> a

modernCommands == {"run", "doctor", "hosts", "config", "version", "completion",
                   "help"}

\* Of the options that the command's FlagSet defines, those that make a
\* difference here: one for all that take a value, and --json, --command and
\* --strict, which the command looks at.
Defined(c) ==
    CASE c = "run"    -> {"--hosts-file", "--command", "--json"}
      [] c = "doctor" -> {"--hosts-file", "--json"}
      [] c = "hosts"  -> {"--file", "--json", "--strict"}
      [] OTHER        -> {"--json"}

Nothing == [kind |-> "none", form |-> "nothing", exit |-> 0]

Init ==
    /\ globalJSON \in BOOLEAN
    /\ command \in modernCommands \cup {"none", "--help", "unknown", "-x"}
    /\ args \in IF command = "none" THEN {<<>>} ELSE SeqOf(Arguments, MaxArgs)
    /\ step = "dispatch"
    /\ jsonMode = globalJSON
    /\ outcome = Nothing

-----------------------------------------------------------------------------
(*                                the scan                                  *)

controlScanFlagTakesValue(name) == name \in {Name(a) : a \in Options}
controlScanKnownFlag(name) ==
    controlScanFlagTakesValue(name) \/ name \in Switches

\* Mutant: every argument counts.
scanControlFlags_everywhere(arguments, stopAtPositional) ==
    [help |-> "--help" \in Range(arguments),
     json |-> "--json" \in Range(arguments)]

ScanStart == [skip |-> FALSE, done |-> FALSE, unknown |-> FALSE,
              help |-> FALSE, json |-> FALSE]

\* After an option that no command has, the next argument may be its value:
\* the scan goes on.
ScanNext(s, a, stopAtPositional) ==
    IF s.done THEN s
    ELSE IF s.skip THEN [s EXCEPT !.skip = FALSE]
    ELSE CASE a = "--" -> [s EXCEPT !.done = TRUE]
           [] controlScanFlagTakesValue(Name(a)) -> [s EXCEPT !.skip = ~Inline(a)]
           [] ~Dashed(a) -> [s EXCEPT !.done = stopAtPositional /\ ~s.unknown]
           [] OTHER ->
                [s EXCEPT !.unknown = @ \/ (Dashed(a) /\ ~controlScanKnownFlag(Name(a))),
                          !.help    = @ \/ a = "--help",
                          !.json    = @ \/ a = "--json"]

scanControlFlags(arguments, stopAtPositional) ==
    LET scan[i \in 0..Len(arguments)] ==
            IF i = 0 THEN ScanStart
            ELSE ScanNext(scan[i - 1], arguments[i], stopAtPositional)
        end == scan[Len(arguments)]
    IN  [help |-> end.help, json |-> end.json]

hasHelp(arguments)       == scanControlFlags(arguments, FALSE).help
requestedJSON(arguments) == scanControlFlags(arguments, FALSE).json

\* There is a -- that is not the value of an option.
LookStart == [found |-> FALSE, skip |-> FALSE]

LookNext(s, a) ==
    IF s.skip THEN [s EXCEPT !.skip = FALSE]
    ELSE [found |-> s.found \/ a = "--",
          skip  |-> controlScanFlagTakesValue(Name(a)) /\ ~Inline(a)]

hasArgumentDelimiter(arguments) ==
    LET look[i \in 0..Len(arguments)] ==
            IF i = 0 THEN LookStart ELSE LookNext(look[i - 1], arguments[i])
    IN  look[Len(arguments)].found

-----------------------------------------------------------------------------
(*                     the flag package: FlagSet.Parse                      *)

\* The result: the state it ends in, the options that were given, what --json
\* says ("unset" when it was not given), and the arguments that are left.
ParseStart == [state |-> "flags", given |-> {}, json |-> "unset",
               rest |-> <<>>, delimiter |-> FALSE]

ParseFlag(defined, s, a) ==
    CASE a = "--"   -> [s EXCEPT !.state = "rest", !.delimiter = TRUE]
      [] ~Dashed(a) -> [s EXCEPT !.state = "rest", !.rest = <<a>>]
      [] a # "--" /\ Dashed(a) /\ Name(a) \notin defined ->
            [s EXCEPT !.state = IF a = "--help" THEN "help" ELSE "undefined"]
      [] Name(a) = "--json" /\ Name(a) \in defined ->
            [s EXCEPT !.json = IF Inline(a) THEN "off" ELSE "on"]
      [] OTHER ->
            [s EXCEPT !.given = @ \cup {Name(a)},
                      !.state = IF a \in Options /\ ~Inline(a)
                                THEN "value" ELSE "flags"]

ParseNext(defined, s, a) ==
    CASE s.state = "flags" -> ParseFlag(defined, s, a)
      [] s.state = "value" -> [s EXCEPT !.state = "flags"]
      [] s.state = "rest"  -> [s EXCEPT !.rest = Append(@, a)]
      [] OTHER             -> s

FlagParse(defined, arguments) ==
    LET parse[i \in 0..Len(arguments)] ==
            IF i = 0 THEN ParseStart
            ELSE ParseNext(defined, parse[i - 1], arguments[i])
    IN  parse[Len(arguments)]

\* err = nil: an option that waits for its value is an error as well.
Parsed(p) == p.state \in {"flags", "rest"}

JsonSet(p, default) == IF p.json = "unset" THEN default ELSE p.json = "on"

-----------------------------------------------------------------------------
(*                               the commands                               *)

Did(kind, form, exit) ==
    /\ outcome' = [kind |-> kind, form |-> form, exit |-> exit]
    /\ step' = "done"
    /\ UNCHANGED <<globalJSON, command, args>>

renderUsageError(json) ==
    /\ Did("usage", IF json THEN "json" ELSE "nothing", 2)
    /\ jsonMode' = json

\* Printing the help text may fail.
ShowHelp ==
    /\ \E exit \in {0, 1} : Did("help", "text", exit)
    /\ UNCHANGED jsonMode

renderJSONHelpError == Did("help", "json", 2) /\ jsonMode' = TRUE

\* The command goes on to its work, with the form that it will write in.
Proceed(json) ==
    /\ Did("proceed", IF json THEN "json" ELSE "text", 0)
    /\ jsonMode' = json

\* isModern: other options first are the legacy command line, unless --json
\* precedes them.
Dispatch ==
    /\ step = "dispatch"
    /\ \/ /\ command \in modernCommands
          /\ step' = "scan"
          /\ UNCHANGED <<globalJSON, command, args, jsonMode, outcome>>
       \/ /\ command = "--help"
          /\ IF globalJSON THEN renderJSONHelpError ELSE ShowHelp
       \/ /\ \/ command \in {"none", "unknown"}
             \/ command = "-x" /\ globalJSON
          /\ renderUsageError(globalJSON)
       \/ /\ command = "-x" /\ ~globalJSON
          /\ Did("legacy", "text", 0)
          /\ UNCHANGED jsonMode

\* helpForPath knows the commands and their subcommands.
runHelp ==
    /\ step = "scan" /\ command = "help"
    /\ IF globalJSON \/ requestedJSON(args) THEN renderJSONHelpError
       ELSE IF args \in {<<>>, <<"sub">>, <<"sub", "sub">>} THEN ShowHelp
       ELSE renderUsageError(FALSE)

runCompletion ==
    /\ step = "scan" /\ command = "completion"
    /\ LET json == globalJSON \/ requestedJSON(args)
       IN  IF hasHelp(args)
           THEN IF json THEN renderJSONHelpError ELSE ShowHelp
           ELSE IF json \/ args # <<"sub">> THEN renderUsageError(json)
           ELSE Proceed(FALSE)

\* run, doctor and version: the scan, then the parser.
ScanControl ==
    /\ step = "scan" /\ command \in {"run", "doctor", "version"}
    /\ LET control == scanControlFlags(args, command = "run")
           json    == globalJSON \/ control.json
       IN  IF control.help
           THEN IF json THEN renderJSONHelpError ELSE ShowHelp
           ELSE /\ jsonMode' = json
                /\ step' = "parse"
                /\ UNCHANGED <<globalJSON, command, args, outcome>>

\* runHosts and runConfig: the subcommand comes first.
ScanSubcommand ==
    /\ step = "scan" /\ command \in {"hosts", "config"}
    /\ LET json == globalJSON \/ requestedJSON(args)
       IN  IF json /\ hasHelp(args) THEN renderJSONHelpError
           ELSE IF args = <<>> THEN renderUsageError(json)
           ELSE IF hasHelp(<<Head(args)>>) THEN ShowHelp
           ELSE IF Head(args) # "sub" THEN renderUsageError(json)
           ELSE IF hasHelp(Tail(args)) THEN ShowHelp
           ELSE /\ jsonMode' = json
                /\ step' = "parse"
                /\ UNCHANGED <<globalJSON, command, args, outcome>>

FlagArgs == IF command \in {"hosts", "config"} THEN Tail(args) ELSE args

\* What FlagSet.Parse makes of the arguments.
Parse == FlagParse(Defined(command), FlagArgs)

\* Mutant: --json=false takes back the global --json as well.
RunForm_parsed == JsonSet(Parse, jsonMode)

\* options.json, and options.json || globalJSON after the parser.
RunForm == JsonSet(Parse, jsonMode) \/ globalJSON

\* runModern after the scan.  "--command" is the only option it looks at here.
RunRules ==
    /\ step = "parse" /\ command = "run"
    /\ LET literal == "--command" \in Parse.given
       IN  IF \/ ~Parsed(Parse)
              \/ ~literal /\ Parse.rest # <<>> /\ ~hasArgumentDelimiter(args)
              \/ literal /\ Parse.rest # <<>>
              \/ ~literal /\ Parse.rest = <<>>
           THEN renderUsageError(RunForm)
           ELSE Proceed(RunForm)

\* The other commands take no arguments; hosts needs --file.
OtherRules ==
    /\ step = "parse" /\ command # "run"
    /\ LET json == JsonSet(Parse, jsonMode)
       IN  IF \/ ~Parsed(Parse)
              \/ Parse.rest # <<>>
              \/ command = "hosts" /\ "--file" \notin Parse.given
           THEN renderUsageError(json)
           ELSE Proceed(json)

Terminated == step = "done" /\ UNCHANGED vars

Next ==
    \/ Dispatch \/ runHelp \/ runCompletion
    \/ ScanControl \/ ScanSubcommand
    \/ RunRules \/ OtherRules
    \/ Terminated

Spec == Init /\ [][Next]_vars

-----------------------------------------------------------------------------
(*                                properties                                *)

HasFlagSet == command \in {"run", "doctor", "hosts", "config", "version"}

\* The parser and the rules take the arguments: what the command line means
\* if nobody scans it first.
Legal ==
    /\ command \in {"hosts", "config"} => args # <<>> /\ Head(args) = "sub"
    /\ Parsed(Parse)
    /\ CASE command = "run"   -> IF "--command" \in Parse.given
                                 THEN Parse.rest = <<>>
                                 ELSE Parse.rest # <<>> /\ Parse.delimiter
         [] command = "hosts" -> Parse.rest = <<>> /\ "--file" \in Parse.given
         [] OTHER             -> Parse.rest = <<>>

\* The scan anticipates the parser.  It never takes a value or a remote
\* argument for --help: a legal command line is run.  And it misses no --help
\* that the parser reads: that is help, never the parser's own error
\* (scanControlFlags, cli.go:1507-1540; --help is defined in no FlagSet).
AnticipatesParser ==
    step = "done" /\ HasFlagSet =>
        /\ Legal => outcome.kind = "proceed"
        /\ /\ command \in {"hosts", "config"} => args # <<>> /\ Head(args) = "sub"
           /\ Parse.state = "help"
           => outcome.kind = "help"

\* "--json" is an option of the command line, and no option is misspelled
\* before it: every reader would say that JSON is asked for.
SaysJSON ==
    \E i \in DOMAIN args :
        /\ args[i] = "--json"
        /\ \A j \in 1..(i - 1) : args[j] \in {"sub", "--json", "--strict", "--bogus"}
        /\ \A j \in 1..(i - 1) : args[j] = "sub" =>
              command # "run" \/ \E k \in 1..(j - 1) : args[k] = "--bogus"

\* stdout is what a script that parses it can rely on.  A command that runs
\* writes JSON if, and only if, the last --json the parser read, or the global
\* one, says so; a command line that is refused gets a JSON error when it says
\* --json, wherever the mistake is, and nothing on stdout when it does not
\* (cli.go:98-141, 264-277, 981, 1127, 1348; README.md:124).
FormTruthful ==
    step = "done" =>
        /\ outcome.kind = "proceed" /\ HasFlagSet =>
              (outcome.form = "json"
                 <=> IF command = "run" THEN globalJSON \/ Parse.json = "on"
                                        ELSE JsonSet(Parse, globalJSON))
        /\ outcome.kind \in {"usage", "help"} =>
              /\ globalJSON /\ "--json=false" \notin Range(args) =>
                    outcome.form = "json"
              /\ /\ command \in modernCommands /\ SaysJSON
                 /\ "--json=false" \notin Range(args)
                 => outcome.form = "json"
              /\ ~globalJSON /\ "--json" \notin Range(args) =>
                    outcome.form # "json"
=============================================================================
