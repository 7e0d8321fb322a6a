------------------------------- MODULE ByteSizes -------------------------------
(***************************************************************************)
(* --max-buffer-memory and --max-spool-size (cmd/gopssh/main.go:           *)
(* parseByteSize, formatByteSize): the limits of the output budgets, which *)
(* count in int64.  The integers are scaled: MaxInt is the largest one,    *)
(* and a unit is Kilo times the one below it.                              *)
(***************************************************************************)
EXTENDS Integers, Sequences, SequencesExt

CONSTANTS MaxInt, Kilo

VARIABLES
    text,     \* what is given for the option: a number and letters after it
    limit,    \* the value of the flag
    setting   \* "given" | "set" | "printed" | "kept" | "refused"

vars == <<text, limit, setting>>

Default == 1

Units == <<[suffix |-> <<"G", "I", "B">>, size |-> Kilo * Kilo * Kilo],
           [suffix |-> <<"M", "I", "B">>, size |-> Kilo * Kilo],
           [suffix |-> <<"K", "I", "B">>, size |-> Kilo],
           [suffix |-> <<"B">>, size |-> 1]>>

NoUnit == [suffix |-> <<>>, size |-> 1]

\* A product as int64 has it.
Wrap(n) == ((n + MaxInt + 1) % (2 * (MaxInt + 1))) - (MaxInt + 1)

Invalid == 0

\* The first unit that the text ends with.
Unit(t) ==
    LET i == SelectInSeq(Units, LAMBDA u : IsSuffix(u.suffix, t.letters))
    IN  IF i = 0 THEN NoUnit ELSE Units[i]

\* strconv.ParseInt accepts what is left of the text without the unit.
ParseInt(t) == t.letters = Unit(t).suffix /\ t.number <= MaxInt

\* Mutant: the product is looked at, and it may have wrapped around.
parseByteSize_wraps(t) ==
    LET product == Wrap(t.number * Unit(t).size)
    IN  IF ~ParseInt(t) \/ product <= 0 THEN Invalid ELSE product

parseByteSize(t) ==
    IF \/ ~ParseInt(t)
       \/ t.number <= 0
       \/ t.number > MaxInt \div Unit(t).size
    THEN Invalid
    ELSE Wrap(t.number * Unit(t).size)

\* The largest unit that divides the size.
formatByteSize(size) ==
    LET i == SelectInSeq(Units, LAMBDA u : size >= u.size /\ size % u.size = 0)
    IN  [number |-> size \div Units[i].size, letters |-> Units[i].suffix]

\* A text without a number is refused like the number 0.
Init ==
    /\ text \in [number : -1..(2 * MaxInt),
                 letters : {<<>>, <<"K">>, <<"G", "B">>}
                              \cup {u.suffix : u \in ToSet(Units)}]
    /\ limit = Invalid
    /\ setting = "given"

\* byteSizeValue.Set
Set ==
    /\ setting \in {"given", "printed"}
    /\ limit' = parseByteSize(text)
    /\ setting' = IF limit' = Invalid THEN "refused"
                  ELSE IF setting = "given" THEN "set" ELSE "kept"
    /\ UNCHANGED text

\* byteSizeValue.String: doctor prints the limit, and its text is used again.
Show ==
    /\ setting = "set"
    /\ text' = formatByteSize(limit)
    /\ setting' = "printed"
    /\ UNCHANGED limit

Terminated == setting \in {"refused", "kept"} /\ UNCHANGED vars

Next == Set \/ Show \/ Terminated

Spec == Init /\ [][Next]_vars

-----------------------------------------------------------------------------
(*                                properties                                *)

\* The size that a text says, in whole numbers that have no largest one.
Meant == CASE text.letters = <<>>              -> text.number
           [] text.letters = <<"B">>           -> text.number
           [] text.letters = <<"K", "I", "B">> -> text.number * Kilo
           [] text.letters = <<"M", "I", "B">> -> text.number * Kilo * Kilo
           [] text.letters = <<"G", "I", "B">> -> text.number * Kilo * Kilo * Kilo
           [] OTHER                            -> 0

\* The limit is exactly the size that was meant, which the budgets can count;
\* nothing that they can count is refused; and a limit that is printed and
\* used again is the same limit (main.go:152-193).
SizesExact ==
    /\ setting \in {"set", "printed", "kept"} => limit = Meant /\ limit \in 1..MaxInt
    /\ setting = "refused" => Meant \notin 1..MaxInt
=============================================================================
