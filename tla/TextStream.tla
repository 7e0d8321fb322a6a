----------------------------- MODULE TextStream -----------------------------
(***************************************************************************)
(* One output of a host in a line of `run --json` (cmd/gopssh/cli.go:      *)
(* writeJSONOutputField).  The captured bytes are read twice, in pieces    *)
(* that need not be the same nor respect the limits of a character: once   *)
(* to see whether they are UTF-8 (utf8Validator), then to write them as a  *)
(* JSON string (jsonStringWriter) or, when they are not, in base64.        *)
(*                                                                         *)
(* A byte stands for its class in UTF-8:                                   *)
(*   "p"  a character of one byte that JSON takes as it is                 *)
(*   "q"  a character of one byte that must be escaped                     *)
(*   "2"  the first byte of a character of two bytes                       *)
(*   "r"  the first byte of U+FFFD, three bytes, which is also what        *)
(*        utf8.DecodeRune returns for an invalid byte                      *)
(*   "c"  a continuation byte                                              *)
(*   "x"  a byte that UTF-8 does not use                                   *)
(***************************************************************************)
EXTENDS Naturals, Sequences, SequencesExt

CONSTANT MaxLen          \* bound: bytes captured

VARIABLES
    stream,    \* the captured bytes
    pass,      \* "validate", then "text" or "base64"; "done" | "failed"
    read,      \* bytes of this pass that were handed to Write
    data,      \* what this call of Write has not decoded yet
    tail,      \* the bytes kept for the next call (of the encoder: < 3)
    valid,     \* utf8Validator.valid
    encoding,  \* the "_encoding" of the field
    out        \* the pieces of the value written to stdout

vars == <<stream, pass, read, data, tail, valid, encoding, out>>

Bytes == {"p", "q", "2", "r", "c", "x"}

-----------------------------------------------------------------------------
(*                              unicode/utf8                                *)

Need(b) == CASE b = "2" -> 2 [] b = "r" -> 3 [] OTHER -> 1

Continued(d) == \A i \in 2..Len(d) : d[i] = "c"

\* d starts with a character.
StartsRune(d) ==
    /\ Head(d) \notin {"c", "x"}
    /\ Len(d) >= Need(Head(d))
    /\ Continued(SubSeq(d, 1, Need(Head(d))))

\* A character, or something that cannot become one.
FullRune(d) == Len(d) >= Need(Head(d)) \/ ~Continued(d)

RuneError == "r"

\* The character (by its first byte) and its size.
DecodeRune(d) ==
    IF StartsRune(d) THEN [rune |-> Head(d), size |-> Need(Head(d))]
                     ELSE [rune |-> RuneError, size |-> 1]

Rest(d) == SubSeq(d, DecodeRune(d).size + 1, Len(d))

-----------------------------------------------------------------------------
Init ==
    /\ stream \in SeqOf(Bytes, MaxLen)
    /\ pass = "validate" /\ read = 0
    /\ data = <<>> /\ tail = <<>>
    /\ valid = TRUE
    /\ encoding = "none" /\ out = <<>>

\* output.WriteTo calls Write with the next n bytes.
Chunk(n) == SubSeq(stream, read + 1, read + n)

More(n) ==
    /\ data = <<>>
    /\ n \in 1..(Len(stream) - read)
    /\ read' = read + n

\* utf8Validator.Write and jsonStringWriter.Write: the bytes kept come first.
WriteChunk(n) ==
    /\ pass \in {"validate", "text"}
    /\ More(n)
    /\ IF pass = "validate" /\ ~valid
       THEN UNCHANGED <<data, tail>>
       ELSE data' = tail \o Chunk(n) /\ tail' = <<>>
    /\ UNCHANGED <<stream, pass, valid, encoding, out>>

\* An unfinished character is kept for the next call.
KeepTail ==
    /\ pass \in {"validate", "text"}
    /\ data # <<>> /\ ~FullRune(data)
    /\ tail' = data /\ data' = <<>>
    /\ UNCHANGED <<stream, pass, read, valid, encoding, out>>

\* Mutant: U+FFFD is taken for an invalid byte.
ValidateRune_anySize ==
    /\ pass = "validate"
    /\ data # <<>> /\ FullRune(data)
    /\ IF DecodeRune(data).rune = RuneError
       THEN valid' = FALSE /\ data' = <<>>
       ELSE data' = Rest(data) /\ UNCHANGED valid
    /\ UNCHANGED <<stream, pass, read, tail, encoding, out>>

\* The loop of utf8Validator.Write.
ValidateRune ==
    /\ pass = "validate"
    /\ data # <<>> /\ FullRune(data)
    /\ IF DecodeRune(data) = [rune |-> RuneError, size |-> 1]
       THEN valid' = FALSE /\ data' = <<>>
       ELSE data' = Rest(data) /\ UNCHANGED valid
    /\ UNCHANGED <<stream, pass, read, tail, encoding, out>>

\* outputIsUTF8 returns, and the second pass starts.
ChooseEncoding ==
    /\ pass = "validate"
    /\ read = Len(stream) /\ data = <<>>
    /\ IF valid /\ tail = <<>>
       THEN pass' = "text" /\ encoding' = "utf-8"
       ELSE pass' = "base64" /\ encoding' = "base64"
    /\ read' = 0 /\ tail' = <<>>
    /\ UNCHANGED <<stream, data, valid, out>>

\* A piece of a JSON string: the bytes of the character it stands for.
Escaped(r) == [escaped |-> r.rune = "q",
               of |-> <<r.rune>> \o [i \in 1..(Need(r.rune) - 1) |-> "c"]]

\* The loop of jsonStringWriter.Write.
WriteRune ==
    /\ pass = "text"
    /\ data # <<>> /\ FullRune(data)
    /\ out' = Append(out, Escaped(DecodeRune(data)))
    /\ data' = Rest(data)
    /\ UNCHANGED <<stream, pass, read, tail, valid, encoding>>

\* jsonStringWriter.end: an unfinished character is an error.
EndText ==
    /\ pass = "text"
    /\ read = Len(stream) /\ data = <<>>
    /\ pass' = IF tail = <<>> THEN "done" ELSE "failed"
    /\ UNCHANGED <<stream, read, data, tail, valid, encoding, out>>

\* encoding/base64: groups of three bytes, the rest is kept until Close.
Group(d) == [escaped |-> FALSE, of |-> d]

Groups(d) == [i \in 1..(Len(d) \div 3) |-> Group(SubSeq(d, 3 * i - 2, 3 * i))]

WriteBase64(n) ==
    /\ pass = "base64"
    /\ More(n)
    /\ LET d == tail \o Chunk(n)
       IN  /\ out' = out \o Groups(d)
           /\ tail' = SubSeq(d, 3 * (Len(d) \div 3) + 1, Len(d))
    /\ UNCHANGED <<stream, pass, data, valid, encoding>>

\* encoder.Close: what is left is padded.
CloseBase64 ==
    /\ pass = "base64"
    /\ read = Len(stream)
    /\ out' = IF tail = <<>> THEN out ELSE Append(out, Group(tail))
    /\ pass' = "done"
    /\ UNCHANGED <<stream, read, data, tail, valid, encoding>>

\* The captured output cannot be read, or stdout cannot be written.
Fail ==
    /\ pass \in {"validate", "text", "base64"}
    /\ pass' = "failed"
    /\ UNCHANGED <<stream, read, data, tail, valid, encoding, out>>

Terminated == pass \in {"done", "failed"} /\ UNCHANGED vars

Next ==
    \/ \E n \in 1..MaxLen : WriteChunk(n) \/ WriteBase64(n)
    \/ KeepTail \/ ValidateRune \/ ChooseEncoding
    \/ WriteRune \/ EndText \/ CloseBase64
    \/ Fail \/ Terminated

Spec == Init /\ [][Next]_vars

-----------------------------------------------------------------------------
(*                                properties                                *)

\* Every byte of d starts a character or continues one.
IsUTF8(d) ==
    /\ \A i \in DOMAIN d : d[i] # "c" => StartsRune(SubSeq(d, i, Len(d)))
    /\ \A j \in DOMAIN d : d[j] = "c" =>
          \E i \in 1..(j - 1) : d[i] # "c" /\ j < i + Need(d[i])

Decoded == FlattenSeq([i \in DOMAIN out |-> out[i].of])

\* However the two passes divide the output into pieces, the value is the
\* captured bytes: what is on stdout at any time decodes to a beginning of
\* them, and a finished value to all of them.  It is text exactly when the
\* bytes are UTF-8, nothing that JSON forbids is unescaped in it, base64 has
\* no padding but at the end, and UTF-8 never fails the second pass for its
\* tail (cli.go:819-950; README.md, JSON / NDJSON: "preserved without loss").
FieldFaithful ==
    /\ IsPrefix(Decoded, stream)
    /\ pass = "done" => Decoded = stream
    /\ encoding # "none" => (encoding = "utf-8" <=> IsUTF8(stream))
    /\ \A i \in DOMAIN out :
          IF encoding = "utf-8"
          THEN out[i].escaped <=> "q" \in Range(out[i].of)
          ELSE Len(out[i].of) = 3 \/ (i = Len(out) /\ pass = "done")
    /\ pass = "text" /\ read = Len(stream) /\ data = <<>> => tail = <<>>
=============================================================================
