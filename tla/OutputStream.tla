---------------------------- MODULE OutputStream ----------------------------
(***************************************************************************)
(* What a resultOutput promises the session that writes to it and the      *)
(* collector that prints it, wherever the bytes are kept: it keeps a       *)
(* prefix of what was written, it stops keeping only by failing, it never  *)
(* changes what it kept, and what is printed is what was kept.             *)
(*                                                                         *)
(* The bytes of a stream are numbered 1, 2, ...; a prefix is its length.   *)
(***************************************************************************)
EXTENDS Integers

CONSTANTS Buffers, MaxBytes

VARIABLES
    sent,      \* bytes handed to Write
    kept,      \* bytes kept
    failed,    \* the output has failed (err # nil)
    sealed,    \* Finalize was called
    printed    \* bytes printed by the last complete WriteTo, or -1

vars == <<sent, kept, failed, sealed, printed>>

Init ==
    /\ sent = [b \in Buffers |-> 0]
    /\ kept = [b \in Buffers |-> 0]
    /\ failed = [b \in Buffers |-> FALSE]
    /\ sealed = [b \in Buffers |-> FALSE]
    /\ printed = [b \in Buffers |-> -1]

Send(b) ==
    /\ ~sealed[b]
    /\ \E n \in sent[b]..MaxBytes : sent' = [sent EXCEPT ![b] = n]
    /\ UNCHANGED <<kept, failed, sealed, printed>>

Keep(b) ==
    /\ ~sealed[b] /\ ~failed[b]
    /\ \E n \in kept[b]..sent[b] :
          \E broken \in BOOLEAN :        \* a short write keeps some and fails
             /\ kept' = [kept EXCEPT ![b] = n]
             /\ failed' = [failed EXCEPT ![b] = broken]
    /\ UNCHANGED <<sent, sealed, printed>>

\* Everything that was written is kept, or the output has failed.
Seal(b) ==
    /\ ~sealed[b]
    /\ failed[b] \/ kept[b] = sent[b]
    /\ sealed' = [sealed EXCEPT ![b] = TRUE]
    /\ \E late \in BOOLEAN : failed' = [failed EXCEPT ![b] = @ \/ late]
    /\ UNCHANGED <<sent, kept, printed>>

WriteTo(b) ==
    /\ sealed[b]
    /\ printed' = [printed EXCEPT ![b] = kept[b]]
    /\ UNCHANGED <<sent, kept, failed, sealed>>

Discard(b) ==
    /\ sealed[b]
    /\ kept' = [kept EXCEPT ![b] = 0]
    /\ UNCHANGED <<sent, failed, sealed, printed>>

Next == \E b \in Buffers : Send(b) \/ Keep(b) \/ Seal(b) \/ WriteTo(b) \/ Discard(b)

Spec == Init /\ [][Next]_vars
=============================================================================
