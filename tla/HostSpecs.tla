------------------------------ MODULE HostSpecs ------------------------------
(***************************************************************************)
(* How targets are read: normalizeHost and readHosts (pkg/pssh/pssh.go),   *)
(* which doctor and the legacy command line use, and normalizeModernHost,  *)
(* parseHostEntries and loadTargets (cmd/gopssh/cli.go), which run and     *)
(* hosts use.                                                              *)
(*                                                                         *)
(* A value is a host with or without brackets and port.  Hosts and ports   *)
(* stand for their kinds:                                                  *)
(*   ipv4, ipv6  what net.ParseIP accepts                                  *)
(*   zone        an IPv6 address with a zone, which it does not            *)
(*   dotted      four numbers that are no address, such as 10.0.0.256      *)
(*   name        a DNS name                                                *)
(*   other       neither, such as a_b                                      *)
(*   022         port 22 written in another way                            *)
(*   99999       no port number                                            *)
(***************************************************************************)
EXTENDS Naturals, Sequences, SequencesExt

HostKinds == {"ipv4", "ipv6", "zone", "dotted", "name", "other"}
Ports     == {"22", "2222", "022", "99999"}

\* The text of a value.  An address with colons needs brackets before a port:
\* without them the port is a part of the address.
Value == {v \in [host : HostKinds, port : Ports \cup {"none"},
                 brackets : BOOLEAN] :
             v.host \in {"ipv6", "zone"} /\ v.port # "none" => v.brackets}

Rejected == [host |-> "none", port |-> "none"]

IsIP(h)     == h \in {"ipv4", "ipv6"}
HasColon(h) == h \in {"ipv6", "zone"}

\* net.SplitHostPort succeeds.
Splits(v) == v.port # "none"

normalizeHost(v) ==
    CASE Splits(v) ->
            IF v.port = "99999" THEN Rejected
                                ELSE [host |-> v.host, port |-> v.port]
      [] ~Splits(v) /\ v.brackets ->
            IF IsIP(v.host) THEN [host |-> v.host, port |-> "22"]
                            ELSE Rejected
      [] ~Splits(v) /\ ~v.brackets /\ HasColon(v.host) /\ ~IsIP(v.host) ->
            Rejected
      [] OTHER -> [host |-> v.host, port |-> "22"]

normalizeModernHost(v) ==
    LET n == normalizeHost(v)
    IN  IF n.host \in {"ipv4", "ipv6", "name"} THEN n ELSE Rejected

\* net.JoinHostPort: the text of a normalized target.
AsValue(n) == [host |-> n.host, port |-> n.port, brackets |-> HasColon(n.host)]

-----------------------------------------------------------------------------
(* A hosts file is a sequence of lines, a line a sequence of words; words   *)
(* are values, and Comment is one that starts with #.                       *)

Comment == [host |-> "none", port |-> "#", brackets |-> FALSE]

\* strings.SplitN(line, "#", 2)[0], then strings.Fields.
Fields(line) ==
    LET first == CHOOSE i \in 1..(Len(line) + 1) :
                    /\ i = Len(line) + 1 \/ line[i] = Comment
                    /\ \A j \in 1..(i - 1) : line[j] # Comment
    IN  SubSeq(line, 1, first - 1)

\* All values of a file, in order.
Words(file) == FlattenSeq([l \in DOMAIN file |-> Fields(file[l])])

Error == <<Rejected>>

AllOrError(targets) ==
    IF \E i \in DOMAIN targets : targets[i] = Rejected THEN Error ELSE targets

\* readHosts: one value that is rejected makes it fail.
readHosts(file) ==
    LET words == Words(file)
    IN  AllOrError([i \in DOMAIN words |-> normalizeHost(words[i])])

\* parseHostEntries: a value that is rejected becomes an entry with an error.
parseHostEntries(file) ==
    LET words == Words(file)
        norm  == [i \in DOMAIN words |-> normalizeModernHost(words[i])]
    IN  [i \in DOMAIN words |->
            [normalized |-> norm[i],
             duplicate  |-> /\ norm[i] # Rejected
                            /\ \E j \in 1..(i - 1) : norm[j] = norm[i]]]

\* Mutant: run skips the entries that hosts validate reports.
loadTargets_skips(file, inline) ==
    LET entries == parseHostEntries(file)
    IN  SelectSeq([i \in DOMAIN entries |-> entries[i].normalized],
                  LAMBDA n : n # Rejected)

\* loadTargets: the entries of the file, then the values of --host.
loadTargets(file, inline) ==
    LET entries == parseHostEntries(file)
    IN  AllOrError([i \in DOMAIN entries |-> entries[i].normalized]
                   \o [i \in DOMAIN inline |-> normalizeModernHost(inline[i])])
=============================================================================
