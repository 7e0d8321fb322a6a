---------------------------- MODULE Authentication ----------------------------
(***************************************************************************)
(* How one connection authenticates (pkg/pssh/pssh.go): the identity files *)
(* are read once, each worker makes its list of authentication methods of  *)
(* the SSH Agent and of the keys in them, and golang.org/x/crypto/ssh goes *)
(* through the list.  Of the methods with one name ("publickey" here) that *)
(* library uses only the first: see ssh.ClientConfig.Auth.                 *)
(***************************************************************************)
EXTENDS Naturals, Sequences, SequencesExt

CONSTANTS
    Keys,        \* private keys
    MaxFiles     \* bound: identity files

VARIABLES
    conf,        \* IdentityFileOnly; SSHAuthSocket is set
    files,       \* IdentFiles, in their order
    agent,       \* the agent answers; the keys that it lists
    authorized,  \* the keys that the server accepts
    step,        \* "read" | "merge" | "client" | "offer", and how it ended
    identFileData, \* Pssh.identFileData
    auth,        \* ssh.ClientConfig.Auth
    tried,       \* names of the methods the client has tried
    signers,     \* what is left of the method it is trying
    offered      \* the keys offered to the server, each with its source

machine == <<conf, files, agent, authorized>>
vars == <<machine, step, identFileData, auth, tried, signers, offered>>

\* A file holds a key, something that ParsePrivateKey refuses (a key with a
\* passphrase, say), or it cannot be opened.  inner: its path has a ~ that is
\* not its first character.
Files == [content : Keys \cup {"garbage", "missing"}, inner : BOOLEAN]

Ended == {"authenticated", "failed", "disconnected"}

Init ==
    /\ conf \in [identitiesOnly : BOOLEAN, socket : BOOLEAN]
    /\ files \in SeqOf(Files, MaxFiles)
    /\ agent \in [up : BOOLEAN, keys : {k \in SeqOf(Keys, 2) : IsInjective(k)}]
    /\ agent.up \/ agent.keys = <<>>
    /\ authorized \in SUBSET Keys
    /\ step = "read"
    /\ identFileData = <<>> /\ auth = <<>> /\ tried = {}
    /\ signers = <<>> /\ offered = <<>>

-----------------------------------------------------------------------------
\* Files that cannot be read are skipped.  The first ~ of a path becomes the
\* home directory, wherever it is, so that the file is another one.
Contents(f) == IF f.content = "missing" \/ f.inner THEN <<>> ELSE <<f.content>>

ReadIdentFiles ==
    /\ step = "read"
    /\ identFileData' = FlattenSeq([i \in DOMAIN files |-> Contents(files[i])])
    /\ step' = "merge"
    /\ UNCHANGED <<machine, auth, tried, signers, offered>>

Method(source, keys) == [name |-> "publickey", source |-> source, keys |-> keys]

getIdentFileAuthMethods(data) ==
    FlattenSeq([i \in DOMAIN data |->
        IF data[i] \in Keys THEN <<Method("file", <<data[i]>>)>> ELSE <<>>])

\* setConnPool and sshKeyAgentCallback: no method without a socket.
sshKeyAgentCallback ==
    IF conf.socket THEN <<Method("agent", agent.keys)>> ELSE <<>>

\* Mutant: the identity files come before the agent.
mergeAuthMethods_agentLast(identMethods) ==
    identMethods \o IF conf.identitiesOnly THEN <<>> ELSE sshKeyAgentCallback

mergeAuthMethods(identMethods) ==
    (IF conf.identitiesOnly THEN <<>> ELSE sshKeyAgentCallback) \o identMethods

\* conWorker: config.Auth = authMethods, and DialContext.
MergeAuth ==
    /\ step = "merge"
    /\ auth' = mergeAuthMethods(getIdentFileAuthMethods(identFileData))
    /\ step' = "client"
    /\ UNCHANGED <<machine, identFileData, tried, signers, offered>>

-----------------------------------------------------------------------------
(*             golang.org/x/crypto/ssh: connection.clientAuthenticate        *)

Untried == {i \in DOMAIN auth : auth[i].name \notin tried}

MethodFails(name) ==
    /\ tried' = tried \cup {name}
    /\ signers' = <<>>
    /\ step' = "client"

\* The signers of the first method whose name has not been tried.  An agent
\* that does not answer fails it.
TryMethod ==
    /\ step = "client" /\ Untried # {}
    /\ LET m == auth[Min(Untried)]
       IN  IF m.source = "agent" /\ ~agent.up
           THEN MethodFails(m.name)
           ELSE /\ signers' = [i \in DOMAIN m.keys |-> <<m.source, m.keys[i]>>]
                /\ step' = "offer"
                /\ UNCHANGED tried
    /\ UNCHANGED <<machine, identFileData, auth, offered>>

Offer == offered' = Append(offered, Head(signers))

Refused ==
    /\ step = "offer" /\ signers # <<>>
    /\ Head(signers)[2] \notin authorized
    /\ Offer
    /\ signers' = Tail(signers)
    /\ UNCHANGED <<machine, step, identFileData, auth, tried>>

Accepted ==
    /\ step = "offer" /\ signers # <<>>
    /\ Head(signers)[2] \in authorized
    /\ Offer
    /\ step' = "authenticated"
    /\ UNCHANGED <<machine, identFileData, auth, tried, signers>>

\* The server would take the key, but the agent does not sign with it.
SignFails ==
    /\ step = "offer" /\ signers # <<>>
    /\ Head(signers)[2] \in authorized /\ Head(signers)[1] = "agent"
    /\ Offer
    /\ MethodFails("publickey")
    /\ UNCHANGED <<machine, identFileData, auth>>

AllRefused ==
    /\ step = "offer" /\ signers = <<>>
    /\ MethodFails("publickey")
    /\ UNCHANGED <<machine, identFileData, auth, offered>>

NoMethodLeft ==
    /\ step = "client" /\ Untried = {}
    /\ step' = "failed"
    /\ UNCHANGED <<machine, identFileData, auth, tried, signers, offered>>

\* MaxAuthTries of the server.
Disconnected ==
    /\ step = "offer" /\ offered # <<>>
    /\ step' = "disconnected"
    /\ UNCHANGED <<machine, identFileData, auth, tried, signers, offered>>

Terminated == step \in Ended /\ UNCHANGED vars

Next ==
    \/ ReadIdentFiles \/ MergeAuth
    \/ TryMethod \/ Refused \/ Accepted \/ SignFails \/ AllRefused
    \/ NoMethodLeft \/ Disconnected
    \/ Terminated

Spec == Init /\ [][Next]_vars

-----------------------------------------------------------------------------
(*                                properties                                *)

\* printDryRun: the authentication candidates that --dry-run shows.
DryRun ==
    (IF ~conf.identitiesOnly /\ conf.socket THEN {"agent"} ELSE {}) \cup {"file"}

\* All the keys there are, in the order that README.md:186 gives: those of the
\* agent, unless it is disabled, then those of the identity files (of those
\* whose path has no inner ~).
Documented ==
    LET listed == IF "agent" \in DryRun THEN agent.keys ELSE <<>>
        Key(f) == IF f.content \in Keys /\ ~f.inner THEN << <<"file", f.content>> >>
                                                     ELSE <<>>
    IN  [i \in DOMAIN listed |-> <<"agent", listed[i]>>]
        \o FlattenSeq([i \in DOMAIN files |-> Key(files[i])])

\* Servers count the keys a client offers, so that it matters which ones are
\* offered, in which order, and how often.  The keys offered are the first of
\* the documented order, none left out and none again; only what --dry-run
\* announces is used; the first key that the server accepts is the one that
\* logs in; and when there is a key, one is offered, except behind an agent
\* that lists none (pssh.go:806-849, cli.go:507-511).
OffersAsDocumented ==
    /\ IsPrefix(offered, Documented)
    /\ \A i \in DOMAIN offered : offered[i][1] \in DryRun
    /\ \A i \in 1..(Len(offered) - 1) : offered[i][2] \notin authorized
    /\ step = "authenticated" => Last(offered)[2] \in authorized
    /\ /\ step = "failed" /\ Documented # <<>>
       => offered # <<>> \/ ("agent" \in DryRun /\ agent.keys = <<>>)

\* "Authentication normally tries the SSH Agent first, then explicitly
\* configured identity files, then the default identity files when none were
\* specified." (README.md:186): a connection that no key was accepted for, and
\* that the server did not end, has tried all of them.
EverySourceTried ==
    step = "failed" =>
        offered = Documented \/ \E i \in DOMAIN offered : offered[i][2] \in authorized
=============================================================================
