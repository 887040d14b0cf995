------------------------------ MODULE Gvpectrl ------------------------------
(***************************************************************************)
(* gvpectrl (src/src/gvpectrl.C): parse_options and main as operators from *)
(* the arguments to what the tool does, and keygen as the steps of one     *)
(* invocation on the key files of the nodes, between which another         *)
(* invocation can run and at which it can be stopped.                      *)
(*                                                                         *)
(* A key file is the sequence of the keys written to it; who reads it      *)
(* takes the first.  A key is named after the invocation that generated    *)
(* it and the node it is for.                                              *)
(***************************************************************************)
EXTENDS Integers, Sequences, SequencesExt

CONSTANTS
    Tools,          \* the invocations of gvpectrl
    Nodes,          \* conf.nodes, in its order
    Argvs           \* the argument lists an invocation can have

VARIABLES
    tool,           \* per invocation: where it is, and at which node
    pubkey,         \* per node: the file pubkey/<node>
    hostkeys,       \* per node: the file hostkeys/<node>
    raced           \* two invocations have found the same node without a key

ctlvars == <<tool, pubkey, hostkeys, raced>>

NodeNames == Range(Nodes)

Key(t, n) == [by |-> t, for |-> n]

-----------------------------------------------------------------------------
(* parse_options and main *)

\* The names -k knows, with the numbers of the signals.
SignalNames ==
    ("HUP" :> 1) @@ ("INT" :> 2) @@ ("KILL" :> 9) @@ ("USR1" :> 10) @@
    ("USR2" :> 12) @@ ("ALRM" :> 14) @@ ("TERM" :> 15)

\* The flags, and whether usage (1) has ended the process.
NoFlags ==
    [show_help |-> 0, show_version |-> 0, kill_gvpe |-> 0, show_config |-> 0,
     quiet |-> 0, generate_keys |-> 0, usage |-> FALSE]

\* atoi, of the arguments that spell a number; 0 of any other.
atoi(arg) ==
    LET Numerals == ("0" :> 0) @@ ("9" :> 9)
    IN  IF arg \in DOMAIN Numerals THEN Numerals[arg] ELSE 0

\* The signal -k names: TERM without an argument, a name, or a number.
Signal(arg) ==
    CASE arg = "" -> SignalNames["TERM"]
      [] arg \in DOMAIN SignalNames -> SignalNames[arg]
      [] OTHER -> atoi(arg)

\* The long options that set a flag themselves, and what they set it to;
\* --config, --kill and --generate-keys come back as their letters.
long_options ==
    ("help" :> [flag |-> "show_help", val |-> 1]) @@
    ("version" :> [flag |-> "show_version", val |-> 1]) @@
    ("quiet" :> [flag |-> "quiet", val |-> 1]) @@
    ("show-config" :> [flag |-> "show_config", val |-> 115])

\* One round of the loop over getopt_long, which has returned o: the name
\* of a long option that has set its flag, a letter, or "?".  After
\* usage (1) there is no further round.
Option(flags, o) ==
    CASE flags.usage -> flags
      [] o.opt \in DOMAIN long_options ->
            [flags EXCEPT ![long_options[o.opt].flag] = long_options[o.opt].val]
      [] o.opt = "k" ->
            IF Signal(o.arg) = 0 THEN [flags EXCEPT !.usage = TRUE]
            ELSE [flags EXCEPT !.kill_gvpe = Signal(o.arg)]
      [] o.opt = "g" -> [flags EXCEPT !.generate_keys = 2048]
      [] o.opt = "s" -> [flags EXCEPT !.show_config = 1]
      [] o.opt = "q" -> [flags EXCEPT !.quiet = 1]
      [] o.opt = "?" -> [flags EXCEPT !.usage = TRUE]
      [] OTHER -> flags

parse_options(argv) == FoldLeft(Option, NoFlags, argv)

\* What main does with the flags: the first that is set, in its order.
main(flags) ==
    CASE flags.usage -> "usage"
      [] flags.show_version # 0 -> "version"
      [] flags.show_help # 0 -> "help"
      [] flags.generate_keys # 0 -> "keygen"
      [] flags.kill_gvpe # 0 -> "kill_other"
      [] flags.show_config # 0 -> "show_config"
      [] OTHER -> "usage"

-----------------------------------------------------------------------------
(* keygen *)

\* The process ends with a status.
Exit(status) == [pc |-> IF status = 0 THEN "exit0" ELSE "exit1", i |-> 0]

At(t) == Nodes[tool[t].i]

\* The loop goes to the next node, and keygen returns after the last.
Continue(t) ==
    tool' = [tool EXCEPT ![t] =
                IF tool[t].i < Len(Nodes) THEN [pc |-> "open", i |-> tool[t].i + 1]
                ELSE Exit(0)]

\* usage prints for the status and ends the process with it.
usage(status) == Exit(status)

\* keygen makes the two directories, whether or not they can be made, and
\* begins with the first node; without nodes it returns 0.
keygen == IF Nodes = <<>> THEN Exit(0) ELSE [pc |-> "open", i |-> 1]

Invoke(t, argv) ==
    /\ tool[t].pc = "idle"
    /\ LET do == main(parse_options(argv))
       IN  tool' = [tool EXCEPT ![t] =
              CASE do = "usage" -> usage(1)
                [] do = "help" -> usage(0)
                [] do = "keygen" -> keygen
                [] do = "kill_other" -> [pc |-> "kill_other", i |-> 0]
                [] OTHER -> Exit(0)]
    /\ UNCHANGED <<pubkey, hostkeys, raced>>

\* Fault: the file of the public key opened for writing, not for appending.
OpenPub_Truncating(t) ==
    /\ tool[t].pc = "open"
    /\ pubkey' = [pubkey EXCEPT ![At(t)] = <<>>]
    /\ tool' = [tool EXCEPT ![t].pc = "public"]
    /\ UNCHANGED <<hostkeys, raced>>

\* The file of the public key is opened for appending; a node whose file
\* has something in it is skipped.
OpenPub(t) ==
    /\ tool[t].pc = "open"
    /\ IF pubkey[At(t)] # <<>>
       THEN Continue(t) /\ UNCHANGED raced
       ELSE /\ tool' = [tool EXCEPT ![t].pc = "public"]
            /\ raced' = (raced \/ \E o \in Tools \ {t} :
                                      /\ tool[o].pc \in {"public", "private"}
                                      /\ tool[o].i = tool[t].i)
    /\ UNCHANGED <<pubkey, hostkeys>>

\* Fault: the private key is written first.
WritePub_PrivateFirst(t) ==
    /\ tool[t].pc = "public"
    /\ hostkeys' = [hostkeys EXCEPT ![At(t)] = Append(@, Key(t, At(t)))]
    /\ tool' = [tool EXCEPT ![t].pc = "private"]
    /\ UNCHANGED <<pubkey, raced>>

\* The key is generated and its public half written behind what the file
\* has by then.
WritePub(t) ==
    /\ tool[t].pc = "public"
    /\ pubkey' = [pubkey EXCEPT ![At(t)] = Append(@, Key(t, At(t)))]
    /\ tool' = [tool EXCEPT ![t].pc = "private"]
    /\ UNCHANGED <<hostkeys, raced>>

\* Fault: the key of the first node written for every node.
WritePriv_FirstKey(t) ==
    /\ tool[t].pc = "private"
    /\ hostkeys' = [hostkeys EXCEPT ![At(t)] = Append(@, Key(t, Nodes[1]))]
    /\ Continue(t)
    /\ UNCHANGED <<pubkey, raced>>

\* The private half is appended to the file of the host key.
WritePriv(t) ==
    /\ tool[t].pc = "private"
    /\ hostkeys' = [hostkeys EXCEPT ![At(t)] = Append(@, Key(t, At(t)))]
    /\ Continue(t)
    /\ UNCHANGED <<pubkey, raced>>

\* A file cannot be opened or a key not made or written, and keygen ends
\* the process; or the user does, while the key is generated.  Ended
\* between the two writes, it leaves half a pair.
Aborts(t) ==
    /\ tool[t].pc \in {"open", "public", "private"}
    /\ tool' = [tool EXCEPT ![t] = IF @.pc = "private" THEN [@ EXCEPT !.pc = "half"]
                                   ELSE Exit(1)]
    /\ UNCHANGED <<pubkey, hostkeys, raced>>

-----------------------------------------------------------------------------
CtlInit ==
    /\ tool = [t \in Tools |-> [pc |-> "idle", i |-> 0]]
    /\ pubkey = [n \in NodeNames |-> <<>>]
    /\ hostkeys = [n \in NodeNames |-> <<>>]
    /\ raced = FALSE

CtlNext ==
    \E t \in Tools :
        \/ \E argv \in Argvs : Invoke(t, argv)
        \/ OpenPub(t)
        \/ WritePub(t)
        \/ WritePriv(t)
        \/ Aborts(t)

CtlSpec == CtlInit /\ [][CtlNext]_ctlvars

-----------------------------------------------------------------------------
Keys == [by : Tools, for : NodeNames]

CtlTypeOK ==
    /\ tool \in [Tools -> [pc : {"idle", "open", "public", "private", "half",
                                 "exit0", "exit1", "kill_other"},
                           i : 0 .. Len(Nodes)]]
    /\ \A t \in Tools :
          tool[t].pc \in {"open", "public", "private", "half"} <=> tool[t].i > 0
    /\ pubkey \in [NodeNames -> Seq(Keys)]
    /\ hostkeys \in [NodeNames -> Seq(Keys)]
    /\ raced \in BOOLEAN

\* A private key on the disk has its public key on the disk, and a public
\* key is without its private key only while the invocation that wrote it
\* is about to write that, or when that invocation was ended there: keygen
\* writes the public key first, and a run that is stopped between the two
\* leaves a node with half a pair, which every later run skips.
PrivateFollows ==
    \A n \in NodeNames :
        /\ Range(hostkeys[n]) \subseteq Range(pubkey[n])
        /\ \A k \in Range(pubkey[n]) \ Range(hostkeys[n]) :
              tool[k.by].pc \in {"private", "half"} /\ At(k.by) = n

\* The key a node has is never replaced: what a key file begins with, it
\* begins with for good, whoever runs keygen again and however often (the
\* files are opened for appending, and a node with a key is skipped).
KeysStable ==
    [][\A n \in NodeNames :
          /\ pubkey[n] # <<>> => pubkey'[n] # <<>> /\ Head(pubkey'[n]) = Head(pubkey[n])
          /\ hostkeys[n] # <<>> => hostkeys'[n] # <<>> /\ Head(hostkeys'[n]) = Head(hostkeys[n])
      ]_ctlvars

\* The two files of a node begin with the halves of one pair, through runs
\* that are stopped and repeated, unless two invocations have found the
\* same node without a key at the same time: then both append to both
\* files, in an order of their own for each (the test of ftell and the
\* order of the writes in keygen).
Paired ==
    ~raced =>
        \A n \in NodeNames :
            hostkeys[n] # <<>> => Head(hostkeys[n]) = Head(pubkey[n])

=============================================================================
