------------------------------ MODULE DnsTunnel ------------------------------
(***************************************************************************)
(* The DNS tunnel transport of src/vpn_dns.C between one client node and   *)
(* the server: the client's dns_connection and request queue dns_sndpq,    *)
(* the connection the server keeps for that client, and the resolver path  *)
(* between them, which may lose, delay, reorder and repeat queries.        *)
(*                                                                         *)
(* Control is kept as in the code.  Data is abstracted: a query is a       *)
(* record of the fields the handlers read, a chunk of stream data is a     *)
(* sequence of bytes, and the text codecs are represented by which codec   *)
(* wrote a chunk and which one reads it.  Time is abstracted: a timeout    *)
(* may expire at any moment.                                               *)
(***************************************************************************)
EXTENDS Integers, Sequences, FiniteSets, SequencesExt, ByteStream

CONSTANTS
    SEQNO_MOD,        \* SEQNO_MASK + 1, the period of sequence numbers
    MAX_WINDOW,       \* MAX_WINDOW
    MAX_BACKLOG,      \* MAX_BACKLOG, the capacity of snddq; rcvdq has twice that
    MaxOutstanding,   \* conf.dns_max_outstanding
    ReqCapacity,      \* [Codecs -> Nat]: stream bytes one request carries
    RepBudget,        \* cfg.max_size less the fixed part of a reply
    TXT_MAX,          \* the longest TXT chunk (255)
    ClientPackets,    \* the packets the client's dispatcher sends, in order
    ServerPackets,    \* the packets the server's dispatcher sends, in order
    MaxIds,           \* bound: request ids are 1 .. MaxIds
    SeqBound,         \* bound: no stream request is sent once sndseq is SeqBound
                      \* (SEQNO_MOD: no bound)
    Lifetime,         \* bound: a stream query leaves the network before the
                      \* client has sent Lifetime further stream requests
    LateSyn,          \* a SYN query may outlive the request that sent it
    MaxResolverErrors,\* bound: how often a resolver answers a query itself
    MaxRestarts,      \* bound: how often the server process restarts
    CasePreserving,   \* the values conf.dns_case_preserving may be configured to
    PathFolds,        \* whether the resolver path changes the case of names
    NULL              \* no connection, no codec

ASSUME /\ SEQNO_MOD \in Nat /\ MAX_WINDOW \in 2 .. SEQNO_MOD - 1
       /\ MAX_BACKLOG \in Nat /\ MaxOutstanding \in Nat \ {0}
       /\ RepBudget \in Nat /\ TXT_MAX \in Nat \ {0}
       /\ MaxIds \in Nat /\ SeqBound \in 1 .. SEQNO_MOD /\ Lifetime \in 1 .. SEQNO_MOD
       /\ LateSyn \in BOOLEAN /\ MaxResolverErrors \in Nat
       /\ MaxRestarts \in Nat
       /\ CasePreserving \subseteq BOOLEAN /\ PathFolds \subseteq BOOLEAN

VARIABLES
    cli,              \* the client's dns_connection
    sndpq,            \* vpn::dns_sndpq, the client's outstanding requests
    timerOn,          \* the client's timer tw has been started
    casePreserving,   \* conf.dns_case_preserving
    srv,              \* the server's c->dns for this client, or NULL
    queries,          \* queries on their way to the server
    answers,          \* responses on their way to the client
    pathFolds,        \* the resolver path changes the case of query names
    faults,           \* how often the server restarted and a resolver failed
    cNext, sNext,     \* the next packet of each dispatcher
    sentC, sentS,     \* history: packets accepted into snddq at each end
    rcvdC, rcvdS      \* history: packets handed to recv_vpn_packet at each end

vars == <<cli, sndpq, timerOn, casePreserving, srv, queries, answers, pathFolds,
          faults, cNext, sNext, sentC, sentS, rcvdC, rcvdS>>

Codecs == {36, 62}
Seqno  == 0 .. SEQNO_MOD - 1
Ids    == 1 .. MaxIds
GARBAGE == 255        \* a byte decoded with the wrong codec

-----------------------------------------------------------------------------
(* Sequence numbers and connections *)

\* A fragment waiting in rcvpq (dns_rcv), and a connection (dns_connection).
Fragment == [seqno : Seqno, data : Seq(Byte), reply : Seq(Byte)]

Connection ==
    [established : BOOLEAN, cdc : Codecs \cup {NULL}, rcvpq : Seq(Fragment),
     rcvdq : Seq(Byte), rcvseq : Seqno, repseq : Seqno,
     snddq : Seq(Byte), sndseq : Seqno]

\* How far a is ahead of b, in the arithmetic of the mask SEQNO_MASK.
Ahead(a, b) == (a - b) % SEQNO_MOD

\* SEQNO_EQ (a, b)
SEQNO_EQ(a, b) == Ahead(a, b) = 0

\* dns_connection::reset (), but for the requests it takes from dns_sndpq.
\* It leaves cfg, cdc and both byte streams as they are.
reset(c) ==
    [c EXCEPT !.rcvpq = <<>>, !.established = FALSE,
              !.rcvseq = 0, !.repseq = 0, !.sndseq = 0]

\* dns_connection::dns_connection (): empty streams, then reset ().
NewConnection ==
    reset([established |-> FALSE, cdc |-> NULL, rcvpq |-> <<>>,
           rcvdq |-> <<>>, rcvseq |-> 0, repseq |-> 0,
           snddq |-> <<>>, sndseq |-> 0])

\* dns_rcv::dns_rcv (): a fragment, with room for the reply sent for it.
dns_rcv(seqno, data) == [seqno |-> seqno, data |-> data, reply |-> <<>>]

\* The loop over rcvdq.get () in receive_rep: every whole packet is taken.
Drain[s \in Seq(Byte)] ==
    LET g == get(s) IN
    IF ~g.ok THEN [pkts |-> <<>>, s |-> g.s]
    ELSE [Drain[g.s] EXCEPT !.pkts = <<g.pkt>> \o @]

\* Fault: the oldest fragment stays.
Evict_Never(pq, rcvseq) == pq

\* The search for the oldest fragment in receive_rep: the first fragment
\* MAX_WINDOW behind rcvseq leaves the reorder set.
Evict(pq, rcvseq) ==
    RemoveFirstMatch(pq, LAMBDA e : SEQNO_EQ(e.seqno, rcvseq - MAX_WINDOW))

\* The loop "redo" of receive_rep: while the fragment rcvseq waits in rcvpq
\* its data enters rcvdq and the whole packets leave it.  out collects the
\* packets delivered; overflow says that rcvdq.put failed and reset () ran.
Redo[c \in Connection, out \in Seq(Seq(Byte))] ==
    LET i == SelectLastInSeq(c.rcvpq, LAMBDA e : SEQNO_EQ(c.rcvseq, e.seqno)) IN
    IF i = 0 THEN [conn |-> c, out |-> out, overflow |-> FALSE]
    ELSE LET p == put(c.rcvdq, 2 * MAX_BACKLOG, c.rcvpq[i].data)
             d == Drain[p.s]
             n == [c EXCEPT !.rcvpq = Evict(@, c.rcvseq),
                            !.rcvseq = (@ + 1) % SEQNO_MOD,
                            !.rcvdq = d.s]
         IN IF p.ok THEN Redo[n, out \o d.pkts]
            ELSE [conn |-> reset([n EXCEPT !.rcvdq = c.rcvdq]),
                  out |-> out, overflow |-> TRUE]

\* Fault: the fragment is taken for the one rcvseq waits for.
receive_rep_AsItComes(c, r) ==
    Redo[[c EXCEPT !.rcvpq = Append(@, [r EXCEPT !.seqno = c.rcvseq])], <<>>]

\* dns_connection::receive_rep (r)
receive_rep(c, r) == Redo[[c EXCEPT !.rcvpq = Append(@, r)], <<>>]

-----------------------------------------------------------------------------
(* The resolver path *)

\* The query a request puts on the wire.  The retry count, which a stream
\* request carries in its header, is left out: decode_header drops it, and
\* beside the pacing of DNS requests nothing reads it.
Wire(r) ==
    [kind |-> IF r.stdhdr THEN "stream" ELSE "syn", id |-> r.id,
     seqno |-> r.seqno, data |-> r.data, cdc |-> r.cdc, valid |-> TRUE]

Reply(q, cmd, data) == [id |-> q.id, cmd |-> cmd, seqno |-> q.seqno, data |-> data]

Outstanding(pq, id) == \E i \in DOMAIN pq : pq[i].id = id

\* A query is still in the network: a stream query until the client is
\* Lifetime requests further, a SYN query while its request is outstanding
\* (unless LateSyn).
Live(q, c, pq) ==
    IF q.kind = "stream"
    THEN Ahead(c.sndseq - 1, q.seqno) < Lifetime
    ELSE LateSyn \/ Outstanding(pq, q.id)

\* The network after a step: what is left of qs and as.  A response whose
\* request is gone matches nothing in dnsv4_client and is left out.
Network(qs, as) ==
    /\ queries' = {q \in qs : Live(q, cli', sndpq')}
    /\ answers' = {a \in as : Outstanding(sndpq', a.id)}

\* dns_snd::dns_snd (): next_id (), abstracted to the least id that no
\* request and no query in the network carries.
FreeIds(pq) ==
    Ids \ ({pq[i].id : i \in DOMAIN pq} \cup {q.id : q \in queries})

-----------------------------------------------------------------------------
(* The client's timer: dns_connection::time_cb, run on connection c and     *)
(* request queue pq.  Which timeouts have passed, and whether send_interval *)
(* has, is left open.                                                       *)

\* Fault: only stream requests time out.
TimeoutMayPass_StreamOnly(r) == r.stdhdr

\* The timeout of a SYN request is longer than the way to the server and
\* back (unless LateSyn): it does not pass while the answer is on its way.
TimeoutMayPass(r) ==
    LateSyn \/ r.stdhdr \/ ~\E a \in answers : a.id = r.id

\* Fault: a timeout that has passed sends nothing.
Retransmit_Silent(c, pq, i) ==
    cli' = c /\ sndpq' = pq /\ Network(queries, answers)

\* The first request whose timeout has passed is sent again.
Retransmit(c, pq, i) ==
    /\ TimeoutMayPass(pq[i])
    /\ cli' = c
    /\ sndpq' = pq
    /\ Network(queries \cup {Wire(pq[i])}, answers)

\* gen_syn_req: not established and nothing outstanding, so negotiation
\* starts, with cfg.reset () and set_cfg () choosing the request codec.
SendSyn(c, pq) ==
    /\ ~c.established
    /\ pq = <<>>
    /\ FreeIds(pq) # {}
    /\ LET codec == IF casePreserving THEN 62 ELSE 36
           r == [id |-> Min(FreeIds(pq)), seqno |-> 0,
                 stdhdr |-> FALSE, data |-> <<>>, cdc |-> codec]
       IN /\ cli' = [c EXCEPT !.cdc = codec]
          /\ sndpq' = Append(pq, r)
          /\ Network(queries \cup {Wire(r)}, answers)

\* Fault: no send window.
WindowOpen_Always(c) == TRUE

\* The send window of time_cb: the request sndseq may not be sent while
\* rcvseq is MAX_WINDOW - 1 behind it.
WindowOpen(c) == ~SEQNO_EQ(c.rcvseq, c.sndseq - (MAX_WINDOW - 1))

\* gen_stream_req: established, room among the outstanding requests and in
\* the window, so the next request takes what it can carry from snddq.
SendStream(c, pq) ==
    /\ c.established
    /\ Len(pq) < MaxOutstanding
    /\ WindowOpen(c)
    /\ c.sndseq < SeqBound
    /\ FreeIds(pq) # {}
    /\ LET n == Min({ReqCapacity[c.cdc], Len(c.snddq)})
           r == [id |-> Min(FreeIds(pq)), seqno |-> c.sndseq,
                 stdhdr |-> TRUE, data |-> SubSeq(c.snddq, 1, n), cdc |-> c.cdc]
       IN /\ cli' = [c EXCEPT !.snddq = remove(@, n),
                              !.sndseq = (@ + 1) % SEQNO_MOD]
          /\ sndpq' = Append(pq, r)
          /\ Network(queries \cup {Wire(r)}, answers)

\* Nothing to send now; only the timer is started again.
Wait(c, pq) ==
    /\ c.established \/ pq # <<>>
    /\ cli' = c
    /\ sndpq' = pq
    /\ Network(queries, answers)

time_cb(c, pq) ==
    \/ \E i \in DOMAIN pq : Retransmit(c, pq, i)
    \/ SendSyn(c, pq)
    \/ SendStream(c, pq)
    \/ Wait(c, pq)

\* The timer tw fires.
ClientTimer ==
    /\ timerOn
    /\ time_cb(cli, sndpq)
    /\ UNCHANGED <<timerOn, casePreserving, srv, pathFolds, faults, cNext,
                   sNext, sentC, sentS, rcvdC, rcvdS>>

\* vpn::send_dnsv4_packet on the client: the packet enters snddq, or is
\* dropped when snddq has no room for it; when it entered, the timer
\* callback runs at once.
ClientSend ==
    /\ cNext <= Len(ClientPackets)
    /\ cNext' = cNext + 1
    /\ LET p == put_pkt(cli.snddq, MAX_BACKLOG, ClientPackets[cNext]) IN
       IF p.ok
       THEN /\ sentC' = Append(sentC, ClientPackets[cNext])
            /\ timerOn' = TRUE
            /\ time_cb([cli EXCEPT !.snddq = p.s], sndpq)
       ELSE UNCHANGED <<sentC, timerOn, cli, sndpq, queries, answers>>
    /\ UNCHANGED <<casePreserving, srv, pathFolds, faults, sNext, sentS,
                   rcvdC, rcvdS>>

-----------------------------------------------------------------------------
(* The client's handler of responses: vpn::dnsv4_client *)

\* The request a response belongs to: the first in dns_sndpq with its id.
Request(a) == SelectInSeq(sndpq, LAMBDA r : r.id = a.id)

\* Fault: CSE taken as SYN, whatever codec was asked for.
Downgrade_Never(a) == FALSE

\* CSE while the codec that needs case is configured: the configuration is
\* changed for good and negotiation starts again.
Downgrade(a) == a.cmd = "CSE" /\ casePreserving

\* What is done with the response once its request has left dns_sndpq
\* (pq is the queue without it): a meta command is obeyed; stream data
\* under the sequence number of the request, and a response without any
\* answer, go to receive_rep as the fragment of that request.
Obey(a, r, pq) ==
    LET downgrade == Downgrade(a)
        fragment  == a.cmd = "NONE" \/ (a.cmd = "DATA" /\ a.seqno = r.seqno)
    IN \E rr \in {receive_rep(cli, dns_rcv(r.seqno, a.data))} :
       /\ casePreserving' = (casePreserving /\ ~downgrade)
       /\ cli' = CASE a.cmd = "RST" \/ downgrade -> reset(cli)
                   [] a.cmd \in {"SYN", "CSE"}  -> [cli EXCEPT !.established = TRUE]
                   [] fragment                  -> rr.conn
                   [] OTHER                     -> cli
       /\ sndpq' = IF a.cmd = "RST" \/ downgrade \/ (fragment /\ rr.overflow)
                   THEN <<>> ELSE pq
       /\ rcvdC' = IF fragment THEN rcvdC \o rr.out ELSE rcvdC

ClientReceive(a) ==
    /\ Request(a) # 0
    /\ Obey(a, sndpq[Request(a)], RemoveAt(sndpq, Request(a)))
    /\ Network(queries, answers \ {a})
    /\ UNCHANGED <<timerOn, srv, pathFolds, faults, cNext, sNext, sentC,
                   sentS, rcvdS>>

-----------------------------------------------------------------------------
(* The server's handler of queries: vpn::dnsv4_server *)

\* cdc->decode at the server: the chunk the client encoded, unless it was
\* written with the other codec or the path changed the case of text that
\* the codec of 62 symbols tells apart.
Decode(q, cdc) ==
    IF q.cdc = cdc /\ ~(pathFolds /\ cdc = 62) THEN q.data
    ELSE [i \in DOMAIN q.data |-> GARBAGE]

\* Fault: the reply carries no data.
TxtFill_Nothing(dlen, avail) == 0

\* The loop that fills the TXT record: how many bytes of avail fit into
\* dlen, each chunk of at most TXT_MAX bytes behind one length byte.
RECURSIVE TxtFill(_, _)
TxtFill(dlen, avail) ==
    IF dlen > 1 /\ avail > 0
    THEN LET txtlen == Min({dlen - 1, TXT_MAX, avail})
         IN txtlen + TxtFill(dlen - (txtlen + 1), avail - txtlen)
    ELSE 0

\* Fault: every new request takes data from snddq.
InSequence_Always(seqno, repseq) == TRUE

\* Only a request in sequence takes data from snddq.
InSequence(seqno, repseq) == Ahead(seqno, repseq) <= MAX_WINDOW

\* The cached reply of the fragment seqno, if it is still in pq.
StoreReply(pq, seqno, rep) ==
    [i \in DOMAIN pq |->
        IF SEQNO_EQ(pq[i].seqno, seqno) THEN [pq[i] EXCEPT !.reply = rep] ELSE pq[i]]

\* The request was seen before: the index of its fragment in rcvpq, or 0.
Seen(pq, seqno) == SelectLastInSeq(pq, LAMBDA e : SEQNO_EQ(e.seqno, seqno))

\* Fault: without connection the query is answered as if there were no data.
ServerNoConnection_Empty(q, rest) ==
    /\ srv = NULL
    /\ Network(rest, answers \cup {Reply(q, "DATA", <<>>)})
    /\ UNCHANGED <<srv, sentS, rcvdS>>

\* A stream query for a client without connection is answered RST.
ServerNoConnection(q, rest) ==
    /\ srv = NULL
    /\ Network(rest, answers \cup {Reply(q, "RST", <<>>)})
    /\ UNCHANGED <<srv, sentS, rcvdS>>

\* A stream query seen before is answered from the cache.
ServerDuplicate(q, rest) ==
    /\ srv # NULL
    /\ Seen(srv.rcvpq, q.seqno) # 0
    /\ Network(rest,
               answers \cup {Reply(q, "DATA", srv.rcvpq[Seen(srv.rcvpq, q.seqno)].reply)})
    /\ UNCHANGED <<srv, sentS, rcvdS>>

\* A new stream query: its data goes to receive_rep, the reply takes data
\* from snddq if the query is in sequence, and the reply is cached.
ServerFragment(q, rest) ==
    /\ srv # NULL
    /\ Seen(srv.rcvpq, q.seqno) = 0
    /\ \E rr \in {receive_rep(srv, dns_rcv(q.seqno, Decode(q, srv.cdc)))} :
       \E n \in {IF InSequence(q.seqno, rr.conn.repseq)
                 THEN TxtFill(RepBudget - Len(q.data), Len(rr.conn.snddq))
                 ELSE 0} :
          /\ srv' = [rr.conn EXCEPT
                       !.repseq = IF InSequence(q.seqno, @) THEN q.seqno ELSE @,
                       !.snddq = remove(@, n),
                       !.rcvpq = StoreReply(@, q.seqno, SubSeq(rr.conn.snddq, 1, n))]
          /\ rcvdS' = rcvdS \o rr.out
          /\ Network(rest, answers \cup {Reply(q, "DATA", SubSeq(rr.conn.snddq, 1, n))})
    /\ UNCHANGED sentS

\* A SYN query: a valid configuration replaces the connection of the client
\* by a new one; the answer tells whether the name arrived as it was sent.
ServerSyn(q, rest) ==
    /\ IF q.valid
       THEN /\ srv' = [NewConnection EXCEPT !.cdc = q.cdc]
            /\ sentS' = <<>>
            /\ Network(rest,
                       answers \cup {Reply(q, IF pathFolds THEN "CSE" ELSE "SYN", <<>>)})
       ELSE /\ Network(rest, answers \cup {Reply(q, "REJ", <<>>)})
            /\ UNCHANGED <<srv, sentS>>
    /\ UNCHANGED rcvdS

\* dnsv4_ev at the server: one query is read, handled and answered.  rest
\* is what stays in the network: the resolver may deliver a query again.
ServerReceive(q, rest) ==
    /\ UNCHANGED <<cli, sndpq, timerOn, casePreserving, pathFolds, faults,
                   cNext, sNext, sentC, rcvdC>>
    /\ \/ q.kind = "syn" /\ ServerSyn(q, rest)
       \/ q.kind = "stream" /\ ServerNoConnection(q, rest)
       \/ q.kind = "stream" /\ ServerDuplicate(q, rest)
       \/ q.kind = "stream" /\ ServerFragment(q, rest)

\* vpn::send_dnsv4_packet on the server, for a client it has a connection
\* for: the packet enters snddq or is dropped; the server's timer does
\* nothing.
ServerSend ==
    /\ srv # NULL
    /\ sNext <= Len(ServerPackets)
    /\ sNext' = sNext + 1
    /\ LET p == put_pkt(srv.snddq, MAX_BACKLOG, ServerPackets[sNext]) IN
       /\ srv' = [srv EXCEPT !.snddq = p.s]
       /\ sentS' = IF p.ok THEN Append(sentS, ServerPackets[sNext]) ELSE sentS
    /\ UNCHANGED <<cli, sndpq, timerOn, casePreserving, queries, answers,
                   pathFolds, faults, cNext, sentC, rcvdC, rcvdS>>

-----------------------------------------------------------------------------
(* The environment *)

\* The network loses a query or a response.
Lose ==
    /\ \/ \E q \in queries : queries' = queries \ {q} /\ UNCHANGED answers
       \/ \E a \in answers : answers' = answers \ {a} /\ UNCHANGED queries
    /\ UNCHANGED <<cli, sndpq, timerOn, casePreserving, srv, pathFolds, faults,
                   cNext, sNext, sentC, sentS, rcvdC, rcvdS>>

\* The resolver gives up on a query and answers it itself, without answer
\* records (SERVFAIL, NXDOMAIN).
ResolverFails(q) ==
    /\ faults.resolver < MaxResolverErrors
    /\ faults' = [faults EXCEPT !.resolver = @ + 1]
    /\ UNCHANGED <<cli, sndpq, timerOn, casePreserving, srv, pathFolds,
                   cNext, sNext, sentC, sentS, rcvdC, rcvdS>>
    /\ Network(queries \ {q}, answers \cup {Reply(q, "NONE", <<>>)})

\* The server process restarts: it has a connection for no client.
ServerRestart ==
    /\ faults.restart < MaxRestarts
    /\ faults' = [faults EXCEPT !.restart = @ + 1]
    /\ srv' = NULL
    /\ sentS' = <<>>
    /\ UNCHANGED <<cli, sndpq, timerOn, casePreserving, queries, answers,
                   pathFolds, cNext, sNext, sentC, rcvdC, rcvdS>>

-----------------------------------------------------------------------------
SndRequest ==
    [id : Ids, seqno : Seqno, stdhdr : BOOLEAN,
     data : Seq(Byte), cdc : Codecs]

Query ==
    [kind : {"syn", "stream"}, id : Ids, seqno : Seqno,
     data : Seq(Byte), cdc : Codecs, valid : BOOLEAN]

Response ==
    [id : Ids, cmd : {"DATA", "NONE", "SYN", "CSE", "REJ", "RST"}, seqno : Seqno,
     data : Seq(Byte)]

TypeOK ==
    /\ cli \in Connection
    /\ Len(cli.snddq) <= MAX_BACKLOG /\ Len(cli.rcvdq) <= 2 * MAX_BACKLOG
    /\ sndpq \in Seq(SndRequest)
    /\ timerOn \in BOOLEAN /\ casePreserving \in BOOLEAN /\ pathFolds \in BOOLEAN
    /\ srv = NULL \/ srv \in Connection
    /\ srv # NULL => Len(srv.snddq) <= MAX_BACKLOG /\ Len(srv.rcvdq) <= 2 * MAX_BACKLOG
    /\ queries \subseteq Query /\ answers \subseteq Response
    /\ faults \in [restart : 0 .. MaxRestarts, resolver : 0 .. MaxResolverErrors]
    /\ cNext \in 1 .. Len(ClientPackets) + 1 /\ sNext \in 1 .. Len(ServerPackets) + 1
    /\ sentC \in Seq(Seq(Byte)) /\ sentS \in Seq(Seq(Byte))
    /\ rcvdC \in Seq(Seq(Byte)) /\ rcvdS \in Seq(Seq(Byte))

-----------------------------------------------------------------------------
(* Properties *)

\* The two directions of the tunnel, each seen as the link PacketLink
\* describes: what send_dnsv4_packet accepted, what recv_vpn_packet was
\* given, and the rcvdq between them.
C2S == INSTANCE PacketLink
           WITH accepted <- sentC, delivered <- rcvdS,
                buffered <- IF srv = NULL THEN <<>> ELSE srv.rcvdq

S2C == INSTANCE PacketLink
           WITH accepted <- sentS, delivered <- rcvdC, buffered <- cli.rcvdq

\* The stream from client to server arrives as it was sent.  Every step of
\* the tunnel is a step of the link or leaves it as it is: the packets the
\* server hands to recv_vpn_packet, and the bytes receive_rep has put into
\* the server's rcvdq behind them, are at all times a beginning of the
\* stream of the packets the client's send_dnsv4_packet accepted; that
\* beginning only grows, and no packet once delivered is delivered again
\* or taken back, whatever the order in which the queries arrive and
\* however often time_cb sends them.
C2S_Link == C2S!Spec

\* The stream from server to client arrives as it was sent: the client's
\* receive_rep puts the data of the replies into rcvdq in the order in
\* which dnsv4_server took it from snddq, each chunk once although the
\* reply to a repeated query carries it again.  A copy of SYN that arrives
\* while the client is not yet established begins the session anew
\* (dnsv4_server replaces the connection), and only then are packets given
\* up that the server had accepted.
S2C_Link == S2C!SessionSpec

\* No end hands a packet to recv_vpn_packet that the dispatcher of the
\* other end did not send: whatever is lost when a connection is reset,
\* the bytes byte_stream::get () makes a packet of are those of one frame.
Authentic ==
    /\ \A i \in DOMAIN rcvdC : \E j \in DOMAIN ServerPackets : rcvdC[i] = ServerPackets[j]
    /\ \A i \in DOMAIN rcvdS : \E j \in DOMAIN ClientPackets : rcvdS[i] = ClientPackets[j]

\* The ends agree on the codec: when dnsv4_client has set established, the
\* server has a connection whose cdc is the client's, and on a path that
\* changes case that codec is the one of 36 symbols (CSE made the client
\* downgrade).
CodecAgreement ==
    cli.established =>
        /\ srv # NULL /\ srv.cdc = cli.cdc
        /\ pathFolds => cli.cdc = 36

\* Negotiation survives a restart of the server: whenever an established
\* client and a connection at the server exist together, after RST and a
\* new SYN as much as before, the connection decodes with the codec the
\* client encodes with, and the downgrade CSE caused is not undone.
SessionCodec ==
    cli.established /\ srv # NULL =>
        /\ srv.cdc = cli.cdc
        /\ pathFolds => cli.cdc = 36

\* The reorder set rcvpq of c holds one fragment for a sequence number, and
\* only fragments from MAX_WINDOW behind rcvseq (kept to answer repeated
\* queries) to MAX_WINDOW - 2 ahead of it (the send window of time_cb):
\* receive_rep evicts what is older and nothing newer is ever sent.
InWindow(c) ==
    /\ \A i, j \in DOMAIN c.rcvpq : c.rcvpq[i].seqno = c.rcvpq[j].seqno => i = j
    /\ \A i \in DOMAIN c.rcvpq :
          Ahead(c.rcvpq[i].seqno, c.rcvseq - MAX_WINDOW) <= 2 * MAX_WINDOW - 2

ReorderSetInWindow == InWindow(cli) /\ (srv # NULL => InWindow(srv))

\* The three counters are in order: the fragments the client has taken
\* (its rcvseq) are among those the server has taken (the server's rcvseq),
\* these among the requests sent (sndseq), and sndseq is less than
\* MAX_WINDOW ahead of the client's rcvseq.
SequenceOrder ==
    cli.established =>
        /\ srv # NULL
        /\ Ahead(srv.rcvseq, cli.rcvseq) + Ahead(cli.sndseq, srv.rcvseq) <= MAX_WINDOW - 1

Init ==
    /\ cli = NewConnection
    /\ sndpq = <<>>
    /\ timerOn = FALSE
    /\ casePreserving \in CasePreserving
    /\ srv = NULL
    /\ queries = {}
    /\ answers = {}
    /\ pathFolds \in PathFolds
    /\ faults = [restart |-> 0, resolver |-> 0]
    /\ cNext = 1 /\ sNext = 1
    /\ sentC = <<>> /\ sentS = <<>> /\ rcvdC = <<>> /\ rcvdS = <<>>

Next ==
    \/ ClientSend
    \/ ClientTimer
    \/ \E a \in answers : ClientReceive(a)
    \/ \E q \in queries : \E rest \in {queries, queries \ {q}} :
          ServerReceive(q, rest)
    \/ ServerSend
    \/ Lose
    \/ \E q \in queries : ResolverFails(q)
    \/ ServerRestart

Spec == Init /\ [][Next]_vars

-----------------------------------------------------------------------------
(* Fairness and liveness *)

\* time_cb always starts the timer tw again, so a request that stays in
\* dns_sndpq is sent again and again, and a request that may be generated
\* is generated.
TimerResends(id) ==
    /\ timerOn
    /\ \E i \in DOMAIN sndpq : sndpq[i].id = id /\ Retransmit(cli, sndpq, i)
    /\ UNCHANGED <<timerOn, casePreserving, srv, pathFolds, faults, cNext,
                   sNext, sentC, sentS, rcvdC, rcvdS>>

TimerSends ==
    /\ timerOn
    /\ SendSyn(cli, sndpq) \/ SendStream(cli, sndpq)
    /\ UNCHANGED <<timerOn, casePreserving, srv, pathFolds, faults, cNext,
                   sNext, sentC, sentS, rcvdC, rcvdS>>

\* The event loop reads what arrives; the network does not lose every copy
\* of a message that is sent again and again.
Arrives(id) == \E q \in queries : q.id = id /\ ServerReceive(q, queries \ {q})

Returns(id) == \E a \in answers : a.id = id /\ ClientReceive(a)

Fairness ==
    /\ WF_vars(TimerSends)
    /\ \A id \in Ids : /\ WF_vars(TimerResends(id))
                        /\ SF_vars(Arrives(id))
                        /\ SF_vars(Returns(id))

FairSpec == Spec /\ Fairness

\* Negotiation ends: once the client's dispatcher has sent a packet the
\* client is established, however often SYN or its answer is lost.
Establishes == timerOn ~> cli.established

\* Every packet the client's send_dnsv4_packet accepted is handed to
\* recv_vpn_packet at the server: lost queries are made up for by the
\* timeouts of time_cb, lost responses by the server's cache of replies.
C2S_Delivered == \A n \in DOMAIN ClientPackets : Len(sentC) >= n ~> Len(rcvdS) >= n

\* Every packet the server's send_dnsv4_packet accepted for the session the
\* client has joined is handed to recv_vpn_packet at the client: the client
\* keeps sending stream requests, with data or without, and dnsv4_server
\* fills the reply to each one that is in sequence from snddq.  (A packet
\* queued before a copy of SYN arrives goes with the connection that SYN
\* replaces.)
S2C_Delivered ==
    \A n \in DOMAIN ServerPackets :
        (cli.established /\ Len(sentS) >= n) ~> Len(rcvdC) >= n

\* The client finds its way back: when the server has lost its connections
\* (dnsv4_server answers RST, dnsv4_client resets and time_cb sends SYN
\* again), or a resolver answered in the server's place, the client is in
\* the end established with a server that has a connection for it.
Resynchronises == timerOn ~> (cli.established /\ srv # NULL)
=============================================================================
