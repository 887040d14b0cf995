------------------------------ MODULE DnsName ------------------------------
(***************************************************************************)
(* One DNS exchange of the tunnel at the level of names and bytes          *)
(* (src/src/vpn_dns.C): the client writes a negotiation record or a piece  *)
(* of its stream into the labels of a question, the path may change the    *)
(* case of the letters, a hostile sender may write any question, and the   *)
(* server reads the labels back and decides what the request was; the      *)
(* client reads the response, which somebody else may have written.        *)
(* DnsTunnel takes the name of a request as a record; this module shows    *)
(* what the server recovers from the characters.                           *)
(***************************************************************************)
EXTENDS BaseCoder, Integers, FiniteSets

CONSTANTS
    NumClients,         \* conns.size (): nodes 1 .. NumClients are known
    Nodes,              \* the nodes that run a client
    Domain,             \* THISNODE->domain, as its labels
    dns_case_preserving,\* conf.dns_case_preserving as configured
    MAX_DOMAIN_SIZE,    \* budget of a name on the wire
    MAX_LBL_SIZE,       \* longest label
    MAXSIZE,            \* size of a packet buffer
    MaxUid,             \* bound on dns_cfg::next_uid
    MaxRetry,           \* bound on dns_snd::retry
    Seqnos,             \* sequence numbers a stream request is sent under
    Payloads,           \* contents of the send queue
    Forged,             \* question sections a hostile sender writes
    Spoofed,            \* answer sections a third party writes
    Replies,            \* contents of the server's send queue
    StaleBytes          \* what memory never written may hold

VARIABLES
    next_uid,           \* dns_cfg::next_uid of each client
    case_preserving,    \* conf.dns_case_preserving of each client, as it is now
    established,        \* dns_connection::established of each client
    cfg,                \* dns_connection::cfg of each client, <<>> before reset
    snd,                \* the request outstanding
    pkt,                \* its datagram, where the path has it
    dns,                \* server: cfg of c->dns per known node, <<>> if none
    rep                 \* what the server made of the datagram

vars == <<next_uid, case_preserving, established, cfg, snd, pkt, dns, rep>>

RR_TYPE_A    == 1
RR_TYPE_NULL == 10
RR_TYPE_TXT  == 16
RR_TYPE_ANY  == 255
RR_CLASS_IN  == 1
MAX_PKT_SIZE == 512
CMD_IP       == <<207, 46, 236>>
CMD_IP_RST   == 29
CMD_IP_REJ   == 32
CMD_IP_SYN   == 113
CMD_IP_CSE   == 213
CFG_SIZE     == 24      \* sizeof (dns_cfg)
DOT          == 46

Verdicts == {"none", "crash", "FORMERR", "SERVFAIL", "EMPTY",
             "DATA", "RST", "SYN", "CSE", "REJ"}

\* What else becomes of a request: a response somebody else wrote, a client
\* that has stopped over one, and a datagram no handler has seen.
Fates == {"spoofed", "abort", "ignored"}

\* The last byte of the address in an A record, and what it tells the client.
Commands ==
    ("RST" :> CMD_IP_RST) @@ ("REJ" :> CMD_IP_REJ) @@
    ("SYN" :> CMD_IP_SYN) @@ ("CSE" :> CMD_IP_CSE)

NoRequest == [kind |-> "none", node |-> 0, seqno |-> 0, retry |-> 0,
              data |-> <<>>, wire |-> <<>>]
NoPacket  == [kind |-> "none", body |-> <<>>]
NoReply   == [verdict |-> "none", client |-> 0, seqno |-> 0, data |-> <<>>,
              ancount |-> 0, wire |-> <<>>, sent |-> <<>>, cached |-> FALSE]

----------------------------------------------------------------------------
(***************************************************************************)
(* dns_cfg.  The record is its 24 bytes in memory: chksum, rrtype, uid (2, *)
(* host order, low byte first), version, flags, max_size (2), "GVPE",      *)
(* client (2), def_ttl, r0, syn_cdc, hdr_cdc, req_cdc, rep_cdc, r1 .. r4.  *)
(***************************************************************************)
get_chksum(record) ==
    LET sum == 65280 + SumFunction([i \in 2 .. CFG_SIZE |-> record[i] * i])
    IN  (sum + (sum \div 256)) % 256

reset(clientid, uid, preserving) ==
    LET fields == <<0, RR_TYPE_TXT, uid % 256, (uid \div 256) % 256, 2, 0,
                    MAX_PKT_SIZE \div 256, MAX_PKT_SIZE % 256, 71, 86, 80, 69,
                    clientid \div 256, clientid % 256, 0, 0,
                    26, 36, IF preserving THEN 62 ELSE 36, 0, 0, 0, 0, 0>>
    IN  [fields EXCEPT ![1] = get_chksum(fields)]

valid(record) ==
    /\ SubSeq(record, 9, 12) = <<71, 86, 80, 69>>
    /\ record[5] = 2
    /\ record[17] = 26
    /\ record[18] = 36
    /\ record[19] \in {36, 62}
    /\ record[20] = 0
    /\ record[1] = get_chksum(record)

\* dns_connection::set_cfg
set_cfg(record) == IF record[19] = 36 THEN cdc36 ELSE cdc62

----------------------------------------------------------------------------
(***************************************************************************)
(* The question section the client writes.                                 *)
(***************************************************************************)
DomainString ==
    FlattenSeq([i \in DOMAIN Domain |->
                   IF i = 1 THEN Domain[i] ELSE <<DOT>> \o Domain[i]])

append_domain ==
    FlattenSeq([i \in DOMAIN Domain |-> <<Len(Domain[i])>> \o Domain[i]])

Question(labels, qtype) ==
    labels \o append_domain \o <<0, qtype \div 256, qtype % 256, 0, RR_CLASS_IN>>

\* The symbols in labels of at most MAX_LBL_SIZE, each behind its length.
Labels(enc) ==
    LET count    == (Len(enc) + MAX_LBL_SIZE - 1) \div MAX_LBL_SIZE
        chunk(j) == SubSeq(enc, (j - 1) * MAX_LBL_SIZE + 1,
                           Min({j * MAX_LBL_SIZE, Len(enc)}))
    IN  FlattenSeq([j \in 1 .. count |-> <<Len(chunk(j))>> \o chunk(j)])

\* Fault: the symbols of the data sized without the length bytes of the labels.
StreamBudget_NoLabels ==
    MAX_DOMAIN_SIZE - (Len(DomainString) + 2) - HDRSIZE

\* What is left of the name for the symbols of the data.
StreamBudget ==
    LET dlen == MAX_DOMAIN_SIZE - (Len(DomainString) + 2)
    IN  dlen - ((dlen + MAX_LBL_SIZE - 1) \div MAX_LBL_SIZE) - HDRSIZE

\* The bytes gen_stream_req takes from the stream.
Taken(cdc, stream) ==
    SubSeq(stream, 1, Min({decode_len(cdc, StreamBudget), Len(stream)}))

gen_stream_req(cdc, id, seqno, stream) ==
    Question(Labels(encode_header(id, seqno, 0) \o encode(cdc, Taken(cdc, stream))),
             RR_TYPE_ANY)

\* One label, which the code asserts to be no longer than MAX_LBL_SIZE.
gen_syn_req(record) ==
    Question(<<encode_len(cdc26, CFG_SIZE)>> \o encode(cdc26, record), RR_TYPE_A)

\* time_cb, a request that timed out: the header again, with the retry count.
Reheader(body, id, seqno, retry) ==
    [i \in DOMAIN body |->
        IF i \in 2 .. HDRSIZE + 1 THEN encode_header(id, seqno, retry)[i - 1]
                                  ELSE body[i]]

----------------------------------------------------------------------------
(***************************************************************************)
(* dns_packet::decode_label.  The datagram is its twelve header bytes and  *)
(* the question; the server has written its flags over those of the query, *)
(* and what lies behind the bytes received was never written.  A pointer   *)
(* is a call of decode_label by itself, after which the caller returns: it *)
(* is a step here, and a pointer that leads back to itself, with nothing   *)
(* read in between, is a recursion that ends with the stack.               *)
(***************************************************************************)
Datagram(body, stale) ==
    <<stale, stale, 133, 129, 0, 1, stale, stale, stale, stale, stale, stale>> \o body

At(dgram, stale, offs) == IF offs < Len(dgram) THEN dgram[offs + 1] ELSE stale

LabelState ==
    [offs : Nat, top : Nat, nested : BOOLEAN, size : Nat, out : Seq(Octet),
     trail : SUBSET Nat, status : {"more", "done", "overflow"}]

\* The read position moves on; it is the caller's as long as no pointer was met.
Advance(c, by) ==
    [c EXCEPT !.offs = @ + by, !.top = IF c.nested THEN @ ELSE c.offs + by]

LabelStep(dgram, stale, c) ==
    LET len   == At(dgram, stale, c.offs)
        offs2 == (len % 64) * 256 + At(dgram, stale, c.offs + 1)
    IN  IF c.offs >= c.size - 1 THEN [c EXCEPT !.status = "done"]
        ELSE IF len = 0 THEN [Advance(c, 1) EXCEPT !.status = "done"]
        ELSE IF len < 64
        THEN IF c.size < len + 1 \/ c.offs + 1 + len >= MAXSIZE - 1
             THEN [Advance(c, 1) EXCEPT !.status = "done"]
             ELSE [Advance(c, 1 + len) EXCEPT
                      !.size = @ - (len + 1), !.trail = {},
                      !.out = @ \o [j \in 1 .. len |-> At(dgram, stale, c.offs + j)]
                                \o <<DOT>>]
        ELSE IF offs2 \in c.trail THEN [c EXCEPT !.status = "overflow"]
        ELSE [c EXCEPT !.offs = offs2, !.nested = TRUE, !.trail = @ \cup {offs2},
                       !.top = IF c.nested THEN @ ELSE c.offs + 2]

decode_label(dgram, stale, size, offs) ==
    Repeat(LAMBDA c : LabelStep(dgram, stale, c), LAMBDA c : c.status # "more",
           LabelState,
           [offs |-> offs, top |-> offs, nested |-> FALSE, size |-> size,
            out |-> <<>>, trail |-> {}, status |-> "more"],
           MAXSIZE * MAXSIZE)

----------------------------------------------------------------------------
(***************************************************************************)
(* vpn::dnsv4_server, up to what it hands to receive_rep (the window and   *)
(* the answer it writes are the subject of DnsTunnel).                     *)
(***************************************************************************)
Reply(verdict, client, seqno, data) ==
    [NoReply EXCEPT !.verdict = verdict, !.client = client, !.seqno = seqno,
                    !.data = data, !.ancount = IF verdict = "SERVFAIL" THEN 0 ELSE 1]

Answer(reply, conns) == [rep |-> reply, dns |-> conns]

\* One answer: the name is a pointer to the name of the question, then
\* type, class, TTL, the length of the data, and the data.
AnswerRecord(rtype, ttl, rdata) ==
    <<192, 12, rtype \div 256, rtype % 256, RR_CLASS_IN \div 256, RR_CLASS_IN,
      0, 0, 0, ttl, Len(rdata) \div 256, Len(rdata) % 256>> \o rdata

\* A meta command: an A record with an address of the reserved network.
Command(verdict, ttl) ==
    AnswerRecord(RR_TYPE_A, ttl, CMD_IP \o <<Commands[verdict]>>)

\* The strings of a TXT record, of at most 255 bytes each behind its
\* length, as long as the budget dlen lasts and snddq has bytes.
RECURSIVE TxtFill(_, _)
TxtFill(dlen, stream) ==
    IF dlen <= 1 \/ stream = <<>> THEN [rdata |-> <<>>, rest |-> stream]
    ELSE LET txtlen == Min({IF dlen <= 255 THEN dlen - 1 ELSE 255, Len(stream)})
             more   == TxtFill(dlen - (txtlen + 1),
                               SubSeq(stream, txtlen + 1, Len(stream)))
         IN  [rdata |-> <<txtlen>> \o SubSeq(stream, 1, txtlen) \o more.rdata,
              rest  |-> more.rest]

\* The answer to a stream request of a connection with the record cfg: data
\* of snddq if the request is in sequence, and never no data at all.
StreamAnswer(record, offs, qlen, inseq, stream) ==
    LET Write(txt) ==
            [section |-> AnswerRecord(record[2], record[15],
                                      IF txt.rdata = <<>> THEN <<0>> ELSE txt.rdata),
             sent    |-> SubSeq(stream, 1, Len(stream) - Len(txt.rest))]
    IN  Write(IF inseq
              THEN TxtFill(record[7] * 256 + record[8] - (offs + 12) - qlen, stream)
              ELSE [rdata |-> <<>>, rest |-> stream])

Known(client) == 0 < client /\ client <= NumClients

\* A stream request: the header, then the data in the codec of the connection.
ServeStream(qname, stale, conns, offs, inseq, stream) ==
    LET Written(reply, answer) ==
            [reply EXCEPT !.wire = answer.section, !.sent = answer.sent]
        Deliver(hdr, body) ==
            IF ~Known(hdr.clientid) THEN Answer(Reply("FORMERR", 0, 0, <<>>), conns)
            ELSE IF conns[hdr.clientid] = <<>>
            THEN Answer([Reply("RST", hdr.clientid, hdr.seqno, <<>>)
                            EXCEPT !.wire = Command("RST", 0)], conns)
            ELSE Answer(Written(Reply("DATA", hdr.clientid, hdr.seqno,
                                      decode(set_cfg(conns[hdr.clientid]), body)),
                                StreamAnswer(conns[hdr.clientid], offs, Len(qname),
                                             inseq, stream)),
                        conns)
    IN  Deliver(decode_header(qname, stale),
                SubSeq(qname, HDRSIZE + 1, Len(qname) - (Len(DomainString) + 1)))

\* The record as it lies on the stack of the server: what decode wrote, and
\* behind it what was there before.
Received(label, stale) ==
    SubSeq(decode(cdc26, label) \o [i \in 1 .. CFG_SIZE |-> stale], 1, CFG_SIZE)

Client(record) == record[13] * 256 + record[14]

\* Fault: a record that is valid is taken as it is, the name not compared.
ServeSyn_Trusting(qname, stale, conns) ==
    LET Told(verdict, record) ==
            [Reply(verdict, Client(record), 0, <<>>)
                EXCEPT !.wire = Command(verdict, record[15])]
        Negotiate(label, record) ==
            IF Known(Client(record)) /\ valid(record)
            THEN Answer(Told("SYN", record),
                        [conns EXCEPT ![Client(record)] = record])
            ELSE Answer(Told("REJ", record), conns)
    IN  Negotiate(SubSeq(qname, 1, encode_len(cdc26, CFG_SIZE)),
                  Received(SubSeq(qname, 1, encode_len(cdc26, CFG_SIZE)), stale))

\* A negotiation: the record is decoded, checked, and encoded again to see
\* whether the path kept the case of the name.
ServeSyn(qname, stale, conns) ==
    LET Told(verdict, record) ==
            [Reply(verdict, Client(record), 0, <<>>)
                EXCEPT !.wire = Command(verdict, record[15])]
        Negotiate(label, record) ==
            IF Known(Client(record)) /\ valid(record)
            THEN Answer(Told(IF label = encode(cdc26, record) THEN "SYN" ELSE "CSE",
                             record),
                        [conns EXCEPT ![Client(record)] = record])
            ELSE Answer(Told("REJ", record), conns)
    IN  Negotiate(SubSeq(qname, 1, encode_len(cdc26, CFG_SIZE)),
                  Received(SubSeq(qname, 1, encode_len(cdc26, CFG_SIZE)), stale))

\* Two bytes of a datagram, the high one first.
Word(dgram, stale, at) == At(dgram, stale, at) * 256 + At(dgram, stale, at + 1)

\* The bytes of a datagram behind its header, up to offs.
Upto(dgram, stale, offs) == [i \in 1 .. offs - 12 |-> At(dgram, stale, 11 + i)]

\* The question is read behind the name; a name whose pointers lead back to
\* themselves takes the server down, and all its connections with it.  The
\* answer is written behind the question, over what was there.
dnsv4_server(p, stale, conns, inseq, stream) ==
    LET dlen == Len(DomainString)
        Dispatch(qname, qtype, qclass, offs) ==
            IF ~(/\ qclass = RR_CLASS_IN
                 /\ Len(qname) > dlen + 1
                 /\ SubSeq(qname, Len(qname) - dlen, Len(qname) - 1) = DomainString)
            THEN Answer(Reply("SERVFAIL", 0, 0, <<>>), conns)
            ELSE IF qtype \in {RR_TYPE_ANY, RR_TYPE_TXT, RR_TYPE_NULL}
                    /\ Len(qname) > dlen + 1 + HDRSIZE
            THEN ServeStream(qname, stale, conns, offs, inseq, stream)
            ELSE IF qtype = RR_TYPE_A
                    /\ Len(qname) > dlen + 1 + encode_len(cdc26, CFG_SIZE)
            THEN ServeSyn(qname, stale, conns)
            ELSE Answer(Reply("EMPTY", 0, 0, <<>>), conns)
        Behind(question, answer) ==
            [answer EXCEPT !.rep.wire = question \o @]
        Parse(dgram, label) ==
            IF p.kind # "query"
            THEN Answer([Reply("FORMERR", 0, 0, <<>>) EXCEPT !.wire = p.body], conns)
            ELSE IF label.status = "overflow"
            THEN Answer(Reply("crash", 0, 0, <<>>), [c \in DOMAIN conns |-> <<>>])
            ELSE Behind(Upto(dgram, stale, label.top + 4),
                        Dispatch(label.out, Word(dgram, stale, label.top),
                                 Word(dgram, stale, label.top + 2), label.top + 4))
    IN  Parse(Datagram(p.body, stale),
              decode_label(Datagram(p.body, stale), stale, MAXSIZE - 12, 12))

----------------------------------------------------------------------------
(***************************************************************************)
(* vpn::dnsv4_client, from the datagram to what it hands to receive_rep or *)
(* does to the connection.  seqno is the one of the request the response   *)
(* was matched with, me is THISNODE->id, rrtype the one of dns->cfg.       *)
(***************************************************************************)
TxtState == [offs : Nat, rdlen : Nat, data : Seq(Octet),
             status : {"more", "done", "assert"}]

\* Fault: the length byte of a string is not counted.
TxtStep_DataOnly(dgram, stale, t) ==
    LET txtlen == At(dgram, stale, t.offs)
    IN  IF t.rdlen = 0 THEN [t EXCEPT !.status = "done"]
        ELSE IF txtlen + t.offs + 1 >= MAXSIZE - 1 THEN [t EXCEPT !.status = "assert"]
        ELSE [t EXCEPT !.offs = @ + 1 + txtlen,
                       !.rdlen = (@ - txtlen) % 65536,
                       !.data = @ \o [j \in 1 .. txtlen |->
                                         At(dgram, stale, t.offs + j)]]

\* One string of a TXT record: rdlen is a u16, and the string has to end
\* before the buffer does.
TxtStep(dgram, stale, t) ==
    LET txtlen == At(dgram, stale, t.offs)
    IN  IF t.rdlen = 0 THEN [t EXCEPT !.status = "done"]
        ELSE IF txtlen + t.offs + 1 >= MAXSIZE - 1 THEN [t EXCEPT !.status = "assert"]
        ELSE [t EXCEPT !.offs = @ + 1 + txtlen,
                       !.rdlen = (@ - (txtlen + 1)) % 65536,
                       !.data = @ \o [j \in 1 .. txtlen |->
                                         At(dgram, stale, t.offs + j)]]

TxtWalk(dgram, stale, offs, rdlen) ==
    Repeat(LAMBDA t : TxtStep(dgram, stale, t), LAMBDA t : t.status # "more",
           TxtState,
           [offs |-> offs, rdlen |-> rdlen, data |-> <<>>, status |-> "more"],
           MAXSIZE)

Outcome(verdict, data) == [verdict |-> verdict, data |-> data]

\* An A record: a meta command, one the client does not know (which it
\* takes like REJ), or an address that is none.
MetaCommand(ip) ==
    IF SubSeq(ip, 1, 3) # CMD_IP THEN "spurious"
    ELSE IF \E v \in DOMAIN Commands : Commands[v] = ip[4]
    THEN CHOOSE v \in DOMAIN Commands : Commands[v] = ip[4]
    ELSE "REJ"

dnsv4_client(dgram, stale, ancount, seqno, me, rrtype) ==
    LET Mine(hdr, txt) ==
            IF txt.status = "assert" THEN Outcome("crash", <<>>)
            ELSE IF hdr.clientid = me /\ hdr.seqno = seqno
            THEN Outcome("DATA", txt.data)
            ELSE Outcome("dropped", <<>>)
        NoText(offs) == [offs |-> offs, rdlen |-> 0, data |-> <<>>, status |-> "done"]
        Text(qtype) == qtype \in {RR_TYPE_NULL, RR_TYPE_TXT, rrtype}
        Record(qname, qtype, rdlen, offs) ==
            IF ~Text(qtype) /\ qtype = RR_TYPE_A
            THEN Outcome(MetaCommand([j \in 1 .. 4 |-> At(dgram, stale, offs + j - 1)]),
                         <<>>)
            ELSE Mine(decode_header(qname \o Zeros(HDRSIZE), stale),
                      IF Text(qtype) /\ rdlen <= MAXSIZE - offs
                      THEN TxtWalk(dgram, stale, offs, rdlen) ELSE NoText(offs))
        Answers(name) ==
            IF name.status = "overflow" THEN Outcome("crash", <<>>)
            ELSE Record(name.out, Word(dgram, stale, name.top),
                        Word(dgram, stale, name.top + 8), name.top + 10)
        Questions(name) ==
            IF name.status = "overflow" THEN Outcome("crash", <<>>)
            ELSE IF ancount = 0 \/ name.top + 4 >= MAXSIZE - 10
            THEN Outcome("DATA", <<>>)
            ELSE Answers(decode_label(dgram, stale, MAXSIZE - (name.top + 4),
                                      name.top + 4))
    IN  Questions(decode_label(dgram, stale, MAXSIZE - 12, 12))

\* What the client makes of the response to its request.
Understood(stale) ==
    dnsv4_client(Datagram(rep.wire, stale), stale, rep.ancount,
                 snd.seqno, snd.node, cfg[snd.node][2])

----------------------------------------------------------------------------
Init ==
    /\ next_uid = [n \in Nodes |-> 0]
    /\ case_preserving = [n \in Nodes |-> dns_case_preserving]
    /\ established = [n \in Nodes |-> FALSE]
    /\ cfg = [n \in Nodes |-> <<>>]
    /\ snd = NoRequest
    /\ pkt = NoPacket
    /\ dns = [c \in 1 .. NumClients |-> <<>>]
    /\ rep = NoReply

Idle     == snd.kind = "none"
InFlight == snd.kind # "none" /\ rep.verdict = "none"

Send(request, body) ==
    /\ snd' = [request EXCEPT !.wire = body]
    /\ pkt' = [kind |-> "query", body |-> body]

\* time_cb, not established: a new record, under the next uid, and its request.
SendSyn(n) ==
    /\ Idle
    /\ ~established[n]
    /\ next_uid[n] < MaxUid
    /\ next_uid' = [next_uid EXCEPT ![n] = @ + 1]
    /\ \E record \in {reset(n, (next_uid[n] + 1) % 65536, case_preserving[n])} :
          /\ cfg' = [cfg EXCEPT ![n] = record]
          /\ Send([NoRequest EXCEPT !.kind = "syn", !.node = n], gen_syn_req(record))
    /\ UNCHANGED <<case_preserving, established, dns, rep>>

\* time_cb, established: the front of the send queue under a sequence number.
SendStream(n, seqno, stream) ==
    /\ Idle
    /\ established[n]
    /\ Send([NoRequest EXCEPT !.kind = "stream", !.node = n, !.seqno = seqno,
                              !.data = Taken(set_cfg(cfg[n]), stream)],
            gen_stream_req(set_cfg(cfg[n]), n, seqno, stream))
    /\ UNCHANGED <<next_uid, case_preserving, established, cfg, dns, rep>>

\* time_cb, a timeout: the request is sent again; a stream request (stdhdr)
\* gets its header rewritten, so that a forwarder takes it for a new one.
Retransmit ==
    /\ InFlight
    /\ snd.kind \in {"syn", "stream"}
    /\ snd.retry < MaxRetry
    /\ \E body \in {IF snd.kind = "stream"
                     THEN Reheader(snd.wire, snd.node, snd.seqno, snd.retry + 1)
                     ELSE snd.wire} :
          Send([snd EXCEPT !.retry = @ + 1], body)
    /\ UNCHANGED <<next_uid, case_preserving, established, cfg, dns, rep>>

\* A resolver on the path rewrites the letters of the question in one case.
Fold(lower) ==
    /\ InFlight
    /\ pkt' = [pkt EXCEPT !.body =
                  [i \in DOMAIN @ |-> IF (IF lower THEN is_uc(@[i]) ELSE is_lc(@[i]))
                                      THEN Alias(@[i]) ELSE @[i]]]
    /\ pkt' # pkt
    /\ UNCHANGED <<next_uid, case_preserving, established, cfg, snd, dns, rep>>

\* What a datagram is to the node that receives it: a query with one
\* question, a request of another opcode or number of questions, a
\* response, or no bytes at all.
Kinds == {"query", "other", "response", "empty"}

\* vpn::dnsv4_ev: a buffer is allocated and recvfrom fills it.  One without
\* bytes is left where it is, and nothing frees it; a response goes to
\* dnsv4_client, and all else to dnsv4_server, whose answer is sent back.
dnsv4_ev(kind) ==
    CASE kind = "empty"    -> "leaked"
      [] kind = "response" -> "dnsv4_client"
      [] OTHER             -> "dnsv4_server"

\* Anybody can send the server a datagram.
Forge(kind, body) ==
    /\ Idle
    /\ snd' = [NoRequest EXCEPT !.kind = "forged", !.wire = body]
    /\ pkt' = [kind |-> kind, body |-> body]
    /\ UNCHANGED <<next_uid, case_preserving, established, cfg, dns, rep>>

\* dnsv4_server.  A server that has crashed comes back without connections.
\* Whether the request is in sequence and what snddq holds is the business
\* of the connection.
ServerParse ==
    /\ InFlight
    /\ dnsv4_ev(pkt.kind) = "dnsv4_server"
    /\ \E stale \in StaleBytes, inseq \in BOOLEAN, stream \in Replies :
          \E answer \in {dnsv4_server(pkt, stale, dns, inseq, stream)} :
             /\ rep' = answer.rep
             /\ dns' = answer.dns
    /\ UNCHANGED <<next_uid, case_preserving, established, cfg, snd, pkt>>

\* dnsv4_ev at the server, for a datagram without bytes and for a response:
\* dnsv4_client finds no request it would answer, as a server has sent
\* none.  Nothing is sent back.
Unanswered ==
    /\ InFlight
    /\ dnsv4_ev(pkt.kind) # "dnsv4_server"
    /\ rep' = [NoReply EXCEPT !.verdict = "ignored"]
    /\ UNCHANGED <<next_uid, case_preserving, established, cfg, snd, pkt, dns>>

\* Somebody else answers the request, under its id and with its question:
\* the id is all dnsv4_client matches a response by.
Spoof(answer) ==
    /\ InFlight
    /\ snd.kind \in {"syn", "stream"}
    /\ rep' = [NoReply EXCEPT !.verdict = "spoofed", !.ancount = 1,
                              !.wire = snd.wire \o answer]
    /\ UNCHANGED <<next_uid, case_preserving, established, cfg, snd, pkt, dns>>

\* A resolver answers from its cache, with the response to another request
\* of the node: the name in it has the header of that request.
Misdirect(seqno) ==
    /\ snd.kind = "stream" /\ rep.verdict = "DATA" /\ ~rep.cached
    /\ seqno # snd.seqno
    /\ rep' = [rep EXCEPT !.cached = TRUE,
                          !.wire = Reheader(@, snd.node, seqno, 0)]
    /\ UNCHANGED <<next_uid, case_preserving, established, cfg, snd, pkt, dns>>

\* dnsv4_ev at the client, and dnsv4_client: the meta commands it reads from
\* the response (SYN establishes, CSE downgrades the client once and
\* establishes it then, RST resets, all else changes nothing), and the
\* assertion in the walk over the strings, which ends the process: the
\* client comes back as it was started.  The response to a forged question
\* goes to its sender, and a server that has stopped sends none.
ClientReceive ==
    /\ rep.verdict # "none"
    /\ \E stale \in StaleBytes :
       \E told \in {IF snd.kind \in {"syn", "stream"}
                       /\ rep.verdict \notin {"crash", "abort", "ignored"}
                    THEN Understood(stale).verdict ELSE "none"} :
       LET n         == snd.node
           downgrade == told = "CSE" /\ case_preserving[n]
           accepted  == told \in {"SYN", "CSE"} /\ ~downgrade
           reset_it  == told = "RST" \/ downgrade
       IN  IF told = "crash"
           THEN /\ next_uid' = [next_uid EXCEPT ![n] = 0]
                /\ case_preserving' = [case_preserving EXCEPT ![n] = dns_case_preserving]
                /\ established' = [established EXCEPT ![n] = FALSE]
                /\ cfg' = [cfg EXCEPT ![n] = <<>>]
                /\ rep' = [NoReply EXCEPT !.verdict = "abort"]
                /\ UNCHANGED <<snd, pkt>>
           ELSE /\ case_preserving' = IF downgrade
                                      THEN [case_preserving EXCEPT ![n] = FALSE]
                                      ELSE case_preserving
                /\ established' = IF accepted THEN [established EXCEPT ![n] = TRUE]
                                  ELSE IF reset_it THEN [established EXCEPT ![n] = FALSE]
                                  ELSE established
                /\ snd' = NoRequest
                /\ pkt' = NoPacket
                /\ rep' = NoReply
                /\ UNCHANGED <<next_uid, cfg>>
    /\ UNCHANGED dns

Next ==
    \/ \E n \in Nodes : SendSyn(n)
    \/ \E n \in Nodes, seqno \in Seqnos, stream \in Payloads : SendStream(n, seqno, stream)
    \/ Retransmit
    \/ \E lower \in BOOLEAN : Fold(lower)
    \/ \E kind \in Kinds \ {"empty"}, body \in Forged : Forge(kind, body)
    \/ Forge("empty", <<>>)
    \/ ServerParse
    \/ Unanswered
    \/ \E answer \in Spoofed : Spoof(answer)
    \/ \E seqno \in Seqnos : Misdirect(seqno)
    \/ ClientReceive

Spec == Init /\ [][Next]_vars

----------------------------------------------------------------------------
\* The type invariant: the shape of every variable; the sequence number the
\* server reads from a header (decode_header) is one of the 14-bit space.
TypeOK ==
    /\ next_uid \in [Nodes -> 0 .. MaxUid]
    /\ case_preserving \in [Nodes -> BOOLEAN]
    /\ established \in [Nodes -> BOOLEAN]
    /\ \A n \in Nodes : cfg[n] \in Seq(Octet) /\ Len(cfg[n]) \in {0, CFG_SIZE}
    /\ snd.kind \in {"none", "syn", "stream", "forged"}
    /\ snd.node \in Nodes \cup {0}
    /\ snd.retry \in 0 .. MaxRetry
    /\ snd.data \in Seq(Octet) /\ snd.wire \in Seq(Octet)
    /\ pkt.kind \in Kinds \cup {"none"} /\ pkt.body \in Seq(Octet)
    /\ \A c \in 1 .. NumClients : dns[c] \in Seq(Octet) /\ Len(dns[c]) \in {0, CFG_SIZE}
    /\ rep.verdict \in Verdicts \cup Fates
    /\ rep.seqno \in 0 .. SEQNO_MASK
    /\ rep.data \in Seq(Octet)
    /\ rep.ancount \in {0, 1} /\ rep.cached \in BOOLEAN
    /\ rep.wire \in Seq(Octet) /\ rep.sent \in Seq(Octet)

\* The part of the question that holds the tunnel domain arrived as sent.
KeepsDomain ==
    \A i \in Len(snd.wire) - Len(append_domain) - 4 .. Len(snd.wire) :
        pkt.body[i] = snd.wire[i]

\* A stream request of a client is read by the server as a stream request of
\* that client under that sequence number, whatever the retry count written
\* into its header by time_cb and whatever the case the path left its
\* letters in (encode_header, Labels, decode_label, decode_header); the only
\* other outcome is SERVFAIL, when the letters of the domain were changed.
StreamIdentified ==
    snd.kind = "stream" /\ rep.verdict \in Verdicts \ {"none"} =>
        IF KeepsDomain
        THEN /\ rep.verdict \in {"DATA", "RST"}
             /\ rep.client = snd.node
             /\ rep.seqno = snd.seqno
        ELSE rep.verdict = "SERVFAIL"

\* The server decodes the data of a stream request with the codec the client
\* encoded it with (dns_cfg::req_cdc on both sides), and gets the bytes the
\* client took from its queue, leading zero bytes included, if the path
\* kept the case or the codec is the one of 36 symbols (basecoder::encode,
\* the labels of gen_stream_req, decode_label, basecoder::decode).
DataExact ==
    snd.kind = "stream" /\ rep.verdict = "DATA" =>
        /\ dns[rep.client][19] = cfg[snd.node][19]
        /\ pkt.body = snd.wire \/ dns[rep.client][19] = 36 => rep.data = snd.data

\* A negotiation that reaches the server with its domain intact is answered
\* SYN exactly if the name arrived as sent and CSE exactly if its case was
\* changed, and the server then holds the record of the client; a node the
\* server does not know is rejected (gen_syn_req, charmap aliases,
\* dns_cfg::valid, the comparison in dnsv4_server).
SynVerdict ==
    snd.kind = "syn" /\ rep.verdict \in Verdicts \ {"none"} =>
        IF ~KeepsDomain THEN rep.verdict = "SERVFAIL"
        ELSE IF ~Known(snd.node) THEN rep.verdict = "REJ"
        ELSE /\ rep.verdict = IF pkt.body = snd.wire THEN "SYN" ELSE "CSE"
             /\ dns[snd.node] = cfg[snd.node]

\* The name of a request stays within MAX_DOMAIN_SIZE, but for the one
\* symbol by which decode_len, rounding up, lets the data exceed the budget
\* of gen_stream_req, whatever the codec, the length of the queue and the
\* number of labels the data is cut into.
NameBudget ==
    snd.kind \in {"syn", "stream"} => Len(snd.wire) - 4 <= MAX_DOMAIN_SIZE + 1

\* The client reads from a response what the server wrote into it: the
\* bytes the server took from its queue, all of them and in their order,
\* whether they went into one string or several and whatever lay in the
\* client's buffer behind the datagram; the meta command the server chose;
\* and nothing from a response to another request that a resolver served
\* from its cache (the answer section of dnsv4_server, the walk over the
\* strings and the check of the header in dnsv4_client).
ReplyUnderstood ==
    snd.kind \in {"syn", "stream"} /\ rep.verdict \in {"DATA"} \cup DOMAIN Commands =>
        \A stale \in StaleBytes :
            Understood(stale) =
                IF rep.cached THEN Outcome("dropped", <<>>)
                ELSE IF rep.verdict = "DATA" THEN Outcome("DATA", rep.sent)
                ELSE Outcome(rep.verdict, <<>>)

\* No datagram stops the process that receives it: malformed input is
\* answered or ignored, at the server (decode_label follows compression
\* pointers by recursion) and at the client (the walk of dnsv4_client over
\* the strings of a record counts rdlen down in 16 bits and asserts that a
\* string ends within the buffer).
Survives == rep.verdict \notin {"crash", "abort"}

=============================================================================
