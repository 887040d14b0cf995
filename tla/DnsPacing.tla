------------------------------ MODULE DnsPacing ------------------------------
(***************************************************************************)
(* When the DNS client of src/vpn_dns.C sends: the timers, the deadlines   *)
(* and the adaptive intervals of dns_connection::time_cb and               *)
(* vpn::dnsv4_client, for several connections that share the list          *)
(* vpn::dns_sndpq of outstanding requests and the generator next_id of     *)
(* request ids.                                                            *)
(*                                                                         *)
(* DnsTunnel says WHAT the tunnel carries and lets a timeout pass whenever *)
(* it likes.  This module says WHEN: time is counted in milliseconds, and  *)
(* every time the code keeps is kept relative to ev_now (): idle is        *)
(* ev_now () - last_sent, ttl is timeout - ev_now (), age is               *)
(* ev_now () - sent, and tw [d] is what is left until the timer of d       *)
(* fires.  What a request carries is left to DnsTunnel: a packet counts as *)
(* one request's worth of snddq, and an answer is known by its kind.       *)
(***************************************************************************)
EXTENDS Integers, Sequences, FiniteSets, FiniteSetsExt, SequencesExt

CONSTANTS
    Conns,                \* the connections that use the DNS transport
    dns_timeout_factor,   \* conf.dns_timeout_factor, <<numerator, denominator>>
    dns_overlap_factor,   \* conf.dns_overlap_factor, <<numerator, denominator>>
    dns_send_interval,    \* conf.dns_send_interval
    dns_max_outstanding,  \* conf.dns_max_outstanding
    SEQNO_MOD,            \* SEQNO_MASK + 1
    MAX_WINDOW,
    MAX_BACKLOG,          \* the packets snddq holds
    Clock,                \* the values time (0) may have when next_id reads it
    Rtts,                 \* how long an answer may take
    MaxLost,              \* bound: transmissions that get no answer
    MaxRequests,          \* bound: requests created
    MaxPackets            \* bound: packets handed to send_dnsv4_packet

VARIABLES
    conn,              \* the dns_connection of every connection
    sndpq,             \* vpn::dns_sndpq
    tw,                \* dns_connection::tw, for the timers that are running
    spun,              \* the timers that were last started with a delay <= 0
    dns_id,            \* the static dns_id of next_id
    case_preserving,   \* conf.dns_case_preserving
    net,               \* the answers on their way
    created, lost, packets    \* what was used of the three bounds

vars == <<conn, sndpq, tw, spun, dns_id, case_preserving, net,
          created, lost, packets>>

-----------------------------------------------------------------------------
(* Times, in milliseconds *)

MIN_POLL_INTERVAL   == 25
MAX_POLL_INTERVAL   == 1000
INITIAL_TIMEOUT     == 100
INITIAL_SYN_TIMEOUT == 2000
MAX_SEND_INTERVAL   == 5000

START_INTERVAL  == 500                     \* reset (): "starting here"
ACTIVE_POLL     == 250                     \* send_dnsv4_packet
REJ_COOLDOWN    == 60 * 1000               \* dnsv4_client, after CMD_IP_REJ

\* conf.h: what the configuration has when the file says nothing.
DEFAULT_DNS_TIMEOUT_FACTOR == <<8, 1>>
DEFAULT_DNS_OVERLAP_FACTOR == <<1, 2>>
DEFAULT_DNS_SEND_INTERVAL  == 10

\* time_cb: tstamp next = 86400 * 365, a year.  It only has to lie beyond
\* every other delay, and TLC counts to 2^31: the model has it 1000 times
\* shorter.
FOREVER == 86400 * 365

\* last_sent = 0 lies further back than any interval reaches.
LongAgo == MAX_SEND_INTERVAL + 1

\* No deadline is followed further back than this.
LateCap == dns_max_outstanding * MAX_SEND_INTERVAL + 1

\* x times the rational f, as the double is cut to whole milliseconds.
Scaled(x, f) == (x * f[1]) \div f[2]

Seqno == 0 .. SEQNO_MOD - 1
Ahead(a, b) == (a - b) % SEQNO_MOD
SEQNO_EQ(a, b) == Ahead(a, b) = 0

-----------------------------------------------------------------------------
(* Request ids *)

Bit(x, k) == (x \div 2^k) % 2

Shift_Wide(s) ==
    (2 * s) + ((Bit(s, 1) + Bit(s, 2) + Bit(s, 4) + Bit(s, 15)) % 2)

\* One step of the shift register: 16 bits, fed with the parity of four of
\* them.
Shift(s) ==
    ((2 * s) % 65536) + ((Bit(s, 1) + Bit(s, 2) + Bit(s, 4) + Bit(s, 15)) % 2)

next_id_Unseeded(id, clock) == Shift(id)

\* next_id (): the register is seeded from the clock, cut to 16 bits, when
\* it is 0.
next_id(id, clock) == Shift(IF id = 0 THEN clock % 65536 ELSE id)

-----------------------------------------------------------------------------
(* Connections and requests *)

Connection ==
    [established : BOOLEAN, idle : 0 .. LongAgo,
     min_latency : 1 .. INITIAL_TIMEOUT,
     poll_interval : MIN_POLL_INTERVAL .. MAX_POLL_INTERVAL,
     send_interval : 1 .. MAX_SEND_INTERVAL,
     rcvpq : SUBSET Seqno, rcvseq : Seqno, sndseq : Seqno,
     snddq : 0 .. MAX_BACKLOG]

\* dns_snd.  uid tells the requests apart for the properties.
SndRequest ==
    [id : 0 .. 65535, uid : 1 .. MaxRequests, dns : Conns, seqno : Seqno,
     stdhdr : BOOLEAN, retry : Nat, ttl : -LateCap .. FOREVER,
     age : 0 .. INITIAL_TIMEOUT]

Answer ==
    [id : 0 .. 65535, uid : 1 .. MaxRequests, seqno : Seqno,
     kind : {"DATA", "EMPTY", "RST", "SYN", "CSE", "REJ"}, eta : Nat]

Unqueue_OffByOne(pq, d, i) ==
    IF pq = <<>> THEN pq
    ELSE Append(SelectSeq(Front(pq), LAMBDA r : r.dns # d), Last(pq))

\* The loop of reset () over dns_sndpq, from its end to its beginning: the
\* last request takes the place of a request of d, and the list gets
\* shorter.
RECURSIVE Unqueue(_, _, _)
Unqueue(pq, d, i) ==
    IF i = 0 THEN pq
    ELSE Unqueue(IF pq[i].dns = d THEN Front([pq EXCEPT ![i] = Last(pq)])
                 ELSE pq, d, i - 1)

\* dns_connection::reset (), but for the requests it takes from dns_sndpq.
\* It leaves snddq and the timer as they are.
reset(c) ==
    [c EXCEPT !.established = FALSE, !.rcvpq = {},
              !.rcvseq = 0, !.sndseq = 0, !.idle = LongAgo,
              !.poll_interval = START_INTERVAL,
              !.send_interval = START_INTERVAL,
              !.min_latency = INITIAL_TIMEOUT]

\* dns_connection::dns_connection ()
NewConnection ==
    reset([established |-> FALSE, idle |-> 0, min_latency |-> 1,
           poll_interval |-> MIN_POLL_INTERVAL, send_interval |-> 1,
           rcvpq |-> {}, rcvseq |-> 0, sndseq |-> 0, snddq |-> 0])

\* The loop "redo" of receive_rep: while the answer rcvseq waits in rcvpq,
\* the one MAX_WINDOW behind it leaves and rcvseq moves on.
RECURSIVE Redo(_)
Redo(c) ==
    IF c.rcvseq \notin c.rcvpq THEN c
    ELSE Redo([c EXCEPT !.rcvpq = @ \ {Ahead(c.rcvseq, MAX_WINDOW)},
                        !.rcvseq = (@ + 1) % SEQNO_MOD])

\* dns_connection::receive_rep: an answer with data makes the client poll
\* more often, one without less often.
receive_rep(c, seqno, data) ==
    Redo([c EXCEPT
            !.poll_interval =
                IF data THEN Max({Scaled(@, <<5, 6>>), MIN_POLL_INTERVAL})
                ELSE Min({Scaled(@, <<11, 10>>), MAX_POLL_INTERVAL}),
            !.rcvpq = @ \cup {seqno}])

\* dnsv4_client, for the request r an answer was matched with: the answer
\* to a request that was sent again slows the connection down, another one
\* gives its latency.
Paced(c, r) ==
    IF r.retry > 0
    THEN [c EXCEPT !.send_interval =
                       Min({Scaled(@, <<101, 100>>), MAX_SEND_INTERVAL})]
    ELSE LET latency == Min({r.age, c.min_latency})
         IN  [c EXCEPT !.min_latency = latency,
                       !.send_interval =
                           Max({Min({@, Scaled(latency, dns_overlap_factor)}),
                                dns_send_interval})]

-----------------------------------------------------------------------------
(* The timer *)

\* w.start (next): a delay that is not positive makes the timer fire in
\* the next round of the event loop.
Arm(d, next) ==
    /\ tw' = [e \in DOMAIN tw \cup {d} |->
                 IF e = d THEN Max({next, 0}) ELSE tw[e]]
    /\ spun' = IF next <= 0 THEN spun \cup {d} ELSE spun \ {d}

\* The requests whose timeout has passed, and what is left of the others'.
Late(pq) == {i \in DOMAIN pq : pq[i].ttl <= 0}
Pending(pq) == {pq[i].ttl : i \in DOMAIN pq \ Late(pq)}

Wake_DeadlinesOnly(c, deadlines) == Min(deadlines \cup {FOREVER})

\* The delay time_cb starts the timer with: the earliest of the deadlines
\* it met and of last_sent + max (poll_interval, send_interval).
Wake(c, deadlines) ==
    Min(deadlines \cup {FOREVER,
                        Max({c.poll_interval, c.send_interval}) - c.idle})

\* sendto: the request gets no answer, or one of those the server has for
\* it, after one of the round trip times.
Transmit(r) ==
    \/ /\ lost < MaxLost
       /\ lost' = lost + 1
       /\ net' = net
    \/ /\ lost' = lost
       /\ \E eta \in Rtts,
             kind \in IF r.stdhdr THEN {"DATA", "EMPTY", "RST"}
                      ELSE {"SYN", "CSE", "REJ"} :
             net' = net \cup {[id |-> r.id, uid |-> r.uid, seqno |-> r.seqno,
                               kind |-> kind, eta |-> eta]}

\* time_cb: the first request whose timeout has passed is sent again.
Retransmit(d, cs) ==
    /\ Late(sndpq) # {}
    /\ LET i == Min(Late(sndpq))
           r == [sndpq[i] EXCEPT
                    !.retry = @ + 1,
                    !.ttl = Scaled((sndpq[i].retry + 1) * cs[d].min_latency,
                                   dns_timeout_factor)]
       IN  /\ sndpq' = [sndpq EXCEPT ![i] = r]
           /\ conn' = [cs EXCEPT ![d].idle = 0]
           /\ Transmit(r)
           /\ Arm(d, Wake(conn'[d], Pending(sndpq)))
    /\ UNCHANGED <<dns_id, created>>

\* A request of connection d, made by dns_snd::dns_snd.
NewRequest(d, id, seqno, stdhdr, ttl) ==
    [id |-> id, uid |-> created + 1, dns |-> d, seqno |-> seqno,
     stdhdr |-> stdhdr, retry |-> 0, ttl |-> ttl, age |-> 0]

MaySyn_AnyQueue(c) == ~c.established /\ created < MaxRequests

\* time_cb: the queue is empty and the connection not established.
MaySyn(c) == ~c.established /\ sndpq = <<>> /\ created < MaxRequests

SendSyn(d, cs) ==
    /\ Late(sndpq) = {} /\ MaySyn(cs[d])
    /\ \E clock \in IF dns_id = 0 THEN Clock ELSE {0} :
          LET r == NewRequest(d, next_id(dns_id, clock), 0, FALSE,
                              INITIAL_SYN_TIMEOUT)
          IN  /\ dns_id' = r.id
              /\ sndpq' = Append(sndpq, r)
              /\ Transmit(r)
    /\ created' = created + 1
    /\ conn' = [cs EXCEPT ![d].idle = 0]
    /\ Arm(d, Wake(conn'[d], {}))

\* The send window of time_cb.
WindowOpen(c) == ~SEQNO_EQ(c.rcvseq, c.sndseq - (MAX_WINDOW - 1))

\* time_cb: there is room for one more stream request of this connection.
Ready(c) ==
    c.established /\ Len(sndpq) < dns_max_outstanding /\ WindowOpen(c)

MayStream(c) ==
    Ready(c) /\ c.idle >= c.send_interval /\ created < MaxRequests

SendStream(d, cs) ==
    /\ Late(sndpq) = {} /\ MayStream(cs[d])
    /\ \E clock \in IF dns_id = 0 THEN Clock ELSE {0} :
          LET r == NewRequest(d, next_id(dns_id, clock), cs[d].sndseq, TRUE,
                              Scaled(cs[d].min_latency, dns_timeout_factor))
          IN  /\ dns_id' = r.id
              /\ sndpq' = Append(sndpq, r)
              /\ Transmit(r)
    /\ created' = created + 1
    /\ conn' = [cs EXCEPT ![d].idle = 0,
                          ![d].sndseq = (@ + 1) % SEQNO_MOD,
                          ![d].snddq = Max({@ - 1, 0})]
    /\ Arm(d, Wake(conn'[d],
                   Pending(sndpq) \cup IF cs[d].snddq > 0
                                       THEN {cs[d].send_interval} ELSE {}))

\* What time_cb, sending nothing, starts the timer with.
Rest(c) ==
    Wake(c, Pending(sndpq) \cup IF Ready(c) /\ c.idle < c.send_interval
                                THEN {c.send_interval - c.idle} ELSE {})

\* time_cb: nothing is sent.
Wait(d, cs) ==
    /\ Late(sndpq) = {} /\ ~MaySyn(cs[d]) /\ ~MayStream(cs[d])
    /\ conn' = cs
    /\ net' = net
    /\ Arm(d, Rest(cs[d]))
    /\ UNCHANGED <<sndpq, dns_id, created, lost>>

\* dns_connection::time_cb of a client, for connection d of cs.
time_cb(d, cs) ==
    Retransmit(d, cs) \/ SendSyn(d, cs) \/ SendStream(d, cs) \/ Wait(d, cs)

\* time_cb would send nothing and start the timer with no delay again.
Settled(d) ==
    /\ Late(sndpq) = {} /\ ~MaySyn(conn[d]) /\ ~MayStream(conn[d])
    /\ Rest(conn[d]) <= 0

-----------------------------------------------------------------------------
(* Actions *)

Init ==
    /\ conn = [d \in Conns |-> NewConnection]
    /\ sndpq = <<>>
    /\ tw = <<>>
    /\ spun = {}
    /\ dns_id = 0
    /\ case_preserving \in BOOLEAN
    /\ net = {}
    /\ created = 0 /\ lost = 0 /\ packets = 0

\* vpn::send_dnsv4_packet: a packet that snddq takes makes the client poll
\* at least every 250 ms and runs time_cb at once.
ClientSend(d) ==
    /\ packets < MaxPackets
    /\ packets' = packets + 1
    /\ IF conn[d].snddq < MAX_BACKLOG
       THEN time_cb(d, [conn EXCEPT
                           ![d].snddq = @ + 1,
                           ![d].poll_interval = Min({@, ACTIVE_POLL})])
       ELSE UNCHANGED <<conn, sndpq, tw, spun, dns_id, net, created, lost>>
    /\ UNCHANGED case_preserving

\* The timer of connection d fires.
ClientTimer(d) ==
    /\ d \in DOMAIN tw /\ tw[d] = 0
    /\ time_cb(d, conn)
    /\ UNCHANGED <<case_preserving, packets>>

\* vpn::dnsv4_client: the answer is matched, by its id alone, with the first
\* request in dns_sndpq that has this id.
Outstanding(a) == SelectInSeq(sndpq, LAMBDA r : r.id = a.id)

\* No request has the id of the answer.
Unsolicited(a) ==
    /\ Outstanding(a) = 0
    /\ UNCHANGED <<conn, sndpq, tw, spun, case_preserving>>

\* CMD_IP_RST, or CMD_IP_CSE while the names are still taken to keep their
\* case: the connection starts again.
Restarted(a, d, c, pq) ==
    /\ a.kind = "RST" \/ (a.kind = "CSE" /\ case_preserving)
    /\ conn' = [conn EXCEPT ![d] = reset(c)]
    /\ sndpq' = Unqueue(pq, d, Len(pq))
    /\ case_preserving' = (case_preserving /\ a.kind = "RST")
    /\ UNCHANGED <<tw, spun>>

\* CMD_IP_SYN, or CMD_IP_CSE after the downgrade.
Accepted(a, d, c, pq) ==
    /\ a.kind = "SYN" \/ (a.kind = "CSE" /\ ~case_preserving)
    /\ conn' = [conn EXCEPT ![d] = [c EXCEPT !.established = TRUE]]
    /\ sndpq' = pq
    /\ UNCHANGED <<tw, spun, case_preserving>>

\* CMD_IP_REJ: the timer is put off for a minute.
Rejected(a, d, c, pq) ==
    /\ a.kind = "REJ"
    /\ conn' = [conn EXCEPT ![d] = c]
    /\ sndpq' = pq
    /\ Arm(d, REJ_COOLDOWN)
    /\ UNCHANGED case_preserving

\* An answer to a stream request: its data is taken when it echoes the
\* sequence number of the request it was matched with.
Answered(a, d, c, pq, seqno) ==
    /\ a.kind \in {"DATA", "EMPTY"}
    /\ conn' = [conn EXCEPT ![d] = IF a.seqno = seqno
                                   THEN receive_rep(c, seqno, a.kind = "DATA")
                                   ELSE c]
    /\ sndpq' = pq
    /\ UNCHANGED <<tw, spun, case_preserving>>

Solicited(a) ==
    /\ Outstanding(a) # 0
    /\ LET i  == Outstanding(a)
           r  == sndpq[i]
           c  == Paced(conn[r.dns], r)
           pq == RemoveAt(sndpq, i)
       IN  \/ Restarted(a, r.dns, c, pq)
           \/ Accepted(a, r.dns, c, pq)
           \/ Rejected(a, r.dns, c, pq)
           \/ Answered(a, r.dns, c, pq, r.seqno)

ClientReceive(a) ==
    /\ a.eta = 0
    /\ net' = net \ {a}
    /\ Unsolicited(a) \/ Solicited(a)
    /\ UNCHANGED <<dns_id, created, lost, packets>>

\* The times at which something may happen next: a timer fires, an answer
\* arrives and, while a timer fires round after round, a timeout passes or
\* a send interval ends.
Instants ==
    LET hot == {d \in DOMAIN tw : tw[d] = 0}
    IN  {t \in {tw[d] : d \in DOMAIN tw} \cup {a.eta : a \in net}
               \cup (IF hot = {} THEN {}
                     ELSE {sndpq[i].ttl : i \in DOMAIN sndpq}
                          \cup {conn[d].send_interval - conn[d].idle : d \in hot})
          : t > 0}

\* ev_now () moves on to the next of these times, once the answers that
\* arrived are read and no timer that fires has anything to do.
Tick ==
    /\ \A a \in net : a.eta > 0
    /\ \A d \in DOMAIN tw : tw[d] = 0 => d \in spun /\ Settled(d)
    /\ Instants # {}
    /\ LET dt == Min(Instants)
       IN  /\ conn' = [d \in Conns |->
                         [conn[d] EXCEPT !.idle = Min({@ + dt, LongAgo})]]
           /\ sndpq' = [i \in DOMAIN sndpq |->
                          [sndpq[i] EXCEPT
                              !.ttl = Max({@ - dt, -LateCap}),
                              !.age = Min({@ + dt, INITIAL_TIMEOUT})]]
           /\ tw' = [d \in DOMAIN tw |-> Max({tw[d] - dt, 0})]
           /\ net' = {[a EXCEPT !.eta = @ - dt] : a \in net}
    /\ UNCHANGED <<spun, dns_id, case_preserving, created, lost, packets>>

Next ==
    \/ \E d \in Conns : ClientSend(d) \/ ClientTimer(d)
    \/ \E a \in net : ClientReceive(a)
    \/ Tick

Spec == Init /\ [][Next]_vars

-----------------------------------------------------------------------------
(* Properties *)

TypeOK ==
    /\ conn \in [Conns -> Connection]
    /\ sndpq \in Seq(SndRequest)
    /\ DOMAIN tw \subseteq Conns /\ \A d \in DOMAIN tw : tw[d] \in Nat
    /\ spun \subseteq DOMAIN tw
    /\ dns_id \in 0 .. 65535
    /\ case_preserving \in BOOLEAN
    /\ net \subseteq Answer
    /\ created \in 0 .. MaxRequests
    /\ lost \in 0 .. MaxLost
    /\ packets \in 0 .. MaxPackets

\* An answer is matched with the request it answers: dnsv4_client looks at
\* the id alone, so no two requests in dns_sndpq have the same id, and no
\* answer on its way has the id of a request other than its own.  next_id
\* has to see to that for as long as answers may be late.
UniqueIds ==
    /\ \A i, j \in DOMAIN sndpq : sndpq[i].id = sndpq[j].id => i = j
    /\ \A a \in net : \A i \in DOMAIN sndpq :
          a.id = sndpq[i].id => a.uid = sndpq[i].uid

\* No request is forgotten: whatever the timers of time_cb were started
\* with, and whichever connection's timer comes first, a request whose
\* timeout has passed is sent again before one send interval for every
\* request that may be outstanding has gone by.
OverdueBounded == \A i \in DOMAIN sndpq : sndpq[i].ttl > -LateCap

\* The server is polled: the timer of an established connection that has
\* room for a request fires now, or no later than MAX_SEND_INTERVAL after
\* the connection sent last, although dnsv4_client starts no timer when an
\* answer makes the room and puts the timer off for a minute on a REJ.
Polled ==
    \A d \in Conns :
        Ready(conn[d]) =>
            /\ d \in DOMAIN tw
            /\ tw[d] = 0 \/ conn[d].idle + tw[d] <= MAX_SEND_INTERVAL

\* dns_sndpq and the connections agree: a stream request belongs to an
\* established connection and asks for a sequence number between its
\* rcvseq and its sndseq, a SYN request to a connection that is not
\* established.  reset () has to take every request of its connection out
\* of the list it shares with the others.
QueueMatchesSessions ==
    \A i \in DOMAIN sndpq :
        LET r == sndpq[i]
            c == conn[r.dns]
        IN  IF r.stdhdr
            THEN c.established
                 /\ Ahead(r.seqno, c.rcvseq) < Ahead(c.sndseq, c.rcvseq)
            ELSE ~c.established

\* "The next wake-up delay is the minimum of all pending deadlines and the
\* current pacing interval": time_cb starts its timer with a delay that is
\* positive, so that the event loop sleeps between two runs of it.
TimerAhead == spun = {}
=============================================================================
