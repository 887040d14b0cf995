----------------------------- MODULE ByteStream -----------------------------
(***************************************************************************)
(* byte_stream of src/vpn_dns.C: the FIFO of bytes that carries whole      *)
(* packets, each behind a two-byte big-endian length, through the tunnel.  *)
(* A stream is the sequence data[0 .. fill-1]; its capacity is passed to   *)
(* the operations that read it.  The operations are pure: each gives the   *)
(* stream after the call together with what the call returns.              *)
(***************************************************************************)
EXTENDS Naturals, Sequences

CONSTANT MAXSIZE    \* the longest packet get () accepts

Byte == 0 .. 255

U8(n) == n % 256

\* remove (count): the stream without its first count bytes.
remove(s, count) == SubSeq(s, count + 1, Len(s))

\* put (data, datalen): all of data or nothing.
put(s, maxsize, data) ==
    IF maxsize - Len(s) < Len(data)
    THEN [ok |-> FALSE, s |-> s]
    ELSE [ok |-> TRUE, s |-> s \o data]

\* What put (pkt) writes: the length, high byte first, then the packet.
Frame(pkt) == <<U8(Len(pkt) \div 256), U8(Len(pkt))>> \o pkt

\* Fault: put (pkt) without the test for room.
put_pkt_NoRoomTest(s, maxsize, pkt) == [ok |-> TRUE, s |-> s \o Frame(pkt)]

\* put (pkt): the whole frame or nothing.
put_pkt(s, maxsize, pkt) ==
    IF maxsize - Len(s) < Len(pkt) + 2
    THEN [ok |-> FALSE, s |-> s]
    ELSE [ok |-> TRUE, s |-> s \o Frame(pkt)]

\* The length the first two bytes announce.
Announced(s) == s[1] * 256 + s[2]

\* The loop at the head of get (): while the first two bytes announce more
\* than MAXSIZE, one byte is skipped.
Skip[s \in Seq(Byte)] ==
    IF Len(s) < 2 \/ Announced(s) <= MAXSIZE THEN s ELSE Skip[remove(s, 1)]

\* get (): the next whole packet, if the stream holds one.  The bytes get ()
\* skipped stay skipped when it returns no packet.
get(s) ==
    LET t == Skip[s] IN
    IF Len(t) < 2 \/ Len(t) < Announced(t) + 2
    THEN [ok |-> FALSE, pkt |-> <<>>, s |-> t]
    ELSE [ok |-> TRUE,
          pkt |-> SubSeq(t, 3, Announced(t) + 2),
          s |-> remove(t, Announced(t) + 2)]
=============================================================================
