----------------------------- MODULE PacketLink -----------------------------
(***************************************************************************)
(* What the DNS tunnel of src/vpn_dns.C promises the dispatcher above it,  *)
(* for one direction: the packets vpn::send_dnsv4_packet accepted at one   *)
(* end are handed to vpn::recv_vpn_packet at the other end unchanged, in   *)
(* the order in which they were accepted and each at most once.  Nothing   *)
(* is said about how: requests, sequence numbers, the reorder set and the  *)
(* cache of replies belong to DnsTunnel, which implements this module.     *)
(*                                                                         *)
(* The stream of a direction is the bytes byte_stream::put (pkt) wrote for *)
(* the packets accepted.  The receiving end has a beginning of it: the     *)
(* packets it delivered and, behind them, the bytes of a packet that is    *)
(* not whole yet.                                                          *)
(***************************************************************************)
EXTENDS Naturals, Sequences, SequencesExt, ByteStream

VARIABLES
    accepted,     \* the packets the sending end took into its snddq
    delivered,    \* the packets the receiving end handed to the dispatcher
    buffered      \* the receiving end's rcvdq

vars == <<accepted, delivered, buffered>>

\* The bytes a sequence of packets is in a byte stream.
Stream(pkts) == FlattenSeq([i \in DOMAIN pkts |-> Frame(pkts[i])])

\* What the receiving end has of the stream.
Arrived == Stream(delivered) \o buffered

Init == accepted = <<>> /\ delivered = <<>> /\ buffered = <<>>

\* The sending end accepts one more packet.
Accept ==
    /\ accepted' # <<>> /\ Front(accepted') = accepted
    /\ UNCHANGED <<delivered, buffered>>

\* More of the stream arrives: the bytes that follow those that arrived
\* before.  Every packet that is whole is delivered in the same step; what
\* was delivered stays delivered.
Arrive ==
    /\ UNCHANGED accepted
    /\ <<delivered, buffered>>' # <<delivered, buffered>>
    /\ IsPrefix(Arrived, Arrived')
    /\ IsPrefix(Arrived', Stream(accepted))
    /\ IsPrefix(delivered, delivered')
    /\ ~get(buffered').ok

\* A session begins before anything of the stream has arrived: the packets
\* accepted for the session it replaces are given up.
Renew ==
    /\ delivered = <<>> /\ buffered = <<>>
    /\ accepted' = <<>>
    /\ UNCHANGED <<delivered, buffered>>

Next == Accept \/ Arrive

\* The link of a session that is never replaced.
Spec == Init /\ [][Next]_vars

\* The link of an end whose session may begin again while nothing has
\* arrived.
SessionSpec == Init /\ [][Next \/ Renew]_vars
=============================================================================
