----------------------------- MODULE MCDnsName -----------------------------
(***************************************************************************)
(* DnsName for TLC: one node the server knows and one it does not, the     *)
(* domain "v.x", and names a quarter of their real length.                 *)
(***************************************************************************)
EXTENDS DnsName

\* "v.x"
MCDomain == <<<<118>>, <<120>>>>

MCNodes == {1, 2}

\* The ends of the sequence space and a number astride a byte boundary.
MCSeqnos == {0, 300, 16383}

\* An empty queue, leading zero bytes, and queues longer than a request.
MCPayloads ==
    {<<>>, <<0>>, <<0, 0, 7>>,
     [i \in 1 .. 60 |-> 0], [i \in 1 .. 60 |-> 255], [i \in 1 .. 60 |-> (i * 37) % 256]}

\* The root, a label that runs off the datagram, a pointer to itself, a label
\* and a pointer back to it, a pointer into the header, a pointer beyond the
\* datagram, and stream and negotiation requests too short to be one.
MCForged ==
    {<<0, 0, 255, 0, 1>>,
     <<63, 100>>,
     <<192, 12>>,
     <<1, 100, 192, 12>>,
     <<192, 4, 0, 255, 0, 1>>,
     <<192, 200>>,
     <<2, 100, 46, 1, 118, 1, 120, 0, 0, 255, 0, 1>>,
     <<6, 100, 100, 100, 100, 100, 100, 1, 118, 1, 120, 0, 0, 16, 0, 1>>,
     <<3, 100, 100, 100, 1, 118, 1, 120, 0, 0, 1, 0, 1>>}

\* The name that is a pointer to itself.
MCLoop == {<<192, 12>>}

\* A record of one string, and one whose string says it is longer than the
\* record.
MCSpoofed ==
    {AnswerRecord(RR_TYPE_TXT, 0, <<2, 7, 7>>),
     <<192, 12, 0, RR_TYPE_TXT, 0, RR_CLASS_IN, 0, 0, 0, 0, 0, 2, 5, 7>>}

MCStaleBytes == {0, 192}

\* Nothing to send, less than one string, and more than a response holds.
MCReplies == {<<>>, <<0, 9>>, [i \in 1 .. 400 |-> (i * 7) % 256]}

=============================================================================
