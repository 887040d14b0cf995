# TLA+ models of GVPE 2.25

GVPE builds a virtual ethernet between nodes over several transports.  The
sources kept here are the DNS transport (`src/src/vpn_dns.C`), which moves VPN
packets inside DNS queries and responses, the tun/tap back ends through which
a daemon exchanges packets with the kernel of its host
(`src/src/tincd/*/device.c`), and what runs on a host beside them: the PID
file (`src/lib/pidfile.c`), the `gvpectrl` tool that generates the keys
(`src/src/gvpectrl.C`), and replacements for library functions
(`src/lib/dropin.c`).  The DNS transport is the part with a protocol of its
own and has most of the models; the others are modelled where processes,
descriptors or byte offsets can go wrong in ways a test hardly reaches.

## 1. The system

| part | code (`src/src/vpn_dns.C`) | state | operations |
|---|---|---|---|
| Base-N packer | `charmap`, `basecoder`, `cdc62/36/26` (115-300) | tables | `encode`, `decode`, `encode_len`, `decode_len` |
| stream header | `encode_header`, `decode_header` (306-331) | none | client id, sequence number and retry count in `HDRSIZE` symbols |
| byte queue | `byte_stream` (335-429) | `data`, `fill`, `maxsize` | `put (data)`, `put (pkt)`, `get`, `remove` |
| negotiation record | `dns_cfg` (452-543) | the record | `reset`, `get_chksum`, `valid` |
| DNS message | `dns_packet` (545-615), `append_domain`, `gen_stream_req`, `gen_syn_req` (685-781) | a datagram | `decode_label`, building queries, `next_id` |
| connection | `dns_connection`, `dns_snd`, `dns_rcv` (620-908) | `established`, `cdc`, `rcvpq`, `rcvdq`, `rcvseq`, `repseq`, `snddq`, `sndseq`, pacing fields; `vpn::dns_sndpq` | constructor, `reset`, `set_cfg`, `receive_rep` |
| server handler | `vpn::dnsv4_server` (910-1105) | the connection of the client named in the query | RST, cached reply, new fragment and reply, SYN/CSE/REJ |
| client handler | `vpn::dnsv4_client` (1107-1279) | `dns_sndpq`, the connection | match by id, meta commands, stream data |
| dispatch and send | `vpn::dnsv4_ev`, `vpn::send_dnsv4_packet` (1281-1327) | sockets | choose the handler; enqueue a VPN packet |
| client timer | `dns_connection::time_cb` (1329-1421) | `dns_sndpq`, `sndseq`, timeouts | retransmit, SYN, stream request |
| pacing | `#define`s (64-70), fields of `dns_connection` and `dns_snd`, `src/src/conf.h` (60-63) | `last_sent`, `poll_interval`, `send_interval`, `min_latency`, `timeout`, `sent`, the timer `tw` | adapted in `receive_rep`, `dnsv4_client`, `send_dnsv4_packet`, `reset`; read in `time_cb` |
| request ids | `next_id` (593-615) | the static `dns_id` | a 16-bit shift register, seeded from `time (0)` |

Beside the transport:

| part | code | state | operations |
|---|---|---|---|
| device back ends | `src/src/tincd/{linux,solaris,openbsd,raw_socket,uml_socket}/device.c` | `device_fd` and the other descriptors, `device_type`, of the UML socket `state` and `running` | `setup_device`, `close_device`, `read_packet`, `write_packet` |
| PID file | `src/lib/pidfile.c` | the file and its lock | `read_pid`, `check_pid`, `write_pid`, `remove_pid` |
| `gvpectrl` | `src/src/gvpectrl.C` | the flags; the files `pubkey/<node>` and `hostkeys/<node>` | `parse_options`, `main`, `keygen` |
| drop-ins | `src/lib/dropin.c` | blocks of memory; session, directory and descriptors of a process | `asprintf`, `get_current_dir_name`, `daemon` |
| declarations | `src/src/conf.h`, `src/src/netcompat.h` | - | - |

How the parts work together.  The layer above hands a VPN packet to
`send_dnsv4_packet`, which frames it (two length bytes) into the connection's
`snddq`.  Only the client can speak: its timer takes bytes from `snddq`, packs
them into the name of a TXT query under the next sequence number `sndseq`, and
keeps the request in `dns_sndpq` until a response with its id arrives.  The
server decodes the query, passes the chunk to `receive_rep`, and answers with
bytes of its own `snddq` if the query is in sequence; it keeps every fragment
with the reply it sent, so that a repeated query gets the same reply.  The
client passes the reply data, under the sequence number of its request, to its
own `receive_rep`.  `receive_rep` collects fragments in `rcvpq`, appends the
one numbered `rcvseq` to the byte stream `rcvdq`, and hands every whole frame
to `recv_vpn_packet`.  A connection starts with an A query carrying the
negotiation record; the server answers SYN, CSE (the name arrived with its
case changed: use the codec of 36 symbols), or REJ, and answers RST to stream
queries of a client it has no connection for.

What makes it hard: DNS resolvers between the two ends lose, delay, repeat and
reorder queries and responses, and may answer themselves; sequence numbers
have 14 bits and wrap; the client retransmits on timeouts that race with late
answers; the server can restart; negotiation can run twice (downgrade after
CSE) while copies of the first attempt are still on their way.

What each part has to guarantee:

* packer and header: what `decode` reads from the symbols `encode` wrote is
  the bytes that went in, leading zero bytes included, also when the symbols
  were cut into labels and, for the codec of 36 symbols, came back in another
  case; the header gives back client and sequence number whatever the retry
  count.
* negotiation: the server tells a path that keeps the case from one that does
  not, and a record changed on the way from a valid one.
* message parsing: no datagram, from anybody, stops the server.
* byte queue: a frame enters whole or not at all; `get` returns the frames
  that were put, in order.
* connection and handlers: each direction delivers the packets accepted by
  `send_dnsv4_packet`, in order, each once, none invented; both ends use the
  same codec, one that the path carries; the sequence numbers of the two ends
  stay within one window.
* timer: negotiation ends; every accepted packet is delivered in the end;
  after a restart of the server the connection is set up again.
* pacing and ids: a request whose timeout has passed is sent again, an
  established connection keeps asking the server, the timer lets the event
  loop sleep in between, and an answer meets the request it answers although
  all connections of the process share one list of requests and one id
  generator.

* device back ends: whatever the two ends are built with, a packet one
  kernel sends is the packet the other kernel is handed; the event loop
  waits on a descriptor that is open, through the handshake of the UML
  socket too.
* PID file: one daemon runs per file, whatever earlier daemons have left
  behind.
* `gvpectrl`: the key of a node is never replaced, and the two files of a
  node hold the halves of one pair.
* drop-ins: what the function they replace returns.

## 2. Modules

**`ByteStream.tla`** - `byte_stream` as pure operators on sequences of bytes:
`remove`, `put`, `put_pkt` (with `Frame`), `get` (with the skipping loop
`Skip`).  Each returns the stream after the call and what the call returns.
`MAXSIZE` is a constant.

**`BaseCoder.tla`** - `charmap`, `basecoder`, the three codecs and the header
codec, as constants and operators; no state.  Characters are their ASCII
codes and the alphabets are those of the code.  A number is a sequence of
digits, most significant first; `Rebase` (for `mpn_set_str` followed by
`mpn_get_str`) changes its base by repeated short division, so that the 24
bytes of a negotiation record are converted at their real width although TLC
has 32-bit integers.  `basecoder` fills `enc_len` and `dec_len` as the loop of
the constructor does; `encode` and `decode` pad and cut as the code does
(`Fit`).  `Repeat` iterates a step by halving the count, which keeps the
nesting of TLC's evaluation logarithmic; operators take the result of a
conversion as an argument instead of naming it in a `LET`, so that it is
computed once.  `MAX_DEC_LEN` is a constant.

**`DnsName.tla`** - a request and its response, byte by byte: the question
from the client that writes it to what the server makes of it, and the answer
from whoever writes it - the server, a resolver's cache or a third party - to
what the client makes of it.

| variable | code |
|---|---|
| `next_uid`, `case_preserving`, `established`, `cfg` | per client process: `dns_cfg::next_uid`, `conf.dns_case_preserving`, `dns_connection::established` and `cfg` (the 24 bytes of the record) |
| `snd` | the request outstanding (`dns_snd`: `seqno`, `retry`, the bytes taken from the stream, the question as sent) |
| `pkt` | the datagram where the path has it: its bytes behind the header, and what `dnsv4_ev` can tell of it (`kind`: a query, another opcode, a response, or nothing received) |
| `dns` | server: the record of the connection of each known node |
| `rep` | what `dnsv4_server` made of the datagram: the branch it took, the client, sequence number and data it read, and the response: `ancount`, the bytes behind the header (`wire`), and the bytes it took from `snddq` for it (`sent`); `cached` marks a response a resolver took from its cache; the verdicts `spoofed`, `ignored`, `crash` and `abort` are a response somebody else wrote, a datagram no handler answered, a server and a client that have stopped |

| action | code |
|---|---|
| `SendSyn`, `SendStream`, `Retransmit` | `time_cb` with `dns_cfg::reset`, `set_cfg`, `gen_syn_req`, `gen_stream_req`, and `encode_header` over the first label on a retransmission |
| `ServerParse` (`dnsv4_server`, `decode_label`, `ServeStream`, `ServeSyn`, `StreamAnswer`, `TxtFill`, `AnswerRecord`, `Command`) | `vpn::dnsv4_server`: the question it reads and the answer record it writes behind it |
| `ClientReceive` (`dnsv4_client`, `TxtWalk`, `MetaCommand`) | `vpn::dnsv4_client` behind the match by id: the walk over question, answer name, type, `rdlen` and strings, the check of the header in the name, and the meta commands |
| `Unanswered` (`dnsv4_ev`) | `vpn::dnsv4_ev` for what does not go to `dnsv4_server`: a `recvfrom` without bytes, whose buffer is left allocated, and a response, which `dnsv4_client` of the server matches with nothing |
| `Fold`, `Forge`, `Misdirect`, `Spoof` | the environment: a resolver rewrites the letters of the name in one case; anybody sends the server a datagram of any kind; a resolver answers from its cache with the response to another request of the node; a third party answers an outstanding request under its id with a record of its own |

One request is outstanding at a time: this module is about what one datagram
carries, and `DnsTunnel` about many of them in flight.  It justifies two
abstractions of `DnsTunnel`: that the server reads the bytes the client wrote
when the codecs agree and the path keeps the case the codec needs (`Decode`),
and that a negotiation is answered CSE exactly on a path that changes the
case (`ServerSyn`).  `decode_label` is a sequence of steps (`LabelStep`), one
per label or pointer; a pointer is a call of `decode_label` by itself, and a
pointer met again with nothing copied in between is a recursion that never
returns.  Bytes the code reads without having written them (behind the end of
the datagram, `hdr` in `decode_header`, `cfg` in `dnsv4_server`) take any
value of `StaleBytes`.

Whether a stream request is in sequence, and what `snddq` holds when it
arrives, is the state of the connection, which `DnsTunnel` has: `ServerParse`
takes both from small sets (`inseq`, `Replies`).  An answer to a
retransmission is such an answer too; in the code it is the cached one with
the header written again.  The client's walk over the strings (`TxtStep`)
keeps `rdlen` in 16 bits and has the assertion of line 1188 as the outcome
`crash`: `ClientReceive` then leaves the verdict `abort`, and the process is
started again with `next_uid` 0, the configured `dns_case_preserving` and no
session, while its request is still on the way.

**`DnsTunnel.tla`** - one client, one server and the resolver path between
them.

| variable | code |
|---|---|
| `cli`, `srv` | the `dns_connection` of the client and the one the server keeps for it (`NULL`: none): `established`, `cdc`, `rcvpq`, `rcvdq`, `rcvseq`, `repseq`, `snddq`, `sndseq` |
| `sndpq` | `vpn::dns_sndpq` of the client |
| `timerOn` | the client's timer `tw` is started |
| `casePreserving` | `conf.dns_case_preserving` of the client |
| `queries`, `answers` | datagrams on their way; a set, so that any of them may arrive next, and a query may be delivered and stay |
| `pathFolds` | whether the resolvers change the case of names |
| `faults` | count of server restarts and of resolver failures |
| `cNext`, `sNext`, `sentC`, `sentS`, `rcvdC`, `rcvdS` | the workload: which packet each dispatcher sends next, the packets `send_dnsv4_packet` accepted, the packets handed to `recv_vpn_packet` |

| action | code |
|---|---|
| `ClientSend`, `ServerSend` | `vpn::send_dnsv4_packet`, including the call of the timer on the client |
| `ClientTimer` = `Retransmit` / `SendSyn` / `SendStream` / `Wait` | `dns_connection::time_cb` |
| `ClientReceive` (`Obey`) | `vpn::dnsv4_client` |
| `ServerReceive` = `ServerSyn` / `ServerNoConnection` / `ServerDuplicate` / `ServerFragment` | `vpn::dnsv4_server` |
| `receive_rep` (`Redo`, `Evict`, `Drain`) | `dns_connection::receive_rep` |
| `Lose`, `ResolverFails`, `ServerRestart` | the environment |

Data is abstracted as follows.  A packet is a short sequence of bytes; frames
and chunks are real, because the properties are about the byte streams.  A
codec is modelled by what it does to a chunk: the server reads the bytes the
client wrote when both use the same codec and the path keeps the case that
codec needs, and garbage otherwise; `ReqCapacity` gives the bytes a request
carries per codec, `RepBudget` stands for `cfg.max_size`, `TXT_MAX` for the
255 bytes of a TXT string.  The DNS wire format, the negotiation record's
fields other than the codec and its validity, and all pacing arithmetic are
left out here (`DnsName` and `DnsPacing` have them).  The retry count in the header is left out: `decode_header` drops
it.  Recursive definitions over connections and streams are written as
recursive functions, so that TLC evaluates their argument once.

**`PacketLink.tla`** - what one direction of the tunnel promises, and nothing
of how: `accepted` (the packets the sender's `send_dnsv4_packet` took),
`delivered` (the packets handed to `recv_vpn_packet`) and `buffered` (bytes
that arrived and are not yet a whole frame).  `Accept` appends a packet;
`Arrive` moves the receiver on along the byte stream of the accepted frames:
what was delivered stays delivered, what is delivered and buffered afterwards
is a prefix of that stream, and no whole frame is left in the buffer; `Renew`
(in `SessionSpec` only) starts the receiver's side again.  `DnsTunnel`
instantiates it twice:

| instance | `accepted` | `delivered` | `buffered` | specification |
|---|---|---|---|---|
| `C2S` | `sentC` | `rcvdS` | `srv.rcvdq`, empty while the server has no connection | `C2S!Spec` |
| `S2C` | `sentS` | `rcvdC` | `cli.rcvdq` | `S2C!SessionSpec` |

Every step of `DnsTunnel` is a step of each link or leaves its three
variables alone; that is the refinement the core run checks (`C2S_Link`,
`S2C_Link`).

**`DnsPacing.tla`** - when the client sends.  Several connections share
`dns_sndpq`, `next_id` and the clock.  Time is counted in whole milliseconds
and every time the code keeps is kept relative to `ev_now ()`, so that the
states of a run are finitely many:

| variable | code |
|---|---|
| `conn [d]` | `dns_connection`: `established`, `idle` = `ev_now () - last_sent` (capped at `LongAgo`, which is also `last_sent = 0`), `min_latency`, `poll_interval`, `send_interval`, `rcvpq` (the sequence numbers in it), `rcvseq`, `sndseq`, `snddq` (the number of requests it fills) |
| `sndpq` | `vpn::dns_sndpq`; of a `dns_snd`: `id`, `dns`, `seqno`, `stdhdr`, `retry`, `ttl` = `timeout - ev_now ()`, `age` = `ev_now () - sent` |
| `tw [d]` | what is left until the timer of `d` fires; `d` is in its domain once the timer was started |
| `spun` | the timers that were last started with a delay of 0 or less |
| `dns_id` | the static `dns_id` of `next_id` |
| `case_preserving` | `conf.dns_case_preserving` |
| `net` | answers on their way, each with the time it still takes (`eta`) |
| `created`, `lost`, `packets` | what was used of the bounds |

| action | code |
|---|---|
| `ClientSend (d)` | `vpn::send_dnsv4_packet`: `snddq.put`, `min_it (poll_interval, 0.25)`, and `time_cb` called directly |
| `ClientTimer (d)` | the timer of `d` fires: `time_cb` |
| `time_cb` = `Retransmit` / `SendSyn` / `SendStream` / `Wait` | the loop over `dns_sndpq` (`Late`, `Pending`), the new request with its id and timeout, `last_sent`, `sendto` (`Transmit`), the final `min_it` (`Wake`) and `w.start (next)` (`Arm`) |
| `ClientReceive (a)` = `Unsolicited` / `Solicited` (`Paced`, then `Restarted` / `Accepted` / `Rejected` / `Answered`) | `vpn::dnsv4_client`: the match by id, the adaptation of `send_interval` and `min_latency`, the removal of the request, the meta commands with `reset` (`Unqueue`) and `tw.start (60.)`, `receive_rep` with `poll_interval` |
| `Tick` | the event loop: `ev_now ()` moves on to the next instant at which a timer fires or an answer arrives |

`Tick` is enabled only when every answer that has arrived is read and no
timer that is due has anything to do.  A timer that was started with no delay
(`spun`) and whose `time_cb` would send nothing and start it with no delay
again (`Settled`) does not hold time up: the loop spins, and time passes to the
next instant at which `time_cb` finds something changed (a timeout, the end of
a send interval, an answer).  The doubles of the code are whole numbers of
milliseconds; a product is cut after every multiplication (`Scaled`).  What
a request carries is left to `DnsTunnel` and `DnsName`.

**`TunTap.tla`** - `read_packet` and `write_packet` of the back ends as
operators on sequences of bytes.  A packet of the daemon is an Ethernet frame;
the back ends of layer 3 read the IP packet behind the 14 bytes of a header
they only partly write (`ReadAt`: an offset, the room told to `read`, and what
the bytes before the offset hold, which is whatever the buffer held:
`StaleBytes`).  `linux_read_packet` has the three device types (tun: the
packet information of the kernel comes to lie on bytes 10 to 13; ethertap: two
bytes before the frame), `solaris_read_packet` chooses the ethertype by the
version of the IP packet, `openbsd_read_packet` by the address family read
into `type`; the `write_packet`s do the reverse.  `MTU` is a constant.

**`Device.tla`** - two daemons, each with a device of one of the back ends,
between two kernels.

| variable | code |
|---|---|
| `conf` | per host: the back end the daemon was built with, `routing_mode`, and whether the kernel has `/dev/net/tun` |
| `dev` | per host: `device_fd`, the descriptors that are open, `device_type`, `overwrite_mac`, and of the UML socket `state` and `running` |
| `path` | the socket of the UML back end exists in the file system |
| `guest` | the UML guest: whether it has connected, and the request it has written |
| `up`, `down` | what the kernel or guest has for the daemon; what the daemon has written to it |
| `tunnel` | the frames the other daemon has sent this one |
| `emitted` | history: the packets a kernel has sent |

| action | code |
|---|---|
| `setup_device (h)` = `linux_` / `solaris_` / `openbsd_` / `raw_` / `uml_setup_device` | `setup_device` of each back end; the parameter `steps` is the number of system calls that succeed, and every prefix ends in the state the code leaves (descriptors closed or left open, `running`) |
| `close_device (h)`, `Exit (h)` | `close_device`; the end of a daemon whose `setup_device` returned false |
| `read_packet (h)` = `device_read_packet` / `uml_read_packet` (`uml_accept`, `uml_request`, `uml_read`) | `read_packet`: one `read` and the operator of `TunTap`; for the UML socket the three states, with `device_fd` moved from the listener to the connection to the data socket |
| `write_packet (h)` | `write_packet`, with a write that can fail; the UML socket stops the daemon when the guest is gone |
| `KernelEmit`, `GuestConnect`, `GuestEmpty`, `GuestQuit` | the environment: a kernel sends a packet; a guest connects with a whole request, half of one or one of another protocol, sends an empty datagram, or ends |

What is between the two daemons (the transports, the routing) is one queue per
direction: `read_packet` of one appends the frame to `tunnel` of the other.

**`PidFile.tla`** - the daemons of a host and their PID file.  The file is a
name (`path`) and the inode it leads to, with the number at its beginning
(`content`) and its lock (`lock`), so that a process that has the file open
keeps it when another removes the name.  `role` is the process table: a number
is free, a daemon, or another process, and a free number is given to whoever
is started next.  `read_pid` and `check_pid` are operators; `write_pid` is the
four steps between which another process can run (`Open` or `OpenFails`,
`Lock`, `Write`, `Unlock`), each with the return of 0 the code has there.
`Check` is the start of a daemon (it leaves when `check_pid` finds another),
`remove_pid` its end, `Dies` a process that is killed: what it has open is
closed and unlocked, and the file stays.  The ghost `overlapped` records that
a daemon was between `check_pid` and the return of `write_pid` while another
started or ended.

**`Gvpectrl.tla`** - `parse_options` as a fold of `Option` over the results of
`getopt_long`, `main` as the order in which it tests the flags, and `keygen`
as the steps of an invocation (`tool`: where it is and at which node):
`OpenPub` (open for appending, and skip the node if `ftell` is not 0),
`WritePub`, `WritePriv` with the step to the next node, and `Aborts` (`exit`
at any failure, or the user).  A key file is the sequence of the keys appended
to it; a key is named after the invocation and the node.  The ghost `raced`
records that two invocations have found the same node without a key.

**`Dropin.tla`** - `asprintf` and `get_current_dir_name` as operators on
blocks of memory: a block is the sequence of its bytes, `malloc`, `realloc`,
`vsnprintf` (`Stored`) and `getcwd` (`Fits`) are modelled by what they do to
it.  A call is a step that leaves its argument and result in `ret`.  `daemon`
is the steps of the caller and its child (`det`): `Fork`, `ParentExits`,
`Setsid`, and `Redirect` (`chdir`, `open` of `/dev/null`, which returns the
lowest free descriptor, and the three `dup2`).

**`Host.tla`** - `PidFile`, `Gvpectrl` and `Dropin` on one host.  They share no
state (`kill_other`, through which `gvpectrl` would read the PID file, and the
daemon that calls `daemon` and `write_pid` are not among the sources), so each
part moves while the others are in their first state: every behaviour of each
part is there, and TLC is spared their product.

**`MCDnsTunnel.tla`**, **`MCDnsName.tla`**, **`MCDnsPacing.tla`**,
**`MCDevice.tla`**, **`MCHost.tla`** - values of the constants that are not
plain numbers, and the symmetry of the connections of `DnsPacing`.

## 3. Properties

| property | kind | what it says |
|---|---|---|
| `TypeOK` | invariant | types, and no byte stream beyond its capacity |
| `C2S_Link`, `S2C_Link` | refinement | `DnsTunnel` implements `PacketLink` in each direction: packets are delivered whole, in the order they were accepted, each once, none invented, and nothing delivered is taken back; towards the client a session may start again (`Renew`) |
| `Authentic` | invariant | every delivered packet is one the peer sent |
| `CodecAgreement` | invariant | an established client has a server connection with the same codec, and on a folding path it is the codec of 36 symbols |
| `SessionCodec` | invariant | the same agreement whenever both exist, also after restarts |
| `ReorderSetInWindow` | invariant | `rcvpq` holds one fragment per sequence number, all within the window around `rcvseq` |
| `SequenceOrder` | invariant | client `rcvseq` <= server `rcvseq` <= client `sndseq`, cyclically, within `MAX_WINDOW - 1` |
| `Establishes` | liveness | once the timer runs, the client becomes established |
| `C2S_Delivered`, `S2C_Delivered` | liveness | every accepted packet is delivered |
| `Resynchronises` | liveness | after restarts and resolver failures the client is again established with a server that has a connection |

Of `DnsName`:

| property | kind | what it says |
|---|---|---|
| `TypeOK` | invariant | types; the sequence number the server reads is one of the 14-bit space |
| `StreamIdentified` | invariant | a stream request is read as one of its client under its sequence number, for every retry count and every case of the letters; SERVFAIL if the letters of the domain were changed |
| `DataExact` | invariant | the server decodes with the codec the client encoded with, and reads the bytes the client took from its queue if the path kept the case or the codec is cdc36 |
| `SynVerdict` | invariant | a negotiation is answered SYN exactly if the name arrived as sent, CSE exactly if its case was changed, and the server then holds the client's record; REJ for an unknown node |
| `NameBudget` | invariant | a name is at most one byte longer than `MAX_DOMAIN_SIZE`, whatever the codec and the number of labels |
| `ReplyUnderstood` | invariant | the client reads from a response the bytes the server took from `snddq`, all and in order, in one string or several and whatever its buffer holds behind the datagram; the meta command the server chose; and nothing from a response to another request |
| `Survives` | invariant | no datagram stops the process that receives it, server or client |

Of `DnsPacing`:

| property | kind | what it says |
|---|---|---|
| `TypeOK` | invariant | types; an id has 16 bits |
| `UniqueIds` | invariant | no two requests in `dns_sndpq` have the same id, and no answer on its way has the id of a request other than its own |
| `OverdueBounded` | invariant | no request stays late for longer than `dns_max_outstanding` times `MAX_SEND_INTERVAL`, whichever connection's timer has to send it again |
| `Polled` | invariant | the timer of an established connection with room for a request fires now or within `MAX_SEND_INTERVAL` of its last send |
| `QueueMatchesSessions` | invariant | a stream request belongs to an established connection and asks for a sequence number between its `rcvseq` and `sndseq`; a SYN request belongs to a connection that is not established |
| `TimerAhead` | invariant | `time_cb` starts its timer with a positive delay |

Of `Device`:

| property | kind | what it says |
|---|---|---|
| `TypeOK` | invariant | types; a frame handed to the transport has at most `MTU` bytes |
| `DescriptorOpen` | invariant | the descriptor the event loop of a running daemon waits on is one the daemon has open |
| `Interoperable` | invariant | what a kernel is handed is a packet the other kernel sent, whole and of the family it was sent as, for every pair of back ends and up to a packet that fills the MTU |
| `Served` | liveness | a guest that has written its whole request is answered, and what a kernel or guest has sent is read, unless the daemon stops |

Of `Host`:

| property | kind | what it says |
|---|---|---|
| `TypeOK` | invariant | types; a process has the file open exactly while it is inside `write_pid`, and a lock is held by a process that has the file open |
| `Exclusive` | invariant | at most one daemon runs, unless a start has overlapped with another start or with an end |
| `PrivateFollows` | invariant | a private key on the disk has its public key on the disk; a public key is without its private key only while its invocation is about to write that, or was ended there |
| `Paired` | invariant | the two files of a node begin with the halves of one pair, unless two invocations have found the node without a key at the same time |
| `KeysStable` | action property | what a key file begins with, it begins with for good |
| `WorkingDirectory` | invariant | a directory that can be read comes back whole and terminated, in a block of the first size doubled as often as needed and no more |
| `Detached` | invariant | a process `daemon` has returned 0 to leads its own session, is in the root unless `nochdir`, and has `/dev/null` under the three standard descriptors unless `noclose`, whichever of them were closed at the call |

## 4. Runs

| run | configuration | faults | result |
|---|---|---|---|
| core | `DnsTunnelCore.cfg` | loss, duplication, reordering | 4 invariants and the 2 refinements hold; 346,244 states |
| progress | `DnsTunnelProgress.cfg` | the same, with fairness | 3 liveness properties hold; 27,010 states |
| recovery | `DnsTunnelRecovery.cfg` | one restart, one resolver failure | `SessionCodec`, `Resynchronises` hold; 21,239 states |
| resolver | `DnsTunnelResolver.cfg` | one resolver failure | `SequenceOrder` violated |
| latesyn | `DnsTunnelLateSyn.cfg` | a copy of SYN arrives late | `Authentic` violated |
| restart | `DnsTunnelRestart.cfg` | one restart | `Authentic` violated |
| codec | `DnsNameCodec.cfg` | case folding, retransmission, forged datagrams of every kind, responses from a cache and from a third party | 6 invariants hold; 48,264 states |
| pointerloop | `DnsNameLoop.cfg` | a question whose name points at itself, a response with a string longer than its record | `Survives` violated |
| pacing | `DnsPacing.cfg` | two connections; answers after 30 or 700 ms, one transmission lost; RST, CSE and REJ | 5 invariants hold; 1,179,509 states |
| spin | `DnsPacingSpin.cfg` | one connection, one transmission lost | `TimerAhead` violated |
| device | `Device.cfg` | system calls of `setup_device` that fail, writes that fail, a guest that writes half a request, an empty datagram, or ends | 3 invariants and `Served` hold; 90,343 states |
| host | `Host.cfg` | processes killed at any step, process numbers used again, locks refused, invocations of `gvpectrl` stopped at any step, `vsnprintf` and `getcwd` that fail | 6 invariants and `KeysStable` hold; 58,116 states |

Each property of a passing run comes with a fault injected into a definition
of the model (`..._Never`, `..._Always`, `..._Silent`, ...: a dropped guard, a
missing reset, a forgotten retransmission) under which TLC finds the property
violated.

### What the violations show

* **resolver** - `dnsv4_client` (1153-1275) treats a response without answer
  records as an empty fragment of the stream.  One SERVFAIL from a resolver
  moves the client's `rcvseq` past a request the server never saw; the chunk
  that request carried is lost and the stream to the server stalls.
* **latesyn** - `dnsv4_server` (1082-1098) replaces the connection on every
  valid SYN.  A copy delivered after the session started resets the server
  alone; the client then joins bytes of two sessions into a packet that was
  never sent.
* **restart** - `reset ()` (824-848) clears `rcvpq`, the requests and the
  sequence numbers, and keeps `rcvdq` and `snddq`.  After RST the rest of an
  old frame is completed by bytes of the new session.
* **pointerloop** - `decode_label` (580-584) follows a compression pointer by
  calling itself and keeps no count.  The name `c0 0c` points at itself; the
  recursion ends with the stack, and with the server.  Any host that can send
  a datagram to the port can do this, and a label that runs off the
  datagram (`3f 64`) does the same when the bytes behind it, which nobody
  has written, hold `c0`.  The client has its own way to the same
  end: `dnsv4_client` (1183-1194) counts `rdlen`, a `u16`, down by `txtlen +
  1` for every string.  In a record of `rdlen` 2 whose string says 5 the
  count passes 0 and is 65532; the walk goes on through what the buffer
  holds behind the datagram until `assert (txtlen + offs < MAXSIZE - 1)`
  fails.  The response needs the id of an outstanding request and nothing
  else (`SendSyn`, `Spoof`, `ClientReceive`).  TLC reports the trace of the
  server, which is one step shorter, and this one when `Forged` is empty;
  the codec run, which does not check `Survives`, reaches the client that
  has stopped and starts it again.
* **spin** - `time_cb` ends with `min_it (next, last_sent + max
  (poll_interval, send_interval) - ev_now ())` (1413) and starts the timer
  with the result (1420).  The term is a point in time, not an interval: once
  it has passed and `time_cb` can send nothing, the delay is 0 or negative and
  the event loop calls `time_cb` again in its next round.  The shortest run:
  `send_dnsv4_packet` sends SYN and the timer is started with 500 ms; it fires,
  the SYN is outstanding and 1500 ms short of its timeout, nothing may be sent,
  and the timer is started with 0.  The same happens while
  `dns_max_outstanding` requests are outstanding or the window is closed.  The
  loop spins until an answer or a timeout lets the connection send.  The pacing
  run shows the other side of it: because of this term no request is
  forgotten (`OverdueBounded` fails without it, a request made by
  `gen_syn_req` being in none of the deadlines `time_cb` looked at).

### What the passing runs show besides

One property of the host run holds with a condition the code does not
meet:

* **`Exclusive`** holds for daemons whose starts do not overlap, and not
  without that condition.  `write_pid` takes the lock without waiting and
  gives it back before it returns (`pidfile.c` 106, 127), so the lock keeps
  two writes apart and no two daemons: one that has passed `check_pid` before
  another has written the file finds the lock free afterwards, writes its own
  number over the other, and runs beside it.  With the condition left out TLC
  finds two running daemons in 13 steps.

Two of the drop-ins do not return what the functions they replace return,
and no run states that they should (section 8).  The definitions say what
they do return, and the host run reaches it in `ret`:

* `asprintf` cuts its block to `status` bytes (`dropin.c` 147), the length of
  the text without its NUL, and prints a text that did not fit again into as
  many.  A text of fewer than 4096 bytes is whole in a block that nothing
  ends; a longer one has lost its last byte.  `gvpectrl` builds the names of
  the key files with it (`gvpectrl.C` 256-320) and the solaris back end the
  name of its interface (`solaris/device.c` 97), where the library has no
  `asprintf`; both read the block as a string.  `asprintf` there and
  `fprintf` in `write_pid` are tested with `!`, which is true for a result
  of 0 and false for the negative number a failure returns: neither test sees
  a failure.
* `get_current_dir_name` returns its block whatever `getcwd` has said last
  (`dropin.c` 128): an unwritten one when the directory cannot be read, where
  the function it replaces returns NULL.  `WorkingDirectory` is about the
  directory that can be read.

The host run also shows that `-k WINCH` ends in `usage (1)`: the message at
`gvpectrl.C` 170 names WINCH among the signals, and `parse_options` does not
know it.  `daemon` leaves `/dev/null` open under the number `open` returned
when that is above 2.

The device run reaches two states worth knowing.  A guest of the UML socket
whose request arrives in two pieces or is of another version, and an empty
datagram on the data socket, set `running` to false: the daemon ends for all
its peers (`uml_socket/device.c` 201-212, 231).  And `setup_device` of the UML
socket binds to the path without removing an old socket, which only
`close_device` removes: after a daemon that ended without it, every start
fails at `bind`.

Two results of earlier runs that no run checks any more: a query more than
`MAX_WINDOW` behind the receive sequence is queued as new (`vpn_dns.C` 983;
the eviction at 877-884 looks for `rcvseq - MAX_WINDOW` only), where the
window is meant to drop it; in the core run resolvers give up before the
window has passed (`Lifetime`).  And `get_chksum` (511-526) folds a weighted
sum into 8 bits, so that a record with one byte changed can pass `valid ()`.

The pacing run also reaches two states worth knowing, which no property of a
run states yet.  After CMD_IP_REJ the timer is put off for 60 s, and the next
packet for the connection calls `time_cb` through `send_dnsv4_packet` and
sends SYN at once.  And `next_id` seeds its register with `time (0)` cut to 16
bits: with `Clock <- ClockAtZero` (a second whose low 16 bits are 0) every
request gets the id 0 and `UniqueIds` fails with the third request.

The codec run also shows what the name costs.  `gen_stream_req` sizes the data
with `decode_len`, which rounds up, so a name can be one byte longer than
`MAX_DOMAIN_SIZE` (`NameBudget` holds with that one byte and not without).
The domain is compared byte by byte (939): a resolver that changes letters of
the domain gets SERVFAIL where the negotiation would have said CSE.

The responses of a third party in that run are TXT records.  With a record
that carries the command SYN added to `Spoofed`, `DataExact` fails in 9
steps: a client whose first negotiation was answered CSE negotiates again
with cdc36 and `uid` 2, the spoofed SYN establishes it before the server has
seen the second record, and the server decodes its stream requests with
cdc62, the codec of the record it holds.  Nothing in a response but the id
and the header in the name of the answer says who wrote it (1198-1252).

`dnsv4_ev` frees the buffer of a datagram inside the test `pkt->len > 0`
(1292-1303): a `recvfrom` that returns 0 or -1 leaves `MAXSIZE` bytes
allocated, once for every empty datagram anybody sends to the port
(`Unanswered`).

Besides these, a packet the server queues before a further copy of SYN
arrives is lost with the connection that SYN replaces; `S2C_Delivered` is
therefore stated for packets of the session the client has joined.

## 5. Bounds

| constant | code | core | progress | why |
|---|---|---|---|---|
| `SEQNO_MOD` | `SEQNO_MASK + 1` = 16384 | 8 | 4 | small enough to wrap |
| `MAX_WINDOW` | 1000 | 3 | 2 | reordering inside and eviction at the edge of the window |
| `MAX_BACKLOG` | 65536 | 5 | 5 | `snddq` fills: the second packet is dropped while the first waits; larger than `MAXSIZE` as line 73 demands |
| `MAXSIZE` | packet size limit | 2 | 2 | payload bytes are larger, so a stream read at the wrong place shows |
| `MaxOutstanding` | `conf.dns_max_outstanding` | 3 | 2 | several requests in flight |
| `ReqCapacity` | `decode_len` of the label space | 2 / 3 | 2 / 3 | a frame needs two requests |
| `RepBudget`, `TXT_MAX` | `cfg.max_size`, 255 | 5, 2 | 5, 2 | a reply carries less than a frame; the TXT loop runs twice |
| `SeqBound` | - | 4 | 4 | cap on `sndseq` in the guard of `SendStream`; in the progress and recovery runs it equals `SEQNO_MOD`, so polling never stops and the numbers wrap |
| `Lifetime` | - | 3 | 2 | a stream query is delivered only while its sequence number is less than this behind `sndseq` (= `MAX_WINDOW`: resolvers give up before the window has passed) |
| `MaxIds` | 16-bit ids | 3 | 2 | ids of requests alive together |
| `MaxRestarts`, `MaxResolverErrors` | - | 0 | 0 | 1 each in the recovery run |

Of the codec runs:

| constant | code | run | why |
|---|---|---|---|
| `MAX_DEC_LEN` | 500 | 48 | the tables cover every length a request of the run carries (47 bytes), and the 24 bytes of the record |
| `MAX_LBL_SIZE` | 63 | 63 | the real label size: the negotiation label has 41 symbols |
| `MAX_DOMAIN_SIZE` | 235 | 75 | the budget of the data is 63 symbols; a full request has 69 with its header: two labels, and a name of 76 bytes, one more than the limit |
| `Domain` | `THISNODE->domain` | `v.x` | two labels of letters, so that folding to upper case changes it and folding to lower case does not |
| `MAXSIZE` | packet buffer | 512 | room for every name of the run; a label and a pointer back to it fill it and end |
| `NumClients`, `Nodes` | `conns.size ()` | 1, {1, 2} | a node the server knows and one it rejects |
| `dns_case_preserving` | configuration | TRUE | the downgrade after CSE reaches the other value |
| `MaxUid` | - | 2 | cap on `next_uid` in the guard of `SendSyn`: a negotiation, the downgrade, and the second negotiation |
| `MaxRetry` | - | 4 | cap on `retry` in the guard of `Retransmit`: at 4 the count leaves the byte |
| `Seqnos` | 14 bits | 0, 300, 16383 | both ends of the space and a number with bits in both bytes |
| `Payloads` | `snddq` | 6 | empty, leading zero bytes, and three queues of 60 bytes (zeros, 255s, mixed), of which a request takes 47 under cdc62 and 41 under cdc36 |
| `Forged` | - | 9; the self-pointer alone in the pointerloop run | the root, a label that runs off the datagram, pointers to itself, backwards, into the header and beyond the datagram, requests too short for their branch |
| `Kinds` | `FLAG_RESPONSE`, the opcode, the result of `recvfrom` | 4 | every body of `Forged` as a query, under another opcode and as a response, and a datagram without bytes |
| `Spoofed` | - | 2 | a TXT record of one string that ends with the record, and one of `rdlen` 2 whose string says 5 |
| `StaleBytes` | - | 0, 192 | harmless, and the first byte of a pointer |
| `Replies` | server `snddq` | 3 | empty (the single zero byte), two bytes (one string), and 400 bytes: more than the budget of any response, so that the first string has 255 bytes and the second is cut by the budget |

Of the pacing runs:

| constant | code | pacing | spin | why |
|---|---|---|---|---|
| `Conns` | `conns` | 2 | 1 | requests of two connections in one `dns_sndpq`; symmetric |
| `dns_timeout_factor`, `dns_overlap_factor`, `dns_send_interval` | `conf.h` 60-62 | 8, 1/2, 10 ms | the same | the defaults |
| `dns_max_outstanding` | 100 | 2 | 2 | the list fills, and `reset ()` finds a request of its own and one of the other connection |
| `SEQNO_MOD`, `MAX_WINDOW`, `MAX_BACKLOG` | 16384, 1000, 65536 | 8, 3, 1 | the same | the window can close; a second packet finds `snddq` full |
| `Rtts` | - | 30, 700 ms | the same | an answer within the first timeout of a stream request (800 ms at first, 240 ms once `min_latency` is 30) and one that comes after the request was sent again, and after the first 500 ms of the timer |
| `Clock` | `time (0)` | 1700000000 | the same | a seed with low bits that are not 0 |
| `MaxLost` | - | 1 | 1 | bound on transmissions without an answer: a SYN runs into its timeout |
| `MaxRequests` | - | 3 | 2 | bound on `dns_snd` objects, in the guards `MaySyn` and `MayStream`: SYN and two stream requests, or the SYNs of both connections and a stream request |
| `MaxPackets` | - | 2 | 1 | bound on calls of `send_dnsv4_packet` |
| `FOREVER` | 86400 * 365 s | 31,536,000 ms | the same | only has to lie beyond every other delay; TLC counts to 2^31 |

Of the device run:

| constant | code | run | why |
|---|---|---|---|
| `Hosts` | - | 2 | a daemon and its peer |
| `Confs` | the build, `routing_mode`, the kernel | 7 | linux as tun, tap and ethertap, solaris, openbsd, the raw socket, the UML socket: every ordered pair of them |
| `MTU` | `MTU` | 18 | the 14 bytes of the header and 4 of a packet |
| `Payloads` | - | 3 | IPv4 of 4 bytes, which fills the MTU; IPv6; a packet of neither family |
| `MaxPackets` | - | 1, for one of the hosts | the packets a kernel sends; one direction, since `conf` has every pair in both orders |
| `StaleBytes` | - | 1 model value | what a byte of the buffer holds that `read` has not written |
| `steps` | - | up to 9 | the system calls of `setup_device` that succeed: every prefix |

Of the host run:

| constant | code | run | why |
|---|---|---|---|
| `Pids` | process numbers | 2 | a number is used again while the file still holds it, for another process or for the daemon that starts |
| `Inodes` | - | 3 | the file the name leads to, and one that a process still has open after the name was removed and made again |
| `Tools` | - | 3 | invocations of `gvpectrl` at the same time, or one after another |
| `Nodes` | `conf.nodes` | 2 | the loop of `keygen` goes on, and ends |
| `Argvs` | `argv` | 10 | every branch of `main` and of the case `k`: a name, a number, nothing, a name `-k` does not know, an unknown option, options in both orders |
| `ASPRINTF_LEN` | 4096 | 3 | texts of 0 to 5 bytes: shorter than, as long as, and longer than the first block |
| `GETCWD_SIZE` | 100 | 2 | directories of 1 to 17 bytes: the block is doubled up to four times, with lengths at both sides of every size |
| descriptors | - | 0 to 3 | the three standard ones, each open or closed at the call of `daemon`, and the next |

Retransmissions need no bound of their own: every transmission after the
`MaxLost` lost ones gets an answer, and the answer removes the request.

With `MAX_BACKLOG > MAXSIZE` the failure of `rcvdq.put` inside `receive_rep`
("MUST never overflow") is unreachable; the branch is modelled and is not
exercised by these runs.

## 6. Fairness

`FairSpec` assumes weak fairness of the timer's sending steps (`time_cb`
restarts `tw` on every run, so a request that stays in `dns_sndpq` is sent
again and a request that may be generated is generated) and strong fairness,
per request id, of delivery to the server and to the client (the event loop
reads every datagram that arrives, and a network that is tried again and again
does not lose every copy).  Nothing is assumed about `ClientSend`,
`ServerSend`, loss, restarts or resolver failures; the last two are bounded,
since no protocol makes progress while the server restarts forever.

`DnsPacing` has safety properties only and assumes no fairness.  That time
passes is part of its next-state relation (`Tick`), and the pacing run checks
deadlock: there is no state in which neither a timer, nor an answer, nor the
clock can move.

`Device` assumes weak fairness of `read_packet` and `write_packet` of each
daemon: the event loop watches `device_fd` and calls `read_packet` for as long
as there is something to read, and the daemon writes what a peer has sent it.
Nothing is assumed of the kernels, the guest, `setup_device` or
`close_device`.  `Served` is what this fairness is for.

`Host` has safety properties only.  Its run does not check deadlock: a host on
which every process has ended and every invocation of `gvpectrl` has returned
is where the system may stop.

## 7. Assumptions about the environment

* in `DnsTunnel` and `DnsName`, one client with one connection, and a new
  request takes an id that no live request, query or response carries;
  `DnsPacing` has several connections and `next_id` itself;
* the timeout of SYN is longer than a round trip (`INITIAL_SYN_TIMEOUT` is
  2 s), so SYN is not repeated while its answer is on its way, and no copy of
  SYN outlives the negotiation; `LateSyn = TRUE` lifts both;
* the server's dispatcher sends to a client only when it has a connection
  for it (`send_dnsv4_packet` would otherwise make one whose record nobody
  has negotiated, 1316-1317); the client keeps to the window, so that the
  fragment `dnsv4_server` has just queued is still in `rcvpq` when the reply
  is copied into it (1050-1051: `receive_rep` frees the fragment
  `MAX_WINDOW` behind, which a client that sends further ahead can make the
  new one);
* in `DnsName`, `u16` fields in host order are low byte first, and the bytes
  of the DNS header that the sender chooses are among `StaleBytes`; a server
  that stopped comes back without connections, and a client that stopped is
  started again as configured while its last request may still be answered;
  a third party can answer every outstanding request under its id;
* in `DnsTunnel`, time is abstracted: whether a timeout or `send_interval`
  has passed is nondeterministic;
* in `DnsPacing`: the clock `ev_now ()` does not go back; an answer takes at
  least a millisecond; a request is answered by what a server sends for it
  (DATA, an empty answer or RST for a stream request, SYN, CSE or REJ for a
  negotiation), after one of `Rtts`, or not at all; `time (0)` is read where
  `next_id` reads it and is otherwise independent of `ev_now ()`; the process
  is a client (`THISNODE->dns_port` is 0, so `time_cb` does not return at
  1333).

* in `Device`: a kernel hands the daemon one packet per `read` and takes one
  per `write`; the kernel of a linux host either has `/dev/net/tun` or has
  not, for as long as the daemon is there; what lies between the two daemons
  keeps order and loses nothing (the transports have models of their own);
* in `PidFile`: `kill (pid, 0)` fails with ESRCH exactly for a number that is
  free; a daemon calls `check_pid`, then `write_pid`, and `remove_pid` when it
  ends, and leaves when `check_pid` finds another or `write_pid` returns 0;
* in `Gvpectrl`: a key file is written whole or not at all; nobody but
  `gvpectrl` writes or removes key files;
* in `Dropin`: `realloc` keeps the bytes that fit; a text holds no NUL;
  `chdir ("/")` succeeds (the code does not look at its result).

## 8. Not modelled

| part | why it is not modelled |
|---|---|
| responses with several answers; responses of a third party that carry a meta command | the first adds records a walk of one covers; the second is what the remark on `DataExact` in section 4 describes, and is kept out of the passing run because that property is stated of the server's answers |
| a query that arrives at a client | `dnsv4_ev` gives it to `dnsv4_server` of the client, which answers as a server without connections; the models have the server only at the server |
| `recvfrom` and `sendto` themselves | I/O: the network of the models |
| `configuration_parser`, `kill_other`, `conf.print`, the daemon that calls `write_pid` and `daemon` | not among the sources; `main` of `gvpectrl` ends where it calls them |
| `indicator` and the texts of `usage` in `gvpectrl.C`, `dump_device_stats` and the byte counters of the back ends | they print and count, and nothing reads what they count |
| names of devices, interfaces, files and directories | data no property tells apart; `asprintf`, which builds them, is modelled on texts of its own |
| `src/src/conf.h` but for the defaults of the DNS transport, `src/src/netcompat.h` | declarations and constants of the network headers: no operation changes state; `conf_node::connectable_protocols`, the one function with a body, is called from none of the sources |
| what `asprintf` and a failing `get_current_dir_name` are meant to return | a property that states it is violated by the first call, which is read off the definition; the runs that expect a violation are those whose trace takes steps of several actors |
| a property for five of the hazards | `next_id` with a seed of 0 (`vpn_dns.C` 600), the buffer `dnsv4_ev` does not free (1292), the request of a UML guest that arrives in pieces (`uml_socket/device.c` 201), the socket a daemon leaves behind (129) and the block of `asprintf` (`dropin.c` 147): section 4 says what the code does in each, and a property of a passing run could only repeat it |
