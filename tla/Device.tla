------------------------------- MODULE Device -------------------------------
(***************************************************************************)
(* The tun/tap device of a daemon, for each of the five back ends of       *)
(* src/src/tincd: setup_device, read_packet, write_packet and close_device *)
(* between the kernel of the host (or the UML guest behind a socket) and   *)
(* the daemon, and two daemons that carry each other's packets.            *)
(*                                                                         *)
(* The back end of a host is chosen when the daemon is built and its       *)
(* routing mode when it is configured: both are fixed in the first state.  *)
(***************************************************************************)
EXTENDS TunTap

CONSTANTS
    Hosts,          \* the two daemons
    Confs,          \* the build, the routing mode and the kernel of a daemon
    Payloads,       \* the IP packets a kernel sends
    MaxPackets      \* per host: bound on the packets its kernel sends

Builds == {"linux", "solaris", "openbsd", "raw_socket", "uml_socket"}
Fds    == {"device", "ip", "if", "listen", "request", "data", "write"}

ASSUME /\ Cardinality(Hosts) = 2
       /\ MaxPackets \in [Hosts -> Nat]
       /\ Confs \subseteq [build : Builds, tuntap : BOOLEAN,
                            routing_mode : {"RMODE_ROUTER", "RMODE_SWITCH"}]
       /\ \A p \in Payloads : p \in Seq(Byte) /\ Len(p) \in 1 .. MTU - ETHER_SIZE

VARIABLES
    conf,           \* per host: the back end, the routing mode, the kernel
    dev,            \* per host: the variables of device.c
    path,           \* per host: the socket `device' exists in the file system
    guest,          \* per host: the UML guest and the request it has written
    up,             \* per host: what the kernel or guest has for the daemon
    down,           \* per host: what the daemon has written to it
    emitted,        \* per host: the packets its kernel has sent (history)
    tunnel          \* per host: the packets the other daemon sends it

vars == <<conf, dev, path, guest, up, down, emitted, tunnel>>

Peer(h) == CHOOSE g \in Hosts : g # h

NoDevice ==
    [status |-> "down", device_fd |-> "none", open |-> {},
     device_type |-> "DEVICE_TYPE_ETHERTAP", state |-> 0, running |-> FALSE,
     overwrite_mac |-> FALSE]

NoGuest == [pc |-> "off", request |-> "none"]

Router(h) == conf[h].routing_mode = "RMODE_ROUTER"
Uml(h)    == conf[h].build = "uml_socket"

-----------------------------------------------------------------------------
(***************************************************************************)
(* The kernel's side of a device: how it presents an IP packet, and which  *)
(* packet it takes what the daemon writes for.                             *)
(***************************************************************************)
MAC == [i \in 1 .. 12 |-> 2]

Family(p) == CASE p[1] \div 16 = 4 -> "inet" [] p[1] \div 16 = 6 -> "inet6"
               [] OTHER -> "other"

EtherType == [inet |-> ETH_P_IP, inet6 |-> ETH_P_IPV6, other |-> <<0, 0>>]
AddressFamily == [inet |-> AF_INET, inet6 |-> AF_INET6, other |-> <<0, 0, 0, 0>>]

Interface(h) ==
    CASE conf[h].build = "linux"   ->
            IF ~conf[h].tuntap THEN "DEVICE_TYPE_ETHERTAP"
            ELSE IF Router(h) THEN "DEVICE_TYPE_TUN" ELSE "DEVICE_TYPE_TAP"
      [] conf[h].build = "solaris" -> "ip"
      [] conf[h].build = "openbsd" -> "af"
      [] OTHER -> "frame"

\* What comes before the packet, and where in it the family is written.
Header(interface, family) ==
    CASE interface = "DEVICE_TYPE_TUN"      -> <<0, 0>> \o EtherType[family]
      [] interface = "DEVICE_TYPE_ETHERTAP" -> <<0, 0>> \o MAC \o EtherType[family]
      [] interface = "ip"                   -> <<>>
      [] interface = "af"                   -> AddressFamily[family]
      [] OTHER                              -> MAC \o EtherType[family]

FamilyField(interface) ==
    CASE interface = "DEVICE_TYPE_TUN"      -> 3 .. 4
      [] interface = "DEVICE_TYPE_ETHERTAP" -> 15 .. 16
      [] interface = "ip"                   -> {}
      [] interface = "af"                   -> 1 .. 4
      [] OTHER                              -> 13 .. 14

Present(interface, p) == Header(interface, Family(p)) \o p

\* The kernel behind the interface takes chunk for the packet p.
Carries(interface, chunk, p) ==
    LET whole == Present(interface, p)
    IN  /\ Len(chunk) = Len(whole)
        /\ \A i \in FamilyField(interface) \cup (Len(whole) - Len(p) + 1 .. Len(whole)) :
              chunk[i] = whole[i]

-----------------------------------------------------------------------------
(* setup_device: steps are the calls that succeeded, of all those it makes *)

Up(h, d) == dev' = [dev EXCEPT ![h] = [d EXCEPT !.status = "up", !.running = TRUE]]
Failed(h, d) == dev' = [dev EXCEPT ![h] = [d EXCEPT !.status = "failed"]]

\* A kernel without tun/tap refuses both requests, and the device is taken
\* for an ethertap.
linux_setup_device(h, steps) ==
    LET tuntap == conf[h].tuntap
        type   == IF ~tuntap THEN "DEVICE_TYPE_ETHERTAP"
                  ELSE IF Router(h) THEN "DEVICE_TYPE_TUN" ELSE "DEVICE_TYPE_TAP"
    IN  /\ steps \in 0 .. 1
        /\ IF steps = 0 THEN Failed(h, dev[h])
           ELSE Up(h, [dev[h] EXCEPT !.device_fd = "device", !.open = {"device"},
                                     !.device_type = type,
                                     !.overwrite_mac = @ \/ (~tuntap /\ Router(h))])
        /\ UNCHANGED path

solaris_setup_device(h, steps) ==
    LET opened == {"device" : x \in {1} \cap 1 .. steps}
                  \cup {"ip" : x \in {2} \cap 1 .. steps}
                  \cup {"if" : x \in {4} \cap 1 .. steps}
        d == [dev[h] EXCEPT !.open = opened,
                            !.device_fd = IF steps = 0 THEN @ ELSE "device"]
    IN  /\ steps \in 0 .. 7
        /\ IF steps = 7 THEN Up(h, d) ELSE Failed(h, d)
        /\ UNCHANGED path

openbsd_setup_device(h, steps) ==
    /\ steps \in 0 .. 1
    /\ IF steps = 0 THEN Failed(h, dev[h])
       ELSE Up(h, [dev[h] EXCEPT !.device_fd = "device", !.open = {"device"}])
    /\ UNCHANGED path

\* The socket is closed when the interface has no index, and left open when
\* it cannot be bound.
raw_setup_device(h, steps) ==
    LET d == [dev[h] EXCEPT !.device_fd = IF steps = 0 THEN @ ELSE "device",
                            !.open = IF steps >= 2 THEN {"device"} ELSE {}]
    IN  /\ steps \in 0 .. 3
        /\ IF steps = 3 THEN Up(h, d) ELSE Failed(h, d)
        /\ UNCHANGED path

\* write_fd, its flags, data_fd, its flags and its name; then listen_fd, its
\* flags, its name in the file system, which must be free, and listen.
uml_setup_device(h, steps) ==
    LET opened == {"write" : x \in {1} \cap 1 .. steps}
                  \cup {"data" : x \in {3} \cap 1 .. steps}
                  \cup {"listen" : x \in {6} \cap 1 .. steps}
        d == [dev[h] EXCEPT !.open = opened]
    IN  /\ steps \in 0 .. 9
        /\ steps >= 8 => ~path[h]
        /\ path' = [path EXCEPT ![h] = @ \/ steps >= 8]
        /\ IF steps = 9
           THEN Up(h, [d EXCEPT !.device_fd = "listen", !.state = 0,
                                !.overwrite_mac = @ \/ Router(h)])
           ELSE Failed(h, [d EXCEPT !.running = @ /\ steps >= 5])

setup_device(h) ==
    /\ dev[h].status = "down"
    /\ \E steps \in 0 .. 9 :
          CASE conf[h].build = "linux"      -> linux_setup_device(h, steps)
            [] conf[h].build = "solaris"    -> solaris_setup_device(h, steps)
            [] conf[h].build = "openbsd"    -> openbsd_setup_device(h, steps)
            [] conf[h].build = "raw_socket" -> raw_setup_device(h, steps)
            [] conf[h].build = "uml_socket" -> uml_setup_device(h, steps)
    /\ UNCHANGED <<conf, guest, up, down, emitted, tunnel>>

\* close_device, as the daemon ends: every back end closes what it has in
\* device_fd, the UML socket all four and removes its name.  The process
\* and what it left open end with it, and what the kernel held for it.
close_device(h) ==
    /\ dev[h].status = "up"
    /\ dev' = [dev EXCEPT ![h] = NoDevice]
    /\ path' = [path EXCEPT ![h] = @ /\ ~Uml(h)]
    /\ guest' = [guest EXCEPT ![h] = NoGuest]
    /\ up' = [up EXCEPT ![h] = <<>>]
    /\ UNCHANGED <<conf, down, emitted, tunnel>>

\* A daemon whose device could not be set up ends without close_device:
\* the name of a socket it has bound stays.
Exit(h) ==
    /\ dev[h].status = "failed"
    /\ dev' = [dev EXCEPT ![h] = NoDevice]
    /\ UNCHANGED <<conf, path, guest, up, down, emitted, tunnel>>

-----------------------------------------------------------------------------
(* The kernel and the UML guest *)

Serving(h) == dev[h].status = "up" /\ dev[h].running

\* The kernel sends a packet through the device; a guest sends it to the
\* address it was told.
KernelEmit(h, p) ==
    /\ Serving(h)
    /\ Uml(h) => guest[h].pc = "up"
    /\ Len(emitted[h]) < MaxPackets[h]
    /\ up' = [up EXCEPT ![h] = Append(@, Present(Interface(h), p))]
    /\ emitted' = [emitted EXCEPT ![h] = Append(@, p)]
    /\ UNCHANGED <<conf, dev, path, guest, down, tunnel>>

\* The guest connects to the socket, which takes it while there is a
\* listener, and writes its request: whole, the first part of it, or one
\* of another protocol.
GuestConnect(h, request) ==
    /\ Uml(h) /\ guest[h].pc = "off"
    /\ path[h] /\ "listen" \in dev[h].open
    /\ guest' = [guest EXCEPT ![h] = [pc |-> "requested", request |-> request]]
    /\ UNCHANGED <<conf, dev, path, up, down, emitted, tunnel>>

\* A datagram without data, which a socket of this kind delivers.
GuestEmpty(h) ==
    /\ Uml(h) /\ guest[h].pc = "up" /\ Serving(h)
    /\ up[h] = <<>>
    /\ up' = [up EXCEPT ![h] = <<<<>>>>]
    /\ UNCHANGED <<conf, dev, path, guest, down, emitted, tunnel>>

\* The guest ends and its sockets with it.
GuestQuit(h) ==
    /\ Uml(h) /\ guest[h].pc \in {"requested", "up"}
    /\ guest' = [guest EXCEPT ![h].pc = "gone"]
    /\ UNCHANGED <<conf, dev, path, up, down, emitted, tunnel>>

-----------------------------------------------------------------------------
(* read_packet, when device_fd is readable *)

\* The packet goes to the other daemon.
Forward(h, r) ==
    tunnel' = IF r.ok THEN [tunnel EXCEPT ![Peer(h)] = Append(@, r.data)] ELSE tunnel

device_read_packet(h, stale) ==
    /\ ~Uml(h) /\ up[h] # <<>>
    /\ Forward(h, CASE conf[h].build = "linux" ->
                           linux_read_packet(dev[h].device_type, Head(up[h]), stale)
                    [] conf[h].build = "solaris" -> solaris_read_packet(Head(up[h]), stale)
                    [] conf[h].build = "openbsd" -> openbsd_read_packet(Head(up[h]), stale)
                    [] conf[h].build = "raw_socket" -> raw_read_packet(Head(up[h]), stale))
    /\ up' = [up EXCEPT ![h] = Tail(@)]
    /\ UNCHANGED <<dev, guest>>

\* Fault: the connection is accepted and device_fd stays the listener.
uml_accept_NoSwitch(h, flagged) ==
    /\ dev[h].state = 0 /\ dev[h].device_fd = "listen"
    /\ guest[h].pc \in {"requested", "gone"}
    /\ dev' = [dev EXCEPT ![h] =
                  IF flagged
                  THEN [@ EXCEPT !.open = (@ \ {"listen"}) \cup {"request"},
                                 !.state = 1]
                  ELSE [@ EXCEPT !.open = @ \cup {"request"}, !.running = FALSE]]
    /\ UNCHANGED <<guest, up, tunnel>>

\* state 0: the connection is accepted, and the listener closed for good.
\* An accept that fails is logged and leaves everything as it was: a step
\* that changes nothing.
uml_accept(h, flagged) ==
    /\ dev[h].state = 0 /\ dev[h].device_fd = "listen"
    /\ guest[h].pc \in {"requested", "gone"}
    /\ dev' = [dev EXCEPT ![h] =
                  IF flagged
                  THEN [@ EXCEPT !.open = (@ \ {"listen"}) \cup {"request"},
                                 !.device_fd = "request", !.state = 1]
                  ELSE [@ EXCEPT !.open = @ \cup {"request"}, !.running = FALSE]]
    /\ UNCHANGED <<guest, up, tunnel>>

\* state 1: the request is read in one piece or the daemon stops; write_fd
\* is connected to the address in it, and the guest told where to send.
uml_request(h, connected) ==
    /\ dev[h].state = 1 /\ dev[h].device_fd = "request"
    /\ IF guest[h].pc = "requested" /\ guest[h].request = "whole" /\ connected
       THEN /\ dev' = [dev EXCEPT ![h].device_fd = "data", ![h].state = 2]
            /\ guest' = [guest EXCEPT ![h].pc = "up"]
       ELSE /\ dev' = [dev EXCEPT ![h].running = FALSE]
            /\ UNCHANGED guest
    /\ UNCHANGED <<up, tunnel>>

\* state 2: a frame, or nothing and the daemon stops.
uml_read(h, stale) ==
    /\ dev[h].state = 2 /\ dev[h].device_fd = "data"
    /\ up[h] # <<>>
    /\ Forward(h, raw_read_packet(Head(up[h]), stale))
    /\ dev' = [dev EXCEPT ![h].running = raw_read_packet(Head(up[h]), stale).ok]
    /\ up' = [up EXCEPT ![h] = Tail(@)]
    /\ UNCHANGED guest

uml_read_packet(h, stale) ==
    /\ Uml(h)
    /\ \/ \E flagged \in BOOLEAN : uml_accept(h, flagged)
       \/ \E connected \in BOOLEAN : uml_request(h, connected)
       \/ uml_read(h, stale)

read_packet(h) ==
    /\ Serving(h)
    /\ \E stale \in StaleBytes :
          device_read_packet(h, stale) \/ uml_read_packet(h, stale)
    /\ UNCHANGED <<conf, path, down, emitted>>

-----------------------------------------------------------------------------
(* write_packet, with a packet from the other daemon *)

\* What the back end hands the kernel; <<>> when it refuses the packet.
Written(h, data) ==
    CASE conf[h].build = "linux"   -> linux_write_packet(dev[h].device_type, data)
      [] conf[h].build = "solaris" -> solaris_write_packet(data)
      [] conf[h].build = "openbsd" -> openbsd_write_packet(data)
      [] OTHER                     -> raw_write_packet(data)

\* The UML socket drops what comes before the guest is connected.  A packet
\* the back end refuses, and one whose write fails, is lost; at the UML
\* socket a write that fails with another error than EINTR or EAGAIN, as
\* every write does once the guest is gone, stops the daemon.
write_packet(h) ==
    LET chunk     == Written(h, Head(tunnel[h]))
        connected == Uml(h) => dev[h].state = 2
        gone      == Uml(h) /\ guest[h].pc = "gone"
    IN  /\ Serving(h) /\ tunnel[h] # <<>>
        /\ tunnel' = [tunnel EXCEPT ![h] = Tail(@)]
        /\ \/ /\ connected /\ ~gone /\ chunk # <<>>
              /\ down' = [down EXCEPT ![h] = Append(@, chunk)]
              /\ dev' = dev
           \/ /\ ~connected \/ ~gone
              /\ UNCHANGED <<down, dev>>
           \/ /\ connected /\ Uml(h)
              /\ dev' = [dev EXCEPT ![h].running = FALSE]
              /\ down' = down
        /\ UNCHANGED <<conf, path, guest, up, emitted>>

-----------------------------------------------------------------------------
Init ==
    /\ conf \in [Hosts -> Confs]
    /\ dev = [h \in Hosts |-> NoDevice]
    /\ path = [h \in Hosts |-> FALSE]
    /\ guest = [h \in Hosts |-> NoGuest]
    /\ up = [h \in Hosts |-> <<>>]
    /\ down = [h \in Hosts |-> <<>>]
    /\ emitted = [h \in Hosts |-> <<>>]
    /\ tunnel = [h \in Hosts |-> <<>>]

Next ==
    \E h \in Hosts :
        \/ setup_device(h)
        \/ close_device(h)
        \/ Exit(h)
        \/ \E p \in Payloads : KernelEmit(h, p)
        \/ \E request \in {"whole", "part", "bad"} : GuestConnect(h, request)
        \/ GuestEmpty(h)
        \/ GuestQuit(h)
        \/ read_packet(h)
        \/ write_packet(h)

\* The event loop calls read_packet while device_fd is readable, and
\* write_packet for every packet that arrives.
Fairness == \A h \in Hosts : WF_vars(read_packet(h)) /\ WF_vars(write_packet(h))

Spec == Init /\ [][Next]_vars /\ Fairness

-----------------------------------------------------------------------------
TypeOK ==
    /\ conf \in [Hosts -> Confs]
    /\ \A h \in Hosts :
          /\ dev[h].status \in {"down", "up", "failed"}
          /\ dev[h].device_fd \in Fds \cup {"none"}
          /\ dev[h].open \subseteq Fds
          /\ dev[h].device_type \in DeviceTypes
          /\ dev[h].state \in 0 .. 2
          /\ dev[h].running \in BOOLEAN /\ dev[h].overwrite_mac \in BOOLEAN
          /\ guest[h].pc \in {"off", "requested", "up", "gone"}
          /\ guest[h].request \in {"none", "whole", "part", "bad"}
          /\ up[h] \in Seq(Seq(Byte))
          /\ \A i \in DOMAIN down[h] :
                \A b \in Range(down[h][i]) : b \in StaleBytes \/ b \in Byte
          /\ emitted[h] \in Seq(Payloads)
          /\ \A i \in DOMAIN tunnel[h] :
                /\ Len(tunnel[h][i]) \in 1 .. MTU
                /\ \A b \in Range(tunnel[h][i]) : b \in StaleBytes \/ b \in Byte
    /\ path \in [Hosts -> BOOLEAN]

\* The descriptor the event loop of a running daemon waits on is one the
\* daemon has open: setup_device leaves it so on every path that returns
\* true, and read_packet of the UML socket, which closes the listener and
\* moves device_fd from it to the connection and then to the data socket,
\* never leaves device_fd on what it has closed.
DescriptorOpen ==
    \A h \in Hosts : Serving(h) => dev[h].device_fd \in dev[h].open

\* Whatever the back ends of the two daemons, what the kernel of one host
\* is handed is a packet the kernel of the other sent, whole and of the
\* family it was sent as: the offsets by which read_packet and write_packet
\* of every back end place the packet in the frame, the room they leave for
\* the bytes before it, and the ethertype they write or read agree, up to
\* a packet that fills the MTU.
Interoperable ==
    \A h \in Hosts : \A i \in DOMAIN down[h] :
        \E j \in DOMAIN emitted[Peer(h)] :
            Carries(Interface(h), down[h][i], emitted[Peer(h)][j])

\* The daemon reads the descriptor the handshake has reached: a guest that
\* has written its whole request is told where to send, and what the kernel
\* or the guest has sent is read, unless the daemon stops or the guest
\* ends (device_fd in setup_device and in the three states of read_packet
\* of the UML socket).
Served ==
    \A h \in Hosts :
        /\ (guest[h].pc = "requested" /\ guest[h].request = "whole")
              ~> (guest[h].pc # "requested" \/ ~Serving(h))
        /\ (up[h] # <<>>) ~> (up[h] = <<>> \/ ~Serving(h))

=============================================================================
