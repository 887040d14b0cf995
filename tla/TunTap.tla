------------------------------- MODULE TunTap -------------------------------
(***************************************************************************)
(* read_packet and write_packet of the device back ends in src/src/tincd:  *)
(* what each makes of the bytes the kernel hands it, and what it hands the *)
(* kernel for a packet of the daemon.  A packet of the daemon is an        *)
(* Ethernet frame, packet->data [0 .. len - 1], here the sequence of its   *)
(* bytes; the back ends of layer 3 build the 14 bytes of its header, and   *)
(* leave those they do not write as they were in the buffer.               *)
(***************************************************************************)
EXTENDS Integers, Sequences, FiniteSetsExt

CONSTANTS
    MTU,            \* the room in packet->data
    StaleBytes      \* what a byte holds that nobody has written

Byte == 0 .. 255

ETHER_SIZE == 14

DeviceTypes == {"DEVICE_TYPE_ETHERTAP", "DEVICE_TYPE_TUN", "DEVICE_TYPE_TAP"}

\* The ethertypes the back ends of layer 3 write and know.
ETH_P_IP   == <<8, 0>>
ETH_P_IPV6 == <<134, 221>>

\* OpenBSD, in the byte order of the network.
AF_INET  == <<0, 0, 0, 2>>
AF_INET6 == <<0, 0, 0, 24>>

\* What read_packet returns: false, or true and the packet.
Refused == [ok |-> FALSE, data |-> <<>>]
Accepted(data) == [ok |-> TRUE, data |-> data]

\* read (fd, packet->data + offset, room): the first bytes of what the
\* kernel has, behind offset bytes that stay as they were.
ReadAt(chunk, offset, room, stale) ==
    [lenin |-> Min({Len(chunk), room}),
     data  |-> [i \in 1 .. offset |-> stale]
               \o SubSeq(chunk, 1, Min({Len(chunk), room}))]

\* The two bytes of the ethertype in a frame.
WithType(data, ethertype) ==
    [data EXCEPT ![13] = ethertype[1], ![14] = ethertype[2]]

-----------------------------------------------------------------------------
(* linux/device.c *)

\* Fault: room for the packet and none for the four bytes before it.
linux_read_packet_NoHeaderRoom(device_type, chunk, stale) ==
    LET Taken(r, less) ==
            IF r.lenin <= 0 THEN Refused
            ELSE Accepted(SubSeq(r.data, 1 + less, Len(r.data)))
    IN  CASE device_type = "DEVICE_TYPE_TUN" ->
                Taken(ReadAt(chunk, 10, MTU - 14, stale), 0)
          [] device_type = "DEVICE_TYPE_TAP" ->
                Taken(ReadAt(chunk, 0, MTU, stale), 0)
          [] device_type = "DEVICE_TYPE_ETHERTAP" ->
                Taken(ReadAt(chunk, 0, MTU + 2, stale), 2)

\* tun: the packet information of the kernel lands on bytes 10 to 13, its
\* protocol where the ethertype is.  ethertap: two bytes before the frame.
linux_read_packet(device_type, chunk, stale) ==
    LET Taken(r, less) ==
            IF r.lenin <= 0 THEN Refused
            ELSE Accepted(SubSeq(r.data, 1 + less, Len(r.data)))
    IN  CASE device_type = "DEVICE_TYPE_TUN" ->
                Taken(ReadAt(chunk, 10, MTU - 10, stale), 0)
          [] device_type = "DEVICE_TYPE_TAP" ->
                Taken(ReadAt(chunk, 0, MTU, stale), 0)
          [] device_type = "DEVICE_TYPE_ETHERTAP" ->
                Taken(ReadAt(chunk, 0, MTU + 2, stale), 2)

\* tun: the flags of the packet information are cleared.  ethertap: the
\* length goes before the frame as a short of the host, low byte first.
linux_write_packet(device_type, data) ==
    CASE device_type = "DEVICE_TYPE_TUN" ->
            <<0, 0>> \o SubSeq(data, 13, Len(data))
      [] device_type = "DEVICE_TYPE_TAP" -> data
      [] device_type = "DEVICE_TYPE_ETHERTAP" ->
            <<Len(data) % 256, Len(data) \div 256>> \o data

-----------------------------------------------------------------------------
(* solaris/device.c *)

\* The version of an IP packet, in the upper half of its first byte.
IpVersion(data) == data[ETHER_SIZE + 1] \div 16

solaris_read_packet(chunk, stale) ==
    LET Typed(r) ==
            IF r.lenin <= 0 THEN Refused
            ELSE CASE IpVersion(r.data) = 4 -> Accepted(WithType(r.data, ETH_P_IP))
                   [] IpVersion(r.data) = 6 -> Accepted(WithType(r.data, ETH_P_IPV6))
                   [] OTHER -> Refused
    IN  Typed(ReadAt(chunk, ETHER_SIZE, MTU - ETHER_SIZE, stale))

solaris_write_packet(data) == SubSeq(data, ETHER_SIZE + 1, Len(data))

-----------------------------------------------------------------------------
(* openbsd/device.c *)

\* Fault: the length counted as if the four bytes of the family were none.
openbsd_read_packet_Long(chunk, stale) ==
    LET type == SubSeq(chunk, 1, 4)
        r    == ReadAt(SubSeq(chunk, 5, Len(chunk)), ETHER_SIZE, MTU - ETHER_SIZE, stale)
    IN  IF Len(chunk) <= 0 THEN Refused
        ELSE CASE type = AF_INET  -> Accepted(WithType(r.data \o <<stale, stale, stale, stale>>, ETH_P_IP))
               [] type = AF_INET6 -> Accepted(WithType(r.data \o <<stale, stale, stale, stale>>, ETH_P_IPV6))
               [] OTHER -> Refused

\* readv: four bytes into type, the rest behind the header; lenin counts
\* both, so the packet has lenin + 10 bytes.
openbsd_read_packet(chunk, stale) ==
    LET type == SubSeq(chunk, 1, 4)
        r    == ReadAt(SubSeq(chunk, 5, Len(chunk)), ETHER_SIZE, MTU - ETHER_SIZE, stale)
    IN  IF Len(chunk) <= 0 THEN Refused
        ELSE CASE type = AF_INET  -> Accepted(WithType(r.data, ETH_P_IP))
               [] type = AF_INET6 -> Accepted(WithType(r.data, ETH_P_IPV6))
               [] OTHER -> Refused

\* writev: the family the ethertype names, then the packet; <<>> when the
\* ethertype is none of the two and write_packet returns false.
openbsd_write_packet(data) ==
    LET af == SubSeq(data, 13, 14)
    IN  CASE af = ETH_P_IP   -> AF_INET  \o SubSeq(data, ETHER_SIZE + 1, Len(data))
          [] af = ETH_P_IPV6 -> AF_INET6 \o SubSeq(data, ETHER_SIZE + 1, Len(data))
          [] OTHER -> <<>>

-----------------------------------------------------------------------------
(* raw_socket/device.c, and uml_socket/device.c once it is connected *)

raw_read_packet(chunk, stale) ==
    LET Taken(r) == IF r.lenin <= 0 THEN Refused ELSE Accepted(r.data)
    IN  Taken(ReadAt(chunk, 0, MTU, stale))

raw_write_packet(data) == data

=============================================================================
