------------------------------ MODULE MCDevice ------------------------------
(***************************************************************************)
(* Device for TLC: two daemons of any two back ends, an MTU that leaves    *)
(* four bytes behind the Ethernet header, and packets of IPv4, of IPv6, of *)
(* neither, and one that fills the MTU.                                    *)
(***************************************************************************)
EXTENDS Device

MCMTU == ETHER_SIZE + 4

MCConfs ==
    {[build |-> "linux", routing_mode |-> "RMODE_ROUTER", tuntap |-> TRUE],
     [build |-> "linux", routing_mode |-> "RMODE_SWITCH", tuntap |-> TRUE],
     [build |-> "linux", routing_mode |-> "RMODE_ROUTER", tuntap |-> FALSE],
     [build |-> "solaris", routing_mode |-> "RMODE_ROUTER", tuntap |-> FALSE],
     [build |-> "openbsd", routing_mode |-> "RMODE_ROUTER", tuntap |-> FALSE],
     [build |-> "raw_socket", routing_mode |-> "RMODE_SWITCH", tuntap |-> FALSE],
     [build |-> "uml_socket", routing_mode |-> "RMODE_SWITCH", tuntap |-> FALSE]}

MCPayloads == {<<69, 1, 2, 3>>, <<96, 7>>, <<0>>}

\* One direction is enough: every pair of a back end that reads and one that
\* writes is a choice of the two configurations.
MCMaxPackets == [h \in Hosts |-> IF h = CHOOSE g \in Hosts : TRUE THEN 1 ELSE 0]

=============================================================================
