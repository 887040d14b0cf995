----------------------------- MODULE MCDnsTunnel -----------------------------
(***************************************************************************)
(* DnsTunnel with small constants for TLC.  The payload bytes are larger   *)
(* than MAXSIZE, so that a stream read at the wrong place shows.           *)
(***************************************************************************)
EXTENDS DnsTunnel

\* A request carries less with the codec of 36 symbols than with that of 62.
MCReqCapacity == (36 :> 2) @@ (62 :> 3)

MCClientPackets == << <<11>>, <<12, 13>> >>
MCServerPackets == << <<21, 22>>, <<23>> >>
MCServerPackets1 == << <<21, 22>> >>
MCClientPackets1 == << <<11>> >>
MCNoPackets == << >>
=============================================================================
