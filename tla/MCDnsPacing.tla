---------------------------- MODULE MCDnsPacing ----------------------------
(***************************************************************************)
(* DnsPacing for TLC: the connections are model values, and every          *)
(* permutation of them is a symmetry, because no definition tells one      *)
(* connection from another but by the place of its requests in dns_sndpq.  *)
(***************************************************************************)
EXTENDS DnsPacing

Symmetry == Permutations(Conns)

\* time (0) at the first request: its low 16 bits are not 0.
ClockRunning == {1700000000}

\* time (0) at the first request is a multiple of 65536.
ClockAtZero == {1700003840 - (1700003840 % 65536)}

\* An answer within the timeout of a request, and a late one.
RoundTrips == {30, 700}
=============================================================================
