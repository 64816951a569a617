--------------------------- MODULE MCSignalServer ---------------------------
(* Instances of SignalServer for TLC. *)
EXTENDS SignalProperties

CONSTANTS h1, h2, j1, j2

OneHost == {h1}
TwoHosts == {h1, h2}
TwoPairs == {h1, h2, j1, j2}
TwoJoiners == {h1, j1, j2}
TwoBookings == {h1, h2, j1}
OnePair == {h1, j1}
Nobody == {}
=============================================================================
