-------------------------- MODULE MCIngestionQueue --------------------------
(***************************************************************************)
(* Instance of IngestionQueue for TLC: device "a" has three packets, one   *)
(* more than a slice, and "b" one that ties with one of them in            *)
(* (timestamp, seq).                                                       *)
(***************************************************************************)
EXTENDS IngestionQueue

P(d, s, t) == [device |-> d, seq |-> s, timestamp |-> t]

MCDevice == {"a", "b"}
MCPacket == {P("a", 1, 10), P("a", 2, 20), P("a", 3, 30), P("b", 1, 10)}
MCLivePacket == {P("a", 2, 20), P("b", 1, 10)}
=============================================================================
