-------------------------- MODULE MCTrackingServer --------------------------
(***************************************************************************)
(* Instances of TrackingServer for TLC.                                    *)
(***************************************************************************)
EXTENDS TrackingServer, TLC

CONSTANT c1   \* in the instance with two devices, the connection of "b"

P(d, s) == [device |-> d, seq |-> s, timestamp |-> 10 * s]

OneDevice == {"a"}
TwoPackets == {P("a", 1), P("a", 2)}
ThreePackets == {P("a", s) : s \in 1 .. 3}
AlsoB == ThreePackets \cup {P("b", 1)}
BothA == [c \in Conn |-> "a"]

TwoDevices == {"a", "b"}
MixedPackets == {P("a", 1), P("a", 2), P("b", 1)}
TwoAndOne == [c \in Conn |-> IF c = c1 THEN "b" ELSE "a"]
Unreadable == {P("a", 2), P("b", 1)}
Alike == Permutations(Conn \ {c1})  \* the connections of "a"
=============================================================================
