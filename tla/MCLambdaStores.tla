--------------------------- MODULE MCLambdaStores ---------------------------
(* One device; a live packet, a backlog chunk of two packets with one time *)
(* and sequence numbers of one and two digits, and a later live packet;    *)
(* two connections, told apart by nothing. The chunk and the first live    *)
(* packet may be delivered twice.                                          *)
EXTENDS LambdaStores, TLC

CONSTANTS dev, chunk, live, later, c1, c2

P(seq, timestamp) == [device |-> dev, seq |-> seq, timestamp |-> timestamp]

MCPacket == {P(8, 1), P(9, 2), P(10, 2), P(11, 3)}
MCChunk == (chunk :> {P(9, 2), P(10, 2)}) @@ (live :> {P(8, 1)}) @@ (later :> {P(11, 3)})
MCMaxDeliveries == (chunk :> 2) @@ (live :> 2) @@ (later :> 1)
MCDeviceOf == (c1 :> dev) @@ (c2 :> dev)
MCSymmetry == Permutations({c1, c2})
=============================================================================
