------------------------------ MODULE TimeSync ------------------------------
(***************************************************************************)
(* The time synchronisation of app/core/time_sync.py: the client sends the *)
(* reading of its clock, the server answers with that and two readings of  *)
(* its own, and from these and the reading at the answer's arrival round   *)
(* trip and offset of the clocks are computed. Readings are integers in    *)
(* any unit; the offset is kept doubled, so that it is one, too.           *)
(***************************************************************************)
EXTENDS Integers, TLAPS

\* process_sync_request: what the answer holds. A request without the field
\* counts as sent when it was received; what a request has there, null too, is
\* echoed.
SyncAck(request, received, answered) ==
    [t_client_send |-> IF "t_client_send" \in DOMAIN request
                       THEN request.t_client_send ELSE received,
     t_server_recv |-> received,
     t_server_send |-> answered]

\* calculate_offset_and_rtt
Rtt(ack, t_client_recv) ==
    LET rtt == (t_client_recv - ack.t_client_send) - (ack.t_server_send - ack.t_server_recv)
    IN  IF rtt > 0 THEN rtt ELSE 0

TwiceOffset(ack, t_client_recv) ==
    (ack.t_server_recv - ack.t_client_send) + (ack.t_server_send - t_client_recv)
-----------------------------------------------------------------------------
\* Whatever the two delays of the network, the time the server takes and the
\* difference of the clocks: the round trip is the sum of the delays, and the
\* offset is off by at most half of it. Both clocks run at the same rate and
\* are not set during the exchange.
THEOREM OffsetWithinHalfRtt ==
    ASSUME NEW sent \in Int,       \* on the client's clock
           NEW difference \in Int, \* the server's clock minus the client's
           NEW there \in Nat, NEW busy \in Nat, NEW back \in Nat
    PROVE  LET received == sent + there + difference
               ack == SyncAck([t_client_send |-> sent], received, received + busy)
               arrived == sent + there + busy + back
               rtt == Rtt(ack, arrived)
               error == TwiceOffset(ack, arrived) - 2 * difference
           IN  rtt = there + back /\ error <= rtt /\ - error <= rtt
<1> DEFINE received == sent + there + difference
           ack == SyncAck([t_client_send |-> sent], received, received + busy)
           arrived == sent + there + busy + back
<1>1. /\ ack.t_client_send = sent
      /\ ack.t_server_recv = received
      /\ ack.t_server_send = received + busy
    BY DEF SyncAck
<1>2. Rtt(ack, arrived) = there + back
    BY <1>1 DEF Rtt
<1>3. TwiceOffset(ack, arrived) - 2 * difference = there - back
    BY <1>1 DEF TwiceOffset
<1> QED BY <1>2, <1>3

\* The answer to a request without the field (time_sync.py:19) counts the way
\* there as no time at all, and as sent by the server's clock: what is computed
\* is the way back less the difference of the clocks, cut off at 0.
THEOREM RttWithoutReading ==
    ASSUME NEW request, "t_client_send" \notin DOMAIN request, NEW received \in Int, NEW busy \in Nat,
           NEW difference \in Int, NEW back \in Nat
    PROVE  Rtt(SyncAck(request, received, received + busy), received + busy + back - difference)
              = IF back > difference THEN back - difference ELSE 0
<1> DEFINE ack == SyncAck(request, received, received + busy)
<1>1. /\ ack.t_client_send = received
      /\ ack.t_server_recv = received
      /\ ack.t_server_send = received + busy
    BY DEF SyncAck
<1> QED BY <1>1 DEF Rtt
=============================================================================
