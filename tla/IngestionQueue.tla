--------------------------- MODULE IngestionQueue ---------------------------
(***************************************************************************)
(* app/core/queue_manager.py: the bounded asyncio.PriorityQueue between    *)
(* the coroutines that receive sensor packets (WebSocket handlers, REST    *)
(* uploads) and the one queue_worker that fuses them.                      *)
(*                                                                         *)
(* asyncio switches tasks only at an await that really suspends, so one    *)
(* action is one stretch of code between two such awaits:                  *)
(*   - enqueue_live uses put_nowait and never suspends: one action;        *)
(*   - enqueue_backlog_chunk puts packets until its slice ends (it then    *)
(*     awaits sleep(0)) or the queue is full (it then waits in put()):     *)
(*     BacklogRun is one such stretch;                                     *)
(*   - get_next_item suspends only while the queue is empty.               *)
(***************************************************************************)
EXTENDS Integers, Sequences, FiniteSets

CONSTANTS
    Device,     \* device ids
    Packet,     \* the sensor packets clients may send
    LivePacket, \* bound: those of them they may also send live
    Producer,   \* coroutines that may be inside enqueue_backlog_chunk
    MaxSize,    \* capacity of the asyncio.PriorityQueue
    SliceSize   \* settings.BACKLOG_CHUNK_SIZE

ASSUME QueueAssumption ==
    /\ Packet \subseteq [device: Device, seq: Int, timestamp: Int]
    /\ IsFiniteSet(Packet)
    /\ LivePacket \subseteq Packet
    /\ MaxSize \in Nat \ {0}
    /\ SliceSize \in Nat \ {0}

VARIABLES
    queue,      \* the items in the heap
    unfinished, \* asyncio.Queue's count of items without a task_done()
    hand,       \* the item the worker holds, as a set of at most one item
    chunk,      \* chunk[p]: the sorted chunk p is enqueueing, <<>> if none
    done,       \* done[p]: enqueued_count, how much of chunk[p] is in already
    refused,    \* live packets enqueue_live() returned False for
    submitted   \* packets some client has already dumped as backlog

vars == <<queue, unfinished, hand, chunk, done, refused, submitted>>
-----------------------------------------------------------------------------
Live == 0
Backlog == 1

Item == [priority: {Live, Backlog}, packet: Packet]

AsLive(p) == [priority |-> Live, packet |-> p]
AsBacklog(p) == [priority |-> Backlog, packet |-> p]

\* [mutant] field(compare=False) on priority as well
PrecedesIgnoringPriority(i, j) ==
    \/ i.packet.timestamp < j.packet.timestamp
    \/ i.packet.timestamp = j.packet.timestamp /\ i.packet.seq < j.packet.seq

\* The order @dataclass(order=True) generates: priority, timestamp, seq_num;
\* device_id and data do not take part, so distinct items may tie.
Precedes(i, j) ==
    \/ i.priority < j.priority
    \/ /\ i.priority = j.priority
       /\ \/ i.packet.timestamp < j.packet.timestamp
          \/ /\ i.packet.timestamp = j.packet.timestamp
             /\ i.packet.seq < j.packet.seq

\* What get() may return: heapq leaves the order of ties open.
Foremost(q) == {i \in q : \A j \in q : ~Precedes(j, i)}

HasRoom == Cardinality(queue) < MaxSize

\* The key a chunk is sorted by before it is enqueued: (seq, timestamp).
ChunkPrecedes(p, q) ==
    \/ p.seq < q.seq
    \/ p.seq = q.seq /\ p.timestamp < q.timestamp

\* [mutant] the chunk enqueued as received
UnsortedChunks(S) ==
    {s \in [1..Cardinality(S) -> S] :
        \A k, l \in DOMAIN s : k < l => s[k] # s[l]}

\* The results sorted() may have on a chunk with the packets S.
SortedChunks(S) ==
    {s \in [1..Cardinality(S) -> S] :
        \A k, l \in DOMAIN s :
            k < l => s[k] # s[l] /\ ~ChunkPrecedes(s[l], s[k])}

\* [mutant] the slice counted from where the producer was woken
SliceEndFromHere(p) ==
    LET next == done[p] + SliceSize
    IN  IF next < Len(chunk[p]) THEN next ELSE Len(chunk[p])

\* Where the slice of BACKLOG_CHUNK_SIZE packets that p is in ends.
SliceEnd(p) ==
    LET next == (done[p] \div SliceSize + 1) * SliceSize
    IN  IF next < Len(chunk[p]) THEN next ELSE Len(chunk[p])

\* [mutant] two slots are kept free for live frames, however small the queue
RunEndKeepsSlots(p) ==
    LET full == done[p] + MaxSize - 2 - Cardinality(queue)
    IN  IF full < SliceEnd(p) THEN full ELSE SliceEnd(p)

\* How far p gets before it suspends: the end of its slice or a full queue.
RunEnd(p) ==
    LET full == done[p] + MaxSize - Cardinality(queue)
    IN  IF full < SliceEnd(p) THEN full ELSE SliceEnd(p)
-----------------------------------------------------------------------------
\* [mutant] a heap without a bound
EnqueueLiveUnbounded(p) ==
    /\ AsLive(p) \notin queue \cup hand
    /\ queue' = queue \cup {AsLive(p)}
    /\ unfinished' = unfinished + 1
    /\ UNCHANGED <<hand, chunk, done, refused>>

\* enqueue_live: put_nowait, and a full queue drops the frame.
EnqueueLive(p) ==
    /\ AsLive(p) \notin queue \cup hand
    /\ \/ /\ HasRoom
          /\ queue' = queue \cup {AsLive(p)}
          /\ unfinished' = unfinished + 1
          /\ UNCHANGED refused
       \/ /\ ~HasRoom
          /\ refused' = refused \cup {p}
          /\ UNCHANGED <<queue, unfinished>>
    /\ UNCHANGED <<hand, chunk, done>>

\* enqueue_backlog_chunk, up to the loop: the chunk is sorted.
StartBacklog(p, S) ==
    /\ chunk[p] = <<>>
    /\ S # {}
    /\ \E s \in SortedChunks(S) : chunk' = [chunk EXCEPT ![p] = s]
    /\ done' = [done EXCEPT ![p] = 0]
    /\ UNCHANGED <<queue, unfinished, hand, refused>>

\* [mutant] the packet that had to wait is not counted as enqueued
BacklogRunMiscounted(p) ==
    /\ RunEnd(p) > done[p]
    /\ queue' = queue \cup {AsBacklog(chunk[p][k]) : k \in done[p]+1 .. RunEnd(p)}
    /\ unfinished' = unfinished + (RunEnd(p) - done[p])
    /\ done' = [done EXCEPT ![p] = RunEnd(p) - 1]
    /\ UNCHANGED <<hand, chunk, refused>>

\* One uninterrupted stretch of the loop; with no room, put() waits. (put()
\* never raises QueueFull, so the handler that would break never runs.)
BacklogRun(p) ==
    /\ RunEnd(p) > done[p]
    /\ queue' = queue \cup {AsBacklog(chunk[p][k]) : k \in done[p]+1 .. RunEnd(p)}
    /\ unfinished' = unfinished + (RunEnd(p) - done[p])
    /\ done' = [done EXCEPT ![p] = RunEnd(p)]
    /\ UNCHANGED <<hand, chunk, refused>>

\* enqueue_backlog_chunk returns enqueued_count after its last sleep(0).
BacklogReturn(p) ==
    /\ chunk[p] # <<>>
    /\ done[p] = Len(chunk[p])
    /\ chunk' = [chunk EXCEPT ![p] = <<>>]
    /\ done' = [done EXCEPT ![p] = 0]
    /\ UNCHANGED <<queue, unfinished, hand, refused>>

\* get_next_item
GetNextItem ==
    /\ hand = {}
    /\ \E i \in Foremost(queue) :
          /\ queue' = queue \ {i}
          /\ hand' = {i}
    /\ UNCHANGED <<unfinished, chunk, done, refused>>

\* [mutant] task_done() on a path that fetched nothing
TaskDoneAlways ==
    /\ hand' = {}
    /\ unfinished' = unfinished - 1
    /\ UNCHANGED <<queue, chunk, done, refused>>

\* task_done, once the worker is through with the item
TaskDone ==
    /\ hand # {}
    /\ hand' = {}
    /\ unfinished' = unfinished - 1
    /\ UNCHANGED <<queue, chunk, done, refused>>

\* A restarted process constructs IngestionQueueManager anew: whatever was
\* queued, held or being enqueued is gone.
Reset ==
    /\ queue' = {}
    /\ unfinished' = 0
    /\ hand' = {}
    /\ chunk' = [p \in Producer |-> <<>>]
    /\ done' = [p \in Producer |-> 0]
    /\ UNCHANGED refused
-----------------------------------------------------------------------------
Init ==
    /\ queue = {}
    /\ unfinished = 0
    /\ hand = {}
    /\ chunk = [p \in Producer |-> <<>>]
    /\ done = [p \in Producer |-> 0]
    /\ refused = {}
    /\ submitted = {}

\* A client dumps a packet once; its live frames never end, so the model lets
\* a live packet come again once the earlier one has been worked off.
Dump(p, S) ==
    /\ S \cap submitted = {}
    /\ StartBacklog(p, S)
    /\ submitted' = submitted \cup S

Next ==
    \/ \E p \in LivePacket : EnqueueLive(p) /\ UNCHANGED submitted
    \/ \E p \in Producer, d \in Device :
          \E S \in SUBSET {x \in Packet : x.device = d} : Dump(p, S)
    \/ \E p \in Producer : BacklogRun(p) /\ UNCHANGED submitted
    \/ \E p \in Producer : BacklogReturn(p) /\ UNCHANGED submitted
    \/ GetNextItem /\ UNCHANGED submitted
    \/ TaskDone /\ UNCHANGED submitted
    \/ Reset /\ UNCHANGED submitted

Spec == Init /\ [][Next]_vars

\* The event loop runs the worker and every producer that can go on. A
\* producer waiting in put() is woken by each get() in turn, but a live frame
\* may take the slot first: strong fairness says that this does not go on
\* forever.
Fairness ==
    /\ WF_vars(GetNextItem /\ UNCHANGED submitted)
    /\ WF_vars(TaskDone /\ UNCHANGED submitted)
    /\ \A p \in Producer :
          /\ SF_vars(BacklogRun(p) /\ UNCHANGED submitted)
          /\ WF_vars(BacklogReturn(p) /\ UNCHANGED submitted)

FairSpec == Spec /\ Fairness
-----------------------------------------------------------------------------
\* The shape of the state.
TypeOK ==
    /\ queue \subseteq Item
    /\ unfinished \in Nat
    /\ hand \subseteq Item
    /\ chunk \in [Producer -> Seq(Packet)]
    /\ done \in [Producer -> Nat]
    /\ refused \subseteq Packet
    /\ submitted \subseteq Packet

\* The packets of its chunk p has not put into the queue yet.
Waiting(p) == {chunk[p][k] : k \in done[p]+1 .. Len(chunk[p])}

\* A dump enters the queue packet by packet, across suspensions and next to
\* other producers, and none of its packets enters twice: what still waits in
\* some chunk is in no other chunk, not queued and not in the worker's hand.
EachOnce ==
    /\ \A p \in Producer :
          /\ done[p] <= Len(chunk[p])
          /\ \A k, l \in 1 .. Len(chunk[p]) : k # l => chunk[p][k] # chunk[p][l]
          /\ \A k \in 1 .. Len(chunk[p]) : chunk[p][k] \in submitted
          /\ \A x \in Waiting(p) : AsBacklog(x) \notin queue \cup hand
          /\ \A q \in Producer \ {p} : Waiting(p) \cap Waiting(q) = {}
    /\ \A i \in queue \cup hand : i.priority = Backlog => i.packet \in submitted

\* asyncio.Queue's books: task_done() has been called for exactly the items
\* the worker is through with, on every path, so queue.join() could neither
\* return early nor hang, and the heap never outgrows maxsize although live
\* frames and several chunks compete for its last slots.
Accounted ==
    /\ Cardinality(hand) <= 1
    /\ unfinished = Cardinality(queue) + Cardinality(hand)
    /\ Cardinality(queue) <= MaxSize

\* A backlog item never reaches the worker while a live frame is waiting.
LiveFirst ==
    [][\A i \in hand' \ hand :
          i.priority = Backlog => \A j \in queue : j.priority = Backlog]_vars

\* As long as a device's clock never runs backwards (timestamps grow with
\* seq), its backlog reaches the worker in the order it was recorded: no
\* packet overtakes an earlier one of its device that is queued or is still
\* waiting, in the same chunk, for room in the queue.
ClockAgrees ==
    \A x, y \in Packet :
        x.device = y.device => (x.seq < y.seq <=> x.timestamp < y.timestamp)

BacklogInOrder ==
    [][\A i \in hand' \ hand :
          ClockAgrees /\ i.priority = Backlog =>
             /\ \A j \in queue :
                   j.priority = Backlog /\ j.packet.device = i.packet.device
                      => ~ChunkPrecedes(j.packet, i.packet)
             /\ \A p \in Producer : \A k \in 1 .. Len(chunk[p]) :
                   i.packet \in {chunk[p][l] : l \in 1 .. done[p]} /\ k > done[p]
                      => ~ChunkPrecedes(chunk[p][k], i.packet)]_vars

\* The event loop gets control back at the end of every slice of every dump:
\* no uninterrupted stretch goes past a multiple of BACKLOG_CHUNK_SIZE, where
\* the full queue interrupted the slice before included, so the next one
\* starts where the slice does and not where the producer was woken.
YieldsEverySlice ==
    [][\A p \in Producer : \A k \in done[p]+1 .. done'[p]-1 : k % SliceSize # 0]_vars

\* Once live frames stop queueing up, every dump in progress is taken in
\* completely and every backlog item reaches the worker: no producer hangs in
\* put() and nobody waits for a slot that is free.
BacklogDrains ==
    <>[](\A i \in queue : i.priority = Backlog) =>
        /\ \A p \in Producer : chunk[p] # <<>> ~> chunk[p] = <<>>
        /\ \A x \in Packet : AsBacklog(x) \in queue ~> AsBacklog(x) \notin queue

\* The class comment's promise: a live frame is turned away only when live
\* frames alone fill the queue, never because of backlog.
LiveNotStarvedByBacklog ==
    [][refused' # refused => \A i \in queue : i.priority = Live]_vars
=============================================================================
