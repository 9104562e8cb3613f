--------------------------- MODULE TrackingServer ---------------------------
(***************************************************************************)
(* The tracking pipeline of app/api/websocket.py: WebSocket handlers and   *)
(* REST uploads feed the ingestion queue, one queue_worker fuses each      *)
(* packet into the device's Kalman filter, pushes the position to the      *)
(* connected client, caches the filter and persists the point.             *)
(*                                                                         *)
(* All of it runs on one asyncio event loop, so one action is the code     *)
(* between two awaits that may suspend: cache and database round trips,    *)
(* sends, receives and the waits of the queue.                             *)
(*                                                                         *)
(* A filter is abstracted to what it was made of: the packets that have    *)
(* changed it, also those that process_sample() raised on, and whether     *)
(* covariance and step-detection window are those of that history          *)
(* ("exact") or the defaults of a new filter.                              *)
(***************************************************************************)
EXTENDS Integers, Sequences, FiniteSets

CONSTANTS
    Device, Packet, MaxSize, SliceSize, \* as in IngestionQueue
    Conn,       \* WebSocket connections, each opened at most once
    Upload,     \* POST /sensor-data requests that may run side by side
    Worker,     \* the queue_worker task
    DeviceOf,   \* DeviceOf[c]: the device_id of connection c's path
    Malformed,  \* packets that process_sample() raises on
    NoConn,     \* absent entry of active_connections
    NoState,    \* absent filter or cached state
    Env         \* what the environment of this instance may do

EnvBehaviour == {
    "overlap",  \* a device reconnects before its old handler has ended
    "busy",     \* a device reconnects while its earlier packets are in flight
    "backlog",  \* clients dump backlog, by WebSocket or REST
    "expire",   \* the cached state of an idle device outlives its TTL
    "evict",    \* the cache loses a state at any time
    "outage",   \* calls of Redis may fail and be answered by the memory store
    "dbfail",   \* database reads and writes may fail
    "crash" }   \* the process restarts

State == [fused: SUBSET Packet, exact: BOOLEAN]
Row == [packet: Packet, fused: SUBSET Packet]

ASSUME ServerAssumption ==
    /\ Packet \subseteq [device: Device, seq: Int, timestamp: Int]
    /\ IsFiniteSet(Packet)
    /\ MaxSize \in Nat \ {0}
    /\ SliceSize \in Nat \ {0}
    /\ DeviceOf \in [Conn -> Device]
    /\ Malformed \subseteq Packet
    /\ Worker \notin Conn \cup Upload
    /\ Conn \cap Upload = {}
    /\ NoConn \notin Conn
    /\ NoState \notin State
    /\ Env \subseteq EnvBehaviour

VARIABLES
    queue, unfinished, hand, chunk, done, refused, \* of IngestionQueue
    dumped,              \* packets clients have dumped as backlog
    lived,               \* packets clients have sent as live frames
    pc,                  \* where each handler and the worker is
    loc,                 \* the filter an agent holds in a local variable
    active_connections,  \* device -> connection, as in websocket.py
    filters,             \* device_kalman_filters
    cache,               \* the state under device:state:<id> in Redis
    memory,              \* that in the fallback store of CacheManager
    lost,                \* history: devices whose cached state was once lost
    persists,            \* _persist_point tasks, in the order of their lock
    db                   \* rows of device_trajectories

queueVars == <<queue, unfinished, hand, chunk, done, refused>>
stores == <<cache, memory, lost, persists, db>>
vars == <<queueVars, dumped, lived, pc, loc, active_connections, filters, stores>>

Q == INSTANCE IngestionQueue
        WITH Producer <- Conn \cup Upload, LivePacket <- Packet, submitted <- dumped
-----------------------------------------------------------------------------
Agent == Conn \cup {Worker}

NewFilter == [fused |-> {}, exact |-> TRUE]

HeldPacket == (CHOOSE i \in hand : TRUE).packet

\* The device an agent restores a filter for.
DeviceFor(a) == IF a = Worker THEN HeldPacket.device ELSE DeviceOf[a]

Restoring(a) == pc[a] \in {"reading", "querying", "restored"}

\* A WebSocket handler is between accept() and its end.
Handling(c) == Restoring(c) \/ pc[c] = "serving"

Sent == dumped \cup lived

RowsOf(d) == {r \in db : r.packet.device = d}

\* get_last_known_position: ORDER BY time DESC LIMIT 1, ties left open.
LastKnown(d) ==
    {r \in RowsOf(d) : \A s \in RowsOf(d) : s.packet.timestamp <= r.packet.timestamp}

\* get_live_device_state: Redis answers, or fails and the memory store does.
CacheAnswers(d) == {cache[d]} \cup (IF "outage" \in Env THEN {memory[d]} ELSE {})

\* set_live_device_state: Redis takes the state, or fails and the memory store
\* does; a call that timed out may have been executed.
SetCached(d, state) ==
    \/ cache' = [cache EXCEPT ![d] = state] /\ UNCHANGED memory
    \/ /\ "outage" \in Env
       /\ memory' = [memory EXCEPT ![d] = state]
       /\ \/ cache' = [cache EXCEPT ![d] = state]
          \/ UNCHANGED cache

\* GET /device/{d}/state: the packets behind the position that is returned;
\* the cached state first, then the last row, then none.
LatestState(d) ==
    LET uncached == IF RowsOf(d) = {} THEN {{}} ELSE {r.fused : r \in LastKnown(d)}
    IN  UNION {IF state = NoState THEN uncached ELSE {state.fused} : state \in CacheAnswers(d)}

\* Nothing of device d is queued, being fused, being enqueued or waiting for
\* the database.
Quiet(d) ==
    /\ \A i \in queue \cup hand : i.packet.device # d
    /\ \A p \in Conn \cup Upload : \A k \in 1 .. Len(chunk[p]) : chunk[p][k].device # d
    /\ \A k \in 1 .. Len(persists) : persists[k].packet.device # d

\* A client sends nothing for d while one of its connections is restored,
\* unless the instance lets devices reconnect in full flow.
MaySend(d) == "busy" \in Env \/ \A c \in Conn : DeviceOf[c] = d => ~Restoring(c)

\* What a device may dump: packets not sent before.
Dumpable(d) ==
    IF "backlog" \in Env
    THEN SUBSET {p \in Packet \ Sent : p.device = d}
    ELSE {}
-----------------------------------------------------------------------------
\* websocket_track_endpoint, accept() to the first await of the restore: the
\* connection is registered before it has a filter.
Accept(c) ==
    /\ pc[c] = "new"
    /\ \/ "overlap" \in Env
       \/ \A o \in Conn : DeviceOf[o] = DeviceOf[c] => ~Handling(o)
    /\ "busy" \in Env \/ Quiet(DeviceOf[c])
    /\ pc' = [pc EXCEPT ![c] = "reading"]
    /\ active_connections' = [active_connections EXCEPT ![DeviceOf[c]] = c]
    /\ UNCHANGED <<queueVars, dumped, lived, loc, filters, stores>>

\* [mutant] a cached state is overlooked (if cached.get("x"):)
ReadCacheFalsy(a) ==
    /\ pc[a] = "reading"
    /\ pc' = [pc EXCEPT ![a] = "querying"]
    /\ UNCHANGED <<queueVars, dumped, lived, loc, active_connections, filters, stores>>

\* restore_or_init_filter: the answer of the cache.
ReadCache(a) ==
    /\ pc[a] = "reading"
    /\ \E state \in CacheAnswers(DeviceFor(a)) :
          IF state # NoState
          THEN /\ loc' = [loc EXCEPT ![a] = state]
               /\ pc' = [pc EXCEPT ![a] = "restored"]
          ELSE /\ pc' = [pc EXCEPT ![a] = "querying"]
               /\ UNCHANGED loc
    /\ UNCHANGED <<queueVars, dumped, lived, active_connections, filters, stores>>

\* restore_or_init_filter: the answer of the database. The rows have no
\* covariance and no step window, so a filter restored from one is not exact.
ReadDb(a) ==
    /\ pc[a] = "querying"
    /\ \/ \E r \in LastKnown(DeviceFor(a)) :
             loc' = [loc EXCEPT ![a] = [fused |-> r.fused, exact |-> FALSE]]
       \/ /\ RowsOf(DeviceFor(a)) = {}
          /\ loc' = [loc EXCEPT ![a] = NewFilter]
    /\ pc' = [pc EXCEPT ![a] = "restored"]
    /\ UNCHANGED <<queueVars, dumped, lived, active_connections, filters, stores>>

\* The query raises. The handler ends outside its try block, so its entry in
\* active_connections stays; the worker drops the item it holds.
ReadDbFails(a) ==
    /\ "dbfail" \in Env
    /\ pc[a] = "querying"
    /\ pc' = [pc EXCEPT ![a] = IF a = Worker THEN "raised" ELSE "closed"]
    /\ UNCHANGED <<queueVars, dumped, lived, loc, active_connections, filters, stores>>

\* device_kalman_filters[device_id] = await ...: whatever is there by now is
\* replaced.
Install(c) ==
    /\ pc[c] = "restored"
    /\ filters' = [filters EXCEPT ![DeviceOf[c]] = loc[c]]
    /\ loc' = [loc EXCEPT ![c] = NoState]
    /\ pc' = [pc EXCEPT ![c] = "serving"]
    /\ UNCHANGED <<queueVars, dumped, lived, active_connections, stores>>

\* A handler that waits in receive_text().
Receiving(c) == pc[c] = "serving" /\ chunk[c] = <<>>

\* A live frame: newer than all the device has sent so far. The handler
\* ignores the result of enqueue_live.
ReceiveLive(c, p) ==
    /\ Receiving(c)
    /\ p.device = DeviceOf[c]
    /\ p \notin Sent
    /\ \A x \in Sent : x.device = p.device => x.seq < p.seq
    /\ MaySend(p.device)
    /\ Q!EnqueueLive(p)
    /\ lived' = lived \cup {p}
    /\ UNCHANGED <<dumped, pc, loc, active_connections, filters, stores>>

\* A backlog dump: the handler is inside enqueue_backlog_chunk until the
\* last packet is in.
ReceiveBacklog(c, S) ==
    /\ Receiving(c)
    /\ MaySend(DeviceOf[c])
    /\ Q!Dump(c, S)
    /\ UNCHANGED <<lived, pc, loc, active_connections, filters, stores>>

\* upload_batch_sensor_data
UploadBatch(u, d, S) ==
    /\ MaySend(d)
    /\ Q!Dump(u, S)
    /\ UNCHANGED <<lived, pc, loc, active_connections, filters, stores>>

EnqueueBacklog(p) ==
    /\ Q!BacklogRun(p) \/ Q!BacklogReturn(p)
    /\ UNCHANGED <<dumped, lived, pc, loc, active_connections, filters, stores>>

\* [mutant] the entry is left to the next handler to overwrite
DisconnectKeepsEntry(c) ==
    /\ Receiving(c)
    /\ pc' = [pc EXCEPT ![c] = "closed"]
    /\ UNCHANGED <<queueVars, dumped, lived, loc, active_connections, filters, stores>>

\* WebSocketDisconnect (or any exception) ends the loop; finally pops the
\* device's entry, whichever connection it names.
Disconnect(c) ==
    /\ Receiving(c)
    /\ pc' = [pc EXCEPT ![c] = "closed"]
    /\ active_connections' = [active_connections EXCEPT ![DeviceOf[c]] = NoConn]
    /\ UNCHANGED <<queueVars, dumped, lived, loc, filters, stores>>
-----------------------------------------------------------------------------
\* queue_worker from process_sample() to its next await. process_sample() has
\* changed the filter by the time it raises. The worker keeps the filter it
\* fused into (kf) while others may replace the device's entry.
Fuse(p, kf) ==
    LET fused == [kf EXCEPT !.fused = @ \cup {p}]
    IN  /\ filters' = [filters EXCEPT ![p.device] = fused]
        /\ \/ /\ p \in Malformed
              /\ pc' = [pc EXCEPT ![Worker] = "raised"]
              /\ loc' = [loc EXCEPT ![Worker] = NoState]
           \/ /\ p \notin Malformed
              /\ loc' = [loc EXCEPT ![Worker] = fused]
              /\ pc' = [pc EXCEPT ![Worker] =
                           IF active_connections[p.device] # NoConn
                           THEN "sending" ELSE "storing"]

\* get_next_item; with a filter at hand the packet is fused at once.
WorkerTake ==
    /\ pc[Worker] = "idle"
    /\ Q!GetNextItem
    /\ \E i \in hand' :
          IF filters[i.packet.device] # NoState
          THEN Fuse(i.packet, filters[i.packet.device])
          ELSE /\ pc' = [pc EXCEPT ![Worker] = "reading"]
               /\ UNCHANGED <<loc, filters>>
    /\ UNCHANGED <<dumped, lived, active_connections, stores>>

\* The worker has restored the filter itself: it installs and uses it.
WorkerInstall ==
    /\ pc[Worker] = "restored"
    /\ Fuse(HeldPacket, loc[Worker])
    /\ UNCHANGED <<queueVars, dumped, lived, active_connections, stores>>

\* send_text returned or raised; either way the worker goes on.
WorkerSent ==
    /\ pc[Worker] = "sending"
    /\ pc' = [pc EXCEPT ![Worker] = "storing"]
    /\ UNCHANGED <<queueVars, dumped, lived, loc, active_connections, filters, stores>>

\* What _persist_point is handed: the packet and the state it led to.
Point == [packet |-> HeldPacket, fused |-> loc[Worker].fused]

\* [mutants] of WorkerStore: the task gets the packet instead of the payload,
\* only live points are persisted, the cache is only filled when empty
StoreAs(point, persisted) ==
    /\ pc[Worker] = "storing"
    /\ persists' = IF persisted THEN Append(persists, point) ELSE persists
    /\ pc' = [pc EXCEPT ![Worker] = "idle"]
    /\ loc' = [loc EXCEPT ![Worker] = NoState]
    /\ Q!TaskDone
    /\ UNCHANGED <<dumped, lived, active_connections, filters, lost, db>>

WorkerStoreRawPacket ==
    StoreAs(HeldPacket, TRUE) /\ SetCached(HeldPacket.device, loc[Worker])

WorkerStoreLiveOnly ==
    /\ StoreAs(Point, \E i \in hand : i.priority = Q!Live)
    /\ SetCached(HeldPacket.device, loc[Worker])

WorkerStoreFirstOnly ==
    /\ StoreAs(Point, TRUE)
    /\ IF cache[HeldPacket.device] = NoState
       THEN SetCached(HeldPacket.device, loc[Worker])
       ELSE UNCHANGED <<cache, memory>>

\* The cache has the new state; the point's persistence is scheduled and the
\* item is done.
WorkerStore ==
    /\ pc[Worker] = "storing"
    /\ SetCached(HeldPacket.device, loc[Worker])
    /\ persists' = Append(persists, Point)
    /\ pc' = [pc EXCEPT ![Worker] = "idle"]
    /\ loc' = [loc EXCEPT ![Worker] = NoState]
    /\ Q!TaskDone
    /\ UNCHANGED <<dumped, lived, active_connections, filters, lost, db>>

\* [mutant] task_done() outside the finally clause
WorkerGivesUpQuietly ==
    /\ pc[Worker] = "raised"
    /\ pc' = [pc EXCEPT ![Worker] = "idle"]
    /\ hand' = {}
    /\ UNCHANGED <<queue, unfinished, chunk, done, refused>>
    /\ UNCHANGED <<dumped, lived, loc, active_connections, filters, stores>>

\* except Exception: the item is given up, task_done() is still called.
WorkerGivesUp ==
    /\ pc[Worker] = "raised"
    /\ pc' = [pc EXCEPT ![Worker] = "idle"]
    /\ Q!TaskDone
    /\ UNCHANGED <<dumped, lived, loc, active_connections, filters, stores>>

\* [mutant] a write that timed out after its commit is tried again
PersistPointAgain ==
    /\ persists # <<>>
    /\ db' = db \cup {Head(persists)}
    /\ persists' = Tail(persists) \/ UNCHANGED persists
    /\ UNCHANGED <<queueVars, dumped, lived, pc, loc, active_connections, filters, cache, memory, lost>>

\* _persist_point, one at a time under _db_write_lock; an error is logged and
\* the point is gone.
PersistPoint ==
    /\ persists # <<>>
    /\ persists' = Tail(persists)
    /\ \/ db' = db \cup {Head(persists)}
       \/ "dbfail" \in Env /\ UNCHANGED db
    /\ UNCHANGED <<queueVars, dumped, lived, pc, loc, active_connections, filters, cache, memory, lost>>
-----------------------------------------------------------------------------
\* The hour of REDIS_TTL_LIVE_SEC starts anew with every packet, so it ends
\* for a device of which nothing is in flight.
CacheLoses(d) ==
    /\ \/ /\ cache[d] # NoState
          /\ "evict" \in Env \/ ("expire" \in Env /\ Quiet(d))
          /\ cache' = [cache EXCEPT ![d] = NoState]
          /\ lost' = lost \cup {d}
          /\ UNCHANGED memory
       \/ /\ memory[d] # NoState
          /\ "expire" \in Env /\ Quiet(d)
          /\ memory' = [memory EXCEPT ![d] = NoState]
          /\ UNCHANGED <<cache, lost>>
    /\ UNCHANGED <<queueVars, dumped, lived, pc, loc, active_connections, filters, persists, db>>

\* The process ends (lifespan cancels the worker; a kill does no more) and
\* starts again: only cache and database survive.
Crash ==
    /\ "crash" \in Env
    /\ Q!Reset
    /\ pc' = [a \in Agent |-> IF a = Worker THEN "idle"
                              ELSE IF pc[a] = "new" THEN "new" ELSE "closed"]
    /\ loc' = [a \in Agent |-> NoState]
    /\ active_connections' = [d \in Device |-> NoConn]
    /\ filters' = [d \in Device |-> NoState]
    /\ memory' = [d \in Device |-> NoState]
    /\ persists' = <<>>
    /\ UNCHANGED <<dumped, lived, cache, lost, db>>
-----------------------------------------------------------------------------
Init ==
    /\ queue = {}
    /\ unfinished = 0
    /\ hand = {}
    /\ chunk = [p \in Conn \cup Upload |-> <<>>]
    /\ done = [p \in Conn \cup Upload |-> 0]
    /\ refused = {}
    /\ dumped = {}
    /\ lived = {}
    /\ pc = [a \in Agent |-> IF a = Worker THEN "idle" ELSE "new"]
    /\ loc = [a \in Agent |-> NoState]
    /\ active_connections = [d \in Device |-> NoConn]
    /\ filters = [d \in Device |-> NoState]
    /\ cache = [d \in Device |-> NoState]
    /\ memory = [d \in Device |-> NoState]
    /\ lost = {}
    /\ persists = <<>>
    /\ db = {}

Handler(c) ==
    \/ Accept(c)
    \/ Install(c)
    \/ \E p \in Packet : ReceiveLive(c, p)
    \/ \E S \in Dumpable(DeviceOf[c]) : ReceiveBacklog(c, S)
    \/ Disconnect(c)

Restore(a) == ReadCache(a) \/ ReadDb(a) \/ ReadDbFails(a)

QueueWorker ==
    \/ WorkerTake
    \/ WorkerInstall
    \/ WorkerSent
    \/ WorkerStore
    \/ WorkerGivesUp

Next ==
    \/ \E c \in Conn : Handler(c)
    \/ \E a \in Agent : Restore(a)
    \/ \E u \in Upload, d \in Device : \E S \in Dumpable(d) : UploadBatch(u, d, S)
    \/ \E p \in Conn \cup Upload : EnqueueBacklog(p)
    \/ QueueWorker
    \/ PersistPoint
    \/ \E d \in Device : CacheLoses(d)
    \/ Crash

Spec == Init /\ [][Next]_vars

\* The event loop runs every task that can go on, and cache, database and
\* sockets answer. Strong fairness for a producer waiting in put(), as in
\* IngestionQueue.
Fairness ==
    /\ WF_vars(QueueWorker)
    /\ WF_vars(PersistPoint)
    /\ \A a \in Agent : WF_vars(Restore(a))
    /\ \A c \in Conn : WF_vars(Install(c))
    /\ \A p \in Conn \cup Upload : SF_vars(EnqueueBacklog(p))

FairSpec == Spec /\ Fairness
-----------------------------------------------------------------------------
\* The shape of the state.
TypeOK ==
    /\ dumped \subseteq Packet
    /\ lived \subseteq Packet
    /\ pc \in [Agent -> {"new", "reading", "querying", "restored", "serving",
                         "closed", "idle", "sending", "storing", "raised"}]
    /\ loc \in [Agent -> State \cup {NoState}]
    /\ active_connections \in [Device -> Conn \cup {NoConn}]
    /\ filters \in [Device -> State \cup {NoState}]
    /\ cache \in [Device -> State \cup {NoState}]
    /\ memory \in [Device -> State \cup {NoState}]
    /\ lost \subseteq Device
    /\ persists \in Seq(Row)
    /\ db \subseteq Row

\* The server uses the queue as it is meant to be used, exceptions, failed
\* restores and restarts included: every get is followed by one task_done
\* before the next get, and no producer is entered twice.
UsesQueue == Q!Spec

\* An entry of active_connections names a connection of that device whose
\* handler still runs, so the worker never pushes into the void and /health
\* counts open connections.
RegistryIsLive ==
    \A d \in Device :
        active_connections[d] # NoConn =>
            /\ DeviceOf[active_connections[d]] = d
            /\ Handling(active_connections[d])

\* A connected client gets its positions: while some handler of a device is
\* serving, a connection of the device is registered for the push.
ServingIsRegistered ==
    \A c \in Conn : pc[c] = "serving" => active_connections[DeviceOf[c]] # NoConn

\* Every packet a client has sent is somewhere: waiting, queued, at the
\* worker, refused for lack of room, on its way to the database or in it.
NothingLost ==
    \A p \in Sent :
        \/ \E q \in Conn \cup Upload : \E k \in done[q]+1 .. Len(chunk[q]) : chunk[q][k] = p
        \/ \E i \in queue \cup hand : i.packet = p
        \/ p \in refused
        \/ \E k \in 1 .. Len(persists) : persists[k].packet = p
        \/ \E r \in db : r.packet = p

\* However packets, restores and restarts interleave, what has been written
\* for a device is consistent: a packet has at most one row, written or
\* pending, and the row's state contains it.
OneRowPerPacket ==
    LET pending == {persists[k] : k \in 1 .. Len(persists)}
    IN  /\ \A r \in db \cup pending : r.packet \in r.fused
        /\ \A r, s \in db \cup pending : r.packet = s.packet => r = s
        /\ \A k, l \in 1 .. Len(persists) : k # l => persists[k] # persists[l]
        /\ \A r \in db : r \notin pending

\* The three copies of a device's state are ordered unless the cache has once
\* lost its own: what is or will be in the database is part of the cached
\* state, and that of the live filter.
CopiesOrdered ==
    \A d \in Device \ lost :
        /\ \A k \in 1 .. Len(persists) :
              persists[k].packet.device = d /\ cache[d] # NoState
                 => persists[k].fused \subseteq cache[d].fused
        /\ \A r \in RowsOf(d) :
              cache[d] # NoState => r.fused \subseteq cache[d].fused
        /\ cache[d] # NoState /\ filters[d] # NoState
              => cache[d].fused \subseteq filters[d].fused

\* While the process runs, the filter of a device whose state was never lost
\* from the cache keeps every packet that was processed without an error; in
\* particular a reconnect does not roll it back. What a packet did to the
\* filter that raised is not cached and may go.
FilterNeverRollsBack ==
    [][\A d \in Device \ lost' :
          filters[d] # NoState /\ filters'[d] # NoState
             => filters[d].fused \ Malformed \subseteq filters'[d].fused]_vars

\* Nor does the position a client asks for go back to one made of fewer
\* packets, restarts included (rest_routes.py:123).
AnswersNeverRollBack ==
    [][\A d \in Device \ lost' :
          \A f \in LatestState(d) : \A g \in LatestState(d)' : f \subseteq g]_vars

NothingRollsBack == FilterNeverRollsBack /\ AnswersNeverRollBack

\* What handler or worker have read from the cache, and install one await
\* later, is still what the cache holds, unless that is gone by then; what
\* they made of a row or from nothing they install only where nothing is
\* cached (websocket.py:82, :134), also after expiry and eviction.
RestoresCurrent ==
    \A a \in Agent :
        pc[a] = "restored" => cache[DeviceFor(a)] \in {loc[a], NoState}

\* A device's packets are fused in the order of their sequence numbers.
FusedChronologically ==
    [][\A d \in Device :
          filters[d] # NoState /\ filters'[d] # NoState =>
             \A p \in filters'[d].fused \ filters[d].fused :
                \A x \in filters[d].fused : x.seq < p.seq]_vars

\* Every packet that was not refused ends up in the database.
EventuallyStored ==
    \A p \in Packet :
        p \in Sent ~> p \in refused \/ \E r \in db : r.packet = p
=============================================================================
