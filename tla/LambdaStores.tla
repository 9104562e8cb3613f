---------------------------- MODULE LambdaStores ----------------------------
(***************************************************************************)
(* The DynamoDB access layer of the serverless migration, lambdas/common:  *)
(* the STATE item and the trajectory items of table DeviceTelemetry        *)
(* (state_store.py, trajectory_store.py) and table Connections             *)
(* (connections_store.py).                                                 *)
(*                                                                         *)
(* The handlers that will call it are stubs so far. Their place is taken   *)
(* by jobs: a live packet or a backlog chunk whose invocation reads the    *)
(* state, fuses, puts the state with require_newer_than and saves the      *)
(* points. An invocation may die at any point and the job be delivered     *)
(* again. Each write is atomic and its condition is evaluated on what is   *)
(* stored, but reads are DynamoDB's default, eventually consistent ones:   *)
(* get_item may return an item that has been replaced since, and the index *)
(* of table Connections follows the table late.                            *)
(***************************************************************************)
EXTENDS Integers, Sequences, FiniteSets

CONSTANTS
    Device,
    Packet,       \* [device, seq, timestamp]
    Job,          \* live packets and backlog chunks to be processed
    Chunk,        \* Chunk[j]: the packets of job j
    MaxDeliveries, \* bound: MaxDeliveries[j] invocations of job j
    Conn,         \* API Gateway connection ids
    DeviceOf,     \* the device of a connection
    Page,         \* items in one page (1 MB) of a query's answer
    Mode,         \* modes that POST /device/{id}/mode sets
    None          \* attribute or item not there

Filter == [fused: SUBSET Packet, last_timestamp: Nat]
Item == [kf: Filter \cup {None}, pending_mode: Mode \cup {None}]

ASSUME StoresAssumption ==
    /\ Packet \subseteq [device: Device, seq: Nat, timestamp: Nat \ {0}]
    /\ IsFiniteSet(Packet)
    /\ Chunk \in [Job -> (SUBSET Packet) \ {{}}]
    /\ \A j \in Job : \A p, q \in Chunk[j] : p.device = q.device
    /\ \A j \in Job : \E p \in Chunk[j] : \A q \in Chunk[j] : q.seq <= p.seq
    /\ MaxDeliveries \in [Job -> Nat]
    /\ DeviceOf \in [Conn -> Device]
    /\ Page \in Nat \ {0}
    /\ None \notin Filter \cup Item \cup Mode \cup Conn \cup Nat

VARIABLES
    state,        \* per device: its STATE item
    versions,     \* per device: what its STATE item was and is, modes aside
    points,       \* the TRAJ items, by their key
    connections,  \* per connection id: connected_at of its item
    index,        \* the same, as device_id-index shows it
    pc, seen,     \* per job: where its invocation is, and the filter it read
    stale,        \* jobs whose read is not, or no longer, what is stored
    deliveries,   \* per job: invocations so far
    accepted,     \* per job: puts that succeeded
    raced,        \* devices with a successful put on a stale read
    client,       \* per connection: is the client there
    opened        \* connections in the order of their $connect

stateVars == <<state, versions, pc, seen, stale, deliveries, accepted, raced>>
connVars == <<connections, index, client, opened>>
vars == <<stateVars, points, connVars>>

DeviceOfJob(j) == (CHOOSE p \in Chunk[j] : TRUE).device

\* The timestamp of the last packet of a job, by sequence number.
LastTime(j) == (CHOOSE p \in Chunk[j] : \A q \in Chunk[j] : q.seq <= p.seq).timestamp
-----------------------------------------------------------------------------
\* str(seq)
Digits[n \in Nat] == IF n < 10 THEN <<n>> ELSE Append(Digits[n \div 10], n % 10)

\* Strings compare character by character.
StringLess(s, t) ==
    \/ Len(s) < Len(t) /\ \A k \in 1 .. Len(s) : s[k] = t[k]
    \/ \E k \in 1 .. Len(s) :
          /\ k <= Len(t)
          /\ s[k] < t[k]
          /\ \A i \in 1 .. k - 1 : s[i] = t[i]

\* [mutant] TRAJ#{seq}#{timestamp}
SeqSortKey(p) == [device |-> p.device, time |-> 0, seq |-> Digits[p.seq]]

\* _traj_sort_key. ISO timestamps of one time zone compare like the times
\* ("+00:00" sorts before a fraction); the number behind them is not padded.
TrajSortKey(p) == [device |-> p.device, time |-> p.timestamp, seq |-> Digits[p.seq]]

KeyLess(k, l) == k.time < l.time \/ (k.time = l.time /\ StringLess(k.seq, l.seq))

PointLess(x, y) == KeyLess(x.key, y.key)

\* The items of one partition in the order of their sort keys.
Sorted(items) ==
    CHOOSE s \in [1 .. Cardinality(items) -> items] :
        \A k, l \in 1 .. Cardinality(items) : k < l => PointLess(s[k], s[l])

\* _pk(d) and the prefix TRAJ
PointsOf(d) == {x \in points : x.key.device = d}

\* get_trajectory_history: one forward query with a limit, whose answer ends
\* with its page; LastEvaluatedKey is not followed.
TrajectoryHistory(d, limit) ==
    LET sorted == Sorted(PointsOf(d))
        length == CHOOSE n \in {Len(sorted), limit, Page} :
                     n <= Len(sorted) /\ n <= limit /\ n <= Page
    IN  SubSeq(sorted, 1, length)

\* get_last_known_position: backward query, one item
LastKnownPosition(d) ==
    {x \in PointsOf(d) : \A y \in PointsOf(d) : ~PointLess(x, y)}
-----------------------------------------------------------------------------
\* The filter in an item, None if there is none.
FilterOf(item) == IF item = None THEN None ELSE item.kf

\* A version of the STATE item for from_state_dict, which ignores the mode.
Version(item) == IF item = None THEN None ELSE [item EXCEPT !.pending_mode = None]

\* The STATE item of d becomes item; a read may return any of its versions.
Store(d, item) ==
    /\ state' = [state EXCEPT ![d] = item]
    /\ versions' = [versions EXCEPT ![d] = @ \cup {Version(item)}]

\* get_device_state without ConsistentRead, and from_state_dict on what it
\* returns: an item without x and P makes it raise, and the invocation fails.
GetDeviceState(j) ==
    /\ pc[j] = "idle"
    /\ deliveries[j] < MaxDeliveries[j]
    /\ deliveries' = [deliveries EXCEPT ![j] = @ + 1]
    /\ \E item \in versions[DeviceOfJob(j)] :
          IF item # None /\ item.kf = None
          THEN UNCHANGED <<pc, seen, stale>>
          ELSE /\ seen' = [seen EXCEPT ![j] = FilterOf(item)]
               /\ pc' = [pc EXCEPT ![j] = "read"]
               /\ stale' = IF FilterOf(item) = FilterOf(state[DeviceOfJob(j)])
                           THEN stale \ {j} ELSE stale \cup {j}
    /\ UNCHANGED <<state, versions, accepted, raced, points, connVars>>

\* [mutant] process_sample leaves last_timestamp alone
ProcessedUntimed(j) ==
    [fused |-> Chunk[j] \cup (IF seen[j] = None THEN {} ELSE seen[j].fused),
     last_timestamp |-> IF seen[j] = None THEN None ELSE seen[j].last_timestamp]

\* The filter after the job's packets, sorted by seq.
Processed(j) ==
    [fused |-> Chunk[j] \cup (IF seen[j] = None THEN {} ELSE seen[j].fused),
     last_timestamp |-> LastTime(j)]

\* [mutant] <= instead of <
NotOlder(item, ts) == item = None \/ item.kf = None \/ item.kf.last_timestamp <= ts

\* [mutant] put_item without ConditionExpression
Unconditional(item, ts) == TRUE

\* The ConditionExpression of put_device_state.
Newer(item, ts) == item = None \/ item.kf = None \/ item.kf.last_timestamp < ts

\* put_device_state replaces the whole item: a pending_mode goes with it.
PutDeviceState(j) ==
    LET d == DeviceOfJob(j)
        kf == Processed(j)
    IN  /\ pc[j] = "read"
        /\ IF Newer(state[d], kf.last_timestamp)
           THEN /\ Store(d, [kf |-> kf, pending_mode |-> None])
                /\ accepted' = [accepted EXCEPT ![j] = @ + 1]
                /\ raced' = IF j \in stale THEN raced \cup {d} ELSE raced
                /\ stale' = stale \cup {i \in Job : DeviceOfJob(i) = d}
                /\ pc' = [pc EXCEPT ![j] = "put"]
           ELSE /\ pc' = [pc EXCEPT ![j] = "idle"]
                /\ UNCHANGED <<state, versions, accepted, raced, stale>>
        /\ seen' = [seen EXCEPT ![j] = None]
        /\ UNCHANGED <<deliveries, points, connVars>>

\* save_trajectory_point or save_trajectory_batch: each put_item replaces the
\* item with the same key, whatever the order of the requests.
SavePoints(j) ==
    /\ pc[j] = "put"
    /\ points' = {x \in points : \A p \in Chunk[j] : x.key # TrajSortKey(p)}
                    \cup {[key |-> TrajSortKey(p), packet |-> p] : p \in Chunk[j]}
    /\ pc' = [pc EXCEPT ![j] = "idle"]
    /\ UNCHANGED <<state, versions, seen, stale, deliveries, accepted, raced, connVars>>

\* The invocation times out or its container dies.
Dies(j) ==
    /\ pc[j] # "idle"
    /\ pc' = [pc EXCEPT ![j] = "idle"]
    /\ seen' = [seen EXCEPT ![j] = None]
    /\ UNCHANGED <<state, versions, stale, deliveries, accepted, raced, points, connVars>>

\* [mutant] put_item where update_item belongs
SetPendingModeByPut(d, m) ==
    /\ Store(d, [kf |-> None, pending_mode |-> m])
    /\ UNCHANGED <<pc, seen, stale, deliveries, accepted, raced, points, connVars>>

\* update_item creates the item when there is none.
UpdatePendingMode(d, m) ==
    /\ Store(d, [kf |-> FilterOf(state[d]), pending_mode |-> m])
    /\ UNCHANGED <<pc, seen, stale, deliveries, accepted, raced, points, connVars>>

\* set_pending_mode
SetPendingMode(d, m) == UpdatePendingMode(d, m)

\* consume_pending_mode: REMOVE creates the item as well.
ConsumePendingMode(d) == UpdatePendingMode(d, None)
-----------------------------------------------------------------------------
\* register_connection, from $connect; clocks tell the connects apart.
RegisterConnection(c) ==
    /\ client[c] = "new"
    /\ client' = [client EXCEPT ![c] = "open"]
    /\ opened' = Append(opened, c)
    /\ connections' = [connections EXCEPT ![c] = Len(opened')]
    /\ UNCHANGED <<index, stateVars, points>>

Leave(c) ==
    /\ client[c] = "open"
    /\ client' = [client EXCEPT ![c] = "gone"]
    /\ UNCHANGED <<connections, index, opened, stateVars, points>>

\* [mutant] the entry of the device is removed, as websocket.py does
UnregisterDevice(c) ==
    /\ client[c] = "gone"
    /\ connections' = [b \in Conn |-> IF DeviceOf[b] = DeviceOf[c] THEN None
                                      ELSE connections[b]]
    /\ client' = [client EXCEPT ![c] = "closed"]
    /\ UNCHANGED <<index, opened, stateVars, points>>

\* unregister_connection, from $disconnect: late, or never
UnregisterConnection(c) ==
    /\ client[c] = "gone"
    /\ connections' = [connections EXCEPT ![c] = None]
    /\ client' = [client EXCEPT ![c] = "closed"]
    /\ UNCHANGED <<index, opened, stateVars, points>>

\* device_id-index takes over what table Connections has for c: late, and
\* the connections in any order.
IndexCatchesUp(c) ==
    /\ index[c] # connections[c]
    /\ index' = [index EXCEPT ![c] = connections[c]]
    /\ UNCHANGED <<connections, client, opened, stateVars, points>>

\* get_connection_for_device: backward query of the index, one item
ConnectionForDevice(d) ==
    {c \in Conn : /\ DeviceOf[c] = d
                  /\ index[c] # None
                  /\ \A b \in Conn : DeviceOf[b] = d /\ index[b] # None
                                        => index[b] <= index[c]}
-----------------------------------------------------------------------------
Init ==
    /\ state = [d \in Device |-> None]
    /\ versions = [d \in Device |-> {None}]
    /\ points = {}
    /\ connections = [c \in Conn |-> None]
    /\ index = [c \in Conn |-> None]
    /\ pc = [j \in Job |-> "idle"]
    /\ seen = [j \in Job |-> None]
    /\ stale = {}
    /\ deliveries = [j \in Job |-> 0]
    /\ accepted = [j \in Job |-> 0]
    /\ raced = {}
    /\ client = [c \in Conn |-> "new"]
    /\ opened = <<>>

Next ==
    \/ \E j \in Job : GetDeviceState(j)
    \/ \E j \in Job : PutDeviceState(j)
    \/ \E j \in Job : SavePoints(j)
    \/ \E j \in Job : Dies(j)
    \/ \E d \in Device, m \in Mode : SetPendingMode(d, m)
    \/ \E d \in Device : ConsumePendingMode(d)
    \/ \E c \in Conn : RegisterConnection(c)
    \/ \E c \in Conn : Leave(c)
    \/ \E c \in Conn : UnregisterConnection(c)
    \/ \E c \in Conn : IndexCatchesUp(c)

Spec == Init /\ [][Next]_vars
-----------------------------------------------------------------------------
Point == [key: {TrajSortKey(p) : p \in Packet}, packet: Packet]

\* The shape of the state.
TypeOK ==
    /\ state \in [Device -> Item \cup {None}]
    /\ versions \in [Device -> SUBSET (Item \cup {None})]
    /\ points \subseteq Point
    /\ connections \in [Conn -> Nat \cup {None}]
    /\ index \in [Conn -> Nat \cup {None}]
    /\ pc \in [Job -> {"idle", "read", "put"}]
    /\ seen \in [Job -> Filter \cup {None}]
    /\ stale \subseteq Job
    /\ deliveries \in [Job -> Nat]
    /\ \A j \in Job : deliveries[j] <= MaxDeliveries[j]
    /\ accepted \in [Job -> Nat]
    /\ raced \subseteq Device
    /\ client \in [Conn -> {"new", "open", "gone", "closed"}]
    /\ opened \in Seq(Conn)

\* A job that is delivered again is not fused again: once its put has
\* succeeded, every later one is rejected, and no older job gets in.
FusedOnce == \A j \in Job : accepted[j] <= 1

\* An accepted job stays in the filter unless the put of an invocation that
\* had not read it, because the read lagged or the job came in between,
\* overwrites it: the condition lets that put through when it is newer. Mode
\* switches, deaths and redeliveries never take an accepted job away.
AcceptedStays ==
    \A j \in Job :
        accepted[j] > 0 /\ DeviceOfJob(j) \notin raced =>
            /\ state[DeviceOfJob(j)] # None
            /\ state[DeviceOfJob(j)].kf # None
            /\ Chunk[j] \subseteq state[DeviceOfJob(j)].kf.fused

\* The stored filter of a device never goes back in time.
StateMovesForward ==
    [][\A d \in Device :
          state[d] # None /\ state[d].kf # None =>
             /\ state'[d] # None
             /\ state'[d].kf # None
             /\ state[d].kf.last_timestamp <= state'[d].kf.last_timestamp]_vars

\* Once the index has caught up with the newest connection of a device, a push
\* goes to it as long as it is open: however late, or lost, the $disconnect of older ones
\* is, and whatever the index still shows of them.
PushReachesNewest ==
    \A k \in 1 .. Len(opened) :
        /\ client[opened[k]] = "open"
        /\ index[opened[k]] = connections[opened[k]]
        /\ \A l \in k + 1 .. Len(opened) : DeviceOf[opened[l]] # DeviceOf[opened[k]]
        => ConnectionForDevice(DeviceOf[opened[k]]) = {opened[k]}

\* The history of a device is chronological, and ends where its last known
\* position is when one page of the query takes it all.
HistoryChronological ==
    \A d \in Device :
        LET history == TrajectoryHistory(d, Cardinality(Packet))
        IN  /\ \A k \in 1 .. Len(history) - 1 :
                  history[k].packet.timestamp <= history[k+1].packet.timestamp
            /\ history # <<>> /\ Cardinality(PointsOf(d)) <= Page =>
                  \A x \in LastKnownPosition(d) :
                     x.packet.timestamp = history[Len(history)].packet.timestamp

\* Points with one timestamp are ordered by their sequence number.
HistoryInSequence ==
    \A d \in Device :
        LET history == TrajectoryHistory(d, Cardinality(Packet))
        IN  \A k \in 1 .. Len(history) - 1 :
               history[k].packet.timestamp = history[k+1].packet.timestamp
                  => history[k].packet.seq < history[k+1].packet.seq

\* What get_device_state returns is None or a state that from_state_dict takes.
StateIsCompatible ==
    \A d \in Device : state[d] # None => state[d].kf # None

\* A mode that is set stays pending until it is consumed or set again.
PendingModeKept ==
    [][\A j \in Job :
          PutDeviceState(j) =>
             \A d \in Device :
                state[d] # None /\ state[d].pending_mode # None
                   => state'[d].pending_mode = state[d].pending_mode]_vars
=============================================================================
