---------------------------- MODULE KalmanFilter ----------------------------
(***************************************************************************)
(* The motion logic of app/fusion/kalman_filter.py: the REST/MOVING        *)
(* decision, step counting, velocity and position of one device's filter,  *)
(* with its export to the cache and its row by the worker, the restores of *)
(* app/api/websocket.py and the mode switch of app/api/rest_routes.py.     *)
(*                                                                         *)
(* Units: 1 ms of device time; 0.1 m/s2 for the deviation of the           *)
(* acceleration magnitude from 1 g. Attitude, heading and covariance are   *)
(* left out: none of the decisions below reads them. Velocity is zero,     *)
(* that of a walk, or what is left of it; position is the time spent       *)
(* moving at such a velocity.                                              *)
(***************************************************************************)
EXTENDS Integers, Sequences

CONSTANTS
    Packet,      \* what devices send
    Window,      \* maxlen of _accel_history
    MinWindow,   \* samples the variance needs
    MaxSamples,  \* bound: packets processed
    Now,         \* the server's clock, for a row whose timestamp is 0
    None         \* last_timestamp of a new filter; nothing cached, no item

S == INSTANCE SequencesExt

Mode == {"stationary", "moving", "adaptive"}

Velocity == {"zero", "walk", "coast"}

Row == [
    timestamp: Nat,
    movement_state: {"REST", "MOVING"},
    step_count: Nat,
    v: Velocity,
    x: Nat]

\* A filter.
Filter == [
    last_timestamp: Nat \cup {None},
    movement_state: {"REST", "MOVING"},
    step_count: Nat,
    accel_history: Seq(Int),
    last_step_time: Nat,
    v: Velocity,
    x: Nat]

\* What to_state_dict makes of it.
StateDict == [
    x: Nat \X Velocity,
    last_timestamp: Nat \cup {None},
    movement_state: {"REST", "MOVING"},
    step_count: Nat,
    accel_history: Seq(Int),
    last_step_time: Nat]

ASSUME KalmanAssumption ==
    /\ Packet \subseteq [timestamp: Nat, deviation: Int, turning: BOOLEAN, mode: Mode]
    /\ Window \in Nat \ {0}
    /\ MinWindow \in Nat \ {0}
    /\ MinWindow <= Window
    /\ MaxSamples \in Nat
    /\ Now \in Nat
    /\ None \notin Nat \cup Row \cup StateDict

VARIABLES
    filter,   \* the device's entry of device_kalman_filters
    payload,  \* payload_out of the packet the worker has fused and not yet exported
    cached,   \* the state the worker last wrote to the cache
    rows,     \* the rows of the device with the greatest time
    samples,  \* packets processed so far
    twin,     \* a filter that got the same packets and switches and was never restored
    unsaved,  \* in what the filter differs from the cached state
    lost,     \* in what restores have made the filter differ from its twin
    steps,    \* device times of all steps counted
    first,    \* timestamp of the first packet
    inorder,  \* timestamps have only grown so far
    early,    \* packets less than 10 ms after the one before
    still     \* adaptive packets at rest since the last one that was not

vars == <<filter, payload, cached, rows, samples, twin, unsaved, lost, steps,
          first, inorder, early, still>>

\* What a restore may take away: a packet, a mode switch, or the window and
\* the time of the last step, which rows do not have.
Loss == {"packet", "switch", "window"}

NewFilter == [
    last_timestamp |-> None,
    movement_state |-> "REST",
    step_count |-> 0,
    accel_history |-> <<>>,
    last_step_time |-> 0,
    v |-> "zero",
    x |-> 0]
-----------------------------------------------------------------------------
\* [mutant] last_timestamp is set once and never moved on
DtFromFirst(f, ts) ==
    IF first = None THEN 100
    ELSE LET dt == ts - first
         IN  IF dt < 10 THEN 10 ELSE IF dt > 1000 THEN 1000 ELSE dt

\* dt of process_sample: 0.1 s without a last_timestamp (0 counts as none),
\* else the time since, clamped to 0.01 .. 1 s.
Dt(f, ts) ==
    IF f.last_timestamp \in {None, 0} THEN 100
    ELSE LET dt == ts - f.last_timestamp
         IN  IF dt < 10 THEN 10 ELSE IF dt > 1000 THEN 1000 ELSE dt

\* [mutant] a deque without maxlen
SlideUnbounded(history, d) == Append(history, d)

\* deque(maxlen=Window).append
Slide(history, d) ==
    IF Len(history) < Window THEN Append(history, d) ELSE Append(Tail(history), d)

\* np.var(history) > 0.15, multiplied out.
Varied(history) ==
    LET n == Len(history)
        sum == S!FoldSeq(LAMBDA d, acc : acc + d, 0, history)
        squares == S!FoldSeq(LAMBDA d, acc : acc + d * d, 0, history)
    IN  n >= MinWindow /\ n * squares - sum * sum > 15 * n * n

\* abs(accel_mag - GRAVITY) > 0.45
Shaken(d) == d > 4 \/ -d > 4

IsMoving(p, history) ==
    \/ p.mode = "moving"
    \/ p.mode = "adaptive" /\ (Varied(history) \/ Shaken(p.deviation) \/ p.turning)

\* [mutant] the debounce applies to cadence steps only
PeakUndebounced(f, p) == p.deviation > 3

\* is_step_peak
Peak(f, p) == p.deviation > 3 /\ p.timestamp - f.last_step_time > 350

\* is_step_peak or cadence_step
Steps(f, p) ==
    Peak(f, p) \/ (p.mode = "moving" /\ p.timestamp - f.last_step_time >= 550)

\* predict, the branch of a moving device: a walk, or coasting with decay.
Move(f, p, dt) ==
    LET walking == Peak(f, p) \/ p.mode = "moving"
        v == IF walking THEN "walk" ELSE IF f.v = "zero" THEN "zero" ELSE "coast"
    IN  [f EXCEPT
            !.movement_state = "MOVING",
            !.step_count = IF Steps(f, p) THEN @ + 1 ELSE @,
            !.last_step_time = IF Steps(f, p) THEN p.timestamp ELSE @,
            !.v = v,
            !.x = IF v = "zero" THEN @ ELSE @ + dt]

\* predict, the branch of a device at rest: velocity locked, position kept.
Rest(f) == [f EXCEPT !.movement_state = "REST", !.v = "zero"]

\* process_sample on filter f.
Processed(f, p) ==
    LET history == Slide(f.accel_history, p.deviation)
        dt == Dt(f, p.timestamp)
        g == [f EXCEPT !.last_timestamp = p.timestamp, !.accel_history = history]
    IN  IF IsMoving(p, history) THEN Move(g, p, dt) ELSE Rest(g)
-----------------------------------------------------------------------------
\* [mutant] as it was before accel_history and last_step_time were added
ToStateDictWithoutWindow(f) == [
    x |-> <<f.x, f.v>>,
    last_timestamp |-> f.last_timestamp,
    movement_state |-> f.movement_state,
    step_count |-> f.step_count,
    accel_history |-> <<>>,
    last_step_time |-> 0]

\* to_state_dict: x is one vector of position and velocity
ToStateDict(f) == [
    x |-> <<f.x, f.v>>,
    last_timestamp |-> f.last_timestamp,
    movement_state |-> f.movement_state,
    step_count |-> f.step_count,
    accel_history |-> f.accel_history,
    last_step_time |-> f.last_step_time]

\* from_state_dict: the deque takes the last Window entries
FromStateDict(s) ==
    LET n == Len(s.accel_history)
    IN  [last_timestamp |-> s.last_timestamp,
         movement_state |-> s.movement_state,
         step_count |-> s.step_count,
         accel_history |-> SubSeq(s.accel_history, IF n > Window THEN n - Window + 1 ELSE 1, n),
         last_step_time |-> s.last_step_time,
         v |-> s.x[2],
         x |-> s.x[1]]

\* payload_out rounds to 4 digits, which takes the last of a coasting velocity.
Rounded(v) == IF v = "coast" THEN {"coast", "zero"} ELSE {v}

\* What a row keeps of a filter, with velocity v. A timestamp of 0 is stored
\* as the present time.
RowOf(f, v) == [
    timestamp |-> IF f.last_timestamp = 0 THEN Now ELSE f.last_timestamp,
    movement_state |-> f.movement_state,
    step_count |-> f.step_count,
    v |-> v,
    x |-> f.x]

\* order_by(desc(time)).limit(1) may return any row of the greatest time.
Latest(R) == {r \in R : \A q \in R : q.timestamp <= r.timestamp}

\* restore_or_init_filter, from the row: the window is empty again
FromRow(r) == [
    last_timestamp |-> r.timestamp,
    movement_state |-> r.movement_state,
    step_count |-> r.step_count,
    accel_history |-> <<>>,
    last_step_time |-> 0,
    v |-> r.v,
    x |-> r.x]
-----------------------------------------------------------------------------
\* The worker's process_sample(p), up to the await of send_text; if it raises
\* (a magnetometer reading of None), the filter is changed all the same, and
\* nothing is exported.
ProcessSample(p, raises) ==
    /\ payload = None
    /\ samples < MaxSamples
    /\ samples' = samples + 1
    /\ filter' = Processed(filter, p)
    /\ twin' = Processed(twin, p)
    /\ \/ raises /\ payload' = None
       \/ ~raises /\ \E v \in Rounded(filter'.v) : payload' = RowOf(filter', v)
    /\ unsaved' = unsaved \cup {"packet"}
    /\ steps' = IF filter'.step_count > filter.step_count
                THEN Append(steps, p.timestamp) ELSE steps
    /\ first' = IF first = None THEN p.timestamp ELSE first
    /\ inorder' = (inorder /\ (first # None => p.timestamp > twin.last_timestamp))
    /\ early' = IF first # None /\ p.timestamp - twin.last_timestamp < 10
                THEN early + 1 ELSE early
    /\ still' = IF p.mode = "adaptive" /\ p.deviation = 0 /\ ~p.turning
                THEN IF still < Window THEN still + 1 ELSE still
                ELSE 0
    /\ UNCHANGED <<cached, rows, lost>>

\* The send has ended: the filter as it is now goes to the cache, the payload
\* of the fusion to the database, if the write does not fail.
Export ==
    /\ payload # None
    /\ payload' = None
    /\ cached' = ToStateDict(filter)
    /\ unsaved' = {}
    /\ \/ rows' = Latest(rows \cup {payload})
       \/ rows' = rows
    /\ UNCHANGED <<filter, samples, twin, lost, steps, first, inorder, early, still>>

\* A reconnect while the worker has nothing in hand, or a restart at any
\* point: the cached state replaces the filter, and what the worker had in
\* hand is gone.
Reload ==
    /\ cached # None
    /\ filter' = FromStateDict(cached)
    /\ payload' = None
    /\ unsaved' = {}
    /\ lost' = lost \cup unsaved
    /\ still' = IF unsaved = {} THEN still ELSE 0
    /\ UNCHANGED <<cached, rows, samples, twin, steps, first, inorder, early>>

\* The same with a cache that has nothing: position and counters come back
\* from a row, the window and the time of the last step do not; without a
\* row the filter is a new one.
RestoreFromRow ==
    /\ \/ \E r \in rows : filter' = FromRow(r)
       \/ rows = {} /\ filter' = NewFilter
    /\ payload' = None
    /\ unsaved' = {"window"}
    /\ lost' = lost \cup unsaved \cup {"window"}
    /\ still' = 0
    /\ UNCHANGED <<cached, rows, samples, twin, steps, first, inorder, early>>

\* [mutant] the velocity of a device switched to stationary is kept
SwitchedKeepsVelocity(f, mode) ==
    CASE mode = "stationary" -> [f EXCEPT !.movement_state = "REST"]
      [] mode = "moving" -> [f EXCEPT !.movement_state = "MOVING"]
      [] OTHER -> f

\* set_device_mode on a filter in memory. Only this object changes: the next
\* packet is classified by its own mode.
Switched(f, mode) ==
    CASE mode = "stationary" -> Rest(f)
      [] mode = "moving" -> [f EXCEPT !.movement_state = "MOVING"]
      [] OTHER -> f

\* The request may come between any two steps, the fusion of a packet and
\* its export included.
SetDeviceMode(mode) ==
    /\ filter' = Switched(filter, mode)
    /\ twin' = Switched(twin, mode)
    /\ unsaved' = unsaved \cup {"switch"}
    /\ still' = 0
    /\ UNCHANGED <<payload, cached, rows, samples, lost, steps, first, inorder, early>>

Init ==
    /\ filter = NewFilter
    /\ payload = None
    /\ cached = None
    /\ rows = {}
    /\ samples = 0
    /\ twin = NewFilter
    /\ unsaved = {}
    /\ lost = {}
    /\ steps = <<>>
    /\ first = None
    /\ inorder = TRUE
    /\ early = 0
    /\ still = 0

Next ==
    \/ \E p \in Packet, raises \in BOOLEAN : ProcessSample(p, raises)
    \/ Export
    \/ Reload
    \/ RestoreFromRow
    \/ \E mode \in Mode : SetDeviceMode(mode)

Spec == Init /\ [][Next]_vars
-----------------------------------------------------------------------------
\* The shape of the state; the window never exceeds its length.
TypeOK ==
    /\ filter \in Filter
    /\ Len(filter.accel_history) <= Window
    /\ twin \in Filter
    /\ payload \in Row \cup {None}
    /\ cached \in StateDict \cup {None}
    /\ rows \subseteq Row
    /\ samples \in 0 .. MaxSamples
    /\ unsaved \subseteq Loss /\ lost \subseteq Loss
    /\ still \in 0 .. Window
    /\ steps \in Seq(Nat)
    /\ first \in Nat \cup {None}
    /\ inorder \in BOOLEAN
    /\ early \in Nat

\* A device at rest has no velocity, whoever put it to rest: a packet, a
\* restore or POST /device/{id}/mode, at whatever point of the worker's step
\* the request came; and what the worker caches for a restore is locked too.
RestIsLocked ==
    /\ filter.movement_state = "REST" => filter.v = "zero"
    /\ cached # None /\ cached.movement_state = "REST" => cached.x[2] = "zero"

\* Steps are more than 0.35 s of device time apart, in whatever order packets
\* arrive and however often the filter is reloaded from the cache: until a
\* restore forgets the time of the last step, or the packet that made it.
StepsSpaced ==
    lost \subseteq {"switch"} =>
        \A k \in 1 .. Len(steps) - 1 : steps[k+1] - steps[k] > 350

\* A walker covers hardly any time twice: for packets in order, the time
\* advanced is at most the time elapsed, plus the 0.1 s that the first packet
\* stands for (and once more if it is stamped 0), plus 10 ms for each packet
\* that came less than 10 ms after the one before; restores do not add to it.
NoTimeCountedTwice ==
    inorder /\ first # None
       => filter.x <= twin.last_timestamp - first + 10 * early
                        + (IF first = 0 THEN 200 ELSE 100)

\* A device that lies still is at rest at the latest when the window has
\* slid past its last movement: reloads in between change nothing in that.
\* A restore from a row, which may be an older one, or a reload that takes a
\* packet away starts the count again.
SettlesAtRest == still = Window => filter.movement_state = "REST"

\* The filter reads device times and samples the way its twin does.
SameCadence(f, g) ==
    /\ f.last_timestamp = g.last_timestamp
    /\ f.accel_history = g.accel_history
    /\ f.step_count = g.step_count
    /\ f.last_step_time = g.last_step_time

\* Reloads from the cache leave no trace in what the filter computes later,
\* except that a reload takes back a mode switch that no packet has exported
\* since, and even then steps, window and times stay what they were.
ReloadsAreInvisible ==
    /\ lost = {} => filter = twin
    /\ lost \subseteq {"switch"} => SameCadence(filter, twin)
=============================================================================
