------------------------- MODULE KalmanFilterProofs -------------------------
(***************************************************************************)
(* Proofs about KalmanFilter for every set of packets and every length of  *)
(* the window. Only the last theorem needs to know anything of the         *)
(* variance: that it is none when the window holds nothing but zeros.      *)
(***************************************************************************)
EXTENDS KalmanFilter, TLAPS, FiniteSetTheorems

\* A filter whose window is no longer than a deque lets it be.
Bounded(f) == f \in Filter /\ Len(f.accel_history) <= Window

\* What the cache gives back of the filter it was given.
Kept == FromStateDict(cached)

TypeInv ==
    /\ TypeOK
    /\ Len(twin.accel_history) <= Window
    /\ cached # None => \E f \in Filter : Bounded(f) /\ cached = ToStateDict(f)
-----------------------------------------------------------------------------
\* deque(maxlen).append keeps the bound.
LEMMA SlideBounded ==
    ASSUME NEW h \in Seq(Int), Len(h) <= Window, NEW d \in Int
    PROVE  Slide(h, d) \in Seq(Int) /\ Len(Slide(h, d)) <= Window
<1> USE KalmanAssumption
<1>1. CASE Len(h) < Window
    BY <1>1 DEF Slide
<1>2. CASE ~(Len(h) < Window)
    <2>1. h # <<>>
        BY <1>2
    <2>2. Tail(h) \in Seq(Int) /\ Len(Tail(h)) = Len(h) - 1
        BY <2>1
    <2> QED BY <1>2, <2>2 DEF Slide
<1> QED BY <1>1, <1>2

\* The clamp of dt.
LEMMA DtBounds ==
    ASSUME NEW f \in Filter, NEW ts \in Nat
    PROVE  Dt(f, ts) \in 10 .. 1000
<1>1. f.last_timestamp \notin {None, 0} => ts - f.last_timestamp \in Int
    BY DEF Filter
<1> QED BY <1>1 DEF Dt

\* It is 0.1 s without a time to compare with, else at most the time since,
\* or 10 ms.
LEMMA DtElapsed ==
    ASSUME NEW f \in Filter, NEW ts \in Nat
    PROVE  IF f.last_timestamp \in {None, 0} THEN Dt(f, ts) = 100
           ELSE Dt(f, ts) <= 10 \/ Dt(f, ts) <= ts - f.last_timestamp
<1>1. f.last_timestamp \notin {None, 0} => ts - f.last_timestamp \in Int
    BY DEF Filter
<1> QED BY <1>1 DEF Dt

\* What one packet does to a filter, whatever the detector says.
LEMMA ProcessedFacts ==
    ASSUME NEW f, Bounded(f), NEW p \in Packet
    PROVE  /\ Bounded(Processed(f, p))
           /\ Processed(f, p).last_timestamp = p.timestamp
           /\ Processed(f, p).movement_state = "REST" => Processed(f, p).v = "zero"
           /\ Processed(f, p).x \in f.x .. f.x + Dt(f, p.timestamp)
           /\ \/ /\ Processed(f, p).step_count = f.step_count
                 /\ Processed(f, p).last_step_time = f.last_step_time
              \/ /\ Processed(f, p).step_count = f.step_count + 1
                 /\ Processed(f, p).last_step_time = p.timestamp
                 /\ p.timestamp - f.last_step_time > 350
<1> DEFINE history == Slide(f.accel_history, p.deviation)
           dt == Dt(f, p.timestamp)
           g == [f EXCEPT !.last_timestamp = p.timestamp, !.accel_history = history]
<1>1. f \in Filter /\ Len(f.accel_history) <= Window
    BY DEF Bounded
<1>2. p.timestamp \in Nat /\ p.deviation \in Int
    BY KalmanAssumption
<1>3. history \in Seq(Int) /\ Len(history) <= Window
    BY <1>1, <1>2, SlideBounded DEF Filter
<1>4. dt \in 10 .. 1000
    <2>1. \A ts \in Nat : Dt(f, ts) \in 10 .. 1000
        BY <1>1, DtBounds
    <2> QED BY <1>2, <2>1
<1> HIDE DEF history, dt
<1>5. /\ g \in Filter
      /\ g.accel_history = history
      /\ g.last_timestamp = p.timestamp
      /\ g.x = f.x
      /\ g.step_count = f.step_count
      /\ g.last_step_time = f.last_step_time
    BY <1>1, <1>2, <1>3 DEF Filter
<1> HIDE DEF g
<1>6. CASE IsMoving(p, history)
    <2>1. Processed(f, p) = Move(g, p, dt)
        BY <1>6 DEF Processed, g, history, dt
    <2>2. Steps(g, p) => p.timestamp - g.last_step_time > 350
        BY <1>2, <1>5 DEF Steps, Peak, Filter
    <2> DEFINE walking == Peak(g, p) \/ p.mode = "moving"
               v == IF walking THEN "walk" ELSE IF g.v = "zero" THEN "zero" ELSE "coast"
               stepping == Steps(g, p)
    <2>3. v \in Velocity
        BY DEF Velocity
    <2>4. g \in Filter /\ g.x \in Nat /\ g.step_count \in Nat
        BY <1>5 DEF Filter
    <2> DEFINE count == IF stepping THEN g.step_count + 1 ELSE g.step_count
               time == IF stepping THEN p.timestamp ELSE g.last_step_time
               x == IF v = "zero" THEN g.x ELSE g.x + dt
    <2>5. Move(g, p, dt) =
             [g EXCEPT !.movement_state = "MOVING", !.step_count = count,
                       !.last_step_time = time, !.v = v, !.x = x]
        BY <2>4 DEF Move, Filter
    <2> HIDE DEF v, stepping, walking
    <2>6. count \in Nat /\ time \in Nat
        BY <1>2, <2>4 DEF Filter
    <2>7. x \in g.x .. g.x + dt
        BY <1>4, <2>4
    <2> HIDE DEF count, time, x
    <2>8. /\ Move(g, p, dt) \in Filter
          /\ Move(g, p, dt).movement_state = "MOVING"
          /\ Move(g, p, dt).accel_history = g.accel_history
          /\ Move(g, p, dt).last_timestamp = g.last_timestamp
          /\ Move(g, p, dt).x = x
          /\ Move(g, p, dt).step_count = count
          /\ Move(g, p, dt).last_step_time = time
        <3>1. x \in Nat
            BY <1>4, <2>4, <2>7
        <3> QED BY <2>3, <2>4, <2>5, <2>6, <3>1 DEF Filter
    <2>9. Move(g, p, dt).x \in g.x .. g.x + dt
        BY <2>7, <2>8
    <2>10. stepping => p.timestamp - g.last_step_time > 350
        BY <2>2 DEF stepping
    <2>11. Bounded(Processed(f, p))
        BY <1>3, <1>5, <2>1, <2>8 DEF Bounded
    <2> QED BY <1>5, <2>1, <2>8, <2>9, <2>10, <2>11 DEF dt, count, time
<1>7. CASE ~IsMoving(p, history)
    <2>1. Processed(f, p) = Rest(g)
        BY <1>7 DEF Processed, g, history, dt
    <2>2. /\ Rest(g) \in Filter
          /\ Rest(g).v = "zero"
          /\ Rest(g).accel_history = g.accel_history
          /\ Rest(g).last_timestamp = g.last_timestamp
          /\ Rest(g).x = g.x
          /\ Rest(g).step_count = g.step_count
          /\ Rest(g).last_step_time = g.last_step_time
        BY <1>5 DEF Rest, Filter, Velocity
    <2>3. Rest(g).x \in g.x .. g.x + dt
        <3>1. g.x \in Nat
            BY <1>5 DEF Filter
        <3> QED BY <1>4, <2>2, <3>1
    <2>4. Bounded(Processed(f, p))
        BY <1>3, <1>5, <2>1, <2>2 DEF Bounded
    <2> QED BY <1>5, <2>1, <2>2, <2>3, <2>4 DEF dt
<1> QED BY <1>6, <1>7

\* to_state_dict and from_state_dict are inverse on what fits the window.
LEMMA RoundTrip ==
    ASSUME NEW f, Bounded(f)
    PROVE  FromStateDict(ToStateDict(f)) = f
<1>1. f \in Filter /\ Len(f.accel_history) <= Window
    BY DEF Bounded
<1>2. Len(f.accel_history) \in Nat /\ ~(Len(f.accel_history) > Window)
    BY <1>1, KalmanAssumption DEF Filter
<1>3. SubSeq(f.accel_history, 1, Len(f.accel_history)) = f.accel_history
    BY <1>1 DEF Filter
<1>4. FromStateDict(ToStateDict(f)) =
         [last_timestamp |-> f.last_timestamp,
          movement_state |-> f.movement_state,
          step_count |-> f.step_count,
          accel_history |-> f.accel_history,
          last_step_time |-> f.last_step_time,
          v |-> f.v,
          x |-> f.x]
    BY <1>2, <1>3 DEF FromStateDict, ToStateDict
<1> QED BY <1>1, <1>4 DEF Filter

\* A mode switch touches motion state and velocity only.
LEMMA SwitchedFacts ==
    ASSUME NEW f, Bounded(f), NEW mode \in Mode
    PROVE  /\ Bounded(Switched(f, mode))
           /\ Switched(f, mode).last_timestamp = f.last_timestamp
           /\ Switched(f, mode).x = f.x
           /\ Switched(f, mode).last_step_time = f.last_step_time
           /\ (f.movement_state = "REST" => f.v = "zero")
                 => (Switched(f, mode).movement_state = "REST"
                        => Switched(f, mode).v = "zero")
           /\ SameCadence(Switched(f, mode), f)
BY DEF Switched, Rest, Bounded, Filter, Mode, Velocity, SameCadence

\* A restore from a row.
LEMMA FromRowFacts ==
    ASSUME NEW r \in Row
    PROVE  /\ Bounded(FromRow(r))
           /\ FromRow(r).last_timestamp = r.timestamp
           /\ FromRow(r).x = r.x
           /\ FromRow(r).movement_state = r.movement_state
           /\ FromRow(r).v = r.v
BY KalmanAssumption DEF FromRow, Bounded, Filter, Row
-----------------------------------------------------------------------------
LEMMA TypeInvInit == Init => TypeInv
<1>1. Bounded(NewFilter)
    BY KalmanAssumption DEF NewFilter, Bounded, Filter, Velocity
<1> SUFFICES ASSUME Init PROVE TypeInv
    OBVIOUS
<1>2. Bounded(filter) /\ Bounded(twin)
    BY <1>1 DEF Init
<1>3. /\ steps \in Seq(Nat) /\ first \in Nat \cup {None}
      /\ rows \subseteq Row /\ payload \in Row \cup {None} /\ cached = None
    BY DEF Init
<1>4. samples \in 0 .. MaxSamples /\ still \in 0 .. Window /\ early \in Nat
    BY KalmanAssumption DEF Init
<1>5. inorder \in BOOLEAN /\ unsaved \subseteq Loss /\ lost \subseteq Loss
    BY DEF Init
<1> QED BY <1>2, <1>3, <1>4, <1>5 DEF TypeInv, TypeOK, Bounded

\* A payload is a row.
LEMMA PayloadFacts ==
    ASSUME NEW f, Bounded(f), f.last_timestamp \in Nat, NEW v \in Rounded(f.v)
    PROVE  /\ RowOf(f, v) \in Row
           /\ RowOf(f, v).movement_state = f.movement_state
           /\ RowOf(f, v).x = f.x
           /\ f.last_timestamp # 0 => RowOf(f, v).timestamp = f.last_timestamp
           /\ f.v = "zero" => RowOf(f, v).v = "zero"
<1>1. v \in Velocity /\ (f.v = "zero" => v = "zero")
    BY DEF Rounded, Velocity, Bounded, Filter
<1>2. (IF f.last_timestamp = 0 THEN Now ELSE f.last_timestamp) \in Nat
    BY KalmanAssumption
<1> QED BY <1>1, <1>2 DEF RowOf, Row, Bounded, Filter

\* What is exported comes back.
LEMMA KeptFacts ==
    ASSUME TypeInv, cached # None
    PROVE  /\ Bounded(Kept)
           /\ cached.movement_state = Kept.movement_state
           /\ cached.x[2] = Kept.v
<1>1. PICK f \in Filter : Bounded(f) /\ cached = ToStateDict(f)
    BY DEF TypeInv
<1>2. Kept = f
    BY <1>1, RoundTrip DEF Kept
<1> QED BY <1>1, <1>2 DEF ToStateDict

LEMMA ExportKept ==
    ASSUME TypeInv, Export
    PROVE  Kept' = filter /\ cached' # None /\ cached' \in StateDict
<1>1. Bounded(filter) /\ cached' = ToStateDict(filter)
    BY DEF Export, TypeInv, TypeOK, Bounded
<1>2. cached' \in StateDict
    BY <1>1 DEF ToStateDict, StateDict, Bounded, Filter
<1> QED BY <1>1, <1>2, RoundTrip, KalmanAssumption DEF Kept

LEMMA TypeInvNext == TypeInv /\ [Next]_vars => TypeInv'
<1> SUFFICES ASSUME TypeInv, [Next]_vars PROVE TypeInv'
    OBVIOUS
<1>1. Bounded(filter) /\ Bounded(twin)
    BY DEF TypeInv, TypeOK, Bounded
<1> DEFINE CacheOK == /\ cached \in StateDict \cup {None}
                      /\ cached # None => \E f \in Filter : Bounded(f) /\ cached = ToStateDict(f)
<1>0. CacheOK
    BY DEF TypeInv, TypeOK
<1>2. ASSUME NEW p \in Packet, NEW raises \in BOOLEAN, ProcessSample(p, raises)
      PROVE  TypeInv'
    <2>1. Bounded(filter') /\ Bounded(twin')
        BY <1>1, <1>2, ProcessedFacts DEF ProcessSample
    <2>2. filter'.last_timestamp \in Nat /\ p.timestamp \in Nat
        BY <1>1, <1>2, ProcessedFacts, KalmanAssumption DEF ProcessSample
    <2>3. payload' \in Row \cup {None}
        BY <1>2, <2>1, <2>2, PayloadFacts DEF ProcessSample
    <2>4. steps' \in Seq(Nat) /\ first' \in Nat \cup {None} /\ inorder' \in BOOLEAN
        BY <1>2, <2>2 DEF ProcessSample, TypeInv, TypeOK
    <2>5. samples' \in 0 .. MaxSamples /\ still' \in 0 .. Window /\ early' \in Nat
        BY <1>2, KalmanAssumption DEF ProcessSample, TypeInv, TypeOK
    <2>6. unsaved' \subseteq Loss /\ lost' \subseteq Loss
        BY <1>2 DEF ProcessSample, TypeInv, TypeOK, Loss
    <2>7. rows' \subseteq Row /\ CacheOK'
        BY <1>0, <1>2 DEF ProcessSample, TypeInv, TypeOK
    <2> QED BY <2>1, <2>3, <2>4, <2>5, <2>6, <2>7 DEF TypeInv, TypeOK, Bounded
<1>3. CASE Export
    <2>1. CacheOK'
        <3>1. filter \in Filter /\ cached' = ToStateDict(filter)
            BY <1>1, <1>3 DEF Export, Bounded
        <3> QED BY <1>1, <1>3, <3>1, ExportKept
    <2>2. rows' \subseteq Row /\ payload' \in Row \cup {None}
        BY <1>3 DEF Export, Latest, TypeInv, TypeOK
    <2> QED BY <1>3, <2>1, <2>2 DEF Export, TypeInv, TypeOK
<1>4. CASE Reload
    <2>1. Bounded(filter') /\ CacheOK'
        BY <1>0, <1>4, KeptFacts DEF Reload, Kept
    <2>2. unsaved' \subseteq Loss /\ lost' \subseteq Loss /\ still' \in 0 .. Window
        BY <1>4, KalmanAssumption DEF Reload, TypeInv, TypeOK
    <2> QED BY <1>4, <2>1, <2>2 DEF Reload, TypeInv, TypeOK, Bounded
<1>5. CASE RestoreFromRow
    <2>1. Bounded(NewFilter)
        BY KalmanAssumption DEF NewFilter, Bounded, Filter, Velocity
    <2>2. Bounded(filter')
        BY <1>5, <2>1, FromRowFacts DEF RestoreFromRow, TypeInv, TypeOK
    <2>3. unsaved' \subseteq Loss /\ lost' \subseteq Loss /\ still' \in 0 .. Window /\ CacheOK'
        BY <1>0, <1>5, KalmanAssumption DEF RestoreFromRow, TypeInv, TypeOK, Loss
    <2> QED BY <1>5, <2>2, <2>3 DEF RestoreFromRow, TypeInv, TypeOK, Bounded
<1>6. ASSUME NEW mode \in Mode, SetDeviceMode(mode) PROVE TypeInv'
    <2>1. Bounded(filter') /\ Bounded(twin')
        BY <1>1, <1>6, SwitchedFacts DEF SetDeviceMode
    <2>2. unsaved' \subseteq Loss /\ lost' \subseteq Loss /\ still' \in 0 .. Window /\ CacheOK'
        BY <1>0, <1>6, KalmanAssumption DEF SetDeviceMode, TypeInv, TypeOK, Loss
    <2> QED BY <1>6, <2>1, <2>2 DEF SetDeviceMode, TypeInv, TypeOK, Bounded
<1>7. CASE UNCHANGED vars
    BY <1>7 DEF vars, TypeInv, TypeOK
<1> QED BY <1>2, <1>3, <1>4, <1>5, <1>6, <1>7 DEF Next

LEMMA TypeInvHolds == Spec => []TypeInv
BY TypeInvInit, TypeInvNext, PTL DEF Spec

\* The filter keeps its shape and its window its length.
THEOREM KalmanTypeCorrect == Spec => []TypeOK
<1>1. TypeInv => TypeOK
    BY DEF TypeInv
<1> QED BY <1>1, TypeInvHolds, PTL
-----------------------------------------------------------------------------
\* At rest, so without velocity.
Locked(r) == r.movement_state = "REST" => r.v = "zero"

\* Everything a filter is rebuilt from is locked too.
LockInv ==
    /\ Locked(filter)
    /\ cached # None => Locked(Kept)
    /\ payload # None => Locked(payload)
    /\ \A r \in rows : Locked(r)

\* Whatever puts a device to rest, a packet, a restore or a mode switch at
\* any point of the worker's step, its velocity is locked, and so is what the
\* worker caches of it.
THEOREM RestStaysLocked == Spec => []RestIsLocked
<1>1. Init => LockInv
    BY DEF Init, LockInv, Locked, NewFilter
<1>2. TypeInv /\ LockInv /\ [Next]_vars => LockInv'
    <2> SUFFICES ASSUME TypeInv, LockInv, [Next]_vars PROVE LockInv'
        OBVIOUS
    <2>1. Bounded(filter)
        BY DEF TypeInv, TypeOK, Bounded
    <2>2. ASSUME NEW p \in Packet, NEW raises \in BOOLEAN, ProcessSample(p, raises)
          PROVE  LockInv'
        <3>1. /\ Bounded(filter') /\ filter'.last_timestamp \in Nat
              /\ Locked(filter')
            BY <2>1, <2>2, ProcessedFacts, KalmanAssumption DEF ProcessSample, Locked
        <3>2. payload' # None => Locked(payload')
            BY <2>2, <3>1, PayloadFacts DEF ProcessSample, Locked
        <3>3. rows' = rows /\ cached' = cached /\ Kept' = Kept
            BY <2>2 DEF ProcessSample, Kept
        <3> QED BY <3>1, <3>2, <3>3 DEF LockInv
    <2>3. CASE Export
        <3>1. Kept' = filter /\ filter' = filter /\ payload' = None
            BY <2>3, ExportKept DEF Export
        <3>2. \A r \in rows' : r \in rows \cup {payload}
            BY <2>3 DEF Export, Latest
        <3>3. \A r \in rows' : Locked(r)
            BY <2>3, <3>2 DEF LockInv, Export
        <3> QED BY <3>1, <3>3 DEF LockInv
    <2>4. CASE Reload
        <3>1. filter' = Kept /\ cached' = cached /\ rows' = rows /\ payload' = None /\ Kept' = Kept
            BY <2>4 DEF Reload, Kept
        <3> QED BY <2>4, <3>1 DEF LockInv, Reload
    <2>5. CASE RestoreFromRow
        <3>1. Locked(filter')
            BY <2>5, FromRowFacts DEF RestoreFromRow, TypeInv, TypeOK, LockInv, Locked, NewFilter
        <3>2. cached' = cached /\ rows' = rows /\ payload' = None /\ Kept' = Kept
            BY <2>5 DEF RestoreFromRow, Kept
        <3> QED BY <3>1, <3>2 DEF LockInv
    <2>6. ASSUME NEW mode \in Mode, SetDeviceMode(mode) PROVE LockInv'
        <3>1. Locked(filter')
            BY <2>1, <2>6, SwitchedFacts DEF SetDeviceMode, LockInv, Locked
        <3>2. cached' = cached /\ rows' = rows /\ payload' = payload /\ Kept' = Kept
            BY <2>6 DEF SetDeviceMode, Kept
        <3> QED BY <3>1, <3>2 DEF LockInv
    <2>7. CASE UNCHANGED vars
        BY <2>7 DEF vars, LockInv, Kept
    <2> QED BY <2>2, <2>3, <2>4, <2>5, <2>6, <2>7 DEF Next
<1>3. TypeInv /\ LockInv => RestIsLocked
    BY KeptFacts DEF LockInv, RestIsLocked, Locked
<1> QED BY <1>1, <1>2, <1>3, TypeInvHolds, PTL DEF Spec
-----------------------------------------------------------------------------
\* The times, the window and the steps of a processed filter depend on those
\* of the filter only.
LEMMA ProcessedCadence ==
    ASSUME NEW f, Bounded(f), NEW g, Bounded(g), SameCadence(f, g), NEW p \in Packet
    PROVE  SameCadence(Processed(f, p), Processed(g, p))
<1> DEFINE h == Slide(f.accel_history, p.deviation)
           Take(k) == [k EXCEPT !.last_timestamp = p.timestamp, !.accel_history = h]
<1>1. h = Slide(g.accel_history, p.deviation)
    BY DEF SameCadence
<1>2. h \in Seq(Int)
    BY SlideBounded, KalmanAssumption DEF Bounded, Filter
<1> HIDE DEF h
<1>3. p.timestamp \in Nat
    BY KalmanAssumption
<1>4. ASSUME NEW k, Bounded(k)
      PROVE  /\ Take(k) \in Filter
             /\ Take(k).last_timestamp = p.timestamp
             /\ Take(k).accel_history = h
             /\ Take(k).step_count = k.step_count
             /\ Take(k).last_step_time = k.last_step_time
    BY <1>2, <1>3, <1>4 DEF Bounded, Filter
<1> HIDE DEF Take
<1>5. SameCadence(Take(f), Take(g)) /\ Take(f) \in Filter /\ Take(g) \in Filter
    BY <1>4 DEF SameCadence
<1>6. CASE IsMoving(p, h)
    <2>1. /\ Processed(f, p) = Move(Take(f), p, Dt(f, p.timestamp))
          /\ Processed(g, p) = Move(Take(g), p, Dt(g, p.timestamp))
        BY <1>1, <1>6 DEF Processed, Take, h
    <2>2. Steps(Take(f), p) <=> Steps(Take(g), p)
        BY <1>5 DEF Steps, Peak, SameCadence
    <2>3. ASSUME NEW k \in Filter, NEW dt
          PROVE  /\ Move(k, p, dt).last_timestamp = k.last_timestamp
                 /\ Move(k, p, dt).accel_history = k.accel_history
                 /\ Move(k, p, dt).step_count =
                        IF Steps(k, p) THEN k.step_count + 1 ELSE k.step_count
                 /\ Move(k, p, dt).last_step_time =
                        IF Steps(k, p) THEN p.timestamp ELSE k.last_step_time
        BY <2>3 DEF Move, Filter
    <2> QED BY <1>5, <2>1, <2>2, <2>3 DEF SameCadence
<1>7. CASE ~IsMoving(p, h)
    <2>1. Processed(f, p) = Rest(Take(f)) /\ Processed(g, p) = Rest(Take(g))
        BY <1>1, <1>7 DEF Processed, Take, h
    <2> QED BY <1>5, <2>1 DEF SameCadence, Rest, Filter
<1> QED BY <1>6, <1>7

\* What the cache gives back differs from the filter by what is unsaved.
CacheInv ==
    cached # None =>
        /\ unsaved = {} => Kept = filter
        /\ unsaved \subseteq {"switch"} => SameCadence(Kept, filter)

LEMMA CacheInvNext == TypeInv /\ CacheInv /\ [Next]_vars => CacheInv'
<1> SUFFICES ASSUME TypeInv, CacheInv, [Next]_vars PROVE CacheInv'
    OBVIOUS
<1> USE DEF CacheInv
<1>1. Bounded(filter)
    BY DEF TypeInv, TypeOK, Bounded
<1>2. CASE \E p \in Packet, raises \in BOOLEAN : ProcessSample(p, raises)
    BY <1>2 DEF ProcessSample
<1>3. CASE Export
    BY <1>3, ExportKept DEF Export, SameCadence
<1>4. CASE Reload
    BY <1>4 DEF Reload, Kept, SameCadence
<1>5. CASE RestoreFromRow
    BY <1>5 DEF RestoreFromRow
<1>6. ASSUME NEW mode \in Mode, SetDeviceMode(mode) PROVE CacheInv'
    <2>1. SameCadence(filter', filter)
        BY <1>1, <1>6, SwitchedFacts DEF SetDeviceMode
    <2>2. cached' = cached /\ Kept' = Kept /\ unsaved' = unsaved \cup {"switch"}
        BY <1>6 DEF SetDeviceMode, Kept
    <2>3. unsaved' # {}
        BY <2>2
    <2>4. ASSUME cached' # None, unsaved' \subseteq {"switch"} PROVE SameCadence(Kept, filter)
        <3>1. unsaved \subseteq {"switch"} /\ cached # None
            BY <2>2, <2>4
        <3> QED BY <3>1
    <2> QED BY <2>1, <2>2, <2>3, <2>4 DEF SameCadence
<1>7. CASE UNCHANGED vars
    BY <1>7 DEF vars, Kept
<1> QED BY <1>2, <1>3, <1>4, <1>5, <1>6, <1>7 DEF Next

LEMMA CacheInvHolds == Spec => []CacheInv
<1>1. Init => CacheInv
    BY DEF Init, CacheInv
<1> QED BY <1>1, CacheInvNext, TypeInvHolds, PTL DEF Spec

\* The filter of a device whose cache answers computes what it would have
\* computed without a single reload: except for mode switches that no packet
\* has exported, which a reload takes back without a trace in steps, window
\* and times.
THEOREM ReloadsStayInvisible == Spec => []ReloadsAreInvisible
<1>1. Init => ReloadsAreInvisible
    BY DEF Init, ReloadsAreInvisible, SameCadence
<1>2. TypeInv /\ CacheInv /\ ReloadsAreInvisible /\ [Next]_vars => ReloadsAreInvisible'
    <2> SUFFICES ASSUME TypeInv, CacheInv, ReloadsAreInvisible, [Next]_vars
                 PROVE  ReloadsAreInvisible'
        OBVIOUS
    <2> USE DEF ReloadsAreInvisible
    <2>1. Bounded(filter) /\ Bounded(twin)
        BY DEF TypeInv, TypeOK, Bounded
    <2>2. ASSUME NEW p \in Packet, NEW raises \in BOOLEAN, ProcessSample(p, raises)
          PROVE  ReloadsAreInvisible'
        <3>1. filter' = Processed(filter, p) /\ twin' = Processed(twin, p) /\ lost' = lost
            BY <2>2 DEF ProcessSample
        <3>2. SameCadence(filter, twin) => SameCadence(filter', twin')
            BY <2>1, <3>1, ProcessedCadence
        <3> QED BY <3>1, <3>2
    <2>3. CASE Export
        BY <2>3 DEF Export
    <2>4. CASE Reload
        <3>1. filter' = Kept /\ twin' = twin /\ lost' = lost \cup unsaved /\ cached # None
            BY <2>4 DEF Reload, Kept
        <3>2. lost' = {} => filter' = twin'
            <4>1. lost' = {} => lost = {} /\ unsaved = {}
                BY <3>1
            <4> QED BY <3>1, <4>1 DEF CacheInv
        <3>3. lost' \subseteq {"switch"} => SameCadence(filter', twin')
            <4>1. lost' \subseteq {"switch"} => lost \subseteq {"switch"} /\ unsaved \subseteq {"switch"}
                BY <3>1
            <4> QED BY <3>1, <4>1 DEF CacheInv, SameCadence
        <3> QED BY <3>2, <3>3
    <2>5. CASE RestoreFromRow
        <3>1. "window" \in lost'
            BY <2>5 DEF RestoreFromRow
        <3> QED BY <3>1
    <2>6. ASSUME NEW mode \in Mode, SetDeviceMode(mode) PROVE ReloadsAreInvisible'
        <3>1. filter' = Switched(filter, mode) /\ twin' = Switched(twin, mode) /\ lost' = lost
            BY <2>6 DEF SetDeviceMode
        <3>2. SameCadence(filter', filter) /\ SameCadence(twin', twin)
            BY <2>1, <3>1, SwitchedFacts
        <3> QED BY <3>1, <3>2 DEF SameCadence
    <2>7. CASE UNCHANGED vars
        BY <2>7 DEF vars
    <2> QED BY <2>2, <2>3, <2>4, <2>5, <2>6, <2>7 DEF Next
<1> QED BY <1>1, <1>2, TypeInvHolds, CacheInvHolds, PTL DEF Spec
-----------------------------------------------------------------------------
\* As long as no restore forgot it, last_step_time is the time of the last
\* step counted.
StepInv ==
    lost \subseteq {"switch"} =>
        /\ StepsSpaced
        /\ steps # <<>> => filter.last_step_time = steps[Len(steps)]

\* Steps are spaced, whatever the packets and their order, until a restore
\* forgets the last one.
THEOREM StepsStaySpaced == Spec => []StepsSpaced
<1>1. Init => StepInv
    BY DEF Init, StepInv, StepsSpaced
<1>2. TypeInv /\ CacheInv /\ StepInv /\ [Next]_vars => StepInv'
    <2> SUFFICES ASSUME TypeInv, CacheInv, StepInv, [Next]_vars PROVE StepInv'
        OBVIOUS
    <2>1. Bounded(filter) /\ steps \in Seq(Nat)
        BY DEF TypeInv, TypeOK, Bounded
    <2>2. CASE /\ UNCHANGED <<steps, lost>>
               /\ filter'.last_step_time = filter.last_step_time
        BY <2>2 DEF StepInv, StepsSpaced
    <2>3. ASSUME NEW p \in Packet, NEW raises \in BOOLEAN, ProcessSample(p, raises)
          PROVE  StepInv'
        <3> DEFINE g == Processed(filter, p)
        <3>1. /\ filter' = g
              /\ steps' = IF g.step_count > filter.step_count
                          THEN Append(steps, p.timestamp) ELSE steps
              /\ lost' = lost
            BY <2>3 DEF ProcessSample
        <3>2. p.timestamp \in Nat /\ filter.step_count \in Nat /\ filter.last_step_time \in Nat
            BY <2>1, KalmanAssumption DEF Bounded, Filter
        <3>3. \/ g.step_count = filter.step_count /\ g.last_step_time = filter.last_step_time
              \/ /\ g.step_count = filter.step_count + 1
                 /\ g.last_step_time = p.timestamp
                 /\ p.timestamp - filter.last_step_time > 350
            BY <2>1, ProcessedFacts
        <3> HIDE DEF g
        <3>4. CASE /\ g.step_count = filter.step_count
                   /\ g.last_step_time = filter.last_step_time
            BY <2>2, <3>1, <3>2, <3>4
        <3>5. CASE /\ g.step_count = filter.step_count + 1
                   /\ g.last_step_time = p.timestamp
                   /\ p.timestamp - filter.last_step_time > 350
            <4>1. steps' = Append(steps, p.timestamp)
                BY <3>1, <3>2, <3>5
            <4>2. /\ Len(steps') = Len(steps) + 1
                  /\ steps'[Len(steps')] = p.timestamp
                  /\ \A k \in 1 .. Len(steps) : steps'[k] = steps[k]
                BY <2>1, <3>2, <4>1
            <4>3. ASSUME lost \subseteq {"switch"}, NEW k \in 1 .. Len(steps') - 1
                  PROVE  steps'[k+1] - steps'[k] > 350
                <5>1. CASE k = Len(steps)
                    <6>1. steps # <<>> /\ k \in 1 .. Len(steps)
                        BY <2>1, <4>3, <5>1
                    <6>2. filter.last_step_time = steps[Len(steps)]
                        BY <4>3, <6>1 DEF StepInv
                    <6>3. steps'[k+1] = p.timestamp /\ steps'[k] = filter.last_step_time
                        BY <4>2, <5>1, <6>1, <6>2
                    <6> QED BY <3>5, <6>3
                <5>2. CASE k # Len(steps)
                    <6>1. k \in 1 .. Len(steps) - 1 /\ k + 1 \in 1 .. Len(steps)
                        BY <2>1, <4>2, <4>3, <5>2
                    <6>2. steps[k+1] - steps[k] > 350
                        BY <4>3, <6>1 DEF StepInv, StepsSpaced
                    <6>3. k \in 1 .. Len(steps)
                        BY <2>1, <6>1
                    <6> QED BY <4>2, <6>1, <6>2, <6>3
                <5> QED BY <5>1, <5>2
            <4> QED BY <3>1, <3>5, <4>2, <4>3 DEF StepInv, StepsSpaced
        <3> QED BY <3>3, <3>4, <3>5
    <2>4. CASE Export
        BY <2>2, <2>4 DEF Export
    <2>5. CASE Reload
        <3>1. filter' = Kept /\ steps' = steps /\ lost' = lost \cup unsaved /\ cached # None
            BY <2>5 DEF Reload, Kept
        <3>2. ASSUME lost' \subseteq {"switch"}
              PROVE  lost \subseteq {"switch"} /\ filter'.last_step_time = filter.last_step_time
            <4>1. lost \subseteq {"switch"} /\ unsaved \subseteq {"switch"}
                BY <3>1, <3>2
            <4> QED BY <3>1, <4>1 DEF CacheInv, SameCadence
        <3> QED BY <3>1, <3>2 DEF StepInv, StepsSpaced
    <2>6. CASE RestoreFromRow
        <3>1. "window" \in lost'
            BY <2>6 DEF RestoreFromRow
        <3> QED BY <3>1 DEF StepInv
    <2>7. ASSUME NEW mode \in Mode, SetDeviceMode(mode) PROVE StepInv'
        BY <2>1, <2>2, <2>7, SwitchedFacts DEF SetDeviceMode
    <2>8. CASE UNCHANGED vars
        BY <2>2, <2>8 DEF vars
    <2> QED BY <2>3, <2>4, <2>5, <2>6, <2>7, <2>8 DEF Next
<1>3. StepInv => StepsSpaced
    BY DEF StepInv, StepsSpaced
<1> QED BY <1>1, <1>2, <1>3, TypeInvHolds, CacheInvHolds, PTL DEF Spec
-----------------------------------------------------------------------------
\* A filter at time t has advanced by x, in a stream whose first packet is of
\* time a, whose last one is of time l, and that has had e early packets:
\* nothing yet; the allowance of a first packet stamped 0; or no more than
\* the time passed and the allowances.
Within(t, x, a, l, e) ==
    \/ t = None /\ x = 0
    \/ a = 0 /\ x <= 100
    \/ /\ t \in Nat \ {0} /\ t <= l
       /\ x <= t - a + 10 * e + (IF a = 0 THEN 200 ELSE 100)

\* What is within stays within when time moves on.
LEMMA WithinStays ==
    ASSUME NEW t \in Nat \cup {None}, NEW x \in Nat, NEW a \in Nat, NEW l \in Nat, NEW e \in Nat,
           NEW m \in Nat, NEW d \in Nat, l <= m, e <= d, Within(t, x, a, l, e)
    PROVE  Within(t, x, a, m, d)
<1>1. CASE t = None /\ x = 0
    BY <1>1 DEF Within
<1>2. CASE a = 0 /\ x <= 100
    BY <1>2 DEF Within
<1>3. CASE /\ t \in Nat \ {0} /\ t <= l
           /\ x <= t - a + 10 * e + (IF a = 0 THEN 200 ELSE 100)
    <2>1. t <= m /\ x <= t - a + 10 * d + (IF a = 0 THEN 200 ELSE 100)
        BY <1>3
    <2> QED BY <1>3, <2>1 DEF Within
<1> QED BY <1>1, <1>2, <1>3 DEF Within

\* One packet later than all before, by a clamped dt: if it comes less than
\* 10 ms after the last one it is counted as early.
LEMMA WithinStep ==
    ASSUME NEW f, Bounded(f), NEW ts \in Nat, NEW x \in Nat,
           NEW a \in Nat, NEW l \in Nat, NEW e \in Nat, NEW d \in Nat,
           a <= l, l < ts, Within(f.last_timestamp, f.x, a, l, e),
           d = IF ts - l < 10 THEN e + 1 ELSE e,
           x <= f.x + Dt(f, ts)
    PROVE  Within(ts, x, a, ts, d)
<1> DEFINE t == f.last_timestamp
           dt == Dt(f, ts)
<1>1. f \in Filter /\ f.x \in Nat /\ t \in Nat \cup {None}
    BY DEF Bounded, Filter
<1>2. dt \in 10 .. 1000
    BY <1>1, DtBounds
<1>3. IF t \in {None, 0} THEN dt = 100 ELSE dt <= 10 \/ dt <= ts - t
    BY <1>1, DtElapsed
<1>4. x <= f.x + dt /\ Within(t, f.x, a, l, e)
    OBVIOUS
<1> HIDE DEF t, dt
<1>5. SUFFICES x <= ts - a + 10 * d + (IF a = 0 THEN 200 ELSE 100)
    BY DEF Within
<1>6. CASE t = None /\ f.x = 0
    <2>1. dt = 100
        BY <1>3, <1>6
    <2> QED BY <1>4, <1>6, <2>1
<1>7. CASE a = 0 /\ f.x <= 100
    <2>1. dt <= ts + 100
        <3>1. CASE t \in {None, 0}
            BY <1>3, <3>1
        <3>2. CASE t \notin {None, 0}
            BY <1>1, <1>2, <1>3, <3>2
        <3> QED BY <3>1, <3>2
    <2> QED BY <1>1, <1>2, <1>4, <1>7, <2>1
<1>8. CASE /\ t \in Nat \ {0} /\ t <= l
           /\ f.x <= t - a + 10 * e + (IF a = 0 THEN 200 ELSE 100)
    <2>1. dt <= 10 \/ dt <= ts - t
        BY <1>3, <1>8, KalmanAssumption
    <2>2. CASE dt <= ts - t
        BY <1>1, <1>2, <1>4, <1>8, <2>2
    <2>3. CASE dt <= 10 /\ ts - l < 10
        BY <1>1, <1>2, <1>4, <1>8, <2>3
    <2>4. CASE dt <= 10 /\ ~(ts - l < 10)
        BY <1>1, <1>2, <1>4, <1>8, <2>4
    <2> QED BY <2>1, <2>2, <2>3, <2>4
<1> QED BY <1>4, <1>6, <1>7, <1>8 DEF Within

\* In a stream in order the filter is within bounds, and so is everything it
\* may be rebuilt from: the cached state, which may be several packets old,
\* and rows, which may be older still.
TimeInv ==
    /\ first = None => /\ twin.last_timestamp = None
                       /\ filter.last_timestamp = None /\ filter.x = 0
                       /\ payload = None /\ cached = None /\ rows = {}
    /\ first # None => twin.last_timestamp \in Nat
    /\ inorder /\ first # None =>
          /\ first <= twin.last_timestamp
          /\ Within(filter.last_timestamp, filter.x, first, twin.last_timestamp, early)
          /\ cached # None =>
                Within(Kept.last_timestamp, Kept.x, first, twin.last_timestamp, early)
          /\ payload # None =>
                Within(payload.timestamp, payload.x, first, twin.last_timestamp, early)
          /\ \A r \in rows : Within(r.timestamp, r.x, first, twin.last_timestamp, early)

\* For packets in order the position advances by no more than the time that
\* passed and the allowances of the clamp, however often the filter is
\* reloaded or restored, and from however old a row.
THEOREM TimeNeverCountedTwice == Spec => []NoTimeCountedTwice
<1>1. Init => TimeInv
    BY DEF Init, TimeInv, NewFilter
<1>2. TypeInv /\ TimeInv /\ [Next]_vars => TimeInv'
    <2> SUFFICES ASSUME TypeInv, TimeInv, [Next]_vars PROVE TimeInv'
        OBVIOUS
    <2>1. /\ Bounded(filter) /\ Bounded(twin) /\ first \in Nat \cup {None} /\ early \in Nat
          /\ rows \subseteq Row /\ payload \in Row \cup {None}
        BY DEF TypeInv, TypeOK, Bounded
    <2>2. ASSUME NEW p \in Packet, NEW raises \in BOOLEAN, ProcessSample(p, raises)
          PROVE  TimeInv'
        <3> DEFINE ts == p.timestamp
                   l == twin.last_timestamp
        <3>1. ts \in Nat /\ ts # None
            BY KalmanAssumption
        <3>2. /\ Bounded(filter')
              /\ filter'.last_timestamp = ts
              /\ filter'.x \in filter.x .. filter.x + Dt(filter, ts)
              /\ twin'.last_timestamp = ts
            BY <2>1, <2>2, ProcessedFacts DEF ProcessSample
        <3>3. /\ first' = IF first = None THEN ts ELSE first
              /\ inorder' = (inorder /\ (first # None => ts > l))
              /\ early' = IF first # None /\ ts - l < 10 THEN early + 1 ELSE early
              /\ UNCHANGED <<cached, rows>> /\ Kept' = Kept
            BY <2>2 DEF ProcessSample, Kept
        <3>4. first' \in Nat /\ first' # None /\ early' \in Nat /\ filter'.x \in Nat /\ filter.x \in Nat
            BY <2>1, <3>1, <3>2, <3>3, KalmanAssumption DEF Bounded, Filter
        <3>5. ASSUME inorder', first # None
              PROVE  /\ inorder /\ l \in Nat /\ first <= l /\ l < ts /\ first' = first
                     /\ early <= early' /\ early' = IF ts - l < 10 THEN early + 1 ELSE early
                     /\ first \in Nat /\ l <= ts
            <4>1. inorder /\ first' = first /\ first \in Nat /\ ts > l /\ l \in Nat /\ first <= l
                BY <2>1, <3>3, <3>5 DEF TimeInv
            <4>2. early' = IF ts - l < 10 THEN early + 1 ELSE early
                BY <3>3, <3>5
            <4> HIDE DEF ts, l
            <4> QED BY <2>1, <3>1, <4>1, <4>2
        <3> HIDE DEF ts, l
        <3>6. inorder' => first' <= ts
            BY <3>1, <3>3, <3>5
        <3>7. ASSUME inorder' PROVE Within(ts, filter'.x, first', ts, early')
            <4>1. CASE first = None
                <5>1. filter.last_timestamp = None /\ filter.x = 0 /\ first' = ts
                    BY <3>3, <4>1 DEF TimeInv
                <5>2. Dt(filter, ts) = 100
                    BY <2>1, <3>1, <5>1, DtElapsed DEF Bounded
                <5>3. filter'.x <= 100
                    BY <3>2, <3>4, <5>1, <5>2 DEF ts
                <5> QED BY <3>1, <3>4, <5>1, <5>3 DEF Within
            <4>2. CASE first # None
                <5>1. Within(filter.last_timestamp, filter.x, first, l, early)
                    BY <3>5, <3>7, <4>2 DEF TimeInv, l
                <5>2. filter'.x <= filter.x + Dt(filter, ts)
                    <6> DEFINE new == filter'.x
                               old == filter.x
                               dt == Dt(filter, ts)
                    <6>1. dt \in 10 .. 1000
                        BY <2>1, <3>1, DtBounds DEF Bounded
                    <6>2. new \in old .. old + dt /\ old \in Nat
                        BY <3>2, <3>4 DEF ts
                    <6> HIDE DEF new, old, dt
                    <6>3. new <= old + dt
                        BY <6>1, <6>2
                    <6> QED BY <6>3 DEF new, old, dt
                <5>3. /\ inorder /\ l \in Nat /\ first \in Nat /\ first <= l /\ l < ts
                      /\ first' = first /\ early' = IF ts - l < 10 THEN early + 1 ELSE early
                    BY <3>5, <3>7, <4>2
                <5>4. Within(ts, filter'.x, first, ts, early')
                    BY <2>1, <3>1, <3>4, <5>1, <5>2, <5>3, WithinStep
                <5> QED BY <5>3, <5>4
            <4> QED BY <4>1, <4>2
        <3>8. ASSUME inorder', payload' # None
              PROVE  Within(payload'.timestamp, payload'.x, first', ts, early')
            <4>1. PICK v \in Rounded(filter'.v) : payload' = RowOf(filter', v)
                BY <2>2, <3>8 DEF ProcessSample
            <4>2. payload'.x = filter'.x /\ (ts # 0 => payload'.timestamp = ts)
                BY <3>1, <3>2, <4>1, PayloadFacts DEF ts
            <4>3. CASE ts # 0
                BY <3>7, <3>8, <4>2, <4>3
            <4>4. CASE ts = 0
                <5>1. first' = 0 /\ filter'.x <= 100
                    BY <3>1, <3>4, <3>7, <3>8, <4>4 DEF Within
                <5> QED BY <4>2, <5>1 DEF Within
            <4> QED BY <4>3, <4>4
        <3>9. ASSUME inorder', cached # None
              PROVE  Within(Kept.last_timestamp, Kept.x, first', ts, early')
            <4>1. first # None
                BY <3>9 DEF TimeInv
            <4>2. Within(Kept.last_timestamp, Kept.x, first, l, early)
                BY <3>5, <3>9, <4>1 DEF TimeInv, l
            <4>3. Kept.last_timestamp \in Nat \cup {None} /\ Kept.x \in Nat
                BY <3>9, KeptFacts DEF Bounded, Filter
            <4> QED BY <2>1, <3>1, <3>4, <3>5, <3>9, <4>1, <4>2, <4>3, WithinStays
        <3>10. ASSUME inorder', NEW r \in rows
               PROVE  Within(r.timestamp, r.x, first', ts, early')
            <4>1. first # None
                BY <3>10 DEF TimeInv
            <4>2. Within(r.timestamp, r.x, first, l, early)
                BY <3>5, <3>10, <4>1 DEF TimeInv, l
            <4>3. r.timestamp \in Nat \cup {None} /\ r.x \in Nat
                BY <2>1 DEF Row
            <4> QED BY <2>1, <3>1, <3>4, <3>5, <3>10, <4>1, <4>2, <4>3, WithinStays
        <3>11. twin'.last_timestamp = ts /\ filter'.last_timestamp = ts
            BY <3>2 DEF ts
        <3> QED BY <3>1, <3>3, <3>4, <3>6, <3>7, <3>8, <3>9, <3>10, <3>11 DEF TimeInv
    <2>3. CASE Export
        <3>1. /\ Kept' = filter /\ payload' = None /\ payload # None
              /\ UNCHANGED <<filter, twin, first, inorder, early>>
              /\ \A r \in rows' : r \in rows \/ r = payload
            BY <2>3, ExportKept DEF Export, Latest
        <3> QED BY <3>1 DEF TimeInv
    <2>4. CASE Reload
        <3>1. /\ filter' = Kept /\ payload' = None /\ cached # None /\ Kept' = Kept
              /\ UNCHANGED <<cached, rows, twin, first, inorder, early>>
            BY <2>4 DEF Reload, Kept
        <3> QED BY <3>1 DEF TimeInv
    <2>5. CASE RestoreFromRow
        <3>1. /\ payload' = None /\ Kept' = Kept
              /\ UNCHANGED <<cached, rows, twin, first, inorder, early>>
              /\ \/ \E r \in rows : filter' = FromRow(r)
                 \/ rows = {} /\ filter' = NewFilter
            BY <2>5 DEF RestoreFromRow, Kept
        <3>2. CASE \E r \in rows : filter' = FromRow(r)
            <4>1. PICK r \in rows : filter' = FromRow(r)
                BY <3>2
            <4>2. filter'.last_timestamp = r.timestamp /\ filter'.x = r.x
                BY <2>1, <4>1, FromRowFacts
            <4> QED BY <3>1, <4>1, <4>2 DEF TimeInv
        <3>3. CASE filter' = NewFilter
            <4>1. filter'.last_timestamp = None /\ filter'.x = 0
                BY <3>3 DEF NewFilter
            <4>2. Within(filter'.last_timestamp, filter'.x, first, twin.last_timestamp, early)
                BY <4>1 DEF Within
            <4> QED BY <3>1, <4>1, <4>2 DEF TimeInv
        <3> QED BY <3>1, <3>2, <3>3
    <2>6. ASSUME NEW mode \in Mode, SetDeviceMode(mode) PROVE TimeInv'
        <3>1. /\ filter'.last_timestamp = filter.last_timestamp /\ filter'.x = filter.x
              /\ twin'.last_timestamp = twin.last_timestamp
              /\ UNCHANGED <<payload, cached, rows, first, inorder, early>> /\ Kept' = Kept
            BY <2>1, <2>6, SwitchedFacts DEF SetDeviceMode, Kept
        <3> QED BY <3>1 DEF TimeInv
    <2>7. CASE UNCHANGED vars
        BY <2>7 DEF vars, TimeInv, Kept
    <2> QED BY <2>2, <2>3, <2>4, <2>5, <2>6, <2>7 DEF Next
<1>3. TypeInv /\ TimeInv => NoTimeCountedTwice
    <2> SUFFICES ASSUME TypeInv, TimeInv, inorder, first # None
                 PROVE  filter.x <= twin.last_timestamp - first + 10 * early
                                       + (IF first = 0 THEN 200 ELSE 100)
        BY DEF NoTimeCountedTwice
    <2>1. /\ filter.x \in Nat /\ first \in Nat /\ early \in Nat /\ twin.last_timestamp \in Nat
          /\ first <= twin.last_timestamp
          /\ Within(filter.last_timestamp, filter.x, first, twin.last_timestamp, early)
        BY DEF TypeInv, TypeOK, Filter, TimeInv
    <2> QED BY <2>1 DEF Within
<1> QED BY <1>1, <1>2, <1>3, TypeInvHolds, PTL DEF Spec
-----------------------------------------------------------------------------
\* iter folds a value that is zero everywhere over the sets of indices, one
\* index of the set after the other.
FoldsZero(D, value, iter) ==
    /\ IsFiniteSet(D)
    /\ \A x \in D : value[x] = 0
    /\ iter[{}] = 0
    /\ \A s \in SUBSET D : s # {} => \E x \in s : iter[s] = iter[s \ {x}] + value[x]

\* If every index adds nothing, so does the whole: a smallest set of indices
\* at which it did not would have an element that can be taken away.
LEMMA ZeroFold ==
    ASSUME NEW D, NEW value, NEW iter, FoldsZero(D, value, iter)
    PROVE  iter[D] = 0
<1>0. /\ IsFiniteSet(D)
      /\ \A x \in D : value[x] = 0
      /\ iter[{}] = 0
      /\ \A s \in SUBSET D : s # {} => \E x \in s : iter[s] = iter[s \ {x}] + value[x]
    BY DEF FoldsZero
<1> SUFFICES ASSUME {s \in SUBSET D : iter[s] # 0} # {}
             PROVE  FALSE
    OBVIOUS
<1>1. IsWellFoundedOn(StrictSubsetOrdering(D), SUBSET D)
    BY <1>0, FS_StrictSubsetOrderingWellFounded, FS_FiniteSubsetsOfFinite
<1>2. PICK s \in {t \in SUBSET D : iter[t] # 0} :
          \A t \in {u \in SUBSET D : iter[u] # 0} : <<t, s>> \notin StrictSubsetOrdering(D)
    <2> DEFINE T == {t \in SUBSET D : iter[t] # 0}
    <2>1. T \subseteq SUBSET D /\ T # {}
        OBVIOUS
    <2> HIDE DEF T
    <2>2. \E x \in T : \A y \in T : ~ (<<y, x>> \in StrictSubsetOrdering(D))
        BY <1>1, <2>1, WFMin
    <2> QED BY <2>2 DEF T
<1>3. s # {}
    BY <1>0, <1>2
<1>4. PICK x \in s : iter[s] = iter[s \ {x}] + value[x]
    BY <1>0, <1>2, <1>3
<1>6. s \ {x} \in SUBSET D /\ s \ {x} # s
    BY <1>2, <1>4
<1>7. <<s \ {x}, s>> \in StrictSubsetOrdering(D)
    BY <1>2, <1>6 DEF StrictSubsetOrdering
<1>8. iter[s \ {x}] = 0
    BY <1>2, <1>6, <1>7
<1>9. value[x] = 0
    BY <1>0, <1>2, <1>4
<1> QED BY <1>2, <1>4, <1>8, <1>9

\* A window of zeros has no variance (np.var of equal values). FoldSeq chooses
\* a function that satisfies its recursion; the one that is zero does.
LEMMA ZerosDoNotVary ==
    ASSUME NEW h \in Seq(Int), \A i \in 1 .. Len(h) : h[i] = 0
    PROVE  ~ Varied(h)
<1> DEFINE D == DOMAIN h
           zero == [s \in SUBSET D |-> 0]
           square == [i \in D |-> h[i] * h[i]]
<1>1. D = 1 .. Len(h) /\ Len(h) \in Nat /\ IsFiniteSet(D) /\ \A i \in D : h[i] = 0
    BY FS_Interval
<1>2. \A s \in SUBSET D : s # {} => (CHOOSE x \in s : TRUE) \in D
    OBVIOUS
<1>3. S!FoldSeq(LAMBDA d, acc : acc + d, 0, h) = 0
    <2> DEFINE Iter == CHOOSE iter : iter = [s \in SUBSET D |->
                  IF s = {} THEN 0
                  ELSE iter[s \ {CHOOSE x \in s : TRUE}] + h[CHOOSE x \in s : TRUE]]
    <2>1. zero = [s \in SUBSET D |->
                     IF s = {} THEN 0
                     ELSE zero[s \ {CHOOSE x \in s : TRUE}] + h[CHOOSE x \in s : TRUE]]
        BY <1>1, <1>2
    <2>2. Iter = [s \in SUBSET D |->
                     IF s = {} THEN 0
                     ELSE Iter[s \ {CHOOSE x \in s : TRUE}] + h[CHOOSE x \in s : TRUE]]
        <3> HIDE DEF zero
        <3> QED BY <2>1
    <2> HIDE DEF Iter
    <2>3. Iter[{}] = 0
        BY <2>2
    <2>4. ASSUME NEW s \in SUBSET D, s # {}
          PROVE  \E x \in s : Iter[s] = Iter[s \ {x}] + h[x]
        <3>1. (CHOOSE x \in s : TRUE) \in s
            BY <2>4
        <3>2. Iter[s] = Iter[s \ {CHOOSE x \in s : TRUE}] + h[CHOOSE x \in s : TRUE]
            BY <2>2, <2>4
        <3> QED BY <3>1, <3>2
    <2>5. Iter[D] = 0
        <3>1. FoldsZero(D, h, Iter)
            BY <1>1, <2>3, <2>4 DEF FoldsZero
        <3> QED BY <3>1, ZeroFold
    <2> QED BY <2>5 DEF Iter, S!FoldSeq, S!FoldFunction, S!FoldFunctionOnSet, S!MapThenFoldSet
<1>4. S!FoldSeq(LAMBDA d, acc : acc + d * d, 0, h) = 0
    <2> DEFINE Iter == CHOOSE iter : iter = [s \in SUBSET D |->
                  IF s = {} THEN 0
                  ELSE iter[s \ {CHOOSE x \in s : TRUE}]
                         + h[CHOOSE x \in s : TRUE] * h[CHOOSE x \in s : TRUE]]
    <2>1. zero = [s \in SUBSET D |->
                     IF s = {} THEN 0
                     ELSE zero[s \ {CHOOSE x \in s : TRUE}]
                            + h[CHOOSE x \in s : TRUE] * h[CHOOSE x \in s : TRUE]]
        BY <1>1, <1>2
    <2>2. Iter = [s \in SUBSET D |->
                     IF s = {} THEN 0
                     ELSE Iter[s \ {CHOOSE x \in s : TRUE}]
                            + h[CHOOSE x \in s : TRUE] * h[CHOOSE x \in s : TRUE]]
        <3> HIDE DEF zero
        <3> QED BY <2>1
    <2> HIDE DEF Iter
    <2>3. Iter[{}] = 0
        BY <2>2
    <2>4. ASSUME NEW s \in SUBSET D, s # {}
          PROVE  \E x \in s : Iter[s] = Iter[s \ {x}] + square[x]
        <3>1. (CHOOSE x \in s : TRUE) \in s
            BY <2>4
        <3>2. Iter[s] = Iter[s \ {CHOOSE x \in s : TRUE}]
                          + h[CHOOSE x \in s : TRUE] * h[CHOOSE x \in s : TRUE]
            BY <2>2, <2>4
        <3>3. ASSUME NEW x \in s PROVE square[x] = h[x] * h[x]
            OBVIOUS
        <3> HIDE DEF square
        <3> QED BY <3>1, <3>2, <3>3
    <2>5. \A i \in D : square[i] = 0
        BY <1>1
    <2> HIDE DEF square
    <2>6. Iter[D] = 0
        <3>1. FoldsZero(D, square, Iter)
            BY <1>1, <2>3, <2>4, <2>5 DEF FoldsZero
        <3> QED BY <3>1, ZeroFold
    <2> QED BY <2>6 DEF Iter, S!FoldSeq, S!FoldFunction, S!FoldFunctionOnSet, S!MapThenFoldSet
<1>5. \A n \in Nat : ~ (n * 0 - 0 * 0 > 15 * n * n)
    OBVIOUS
<1> QED BY <1>1, <1>3, <1>4, <1>5 DEF Varied
-----------------------------------------------------------------------------
\* The last k samples of the window are zero.
Calm(h, k) == \A i \in 1 .. Len(h) : i > Len(h) - k => h[i] = 0

LEMMA SlideCalm ==
    ASSUME NEW h \in Seq(Int), Len(h) <= Window, NEW k \in Nat, Calm(h, k)
    PROVE  Calm(Slide(h, 0), k + 1)
<1>1. CASE Len(h) < Window
    BY <1>1 DEF Slide, Calm
<1>2. CASE ~(Len(h) < Window)
    <2>1. Len(h) = Window /\ h # <<>>
        BY <1>2, KalmanAssumption
    <2> DEFINE t == Tail(h)
    <2>2. t \in Seq(Int) /\ Len(t) = Len(h) - 1 /\ \A i \in 1 .. Len(t) : t[i] = h[i + 1]
        BY <2>1
    <2>3. Slide(h, 0) = Append(t, 0)
        BY <1>2 DEF Slide
    <2> HIDE DEF t
    <2>4. Len(Append(t, 0)) = Len(t) + 1 /\ Append(t, 0)[Len(t) + 1] = 0
        BY <2>2
    <2>5. \A i \in 1 .. Len(t) : Append(t, 0)[i] = t[i]
        BY <2>2
    <2>6. Len(h) \in Nat /\ Len(t) \in Nat
        BY <2>2
    <2>7. ASSUME NEW i \in 1 .. Len(Append(t, 0)), i > Len(Append(t, 0)) - (k + 1)
          PROVE  Append(t, 0)[i] = 0
        <3>1. CASE i = Len(t) + 1
            BY <2>4, <3>1
        <3>2. CASE i # Len(t) + 1
            <4>1. i \in 1 .. Len(t) /\ i + 1 \in 1 .. Len(h) /\ i + 1 > Len(h) - k
                BY <2>2, <2>4, <2>6, <2>7, <3>2
            <4>2. h[i + 1] = 0
                BY <4>1 DEF Calm
            <4> QED BY <2>2, <2>5, <4>1, <4>2
        <3> QED BY <3>1, <3>2
    <2> QED BY <2>3, <2>7 DEF Calm
<1> QED BY <1>1, <1>2

\* The window remembers for how long the device has lain still.
SettleInv ==
    /\ Calm(filter.accel_history, still)
    /\ still = Window => filter.movement_state = "REST"

\* An adaptive packet at rest on a window that is then calm throughout: the
\* device is at rest.
LEMMA CalmRests ==
    ASSUME NEW f, Bounded(f), NEW p \in Packet,
           p.mode = "adaptive", p.deviation = 0, ~ p.turning,
           NEW k \in Nat, Calm(f.accel_history, k), k + 1 >= Window
    PROVE  Processed(f, p).movement_state = "REST"
<1> DEFINE h == Slide(f.accel_history, p.deviation)
<1>1. f.accel_history \in Seq(Int) /\ Len(f.accel_history) <= Window
    BY DEF Bounded, Filter
<1>2. h \in Seq(Int) /\ Len(h) <= Window /\ Calm(h, k + 1)
    BY <1>1, SlideBounded, SlideCalm
<1>3. \A i \in 1 .. Len(h) : h[i] = 0
    BY <1>2, KalmanAssumption DEF Calm
<1>4. ~ Varied(h)
    BY <1>2, <1>3, ZerosDoNotVary
<1>5. ~ IsMoving(p, h)
    BY <1>4 DEF IsMoving, Shaken
<1> HIDE DEF h
<1> DEFINE g == [f EXCEPT !.last_timestamp = p.timestamp, !.accel_history = h]
<1>6. Processed(f, p) = Rest(g)
    BY <1>5 DEF Processed, h
<1>7. g \in Filter
    BY <1>2, KalmanAssumption DEF Bounded, Filter
<1> HIDE DEF g
<1> QED BY <1>6, <1>7 DEF Rest, Filter

\* The window of a processed filter.
LEMMA ProcessedHistory ==
    ASSUME NEW f, Bounded(f), NEW p \in Packet
    PROVE  Processed(f, p).accel_history = Slide(f.accel_history, p.deviation)
<1> DEFINE h == Slide(f.accel_history, p.deviation)
           g == [f EXCEPT !.last_timestamp = p.timestamp, !.accel_history = h]
<1>1. h \in Seq(Int)
    BY SlideBounded, KalmanAssumption DEF Bounded, Filter
<1> HIDE DEF h
<1>2. g \in Filter /\ g.accel_history = h
    BY <1>1, KalmanAssumption DEF Bounded, Filter
<1>3. Processed(f, p) \in {Move(g, p, Dt(f, p.timestamp)), Rest(g)}
    BY DEF Processed, h
<1> HIDE DEF g
<1>4. Rest(g).accel_history = h /\ Move(g, p, Dt(f, p.timestamp)).accel_history = h
    BY <1>2 DEF Rest, Move, Filter
<1> QED BY <1>3, <1>4 DEF h

\* A device that lies still through a whole window is at rest, and stays so
\* through reloads: predict's variance and process_sample, for every length
\* of the window and every stream of packets before.
THEOREM StillSettles == Spec => []SettlesAtRest
<1>1. Init => SettleInv
    BY KalmanAssumption DEF Init, SettleInv, NewFilter, Calm
<1>2. TypeInv /\ CacheInv /\ SettleInv /\ [Next]_vars => SettleInv'
    <2> SUFFICES ASSUME TypeInv, CacheInv, SettleInv, [Next]_vars PROVE SettleInv'
        OBVIOUS
    <2>1. Bounded(filter) /\ still \in 0 .. Window /\ Window \in Nat \ {0}
        BY KalmanAssumption DEF TypeInv, TypeOK, Bounded
    <2>2. filter.accel_history \in Seq(Int) /\ Len(filter.accel_history) <= Window
        BY <2>1 DEF Bounded, Filter
    <2>3. ASSUME NEW p \in Packet, NEW raises \in BOOLEAN, ProcessSample(p, raises)
          PROVE  SettleInv'
        <3>1. filter' = Processed(filter, p)
            BY <2>3 DEF ProcessSample
        <3>2. filter'.accel_history = Slide(filter.accel_history, p.deviation)
            BY <2>1, <3>1, ProcessedHistory
        <3>4. CASE p.mode = "adaptive" /\ p.deviation = 0 /\ ~p.turning
            <4>1. still' = IF still < Window THEN still + 1 ELSE still
                BY <2>3, <3>4 DEF ProcessSample
            <4>2. Calm(filter.accel_history, still)
                BY DEF SettleInv
            <4>3. Calm(filter'.accel_history, still + 1)
                BY <2>1, <2>2, <3>2, <3>4, <4>2, SlideCalm
            <4>4. Len(filter'.accel_history) <= Window /\ filter'.accel_history \in Seq(Int)
                BY <2>1, <3>1, ProcessedFacts DEF Bounded, Filter
            <4>5. Calm(filter'.accel_history, still')
                <5> DEFINE g == filter'.accel_history
                <5>1. ASSUME NEW i \in 1 .. Len(g), i > Len(g) - still' PROVE g[i] = 0
                    <6>1. Len(g) \in Nat /\ Len(g) <= Window /\ \A l \in 1 .. Len(g) : l > Len(g) - (still + 1) => g[l] = 0
                        BY <4>3, <4>4 DEF Calm
                    <6> HIDE DEF g
                    <6>2. i > Len(g) - (still + 1)
                        BY <2>1, <4>1, <5>1, <6>1
                    <6> QED BY <5>1, <6>1, <6>2
                <5> QED BY <5>1 DEF Calm
            <4>6. still' = Window => filter'.movement_state = "REST"
                <5>1. still' = Window => still + 1 >= Window /\ still \in Nat
                    BY <2>1, <4>1
                <5> QED BY <2>1, <3>1, <3>4, <4>2, <5>1, CalmRests
            <4> QED BY <4>5, <4>6 DEF SettleInv
        <3>5. CASE ~(p.mode = "adaptive" /\ p.deviation = 0 /\ ~p.turning)
            <4>1. still' = 0
                BY <2>3, <3>5 DEF ProcessSample
            <4>2. filter'.accel_history \in Seq(Int)
                BY <2>1, <3>1, ProcessedFacts DEF Bounded, Filter
            <4> QED BY <2>1, <4>1, <4>2 DEF SettleInv, Calm
        <3> QED BY <3>4, <3>5
    <2>4. CASE Export
        BY <2>4 DEF Export, SettleInv, Calm
    <2>5. CASE Reload
        <3>1. filter' = Kept /\ cached # None /\ still' = IF unsaved = {} THEN still ELSE 0
            BY <2>5 DEF Reload, Kept
        <3>2. CASE unsaved = {}
            BY <3>1, <3>2 DEF SettleInv, CacheInv, Calm
        <3>3. CASE unsaved # {}
            <4>1. filter'.accel_history \in Seq(Int) /\ still' = 0
                BY <3>1, <3>3, KeptFacts DEF Bounded, Filter
            <4> QED BY <2>1, <4>1 DEF SettleInv, Calm
        <3> QED BY <3>2, <3>3
    <2>6. CASE RestoreFromRow
        <3>1. filter'.accel_history = <<>> /\ still' = 0
            BY <2>6 DEF RestoreFromRow, FromRow, NewFilter
        <3> QED BY <2>1, <3>1 DEF SettleInv, Calm
    <2>7. ASSUME NEW mode \in Mode, SetDeviceMode(mode) PROVE SettleInv'
        <3>1. Bounded(filter') /\ still' = 0
            BY <2>1, <2>7, SwitchedFacts DEF SetDeviceMode
        <3>2. filter'.accel_history \in Seq(Int)
            BY <3>1 DEF Bounded, Filter
        <3> QED BY <2>1, <3>1, <3>2 DEF SettleInv, Calm
    <2>8. CASE UNCHANGED vars
        BY <2>8 DEF vars, SettleInv, Calm
    <2> QED BY <2>3, <2>4, <2>5, <2>6, <2>7, <2>8 DEF Next
<1>3. SettleInv => SettlesAtRest
    BY DEF SettleInv, SettlesAtRest
<1> QED BY <1>1, <1>2, <1>3, TypeInvHolds, CacheInvHolds, PTL DEF Spec
=============================================================================
