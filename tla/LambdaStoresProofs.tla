------------------------- MODULE LambdaStoresProofs -------------------------
(***************************************************************************)
(* Proofs about LambdaStores for every set of devices, packets, jobs and   *)
(* connections and every number of deliveries.                             *)
(***************************************************************************)
EXTENDS LambdaStores, FiniteSetTheorems, SequenceTheorems, WellFoundedInduction, TLAPS

\* The types the proofs need, for the state items and the jobs.
StateType ==
    /\ state \in [Device -> Item \cup {None}]
    /\ versions \in [Device -> SUBSET (Item \cup {None})]
    /\ pc \in [Job -> {"idle", "read", "put"}]
    /\ seen \in [Job -> Filter \cup {None}]
    /\ stale \subseteq Job
    /\ accepted \in [Job -> Nat]
    /\ raced \subseteq Device

\* The filter stored for a device, None if there is none.
Stored(d) == FilterOf(state[d])

\* A device's stored filter has the accepted jobs behind it, in time, and in
\* content too unless a put on a stale read got in; and what an invocation
\* that is not stale has read is what is stored.
StoreInv ==
    /\ StateType
    /\ \A j \in Job :
          /\ accepted[j] <= 1
          /\ accepted[j] > 0 =>
                /\ Stored(DeviceOfJob(j)) # None
                /\ LastTime(j) <= Stored(DeviceOfJob(j)).last_timestamp
          /\ pc[j] = "read" /\ j \notin stale => seen[j] = Stored(DeviceOfJob(j))
    /\ AcceptedStays
-----------------------------------------------------------------------------
\* Jobs belong to a device and leave the filter at some time.
LEMMA JobFacts ==
    ASSUME NEW j \in Job
    PROVE  /\ DeviceOfJob(j) \in Device
           /\ Chunk[j] \in SUBSET Packet
           /\ LastTime(j) \in Nat
<1>1. Chunk[j] \in SUBSET Packet /\ Chunk[j] # {}
    BY StoresAssumption
<1>2. DeviceOfJob(j) \in Device
    BY <1>1, StoresAssumption DEF DeviceOfJob
<1>3. PICK p \in Chunk[j] : \A q \in Chunk[j] : q.seq <= p.seq
    BY StoresAssumption
<1>4. LastTime(j) \in Nat
    BY <1>1, <1>3, StoresAssumption DEF LastTime
<1> QED BY <1>1, <1>2, <1>4

\* What is stored is a filter, and an item is told from None.
LEMMA StoredType ==
    ASSUME StateType, NEW d \in Device
    PROVE  Stored(d) \in Filter \cup {None}
BY DEF StateType, Stored, FilterOf, Item

LEMMA ProcessedFacts ==
    ASSUME StateType, NEW j \in Job
    PROVE  /\ Processed(j) \in Filter
           /\ Processed(j) # None
           /\ Processed(j).last_timestamp = LastTime(j)
           /\ Processed(j).fused = Chunk[j] \cup (IF seen[j] = None THEN {} ELSE seen[j].fused)
BY JobFacts, StoresAssumption DEF Processed, Filter, StateType

\* The condition of put_device_state, said of the stored filter.
LEMMA NewerFacts ==
    ASSUME NEW d \in Device, NEW ts
    PROVE  Newer(state[d], ts) <=> (Stored(d) = None \/ Stored(d).last_timestamp < ts)
BY DEF Newer, Stored, FilterOf

\* Storing an item of a device: it is the device's, and a version of it.
LEMMA StoreFacts ==
    ASSUME StateType, NEW d0 \in Device, NEW item \in Item, Store(d0, item)
    PROVE  /\ state' \in [Device -> Item \cup {None}]
           /\ versions' \in [Device -> SUBSET (Item \cup {None})]
           /\ \A d \in Device : Stored(d)' = IF d = d0 THEN item.kf ELSE Stored(d)
<1>1. /\ state' = [state EXCEPT ![d0] = item]
      /\ versions' = [versions EXCEPT ![d0] = @ \cup {Version(item)}]
    BY DEF Store
<1>2. item # None
    BY StoresAssumption
<1>3. Version(item) \in Item
    BY <1>2 DEF Version, Item
<1>4. state' \in [Device -> Item \cup {None}]
    BY <1>1 DEF StateType
<1>5. versions' \in [Device -> SUBSET (Item \cup {None})]
    BY <1>1, <1>3 DEF StateType
<1>6. \A d \in Device : Stored(d)' = IF d = d0 THEN item.kf ELSE Stored(d)
    BY <1>1, <1>2 DEF StateType, Stored, FilterOf
<1> QED BY <1>4, <1>5, <1>6

\* What a read returns is a filter or None.
LEMMA VersionFilter ==
    ASSUME StateType, NEW d \in Device, NEW item \in versions[d]
    PROVE  FilterOf(item) \in Filter \cup {None}
<1>1. item \in Item \cup {None}
    BY DEF StateType
<1> QED BY <1>1 DEF FilterOf, Item

\* A put that succeeds: the device has the new filter, the others keep theirs.
LEMMA PutFacts ==
    ASSUME StateType, NEW j \in Job, PutDeviceState(j),
           Newer(state[DeviceOfJob(j)], LastTime(j))
    PROVE  /\ StateType'
           /\ \A d \in Device : Stored(d)' = IF d = DeviceOfJob(j) THEN Processed(j) ELSE Stored(d)
           /\ accepted' = [accepted EXCEPT ![j] = @ + 1]
           /\ raced' = IF j \in stale THEN raced \cup {DeviceOfJob(j)} ELSE raced
           /\ stale' = stale \cup {i \in Job : DeviceOfJob(i) = DeviceOfJob(j)}
           /\ pc' = [pc EXCEPT ![j] = "put"]
           /\ seen' = [seen EXCEPT ![j] = None]
<1> DEFINE d0 == DeviceOfJob(j)
           item == [kf |-> Processed(j), pending_mode |-> None]
<1>1. d0 \in Device /\ Processed(j) \in Filter /\ Processed(j).last_timestamp = LastTime(j)
    BY JobFacts, ProcessedFacts
<1>2. item \in Item
    BY <1>1, StoresAssumption DEF Item
<1>3. /\ Store(d0, item)
      /\ accepted' = [accepted EXCEPT ![j] = @ + 1]
      /\ raced' = IF j \in stale THEN raced \cup {d0} ELSE raced
      /\ stale' = stale \cup {i \in Job : DeviceOfJob(i) = d0}
      /\ pc' = [pc EXCEPT ![j] = "put"]
      /\ seen' = [seen EXCEPT ![j] = None]
    BY <1>1 DEF PutDeviceState
<1> HIDE DEF item, d0
<1>4. /\ state' \in [Device -> Item \cup {None}]
      /\ versions' \in [Device -> SUBSET (Item \cup {None})]
      /\ \A d \in Device : Stored(d)' = IF d = d0 THEN item.kf ELSE Stored(d)
    BY <1>1, <1>2, <1>3, StoreFacts
<1>5. StateType'
    BY <1>1, <1>3, <1>4 DEF StateType
<1> QED BY <1>3, <1>4, <1>5 DEF d0, item

\* Steps that leave the stored filters alone.
LEMMA KeptFacts ==
    ASSUME StoreInv, StateType', \A d \in Device : Stored(d)' = Stored(d),
           UNCHANGED <<accepted, raced>>,
           \A j \in Job : pc'[j] = "read" /\ j \notin stale'
              => \/ seen'[j] = Stored(DeviceOfJob(j))
                 \/ pc[j] = "read" /\ j \notin stale /\ seen'[j] = seen[j]
    PROVE  StoreInv'
<1>1. \A j \in Job : DeviceOfJob(j) \in Device
    BY JobFacts
<1>2. AcceptedStays'
    BY <1>1 DEF StoreInv, AcceptedStays, Stored, FilterOf
<1> QED BY <1>1, <1>2 DEF StoreInv
-----------------------------------------------------------------------------
LEMMA StoreInvInit == Init => StoreInv
<1> SUFFICES ASSUME Init PROVE StoreInv
    OBVIOUS
<1>1. StateType
    BY DEF Init, StateType
<1>2. \A j \in Job : accepted[j] = 0 /\ pc[j] = "idle"
    BY DEF Init
<1> QED BY <1>1, <1>2 DEF StoreInv, AcceptedStays

LEMMA StoreInvNext == StoreInv /\ [Next]_vars => StoreInv'
<1> SUFFICES ASSUME StoreInv, [Next]_vars PROVE StoreInv'
    OBVIOUS
<1>0. StateType
    BY DEF StoreInv
<1>1. ASSUME NEW j \in Job, GetDeviceState(j) PROVE StoreInv'
    <2>1. DeviceOfJob(j) \in Device
        BY JobFacts
    <2>2. UNCHANGED <<state, versions, accepted, raced>>
        BY <1>1 DEF GetDeviceState
    <2>3. \A d \in Device : Stored(d)' = Stored(d)
        BY <2>2 DEF Stored
    <2>4. CASE UNCHANGED <<pc, seen, stale>>
        <3>1. StateType'
            BY <1>0, <2>2, <2>4 DEF StateType
        <3> QED BY <2>2, <2>3, <2>4, <3>1, KeptFacts
    <2>5. ASSUME NEW item \in versions[DeviceOfJob(j)],
                 seen' = [seen EXCEPT ![j] = FilterOf(item)],
                 pc' = [pc EXCEPT ![j] = "read"],
                 stale' = IF FilterOf(item) = Stored(DeviceOfJob(j))
                          THEN stale \ {j} ELSE stale \cup {j}
          PROVE  StoreInv'
        <3>1. StateType'
            <4>1. FilterOf(item) \in Filter \cup {None}
                BY <1>0, <2>1, VersionFilter
            <4>2. seen' \in [Job -> Filter \cup {None}]
                BY <1>0, <2>5, <4>1 DEF StateType
            <4>3. stale' \subseteq Job
                BY <1>0, <2>5 DEF StateType
            <4> QED BY <1>0, <2>2, <2>5, <4>2, <4>3 DEF StateType
        <3>2. ASSUME NEW i \in Job, pc'[i] = "read", i \notin stale'
              PROVE  \/ seen'[i] = Stored(DeviceOfJob(i))
                     \/ pc[i] = "read" /\ i \notin stale /\ seen'[i] = seen[i]
            <4>1. CASE i = j
                BY <1>0, <2>5, <3>2, <4>1 DEF StateType
            <4>2. CASE i # j
                <5>1. pc'[i] = pc[i] /\ seen'[i] = seen[i]
                    BY <1>0, <2>5, <4>2 DEF StateType
                <5>2. i \notin stale
                    BY <2>5, <3>2, <4>2
                <5> QED BY <3>2, <5>1, <5>2
            <4> QED BY <4>1, <4>2
        <3> QED BY <2>2, <2>3, <3>1, <3>2, KeptFacts
    <2> QED BY <1>1, <2>4, <2>5 DEF GetDeviceState, Stored
<1>2. ASSUME NEW j \in Job, PutDeviceState(j) PROVE StoreInv'
    <2> DEFINE d0 == DeviceOfJob(j)
    <2>1. d0 \in Device /\ LastTime(j) \in Nat /\ Processed(j).last_timestamp = LastTime(j)
        BY <1>0, JobFacts, ProcessedFacts
    <2>2. CASE ~Newer(state[d0], LastTime(j))
        <3>1. /\ UNCHANGED <<state, versions, accepted, raced, stale>>
              /\ pc' = [pc EXCEPT ![j] = "idle"]
              /\ seen' = [seen EXCEPT ![j] = None]
            BY <1>2, <2>1, <2>2 DEF PutDeviceState
        <3>2. StateType'
            BY <1>0, <3>1 DEF StateType
        <3>3. \A d \in Device : Stored(d)' = Stored(d)
            BY <3>1 DEF Stored
        <3>4. \A i \in Job : pc'[i] = "read" => pc[i] = "read" /\ seen'[i] = seen[i]
            BY <1>0, <3>1 DEF StateType
        <3> QED BY <3>1, <3>2, <3>3, <3>4, KeptFacts
    <2>3. CASE Newer(state[d0], LastTime(j))
        <3>1. /\ StateType'
              /\ \A d \in Device : Stored(d)' = IF d = d0 THEN Processed(j) ELSE Stored(d)
              /\ accepted' = [accepted EXCEPT ![j] = @ + 1]
              /\ raced' = IF j \in stale THEN raced \cup {d0} ELSE raced
              /\ stale' = stale \cup {i \in Job : DeviceOfJob(i) = d0}
              /\ pc' = [pc EXCEPT ![j] = "put"]
              /\ seen' = [seen EXCEPT ![j] = None]
            BY <1>0, <1>2, <2>3, PutFacts
        <3>2. /\ Processed(j) \in Filter
              /\ Processed(j) # None
              /\ Processed(j).fused = Chunk[j] \cup (IF seen[j] = None THEN {} ELSE seen[j].fused)
            BY <1>0, ProcessedFacts
        <3>3. Stored(d0) = None \/ Stored(d0).last_timestamp < LastTime(j)
            BY <2>1, <2>3, NewerFacts
        <3>4. Stored(d0) \in Filter \cup {None}
            BY <1>0, <2>1, StoredType
        <3>5. pc[j] = "read"
            BY <1>2 DEF PutDeviceState
        <3> HIDE DEF d0
        <3>6. accepted[j] = 0
            <4>1. SUFFICES ASSUME accepted[j] > 0 PROVE FALSE
                BY <1>0 DEF StateType
            <4>2. /\ Stored(d0) # None
                  /\ LastTime(j) <= Stored(d0).last_timestamp
                BY <4>1 DEF StoreInv, d0
            <4>3. Stored(d0).last_timestamp \in Nat
                BY <3>4, <4>2 DEF Filter
            <4> QED BY <2>1, <3>3, <4>2, <4>3
        <3>7. ASSUME NEW i \in Job
              PROVE  /\ accepted'[i] <= 1
                     /\ accepted'[i] > 0 =>
                           /\ Stored(DeviceOfJob(i))' # None
                           /\ LastTime(i) <= Stored(DeviceOfJob(i))'.last_timestamp
            <4>0. DeviceOfJob(i) \in Device /\ LastTime(i) \in Nat
                BY JobFacts
            <4>1. CASE i = j
                BY <1>0, <2>1, <3>1, <3>2, <3>6, <4>1 DEF StateType, d0
            <4>2. CASE i # j /\ DeviceOfJob(i) # d0
                <5>1. accepted'[i] = accepted[i]
                    BY <1>0, <3>1, <4>2 DEF StateType
                <5>2. Stored(DeviceOfJob(i))' = Stored(DeviceOfJob(i))
                    BY <3>1, <4>0, <4>2
                <5> QED BY <5>1, <5>2 DEF StoreInv
            <4>3. CASE i # j /\ DeviceOfJob(i) = d0
                <5>1. accepted'[i] = accepted[i] /\ accepted[i] <= 1
                    BY <1>0, <3>1, <4>3 DEF StateType, StoreInv
                <5>2. Stored(d0)' = Processed(j)
                    BY <2>1, <3>1
                <5>3. ASSUME accepted[i] > 0 PROVE LastTime(i) <= LastTime(j)
                    <6>1. Stored(d0) # None /\ LastTime(i) <= Stored(d0).last_timestamp
                        BY <4>3, <5>3 DEF StoreInv
                    <6>2. Stored(d0).last_timestamp \in Nat
                        BY <3>4, <6>1 DEF Filter
                    <6> QED BY <2>1, <3>3, <4>0, <6>1, <6>2
                <5> QED BY <2>1, <3>2, <4>3, <5>1, <5>2, <5>3
            <4> QED BY <4>1, <4>2, <4>3
        <3>8. ASSUME NEW i \in Job, pc'[i] = "read", i \notin stale'
              PROVE  seen'[i] = Stored(DeviceOfJob(i))'
            <4>1. i # j /\ DeviceOfJob(i) # d0 /\ DeviceOfJob(i) \in Device
                BY <1>0, <3>1, <3>8, JobFacts DEF StateType
            <4>2. pc[i] = "read" /\ i \notin stale /\ seen'[i] = seen[i]
                BY <1>0, <3>1, <3>8, <4>1 DEF StateType
            <4>3. Stored(DeviceOfJob(i))' = Stored(DeviceOfJob(i))
                BY <3>1, <4>1
            <4> QED BY <4>2, <4>3 DEF StoreInv
        <3>9. ASSUME NEW i \in Job, accepted'[i] > 0, DeviceOfJob(i) \notin raced'
              PROVE  Chunk[i] \subseteq Stored(DeviceOfJob(i))'.fused
            <4>0. DeviceOfJob(i) \in Device
                BY JobFacts
            <4>1. CASE i = j
                BY <3>1, <3>2, <4>0, <4>1 DEF d0
            <4>2. CASE i # j
                <5>1. accepted[i] > 0 /\ DeviceOfJob(i) \notin raced
                    BY <1>0, <3>1, <3>9, <4>2 DEF StateType
                <5>2. /\ Stored(DeviceOfJob(i)) # None
                      /\ Chunk[i] \subseteq Stored(DeviceOfJob(i)).fused
                    BY <5>1 DEF StoreInv, AcceptedStays, Stored, FilterOf
                <5>3. CASE DeviceOfJob(i) # d0
                    <6>1. Stored(DeviceOfJob(i))' = Stored(DeviceOfJob(i))
                        BY <3>1, <4>0, <5>3
                    <6> QED BY <5>2, <6>1
                <5>4. CASE DeviceOfJob(i) = d0
                    <6>1. j \notin stale
                        BY <3>1, <3>9, <5>4
                    <6>2. seen[j] = Stored(d0)
                        BY <3>5, <6>1 DEF StoreInv, d0
                    <6>3. Stored(d0)' = Processed(j)
                        BY <2>1, <3>1
                    <6> QED BY <3>2, <5>2, <5>4, <6>2, <6>3
                <5> QED BY <5>3, <5>4
            <4> QED BY <4>1, <4>2
        <3>10. AcceptedStays'
            <4>1. \A i \in Job : accepted'[i] > 0 => Stored(DeviceOfJob(i))' # None
                BY <3>7
            <4> QED BY <3>9, <4>1 DEF AcceptedStays, Stored, FilterOf
        <3> QED BY <3>1, <3>7, <3>8, <3>10 DEF StoreInv
    <2> QED BY <2>2, <2>3
<1>3. ASSUME NEW j \in Job, SavePoints(j) \/ Dies(j) PROVE StoreInv'
    <2>1. UNCHANGED <<state, versions, stale, accepted, raced>>
        BY <1>3 DEF SavePoints, Dies
    <2>2. pc' = [pc EXCEPT ![j] = "idle"] /\ (seen' = seen \/ seen' = [seen EXCEPT ![j] = None])
        BY <1>3 DEF SavePoints, Dies
    <2>3. StateType'
        BY <1>0, <2>1, <2>2 DEF StateType
    <2>4. \A d \in Device : Stored(d)' = Stored(d)
        BY <2>1 DEF Stored
    <2>5. \A i \in Job : pc'[i] = "read" => pc[i] = "read" /\ seen'[i] = seen[i]
        BY <1>0, <2>2 DEF StateType
    <2> QED BY <2>1, <2>3, <2>4, <2>5, KeptFacts
<1>4. ASSUME NEW d0 \in Device, NEW m \in Mode \cup {None}, UpdatePendingMode(d0, m)
      PROVE  StoreInv'
    <2> DEFINE item == [kf |-> Stored(d0), pending_mode |-> m]
    <2>1. item \in Item
        BY <1>0, StoredType DEF Item
    <2>2. Store(d0, item) /\ UNCHANGED <<pc, seen, stale, accepted, raced>>
        BY <1>4 DEF UpdatePendingMode, Stored
    <2>3. item.kf = Stored(d0)
        OBVIOUS
    <2> HIDE DEF item
    <2>4. /\ state' \in [Device -> Item \cup {None}]
          /\ versions' \in [Device -> SUBSET (Item \cup {None})]
          /\ \A d \in Device : Stored(d)' = IF d = d0 THEN item.kf ELSE Stored(d)
        BY <1>0, <2>1, <2>2, StoreFacts
    <2>5. StateType'
        BY <1>0, <2>2, <2>4 DEF StateType
    <2>6. \A d \in Device : Stored(d)' = Stored(d)
        BY <2>3, <2>4
    <2> QED BY <2>2, <2>5, <2>6, KeptFacts
<1>5. ASSUME NEW d \in Device, NEW m \in Mode, SetPendingMode(d, m) PROVE StoreInv'
    BY <1>4, <1>5 DEF SetPendingMode
<1>6. ASSUME NEW d \in Device, ConsumePendingMode(d) PROVE StoreInv'
    BY <1>4, <1>6 DEF ConsumePendingMode
<1>7. CASE UNCHANGED stateVars
    <2>1. StateType' /\ \A d \in Device : Stored(d)' = Stored(d)
        BY <1>0, <1>7 DEF stateVars, StateType, Stored
    <2> QED BY <1>7, <2>1, KeptFacts DEF stateVars
<1>8. CASE Next
    <2>1. ASSUME NEW c \in Conn, RegisterConnection(c) \/ Leave(c) \/ UnregisterConnection(c) \/ IndexCatchesUp(c)
          PROVE  UNCHANGED stateVars
        BY <2>1 DEF RegisterConnection, Leave, UnregisterConnection, IndexCatchesUp
    <2> QED BY <1>8, <1>1, <1>2, <1>3, <1>5, <1>6, <1>7, <2>1 DEF Next
<1> QED BY <1>7, <1>8 DEF vars

LEMMA StoreInvHolds == Spec => []StoreInv
BY StoreInvInit, StoreInvNext, PTL DEF Spec

\* No redelivery gets a job fused twice.
THEOREM JobsFusedOnce == Spec => []FusedOnce
<1>1. StoreInv => FusedOnce
    BY DEF StoreInv, FusedOnce
<1> QED BY <1>1, StoreInvHolds, PTL

\* Whatever version each read returns, an accepted job stays in the filter as
\* long as no invocation that had not read it puts.
THEOREM AcceptedJobsStay == Spec => []AcceptedStays
<1>1. StoreInv => AcceptedStays
    BY DEF StoreInv
<1> QED BY <1>1, StoreInvHolds, PTL
-----------------------------------------------------------------------------
\* The condition of the put makes the stored filter of a device move forward,
\* and nothing else touches it.
THEOREM StateOnlyMovesForward == Spec => StateMovesForward
<1> DEFINE Forward == \A d \in Device :
                         state[d] # None /\ state[d].kf # None =>
                            /\ state'[d] # None
                            /\ state'[d].kf # None
                            /\ state[d].kf.last_timestamp <= state'[d].kf.last_timestamp
<1>1. StoreInv /\ [Next]_vars => Forward
    <2> SUFFICES ASSUME StoreInv, [Next]_vars, NEW d \in Device,
                        state[d] # None, state[d].kf # None
                 PROVE  /\ state'[d] # None
                        /\ state'[d].kf # None
                        /\ state[d].kf.last_timestamp <= state'[d].kf.last_timestamp
        OBVIOUS
    <2>1. StateType
        BY DEF StoreInv
    <2>2. state[d] \in Item /\ state[d].kf \in Filter /\ state[d].kf.last_timestamp \in Nat
        BY <2>1 DEF StateType, Item, Filter
    <2>3. CASE state'[d] = state[d]
        BY <2>2, <2>3
    <2>4. ASSUME NEW j \in Job, PutDeviceState(j), state'[d] # state[d]
          PROVE  /\ state'[d] # None
                 /\ state'[d].kf # None
                 /\ state[d].kf.last_timestamp <= state'[d].kf.last_timestamp
        <3>1. Processed(j).last_timestamp = LastTime(j) /\ LastTime(j) \in Nat
            BY <2>1, ProcessedFacts, JobFacts
        <3>2. DeviceOfJob(j) = d /\ Newer(state[d], LastTime(j))
            BY <2>1, <2>4, <3>1 DEF PutDeviceState, Store, StateType
        <3>3. StateType' /\ Stored(d)' = Processed(j) /\ Processed(j) # None
            BY <2>1, <2>4, <3>2, PutFacts, ProcessedFacts
        <3>4. state'[d] # None /\ state'[d].kf = Processed(j)
            BY <3>3 DEF Stored, FilterOf
        <3>5. state[d].kf.last_timestamp < LastTime(j)
            BY <3>2 DEF Newer
        <3> QED BY <2>2, <3>1, <3>3, <3>4, <3>5
    <2>5. ASSUME NEW b \in Device, NEW m \in Mode \cup {None}, UpdatePendingMode(b, m)
          PROVE  /\ state'[d] # None
                 /\ state'[d].kf # None
                 /\ state[d].kf.last_timestamp <= state'[d].kf.last_timestamp
        <3>1. state' = [state EXCEPT ![b] = [kf |-> FilterOf(state[b]), pending_mode |-> m]]
            BY <2>5 DEF UpdatePendingMode, Store
        <3>2. CASE d # b
            BY <2>1, <2>3, <3>1, <3>2 DEF StateType
        <3>3. CASE d = b
            <4>1. state'[d] = [kf |-> state[d].kf, pending_mode |-> m]
                BY <2>1, <3>1, <3>3 DEF StateType, FilterOf
            <4>2. state'[d].kf = state[d].kf /\ state'[d] \in Item
                BY <2>2, <4>1 DEF Item
            <4> QED BY <2>2, <4>2, StoresAssumption
        <3> QED BY <3>2, <3>3
    <2>6. ASSUME NEW b \in Device, NEW m \in Mode, SetPendingMode(b, m)
          PROVE  UpdatePendingMode(b, m)
        BY <2>6 DEF SetPendingMode
    <2>7. ASSUME NEW b \in Device, ConsumePendingMode(b)
          PROVE  UpdatePendingMode(b, None)
        BY <2>7 DEF ConsumePendingMode
    <2>8. CASE UNCHANGED state
        BY <2>3, <2>8
    <2>9. CASE Next
        <3>1. CASE \E j \in Job : GetDeviceState(j) \/ SavePoints(j) \/ Dies(j)
            BY <2>8, <3>1 DEF GetDeviceState, SavePoints, Dies
        <3>2. CASE \E c \in Conn : RegisterConnection(c) \/ Leave(c) \/ UnregisterConnection(c) \/ IndexCatchesUp(c)
            BY <2>8, <3>2 DEF RegisterConnection, Leave, UnregisterConnection, IndexCatchesUp, stateVars
        <3>3. CASE \E j \in Job : PutDeviceState(j)
            BY <2>3, <2>4, <3>3
        <3>4. CASE \E b \in Device, m \in Mode : SetPendingMode(b, m)
            BY <2>5, <2>6, <3>4
        <3>5. CASE \E b \in Device : ConsumePendingMode(b)
            BY <2>5, <2>7, <3>5
        <3> QED BY <2>9, <3>1, <3>2, <3>3, <3>4, <3>5 DEF Next
    <2> QED BY <2>8, <2>9 DEF vars, stateVars
<1>2. [][Forward]_vars => StateMovesForward
    BY PTL DEF StateMovesForward
<1> QED BY <1>1, <1>2, StoreInvHolds, PTL DEF Spec
-----------------------------------------------------------------------------
\* An item of table Connections carries the position of its $connect, and
\* stays until the $disconnect of its own connection; so does what the index
\* shows, however late.
ConnInv ==
    /\ opened \in Seq(Conn)
    /\ connections \in [Conn -> Nat \cup {None}]
    /\ index \in [Conn -> Nat \cup {None}]
    /\ client \in [Conn -> {"new", "open", "gone", "closed"}]
    /\ \A k \in 1 .. Len(opened) :
          /\ client[opened[k]] # "new"
          /\ client[opened[k]] \in {"open", "gone"} => connections[opened[k]] = k
    /\ \A c \in Conn : \A k \in {connections[c], index[c]} :
          k # None => k \in 1 .. Len(opened) /\ opened[k] = c

LEMMA ConnInvNext == ConnInv /\ [Next]_vars => ConnInv'
<1> SUFFICES ASSUME ConnInv, [Next]_vars PROVE ConnInv'
    OBVIOUS
<1> USE DEF ConnInv
<1>1. ASSUME NEW c \in Conn, RegisterConnection(c) PROVE ConnInv'
    <2>1. /\ client[c] = "new"
          /\ client' = [client EXCEPT ![c] = "open"]
          /\ opened' = Append(opened, c)
          /\ connections' = [connections EXCEPT ![c] = Len(opened')]
          /\ index' = index
        BY <1>1 DEF RegisterConnection
    <2>2. /\ opened' \in Seq(Conn)
          /\ Len(opened') = Len(opened) + 1
          /\ opened'[Len(opened')] = c
          /\ \A k \in 1 .. Len(opened) : opened'[k] = opened[k] /\ opened[k] \in Conn
        BY <2>1
    <2>3. \A k \in 1 .. Len(opened) : opened[k] # c
        BY <2>1
    <2>4. ASSUME NEW k \in 1 .. Len(opened')
          PROVE  /\ client'[opened'[k]] # "new"
                 /\ client'[opened'[k]] \in {"open", "gone"} => connections'[opened'[k]] = k
        <3>1. CASE k = Len(opened')
            BY <2>1, <2>2, <3>1
        <3>2. CASE k # Len(opened')
            <4>1. k \in 1 .. Len(opened)
                BY <2>2, <3>2
            <4>2. opened'[k] = opened[k] /\ opened[k] # c /\ opened[k] \in Conn
                BY <2>2, <2>3, <4>1
            <4> QED BY <2>1, <4>1, <4>2
        <3> QED BY <3>1, <3>2
    <2>5. ASSUME NEW b \in Conn, NEW k \in {connections'[b], index'[b]}, k # None
          PROVE  k \in 1 .. Len(opened') /\ opened'[k] = b
        <3>1. CASE k = Len(opened') /\ b = c
            BY <2>2, <3>1
        <3>2. CASE k \in {connections[b], index[b]}
            <4>1. k \in 1 .. Len(opened) /\ opened[k] = b
                BY <2>5, <3>2
            <4> QED BY <2>2, <4>1
        <3> QED BY <2>1, <2>5, <3>1, <3>2
    <2>6. connections' \in [Conn -> Nat \cup {None}]
        BY <2>1, <2>2
    <2> QED BY <2>1, <2>2, <2>4, <2>5, <2>6
<1>2. ASSUME NEW c \in Conn, Leave(c) PROVE ConnInv'
    BY <1>2 DEF Leave
<1>3. ASSUME NEW c \in Conn, UnregisterConnection(c) PROVE ConnInv'
    BY <1>3 DEF UnregisterConnection
<1>6. ASSUME NEW c \in Conn, IndexCatchesUp(c) PROVE ConnInv'
    <2>1. index' = [index EXCEPT ![c] = connections[c]] /\ UNCHANGED <<connections, client, opened>>
        BY <1>6 DEF IndexCatchesUp
    <2>2. \A b \in Conn : index'[b] \in {connections[b], index[b]}
        BY <2>1
    <2>3. index' \in [Conn -> Nat \cup {None}]
        BY <2>1
    <2> QED BY <2>1, <2>2, <2>3
<1>4. CASE UNCHANGED connVars
    BY <1>4 DEF connVars
<1>5. CASE Next
    <2>1. ASSUME NEW j \in Job,
                 GetDeviceState(j) \/ PutDeviceState(j) \/ SavePoints(j) \/ Dies(j)
          PROVE  UNCHANGED connVars
        BY <2>1 DEF GetDeviceState, PutDeviceState, SavePoints, Dies
    <2>2. ASSUME NEW d \in Device, ConsumePendingMode(d) \/ \E m \in Mode : SetPendingMode(d, m)
          PROVE  UNCHANGED connVars
        BY <2>2 DEF ConsumePendingMode, SetPendingMode, UpdatePendingMode
    <2> QED BY <1>5, <1>1, <1>2, <1>3, <1>4, <1>6, <2>1, <2>2 DEF Next
<1> QED BY <1>4, <1>5 DEF vars

LEMMA ConnInvHolds == Spec => []ConnInv
<1>1. Init => ConnInv
    BY DEF Init, ConnInv
<1> QED BY <1>1, ConnInvNext, PTL DEF Spec

\* Once the index has caught up with the newest connection of a device, a push
\* goes to it as long as it is open.
THEOREM PushesReachNewest == Spec => []PushReachesNewest
<1>1. ConnInv => PushReachesNewest
    <2> SUFFICES ASSUME ConnInv, NEW k \in 1 .. Len(opened), client[opened[k]] = "open",
                        index[opened[k]] = connections[opened[k]],
                        \A l \in k + 1 .. Len(opened) : DeviceOf[opened[l]] # DeviceOf[opened[k]]
                 PROVE  ConnectionForDevice(DeviceOf[opened[k]]) = {opened[k]}
        BY DEF PushReachesNewest
    <2> DEFINE c == opened[k]
               d == DeviceOf[c]
    <2>1. c \in Conn /\ connections[c] = k /\ index[c] = k /\ k \in Nat /\ k # None
        BY StoresAssumption DEF ConnInv
    <2>2. ASSUME NEW b \in Conn, DeviceOf[b] = d, index[b] # None
          PROVE  index[b] <= k
        <3>1. index[b] \in 1 .. Len(opened) /\ opened[index[b]] = b
            BY <2>2 DEF ConnInv
        <3>2. Len(opened) \in Nat
            BY DEF ConnInv
        <3> QED BY <2>1, <2>2, <3>1, <3>2
    <2>3. c \in ConnectionForDevice(d)
        BY <2>1, <2>2 DEF ConnectionForDevice
    <2>4. ASSUME NEW b \in ConnectionForDevice(d) PROVE b = c
        <3>1. b \in Conn /\ DeviceOf[b] = d /\ index[b] # None /\ k <= index[b]
            BY <2>1, <2>4 DEF ConnectionForDevice
        <3>2. index[b] \in Nat /\ index[b] <= k /\ opened[index[b]] = b
            BY <2>2, <3>1 DEF ConnInv
        <3> QED BY <2>1, <3>1, <3>2
    <2> QED BY <2>3, <2>4
<1> QED BY <1>1, ConnInvHolds, PTL
-----------------------------------------------------------------------------
\* The item that save_trajectory_point makes of a packet.
TrajItem(p) == [key |-> TrajSortKey(p), packet |-> p]

\* Items are made by SavePoints only, so key and packet go together.
PointInv ==
    /\ points \subseteq {TrajItem(p) : p \in Packet}
    /\ deliveries \in [Job -> Nat]
    /\ \A j \in Job : deliveries[j] <= MaxDeliveries[j]

LEMMA PointInvHolds == Spec => []PointInv
<1>1. Init => PointInv
    BY StoresAssumption DEF Init, PointInv
<1>2. PointInv /\ [Next]_vars => PointInv'
    <2> SUFFICES ASSUME PointInv, [Next]_vars PROVE PointInv'
        OBVIOUS
    <2>1. ASSUME NEW j \in Job, GetDeviceState(j) PROVE PointInv'
        <3>1. /\ deliveries[j] < MaxDeliveries[j] /\ UNCHANGED points
              /\ deliveries' = [deliveries EXCEPT ![j] = @ + 1]
            BY <2>1 DEF GetDeviceState
        <3>2. deliveries[j] \in Nat /\ MaxDeliveries[j] \in Nat
            BY StoresAssumption DEF PointInv
        <3>3. deliveries' \in [Job -> Nat]
            BY <3>1, <3>2 DEF PointInv
        <3>4. ASSUME NEW i \in Job PROVE deliveries'[i] <= MaxDeliveries[i]
            BY <3>1, <3>2 DEF PointInv
        <3> QED BY <3>1, <3>3, <3>4 DEF PointInv
    <2>2. ASSUME NEW j \in Job, SavePoints(j) PROVE PointInv'
        <3>1. UNCHANGED deliveries
              /\ points' \subseteq points \cup {[key |-> TrajSortKey(p), packet |-> p] : p \in Chunk[j]}
            BY <2>2 DEF SavePoints
        <3>2. Chunk[j] \subseteq Packet
            BY JobFacts
        <3> QED BY <3>1, <3>2 DEF PointInv, TrajItem
    <2>3. CASE UNCHANGED <<points, deliveries>>
        BY <2>3 DEF PointInv
    <2>4. CASE Next
        <3>1. ASSUME NEW j \in Job, PutDeviceState(j) \/ Dies(j) PROVE UNCHANGED <<points, deliveries>>
            BY <3>1 DEF PutDeviceState, Dies
        <3>2. ASSUME NEW d \in Device, ConsumePendingMode(d) \/ \E m \in Mode : SetPendingMode(d, m)
              PROVE  UNCHANGED <<points, deliveries>>
            BY <3>2 DEF ConsumePendingMode, SetPendingMode, UpdatePendingMode
        <3>3. ASSUME NEW c \in Conn, RegisterConnection(c) \/ Leave(c) \/ UnregisterConnection(c) \/ IndexCatchesUp(c)
              PROVE  UNCHANGED <<points, deliveries>>
            BY <3>3 DEF RegisterConnection, Leave, UnregisterConnection, IndexCatchesUp, stateVars
        <3> QED BY <2>4, <2>1, <2>2, <2>3, <3>1, <3>2, <3>3 DEF Next
    <2> QED BY <2>3, <2>4 DEF vars, stateVars
<1> QED BY <1>1, <1>2, PTL DEF Spec

\* The types of the two tables and of the invocations.
THEOREM StoresTypes == Spec => []TypeOK
<1>1. StoreInv /\ ConnInv /\ PointInv => TypeOK
    <2> SUFFICES ASSUME StoreInv, ConnInv, PointInv PROVE TypeOK
        OBVIOUS
    <2>1. points \subseteq Point
        BY DEF PointInv, TrajItem, Point
    <2> QED BY <2>1 DEF StoreInv, StateType, ConnInv, PointInv, TypeOK
<1> QED BY <1>1, StoreInvHolds, ConnInvHolds, PointInvHolds, PTL
-----------------------------------------------------------------------------
\* A set of numbers that is not empty has a smallest one.
LEMMA Smallest ==
    ASSUME NEW T \in SUBSET Nat, T # {}
    PROVE  \E n \in T : \A m \in T : n <= m
<1> DEFINE R == OpToRel(<, Nat)
<1>1. IsWellFoundedOn(R, Nat)
    BY NatLessThanWellFounded
<1>2. R = {ss \in Nat \X Nat : ss[1] < ss[2]}
    BY DEF OpToRel
<1> HIDE DEF R
<1>3. \E n \in T : \A m \in T : ~ (<<m, n>> \in R)
    BY <1>1, WFMin
<1>4. ASSUME NEW n \in T, NEW m \in T, ~ (<<m, n>> \in R) PROVE n <= m
    BY <1>2, <1>4
<1> QED BY <1>3, <1>4

\* The digits of n, from those of smaller numbers.
DigitsFrom(f, n) == IF n < 10 THEN <<n>> ELSE Append(f[n \div 10], n % 10)

\* f is str() on the numbers up to n.
DigitsUpTo(f, n) ==
    /\ f \in [0 .. n -> Seq(Nat)]
    /\ \A m \in 0 .. n : f[m] = DigitsFrom(f, m)

LEMMA Tenth ==
    ASSUME NEW n \in Nat, n >= 10
    PROVE  n \div 10 \in 1 .. n - 1 /\ n % 10 \in 0 .. 9 /\ n = 10 * (n \div 10) + (n % 10)
<1>1. n \div 10 \in 1 .. n - 1 /\ n % 10 \in 0 .. 9
    OBVIOUS
<1>2. n = 10 * (n \div 10) + (n % 10)
    BY Z3
<1> QED BY <1>1, <1>2

LEMMA DigitsUpToExists ==
    ASSUME NEW n \in Nat
    PROVE  \E f : DigitsUpTo(f, n)
<1> DEFINE T == {m \in Nat : ~ \E f : DigitsUpTo(f, m)}
<1> SUFFICES ASSUME T # {} PROVE FALSE
    OBVIOUS
<1>1. PICK m \in T : \A l \in T : m <= l
    <2> HIDE DEF T
    <2>1. T \in SUBSET Nat
        BY DEF T
    <2> QED BY <2>1, Smallest
<1>2. CASE m = 0
    <2> DEFINE f == [l \in 0 .. 0 |-> <<0>>]
    <2>1. f \in [0 .. 0 -> Seq(Nat)] /\ \A l \in 0 .. 0 : f[l] = <<l>> /\ l < 10
        OBVIOUS
    <2> HIDE DEF f
    <2>2. DigitsUpTo(f, 0)
        BY <2>1 DEF DigitsUpTo, DigitsFrom
    <2> QED BY <1>2, <2>2
<1>3. CASE m # 0
    <2>1. m \in Nat /\ m - 1 \in Nat /\ m - 1 \notin T
        BY <1>1, <1>3
    <2>2. PICK g : DigitsUpTo(g, m - 1)
        BY <2>1
    <2> DEFINE f == [l \in 0 .. m |-> IF l = m THEN DigitsFrom(g, m) ELSE g[l]]
    <2>3. g \in [0 .. m - 1 -> Seq(Nat)] /\ \A l \in 0 .. m - 1 : g[l] = DigitsFrom(g, l)
        BY <2>2 DEF DigitsUpTo
    <2>4. \A l \in 0 .. m : l >= 10 => l \div 10 \in 0 .. m - 1
        BY <2>1, Tenth
    <2>5. DigitsFrom(g, m) \in Seq(Nat)
        <3>1. CASE m < 10
            BY <2>1, <3>1 DEF DigitsFrom
        <3>2. CASE m >= 10
            <4>1. g[m \div 10] \in Seq(Nat) /\ m % 10 \in Nat
                BY <2>1, <2>3, <2>4, <3>2, Tenth
            <4> QED BY <2>1, <3>2, <4>1 DEF DigitsFrom
        <3> QED BY <2>1, <3>1, <3>2
    <2>6. f \in [0 .. m -> Seq(Nat)]
        BY <2>1, <2>3, <2>5
    <2>7. ASSUME NEW l \in 0 .. m PROVE f[l] = DigitsFrom(f, l)
        <3>1. f[l] = DigitsFrom(g, l)
            BY <2>1, <2>3
        <3>2. l >= 10 => f[l \div 10] = g[l \div 10]
            BY <2>1, <2>4
        <3> HIDE DEF f
        <3> QED BY <2>1, <3>1, <3>2 DEF DigitsFrom
    <2> HIDE DEF f
    <2>8. DigitsUpTo(f, m)
        BY <2>6, <2>7 DEF DigitsUpTo
    <2> QED BY <1>1, <2>8
<1> QED BY <1>2, <1>3

LEMMA DigitsUpToAgree ==
    ASSUME NEW n \in Nat, NEW m \in Nat, NEW f, DigitsUpTo(f, n), NEW g, DigitsUpTo(g, m),
           NEW k \in Nat, k <= n, k <= m
    PROVE  f[k] = g[k]
<1> DEFINE T == {l \in Nat : l <= n /\ l <= m /\ f[l] # g[l]}
<1> SUFFICES ASSUME T # {} PROVE FALSE
    OBVIOUS
<1>1. PICK l \in T : \A i \in T : l <= i
    <2> HIDE DEF T
    <2>1. T \in SUBSET Nat
        BY DEF T
    <2> QED BY <2>1, Smallest
<1>2. f[l] = DigitsFrom(f, l) /\ g[l] = DigitsFrom(g, l)
    BY <1>1 DEF DigitsUpTo
<1>3. CASE l < 10
    BY <1>1, <1>2, <1>3 DEF DigitsFrom
<1>4. CASE l >= 10
    <2>1. l \div 10 \in Nat /\ l \div 10 < l
        BY <1>1, <1>4, Tenth
    <2>2. f[l \div 10] = g[l \div 10]
        BY <1>1, <2>1
    <2> QED BY <1>1, <1>2, <1>4, <2>2 DEF DigitsFrom
<1> QED BY <1>1, <1>3, <1>4

\* str(seq) is defined for every number, by its recursion.
LEMMA DigitsDef ==
    \A n \in Nat : Digits[n] \in Seq(Nat) /\ Digits[n] = DigitsFrom(Digits, n)
<1> DEFINE F(n) == CHOOSE f : DigitsUpTo(f, n)
           G == [n \in Nat |-> F(n)[n]]
<1>1. ASSUME NEW n \in Nat PROVE DigitsUpTo(F(n), n)
    BY DigitsUpToExists
<1>2. ASSUME NEW n \in Nat PROVE G[n] \in Seq(Nat) /\ G[n] = DigitsFrom(G, n)
    <2>1. F(n) \in [0 .. n -> Seq(Nat)] /\ F(n)[n] = DigitsFrom(F(n), n)
        <3>1. DigitsUpTo(F(n), n)
            BY <1>1
        <3> HIDE DEF F
        <3> QED BY <3>1 DEF DigitsUpTo
    <2>2. n >= 10 => F(n)[n \div 10] = G[n \div 10]
        <3> SUFFICES ASSUME n >= 10 PROVE F(n)[n \div 10] = G[n \div 10]
            OBVIOUS
        <3>1. n \div 10 \in Nat /\ n \div 10 <= n
            BY Tenth
        <3>2. DigitsUpTo(F(n), n) /\ DigitsUpTo(F(n \div 10), n \div 10)
            BY <1>1, <3>1
        <3>3. F(n)[n \div 10] = F(n \div 10)[n \div 10]
            <4> HIDE DEF F
            <4> QED BY <3>1, <3>2, DigitsUpToAgree
        <3> QED BY <3>1, <3>3
    <2>3. G[n] = F(n)[n]
        OBVIOUS
    <2> HIDE DEF F, G
    <2> QED BY <2>1, <2>2, <2>3 DEF DigitsFrom
<1>3. G = [n \in Nat |-> IF n < 10 THEN <<n>> ELSE Append(G[n \div 10], n % 10)]
    <2>1. G = [n \in Nat |-> G[n]]
        OBVIOUS
    <2> HIDE DEF G
    <2> QED BY <1>2, <2>1 DEF DigitsFrom
<1>4. Digits = [n \in Nat |-> IF n < 10 THEN <<n>> ELSE Append(Digits[n \div 10], n % 10)]
    <2> HIDE DEF G
    <2> QED BY <1>3 DEF Digits
<1>5. \A n \in Nat : Digits[n] = DigitsFrom(Digits, n)
    BY <1>4 DEF DigitsFrom
<1>6. ASSUME {n \in Nat : Digits[n] \notin Seq(Nat)} # {} PROVE FALSE
    <2>1. PICK n \in Nat : /\ Digits[n] \notin Seq(Nat)
                           /\ \A m \in Nat : m < n => Digits[m] \in Seq(Nat)
        <3> DEFINE T == {n \in Nat : Digits[n] \notin Seq(Nat)}
        <3>1. T \in SUBSET Nat /\ T # {}
            BY <1>6
        <3> HIDE DEF T
        <3>2. PICK n \in T : \A m \in T : n <= m
            BY <3>1, Smallest
        <3>3. ASSUME NEW m \in Nat, m < n PROVE m \notin T
            BY <3>1, <3>2, <3>3
        <3> QED BY <3>2, <3>3 DEF T
    <2>2. CASE n < 10
        <3>1. Digits[n] = <<n>>
            BY <1>5, <2>1, <2>2 DEF DigitsFrom
        <3> QED BY <2>1, <3>1
    <2>3. CASE n >= 10
        <3>1. Digits[n \div 10] \in Seq(Nat) /\ n % 10 \in Nat
            BY <2>1, <2>3, Tenth
        <3>2. Digits[n] = Append(Digits[n \div 10], n % 10)
            <4>1. Digits[n] = DigitsFrom(Digits, n) /\ ~(n < 10)
                BY <1>5, <2>1, <2>3
            <4> QED BY <4>1 DEF DigitsFrom
        <3> QED BY <2>1, <3>1, <3>2
    <2> QED BY <2>1, <2>2, <2>3
<1> QED BY <1>5, <1>6

\* Different numbers have different strings.
LEMMA DigitsInjective ==
    ASSUME NEW n \in Nat, NEW m \in Nat, Digits[n] = Digits[m]
    PROVE  n = m
<1> DEFINE T == {l \in Nat : \E i \in Nat : l # i /\ Digits[l] = Digits[i]}
<1> SUFFICES ASSUME T # {} PROVE FALSE
    OBVIOUS
<1>1. PICK l \in T : \A i \in T : l <= i
    <2> HIDE DEF T
    <2>1. T \in SUBSET Nat
        BY DEF T
    <2> QED BY <2>1, Smallest
<1>2. PICK i \in Nat : l # i /\ Digits[l] = Digits[i]
    BY <1>1
<1>3. l \in Nat /\ l < i
    <2>1. i \in T
        BY <1>1, <1>2
    <2> QED BY <1>1, <1>2, <2>1
<1>4. ASSUME NEW k \in Nat PROVE Len(Digits[k]) >= 1
    <2>1. Digits[k] = DigitsFrom(Digits, k)
        BY DigitsDef
    <2>2. CASE k < 10
        <3>1. Digits[k] = <<k>>
            BY <2>1, <2>2 DEF DigitsFrom
        <3> QED BY <3>1
    <2>3. CASE ~(k < 10)
        <3>1. Digits[k \div 10] \in Seq(Nat)
            BY <2>3, Tenth, DigitsDef
        <3>2. Digits[k] = Append(Digits[k \div 10], k % 10)
            BY <2>1, <2>3 DEF DigitsFrom
        <3> QED BY <3>1, <3>2
    <2> QED BY <2>2, <2>3
<1>5. Digits[l] = DigitsFrom(Digits, l) /\ Digits[i] = DigitsFrom(Digits, i)
    BY <1>3, DigitsDef
<1>6. CASE i < 10
    <2>1. Digits[l] = <<l>> /\ Digits[i] = <<i>>
        BY <1>3, <1>5, <1>6 DEF DigitsFrom
    <2>2. <<l>>[1] = l /\ <<i>>[1] = i
        OBVIOUS
    <2>3. <<l>> = <<i>> /\ l # i
        BY <1>2, <2>1
    <2> HIDE DEF T
    <2> QED BY ONLY <2>2, <2>3
<1>7. CASE ~(i < 10)
    <2>1. /\ i \div 10 \in Nat /\ i % 10 \in Nat /\ i = 10 * (i \div 10) + (i % 10)
          /\ Digits[i \div 10] \in Seq(Nat) /\ Len(Digits[i \div 10]) >= 1
        <3>1. i \div 10 \in Nat /\ i % 10 \in Nat /\ i = 10 * (i \div 10) + (i % 10)
            BY <1>7, Tenth
        <3> QED BY <1>4, <3>1, DigitsDef
    <2>2. Digits[i] = Append(Digits[i \div 10], i % 10)
        BY <1>5, <1>7 DEF DigitsFrom
    <2>3. CASE l < 10
        <3>1. Digits[l] = <<l>>
            BY <1>5, <2>3 DEF DigitsFrom
        <3>2. Len(Digits[l]) = 1
            BY <3>1
        <3>3. Len(Digits[i]) >= 2
            BY <2>1, <2>2
        <3> QED BY <1>2, <3>2, <3>3
    <2>4. CASE ~(l < 10)
        <3>1. /\ l \div 10 \in Nat /\ l \div 10 < l /\ l % 10 \in Nat
              /\ l = 10 * (l \div 10) + (l % 10)
            BY <1>3, <2>4, Tenth
        <3>2. Digits[l] = Append(Digits[l \div 10], l % 10) /\ Digits[l \div 10] \in Seq(Nat)
            BY <1>5, <2>4, <3>1, DigitsDef DEF DigitsFrom
        <3>3. Digits[l \div 10] = Digits[i \div 10] /\ l % 10 = i % 10
            <4> DEFINE a == Digits[l \div 10]
                       b == Digits[i \div 10]
                       x == l % 10
                       y == i % 10
            <4>1. Append(a, x) = Append(b, y)
                BY <1>2, <2>2, <3>2
            <4>2. a \in Seq(Nat) /\ b \in Seq(Nat) /\ x \in Nat /\ y \in Nat
                BY <2>1, <3>1, <3>2
            <4> HIDE DEF a, b, x, y
            <4>3. a = b /\ x = y
                BY <4>1, <4>2, AppendInjective, SMTT(30)
            <4> QED BY <4>3 DEF a, b, x, y
        <3>4. l \div 10 # i \div 10
            BY <1>2, <2>1, <3>1, <3>3
        <3>5. l \div 10 \in T
            BY <2>1, <3>1, <3>3, <3>4
        <3> HIDE DEF T
        <3> QED BY <1>1, <1>3, <3>1, <3>5
    <2> QED BY <2>3, <2>4
<1> QED BY <1>6, <1>7
-----------------------------------------------------------------------------
\* Strings that differ are ordered, one way: at the first character that
\* tells them apart, or by their length.
LEMMA StringsTotal ==
    ASSUME NEW s \in Seq(Nat), NEW t \in Seq(Nat), s # t
    PROVE  StringLess(s, t) \/ StringLess(t, s)
<1> DEFINE T == {k \in Nat : k \in 1 .. Len(s) /\ k <= Len(t) /\ s[k] # t[k]}
<1>1. Len(s) \in Nat /\ Len(t) \in Nat
    OBVIOUS
<1>2. CASE T # {}
    <2>1. PICK k \in T : \A i \in T : k <= i
        <3> HIDE DEF T
        <3>1. T \in SUBSET Nat
            BY DEF T
        <3> QED BY <1>2, <3>1, Smallest
    <2>2. /\ k \in 1 .. Len(s) /\ k \in 1 .. Len(t) /\ s[k] # t[k]
          /\ s[k] \in Nat /\ t[k] \in Nat
        BY <1>1, <2>1
    <2>3. ASSUME NEW i \in 1 .. k - 1 PROVE s[i] = t[i]
        <3>1. i \in Nat /\ i \in 1 .. Len(s) /\ i <= Len(t) /\ i < k
            BY <1>1, <2>2
        <3> QED BY <2>1, <2>2, <3>1
    <2>4. CASE s[k] < t[k]
        BY <1>1, <2>2, <2>3, <2>4 DEF StringLess
    <2>5. CASE t[k] < s[k]
        BY <1>1, <2>2, <2>3, <2>5 DEF StringLess
    <2> QED BY <2>2, <2>4, <2>5
<1>3. CASE T = {}
    <2>1. ASSUME NEW k \in 1 .. Len(s), k <= Len(t) PROVE s[k] = t[k]
        BY <1>1, <1>3, <2>1
    <2>2. Len(s) # Len(t)
        <3>1. SUFFICES ASSUME Len(s) = Len(t) PROVE FALSE
            OBVIOUS
        <3>2. \A k \in 1 .. Len(s) : s[k] = t[k]
            BY <1>1, <2>1, <3>1
        <3> QED BY <3>1, <3>2
    <2>3. CASE Len(s) < Len(t)
        BY <1>1, <2>1, <2>3 DEF StringLess
    <2>4. CASE Len(t) < Len(s)
        BY <1>1, <2>1, <2>4 DEF StringLess
    <2> QED BY <1>1, <2>2, <2>3, <2>4
<1> QED BY <1>2, <1>3

LEMMA StringsIrreflexive ==
    ASSUME NEW s \in Seq(Nat)
    PROVE  ~ StringLess(s, s)
<1>1. Len(s) \in Nat /\ \A k \in 1 .. Len(s) : s[k] \in Nat
    OBVIOUS
<1> QED BY <1>1 DEF StringLess

LEMMA StringsTransitive ==
    ASSUME NEW s \in Seq(Nat), NEW t \in Seq(Nat), NEW u \in Seq(Nat),
           StringLess(s, t), StringLess(t, u)
    PROVE  StringLess(s, u)
<1>1. /\ Len(s) \in Nat /\ Len(t) \in Nat /\ Len(u) \in Nat
      /\ \A k \in 1 .. Len(s) : s[k] \in Nat
      /\ \A k \in 1 .. Len(t) : t[k] \in Nat
      /\ \A k \in 1 .. Len(u) : u[k] \in Nat
    OBVIOUS
<1> DEFINE Prefix(a, b) == Len(a) < Len(b) /\ \A k \in 1 .. Len(a) : a[k] = b[k]
           Parts(a, b, k) == /\ k \in 1 .. Len(a) /\ k <= Len(b) /\ a[k] < b[k]
                             /\ \A i \in 1 .. k - 1 : a[i] = b[i]
<1>2. \A a, b : StringLess(a, b) <=> Prefix(a, b) \/ \E k : Parts(a, b, k)
    BY DEF StringLess
<1>3. CASE Prefix(s, t) /\ Prefix(t, u)
    <2>1. Prefix(s, u)
        BY <1>1, <1>3
    <2> QED BY <1>2, <2>1
<1>4. ASSUME Prefix(s, t), NEW k, Parts(t, u, k) PROVE StringLess(s, u)
    <2>1. CASE k <= Len(s)
        <3>1. Parts(s, u, k)
            BY <1>1, <1>4, <2>1
        <3> QED BY <1>2, <3>1
    <2>2. CASE Len(s) < k
        <3>1. Prefix(s, u)
            BY <1>1, <1>4, <2>2
        <3> QED BY <1>2, <3>1
    <2> QED BY <1>1, <1>4, <2>1, <2>2
<1>5. ASSUME NEW k, Parts(s, t, k), Prefix(t, u) PROVE StringLess(s, u)
    <2>1. Parts(s, u, k)
        BY <1>1, <1>5
    <2> QED BY <1>2, <2>1
<1>6. ASSUME NEW k, Parts(s, t, k), NEW l, Parts(t, u, l) PROVE StringLess(s, u)
    <2>1. k \in Nat /\ l \in Nat
        BY <1>1, <1>6
    <2>2. CASE k <= l
        <3>1. k \in 1 .. Len(s) /\ k \in 1 .. Len(t) /\ k <= Len(u)
            BY <1>1, <1>6, <2>1, <2>2
        <3>2. s[k] < t[k] /\ (t[k] < u[k] \/ t[k] = u[k])
            BY <1>6, <2>1, <2>2
        <3>3. s[k] < u[k]
            BY <1>1, <3>1, <3>2, SMTT(30)
        <3>4. ASSUME NEW i \in 1 .. k - 1 PROVE s[i] = u[i]
            <4>1. i \in 1 .. l - 1
                BY <2>1, <2>2
            <4> QED BY <1>6, <4>1
        <3>5. Parts(s, u, k)
            BY <3>1, <3>3, <3>4
        <3> QED BY <1>2, <3>5
    <2>3. CASE l < k
        <3>1. l \in 1 .. Len(s) /\ l \in 1 .. k - 1 /\ l <= Len(u)
            BY <1>1, <1>6, <2>1, <2>3
        <3>2. s[l] < u[l]
            BY <1>6, <3>1
        <3>3. ASSUME NEW i \in 1 .. l - 1 PROVE s[i] = u[i]
            <4>1. i \in 1 .. k - 1
                BY <2>1, <2>3
            <4> QED BY <1>6, <4>1
        <3>4. Parts(s, u, l)
            BY <3>1, <3>2, <3>3
        <3> QED BY <1>2, <3>4
    <2> QED BY <2>1, <2>2, <2>3
<1> HIDE DEF Prefix, Parts
<1>7. /\ Prefix(s, t) \/ \E k : Parts(s, t, k)
      /\ Prefix(t, u) \/ \E k : Parts(t, u, k)
    BY <1>2
<1> QED BY <1>3, <1>4, <1>5, <1>6, <1>7
-----------------------------------------------------------------------------
\* Items of one partition.
Partition(items, d) ==
    items \subseteq {TrajItem(p) : p \in Packet} /\ \A x \in items : x.key.device = d

LEMMA ItemFacts ==
    ASSUME NEW x \in {TrajItem(p) : p \in Packet}
    PROVE  /\ x.packet \in Packet /\ x = TrajItem(x.packet)
           /\ x.key.device = x.packet.device
           /\ x.key.time = x.packet.timestamp /\ x.key.time \in Nat
           /\ x.key.seq = Digits[x.packet.seq] /\ x.key.seq \in Seq(Nat)
           /\ x.packet.seq \in Nat
<1>1. PICK p \in Packet : x = TrajItem(p)
    OBVIOUS
<1>2. p.timestamp \in Nat /\ p.seq \in Nat
    BY StoresAssumption
<1>3. Digits[p.seq] \in Seq(Nat)
    BY <1>2, DigitsDef
<1> QED BY <1>1, <1>2, <1>3 DEF TrajItem, TrajSortKey

\* Sort keys order the items of a partition strictly and totally.
LEMMA ItemsOrdered ==
    ASSUME NEW items, NEW d, Partition(items, d),
           NEW x \in items, NEW y \in items
    PROVE  /\ ~ PointLess(x, x)
           /\ x # y => PointLess(x, y) \/ PointLess(y, x)
           /\ \A z \in items : PointLess(x, y) /\ PointLess(y, z) => PointLess(x, z)
           /\ PointLess(x, y) => x.packet.timestamp <= y.packet.timestamp
<1>0. \A z \in items : z \in {TrajItem(p) : p \in Packet} /\ z.key.device = d
    BY DEF Partition
<1>1. \A z \in items : z.key.time \in Nat /\ z.key.seq \in Seq(Nat)
    BY <1>0, ItemFacts
<1>2. \A w, z : PointLess(w, z) <=> \/ w.key.time < z.key.time
                                    \/ w.key.time = z.key.time /\ StringLess(w.key.seq, z.key.seq)
    BY DEF PointLess, KeyLess
<1>3. ~ PointLess(x, x)
    <2>1. ~ StringLess(x.key.seq, x.key.seq)
        BY <1>1, StringsIrreflexive
    <2> QED BY <1>1, <1>2, <2>1
<1>4. ASSUME x # y PROVE PointLess(x, y) \/ PointLess(y, x)
    <2>1. CASE x.key.time # y.key.time
        BY <1>1, <1>2, <2>1
    <2>2. CASE x.key.time = y.key.time
        <3>1. x.key.seq # y.key.seq
            <4>1. SUFFICES ASSUME x.key.seq = y.key.seq PROVE FALSE
                OBVIOUS
            <4>2. /\ x.packet \in Packet /\ y.packet \in Packet
                  /\ x.packet.device = y.packet.device
                  /\ x.packet.timestamp = y.packet.timestamp
                BY <1>0, <2>2, ItemFacts
            <4>3. x.packet.seq = y.packet.seq
                BY <1>0, <4>1, ItemFacts, DigitsInjective
            <4>4. x.packet = y.packet
                BY <4>2, <4>3, StoresAssumption, SMTT(30)
            <4>5. x = TrajItem(x.packet) /\ y = TrajItem(y.packet)
                BY <1>0, ItemFacts
            <4> QED BY <1>4, <4>4, <4>5
        <3>2. StringLess(x.key.seq, y.key.seq) \/ StringLess(y.key.seq, x.key.seq)
            BY <1>1, <3>1, StringsTotal
        <3> QED BY <1>2, <2>2, <3>2
    <2> QED BY <2>1, <2>2
<1>5. ASSUME NEW z \in items, PointLess(x, y), PointLess(y, z) PROVE PointLess(x, z)
    <2>1. CASE x.key.time = y.key.time /\ y.key.time = z.key.time
        <3>1. StringLess(x.key.seq, y.key.seq) /\ StringLess(y.key.seq, z.key.seq)
            BY <1>1, <1>2, <1>5, <2>1
        <3>2. StringLess(x.key.seq, z.key.seq)
            BY <1>1, <3>1, StringsTransitive
        <3> QED BY <1>2, <2>1, <3>2
    <2>2. CASE ~(x.key.time = y.key.time /\ y.key.time = z.key.time)
        <3>1. x.key.time < z.key.time
            BY <1>1, <1>2, <1>5, <2>2
        <3> QED BY <1>2, <3>1
    <2> QED BY <2>1, <2>2
<1>6. ASSUME PointLess(x, y) PROVE x.packet.timestamp <= y.packet.timestamp
    <2>1. x.key.time <= y.key.time
        BY <1>1, <1>2, <1>6
    <2> QED BY <1>0, <2>1, ItemFacts
<1> QED BY <1>3, <1>4, <1>5, <1>6

\* A partition has no more items than there are packets.
LEMMA PartitionFinite ==
    ASSUME NEW items, NEW d, Partition(items, d)
    PROVE  /\ IsFiniteSet(items) /\ Cardinality(items) \in Nat
           /\ Cardinality(Packet) \in Nat /\ Cardinality(items) <= Cardinality(Packet)
<1> DEFINE all == {TrajItem(p) : p \in Packet}
           f == [p \in Packet |-> TrajItem(p)]
<1>1. IsFiniteSet(Packet)
    BY StoresAssumption
<1>2. f \in Surjection(Packet, all)
    BY DEF Surjection
<1>3. IsFiniteSet(all) /\ Cardinality(all) <= Cardinality(Packet)
    <2> HIDE DEF all, f
    <2> QED BY <1>1, <1>2, FS_Surjection
<1>4. items \in SUBSET all
    BY DEF Partition
<1> HIDE DEF all
<1>5. IsFiniteSet(items) /\ Cardinality(items) <= Cardinality(all)
    BY <1>3, <1>4, FS_Subset
<1>6. Cardinality(items) \in Nat /\ Cardinality(all) \in Nat /\ Cardinality(Packet) \in Nat
    BY <1>1, <1>3, <1>5, FS_CardinalityType
<1> QED BY <1>3, <1>5, <1>6

\* The number of items before an item is different for each, so every position
\* is taken: the items can be put in the order of their keys.
LEMMA SortedExists ==
    ASSUME NEW items, NEW d, Partition(items, d)
    PROVE  \E s \in [1 .. Cardinality(items) -> items] :
              \A k, l \in 1 .. Cardinality(items) : k < l => PointLess(s[k], s[l])
<1> DEFINE n == Cardinality(items)
           Before(x) == {y \in items : PointLess(y, x)}
           rank == [x \in items |-> Cardinality(Before(x)) + 1]
<1>1. IsFiniteSet(items) /\ n \in Nat
    BY PartitionFinite
<1>2. ASSUME NEW x \in items
      PROVE  /\ IsFiniteSet(Before(x)) /\ Cardinality(Before(x)) \in Nat
             /\ Cardinality(Before(x)) < n
    <2>1. Before(x) \in SUBSET items /\ x \notin Before(x)
        BY ItemsOrdered
    <2> HIDE DEF Before
    <2>2. IsFiniteSet(Before(x)) /\ Cardinality(Before(x)) <= n
          /\ (n = Cardinality(Before(x)) => items = Before(x))
        BY <1>1, <2>1, FS_Subset
    <2>3. Cardinality(Before(x)) \in Nat
        BY <2>2, FS_CardinalityType
    <2> HIDE DEF n
    <2> QED BY <1>1, <2>1, <2>2, <2>3
<1>3. ASSUME NEW x \in items, NEW y \in items, PointLess(x, y)
      PROVE  rank[x] < rank[y]
    <2>1. Before(x) \in SUBSET Before(y) /\ x \in Before(y) /\ x \notin Before(x)
        BY <1>3, ItemsOrdered
    <2>2. IsFiniteSet(Before(y)) /\ Cardinality(Before(x)) \in Nat /\ Cardinality(Before(y)) \in Nat
        BY <1>2
    <2> HIDE DEF Before
    <2>3. Cardinality(Before(x)) <= Cardinality(Before(y))
          /\ (Cardinality(Before(y)) = Cardinality(Before(x)) => Before(y) = Before(x))
        BY <2>1, <2>2, FS_Subset
    <2>4. Cardinality(Before(x)) < Cardinality(Before(y))
        BY <2>1, <2>2, <2>3
    <2> QED BY <2>2, <2>4
<1>4. rank \in [items -> 1 .. n]
    <2> HIDE DEF Before, n
    <2> QED BY <1>1, <1>2
<1> HIDE DEF rank
<1>5. ASSUME NEW x \in items, NEW y \in items, x # y PROVE rank[x] # rank[y]
    <2>1. PointLess(x, y) \/ PointLess(y, x)
        BY <1>5, ItemsOrdered
    <2>2. rank[x] \in Nat /\ rank[y] \in Nat
        BY <1>1, <1>4
    <2> QED BY <1>3, <2>1, <2>2
<1>6. rank \in Surjection(items, 1 .. n)
    <2>1. rank \in Injection(items, 1 .. n)
        BY <1>4, <1>5 DEF Injection, IsInjective
    <2>2. IsFiniteSet(1 .. n) /\ Cardinality(1 .. n) = n
        BY <1>1, FS_Interval
    <2> QED BY <2>1, <2>2, FS_Injection
<1> DEFINE s == [k \in 1 .. n |-> CHOOSE x \in items : rank[x] = k]
<1>7. ASSUME NEW k \in 1 .. n PROVE s[k] \in items /\ rank[s[k]] = k
    <2>1. \E x \in items : rank[x] = k
        BY <1>6 DEF Surjection
    <2> QED BY <2>1
<1>8. s \in [1 .. n -> items]
    BY <1>7
<1> HIDE DEF s
<1>9. ASSUME NEW k \in 1 .. n, NEW l \in 1 .. n, k < l PROVE PointLess(s[k], s[l])
    <2>1. /\ s[k] \in items /\ rank[s[k]] = k /\ s[l] \in items /\ rank[s[l]] = l
          /\ k \in Nat /\ l \in Nat
        BY <1>1, <1>7
    <2>2. s[k] # s[l]
        BY <1>9, <2>1
    <2>3. ~ PointLess(s[l], s[k])
        BY <1>3, <1>9, <2>1
    <2> QED BY <2>1, <2>2, <2>3, ItemsOrdered
<1> QED BY <1>8, <1>9

\* A query meets every item of the partition, in the order of the keys.
LEMMA SortedFacts ==
    ASSUME NEW items, NEW d, Partition(items, d)
    PROVE  /\ Sorted(items) \in [1 .. Cardinality(items) -> items]
           /\ \A k, l \in 1 .. Cardinality(items) : k < l => PointLess(Sorted(items)[k], Sorted(items)[l])
           /\ \A x \in items : \E k \in 1 .. Cardinality(items) : Sorted(items)[k] = x
<1> DEFINE n == Cardinality(items)
           s == Sorted(items)
<1>1. /\ s \in [1 .. n -> items]
      /\ \A k, l \in 1 .. n : k < l => PointLess(s[k], s[l])
    BY SortedExists DEF Sorted
<1>2. IsFiniteSet(items) /\ n \in Nat
    BY PartitionFinite
<1> HIDE DEF s
<1>3. s \in Injection(1 .. n, items)
    <2>1. ASSUME NEW k \in 1 .. n, NEW l \in 1 .. n, k < l PROVE s[k] # s[l]
        <3>1. PointLess(s[k], s[l]) /\ s[k] \in items
            BY <1>1, <2>1
        <3> QED BY <3>1, ItemsOrdered
    <2>2. ASSUME NEW k \in 1 .. n, NEW l \in 1 .. n, k # l PROVE s[k] # s[l]
        <3>1. k < l \/ l < k
            BY <1>2, <2>2
        <3> QED BY <2>1, <3>1
    <2> QED BY <1>1, <2>2 DEF Injection, IsInjective
<1>4. IsFiniteSet(1 .. n) /\ Cardinality(1 .. n) = n
    BY <1>2, FS_Interval
<1>5. s \in Surjection(1 .. n, items)
    BY <1>2, <1>3, <1>4, FS_Injection
<1>6. \A x \in items : \E k \in 1 .. n : s[k] = x
    BY <1>5 DEF Surjection
<1> QED BY <1>1, <1>6 DEF s

\* What a query returns: the items of the partition from the first one on, all
\* of them unless the limit or the page is full.
LEMMA HistoryFacts ==
    ASSUME NEW d, NEW limit \in Nat,
           Partition(PointsOf(d), d)
    PROVE  LET n == Cardinality(PointsOf(d))
               history == TrajectoryHistory(d, limit)
           IN  /\ Len(history) \in 0 .. n
               /\ \A k \in 1 .. Len(history) : history[k] = Sorted(PointsOf(d))[k]
               /\ Len(history) < n => Len(history) = limit \/ Len(history) = Page
               /\ n <= limit /\ n <= Page => Len(history) = n
<1> DEFINE n == Cardinality(PointsOf(d))
           s == Sorted(PointsOf(d))
           history == TrajectoryHistory(d, limit)
           length == CHOOSE m \in {Len(s), limit, Page} : m <= Len(s) /\ m <= limit /\ m <= Page
<1>1. n \in Nat
    BY PartitionFinite
<1>2. s \in [1 .. n -> PointsOf(d)]
    BY SortedFacts
<1>3. history = SubSeq(s, 1, length)
    BY DEF TrajectoryHistory
<1> HIDE DEF s, n, history
<1>4. s \in Seq(PointsOf(d)) /\ Len(s) = n
    BY <1>1, <1>2
<1>5. /\ length \in {n, limit, Page}
      /\ length <= n /\ length <= limit /\ length <= Page
    <2>1. Page \in Nat
        BY StoresAssumption
    <2>2. \E m \in {Len(s), limit, Page} : m <= Len(s) /\ m <= limit /\ m <= Page
        BY <1>1, <1>4, <2>1
    <2> QED BY <1>4, <2>2
<1> HIDE DEF length
<1>6. length \in Nat
    BY <1>1, <1>5, StoresAssumption
<1>7. Len(history) = length /\ \A k \in 1 .. length : history[k] = s[k]
    <2>1. Len(SubSeq(s, 1, length)) = length
        BY <1>4, <1>5, <1>6
    <2>2. \A k \in 1 .. length : SubSeq(s, 1, length)[k] = s[k]
        BY <1>4, <1>5, <1>6
    <2> QED BY <1>3, <2>1, <2>2
<1>8. /\ length \in 0 .. n
      /\ length < n => length = limit \/ length = Page
      /\ n <= limit /\ n <= Page => length = n
    BY <1>1, <1>5, <1>6, StoresAssumption
<1> QED BY <1>7, <1>8 DEF s, n, history

\* The history of a device is chronological and, when a page takes it all, ends
\* at its last known position, whatever packets were saved, in whatever order, and however often:
\* get_trajectory_history and get_last_known_position agree on one order.
THEOREM HistoriesChronological == Spec => []HistoryChronological
<1>1. PointInv => HistoryChronological
    <2> SUFFICES ASSUME PointInv, NEW d \in Device
                 PROVE  LET history == TrajectoryHistory(d, Cardinality(Packet))
                        IN  /\ \A k \in 1 .. Len(history) - 1 :
                                  history[k].packet.timestamp <= history[k+1].packet.timestamp
                            /\ history # <<>>
                                  /\ Cardinality(PointsOf(d)) <= Page =>
                                  \A x \in LastKnownPosition(d) :
                                     x.packet.timestamp = history[Len(history)].packet.timestamp
        BY DEF HistoryChronological
    <2> DEFINE items == PointsOf(d)
               n == Cardinality(items)
               s == Sorted(items)
               history == TrajectoryHistory(d, Cardinality(Packet))
    <2>1. Partition(items, d)
        BY DEF PointInv, Partition, PointsOf
    <2>2. n \in Nat /\ Cardinality(Packet) \in Nat /\ n <= Cardinality(Packet)
        BY <2>1, PartitionFinite
    <2>3. /\ s \in [1 .. n -> items]
          /\ \A k, l \in 1 .. n : k < l => PointLess(s[k], s[l])
          /\ \A x \in items : \E k \in 1 .. n : s[k] = x
        <3> HIDE DEF items
        <3> QED BY <2>1, SortedFacts
    <2>4. /\ Len(history) \in 0 .. n
          /\ \A k \in 1 .. Len(history) : history[k] = s[k]
          /\ n <= Page => Len(history) = n
        BY <2>1, <2>2, HistoryFacts
    <2>5. LastKnownPosition(d) = {x \in items : \A y \in items : ~ PointLess(x, y)}
        BY DEF LastKnownPosition
    <2> HIDE DEF history, s, n, items
    <2>6. ASSUME NEW k \in 1 .. Len(history) - 1
          PROVE  history[k].packet.timestamp <= history[k+1].packet.timestamp
        <3>1. k \in 1 .. n /\ k + 1 \in 1 .. n /\ k < k + 1
            BY <2>2, <2>4
        <3>2. history[k] \in items /\ history[k+1] \in items /\ PointLess(history[k], history[k+1])
            BY <2>3, <2>4, <3>1
        <3> QED BY <2>1, <3>2, ItemsOrdered
    <2>7. ASSUME NEW x \in LastKnownPosition(d), history # <<>>, n <= Page
          PROVE  x = history[Len(history)]
        <3>1. x \in items /\ \A y \in items : ~ PointLess(x, y)
            BY <2>5
        <3>2. PICK k \in 1 .. n : s[k] = x
            BY <2>3, <3>1
        <3>3. n \in 1 .. n /\ s[n] \in items /\ (k < n \/ k = n)
            BY <2>2, <2>3
        <3>4. k = n
            BY <2>3, <3>1, <3>2, <3>3
        <3> QED BY <2>4, <2>7, <3>2, <3>3, <3>4
    <2> QED BY <2>6, <2>7 DEF history, n, items
<1> QED BY <1>1, PointInvHolds, PTL

\* Every item that a history leaves out comes after all of it, and it leaves
\* out none while the limit and the page have room.
TakesTheEarliest(limit) ==
    \A d \in Device :
        LET history == TrajectoryHistory(d, limit)
        IN  \A x \in points :
               x.key.device = d /\ (\A k \in 1 .. Len(history) : history[k] # x)
                  => /\ Len(history) \in {limit, Page}
                     /\ \A k \in 1 .. Len(history) : PointLess(history[k], x)

\* Whatever limit get_trajectory_history is called with and however many items
\* a page takes, it leaves a point out only when one of the two is full, and
\* what it leaves out are the latest points: a forward query returns the
\* earliest, not the recent ones of its docstring.
THEOREM HistoryTakesTheEarliest ==
    ASSUME NEW limit \in Nat
    PROVE  Spec => []TakesTheEarliest(limit)
<1>1. PointInv => TakesTheEarliest(limit)
    <2> SUFFICES ASSUME PointInv, NEW d \in Device, NEW x \in points, x.key.device = d,
                        \A k \in 1 .. Len(TrajectoryHistory(d, limit)) :
                           TrajectoryHistory(d, limit)[k] # x
                 PROVE  /\ Len(TrajectoryHistory(d, limit)) \in {limit, Page}
                        /\ \A k \in 1 .. Len(TrajectoryHistory(d, limit)) :
                              PointLess(TrajectoryHistory(d, limit)[k], x)
        BY DEF TakesTheEarliest
    <2> DEFINE items == PointsOf(d)
               n == Cardinality(items)
               s == Sorted(items)
               history == TrajectoryHistory(d, limit)
    <2>1. Partition(items, d) /\ x \in items
        BY DEF PointInv, Partition, PointsOf
    <2>2. n \in Nat
        BY <2>1, PartitionFinite
    <2>3. /\ \A k, l \in 1 .. n : k < l => PointLess(s[k], s[l])
          /\ \E k \in 1 .. n : s[k] = x
        <3> HIDE DEF items
        <3> QED BY <2>1, SortedFacts
    <2>4. /\ Len(history) \in 0 .. n
          /\ \A k \in 1 .. Len(history) : history[k] = s[k]
          /\ Len(history) < n => Len(history) = limit \/ Len(history) = Page
        BY <2>1, HistoryFacts
    <2>5. \A k \in 1 .. Len(history) : history[k] # x
        OBVIOUS
    <2> SUFFICES Len(history) \in {limit, Page} /\ \A k \in 1 .. Len(history) : PointLess(history[k], x)
        OBVIOUS
    <2> HIDE DEF history, s, n, items
    <2>6. PICK l \in 1 .. n : s[l] = x
        BY <2>3
    <2>7. Len(history) < l
        BY <2>2, <2>4, <2>5, <2>6
    <2>8. Len(history) < n
        BY <2>2, <2>4, <2>6, <2>7
    <2>9. ASSUME NEW k \in 1 .. Len(history) PROVE PointLess(history[k], x)
        <3>1. k \in 1 .. n /\ k < l
            BY <2>2, <2>4, <2>6, <2>7
        <3> QED BY <2>3, <2>4, <2>6, <3>1
    <2> QED BY <2>4, <2>8, <2>9
<1> QED BY <1>1, PointInvHolds, PTL
=============================================================================
