------------------------ MODULE IngestionQueueProofs ------------------------
(***************************************************************************)
(* Proofs about IngestionQueue for every set of packets, every number of   *)
(* producers, every capacity and every slice size.                         *)
(***************************************************************************)
EXTENDS IngestionQueue, FiniteSetTheorems, FunctionTheorems, SequenceTheorems, TLAPS

\* Accounted alone is not inductive: that a run of BacklogRun makes the queue
\* grow by exactly the packets it counts needs EachOnce, and EachOnce needs
\* the types and the worker's single hand.
IndInv ==
    /\ TypeOK
    /\ IsFiniteSet(queue)
    /\ IsFiniteSet(hand)
    /\ EachOnce
    /\ Accounted

\* The remaining part of a chunk never precedes the part already enqueued.
ChunksSorted ==
    \A p \in Producer : \A k, l \in 1 .. Len(chunk[p]) :
        k < l => ~ChunkPrecedes(chunk[p][l], chunk[p][k])
-----------------------------------------------------------------------------
\* Sorting a chunk keeps each of its packets exactly once.
LEMMA SortedChunkFacts ==
    ASSUME NEW S \in SUBSET Packet, NEW s \in SortedChunks(S)
    PROVE  /\ s \in Seq(Packet)
           /\ \A k \in 1 .. Len(s) : s[k] \in S
           /\ \A k, l \in 1 .. Len(s) : k # l => s[k] # s[l]
<1>1. IsFiniteSet(S) /\ Cardinality(S) \in Nat
    BY FS_Subset, FS_CardinalityType, QueueAssumption
<1>2. s \in [1 .. Cardinality(S) -> S]
    BY DEF SortedChunks
<1>3. s \in Seq(S) /\ Len(s) = Cardinality(S)
    BY <1>1, <1>2
<1>4. ASSUME NEW k \in 1 .. Len(s), NEW l \in 1 .. Len(s), k # l
      PROVE  s[k] # s[l]
    <2>1. k < l \/ l < k
        BY <1>4
    <2>2. k \in DOMAIN s /\ l \in DOMAIN s
        BY <1>2, <1>3
    <2> QED BY <2>1, <2>2 DEF SortedChunks
<1> QED BY <1>3, <1>4

\* Nor does sorting a chunk lose a packet.
LEMMA SortedChunkComplete ==
    ASSUME NEW S \in SUBSET Packet, NEW s \in SortedChunks(S)
    PROVE  \A x \in S : \E k \in 1 .. Len(s) : s[k] = x
<1> DEFINE n == Cardinality(S)
<1>1. IsFiniteSet(S) /\ n \in Nat
    BY FS_Subset, FS_CardinalityType, QueueAssumption
<1>2. s \in [1 .. n -> S] /\ Len(s) = n
    <2>1. s \in [1 .. n -> S]
        BY DEF SortedChunks
    <2> HIDE DEF n
    <2> QED BY <1>1, <2>1
<1>3. s \in Injection(1 .. n, S)
    BY <1>2, SortedChunkFacts DEF Injection, IsInjective
<1>4. Cardinality(1 .. n) = n
    <2> HIDE DEF n
    <2>1. Cardinality(1 .. n) = IF 1 > n THEN 0 ELSE n - 1 + 1
        BY <1>1, FS_Interval
    <2> QED BY <1>1, <2>1
<1>5. s \in Surjection(1 .. n, S)
    BY <1>1, <1>3, <1>4, FS_Injection
<1> QED BY <1>2, <1>5 DEF Surjection

\* The slice that position d is in ends at most one slice size further on.
LEMMA SliceArithmetic ==
    ASSUME NEW d \in Nat, NEW size \in Nat \ {0}
    PROVE  /\ (d \div size + 1) * size \in Nat
           /\ (d \div size + 1) * size <= d + size
<1>1. d \div size \in Nat /\ size * (d \div size) <= d
    OBVIOUS
<1>2. ASSUME NEW q \in Nat, size * q <= d
      PROVE  (q + 1) * size \in Nat /\ (q + 1) * size <= d + size
    BY <1>2
<1> QED BY <1>1, <1>2

\* A run of the loop stays inside its slice, its chunk and the free slots.
LEMMA RunEndFacts ==
    ASSUME NEW p \in Producer, TypeOK, IsFiniteSet(queue), RunEnd(p) > done[p],
           done[p] <= Len(chunk[p])
    PROVE  /\ RunEnd(p) \in Nat
           /\ RunEnd(p) <= Len(chunk[p])
           /\ RunEnd(p) - done[p] <= SliceSize
           /\ Cardinality(queue) + (RunEnd(p) - done[p]) <= MaxSize
<1>1. done[p] \in Nat /\ Len(chunk[p]) \in Nat /\ Cardinality(queue) \in Nat
    BY FS_CardinalityType DEF TypeOK
<1>2. SliceSize \in Nat \ {0} /\ MaxSize \in Nat \ {0}
    BY QueueAssumption
<1>3. ASSUME NEW next \in Nat, next <= done[p] + SliceSize,
             SliceEnd(p) = IF next < Len(chunk[p]) THEN next ELSE Len(chunk[p])
      PROVE  /\ SliceEnd(p) \in Nat
             /\ SliceEnd(p) <= Len(chunk[p])
             /\ SliceEnd(p) <= done[p] + SliceSize
    BY <1>1, <1>2, <1>3
<1>4. /\ (done[p] \div SliceSize + 1) * SliceSize \in Nat
      /\ (done[p] \div SliceSize + 1) * SliceSize <= done[p] + SliceSize
    BY <1>1, <1>2, SliceArithmetic
<1>5. /\ SliceEnd(p) \in Nat
      /\ SliceEnd(p) <= Len(chunk[p])
      /\ SliceEnd(p) <= done[p] + SliceSize
    BY <1>3, <1>4 DEF SliceEnd
<1>6. /\ RunEnd(p) <= SliceEnd(p)
      /\ RunEnd(p) <= done[p] + MaxSize - Cardinality(queue)
      /\ RunEnd(p) \in Int
    <2>1. done[p] + MaxSize - Cardinality(queue) \in Int
        BY <1>1, <1>2
    <2> QED BY <2>1, <1>1, <1>2, <1>5 DEF RunEnd
<1> QED BY <1>1, <1>2, <1>5, <1>6

\* b - a distinct items make a set of b - a items.
LEMMA CountDistinct ==
    ASSUME NEW a \in Nat, NEW b \in Nat, a <= b, NEW f,
           \A k, l \in a+1 .. b : k # l => f[k] # f[l]
    PROVE  /\ IsFiniteSet({f[k] : k \in a+1 .. b})
           /\ Cardinality({f[k] : k \in a+1 .. b}) = b - a
<1> DEFINE T == {f[k] : k \in a+1 .. b}
           g == [k \in a+1 .. b |-> f[k]]
<1>1. g \in Bijection(a+1 .. b, T)
    BY DEF Bijection, Injection, Surjection, IsInjective
<1>2. ExistsBijection(a+1 .. b, T)
    BY <1>1 DEF ExistsBijection
<1>3. IsFiniteSet(a+1 .. b) /\ Cardinality(a+1 .. b) = b - a
    <2>1. Cardinality(a+1 .. b) = IF a+1 > b THEN 0 ELSE b - (a+1) + 1
        BY FS_Interval
    <2>2. IsFiniteSet(a+1 .. b)
        BY FS_Interval
    <2> QED BY <2>1, <2>2
<1> QED BY <1>2, <1>3, FS_Bijection
-----------------------------------------------------------------------------
LEMMA InitEstablishes == Init => IndInv
<1> SUFFICES ASSUME Init PROVE IndInv
    OBVIOUS
<1>1. TypeOK
    BY DEF Init, TypeOK
<1>2. IsFiniteSet(queue) /\ IsFiniteSet(hand) /\ Cardinality(queue) = 0 /\ Cardinality(hand) = 0
    BY FS_EmptySet DEF Init
<1>3. EachOnce
    BY DEF Init, EachOnce, Waiting
<1> QED BY <1>1, <1>2, <1>3, QueueAssumption DEF Init, IndInv, Accounted

LEMMA EnqueueLivePreserves ==
    ASSUME IndInv, NEW p \in Packet, EnqueueLive(p), UNCHANGED submitted
    PROVE  IndInv'
<1> USE DEF IndInv
<1>1. AsLive(p) \in Item /\ AsLive(p).priority = Live
    BY DEF AsLive, Item, Live
<1>2. TypeOK'
    BY <1>1 DEF EnqueueLive, TypeOK
<1>3. EachOnce'
    <2>1. \A x : AsBacklog(x) # AsLive(p)
        BY DEF AsLive, AsBacklog, Live, Backlog
    <2>2. \A q \in Producer : Waiting(q)' = Waiting(q)
        BY DEF Waiting, EnqueueLive
    <2>3. \A i \in (queue \cup hand)' : i \in queue \cup hand \/ i = AsLive(p)
        BY DEF EnqueueLive
    <2>4. chunk' = chunk /\ done' = done
        BY DEF EnqueueLive
    <2> QED BY <1>1, <2>1, <2>2, <2>3, <2>4 DEF EachOnce, Live, Backlog
<1>4. IsFiniteSet(queue)' /\ IsFiniteSet(hand)' /\ Accounted'
    <2>1. Cardinality(queue) \in Nat /\ Cardinality(hand) \in Nat
        BY FS_CardinalityType
    <2>2. CASE HasRoom /\ queue' = queue \cup {AsLive(p)} /\ unfinished' = unfinished + 1
        <3>1. IsFiniteSet(queue') /\ Cardinality(queue') = Cardinality(queue) + 1
            BY <2>2, FS_AddElement DEF EnqueueLive
        <3> QED BY <2>1, <2>2, <3>1, QueueAssumption DEF EnqueueLive, HasRoom, Accounted
    <2>3. CASE UNCHANGED <<queue, unfinished>>
        BY <2>3 DEF EnqueueLive, Accounted
    <2> QED BY <2>2, <2>3 DEF EnqueueLive
<1> QED BY <1>2, <1>3, <1>4

LEMMA DumpPreserves ==
    ASSUME IndInv, NEW p \in Producer, NEW S \in SUBSET Packet, Dump(p, S)
    PROVE  IndInv'
<1> USE DEF IndInv
<1>1. PICK s \in SortedChunks(S) : chunk' = [chunk EXCEPT ![p] = s]
    BY DEF Dump, StartBacklog
<1>2. /\ s \in Seq(Packet)
      /\ \A k \in 1 .. Len(s) : s[k] \in S
      /\ \A k, l \in 1 .. Len(s) : k # l => s[k] # s[l]
    BY SortedChunkFacts
<1>3. /\ done' = [done EXCEPT ![p] = 0]
      /\ UNCHANGED <<queue, unfinished, hand, refused>>
      /\ submitted' = submitted \cup S
      /\ S \cap submitted = {}
    BY DEF Dump, StartBacklog
<1>4. TypeOK'
    BY <1>1, <1>2, <1>3 DEF TypeOK
<1>5. Waiting(p)' \subseteq S
    BY <1>1, <1>2, <1>3 DEF Waiting, TypeOK
<1>6. \A q \in Producer \ {p} :
         chunk'[q] = chunk[q] /\ done'[q] = done[q] /\ Waiting(q)' = Waiting(q)
    BY <1>1, <1>3 DEF Waiting, TypeOK
<1>7. \A q \in Producer : Waiting(q) \subseteq submitted
    BY DEF Waiting, EachOnce, TypeOK
<1>8. EachOnce'
    <2>1. ASSUME NEW q \in Producer
          PROVE  /\ done'[q] <= Len(chunk'[q])
                 /\ \A k, l \in 1 .. Len(chunk'[q]) : k # l => chunk'[q][k] # chunk'[q][l]
                 /\ \A k \in 1 .. Len(chunk'[q]) : chunk'[q][k] \in submitted'
        <3>1. CASE q = p
            BY <1>1, <1>2, <1>3, <3>1 DEF TypeOK
        <3>2. CASE q # p
            BY <1>3, <1>6, <3>2 DEF EachOnce
        <3> QED BY <3>1, <3>2
    <2>2. ASSUME NEW q \in Producer, NEW x \in Waiting(q)'
          PROVE  AsBacklog(x) \notin (queue \cup hand)'
        <3>1. CASE q = p
            <4>1. x \notin submitted
                BY <1>3, <1>5, <3>1
            <4> QED BY <4>1, <1>3 DEF EachOnce, AsBacklog
        <3>2. CASE q # p
            BY <1>3, <1>6, <3>2 DEF EachOnce
        <3> QED BY <3>1, <3>2
    <2>3. \A q \in Producer : \A r \in Producer \ {q} : Waiting(q)' \cap Waiting(r)' = {}
        BY <1>3, <1>5, <1>6, <1>7 DEF EachOnce
    <2>4. \A i \in (queue \cup hand)' : i.priority = Backlog => i.packet \in submitted'
        BY <1>3 DEF EachOnce
    <2> QED BY <2>1, <2>2, <2>3, <2>4 DEF EachOnce
<1> QED BY <1>3, <1>4, <1>8 DEF Accounted

LEMMA BacklogRunPreserves ==
    ASSUME IndInv, NEW p \in Producer, BacklogRun(p), UNCHANGED submitted
    PROVE  IndInv'
<1> USE DEF IndInv
<1> DEFINE from == done[p]
           to == RunEnd(p)
           item == [k \in from+1 .. to |-> AsBacklog(chunk[p][k])]
           New == {item[k] : k \in from+1 .. to}
<1>1. /\ from \in Nat /\ to \in Nat /\ from < to /\ to <= Len(chunk[p])
      /\ Cardinality(queue) + (to - from) <= MaxSize
      /\ chunk[p] \in Seq(Packet)
    BY RunEndFacts DEF BacklogRun, EachOnce, TypeOK
<1>2. /\ queue' = queue \cup New
      /\ unfinished' = unfinished + (to - from)
      /\ done' = [done EXCEPT ![p] = to]
      /\ UNCHANGED <<hand, chunk, refused, submitted>>
    BY DEF BacklogRun
<1>3. \A k \in from+1 .. to : chunk[p][k] \in Waiting(p) /\ chunk[p][k] \in Packet
    BY <1>1 DEF Waiting
<1>4. New \cap (queue \cup hand) = {}
    BY <1>3 DEF EachOnce
<1>5. IsFiniteSet(New) /\ Cardinality(New) = to - from
    <2>1. \A k, l \in from+1 .. to : k # l => item[k] # item[l]
        BY <1>1 DEF AsBacklog, EachOnce
    <2> HIDE DEF item, to, from
    <2>2. from <= to
        BY <1>1
    <2> QED BY <1>1, <2>1, <2>2, CountDistinct
<1>6. TypeOK'
    <2>1. New \subseteq Item
        <3>1. \A x \in Packet : AsBacklog(x) \in Item
            BY DEF Item, AsBacklog, Backlog
        <3> QED BY <1>3, <3>1
    <2> HIDE DEF New
    <2> QED BY <1>1, <1>2, <2>1 DEF TypeOK
<1>7. EachOnce'
    <2>1. Waiting(p)' = {chunk[p][k] : k \in to+1 .. Len(chunk[p])}
        BY <1>2 DEF Waiting, TypeOK
    <2>2. Waiting(p)' \subseteq Waiting(p)
        <3>1. ASSUME NEW k \in to+1 .. Len(chunk[p])
              PROVE  k \in from+1 .. Len(chunk[p])
            <4> HIDE DEF to, from
            <4> QED BY <1>1
        <3> QED BY <2>1, <3>1 DEF Waiting
    <2>3. \A q \in Producer \ {p} : Waiting(q)' = Waiting(q) /\ done'[q] = done[q]
        BY <1>2 DEF Waiting, TypeOK
    <2>4. ASSUME NEW q \in Producer, NEW x \in Waiting(q)'
          PROVE  AsBacklog(x) \notin (queue \cup hand)'
        <3>1. AsBacklog(x) \notin queue \cup hand
            BY <2>2, <2>3 DEF EachOnce
        <3>2. ASSUME NEW k \in from+1 .. to PROVE chunk[p][k] # x
            <4>1. CASE q = p
                <5>1. PICK l \in to+1 .. Len(chunk[p]) : x = chunk[p][l]
                    BY <2>1, <4>1
                <5>2. k # l /\ k \in 1 .. Len(chunk[p]) /\ l \in 1 .. Len(chunk[p])
                    BY <1>1
                <5> QED BY <5>1, <5>2 DEF EachOnce
            <4>2. CASE q # p
                BY <1>3, <2>3, <4>2 DEF EachOnce
            <4> QED BY <4>1, <4>2
        <3>3. AsBacklog(x) \notin New
            BY <3>2 DEF AsBacklog
        <3> QED BY <1>2, <3>1, <3>3
    <2>5. \A q \in Producer : \A r \in Producer \ {q} : Waiting(q)' \cap Waiting(r)' = {}
        BY <2>2, <2>3 DEF EachOnce
    <2>6. \A i \in (queue \cup hand)' : i.priority = Backlog => i.packet \in submitted'
        <3>1. \A k \in from+1 .. to : chunk[p][k] \in submitted
            BY <1>1 DEF EachOnce
        <3>2. \A i \in New : i.packet \in submitted
            <4>1. \A k \in from+1 .. to : item[k].packet = chunk[p][k]
                BY DEF AsBacklog
            <4> HIDE DEF item, from, to
            <4> QED BY <3>1, <4>1
        <3> HIDE DEF New
        <3> QED BY <1>2, <3>2 DEF EachOnce
    <2>7. \A q \in Producer : done'[q] <= Len(chunk'[q])
        BY <1>1, <1>2, <2>3 DEF EachOnce, TypeOK
    <2> QED BY <1>2, <2>4, <2>5, <2>6, <2>7 DEF EachOnce
<1>8. IsFiniteSet(queue') /\ Cardinality(queue') = Cardinality(queue) + (to - from)
    <2> HIDE DEF New, to, from
    <2>1. queue \cap New = {}
        BY <1>4
    <2>2. Cardinality(queue \cap New) = 0
        BY <2>1, FS_EmptySet
    <2>3. /\ IsFiniteSet(queue \cup New)
          /\ Cardinality(queue \cup New) =
                Cardinality(queue) + Cardinality(New) - Cardinality(queue \cap New)
        BY <1>5, FS_Union
    <2>4. Cardinality(queue) \in Nat
        BY FS_CardinalityType
    <2> QED BY <1>1, <1>2, <1>5, <2>2, <2>3, <2>4
<1>9. Accounted'
    <2> HIDE DEF New, to, from
    <2>1. Cardinality(queue) \in Nat /\ Cardinality(hand) \in Nat
        BY FS_CardinalityType
    <2> QED BY <1>1, <1>2, <1>8, <2>1 DEF Accounted, TypeOK
<1> QED BY <1>2, <1>6, <1>7, <1>8, <1>9

LEMMA BacklogReturnPreserves ==
    ASSUME IndInv, NEW p \in Producer, BacklogReturn(p), UNCHANGED submitted
    PROVE  IndInv'
<1> USE DEF IndInv
<1>1. /\ chunk' = [chunk EXCEPT ![p] = <<>>]
      /\ done' = [done EXCEPT ![p] = 0]
      /\ UNCHANGED <<queue, unfinished, hand, refused, submitted>>
    BY DEF BacklogReturn
<1>2. TypeOK'
    BY <1>1 DEF TypeOK
<1>3. Waiting(p)' = {}
    BY <1>1 DEF Waiting, TypeOK
<1>4. \A q \in Producer \ {p} :
         Waiting(q)' = Waiting(q) /\ done'[q] = done[q] /\ chunk'[q] = chunk[q]
    BY <1>1 DEF Waiting, TypeOK
<1>5. EachOnce'
    <2>1. chunk'[p] = <<>> /\ done'[p] = 0 /\ Len(chunk'[p]) = 0
        BY <1>1 DEF TypeOK
    <2>2. \A q \in Producer :
             /\ done'[q] <= Len(chunk'[q])
             /\ \A k, l \in 1 .. Len(chunk'[q]) : k # l => chunk'[q][k] # chunk'[q][l]
             /\ \A k \in 1 .. Len(chunk'[q]) : chunk'[q][k] \in submitted'
        BY <1>1, <1>4, <2>1 DEF EachOnce
    <2>3. \A q \in Producer : \A x \in Waiting(q)' : AsBacklog(x) \notin (queue \cup hand)'
        BY <1>1, <1>3, <1>4 DEF EachOnce
    <2>4. \A q \in Producer : \A r \in Producer \ {q} : Waiting(q)' \cap Waiting(r)' = {}
        BY <1>3, <1>4 DEF EachOnce
    <2> QED BY <1>1, <2>2, <2>3, <2>4 DEF EachOnce
<1> QED BY <1>1, <1>2, <1>5 DEF Accounted

LEMMA GetNextItemPreserves ==
    ASSUME IndInv, GetNextItem, UNCHANGED submitted
    PROVE  IndInv'
<1> USE DEF IndInv
<1>1. PICK i \in queue : queue' = queue \ {i} /\ hand' = {i}
    BY DEF GetNextItem, Foremost
<1>2. hand = {} /\ UNCHANGED <<unfinished, chunk, done, refused, submitted>>
    BY DEF GetNextItem
<1>3. TypeOK'
    BY <1>1, <1>2 DEF TypeOK
<1>4. EachOnce'
    <2>1. \A q \in Producer : Waiting(q)' = Waiting(q)
        BY <1>2 DEF Waiting
    <2>2. (queue \cup hand)' = queue \cup hand
        BY <1>1, <1>2
    <2> QED BY <1>2, <2>1, <2>2 DEF EachOnce
<1>5. /\ IsFiniteSet(queue') /\ Cardinality(queue') = Cardinality(queue) - 1
      /\ IsFiniteSet(hand') /\ Cardinality(hand') = 1 /\ Cardinality(hand) = 0
    BY <1>1, <1>2, FS_RemoveElement, FS_Singleton, FS_EmptySet
<1>6. Cardinality(queue) \in Nat
    BY FS_CardinalityType
<1>7. Accounted'
    <2>1. Cardinality(queue) <= MaxSize /\ unfinished' = Cardinality(queue)
        BY <1>2, <1>5, <1>6 DEF Accounted
    <2>2. unfinished' = Cardinality(queue') + Cardinality(hand')
        BY <1>5, <1>6, <2>1
    <2>3. Cardinality(queue') <= MaxSize
        BY <1>5, <1>6, <2>1, QueueAssumption
    <2> QED BY <1>5, <2>2, <2>3 DEF Accounted
<1> QED BY <1>3, <1>4, <1>5, <1>7

LEMMA TaskDonePreserves ==
    ASSUME IndInv, TaskDone, UNCHANGED submitted
    PROVE  IndInv'
<1> USE DEF IndInv
<1>1. /\ hand # {} /\ hand' = {} /\ unfinished' = unfinished - 1
      /\ UNCHANGED <<queue, chunk, done, refused, submitted>>
    BY DEF TaskDone
<1>2. /\ Cardinality(hand) = 1 /\ Cardinality(hand') = 0
      /\ IsFiniteSet(hand') /\ Cardinality(queue) \in Nat
    BY <1>1, FS_EmptySet, FS_CardinalityType DEF Accounted
<1>3. TypeOK'
    BY <1>1, <1>2 DEF TypeOK, Accounted
<1>4. EachOnce'
    <2>1. \A q \in Producer : Waiting(q)' = Waiting(q)
        BY <1>1 DEF Waiting
    <2> QED BY <1>1, <2>1 DEF EachOnce
<1>5. Accounted'
    BY <1>1, <1>2 DEF Accounted, TypeOK
<1> QED BY <1>1, <1>2, <1>3, <1>4, <1>5

LEMMA ResetPreserves ==
    ASSUME IndInv, Reset, UNCHANGED submitted
    PROVE  IndInv'
<1> USE DEF IndInv
<1>1. TypeOK'
    BY DEF Reset, TypeOK
<1>2. EachOnce'
    BY DEF Reset, EachOnce, Waiting
<1>3. /\ IsFiniteSet(queue') /\ Cardinality(queue') = 0
      /\ IsFiniteSet(hand') /\ Cardinality(hand') = 0 /\ unfinished' = 0
    BY FS_EmptySet DEF Reset
<1>4. Accounted'
    BY <1>3, QueueAssumption DEF Accounted
<1> QED BY <1>1, <1>2, <1>3, <1>4

LEMMA NextPreserves == IndInv /\ [Next]_vars => IndInv'
<1> SUFFICES ASSUME IndInv, [Next]_vars PROVE IndInv'
    OBVIOUS
<1>1. CASE \E p \in LivePacket : EnqueueLive(p) /\ UNCHANGED submitted
    BY <1>1, EnqueueLivePreserves, QueueAssumption
<1>2. CASE \E p \in Producer, d \in Device :
               \E S \in SUBSET {x \in Packet : x.device = d} : Dump(p, S)
    <2>1. PICK p \in Producer, d \in Device :
               \E S \in SUBSET {x \in Packet : x.device = d} : Dump(p, S)
        BY <1>2
    <2>2. PICK S \in SUBSET {x \in Packet : x.device = d} : Dump(p, S)
        BY <2>1
    <2>3. S \in SUBSET Packet
        OBVIOUS
    <2> QED BY <2>2, <2>3, DumpPreserves
<1>3. CASE \E p \in Producer : BacklogRun(p) /\ UNCHANGED submitted
    BY <1>3, BacklogRunPreserves
<1>4. CASE \E p \in Producer : BacklogReturn(p) /\ UNCHANGED submitted
    BY <1>4, BacklogReturnPreserves
<1>5. CASE GetNextItem /\ UNCHANGED submitted
    BY <1>5, GetNextItemPreserves
<1>6. CASE TaskDone /\ UNCHANGED submitted
    BY <1>6, TaskDonePreserves
<1>7. CASE Reset /\ UNCHANGED submitted
    BY <1>7, ResetPreserves
<1>8. CASE UNCHANGED vars
    <2>1. UNCHANGED <<queue, unfinished, hand, chunk, done, refused, submitted>>
        BY <1>8 DEF vars
    <2>2. TypeOK'
        BY <2>1 DEF IndInv, TypeOK
    <2>3. \A p \in Producer : Waiting(p)' = Waiting(p)
        BY <2>1 DEF Waiting
    <2>4. EachOnce'
        BY <2>1, <2>3 DEF IndInv, EachOnce
    <2> QED BY <2>1, <2>2, <2>4 DEF IndInv, Accounted
<1>9. CASE Next
    BY <1>9, <1>1, <1>2, <1>3, <1>4, <1>5, <1>6, <1>7 DEF Next
<1> QED BY <1>8, <1>9
-----------------------------------------------------------------------------
THEOREM IndInvHolds == Spec => []IndInv
BY InitEstablishes, NextPreserves, PTL DEF Spec

\* The state of the queue keeps its shape; in particular unfinished never
\* goes negative (task_done() would raise ValueError).
THEOREM TypeCorrect == Spec => []TypeOK
<1>1. IndInv => TypeOK
    BY DEF IndInv
<1> QED BY <1>1, IndInvHolds, PTL

\* asyncio.Queue's books balance and the heap respects maxsize.
THEOREM AccountedHolds == Spec => []Accounted
<1>1. IndInv => Accounted
    BY DEF IndInv
<1> QED BY <1>1, IndInvHolds, PTL

\* No packet of a dump is enqueued twice, whatever interleaves with it.
THEOREM EachOnceHolds == Spec => []EachOnce
<1>1. IndInv => EachOnce
    BY DEF IndInv
<1> QED BY <1>1, IndInvHolds, PTL

\* ChunksSorted is inductive by itself once the types are known.
LEMMA ChunksSortedHolds == Spec => []ChunksSorted
<1>1. Init => ChunksSorted
    BY DEF Init, ChunksSorted
<1>2. TypeOK /\ ChunksSorted /\ [Next]_vars => ChunksSorted'
    <2> SUFFICES ASSUME TypeOK, ChunksSorted, [Next]_vars PROVE ChunksSorted'
        OBVIOUS
    <2>1. ASSUME NEW p \in Producer, NEW S \in SUBSET Packet, StartBacklog(p, S)
          PROVE  ChunksSorted'
        <3>1. PICK s \in SortedChunks(S) : chunk' = [chunk EXCEPT ![p] = s]
            BY <2>1 DEF StartBacklog
        <3>2. \A k, l \in 1 .. Len(s) : k < l => ~ChunkPrecedes(s[l], s[k])
            <4>1. DOMAIN s = 1 .. Len(s)
                BY SortedChunkFacts
            <4> QED BY <4>1 DEF SortedChunks
        <3> QED BY <3>1, <3>2 DEF ChunksSorted, TypeOK
    <2>2. ASSUME NEW p \in Producer, BacklogReturn(p)
          PROVE  ChunksSorted'
        BY <2>2 DEF BacklogReturn, ChunksSorted, TypeOK
    <2>3. CASE UNCHANGED chunk
        BY <2>3 DEF ChunksSorted
    <2>4. CASE Reset
        BY <2>4 DEF Reset, ChunksSorted
    <2>5. ASSUME NEW p \in Producer, NEW d \in Device,
                 NEW S \in SUBSET {x \in Packet : x.device = d}, Dump(p, S)
          PROVE  ChunksSorted'
        BY <2>5, <2>1 DEF Dump
    <2>6. CASE Next
        BY <2>6, <2>2, <2>3, <2>4, <2>5
           DEF Next, EnqueueLive, BacklogRun, GetNextItem, TaskDone
    <2> QED BY <2>3, <2>6 DEF vars
<1> QED BY <1>1, <1>2, TypeCorrect, PTL DEF Spec

\* Only get() hands the worker an item, and it is a foremost one.
LEMMA HandComesFromGet ==
    ASSUME [Next]_vars, NEW i \in hand' \ hand
    PROVE  i \in Foremost(queue)
<1>1. CASE GetNextItem
    BY <1>1 DEF GetNextItem
<1>2. CASE UNCHANGED hand
    BY <1>2
<1>3. CASE hand' = {}
    BY <1>3
<1>4. CASE Next
    BY <1>4, <1>1, <1>2, <1>3
       DEF Next, EnqueueLive, Dump, StartBacklog, BacklogRun, BacklogReturn,
           TaskDone, Reset
<1> QED BY <1>2, <1>4 DEF vars

\* No backlog item reaches the worker while a live frame is queued.
THEOREM LiveFirstHolds == Spec => LiveFirst
<1> DEFINE A == \A i \in hand' \ hand :
                  i.priority = Backlog => \A j \in queue : j.priority = Backlog
<1>1. TypeOK /\ [Next]_vars => A
    <2> SUFFICES ASSUME TypeOK, [Next]_vars, NEW i \in hand' \ hand,
                        i.priority = Backlog, NEW j \in queue
                 PROVE  j.priority = Backlog
        OBVIOUS
    <2>1. ~Precedes(j, i) /\ j \in Item
        BY HandComesFromGet DEF Foremost, TypeOK
    <2> QED BY <2>1 DEF Precedes, Item, Live, Backlog
<1>2. TypeOK /\ [Next]_vars => [A]_vars
    BY <1>1
<1> QED BY <1>2, TypeCorrect, PTL DEF Spec, LiveFirst

\* Under clocks that agree with the sequence numbers a device's backlog
\* reaches the worker in order, even while its dump is still being enqueued.
THEOREM BacklogInOrderHolds == Spec => BacklogInOrder
<1> DEFINE A == \A i \in hand' \ hand :
          ClockAgrees /\ i.priority = Backlog =>
             /\ \A j \in queue :
                   j.priority = Backlog /\ j.packet.device = i.packet.device
                      => ~ChunkPrecedes(j.packet, i.packet)
             /\ \A p \in Producer : \A k \in 1 .. Len(chunk[p]) :
                   i.packet \in {chunk[p][l] : l \in 1 .. done[p]} /\ k > done[p]
                      => ~ChunkPrecedes(chunk[p][k], i.packet)
<1>1. IndInv /\ ChunksSorted /\ [Next]_vars => A
    <2> SUFFICES ASSUME IndInv, ChunksSorted, [Next]_vars,
                        NEW i \in hand' \ hand, ClockAgrees, i.priority = Backlog
                 PROVE  /\ \A j \in queue :
                              j.priority = Backlog /\ j.packet.device = i.packet.device
                                 => ~ChunkPrecedes(j.packet, i.packet)
                        /\ \A p \in Producer : \A k \in 1 .. Len(chunk[p]) :
                              i.packet \in {chunk[p][l] : l \in 1 .. done[p]} /\ k > done[p]
                                 => ~ChunkPrecedes(chunk[p][k], i.packet)
        OBVIOUS
    <2>1. ASSUME NEW j \in queue, j.priority = Backlog,
                 j.packet.device = i.packet.device
          PROVE  ~ChunkPrecedes(j.packet, i.packet)
        <3>1. ~Precedes(j, i) /\ i \in queue
            BY HandComesFromGet DEF Foremost
        <3>2. i.packet \in Packet /\ j.packet \in Packet
            BY <3>1 DEF IndInv, TypeOK, Item
        <3>3. i.packet.seq \in Int /\ j.packet.seq \in Int
            BY <3>2, QueueAssumption
        <3>4. j.packet.seq < i.packet.seq => j.packet.timestamp < i.packet.timestamp
            BY <2>1, <3>2 DEF ClockAgrees
        <3> QED BY <2>1, <3>1, <3>3, <3>4 DEF Precedes, ChunkPrecedes
    <2>2. ASSUME NEW p \in Producer, NEW k \in 1 .. Len(chunk[p]), k > done[p],
                 NEW l \in 1 .. done[p]
          PROVE  ~ChunkPrecedes(chunk[p][k], chunk[p][l])
        <3>1. done[p] \in Nat /\ done[p] <= Len(chunk[p]) /\ Len(chunk[p]) \in Nat
            BY DEF IndInv, TypeOK, EachOnce
        <3>2. l \in 1 .. Len(chunk[p]) /\ l < k
            BY <2>2, <3>1
        <3> QED BY <3>2 DEF ChunksSorted
    <2> QED BY <2>1, <2>2
<1>2. IndInv /\ ChunksSorted /\ [Next]_vars => [A]_vars
    BY <1>1
<1> QED BY <1>2, IndInvHolds, ChunksSortedHolds, PTL DEF Spec, BacklogInOrder

\* Between the multiples of size that enclose d and those after it lies none.
LEMMA NoBoundaryInside ==
    ASSUME NEW d \in Nat, NEW size \in Nat \ {0}, NEW k \in Nat,
           d < k, k < (d \div size + 1) * size
    PROVE  k % size # 0
<1> DEFINE q == d \div size
           m == k \div size
<1>1. /\ q \in Nat /\ d % size \in 0 .. size - 1
      /\ m \in Nat /\ k % size \in 0 .. size - 1
    OBVIOUS
<1>2. d = size * q + (d % size) /\ k = size * m + (k % size)
    BY Z3
<1>3. k < (q + 1) * size
    OBVIOUS
<1> HIDE DEF q, m
<1>4. \A a, b \in Nat : a <= b => size * a <= size * b
    <2> SUFFICES ASSUME NEW a \in Nat, NEW b \in Nat, a <= b PROVE size * a <= size * b
        OBVIOUS
    <2>1. PICK c \in Nat : b = a + c
        <3>1. b - a \in Nat /\ b = a + (b - a)
            OBVIOUS
        <3> QED BY <3>1
    <2>2. size * b = size * a + size * c /\ size * c \in Nat /\ size * a \in Nat
        BY <2>1
    <2> QED BY <2>2
<1>5. CASE m <= q
    <2>1. size * m <= size * q /\ size * m \in Nat /\ size * q \in Nat
        BY <1>1, <1>4, <1>5
    <2>2. d % size >= 0
        BY <1>1
    <2> QED BY <1>1, <1>2, <2>1, <2>2
<1>6. CASE m > q
    <2>1. q + 1 \in Nat /\ q + 1 <= m
        BY <1>1, <1>6
    <2>2. size * (q + 1) <= size * m
        BY <1>1, <1>4, <2>1
    <2>3. size * (q + 1) = (q + 1) * size
        BY <2>1
    <2>4. size * m \in Nat /\ k % size >= 0 /\ (q + 1) * size \in Nat
        BY <1>1, <2>1
    <2> QED BY <1>1, <1>2, <1>3, <2>2, <2>3, <2>4
<1> QED BY <1>1, <1>5, <1>6

\* A producer hands the event loop back at every multiple of the slice of its
\* chunk, wherever the full queue has interrupted it before.
THEOREM YieldsEverySliceHolds == Spec => YieldsEverySlice
<1> DEFINE A == \A p \in Producer : \A k \in done[p]+1 .. done'[p]-1 : k % SliceSize # 0
<1>1. IndInv /\ [Next]_vars => A
    <2> SUFFICES ASSUME IndInv, [Next]_vars,
                        NEW p \in Producer, NEW k \in done[p]+1 .. done'[p]-1
                 PROVE  k % SliceSize # 0
        OBVIOUS
    <2>1. done[p] \in Nat /\ done \in [Producer -> Nat]
        BY DEF IndInv, TypeOK
    <2>2. done'[p] \in Nat
        <3>1. IndInv'
            BY NextPreserves
        <3> QED BY <3>1 DEF IndInv, TypeOK
    <2>3. done'[p] > done[p] + 1 /\ k \in Nat /\ done[p] < k /\ k < done'[p]
        BY <2>1, <2>2
    <2>4. BacklogRun(p)
        <3>1. CASE UNCHANGED done
            BY <2>1, <2>3, <3>1
        <3>2. CASE \E q \in Producer : BacklogRun(q)
            <4>1. PICK q \in Producer : BacklogRun(q)
                BY <3>2
            <4>2. done' = [done EXCEPT ![q] = RunEnd(q)]
                BY <4>1 DEF BacklogRun
            <4>3. q = p
                BY <2>1, <2>3, <4>2
            <4> QED BY <4>1, <4>3
        <3>3. CASE \E q \in Producer : done' = [done EXCEPT ![q] = 0]
            BY <2>1, <2>3, <3>3
        <3>4. CASE done' = [q \in Producer |-> 0]
            BY <2>1, <2>3, <3>4
        <3> QED BY <3>1, <3>2, <3>3, <3>4
                DEF Next, EnqueueLive, Dump, StartBacklog, BacklogReturn, GetNextItem,
                    TaskDone, Reset, vars
    <2>5. done'[p] = RunEnd(p) /\ RunEnd(p) > done[p]
        BY <2>1, <2>4 DEF BacklogRun
    <2>6. RunEnd(p) <= (done[p] \div SliceSize + 1) * SliceSize
        <3> DEFINE next == (done[p] \div SliceSize + 1) * SliceSize
                   full == done[p] + MaxSize - Cardinality(queue)
        <3>1. next \in Nat
            BY <2>1, QueueAssumption, SliceArithmetic
        <3>2. Len(chunk[p]) \in Nat /\ full \in Int
            BY <2>1, QueueAssumption, FS_CardinalityType DEF IndInv, TypeOK
        <3>3. SliceEnd(p) = IF next < Len(chunk[p]) THEN next ELSE Len(chunk[p])
            BY DEF SliceEnd
        <3>4. RunEnd(p) = IF full < SliceEnd(p) THEN full ELSE SliceEnd(p)
            BY DEF RunEnd
        <3> HIDE DEF next, full
        <3>5. SliceEnd(p) \in Nat /\ SliceEnd(p) <= next
            BY <3>1, <3>2, <3>3
        <3>6. RunEnd(p) <= next
            BY <3>1, <3>2, <3>4, <3>5
        <3> QED BY <3>6 DEF next
    <2>7. (done[p] \div SliceSize + 1) * SliceSize \in Nat /\ SliceSize \in Nat \ {0}
        BY <2>1, QueueAssumption, SliceArithmetic
    <2>8. k < (done[p] \div SliceSize + 1) * SliceSize
        BY <2>2, <2>3, <2>5, <2>6, <2>7
    <2> QED BY <2>1, <2>3, <2>7, <2>8, NoBoundaryInside
<1>2. IndInv /\ [Next]_vars => [A]_vars
    BY <1>1
<1> QED BY <1>2, IndInvHolds, PTL DEF Spec, YieldsEverySlice
=============================================================================
