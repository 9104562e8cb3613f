------------------------ MODULE TrackingServerProofs ------------------------
(***************************************************************************)
(* Proofs about TrackingServer for any devices, packets, connections,      *)
(* uploads, capacities and environments.                                   *)
(***************************************************************************)
EXTENDS TrackingServer, TLAPS

QP == INSTANCE IngestionQueueProofs
         WITH Producer <- Conn \cup Upload, LivePacket <- Packet, submitted <- dumped

\* Where the worker's local variables are meaningful.
WorkerState ==
    /\ pc[Worker] \in {"idle", "reading", "querying", "restored",
                       "sending", "storing", "raised"}
    /\ pc[Worker] = "idle" <=> hand = {}
    /\ pc[Worker] \in {"restored", "sending", "storing"} => loc[Worker] \in State
    /\ \A c \in Conn : pc[c] = "restored" => loc[c] \in State

\* The server's initial state is one of the queue's.
LEMMA InitRefines == Init => Q!Init
BY DEF Init, Q!Init

\* Every step of the server is a step of the queue or leaves it alone.
LEMMA NextRefines == Next => [Q!Next]_(Q!vars)
<1> SUFFICES ASSUME Next PROVE [Q!Next]_(Q!vars)
    OBVIOUS
<1>1. CASE UNCHANGED <<queueVars, dumped>>
    BY <1>1 DEF queueVars, Q!vars
<1>2. ASSUME NEW c \in Conn, NEW p \in Packet, ReceiveLive(c, p)
      PROVE  Q!Next
    <2>1. Q!EnqueueLive(p) /\ UNCHANGED dumped
        BY <1>2 DEF ReceiveLive
    <2> QED BY <2>1 DEF Q!Next
<1>3. ASSUME NEW p \in Conn \cup Upload, NEW d \in Device, NEW S \in Dumpable(d),
             Q!Dump(p, S)
      PROVE  Q!Next
    <2>1. S \in SUBSET {x \in Packet : x.device = d}
        BY DEF Dumpable
    <2> QED BY <1>3, <2>1 DEF Q!Next
<1>4. ASSUME NEW p \in Conn \cup Upload, EnqueueBacklog(p)
      PROVE  Q!Next
    BY <1>4 DEF EnqueueBacklog, Q!Next
<1>5. CASE Q!GetNextItem /\ UNCHANGED dumped
    BY <1>5 DEF Q!Next
<1>6. CASE Q!TaskDone /\ UNCHANGED dumped
    BY <1>6 DEF Q!Next
<1>7. CASE Q!Reset /\ UNCHANGED dumped
    BY <1>7 DEF Q!Next
<1>8. ASSUME NEW c \in Conn, Handler(c)
      PROVE  [Q!Next]_(Q!vars)
    <2>1. DeviceOf[c] \in Device
        BY ServerAssumption
    <2>2. ASSUME NEW S \in Dumpable(DeviceOf[c]), ReceiveBacklog(c, S)
          PROVE  Q!Next
        BY <2>1, <2>2, <1>3 DEF ReceiveBacklog
    <2>3. CASE Accept(c) \/ Install(c) \/ Disconnect(c)
        BY <2>3, <1>1 DEF Accept, Install, Disconnect
    <2> QED BY <1>8, <1>2, <2>2, <2>3 DEF Handler
<1>9. ASSUME NEW a \in Agent, Restore(a)
      PROVE  [Q!Next]_(Q!vars)
    BY <1>9, <1>1 DEF Restore, ReadCache, ReadDb, ReadDbFails
<1>10. ASSUME NEW u \in Upload, NEW d \in Device, NEW S \in Dumpable(d), UploadBatch(u, d, S)
       PROVE  [Q!Next]_(Q!vars)
    BY <1>10, <1>3 DEF UploadBatch
<1>11. CASE QueueWorker
    <2>1. CASE WorkerTake
        BY <2>1, <1>5 DEF WorkerTake
    <2>2. CASE WorkerInstall \/ WorkerSent
        BY <2>2, <1>1 DEF WorkerInstall, WorkerSent
    <2>3. CASE WorkerStore \/ WorkerGivesUp
        BY <2>3, <1>6 DEF WorkerStore, WorkerGivesUp
    <2> QED BY <1>11, <2>1, <2>2, <2>3 DEF QueueWorker
<1>12. CASE PersistPoint \/ (\E d \in Device : CacheLoses(d))
    BY <1>12, <1>1 DEF PersistPoint, CacheLoses
<1>13. CASE Crash
    BY <1>13, <1>7 DEF Crash
<1> QED BY <1>4, <1>8, <1>9, <1>10, <1>11, <1>12, <1>13 DEF Next

\* The server drives the queue only as IngestionQueue allows.
THEOREM ServerUsesQueue == Spec => UsesQueue
<1>1. [Next]_vars => [Q!Next]_(Q!vars)
    <2>1. UNCHANGED vars => UNCHANGED Q!vars
        BY DEF vars, queueVars, Q!vars
    <2> QED BY <2>1, NextRefines
<1> QED BY <1>1, InitRefines, PTL DEF Spec, UsesQueue, Q!Spec

-----------------------------------------------------------------------------
\* Q and QP are two instances of the same definitions, so they agree.
LEMMA SameCardinality == \A S : Q!Cardinality(S) = QP!Cardinality(S)
BY DEF Q!Cardinality, QP!Cardinality, Q!IsFiniteSet, QP!IsFiniteSet

LEMMA SameOperators ==
    /\ Q!HasRoom <=> QP!HasRoom
    /\ Q!Foremost(queue) = QP!Foremost(queue)
    /\ \A p : Q!AsLive(p) = QP!AsLive(p) /\ Q!AsBacklog(p) = QP!AsBacklog(p)
    /\ \A p : Q!RunEnd(p) = QP!RunEnd(p)
    /\ \A S : Q!SortedChunks(S) = QP!SortedChunks(S)
<1>1. Q!HasRoom <=> QP!HasRoom
    BY SameCardinality DEF Q!HasRoom, QP!HasRoom
<1>2. Q!Foremost(queue) = QP!Foremost(queue)
    BY DEF Q!Foremost, QP!Foremost, Q!Precedes, QP!Precedes
<1>3. \A p : Q!AsLive(p) = QP!AsLive(p) /\ Q!AsBacklog(p) = QP!AsBacklog(p)
    BY DEF Q!AsLive, QP!AsLive, Q!AsBacklog, QP!AsBacklog,
           Q!Live, QP!Live, Q!Backlog, QP!Backlog
<1>4. \A p : Q!RunEnd(p) = QP!RunEnd(p)
    BY SameCardinality DEF Q!RunEnd, QP!RunEnd, Q!SliceEnd, QP!SliceEnd
<1>5. \A S : Q!SortedChunks(S) = QP!SortedChunks(S)
    BY SameCardinality DEF Q!SortedChunks, QP!SortedChunks, Q!ChunkPrecedes, QP!ChunkPrecedes
<1> QED BY <1>1, <1>2, <1>3, <1>4, <1>5

LEMMA SameSpec == Q!Spec => QP!Spec
<1>1. Q!Init => QP!Init
    BY DEF Q!Init, QP!Init
<1>2. UNCHANGED Q!vars => UNCHANGED QP!vars
    BY DEF Q!vars, QP!vars
<1>3. Q!Next => QP!Next
    <2> SUFFICES ASSUME Q!Next PROVE QP!Next
        OBVIOUS
    <2>1. CASE \E p \in Packet : Q!EnqueueLive(p) /\ UNCHANGED dumped
        BY <2>1, SameOperators DEF Q!EnqueueLive, QP!EnqueueLive, QP!Next
    <2>2. CASE \E p \in Conn \cup Upload, d \in Device :
                  \E S \in SUBSET {x \in Packet : x.device = d} : Q!Dump(p, S)
        <3>1. \A p, S : Q!Dump(p, S) => QP!Dump(p, S)
            BY SameOperators DEF Q!Dump, QP!Dump, Q!StartBacklog, QP!StartBacklog
        <3> QED BY <2>2, <3>1 DEF QP!Next
    <2>3. CASE \E p \in Conn \cup Upload : Q!BacklogRun(p) /\ UNCHANGED dumped
        BY <2>3, SameOperators DEF Q!BacklogRun, QP!BacklogRun, QP!Next
    <2>4. CASE \E p \in Conn \cup Upload : Q!BacklogReturn(p) /\ UNCHANGED dumped
        BY <2>4 DEF Q!BacklogReturn, QP!BacklogReturn, QP!Next
    <2>5. CASE Q!GetNextItem /\ UNCHANGED dumped
        BY <2>5, SameOperators DEF Q!GetNextItem, QP!GetNextItem, QP!Next
    <2>6. CASE Q!TaskDone /\ UNCHANGED dumped
        BY <2>6 DEF Q!TaskDone, QP!TaskDone, QP!Next
    <2>7. CASE Q!Reset /\ UNCHANGED dumped
        BY <2>7 DEF Q!Reset, QP!Reset, QP!Next
    <2> QED BY <2>1, <2>2, <2>3, <2>4, <2>5, <2>6, <2>7 DEF Q!Next
<1>4. [Q!Next]_(Q!vars) => [QP!Next]_(QP!vars)
    BY <1>2, <1>3
<1> QED BY <1>1, <1>4, PTL DEF Q!Spec, QP!Spec

\* What is proved of the queue by itself holds in the running server: its
\* books balance whatever handlers, uploads, worker and restarts do.
THEOREM QueueStaysAccounted == Spec => [](Q!TypeOK /\ Q!Accounted)
<1>1. QP!QueueAssumption
    BY ServerAssumption DEF QP!QueueAssumption, IsFiniteSet, QP!IsFiniteSet
<1>2. QP!Spec => []QP!Accounted
    BY <1>1, QP!AccountedHolds
<1>3. QP!Spec => []QP!TypeOK
    BY <1>1, QP!TypeCorrect
<1>5. QP!Accounted => Q!Accounted
    BY SameCardinality DEF Q!Accounted, QP!Accounted
<1>6. QP!TypeOK => Q!TypeOK
    BY DEF Q!TypeOK, QP!TypeOK, Q!Item, QP!Item, Q!Live, QP!Live, Q!Backlog, QP!Backlog
<1>4. Spec => Q!Spec
    BY ServerUsesQueue DEF UsesQueue
<1> QED BY <1>2, <1>3, <1>4, <1>5, <1>6, SameSpec, PTL
-----------------------------------------------------------------------------
\* TypeOK is inductive once it is known what agents keep in their locals.
TypeInv == TypeOK /\ WorkerState

LEMMA TypeInvInit == Init => TypeInv
BY ServerAssumption DEF Init, TypeInv, TypeOK, WorkerState, Agent

\* A packet more in a filter.
LEMMA FusedState ==
    ASSUME NEW p \in Packet, NEW kf \in State
    PROVE  /\ [kf EXCEPT !.fused = @ \cup {p}] \in State
           /\ [kf EXCEPT !.fused = @ \cup {p}].fused = kf.fused \cup {p}
BY DEF State

LEMMA FusePreserves ==
    ASSUME TypeInv, NEW p \in Packet, NEW kf \in State, Fuse(p, kf), hand' # {},
           UNCHANGED <<dumped, lived, active_connections, stores>>
    PROVE  TypeInv'
<1> USE ServerAssumption DEF TypeInv, Agent
<1>1. p.device \in Device
    OBVIOUS
<1>2. PICK fused \in State : fused = [kf EXCEPT !.fused = @ \cup {p}]
    BY FusedState
<1>3. /\ filters' = [filters EXCEPT ![p.device] = fused]
      /\ \/ /\ loc' = [loc EXCEPT ![Worker] = NoState]
            /\ pc' = [pc EXCEPT ![Worker] = "raised"]
         \/ /\ loc' = [loc EXCEPT ![Worker] = fused]
            /\ \E w \in {"sending", "storing"} : pc' = [pc EXCEPT ![Worker] = w]
    BY <1>2 DEF Fuse
<1> QED BY <1>1, <1>3 DEF TypeOK, WorkerState, stores

LEMMA QueuedPackets == Q!TypeOK => \A i \in queue \cup hand : i.packet \in Packet
BY DEF Q!TypeOK, Q!Item

\* Whatever the cache answers is a filter or nothing.
LEMMA AnswersAreStates ==
    ASSUME TypeOK, NEW d \in Device
    PROVE  CacheAnswers(d) \subseteq State \cup {NoState}
BY DEF CacheAnswers, TypeOK

LEMMA TypeInvNext == Q!TypeOK /\ TypeInv /\ [Next]_vars => TypeInv'
<1> SUFFICES ASSUME Q!TypeOK, TypeInv, [Next]_vars PROVE TypeInv'
    OBVIOUS
<1> USE DEF TypeInv
<1>1. ASSUME NEW c \in Conn, Accept(c) PROVE TypeInv'
    BY <1>1, ServerAssumption DEF Accept, TypeOK, WorkerState, Agent, queueVars, stores
<1>2. ASSUME NEW c \in Conn, Install(c) PROVE TypeInv'
    BY <1>2, ServerAssumption DEF Install, TypeOK, WorkerState, Agent, queueVars, stores
<1>3. ASSUME NEW c \in Conn, NEW p \in Packet, ReceiveLive(c, p) PROVE TypeInv'
    BY <1>3, ServerAssumption
       DEF ReceiveLive, Q!EnqueueLive, TypeOK, WorkerState, Agent, stores
<1>4. ASSUME NEW p \in Conn \cup Upload, NEW S \in SUBSET Packet, Q!Dump(p, S),
             UNCHANGED <<lived, pc, loc, active_connections, filters, stores>>
      PROVE  TypeInv'
    BY <1>4 DEF Q!Dump, Q!StartBacklog, TypeOK, WorkerState, Agent, stores
<1>5. ASSUME NEW c \in Conn, Disconnect(c) PROVE TypeInv'
    BY <1>5, ServerAssumption DEF Disconnect, Receiving, TypeOK, WorkerState, Agent, queueVars, stores
<1>6. ASSUME NEW a \in Agent, ReadCache(a) PROVE TypeInv'
    <2>1. DeviceFor(a) \in Device
        BY <1>6, ServerAssumption, QueuedPackets
           DEF ReadCache, DeviceFor, HeldPacket, Agent, WorkerState
    <2>2. PICK state \in CacheAnswers(DeviceFor(a)) :
              IF state # NoState
              THEN /\ loc' = [loc EXCEPT ![a] = state]
                   /\ pc' = [pc EXCEPT ![a] = "restored"]
              ELSE /\ pc' = [pc EXCEPT ![a] = "querying"]
                   /\ UNCHANGED loc
        BY <1>6 DEF ReadCache
    <2>3. state \in State \cup {NoState}
        BY <2>1, AnswersAreStates
    <2> QED BY <1>6, <2>2, <2>3 DEF ReadCache, TypeOK, WorkerState, Agent, queueVars, stores
<1>7. ASSUME NEW a \in Agent, ReadDb(a) PROVE TypeInv'
    <2>1. \A r \in db : r.fused \subseteq Packet
        BY DEF TypeOK, Row
    <2>2. PICK s \in State : loc' = [loc EXCEPT ![a] = s]
        BY <1>7, <2>1 DEF ReadDb, LastKnown, RowsOf, State, NewFilter
    <2> QED BY <1>7, <2>2 DEF ReadDb, TypeOK, WorkerState, Agent, queueVars, stores
<1>8. ASSUME NEW a \in Agent, ReadDbFails(a) PROVE TypeInv'
    BY <1>8 DEF ReadDbFails, TypeOK, WorkerState, Agent, queueVars, stores
<1>9. CASE WorkerTake
    <2>1. PICK i \in queue : hand' = {i}
        BY <1>9 DEF WorkerTake, Q!GetNextItem, Q!Foremost
    <2>2. i.packet \in Packet
        BY QueuedPackets
    <2>3. i.packet.device \in Device
        BY <2>2, ServerAssumption
    <2>4. CASE filters[i.packet.device] # NoState
        <3>1. filters[i.packet.device] \in State
            BY <2>3, <2>4 DEF TypeOK
        <3>2. Fuse(i.packet, filters[i.packet.device])
            BY <1>9, <2>1, <2>4 DEF WorkerTake
        <3>3. UNCHANGED <<dumped, lived, active_connections, stores>>
            BY <1>9 DEF WorkerTake
        <3> QED BY <2>1, <2>2, <3>1, <3>2, <3>3, FusePreserves
    <2>5. CASE filters[i.packet.device] = NoState
        BY <1>9, <2>1, <2>2, <2>5
           DEF WorkerTake, Q!GetNextItem, Q!Foremost, TypeOK, WorkerState, Agent, stores
    <2> QED BY <2>4, <2>5
<1>10. CASE WorkerInstall
    <2>1. hand # {}
        BY <1>10 DEF WorkerInstall, WorkerState
    <2>2. HeldPacket \in Packet
        BY <2>1, QueuedPackets DEF HeldPacket
    <2>3. loc[Worker] \in State
        BY <1>10 DEF WorkerInstall, WorkerState
    <2>4. /\ Fuse(HeldPacket, loc[Worker])
          /\ UNCHANGED <<queueVars, dumped, lived, active_connections, stores>>
        BY <1>10 DEF WorkerInstall
    <2>5. hand' # {}
        BY <2>1, <2>4 DEF queueVars
    <2> QED BY <2>2, <2>3, <2>4, <2>5, FusePreserves
<1>11. CASE WorkerSent
    BY <1>11 DEF WorkerSent, TypeOK, WorkerState, Agent, queueVars, stores
<1>12. CASE WorkerStore
    <2>1. HeldPacket \in Packet /\ loc[Worker] \in State
        BY <1>12, QueuedPackets DEF WorkerStore, HeldPacket, WorkerState
    <2>2. Point \in Row
        BY <2>1 DEF Point, Row, State
    <2>3. persists' \in Seq(Row)
        BY <1>12, <2>2 DEF WorkerStore, TypeOK
    <2>4. cache' \in [Device -> State \cup {NoState}] /\ memory' \in [Device -> State \cup {NoState}]
        BY <1>12, <2>1, ServerAssumption DEF WorkerStore, SetCached, TypeOK
    <2> QED BY <1>12, <2>3, <2>4, ServerAssumption
            DEF WorkerStore, Q!TaskDone, TypeOK, WorkerState, Agent
<1>13. CASE WorkerGivesUp
    BY <1>13, ServerAssumption
       DEF WorkerGivesUp, Q!TaskDone, TypeOK, WorkerState, Agent, stores
<1>14. CASE PersistPoint
    <2>1. persists # <<>> /\ persists \in Seq(Row)
        BY <1>14 DEF PersistPoint, TypeOK
    <2>2. Head(persists) \in Row /\ Tail(persists) \in Seq(Row)
        BY <2>1
    <2> QED BY <1>14, <2>2 DEF PersistPoint, TypeOK, WorkerState, queueVars
<1>15. ASSUME NEW d \in Device, CacheLoses(d) PROVE TypeInv'
    BY <1>15 DEF CacheLoses, TypeOK, WorkerState, queueVars
<1>16. CASE Crash
    BY <1>16, ServerAssumption DEF Crash, Q!Reset, TypeOK, WorkerState, Agent
<1>17. ASSUME NEW p \in Conn \cup Upload, EnqueueBacklog(p) PROVE TypeInv'
    BY <1>17 DEF EnqueueBacklog, Q!BacklogRun, Q!BacklogReturn, TypeOK, WorkerState, stores
<1>18. CASE UNCHANGED vars
    BY <1>18 DEF vars, TypeOK, WorkerState, queueVars, stores
<1>19. ASSUME NEW c \in Conn, Handler(c) PROVE TypeInv'
    <2>1. ASSUME NEW S \in Dumpable(DeviceOf[c]), ReceiveBacklog(c, S) PROVE TypeInv'
        <3>1. S \in SUBSET Packet
            BY DEF Dumpable
        <3> QED BY <2>1, <3>1, <1>4 DEF ReceiveBacklog
    <2> QED BY <1>19, <2>1, <1>1, <1>2, <1>3, <1>5 DEF Handler
<1>20. ASSUME NEW u \in Upload, NEW d \in Device, NEW S \in Dumpable(d), UploadBatch(u, d, S)
       PROVE  TypeInv'
    <2>1. S \in SUBSET Packet
        BY DEF Dumpable
    <2> QED BY <1>20, <2>1, <1>4 DEF UploadBatch
<1>21. ASSUME NEW a \in Agent, Restore(a) PROVE TypeInv'
    BY <1>21, <1>6, <1>7, <1>8 DEF Restore
<1>22. CASE QueueWorker
    BY <1>22, <1>9, <1>10, <1>11, <1>12, <1>13 DEF QueueWorker
<1>23. CASE Next
    BY <1>23, <1>14, <1>15, <1>16, <1>17, <1>19, <1>20, <1>21, <1>22 DEF Next
<1> QED BY <1>18, <1>23

LEMMA TypeInvHolds == Spec => []TypeInv
BY TypeInvInit, TypeInvNext, QueueStaysAccounted, PTL DEF Spec

\* The server's state keeps its shape.
THEOREM ServerTypeCorrect == Spec => []TypeOK
<1>1. TypeInv => TypeOK
    BY DEF TypeInv
<1> QED BY <1>1, TypeInvHolds, PTL
-----------------------------------------------------------------------------
\* With a database that answers, an entry of active_connections never
\* outlives its handler, whatever else happens.
THEOREM RegistryStaysLive == "dbfail" \notin Env => (Spec => []RegistryIsLive)
<1> SUFFICES ASSUME "dbfail" \notin Env PROVE Spec => []RegistryIsLive
    OBVIOUS
<1>1. Init => RegistryIsLive
    BY DEF Init, RegistryIsLive
<1>2. TypeOK /\ RegistryIsLive /\ [Next]_vars => RegistryIsLive'
    <2> SUFFICES ASSUME TypeOK, RegistryIsLive, [Next]_vars PROVE RegistryIsLive'
        OBVIOUS
    <2> USE ServerAssumption DEF RegistryIsLive, Handling, Restoring, TypeOK, Agent
    <2>1. ASSUME NEW c \in Conn, Handler(c) PROVE RegistryIsLive'
        <3>1. CASE Accept(c)
            BY <3>1 DEF Accept
        <3>2. CASE Install(c)
            BY <3>2 DEF Install
        <3>3. CASE Disconnect(c)
            BY <3>3 DEF Disconnect, Receiving
        <3>4. CASE UNCHANGED <<pc, active_connections>>
            BY <3>4
        <3> QED BY <2>1, <3>1, <3>2, <3>3, <3>4 DEF Handler, ReceiveLive, ReceiveBacklog
    <2>2. ASSUME NEW a \in Agent, Restore(a) PROVE RegistryIsLive'
        BY <2>2 DEF Restore, ReadCache, ReadDb, ReadDbFails
    <2>3. CASE QueueWorker
        <3>1. UNCHANGED active_connections /\ \A c \in Conn : pc'[c] = pc[c]
            BY <2>3 DEF QueueWorker, WorkerTake, WorkerInstall, WorkerSent, WorkerStore,
                        WorkerGivesUp, Fuse
        <3> QED BY <3>1
    <2>4. CASE UNCHANGED <<pc, active_connections>>
        BY <2>4
    <2>5. CASE Crash
        BY <2>5 DEF Crash
    <2>6. CASE Next
        BY <2>6, <2>1, <2>2, <2>3, <2>4, <2>5
           DEF Next, UploadBatch, EnqueueBacklog, PersistPoint, CacheLoses
    <2> QED BY <2>4, <2>6 DEF vars
<1> QED BY <1>1, <1>2, ServerTypeCorrect, PTL DEF Spec

\* Without overlapping handlers a serving connection is the registered one.
OneHandler ==
    \A c \in Conn : Handling(c) => active_connections[DeviceOf[c]] = c

\* With a database that answers and devices that reconnect only after their
\* old handler has ended, every serving connection gets its pushes.
THEOREM ServingStaysRegistered ==
    "dbfail" \notin Env /\ "overlap" \notin Env => (Spec => []ServingIsRegistered)
<1> SUFFICES ASSUME "dbfail" \notin Env, "overlap" \notin Env
             PROVE  Spec => []ServingIsRegistered
    OBVIOUS
<1>1. Init => OneHandler
    BY ServerAssumption DEF Init, OneHandler, Handling, Restoring, Agent
<1>2. TypeOK /\ OneHandler /\ [Next]_vars => OneHandler'
    <2> SUFFICES ASSUME TypeOK, OneHandler, [Next]_vars PROVE OneHandler'
        OBVIOUS
    <2> USE ServerAssumption DEF OneHandler, Handling, Restoring, TypeOK, Agent
    <2>1. ASSUME NEW c \in Conn, Handler(c) PROVE OneHandler'
        <3>1. CASE Accept(c)
            BY <3>1 DEF Accept
        <3>2. CASE Install(c)
            BY <3>2 DEF Install
        <3>3. CASE Disconnect(c)
            BY <3>3 DEF Disconnect, Receiving
        <3>4. CASE UNCHANGED <<pc, active_connections>>
            BY <3>4
        <3> QED BY <2>1, <3>1, <3>2, <3>3, <3>4 DEF Handler, ReceiveLive, ReceiveBacklog
    <2>2. ASSUME NEW a \in Agent, Restore(a) PROVE OneHandler'
        BY <2>2 DEF Restore, ReadCache, ReadDb, ReadDbFails
    <2>3. CASE QueueWorker
        <3>1. UNCHANGED active_connections /\ \A c \in Conn : pc'[c] = pc[c]
            BY <2>3 DEF QueueWorker, WorkerTake, WorkerInstall, WorkerSent, WorkerStore,
                        WorkerGivesUp, Fuse
        <3> QED BY <3>1
    <2>4. CASE UNCHANGED <<pc, active_connections>>
        BY <2>4
    <2>5. CASE Crash
        BY <2>5 DEF Crash
    <2>6. CASE Next
        BY <2>6, <2>1, <2>2, <2>3, <2>4, <2>5
           DEF Next, UploadBatch, EnqueueBacklog, PersistPoint, CacheLoses
    <2> QED BY <2>4, <2>6 DEF vars
<1>3. OneHandler => ServingIsRegistered
    BY ServerAssumption DEF OneHandler, ServingIsRegistered, Handling
<1> QED BY <1>1, <1>2, <1>3, ServerTypeCorrect, PTL DEF Spec
-----------------------------------------------------------------------------
(* OneRowPerPacket. A packet that was sent is in one place at a time: while *)
(* it is busy in the queue it has no row, and what has left the queue never  *)
(* gets back into it.                                                        *)

Busy(x) ==
    \/ \E i \in queue \cup hand : i.packet = x
    \/ \E q \in Conn \cup Upload : x \in Q!Waiting(q)

\* An item is what was sent, and the worker holds one that is not queued.
Origins ==
    /\ dumped \cap lived = {}
    /\ \A i \in queue \cup hand : i.priority = Q!Live => i.packet \in lived
    /\ queue \cap hand = {}
    /\ \A i, j \in hand : i = j

QueueInv == Q!TypeOK /\ Q!EachOnce /\ QP!IndInv

LEMMA QueueInvHolds == Spec => []QueueInv
<1>1. QP!QueueAssumption
    BY ServerAssumption DEF QP!QueueAssumption, IsFiniteSet, QP!IsFiniteSet
<1>2. QP!Spec => []QP!EachOnce
    BY <1>1, QP!EachOnceHolds
<1>3. QP!EachOnce => Q!EachOnce
    BY DEF Q!EachOnce, QP!EachOnce, Q!Waiting, QP!Waiting, Q!AsBacklog, QP!AsBacklog,
           Q!Backlog, QP!Backlog
<1>4. Spec => Q!Spec
    BY ServerUsesQueue DEF UsesQueue
<1>5. QP!Spec => []QP!IndInv
    BY <1>1, QP!IndInvHolds
<1> QED BY <1>2, <1>3, <1>4, <1>5, SameSpec, QueueStaysAccounted, PTL DEF QueueInv

\* Two items with the same packet are the same item.
LEMMA ItemsDiffer ==
    ASSUME QueueInv, Origins, NEW i \in queue \cup hand, NEW j \in queue \cup hand,
           i.packet = j.packet
    PROVE  i = j
<1>1. i \in Q!Item /\ j \in Q!Item
    BY DEF QueueInv, Q!TypeOK
<1>2. i.priority = j.priority
    BY <1>1 DEF QueueInv, Q!EachOnce, Origins, Q!Item
<1> QED BY <1>1, <1>2 DEF Q!Item

\* What a step of the server may do to queue and clients.
LEMMA QueueSteps ==
    ASSUME [Next]_vars
    PROVE  \/ UNCHANGED <<queueVars, dumped, lived>>
           \/ \E x \in Packet \ Sent : /\ Q!EnqueueLive(x) /\ MaySend(x.device)
                                       /\ lived' = lived \cup {x}
                                       /\ UNCHANGED <<dumped, pc, loc, stores>>
           \/ \E p \in Conn \cup Upload : \E S \in SUBSET (Packet \ Sent) :
                 /\ Q!Dump(p, S) /\ \A x \in S : MaySend(x.device)
                 /\ UNCHANGED <<lived, pc, loc, stores>>
           \/ \E p \in Conn \cup Upload :
                 /\ Q!BacklogRun(p) \/ Q!BacklogReturn(p)
                 /\ UNCHANGED <<dumped, lived, pc, loc, stores>>
           \/ WorkerTake \/ WorkerStore \/ WorkerGivesUp
           \/ Crash
<1>1. ASSUME NEW c \in Conn, Handler(c)
      PROVE  \/ UNCHANGED <<queueVars, dumped, lived>>
             \/ \E x \in Packet \ Sent : /\ Q!EnqueueLive(x) /\ MaySend(x.device)
                                         /\ lived' = lived \cup {x}
                                         /\ UNCHANGED <<dumped, pc, loc, stores>>
             \/ \E p \in Conn \cup Upload : \E S \in SUBSET (Packet \ Sent) :
                   /\ Q!Dump(p, S) /\ \A x \in S : MaySend(x.device)
                   /\ UNCHANGED <<lived, pc, loc, stores>>
    <2>1. CASE Accept(c) \/ Install(c) \/ Disconnect(c)
        BY <2>1 DEF Accept, Install, Disconnect
    <2>2. ASSUME NEW x \in Packet, ReceiveLive(c, x)
          PROVE  \E y \in Packet \ Sent : /\ Q!EnqueueLive(y) /\ MaySend(y.device)
                                          /\ lived' = lived \cup {y}
                                          /\ UNCHANGED <<dumped, pc, loc, stores>>
        BY <2>2 DEF ReceiveLive
    <2>3. ASSUME NEW S \in Dumpable(DeviceOf[c]), ReceiveBacklog(c, S)
          PROVE  \E p \in Conn \cup Upload : \E T \in SUBSET (Packet \ Sent) :
                   /\ Q!Dump(p, T) /\ \A x \in T : MaySend(x.device)
                   /\ UNCHANGED <<lived, pc, loc, stores>>
        <3>1. S \in SUBSET (Packet \ Sent) /\ \A x \in S : x.device = DeviceOf[c]
            BY DEF Dumpable
        <3> QED BY <2>3, <3>1 DEF ReceiveBacklog
    <2> QED BY <1>1, <2>1, <2>2, <2>3 DEF Handler
<1>2. ASSUME NEW u \in Upload, NEW d \in Device, NEW S \in Dumpable(d), UploadBatch(u, d, S)
      PROVE  \E p \in Conn \cup Upload : \E T \in SUBSET (Packet \ Sent) :
                 /\ Q!Dump(p, T) /\ \A x \in T : MaySend(x.device)
                 /\ UNCHANGED <<lived, pc, loc, stores>>
    <2>1. S \in SUBSET (Packet \ Sent) /\ \A x \in S : x.device = d
        BY DEF Dumpable
    <2> QED BY <1>2, <2>1 DEF UploadBatch
<1>3. ASSUME NEW p \in Conn \cup Upload, EnqueueBacklog(p)
      PROVE  \E q \in Conn \cup Upload :
                 /\ Q!BacklogRun(q) \/ Q!BacklogReturn(q)
                 /\ UNCHANGED <<dumped, lived, pc, loc, stores>>
    BY <1>3 DEF EnqueueBacklog
<1>4. CASE (\E a \in Agent : Restore(a)) \/ WorkerInstall \/ WorkerSent \/ PersistPoint
            \/ (\E d \in Device : CacheLoses(d)) \/ UNCHANGED vars
    BY <1>4 DEF Restore, ReadCache, ReadDb, ReadDbFails, WorkerInstall, WorkerSent,
                PersistPoint, CacheLoses, vars
<1> QED BY <1>1, <1>2, <1>3, <1>4 DEF Next, QueueWorker

\* How far an uninterrupted stretch of a dump gets.
LEMMA RunFacts ==
    ASSUME QueueInv, NEW p \in Conn \cup Upload, Q!BacklogRun(p)
    PROVE  /\ done[p] \in Nat /\ Q!RunEnd(p) \in Nat /\ done[p] < Q!RunEnd(p)
           /\ Q!RunEnd(p) <= Len(chunk[p]) /\ Len(chunk[p]) \in Nat
<1>1. QP!QueueAssumption
    BY ServerAssumption DEF QP!QueueAssumption, IsFiniteSet, QP!IsFiniteSet
<1>2. QP!TypeOK /\ QP!IsFiniteSet(queue) /\ QP!EachOnce
    BY DEF QueueInv, QP!IndInv
<1>3. done[p] \in Nat /\ done[p] <= Len(chunk[p]) /\ Len(chunk[p]) \in Nat
    BY <1>2 DEF QP!TypeOK, QP!EachOnce
<1>4. QP!RunEnd(p) > done[p]
    BY SameOperators DEF Q!BacklogRun
<1>5. QP!RunEnd(p) \in Nat /\ QP!RunEnd(p) <= Len(chunk[p])
    BY <1>1, <1>2, <1>3, <1>4, QP!RunEndFacts
<1> QED BY <1>3, <1>4, <1>5, SameOperators

\* Only what had not been sent gets busy.
LEMMA BusyShrinks ==
    ASSUME QueueInv, [Next]_vars
    PROVE  /\ Sent \subseteq Sent'
           /\ \A x : Busy(x)' => Busy(x) \/ x \notin Sent
<1>1. CASE UNCHANGED <<queueVars, dumped, lived>>
    BY <1>1 DEF Sent, Busy, Q!Waiting, queueVars
<1>2. ASSUME NEW x \in Packet \ Sent, Q!EnqueueLive(x), lived' = lived \cup {x}, UNCHANGED dumped
      PROVE  /\ Sent \subseteq Sent'
             /\ \A y : Busy(y)' => Busy(y) \/ y \notin Sent
    <2>1. \A i \in queue' \cup hand' : i \in queue \cup hand \/ i.packet = x
        BY <1>2 DEF Q!EnqueueLive, Q!AsLive
    <2>2. UNCHANGED <<chunk, done>>
        BY <1>2 DEF Q!EnqueueLive
    <2> QED BY <1>2, <2>1, <2>2 DEF Sent, Busy, Q!Waiting
<1>3. ASSUME NEW p \in Conn \cup Upload, NEW S \in SUBSET (Packet \ Sent), Q!Dump(p, S),
             UNCHANGED lived
      PROVE  /\ Sent \subseteq Sent'
             /\ \A x : Busy(x)' => Busy(x) \/ x \notin Sent
    <2>1. /\ UNCHANGED <<queue, hand>> /\ dumped' = dumped \cup S
          /\ \A q \in (Conn \cup Upload) \ {p} : chunk'[q] = chunk[q] /\ done'[q] = done[q]
        BY <1>3 DEF Q!Dump, Q!StartBacklog, QueueInv, Q!TypeOK
    <2>2. PICK s \in Q!SortedChunks(S) : chunk' = [chunk EXCEPT ![p] = s]
        BY <1>3 DEF Q!Dump, Q!StartBacklog
    <2>3. s \in Seq(Packet) /\ \A k \in 1 .. Len(s) : s[k] \in S
        <3>1. QP!QueueAssumption
            BY ServerAssumption DEF QP!QueueAssumption, IsFiniteSet, QP!IsFiniteSet
        <3>2. s \in QP!SortedChunks(S)
            BY SameOperators
        <3> QED BY <3>1, <3>2, QP!SortedChunkFacts
    <2>4. chunk'[p] = s /\ done'[p] = 0
        BY <1>3, <2>2 DEF Q!Dump, Q!StartBacklog, QueueInv, Q!TypeOK
    <2>5. Q!Waiting(p)' \subseteq S
        BY <2>3, <2>4 DEF Q!Waiting
    <2>6. \A q \in (Conn \cup Upload) \ {p} : Q!Waiting(q)' = Q!Waiting(q)
        BY <2>1 DEF Q!Waiting
    <2> QED BY <1>3, <2>1, <2>5, <2>6 DEF Sent, Busy
<1>4. ASSUME NEW p \in Conn \cup Upload, Q!BacklogRun(p), UNCHANGED <<dumped, lived>>
      PROVE  /\ Sent \subseteq Sent'
             /\ \A x : Busy(x)' => Busy(x) \/ x \notin Sent
    <2>1. /\ UNCHANGED <<hand, chunk>>
          /\ queue' = queue \cup {Q!AsBacklog(chunk[p][k]) : k \in done[p]+1 .. Q!RunEnd(p)}
          /\ \A q \in (Conn \cup Upload) \ {p} : done'[q] = done[q]
          /\ done'[p] = Q!RunEnd(p)
        BY <1>4 DEF Q!BacklogRun, QueueInv, Q!TypeOK
    <2>2. done[p] \in Nat /\ Q!RunEnd(p) \in Nat /\ done[p] < Q!RunEnd(p)
          /\ Q!RunEnd(p) <= Len(chunk[p]) /\ Len(chunk[p]) \in Nat
        BY <1>4, RunFacts
    <2>3. \A i \in queue' : i \in queue \/ i.packet \in Q!Waiting(p)
        BY <2>1, <2>2 DEF Q!AsBacklog, Q!Waiting
    <2>4. Q!Waiting(p)' \subseteq Q!Waiting(p)
        BY <2>1, <2>2 DEF Q!Waiting
    <2>5. \A q \in (Conn \cup Upload) \ {p} : Q!Waiting(q)' = Q!Waiting(q)
        BY <2>1 DEF Q!Waiting
    <2> QED BY <1>4, <2>1, <2>3, <2>4, <2>5 DEF Sent, Busy
<1>5. ASSUME NEW p \in Conn \cup Upload, Q!BacklogReturn(p), UNCHANGED <<dumped, lived>>
      PROVE  /\ Sent \subseteq Sent'
             /\ \A x : Busy(x)' => Busy(x) \/ x \notin Sent
    <2>1. /\ UNCHANGED <<queue, hand>>
          /\ \A q \in (Conn \cup Upload) \ {p} : chunk'[q] = chunk[q] /\ done'[q] = done[q]
          /\ chunk'[p] = <<>> /\ done'[p] = 0
        BY <1>5 DEF Q!BacklogReturn, QueueInv, Q!TypeOK
    <2>2. Q!Waiting(p)' = {}
        BY <2>1 DEF Q!Waiting
    <2>3. \A q \in (Conn \cup Upload) \ {p} : Q!Waiting(q)' = Q!Waiting(q)
        BY <2>1 DEF Q!Waiting
    <2> QED BY <1>5, <2>1, <2>2, <2>3 DEF Sent, Busy
<1>6. CASE WorkerTake \/ WorkerStore \/ WorkerGivesUp
    <2>1. queue' \cup hand' \subseteq queue \cup hand /\ UNCHANGED <<chunk, done, dumped, lived>>
        BY <1>6 DEF WorkerTake, WorkerStore, WorkerGivesUp, Q!GetNextItem, Q!TaskDone, Q!Foremost
    <2> QED BY <2>1 DEF Sent, Busy, Q!Waiting
<1>7. CASE Crash
    <2>1. /\ queue' = {} /\ hand' = {} /\ UNCHANGED <<dumped, lived>>
          /\ \A q \in Conn \cup Upload : chunk'[q] = <<>> /\ done'[q] = 0
        BY <1>7 DEF Crash, Q!Reset
    <2>2. \A q \in Conn \cup Upload : Q!Waiting(q)' = {}
        BY <2>1 DEF Q!Waiting
    <2> QED BY <2>1, <2>2 DEF Sent, Busy
<1> QED BY <1>1, <1>2, <1>3, <1>4, <1>5, <1>6, <1>7, QueueSteps

LEMMA OriginsNext ==
    ASSUME QueueInv, Origins, [Next]_vars
    PROVE  Origins'
<1> USE DEF Origins
<1>1. CASE UNCHANGED <<queueVars, dumped, lived>>
    BY <1>1 DEF queueVars
<1>2. ASSUME NEW x \in Packet \ Sent, Q!EnqueueLive(x), lived' = lived \cup {x}, UNCHANGED dumped
      PROVE  Origins'
    <2>1. UNCHANGED hand /\ (queue' = queue \/ queue' = queue \cup {Q!AsLive(x)})
        BY <1>2 DEF Q!EnqueueLive
    <2>2. Q!AsLive(x) \notin hand /\ Q!AsLive(x).packet = x
        BY <1>2 DEF Q!EnqueueLive, Q!AsLive
    <2> QED BY <1>2, <2>1, <2>2 DEF Sent
<1>3. ASSUME NEW p \in Conn \cup Upload, NEW S \in SUBSET (Packet \ Sent), Q!Dump(p, S),
             UNCHANGED lived
      PROVE  Origins'
    BY <1>3 DEF Q!Dump, Q!StartBacklog, Sent
<1>4. ASSUME NEW p \in Conn \cup Upload, Q!BacklogRun(p), UNCHANGED <<dumped, lived>>
      PROVE  Origins'
    <2>1. /\ UNCHANGED hand
          /\ queue' = queue \cup {Q!AsBacklog(chunk[p][k]) : k \in done[p]+1 .. Q!RunEnd(p)}
        BY <1>4 DEF Q!BacklogRun
    <2>2. done[p] \in Nat /\ Q!RunEnd(p) \in Nat /\ done[p] < Q!RunEnd(p)
          /\ Q!RunEnd(p) <= Len(chunk[p]) /\ Len(chunk[p]) \in Nat
        BY <1>4, RunFacts
    <2>3. \A k \in done[p]+1 .. Q!RunEnd(p) : chunk[p][k] \in Q!Waiting(p)
        BY <2>2 DEF Q!Waiting
    <2>4. \A k \in done[p]+1 .. Q!RunEnd(p) :
              /\ Q!AsBacklog(chunk[p][k]) \notin hand
              /\ Q!AsBacklog(chunk[p][k]).priority # Q!Live
        BY <2>3 DEF QueueInv, Q!EachOnce, Q!AsBacklog, Q!Backlog, Q!Live
    <2> QED BY <1>4, <2>1, <2>4
<1>5. ASSUME NEW p \in Conn \cup Upload, Q!BacklogReturn(p), UNCHANGED <<dumped, lived>>
      PROVE  Origins'
    BY <1>5 DEF Q!BacklogReturn
<1>6. CASE WorkerTake
    BY <1>6 DEF WorkerTake, Q!GetNextItem, Q!Foremost
<1>7. CASE WorkerStore \/ WorkerGivesUp
    BY <1>7 DEF WorkerStore, WorkerGivesUp, Q!TaskDone
<1>8. CASE Crash
    BY <1>8 DEF Crash, Q!Reset
<1> QED BY <1>1, <1>2, <1>3, <1>4, <1>5, <1>6, <1>7, <1>8, QueueSteps

Pending == {persists[k] : k \in 1 .. Len(persists)}

\* What has or gets a row was sent and has left the queue.
RowsSettled == \A r \in db \cup Pending : r.packet \in Sent /\ ~ Busy(r.packet)

\* The filter the worker is about to store contains its packet.
Fresh == pc[Worker] \in {"sending", "storing"} => HeldPacket \in loc[Worker].fused

RowInv == Origins /\ RowsSettled /\ Fresh /\ OneRowPerPacket

LEMMA RowInvInit == Init => RowInv
<1> SUFFICES ASSUME Init PROVE RowInv
    OBVIOUS
<1>1. Pending = {} /\ db = {} /\ persists = <<>>
    BY DEF Init, Pending
<1> QED BY <1>1, ServerAssumption
        DEF Init, RowInv, Origins, RowsSettled, Fresh, OneRowPerPacket, Pending, Agent

LEMMA FusedIsFresh ==
    ASSUME TypeInv, NEW p \in Packet, NEW kf \in State, Fuse(p, kf), HeldPacket' = p
    PROVE  Fresh'
<1>1. CASE p \in Malformed
    BY <1>1 DEF Fuse, Fresh, TypeInv, TypeOK, Agent
<1>2. CASE p \notin Malformed
    <2>1. PICK fused : fused = [kf EXCEPT !.fused = @ \cup {p}]
        OBVIOUS
    <2>2. loc'[Worker] = fused
        BY <1>2, <2>1 DEF Fuse, TypeInv, TypeOK, Agent
    <2>3. p \in fused.fused
        BY <2>1, FusedState
    <2> QED BY <2>2, <2>3 DEF Fresh
<1> QED BY <1>1, <1>2

LEMMA FreshNext ==
    ASSUME QueueInv, TypeInv, Origins, Fresh, [Next]_vars
    PROVE  Fresh'
<1>1. CASE WorkerTake
    <2>1. PICK i \in queue : hand' = {i} /\ (IF filters[i.packet.device] # NoState
                                   THEN Fuse(i.packet, filters[i.packet.device])
                                   ELSE pc' = [pc EXCEPT ![Worker] = "reading"])
        BY <1>1 DEF WorkerTake, Q!GetNextItem, Q!Foremost
    <2>2. HeldPacket' = i.packet /\ i.packet \in Packet
        BY <2>1 DEF HeldPacket, QueueInv, Q!TypeOK, Q!Item
    <2>3. filters[i.packet.device] \in State \cup {NoState}
        BY <2>2, ServerAssumption DEF TypeInv, TypeOK
    <2>4. CASE filters[i.packet.device] # NoState
        BY <2>1, <2>2, <2>3, <2>4, FusedIsFresh
    <2>5. CASE filters[i.packet.device] = NoState
        BY <2>1, <2>5 DEF Fresh, TypeInv, TypeOK, Agent
    <2> QED BY <2>4, <2>5
<1>2. CASE WorkerInstall
    <2>1. UNCHANGED hand /\ Fuse(HeldPacket, loc[Worker])
        BY <1>2 DEF WorkerInstall, queueVars
    <2>2. hand # {} /\ loc[Worker] \in State
        BY <1>2 DEF WorkerInstall, TypeInv, WorkerState
    <2>3. HeldPacket \in Packet /\ HeldPacket' = HeldPacket
        BY <2>1, <2>2, QueuedPackets DEF HeldPacket, QueueInv
    <2> QED BY <2>1, <2>2, <2>3, FusedIsFresh
<1>3. CASE WorkerSent
    BY <1>3 DEF WorkerSent, Fresh, HeldPacket, queueVars
<1>4. CASE WorkerStore \/ WorkerGivesUp \/ Crash
    BY <1>4 DEF WorkerStore, WorkerGivesUp, Crash, Fresh, TypeInv, TypeOK, Agent
<1>5. CASE UNCHANGED hand /\ (pc'[Worker] \in {"sending", "storing"}
                                => UNCHANGED <<pc[Worker], loc[Worker]>>)
    BY <1>5 DEF Fresh, HeldPacket
<1>6. ASSUME NEW c \in Conn, Handler(c)
      PROVE  UNCHANGED <<hand, pc[Worker], loc[Worker]>>
    BY <1>6, ServerAssumption
       DEF Handler, Accept, Install, ReceiveLive, ReceiveBacklog, Disconnect, Q!EnqueueLive,
           Q!Dump, Q!StartBacklog, queueVars, TypeInv, TypeOK, Agent
<1>7. ASSUME NEW a \in Agent, Restore(a)
      PROVE  UNCHANGED hand /\ (pc'[Worker] \in {"sending", "storing"}
                                => UNCHANGED <<pc[Worker], loc[Worker]>>)
    BY <1>7 DEF Restore, ReadCache, ReadDb, ReadDbFails, queueVars, TypeInv, TypeOK, Agent
<1>8. CASE \/ \E u \in Upload, d \in Device : \E S \in Dumpable(d) : UploadBatch(u, d, S)
           \/ \E p \in Conn \cup Upload : EnqueueBacklog(p)
           \/ PersistPoint
           \/ \E d \in Device : CacheLoses(d)
           \/ UNCHANGED vars
    BY <1>8 DEF UploadBatch, EnqueueBacklog, PersistPoint, CacheLoses, Q!Dump, Q!StartBacklog,
                Q!BacklogRun, Q!BacklogReturn, queueVars, vars, Fresh, HeldPacket
<1> QED BY <1>1, <1>2, <1>3, <1>4, <1>5, <1>6, <1>7, <1>8 DEF Next, QueueWorker

\* Rows that stay as they are, or get fewer, stay right.
LEMMA SameRows ==
    ASSUME QueueInv, RowsSettled, [Next]_vars, db' \cup Pending' \subseteq db \cup Pending
    PROVE  RowsSettled'
BY BusyShrinks DEF RowsSettled

\* The packet that the worker is through with is nowhere in the queue.
LEMMA HeldLeaves ==
    ASSUME QueueInv, Origins, NEW i \in hand,
           UNCHANGED <<queue, chunk, done>>, hand' = {}
    PROVE  i.packet \in Sent /\ Busy(i.packet) /\ ~ Busy(i.packet)'
<1> DEFINE x == i.packet
<1>1. i \in Q!Item
    BY DEF QueueInv, Q!TypeOK
<1>2. x \in Sent
    BY <1>1 DEF Origins, QueueInv, Q!EachOnce, Q!Item, Sent
<1>3. \A j \in queue : j.packet # x
    BY ItemsDiffer DEF Origins
<1>4. ASSUME NEW q \in Conn \cup Upload, x \in Q!Waiting(q) PROVE FALSE
    <2>1. PICK k \in done[q]+1 .. Len(chunk[q]) : x = chunk[q][k]
        BY <1>4 DEF Q!Waiting
    <2>2. k \in 1 .. Len(chunk[q])
        BY DEF QueueInv, Q!TypeOK
    <2>3. Q!AsBacklog(x) \notin hand /\ x \in dumped
        BY <1>4, <2>1, <2>2 DEF QueueInv, Q!EachOnce
    <2>4. i.priority = Q!Live
        BY <1>1, <2>3 DEF Q!Item, Q!AsBacklog
    <2> QED BY <2>3, <2>4 DEF Origins
<1>5. \A q \in Conn \cup Upload : Q!Waiting(q)' = Q!Waiting(q)
    BY DEF Q!Waiting
<1> QED BY <1>2, <1>3, <1>4, <1>5 DEF Busy

\* The new row of a packet that the worker is through with.
LEMMA RowsAfterStore ==
    ASSUME QueueInv, TypeInv, RowInv, WorkerStore
    PROVE  RowsSettled' /\ OneRowPerPacket'
<1> DEFINE n == Len(persists)
<1>1. /\ hand # {} /\ hand' = {}
      /\ persists' = Append(persists, Point)
      /\ UNCHANGED <<queue, chunk, done, dumped, lived, db>>
    BY DEF WorkerStore, Q!TaskDone
<1>2. PICK i \in hand : i.packet = HeldPacket
    BY <1>1 DEF HeldPacket
<1>3. i.packet \in Sent /\ Busy(i.packet) /\ ~ Busy(i.packet)'
    BY <1>1, HeldLeaves DEF RowInv
<1>4. PICK point : point = Point
    OBVIOUS
<1>5. point.packet = i.packet /\ point.packet \in point.fused
    BY <1>2, <1>4 DEF Point, RowInv, Fresh, WorkerStore
<1>6. /\ n \in Nat /\ Len(persists') = n + 1
      /\ \A k \in 1 .. n : persists'[k] = persists[k]
      /\ persists'[n + 1] = point
    BY <1>1, <1>4 DEF TypeInv, TypeOK
<1>7. Pending' = Pending \cup {point}
    BY <1>6 DEF Pending
<1>8. \A r \in db \cup Pending : r.packet # point.packet
    BY <1>3, <1>5 DEF RowInv, RowsSettled
<1>9. \A x : Busy(x)' => Busy(x)
    BY <1>1 DEF Busy, Q!Waiting
<1>10. RowsSettled'
    BY <1>1, <1>3, <1>5, <1>7, <1>9 DEF RowInv, RowsSettled, Sent
<1>11. OneRowPerPacket'
    <2>1. \A r \in (db \cup Pending)' : r.packet \in r.fused
        BY <1>1, <1>5, <1>7 DEF RowInv, OneRowPerPacket, Pending
    <2>2. \A r, s \in (db \cup Pending)' : r.packet = s.packet => r = s
        BY <1>1, <1>7, <1>8 DEF RowInv, OneRowPerPacket, Pending
    <2>3. \A k, l \in 1 .. n + 1 : k # l => persists'[k] # persists'[l]
        <3>1. \A k \in 1 .. n : persists[k] # point
            BY <1>8 DEF Pending
        <3>2. \A k, l \in 1 .. n : k # l => persists[k] # persists[l]
            BY DEF RowInv, OneRowPerPacket
        <3>3. \A k \in 1 .. n + 1 : k \in 1 .. n \/ k = n + 1
            BY <1>6
        <3> HIDE DEF n
        <3> QED BY <1>6, <3>1, <3>2, <3>3
    <2>4. \A r \in db' : r \notin Pending'
        BY <1>1, <1>7, <1>8 DEF RowInv, OneRowPerPacket, Pending
    <2> HIDE DEF n
    <2> QED BY <1>6, <2>1, <2>2, <2>3, <2>4 DEF OneRowPerPacket, Pending
<1> QED BY <1>10, <1>11

\* A pending row is written, or given up.
LEMMA RowsAfterPersist ==
    ASSUME QueueInv, TypeInv, RowInv, PersistPoint
    PROVE  RowsSettled' /\ OneRowPerPacket'
<1> DEFINE n == Len(persists)
<1>1. /\ persists # <<>> /\ persists' = Tail(persists)
      /\ db' = db \/ db' = db \cup {Head(persists)}
      /\ UNCHANGED <<queueVars, dumped, lived>>
    BY DEF PersistPoint
<1>2. /\ n \in Nat \ {0} /\ Head(persists) = persists[1]
      /\ Len(persists') = n - 1
      /\ \A k \in 1 .. n - 1 : persists'[k] = persists[k + 1]
    BY <1>1 DEF TypeInv, TypeOK
<1>3. 1 \in 1 .. n /\ \A k \in 1 .. n - 1 : k + 1 \in 1 .. n /\ k + 1 # 1
    BY <1>2
<1> HIDE DEF n
<1>4. Pending' \subseteq Pending /\ persists[1] \in Pending
    BY <1>2, <1>3 DEF Pending, n
<1>5. persists[1] \notin Pending'
    BY <1>2, <1>3 DEF Pending, RowInv, OneRowPerPacket, n
<1>6. RowsSettled'
    <2>1. \A x : Busy(x)' => Busy(x)
        BY <1>1 DEF Busy, Q!Waiting, queueVars
    <2> QED BY <1>1, <1>2, <1>4, <2>1 DEF RowInv, RowsSettled, Sent
<1>7. OneRowPerPacket'
    <2>1. db' \cup Pending' \subseteq db \cup Pending
        BY <1>1, <1>2, <1>4
    <2>2. \A r \in (db \cup Pending)' : r.packet \in r.fused
        BY <2>1 DEF RowInv, OneRowPerPacket, Pending
    <2>3. \A r, s \in (db \cup Pending)' : r.packet = s.packet => r = s
        BY <2>1 DEF RowInv, OneRowPerPacket, Pending
    <2>4. \A k, l \in 1 .. n - 1 : k # l => persists'[k] # persists'[l]
        <3>1. \A k, l \in 1 .. n - 1 : k # l => k + 1 # l + 1
            BY <1>2
        <3>2. \A k, l \in 1 .. n : k # l => persists[k] # persists[l]
            BY DEF RowInv, OneRowPerPacket, n
        <3> QED BY <1>2, <1>3, <3>1, <3>2
    <2>5. \A r \in db' : r \notin Pending'
        BY <1>1, <1>2, <1>4, <1>5 DEF RowInv, OneRowPerPacket, Pending
    <2> QED BY <1>2, <2>2, <2>3, <2>4, <2>5 DEF OneRowPerPacket, Pending
<1> QED BY <1>6, <1>7

LEMMA RowInvNext ==
    ASSUME QueueInv, TypeInv, RowInv, [Next]_vars
    PROVE  RowInv'
<1>1. Origins' /\ Fresh'
    BY OriginsNext, FreshNext DEF RowInv
<1>2. CASE WorkerStore
    BY <1>1, <1>2, RowsAfterStore DEF RowInv
<1>3. CASE PersistPoint
    BY <1>1, <1>3, RowsAfterPersist DEF RowInv
<1>4. CASE UNCHANGED <<db, persists>>
    <2>1. UNCHANGED Pending
        BY <1>4 DEF Pending
    <2>2. RowsSettled'
        BY <1>4, <2>1, SameRows DEF RowInv
    <2> QED BY <1>1, <1>4, <2>2 DEF RowInv, OneRowPerPacket
<1>5. CASE Crash
    <2>1. persists' = <<>> /\ UNCHANGED db
        BY <1>5 DEF Crash
    <2>2. Pending' = {} /\ Len(persists') = 0
        BY <2>1 DEF Pending
    <2>3. RowsSettled'
        BY <2>1, <2>2, SameRows DEF RowInv
    <2>4. OneRowPerPacket'
        BY <2>1, <2>2 DEF RowInv, OneRowPerPacket, Pending
    <2> QED BY <1>1, <2>3, <2>4 DEF RowInv
<1>6. ASSUME NEW c \in Conn, Handler(c) PROVE UNCHANGED <<db, persists>>
    BY <1>6 DEF Handler, Accept, Install, ReceiveLive, ReceiveBacklog, Disconnect, stores
<1>7. CASE \/ \E a \in Agent : Restore(a)
           \/ \E u \in Upload, d \in Device : \E S \in Dumpable(d) : UploadBatch(u, d, S)
           \/ \E p \in Conn \cup Upload : EnqueueBacklog(p)
           \/ WorkerTake \/ WorkerInstall \/ WorkerSent \/ WorkerGivesUp
           \/ \E d \in Device : CacheLoses(d)
           \/ UNCHANGED vars
    <2>1. UNCHANGED <<db, persists>>
        BY <1>7 DEF Restore, ReadCache, ReadDb, ReadDbFails, UploadBatch, EnqueueBacklog,
                    WorkerTake, WorkerInstall, WorkerSent, WorkerGivesUp, CacheLoses, stores, vars
    <2> QED BY <1>4, <2>1
<1> QED BY <1>2, <1>3, <1>4, <1>5, <1>6, <1>7 DEF Next, QueueWorker

LEMMA RowInvHolds == Spec => []RowInv
BY RowInvInit, RowInvNext, QueueInvHolds, TypeInvHolds, PTL DEF Spec

\* A packet has at most one row, and the state of a row contains its packet,
\* through reconnects, outages, failed writes and restarts.
THEOREM OneRowHolds == Spec => []OneRowPerPacket
<1>1. RowInv => OneRowPerPacket
    BY DEF RowInv
<1> QED BY <1>1, RowInvHolds, PTL
-----------------------------------------------------------------------------
(* The copies of a device's state, while Redis answers and devices           *)
(* reconnect only when they are quiet. What a restore has read stays current *)
(* until it is installed; and as long as the cached state of a device has    *)
(* not been lost, what is not being fused just now is the same in cache and  *)
(* filter, but for packets that raised, whoever restored it.                 *)

Warm == Env \cap {"busy", "outage"} = {}

\* What a restore of device d results in unless its cached state was lost.
Known(d) == IF cache[d] = NoState THEN NewFilter ELSE cache[d]

\* A filter made of what a cached state was made of, and of packets that
\* raised since.
Follows(filter, state) ==
    /\ state.fused \subseteq filter.fused
    /\ filter.fused \ Malformed \subseteq state.fused

\* The worker has fused a packet of d that the cache does not have yet.
Fusing(d) == pc[Worker] \in {"sending", "storing"} /\ HeldPacket.device = d

RestoresQuiet == \A c \in Conn : Restoring(c) => Quiet(DeviceOf[c])

RestoreInv ==
    \A a \in Agent :
        /\ pc[a] = "querying" => cache[DeviceFor(a)] = NoState
        /\ pc[a] = "restored" => cache[DeviceFor(a)] \in {loc[a], NoState}

RowsCached ==
    \A r \in db \cup Pending :
        r.packet.device \notin lost =>
            /\ cache[r.packet.device] # NoState
            /\ r.fused \subseteq cache[r.packet.device].fused

FiltersFollow ==
    \A d \in Device \ lost :
        /\ filters[d] # NoState /\ ~ Fusing(d) => Follows(filters[d], Known(d))
        /\ Fusing(d) => /\ filters[d] = loc[Worker]
                        /\ Known(d).fused \subseteq filters[d].fused

LocalsKnown ==
    \A a \in Agent :
        pc[a] = "restored" /\ DeviceFor(a) \notin lost => loc[a] = Known(DeviceFor(a))

CopyInv == RestoreInv /\ RowsCached /\ FiltersFollow /\ LocalsKnown

\* Nothing of a device gets on its way while it may not send.
LEMMA QuietKept ==
    ASSUME QueueInv, TypeInv, [Next]_vars, NEW d \in Device, Quiet(d), ~ MaySend(d)
    PROVE  Quiet(d)'
<1> DEFINE Producers == Conn \cup Upload
<1>1. /\ \A i \in queue \cup hand : i.packet.device # d
      /\ \A p \in Producers : \A k \in 1 .. Len(chunk[p]) : chunk[p][k].device # d
      /\ \A r \in Pending : r.packet.device # d
    BY DEF Quiet, Pending
<1>2. SUFFICES /\ \A i \in queue' \cup hand' : i.packet.device # d
               /\ \A p \in Producers : \A k \in 1 .. Len(chunk'[p]) : chunk'[p][k].device # d
               /\ \A r \in Pending' : r.packet.device # d
    BY DEF Quiet, Pending
<1>3. \A r \in Pending' : r.packet.device # d
    <2>1. CASE WorkerStore
        <3>1. persists' = Append(persists, Point) /\ hand # {}
            BY <2>1 DEF WorkerStore, Q!TaskDone
        <3>2. Pending' \subseteq Pending \cup {Point}
            BY <3>1 DEF Pending, TypeInv, TypeOK
        <3>3. Point.packet.device # d
            BY <1>1, <3>1 DEF Point, HeldPacket
        <3> QED BY <1>1, <3>2, <3>3
    <2>2. CASE PersistPoint
        <3>1. persists # <<>> /\ persists' = Tail(persists)
            BY <2>2 DEF PersistPoint
        <3>2. /\ Len(persists') = Len(persists) - 1 /\ Len(persists) \in Nat
              /\ \A k \in 1 .. Len(persists) - 1 : persists'[k] = persists[k + 1]
            BY <3>1 DEF TypeInv, TypeOK
        <3>3. Pending' \subseteq Pending
            BY <3>2 DEF Pending
        <3> QED BY <1>1, <3>3
    <2>3. CASE Crash
        BY <2>3 DEF Crash, Pending
    <2>4. CASE UNCHANGED persists
        BY <1>1, <2>4 DEF Pending
    <2> QED BY <2>1, <2>2, <2>3, <2>4
            DEF Next, Handler, Restore, QueueWorker, Accept, Install, ReceiveLive, ReceiveBacklog,
                Disconnect, ReadCache, ReadDb, ReadDbFails, UploadBatch, EnqueueBacklog, WorkerTake,
                WorkerInstall, WorkerSent, WorkerGivesUp, CacheLoses, stores, vars
<1>4. CASE UNCHANGED <<queueVars, dumped, lived>>
    BY <1>1, <1>3, <1>4 DEF queueVars
<1>5. ASSUME NEW x \in Packet \ Sent, Q!EnqueueLive(x), MaySend(x.device)
      PROVE  /\ \A i \in queue' \cup hand' : i.packet.device # d
             /\ \A p \in Producers : \A k \in 1 .. Len(chunk'[p]) : chunk'[p][k].device # d
    <2>1. \A i \in queue' \cup hand' : i \in queue \cup hand \/ i.packet = x
        BY <1>5 DEF Q!EnqueueLive, Q!AsLive
    <2>2. UNCHANGED chunk
        BY <1>5 DEF Q!EnqueueLive
    <2> QED BY <1>1, <1>5, <2>1, <2>2
<1>6. ASSUME NEW p \in Producers, NEW S \in SUBSET (Packet \ Sent), Q!Dump(p, S),
             \A x \in S : MaySend(x.device)
      PROVE  /\ \A i \in queue' \cup hand' : i.packet.device # d
             /\ \A q \in Producers : \A k \in 1 .. Len(chunk'[q]) : chunk'[q][k].device # d
    <2>1. PICK s \in Q!SortedChunks(S) : chunk' = [chunk EXCEPT ![p] = s]
        BY <1>6 DEF Q!Dump, Q!StartBacklog
    <2>2. \A k \in 1 .. Len(s) : s[k] \in S
        <3>1. QP!QueueAssumption
            BY ServerAssumption DEF QP!QueueAssumption, IsFiniteSet, QP!IsFiniteSet
        <3>2. s \in QP!SortedChunks(S)
            BY SameOperators
        <3> QED BY <3>1, <3>2, QP!SortedChunkFacts
    <2>3. \A q \in Producers : chunk'[q] = IF q = p THEN s ELSE chunk[q]
        BY <2>1 DEF QueueInv, Q!TypeOK
    <2>4. UNCHANGED <<queue, hand>>
        BY <1>6 DEF Q!Dump, Q!StartBacklog
    <2> QED BY <1>1, <1>6, <2>2, <2>3, <2>4
<1>7. ASSUME NEW p \in Producers, Q!BacklogRun(p)
      PROVE  /\ \A i \in queue' \cup hand' : i.packet.device # d
             /\ \A q \in Producers : \A k \in 1 .. Len(chunk'[q]) : chunk'[q][k].device # d
    <2>1. /\ UNCHANGED <<hand, chunk>>
          /\ queue' = queue \cup {Q!AsBacklog(chunk[p][k]) : k \in done[p]+1 .. Q!RunEnd(p)}
        BY <1>7 DEF Q!BacklogRun
    <2>2. done[p] \in Nat /\ Q!RunEnd(p) \in Nat /\ done[p] < Q!RunEnd(p)
          /\ Q!RunEnd(p) <= Len(chunk[p]) /\ Len(chunk[p]) \in Nat
        BY <1>7, RunFacts
    <2>3. \A k \in done[p]+1 .. Q!RunEnd(p) : k \in 1 .. Len(chunk[p])
        BY <2>2
    <2> QED BY <1>1, <2>1, <2>3 DEF Q!AsBacklog
<1>8. ASSUME NEW p \in Producers, Q!BacklogReturn(p)
      PROVE  /\ \A i \in queue' \cup hand' : i.packet.device # d
             /\ \A q \in Producers : \A k \in 1 .. Len(chunk'[q]) : chunk'[q][k].device # d
    <2>1. UNCHANGED <<queue, hand>> /\ \A q \in Producers : chunk'[q] = IF q = p THEN <<>> ELSE chunk[q]
        BY <1>8 DEF Q!BacklogReturn, QueueInv, Q!TypeOK
    <2> QED BY <1>1, <2>1
<1>9. CASE WorkerTake \/ WorkerStore \/ WorkerGivesUp
    <2>1. queue' \cup hand' \subseteq queue \cup hand /\ UNCHANGED chunk
        BY <1>9 DEF WorkerTake, WorkerStore, WorkerGivesUp, Q!GetNextItem, Q!TaskDone, Q!Foremost
    <2> QED BY <1>1, <1>3, <2>1
<1>10. CASE Crash
    BY <1>3, <1>10 DEF Crash, Q!Reset
<1> QED BY <1>3, <1>4, <1>5, <1>6, <1>7, <1>8, <1>9, <1>10, QueueSteps

LEMMA RestoresQuietNext ==
    ASSUME Warm, QueueInv, TypeInv, RestoresQuiet, [Next]_vars
    PROVE  RestoresQuiet'
<1>1. SUFFICES ASSUME NEW c \in Conn, Restoring(c)' PROVE Quiet(DeviceOf[c])'
    BY DEF RestoresQuiet
<1>2. DeviceOf[c] \in Device
    BY ServerAssumption
<1>3. CASE Restoring(c)
    <2>1. Quiet(DeviceOf[c]) /\ ~ MaySend(DeviceOf[c])
        BY <1>3 DEF RestoresQuiet, MaySend, Warm
    <2> QED BY <1>2, <2>1, QuietKept
<1>4. CASE Accept(c)
    BY <1>4 DEF Accept, Quiet, Warm, queueVars, stores
<1>5. CASE ~ Restoring(c) /\ ~ Accept(c)
    <2>1. ASSUME NEW b \in Conn, Handler(b) PROVE pc'[c] \in {pc[c], "serving", "closed"}
        BY <1>5, <2>1 DEF Handler, Accept, Install, ReceiveLive, ReceiveBacklog, Disconnect,
                          TypeInv, TypeOK, Agent
    <2>2. ASSUME NEW a \in Agent, Restore(a) PROVE pc'[c] = pc[c]
        BY <1>5, <2>2 DEF Restore, ReadCache, ReadDb, ReadDbFails, Restoring, TypeInv, TypeOK, Agent
    <2>3. ASSUME QueueWorker PROVE pc'[c] = pc[c]
        <3>1. c # Worker /\ c \in Agent /\ pc = [a \in Agent |-> pc[a]]
            BY ServerAssumption DEF TypeInv, TypeOK, Agent
        <3>2. \A p, kf : Fuse(p, kf) => pc'[c] = pc[c]
            BY <3>1 DEF Fuse
        <3> QED BY <2>3, <3>1, <3>2
                DEF QueueWorker, WorkerTake, WorkerInstall, WorkerSent, WorkerStore, WorkerGivesUp,
                    Q!GetNextItem, Q!Foremost
    <2>4. ASSUME Crash PROVE pc'[c] \in {"new", "closed"}
        BY <2>4, ServerAssumption DEF Crash, Agent
    <2>6. pc'[c] \in {pc[c], "serving", "closed", "new"}
        BY <2>1, <2>2, <2>3, <2>4
           DEF Next, UploadBatch, EnqueueBacklog, PersistPoint, CacheLoses, vars
    <2> QED BY <1>1, <1>5, <2>6 DEF Restoring
<1> QED BY <1>3, <1>4, <1>5

LEMMA CopyInvInit == Init => CopyInv /\ RestoresQuiet
<1> SUFFICES ASSUME Init PROVE CopyInv /\ RestoresQuiet
    OBVIOUS
<1>1. Pending = {} /\ db = {}
    BY DEF Init, Pending
<1>2. /\ \A d \in Device : filters[d] = NoState /\ ~ Fusing(d)
      /\ \A a \in Agent : pc[a] \in {"idle", "new"}
    BY DEF Init, Fusing, Agent
<1>3. \A c \in Conn : ~ Restoring(c)
    BY <1>2 DEF Restoring, Agent
<1> QED BY <1>1, <1>2, <1>3
        DEF CopyInv, RestoreInv, RowsCached, FiltersFollow, LocalsKnown, RestoresQuiet

\* The device an agent restores a filter for is one of the devices.
LEMMA RestoredDevices ==
    ASSUME QueueInv, TypeInv, NEW a \in Agent,
           a = Worker => pc[Worker] # "idle"
    PROVE  DeviceFor(a) \in Device
<1>1. CASE a = Worker
    <2>1. hand # {}
        BY <1>1 DEF TypeInv, WorkerState
    <2>2. HeldPacket \in Packet
        BY <2>1, QueuedPackets DEF HeldPacket, QueueInv
    <2> QED BY <1>1, <2>2, ServerAssumption DEF DeviceFor
<1>2. CASE a \in Conn
    BY <1>2, ServerAssumption DEF DeviceFor
<1> QED BY <1>1, <1>2 DEF Agent

\* An agent that restores a filter read it in this step, or stays as it was.
LEMMA RestorersKept ==
    ASSUME TypeInv, [Next]_vars, NEW a \in Agent, pc'[a] \in {"querying", "restored"}
    PROVE  \/ Restore(a)
           \/ pc'[a] = pc[a] /\ loc'[a] = loc[a] /\ DeviceFor(a)' = DeviceFor(a)
<1> USE ServerAssumption DEF TypeInv, TypeOK, Agent
<1>1. UNCHANGED hand => DeviceFor(a)' = DeviceFor(a)
    BY DEF DeviceFor, HeldPacket
<1>2. a # Worker => DeviceFor(a)' = DeviceFor(a)
    BY DEF DeviceFor
<1>3. ASSUME NEW c \in Conn, Handler(c) PROVE pc'[a] = pc[a] /\ loc'[a] = loc[a] /\ UNCHANGED hand
    BY <1>3 DEF Handler, Accept, Install, ReceiveLive, ReceiveBacklog, Disconnect,
                Q!EnqueueLive, Q!Dump, Q!StartBacklog, queueVars
<1>4. ASSUME NEW b \in Agent, b # a, Restore(b) PROVE pc'[a] = pc[a] /\ loc'[a] = loc[a] /\ UNCHANGED hand
    BY <1>4 DEF Restore, ReadCache, ReadDb, ReadDbFails, queueVars
<1>5. ASSUME QueueWorker PROVE a # Worker /\ pc'[a] = pc[a] /\ loc'[a] = loc[a]
    <2>1. ASSUME NEW p, NEW kf, Fuse(p, kf) PROVE a # Worker /\ pc'[a] = pc[a] /\ loc'[a] = loc[a]
        BY <2>1 DEF Fuse
    <2>2. CASE WorkerTake
        <3>1. PICK i \in hand' :
                  IF filters[i.packet.device] # NoState
                  THEN Fuse(i.packet, filters[i.packet.device])
                  ELSE pc' = [pc EXCEPT ![Worker] = "reading"] /\ UNCHANGED <<loc, filters>>
            BY <2>2 DEF WorkerTake
        <3> QED BY <2>1, <3>1
    <2>3. CASE WorkerInstall
        BY <2>1, <2>3 DEF WorkerInstall
    <2>4. CASE WorkerSent \/ WorkerStore \/ WorkerGivesUp
        BY <2>4 DEF WorkerSent, WorkerStore, WorkerGivesUp
    <2> QED BY <1>5, <2>2, <2>3, <2>4 DEF QueueWorker
<1>6. ~ Crash
    BY DEF Crash
<1>7. CASE \/ \E u \in Upload, d \in Device : \E S \in Dumpable(d) : UploadBatch(u, d, S)
           \/ \E p \in Conn \cup Upload : EnqueueBacklog(p)
           \/ PersistPoint
           \/ \E d \in Device : CacheLoses(d)
           \/ UNCHANGED vars
    <2>1. UNCHANGED <<hand, pc, loc>>
        BY <1>7 DEF UploadBatch, EnqueueBacklog, PersistPoint, CacheLoses, Q!Dump, Q!StartBacklog,
                    Q!BacklogRun, Q!BacklogReturn, queueVars, vars
    <2> QED BY <1>1, <2>1
<1> QED BY <1>1, <1>2, <1>3, <1>4, <1>5, <1>6, <1>7 DEF Next

LEMMA CacheChanges ==
    ASSUME [Next]_vars
    PROVE  \/ UNCHANGED <<cache, lost>>
           \/ WorkerStore /\ UNCHANGED lost
           \/ \E d \in Device : CacheLoses(d)
BY DEF Next, Handler, Restore, QueueWorker, Accept, Install, ReceiveLive, ReceiveBacklog,
       Disconnect, ReadCache, ReadDb, ReadDbFails, UploadBatch, EnqueueBacklog, WorkerTake,
       WorkerInstall, WorkerSent, WorkerStore, WorkerGivesUp, PersistPoint, Crash, vars, stores

\* What the cache has of a device changes when the worker stores it or when
\* it is lost.
LEMMA CacheKept ==
    ASSUME Warm, TypeInv, [Next]_vars, NEW d \in Device,
           ~ (WorkerStore /\ HeldPacket.device = d)
    PROVE  /\ cache'[d] \in {cache[d], NoState}
           /\ d \notin lost' => d \notin lost /\ cache'[d] = cache[d]
<1>1. CASE UNCHANGED <<cache, lost>>
    BY <1>1
<1>2. CASE WorkerStore /\ UNCHANGED lost
    BY <1>2 DEF WorkerStore, SetCached, Warm, TypeInv, TypeOK
<1>3. ASSUME NEW e \in Device, CacheLoses(e)
      PROVE  /\ cache'[d] \in {cache[d], NoState}
             /\ d \notin lost' => d \notin lost /\ cache'[d] = cache[d]
    BY <1>3 DEF CacheLoses, TypeInv, TypeOK
<1> QED BY <1>1, <1>2, <1>3, CacheChanges

\* Nothing is stored for a device while a filter is restored for it.
LEMMA RestoredCacheKept ==
    ASSUME Warm, QueueInv, TypeInv, RestoresQuiet, [Next]_vars, NEW a \in Agent,
           pc[a] \in {"querying", "restored"}
    PROVE  /\ DeviceFor(a) \in Device
           /\ cache'[DeviceFor(a)] \in {cache[DeviceFor(a)], NoState}
           /\ DeviceFor(a) \notin lost' =>
                  DeviceFor(a) \notin lost /\ cache'[DeviceFor(a)] = cache[DeviceFor(a)]
<1>1. DeviceFor(a) \in Device
    BY RestoredDevices
<1>2. ASSUME WorkerStore, HeldPacket.device = DeviceFor(a) PROVE FALSE
    <2>1. hand # {} /\ pc[Worker] = "storing"
        BY <1>2 DEF WorkerStore, Q!TaskDone
    <2>2. a # Worker /\ a \in Conn
        BY <2>1 DEF Agent
    <2>3. Quiet(DeviceOf[a]) /\ DeviceFor(a) = DeviceOf[a]
        BY <2>2 DEF RestoresQuiet, Restoring, DeviceFor
    <2> QED BY <1>2, <2>1, <2>3 DEF Quiet, HeldPacket
<1> QED BY <1>1, <1>2, CacheKept

LEMMA RestoreInvNext ==
    ASSUME Warm, QueueInv, TypeInv, RestoresQuiet, RestoreInv, [Next]_vars
    PROVE  RestoreInv'
<1> SUFFICES ASSUME NEW a \in Agent, pc'[a] \in {"querying", "restored"}
             PROVE  /\ pc'[a] = "querying" => cache'[DeviceFor(a)'] = NoState
                    /\ pc'[a] = "restored" => cache'[DeviceFor(a)'] \in {loc'[a], NoState}
    BY DEF RestoreInv
<1>1. CASE Restore(a)
    <2>1. UNCHANGED <<cache, hand>>
        BY <1>1 DEF Restore, ReadCache, ReadDb, ReadDbFails, stores, queueVars
    <2>2. DeviceFor(a)' = DeviceFor(a)
        BY <2>1 DEF DeviceFor, HeldPacket
    <2>3. CASE ReadCache(a)
        <3>1. CacheAnswers(DeviceFor(a)) = {cache[DeviceFor(a)]}
            BY DEF CacheAnswers, Warm
        <3> QED BY <2>1, <2>2, <2>3, <3>1 DEF ReadCache, TypeInv, TypeOK
    <2>4. CASE ReadDb(a)
        BY <2>1, <2>2, <2>4 DEF ReadDb, RestoreInv, TypeInv, TypeOK
    <2>5. CASE ReadDbFails(a)
        BY <2>5 DEF ReadDbFails, TypeInv, TypeOK
    <2> QED BY <1>1, <2>3, <2>4, <2>5 DEF Restore
<1>2. CASE pc'[a] = pc[a] /\ loc'[a] = loc[a] /\ DeviceFor(a)' = DeviceFor(a)
    BY <1>2, RestoredCacheKept DEF RestoreInv
<1> QED BY <1>1, <1>2, RestorersKept

\* Without a cached state that was lost there are no rows, so a new filter is
\* what the database leads to.
LEMMA LocalsKnownNext ==
    ASSUME Warm, QueueInv, TypeInv, RestoresQuiet, CopyInv, [Next]_vars
    PROVE  LocalsKnown'
<1> SUFFICES ASSUME NEW a \in Agent, pc'[a] = "restored", DeviceFor(a)' \notin lost'
             PROVE  loc'[a] = Known(DeviceFor(a))'
    BY DEF LocalsKnown
<1>1. CASE Restore(a)
    <2>1. UNCHANGED <<cache, hand, lost>>
        BY <1>1 DEF Restore, ReadCache, ReadDb, ReadDbFails, stores, queueVars
    <2>2. DeviceFor(a)' = DeviceFor(a) /\ Known(DeviceFor(a))' = Known(DeviceFor(a))
        BY <2>1 DEF DeviceFor, HeldPacket, Known
    <2>3. CASE ReadCache(a)
        <3>1. CacheAnswers(DeviceFor(a)) = {cache[DeviceFor(a)]}
            BY DEF CacheAnswers, Warm
        <3> QED BY <2>2, <2>3, <3>1 DEF ReadCache, Known, TypeInv, TypeOK
    <2>4. CASE ReadDb(a)
        <3>1. cache[DeviceFor(a)] = NoState
            BY <2>4 DEF ReadDb, CopyInv, RestoreInv
        <3>2. RowsOf(DeviceFor(a)) = {}
            BY <2>1, <2>2, <3>1 DEF CopyInv, RowsCached, RowsOf
        <3>3. loc' = [loc EXCEPT ![a] = NewFilter]
            BY <2>4, <3>2 DEF ReadDb, LastKnown
        <3> QED BY <2>2, <3>1, <3>3 DEF Known, TypeInv, TypeOK
    <2>5. CASE ReadDbFails(a)
        BY <2>5 DEF ReadDbFails, TypeInv, TypeOK
    <2> QED BY <1>1, <2>3, <2>4, <2>5 DEF Restore
<1>2. CASE pc'[a] = pc[a] /\ loc'[a] = loc[a] /\ DeviceFor(a)' = DeviceFor(a)
    <2>1. DeviceFor(a) \notin lost /\ cache'[DeviceFor(a)] = cache[DeviceFor(a)]
        BY <1>2, RestoredCacheKept
    <2>2. Known(DeviceFor(a))' = Known(DeviceFor(a))
        BY <1>2, <2>1 DEF Known
    <2> QED BY <1>2, <2>1, <2>2 DEF CopyInv, LocalsKnown
<1> QED BY <1>1, <1>2, RestorersKept

\* Only these steps make a row, pending or written.
LEMMA RowChanges ==
    ASSUME TypeInv, [Next]_vars, ~ WorkerStore
    PROVE  db' \cup Pending' \subseteq db \cup Pending
<1>1. CASE UNCHANGED <<db, persists>>
    BY <1>1 DEF Pending
<1>2. CASE PersistPoint
    <2>1. /\ persists # <<>> /\ persists' = Tail(persists)
          /\ db' = db \/ db' = db \cup {Head(persists)}
        BY <1>2 DEF PersistPoint
    <2>2. /\ Len(persists) \in Nat \ {0} /\ Head(persists) = persists[1]
          /\ Len(persists') = Len(persists) - 1
          /\ \A k \in 1 .. Len(persists) - 1 : persists'[k] = persists[k + 1]
        BY <2>1 DEF TypeInv, TypeOK
    <2>3. Pending' \subseteq Pending /\ persists[1] \in Pending
        BY <2>2 DEF Pending
    <2> QED BY <2>1, <2>2, <2>3
<1>3. CASE Crash
    <2>1. persists' = <<>> /\ UNCHANGED db
        BY <1>3 DEF Crash
    <2> QED BY <2>1 DEF Pending
<1> QED BY <1>1, <1>2, <1>3
        DEF Next, Handler, Restore, QueueWorker, Accept, Install, ReceiveLive, ReceiveBacklog,
            Disconnect, ReadCache, ReadDb, ReadDbFails, UploadBatch, EnqueueBacklog, WorkerTake,
            WorkerInstall, WorkerSent, WorkerGivesUp, CacheLoses, stores, vars

LEMMA RowDevices ==
    ASSUME TypeInv, NEW r \in db \cup Pending
    PROVE  r.packet.device \in Device
<1>1. r \in Row
    BY DEF Pending, TypeInv, TypeOK
<1>2. r.packet \in Packet
    BY <1>1 DEF Row
<1> QED BY <1>2, ServerAssumption

\* What the worker stores.
LEMMA StoredFacts ==
    ASSUME Warm, QueueInv, TypeInv, WorkerStore
    PROVE  /\ HeldPacket.device \in Device
           /\ Fusing(HeldPacket.device)
           /\ loc[Worker] \in State /\ loc[Worker] # NoState
           /\ cache' = [cache EXCEPT ![HeldPacket.device] = loc[Worker]]
           /\ cache'[HeldPacket.device] = loc[Worker]
           /\ UNCHANGED <<lost, filters, db>>
           /\ pc'[Worker] = "idle"
<1>1. HeldPacket \in Packet
    BY QueuedPackets DEF WorkerStore, Q!TaskDone, HeldPacket, QueueInv
<1>2. HeldPacket.device \in Device
    BY <1>1, ServerAssumption
<1>3. loc[Worker] \in State /\ loc[Worker] # NoState
    BY ServerAssumption DEF WorkerStore, TypeInv, WorkerState
<1>4. PICK d : d = HeldPacket.device
    OBVIOUS
<1>5. cache' = [cache EXCEPT ![d] = loc[Worker]]
    BY <1>4 DEF WorkerStore, SetCached, Warm
<1>6. cache'[d] = loc[Worker]
    BY <1>2, <1>4, <1>5 DEF TypeInv, TypeOK
<1> QED BY <1>2, <1>3, <1>4, <1>5, <1>6 DEF WorkerStore, Fusing, TypeInv, TypeOK, Agent

LEMMA RowsCachedNext ==
    ASSUME Warm, QueueInv, TypeInv, CopyInv, [Next]_vars
    PROVE  RowsCached'
<1> SUFFICES ASSUME NEW r \in db' \cup Pending', r.packet.device \notin lost'
             PROVE  /\ cache'[r.packet.device] # NoState
                    /\ r.fused \subseteq cache'[r.packet.device].fused
    BY DEF RowsCached
<1>1. PICK d : d = r.packet.device
    OBVIOUS
<1>2. ASSUME r \in db \cup Pending, ~ (WorkerStore /\ HeldPacket.device = d)
      PROVE  /\ cache'[d] # NoState
             /\ r.fused \subseteq cache'[d].fused
    <2>1. d \in Device
        BY <1>1, <1>2, RowDevices
    <2>2. d \notin lost /\ cache'[d] = cache[d]
        BY <1>1, <1>2, <2>1, CacheKept
    <2> QED BY <1>1, <1>2, <2>2 DEF CopyInv, RowsCached
<1>3. ASSUME WorkerStore, HeldPacket.device = d
      PROVE  /\ cache'[d] # NoState
             /\ r.fused \subseteq cache'[d].fused
    <2>1. /\ d \in Device /\ Fusing(d) /\ cache'[d] = loc[Worker] /\ loc[Worker] # NoState
          /\ UNCHANGED <<lost, db>>
        BY <1>3, StoredFacts
    <2>2. Known(d).fused \subseteq loc[Worker].fused
        BY <1>1, <2>1 DEF CopyInv, FiltersFollow
    <2>3. PICK point : point = Point
        OBVIOUS
    <2>4. persists' = Append(persists, point) /\ point.fused = loc[Worker].fused
        BY <1>3, <2>3 DEF WorkerStore, Point
    <2>5. r \in db \cup Pending \cup {point}
        BY <2>1, <2>4 DEF Pending, TypeInv, TypeOK
    <2>6. CASE r \in db \cup Pending
        BY <1>1, <2>1, <2>2, <2>6 DEF CopyInv, RowsCached, Known
    <2>7. CASE r = point
        BY <2>1, <2>4, <2>7
    <2> QED BY <2>5, <2>6, <2>7
<1>4. ASSUME WorkerStore, HeldPacket.device # d PROVE r \in db \cup Pending
    <2>1. PICK point : point = Point
        OBVIOUS
    <2>2. persists' = Append(persists, point) /\ point.packet = HeldPacket /\ UNCHANGED db
        BY <1>4, <2>1 DEF WorkerStore, Point
    <2>3. r \in db \cup Pending \cup {point}
        BY <2>2 DEF Pending, TypeInv, TypeOK
    <2> QED BY <1>1, <1>4, <2>2, <2>3
<1> QED BY <1>1, <1>2, <1>3, <1>4, RowChanges

\* What the worker fuses its packet into: the filter at hand, or the one it
\* has restored.
LEMMA WorkerFuses ==
    ASSUME QueueInv, TypeInv, CopyInv, WorkerTake \/ WorkerInstall
    PROVE  \/ /\ WorkerTake /\ UNCHANGED <<loc, filters>>
              /\ pc' = [pc EXCEPT ![Worker] = "reading"]
           \/ \E p \in Packet : \E kf \in State :
                  /\ Fuse(p, kf) /\ HeldPacket' = p
                  /\ p.device \notin lost => Follows(kf, Known(p.device))
                  /\ kf = filters[p.device] \/ kf = Known(p.device) \/ p.device \in lost
<1>1. CASE WorkerTake
    <2>1. PICK i \in queue : /\ hand' = {i}
                             /\ IF filters[i.packet.device] # NoState
                                THEN Fuse(i.packet, filters[i.packet.device])
                                ELSE /\ pc' = [pc EXCEPT ![Worker] = "reading"]
                                     /\ UNCHANGED <<loc, filters>>
        BY <1>1 DEF WorkerTake, Q!GetNextItem, Q!Foremost
    <2>2. /\ HeldPacket' = i.packet /\ i.packet \in Packet
          /\ i.packet.device \in Device
        BY <2>1, ServerAssumption, QueuedPackets DEF HeldPacket, QueueInv
    <2>3. CASE filters[i.packet.device] # NoState
        <3>1. filters[i.packet.device] \in State
            BY <2>2, <2>3 DEF TypeInv, TypeOK
        <3>2. ~ Fusing(i.packet.device)
            BY <1>1 DEF WorkerTake, Fusing
        <3>3. i.packet.device \notin lost => Follows(filters[i.packet.device], Known(i.packet.device))
            BY <2>2, <2>3, <3>2 DEF CopyInv, FiltersFollow
        <3> QED BY <2>1, <2>2, <2>3, <3>1, <3>3
    <2>4. CASE filters[i.packet.device] = NoState
        BY <1>1, <2>1, <2>4
    <2> QED BY <2>3, <2>4
<1>2. CASE WorkerInstall
    <2>1. UNCHANGED hand /\ Fuse(HeldPacket, loc[Worker])
        BY <1>2 DEF WorkerInstall, queueVars
    <2>2. hand # {} /\ loc[Worker] \in State
        BY <1>2 DEF WorkerInstall, TypeInv, WorkerState
    <2>3. HeldPacket \in Packet /\ HeldPacket' = HeldPacket
        BY <2>1, <2>2, QueuedPackets DEF HeldPacket, QueueInv
    <2>4. HeldPacket.device \notin lost => loc[Worker] = Known(HeldPacket.device)
        BY <1>2 DEF WorkerInstall, CopyInv, LocalsKnown, DeviceFor, Agent
    <2>5. HeldPacket.device \notin lost => Follows(loc[Worker], Known(HeldPacket.device))
        BY <2>4 DEF Follows
    <2> QED BY <2>1, <2>2, <2>3, <2>4, <2>5
<1> QED BY <1>1, <1>2

\* A connection installs what it has read, and its device is quiet.
LEMMA InstallKnown ==
    ASSUME TypeInv, RestoresQuiet, CopyInv, NEW c \in Conn, Install(c)
    PROVE  /\ \A d \in Device : filters'[d] = IF d = DeviceOf[c] THEN loc[c] ELSE filters[d]
           /\ DeviceOf[c] \notin lost => loc[c] = Known(DeviceOf[c])
           /\ ~ Fusing(DeviceOf[c])
<1>1. Restoring(c) /\ c # Worker /\ c \in Agent
    BY ServerAssumption DEF Install, Restoring, Agent
<1>2. DeviceOf[c] \notin lost => loc[c] = Known(DeviceOf[c])
    BY <1>1 DEF Install, CopyInv, LocalsKnown, DeviceFor
<1>3. \A i \in hand : i.packet.device # DeviceOf[c]
    BY <1>1 DEF RestoresQuiet, Quiet
<1>4. ASSUME Fusing(DeviceOf[c]) PROVE FALSE
    <2>1. hand # {}
        BY <1>4 DEF Fusing, TypeInv, WorkerState
    <2> QED BY <1>3, <1>4, <2>1 DEF Fusing, HeldPacket
<1>5. \A d \in Device : filters'[d] = IF d = DeviceOf[c] THEN loc[c] ELSE filters[d]
    BY DEF Install, TypeInv, TypeOK
<1> QED BY <1>2, <1>4, <1>5

\* Only these steps change a filter: a restored connection, the worker's
\* fusion, a restart.
LEMMA FilterChanges ==
    ASSUME [Next]_vars
    PROVE  \/ UNCHANGED filters
           \/ \E c \in Conn : Install(c)
           \/ WorkerTake \/ WorkerInstall
           \/ Crash /\ \A d \in Device : filters'[d] = NoState
BY DEF Next, Handler, Restore, QueueWorker, Accept, ReceiveLive, ReceiveBacklog, Disconnect,
       ReadCache, ReadDb, ReadDbFails, UploadBatch, EnqueueBacklog, WorkerSent, WorkerStore,
       WorkerGivesUp, PersistPoint, CacheLoses, Crash, vars

\* What is being fused stays so, but where the worker takes or stores.
LEMMA FusingKept ==
    ASSUME TypeInv, [Next]_vars, ~ WorkerTake, ~ WorkerInstall, ~ WorkerStore, ~ Crash,
           NEW d \in Device
    PROVE  /\ Fusing(d)' <=> Fusing(d)
           /\ Fusing(d) => loc'[Worker] = loc[Worker]
<1> USE ServerAssumption DEF TypeInv, TypeOK, Agent
<1>1. CASE /\ UNCHANGED <<hand, loc[Worker]>>
           /\ pc'[Worker] \in {"sending", "storing"} <=> pc[Worker] \in {"sending", "storing"}
    BY <1>1 DEF Fusing, HeldPacket
<1>2. ASSUME NEW c \in Conn, Handler(c)
      PROVE  UNCHANGED <<hand, pc[Worker], loc[Worker]>>
    BY <1>2 DEF Handler, Accept, Install, ReceiveLive, ReceiveBacklog, Disconnect, Q!EnqueueLive,
                Q!Dump, Q!StartBacklog, queueVars
<1>3. ASSUME NEW a \in Agent, Restore(a)
      PROVE  /\ Fusing(d)' <=> Fusing(d)
             /\ Fusing(d) => loc'[Worker] = loc[Worker]
    <2>1. CASE a = Worker
        BY <1>3, <2>1 DEF Restore, ReadCache, ReadDb, ReadDbFails, queueVars, Fusing
    <2>2. CASE a # Worker
        <3>1. UNCHANGED <<hand, pc[Worker], loc[Worker]>>
            BY <1>3, <2>2 DEF Restore, ReadCache, ReadDb, ReadDbFails, queueVars
        <3> QED BY <1>1, <3>1
    <2> QED BY <2>1, <2>2
<1>4. CASE WorkerSent
    BY <1>1, <1>4 DEF WorkerSent, queueVars
<1>5. CASE WorkerGivesUp
    BY <1>5 DEF WorkerGivesUp, Fusing
<1>6. CASE \/ \E u \in Upload, e \in Device : \E S \in Dumpable(e) : UploadBatch(u, e, S)
           \/ \E p \in Conn \cup Upload : EnqueueBacklog(p)
           \/ PersistPoint
           \/ \E e \in Device : CacheLoses(e)
           \/ UNCHANGED vars
    <2>1. UNCHANGED <<hand, pc, loc>>
        BY <1>6 DEF UploadBatch, EnqueueBacklog, PersistPoint, CacheLoses, Q!Dump, Q!StartBacklog,
                    Q!BacklogRun, Q!BacklogReturn, queueVars, vars
    <2> QED BY <1>1, <2>1
<1> QED BY <1>1, <1>2, <1>3, <1>4, <1>5, <1>6 DEF Next, QueueWorker

\* Where the filter of d follows the cached state, or is being fused.
FilterFollows(d) ==
    /\ filters[d] # NoState /\ ~ Fusing(d) => Follows(filters[d], Known(d))
    /\ Fusing(d) => /\ filters[d] = loc[Worker]
                    /\ Known(d).fused \subseteq filters[d].fused

\* A packet is fused into a filter that follows what is cached.
LEMMA FollowsAfterFuse ==
    ASSUME TypeInv, NEW p \in Packet, NEW kf \in State, Fuse(p, kf), HeldPacket' = p,
           NEW d \in Device, Follows(kf, Known(p.device)), FilterFollows(d),
           pc[Worker] \notin {"sending", "storing"}, UNCHANGED cache
    PROVE  FilterFollows(d)'
<1>1. PICK fused : fused = [kf EXCEPT !.fused = @ \cup {p}]
    OBVIOUS
<1>2. fused.fused = kf.fused \cup {p}
    BY <1>1, FusedState
<1>3. /\ filters' = [filters EXCEPT ![p.device] = fused]
      /\ p \in Malformed => pc' = [pc EXCEPT ![Worker] = "raised"]
      /\ p \notin Malformed =>
             /\ loc' = [loc EXCEPT ![Worker] = fused]
             /\ \E w \in {"sending", "storing"} : pc' = [pc EXCEPT ![Worker] = w]
    BY <1>1 DEF Fuse
<1>4. Worker \in DOMAIN pc /\ Worker \in DOMAIN loc /\ d \in DOMAIN filters
    BY DEF TypeInv, TypeOK, Agent
<1>5. Known(d)' = Known(d) /\ Known(p.device)' = Known(p.device) /\ ~ Fusing(d)
    BY DEF Known, Fusing
<1>6. Fusing(d)' <=> p \notin Malformed /\ d = p.device
    BY <1>3, <1>4 DEF Fusing
<1>7. CASE d = p.device
    <2>1. filters'[d] = fused
        BY <1>3, <1>4, <1>7
    <2>2. p \in Malformed => Follows(fused, Known(d))
        BY <1>2, <1>7 DEF Follows
    <2>3. p \notin Malformed => loc'[Worker] = fused
        BY <1>3, <1>4
    <2>4. Known(d).fused \subseteq fused.fused
        BY <1>2, <1>7 DEF Follows
    <2> QED BY <1>5, <1>6, <1>7, <2>1, <2>2, <2>3, <2>4 DEF FilterFollows, Follows
<1>8. CASE d # p.device
    <2>1. filters'[d] = filters[d]
        BY <1>3, <1>4, <1>8
    <2> QED BY <1>5, <1>6, <1>8, <2>1 DEF FilterFollows, Follows
<1> QED BY <1>7, <1>8

LEMMA FiltersFollowNext ==
    ASSUME Warm, QueueInv, TypeInv, RestoresQuiet, CopyInv, [Next]_vars
    PROVE  FiltersFollow'
<1> SUFFICES ASSUME NEW d \in Device, d \notin lost' PROVE FilterFollows(d)'
    BY DEF FiltersFollow, FilterFollows
<1>1. d \notin lost
    BY CacheChanges DEF CacheLoses
<1>2. FilterFollows(d)
    BY <1>1 DEF CopyInv, FiltersFollow, FilterFollows
<1>3. ~ (WorkerStore /\ HeldPacket.device = d) => cache'[d] = cache[d] /\ Known(d)' = Known(d)
    BY CacheKept DEF Known
<1>4. CASE WorkerStore
    <2>1. ~ Fusing(d)' /\ UNCHANGED filters
        BY <1>4, StoredFacts DEF Fusing
    <2>2. CASE HeldPacket.device = d
        <3>1. filters[d] = loc[Worker] /\ cache'[d] = loc[Worker] /\ loc[Worker] # NoState
            BY <1>2, <1>4, <2>2, StoredFacts DEF FilterFollows
        <3> QED BY <2>1, <3>1 DEF FilterFollows, Follows, Known
    <2>3. CASE HeldPacket.device # d
        BY <1>2, <1>3, <2>1, <2>3 DEF FilterFollows, Fusing, Follows
    <2> QED BY <2>2, <2>3
<1>5. CASE WorkerTake \/ WorkerInstall
    <2>1. /\ UNCHANGED cache /\ pc[Worker] \notin {"sending", "storing"}
          /\ UNCHANGED lost
        BY <1>5 DEF WorkerTake, WorkerInstall, stores
    <2>2. CASE WorkerTake /\ UNCHANGED <<loc, filters>> /\ pc' = [pc EXCEPT ![Worker] = "reading"]
        <3>1. ~ Fusing(d) /\ ~ Fusing(d)' /\ Known(d)' = Known(d)
            BY <2>1, <2>2 DEF Fusing, Known, TypeInv, TypeOK, Agent
        <3> QED BY <1>2, <2>2, <3>1 DEF FilterFollows, Follows
    <2>3. ASSUME NEW p \in Packet, NEW kf \in State, Fuse(p, kf), HeldPacket' = p,
                 p.device \notin lost => Follows(kf, Known(p.device))
          PROVE  FilterFollows(d)'
        <3>1. CASE p.device \notin lost
            BY <1>2, <2>1, <2>3, <3>1, FollowsAfterFuse
        <3>2. CASE p.device \in lost
            <4>1. d # p.device
                BY <1>1, <3>2
            <4>2. filters'[d] = filters[d]
                BY <2>3, <4>1 DEF Fuse, TypeInv, TypeOK
            <4>3. ~ Fusing(d) /\ ~ Fusing(d)' /\ Known(d)' = Known(d)
                BY <2>1, <2>3, <4>1 DEF Fusing, Known
            <4> QED BY <1>2, <4>2, <4>3 DEF FilterFollows, Follows
        <3> QED BY <3>1, <3>2
    <2> QED BY <1>5, <2>2, <2>3, WorkerFuses
<1>6. CASE Crash
    <2>1. filters'[d] = NoState /\ pc'[Worker] = "idle"
        BY <1>6 DEF Crash, Agent
    <2> QED BY <2>1 DEF FilterFollows, Fusing
<1>7. ASSUME NEW c \in Conn, Install(c), ~ WorkerStore, ~ WorkerTake, ~ WorkerInstall, ~ Crash
      PROVE  FilterFollows(d)'
    <2>1. (Fusing(d)' <=> Fusing(d)) /\ (Fusing(d) => loc'[Worker] = loc[Worker]) /\ Known(d)' = Known(d)
        BY <1>3, <1>7, FusingKept
    <2>2. CASE d = DeviceOf[c]
        <3>1. filters'[d] = Known(d) /\ ~ Fusing(d)
            BY <1>1, <1>7, <2>2, InstallKnown
        <3> QED BY <2>1, <3>1 DEF FilterFollows, Follows
    <2>3. CASE d # DeviceOf[c]
        <3>1. filters'[d] = filters[d]
            BY <1>7, <2>3, InstallKnown
        <3> QED BY <1>2, <2>1, <3>1 DEF FilterFollows, Follows
    <2> QED BY <2>2, <2>3
<1>8. CASE UNCHANGED filters /\ ~ WorkerStore /\ ~ WorkerTake /\ ~ WorkerInstall /\ ~ Crash
    <2>1. (Fusing(d)' <=> Fusing(d)) /\ (Fusing(d) => loc'[Worker] = loc[Worker]) /\ Known(d)' = Known(d)
        BY <1>3, <1>8, FusingKept
    <2> QED BY <1>2, <1>8, <2>1 DEF FilterFollows, Follows
<1> QED BY <1>4, <1>5, <1>6, <1>7, <1>8, FilterChanges

LEMMA CopyInvHolds == Warm => (Spec => [](RestoresQuiet /\ CopyInv))
<1> SUFFICES ASSUME Warm PROVE Spec => [](RestoresQuiet /\ CopyInv)
    OBVIOUS
<1>1. Init => RestoresQuiet /\ CopyInv
    BY CopyInvInit
<1>2. QueueInv /\ TypeInv /\ RestoresQuiet /\ CopyInv /\ [Next]_vars => (RestoresQuiet /\ CopyInv)'
    <2> SUFFICES ASSUME QueueInv, TypeInv, RestoresQuiet, CopyInv, [Next]_vars
                 PROVE  RestoresQuiet' /\ CopyInv'
        OBVIOUS
    <2>1. RestoreInv'
        BY RestoreInvNext DEF CopyInv
    <2> QED BY <2>1, RestoresQuietNext, RowsCachedNext, FiltersFollowNext, LocalsKnownNext DEF CopyInv
<1> QED BY <1>1, <1>2, QueueInvHolds, TypeInvHolds, PTL DEF Spec

\* While Redis answers and devices reconnect when they are quiet, a filter is
\* installed only where it is what the cache holds, or where the cache holds
\* nothing: neither the awaits between read and installation, nor expiry,
\* eviction, failed database calls or a restart bring back an older state, and
\* one without its covariance never replaces a cached one that has it.
THEOREM RestoresStayCurrent == Warm => (Spec => []RestoresCurrent)
<1>1. CopyInv => RestoresCurrent
    BY DEF CopyInv, RestoreInv, RestoresCurrent
<1> QED BY <1>1, CopyInvHolds, PTL

\* Database, cache and filter hold growing parts of the same history, for a
\* device whose cached state was never lost.
THEOREM CopiesStayOrdered == Warm => (Spec => []CopiesOrdered)
<1>1. TypeInv /\ CopyInv => CopiesOrdered
    <2> SUFFICES ASSUME TypeInv, CopyInv, NEW d \in Device \ lost
                 PROVE  /\ \A k \in 1 .. Len(persists) :
                              persists[k].packet.device = d /\ cache[d] # NoState
                                 => persists[k].fused \subseteq cache[d].fused
                        /\ \A r \in RowsOf(d) :
                              cache[d] # NoState => r.fused \subseteq cache[d].fused
                        /\ cache[d] # NoState /\ filters[d] # NoState
                              => cache[d].fused \subseteq filters[d].fused
        BY DEF CopiesOrdered
    <2>1. \A k \in 1 .. Len(persists) : persists[k] \in Pending
        BY DEF Pending
    <2>2. \A r \in RowsOf(d) : r \in db /\ r.packet.device = d
        BY DEF RowsOf
    <2>3. cache[d] # NoState /\ filters[d] # NoState => cache[d].fused \subseteq filters[d].fused
        BY DEF CopyInv, FiltersFollow, Follows, Known
    <2> QED BY <2>1, <2>2, <2>3 DEF CopyInv, RowsCached
<1> QED BY <1>1, CopyInvHolds, TypeInvHolds, PTL

LEMMA FiltersGrow ==
    ASSUME Warm, QueueInv, TypeInv, RestoresQuiet, CopyInv, [Next]_vars, NEW d \in Device \ lost',
           filters[d] # NoState, filters'[d] # NoState
    PROVE  filters[d].fused \ Malformed \subseteq filters'[d].fused
<1>1. d \notin lost
    BY CacheChanges DEF CacheLoses
<1>2. filters[d] # NoState /\ ~ Fusing(d) => Follows(filters[d], Known(d))
    BY <1>1 DEF CopyInv, FiltersFollow
<1>3. ASSUME NEW c \in Conn, Install(c)
      PROVE  filters[d].fused \ Malformed \subseteq filters'[d].fused
    <2>1. CASE d = DeviceOf[c]
        <3>1. filters'[d] = Known(d) /\ ~ Fusing(d)
            BY <1>1, <1>3, <2>1, InstallKnown
        <3> QED BY <1>2, <3>1 DEF Follows
    <2>2. CASE d # DeviceOf[c]
        BY <1>3, <2>2, InstallKnown
    <2> QED BY <2>1, <2>2
<1>4. ASSUME NEW p \in Packet, NEW kf \in State, Fuse(p, kf), ~ Fusing(d),
             kf = filters[p.device] \/ kf = Known(p.device) \/ p.device \in lost
      PROVE  filters[d].fused \ Malformed \subseteq filters'[d].fused
    <2>1. CASE d = p.device
        <3>1. PICK fused : fused = [kf EXCEPT !.fused = @ \cup {p}]
            OBVIOUS
        <3>2. filters'[d] = fused /\ fused.fused = kf.fused \cup {p}
            BY <1>4, <2>1, <3>1, FusedState DEF Fuse, TypeInv, TypeOK
        <3>3. CASE kf = filters[d]
            BY <3>2, <3>3
        <3>4. CASE kf = Known(d)
            BY <1>2, <1>4, <3>2, <3>4 DEF Follows
        <3> QED BY <1>1, <1>4, <2>1, <3>3, <3>4
    <2>2. CASE d # p.device
        BY <1>4, <2>2 DEF Fuse, TypeInv, TypeOK
    <2> QED BY <2>1, <2>2
<1>5. CASE WorkerTake \/ WorkerInstall
    <2>1. ~ Fusing(d)
        BY <1>5 DEF WorkerTake, WorkerInstall, Fusing
    <2> QED BY <1>4, <1>5, <2>1, WorkerFuses
<1> QED BY <1>3, <1>5, FilterChanges

\* The packets behind the answer of GET .../state, without an outage.
LEMMA WarmAnswer ==
    ASSUME Warm, NEW d \in Device
    PROVE  /\ cache[d] # NoState => LatestState(d) = {cache[d].fused}
           /\ cache[d] = NoState /\ RowsOf(d) = {} => LatestState(d) = {{}}
<1>1. CacheAnswers(d) = {cache[d]}
    BY DEF CacheAnswers, Warm
<1> QED BY <1>1 DEF LatestState

LEMMA AnswersGrow ==
    ASSUME Warm, QueueInv, TypeInv, CopyInv, [Next]_vars, NEW d \in Device \ lost',
           NEW f \in LatestState(d), NEW g \in LatestState(d)'
    PROVE  f \subseteq g
<1>0. d \notin lost
    BY CacheChanges DEF CacheLoses
<1>1. CASE cache[d] = NoState
    <2>1. RowsOf(d) = {}
        BY <1>0, <1>1 DEF RowsOf, CopyInv, RowsCached
    <2> QED BY <1>1, <2>1, WarmAnswer
<1>2. CASE cache[d] # NoState
    <2>1. f = cache[d].fused
        BY <1>2, WarmAnswer
    <2>2. cache'[d] # NoState /\ cache[d].fused \subseteq cache'[d].fused
        <3>1. CASE ~ (WorkerStore /\ HeldPacket.device = d)
            BY <1>2, <3>1, CacheKept
        <3>2. CASE WorkerStore /\ HeldPacket.device = d
            <4>1. cache'[d] = loc[Worker] /\ loc[Worker] # NoState /\ Fusing(d)
                BY <3>2, StoredFacts
            <4>2. Known(d).fused \subseteq loc[Worker].fused
                BY <1>0, <4>1 DEF CopyInv, FiltersFollow
            <4> QED BY <1>2, <4>1, <4>2 DEF Known
        <3> QED BY <3>1, <3>2
    <2>3. CacheAnswers(d)' = {cache'[d]}
        BY DEF CacheAnswers, Warm
    <2>4. g = cache'[d].fused
        BY <2>2, <2>3 DEF LatestState
    <2> QED BY <2>1, <2>2, <2>4
<1> QED BY <1>1, <1>2

\* While Redis answers and devices reconnect when they are quiet, and until
\* the cached state of the device is lost: no reconnect takes away from a
\* filter a packet that was processed without an error, and neither that nor a
\* restart takes one away from the position GET .../state answers.
THEOREM NothingIsRolledBack == Warm => (Spec => NothingRollsBack)
<1> SUFFICES ASSUME Warm PROVE Spec => NothingRollsBack
    OBVIOUS
<1>1. QueueInv /\ TypeInv /\ RestoresQuiet /\ CopyInv /\ [Next]_vars =>
          [\A d \in Device \ lost' :
              filters[d] # NoState /\ filters'[d] # NoState
                 => filters[d].fused \ Malformed \subseteq filters'[d].fused]_vars
    BY FiltersGrow
<1>2. QueueInv /\ TypeInv /\ RestoresQuiet /\ CopyInv /\ [Next]_vars =>
          [\A d \in Device \ lost' :
              \A f \in LatestState(d) : \A g \in LatestState(d)' : f \subseteq g]_vars
    BY AnswersGrow
<1>3. Spec => FilterNeverRollsBack
    BY <1>1, CopyInvHolds, QueueInvHolds, TypeInvHolds, PTL DEF Spec, FilterNeverRollsBack
<1>4. Spec => AnswersNeverRollBack
    BY <1>2, CopyInvHolds, QueueInvHolds, TypeInvHolds, PTL DEF Spec, AnswersNeverRollBack
<1> QED BY <1>3, <1>4 DEF NothingRollsBack
-----------------------------------------------------------------------------
(* NothingLost, while the process runs, the database accepts its writes and *)
(* every packet can be processed.                                            *)

Reliable == Env \cap {"dbfail", "crash"} = {} /\ Malformed = {}

\* Where a packet may be that was sent.
Placed(x) == Busy(x) \/ x \in refused \/ \E r \in db \cup Pending : r.packet = x

PlacedInv == pc[Worker] # "raised" /\ \A x \in Sent : Placed(x)

\* No row goes, written or pending.
LEMMA RowsStay ==
    ASSUME Reliable, TypeInv, [Next]_vars
    PROVE  db \cup Pending \subseteq db' \cup Pending'
<1>1. CASE UNCHANGED <<db, persists>>
    BY <1>1 DEF Pending
<1>2. CASE WorkerStore
    <2>1. persists' = Append(persists, Point) /\ UNCHANGED db
        BY <1>2 DEF WorkerStore
    <2>2. /\ Len(persists) \in Nat /\ Len(persists') = Len(persists) + 1
          /\ \A k \in 1 .. Len(persists) : persists'[k] = persists[k]
        BY <2>1 DEF TypeInv, TypeOK
    <2>3. \A k \in 1 .. Len(persists) : k \in 1 .. Len(persists')
        BY <2>2
    <2> QED BY <2>1, <2>2, <2>3 DEF Pending
<1>3. CASE PersistPoint
    <2>1. persists # <<>> /\ persists' = Tail(persists) /\ db' = db \cup {Head(persists)}
        BY <1>3 DEF PersistPoint, Reliable
    <2>2. /\ Len(persists) \in Nat \ {0} /\ Head(persists) = persists[1]
          /\ Len(persists') = Len(persists) - 1
          /\ \A k \in 1 .. Len(persists) - 1 : persists'[k] = persists[k + 1]
        BY <2>1 DEF TypeInv, TypeOK
    <2>3. ASSUME NEW k \in 1 .. Len(persists) PROVE persists[k] \in db' \cup Pending'
        <3>1. CASE k = 1
            BY <2>1, <2>2, <3>1
        <3>2. CASE k # 1
            <4>1. k - 1 \in 1 .. Len(persists') /\ persists'[k - 1] = persists[k]
                BY <2>2, <3>2
            <4> QED BY <4>1 DEF Pending
        <3> QED BY <3>1, <3>2
    <2> QED BY <2>1, <2>3 DEF Pending
<1>4. ~ Crash
    BY DEF Crash, Reliable
<1> QED BY <1>1, <1>2, <1>3, <1>4
        DEF Next, Handler, Restore, QueueWorker, Accept, Install, ReceiveLive, ReceiveBacklog,
            Disconnect, ReadCache, ReadDb, ReadDbFails, UploadBatch, EnqueueBacklog, WorkerTake,
            WorkerInstall, WorkerSent, WorkerGivesUp, CacheLoses, stores, vars

\* The worker has no item to give up.
LEMMA NeverRaised ==
    ASSUME Reliable, TypeInv, pc[Worker] # "raised", [Next]_vars
    PROVE  pc'[Worker] # "raised"
<1>1. \A p, kf : Fuse(p, kf) => pc'[Worker] # "raised"
    BY DEF Fuse, Reliable, TypeInv, TypeOK, Agent
<1>2. ASSUME NEW a \in Agent, Restore(a) PROVE pc'[Worker] # "raised"
    BY <1>2 DEF Restore, ReadCache, ReadDb, ReadDbFails, Reliable, TypeInv, TypeOK, Agent
<1>3. ASSUME NEW c \in Conn, Handler(c) PROVE pc'[Worker] # "raised"
    BY <1>3, ServerAssumption
       DEF Handler, Accept, Install, ReceiveLive, ReceiveBacklog, Disconnect, TypeInv, TypeOK, Agent
<1>4. CASE QueueWorker
    <2>1. CASE WorkerTake
        BY <1>1, <2>1 DEF WorkerTake, TypeInv, TypeOK, Agent
    <2>2. CASE WorkerInstall
        BY <1>1, <2>2 DEF WorkerInstall
    <2>3. CASE WorkerSent \/ WorkerStore \/ WorkerGivesUp
        BY <2>3 DEF WorkerSent, WorkerStore, WorkerGivesUp, TypeInv, TypeOK, Agent
    <2> QED BY <1>4, <2>1, <2>2, <2>3 DEF QueueWorker
<1> QED BY <1>2, <1>3, <1>4
        DEF Next, UploadBatch, EnqueueBacklog, PersistPoint, CacheLoses, Crash, Reliable, vars

\* What leaves the queue is refused or has a row.
LEMMA PlacedNext ==
    ASSUME Reliable, QueueInv, TypeInv, Origins, PlacedInv, [Next]_vars
    PROVE  PlacedInv'
<1> DEFINE Producers == Conn \cup Upload
<1>1. pc'[Worker] # "raised"
    BY NeverRaised DEF PlacedInv
<1>2. SUFFICES ASSUME NEW x \in Sent' PROVE Placed(x)'
    BY <1>1 DEF PlacedInv
<1>3. x \in Sent => Placed(x)
    BY DEF PlacedInv
<1>4. (\E r \in db \cup Pending : r.packet = x) => Placed(x)'
    BY RowsStay DEF Placed
<1>5. CASE UNCHANGED <<queueVars, dumped, lived>>
    BY <1>3, <1>4, <1>5 DEF Placed, Sent, Busy, Q!Waiting, queueVars
<1>6. ASSUME NEW y \in Packet \ Sent, Q!EnqueueLive(y), lived' = lived \cup {y}, UNCHANGED dumped
      PROVE  Placed(x)'
    <2>1. /\ UNCHANGED <<hand, chunk, done>> /\ queue \subseteq queue' /\ refused \subseteq refused'
          /\ y \in refused' \/ Q!AsLive(y) \in queue'
        BY <1>6 DEF Q!EnqueueLive
    <2>2. Placed(y)'
        BY <2>1 DEF Placed, Busy, Q!AsLive
    <2>3. Busy(x) => Busy(x)'
        BY <2>1 DEF Busy, Q!Waiting
    <2>4. x = y \/ x \in Sent
        BY <1>6 DEF Sent
    <2> QED BY <1>3, <1>4, <2>1, <2>2, <2>3, <2>4 DEF Placed
<1>7. ASSUME NEW p \in Producers, NEW S \in SUBSET (Packet \ Sent), Q!Dump(p, S), UNCHANGED lived
      PROVE  Placed(x)'
    <2>1. /\ UNCHANGED <<queue, hand, refused>> /\ chunk[p] = <<>> /\ dumped' = dumped \cup S
          /\ done'[p] = 0 /\ \A q \in Producers \ {p} : done'[q] = done[q]
        BY <1>7 DEF Q!Dump, Q!StartBacklog, QueueInv, Q!TypeOK
    <2>2. PICK s \in Q!SortedChunks(S) : chunk' = [chunk EXCEPT ![p] = s]
        BY <1>7 DEF Q!Dump, Q!StartBacklog
    <2>3. chunk'[p] = s /\ \A q \in Producers \ {p} : chunk'[q] = chunk[q]
        BY <2>2 DEF QueueInv, Q!TypeOK
    <2>4. \A y \in S : \E k \in 1 .. Len(s) : s[k] = y
        <3>1. QP!QueueAssumption
            BY ServerAssumption DEF QP!QueueAssumption, IsFiniteSet, QP!IsFiniteSet
        <3>2. s \in QP!SortedChunks(S)
            BY SameOperators
        <3> QED BY <3>1, <3>2, QP!SortedChunkComplete
    <2>5. S \subseteq Q!Waiting(p)'
        BY <2>1, <2>3, <2>4 DEF Q!Waiting
    <2>6. /\ Q!Waiting(p) = {}
          /\ \A q \in Producers \ {p} : Q!Waiting(q)' = Q!Waiting(q)
        <3>1. Len(chunk[p]) = 0 /\ done[p] \in Nat
            BY <2>1 DEF QueueInv, Q!TypeOK
        <3> QED BY <2>1, <2>3, <3>1 DEF Q!Waiting
    <2>7. Busy(x) => Busy(x)'
        BY <2>1, <2>6 DEF Busy
    <2>8. x \in S => Busy(x)'
        BY <2>5 DEF Busy
    <2>9. x \in S \/ x \in Sent
        BY <1>7, <2>1 DEF Sent
    <2> QED BY <1>3, <1>4, <2>1, <2>7, <2>8, <2>9 DEF Placed
<1>8. ASSUME NEW p \in Producers, Q!BacklogRun(p), UNCHANGED <<dumped, lived>>
      PROVE  Placed(x)'
    <2>1. /\ UNCHANGED <<hand, chunk, refused>>
          /\ queue' = queue \cup {Q!AsBacklog(chunk[p][k]) : k \in done[p]+1 .. Q!RunEnd(p)}
          /\ done'[p] = Q!RunEnd(p) /\ \A q \in Producers \ {p} : done'[q] = done[q]
        BY <1>8 DEF Q!BacklogRun, QueueInv, Q!TypeOK
    <2>2. done[p] \in Nat /\ Q!RunEnd(p) \in Nat /\ done[p] < Q!RunEnd(p)
          /\ Q!RunEnd(p) <= Len(chunk[p]) /\ Len(chunk[p]) \in Nat
        BY <1>8, RunFacts
    <2>3. ASSUME NEW k \in done[p]+1 .. Len(chunk[p]), x = chunk[p][k] PROVE Busy(x)'
        <3>1. CASE k \in done[p]+1 .. Q!RunEnd(p)
            <4>1. Q!AsBacklog(x) \in queue' /\ Q!AsBacklog(x).packet = x
                BY <2>1, <2>3, <3>1 DEF Q!AsBacklog
            <4> QED BY <4>1 DEF Busy
        <3>2. CASE k \in Q!RunEnd(p)+1 .. Len(chunk[p])
            <4>1. x \in Q!Waiting(p)'
                BY <2>1, <2>3, <3>2 DEF Q!Waiting
            <4> QED BY <4>1 DEF Busy
        <3> QED BY <2>2, <3>1, <3>2
    <2>4. \A q \in Producers \ {p} : Q!Waiting(q)' = Q!Waiting(q)
        BY <2>1 DEF Q!Waiting
    <2>5. Busy(x) => Busy(x)'
        BY <2>1, <2>3, <2>4 DEF Busy, Q!Waiting
    <2> QED BY <1>3, <1>4, <1>8, <2>1, <2>5 DEF Placed, Sent
<1>9. ASSUME NEW p \in Producers, Q!BacklogReturn(p), UNCHANGED <<dumped, lived>>
      PROVE  Placed(x)'
    <2>1. /\ UNCHANGED <<queue, hand, refused>> /\ done[p] = Len(chunk[p])
          /\ \A q \in Producers \ {p} : chunk'[q] = chunk[q] /\ done'[q] = done[q]
        BY <1>9 DEF Q!BacklogReturn, QueueInv, Q!TypeOK
    <2>2. /\ Q!Waiting(p) = {}
          /\ \A q \in Producers \ {p} : Q!Waiting(q)' = Q!Waiting(q)
        <3>1. Len(chunk[p]) \in Nat
            BY DEF QueueInv, Q!TypeOK
        <3> QED BY <2>1, <3>1 DEF Q!Waiting
    <2>3. Busy(x) => Busy(x)'
        BY <2>1, <2>2 DEF Busy
    <2> QED BY <1>3, <1>4, <1>9, <2>1, <2>3 DEF Placed, Sent
<1>10. CASE WorkerTake
    <2>1. /\ queue \cup hand \subseteq queue' \cup hand'
          /\ UNCHANGED <<chunk, done, refused, dumped, lived>>
        BY <1>10 DEF WorkerTake, Q!GetNextItem, Q!Foremost
    <2>2. Busy(x) => Busy(x)'
        BY <2>1 DEF Busy, Q!Waiting
    <2> QED BY <1>3, <1>4, <2>1, <2>2 DEF Placed, Sent
<1>11. CASE WorkerStore
    <2>1. /\ hand # {} /\ persists' = Append(persists, Point)
          /\ UNCHANGED <<queue, chunk, done, refused, dumped, lived>>
        BY <1>11 DEF WorkerStore, Q!TaskDone
    <2>2. \A i \in hand : i.packet = HeldPacket
        BY <2>1 DEF HeldPacket, Origins
    <2>3. PICK point : point = Point
        OBVIOUS
    <2>4. point.packet = HeldPacket
        BY <2>3 DEF Point
    <2>5. point \in Pending'
        <3>1. /\ Len(persists) \in Nat /\ Len(persists') = Len(persists) + 1
              /\ persists'[Len(persists) + 1] = point
            BY <2>1, <2>3 DEF TypeInv, TypeOK
        <3>2. Len(persists) + 1 \in 1 .. Len(persists')
            BY <3>1
        <3> QED BY <3>1, <3>2 DEF Pending
    <2>6. Busy(x) => Busy(x)' \/ point.packet = x
        BY <2>1, <2>2, <2>4 DEF Busy, Q!Waiting
    <2> QED BY <1>3, <1>4, <2>1, <2>5, <2>6 DEF Placed, Sent
<1>12. ~ WorkerGivesUp /\ ~ Crash
    BY DEF WorkerGivesUp, Crash, Reliable, PlacedInv
<1> QED BY <1>5, <1>6, <1>7, <1>8, <1>9, <1>10, <1>11, <1>12, QueueSteps

\* While the process runs, writes succeed and packets can be processed, every
\* packet a client has sent is queued, refused, being fused or in a row,
\* whatever connections, uploads, worker and cache do in between.
THEOREM NothingGetsLost == Reliable => (Spec => []NothingLost)
<1> SUFFICES ASSUME Reliable PROVE Spec => []NothingLost
    OBVIOUS
<1>1. Init => PlacedInv
    BY DEF Init, PlacedInv, Sent, Agent
<1>2. RowInv => Origins
    BY DEF RowInv
<1>3. Spec => []PlacedInv
    BY <1>1, <1>2, RowInvHolds, PlacedNext, QueueInvHolds, TypeInvHolds, PTL DEF Spec
<1>4. PlacedInv => NothingLost
    <2> SUFFICES ASSUME PlacedInv, NEW p \in Sent
                 PROVE  \/ \E q \in Conn \cup Upload :
                              \E k \in done[q]+1 .. Len(chunk[q]) : chunk[q][k] = p
                        \/ \E i \in queue \cup hand : i.packet = p
                        \/ p \in refused
                        \/ \E k \in 1 .. Len(persists) : persists[k].packet = p
                        \/ \E r \in db : r.packet = p
        BY DEF NothingLost
    <2>1. Placed(p)
        BY DEF PlacedInv
    <2> QED BY <2>1 DEF Placed, Busy, Q!Waiting, Pending
<1> QED BY <1>3, <1>4, PTL
=============================================================================
