------------------------- MODULE CacheManagerProofs -------------------------
(***************************************************************************)
(* Proofs about CacheManager for any keys, callers, TTL and bounds: what a *)
(* get returns is neither stale nor expired, whatever Redis does.          *)
(***************************************************************************)
EXTENDS CacheManager, TLAPS

\* The entry is at least as new as the set that returned, and lasts as long.
Reaches(entry, floor) ==
    /\ entry # None
    /\ entry.value >= floor.value
    /\ entry.expires_at >= floor.expires_at

\* A set that went to Redis is still there, or a newer one is. The memory
\* store may have dropped it, but only after it had expired.
Covered(k, floor) ==
    \/ floor.source = "redis" /\ Reaches(redis[k], floor)
    \/ floor.source = "memory" /\ (Reaches(memory[k], floor) \/ now > floor.expires_at)

\* What the caller of set saw return, and what a get began with, is covered.
FloorsCovered ==
    /\ \A k \in Key : kept[k] # None => Covered(k, kept[k])
    /\ \A c \in Caller : Waits(c, "get") /\ call[c].floor # None
                            => Covered(call[c].key, call[c].floor)

\* A stored entry is no newer than the last set, and was stamped while its
\* set was at work.
Dated(k, entry) ==
    entry # None =>
        /\ entry.value <= written[k]
        /\ entry.expires_at <= ended[k][entry.value] + Ttl

StoresDated ==
    /\ \A k \in Key : Dated(k, redis[k]) /\ Dated(k, memory[k])
    /\ \A k \in Key : \A v \in Version : ended[k][v] <= now

\* The set under way is the last one begun, and once Redis has executed it,
\* its entry is the one that Redis holds.
SetUnderWay ==
    Waits(Writer, "set") =>
        LET set == call[Writer]
        IN  /\ set.value = written[set.key]
            /\ set.expires_at # None
                  => redis[set.key] = [value |-> set.value, expires_at |-> set.expires_at]

CacheInv ==
    /\ FloorsCovered
    /\ StoresDated
    /\ SetUnderWay
    /\ ReadsLatest
    /\ RespectsTtl

-----------------------------------------------------------------------------

\* The shape of the state: what connect, get, set, their fallbacks and the
\* outages leave in the two stores and in the calls under way.
THEOREM CacheTypes == Spec => []TypeOK
<1>1. Init => TypeOK
    <2> SUFFICES ASSUME Init PROVE TypeOK
        OBVIOUS
    <2>1. now \in Time /\ 0 \in Time /\ 0 \in 0 .. MaxVersion
        BY CacheAssumption DEF Init, Time
    <2>2. /\ written \in [Key -> 0 .. MaxVersion]
          /\ ended \in [Key -> [Version -> Time]]
        BY <2>1 DEF Init
    <2>3. \A c \in Caller : ~Waits(c, "set")
        BY DEF Init, Waits
    <2> QED BY <2>1, <2>2, <2>3 DEF Init, TypeOK
<1>2. TypeOK /\ [Next]_vars => TypeOK'
    <2> SUFFICES ASSUME TypeOK, [Next]_vars PROVE TypeOK'
        OBVIOUS
    <2> USE CacheAssumption
    <2>1. CASE Connect
        BY <2>1 DEF TypeOK, Connect, Waits
    <2>20. now + Ttl \in Nat /\ now \in Time
        BY DEF TypeOK, Time
    <2>21. \A k \in Key : ValueOf(memory[k]) \in Version \cup {None}
        BY DEF TypeOK, ValueOf, Alive, Entry
    <2>2. ASSUME NEW c \in Caller, NEW k \in Key, NEW floor \in Kept \cup {None},
                 MemoryGet(c, k, floor)
          PROVE  /\ memory' \in [Key -> Entry \cup {None}]
                 /\ result' \in Result
                 /\ call' \in [Caller -> Fetch \cup Push \cup {None}]
                 /\ \A d \in Caller : Waits(d, "set")' => d = Writer
        <3>1. result' \in Result
            BY <2>2, <2>20, <2>21 DEF MemoryGet, Returns, Result
        <3>2. memory' \in [Key -> Entry \cup {None}]
            BY <2>2 DEF MemoryGet, TypeOK
        <3>3. call' = [call EXCEPT ![c] = None]
            BY <2>2 DEF MemoryGet, Returns
        <3>4. /\ call' \in [Caller -> Fetch \cup Push \cup {None}]
              /\ \A d \in Caller : Waits(d, "set")' => d = Writer
            BY <3>3 DEF TypeOK, Waits
        <3> QED BY <3>1, <3>2, <3>4
    <2>3. ASSUME NEW c \in Caller, NEW k \in Key, Get(c, k)
          PROVE  TypeOK'
        <3>0. kept[k] \in Kept \cup {None}
            BY DEF TypeOK
        <3>1. CASE is_redis_connected
            <4>1. [op |-> "get", key |-> k, floor |-> kept[k]] \in Fetch
                BY <3>0 DEF Fetch
            <4>2. call' = [call EXCEPT ![c] = [op |-> "get", key |-> k, floor |-> kept[k]]]
                BY <2>3, <3>1 DEF Get
            <4>3. call' \in [Caller -> Fetch \cup Push \cup {None}]
                BY <4>1, <4>2 DEF TypeOK
            <4>4. \A d \in Caller : Waits(d, "set")' => d = Writer
                BY <4>2 DEF TypeOK, Waits
            <4> QED BY <2>3, <3>1, <4>3, <4>4 DEF Get, TypeOK
        <3>2. CASE ~is_redis_connected
            <4>1. MemoryGet(c, k, kept[k])
                BY <2>3, <3>2 DEF Get
            <4> QED BY <2>3, <3>0, <4>1, <2>2 DEF Get, TypeOK
        <3> QED BY <3>1, <3>2
    <2>4. ASSUME NEW c \in Caller, Waits(c, "get")
          PROVE  call[c] \in Fetch /\ call[c].key \in Key /\ call[c].floor \in Kept \cup {None}
        BY <2>4 DEF Waits, TypeOK, Fetch, Push
    <2>5. ASSUME NEW c \in Caller, GetAnswered(c)
          PROVE  TypeOK'
        <3> DEFINE k == call[c].key
        <3>1. k \in Key /\ call[c].floor \in Kept \cup {None}
            BY <2>5, <2>4 DEF GetAnswered
        <3>2. ValueOf(redis[k]) \in Version \cup {None}
            BY <3>1 DEF TypeOK, ValueOf, Alive, Entry
        <3>3. result' \in Result
            BY <2>5, <3>1, <3>2, <2>20 DEF GetAnswered, Returns, Result
        <3> QED BY <2>5, <3>3 DEF GetAnswered, Returns, TypeOK, Waits
    <2>6. ASSUME NEW c \in Caller, GetRaises(c)
          PROVE  TypeOK'
        BY <2>6, <2>4, <2>2 DEF GetRaises, TypeOK
    <2>7. Writer \in Caller
        OBVIOUS
    <2>8. Waits(Writer, "set") =>
             /\ call[Writer] \in Push /\ call[Writer].op = "set"
             /\ call[Writer].key \in Key /\ call[Writer].value \in Version
             /\ call[Writer].expires_at \in Nat \cup {None}
        BY <2>7 DEF Waits, TypeOK, Fetch, Push
    <2>9. ASSUME NEW k \in Key, NEW entry \in Entry, NEW source \in {"redis", "memory"},
                 Settles(k, entry, source)
          PROVE  /\ kept' \in [Key -> Kept \cup {None}]
                 /\ ended' \in [Key -> [Version -> Time]]
                 /\ call' \in [Caller -> Fetch \cup Push \cup {None}]
                 /\ \A d \in Caller : Waits(d, "set")' => d = Writer
        <3>1. [value |-> entry.value, expires_at |-> entry.expires_at, source |-> source] \in Kept
            BY DEF Entry, Kept
        <3>2. entry.value \in Version
            BY DEF Entry
        <3>3. ended' \in [Key -> [Version -> Time]]
            BY <2>9, <2>20, <3>2 DEF Settles, TypeOK
        <3>4. kept' \in [Key -> Kept \cup {None}]
            BY <2>9, <3>1 DEF Settles, TypeOK
        <3> QED BY <2>9, <3>3, <3>4 DEF Settles, TypeOK, Waits
    <2>10. ASSUME NEW k \in Key, NEW v \in Version, MemorySet(k, v)
           PROVE  /\ memory' \in [Key -> Entry \cup {None}]
                  /\ kept' \in [Key -> Kept \cup {None}]
                  /\ ended' \in [Key -> [Version -> Time]]
                  /\ call' \in [Caller -> Fetch \cup Push \cup {None}]
                  /\ \A d \in Caller : Waits(d, "set")' => d = Writer
        <3>1. Stamped(v) \in Entry
            BY <2>20 DEF Stamped, Entry
        <3> QED BY <2>10, <3>1, <2>9 DEF MemorySet, TypeOK
    <2>11. ASSUME NEW k \in Key, Set(k)
           PROVE  TypeOK'
        <3>1. written' \in [Key -> 0 .. MaxVersion] /\ written'[k] \in Version
            BY <2>11 DEF Set, TypeOK, Version
        <3>2. CASE is_redis_connected
            <4>1. [op |-> "set", key |-> k, value |-> written'[k], expires_at |-> None] \in Push
                BY <3>1 DEF Push
            <4> QED BY <2>11, <3>1, <3>2, <4>1 DEF Set, TypeOK, Waits
        <3>3. CASE ~is_redis_connected
            <4>1. MemorySet(k, written'[k])
                BY <2>11, <3>3 DEF Set
            <4> QED BY <2>11, <3>1, <4>1, <2>10 DEF Set, TypeOK
        <3> QED BY <3>2, <3>3
    <2>12. CASE SetApplied
        <3> DEFINE k == call[Writer].key
                   e == Stamped(call[Writer].value)
        <3>1. Waits(Writer, "set")
            BY <2>12 DEF SetApplied
        <3>2. e \in Entry /\ e.value \in Version /\ e.expires_at \in Nat
            BY <3>1, <2>8, <2>20 DEF Stamped, Entry
        <3>3. redis' \in [Key -> Entry \cup {None}]
            BY <2>12, <3>2 DEF SetApplied, TypeOK
        <3>4. ended' \in [Key -> [Version -> Time]]
            BY <2>12, <3>2, <2>20 DEF SetApplied, TypeOK
        <3>5. [call[Writer] EXCEPT !.expires_at = e.expires_at] \in Push
            BY <3>1, <3>2, <2>8 DEF Push
        <3>6. call' = [call EXCEPT ![Writer] = [call[Writer] EXCEPT !.expires_at = e.expires_at]]
            BY <2>12 DEF SetApplied
        <3>7. call' \in [Caller -> Fetch \cup Push \cup {None}]
            BY <3>5, <3>6 DEF TypeOK
        <3>8. \A d \in Caller : Waits(d, "set")' => d = Writer
            BY <3>6 DEF TypeOK, Waits
        <3> QED BY <2>12, <3>3, <3>4, <3>7, <3>8 DEF SetApplied, TypeOK
    <2>13. CASE SetAnswered
        <3> DEFINE e == [value |-> call[Writer].value, expires_at |-> call[Writer].expires_at]
        <3>1. e \in Entry /\ call[Writer].key \in Key
            BY <2>13, <2>8 DEF SetAnswered, Entry
        <3>2. Settles(call[Writer].key, e, "redis")
            BY <2>13 DEF SetAnswered
        <3> QED BY <2>13, <3>1, <3>2, <2>9 DEF SetAnswered, TypeOK
    <2>14. CASE SetRaises
        BY <2>14, <2>8, <2>10 DEF SetRaises, TypeOK
    <2>15. CASE RedisFails
        BY <2>15 DEF RedisFails, TypeOK, Waits
    <2>16. CASE RedisReturns
        <3>1. [k \in Key |-> Forget(k)] \in [Key -> Kept \cup {None}]
            BY DEF Forget, TypeOK
        <3> QED BY <2>16, <3>1 DEF RedisReturns, TypeOK, Waits
    <2>17. CASE Restart
        BY <2>17 DEF Restart, TypeOK, Waits
    <2>18. CASE Tick
        BY <2>18 DEF Tick, TypeOK, Waits, Time
    <2>19. CASE UNCHANGED vars
        BY <2>19 DEF vars, TypeOK, Waits
    <2> QED BY <2>1, <2>3, <2>5, <2>6, <2>11, <2>12, <2>13, <2>14, <2>15, <2>16, <2>17,
               <2>18, <2>19 DEF Next, Progress
<1> QED BY <1>1, <1>2, PTL DEF Spec

-----------------------------------------------------------------------------
\* The values the steps below work with are of their types.
LEMMA StoreTypes ==
    ASSUME TypeOK
    PROVE  /\ now \in Nat /\ Ttl \in Nat
           /\ \A k \in Key : written[k] \in Nat
           /\ \A k \in Key : redis[k] \in Entry \cup {None} /\ memory[k] \in Entry \cup {None}
           /\ \A k \in Key : kept[k] \in Kept \cup {None}
           /\ \A k \in Key : \A v \in Version : ended[k][v] \in Nat
           /\ \A c \in Caller : Waits(c, "get") =>
                 call[c].key \in Key /\ call[c].floor \in Kept \cup {None}
           /\ Waits(Writer, "set") =>
                 /\ call[Writer].key \in Key /\ call[Writer].value \in Version
                 /\ call[Writer].expires_at \in Nat \cup {None}
BY CacheAssumption DEF TypeOK, Waits, Time, Fetch, Push, Version

LEMMA EntryTypes ==
    /\ \A e \in Entry : e.value \in Version /\ e.value \in Nat /\ e.expires_at \in Nat /\ e # None
    /\ \A f \in Kept : f.value \in Nat /\ f.expires_at \in Nat /\ f.source \in {"redis", "memory"}
BY CacheAssumption, NoneAssumption DEF Entry, Kept, Version

\* What set() stores now is no older than, and outlives, what it replaces.
LEMMA StampReaches ==
    ASSUME TypeOK, StoresDated, NEW k \in Key, NEW v \in Version, v >= written[k],
           NEW entry \in Entry \cup {None}, Dated(k, entry),
           NEW floor \in Kept, Reaches(entry, floor)
    PROVE  Reaches(Stamped(v), floor)
<1>1. /\ entry \in Entry /\ entry.value \in Version
      /\ entry.value <= written[k]
      /\ entry.expires_at <= ended[k][entry.value] + Ttl
    BY EntryTypes DEF Reaches, Dated
<1>2. ended[k][entry.value] <= now
    BY <1>1 DEF StoresDated
<1>3. Stamped(v) \in Entry /\ Stamped(v).value = v /\ Stamped(v).expires_at = now + Ttl
    BY StoreTypes DEF Stamped, Entry
<1>4. /\ v \in Nat /\ written[k] \in Nat /\ now \in Nat /\ Ttl \in Nat
      /\ entry.value \in Nat /\ entry.expires_at \in Nat /\ ended[k][entry.value] \in Nat
      /\ floor.value \in Nat /\ floor.expires_at \in Nat
    BY <1>1, StoreTypes, EntryTypes, CacheAssumption DEF Version
<1>5. v >= floor.value /\ now + Ttl >= floor.expires_at
    BY <1>1, <1>2, <1>4 DEF Reaches
<1> QED BY <1>3, <1>5, EntryTypes DEF Reaches

\* The memory store drops an item only after what it covered has expired.
LEMMA MemoryGetCovers ==
    ASSUME TypeOK, NEW c, NEW k \in Key, NEW floor, MemoryGet(c, k, floor),
           redis' = redis, now' = now,
           NEW j \in Key, NEW f \in Kept, Covered(j, f)
    PROVE  Covered(j, f)'
<1>1. CASE f.source = "redis"
    BY <1>1 DEF Covered, Reaches
<1>2. CASE f.source = "memory"
    <2>1. CASE now > f.expires_at
        BY <1>2, <2>1 DEF Covered
    <2>2. CASE Reaches(memory[j], f)
        <3>1. CASE memory'[j] = memory[j]
            BY <1>2, <2>2, <3>1 DEF Covered, Reaches
        <3>2. CASE memory'[j] # memory[j]
            <4>1. j = k /\ ~Alive(memory[k])
                BY <3>2 DEF MemoryGet, TypeOK
            <4>2. memory[j] \in Entry /\ ~(now <= memory[j].expires_at)
                BY <4>1, <2>2, StoreTypes DEF Alive, Reaches
            <4>3. now > f.expires_at
                BY <4>2, <2>2, StoreTypes, EntryTypes DEF Reaches
            <4> QED BY <1>2, <4>3 DEF Covered
        <3> QED BY <3>1, <3>2
    <2> QED BY <1>2, <2>1, <2>2 DEF Covered
<1> QED BY <1>1, <1>2, EntryTypes

\* What a get returns from a store that covers its floor: not older, not expired.
LEMMA ReturnedIsFresh ==
    ASSUME TypeOK, StoresDated, NEW c \in Caller, NEW k \in Key, NEW floor \in Kept \cup {None},
           NEW entry \in Entry \cup {None}, Dated(k, entry),
           NEW source \in {"redis", "memory"},
           Returns(c, k, floor, source, ValueOf(entry)),
           floor # None /\ source = floor.source
               => Reaches(entry, floor) \/ now > floor.expires_at
    PROVE  /\ ReadsLatest'
           /\ \/ result'.value = None
              \/ /\ result'.value \in Version
                 /\ result'.at <= ended[result'.key][result'.value] + Ttl
<1>1. /\ result'.value = ValueOf(entry) /\ result'.floor = floor
      /\ result'.source = source /\ result'.at = now /\ result'.key = k
    BY DEF Returns
<1>2. ReadsLatest'
    <2> SUFFICES ASSUME floor # None, source = floor.source, now <= floor.expires_at
                 PROVE  ValueOf(entry) # None /\ ValueOf(entry) >= floor.value
        BY <1>1 DEF ReadsLatest
    <2>1. now \in Nat /\ floor.expires_at \in Nat
        BY StoreTypes, EntryTypes
    <2>2. Reaches(entry, floor)
        BY <2>1
    <2>3. entry \in Entry /\ now <= entry.expires_at
        BY <2>1, <2>2, EntryTypes DEF Reaches
    <2>4. ValueOf(entry) = entry.value
        BY <2>2, <2>3 DEF ValueOf, Alive, Reaches
    <2> QED BY <2>2, <2>3, <2>4, EntryTypes, CacheAssumption DEF Reaches
<1>3. CASE Alive(entry)
    <2>1. entry \in Entry /\ now <= entry.expires_at /\ ValueOf(entry) = entry.value
        BY <1>3 DEF Alive, ValueOf
    <2>2. entry.expires_at <= ended[k][entry.value] + Ttl
        BY <1>3 DEF Dated, Alive
    <2>3. now <= ended[k][entry.value] + Ttl
        BY <2>1, <2>2, StoreTypes, EntryTypes
    <2> QED BY <1>1, <1>2, <2>1, <2>3, EntryTypes
<1>4. CASE ~Alive(entry)
    BY <1>1, <1>2, <1>4 DEF ValueOf
<1> QED BY <1>3, <1>4

-----------------------------------------------------------------------------
\* A get that the memory store answers.
LEMMA MemoryGetStep ==
    ASSUME TypeOK, TypeOK', CacheInv,
           NEW c \in Caller, NEW k \in Key, NEW floor \in Kept \cup {None},
           floor # None => Covered(k, floor),
           MemoryGet(c, k, floor),
           UNCHANGED <<redis, now, written, kept, ended>>
    PROVE  CacheInv'
<1>1. \A j \in Key : \A f \in Kept : Covered(j, f) => Covered(j, f)'
    BY MemoryGetCovers
<1>2. call' = [call EXCEPT ![c] = None]
    BY DEF MemoryGet, Returns
<1>3. FloorsCovered'
    <2>1. ASSUME NEW j \in Key, kept'[j] # None
          PROVE  Covered(j, kept[j])'
        <3>1. kept[j] \in Kept /\ Covered(j, kept[j])
            BY <2>1, StoreTypes DEF CacheInv, FloorsCovered
        <3> QED BY <3>1, <1>1
    <2>2. ASSUME NEW d \in Caller, Waits(d, "get")', call'[d].floor # None
          PROVE  Covered(call[d].key, call[d].floor)'
        <3>1. call'[d] = call[d]
            BY <1>2, <2>2 DEF Waits, TypeOK
        <3>2. Waits(d, "get") /\ call[d].floor # None
            BY <3>1, <2>2 DEF Waits
        <3>3. /\ call[d].key \in Key /\ call[d].floor \in Kept
              /\ Covered(call[d].key, call[d].floor)
            BY <3>2, StoreTypes DEF CacheInv, FloorsCovered
        <3> QED BY <3>1, <3>3, <1>1 DEF Covered, Reaches
    <2> QED BY <2>1, <2>2 DEF FloorsCovered, Covered
<1>4. StoresDated'
    <2>1. \A j \in Key : memory'[j] = memory[j] \/ memory'[j] = None
        BY DEF MemoryGet, TypeOK
    <2> QED BY <2>1 DEF CacheInv, StoresDated, Dated
<1>5. SetUnderWay'
    <2>1. Waits(Writer, "set")' => call'[Writer] = call[Writer]
        BY <1>2, CacheAssumption DEF Waits, TypeOK
    <2> QED BY <2>1 DEF CacheInv, SetUnderWay, Waits
<1>6. ReadsLatest' /\ RespectsTtl'
    <2>1. Returns(c, k, floor, "memory", ValueOf(memory[k]))
        BY DEF MemoryGet
    <2>2. floor # None /\ "memory" = floor.source
             => Reaches(memory[k], floor) \/ now > floor.expires_at
        BY DEF Covered
    <2>3. memory[k] \in Entry \cup {None} /\ Dated(k, memory[k]) /\ StoresDated
        BY StoreTypes DEF CacheInv, StoresDated
    <2>4. ReadsLatest' /\ (\/ result'.value = None
                           \/ result'.at <= ended[result'.key][result'.value] + Ttl)
        BY <2>1, <2>2, <2>3, ReturnedIsFresh
    <2> QED BY <2>4 DEF RespectsTtl
<1> QED BY <1>3, <1>4, <1>5, <1>6 DEF CacheInv

\* A set at work only moves the dates of its version forward: what was stamped
\* or returned before is still within them.
LEMMA DatesAdvance ==
    ASSUME TypeOK, TypeOK', CacheInv, UNCHANGED result,
           \A k \in Key : written[k] <= written'[k],
           \A k \in Key : \A v \in Version : ended[k][v] <= ended'[k][v]
    PROVE  /\ RespectsTtl'
           /\ \A k \in Key : \A e \in Entry \cup {None} : Dated(k, e) => Dated(k, e)'
<1>1. ASSUME NEW j \in Key, NEW e \in Entry \cup {None}, Dated(j, e)
      PROVE  Dated(j, e)'
    <2>1. SUFFICES ASSUME e # None
                   PROVE  /\ e.value <= written'[j]
                          /\ e.expires_at <= ended'[j][e.value] + Ttl
        BY DEF Dated
    <2>2. /\ e \in Entry /\ e.value \in Version /\ e.value \in Nat /\ e.expires_at \in Nat
          /\ e.value <= written[j] /\ e.expires_at <= ended[j][e.value] + Ttl
        BY <1>1, <2>1, EntryTypes DEF Dated
    <2>3. /\ written[j] \in Nat /\ written'[j] \in Nat /\ Ttl \in Nat
          /\ ended[j][e.value] \in Nat /\ ended'[j][e.value] \in Nat
        BY <2>2, StoreTypes, CacheAssumption DEF TypeOK, Time
    <2> QED BY <2>2, <2>3
<1>2. RespectsTtl'
    <2> SUFFICES ASSUME result # None, result.value # None
                 PROVE  result.at <= ended'[result.key][result.value] + Ttl
        BY DEF RespectsTtl
    <2>1. result.key \in Key /\ result.value \in Version /\ result.at \in Nat
        BY CacheAssumption DEF TypeOK, Result, Time
    <2>2. result.at <= ended[result.key][result.value] + Ttl
        BY DEF CacheInv, RespectsTtl
    <2>3. ended[result.key][result.value] \in Nat /\ ended'[result.key][result.value] \in Nat
        BY <2>1, StoreTypes, CacheAssumption DEF TypeOK, Time
    <2> QED BY <2>1, <2>2, <2>3, StoreTypes
<1> QED BY <1>1, <1>2

\* A set that the memory store takes.
LEMMA MemorySetStep ==
    ASSUME TypeOK, TypeOK', CacheInv,
           NEW k \in Key, NEW v \in Version, v >= written[k], v <= written'[k],
           \A j \in Key : written[j] <= written'[j],
           MemorySet(k, v),
           UNCHANGED <<redis, now, result>>
    PROVE  CacheInv'
<1> USE EntryTypes
<1>1. /\ memory' = [memory EXCEPT ![k] = Stamped(v)]
      /\ ended' = [ended EXCEPT ![k][v] = now]
      /\ call' = [call EXCEPT ![Writer] = None]
      /\ kept' = [kept EXCEPT ![k] = [value |-> v, expires_at |-> now + Ttl,
                                      source |-> "memory"]]
    BY DEF MemorySet, Settles, Stamped
<1>2. Stamped(v) \in Entry /\ Stamped(v).value = v /\ Stamped(v).expires_at = now + Ttl
    BY StoreTypes DEF Stamped, Entry
<1>3. ASSUME NEW j \in Key, NEW f \in Kept, Covered(j, f)
      PROVE  Covered(j, f)'
    <2>1. CASE f.source = "redis" \/ j # k
        BY <1>1, <1>3, <2>1 DEF Covered, Reaches, TypeOK
    <2>2. CASE f.source = "memory" /\ j = k /\ Reaches(memory[j], f)
        <3>1. Reaches(Stamped(v), f)
            BY <2>2, StampReaches, StoreTypes DEF CacheInv, StoresDated
        <3>2. memory'[j] = Stamped(v)
            BY <1>1, <2>2 DEF TypeOK
        <3> QED BY <2>2, <3>1, <3>2 DEF Covered, Reaches
    <2>3. CASE f.source = "memory" /\ now > f.expires_at
        BY <2>3 DEF Covered
    <2> QED BY <1>3, <2>1, <2>2, <2>3 DEF Covered
<1>4. FloorsCovered'
    <2>1. ASSUME NEW j \in Key, kept'[j] # None
          PROVE  Covered(j, kept[j])'
        <3>1. CASE j = k
            <4>1. kept'[j].value = v /\ kept'[j].expires_at = now + Ttl /\ kept'[j].source = "memory"
                BY <1>1, <3>1 DEF TypeOK
            <4>2. memory'[j] = Stamped(v)
                BY <1>1, <3>1 DEF TypeOK
            <4>3. v \in Nat /\ now + Ttl \in Nat
                BY <1>2
            <4> QED BY <4>1, <4>2, <4>3, <1>2 DEF Covered, Reaches
        <3>2. CASE j # k
            <4>1. kept'[j] = kept[j]
                BY <1>1, <3>2 DEF TypeOK
            <4>2. kept[j] \in Kept /\ Covered(j, kept[j])
                BY <2>1, <4>1, StoreTypes DEF CacheInv, FloorsCovered
            <4> QED BY <4>1, <4>2, <1>3 DEF Covered, Reaches
        <3> QED BY <3>1, <3>2
    <2>2. ASSUME NEW d \in Caller, Waits(d, "get")', call'[d].floor # None
          PROVE  Covered(call[d].key, call[d].floor)'
        <3>1. call'[d] = call[d]
            BY <1>1, <2>2 DEF Waits, TypeOK
        <3>2. Waits(d, "get") /\ call[d].floor # None
            BY <3>1, <2>2 DEF Waits
        <3>3. /\ call[d].key \in Key /\ call[d].floor \in Kept
              /\ Covered(call[d].key, call[d].floor)
            BY <3>2, StoreTypes DEF CacheInv, FloorsCovered
        <3> QED BY <3>1, <3>3, <1>3 DEF Covered, Reaches
    <2> QED BY <2>1, <2>2 DEF FloorsCovered, Covered, Reaches
<1>5. ASSUME NEW j \in Key, NEW u \in Version
      PROVE  ended'[j][u] = (IF j = k /\ u = v THEN now ELSE ended[j][u])
    BY <1>1 DEF TypeOK
<1>6. ASSUME NEW j \in Key, NEW u \in Version
      PROVE  /\ ended'[j][u] <= now'
             /\ ended[j][u] <= ended'[j][u]
    BY <1>5, StoreTypes DEF CacheInv, StoresDated
<1>7. /\ RespectsTtl'
      /\ \A j \in Key : \A e \in Entry \cup {None} : Dated(j, e) => Dated(j, e)'
    BY <1>6, DatesAdvance
<1>8. StoresDated'
    <2>1. ASSUME NEW j \in Key PROVE Dated(j, redis[j])'
        BY <1>7, StoreTypes DEF CacheInv, StoresDated, Dated
    <2>2. ASSUME NEW j \in Key PROVE Dated(j, memory[j])'
        <3>1. CASE j # k
            <4>1. memory'[j] = memory[j]
                BY <1>1, <3>1 DEF TypeOK
            <4>2. Dated(j, memory[j]) /\ memory[j] \in Entry \cup {None}
                BY StoreTypes DEF CacheInv, StoresDated
            <4> QED BY <4>1, <4>2, <1>7 DEF Dated
        <3>2. CASE j = k
            <4>1. memory'[j] = Stamped(v) /\ ended'[j][v] = now
                BY <1>1, <1>5, <3>2 DEF TypeOK
            <4> QED BY <4>1, <1>2, <3>2, StoreTypes DEF Dated
        <3> QED BY <3>1, <3>2
    <2> QED BY <2>1, <2>2, <1>6 DEF StoresDated, Dated
<1>9. SetUnderWay'
    BY <1>1, CacheAssumption DEF SetUnderWay, Waits, TypeOK
<1>10. ReadsLatest'
    BY DEF ReadsLatest, CacheInv
<1> QED BY <1>4, <1>7, <1>8, <1>9, <1>10 DEF CacheInv

\* A step that leaves the stores, the clock and the floors as they are, and at
\* most ends calls or begins one that fits.
LEMMA CallStep ==
    ASSUME TypeOK, TypeOK', CacheInv,
           UNCHANGED <<redis, memory, now, kept, ended, written, result>>,
           \A c \in Caller : \/ call'[c] = call[c]
                             \/ call'[c] = None
                             \/ /\ Waits(c, "get")'
                                /\ call'[c].floor = kept[call'[c].key]
                                /\ call'[c].key \in Key
    PROVE  CacheInv'
<1>1. FloorsCovered'
    <2>1. ASSUME NEW c \in Caller, Waits(c, "get")', call'[c].floor # None
          PROVE  Covered(call[c].key, call[c].floor)'
        <3>1. CASE call'[c] = call[c]
            BY <2>1, <3>1 DEF CacheInv, FloorsCovered, Waits, Covered, Reaches
        <3>2. CASE call'[c].floor = kept[call'[c].key] /\ call'[c].key \in Key
            BY <2>1, <3>2 DEF CacheInv, FloorsCovered, Covered, Reaches
        <3> QED BY <2>1, <3>1, <3>2 DEF Waits
    <2> QED BY <2>1 DEF CacheInv, FloorsCovered, Covered, Reaches
<1>2. SetUnderWay'
    BY CacheAssumption DEF CacheInv, SetUnderWay, Waits
<1> QED BY <1>1, <1>2 DEF CacheInv, StoresDated, Dated, ReadsLatest, RespectsTtl

\* Redis executes SET with EX: what it holds is never older than before.
LEMMA SetAppliedStep ==
    ASSUME TypeOK, TypeOK', CacheInv, SetApplied
    PROVE  CacheInv'
<1> DEFINE k == call[Writer].key
           v == call[Writer].value
<1>1. k \in Key /\ v \in Version /\ v = written[k] /\ call[Writer].expires_at = None
    BY StoreTypes DEF SetApplied, CacheInv, SetUnderWay
<1>2. /\ Stamped(v) \in Entry /\ Stamped(v) # None
      /\ Stamped(v).value = v /\ Stamped(v).expires_at = now + Ttl
    BY <1>1, StoreTypes, EntryTypes DEF Stamped, Entry
<1>3. /\ redis' = [redis EXCEPT ![k] = Stamped(v)]
      /\ ended' = [ended EXCEPT ![k][v] = now]
      /\ call' = [call EXCEPT ![Writer] = [call[Writer] EXCEPT !.expires_at = now + Ttl]]
      /\ UNCHANGED <<memory, now, written, kept, result>>
    BY <1>2 DEF SetApplied
<1>4. redis'[k] = Stamped(v)
    BY <1>1, <1>3 DEF TypeOK
<1> HIDE DEF k, v
<1>5. ASSUME NEW j \in Key, NEW f \in Kept, Covered(j, f)
      PROVE  Covered(j, f)'
    <2>1. CASE f.source = "memory" \/ j # k
        BY <1>3, <1>5, <2>1 DEF Covered, Reaches, TypeOK
    <2>2. CASE f.source = "redis" /\ j = k
        <3>1. Reaches(redis[k], f)
            BY <1>5, <2>2 DEF Covered
        <3>2. v >= written[k]
            BY <1>1, StoreTypes
        <3>3. Reaches(Stamped(v), f)
            BY <1>1, <3>1, <3>2, StampReaches, StoreTypes DEF CacheInv, StoresDated
        <3> QED BY <2>2, <3>3, <1>4 DEF Covered, Reaches
    <2> QED BY <2>1, <2>2, EntryTypes
<1>6. FloorsCovered'
    <2>1. ASSUME NEW j \in Key, kept'[j] # None
          PROVE  Covered(j, kept[j])'
        <3>1. kept[j] \in Kept /\ Covered(j, kept[j]) /\ kept'[j] = kept[j]
            BY <1>3, <2>1, StoreTypes DEF CacheInv, FloorsCovered
        <3> QED BY <3>1, <1>5 DEF Covered, Reaches
    <2>2. ASSUME NEW d \in Caller, Waits(d, "get")', call'[d].floor # None
          PROVE  Covered(call[d].key, call[d].floor)'
        <3>1. d # Writer
            BY <1>3, <2>2, StoreTypes DEF SetApplied, Waits, TypeOK, Push, Fetch
        <3>2. call'[d] = call[d]
            BY <1>3, <3>1 DEF TypeOK
        <3>3. Waits(d, "get") /\ call[d].floor # None
            BY <3>2, <2>2 DEF Waits
        <3>4. /\ call[d].key \in Key /\ call[d].floor \in Kept
              /\ Covered(call[d].key, call[d].floor)
            BY <3>3, StoreTypes DEF CacheInv, FloorsCovered
        <3> QED BY <3>2, <3>4, <1>5 DEF Covered, Reaches
    <2> QED BY <2>1, <2>2 DEF FloorsCovered
<1>7. ASSUME NEW j \in Key, NEW u \in Version
      PROVE  ended'[j][u] = (IF j = k /\ u = v THEN now ELSE ended[j][u])
    BY <1>3 DEF TypeOK
<1>8. ASSUME NEW j \in Key, NEW u \in Version
      PROVE  /\ ended'[j][u] <= now'
             /\ ended[j][u] <= ended'[j][u]
    BY <1>3, <1>7, StoreTypes DEF CacheInv, StoresDated
<1>9. /\ RespectsTtl'
      /\ \A j \in Key : \A e \in Entry \cup {None} : Dated(j, e) => Dated(j, e)'
    <2>1. \A j \in Key : written[j] <= written'[j]
        BY <1>3, StoreTypes
    <2> QED BY <1>3, <1>8, <2>1, DatesAdvance
<1>10. StoresDated'
    <2>1. ASSUME NEW j \in Key PROVE Dated(j, memory[j])'
        BY <1>3, <1>9, StoreTypes DEF CacheInv, StoresDated, Dated
    <2>2. ASSUME NEW j \in Key PROVE Dated(j, redis[j])'
        <3>1. CASE j # k
            <4>1. redis'[j] = redis[j]
                BY <1>3, <3>1 DEF TypeOK
            <4>2. Dated(j, redis[j]) /\ redis[j] \in Entry \cup {None}
                BY StoreTypes DEF CacheInv, StoresDated
            <4> QED BY <4>1, <4>2, <1>9 DEF Dated
        <3>2. CASE j = k
            <4>1. redis'[j] = Stamped(v) /\ ended'[j][v] = now /\ written'[j] = v
                BY <1>1, <1>3, <1>4, <1>7, <3>2
            <4> QED BY <4>1, <1>1, <1>2, <3>2, StoreTypes, EntryTypes DEF Dated
        <3> QED BY <3>1, <3>2
    <2> QED BY <2>1, <2>2, <1>8 DEF StoresDated
<1>11. SetUnderWay'
    <2>1. call'[Writer] = [call[Writer] EXCEPT !.expires_at = now + Ttl]
        BY <1>3, CacheAssumption DEF TypeOK
    <2>2. call[Writer] \in Push
        BY CacheAssumption DEF SetApplied, Waits, TypeOK, Push, Fetch
    <2>3. call'[Writer].key = k /\ call'[Writer].value = v /\ call'[Writer].expires_at = now + Ttl
        BY <2>1, <2>2 DEF Push, k, v
    <2> QED BY <2>3, <1>1, <1>3, <1>4 DEF SetUnderWay, Stamped
<1>12. ReadsLatest'
    BY <1>3 DEF ReadsLatest, CacheInv
<1> QED BY <1>6, <1>9, <1>10, <1>11, <1>12 DEF CacheInv

\* Redis acknowledges a set it has executed.
LEMMA SetAnsweredStep ==
    ASSUME TypeOK, TypeOK', CacheInv, SetAnswered
    PROVE  CacheInv'
<1> DEFINE k == call[Writer].key
           v == call[Writer].value
           x == call[Writer].expires_at
<1>1. k \in Key /\ v \in Version /\ x \in Nat /\ x # None
    BY StoreTypes DEF SetAnswered
<1>2. redis[k] = [value |-> v, expires_at |-> x]
    BY DEF SetAnswered, CacheInv, SetUnderWay
<1>3. /\ kept' = [kept EXCEPT ![k] = [value |-> v, expires_at |-> x, source |-> "redis"]]
      /\ ended' = [ended EXCEPT ![k][v] = now]
      /\ call' = [call EXCEPT ![Writer] = None]
      /\ UNCHANGED <<redis, memory, now, written, result>>
    BY DEF SetAnswered, Settles
<1> HIDE DEF k, v, x
<1>4. ASSUME NEW j \in Key, NEW u \in Version
      PROVE  /\ ended'[j][u] <= now
             /\ ended[j][u] <= ended'[j][u]
    BY <1>3, StoreTypes DEF CacheInv, StoresDated, TypeOK
<1>5. FloorsCovered'
    <2>1. ASSUME NEW j \in Key, kept'[j] # None
          PROVE  Covered(j, kept[j])'
        <3>1. CASE j = k
            <4>1. kept'[j] = [value |-> v, expires_at |-> x, source |-> "redis"]
                BY <1>3, <3>1 DEF TypeOK
            <4>2. redis'[j] = [value |-> v, expires_at |-> x] /\ redis'[j] \in Entry
                BY <1>1, <1>2, <1>3, <3>1 DEF Entry
            <4>3. v \in Nat
                BY <1>1, CacheAssumption DEF Version
            <4> QED BY <4>1, <4>2, <4>3, <1>1, EntryTypes DEF Covered, Reaches
        <3>2. CASE j # k
            <4>1. kept'[j] = kept[j]
                BY <1>3, <3>2 DEF TypeOK
            <4> QED BY <4>1, <1>3, <2>1 DEF CacheInv, FloorsCovered, Covered, Reaches
        <3> QED BY <3>1, <3>2
    <2>2. ASSUME NEW d \in Caller, Waits(d, "get")', call'[d].floor # None
          PROVE  Covered(call[d].key, call[d].floor)'
        <3>1. call'[d] = call[d]
            BY <1>3, <2>2 DEF Waits, TypeOK
        <3> QED BY <3>1, <1>3, <2>2 DEF Waits, CacheInv, FloorsCovered, Covered, Reaches
    <2> QED BY <2>1, <2>2 DEF FloorsCovered
<1>6. /\ RespectsTtl'
      /\ \A j \in Key : \A e \in Entry \cup {None} : Dated(j, e) => Dated(j, e)'
    <2>1. \A j \in Key : written[j] <= written'[j]
        BY <1>3, StoreTypes
    <2> QED BY <1>3, <1>4, <2>1, DatesAdvance
<1>7. StoresDated'
    <2>1. ASSUME NEW j \in Key PROVE Dated(j, memory[j])' /\ Dated(j, redis[j])'
        BY <1>3, <1>6, StoreTypes DEF CacheInv, StoresDated, Dated
    <2> QED BY <2>1, <1>3, <1>4 DEF StoresDated
<1>8. SetUnderWay'
    BY <1>3, CacheAssumption DEF SetUnderWay, Waits, TypeOK
<1>9. ReadsLatest'
    BY <1>3 DEF ReadsLatest, CacheInv
<1> QED BY <1>5, <1>6, <1>7, <1>8, <1>9 DEF CacheInv

-----------------------------------------------------------------------------
LEMMA CacheInvHolds == Spec => []CacheInv
<1>1. Init => CacheInv
    BY CacheAssumption DEF Init, CacheInv, FloorsCovered, StoresDated, Dated, SetUnderWay,
       Waits, ReadsLatest, RespectsTtl
<1>2. TypeOK /\ TypeOK' /\ CacheInv /\ [Next]_vars => CacheInv'
    <2> SUFFICES ASSUME TypeOK, TypeOK', CacheInv, [Next]_vars
                 PROVE  CacheInv'
        OBVIOUS
    <2>1. CASE Connect \/ RedisFails \/ UNCHANGED vars
        BY <2>1, CallStep DEF Connect, RedisFails, vars
    <2>2. ASSUME NEW c \in Caller, NEW k \in Key, Get(c, k)
          PROVE  CacheInv'
        <3>1. CASE is_redis_connected
            <4>1. call' = [call EXCEPT ![c] = [op |-> "get", key |-> k, floor |-> kept[k]]]
                BY <2>2, <3>1 DEF Get
            <4>2. \A d \in Caller : \/ call'[d] = call[d]
                                    \/ call'[d] = None
                                    \/ /\ Waits(d, "get")'
                                       /\ call'[d].floor = kept[call'[d].key]
                                       /\ call'[d].key \in Key
                BY <4>1 DEF TypeOK, Waits
            <4> QED BY <2>2, <3>1, <4>2, CallStep DEF Get
        <3>2. CASE ~is_redis_connected
            BY <2>2, <3>2, MemoryGetStep, StoreTypes DEF Get, CacheInv, FloorsCovered
        <3> QED BY <3>1, <3>2
    <2>3. ASSUME NEW c \in Caller, GetAnswered(c)
          PROVE  CacheInv'
        <3> DEFINE k == call[c].key
                   floor == call[c].floor
        <3>1. /\ k \in Key /\ floor \in Kept \cup {None}
              /\ floor # None => Covered(k, floor)
            BY <2>3, StoreTypes DEF GetAnswered, CacheInv, FloorsCovered
        <3>2. Returns(c, k, floor, "redis", ValueOf(redis[k]))
            BY <2>3 DEF GetAnswered
        <3>3. UNCHANGED <<redis, memory, now, kept, ended, written>>
            BY <2>3 DEF GetAnswered
        <3>4. redis[k] \in Entry \cup {None} /\ Dated(k, redis[k]) /\ StoresDated
            BY <3>1, StoreTypes DEF CacheInv, StoresDated
        <3>5. floor # None /\ "redis" = floor.source
                 => Reaches(redis[k], floor) \/ now > floor.expires_at
            BY <3>1 DEF Covered
        <3> HIDE DEF k, floor
        <3>6. ReadsLatest' /\ (\/ result'.value = None
                               \/ result'.at <= ended[result'.key][result'.value] + Ttl)
            BY <3>1, <3>2, <3>4, <3>5, ReturnedIsFresh
        <3>7. RespectsTtl'
            BY <3>3, <3>6 DEF RespectsTtl
        <3>8. \A d \in Caller : call'[d] = call[d] \/ call'[d] = None
            BY <3>2 DEF Returns, TypeOK
        <3>9. FloorsCovered'
            BY <3>3, <3>8 DEF CacheInv, FloorsCovered, Waits, Covered, Reaches
        <3>10. SetUnderWay'
            BY <3>3, <3>8, CacheAssumption DEF CacheInv, SetUnderWay, Waits
        <3>11. StoresDated'
            BY <3>3 DEF CacheInv, StoresDated, Dated
        <3> QED BY <3>6, <3>7, <3>9, <3>10, <3>11 DEF CacheInv
    <2>4. ASSUME NEW c \in Caller, GetRaises(c)
          PROVE  CacheInv'
        BY <2>4, MemoryGetStep, StoreTypes DEF GetRaises, CacheInv, FloorsCovered
    <2>5. ASSUME NEW k \in Key, Set(k)
          PROVE  CacheInv'
        <3>1. /\ written' = [written EXCEPT ![k] = @ + 1]
              /\ written'[k] \in Version
              /\ \A j \in Key : written[j] <= written'[j]
              /\ UNCHANGED <<redis, now, result>>
            <4>1. /\ written' = [written EXCEPT ![k] = written[k] + 1]
                  /\ written[k] < MaxVersion
                  /\ UNCHANGED <<redis, now, result>>
                BY <2>5 DEF Set
            <4>2. written \in [Key -> 0 .. MaxVersion]
                BY DEF TypeOK
            <4>3. written'[k] = written[k] + 1
                BY <4>1, <4>2
            <4>4. \A j \in Key : written[j] <= written'[j]
                BY <4>1, <4>2, CacheAssumption
            <4> QED BY <4>1, <4>2, <4>3, <4>4, CacheAssumption DEF Version
        <3>2. CASE ~is_redis_connected
            <4>1. MemorySet(k, written'[k])
                BY <2>5, <3>2 DEF Set
            <4>2. written'[k] >= written[k] /\ written'[k] <= written'[k]
                BY <3>1, StoreTypes, CacheAssumption DEF Version
            <4> QED BY <3>1, <4>1, <4>2, MemorySetStep
        <3>3. CASE is_redis_connected
            <4> DEFINE set == [op |-> "set", key |-> k, value |-> written'[k], expires_at |-> None]
            <4>1. call' = [call EXCEPT ![Writer] = set] /\ UNCHANGED <<memory, kept, ended>>
                BY <2>5, <3>3 DEF Set
            <4>2. RespectsTtl' /\ StoresDated'
                <5>1. /\ RespectsTtl'
                      /\ \A j \in Key : \A e \in Entry \cup {None} : Dated(j, e) => Dated(j, e)'
                    <6>1. \A j \in Key : \A v \in Version : ended[j][v] <= ended'[j][v]
                        BY <4>1, StoreTypes
                    <6> QED BY <3>1, <6>1, DatesAdvance
                <5>2. ASSUME NEW j \in Key PROVE Dated(j, memory[j])' /\ Dated(j, redis[j])'
                    BY <3>1, <4>1, <5>1, StoreTypes DEF CacheInv, StoresDated, Dated
                <5> QED BY <3>1, <4>1, <5>1, <5>2 DEF CacheInv, StoresDated
            <4>3. SetUnderWay'
                <5>1. call'[Writer] = set
                    BY <4>1, CacheAssumption DEF TypeOK
                <5> QED BY <5>1 DEF SetUnderWay
            <4>4. FloorsCovered'
                <5>1. \A c \in Caller : Waits(c, "get")' => call'[c] = call[c]
                    BY <4>1 DEF Waits, TypeOK
                <5> QED BY <3>1, <4>1, <5>1 DEF CacheInv, FloorsCovered, Waits, Covered, Reaches
            <4>5. ReadsLatest'
                BY <3>1 DEF CacheInv, ReadsLatest
            <4> QED BY <4>2, <4>3, <4>4, <4>5 DEF CacheInv
        <3> QED BY <3>2, <3>3
    <2>6. CASE SetApplied
        BY <2>6, SetAppliedStep
    <2>7. CASE SetAnswered
        BY <2>7, SetAnsweredStep
    <2>8. CASE SetRaises
        <3> DEFINE k == call[Writer].key
                   v == call[Writer].value
        <3>1. /\ k \in Key /\ v \in Version /\ v = written[k]
              /\ MemorySet(k, v)
              /\ UNCHANGED <<redis, now, written, result>>
            BY <2>8, StoreTypes DEF SetRaises, CacheInv, SetUnderWay
        <3> HIDE DEF k, v
        <3>2. v >= written[k] /\ v <= written'[k] /\ \A j \in Key : written[j] <= written'[j]
            BY <3>1, StoreTypes
        <3> QED BY <3>1, <3>2, MemorySetStep
    <2>9. CASE RedisReturns
        <3>1. CASE UNCHANGED <<redis, kept>>
            BY <2>9, <3>1, CallStep DEF RedisReturns
        <3>2. CASE /\ \A c \in Caller : call[c] = None
                   /\ redis' = [k \in Key |-> None]
                   /\ kept' = [k \in Key |-> Forget(k)]
            <4>1. UNCHANGED <<memory, now, call, written, ended, result>>
                BY <2>9 DEF RedisReturns
            <4>2. ASSUME NEW k \in Key, kept'[k] # None
                  PROVE  kept'[k] = kept[k] /\ kept[k] # None /\ kept[k].source # "redis"
                BY <3>2, <4>2 DEF Forget
            <4>3. FloorsCovered'
                BY <3>2, <4>1, <4>2 DEF CacheInv, FloorsCovered, Covered, Reaches, Waits
            <4>4. SetUnderWay'
                BY <3>2, <4>1, CacheAssumption DEF SetUnderWay, Waits
            <4> QED BY <3>2, <4>1, <4>3, <4>4
                    DEF CacheInv, StoresDated, Dated, ReadsLatest, RespectsTtl
        <3> QED BY <2>9, <3>1, <3>2 DEF RedisReturns
    <2>10. CASE Restart
        <3>1. ASSUME NEW k \in Key, kept'[k] # None
              PROVE  kept'[k] = kept[k] /\ kept[k] # None /\ kept[k].source # "memory"
            BY <2>10, <3>1 DEF Restart
        <3>2. FloorsCovered'
            BY <2>10, <3>1 DEF Restart, CacheInv, FloorsCovered, Covered, Reaches, Waits
        <3>3. SetUnderWay'
            BY <2>10, CacheAssumption DEF Restart, SetUnderWay, Waits
        <3> QED BY <2>10, <3>2, <3>3
                DEF Restart, CacheInv, StoresDated, Dated, ReadsLatest, RespectsTtl
    <2>11. CASE Tick
        <3>1. ASSUME NEW k \in Key, NEW f \in Kept, Covered(k, f)
              PROVE  Covered(k, f)'
            BY <2>11, <3>1, StoreTypes, EntryTypes DEF Tick, Covered, Reaches
        <3>2. FloorsCovered'
            <4>1. ASSUME NEW k \in Key, kept'[k] # None
                  PROVE  Covered(k, kept[k])'
                <5>1. kept[k] \in Kept /\ Covered(k, kept[k]) /\ kept'[k] = kept[k]
                    BY <2>11, <4>1, StoreTypes DEF Tick, CacheInv, FloorsCovered
                <5> QED BY <5>1, <3>1 DEF Covered, Reaches
            <4>2. ASSUME NEW c \in Caller, Waits(c, "get")', call'[c].floor # None
                  PROVE  Covered(call[c].key, call[c].floor)'
                <5>1. /\ call'[c] = call[c]
                      /\ call[c].key \in Key /\ call[c].floor \in Kept
                      /\ Covered(call[c].key, call[c].floor)
                    BY <2>11, <4>2, StoreTypes DEF Tick, Waits, CacheInv, FloorsCovered
                <5> QED BY <5>1, <3>1 DEF Covered, Reaches
            <4> QED BY <4>1, <4>2 DEF FloorsCovered
        <3>3. StoresDated'
            BY <2>11, StoreTypes DEF Tick, CacheInv, StoresDated, Dated
        <3> QED BY <2>11, <3>2, <3>3
                DEF Tick, CacheInv, SetUnderWay, Waits, ReadsLatest, RespectsTtl
    <2> QED BY <2>1, <2>2, <2>3, <2>4, <2>5, <2>6, <2>7, <2>8, <2>9, <2>10, <2>11
            DEF Next, Progress
<1> QED BY <1>1, <1>2, CacheTypes, PTL DEF Spec

\* get() returns the last set that returned before it began, or a newer one,
\* until that expires: for any keys, tasks, TTL and sequence of outages.
THEOREM GetsReadLatest == Spec => []ReadsLatest
BY CacheInvHolds, PTL DEF CacheInv

\* No get() returns a state longer than the TTL after its set was last at work.
THEOREM GetsRespectTtl == Spec => []RespectsTtl
BY CacheInvHolds, PTL DEF CacheInv
=============================================================================
