---------------------------- MODULE CacheManager ----------------------------
(***************************************************************************)
(* app/cache/redis_client.py: one key-value interface over Redis and an    *)
(* in-memory fallback.                                                     *)
(*                                                                         *)
(* A call that goes to Redis suspends; Redis may execute the command and   *)
(* the answer still be lost, and then the call is repeated on the memory   *)
(* store. The flag is_redis_connected is set once, by connect().           *)
(*                                                                         *)
(* Values are version numbers: queue_worker is the only caller of          *)
(* set_live_device_state, so versions of a key are written in order.       *)
(***************************************************************************)
EXTENDS Integers

CONSTANTS
    Key,         \* device:state:<id>
    Caller,      \* tasks that use the cache
    Writer,      \* the one that also sets
    Ttl,         \* REDIS_TTL_LIVE_SEC, in ticks
    MaxNow,      \* bound: ticks
    MaxVersion,  \* bound: sets per key
    None         \* nothing there

ASSUME CacheAssumption ==
    /\ Writer \in Caller
    /\ Ttl \in Nat \ {0}
    /\ MaxNow \in Nat
    /\ MaxVersion \in Nat
    /\ None \notin Nat

Version == 1 .. MaxVersion
Entry == [value: Version, expires_at: Nat]

ASSUME NoneAssumption == None \notin Entry

VARIABLES
    up,                  \* Redis answers
    redis,               \* what it holds
    memory,              \* _memory_fallback._store
    started,             \* lifespan has run connect()
    is_redis_connected,
    now,
    call,                \* per caller: the call that waits for Redis
    written,             \* per key: sets begun so far
    kept,                \* per key: the last set that returned, and where it went
    ended,               \* per key and version: when its set was last at work
    result               \* what the last get returned, and to whom

vars == <<up, redis, memory, started, is_redis_connected, now, call, written,
          kept, ended, result>>

Time == 0 .. MaxNow
Kept == [value: Version, expires_at: Nat, source: {"redis", "memory"}]

Fetch == [op: {"get"}, key: Key, floor: Kept \cup {None}]
Push == [op: {"set"}, key: Key, value: Version, expires_at: Nat \cup {None}]

Result == [caller: Caller, key: Key, value: Version \cup {None}, floor: Kept \cup {None},
           source: {"redis", "memory"}, at: Time]

\* [mutant] set without ex
StampedForever(v) == [value |-> v, expires_at |-> None]

Stamped(v) == [value |-> v, expires_at |-> now + Ttl]

Alive(entry) == entry # None /\ now <= entry.expires_at

ValueOf(entry) == IF Alive(entry) THEN entry.value ELSE None

\* A call is made by a running process, one at a time per task.
CanCall(c) == started /\ call[c] = None

Waits(c, op) == call[c] # None /\ call[c].op = op
-----------------------------------------------------------------------------
\* connect(): one ping decides for the life of the process. A ping that
\* reaches Redis may still time out.
Connect ==
    /\ ~started
    /\ started' = TRUE
    /\ is_redis_connected' \in {up, FALSE}
    /\ UNCHANGED <<up, redis, memory, now, call, written, kept, ended, result>>

\* get() has its value.
Returns(c, k, floor, source, value) ==
    /\ result' = [caller |-> c, key |-> k, value |-> value, floor |-> floor,
                  source |-> source, at |-> now]
    /\ call' = [call EXCEPT ![c] = None]

\* [mutant] the TTL is not looked at
MemoryGetIgnoresTtl(c, k, floor) ==
    /\ Returns(c, k, floor, "memory", IF memory[k] = None THEN None ELSE memory[k].value)
    /\ UNCHANGED memory

\* InMemoryCacheFallback.get: an expired item is deleted when it is read.
MemoryGet(c, k, floor) ==
    /\ Returns(c, k, floor, "memory", ValueOf(memory[k]))
    /\ memory' = [memory EXCEPT ![k] = IF Alive(@) THEN @ ELSE None]

Get(c, k) ==
    /\ CanCall(c)
    /\ IF is_redis_connected
       THEN /\ call' = [call EXCEPT ![c] = [op |-> "get", key |-> k, floor |-> kept[k]]]
            /\ UNCHANGED <<memory, result>>
       ELSE MemoryGet(c, k, kept[k])
    /\ UNCHANGED <<up, redis, started, is_redis_connected, now, written, kept, ended>>

GetAnswered(c) ==
    /\ up
    /\ Waits(c, "get")
    /\ LET k == call[c].key
       IN  Returns(c, k, call[c].floor, "redis", ValueOf(redis[k]))
    /\ UNCHANGED <<up, redis, memory, started, is_redis_connected, now, written, kept, ended>>

\* [mutant] no socket_timeout: only an error that Redis reports ends a call
GetRaisesWhenUp(c) ==
    /\ up
    /\ Waits(c, "get")
    /\ MemoryGet(c, call[c].key, call[c].floor)
    /\ UNCHANGED <<up, redis, started, is_redis_connected, now, written, kept, ended>>

\* Redis is down or does not answer in time: the memory store is asked.
GetRaises(c) ==
    /\ Waits(c, "get")
    /\ MemoryGet(c, call[c].key, call[c].floor)
    /\ UNCHANGED <<up, redis, started, is_redis_connected, now, written, kept, ended>>
-----------------------------------------------------------------------------
\* set() of version v is through.
Settles(k, entry, source) ==
    /\ kept' = [kept EXCEPT ![k] =
                   [value |-> entry.value, expires_at |-> entry.expires_at,
                    source |-> source]]
    /\ ended' = [ended EXCEPT ![k][entry.value] = now]
    /\ call' = [call EXCEPT ![Writer] = None]

\* InMemoryCacheFallback.set
MemorySet(k, v) ==
    /\ memory' = [memory EXCEPT ![k] = Stamped(v)]
    /\ Settles(k, Stamped(v), "memory")

Set(k) ==
    /\ CanCall(Writer)
    /\ written[k] < MaxVersion
    /\ written' = [written EXCEPT ![k] = @ + 1]
    /\ IF is_redis_connected
       THEN /\ call' = [call EXCEPT ![Writer] =
                           [op |-> "set", key |-> k, value |-> written'[k],
                            expires_at |-> None]]
            /\ UNCHANGED <<memory, kept, ended>>
       ELSE MemorySet(k, written'[k])
    /\ UNCHANGED <<up, redis, started, is_redis_connected, now, result>>

\* Redis executes the command (SET with EX).
SetApplied ==
    /\ up
    /\ Waits(Writer, "set")
    /\ call[Writer].expires_at = None
    /\ LET k == call[Writer].key
           entry == Stamped(call[Writer].value)
       IN  /\ redis' = [redis EXCEPT ![k] = entry]
           /\ call' = [call EXCEPT ![Writer].expires_at = entry.expires_at]
           /\ ended' = [ended EXCEPT ![k][entry.value] = now]
    /\ UNCHANGED <<up, memory, started, is_redis_connected, now, written, kept, result>>

\* [mutant] the set is taken for done as soon as it is sent
SetUnacknowledged ==
    /\ Waits(Writer, "set")
    /\ Settles(call[Writer].key, Stamped(call[Writer].value), "redis")
    /\ UNCHANGED <<up, redis, memory, started, is_redis_connected, now, written, result>>

SetAnswered ==
    /\ up
    /\ Waits(Writer, "set")
    /\ call[Writer].expires_at # None
    /\ Settles(call[Writer].key,
               [value |-> call[Writer].value, expires_at |-> call[Writer].expires_at],
               "redis")
    /\ UNCHANGED <<up, redis, memory, started, is_redis_connected, now, written, result>>

\* Down, or no answer in time, executed or not: the memory store is written.
\* A command not executed by then is not executed later.
SetRaises ==
    /\ Waits(Writer, "set")
    /\ MemorySet(call[Writer].key, call[Writer].value)
    /\ UNCHANGED <<up, redis, started, is_redis_connected, now, written, result>>
-----------------------------------------------------------------------------
\* What was kept in Redis is gone.
Forget(k) ==
    IF kept[k] # None /\ kept[k].source = "redis" THEN None ELSE kept[k]

RedisFails ==
    /\ up
    /\ up' = FALSE
    /\ UNCHANGED <<redis, memory, started, is_redis_connected, now, call, written,
                   kept, ended, result>>

\* Redis is back, with its data or, restarted, without. A call that is under
\* way then still holds the floor it began with, so data is lost between calls.
RedisReturns ==
    /\ ~up
    /\ up' = TRUE
    /\ \/ UNCHANGED <<redis, kept>>
       \/ /\ \A c \in Caller : call[c] = None
          /\ redis' = [k \in Key |-> None]
          /\ kept' = [k \in Key |-> Forget(k)]
    /\ UNCHANGED <<memory, started, is_redis_connected, now, call, written, ended, result>>

\* The process ends, disconnect() or not, and a new one starts; the memory
\* store dies with it.
Restart ==
    /\ started
    /\ started' = FALSE
    /\ is_redis_connected' = FALSE
    /\ memory' = [k \in Key |-> None]
    /\ call' = [c \in Caller |-> None]
    /\ kept' = [k \in Key |-> IF kept[k] # None /\ kept[k].source = "memory"
                              THEN None ELSE kept[k]]
    /\ UNCHANGED <<up, redis, now, written, ended, result>>

Tick ==
    /\ now < MaxNow
    /\ now' = now + 1
    /\ UNCHANGED <<up, redis, memory, started, is_redis_connected, call, written,
                   kept, ended, result>>
-----------------------------------------------------------------------------
Init ==
    /\ up \in BOOLEAN
    /\ redis = [k \in Key |-> None]
    /\ memory = [k \in Key |-> None]
    /\ started = FALSE
    /\ is_redis_connected = FALSE
    /\ now = 0
    /\ call = [c \in Caller |-> None]
    /\ written = [k \in Key |-> 0]
    /\ kept = [k \in Key |-> None]
    /\ ended = [k \in Key |-> [v \in Version |-> 0]]
    /\ result = None

Progress(c) ==
    \/ GetAnswered(c)
    \/ GetRaises(c)
    \/ c = Writer /\ (SetAnswered \/ SetRaises)

Next ==
    \/ Connect
    \/ \E c \in Caller, k \in Key : Get(c, k)
    \/ \E c \in Caller : Progress(c)
    \/ \E k \in Key : Set(k)
    \/ SetApplied
    \/ RedisFails
    \/ RedisReturns
    \/ Restart
    \/ Tick

Spec == Init /\ [][Next]_vars

\* socket_timeout: a call to Redis ends, answered or raised.
FairSpec == Spec /\ \A c \in Caller : WF_vars(Progress(c))
-----------------------------------------------------------------------------
\* The shape of the state.
TypeOK ==
    /\ up \in BOOLEAN
    /\ started \in BOOLEAN
    /\ is_redis_connected \in BOOLEAN
    /\ now \in Time
    /\ redis \in [Key -> Entry \cup {None}]
    /\ memory \in [Key -> Entry \cup {None}]
    /\ call \in [Caller -> Fetch \cup Push \cup {None}]
    /\ \A c \in Caller : Waits(c, "set") => c = Writer
    /\ written \in [Key -> 0 .. MaxVersion]
    /\ kept \in [Key -> Kept \cup {None}]
    /\ ended \in [Key -> [Version -> Time]]
    /\ result \in Result \cup {None}

\* A get sees the last set that returned before the get began (or a newer
\* one), unless that has expired, provided both were served by the same
\* store: outages, lost answers and restarts in between change nothing.
ReadsLatest ==
    /\ result # None
    /\ result.floor # None
    /\ result.source = result.floor.source
    /\ result.at <= result.floor.expires_at
    => result.value # None /\ result.value >= result.floor.value

\* No state outlives its hour, whichever store returns it: a get returns no
\* version whose set was last at work longer than the TTL ago.
RespectsTtl ==
    result # None /\ result.value # None
       => result.at <= ended[result.key][result.value] + Ttl

\* Consecutive gets of a task in one process never go back to an older state.
NeverStepsBack ==
    [][result # None /\ result.value # None /\ result'.value # None
         => (result'.caller = result.caller /\ result'.key = result.key
               => result'.value >= result.value)]_result

\* No task waits for Redis for ever.
CallsReturn ==
    \A c \in Caller : (call[c] # None) ~> (call[c] = None)
=============================================================================
