------------------------- MODULE TrajectoryDatabase -------------------------
(***************************************************************************)
(* The tables behind app/db: how init_db() creates and migrates them when  *)
(* the process starts, what a save adds to them while it serves, and what  *)
(* the reads of the trajectory return. The process is killed and started   *)
(* again at any moment ("restart: unless-stopped").                        *)
(*                                                                         *)
(* A schema is the set of columns of device_trajectories, none if there is *)
(* no table: "base" stands for those that every version of the code has    *)
(* known. The two databases differ in one point. SQLite commits every DDL  *)
(* statement by itself. PostgreSQL runs them all in the transaction of     *)
(* engine.begin(): after one error it refuses every further statement, and *)
(* COMMIT then rolls back without raising.                                 *)
(***************************************************************************)
EXTENDS Integers, FiniteSets

CONSTANTS
    Dialect,   \* databases DATABASE_URL may name
    Time,      \* timestamps of packets and readings of the server's clock
    MaxRows,   \* bound: rows of device_trajectories
    Recent,    \* the limit the dashboard asks for
    Env        \* what the environment of this instance may do

EnvBehaviour == {
    "kill",    \* the process is killed, or cannot start
    "error",   \* a statement fails for a reason of its own (locked, timed out)
    "plain" }  \* a PostgreSQL without TimescaleDB

\* The columns init_db() adds to an older table, in its order.
Added == {"movement_state", "step_count"}
Column == {"base"} \cup Added
Schema == {S \in SUBSET Column : S = {} \/ "base" \in S}

ASSUME DatabaseAssumption ==
    /\ Dialect \subseteq {"sqlite", "postgresql"}
    /\ Time \subseteq Nat
    /\ MaxRows \in Nat \ {0}
    /\ Recent \in Nat \ {0}
    /\ Env \subseteq EnvBehaviour

VARIABLES
    dialect,    \* the database in use
    disk,       \* what is committed of the schema
    seen,       \* the schema in the eyes of init_db's connection
    aborted,    \* its transaction has met an error
    pc,         \* the next statement of lifespan() and init_db()
    swallowed,  \* this start has ignored an error other than an existing column
    rows        \* of one device, committed

vars == <<dialect, disk, seen, aborted, pc, swallowed, rows>>

Row == [id: 1 .. MaxRows, time: Time \ {0}]

\* Every statement of crud.py names all columns of the model class.
Usable(schema) == schema = Column
-----------------------------------------------------------------------------
(* A statement on init_db's connection.                                    *)

Runs(schema) ==
    /\ ~ aborted
    /\ seen' = schema
    /\ disk' = IF dialect = "sqlite" THEN schema ELSE disk
    /\ UNCHANGED aborted

Fails ==
    /\ aborted' = (dialect = "postgresql")
    /\ UNCHANGED <<seen, disk>>

\* lifespan() begins; what was committed is what the new connection sees.
Start ==
    /\ pc = "down"
    /\ pc' = "create_all"
    /\ seen' = disk
    /\ aborted' = FALSE
    /\ swallowed' = FALSE
    /\ UNCHANGED <<dialect, disk, rows>>

\* Base.metadata.create_all: leaves an existing table as it is. Its errors are
\* not caught: the start fails (Stop).
CreateAll ==
    /\ pc = "create_all"
    /\ Runs(IF seen = {} THEN Column ELSE seen)
    /\ pc' = "movement_state"
    /\ UNCHANGED <<dialect, swallowed, rows>>

\* [mutant] TimescaleDB is set up on whatever database there is
AfterColumnOfAny(c) ==
    IF c = "movement_state" THEN "step_count" ELSE "hypertable"

AfterColumn(c) ==
    IF c = "movement_state" THEN "step_count"
    ELSE IF dialect = "postgresql" THEN "hypertable" ELSE "commit"

\* [mutant] one try block around both statements
AddColumnInOneTry(c) ==
    /\ pc = c
    /\ \/ c \notin seen /\ Runs(seen \cup {c}) /\ pc' = AfterColumn(c)
       \/ c \in seen /\ Fails /\ pc' = AfterColumn("step_count")
    /\ UNCHANGED <<dialect, swallowed, rows>>

\* ALTER TABLE ... ADD COLUMN c, except Exception: pass.
AddColumn(c) ==
    /\ pc = c
    /\ \/ c \notin seen /\ Runs(seen \cup {c}) /\ UNCHANGED swallowed
       \/ (c \in seen \/ aborted) /\ Fails /\ UNCHANGED swallowed
       \/ "error" \in Env /\ ~ aborted /\ Fails /\ swallowed' = TRUE
    /\ pc' = AfterColumn(c)
    /\ UNCHANGED <<dialect, rows>>

\* The three statements for TimescaleDB share one try; that of the primary key
\* catches its own errors. They change nothing a query can see.
Hypertable ==
    /\ pc = "hypertable"
    /\ \/ Runs(seen) /\ UNCHANGED swallowed
       \/ aborted /\ Fails /\ UNCHANGED swallowed
       \/ {"error", "plain"} \cap Env # {} /\ ~ aborted /\ Fails /\ swallowed' = TRUE
    /\ pc' = "commit"
    /\ UNCHANGED <<dialect, rows>>

\* [mutant] every statement is committed, up to the one that failed
CommitWhatRan ==
    /\ pc = "commit"
    /\ disk' = seen
    /\ pc' = "ready"
    /\ UNCHANGED <<dialect, seen, aborted, swallowed, rows>>

\* The end of engine.begin(); the worker starts, "System ready" is logged.
Commit ==
    /\ pc = "commit"
    /\ disk' = IF aborted THEN disk ELSE seen
    /\ pc' = "ready"
    /\ UNCHANGED <<dialect, seen, aborted, swallowed, rows>>

\* The process is gone, with an open transaction or without.
Stop ==
    /\ "kill" \in Env
    /\ pc # "down"
    /\ pc' = "down"
    /\ UNCHANGED <<dialect, disk, seen, aborted, swallowed, rows>>
-----------------------------------------------------------------------------
\* save_trajectory_point: a timestamp of 0 counts as none. The time has a zone,
\* which SQLite drops and the driver of PostgreSQL refuses, so there the insert
\* raises and _persist_point logs it; so it does where a column is missing.
Save(timestamp) ==
    /\ pc = "ready"
    /\ dialect = "sqlite" /\ Usable(disk)
    /\ Cardinality(rows) < MaxRows
    /\ \E now \in Time \ {0} :
          rows' = rows \cup {[id |-> Cardinality(rows) + 1,
                              time |-> IF timestamp # 0 THEN timestamp ELSE now]}
    /\ UNCHANGED <<dialect, disk, seen, aborted, pc, swallowed>>

Before(r, s) == r.time < s.time \/ (r.time = s.time /\ r.id < s.id)

\* get_trajectory_history: ORDER BY time ASC LIMIT limit.
History(limit) == {r \in rows : Cardinality({s \in rows : Before(s, r)}) < limit}

\* fetchLatestDbState of the dashboard shows the last element of its answer.
ShownAsLatest == {r \in History(Recent) : \A s \in History(Recent) : ~ Before(r, s)}

\* get_last_known_position: ORDER BY time DESC LIMIT 1.
LastKnown == {r \in rows : \A s \in rows : s.time <= r.time}
-----------------------------------------------------------------------------
\* A new database, or one that an earlier version has filled.
Init ==
    /\ dialect \in Dialect
    /\ disk \in Schema
    /\ \/ rows = {}
       \/ \E t \in Time \ {0} : disk # {} /\ rows = {[id |-> 1, time |-> t]}
    /\ seen = disk
    /\ aborted = FALSE
    /\ pc = "down"
    /\ swallowed = FALSE

InitDb ==
    \/ CreateAll
    \/ \E c \in Added : AddColumn(c)
    \/ Hypertable
    \/ Commit

Next ==
    \/ Start
    \/ InitDb
    \/ Stop
    \/ \E timestamp \in Time : Save(timestamp)

Spec == Init /\ [][Next]_vars
-----------------------------------------------------------------------------
\* The shape of the state. Only PostgreSQL has a transaction to abort and a
\* hypertable to make; SQLite has committed whatever init_db() has done.
TypeOK ==
    /\ dialect \in Dialect
    /\ disk \in Schema
    /\ seen \in Schema
    /\ aborted \in BOOLEAN
    /\ pc \in {"down", "create_all", "commit", "ready"} \cup Added
                \cup (IF dialect = "sqlite" THEN {} ELSE {"hypertable"})
    /\ swallowed \in BOOLEAN
    /\ rows \subseteq Row
    /\ dialect = "sqlite" => ~ aborted /\ seen = disk

\* However often init_db() was killed or met errors before, and whatever
\* version made the table: after a start without ignored errors SQLite accepts
\* every save and read. PostgreSQL at least has no table left that lacks both
\* columns (lines 35 to 42 of database.py).
ServesAfterCleanStart ==
    pc = "ready" /\ ~ swallowed =>
        IF dialect = "sqlite" THEN Usable(disk) ELSE disk # {"base"}

\* No start takes a column or a row away, and on PostgreSQL a migration is
\* done as a whole or not at all ("ensuring backward compatibility without
\* data loss", our_project.md).
MigratesForward ==
    [][/\ rows \subseteq rows'
       /\ disk \subseteq disk'
       /\ dialect = "postgresql" => disk' \in {disk, Column}]_vars

\* "System ready" means that points can be saved and read. The code does not
\* keep it: on a new PostgreSQL the ALTER TABLE of a column that create_all()
\* has just made aborts the transaction, and with it create_all().
ReadyMeansUsable == pc = "ready" => Usable(disk)

\* The dashboard's "Load Last DB State" shows the latest point. The code does
\* not keep it: the history is limited to its oldest points (crud.py:110).
LoadsLatest == ShownAsLatest \subseteq LastKnown
=============================================================================
