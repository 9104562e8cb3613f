---------------------- MODULE TrajectoryDatabaseProofs ----------------------
(***************************************************************************)
(* Proofs about TrajectoryDatabase for any times, bounds and environments, *)
(* and any sequence of starts, kills and errors.                           *)
(***************************************************************************)
EXTENDS TrajectoryDatabase, FiniteSetTheorems, TLAPS

\* The number of the next row counts rows, so there must be finitely many; and
\* a column is added to a schema only if there is a table.
TypeInv ==
    /\ TypeOK
    /\ IsFiniteSet(rows)
    /\ pc \in Added => "base" \in seen

LEMMA Dialects == TypeOK => dialect \in {"sqlite", "postgresql"}
BY DatabaseAssumption DEF TypeOK

LEMMA TypeInvInit == Init => TypeInv
<1> SUFFICES ASSUME Init PROVE TypeInv
    OBVIOUS
<1>1. rows \subseteq Row /\ IsFiniteSet(rows)
    <2>1. CASE rows = {}
        BY <2>1, FS_EmptySet
    <2>2. ASSUME NEW t \in Time \ {0}, rows = {[id |-> 1, time |-> t]}
          PROVE  rows \subseteq Row /\ IsFiniteSet(rows)
        <3>1. 1 \in 1 .. MaxRows
            BY DatabaseAssumption
        <3>2. [id |-> 1, time |-> t] \in Row
            BY <3>1 DEF Row
        <3>3. IsFiniteSet({[id |-> 1, time |-> t]})
            BY FS_Singleton
        <3> QED BY <2>2, <3>2, <3>3
    <2> QED BY <2>1, <2>2 DEF Init
<1>2. Dialect \subseteq {"sqlite", "postgresql"}
    BY DatabaseAssumption
<1> QED BY <1>1, <1>2 DEF Init, TypeInv, TypeOK, Added

\* What AddColumn makes of a schema is one.
LEMMA ColumnAdded ==
    ASSUME TypeInv, NEW c \in Added, AddColumn(c)
    PROVE  seen \cup {c} \in Schema /\ "base" \in seen /\ "base" \in seen'
<1>1. "base" \in seen /\ seen \in Schema
    BY DEF AddColumn, TypeInv, TypeOK
<1>2. "base" \in seen'
    BY <1>1 DEF AddColumn, Runs, Fails
<1> QED BY <1>1, <1>2 DEF Schema, Column

LEMMA TypeInvNext == TypeInv /\ [Next]_vars => TypeInv'
<1> SUFFICES ASSUME TypeInv, [Next]_vars PROVE TypeInv'
    OBVIOUS
<1> USE DEF TypeInv
<1>1. CASE Start
    BY <1>1 DEF Start, TypeOK, Added
<1>2. CASE CreateAll
    <2>1. Column \in Schema /\ "base" \in Column
        BY DEF Column, Schema
    <2>2. seen # {} => "base" \in seen
        BY DEF TypeOK, Schema
    <2> QED BY <1>2, <2>1, <2>2 DEF CreateAll, Runs, TypeOK, Added
<1>3. ASSUME NEW c \in Added, AddColumn(c) PROVE TypeInv'
    <2>1. AfterColumn(c) \in {"step_count", "commit"} \cup
                             (IF dialect = "sqlite" THEN {} ELSE {"hypertable"})
        BY <1>3, DatabaseAssumption DEF AfterColumn, TypeOK, Added
    <2>2. pc' = AfterColumn(c) /\ UNCHANGED <<dialect, rows>>
        BY <1>3 DEF AddColumn
    <2>3. seen' \in Schema /\ disk' \in Schema /\ aborted' \in BOOLEAN /\ swallowed' \in BOOLEAN
        BY <1>3, ColumnAdded DEF AddColumn, Runs, Fails, TypeOK
    <2>4. dialect = "sqlite" => ~ aborted' /\ seen' = disk'
        BY <1>3 DEF AddColumn, Runs, Fails, TypeOK
    <2>5. "base" \in seen'
        BY <1>3, ColumnAdded
    <2> QED BY <2>1, <2>2, <2>3, <2>4, <2>5 DEF TypeOK, Added
<1>4. CASE Hypertable
    <2>1. dialect # "sqlite" /\ pc' = "commit" /\ UNCHANGED <<dialect, seen, disk, rows>>
        BY <1>4 DEF Hypertable, Runs, Fails, TypeOK, Added
    <2>2. aborted' \in BOOLEAN /\ swallowed' \in BOOLEAN
        BY <1>4 DEF Hypertable, Runs, Fails, TypeOK
    <2> QED BY <2>1, <2>2 DEF TypeOK, Added
<1>5. CASE Commit
    BY <1>5 DEF Commit, TypeOK, Added
<1>6. CASE Stop
    BY <1>6 DEF Stop, TypeOK, Added
<1>7. ASSUME NEW timestamp \in Time, Save(timestamp) PROVE TypeInv'
    <2>1. PICK now \in Time \ {0} :
              rows' = rows \cup {[id |-> Cardinality(rows) + 1,
                                  time |-> IF timestamp # 0 THEN timestamp ELSE now]}
        BY <1>7 DEF Save
    <2>2. Cardinality(rows) \in Nat
        BY FS_CardinalityType
    <2>3. Cardinality(rows) + 1 \in 1 .. MaxRows
        BY <1>7, <2>2, DatabaseAssumption DEF Save
    <2>4. rows' \subseteq Row
        BY <2>1, <2>3 DEF TypeOK, Row
    <2>5. IsFiniteSet(rows')
        BY <2>1, FS_AddElement
    <2> QED BY <1>7, <2>4, <2>5 DEF Save, TypeOK
<1>8. CASE UNCHANGED vars
    BY <1>8 DEF vars, TypeOK
<1> QED BY <1>1, <1>2, <1>3, <1>4, <1>5, <1>6, <1>7, <1>8 DEF Next, InitDb

LEMMA TypeInvHolds == Spec => []TypeInv
BY TypeInvInit, TypeInvNext, PTL DEF Spec

\* The variables keep their shape; SQLite never has an open transaction.
THEOREM DatabaseTypeCorrect == Spec => []TypeOK
<1>1. TypeInv => TypeOK
    BY DEF TypeInv
<1> QED BY <1>1, TypeInvHolds, PTL
-----------------------------------------------------------------------------
\* How far init_db() has come.
Migrating == pc \in {"movement_state", "step_count", "hypertable", "commit"}
Tried(c) ==
    \/ c = "movement_state" /\ pc \in {"step_count", "hypertable", "commit"}
    \/ c = "step_count" /\ pc \in {"hypertable", "commit"}

\* What is known on the way: nothing seen is less than what is on disk; a
\* column that was tried is there unless an error was met; and the only error
\* that is not recorded is that of a column that was there, on disk or from
\* create_all().
Progress ==
    /\ pc = "create_all" => seen = disk /\ ~ aborted /\ ~ swallowed
    /\ pc = "movement_state" => ~ aborted /\ ~ swallowed
    /\ Migrating =>
          /\ "base" \in seen
          /\ disk \subseteq seen
          /\ \A c \in Added : Tried(c) => c \in seen \/ aborted \/ swallowed
          /\ dialect = "postgresql" /\ swallowed => aborted
          /\ dialect = "postgresql" /\ disk = {"base"} =>
                swallowed \/ (~ aborted /\ \A c \in Added : Tried(c) <=> c \in seen)

DatabaseInv == TypeInv /\ Progress /\ ServesAfterCleanStart

LEMMA DatabaseInvInit == Init => DatabaseInv
BY TypeInvInit DEF Init, DatabaseInv, Progress, Migrating, ServesAfterCleanStart

\* How Progress gets from one column to the next.
LEMMA ProgressOfColumn ==
    ASSUME DatabaseInv, NEW c \in Added, AddColumn(c)
    PROVE  Progress'
<1> USE DEF DatabaseInv
<1>1. /\ pc = c
      /\ "base" \in seen'
      /\ dialect \in {"sqlite", "postgresql"}
      /\ dialect = "sqlite" => ~ aborted /\ seen = disk
    BY ColumnAdded, Dialects DEF AddColumn, TypeInv, TypeOK
<1>2. /\ UNCHANGED dialect
      /\ pc' \in {"step_count", "hypertable", "commit"}
      /\ c = "movement_state" <=> pc' = "step_count"
    BY DEF AddColumn, AfterColumn, Added
<1>3. /\ disk \subseteq seen
      /\ \A d \in Added : Tried(d) => d \in seen \/ aborted \/ swallowed
      /\ dialect = "postgresql" /\ swallowed => aborted
      /\ dialect = "postgresql" /\ disk = {"base"} =>
            swallowed \/ (~ aborted /\ \A d \in Added : Tried(d) <=> d \in seen)
    BY <1>1 DEF Progress, Migrating, Added
<1>4. \A d \in Added : Tried(d)' <=> Tried(d) \/ d = c
    BY <1>1, <1>2 DEF Tried, Added
<1>5. CASE c \notin seen /\ Runs(seen \cup {c}) /\ UNCHANGED swallowed
    <2>1. disk' \subseteq seen'
        BY <1>1, <1>3, <1>5 DEF Runs
    <2>2. \A d \in Added : Tried(d)' => d \in seen' \/ aborted' \/ swallowed'
        BY <1>3, <1>4, <1>5 DEF Runs
    <2>3. dialect = "postgresql" /\ disk' = {"base"} =>
             swallowed' \/ (~ aborted' /\ \A d \in Added : Tried(d)' <=> d \in seen')
        BY <1>3, <1>4, <1>5 DEF Runs
    <2> QED BY <1>1, <1>2, <1>3, <1>5, <2>1, <2>2, <2>3 DEF Progress, Migrating, Runs
<1>6. CASE (c \in seen \/ aborted) /\ Fails /\ UNCHANGED swallowed
    <2>1. ~ Tried(c)
        BY <1>1 DEF Tried
    <2>2. dialect = "postgresql" /\ disk = {"base"} => swallowed
        BY <1>3, <1>6, <2>1
    <2>3. UNCHANGED <<seen, disk>> /\ aborted' = (dialect = "postgresql")
        BY <1>6 DEF Fails
    <2>4. \A d \in Added : Tried(d)' => d \in seen' \/ aborted' \/ swallowed'
        BY <1>1, <1>3, <1>4, <1>6, <2>3
    <2> QED BY <1>1, <1>2, <1>3, <1>6, <2>2, <2>3, <2>4 DEF Progress, Migrating
<1>7. CASE ~ aborted /\ Fails /\ swallowed' = TRUE
    BY <1>1, <1>2, <1>3, <1>7 DEF Fails, Progress, Migrating
<1> QED BY <1>5, <1>6, <1>7 DEF AddColumn

LEMMA DatabaseInvNext == DatabaseInv /\ [Next]_vars => DatabaseInv'
<1> SUFFICES ASSUME DatabaseInv, [Next]_vars PROVE Progress' /\ ServesAfterCleanStart'
    BY TypeInvNext DEF DatabaseInv
<1> USE DEF DatabaseInv
<1>1. CASE Start
    BY <1>1 DEF Start, Progress, Migrating, ServesAfterCleanStart
<1>2. CASE CreateAll
    BY <1>2 DEF CreateAll, Runs, Progress, Migrating, Tried, ServesAfterCleanStart,
                TypeInv, TypeOK, Schema, Column, Added
<1>3. ASSUME NEW c \in Added, AddColumn(c) PROVE Progress' /\ ServesAfterCleanStart'
    <2>1. pc' # "ready"
        BY <1>3 DEF AddColumn, AfterColumn
    <2> QED BY <1>3, <2>1, ProgressOfColumn DEF ServesAfterCleanStart
<1>5. CASE Hypertable
    <2>1. dialect = "postgresql"
        BY <1>5, Dialects DEF Hypertable, TypeInv, TypeOK, Added
    <2>2. pc = "hypertable" /\ pc' = "commit" /\ UNCHANGED <<dialect, seen, disk>>
        BY <1>5, <2>1 DEF Hypertable, Runs, Fails
    <2>3. \/ UNCHANGED <<aborted, swallowed>>
          \/ aborted /\ aborted' /\ UNCHANGED swallowed
          \/ aborted' /\ swallowed'
        BY <1>5, <2>1 DEF Hypertable, Runs, Fails
    <2>4. \A c \in Added : Tried(c) /\ Tried(c)'
        BY <2>2 DEF Tried, Added
    <2>5. /\ "base" \in seen /\ disk \subseteq seen
          /\ \A c \in Added : Tried(c) => c \in seen \/ aborted \/ swallowed
          /\ swallowed => aborted
          /\ disk = {"base"} =>
                swallowed \/ (~ aborted /\ \A c \in Added : Tried(c) <=> c \in seen)
        BY <2>1, <2>2 DEF Progress, Migrating
    <2> QED BY <2>1, <2>2, <2>3, <2>4, <2>5 DEF Progress, Migrating, ServesAfterCleanStart
<1>6. CASE Commit
    <2>1. pc' = "ready" /\ UNCHANGED <<dialect, seen, swallowed>>
        BY <1>6 DEF Commit
    <2>2. Progress'
        BY <2>1 DEF Progress, Migrating
    <2>3. ~ aborted /\ ~ swallowed => seen = Column
        BY <1>6 DEF Commit, Progress, Migrating, Tried, TypeInv, TypeOK, Schema, Column, Added
    <2>4. dialect = "postgresql" /\ disk = {"base"} /\ ~ swallowed => ~ aborted
        BY <1>6 DEF Commit, Progress, Migrating
    <2>5. dialect = "sqlite" => ~ aborted
        BY DEF TypeInv, TypeOK
    <2>6. dialect \in {"sqlite", "postgresql"} /\ Column # {"base"}
        BY DatabaseAssumption DEF TypeInv, TypeOK, Column, Added
    <2>7. disk' = IF aborted THEN disk ELSE seen
        BY <1>6 DEF Commit
    <2>8. ServesAfterCleanStart'
        BY <2>1, <2>3, <2>4, <2>5, <2>6, <2>7 DEF ServesAfterCleanStart, Usable
    <2> QED BY <2>2, <2>8
<1>7. CASE Stop
    BY <1>7 DEF Stop, Progress, Migrating, ServesAfterCleanStart
<1>8. ASSUME NEW timestamp \in Time, Save(timestamp) PROVE Progress' /\ ServesAfterCleanStart'
    BY <1>8 DEF Save, Progress, Migrating, Tried, ServesAfterCleanStart, Usable
<1>9. CASE UNCHANGED vars
    BY <1>9 DEF vars, Progress, Migrating, Tried, ServesAfterCleanStart, Usable
<1> QED BY <1>1, <1>2, <1>3, <1>5, <1>6, <1>7, <1>8, <1>9 DEF Next, InitDb

LEMMA DatabaseInvHolds == Spec => []DatabaseInv
BY DatabaseInvInit, DatabaseInvNext, PTL DEF Spec

\* Whatever earlier starts left behind, a start without ignored errors leaves
\* a database that serves (on PostgreSQL: no table without both columns).
THEOREM CleanStartServes == Spec => []ServesAfterCleanStart
<1>1. DatabaseInv => ServesAfterCleanStart
    BY DEF DatabaseInv
<1> QED BY <1>1, DatabaseInvHolds, PTL

\* No step takes columns or rows away, and PostgreSQL migrates as a whole.
THEOREM MigrationGoesForward == Spec => MigratesForward
<1> DEFINE Forward == /\ rows \subseteq rows'
                      /\ disk \subseteq disk'
                      /\ dialect = "postgresql" => disk' \in {disk, Column}
<1>1. DatabaseInv /\ [Next]_vars => [Forward]_vars
    <2> SUFFICES ASSUME DatabaseInv, Next PROVE Forward
        OBVIOUS
    <2>1. CASE Commit
        <3>1. UNCHANGED rows
            BY <2>1 DEF Commit
        <3>2. disk \subseteq seen
            BY <2>1 DEF Commit, DatabaseInv, Progress, Migrating
        <3>3. dialect = "postgresql" /\ ~ aborted => seen = Column
            BY <2>1 DEF Commit, DatabaseInv, Progress, Migrating, Tried, TypeInv, TypeOK,
                        Schema, Column, Added
        <3> QED BY <2>1, <3>1, <3>2, <3>3 DEF Commit
    <2>2. CASE CreateAll
        BY <2>2 DEF CreateAll, Runs, DatabaseInv, Progress
    <2>3. ASSUME NEW c \in Added, AddColumn(c) PROVE Forward
        BY <2>3 DEF AddColumn, Runs, Fails, DatabaseInv, TypeInv, TypeOK
    <2>4. CASE Hypertable
        BY <2>4 DEF Hypertable, Runs, Fails, DatabaseInv, TypeInv, TypeOK
    <2>5. CASE Start \/ Stop
        BY <2>5 DEF Start, Stop
    <2>6. ASSUME NEW timestamp \in Time, Save(timestamp) PROVE Forward
        BY <2>6 DEF Save
    <2> QED BY <2>1, <2>2, <2>3, <2>4, <2>5, <2>6 DEF Next, InitDb
<1> QED BY <1>1, DatabaseInvHolds, PTL DEF Spec, MigratesForward
=============================================================================
