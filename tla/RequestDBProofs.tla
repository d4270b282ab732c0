---------------------------- MODULE RequestDBProofs ----------------------------
(***************************************************************************)
(* What holds of RequestDB for any number of threads and rows, any         *)
(* contents and any retention chunk: its type, that no content is lost or  *)
(* kept for good, that only retention deletes, and that a pass drains what *)
(* it began with.                                                          *)
(***************************************************************************)
EXTENDS RequestDB, FiniteSetTheorems, TLAPS

-----------------------------------------------------------------------------
(***************************************************************************)
(* The migrations.                                                         *)
(***************************************************************************)

Statements ==
    [does : {"add", "guarded"}, name : AddedColumns, counts : {{}}]
        \cup [does : {"drop", "create"}, name : TriggerNames, counts : SUBSET HashColumns]

\* Every statement of a migration is well formed.
LEMMA MigrationType ==
    ASSUME NEW v \in 0..Latest
    PROVE  Migration(v) \in Seq(Statements) /\ Len(Migration(v)) \in Nat
<1>1. \A c \in AddedColumns : AddGuarded(c) \in Statements /\ Add(c) \in Statements
    BY DEF Statements, AddGuarded, Add
<1>2. \A t \in TriggerNames, counted \in SUBSET HashColumns :
          Drop(t) \in Statements /\ Create(t, counted) \in Statements
    BY DEF Statements, Drop, Create
<1>3. \A counted \in SUBSET HashColumns : Recount(counted) \in Seq(Statements)
    BY <1>2 DEF Recount, TriggerNames
<1>4. {"base"} \in SUBSET HashColumns /\ {"base", "caveman"} \in SUBSET HashColumns
    BY DEF HashColumns
<1>5. CASE v = 0
    <2>1. Migration(v) = <<AddGuarded("tables"), Create("insert", {"base"}),
                           Create("delete", {"base"})>>
        BY <1>5 DEF Migration
    <2>2. AddGuarded("tables") \in Statements
        BY <1>1 DEF AddedColumns
    <2>3. \A t \in TriggerNames : Create(t, {"base"}) \in Statements
        BY <1>2, <1>4
    <2> QED BY <2>1, <2>2, <2>3 DEF TriggerNames
<1>6. CASE v \in {1, 2, 3, 5, 6}
    BY <1>1, <1>6 DEF Migration, AddedColumns
<1>7. CASE v = 4
    <2>1. Migration(v) = <<AddGuarded("system_prompt_caveman_sha256")>> \o Recount({"base", "caveman"})
        BY <1>7 DEF Migration
    <2>2. <<AddGuarded("system_prompt_caveman_sha256")>> \in Seq(Statements)
        BY <1>1 DEF AddedColumns
    <2>3. Migration(v) \in Seq(Statements)
        BY <2>1, <2>2, <1>3, <1>4
    <2> QED BY <2>3
<1>8. CASE v = 7
    <2> DEFINE ensured == <<AddGuarded("opening_system_sha256"),
                            AddGuarded("opening_system_dispatched_sha256"),
                            AddGuarded("attribution_reminders_stripped")>>
    <2>1. Migration(v) = ensured \o Recount(HashColumns)
        BY <1>8 DEF Migration
    <2>2. ensured \in Seq(Statements)
        BY <1>1 DEF AddedColumns
    <2> HIDE DEF ensured
    <2>3. Migration(v) \in Seq(Statements)
        BY <2>1, <2>2, <1>3
    <2> QED BY <2>3
<1>9. CASE v \in {8, 9}
    BY <1>9 DEF Migration
<1>10. Migration(v) \in Seq(Statements)
    BY <1>5, <1>6, <1>7, <1>8, <1>9 DEF Latest
<1> QED BY <1>10

LEMMA StatementType ==
    ASSUME NEW v \in 0..Latest, NEW i \in 1..Len(Migration(v))
    PROVE  Migration(v)[i] \in Statements
BY MigrationType

\* Only migrations 1 and 2 add a column without looking whether it is there.
LEMMA UnguardedMigrations ==
    ASSUME NEW v \in 0..Latest, NEW i \in 1..Len(Migration(v)), Migration(v)[i].does = "add"
    PROVE  v \in {1, 2}
<1>1. CASE v \in {1, 2}
    BY <1>1
<1>2. CASE v \notin {1, 2}
    <2>1. \A c : AddGuarded(c).does # "add"
        BY DEF AddGuarded
    <2> QED BY <1>2 DEF Migration, Latest, AddGuarded, Add, Drop, Create, Recount, HashColumns
<1> QED BY <1>1, <1>2

\* Migration 7 adds its columns, drops both triggers and makes both again.
LEMMA MigrationSeven ==
    /\ Len(Migration(7)) = 7
    /\ \A i \in 1..3 : Migration(7)[i].does = "guarded"
    /\ Migration(7)[4] = Drop("insert") /\ Migration(7)[5] = Drop("delete")
    /\ Migration(7)[6] = Create("insert", HashColumns)
    /\ Migration(7)[7] = Create("delete", HashColumns)
BY DEF Migration, AddGuarded, Add, Drop, Create, Recount

-----------------------------------------------------------------------------
(***************************************************************************)
(* The inductive invariant.                                                *)
(***************************************************************************)

\* An upgraded file counts every hash column in both triggers; migration 7 gets there one
\* statement at a time.  Only an upgraded process serves requests, with foreign keys on.
Upgraded ==
    /\ process = "up" => version = Latest
    /\ process = "upgrading" => version < Latest
    /\ process = "failed" => version \in {1, 2}
    /\ cascade = (process # "upgrading")
    /\ (\E t \in Threads : pass[t].at # "idle") => process = "up"
    /\ version >= 8 => \A t \in TriggerNames : triggers[t] = HashColumns
    /\ version = 7 /\ process = "upgrading" =>
        /\ next \in {5, 6} => triggers["insert"] = {}
        /\ next \in {6, 7} => triggers["delete"] = {}
        /\ next >= 7 => triggers["insert"] = HashColumns
        /\ next >= 8 => triggers["delete"] = HashColumns

\* The rows that were recorded with a content.
Holders(h) == {id \in DOMAIN rows : h \in rows[id].stored}

\* The count of a content is the number of rows recorded with it, but for the contents that
\* a row without them has taken a count from.
CountsHolders ==
    /\ \A id \in DOMAIN rows : rows[id].stored \subseteq References(rows[id])
    /\ \A h \in DOMAIN store \ miscounted : store[h] = Cardinality(Holders(h))

\* What a pass still has to delete is expired, and nothing once it prunes.
Drains ==
    \A t \in Threads :
        /\ pass[t].at = "deleting" => pass[t].backlog \subseteq Expired
        /\ pass[t].at = "pruning" => pass[t].backlog = {}

IInv == TypeOK /\ Upgraded /\ CountsHolders /\ ContentKept /\ Drains

\* The sets of rows are finite.
LEMMA FiniteRows ==
    ASSUME TypeOK
    PROVE  /\ IsFiniteSet(DOMAIN rows)
           /\ \A S \in SUBSET DOMAIN rows : IsFiniteSet(S) /\ Cardinality(S) \in Nat
<1>1. IsFiniteSet(1..MaxRows)
    BY FS_Interval, RequestDBAssumption
<1>2. IsFiniteSet(DOMAIN rows)
    BY <1>1, FS_Subset DEF TypeOK
<1> QED BY <1>2, FS_Subset, FS_CardinalityType

-----------------------------------------------------------------------------
(***************************************************************************)
(* The initial states.                                                     *)
(***************************************************************************)

LEMMA ColumnsAdded ==
    ASSUME NEW v \in 0..Latest
    PROVE  ColumnsBefore(v) \subseteq AddedColumns
<1>1. \A u \in 0..(v - 1) : Columns(u) \subseteq AddedColumns
    <2> SUFFICES ASSUME NEW u \in 0..(v - 1), NEW i \in 1..Len(Migration(u)),
                        Migration(u)[i].name \notin TriggerNames
                 PROVE  Migration(u)[i].name \in AddedColumns
        BY DEF Columns
    <2>1. u \in 0..Latest
        BY DEF Latest
    <2>2. Migration(u)[i] \in Statements
        BY <2>1, StatementType
    <2> QED BY <2>2 DEF Statements
<1> QED BY <1>1 DEF ColumnsBefore

LEMMA InitIInv ==
    ASSUME Init PROVE IInv
<1>1. version \in 0..Latest /\ columns \subseteq AddedColumns
    BY ColumnsAdded DEF Init
<1>2. \A v \in 0..Latest : Counted(v) \subseteq HashColumns /\ (v >= 8 => Counted(v) = HashColumns)
    BY DEF Counted, HashColumns, Latest
<1>3. CASE rows = <<>> /\ store = <<>> /\ events = {}
    <2>1. DOMAIN rows = {} /\ DOMAIN store = {} /\ Holders("x") = Holders("x")
        BY <1>3
    <2>2. TypeOK
        BY <1>1, <1>2, <1>3, <2>1 DEF Init, TypeOK, Idle, TriggerNames
    <2> QED BY <1>1, <1>2, <1>3, <2>1, <2>2
            DEF Init, IInv, Upgraded, CountsHolders, ContentKept, Drains, Idle, TriggerNames
<1>4. CASE \E r \in OldRows(version) :
               /\ rows = [id \in {1} |-> r] /\ store = [h \in r.stored |-> 1]
               /\ events = IF r.hash["base"] # None THEN {1} ELSE {}
    <2>1. PICK r \in OldRows(version) :
               /\ rows = [id \in {1} |-> r] /\ store = [h \in r.stored |-> 1]
               /\ events = IF r.hash["base"] # None THEN {1} ELSE {}
        BY <1>4
    <2>2. r \in Rows /\ r.stored = References(r) /\ r.stored \subseteq Contents
        BY <2>1 DEF OldRows, Rows
    <2>3. \A h \in DOMAIN store : Holders(h) = {1} /\ store[h] = 1
        BY <2>1 DEF Holders
    <2>4. CountsHolders
        BY <2>1, <2>2, <2>3, FS_Singleton DEF CountsHolders
    <2>5. TypeOK
        BY <1>1, <1>2, <2>1, <2>2, RequestDBAssumption DEF Init, TypeOK, Idle, TriggerNames
    <2> QED BY <1>1, <1>2, <2>1, <2>2, <2>4, <2>5
            DEF Init, IInv, Upgraded, ContentKept, Drains, Idle, TriggerNames
<1> QED BY <1>3, <1>4 DEF Init

-----------------------------------------------------------------------------
(***************************************************************************)
(* Start and upgrade.  The rows, the store and the passes stay as they     *)
(* are, so only the type and Upgraded can be disturbed.                    *)
(***************************************************************************)

LEMMA SameData ==
    ASSUME IInv, UNCHANGED <<data, pass>>, TypeOK', Upgraded'
    PROVE  IInv'
<1>1. \A h : Holders(h)' = Holders(h)
    BY DEF data, Holders
<1> QED BY <1>1 DEF IInv, data, CountsHolders, ContentKept, Drains, Expired, References, Hashes

\* The statement an upgrade has come to.
LEMMA AtStatementType ==
    ASSUME TypeOK, process = "upgrading", next <= Len(Migration(version))
    PROVE  Statement \in Statements
<1>1. next \in 1..Len(Migration(version)) /\ version \in 0..Latest
    BY MigrationType DEF TypeOK
<1> QED BY <1>1, StatementType DEF Statement

LEMMA SevenStatements ==
    ASSUME IInv, version = 7, next <= Len(Migration(version))
    PROVE  next \in 1..7
<1>1. Len(Migration(version)) = 7
    BY MigrationSeven
<1>2. next \in Nat \ {0}
    BY DEF IInv, TypeOK
<1>3. next <= 7
    <2> DEFINE length == Len(Migration(version))
    <2>1. length = 7 /\ next <= length
        BY <1>1
    <2> QED BY <2>1
<1> QED BY <1>2, <1>3

LEMMA StartStep ==
    ASSUME IInv, Start PROVE IInv'
<1>1. TypeOK'
    BY DEF IInv, TypeOK, Start, schema, data
<1>2. Upgraded'
    BY DEF IInv, TypeOK, Upgraded, Start, schema, Latest
<1> QED BY <1>1, <1>2, SameData DEF Start

LEMMA CrashStep ==
    ASSUME IInv, Crash PROVE IInv'
<1>1. TypeOK'
    BY DEF IInv, TypeOK, Crash, schema, data, Idle
<1>2. Upgraded'
    BY DEF IInv, TypeOK, Upgraded, Crash, schema, Idle
<1>3. \A h : Holders(h)' = Holders(h)
    BY DEF Crash, data, Holders
<1> QED BY <1>1, <1>2, <1>3
        DEF IInv, Crash, data, CountsHolders, ContentKept, Drains, References, Hashes, Idle

LEMMA AddTwiceStep ==
    ASSUME IInv, AddTwice PROVE IInv'
<1>1. version \in {1, 2}
    <2>1. next \in 1..Len(Migration(version)) /\ version \in 0..Latest
        BY MigrationType DEF IInv, TypeOK, AddTwice, AtStatement
    <2> QED BY <2>1, UnguardedMigrations DEF AddTwice, AtStatement, Statement
<1>2. TypeOK'
    BY DEF IInv, TypeOK, AddTwice, EndUpgrade, schema, data
<1>3. Upgraded'
    BY <1>1 DEF IInv, TypeOK, Upgraded, AddTwice, AtStatement, EndUpgrade, schema
<1> QED BY <1>2, <1>3, SameData DEF AddTwice

LEMMA ColumnStep ==
    ASSUME IInv, AddColumn \/ EnsureColumn PROVE IInv'
<1>1. /\ process = "upgrading" /\ next <= Len(Migration(version))
      /\ Statement.does \in {"add", "guarded"}
      /\ columns' = columns \cup {Statement.name} /\ Executed /\ UNCHANGED triggers
    BY DEF AddColumn, EnsureColumn, AtStatement
<1>2. Statement \in Statements
    BY <1>1, AtStatementType DEF IInv
<1>3. TypeOK'
    BY <1>1, <1>2 DEF IInv, TypeOK, Executed, data, Statements
<1>4. version = 7 => next \in 1..3
    <2>1. ASSUME version = 7, next \notin 1..3 PROVE FALSE
        <3>1. next \in 4..7
            BY <1>1, <2>1, SevenStatements
        <3> QED BY <1>1, <2>1, <3>1, MigrationSeven DEF Statement, Drop, Create
    <2> QED BY <2>1
<1>5. Upgraded'
    BY <1>1, <1>4 DEF IInv, TypeOK, Upgraded, Executed
<1> QED BY <1>1, <1>3, <1>5, SameData DEF Executed

LEMMA TriggerStep ==
    ASSUME IInv, DropTrigger \/ CreateTrigger PROVE IInv'
<1>1. /\ process = "upgrading" /\ next <= Len(Migration(version))
      /\ Statement.does \in {"drop", "create"}
      /\ Executed /\ UNCHANGED columns
    BY DEF DropTrigger, CreateTrigger, AtStatement
<1>2. Statement \in Statements
    BY <1>1, AtStatementType DEF IInv
<1>3. TypeOK'
    <2>1. triggers' \in [TriggerNames -> SUBSET HashColumns]
        <3>1. triggers \in [TriggerNames -> SUBSET HashColumns]
            BY DEF IInv, TypeOK
        <3>2. CASE DropTrigger
            BY <3>1, <3>2 DEF DropTrigger
        <3>3. CASE CreateTrigger
            <4>1. Statement.counts \subseteq HashColumns
                BY <1>2, <3>3 DEF Statements, CreateTrigger, AtStatement
            <4> QED BY <3>1, <3>3, <4>1 DEF CreateTrigger
        <3> QED BY <3>2, <3>3
    <2>2. next' \in Nat \ {0}
        BY <1>1 DEF IInv, TypeOK, Executed
    <2> QED BY <1>1, <2>1, <2>2 DEF IInv, TypeOK, Executed, data
<1>4. ASSUME version = 7 PROVE
        /\ next \in 4..7
        /\ next = 4 => triggers' = [triggers EXCEPT !["insert"] = {}]
        /\ next = 5 => triggers' = [triggers EXCEPT !["delete"] = {}]
        /\ next = 6 => triggers' = [triggers EXCEPT !["insert"] = IF @ = {} THEN HashColumns ELSE @]
        /\ next = 7 => triggers' = [triggers EXCEPT !["delete"] = IF @ = {} THEN HashColumns ELSE @]
    <2>1. next \in 1..7
        BY <1>1, <1>4, SevenStatements
    <2> QED BY <1>1, <1>4, <2>1, MigrationSeven
            DEF DropTrigger, CreateTrigger, AtStatement, Statement, Drop, Create
<1>5. version < Latest - 1
    <2>1. ASSUME version = Latest - 1 PROVE FALSE
        <3>1. Len(Migration(version)) = 0
            BY <2>1 DEF Migration, Latest
        <3> QED BY <1>1, <3>1 DEF IInv, TypeOK
    <2> QED BY <1>1, <2>1 DEF IInv, TypeOK, Upgraded, Latest
<1>6. Upgraded'
    <2>1. CASE version = 7
        BY <1>1, <1>3, <1>4, <2>1 DEF IInv, TypeOK, Upgraded, Executed, TriggerNames
    <2>2. CASE version # 7
        BY <1>1, <1>5, <2>2 DEF IInv, TypeOK, Upgraded, Executed, Latest
    <2> QED BY <2>1, <2>2
<1> QED BY <1>1, <1>3, <1>6, SameData DEF Executed

LEMMA BumpVersionStep ==
    ASSUME IInv, BumpVersion PROVE IInv'
<1>1. TypeOK'
    BY DEF IInv, TypeOK, BumpVersion, data, Latest
<1>2. version = 7 => next >= 8
    BY MigrationSeven DEF IInv, TypeOK, BumpVersion
<1>3. Upgraded'
    BY <1>2 DEF IInv, TypeOK, Upgraded, BumpVersion, TriggerNames, Latest
<1> QED BY <1>1, <1>3, SameData DEF BumpVersion

LEMMA RebuildStep ==
    ASSUME IInv, RebuildRequests PROVE IInv'
<1>1. TypeOK'
    BY DEF IInv, TypeOK, RebuildRequests, EndUpgrade, AddedColumns, Latest
<1>2. Upgraded'
    <2>1. version = 8 /\ version' = 9 /\ process' = "up" /\ cascade' = TRUE
        BY DEF RebuildRequests, EndUpgrade, Latest
    <2>2. \A t \in TriggerNames : triggers'[t] = HashColumns
        BY <2>1 DEF IInv, Upgraded, RebuildRequests
    <2> QED BY <2>1, <2>2 DEF Upgraded, Latest
<1>3. \A h : Holders(h)' = Holders(h)
    BY DEF RebuildRequests, Holders
<1> QED BY <1>1, <1>2, <1>3
        DEF IInv, RebuildRequests, CountsHolders, ContentKept, Drains, Expired, References, Hashes

-----------------------------------------------------------------------------
(***************************************************************************)
(* Recording.                                                              *)
(***************************************************************************)

LEMMA RecordStep ==
    ASSUME IInv, NEW t \in Threads, Record(t) PROVE IInv'
<1> DEFINE referenced(hash) == {hash[c] : c \in HashColumns} \ {None}
           kept(failed, hash) == DOMAIN store \cup (IF failed THEN {} ELSE referenced(hash))
           new(failed, hash) == [hash |-> hash, expired |-> FALSE,
                                 stored |-> referenced(hash) \cap kept(failed, hash)]
<1>1. PICK id \in 1..MaxRows, failed \in BOOLEAN : \E hash \in Captures(failed) :
        /\ IsNextId(id)
        /\ rows' = [i \in DOMAIN rows \cup {id} |-> IF i = id THEN new(failed, hash) ELSE rows[i]]
        /\ store' = [h \in kept(failed, hash) |->
                RefCount(h) + One(h \in Hashes(new(failed, hash), triggers["insert"]))]
        /\ events' = IF hash["base"] # None THEN events \cup {id} ELSE events
    BY DEF Record
<1>2. PICK hash \in Captures(failed) :
        /\ IsNextId(id)
        /\ rows' = [i \in DOMAIN rows \cup {id} |-> IF i = id THEN new(failed, hash) ELSE rows[i]]
        /\ store' = [h \in kept(failed, hash) |->
                RefCount(h) + One(h \in Hashes(new(failed, hash), triggers["insert"]))]
        /\ events' = IF hash["base"] # None THEN events \cup {id} ELSE events
    BY <1>1
<1> DEFINE ref == referenced(hash)
           keep == kept(failed, hash)
           row == new(failed, hash)
<1>3. /\ pass' = [pass EXCEPT ![t].at = "check"] /\ UNCHANGED <<schema, miscounted, running, due>>
      /\ process = "up" /\ pass[t].at = "idle"
    BY DEF Record
<1>4. /\ hash \in [HashColumns -> Contents \cup {None}]
      /\ ref \subseteq Contents /\ keep \subseteq DOMAIN store \cup ref
      /\ DOMAIN store \subseteq keep
    BY <1>2 DEF Captures
<1>5. /\ row.stored = ref \cap keep /\ row.hash = hash /\ ~row.expired /\ row \in Rows
      /\ References(row) = ref
    BY <1>4 DEF Rows, References, Hashes
<1>6. Hashes(row, triggers["insert"]) = ref
    <2>1. triggers["insert"] = HashColumns
        BY <1>3 DEF IInv, Upgraded, Latest, TriggerNames
    <2> QED BY <2>1, <1>5 DEF References
<1> HIDE DEF ref, keep, row
<1>7. id \notin DOMAIN rows
    <2>1. \A other \in DOMAIN rows : other < id
        BY <1>2 DEF IsNextId
    <2> QED BY <2>1
<1>8. /\ DOMAIN rows' = DOMAIN rows \cup {id} /\ rows'[id] = row
      /\ \A i \in DOMAIN rows : rows'[i] = rows[i]
    BY <1>2, <1>7 DEF row
<1>9. /\ DOMAIN store' = keep
      /\ \A h \in keep : store'[h] = RefCount(h) + One(h \in ref)
    BY <1>2, <1>6 DEF keep, row
<1>10. TypeOK'
    <2>1. store' \in [DOMAIN store' -> Int] /\ DOMAIN store' \subseteq Contents
        <3>1. \A h \in keep : RefCount(h) + One(h \in ref) \in Int
            BY DEF IInv, TypeOK, RefCount, One
        <3>2. store' = [h \in keep |-> store'[h]]
            BY <1>2 DEF keep
        <3> QED BY <3>1, <3>2, <1>4, <1>9 DEF IInv, TypeOK
    <2>2. rows' \in [DOMAIN rows' -> Rows] /\ DOMAIN rows' \subseteq 1..MaxRows
        BY <1>2, <1>5, <1>8 DEF IInv, TypeOK, row
    <2> QED BY <1>2, <1>3, <2>1, <2>2 DEF IInv, TypeOK, schema, running
<1>11. Upgraded'
    BY <1>3 DEF IInv, TypeOK, Upgraded, schema, running
<1>12. \A h : Holders(h)' = IF h \in row.stored THEN Holders(h) \cup {id} ELSE Holders(h)
    BY <1>7, <1>8 DEF Holders
<1>13. \A h : Holders(h) \subseteq DOMAIN rows
    BY DEF Holders
<1>14. CountsHolders'
    <2>1. ASSUME NEW h \in DOMAIN store' \ miscounted'
          PROVE  store'[h] = Cardinality(Holders(h)')
        <3>1. h \in keep /\ h \notin miscounted /\ store'[h] = RefCount(h) + One(h \in ref)
            BY <2>1, <1>3, <1>9
        <3>2. h \in ref <=> h \in row.stored
            BY <3>1, <1>5
        <3>3. RefCount(h) = Cardinality(Holders(h))
            <4>1. CASE h \in DOMAIN store
                BY <4>1, <3>1 DEF IInv, CountsHolders, RefCount
            <4>2. CASE h \notin DOMAIN store
                <5>1. Holders(h) = {}
                    BY <4>2, <3>1 DEF IInv, ContentKept, Holders
                <5> QED BY <4>2, <5>1, FS_EmptySet DEF RefCount
            <4> QED BY <4>1, <4>2
        <3>4. IsFiniteSet(Holders(h)) /\ Cardinality(Holders(h)) \in Nat /\ id \notin Holders(h)
            BY <1>7, <1>13, FiniteRows DEF IInv
        <3>5. Cardinality(Holders(h) \cup {id}) = Cardinality(Holders(h)) + 1
            BY <3>4, FS_AddElement
        <3> QED BY <3>1, <3>2, <3>3, <3>4, <3>5, <1>12 DEF One
    <2>2. ASSUME NEW i \in DOMAIN rows' PROVE rows'[i].stored \subseteq References(rows'[i])
        BY <2>2, <1>5, <1>8 DEF IInv, CountsHolders
    <2> QED BY <2>1, <2>2 DEF CountsHolders, References, Hashes
<1>15. ContentKept'
    <2>1. ASSUME NEW i \in DOMAIN rows' PROVE rows'[i].stored \subseteq keep \cup miscounted
        <3>1. CASE i = id
            BY <3>1, <1>5, <1>8
        <3>2. CASE i # id
            BY <3>2, <1>4, <1>8 DEF IInv, ContentKept
        <3> QED BY <3>1, <3>2
    <2> QED BY <2>1, <1>3, <1>9 DEF ContentKept
<1>16. Drains'
    <2>1. Expired \subseteq Expired'
        BY <1>8 DEF Expired
    <2>2. \A u \in Threads : pass'[u].at \in {"deleting", "pruning"} => pass'[u] = pass[u]
        BY <1>3 DEF IInv, TypeOK
    <2> QED BY <2>1, <2>2 DEF IInv, Drains
<1> QED BY <1>10, <1>11, <1>14, <1>15, <1>16 DEF IInv

-----------------------------------------------------------------------------
(***************************************************************************)
(* Retention.                                                              *)
(***************************************************************************)

LEMMA SameRows ==
    ASSUME IInv, UNCHANGED <<schema, data, process, next, cascade>>, TypeOK', Drains',
           (\E t \in Threads : pass'[t].at # "idle") => process = "up"
    PROVE  IInv'
<1>1. Upgraded'
    BY DEF IInv, Upgraded, schema
<1>2. \A h : Holders(h)' = Holders(h)
    BY DEF data, Holders
<1> QED BY <1>1, <1>2 DEF IInv, data, CountsHolders, ContentKept, References, Hashes

LEMMA CheckRetentionStep ==
    ASSUME IInv, NEW t \in Threads, CheckRetention(t) PROVE IInv'
<1>1. /\ UNCHANGED <<schema, data, process, next, cascade, due>> /\ process = "up"
      /\ pass' = [pass EXCEPT ![t].at = IF due THEN "claim" ELSE "idle"]
    BY DEF CheckRetention, running, IInv, Upgraded
<1>2. TypeOK'
    BY <1>1 DEF IInv, TypeOK, schema, data
<1>3. Drains'
    BY <1>1 DEF IInv, TypeOK, Drains, Expired, data
<1> QED BY <1>1, <1>2, <1>3, SameRows

LEMMA StartPassStep ==
    ASSUME IInv, NEW t \in Threads, StartPass(t) PROVE IInv'
<1>1. /\ UNCHANGED <<schema, data, process, next, cascade>> /\ process = "up" /\ due' = FALSE
      /\ pass' = [pass EXCEPT ![t] = [at |-> "deleting", backlog |-> Expired]]
    BY DEF StartPass, running, IInv, Upgraded
<1>2. TypeOK'
    <2>1. Expired \subseteq 1..MaxRows
        BY DEF IInv, TypeOK, Expired
    <2> QED BY <1>1, <2>1 DEF IInv, TypeOK, schema, data
<1>3. Drains'
    <2>1. Expired' = Expired
        BY <1>1 DEF Expired, data
    <2> QED BY <1>1, <2>1 DEF IInv, TypeOK, Drains
<1> QED BY <1>1, <1>2, <1>3, SameRows

LEMMA PassFailsStep ==
    ASSUME IInv, NEW t \in Threads, PassFails(t) PROVE IInv'
<1>1. /\ UNCHANGED <<schema, data, process, next, cascade, due>> /\ process = "up"
      /\ pass' = [pass EXCEPT ![t] = Idle]
    BY DEF PassFails, running, IInv, Upgraded
<1>2. TypeOK'
    BY <1>1 DEF IInv, TypeOK, schema, data, Idle
<1>3. Drains'
    BY <1>1 DEF IInv, TypeOK, Drains, Expired, data, Idle
<1> QED BY <1>1, <1>2, <1>3, SameRows

LEMMA DayPassesStep ==
    ASSUME IInv, DayPasses PROVE IInv'
<1>1. UNCHANGED <<schema, data, process, next, cascade, pass>> /\ process = "up" /\ due' = TRUE
    BY DEF DayPasses, running
<1>2. TypeOK'
    BY <1>1 DEF IInv, TypeOK, schema, data
<1>3. Drains'
    BY <1>1 DEF IInv, Drains, Expired, data
<1> QED BY <1>1, <1>2, <1>3, SameRows

LEMMA AgeStep ==
    ASSUME IInv, Age PROVE IInv'
<1>1. /\ UNCHANGED <<schema, store, events, miscounted, process, next, cascade, due, pass>>
      /\ process = "up"
    BY DEF Age, running
<1>2. PICK id \in DOMAIN rows : rows' = [rows EXCEPT ![id].expired = TRUE]
    BY DEF Age
<1>3. /\ DOMAIN rows' = DOMAIN rows /\ Expired \subseteq Expired'
      /\ \A i \in DOMAIN rows : rows'[i].stored = rows[i].stored /\ rows'[i].hash = rows[i].hash
      /\ rows' \in [DOMAIN rows -> Rows]
    <2>1. rows \in [DOMAIN rows -> Rows] /\ rows[id] \in Rows
        BY <1>2 DEF IInv, TypeOK
    <2>2. PICK r : r = [rows[id] EXCEPT !.expired = TRUE]
        OBVIOUS
    <2>3. /\ r \in Rows /\ r.expired
          /\ r.stored = rows[id].stored /\ r.hash = rows[id].hash
        BY <2>1, <2>2 DEF Rows
    <2>4. rows' = [rows EXCEPT ![id] = r]
        BY <1>2, <2>2
    <2>5. rows' \in [DOMAIN rows -> Rows] /\ \A i \in DOMAIN rows : rows'[i] = rows[i] \/ i = id
        BY <2>1, <2>3, <2>4
    <2>6. rows'[id] = r
        BY <2>1, <2>4
    <2> QED BY <2>3, <2>5, <2>6 DEF Expired
<1>4. TypeOK'
    BY <1>1, <1>3 DEF IInv, TypeOK, schema
<1>5. Upgraded'
    BY <1>1 DEF IInv, Upgraded, schema
<1>6. \A h : Holders(h)' = Holders(h)
    BY <1>3 DEF Holders
<1>7. \A i \in DOMAIN rows : References(rows'[i]) = References(rows[i])
    BY <1>3 DEF References, Hashes
<1>8. CountsHolders'
    BY <1>1, <1>3, <1>6, <1>7 DEF IInv, CountsHolders, References, Hashes
<1>9. ContentKept' /\ Drains'
    BY <1>1, <1>3 DEF IInv, ContentKept, Drains
<1> QED BY <1>4, <1>5, <1>8, <1>9 DEF IInv

LEMMA PruneStep ==
    ASSUME IInv, NEW t \in Threads, PruneContent(t) PROVE IInv'
<1>1. /\ UNCHANGED <<schema, rows, events, miscounted, process, next, cascade, due>>
      /\ process = "up" /\ pass' = [pass EXCEPT ![t] = Idle]
    BY DEF PruneContent, running, IInv, Upgraded
<1>2. /\ DOMAIN store' = {c \in DOMAIN store : store[c] > 0}
      /\ \A h \in DOMAIN store' : store'[h] = store[h]
      /\ store' = [h \in DOMAIN store' |-> store[h]]
    BY DEF PruneContent
<1>3. TypeOK'
    BY <1>1, <1>2 DEF IInv, TypeOK, schema, Idle
<1>4. Upgraded'
    BY <1>1 DEF IInv, TypeOK, Upgraded, schema, Idle
<1>5. \A h : Holders(h)' = Holders(h) /\ Holders(h) \subseteq DOMAIN rows
    BY <1>1 DEF Holders
<1>6. CountsHolders'
    BY <1>1, <1>2, <1>5 DEF IInv, CountsHolders, References, Hashes
<1>7. ContentKept'
    <2>1. ASSUME NEW i \in DOMAIN rows, NEW h \in rows[i].stored, h \notin miscounted
          PROVE  h \in DOMAIN store'
        <3>1. h \in DOMAIN store /\ store[h] = Cardinality(Holders(h)) /\ i \in Holders(h)
            BY <2>1 DEF IInv, ContentKept, CountsHolders, Holders
        <3>2. Cardinality(Holders(h)) # 0 /\ Cardinality(Holders(h)) \in Nat
            BY <1>5, <3>1, FiniteRows, FS_EmptySet DEF IInv
        <3> QED BY <1>2, <3>1, <3>2
    <2> QED BY <1>1, <2>1 DEF ContentKept
<1>8. Drains'
    BY <1>1 DEF IInv, TypeOK, Drains, Expired, Idle
<1> QED BY <1>3, <1>4, <1>6, <1>7, <1>8 DEF IInv

\* A chunk that is not full was all there was.
LEMMA LastChunk ==
    ASSUME TypeOK, NEW D \in SUBSET Expired,
           Cardinality(D) = Smaller(Chunk, Cardinality(Expired)),
           AfterChunk(Cardinality(D)) = "pruning"
    PROVE  D = Expired
<1>1. Expired \subseteq DOMAIN rows
    BY DEF Expired
<1>2. IsFiniteSet(Expired) /\ Cardinality(Expired) \in Nat /\ Cardinality(D) \in Nat
    BY <1>1, FiniteRows
<1>3. Cardinality(D) < Chunk
    BY DEF AfterChunk
<1>4. Cardinality(D) = Cardinality(Expired)
    BY <1>2, <1>3, RequestDBAssumption DEF Smaller
<1> QED BY <1>2, <1>4, FS_Subset

LEMMA DeleteChunkStep ==
    ASSUME IInv, NEW t \in Threads, DeleteChunk(t) PROVE IInv'
<1>1. PICK D \in SUBSET Expired :
        /\ Cardinality(D) = Smaller(Chunk, Cardinality(Expired))
        /\ rows' = [id \in DOMAIN rows \ D |-> rows[id]]
        /\ store' = [h \in DOMAIN store |-> store[h]
                        - Cardinality({id \in D : h \in Hashes(rows[id], triggers["delete"])})]
        /\ events' = IF cascade THEN events \ D ELSE events
        /\ miscounted' = miscounted \cup
              (DOMAIN store \cap UNION {References(rows[id]) \ rows[id].stored : id \in D})
        /\ pass' = [u \in Threads |->
              [at |-> IF u = t THEN AfterChunk(Cardinality(D)) ELSE pass[u].at,
               backlog |-> pass[u].backlog \ D]]
    BY DEF DeleteChunk
<1>2. /\ UNCHANGED <<schema, process, next, cascade, due>> /\ process = "up"
      /\ pass[t].at = "deleting"
    BY DEF DeleteChunk, running, IInv, Upgraded
<1>3. triggers["delete"] = HashColumns
    BY <1>2 DEF IInv, Upgraded, Latest, TriggerNames
<1>4. D \subseteq DOMAIN rows
    BY DEF Expired
<1>5. /\ DOMAIN rows' = DOMAIN rows \ D /\ \A i \in DOMAIN rows' : rows'[i] = rows[i]
      /\ DOMAIN store' = DOMAIN store
    BY <1>1
<1> DEFINE Taken(h) == {id \in D : h \in References(rows[id])}
<1>6. \A h \in DOMAIN store :
        store'[h] = store[h] - Cardinality(Taken(h)) /\ Cardinality(Taken(h)) \in Nat
    <2>1. \A h : Taken(h) \in SUBSET DOMAIN rows
        BY <1>4
    <2>2. \A h : Cardinality(Taken(h)) \in Nat
        BY <2>1, FiniteRows DEF IInv
    <2>3. \A h : Taken(h) = {id \in D : h \in Hashes(rows[id], triggers["delete"])}
        BY <1>3 DEF References
    <2> HIDE DEF Taken
    <2> QED BY <1>1, <2>2, <2>3
<1>7. TypeOK'
    <2>1. store' \in [DOMAIN store' -> Int] /\ DOMAIN store' \subseteq Contents
        <3>1. store' = [h \in DOMAIN store |-> store'[h]]
            BY <1>1
        <3> HIDE DEF Taken
        <3> QED BY <3>1, <1>5, <1>6 DEF IInv, TypeOK
    <2>2. rows' \in [DOMAIN rows' -> Rows] /\ DOMAIN rows' \subseteq 1..MaxRows
        BY <1>1, <1>5 DEF IInv, TypeOK
    <2>3. pass' \in [Threads -> [at : {"idle", "check", "claim", "deleting", "pruning"},
                                 backlog : SUBSET (1..MaxRows)]]
        BY <1>1 DEF IInv, TypeOK, AfterChunk
    <2>4. events' \subseteq 1..MaxRows /\ miscounted' \subseteq Contents
        BY <1>1 DEF IInv, TypeOK
    <2> QED BY <1>2, <2>1, <2>2, <2>3, <2>4 DEF IInv, TypeOK, schema
<1>8. Upgraded'
    BY <1>2 DEF IInv, Upgraded, schema
<1>9. CountsHolders'
    <2>1. ASSUME NEW h \in DOMAIN store \ miscounted'
          PROVE  store'[h] = Cardinality(Holders(h)')
        <3>1. h \in DOMAIN store /\ h \notin miscounted
            BY <1>1, <2>1
        <3>2. \A id \in D : h \in References(rows[id]) <=> h \in rows[id].stored
            <4>1. \A id \in D : h \notin References(rows[id]) \ rows[id].stored
                BY <1>1, <2>1, <3>1
            <4> QED BY <4>1, <1>4 DEF IInv, CountsHolders
        <3>3. Taken(h) = Holders(h) \cap D /\ Holders(h)' = Holders(h) \ D
            BY <1>4, <1>5, <3>2 DEF Holders
        <3>4. IsFiniteSet(Holders(h)) /\ Cardinality(Holders(h)) \in Nat
            <4>1. Holders(h) \in SUBSET DOMAIN rows
                BY DEF Holders
            <4> QED BY <4>1, FiniteRows DEF IInv
        <3>5. Cardinality(Holders(h) \ D) = Cardinality(Holders(h)) - Cardinality(Holders(h) \cap D)
            BY <3>4, FS_Difference
        <3>6. store[h] = Cardinality(Holders(h))
            BY <3>1 DEF IInv, CountsHolders
        <3> HIDE DEF Taken
        <3> QED BY <3>1, <3>3, <3>5, <3>6, <1>6
    <2>2. \A i \in DOMAIN rows' : rows'[i].stored \subseteq References(rows'[i])
        BY <1>5 DEF IInv, CountsHolders
    <2> QED BY <1>5, <2>1, <2>2 DEF CountsHolders, References, Hashes
<1>10. ContentKept'
    BY <1>1, <1>5 DEF IInv, ContentKept
<1>11. Drains'
    <2>1. Expired' = Expired \ D
        BY <1>5 DEF Expired
    <2>2. ASSUME NEW u \in Threads, pass'[u].at = "deleting"
          PROVE  pass'[u].backlog \subseteq Expired'
        <3>1. pass[u].at = "deleting" /\ pass'[u].backlog = pass[u].backlog \ D
            BY <1>1, <1>2, <2>2
        <3> QED BY <2>1, <3>1 DEF IInv, Drains
    <2>3. ASSUME NEW u \in Threads, pass'[u].at = "pruning"
          PROVE  pass'[u].backlog = {}
        <3>1. CASE u = t
            <4>1. AfterChunk(Cardinality(D)) = "pruning" /\ pass'[u].backlog = pass[u].backlog \ D
                BY <1>1, <2>3, <3>1
            <4>2. D = Expired
                BY <1>1, <4>1, LastChunk DEF IInv
            <4>3. pass[u].backlog \subseteq Expired
                BY <1>2, <3>1 DEF IInv, Drains
            <4> QED BY <4>1, <4>2, <4>3
        <3>2. CASE u # t
            <4>1. pass[u].at = "pruning" /\ pass'[u].backlog = pass[u].backlog \ D
                BY <1>1, <2>3, <3>2
            <4> QED BY <4>1 DEF IInv, Drains
        <3> QED BY <3>1, <3>2
    <2> QED BY <2>2, <2>3 DEF Drains
<1> QED BY <1>7, <1>8, <1>9, <1>10, <1>11 DEF IInv

-----------------------------------------------------------------------------
(***************************************************************************)
(* The theorems.                                                           *)
(***************************************************************************)

\* The inductive invariant of the request store.
THEOREM StoreInvariantTheorem == Spec => []IInv
<1>1. Init => IInv
    BY InitIInv
<1>2. IInv /\ [Next]_vars => IInv'
    <2> SUFFICES ASSUME IInv, [Next]_vars PROVE IInv'
        OBVIOUS
    <2>1. CASE Start
        BY <2>1, StartStep
    <2>2. CASE Upgrade
        BY <2>2, AddTwiceStep, ColumnStep, TriggerStep, BumpVersionStep, RebuildStep DEF Upgrade
    <2>3. CASE Crash
        BY <2>3, CrashStep
    <2>4. CASE Age \/ DayPasses
        BY <2>4, AgeStep, DayPassesStep
    <2>5. CASE \E t \in Threads : Record(t) \/ Retention(t)
        BY <2>5, RecordStep, CheckRetentionStep, StartPassStep, DeleteChunkStep, PruneStep,
           PassFailsStep DEF Retention
    <2>6. CASE UNCHANGED vars
        <3>1. \A h : Holders(h)' = Holders(h)
            BY <2>6 DEF vars, data, Holders
        <3> QED BY <2>6, <3>1
                DEF vars, schema, data, running, IInv, TypeOK, Upgraded, CountsHolders,
                    ContentKept, Drains, Expired, References, Hashes
    <2> QED BY <2>1, <2>2, <2>3, <2>4, <2>5, <2>6 DEF Next
<1> QED BY <1>1, <1>2, PTL DEF Spec

\* The state is well formed.
THEOREM TypeTheorem == Spec => []TypeOK
<1>1. IInv => TypeOK
    BY DEF IInv
<1> QED BY <1>1, StoreInvariantTheorem, PTL

\* No content that was stored with a row is lost while the row is kept (db.py:12).
THEOREM ContentKeptTheorem == Spec => []ContentKept
<1>1. IInv => ContentKept
    BY DEF IInv
<1> QED BY <1>1, StoreInvariantTheorem, PTL

\* No content is kept for good: a positive count has a row that references the content.
THEOREM ContentReclaimedTheorem == Spec => []ContentReclaimed
<1>1. IInv => ContentReclaimed
    <2> SUFFICES ASSUME IInv, NEW h \in DOMAIN store \ miscounted, store[h] > 0
                 PROVE  \E id \in DOMAIN rows : h \in References(rows[id])
        BY DEF ContentReclaimed
    <2>1. Cardinality(Holders(h)) # 0
        BY DEF IInv, CountsHolders
    <2>2. Holders(h) # {}
        BY <2>1, FS_EmptySet
    <2> QED BY <2>2 DEF IInv, CountsHolders, Holders
<1> QED BY <1>1, StoreInvariantTheorem, PTL

\* A start fails only at migration 1 or 2.
THEOREM StartsAgainTheorem == Spec => []StartsAgain
<1>1. IInv => StartsAgain
    BY DEF IInv, Upgraded, StartsAgain
<1> QED BY <1>1, StoreInvariantTheorem, PTL

\* A pass has deleted every row that was expired when it began before it prunes.
THEOREM PassDrainsTheorem == Spec => []PassDrains
<1>1. IInv => PassDrains
    BY DEF IInv, Drains, PassDrains
<1> QED BY <1>1, StoreInvariantTheorem, PTL

\* Only retention takes a row, and the row's events with it.
THEOREM OnlyRetentionDeletesTheorem == Spec => OnlyRetentionDeletes
<1> DEFINE A == LET gone == DOMAIN rows \ DOMAIN rows'
                IN  /\ \A id \in gone : process = "up" /\ rows[id].expired
                    /\ events \ events' = events \cap gone
<1>1. IInv /\ [Next]_vars => [A]_vars
    <2> SUFFICES ASSUME IInv, Next PROVE A
        OBVIOUS
    <2>1. CASE \E t \in Threads : DeleteChunk(t)
        <3>1. PICK t \in Threads : DeleteChunk(t)
            BY <2>1
        <3>2. PICK D \in SUBSET Expired :
                /\ rows' = [id \in DOMAIN rows \ D |-> rows[id]]
                /\ events' = IF cascade THEN events \ D ELSE events
            BY <3>1 DEF DeleteChunk
        <3>3. process = "up" /\ cascade
            BY <3>1 DEF DeleteChunk, IInv, Upgraded
        <3> QED BY <3>2, <3>3 DEF Expired
    <2>2. CASE \E t \in Threads : Record(t)
        <3>1. DOMAIN rows \subseteq DOMAIN rows' /\ events \subseteq events'
            BY <2>2 DEF Record
        <3> QED BY <3>1
    <2>3. CASE Age
        BY <2>3 DEF Age, IInv, TypeOK
    <2>4. CASE RebuildRequests
        BY <2>4 DEF RebuildRequests, IInv, Upgraded
    <2>5. ASSUME UNCHANGED <<rows, events>> PROVE A
        BY <2>5
    <2>6. CASE \/ Start \/ Crash \/ DayPasses
               \/ AddColumn \/ AddTwice \/ EnsureColumn \/ DropTrigger \/ CreateTrigger
               \/ BumpVersion
               \/ \E t \in Threads :
                    CheckRetention(t) \/ StartPass(t) \/ PruneContent(t) \/ PassFails(t)
        BY <2>5, <2>6
           DEF Start, Crash, DayPasses, AddColumn, AddTwice, EnsureColumn, DropTrigger,
               CreateTrigger, BumpVersion, Executed, CheckRetention, StartPass, PruneContent,
               PassFails, data
    <2> QED BY <2>1, <2>2, <2>3, <2>4, <2>6 DEF Next, Upgrade, Retention
<1>2. QED BY <1>1, StoreInvariantTheorem, PTL DEF Spec, OnlyRetentionDeletes
=============================================================================
