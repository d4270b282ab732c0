------------------------------- MODULE RequestDB -------------------------------
(***************************************************************************)
(* The SQLite request store (db.py): the upgrade of a file an earlier      *)
(* release left, rows recorded by handler threads with the ref-counted     *)
(* content they point to, and the retention passes that delete both.       *)
(*                                                                         *)
(* A transaction is one action, and so is a statement that commits by      *)
(* itself; the process may be killed between two of them.  Three hash      *)
(* columns stand for the six: "base" for those of migration 0, "caveman"   *)
(* and "opening" for those migrations 4 and 7 added.                       *)
(***************************************************************************)
EXTENDS Integers, Sequences, FiniteSets

CONSTANTS
    Threads,    \* handler threads
    Contents,   \* what a hash can stand for
    None,       \* a hash column that is NULL
    Chunk,      \* _RETENTION_CHUNK
    MaxRows     \* bound: the highest row id

ASSUME RequestDBAssumption ==
    /\ None \notin Contents
    /\ Chunk \in Nat \ {0} /\ MaxRows \in Nat \ {0}
    /\ IsFiniteSet(Threads) /\ IsFiniteSet(Contents)

VARIABLES
    version,    \* PRAGMA user_version
    columns,    \* the columns added since the first schema
    triggers,   \* the hash columns each ref-count trigger counts; {} if it is dropped
    rows,       \* requests, by id
    store,      \* prompt_store: the ref_count of each content that is kept
    events,     \* the rows with sanitizer_events
    process,    \* "down", "upgrading", "failed" to start, or "up"
    next,       \* the migration's next statement
    cascade,    \* the connection's PRAGMA foreign_keys
    due,        \* _last_retention_at is unset or over 24 hours ago
    pass,       \* each thread in _maybe_run_retention
    miscounted  \* history: contents a deleted row took a count from that it had not added

schema == <<version, columns, triggers>>
data == <<rows, store, events, miscounted>>
running == <<process, next, cascade>>
vars == <<schema, data, running, due, pass>>

Latest == 9     \* _SCHEMA_VERSION
HashColumns == {"base", "caveman", "opening"}
TriggerNames == {"insert", "delete"}

\* A row: its hashes, whether it is past the retention window, and (history) the contents
\* that were stored when it was recorded.
Rows == [hash : [HashColumns -> Contents \cup {None}], expired : BOOLEAN,
         stored : SUBSET Contents]

Hashes(row, counted) == {row.hash[c] : c \in counted} \ {None}
References(row) == Hashes(row, HashColumns)

Idle == [at |-> "idle", backlog |-> {}]

-----------------------------------------------------------------------------
(***************************************************************************)
(* The migrations: their statements, in order.  Each commits by itself,    *)
(* since the driver opens no transaction for DDL; migration 8 begins one,  *)
(* so it has no statement of its own here.                                 *)
(***************************************************************************)

\* ALTER TABLE ADD COLUMN fails on a column that is there; a guarded one is skipped.
Add(c) == [does |-> "add", name |-> c, counts |-> {}]
AddGuarded(c) == [does |-> "guarded", name |-> c, counts |-> {}]
Drop(t) == [does |-> "drop", name |-> t, counts |-> {}]
Create(t, counted) == [does |-> "create", name |-> t, counts |-> counted]

\* Mutants: only one trigger is made again for a new column.
RecountDeletes(counted) == <<Drop("delete"), Create("delete", counted)>>
RecountInserts(counted) == <<Drop("insert"), Create("insert", counted)>>

\* Both triggers are made again to count a new column.
Recount(counted) ==
    <<Drop("insert"), Drop("delete"), Create("insert", counted), Create("delete", counted)>>

Migration(v) ==
    CASE v = 0 -> <<AddGuarded("tables"), Create("insert", {"base"}), Create("delete", {"base"})>>
      [] v = 1 -> <<Add("payload_full")>>
      [] v = 2 -> <<Add("system_prompt_score"), Add("user_prompt_score"),
                    Add("routing_weighted_score")>>
      [] v = 3 -> <<AddGuarded("classifier_stop_reason")>>
      [] v = 4 -> <<AddGuarded("system_prompt_caveman_sha256")>> \o Recount({"base", "caveman"})
      [] v = 5 -> <<AddGuarded("user_prompt_dispatched_text")>>
      [] v = 6 -> <<AddGuarded("upstream_request_id")>>
      [] v = 7 -> <<AddGuarded("opening_system_sha256"),
                    AddGuarded("opening_system_dispatched_sha256"),
                    AddGuarded("attribution_reminders_stripped")>> \o Recount(HashColumns)
      [] OTHER -> <<>>

Columns(v) == {Migration(v)[i].name : i \in 1..Len(Migration(v))} \ TriggerNames
ColumnsBefore(v) == UNION {Columns(u) : u \in 0..(v - 1)}

\* What a finished upgrade to a version counts.
Counted(v) ==
    IF v = 0 THEN {} ELSE IF v < 5 THEN {"base"} ELSE IF v < 8 THEN {"base", "caveman"}
    ELSE HashColumns

\* The row an earlier release left, if any.
OldRows(v) ==
    {r \in Rows : /\ \A c \in HashColumns \ Counted(v) : r.hash[c] = None
                  /\ r.stored = References(r) /\ ~r.expired}

\* A new file, or one an earlier release closed.
Init ==
    /\ version \in 0..Latest
    /\ columns = ColumnsBefore(version)
    /\ triggers = [t \in TriggerNames |-> Counted(version)]
    /\ \/ rows = <<>> /\ store = <<>> /\ events = {}
       \/ /\ version > 0
          /\ \E r \in OldRows(version) :
                /\ rows = [id \in {1} |-> r] /\ store = [h \in r.stored |-> 1]
                /\ events = IF r.hash["base"] # None THEN {1} ELSE {}
    /\ process = "down" /\ next = 1 /\ cascade = TRUE
    /\ due = TRUE /\ pass = [t \in Threads |-> Idle]
    /\ miscounted = {}

-----------------------------------------------------------------------------
(***************************************************************************)
(* Start: __init__ and ensure_schema.                                      *)
(***************************************************************************)

\* A new connection enforces foreign keys; ensure_schema turns them off to upgrade.
Start ==
    /\ process = "down"
    /\ process' = IF version = Latest THEN "up" ELSE "upgrading"
    /\ cascade' = (version = Latest)
    /\ next' = 1 /\ due' = TRUE
    /\ UNCHANGED <<schema, data, pass>>

Statement == Migration(version)[next]

AtStatement(kind) ==
    /\ process = "upgrading"
    /\ next <= Len(Migration(version))
    /\ Statement.does = kind

Executed ==
    /\ next' = next + 1
    /\ UNCHANGED <<version, data, process, cascade, due, pass>>

\* Mutant: foreign keys stay off after an upgrade.
LeavesForeignKeysOff(result) == process' = result /\ next' = 1 /\ UNCHANGED cascade

\* ensure_schema's finally turns the foreign keys on again, whatever ended the upgrade.
EndUpgrade(result) == process' = result /\ cascade' = TRUE /\ next' = 1

AddColumn ==
    /\ AtStatement("add") /\ Statement.name \notin columns
    /\ columns' = columns \cup {Statement.name}
    /\ Executed /\ UNCHANGED triggers

\* "duplicate column name": the constructor raises, and the server does not start.
AddTwice ==
    /\ AtStatement("add") /\ Statement.name \in columns
    /\ EndUpgrade("failed")
    /\ UNCHANGED <<schema, data, due, pass>>

EnsureColumn ==
    /\ AtStatement("guarded")
    /\ columns' = columns \cup {Statement.name}
    /\ Executed /\ UNCHANGED triggers

DropTrigger ==
    /\ AtStatement("drop")
    /\ triggers' = [triggers EXCEPT ![Statement.name] = {}]
    /\ Executed /\ UNCHANGED columns

CreateTrigger ==
    /\ AtStatement("create")
    /\ triggers' = [triggers EXCEPT ![Statement.name] = IF @ = {} THEN Statement.counts ELSE @]
    /\ Executed /\ UNCHANGED columns

BumpVersion ==
    /\ process = "upgrading" /\ version < Latest - 1
    /\ next > Len(Migration(version))
    /\ version' = version + 1 /\ next' = 1
    /\ UNCHANGED <<columns, triggers, data, process, cascade, due, pass>>

\* Migration 8, one transaction: the rows are copied and their triggers made again from
\* their text.  Dropping the old table would cascade to the events.
RebuildRequests ==
    /\ process = "upgrading" /\ version = Latest - 1
    /\ version' = Latest
    /\ columns' = columns \cup {"thread_model"}
    /\ events' = IF cascade THEN {} ELSE events
    /\ EndUpgrade("up")
    /\ UNCHANGED <<triggers, rows, store, miscounted, due, pass>>

Crash ==
    /\ process # "down"
    /\ process' = "down" /\ next' = 1 /\ cascade' = TRUE
    /\ due' = TRUE /\ pass' = [t \in Threads |-> Idle]
    /\ UNCHANGED <<schema, data>>

-----------------------------------------------------------------------------
(***************************************************************************)
(* Recording: the capture of _prepare and record_request's transaction.    *)
(***************************************************************************)

\* The hashes of a request.  A capture that failed (text that does not encode) has none for
\* the client's own prompt and tools, nor for the opening turn; the sanitizer and the caveman
\* rewrite set theirs all the same.
Captures(failed) ==
    {hash \in [HashColumns -> Contents \cup {None}] : failed => hash["opening"] = None}

\* SQLite's next id: one more than the highest that is left.
IsNextId(id) == (\A other \in DOMAIN rows : other < id) /\ (id = 1 \/ id - 1 \in DOMAIN rows)

RefCount(h) == IF h \in DOMAIN store THEN store[h] ELSE 0
One(condition) == IF condition THEN 1 ELSE 0

\* The contents go in before the row, so that the trigger finds them; a failed capture has
\* no prompt_store entries.  The sanitizer had an event if there was a system prompt.
Record(t) ==
    /\ process = "up" /\ pass[t].at = "idle"
    /\ \E id \in 1..MaxRows, failed \in BOOLEAN : \E hash \in Captures(failed) :
        LET referenced == {hash[c] : c \in HashColumns} \ {None}
            kept == DOMAIN store \cup (IF failed THEN {} ELSE referenced)
            row == [hash |-> hash, expired |-> FALSE, stored |-> referenced \cap kept]
        IN  /\ IsNextId(id)
            /\ rows' = [i \in DOMAIN rows \cup {id} |-> IF i = id THEN row ELSE rows[i]]
            /\ store' = [h \in kept |-> RefCount(h) + One(h \in Hashes(row, triggers["insert"]))]
            /\ events' = IF hash["base"] # None THEN events \cup {id} ELSE events
    /\ pass' = [pass EXCEPT ![t].at = "check"]
    /\ UNCHANGED <<schema, miscounted, running, due>>

-----------------------------------------------------------------------------
(***************************************************************************)
(* Retention: _maybe_run_retention after a row, and run_retention.         *)
(***************************************************************************)

Expired == {id \in DOMAIN rows : rows[id].expired}

\* _last_retention_at is read and set outside the lock: two threads may both find it due.
CheckRetention(t) ==
    /\ pass[t].at = "check"
    /\ pass' = [pass EXCEPT ![t].at = IF due THEN "claim" ELSE "idle"]
    /\ UNCHANGED <<schema, data, running, due>>

StartPass(t) ==
    /\ pass[t].at = "claim"
    /\ due' = FALSE
    /\ pass' = [pass EXCEPT ![t] = [at |-> "deleting", backlog |-> Expired]]
    /\ UNCHANGED <<schema, data, running>>

\* Mutant: a full chunk ends the pass.
StopsAtFull(deleted) == IF deleted <= Chunk THEN "pruning" ELSE "deleting"

\* The last chunk is the first that is not full.
AfterChunk(deleted) == IF deleted < Chunk THEN "pruning" ELSE "deleting"

Smaller(m, n) == IF m < n THEN m ELSE n

\* One transaction: at most Chunk expired rows go, and their events if the connection
\* enforces foreign keys.
DeleteChunk(t) ==
    /\ pass[t].at = "deleting"
    /\ \E D \in SUBSET Expired :
        /\ Cardinality(D) = Smaller(Chunk, Cardinality(Expired))
        /\ rows' = [id \in DOMAIN rows \ D |-> rows[id]]
        /\ store' = [h \in DOMAIN store |-> store[h]
                        - Cardinality({id \in D : h \in Hashes(rows[id], triggers["delete"])})]
        /\ events' = IF cascade THEN events \ D ELSE events
        /\ miscounted' = miscounted \cup
              (DOMAIN store \cap UNION {References(rows[id]) \ rows[id].stored : id \in D})
        /\ pass' = [u \in Threads |->
              [at |-> IF u = t THEN AfterChunk(Cardinality(D)) ELSE pass[u].at,
               backlog |-> pass[u].backlog \ D]]
    /\ UNCHANGED <<schema, running, due>>

PruneContent(t) ==
    /\ pass[t].at = "pruning"
    /\ store' = [h \in {c \in DOMAIN store : store[c] > 0} |-> store[h]]
    /\ pass' = [pass EXCEPT ![t] = Idle]
    /\ UNCHANGED <<schema, rows, events, miscounted, running, due>>

\* A transaction that fails is rolled back, and the pass is given up until the next day.
PassFails(t) ==
    /\ pass[t].at \in {"deleting", "pruning"}
    /\ pass' = [pass EXCEPT ![t] = Idle]
    /\ UNCHANGED <<schema, data, running, due>>

\* Rows leave the window in the order they were written.  That they do so only while the
\* server runs loses nothing: nobody looks before.
Age ==
    /\ process = "up"
    /\ \E id \in DOMAIN rows :
        /\ ~rows[id].expired
        /\ \A older \in DOMAIN rows : older < id => rows[older].expired
        /\ rows' = [rows EXCEPT ![id].expired = TRUE]
    /\ UNCHANGED <<schema, store, events, miscounted, running, due, pass>>

\* A pass takes less than a day.
DayPasses ==
    /\ process = "up" /\ ~due
    /\ \A t \in Threads : pass[t] = Idle
    /\ due' = TRUE
    /\ UNCHANGED <<schema, data, running, pass>>

-----------------------------------------------------------------------------

Upgrade == AddColumn \/ AddTwice \/ EnsureColumn \/ DropTrigger \/ CreateTrigger \/ BumpVersion
           \/ RebuildRequests

Retention(t) == CheckRetention(t) \/ StartPass(t) \/ DeleteChunk(t) \/ PruneContent(t) \/ PassFails(t)

Next ==
    \/ Start \/ Upgrade \/ Crash \/ Age \/ DayPasses
    \/ \E t \in Threads : Record(t) \/ Retention(t)

Spec == Init /\ [][Next]_vars

-----------------------------------------------------------------------------

AddedColumns ==
    {"tables", "payload_full", "system_prompt_score", "user_prompt_score",
     "routing_weighted_score", "classifier_stop_reason", "system_prompt_caveman_sha256",
     "user_prompt_dispatched_text", "upstream_request_id", "opening_system_sha256",
     "opening_system_dispatched_sha256", "attribution_reminders_stripped", "thread_model"}

\* Type correctness.
TypeOK ==
    /\ version \in 0..Latest /\ columns \subseteq AddedColumns
    /\ triggers \in [TriggerNames -> SUBSET HashColumns]
    /\ DOMAIN rows \subseteq 1..MaxRows /\ rows \in [DOMAIN rows -> Rows]
    /\ DOMAIN store \subseteq Contents /\ store \in [DOMAIN store -> Int]
    /\ events \subseteq 1..MaxRows
    /\ process \in {"down", "upgrading", "failed", "up"} /\ next \in Nat \ {0}
    /\ cascade \in BOOLEAN /\ due \in BOOLEAN
    /\ pass \in [Threads -> [at : {"idle", "check", "claim", "deleting", "pruning"},
                             backlog : SUBSET (1..MaxRows)]]
    /\ miscounted \subseteq Contents

\* Content that was stored with a row is kept as long as the row is, whatever two passes, a
\* pass that gave up, a restart and an upgrade that was cut short did in between (db.py:12);
\* unless a row recorded without its content took a count away when it was deleted.
ContentKept ==
    \A id \in DOMAIN rows : rows[id].stored \subseteq DOMAIN store \cup miscounted

\* Content with a positive count is referenced by a row: whatever is no longer referenced
\* goes with the next pass, and nothing is kept for good (the docstring of migration 4).
ContentReclaimed ==
    \A h \in DOMAIN store \ miscounted :
        store[h] > 0 => \E id \in DOMAIN rows : h \in References(rows[id])

\* Only retention takes a row, once it is past the window, and the row's events go with it
\* and never otherwise.  An upgrade, cut short anywhere and begun again, loses nothing; and
\* no event is left for the next row that SQLite gives the same id.
OnlyRetentionDeletes ==
    [][LET gone == DOMAIN rows \ DOMAIN rows'
       IN  /\ \A id \in gone : process = "up" /\ rows[id].expired
           /\ events \ events' = events \cap gone]_vars

\* A start that fails was cut short before in migration 1 or 2, which do not look before
\* they add a column; any other interruption is made good by the next start.
StartsAgain == process = "failed" => version \in {1, 2}

\* When a pass has come to the content, every row that was expired when it began is gone,
\* with two passes at once too.
PassDrains == \A t \in Threads : pass[t].at = "pruning" => pass[t].backlog = {}
=============================================================================
