-------------------------- MODULE ConfigEditorProofs --------------------------
(***************************************************************************)
(* Proofs about ConfigEditor for every set of admins, ports and levels.    *)
(***************************************************************************)
EXTENDS ConfigEditor, TLAPS

\* What a thread past its early returns carries: the Config it read has the port
\* of the running process, and its submission is complete.
ThreadOK(h) ==
    /\ admins[h].phase = "reading" => admins[h].base \in Configs
    /\ admins[h].phase \in {"waiting", "locked", "written"} =>
        /\ admins[h].base \in Configs /\ admins[h].body \in Configs
        /\ admins[h].base.port = memory.port
        /\ admins[h].given = Names
    /\ admins[h].phase \in {"locked", "written"} => Validate(admins[h].body)
    /\ admins[h].phase = "written" => file = admins[h].body

\* Only the thread between its write and its swap lets the two places differ.
InStep == (\A h \in Admins : admins[h].phase # "written")
            => \A n \in Live : memory[n] = file[n]

\* The inductive invariant.
IInv == TypeOK /\ ThresholdsOrdered /\ InStep /\ \A h \in Admins : ThreadOK(h)

\* A merge of two configurations is one, and takes each field where it says.
LEMMA MergeType ==
    ASSUME NEW old \in Configs, NEW new \in Configs, NEW names
    PROVE  /\ Merge(old, new, names) \in Configs
           /\ \A n \in Names : Merge(old, new, names)[n] =
                                IF n \in names THEN new[n] ELSE old[n]
BY DEF Merge, Configs, Names, Live

\* A complete submission replaces the whole configuration.
LEMMA MergeAll ==
    ASSUME NEW old \in Configs, NEW new \in Configs
    PROVE  Merge(old, new, Names) = new
BY DEF Merge, Configs, Names, Live

\* What a POST submits is a configuration.
LEMMA SubmissionsType ==
    ASSUME NEW h \in Admins, admins[h].seen \in Configs
    PROVE  Submissions(h) \subseteq Configs
<1>1. SUFFICES ASSUME NEW n \in Names, NEW v \in ValuesOf(n)
               PROVE  [admins[h].seen EXCEPT ![n] = v] \in Configs
    BY DEF Submissions
<1>2. CASE n = "routing"  BY <1>1, <1>2 DEF Configs, ValuesOf
<1>3. CASE n = "trivial"  BY <1>1, <1>3 DEF Configs, ValuesOf
<1>4. CASE n = "standard" BY <1>1, <1>4 DEF Configs, ValuesOf
<1>5. CASE n = "port"     BY <1>1, <1>5 DEF Configs, ValuesOf
<1>6. QED BY <1>2, <1>3, <1>4, <1>5 DEF Names, Live

\* The process starts with one configuration in both places.
LEMMA InitInv == Init => IInv
<1>1. SUFFICES ASSUME Init PROVE IInv
    OBVIOUS
<1>2. file \in Configs /\ Validate(file) /\ memory = file
    BY <1>1 DEF Init
<1>3. TypeOK
    BY <1>1, <1>2, ConfigEditorAssumption DEF Init, TypeOK, Idle, AdminRecords, Configs
<1>4. ThresholdsOrdered /\ InStep
    BY <1>2 DEF ThresholdsOrdered, InStep
<1>5. \A h \in Admins : ThreadOK(h)
    BY <1>1 DEF Init, Idle, ThreadOK
<1>6. QED BY <1>3, <1>4, <1>5 DEF IInv

\* An action of one thread that leaves the configurations alone keeps IInv when
\* the thread's new record is well formed.
LEMMA ThreadStep ==
    ASSUME IInv, NEW h \in Admins, NEW r \in AdminRecords,
           admins' = [admins EXCEPT ![h] = r],
           UNCHANGED <<memory, file, sessionVars>>, lock' \in Admins \cup {None},
           r.phase \in {"locked", "written"} <=> lock' = h,
           \A g \in Admins \ {h} : (lock' = g) <=> (lock = g),
           admins[h].phase = "written" => r.phase = "written",
           ThreadOK(h)'
    PROVE  IInv'
<1> USE DEF IInv
<1>1. \A g \in Admins \ {h} : admins'[g] = admins[g]
    BY DEF TypeOK
<1>2. admins'[h] = r
    BY DEF TypeOK
<1>3. TypeOK'
    BY <1>1, <1>2 DEF TypeOK, sessionVars
<1>4. ThresholdsOrdered'
    BY DEF ThresholdsOrdered, Validate
<1>5. InStep'
    BY <1>1, <1>2 DEF InStep
<1>6. \A g \in Admins : ThreadOK(g)'
    BY <1>1 DEF ThreadOK, Validate
<1>7. QED BY <1>3, <1>4, <1>5, <1>6

\* The two halves of a GET, and the POSTs that end before the lock.
LEMMA GetStep ==
    ASSUME IInv, NEW h \in Admins, GetStart(h) \/ GetFinish(h)
    PROVE  IInv'
<1> USE DEF IInv
<1>1. CASE GetStart(h)
    <2> DEFINE r == [admins[h] EXCEPT !.phase = "reading", !.base = memory,
                                      !.fresh = lock = None]
    <2>1. r \in AdminRecords /\ r.phase = "reading" /\ r.base = memory
        BY <1>1 DEF GetStart, TypeOK, AdminRecords
    <2>2. admins' = [admins EXCEPT ![h] = r] /\ UNCHANGED <<memory, file, lock, sessionVars>>
        BY <1>1 DEF GetStart, TypeOK
    <2>3. ThreadOK(h)'
        BY <2>1, <2>2 DEF ThreadOK, TypeOK
    <2>4. admins[h].phase \notin {"locked", "written"} /\ lock # h /\ lock' \in Admins \cup {None}
        BY <1>1 DEF GetStart, TypeOK
    <2> HIDE DEF r
    <2>5. QED BY <2>4, <2>1, <2>2, <2>3, ThreadStep
<1>2. CASE GetFinish(h)
    <2> DEFINE r == [admins[h] EXCEPT !.phase = "idle", !.base = None,
                                      !.seen = Shown(admins[h].base, file)]
    <2>1. Shown(admins[h].base, file) \in Configs
        BY <1>2, MergeType DEF GetFinish, Shown, TypeOK, ThreadOK
    <2>2. r \in AdminRecords /\ r.phase = "idle"
        BY <2>1 DEF TypeOK, AdminRecords
    <2>3. admins' = [admins EXCEPT ![h] = r] /\ UNCHANGED <<memory, file, lock, sessionVars>>
        BY <1>2 DEF GetFinish, TypeOK
    <2>4. ThreadOK(h)'
        BY <2>2, <2>3 DEF ThreadOK, TypeOK
    <2>5. admins[h].phase \notin {"locked", "written"} /\ lock # h /\ lock' \in Admins \cup {None}
        BY <1>2 DEF GetFinish, TypeOK
    <2> HIDE DEF r
    <2>6. QED BY <2>5, <2>2, <2>3, <2>4, ThreadStep
<1>3. QED BY <1>1, <1>2

LEMMA PostStep ==
    ASSUME IInv, NEW h \in Admins, PostMalformed(h) \/ Reconnect(h) \/ Post(h)
    PROVE  IInv'
<1> USE DEF IInv
<1>1. CASE PostMalformed(h)
    <2> DEFINE r == [Idle EXCEPT !.phase = "dropped"]
    <2>1. r \in AdminRecords /\ r.phase = "dropped"
        BY DEF AdminRecords, Idle
    <2>2. admins' = [admins EXCEPT ![h] = r] /\ UNCHANGED <<memory, file, lock, sessionVars>>
        BY <1>1 DEF PostMalformed
    <2>3. ThreadOK(h)'
        BY <2>1, <2>2 DEF ThreadOK, TypeOK
    <2>4. admins[h].phase \notin {"locked", "written"} /\ lock # h /\ lock' \in Admins \cup {None}
        BY <1>1 DEF PostMalformed, TypeOK
    <2> HIDE DEF r
    <2>5. QED BY <2>4, <2>1, <2>2, <2>3, ThreadStep
<1>2. CASE Reconnect(h)
    <2>1. Idle \in AdminRecords /\ Idle.phase = "idle"
        BY DEF AdminRecords, Idle
    <2>2. ThreadOK(h)'
        BY <1>2, <2>1 DEF Reconnect, ThreadOK, TypeOK
    <2>3. admins[h].phase = "dropped" /\ lock # h /\ lock' \in Admins \cup {None}
        BY <1>2 DEF Reconnect, TypeOK
    <2>4. admins' = [admins EXCEPT ![h] = Idle] /\ UNCHANGED <<memory, file, lock, sessionVars>>
        BY <1>2 DEF Reconnect
    <2>5. QED BY <2>1, <2>2, <2>3, <2>4, ThreadStep
<1>3. CASE Post(h)
    <2>1. PICK body \in Submissions(h), given \in {Names} \cup {{n} : n \in Names} :
              /\ Complete(given)
              /\ admins' = [admins EXCEPT ![h].phase = "waiting", ![h].base = memory,
                                          ![h].body = body, ![h].given = given]
        BY <1>3 DEF Post
    <2> DEFINE r == [admins[h] EXCEPT !.phase = "waiting", !.base = memory,
                                      !.body = body, !.given = given]
    <2>2. admins[h].seen \in Configs
        BY <1>3 DEF Post, TypeOK, AdminRecords
    <2>3. body \in Configs /\ given = Names
        BY <2>1, <2>2, SubmissionsType DEF Complete
    <2>4. /\ r \in AdminRecords /\ r.phase = "waiting"
          /\ r.base = memory /\ r.body = body /\ r.given = given
        BY <2>3 DEF TypeOK, AdminRecords
    <2>5. admins' = [admins EXCEPT ![h] = r] /\ UNCHANGED <<memory, file, lock, sessionVars>>
        BY <1>3, <2>1 DEF Post, TypeOK
    <2>6. ThreadOK(h)'
        BY <2>3, <2>4, <2>5 DEF ThreadOK, TypeOK
    <2>7. admins[h].phase = "idle" /\ lock # h /\ lock' \in Admins \cup {None}
        BY <1>3 DEF Post, TypeOK
    <2> HIDE DEF r
    <2>8. QED BY <2>4, <2>5, <2>6, <2>7, ThreadStep
<1>4. QED BY <1>1, <1>2, <1>3

\* Under the lock: the candidate is refused, accepted, or not written.
LEMMA LockStep ==
    ASSUME IInv, NEW h \in Admins, Refuse(h) \/ Accept(h) \/ WriteFails(h)
    PROVE  IInv'
<1> USE DEF IInv
<1>1. CASE Refuse(h) \/ WriteFails(h)
    <2> DEFINE r == Answered(h, admins[h].seen)
    <2>1. r \in AdminRecords /\ r.phase = "idle"
        BY DEF Answered, TypeOK, AdminRecords
    <2>2. /\ admins' = [admins EXCEPT ![h] = r]
          /\ UNCHANGED <<memory, file, sessionVars>>
          /\ lock' = None
        BY <1>1 DEF Refuse, WriteFails
    <2>3. \A g \in Admins \ {h} : lock # g
        BY <1>1, ConfigEditorAssumption DEF Refuse, WriteFails, TypeOK
    <2>4. ThreadOK(h)'
        BY <2>1, <2>2 DEF ThreadOK, TypeOK
    <2>5. admins[h].phase # "written"
        BY <1>1 DEF Refuse, WriteFails
    <2> HIDE DEF r
    <2>6. QED BY <2>1, <2>2, <2>3, <2>4, <2>5, ThreadStep, ConfigEditorAssumption
<1>2. CASE Accept(h)
    <2> DEFINE r == [admins[h] EXCEPT !.phase = "locked"]
    <2>1. /\ r \in AdminRecords /\ r.phase = "locked"
          /\ r.base = admins[h].base /\ r.body = admins[h].body /\ r.given = admins[h].given
        BY DEF TypeOK, AdminRecords
    <2>2. /\ admins' = [admins EXCEPT ![h] = r]
          /\ UNCHANGED <<memory, file, sessionVars>>
          /\ lock = None /\ lock' = h /\ admins[h].phase = "waiting"
        BY <1>2 DEF Accept, TypeOK
    <2>3. Validate(admins[h].body)
        BY <1>2, <2>2, MergeAll DEF Accept, ThreadOK
    <2>4. ThreadOK(h)'
        BY <2>1, <2>2, <2>3 DEF ThreadOK, TypeOK, Validate
    <2> HIDE DEF r
    <2>5. QED BY <2>1, <2>2, <2>4, ThreadStep, ConfigEditorAssumption
<1>3. QED BY <1>1, <1>2

\* The write: config.env becomes the submission, which was validated.
LEMMA WriteStep ==
    ASSUME IInv, NEW h \in Admins, Write(h)
    PROVE  IInv'
<1> USE DEF IInv
<1>1. /\ lock = h /\ admins[h].phase = "locked"
      /\ admins[h].given = Names /\ admins[h].body \in Configs /\ Validate(admins[h].body)
    BY DEF Write, TypeOK, ThreadOK
<1>2. file' = admins[h].body /\ UNCHANGED <<memory, lock, sessionVars>>
    BY <1>1, MergeAll DEF Write, TypeOK
<1>3. \A g \in Admins :
        /\ admins'[g] \in AdminRecords
        /\ admins'[g].phase = IF g = h THEN "written" ELSE admins[g].phase
        /\ admins'[g].base = admins[g].base /\ admins'[g].body = admins[g].body
        /\ admins'[g].given = admins[g].given
    <2>1. SUFFICES ASSUME NEW g \in Admins
                   PROVE  /\ admins'[g] \in AdminRecords
                          /\ admins'[g].phase = IF g = h THEN "written" ELSE admins[g].phase
                          /\ admins'[g].base = admins[g].base /\ admins'[g].body = admins[g].body
                          /\ admins'[g].given = admins[g].given
        OBVIOUS
    <2>2. admins[g] \in AdminRecords
        BY DEF TypeOK
    <2>3. CASE g = h
        <3>1. admins'[g] = [admins[g] EXCEPT !.phase = "written", !.fresh = FALSE]
            BY <2>3 DEF Write
        <3>2. QED BY <2>2, <2>3, <3>1 DEF AdminRecords
    <2>4. CASE g # h
        <3>1. admins'[g] = [admins[g] EXCEPT !.fresh = FALSE]
            BY <2>4 DEF Write
        <3>2. QED BY <2>2, <2>4, <3>1 DEF AdminRecords
    <2>5. QED BY <2>3, <2>4
<1>4. TypeOK'
    <2>1. admins' \in [Admins -> AdminRecords]
        BY <1>3 DEF Write
    <2>2. QED BY <1>1, <1>2, <1>3, <2>1 DEF TypeOK, sessionVars
<1>5. ThresholdsOrdered'
    BY <1>1, <1>2 DEF ThresholdsOrdered, Validate
<1>6. InStep'
    BY <1>3 DEF InStep
<1>7. ASSUME NEW g \in Admins PROVE ThreadOK(g)'
    <2>1. CASE g = h
        BY <1>1, <1>2, <1>3, <2>1 DEF ThreadOK, Validate
    <2>2. CASE g # h
        <3>1. admins[g].phase \notin {"locked", "written"}
            BY <1>1, <2>2 DEF TypeOK
        <3>2. QED BY <1>2, <1>3, <2>2, <3>1 DEF ThreadOK, Validate
    <2>3. QED BY <2>1, <2>2
<1>8. QED BY <1>4, <1>5, <1>6, <1>7

\* The swap: the live fields of the running process become those just written.
LEMMA SwapStep ==
    ASSUME IInv, NEW h \in Admins, Swap(h)
    PROVE  IInv'
<1> USE DEF IInv
<1>1. /\ lock = h /\ admins[h].phase = "written" /\ file = admins[h].body
      /\ admins[h].given = Names /\ Validate(admins[h].body)
      /\ admins[h].body \in Configs /\ admins[h].base \in Configs
      /\ admins[h].base.port = memory.port
    BY DEF Swap, TypeOK, ThreadOK
<1>2. /\ memory' = Merge(admins[h].base, admins[h].body, Names \cap Live)
      /\ UNCHANGED <<file, sessionVars>> /\ lock' = None
    BY <1>1 DEF Swap, Swapped
<1>3. /\ memory' \in Configs
      /\ memory'.port = memory.port
      /\ \A n \in Live : memory'[n] = file'[n]
    <2>1. \A n \in Names : memory'[n] = IF n \in Names \cap Live THEN admins[h].body[n]
                                        ELSE admins[h].base[n]
        BY <1>1, <1>2, MergeType
    <2>2. memory'.port = memory.port
        BY <1>1, <2>1 DEF Names, Live
    <2>3. memory' \in Configs
        BY <1>1, <1>2, MergeType
    <2>4. QED BY <1>1, <1>2, <2>1, <2>2, <2>3 DEF Names
<1>4. Validate(memory')
    BY <1>1, <1>2, <1>3 DEF Validate, Live
<1>5. \A g \in Admins : g # h => admins'[g] = admins[g]
    BY DEF Swap, TypeOK
<1>6. admins'[h] \in AdminRecords /\ admins'[h].phase = "idle"
    <2> DEFINE r == Answered(h, admins[h].body)
    <2>1. r \in AdminRecords /\ r.phase = "idle"
        <3>1. PICK q : q = admins[h]
            OBVIOUS
        <3>2. q \in AdminRecords /\ admins[h].body \in Configs
            BY <1>1, <3>1 DEF TypeOK
        <3>3. r = [q EXCEPT !.phase = "idle", !.base = None, !.seen = admins[h].body,
                            !.body = None, !.given = {}]
            BY <3>1 DEF Answered
        <3> HIDE DEF r
        <3>4. QED BY <3>2, <3>3 DEF AdminRecords
    <2>2. admins' = [admins EXCEPT ![h] = r]
        BY DEF Swap
    <2> HIDE DEF r
    <2>3. QED BY <2>1, <2>2 DEF TypeOK
<1>7. TypeOK'
    <2>1. admins' \in [Admins -> AdminRecords]
        BY <1>5, <1>6 DEF Swap, TypeOK
    <2>2. QED BY <1>1, <1>2, <1>3, <1>5, <1>6, <2>1, ConfigEditorAssumption
                DEF TypeOK, sessionVars
<1>8. ThresholdsOrdered'
    BY <1>2, <1>4 DEF ThresholdsOrdered
<1>9. InStep'
    BY <1>3 DEF InStep
<1>10. ASSUME NEW g \in Admins PROVE ThreadOK(g)'
    <2>1. CASE g = h
        BY <1>6, <2>1 DEF ThreadOK
    <2>2. CASE g # h
        <3>1. admins[g].phase \notin {"locked", "written"}
            BY <1>1, <2>2 DEF TypeOK
        <3>2. QED BY <1>3, <1>5, <2>2, <3>1 DEF ThreadOK
    <2>3. QED BY <2>1, <2>2
<1>11. QED BY <1>7, <1>8, <1>9, <1>10

\* A routing command, and the restart of the process.
LEMMA OtherStep ==
    ASSUME IInv, (\E on \in BOOLEAN : SetModelRouting(on)) \/ Restart
    PROVE  IInv'
<1> USE DEF IInv
<1>1. CASE \E on \in BOOLEAN : SetModelRouting(on)
    BY <1>1 DEF SetModelRouting, TypeOK, ThresholdsOrdered, InStep, ThreadOK, Validate
<1>2. CASE Restart
    <2>1. memory' = file /\ file' = file /\ file \in Configs /\ Validate(file)
        BY <1>2 DEF Restart, TypeOK, ThresholdsOrdered
    <2>2. \A h \in Admins : admins'[h] = Idle
        BY <1>2 DEF Restart
    <2>3. TypeOK'
        BY <1>2, <2>1, ConfigEditorAssumption
            DEF Restart, TypeOK, Idle, AdminRecords, Configs
    <2>4. ThresholdsOrdered' /\ InStep'
        BY <2>1 DEF ThresholdsOrdered, InStep
    <2>5. \A h \in Admins : ThreadOK(h)'
        BY <2>2 DEF Idle, ThreadOK
    <2>6. QED BY <2>3, <2>4, <2>5
<1>3. QED BY <1>1, <1>2

LEMMA NextInv == IInv /\ [Next]_vars => IInv'
<1>1. SUFFICES ASSUME IInv, [Next]_vars PROVE IInv'
    OBVIOUS
<1>2. CASE \E h \in Admins :
            \/ GetStart(h) \/ GetFinish(h)
            \/ PostMalformed(h) \/ Reconnect(h) \/ Post(h)
            \/ Refuse(h) \/ Accept(h) \/ Write(h) \/ WriteFails(h) \/ Swap(h)
    BY <1>1, <1>2, GetStep, PostStep, LockStep, WriteStep, SwapStep
<1>3. CASE (\E on \in BOOLEAN : SetModelRouting(on)) \/ Restart
    BY <1>1, <1>3, OtherStep
<1>4. CASE UNCHANGED vars
    BY <1>1, <1>4 DEF vars, sessionVars, IInv, TypeOK, ThresholdsOrdered, InStep, ThreadOK,
                      Validate
<1>5. QED BY <1>1, <1>2, <1>3, <1>4 DEF Next

\* The inductive invariant holds in every reachable state.
THEOREM EditorInvariantTheorem == Spec => []IInv
BY InitInv, NextInv, PTL DEF Spec

\* Config, config.env and every admin thread stay well formed, and
\* _config_write_lock is held exactly by the thread in handle_post_config's critical
\* section: no two are ever in it.
THEOREM TypeTheorem == Spec => []TypeOK
<1>1. IInv => TypeOK
    BY DEF IInv
<1>2. QED BY <1>1, EditorInvariantTheorem, PTL

\* Neither the running process nor config.env ever holds thresholds validate_config
\* refuses, whatever Configs the POSTs of handle_post_config started from.
THEOREM ThresholdsOrderedTheorem == Spec => []ThresholdsOrdered
<1>1. IInv => ThresholdsOrdered
    BY DEF IInv
<1>2. QED BY <1>1, EditorInvariantTheorem, PTL

\* With _config_write_lock free, the live-editable fields of the running process
\* and of config.env agree: no save is left applied in one place only.
THEOREM MemoryMatchesFileTheorem == Spec => []MemoryMatchesFile
<1>1. IInv => MemoryMatchesFile
    BY ConfigEditorAssumption DEF IInv, TypeOK, InStep, MemoryMatchesFile
<1>2. QED BY <1>1, EditorInvariantTheorem, PTL

\* Only a restart changes the port of the running process: a swap puts back the
\* port of the Config its POST started from, which is still the current one.
THEOREM RestartFieldsHeldTheorem == Spec => RestartFieldsHeld
<1>1. IInv /\ [Next]_vars => [memory'.port # memory.port => Restart]_vars
    <2>1. SUFFICES ASSUME IInv, Next, memory'.port # memory.port PROVE Restart
        OBVIOUS
    <2>2. ASSUME NEW h \in Admins, Swap(h) PROVE memory'.port = memory.port
        <3>1. /\ admins[h].base \in Configs /\ admins[h].body \in Configs
              /\ admins[h].base.port = memory.port
            BY <2>1, <2>2 DEF Swap, IInv, ThreadOK
        <3>2. memory' = Merge(admins[h].base, admins[h].body, admins[h].given \cap Live)
            BY <2>2 DEF Swap, Swapped
        <3>3. memory'["port"] = admins[h].base["port"]
            BY <3>1, <3>2, MergeType DEF Names, Live
        <3>4. QED BY <3>1, <3>3
    <2>3. QED BY <2>1, <2>2 DEF Next, GetStart, GetFinish, PostMalformed, Reconnect, Post,
                Refuse, Accept, Write, WriteFails, SetModelRouting
<1>2. QED BY <1>1, EditorInvariantTheorem, PTL DEF Spec, RestartFieldsHeld

-----------------------------------------------------------------------------
(***************************************************************************)
(* A save of what was shown.  IInv says nothing of what a thread showed:   *)
(* that takes an invariant of its own.                                     *)
(***************************************************************************)

\* What a GET has read, and has shown, is config.env until somebody saves.
ShowsFile(h) ==
    admins[h].fresh =>
        /\ admins[h].phase # "written"
        /\ admins[h].phase = "reading" =>
              admins[h].base \in Configs /\ \A n \in Live : admins[h].base[n] = file[n]
        /\ admins[h].phase # "reading" => admins[h].seen = file

FreshInv == \A h \in Admins : ShowsFile(h)

\* Every step but a thread's own two halves of a GET leaves what it showed, and
\* how fresh that is, alone or makes it stale.
ShownKept(h) ==
    \/ ~admins'[h].fresh
    \/ /\ file' = file /\ admins'[h].fresh = admins[h].fresh
       /\ \/ admins'[h] = admins[h]
          \/ /\ admins[h].phase # "reading" /\ admins'[h].phase \notin {"reading", "written"}
             /\ admins'[h].seen = admins[h].seen

LEMMA KeptFresh ==
    ASSUME NEW h \in Admins, ShowsFile(h), ShownKept(h)
    PROVE  ShowsFile(h)'
BY DEF ShowsFile, ShownKept

\* What a GET shows of a configuration that agrees with config.env is config.env.
LEMMA ShownIsFile ==
    ASSUME NEW base \in Configs, NEW env \in Configs, \A n \in Live : base[n] = env[n]
    PROVE  Shown(base, env) = env
BY DEF Shown, Merge, Configs, Live

\* The two halves of a GET.
LEMMA FreshGetStep ==
    ASSUME IInv, NEW h \in Admins, ShowsFile(h), GetStart(h) \/ GetFinish(h)
    PROVE  ShowsFile(h)'
<1> DEFINE q == admins[h]
<1>1. q \in AdminRecords /\ memory \in Configs /\ file \in Configs
    BY DEF IInv, TypeOK
<1>2. CASE GetStart(h)
    <2>1. admins'[h] = [q EXCEPT !.phase = "reading", !.base = memory, !.fresh = lock = None]
        BY <1>2 DEF GetStart, IInv, TypeOK
    <2>2. file' = file
        BY <1>2 DEF GetStart
    <2>3. /\ admins'[h].phase = "reading" /\ admins'[h].base = memory
          /\ admins'[h].fresh => lock = None
        BY <1>1, <2>1 DEF AdminRecords
    <2>4. lock = None => \A n \in Live : memory[n] = file[n]
        BY ConfigEditorAssumption DEF IInv, TypeOK, InStep
    <2>5. QED BY <1>1, <2>2, <2>3, <2>4 DEF ShowsFile
<1>3. CASE GetFinish(h)
    <2> DEFINE c == Shown(q.base, file)
    <2>1. admins'[h] = [q EXCEPT !.phase = "idle", !.base = None, !.seen = c]
        BY <1>3 DEF GetFinish, IInv, TypeOK
    <2>2. q.phase = "reading" /\ file' = file
        BY <1>3 DEF GetFinish
    <2>3. q.fresh => c = file
        BY <1>1, <2>2, ShownIsFile DEF ShowsFile
    <2> HIDE DEF c
    <2>4. admins'[h].phase = "idle" /\ admins'[h].seen = c /\ admins'[h].fresh = q.fresh
        BY <1>1, <2>1 DEF AdminRecords
    <2>5. QED BY <2>2, <2>3, <2>4 DEF ShowsFile
<1>4. QED BY <1>2, <1>3

\* The rest of a thread's steps, for the thread itself.
LEMMA FreshOwnStep ==
    ASSUME IInv, NEW h \in Admins,
           \/ PostMalformed(h) \/ Reconnect(h) \/ Post(h)
           \/ Refuse(h) \/ Accept(h) \/ Write(h) \/ WriteFails(h) \/ Swap(h),
           ShowsFile(h)
    PROVE  ShownKept(h)
<1>1. PICK q : q = admins[h]
    OBVIOUS
<1>2. q \in AdminRecords
    BY <1>1 DEF IInv, TypeOK
<1>3. CASE PostMalformed(h) \/ Reconnect(h)
    BY <1>3 DEF PostMalformed, Reconnect, Idle, IInv, TypeOK, ShownKept
<1>4. CASE Post(h)
    <2>1. PICK body, given :
             admins' = [admins EXCEPT ![h].phase = "waiting", ![h].base = memory,
                                      ![h].body = body, ![h].given = given]
        BY <1>4 DEF Post
    <2>2. q.phase = "idle" /\ file' = file
        BY <1>1, <1>4 DEF Post
    <2>3. admins'[h].phase = "waiting" /\ admins'[h].seen = q.seen /\ admins'[h].fresh = q.fresh
        <3>1. admins'[h] = [q EXCEPT !.phase = "waiting", !.base = memory, !.body = body,
                                     !.given = given]
            BY <1>1, <2>1 DEF IInv, TypeOK
        <3>2. QED BY <1>2, <3>1 DEF AdminRecords
    <2>4. QED BY <1>1, <2>2, <2>3 DEF ShownKept
<1>5. CASE Refuse(h) \/ WriteFails(h)
    <2>1. admins'[h] = [q EXCEPT !.phase = "idle", !.base = None, !.seen = q.seen,
                                 !.body = None, !.given = {}]
        BY <1>1, <1>5 DEF Refuse, WriteFails, Answered, IInv, TypeOK
    <2>2. q.phase \in {"waiting", "locked"} /\ file' = file
        BY <1>1, <1>5 DEF Refuse, WriteFails
    <2>3. admins'[h].phase = "idle" /\ admins'[h].seen = q.seen /\ admins'[h].fresh = q.fresh
        BY <1>2, <2>1 DEF AdminRecords
    <2>4. QED BY <1>1, <2>2, <2>3 DEF ShownKept
<1>6. CASE Accept(h)
    <2>1. admins'[h] = [q EXCEPT !.phase = "locked"]
        BY <1>1, <1>6 DEF Accept, IInv, TypeOK
    <2>2. q.phase = "waiting" /\ file' = file
        BY <1>1, <1>6 DEF Accept
    <2>3. admins'[h].phase = "locked" /\ admins'[h].seen = q.seen /\ admins'[h].fresh = q.fresh
        BY <1>2, <2>1 DEF AdminRecords
    <2>4. QED BY <1>1, <2>2, <2>3 DEF ShownKept
<1>7. CASE Write(h)
    <2>1. admins'[h] = [q EXCEPT !.phase = "written", !.fresh = FALSE]
        BY <1>1, <1>7 DEF Write
    <2>2. ~admins'[h].fresh
        BY <1>2, <2>1 DEF AdminRecords
    <2>3. QED BY <2>2 DEF ShownKept
<1>8. CASE Swap(h)
    <2>1. admins'[h] = [q EXCEPT !.phase = "idle", !.base = None, !.seen = q.body,
                                 !.body = None, !.given = {}]
        BY <1>1, <1>8 DEF Swap, Answered, IInv, TypeOK
    <2>2. ~q.fresh
        BY <1>1, <1>8 DEF Swap, ShowsFile
    <2>3. ~admins'[h].fresh
        BY <1>2, <2>1, <2>2 DEF AdminRecords
    <2>4. QED BY <2>3 DEF ShownKept
<1>9. QED BY <1>3, <1>4, <1>5, <1>6, <1>7, <1>8

\* A thread's step, for the others: a write makes all they showed stale.
LEMMA FreshOtherStep ==
    ASSUME IInv, NEW h \in Admins, NEW g \in Admins, g # h,
           \/ GetStart(h) \/ GetFinish(h)
           \/ PostMalformed(h) \/ Reconnect(h) \/ Post(h)
           \/ Refuse(h) \/ Accept(h) \/ Write(h) \/ WriteFails(h) \/ Swap(h)
    PROVE  ShownKept(g)
<1>1. CASE Write(h)
    <2>1. admins'[g] = [admins[g] EXCEPT !.fresh = FALSE]
        BY <1>1 DEF Write
    <2>2. admins[g] \in AdminRecords
        BY DEF IInv, TypeOK
    <2>3. ~admins'[g].fresh
        BY <2>1, <2>2 DEF AdminRecords
    <2>4. QED BY <2>3 DEF ShownKept
<1>2. CASE ~Write(h)
    <2>1. file' = file
        BY <1>2 DEF GetStart, GetFinish, PostMalformed, Reconnect, Post, Refuse, Accept,
                    WriteFails, Swap
    <2>2. \E r : admins' = [admins EXCEPT ![h] = r]
        <3>1. CASE GetStart(h) \/ GetFinish(h)
            BY <3>1 DEF GetStart, GetFinish
        <3>2. CASE PostMalformed(h) \/ Reconnect(h) \/ Post(h)
            BY <3>2 DEF PostMalformed, Reconnect, Post
        <3>3. CASE Refuse(h) \/ Accept(h) \/ WriteFails(h) \/ Swap(h)
            BY <3>3 DEF Refuse, Accept, WriteFails, Swap
        <3>4. QED BY <1>2, <3>1, <3>2, <3>3
    <2>3. admins'[g] = admins[g]
        BY <2>2 DEF IInv, TypeOK
    <2>4. QED BY <2>1, <2>3 DEF ShownKept
<1>3. QED BY <1>1, <1>2

LEMMA NextFresh ==
    ASSUME IInv, FreshInv, [Next]_vars
    PROVE  FreshInv'
<1>1. SUFFICES ASSUME NEW g \in Admins PROVE ShowsFile(g)'
    BY DEF FreshInv
<1>2. ShowsFile(g)
    BY DEF FreshInv
<1>3. ASSUME NEW h \in Admins,
             \/ GetStart(h) \/ GetFinish(h)
             \/ PostMalformed(h) \/ Reconnect(h) \/ Post(h)
             \/ Refuse(h) \/ Accept(h) \/ Write(h) \/ WriteFails(h) \/ Swap(h)
      PROVE  ShowsFile(g)'
    <2>1. CASE g # h
        BY <1>2, <1>3, <2>1, FreshOtherStep, KeptFresh
    <2>2. CASE g = h /\ (GetStart(h) \/ GetFinish(h))
        BY <1>2, <2>2, FreshGetStep
    <2>3. CASE g = h /\ ~(GetStart(h) \/ GetFinish(h))
        <3>1. ShownKept(g)
            BY <1>2, <1>3, <2>3, FreshOwnStep
        <3>2. QED BY <1>2, <3>1, KeptFresh
    <2>4. QED BY <2>1, <2>2, <2>3
<1>4. CASE (\E on \in BOOLEAN : SetModelRouting(on)) \/ UNCHANGED vars
    BY <1>2, <1>4 DEF SetModelRouting, vars, ShowsFile
<1>5. CASE Restart
    BY <1>5 DEF Restart, Idle, ShowsFile
<1>6. QED BY <1>3, <1>4, <1>5 DEF Next

\* Saving what the modal showed, unedited, leaves config.env as it is, unless
\* somebody saved since that GET began (handle_post_config, _write_config_env).
THEOREM RoundTripHarmlessTheorem == Spec => RoundTripHarmless
<1>1. Init => FreshInv
    BY DEF Init, Idle, FreshInv, ShowsFile
<1>2. IInv /\ FreshInv /\ [Next]_vars => FreshInv'
    BY NextFresh
<1>3. ASSUME IInv, FreshInv, Next, NEW h \in Admins, Untouched(h), admins'[h].phase = "written"
      PROVE  file' = file
    <2>1. CASE \E g \in Admins : Write(g)
        <3>1. PICK g \in Admins : Write(g)
            BY <2>1
        <3>2. g = h
            BY <1>3, <3>1 DEF Write, Untouched, IInv, TypeOK
        <3>3. admins[h].given = Names /\ admins[h].body = file /\ file \in Configs
            BY <1>3 DEF Untouched, FreshInv, ShowsFile, IInv, TypeOK, ThreadOK
        <3>4. QED BY <3>1, <3>2, <3>3, MergeAll DEF Write
    <2>2. CASE Restart
        BY <2>2 DEF Restart
    <2>3. QED BY <1>3, <2>1, <2>2 DEF Next, GetStart, GetFinish, PostMalformed, Reconnect, Post,
                Refuse, Accept, WriteFails, Swap, SetModelRouting
<1>4. IInv /\ FreshInv /\ [Next]_vars =>
        [\A h \in Admins : Untouched(h) /\ admins'[h].phase = "written" => file' = file]_vars
    BY <1>3
<1>5. QED BY <1>1, <1>2, <1>4, EditorInvariantTheorem, PTL DEF Spec, RoundTripHarmless
=============================================================================
