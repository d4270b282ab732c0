----------------------------- MODULE ConfigEditor -----------------------------
(***************************************************************************)
(* The configuration editor of ADR-0005: GET and POST /admin/config        *)
(* (admin.py) over config.env and the Config every request reads, next to  *)
(* the routing switch SessionState keeps (session_state.py).               *)
(*                                                                         *)
(* Four fields stand for the registry: the live-editable auto_model_routing*)
(* and the two thresholds validate_config orders, and the restart-required *)
(* port.  Admins are the threads that serve the modal; a POST carries the  *)
(* values it was shown, one of them edited.  Sessions are those that have  *)
(* no routing override.                                                    *)
(***************************************************************************)
EXTENDS Naturals

CONSTANTS
    Admins,
    Ports,
    Levels,         \* values of a threshold
    None

ASSUME ConfigEditorAssumption ==
    /\ Levels \subseteq Nat
    /\ None \notin Admins

\* EDITABLE_FIELDS: the live-editable fields, and the whole registry.
Live == {"routing", "trivial", "standard"}
Names == Live \cup {"port"}

ValuesOf(n) == CASE n = "routing" -> BOOLEAN
                 [] n = "port" -> Ports
                 [] OTHER -> Levels

Configs == [routing : BOOLEAN, trivial : Levels, standard : Levels, port : Ports]

VARIABLES
    memory,         \* Handler.config
    file,           \* config.env
    lock,           \* _config_write_lock: its holder
    admins,         \* each admin thread: see AdminRecords
    routing,        \* SessionState's _global_routing
    toggled         \* history: a global routing command was given

sessionVars == <<routing, toggled>>
vars == <<memory, file, lock, admins, sessionVars>>

\* phase: where the thread is.  base: the Config it read.  seen: what its last
\* GET showed.  body, given: the values of its POST and the fields it names.
\* fresh: nobody saved since that GET began.
AdminRecords ==
    [phase : {"idle", "reading", "waiting", "locked", "written", "dropped"},
     base : Configs \cup {None}, seen : Configs \cup {None},
     body : Configs \cup {None}, given : SUBSET Names, fresh : BOOLEAN]

Idle == [phase |-> "idle", base |-> None, seen |-> None, body |-> None,
         given |-> {}, fresh |-> FALSE]

\* dataclasses.replace and the file's merge-write: the named fields win.
Merge(old, new, names) ==
    LET Of(n) == IF n \in names THEN new[n] ELSE old[n]
    IN  [routing |-> Of("routing"), trivial |-> Of("trivial"),
         standard |-> Of("standard"), port |-> Of("port")]

\* validate_config: the cross-field rule.
Validate(c) == c.trivial < c.standard

\* Mutant: a short submission keeps the current values of what it leaves out.
CompleteOrNot(given) == given # {}

\* The `missing` check: a submission names every registry field.
Complete(given) == given = Names

\* Mutant: every field is read from memory.
ShownFromMemory(base, env) == base

\* _get_config: live fields from memory, restart-required ones from config.env.
Shown(base, env) == Merge(env, base, Live)

\* swap_candidate: only the live-editable fields reach the running process.
Swapped(base, body, given) == Merge(base, body, given \cap Live)

\* create_server, launched with config.env in the environment.
Init ==
    /\ file \in {c \in Configs : Validate(c)}
    /\ memory = file
    /\ lock = None
    /\ admins = [h \in Admins |-> Idle]
    /\ routing = memory.routing
    /\ toggled = FALSE

\* The POST is answered; the modal goes on showing the given values.
Answered(h, shown) == [admins[h] EXCEPT !.phase = "idle", !.base = None, !.seen = shown,
                                        !.body = None, !.given = {}]

\* GET /admin/config: self.config is read first, config.env after it.
GetStart(h) ==
    /\ admins[h].phase = "idle"
    /\ admins' = [admins EXCEPT ![h].phase = "reading", ![h].base = memory,
                                ![h].fresh = lock = None]
    /\ UNCHANGED <<memory, file, lock, sessionVars>>

GetFinish(h) ==
    /\ admins[h].phase = "reading"
    /\ admins' = [admins EXCEPT ![h].phase = "idle", ![h].base = None,
                                ![h].seen = Shown(admins[h].base, file)]
    /\ UNCHANGED <<memory, file, lock, sessionVars>>

\* A POST of the shown values, with at most one edit.
Submissions(h) ==
    {admins[h].seen} \cup
    UNION {{[admins[h].seen EXCEPT ![n] = v] : v \in ValuesOf(n)} : n \in Names}

\* A malformed label list: the argparse error of the parser raises SystemExit,
\* which no except clause of the handler or of its thread catches.
PostMalformed(h) ==
    /\ admins[h].phase = "idle" /\ admins[h].seen # None
    /\ admins' = [admins EXCEPT ![h] = [Idle EXCEPT !.phase = "dropped"]]
    /\ UNCHANGED <<memory, file, lock, sessionVars>>

\* The client finds its connection closed and opens another.
Reconnect(h) ==
    /\ admins[h].phase = "dropped"
    /\ admins' = [admins EXCEPT ![h] = Idle]
    /\ UNCHANGED <<memory, file, lock, sessionVars>>

\* A complete submission goes to wait for the lock, with the Config of its start;
\* a short one is refused before it, and changes nothing.
Post(h) ==
    /\ admins[h].phase = "idle" /\ admins[h].seen # None
    /\ \E body \in Submissions(h), given \in {Names} \cup {{n} : n \in Names} :
        /\ Complete(given)
        /\ admins' = [admins EXCEPT ![h].phase = "waiting", ![h].base = memory,
                                    ![h].body = body, ![h].given = given]
    /\ UNCHANGED <<memory, file, lock, sessionVars>>

\* with _config_write_lock: the candidate is validated first.
Refuse(h) ==
    /\ admins[h].phase = "waiting" /\ lock = None
    /\ ~Validate(Merge(admins[h].base, admins[h].body, admins[h].given))
    /\ admins' = [admins EXCEPT ![h] = Answered(h, admins[h].seen)]
    /\ UNCHANGED <<memory, file, lock, sessionVars>>

Accept(h) ==
    /\ admins[h].phase = "waiting" /\ lock = None
    /\ Validate(Merge(admins[h].base, admins[h].body, admins[h].given))
    /\ lock' = h
    /\ admins' = [admins EXCEPT ![h].phase = "locked"]
    /\ UNCHANGED <<memory, file, sessionVars>>

\* _write_config_env replaces the file in one step (os.replace).
Write(h) ==
    /\ admins[h].phase = "locked"
    /\ file' = Merge(file, admins[h].body, admins[h].given)
    /\ admins' = [a \in Admins |->
                    IF a = h THEN [admins[a] EXCEPT !.phase = "written", !.fresh = FALSE]
                    ELSE [admins[a] EXCEPT !.fresh = FALSE]]
    /\ UNCHANGED <<memory, lock, sessionVars>>

\* Mutant: the swap happens although the write failed.
WriteFailsSwapping(h) ==
    /\ admins[h].phase = "locked"
    /\ lock' = None
    /\ memory' = Swapped(admins[h].base, admins[h].body, admins[h].given)
    /\ admins' = [admins EXCEPT ![h] = Answered(h, admins[h].seen)]
    /\ UNCHANGED <<file, sessionVars>>

\* The write fails: neither the file nor the running process changes.
WriteFails(h) ==
    /\ admins[h].phase = "locked"
    /\ lock' = None
    /\ admins' = [admins EXCEPT ![h] = Answered(h, admins[h].seen)]
    /\ UNCHANGED <<memory, file, sessionVars>>

\* config_setter, still under the lock.
Swap(h) ==
    /\ admins[h].phase = "written"
    /\ memory' = Swapped(admins[h].base, admins[h].body, admins[h].given)
    /\ lock' = None
    /\ admins' = [admins EXCEPT ![h] = Answered(h, admins[h].body)]
    /\ UNCHANGED <<file, sessionVars>>

\* proxy-set-model-routing:on|off
SetModelRouting(on) ==
    /\ routing' = on
    /\ toggled' = TRUE
    /\ UNCHANGED <<memory, file, lock, admins>>

\* The process stops at any moment and the launcher starts it again.
Restart ==
    /\ memory' = file
    /\ lock' = None
    /\ admins' = [h \in Admins |-> Idle]
    /\ routing' = file.routing
    /\ toggled' = FALSE
    /\ UNCHANGED file

Next ==
    \/ \E h \in Admins :
        \/ GetStart(h) \/ GetFinish(h)
        \/ PostMalformed(h) \/ Reconnect(h) \/ Post(h)
        \/ Refuse(h) \/ Accept(h) \/ Write(h) \/ WriteFails(h) \/ Swap(h)
    \/ \E on \in BOOLEAN : SetModelRouting(on)
    \/ Restart

Spec == Init /\ [][Next]_vars

\* model_routing_enabled, for a session without an override of its own.
RoutingEnabled == routing

-----------------------------------------------------------------------------

\* The state is well formed, and the lock is held by the thread inside the
\* critical section of handle_post_config.
TypeOK ==
    /\ memory \in Configs /\ file \in Configs
    /\ lock \in Admins \cup {None}
    /\ admins \in [Admins -> AdminRecords]
    /\ \A h \in Admins : admins[h].phase \in {"locked", "written"} <=> lock = h
    /\ routing \in BOOLEAN /\ toggled \in BOOLEAN

\* Neither the running process nor config.env ever holds thresholds that
\* validate_config refuses, whatever two POSTs validated against.
ThresholdsOrdered == Validate(memory) /\ Validate(file)

\* Outside the critical section the live-editable fields of the running process
\* are those of config.env: a save applied in one place only is never left over.
MemoryMatchesFile == lock = None => \A n \in Live : memory[n] = file[n]

\* A restart-required field of the running process changes only at a restart.
RestartFieldsHeld == [][memory'.port # memory.port => Restart]_vars

\* Saving what the modal showed, unedited, changes nothing: a pending edit of a
\* restart-required field is not reverted by the next save.  (A GET that began
\* while a save was under way, or that another save followed, shows old values.)
Untouched(h) ==
    /\ admins[h].phase = "locked" /\ admins[h].fresh
    /\ admins[h].body = admins[h].seen

RoundTripHarmless ==
    [][\A h \in Admins : Untouched(h) /\ admins'[h].phase = "written" => file' = file]_vars

\* What config.py says of a live-editable field: "applies immediately".  Until a
\* routing command is given, auto_model_routing governs every session.
LiveEditApplies == ~toggled => RoutingEnabled = memory.routing
=============================================================================
