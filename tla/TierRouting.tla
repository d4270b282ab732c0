------------------------------ MODULE TierRouting ------------------------------
(***************************************************************************)
(* Model-tier routing of one context (session and first user message):     *)
(* route_model of model_router.py between the tier cache that _route reads *)
(* and the one that _apply_tier_cache writes (handlers.py).                *)
(*                                                                         *)
(* Request threads route turns of the context at the same time.  A turn is *)
(* what build_routing_summary tells apart; a classifier call takes time,   *)
(* and answers a label or fails.  The labels have their default targets.   *)
(***************************************************************************)
EXTENDS BoundedStore, FiniteSets

CONSTANTS
    Handlers,       \* request threads
    Requests,       \* models a client asks for
    Locks,          \* values of lock_requested_model, live-editable
    Off,            \* the lock that is off
    LongTarget,     \* auto_model_routing_long
    None

\* The targets of the labels trivial, standard and deep.
Trivial == "haiku"
Standard == "sonnet"
Deep == "opus"
Tiers == {Trivial, Standard, Deep}

ASSUME TierRoutingAssumption ==
    /\ Off \in Locks /\ Locks \ {Off} \subseteq Tiers
    /\ {None, LongTarget, Off} \cap (Tiers \cup Requests) = {}
    /\ None \notin {LongTarget, Off}

Models == Tiers \cup Requests \cup {LongTarget}

\* floor: over the size threshold.  tool, image: no text of its own, recovered by
\* walking back.  missing: no user text at all.  affirm: a bare yes.
Kinds == {"floor", "tool", "image", "missing", "affirm", "title", "text"}

VARIABLES
    cache,          \* SessionState._routed_tier
    inflight,       \* _affirmation_inflight holds the context
    turns           \* each request thread's turn

vars == <<cache, inflight, turns>>

\* The lock and the cached tier are read once, before the turn is routed.  routed
\* is the model dispatched; store is what _apply_tier_cache has to write; failed
\* says that the classifier gave no answer; answer is history, the tier it gave for
\* the turn that has one to store.
Turns ==
    [phase : {"idle", "read", "asking", "classifying", "missing", "storing", "done"},
     kind : Kinds, requested : Requests, lock : Locks,
     prior : BOOLEAN,       \* an assistant message with text precedes the turn
     replay : BOOLEAN,      \* a Thread replay: no tier cache
     cached : Tiers \cup {None}, routed : Models \cup {None},
     store : Tiers \cup {None}, failed : BOOLEAN, answer : Tiers \cup {None}]

CONSTANT NoTurn
ASSUME NoTurnAssumption == NoTurn \notin Turns

\* routing_baseline.
Baseline(t) == IF t.lock = Off THEN t.requested ELSE t.lock

\* tier_key: _requested_tier maps a model that is no tier to itself.
KeyOf(t) == Baseline(t)

Lookup(key) == IF key \in KeysOf(cache) THEN EntryOf(cache, key).tier ELSE None

Rank(tier) == IF tier = Trivial THEN 0 ELSE IF tier = Standard THEN 1 ELSE 2

Higher(a, b) == a \in Tiers /\ b \in Tiers /\ Rank(a) > Rank(b)

\* _cap_cached_tier: a model that is no tier caps nothing.
Cap(tier, model) == IF Higher(tier, model) THEN model ELSE tier

\* Only a lock caps what a turn routes to.
CapToLock(t, tier) == IF t.lock = Off THEN tier ELSE Cap(tier, t.lock)

Init ==
    /\ cache = <<>> /\ inflight = FALSE
    /\ turns = [h \in Handlers |-> NoTurn]

Running(h, phase) == turns[h] # NoTurn /\ turns[h].phase = phase

\* turns[h] goes to t and nothing else changes.
Becomes(h, t) ==
    turns' = [turns EXCEPT ![h] = t] /\ UNCHANGED <<cache, inflight>>

Routed(h, model) ==
    [turns[h] EXCEPT !.phase = "done", !.routed = model,
                     !.prior = FALSE, !.replay = FALSE]

\* A scored turn is routed, and its tier stored, but for a replay.
Scored(h, model, tier, answer) ==
    IF turns[h].replay THEN Routed(h, model)
    ELSE [Routed(h, model) EXCEPT !.phase = "storing", !.store = tier, !.answer = answer]

Failed(h, model) == [Routed(h, model) EXCEPT !.failed = TRUE]

\* A turn as _route begins it; a replay does not read the cache.
Arrived(kind, requested, lock, prior, replay) ==
    LET t == [phase |-> "read", kind |-> kind, requested |-> requested, lock |-> lock,
              prior |-> prior, replay |-> replay, cached |-> None, routed |-> None,
              store |-> None, failed |-> FALSE, answer |-> None]
    IN  IF replay THEN t ELSE [t EXCEPT !.cached = Lookup(KeyOf(t))]

\* _route: the lock, which POST /admin/config may have changed since the last turn,
\* and the tier slot are read.
Begin(h) ==
    /\ turns[h] = NoTurn
    /\ \E kind \in Kinds, requested \in Requests, lock \in Locks,
       prior \in BOOLEAN, replay \in BOOLEAN :
        /\ prior => kind = "affirm"
        /\ replay => kind # "tool"         \* such a replay is pinned
        /\ Becomes(h, Arrived(kind, requested, lock, prior, replay))

SizeFloor(h) ==
    /\ Running(h, "read") /\ turns[h].kind = "floor"
    /\ Becomes(h, Routed(h, LongTarget))

\* No user text: the baseline, unless _apply_tier_cache then finds a tier.
MissingText(h) ==
    /\ Running(h, "read") /\ turns[h].kind = "missing"
    /\ Becomes(h, [Failed(h, Baseline(turns[h])) EXCEPT
                        !.phase = IF turns[h].replay THEN "done" ELSE "missing"])

\* Mutant: the replayed tier is capped by the routing baseline.
ReplayCapBaseline(t, tier) == Cap(tier, Baseline(t))

\* A replayed tier is capped by the model the client asked for.
ReplayCap(t, tier) == Cap(tier, t.requested)

\* _apply_tier_cache reads the slot again, as it is by now.
Fallback(h) ==
    /\ Running(h, "missing")
    /\ LET tier == Lookup(KeyOf(turns[h])) IN
       Becomes(h, IF tier = None THEN [turns[h] EXCEPT !.phase = "done"]
                  ELSE [Routed(h, ReplayCap(turns[h], tier)) EXCEPT !.failed = FALSE])

\* A recovered turn replays the cached tier, capped unless it carries tool results.
Walkback(h) ==
    /\ Running(h, "read") /\ turns[h].kind \in {"tool", "image"}
    /\ turns[h].cached # None
    /\ Becomes(h, Routed(h, IF turns[h].kind = "tool" THEN turns[h].cached
                            ELSE ReplayCap(turns[h], turns[h].cached)))

\* A cached trivial tier is scored again when there is work to agree to.
Reclassify(t) == t.cached = Trivial /\ t.prior

\* Mutant: the inherited tier is capped by the lock.
InheritCapped(h) ==
    /\ Running(h, "read") /\ turns[h].kind = "affirm"
    /\ turns[h].cached # None /\ ~Reclassify(turns[h])
    /\ Becomes(h, Routed(h, CapToLock(turns[h], turns[h].cached)))

Inherit(h) ==
    /\ Running(h, "read") /\ turns[h].kind = "affirm"
    /\ turns[h].cached # None /\ ~Reclassify(turns[h])
    /\ Becomes(h, Routed(h, turns[h].cached))

\* _affirmation_floor: a failed re-scoring keeps the cached tier.
AffirmationFloor(t) ==
    IF Reclassify(t) THEN t.cached ELSE CapToLock(t, Standard)

\* A yes to nothing, or one while another is being scored, is not scored.
AffirmUnscored(h) ==
    /\ Running(h, "read") /\ turns[h].kind = "affirm"
    /\ turns[h].cached = None \/ Reclassify(turns[h])
    /\ ~turns[h].prior \/ inflight
    /\ Becomes(h, Failed(h, AffirmationFloor(turns[h])))

AffirmBegin(h) ==
    /\ Running(h, "read") /\ turns[h].kind = "affirm"
    /\ turns[h].cached = None \/ Reclassify(turns[h])
    /\ turns[h].prior /\ ~inflight
    /\ inflight' = TRUE
    /\ turns' = [turns EXCEPT ![h].phase = "asking"]
    /\ UNCHANGED cache

\* The score's tier, before the lock caps it, is what the cache gets; one below
\* the cached tier gives way to it (none is, while the labels' targets differ).
AffirmScored(h) ==
    /\ Running(h, "asking")
    /\ inflight' = FALSE
    /\ \E tier \in Tiers :
        LET keep == turns[h].cached # None /\ Higher(turns[h].cached, tier)
            stored == IF keep THEN turns[h].cached ELSE tier
            routed == IF keep THEN turns[h].cached ELSE CapToLock(turns[h], tier)
        IN  turns' = [turns EXCEPT ![h] = Scored(h, routed, stored, tier)]
    /\ UNCHANGED cache

\* Mutant: the sentinel is discarded after the call, not in a finally.
AffirmFailsLeaking(h) ==
    /\ Running(h, "asking")
    /\ turns' = [turns EXCEPT ![h] = Failed(h, AffirmationFloor(turns[h]))]
    /\ UNCHANGED <<cache, inflight>>

\* The call fails or its answer is not a score; the sentinel is discarded.
AffirmFails(h) ==
    /\ Running(h, "asking")
    /\ inflight' = FALSE
    /\ turns' = [turns EXCEPT ![h] = Failed(h, AffirmationFloor(turns[h]))]
    /\ UNCHANGED cache

\* Mutant: the tier of the title rule is written to the cache as well.
TitleStoring(h) ==
    /\ Running(h, "read") /\ turns[h].kind = "title"
    /\ Becomes(h, Scored(h, CapToLock(turns[h], Trivial), Trivial, None))

\* The title rule routes to trivial, and leaves the cache alone.
Title(h) ==
    /\ Running(h, "read") /\ turns[h].kind = "title"
    /\ Becomes(h, Routed(h, CapToLock(turns[h], Trivial)))

\* Any other turn is classified: its own text, or recovered text with no cached tier.
Classify(h) ==
    /\ Running(h, "read")
    /\ \/ turns[h].kind = "text"
       \/ turns[h].kind \in {"tool", "image"} /\ turns[h].cached = None
    /\ Becomes(h, [turns[h] EXCEPT !.phase = "classifying"])

Classified(h) ==
    /\ Running(h, "classifying")
    /\ \E tier \in Tiers : Becomes(h, Scored(h, tier, tier, tier))

\* Fail-closed: the routing baseline.
ClassifyFails(h) ==
    /\ Running(h, "classifying")
    /\ Becomes(h, Failed(h, Baseline(turns[h])))

\* set_routed_tier, of the slot the turn read.
Store(h) ==
    /\ Running(h, "storing")
    /\ cache' = Put(cache, [key |-> KeyOf(turns[h]), tier |-> turns[h].store])
    /\ turns' = [turns EXCEPT ![h].phase = "done", ![h].store = None, ![h].answer = None]
    /\ UNCHANGED inflight

\* The turn is dispatched; the thread takes another.
Dispatch(h) == Running(h, "done") /\ Becomes(h, NoTurn)

Next ==
    \E h \in Handlers :
        \/ Begin(h) \/ SizeFloor(h) \/ MissingText(h) \/ Fallback(h) \/ Walkback(h)
        \/ Inherit(h) \/ AffirmUnscored(h) \/ AffirmBegin(h) \/ AffirmScored(h)
        \/ AffirmFails(h) \/ Title(h) \/ Classify(h) \/ Classified(h) \/ ClassifyFails(h)
        \/ Store(h) \/ Dispatch(h)

Spec == Init /\ [][Next]_vars

-----------------------------------------------------------------------------

TypeOK ==
    /\ IsStore(cache, [key : Tiers \cup Requests, tier : Tiers])
    /\ inflight \in BOOLEAN
    /\ turns \in [Handlers -> Turns \cup {NoTurn}]

Asking == {h \in Handlers : Running(h, "asking")}

\* The sentinel is held exactly while one affirmation of the context is being
\* scored: a failed call never leaves it behind, to keep every later yes from
\* being scored, and two are never scored at once.
SentinelHeld ==
    /\ inflight <=> Asking # {}
    /\ \A g, h \in Asking : g = h

\* Whatever enters the tier cache is the very tier the classifier answered to a turn,
\* under that turn's own key: no failure, size floor, title, replayed tier or tier
\* capped by the lock becomes the tier of the context's later turns.
OnlyAnswersCached ==
    [][\A e \in Entries(cache') \ Entries(cache) :
          \E h \in Handlers :
              /\ Running(h, "storing") /\ turns[h].answer \in Tiers
              /\ e.key = KeyOf(turns[h]) /\ e.tier = turns[h].answer]_vars

\* A replay of the cached tier, for a turn that carries no tool results, never
\* routes above what the client asked for, whatever the lock.
ReplayCapped ==
    \A h \in Handlers :
        /\ Running(h, "done") /\ ~turns[h].failed
        /\ \/ turns[h].kind = "image" /\ turns[h].cached # None
           \/ turns[h].kind = "missing"
        => ~Higher(turns[h].routed, turns[h].requested)

\* A yes to work of a tier, as far as the cache knew, is not routed below it.
AffirmationStands ==
    \A h \in Handlers :
        Running(h, "done") /\ turns[h].kind = "affirm"
            => ~Higher(turns[h].cached, turns[h].routed)

\* Within the lock; without a lock, one of the models a turn may fall back on.
Bounded(t) ==
    IF t.lock # Off THEN ~Higher(t.routed, t.lock)
    ELSE t.routed \in {t.requested, t.cached, Standard}

\* A turn the classifier gave no answer for is routed to no tier above the lock;
\* without a lock, to the model asked for, the cached tier or the standard floor.
FailureBounded ==
    \A h \in Handlers : Running(h, "done") /\ turns[h].failed => Bounded(turns[h])
=============================================================================
