--------------------------- MODULE TierRoutingProofs ---------------------------
(***************************************************************************)
(* Proofs about what decides a turn's model: those of TierRouting for      *)
(* every number of request threads, every set of requested models and      *)
(* locks, and every size of the tier cache, and, in the second part, those *)
(* of ContextFloor, for every number of connections and contexts, every    *)
(* threshold and every measure.                                            *)
(***************************************************************************)
EXTENDS TierRouting, ContextFloor, BoundedStoreProofs, TLAPS

\* What a turn carries from step to step: only a turn with an answer has a tier to
\* store, and one without is already routed within its bound.
TurnOK(t) ==
    /\ t.failed => t.phase \in {"missing", "done"} /\ Bounded(t)
    /\ t.phase = "storing" => t.store \in Tiers

TurnsOK == \A h \in Handlers : turns[h] # NoTurn => TurnOK(turns[h])

\* The inductive invariant.
IInv == TypeOK /\ SentinelHeld /\ TurnsOK

\* The cache answers a tier or nothing.
LEMMA CacheEntries ==
    ASSUME TypeOK, NEW key
    PROVE  Lookup(key) \in Tiers \cup {None}
<1>1. CASE key \in KeysOf(cache)
    <2>1. EntryOf(cache, key) \in [key : Tiers \cup Requests, tier : Tiers]
        BY <1>1, EntryOfProperties, EntriesInSet DEF TypeOK, IsStore
    <2>2. QED BY <1>1, <2>1 DEF Lookup
<1>2. CASE key \notin KeysOf(cache)
    BY <1>2 DEF Lookup
<1>3. QED BY <1>1, <1>2

\* The caps choose one of the two models they compare.
LEMMA CapType ==
    ASSUME NEW tier \in Models, NEW t \in Turns
    PROVE  /\ CapToLock(t, tier) \in Models /\ ReplayCap(t, tier) \in Models
           /\ Baseline(t) \in Tiers \cup Requests
           /\ t.lock # Off => ~Higher(CapToLock(t, tier), t.lock)
           /\ t.lock # Off => ~Higher(t.lock, t.lock)
BY TierRoutingAssumption
   DEF CapToLock, ReplayCap, Cap, Baseline, Higher, Rank, Turns, Models, Tiers,
       Trivial, Standard, Deep

\* A step of one turn that leaves the cache and the sentinel alone.
LEMMA TurnStep ==
    ASSUME IInv, NEW h \in Handlers, NEW t \in Turns \cup {NoTurn}, Becomes(h, t),
           t # NoTurn => TurnOK(t),
           (t # NoTurn /\ t.phase = "asking") <=> Running(h, "asking")
    PROVE  IInv'
<1> USE DEF IInv
<1>1. /\ UNCHANGED <<cache, inflight>> /\ turns'[h] = t
      /\ \A g \in Handlers : g # h => turns'[g] = turns[g]
    BY DEF Becomes, TypeOK
<1>2. TypeOK'
    BY <1>1 DEF TypeOK, Becomes
<1>3. \A g \in Handlers : Running(g, "asking")' <=> Running(g, "asking")
    BY <1>1 DEF Running
<1>4. Asking' = Asking
    BY <1>3 DEF Asking
<1>5. SentinelHeld'
    BY <1>1, <1>4 DEF SentinelHeld
<1>6. TurnsOK'
    BY <1>1 DEF TurnsOK
<1>7. QED BY <1>2, <1>5, <1>6

\* What Routed and Failed make of a turn.
LEMMA RoutedTurn ==
    ASSUME TypeOK, NEW h \in Handlers, turns[h] # NoTurn, NEW model \in Models
    PROVE  /\ Routed(h, model) \in Turns /\ Failed(h, model) \in Turns
           /\ Routed(h, model).phase = "done" /\ Failed(h, model).phase = "done"
           /\ Routed(h, model).failed = turns[h].failed
           /\ Failed(h, model).failed
           /\ Failed(h, model).routed = model
           /\ Failed(h, model).lock = turns[h].lock
           /\ Failed(h, model).requested = turns[h].requested
           /\ Failed(h, model).cached = turns[h].cached
<1>1. turns[h] \in Turns
    BY DEF TypeOK
<1>2. QED BY <1>1 DEF Routed, Failed, Turns

\* A step that routes a turn the classifier has not failed.
LEMMA RoutedStep ==
    ASSUME IInv, NEW h \in Handlers, turns[h] # NoTurn, ~Running(h, "asking"),
           ~turns[h].failed, NEW model \in Models, Becomes(h, Routed(h, model))
    PROVE  IInv'
<1>1. /\ Routed(h, model) \in Turns /\ Routed(h, model).phase = "done"
      /\ ~Routed(h, model).failed
    BY RoutedTurn DEF IInv
<1>2. TurnOK(Routed(h, model))
    BY <1>1 DEF TurnOK
<1>3. QED BY <1>1, <1>2, TurnStep

\* The baseline bounds itself.
LEMMA BaselineBounded ==
    ASSUME NEW t \in Turns, t.routed = Baseline(t)
    PROVE  Bounded(t)
BY CapType, TierRoutingAssumption
   DEF Bounded, Baseline, Higher, Rank, Turns, Models, Tiers, Trivial, Standard, Deep

\* So does the floor of an affirmation.
LEMMA FloorBounded ==
    ASSUME NEW t \in Turns, NEW u \in Turns, u.routed = AffirmationFloor(t),
           u.lock = t.lock, u.requested = t.requested, u.cached = t.cached
    PROVE  AffirmationFloor(t) \in Models /\ Bounded(u)
<1>1. CASE Reclassify(t)
    <2>1. AffirmationFloor(t) = Trivial /\ u.cached = Trivial
        BY <1>1 DEF AffirmationFloor, Reclassify
    <2>2. QED BY <2>1, TierRoutingAssumption
            DEF Bounded, Higher, Rank, Models, Tiers, Trivial, Standard, Deep
<1>2. CASE ~Reclassify(t)
    <2>1. AffirmationFloor(t) = CapToLock(t, Standard) /\ Standard \in Models
        BY <1>2 DEF AffirmationFloor, Models, Tiers
    <2>2. CASE t.lock = Off
        BY <2>1, <2>2 DEF CapToLock, Bounded
    <2>3. CASE t.lock # Off
        BY <2>1, <2>3, CapType DEF Bounded
    <2>4. QED BY <2>1, <2>2, <2>3, CapType
<1>3. QED BY <1>1, <1>2

\* A step that routes a turn without an answer, within its bound.
LEMMA FailedTurn ==
    ASSUME TypeOK, NEW h \in Handlers, turns[h] # NoTurn, NEW model,
           model = Baseline(turns[h]) \/ model = AffirmationFloor(turns[h])
    PROVE  /\ Failed(h, model) \in Turns /\ Failed(h, model).phase = "done"
           /\ TurnOK(Failed(h, model))
<1> DEFINE t == turns[h]
           u == Failed(h, model)
<1>1. t \in Turns
    BY DEF TypeOK
<1>2. model \in Models
    <2>1. AffirmationFloor(t) \in Models
        <3>1. [t EXCEPT !.routed = Trivial] \in Turns
            BY <1>1 DEF Turns, Models, Tiers
        <3>2. CASE Reclassify(t)
            BY <3>2 DEF AffirmationFloor, Reclassify, Models, Tiers
        <3>3. CASE ~Reclassify(t)
            BY <1>1, <3>3, CapType DEF AffirmationFloor, Models, Tiers
        <3>4. QED BY <3>2, <3>3
    <2>2. Baseline(t) \in Models
        BY <1>1, <2>1, CapType DEF Models
    <2>3. QED BY <2>1, <2>2
<1>3. /\ u \in Turns /\ u.phase = "done" /\ u.routed = model
      /\ u.lock = t.lock /\ u.requested = t.requested /\ u.cached = t.cached
    BY <1>2, RoutedTurn
<1> HIDE DEF u
<1>4. Bounded(u)
    <2>1. CASE model = Baseline(t)
        <3>1. u.routed = Baseline(u)
            BY <1>3, <2>1 DEF Baseline
        <3>2. QED BY <1>3, <3>1, BaselineBounded
    <2>2. CASE model = AffirmationFloor(t)
        BY <1>1, <1>3, <2>2, FloorBounded
    <2>3. QED BY <2>1, <2>2
<1>5. TurnOK(u)
    BY <1>3, <1>4 DEF TurnOK
<1>6. QED BY <1>3, <1>5 DEF u

\* A step that frees the sentinel with the one turn that was being scored.
LEMMA FreeStep ==
    ASSUME IInv, NEW h \in Handlers, Running(h, "asking"), NEW t \in Turns,
           t.phase # "asking", TurnOK(t), turns' = [turns EXCEPT ![h] = t],
           inflight' = FALSE, UNCHANGED cache
    PROVE  IInv'
<1> USE DEF IInv
<1>1. /\ turns'[h] = t
      /\ \A g \in Handlers : g # h => turns'[g] = turns[g]
    BY DEF TypeOK
<1>2. TypeOK'
    BY DEF TypeOK
<1>3. Asking' = {}
    <2>1. \A g \in Handlers : g # h => ~Running(g, "asking")
        BY DEF SentinelHeld, Asking
    <2>2. \A g \in Handlers : ~Running(g, "asking")'
        BY <1>1, <2>1, NoTurnAssumption DEF Running
    <2>3. QED BY <2>2 DEF Asking
<1>4. SentinelHeld'
    BY <1>3 DEF SentinelHeld
<1>5. TurnsOK'
    BY <1>1 DEF TurnsOK
<1>6. QED BY <1>2, <1>4, <1>5

\* The invariant holds initially.
LEMMA InitInv == Init => IInv
<1> SUFFICES ASSUME Init PROVE IInv
    OBVIOUS
<1>1. IsStore(cache, [key : Tiers \cup Requests, tier : Tiers])
    BY MaxEntriesAssumption DEF Init, IsStore
<1>2. TypeOK
    BY <1>1 DEF Init, TypeOK
<1>3. SentinelHeld
    BY DEF Init, SentinelHeld, Asking, Running
<1>4. TurnsOK
    BY DEF Init, TurnsOK
<1>5. QED BY <1>2, <1>3, <1>4 DEF IInv

\* A turn that is not failed and has nothing to store carries nothing.
LEMMA FreshTurn ==
    ASSUME IInv, NEW h \in Handlers, NEW phase, Running(h, phase),
           phase \notin {"missing", "done"}
    PROVE  turns[h] \in Turns /\ turns[h] # NoTurn /\ ~turns[h].failed
BY DEF IInv, TypeOK, TurnsOK, TurnOK, Running

\* A request thread reads the lock and the tier of its context.
LEMMA BeginInv == ASSUME IInv, NEW h \in Handlers, Begin(h) PROVE IInv'
<1>1. PICK kind \in Kinds, requested \in Requests, lock \in Locks,
          prior \in BOOLEAN, replay \in BOOLEAN :
          Becomes(h, Arrived(kind, requested, lock, prior, replay))
    BY DEF Begin
<1> DEFINE t == [phase |-> "read", kind |-> kind, requested |-> requested, lock |-> lock,
                 prior |-> prior, replay |-> replay, cached |-> None, routed |-> None,
                 store |-> None, failed |-> FALSE, answer |-> None]
           u == Arrived(kind, requested, lock, prior, replay)
<1>2. t \in Turns /\ t.phase = "read" /\ ~t.failed
    BY DEF Turns
<1>3. u = IF replay THEN t ELSE [t EXCEPT !.cached = Lookup(KeyOf(t))]
    BY DEF Arrived
<1> HIDE DEF t, u
<1>4. u \in Turns /\ u.phase = "read" /\ ~u.failed
    BY <1>2, <1>3, CacheEntries DEF IInv, Turns
<1>5. ~Running(h, "asking") /\ TurnOK(u)
    BY <1>4 DEF Begin, Running, TurnOK
<1>6. QED BY <1>1, <1>4, <1>5, TurnStep DEF u

\* The steps that route a turn without asking the classifier.
LEMMA PlainInv ==
    ASSUME IInv, NEW h \in Handlers,
           SizeFloor(h) \/ Walkback(h) \/ Inherit(h) \/ Title(h)
    PROVE  IInv'
<1>1. Running(h, "read")
    BY DEF SizeFloor, Walkback, Inherit, Title
<1>2. turns[h] \in Turns /\ turns[h] # NoTurn /\ ~turns[h].failed
    BY <1>1, FreshTurn
<1>3. ~Running(h, "asking")
    BY <1>1 DEF Running
<1>4. \E model \in Models : Becomes(h, Routed(h, model))
    <2>1. CASE SizeFloor(h)
        BY <2>1 DEF SizeFloor, Models
    <2>2. CASE Walkback(h)
        <3>1. turns[h].cached \in Models
            BY <1>2, <2>2 DEF Walkback, Turns, Models
        <3>2. ReplayCap(turns[h], turns[h].cached) \in Models
            BY <1>2, <3>1, CapType
        <3>3. QED BY <2>2, <3>1, <3>2 DEF Walkback
    <2>3. CASE Inherit(h)
        <3>1. turns[h].cached \in Models
            BY <1>2, <2>3 DEF Inherit, Turns, Models
        <3>2. QED BY <2>3, <3>1 DEF Inherit
    <2>4. CASE Title(h)
        <3>1. Trivial \in Models
            BY DEF Models, Tiers
        <3>2. CapToLock(turns[h], Trivial) \in Models
            BY <1>2, <3>1, CapType
        <3>3. QED BY <2>4, <3>2 DEF Title
    <2>5. QED BY <2>1, <2>2, <2>3, <2>4
<1>5. QED BY <1>2, <1>3, <1>4, RoutedStep

\* A turn with no user text, before and after _apply_tier_cache reads the cache.
LEMMA MissingInv ==
    ASSUME IInv, NEW h \in Handlers, MissingText(h) \/ Fallback(h)
    PROVE  IInv'
<1> DEFINE t == turns[h]
<1>1. CASE MissingText(h)
    <2> DEFINE u == Failed(h, Baseline(t))
               v == [u EXCEPT !.phase = IF t.replay THEN "done" ELSE "missing"]
    <2>1. Running(h, "read") /\ Becomes(h, v)
        BY <1>1 DEF MissingText
    <2>2. t # NoTurn /\ ~Running(h, "asking")
        BY <2>1 DEF Running
    <2>3. u \in Turns /\ TurnOK(u) /\ u.failed
        <3>1. u \in Turns /\ TurnOK(u)
            BY <2>2, FailedTurn DEF IInv
        <3>2. Baseline(t) \in Models
            BY <2>2, CapType DEF IInv, TypeOK, Models
        <3>3. QED BY <2>2, <3>1, <3>2, RoutedTurn DEF IInv
    <2> HIDE DEF u
    <2>4. v \in Turns /\ v.phase \in {"missing", "done"} /\ Bounded(v)
        BY <2>3 DEF Turns, TurnOK, Bounded
    <2> HIDE DEF v
    <2>5. v.phase # "asking" /\ TurnOK(v)
        BY <2>4 DEF TurnOK
    <2>6. QED BY <2>1, <2>2, <2>4, <2>5, TurnStep
<1>2. CASE Fallback(h)
    <2>1. /\ Running(h, "missing") /\ t # NoTurn /\ ~Running(h, "asking")
          /\ t \in Turns
        BY <1>2 DEF Fallback, Running, IInv, TypeOK
    <2> DEFINE tier == Lookup(KeyOf(t))
    <2>2. tier \in Tiers \cup {None}
        BY CacheEntries DEF IInv
    <2>3. CASE tier = None
        <3> DEFINE u == [t EXCEPT !.phase = "done"]
        <3>1. Becomes(h, u)
            BY <1>2, <2>3 DEF Fallback
        <3>2. u \in Turns /\ u.phase = "done" /\ TurnOK(u)
            BY <2>1 DEF Turns, IInv, TurnsOK, TurnOK, Bounded
        <3> HIDE DEF u
        <3>3. QED BY <2>1, <3>1, <3>2, TurnStep
    <2>4. CASE tier # None
        <3> DEFINE m == ReplayCap(t, tier)
                   u == Routed(h, m)
                   v == [u EXCEPT !.failed = FALSE]
        <3>1. Becomes(h, v)
            BY <1>2, <2>4 DEF Fallback
        <3>2. m \in Models
            BY <2>1, <2>2, <2>4, CapType DEF Models
        <3>3. u \in Turns /\ u.phase = "done"
            BY <2>1, <3>2, RoutedTurn DEF IInv
        <3> HIDE DEF u
        <3>4. v \in Turns /\ v.phase = "done" /\ ~v.failed
            BY <3>3 DEF Turns
        <3> HIDE DEF v
        <3>5. TurnOK(v)
            BY <3>4 DEF TurnOK
        <3>6. QED BY <2>1, <3>1, <3>4, <3>5, TurnStep
    <2>5. QED BY <2>3, <2>4
<1>3. QED BY <1>1, <1>2

\* What Scored makes of a turn: a tier to store, unless it is a replay.
LEMMA ScoredTurn ==
    ASSUME TypeOK, NEW h \in Handlers, turns[h] # NoTurn, ~turns[h].failed,
           NEW model \in Models, NEW tier \in Tiers, NEW answer \in Tiers
    PROVE  /\ Scored(h, model, tier, answer) \in Turns
           /\ TurnOK(Scored(h, model, tier, answer))
           /\ Scored(h, model, tier, answer).phase # "asking"
<1> DEFINE r == Routed(h, model)
<1>1. r \in Turns /\ r.phase = "done" /\ ~r.failed
    BY RoutedTurn
<1>2. Scored(h, model, tier, answer) =
          IF turns[h].replay THEN r
          ELSE [r EXCEPT !.phase = "storing", !.store = tier, !.answer = answer]
    BY DEF Scored
<1> HIDE DEF r
<1>3. CASE turns[h].replay
    BY <1>1, <1>2, <1>3 DEF TurnOK
<1>4. CASE ~turns[h].replay
    <2>1. PICK u : u = [r EXCEPT !.phase = "storing", !.store = tier, !.answer = answer]
        OBVIOUS
    <2>2. u \in Turns /\ u.phase = "storing" /\ u.store = tier /\ ~u.failed
        BY <1>1, <2>1 DEF Turns
    <2>3. QED BY <1>2, <1>4, <2>1, <2>2 DEF TurnOK
<1>5. QED BY <1>3, <1>4

\* A classification, asked for and answered or not.
LEMMA ClassifyInv ==
    ASSUME IInv, NEW h \in Handlers, Classify(h) \/ Classified(h) \/ ClassifyFails(h)
    PROVE  IInv'
<1>1. /\ turns[h] \in Turns /\ turns[h] # NoTurn /\ ~turns[h].failed
      /\ ~Running(h, "asking")
    BY FreshTurn DEF Classify, Classified, ClassifyFails, Running
<1>2. CASE Classify(h)
    <2> DEFINE u == [turns[h] EXCEPT !.phase = "classifying"]
    <2>1. u \in Turns /\ u.phase = "classifying" /\ ~u.failed
        BY <1>1 DEF Turns
    <2>2. Becomes(h, u)
        BY <1>2 DEF Classify
    <2> HIDE DEF u
    <2>3. TurnOK(u)
        BY <2>1 DEF TurnOK
    <2>4. QED BY <1>1, <2>1, <2>2, <2>3, TurnStep
<1>3. CASE Classified(h)
    <2>1. PICK tier \in Tiers : Becomes(h, Scored(h, tier, tier, tier))
        BY <1>3 DEF Classified
    <2>2. /\ Scored(h, tier, tier, tier) \in Turns /\ TurnOK(Scored(h, tier, tier, tier))
          /\ Scored(h, tier, tier, tier).phase # "asking"
        BY <1>1, ScoredTurn DEF IInv, Models
    <2>3. QED BY <1>1, <2>1, <2>2, TurnStep
<1>4. CASE ClassifyFails(h)
    <2>1. Becomes(h, Failed(h, Baseline(turns[h])))
        BY <1>4 DEF ClassifyFails
    <2>2. QED BY <1>1, <2>1, FailedTurn, TurnStep DEF IInv
<1>5. QED BY <1>2, <1>3, <1>4

\* A yes, scored or not: only the call itself holds the sentinel.
LEMMA AffirmInv ==
    ASSUME IInv, NEW h \in Handlers,
           AffirmUnscored(h) \/ AffirmBegin(h) \/ AffirmScored(h) \/ AffirmFails(h)
    PROVE  IInv'
<1> DEFINE t == turns[h]
<1>1. t \in Turns /\ t # NoTurn /\ ~t.failed
    BY FreshTurn DEF AffirmUnscored, AffirmBegin, AffirmScored, AffirmFails
<1>2. CASE AffirmUnscored(h)
    <2>1. ~Running(h, "asking") /\ Becomes(h, Failed(h, AffirmationFloor(t)))
        BY <1>2 DEF AffirmUnscored, Running
    <2>2. QED BY <1>1, <2>1, FailedTurn, TurnStep DEF IInv
<1>3. CASE AffirmBegin(h)
    <2> DEFINE u == [t EXCEPT !.phase = "asking"]
    <2>1. u \in Turns /\ u.phase = "asking" /\ ~u.failed
        BY <1>1 DEF Turns
    <2>2. /\ ~inflight /\ inflight' = TRUE /\ UNCHANGED cache
          /\ turns' = [turns EXCEPT ![h] = u]
        BY <1>3 DEF AffirmBegin
    <2> HIDE DEF u
    <2>3. u # NoTurn /\ TurnOK(u)
        BY <2>1, NoTurnAssumption DEF TurnOK
    <2>4. turns'[h] = u /\ \A g \in Handlers : g # h => turns'[g] = turns[g]
        BY <2>2 DEF IInv, TypeOK
    <2>5. TypeOK'
        BY <2>1, <2>2 DEF IInv, TypeOK
    <2>6. Asking' = {h}
        <3>1. \A g \in Handlers : ~Running(g, "asking")
            BY <2>2 DEF IInv, SentinelHeld, Asking
        <3>2. \A g \in Handlers : Running(g, "asking")' <=> g = h
            BY <2>1, <2>3, <2>4, <3>1 DEF Running
        <3>3. QED BY <3>2 DEF Asking
    <2>7. SentinelHeld'
        BY <2>2, <2>6 DEF SentinelHeld
    <2>8. TurnsOK'
        BY <2>3, <2>4 DEF IInv, TurnsOK
    <2>9. QED BY <2>5, <2>7, <2>8 DEF IInv
<1>4. CASE AffirmScored(h)
    <2>1. PICK tier \in Tiers :
              LET keep == t.cached # None /\ Higher(t.cached, tier)
                  stored == IF keep THEN t.cached ELSE tier
                  routed == IF keep THEN t.cached ELSE CapToLock(t, tier)
              IN  turns' = [turns EXCEPT ![h] = Scored(h, routed, stored, tier)]
        BY <1>4 DEF AffirmScored
    <2>2. t.cached # None => t.cached \in Tiers
        BY <1>1 DEF Turns
    <2>3. CapToLock(t, tier) \in Models
        BY <1>1, CapType DEF Models
    <2>4. PICK stored \in Tiers, routed \in Models :
              turns' = [turns EXCEPT ![h] = Scored(h, routed, stored, tier)]
        BY <2>1, <2>2, <2>3 DEF Models
    <2>5. /\ Scored(h, routed, stored, tier) \in Turns
          /\ TurnOK(Scored(h, routed, stored, tier))
          /\ Scored(h, routed, stored, tier).phase # "asking"
        BY <1>1, ScoredTurn DEF IInv
    <2>6. Running(h, "asking") /\ inflight' = FALSE /\ UNCHANGED cache
        BY <1>4 DEF AffirmScored
    <2>7. QED BY <2>4, <2>5, <2>6, FreeStep
<1>5. CASE AffirmFails(h)
    <2>1. /\ Running(h, "asking") /\ inflight' = FALSE /\ UNCHANGED cache
          /\ turns' = [turns EXCEPT ![h] = Failed(h, AffirmationFloor(t))]
        BY <1>5 DEF AffirmFails
    <2>2. QED BY <1>1, <2>1, FailedTurn, FreeStep DEF IInv
<1>6. QED BY <1>2, <1>3, <1>4, <1>5

\* The one write of the tier cache: the tier the turn has to store, under its key.
LEMMA StoreInv ==
    ASSUME IInv, NEW h \in Handlers, Store(h)
    PROVE  /\ IInv'
           /\ Entries(cache') \subseteq
                  Entries(cache) \cup {[key |-> KeyOf(turns[h]), tier |-> turns[h].store]}
<1> DEFINE t == turns[h]
           e == [key |-> KeyOf(t), tier |-> t.store]
           u == [t EXCEPT !.phase = "done", !.store = None, !.answer = None]
           E == [key : Tiers \cup Requests, tier : Tiers]
<1>1. t \in Turns /\ t # NoTurn /\ ~t.failed
    BY FreshTurn DEF Store
<1>2. /\ Running(h, "storing") /\ cache' = Put(cache, e)
      /\ turns' = [turns EXCEPT ![h] = u] /\ UNCHANGED inflight
    BY DEF Store
<1>3. e \in E
    <2>1. t.store \in Tiers
        BY <1>1, <1>2 DEF Running, IInv, TurnsOK, TurnOK
    <2>2. KeyOf(t) \in Tiers \cup Requests
        BY <1>1, CapType DEF KeyOf, Models, Tiers
    <2>3. QED BY <1>1, <2>1, <2>2 DEF Turns
<1>4. u \in Turns /\ u.phase = "done" /\ ~u.failed
    BY <1>1 DEF Turns
<1> HIDE DEF e, u
<1>5. IsStore(cache', E) /\ Entries(cache') \subseteq Entries(cache) \cup {e}
    <2>1. IsStore(cache, E) /\ e \in E
        BY <1>3 DEF IInv, TypeOK
    <2> HIDE DEF E
    <2>2. /\ IsStore(Put(cache, e), E)
          /\ Entries(Put(cache, e)) \subseteq {f \in Entries(cache) : f.key # e.key} \cup {e}
        BY <2>1, PutStore
    <2>3. QED BY <1>2, <2>2
<1>6. turns'[h] = u /\ \A g \in Handlers : g # h => turns'[g] = turns[g]
    BY <1>2 DEF IInv, TypeOK
<1>7. TypeOK'
    BY <1>2, <1>4, <1>5 DEF IInv, TypeOK
<1>8. SentinelHeld'
    <2>1. \A g \in Handlers : Running(g, "asking")' <=> Running(g, "asking")
        BY <1>2, <1>4, <1>6 DEF Running
    <2>2. Asking' = Asking
        BY <2>1 DEF Asking
    <2>3. QED BY <1>2, <2>2 DEF IInv, SentinelHeld
<1>9. TurnsOK'
    BY <1>4, <1>6 DEF IInv, TurnsOK, TurnOK
<1>10. QED BY <1>5, <1>7, <1>8, <1>9 DEF IInv, e

\* Every step preserves the invariant.
LEMMA NextInv == IInv /\ [Next]_vars => IInv'
<1> SUFFICES ASSUME IInv, [Next]_vars PROVE IInv'
    OBVIOUS
<1>1. ASSUME NEW h \in Handlers, Dispatch(h) PROVE IInv'
    BY <1>1, TurnStep DEF Dispatch, Running
<1>2. CASE Next
    BY <1>1, <1>2, BeginInv, PlainInv, MissingInv, ClassifyInv, AffirmInv, StoreInv
       DEF Next
<1>3. CASE UNCHANGED vars
    BY <1>3 DEF vars, IInv, TypeOK, SentinelHeld, Asking, Running, TurnsOK
<1>4. QED BY <1>2, <1>3

\* The invariant holds in every state of every behaviour.
THEOREM TierInvariantTheorem == Spec => []IInv
BY InitInv, NextInv, PTL DEF Spec

\* The tier cache stays a bounded store of tiers, and every turn in flight is one
\* route_model can be serving.
THEOREM TypeTheorem == Spec => []TypeOK
<1>1. IInv => TypeOK
    BY DEF IInv
<1>2. QED BY <1>1, TierInvariantTheorem, PTL

\* The affirmation sentinel of model_router.py is held exactly while one
\* affirmation is being scored, however many request threads there are.
THEOREM SentinelHeldTheorem == Spec => []SentinelHeld
<1>1. IInv => SentinelHeld
    BY DEF IInv
<1>2. QED BY <1>1, TierInvariantTheorem, PTL

\* A turn without an answer goes to no tier above the lock or, without a lock, to
\* the model asked for, the cached tier or the standard floor.
THEOREM FailureBoundedTheorem == Spec => []FailureBounded
<1>1. IInv => FailureBounded
    BY DEF IInv, TurnsOK, TurnOK, FailureBounded, Running
<1>2. QED BY <1>1, TierInvariantTheorem, PTL

-----------------------------------------------------------------------------

\* What a turn's place in route_model says of its kind and of the tier it read: a yes
\* is scored only over no tier or the trivial one, a recovered image is classified only
\* with no tier to replay, a turn without text is never scored, and what a turn has to
\* store is its answer.
TurnStands(t) ==
    /\ t.phase = "asking" => t.kind = "affirm" /\ t.cached \in {None, Trivial}
    /\ t.phase = "classifying" => t.kind # "affirm" /\ t.kind # "missing"
    /\ t.phase \in {"classifying", "storing"} /\ t.kind = "image" => t.cached = None
    /\ t.phase = "missing" => t.kind = "missing" /\ t.failed
    /\ t.phase = "storing" => t.kind # "missing" /\ t.answer \in Tiers /\ t.store = t.answer
    /\ t.phase \in {"storing", "done"} /\ t.kind = "affirm" => ~Higher(t.cached, t.routed)
    /\ /\ t.phase = "done" /\ ~t.failed
       /\ (t.kind = "image" /\ t.cached # None) \/ t.kind = "missing"
       => ~Higher(t.routed, t.requested)

TurnsStand == \A h \in Handlers : turns[h] # NoTurn => TurnStands(turns[h])

\* A turn that reads nothing but its own record.
LEMMA StandStep ==
    ASSUME TypeOK, TurnsStand, NEW h \in Handlers, NEW t,
           turns' = [turns EXCEPT ![h] = t], t # NoTurn => TurnStands(t)
    PROVE  TurnsStand'
<1>1. turns'[h] = t /\ \A g \in Handlers : g # h => turns'[g] = turns[g]
    BY DEF TypeOK
<1>2. QED BY <1>1 DEF TurnsStand

\* Nothing is below trivial, no tier is below itself, and the cap of a replay is one.
LEMMA CapOrder ==
    ASSUME NEW tier \in Tiers \cup {None}, NEW model \in Models
    PROVE  /\ ~Higher(Trivial, model) /\ ~Higher(None, model) /\ ~Higher(tier, tier)
           /\ \A t \in Turns : ~Higher(ReplayCap(t, tier), t.requested)
BY TierRoutingAssumption
   DEF Higher, Rank, ReplayCap, Cap, Models, Turns, Tiers, Trivial, Standard, Deep

\* What routing leaves of a turn.
LEMMA RoutedKeeps ==
    ASSUME TypeOK, NEW h \in Handlers, turns[h] # NoTurn, NEW model \in Models
    PROVE  \A u \in {Routed(h, model), Failed(h, model)} :
               /\ u \in Turns /\ u.phase = "done" /\ u.routed = model
               /\ u.kind = turns[h].kind /\ u.cached = turns[h].cached
               /\ u.requested = turns[h].requested
               /\ u = Failed(h, model) => u.failed
<1> DEFINE r == Routed(h, model)
           f == [r EXCEPT !.failed = TRUE]
<1>1. turns[h] \in Turns
    BY DEF TypeOK
<1>2. /\ r \in Turns /\ r.phase = "done" /\ r.routed = model
      /\ r.kind = turns[h].kind /\ r.cached = turns[h].cached
      /\ r.requested = turns[h].requested
    BY <1>1 DEF Routed, Turns
<1>3. Failed(h, model) = f
    BY DEF Failed
<1> HIDE DEF r
<1>4. /\ f \in Turns /\ f.phase = "done" /\ f.routed = model /\ f.failed
      /\ f.kind = turns[h].kind /\ f.cached = turns[h].cached
      /\ f.requested = turns[h].requested
    BY <1>2 DEF Turns
<1> HIDE DEF f
<1>5. \A u \in {r, f} :
          /\ u \in Turns /\ u.phase = "done" /\ u.routed = model
          /\ u.kind = turns[h].kind /\ u.cached = turns[h].cached
          /\ u.requested = turns[h].requested
          /\ u = f => u.failed
    BY <1>2, <1>4
<1>6. QED BY <1>3, <1>5 DEF r

\* A turn is routed without a call: by the size floor, a walkback, an inherited tier
\* or the title rule.
LEMMA PlainStands ==
    ASSUME IInv, TurnsStand, NEW h \in Handlers,
           SizeFloor(h) \/ Walkback(h) \/ Inherit(h) \/ Title(h)
    PROVE  TurnsStand'
<1> DEFINE t == turns[h]
<1>1. Running(h, "read") /\ t \in Turns /\ t # NoTurn /\ ~t.failed
    BY FreshTurn DEF SizeFloor, Walkback, Inherit, Title
<1>2. PICK model \in Models :
          /\ Becomes(h, Routed(h, model))
          /\ t.kind = "affirm" => model = t.cached /\ t.cached \in Tiers
          /\ t.kind = "image" => \E tier \in Tiers : model = ReplayCap(t, tier)
          /\ t.kind # "missing"
    <2>1. CASE SizeFloor(h)
        BY <2>1 DEF SizeFloor, Models
    <2>2. CASE Walkback(h)
        <3>1. t.cached \in Tiers
            BY <1>1, <2>2 DEF Walkback, Turns
        <3>2. t.cached \in Models /\ ReplayCap(t, t.cached) \in Models
            BY <1>1, <3>1, CapType DEF Models
        <3>3. QED BY <2>2, <3>1, <3>2 DEF Walkback
    <2>3. CASE Inherit(h)
        BY <1>1, <2>3 DEF Inherit, Turns, Models
    <2>4. CASE Title(h)
        <3>1. CapToLock(t, Trivial) \in Models
            BY <1>1, CapType DEF Models, Tiers
        <3>2. QED BY <2>4, <3>1 DEF Title
    <2>5. QED BY <2>1, <2>2, <2>3, <2>4
<1> DEFINE u == Routed(h, model)
<1>3. /\ u.phase = "done" /\ u.routed = model /\ u.kind = t.kind
      /\ u.cached = t.cached /\ u.requested = t.requested
    BY <1>1, RoutedKeeps DEF IInv
<1>4. u.kind = "affirm" => ~Higher(u.cached, u.routed)
    BY <1>2, <1>3, CapOrder
<1>5. u.kind = "image" => ~Higher(u.routed, u.requested)
    BY <1>1, <1>2, <1>3, CapOrder
<1>6. turns' = [turns EXCEPT ![h] = u]
    BY <1>2 DEF Becomes
<1> HIDE DEF u
<1>7. TurnStands(u)
    BY <1>2, <1>3, <1>4, <1>5 DEF TurnStands
<1>8. QED BY <1>6, <1>7, StandStep DEF IInv

\* A turn with no user text goes to the baseline, unless the cache then has a tier,
\* which the model the client asked for caps.
LEMMA MissingStands ==
    ASSUME IInv, TurnsStand, NEW h \in Handlers, MissingText(h) \/ Fallback(h)
    PROVE  TurnsStand'
<1> DEFINE t == turns[h]
<1>1. t \in Turns /\ t # NoTurn
    BY DEF MissingText, Fallback, Running, IInv, TypeOK
<1>2. CASE MissingText(h)
    <2> DEFINE u == Failed(h, Baseline(t))
               v == [u EXCEPT !.phase = IF t.replay THEN "done" ELSE "missing"]
    <2>1. Baseline(t) \in Models
        BY <1>1, CapType DEF Models
    <2>2. u \in Turns /\ u.kind = t.kind /\ u.failed
        BY <1>1, <2>1, RoutedKeeps DEF IInv
    <2>3. t.kind = "missing" /\ turns' = [turns EXCEPT ![h] = v]
        BY <1>2 DEF MissingText, Becomes
    <2> HIDE DEF u
    <2>4. v.phase \in {"done", "missing"} /\ v.kind = "missing" /\ v.failed
        BY <2>2, <2>3 DEF Turns
    <2> HIDE DEF v
    <2>5. TurnStands(v)
        BY <2>4 DEF TurnStands
    <2>6. QED BY <2>3, <2>5, StandStep DEF IInv
<1>3. CASE Fallback(h)
    <2> DEFINE tier == Lookup(KeyOf(t))
    <2>1. tier \in Tiers \cup {None}
        BY CacheEntries DEF IInv
    <2>2. t.kind = "missing" /\ t.failed
        BY <1>1, <1>3 DEF Fallback, Running, TurnsStand, TurnStands
    <2>3. CASE tier = None
        <3> DEFINE u == [t EXCEPT !.phase = "done"]
        <3>1. turns' = [turns EXCEPT ![h] = u]
            BY <1>3, <2>3 DEF Fallback, Becomes
        <3>2. u.phase = "done" /\ u.kind = "missing" /\ u.failed
            BY <1>1, <2>2 DEF Turns
        <3> HIDE DEF u
        <3>3. TurnStands(u)
            BY <3>2 DEF TurnStands
        <3>4. QED BY <3>1, <3>3, StandStep DEF IInv
    <2>4. CASE tier # None
        <3> DEFINE u == Routed(h, ReplayCap(t, tier))
                   v == [u EXCEPT !.failed = FALSE]
        <3>1. turns' = [turns EXCEPT ![h] = v]
            BY <1>3, <2>4 DEF Fallback, Becomes
        <3>2. ReplayCap(t, tier) \in Models /\ ~Higher(ReplayCap(t, tier), t.requested)
            BY <1>1, <2>1, <2>4, CapType, CapOrder DEF Models
        <3>3. /\ u \in Turns /\ u.phase = "done" /\ u.kind = "missing"
              /\ u.routed = ReplayCap(t, tier) /\ u.requested = t.requested
            BY <1>1, <2>2, <3>2, RoutedKeeps DEF IInv
        <3> HIDE DEF u
        <3>4. /\ v.phase = "done" /\ v.kind = "missing"
              /\ ~Higher(v.routed, v.requested)
            BY <3>2, <3>3 DEF Turns
        <3> HIDE DEF v
        <3>5. TurnStands(v)
            BY <3>4 DEF TurnStands
        <3>6. QED BY <3>1, <3>5, StandStep DEF IInv
    <2>5. QED BY <2>3, <2>4
<1>4. QED BY <1>2, <1>3

\* What an answer makes of a turn.
LEMMA ScoredStands ==
    ASSUME TypeOK, NEW h \in Handlers, turns[h] # NoTurn, NEW model \in Models,
           NEW tier \in Tiers, turns[h].kind # "missing",
           turns[h].kind = "affirm" => ~Higher(turns[h].cached, model),
           turns[h].kind = "image" => turns[h].cached = None
    PROVE  TurnStands(Scored(h, model, tier, tier))
<1> DEFINE r == Routed(h, model)
           s == [r EXCEPT !.phase = "storing", !.store = tier, !.answer = tier]
<1>1. /\ r \in Turns /\ r.phase = "done" /\ r.routed = model
      /\ r.kind = turns[h].kind /\ r.cached = turns[h].cached
    BY RoutedKeeps
<1>2. Scored(h, model, tier, tier) = IF turns[h].replay THEN r ELSE s
    BY DEF Scored
<1> HIDE DEF r
<1>3. /\ s.phase = "storing" /\ s.routed = model /\ s.store = tier /\ s.answer = tier
      /\ s.kind = turns[h].kind /\ s.cached = turns[h].cached
    BY <1>1 DEF Turns
<1> HIDE DEF s
<1>4. TurnStands(r) /\ TurnStands(s)
    BY <1>1, <1>3 DEF TurnStands
<1>5. QED BY <1>2, <1>4

\* A turn without an answer stands if it is no yes, or a yes routed to its tier.
LEMMA FailedStands ==
    ASSUME TypeOK, NEW h \in Handlers, turns[h] # NoTurn, NEW model \in Models,
           turns[h].kind = "affirm" => ~Higher(turns[h].cached, model)
    PROVE  TurnStands(Failed(h, model))
<1> DEFINE u == Failed(h, model)
<1>1. /\ u.phase = "done" /\ u.routed = model /\ u.failed
      /\ u.kind = turns[h].kind /\ u.cached = turns[h].cached
    BY RoutedKeeps
<1> HIDE DEF u
<1>2. TurnStands(u)
    BY <1>1 DEF TurnStands
<1>3. QED BY <1>2 DEF u

\* A classification: never of a yes, nor of an image with a tier to replay.
LEMMA ClassifyStands ==
    ASSUME IInv, TurnsStand, NEW h \in Handlers,
           Classify(h) \/ Classified(h) \/ ClassifyFails(h)
    PROVE  TurnsStand'
<1> DEFINE t == turns[h]
<1>1. t \in Turns /\ t # NoTurn /\ TurnStands(t)
    BY DEF Classify, Classified, ClassifyFails, Running, IInv, TypeOK, TurnsStand
<1>2. CASE Classify(h)
    <2> DEFINE u == [t EXCEPT !.phase = "classifying"]
    <2>1. turns' = [turns EXCEPT ![h] = u]
        BY <1>2 DEF Classify, Becomes
    <2>2. /\ u.phase = "classifying" /\ u.kind \in {"text", "tool", "image"}
          /\ u.kind = "image" => u.cached = None
        BY <1>1, <1>2 DEF Classify, Turns
    <2> HIDE DEF u
    <2>3. TurnStands(u)
        BY <2>2 DEF TurnStands
    <2>4. QED BY <2>1, <2>3, StandStep DEF IInv
<1>3. CASE Classified(h)
    <2>1. PICK tier \in Tiers : turns' = [turns EXCEPT ![h] = Scored(h, tier, tier, tier)]
        BY <1>3 DEF Classified, Becomes
    <2>2. /\ t.kind # "missing" /\ t.kind # "affirm"
          /\ t.kind = "image" => t.cached = None
        BY <1>1, <1>3 DEF Classified, Running, TurnStands
    <2>3. TurnStands(Scored(h, tier, tier, tier))
        BY <1>1, <2>2, ScoredStands DEF IInv, Models
    <2>4. QED BY <2>1, <2>3, StandStep DEF IInv
<1>4. CASE ClassifyFails(h)
    <2>1. turns' = [turns EXCEPT ![h] = Failed(h, Baseline(t))] /\ t.kind # "affirm"
        BY <1>1, <1>4 DEF ClassifyFails, Becomes, Running, TurnStands
    <2>2. Baseline(t) \in Models
        BY <1>1, CapType DEF Models
    <2>3. TurnStands(Failed(h, Baseline(t)))
        BY <1>1, <2>1, <2>2, FailedStands DEF IInv
    <2>4. QED BY <2>1, <2>3, StandStep DEF IInv
<1>5. QED BY <1>2, <1>3, <1>4

\* A yes: whatever its score, it is not routed below the tier it was read over.
LEMMA AffirmStands ==
    ASSUME IInv, TurnsStand, NEW h \in Handlers,
           AffirmUnscored(h) \/ AffirmBegin(h) \/ AffirmScored(h) \/ AffirmFails(h)
    PROVE  TurnsStand'
<1> DEFINE t == turns[h]
<1>1. /\ t \in Turns /\ t # NoTurn /\ t.kind = "affirm" /\ t.cached \in {None, Trivial}
    BY DEF AffirmUnscored, AffirmBegin, AffirmScored, AffirmFails, Running, Reclassify,
           IInv, TypeOK, TurnsStand, TurnStands
<1>2. \A model \in Models : ~Higher(t.cached, model)
    BY <1>1, CapOrder
<1>3. AffirmationFloor(t) \in Models
    BY <1>1, CapType DEF AffirmationFloor, Reclassify, Models, Tiers
<1>4. CASE AffirmUnscored(h) \/ AffirmFails(h)
    <2>1. turns' = [turns EXCEPT ![h] = Failed(h, AffirmationFloor(t))]
        BY <1>4 DEF AffirmUnscored, AffirmFails, Becomes
    <2>2. TurnStands(Failed(h, AffirmationFloor(t)))
        BY <1>1, <1>2, <1>3, FailedStands DEF IInv
    <2>3. QED BY <2>1, <2>2, StandStep DEF IInv
<1>5. CASE AffirmBegin(h)
    <2> DEFINE u == [t EXCEPT !.phase = "asking"]
    <2>1. turns' = [turns EXCEPT ![h] = u]
        BY <1>5 DEF AffirmBegin
    <2>2. u.phase = "asking" /\ u.kind = "affirm" /\ u.cached \in {None, Trivial}
        BY <1>1 DEF Turns
    <2> HIDE DEF u
    <2>3. TurnStands(u)
        BY <2>2 DEF TurnStands
    <2>4. QED BY <2>1, <2>3, StandStep DEF IInv
<1>6. CASE AffirmScored(h)
    <2>1. PICK tier \in Tiers :
              LET keep == t.cached # None /\ Higher(t.cached, tier)
                  stored == IF keep THEN t.cached ELSE tier
                  routed == IF keep THEN t.cached ELSE CapToLock(t, tier)
              IN  turns' = [turns EXCEPT ![h] = Scored(h, routed, stored, tier)]
        BY <1>6 DEF AffirmScored
    <2>2. CapToLock(t, tier) \in Models /\ ~Higher(t.cached, tier)
        BY <1>1, <1>2, CapType DEF Models
    <2>3. turns' = [turns EXCEPT ![h] = Scored(h, CapToLock(t, tier), tier, tier)]
        BY <2>1, <2>2
    <2>4. TurnStands(Scored(h, CapToLock(t, tier), tier, tier))
        BY <1>1, <1>2, <2>2, ScoredStands DEF IInv
    <2>5. QED BY <2>3, <2>4, StandStep DEF IInv
<1>7. QED BY <1>4, <1>5, <1>6

\* A turn begins unrouted, and ends as it was routed.
LEMMA EndsStand ==
    ASSUME IInv, TurnsStand, NEW h \in Handlers, Begin(h) \/ Store(h) \/ Dispatch(h)
    PROVE  TurnsStand'
<1>1. CASE Begin(h)
    <2>1. PICK kind \in Kinds, requested \in Requests, lock \in Locks,
              prior \in BOOLEAN, replay \in BOOLEAN :
              Becomes(h, Arrived(kind, requested, lock, prior, replay))
        BY <1>1 DEF Begin
    <2> DEFINE u == Arrived(kind, requested, lock, prior, replay)
    <2>2. turns' = [turns EXCEPT ![h] = u] /\ u.phase = "read"
        BY <2>1 DEF Becomes, Arrived
    <2> HIDE DEF u
    <2>3. TurnStands(u)
        BY <2>2 DEF TurnStands
    <2>4. QED BY <2>2, <2>3, StandStep DEF IInv
<1>2. CASE Store(h)
    <2> DEFINE t == turns[h]
               u == [t EXCEPT !.phase = "done", !.store = None, !.answer = None]
    <2>1. /\ t \in Turns /\ t.phase = "storing" /\ TurnStands(t)
          /\ turns' = [turns EXCEPT ![h] = u]
        BY <1>2 DEF Store, Running, IInv, TypeOK, TurnsStand
    <2>2. /\ u.phase = "done" /\ u.kind = t.kind /\ u.cached = t.cached
          /\ u.routed = t.routed
        BY <2>1 DEF Turns
    <2> HIDE DEF u
    <2>3. TurnStands(u)
        BY <2>1, <2>2 DEF TurnStands
    <2>4. QED BY <2>1, <2>3, StandStep DEF IInv
<1>3. CASE Dispatch(h)
    BY <1>3, StandStep DEF Dispatch, Becomes, IInv
<1>4. QED BY <1>1, <1>2, <1>3

\* Every step preserves it, given the first invariant.
LEMMA NextStands == IInv /\ TurnsStand /\ [Next]_vars => TurnsStand'
<1> SUFFICES ASSUME IInv, TurnsStand, [Next]_vars PROVE TurnsStand'
    OBVIOUS
<1>1. CASE Next
    BY <1>1, EndsStand, PlainStands, MissingStands, AffirmStands, ClassifyStands DEF Next
<1>2. CASE UNCHANGED vars
    BY <1>2 DEF vars, TurnsStand
<1>3. QED BY <1>1, <1>2

LEMMA TurnsStandInvariant == Spec => []TurnsStand
<1>1. Init => TurnsStand
    BY DEF Init, TurnsStand
<1>2. QED BY <1>1, TierInvariantTheorem, NextStands, PTL DEF Spec

\* A replay of the cached tier, for a turn without tool results, is never routed by
\* route_model or _apply_tier_cache above the model the client asked for.
THEOREM ReplayCappedTheorem == Spec => []ReplayCapped
<1>1. TurnsStand => ReplayCapped
    BY DEF TurnsStand, TurnStands, ReplayCapped, Running
<1>2. QED BY <1>1, TurnsStandInvariant, PTL

\* However its score, its lock or its failure turn out, a bare yes is not routed below
\* the tier route_model read for the work it agrees to.
THEOREM AffirmationStandsTheorem == Spec => []AffirmationStands
<1>1. TurnsStand => AffirmationStands
    BY DEF TurnsStand, TurnStands, AffirmationStands, Running
<1>2. QED BY <1>1, TurnsStandInvariant, PTL

\* Only a store writes the tier cache, and it writes what its turn was answered.
LEMMA CacheStep ==
    ASSUME IInv, TurnsStand, [Next]_vars, NEW e \in Entries(cache') \ Entries(cache)
    PROVE  \E h \in Handlers :
              /\ Running(h, "storing") /\ turns[h].answer \in Tiers
              /\ e.key = KeyOf(turns[h]) /\ e.tier = turns[h].answer
<1>1. cache' # cache
    OBVIOUS
<1>2. PICK h \in Handlers : Store(h)
    BY <1>1 DEF Next, vars, Becomes, Begin, SizeFloor, MissingText, Fallback, Walkback,
                Inherit, AffirmUnscored, AffirmBegin, AffirmScored, AffirmFails, Title,
                Classify, Classified, ClassifyFails, Dispatch
<1>3. e = [key |-> KeyOf(turns[h]), tier |-> turns[h].store]
    BY <1>2, StoreInv
<1>4. Running(h, "storing") /\ TurnStands(turns[h])
    BY <1>2 DEF Store, Running, TurnsStand
<1>5. turns[h].answer \in Tiers /\ turns[h].store = turns[h].answer
    BY <1>4 DEF Running, TurnStands
<1>6. QED BY <1>3, <1>4, <1>5

\* Whatever _apply_tier_cache writes, for however many request threads and whatever the
\* lock, is the tier the classifier answered to the turn whose key it is written under.
THEOREM OnlyAnswersCachedTheorem == Spec => OnlyAnswersCached
<1>1. IInv /\ TurnsStand /\ [Next]_vars =>
        [\A e \in Entries(cache') \ Entries(cache) :
            \E h \in Handlers :
                /\ Running(h, "storing") /\ turns[h].answer \in Tiers
                /\ e.key = KeyOf(turns[h]) /\ e.tier = turns[h].answer]_vars
    BY CacheStep
<1>2. QED BY <1>1, TierInvariantTheorem, TurnsStandInvariant, PTL DEF Spec, OnlyAnswersCached

-----------------------------------------------------------------------------
(***************************************************************************)
(* The context floor.                                                      *)
(***************************************************************************)
Keys == Contexts \cup {NoContext}

\* The types of a turn, a ratio, a connection's state and an entry of the store.
MeasuredTurns == [context : Keys, estimate : Nat, input : Nat, output : Nat]

Ratios == [is : Nat \X (Nat \ {0}), of : Keys]

HandlerStates ==
    [at : {"idle", "sent", "stopped", "recording"}, turn : MeasuredTurns, ctxKey : Keys,
     estimate : Nat, long : BOOLEAN, prior : Ratios]

Observations == [key : Contexts, floor : Nat, ratio : Ratios, of : Keys]

FloorTypes ==
    /\ globalRouting \in BOOLEAN /\ override \in {"on", "off", "none"}
    /\ IsStore(observed, Observations)
    /\ handlers \in [Connections -> HandlerStates]
    /\ latest \in [Contexts -> {"small", "large", "muddled"}]

\* A ratio other than 1 is of the context it is kept for.
RatioOf(ratio, k) == ratio.is # One => ratio.of = k

\* A handler with a context key has that of its turn, and the turn's estimate or none; what
\* it is about to record is a measure, and the ratio it has read is of the same context.
Consistent(s) ==
    /\ s.ctxKey # NoContext => s.turn.context = s.ctxKey
    /\ s.estimate \in {0, s.turn.estimate}
    /\ s.at = "recording" =>
          s.ctxKey # NoContext /\ Total(s.turn) > 0 /\ RatioOf(s.prior, s.ctxKey)

\* An answer with a measure that is not recorded yet.
Measures(s, c) == s.at \in {"stopped", "recording"} /\ s.ctxKey = c /\ Total(s.turn) > 0

\* When the last answer of a context was large, and none was recorded next to it, either no
\* record is under way and what is kept is at the threshold, or the only one under way is.
LargeKept(c) ==
    latest[c] = "large" =>
        \/ /\ \A h \in Connections : ~Measures(handlers[h], c)
           /\ \A e \in Entries(observed) : e.key = c => e.floor >= Threshold
        \/ \E h \in Connections :
            /\ Measures(handlers[h], c) /\ Total(handlers[h].turn) >= Threshold
            /\ \A g \in Connections \ {h} : ~Measures(handlers[g], c)

\* What is kept for a context is of its own turns.
OwnKept == \A e \in Entries(observed) : e.of = e.key /\ RatioOf(e.ratio, e.key)

\* The inductive invariant.
FloorInv ==
    /\ FloorTypes /\ OwnKept
    /\ \A h \in Connections : Consistent(handlers[h])
    /\ \A c \in Contexts : LargeKept(c)

-----------------------------------------------------------------------------
LEMMA TotalType == ASSUME NEW turn \in MeasuredTurns PROVE Total(turn) \in Nat
BY DEF MeasuredTurns, Total

LEMMA IdleFacts ==
    /\ Idle \in HandlerStates /\ Consistent(Idle) /\ Idle.at = "idle"
    /\ EmptyTurn \in MeasuredTurns /\ NoRatio \in Ratios /\ RatioOf(NoRatio, NoContext)
    /\ EmptyTurn.estimate = 0 /\ EmptyTurn.context = NoContext
<1>1. One \in Nat \X (Nat \ {0})
    BY DEF One
<1>2. NoRatio \in Ratios /\ NoRatio.is = One
    BY <1>1 DEF NoRatio, Ratios, Keys
<1>3. EmptyTurn \in MeasuredTurns /\ EmptyTurn.estimate = 0 /\ EmptyTurn.context = NoContext
    BY DEF EmptyTurn, MeasuredTurns, Keys
<1>4. /\ Idle.at = "idle" /\ Idle.turn = EmptyTurn /\ Idle.ctxKey = NoContext
      /\ Idle.estimate = 0
      /\ Idle \in HandlerStates
    BY <1>2, <1>3 DEF Idle, HandlerStates, Keys
<1>5. Consistent(Idle)
    BY <1>3, <1>4 DEF Consistent
<1>6. QED BY <1>2, <1>3, <1>4, <1>5 DEF RatioOf

\* A step of one handler that begins no record, ends none and records nothing.
LEMMA HandlerStep ==
    ASSUME FloorInv, NEW h \in Connections, NEW s \in HandlerStates, Consistent(s),
           handlers' = [handlers EXCEPT ![h] = s],
           UNCHANGED <<globalRouting, override, observed, latest>>,
           \A c \in Contexts : Measures(s, c) <=> Measures(handlers[h], c),
           \A c \in Contexts : Measures(s, c) => s.turn = handlers[h].turn
    PROVE  FloorInv'
<1>1. /\ handlers' \in [Connections -> HandlerStates] /\ handlers'[h] = s
      /\ \A g \in Connections : g # h => handlers'[g] = handlers[g]
    BY DEF FloorInv, FloorTypes
<1>2. FloorTypes' /\ OwnKept'
    BY <1>1 DEF FloorInv, FloorTypes, OwnKept, RatioOf, Entries, One
<1>3. ASSUME NEW g \in Connections PROVE Consistent(handlers[g])'
    <2>1. Consistent(handlers'[g])
        BY <1>1 DEF FloorInv
    <2>2. QED BY <2>1 DEF Consistent, Total, RatioOf, One
<1>4. ASSUME NEW c \in Contexts PROVE LargeKept(c)'
    <2>1. LargeKept(c) /\ UNCHANGED <<observed, latest>>
        BY DEF FloorInv
    <2>2. \A g \in Connections : Measures(handlers'[g], c) <=> Measures(handlers[g], c)
        BY <1>1
    <2>3. \A g \in Connections : Measures(handlers[g], c) => handlers'[g].turn = handlers[g].turn
        BY <1>1
    <2>4. LargeKept(c)' <=>
             (latest'[c] = "large" =>
                \/ /\ \A g \in Connections : ~Measures(handlers'[g], c)
                   /\ \A e \in Entries(observed') : e.key = c => e.floor >= Threshold
                \/ \E g \in Connections :
                    /\ Measures(handlers'[g], c) /\ Total(handlers'[g].turn) >= Threshold
                    /\ \A i \in Connections \ {g} : ~Measures(handlers'[i], c))
        BY DEF LargeKept, Measures, Total, Entries
    <2>5. QED BY <2>1, <2>2, <2>3, <2>4 DEF LargeKept
<1>5. QED BY <1>2, <1>3, <1>4 DEF FloorInv

\* A request that is sent.
LEMMA SendStep ==
    ASSUME FloorInv, NEW h \in Connections, handlers[h].at = "idle",
           NEW turn \in MeasuredTurns, NEW ctxKey \in Keys, NEW estimate \in Nat,
           NEW long \in BOOLEAN,
           ctxKey # NoContext => turn.context = ctxKey, estimate \in {0, turn.estimate},
           Send(h, turn, ctxKey, estimate, long),
           UNCHANGED <<globalRouting, override, observed, latest>>
    PROVE  FloorInv'
<1>1. PICK s : s = [Idle EXCEPT !.at = "sent", !.turn = turn, !.ctxKey = ctxKey,
                                !.estimate = estimate, !.long = long]
    OBVIOUS
<1>2. /\ s \in HandlerStates /\ s.at = "sent" /\ s.turn = turn /\ s.ctxKey = ctxKey
      /\ s.estimate = estimate
    BY <1>1, IdleFacts DEF HandlerStates
<1>3. Consistent(s)
    BY <1>2 DEF Consistent
<1>4. handlers' = [handlers EXCEPT ![h] = s]
    BY <1>1 DEF Send
<1>5. \A c \in Contexts : ~Measures(s, c) /\ ~Measures(handlers[h], c)
    BY <1>2 DEF Measures
<1>6. QED BY <1>2, <1>3, <1>4, <1>5, HandlerStep

LEMMA ReceiveStep ==
    ASSUME FloorInv, NEW h \in Connections, NEW c \in Contexts, NEW estimate \in Estimates,
           ReceiveWhole(h, c, estimate) \/ ReceiveReplay(h, c, estimate)
    PROVE  FloorInv'
<1>1. PICK turn : turn = TurnOf(c, estimate)
    OBVIOUS
<1>2. turn \in MeasuredTurns /\ turn.context = c /\ turn.estimate = estimate /\ estimate \in Nat
    BY <1>1, IdleFacts, ContextFloorAssumption DEF TurnOf, MeasuredTurns, Keys
<1>3. ContextKey(c) \in {c, NoContext} /\ ContextKey(c) \in Keys
    BY DEF ContextKey, Keys
<1>4. PICK long : long = (RoutingOn /\ Long(c, estimate))
    OBVIOUS
<1>5. long \in BOOLEAN
    BY <1>4
<1>6. PICK routed \in {estimate, 0} : Send(h, turn, ContextKey(c), routed, long)
    BY <1>1, <1>4 DEF ReceiveWhole, ReceiveReplay, ReplayEstimated
<1>7. handlers[h].at = "idle" /\ UNCHANGED <<globalRouting, override, observed, latest>>
    BY DEF ReceiveWhole, ReceiveReplay
<1>8. routed \in Nat /\ routed \in {0, turn.estimate}
    BY <1>2, <1>6
<1>9. ContextKey(c) # NoContext => turn.context = ContextKey(c)
    BY <1>2, <1>3
<1>10. QED BY <1>2, <1>3, <1>5, <1>6, <1>7, <1>8, <1>9, SendStep

LEMMA ReceiveAsideStep ==
    ASSUME FloorInv, NEW h \in Connections, ReceiveAside(h)
    PROVE  FloorInv'
<1>1. /\ handlers[h].at = "idle" /\ UNCHANGED <<globalRouting, override, observed, latest>>
      /\ Send(h, EmptyTurn, NoContext, 0, FALSE)
    BY DEF ReceiveAside
<1>2. NoContext \in Keys /\ 0 \in Nat /\ FALSE \in BOOLEAN
    BY DEF Keys
<1>3. QED BY <1>1, <1>2, IdleFacts, SendStep

\* The switches touch nothing that is kept.
LEMMA SettingStep ==
    ASSUME FloorInv, UNCHANGED <<observed, handlers, latest>>,
           globalRouting' \in BOOLEAN, override' \in {"on", "off", "none"}
    PROVE  FloorInv'
<1>1. FloorTypes' /\ OwnKept'
    BY DEF FloorInv, FloorTypes, OwnKept, RatioOf, Entries, One
<1>2. (\A h \in Connections : Consistent(handlers[h]))'
    BY DEF FloorInv, Consistent, Total, RatioOf, One
<1>3. (\A c \in Contexts : LargeKept(c))'
    BY DEF FloorInv, LargeKept, Measures, Total, Entries
<1>4. QED BY <1>1, <1>2, <1>3 DEF FloorInv

LEMMA SkipRecordStep ==
    ASSUME FloorInv, NEW h \in Connections, SkipRecord(h)
    PROVE  FloorInv'
<1>1. /\ handlers' = [handlers EXCEPT ![h] = Idle] /\ ~Records(h)
      /\ UNCHANGED <<globalRouting, override, observed, latest>>
    BY DEF SkipRecord
<1>2. \A c \in Contexts : ~Measures(Idle, c)
    BY IdleFacts DEF Measures
<1>3. \A c \in Contexts : ~Measures(handlers[h], c)
    BY <1>1, ContextFloorAssumption DEF Measures, Records
<1>4. QED BY <1>1, <1>2, <1>3, IdleFacts, HandlerStep

\* What is kept for a context: a ratio of it, and its fraction can be divided by.
LEMMA RatioFacts ==
    ASSUME FloorInv, NEW c \in Contexts
    PROVE  Ratio(c) \in Ratios /\ RatioOf(Ratio(c), c)
<1>1. CASE c \in KeysOf(observed)
    <2>1. PICK e : e = EntryOf(observed, c)
        OBVIOUS
    <2>2. e \in Entries(observed) /\ e.key = c
        BY <1>1, <2>1, EntryOfProperties
    <2>3. e \in Observations
        BY <2>2, EntriesInSet DEF FloorInv, FloorTypes, IsStore
    <2>4. Ratio(c) = e.ratio
        BY <1>1, <2>1 DEF Ratio
    <2>5. QED BY <2>2, <2>3, <2>4 DEF FloorInv, OwnKept, Observations
<1>2. CASE c \notin KeysOf(observed)
    BY <1>2, IdleFacts DEF Ratio, NoRatio, RatioOf
<1>3. QED BY <1>1, <1>2

LEMMA ReadPriorStep ==
    ASSUME FloorInv, NEW h \in Connections, ReadPrior(h)
    PROVE  FloorInv'
<1>1. /\ handlers[h].at = "stopped" /\ Records(h)
      /\ UNCHANGED <<globalRouting, override, observed, latest>>
    BY DEF ReadPrior
<1>2. handlers[h] \in HandlerStates /\ Consistent(handlers[h])
    BY DEF FloorInv, FloorTypes
<1>3. PICK ratio : ratio = Ratio(handlers[h].ctxKey)
    OBVIOUS
<1>4. handlers[h].ctxKey \in Contexts /\ Total(handlers[h].turn) > 0
    BY <1>1, <1>2 DEF Records, HandlerStates, Keys
<1>5. ratio \in Ratios /\ RatioOf(ratio, handlers[h].ctxKey)
    BY <1>3, <1>4, RatioFacts
<1>6. PICK s : s = [handlers[h] EXCEPT !.at = "recording", !.prior = ratio]
    OBVIOUS
<1>7. /\ s \in HandlerStates /\ s.at = "recording" /\ s.turn = handlers[h].turn
      /\ s.ctxKey = handlers[h].ctxKey /\ s.estimate = handlers[h].estimate
      /\ s.prior = ratio
    BY <1>2, <1>5, <1>6 DEF HandlerStates
<1>8. Consistent(s)
    BY <1>1, <1>2, <1>4, <1>5, <1>7 DEF Consistent, Records
<1>9. handlers' = [handlers EXCEPT ![h] = s]
    BY <1>3, <1>6 DEF ReadPrior
<1>10. \A c \in Contexts : Measures(s, c) <=> Measures(handlers[h], c)
    BY <1>1, <1>7 DEF Measures
<1>11. QED BY <1>1, <1>7, <1>8, <1>9, <1>10, HandlerStep

\* LargeKept with the variables of the next state.
LEMMA LargeKeptNext ==
    ASSUME NEW c
    PROVE  LargeKept(c)' <=>
             (latest'[c] = "large" =>
                \/ /\ \A g \in Connections : ~Measures(handlers'[g], c)
                   /\ \A e \in Entries(observed') : e.key = c => e.floor >= Threshold
                \/ \E g \in Connections :
                    /\ Measures(handlers'[g], c) /\ Total(handlers'[g].turn) >= Threshold
                    /\ \A i \in Connections \ {g} : ~Measures(handlers'[i], c))
BY DEF LargeKept, Measures, Total, Entries

LEMMA AnswersType ==
    ASSUME NEW h \in Connections, handlers[h] \in HandlerStates, NEW turn \in Answers(h)
    PROVE  /\ turn \in MeasuredTurns /\ turn.context = handlers[h].turn.context
           /\ turn.estimate = handlers[h].turn.estimate
<1>1. PICK t : t = handlers[h].turn
    OBVIOUS
<1>2. t \in MeasuredTurns
    BY <1>1 DEF HandlerStates
<1>3. ASSUME NEW i \in Inputs, NEW o \in Outputs
      PROVE  /\ Measured(t, i, o) \in MeasuredTurns /\ Measured(t, i, o).context = t.context
             /\ Measured(t, i, o).estimate = t.estimate
    <2>1. i \in Nat /\ o \in Nat
        BY ContextFloorAssumption
    <2>2. QED BY <1>2, <2>1 DEF Measured, MeasuredTurns
<1>4. Answers(h) = {Measured(t, i, o) : i \in Inputs, o \in Outputs} \cup {t}
    BY <1>1 DEF Answers
<1>5. CASE turn = t
    BY <1>1, <1>2, <1>5
<1>6. CASE turn \in {Measured(t, i, o) : i \in Inputs, o \in Outputs}
    <2>1. \E i \in Inputs, o \in Outputs : turn = Measured(t, i, o)
        BY <1>6
    <2>2. QED BY <1>1, <1>3, <2>1
<1>7. QED BY <1>4, <1>5, <1>6

\* An answer that measures: large only when no other record of the context is under way.
LEMMA AnswerStep ==
    ASSUME FloorInv, NEW h \in Connections, Answer(h)
    PROVE  FloorInv'
<1>1. PICK turn \in Answers(h) :
        /\ handlers' = [handlers EXCEPT ![h].at = "stopped", ![h].turn = turn, ![h].long = FALSE]
        /\ latest' =
             IF Total(turn) > 0 /\ turn.context # NoContext /\ handlers[h].ctxKey # NoContext
             THEN [latest EXCEPT ![turn.context] = Size(h, turn)] ELSE latest
    BY DEF Answer
<1>2. handlers[h].at = "sent" /\ UNCHANGED <<globalRouting, override, observed>>
    BY DEF Answer
<1>3. handlers[h] \in HandlerStates /\ Consistent(handlers[h])
    BY DEF FloorInv, FloorTypes
<1>4. /\ turn \in MeasuredTurns /\ turn.context = handlers[h].turn.context
      /\ turn.estimate = handlers[h].turn.estimate /\ Total(turn) \in Nat
    BY <1>3, AnswersType, TotalType
<1>5. PICK s : s = [handlers[h] EXCEPT !.at = "stopped", !.turn = turn, !.long = FALSE]
    OBVIOUS
<1>6. /\ s \in HandlerStates /\ s.at = "stopped" /\ s.turn = turn
      /\ s.ctxKey = handlers[h].ctxKey /\ s.estimate = handlers[h].estimate
    BY <1>3, <1>4, <1>5 DEF HandlerStates
<1>7. Consistent(s)
    BY <1>3, <1>4, <1>6 DEF Consistent
<1>8. handlers' = [handlers EXCEPT ![h] = s]
    BY <1>1, <1>5
<1>9. \A c \in Contexts : ~Measures(handlers[h], c)
    BY <1>2 DEF Measures
<1>10. CASE Total(turn) > 0 /\ turn.context # NoContext /\ handlers[h].ctxKey # NoContext
    <2>1. PICK k \in Contexts : k = turn.context /\ k = handlers[h].ctxKey
        BY <1>3, <1>4, <1>10 DEF Consistent, HandlerStates, Keys
    <2>2. latest' = [latest EXCEPT ![k] = Size(h, turn)]
        BY <1>1, <1>10, <2>1
    <2>3. Size(h, turn) \in {"small", "large", "muddled"}
        BY DEF Size
    <2>4. /\ handlers' \in [Connections -> HandlerStates] /\ handlers'[h] = s
          /\ \A g \in Connections : g # h => handlers'[g] = handlers[g]
        BY <1>6, <1>8 DEF FloorInv, FloorTypes
    <2>5. /\ latest' \in [Contexts -> {"small", "large", "muddled"}]
          /\ latest'[k] = Size(h, turn)
          /\ \A c \in Contexts : c # k => latest'[c] = latest[c]
        BY <2>2, <2>3 DEF FloorInv, FloorTypes
    <2>6. FloorTypes' /\ OwnKept'
        BY <1>2, <2>4, <2>5 DEF FloorInv, FloorTypes, OwnKept, RatioOf, Entries, One
    <2>7. ASSUME NEW g \in Connections PROVE Consistent(handlers[g])'
        <3>1. Consistent(handlers'[g])
            BY <1>7, <2>4 DEF FloorInv
        <3>2. QED BY <3>1 DEF Consistent, Total, RatioOf, One
    <2>8. ASSUME NEW c \in Contexts, c # k PROVE LargeKept(c)'
        <3>1. ~Measures(s, c)
            BY <1>6, <2>1, <2>8 DEF Measures
        <3>2. \A g \in Connections : Measures(handlers'[g], c) <=> Measures(handlers[g], c)
            BY <1>9, <2>4, <3>1
        <3>3. \A g \in Connections : Measures(handlers[g], c) => handlers'[g] = handlers[g]
            BY <1>9, <2>4
        <3>4. LargeKept(c) /\ latest'[c] = latest[c] /\ observed' = observed
            BY <1>2, <2>5, <2>8 DEF FloorInv
        <3>5. QED BY <3>2, <3>3, <3>4, LargeKeptNext DEF LargeKept
    <2>9. ASSUME Size(h, turn) = "large" PROVE LargeKept(k)'
        <3>1. /\ \A g \in Connections \ {h} : ~Recording(g, k)
              /\ Total(turn) >= Threshold
            BY <2>1, <2>9 DEF Size
        <3>2. \A g \in Connections \ {h} : ~Measures(handlers'[g], k)
            BY <2>4, <3>1 DEF Recording, Measures
        <3>3. Measures(handlers'[h], k) /\ Total(handlers'[h].turn) >= Threshold
            BY <1>6, <1>10, <2>1, <2>4, <3>1 DEF Measures
        <3>4. QED BY <3>2, <3>3, LargeKeptNext
    <2>10. LargeKept(k)'
        <3>1. CASE Size(h, turn) = "large"
            BY <2>9, <3>1
        <3>2. CASE Size(h, turn) # "large"
            BY <2>5, <3>2, LargeKeptNext
        <3>3. QED BY <3>1, <3>2
    <2>11. QED BY <2>6, <2>7, <2>8, <2>10 DEF FloorInv
<1>11. CASE ~(Total(turn) > 0 /\ turn.context # NoContext /\ handlers[h].ctxKey # NoContext)
    <2>1. UNCHANGED latest
        BY <1>1, <1>11
    <2>2. ASSUME NEW c \in Contexts PROVE ~Measures(s, c)
        <3>1. SUFFICES ASSUME handlers[h].ctxKey = c, Total(turn) > 0 PROVE FALSE
            BY <1>6 DEF Measures
        <3>2. c # NoContext
            BY ContextFloorAssumption
        <3>3. turn.context = c
            BY <1>3, <1>4, <3>1, <3>2 DEF Consistent
        <3>4. QED BY <1>11, <3>1, <3>2, <3>3
    <2>3. QED BY <1>2, <1>6, <1>7, <1>8, <1>9, <2>1, <2>2, HandlerStep
<1>12. QED BY <1>10, <1>11

\* The ratio that is recorded: the one read before, or a fraction of the same turn.
LEMMA CalibratedFacts ==
    ASSUME NEW s \in HandlerStates, Consistent(s), s.at = "recording"
    PROVE  /\ CalibratedRatio(s.turn, s.estimate, s.prior) \in Ratios
           /\ RatioOf(CalibratedRatio(s.turn, s.estimate, s.prior), s.ctxKey)
<1>1. PICK turn, n, prior : turn = s.turn /\ n = s.estimate /\ prior = s.prior
    OBVIOUS
<1>2. /\ turn \in MeasuredTurns /\ n \in Nat /\ prior \in Ratios
      /\ n \in {0, turn.estimate} /\ turn.context = s.ctxKey /\ RatioOf(prior, s.ctxKey)
    BY <1>1 DEF Consistent, HandlerStates
<1>3. CASE n < RatioMinBaseline \/ turn.input = 0
    BY <1>1, <1>2, <1>3 DEF CalibratedRatio
<1>4. CASE ~(n < RatioMinBaseline \/ turn.input = 0)
    <2>1. n \in Nat \ {0} /\ n = turn.estimate
        BY <1>2, <1>4, ContextFloorAssumption
    <2>2. turn.input \in Nat /\ turn.context \in Keys
        BY <1>2 DEF MeasuredTurns
    <2>3. Clamped(turn.input, n) \in Nat \X (Nat \ {0})
        BY <2>1, <2>2, ContextFloorAssumption DEF Clamped, One
    <2>4. CalibratedRatio(turn, n, prior) = [is |-> Clamped(turn.input, n), of |-> turn.context]
        BY <1>4, <2>1 DEF CalibratedRatio
    <2>5. QED BY <1>1, <1>2, <2>2, <2>3, <2>4 DEF Ratios, RatioOf
<1>5. QED BY <1>3, <1>4

LEMMA RecordContextStep ==
    ASSUME FloorInv, NEW h \in Connections, RecordContext(h)
    PROVE  FloorInv'
<1>1. PICK s : s = handlers[h]
    OBVIOUS
<1>2. s \in HandlerStates /\ Consistent(s) /\ s.at = "recording"
    BY <1>1 DEF FloorInv, FloorTypes, RecordContext
<1>3. PICK k \in Contexts : k = s.ctxKey /\ k = s.turn.context
    BY <1>2 DEF Consistent, HandlerStates, Keys
<1>4. PICK ratio : ratio = CalibratedRatio(s.turn, s.estimate, s.prior)
    OBVIOUS
<1>5. ratio \in Ratios /\ RatioOf(ratio, k)
    BY <1>2, <1>3, <1>4, CalibratedFacts
<1>6. Total(s.turn) \in Nat /\ Total(s.turn) > 0
    BY <1>2, TotalType DEF Consistent, HandlerStates
<1>7. PICK e : e = [key |-> k, floor |-> Total(s.turn), ratio |-> ratio, of |-> k]
    OBVIOUS
<1>8. e \in Observations /\ e.key = k /\ e.floor = Total(s.turn) /\ e.ratio = ratio /\ e.of = k
    BY <1>5, <1>6, <1>7 DEF Observations, Keys
<1>9. observed' = Put(observed, e)
    BY <1>1, <1>3, <1>4, <1>7 DEF RecordContext
<1>10. /\ IsStore(observed', Observations)
       /\ Entries(observed') \subseteq {f \in Entries(observed) : f.key # k} \cup {e}
    BY <1>8, <1>9, PutStore DEF FloorInv, FloorTypes
<1>11. /\ handlers' = [handlers EXCEPT ![h] = Idle]
       /\ UNCHANGED <<globalRouting, override, latest>>
    BY DEF RecordContext
<1>12. /\ handlers' \in [Connections -> HandlerStates] /\ handlers'[h] = Idle
       /\ \A g \in Connections : g # h => handlers'[g] = handlers[g]
    BY <1>11, IdleFacts DEF FloorInv, FloorTypes
<1>13. FloorTypes'
    BY <1>10, <1>11, <1>12 DEF FloorInv, FloorTypes
<1>14. OwnKept'
    <2>1. \A f \in Entries(observed') : f.of = f.key /\ RatioOf(f.ratio, f.key)
        BY <1>5, <1>8, <1>10 DEF FloorInv, OwnKept
    <2>2. QED BY <2>1 DEF OwnKept, Entries, RatioOf, One
<1>15. ASSUME NEW g \in Connections PROVE Consistent(handlers[g])'
    <2>1. Consistent(handlers'[g])
        BY <1>12, IdleFacts DEF FloorInv
    <2>2. QED BY <2>1 DEF Consistent, Total, RatioOf, One
<1>16. \A c \in Contexts : ~Measures(Idle, c)
    BY IdleFacts DEF Measures
<1>17. ASSUME NEW c \in Contexts, c # k PROVE LargeKept(c)'
    <2>1. ~Measures(s, c)
        BY <1>3, <1>17 DEF Measures
    <2>2. \A g \in Connections : Measures(handlers'[g], c) <=> Measures(handlers[g], c)
        BY <1>1, <1>12, <1>16, <2>1
    <2>3. \A g \in Connections : Measures(handlers[g], c) => handlers'[g] = handlers[g]
        BY <1>1, <1>12, <2>1
    <2>4. \A f \in Entries(observed') : f.key = c => f \in Entries(observed)
        BY <1>8, <1>10, <1>17
    <2>5. LargeKept(c) /\ latest'[c] = latest[c]
        BY <1>11 DEF FloorInv
    <2>6. QED BY <2>2, <2>3, <2>4, <2>5, LargeKeptNext DEF LargeKept
<1>18. LargeKept(k)'
    <2>1. SUFFICES ASSUME latest[k] = "large"
                   PROVE  /\ \A g \in Connections : ~Measures(handlers'[g], k)
                          /\ \A f \in Entries(observed') : f.key = k => f.floor >= Threshold
        BY <1>11, LargeKeptNext
    <2>2. Measures(handlers[h], k)
        BY <1>1, <1>2, <1>3, <1>6 DEF Measures
    <2>3. /\ Total(s.turn) >= Threshold
          /\ \A g \in Connections \ {h} : ~Measures(handlers[g], k)
        BY <1>1, <2>1, <2>2 DEF FloorInv, LargeKept
    <2>4. QED BY <1>8, <1>10, <1>12, <1>16, <2>3
<1>19. QED BY <1>13, <1>14, <1>15, <1>17, <1>18 DEF FloorInv

LEMMA InitFloorInv == FloorInit => FloorInv
<1> SUFFICES ASSUME FloorInit PROVE FloorInv
    OBVIOUS
<1>1. handlers \in [Connections -> HandlerStates] /\ \A h \in Connections : handlers[h] = Idle
    BY IdleFacts DEF FloorInit
<1>2. IsStore(observed, Observations) /\ Entries(observed) = {}
    BY EmptySeq, MaxEntriesAssumption DEF FloorInit, IsStore, Entries
<1>3. FloorTypes
    BY <1>1, <1>2 DEF FloorInit, FloorTypes
<1>4. OwnKept
    BY <1>2 DEF OwnKept
<1>5. \A c \in Contexts : LargeKept(c)
    BY DEF FloorInit, LargeKept
<1>6. QED BY <1>1, <1>3, <1>4, <1>5, IdleFacts DEF FloorInv

LEMMA NextFloorInv ==
    FloorInv /\ [FloorNext]_floorVars => FloorInv'
<1> SUFFICES ASSUME FloorInv, [FloorNext]_floorVars PROVE FloorInv'
    OBVIOUS
<1> globalRouting \in BOOLEAN /\ override \in {"on", "off", "none"}
    BY DEF FloorInv, FloorTypes
<1>1. ASSUME NEW enabled \in BOOLEAN, SetModelRouting(enabled) PROVE FloorInv'
    BY <1>1, SettingStep DEF SetModelRouting
<1>2. ASSUME NEW setting \in {"on", "off", "none"}, SetSessionModelRouting(setting)
      PROVE  FloorInv'
    BY <1>2, SettingStep DEF SetSessionModelRouting
<1>3. CASE UNCHANGED floorVars
    BY <1>3, SettingStep DEF floorVars
<1>4. QED BY <1>1, <1>2, <1>3, ReceiveStep, ReceiveAsideStep, AnswerStep, SkipRecordStep,
             ReadPriorStep, RecordContextStep DEF FloorNext

\* What is kept stays consistent with the turns it was measured by.
THEOREM FloorInvariantTheorem == FloorSpec => []FloorInv
<1>1. FloorInit => FloorInv
    BY InitFloorInv
<1>2. FloorInv /\ [FloorNext]_floorVars => FloorInv'
    BY NextFloorInv
<1>3. QED BY <1>1, <1>2, PTL DEF FloorSpec

\* What is kept for a context was measured by turns of that context.
THEOREM FloorIsOwnTheorem == FloorSpec => []FloorIsOwn
<1>1. FloorInv => FloorIsOwn
    BY DEF FloorInv, OwnKept, RatioOf, FloorIsOwn
<1>2. QED BY <1>1, FloorInvariantTheorem, PTL

\* A floor at the threshold is enough, whatever the corrected estimate.
LEMMA FloorIsEnough ==
    ASSUME FloorInv, NEW c \in Contexts, NEW estimate \in Nat, Floor(c) \in Nat,
           Floor(c) >= Threshold
    PROVE  Long(c, estimate)
<1>1. PICK n, d : n = Ratio(c).is[1] /\ d = Ratio(c).is[2]
    OBVIOUS
<1>2. n \in Nat /\ d \in Nat \ {0}
    BY <1>1, RatioFacts DEF Ratios
<1>3. PICK m : m = estimate * n
    OBVIOUS
<1>4. m \in Nat
    BY <1>2, <1>3
<1>5. m \div d \in Int
    BY <1>2, <1>4
<1>6. Nearest(m, d) \in Int
    <2>1. Nearest(m, d) \in {m \div d, m \div d + 1}
        BY DEF Nearest
    <2>2. PICK q : q = m \div d
        OBVIOUS
    <2>3. QED BY <1>5, <2>1, <2>2
<1>7. PICK x : x = Nearest(m, d)
    OBVIOUS
<1>8. Larger(x, Floor(c)) >= Threshold
    BY <1>6, <1>7, ContextFloorAssumption DEF Larger
<1>9. QED BY <1>1, <1>3, <1>7, <1>8 DEF Long

LEMMA LongStep ==
    ASSUME FloorInv, NEW h \in Connections, NEW c \in Contexts, handlers[h].at = "idle",
           c \in KeysOf(observed), \A g \in Connections : ~Recording(g, c), latest[c] = "large",
           NEW estimate \in Estimates
    PROVE  Long(c, estimate)
<1>1. PICK e : e = EntryOf(observed, c)
    OBVIOUS
<1>2. e \in Entries(observed) /\ e.key = c
    BY <1>1, EntryOfProperties
<1>3. Floor(c) = e.floor
    BY <1>1 DEF Floor
<1>4. e \in Observations
    BY <1>2, EntriesInSet DEF FloorInv, FloorTypes, IsStore
<1>5. \A g \in Connections : ~Measures(handlers[g], c)
    BY DEF Measures, Recording
<1>6. e.floor >= Threshold /\ e.floor \in Nat
    BY <1>2, <1>4, <1>5 DEF FloorInv, LargeKept, Observations
<1>7. estimate \in Nat
    BY ContextFloorAssumption
<1>8. QED BY <1>3, <1>6, <1>7, FloorIsEnough

\* Only a request that is received leaves idle, and it asks size_floor.
LEMMA LeavesIdle ==
    ASSUME FloorInv, [FloorNext]_floorVars, NEW h \in Connections, NEW c \in Contexts,
           handlers[h].at = "idle", handlers'[h].at = "sent", handlers'[h].ctxKey = c,
           handlers'[h].turn.context = c
    PROVE  \E estimate \in Estimates : Long(c, estimate) => handlers'[h].long
<1>1. handlers \in [Connections -> HandlerStates] /\ handlers'[h] # handlers[h]
    BY DEF FloorInv, FloorTypes
<1>2. c # NoContext
    BY ContextFloorAssumption
<1>3. ASSUME NEW g \in Connections, NEW turn, NEW ctxKey, NEW estimate, NEW long,
             Send(g, turn, ctxKey, estimate, long)
      PROVE  g = h /\ turn.context = c /\ ctxKey = c /\ handlers'[h].long = long
    <2>1. PICK s : s = [Idle EXCEPT !.at = "sent", !.turn = turn, !.ctxKey = ctxKey,
                                    !.estimate = estimate, !.long = long]
        OBVIOUS
    <2>2. s.turn = turn /\ s.ctxKey = ctxKey /\ s.long = long
        BY <2>1 DEF Idle
    <2>3. handlers' = [handlers EXCEPT ![g] = s]
        BY <1>3, <2>1 DEF Send
    <2>4. g = h /\ handlers'[h] = s
        BY <1>1, <2>3
    <2>5. QED BY <2>2, <2>4
<1>4. CASE \E g \in Connections, k \in Contexts, estimate \in Estimates :
            ReceiveWhole(g, k, estimate) \/ ReceiveReplay(g, k, estimate)
    <2>1. PICK g \in Connections, k \in Contexts, estimate \in Estimates :
            ReceiveWhole(g, k, estimate) \/ ReceiveReplay(g, k, estimate)
        BY <1>4
    <2>2. PICK turn, long, routed :
            /\ turn = TurnOf(k, estimate) /\ long = (RoutingOn /\ Long(k, estimate))
            /\ Send(g, turn, ContextKey(k), routed, long)
        BY <2>1 DEF ReceiveWhole, ReceiveReplay
    <2>3. /\ g = h /\ turn.context = c /\ ContextKey(k) = c /\ handlers'[h].long = long
        BY <1>3, <2>2
    <2>4. turn.context = k
        BY <2>2 DEF TurnOf, EmptyTurn
    <2>5. RoutingOn /\ k = c
        BY <1>2, <2>3, <2>4 DEF ContextKey
    <2>6. Long(c, estimate) => long
        BY <2>2, <2>5
    <2>7. QED BY <2>3, <2>6
<1>5. CASE \E g \in Connections : ReceiveAside(g)
    BY <1>2, <1>3, <1>5 DEF ReceiveAside
<1>6. CASE \E g \in Connections : Answer(g)
    BY <1>1, <1>6 DEF Answer
<1>7. CASE \E g \in Connections : SkipRecord(g) \/ RecordContext(g)
    BY <1>1, <1>7, IdleFacts DEF SkipRecord, RecordContext
<1>8. CASE \E g \in Connections : ReadPrior(g)
    BY <1>1, <1>8 DEF ReadPrior
<1>9. CASE UNCHANGED handlers
    BY <1>1, <1>9
<1>10. QED BY <1>4, <1>5, <1>6, <1>7, <1>8, <1>9
           DEF FloorNext, floorVars, SetModelRouting, SetSessionModelRouting

\* A context whose last recorded answer reached the threshold goes to the large window.
THEOREM LongStaysLongTheorem == FloorSpec => LongStaysLong
<1>1. FloorInv /\ [FloorNext]_floorVars =>
        [\A h \in Connections : \A c \in Contexts :
            (/\ handlers[h].at = "idle" /\ handlers'[h].at = "sent" /\ handlers'[h].ctxKey = c
             /\ handlers'[h].turn.context = c /\ c \in KeysOf(observed)
             /\ \A g \in Connections : ~Recording(g, c)
             /\ latest[c] = "large")
            => handlers'[h].long]_floorVars
    BY LeavesIdle, LongStep
<1>2. QED BY <1>1, FloorInvariantTheorem, PTL DEF FloorSpec, LongStaysLong
=============================================================================
