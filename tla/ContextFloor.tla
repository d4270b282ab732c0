----------------------------- MODULE ContextFloor -----------------------------
(***************************************************************************)
(* The context floor: each answer's measured size and the ratio of that    *)
(* to the request's estimate are kept for its context (SessionState), and  *)
(* size_floor sends a later turn of the context to the long-context model  *)
(* when either reaches the threshold.  Which turns leave a measure, and    *)
(* with which estimate, is decided by _prepare and _route, and by the      *)
(* session's routing switch (proxy-set-model-routing).                     *)
(*                                                                         *)
(* All contexts are of one session, and every turn names a model that is   *)
(* routed.  Tokens are counted in thousands.                               *)
(***************************************************************************)
EXTENDS BoundedStore, Integers

CONSTANTS
    Connections,    \* connections, each with its thread
    Contexts,       \* context keys: a conversation of the session each
    NoContext,      \* no context key
    Estimates,      \* what estimate_input_tokens may say of a payload
    Inputs,         \* the input an answer may measure, cache reads and writes included
    Outputs,        \* the output it may measure
    Threshold,      \* auto_model_routing_long_context_threshold
    RatioMinBaseline, RatioMax  \* _RATIO_MIN_BASELINE and _RATIO_MAX

ASSUME ContextFloorAssumption ==
    /\ NoContext \notin Contexts
    /\ Estimates \subseteq Nat \ {0} /\ Inputs \subseteq Nat \ {0} /\ Outputs \subseteq Nat
    /\ Threshold \in Nat \ {0}
    /\ RatioMinBaseline \in Nat \ {0} /\ RatioMax \in Nat \ {0}

VARIABLES
    globalRouting,  \* _global_routing
    override,       \* _routing_overrides of the session
    observed,       \* _context_obs: floor and ratio by context key
    handlers,       \* each handler and its request: see Idle
    latest          \* history: whether the last answer of each context was "small" or "large"
                    \* for the threshold, or "muddled": two were recorded at once

floorVars == <<globalRouting, override, observed, handlers, latest>>

\* A ratio is a fraction.  With it goes (history) the context whose turn it was computed from,
\* NoContext when it was set against an estimate that is not that turn's.
One == <<1, 1>>
Clamped(n, d) == IF n < d THEN One ELSE IF n > RatioMax * d THEN <<RatioMax, 1>> ELSE <<n, d>>

\* round(): a tie goes to the even neighbour.
Nearest(n, d) ==
    LET q == n \div d
        r == n % d
    IN  IF 2 * r < d \/ (2 * r = d /\ q % 2 = 0) THEN q ELSE q + 1

Larger(m, n) == IF m > n THEN m ELSE n

\* turn: what the request is (the context it measures, NoContext for one that must leave no
\* measure) and what its answer measured.  ctxKey and estimate are _ctx_key and _route_est.
EmptyTurn == [context |-> NoContext, estimate |-> 0, input |-> 0, output |-> 0]
NoRatio == [is |-> One, of |-> NoContext]
Idle == [at |-> "idle", turn |-> EmptyTurn, ctxKey |-> NoContext, estimate |-> 0,
         long |-> FALSE, prior |-> NoRatio]

FloorInit ==
    /\ globalRouting \in BOOLEAN /\ override = "none"
    /\ observed = <<>>
    /\ handlers = [h \in Connections |-> Idle]
    /\ latest = [c \in Contexts |-> "small"]

RoutingOn == IF override = "none" THEN globalRouting ELSE override = "on"

\* context(): no observation is a floor of 0 and a ratio of 1.
Floor(c) == IF c \in KeysOf(observed) THEN EntryOf(observed, c).floor ELSE 0
Ratio(c) == IF c \in KeysOf(observed) THEN EntryOf(observed, c).ratio ELSE NoRatio

-----------------------------------------------------------------------------
(***************************************************************************)
(* A request: _prepare and _route.                                         *)
(***************************************************************************)

\* size_floor: the corrected estimate or the last measure, whichever is larger.
Long(c, estimate) ==
    Larger(Nearest(estimate * Ratio(c).is[1], Ratio(c).is[2]), Floor(c)) >= Threshold

\* Mutant: a replay keeps the estimate of the continuation's delta, from its handoff.
ReplayEstimates(c, estimate) == Estimates

\* A replay that takes a handoff has its own estimate put back; one that is pinned to the
\* last Thread model has none.
ReplayEstimated(c, estimate) == IF Long(c, estimate) THEN {estimate} ELSE {estimate, 0}

Send(h, turn, ctxKey, estimate, long) ==
    handlers' = [handlers EXCEPT ![h] = [Idle EXCEPT
        !.at = "sent", !.turn = turn, !.ctxKey = ctxKey, !.estimate = estimate, !.long = long]]

TurnOf(c, estimate) == [EmptyTurn EXCEPT !.context = c, !.estimate = estimate]

\* With routing off, _route leaves no context key.
ContextKey(c) == IF RoutingOn THEN c ELSE NoContext

\* A whole conversation.
ReceiveWhole(h, c, estimate) ==
    /\ handlers[h].at = "idle"
    /\ Send(h, TurnOf(c, estimate), ContextKey(c), estimate, RoutingOn /\ Long(c, estimate))
    /\ UNCHANGED <<globalRouting, override, observed, latest>>

\* The replay of a Thread is a whole conversation too.
ReceiveReplay(h, c, estimate) ==
    /\ handlers[h].at = "idle"
    /\ \E routed \in ReplayEstimated(c, estimate) :
        Send(h, TurnOf(c, estimate), ContextKey(c), routed, RoutingOn /\ Long(c, estimate))
    /\ UNCHANGED <<globalRouting, override, observed, latest>>

\* The continuation of a Thread carries a delta: _route returns before it sets _ctx_key.  A
\* security-monitor request does not reach _route.
ReceiveAside(h) ==
    /\ handlers[h].at = "idle"
    /\ Send(h, EmptyTurn, NoContext, 0, FALSE)
    /\ UNCHANGED <<globalRouting, override, observed, latest>>

\* proxy-set-model-routing, answered locally: for all sessions, or on|off|auto for this one.
SetModelRouting(enabled) ==
    /\ globalRouting' = enabled
    /\ UNCHANGED <<override, observed, handlers, latest>>

SetSessionModelRouting(setting) ==
    /\ override' = setting
    /\ UNCHANGED <<globalRouting, observed, handlers, latest>>

-----------------------------------------------------------------------------
(***************************************************************************)
(* Its answer: the usage is learned, the client sees message_stop, and     *)
(* only then does the wrapper record the measure.                          *)
(***************************************************************************)

\* The usage of an answer.  One that was cut off before it came, or failed, has none.
Measured(turn, input, output) == [turn EXCEPT !.input = input, !.output = output]

Answers(h) ==
    {Measured(handlers[h].turn, i, o) : i \in Inputs, o \in Outputs} \cup {handlers[h].turn}

Total(turn) == turn.input + turn.output

Recording(h, c) == handlers[h].at \in {"stopped", "recording"} /\ handlers[h].ctxKey = c

Size(h, turn) ==
    IF \E g \in Connections \ {h} : Recording(g, handlers[h].ctxKey) THEN "muddled"
    ELSE IF Total(turn) >= Threshold THEN "large" ELSE "small"

Answer(h) ==
    /\ handlers[h].at = "sent"
    /\ \E turn \in Answers(h) :
        /\ handlers' = [handlers EXCEPT ![h].at = "stopped", ![h].turn = turn, ![h].long = FALSE]
        /\ latest' =
             IF Total(turn) > 0 /\ turn.context # NoContext /\ handlers[h].ctxKey # NoContext
             THEN [latest EXCEPT ![turn.context] = Size(h, turn)] ELSE latest
    /\ UNCHANGED <<globalRouting, override, observed>>

\* Mutant: an answer without usage is recorded too.
RecordsEmpty(h) == handlers[h].ctxKey # NoContext

\* _record_session_context returns early without a context key or a measure.
Records(h) == handlers[h].ctxKey # NoContext /\ Total(handlers[h].turn) > 0

SkipRecord(h) ==
    /\ handlers[h].at = "stopped" /\ ~Records(h)
    /\ handlers' = [handlers EXCEPT ![h] = Idle]
    /\ UNCHANGED <<globalRouting, override, observed, latest>>

ReadPrior(h) ==
    /\ handlers[h].at = "stopped" /\ Records(h)
    /\ handlers' = [handlers EXCEPT ![h].at = "recording", ![h].prior = Ratio(handlers[h].ctxKey)]
    /\ UNCHANGED <<globalRouting, override, observed, latest>>

\* calibrated_ratio: a small request keeps the ratio there was.
CalibratedRatio(turn, estimate, prior) ==
    IF estimate < RatioMinBaseline \/ turn.input = 0 THEN prior
    ELSE [is |-> Clamped(turn.input, estimate),
          of |-> IF estimate = turn.estimate THEN turn.context ELSE NoContext]

RecordContext(h) ==
    /\ handlers[h].at = "recording"
    /\ LET turn == handlers[h].turn
       IN  observed' = Put(observed, [key |-> handlers[h].ctxKey, floor |-> Total(turn),
               ratio |-> CalibratedRatio(turn, handlers[h].estimate, handlers[h].prior),
               of |-> turn.context])
    /\ handlers' = [handlers EXCEPT ![h] = Idle]
    /\ UNCHANGED <<globalRouting, override, latest>>

-----------------------------------------------------------------------------

FloorNext ==
    \/ \E enabled \in BOOLEAN : SetModelRouting(enabled)
    \/ \E setting \in {"on", "off", "none"} : SetSessionModelRouting(setting)
    \/ \E h \in Connections, c \in Contexts, estimate \in Estimates :
        ReceiveWhole(h, c, estimate) \/ ReceiveReplay(h, c, estimate)
    \/ \E h \in Connections :
        ReceiveAside(h) \/ Answer(h) \/ SkipRecord(h) \/ ReadPrior(h) \/ RecordContext(h)

FloorSpec == FloorInit /\ [][FloorNext]_floorVars

-----------------------------------------------------------------------------

\* What is kept for a context was measured by turns of that context, and by turns that
\* _route keys: not by a monitor request, nor by a continuation, whose estimate is a
\* delta's.  A ratio other than 1 is that of a measured input to the estimate of the same
\* payload, in the same context.
FloorIsOwn ==
    \A e \in Entries(observed) : e.of = e.key /\ (e.ratio.is # One => e.ratio.of = e.key)

\* Once answers of a context are recorded, and were so one after the other, the next turn of
\* the context has the last measure: one that reached the threshold is not sent to a model
\* without the window.  (A turn sent between message_stop and the record may be.)
LongStaysLong ==
    [][\A h \in Connections : \A c \in Contexts :
        (/\ handlers[h].at = "idle" /\ handlers'[h].at = "sent" /\ handlers'[h].ctxKey = c
         /\ handlers'[h].turn.context = c /\ c \in KeysOf(observed)
         /\ \A g \in Connections : ~Recording(g, c)
         /\ latest[c] = "large")
        => handlers'[h].long]_floorVars
=============================================================================
