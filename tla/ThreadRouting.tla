---------------------------- MODULE ThreadRouting ----------------------------
(***************************************************************************)
(* How anthrouter keeps a message Thread on one model (ADR-0027) and moves *)
(* a conversation to another model by asking the client to replay it       *)
(* (ADR-0033).  Handler threads share the SessionState stores; upstream    *)
(* owns the Threads and refuses a continuation on another model.           *)
(*                                                                         *)
(* One action is one critical section of SessionState, one upstream call   *)
(* or one write to the client, so every interleaving of handler threads    *)
(* is a behaviour.                                                         *)
(***************************************************************************)
EXTENDS BoundedStore, FiniteSets

CONSTANTS
    Handlers,   \* handler threads: the requests served at the same time
    Ids,        \* upstream message ids, each made at most once
    Models,     \* upstream model ids
    Names,      \* model names in a payload: an alias or a full id
    Resolve,    \* resolve_model with this process's aliases: Names -> Models
    LongName,   \* auto_model_routing_long, the size floor's target
    WideModels, \* the models with a 1M-token window: _supports_long_context
    Sessions,   \* session keys (metadata.user_id); None for a request without one
    Texts,      \* final user texts, told apart by their SHA-256
    ClientBetas, \* whether clients send a context-1m beta themselves
    Ttl,        \* HANDOFF_TTL_SECONDS, in clock ticks
    None        \* Python's None

ASSUME ThreadRoutingAssumption ==
    /\ Resolve \in [Names -> Models]
    /\ LongName \in Names
    /\ WideModels \subseteq Models
    /\ ClientBetas \subseteq BOOLEAN
    /\ Ttl \in Nat \ {0}
    /\ {"tool_results", "other"} \cap Texts = {}

VARIABLES
    threads,    \* _thread_models: message id -> ThreadPin
    last,       \* _last_thread_model: session key -> model name
    handoffs,   \* _handoffs: (session key, text) -> Handoff
    handlers,   \* the state of each handler thread's request
    upstream,   \* upstream's Threads: the message ids it made
    recorded,   \* history: the ids of record_thread, oldest first
    delivered,  \* history: ids whose response the client has in full
    promised    \* history: replays asked for and neither routed nor expired, each
                \* with the prompts whose replay was asked for since

stores == <<threads, last, handoffs>>
history == <<recorded, delivered, promised>>
vars == <<stores, handlers, upstream, history>>

(***************************************************************************)
(* Requests.  The final message holds user text, only tool results, or     *)
(* neither (an image).  Only a text with a session key has a handoff key.  *)
(***************************************************************************)
Contents == Texts \cup {"tool_results", "other"}

SessionKeys == Sessions \ {None}
HandoffKeys == SessionKeys \X Texts

\* _handoff_key
HandoffKey(session, content) ==
    IF session # None /\ content \in Texts THEN <<session, content>> ELSE None

ThreadPins == [key : Ids, model : Names, long : BOOLEAN]
Handoffs == [key : HandoffKeys, model : Names, left : 0..Ttl]
LastModels == [key : SessionKeys, model : Names]

\* The promise of a handoff, and what the client was promised of later prompts.
Promises == [entry : Handoffs, newer : SUBSET HandoffKeys]
Promise(e, newer) == [entry |-> e, newer |-> newer]
UpstreamMessages == [model : Models, wide : BOOLEAN]

ASSUME NoneAssumption ==
    None \notin Ids \cup Texts \cup UpstreamMessages

Phases == {"idle", "peek", "classify", "last", "send", "stream", "recorded", "refuse"}

\* A handler thread's request.  A field no later step reads is back at its
\* value in Idle.
Requests ==
    [phase : Phases,
     session : Sessions \cup {None},
     content : Contents,
     prev : Ids \cup {None},         \* thread.previous_message_id
     model : Names,                  \* payload['model']
     beta : BOOLEAN,                 \* a context-1m beta in _anthropic_beta
     pin : ThreadPins \cup {None},   \* the ThreadPin found for prev
     id : Ids \cup {None}]           \* the message id upstream answers with

\* A handler thread waiting for a request: _reset_request_state.
Idle ==
    [phase |-> "idle", session |-> None, content |-> "other", prev |-> None,
     model |-> LongName, beta |-> FALSE, pin |-> None, id |-> None]

\* A request with a thread field, whose model is the routing baseline: the
\* locked model or the one the client names.
Incoming(session, content, prev, model, beta) ==
    [Idle EXCEPT !.session = session, !.content = content, !.prev = prev,
                 !.model = model, !.beta = beta]

Become(h, r) == handlers' = [handlers EXCEPT ![h] = r]

\* The request is answered; the client may do anything next.
Answer(h) == Become(h, Idle)

\* Routed to a model: nothing reads the final message again.
Sending(r, model) == [r EXCEPT !.phase = "send", !.content = "other", !.model = model]

\* size_floor fires: the long-context target, with its beta.
Floored(r) == [Sending(r, LongName) EXCEPT !.beta = TRUE]

\* The message upstream makes of a request: merge_betas drops the context-1m
\* beta from a model without the window.
Sent(r) ==
    LET model == Resolve[r.model] IN
    [model |-> model, wide |-> r.beta /\ model \in WideModels]

\* _same_model: two names resolve to one upstream model id.
SameModel(a, b) == Resolve[a] = Resolve[b]

\* _live_handoff: an entry is expired once its time is up.
IsLive(k) == \E e \in Entries(handoffs) : e.key = k /\ e.left > 0

KeyOf(r) == HandoffKey(r.session, r.content)

-----------------------------------------------------------------------------
Init ==
    /\ threads = <<>> /\ last = <<>> /\ handoffs = <<>>
    /\ upstream = [i \in Ids |-> None]
    /\ recorded = <<>> /\ delivered = {} /\ promised = {}
    /\ handlers = [h \in Handlers |-> Idle]

(***************************************************************************)
(* _route for a new conversation: route_model and the tier cache choose    *)
(* any name; the size floor chooses LongName and adds the beta.            *)
(***************************************************************************)
RouteCreate(h) ==
    /\ handlers[h].phase = "idle"
    /\ \E session \in Sessions, m \in Names, beta \in ClientBetas :
          LET r == Incoming(session, "other", None, m, beta) IN
          Become(h, Sending(r, m)) \/ Become(h, Floored(r))
    /\ UNCHANGED <<stores, upstream, history>>

\* A security-monitor request skips _route: the client's model, even on a
\* continuation.
PassMonitor(h) ==
    /\ handlers[h].phase = "idle"
    /\ \E session \in Sessions, m \in Names, beta \in ClientBetas,
          prev \in {i \in Ids : upstream[i] # None} :
             Become(h, Sending(Incoming(session, "other", prev, m, beta), m))
    /\ UNCHANGED <<stores, upstream, history>>

-----------------------------------------------------------------------------
(***************************************************************************)
(* _route_continuation.                                                    *)
(***************************************************************************)

\* Mutant: _pin reports the Thread's model and leaves payload['model'] alone.
PinnedInName(r, pin) == [Sending(r, r.model) EXCEPT !.pin = pin]

\* _pin: the payload takes the Thread's model.
Pinned(r, pin) == [Sending(r, pin.model) EXCEPT !.pin = pin]

\* Mutant: the pin skips the size floor and nothing adds its beta back.
PinNarrow(r, pin) == Pinned(r, pin)

\* A Thread with the long-context flag gets its beta again, and is pinned.
PinLong(r, pin) == [Pinned(r, pin) EXCEPT !.beta = TRUE]

\* Mutant: a long-context Thread is classified like any other.
LookedUnflagged(r) ==
    IF r.prev \notin KeysOf(threads) THEN Sending(r, r.model)
    ELSE LET pin == EntryOf(threads, r.prev) IN
         IF r.content = "tool_results" THEN Pinned(r, pin)
         ELSE [r EXCEPT !.phase = "peek", !.pin = pin, !.model = pin.model]

\* What thread_pin and the checks that read no other shared state decide.
Looked(r) ==
    IF r.prev \notin KeysOf(threads) THEN Sending(r, r.model)    \* thread_pin_unknown
    ELSE LET pin == EntryOf(threads, r.prev) IN
         IF pin.long THEN PinLong(r, pin)
         ELSE IF r.content = "tool_results" THEN Pinned(r, pin)
         ELSE [r EXCEPT !.phase = "peek", !.pin = pin, !.model = pin.model]

\* A continuation arrives and its pin is looked up.  It may name any message
\* upstream made: a streaming client knows the id from message_start, before
\* anthrouter records it.
LookupPin(h) ==
    /\ handlers[h].phase = "idle"
    /\ \E session \in Sessions, content \in Contents, m \in Names, beta \in ClientBetas,
          prev \in {i \in Ids : upstream[i] # None} :
             Become(h, Looked(Incoming(session, content, prev, m, beta)))
    /\ UNCHANGED <<stores, upstream, history>>

\* Mutant: peek_handoff removes the live entry, as take_handoff does.
DropPeeked(k) == Discard(handoffs, k)

\* An expired entry met by _live_handoff is dropped.
DropExpired(k) == IF IsLive(k) THEN handoffs ELSE Discard(handoffs, k)

\* peek_handoff: a live handoff for this prompt repeats the local 400.
PeekHandoff(h) ==
    LET k == KeyOf(handlers[h]) IN
    /\ handlers[h].phase = "peek"
    /\ Become(h, [handlers[h] EXCEPT !.phase = IF IsLive(k) THEN "refuse" ELSE "classify"])
    /\ handoffs' = DropExpired(k)
    /\ UNCHANGED <<threads, last, upstream, history>>

\* The promises of other prompts than k.
Unrouted(k) == {p \in promised : p.entry.key # k}

\* store_handoff: nothing without a key; a re-store has a fresh expiry.
StoreHandoff(k, model) ==
    LET e == [key |-> k, model |-> model, left |-> Ttl] IN
    IF k = None THEN UNCHANGED <<handoffs, promised>>
    ELSE /\ handoffs' = Put(handoffs, e)
         /\ promised' = {Promise(p.entry, p.newer \cup {k}) : p \in Unrouted(k)}
                            \cup {Promise(e, {})}

\* The routing of route_model on a continuation: the Thread's model keeps the
\* pin, another model stores a handoff and is answered locally.
Reroute(h, model, beta) ==
    LET r == [handlers[h] EXCEPT !.beta = beta] IN
    IF SameModel(model, r.pin.model)
    THEN Become(h, Pinned(r, r.pin)) /\ UNCHANGED <<handoffs, promised>>
    ELSE Become(h, [r EXCEPT !.phase = "refuse"]) /\ StoreHandoff(KeyOf(r), model)

\* No classification (classifier failed, routing off, no text): fails closed
\* to the Thread's model.
FailClosed(h) ==
    /\ Become(h, Pinned(handlers[h], handlers[h].pin))
    /\ UNCHANGED <<handoffs, promised>>

\* route_model answers: no classification, a tier's model, or the size floor
\* on the delta alone, which leaves its beta in the payload.
Classify(h) ==
    /\ handlers[h].phase = "classify"
    /\ \/ FailClosed(h)
       \/ \E m \in Names : Reroute(h, m, handlers[h].beta)
       \/ Reroute(h, LongName, TRUE)
    /\ UNCHANGED <<threads, last, upstream, recorded, delivered>>

\* _send_reclassified: the local 400, with no upstream call.
SendReclassified(h) ==
    /\ handlers[h].phase = "refuse"
    /\ Answer(h)
    /\ UNCHANGED <<stores, upstream, history>>

-----------------------------------------------------------------------------
(***************************************************************************)
(* _route_replay.                                                          *)
(***************************************************************************)

\* Mutant: take_handoff returns the entry and leaves it in the store.
TakeByPeeking(k) ==
    /\ handoffs' = DropExpired(k)
    /\ promised' = Unrouted(k)

\* take_handoff removes what it returns; an expired entry it drops.
TakeHandoff(k) ==
    /\ handoffs' = Discard(handoffs, k)
    /\ promised' = Unrouted(k)

\* size_floor, then take_handoff whatever it said.  The floor wins, then the
\* handoff's model; a final message with only tool results goes on to the last
\* Thread model, any other to route_model, which may choose any name.
RouteReplay(h) ==
    /\ handlers[h].phase = "idle"
    /\ \E session \in Sessions, content \in Contents, m \in Names, beta \in ClientBetas :
          LET r == Incoming(session, content, None, m, beta)
              k == KeyOf(r)
          IN
          /\ \/ Become(h, Floored(r))
             \/ IsLive(k) /\ Become(h, Sending(r, EntryOf(handoffs, k).model))
             \/ /\ ~IsLive(k)
                /\ IF content = "tool_results" THEN Become(h, [r EXCEPT !.phase = "last"])
                                               ELSE Become(h, Sending(r, m))
          /\ TakeHandoff(k)
    /\ UNCHANGED <<threads, last, upstream, recorded, delivered>>

\* last_thread_model, else the routing baseline.
LastThreadModel(h) ==
    LET r == handlers[h] IN
    /\ r.phase = "last"
    /\ Become(h, Sending(r, IF r.session \in KeysOf(last)
                            THEN EntryOf(last, r.session).model ELSE r.model))
    /\ UNCHANGED <<stores, upstream, history>>

-----------------------------------------------------------------------------
(***************************************************************************)
(* _dispatch.  Upstream accepts a continuation only on its Thread's model; *)
(* it may fail any request (rate limit, overload, expired Thread).         *)
(***************************************************************************)
UpstreamAccepts(h) ==
    LET r == handlers[h] IN
    /\ r.phase = "send"
    /\ r.prev # None => upstream[r.prev].model = Resolve[r.model]
    /\ \E i \in Ids :
          /\ upstream[i] = None
          /\ upstream' = [upstream EXCEPT ![i] = Sent(r)]
          /\ Become(h, [r EXCEPT !.phase = "stream", !.id = i, !.prev = None, !.pin = None])
    /\ UNCHANGED <<stores, history>>

UpstreamMismatch(h) ==
    LET r == handlers[h] IN
    /\ r.phase = "send" /\ r.prev # None
    /\ upstream[r.prev].model # Resolve[r.model]
    /\ Answer(h)
    /\ UNCHANGED <<stores, upstream, history>>

UpstreamFails(h) ==
    /\ handlers[h].phase = "send"
    /\ Answer(h)
    /\ UNCHANGED <<stores, upstream, history>>

\* The stream errors, is cut off, or loses its client before message_stop:
\* nothing is recorded, though upstream made the message.
CutStream(h) ==
    /\ handlers[h].phase = "stream"
    /\ Answer(h)
    /\ UNCHANGED <<stores, upstream, history>>

\* Mutant: the model to record is kept on the handler class, so another
\* request's model may be there by message_stop.
RecordThreadShared(h) ==
    LET r == handlers[h] IN
    /\ r.phase = "stream"
    /\ \E o \in Handlers :
          /\ threads' = Put(threads, [key |-> r.id, model |-> handlers[o].model, long |-> r.beta])
          /\ last' = IF r.session = None THEN last
                     ELSE Put(last, [key |-> r.session, model |-> handlers[o].model])
    /\ recorded' = Append(recorded, r.id)
    /\ Become(h, [Idle EXCEPT !.phase = "recorded", !.id = r.id])
    /\ UNCHANGED <<handoffs, upstream, delivered, promised>>

\* Mutant: without a session key nothing is recorded, as store_handoff does.
RecordThreadKeyed(h) ==
    LET r == handlers[h] IN
    /\ r.phase = "stream"
    /\ IF r.session = None THEN UNCHANGED <<threads, last>>
       ELSE /\ threads' = Put(threads, [key |-> r.id, model |-> r.model, long |-> r.beta])
            /\ last' = Put(last, [key |-> r.session, model |-> r.model])
    /\ recorded' = Append(recorded, r.id)
    /\ Become(h, [Idle EXCEPT !.phase = "recorded", !.id = r.id])
    /\ UNCHANGED <<handoffs, upstream, delivered, promised>>

\* record_thread, before the message_stop chunk or the JSON response is written.
RecordThread(h) ==
    LET r == handlers[h] IN
    /\ r.phase = "stream"
    /\ threads' = Put(threads, [key |-> r.id, model |-> r.model, long |-> r.beta])
    /\ last' = IF r.session = None THEN last
               ELSE Put(last, [key |-> r.session, model |-> r.model])
    /\ recorded' = Append(recorded, r.id)
    /\ Become(h, [Idle EXCEPT !.phase = "recorded", !.id = r.id])
    /\ UNCHANGED <<handoffs, upstream, delivered, promised>>

\* The client has the whole response.
Deliver(h) ==
    LET r == handlers[h] IN
    /\ r.phase = "recorded"
    /\ delivered' = delivered \cup {r.id}
    /\ Answer(h)
    /\ UNCHANGED <<stores, upstream, recorded, promised>>

\* The client disconnects before the end of the response reaches it.
LoseClient(h) ==
    /\ handlers[h].phase = "recorded"
    /\ Answer(h)
    /\ UNCHANGED <<stores, upstream, history>>

-----------------------------------------------------------------------------
\* The clock moves: every handoff is one tick nearer its expiry.
Tick ==
    /\ \E e \in Entries(handoffs) : e.left > 0
    /\ handoffs' = [i \in DOMAIN handoffs |->
                      [handoffs[i] EXCEPT !.left = IF @ > 0 THEN @ - 1 ELSE 0]]
    /\ promised' = {Promise([p.entry EXCEPT !.left = @ - 1], p.newer) :
                        p \in {q \in promised : q.entry.left > 1}}
    /\ UNCHANGED <<threads, last, handlers, upstream, recorded, delivered>>

\* anthrouter restarts: connections drop and every store is empty.
Restart ==
    /\ threads' = <<>> /\ last' = <<>> /\ handoffs' = <<>>
    /\ recorded' = <<>> /\ delivered' = {} /\ promised' = {}
    /\ handlers' = [h \in Handlers |-> Idle]
    /\ UNCHANGED upstream

Route(h) ==
    \/ RouteCreate(h) \/ PassMonitor(h)
    \/ LookupPin(h) \/ PeekHandoff(h) \/ Classify(h) \/ SendReclassified(h)
    \/ RouteReplay(h) \/ LastThreadModel(h)

Dispatch(h) ==
    \/ UpstreamAccepts(h) \/ UpstreamMismatch(h) \/ UpstreamFails(h)
    \/ CutStream(h) \/ RecordThread(h) \/ Deliver(h) \/ LoseClient(h)

Next ==
    \/ \E h \in Handlers : Route(h) \/ Dispatch(h)
    \/ Tick
    \/ Restart

Spec == Init /\ [][Next]_vars

-----------------------------------------------------------------------------
(***************************************************************************)
(* Properties.                                                             *)
(***************************************************************************)

TypeOK ==
    /\ IsStore(threads, ThreadPins)
    /\ IsStore(last, LastModels)
    /\ IsStore(handoffs, Handoffs)
    /\ handlers \in [Handlers -> Requests]
    /\ upstream \in [Ids -> UpstreamMessages \cup {None}]
    /\ recorded \in Seq(Ids)
    /\ delivered \subseteq Ids
    /\ promised \subseteq Promises

\* The Thread map tells the truth: each entry names the model upstream holds
\* the Thread to, whoever recorded it and whatever the entry replaced.
PinIsThreadModel ==
    \A e \in Entries(threads) :
        upstream[e.key] # None /\ upstream[e.key].model = Resolve[e.model]

\* A continuation whose message anthrouter remembers is never refused upstream
\* for its model, whatever the classifier, the lock or a concurrent request did.
PinnedNeverMismatched ==
    \A h \in Handlers :
        LET r == handlers[h] IN
        r.phase = "send" /\ r.pin # None => upstream[r.prev].model = Resolve[r.model]

\* A client that continues a Thread once it has the whole response finds the
\* pin, unless MAX_ENTRIES newer messages have pushed it out.
DeliveredIsPinned ==
    \A id \in delivered :
        \/ id \in KeysOf(threads)
        \/ \E i \in DOMAIN recorded : recorded[i] = id /\ Len(recorded) - i >= MaxEntries

\* A Thread in the long-context window keeps it: its next message is sent with
\* the beta, on a model that has the window, as long as anthrouter remembers the
\* message it continues.
WindowKept ==
    \A h \in Handlers :
        LET r == handlers[h] IN
        r.phase = "send" /\ r.pin # None /\ upstream[r.prev].wide => Sent(r).wide

\* A Thread in the long-context window is never asked to replay: the model
\* change would send a large conversation with no prompt cache.
LongThreadNeverRefused ==
    \A h \in Handlers :
        LET r == handlers[h] IN
        r.phase = "refuse" => ~upstream[r.prev].wide

\* Each live handoff is for a prompt whose client was told to replay, with the
\* model chosen then, and no replay of the prompt has been routed since.
HandoffWasPromised ==
    \A e \in Entries(handoffs) : e.left > 0 => \E p \in promised : p.entry = e

\* A client told to replay finds its handoff until it expires, unless another replay
\* of the prompt took it or MAX_ENTRIES other prompts have been told to replay since.
PromiseKept ==
    \A p \in promised :
        p.entry \in Entries(handoffs) \/ Cardinality(p.newer) >= MaxEntries
=============================================================================
