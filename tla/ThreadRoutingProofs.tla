------------------------ MODULE ThreadRoutingProofs ------------------------
(***************************************************************************)
(* For every number of handler threads, message ids, models, sessions and  *)
(* texts, every alias map and every store bound: the Thread map names the  *)
(* model upstream holds each Thread to, no remembered continuation is sent *)
(* on another model, a Thread in the long-context window keeps it and is   *)
(* never asked to replay, and the pins and handoffs a client was promised  *)
(* are there until MaxEntries newer ones have displaced them.              *)
(*                                                                         *)
(* The properties are not inductive.  What makes them so is a fact about   *)
(* each request in flight: what it read from the Thread map stays true     *)
(* after the map forgets it, because upstream never changes a Thread.  The *)
(* last three need the order of the stores as well.                        *)
(***************************************************************************)
EXTENDS ThreadRouting, BoundedStoreProofs

\* Every Thread in the long-context window is on a model that has it.
UpstreamOK(up) ==
    \A i \in Ids : up[i] \in UpstreamMessages /\ up[i].wide => up[i].model \in WideModels

\* A Thread map entry is true of upstream's Thread.
PinOK(pin, up) ==
    /\ up[pin.key] \in UpstreamMessages
    /\ up[pin.key].model = Resolve[pin.model]
    /\ up[pin.key].wide => pin.long

PinsOK == \A e \in Entries(threads) : PinOK(e, upstream)

\* What a request in flight knows of upstream.
RequestOK(r, up) ==
    /\ r.phase \in {"peek", "classify", "refuse"} =>
          /\ r.prev \in Ids /\ r.pin \in ThreadPins
          /\ r.pin.key = r.prev /\ PinOK(r.pin, up) /\ ~r.pin.long
    /\ r.phase = "last" => r.pin = None
    /\ r.phase = "send" /\ r.pin # None =>
          /\ r.prev \in Ids /\ up[r.prev] \in UpstreamMessages
          /\ up[r.prev].model = Resolve[r.model]
          /\ up[r.prev].wide => r.beta
    /\ r.phase = "stream" =>
          r.id \in Ids /\ up[r.id] \in UpstreamMessages /\ up[r.id] = Sent(r)
    /\ r.phase = "recorded" => r.id \in Ids

HandlersOK == \A h \in Handlers : RequestOK(handlers[h], upstream)

IInv == TypeOK /\ UpstreamOK(upstream) /\ PinsOK /\ HandlersOK

-----------------------------------------------------------------------------
(***************************************************************************)
(* Requests.                                                               *)
(***************************************************************************)

LEMMA IdleType == Idle \in Requests /\ \A up : RequestOK(Idle, up)
BY ThreadRoutingAssumption DEF Idle, Requests, Phases, Contents, RequestOK

LEMMA IncomingType ==
    ASSUME NEW session \in Sessions \cup {None}, NEW content \in Contents,
           NEW prev \in Ids \cup {None}, NEW m \in Names, NEW beta \in BOOLEAN,
           NEW r, r = Incoming(session, content, prev, m, beta)
    PROVE  /\ r \in Requests /\ r.phase = "idle" /\ r.session = session
           /\ r.content = content /\ r.prev = prev /\ r.model = m
           /\ r.beta = beta /\ r.pin = None /\ r.id = None
BY IdleType DEF Incoming, Idle, Requests, Phases

LEMMA SendingType ==
    ASSUME NEW r \in Requests, NEW m \in Names, NEW s, s = Sending(r, m)
    PROVE  /\ s \in Requests /\ s.phase = "send" /\ s.model = m
           /\ s.prev = r.prev /\ s.pin = r.pin /\ s.beta = r.beta
BY DEF Sending, Requests, Phases, Contents

LEMMA FlooredType ==
    ASSUME NEW r \in Requests, NEW s, s = Floored(r)
    PROVE  s \in Requests /\ s.phase = "send" /\ s.pin = r.pin
<1>1. LongName \in Names
    BY ThreadRoutingAssumption
<1>2. PICK q : q = Sending(r, LongName)
    OBVIOUS
<1>3. q \in Requests /\ q.phase = "send" /\ q.pin = r.pin
    BY <1>1, <1>2, SendingType
<1>4. s = [q EXCEPT !.beta = TRUE]
    BY <1>2 DEF Floored
<1> QED BY <1>3, <1>4 DEF Requests

LEMMA PinnedType ==
    ASSUME NEW r \in Requests, NEW pin \in ThreadPins, NEW s, s = Pinned(r, pin)
    PROVE  /\ s \in Requests /\ s.phase = "send" /\ s.pin = pin /\ s.model = pin.model
           /\ s.prev = r.prev /\ s.beta = r.beta
<1>1. pin.model \in Names
    BY DEF ThreadPins
<1>2. PICK q : q = Sending(r, pin.model)
    OBVIOUS
<1>3. /\ q \in Requests /\ q.phase = "send" /\ q.model = pin.model
      /\ q.prev = r.prev /\ q.beta = r.beta
    BY <1>1, <1>2, SendingType
<1>4. s = [q EXCEPT !.pin = pin]
    BY <1>2 DEF Pinned
<1> QED BY <1>3, <1>4 DEF Requests

LEMMA PinLongType ==
    ASSUME NEW r \in Requests, NEW pin \in ThreadPins, NEW s, s = PinLong(r, pin)
    PROVE  /\ s \in Requests /\ s.phase = "send" /\ s.pin = pin /\ s.model = pin.model
           /\ s.prev = r.prev /\ s.beta
<1>1. PICK q : q = Pinned(r, pin)
    OBVIOUS
<1>2. /\ q \in Requests /\ q.phase = "send" /\ q.pin = pin /\ q.model = pin.model
      /\ q.prev = r.prev
    BY <1>1, PinnedType
<1>3. s = [q EXCEPT !.beta = TRUE]
    BY <1>1 DEF PinLong
<1> QED BY <1>2, <1>3 DEF Requests

\* A request whose model is the one its true pin names satisfies RequestOK.
LEMMA PinnedOK ==
    ASSUME NEW up, NEW s, s.phase = "send", NEW pin \in ThreadPins, pin.key \in Ids,
           PinOK(pin, up), s.pin = pin, s.model = pin.model, s.prev = pin.key,
           pin.long => s.beta
    PROVE  RequestOK(s, up)
<1>1. s.prev \in Ids
    OBVIOUS
<1>2. up[s.prev] \in UpstreamMessages
    BY DEF PinOK
<1>3. up[s.prev].model = Resolve[s.model]
    BY DEF PinOK
<1>4. ASSUME up[s.prev].wide PROVE s.beta
    <2>1. pin.long
        BY <1>4 DEF PinOK
    <2> QED BY <2>1
<1> QED BY <1>1, <1>2, <1>3, <1>4 DEF RequestOK

\* A request held to the model of its true pin keeps what it must know.
LEMMA PinnedHeld ==
    ASSUME NEW up, NEW r \in Requests, NEW pin \in ThreadPins, PinOK(pin, up),
           r.prev = pin.key, ~pin.long, NEW s, s = Pinned(r, pin)
    PROVE  s \in Requests /\ RequestOK(s, up)
<1>1. s \in Requests /\ s.phase = "send" /\ s.pin = pin /\ s.model = pin.model /\ s.prev = r.prev
    BY PinnedType
<1>2. s.prev = pin.key /\ pin.key \in Ids
    BY <1>1 DEF ThreadPins
<1> QED BY <1>1, <1>2, PinnedOK

LEMMA PinLongHeld ==
    ASSUME NEW up, NEW r \in Requests, NEW pin \in ThreadPins, PinOK(pin, up),
           r.prev = pin.key, NEW s, s = PinLong(r, pin)
    PROVE  s \in Requests /\ RequestOK(s, up)
<1>1. /\ s \in Requests /\ s.phase = "send" /\ s.pin = pin /\ s.model = pin.model
      /\ s.prev = r.prev /\ s.beta
    BY PinLongType
<1>2. s.prev = pin.key /\ pin.key \in Ids
    BY <1>1 DEF ThreadPins
<1> QED BY <1>1, <1>2, PinnedOK

\* A request without a pin has nothing to be wrong about until upstream answers.
LEMMA UnpinnedOK ==
    ASSUME NEW up, NEW s, s.phase \in {"send", "last"}, s.pin = None
    PROVE  RequestOK(s, up)
BY DEF RequestOK

-----------------------------------------------------------------------------
(***************************************************************************)
(* Steps that replace one handler's request.                               *)
(***************************************************************************)

LEMMA BecomeStep ==
    ASSUME TypeOK, HandlersOK, NEW h \in Handlers, NEW r \in Requests,
           RequestOK(r, upstream), Become(h, r), UNCHANGED upstream
    PROVE  handlers' \in [Handlers -> Requests] /\ HandlersOK'
<1>1. handlers \in [Handlers -> Requests]
    BY DEF TypeOK
<1>2. handlers' = [handlers EXCEPT ![h] = r]
    BY DEF Become
<1>3. ASSUME NEW o \in Handlers
      PROVE  RequestOK(handlers'[o], upstream)
    BY <1>1, <1>2 DEF HandlersOK
<1> QED BY <1>1, <1>2, <1>3 DEF HandlersOK

LEMMA AnswerStep ==
    ASSUME TypeOK, HandlersOK, NEW h \in Handlers, Answer(h), UNCHANGED upstream
    PROVE  handlers' \in [Handlers -> Requests] /\ HandlersOK'
BY IdleType, BecomeStep DEF Answer

\* Steps that leave every store and upstream alone.
LEMMA RequestStep ==
    ASSUME IInv, handlers' \in [Handlers -> Requests], HandlersOK',
           UNCHANGED <<stores, upstream, history>>
    PROVE  IInv'
BY DEF IInv, TypeOK, PinsOK, UpstreamOK, stores, history

LEMMA RouteCreateStep ==
    ASSUME IInv, NEW h \in Handlers, RouteCreate(h)
    PROVE  IInv'
<1>1. PICK session \in Sessions, m \in Names, beta \in ClientBetas :
          LET r == Incoming(session, "other", None, m, beta) IN
          Become(h, Sending(r, m)) \/ Become(h, Floored(r))
    BY DEF RouteCreate
<1>2. PICK r : r = Incoming(session, "other", None, m, beta)
    OBVIOUS
<1>3. r \in Requests /\ r.pin = None
    BY <1>2, ThreadRoutingAssumption, IncomingType DEF Contents
<1>4. Sending(r, m) \in Requests /\ RequestOK(Sending(r, m), upstream)
    BY <1>3, SendingType, UnpinnedOK
<1>5. Floored(r) \in Requests /\ RequestOK(Floored(r), upstream)
    BY <1>3, FlooredType, UnpinnedOK
<1>6. UNCHANGED <<stores, upstream, history>>
    BY DEF RouteCreate
<1>7. handlers' \in [Handlers -> Requests] /\ HandlersOK'
    BY <1>1, <1>2, <1>4, <1>5, <1>6, BecomeStep DEF IInv
<1> QED BY <1>6, <1>7, RequestStep

LEMMA PassMonitorStep ==
    ASSUME IInv, NEW h \in Handlers, PassMonitor(h)
    PROVE  IInv'
<1>1. PICK session \in Sessions, m \in Names, beta \in ClientBetas,
           prev \in {i \in Ids : upstream[i] # None} :
              Become(h, Sending(Incoming(session, "other", prev, m, beta), m))
    BY DEF PassMonitor
<1>2. PICK r : r = Incoming(session, "other", prev, m, beta)
    OBVIOUS
<1>3. r \in Requests /\ r.pin = None
    BY <1>2, ThreadRoutingAssumption, IncomingType DEF Contents
<1>4. Sending(r, m) \in Requests /\ RequestOK(Sending(r, m), upstream)
    BY <1>3, SendingType, UnpinnedOK
<1>5. UNCHANGED <<stores, upstream, history>>
    BY DEF PassMonitor
<1>6. handlers' \in [Handlers -> Requests] /\ HandlersOK'
    BY <1>1, <1>2, <1>4, <1>5, BecomeStep DEF IInv
<1> QED BY <1>5, <1>6, RequestStep

\* What a continuation reads from the Thread map is true of its Thread.
LEMMA LookedOK ==
    ASSUME IInv, NEW r \in Requests, r.prev \in Ids, r.pin = None,
           NEW s, s = Looked(r)
    PROVE  s \in Requests /\ RequestOK(s, upstream)
<1>1. CASE r.prev \notin KeysOf(threads)
    <2>1. s = Sending(r, r.model) /\ r.model \in Names
        BY <1>1 DEF Looked, Requests
    <2> QED BY <2>1, SendingType, UnpinnedOK
<1>2. CASE r.prev \in KeysOf(threads)
    <2>1. PICK pin : pin = EntryOf(threads, r.prev)
        OBVIOUS
    <2>2. pin \in Entries(threads) /\ pin.key = r.prev
        BY <1>2, <2>1, EntryOfProperties
    <2>3. pin \in ThreadPins
        BY <2>2, EntriesInSet DEF IInv, TypeOK, IsStore
    <2>4. PinOK(pin, upstream)
        BY <2>2 DEF IInv, PinsOK
    <2>5. CASE pin.long
        <3>1. s = PinLong(r, pin)
            BY <1>2, <2>1, <2>5 DEF Looked
        <3> QED BY <2>2, <2>3, <2>4, <3>1, PinLongHeld
    <2>6. CASE ~pin.long /\ r.content = "tool_results"
        <3>1. s = Pinned(r, pin)
            BY <1>2, <2>1, <2>6 DEF Looked
        <3> QED BY <2>2, <2>3, <2>4, <2>6, <3>1, PinnedHeld
    <2>7. CASE ~pin.long /\ r.content # "tool_results"
        <3>1. s = [r EXCEPT !.phase = "peek", !.pin = pin, !.model = pin.model]
            BY <1>2, <2>1, <2>7 DEF Looked
        <3>2. s \in Requests /\ s.phase = "peek" /\ s.prev = r.prev /\ s.pin = pin
            <4>1. pin.model \in Names
                BY <2>3 DEF ThreadPins
            <4> QED BY <2>3, <3>1, <4>1 DEF Requests, Phases
        <3>3. /\ s.prev \in Ids /\ s.pin \in ThreadPins /\ s.pin.key = s.prev
              /\ PinOK(s.pin, upstream) /\ ~s.pin.long
            BY <2>2, <2>3, <2>4, <2>7, <3>2
        <3>4. RequestOK(s, upstream)
            BY <3>2, <3>3 DEF RequestOK
        <3> QED BY <3>2, <3>4
    <2> QED BY <2>5, <2>6, <2>7
<1> QED BY <1>1, <1>2

LEMMA LookupPinStep ==
    ASSUME IInv, NEW h \in Handlers, LookupPin(h)
    PROVE  IInv'
<1>1. PICK session \in Sessions, content \in Contents, m \in Names, beta \in ClientBetas,
           prev \in {i \in Ids : upstream[i] # None} :
              Become(h, Looked(Incoming(session, content, prev, m, beta)))
    BY DEF LookupPin
<1>2. PICK r : r = Incoming(session, content, prev, m, beta)
    OBVIOUS
<1>3. r \in Requests /\ r.pin = None /\ r.prev \in Ids
    BY <1>2, ThreadRoutingAssumption, IncomingType
<1>4. Looked(r) \in Requests /\ RequestOK(Looked(r), upstream)
    BY <1>3, LookedOK
<1>5. UNCHANGED <<stores, upstream, history>>
    BY DEF LookupPin
<1>6. handlers' \in [Handlers -> Requests] /\ HandlersOK'
    BY <1>1, <1>2, <1>4, <1>5, BecomeStep DEF IInv
<1> QED BY <1>5, <1>6, RequestStep

-----------------------------------------------------------------------------
(***************************************************************************)
(* Steps that touch the handoffs.                                          *)
(***************************************************************************)

\* Steps that change the handoffs and one request.
LEMMA HandoffStep ==
    ASSUME IInv, handlers' \in [Handlers -> Requests], HandlersOK',
           IsStore(handoffs', Handoffs), promised' \subseteq Promises,
           UNCHANGED <<threads, last, upstream, recorded, delivered>>
    PROVE  IInv'
BY DEF IInv, TypeOK, PinsOK, UpstreamOK

LEMMA PeekHandoffStep ==
    ASSUME IInv, NEW h \in Handlers, PeekHandoff(h)
    PROVE  IInv'
<1>1. PICK r : r = handlers[h]
    OBVIOUS
<1>2. r \in Requests /\ RequestOK(r, upstream) /\ r.phase = "peek"
    BY <1>1 DEF IInv, TypeOK, HandlersOK, PeekHandoff
<1>3. PICK p \in {"refuse", "classify"} : Become(h, [r EXCEPT !.phase = p])
    BY <1>1 DEF PeekHandoff
<1>4. [r EXCEPT !.phase = p] \in Requests
    BY <1>2 DEF Requests, Phases
<1>5. RequestOK([r EXCEPT !.phase = p], upstream)
    BY <1>2 DEF RequestOK, Requests
<1>6. UNCHANGED <<threads, last, upstream, history>>
    BY DEF PeekHandoff
<1>7. handlers' \in [Handlers -> Requests] /\ HandlersOK'
    BY <1>3, <1>4, <1>5, <1>6, BecomeStep DEF IInv
<1>8. IsStore(handoffs', Handoffs)
    BY DiscardStore DEF IInv, TypeOK, PeekHandoff, DropExpired
<1>9. promised' \subseteq Promises /\ UNCHANGED <<recorded, delivered>>
    BY <1>6 DEF IInv, TypeOK, history
<1> QED BY <1>6, <1>7, <1>8, <1>9, HandoffStep

LEMMA StoreHandoffType ==
    ASSUME TypeOK, NEW r \in Requests, NEW model \in Names, StoreHandoff(KeyOf(r), model)
    PROVE  IsStore(handoffs', Handoffs) /\ promised' \subseteq Promises
<1>1. CASE KeyOf(r) = None
    BY <1>1 DEF StoreHandoff, TypeOK
<1>2. CASE KeyOf(r) # None
    <2>1. PICK e : e = [key |-> KeyOf(r), model |-> model, left |-> Ttl]
        OBVIOUS
    <2>2. KeyOf(r) \in HandoffKeys
        BY <1>2 DEF KeyOf, HandoffKey, HandoffKeys, SessionKeys, Requests
    <2>3. e \in Handoffs
        BY <2>1, <2>2, ThreadRoutingAssumption DEF Handoffs
    <2>4. handoffs' = Put(handoffs, e)
        BY <1>2, <2>1 DEF StoreHandoff
    <2>5. promised' = {Promise(p.entry, p.newer \cup {KeyOf(r)}) : p \in Unrouted(KeyOf(r))}
                          \cup {Promise(e, {})}
        BY <1>2, <2>1 DEF StoreHandoff
    <2>6. promised' \subseteq Promises
        BY <2>2, <2>3, <2>5 DEF TypeOK, Promises, Promise, Unrouted
    <2> QED BY <2>3, <2>4, <2>6, PutStore DEF TypeOK
<1> QED BY <1>1, <1>2

LEMMA RerouteStep ==
    ASSUME IInv, NEW h \in Handlers, NEW model \in Names, NEW beta \in BOOLEAN,
           handlers[h].phase = "classify", Reroute(h, model, beta),
           UNCHANGED <<threads, last, upstream, recorded, delivered>>
    PROVE  IInv'
<1>1. PICK q : q = handlers[h]
    OBVIOUS
<1>2. q \in Requests /\ RequestOK(q, upstream) /\ q.phase = "classify"
    BY <1>1 DEF IInv, TypeOK, HandlersOK
<1>3. PICK r : r = [q EXCEPT !.beta = beta]
    OBVIOUS
<1>4. /\ r \in Requests /\ r.pin \in ThreadPins /\ r.prev = r.pin.key /\ r.prev \in Ids
      /\ PinOK(r.pin, upstream) /\ ~r.pin.long
    BY <1>2, <1>3 DEF Requests, RequestOK
<1>5. CASE SameModel(model, r.pin.model)
    <2>1. Become(h, Pinned(r, r.pin)) /\ UNCHANGED <<handoffs, promised>>
        BY <1>1, <1>3, <1>5 DEF Reroute
    <2>2. Pinned(r, r.pin) \in Requests /\ RequestOK(Pinned(r, r.pin), upstream)
        BY <1>4, PinnedHeld
    <2>3. handlers' \in [Handlers -> Requests] /\ HandlersOK'
        BY <2>1, <2>2, BecomeStep DEF IInv
    <2>4. IsStore(handoffs', Handoffs) /\ promised' \subseteq Promises
        BY <2>1 DEF IInv, TypeOK
    <2> QED BY <2>3, <2>4, HandoffStep
<1>6. CASE ~SameModel(model, r.pin.model)
    <2>1. Become(h, [r EXCEPT !.phase = "refuse"]) /\ StoreHandoff(KeyOf(r), model)
        BY <1>1, <1>3, <1>6 DEF Reroute
    <2>2. [r EXCEPT !.phase = "refuse"] \in Requests
        BY <1>4 DEF Requests, Phases
    <2>3. RequestOK([r EXCEPT !.phase = "refuse"], upstream)
        BY <1>4 DEF RequestOK, Requests
    <2>4. handlers' \in [Handlers -> Requests] /\ HandlersOK'
        BY <2>1, <2>2, <2>3, BecomeStep DEF IInv
    <2>5. IsStore(handoffs', Handoffs) /\ promised' \subseteq Promises
        BY <1>4, <2>1, StoreHandoffType DEF IInv
    <2> QED BY <2>4, <2>5, HandoffStep
<1> QED BY <1>5, <1>6

LEMMA ClassifyStep ==
    ASSUME IInv, NEW h \in Handlers, Classify(h)
    PROVE  IInv'
<1>1. /\ handlers[h].phase = "classify"
      /\ UNCHANGED <<threads, last, upstream, recorded, delivered>>
    BY DEF Classify
<1>2. CASE FailClosed(h)
    <2>1. PICK r : r = handlers[h]
        OBVIOUS
    <2>2. /\ r \in Requests /\ r.pin \in ThreadPins /\ r.prev = r.pin.key /\ r.prev \in Ids
          /\ PinOK(r.pin, upstream) /\ ~r.pin.long
        BY <1>1, <2>1 DEF IInv, TypeOK, HandlersOK, RequestOK
    <2>3. Pinned(r, r.pin) \in Requests /\ RequestOK(Pinned(r, r.pin), upstream)
        BY <2>2, PinnedHeld
    <2>4. handlers' \in [Handlers -> Requests] /\ HandlersOK'
        BY <1>1, <1>2, <2>1, <2>3, BecomeStep DEF IInv, FailClosed
    <2>5. IsStore(handoffs', Handoffs) /\ promised' \subseteq Promises
        BY <1>2 DEF IInv, TypeOK, FailClosed
    <2> QED BY <1>1, <2>4, <2>5, HandoffStep
<1>3. CASE \E m \in Names : Reroute(h, m, handlers[h].beta)
    <2>1. handlers[h].beta \in BOOLEAN
        BY DEF IInv, TypeOK, Requests
    <2> QED BY <1>1, <1>3, <2>1, RerouteStep
<1>4. CASE Reroute(h, LongName, TRUE)
    <2>1. LongName \in Names
        BY ThreadRoutingAssumption
    <2> QED BY <1>1, <1>4, <2>1, RerouteStep
<1> QED BY <1>2, <1>3, <1>4 DEF Classify

LEMMA SendReclassifiedStep ==
    ASSUME IInv, NEW h \in Handlers, SendReclassified(h)
    PROVE  IInv'
<1>1. Answer(h) /\ UNCHANGED <<stores, upstream, history>>
    BY DEF SendReclassified
<1> QED BY <1>1, AnswerStep, RequestStep DEF IInv

LEMMA RouteReplayStep ==
    ASSUME IInv, NEW h \in Handlers, RouteReplay(h)
    PROVE  IInv'
<1>1. PICK session \in Sessions, content \in Contents, m \in Names, beta \in ClientBetas :
          LET r == Incoming(session, content, None, m, beta)
              k == KeyOf(r)
          IN
          /\ \/ Become(h, Floored(r))
             \/ IsLive(k) /\ Become(h, Sending(r, EntryOf(handoffs, k).model))
             \/ /\ ~IsLive(k)
                /\ IF content = "tool_results" THEN Become(h, [r EXCEPT !.phase = "last"])
                                               ELSE Become(h, Sending(r, m))
          /\ TakeHandoff(k)
    BY DEF RouteReplay
<1>2. PICK r, k : r = Incoming(session, content, None, m, beta) /\ k = KeyOf(r)
    OBVIOUS
<1>3. r \in Requests /\ r.pin = None
    BY <1>2, ThreadRoutingAssumption, IncomingType
<1>4. Floored(r) \in Requests /\ RequestOK(Floored(r), upstream)
    BY <1>3, FlooredType, UnpinnedOK
<1>5. ASSUME NEW n \in Names
      PROVE  Sending(r, n) \in Requests /\ RequestOK(Sending(r, n), upstream)
    BY <1>3, SendingType, UnpinnedOK
<1>6. ASSUME IsLive(k)
      PROVE  EntryOf(handoffs, k).model \in Names
    <2>1. k \in KeysOf(handoffs)
        BY <1>6 DEF IsLive, KeysOf
    <2>2. EntryOf(handoffs, k) \in Handoffs
        BY <2>1, EntryOfProperties, EntriesInSet DEF IInv, TypeOK, IsStore
    <2> QED BY <2>2 DEF Handoffs
<1>7. [r EXCEPT !.phase = "last"] \in Requests
    BY <1>3 DEF Requests, Phases
<1>8. RequestOK([r EXCEPT !.phase = "last"], upstream)
    BY <1>3, UnpinnedOK DEF Requests
<1>9. PICK s \in Requests : RequestOK(s, upstream) /\ Become(h, s)
    BY <1>1, <1>2, <1>4, <1>5, <1>6, <1>7, <1>8
<1>10. UNCHANGED <<threads, last, upstream, recorded, delivered>>
    BY DEF RouteReplay
<1>11. handlers' \in [Handlers -> Requests] /\ HandlersOK'
    BY <1>9, <1>10, BecomeStep DEF IInv
<1>12. TakeHandoff(k)
    BY <1>1, <1>2
<1>13. IsStore(handoffs', Handoffs) /\ promised' \subseteq Promises
    BY <1>12, DiscardStore DEF IInv, TypeOK, TakeHandoff, Unrouted
<1> QED BY <1>10, <1>11, <1>13, HandoffStep

LEMMA LastThreadModelStep ==
    ASSUME IInv, NEW h \in Handlers, LastThreadModel(h)
    PROVE  IInv'
<1>1. PICK r : r = handlers[h]
    OBVIOUS
<1>2. r \in Requests /\ r.phase = "last"
    BY <1>1 DEF IInv, TypeOK, LastThreadModel
<1>3. PICK n : /\ n = IF r.session \in KeysOf(last)
                     THEN EntryOf(last, r.session).model ELSE r.model
               /\ Become(h, Sending(r, n))
    BY <1>1 DEF LastThreadModel
<1>4. n \in Names
    <2>1. CASE r.session \in KeysOf(last)
        <3>1. EntryOf(last, r.session) \in LastModels
            BY <2>1, EntryOfProperties, EntriesInSet DEF IInv, TypeOK, IsStore
        <3> QED BY <1>3, <2>1, <3>1 DEF LastModels
    <2>2. CASE r.session \notin KeysOf(last)
        BY <1>2, <1>3, <2>2 DEF Requests
    <2> QED BY <2>1, <2>2
<1>5. r.pin = None
    BY <1>1, <1>2 DEF IInv, HandlersOK, RequestOK
<1>6. Sending(r, n) \in Requests /\ RequestOK(Sending(r, n), upstream)
    BY <1>2, <1>4, <1>5, SendingType, UnpinnedOK
<1>7. UNCHANGED <<stores, upstream, history>>
    BY DEF LastThreadModel
<1>8. handlers' \in [Handlers -> Requests] /\ HandlersOK'
    BY <1>3, <1>6, <1>7, BecomeStep DEF IInv
<1> QED BY <1>7, <1>8, RequestStep

-----------------------------------------------------------------------------
(***************************************************************************)
(* Steps of _dispatch.                                                     *)
(***************************************************************************)

LEMMA SentType ==
    ASSUME NEW r \in Requests
    PROVE  Sent(r) \in UpstreamMessages /\ (Sent(r).wide => Sent(r).model \in WideModels)
<1>1. Resolve[r.model] \in Models
    BY ThreadRoutingAssumption DEF Requests
<1> QED BY <1>1 DEF Sent, UpstreamMessages

\* A new message of upstream changes no Thread a request or a pin knows of.
LEMMA PinMonotone ==
    ASSUME NEW up, NEW i \in Ids, up[i] = None, NEW m, NEW new,
           new = [up EXCEPT ![i] = m],
           NEW pin, PinOK(pin, up)
    PROVE  PinOK(pin, new)
<1>1. pin.key # i
    BY NoneAssumption DEF PinOK
<1>2. new[pin.key] = up[pin.key]
    BY <1>1
<1> QED BY <1>2 DEF PinOK

LEMMA RequestMonotone ==
    ASSUME NEW up, NEW i \in Ids, up[i] = None, NEW m, NEW new,
           new = [up EXCEPT ![i] = m],
           NEW r, RequestOK(r, up)
    PROVE  RequestOK(r, new)
<1>1. ASSUME NEW j, up[j] \in UpstreamMessages
      PROVE  new[j] = up[j]
    BY <1>1, NoneAssumption
<1>2. r.phase \in {"peek", "classify", "refuse"} => PinOK(r.pin, new)
    BY PinMonotone DEF RequestOK
<1> QED BY <1>1, <1>2 DEF RequestOK

LEMMA UpstreamAcceptsStep ==
    ASSUME IInv, NEW h \in Handlers, UpstreamAccepts(h)
    PROVE  IInv'
<1>1. PICK r : r = handlers[h]
    OBVIOUS
<1>2. r \in Requests
    BY <1>1 DEF IInv, TypeOK
<1>3. PICK i \in Ids :
          /\ upstream[i] = None
          /\ upstream' = [upstream EXCEPT ![i] = Sent(r)]
          /\ Become(h, [r EXCEPT !.phase = "stream", !.id = i, !.prev = None, !.pin = None])
    BY <1>1 DEF UpstreamAccepts
<1>4. PICK s : s = [r EXCEPT !.phase = "stream", !.id = i, !.prev = None, !.pin = None]
    OBVIOUS
<1>5. s \in Requests /\ s.phase = "stream" /\ s.id = i /\ s.model = r.model /\ s.beta = r.beta
    BY <1>2, <1>4 DEF Requests, Phases
<1>6. Sent(s) = Sent(r)
    BY <1>5 DEF Sent
<1>7. Sent(r) \in UpstreamMessages /\ (Sent(r).wide => Sent(r).model \in WideModels)
    BY <1>2, SentType
<1>8. upstream \in [Ids -> UpstreamMessages \cup {None}]
    BY DEF IInv, TypeOK
<1>9. upstream' \in [Ids -> UpstreamMessages \cup {None}] /\ upstream'[i] = Sent(r)
    BY <1>3, <1>7, <1>8
<1>10. RequestOK(s, upstream')
    BY <1>5, <1>6, <1>7, <1>9 DEF RequestOK
<1>11. handlers \in [Handlers -> Requests] /\ handlers' = [handlers EXCEPT ![h] = s]
    BY <1>3, <1>4 DEF IInv, TypeOK, Become
<1>12. HandlersOK'
    <2> SUFFICES ASSUME NEW o \in Handlers PROVE RequestOK(handlers'[o], upstream')
        BY DEF HandlersOK
    <2>1. CASE o = h
        BY <1>10, <1>11, <2>1
    <2>2. CASE o # h
        <3>1. handlers'[o] = handlers[o] /\ RequestOK(handlers[o], upstream)
            BY <1>11, <2>2 DEF IInv, HandlersOK
        <3> QED BY <1>3, <3>1, RequestMonotone
    <2> QED BY <2>1, <2>2
<1>13. UNCHANGED <<threads, last, handoffs, recorded, delivered, promised>>
    BY DEF UpstreamAccepts, stores, history
<1>14. PinsOK'
    <2>1. \A e \in Entries(threads) : PinOK(e, upstream')
        BY <1>3, PinMonotone DEF IInv, PinsOK
    <2> QED BY <1>13, <2>1 DEF PinsOK
<1>15. UpstreamOK(upstream')
    BY <1>3, <1>7, <1>8 DEF IInv, UpstreamOK
<1>16. TypeOK'
    BY <1>5, <1>9, <1>11, <1>13 DEF IInv, TypeOK
<1> QED BY <1>12, <1>14, <1>15, <1>16 DEF IInv

\* A step that answers a request and changes nothing else.
LEMMA AnswerOnlyStep ==
    ASSUME IInv, NEW h \in Handlers, Answer(h), UNCHANGED <<stores, upstream, history>>
    PROVE  IInv'
BY AnswerStep, RequestStep DEF IInv

LEMMA RecordThreadStep ==
    ASSUME IInv, NEW h \in Handlers, RecordThread(h)
    PROVE  IInv'
<1>1. PICK r : r = handlers[h]
    OBVIOUS
<1>2. r \in Requests /\ r.phase = "stream" /\ RequestOK(r, upstream)
    BY <1>1 DEF IInv, TypeOK, HandlersOK, RecordThread
<1>3. r.id \in Ids /\ upstream[r.id] \in UpstreamMessages /\ upstream[r.id] = Sent(r)
    BY <1>2 DEF RequestOK
<1>4. PICK e : e = [key |-> r.id, model |-> r.model, long |-> r.beta]
    OBVIOUS
<1>5. e \in ThreadPins
    BY <1>2, <1>3, <1>4 DEF ThreadPins, Requests
<1>6. PinOK(e, upstream)
    <2>1. /\ upstream[r.id].model = Resolve[r.model]
          /\ upstream[r.id].wide = (r.beta /\ Resolve[r.model] \in WideModels)
        BY <1>3 DEF Sent
    <2>2. upstream[r.id].wide => r.beta
        BY <2>1
    <2>3. e.key = r.id /\ e.model = r.model /\ e.long = r.beta
        BY <1>4
    <2> QED BY <1>3, <2>1, <2>2, <2>3 DEF PinOK
<1>7. threads' = Put(threads, e)
    BY <1>1, <1>4 DEF RecordThread
<1>8. IsStore(threads', ThreadPins) /\ Entries(threads') \subseteq Entries(threads) \cup {e}
    BY <1>5, <1>7, PutStore DEF IInv, TypeOK
<1>9. UNCHANGED <<handoffs, upstream, delivered, promised>>
    BY DEF RecordThread
<1>10. PinsOK'
    BY <1>6, <1>8, <1>9 DEF IInv, PinsOK
<1>11. IsStore(last', LastModels)
    <2>1. CASE r.session = None
        BY <1>1, <2>1 DEF RecordThread, IInv, TypeOK
    <2>2. CASE r.session # None
        <3>1. [key |-> r.session, model |-> r.model] \in LastModels
            BY <1>2, <2>2 DEF LastModels, SessionKeys, Requests
        <3>2. last' = Put(last, [key |-> r.session, model |-> r.model])
            BY <1>1, <2>2 DEF RecordThread
        <3> QED BY <3>1, <3>2, PutStore DEF IInv, TypeOK
    <2> QED BY <2>1, <2>2
<1>12. recorded' \in Seq(Ids)
    BY <1>1, <1>3 DEF RecordThread, IInv, TypeOK
<1>13. PICK s : s = [Idle EXCEPT !.phase = "recorded", !.id = r.id]
    OBVIOUS
<1>14. s \in Requests /\ RequestOK(s, upstream)
    BY <1>3, <1>13, IdleType DEF RequestOK, Requests, Phases
<1>15. handlers' \in [Handlers -> Requests] /\ HandlersOK'
    BY <1>1, <1>9, <1>13, <1>14, BecomeStep DEF RecordThread, IInv
<1>16. TypeOK'
    BY <1>8, <1>9, <1>11, <1>12, <1>15 DEF IInv, TypeOK
<1> QED BY <1>9, <1>10, <1>15, <1>16 DEF IInv, UpstreamOK

LEMMA DeliverStep ==
    ASSUME IInv, NEW h \in Handlers, Deliver(h)
    PROVE  IInv'
<1>1. Answer(h) /\ UNCHANGED <<stores, upstream, recorded, promised>>
    BY DEF Deliver
<1>2. handlers' \in [Handlers -> Requests] /\ HandlersOK'
    BY <1>1, AnswerStep DEF IInv
<1>3. delivered' \subseteq Ids
    BY DEF Deliver, IInv, TypeOK, HandlersOK, RequestOK
<1> QED BY <1>1, <1>2, <1>3 DEF IInv, TypeOK, PinsOK, UpstreamOK, stores

-----------------------------------------------------------------------------
(***************************************************************************)
(* The clock and restarts.                                                 *)
(***************************************************************************)

LEMMA TickStep ==
    ASSUME IInv, Tick
    PROVE  IInv'
<1>1. handoffs \in Seq(Handoffs) /\ Len(handoffs) \in Nat /\ DOMAIN handoffs = 1..Len(handoffs)
    BY LenProperties DEF IInv, TypeOK, IsStore
<1>2. \A e \in Handoffs : [e EXCEPT !.left = IF @ > 0 THEN @ - 1 ELSE 0] \in Handoffs
    BY ThreadRoutingAssumption DEF Handoffs
<1>3. PICK aged : aged = [i \in DOMAIN handoffs |->
                            [handoffs[i] EXCEPT !.left = IF @ > 0 THEN @ - 1 ELSE 0]]
    OBVIOUS
<1>4. \A i \in 1..Len(handoffs) : handoffs[i] \in Handoffs
    BY <1>1, ElementOfSeq
<1>5. aged \in [1..Len(handoffs) -> Handoffs]
    BY <1>1, <1>2, <1>3, <1>4
<1>6. aged \in Seq(Handoffs)
    BY <1>1, <1>5, SeqDef
<1>7. Len(aged) = Len(handoffs)
    BY <1>1, <1>5, <1>6, LenProperties
<1>8. \A i \in DOMAIN handoffs : aged[i].key = handoffs[i].key
    BY <1>1, <1>3, <1>4 DEF Handoffs
<1>9. IsStore(aged, Handoffs)
    BY <1>1, <1>5, <1>6, <1>7, <1>8 DEF IsStore, IInv, TypeOK
<1>10. handoffs' = aged
    BY <1>3 DEF Tick
<1>11. \A p \in Handoffs : p.left > 1 => [p EXCEPT !.left = @ - 1] \in Handoffs
    BY ThreadRoutingAssumption DEF Handoffs
<1>12. promised' \subseteq Promises
    BY <1>11 DEF Tick, IInv, TypeOK, Promises, Promise
<1>13. UNCHANGED <<threads, last, handlers, upstream, recorded, delivered>>
    BY DEF Tick
<1> QED BY <1>9, <1>10, <1>12, <1>13 DEF IInv, TypeOK, PinsOK, UpstreamOK, HandlersOK

LEMMA EmptyStore ==
    ASSUME NEW E
    PROVE  IsStore(<<>>, E) /\ Entries(<<>>) = {}
BY MaxEntriesAssumption DEF IsStore, Entries

LEMMA RestartStep ==
    ASSUME IInv, Restart
    PROVE  IInv'
<1>1. handlers' \in [Handlers -> Requests] /\ \A h \in Handlers : handlers'[h] = Idle
    BY IdleType DEF Restart
<1>2. HandlersOK'
    BY <1>1, IdleType DEF HandlersOK
<1>3. threads' = <<>> /\ last' = <<>> /\ handoffs' = <<>>
    BY DEF Restart
<1>4. recorded' = <<>> /\ delivered' = {} /\ promised' = {} /\ UNCHANGED upstream
    BY DEF Restart
<1>5. TypeOK'
    BY <1>1, <1>3, <1>4, EmptyStore DEF IInv, TypeOK
<1>6. PinsOK'
    BY <1>3, EmptyStore DEF PinsOK
<1> QED BY <1>2, <1>4, <1>5, <1>6 DEF IInv, UpstreamOK

-----------------------------------------------------------------------------
(***************************************************************************)
(* The theorems.                                                           *)
(***************************************************************************)

LEMMA InitIInv == Init => IInv
<1> SUFFICES ASSUME Init PROVE IInv
    OBVIOUS
<1>1. TypeOK
    BY IdleType, EmptyStore DEF Init, TypeOK
<1>2. UpstreamOK(upstream)
    BY NoneAssumption DEF Init, UpstreamOK
<1>3. PinsOK
    BY EmptyStore DEF Init, PinsOK
<1>4. HandlersOK
    BY IdleType DEF Init, HandlersOK
<1> QED BY <1>1, <1>2, <1>3, <1>4 DEF IInv

LEMMA NextIInv == IInv /\ [Next]_vars => IInv'
<1> SUFFICES ASSUME IInv, [Next]_vars PROVE IInv'
    OBVIOUS
<1>1. ASSUME NEW h \in Handlers, Route(h)
      PROVE  IInv'
    BY <1>1, RouteCreateStep, PassMonitorStep, LookupPinStep, PeekHandoffStep, ClassifyStep,
       SendReclassifiedStep, RouteReplayStep, LastThreadModelStep DEF Route
<1>2. ASSUME NEW h \in Handlers, Dispatch(h)
      PROVE  IInv'
    <2>1. CASE UpstreamAccepts(h) \/ RecordThread(h) \/ Deliver(h)
        BY <2>1, UpstreamAcceptsStep, RecordThreadStep, DeliverStep
    <2>2. CASE UpstreamMismatch(h) \/ UpstreamFails(h) \/ CutStream(h) \/ LoseClient(h)
        <3>1. Answer(h) /\ UNCHANGED <<stores, upstream, history>>
            BY <2>2 DEF UpstreamMismatch, UpstreamFails, CutStream, LoseClient
        <3> QED BY <3>1, AnswerOnlyStep
    <2> QED BY <1>2, <2>1, <2>2 DEF Dispatch
<1>3. CASE Tick
    BY <1>3, TickStep
<1>4. CASE Restart
    BY <1>4, RestartStep
<1>5. CASE UNCHANGED vars
    BY <1>5 DEF vars, stores, history, IInv, TypeOK, UpstreamOK, PinsOK, HandlersOK
<1> QED BY <1>1, <1>2, <1>3, <1>4, <1>5 DEF Next

\* The inductive invariant holds in every reachable state.
THEOREM InvariantTheorem == Spec => []IInv
BY InitIInv, NextIInv, PTL DEF Spec

\* Every store stays a bounded store of its own entries, and every request in
\* flight is one the handlers can be serving.
THEOREM TypeTheorem == Spec => []TypeOK
<1>1. IInv => TypeOK
    BY DEF IInv
<1> QED BY <1>1, InvariantTheorem, PTL

\* The Thread map never says a Thread is on another model than upstream does.
THEOREM PinIsThreadModelTheorem == Spec => []PinIsThreadModel
<1>1. IInv => PinIsThreadModel
    BY NoneAssumption DEF IInv, PinsOK, PinOK, PinIsThreadModel
<1> QED BY <1>1, InvariantTheorem, PTL

\* A continuation that found its pin is sent on its Thread's model.
THEOREM PinnedNeverMismatchedTheorem == Spec => []PinnedNeverMismatched
<1>1. IInv => PinnedNeverMismatched
    BY DEF IInv, HandlersOK, RequestOK, PinnedNeverMismatched
<1> QED BY <1>1, InvariantTheorem, PTL

\* A continuation that found its pin keeps its Thread's long-context window.
THEOREM WindowKeptTheorem == Spec => []WindowKept
<1>1. ASSUME IInv PROVE WindowKept
    <2> SUFFICES ASSUME NEW h \in Handlers, handlers[h].phase = "send",
                        handlers[h].pin # None, upstream[handlers[h].prev].wide
                 PROVE  Sent(handlers[h]).wide
        BY DEF WindowKept
    <2>1. PICK r : r = handlers[h]
        OBVIOUS
    <2>2. /\ r.prev \in Ids /\ upstream[r.prev] \in UpstreamMessages
          /\ upstream[r.prev].model = Resolve[r.model] /\ r.beta
        BY <1>1, <2>1 DEF IInv, HandlersOK, RequestOK
    <2>3. upstream[r.prev].model \in WideModels
        BY <1>1, <2>1, <2>2 DEF IInv, UpstreamOK
    <2> QED BY <2>1, <2>2, <2>3 DEF Sent
<1> QED BY <1>1, InvariantTheorem, PTL

\* No continuation of a Thread in the long-context window is answered with the
\* local 400.
THEOREM LongThreadNeverRefusedTheorem == Spec => []LongThreadNeverRefused
<1>1. IInv => LongThreadNeverRefused
    BY DEF IInv, HandlersOK, RequestOK, PinOK, LongThreadNeverRefused
<1> QED BY <1>1, InvariantTheorem, PTL

-----------------------------------------------------------------------------
(***************************************************************************)
(* The promises.  A promise is behind its handoff as long as few enough    *)
(* prompts are newer: the order of the store is what makes this inductive. *)
(***************************************************************************)

PromiseOK(p, store) ==
    /\ p.entry.left > 0 /\ IsFiniteSet(p.newer)
    /\ OnlyNewer(store, p.entry, p.newer) \/ Cardinality(p.newer) >= MaxEntries

PromisesOK ==
    /\ \A p \in promised : PromiseOK(p, handoffs)
    /\ HandoffWasPromised

\* A step that leaves the handoffs alone.
LEMMA SamePromises ==
    ASSUME PromisesOK, UNCHANGED <<handoffs, promised>>
    PROVE  PromisesOK'
BY DEF PromisesOK, HandoffWasPromised

\* What is left when one prompt's handoff and promise go.
LEMMA ForgetPrompt ==
    ASSUME TypeOK, PromisesOK, NEW k, handoffs' = Discard(handoffs, k),
           promised' = Unrouted(k)
    PROVE  PromisesOK'
<1>1. IsStore(handoffs, Handoffs)
    BY DEF TypeOK
<1>2. Entries(handoffs') = {e \in Entries(handoffs) : e.key # k}
    BY <1>1, DiscardStore
<1>3. ASSUME NEW p \in promised' PROVE PromiseOK(p, handoffs')
    <2>1. p \in promised /\ p.entry.key # k /\ PromiseOK(p, handoffs)
        BY <1>3 DEF Unrouted, PromisesOK
    <2>2. OnlyNewer(handoffs, p.entry, p.newer) => OnlyNewer(handoffs', p.entry, p.newer)
        BY <1>1, <2>1, DiscardOrder
    <2> QED BY <2>1, <2>2 DEF PromiseOK
<1>4. HandoffWasPromised'
    BY <1>2 DEF PromisesOK, HandoffWasPromised, Unrouted
<1> QED BY <1>3, <1>4 DEF PromisesOK

\* An expired handoff has no promise left to break.
LEMMA PeekPromises ==
    ASSUME TypeOK, PromisesOK, NEW h \in Handlers, PeekHandoff(h)
    PROVE  PromisesOK'
<1>1. PICK k : k = KeyOf(handlers[h])
    OBVIOUS
<1>2. handoffs' = DropExpired(k) /\ promised' = promised
    BY <1>1 DEF PeekHandoff, history
<1>3. CASE IsLive(k)
    BY <1>2, <1>3, SamePromises DEF DropExpired
<1>4. CASE ~IsLive(k)
    <2>1. handoffs' = Discard(handoffs, k)
        BY <1>2, <1>4 DEF DropExpired
    <2>2. IsStore(handoffs, Handoffs)
        BY DEF TypeOK
    <2>3. ASSUME NEW p \in promised PROVE PromiseOK(p, handoffs')
        <3>1. PromiseOK(p, handoffs)
            BY DEF PromisesOK
        <3>2. CASE OnlyNewer(handoffs, p.entry, p.newer)
            <4>1. p.entry \in Entries(handoffs)
                BY <3>2 DEF OnlyNewer, Entries
            <4>2. p.entry.key # k
                BY <1>4, <3>1, <4>1 DEF IsLive, PromiseOK
            <4>3. OnlyNewer(handoffs', p.entry, p.newer)
                BY <2>1, <2>2, <3>2, <4>2, DiscardOrder
            <4> QED BY <3>1, <4>3 DEF PromiseOK
        <3>3. CASE ~OnlyNewer(handoffs, p.entry, p.newer)
            BY <3>1, <3>3 DEF PromiseOK
        <3> QED BY <3>2, <3>3
    <2>4. Entries(handoffs') \subseteq Entries(handoffs)
        BY <2>1, <2>2, DiscardStore
    <2>5. HandoffWasPromised'
        BY <1>2, <2>4 DEF PromisesOK, HandoffWasPromised
    <2> QED BY <1>2, <2>3, <2>5 DEF PromisesOK
<1> QED BY <1>3, <1>4

\* A new promise is behind the newest handoff, and pushes the others back by one.
LEMMA StorePromises ==
    ASSUME TypeOK, PromisesOK, NEW r \in Requests, NEW model \in Names,
           StoreHandoff(KeyOf(r), model)
    PROVE  PromisesOK'
<1>1. CASE KeyOf(r) = None
    BY <1>1, SamePromises DEF StoreHandoff
<1>2. CASE KeyOf(r) # None
    <2>1. PICK k, e : k = KeyOf(r) /\ e = [key |-> k, model |-> model, left |-> Ttl]
        OBVIOUS
    <2>2. k \in HandoffKeys
        BY <1>2, <2>1 DEF KeyOf, HandoffKey, HandoffKeys, SessionKeys, Requests
    <2>3. e \in Handoffs /\ e.key = k /\ e.left > 0
        BY <2>1, <2>2, ThreadRoutingAssumption DEF Handoffs
    <2>4. handoffs' = Put(handoffs, e)
        BY <1>2, <2>1 DEF StoreHandoff
    <2>5. promised' = {Promise(p.entry, p.newer \cup {k}) : p \in Unrouted(k)}
                          \cup {Promise(e, {})}
        BY <1>2, <2>1 DEF StoreHandoff
    <2>6. IsStore(handoffs, Handoffs)
        BY DEF TypeOK
    <2>7. PromiseOK(Promise(e, {}), handoffs')
        BY <2>3, <2>4, <2>6, PutOrder, FS_EmptySet DEF PromiseOK, Promise
    <2>8. ASSUME NEW p \in Unrouted(k)
          PROVE  PromiseOK(Promise(p.entry, p.newer \cup {k}), handoffs')
        <3>1. p.entry.key # k /\ PromiseOK(p, handoffs)
            BY DEF Unrouted, PromisesOK
        <3>2. IsFiniteSet(p.newer \cup {k})
            BY <3>1, FS_AddElement DEF PromiseOK
        <3>3. CASE OnlyNewer(handoffs, p.entry, p.newer)
            <4>1. \/ OnlyNewer(handoffs', p.entry, p.newer \cup {k})
                  \/ Cardinality(p.newer \cup {k}) >= MaxEntries
                BY <2>3, <2>4, <2>6, <3>1, <3>3, PutOrder DEF PromiseOK
            <4> QED BY <3>1, <3>2, <4>1 DEF PromiseOK, Promise
        <3>4. CASE Cardinality(p.newer) >= MaxEntries
            <4>1. Cardinality(p.newer) <= Cardinality(p.newer \cup {k})
                BY <3>2, FS_Subset
            <4>2. Cardinality(p.newer) \in Nat /\ Cardinality(p.newer \cup {k}) \in Nat
                BY <3>1, <3>2, FS_CardinalityType DEF PromiseOK
            <4>3. Cardinality(p.newer \cup {k}) >= MaxEntries
                BY <3>4, <4>1, <4>2, MaxEntriesAssumption
            <4> QED BY <3>1, <3>2, <4>3 DEF PromiseOK, Promise
        <3> QED BY <3>1, <3>3, <3>4 DEF PromiseOK
    <2>9. HandoffWasPromised'
        <3> SUFFICES ASSUME NEW f \in Entries(handoffs'), f.left > 0
                     PROVE  \E p \in promised' : p.entry = f
            BY DEF HandoffWasPromised
        <3>1. CASE f = e
            <4>1. Promise(e, {}) \in promised'
                BY <2>5
            <4>2. Promise(e, {}).entry = e
                BY DEF Promise
            <4> QED BY <3>1, <4>1, <4>2
        <3>2. CASE f # e
            <4>1. f \in Entries(handoffs) /\ f.key # k
                BY <2>3, <2>4, <2>6, <3>2, PutStore
            <4>2. PICK p \in promised : p.entry = f
                BY <4>1 DEF PromisesOK, HandoffWasPromised
            <4>3. p \in Unrouted(k)
                BY <4>1, <4>2 DEF Unrouted
            <4>4. Promise(p.entry, p.newer \cup {k}) \in promised'
                BY <2>5, <4>3
            <4>5. Promise(p.entry, p.newer \cup {k}).entry = f
                BY <4>2 DEF Promise
            <4> QED BY <4>4, <4>5
        <3> QED BY <3>1, <3>2
    <2> QED BY <2>5, <2>7, <2>8, <2>9 DEF PromisesOK
<1> QED BY <1>1, <1>2

LEMMA ClassifyPromises ==
    ASSUME TypeOK, PromisesOK, NEW h \in Handlers, Classify(h)
    PROVE  PromisesOK'
<1>1. handlers[h] \in Requests /\ LongName \in Names
    BY ThreadRoutingAssumption DEF TypeOK
<1>2. ASSUME NEW model \in Names, NEW beta \in BOOLEAN, Reroute(h, model, beta)
      PROVE  PromisesOK'
    <2>1. PICK r : r = [handlers[h] EXCEPT !.beta = beta]
        OBVIOUS
    <2>2. r \in Requests
        BY <1>1, <2>1 DEF Requests
    <2>3. UNCHANGED <<handoffs, promised>> \/ StoreHandoff(KeyOf(r), model)
        BY <1>2, <2>1 DEF Reroute
    <2> QED BY <2>2, <2>3, SamePromises, StorePromises
<1>3. handlers[h].beta \in BOOLEAN
    BY <1>1 DEF Requests
<1>4. FailClosed(h) => PromisesOK'
    BY SamePromises DEF FailClosed
<1> QED BY <1>1, <1>2, <1>3, <1>4 DEF Classify

\* Every handoff and every promise ages together.
LEMMA TickPromises ==
    ASSUME TypeOK, PromisesOK, Tick
    PROVE  PromisesOK'
<1> DEFINE Aged(e) == [e EXCEPT !.left = @ - 1]
<1>1. /\ handoffs \in Seq(Handoffs) /\ DOMAIN handoffs = 1..Len(handoffs)
      /\ \A i \in DOMAIN handoffs : handoffs[i] \in Handoffs
    BY LenProperties, ElementOfSeq DEF TypeOK, IsStore
<1>2. /\ DOMAIN handoffs' = DOMAIN handoffs
      /\ \A i \in DOMAIN handoffs :
            handoffs'[i] = [handoffs[i] EXCEPT !.left = IF @ > 0 THEN @ - 1 ELSE 0]
    BY DEF Tick
<1>3. \A e \in Handoffs :
          /\ Aged(e).key = e.key /\ Aged(e).left = e.left - 1
          /\ e.left > 0 => Aged(e) = [e EXCEPT !.left = IF @ > 0 THEN @ - 1 ELSE 0]
          /\ [e EXCEPT !.left = IF @ > 0 THEN @ - 1 ELSE 0].key = e.key
          /\ e.left = 0 => [e EXCEPT !.left = IF @ > 0 THEN @ - 1 ELSE 0].left = 0
          /\ e.left \in Nat
    BY ThreadRoutingAssumption DEF Handoffs
<1>4. promised' = {Promise(Aged(p.entry), p.newer) : p \in {q \in promised : q.entry.left > 1}}
    BY DEF Tick
<1> HIDE DEF Aged
<1>5. ASSUME NEW p \in promised, p.entry.left > 1
      PROVE  PromiseOK(Promise(Aged(p.entry), p.newer), handoffs')
    <2>1. PromiseOK(p, handoffs) /\ p.entry \in Handoffs
        BY DEF PromisesOK, TypeOK, Promises
    <2>2. Aged(p.entry).left > 0
        BY <1>3, <1>5, <2>1
    <2>3. ASSUME OnlyNewer(handoffs, p.entry, p.newer)
          PROVE  OnlyNewer(handoffs', Aged(p.entry), p.newer)
        <3>1. PICK i \in DOMAIN handoffs :
                  /\ handoffs[i] = p.entry
                  /\ \A j \in DOMAIN handoffs : j > i => handoffs[j].key \in p.newer
            BY <2>3 DEF OnlyNewer
        <3>2. handoffs'[i] = Aged(p.entry)
            BY <1>2, <1>3, <2>1, <3>1 DEF PromiseOK
        <3>3. \A j \in DOMAIN handoffs : handoffs'[j].key = handoffs[j].key
            BY <1>1, <1>2, <1>3
        <3> QED BY <1>2, <3>1, <3>2, <3>3 DEF OnlyNewer
    <2> QED BY <2>1, <2>2, <2>3 DEF PromiseOK, Promise
<1>6. HandoffWasPromised'
    <2> SUFFICES ASSUME NEW f \in Entries(handoffs'), f.left > 0
                 PROVE  \E p \in promised' : p.entry = f
        BY DEF HandoffWasPromised
    <2>1. PICK i \in DOMAIN handoffs : f = handoffs'[i]
        BY <1>2 DEF Entries
    <2>2. PICK e : e = handoffs[i]
        OBVIOUS
    <2>3. e \in Handoffs /\ e \in Entries(handoffs)
        BY <1>1, <2>2 DEF Entries
    <2>4. f = [e EXCEPT !.left = IF @ > 0 THEN @ - 1 ELSE 0]
        BY <1>2, <2>1, <2>2
    <2>5. e.left > 0
        BY <1>3, <2>3, <2>4
    <2>6. f = Aged(e) /\ e.left > 1
        BY <1>3, <2>3, <2>4, <2>5
    <2>7. PICK p \in promised : p.entry = e
        BY <2>3, <2>5 DEF PromisesOK, HandoffWasPromised
    <2>8. Promise(Aged(p.entry), p.newer) \in promised'
        BY <1>4, <2>6, <2>7
    <2>9. Promise(Aged(p.entry), p.newer).entry = f
        BY <2>6, <2>7 DEF Promise
    <2> QED BY <2>8, <2>9
<1> QED BY <1>4, <1>5, <1>6 DEF PromisesOK

LEMMA NextPromises == IInv /\ PromisesOK /\ [Next]_vars => PromisesOK'
<1> SUFFICES ASSUME TypeOK, PromisesOK, [Next]_vars PROVE PromisesOK'
    BY DEF IInv
<1>1. ASSUME NEW h \in Handlers, Route(h)
      PROVE  PromisesOK'
    <2>1. CASE RouteReplay(h)
        BY <2>1, ForgetPrompt DEF RouteReplay, TakeHandoff
    <2>2. CASE ~(RouteReplay(h) \/ PeekHandoff(h) \/ Classify(h))
        <3>1. UNCHANGED <<handoffs, promised>>
            BY <1>1, <2>2 DEF Route, RouteCreate, PassMonitor, LookupPin, SendReclassified,
                              LastThreadModel, stores, history
        <3> QED BY <3>1, SamePromises
    <2> QED BY <2>1, <2>2, PeekPromises, ClassifyPromises
<1>2. ASSUME NEW h \in Handlers, Dispatch(h)
      PROVE  PromisesOK'
    <2>1. UNCHANGED <<handoffs, promised>>
        BY <1>2 DEF Dispatch, UpstreamAccepts, UpstreamMismatch, UpstreamFails, CutStream,
                    RecordThread, Deliver, LoseClient, stores, history
    <2> QED BY <2>1, SamePromises
<1>3. CASE Restart
    BY <1>3, EmptyStore DEF Restart, PromisesOK, HandoffWasPromised
<1>4. CASE UNCHANGED vars
    BY <1>4, SamePromises DEF vars, stores, history
<1> QED BY <1>1, <1>2, <1>3, <1>4, TickPromises DEF Next

LEMMA PromisesInvariant == Spec => []PromisesOK
<1>1. Init => PromisesOK
    BY EmptyStore DEF Init, PromisesOK, HandoffWasPromised
<1> QED BY <1>1, InvariantTheorem, NextPromises, PTL DEF Spec

\* No handoff outlives its promise: a live entry is for a prompt whose client was told
\* to replay and has not been routed since, with the model chosen then.
THEOREM HandoffWasPromisedTheorem == Spec => []HandoffWasPromised
<1>1. PromisesOK => HandoffWasPromised
    BY DEF PromisesOK
<1> QED BY <1>1, PromisesInvariant, PTL

\* A client told to replay finds its handoff until it expires, unless a replay took it
\* or MAX_ENTRIES other prompts were told to replay since, for every MAX_ENTRIES.
THEOREM PromiseKeptTheorem == Spec => []PromiseKept
<1>1. PromisesOK => PromiseKept
    BY DEF PromisesOK, PromiseOK, PromiseKept, OnlyNewer, Entries
<1> QED BY <1>1, PromisesInvariant, PTL

-----------------------------------------------------------------------------
(***************************************************************************)
(* The pins.  The Thread map holds the newest records, in their order.     *)
(***************************************************************************)

InRecorded(id) == \E i \in DOMAIN recorded : recorded[i] = id

\* The keys of the Thread map are the newest ids of record_thread.
PinsNewest ==
    /\ Len(threads) = Len(recorded) \/ Len(threads) = MaxEntries
    /\ Len(threads) <= Len(recorded)
    /\ \A i \in 1..Len(threads) :
          threads[i].key = recorded[Len(recorded) - Len(threads) + i]

\* An id is recorded once upstream has made it, by the one request it answers.
IdsOK ==
    /\ \A id \in Ids : InRecorded(id) => upstream[id] # None
    /\ \A h \in Handlers : handlers[h].phase = "stream" => ~InRecorded(handlers[h].id)
    /\ \A g, h \in Handlers :
          /\ handlers[g].phase = "stream" /\ handlers[h].phase = "stream"
          /\ handlers[g].id = handlers[h].id
          => g = h
    /\ \A h \in Handlers : handlers[h].phase = "recorded" => InRecorded(handlers[h].id)
    /\ \A id \in delivered : InRecorded(id)

RecordsOK == PinsNewest /\ IdsOK

\* A step that neither records nor starts a message.
LEMMA SameRecords ==
    ASSUME TypeOK, RecordsOK, NEW h \in Handlers, NEW r,
           handlers' = [handlers EXCEPT ![h] = r], r.phase \notin {"stream", "recorded"},
           UNCHANGED <<threads, upstream, recorded>>,
           \A id \in delivered' : InRecorded(id)
    PROVE  RecordsOK'
<1>1. /\ handlers'[h] = r
      /\ \A g \in Handlers : g # h => handlers'[g] = handlers[g]
    BY DEF TypeOK
<1>2. PinsNewest'
    BY DEF RecordsOK, PinsNewest
<1>3. IdsOK'
    BY <1>1 DEF RecordsOK, IdsOK, InRecorded
<1> QED BY <1>2, <1>3 DEF RecordsOK

\* The requests that routing makes are not yet answered.
LEMMA RouteRecords ==
    ASSUME IInv, RecordsOK, NEW h \in Handlers, Route(h)
    PROVE  RecordsOK'
<1>1. UNCHANGED <<threads, upstream, recorded, delivered>>
    BY DEF Route, RouteCreate, PassMonitor, LookupPin, PeekHandoff, Classify,
           SendReclassified, RouteReplay, LastThreadModel, stores, history
<1>2. \A q \in Requests : \A m : Sending(q, m).phase = "send"
    BY DEF Sending, Requests
<1>3. \A q \in Requests : Floored(q).phase = "send"
    BY FlooredType
<1>4. \A q \in Requests : \A pin : Pinned(q, pin).phase = "send"
    <2> SUFFICES ASSUME NEW q \in Requests, NEW pin PROVE Pinned(q, pin).phase = "send"
        OBVIOUS
    <2>1. PICK s : s = Sending(q, pin.model)
        OBVIOUS
    <2>2. s.phase = "send"
        BY <1>2, <2>1
    <2>3. "phase" \in DOMAIN s
        BY <2>1 DEF Sending, Requests
    <2> QED BY <2>1, <2>2, <2>3 DEF Pinned
<1>5. handlers[h] \in Requests
    BY DEF IInv, TypeOK
<1>6. PICK r : Become(h, r) /\ r.phase \notin {"stream", "recorded"}
    <2>1. CASE RouteCreate(h)
        <3>1. PICK session \in Sessions, m \in Names, beta \in ClientBetas :
                  LET r == Incoming(session, "other", None, m, beta) IN
                  Become(h, Sending(r, m)) \/ Become(h, Floored(r))
            BY <2>1 DEF RouteCreate
        <3>2. Incoming(session, "other", None, m, beta) \in Requests
            BY IncomingType, ThreadRoutingAssumption DEF Contents
        <3> QED BY <1>2, <1>3, <3>1, <3>2
    <2>2. CASE PassMonitor(h)
        <3>1. PICK session \in Sessions, m \in Names, beta \in ClientBetas,
                   prev \in {i \in Ids : upstream[i] # None} :
                      Become(h, Sending(Incoming(session, "other", prev, m, beta), m))
            BY <2>2 DEF PassMonitor
        <3>2. Incoming(session, "other", prev, m, beta) \in Requests
            BY IncomingType, ThreadRoutingAssumption DEF Contents
        <3> QED BY <1>2, <3>1, <3>2
    <2>3. CASE LookupPin(h)
        <3>1. PICK session \in Sessions, content \in Contents, m \in Names,
                   beta \in ClientBetas, prev \in {i \in Ids : upstream[i] # None} :
                      Become(h, Looked(Incoming(session, content, prev, m, beta)))
            BY <2>3 DEF LookupPin
        <3>2. PICK r : r = Incoming(session, content, prev, m, beta)
            OBVIOUS
        <3>3. r \in Requests
            BY <3>2, IncomingType, ThreadRoutingAssumption
        <3>4. Looked(r).phase \in {"send", "peek"}
            <4>1. PICK pin : pin = EntryOf(threads, r.prev)
                OBVIOUS
            <4>2. CASE r.prev \in KeysOf(threads)
                <5>1. pin \in ThreadPins
                    BY <4>1, <4>2, EntryOfProperties, EntriesInSet DEF IInv, TypeOK, IsStore
                <5>2. PICK s, t : s = PinLong(r, pin) /\ t = Pinned(r, pin)
                    OBVIOUS
                <5>3. s.phase = "send"
                    BY <3>3, <5>1, <5>2, PinLongType
                <5>4. t.phase = "send"
                    BY <3>3, <5>1, <5>2, PinnedType
                <5>5. [r EXCEPT !.phase = "peek", !.pin = pin, !.model = pin.model].phase
                          = "peek"
                    BY <3>3 DEF Requests
                <5>6. Looked(r) \in
                         {s, t, [r EXCEPT !.phase = "peek", !.pin = pin, !.model = pin.model]}
                    BY <4>1, <4>2, <5>2 DEF Looked
                <5> QED BY <5>3, <5>4, <5>5, <5>6
            <4>3. CASE r.prev \notin KeysOf(threads)
                BY <1>2, <3>3, <4>3 DEF Looked
            <4> QED BY <4>2, <4>3
        <3> QED BY <3>1, <3>2, <3>4
    <2>4. CASE PeekHandoff(h)
        <3>1. PICK p \in {"refuse", "classify"} : Become(h, [handlers[h] EXCEPT !.phase = p])
            BY <2>4 DEF PeekHandoff
        <3>2. [handlers[h] EXCEPT !.phase = p].phase = p
            BY <1>5 DEF Requests
        <3> QED BY <3>1, <3>2
    <2>5. CASE Classify(h)
        <3>1. PICK q : /\ q \in Requests
                       /\ \/ Become(h, Pinned(q, q.pin))
                          \/ Become(h, [q EXCEPT !.phase = "refuse"])
            <4>1. \A beta \in BOOLEAN : [handlers[h] EXCEPT !.beta = beta] \in Requests
                BY <1>5 DEF Requests
            <4>2. handlers[h].beta \in BOOLEAN
                BY <1>5 DEF Requests
            <4>3. ASSUME NEW m, NEW beta \in BOOLEAN, Reroute(h, m, beta)
                  PROVE  \E q \in Requests : \/ Become(h, Pinned(q, q.pin))
                                             \/ Become(h, [q EXCEPT !.phase = "refuse"])
                BY <4>1, <4>3 DEF Reroute
            <4> QED BY <1>5, <2>5, <4>2, <4>3 DEF Classify, FailClosed
        <3>2. [q EXCEPT !.phase = "refuse"].phase = "refuse"
            BY <3>1 DEF Requests
        <3> QED BY <1>4, <3>1, <3>2
    <2>6. CASE SendReclassified(h)
        BY <2>6 DEF SendReclassified, Answer, Idle
    <2>7. CASE RouteReplay(h)
        <3>1. PICK session \in Sessions, content \in Contents, m \in Names,
                   beta \in ClientBetas :
                  LET r == Incoming(session, content, None, m, beta) IN
                  \/ Become(h, Floored(r))
                  \/ \E n : Become(h, Sending(r, n))
                  \/ Become(h, [r EXCEPT !.phase = "last"])
            BY <2>7 DEF RouteReplay
        <3>2. PICK r : r = Incoming(session, content, None, m, beta)
            OBVIOUS
        <3>3. r \in Requests
            BY <3>2, IncomingType, ThreadRoutingAssumption
        <3>4. [r EXCEPT !.phase = "last"].phase = "last"
            BY <3>3 DEF Requests
        <3> QED BY <1>2, <1>3, <3>1, <3>2, <3>3, <3>4
    <2>8. CASE LastThreadModel(h)
        <3>1. PICK n : Become(h, Sending(handlers[h], n))
            BY <2>8 DEF LastThreadModel
        <3> QED BY <1>2, <1>5, <3>1
    <2> QED BY <2>1, <2>2, <2>3, <2>4, <2>5, <2>6, <2>7, <2>8 DEF Route
<1>7. \A id \in delivered' : InRecorded(id)
    BY <1>1 DEF RecordsOK, IdsOK
<1> QED BY <1>1, <1>6, <1>7, SameRecords DEF IInv, Become

\* The id upstream makes is new to every request and every record.
LEMMA AcceptRecords ==
    ASSUME IInv, RecordsOK, NEW h \in Handlers, UpstreamAccepts(h)
    PROVE  RecordsOK'
<1>1. PICK i \in Ids :
          /\ upstream[i] = None
          /\ upstream' = [upstream EXCEPT ![i] = Sent(handlers[h])]
          /\ Become(h, [handlers[h] EXCEPT !.phase = "stream", !.id = i, !.prev = None,
                                           !.pin = None])
    BY DEF UpstreamAccepts
<1>2. PICK s : s = [handlers[h] EXCEPT !.phase = "stream", !.id = i, !.prev = None,
                                      !.pin = None]
    OBVIOUS
<1>3. s.phase = "stream" /\ s.id = i
    BY <1>2 DEF IInv, TypeOK, Requests
<1>4. /\ handlers'[h] = s
      /\ \A g \in Handlers : g # h => handlers'[g] = handlers[g]
    BY <1>1, <1>2 DEF IInv, TypeOK, Become
<1>5. UNCHANGED <<threads, recorded, delivered>>
    BY DEF UpstreamAccepts, stores, history
<1>6. ~InRecorded(i)
    BY <1>1 DEF RecordsOK, IdsOK
<1>7. \A id \in Ids : id # i => upstream'[id] = upstream[id]
    BY <1>1 DEF IInv, TypeOK
<1>8. \A g \in Handlers : g # h /\ handlers[g].phase = "stream" => handlers[g].id # i
    BY <1>1, NoneAssumption DEF IInv, HandlersOK, RequestOK
<1>9. IdsOK'
    <2>1. \A id : InRecorded(id)' <=> InRecorded(id)
        BY <1>5 DEF InRecorded
    <2>2. \A id \in Ids : InRecorded(id) => upstream'[id] # None
        BY <1>6, <1>7 DEF RecordsOK, IdsOK
    <2> QED BY <1>3, <1>4, <1>5, <1>6, <1>8, <2>1, <2>2 DEF RecordsOK, IdsOK
<1>10. PinsNewest'
    BY <1>5 DEF RecordsOK, PinsNewest
<1> QED BY <1>9, <1>10 DEF RecordsOK

\* The new record is the newest of the Thread map, and evicts the oldest.
LEMMA RecordRecords ==
    ASSUME IInv, RecordsOK, NEW h \in Handlers, RecordThread(h)
    PROVE  RecordsOK'
<1>1. PICK r, e : /\ r = handlers[h]
                  /\ e = [key |-> r.id, model |-> r.model, long |-> r.beta]
    OBVIOUS
<1>2. /\ r \in Requests /\ r.phase = "stream" /\ r.id \in Ids
      /\ upstream[r.id] \in UpstreamMessages /\ ~InRecorded(r.id)
    BY <1>1 DEF RecordThread, IInv, TypeOK, HandlersOK, RequestOK, RecordsOK, IdsOK
<1>3. /\ threads' = Put(threads, e) /\ recorded' = Append(recorded, r.id)
      /\ handlers' = [handlers EXCEPT ![h] = [Idle EXCEPT !.phase = "recorded", !.id = r.id]]
      /\ UNCHANGED <<upstream, delivered>>
    BY <1>1 DEF RecordThread, Become
<1>4. e \in ThreadPins /\ e.key = r.id
    BY <1>1, <1>2 DEF ThreadPins, Requests
<1>5. /\ recorded \in Seq(Ids) /\ Len(recorded) \in Nat /\ DOMAIN recorded = 1..Len(recorded)
      /\ threads \in Seq(ThreadPins) /\ Len(threads) \in Nat
      /\ DOMAIN threads = 1..Len(threads) /\ Len(threads) <= MaxEntries
    BY LenProperties DEF IInv, TypeOK, IsStore
<1>6. /\ Len(recorded') = Len(recorded) + 1 /\ DOMAIN recorded' = 1..(Len(recorded) + 1)
      /\ \A i \in 1..Len(recorded) : recorded'[i] = recorded[i]
      /\ recorded'[Len(recorded) + 1] = r.id
    BY <1>2, <1>3, <1>5, AppendProperties, LenProperties
<1>7. /\ Len(threads) = Len(recorded) \/ Len(threads) = MaxEntries
      /\ Len(threads) <= Len(recorded)
      /\ \A i \in 1..Len(threads) :
            threads[i].key = recorded[Len(recorded) - Len(threads) + i]
    BY DEF RecordsOK, PinsNewest
<1>8. PinsNewest'
    <2>1. r.id \notin KeysOf(threads)
        <3>1. ASSUME NEW i \in 1..Len(threads) PROVE threads[i].key # r.id
            <4>1. Len(recorded) - Len(threads) + i \in 1..Len(recorded)
                <5>1. /\ Len(recorded) \in Nat /\ Len(threads) \in Nat
                      /\ Len(threads) <= Len(recorded)
                    BY <1>5, <1>7
                <5> QED BY <5>1
            <4>2. threads[i].key = recorded[Len(recorded) - Len(threads) + i]
                BY <1>7
            <4> QED BY <1>2, <1>5, <4>1, <4>2 DEF InRecorded
        <3> QED BY <1>5, <3>1 DEF KeysOf, Entries
    <2>2. CASE Len(threads) >= MaxEntries
        <3>1. PICK t : t = Tail(threads)
            OBVIOUS
        <3>2. Len(threads) = MaxEntries
            <4>1. Len(threads) \in Nat /\ MaxEntries \in Nat /\ Len(threads) <= MaxEntries
                BY <1>5, MaxEntriesAssumption
            <4> QED BY <2>2, <4>1
        <3>3. threads # <<>>
            BY <1>5, <3>2, MaxEntriesAssumption
        <3>4. /\ t \in Seq(ThreadPins) /\ Len(t) = MaxEntries - 1
              /\ \A i \in 1..(MaxEntries - 1) : t[i] = threads[i + 1]
            BY <1>5, <3>1, <3>2, <3>3, HeadTailProperties
        <3>5. MakeRoom(threads, r.id) = t
            BY <2>1, <2>2, <3>1 DEF MakeRoom
        <3>6. r.id \notin KeysOf(t)
            <4>1. DOMAIN t = 1..(MaxEntries - 1)
                BY <3>4, LenProperties
            <4>2. \A i \in DOMAIN t : i + 1 \in DOMAIN threads /\ t[i] = threads[i + 1]
                BY <1>5, <3>2, <3>4, <4>1, MaxEntriesAssumption
            <4>3. \A i \in DOMAIN threads : threads[i].key # r.id
                BY <2>1 DEF KeysOf, Entries
            <4> QED BY <4>2, <4>3 DEF KeysOf, Entries
        <3>7. threads' = Append(t, e)
            BY <1>3, <1>4, <3>5, <3>6 DEF Put, Discard
        <3>8. /\ Len(threads') = MaxEntries
              /\ \A i \in 1..(MaxEntries - 1) : threads'[i] = threads[i + 1]
              /\ threads'[MaxEntries] = e
            BY <1>4, <3>4, <3>7, AppendProperties, MaxEntriesAssumption
        <3>9. ASSUME NEW i \in 1..MaxEntries
              PROVE  threads'[i].key = recorded'[Len(recorded) + 1 - MaxEntries + i]
            <4>1. CASE i = MaxEntries
                BY <1>4, <1>5, <1>6, <3>8, <4>1, MaxEntriesAssumption
            <4>2. CASE i # MaxEntries
                <5>1. i \in 1..(MaxEntries - 1) /\ i + 1 \in 1..Len(threads)
                    BY <3>2, <4>2, MaxEntriesAssumption
                <5>2. threads'[i].key = recorded[Len(recorded) - MaxEntries + (i + 1)]
                    BY <1>7, <3>2, <3>8, <5>1
                <5>3. /\ Len(recorded) - MaxEntries + (i + 1) \in 1..Len(recorded)
                      /\ Len(recorded) - MaxEntries + (i + 1) = Len(recorded) + 1 - MaxEntries + i
                    BY <1>5, <1>7, <3>2, <5>1, MaxEntriesAssumption
                <5> QED BY <1>6, <5>2, <5>3
            <4> QED BY <4>1, <4>2
        <3>10. Len(threads') <= Len(recorded')
            BY <1>5, <1>6, <1>7, <3>2, <3>8
        <3> QED BY <1>6, <3>8, <3>9, <3>10 DEF PinsNewest
    <2>3. CASE ~(Len(threads) >= MaxEntries)
        <3>1. Len(threads) = Len(recorded)
            BY <1>5, <1>7, <2>3, MaxEntriesAssumption
        <3>2. threads' = Append(threads, e)
            BY <1>3, <1>4, <2>1, <2>3 DEF Put, Discard, MakeRoom
        <3>3. /\ Len(threads') = Len(threads) + 1
              /\ \A i \in 1..Len(threads) : threads'[i] = threads[i]
              /\ threads'[Len(threads) + 1] = e
            BY <1>4, <1>5, <3>2, AppendProperties
        <3>4. ASSUME NEW i \in 1..Len(threads') PROVE threads'[i].key = recorded'[i]
            <4>1. CASE i = Len(threads) + 1
                BY <1>4, <1>6, <3>1, <3>3, <4>1
            <4>2. CASE i # Len(threads) + 1
                <5>1. i \in 1..Len(threads)
                    BY <1>5, <3>3, <4>2
                <5>2. threads[i].key = recorded[i]
                    BY <1>5, <1>7, <3>1, <5>1
                <5> QED BY <1>6, <3>1, <3>3, <5>1, <5>2
            <4> QED BY <4>1, <4>2
        <3>5. \A i \in 1..Len(threads') : Len(recorded') - Len(threads') + i = i
            BY <1>5, <1>6, <3>1, <3>3
        <3>6. Len(threads') = Len(recorded')
            BY <1>6, <3>1, <3>3
        <3> QED BY <1>5, <3>3, <3>4, <3>5, <3>6 DEF PinsNewest
    <2> QED BY <2>2, <2>3
<1>9. \A id : InRecorded(id)' <=> InRecorded(id) \/ id = r.id
    BY <1>5, <1>6 DEF InRecorded
<1>10. PICK s : s = [Idle EXCEPT !.phase = "recorded", !.id = r.id]
    OBVIOUS
<1>11. s.phase = "recorded" /\ s.id = r.id
    BY <1>10 DEF Idle
<1>12. /\ handlers'[h] = s
       /\ \A g \in Handlers : g # h => handlers'[g] = handlers[g]
    BY <1>3, <1>10 DEF IInv, TypeOK
<1>13. IdsOK'
    <2>1. \A g \in Handlers : (handlers[g].phase = "stream" => ~InRecorded(handlers[g].id))'
        BY <1>1, <1>2, <1>9, <1>11, <1>12 DEF RecordsOK, IdsOK
    <2>2. \A id \in Ids : InRecorded(id)' => upstream'[id] # None
        BY <1>2, <1>3, <1>9, NoneAssumption DEF RecordsOK, IdsOK
    <2>3. \A g \in Handlers : (handlers[g].phase = "recorded" => InRecorded(handlers[g].id))'
        BY <1>9, <1>11, <1>12 DEF RecordsOK, IdsOK
    <2>4. \A id \in delivered' : InRecorded(id)'
        BY <1>3, <1>9 DEF RecordsOK, IdsOK
    <2>5. \A g, o \in Handlers :
              /\ handlers'[g].phase = "stream" /\ handlers'[o].phase = "stream"
              /\ handlers'[g].id = handlers'[o].id
              => g = o
        BY <1>11, <1>12 DEF RecordsOK, IdsOK
    <2> QED BY <2>1, <2>2, <2>3, <2>4, <2>5 DEF IdsOK
<1> QED BY <1>8, <1>13 DEF RecordsOK

\* An answer, delivered or not: what is delivered is recorded.
LEMMA AnswerRecords ==
    ASSUME IInv, RecordsOK, NEW h \in Handlers,
           \/ UpstreamMismatch(h) \/ UpstreamFails(h) \/ CutStream(h) \/ Deliver(h)
           \/ LoseClient(h)
    PROVE  RecordsOK'
<1>1. /\ handlers' = [handlers EXCEPT ![h] = Idle]
      /\ UNCHANGED <<threads, upstream, recorded>>
    BY DEF UpstreamMismatch, UpstreamFails, CutStream, Deliver, LoseClient, Answer, Become,
           stores, history
<1>2. Idle.phase \notin {"stream", "recorded"}
    BY DEF Idle
<1>3. \A id \in delivered' : InRecorded(id)
    BY DEF UpstreamMismatch, UpstreamFails, CutStream, Deliver, LoseClient, history,
           RecordsOK, IdsOK
<1> QED BY <1>1, <1>2, <1>3, SameRecords DEF IInv

LEMMA NextRecords == IInv /\ RecordsOK /\ [Next]_vars => RecordsOK'
<1> SUFFICES ASSUME IInv, RecordsOK, [Next]_vars PROVE RecordsOK'
    OBVIOUS
<1>1. ASSUME NEW h \in Handlers, Dispatch(h) PROVE RecordsOK'
    BY <1>1, AcceptRecords, RecordRecords, AnswerRecords DEF Dispatch
<1>2. CASE Restart
    <2>1. threads' = <<>> /\ recorded' = <<>> /\ delivered' = {}
        BY <1>2 DEF Restart
    <2>2. \A h \in Handlers : handlers'[h].phase = "idle"
        BY <1>2 DEF Restart, Idle
    <2>3. IdsOK'
        BY <2>1, <2>2 DEF IdsOK, InRecorded
    <2>4. PinsNewest'
        BY <2>1 DEF PinsNewest
    <2> QED BY <2>3, <2>4 DEF RecordsOK
<1>3. CASE Tick
    BY <1>3 DEF Tick, RecordsOK, PinsNewest, IdsOK, InRecorded
<1>4. CASE UNCHANGED vars
    BY <1>4 DEF vars, stores, history, RecordsOK, PinsNewest, IdsOK, InRecorded
<1> QED BY <1>1, <1>2, <1>3, <1>4, RouteRecords DEF Next

LEMMA RecordsInvariant == Spec => []RecordsOK
<1>1. Init => RecordsOK
    BY DEF Init, Idle, RecordsOK, PinsNewest, IdsOK, InRecorded
<1> QED BY <1>1, InvariantTheorem, NextRecords, PTL DEF Spec

\* The client that has a response in full finds its Thread pinned, whatever other
\* requests record meanwhile, unless MAX_ENTRIES newer messages were recorded.
THEOREM DeliveredIsPinnedTheorem == Spec => []DeliveredIsPinned
<1>1. ASSUME IInv, RecordsOK PROVE DeliveredIsPinned
    <2> SUFFICES ASSUME NEW id \in delivered, id \notin KeysOf(threads)
                 PROVE  \E i \in DOMAIN recorded :
                            recorded[i] = id /\ Len(recorded) - i >= MaxEntries
        BY DEF DeliveredIsPinned
    <2>1. /\ Len(recorded) \in Nat /\ DOMAIN recorded = 1..Len(recorded)
          /\ Len(threads) \in Nat /\ DOMAIN threads = 1..Len(threads)
        BY <1>1, LenProperties DEF IInv, TypeOK, IsStore
    <2>2. PICK i \in 1..Len(recorded) : recorded[i] = id
        BY <1>1, <2>1 DEF RecordsOK, IdsOK, InRecorded
    <2>3. CASE Len(recorded) - i >= Len(threads)
        <3>1. Len(threads) # Len(recorded)
            <4>1. Len(recorded) \in Nat /\ Len(threads) \in Nat /\ i \in Nat \ {0}
                BY <2>1, <2>2
            <4> QED BY <2>3, <4>1
        <3>2. Len(threads) = MaxEntries
            BY <1>1, <3>1 DEF RecordsOK, PinsNewest
        <3> QED BY <2>1, <2>2, <2>3, <3>2
    <2>4. CASE ~(Len(recorded) - i >= Len(threads))
        <3>1. PICK j : j = i - (Len(recorded) - Len(threads))
            OBVIOUS
        <3>2. j \in 1..Len(threads) /\ Len(recorded) - Len(threads) + j = i
            BY <2>1, <2>4, <3>1
        <3>3. threads[j].key = id
            BY <1>1, <2>2, <3>2 DEF RecordsOK, PinsNewest
        <3> QED BY <2>1, <3>2, <3>3 DEF KeysOf, Entries
    <2> QED BY <2>3, <2>4
<1> QED BY <1>1, InvariantTheorem, RecordsInvariant, PTL
=============================================================================
