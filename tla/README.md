# A TLA+ model of anthrouter

anthrouter is a proxy between Claude Code and the Anthropic Messages API. One
handler thread serves each connection (`ThreadingHTTPServer`); it rewrites a request,
chooses the model it goes to, sends it upstream with retries, and relays the answer as
JSON or as a stream of server-sent events. Handler threads share session state, a few
caches, a SQLite database and `config.env`. These modules model the parts in which
threads, upstream, clients and time interact, TLC checks small instances of them, and
TLAPS proves the safety properties for every instance.

Paths below are relative to `src/anthrouter/` unless they say `docs/`.

## 1. The system

| Component | Source | State | Operations | Talks to |
|---|---|---|---|---|
| Session stores | `session_state.py` | six bounded `OrderedDict`s under one lock | `_put`, get, pop; `take_handoff`, `peek_handoff` | every handler thread |
| Thread pinning and replay (ADR-0027, ADR-0033) | `handlers.py`, `session_state.py` | message id -> model and window, last Thread model, handoffs | `_route_continuation`, `_route_replay`, `record_thread`, local 400 | session stores, tier router, upstream |
| Model-tier router | `model_router.py`, `model_tier.py` | tier cache, affirmation sentinel, system-score cache | `route_model`, `_apply_tier_cache` | classifier model (HTTP), session stores |
| Upstream transport | `transport.py`, `http_util.py` | none shared; one call's attempt, body, corrections | `_send_with_retries` | upstream |
| Answer to a message request (ADR-0026, ADR-0032) | `handlers.py`, `transport.py` | one request's stream wrapper, priming thread, commit flag | `_dispatch`, `_send_sse`, `_prime_sse_with_keepalive`, error paths | transport, client, database |
| System-prompt rewriter (ADR-0022) | `caveman_rewrite.py` | memory and file cache, key locks, rejects, worker slots | `rewrite`, `RewriteCache` | rewriter model, disk |
| OAuth usage cache | `oauth_usage.py` | token, usage, backoff, background thread | `get`, the polling loop | usage endpoint |
| Configuration editor (ADR-0005) | `admin.py`, `server.py` | `Handler.config`, `config.env`, `_config_write_lock` | GET/POST `/admin/config` | disk, every later request |
| Configuration parsing | `config.py` | none | `validate_config`, `EDITABLE_FIELDS` | start-up, editor |
| Session switches, context floor | `session_state.py`, `handlers.py`, `model_router.py` | routing switches, a measured floor and ratio per context | `model_routing_enabled`, `record_context`, `size_floor` | tier router, answers |
| Payload transforms | `mapper/`, `model_config.py` | none | `build_body`, `merge_betas`, `resolve_model` | transport |
| Request text, routing summary | `request_text.py`, `model_router.py` | none | `build_routing_summary` | tier router |
| Request database | `db.py` | SQLite file: rows, ref-counted content, events, triggers, schema version | `record_request`, retention, migrations | every handler thread |
| Sanitizer, volatility tracker | `sanitizer.py`, `prompt_volatility.py` | counters per session | strip, observe | handler threads |
| Interception, CONNECT tunnel (ADR-0018) | `interception.py`, `handlers.py` | two sockets and what is buffered in them, TLS contexts | `do_CONNECT`, `splice`, `forward` | client, origin |
| Local commands and replies | `handlers.py` | none of their own | proxy-* commands | session switches |
| Pace and cost arithmetic | `pace.py`, `db.py` | none | pure | admin API |
| Admin read API, web UI | `admin.py`, `ui/` | none | queries | database |
| Start-up, installer, updater | `server.py`, `__main__.py`, scripts | none | once | |

What is hard about it, and what would make each part correct:

- **Threads.** Upstream holds a Thread to the model that made it and refuses a
  continuation on another. So every pin must name the Thread's real model, whoever
  recorded it and whatever ran in between; the long-context window must survive the
  pin; a client told to replay must find the model chosen for it, once. Two requests of
  one session, eviction, expiry, a lost client and a restart all fall between the steps.
- **Tier routing.** The cache is read before a classifier call and written after it,
  the lock can be edited in between, and the call can fail. Only the classifier's answers
  may be cached: neither a failure nor a tier that a floor, a rule, a replay or the lock
  chose. A failure must not route above the lock, nor leave the sentinel held, which would
  keep every later "yes" from being scored.
- **Transport.** Two kinds of retry and two one-time corrections share one attempt
  counter. No refused body may be repeated, no correction lost by the other, no attempt
  left unused while a failure can be retried, and the row must name the last attempt.
- **Answers.** A held 200, keepalives, a priming thread, upstream failure at any event
  and a client that may leave at any moment: one status line, a failure told in the only
  way still open, one generator in one thread, one row.
- **Rewriter.** A bounded pool of calls that may hang, callers that time out, a table of
  locks that is cleaned up, and a cache that outlives the process.
- **Usage cache.** Tokens change while a poll for the old one is under way, and the
  endpoint's Retry-After must be kept.
- **Editor.** A POST validates against a Config it read before it took the lock, then
  writes a file and swaps memory; either may fail or be cut off by a restart.
- **Request database.** DDL commits by itself, so an upgrade can be killed between any two
  statements; ref counts are kept by triggers that some migrations drop and make again; rows
  are recorded, deleted in chunks and their content pruned by any number of threads. Content
  must live as long as a row that stored it and no longer, and nothing but retention may
  delete a row or its events.
- **Context floor.** A measure is recorded after the client has seen the end of the answer,
  in three critical sections, from requests of several kinds: one answer without usage, one
  estimate of another payload, and a context of a million tokens is sent to a model without
  the window.
- **Tunnel.** One thread moves bytes both ways between peers that may send ahead, stop
  reading, half-close or reset: no byte may be lost while both are there, and the thread must
  not be held.

`PROJECT.json` lists each hazard at its line with the properties aimed at it.

## 2. The modules

| Module | What it is | EXTENDS / INSTANCE |
|---|---|---|
| `BoundedStore` | `SessionState`'s `OrderedDict` and `_put`, as operators | |
| `ThreadRouting` | Threads, pins, handoffs, replays | `BoundedStore` |
| `TierRouting` | `route_model` around the tier cache, for one context | `BoundedStore` |
| `Transport` | one call of `_send_with_retries` | |
| `MessageReply` | one answer, from dispatch to the row | `StreamReply` (refinement) |
| `StreamReply` | abstract: what the client of an answer is promised | |
| `CavemanRewriter` | rewriter, cache, locks and pool | |
| `OAuthUsage` | usage cache and its polling thread | |
| `ConfigEditor` | editor, `config.env`, memory, routing switch | |
| `RequestDB` | the request store: upgrade, rows, content, retention | |
| `ContextFloor` | measured floors and ratios, and the size floor they feed | `BoundedStore` |
| `Tunnel` | one intercepted or tunnelled connection | |
| `MCThreadRouting`, `MCTierRouting`, `MCConfigEditor`, `MCRequestDB`, `MCContextFloor` | constants and symmetry for TLC | the module they name |
| `BoundedStoreProofs`, `ThreadRoutingProofs`, `MessageReplyProofs`, `ConfigEditorProofs`, `RequestDBProofs` | theorems | the module they name |
| `TierRoutingProofs` | theorems about what decides a turn's model | `TierRouting`, `ContextFloor` |
| `TransportProofs` | theorems about the two ways bytes go upstream | `Transport`, `Tunnel` |
| `CacheProofs` | theorems about the two caches filled from the network | `CavemanRewriter`, `OAuthUsage` |

`PROJECT.json` "map" gives the source lines of each definition. An action is one
critical section, one file operation, one event of a network call, or one write to a
client: what no other thread can come between. Definitions that start with "Mutant:"
are plausible bugs, used to see that each property can fail; no specification uses them.
Two modules that one proof module extends share no names: `Tunnel`, `ContextFloor` and
`OAuthUsage` have specifications called `TunnelSpec`, `FloorSpec` and `UsageSpec`.

### ThreadRouting

`threads`, `last` and `handoffs` are `_thread_models`, `_last_thread_model` and
`_handoffs`; `handlers` holds each thread's request at the step it has reached;
`upstream` is the environment: the messages upstream made, the model of each and whether
it is in the long window. `recorded`, `delivered` and `promised` are history variables; a
promise is the handoff a client was told to replay for, with the prompts promised since,
which is what tells an eviction that was due from one that was not.
A continuation is looked up (`LookupPin`), meets a live handoff (`PeekHandoff`), is
classified (`Classify`: any answer, the size floor, or none) and is pinned or refused
locally (`SendReclassified`); a replay takes its handoff (`RouteReplay`) or the last
Thread model. `UpstreamAccepts` .. `LoseClient` are the dispatch. A continuation may
name a message still being streamed, since the client reads its id in `message_start`.
`route_model` is here any choice of a model, so what is checked does not depend on the
classifier; `TierRouting` looks inside it. The context floor (a measured size that raises
the model) is one more way to choose `LongName`; `ContextFloor` says when it does.

### TierRouting

One context: a session and its first user message. A turn is a `Kinds` value,
which is all that `build_routing_summary` tells apart for the control flow; a classifier
call is a begin and an end, so two turns overlap. `cache` has the slots of the context,
one per baseline; `inflight` is the context's membership in `_affirmation_inflight`;
a turn keeps the lock it read. `answer` is history: the tier the classifier gave for the
turn that is about to write the cache. Labels have their default targets, with which the
last comparison of a re-scored yes (`AffirmScored`) never keeps the cached tier.

### Transport

`payload` is what a refusal can be about, `body` what the request still carries of it;
`stripped` and `forced` are the two corrections; `sent` records bodies and answers.
Upstream may answer anything to any attempt, and the body of an error may break off while
it is read (`ErrorBodyBreaks`), which the `try` of the loop does not cover. Calls share no
state. `send_message` and `send_message_stream` make one such call; `count_tokens` sends a
request of its own, once, and answers with an estimate when that fails.

### MessageReply and StreamReply

`main` is the handler thread's place in `_dispatch`/`_send_sse`, `primer` the priming
thread, `gen` the stream wrapper. A write to a client that has gone is lost in the
socket's buffer or fails, with a broken pipe or, on an intercepted connection, an SSL
error or timeout that is not in `_CLIENT_DISCONNECT`. The mapping to `StreamReply` reads
the client's view off the wire (`ReplyOf`); a keepalive is a stutter. `StreamReply!Silence`
states the one exception the code has (an upstream reset while a body is read for a client
that asked for no stream, see section 3), so that `KeepsPromise` says exactly how far the promise goes.

### CavemanRewriter

`mem` and `disk` are `RewriteCache`, `keyLocks` and `holder` the lock table,
`slots`, `abandoned` and `finishing` the pool: a call whose caller timed out keeps its
slot until it returns, and a slot is freed by a callback that runs after the result is
visible. The edit language is abstracted to the system that a valid reply makes.

### OAuthUsage

`polled` is the token the loop took before it slept; `remaining` and `gap` count ticks.
`owed` and `gap` are history variables for `RetryAfterKept`.

### ConfigEditor

`admins` holds each editing thread: the Config it read (`base`), what its modal shows
(`seen`), the submission. Four fields stand for the registry: one live flag with a copy in
`SessionState`, the two thresholds `validate_config` orders, and a restart-required
field. `Restart` may come between the write of the file and the swap. How a value is spelled
is abstracted: it is taken to mean the same when it is read back from `config.env`. A boolean
with spaces around it need not, since `_coerce_field` strips them and `_env_bool` does not.

### RequestDB

`version`, `columns` and `triggers` are the schema: `PRAGMA user_version`, the columns added
since the first release, and which hash columns each of the two ref-count triggers counts.
`Migration(v)` is the list of statements of migration `v`; `next` is the one that runs next,
and `Crash` may come before it. Migration 8 opens a transaction and is one action
(`RebuildRequests`). `rows`, `store` and `events` are the three tables; the text index
follows `requests` by its own triggers and is left out. `Init` is a new file, or one any earlier release left with a row in it.
`Record` is the capture of `_prepare` and the transaction of `record_request`; `CheckRetention`
and `StartPass` are the unlocked test and set of `_last_retention_at`; `DeleteChunk` and
`PruneContent` are the two transactions of a pass, either of which may fail (`PassFails`). The
ids are SQLite's: the highest that is left, plus one, so a deleted row's id is used again.
Three hash columns stand for six: those of migration 0, the one of migration 4, the two of
migration 7 (`_capture_opening_system` writes both or none). `rows[id].stored` and
`miscounted` are history variables.

### ContextFloor

`observed` is `_context_obs`; `globalRouting` and `override` are the switches behind
`model_routing_enabled`; a handler's record holds `_ctx_key` and `_route_est` of its request
and what the answer measured. `ReceiveWhole`, `ReceiveReplay` and `ReceiveAside` are the
three ways a request reaches `_route`'s last lines or does not; `Answer` is `message_stop`;
`ReadPrior` and `RecordContext` are the critical sections of `_record_session_context`. A
ratio is a fraction, and `Nearest` is Python's `round`. The estimate's character count is an
input. `_reset_request_state` is the handler's initial state: the class leaves
`protocol_version` at HTTP/1.0, so a connection carries one request (the comment there speaks
of keep-alive, which the server does not do).

### Tunnel

`arriving` and `leaving` are the socket buffers towards the thread and away from it, `Window`
bytes each; `thread.data` is what it holds in its hands. A peer is open, half-closed, gone or
reset. `ReadConnect` lets any number of the bytes sent ahead be in `rfile`'s buffer already,
`Peek` is `take_buffered` before the 200, `Write` is one step of a `sendall`, `Select` and
`Read` are a round of `splice`. Bytes are followed in an opaque tunnel only; of the decrypted
connection the model keeps the status lines. A tunnel ends with the first half-close, as
`splice` does: what the other side still sends is then dropped, and `TunnelFaithful` asks for
all bytes of the side that closed. `tunnel_idle_timeout` is set, as by default; with 0 the
code waits for ever by design, and the listener itself has no timeout before the CONNECT line.
Nor has the `sendall` of the bytes sent ahead (`handlers.py:1014`); it writes to an empty
socket buffer. A connection that breaks or falls silent in the middle of
a forwarded request's body is `BodyBreaks`: `forward` expects only a `ValueError` there, so the
thread ends without an answer to the request inside.

## 3. The runs

Every passing run checks for deadlock except `transport`, `reply` and `tunnel`, which model
one call, one answer and one connection and do end. Type invariants that section 4 proves
for every instance are not run again, but for that of `caveman`.

| Run | Bounds | Distinct states | What it shows |
|---|---|---|---|
| `threads` | 2 handlers, 2 message ids, `MaxEntries` 1, 3 names for 2 models, 1 session (and requests of none), 2 texts, `Ttl` 1, symmetry on handlers, ids and texts | 3,614,541 | pins tell the truth and a pinned continuation is never refused for its model (`PinIsThreadModel`, `PinnedNeverMismatched`, `DeliveredIsPinned`); the window is kept (`WindowKept`, `LongThreadNeverRefused`); a handoff is there while it is promised, and no longer (`HandoffWasPromised`, `PromiseKept`) |
| `transport` | `MAX_RETRIES` 3, as in the code | 28,070 | `RefusalNotRepeated`, `RetriesSpent`, `ReportedIdIsFinal`, `CallEnds` |
| `reply` | 3 events before the last, 2 keepalives | 5,750 | `GeneratorNotShared`, `OneRow`, and the refinement `KeepsPromise` |
| `caveman` | 2 callers, 1 prompt, 2 rewrites, 1 worker | 347,866 | `TypeOK`, `SlotsConserved`, `CacheHoldsAccepted`, `LocksNotLeaked`, `SamePromptUnlessFailed`, `EveryRequestReturns` |
| `oauth` | 2 tokens, base 2, floor 3, cap 6, Retry-After in {none, 0, 5, 9} | 1,149 | `RetryAfterKept`, `OnlyOwnSuccess`, `UsageCatchesUp` |
| `config` | 2 admins, 2 ports, 3 threshold levels, symmetry on both sets | 1,451,120 | `ThresholdsOrdered`, `MemoryMatchesFile`, `RoundTripHarmless` |
| `tier` | 2 handlers, clients ask for haiku or opus, lock off or sonnet, `MaxEntries` 2, symmetry on handlers | 5,217,121 | `SentinelHeld`, `OnlyAnswersCached`, `ReplayCapped`, `AffirmationStands` |
| `database` | 2 threads, 2 contents, 2 row ids, chunks of 1, every version to start from, symmetry on both sets | 1,008,103 | content is kept as long as a row that stored it (`ContentKept`) and reclaimed after (`ContentReclaimed`); an upgrade cut short is made good, but for two migrations (`StartsAgain`); a pass clears what was expired (`PassDrains`); only retention deletes (`OnlyRetentionDeletes`) |
| `floor` | 2 handlers, 2 contexts, room for 1, estimates 1 and 3, inputs 2 and 9, output 1, threshold 6, ratio at most 3 from an estimate of 2, symmetry on both sets | 905,490 | a floor and its ratio are the context's own (`FloorIsOwn`); a large context stays on the long model (`LongStaysLong`) |
| `tunnel` | 2 bytes per socket and direction, 3 bytes from each side | 89,629 | `TunnelFaithful`, `OneReply`, `TunnelEnds` |

Why the bounds are enough to be interesting. Two threads are what every race in this code
needs: the state a thread leaves behind is in the shared stores, not in a third thread.
Room for one entry makes the Thread map evict with two ids and the handoff store with two
texts; which end goes, which matters from two entries on, is proved for every bound
(`PutOrder`, and the theorems that rest on it). The three names make two of one
model, so that `SameModel` and equality of names differ. `Ttl` 1 makes a handoff expire
between its peek and its take. Retry-After is below the floor, between floor and cap, and
above the cap; the floor is above the base interval and the cap above both, as in the
code. Three levels hold one valid and one equal pair of thresholds on each side. A lock
between the two requested models caps one and raises the other. One worker makes callers
meet a full pool, and the single-flight run has two, which that overlap needs. Three events
are a first, a middle and a last; two keepalives are one that commits the 200 and one that
does not. Two rows and chunks of one make a pass take several transactions, a full last chunk
and an id that is used again; two contents are shared between rows and within one. Room for
one context makes the floor store evict; the estimates are below and above
`_RATIO_MIN_BASELINE`, the inputs give a ratio below one, between, and above the cap, and the
threshold is reached by a measure, by a corrected estimate, by both and by neither. Three
bytes against a window of two make a `sendall` block, in both directions at once.

Fairness, where a run has a liveness property:

- `Transport`: the call's next step is taken. Connections have timeouts and sleeps are
  finite. Upstream is free to answer as it likes.
- `MessageReply`: the handler thread and the priming thread run. Reads of upstream time
  out (`DEFAULT_TIMEOUT`), and a client that stays reads what it is sent; it may leave at
  any moment.
- `CavemanRewriter`: each caller's own steps, timeouts included. Nothing is assumed of the
  model: a call may hang for ever.
- `OAuthUsage`: time passes and the polling thread runs. That polls go on succeeding is a
  premise of `UsageCatchesUp`, not an assumption.
- `Tunnel`: the connection's thread runs, its timeouts included (`select`'s, the sockets',
  the handshake's). Nothing is assumed of the peers: they may fall silent at any point.

### Where the code and its documentation disagree

Two runs expect TLC to find the quoted statement violated:

- `caveman_singleflight` (`SingleFlight`): two callers of one prompt inside the model call,
  where `rewrite`'s comment promises a single flight. A waiter's lock is removed from the
  table before the waiter gets it.
- `config_live` (`LiveEditApplies`): `auto_model_routing` is marked as applied immediately,
  but requests read the copy `SessionState` took at start-up.

The models also have these behaviours, which no run of its own shows:

- Content is lost after a failed capture. When `_extract_prompt_capture` fails (a lone
  surrogate does not encode), `_prepare` and `_rewrite_caveman_system` still set the sanitized
  and caveman hashes of the row, without a `prompt_store` entry (only `_capture_opening_system`
  looks first, handlers.py:814). If another row stored that content, the insert counts; if it
  did not yet, the later delete takes away a count that was never added, and retention prunes
  content that a row still references, where `db.py:12` says entries are dropped "once no
  request references them". `RequestDB` keeps such contents in `miscounted`; `ContentKept` and
  `ContentReclaimed` hold of all others.
- Migrations 1 and 2 add columns without looking first. A process killed after one of their
  statements leaves a file that no later start can open ("duplicate column name"); the
  docstring of migration 3 describes the failure its own guard prevents. `StartsAgain` names
  the two.
- A 400 that can be corrected, received on the last attempt, uses up an attempt that is not
  there; the call reports 502, where ADR-0028 says every upstream 4xx keeps its status
  (`Transport`: `StripThinking` or `RewriteSystem`, then `ExitLoop`).
- The body of an error response that breaks off (`transport.py:166` and `:175`) ends the call
  there, with attempts left and with the socket's own exception; the architecture notes say
  of the transport that it "already retries 429s (honoring upstream retry timing) and 5xx
  in-connection" (`docs/agents/architecture.md:9`).
  `Transport`: `ErrorBodyBreaks`, the exception in `RetriesSpent`.
- An upstream connection reset while a body is read on the JSON path is taken for a client disconnect;
  the waiting client gets nothing, where ADR-0032 describes a 502 (`StreamReply!Silence`).
- A malformed label list in a POST raises `SystemExit` in the handler thread and drops the
  connection; ADR-0005 says a bad payload is answered with 400 (`ConfigEditor`:
  `PostMalformed`).
- A chunked reply whose far end breaks off is relayed to an intercepted client without its
  framing, ended by closing the connection: the client cannot tell it from a complete one.
- The volatility tracker stops at 256 values per block, and its comment calls such a block
  proven volatile (`prompt_volatility.py:40`); its ratio is 256 over the requests, which falls
  below the threshold of one half after 512 of them.
- `OAuthUsageCache.get` returns the previous token's usage until the first success for the
  new one; its docstring speaks of the last seen token only.
- An affirmation whose scoring fails goes to the affirmation floor (ADR-0021), not to the
  fail-closed baseline of ADR-0016. `FailureBounded` (section 4) states what holds of both.
- A failed write to an intercepted client on the JSON path records a second row, and a
  client that leaves a stream is recorded as a success. `OneRow` names the first case.
- `should_retry`'s docstring says 5xx is always retried; `RETRYABLE_STATUSES` has four of
  them. `Transport` follows the code ("overloaded").
- ADR-0033 accepts that the same text, sent in another conversation of the session before
  the handoff expires, gets the local 400 as well, and that a second retry after the
  handoff was taken is classified again. `HandoffWasPromised` is stated per prompt for
  that reason.

## 4. The proofs

All theorems hold for every value of the constants that satisfies the named assumptions
of the modules: `MaxEntriesAssumption`, `ThreadRoutingAssumption`, `NoneAssumption`,
`TierRoutingAssumption`, `NoTurnAssumption`, `TransportAssumption`,
`MessageReplyAssumption`, `CavemanRewriterAssumption`, `OAuthUsageAssumption`,
`ConfigEditorAssumption`, `RequestDBAssumption` and `ContextFloorAssumption`. They say that
counts are natural numbers, that `None` and the like are not ordinary values, that
`resolve_model` is a function and that threads and contents are finitely many; TLC evaluates
them in every run. One is a choice of what is modelled: no prompt a client sends is itself a
rewrite (`CavemanRewriterAssumption`), which the rewriter answers with the prompt unchanged.

- **`BoundedStoreProofs`**: `PutStore` (what `_put` returns is a store of at most
  `MAX_ENTRIES` entries with distinct keys, holding the new entry and no other new one),
  from lemmas on `Without`, `Discard`, `MakeRoom` and `Append`; and `PutOrder` (another entry is
  forgotten only when `MAX_ENTRIES` keys are newer), from the order each of them keeps.
- **`ThreadRoutingProofs`**: `TypeTheorem`, `PinIsThreadModelTheorem`,
  `PinnedNeverMismatchedTheorem`, `WindowKeptTheorem`, `LongThreadNeverRefusedTheorem`. The invariant `IInv` is
  `TypeOK` with `UpstreamOK` (a wide message is on a wide model), `PinsOK` (an entry names its
  message's model and is long if the message is wide) and `HandlersOK` (the same of
  the pin a request carries, and of the message a thread is about to record). The properties
  alone are not inductive: they say nothing of a request between its lookup and its
  dispatch, which is where the model could change. `HandoffWasPromisedTheorem` and
  `PromiseKeptTheorem` come from a second invariant, `PromisesOK`: only prompts promised later
  are behind a promise's handoff in the store, or `MaxEntries` of them have been.
  `DeliveredIsPinnedTheorem` comes from a third, `RecordsOK`: the keys of the Thread map are
  the newest ids recorded, in their order, and no two requests answer with one id.
- **`TierRoutingProofs`**: `TypeTheorem`, `SentinelHeldTheorem` and
  `FailureBoundedTheorem`. `IInv` adds `TurnsOK`: a turn that waits to store has a tier
  and no failure, and a failed turn is already bounded. `ReplayCappedTheorem`,
  `AffirmationStandsTheorem` and the action property `OnlyAnswersCachedTheorem` come from
  `TurnsStand`, which says of each place in `route_model` which kinds of turn reach it and
  over which cached tier: a yes is scored only over none or the trivial one, so that no score
  can be below it, and what a turn has to store is its answer. Only `Store` changes the
  cache, by one entry (`StoreInv`). The second part is about
  `ContextFloor`: `FloorIsOwnTheorem` and the action property `LongStaysLongTheorem`.
  `FloorInv` says of each request that its context key and estimate are its own turn's or
  none (`Consistent`), so that what is recorded is the context's (`OwnKept`). For
  `LongStaysLong` it says what the three critical sections leave behind (`LargeKept`): when
  the last answer of a context was large and met no other, either none of the context is
  being recorded and the floor kept is at the threshold, or the large one is the only one
  being recorded. An evicted context keeps nothing, and there the property asks nothing.
- **`TransportProofs`**: `TypeTheorem`, `RefusalNotRepeatedTheorem`, `RetriesSpentTheorem`,
  `ReportedIdIsFinalTheorem`, and the action property `CorrectionsKeptTheorem`. `IInv` adds
  `BodyBuilt` (the body is what `build_body` makes of the payload and `rewrite_forced`, which
  is why neither correction loses the other), `Counted` (the loop's counter is the number of
  answers), `Reported` (whose id `attempt_out` may hold between attempts) and `Corrected`
  (after a refusal, the body waiting to go out is not the refused one). The second part is
  about `Tunnel`: `TunnelFaithfulTheorem` and `OneReplyTheorem`, for any buffer and any number
  of bytes. `TunnelInv` lays the bytes of a side out in order: read by the other side, in
  the socket to it, in the thread's hands, in the socket from it; they are numbered from 1
  without a gap (`Flow`), and are all that was sent unless the side reset the connection
  (`SideOK`). `ThreadInv` says that a tunnel ended by one side has passed all of its bytes on,
  and `StatusInv` which status lines are out at each place of `do_CONNECT`.
- **`MessageReplyProofs`**: `TypeTheorem`, `GeneratorNotSharedTheorem`, `OneRowTheorem` and
  `RefinementTheorem`, which says that every behaviour of the answer satisfies
  `StreamReply!Safety` under the mapping `ReplyOf`: its first state is an initial one, and
  each step is a step of `StreamReply` or a stutter. `IInv` adds `Generator` (what each of
  the two threads and the stream wrapper's own state say of one another) and `Rows`
  (which row is written when); `RInv` adds `Sees` (what the client has been sent at each
  place in the code), which the mapping needs.
- **`CacheProofs`**, first part, about `CavemanRewriter`: `TypeCorrect`,
  `SlotsConservedTheorem`, `CacheHoldsAcceptedTheorem`, `LocksNotLeakedTheorem` and
  `SamePromptTheorem`, for any number of callers, prompts, rewrites and workers. `IInv` adds
  what a caller has at each phase (`StateOK`); that the lock of a key in the table is in the
  hands of a caller that will drop it (`LockInv`); that what a caller is about to put in
  the cache was accepted (`Puts`); and, for the keys no call failed for, `SameInv`. The last
  is the hard one, since two callers may hold two locks of one key (`SingleFlight` fails):
  a caller whose key is not in memory holds the lock that is in the table, so only one of them
  can be on its way to the model (`Working`), and memory, files and what callers were told
  agree. A restart empties memory and may lose files, and the answers that rested on them.
  Second part, about `OAuthUsage`: `UsageTypeTheorem`, `RetryAfterKeptTheorem`,
  `FailureIsVisibleTheorem` and the action property `OnlyOwnSuccessTheorem`. `UsageInv` adds
  `UsagePaced` (what is behind and what is left of the sleep make up the wait that is owed),
  `UsageBackoffKept` (the backoff never falls below its start, so that one failure lifts it
  over the base) and `UsageStarted` (the thread polls for a token some request named).
- **`ConfigEditorProofs`**: `TypeTheorem`, `ThresholdsOrderedTheorem`,
  `MemoryMatchesFileTheorem`, and the action properties `RestartFieldsHeldTheorem` and
  `RoundTripHarmlessTheorem`. `IInv` adds `InStep` (file and memory agree but for the thread
  inside the critical section) and `ThreadOK` (what that thread is about to write was
  validated). `RoundTripHarmless` needs `FreshInv` next to it: what a GET showed is the file
  until another write, also between the GET's two reads, of memory and of the file.
- **`RequestDBProofs`**: `TypeTheorem`, `ContentKeptTheorem`, `ContentReclaimedTheorem`,
  `StartsAgainTheorem`, `PassDrainsTheorem` and the action property
  `OnlyRetentionDeletesTheorem`, for any number of threads, contents and rows and any chunk.
  The heart of `IInv` is that a content outside `miscounted` has, as its count, the number of
  rows that stored it: `ContentKept` and `ContentReclaimed` follow from a cardinality that is
  or is not zero. It is inductive only with what the triggers count at each statement of each
  migration (a row that is recorded or deleted must be counted by both alike, in all of its
  hash columns), so the invariant follows migrations 4 and 7 through their drops and
  re-creations, and says that a process that is up has finished them.

The type invariants, `FailureBounded`, `FailureIsVisible`, `CorrectionsKept` and
`RestartFieldsHeld` were checked by TLC before they were proved, and are now only proved.

Each proof has one lemma per group of actions; the temporal step is by PTL. Every safety
property of a passing run is proved. Only model-checked is what needs fairness: `CallEnds`,
`EveryRequestReturns`, `UsageCatchesUp`, `TunnelEnds`, and of `KeepsPromise` that an answer ends
at all; this prover reaches neither fairness nor ENABLED.

## 5. Not modelled

- **Sanitizer and volatility tracker**: one lock around counters, and pure functions of one
  payload; no step of two threads can come between.
- **Inside TLS**: the server context, the CA bundle and the bytes of a decrypted connection;
  and the spelling of host names, which decides between `Targets`.
- **The system-prompt score cache and the classifier's retries** (`_classify_system_prompt`,
  `_dispatch_classifier_mode`): they decide which tier a classified turn gets and how long
  that takes; `TierRouting` allows every tier and every failure.
- **Time inside a call**: how long retries, Retry-After sleeps and hung classifier calls
  take, against the client's patience. The models keep the order of events only, but for
  `OAuthUsage` and the expiry of handoffs.
- **Text**: classifier prompts and score arithmetic, the edit language of the rewriter,
  header formats, request text extraction, pace and cost arithmetic. They are pure
  functions with unit tests.
- **Admin read API, UI, installer, updater, start-up**: no state that changes while
  requests are served; a start is the `Init` and `Restart` of the modules.

## 6. The plan

The order was: session stores and Threads first (the state every request shares and the
failure a user notices), then the two calls a request makes (`Transport`, `MessageReply`),
then the tier router that decides them, the independent caches and the editor, and then the
store every request ends in (`RequestDB`), the floor every answer leaves (`ContextFloor`) and
the connections that bypass it all (`Tunnel`). Left:

1. `ClassifierRetry`: the classifier's own retries and the cache of system-prompt scores,
   inside `TierRouting`'s classifying phase.
2. The sanitizer's verdicts against the eviction of sessions from the volatility tracker.
3. An abstract specification of the tunnel, two byte streams that may be cut off, which
   `Flow` all but states.

## 7. Running it

    tlc -workers 2 -config ThreadRouting.cfg MCThreadRouting
    tlapm ThreadRoutingProofs.tla

The longest run, `threads`, takes about two and a half minutes; `tier`, `caveman` and `database` about
one.
