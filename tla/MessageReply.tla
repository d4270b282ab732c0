----------------------------- MODULE MessageReply -----------------------------
(***************************************************************************)
(* One dispatched message request, from the upstream call to the answer    *)
(* and the requests row: _dispatch, _usage_sse_wrapper, _send_sse with its *)
(* priming thread, and the error paths of _handle_messages (handlers.py).  *)
(*                                                                         *)
(* An answer is JSON, a stream that commits its 200 at once, or one that   *)
(* holds it (a request with a thread).  The routing decision is made; the  *)
(* pin is ThreadRouting's.  A write to a client that has gone is lost in   *)
(* the socket's buffer or fails.                                           *)
(***************************************************************************)
EXTENDS Naturals, Sequences

CONSTANTS
    MaxChunks,      \* bound: events of an upstream stream before its last
    MaxKeepalives   \* bound: keepalives written for one answer

ASSUME MessageReplyAssumption == MaxChunks \in Nat /\ MaxKeepalives \in Nat

VARIABLES
    req,        \* the request: see Requests
    main,       \* where the handler thread is
    primer,     \* the priming thread
    gen,        \* the stream wrapper: not started, suspended or finished
    errored,    \* its errored flag: an error event was in the stream
    first,      \* first_chunk and priming_error
    chunks,     \* events upstream has streamed
    trouble,    \* what the upstream call raised
    committed,  \* _send_sse's committed flag
    client,     \* "reading", or "gone"
    wire,       \* history: what the client got
    rows,       \* the requests rows recorded for the call
    broken      \* history: what failed writes raised

upstream == <<gen, errored, chunks, trouble>>
socket == <<client, wire, broken>>
vars == <<req, main, primer, upstream, first, committed, socket, rows>>

\* keepalive: sse_keepalive_interval is set.  tls: the connection is intercepted, and
\* has a timeout.
Requests == [kind : {"json", "sse", "held"}, keepalive : BOOLEAN, tls : BOOLEAN]

\* Upstream's answer, a 429, any other error it or its retries end in; another
\* exception; a reset connection.
Explained == {"limited", "refused"}
Troubles == Explained \cup {"other", "reset"}

\* What the client is sent: a status line, and what follows a 200.
Frames == {"200", "keepalive", "chunk", "error", "http_error"}

Phases == {"start", "prime", "waiting", "keepalive", "drain", "primed", "chunk",
           "streaming", "writing", "close", "json", "answer", "done"}

Init ==
    /\ req \in Requests
    /\ main = "start" /\ primer = "none"
    /\ gen = "new" /\ errored = FALSE /\ chunks = 0 /\ trouble = "none"
    /\ first = "none" /\ committed = FALSE
    /\ client = "reading" /\ wire = <<>> /\ broken = {}
    /\ rows = <<>>

Leave ==
    /\ client = "reading" /\ main # "done"
    /\ client' = "gone"
    /\ UNCHANGED <<req, main, primer, upstream, first, committed, wire, rows, broken>>

\* A connected client gets the frames.
Write(frames) ==
    /\ wire' = IF client = "reading" THEN wire \o frames ELSE wire
    /\ UNCHANGED <<client, broken>>

\* A write to a client that has gone fails: with a broken pipe, or, on an intercepted
\* connection, an SSL error or a timeout, which are not _CLIENT_DISCONNECT.
WriteFails(error) ==
    /\ client = "gone"
    /\ error = "tls" => req.tls
    /\ broken' = broken \cup {error}
    /\ UNCHANGED <<client, wire>>

Errors == {"pipe", "tls"}

-----------------------------------------------------------------------------
(***************************************************************************)
(* The wrapper and its generator: one next() of it, by whichever thread.   *)
(***************************************************************************)

RowOf(raised, error) ==
    IF raised = "limited" THEN "rate_limited"
    ELSE IF raised # "none" \/ error THEN "error" ELSE "success"

\* Mutant: a stream that raised is recorded by its handler thread as well.
RaisesTwice(raised) ==
    /\ raised \in Explained => gen = "new"
    /\ gen' = "finished" /\ trouble' = raised
    /\ rows' = rows \o <<RowOf(raised, errored), "error">>
    /\ UNCHANGED <<errored, chunks>>

\* A failure: explained ones come from _send_with_retries, before the first event.
Raises(raised) ==
    /\ raised \in Explained => gen = "new"
    /\ gen' = "finished" /\ trouble' = raised
    /\ rows' = Append(rows, RowOf(raised, errored))
    /\ UNCHANGED <<errored, chunks>>

\* The stream ends: after message_stop, or cut short.
Exhausts ==
    /\ gen' = "finished"
    /\ rows' = Append(rows, RowOf("none", errored))
    /\ UNCHANGED <<errored, chunks, trouble>>

\* The next event, an error event among them.
Yields ==
    /\ chunks < MaxChunks
    /\ gen' = "open" /\ chunks' = chunks + 1
    /\ errored' \in {errored, TRUE}
    /\ UNCHANGED <<trouble, rows>>

\* One next() on the generator, and what it comes to.
Reads(result) ==
    IF result = "chunk" THEN Yields
    ELSE IF result = "end" THEN Exhausts ELSE Raises(result)

Results == {"chunk", "end"} \cup Troubles

-----------------------------------------------------------------------------
(***************************************************************************)
(* _send_sse and _prime_sse_with_keepalive.                                *)
(***************************************************************************)

Goto(phase) == main' = phase

\* A write of the frames and the phase it leads to, or the phase of its failure.
WriteThen(frames, phase, failed) ==
    \/ Write(frames) /\ Goto(phase)
    \/ \E error \in Errors : WriteFails(error) /\ Goto(failed)

\* Commit first: the 200 goes out before upstream is called.
CommitFirst ==
    /\ main = "start" /\ req.kind = "sse"
    /\ committed' = TRUE
    /\ WriteThen(<<"200">>, "prime", "close")
    /\ UNCHANGED <<req, primer, upstream, first, rows>>

Hold ==
    /\ main = "start" /\ req.kind = "held"
    /\ Goto("prime")
    /\ UNCHANGED <<req, primer, upstream, first, committed, socket, rows>>

StartPrimer ==
    /\ main = "prime" /\ req.keepalive
    /\ primer' = "reading" /\ Goto("waiting")
    /\ UNCHANGED <<req, upstream, first, committed, socket, rows>>

\* Keepalive is off: the handler thread primes.
PrimeAlone ==
    /\ main = "prime" /\ ~req.keepalive
    /\ \E result \in Results : Reads(result) /\ first' = result
    /\ Goto("primed")
    /\ UNCHANGED <<req, primer, committed, socket>>

\* The priming thread.  A read of the upstream socket has a timeout.
Prime ==
    /\ primer = "reading"
    /\ \E result \in Results : Reads(result) /\ first' = result
    /\ primer' = "done"
    /\ UNCHANGED <<req, main, committed, socket>>

\* primed.wait(timeout) returns false; the primer may be done by the write.
IntervalPasses ==
    /\ main = "waiting" /\ primer = "reading"
    /\ Len(wire) <= MaxKeepalives
    /\ Goto("keepalive")
    /\ UNCHANGED <<req, primer, upstream, first, committed, socket, rows>>

\* Mutant: a client gone during the wait ends the request without the primer.
KeepaliveAbandoning ==
    /\ main = "keepalive"
    /\ committed' = TRUE
    /\ WriteThen(IF committed THEN <<"keepalive">> ELSE <<"200", "keepalive">>,
                 "waiting", "close")
    /\ UNCHANGED <<req, primer, upstream, first, rows>>

\* A held 200 goes out with the first keepalive.
Keepalive ==
    /\ main = "keepalive"
    /\ committed' = TRUE
    /\ WriteThen(IF committed THEN <<"keepalive">> ELSE <<"200", "keepalive">>,
                 "waiting", "drain")
    /\ UNCHANGED <<req, primer, upstream, first, rows>>

Primed ==
    /\ main = "waiting" /\ primer = "done"
    /\ Goto("primed")
    /\ UNCHANGED <<req, primer, upstream, first, committed, socket, rows>>

\* The priming thread is never abandoned.
Drain ==
    /\ main = "drain" /\ primer = "done"
    /\ Goto("close")
    /\ UNCHANGED <<req, primer, upstream, first, committed, socket, rows>>

\* Mutant: a held stream answers with a status line even after its 200.
SendHeldErrorCommitted ==
    /\ main = "primed" /\ first \in Troubles
    /\ req.kind = "held" \/ ~committed
    /\ WriteThen(<<"http_error">>, "close", "close")
    /\ UNCHANGED <<req, primer, upstream, first, committed, rows>>

\* A failure before the 200 is an HTTP error.
SendHeldError ==
    /\ main = "primed" /\ first \in Troubles /\ ~committed
    /\ WriteThen(<<"http_error">>, "close", "close")
    /\ UNCHANGED <<req, primer, upstream, first, committed, rows>>

\* After the 200 it is an error event, or, when upstream's answer does not explain it,
\* the end.
SendSseError ==
    /\ main = "primed" /\ first \in Troubles /\ committed
    /\ IF first \in Explained THEN WriteThen(<<"error">>, "close", "close")
       ELSE Goto("close") /\ UNCHANGED socket
    /\ UNCHANGED <<req, primer, upstream, first, committed, rows>>

\* The held 200 goes out with the first chunk, or with an empty stream.
CommitHeld ==
    /\ main = "primed" /\ first \in {"chunk", "end"}
    /\ committed' = TRUE
    /\ LET next == IF first = "chunk" THEN "writing" ELSE "close" IN
       IF committed THEN Goto(next) /\ UNCHANGED socket
                    ELSE WriteThen(<<"200">>, next, "close")
    /\ UNCHANGED <<req, primer, upstream, first, rows>>

WriteChunk ==
    /\ main = "writing"
    /\ WriteThen(<<"chunk">>, "streaming", "close")
    /\ UNCHANGED <<req, primer, upstream, first, committed, rows>>

\* The rest of the stream.  Whatever it raises, a reset among them, ends it.
Stream ==
    /\ main = "streaming"
    /\ \E result \in Results :
          Reads(result) /\ Goto(IF result = "chunk" THEN "writing" ELSE "close")
    /\ UNCHANGED <<req, primer, first, committed, socket>>

\* generator.close(): a suspended wrapper records its row, one not started nothing.
\* The request is over.
Close ==
    /\ main = "close"
    /\ IF gen = "open" THEN Exhausts ELSE UNCHANGED <<upstream, rows>>
    /\ Goto("done")
    /\ UNCHANGED <<req, primer, first, committed, socket>>

-----------------------------------------------------------------------------
(***************************************************************************)
(* The non-streaming answer, and the error paths of _handle_messages.      *)
(***************************************************************************)

\* send_message.  A connection reset while a body is read, the answer's or an error's,
\* is caught as a client's.
Call ==
    /\ main = "start" /\ req.kind = "json"
    /\ gen' = "finished"
    /\ \E raised \in Troubles \cup {"none"} :
          /\ trouble' = raised
          /\ IF raised = "reset" THEN rows' = rows /\ Goto("close")
             ELSE /\ rows' = Append(rows, RowOf(raised, FALSE))
                  /\ Goto(IF raised = "none" THEN "json" ELSE "answer")
    /\ UNCHANGED <<req, primer, errored, chunks, first, committed, socket>>

\* _send_json of the message, its row recorded.  A write that fails otherwise than
\* with a broken pipe is taken for a failed dispatch, and recorded as one.
SendMessage ==
    /\ main = "json"
    /\ \/ Write(<<"200", "chunk">>) /\ Goto("close") /\ UNCHANGED rows
       \/ WriteFails("pipe") /\ Goto("close") /\ UNCHANGED rows
       \/ WriteFails("tls") /\ Goto("answer") /\ rows' = Append(rows, "error")
    /\ UNCHANGED <<req, primer, upstream, first, committed>>

SendError ==
    /\ main = "answer"
    /\ WriteThen(<<"http_error">>, "done", "done")
    /\ UNCHANGED <<req, primer, upstream, first, committed, rows>>

\* The handler thread.
Handle ==
    \/ CommitFirst \/ Hold \/ StartPrimer \/ PrimeAlone \/ IntervalPasses
    \/ Keepalive \/ Primed \/ Drain \/ SendHeldError \/ SendSseError \/ CommitHeld
    \/ WriteChunk \/ Stream \/ Close \/ Call \/ SendMessage \/ SendError

Next == Handle \/ Prime \/ Leave

\* Threads run, reads of upstream have a timeout, and a client that stays reads.
Spec == Init /\ [][Next]_vars /\ WF_vars(Handle) /\ WF_vars(Prime)

-----------------------------------------------------------------------------
\* The state is well formed, and a stream's 200 is out only once committed says so.
TypeOK ==
    /\ req \in Requests
    /\ main \in Phases
    /\ primer \in {"none", "reading", "done"}
    /\ gen \in {"new", "open", "finished"}
    /\ errored \in BOOLEAN /\ committed \in BOOLEAN
    /\ first \in Results \cup {"none"}
    /\ chunks \in 0..MaxChunks
    /\ trouble \in Troubles \cup {"none"}
    /\ client \in {"reading", "gone"}
    /\ wire \in Seq(Frames)
    /\ broken \subseteq Errors
    /\ rows \in Seq({"success", "error", "rate_limited"})
    /\ req.kind # "json" /\ ~committed => "200" \notin {wire[i] : i \in DOMAIN wire}

Streamed == req.kind # "json"

\* The last frame that is no keepalive tells what the client has.
ReplyOf ==
    IF wire = <<>> THEN IF main = "done" THEN "silent" ELSE "held"
    ELSE LET last == wire[Len(wire)] IN
         IF last = "http_error" THEN "refused"
         ELSE IF last = "error" THEN "told"
         ELSE IF main = "done" THEN "ended" ELSE "open"

Reply == INSTANCE StreamReply WITH reply <- ReplyOf, streamed <- Streamed

\* The client of a request gets what StreamReply promises, whenever the primer,
\* upstream and the keepalives act and whenever the client leaves.
KeepsPromise == Reply!Spec

\* The handler thread never enters or closes the generator, nor ends the request,
\* while the priming thread is inside it.
GeneratorNotShared ==
    primer = "reading" => main \in {"waiting", "keepalive", "drain"}

\* A call to upstream leaves one row, which says how the call went, and no call leaves
\* none.  The non-streaming path has two exceptions: a reset connection to
\* upstream (no row) and an intercepted client that is gone (a second row).
OneRow ==
    main = "done" =>
        \/ gen = "new" /\ rows = <<>>
        \/ gen = "finished" /\ rows = <<RowOf(trouble, errored)>>
        \/ req.kind = "json" /\ (trouble = "reset" \/ "tls" \in broken)
=============================================================================
