------------------------------ MODULE Transport ------------------------------
(***************************************************************************)
(* One call of AnthropicTransport: the retry loop of _send_with_retries    *)
(* and what its caller gets.  Calls share no state, so one is enough.      *)
(*                                                                         *)
(* Upstream may answer each attempt in any way.  A refused request is sent *)
(* again only after one of two corrections: every thinking block is        *)
(* stripped from the history, or every inline system message is rewritten. *)
(***************************************************************************)
EXTENDS Naturals, Sequences

CONSTANTS
    MaxRetries,     \* MAX_RETRIES: a call makes at most one more attempt
    None

ASSUME TransportAssumption == MaxRetries \in Nat /\ None \notin Nat

VARIABLES
    payload,        \* what the payload and its model say that a refusal can be about
    stripped,       \* thinking_stripped
    forced,         \* rewrite_forced
    body,           \* body_bytes, as the refusable parts it still carries
    attempt,        \* the loop's counter, from 0
    attemptOut,     \* attempt_out
    phase,
    outcome,        \* what the caller gets: a response or an error
    sent            \* history: the body and the answer of each attempt

vars == <<payload, stripped, forced, body, attempt, attemptOut, phase, outcome, sent>>

Payloads ==
    [thinking : BOOLEAN,    \* an assistant message has thinking blocks
     inline : BOOLEAN,      \* a message has role system
     gated : BOOLEAN]       \* _rejects_system_role_in_messages of the model

Bodies == [thinking : BOOLEAN, inline : BOOLEAN]

\* Statuses that should_retry accepts: 500, 502, 503, 504, and a 429 with timing.
Retryable == {"server", "limited"}

\* A 400 whose text speaks of thinking blocks, of the system role, or of both.
AboutThinking == {"thinking", "thinking_system"}
AboutSystem == {"system", "thinking_system"}

\* Any 4xx; "unguided" is a 429 without timing, "refused" any other.
ClientErrors == AboutThinking \cup AboutSystem \cup {"limited", "unguided", "refused"}

\* "overloaded" is a 529 or another status outside RETRYABLE_STATUSES.
Answers == ClientErrors \cup {"ok", "server", "overloaded", "network"}

\* The three errors are AnthropicRequestErrors; "raised" is any other exception, as it
\* came from the socket.
Outcomes == {"ok", "client_error", "bad_gateway", "connection_error", "raised"}

\* build_body: the model's gate or force_rewrite rewrites inline messages.
BuildBody(p, force) ==
    [thinking |-> p.thinking, inline |-> p.inline /\ ~(force \/ p.gated)]

Init ==
    /\ payload \in Payloads
    /\ stripped = FALSE /\ forced = FALSE
    /\ body = BuildBody(payload, FALSE)
    /\ attempt = 0
    /\ attemptOut = [attempt |-> None, id |-> None]
    /\ phase = "dispatch"
    /\ outcome = None
    /\ sent = <<>>

\* Mutant: the id of an earlier attempt's response is left in attempt_out.
DispatchKeepingId ==
    /\ phase = "dispatch" /\ attempt <= MaxRetries
    /\ attemptOut' = [attemptOut EXCEPT !.attempt = attempt + 1]
    /\ phase' = "sent"
    /\ UNCHANGED <<payload, stripped, forced, body, attempt, outcome, sent>>

\* attempt_out is written before each request goes out.
Dispatch ==
    /\ phase = "dispatch" /\ attempt <= MaxRetries
    /\ attemptOut' = [attempt |-> attempt + 1, id |-> None]
    /\ phase' = "sent"
    /\ UNCHANGED <<payload, stripped, forced, body, attempt, outcome, sent>>

\* Upstream's answer a to the request in flight.  A response may come without a
\* request-id; a connection that fails leaves attempt_out alone.
Answered(a) ==
    /\ phase = "sent"
    /\ sent' = Append(sent, [body |-> body, answer |-> a])
    /\ IF a = "network" THEN UNCHANGED attemptOut
       ELSE \E id \in {attempt + 1, None} : attemptOut' = [attemptOut EXCEPT !.id = id]

Retry == attempt' = attempt + 1 /\ phase' = "dispatch" /\ UNCHANGED outcome

Finish(result) == phase' = "done" /\ outcome' = result /\ UNCHANGED attempt

SameRequest == UNCHANGED <<payload, stripped, forced, body>>

Succeed == Answered("ok") /\ Finish("ok") /\ SameRequest

\* OSError, HTTPException or SSLError, before or after upstream did the work.
NetworkError ==
    /\ Answered("network")
    /\ IF attempt < MaxRetries THEN Retry ELSE Finish("connection_error")
    /\ SameRequest

\* Mutant: the attempts after the first are counted, not the first.
CanRetryEarly(a) == a \in Retryable /\ attempt + 1 < MaxRetries

CanRetry(a) == a \in Retryable /\ attempt < MaxRetries

RetryStatus ==
    /\ \E a \in Retryable : CanRetry(a) /\ Answered(a)
    /\ Retry /\ SameRequest

\* An answer the retry policy gives up on.
GivenUp(a) == a \in Answers \ {"ok", "network"} /\ ~CanRetry(a)

\* strip_all_thinking_blocks changes a history that has such blocks.
CanStrip(a) == a \in AboutThinking /\ ~stripped /\ payload.thinking

StripThinking ==
    /\ \E a \in Answers : GivenUp(a) /\ CanStrip(a) /\ Answered(a)
    /\ payload' = [payload EXCEPT !.thinking = FALSE]
    /\ body' = BuildBody(payload', forced)
    /\ stripped' = TRUE
    /\ Retry /\ UNCHANGED forced

\* Mutant: the model's gate is not asked, so a body already rewritten is resent.
CanRewriteGated(a) == a \in AboutSystem /\ ~forced /\ payload.inline

CanRewrite(a) == a \in AboutSystem /\ ~forced /\ payload.inline /\ ~payload.gated

RewriteSystem ==
    /\ \E a \in Answers : GivenUp(a) /\ ~CanStrip(a) /\ CanRewrite(a) /\ Answered(a)
    /\ body' = BuildBody(payload, TRUE)
    /\ forced' = TRUE
    /\ Retry /\ UNCHANGED <<payload, stripped>>

\* handle_error_response: a 4xx keeps its class, anything else is a 502.
HandleErrorResponse ==
    /\ \E a \in Answers :
          /\ GivenUp(a) /\ ~CanStrip(a) /\ ~CanRewrite(a)
          /\ Answered(a)
          /\ Finish(IF a \in ClientErrors THEN "client_error" ELSE "bad_gateway")
    /\ SameRequest

\* resp.read() of an error's body is outside the try: a reset, a timeout or a short
\* body there ends the call as it is, whatever the status and the attempts left.
ErrorBodyBreaks ==
    /\ \E a \in Answers \ {"ok", "network"} : Answered(a)
    /\ Finish("raised") /\ SameRequest

\* Mutant: the end of the loop is taken to be out of reach.
ExitLoopLate ==
    /\ phase = "dispatch" /\ attempt > MaxRetries + 1
    /\ Finish("bad_gateway")
    /\ SameRequest /\ UNCHANGED <<attemptOut, sent>>

\* A correction on the last attempt leaves the loop with no attempt to use it.
ExitLoop ==
    /\ phase = "dispatch" /\ attempt > MaxRetries
    /\ Finish("bad_gateway")
    /\ SameRequest /\ UNCHANGED <<attemptOut, sent>>

Next ==
    \/ Dispatch \/ Succeed \/ NetworkError \/ RetryStatus
    \/ StripThinking \/ RewriteSystem \/ HandleErrorResponse \/ ErrorBodyBreaks \/ ExitLoop

\* A connection has a timeout, so an attempt ends; sleeps are finite.
Spec == Init /\ [][Next]_vars /\ WF_vars(Next)

-----------------------------------------------------------------------------
(***************************************************************************)
(* Properties.                                                             *)
(***************************************************************************)

TypeOK ==
    /\ payload \in Payloads
    /\ stripped \in BOOLEAN /\ forced \in BOOLEAN
    /\ body \in Bodies
    /\ attempt \in 0..(MaxRetries + 1)
    /\ attemptOut \in [attempt : (1..(MaxRetries + 1)) \cup {None},
                       id : (1..(MaxRetries + 1)) \cup {None}]
    /\ phase \in {"dispatch", "sent", "done"}
    /\ outcome \in Outcomes \cup {None}
    /\ sent \in Seq([body : Bodies, answer : Answers])

LastAnswer == sent[Len(sent)].answer

\* A correction made for one refusal survives every later one: no later body
\* brings back the blocks or the inline messages upstream rejected.
CorrectionsKept ==
    [][(body'.thinking => body.thinking) /\ (body'.inline => body.inline)]_vars

\* A request that upstream refused for good is never sent again as it was.
RefusalNotRepeated ==
    \A i \in 1..(Len(sent) - 1) :
        sent[i].answer \notin Retryable \cup {"network"} => sent[i + 1].body # sent[i].body

\* A call ends on a failure that can be retried only once every attempt is spent,
\* those that corrections took included; the one way out before is a retryable
\* status whose body breaks off, and a connection that fails has none.
RetriesSpent ==
    phase = "done" =>
        /\ LastAnswer = "network" => Len(sent) = MaxRetries + 1
        /\ LastAnswer \in Retryable /\ outcome # "raised" => Len(sent) = MaxRetries + 1

\* The row recorded for the call names its final attempt, and no request-id
\* of an earlier one.
ReportedIdIsFinal ==
    phase = "done" =>
        attemptOut.attempt = Len(sent) /\ attemptOut.id \in {None, Len(sent)}

\* Every call ends, however upstream alternates failures and refusals.
CallEnds == <>(phase = "done")
=============================================================================
