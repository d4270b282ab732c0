---------------------------- MODULE TransportProofs ----------------------------
(***************************************************************************)
(* Proofs about the two ways bytes go upstream: those of Transport for     *)
(* every number of retries, payload and sequence of upstream answers, and, *)
(* in the second part, those of Tunnel, for every size of the sockets'     *)
(* buffers and every number of bytes sent.                                 *)
(***************************************************************************)
EXTENDS Transport, Tunnel, SequenceTheorems, TLAPS

Attempts == [body : Bodies, answer : Answers]

\* Upstream may be asked again with the very same request.
Repeatable == Retryable \cup {"network"}

\* The body is always the one build_body makes of what is still in the payload.
BodyBuilt == body = BuildBody(payload, forced) /\ (stripped => ~payload.thinking)

\* The loop's counter counts the attempts upstream has answered.
Counted ==
    /\ phase \in {"dispatch", "sent"} => Len(sent) = attempt
    /\ phase = "sent" => attempt <= MaxRetries
    /\ phase = "done" => Len(sent) \in {attempt, attempt + 1}

\* attempt_out speaks of the attempt under way or the last one answered.
Reported ==
    /\ phase = "sent" => attemptOut = [attempt |-> attempt + 1, id |-> None]
    /\ phase # "sent" /\ Len(sent) > 0 =>
        attemptOut.attempt = Len(sent) /\ attemptOut.id \in {None, Len(sent)}
    /\ phase = "done" => Len(sent) > 0

\* After a refusal, what is sent next is not what was refused.
Corrected ==
    phase # "done" /\ Len(sent) > 0 /\ LastAnswer \notin Repeatable
        => body # sent[Len(sent)].body

\* The inductive invariant.
IInv ==
    /\ TypeOK /\ BodyBuilt /\ Counted /\ Reported /\ Corrected
    /\ RefusalNotRepeated /\ RetriesSpent

-----------------------------------------------------------------------------
LEMMA BuildBodyType ==
    ASSUME NEW p \in Payloads, NEW force \in BOOLEAN
    PROVE  BuildBody(p, force) \in Bodies
BY DEF Payloads, Bodies, BuildBody

LEMMA InitInv == Init => IInv
<1> SUFFICES ASSUME Init PROVE IInv
    OBVIOUS
<1>1. sent = <<>> /\ sent \in Seq(Attempts) /\ Len(sent) = 0
    BY EmptySeq DEF Init
<1>2. body \in Bodies
    BY BuildBodyType DEF Init
<1>3. TypeOK
    <2>1. attempt \in 0..(MaxRetries + 1)
        BY TransportAssumption DEF Init
    <2>2. attemptOut \in [attempt : (1..(MaxRetries + 1)) \cup {None},
                         id : (1..(MaxRetries + 1)) \cup {None}]
        BY DEF Init
    <2> QED BY <1>1, <1>2, <2>1, <2>2 DEF Init, TypeOK, Attempts
<1>4. BodyBuilt /\ Counted /\ Reported /\ Corrected
    <2>1. BodyBuilt
        BY DEF Init, BodyBuilt, BuildBody
    <2>2. Counted /\ Reported /\ Corrected
        BY <1>1 DEF Init, Counted, Reported, Corrected
    <2> QED BY <2>1, <2>2
<1>5. RefusalNotRepeated /\ RetriesSpent
    BY <1>1 DEF Init, RefusalNotRepeated, RetriesSpent
<1> QED BY <1>3, <1>4, <1>5 DEF IInv

\* What an answered attempt adds to the history and to attempt_out.
LEMMA AnsweredEffect ==
    ASSUME IInv, NEW a \in Answers, Answered(a)
    PROVE  /\ phase = "sent" /\ attempt \in 0..MaxRetries /\ Len(sent) = attempt
           /\ sent' \in Seq(Attempts) /\ Len(sent') = attempt + 1
           /\ sent'[Len(sent')] = [body |-> body, answer |-> a]
           /\ \A i \in 1..Len(sent) : sent'[i] = sent[i]
           /\ RefusalNotRepeated'
           /\ attemptOut' \in [attempt : (1..(MaxRetries + 1)) \cup {None},
                               id : (1..(MaxRetries + 1)) \cup {None}]
           /\ attemptOut'.attempt = attempt + 1 /\ attemptOut'.id \in {None, attempt + 1}
<1>1. /\ phase = "sent" /\ attempt \in 0..MaxRetries /\ Len(sent) = attempt
      /\ MaxRetries \in Nat /\ None \notin Nat
      /\ body \in Bodies /\ sent \in Seq(Attempts)
    BY TransportAssumption DEF IInv, TypeOK, Counted, Answered, Attempts
<1>2. /\ sent' = Append(sent, [body |-> body, answer |-> a])
      /\ [body |-> body, answer |-> a] \in Attempts
    BY <1>1 DEF Answered, Attempts
<1>3. /\ sent' \in Seq(Attempts) /\ Len(sent') = attempt + 1
      /\ sent'[Len(sent')] = [body |-> body, answer |-> a]
      /\ \A i \in 1..Len(sent) : sent'[i] = sent[i]
    BY <1>1, <1>2, AppendProperties
<1>4. RefusalNotRepeated'
    <2> SUFFICES ASSUME NEW i \in 1..(Len(sent') - 1), sent'[i].answer \notin Repeatable
                 PROVE  sent'[i + 1].body # sent'[i].body
        BY DEF RefusalNotRepeated, Repeatable
    <2>1. i \in 1..Len(sent) /\ sent'[i] = sent[i]
        BY <1>1, <1>3
    <2>2. CASE i = Len(sent)
        BY <1>1, <1>3, <2>1, <2>2 DEF IInv, Corrected, LastAnswer
    <2>3. CASE i # Len(sent)
        BY <1>1, <1>3, <2>1, <2>3 DEF IInv, RefusalNotRepeated, Repeatable
    <2> QED BY <2>2, <2>3
<1>5. /\ attemptOut' \in [attempt : (1..(MaxRetries + 1)) \cup {None},
                          id : (1..(MaxRetries + 1)) \cup {None}]
      /\ attemptOut'.attempt = attempt + 1 /\ attemptOut'.id \in {None, attempt + 1}
    <2>1. attemptOut = [attempt |-> attempt + 1, id |-> None]
        BY <1>1 DEF IInv, Reported
    <2>2. attemptOut' = attemptOut \/
          \E id \in {attempt + 1, None} : attemptOut' = [attemptOut EXCEPT !.id = id]
        BY DEF Answered
    <2>3. PICK id \in {attempt + 1, None} : attemptOut' = [attempt |-> attempt + 1, id |-> id]
        BY <2>1, <2>2
    <2> QED BY <1>1, <2>3
<1> QED BY <1>1, <1>3, <1>4, <1>5

LEMMA DispatchStep ==
    ASSUME IInv, Dispatch
    PROVE  IInv'
<1>1. /\ phase = "dispatch" /\ phase' = "sent" /\ attempt \in 0..MaxRetries
      /\ attemptOut' = [attempt |-> attempt + 1, id |-> None]
      /\ UNCHANGED <<payload, stripped, forced, body, attempt, outcome, sent>>
    BY TransportAssumption DEF Dispatch, IInv, TypeOK
<1>2. TypeOK'
    BY <1>1, TransportAssumption DEF IInv, TypeOK
<1>3. BodyBuilt' /\ Counted' /\ Reported' /\ Corrected'
    BY <1>1 DEF IInv, BodyBuilt, Counted, Reported, Corrected, LastAnswer
<1>4. RefusalNotRepeated' /\ RetriesSpent'
    BY <1>1 DEF IInv, RefusalNotRepeated, RetriesSpent, LastAnswer
<1> QED BY <1>2, <1>3, <1>4 DEF IInv

\* An answer after which the loop goes on with another attempt.
LEMMA RetryStep ==
    ASSUME IInv, NEW a \in Answers, Answered(a), Retry, BodyBuilt',
           payload' \in Payloads, stripped' \in BOOLEAN, forced' \in BOOLEAN,
           a \notin Repeatable => body' # body
    PROVE  IInv'
<1>1. /\ attempt' = attempt + 1 /\ phase' = "dispatch" /\ outcome' = outcome
    BY DEF Retry
<1>2. body' \in Bodies
    BY BuildBodyType DEF BodyBuilt
<1>3. /\ attempt \in 0..MaxRetries /\ MaxRetries \in Nat
      /\ sent' \in Seq(Attempts) /\ Len(sent') = attempt + 1
      /\ sent'[Len(sent')] = [body |-> body, answer |-> a]
      /\ RefusalNotRepeated'
      /\ attemptOut' \in [attempt : (1..(MaxRetries + 1)) \cup {None},
                          id : (1..(MaxRetries + 1)) \cup {None}]
      /\ attemptOut'.attempt = attempt + 1 /\ attemptOut'.id \in {None, attempt + 1}
    BY AnsweredEffect, TransportAssumption
<1>4. TypeOK'
    BY <1>1, <1>2, <1>3 DEF IInv, TypeOK, Attempts
<1>5. Counted' /\ Reported'
    BY <1>1, <1>3 DEF Counted, Reported
<1>6. Corrected'
    BY <1>1, <1>3 DEF Corrected, LastAnswer
<1>7. RefusalNotRepeated' /\ RetriesSpent'
    BY <1>1, <1>3 DEF RetriesSpent
<1> QED BY <1>4, <1>5, <1>6, <1>7 DEF IInv

\* An answer the call ends with.
LEMMA FinishStep ==
    ASSUME IInv, NEW a \in Answers, Answered(a), NEW result \in Outcomes, Finish(result),
           SameRequest, a = "network" => attempt >= MaxRetries,
           a \in Retryable => attempt >= MaxRetries \/ result = "raised"
    PROVE  IInv'
<1>1. /\ phase' = "done" /\ outcome' = result
      /\ UNCHANGED <<attempt, payload, stripped, forced, body>>
    BY DEF Finish, SameRequest
<1>2. /\ attempt \in 0..MaxRetries /\ MaxRetries \in Nat
      /\ sent' \in Seq(Attempts) /\ Len(sent') = attempt + 1
      /\ sent'[Len(sent')] = [body |-> body, answer |-> a]
      /\ RefusalNotRepeated'
      /\ attemptOut' \in [attempt : (1..(MaxRetries + 1)) \cup {None},
                          id : (1..(MaxRetries + 1)) \cup {None}]
      /\ attemptOut'.attempt = attempt + 1 /\ attemptOut'.id \in {None, attempt + 1}
    BY AnsweredEffect, TransportAssumption
<1>3. TypeOK'
    BY <1>1, <1>2 DEF IInv, TypeOK, Attempts
<1>4. BodyBuilt' /\ Counted' /\ Reported' /\ Corrected'
    BY <1>1, <1>2 DEF IInv, BodyBuilt, Counted, Reported, Corrected
<1>5. RefusalNotRepeated' /\ RetriesSpent'
    BY <1>1, <1>2 DEF RetriesSpent, LastAnswer
<1> QED BY <1>3, <1>4, <1>5 DEF IInv

LEMMA EndingStep ==
    ASSUME IInv, Succeed \/ HandleErrorResponse \/ ErrorBodyBreaks
    PROVE  IInv'
<1>1. CASE Succeed
    <2>1. "ok" \in Answers /\ "ok" \in Outcomes /\ "ok" \notin Retryable
        BY DEF Answers, Outcomes, Retryable
    <2> QED BY <1>1, <2>1, FinishStep DEF Succeed
<1>2. CASE HandleErrorResponse
    <2>1. PICK a \in Answers, result \in {"client_error", "bad_gateway"} :
            GivenUp(a) /\ Answered(a) /\ Finish(result)
        BY <1>2 DEF HandleErrorResponse
    <2>2. attempt \in Nat /\ MaxRetries \in Nat
        BY TransportAssumption DEF IInv, TypeOK
    <2>3. a # "network" /\ (a \in Retryable => attempt >= MaxRetries)
        BY <2>1, <2>2 DEF GivenUp, CanRetry
    <2>4. result \in Outcomes /\ SameRequest
        BY <1>2, <2>1 DEF Outcomes, HandleErrorResponse
    <2> QED BY <2>1, <2>3, <2>4, FinishStep
<1>3. CASE ErrorBodyBreaks
    <2>1. PICK a \in Answers \ {"ok", "network"} : Answered(a)
        BY <1>3 DEF ErrorBodyBreaks
    <2>2. "raised" \in Outcomes /\ Finish("raised") /\ SameRequest
        BY <1>3 DEF Outcomes, ErrorBodyBreaks
    <2> QED BY <2>1, <2>2, FinishStep
<1> QED BY <1>1, <1>2, <1>3

LEMMA RepeatingStep ==
    ASSUME IInv, NetworkError \/ RetryStatus
    PROVE  IInv'
<1>1. SameRequest
    BY DEF NetworkError, RetryStatus
<1>2. BodyBuilt' /\ payload' \in Payloads /\ stripped' \in BOOLEAN /\ forced' \in BOOLEAN
    BY <1>1 DEF SameRequest, IInv, BodyBuilt, TypeOK
<1>3. CASE RetryStatus
    <2>1. PICK a \in Retryable : Answered(a) /\ Retry
        BY <1>3 DEF RetryStatus
    <2>2. a \in Answers /\ a \in Repeatable
        BY <2>1 DEF Answers, ClientErrors, Retryable, Repeatable
    <2> QED BY <1>2, <2>1, <2>2, RetryStep
<1>4. CASE NetworkError
    <2>1. /\ "network" \in Answers /\ "network" \in Repeatable
          /\ "network" \notin Retryable
          /\ "connection_error" \in Outcomes /\ Answered("network")
        BY <1>4 DEF Answers, Repeatable, Retryable, Outcomes, NetworkError
    <2>2. CASE attempt < MaxRetries
        BY <1>2, <1>4, <2>1, <2>2, RetryStep DEF NetworkError
    <2>3. CASE ~(attempt < MaxRetries)
        <3>1. attempt >= MaxRetries
            BY <2>3, TransportAssumption DEF IInv, TypeOK
        <3> QED BY <1>1, <1>4, <2>1, <2>3, <3>1, FinishStep DEF NetworkError
    <2> QED BY <2>2, <2>3
<1> QED BY <1>3, <1>4

LEMMA CorrectingStep ==
    ASSUME IInv, StripThinking \/ RewriteSystem
    PROVE  IInv'
<1>1. payload \in Payloads /\ forced \in BOOLEAN /\ stripped \in BOOLEAN /\ BodyBuilt
    BY DEF IInv, TypeOK
<1>2. CASE StripThinking
    <2>1. PICK a \in Answers : CanStrip(a) /\ Answered(a) /\ Retry
        BY <1>2 DEF StripThinking
    <2>2. /\ payload' = [payload EXCEPT !.thinking = FALSE] /\ payload.thinking
          /\ body' = BuildBody(payload', forced) /\ stripped' = TRUE /\ forced' = forced
        BY <1>2, <2>1 DEF StripThinking, CanStrip
    <2>3. payload' \in Payloads /\ ~payload'.thinking
        BY <1>1, <2>2 DEF Payloads
    <2>4. body'.thinking = FALSE /\ body.thinking = TRUE
        BY <1>1, <2>2, <2>3 DEF BodyBuilt, BuildBody, Payloads
    <2>5. BodyBuilt'
        BY <2>2, <2>3 DEF BodyBuilt
    <2>6. body' # body
        BY <2>4
    <2>7. stripped' \in BOOLEAN /\ forced' \in BOOLEAN
        BY <1>1, <2>2
    <2> QED BY <2>1, <2>3, <2>5, <2>6, <2>7, RetryStep
<1>3. CASE RewriteSystem
    <2>1. PICK a \in Answers : CanRewrite(a) /\ Answered(a) /\ Retry
        BY <1>3 DEF RewriteSystem
    <2>2. /\ payload' = payload /\ stripped' = stripped /\ forced' = TRUE
          /\ body' = BuildBody(payload, TRUE) /\ payload.inline /\ ~payload.gated /\ ~forced
        BY <1>3, <2>1 DEF RewriteSystem, CanRewrite
    <2>3. body'.inline = FALSE /\ body.inline = TRUE
        BY <1>1, <2>2 DEF BodyBuilt, BuildBody, Payloads
    <2>4. BodyBuilt'
        BY <1>1, <2>2 DEF BodyBuilt, BuildBody
    <2>5. body' # body
        BY <2>3
    <2>6. payload' \in Payloads /\ stripped' \in BOOLEAN /\ forced' \in BOOLEAN
        BY <1>1, <2>2
    <2> QED BY <2>1, <2>4, <2>5, <2>6, RetryStep
<1> QED BY <1>2, <1>3

LEMMA ExitLoopStep ==
    ASSUME IInv, ExitLoop
    PROVE  IInv'
<1>1. /\ phase = "dispatch" /\ phase' = "done" /\ outcome' = "bad_gateway"
      /\ attempt = MaxRetries + 1 /\ Len(sent) = MaxRetries + 1 /\ MaxRetries \in Nat
      /\ UNCHANGED <<attempt, payload, stripped, forced, body, attemptOut, sent>>
    BY TransportAssumption DEF IInv, TypeOK, Counted, ExitLoop, Finish, SameRequest
<1>2. TypeOK'
    BY <1>1 DEF IInv, TypeOK, Outcomes
<1>3. BodyBuilt' /\ Counted' /\ Reported' /\ Corrected'
    BY <1>1 DEF IInv, BodyBuilt, Counted, Reported, Corrected
<1>4. RefusalNotRepeated' /\ RetriesSpent'
    BY <1>1 DEF IInv, RefusalNotRepeated, RetriesSpent
<1> QED BY <1>2, <1>3, <1>4 DEF IInv

LEMMA StutterStep ==
    ASSUME IInv, UNCHANGED vars
    PROVE  IInv'
<1>1. TypeOK' /\ BodyBuilt'
    BY DEF IInv, vars, TypeOK, BodyBuilt
<1>2. Counted' /\ Reported' /\ Corrected'
    BY DEF IInv, vars, Counted, Reported, Corrected, LastAnswer
<1>3. RefusalNotRepeated' /\ RetriesSpent'
    BY DEF IInv, vars, RefusalNotRepeated, RetriesSpent, LastAnswer
<1> QED BY <1>1, <1>2, <1>3 DEF IInv

LEMMA NextInv == IInv /\ [Next]_vars => IInv'
<1> SUFFICES ASSUME IInv, [Next]_vars PROVE IInv'
    OBVIOUS
<1>1. CASE Dispatch
    BY <1>1, DispatchStep
<1>2. CASE Succeed \/ HandleErrorResponse \/ ErrorBodyBreaks
    BY <1>2, EndingStep
<1>3. CASE NetworkError \/ RetryStatus
    BY <1>3, RepeatingStep
<1>4. CASE StripThinking \/ RewriteSystem
    BY <1>4, CorrectingStep
<1>5. CASE ExitLoop
    BY <1>5, ExitLoopStep
<1>6. CASE UNCHANGED vars
    BY <1>6, StutterStep
<1> QED BY <1>1, <1>2, <1>3, <1>4, <1>5, <1>6 DEF Next

-----------------------------------------------------------------------------
(***************************************************************************)
(* Theorems.                                                               *)
(***************************************************************************)

\* The inductive invariant holds in every state of every call, whatever
\* _send_with_retries is answered and however many retries it has.
THEOREM TransportInvariantTheorem == Spec => []IInv
<1>1. Init => IInv
    BY InitInv
<1>2. IInv /\ [Next]_vars => IInv'
    BY NextInv
<1> QED BY <1>1, <1>2, PTL DEF Spec

\* Every variable of a call keeps its type: the loop's counter, and the attempt
\* and id in attempt_out, never pass MaxRetries + 1.
THEOREM TypeTheorem == Spec => []TypeOK
<1>1. IInv => TypeOK
    BY DEF IInv
<1> QED BY <1>1, TransportInvariantTheorem, PTL

\* Whatever _send_with_retries sends after a refusal differs from what was
\* refused: a correction that changed nothing is never tried.
THEOREM RefusalNotRepeatedTheorem == Spec => []RefusalNotRepeated
<1>1. IInv => RefusalNotRepeated
    BY DEF IInv
<1> QED BY <1>1, TransportInvariantTheorem, PTL

\* A call that ends on a failed connection, or on a status should_retry accepts
\* whose body was read, has made all of its MaxRetries + 1 attempts, also when
\* corrections used some of them.
THEOREM RetriesSpentTheorem == Spec => []RetriesSpent
<1>1. IInv => RetriesSpent
    BY DEF IInv
<1> QED BY <1>1, TransportInvariantTheorem, PTL

\* When a call has ended, attempt_out names its last attempt, with that
\* attempt's request-id or none: never the id of an earlier response.
THEOREM ReportedIdIsFinalTheorem == Spec => []ReportedIdIsFinal
<1>1. IInv => ReportedIdIsFinal
    BY DEF IInv, Reported, ReportedIdIsFinal
<1> QED BY <1>1, TransportInvariantTheorem, PTL

\* A step of the loop never puts back into the body what upstream refused:
\* stripping keeps a forced rewrite, and a rewrite keeps the stripped history.
LEMMA CorrectionsKeptStep ==
    ASSUME IInv, Next
    PROVE  (body'.thinking => body.thinking) /\ (body'.inline => body.inline)
<1>1. payload \in Payloads /\ forced \in BOOLEAN /\ BodyBuilt
    BY DEF IInv, TypeOK
<1>2. CASE StripThinking
    <2>1. PICK a \in Answers : CanStrip(a)
        BY <1>2 DEF StripThinking
    <2>2. /\ payload' = [payload EXCEPT !.thinking = FALSE]
          /\ body' = BuildBody(payload', forced)
        BY <1>2 DEF StripThinking
    <2> QED BY <1>1, <2>2 DEF BodyBuilt, BuildBody, Payloads
<1>3. CASE RewriteSystem
    BY <1>1, <1>3 DEF RewriteSystem, BodyBuilt, BuildBody, Payloads
<1>4. CASE ~StripThinking /\ ~RewriteSystem
    <2>1. body' = body
        BY <1>4 DEF Next, Dispatch, Succeed, NetworkError, RetryStatus,
                    HandleErrorResponse, ErrorBodyBreaks, ExitLoop, SameRequest
    <2> QED BY <2>1
<1> QED BY <1>2, <1>3, <1>4

\* The corrections made for one refusal stay in every later body of the call.
THEOREM CorrectionsKeptTheorem == Spec => CorrectionsKept
<1>1. IInv /\ [Next]_vars =>
        [(body'.thinking => body.thinking) /\ (body'.inline => body.inline)]_vars
    BY CorrectionsKeptStep
<1> QED BY <1>1, TransportInvariantTheorem, PTL DEF Spec, CorrectionsKept

-----------------------------------------------------------------------------
(***************************************************************************)
(* The connection of a CONNECT.                                            *)
(***************************************************************************)
\* A piece of the bytes of one side: the first of them is number off + 1.
Numbered(q, off) == \A i \in 1..Len(q) : q[i] = off + i

\* The bytes of a side in the order they were sent: read by the other side, in the
\* socket to it, in the thread's hands, in the socket from it.
Flow(r, l, h, a) ==
    /\ r \in Seq(Nat) /\ l \in Seq(Nat) /\ h \in Seq(Nat) /\ a \in Seq(Nat)
    /\ Numbered(r, 0) /\ Numbered(l, Len(r)) /\ Numbered(h, Len(r) + Len(l))
    /\ Numbered(a, Len(r) + Len(l) + Len(h))

Total(r, l, h, a) == Len(r) + Len(l) + Len(h) + Len(a)

Hand(s) == IF thread.for = Other(s) THEN thread.data ELSE <<>>

SideOK(s) ==
    /\ Flow(received[Other(s)], leaving[Other(s)], Hand(s), arriving[s])
    /\ Total(received[Other(s)], leaving[Other(s)], Hand(s), arriving[s]) <= bytes[s]
    /\ peers[s] # "reset" =>
           Total(received[Other(s)], leaving[Other(s)], Hand(s), arriving[s]) = bytes[s]

Statuses == {"200", "400", "403", "405", "502", "reply"}

Ats == {"connect", "dial", "peek", "accept", "write", "read", "handshake", "request",
        "forward", "relay", "ended"}

Threads == [at : Ats, data : Seq(Nat), for : Sides, ready : SUBSET Sides,
            closedBy : Sides \cup {"none"}]

TunnelTypes ==
    /\ target \in Targets
    /\ peers \in [Sides -> {"open", "half", "gone", "reset"}] /\ bytes \in [Sides -> Nat]
    /\ arriving \in [Sides -> Seq(Nat)] /\ leaving \in [Sides -> Seq(Nat)]
    /\ received \in [Sides -> Seq(Nat)]
    /\ statuses \in [connect : Seq(Statuses), inner : Seq(Statuses)]
    /\ thread \in Threads

\* What the thread holds at each place, and what a tunnel that one side ended has passed.
ThreadInv ==
    /\ thread.at \in {"connect", "read"} => thread.data = <<>>
    /\ thread.at \in {"connect", "dial", "peek", "accept"} => thread.for = "origin"
    /\ \A s \in Sides : thread.closedBy = s =>
          thread.at = "ended" /\ Len(received[Other(s)]) + Len(leaving[Other(s)]) = bytes[s]

StatusInv ==
    /\ thread.at \in {"connect", "dial", "peek", "accept"} =>
          statuses.connect = <<>> /\ statuses.inner = <<>>
    /\ thread.at \in {"write", "read", "handshake", "request", "forward"} =>
          statuses.connect = <<"200">> /\ statuses.inner = <<>>
    /\ thread.at = "relay" => Len(statuses.connect) = 1 /\ Len(statuses.inner) = 1
    /\ thread.at = "ended" =>
          /\ Len(statuses.connect) <= 1 /\ Len(statuses.inner) <= 1
          /\ statuses.connect = <<>> => peers["client"] \in {"gone", "reset"}

TunnelInv == TunnelTypes /\ ThreadInv /\ StatusInv /\ \A s \in Sides : SideOK(s)

-----------------------------------------------------------------------------
LEMMA NumEmpty == \A off : <<>> \in Seq(Nat) /\ Len(<<>>) = 0 /\ Numbered(<<>>, off)
BY DEF Numbered

LEMMA NumAppend ==
    ASSUME NEW q \in Seq(Nat), NEW off \in Nat, Numbered(q, off), NEW n, n = off + Len(q) + 1
    PROVE  /\ Append(q, n) \in Seq(Nat) /\ Len(Append(q, n)) = Len(q) + 1
           /\ Numbered(Append(q, n), off)
<1>1. Len(q) \in Nat /\ n \in Nat
    BY LenProperties
<1>2. /\ Append(q, n) \in Seq(Nat) /\ Len(Append(q, n)) = Len(q) + 1
      /\ \A i \in 1..Len(q) : Append(q, n)[i] = q[i]
      /\ Append(q, n)[Len(q) + 1] = n
    BY <1>1, AppendProperties
<1>3. ASSUME NEW i \in 1..(Len(q) + 1) PROVE Append(q, n)[i] = off + i
    <2>1. CASE i = Len(q) + 1
        BY <1>1, <1>2, <2>1
    <2>2. CASE i # Len(q) + 1
        <3>1. i \in 1..Len(q)
            BY <1>1, <2>2
        <3>2. QED BY <1>2, <3>1 DEF Numbered
    <2>3. QED BY <2>1, <2>2
<1>4. QED BY <1>2, <1>3 DEF Numbered

LEMMA NumTail ==
    ASSUME NEW q \in Seq(Nat), q # <<>>, NEW off \in Nat, Numbered(q, off)
    PROVE  /\ Head(q) = off + 1 /\ Tail(q) \in Seq(Nat) /\ Len(q) >= 1
           /\ Len(Tail(q)) = Len(q) - 1 /\ Numbered(Tail(q), off + 1)
<1>1. Len(q) \in Nat /\ Len(q) >= 1
    BY EmptySeq, LenProperties
<1>2. /\ Head(q) = q[1] /\ Tail(q) \in Seq(Nat) /\ Len(Tail(q)) = Len(q) - 1
      /\ \A i \in 1..Len(Tail(q)) : Tail(q)[i] = q[i + 1]
    BY <1>1, HeadTailProperties
<1>3. q[1] = off + 1
    BY <1>1 DEF Numbered
<1>4. ASSUME NEW i \in 1..Len(Tail(q)) PROVE Tail(q)[i] = off + 1 + i
    <2>1. i + 1 \in 1..Len(q)
        BY <1>1, <1>2
    <2>2. q[i + 1] = off + (i + 1)
        BY <2>1 DEF Numbered
    <2>3. QED BY <1>2, <2>2
<1>5. QED BY <1>1, <1>2, <1>3, <1>4 DEF Numbered

LEMMA NumSplit ==
    ASSUME NEW q \in Seq(Nat), NEW off \in Nat, Numbered(q, off), NEW n \in 0..Len(q)
    PROVE  /\ SubSeq(q, 1, n) \in Seq(Nat) /\ Len(SubSeq(q, 1, n)) = n
           /\ Numbered(SubSeq(q, 1, n), off)
           /\ SubSeq(q, n + 1, Len(q)) \in Seq(Nat) /\ Len(SubSeq(q, n + 1, Len(q))) = Len(q) - n
           /\ Numbered(SubSeq(q, n + 1, Len(q)), off + n)
<1>1. Len(q) \in Nat /\ n \in Nat /\ n <= Len(q)
    BY LenProperties
<1>2. \A i \in 1..Len(q) : q[i] \in Nat
    BY ElementOfSeq
<1>3. /\ SubSeq(q, 1, n) \in Seq(Nat) /\ Len(SubSeq(q, 1, n)) = n
      /\ \A i \in 1..n : SubSeq(q, 1, n)[i] = q[i]
    BY <1>1, <1>2
<1>4. /\ SubSeq(q, n + 1, Len(q)) \in Seq(Nat) /\ Len(SubSeq(q, n + 1, Len(q))) = Len(q) - n
      /\ \A i \in 1..(Len(q) - n) : SubSeq(q, n + 1, Len(q))[i] = q[n + i]
    BY <1>1, <1>2
<1>5. \A i \in 1..n : q[i] = off + i
    BY <1>1 DEF Numbered
<1>6. ASSUME NEW i \in 1..(Len(q) - n) PROVE q[n + i] = off + n + i
    <2>1. n + i \in 1..Len(q)
        BY <1>1
    <2>2. q[n + i] = off + (n + i)
        BY <2>1 DEF Numbered
    <2>3. QED BY <1>1, <2>2
<1>7. QED BY <1>3, <1>4, <1>5, <1>6 DEF Numbered

\* The ways a byte moves on.
LEMMA FlowReceive ==
    ASSUME NEW r, NEW l, NEW h, NEW a, Flow(r, l, h, a), l # <<>>
    PROVE  /\ Flow(Append(r, Head(l)), Tail(l), h, a)
           /\ Total(Append(r, Head(l)), Tail(l), h, a) = Total(r, l, h, a)
           /\ Len(Append(r, Head(l))) + Len(Tail(l)) = Len(r) + Len(l)
<1>1. /\ r \in Seq(Nat) /\ l \in Seq(Nat) /\ h \in Seq(Nat) /\ a \in Seq(Nat)
      /\ Len(r) \in Nat /\ Len(l) \in Nat /\ Len(h) \in Nat /\ Len(a) \in Nat
      /\ Numbered(r, 0) /\ Numbered(l, Len(r)) /\ Numbered(h, Len(r) + Len(l))
      /\ Numbered(a, Len(r) + Len(l) + Len(h))
    BY LenProperties DEF Flow
<1>2. /\ Head(l) = Len(r) + 1 /\ Tail(l) \in Seq(Nat) /\ Len(l) >= 1
      /\ Len(Tail(l)) = Len(l) - 1 /\ Numbered(Tail(l), Len(r) + 1)
    BY <1>1, NumTail
<1>3. /\ Append(r, Head(l)) \in Seq(Nat) /\ Len(Append(r, Head(l))) = Len(r) + 1
      /\ Numbered(Append(r, Head(l)), 0)
    BY <1>1, <1>2, NumAppend
<1>4. Len(Append(r, Head(l))) + Len(Tail(l)) = Len(r) + Len(l)
    BY <1>1, <1>2, <1>3
<1>5. QED BY <1>1, <1>2, <1>3, <1>4 DEF Flow, Total

LEMMA FlowWrite ==
    ASSUME NEW r, NEW l, NEW h, NEW a, Flow(r, l, h, a), h # <<>>
    PROVE  /\ Flow(r, Append(l, Head(h)), Tail(h), a)
           /\ Total(r, Append(l, Head(h)), Tail(h), a) = Total(r, l, h, a)
<1>1. /\ r \in Seq(Nat) /\ l \in Seq(Nat) /\ h \in Seq(Nat) /\ a \in Seq(Nat)
      /\ Len(r) \in Nat /\ Len(l) \in Nat /\ Len(h) \in Nat /\ Len(a) \in Nat
      /\ Numbered(r, 0) /\ Numbered(l, Len(r)) /\ Numbered(h, Len(r) + Len(l))
      /\ Numbered(a, Len(r) + Len(l) + Len(h))
    BY LenProperties DEF Flow
<1>2. /\ Head(h) = Len(r) + Len(l) + 1 /\ Tail(h) \in Seq(Nat) /\ Len(h) >= 1
      /\ Len(Tail(h)) = Len(h) - 1 /\ Numbered(Tail(h), Len(r) + Len(l) + 1)
    BY <1>1, NumTail
<1>3. /\ Append(l, Head(h)) \in Seq(Nat) /\ Len(Append(l, Head(h))) = Len(l) + 1
      /\ Numbered(Append(l, Head(h)), Len(r))
    BY <1>1, <1>2, NumAppend
<1>4. /\ Len(r) + Len(Append(l, Head(h))) = Len(r) + Len(l) + 1
      /\ Len(r) + Len(Append(l, Head(h))) + Len(Tail(h)) = Len(r) + Len(l) + Len(h)
    BY <1>1, <1>2, <1>3
<1>5. QED BY <1>1, <1>2, <1>3, <1>4 DEF Flow, Total

LEMMA FlowTake ==
    ASSUME NEW r, NEW l, NEW a, Flow(r, l, <<>>, a)
    PROVE  Flow(r, l, a, <<>>) /\ Total(r, l, a, <<>>) = Total(r, l, <<>>, a)
<1>1. /\ r \in Seq(Nat) /\ l \in Seq(Nat) /\ a \in Seq(Nat)
      /\ Len(r) \in Nat /\ Len(l) \in Nat /\ Len(a) \in Nat
      /\ Numbered(r, 0) /\ Numbered(l, Len(r)) /\ Numbered(a, Len(r) + Len(l) + 0)
    BY LenProperties, NumEmpty DEF Flow
<1>2. Numbered(a, Len(r) + Len(l))
    BY <1>1
<1>3. QED BY <1>1, <1>2, NumEmpty DEF Flow, Total

LEMMA FlowSplit ==
    ASSUME NEW r, NEW l, NEW a, Flow(r, l, <<>>, a), NEW n \in 0..Len(a)
    PROVE  /\ Flow(r, l, SubSeq(a, 1, n), SubSeq(a, n + 1, Len(a)))
           /\ Total(r, l, SubSeq(a, 1, n), SubSeq(a, n + 1, Len(a))) = Total(r, l, <<>>, a)
<1>1. /\ r \in Seq(Nat) /\ l \in Seq(Nat) /\ a \in Seq(Nat)
      /\ Len(r) \in Nat /\ Len(l) \in Nat /\ Len(a) \in Nat
      /\ Numbered(r, 0) /\ Numbered(l, Len(r)) /\ Numbered(a, Len(r) + Len(l) + 0)
    BY LenProperties, NumEmpty DEF Flow
<1>2. Numbered(a, Len(r) + Len(l)) /\ Len(r) + Len(l) \in Nat
    BY <1>1
<1>3. PICK h, b : h = SubSeq(a, 1, n) /\ b = SubSeq(a, n + 1, Len(a))
    OBVIOUS
<1>4. /\ h \in Seq(Nat) /\ Len(h) = n /\ Numbered(h, Len(r) + Len(l))
      /\ b \in Seq(Nat) /\ Len(b) = Len(a) - n /\ Numbered(b, Len(r) + Len(l) + n)
    BY <1>1, <1>2, <1>3, NumSplit
<1>5. Total(r, l, h, b) = Total(r, l, <<>>, a)
    BY <1>1, <1>4, NumEmpty DEF Total
<1>6. Flow(r, l, h, b)
    BY <1>1, <1>4 DEF Flow
<1>7. QED BY <1>3, <1>5, <1>6

LEMMA FlowSend ==
    ASSUME NEW r, NEW l, NEW h, NEW a, Flow(r, l, h, a), NEW n, n = Total(r, l, h, a) + 1
    PROVE  Flow(r, l, h, Append(a, n)) /\ Total(r, l, h, Append(a, n)) = n
<1>1. /\ r \in Seq(Nat) /\ l \in Seq(Nat) /\ h \in Seq(Nat) /\ a \in Seq(Nat)
      /\ Len(r) \in Nat /\ Len(l) \in Nat /\ Len(h) \in Nat /\ Len(a) \in Nat
      /\ Numbered(r, 0) /\ Numbered(l, Len(r)) /\ Numbered(h, Len(r) + Len(l))
      /\ Numbered(a, Len(r) + Len(l) + Len(h))
    BY LenProperties DEF Flow
<1>2. n = Len(r) + Len(l) + Len(h) + Len(a) + 1
    BY DEF Total
<1>3. /\ Append(a, n) \in Seq(Nat) /\ Len(Append(a, n)) = Len(a) + 1
      /\ Numbered(Append(a, n), Len(r) + Len(l) + Len(h))
    BY <1>1, <1>2, NumAppend
<1>4. Total(r, l, h, Append(a, n)) = n
    BY <1>1, <1>2, <1>3 DEF Total
<1>5. QED BY <1>1, <1>3, <1>4 DEF Flow

LEMMA FlowReset ==
    ASSUME NEW r, NEW l, NEW h, NEW a, Flow(r, l, h, a)
    PROVE  /\ Flow(r, l, h, <<>>) /\ Total(r, l, h, <<>>) <= Total(r, l, h, a)
           /\ Total(r, l, h, <<>>) \in Nat /\ Total(r, l, h, a) \in Nat
<1>1. /\ r \in Seq(Nat) /\ l \in Seq(Nat) /\ h \in Seq(Nat) /\ a \in Seq(Nat)
      /\ Len(r) \in Nat /\ Len(l) \in Nat /\ Len(h) \in Nat /\ Len(a) \in Nat
    BY LenProperties DEF Flow
<1>2. /\ Total(r, l, h, <<>>) <= Total(r, l, h, a)
      /\ Total(r, l, h, <<>>) \in Nat /\ Total(r, l, h, a) \in Nat
    BY <1>1, NumEmpty DEF Total
<1>3. QED BY <1>1, <1>2, NumEmpty DEF Flow

-----------------------------------------------------------------------------
LEMMA ThreadFacts ==
    ASSUME TunnelInv
    PROVE  /\ thread \in Threads /\ thread.at \in Ats /\ thread.data \in Seq(Nat)
           /\ thread.for \in Sides /\ thread.ready \in SUBSET Sides
           /\ thread.closedBy \in Sides \cup {"none"}
           /\ thread.at # "ended" => thread.closedBy = "none"
<1>1. thread \in Threads
    BY DEF TunnelInv, TunnelTypes
<1>2. thread.at # "ended" => \A s \in Sides : thread.closedBy # s
    BY DEF TunnelInv, ThreadInv
<1>3. QED BY <1>1, <1>2 DEF Threads

LEMMA SidesFacts ==
    ASSUME NEW s \in Sides
    PROVE  Other(s) \in Sides /\ Other(s) # s /\ Other(Other(s)) = s
           /\ \A t \in Sides : t = s \/ t = Other(s)
BY DEF Sides, Other

LEMMA SideKept ==
    ASSUME NEW s \in Sides, SideOK(s),
           UNCHANGED <<received[Other(s)], leaving[Other(s)], Hand(s), arriving[s], bytes[s], peers[s]>>
    PROVE  SideOK(s)'
BY DEF SideOK

LEMMA GotoFacts ==
    ASSUME TunnelInv, NEW at \in Ats, Goto(at)
    PROVE  /\ thread' \in Threads /\ thread'.at = at
           /\ thread'.data = thread.data /\ thread'.for = thread.for
           /\ thread'.ready = thread.ready /\ thread'.closedBy = thread.closedBy
<1>1. thread \in Threads
    BY ThreadFacts
<1>2. QED BY <1>1 DEF Goto, Threads

\* A step of the thread that touches no socket.
LEMMA GotoStep ==
    ASSUME TunnelInv, NEW at \in Ats, Goto(at), thread.at # "ended",
           UNCHANGED <<target, sockets>>,
           statuses' \in [connect : Seq(Statuses), inner : Seq(Statuses)], StatusInv',
           at \in {"connect", "read"} => thread.data = <<>>,
           at \in {"connect", "dial", "peek", "accept"} => thread.for = "origin"
    PROVE  TunnelInv'
<1>1. /\ thread' \in Threads /\ thread'.at = at
      /\ thread'.data = thread.data /\ thread'.for = thread.for
      /\ thread'.ready = thread.ready /\ thread'.closedBy = thread.closedBy
    BY GotoFacts
<1>2. UNCHANGED <<target, peers, bytes, arriving, leaving, received>>
    BY DEF sockets
<1>3. TunnelTypes'
    BY <1>1, <1>2 DEF TunnelInv, TunnelTypes
<1>4. thread.closedBy = "none"
    BY ThreadFacts
<1>5. ThreadInv'
    BY <1>1, <1>4 DEF ThreadInv, Sides
<1>6. ASSUME NEW s \in Sides PROVE SideOK(s)'
    <2>1. Hand(s)' = Hand(s) /\ SideOK(s)
        BY <1>1 DEF Hand, TunnelInv
    <2>2. QED BY <1>2, <2>1, SideKept
<1>7. QED BY <1>3, <1>5, <1>6 DEF TunnelInv

LEMMA StatusFacts ==
    ASSUME TunnelInv
    PROVE  /\ statuses \in [connect : Seq(Statuses), inner : Seq(Statuses)]
           /\ statuses.connect \in Seq(Statuses) /\ statuses.inner \in Seq(Statuses) /\ StatusInv
<1>1. statuses \in [connect : Seq(Statuses), inner : Seq(Statuses)] /\ StatusInv
    BY DEF TunnelInv, TunnelTypes
<1>2. QED BY <1>1

LEMMA ConnectAnswered ==
    ASSUME TunnelInv, NEW status \in Statuses, AnswerConnect(status), statuses.connect = <<>>,
           statuses.inner = <<>>
    PROVE  /\ statuses' \in [connect : Seq(Statuses), inner : Seq(Statuses)]
           /\ statuses'.connect = <<status>> /\ statuses'.inner = <<>>
           /\ Len(statuses'.connect) = 1 /\ Len(statuses'.inner) = 0
<1>1. statuses \in [connect : Seq(Statuses), inner : Seq(Statuses)]
    BY StatusFacts
<1>2. <<status>> \in Seq(Statuses) /\ Len(<<status>>) = 1 /\ Append(<<>>, status) = <<status>>
    OBVIOUS
<1>3. statuses' = [statuses EXCEPT !.connect = <<status>>]
    BY <1>2 DEF AnswerConnect
<1>4. QED BY <1>1, <1>2, <1>3

LEMMA InnerAnswered ==
    ASSUME TunnelInv, NEW status \in Statuses, AnswerInner(status),
           statuses.connect = <<"200">>, statuses.inner = <<>>
    PROVE  /\ statuses' \in [connect : Seq(Statuses), inner : Seq(Statuses)]
           /\ statuses'.connect = <<"200">> /\ statuses'.inner = <<status>>
           /\ Len(statuses'.connect) = 1 /\ Len(statuses'.inner) = 1
<1>1. statuses \in [connect : Seq(Statuses), inner : Seq(Statuses)]
    BY StatusFacts
<1>2. <<status>> \in Seq(Statuses) /\ Len(<<status>>) = 1 /\ Append(<<>>, status) = <<status>> /\ Len(<<"200">>) = 1
    OBVIOUS
<1>3. statuses' = [statuses EXCEPT !.inner = <<status>>]
    BY <1>2 DEF AnswerInner
<1>4. QED BY <1>1, <1>2, <1>3

LEMMA NotEnded == Len(<<>>) = 0 /\ Len(<<"200">>) = 1 /\ <<"200">> # <<>>
OBVIOUS

\* Before the 200, and its refusals.
LEMMA ConnectStep ==
    ASSUME TunnelInv, Refuse \/ Dial \/ DialFails \/ Accept
    PROVE  TunnelInv'
<1>1. /\ UNCHANGED <<target, sockets>> /\ UNCHANGED <<target, peers>>
      /\ statuses \in [connect : Seq(Statuses), inner : Seq(Statuses)] /\ StatusInv
    BY StatusFacts DEF Refuse, Dial, DialFails, Accept, sockets
<1>2. /\ thread.at \in {"connect", "dial", "accept"} /\ thread.for = "origin"
      /\ statuses.connect = <<>> /\ statuses.inner = <<>>
    BY DEF Refuse, Dial, DialFails, Accept, TunnelInv, ThreadInv, StatusInv
<1>3. CASE Refuse \/ DialFails
    <2>1. Goto("ended") /\ "ended" \in Ats
        BY <1>3 DEF Refuse, DialFails, End, Ats
    <2>2. PICK status \in Statuses : AnswerConnect(status)
        <3>1. CASE Refuse
            <4>1. target \in {"off", "malformed", "forbidden"}
                BY <3>1 DEF Refuse
            <4>2. AnswerConnect("405") \/ AnswerConnect("400") \/ AnswerConnect("403")
                BY <3>1, <4>1 DEF Refuse
            <4>3. QED BY <4>2 DEF Statuses
        <3>2. CASE DialFails
            BY <3>2 DEF DialFails, Statuses
        <3>3. QED BY <1>3, <3>1, <3>2
    <2>3. /\ statuses' \in [connect : Seq(Statuses), inner : Seq(Statuses)]
          /\ statuses'.connect = <<status>> /\ Len(statuses'.connect) = 1
          /\ Len(statuses'.inner) = 0
        BY <1>2, <2>2, ConnectAnswered
    <2>4. thread'.at = "ended" /\ statuses'.connect # <<>>
        BY <2>1, <2>3, GotoFacts
    <2>5. StatusInv'
        BY <2>3, <2>4 DEF StatusInv
    <2>6. QED BY <1>1, <1>2, <2>1, <2>3, <2>5, GotoStep
<1>4. CASE Dial
    <2>1. Goto("peek") /\ "peek" \in Ats /\ statuses' = statuses
        BY <1>4 DEF Dial, Ats
    <2>2. thread'.at = "peek"
        BY <2>1, GotoFacts
    <2>3. StatusInv'
        BY <1>2, <2>1, <2>2 DEF StatusInv
    <2>4. QED BY <1>1, <1>2, <2>1, <2>3, GotoStep
<1>5. CASE Accept /\ AnswerConnect("200") /\ Goto(IF target = "opaque" THEN "write"
                                   ELSE IF thread.data # <<>> THEN "ended" ELSE "handshake")
    <2>1. PICK at \in {"write", "ended", "handshake"} : Goto(at)
        BY <1>5
    <2>2. at \in Ats
        BY DEF Ats
    <2>3. /\ statuses' \in [connect : Seq(Statuses), inner : Seq(Statuses)]
          /\ statuses'.connect = <<"200">> /\ statuses'.inner = <<>>
          /\ Len(statuses'.connect) = 1 /\ Len(statuses'.inner) = 0
        <3>1. PICK status \in Statuses : status = "200" /\ AnswerConnect(status)
            BY <1>5 DEF Statuses
        <3>2. QED BY <1>2, <3>1, ConnectAnswered
    <2>4. thread'.at \in {"write", "ended", "handshake"} /\ statuses'.connect # <<>>
        BY <2>1, <2>2, <2>3, GotoFacts
    <2>5. StatusInv'
        BY <2>3, <2>4 DEF StatusInv
    <2>6. at \notin {"connect", "read", "dial", "peek", "accept"}
        OBVIOUS
    <2>7. QED BY <1>1, <1>2, <2>1, <2>2, <2>3, <2>5, <2>6, GotoStep
<1>6. CASE Accept /\ peers.client \in {"gone", "reset"} /\ End /\ UNCHANGED statuses
    <2>1. Goto("ended") /\ "ended" \in Ats /\ statuses' = statuses
        BY <1>6 DEF End, Ats
    <2>2. thread'.at = "ended" /\ peers'["client"] \in {"gone", "reset"}
        BY <1>1, <1>6, <2>1, GotoFacts
    <2>3. StatusInv'
        BY <1>2, <2>1, <2>2, NotEnded DEF StatusInv
    <2>4. QED BY <1>1, <1>2, <2>1, <2>3, GotoStep
<1>7. QED BY <1>3, <1>4, <1>5, <1>6 DEF Accept

\* The steps that write no status.
LEMMA SilentStep ==
    ASSUME TunnelInv,
           WriteTimeout \/ Written \/ IdleTimeout \/ Handshake \/ NoRequest \/ Forward
                   \/ BodyBreaks \/ RelayEnds \/ RelayBreaks
    PROVE  TunnelInv'
<1>1. /\ UNCHANGED <<target, sockets>> /\ statuses' = statuses
      /\ statuses \in [connect : Seq(Statuses), inner : Seq(Statuses)] /\ StatusInv
    BY StatusFacts
       DEF WriteTimeout, Written, IdleTimeout, Handshake, NoRequest,
           Forward, BodyBreaks, RelayEnds, RelayBreaks, BreakLogged
<1>2. thread.at \in {"write", "read", "handshake", "request", "forward", "relay"}
    BY DEF WriteTimeout, Written, IdleTimeout, Handshake, NoRequest,
           Forward, BodyBreaks, RelayEnds, RelayBreaks
<1>3. PICK at \in {"read", "request", "forward", "ended"} :
          /\ Goto(at)
          /\ at # "ended" => thread.at \in {"write", "handshake", "request"}
          /\ at = "read" => thread.data = <<>>
    BY DEF WriteTimeout, Written, IdleTimeout, Handshake, NoRequest,
           Forward, BodyBreaks, RelayEnds, RelayBreaks, End
<1>4. at \in Ats
    BY DEF Ats
<1>5. thread'.at = at
    BY <1>3, <1>4, GotoFacts
<1>6. StatusInv'
    <2>1. CASE at = "ended"
        <3>1. CASE thread.at = "relay"
            <4>1. Len(statuses.connect) = 1 /\ Len(statuses.inner) = 1
                BY <1>1, <3>1 DEF StatusInv
            <4>2. statuses.connect # <<>>
                BY <4>1, NotEnded
            <4>3. QED BY <1>1, <1>5, <2>1, <4>1, <4>2 DEF StatusInv
        <3>2. CASE thread.at # "relay"
            <4>1. statuses.connect = <<"200">> /\ statuses.inner = <<>>
                BY <1>1, <1>2, <3>2 DEF StatusInv
            <4>2. Len(statuses.connect) = 1 /\ Len(statuses.inner) = 0 /\ statuses.connect # <<>>
                BY <4>1, NotEnded
            <4>3. QED BY <1>1, <1>5, <2>1, <4>2 DEF StatusInv
        <3>3. QED BY <3>1, <3>2
    <2>2. CASE at # "ended"
        BY <1>1, <1>3, <1>5, <2>2 DEF StatusInv
    <2>3. QED BY <2>1, <2>2
<1>7. thread.at # "ended" /\ at \notin {"connect", "dial", "peek", "accept"}
    BY <1>2
<1>8. QED BY <1>1, <1>3, <1>4, <1>6, <1>7, GotoStep

\* The steps that answer the request inside.
LEMMA InnerStep ==
    ASSUME TunnelInv,
           RefuseInner \/ AnswerHere \/ BadBody \/ ForwardFails \/ BeginRelay
    PROVE  TunnelInv'
<1>1. /\ UNCHANGED <<target, sockets>> /\ thread.at \in {"request", "forward"} /\ StatusInv
    BY StatusFacts
       DEF RefuseInner, AnswerHere, BadBody, ForwardFails, BeginRelay
<1>2. statuses.connect = <<"200">> /\ statuses.inner = <<>>
    BY <1>1 DEF StatusInv
<1>3. PICK at \in {"relay", "ended"}, status \in Statuses : /\ Goto(at)
                                                            /\ AnswerInner(status)
    <2>1. Goto("relay") \/ Goto("ended")
        BY DEF RefuseInner, AnswerHere, BadBody, ForwardFails, BeginRelay,
               End
    <2>2. \/ AnswerInner("405") \/ AnswerInner("200") \/ AnswerInner("400") \/ AnswerInner("502")
          \/ AnswerInner("reply")
        BY DEF RefuseInner, AnswerHere, BadBody, ForwardFails, BeginRelay
    <2>3. \E status \in Statuses : AnswerInner(status)
        BY <2>2 DEF Statuses
    <2>4. QED BY <2>1, <2>3
<1>4. at \in Ats
    BY DEF Ats
<1>5. /\ statuses' \in [connect : Seq(Statuses), inner : Seq(Statuses)]
      /\ statuses'.connect = <<"200">> /\ statuses'.inner = <<status>>
      /\ Len(statuses'.connect) = 1 /\ Len(statuses'.inner) = 1
    BY <1>2, <1>3, InnerAnswered
<1>6. thread'.at \in {"relay", "ended"} /\ statuses'.connect # <<>>
    BY <1>3, <1>4, <1>5, GotoFacts
<1>7. StatusInv'
    BY <1>5, <1>6 DEF StatusInv
<1>8. thread.at # "ended" /\ at \notin {"connect", "read", "dial", "peek", "accept"}
    BY <1>1
<1>9. QED BY <1>1, <1>3, <1>4, <1>5, <1>7, <1>8, GotoStep

\* The sockets' and the peers' state.
LEMMA SocketFacts ==
    ASSUME TunnelInv, NEW s \in Sides
    PROVE  /\ received[s] \in Seq(Nat) /\ leaving[s] \in Seq(Nat) /\ arriving[s] \in Seq(Nat)
           /\ bytes[s] \in Nat /\ peers[s] \in {"open", "half", "gone", "reset"} /\ SideOK(s)
BY DEF TunnelInv, TunnelTypes

\* A step of a peer while the thread runs.
LEMMA PeerFrame ==
    ASSUME TunnelInv, UNCHANGED <<target, statuses, thread>>, thread.at # "ended",
           NEW side \in Sides,
           peers' \in [Sides -> {"open", "half", "gone", "reset"}],
           bytes' \in [Sides -> Nat],
           arriving' \in [Sides -> Seq(Nat)], UNCHANGED <<leaving, received>>,
           peers'[Other(side)] = peers[Other(side)],
           bytes'[Other(side)] = bytes[Other(side)],
           arriving'[Other(side)] = arriving[Other(side)], SideOK(side)'
    PROVE  TunnelInv'
<1>1. TunnelTypes'
    BY DEF TunnelInv, TunnelTypes
<1>2. thread.closedBy = "none"
    BY ThreadFacts
<1>3. ThreadInv' /\ StatusInv'
    BY <1>2 DEF TunnelInv, ThreadInv, StatusInv, Sides
<1>4. Hand(Other(side))' = Hand(Other(side)) /\ SideOK(Other(side)) /\ Other(side) \in Sides
    BY SidesFacts DEF Hand, TunnelInv
<1>5. SideOK(Other(side))'
    BY <1>4, SideKept
<1>6. \A s \in Sides : SideOK(s)'
    BY <1>5, SidesFacts
<1>7. QED BY <1>1, <1>3, <1>6 DEF TunnelInv

LEMMA SendStep == ASSUME TunnelInv, NEW side \in Sides, Send(side) PROVE TunnelInv'
<1>1. /\ thread.at # "ended" /\ peers[side] = "open"
      /\ bytes' = [bytes EXCEPT ![side] = bytes[side] + 1]
      /\ arriving' = [arriving EXCEPT ![side] = Append(arriving[side], bytes[side] + 1)]
      /\ UNCHANGED <<target, peers, leaving, received, statuses, thread>>
    BY DEF Send
<1>2. /\ arriving[side] \in Seq(Nat) /\ bytes[side] \in Nat /\ SideOK(side)
      /\ Other(side) \in Sides /\ Other(side) # side
    BY SocketFacts, SidesFacts
<1>3. PICK n \in Nat : n = bytes[side] + 1
    BY <1>2
<1>4. PICK a \in Seq(Nat) : a = Append(arriving[side], n)
    BY <1>2, AppendProperties
<1>5. bytes' = [bytes EXCEPT ![side] = n] /\ arriving' = [arriving EXCEPT ![side] = a]
    BY <1>1, <1>3, <1>4
<1>6. /\ bytes' \in [Sides -> Nat] /\ bytes'[side] = n
      /\ bytes'[Other(side)] = bytes[Other(side)]
      /\ arriving' \in [Sides -> Seq(Nat)] /\ arriving'[side] = a
      /\ arriving'[Other(side)] = arriving[Other(side)]
    BY <1>2, <1>5 DEF TunnelInv, TunnelTypes
<1>7. PICK r, l, h : /\ r = received[Other(side)] /\ l = leaving[Other(side)]
                     /\ h = Hand(side)
    OBVIOUS
<1>8. Flow(r, l, h, arriving[side]) /\ n = Total(r, l, h, arriving[side]) + 1
    BY <1>1, <1>2, <1>3, <1>7 DEF SideOK
<1>9. Flow(r, l, h, a) /\ Total(r, l, h, a) = n
    BY <1>4, <1>8, FlowSend
<1>10. Hand(side)' = h /\ received'[Other(side)] = r /\ leaving'[Other(side)] = l
    BY <1>1, <1>7 DEF Hand
<1>11. SideOK(side)'
    BY <1>3, <1>6, <1>9, <1>10 DEF SideOK
<1>12. /\ peers' \in [Sides -> {"open", "half", "gone", "reset"}]
       /\ peers'[Other(side)] = peers[Other(side)]
    BY <1>1 DEF TunnelInv, TunnelTypes
<1>13. QED BY <1>1, <1>6, <1>11, <1>12, PeerFrame

LEMMA CloseStep == ASSUME TunnelInv, NEW side \in Sides, Close(side) PROVE TunnelInv'
<1>1. /\ thread.at # "ended"
      /\ UNCHANGED <<target, bytes, arriving, leaving, received, statuses, thread>>
      /\ Other(side) \in Sides /\ Other(side) # side
    BY SidesFacts DEF Close
<1>2. PICK p \in {"half", "gone"} : peers[side] # "reset" /\ peers' = [peers EXCEPT ![side] = p]
    BY DEF Close
<1>3. /\ peers' \in [Sides -> {"open", "half", "gone", "reset"}] /\ peers'[side] = p
      /\ peers'[Other(side)] = peers[Other(side)]
    BY <1>1, <1>2 DEF TunnelInv, TunnelTypes
<1>4. SideOK(side) /\ Hand(side)' = Hand(side)
    BY <1>1 DEF TunnelInv, Hand
<1>5. SideOK(side)'
    BY <1>1, <1>2, <1>3, <1>4 DEF SideOK
<1>6. arriving' \in [Sides -> Seq(Nat)] /\ bytes' \in [Sides -> Nat]
    BY <1>1 DEF TunnelInv, TunnelTypes
<1>7. QED BY <1>1, <1>3, <1>5, <1>6, PeerFrame

LEMMA BreakStep == ASSUME TunnelInv, NEW side \in Sides, Break(side) PROVE TunnelInv'
<1>1. /\ thread.at # "ended" /\ UNCHANGED <<target, bytes, leaving, received, statuses, thread>>
      /\ Other(side) \in Sides /\ Other(side) # side
    BY SidesFacts DEF Break
<1>2. /\ peers' \in [Sides -> {"open", "half", "gone", "reset"}] /\ peers'[side] = "reset"
      /\ peers'[Other(side)] = peers[Other(side)]
    BY <1>1 DEF Break, TunnelInv, TunnelTypes
<1>3. /\ arriving' \in [Sides -> Seq(Nat)] /\ arriving'[side] = <<>>
      /\ arriving'[Other(side)] = arriving[Other(side)]
    BY <1>1, NumEmpty DEF Break, TunnelInv, TunnelTypes
<1>4. PICK r, l, h : /\ r = received[Other(side)] /\ l = leaving[Other(side)]
                     /\ h = Hand(side)
    OBVIOUS
<1>5. /\ Flow(r, l, h, arriving[side]) /\ Total(r, l, h, arriving[side]) <= bytes[side]
      /\ r \in Seq(Nat) /\ l \in Seq(Nat) /\ h \in Seq(Nat) /\ arriving[side] \in Seq(Nat)
      /\ bytes[side] \in Nat
    BY <1>4, SocketFacts DEF TunnelInv, SideOK, Flow
<1>6. /\ Flow(r, l, h, <<>>) /\ Total(r, l, h, <<>>) <= Total(r, l, h, arriving[side])
      /\ Total(r, l, h, <<>>) \in Nat /\ Total(r, l, h, arriving[side]) \in Nat
    BY <1>5, FlowReset
<1>8. Total(r, l, h, <<>>) <= bytes[side]
    BY <1>5, <1>6
<1>9. Hand(side)' = h /\ received'[Other(side)] = r /\ leaving'[Other(side)] = l /\ bytes'[side] = bytes[side]
    BY <1>1, <1>4 DEF Hand
<1>10. SideOK(side)'
    BY <1>2, <1>3, <1>6, <1>8, <1>9 DEF SideOK
<1>11. bytes' \in [Sides -> Nat]
    BY <1>1 DEF TunnelInv, TunnelTypes
<1>12. QED BY <1>1, <1>2, <1>3, <1>10, <1>11, PeerFrame

\* A peer reads on after the thread has ended.
LEMMA ReceiveStep == ASSUME TunnelInv, NEW side \in Sides, Receive(side) PROVE TunnelInv'
<1>1. PICK s \in Sides : side = Other(s) /\ s = Other(side) /\ s # side /\ \A t \in Sides : t = s \/ t = side
    BY SidesFacts
<1>2. /\ leaving[side] # <<>>
      /\ received' = [received EXCEPT ![side] = Append(received[side], Head(leaving[side]))]
      /\ leaving' = [leaving EXCEPT ![side] = Tail(leaving[side])]
      /\ UNCHANGED <<target, peers, bytes, arriving, statuses, thread>>
    BY DEF Receive
<1>3. PICK r, l, h, a : r = received[side] /\ l = leaving[side] /\ h = Hand(s) /\ a = arriving[s]
    OBVIOUS
<1>4. PICK r1, l1 : r1 = Append(r, Head(l)) /\ l1 = Tail(l)
    OBVIOUS
<1>5. Flow(r, l, h, a) /\ SideOK(s) /\ l # <<>>
    BY <1>1, <1>2, <1>3 DEF TunnelInv, SideOK
<1>6. Flow(r1, l1, h, a) /\ Total(r1, l1, h, a) = Total(r, l, h, a) /\ Len(r1) + Len(l1) = Len(r) + Len(l)
    BY <1>4, <1>5, FlowReceive
<1>7. r1 \in Seq(Nat) /\ l1 \in Seq(Nat)
    BY <1>6 DEF Flow
<1>8. received' = [received EXCEPT ![side] = r1] /\ leaving' = [leaving EXCEPT ![side] = l1]
    BY <1>2, <1>3, <1>4
<1>9. /\ received' \in [Sides -> Seq(Nat)] /\ received'[side] = r1
      /\ received'[s] = received[s]
      /\ leaving' \in [Sides -> Seq(Nat)] /\ leaving'[side] = l1 /\ leaving'[s] = leaving[s]
    BY <1>1, <1>7, <1>8 DEF TunnelInv, TunnelTypes
<1>10. Hand(s)' = h /\ Hand(side)' = Hand(side)
    BY <1>2, <1>3 DEF Hand
<1>11. SideOK(s)'
    BY <1>1, <1>2, <1>3, <1>5, <1>6, <1>9, <1>10 DEF SideOK
<1>12. SideOK(side)'
    BY <1>1, <1>2, <1>9, <1>10, SideKept DEF TunnelInv
<1>13. TunnelTypes' /\ StatusInv'
    BY <1>2, <1>9 DEF TunnelInv, TunnelTypes, StatusInv
<1>14. ASSUME NEW t \in Sides, thread'.closedBy = t
       PROVE  thread'.at = "ended" /\ Len(received'[Other(t)]) + Len(leaving'[Other(t)]) = bytes'[t]
    <2>1. thread.at = "ended" /\ Len(received[Other(t)]) + Len(leaving[Other(t)]) = bytes[t]
        BY <1>2, <1>14 DEF TunnelInv, ThreadInv
    <2>2. CASE t = s
        BY <1>1, <1>2, <1>3, <1>6, <1>9, <2>1, <2>2
    <2>3. CASE t = side
        BY <1>1, <1>2, <1>9, <2>1, <2>3
    <2>4. QED BY <1>1, <2>2, <2>3
<1>15. ThreadInv'
    BY <1>2, <1>14 DEF TunnelInv, ThreadInv
<1>16. QED BY <1>1, <1>11, <1>12, <1>13, <1>15 DEF TunnelInv

\* The client's bytes that arrived ahead of the 200 are taken in hand.
LEMMA TakeAhead ==
    ASSUME TunnelInv, thread.at \in {"connect", "peek"}, NEW at \in {"dial", "peek", "accept"},
           NEW h, NEW b,
           thread' = [thread EXCEPT !.at = at, !.data = h],
           arriving' = [arriving EXCEPT !["client"] = b],
           UNCHANGED <<target, peers, bytes, leaving, received, statuses>>,
           Flow(received["origin"], leaving["origin"], h, b),
           Total(received["origin"], leaving["origin"], h, b) =
               Total(received["origin"], leaving["origin"], thread.data, arriving["client"])
    PROVE  TunnelInv'
<1>1. /\ thread \in Threads /\ thread.for = "origin" /\ thread.closedBy = "none"
    BY ThreadFacts DEF TunnelInv, ThreadInv
<1>2. h \in Seq(Nat) /\ b \in Seq(Nat)
    BY DEF Flow
<1>3. /\ thread' \in Threads /\ thread'.at = at /\ thread'.data = h /\ thread'.for = "origin"
      /\ thread'.closedBy = "none"
    BY <1>1, <1>2 DEF Threads, Ats
<1>4. /\ arriving' \in [Sides -> Seq(Nat)] /\ arriving'["client"] = b
      /\ arriving'["origin"] = arriving["origin"]
    BY <1>2 DEF TunnelInv, TunnelTypes, Sides
<1>5. TunnelTypes'
    BY <1>3, <1>4 DEF TunnelInv, TunnelTypes
<1>6. ThreadInv'
    BY <1>3 DEF ThreadInv, Sides
<1>7. StatusInv'
    BY <1>3 DEF TunnelInv, StatusInv
<1>8. Other("client") = "origin" /\ Other("origin") = "client" /\ "client" \in Sides /\ "origin" \in Sides
    BY DEF Other, Sides
<1>9. /\ Hand("client") = thread.data /\ Hand("client")' = h
      /\ Hand("origin") = <<>> /\ Hand("origin")' = <<>>
    BY <1>1, <1>3, <1>8 DEF Hand
<1>10. SideOK("client")'
    BY <1>4, <1>8, <1>9 DEF TunnelInv, SideOK
<1>11. SideOK("origin")'
    BY <1>4, <1>8, <1>9, SideKept DEF TunnelInv
<1>12. \A s \in Sides : SideOK(s)'
    BY <1>10, <1>11 DEF Sides
<1>13. QED BY <1>5, <1>6, <1>7, <1>12 DEF TunnelInv

LEMMA ClientFlow ==
    ASSUME TunnelInv, thread.for = "origin"
    PROVE  Flow(received["origin"], leaving["origin"], thread.data, arriving["client"])
<1>1. Other("client") = "origin" /\ "client" \in Sides
    BY DEF Other, Sides
<1>2. SideOK("client") /\ Hand("client") = thread.data
    BY <1>1 DEF TunnelInv, Hand
<1>3. QED BY <1>1, <1>2 DEF SideOK

LEMMA ReadConnectStep == ASSUME TunnelInv, ReadConnect PROVE TunnelInv'
<1>1. PICK n \in 0..Len(arriving.client) :
        /\ thread' = [thread EXCEPT !.at = IF target = "opaque" THEN "dial" ELSE "peek",
                                    !.data = SubSeq(arriving.client, 1, n)]
        /\ arriving' = [arriving EXCEPT !.client = SubSeq(arriving.client, n + 1, Len(arriving.client))]
    BY DEF ReadConnect
<1>2. PICK at \in {"dial", "peek", "accept"} : at = IF target = "opaque" THEN "dial" ELSE "peek"
    OBVIOUS
<1>3. PICK r, l, a : r = received["origin"] /\ l = leaving["origin"] /\ a = arriving["client"]
    OBVIOUS
<1>4. PICK h, b : h = SubSeq(a, 1, n) /\ b = SubSeq(a, n + 1, Len(a))
    OBVIOUS
<1>5. /\ thread' = [thread EXCEPT !.at = at, !.data = h]
      /\ arriving' = [arriving EXCEPT !["client"] = b]
    BY <1>1, <1>2, <1>3, <1>4
<1>6. thread.at = "connect" /\ thread.data = <<>> /\ thread.for = "origin"
    BY DEF ReadConnect, TunnelInv, ThreadInv
<1>7. Flow(r, l, <<>>, a) /\ n \in 0..Len(a)
    BY <1>1, <1>3, <1>6, ClientFlow
<1>8. Flow(r, l, h, b) /\ Total(r, l, h, b) = Total(r, l, <<>>, a)
    BY <1>4, <1>7, FlowSplit
<1>9. UNCHANGED <<target, peers, bytes, leaving, received, statuses>>
    BY DEF ReadConnect
<1>10. QED BY <1>3, <1>5, <1>6, <1>8, <1>9, TakeAhead

LEMMA PeekStep == ASSUME TunnelInv, Peek PROVE TunnelInv'
<1>1. /\ thread.at = "peek" /\ thread.for = "origin"
      /\ UNCHANGED <<target, peers, bytes, leaving, received, statuses>>
    BY DEF Peek, TunnelInv, ThreadInv
<1>2. CASE thread.data = <<>> /\ peers.client = "reset"
    <2>1. Goto("ended") /\ "ended" \in Ats /\ UNCHANGED arriving
        BY <1>2 DEF Peek, End, Ats
    <2>2. UNCHANGED <<target, sockets>> /\ statuses' \in [connect : Seq(Statuses), inner : Seq(Statuses)]
        BY <1>1, <2>1, StatusFacts DEF sockets
    <2>3. thread'.at = "ended" /\ statuses.connect = <<>> /\ statuses.inner = <<>>
        BY <1>1, <2>1, GotoFacts, StatusFacts DEF StatusInv
    <2>4. StatusInv'
        BY <1>1, <1>2, <2>3, NotEnded DEF StatusInv
    <2>5. QED BY <1>1, <2>1, <2>2, <2>4, GotoStep
<1>3. CASE ~(thread.data = <<>> /\ peers.client = "reset")
    <2>1. /\ thread' = [thread EXCEPT !.at = "accept", !.data = TakeBuffered.data]
          /\ arriving' = [arriving EXCEPT !.client = TakeBuffered.rest]
        BY <1>3 DEF Peek
    <2>2. PICK r, l, a : r = received["origin"] /\ l = leaving["origin"] /\ a = arriving["client"]
        OBVIOUS
    <2>3. Flow(r, l, thread.data, a)
        BY <1>1, <2>2, ClientFlow
    <2>4. CASE thread.data # <<>>
        <3>1. TakeBuffered.data = thread.data /\ TakeBuffered.rest = a
            BY <2>2, <2>4 DEF TakeBuffered
        <3>2. /\ thread' = [thread EXCEPT !.at = "accept", !.data = thread.data]
              /\ arriving' = [arriving EXCEPT !["client"] = a]
            BY <2>1, <3>1
        <3>3. QED BY <1>1, <2>2, <2>3, <3>2, TakeAhead
    <2>5. CASE thread.data = <<>>
        <3>1. TakeBuffered.data = a /\ TakeBuffered.rest = <<>>
            BY <2>2, <2>5 DEF TakeBuffered
        <3>2. /\ thread' = [thread EXCEPT !.at = "accept", !.data = a]
              /\ arriving' = [arriving EXCEPT !["client"] = <<>>]
            BY <2>1, <3>1
        <3>3. Flow(r, l, a, <<>>) /\ Total(r, l, a, <<>>) = Total(r, l, thread.data, a)
            BY <2>3, <2>5, FlowTake
        <3>4. QED BY <1>1, <2>2, <3>2, <3>3, TakeAhead
    <2>6. QED BY <2>4, <2>5
<1>4. QED BY <1>2, <1>3

LEMMA SelectStep == ASSUME TunnelInv, Select PROVE TunnelInv'
<1>1. /\ thread.at = "read"
      /\ thread' = [thread EXCEPT !.ready = {s \in Sides : Readable(s)}]
      /\ UNCHANGED <<target, peers, bytes, arriving, leaving, received, statuses>>
    BY DEF Select, sockets
<1>2. thread \in Threads /\ thread.closedBy = "none"
    BY <1>1, ThreadFacts
<1>3. PICK ready \in SUBSET Sides : ready = {s \in Sides : Readable(s)}
    OBVIOUS
<1>4. /\ thread' \in Threads /\ thread'.at = thread.at /\ thread'.data = thread.data
      /\ thread'.for = thread.for /\ thread'.closedBy = thread.closedBy
    BY <1>1, <1>2, <1>3 DEF Threads
<1>5. TunnelTypes' /\ ThreadInv' /\ StatusInv'
    BY <1>1, <1>4 DEF TunnelInv, TunnelTypes, ThreadInv, StatusInv
<1>6. ASSUME NEW s \in Sides PROVE SideOK(s)'
    BY <1>1, <1>4, SideKept DEF TunnelInv, Hand
<1>7. QED BY <1>5, <1>6 DEF TunnelInv

\* sendall passes one byte on, or gives up on a peer that is gone.
LEMMA WriteStep == ASSUME TunnelInv, Write PROVE TunnelInv'
<1>1. /\ thread.at = "write" /\ thread.data # <<>>
      /\ UNCHANGED <<target, peers, bytes, arriving, received, statuses>>
    BY DEF Write
<1>2. StatusInv /\ statuses \in [connect : Seq(Statuses), inner : Seq(Statuses)]
    BY StatusFacts
<1>3. CASE End /\ UNCHANGED leaving
    <2>1. Goto("ended") /\ "ended" \in Ats /\ UNCHANGED <<target, sockets>>
        BY <1>1, <1>3 DEF End, Ats, sockets
    <2>2. thread'.at = "ended" /\ statuses.connect = <<"200">> /\ statuses.inner = <<>>
        BY <1>1, <1>2, <2>1, GotoFacts DEF StatusInv
    <2>3. StatusInv'
        BY <1>1, <2>2, NotEnded DEF StatusInv
    <2>4. QED BY <1>1, <1>2, <2>1, <2>3, GotoStep
<1>4. CASE /\ leaving' = [leaving EXCEPT ![thread.for] = Append(leaving[thread.for], Head(thread.data))]
           /\ thread' = [thread EXCEPT !.data = Tail(thread.data)]
    <2>1. thread \in Threads /\ thread.closedBy = "none" /\ thread.for \in Sides
        BY <1>1, ThreadFacts
    <2>2. PICK o \in Sides, s \in Sides : /\ o = thread.for /\ o = Other(s)
                                                  /\ s = Other(o) /\ s # o
              /\ \A t \in Sides : t = s \/ t = o
        BY <2>1, SidesFacts
    <2>3. PICK r, l, h, a : /\ r = received[o] /\ l = leaving[o] /\ h = thread.data
                            /\ a = arriving[s]
        OBVIOUS
    <2>4. PICK l1, h1 : l1 = Append(l, Head(h)) /\ h1 = Tail(h)
        OBVIOUS
    <2>5. Hand(s) = h /\ Hand(o) = <<>>
        BY <2>2, <2>3 DEF Hand
    <2>6. Flow(r, l, h, a) /\ SideOK(s) /\ h # <<>>
        BY <1>1, <2>2, <2>3, <2>5 DEF TunnelInv, SideOK
    <2>7. Flow(r, l1, h1, a) /\ Total(r, l1, h1, a) = Total(r, l, h, a)
        BY <2>4, <2>6, FlowWrite
    <2>8. l1 \in Seq(Nat) /\ h1 \in Seq(Nat)
        BY <2>7 DEF Flow
    <2>9. leaving' = [leaving EXCEPT ![o] = l1] /\ thread' = [thread EXCEPT !.data = h1]
        BY <1>4, <2>2, <2>3, <2>4
    <2>10. leaving' \in [Sides -> Seq(Nat)] /\ leaving'[o] = l1 /\ leaving'[s] = leaving[s]
        BY <2>2, <2>8, <2>9 DEF TunnelInv, TunnelTypes
    <2>11. /\ thread' \in Threads /\ thread'.at = "write" /\ thread'.data = h1 /\ thread'.for = o
           /\ thread'.closedBy = "none"
        BY <1>1, <2>1, <2>2, <2>8, <2>9 DEF Threads
    <2>12. Hand(s)' = h1 /\ Hand(o)' = <<>>
        BY <2>2, <2>11 DEF Hand
    <2>13. SideOK(s)'
        BY <1>1, <2>2, <2>3, <2>5, <2>6, <2>7, <2>10, <2>12 DEF SideOK
    <2>14. SideOK(o)'
        BY <1>1, <2>2, <2>5, <2>10, <2>12, SideKept DEF TunnelInv
    <2>15. TunnelTypes'
        BY <1>1, <2>10, <2>11 DEF TunnelInv, TunnelTypes
    <2>16. ThreadInv'
        BY <2>11 DEF ThreadInv, Sides
    <2>17. StatusInv'
        BY <1>1, <1>2, <2>11 DEF StatusInv
    <2>18. QED BY <2>2, <2>13, <2>14, <2>15, <2>16, <2>17 DEF TunnelInv
<1>5. QED BY <1>3, <1>4 DEF Write

\* A side's bytes are taken in hand, its end ends the tunnel, or it broke off.
LEMMA ReadStep == ASSUME TunnelInv, NEW side \in Sides, Read(side) PROVE TunnelInv'
<1>1. /\ thread.at = "read" /\ thread.data = <<>> /\ thread \in Threads
      /\ thread.closedBy = "none"
      /\ UNCHANGED <<target, peers, bytes, leaving, received, statuses>>
    BY ThreadFacts DEF Read, TunnelInv, ThreadInv
<1>2. StatusInv /\ statuses.connect = <<"200">> /\ statuses.inner = <<>>
      /\ statuses \in [connect : Seq(Statuses), inner : Seq(Statuses)]
    BY <1>1, StatusFacts DEF StatusInv
<1>3. PICK o \in Sides : o = Other(side) /\ side = Other(o) /\ o # side /\ \A t \in Sides : t = side \/ t = o
    BY SidesFacts
<1>4. Hand(side) = <<>> /\ Hand(o) = <<>> /\ SideOK(side) /\ SideOK(o)
    BY <1>1, <1>3 DEF Hand, TunnelInv
<1>5. PICK r, l, a : r = received[o] /\ l = leaving[o] /\ a = arriving[side]
    OBVIOUS
<1>6. Flow(r, l, <<>>, a)
    BY <1>3, <1>4, <1>5 DEF SideOK
<1>7. CASE /\ thread' = [thread EXCEPT !.at = "write", !.data = arriving[side],
                                       !.for = Other(side), !.ready = thread.ready \ {side}]
           /\ arriving' = [arriving EXCEPT ![side] = <<>>]
    <2>1. Flow(r, l, a, <<>>) /\ Total(r, l, a, <<>>) = Total(r, l, <<>>, a) /\ a \in Seq(Nat)
        BY <1>6, FlowTake DEF Flow
    <2>2. PICK ready \in SUBSET Sides : ready = thread.ready \ {side}
        BY ThreadFacts
    <2>3. thread' = [thread EXCEPT !.at = "write", !.data = a, !.for = o, !.ready = ready]
        BY <1>3, <1>5, <1>7, <2>2
    <2>4. /\ thread' \in Threads /\ thread'.at = "write" /\ thread'.data = a /\ thread'.for = o
          /\ thread'.closedBy = "none"
        BY <1>1, <2>1, <2>3 DEF Threads, Ats
    <2>5. arriving' \in [Sides -> Seq(Nat)] /\ arriving'[side] = <<>> /\ arriving'[o] = arriving[o]
        BY <1>3, <1>7, NumEmpty DEF TunnelInv, TunnelTypes
    <2>6. Hand(side)' = a /\ Hand(o)' = <<>>
        BY <1>3, <2>4 DEF Hand
    <2>7. SideOK(side)'
        BY <1>1, <1>3, <1>4, <1>5, <2>1, <2>5, <2>6 DEF SideOK
    <2>8. SideOK(o)'
        BY <1>1, <1>3, <1>4, <2>5, <2>6, SideKept
    <2>9. TunnelTypes'
        BY <1>1, <2>4, <2>5 DEF TunnelInv, TunnelTypes
    <2>10. ThreadInv'
        BY <2>4 DEF ThreadInv, Sides
    <2>11. StatusInv'
        BY <1>1, <1>2, <2>4 DEF StatusInv
    <2>12. QED BY <1>3, <2>7, <2>8, <2>9, <2>10, <2>11 DEF TunnelInv
<1>8. CASE /\ AtEnd(side) /\ thread' = [thread EXCEPT !.at = "ended", !.closedBy = side]
           /\ UNCHANGED arriving
    <2>1. /\ thread' \in Threads /\ thread'.at = "ended" /\ thread'.data = thread.data
          /\ thread'.for = thread.for /\ thread'.closedBy = side
        BY <1>1, <1>8 DEF Threads, Ats
    <2>2. TunnelTypes'
        BY <1>1, <1>8, <2>1 DEF TunnelInv, TunnelTypes
    <2>3. Total(r, l, <<>>, <<>>) = bytes[side]
        BY <1>3, <1>4, <1>5, <1>8 DEF SideOK, AtEnd
    <2>4. Len(r) + Len(l) = bytes[side]
        BY <1>6, <2>3, LenProperties, NumEmpty DEF Total, Flow
    <2>5. ThreadInv'
        BY <1>1, <1>3, <1>5, <2>1, <2>4 DEF ThreadInv
    <2>6. StatusInv'
        BY <1>1, <1>2, <2>1, NotEnded DEF StatusInv
    <2>7. ASSUME NEW s \in Sides PROVE SideOK(s)'
        BY <1>1, <1>8, <2>1, SideKept DEF TunnelInv, Hand
    <2>8. QED BY <2>2, <2>5, <2>6, <2>7 DEF TunnelInv
<1>9. CASE End /\ UNCHANGED arriving
    <2>1. Goto("ended") /\ "ended" \in Ats /\ UNCHANGED <<target, sockets>>
        BY <1>1, <1>9 DEF End, Ats, sockets
    <2>2. thread'.at = "ended"
        BY <2>1, GotoFacts
    <2>3. StatusInv'
        BY <1>1, <1>2, <2>2, NotEnded DEF StatusInv
    <2>4. QED BY <1>1, <1>2, <2>1, <2>3, GotoStep
<1>10. QED BY <1>7, <1>8, <1>9 DEF Read

-----------------------------------------------------------------------------
LEMMA InitTInv == TunnelInit => TunnelInv
<1> SUFFICES ASSUME TunnelInit PROVE TunnelInv
    OBVIOUS
<1>1. /\ thread \in Threads /\ thread.at = "connect" /\ thread.data = <<>>
      /\ thread.for = "origin"
      /\ thread.closedBy = "none"
    BY NumEmpty DEF TunnelInit, Start, Threads, Ats, Sides
<1>2. <<>> \in Seq(Statuses)
    OBVIOUS
<1>3. TunnelTypes
    BY <1>1, <1>2, NumEmpty DEF TunnelInit, TunnelTypes
<1>4. ThreadInv /\ StatusInv
    BY <1>1 DEF TunnelInit, ThreadInv, StatusInv, Sides
<1>5. ASSUME NEW s \in Sides PROVE SideOK(s)
    <2>1. /\ received[Other(s)] = <<>> /\ leaving[Other(s)] = <<>> /\ arriving[s] = <<>>
          /\ bytes[s] = 0 /\ Hand(s) = <<>>
        BY <1>1, SidesFacts DEF TunnelInit, Hand
    <2>2. Flow(<<>>, <<>>, <<>>, <<>>) /\ Total(<<>>, <<>>, <<>>, <<>>) = 0
        BY NumEmpty DEF Flow, Total
    <2>3. QED BY <2>1, <2>2 DEF SideOK
<1>6. QED BY <1>3, <1>4, <1>5 DEF TunnelInv

LEMMA NextTInv == TunnelInv /\ [TunnelNext]_tunnelVars => TunnelInv'
<1> SUFFICES ASSUME TunnelInv, [TunnelNext]_tunnelVars PROVE TunnelInv'
    OBVIOUS
<1>1. CASE Peers
    BY <1>1, SendStep, ReceiveStep, CloseStep, BreakStep DEF Peers
<1>2. CASE Connecting
    BY <1>2, ConnectStep, ReadConnectStep, PeekStep DEF Connecting
<1>3. CASE Splice
    BY <1>3, WriteStep, SilentStep, SelectStep, ReadStep DEF Splice
<1>4. CASE Intercept
    BY <1>4, SilentStep, InnerStep DEF Intercept
<1>5. CASE UNCHANGED tunnelVars
    <2>1. UNCHANGED <<target, peers, bytes, arriving, leaving, received, statuses, thread>>
        BY <1>5 DEF tunnelVars, sockets
    <2>2. TunnelTypes' /\ ThreadInv' /\ StatusInv'
        BY <2>1 DEF TunnelInv, TunnelTypes, ThreadInv, StatusInv
    <2>3. ASSUME NEW s \in Sides PROVE SideOK(s)'
        BY <2>1, SideKept DEF TunnelInv, Hand
    <2>4. QED BY <2>2, <2>3 DEF TunnelInv
<1>6. QED BY <1>1, <1>2, <1>3, <1>4, <1>5 DEF TunnelNext

\* TunnelInv holds at every step of do_CONNECT and of what it calls, whatever the peers do.
THEOREM TunnelInvariantTheorem == TunnelSpec => []TunnelInv
<1>1. TunnelInit => TunnelInv
    BY InitTInv
<1>2. TunnelInv /\ [TunnelNext]_tunnelVars => TunnelInv'
    BY NextTInv
<1>3. QED BY <1>1, <1>2, PTL DEF TunnelSpec

\* What splice has passed on is what the side sent, from the first byte and in order.
THEOREM TunnelFaithfulTheorem == TunnelSpec => []TunnelFaithful
<1>1. TunnelInv => TunnelFaithful
    <2>1. SUFFICES ASSUME TunnelInv, NEW s \in Sides
                   PROVE  /\ Len(Passed(s)) <= bytes[s]
                          /\ \A i \in DOMAIN Passed(s) : Passed(s)[i] = i
                          /\ thread.closedBy = s => Len(Passed(s)) = bytes[s]
        BY DEF TunnelFaithful
    <2>2. PICK r, l, h, a : /\ r = received[Other(s)] /\ l = leaving[Other(s)]
                            /\ h = Hand(s) /\ a = arriving[s]
        OBVIOUS
    <2>3. Flow(r, l, h, a) /\ Total(r, l, h, a) <= bytes[s] /\ bytes[s] \in Nat
        BY <2>1, <2>2, SocketFacts DEF SideOK
    <2>4. /\ r \in Seq(Nat) /\ l \in Seq(Nat) /\ Numbered(r, 0) /\ Numbered(l, Len(r))
          /\ Len(r) \in Nat /\ Len(l) \in Nat /\ Len(h) \in Nat /\ Len(a) \in Nat
        BY <2>3, LenProperties DEF Flow
    <2>5. PICK p : p = r \o l
        OBVIOUS
    <2>6. /\ p \in Seq(Nat) /\ Len(p) = Len(r) + Len(l) /\ DOMAIN p = 1..Len(p)
          /\ \A i \in 1..Len(p) : p[i] = IF i <= Len(r) THEN r[i] ELSE l[i - Len(r)]
        BY <2>4, <2>5, ConcatProperties, LenProperties
    <2>7. ASSUME NEW i \in 1..Len(p) PROVE p[i] = i
        <3>1. CASE i <= Len(r)
            <4>1. i \in 1..Len(r)
                BY <2>4, <3>1
            <4>2. r[i] = 0 + i
                BY <2>4, <4>1 DEF Numbered
            <4>3. p[i] = r[i]
                BY <2>6, <3>1
            <4>4. QED BY <4>2, <4>3
        <3>2. CASE i > Len(r)
            <4>1. i - Len(r) \in 1..Len(l)
                BY <2>4, <2>6, <3>2
            <4>2. l[i - Len(r)] = Len(r) + (i - Len(r))
                BY <2>4, <4>1 DEF Numbered
            <4>3. QED BY <2>4, <2>6, <3>2, <4>2
        <3>3. QED BY <2>4, <2>6, <3>1, <3>2
    <2>8. Len(p) <= bytes[s]
        BY <2>3, <2>4, <2>6 DEF Total
    <2>9. thread.closedBy = s => Len(p) = bytes[s]
        BY <2>1, <2>2, <2>6 DEF TunnelInv, ThreadInv
    <2>10. Passed(s) = p
        BY <2>2, <2>5 DEF Passed
    <2>11. QED BY <2>6, <2>7, <2>8, <2>9, <2>10
<1>2. QED BY <1>1, TunnelInvariantTheorem, PTL

\* A CONNECT and the request inside are answered at most once each.
THEOREM OneReplyTheorem == TunnelSpec => []OneReply
<1>1. TunnelInv => OneReply
    <2>1. SUFFICES ASSUME TunnelInv PROVE OneReply
        OBVIOUS
    <2>2. StatusInv /\ thread.at \in Ats
        BY <2>1, StatusFacts, ThreadFacts
    <2>3. Len(statuses.connect) <= 1 /\ Len(statuses.inner) <= 1
        <3>1. CASE thread.at \in {"connect", "dial", "peek", "accept"}
            <4>1. statuses.connect = <<>> /\ statuses.inner = <<>>
                BY <2>2, <3>1 DEF StatusInv
            <4>2. QED BY <4>1, EmptySeq
        <3>2. CASE thread.at \in {"write", "read", "handshake", "request", "forward"}
            <4>1. statuses.connect = <<"200">> /\ statuses.inner = <<>>
                BY <2>2, <3>2 DEF StatusInv
            <4>2. Len(<<"200">>) = 1
                OBVIOUS
            <4>3. QED BY <4>1, <4>2, EmptySeq
        <3>3. CASE thread.at = "relay"
            <4>1. Len(statuses.connect) = 1 /\ Len(statuses.inner) = 1
                BY <2>2, <3>3 DEF StatusInv
            <4>2. QED BY <4>1
        <3>4. CASE thread.at = "ended"
            BY <2>2, <3>4 DEF StatusInv
        <3>5. QED BY <2>2, <3>1, <3>2, <3>3, <3>4 DEF Ats
    <2>4. QED BY <2>2, <2>3 DEF OneReply, StatusInv
<1>2. QED BY <1>1, TunnelInvariantTheorem, PTL
=============================================================================
