------------------------------ MODULE StreamReply ------------------------------
(***************************************************************************)
(* What a client is promised of the answer to a message request (ADR-0026, *)
(* ADR-0032): one status line, a failure told in the only way the status   *)
(* line still allows, and an end.                                          *)
(***************************************************************************)

VARIABLES
    reply,      \* what the client has: see below
    client,     \* "reading", or "gone"
    trouble,    \* the failure met, if any
    streamed    \* the client asked for a stream

vars == <<reply, client, trouble, streamed>>

\* held: no status line yet.  open: a 200.  refused: an HTTP error.  told: a 200,
\* then an error event.  ended: a 200, then the end.  silent: nothing at all.
Ended == {"refused", "told", "ended", "silent"}

Init == reply = "held" /\ client = "reading" /\ trouble = "none" /\ streamed \in BOOLEAN

Leave == client = "reading" /\ client' = "gone" /\ UNCHANGED <<reply, trouble>>

Fail ==
    /\ trouble = "none"
    /\ trouble' \in {"limited", "refused", "other", "reset"}
    /\ UNCHANGED <<reply, client>>

Goes(from, to) == reply = from /\ reply' = to /\ UNCHANGED <<client, trouble>>

Commit == client = "reading" /\ Goes("held", "open")

\* Before the status line every failure is an HTTP error; after it, one that
\* upstream's answer explains is an event, and any other a plain end.
Refuse == client = "reading" /\ trouble # "none" /\ Goes("held", "refused")

Tell == trouble \in {"limited", "refused"} /\ Goes("open", "told")

End ==
    /\ trouble \notin {"limited", "refused"} \/ client = "gone"
    /\ Goes("open", "ended")

\* A client is left without an answer only when it has left; or, as the code is, when
\* it asked for no stream and the connection to upstream was reset.
Silence ==
    /\ client = "gone" \/ (trouble = "reset" /\ ~streamed)
    /\ Goes("held", "silent")

Step == Leave \/ Fail \/ Commit \/ Refuse \/ Tell \/ End \/ Silence

Next == Step /\ UNCHANGED streamed

\* What a client may see, and that it sees an end.
Safety == Init /\ [][Next]_vars

Spec == Safety /\ <>(reply \in Ended)
=============================================================================
