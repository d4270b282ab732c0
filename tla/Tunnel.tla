------------------------------- MODULE Tunnel -------------------------------
(***************************************************************************)
(* Host interception: one connection to the listener that asked for        *)
(* CONNECT, served by one thread (handlers.py, do_CONNECT and below;       *)
(* interception.py).  An opaque tunnel copies bytes between the client and *)
(* the origin; the API host is decrypted and its one request is handled    *)
(* in the process or forwarded.                                            *)
(*                                                                         *)
(* The handler speaks HTTP/1.0, so a connection carries one request.  The  *)
(* idle timeout is set: with 0 the code waits for the peers without end.   *)
(***************************************************************************)
EXTENDS Integers, Sequences, FiniteSets

CONSTANTS
    Window,     \* bytes a socket buffers in one direction
    MaxSent     \* bound: bytes a side sends

ASSUME TunnelAssumption == Window \in Nat \ {0} /\ MaxSent \in Nat

VARIABLES
    target,     \* what the CONNECT line asks for
    peers,      \* each side of the connection: how far it has closed
    bytes,      \* bytes each side has sent after the CONNECT; byte n is the n-th
    arriving,   \* from each side, in the socket: not yet read by the thread
    leaving,    \* to each side, in the socket: not yet read by it
    received,   \* what each side has read
    statuses,   \* the status lines written: for the CONNECT, for the decrypted request
    thread      \* the thread: where it is, the bytes in its hands and for whom, the
                \* readable sockets still to serve, and whom a tunnel's end came from

sockets == <<peers, bytes, arriving, leaving, received>>
tunnelVars == <<target, sockets, statuses, thread>>

Sides == {"client", "origin"}
Other(side) == IF side = "client" THEN "origin" ELSE "client"

\* A peer is open; half: its sending is shut down and it still reads; gone: it has closed; or
\* reset: it broke the connection off, and what had arrived from it is lost.

\* The target is refused (by the flag, its form, its host), an origin, or the API host, whose
\* Messages endpoints are handled here or, with interception_target set, by another proxy.
Targets == {"off", "malformed", "forbidden", "opaque", "api", "chained"}

Start == [at |-> "connect", data |-> <<>>, for |-> "origin", ready |-> {}, closedBy |-> "none"]

TunnelInit ==
    /\ target \in Targets
    /\ peers = [s \in Sides |-> "open"]
    /\ bytes = [s \in Sides |-> 0]
    /\ arriving = [s \in Sides |-> <<>>] /\ leaving = [s \in Sides |-> <<>>]
    /\ received = [s \in Sides |-> <<>>]
    /\ statuses = [connect |-> <<>>, inner |-> <<>>]
    /\ thread = Start

-----------------------------------------------------------------------------
(***************************************************************************)
(* The peers, external.  The client may send before it has its 200.        *)
(***************************************************************************)

Dialled == thread.at \notin {"connect", "dial"} /\ target = "opaque"

Connected(side) == side = "client" \/ Dialled

Send(side) ==
    /\ Connected(side) /\ thread.at # "ended"
    /\ peers[side] = "open" /\ bytes[side] < MaxSent /\ Len(arriving[side]) < Window
    /\ bytes' = [bytes EXCEPT ![side] = @ + 1]
    /\ arriving' = [arriving EXCEPT ![side] = Append(@, bytes[side] + 1)]
    /\ UNCHANGED <<target, peers, leaving, received, statuses, thread>>

Receive(side) ==
    /\ peers[side] \in {"open", "half"} /\ leaving[side] # <<>>
    /\ received' = [received EXCEPT ![side] = Append(@, Head(leaving[side]))]
    /\ leaving' = [leaving EXCEPT ![side] = Tail(@)]
    /\ UNCHANGED <<target, peers, bytes, arriving, statuses, thread>>

Close(side) ==
    /\ Connected(side) /\ thread.at # "ended"
    /\ \/ peers[side] = "open" /\ peers' = [peers EXCEPT ![side] = "half"]
       \/ peers[side] \in {"open", "half"} /\ peers' = [peers EXCEPT ![side] = "gone"]
    /\ UNCHANGED <<target, bytes, arriving, leaving, received, statuses, thread>>

Break(side) ==
    /\ Connected(side) /\ thread.at # "ended" /\ peers[side] \in {"open", "half"}
    /\ peers' = [peers EXCEPT ![side] = "reset"]
    /\ arriving' = [arriving EXCEPT ![side] = <<>>]
    /\ UNCHANGED <<target, bytes, leaving, received, statuses, thread>>

-----------------------------------------------------------------------------
(***************************************************************************)
(* do_CONNECT, _accept_connect and _tunnel.                                *)
(***************************************************************************)

Goto(at) == thread' = [thread EXCEPT !.at = at]
End == Goto("ended")

AnswerConnect(status) == statuses' = [statuses EXCEPT !.connect = Append(@, status)]
AnswerInner(status) == statuses' = [statuses EXCEPT !.inner = Append(@, status)]

\* A refused CONNECT is answered and the connection closed: CONNECT is not enabled, its
\* target is malformed, or the target is an address or another port than 443.
Refuse ==
    /\ thread.at = "connect" /\ target \in {"off", "malformed", "forbidden"}
    /\ AnswerConnect(CASE target = "off" -> "405" [] target = "malformed" -> "400"
                       [] target = "forbidden" -> "403")
    /\ End
    /\ UNCHANGED <<target, sockets>>

\* rfile read the CONNECT's lines, and with them bytes that had come right behind.
ReadConnect ==
    /\ thread.at = "connect" /\ target \in {"opaque", "api", "chained"}
    /\ \E n \in 0..Len(arriving.client) :
        /\ thread' = [thread EXCEPT !.at = IF target = "opaque" THEN "dial" ELSE "peek",
                                    !.data = SubSeq(arriving.client, 1, n)]
        /\ arriving' = [arriving EXCEPT !.client = SubSeq(@, n + 1, Len(@))]
    /\ UNCHANGED <<target, peers, bytes, leaving, received, statuses>>

Dial ==
    /\ thread.at = "dial"
    /\ Goto("peek")
    /\ UNCHANGED <<target, sockets, statuses>>

\* create_connection failed, or took longer than its timeout.
DialFails ==
    /\ thread.at = "dial"
    /\ AnswerConnect("502") /\ End
    /\ UNCHANGED <<target, sockets>>

\* Mutant: what the client sent behind the CONNECT stays in rfile.
LeavesBuffered == [data |-> <<>>, rest |-> arriving.client]

\* take_buffered: the bytes in rfile's buffer; when there are none, those in the socket.
TakeBuffered ==
    IF thread.data # <<>> THEN [data |-> thread.data, rest |-> arriving.client]
    ELSE [data |-> arriving.client, rest |-> <<>>]

\* The peek of a connection that was broken off raises.
Peek ==
    /\ thread.at = "peek"
    /\ IF thread.data = <<>> /\ peers.client = "reset"
       THEN End /\ UNCHANGED arriving
       ELSE LET taken == TakeBuffered
            IN  /\ thread' = [thread EXCEPT !.at = "accept", !.data = taken.data]
                /\ arriving' = [arriving EXCEPT !.client = taken.rest]
    /\ UNCHANGED <<target, peers, bytes, leaving, received, statuses>>

\* The 200.  A write to a client that is gone may raise, and ends the thread.  Bytes the API
\* host's client sent ahead cannot be given to TLS: its connection is closed.
Accept ==
    /\ thread.at = "accept"
    /\ \/ /\ AnswerConnect("200")
          /\ Goto(IF target = "opaque" THEN "write"
                  ELSE IF thread.data # <<>> THEN "ended" ELSE "handshake")
       \/ peers.client \in {"gone", "reset"} /\ End /\ UNCHANGED statuses
    /\ UNCHANGED <<target, sockets>>

-----------------------------------------------------------------------------
(***************************************************************************)
(* splice, after the pending bytes were sent on (Start's for is origin).   *)
(***************************************************************************)

\* sendall: what fits the socket's buffer goes, the rest waits.  To a peer that is gone the
\* bytes go nowhere, or the write raises.
Write ==
    /\ thread.at = "write" /\ thread.data # <<>>
    /\ \/ /\ Len(leaving[thread.for]) < Window
          /\ leaving' = [leaving EXCEPT ![thread.for] = Append(@, Head(thread.data))]
          /\ thread' = [thread EXCEPT !.data = Tail(@)]
       \/ peers[thread.for] \in {"gone", "reset"} /\ End /\ UNCHANGED leaving
    /\ UNCHANGED <<target, peers, bytes, arriving, received, statuses>>

\* Mutant: the sockets keep no timeout of their own.
NeverTimesOut == FALSE

\* The sockets' timeout: a sendall to a peer that does not read ends the tunnel.
TimesOut == Len(leaving[thread.for]) >= Window

WriteTimeout ==
    /\ thread.at = "write" /\ thread.data # <<>> /\ TimesOut
    /\ End
    /\ UNCHANGED <<target, sockets, statuses>>

Written ==
    /\ thread.at = "write" /\ thread.data = <<>>
    /\ Goto("read")
    /\ UNCHANGED <<target, sockets, statuses>>

Readable(side) == arriving[side] # <<>> \/ peers[side] # "open"

\* select: the sockets readable now are served one after the other, in any order.
Select ==
    /\ thread.at = "read" /\ thread.ready = {}
    /\ \E s \in Sides : Readable(s)
    /\ thread' = [thread EXCEPT !.ready = {s \in Sides : Readable(s)}]
    /\ UNCHANGED <<target, sockets, statuses>>

IdleTimeout ==
    /\ thread.at = "read" /\ thread.ready = {}
    /\ \A s \in Sides : ~Readable(s)
    /\ End
    /\ UNCHANGED <<target, sockets, statuses>>

\* Mutant: a closed socket is at its end, whatever it still holds.
HungUp(side) == peers[side] \in {"half", "gone"}

\* recv has returned nothing.
AtEnd(side) == arriving[side] = <<>> /\ peers[side] \in {"half", "gone"}

Read(side) ==
    /\ thread.at = "read" /\ side \in thread.ready
    /\ \/ /\ ~AtEnd(side) /\ arriving[side] # <<>>
          /\ thread' = [thread EXCEPT !.at = "write", !.data = arriving[side],
                                      !.for = Other(side), !.ready = @ \ {side}]
          /\ arriving' = [arriving EXCEPT ![side] = <<>>]
       \/ /\ AtEnd(side)
          /\ thread' = [thread EXCEPT !.at = "ended", !.closedBy = side]
          /\ UNCHANGED arriving
       \/ peers[side] = "reset" /\ End /\ UNCHANGED arriving
    /\ UNCHANGED <<target, peers, bytes, leaving, received, statuses>>

-----------------------------------------------------------------------------
(***************************************************************************)
(* _intercept and the decrypted request.  The bytes in the TLS connection  *)
(* are not followed; every wait in it has a timeout.                       *)
(***************************************************************************)

\* The handshake fails, or takes longer than its timeout.
Handshake ==
    /\ thread.at = "handshake"
    /\ Goto("request") \/ End
    /\ UNCHANGED <<target, sockets, statuses>>

\* No request came before the idle timeout, or the client left.
NoRequest ==
    /\ thread.at = "request"
    /\ End
    /\ UNCHANGED <<target, sockets, statuses>>

\* The request inside, by its endpoint: a CONNECT is refused.
RefuseInner ==
    /\ thread.at = "request"
    /\ AnswerInner("405") /\ End
    /\ UNCHANGED <<target, sockets>>

\* The Messages endpoints are answered in the process (MessageReply).
AnswerHere ==
    /\ thread.at = "request" /\ target = "api"
    /\ AnswerInner("200") /\ End
    /\ UNCHANGED <<target, sockets>>

\* Any other endpoint, and these with interception_target set: the body is read, and refused
\* when its framing is malformed, too large or cut short.
Forward ==
    /\ thread.at = "request"
    /\ Goto("forward")
    /\ UNCHANGED <<target, sockets, statuses>>

BadBody ==
    /\ thread.at = "forward"
    /\ AnswerInner("400") /\ End
    /\ UNCHANGED <<target, sockets>>

\* The client broke off, or sent nothing for the socket's timeout, in the middle of the body:
\* no ValueError, so the thread ends without an answer.
BodyBreaks ==
    /\ thread.at = "forward"
    /\ End
    /\ UNCHANGED <<target, sockets, statuses>>

\* The connection or the request to the far end failed before a reply: 502.
ForwardFails ==
    /\ thread.at = "forward"
    /\ AnswerInner("502") /\ End
    /\ UNCHANGED <<target, sockets>>

\* _relay_response writes the far end's status, and then its body.
BeginRelay ==
    /\ thread.at = "forward"
    /\ AnswerInner("reply") /\ Goto("relay")
    /\ UNCHANGED <<target, sockets>>

\* Mutant: a reply that breaks off is handled like one that never began.
BreakAnswered == AnswerInner("502")

\* A reply that breaks off is logged; its status has been sent.
BreakLogged == UNCHANGED statuses

\* Its body was relayed whole.
RelayEnds ==
    /\ thread.at = "relay"
    /\ End
    /\ UNCHANGED <<target, sockets, statuses>>

\* The far end or the client broke off, or was silent for the socket's timeout.
RelayBreaks ==
    /\ thread.at = "relay"
    /\ BreakLogged /\ End
    /\ UNCHANGED <<target, sockets>>

-----------------------------------------------------------------------------

Peers == \E s \in Sides : Send(s) \/ Receive(s) \/ Close(s) \/ Break(s)

Connecting == Refuse \/ ReadConnect \/ Dial \/ DialFails \/ Peek \/ Accept

Splice ==
    \/ Write \/ WriteTimeout \/ Written \/ Select \/ IdleTimeout
    \/ \E s \in Sides : Read(s)

Intercept ==
    \/ Handshake \/ NoRequest \/ RefuseInner \/ AnswerHere
    \/ Forward \/ BadBody \/ BodyBreaks \/ ForwardFails \/ BeginRelay
    \/ RelayEnds \/ RelayBreaks

TunnelNext == Peers \/ Connecting \/ Splice \/ Intercept

\* The thread runs on; nothing is assumed of the peers.
TunnelSpec ==
    TunnelInit /\ [][TunnelNext]_tunnelVars /\ WF_tunnelVars(Connecting \/ Splice \/ Intercept)

-----------------------------------------------------------------------------

Passed(side) == received[Other(side)] \o leaving[Other(side)]

\* An opaque tunnel is a pipe: what it has passed on from a side is what that side sent, from
\* the first byte and in order, with the bytes that came ahead of the 200; and all of it, when
\* the tunnel ended because that side closed.
TunnelFaithful ==
    \A s \in Sides :
        /\ Len(Passed(s)) <= bytes[s]
        /\ \A i \in DOMAIN Passed(s) : Passed(s)[i] = i
        /\ thread.closedBy = s => Len(Passed(s)) = bytes[s]

\* One status line answers the CONNECT, and at most one the request inside: a reply that has
\* begun is never followed by an error's.  A CONNECT that is left unanswered had lost its client;
\* the request inside may be, when the client left or was silent for a timeout.
OneReply ==
    /\ Len(statuses.connect) <= 1 /\ Len(statuses.inner) <= 1
    /\ thread.at = "ended" /\ statuses.connect = <<>> => peers.client \in {"gone", "reset"}
    /\ thread.at \in {"write", "read", "handshake", "request"} => statuses.connect = <<"200">>

\* A thread is never held by a connection whose peers have gone silent or stopped reading.
TunnelEnds == <>(thread.at = "ended")
=============================================================================
