-------------------------- MODULE MessageReplyProofs --------------------------
(***************************************************************************)
(* Proofs about MessageReply for every bound on events and keepalives: one *)
(* answer leaves one row, its generator is never shared, and what its      *)
(* client sees is allowed by StreamReply.                                  *)
(***************************************************************************)
EXTENDS MessageReply, SequenceTheorems, TLAPS

\* The handler thread waits for the priming thread to leave the generator.
Waits == {"waiting", "keepalive", "drain"}

\* Who has the generator, how far it is, and what the priming read came to.
Generator ==
    /\ main \in {"start", "prime"} => primer = "none" /\ gen = "new"
    /\ primer = "reading" => gen = "new"
    /\ main \in Waits \cup {"primed"} /\ primer # "reading" =>
        /\ first = "chunk" => gen = "open"
        /\ first \in Troubles => trouble = first
        /\ first \in {"chunk", "end"} => trouble = "none"
    /\ main \in Waits \cup {"prime", "primed", "writing", "streaming"} => req.kind # "json"
    /\ main \in {"writing", "streaming"} => gen = "open"
    /\ main \in {"json", "answer"} => gen = "finished" /\ req.kind = "json"
    /\ main = "done" => gen # "open"

\* The row says how the generator ended; the non-streaming exceptions are OneRow's.
Rows ==
    /\ gen # "finished" => rows = <<>> /\ trouble = "none"
    /\ gen = "new" => ~errored
    /\ gen = "finished" =>
        \/ rows = <<RowOf(trouble, errored)>>
        \/ req.kind = "json" /\ (trouble = "reset" \/ "tls" \in broken)

\* The inductive invariant for the row and the generator.
IInv == TypeOK /\ GeneratorNotShared /\ Generator /\ Rows

\* The last frame on the wire.
LastFrame == wire[Len(wire)]

\* What the client has at each phase of the handler thread.
Sees ==
    /\ main = "start" \/ req.kind = "json" => ~committed
    /\ main \in {"writing", "streaming"} => committed
    /\ main \notin {"close", "done"} /\ wire # <<>> =>
        committed /\ LastFrame \in {"200", "keepalive", "chunk"}
    /\ committed /\ wire = <<>> => client = "gone"
    /\ main = "drain" => client = "gone"
    /\ main = "json" => trouble = "none"
    /\ main = "answer" => trouble # "none" \/ client = "gone"
    /\ main = "close" /\ wire = <<>> => client = "gone" \/ (trouble = "reset" /\ req.kind = "json")
    /\ main = "close" /\ wire # <<>> /\ LastFrame \notin {"error", "http_error"} =>
        trouble \notin Explained \/ client = "gone"

\* The inductive invariant for the refinement.
RInv == IInv /\ Sees

-----------------------------------------------------------------------------
\* A write adds its frames to the wire of a client that reads.
LEMMA WriteEffect ==
    ASSUME TypeOK, NEW frames \in Seq(Frames), frames # <<>>, Write(frames)
    PROVE  /\ client' = client /\ broken' = broken
           /\ wire' \in Seq(Frames)
           /\ client = "gone" => wire' = wire
           /\ client = "reading" =>
                wire' # <<>> /\ wire'[Len(wire')] = frames[Len(frames)]
<1>1. client \in {"reading", "gone"} /\ wire \in Seq(Frames)
    BY DEF TypeOK
<1>2. CASE client = "gone"
    BY <1>1, <1>2 DEF Write
<1>3. CASE client = "reading"
    <2>1. wire' = wire \o frames /\ client' = client /\ broken' = broken
        BY <1>3 DEF Write
    <2>2. /\ wire' \in Seq(Frames) /\ Len(wire') = Len(wire) + Len(frames)
          /\ \A i \in 1..Len(wire') : wire'[i] = IF i <= Len(wire) THEN wire[i]
                                                 ELSE frames[i - Len(wire)]
        BY <1>1, <2>1, ConcatProperties
    <2>3. Len(wire) \in Nat /\ Len(frames) \in Nat \ {0} /\ DOMAIN frames = 1..Len(frames)
          /\ DOMAIN wire = 1..Len(wire) /\ DOMAIN wire' = 1..Len(wire')
        BY <1>1, <2>2, LenProperties, EmptySeq
    <2>4. wire' # <<>>
        BY <2>2, <2>3, EmptySeq
    <2>5. wire'[Len(wire')] = frames[Len(frames)]
        BY <2>2, <2>3
    <2> QED BY <1>3, <2>1, <2>2, <2>4, <2>5
<1> QED BY <1>1, <1>2, <1>3

-----------------------------------------------------------------------------
(***************************************************************************)
(* Every step keeps RInv.                                                  *)
(***************************************************************************)

LEMMA InitInv == Init => RInv
<1> SUFFICES ASSUME Init PROVE RInv
    OBVIOUS
<1>1. wire = <<>> /\ wire \in Seq(Frames) /\ DOMAIN wire = {}
    BY EmptySeq DEF Init
<1>2. rows \in Seq({"success", "error", "rate_limited"})
    BY EmptySeq DEF Init
<1>3. chunks \in 0..MaxChunks
    BY MessageReplyAssumption DEF Init
<1>4. TypeOK
    BY <1>1, <1>2, <1>3 DEF Init, TypeOK, Phases, Results, Troubles
<1>5. GeneratorNotShared /\ Generator /\ Rows
    BY DEF Init, GeneratorNotShared, Generator, Rows, Waits
<1>6. Sees
    BY <1>1 DEF Init, Sees, TypeOK, Requests
<1> QED BY <1>4, <1>5, <1>6 DEF RInv, IInv

\* The steps that neither write nor read the generator.
LEMMA QuietStep ==
    ASSUME RInv, Leave \/ Hold \/ StartPrimer \/ IntervalPasses \/ Primed \/ Drain
    PROVE  RInv'
<1> USE DEF RInv, IInv, Sees, TypeOK, GeneratorNotShared, Generator, Rows, Waits, LastFrame
<1>1. CASE Leave
    BY <1>1 DEF Leave, upstream, Phases
<1>2. CASE Hold
    BY <1>2 DEF Hold, Goto, upstream, socket, Phases
<1>3. CASE StartPrimer
    BY <1>3 DEF StartPrimer, Goto, upstream, socket, Phases
<1>4. CASE IntervalPasses
    BY <1>4 DEF IntervalPasses, Goto, upstream, socket, Phases
<1>5. CASE Primed
    BY <1>5 DEF Primed, Goto, upstream, socket, Phases
<1>6. CASE Drain
    BY <1>6 DEF Drain, Goto, upstream, socket, Phases
<1> QED BY <1>1, <1>2, <1>3, <1>4, <1>5, <1>6

\* The first row recorded is a row.
LEMMA FirstRow ==
    ASSUME NEW raised, NEW error
    PROVE  /\ Append(<<>>, RowOf(raised, error)) = <<RowOf(raised, error)>>
           /\ <<RowOf(raised, error)>> \in Seq({"success", "error", "rate_limited"})
<1>1. RowOf(raised, error) \in {"success", "error", "rate_limited"}
    BY DEF RowOf
<1> QED BY <1>1

\* One next() of the generator, before it has ended.
LEMMA ReadEffect ==
    ASSUME RInv, gen # "finished", NEW result \in Results, Reads(result)
    PROVE  /\ gen' \in {"open", "finished"} /\ errored' \in BOOLEAN
           /\ chunks' \in 0..MaxChunks /\ trouble' \in Troubles \cup {"none"}
           /\ rows' \in Seq({"success", "error", "rate_limited"})
           /\ gen' = "finished" => rows' = <<RowOf(trouble', errored')>>
           /\ gen' = "open" => rows' = <<>> /\ trouble' = "none"
           /\ result = "chunk" <=> gen' = "open"
           /\ result \in Troubles => trouble' = result
           /\ result \in {"chunk", "end"} => trouble' = "none"
           /\ gen = "open" => trouble' \notin Explained
<1>1. rows = <<>> /\ trouble = "none" /\ gen \in {"new", "open"} /\ errored \in BOOLEAN
      /\ chunks \in 0..MaxChunks
    BY DEF RInv, IInv, Rows, TypeOK
<1>2. CASE result = "chunk"
    <2>1. gen' = "open" /\ chunks < MaxChunks /\ chunks' = chunks + 1
          /\ rows' = <<>> /\ trouble' = "none"
        BY <1>1, <1>2 DEF Reads, Yields
    <2>2. chunks' \in 0..MaxChunks
        BY <1>1, <2>1, MessageReplyAssumption
    <2>3. errored' \in BOOLEAN
        BY <1>1, <1>2, Zenon DEF Reads, Yields
    <2>4. rows' \in Seq({"success", "error", "rate_limited"})
        BY <2>1, EmptySeq
    <2> QED BY <1>2, <2>1, <2>2, <2>3, <2>4 DEF Results, Troubles, Explained
<1>3. ASSUME NEW raised, rows' = Append(rows, RowOf(raised, errored))
      PROVE  /\ rows' = <<RowOf(raised, errored)>>
             /\ rows' \in Seq({"success", "error", "rate_limited"})
    BY <1>1, <1>3, FirstRow
<1>4. CASE result = "end"
    BY <1>1, <1>3, <1>4 DEF Reads, Exhausts, Results, Troubles, Explained
<1>5. CASE result \in Troubles
    BY <1>1, <1>3, <1>5 DEF Reads, Raises, Results, Troubles, Explained
<1> QED BY <1>2, <1>4, <1>5 DEF Results

LEMMA PrimeStep ==
    ASSUME RInv, PrimeAlone \/ Prime
    PROVE  RInv'
<1> USE DEF RInv, IInv, Sees, TypeOK, GeneratorNotShared, Generator, Rows, Waits, LastFrame
<1>1. PICK result \in Results : Reads(result) /\ first' = result
    BY DEF PrimeAlone, Prime
<1>2. gen = "new"
    BY DEF PrimeAlone, Prime
<1> HIDE DEF RInv
<1>3. /\ gen' \in {"open", "finished"} /\ errored' \in BOOLEAN
      /\ chunks' \in 0..MaxChunks /\ trouble' \in Troubles \cup {"none"}
      /\ rows' \in Seq({"success", "error", "rate_limited"})
      /\ gen' = "finished" => rows' = <<RowOf(trouble', errored')>>
      /\ gen' = "open" => rows' = <<>> /\ trouble' = "none"
      /\ result = "chunk" <=> gen' = "open"
      /\ result \in Troubles => trouble' = result
      /\ result \in {"chunk", "end"} => trouble' = "none"
    BY <1>1, <1>2, ReadEffect
<1> USE DEF RInv
<1>4. CASE PrimeAlone
    BY <1>1, <1>3, <1>4 DEF PrimeAlone, Goto, socket, Phases
<1>5. CASE Prime
    BY <1>1, <1>3, <1>5 DEF Prime, socket, Phases
<1> QED BY <1>4, <1>5

LEMMA StreamStep ==
    ASSUME RInv, Stream
    PROVE  RInv'
<1>1. PICK result \in Results :
        Reads(result) /\ Goto(IF result = "chunk" THEN "writing" ELSE "close")
    BY DEF Stream
<1>2. /\ main = "streaming" /\ gen = "open"
      /\ UNCHANGED <<req, primer, first, committed, socket>>
    BY DEF Stream, RInv, IInv, Generator
<1>3. /\ gen' \in {"open", "finished"} /\ errored' \in BOOLEAN
      /\ chunks' \in 0..MaxChunks /\ trouble' \in Troubles \cup {"none"}
      /\ rows' \in Seq({"success", "error", "rate_limited"})
      /\ gen' = "finished" => rows' = <<RowOf(trouble', errored')>>
      /\ gen' = "open" => rows' = <<>> /\ trouble' = "none"
      /\ result = "chunk" <=> gen' = "open"
      /\ trouble' \notin Explained
    BY <1>1, <1>2, ReadEffect
<1>4. /\ main' = (IF result = "chunk" THEN "writing" ELSE "close")
      /\ UNCHANGED <<client, wire, broken>>
    BY <1>1, <1>2 DEF Goto, socket
<1> QED
    BY <1>2, <1>3, <1>4
    DEF RInv, IInv, Sees, TypeOK, GeneratorNotShared, Generator, Rows, Waits, LastFrame, Phases

LEMMA CloseStep ==
    ASSUME RInv, Close
    PROVE  RInv'
<1> USE DEF RInv, IInv, Sees, TypeOK, GeneratorNotShared, Generator, Rows, Waits, LastFrame
<1>1. /\ main = "close" /\ main' = "done"
      /\ UNCHANGED <<req, primer, first, committed, client, wire, broken>>
    BY DEF Close, Goto, socket
<1>2. CASE gen = "open"
    <2>1. rows = <<>>
        BY <1>2
    <2>2. /\ gen' = "finished" /\ rows' = <<RowOf("none", errored)>>
          /\ UNCHANGED <<errored, chunks, trouble>>
        BY <1>2, <2>1, FirstRow DEF Close, Exhausts
    <2>3. rows' \in Seq({"success", "error", "rate_limited"})
        BY <2>2, FirstRow
    <2> QED BY <1>1, <1>2, <2>2, <2>3 DEF Phases
<1>3. CASE gen # "open"
    BY <1>1, <1>3 DEF Close, upstream, Phases
<1> QED BY <1>2, <1>3

LEMMA CallStep ==
    ASSUME RInv, Call
    PROVE  RInv'
<1> USE DEF RInv, IInv, Sees, TypeOK, GeneratorNotShared, Generator, Rows, Waits, LastFrame
<1>1. PICK raised \in Troubles \cup {"none"} :
          /\ trouble' = raised
          /\ IF raised = "reset" THEN rows' = rows /\ Goto("close")
             ELSE /\ rows' = Append(rows, RowOf(raised, FALSE))
                  /\ Goto(IF raised = "none" THEN "json" ELSE "answer")
    BY DEF Call
<1>2. /\ main = "start" /\ req.kind = "json" /\ gen' = "finished" /\ gen = "new"
      /\ UNCHANGED <<req, primer, errored, chunks, first, committed, client, wire, broken>>
    BY DEF Call, socket
<1>3. CASE raised = "reset"
    BY <1>1, <1>2, <1>3 DEF Goto, Phases, Troubles
<1>4. CASE raised # "reset"
    <2>1. rows = <<>> /\ rows' = Append(rows, RowOf(raised, FALSE))
        BY <1>1, <1>2, <1>4
    <2>2. rows' = <<RowOf(raised, FALSE)>>
        BY <2>1, FirstRow
    <2>3. rows' \in Seq({"success", "error", "rate_limited"})
        BY <2>2, FirstRow
    <2>4. RowOf(raised, FALSE) = RowOf(raised, errored)
        BY <1>2 DEF RowOf
    <2>5. main' = (IF raised = "none" THEN "json" ELSE "answer")
        BY <1>1, <1>4 DEF Goto
    <2> QED BY <1>1, <1>2, <2>2, <2>3, <2>4, <2>5 DEF Phases, Troubles
<1> QED BY <1>3, <1>4

-----------------------------------------------------------------------------
(***************************************************************************)
(* The steps that write.                                                   *)
(***************************************************************************)

\* A write that may fail: the client has the frames, or has gone and has none.
LEMMA WriteThenEffect ==
    ASSUME TypeOK, NEW frames \in Seq(Frames), frames # <<>>,
           NEW phase, NEW failed, WriteThen(frames, phase, failed)
    PROVE  /\ wire' \in Seq(Frames) /\ client' = client
           /\ broken \subseteq broken' /\ broken' \subseteq Errors
           /\ \/ /\ client = "reading" /\ main' = phase
                 /\ wire' # <<>> /\ wire'[Len(wire')] = frames[Len(frames)]
              \/ client = "gone" /\ main' \in {phase, failed} /\ wire' = wire
<1>1. client \in {"reading", "gone"} /\ broken \subseteq Errors /\ wire \in Seq(Frames)
    BY DEF TypeOK
<1>2. CASE Write(frames) /\ Goto(phase)
    BY <1>1, <1>2, WriteEffect DEF Goto
<1>3. CASE \E error \in Errors : WriteFails(error) /\ Goto(failed)
    BY <1>1, <1>3 DEF WriteFails, Goto
<1> QED BY <1>2, <1>3 DEF WriteThen

\* The frames anthrouter writes are frames.
LEMMA FramesType ==
    /\ \A x \in Frames : <<x>> \in Seq(Frames) /\ <<x>> # <<>> /\ <<x>>[Len(<<x>>)] = x
    /\ <<"200", "keepalive">> \in Seq(Frames) /\ <<"200", "keepalive">> # <<>>
    /\ <<"200", "keepalive">>[Len(<<"200", "keepalive">>)] = "keepalive"
    /\ <<"200", "chunk">> \in Seq(Frames) /\ <<"200", "chunk">> # <<>>
    /\ <<"200", "chunk">>[Len(<<"200", "chunk">>)] = "chunk"
    /\ {"200", "keepalive", "chunk", "error", "http_error"} = Frames
BY DEF Frames

LEMMA CommitFirstStep ==
    ASSUME RInv, CommitFirst
    PROVE  RInv'
<1> USE DEF RInv, IInv, Sees, TypeOK, GeneratorNotShared, Generator, Rows, Waits, LastFrame
<1>1. WriteThen(<<"200">>, "prime", "close")
    BY DEF CommitFirst
<1>2. TypeOK
    OBVIOUS
<1> HIDE DEF TypeOK
<1>3. /\ wire' \in Seq(Frames) /\ client' = client
      /\ broken \subseteq broken' /\ broken' \subseteq Errors
      /\ \/ client = "reading" /\ main' = "prime" /\ wire' # <<>> /\ wire'[Len(wire')] = "200"
         \/ client = "gone" /\ main' \in {"prime", "close"} /\ wire' = wire
    BY <1>1, <1>2, FramesType, WriteThenEffect
<1> USE DEF TypeOK
<1> QED BY <1>3 DEF CommitFirst, upstream, Phases

LEMMA KeepaliveStep ==
    ASSUME RInv, Keepalive
    PROVE  RInv'
<1> USE DEF RInv, IInv, Sees, TypeOK, GeneratorNotShared, Generator, Rows, Waits, LastFrame
<1>1. PICK frames \in {<<"keepalive">>, <<"200", "keepalive">>} :
        WriteThen(frames, "waiting", "drain")
    BY DEF Keepalive
<1>2. TypeOK
    OBVIOUS
<1> HIDE DEF TypeOK
<1>3. /\ wire' \in Seq(Frames) /\ client' = client
      /\ broken \subseteq broken' /\ broken' \subseteq Errors
      /\ \/ client = "reading" /\ main' = "waiting" /\ wire' # <<>> /\ wire'[Len(wire')] = "keepalive"
         \/ client = "gone" /\ main' \in {"waiting", "drain"} /\ wire' = wire
    <2>1. frames \in Seq(Frames) /\ frames # <<>> /\ frames[Len(frames)] = "keepalive"
        BY <1>1, FramesType
    <2> QED BY <1>1, <1>2, <2>1, WriteThenEffect
<1> USE DEF TypeOK
<1> QED BY <1>3 DEF Keepalive, upstream, Phases

LEMMA SendHeldErrorStep ==
    ASSUME RInv, SendHeldError
    PROVE  RInv'
<1> USE DEF RInv, IInv, Sees, TypeOK, GeneratorNotShared, Generator, Rows, Waits, LastFrame
<1>1. WriteThen(<<"http_error">>, "close", "close")
    BY DEF SendHeldError
<1>2. TypeOK
    OBVIOUS
<1> HIDE DEF TypeOK
<1>6. /\ <<"http_error">> \in Seq(Frames) /\ <<"http_error">> # <<>>
      /\ <<"http_error">>[Len(<<"http_error">>)] = "http_error"
    BY FramesType
<1>3. /\ wire' \in Seq(Frames) /\ client' = client
      /\ broken \subseteq broken' /\ broken' \subseteq Errors
      /\ \/ client = "reading" /\ main' = "close" /\ wire' # <<>> /\ wire'[Len(wire')] = "http_error"
         \/ client = "gone" /\ main' = "close" /\ wire' = wire
    BY <1>1, <1>2, <1>6, WriteThenEffect
<1> USE DEF TypeOK
<1>4. wire = <<>> /\ ~committed
    BY DEF SendHeldError
<1>5. ASSUME NEW i \in DOMAIN wire' PROVE wire'[i] # "200"
    <2>1. CASE Write(<<"http_error">>)
        <3>1. wire' = <<"http_error">> \/ wire' = <<>>
            BY <1>4, <2>1 DEF Write
        <3> QED BY <1>5, <3>1
    <2>2. CASE \E error \in Errors : WriteFails(error)
        BY <1>4, <1>5, <2>2 DEF WriteFails
    <2> QED BY <1>1, <2>1, <2>2 DEF WriteThen
<1> QED BY <1>3, <1>5 DEF SendHeldError, upstream, Phases

LEMMA SendSseErrorStep ==
    ASSUME RInv, SendSseError
    PROVE  RInv'
<1> USE DEF RInv, IInv, Sees, TypeOK, GeneratorNotShared, Generator, Rows, Waits, LastFrame
<1>1. CASE first \notin Explained
    BY <1>1 DEF SendSseError, Goto, upstream, socket, Phases
<1>2. CASE first \in Explained
    <2>1. WriteThen(<<"error">>, "close", "close")
        BY <1>2 DEF SendSseError
    <2>2. TypeOK
        OBVIOUS
    <2> HIDE DEF TypeOK
    <2>3. /\ <<"error">> \in Seq(Frames) /\ <<"error">> # <<>>
          /\ <<"error">>[Len(<<"error">>)] = "error"
        BY FramesType
    <2>4. /\ wire' \in Seq(Frames) /\ client' = client
          /\ broken \subseteq broken' /\ broken' \subseteq Errors
          /\ \/ client = "reading" /\ main' = "close" /\ wire' # <<>> /\ wire'[Len(wire')] = "error"
             \/ client = "gone" /\ main' = "close" /\ wire' = wire
        BY <2>1, <2>2, <2>3, WriteThenEffect
    <2> USE DEF TypeOK
    <2> QED BY <2>4 DEF SendSseError, upstream, Phases
<1> QED BY <1>1, <1>2

LEMMA CommitHeldStep ==
    ASSUME RInv, CommitHeld
    PROVE  RInv'
<1> USE DEF RInv, IInv, Sees, TypeOK, GeneratorNotShared, Generator, Rows, Waits, LastFrame
<1> DEFINE next == IF first = "chunk" THEN "writing" ELSE "close"
<1>1. first \in {"chunk", "end"}
    BY DEF CommitHeld
<1>2. CASE committed
    BY <1>1, <1>2 DEF CommitHeld, Goto, upstream, socket, Phases, Explained
<1>3. CASE ~committed
    <2>1. WriteThen(<<"200">>, next, "close")
        BY <1>3 DEF CommitHeld
    <2>2. TypeOK
        OBVIOUS
    <2> HIDE DEF TypeOK
    <2>3. /\ <<"200">> \in Seq(Frames) /\ <<"200">> # <<>> /\ <<"200">>[Len(<<"200">>)] = "200"
        BY FramesType
    <2> HIDE DEF next
    <2>4. /\ wire' \in Seq(Frames) /\ client' = client
          /\ broken \subseteq broken' /\ broken' \subseteq Errors
          /\ \/ client = "reading" /\ main' = next /\ wire' # <<>> /\ wire'[Len(wire')] = "200"
             \/ client = "gone" /\ main' \in {next, "close"} /\ wire' = wire
        BY <2>1, <2>2, <2>3, WriteThenEffect
    <2> USE DEF TypeOK, next
    <2> QED BY <1>1, <2>4 DEF CommitHeld, upstream, Phases, Explained
<1> QED BY <1>2, <1>3

LEMMA WriteChunkStep ==
    ASSUME RInv, WriteChunk
    PROVE  RInv'
<1> USE DEF RInv, IInv, Sees, TypeOK, GeneratorNotShared, Generator, Rows, Waits, LastFrame
<1>1. WriteThen(<<"chunk">>, "streaming", "close")
    BY DEF WriteChunk
<1>2. TypeOK
    OBVIOUS
<1> HIDE DEF TypeOK
<1>3. /\ wire' \in Seq(Frames) /\ client' = client
      /\ broken \subseteq broken' /\ broken' \subseteq Errors
      /\ \/ client = "reading" /\ main' = "streaming" /\ wire' # <<>> /\ wire'[Len(wire')] = "chunk"
         \/ client = "gone" /\ main' \in {"streaming", "close"} /\ wire' = wire
    BY <1>1, <1>2, FramesType, WriteThenEffect
<1> USE DEF TypeOK
<1> QED BY <1>3 DEF WriteChunk, upstream, Phases

LEMMA SendErrorStep ==
    ASSUME RInv, SendError
    PROVE  RInv'
<1> USE DEF RInv, IInv, Sees, TypeOK, GeneratorNotShared, Generator, Rows, Waits, LastFrame
<1>1. WriteThen(<<"http_error">>, "done", "done")
    BY DEF SendError
<1>2. TypeOK
    OBVIOUS
<1> HIDE DEF TypeOK
<1>3. /\ <<"http_error">> \in Seq(Frames) /\ <<"http_error">> # <<>>
      /\ <<"http_error">>[Len(<<"http_error">>)] = "http_error"
    BY FramesType
<1>4. /\ wire' \in Seq(Frames) /\ client' = client
      /\ broken \subseteq broken' /\ broken' \subseteq Errors
      /\ main' = "done"
    BY <1>1, <1>2, <1>3, WriteThenEffect
<1> USE DEF TypeOK
<1> QED BY <1>4 DEF SendError, upstream, Phases

LEMMA SendMessageStep ==
    ASSUME RInv, SendMessage
    PROVE  RInv'
<1> USE DEF RInv, IInv, Sees, TypeOK, GeneratorNotShared, Generator, Rows, Waits, LastFrame
<1>1. /\ main = "json" /\ req.kind = "json" /\ gen = "finished" /\ trouble = "none"
      /\ UNCHANGED <<req, primer, upstream, first, committed>>
    BY DEF SendMessage
<1>2. CASE Write(<<"200", "chunk">>) /\ Goto("close") /\ UNCHANGED rows
    <2>1. TypeOK
        OBVIOUS
    <2> HIDE DEF TypeOK
    <2>2. /\ wire' \in Seq(Frames) /\ client' = client /\ broken' = broken
          /\ \/ client = "reading" /\ wire' # <<>> /\ wire'[Len(wire')] = "chunk"
             \/ client = "gone" /\ wire' = wire
        BY <1>2, <2>1, FramesType, WriteEffect DEF TypeOK
    <2> USE DEF TypeOK
    <2> QED BY <1>1, <1>2, <2>2 DEF Goto, upstream, Phases, Explained
<1>3. CASE WriteFails("pipe") /\ Goto("close") /\ UNCHANGED rows
    BY <1>1, <1>3 DEF WriteFails, Goto, upstream, Phases, Errors
<1>4. CASE WriteFails("tls") /\ Goto("answer") /\ rows' = Append(rows, "error")
    <2>1. rows' \in Seq({"success", "error", "rate_limited"})
        BY <1>4, AppendProperties
    <2>2. /\ "tls" \in broken' /\ broken' \subseteq Errors
          /\ client = "gone" /\ UNCHANGED <<client, wire>>
        BY <1>4 DEF WriteFails, Errors
    <2> QED BY <1>1, <1>4, <2>1, <2>2 DEF Goto, upstream, Phases
<1> QED BY <1>2, <1>3, <1>4 DEF SendMessage

-----------------------------------------------------------------------------
LEMMA NextInv == RInv /\ [Next]_vars => RInv'
<1> SUFFICES ASSUME RInv, [Next]_vars PROVE RInv'
    OBVIOUS
<1>1. CASE UNCHANGED vars
    BY <1>1
    DEF vars, upstream, socket, RInv, IInv, Sees, TypeOK, GeneratorNotShared, Generator,
        Rows, LastFrame
<1>2. CASE Handle
    BY <1>2, CommitFirstStep, QuietStep, PrimeStep, KeepaliveStep, SendHeldErrorStep,
       SendSseErrorStep, CommitHeldStep, WriteChunkStep, StreamStep, CloseStep, CallStep,
       SendMessageStep, SendErrorStep
    DEF Handle
<1>3. CASE Prime \/ Leave
    BY <1>3, PrimeStep, QuietStep
<1> QED BY <1>1, <1>2, <1>3 DEF Next

\* Both inductive invariants hold of every behaviour of one answer.
THEOREM ReplyInvariantTheorem == Spec => []RInv
BY InitInv, NextInv, PTL DEF Spec

\* One answer's state stays well formed, and a stream's 200 is on the wire only once
\* _send_sse's committed flag says so.
THEOREM TypeTheorem == Spec => []TypeOK
<1>1. RInv => TypeOK
    BY DEF RInv, IInv
<1> QED BY <1>1, ReplyInvariantTheorem, PTL

\* While the priming thread is inside the generator, the handler thread waits: it
\* does not enter or close it, nor end the request.
THEOREM GeneratorNotSharedTheorem == Spec => []GeneratorNotShared
<1>1. RInv => GeneratorNotShared
    BY DEF RInv, IInv
<1> QED BY <1>1, ReplyInvariantTheorem, PTL

\* A call to upstream leaves exactly one row that says how it went, but for the two
\* exceptions of the non-streaming path.
THEOREM OneRowTheorem == Spec => []OneRow
<1>1. RInv => OneRow
    BY DEF RInv, IInv, TypeOK, Generator, Rows, OneRow
<1> QED BY <1>1, ReplyInvariantTheorem, PTL

-----------------------------------------------------------------------------
(***************************************************************************)
(* MessageReply implements StreamReply: the client sees an allowed step or *)
(* none.                                                                   *)
(***************************************************************************)

\* What the client sees of a step.
Seen == Reply!Step \/ UNCHANGED <<ReplyOf, client, trouble>>

\* A step that leaves the client's view alone.
LEMMA UnseenStep ==
    ASSUME UNCHANGED <<client, wire>>, main # "done", main' # "done",
           trouble' = trouble \/ (trouble = "none" /\ trouble' \in Troubles)
    PROVE  Seen
<1>1. ReplyOf' = ReplyOf
    BY DEF ReplyOf
<1> QED BY <1>1 DEF Seen, Reply!Step, Reply!Fail, Troubles, Explained

LEMMA LeaveRefines == RInv /\ Leave => Seen
<1> SUFFICES ASSUME RInv, Leave PROVE Seen
    OBVIOUS
<1>1. ReplyOf' = ReplyOf /\ trouble' = trouble
    BY DEF Leave, ReplyOf, upstream
<1> QED BY <1>1 DEF Leave, Seen, Reply!Step, Reply!Leave

LEMMA QuietRefines ==
    ASSUME RInv, Hold \/ StartPrimer \/ IntervalPasses \/ Primed \/ Drain
    PROVE  Seen
<1>1. UNCHANGED <<client, wire, trouble>> /\ main # "done" /\ main' # "done"
    BY DEF Hold, StartPrimer, IntervalPasses, Primed, Drain, Goto, upstream, socket
<1> QED BY <1>1, UnseenStep

LEMMA ReadRefines ==
    ASSUME RInv, PrimeAlone \/ Prime \/ Stream
    PROVE  Seen
<1>1. PICK result \in Results : Reads(result)
    BY DEF PrimeAlone, Prime, Stream
<1>2. gen # "finished"
    BY DEF PrimeAlone, Prime, Stream, RInv, IInv, Generator
<1>3. trouble = "none" /\ trouble' \in Troubles \cup {"none"}
    BY <1>1, <1>2, ReadEffect DEF RInv, IInv, Rows
<1>4. UNCHANGED <<client, wire>> /\ main # "done" /\ main' # "done"
    BY DEF PrimeAlone, Prime, Stream, Goto, socket, RInv, IInv, GeneratorNotShared
<1> QED BY <1>3, <1>4, UnseenStep

LEMMA CallRefines ==
    ASSUME RInv, Call
    PROVE  Seen
<1>1. trouble = "none" /\ trouble' \in Troubles \cup {"none"}
    BY DEF Call, RInv, IInv, Generator, Rows
<1>2. UNCHANGED <<client, wire>> /\ main # "done" /\ main' # "done"
    BY DEF Call, Goto, socket
<1> QED BY <1>1, <1>2, UnseenStep

LEMMA CloseRefines ==
    ASSUME RInv, Close
    PROVE  Seen
<1>1. /\ main = "close" /\ main' = "done" /\ UNCHANGED <<client, wire, trouble>>
    BY DEF Close, Exhausts, Goto, socket, upstream
<1>2. CASE wire = <<>>
    <2>1. ReplyOf = "held" /\ ReplyOf' = "silent"
        BY <1>1, <1>2 DEF ReplyOf
    <2>2. client = "gone" \/ (trouble = "reset" /\ ~Streamed)
        BY <1>1, <1>2 DEF RInv, Sees, Streamed
    <2> QED BY <1>1, <2>1, <2>2 DEF Seen, Reply!Step, Reply!Silence, Reply!Goes
<1>3. CASE wire # <<>> /\ LastFrame \in {"error", "http_error"}
    <2>1. ReplyOf' = ReplyOf
        BY <1>1, <1>3 DEF ReplyOf, LastFrame
    <2> QED BY <1>1, <2>1 DEF Seen
<1>4. CASE wire # <<>> /\ LastFrame \notin {"error", "http_error"}
    <2>1. ReplyOf = "open" /\ ReplyOf' = "ended"
        BY <1>1, <1>4 DEF ReplyOf, LastFrame
    <2>2. trouble \notin {"limited", "refused"} \/ client = "gone"
        BY <1>1, <1>4 DEF RInv, Sees, Explained
    <2> QED BY <1>1, <2>1, <2>2 DEF Seen, Reply!Step, Reply!End, Reply!Goes
<1> QED BY <1>2, <1>3, <1>4

\* Before the answer closes, the client's view is read off the wire.
LEMMA ViewOf ==
    ASSUME RInv, main \notin {"close", "done"}
    PROVE  /\ wire = <<>> => ReplyOf = "held"
           /\ wire # <<>> => ReplyOf = "open" /\ committed
BY DEF RInv, Sees, ReplyOf, LastFrame

\* What a write comes to, with the phase after it still before the end.
LEMMA WriteView ==
    ASSUME RInv, main # "done", NEW frames \in Seq(Frames), frames # <<>>,
           NEW phase, NEW failed, phase # "done", failed # "done",
           WriteThen(frames, phase, failed),
           NEW x, x = frames[Len(frames)]
    PROVE  /\ client' = client
           /\ \/ client = "gone" /\ ReplyOf' = ReplyOf
              \/ /\ client = "reading"
                 /\ ReplyOf' = IF x = "http_error" THEN "refused"
                               ELSE IF x = "error" THEN "told" ELSE "open"
<1>1. TypeOK
    BY DEF RInv, IInv
<1>2. /\ client' = client
      /\ \/ client = "reading" /\ main' = phase /\ wire' # <<>> /\ wire'[Len(wire')] = x
         \/ client = "gone" /\ main' \in {phase, failed} /\ wire' = wire
    BY <1>1, WriteThenEffect
<1> QED BY <1>2 DEF ReplyOf

LEMMA WriteRefines ==
    ASSUME RInv, CommitFirst \/ Keepalive \/ WriteChunk
    PROVE  Seen
<1>1. PICK frames \in {<<"200">>, <<"keepalive">>, <<"200", "keepalive">>, <<"chunk">>},
           phase \in Phases \ {"done"}, failed \in Phases \ {"done"} :
        WriteThen(frames, phase, failed)
    <2>1. CASE CommitFirst
        BY <2>1 DEF CommitFirst, Phases
    <2>2. CASE Keepalive
        BY <2>2 DEF Keepalive, Phases
    <2>3. CASE WriteChunk
        BY <2>3 DEF WriteChunk, Phases
    <2> QED BY <2>1, <2>2, <2>3
<1>2. trouble' = trouble /\ main \notin {"close", "done"}
    BY DEF CommitFirst, Keepalive, WriteChunk, upstream
<1>3. PICK x \in {"200", "keepalive", "chunk"} :
        frames \in Seq(Frames) /\ frames # <<>> /\ frames[Len(frames)] = x
    BY FramesType
<1>4. client' = client /\ (ReplyOf' = ReplyOf \/ (client = "reading" /\ ReplyOf' = "open"))
    BY <1>1, <1>2, <1>3, WriteView
<1>5. ReplyOf \in {"held", "open"}
    BY <1>2, ViewOf
<1> QED BY <1>2, <1>4, <1>5 DEF Seen, Reply!Step, Reply!Commit, Reply!Goes

LEMMA SendHeldErrorRefines ==
    ASSUME RInv, SendHeldError
    PROVE  Seen
<1>1. /\ WriteThen(<<"http_error">>, "close", "close") /\ trouble' = trouble
      /\ main = "primed" /\ ~committed /\ first \in Troubles
    BY DEF SendHeldError, upstream
<1>2. trouble # "none" /\ ReplyOf = "held"
    BY <1>1, ViewOf DEF RInv, IInv, Generator, GeneratorNotShared, Waits, Troubles, Explained
<1>3. /\ <<"http_error">> \in Seq(Frames) /\ <<"http_error">> # <<>>
      /\ <<"http_error">>[Len(<<"http_error">>)] = "http_error"
    BY FramesType
<1>4. client' = client /\ (ReplyOf' = ReplyOf \/ (client = "reading" /\ ReplyOf' = "refused"))
    BY <1>1, <1>3, WriteView
<1> QED BY <1>1, <1>2, <1>4 DEF Seen, Reply!Step, Reply!Refuse, Reply!Goes

LEMMA SendSseErrorRefines ==
    ASSUME RInv, SendSseError
    PROVE  Seen
<1>1. main = "primed" /\ committed /\ first \in Troubles /\ trouble' = trouble
    BY DEF SendSseError, upstream
<1>2. CASE first \notin Explained
    <2>1. UNCHANGED <<client, wire>> /\ main' = "close"
        BY <1>2 DEF SendSseError, Goto, socket
    <2> QED BY <1>1, <2>1, UnseenStep
<1>3. CASE first \in Explained
    <2>1. WriteThen(<<"error">>, "close", "close")
        BY <1>3 DEF SendSseError
    <2>2. trouble \in {"limited", "refused"}
        BY <1>1, <1>3 DEF RInv, IInv, Generator, GeneratorNotShared, Waits, Explained
    <2>3. <<"error">> \in Seq(Frames) /\ <<"error">> # <<>> /\ <<"error">>[Len(<<"error">>)] = "error"
        BY FramesType
    <2>4. client' = client /\ (ReplyOf' = ReplyOf \/ (client = "reading" /\ ReplyOf' = "told"))
        BY <1>1, <2>1, <2>3, WriteView
    <2>5. client = "reading" => ReplyOf = "open"
        BY <1>1, ViewOf DEF RInv, Sees, IInv, TypeOK
    <2> QED BY <1>1, <2>2, <2>4, <2>5 DEF Seen, Reply!Step, Reply!Tell, Reply!Goes
<1> QED BY <1>2, <1>3

LEMMA CommitHeldRefines ==
    ASSUME RInv, CommitHeld
    PROVE  Seen
<1> DEFINE next == IF first = "chunk" THEN "writing" ELSE "close"
<1>1. main = "primed" /\ trouble' = trouble /\ next # "done"
    BY DEF CommitHeld, upstream
<1>2. CASE committed
    <2>1. UNCHANGED <<client, wire>> /\ main' = next
        BY <1>2 DEF CommitHeld, Goto, socket
    <2> QED BY <1>1, <2>1, UnseenStep
<1>3. CASE ~committed
    <2>1. WriteThen(<<"200">>, next, "close")
        BY <1>3 DEF CommitHeld
    <2>2. <<"200">> \in Seq(Frames) /\ <<"200">> # <<>> /\ <<"200">>[Len(<<"200">>)] = "200"
        BY FramesType
    <2> HIDE DEF next
    <2>3. client' = client /\ (ReplyOf' = ReplyOf \/ (client = "reading" /\ ReplyOf' = "open"))
        BY <1>1, <2>1, <2>2, WriteView
    <2>4. ReplyOf = "held"
        BY <1>1, <1>3, ViewOf
    <2> QED BY <1>1, <2>3, <2>4 DEF Seen, Reply!Step, Reply!Commit, Reply!Goes
<1> QED BY <1>2, <1>3

LEMMA SendMessageRefines ==
    ASSUME RInv, SendMessage
    PROVE  Seen
<1>1. main = "json" /\ trouble' = trouble
    BY DEF SendMessage, upstream
<1>2. TypeOK /\ ReplyOf \in {"held", "open"}
    BY <1>1, ViewOf DEF RInv, IInv
<1>3. CASE Write(<<"200", "chunk">>) /\ Goto("close")
    <2>1. /\ client' = client
          /\ \/ client = "reading" /\ wire' # <<>> /\ wire'[Len(wire')] = "chunk"
             \/ client = "gone" /\ wire' = wire
        BY <1>2, <1>3, FramesType, WriteEffect DEF TypeOK
    <2>2. main' = "close"
        BY <1>3 DEF Goto
    <2>3. ReplyOf' = ReplyOf \/ (client = "reading" /\ ReplyOf' = "open")
        BY <1>1, <2>1, <2>2 DEF ReplyOf
    <2> QED BY <1>1, <1>2, <2>1, <2>3 DEF Seen, Reply!Step, Reply!Commit, Reply!Goes
<1>4. CASE (WriteFails("pipe") /\ Goto("close")) \/ (WriteFails("tls") /\ Goto("answer"))
    <2>1. UNCHANGED <<client, wire>> /\ main' # "done"
        BY <1>4 DEF WriteFails, Goto
    <2> QED BY <1>1, <2>1, UnseenStep
<1> QED BY <1>3, <1>4 DEF SendMessage

LEMMA SendErrorRefines ==
    ASSUME RInv, SendError
    PROVE  Seen
<1>1. /\ main = "answer" /\ trouble' = trouble /\ TypeOK
      /\ WriteThen(<<"http_error">>, "done", "done")
    BY DEF SendError, upstream, RInv, IInv
<1>2. wire = <<>> /\ ReplyOf = "held" /\ (trouble # "none" \/ client = "gone")
    BY <1>1, ViewOf DEF RInv, Sees, IInv, Generator
<1>3. /\ <<"http_error">> \in Seq(Frames) /\ <<"http_error">> # <<>>
      /\ <<"http_error">>[Len(<<"http_error">>)] = "http_error"
    BY FramesType
<1>4. /\ client' = client /\ main' = "done"
      /\ \/ client = "reading" /\ wire' # <<>> /\ wire'[Len(wire')] = "http_error"
         \/ client = "gone" /\ wire' = wire
    BY <1>1, <1>3, WriteThenEffect
<1>5. \/ client = "reading" /\ ReplyOf' = "refused"
      \/ client = "gone" /\ ReplyOf' = "silent"
    BY <1>2, <1>4 DEF ReplyOf
<1> QED
    BY <1>1, <1>2, <1>4, <1>5
    DEF Seen, Reply!Step, Reply!Refuse, Reply!Silence, Reply!Goes

\* No step changes what was asked for.
LEMMA SameRequest == [Next]_vars => req' = req
BY DEF Next, Handle, vars, CommitFirst, Hold, StartPrimer, PrimeAlone, Prime, IntervalPasses,
       Keepalive, Primed, Drain, SendHeldError, SendSseError, CommitHeld, WriteChunk, Stream,
       Close, Call, SendMessage, SendError, Leave

LEMMA NextRefines == RInv /\ [Next]_vars => [Reply!Next]_Reply!vars
<1> SUFFICES ASSUME RInv, [Next]_vars PROVE Seen
    BY SameRequest DEF Seen, Streamed, Reply!Next, Reply!vars
<1>1. CASE UNCHANGED vars
    BY <1>1 DEF vars, upstream, socket, ReplyOf, Seen
<1>2. CASE Handle
    BY <1>2, WriteRefines, QuietRefines, ReadRefines, SendHeldErrorRefines,
       SendSseErrorRefines, CommitHeldRefines, CloseRefines, CallRefines,
       SendMessageRefines, SendErrorRefines
    DEF Handle
<1>3. CASE Prime \/ Leave
    BY <1>3, ReadRefines, LeaveRefines
<1> QED BY <1>1, <1>2, <1>3 DEF Next

LEMMA InitRefines == Init => Reply!Init
BY DEF Init, ReplyOf, Streamed, Reply!Init

\* The client of _send_sse or of the JSON answer sees only what StreamReply allows:
\* one status line, a failure told in the way still open, and an end.
THEOREM RefinementTheorem == Spec => Reply!Safety
<1>1. Reply!Init /\ [][Reply!Next]_Reply!vars => Reply!Safety
    BY DEF Reply!Safety
<1> QED BY <1>1, InitRefines, NextRefines, ReplyInvariantTheorem, PTL DEF Spec
=============================================================================
