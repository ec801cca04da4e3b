----------------------------- MODULE ResponseRelay -----------------------------
(****************************************************************************)
(* The way of an answer from the model to the client (proxy/handlers.py,    *)
(* _handle_streaming and _handle_non_streaming, Anthropic bodies).  With    *)
(* paging the proxy holds back the calls of its own tools (vc), runs them,  *)
(* asks the model to continue, and numbers what it adds to the client's     *)
(* stream; otherwise it forwards the bytes.  At the end the answer joins    *)
(* the history that all requests of the session share.                      *)
(*                                                                          *)
(* The events of one content block are one step.  An answer is the sequence *)
(* of its text blocks.  Client, model and deletion may come between any two *)
(* steps.                                                                   *)
(****************************************************************************)
EXTENDS Integers, Sequences, SequencesExt

CONSTANTS
  Request,    \* requests of one session, in flight together
  MaxBlocks,  \* bound on the blocks of one message of the model
  MaxLoops,   \* _MAX_CONTINUATION_LOOPS
  None

ASSUME RelayAssumption ==
  /\ MaxBlocks \in Nat /\ MaxLoops \in Nat \ {0}
  /\ None \notin {"paging", "raw", "json", "tool_use", "end_turn", "max_tokens"}

VARIABLES
  history,  \* conversation_history: questions and answers, by request
  deletion, \* "none", "marked" (_deletion_requested is set), "cleared"
  relay     \* per request: the handler's locals and what the client received

vars == <<history, deletion, relay>>

Kind == {"text", "thinking", "own", "vc"}
StopReason == {"tool_use", "end_turn", "max_tokens"}

\* The loop-th message of the model for a request, 0 for the one it streams.
Block == [kind : Kind, loop : 0..MaxLoops, at : 1..MaxBlocks]

\* The elements of s that are in S, in their order (the SelectSeq of a set, as
\* a recursive function, which the proofs can expand).
Only(s, S) ==
  LET kept[n \in 0..Len(s)] ==
        IF n = 0 THEN <<>>
        ELSE IF s[n] \in S THEN Append(kept[n - 1], s[n]) ELSE kept[n - 1]
  IN  kept[Len(s)]

Of(kind, bs) == Only(bs, {b \in Block : b.kind = kind})
Calls(bs) == Only(bs, {b \in Block : b.kind \in {"own", "vc"}})
Has(kind, bs) == \E i \in DOMAIN bs : bs[i].kind = kind
HasCall(bs) == Has("own", bs) \/ Has("vc", bs)

\* What a client receives.
Piece(b, i) == [ev |-> "block", block |-> b, index |-> i]
MessageDelta(stop) == [ev |-> "delta", stop |-> stop]
MessageStop == [ev |-> "stop"]
Marker == [ev |-> "marker"]

\* _emit_text_as_sse, _emit_tool_use_as_sse: blocks numbered from n on.
Numbered(bs, n) == [i \in DOMAIN bs |-> Piece(bs[i], n + i - 1)]

NoReply == [blocks |-> <<>>, stop |-> "end_turn"]

Idle ==
  [pc |-> "idle", mode |-> None, marked |-> FALSE,
   sent |-> <<>>, stop |-> None, wire |-> <<>>, forwarded |-> 0,
   suppressed |-> <<>>, vcTools |-> <<>>, blocks |-> <<>>, need |-> FALSE,
   body |-> <<>>, last |-> NoReply, loop |-> 0, texts |-> <<>>]

\* A handler that returns leaves nothing but what its client has received.
Ended(s, pc) ==
  [Idle EXCEPT !.pc = pc, !.mode = s.mode, !.wire = s.wire, !.texts = s.texts]

TypeOK ==
  /\ history \in Seq([role : {"user", "assistant"}, by : Request, texts : Seq(Block)])
  /\ deletion \in {"none", "marked", "cleared"}
  /\ \A r \in Request :
       LET s == relay[r] IN
       /\ s.pc \in {"idle", "stream", "closed", "tools", "asking", "closing", "post",
                    "record", "mark", "done", "gone", "broken"}
       /\ s.mode \in {None, "paging", "raw", "json"}
       /\ s.sent \in Seq(Block) /\ Len(s.sent) <= MaxBlocks
       /\ s.stop \in StopReason \cup {None}
       /\ s.forwarded \in 0..(MaxLoops + 1) * MaxBlocks
       /\ s.vcTools \in Seq(Block) /\ s.blocks \in Seq(Block) /\ s.texts \in Seq(Block)
       /\ s.loop \in 0..MaxLoops
       /\ s.last \in [blocks : Seq(Block), stop : StopReason]

Init ==
  /\ history = <<>> /\ deletion = "none"
  /\ relay = [r \in Request |-> Idle]

-----------------------------------------------------------------------------
(* The request.                                                             *)

Goto(r, s) == relay' = [relay EXCEPT ![r] = s]
In(r, pc) == relay[r].pc = pc

\* prepare_payload appends the question, and the upstream call is opened.  A
\* request without user text (a tool result of the client) skips it, and has
\* no paging.  An upstream that refuses ends the request at once.  A marked
\* request brought the conversation's marker with it.
Arrive(r, mode, asked, marked) ==
  /\ In(r, "idle") /\ deletion = "none"
  /\ asked \/ mode # "paging"
  /\ history' = IF asked THEN Append(history, [role |-> "user", by |-> r, texts |-> <<>>])
                ELSE history
  /\ \E pc \in {"stream", "done"} :
       Goto(r, [Idle EXCEPT !.pc = pc, !.mode = mode, !.marked = marked])
  /\ UNCHANGED deletion

-----------------------------------------------------------------------------
(* The message the model streams, event by event.                           *)

\* The blocks the model may send after bs, in any order.
NextKinds(bs) == IF Len(bs) = MaxBlocks THEN {} ELSE Kind

\* The reasons for which a message may stop after bs.
Stops(bs) == {IF HasCall(bs) THEN "tool_use" ELSE "end_turn", "max_tokens"}

Streaming(r) == In(r, "stream") /\ relay[r].stop = None

\* Mutant: only text is counted.
ForwardTextCounted(s, b) ==
  [s EXCEPT !.sent = Append(@, b),
            !.wire = Append(@, Piece(b, Len(s.sent))),
            !.forwarded = IF b.kind = "text" THEN @ + 1 ELSE @,
            !.texts = IF b.kind = "text" THEN Append(@, b) ELSE @,
            !.blocks = IF b.kind = "text" THEN Append(@, b) ELSE @]

\* A block the proxy does not know is forwarded as it came, with its index.
Forward(s, b) ==
  [s EXCEPT !.sent = Append(@, b),
            !.wire = Append(@, Piece(b, Len(s.sent))),
            !.forwarded = @ + 1,
            !.texts = IF b.kind = "text" THEN Append(@, b) ELSE @,
            !.blocks = IF b.kind = "text" THEN Append(@, b) ELSE @]

\* A call of a vc tool is held back.
Suppress(s, b) ==
  [s EXCEPT !.sent = Append(@, b),
            !.suppressed = Append(@, Piece(b, Len(s.sent))),
            !.vcTools = Append(@, b),
            !.blocks = Append(@, b)]

StreamBlock(r) ==
  /\ Streaming(r)
  /\ relay[r].mode # "json"
  /\ \E k \in NextKinds(relay[r].sent) :
       LET b == [kind |-> k, loop |-> 0, at |-> Len(relay[r].sent) + 1]
       IN  Goto(r, IF relay[r].mode = "paging" /\ k = "vc" THEN Suppress(relay[r], b)
                   ELSE Forward(relay[r], b))
  /\ UNCHANGED <<history, deletion>>

Intercepts(s, stop) == s.mode = "paging" /\ stop = "tool_use" /\ s.vcTools # <<>>

\* message_delta.  Calls of both kinds: everything held back goes out after
\* all (the bail).  Calls of vc tools alone: the event is swallowed.
StreamDelta(r) ==
  LET s == relay[r] IN
  /\ Streaming(r) /\ s.mode # "json"
  /\ \E stop \in Stops(s.sent) :
       \/ /\ ~Intercepts(s, stop)
          /\ Goto(r, [s EXCEPT !.stop = stop, !.wire = Append(@, MessageDelta(stop))])
       \/ /\ Intercepts(s, stop) /\ Has("own", s.sent)
          /\ Goto(r, [s EXCEPT !.stop = stop, !.suppressed = <<>>, !.vcTools = <<>>,
                               !.wire = Append(@ \o s.suppressed, MessageDelta(stop))])
       \/ /\ Intercepts(s, stop) /\ ~Has("own", s.sent)
          /\ Goto(r, [s EXCEPT !.stop = stop, !.need = TRUE])
  /\ UNCHANGED <<history, deletion>>

\* message_stop, and the end of the stream.
StreamStop(r) ==
  LET s == relay[r] IN
  /\ In(r, "stream") /\ s.stop # None /\ s.mode # "json"
  /\ Goto(r, [s EXCEPT !.pc = "closed",
                       !.wire = IF s.need THEN @ ELSE Append(@, MessageStop)])
  /\ UNCHANGED <<history, deletion>>

\* The connection breaks, or stays silent for too long: _upstream_reader only
\* notes it.
StreamBreaks(r) ==
  /\ In(r, "stream") /\ relay[r].mode # "json"
  /\ Goto(r, [relay[r] EXCEPT !.pc = "closed"])
  /\ UNCHANGED <<history, deletion>>

\* Mutant: a stream that broke before its message_delta is waited for.
StreamClosedAtStop(r) ==
  /\ In(r, "closed") /\ relay[r].stop # None
  /\ Goto(r, [relay[r] EXCEPT !.pc = IF relay[r].need /\ relay[r].vcTools # <<>>
                                     THEN "tools" ELSE "post"])
  /\ UNCHANGED <<history, deletion>>

\* All has been forwarded or held back: on to the calls, or to the record.
StreamClosed(r) ==
  /\ In(r, "closed")
  /\ Goto(r, [relay[r] EXCEPT !.pc = IF relay[r].need /\ relay[r].vcTools # <<>>
                                     THEN "tools" ELSE "post"])
  /\ UNCHANGED <<history, deletion>>

-----------------------------------------------------------------------------
(* The continuation: the proxy answers the calls of its tools itself.       *)

\* execute_vc_tool for each call, the body extended by the message that made
\* the calls and by the results, and the next request sent.
Tools(r) ==
  LET s == relay[r] IN
  /\ In(r, "tools")
  /\ Goto(r, [s EXCEPT
       !.pc = "asking",
       !.body = @ \o <<[role |-> "assistant",
                        blocks |-> IF s.loop = 0 THEN s.blocks ELSE s.last.blocks],
                       [role |-> "user", blocks |-> s.vcTools]>>])
  /\ UNCHANGED <<history, deletion>>

\* The model's whole answers, for a continuation or without streaming.
Reply(loop) ==
  LET BlocksOf(ks) == [i \in DOMAIN ks |-> [kind |-> ks[i], loop |-> loop, at |-> i]]
      blocks == {BlocksOf(ks) : ks \in BoundedSeq(Kind, MaxBlocks)}
  IN  {m \in [blocks : blocks, stop : StopReason] : m.stop \in Stops(m.blocks)}

\* Another answer asks for vc tools alone.
OnlyVc(m) == m.stop = "tool_use" /\ Has("vc", m.blocks) /\ ~Has("own", m.blocks)

\* The blocks of a continuation that the client is shown: texts as they come,
\* its own calls when no further round follows.  Thinking is not shown.
Shown(m) == Of("text", m.blocks) \o (IF OnlyVc(m) THEN <<>> ELSE Of("own", m.blocks))

\* Mutant: what a continuation says is emitted and not kept.
RoundUnrecorded(s, m) ==
  [s EXCEPT !.last = m, !.loop = @ + 1,
            !.wire = @ \o Numbered(Shown(m), s.forwarded),
            !.forwarded = @ + Len(Shown(m))]

\* What a handler has that read m as its continuation.
Round(s, m) ==
  [s EXCEPT !.last = m, !.loop = @ + 1,
            !.texts = @ \o Of("text", m.blocks),
            !.wire = @ \o Numbered(Shown(m), s.forwarded),
            !.forwarded = @ + Len(Shown(m))]

\* Mutant: no bound on the rounds.
FurtherAlways(s) == [s EXCEPT !.vcTools = Of("vc", s.last.blocks), !.pc = "tools"]

\* Mutant: the calls of the round before are kept.
FurtherStale(s) == [s EXCEPT !.pc = IF s.loop = MaxLoops THEN "closing" ELSE "tools"]

\* Another round, or the end of the loop.
Further(s) ==
  [s EXCEPT !.vcTools = Of("vc", s.last.blocks),
            !.pc = IF s.loop = MaxLoops THEN "closing" ELSE "tools"]

Continue(r) ==
  /\ In(r, "asking")
  /\ \E m \in Reply(relay[r].loop + 1) :
       LET s == Round(relay[r], m)
       IN  Goto(r, IF OnlyVc(m) THEN Further(s) ELSE [s EXCEPT !.pc = "closing"])
  /\ UNCHANGED <<history, deletion>>

\* status_code >= 300 ends the rounds, what came before stands.
RefuseContinuation(r) ==
  /\ In(r, "asking")
  /\ Goto(r, [relay[r] EXCEPT !.pc = "closing"])
  /\ UNCHANGED <<history, deletion>>

\* A timeout or a broken connection is not caught: the client's stream breaks
\* off, and the answer is not recorded.
FailContinuation(r) ==
  /\ In(r, "asking")
  /\ Goto(r, Ended(relay[r], "broken"))
  /\ UNCHANGED <<history, deletion>>

\* _emit_message_end_sse.
Close(r) ==
  LET s == relay[r]
      stop == IF s.last.stop = "tool_use" /\ Has("own", s.last.blocks)
              THEN "tool_use" ELSE "end_turn"
  IN  /\ In(r, "closing")
      /\ Goto(r, [s EXCEPT !.pc = "post", !.wire = @ \o <<MessageDelta(stop), MessageStop>>])
      /\ UNCHANGED <<history, deletion>>

-----------------------------------------------------------------------------
(* An answer without streaming, and what follows every answer.              *)

\* _handle_non_streaming, or a failed request or a body that is not JSON.
Answer(r) ==
  LET s == relay[r] IN
  /\ In(r, "stream") /\ s.mode = "json"
  /\ \/ \E m \in Reply(0) :
          Goto(r, [s EXCEPT !.pc = "post", !.texts = Of("text", m.blocks),
                            !.wire = Append(Numbered(m.blocks, 0), MessageDelta(m.stop))
                                       \o <<MessageStop>>])
     \/ Goto(r, Ended(s, "broken"))
  /\ UNCHANGED <<history, deletion>>

\* Only an answer with text of a session that is not deleted is recorded.
Post(r) ==
  /\ In(r, "post")
  /\ Goto(r, IF relay[r].texts # <<>> /\ deletion = "none"
             THEN [relay[r] EXCEPT !.pc = "record"] ELSE Ended(relay[r], "done"))
  /\ UNCHANGED <<history, deletion>>

\* conversation_history.append, on a list that a deletion clears from another
\* thread.  A raw stream or a json body is then marked, a paging one never is.
Record(r) ==
  LET s == relay[r] IN
  /\ In(r, "record")
  /\ history' = Append(history, [role |-> "assistant", by |-> r, texts |-> s.texts])
  /\ Goto(r, IF s.mode = "paging" \/ s.marked THEN Ended(s, "done")
             ELSE [s EXCEPT !.pc = "mark"])
  /\ UNCHANGED deletion

Mark(r) ==
  /\ In(r, "mark")
  /\ Goto(r, Ended([relay[r] EXCEPT !.wire = Append(@, Marker)], "done"))
  /\ UNCHANGED <<history, deletion>>

-----------------------------------------------------------------------------
(* The client leaves, and the conversation is deleted.                      *)

\* The generator of a streamed response ends where it waits.  The paging path
\* does nothing more; the raw path still records in its finally, if that is
\* not cancelled too, and can no longer send a marker.
Vanish(r) ==
  LET s == relay[r] IN
  /\ s.mode \in {"paging", "raw"}
  /\ s.pc \in {"stream", "closed", "tools", "asking", "closing", "post", "mark"}
  /\ \/ Goto(r, Ended(s, "gone"))
     \/ /\ s.mode = "raw" /\ s.pc \in {"stream", "closed"}
        /\ Goto(r, [s EXCEPT !.pc = "post", !.marked = TRUE])
  /\ UNCHANGED <<history, deletion>>

\* reset_for_conversation_deletion, on a thread of its own.
MarkDeleted ==
  /\ deletion = "none" /\ deletion' = "marked"
  /\ UNCHANGED <<history, relay>>

ClearHistory ==
  /\ deletion = "marked" /\ deletion' = "cleared"
  /\ history' = <<>>
  /\ UNCHANGED relay

-----------------------------------------------------------------------------
Handle(r) ==
  \/ StreamBlock(r) \/ StreamDelta(r) \/ StreamStop(r) \/ StreamBreaks(r)
  \/ StreamClosed(r) \/ Tools(r) \/ Continue(r) \/ RefuseContinuation(r)
  \/ FailContinuation(r) \/ Close(r) \/ Answer(r) \/ Post(r) \/ Record(r) \/ Mark(r)

Next ==
  \/ \E r \in Request, mode \in {"paging", "raw", "json"}, asked, marked \in BOOLEAN :
       Arrive(r, mode, asked, marked)
  \/ \E r \in Request : Handle(r) \/ Vanish(r)
  \/ MarkDeleted \/ ClearHistory

Spec == Init /\ [][Next]_vars

\* The event loop runs a handler that can run, and httpx limits every wait for
\* the model.
FairSpec == Spec /\ \A r \in Request : WF_vars(Handle(r))

-----------------------------------------------------------------------------
(* Properties.                                                              *)

\* The text a client has received, and the answers to r in the history.
TextPiece == [ev : {"block"}, block : {b \in Block : b.kind = "text"}, index : Nat]
ShownTexts(s) ==
  LET shown == Only(s.wire, TextPiece) IN [j \in DOMAIN shown |-> shown[j].block]
AnswersTo(r) ==
  Only(history, [role : {"assistant"}, by : {r}, texts : Seq(Block)])

Shows(r, kind) ==
  \E e \in Range(relay[r].wire) : e.ev = "block" /\ e.block.kind = kind
Told(r, stop) == MessageDelta(stop) \in Range(relay[r].wire)

\* Blocks of the wire w of a request.  The proxy added it in a later round.  It
\* is a call that was held back and sent after all.  Its index is above its
\* place: the model sent a call before it that was held back.
Added(e) == e.block.loop > 0
Released(mode, e) == mode = "paging" /\ e.block.kind = "vc"
PastHeldCall(w, i) == w[i].index >= i

\* The client receives one well-formed message, whichever of its blocks the
\* model streamed and whichever the proxy added in later rounds.  Indexes
\* increase, but for the calls that go out after all (handlers.py:875), which
\* still repeat none.  What the proxy adds is numbered by the blocks the client
\* has (forwarded_block_count, 858), so that it repeats or goes below an index
\* of the model only if that block came past a held call (see NoIndexTwice).
\* Nothing but the stop follows the one message_delta, and nothing but the
\* marker the stop (the events of 863-891 that are swallowed).
WireWellFormed ==
  \A r \in Request :
    LET w == relay[r].wire IN
    /\ \A i, j \in DOMAIN w :
         i < j => /\ w[i].ev = "block" /\ w[j].ev = "block" =>
                       \/ w[i].index < w[j].index
                       \/ Released(relay[r].mode, w[j]) /\ w[i].index # w[j].index
                       \/ Added(w[j]) /\ PastHeldCall(w, i)
                  /\ w[i].ev = "delta" => w[j].ev \in {"stop", "marker"}
                  /\ w[i].ev = "stop" => w[j].ev = "marker"
    /\ \A j \in DOMAIN w : w[j].ev = "block" /\ Added(w[j]) => w[j].index = j - 1
    /\ relay[r].mode = "paging" /\ relay[r].loop > 0 /\ In(r, "post")
         => \E e \in Range(w) : e.ev = "stop"

\* No two blocks of a message have one index (the comment on
\* forwarded_block_count: "so continuation emits use correct indices").
NoIndexTwice ==
  \A r \in Request :
    LET w == relay[r].wire IN
    \A i, j \in DOMAIN w :
      i # j /\ w[i].ev = "block" /\ w[j].ev = "block" => w[i].index # w[j].index

\* Every call of the model has one party that answers it.  A continuation asks
\* with the results of exactly the calls of the message before.  A client that
\* is told tool_use has a call of its own to answer, and is shown calls of the
\* proxy's tools only beside one, in a message of which the proxy runs none.
CallsAnswered ==
  \A r \in Request :
    LET s == relay[r] IN
    /\ \A i \in DOMAIN s.body :
         s.body[i].role = "assistant" =>
           /\ i < Len(s.body) /\ s.body[i + 1].role = "user"
           /\ s.body[i + 1].blocks = Calls(s.body[i].blocks)
    /\ s.mode = "paging" /\ Told(r, "tool_use") => Shows(r, "own")
    /\ s.mode = "paging" /\ Shows(r, "vc") => Shows(r, "own") /\ s.body = <<>>

\* What the history holds as an answer is what the client was shown, all of
\* its rounds in order and once; and a session that is not deleted holds the
\* answer of every request that came to its end.
RecordedIsShown ==
  \A r \in Request :
    LET shown == ShownTexts(relay[r])
        mine == AnswersTo(r)
    IN  /\ Len(mine) <= 1
        /\ \A i \in DOMAIN mine : mine[i].texts = shown
        /\ In(r, "done") /\ shown # <<>> /\ deletion = "none" => mine # <<>>

\* Every request comes to an end, whatever the model keeps asking for
\* (_MAX_CONTINUATION_LOOPS, the break at handlers.py:1249) and wherever it
\* breaks off (_upstream_done, handlers.py:700).
StreamsEnd ==
  \A r \in Request :
    In(r, "stream") ~> relay[r].pc \in {"done", "gone", "broken"}

=============================================================================
