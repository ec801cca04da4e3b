-------------------------- MODULE PayloadPipeline --------------------------
(***************************************************************************)
(* How one conversation's requests are rewritten on their way upstream:     *)
(* proxy/server.py, prepare_payload, over the operations of                 *)
(* PayloadMessages, with the chain snapshots and tool outputs it stores for *)
(* vc_restore_tool (proxy/handlers.py) and the cache of them a worker keeps *)
(* (proxy/state.py).  The client owns the history and resends all of it, or *)
(* what it has not truncated; tagging and compaction advance meanwhile.     *)
(***************************************************************************)
EXTENDS PayloadMessages

CONSTANTS
    Form,            \* the forms of a turn the client opens (see Opening)
    Protected,       \* monitor.protected_recent_turns
    DefaultWindow,   \* default of drop_compacted_turns(protected_recent_turns)
    MinStoreTurns,   \* store recovery needs more turns than this in the index
    MaxTurns,        \* bound: turns of the conversation
    MaxRounds,       \* bound: turns with a tool round
    MaxTroubles      \* bound: turns left without an answer, truncations by the
                     \* client, restarts of the worker and failing writes, together

ASSUME WindowAssumption == Protected \in Nat \ {0} /\ DefaultWindow \in Nat
ASSUME FormAssumption == Form \subseteq {"loop", "mixed", "split"}
ASSUME BoundAssumption == MaxTurns \in Nat /\ MaxTroubles \in Nat

VARIABLES
    turns,       \* the client's history: [form, answered, hashed]
    base,        \* turns the client no longer sends
    indexed,     \* entries of the turn tag index
    compacted,   \* compacted_prefix_messages, in turns
    flushed,     \* flushed_prefix_messages, in turns
    defer,       \* monitor.defer_payload_mutation
    rows,        \* chain_snapshots of the conversation: references
    outputs,     \* tool_outputs of the conversation: calls
    cache,       \* _chain_snapshot_cache
    stage, pass, \* where the request is, 2 after the safety valve
    body,        \* the payload being built
    warm,        \* _warm_defer
    truncated,   \* _client_truncated
    unseen,      \* whether the store has chains the cache did not see stored
    troubles     \* (bound) what has gone wrong

work == <<stage, pass, body, warm, truncated>>
store == <<rows, outputs>>
marks == <<indexed, compacted, flushed, defer>>
bounds == <<unseen, troubles>>
vars == <<turns, base, marks, store, cache, work, bounds>>

---------------------------------------------------------------------------
\* The client's messages.

\* What a turn of a form has before its answer: a question (ask), one with a
\* tool round (loop), text beside the tool result (mixed), or an assistant
\* message of text before the one that calls the tool (split).  Message ids
\* are <<turn, position>>, a tool call is named by its turn.
Opening(t, form) ==
    LET user == Message("user", <<t, 1>>, TRUE, {}, {})
        call(p) == Message("assistant", <<t, p>>, FALSE, {t}, {})
        result(p, text) == Message("user", <<t, p>>, text, {}, {t})
    IN  CASE form = "ask"   -> <<user>>
          [] form = "loop"  -> <<user, call(2), result(3, FALSE)>>
          [] form = "mixed" -> <<user, call(2), result(3, TRUE)>>
          [] form = "split" -> <<user, Message("assistant", <<t, 2>>, TRUE, {}, {}),
                                 call(3), result(4, FALSE)>>

TurnMessages(t) ==
    LET opening == Opening(t, turns[t].form)
    IN  IF turns[t].answered
        THEN Append(opening,
                    Message("assistant", <<t, Len(opening) + 1>>, TRUE, {}, {}))
        ELSE opening

\* The messages of the turns after the first n.
Client(n) ==
    FlattenSeq([t \in DOMAIN turns |-> IF t > n THEN TurnMessages(t) ELSE <<>>])

\* _pre_filter_body.
PreFilter == Client(base)

---------------------------------------------------------------------------
\* Turn numbers and references.

\* The turn number of an answered turn, and the turn of a message id.
Canonical(t) == Cardinality({s \in 1..(t - 1) : turns[s].answered})

Answered == {t \in DOMAIN turns : turns[t].answered}

\* The last turn has no answer yet.
Pending == turns # <<>> /\ ~turns[Len(turns)].answered

\* get_entry_by_hash for the group named by the client message id: -1 when
\* the turn has no entry, or one made from another text of the turn.
Resolve(id) ==
    LET t == id[1]
    IN  IF t \in Answered /\ turns[t].hashed /\ Canonical(t) < indexed
        THEN Canonical(t) ELSE -1

\* A reference is made from the turn number and the content of the chain,
\* which its first message tells apart.
Ref(canon, id) == [canon |-> canon, first |-> id]

\* The cache of a worker that has just started.
Unloaded == [loaded |-> FALSE, refs |-> {}, recovery |-> FALSE, manifest |-> {}]

\* The last entry's turn number, and the threshold of deep compaction.
Newest == IF indexed = 0 THEN 0 ELSE indexed - 1
Deep == Newest \div 2

\* The position in pre of the client message id.
PositionIn(pre, id) == CHOOSE i \in DOMAIN pre : pre[i].of = <<id>>

---------------------------------------------------------------------------
\* collapse_turn_chains.

\* The groups that may be collapsed: with tools, outside the protected window.
Collapsible(b) == {s \in ButLast(HistoryStarts(b), Protected) : HasTool(b, s)}

\* Mutant: the new snapshot is not added to the recovery manifest.
RememberRefs(c, known, ref) ==
    [c EXCEPT !.loaded = TRUE, !.refs = known, !.recovery = TRUE]

\* The cache after a new snapshot is stored, with the chains known by then.
Remember(c, known, ref) ==
    [c EXCEPT !.loaded = TRUE, !.refs = known,
              !.recovery = TRUE, !.manifest = @ \union {ref}]

\* The outcome of the loop over the groups that may be collapsed: the chains
\* known by turn number, what was stored, the cache, the stubs to insert and
\* the groups to drop.  lostRows, lostOutputs: where a write raises.
Collapsing(b, cached, lostRows, lostOutputs) ==
    LET H == Collapsible(b)
        known == IF cached /\ cache.loaded THEN cache.refs
                 ELSE {r \in rows : r.canon >= 0}
        start == [known |-> known, rows |-> rows, outputs |-> outputs,
                  cache |-> IF cached THEN [cache EXCEPT !.loaded = TRUE,
                                                         !.refs = known]
                            ELSE cache,
                  stubs |-> [s \in {} |-> Ref(-1, <<0, 0>>)], deep |-> {}]
        stubbed(acc, s, canon, ref) ==
            IF Deep > 0 /\ canon >= 0 /\ canon < Deep
            THEN [acc EXCEPT !.deep = @ \union {[start |-> s, ref |-> ref]}]
            ELSE [acc EXCEPT !.stubs = [x \in DOMAIN @ \union {s} |->
                                          IF x = s THEN ref ELSE @[x]]]
        saved(acc, s, canon, ref) ==
            [acc EXCEPT
               !.known = @ \union {ref}, !.rows = @ \union {ref},
               !.cache = IF cached /\ canon >= 0
                         THEN Remember(@, @.refs \union {ref}, ref) ELSE @]
        step(acc, s) ==
            LET id == Needle(b, s)
                canon == Resolve(id)
                same == {r \in acc.known : r.canon = canon}
                chain == Chain(PreFilter, PositionIn(PreFilter, id))
                calls == IF s \in lostOutputs THEN {}
                         ELSE UNION {b[i].results : i \in Group(b, s)}
                tried == [acc EXCEPT !.outputs = @ \union calls]
                ref == Ref(canon, id)
            IN  CASE id = <<>> -> acc
                  [] id # <<>> /\ same # {} ->
                        stubbed(acc, s, canon, CHOOSE r \in same : TRUE)
                  [] id # <<>> /\ same = {} /\ chain = {} -> acc
                  [] id # <<>> /\ same = {} /\ chain # {} /\ s \in lostRows -> tried
                  [] OTHER -> stubbed(saved(tried, s, canon, ref), s, canon, ref)
        to[i \in 0..Len(b)] ==
            IF i = 0 THEN start
            ELSE IF i \in H THEN step(to[i - 1], i) ELSE to[i - 1]
    IN  to[Len(b)]

\* The references the loop has found a place or an end for.
Offers(result) ==
    {result.stubs[s] : s \in DOMAIN result.stubs} \union {d.ref : d \in result.deep}

\* The stubs of stored chains that the store gives back to a client that has
\* truncated its history, oldest first.
Recovered(result, cached) ==
    LET stored == IF cached /\ cache.recovery THEN result.cache.manifest
                  ELSE {r \in result.rows : r.canon >= 0}
        back == {r \in stored : /\ r.canon >= Deep
                                /\ r.canon < Newest - Protected + 1
                                /\ r \notin Offers(result)}
        part(t) == LET R == {r \in back : r.canon = t - 1}
                   IN  IF R = {} THEN <<>> ELSE StubPair(CHOOSE r \in R : TRUE)
    IN  FlattenSeq([t \in DOMAIN turns |-> part(t)])

---------------------------------------------------------------------------
Init ==
    /\ turns = <<>> /\ base = 0
    /\ indexed = 0 /\ compacted = 0 /\ flushed = 0 /\ defer \in BOOLEAN
    /\ rows = {} /\ outputs = {} /\ cache = Unloaded
    /\ stage = "idle" /\ pass = 1 /\ body = <<>> /\ warm = FALSE /\ truncated = FALSE
    /\ unseen = FALSE /\ troubles = 0

---------------------------------------------------------------------------
\* No request is being prepared any more.
EndRequest ==
    /\ stage' = "idle" /\ pass' = 1 /\ body' = <<>>
    /\ warm' = FALSE /\ truncated' = FALSE

Trouble(n) == troubles + n <= MaxTroubles /\ troubles' = troubles + n

\* The client and the model.

\* The user asks.  A turn that got no answer stays in the history as it is.
Ask ==
    /\ stage = "idle" /\ Len(turns) < MaxTurns
    /\ Trouble(IF Pending THEN 1 ELSE 0)
    /\ turns' = Append(turns, [form |-> "ask", answered |-> FALSE, hashed |-> FALSE])
    /\ UNCHANGED <<base, marks, store, cache, work, unseen>>

\* The model calls a tool of the client's, which will send the result.
CallTool(form) ==
    /\ stage = "sent" /\ turns[Len(turns)].form = "ask" /\ form # "ask"
    /\ Cardinality({t \in DOMAIN turns : turns[t].form # "ask"}) < MaxRounds
    /\ turns' = [turns EXCEPT ![Len(turns)].form = form]
    /\ EndRequest
    /\ UNCHANGED <<base, marks, store, cache, bounds>>

\* The model answers.  Whether the text the tagger hashes is the one that
\* collapse_turn_chains finds again depends on the texts of a tool round.
Answer(hashed) ==
    /\ stage = "sent"
    /\ turns[Len(turns)].form = "ask" => hashed
    /\ turns' = [turns EXCEPT ![Len(turns)].answered = TRUE,
                              ![Len(turns)].hashed = hashed]
    /\ EndRequest
    /\ UNCHANGED <<base, marks, store, cache, bounds>>

\* The upstream call fails or is interrupted: the client may send the turn
\* again or go on with another question.
Interrupt ==
    /\ stage = "sent"
    /\ EndRequest
    /\ UNCHANGED <<turns, base, marks, store, cache, bounds>>

\* The client drops its oldest turns for good.
Truncate(n) ==
    /\ stage = "idle" /\ Trouble(1)
    /\ n \in (base + 1)..(Len(turns) - 1)
    /\ base' = n
    /\ UNCHANGED <<turns, marks, store, cache, work, unseen>>

---------------------------------------------------------------------------
\* The background threads, and the worker's restart.

\* A turn gets its entry in the index.  A request waits for the tagging of
\* the turns before it (wait_for_tag), so no entry comes while it is prepared.
Tag ==
    /\ stage = "idle" /\ indexed < Cardinality(Answered)
    /\ indexed' = indexed + 1
    /\ UNCHANGED <<turns, base, compacted, flushed, defer, store, cache, work, bounds>>

\* Mutant: the turns monitor.protected_recent_turns keeps are compacted too.
CompactAll ==
    /\ compacted < indexed
    /\ compacted' = indexed
    /\ UNCHANGED <<turns, base, indexed, flushed, defer, store, cache, work, bounds>>

\* A compaction covers all that is tagged short of the protected turns; it may
\* end while a request is prepared.
Compact ==
    /\ compacted < indexed - Protected
    /\ compacted' = indexed - Protected
    /\ UNCHANGED <<turns, base, indexed, flushed, defer, store, cache, work, bounds>>

Restart ==
    /\ Trouble(1)
    /\ unseen' = (rows # {})
    /\ cache' = Unloaded
    /\ EndRequest
    /\ UNCHANGED <<turns, base, marks, store>>

---------------------------------------------------------------------------
\* prepare_payload.

\* The request arrives.  The client has truncated when it sends much less than
\* the index knows.  The flush gate: without deferral, or when the provider's
\* cache has gone cold, everything compacted is flushed; otherwise changes to
\* the payload wait while something compacted is not flushed.
Receive(cold) ==
    LET flush == ~defer \/ cold
    IN  /\ stage = "idle" /\ Pending
        /\ defer \/ ~cold
        /\ body' = PreFilter
        /\ truncated' = (/\ indexed > MinStoreTurns
                         /\ 10 * Cardinality(GroupStarts(PreFilter)) < 7 * indexed)
        /\ flushed' = IF flush THEN Max({flushed, compacted}) ELSE flushed
        /\ warm' = (~flush /\ compacted > flushed)
        /\ stage' = "drop" /\ pass' = 1
        /\ UNCHANGED <<turns, base, indexed, compacted, defer, store, cache, bounds>>

\* drop_compacted_turns.  The safety valve calls it with the default window,
\* and with a boundary whatever the mode.
Drop ==
    /\ stage = "drop"
    /\ body' = IF flushed > 0 /\ ~warm
               THEN DropTurns(body, IF pass = 1 THEN Protected ELSE DefaultWindow,
                              IF defer \/ pass = 2 THEN 0..(flushed - 1) ELSE Nat)
               ELSE body
    /\ stage' = IF pass = 1 THEN "filter" ELSE "collapse"
    /\ UNCHANGED <<turns, base, marks, store, cache, pass, warm, truncated, bounds>>

\* The entries of the index that are looked at.
Decided == 0..(Min({indexed, Cardinality(PairStarts(body)) - Protected}) - 1)

\* filter_body_messages, when the request matched a tag: matched are the
\* entries of the index whose tags it matches.  It runs while changes wait too.
FilterBody(matched) ==
    /\ stage = "filter"
    /\ body' = Filter(body, Protected, indexed, matched)
    /\ stage' = "collapse"
    /\ UNCHANGED <<turns, base, marks, store, cache, pass, warm, truncated, bounds>>

SkipFilter ==
    /\ stage = "filter"
    /\ stage' = "collapse"
    /\ UNCHANGED <<turns, base, marks, store, cache, pass, body, warm, truncated, bounds>>

\* collapse_turn_chains, after the first compaction.  Only the first pass has
\* the worker's cache.
Collapse(lostRows, lostOutputs) ==
    LET cached == pass = 1
        result == Collapsing(body, cached, lostRows, lostOutputs)
        back == IF truncated THEN Recovered(result, cached) ELSE <<>>
        out == DOMAIN result.stubs \union {d.start : d \in result.deep}
    IN  /\ stage = "collapse" /\ compacted > 0 /\ ~warm /\ HistoryStarts(body) # {}
        /\ Trouble(Cardinality(lostRows) + Cardinality(lostOutputs))
        /\ body' = back \o Collapsed(body, out, result.stubs)
        /\ rows' = result.rows /\ outputs' = result.outputs
        /\ cache' = IF cached /\ truncated /\ ~cache.recovery
                    THEN [result.cache EXCEPT !.recovery = TRUE,
                             !.manifest = {r \in result.rows : r.canon >= 0}]
                    ELSE result.cache
        /\ unseen' = (unseen \/ (~cached /\ result.rows # rows))
        /\ stage' = "stub"
        /\ UNCHANGED <<turns, base, marks, pass, warm, truncated>>

SkipCollapse ==
    /\ stage = "collapse" /\ (compacted = 0 \/ warm \/ HistoryStarts(body) = {})
    /\ stage' = "stub"
    /\ UNCHANGED <<turns, base, marks, store, cache, pass, body, warm, truncated, bounds>>

Stubbable(intrude) ==
    IF warm THEN {}
    ELSE {i \in StubbablePositions(body, Protected, intrude) : body[i].results # {}}

\* Mutant: the stub replaces the output before the store has it.
StubToolsFirst(intrude, lost) ==
    LET S == Stubbable(intrude)
    IN  /\ stage = "stub" /\ lost \subseteq S
        /\ Trouble(Cardinality(lost))
        /\ body' = StubOutputs(body, S)
        /\ outputs' = outputs \union UNION {body[i].results : i \in S \ lost}
        /\ stage' = IF pass = 1 THEN "merge" ELSE "trim"
        /\ UNCHANGED <<turns, base, marks, rows, cache, pass, warm, truncated, unseen>>

\* stub_tool_outputs_by_position: an output that cannot be stored stays.
StubTools(intrude, lost) ==
    LET S == Stubbable(intrude)
    IN  /\ stage = "stub" /\ lost \subseteq S
        /\ Trouble(Cardinality(lost))
        /\ body' = StubOutputs(body, S \ lost)
        /\ outputs' = outputs \union UNION {body[i].results : i \in S \ lost}
        /\ stage' = IF pass = 1 THEN "merge" ELSE "trim"
        /\ UNCHANGED <<turns, base, marks, rows, cache, pass, warm, truncated, unseen>>

\* merge_consecutive_conversational; what waited is left out of the payload.
Merge ==
    /\ stage = "merge"
    /\ body' = MergeConversational(body)
    /\ stage' = "trim"
    /\ UNCHANGED <<turns, base, marks, store, cache, pass, warm, truncated, bounds>>

\* The safety valve: the merged payload is too large without what waited, which
\* runs after all.
Valve ==
    /\ stage = "merge" /\ warm
    /\ body' = MergeConversational(body)
    /\ flushed' = compacted /\ warm' = FALSE
    /\ stage' = "drop" /\ pass' = 2
    /\ UNCHANGED <<turns, base, indexed, compacted, defer, store, cache, truncated, bounds>>

\* trim_to_upstream_limit: older are the groups that fit besides the last two.
\* When the tools and the system prompt fill the window by themselves
\* (cramped) nothing else stays and nothing is cleaned up.
Trim(older, cramped) ==
    LET all == ButLast(GroupStarts(body), 2)
    IN  /\ stage = "trim"
        /\ older \subseteq all /\ cramped => older = {}
        /\ body' = IF older = all \/ cramped THEN Trimmed(body, older)
                   ELSE Cleanup(Trimmed(body, older))
        /\ stage' = "sent"
        /\ UNCHANGED <<turns, base, marks, store, cache, pass, warm, truncated, bounds>>

\* The model calls vc_restore_tool with the reference of a stub it was sent.
Restore(ref) ==
    LET full == Client(0)
        whole == Keep(full, Chain(full, PositionIn(full, ref.first)))
    IN  /\ stage = "sent" /\ ref \in rows /\ StubsOf(body, ref) # {}
        /\ body' = RestoreInPlace(body, ref, Restorable(whole))
        /\ UNCHANGED <<turns, base, marks, store, cache, stage, pass, warm, truncated, bounds>>

---------------------------------------------------------------------------
Prepare ==
    \/ \E cold \in BOOLEAN : Receive(cold)
    \/ Drop
    \/ SkipFilter
    \/ stage = "filter" /\ \E matched \in SUBSET Decided : FilterBody(matched)
    \/ stage = "collapse" /\ \E lostRows \in SUBSET Collapsible(body) :
          \E lostOutputs \in SUBSET Collapsible(body) : Collapse(lostRows, lostOutputs)
    \/ SkipCollapse
    \/ stage = "stub" /\ \E intrude \in BOOLEAN : \E lost \in SUBSET Stubbable(intrude) :
          StubTools(intrude, lost)
    \/ Merge \/ Valve
    \/ stage = "trim" /\ \E cramped \in BOOLEAN :
          \E older \in SUBSET ButLast(GroupStarts(body), 2) : Trim(older, cramped)
    \/ stage = "sent" /\ \E ref \in rows : Restore(ref)

Next ==
    \/ Ask \/ Interrupt \/ Tag \/ Compact \/ Restart
    \/ \E form \in Form : CallTool(form)
    \/ \E hashed \in BOOLEAN : Answer(hashed)
    \/ \E n \in 1..MaxTurns : Truncate(n)
    \/ Prepare

Spec == Init /\ [][Next]_vars

---------------------------------------------------------------------------
Id == (1..MaxTurns) \X (1..5)
Refs == [canon : (-1)..(MaxTurns - 1), first : Id]
Messages == [role : {"user", "assistant"}, of : Seq(Id), text : BOOLEAN,
             uses : SUBSET (1..MaxTurns), results : SUBSET (1..MaxTurns),
             stubbed : SUBSET (1..MaxTurns), mark : BOOLEAN, refs : SUBSET Refs]

\* The shape of the state; what is flushed has been compacted, and what is
\* compacted has been tagged, leaving the protected turns.
TypeOK ==
    /\ turns \in Seq([form : Form \union {"ask"}, answered : BOOLEAN, hashed : BOOLEAN])
    /\ base \in 0..MaxTurns
    /\ indexed \in 0..Cardinality(Answered)
    /\ compacted \in 0..MaxTurns /\ (compacted > 0 => compacted <= indexed - Protected)
    /\ flushed \in 0..compacted /\ defer \in BOOLEAN
    /\ rows \in SUBSET Refs /\ outputs \in SUBSET (1..MaxTurns)
    /\ cache \in [loaded : BOOLEAN, refs : SUBSET rows,
                  recovery : BOOLEAN, manifest : SUBSET rows]
    /\ stage \in {"idle", "drop", "filter", "collapse", "stub", "merge", "trim",
                  "sent"}
    /\ pass \in 1..2 /\ body \in Seq(Messages)
    /\ warm \in BOOLEAN /\ truncated \in BOOLEAN
    /\ unseen \in BOOLEAN /\ troubles \in 0..MaxTroubles

\* Whatever the stages drop, replace, merge or restore, every tool result of
\* the payload directly follows the message with its call, and every call is
\* answered by the next message (the providers refuse anything else).
ToolsPaired ==
    \A i \in DOMAIN body :
        /\ body[i].results # {} =>
              i > 1 /\ body[i].results \subseteq body[i - 1].uses
        /\ body[i].uses # {} =>
              i < Len(body) /\ body[i].uses \subseteq body[i + 1].results

\* The payload begins with a user message (the comment on the backfill in
\* filter_body_messages: the API rejects anything else).
BeginsWithUser == body # <<>> => IsUser(body[1])

\* Every reference a stub of the payload offers has a row the model can get
\* back, even when some of the writes failed.
StubsStored ==
    \A i \in DOMAIN body :
        body[i].refs \subseteq rows /\ body[i].stubbed \subseteq outputs

\* No message makes the calls the stub of r stands for.
Alone(r) == \A j \in DOMAIN body : r.first[1] \notin body[j].uses

\* A chain with a turn number is offered by one stub, though the body, the store
\* and the cache all contribute chains, and never beside its own messages (for a
\* client that has truncated, as long as one turn is protected: see ChainsApart).
ChainsOnce ==
    \A i \in DOMAIN body : \A r \in body[i].refs : r.canon >= 0 =>
        /\ \A j \in DOMAIN body : r \in body[j].refs => i = j
        /\ ~truncated \/ Protected < 2 => Alone(r)

\* The stored chains a truncated client does not send any more, short of deep
\* compaction and of the protected window.
Lost(r) == r.canon >= Deep /\ r.canon < Newest - Protected + 1

Offered(r) == \E i \in DOMAIN body : r \in body[i].refs

Recovering == stage = "collapse" /\ stage' = "stub" /\ truncated /\ ~warm
              /\ compacted > 0 /\ HistoryStarts(body) # {}

RecoversAll == \A r \in rows : Lost(r) /\ r.canon >= 0 => Offered(r)'

\* A client that has truncated its history gets stubs of all the chains stored
\* for it (the README on store-backed recovery: as if it had never been
\* truncated), as long as the worker's cache saw them all be stored.
RecoversSeen == [][~unseen /\ Recovering => RecoversAll]_vars

\* The same whatever the worker's cache has seen.
RecoversChains == [][Recovering => RecoversAll]_vars

\* The question being asked is in the payload that is sent
\* (tests/test_message_filter.py: the trailing user message is always kept).
CurrentMessageSent ==
    stage = "sent" /\ turns[Len(turns)].form = "ask" =>
        \E i \in DOMAIN body : \E k \in DOMAIN body[i].of :
            body[i].of[k] = <<Len(turns), 1>>

\* Two stubs offer two chains.
StubsDiffer ==
    \A i, j \in DOMAIN body : body[i].refs \intersect body[j].refs # {} => i = j

\* The same for every client and every protected window: the collapse protects
\* the last groups that the filter has left, the store-backed recovery the last
\* turn numbers.
ChainsApart ==
    \A i \in DOMAIN body : \A r \in body[i].refs : r.canon >= 0 => Alone(r)
=============================================================================
