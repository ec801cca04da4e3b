-------------------------- MODULE PayloadMessages --------------------------
(***************************************************************************)
(* The message list of an Anthropic request body and the pure operations    *)
(* the proxy builds its payload from: proxy/formats.py, AnthropicFormat,    *)
(* and proxy/message_filter.py.  A message keeps its role, which client     *)
(* messages it holds (of, more than one after a merge), whether it has text *)
(* blocks, the tool calls it makes (uses) and answers (results), which of   *)
(* the results were replaced by a stub (stubbed), whether its text says     *)
(* "[Compacted turn" (mark), and the chain references it offers (refs).     *)
(***************************************************************************)
EXTENDS Integers, FiniteSets, FiniteSetsExt, Sequences, SequencesExt

Message(role, id, text, uses, results) ==
    [role |-> role, of |-> <<id>>, text |-> text, uses |-> uses,
     results |-> results, stubbed |-> {}, mark |-> FALSE, refs |-> {}]

IsUser(m) == m.role = "user"

\* b without the positions outside S.
Keep(b, S) == FlattenSeq([i \in DOMAIN b |-> IF i \in S THEN <<b[i]>> ELSE <<>>])

---------------------------------------------------------------------------
\* Turn groups.

\* Mutant: a message of tool results counts as a question.
AnyUser(m) == IsUser(m)

\* A user message that starts a turn: it carries no tool result.
RealUser(m) == IsUser(m) /\ m.results = {}

\* A user message made of tool results only.
ToolResultOnly(m) == IsUser(m) /\ m.results # {} /\ ~m.text

\* Where the groups of group_into_turns begin.
GroupStarts(b) == {i \in DOMAIN b : i = 1 \/ RealUser(b[i])}

\* The positions of the group that begins at s.
Group(b, s) == s..(Min({r \in GroupStarts(b) : r > s} \union {Len(b) + 1}) - 1)

HasTool(b, s) == \E i \in Group(b, s) : b[i].uses # {} \/ b[i].results # {}

\* The groups of the history: a trailing group of user messages is the
\* question being asked.
HistoryStarts(b) ==
    LET G == GroupStarts(b)
        last == Max(G)
    IN  IF G # {} /\ \A i \in last..Len(b) : IsUser(b[i]) THEN G \ {last} ELSE G

\* The members of S that are not among the last n.
ButLast(S, n) == {s \in S : Cardinality({r \in S : r >= s}) > n}

Rank(S, s) == Cardinality({r \in S : r < s})

---------------------------------------------------------------------------
\* drop_compacted_turns: limit is Nat when no boundary is given.
DropTurns(b, window, limit) ==
    LET H == HistoryStarts(b)
        out == {s \in ButLast(H, window) : ~HasTool(b, s) /\ Rank(H, s) \in limit}
    IN  Keep(b, DOMAIN b \ UNION {Group(b, s) : s \in out})

---------------------------------------------------------------------------
\* filter_body_messages.

\* The pairs of a user message and the assistant message after it.
Paired(c, i, j) == j = i + 1 /\ IsUser(c[i]) /\ ~IsUser(c[j])
PairStarts(c) == {i \in 1..(Len(c) - 1) : Paired(c, i, i + 1)}

ToolLinked(c, i, j) == c[i].uses \intersect c[j].results # {}

\* Mutant: a call is kept for its result and not the other way round.
TiedBackward(c, i, j) ==
    Paired(c, i, j) \/ Paired(c, j, i) \/ ToolLinked(c, j, i)

Tied(c, i, j) ==
    \/ Paired(c, i, j) \/ Paired(c, j, i)
    \/ ToolLinked(c, i, j) \/ ToolLinked(c, j, i)

\* S with every message a message of it is tied to, and so on.
Closure(c, S) ==
    LET near[n \in 0..Len(c)] ==
            IF n = 0 THEN S
            ELSE LET T == near[n - 1]
                 IN  T \union {j \in DOMAIN c \ T : \E i \in T : Tied(c, i, j)}
    IN  near[Len(c)]

\* When the first message kept is not a user's, everything before it stays.
Backfill(c, S) ==
    S \union UNION {1..i : i \in {k \in S : \A h \in S : h <= k => ~IsUser(c[h])}}

\* The alternation of roles: of two neighbours with one role the later goes,
\* unless it is half of a tool call that is kept.  items: [m, crit].
Alternate(items) ==
    LET to[n \in 0..Len(items)] ==
            IF n = 0 THEN <<>>
            ELSE LET acc == to[n - 1]
                     x == items[n]
                     clash == acc # <<>> /\ acc[Len(acc)].m.role = x.m.role
                 IN  CASE ~clash -> Append(acc, x)
                       [] clash /\ ~x.crit -> acc
                       [] clash /\ x.crit /\ acc[Len(acc)].crit -> Append(acc, x)
                       [] OTHER -> [acc EXCEPT ![Len(acc)] = x]
        last == to[Len(items)]
    IN  [n \in DOMAIN last |-> last[n].m]

\* Tool results of b whose call is not in b.
Orphans(b) ==
    (UNION {b[i].results : i \in DOMAIN b}) \ (UNION {b[i].uses : i \in DOMAIN b})

\* The body the filter returns.  matches[k] says whether the tags of the k-th
\* entry of the index match the request; a pair without an entry is kept.
Filter(b, window, indexed, matched) ==
    LET asked == b # <<>> /\ IsUser(b[Len(b)])
        c == IF asked THEN SubSeq(b, 1, Len(b) - 1) ELSE b
        P == PairStarts(c)
        wanted == {i \in P : \/ i \notin ButLast(P, window)
                             \/ Rank(P, i) >= indexed
                             \/ Rank(P, i) \in matched}
        unpaired == DOMAIN c \ (P \union {i + 1 : i \in P})
        first == Closure(c, unpaired \union wanted \union {i + 1 : i \in wanted})
        kept == Closure(c, Backfill(c, first))
        critical(i) == \E j \in kept : ToolLinked(c, i, j) \/ ToolLinked(c, j, i)
        item(i) == IF i \in kept THEN <<[m |-> c[i], crit |-> critical(i)]>> ELSE <<>>
        current == IF asked THEN <<[m |-> b[Len(b)], crit |-> FALSE]>> ELSE <<>>
        out == Alternate(FlattenSeq([i \in DOMAIN c |-> item(i)]) \o current)
        users == Cardinality({i \in DOMAIN out : IsUser(out[i])})
        dropped == Cardinality(P) - (IF asked THEN users - 1 ELSE users)
    IN  IF \/ Cardinality(P) <= window \/ indexed = 0
           \/ Orphans(out) # {} \/ dropped <= 0
        THEN b ELSE out

---------------------------------------------------------------------------
\* Chains of the body as the client sent it.

\* The positions of the chain that starts at i: a user message, the assistant
\* message after it, and the rounds of tool results and assistant messages
\* that follow; {} when no assistant message follows.
Chain(pre, i) ==
    LET end[j \in DOMAIN pre] ==
            IF j + 2 \in DOMAIN pre /\ ToolResultOnly(pre[j + 1]) /\ ~IsUser(pre[j + 2])
            THEN end[j + 2] ELSE j
    IN  IF i + 1 \in DOMAIN pre /\ IsUser(pre[i]) /\ ~IsUser(pre[i + 1])
        THEN i..end[i + 1] ELSE {}

\* The client message whose text names the group: of the user messages that
\* are not tool results only, the last.  <<>> when there is none.
Needle(b, s) ==
    LET T == {i \in Group(b, s) : IsUser(b[i]) /\ ~ToolResultOnly(b[i]) /\ b[i].text}
    IN  IF T = {} THEN <<>> ELSE LET of == b[Max(T)].of IN of[Len(of)]

\* The pair that stands for a collapsed turn.
StubPair(ref) ==
    <<[role |-> "user", of |-> <<>>, text |-> TRUE, uses |-> {}, results |-> {},
       stubbed |-> {}, mark |-> TRUE, refs |-> {}],
      [role |-> "assistant", of |-> <<>>, text |-> TRUE, uses |-> {}, results |-> {},
       stubbed |-> {}, mark |-> TRUE, refs |-> {ref}]>>

\* b with the groups that begin in out removed, a stub pair in the place of
\* those of stubs (a function from starts to references), and the results of
\* removed calls stripped from the messages that stay.
Collapsed(b, out, stubs) ==
    LET gone == UNION {Group(b, s) : s \in out}
        calls == UNION {b[i].uses : i \in gone}
        strip(m) == IF m.results \intersect calls = {} THEN m
                    ELSE [m EXCEPT !.results = @ \ calls, !.text = TRUE,
                                   !.stubbed = @ \ calls]
        part(i) == CASE i \in DOMAIN stubs -> StubPair(stubs[i])
                     [] i \notin DOMAIN stubs /\ i \in gone -> <<>>
                     [] OTHER -> <<strip(b[i])>>
    IN  FlattenSeq([i \in DOMAIN b |-> part(i)])

---------------------------------------------------------------------------
\* stub_tool_outputs_by_position: the positions whose tool outputs may go.
StubbablePositions(b, window, intrude) ==
    LET G == GroupStarts(b)
        zone == IF intrude /\ Min({window, Cardinality(G)}) > 2 THEN 2
                ELSE IF window > 2 THEN window ELSE 2
    IN  UNION {Group(b, s) : s \in ButLast(G, zone)}

StubOutputs(b, S) ==
    [i \in DOMAIN b |->
        IF i \in S THEN [b[i] EXCEPT !.stubbed = b[i].results] ELSE b[i]]

---------------------------------------------------------------------------
\* merge_consecutive_conversational: neighbours with one role and no tool
\* blocks become one message.
MergeConversational(b) ==
    LET plain(m) == m.uses = {} /\ m.results = {}
        join(m, n) == [m EXCEPT !.of = @ \o n.of, !.text = @ \/ n.text,
                                !.mark = @ \/ n.mark, !.refs = @ \union n.refs]
        to[n \in 0..Len(b)] ==
            IF n = 0 THEN <<>>
            ELSE LET acc == to[n - 1]
                     top == acc[Len(acc)]
                 IN  IF /\ acc # <<>> /\ top.role = b[n].role
                        /\ plain(top) /\ plain(b[n])
                     THEN [acc EXCEPT ![Len(acc)] = join(top, b[n])]
                     ELSE Append(acc, b[n])
    IN  to[Len(b)]

---------------------------------------------------------------------------
\* trim_to_upstream_limit: the groups that stay are the last two and any of
\* the older ones (which depends on their sizes).

\* _cleanup_orphaned_tools: at most three passes that remove the messages with
\* half of a tool call.
Cleanup(b) ==
    LET uses(x) == UNION {x[i].uses : i \in DOMAIN x}
        results(x) == UNION {x[i].results : i \in DOMAIN x}
        whole(x, i) == x[i].uses \subseteq results(x) /\ x[i].results \subseteq uses(x)
        pass[n \in 0..3] ==
            IF n = 0 THEN b
            ELSE LET x == pass[n - 1] IN Keep(x, {i \in DOMAIN x : whole(x, i)})
    IN  pass[3]

Trimmed(b, older) ==
    LET G == GroupStarts(b)
    IN  Keep(b, UNION {Group(b, s) : s \in older \union (G \ ButLast(G, 2))})

---------------------------------------------------------------------------
\* _restore_chain: the snapshot loses the tool calls of a last assistant
\* message, and the tool results of a first message whose calls it lacks.
Restorable(chain) ==
    LET n == Len(chain)
        tail == IF IsUser(chain[n]) \/ chain[n].uses = {} THEN chain
                ELSE IF chain[n].text THEN [chain EXCEPT ![n].uses = {}]
                ELSE SubSeq(chain, 1, n - 1)
        orphans == IF tail = <<>> \/ ~IsUser(tail[1]) THEN {}
                   ELSE tail[1].results \ UNION {tail[i].uses : i \in DOMAIN tail}
    IN  CASE orphans = {} -> tail
          [] orphans # {} /\ (tail[1].text \/ orphans # tail[1].results)
                -> [tail EXCEPT ![1].results = @ \ orphans]
          [] OTHER -> Tail(tail)

\* The positions of the stub pairs that offer ref.
StubsOf(b, ref) ==
    {i \in DOMAIN b : b[i].mark /\ i + 1 \in DOMAIN b /\ ref \in b[i + 1].refs}

\* Mutant: the chain is inserted and the pair stays.
RestoreBefore(b, ref, chain) ==
    LET i == Min(StubsOf(b, ref))
    IN  SubSeq(b, 1, i - 1) \o chain \o SubSeq(b, i, Len(b))

\* _restore_chain_in_place: the first such pair makes way for the chain.
RestoreInPlace(b, ref, chain) ==
    LET i == Min(StubsOf(b, ref))
    IN  SubSeq(b, 1, i - 1) \o chain \o SubSeq(b, i + 2, Len(b))
=============================================================================
