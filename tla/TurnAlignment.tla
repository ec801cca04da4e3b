---------------------------- MODULE TurnAlignment ----------------------------
(****************************************************************************)
(* How core/ingest_reconciler.py places an incoming list of turns among the *)
(* turns a conversation already has: _find_alignment, _allocate_sort_keys   *)
(* and the branches of _ingest_prepared_turns_locked, as operators.         *)
(*                                                                          *)
(* Abstractions: a turn is its turn_hash, and an anchor hash is the         *)
(* sequence of turn hashes it digests; sort keys are integers, so a gap is  *)
(* divided by integer division (the code divides floats, and both stop      *)
(* halving at the least step).                                              *)
(****************************************************************************)
EXTENDS Integers, SequencesExt

CONSTANTS
  UserTurn,       \* hashes of user messages
  AssistantTurn,  \* hashes of assistant messages
  KeyGap,         \* distance of appended sort keys; 1000.0 in the code
  MinStep,        \* least distance of inserted sort keys; 0.001 in the code
  AnchorSizes,    \* window sizes of the anchor index; 5, 4 and 3 in the code
  ShortOverlap    \* below this length any overlap counts; 3 in the code

ASSUME AlignmentAssumption ==
  /\ KeyGap \in Nat \ {0} /\ MinStep \in Nat \ {0}
  /\ AnchorSizes \subseteq Nat \ {0}
  /\ ShortOverlap \in Nat

Turn == UserTurn \cup AssistantTurn

Window(s, at, n) == SubSeq(s, at, at + n - 1)
OccursIn(s, t) == \E at \in 1..(Len(t) - Len(s) + 1) : Window(t, at, Len(s)) = s
TurnsOf(rows) == [k \in DOMAIN rows |-> rows[k].turn]

----------------------------------------------------------------------------
(* Sort keys of n new rows before, after and between existing ones.        *)

KeysBefore(right, n) == [k \in 1..n |-> right - KeyGap * (n + 1 - k)]
KeysAfter(left, n) == [k \in 1..n |-> left + KeyGap * k]

\* Mutant: the gap is shared by the new rows only.
StepTouching(left, right, n) ==
  LET even == (right - left) \div n IN IF even > MinStep THEN even ELSE MinStep
Step(left, right, n) ==
  LET even == (right - left) \div (n + 1) IN IF even > MinStep THEN even ELSE MinStep
KeysBetween(left, right, n) == [k \in 1..n |-> left + Step(left, right, n) * k]

----------------------------------------------------------------------------
(* An alignment says that the n incoming turns from position "new" are the *)
(* n existing turns from position "old".                                   *)

NoAlignment == [old |-> 0, new |-> 0, n |-> 0]

\* How far two lists agree from the given positions on, in direction d.
Agreement(E, I, old, new, d) ==
  Max({n \in 0..Len(I) : \A k \in 0..(n - 1) :
         /\ old + d * k \in DOMAIN E /\ new + d * k \in DOMAIN I
         /\ E[old + d * k] = I[new + d * k]})

\* Mutant: short overlaps are tried from the shortest.
FirstShortest(A) ==
  LET shortest == {a \in A : \A b \in A : a.n <= b.n}
  IN CHOOSE a \in shortest : \A b \in shortest :
       a.new < b.new \/ (a.new = b.new /\ a.old <= b.old)

\* The first alignment of greatest length, in the order of the loops over the
\* incoming and then the existing positions.
FirstLongest(A) ==
  LET longest == {a \in A : \A b \in A : b.n <= a.n}
  IN CHOOSE a \in longest : \A b \in longest :
       a.new < b.new \/ (a.new = b.new /\ a.old <= b.old)

Overlaps(E, I) ==
  {[old |-> e, new |-> i, n |-> n] : e \in DOMAIN E, i \in DOMAIN I, n \in DOMAIN I}
ShortAlignments(E, I) ==
  {a \in Overlaps(E, I) : a.n <= Agreement(E, I, a.old, a.new, 1)}

\* build_anchor_index: the windows of a list and where they start.
AnchorIndex(s, size) ==
  {[turns |-> Window(s, at, size), at |-> at] : at \in 1..(Len(s) - size + 1)}

\* The windows that the index and the incoming turns share.  The index is
\* believed: the turns of its window are not compared again.
AnchorHits(index, I, size) ==
  {h \in [old : {x.at : x \in index}, new : 1..(Len(I) - size + 1)] :
     [turns |-> Window(I, h.new, size), at |-> h.old] \in index}

Extend(E, I, hit, size) ==
  LET left == Agreement(E, I, hit.old - 1, hit.new - 1, -1)
      right == Agreement(E, I, hit.old + size, hit.new + size, 1)
  IN [old |-> hit.old - left, new |-> hit.new - left, n |-> left + size + right]

\* Hits are visited by the first occurrence of their window, then in order.  A
\* hit that starts beyond the list ends the search with an IndexError.
BestHit(E, I, hits, size) ==
  LET first(h) == Min({i \in 1..h.new : Window(I, i, size) = Window(I, h.new, size)})
      beyond == {h \in hits : h.new > 1 /\ h.old > Len(E) + 1}
      length(h) == Extend(E, I, h, size).n
      best == IF beyond # {} THEN beyond
              ELSE {h \in hits : \A g \in hits : length(g) <= length(h)}
  IN CHOOSE h \in best : \A g \in best :
       \/ first(h) < first(g)
       \/ first(h) = first(g) /\ h.new < g.new
       \/ first(h) = first(g) /\ h.new = g.new /\ h.old <= g.old

\* index[size] is what the store or, if it has none, the list itself provides.
AnchorAlignment(E, I, index) ==
  LET found == {z \in AnchorSizes : AnchorHits(index[z], I, z) # {}}
      z == Max(found)
  IN IF found = {} THEN NoAlignment
     ELSE Extend(E, I, BestHit(E, I, AnchorHits(index[z], I, z), z), z)

FindAlignment(E, I, index, short) ==
  IF E = <<>> \/ I = <<>> THEN NoAlignment
  ELSE IF IsPrefix(E, I) THEN [old |-> 1, new |-> 1, n |-> Len(E)]
  ELSE IF IsSuffix(E, I) THEN [old |-> 1, new |-> Len(I) - Len(E) + 1, n |-> Len(E)]
  ELSE IF short /\ Min({Len(E), Len(I)}) < ShortOverlap /\ ShortAlignments(E, I) # {}
         THEN FirstLongest(ShortAlignments(E, I))
  ELSE AnchorAlignment(E, I, index)

----------------------------------------------------------------------------
(* The rows to write.                                                      *)

Keyed(turns, keys) == [k \in DOMAIN turns |-> [turn |-> turns[k], key |-> keys[k]]]

\* No alignment: at the end.
AppendAll(rows, I) ==
  LET last == IF rows = <<>> THEN 0 ELSE Max({rows[k].key : k \in DOMAIN rows})
  IN Keyed(I, KeysAfter(last, Len(I)))

\* What precedes the overlap goes right before it.
PrefixRows(rows, I, a) ==
  LET turns == SubSeq(I, 1, a.new - 1)
      right == rows[a.old].key
  IN Keyed(turns, IF a.old = 1 THEN KeysBefore(right, Len(turns))
                  ELSE KeysBetween(rows[a.old - 1].key, right, Len(turns)))

\* Mutant: the first turn after the overlap is skipped.
SuffixRowsLate(rows, I, a) ==
  LET turns == SubSeq(I, a.new + a.n + 1, Len(I))
      last == a.old + a.n - 1
      left == rows[last].key
  IN Keyed(turns, IF last = Len(rows) THEN KeysAfter(left, Len(turns))
                  ELSE KeysBetween(left, rows[last + 1].key, Len(turns)))

\* What follows it goes right after it.
SuffixRows(rows, I, a) ==
  LET turns == SubSeq(I, a.new + a.n, Len(I))
      last == a.old + a.n - 1
      left == rows[last].key
  IN Keyed(turns, IF last = Len(rows) THEN KeysAfter(left, Len(turns))
                  ELSE KeysBetween(left, rows[last + 1].key, Len(turns)))

\* An appended fragment without both roles could never be tagged.
IsFragment(I) ==
  \/ \A k \in DOMAIN I : I[k] \in UserTurn
  \/ \A k \in DOMAIN I : I[k] \in AssistantTurn

Rejected(rows, I, a) ==
  I = <<>> \/ (a = NoAlignment /\ rows # <<>> /\ IsFragment(I))

\* The overlap reaches beyond the list: IndexError.
OutOfRange(rows, a) == a.old + a.n - 1 > Len(rows)

NewRows(rows, I, a) ==
  IF a = NoAlignment THEN AppendAll(rows, I)
  ELSE PrefixRows(rows, I, a) \o SuffixRows(rows, I, a)
=============================================================================
