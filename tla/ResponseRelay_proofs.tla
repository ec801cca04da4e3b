-------------------------- MODULE ResponseRelay_proofs --------------------------
(****************************************************************************)
(* Theorems about the way of an answer to the client, for every set of      *)
(* requests and every bound: its types, the form of the client's stream,    *)
(* who answers the calls, and what the history keeps.                       *)
(*                                                                          *)
(* The model selects from sequences (Only).  What that does to a sequence   *)
(* of any length is an induction over the sequence.  The library's          *)
(* induction theorems take an operator as a parameter; here a set stands    *)
(* for the predicate, and the least element outside it for the              *)
(* counterexample.                                                          *)
(****************************************************************************)
EXTENDS ResponseRelay, SequenceTheorems, WellFoundedInduction, TLAPS

-----------------------------------------------------------------------------
(* Induction over naturals, by the least element of a set.                   *)

\* A set of naturals that is not empty has a least element.
LEMMA LeastExists ==
  ASSUME NEW S \in SUBSET Nat, S # {}
  PROVE  \E x \in S : \A y \in S : x <= y
<1> DEFINE R == {ss \in Nat \X Nat : ss[1] < ss[2]}
<1>1. IsWellFoundedOn(R, Nat)
  BY NatLessThanWellFounded, Zenon DEF OpToRel
<1>2. \A m, n \in Nat : m < n => <<m, n>> \in R
  OBVIOUS
<1> HIDE DEF R
<1>3. PICK x \in S : \A y \in S : ~ (<<y, x>> \in R)
  BY <1>1, WFMin
<1>4. ASSUME NEW y \in S PROVE x <= y
  <2>1. CASE y < x
    <3>1. <<y, x>> \in R
      BY <1>2, <2>1
    <3> QED  BY <1>3, <3>1
  <2>2. CASE ~ (y < x)
    BY <2>2
  <2> QED  BY <2>1, <2>2
<1> QED  BY <1>4

\* Induction over a set of naturals that stands for a predicate.
LEMMA InductionOver ==
  ASSUME NEW P \in SUBSET Nat, 0 \in P, \A n \in Nat : n \in P => n + 1 \in P
  PROVE  P = Nat
<1> SUFFICES ASSUME P # Nat PROVE FALSE
  OBVIOUS
<1>1. PICK x \in Nat \ P : \A y \in Nat \ P : x <= y
  BY LeastExists
<1>2. x # 0 /\ x - 1 \in Nat /\ ~ (x <= x - 1)
  BY <1>1
<1>3. x - 1 \in P
  BY <1>1, <1>2
<1> QED  BY <1>1, <1>2, <1>3

\* Induction over a set of sequences that stands for a predicate.
LEMMA SeqInductionOver ==
  ASSUME NEW T, NEW P \in SUBSET Seq(T), <<>> \in P,
         \A s \in Seq(T) : s \in P => \A x \in T : Append(s, x) \in P
  PROVE  P = Seq(T)
<1> DEFINE N == {n \in Nat : \A s \in Seq(T) : Len(s) = n => s \in P}
<1>1. 0 \in N
  BY EmptySeq
<1>2. ASSUME NEW n \in Nat, n \in N PROVE n + 1 \in N
  <2>1. ASSUME NEW s \in Seq(T), Len(s) = n + 1 PROVE s \in P
    <3>1. s # <<>>
      BY <2>1
    <3>2. PICK f \in Seq(T), x \in T : s = Append(f, x)
      BY <3>1, SequenceEmptyOrAppend
    <3>3. Len(f) = n
      BY <2>1, <3>2
    <3> QED  BY <1>2, <3>2, <3>3
  <2> QED  BY <2>1
<1> HIDE DEF N
<1>3. N \in SUBSET Nat
  BY DEF N
<1>4. N = Nat
  BY <1>1, <1>2, <1>3, InductionOver
<1>5. \A s \in Seq(T) : Len(s) \in N
  BY <1>4
<1> QED  BY <1>5 DEF N

-----------------------------------------------------------------------------
(* Only.                                                                     *)

\* What kept is, for the first n elements of s.
Keeps(g, s, S, n) ==
  g = [k \in 0..n |->
         IF k = 0 THEN <<>> ELSE IF s[k] \in S THEN Append(g[k - 1], s[k]) ELSE g[k - 1]]

\* Such a function exists for every n.
LEMMA KeepsExists ==
  ASSUME NEW s, NEW S, NEW n \in Nat
  PROVE  \E g : Keeps(g, s, S, n)
<1> DEFINE P == {k \in Nat : \E g : Keeps(g, s, S, k)}
<1>1. 0 \in P
  <2> DEFINE g == [k \in 0..0 |-> <<>>]
  <2>1. Keeps(g, s, S, 0)
    BY DEF Keeps
  <2> QED  BY <2>1
<1>2. ASSUME NEW k \in Nat, k \in P PROVE k + 1 \in P
  <2>1. PICK g : Keeps(g, s, S, k)
    BY <1>2
  <2> DEFINE x == IF s[k + 1] \in S THEN Append(g[k], s[k + 1]) ELSE g[k]
             h == [j \in 0..(k + 1) |-> IF j = k + 1 THEN x ELSE g[j]]
  <2>2. \A j \in 0..k : g[j] = IF j = 0 THEN <<>> ELSE
                               IF s[j] \in S THEN Append(g[j - 1], s[j]) ELSE g[j - 1]
    BY <2>1 DEF Keeps
  <2>3. ASSUME NEW j \in 0..(k + 1)
        PROVE  h[j] = IF j = 0 THEN <<>> ELSE
                               IF s[j] \in S THEN Append(h[j - 1], s[j]) ELSE h[j - 1]
    <3>1. CASE j \in 0..k
      <4>1. h[j] = g[j] /\ (j # 0 => h[j - 1] = g[j - 1])
        BY <3>1
      <4> HIDE DEF h
      <4> QED  BY <2>2, <3>1, <4>1
    <3>2. CASE j = k + 1
      <4>1. h[j] = x /\ h[j - 1] = g[k] /\ j # 0
        BY <3>2
      <4> HIDE DEF h
      <4> QED  BY <3>2, <4>1
    <3> QED  BY <3>1, <3>2
  <2>4. h = [j \in 0..(k + 1) |-> h[j]]
    OBVIOUS
  <2> HIDE DEF h
  <2>5. Keeps(h, s, S, k + 1)
    BY <2>3, <2>4 DEF Keeps
  <2> QED  BY <2>5
<1> HIDE DEF P
<1>3. P \in SUBSET Nat
  BY DEF P
<1>4. P = Nat
  BY <1>1, <1>2, <1>3, InductionOver
<1> QED  BY <1>4 DEF P

\* Two such functions agree where their sequences do.
LEMMA KeepsUnique ==
  ASSUME NEW s, NEW t, NEW S, NEW n \in Nat, NEW m \in Nat, n <= m,
         \A k \in 1..n : s[k] = t[k],
         NEW g, Keeps(g, s, S, n), NEW h, Keeps(h, t, S, m)
  PROVE  g[n] = h[n]
<1> DEFINE P == {k \in Nat : k <= n => g[k] = h[k]}
<1>1. \A j \in 0..n : g[j] = IF j = 0 THEN <<>> ELSE
                             IF s[j] \in S THEN Append(g[j - 1], s[j]) ELSE g[j - 1]
  BY DEF Keeps
<1>2. \A j \in 0..m : h[j] = IF j = 0 THEN <<>> ELSE
                             IF t[j] \in S THEN Append(h[j - 1], t[j]) ELSE h[j - 1]
  BY DEF Keeps
<1>3. 0 \in P
  BY <1>1, <1>2
<1>4. ASSUME NEW k \in Nat, k \in P PROVE k + 1 \in P
  BY <1>1, <1>2, <1>4
<1> HIDE DEF P
<1>5. P \in SUBSET Nat
  BY DEF P
<1>6. P = Nat
  BY <1>3, <1>4, <1>5, InductionOver
<1> QED  BY <1>6 DEF P

\* Only is what kept ends with.
LEMMA OnlyKeeps ==
  ASSUME NEW s, NEW S, Len(s) \in Nat
  PROVE  \E g : Keeps(g, s, S, Len(s)) /\ Only(s, S) = g[Len(s)]
<1> DEFINE D(g) == g = [k \in 0..Len(s) |-> IF k = 0 THEN <<>>
                          ELSE IF s[k] \in S THEN Append(g[k - 1], s[k]) ELSE g[k - 1]]
           f == CHOOSE g : D(g)
<1>0. \A g : Keeps(g, s, S, Len(s)) <=> D(g)
  BY DEF Keeps
<1> HIDE DEF D
<1>1. \E g : D(g)
  BY <1>0, KeepsExists
<1>2. D(f)
  BY <1>1, Zenon
<1>3. Only(s, S) = f[Len(s)]
  BY Zenon DEF Only, D
<1> QED  BY <1>0, <1>2, <1>3

\* Of no elements, none is selected.
LEMMA OnlyEmpty ==
  ASSUME NEW S
  PROVE  Only(<<>>, S) = <<>>
<1>1. Len(<<>>) = 0
  OBVIOUS
<1> QED  BY <1>1, OnlyKeeps DEF Keeps

\* What Only does with one more element.
LEMMA OnlyAppend ==
  ASSUME NEW T, NEW s \in Seq(T), NEW x \in T, NEW S
  PROVE  Only(Append(s, x), S) = IF x \in S THEN Append(Only(s, S), x) ELSE Only(s, S)
<1> DEFINE t == Append(s, x)
           n == Len(s)
<1>1. n \in Nat /\ Len(t) = n + 1 /\ t[n + 1] = x /\ \A k \in 1..n : t[k] = s[k]
  OBVIOUS
<1>2. PICK g : Keeps(g, s, S, n) /\ Only(s, S) = g[n]
  BY <1>1, OnlyKeeps
<1> HIDE DEF t, n
<1>3. PICK h : Keeps(h, t, S, n + 1) /\ Only(t, S) = h[n + 1]
  BY <1>1, OnlyKeeps
<1>4. g[n] = h[n]
  BY <1>1, <1>2, <1>3, KeepsUnique
<1>5. h[n + 1] = IF t[n + 1] \in S THEN Append(h[n], t[n + 1]) ELSE h[n]
  <2>1. n + 1 \in 0..(n + 1) /\ n + 1 # 0 /\ (n + 1) - 1 = n
    BY <1>1
  <2> QED  BY <1>3, <2>1 DEF Keeps
<1> QED  BY <1>1, <1>2, <1>3, <1>4, <1>5 DEF t

\* Only selects from s, and elements of S.
LEMMA OnlyTyped ==
  ASSUME NEW T, NEW S, NEW s \in Seq(T)
  PROVE  Only(s, S) \in Seq(T) /\ Only(s, S) \in Seq(S)
<1> DEFINE P == {u \in Seq(T) : Only(u, S) \in Seq(T) /\ Only(u, S) \in Seq(S)}
<1>1. <<>> \in P
  BY OnlyEmpty, EmptySeq
<1>2. ASSUME NEW u \in Seq(T), u \in P, NEW x \in T PROVE Append(u, x) \in P
  <2>1. Only(Append(u, x), S) = IF x \in S THEN Append(Only(u, S), x) ELSE Only(u, S)
    BY OnlyAppend
  <2>2. Only(u, S) \in Seq(T) /\ Only(u, S) \in Seq(S)
    BY <1>2
  <2>3. x \in S => Append(Only(u, S), x) \in Seq(T) /\ Append(Only(u, S), x) \in Seq(S)
    BY <2>2
  <2>4. Only(Append(u, x), S) \in Seq(T) /\ Only(Append(u, x), S) \in Seq(S)
    BY ONLY <2>1, <2>2, <2>3
  <2>5. Append(u, x) \in Seq(T)
    OBVIOUS
  <2> QED  BY <2>4, <2>5
<1> HIDE DEF P
<1>3. P \in SUBSET Seq(T)
  BY DEF P
<1>4. P = Seq(T)
  BY <1>1, <1>2, <1>3, SeqInductionOver
<1> QED  BY <1>4 DEF P

\* Only selects from each part of a sequence by itself.
LEMMA OnlyConcat ==
  ASSUME NEW T, NEW s \in Seq(T), NEW t \in Seq(T), NEW S
  PROVE  Only(s \o t, S) = Only(s, S) \o Only(t, S)
<1> DEFINE P == {u \in Seq(T) : Only(s \o u, S) = Only(s, S) \o Only(u, S)}
<1>1. <<>> \in P
  <2>1. Only(s, S) \in Seq(T)
    BY OnlyTyped
  <2> QED  BY <2>1, OnlyEmpty
<1>2. ASSUME NEW u \in Seq(T), u \in P, NEW x \in T PROVE Append(u, x) \in P
  <2>1. s \o Append(u, x) = Append(s \o u, x) /\ s \o u \in Seq(T) /\ Append(u, x) \in Seq(T)
    OBVIOUS
  <2>2. Only(s, S) \in Seq(T) /\ Only(u, S) \in Seq(T)
    BY OnlyTyped
  <2>3. Only(s, S) \o Append(Only(u, S), x) = Append(Only(s, S) \o Only(u, S), x)
    BY <2>2
  <2>4. Only(Append(u, x), S) = IF x \in S THEN Append(Only(u, S), x) ELSE Only(u, S)
    BY OnlyAppend
  <2>5. Only(Append(s \o u, x), S)
          = IF x \in S THEN Append(Only(s \o u, S), x) ELSE Only(s \o u, S)
    BY <2>1, OnlyAppend
  <2> QED  BY <1>2, <2>1, <2>3, <2>4, <2>5
<1> HIDE DEF P
<1>3. P \in SUBSET Seq(T)
  BY DEF P
<1>4. P = Seq(T)
  BY <1>1, <1>2, <1>3, SeqInductionOver
<1> QED  BY <1>4 DEF P

\* An element of S that s has is selected.
LEMMA OnlyFinds ==
  ASSUME NEW T, NEW S, NEW s \in Seq(T), NEW i \in 1..Len(s), s[i] \in S
  PROVE  \E j \in 1..Len(Only(s, S)) : Only(s, S)[j] = s[i]
<1> DEFINE Q(u) == \A k \in 1..Len(u) : u[k] \in S =>
                      \E j \in 1..Len(Only(u, S)) : Only(u, S)[j] = u[k]
           P == {u \in Seq(T) : Q(u)}
<1>1. <<>> \in P
  OBVIOUS
<1>2. ASSUME NEW u \in Seq(T), u \in P, NEW x \in T PROVE Append(u, x) \in P
  <2> DEFINE v == Append(u, x)
  <2>1. v \in Seq(T) /\ Len(v) = Len(u) + 1 /\ v[Len(u) + 1] = x
        /\ \A k \in 1..Len(u) : v[k] = u[k]
    OBVIOUS
  <2>2. Only(u, S) \in Seq(T) /\ Only(v, S) = IF x \in S THEN Append(Only(u, S), x) ELSE Only(u, S)
    BY OnlyTyped, OnlyAppend
  <2>3. ASSUME NEW k \in 1..Len(v), v[k] \in S
        PROVE  \E j \in 1..Len(Only(v, S)) : Only(v, S)[j] = v[k]
    <3> HIDE DEF v
    <3>1. CASE k = Len(u) + 1
      <4>1. Only(v, S) = Append(Only(u, S), x) /\ v[k] = x
        BY <2>1, <2>2, <2>3, <3>1
      <4>2. Len(Only(u, S)) + 1 \in 1..Len(Only(v, S)) /\ Only(v, S)[Len(Only(u, S)) + 1] = x
        BY <2>2, <4>1
      <4> QED  BY <4>1, <4>2
    <3>2. CASE k \in 1..Len(u)
      <4>1. PICK j \in 1..Len(Only(u, S)) : Only(u, S)[j] = v[k]
        BY <1>2, <2>1, <2>3, <3>2
      <4>2. j \in 1..Len(Only(v, S)) /\ Only(v, S)[j] = v[k]
        BY <2>2, <4>1
      <4> QED  BY <4>2
    <3> QED  BY <2>1, <3>1, <3>2
  <2> QED  BY <2>1, <2>3
<1> HIDE DEF P
<1>3. P \in SUBSET Seq(T)
  BY DEF P
<1>4. P = Seq(T)
  BY <1>1, <1>2, <1>3, SeqInductionOver
<1> QED  BY <1>4 DEF P

\* What is selected comes from s.
LEMMA OnlyFrom ==
  ASSUME NEW T, NEW S, NEW s \in Seq(T), NEW j \in 1..Len(Only(s, S))
  PROVE  \E i \in 1..Len(s) : Only(s, S)[j] = s[i]
<1> DEFINE Q(u) == \A k \in 1..Len(Only(u, S)) : \E i \in 1..Len(u) : Only(u, S)[k] = u[i]
           P == {u \in Seq(T) : Q(u)}
<1>1. <<>> \in P
  BY OnlyEmpty
<1>2. ASSUME NEW u \in Seq(T), u \in P, NEW x \in T PROVE Append(u, x) \in P
  <2> DEFINE v == Append(u, x)
  <2>1. v \in Seq(T) /\ Len(v) = Len(u) + 1 /\ v[Len(u) + 1] = x /\ Len(u) \in Nat
        /\ \A k \in 1..Len(u) : v[k] = u[k]
    OBVIOUS
  <2>2. Only(u, S) \in Seq(T) /\ Only(v, S) = IF x \in S THEN Append(Only(u, S), x) ELSE Only(u, S)
    BY OnlyTyped, OnlyAppend
  <2>3. ASSUME NEW k \in 1..Len(Only(v, S))
        PROVE  \E i \in 1..Len(v) : Only(v, S)[k] = v[i]
    <3> HIDE DEF v
    <3>1. CASE k \in 1..Len(Only(u, S))
      <4>1. PICK i \in 1..Len(u) : Only(u, S)[k] = u[i]
        BY <1>2, <3>1
      <4>2. Only(v, S)[k] = Only(u, S)[k]
        BY <2>2, <3>1
      <4>3. i \in 1..Len(v) /\ v[i] = u[i]
        BY <2>1
      <4> QED  BY <4>1, <4>2, <4>3
    <3>2. CASE k \notin 1..Len(Only(u, S))
      <4>1. k = Len(Only(u, S)) + 1 /\ Only(v, S) = Append(Only(u, S), x)
        BY <2>2, <2>3, <3>2
      <4>2. Only(v, S)[k] = x
        BY <2>2, <4>1
      <4>3. Len(u) + 1 \in 1..Len(v)
        BY <2>1
      <4> QED  BY <2>1, <4>2, <4>3
    <3> QED  BY <3>1, <3>2
  <2> QED  BY <2>1, <2>3
<1> HIDE DEF P
<1>3. P \in SUBSET Seq(T)
  BY DEF P
<1>4. P = Seq(T)
  BY <1>1, <1>2, <1>3, SeqInductionOver
<1> QED  BY <1>4 DEF P

\* Of a sequence, two sets that agree on its elements select the same.
LEMMA OnlySame ==
  ASSUME NEW T, NEW s \in Seq(T), NEW S, NEW R, \A i \in 1..Len(s) : s[i] \in S <=> s[i] \in R
  PROVE  Only(s, S) = Only(s, R)
<1> DEFINE Q(u) == (\A i \in 1..Len(u) : u[i] \in S <=> u[i] \in R) => Only(u, S) = Only(u, R)
           P == {u \in Seq(T) : Q(u)}
<1>1. <<>> \in P
  BY OnlyEmpty
<1>2. ASSUME NEW u \in Seq(T), u \in P, NEW x \in T PROVE Append(u, x) \in P
  <2> DEFINE v == Append(u, x)
  <2>1. v \in Seq(T) /\ Len(v) = Len(u) + 1 /\ v[Len(u) + 1] = x
        /\ \A k \in 1..Len(u) : v[k] = u[k]
    OBVIOUS
  <2>2. Only(v, S) = IF x \in S THEN Append(Only(u, S), x) ELSE Only(u, S)
    BY OnlyAppend
  <2>3. Only(v, R) = IF x \in R THEN Append(Only(u, R), x) ELSE Only(u, R)
    BY OnlyAppend
  <2>4. ASSUME \A i \in 1..Len(v) : v[i] \in S <=> v[i] \in R PROVE Only(v, S) = Only(v, R)
    <3> HIDE DEF v
    <3>1. x \in S <=> x \in R
      BY <2>1, <2>4
    <3>2. Only(u, S) = Only(u, R)
      BY <1>2, <2>1, <2>4
    <3> QED  BY <2>2, <2>3, <3>1, <3>2
  <2> QED  BY <2>1, <2>4
<1> HIDE DEF P
<1>3. P \in SUBSET Seq(T)
  BY DEF P
<1>4. P = Seq(T)
  BY <1>1, <1>2, <1>3, SeqInductionOver
<1> QED  BY <1>4 DEF P

\* Disjoint sets select no more elements than there are.
LEMMA OnlyLengths ==
  ASSUME NEW T, NEW s \in Seq(T), NEW S, NEW R, S \cap R = {}
  PROVE  Len(Only(s, S)) + Len(Only(s, R)) <= Len(s)
<1> DEFINE P == {u \in Seq(T) : Len(Only(u, S)) + Len(Only(u, R)) <= Len(u)}
<1>1. <<>> \in P
  BY OnlyEmpty
<1>2. ASSUME NEW u \in Seq(T), u \in P, NEW x \in T PROVE Append(u, x) \in P
  <2>1. Only(u, S) \in Seq(T) /\ Only(u, R) \in Seq(T)
    BY OnlyTyped
  <2>2. /\ Only(Append(u, x), S) = IF x \in S THEN Append(Only(u, S), x) ELSE Only(u, S)
        /\ Only(Append(u, x), R) = IF x \in R THEN Append(Only(u, R), x) ELSE Only(u, R)
    BY OnlyAppend
  <2>3. ~ (x \in S /\ x \in R)
    OBVIOUS
  <2> QED  BY <1>2, <2>1, <2>2, <2>3
<1> HIDE DEF P
<1>3. P \in SUBSET Seq(T)
  BY DEF P
<1>4. P = Seq(T)
  BY <1>1, <1>2, <1>3, SeqInductionOver
<1> QED  BY <1>4 DEF P

-----------------------------------------------------------------------------
(* Type correctness.                                                         *)

PcSet == {"idle", "stream", "closed", "tools", "asking", "closing", "post", "record",
          "mark", "done", "gone", "broken"}

\* What a client receives.
BlockEvent == [ev : {"block"}, block : Block, index : Nat]
Event == BlockEvent \cup [ev : {"delta"}, stop : StopReason] \cup {MessageStop, Marker}
Body == Seq([role : {"user", "assistant"}, blocks : Seq(Block)])
Entry == [role : {"user", "assistant"}, by : Request, texts : Seq(Block)]

\* What a handler has while it runs.
RelayState ==
  [pc : PcSet, mode : {None, "paging", "raw", "json"}, marked : BOOLEAN,
   sent : Seq(Block), stop : StopReason \cup {None}, wire : Seq(Event),
   forwarded : Nat, suppressed : Seq(BlockEvent), vcTools : Seq(Block),
   blocks : Seq(Block), need : BOOLEAN, body : Body,
   last : [blocks : Seq(Block), stop : StopReason], loop : 0..MaxLoops,
   texts : Seq(Block)]

Streams(s) == s.pc \in {"stream", "closed"}
Continues(s) == s.pc \in {"tools", "asking", "closing"}

\* The counters stay within their bounds: a message has at most MaxBlocks
\* blocks, and each round shows no more than those.
Room(n) == MaxBlocks + n * MaxBlocks

Bounded(s) ==
  /\ Len(s.sent) <= MaxBlocks
  /\ s.forwarded <= Room(s.loop)
  /\ Streams(s) => s.loop = 0 /\ s.forwarded <= Len(s.sent)
  /\ s.pc \in {"tools", "asking"} => s.loop < MaxLoops
  /\ Streams(s) \/ Continues(s) => s.mode # None
  /\ s.pc = "idle" => s = Idle
  /\ s.need => s.stop # None
  /\ s.mode = "json" /\ Streams(s) => s.pc = "stream" /\ s.sent = <<>> /\ s.stop = None /\ s.wire = <<>>

Typed(s) == s \in RelayState /\ Bounded(s)

-----------------------------------------------------------------------------
(* What each handler keeps.                                                  *)

BlocksOnly(w) == \A i \in 1..Len(w) : w[i].ev = "block"
Ordered(w) ==
  \A i, j \in 1..Len(w) :
    i < j => /\ w[i].ev = "delta" => w[j].ev \in {"stop", "marker"}
             /\ w[i].ev = "stop" => w[j].ev = "marker"
Strict(w) ==
  \A i, j \in 1..Len(w) :
    i < j /\ w[i].ev = "block" /\ w[j].ev = "block" => w[i].index < w[j].index
Rising(w, mode) ==
  \A i, j \in 1..Len(w) :
    i < j /\ w[i].ev = "block" /\ w[j].ev = "block" =>
      \/ w[i].index < w[j].index
      \/ Released(mode, w[j]) /\ w[i].index # w[j].index
      \/ Added(w[j]) /\ PastHeldCall(w, i)
Counts(w) == \A j \in 1..Len(w) : w[j].ev = "block" /\ Added(w[j]) => w[j].index = j - 1
Unadded(w) == \A i \in 1..Len(w) : w[i].ev = "block" => w[i].block.loop = 0
Withheld(w) == \A i \in 1..Len(w) : w[i].block.kind = "vc"
Later(bs) == \A i \in 1..Len(bs) : bs[i].loop > 0
Below(w, n) == \A i \in 1..Len(w) : w[i].ev = "block" => w[i].index < n
Disjoint(v, w) ==
  \A i \in 1..Len(v), j \in 1..Len(w) :
    v[i].ev = "block" /\ w[j].ev = "block" => v[i].index # w[j].index
ShowsIn(w, kind) == \E i \in 1..Len(w) : w[i].ev = "block" /\ w[i].block.kind = kind
TellsIn(w, stop) == \E i \in 1..Len(w) : w[i].ev = "delta" /\ w[i].stop = stop
StopsIn(w) == \E i \in 1..Len(w) : w[i].ev = "stop"

\* No message_delta has been sent.
Silent(s) ==
  \/ s.pc = "idle" \/ (s.pc = "stream" /\ s.stop = None)
  \/ (Streams(s) /\ s.need) \/ Continues(s)

WireOrder(s) ==
  /\ Ordered(s.wire)
  /\ Silent(s) => BlocksOnly(s.wire)
  /\ s.pc = "stream" => \A i \in 1..Len(s.wire) : s.wire[i].ev \in {"block", "delta"}
  /\ s.pc = "post" /\ s.mode = "paging" /\ s.loop > 0 => StopsIn(s.wire)

Held(s) ==
  /\ Strict(s.wire) /\ Below(s.wire, Len(s.sent)) /\ Unadded(s.wire)
  /\ Strict(s.suppressed) /\ Below(s.suppressed, Len(s.sent)) /\ Unadded(s.suppressed)
  /\ Withheld(s.suppressed) /\ Disjoint(s.wire, s.suppressed)

WireIndexes(s) ==
  /\ Rising(s.wire, s.mode) /\ Counts(s.wire)
  /\ Silent(s) => s.forwarded = Len(s.wire)
  /\ s.pc = "stream" /\ s.stop = None => Held(s)

BodyPaired(body) ==
  \A i \in 1..Len(body) : body[i].role = "assistant" =>
    /\ i < Len(body) /\ body[i + 1].role = "user"
    /\ body[i + 1].blocks = Calls(body[i].blocks)

Streamed(s) ==
  s.pc = "stream" /\ s.mode = "paging" /\ s.stop = None =>
    /\ s.vcTools = Calls(s.blocks)
    /\ ~ ShowsIn(s.wire, "vc")
    /\ Has("own", s.sent) => ShowsIn(s.wire, "own")
    /\ Has("vc", s.sent) => s.vcTools # <<>>
    /\ ~ TellsIn(s.wire, "tool_use")

CallsKept(s) ==
  /\ BodyPaired(s.body)
  /\ Streamed(s)
  /\ Streams(s) => s.body = <<>> /\ s.last = NoReply
  /\ Streams(s) /\ s.need => s.vcTools = Calls(s.blocks)
  /\ s.pc = "tools" => s.vcTools = Calls(IF s.loop = 0 THEN s.blocks ELSE s.last.blocks)
  /\ s.mode = "paging" /\ TellsIn(s.wire, "tool_use") => ShowsIn(s.wire, "own")
  /\ s.mode = "paging" /\ ShowsIn(s.wire, "vc") =>
       ShowsIn(s.wire, "own") /\ s.body = <<>> /\ ~ Continues(s)
       /\ (Streams(s) => ~ s.need)
  /\ Continues(s) /\ s.last.stop = "tool_use" /\ Has("own", s.last.blocks)
       => ShowsIn(s.wire, "own")

TextsShown(s) ==
  /\ s.texts = ShownTexts(s)
  /\ s.pc = "stream" => ~ ShowsIn(s.suppressed, "text")

AnswerKept(r) ==
  LET s == relay[r]
      mine == AnswersTo(r)
  IN  /\ s.pc \in {"idle", "stream", "closed", "tools", "asking", "closing", "post", "record"}
           => mine = <<>>
      /\ Len(mine) <= 1
      /\ \A i \in 1..Len(mine) : mine[i].texts = s.texts
      /\ s.pc \in {"mark", "done"} /\ s.texts # <<>> /\ deletion = "none" => mine # <<>>

TypeInv ==
  /\ history \in Seq(Entry) /\ deletion \in {"none", "marked", "cleared"}
  /\ relay \in [Request -> RelayState]
  /\ \A r \in Request : Bounded(relay[r])
OrderInv == \A r \in Request : WireOrder(relay[r])
IndexInv == \A r \in Request : WireIndexes(relay[r])
CallInv == \A r \in Request : CallsKept(relay[r])
TextInv == \A r \in Request : TextsShown(relay[r])
HistoryInv == \A r \in Request : AnswerKept(r)
-----------------------------------------------------------------------------
(* The operators.                                                            *)

\* A block that StreamBlock or Reply builds is one.
LEMMA BlockTyped ==
  ASSUME NEW k \in Kind, NEW l \in 0..MaxLoops, NEW n \in 1..MaxBlocks
  PROVE  [kind |-> k, loop |-> l, at |-> n] \in Block
  BY DEF Block

\* Selected blocks are blocks, and of the kind that was asked for.
LEMMA OfTyped ==
  ASSUME NEW bs \in Seq(Block), NEW kind
  PROVE  Of(kind, bs) \in Seq(Block) /\ Calls(bs) \in Seq(Block)
         /\ \A i \in 1..Len(Of(kind, bs)) : Of(kind, bs)[i].kind = kind
<1> DEFINE S == {b \in Block : b.kind = kind}
<1>1. Only(bs, S) \in Seq(Block) /\ Only(bs, S) \in Seq(S)
  BY OnlyTyped
<1>2. Calls(bs) \in Seq(Block)
  BY OnlyTyped DEF Calls
<1>3. Of(kind, bs) = Only(bs, S)
  BY DEF Of
<1>4. ASSUME NEW i \in 1..Len(Only(bs, S)) PROVE Only(bs, S)[i].kind = kind
  <2>1. Only(bs, S)[i] \in S
    BY <1>1, ElementOfSeq
  <2> QED  BY <2>1
<1> QED  BY <1>1, <1>2, <1>3, <1>4

\* A whole answer of the model has no more blocks than a message may have.
LEMMA ReplyTyped ==
  ASSUME NEW l \in 0..MaxLoops, NEW m \in Reply(l)
  PROVE  /\ m \in [blocks : Seq(Block), stop : StopReason] /\ Len(m.blocks) <= MaxBlocks
         /\ \A i \in 1..Len(m.blocks) : m.blocks[i].loop = l
<1> DEFINE BlocksOf(ks) == [i \in DOMAIN ks |-> [kind |-> ks[i], loop |-> l, at |-> i]]
<1>1. PICK ks \in BoundedSeq(Kind, MaxBlocks) : m.blocks = BlocksOf(ks)
  BY Zenon DEF Reply
<1>2. PICK n \in 0..MaxBlocks : ks \in [1..n -> Kind]
  BY <1>1 DEF BoundedSeq, SeqOf
<1>3. m.blocks \in [1..n -> Block]
  <2>1. DOMAIN ks = 1..n /\ \A i \in 1..n : ks[i] \in Kind /\ i \in 1..MaxBlocks
    BY <1>2, RelayAssumption
  <2>2. \A i \in 1..n : [kind |-> ks[i], loop |-> l, at |-> i] \in Block
    BY <2>1, BlockTyped
  <2> QED  BY <1>1, <2>1, <2>2
<1>4. n \in Nat
  BY RelayAssumption
<1>5. m.blocks \in Seq(Block) /\ Len(m.blocks) = n
  BY <1>3, <1>4
<1>6. m \in [blocks : {m.blocks}, stop : StopReason]
  BY Zenon DEF Reply
<1>7. \A i \in 1..n : m.blocks[i].loop = l
  <2>1. DOMAIN ks = 1..n
    BY <1>2
  <2> QED  BY <1>1, <2>1
<1> QED  BY <1>2, <1>5, <1>6, <1>7, RelayAssumption

\* No more is shown of a continuation than it says.
LEMMA ShownTyped ==
  ASSUME NEW m \in [blocks : Seq(Block), stop : StopReason]
  PROVE  Shown(m) \in Seq(Block) /\ Len(Shown(m)) <= Len(m.blocks)
<1>1. m.blocks \in Seq(Block)
  OBVIOUS
<1>2. Of("text", m.blocks) \in Seq(Block) /\ Of("own", m.blocks) \in Seq(Block)
  BY <1>1, OfTyped
<1>3. {b \in Block : b.kind = "text"} \cap {b \in Block : b.kind = "own"} = {}
  OBVIOUS
<1>4. Len(Of("text", m.blocks)) + Len(Of("own", m.blocks)) <= Len(m.blocks)
  BY <1>1, <1>3, OnlyLengths DEF Of
<1> QED  BY <1>2, <1>4 DEF Shown

\* What is shown of a continuation is of its round.
LEMMA ShownLater ==
  ASSUME NEW m \in [blocks : Seq(Block), stop : StopReason], Later(m.blocks)
  PROVE  Later(Shown(m))
<1> DEFINE T == {b \in Block : b.loop > 0}
           bs == m.blocks
<1>1. bs \in Seq(Block) /\ Len(bs) \in Nat
  OBVIOUS
<1>2. \A i \in 1..Len(bs) : bs[i] \in T
  BY <1>1, ElementOfSeq DEF Later
<1>3. bs \in Seq(T)
  BY <1>1, <1>2
<1> HIDE DEF T
<1>4. Of("text", bs) \in Seq(T) /\ Of("own", bs) \in Seq(T)
  BY <1>3, OnlyTyped DEF Of
<1>5. <<>> \in Seq(T)
  BY EmptySeq
<1>6. Shown(m) \in Seq(T)
  BY <1>4, <1>5 DEF Shown
<1> QED  BY <1>6, ElementOfSeq DEF Later, T

\* What _emit_text_as_sse and _emit_tool_use_as_sse send.
LEMMA NumberedTyped ==
  ASSUME NEW bs \in Seq(Block), NEW n \in Nat
  PROVE  /\ Numbered(bs, n) \in Seq(BlockEvent) /\ Numbered(bs, n) \in Seq(Event)
         /\ Len(Numbered(bs, n)) = Len(bs)
         /\ \A i \in 1..Len(bs) : Numbered(bs, n)[i] = Piece(bs[i], n + i - 1)
<1>1. Len(bs) \in Nat /\ DOMAIN bs = 1..Len(bs) /\ \A i \in 1..Len(bs) : bs[i] \in Block
  OBVIOUS
<1>2. \A i \in 1..Len(bs) : Piece(bs[i], n + i - 1) \in BlockEvent
  BY <1>1 DEF Piece, BlockEvent
<1>3. Numbered(bs, n) \in [1..Len(bs) -> BlockEvent]
      /\ \A i \in 1..Len(bs) : Numbered(bs, n)[i] = Piece(bs[i], n + i - 1)
  BY <1>1, <1>2 DEF Numbered
<1>4. BlockEvent \subseteq Event
  BY DEF Event
<1> QED  BY <1>1, <1>3, <1>4

\* What each emitter sends is an event.
LEMMA EventsTyped ==
  /\ \A b \in Block, n \in Nat : Piece(b, n) \in BlockEvent /\ Piece(b, n) \in Event
  /\ \A stop \in StopReason : MessageDelta(stop) \in Event
  /\ MessageStop \in Event /\ Marker \in Event
  /\ BlockEvent \subseteq Event
  BY DEF Piece, BlockEvent, Event, MessageDelta

\* Two more elements, one after the other.
LEMMA AppendedTwice ==
  ASSUME NEW T, NEW w \in Seq(T), NEW a \in T, NEW b \in T
  PROVE  /\ Append(w, a) \in Seq(T)
         /\ w \o <<a, b>> = Append(Append(w, a), b)
<1>1. Append(w, a) \in Seq(T)
  OBVIOUS
<1>2. w \o <<a, b>> = Append(Append(w, a), b)
  OBVIOUS
<1> QED  BY <1>1, <1>2

\* What _emit_message_end_sse sends, after w.
LEMMA EndsAppended ==
  ASSUME NEW w \in Seq(Event), NEW q \in StopReason
  PROVE  /\ Append(w, MessageDelta(q)) \in Seq(Event)
         /\ w \o <<MessageDelta(q), MessageStop>> = Append(Append(w, MessageDelta(q)), MessageStop)
<1>1. MessageDelta(q) \in Event /\ MessageStop \in Event
  BY EventsTyped
<1> QED  BY <1>1, AppendedTwice

\* A request that has not come yet is typed.
LEMMA IdleTyped == Idle \in RelayState
<1>1. NoReply \in [blocks : Seq(Block), stop : StopReason]
  BY DEF NoReply, StopReason
<1> QED  BY <1>1, RelayAssumption DEF Idle, RelayState, PcSet, Body
-----------------------------------------------------------------------------
(* The steps, field by field.                                                *)

SameStream(s, t) ==
  /\ t.sent = s.sent /\ t.stop = s.stop /\ t.suppressed = s.suppressed
  /\ t.vcTools = s.vcTools /\ t.blocks = s.blocks /\ t.need = s.need
SameRounds(s, t) == t.body = s.body /\ t.last = s.last /\ t.loop = s.loop
SameWire(s, t) == t.wire = s.wire /\ t.forwarded = s.forwarded /\ t.texts = s.texts

\* Nothing but where the handler is.
Moves(s, t, pc) ==
  t.pc = pc /\ t.mode = s.mode /\ SameStream(s, t) /\ SameRounds(s, t) /\ SameWire(s, t)

\* Nothing is left of the request but what its client has received.
Leaves(s, t, pc) ==
  /\ t.pc = pc /\ t.mode = s.mode /\ t.wire = s.wire /\ t.texts = s.texts
  /\ SameStream(Idle, t) /\ SameRounds(Idle, t) /\ t.forwarded = 0

\* Only the handler of r takes a step, from s to t.
Steps(r, s, t) ==
  /\ s = relay[r] /\ t = relay'[r] /\ s \in RelayState /\ t \in RelayState
  /\ relay' \in [Request -> RelayState]
  /\ \A q \in Request : q # r => relay'[q] = relay[q]

\* A handler's step is a step of its request alone.
LEMMA GotoSteps ==
  ASSUME TypeInv, NEW r \in Request, NEW t \in RelayState, Goto(r, t)
  PROVE  Steps(r, relay[r], t)
  BY DEF TypeInv, Goto, Steps

\* What Ended leaves of a request.
LEMMA EndedLeaves ==
  ASSUME NEW s \in RelayState, NEW pc \in PcSet
  PROVE  Ended(s, pc) \in RelayState /\ Leaves(s, Ended(s, pc), pc)
<1>1. s.mode \in {None, "paging", "raw", "json"} /\ s.wire \in Seq(Event) /\ s.texts \in Seq(Block)
  BY DEF RelayState
<1>2. Ended(s, pc) \in RelayState
  BY <1>1, IdleTyped DEF Ended, RelayState
<1>3. Leaves(s, Ended(s, pc), pc)
  BY <1>1, IdleTyped DEF Ended, RelayState, Leaves, SameStream, SameRounds, Idle
<1> QED  BY <1>2, <1>3

Arrives(t, mode) ==
  /\ t.pc \in {"stream", "done"} /\ t.mode = mode
  /\ SameStream(Idle, t) /\ SameRounds(Idle, t) /\ SameWire(Idle, t)

\* A request comes.
LEMMA ArriveSteps ==
  ASSUME TypeInv, NEW r \in Request, NEW mode \in {"paging", "raw", "json"},
         NEW asked \in BOOLEAN, NEW marked \in BOOLEAN, Arrive(r, mode, asked, marked)
  PROVE  /\ Steps(r, relay[r], relay'[r]) /\ relay[r].pc = "idle" /\ Arrives(relay'[r], mode)
         /\ deletion' = deletion
         /\ \/ history' = history
            \/ history' = Append(history, [role |-> "user", by |-> r, texts |-> <<>>])
<1>1. PICK pc \in {"stream", "done"} :
        Goto(r, [Idle EXCEPT !.pc = pc, !.mode = mode, !.marked = marked])
  BY DEF Arrive
<1> DEFINE t == [Idle EXCEPT !.pc = pc, !.mode = mode, !.marked = marked]
<1>2. t \in RelayState /\ Arrives(t, mode)
  BY IdleTyped DEF RelayState, Arrives, SameStream, SameRounds, SameWire, PcSet, Idle
<1> HIDE DEF t
<1>3. Steps(r, relay[r], t)
  BY <1>1, <1>2, GotoSteps DEF t
<1>4. relay'[r] = t
  BY <1>3 DEF Steps
<1> QED  BY <1>2, <1>3, <1>4 DEF Arrive, In

\* A block is forwarded or held back.
Forwards(s, t, b) ==
  /\ t.pc = s.pc /\ t.mode = s.mode /\ SameRounds(s, t)
  /\ t.sent = Append(s.sent, b) /\ t.wire = Append(s.wire, Piece(b, Len(s.sent)))
  /\ t.forwarded = s.forwarded + 1
  /\ t.texts = (IF b.kind = "text" THEN Append(s.texts, b) ELSE s.texts)
  /\ t.blocks = (IF b.kind = "text" THEN Append(s.blocks, b) ELSE s.blocks)
  /\ t.stop = s.stop /\ t.suppressed = s.suppressed /\ t.vcTools = s.vcTools /\ t.need = s.need
Suppresses(s, t, b) ==
  /\ t.pc = s.pc /\ t.mode = s.mode /\ SameRounds(s, t) /\ SameWire(s, t)
  /\ t.sent = Append(s.sent, b) /\ t.vcTools = Append(s.vcTools, b)
  /\ t.blocks = Append(s.blocks, b)
  /\ t.suppressed = Append(s.suppressed, Piece(b, Len(s.sent)))
  /\ t.stop = s.stop /\ t.need = s.need

\* A block is forwarded.
LEMMA ForwardSteps ==
  ASSUME NEW s \in RelayState, NEW b \in Block
  PROVE  Forward(s, b) \in RelayState /\ Forwards(s, Forward(s, b), b)
<1>1. /\ s.sent \in Seq(Block) /\ s.wire \in Seq(Event) /\ s.texts \in Seq(Block)
      /\ s.blocks \in Seq(Block) /\ s.forwarded \in Nat
  BY DEF RelayState
<1>2. Piece(b, Len(s.sent)) \in Event
  BY <1>1, EventsTyped
<1> DEFINE wire == Append(s.wire, Piece(b, Len(s.sent)))
           sent == Append(s.sent, b)
           texts == IF b.kind = "text" THEN Append(s.texts, b) ELSE s.texts
           blocks == IF b.kind = "text" THEN Append(s.blocks, b) ELSE s.blocks
           forwarded == s.forwarded + 1
<1>3. wire \in Seq(Event) /\ sent \in Seq(Block) /\ texts \in Seq(Block)
      /\ blocks \in Seq(Block) /\ forwarded \in Nat
  BY <1>1, <1>2
<1> DEFINE t == [s EXCEPT !.sent = sent, !.wire = wire, !.forwarded = forwarded,
                          !.texts = texts, !.blocks = blocks]
<1>4. Forward(s, b) = t
  BY Zenon DEF Forward
<1> HIDE DEF wire, sent, texts, blocks, forwarded
<1>5. t \in RelayState
  BY <1>3 DEF RelayState
<1>6. /\ t.pc = s.pc /\ t.mode = s.mode /\ SameRounds(s, t)
      /\ t.sent = sent /\ t.wire = wire /\ t.forwarded = forwarded /\ t.texts = texts
      /\ t.blocks = blocks
      /\ t.stop = s.stop /\ t.suppressed = s.suppressed /\ t.vcTools = s.vcTools
      /\ t.need = s.need
  BY DEF RelayState, SameRounds
<1> HIDE DEF t
<1> QED  BY <1>4, <1>5, <1>6 DEF Forwards, wire, sent, texts, blocks, forwarded

\* A call is held back.
LEMMA SuppressSteps ==
  ASSUME NEW s \in RelayState, NEW b \in Block
  PROVE  Suppress(s, b) \in RelayState /\ Suppresses(s, Suppress(s, b), b)
<1>1. /\ s.sent \in Seq(Block) /\ s.suppressed \in Seq(BlockEvent) /\ s.blocks \in Seq(Block)
      /\ s.vcTools \in Seq(Block)
  BY DEF RelayState
<1>2. Piece(b, Len(s.sent)) \in BlockEvent
  BY <1>1, EventsTyped
<1> DEFINE suppressed == Append(s.suppressed, Piece(b, Len(s.sent)))
           sent == Append(s.sent, b)
           vcTools == Append(s.vcTools, b)
           blocks == Append(s.blocks, b)
<1>3. suppressed \in Seq(BlockEvent) /\ sent \in Seq(Block) /\ vcTools \in Seq(Block)
      /\ blocks \in Seq(Block)
  BY <1>1, <1>2
<1> DEFINE t == [s EXCEPT !.sent = sent, !.suppressed = suppressed, !.vcTools = vcTools,
                          !.blocks = blocks]
<1>4. Suppress(s, b) = t
  BY Zenon DEF Suppress
<1> HIDE DEF suppressed, sent, vcTools, blocks
<1>5. t \in RelayState
  BY <1>3 DEF RelayState
<1>6. /\ t.pc = s.pc /\ t.mode = s.mode /\ SameRounds(s, t) /\ SameWire(s, t)
      /\ t.sent = sent /\ t.suppressed = suppressed /\ t.vcTools = vcTools
      /\ t.blocks = blocks /\ t.stop = s.stop /\ t.need = s.need
  BY DEF RelayState, SameRounds, SameWire
<1> HIDE DEF t
<1> QED  BY <1>4, <1>5, <1>6 DEF Suppresses, suppressed, sent, vcTools, blocks

\* A block of the stream is one or the other.
LEMMA StreamBlockSteps ==
  ASSUME TypeInv, NEW r \in Request, StreamBlock(r)
  PROVE  LET s == relay[r]  t == relay'[r]
         IN  /\ Steps(r, s, t) /\ s.pc = "stream" /\ s.stop = None /\ s.mode # "json"
             /\ UNCHANGED <<history, deletion>>
             /\ \E b \in Block :
                  /\ b.kind \in NextKinds(s.sent) /\ b.loop = 0
                  /\ \/ (s.mode = "paging" => b.kind # "vc") /\ Forwards(s, t, b)
                     \/ s.mode = "paging" /\ b.kind = "vc" /\ Suppresses(s, t, b)
<1> DEFINE s == relay[r]
           B(k) == [kind |-> k, loop |-> 0, at |-> Len(s.sent) + 1]
           T(k) == IF s.mode = "paging" /\ k = "vc" THEN Suppress(s, B(k)) ELSE Forward(s, B(k))
<1>1. PICK k \in NextKinds(s.sent) : Goto(r, T(k))
  BY DEF StreamBlock
<1>2. s \in RelayState /\ s.pc = "stream" /\ s.stop = None /\ s.mode # "json"
  BY DEF StreamBlock, Streaming, In, TypeInv
<1>3. B(k) \in Block /\ B(k).kind = k /\ B(k).loop = 0
  <2>1. k \in Kind /\ Len(s.sent) # MaxBlocks
    BY <1>1 DEF NextKinds, Kind
  <2>2. Len(s.sent) \in Nat /\ Len(s.sent) <= MaxBlocks
    BY <1>2 DEF RelayState, TypeInv, Bounded
  <2>3. Len(s.sent) + 1 \in 1..MaxBlocks
    BY <2>1, <2>2, RelayAssumption
  <2> QED  BY <2>1, <2>3, BlockTyped, RelayAssumption
<1>4. T(k) \in RelayState
      /\ \/ (s.mode = "paging" => k # "vc") /\ Forwards(s, T(k), B(k))
         \/ s.mode = "paging" /\ k = "vc" /\ Suppresses(s, T(k), B(k))
  <2> HIDE DEF B, s
  <2>1. Forward(s, B(k)) \in RelayState /\ Forwards(s, Forward(s, B(k)), B(k))
    BY <1>2, <1>3, ForwardSteps
  <2>2. Suppress(s, B(k)) \in RelayState /\ Suppresses(s, Suppress(s, B(k)), B(k))
    BY <1>2, <1>3, SuppressSteps
  <2> QED  BY <2>1, <2>2
<1> HIDE DEF T, B
<1>5. Steps(r, s, T(k))
  BY <1>1, <1>4, GotoSteps
<1>6. relay'[r] = T(k)
  BY <1>5 DEF Steps
<1> QED  BY <1>1, <1>2, <1>3, <1>4, <1>5, <1>6 DEF StreamBlock

\* The message_delta: forwarded, after what was held back, or swallowed.
Deltas(s, t, stop) ==
  /\ t.pc = s.pc /\ t.mode = s.mode /\ SameRounds(s, t) /\ t.stop = stop
  /\ t.sent = s.sent /\ t.blocks = s.blocks /\ t.texts = s.texts /\ t.forwarded = s.forwarded
  /\ \/ /\ ~ Intercepts(s, stop)
        /\ t.wire = Append(s.wire, MessageDelta(stop)) /\ t.suppressed = s.suppressed
        /\ t.vcTools = s.vcTools /\ t.need = s.need
     \/ /\ Intercepts(s, stop) /\ Has("own", s.sent)
        /\ t.wire = Append(s.wire \o s.suppressed, MessageDelta(stop))
        /\ t.suppressed = <<>> /\ t.vcTools = <<>> /\ t.need = s.need
     \/ /\ Intercepts(s, stop) /\ ~ Has("own", s.sent)
        /\ t.wire = s.wire /\ t.suppressed = s.suppressed
        /\ t.vcTools = s.vcTools /\ t.need = TRUE

\* The three ways of a message_delta.
LEMMA StreamDeltaSteps ==
  ASSUME TypeInv, NEW r \in Request, StreamDelta(r)
  PROVE  LET s == relay[r]  t == relay'[r]
         IN  /\ Steps(r, s, t) /\ s.pc = "stream" /\ s.stop = None /\ s.mode # "json"
             /\ UNCHANGED <<history, deletion>>
             /\ \E stop \in Stops(s.sent) : stop \in StopReason /\ Deltas(s, t, stop)
<1> DEFINE s == relay[r]
           A(stop) == [s EXCEPT !.stop = stop, !.wire = Append(@, MessageDelta(stop))]
           B(stop) == [s EXCEPT !.stop = stop, !.suppressed = <<>>, !.vcTools = <<>>,
                                !.wire = Append(@ \o s.suppressed, MessageDelta(stop))]
           C(stop) == [s EXCEPT !.stop = stop, !.need = TRUE]
<1>1. PICK stop \in Stops(s.sent) :
        \/ ~ Intercepts(s, stop) /\ Goto(r, A(stop))
        \/ Intercepts(s, stop) /\ Has("own", s.sent) /\ Goto(r, B(stop))
        \/ Intercepts(s, stop) /\ ~ Has("own", s.sent) /\ Goto(r, C(stop))
  BY DEF StreamDelta
<1>2. s \in RelayState /\ s.pc = "stream" /\ s.stop = None /\ s.mode # "json"
  BY DEF StreamDelta, Streaming, In, TypeInv
<1>3. stop \in StopReason
  BY <1>1 DEF Stops, StopReason
<1>4. s.wire \in Seq(Event) /\ s.suppressed \in Seq(BlockEvent) /\ MessageDelta(stop) \in Event
  BY <1>2, <1>3, EventsTyped DEF RelayState
<1>5. Append(s.wire, MessageDelta(stop)) \in Seq(Event)
      /\ Append(s.wire \o s.suppressed, MessageDelta(stop)) \in Seq(Event)
  <2>1. s.suppressed \in Seq(Event)
    BY <1>4, EventsTyped, SeqMonotonic
  <2> QED  BY ONLY <1>4, <2>1
<1> SUFFICES \E t \in RelayState : Goto(r, t) /\ Deltas(s, t, stop)
  <2>1. PICK t \in RelayState : Goto(r, t) /\ Deltas(s, t, stop)
    OBVIOUS
  <2>2. Steps(r, s, t)
    BY <2>1, GotoSteps
  <2>3. relay'[r] = t
    BY <2>2 DEF Steps
  <2> HIDE DEF s
  <2> QED  BY <1>1, <1>2, <1>3, <2>1, <2>2, <2>3 DEF StreamDelta, s
<1> HIDE DEF s
<1>6. CASE ~ Intercepts(s, stop) /\ Goto(r, A(stop))
  <2>1. A(stop) \in RelayState /\ Deltas(s, A(stop), stop)
    BY <1>2, <1>3, <1>5, <1>6 DEF RelayState, Deltas, SameRounds
  <2> QED  BY <1>6, <2>1
<1>7. CASE Intercepts(s, stop) /\ Has("own", s.sent) /\ Goto(r, B(stop))
  <2> DEFINE w == Append(s.wire \o s.suppressed, MessageDelta(stop))
             t == [s EXCEPT !.stop = stop, !.suppressed = <<>>, !.vcTools = <<>>, !.wire = w]
  <2>0. B(stop) = t
    BY Zenon
  <2> HIDE DEF w
  <2>2. w \in Seq(Event) /\ <<>> \in Seq(Block) /\ <<>> \in Seq(BlockEvent)
    BY <1>5, EmptySeq DEF w
  <2>3. t \in RelayState
    BY ONLY <1>2, <1>3, <2>2 DEF RelayState
  <2>4. /\ t.pc = s.pc /\ t.mode = s.mode /\ SameRounds(s, t) /\ t.stop = stop
        /\ t.sent = s.sent /\ t.blocks = s.blocks /\ t.texts = s.texts
        /\ t.forwarded = s.forwarded /\ t.wire = w
        /\ t.suppressed = <<>> /\ t.vcTools = <<>> /\ t.need = s.need
    BY ONLY <1>2 DEF RelayState, SameRounds
  <2> HIDE DEF t
  <2>5. Deltas(s, t, stop)
    BY <1>7, <2>4 DEF Deltas, w
  <2>1. B(stop) \in RelayState /\ Deltas(s, B(stop), stop)
    BY <2>0, <2>3, <2>5
  <2> QED  BY <1>7, <2>1
<1>8. CASE Intercepts(s, stop) /\ ~ Has("own", s.sent) /\ Goto(r, C(stop))
  <2>1. C(stop) \in RelayState /\ Deltas(s, C(stop), stop)
    BY <1>2, <1>3, <1>5, <1>8 DEF RelayState, Deltas, SameRounds
  <2> QED  BY <1>8, <2>1
<1> QED  BY <1>1, <1>6, <1>7, <1>8

\* The message_stop.
LEMMA StreamStopSteps ==
  ASSUME TypeInv, NEW r \in Request, StreamStop(r)
  PROVE  LET s == relay[r]  t == relay'[r]
         IN  /\ Steps(r, s, t) /\ s.pc = "stream" /\ s.stop # None /\ s.mode # "json"
             /\ UNCHANGED <<history, deletion>>
             /\ t.pc = "closed" /\ t.mode = s.mode /\ SameStream(s, t) /\ SameRounds(s, t)
             /\ t.texts = s.texts /\ t.forwarded = s.forwarded
             /\ t.wire = IF s.need THEN s.wire ELSE Append(s.wire, MessageStop)
<1> DEFINE s == relay[r]
           w == IF s.need THEN s.wire ELSE Append(s.wire, MessageStop)
           t == [s EXCEPT !.pc = "closed", !.wire = w]
<1>1. Goto(r, t) /\ UNCHANGED <<history, deletion>>
  BY Zenon DEF StreamStop
<1>2. s \in RelayState /\ s.pc = "stream" /\ s.stop # None /\ s.mode # "json"
  BY DEF StreamStop, In, TypeInv
<1>3. s.wire \in Seq(Event)
  BY <1>2 DEF RelayState
<1>4. w \in Seq(Event)
  BY <1>3, EventsTyped
<1> HIDE DEF w, s
<1>5. t \in RelayState
  BY <1>2, <1>4 DEF RelayState, PcSet
<1>6. /\ t.pc = "closed" /\ t.mode = s.mode /\ SameStream(s, t) /\ SameRounds(s, t)
      /\ t.texts = s.texts /\ t.forwarded = s.forwarded /\ t.wire = w
  BY <1>2 DEF RelayState, SameStream, SameRounds
<1> HIDE DEF t
<1>7. Steps(r, s, t)
  BY <1>1, <1>5, GotoSteps DEF s
<1>8. relay'[r] = t
  BY <1>7 DEF Steps
<1> QED  BY <1>1, <1>2, <1>6, <1>7, <1>8 DEF w, s

\* A step that only changes where the handler is.
LEMMA MovesTyped ==
  ASSUME NEW s \in RelayState, NEW pc \in PcSet
  PROVE  [s EXCEPT !.pc = pc] \in RelayState /\ Moves(s, [s EXCEPT !.pc = pc], pc)
  BY DEF RelayState, Moves, SameStream, SameRounds, SameWire

\* The stream breaks off.
LEMMA StreamBreaksSteps ==
  ASSUME TypeInv, NEW r \in Request, StreamBreaks(r)
  PROVE  /\ Steps(r, relay[r], relay'[r]) /\ relay[r].pc = "stream" /\ relay[r].mode # "json"
         /\ UNCHANGED <<history, deletion>> /\ Moves(relay[r], relay'[r], "closed")
<1> DEFINE t == [relay[r] EXCEPT !.pc = "closed"]
<1>1. Goto(r, t)
  BY DEF StreamBreaks
<1>2. relay[r] \in RelayState
  BY DEF TypeInv
<1>3. t \in RelayState /\ Moves(relay[r], t, "closed")
  BY <1>2, MovesTyped DEF PcSet
<1> HIDE DEF t
<1>4. Steps(r, relay[r], t)
  BY <1>1, <1>3, GotoSteps
<1>5. relay'[r] = t
  BY <1>4 DEF Steps
<1> QED  BY <1>3, <1>4, <1>5 DEF StreamBreaks, In

\* The stream has ended.
LEMMA StreamClosedSteps ==
  ASSUME TypeInv, NEW r \in Request, StreamClosed(r)
  PROVE  LET s == relay[r]
         IN  /\ Steps(r, s, relay'[r]) /\ s.pc = "closed" /\ UNCHANGED <<history, deletion>>
             /\ Moves(s, relay'[r], IF s.need /\ s.vcTools # <<>> THEN "tools" ELSE "post")
<1> DEFINE s == relay[r]
           pc == IF s.need /\ s.vcTools # <<>> THEN "tools" ELSE "post"
           t == [s EXCEPT !.pc = pc]
<1>1. Goto(r, t)
  BY Zenon DEF StreamClosed
<1>2. s \in RelayState /\ pc \in PcSet
  BY DEF TypeInv, PcSet
<1> HIDE DEF pc, s
<1>3. t \in RelayState /\ Moves(s, t, pc)
  BY <1>2, MovesTyped
<1> HIDE DEF t
<1>4. Steps(r, s, t)
  BY <1>1, <1>3, GotoSteps DEF s
<1>5. relay'[r] = t
  BY <1>4 DEF Steps
<1> QED  BY <1>3, <1>4, <1>5 DEF StreamClosed, In, s, pc

\* The upstream refuses a continuation.
LEMMA RefuseSteps ==
  ASSUME TypeInv, NEW r \in Request, RefuseContinuation(r)
  PROVE  /\ Steps(r, relay[r], relay'[r]) /\ relay[r].pc = "asking"
         /\ UNCHANGED <<history, deletion>> /\ Moves(relay[r], relay'[r], "closing")
<1> DEFINE t == [relay[r] EXCEPT !.pc = "closing"]
<1>1. Goto(r, t)
  BY DEF RefuseContinuation
<1>2. relay[r] \in RelayState
  BY DEF TypeInv
<1>3. t \in RelayState /\ Moves(relay[r], t, "closing")
  BY <1>2, MovesTyped DEF PcSet
<1> HIDE DEF t
<1>4. Steps(r, relay[r], t)
  BY <1>1, <1>3, GotoSteps
<1>5. relay'[r] = t
  BY <1>4 DEF Steps
<1> QED  BY <1>3, <1>4, <1>5 DEF RefuseContinuation, In

\* A continuation fails.
LEMMA FailSteps ==
  ASSUME TypeInv, NEW r \in Request, FailContinuation(r)
  PROVE  /\ Steps(r, relay[r], relay'[r]) /\ relay[r].pc = "asking"
         /\ UNCHANGED <<history, deletion>> /\ Leaves(relay[r], relay'[r], "broken")
<1> DEFINE t == Ended(relay[r], "broken")
<1>1. Goto(r, t)
  BY DEF FailContinuation
<1>2. relay[r] \in RelayState
  BY DEF TypeInv
<1>3. t \in RelayState /\ Leaves(relay[r], t, "broken")
  BY <1>2, EndedLeaves DEF PcSet
<1> HIDE DEF t
<1>4. Steps(r, relay[r], t)
  BY <1>1, <1>3, GotoSteps
<1>5. relay'[r] = t
  BY <1>4 DEF Steps
<1> QED  BY <1>3, <1>4, <1>5 DEF FailContinuation, In

\* The calls of the round join the body, and the next question is asked.
Asks(s, t) ==
  /\ t.pc = "asking" /\ t.mode = s.mode /\ SameStream(s, t) /\ SameWire(s, t)
  /\ t.loop = s.loop /\ t.last = s.last
  /\ t.body = s.body \o <<[role |-> "assistant",
                           blocks |-> IF s.loop = 0 THEN s.blocks ELSE s.last.blocks],
                          [role |-> "user", blocks |-> s.vcTools]>>

\* The calls are executed.
LEMMA ToolsSteps ==
  ASSUME TypeInv, NEW r \in Request, Tools(r)
  PROVE  /\ Steps(r, relay[r], relay'[r]) /\ relay[r].pc = "tools"
         /\ UNCHANGED <<history, deletion>> /\ Asks(relay[r], relay'[r])
<1> DEFINE s == relay[r]
           a == [role |-> "assistant", blocks |-> IF s.loop = 0 THEN s.blocks ELSE s.last.blocks]
           u == [role |-> "user", blocks |-> s.vcTools]
           body == s.body \o <<a, u>>
           t == [s EXCEPT !.pc = "asking", !.body = body]
<1>1. Goto(r, t)
  BY Zenon DEF Tools
<1>2. s \in RelayState
  BY DEF TypeInv
<1>3. s.blocks \in Seq(Block) /\ s.last.blocks \in Seq(Block) /\ s.vcTools \in Seq(Block)
      /\ s.body \in Body
  BY <1>2 DEF RelayState
<1>4. body \in Body
  <2>1. a \in [role : {"user", "assistant"}, blocks : Seq(Block)]
    BY <1>3
  <2>2. u \in [role : {"user", "assistant"}, blocks : Seq(Block)]
    BY <1>3
  <2> HIDE DEF a, u
  <2> QED  BY <1>3, <2>1, <2>2 DEF Body
<1> HIDE DEF body, s
<1>5. t \in RelayState
  BY <1>2, <1>4 DEF RelayState, PcSet
<1>6. /\ t.pc = "asking" /\ t.mode = s.mode /\ SameStream(s, t) /\ SameWire(s, t)
      /\ t.loop = s.loop /\ t.last = s.last /\ t.body = body
  BY <1>2 DEF RelayState, SameStream, SameWire
<1> HIDE DEF t
<1>7. Steps(r, s, t)
  BY <1>1, <1>5, GotoSteps DEF s
<1>8. relay'[r] = t
  BY <1>7 DEF Steps
<1> QED  BY <1>6, <1>7, <1>8 DEF Tools, In, Asks, body, s

\* A continuation m has been read.
Reads(s, t, m) ==
  /\ t.mode = s.mode /\ t.last = m /\ t.loop = s.loop + 1 /\ t.body = s.body
  /\ t.sent = s.sent /\ t.stop = s.stop /\ t.blocks = s.blocks /\ t.need = s.need
  /\ t.suppressed = s.suppressed
  /\ t.texts = s.texts \o Of("text", m.blocks)
  /\ t.wire = s.wire \o Numbered(Shown(m), s.forwarded)
  /\ t.forwarded = s.forwarded + Len(Shown(m))
  /\ \/ /\ OnlyVc(m) /\ t.vcTools = Of("vc", m.blocks)
        /\ t.pc = IF s.loop + 1 = MaxLoops THEN "closing" ELSE "tools"
     \/ ~ OnlyVc(m) /\ t.vcTools = s.vcTools /\ t.pc = "closing"

\* A continuation is read.
LEMMA ContinueSteps ==
  ASSUME TypeInv, NEW r \in Request, Continue(r)
  PROVE  LET s == relay[r]  t == relay'[r]
         IN  /\ Steps(r, s, t) /\ s.pc = "asking" /\ UNCHANGED <<history, deletion>>
             /\ s.loop + 1 <= MaxLoops
             /\ \E m \in [blocks : Seq(Block), stop : StopReason] :
                  Len(m.blocks) <= MaxBlocks /\ Later(m.blocks) /\ Reads(s, t, m)
<1> DEFINE s == relay[r]
           T(m) == IF OnlyVc(m) THEN Further(Round(s, m))
                   ELSE [Round(s, m) EXCEPT !.pc = "closing"]
<1>1. PICK m \in Reply(s.loop + 1) : Goto(r, T(m))
  BY Zenon DEF Continue
<1>2. s \in RelayState /\ s.pc = "asking" /\ Bounded(s)
  BY DEF TypeInv, Continue, In
<1>3. s.loop + 1 \in 0..MaxLoops
  <2>1. s.loop \in 0..MaxLoops
    BY <1>2 DEF RelayState
  <2>2. s.loop < MaxLoops
    BY <1>2 DEF Bounded
  <2> QED  BY ONLY <2>1, <2>2, RelayAssumption
<1>4. m \in [blocks : Seq(Block), stop : StopReason] /\ Len(m.blocks) <= MaxBlocks
  BY <1>1, <1>3, ReplyTyped
<1>13. Later(m.blocks)
  <2>1. \A i \in 1..Len(m.blocks) : m.blocks[i].loop = s.loop + 1
    BY <1>1, <1>3, ReplyTyped
  <2>2. s.loop \in Nat
    BY <1>2, RelayAssumption DEF RelayState
  <2> QED  BY <2>1, <2>2 DEF Later
<1> HIDE DEF s
<1> DEFINE texts == s.texts \o Of("text", m.blocks)
           wire == s.wire \o Numbered(Shown(m), s.forwarded)
           forwarded == s.forwarded + Len(Shown(m))
           loop == s.loop + 1
           u == [s EXCEPT !.last = m, !.loop = loop, !.texts = texts, !.wire = wire,
                          !.forwarded = forwarded]
<1>5. Round(s, m) = u
  BY Zenon DEF Round
<1>6. texts \in Seq(Block) /\ wire \in Seq(Event) /\ forwarded \in Nat
  <2>1. Of("text", m.blocks) \in Seq(Block)
    BY <1>4, OfTyped
  <2>2. Shown(m) \in Seq(Block)
    BY <1>4, ShownTyped
  <2>3. s.forwarded \in Nat /\ s.texts \in Seq(Block) /\ s.wire \in Seq(Event)
    BY <1>2 DEF RelayState
  <2>4. Numbered(Shown(m), s.forwarded) \in Seq(Event)
    BY <2>2, <2>3, NumberedTyped
  <2>5. Len(Shown(m)) \in Nat
    BY <2>2
  <2> QED  BY ONLY <2>1, <2>3, <2>4, <2>5
<1> HIDE DEF texts, wire, forwarded, loop
<1>7. u \in RelayState
  BY <1>2, <1>3, <1>4, <1>6 DEF RelayState, loop
<1>8. /\ u.pc = s.pc /\ u.mode = s.mode /\ u.last = m /\ u.loop = loop /\ u.body = s.body
      /\ u.sent = s.sent /\ u.stop = s.stop /\ u.blocks = s.blocks /\ u.need = s.need
      /\ u.suppressed = s.suppressed /\ u.vcTools = s.vcTools
      /\ u.texts = texts /\ u.wire = wire /\ u.forwarded = forwarded
  BY <1>2 DEF RelayState
<1> HIDE DEF u
<1>9. T(m) \in RelayState /\ Reads(s, T(m), m)
  <2>1. CASE ~ OnlyVc(m)
    <3> DEFINE t == [u EXCEPT !.pc = "closing"]
    <3>1. T(m) = t
      BY <1>5, <2>1
    <3>2. t \in RelayState /\ Moves(u, t, "closing")
      BY <1>7, MovesTyped DEF PcSet
    <3> HIDE DEF t, T
    <3>3. Reads(s, t, m)
      BY <1>8, <2>1, <3>2
         DEF Reads, Moves, SameStream, SameRounds, SameWire, texts, wire, forwarded, loop
    <3> QED  BY <3>1, <3>2, <3>3
  <2>2. CASE OnlyVc(m)
    <3> DEFINE pc == IF s.loop + 1 = MaxLoops THEN "closing" ELSE "tools"
               vcTools == Of("vc", m.blocks)
               t == [u EXCEPT !.vcTools = vcTools, !.pc = pc]
    <3>1. T(m) = t
      <4>1. u.last.blocks = m.blocks /\ u.loop = s.loop + 1
        BY <1>8 DEF loop
      <4>2. Further(u) = t
        BY <4>1 DEF Further
      <4> QED  BY <1>5, <2>2, <4>2
    <3>2. vcTools \in Seq(Block) /\ pc \in PcSet
      BY <1>4, OfTyped DEF PcSet
    <3> HIDE DEF vcTools, pc
    <3>3. t \in RelayState
      BY <1>7, <3>2 DEF RelayState
    <3>4. /\ t.pc = pc /\ t.mode = u.mode /\ t.last = u.last /\ t.loop = u.loop /\ t.body = u.body
          /\ t.sent = u.sent /\ t.stop = u.stop /\ t.blocks = u.blocks /\ t.need = u.need
          /\ t.suppressed = u.suppressed /\ t.vcTools = vcTools
          /\ t.texts = u.texts /\ t.wire = u.wire /\ t.forwarded = u.forwarded
      BY <1>7 DEF RelayState
    <3> HIDE DEF t, T
    <3>5. Reads(s, t, m)
      BY <1>8, <2>2, <3>4 DEF Reads, texts, wire, forwarded, loop, pc, vcTools
    <3> QED  BY <3>1, <3>3, <3>5
  <2> QED  BY <2>1, <2>2
<1> HIDE DEF T
<1>10. Steps(r, s, T(m))
  BY <1>1, <1>9, GotoSteps DEF s
<1>11. relay'[r] = T(m)
  BY <1>10 DEF Steps
<1>12. s.loop + 1 <= MaxLoops
  BY <1>3, RelayAssumption
<1> QED  BY <1>2, <1>4, <1>9, <1>10, <1>11, <1>12, <1>13 DEF Continue, s

\* The end of the message after the last round.
LEMMA CloseSteps ==
  ASSUME TypeInv, NEW r \in Request, Close(r)
  PROVE  LET s == relay[r]  t == relay'[r]
         IN  /\ Steps(r, s, t) /\ s.pc = "closing" /\ UNCHANGED <<history, deletion>>
             /\ t.pc = "post" /\ t.mode = s.mode /\ SameStream(s, t) /\ SameRounds(s, t)
             /\ t.texts = s.texts /\ t.forwarded = s.forwarded
             /\ \E stop \in StopReason :
                  /\ stop = "tool_use" => s.last.stop = "tool_use" /\ Has("own", s.last.blocks)
                  /\ t.wire = s.wire \o <<MessageDelta(stop), MessageStop>>
<1> DEFINE s == relay[r]
           stop == IF s.last.stop = "tool_use" /\ Has("own", s.last.blocks)
                   THEN "tool_use" ELSE "end_turn"
           w == s.wire \o <<MessageDelta(stop), MessageStop>>
           t == [s EXCEPT !.pc = "post", !.wire = w]
<1>1. Goto(r, t) /\ s.pc = "closing" /\ UNCHANGED <<history, deletion>>
  BY Zenon DEF Close, In
<1>2. s \in RelayState /\ stop \in StopReason
      /\ (stop = "tool_use" => s.last.stop = "tool_use" /\ Has("own", s.last.blocks))
  BY DEF TypeInv, StopReason
<1> HIDE DEF stop, s
<1>3. w \in Seq(Event)
  BY <1>2, EventsTyped DEF RelayState
<1> HIDE DEF w
<1>4. t \in RelayState
  BY <1>2, <1>3 DEF RelayState, PcSet
<1>5. /\ t.pc = "post" /\ t.mode = s.mode /\ SameStream(s, t) /\ SameRounds(s, t)
      /\ t.texts = s.texts /\ t.forwarded = s.forwarded /\ t.wire = w
  BY <1>2 DEF RelayState, SameStream, SameRounds
<1> HIDE DEF t
<1>6. Steps(r, s, t)
  BY <1>1, <1>4, GotoSteps DEF s
<1>7. relay'[r] = t
  BY <1>6 DEF Steps
<1> QED  BY <1>1, <1>2, <1>5, <1>6, <1>7 DEF w, s

\* An answer without streaming.
Answers(s, t, m) ==
  /\ t.pc = "post" /\ t.mode = s.mode /\ SameStream(s, t) /\ SameRounds(s, t)
  /\ t.forwarded = s.forwarded /\ t.texts = Of("text", m.blocks)
  /\ t.wire = Append(Numbered(m.blocks, 0), MessageDelta(m.stop)) \o <<MessageStop>>

\* An answer without streaming.
LEMMA AnswerSteps ==
  ASSUME TypeInv, NEW r \in Request, Answer(r)
  PROVE  LET s == relay[r]  t == relay'[r]
         IN  /\ Steps(r, s, t) /\ s.pc = "stream" /\ s.mode = "json"
             /\ UNCHANGED <<history, deletion>>
             /\ \/ \E m \in [blocks : Seq(Block), stop : StopReason] : Answers(s, t, m)
                \/ Leaves(s, t, "broken")
<1> DEFINE s == relay[r]
           W(m) == Append(Numbered(m.blocks, 0), MessageDelta(m.stop)) \o <<MessageStop>>
           X(m) == Of("text", m.blocks)
           T(m) == [s EXCEPT !.pc = "post", !.texts = X(m), !.wire = W(m)]
<1>1. (\E m \in Reply(0) : Goto(r, T(m))) \/ Goto(r, Ended(s, "broken"))
  BY Zenon DEF Answer
<1>2. s \in RelayState /\ s.pc = "stream" /\ s.mode = "json" /\ UNCHANGED <<history, deletion>>
  BY DEF TypeInv, Answer, In
<1> SUFFICES \E t \in RelayState : Goto(r, t) /\
               (\/ \E m \in [blocks : Seq(Block), stop : StopReason] : Answers(s, t, m)
                \/ Leaves(s, t, "broken"))
  <2> HIDE DEF s
  <2>1. PICK t \in RelayState : Goto(r, t) /\
               (\/ \E m \in [blocks : Seq(Block), stop : StopReason] : Answers(s, t, m)
                \/ Leaves(s, t, "broken"))
    OBVIOUS
  <2>2. Steps(r, s, t)
    BY <2>1, GotoSteps DEF s
  <2>3. relay'[r] = t
    BY <2>2 DEF Steps
  <2> QED  BY <1>2, <2>1, <2>2, <2>3 DEF s
<1> HIDE DEF s
<1>3. ASSUME NEW m \in Reply(0), Goto(r, T(m))
      PROVE  T(m) \in RelayState /\ Answers(s, T(m), m)
             /\ m \in [blocks : Seq(Block), stop : StopReason]
  <2>1. m \in [blocks : Seq(Block), stop : StopReason] /\ Len(m.blocks) <= MaxBlocks
    BY ReplyTyped, RelayAssumption
  <2>2. X(m) \in Seq(Block)
    BY <2>1, OfTyped
  <2>3. W(m) \in Seq(Event)
    <3>1. Numbered(m.blocks, 0) \in Seq(Event)
      BY <2>1, NumberedTyped
    <3>2. MessageDelta(m.stop) \in Event /\ MessageStop \in Event
      BY <2>1, EventsTyped
    <3> QED  BY <3>1, <3>2
  <2> DEFINE x == X(m)
             w == W(m)
             t == [s EXCEPT !.pc = "post", !.texts = x, !.wire = w]
  <2>4. T(m) = t
    OBVIOUS
  <2>5. x \in Seq(Block) /\ w \in Seq(Event)
    BY <2>2, <2>3
  <2> HIDE DEF x, w
  <2>6. t \in RelayState
    BY ONLY <1>2, <2>5 DEF RelayState, PcSet
  <2>7. /\ t.pc = "post" /\ t.mode = s.mode /\ SameStream(s, t) /\ SameRounds(s, t)
        /\ t.forwarded = s.forwarded /\ t.texts = x /\ t.wire = w
    BY ONLY <1>2 DEF RelayState, SameStream, SameRounds
  <2> HIDE DEF t, T
  <2> QED  BY <2>1, <2>4, <2>6, <2>7 DEF Answers, x, w
<1>4. Ended(s, "broken") \in RelayState /\ Leaves(s, Ended(s, "broken"), "broken")
  BY <1>2, EndedLeaves DEF PcSet
<1> HIDE DEF T
<1> QED  BY <1>1, <1>3, <1>4

\* Whether there is something to record.
LEMMA PostSteps ==
  ASSUME TypeInv, NEW r \in Request, Post(r)
  PROVE  LET s == relay[r]  t == relay'[r]
         IN  /\ Steps(r, s, t) /\ s.pc = "post" /\ UNCHANGED <<history, deletion>>
             /\ \/ s.texts # <<>> /\ deletion = "none" /\ Moves(s, t, "record")
                \/ (s.texts = <<>> \/ deletion # "none") /\ Leaves(s, t, "done")
<1> DEFINE s == relay[r]
           A == [s EXCEPT !.pc = "record"]
           B == Ended(s, "done")
           kept == s.texts # <<>> /\ deletion = "none"
           t == IF kept THEN A ELSE B
<1>1. Goto(r, t)
  BY Zenon DEF Post
<1>2. s \in RelayState /\ s.pc = "post" /\ UNCHANGED <<history, deletion>>
  BY DEF TypeInv, Post, In
<1> HIDE DEF s
<1>3. A \in RelayState /\ Moves(s, A, "record")
  BY <1>2, MovesTyped DEF PcSet
<1>4. B \in RelayState /\ Leaves(s, B, "done")
  BY <1>2, EndedLeaves DEF PcSet
<1>5. t \in RelayState /\ (kept => t = A) /\ (~ kept => t = B)
  BY <1>3, <1>4
<1> HIDE DEF t, A, B
<1>6. Steps(r, s, t)
  BY <1>1, <1>5, GotoSteps DEF s
<1>7. relay'[r] = t
  BY <1>6 DEF Steps
<1> QED  BY <1>2, <1>3, <1>4, <1>5, <1>6, <1>7 DEF s

\* The answer joins the history.
LEMMA RecordSteps ==
  ASSUME TypeInv, NEW r \in Request, Record(r)
  PROVE  LET s == relay[r]  t == relay'[r]
         IN  /\ Steps(r, s, t) /\ s.pc = "record" /\ deletion' = deletion
             /\ history' = Append(history, [role |-> "assistant", by |-> r, texts |-> s.texts])
             /\ Leaves(s, t, "done") \/ Moves(s, t, "mark")
<1> DEFINE s == relay[r]
           A == [s EXCEPT !.pc = "mark"]
           B == Ended(s, "done")
           t == IF s.mode = "paging" \/ s.marked THEN B ELSE A
<1>1. Goto(r, t)
  BY Zenon DEF Record
<1>2. s \in RelayState /\ s.pc = "record" /\ deletion' = deletion
      /\ history' = Append(history, [role |-> "assistant", by |-> r, texts |-> s.texts])
  BY DEF TypeInv, Record, In
<1> HIDE DEF s
<1>3. A \in RelayState /\ Moves(s, A, "mark")
  BY <1>2, MovesTyped DEF PcSet
<1>4. B \in RelayState /\ Leaves(s, B, "done")
  BY <1>2, EndedLeaves DEF PcSet
<1>5. t \in RelayState /\ (t = A \/ t = B)
  BY <1>3, <1>4
<1> HIDE DEF t, A, B
<1>6. Steps(r, s, t)
  BY <1>1, <1>5, GotoSteps DEF s
<1>7. relay'[r] = t
  BY <1>6 DEF Steps
<1> QED  BY <1>2, <1>3, <1>4, <1>5, <1>6, <1>7 DEF s

\* The marker is sent.
LEMMA MarkSteps ==
  ASSUME TypeInv, NEW r \in Request, Mark(r)
  PROVE  LET s == relay[r]  t == relay'[r]
         IN  /\ Steps(r, s, t) /\ s.pc = "mark" /\ UNCHANGED <<history, deletion>>
             /\ t.pc = "done" /\ t.mode = s.mode /\ t.texts = s.texts
             /\ t.wire = Append(s.wire, Marker)
             /\ SameStream(Idle, t) /\ SameRounds(Idle, t) /\ t.forwarded = 0
<1> DEFINE s == relay[r]
           w == Append(s.wire, Marker)
           u == [s EXCEPT !.wire = w]
           t == Ended(u, "done")
<1>1. Goto(r, t) /\ s.pc = "mark" /\ UNCHANGED <<history, deletion>>
  BY Zenon DEF Mark, In
<1>2. s \in RelayState
  BY DEF TypeInv
<1> HIDE DEF s
<1>3. w \in Seq(Event)
  BY <1>2, EventsTyped DEF RelayState
<1> HIDE DEF w
<1>4. u \in RelayState /\ u.mode = s.mode /\ u.texts = s.texts /\ u.wire = w
  BY <1>2, <1>3 DEF RelayState
<1> HIDE DEF u
<1>5. t \in RelayState /\ Leaves(u, t, "done")
  BY <1>4, EndedLeaves DEF PcSet
<1> HIDE DEF t
<1>6. Steps(r, s, t)
  BY <1>1, <1>5, GotoSteps DEF s
<1>7. relay'[r] = t
  BY <1>6 DEF Steps
<1> QED  BY <1>1, <1>4, <1>5, <1>6, <1>7 DEF s, w, Leaves

\* The client leaves.
LEMMA VanishSteps ==
  ASSUME TypeInv, NEW r \in Request, Vanish(r)
  PROVE  LET s == relay[r]  t == relay'[r]
         IN  /\ Steps(r, s, t) /\ s.pc # "record" /\ UNCHANGED <<history, deletion>>
             /\ \/ Leaves(s, t, "gone")
                \/ s.mode = "raw" /\ Streams(s) /\ Moves(s, t, "post")
<1> DEFINE s == relay[r]
           A == [s EXCEPT !.pc = "post", !.marked = TRUE]
           B == Ended(s, "gone")
<1>1. Goto(r, B) \/ (Goto(r, A) /\ s.mode = "raw" /\ Streams(s))
  BY Zenon DEF Vanish, Streams
<1>2. s \in RelayState /\ s.pc # "record" /\ UNCHANGED <<history, deletion>>
  BY DEF TypeInv, Vanish
<1> HIDE DEF s
<1>3. A \in RelayState /\ Moves(s, A, "post")
  BY <1>2 DEF RelayState, Moves, SameStream, SameRounds, SameWire, PcSet
<1>4. B \in RelayState /\ Leaves(s, B, "gone")
  BY <1>2, EndedLeaves DEF PcSet
<1> HIDE DEF A, B
<1>5. CASE Goto(r, B)
  <2>1. Steps(r, s, B)
    BY <1>4, <1>5, GotoSteps DEF s
  <2> QED  BY <1>2, <1>4, <2>1 DEF Steps, s
<1>6. CASE Goto(r, A) /\ s.mode = "raw" /\ Streams(s)
  <2>1. Steps(r, s, A)
    BY <1>3, <1>6, GotoSteps DEF s
  <2> QED  BY <1>2, <1>3, <1>6, <2>1 DEF Steps, s
<1> QED  BY <1>1, <1>5, <1>6

-----------------------------------------------------------------------------
(* What a step does to a handler's state.                                    *)

Opens(s, t) == s.pc = "idle" /\ \E mode \in {"paging", "raw", "json"} : Arrives(t, mode)
Streaming1(s) == s.pc = "stream" /\ s.stop = None /\ s.mode # "json"
TakesBlock(s, t) ==
  /\ Streaming1(s)
  /\ \E b \in Block :
       /\ b.kind \in NextKinds(s.sent) /\ b.loop = 0
       /\ \/ (s.mode = "paging" => b.kind # "vc") /\ Forwards(s, t, b)
          \/ s.mode = "paging" /\ b.kind = "vc" /\ Suppresses(s, t, b)
TakesDelta(s, t) ==
  Streaming1(s) /\ \E stop \in Stops(s.sent) : stop \in StopReason /\ Deltas(s, t, stop)
TakesStop(s, t) ==
  /\ s.pc = "stream" /\ s.stop # None /\ s.mode # "json"
  /\ t.pc = "closed" /\ t.mode = s.mode /\ SameStream(s, t) /\ SameRounds(s, t)
  /\ t.texts = s.texts /\ t.forwarded = s.forwarded
  /\ t.wire = IF s.need THEN s.wire ELSE Append(s.wire, MessageStop)
BreaksOff(s, t) == s.pc = "stream" /\ s.mode # "json" /\ Moves(s, t, "closed")
Turns(s, t) ==
  s.pc = "closed" /\ Moves(s, t, IF s.need /\ s.vcTools # <<>> THEN "tools" ELSE "post")
Calling(s, t) == s.pc = "tools" /\ Asks(s, t)
Reading(s, t) ==
  /\ s.pc = "asking" /\ s.loop + 1 <= MaxLoops
  /\ \E m \in [blocks : Seq(Block), stop : StopReason] :
       Len(m.blocks) <= MaxBlocks /\ Later(m.blocks) /\ Reads(s, t, m)
Refused(s, t) == s.pc = "asking" /\ Moves(s, t, "closing")
Closes(s, t) ==
  /\ s.pc = "closing"
  /\ t.pc = "post" /\ t.mode = s.mode /\ SameStream(s, t) /\ SameRounds(s, t)
  /\ t.texts = s.texts /\ t.forwarded = s.forwarded
  /\ \E stop \in StopReason :
       /\ stop = "tool_use" => s.last.stop = "tool_use" /\ Has("own", s.last.blocks)
       /\ t.wire = s.wire \o <<MessageDelta(stop), MessageStop>>
AnswersWhole(s, t) ==
  /\ s.pc = "stream" /\ s.mode = "json"
  /\ \E m \in [blocks : Seq(Block), stop : StopReason] : Answers(s, t, m)
MovesOn(s, t) ==
  \/ s.pc = "post" /\ s.texts # <<>> /\ Moves(s, t, "record")
  \/ s.pc = "record" /\ Moves(s, t, "mark")
Marks(s, t) ==
  /\ s.pc = "mark" /\ t.pc = "done" /\ t.mode = s.mode /\ t.texts = s.texts
  /\ t.wire = Append(s.wire, Marker)
  /\ SameStream(Idle, t) /\ SameRounds(Idle, t) /\ t.forwarded = 0
Ends(s, t) == \E pc \in {"done", "gone", "broken"} : Leaves(s, t, pc)
CutOff(s, t) == s.mode = "raw" /\ Streams(s) /\ Moves(s, t, "post")

Effect(s, t) ==
  \/ Opens(s, t) \/ TakesBlock(s, t) \/ TakesDelta(s, t) \/ TakesStop(s, t) \/ BreaksOff(s, t)
  \/ Turns(s, t) \/ Calling(s, t) \/ Reading(s, t) \/ Refused(s, t) \/ Closes(s, t)
  \/ AnswersWhole(s, t) \/ MovesOn(s, t) \/ Marks(s, t) \/ Ends(s, t) \/ CutOff(s, t)

\* Every step is one of these for at most one request: from here on, the
\* proofs look at a handler's state s and the next one, t, alone.
LEMMA RelaySteps ==
  ASSUME TypeInv, [Next]_vars
  PROVE  \/ relay' = relay
         \/ \E r \in Request : Steps(r, relay[r], relay'[r]) /\ Effect(relay[r], relay'[r])
<1>1. ASSUME NEW r \in Request, NEW mode \in {"paging", "raw", "json"}, NEW asked \in BOOLEAN,
             NEW marked \in BOOLEAN, Arrive(r, mode, asked, marked)
      PROVE  Steps(r, relay[r], relay'[r]) /\ Effect(relay[r], relay'[r])
  BY <1>1, ArriveSteps DEF Effect, Opens
<1>2. ASSUME NEW r \in Request, StreamBlock(r)
      PROVE  Steps(r, relay[r], relay'[r]) /\ Effect(relay[r], relay'[r])
  BY <1>2, StreamBlockSteps, Zenon DEF Effect, TakesBlock, Streaming1
<1>3. ASSUME NEW r \in Request, StreamDelta(r)
      PROVE  Steps(r, relay[r], relay'[r]) /\ Effect(relay[r], relay'[r])
  BY <1>3, StreamDeltaSteps, Zenon DEF Effect, TakesDelta, Streaming1
<1>4. ASSUME NEW r \in Request, StreamStop(r)
      PROVE  Steps(r, relay[r], relay'[r]) /\ Effect(relay[r], relay'[r])
  BY <1>4, StreamStopSteps, Zenon DEF Effect, TakesStop
<1>5. ASSUME NEW r \in Request, StreamBreaks(r)
      PROVE  Steps(r, relay[r], relay'[r]) /\ Effect(relay[r], relay'[r])
  BY <1>5, StreamBreaksSteps, Zenon DEF Effect, BreaksOff
<1>6. ASSUME NEW r \in Request, StreamClosed(r)
      PROVE  Steps(r, relay[r], relay'[r]) /\ Effect(relay[r], relay'[r])
  BY <1>6, StreamClosedSteps, Zenon DEF Effect, Turns
<1>7. ASSUME NEW r \in Request, Tools(r)
      PROVE  Steps(r, relay[r], relay'[r]) /\ Effect(relay[r], relay'[r])
  BY <1>7, ToolsSteps, Zenon DEF Effect, Calling
<1>8. ASSUME NEW r \in Request, Continue(r)
      PROVE  Steps(r, relay[r], relay'[r]) /\ Effect(relay[r], relay'[r])
  BY <1>8, ContinueSteps, Zenon DEF Effect, Reading
<1>9. ASSUME NEW r \in Request, RefuseContinuation(r)
      PROVE  Steps(r, relay[r], relay'[r]) /\ Effect(relay[r], relay'[r])
  BY <1>9, RefuseSteps, Zenon DEF Effect, Refused
<1>10. ASSUME NEW r \in Request, FailContinuation(r)
       PROVE  Steps(r, relay[r], relay'[r]) /\ Effect(relay[r], relay'[r])
  BY <1>10, FailSteps DEF Effect, Ends
<1>11. ASSUME NEW r \in Request, Close(r)
       PROVE  Steps(r, relay[r], relay'[r]) /\ Effect(relay[r], relay'[r])
  BY <1>11, CloseSteps, Zenon DEF Effect, Closes
<1>12. ASSUME NEW r \in Request, Answer(r)
       PROVE  Steps(r, relay[r], relay'[r]) /\ Effect(relay[r], relay'[r])
  BY <1>12, AnswerSteps DEF Effect, AnswersWhole, Ends
<1>13. ASSUME NEW r \in Request, Post(r)
       PROVE  Steps(r, relay[r], relay'[r]) /\ Effect(relay[r], relay'[r])
  BY <1>13, PostSteps DEF Effect, MovesOn, Ends
<1>14. ASSUME NEW r \in Request, Record(r)
       PROVE  Steps(r, relay[r], relay'[r]) /\ Effect(relay[r], relay'[r])
  BY <1>14, RecordSteps DEF Effect, MovesOn, Ends
<1>15. ASSUME NEW r \in Request, Mark(r)
       PROVE  Steps(r, relay[r], relay'[r]) /\ Effect(relay[r], relay'[r])
  BY <1>15, MarkSteps, Zenon DEF Effect, Marks
<1>16. ASSUME NEW r \in Request, Vanish(r)
       PROVE  Steps(r, relay[r], relay'[r]) /\ Effect(relay[r], relay'[r])
  BY <1>16, VanishSteps DEF Effect, Ends, CutOff
<1>17. ASSUME MarkDeleted \/ ClearHistory \/ UNCHANGED vars PROVE relay' = relay
  BY <1>17 DEF MarkDeleted, ClearHistory, vars
<1> QED
  BY <1>1, <1>2, <1>3, <1>4, <1>5, <1>6, <1>7, <1>8, <1>9, <1>10, <1>11, <1>12, <1>13, <1>14,
     <1>15, <1>16, <1>17, Zenon DEF Next, Handle

-----------------------------------------------------------------------------
(* Type correctness.                                                         *)

\* Each round may show the blocks of one more message.
LEMMA RoomGrows ==
  Room(0) = MaxBlocks
  /\ \A n \in Nat : Room(n) \in Nat /\ Room(n) + MaxBlocks = Room(n + 1) /\ MaxBlocks <= Room(n)
<1>1. ASSUME NEW n \in Nat
      PROVE  /\ n * MaxBlocks \in Nat /\ (n + 1) * MaxBlocks = n * MaxBlocks + MaxBlocks
             /\ 0 * MaxBlocks = 0
  BY RelayAssumption
<1> QED  BY <1>1, RelayAssumption DEF Room

\* The counters are numbers.
LEMMA CountersTyped ==
  ASSUME NEW s \in RelayState
  PROVE  /\ s.loop \in Nat /\ s.loop <= MaxLoops /\ s.forwarded \in Nat /\ Len(s.sent) \in Nat
         /\ s.sent \in Seq(Block) /\ s.need \in BOOLEAN /\ MaxBlocks \in Nat /\ MaxLoops \in Nat
<1>1. s.loop \in 0..MaxLoops /\ s.sent \in Seq(Block) /\ s.forwarded \in Nat /\ s.need \in BOOLEAN
  BY DEF RelayState
<1> QED  BY <1>1, RelayAssumption

\* A step keeps the counters of its request within their bounds.
LEMMA BoundedStep ==
  ASSUME NEW s \in RelayState, NEW t \in RelayState, Bounded(s), Effect(s, t)
  PROVE  Bounded(t)
<1>1. /\ s.loop \in Nat /\ s.forwarded \in Nat /\ Len(s.sent) \in Nat /\ s.sent \in Seq(Block)
      /\ MaxBlocks \in Nat /\ MaxLoops \in Nat
      /\ t.loop \in Nat /\ t.forwarded \in Nat /\ Len(t.sent) \in Nat
      /\ Room(0) = MaxBlocks /\ Room(s.loop) \in Nat
      /\ Room(s.loop) + MaxBlocks = Room(s.loop + 1)
  BY CountersTyped, RoomGrows
<1>3. ASSUME SameStream(Idle, t), SameRounds(Idle, t), t.forwarded = 0,
             t.pc \in {"stream", "done", "gone", "broken"}, t.mode # None \/ t.pc # "stream",
             t.pc = "stream" => t.wire = <<>>
      PROVE  Bounded(t)
  <2>1. t.sent = <<>> /\ t.loop = 0 /\ t.stop = None /\ t.need = FALSE /\ Len(t.sent) = 0
    BY <1>3 DEF SameStream, SameRounds, Idle
  <2> QED  BY <1>1, <1>3, <2>1 DEF Bounded, Streams, Continues
<1>4. CASE Opens(s, t)
  BY <1>3, <1>4, RelayAssumption DEF Opens, Arrives, SameWire, Idle
<1>5. CASE Ends(s, t)
  BY <1>3, <1>5 DEF Ends, Leaves
<1>6. CASE Marks(s, t)
  BY <1>3, <1>6 DEF Marks
<1>7. CASE TakesBlock(s, t)
  <2>1. PICK b \in Block : b.kind \in NextKinds(s.sent) /\ (Forwards(s, t, b) \/ Suppresses(s, t, b))
    BY <1>7 DEF TakesBlock
  <2>2. Len(s.sent) # MaxBlocks
    BY <2>1 DEF NextKinds
  <2>3. Len(Append(s.sent, b)) = Len(s.sent) + 1
    BY <1>1
  <2>4. t.sent = Append(s.sent, b) /\ t.pc = s.pc /\ t.mode = s.mode /\ t.loop = s.loop
        /\ t.stop = s.stop /\ t.need = s.need /\ t.forwarded <= s.forwarded + 1
        /\ s.pc = "stream" /\ s.mode # "json"
    BY <1>1, <1>7, <2>1 DEF TakesBlock, Streaming1, Forwards, Suppresses, SameRounds, SameWire
  <2> QED  BY <1>1, <2>2, <2>3, <2>4 DEF Bounded, Streams, Continues
<1>8. CASE TakesDelta(s, t)
  <2>1. t.sent = s.sent /\ t.pc = s.pc /\ t.mode = s.mode /\ t.loop = s.loop
        /\ t.stop # None /\ t.forwarded = s.forwarded
        /\ s.pc = "stream" /\ s.mode # "json"
    BY <1>8, RelayAssumption DEF TakesDelta, Streaming1, Deltas, SameRounds, StopReason
  <2> QED  BY <1>1, <2>1 DEF Bounded, Streams, Continues
<1>9. CASE Reading(s, t)
  <2>1. PICK m \in [blocks : Seq(Block), stop : StopReason] :
          Len(m.blocks) <= MaxBlocks /\ Later(m.blocks) /\ Reads(s, t, m)
    BY <1>9 DEF Reading
  <2>2. Len(Shown(m)) <= MaxBlocks /\ Len(Shown(m)) \in Nat
    <3>1. Shown(m) \in Seq(Block) /\ Len(Shown(m)) <= Len(m.blocks) /\ m.blocks \in Seq(Block)
      BY ShownTyped
    <3> QED  BY <1>1, <2>1, <3>1
  <2>3. /\ t.pc \in {"tools", "closing"} /\ t.mode = s.mode /\ t.loop = s.loop + 1
        /\ t.sent = s.sent /\ t.stop = s.stop /\ t.need = s.need
        /\ t.forwarded = s.forwarded + Len(Shown(m))
        /\ (t.pc = "tools" => s.loop + 1 # MaxLoops) /\ s.pc = "asking"
        /\ s.loop + 1 <= MaxLoops
    BY <1>9, <2>1 DEF Reads, Reading
  <2> QED  BY <1>1, <2>2, <2>3 DEF Bounded, Streams, Continues
<1>10. ASSUME NEW pc, Moves(s, t, pc), s.pc # "idle", pc # "idle",
              pc \in {"tools", "asking"} => s.loop < MaxLoops,
              Streams(t) => Streams(s), Streams(s) \/ Continues(s) \/ ~ Continues(t),
              s.mode # "json" \/ ~ Streams(t)
       PROVE  Bounded(t)
  BY <1>1, <1>10 DEF Moves, SameStream, SameRounds, SameWire, Bounded, Streams, Continues
<1>11. CASE BreaksOff(s, t) \/ Turns(s, t) \/ Refused(s, t) \/ MovesOn(s, t) \/ CutOff(s, t)
  <2>0. \A pc : Moves(s, t, pc) => t.pc = pc
    BY DEF Moves
  <2>1. CASE BreaksOff(s, t)
    BY <1>10, <2>0, <2>1 DEF BreaksOff, Streams, Continues
  <2>2. CASE Turns(s, t)
    <3>1. s.pc = "closed" /\ s.loop = 0 /\ 0 < MaxLoops
      BY <1>1, <2>2, RelayAssumption DEF Turns, Bounded, Streams
    <3>2. CASE Moves(s, t, "tools")
      BY <1>10, <2>0, <3>1, <3>2 DEF Streams, Continues
    <3>3. CASE Moves(s, t, "post")
      BY <1>10, <2>0, <3>1, <3>3 DEF Streams, Continues
    <3> QED  BY <2>2, <3>2, <3>3 DEF Turns
  <2>3. CASE Refused(s, t)
    BY <1>10, <2>0, <2>3 DEF Refused, Streams, Continues
  <2>4. CASE MovesOn(s, t)
    BY <1>10, <2>0, <2>4 DEF MovesOn, Streams, Continues
  <2>5. CASE CutOff(s, t)
    BY <1>10, <2>0, <2>5 DEF CutOff, Streams, Continues
  <2> QED  BY <1>11, <2>1, <2>2, <2>3, <2>4, <2>5
<1>12. CASE TakesStop(s, t)
  BY <1>1, <1>12 DEF TakesStop, SameStream, SameRounds, Bounded, Streams, Continues
<1>13. CASE Calling(s, t)
  BY <1>1, <1>13 DEF Calling, Asks, SameStream, SameWire, Bounded, Streams, Continues
<1>14. CASE Closes(s, t)
  BY <1>1, <1>14 DEF Closes, SameStream, SameRounds, Bounded, Streams, Continues
<1>15. CASE AnswersWhole(s, t)
  BY <1>1, <1>15 DEF AnswersWhole, Answers, SameStream, SameRounds, Bounded, Streams, Continues
<1> QED  BY <1>4, <1>5, <1>6, <1>7, <1>8, <1>9, <1>11, <1>12, <1>13, <1>14, <1>15 DEF Effect

\* And those of all requests.
LEMMA BoundedSteps ==
  ASSUME TypeInv, [Next]_vars
  PROVE  relay' \in [Request -> RelayState] /\ \A r \in Request : Bounded(relay'[r])
<1>1. CASE relay' = relay
  BY <1>1 DEF TypeInv
<1>2. CASE \E r \in Request : Steps(r, relay[r], relay'[r]) /\ Effect(relay[r], relay'[r])
  <2>1. PICK r \in Request : Steps(r, relay[r], relay'[r]) /\ Effect(relay[r], relay'[r])
    BY <1>2
  <2>2. Bounded(relay'[r])
    BY <2>1, BoundedStep DEF TypeInv, Steps
  <2>3. \A q \in Request : q # r => Bounded(relay'[q])
    BY <2>1 DEF TypeInv, Steps
  <2> QED  BY <2>1, <2>2, <2>3 DEF Steps
<1> QED  BY <1>1, <1>2, RelaySteps

\* Where no answer can have been recorded yet.
Early(s) ==
  s.pc \in {"idle", "stream", "closed", "tools", "asking", "closing", "post", "record"}

\* A step that records no answer.
Quiet(s, t) ==
  /\ s.pc # "record" /\ t.pc # "mark"
  /\ Early(t) => Early(s)
  /\ Early(s) \/ t.texts = s.texts
  /\ t.pc = "done" => t.texts = <<>> \/ deletion # "none" \/ s.pc = "mark"

Question(r) == [role |-> "user", by |-> r, texts |-> <<>>]
AnswerOf(r) == [role |-> "assistant", by |-> r, texts |-> relay[r].texts]

\* What a step does to the shared history, and with which request.
LEMMA HistorySteps ==
  ASSUME TypeInv, [Next]_vars
  PROVE  \/ relay' = relay /\ history' = history
            /\ (deletion' = deletion \/ (deletion = "none" /\ deletion' = "marked"))
         \/ relay' = relay /\ history' = <<>> /\ deletion' = "cleared"
         \/ \E r \in Request :
              /\ Steps(r, relay[r], relay'[r]) /\ deletion' = deletion
              /\ \/ /\ history' = history \/ history' = Append(history, Question(r))
                    /\ Quiet(relay[r], relay'[r])
                 \/ /\ history' = Append(history, AnswerOf(r)) /\ relay[r].pc = "record"
                    /\ relay'[r].texts = relay[r].texts /\ relay'[r].pc \in {"mark", "done"}
<1> DEFINE Does(r) == 
              /\ Steps(r, relay[r], relay'[r]) /\ deletion' = deletion
              /\ \/ /\ history' = history \/ history' = Append(history, Question(r))
                    /\ Quiet(relay[r], relay'[r])
                 \/ /\ history' = Append(history, AnswerOf(r)) /\ relay[r].pc = "record"
                    /\ relay'[r].texts = relay[r].texts /\ relay'[r].pc \in {"mark", "done"}
<1>1. ASSUME NEW r \in Request, NEW mode \in {"paging", "raw", "json"}, NEW asked \in BOOLEAN,
             NEW marked \in BOOLEAN, Arrive(r, mode, asked, marked)
      PROVE  Does(r)
  BY <1>1, ArriveSteps DEF Question, Quiet, Early, Arrives, SameWire, Idle
<1>2. ASSUME NEW r \in Request, StreamBlock(r)
      PROVE  Does(r)
  BY <1>2, StreamBlockSteps DEF Quiet, Early, Forwards, Suppresses
<1>3. ASSUME NEW r \in Request, StreamDelta(r)
      PROVE  Does(r)
  BY <1>3, StreamDeltaSteps DEF Quiet, Early, Deltas
<1>4. ASSUME NEW r \in Request, StreamStop(r)
      PROVE  Does(r)
  BY <1>4, StreamStopSteps DEF Quiet, Early
<1>5. ASSUME NEW r \in Request, StreamBreaks(r)
      PROVE  Does(r)
  BY <1>5, StreamBreaksSteps DEF Quiet, Early, Moves
<1>6. ASSUME NEW r \in Request, StreamClosed(r)
      PROVE  Does(r)
  BY <1>6, StreamClosedSteps DEF Quiet, Early, Moves
<1>7. ASSUME NEW r \in Request, Tools(r)
      PROVE  Does(r)
  BY <1>7, ToolsSteps DEF Quiet, Early, Asks
<1>8. ASSUME NEW r \in Request, Continue(r)
      PROVE  Does(r)
  BY <1>8, ContinueSteps DEF Quiet, Early, Reads
<1>9. ASSUME NEW r \in Request, RefuseContinuation(r)
      PROVE  Does(r)
  BY <1>9, RefuseSteps DEF Quiet, Early, Moves
<1>10. ASSUME NEW r \in Request, FailContinuation(r)
       PROVE  Does(r)
  BY <1>10, FailSteps DEF Quiet, Early, Leaves
<1>11. ASSUME NEW r \in Request, Close(r)
       PROVE  Does(r)
  BY <1>11, CloseSteps DEF Quiet, Early
<1>12. ASSUME NEW r \in Request, Answer(r)
       PROVE  Does(r)
  BY <1>12, AnswerSteps DEF Quiet, Early, Answers, Leaves
<1>13. ASSUME NEW r \in Request, Post(r)
       PROVE  Does(r)
  BY <1>13, PostSteps DEF Quiet, Early, Moves, Leaves, SameWire
<1>14. ASSUME NEW r \in Request, Record(r)
       PROVE  Does(r)
  BY <1>14, RecordSteps DEF AnswerOf, Moves, Leaves, SameWire
<1>15. ASSUME NEW r \in Request, Mark(r)
       PROVE  Does(r)
  BY <1>15, MarkSteps DEF Quiet, Early
<1>16. ASSUME NEW r \in Request, Vanish(r)
       PROVE  Does(r)
  BY <1>16, VanishSteps DEF Quiet, Early, Moves, Leaves, Streams, SameWire
<1>17. CASE MarkDeleted
  BY <1>17 DEF MarkDeleted
<1>18. CASE ClearHistory
  BY <1>18 DEF ClearHistory
<1>19. CASE UNCHANGED vars
  BY <1>19 DEF vars
<1> HIDE DEF Does
<1>20. (\E r \in Request : Does(r)) \/ MarkDeleted \/ ClearHistory \/ UNCHANGED vars
  BY <1>1, <1>2, <1>3, <1>4, <1>5, <1>6, <1>7, <1>8, <1>9, <1>10, <1>11, <1>12, <1>13, <1>14,
     <1>15, <1>16, Zenon DEF Next, Handle
<1> QED  BY <1>17, <1>18, <1>19, <1>20 DEF Does

\* Questions and answers are entries.
LEMMA EntriesTyped ==
  ASSUME TypeInv, NEW r \in Request
  PROVE  Question(r) \in Entry /\ AnswerOf(r) \in Entry
<1>1. <<>> \in Seq(Block) /\ relay[r].texts \in Seq(Block)
  BY EmptySeq DEF TypeInv, RelayState
<1> QED  BY <1>1 DEF Question, AnswerOf, Entry

\* The typing is inductive.
LEMMA TypeStep == TypeInv /\ [Next]_vars => TypeInv'
<1> SUFFICES ASSUME TypeInv, [Next]_vars PROVE TypeInv'
  OBVIOUS
<1>1. relay' \in [Request -> RelayState] /\ \A r \in Request : Bounded(relay'[r])
  BY BoundedSteps
<1>2. history \in Seq(Entry) /\ deletion \in {"none", "marked", "cleared"}
  BY DEF TypeInv
<1>3. history' \in Seq(Entry) /\ deletion' \in {"none", "marked", "cleared"}
  <2>1. \A e \in Entry : Append(history, e) \in Seq(Entry)
    BY <1>2
  <2>2. /\ \/ history' = history \/ history' = <<>>
           \/ \E r \in Request : history' \in {Append(history, Question(r)),
                                              Append(history, AnswerOf(r))}
        /\ deletion' = deletion \/ deletion' \in {"marked", "cleared"}
    BY HistorySteps
  <2>3. <<>> \in Seq(Entry)
    BY EmptySeq
  <2> QED  BY <1>2, <2>1, <2>2, <2>3, EntriesTyped
<1> QED  BY <1>1, <1>3 DEF TypeInv

\* It holds at the start.
LEMMA TypeInit == Init => TypeInv
<1> SUFFICES ASSUME Init PROVE TypeInv
  OBVIOUS
<1>1. relay \in [Request -> RelayState] /\ \A r \in Request : relay[r] = Idle
  BY IdleTyped DEF Init
<1>2. Bounded(Idle)
  <2>1. /\ Idle.sent = <<>> /\ Idle.loop = 0 /\ Idle.forwarded = 0 /\ Idle.pc = "idle"
        /\ Idle.need = FALSE /\ Idle.mode = None
    BY DEF Idle
  <2>2. Len(Idle.sent) = 0 /\ MaxBlocks \in Nat /\ Room(0) = MaxBlocks
    BY <2>1, RoomGrows, RelayAssumption
  <2> QED  BY <2>1, <2>2 DEF Bounded, Streams, Continues
<1>3. history \in Seq(Entry) /\ deletion \in {"none", "marked", "cleared"}
  BY DEF Init
<1> QED  BY <1>1, <1>2, <1>3 DEF TypeInv

\* It holds always.
LEMMA TypeAlways == Spec => []TypeInv
<1>1. TypeInv /\ [Next]_vars => TypeInv'
  BY TypeStep
<1> QED  BY <1>1, TypeInit, PTL DEF Spec

\* No handler counts more blocks than its rounds allow.
LEMMA RoomBounded ==
  ASSUME NEW n \in 0..MaxLoops
  PROVE  Room(n) <= (MaxLoops + 1) * MaxBlocks
<1>1. MaxBlocks \in Nat /\ MaxLoops \in Nat
  BY RelayAssumption
<1>2. (MaxLoops + 1) * MaxBlocks = MaxLoops * MaxBlocks + MaxBlocks
  BY <1>1
<1>3. n * MaxBlocks <= MaxLoops * MaxBlocks
  <2>1. n \in Nat /\ MaxLoops - n \in Nat
    BY <1>1
  <2>2. PICK d \in Nat : MaxLoops = n + d
    BY <1>1, <2>1
  <2>3. MaxLoops * MaxBlocks = n * MaxBlocks + d * MaxBlocks
    BY <1>1, <2>1, <2>2
  <2>4. d * MaxBlocks \in Nat /\ n * MaxBlocks \in Nat
    BY <1>1, <2>1, <2>2
  <2> QED  BY <2>3, <2>4
<1> QED  BY <1>1, <1>2, <1>3 DEF Room

\* Every handler keeps its types, and forwarded_block_count its bound
\* (handlers.py:858, _MAX_CONTINUATION_LOOPS).
THEOREM TypeCorrect == Spec => []TypeOK
<1>1. TypeInv => TypeOK
  <2> SUFFICES ASSUME TypeInv PROVE TypeOK
    OBVIOUS
  <2>1. ASSUME NEW r \in Request
        PROVE  LET s == relay[r] IN
               /\ s.pc \in PcSet /\ s.mode \in {None, "paging", "raw", "json"}
               /\ s.sent \in Seq(Block) /\ Len(s.sent) <= MaxBlocks
               /\ s.stop \in StopReason \cup {None}
               /\ s.vcTools \in Seq(Block) /\ s.blocks \in Seq(Block) /\ s.texts \in Seq(Block)
               /\ s.loop \in 0..MaxLoops
               /\ s.last \in [blocks : Seq(Block), stop : StopReason]
               /\ s.forwarded \in Nat /\ s.forwarded <= Room(s.loop)
    BY DEF TypeInv, RelayState, Bounded
  <2>2. ASSUME NEW r \in Request
        PROVE  relay[r].forwarded \in 0..(MaxLoops + 1) * MaxBlocks
    <3>1. Room(relay[r].loop) <= (MaxLoops + 1) * MaxBlocks
      BY <2>1, RoomBounded
    <3>2. Room(relay[r].loop) \in Nat
      <4>1. relay[r].loop \in Nat
        BY <2>1, RelayAssumption
      <4> QED  BY <4>1, RoomGrows, Zenon
    <3>3. (MaxLoops + 1) * MaxBlocks \in Nat
      BY RelayAssumption
    <3> QED  BY <2>1, <3>1, <3>2, <3>3
  <2>3. history \in Seq(Entry) /\ deletion \in {"none", "marked", "cleared"}
    BY DEF TypeInv
  <2> QED  BY <2>1, <2>2, <2>3 DEF TypeOK, PcSet, Entry
<1> QED  BY <1>1, TypeAlways, PTL

-----------------------------------------------------------------------------
(* The order of the events.                                                  *)

\* What Append does, for the proofs that treat it as a name.
LEMMA Appended ==
  ASSUME NEW T, NEW w \in Seq(T), NEW e
  PROVE  /\ Len(w) \in Nat /\ Len(Append(w, e)) = Len(w) + 1
         /\ Append(w, e)[Len(w) + 1] = e
         /\ \A i \in 1..Len(w) : Append(w, e)[i] = w[i]
  OBVIOUS

\* The same of a concatenation.
LEMMA Concatenated ==
  ASSUME NEW T, NEW v \in Seq(T), NEW w \in Seq(T)
  PROVE  /\ v \o w \in Seq(T)
         /\ Len(v) \in Nat /\ Len(w) \in Nat /\ Len(v \o w) = Len(v) + Len(w)
         /\ \A i \in 1..Len(v) : (v \o w)[i] = v[i]
         /\ \A i \in 1..Len(w) : (v \o w)[Len(v) + i] = w[i]
         /\ \A i \in 1..Len(v \o w) : i \in 1..Len(v) \/ i - Len(v) \in 1..Len(w)
  OBVIOUS

\* What the kinds of events are.
LEMMA EventKinds ==
  /\ \A e \in BlockEvent : e.ev = "block"
  /\ \A b, i : Piece(b, i).ev = "block" /\ Piece(b, i).block = b /\ Piece(b, i).index = i
  /\ \A stop : MessageDelta(stop).ev = "delta" /\ MessageDelta(stop).stop = stop
  /\ MessageStop.ev = "stop" /\ Marker.ev = "marker"
  BY DEF BlockEvent, Piece, MessageDelta, MessageStop, Marker

\* What was held back is blocks alone.
LEMMA BlockEventsOnly ==
  ASSUME NEW w \in Seq(BlockEvent)
  PROVE  BlocksOnly(w)
<1>1. \A i \in 1..Len(w) : w[i] \in BlockEvent
  OBVIOUS
<1> QED  BY <1>1, EventKinds DEF BlocksOnly

\* One more block, and still only blocks.
LEMMA BlocksAppend ==
  ASSUME NEW w \in Seq(Event), BlocksOnly(w), NEW e, e.ev = "block"
  PROVE  BlocksOnly(Append(w, e))
<1> DEFINE x == Append(w, e)
<1>1. /\ Len(w) \in Nat /\ Len(x) = Len(w) + 1 /\ x[Len(w) + 1] = e
      /\ \A i \in 1..Len(w) : x[i] = w[i]
  BY Appended
<1> HIDE DEF x
<1> QED  BY <1>1 DEF BlocksOnly, x

\* Blocks after blocks.
LEMMA BlocksConcat ==
  ASSUME NEW v \in Seq(Event), NEW w \in Seq(Event), BlocksOnly(v), BlocksOnly(w)
  PROVE  BlocksOnly(v \o w)
<1> DEFINE x == v \o w
<1>1. /\ Len(v) \in Nat /\ Len(w) \in Nat /\ Len(x) = Len(v) + Len(w)
      /\ \A i \in 1..Len(v) : x[i] = v[i]
      /\ \A i \in 1..Len(w) : x[Len(v) + i] = w[i]
      /\ \A i \in 1..Len(x) : i \in 1..Len(v) \/ i - Len(v) \in 1..Len(w)
  BY Concatenated
<1> HIDE DEF x
<1>2. ASSUME NEW i \in 1..Len(x) PROVE x[i].ev = "block"
  <2>1. CASE i \in 1..Len(v)
    BY <1>1, <2>1 DEF BlocksOnly
  <2>2. CASE i - Len(v) \in 1..Len(w)
    <3>1. x[i] = w[i - Len(v)]
      BY <1>1, <2>2
    <3> QED  BY <2>2, <3>1 DEF BlocksOnly
  <2> QED  BY <1>1, <2>1, <2>2
<1> QED  BY <1>2 DEF BlocksOnly, x

\* Blocks may come in any order.
LEMMA BlocksOrdered ==
  ASSUME NEW w, BlocksOnly(w)
  PROVE  Ordered(w)
  BY DEF BlocksOnly, Ordered

\* An event that may follow all others.
LEMMA OrderedAppend ==
  ASSUME NEW w \in Seq(Event), Ordered(w), NEW e,
         \A i \in 1..Len(w) : /\ w[i].ev = "delta" => e.ev \in {"stop", "marker"}
                              /\ w[i].ev = "stop" => e.ev = "marker"
  PROVE  Ordered(Append(w, e))
<1> DEFINE x == Append(w, e)
<1>1. /\ Len(w) \in Nat /\ Len(x) = Len(w) + 1 /\ x[Len(w) + 1] = e
      /\ \A i \in 1..Len(w) : x[i] = w[i]
  BY Appended
<1> HIDE DEF x
<1>2. ASSUME NEW i \in 1..Len(x), NEW j \in 1..Len(x), i < j
      PROVE  /\ x[i].ev = "delta" => x[j].ev \in {"stop", "marker"}
             /\ x[i].ev = "stop" => x[j].ev = "marker"
  <2>1. i \in 1..Len(w)
    BY <1>1, <1>2
  <2>2. CASE j = Len(w) + 1
    BY <1>1, <2>1, <2>2
  <2>3. CASE j \in 1..Len(w)
    BY <1>1, <1>2, <2>1, <2>3 DEF Ordered
  <2> QED  BY <1>1, <2>2, <2>3
<1> QED  BY <1>2 DEF Ordered, x

\* The events of a message before its end.
Unstopped(w) == \A i \in 1..Len(w) : w[i].ev \in {"block", "delta"}

\* The message_delta, after blocks.
LEMMA DeltaOrdered ==
  ASSUME NEW w \in Seq(Event), BlocksOnly(w), NEW stop
  PROVE  /\ Ordered(Append(w, MessageDelta(stop))) /\ Unstopped(Append(w, MessageDelta(stop)))
<1> DEFINE d == MessageDelta(stop)
           x == Append(w, d)
<1>1. d.ev = "delta"
  BY EventKinds
<1>2. /\ Len(w) \in Nat /\ Len(x) = Len(w) + 1 /\ x[Len(w) + 1] = d
      /\ \A i \in 1..Len(w) : x[i] = w[i]
  BY Appended
<1> HIDE DEF d
<1>3. Ordered(w) /\ \A i \in 1..Len(w) : w[i].ev = "block"
  BY BlocksOrdered DEF BlocksOnly
<1>4. Ordered(Append(w, d))
  BY <1>3, OrderedAppend
<1> HIDE DEF x
<1>5. Unstopped(x)
  BY <1>1, <1>2, <1>3 DEF Unstopped
<1> QED  BY <1>4, <1>5 DEF x, d

\* The message_stop, after a message that has not stopped.
LEMMA StopOrdered ==
  ASSUME NEW w \in Seq(Event), Ordered(w), Unstopped(w)
  PROVE  /\ Ordered(Append(w, MessageStop)) /\ StopsIn(Append(w, MessageStop))
<1> DEFINE x == Append(w, MessageStop)
<1>1. MessageStop.ev = "stop"
  BY EventKinds
<1>2. Len(w) \in Nat /\ Len(x) = Len(w) + 1 /\ x[Len(w) + 1] = MessageStop
  BY Appended
<1>3. \A i \in 1..Len(w) : w[i].ev # "stop"
  BY DEF Unstopped
<1>4. Ordered(Append(w, MessageStop))
  BY <1>1, <1>3, OrderedAppend
<1> HIDE DEF x
<1>5. StopsIn(x)
  BY <1>1, <1>2 DEF StopsIn
<1> QED  BY <1>4, <1>5 DEF x

\* The marker may follow everything.
LEMMA MarkerOrdered ==
  ASSUME NEW w \in Seq(Event), Ordered(w)
  PROVE  Ordered(Append(w, Marker))
  BY EventKinds, OrderedAppend

\* The fields of a handler's state.
LEMMA FieldsTyped ==
  ASSUME NEW s \in RelayState
  PROVE  /\ s.wire \in Seq(Event) /\ s.suppressed \in Seq(BlockEvent)
         /\ s.suppressed \in Seq(Event) /\ s.sent \in Seq(Block) /\ s.vcTools \in Seq(Block)
         /\ s.blocks \in Seq(Block) /\ s.texts \in Seq(Block) /\ s.body \in Body
         /\ s.last \in [blocks : Seq(Block), stop : StopReason]
         /\ s.forwarded \in Nat /\ s.need \in BOOLEAN /\ s.loop \in Nat
         /\ s.pc \in PcSet /\ s.mode \in {None, "paging", "raw", "json"}
         /\ s.stop \in StopReason \cup {None}
<1>1. s.wire \in Seq(Event) /\ s.suppressed \in Seq(BlockEvent) /\ s.loop \in 0..MaxLoops
         /\ s.sent \in Seq(Block) /\ s.vcTools \in Seq(Block)
         /\ s.blocks \in Seq(Block) /\ s.texts \in Seq(Block) /\ s.body \in Body
         /\ s.last \in [blocks : Seq(Block), stop : StopReason]
         /\ s.forwarded \in Nat /\ s.need \in BOOLEAN
         /\ s.pc \in PcSet /\ s.mode \in {None, "paging", "raw", "json"}
         /\ s.stop \in StopReason \cup {None}
  BY DEF RelayState
<1>2. s.suppressed \in Seq(Event)
  BY <1>1, EventsTyped, SeqMonotonic
<1> QED  BY <1>1, <1>2, RelayAssumption

\* A step keeps the order of its client's events.
LEMMA OrderStep ==
  ASSUME NEW s \in RelayState, NEW t \in RelayState, Bounded(s), WireOrder(s), Effect(s, t)
  PROVE  WireOrder(t)
<1>1. s.wire \in Seq(Event) /\ s.suppressed \in Seq(Event) /\ BlocksOnly(s.suppressed)
  BY FieldsTyped, BlockEventsOnly
<1>2. /\ Ordered(s.wire) /\ (Silent(s) => BlocksOnly(s.wire))
      /\ (s.pc = "stream" => Unstopped(s.wire))
      /\ (s.pc = "post" /\ s.mode = "paging" /\ s.loop > 0 => StopsIn(s.wire))
  BY DEF WireOrder, Unstopped
<1>3. SUFFICES /\ Ordered(t.wire) /\ (Silent(t) => BlocksOnly(t.wire))
               /\ (t.pc = "stream" => Unstopped(t.wire))
               /\ (t.pc = "post" /\ t.mode = "paging" /\ t.loop > 0 => StopsIn(t.wire))
  BY DEF WireOrder, Unstopped
<1>4. \A w : BlocksOnly(w) => Unstopped(w)
  BY DEF BlocksOnly, Unstopped
<1>5. CASE Opens(s, t)
  <2>1. t.wire = <<>> /\ t.pc \in {"stream", "done"}
    BY <1>5 DEF Opens, Arrives, SameWire, Idle
  <2>2. Len(t.wire) = 0
    BY <2>1
  <2>3. BlocksOnly(t.wire)
    BY <2>2 DEF BlocksOnly
  <2> QED  BY <1>4, <2>1, <2>3, BlocksOrdered
<1>6. CASE Ends(s, t)
  BY <1>2, <1>6 DEF Ends, Leaves, Silent, Streams, Continues
<1>7. CASE Marks(s, t)
  BY <1>1, <1>2, <1>7, MarkerOrdered DEF Marks, Silent, Streams, Continues
<1>8. CASE TakesBlock(s, t)
  <2>1. BlocksOnly(s.wire) /\ s.pc = "stream" /\ t.pc = "stream"
    BY <1>2, <1>8 DEF TakesBlock, Streaming1, Silent, Forwards, Suppresses
  <2>2. t.wire = s.wire \/ \E b, i : t.wire = Append(s.wire, Piece(b, i))
    BY <1>8 DEF TakesBlock, Forwards, Suppresses, SameWire
  <2>3. BlocksOnly(t.wire)
    <3>1. CASE t.wire = s.wire
      BY <2>1, <3>1
    <3>2. ASSUME NEW b, NEW i, t.wire = Append(s.wire, Piece(b, i)) PROVE BlocksOnly(t.wire)
      <4>1. Piece(b, i).ev = "block"
        BY EventKinds
      <4> QED  BY <1>1, <2>1, <3>2, <4>1, BlocksAppend
    <3> QED  BY <2>2, <3>1, <3>2
  <2> QED  BY <1>4, <2>1, <2>3, BlocksOrdered
<1>9. CASE TakesDelta(s, t)
  <2>1. PICK stop : Deltas(s, t, stop)
    BY <1>9 DEF TakesDelta
  <2>2. s.pc = "stream" /\ s.stop = None /\ BlocksOnly(s.wire) /\ s.need = FALSE
    BY <1>2, <1>9, FieldsTyped DEF TakesDelta, Streaming1, Silent, Bounded
  <2>3. t.pc = "stream" /\ t.stop # None
    BY <1>9, <2>2, RelayAssumption DEF TakesDelta, Deltas, StopReason
  <2>4. CASE t.wire = s.wire
    BY <1>4, <2>2, <2>3, <2>4, BlocksOrdered
  <2>5. CASE t.need = FALSE /\ t.wire = Append(s.wire, MessageDelta(stop))
    BY <1>1, <2>2, <2>3, <2>5, DeltaOrdered DEF Silent, Streams, Continues
  <2>6. CASE t.need = FALSE /\ t.wire = Append(s.wire \o s.suppressed, MessageDelta(stop))
    <3>1. s.wire \o s.suppressed \in Seq(Event) /\ BlocksOnly(s.wire \o s.suppressed)
      BY <1>1, <2>2, BlocksConcat
    <3> QED  BY <2>3, <2>6, <3>1, DeltaOrdered DEF Silent, Streams, Continues
  <2> QED  BY <2>1, <2>2, <2>4, <2>5, <2>6 DEF Deltas
<1>10. CASE TakesStop(s, t)
  <2>1. t.pc = "closed" /\ t.need = s.need /\ s.pc = "stream" /\ Unstopped(s.wire)
        /\ t.wire = IF s.need THEN s.wire ELSE Append(s.wire, MessageStop)
    BY <1>2, <1>10 DEF TakesStop, SameStream
  <2>2. Ordered(t.wire)
    BY <1>1, <1>2, <2>1, StopOrdered
  <2>3. Silent(t) => BlocksOnly(t.wire)
    BY <1>2, <2>1 DEF Silent, Streams, Continues
  <2> QED  BY <2>1, <2>2, <2>3
<1>11. ASSUME t.wire = s.wire, Silent(t) => Silent(s), t.pc # "stream",
              t.pc = "post" => t.mode # "paging" \/ t.loop = 0
       PROVE  WireOrder(t)
  BY <1>2, <1>11 DEF WireOrder
<1>12. CASE BreaksOff(s, t)
  BY <1>11, <1>12, FieldsTyped
     DEF BreaksOff, Moves, SameWire, SameStream, Silent, Streams, Continues, WireOrder, Unstopped
<1>13. CASE Turns(s, t)
  <2>1. s.loop = 0
    BY <1>13 DEF Turns, Bounded, Streams
  <2>2. WireOrder(t)
    BY <1>11, <1>13, <2>1, FieldsTyped
       DEF Turns, Moves, SameWire, SameStream, SameRounds, Silent, Streams, Continues
  <2> QED  BY <2>2 DEF WireOrder, Unstopped
<1>14. CASE Calling(s, t)
  <2>2. WireOrder(t)
    BY <1>11, <1>14 DEF Calling, Asks, SameWire, Silent, Streams, Continues
  <2> QED  BY <2>2 DEF WireOrder, Unstopped
<1>15. CASE Reading(s, t)
  <2>1. PICK m \in [blocks : Seq(Block), stop : StopReason] : Reads(s, t, m)
    BY <1>15 DEF Reading
  <2>2. Shown(m) \in Seq(Block) /\ s.forwarded \in Nat
    BY ShownTyped, FieldsTyped
  <2>3. Numbered(Shown(m), s.forwarded) \in Seq(BlockEvent)
        /\ Numbered(Shown(m), s.forwarded) \in Seq(Event)
    BY <2>2, NumberedTyped
  <2>4. BlocksOnly(s.wire) /\ BlocksOnly(Numbered(Shown(m), s.forwarded))
    BY <1>2, <1>15, <2>3, BlockEventsOnly DEF Reading, Silent, Continues
  <2>5. BlocksOnly(t.wire)
    BY <1>1, <2>1, <2>3, <2>4, BlocksConcat DEF Reads
  <2>6. t.pc \in {"tools", "closing"}
    BY <2>1 DEF Reads
  <2> QED  BY <2>5, <2>6, BlocksOrdered
<1>16. CASE Refused(s, t)
  <2>2. WireOrder(t)
    BY <1>11, <1>16 DEF Refused, Moves, SameWire, Silent, Streams, Continues
  <2> QED  BY <2>2 DEF WireOrder, Unstopped
<1>17. CASE Closes(s, t)
  <2>1. PICK stop \in StopReason : t.wire = s.wire \o <<MessageDelta(stop), MessageStop>>
    BY <1>17 DEF Closes
  <2>2. BlocksOnly(s.wire) /\ t.pc = "post"
    BY <1>2, <1>17 DEF Closes, Silent, Continues
  <2> DEFINE d == MessageDelta(stop)
             w == Append(s.wire, d)
  <2>3. Ordered(w) /\ Unstopped(w)
    BY <1>1, <2>2, DeltaOrdered
  <2>4. w \in Seq(Event) /\ t.wire = Append(w, MessageStop)
    <3>1. s.wire \in Seq(Event)
      BY <1>1
    <3> QED  BY <2>1, <3>1, EndsAppended
  <2> HIDE DEF w
  <2>5. Ordered(t.wire) /\ StopsIn(t.wire)
    BY <2>3, <2>4, StopOrdered
  <2> QED  BY <2>2, <2>5 DEF Silent, Streams, Continues
<1>18. CASE AnswersWhole(s, t)
  <2>1. PICK m \in [blocks : Seq(Block), stop : StopReason] : Answers(s, t, m)
    BY <1>18 DEF AnswersWhole
  <2> DEFINE u == Numbered(m.blocks, 0)
             d == MessageDelta(m.stop)
             w == Append(u, d)
  <2>2. u \in Seq(BlockEvent) /\ u \in Seq(Event)
    BY NumberedTyped
  <2>3. d \in Event
    BY EventsTyped
  <2> HIDE DEF u, d
  <2>4. w \in Seq(Event) /\ t.wire = Append(w, MessageStop)
    <3>1. t.wire = w \o <<MessageStop>>
      BY <2>1, Zenon DEF Answers, u, d
    <3>2. w \in Seq(Event)
      BY <2>2, <2>3
    <3> HIDE DEF w
    <3> QED  BY <3>1, <3>2, EventsTyped
  <2>5. BlocksOnly(u)
    BY <2>2, BlockEventsOnly
  <2>6. Ordered(w) /\ Unstopped(w)
    BY <2>2, <2>5, DeltaOrdered DEF d
  <2>7. Ordered(t.wire) /\ StopsIn(t.wire) /\ t.pc = "post"
    BY <2>1, <2>4, <2>6, StopOrdered DEF Answers
  <2> QED  BY <2>7 DEF Silent, Streams, Continues
<1>19. CASE MovesOn(s, t)
  <2>2. WireOrder(t)
    BY <1>11, <1>19 DEF MovesOn, Moves, SameWire, Silent, Streams, Continues
  <2> QED  BY <2>2 DEF WireOrder, Unstopped
<1>20. CASE CutOff(s, t)
  <2>2. WireOrder(t)
    BY <1>11, <1>20, RelayAssumption DEF CutOff, Moves, SameWire, Silent, Streams, Continues
  <2> QED  BY <2>2 DEF WireOrder, Unstopped
<1> QED
  BY <1>5, <1>6, <1>7, <1>8, <1>9, <1>10, <1>12, <1>13, <1>14, <1>15, <1>16, <1>17, <1>18,
     <1>19, <1>20 DEF Effect
-----------------------------------------------------------------------------
(* The indexes.                                                              *)

\* A block event has an index and a block.
LEMMA EventIndex ==
  ASSUME NEW e \in Event, e.ev = "block"
  PROVE  e \in BlockEvent /\ e.index \in Nat /\ e.block \in Block
<1>1. e \notin [ev : {"delta"}, stop : StopReason] /\ e # MessageStop /\ e # Marker
  BY EventKinds
<1>2. e \in BlockEvent
  BY <1>1 DEF Event
<1> QED  BY <1>2 DEF BlockEvent

\* An index above all others is new, and no place before it matters.
LEMMA IndexesAppend ==
  ASSUME NEW w \in Seq(Event), Strict(w), Unadded(w), NEW n \in Nat, Below(w, n), NEW b, b.loop = 0
  PROVE  /\ Strict(Append(w, Piece(b, n))) /\ Below(Append(w, Piece(b, n)), n + 1)
         /\ Unadded(Append(w, Piece(b, n)))
         /\ \A v \in Seq(Event) : Below(v, n) /\ Disjoint(w, v) => Disjoint(Append(w, Piece(b, n)), v)
         /\ \A v \in Seq(Event) : Below(v, n) /\ Disjoint(v, w) => Disjoint(v, Append(w, Piece(b, n)))
<1> DEFINE e == Piece(b, n)
           x == Append(w, e)
<1>1. e.ev = "block" /\ e.index = n /\ e.block = b
  BY EventKinds
<1> HIDE DEF e
<1>2. /\ Len(w) \in Nat /\ Len(x) = Len(w) + 1 /\ x[Len(w) + 1] = e
      /\ \A i \in 1..Len(w) : x[i] = w[i]
  BY Appended
<1> HIDE DEF x
<1>3. \A i \in 1..Len(w) : w[i].ev = "block" => w[i].index < n /\ w[i].index \in Nat
  BY EventIndex DEF Below
<1>4. ASSUME NEW i \in 1..Len(x), NEW j \in 1..Len(x), i < j, x[i].ev = "block", x[j].ev = "block"
      PROVE  x[i].index < x[j].index
  <2>1. i \in 1..Len(w) /\ x[i] = w[i]
    BY <1>2, <1>4
  <2>2. CASE j = Len(w) + 1
    BY <1>1, <1>2, <1>3, <1>4, <2>1, <2>2
  <2>3. CASE j \in 1..Len(w)
    BY <1>2, <1>4, <2>1, <2>3 DEF Strict
  <2> QED  BY <1>2, <2>2, <2>3
<1>5. ASSUME NEW i \in 1..Len(x), x[i].ev = "block"
      PROVE  x[i].index < n + 1 /\ x[i].block.loop = 0
  <2>1. CASE i = Len(w) + 1
    BY <1>1, <1>2, <2>1
  <2>2. CASE i \in 1..Len(w)
    BY <1>2, <1>3, <1>5, <2>2 DEF Unadded
  <2> QED  BY <1>2, <2>1, <2>2
<1>6. ASSUME NEW v \in Seq(Event), Below(v, n), Disjoint(w, v) PROVE Disjoint(x, v)
  <2>1. \A j \in 1..Len(v) : v[j].ev = "block" => v[j].index < n /\ v[j].index \in Nat
    BY <1>6, EventIndex DEF Below
  <2>2. ASSUME NEW i \in 1..Len(x), NEW j \in 1..Len(v), x[i].ev = "block", v[j].ev = "block"
        PROVE  x[i].index # v[j].index
    <3>1. CASE i = Len(w) + 1
      BY <1>1, <1>2, <2>1, <2>2, <3>1
    <3>2. CASE i \in 1..Len(w)
      BY <1>2, <1>6, <2>2, <3>2 DEF Disjoint
    <3> QED  BY <1>2, <3>1, <3>2
  <2> QED  BY <2>2 DEF Disjoint
<1>7. ASSUME NEW v \in Seq(Event), Below(v, n), Disjoint(v, w) PROVE Disjoint(v, x)
  <2>1. \A j \in 1..Len(v) : v[j].ev = "block" => v[j].index < n /\ v[j].index \in Nat
    BY <1>7, EventIndex DEF Below
  <2>2. ASSUME NEW i \in 1..Len(x), NEW j \in 1..Len(v), x[i].ev = "block", v[j].ev = "block"
        PROVE  v[j].index # x[i].index
    <3>1. CASE i = Len(w) + 1
      BY <1>1, <1>2, <2>1, <2>2, <3>1
    <3>2. CASE i \in 1..Len(w)
      BY <1>2, <1>7, <2>2, <3>2 DEF Disjoint
    <3> QED  BY <1>2, <3>1, <3>2
  <2> QED  BY <2>2 DEF Disjoint
<1> QED  BY <1>4, <1>5, <1>6, <1>7 DEF Strict, Below, Unadded, x, e

\* What the model streams rises, and nothing of it has been added.
LEMMA StrictRises ==
  ASSUME NEW w \in Seq(Event), Strict(w), NEW mode
  PROVE  Rising(w, mode) /\ (Unadded(w) => Counts(w))
<1>1. Rising(w, mode)
  BY DEF Strict, Rising
<1>2. ASSUME Unadded(w) PROVE Counts(w)
  BY <1>2 DEF Unadded, Counts, Added
<1> QED  BY <1>1, <1>2

\* An event without an index changes none.
LEMMA IndexesOther ==
  ASSUME NEW w \in Seq(Event), NEW mode, Rising(w, mode), Counts(w), NEW e, e.ev # "block"
  PROVE  Rising(Append(w, e), mode) /\ Counts(Append(w, e))
<1> DEFINE x == Append(w, e)
<1>1. /\ Len(w) \in Nat /\ Len(x) = Len(w) + 1 /\ x[Len(w) + 1] = e
      /\ \A i \in 1..Len(w) : x[i] = w[i]
  BY Appended
<1> HIDE DEF x
<1>2. \A i \in 1..Len(x) : x[i].ev = "block" => i \in 1..Len(w) /\ x[i] = w[i]
  BY <1>1
<1>3. Rising(x, mode)
  BY <1>2 DEF Rising, PastHeldCall
<1>4. Counts(x)
  BY <1>2 DEF Counts
<1> QED  BY <1>3, <1>4 DEF x

\* The calls that were held back, sent after the rest: out of order, and none
\* twice.
LEMMA ReleasedRise ==
  ASSUME NEW v \in Seq(Event), NEW w \in Seq(Event), Strict(v), Strict(w), Disjoint(v, w),
         Unadded(v), Unadded(w), Withheld(w)
  PROVE  Rising(v \o w, "paging") /\ Counts(v \o w)
<1> DEFINE x == v \o w
           m == Len(v)
<1>1. /\ m \in Nat /\ Len(w) \in Nat /\ Len(x) = m + Len(w)
      /\ \A i \in 1..m : x[i] = v[i]
      /\ \A i \in 1..Len(w) : x[m + i] = w[i]
      /\ \A i \in 1..Len(x) : i \in 1..m \/ i - m \in 1..Len(w)
  BY Concatenated
<1> HIDE DEF x
<1>2. \A i \in 1..Len(x) : \/ i \in 1..m /\ x[i] = v[i]
                           \/ i - m \in 1..Len(w) /\ x[i] = w[i - m]
  BY <1>1
<1>3. ASSUME NEW i \in 1..Len(x), NEW j \in 1..Len(x), i < j, x[i].ev = "block", x[j].ev = "block"
      PROVE  x[i].index < x[j].index \/ (Released("paging", x[j]) /\ x[i].index # x[j].index)
  <2>1. CASE j \in 1..m /\ x[j] = v[j]
    <3>1. i \in 1..m /\ x[i] = v[i]
      BY <1>1, <1>3, <2>1
    <3> QED  BY <1>3, <2>1, <3>1 DEF Strict
  <2>2. CASE j - m \in 1..Len(w) /\ x[j] = w[j - m]
    <3>1. CASE i \in 1..m /\ x[i] = v[i]
      <4>1. x[i].index # x[j].index
        BY <1>3, <2>2, <3>1 DEF Disjoint
      <4>2. x[j].block.kind = "vc"
        BY <1>3, <2>2 DEF Withheld
      <4> QED  BY <4>1, <4>2 DEF Released
    <3>2. CASE i - m \in 1..Len(w) /\ x[i] = w[i - m]
      <4>1. i - m < j - m
        BY <1>1, <1>3
      <4> QED  BY <1>3, <2>2, <3>2, <4>1 DEF Strict
    <3> QED  BY <1>2, <3>1, <3>2
  <2> QED  BY <1>2, <2>1, <2>2
<1>4. Rising(x, "paging")
  BY <1>3 DEF Rising
<1>5. ASSUME NEW i \in 1..Len(x), x[i].ev = "block" PROVE ~ Added(x[i])
  BY <1>2, <1>5 DEF Unadded, Added
<1>6. Counts(x)
  BY <1>5 DEF Counts
<1> QED  BY <1>4, <1>6 DEF x

\* The proxy numbers what it adds by the blocks before it.  A block of the
\* model has a smaller index, unless a call before it was held back.
LEMMA AddedRise ==
  ASSUME NEW w \in Seq(Event), NEW mode, Rising(w, mode), Counts(w), NEW bs \in Seq(Block), Later(bs)
  PROVE  /\ Rising(w \o Numbered(bs, Len(w)), mode) /\ Counts(w \o Numbered(bs, Len(w)))
         /\ Len(w \o Numbered(bs, Len(w))) = Len(w) + Len(bs)
<1> DEFINE m == Len(w)
           u == Numbered(bs, m)
           x == w \o u
<1>1. m \in Nat
  OBVIOUS
<1>2. /\ u \in Seq(Event) /\ Len(u) = Len(bs)
      /\ \A i \in 1..Len(bs) : u[i] = Piece(bs[i], m + i - 1)
  BY <1>1, NumberedTyped
<1>3. \A i \in 1..Len(u) : u[i].index = m + i - 1 /\ Added(u[i])
  BY <1>2, EventKinds DEF Later, Added
<1> HIDE DEF u
<1>4. /\ Len(u) \in Nat /\ Len(x) = m + Len(u)
      /\ \A i \in 1..m : x[i] = w[i]
      /\ \A i \in 1..Len(u) : x[m + i] = u[i]
      /\ \A i \in 1..Len(x) : i \in 1..m \/ i - m \in 1..Len(u)
  <2>1. u \in Seq(Event) /\ Len(u) \in Nat
    BY <1>2
  <2> QED  BY <2>1, Concatenated
<1> HIDE DEF x
<1>5. \A i \in 1..Len(x) :
        \/ i \in 1..m /\ x[i] = w[i]
        \/ i - m \in 1..Len(u) /\ i \in Nat /\ i > m /\ x[i].index = i - 1 /\ Added(x[i])
  <2> SUFFICES ASSUME NEW i \in 1..Len(x), i - m \in 1..Len(u)
        PROVE  i \in Nat /\ i > m /\ x[i].index = i - 1 /\ Added(x[i])
    BY <1>4
  <2>1. x[m + (i - m)] = u[i - m] /\ m + (i - m) = i /\ m + (i - m) - 1 = i - 1
    BY <1>1, <1>4
  <2>2. u[i - m].index = m + (i - m) - 1 /\ Added(u[i - m])
    BY <1>3
  <2> QED  BY <1>1, <2>1, <2>2
<1>6. ASSUME NEW i \in 1..m, w[i].ev = "block" PROVE w[i].index \in Nat
  BY <1>6, EventIndex
<1>7. ASSUME NEW i \in 1..Len(x), NEW j \in 1..Len(x), i < j, x[i].ev = "block", x[j].ev = "block"
      PROVE  \/ x[i].index < x[j].index
             \/ Released(mode, x[j]) /\ x[i].index # x[j].index
             \/ Added(x[j]) /\ PastHeldCall(x, i)
  <2>1. CASE j \in 1..m /\ x[j] = w[j]
    <3>1. i \in 1..m /\ x[i] = w[i]
      BY <1>1, <1>4, <1>7, <2>1
    <3> QED  BY <1>7, <2>1, <3>1 DEF Rising, PastHeldCall
  <2>2. CASE j \in Nat /\ j > m /\ x[j].index = j - 1 /\ Added(x[j])
    <3>1. CASE i \in 1..m /\ x[i] = w[i]
      BY <1>1, <1>6, <1>7, <2>2, <3>1 DEF PastHeldCall
    <3>2. CASE i \in Nat /\ x[i].index = i - 1
      BY <1>7, <2>2, <3>2
    <3> QED  BY <1>5, <3>1, <3>2
  <2> QED  BY <1>5, <2>1, <2>2
<1>8. ASSUME NEW j \in 1..Len(x), x[j].ev = "block", Added(x[j]) PROVE x[j].index = j - 1
  BY <1>5, <1>8 DEF Counts
<1> QED  BY <1>2, <1>4, <1>7, <1>8 DEF Rising, Counts, x, u

\* An answer without streaming numbers its blocks from 0.
LEMMA WholeRises ==
  ASSUME NEW bs \in Seq(Block), NEW mode
  PROVE  Rising(Numbered(bs, 0), mode) /\ Counts(Numbered(bs, 0))
<1> DEFINE u == Numbered(bs, 0)
<1>1. Len(u) \in Nat /\ \A i \in 1..Len(u) : u[i].index = i - 1
  BY NumberedTyped, EventKinds
<1> HIDE DEF u
<1> QED  BY <1>1 DEF Rising, Counts, u

\* A bound may grow.
LEMMA BelowMore ==
  ASSUME NEW w \in Seq(Event), NEW n \in Nat, Below(w, n)
  PROVE  Below(w, n + 1)
<1>1. \A j \in 1..Len(w) : w[j].ev = "block" => w[j].index < n /\ w[j].index \in Nat
  BY EventIndex DEF Below
<1> QED  BY <1>1 DEF Below

\* One more block.
LEMMA HasAppend ==
  ASSUME NEW bs \in Seq(Block), NEW b \in Block, NEW kind
  PROVE  Has(kind, Append(bs, b)) <=> Has(kind, bs) \/ b.kind = kind
<1> DEFINE x == Append(bs, b)
<1>1. /\ Len(bs) \in Nat /\ Len(x) = Len(bs) + 1 /\ x[Len(bs) + 1] = b
      /\ \A i \in 1..Len(bs) : x[i] = bs[i]
  BY Appended
<1>2. DOMAIN bs = 1..Len(bs) /\ DOMAIN x = 1..Len(x)
  OBVIOUS
<1> HIDE DEF x
<1> QED  BY <1>1, <1>2 DEF Has, x

\* Nothing sent, no index used.
LEMMA EmptyWire ==
  /\ <<>> \in Seq(Event) /\ Len(<<>>) = 0
  /\ Strict(<<>>) /\ Unadded(<<>>) /\ Withheld(<<>>) /\ Counts(<<>>)
  /\ \A n : Below(<<>>, n)
  /\ \A mode : Rising(<<>>, mode)
  /\ \A v : Disjoint(<<>>, v)
<1>1. Len(<<>>) = 0 /\ <<>> \in Seq(Event)
  BY EmptySeq
<1> QED  BY <1>1 DEF Strict, Unadded, Withheld, Counts, Below, Rising, Disjoint

\* The message_delta of the stream was swallowed.
Swallowed(s) == (Streams(s) /\ s.need) \/ Continues(s)

\* WireIndexes by its parts.
LEMMA IndexParts ==
  ASSUME NEW s
  PROVE  WireIndexes(s) <=> /\ Rising(s.wire, s.mode) /\ Counts(s.wire)
                            /\ (Silent(s) => s.forwarded = Len(s.wire))
                            /\ (s.pc = "stream" /\ s.stop = None => Held(s))
  BY DEF WireIndexes

\* A forwarded block brings the model's index, and is counted.
LEMMA IndexForwards ==
  ASSUME NEW s \in RelayState, NEW t \in RelayState, WireIndexes(s),
         Streaming1(s), NEW b \in Block, b.loop = 0, Forwards(s, t, b)
  PROVE  WireIndexes(t)
<1> DEFINE n == Len(s.sent)
<1>1. /\ s.wire \in Seq(Event) /\ s.suppressed \in Seq(Event) /\ s.sent \in Seq(Block)
      /\ n \in Nat /\ s.forwarded \in Nat /\ t.wire \in Seq(Event)
  BY FieldsTyped
<1>2. Held(s) /\ s.pc = "stream" /\ s.stop = None /\ s.forwarded = Len(s.wire)
  BY IndexParts DEF Streaming1, Silent
<1>3. /\ t.sent = Append(s.sent, b) /\ t.wire = Append(s.wire, Piece(b, n))
      /\ t.suppressed = s.suppressed /\ t.forwarded = s.forwarded + 1
      /\ Len(t.sent) = n + 1 /\ Len(t.wire) = Len(s.wire) + 1
  BY <1>1 DEF Forwards
<1>4. /\ Strict(s.wire) /\ Below(s.wire, n) /\ Unadded(s.wire)
      /\ Strict(s.suppressed) /\ Below(s.suppressed, n) /\ Unadded(s.suppressed)
      /\ Withheld(s.suppressed) /\ Disjoint(s.wire, s.suppressed)
  BY <1>2 DEF Held
<1> HIDE DEF n
<1>5. /\ Strict(t.wire) /\ Below(t.wire, n + 1) /\ Unadded(t.wire)
      /\ Disjoint(t.wire, t.suppressed)
  BY <1>1, <1>3, <1>4, IndexesAppend
<1>6. Below(t.suppressed, n + 1)
  BY <1>1, <1>3, <1>4, BelowMore
<1>7. Held(t)
  BY <1>3, <1>4, <1>5, <1>6 DEF Held
<1>8. Rising(t.wire, t.mode) /\ Counts(t.wire)
  BY <1>1, <1>5, StrictRises
<1> QED  BY <1>2, <1>3, <1>7, <1>8, IndexParts

\* A call that is held back keeps its index, for the case that it is sent
\* after all.
LEMMA IndexSuppresses ==
  ASSUME NEW s \in RelayState, NEW t \in RelayState, WireIndexes(s),
         Streaming1(s), NEW b \in Block, b.kind = "vc", b.loop = 0, Suppresses(s, t, b)
  PROVE  WireIndexes(t)
<1> DEFINE n == Len(s.sent)
<1>1. /\ s.wire \in Seq(Event) /\ s.suppressed \in Seq(Event) /\ s.sent \in Seq(Block)
      /\ n \in Nat
  BY FieldsTyped
<1>2. /\ Held(s) /\ s.pc = "stream" /\ s.stop = None /\ s.forwarded = Len(s.wire)
      /\ Rising(s.wire, s.mode) /\ Counts(s.wire)
  BY IndexParts DEF Streaming1, Silent
<1>3. /\ t.sent = Append(s.sent, b) /\ t.wire = s.wire /\ t.mode = s.mode
      /\ t.suppressed = Append(s.suppressed, Piece(b, n)) /\ t.forwarded = s.forwarded
      /\ Len(t.sent) = n + 1
  BY <1>1 DEF Suppresses, SameWire
<1>4. /\ Strict(s.wire) /\ Below(s.wire, n) /\ Unadded(s.wire)
      /\ Strict(s.suppressed) /\ Below(s.suppressed, n) /\ Unadded(s.suppressed)
      /\ Withheld(s.suppressed) /\ Disjoint(s.wire, s.suppressed)
  BY <1>2 DEF Held
<1> HIDE DEF n
<1>5. /\ Strict(t.suppressed) /\ Below(t.suppressed, n + 1) /\ Unadded(t.suppressed)
      /\ Disjoint(t.wire, t.suppressed)
  BY <1>1, <1>3, <1>4, IndexesAppend
<1>6. Below(t.wire, n + 1)
  BY <1>1, <1>3, <1>4, BelowMore
<1>7. Withheld(t.suppressed)
  <2> DEFINE w == s.suppressed
             x == Append(w, Piece(b, n))
  <2>1. /\ Len(w) \in Nat /\ Len(x) = Len(w) + 1 /\ x[Len(w) + 1] = Piece(b, n)
        /\ \A i \in 1..Len(w) : x[i] = w[i]
    BY <1>1, Appended
  <2>2. Piece(b, n).block.kind = "vc"
    BY EventKinds
  <2> HIDE DEF x
  <2>3. Withheld(x)
    BY <1>4, <2>1, <2>2 DEF Withheld
  <2> QED  BY <1>3, <2>3 DEF x
<1>8. Held(t)
  BY <1>3, <1>4, <1>5, <1>6, <1>7 DEF Held
<1> QED  BY <1>2, <1>3, <1>8, IndexParts

\* A step keeps the order of the indexes and the count.
LEMMA IndexStep ==
  ASSUME NEW s \in RelayState, NEW t \in RelayState, Bounded(s), WireIndexes(s), Effect(s, t)
  PROVE  WireIndexes(t)
<1>1. s.wire \in Seq(Event) /\ s.suppressed \in Seq(Event) /\ s.need \in BOOLEAN
      /\ s.forwarded \in Nat /\ t.forwarded \in Nat
  BY FieldsTyped
<1>2. Rising(s.wire, s.mode) /\ Counts(s.wire) /\ (Silent(s) => s.forwarded = Len(s.wire))
      /\ (s.pc = "stream" /\ s.stop = None => Held(s))
  BY IndexParts
<1>3. ASSUME t.wire = s.wire, t.mode = s.mode, t.pc # "stream" \/ t.stop # None,
             Silent(t) => Silent(s) /\ t.forwarded = s.forwarded
      PROVE  WireIndexes(t)
  BY <1>2, <1>3, IndexParts
<1>4. ASSUME t.pc # "stream" \/ t.stop # None, ~ Silent(t), Rising(t.wire, t.mode), Counts(t.wire)
      PROVE  WireIndexes(t)
  BY <1>4, IndexParts
<1>5. CASE Opens(s, t)
  <2>1. t.wire = <<>> /\ t.sent = <<>> /\ t.suppressed = <<>> /\ t.forwarded = 0
    BY <1>5 DEF Opens, Arrives, SameWire, SameStream, Idle
  <2>2. Held(t)
    BY <2>1, EmptyWire DEF Held
  <2> QED  BY <2>1, <2>2, EmptyWire, IndexParts
<1>6. CASE Ends(s, t)
  BY <1>3, <1>6 DEF Ends, Leaves, Silent, Streams, Continues
<1>7. CASE Marks(s, t)
  <2>1. Rising(t.wire, t.mode) /\ Counts(t.wire)
    BY <1>1, <1>2, <1>7, IndexesOther, EventKinds DEF Marks
  <2> QED  BY <1>4, <1>7, <2>1 DEF Marks, Silent, Streams, Continues
<1>8. CASE TakesBlock(s, t)
  BY <1>8, IndexForwards, IndexSuppresses DEF TakesBlock
<1>9. CASE TakesDelta(s, t)
  <2>1. PICK stop \in StopReason : Deltas(s, t, stop)
    BY <1>9 DEF TakesDelta
  <2>2. s.pc = "stream" /\ s.stop = None /\ s.need = FALSE /\ Held(s) /\ Silent(s)
    BY <1>1, <1>2, <1>9 DEF TakesDelta, Streaming1, Bounded, Silent
  <2>3. t.pc = "stream" /\ t.stop # None /\ t.mode = s.mode /\ t.forwarded = s.forwarded
    BY <2>1, <2>2, RelayAssumption DEF Deltas, StopReason
  <2>4. MessageDelta(stop).ev # "block"
    BY EventKinds
  <2>5. CASE t.wire = Append(s.wire, MessageDelta(stop)) /\ t.need = s.need
    <3>1. Rising(t.wire, t.mode) /\ Counts(t.wire)
      BY <1>1, <1>2, <2>3, <2>4, <2>5, IndexesOther
    <3> QED  BY <1>4, <2>2, <2>3, <2>5, <3>1 DEF Silent, Continues
  <2>6. CASE /\ Intercepts(s, stop) /\ t.need = s.need
             /\ t.wire = Append(s.wire \o s.suppressed, MessageDelta(stop))
    <3> DEFINE w == s.wire \o s.suppressed
    <3>1. w \in Seq(Event)
      BY <1>1, Concatenated
    <3>2. Rising(w, "paging") /\ Counts(w)
      BY <1>1, <2>2, ReleasedRise DEF Held
    <3>3. t.wire = Append(w, MessageDelta(stop)) /\ t.mode = "paging"
      BY <2>3, <2>6 DEF Intercepts
    <3> HIDE DEF w
    <3>4. Rising(t.wire, t.mode) /\ Counts(t.wire)
      BY <2>4, <3>1, <3>2, <3>3, IndexesOther
    <3> QED  BY <1>4, <2>2, <2>3, <2>6, <3>4 DEF Silent, Continues
  <2>7. CASE t.wire = s.wire
    BY <1>3, <2>2, <2>3, <2>7
  <2> QED  BY <2>1, <2>5, <2>6, <2>7 DEF Deltas
<1>10. CASE TakesStop(s, t)
  <2>1. t.pc = "closed" /\ t.need = s.need /\ s.pc = "stream" /\ t.forwarded = s.forwarded
        /\ t.mode = s.mode
        /\ t.wire = IF s.need THEN s.wire ELSE Append(s.wire, MessageStop)
    BY <1>10 DEF TakesStop, SameStream
  <2>2. CASE s.need
    BY <1>3, <2>1, <2>2 DEF Silent, Streams, Continues
  <2>3. CASE ~ s.need
    <3>1. Rising(t.wire, t.mode) /\ Counts(t.wire)
      BY <1>1, <1>2, <2>1, <2>3, IndexesOther, EventKinds
    <3> QED  BY <1>4, <2>1, <2>3, <3>1 DEF Silent, Continues
  <2> QED  BY <2>2, <2>3
<1>11. CASE BreaksOff(s, t)
  BY <1>3, <1>11 DEF BreaksOff, Moves, SameWire, SameStream, Silent, Streams, Continues
<1>12. CASE Turns(s, t)
  BY <1>3, <1>12 DEF Turns, Moves, SameWire, SameStream, Silent, Streams, Continues
<1>13. CASE Calling(s, t)
  BY <1>3, <1>13 DEF Calling, Asks, SameWire, Silent, Streams, Continues
<1>14. CASE Reading(s, t)
  <2>1. PICK m \in [blocks : Seq(Block), stop : StopReason] : Later(m.blocks) /\ Reads(s, t, m)
    BY <1>14 DEF Reading
  <2> DEFINE x == Shown(m)
  <2>2. x \in Seq(Block) /\ Later(x)
    BY <2>1, ShownTyped, ShownLater
  <2>3. /\ t.wire = s.wire \o Numbered(x, s.forwarded) /\ t.forwarded = s.forwarded + Len(x)
        /\ t.pc \in {"tools", "closing"} /\ t.mode = s.mode /\ s.forwarded = Len(s.wire)
    BY <1>2, <1>14, <2>1 DEF Reads, Reading, Silent, Continues
  <2> HIDE DEF x
  <2>4. Rising(t.wire, t.mode) /\ Counts(t.wire) /\ Len(t.wire) = t.forwarded
    <3>1. t.wire = s.wire \o Numbered(x, Len(s.wire))
      BY <2>3
    <3>2. /\ Rising(s.wire \o Numbered(x, Len(s.wire)), s.mode)
          /\ Counts(s.wire \o Numbered(x, Len(s.wire)))
          /\ Len(s.wire \o Numbered(x, Len(s.wire))) = Len(s.wire) + Len(x)
      BY <1>1, <1>2, <2>2, AddedRise
    <3> QED  BY <2>3, <3>1, <3>2
  <2> QED  BY <2>3, <2>4, IndexParts
<1>15. CASE Refused(s, t)
  BY <1>3, <1>15 DEF Refused, Moves, SameWire, Silent, Streams, Continues
<1>16. CASE Closes(s, t)
  <2>1. PICK q \in StopReason : t.wire = s.wire \o <<MessageDelta(q), MessageStop>>
    BY <1>16 DEF Closes
  <2> DEFINE w == Append(s.wire, MessageDelta(q))
  <2>2. w \in Seq(Event) /\ t.wire = Append(w, MessageStop)
    <3>1. s.wire \in Seq(Event)
      BY <1>1
    <3> QED  BY <2>1, <3>1, EndsAppended
  <2>3. Rising(w, s.mode) /\ Counts(w)
    BY <1>1, <1>2, IndexesOther, EventKinds
  <2> HIDE DEF w
  <2>4. Rising(t.wire, s.mode) /\ Counts(t.wire)
    BY <2>2, <2>3, IndexesOther, EventKinds
  <2> QED  BY <1>4, <1>16, <2>4 DEF Closes, Silent, Streams, Continues
<1>17. CASE AnswersWhole(s, t)
  <2>1. PICK m \in [blocks : Seq(Block), stop : StopReason] : Answers(s, t, m)
    BY <1>17 DEF AnswersWhole
  <2> DEFINE u == Numbered(m.blocks, 0)
             d == MessageDelta(m.stop)
             w == Append(u, d)
  <2>2. u \in Seq(Event) /\ Rising(u, t.mode) /\ Counts(u)
    BY NumberedTyped, WholeRises
  <2>3. d \in Event /\ d.ev # "block"
    BY EventsTyped, EventKinds
  <2> HIDE DEF u, d
  <2>4. w \in Seq(Event) /\ t.wire = Append(w, MessageStop)
    <3>1. t.wire = w \o <<MessageStop>>
      BY <2>1, Zenon DEF Answers, u, d
    <3>2. w \in Seq(Event)
      BY <2>2, <2>3
    <3> HIDE DEF w
    <3> QED  BY <3>1, <3>2, EventsTyped
  <2>5. Rising(w, t.mode) /\ Counts(w)
    BY <2>2, <2>3, IndexesOther
  <2> HIDE DEF w
  <2>6. Rising(t.wire, t.mode) /\ Counts(t.wire)
    BY <2>4, <2>5, IndexesOther, EventKinds
  <2> QED  BY <1>4, <2>1, <2>6 DEF Answers, Silent, Streams, Continues
<1>18. CASE MovesOn(s, t)
  BY <1>3, <1>18 DEF MovesOn, Moves, SameWire, Silent, Streams, Continues
<1>19. CASE CutOff(s, t)
  BY <1>3, <1>19, RelayAssumption DEF CutOff, Moves, SameWire, Silent, Streams, Continues
<1> QED
  BY <1>5, <1>6, <1>7, <1>8, <1>9, <1>10, <1>11, <1>12, <1>13, <1>14, <1>15, <1>16, <1>17,
     <1>18, <1>19 DEF Effect

\* Every state of a handler stays well formed when all its steps keep it so.
LEMMA StepsKeep ==
  ASSUME NEW P \in SUBSET RelayState, TypeInv, [Next]_vars,
         \A r \in Request : relay[r] \in P,
         \A s \in P, t \in RelayState : Bounded(s) /\ Effect(s, t) => t \in P
  PROVE  \A r \in Request : relay'[r] \in P
<1>1. CASE relay' = relay
  BY <1>1
<1>2. ASSUME NEW r \in Request, Steps(r, relay[r], relay'[r]), Effect(relay[r], relay'[r])
      PROVE  \A q \in Request : relay'[q] \in P
  <2>1. relay'[r] \in P
    BY <1>2 DEF TypeInv, Steps
  <2>2. \A q \in Request : q # r => relay'[q] = relay[q]
    BY <1>2 DEF Steps
  <2> QED  BY <2>1, <2>2
<1> QED  BY <1>1, <1>2, RelaySteps

\* OrderInv is an invariant.
LEMMA OrderAlways == Spec => []OrderInv
<1>1. Init => OrderInv
  <2> SUFFICES ASSUME Init, NEW r \in Request PROVE WireOrder(relay[r])
    BY DEF OrderInv
  <2>1. relay[r].wire = <<>> /\ relay[r].pc = "idle" /\ Len(<<>>) = 0
    BY DEF Init, Idle
  <2> QED  BY <2>1 DEF WireOrder, Ordered, BlocksOnly
<1>2. TypeInv /\ OrderInv /\ [Next]_vars => OrderInv'
  <2> SUFFICES ASSUME TypeInv, OrderInv, [Next]_vars PROVE \A r \in Request : WireOrder(relay'[r])
    BY DEF OrderInv
  <2> DEFINE P == {s \in RelayState : WireOrder(s)}
  <2>1. \A r \in Request : relay[r] \in P
    BY DEF TypeInv, OrderInv
  <2>2. ASSUME NEW s \in P, NEW t \in RelayState, Bounded(s), Effect(s, t)
        PROVE  t \in P
    BY <2>2, OrderStep
  <2> HIDE DEF P
  <2>3. \A r \in Request : relay'[r] \in P
    BY <2>1, <2>2, StepsKeep DEF P
  <2> QED  BY <2>3 DEF P
<1> QED  BY <1>1, <1>2, TypeAlways, PTL DEF Spec

\* IndexInv is an invariant.
LEMMA IndexAlways == Spec => []IndexInv
<1>1. Init => IndexInv
  <2> SUFFICES ASSUME Init, NEW r \in Request PROVE WireIndexes(relay[r])
    BY DEF IndexInv
  <2>1. relay[r].wire = <<>> /\ relay[r].pc = "idle" /\ relay[r].forwarded = 0
    BY DEF Init, Idle
  <2> QED  BY <2>1, EmptyWire, IndexParts
<1>2. TypeInv /\ IndexInv /\ [Next]_vars => IndexInv'
  <2> SUFFICES ASSUME TypeInv, IndexInv, [Next]_vars PROVE \A r \in Request : WireIndexes(relay'[r])
    BY DEF IndexInv
  <2> DEFINE P == {s \in RelayState : WireIndexes(s)}
  <2>1. \A r \in Request : relay[r] \in P
    BY DEF TypeInv, IndexInv
  <2>2. ASSUME NEW s \in P, NEW t \in RelayState, Bounded(s), Effect(s, t)
        PROVE  t \in P
    BY <2>2, IndexStep
  <2> HIDE DEF P
  <2>3. \A r \in Request : relay'[r] \in P
    BY <2>1, <2>2, StepsKeep DEF P
  <2> QED  BY <2>3 DEF P
<1> QED  BY <1>1, <1>2, TypeAlways, PTL DEF Spec

\* Whatever the model streams, in whichever order, the client receives one
\* well-formed message: increasing indexes, but for released calls, which
\* repeat none; blocks of the proxy numbered by the blocks before them; one
\* message_delta, and one message_stop after it (handlers.py:858-891).
THEOREM StreamWellFormed == Spec => []WireWellFormed
<1>1. TypeInv /\ OrderInv /\ IndexInv => WireWellFormed
  <2> SUFFICES ASSUME TypeInv, OrderInv, IndexInv, NEW r \in Request
        PROVE  LET w == relay[r].wire IN
               /\ \A i, j \in DOMAIN w :
                    i < j => /\ w[i].ev = "block" /\ w[j].ev = "block" =>
                                  \/ w[i].index < w[j].index
                                  \/ Released(relay[r].mode, w[j]) /\ w[i].index # w[j].index
                                  \/ Added(w[j]) /\ PastHeldCall(w, i)
                             /\ w[i].ev = "delta" => w[j].ev \in {"stop", "marker"}
                             /\ w[i].ev = "stop" => w[j].ev = "marker"
               /\ \A j \in DOMAIN w : w[j].ev = "block" /\ Added(w[j]) => w[j].index = j - 1
               /\ relay[r].mode = "paging" /\ relay[r].loop > 0 /\ In(r, "post")
                    => \E e \in Range(w) : e.ev = "stop"
    BY DEF WireWellFormed
  <2> DEFINE w == relay[r].wire
  <2>1. w \in Seq(Event)
    BY FieldsTyped DEF TypeInv
  <2>2. DOMAIN w = 1..Len(w)
    BY <2>1
  <2>3. Ordered(w) /\ Rising(w, relay[r].mode) /\ Counts(w)
        /\ (relay[r].pc = "post" /\ relay[r].mode = "paging" /\ relay[r].loop > 0 => StopsIn(w))
    BY IndexParts DEF OrderInv, IndexInv, WireOrder
  <2> HIDE DEF w
  <2>4. StopsIn(w) => \E e \in Range(w) : e.ev = "stop"
    BY <2>2 DEF StopsIn, Range
  <2> QED  BY <2>2, <2>3, <2>4 DEF Ordered, Rising, Counts, In, w
<1> QED  BY <1>1, TypeAlways, OrderAlways, IndexAlways, PTL

-----------------------------------------------------------------------------
(* The calls.                                                                *)

\* What a client is shown and told with one more event.
LEMMA ShowsAppend ==
  ASSUME NEW w \in Seq(Event), NEW e, NEW k
  PROVE  /\ ShowsIn(Append(w, e), k) <=> ShowsIn(w, k) \/ (e.ev = "block" /\ e.block.kind = k)
         /\ TellsIn(Append(w, e), k) <=> TellsIn(w, k) \/ (e.ev = "delta" /\ e.stop = k)
<1> DEFINE x == Append(w, e)
<1>1. /\ Len(w) \in Nat /\ Len(x) = Len(w) + 1 /\ x[Len(w) + 1] = e
      /\ \A i \in 1..Len(w) : x[i] = w[i]
  BY Appended
<1> HIDE DEF x
<1>2. ShowsIn(x, k) <=> ShowsIn(w, k) \/ (e.ev = "block" /\ e.block.kind = k)
  BY <1>1 DEF ShowsIn
<1>3. TellsIn(x, k) <=> TellsIn(w, k) \/ (e.ev = "delta" /\ e.stop = k)
  BY <1>1 DEF TellsIn
<1> QED  BY <1>2, <1>3 DEF x

\* And with several.
LEMMA ShowsConcat ==
  ASSUME NEW v \in Seq(Event), NEW w \in Seq(Event), NEW k
  PROVE  /\ ShowsIn(v \o w, k) <=> ShowsIn(v, k) \/ ShowsIn(w, k)
         /\ TellsIn(v \o w, k) <=> TellsIn(v, k) \/ TellsIn(w, k)
<1> DEFINE x == v \o w
           m == Len(v)
<1>1. /\ m \in Nat /\ Len(w) \in Nat /\ Len(x) = m + Len(w)
      /\ \A i \in 1..m : x[i] = v[i]
      /\ \A i \in 1..Len(w) : x[m + i] = w[i]
      /\ \A i \in 1..Len(x) : i \in 1..m \/ i - m \in 1..Len(w)
  BY Concatenated
<1> HIDE DEF x
<1>2. \A i \in 1..Len(x) : \/ i \in 1..m /\ x[i] = v[i]
                           \/ i - m \in 1..Len(w) /\ x[i] = w[i - m]
  BY <1>1
<1>3. /\ \A i \in 1..m : i \in 1..Len(x) /\ x[i] = v[i]
      /\ \A i \in 1..Len(w) : m + i \in 1..Len(x) /\ x[m + i] = w[i]
  BY <1>1
<1>4. ShowsIn(x, k) => ShowsIn(v, k) \/ ShowsIn(w, k)
  BY <1>2 DEF ShowsIn
<1>5. ShowsIn(v, k) \/ ShowsIn(w, k) => ShowsIn(x, k)
  BY <1>3 DEF ShowsIn
<1>6. TellsIn(x, k) => TellsIn(v, k) \/ TellsIn(w, k)
  BY <1>2 DEF TellsIn
<1>7. TellsIn(v, k) \/ TellsIn(w, k) => TellsIn(x, k)
  BY <1>3 DEF TellsIn
<1> QED  BY <1>4, <1>5, <1>6, <1>7 DEF x

\* Blocks alone tell no stop reason.
LEMMA BlocksTellNothing ==
  ASSUME NEW w, BlocksOnly(w), NEW k
  PROVE  ~ TellsIn(w, k)
  BY DEF BlocksOnly, TellsIn

\* What the proxy adds is shown.
LEMMA NumberedShows ==
  ASSUME NEW bs \in Seq(Block), NEW n \in Nat, NEW k
  PROVE  ShowsIn(Numbered(bs, n), k) <=> Has(k, bs)
<1>1. DOMAIN bs = 1..Len(bs)
  OBVIOUS
<1>2. Len(Numbered(bs, n)) = Len(bs)
      /\ \A i \in 1..Len(bs) : Numbered(bs, n)[i].ev = "block" /\ Numbered(bs, n)[i].block = bs[i]
  BY NumberedTyped, EventKinds
<1> QED  BY <1>1, <1>2 DEF ShowsIn, Has

\* Which blocks are calls.
LEMMA CallsAppend ==
  ASSUME NEW bs \in Seq(Block), NEW b \in Block
  PROVE  Calls(Append(bs, b)) = IF b.kind \in {"own", "vc"} THEN Append(Calls(bs), b) ELSE Calls(bs)
<1> DEFINE S == {c \in Block : c.kind \in {"own", "vc"}}
<1>1. Only(Append(bs, b), S) = IF b \in S THEN Append(Only(bs, S), b) ELSE Only(bs, S)
  BY OnlyAppend
<1>2. b \in S <=> b.kind \in {"own", "vc"}
  OBVIOUS
<1> QED  BY <1>1, <1>2 DEF Calls

\* Selecting a kind keeps that kind and drops the others.
LEMMA HasOf ==
  ASSUME NEW bs \in Seq(Block), NEW kind, NEW k
  PROVE  Has(k, Of(kind, bs)) <=> k = kind /\ Has(k, bs)
<1> DEFINE S == {b \in Block : b.kind = kind}
           x == Only(bs, S)
<1> HIDE DEF S
<1>1. x \in Seq(Block) /\ x \in Seq(S)
  BY OnlyTyped
<1>2. /\ \A i \in 1..Len(bs) : bs[i] \in S => \E j \in 1..Len(x) : x[j] = bs[i]
      /\ \A i \in 1..Len(x) : \E j \in 1..Len(bs) : x[i] = bs[j]
  BY OnlyFinds, OnlyFrom
<1>3. Of(kind, bs) = x
  BY DEF Of, S
<1> HIDE DEF x
<1>4. \A i \in 1..Len(x) : x[i] \in S
  BY <1>1
<1>5. DOMAIN x = 1..Len(x) /\ DOMAIN bs = 1..Len(bs) /\ \A i \in 1..Len(bs) : bs[i] \in Block
  BY <1>1
<1>6. ASSUME Has(k, x) PROVE k = kind /\ Has(k, bs)
  <2>1. PICK i \in 1..Len(x) : x[i].kind = k
    BY <1>5, <1>6 DEF Has
  <2>2. PICK j \in 1..Len(bs) : x[i] = bs[j]
    BY <1>2
  <2>3. x[i] \in S
    BY <1>4
  <2> QED  BY <1>5, <2>1, <2>2, <2>3 DEF Has, S
<1>7. ASSUME k = kind, Has(k, bs) PROVE Has(k, x)
  <2>1. PICK i \in 1..Len(bs) : bs[i].kind = k
    BY <1>5, <1>7 DEF Has
  <2>2. bs[i] \in S
    BY <1>5, <1>7, <2>1 DEF S
  <2>3. PICK j \in 1..Len(x) : x[j] = bs[i]
    BY <1>2, <2>2
  <2> QED  BY <1>5, <2>1, <2>3 DEF Has
<1> QED  BY <1>3, <1>6, <1>7

\* What two sequences of blocks have.
LEMMA HasConcat ==
  ASSUME NEW v \in Seq(Block), NEW w \in Seq(Block), NEW k
  PROVE  Has(k, v \o w) <=> Has(k, v) \/ Has(k, w)
<1> DEFINE x == v \o w
           m == Len(v)
<1>1. /\ m \in Nat /\ Len(w) \in Nat /\ Len(x) = m + Len(w)
      /\ \A i \in 1..m : x[i] = v[i]
      /\ \A i \in 1..Len(w) : x[m + i] = w[i]
      /\ \A i \in 1..Len(x) : i \in 1..m \/ i - m \in 1..Len(w)
  BY Concatenated
<1>2. DOMAIN x = 1..Len(x) /\ DOMAIN v = 1..m /\ DOMAIN w = 1..Len(w)
  OBVIOUS
<1> HIDE DEF x
<1>3. \A i \in 1..Len(x) : \/ i \in 1..m /\ x[i] = v[i]
                           \/ i - m \in 1..Len(w) /\ x[i] = w[i - m]
  BY <1>1
<1>4. /\ \A i \in 1..m : i \in 1..Len(x) /\ x[i] = v[i]
      /\ \A i \in 1..Len(w) : m + i \in 1..Len(x) /\ x[m + i] = w[i]
  BY <1>1
<1>5. Has(k, x) => Has(k, v) \/ Has(k, w)
  BY <1>2, <1>3 DEF Has
<1>6. Has(k, v) \/ Has(k, w) => Has(k, x)
  BY <1>2, <1>4 DEF Has
<1> QED  BY <1>5, <1>6 DEF x

\* A continuation shows no call of the proxy's tools, and the client's own
\* calls unless another round follows.
LEMMA ShownHas ==
  ASSUME NEW m \in [blocks : Seq(Block), stop : StopReason]
  PROVE  /\ ~ Has("vc", Shown(m))
         /\ Has("own", m.blocks) => Has("own", Shown(m))
<1>1. m.blocks \in Seq(Block)
  OBVIOUS
<1> DEFINE x == Of("text", m.blocks)
           y == IF OnlyVc(m) THEN <<>> ELSE Of("own", m.blocks)
<1>2. x \in Seq(Block) /\ y \in Seq(Block)
  BY <1>1, OfTyped, EmptySeq
<1>5. ~ Has("vc", x) /\ ~ Has("vc", Of("own", m.blocks))
      /\ (Has("own", m.blocks) => Has("own", Of("own", m.blocks)))
  BY <1>1, HasOf
<1>6. ~ Has("vc", <<>>)
  BY DEF Has
<1>3. ~ Has("vc", y) /\ (Has("own", m.blocks) => Has("own", y))
  BY <1>5, <1>6 DEF OnlyVc
<1>4. Shown(m) = x \o y
  BY DEF Shown
<1> HIDE DEF x, y
<1> QED  BY <1>2, <1>3, <1>4, <1>5, HasConcat DEF x

\* Without calls of the client, the calls of vc tools are all calls.
LEMMA VcCalls ==
  ASSUME NEW bs \in Seq(Block), ~ Has("own", bs)
  PROVE  Of("vc", bs) = Calls(bs)
<1> DEFINE S == {b \in Block : b.kind = "vc"}
           R == {b \in Block : b.kind \in {"own", "vc"}}
<1>1. DOMAIN bs = 1..Len(bs) /\ \A i \in 1..Len(bs) : bs[i] \in Block
  OBVIOUS
<1>2. \A i \in 1..Len(bs) : bs[i] \in S <=> bs[i] \in R
  BY <1>1 DEF Has
<1> HIDE DEF S, R
<1>3. Only(bs, S) = Only(bs, R)
  BY <1>2, OnlySame
<1> QED  BY <1>3 DEF Of, Calls, S, R

\* The message with the calls and the message with their results.
LEMMA PairedAppend ==
  ASSUME NEW body \in Body, BodyPaired(body), NEW bs \in Seq(Block)
  PROVE  BodyPaired(body \o <<[role |-> "assistant", blocks |-> bs],
                              [role |-> "user", blocks |-> Calls(bs)]>>)
<1> DEFINE a == [role |-> "assistant", blocks |-> bs]
           u == [role |-> "user", blocks |-> Calls(bs)]
           x == body \o <<a, u>>
           n == Len(body)
<1>1. n \in Nat /\ Len(x) = n + 2 /\ x[n + 1] = a /\ x[n + 2] = u
      /\ \A i \in 1..n : x[i] = body[i]
  BY DEF Body
<1>2. a.role = "assistant" /\ a.blocks = bs /\ u.role = "user" /\ u.blocks = Calls(bs)
  OBVIOUS
<1> HIDE DEF a, u, x
<1>3. ASSUME NEW i \in 1..Len(x), x[i].role = "assistant"
      PROVE  /\ i < Len(x) /\ x[i + 1].role = "user"
             /\ x[i + 1].blocks = Calls(x[i].blocks)
  <2>1. CASE i \in 1..n
    <3>1. i < n /\ body[i + 1].role = "user" /\ body[i + 1].blocks = Calls(body[i].blocks)
      BY <1>1, <1>3, <2>1 DEF BodyPaired
    <3>2. i + 1 \in 1..n
      BY <1>1, <2>1, <3>1
    <3> QED  BY <1>1, <2>1, <3>1, <3>2
  <2>2. CASE i = n + 1
    BY <1>1, <1>2, <2>2
  <2>3. CASE i = n + 2
    BY <1>1, <1>2, <1>3, <2>3
  <2> QED  BY <1>1, <2>1, <2>2, <2>3
<1> QED  BY <1>3 DEF BodyPaired, x, a, u

\* A client that has its proxy's tools is shown and told no more than this.
Answerable(s) ==
  s.mode = "paging" =>
    /\ TellsIn(s.wire, "tool_use") => ShowsIn(s.wire, "own")
    /\ ShowsIn(s.wire, "vc") => ShowsIn(s.wire, "own") /\ s.body = <<>> /\ ~ Swallowed(s)
OwnShown(s) ==
  Continues(s) /\ s.last.stop = "tool_use" /\ Has("own", s.last.blocks) => ShowsIn(s.wire, "own")
ToolsReady(s) ==
  /\ Streams(s) => s.body = <<>> /\ s.last = NoReply
  /\ Streams(s) /\ s.need => s.vcTools = Calls(s.blocks)
  /\ s.pc = "tools" => s.vcTools = Calls(IF s.loop = 0 THEN s.blocks ELSE s.last.blocks)

\* CallsKept by its parts.
LEMMA CallParts ==
  ASSUME NEW s
  PROVE  CallsKept(s) <=> /\ BodyPaired(s.body) /\ Streamed(s) /\ ToolsReady(s)
                          /\ Answerable(s) /\ OwnShown(s)
  BY DEF CallsKept, Answerable, OwnShown, ToolsReady, Swallowed, Streams, Continues

\* Nothing was called yet.
LEMMA EmptyCalls ==
  BodyPaired(<<>>) /\ (\A k : ~ ShowsIn(<<>>, k) /\ ~ TellsIn(<<>>, k) /\ ~ Has(k, <<>>))
  /\ Calls(<<>>) = <<>>
<1>1. Len(<<>>) = 0
  OBVIOUS
<1>2. Calls(<<>>) = <<>>
  BY OnlyEmpty DEF Calls
<1>3. \A k : ~ Has(k, <<>>)
  BY DEF Has
<1> QED  BY <1>1, <1>2, <1>3 DEF BodyPaired, ShowsIn, TellsIn

\* A block is forwarded.
LEMMA CallsForward ==
  ASSUME NEW s \in RelayState, NEW t \in RelayState, CallsKept(s),
         Streaming1(s), ~ s.need, NEW b \in Block,
         s.mode = "paging" => b.kind # "vc", Forwards(s, t, b)
  PROVE  CallsKept(t)
<1> DEFINE e == Piece(b, Len(s.sent))
<1>1. /\ s.wire \in Seq(Event) /\ s.sent \in Seq(Block) /\ s.blocks \in Seq(Block)
      /\ e.ev = "block" /\ e.block = b
  BY FieldsTyped, EventKinds
<1> HIDE DEF e
<1>2. /\ BodyPaired(s.body) /\ Streamed(s) /\ ToolsReady(s) /\ Answerable(s) /\ OwnShown(s)
      /\ s.pc = "stream" /\ s.stop = None
  BY CallParts DEF Streaming1
<1>3. /\ t.sent = Append(s.sent, b) /\ t.wire = Append(s.wire, e) /\ t.pc = "stream"
      /\ t.mode = s.mode /\ t.vcTools = s.vcTools /\ t.need = s.need /\ t.stop = s.stop
      /\ t.blocks = (IF b.kind = "text" THEN Append(s.blocks, b) ELSE s.blocks)
      /\ t.body = s.body /\ t.last = s.last /\ t.loop = s.loop
  BY <1>2 DEF Forwards, SameRounds, e
<1>4. /\ \A k : ShowsIn(t.wire, k) <=> ShowsIn(s.wire, k) \/ b.kind = k
      /\ \A k : TellsIn(t.wire, k) <=> TellsIn(s.wire, k)
      /\ \A k : Has(k, t.sent) <=> Has(k, s.sent) \/ b.kind = k
  BY <1>1, <1>3, ShowsAppend, HasAppend
<1>5. Calls(t.blocks) = Calls(s.blocks)
  BY <1>1, <1>3, CallsAppend
<1>6. Streamed(t)
  BY <1>2, <1>3, <1>4, <1>5 DEF Streamed
<1>7. Answerable(t)
  BY <1>2, <1>3, <1>4 DEF Streamed, Answerable
<1>8. ToolsReady(t) /\ OwnShown(t)
  BY <1>2, <1>3 DEF ToolsReady, OwnShown, Streams, Continues
<1> QED  BY <1>2, <1>3, <1>6, <1>7, <1>8, CallParts

\* A call is held back: it is one of the calls to execute.
LEMMA CallsSuppress ==
  ASSUME NEW s \in RelayState, NEW t \in RelayState, CallsKept(s),
         Streaming1(s), ~ s.need, NEW b \in Block, s.mode = "paging", b.kind = "vc",
         Suppresses(s, t, b)
  PROVE  CallsKept(t)
<1>1. /\ s.wire \in Seq(Event) /\ s.sent \in Seq(Block) /\ s.blocks \in Seq(Block)
      /\ s.vcTools \in Seq(Block)
  BY FieldsTyped
<1>2. /\ BodyPaired(s.body) /\ Streamed(s) /\ ToolsReady(s) /\ Answerable(s) /\ OwnShown(s)
      /\ s.pc = "stream" /\ s.stop = None
  BY CallParts DEF Streaming1
<1>3. /\ t.sent = Append(s.sent, b) /\ t.wire = s.wire /\ t.pc = "stream"
      /\ t.mode = s.mode /\ t.vcTools = Append(s.vcTools, b) /\ t.need = s.need
      /\ t.stop = s.stop /\ t.blocks = Append(s.blocks, b)
      /\ t.body = s.body /\ t.last = s.last /\ t.loop = s.loop
  BY <1>2 DEF Suppresses, SameRounds, SameWire
<1>4. \A k : Has(k, t.sent) <=> Has(k, s.sent) \/ b.kind = k
  BY <1>1, <1>3, HasAppend
<1>5. Calls(t.blocks) = Append(Calls(s.blocks), b)
  BY <1>1, <1>3, CallsAppend
<1>6. t.vcTools # <<>>
  <2>1. Len(t.vcTools) = Len(s.vcTools) + 1 /\ Len(s.vcTools) \in Nat /\ Len(<<>>) = 0
    BY <1>1, <1>3, Appended
  <2> QED  BY <2>1
<1>7. Streamed(t)
  BY <1>2, <1>3, <1>4, <1>5, <1>6 DEF Streamed
<1>8. Answerable(t) /\ ToolsReady(t) /\ OwnShown(t)
  BY <1>2, <1>3 DEF Answerable, ToolsReady, OwnShown, Streams, Continues, Swallowed
<1> QED  BY <1>2, <1>3, <1>7, <1>8, CallParts

\* The three ways of a message_delta.
LEMMA CallsDelta ==
  ASSUME NEW s \in RelayState, NEW t \in RelayState, CallsKept(s),
         Streaming1(s), s.need = FALSE,
         NEW stop \in Stops(s.sent), stop \in StopReason, Deltas(s, t, stop)
  PROVE  CallsKept(t)
<1> DEFINE d == MessageDelta(stop)
<1>1. /\ s.wire \in Seq(Event) /\ s.sent \in Seq(Block) /\ s.suppressed \in Seq(Event)
      /\ s.suppressed \in Seq(BlockEvent) /\ d.ev = "delta" /\ d.stop = stop
  BY FieldsTyped, EventKinds
<1> HIDE DEF d
<1>2. /\ BodyPaired(s.body) /\ Streamed(s) /\ ToolsReady(s) /\ Answerable(s) /\ OwnShown(s)
      /\ s.pc = "stream" /\ s.stop = None
  BY CallParts DEF Streaming1
<1>3. /\ t.pc = "stream" /\ t.mode = s.mode /\ t.stop = stop /\ t.stop # None
      /\ t.blocks = s.blocks /\ t.body = s.body /\ t.last = s.last /\ t.loop = s.loop
  BY <1>2, RelayAssumption DEF Deltas, SameRounds, StopReason
<1>4. Streamed(t)
  BY <1>3 DEF Streamed
<1>5. OwnShown(t)
  BY <1>3 DEF OwnShown, Continues
<1>6. stop = "tool_use" => HasCall(s.sent)
  BY DEF Stops
<1>7. CASE /\ ~ Intercepts(s, stop) /\ t.wire = Append(s.wire, d)
           /\ t.vcTools = s.vcTools /\ t.need = s.need
  <2>1. /\ \A k : ShowsIn(t.wire, k) <=> ShowsIn(s.wire, k)
        /\ \A k : TellsIn(t.wire, k) <=> TellsIn(s.wire, k) \/ stop = k
    BY <1>1, <1>7, ShowsAppend
  <2>2. ASSUME s.mode = "paging", stop = "tool_use" PROVE ShowsIn(s.wire, "own")
    <3>1. s.vcTools = <<>>
      BY <1>7, <2>2 DEF Intercepts
    <3>2. Has("own", s.sent)
      BY <1>2, <1>6, <2>2, <3>1 DEF Streamed, HasCall
    <3> QED  BY <1>2, <2>2, <3>2 DEF Streamed
  <2>3. Answerable(t)
    BY <1>2, <1>3, <1>7, <2>1, <2>2 DEF Answerable, Swallowed, Streams, Continues
  <2>4. ToolsReady(t)
    BY <1>2, <1>3, <1>7 DEF ToolsReady, Streams
  <2> QED  BY <1>2, <1>3, <1>4, <1>5, <2>3, <2>4, CallParts
<1>8. CASE /\ Intercepts(s, stop) /\ Has("own", s.sent) /\ t.need = s.need
           /\ t.wire = Append(s.wire \o s.suppressed, d)
  <2> DEFINE w == s.wire \o s.suppressed
  <2>1. w \in Seq(Event)
    BY <1>1, Concatenated
  <2>2. ShowsIn(s.wire, "own")
    BY <1>2, <1>8 DEF Streamed, Intercepts
  <2>3. ShowsIn(w, "own")
    BY <1>1, <2>2, ShowsConcat
  <2>4. t.wire = Append(w, d)
    BY <1>8
  <2> HIDE DEF w
  <2>5. ShowsIn(t.wire, "own")
    BY <2>1, <2>3, <2>4, ShowsAppend
  <2>6. s.body = <<>>
    BY <1>2 DEF ToolsReady, Streams
  <2>7. Answerable(t)
    BY <1>3, <1>8, <2>5, <2>6 DEF Answerable, Swallowed, Continues
  <2>8. ToolsReady(t)
    BY <1>2, <1>3, <1>8 DEF ToolsReady, Streams
  <2> QED  BY <1>2, <1>3, <1>4, <1>5, <2>7, <2>8, CallParts
<1>9. CASE Intercepts(s, stop) /\ t.wire = s.wire /\ t.vcTools = s.vcTools
  <2>1. s.vcTools = Calls(s.blocks) /\ ~ ShowsIn(s.wire, "vc") /\ ~ TellsIn(s.wire, "tool_use")
    BY <1>2, <1>9 DEF Streamed, Intercepts
  <2>2. Answerable(t) /\ ToolsReady(t)
    BY <1>2, <1>3, <1>9, <2>1 DEF Answerable, ToolsReady, Streams
  <2> QED  BY <1>2, <1>3, <1>4, <1>5, <2>2, CallParts
<1> QED  BY <1>7, <1>8, <1>9 DEF Deltas, d

\* A continuation is read.
LEMMA CallsRead ==
  ASSUME NEW s \in RelayState, NEW t \in RelayState, CallsKept(s), s.pc = "asking",
         NEW m \in [blocks : Seq(Block), stop : StopReason], Reads(s, t, m)
  PROVE  CallsKept(t)
<1> DEFINE x == Numbered(Shown(m), s.forwarded)
<1>1. /\ s.wire \in Seq(Event) /\ s.loop \in Nat /\ m.blocks \in Seq(Block)
      /\ x \in Seq(BlockEvent) /\ x \in Seq(Event)
  BY FieldsTyped, ShownTyped, NumberedTyped
<1>2. \A k : (ShowsIn(x, k) <=> Has(k, Shown(m))) /\ ~ TellsIn(x, k)
  <2>1. Shown(m) \in Seq(Block) /\ s.forwarded \in Nat
    BY ShownTyped, FieldsTyped
  <2>2. \A k : ShowsIn(x, k) <=> Has(k, Shown(m))
    BY <2>1, NumberedShows
  <2> HIDE DEF x
  <2> QED  BY <1>1, <2>2, BlockEventsOnly, BlocksTellNothing
<1>3. /\ BodyPaired(s.body) /\ Answerable(s) /\ Swallowed(s)
  BY CallParts DEF Swallowed, Continues
<1>4. /\ t.pc \in {"tools", "closing"} /\ t.mode = s.mode /\ t.wire = s.wire \o x
      /\ t.body = s.body /\ t.last = m /\ t.loop = s.loop + 1
      /\ t.pc = "tools" => OnlyVc(m) /\ t.vcTools = Of("vc", m.blocks)
  BY DEF Reads
<1> HIDE DEF x
<1>5. /\ \A k : ShowsIn(t.wire, k) <=> ShowsIn(s.wire, k) \/ Has(k, Shown(m))
      /\ \A k : TellsIn(t.wire, k) <=> TellsIn(s.wire, k)
  BY <1>1, <1>2, <1>4, ShowsConcat
<1>6. ~ Has("vc", Shown(m)) /\ (Has("own", m.blocks) => Has("own", Shown(m)))
  BY ShownHas
<1>7. Answerable(t)
  BY <1>3, <1>4, <1>5, <1>6 DEF Answerable
<1>8. OwnShown(t)
  BY <1>4, <1>5, <1>6 DEF OwnShown
<1>9. ToolsReady(t)
  <2>1. t.pc = "tools" => t.vcTools = Calls(m.blocks) /\ t.loop # 0
    BY <1>1, <1>4, VcCalls DEF OnlyVc
  <2> QED  BY <1>4, <2>1 DEF ToolsReady, Streams
<1>10. Streamed(t)
  BY <1>4 DEF Streamed
<1> QED  BY <1>3, <1>4, <1>7, <1>8, <1>9, <1>10, CallParts

\* A step leaves no call of its request without an answer.
LEMMA CallStep ==
  ASSUME NEW s \in RelayState, NEW t \in RelayState, Bounded(s), CallsKept(s), Effect(s, t)
  PROVE  CallsKept(t)
<1>1. s.wire \in Seq(Event) /\ s.need \in BOOLEAN /\ s.loop \in Nat /\ s.body \in Body
      /\ s.blocks \in Seq(Block) /\ s.last.blocks \in Seq(Block)
  <2>1. s.last \in [blocks : Seq(Block), stop : StopReason]
    BY FieldsTyped
  <2> QED  BY <2>1, FieldsTyped
<1>2. /\ BodyPaired(s.body) /\ Streamed(s) /\ ToolsReady(s) /\ Answerable(s) /\ OwnShown(s)
  BY CallParts
\* A step after the stream that shows the client nothing, or no block.
<1>3. ASSUME \A k : ShowsIn(t.wire, k) <=> ShowsIn(s.wire, k),
             \A k : TellsIn(t.wire, k) <=> TellsIn(s.wire, k),
             t.pc # "stream", t.pc # "tools", t.mode = s.mode,
             SameRounds(s, t) \/ SameRounds(Idle, t),
             t.need = s.need, t.vcTools = s.vcTools, t.blocks = s.blocks,
             Streams(t) => Streams(s) /\ SameRounds(s, t),
             Continues(t) => Continues(s) /\ SameRounds(s, t)
      PROVE  CallsKept(t)
  <2>1. BodyPaired(t.body) /\ (s.body = <<>> => t.body = <<>>)
    BY <1>2, <1>3, EmptyCalls DEF SameRounds, Idle
  <2>2. Streamed(t)
    BY <1>3 DEF Streamed
  <2>3. ToolsReady(t)
    BY <1>2, <1>3 DEF ToolsReady, SameRounds
  <2>4. Answerable(t)
    BY <1>2, <1>3, <2>1 DEF Answerable, Swallowed
  <2>5. OwnShown(t)
    BY <1>2, <1>3 DEF OwnShown, SameRounds
  <2> QED  BY <2>1, <2>2, <2>3, <2>4, <2>5, CallParts
<1>4. ASSUME \A k : ShowsIn(t.wire, k) <=> ShowsIn(s.wire, k),
             \A k : TellsIn(t.wire, k) <=> TellsIn(s.wire, k),
             t.mode = s.mode, SameRounds(Idle, t), ~ Streams(t), ~ Continues(t)
      PROVE  CallsKept(t)
  <2>1. t.body = <<>>
    BY <1>4 DEF SameRounds, Idle
  <2>2. Streamed(t) /\ ToolsReady(t) /\ OwnShown(t)
    BY <1>4 DEF Streamed, ToolsReady, OwnShown, Streams, Continues
  <2>3. Answerable(t)
    BY <1>2, <1>4, <2>1 DEF Answerable, Swallowed
  <2> QED  BY <2>1, <2>2, <2>3, EmptyCalls, CallParts
<1>5. CASE Opens(s, t)
  <2>1. t.wire = <<>> /\ t.pc \in {"stream", "done"} /\ t.sent = <<>> /\ t.body = <<>>
        /\ t.need = FALSE /\ t.vcTools = <<>> /\ t.blocks = <<>> /\ t.last = NoReply
    BY <1>5 DEF Opens, Arrives, SameWire, SameStream, SameRounds, Idle
  <2>2. Streamed(t) /\ Answerable(t) /\ OwnShown(t)
    BY <2>1, EmptyCalls DEF Streamed, Answerable, OwnShown, Continues
  <2>3. ToolsReady(t)
    BY <2>1 DEF ToolsReady, Streams
  <2> QED  BY <2>1, <2>2, <2>3, EmptyCalls, CallParts
<1>6. CASE Ends(s, t)
  BY <1>4, <1>6 DEF Ends, Leaves, Streams, Continues
<1>7. CASE Marks(s, t)
  <2>1. /\ \A k : ShowsIn(t.wire, k) <=> ShowsIn(s.wire, k)
        /\ \A k : TellsIn(t.wire, k) <=> TellsIn(s.wire, k)
    BY <1>1, <1>7, ShowsAppend, EventKinds DEF Marks
  <2> QED  BY <1>4, <1>7, <2>1 DEF Marks, Streams, Continues
<1>8. CASE TakesBlock(s, t)
  <2>1. Streaming1(s) /\ ~ s.need
    BY <1>8 DEF TakesBlock, Streaming1, Bounded
  <2> QED  BY <1>8, <2>1, CallsForward, CallsSuppress DEF TakesBlock
<1>9. CASE TakesDelta(s, t)
  <2>1. Streaming1(s) /\ s.need = FALSE
    BY <1>1, <1>9 DEF TakesDelta, Streaming1, Bounded
  <2> QED  BY <1>9, <2>1, CallsDelta DEF TakesDelta
<1>10. CASE TakesStop(s, t)
  <2>1. /\ \A k : ShowsIn(t.wire, k) <=> ShowsIn(s.wire, k)
        /\ \A k : TellsIn(t.wire, k) <=> TellsIn(s.wire, k)
    BY <1>1, <1>10, ShowsAppend, EventKinds DEF TakesStop
  <2> QED  BY <1>3, <1>10, <2>1 DEF TakesStop, SameStream, Streams, Continues
<1>11. CASE BreaksOff(s, t)
  BY <1>3, <1>11 DEF BreaksOff, Moves, SameWire, SameStream, Streams, Continues
<1>12. CASE Turns(s, t)
  <2>1. CASE Moves(s, t, "post")
    BY <1>3, <2>1 DEF Moves, SameWire, SameStream, Streams, Continues
  <2>2. CASE s.need /\ Moves(s, t, "tools")
    <3>1. /\ t.wire = s.wire /\ t.mode = s.mode /\ t.pc = "tools" /\ t.body = s.body
          /\ t.vcTools = s.vcTools /\ t.loop = 0 /\ t.blocks = s.blocks /\ t.last = NoReply
          /\ Swallowed(s) /\ s.vcTools = Calls(s.blocks)
      BY <1>2, <1>12, <2>2 DEF Turns, Moves, SameWire, SameStream, SameRounds, Streams, Bounded,
                               Swallowed, ToolsReady
    <3>2. Streamed(t) /\ OwnShown(t) /\ ToolsReady(t)
      BY <3>1 DEF Streamed, OwnShown, ToolsReady, NoReply, Streams
    <3>3. Answerable(t)
      BY <1>2, <3>1 DEF Answerable
    <3> QED  BY <1>2, <3>1, <3>2, <3>3, CallParts
  <2> QED  BY <1>12, <2>1, <2>2 DEF Turns
<1>13. CASE Calling(s, t)
  <2>1. /\ t.wire = s.wire /\ t.mode = s.mode /\ t.pc = "asking" /\ t.last = s.last
        /\ Swallowed(s) /\ Continues(s)
    BY <1>13 DEF Calling, Asks, SameWire, Swallowed, Continues
  <2>2. BodyPaired(t.body)
    <3> DEFINE bs == IF s.loop = 0 THEN s.blocks ELSE s.last.blocks
    <3>1. bs \in Seq(Block) /\ s.vcTools = Calls(bs)
      BY <1>1, <1>2, <1>13 DEF Calling, ToolsReady
    <3>2. t.body = s.body \o <<[role |-> "assistant", blocks |-> bs],
                               [role |-> "user", blocks |-> s.vcTools]>>
      BY <1>13, Zenon DEF Calling, Asks
    <3> HIDE DEF bs
    <3> QED  BY <1>1, <1>2, <3>1, <3>2, PairedAppend
  <2>3. Streamed(t) /\ OwnShown(t) /\ ToolsReady(t)
    BY <1>2, <2>1 DEF Streamed, OwnShown, ToolsReady, Streams, Continues
  <2>4. Answerable(t)
    BY <1>2, <2>1 DEF Answerable
  <2> QED  BY <2>2, <2>3, <2>4, CallParts
<1>14. CASE Reading(s, t)
  BY <1>14, CallsRead DEF Reading
<1>15. CASE Refused(s, t)
  BY <1>3, <1>15 DEF Refused, Moves, SameWire, SameStream, Streams, Continues
<1>16. CASE Closes(s, t)
  <2>1. PICK q \in StopReason :
          /\ q = "tool_use" => s.last.stop = "tool_use" /\ Has("own", s.last.blocks)
          /\ t.wire = s.wire \o <<MessageDelta(q), MessageStop>>
    BY <1>16 DEF Closes
  <2> DEFINE w == Append(s.wire, MessageDelta(q))
  <2>2. w \in Seq(Event) /\ t.wire = Append(w, MessageStop)
    <3>1. s.wire \in Seq(Event)
      BY <1>1
    <3> QED  BY <2>1, <3>1, EndsAppended
  <2>3. /\ \A k : ShowsIn(w, k) <=> ShowsIn(s.wire, k)
        /\ \A k : TellsIn(w, k) <=> TellsIn(s.wire, k) \/ q = k
    BY <1>1, ShowsAppend, EventKinds
  <2> HIDE DEF w
  <2>4. /\ \A k : ShowsIn(t.wire, k) <=> ShowsIn(s.wire, k)
        /\ \A k : TellsIn(t.wire, k) <=> TellsIn(s.wire, k) \/ q = k
    BY <2>2, <2>3, ShowsAppend, EventKinds
  <2>5. /\ t.pc = "post" /\ t.mode = s.mode /\ t.body = s.body /\ s.pc = "closing"
    BY <1>16 DEF Closes, SameRounds
  <2>6. Streamed(t) /\ OwnShown(t) /\ ToolsReady(t)
    BY <2>5 DEF Streamed, OwnShown, ToolsReady, Streams, Continues
  <2>7. q = "tool_use" => ShowsIn(s.wire, "own")
    BY <1>2, <2>1, <2>5 DEF OwnShown, Continues
  <2>8. Answerable(t)
    BY <1>2, <2>4, <2>5, <2>7 DEF Answerable, Swallowed, Streams, Continues
  <2> QED  BY <1>2, <2>5, <2>6, <2>8, CallParts
<1>17. CASE AnswersWhole(s, t)
  <2>1. t.pc = "post" /\ t.mode = "json" /\ t.body = s.body
    BY <1>17 DEF AnswersWhole, Answers, SameRounds
  <2>2. Streamed(t) /\ OwnShown(t) /\ ToolsReady(t) /\ Answerable(t)
    BY <2>1 DEF Streamed, OwnShown, ToolsReady, Answerable, Streams, Continues
  <2> QED  BY <1>2, <2>1, <2>2, CallParts
<1>18. CASE MovesOn(s, t)
  BY <1>3, <1>18 DEF MovesOn, Moves, SameWire, SameStream, Streams, Continues
<1>19. CASE CutOff(s, t)
  BY <1>3, <1>19 DEF CutOff, Moves, SameWire, SameStream, Streams, Continues
<1> QED
  BY <1>5, <1>6, <1>7, <1>8, <1>9, <1>10, <1>11, <1>12, <1>13, <1>14, <1>15, <1>16, <1>17,
     <1>18, <1>19 DEF Effect

\* CallInv is an invariant.
LEMMA CallAlways == Spec => []CallInv
<1>1. Init => CallInv
  <2> SUFFICES ASSUME Init, NEW r \in Request PROVE CallsKept(relay[r])
    BY DEF CallInv
  <2>1. relay[r].wire = <<>> /\ relay[r].pc = "idle" /\ relay[r].body = <<>>
    BY DEF Init, Idle
  <2> QED  BY <2>1, EmptyCalls, CallParts
           DEF Streamed, ToolsReady, Answerable, OwnShown, Streams, Continues
<1>2. TypeInv /\ CallInv /\ [Next]_vars => CallInv'
  <2> SUFFICES ASSUME TypeInv, CallInv, [Next]_vars PROVE \A r \in Request : CallsKept(relay'[r])
    BY DEF CallInv
  <2> DEFINE P == {s \in RelayState : CallsKept(s)}
  <2>1. \A r \in Request : relay[r] \in P
    BY DEF TypeInv, CallInv
  <2>2. ASSUME NEW s \in P, NEW t \in RelayState, Bounded(s), Effect(s, t)
        PROVE  t \in P
    BY <2>2, CallStep
  <2> HIDE DEF P
  <2>3. \A r \in Request : relay'[r] \in P
    BY <2>1, <2>2, StepsKeep DEF P
  <2> QED  BY <2>3 DEF P
<1> QED  BY <1>1, <1>2, TypeAlways, PTL DEF Spec

\* Every call of the model has one party that answers it: the proxy asks on
\* with the results of exactly the calls before, and a client that is told
\* tool_use has a call to answer (handlers.py:1057-1249).
THEOREM CallsAreAnswered == Spec => []CallsAnswered
<1>1. TypeInv /\ CallInv => CallsAnswered
  <2> SUFFICES ASSUME TypeInv, CallInv, NEW r \in Request
        PROVE  LET s == relay[r] IN
          /\ \A i \in DOMAIN s.body :
               s.body[i].role = "assistant" =>
                 /\ i < Len(s.body) /\ s.body[i + 1].role = "user"
                 /\ s.body[i + 1].blocks = Calls(s.body[i].blocks)
          /\ s.mode = "paging" /\ Told(r, "tool_use") => Shows(r, "own")
          /\ s.mode = "paging" /\ Shows(r, "vc") => Shows(r, "own") /\ s.body = <<>>
    BY DEF CallsAnswered
  <2> DEFINE s == relay[r]
  <2>1. s.wire \in Seq(Event) /\ s.body \in Body
    BY FieldsTyped DEF TypeInv
  <2>2. DOMAIN s.wire = 1..Len(s.wire) /\ DOMAIN s.body = 1..Len(s.body)
    BY <2>1 DEF Body
  <2>3. BodyPaired(s.body) /\ Answerable(s)
    BY CallParts DEF CallInv
  <2>4. \A k : Shows(r, k) <=> ShowsIn(s.wire, k)
    BY <2>2 DEF Shows, ShowsIn, Range
  <2>5. Told(r, "tool_use") => TellsIn(s.wire, "tool_use")
    BY <2>2, EventKinds DEF Told, TellsIn, Range
  <2> HIDE DEF s
  <2>6. /\ s.mode = "paging" /\ Told(r, "tool_use") => Shows(r, "own")
        /\ s.mode = "paging" /\ Shows(r, "vc") => Shows(r, "own") /\ s.body = <<>>
    BY <2>3, <2>4, <2>5 DEF Answerable
  <2> QED  BY <2>2, <2>3, <2>6 DEF BodyPaired, s
<1> QED  BY <1>1, TypeAlways, CallAlways, PTL

-----------------------------------------------------------------------------
(* The texts.                                                                *)

\* If all are in S, all are selected.
LEMMA OnlyAll ==
  ASSUME NEW T, NEW S, NEW s \in Seq(T), \A i \in 1..Len(s) : s[i] \in S
  PROVE  Only(s, S) = s
<1> DEFINE Q(u) == (\A i \in 1..Len(u) : u[i] \in S) => Only(u, S) = u
           P == {u \in Seq(T) : Q(u)}
<1>1. <<>> \in P
  BY OnlyEmpty
<1>2. ASSUME NEW u \in Seq(T), u \in P, NEW x \in T PROVE Append(u, x) \in P
  <2> DEFINE v == Append(u, x)
  <2>1. v \in Seq(T) /\ Len(v) = Len(u) + 1 /\ v[Len(u) + 1] = x /\ Len(u) \in Nat
        /\ \A k \in 1..Len(u) : v[k] = u[k]
    OBVIOUS
  <2>2. Only(v, S) = IF x \in S THEN Append(Only(u, S), x) ELSE Only(u, S)
    BY OnlyAppend
  <2>3. ASSUME \A i \in 1..Len(v) : v[i] \in S PROVE Only(v, S) = v
    <3>1. x \in S /\ \A i \in 1..Len(u) : u[i] \in S
      <4> HIDE DEF v
      <4> QED  BY <2>1, <2>3
    <3>2. Only(u, S) = u
      BY <1>2, <3>1
    <3> QED  BY <2>2, <3>1, <3>2
  <2> QED  BY <2>1, <2>3
<1> HIDE DEF P
<1>3. P \in SUBSET Seq(T)
  BY DEF P
<1>4. P = Seq(T)
  BY <1>1, <1>2, <1>3, SeqInductionOver
<1> QED  BY <1>4 DEF P

\* If none is, none is.
LEMMA OnlyNone ==
  ASSUME NEW T, NEW S, NEW s \in Seq(T), \A i \in 1..Len(s) : s[i] \notin S
  PROVE  Only(s, S) = <<>>
<1>1. \A j \in 1..Len(Only(s, S)) : FALSE
  <2>1. Only(s, S) \in Seq(S)
    BY OnlyTyped
  <2>2. \A j \in 1..Len(Only(s, S)) : \E i \in 1..Len(s) : Only(s, S)[j] = s[i]
    BY OnlyFrom
  <2>3. \A j \in 1..Len(Only(s, S)) : Only(s, S)[j] \in S
    BY <2>1
  <2> QED  BY <2>2, <2>3
<1>2. Only(s, S) \in Seq(T)
  BY OnlyTyped
<1> HIDE DEF Only
<1> QED  BY <1>1, <1>2

\* The texts of what a client has received.
TextsIn(w) == LET shown == Only(w, TextPiece) IN [j \in DOMAIN shown |-> shown[j].block]

\* Which events are texts.
LEMMA TextPieces ==
  ASSUME NEW e \in Event
  PROVE  e \in TextPiece <=> e.ev = "block" /\ e.block.kind = "text"
<1>1. CASE e.ev = "block"
  <2>1. e \in BlockEvent
    BY <1>1, EventIndex
  <2> QED  BY <2>1 DEF BlockEvent, TextPiece
<1>2. CASE e.ev # "block"
  BY <1>2 DEF TextPiece
<1> QED  BY <1>1, <1>2

\* The texts of a wire, one for each selected event.
LEMMA TextsOf ==
  ASSUME NEW w \in Seq(Event)
  PROVE  /\ Only(w, TextPiece) \in Seq(Event)
         /\ Len(TextsIn(w)) = Len(Only(w, TextPiece)) /\ TextsIn(w) \in Seq(Block)
         /\ \A i \in 1..Len(TextsIn(w)) : TextsIn(w)[i] = Only(w, TextPiece)[i].block
<1> DEFINE x == Only(w, TextPiece)
<1>1. x \in Seq(Event) /\ x \in Seq(TextPiece)
  BY OnlyTyped
<1>2. TextsIn(w) = [j \in DOMAIN x |-> x[j].block]
  BY DEF TextsIn
<1> HIDE DEF x
<1>3. \A i \in 1..Len(x) : x[i].block \in Block
  <2>1. \A i \in 1..Len(x) : x[i] \in TextPiece
    BY <1>1
  <2> QED  BY <2>1 DEF TextPiece
<1> QED  BY <1>1, <1>2, <1>3 DEF x

\* The texts with one more event.
LEMMA TextsAppend ==
  ASSUME NEW w \in Seq(Event), NEW e \in Event
  PROVE  TextsIn(Append(w, e)) = IF e.ev = "block" /\ e.block.kind = "text"
                                 THEN Append(TextsIn(w), e.block) ELSE TextsIn(w)
<1> DEFINE x == Only(w, TextPiece)
<1>1. Only(Append(w, e), TextPiece) = IF e \in TextPiece THEN Append(x, e) ELSE x
  BY OnlyAppend
<1>2. x \in Seq(Event)
  BY TextsOf
<1>3. /\ TextsIn(w) = [j \in DOMAIN x |-> x[j].block]
      /\ TextsIn(Append(w, e)) = [j \in DOMAIN Only(Append(w, e), TextPiece) |->
                                    Only(Append(w, e), TextPiece)[j].block]
  BY DEF TextsIn
<1> HIDE DEF x
<1>4. CASE e \in TextPiece
  <2> DEFINE y == Append(x, e)
  <2>1. TextsIn(Append(w, e)) = [j \in DOMAIN y |-> y[j].block]
    BY <1>1, <1>3, <1>4
  <2>2. /\ Len(x) \in Nat /\ Len(y) = Len(x) + 1 /\ y[Len(x) + 1] = e
        /\ \A i \in 1..Len(x) : y[i] = x[i]
    BY <1>2, Appended
  <2>3. DOMAIN x = 1..Len(x) /\ DOMAIN y = 1..Len(y)
    BY <1>2
  <2> HIDE DEF y
  <2>4. [j \in DOMAIN y |-> y[j].block] = Append([j \in DOMAIN x |-> x[j].block], e.block)
    BY <2>2, <2>3
  <2> QED  BY <1>3, <1>4, <2>1, <2>4, TextPieces
<1>5. CASE e \notin TextPiece
  BY <1>1, <1>3, <1>5, TextPieces
<1> QED  BY <1>4, <1>5

\* The texts of two parts.
LEMMA TextsConcat ==
  ASSUME NEW v \in Seq(Event), NEW w \in Seq(Event)
  PROVE  TextsIn(v \o w) = TextsIn(v) \o TextsIn(w)
<1> DEFINE P == {u \in Seq(Event) : TextsIn(v \o u) = TextsIn(v) \o TextsIn(u)}
<1>0. TextsIn(<<>>) = <<>> /\ TextsIn(v) \in Seq(Block)
  <2>1. Only(<<>>, TextPiece) = <<>> /\ <<>> \in Seq(Event) /\ Len(<<>>) = 0
    BY OnlyEmpty
  <2>2. Len(TextsIn(<<>>)) = 0 /\ TextsIn(<<>>) \in Seq(Block)
    BY <2>1, TextsOf, Zenon
  <2>3. TextsIn(v) \in Seq(Block)
    BY TextsOf
  <2> HIDE DEF TextsIn
  <2> QED  BY <2>2, <2>3
<1>1. <<>> \in P
  BY <1>0
<1>2. ASSUME NEW u \in Seq(Event), u \in P, NEW x \in Event PROVE Append(u, x) \in P
  <2>1. v \o Append(u, x) = Append(v \o u, x) /\ v \o u \in Seq(Event) /\ Append(u, x) \in Seq(Event)
    OBVIOUS
  <2>2. TextsIn(v) \in Seq(Block) /\ TextsIn(u) \in Seq(Block)
    BY TextsOf
  <2>3. TextsIn(v) \o Append(TextsIn(u), x.block) = Append(TextsIn(v) \o TextsIn(u), x.block)
    <3>1. x.block = x.block
      OBVIOUS
    <3> HIDE DEF TextsIn
    <3> QED  BY <2>2
  <2>4. TextsIn(Append(u, x)) = IF x.ev = "block" /\ x.block.kind = "text"
                                THEN Append(TextsIn(u), x.block) ELSE TextsIn(u)
    BY TextsAppend
  <2>5. TextsIn(Append(v \o u, x)) = IF x.ev = "block" /\ x.block.kind = "text"
                                     THEN Append(TextsIn(v \o u), x.block) ELSE TextsIn(v \o u)
    BY <2>1, TextsAppend
  <2>6. TextsIn(v \o u) = TextsIn(v) \o TextsIn(u)
    BY <1>2
  <2>7. TextsIn(v \o Append(u, x)) = TextsIn(v) \o TextsIn(Append(u, x))
    BY <2>1, <2>3, <2>4, <2>5, <2>6, Zenon
  <2> QED  BY <2>1, <2>7
<1> HIDE DEF P
<1>3. P \in SUBSET Seq(Event)
  BY DEF P
<1>4. P = Seq(Event)
  BY <1>1, <1>2, <1>3, SeqInductionOver
<1> QED  BY <1>4 DEF P

\* No text is shown.
LEMMA TextsNone ==
  ASSUME NEW w \in Seq(Event), ~ ShowsIn(w, "text")
  PROVE  TextsIn(w) = <<>>
<1>1. \A i \in 1..Len(w) : w[i] \notin TextPiece
  BY TextPieces DEF ShowsIn
<1>2. Only(w, TextPiece) = <<>>
  BY <1>1, OnlyNone
<1> QED  BY <1>2, TextsOf

\* One more block.
LEMMA OfAppend ==
  ASSUME NEW bs \in Seq(Block), NEW b \in Block, NEW kind
  PROVE  Of(kind, Append(bs, b)) = IF b.kind = kind THEN Append(Of(kind, bs), b) ELSE Of(kind, bs)
<1> DEFINE S == {c \in Block : c.kind = kind}
<1>1. Only(Append(bs, b), S) = IF b \in S THEN Append(Only(bs, S), b) ELSE Only(bs, S)
  BY OnlyAppend
<1>2. b \in S <=> b.kind = kind
  OBVIOUS
<1> QED  BY <1>1, <1>2 DEF Of

\* Numbering one more block.
LEMMA NumberedAppend ==
  ASSUME NEW bs \in Seq(Block), NEW b \in Block, NEW n \in Nat
  PROVE  Numbered(Append(bs, b), n) = Append(Numbered(bs, n), Piece(b, n + Len(bs)))
<1> DEFINE x == Append(bs, b)
           y == Numbered(bs, n)
           e == Piece(b, n + Len(bs))
<1>1. /\ Len(bs) \in Nat /\ Len(x) = Len(bs) + 1 /\ x[Len(bs) + 1] = b
      /\ \A i \in 1..Len(bs) : x[i] = bs[i]
  BY Appended
<1>2. x \in Seq(Block)
  OBVIOUS
<1>3. /\ y \in Seq(Event) /\ Len(y) = Len(bs)
      /\ \A i \in 1..Len(bs) : y[i] = Piece(bs[i], n + i - 1)
  BY NumberedTyped
<1>4. /\ Numbered(x, n) \in Seq(Event) /\ Len(Numbered(x, n)) = Len(x)
      /\ \A i \in 1..Len(x) : Numbered(x, n)[i] = Piece(x[i], n + i - 1)
  BY <1>2, NumberedTyped
<1>5. e \in Event
  BY <1>1, EventsTyped
<1> HIDE DEF x, y, e
<1>6. Append(y, e) \in Seq(Event) /\ Len(Append(y, e)) = Len(x)
  BY <1>1, <1>3, <1>5
<1>7. ASSUME NEW i \in 1..Len(x) PROVE Numbered(x, n)[i] = Append(y, e)[i]
  <2>1. CASE i \in 1..Len(bs)
    <3>1. Append(y, e)[i] = y[i]
      BY <1>3, <2>1
    <3> QED  BY <1>1, <1>3, <1>4, <2>1, <3>1
  <2>2. CASE i = Len(bs) + 1
    <3>1. Append(y, e)[i] = e
      BY <1>3, <2>2
    <3>2. n + i - 1 = n + Len(bs)
      BY <1>1, <2>2
    <3> QED  BY <1>1, <1>4, <2>2, <3>1, <3>2, Zenon DEF e
  <2>3. i \in 1..Len(bs) \/ i = Len(bs) + 1
    BY ONLY <1>1, i \in 1..Len(x)
  <2> QED  BY <2>1, <2>2, <2>3
<1>8. Numbered(x, n) = Append(y, e)
  BY <1>4, <1>6, <1>7, SeqEqual
<1> QED  BY <1>8 DEF x, y, e

\* The texts of what the proxy adds are those it was given.
LEMMA NumberedTexts ==
  ASSUME NEW bs \in Seq(Block), NEW n \in Nat
  PROVE  TextsIn(Numbered(bs, n)) = Of("text", bs)
<1> DEFINE P == {u \in Seq(Block) : TextsIn(Numbered(u, n)) = Of("text", u)}
<1>1. <<>> \in P
  <2>1. Numbered(<<>>, n) \in Seq(Event) /\ Len(Numbered(<<>>, n)) = 0
    BY NumberedTyped, EmptySeq
  <2>2. Numbered(<<>>, n) = <<>>
    BY <2>1
  <2>3. ~ ShowsIn(<<>>, "text")
    BY EmptyCalls
  <2>4. TextsIn(<<>>) = <<>>
    BY <2>3, EmptySeq, TextsNone
  <2>5. Of("text", <<>>) = <<>>
    BY OnlyEmpty DEF Of
  <2> QED  BY <2>2, <2>4, <2>5, EmptySeq
<1>2. ASSUME NEW u \in Seq(Block), u \in P, NEW x \in Block PROVE Append(u, x) \in P
  <2> DEFINE e == Piece(x, n + Len(u))
  <2>1. Numbered(Append(u, x), n) = Append(Numbered(u, n), e)
    BY NumberedAppend
  <2>2. e \in Event /\ e.ev = "block" /\ e.block = x
    BY EventsTyped, EventKinds
  <2>3. Numbered(u, n) \in Seq(Event)
    BY NumberedTyped
  <2> HIDE DEF e
  <2>4. TextsIn(Append(Numbered(u, n), e))
          = IF x.kind = "text" THEN Append(TextsIn(Numbered(u, n)), x) ELSE TextsIn(Numbered(u, n))
    BY <2>2, <2>3, TextsAppend
  <2>5. Of("text", Append(u, x)) = IF x.kind = "text" THEN Append(Of("text", u), x) ELSE Of("text", u)
    BY OfAppend
  <2>6. TextsIn(Numbered(u, n)) = Of("text", u)
    BY <1>2
  <2>7. TextsIn(Numbered(Append(u, x), n)) = Of("text", Append(u, x))
    BY <2>1, <2>4, <2>5, <2>6, Zenon
  <2> QED  BY <2>7
<1> HIDE DEF P
<1>3. P \in SUBSET Seq(Block)
  BY DEF P
<1>4. P = Seq(Block)
  BY <1>1, <1>2, <1>3, SeqInductionOver
<1> QED  BY <1>4 DEF P

\* A continuation shows all of its texts.
LEMMA ShownTextsOf ==
  ASSUME NEW m \in [blocks : Seq(Block), stop : StopReason]
  PROVE  Of("text", Shown(m)) = Of("text", m.blocks)
<1> DEFINE S == {b \in Block : b.kind = "text"}
           x == Of("text", m.blocks)
           y == IF OnlyVc(m) THEN <<>> ELSE Of("own", m.blocks)
<1>1. m.blocks \in Seq(Block)
  OBVIOUS
<1>2. x \in Seq(Block) /\ (\A i \in 1..Len(x) : x[i].kind = "text")
  BY <1>1, OfTyped
<1>3. y \in Seq(Block) /\ \A i \in 1..Len(y) : y[i].kind = "own"
  <2>1. CASE OnlyVc(m)
    BY <2>1, EmptySeq
  <2>2. CASE ~ OnlyVc(m)
    <3>1. y = Of("own", m.blocks)
      BY <2>2
    <3> HIDE DEF y
    <3> QED  BY <1>1, <3>1, OfTyped
  <2> QED  BY <2>1, <2>2
<1>4. Shown(m) = x \o y
  BY DEF Shown
<1> HIDE DEF x, y
<1>5. \A i \in 1..Len(x) : x[i] \in S
  BY <1>2
<1>6. \A i \in 1..Len(y) : y[i] \notin S
  BY <1>3
<1> HIDE DEF S
<1>7. Only(x \o y, S) = Only(x, S) \o Only(y, S)
  BY <1>2, <1>3, OnlyConcat
<1>8. Only(x, S) = x
  BY <1>2, <1>5, OnlyAll
<1>9. Only(y, S) = <<>>
  BY <1>3, <1>6, OnlyNone
<1>10. x \o <<>> = x
  BY <1>2
<1>11. Of("text", x \o y) = Only(x \o y, S)
  BY DEF Of, S
<1> QED  BY <1>4, <1>7, <1>8, <1>9, <1>10, <1>11 DEF x

\* TextsShown by its parts.
LEMMA TextParts ==
  ASSUME NEW s
  PROVE  TextsShown(s) <=> s.texts = TextsIn(s.wire)
                           /\ (s.pc = "stream" => ~ ShowsIn(s.suppressed, "text"))
  BY DEF TextsShown, ShownTexts, TextsIn

\* A step keeps the texts and shows them, or does neither.
LEMMA TextStep ==
  ASSUME NEW s \in RelayState, NEW t \in RelayState, Bounded(s), TextsShown(s), Effect(s, t)
  PROVE  TextsShown(t)
<1>1. /\ s.wire \in Seq(Event) /\ s.texts \in Seq(Block) /\ s.suppressed \in Seq(Event)
      /\ s.forwarded \in Nat /\ s.sent \in Seq(Block) /\ Len(s.sent) \in Nat
  BY FieldsTyped
<1>2. s.texts = TextsIn(s.wire) /\ (s.pc = "stream" => ~ ShowsIn(s.suppressed, "text"))
  BY TextParts
\* A step after the stream that shows the client nothing, or no block.
<1>3. ASSUME NEW e \in Event, e.ev # "block", NEW w \in Seq(Event)
      PROVE  TextsIn(Append(w, e)) = TextsIn(w)
  BY <1>3, TextsAppend
<1>4. ASSUME t.wire = s.wire, t.texts = s.texts, t.pc # "stream"
      PROVE  TextsShown(t)
  BY <1>2, <1>4, TextParts
<1>5. CASE Opens(s, t)
  <2>1. t.wire = <<>> /\ t.texts = <<>> /\ t.suppressed = <<>>
    BY <1>5 DEF Opens, Arrives, SameWire, SameStream, Idle
  <2>2. \A k : ~ ShowsIn(<<>>, k)
    BY EmptyCalls
  <2>3. TextsIn(<<>>) = <<>>
    BY <2>2, EmptySeq, TextsNone
  <2> QED  BY <2>1, <2>2, <2>3, TextParts
<1>6. CASE Ends(s, t)
  BY <1>4, <1>6 DEF Ends, Leaves
<1>7. CASE Marks(s, t)
  <2>1. TextsIn(t.wire) = TextsIn(s.wire)
    BY <1>1, <1>3, <1>7, EventsTyped, EventKinds DEF Marks
  <2> QED  BY <1>2, <1>7, <2>1, TextParts DEF Marks
<1>8. CASE TakesBlock(s, t)
  <2>1. PICK b \in Block :
          Forwards(s, t, b) \/ (b.kind = "vc" /\ Suppresses(s, t, b))
    BY <1>8 DEF TakesBlock
  <2> DEFINE e == Piece(b, Len(s.sent))
  <2>2. e \in Event /\ e.ev = "block" /\ e.block = b
    BY <1>1, EventsTyped, EventKinds
  <2>3. s.pc = "stream" /\ ~ ShowsIn(s.suppressed, "text")
    BY <1>2, <1>8 DEF TakesBlock, Streaming1
  <2> HIDE DEF e
  <2>4. CASE Forwards(s, t, b)
    <3>1. /\ t.wire = Append(s.wire, e) /\ t.suppressed = s.suppressed
          /\ t.texts = IF b.kind = "text" THEN Append(s.texts, b) ELSE s.texts
      BY <2>4 DEF Forwards, e
    <3>2. TextsIn(Append(s.wire, e)) = IF b.kind = "text" THEN Append(TextsIn(s.wire), b)
                                       ELSE TextsIn(s.wire)
      BY <1>1, <2>2, TextsAppend
    <3>3. t.texts = TextsIn(t.wire)
      BY <1>2, <3>1, <3>2, Zenon
    <3> QED  BY <2>3, <3>1, <3>3, TextParts
  <2>5. CASE b.kind = "vc" /\ Suppresses(s, t, b)
    <3>1. /\ t.wire = s.wire /\ t.texts = s.texts /\ t.suppressed = Append(s.suppressed, e)
      BY <2>5 DEF Suppresses, SameWire, e
    <3>2. ~ ShowsIn(t.suppressed, "text")
      BY <1>1, <2>2, <2>3, <2>5, <3>1, ShowsAppend
    <3> QED  BY <1>2, <3>1, <3>2, TextParts
  <2> QED  BY <2>1, <2>4, <2>5
<1>9. CASE TakesDelta(s, t)
  <2>1. PICK stop \in StopReason : Deltas(s, t, stop)
    BY <1>9 DEF TakesDelta
  <2> DEFINE d == MessageDelta(stop)
  <2>2. d \in Event /\ d.ev # "block"
    BY EventsTyped, EventKinds
  <2>3. s.pc = "stream" /\ ~ ShowsIn(s.suppressed, "text") /\ ~ ShowsIn(<<>>, "text")
    BY <1>2, <1>9, EmptyCalls DEF TakesDelta, Streaming1
  <2>4. t.texts = s.texts /\ t.suppressed \in {s.suppressed, <<>>}
        /\ t.wire \in {s.wire, Append(s.wire, d), Append(s.wire \o s.suppressed, d)}
    BY <2>1 DEF Deltas
  <2> HIDE DEF d
  <2>5. TextsIn(s.wire \o s.suppressed) = TextsIn(s.wire)
    <3>1. TextsIn(s.wire \o s.suppressed) = TextsIn(s.wire) \o TextsIn(s.suppressed)
      BY <1>1, TextsConcat
    <3>2. TextsIn(s.suppressed) = <<>>
      BY <1>1, <2>3, TextsNone
    <3>3. s.texts \o <<>> = s.texts
      BY <1>1
    <3> QED  BY <1>2, <3>1, <3>2, <3>3
  <2>6. s.wire \o s.suppressed \in Seq(Event)
    BY <1>1, Concatenated
  <2>7. TextsIn(t.wire) = TextsIn(s.wire)
    BY <1>1, <1>3, <2>2, <2>4, <2>5, <2>6
  <2> QED  BY <1>2, <2>3, <2>4, <2>7, TextParts
<1>10. CASE TakesStop(s, t)
  <2>1. /\ t.pc = "closed" /\ t.texts = s.texts
        /\ t.wire \in {s.wire, Append(s.wire, MessageStop)}
    BY <1>10 DEF TakesStop
  <2>2. TextsIn(t.wire) = TextsIn(s.wire)
    BY <1>1, <1>3, <2>1, EventsTyped, EventKinds
  <2> QED  BY <1>2, <2>1, <2>2, TextParts
<1>11. CASE BreaksOff(s, t)
  BY <1>4, <1>11 DEF BreaksOff, Moves, SameWire
<1>12. CASE Turns(s, t)
  BY <1>4, <1>12 DEF Turns, Moves, SameWire
<1>13. CASE Calling(s, t)
  BY <1>4, <1>13 DEF Calling, Asks, SameWire
<1>14. CASE Reading(s, t)
  <2>1. PICK m \in [blocks : Seq(Block), stop : StopReason] : Reads(s, t, m)
    BY <1>14 DEF Reading
  <2> DEFINE x == Numbered(Shown(m), s.forwarded)
             y == Of("text", m.blocks)
  <2>2. /\ t.texts = s.texts \o y /\ t.wire = s.wire \o x /\ t.pc # "stream"
    BY <2>1 DEF Reads
  <2>3. x \in Seq(Event) /\ TextsIn(x) = y
    <3>1. Shown(m) \in Seq(Block) /\ Of("text", Shown(m)) = y
      BY ShownTyped, ShownTextsOf
    <3> QED  BY <1>1, <3>1, NumberedTyped, NumberedTexts
  <2> HIDE DEF x, y
  <2>4. TextsIn(t.wire) = TextsIn(s.wire) \o TextsIn(x)
    BY <1>1, <2>2, <2>3, TextsConcat
  <2>5. t.texts = TextsIn(t.wire)
    BY <1>2, <2>2, <2>3, <2>4, Zenon
  <2> QED  BY <2>2, <2>5, TextParts
<1>15. CASE Refused(s, t)
  BY <1>4, <1>15 DEF Refused, Moves, SameWire
<1>16. CASE Closes(s, t)
  <2>1. PICK q \in StopReason : t.wire = s.wire \o <<MessageDelta(q), MessageStop>>
    BY <1>16 DEF Closes
  <2> DEFINE w == Append(s.wire, MessageDelta(q))
  <2>2. w \in Seq(Event) /\ t.wire = Append(w, MessageStop)
    <3>1. s.wire \in Seq(Event)
      BY <1>1
    <3> QED  BY <2>1, <3>1, EndsAppended
  <2>3. TextsIn(w) = TextsIn(s.wire)
    BY <1>1, <1>3, EventsTyped, EventKinds
  <2> HIDE DEF w
  <2>4. TextsIn(t.wire) = TextsIn(s.wire)
    BY <1>3, <2>2, <2>3, EventsTyped, EventKinds
  <2> QED  BY <1>2, <1>16, <2>4, TextParts DEF Closes
<1>17. CASE AnswersWhole(s, t)
  <2>1. PICK m \in [blocks : Seq(Block), stop : StopReason] : Answers(s, t, m)
    BY <1>17 DEF AnswersWhole
  <2> DEFINE u == Numbered(m.blocks, 0)
             d == MessageDelta(m.stop)
             w == Append(u, d)
  <2>2. u \in Seq(Event) /\ TextsIn(u) = Of("text", m.blocks)
    BY NumberedTyped, NumberedTexts
  <2>3. d \in Event /\ d.ev # "block"
    BY EventsTyped, EventKinds
  <2> HIDE DEF u, d
  <2>4. w \in Seq(Event) /\ t.wire = Append(w, MessageStop)
    <3>1. t.wire = w \o <<MessageStop>>
      BY <2>1, Zenon DEF Answers, u, d
    <3>2. w \in Seq(Event)
      BY <2>2, <2>3
    <3> HIDE DEF w
    <3> QED  BY <3>1, <3>2, EventsTyped
  <2>5. TextsIn(w) = TextsIn(u)
    BY <1>3, <2>2, <2>3
  <2> HIDE DEF w
  <2>6. TextsIn(t.wire) = TextsIn(w)
    BY <1>3, <2>4, EventsTyped, EventKinds
  <2> QED  BY <2>1, <2>2, <2>5, <2>6, TextParts DEF Answers
<1>18. CASE MovesOn(s, t)
  BY <1>4, <1>18 DEF MovesOn, Moves, SameWire
<1>19. CASE CutOff(s, t)
  BY <1>4, <1>19 DEF CutOff, Moves, SameWire
<1> QED
  BY <1>5, <1>6, <1>7, <1>8, <1>9, <1>10, <1>11, <1>12, <1>13, <1>14, <1>15, <1>16, <1>17,
     <1>18, <1>19 DEF Effect

\* TextInv is an invariant.
LEMMA TextAlways == Spec => []TextInv
<1>1. Init => TextInv
  <2> SUFFICES ASSUME Init, NEW r \in Request PROVE TextsShown(relay[r])
    BY DEF TextInv
  <2>1. relay[r].wire = <<>> /\ relay[r].pc = "idle" /\ relay[r].texts = <<>>
    BY DEF Init, Idle
  <2>2. TextsIn(<<>>) = <<>>
    BY EmptyCalls, EmptySeq, TextsNone
  <2> QED  BY <2>1, <2>2, TextParts
<1>2. TypeInv /\ TextInv /\ [Next]_vars => TextInv'
  <2> SUFFICES ASSUME TypeInv, TextInv, [Next]_vars PROVE \A r \in Request : TextsShown(relay'[r])
    BY TextParts DEF TextInv, TextsShown, ShownTexts
  <2> DEFINE P == {s \in RelayState : TextsShown(s)}
  <2>1. \A r \in Request : relay[r] \in P
    BY DEF TypeInv, TextInv
  <2>2. ASSUME NEW s \in P, NEW t \in RelayState, Bounded(s), Effect(s, t)
        PROVE  t \in P
    BY <2>2, TextStep
  <2> HIDE DEF P
  <2>3. \A r \in Request : relay'[r] \in P
    BY <2>1, <2>2, StepsKeep DEF P
  <2> QED  BY <2>3 DEF P
<1> QED  BY <1>1, <1>2, TypeAlways, PTL DEF Spec

-----------------------------------------------------------------------------
(* The history.                                                              *)

\* The answers to q with one more entry.
LEMMA AnswersAppend ==
  ASSUME TypeInv, NEW q \in Request, NEW e \in Entry,
         history' = Append(history, e)
  PROVE  AnswersTo(q)' = IF e.role = "assistant" /\ e.by = q THEN Append(AnswersTo(q), e)
                         ELSE AnswersTo(q)
<1> DEFINE S == [role : {"assistant"}, by : {q}, texts : Seq(Block)]
<1>1. history \in Seq(Entry)
  BY DEF TypeInv
<1>2. Only(Append(history, e), S) = IF e \in S THEN Append(Only(history, S), e)
                                    ELSE Only(history, S)
  BY <1>1, OnlyAppend
<1>3. e \in S <=> e.role = "assistant" /\ e.by = q
  BY DEF Entry
<1>4. AnswersTo(q) = Only(history, S) /\ AnswersTo(q)' = Only(history', S)
  BY DEF AnswersTo
<1> QED  BY <1>2, <1>3, <1>4

\* Answers are entries.
LEMMA AnswersTyped ==
  ASSUME TypeInv, NEW q \in Request
  PROVE  AnswersTo(q) \in Seq(Entry)
<1>1. history \in Seq(Entry)
  BY DEF TypeInv
<1> QED  BY <1>1, OnlyTyped DEF AnswersTo

\* What AnswerKept says of a handler's state s and of its answers.
Recorded(s, mine, gone) ==
  /\ Early(s) => mine = <<>>
  /\ Len(mine) <= 1
  /\ \A i \in 1..Len(mine) : mine[i].texts = s.texts
  /\ s.pc \in {"mark", "done"} /\ s.texts # <<>> /\ gone = "none" => mine # <<>>

\* AnswerKept in these terms, before and after a step.
LEMMA RecordedKept ==
  ASSUME NEW r \in Request
  PROVE  /\ AnswerKept(r) <=> Recorded(relay[r], AnswersTo(r), deletion)
         /\ AnswerKept(r)' <=> Recorded(relay'[r], AnswersTo(r)', deletion')
  BY DEF AnswerKept, Recorded, Early

\* A step of any request, or a deletion, keeps what the history says of q.
LEMMA HistoryStep ==
  ASSUME TypeInv, HistoryInv, [Next]_vars, NEW q \in Request
  PROVE  Recorded(relay'[q], AnswersTo(q)', deletion')
<1>1. Recorded(relay[q], AnswersTo(q), deletion)
  BY RecordedKept DEF HistoryInv
<1>2. CASE relay' = relay /\ history' = history
           /\ (deletion' = deletion \/ (deletion = "none" /\ deletion' = "marked"))
  <2>1. AnswersTo(q)' = AnswersTo(q)
    BY <1>2 DEF AnswersTo
  <2> QED  BY <1>1, <1>2, <2>1 DEF Recorded
<1>3. CASE relay' = relay /\ history' = <<>> /\ deletion' = "cleared"
  <2>1. AnswersTo(q)' = <<>> /\ Len(<<>>) = 0
    BY <1>3, OnlyEmpty DEF AnswersTo
  <2> QED  BY <1>1, <1>3, <2>1 DEF Recorded
<1>4. ASSUME NEW r \in Request, Steps(r, relay[r], relay'[r]), deletion' = deletion,
             history' = history \/ history' = Append(history, Question(r)),
             Quiet(relay[r], relay'[r])
      PROVE  Recorded(relay'[q], AnswersTo(q)', deletion')
  <2>1. AnswersTo(q)' = AnswersTo(q)
    <3>1. CASE history' = history
      BY <3>1 DEF AnswersTo
    <3>2. CASE history' = Append(history, Question(r))
      <4>1. Question(r) \in Entry /\ Question(r).role = "user"
        BY EntriesTyped DEF Question
      <4> QED  BY <3>2, <4>1, AnswersAppend
    <3> QED  BY <1>4, <3>1, <3>2
  <2>2. CASE q # r
    <3>1. relay'[q] = relay[q]
      BY <1>4, <2>2 DEF Steps
    <3> QED  BY <1>1, <1>4, <2>1, <3>1
  <2>3. CASE q = r
    <3> DEFINE s == relay[q]
               t == relay'[q]
               mine == AnswersTo(q)
    <3>1. /\ s.pc # "record" /\ t.pc # "mark"
          /\ Early(t) => Early(s)
          /\ Early(s) \/ t.texts = s.texts
          /\ t.pc = "done" => t.texts = <<>> \/ deletion # "none" \/ s.pc = "mark"
      BY <1>4, <2>3 DEF Quiet
    <3>2. /\ Early(s) => mine = <<>>
          /\ Len(mine) <= 1
          /\ \A i \in 1..Len(mine) : mine[i].texts = s.texts
          /\ s.pc \in {"mark", "done"} /\ s.texts # <<>> /\ deletion = "none" => mine # <<>>
      BY <1>1 DEF Recorded
    <3>3. Early(s) => s.pc # "mark"
      BY DEF Early
    <3> HIDE DEF s, t, mine
    <3>4. Len(<<>>) = 0
      OBVIOUS
    <3>5. \A i \in 1..Len(mine) : mine[i].texts = t.texts
      BY <3>1, <3>2, <3>4
    <3>6. Recorded(t, mine, deletion)
      BY <3>1, <3>2, <3>3, <3>5 DEF Recorded
    <3> QED  BY <1>4, <2>1, <3>6 DEF t, mine
  <2> QED  BY <2>2, <2>3
<1>5. ASSUME NEW r \in Request, Steps(r, relay[r], relay'[r]), deletion' = deletion,
             history' = Append(history, AnswerOf(r)), relay[r].pc = "record",
             relay'[r].texts = relay[r].texts, relay'[r].pc \in {"mark", "done"}
      PROVE  Recorded(relay'[q], AnswersTo(q)', deletion')
  <2>0. AnswerOf(r) \in Entry /\ AnswerOf(r).role = "assistant" /\ AnswerOf(r).by = r
        /\ AnswerOf(r).texts = relay[r].texts
    BY EntriesTyped DEF AnswerOf
  <2>1. AnswersTo(q)' = IF r = q THEN Append(AnswersTo(q), AnswerOf(r)) ELSE AnswersTo(q)
    BY <1>5, <2>0, AnswersAppend
  <2>2. CASE q # r
    <3>1. relay'[q] = relay[q]
      BY <1>5, <2>2 DEF Steps
    <3> QED  BY <1>1, <1>5, <2>1, <2>2, <3>1
  <2>3. CASE q = r
    <3>1. AnswersTo(q) = <<>>
      BY <1>1, <1>5, <2>3 DEF Recorded, Early
    <3> DEFINE e == AnswerOf(r)
               mine == Append(AnswersTo(q), e)
    <3>2. Len(mine) = 1 /\ mine[1] = e /\ mine # <<>>
      BY <3>1
    <3>3. AnswersTo(q)' = mine
      BY <2>1, <2>3
    <3>4. e.texts = relay'[q].texts
      BY <1>5, <2>0, <2>3
    <3> HIDE DEF mine, e
    <3>5. Recorded(relay'[q], mine, deletion')
      BY <1>5, <2>3, <3>2, <3>4 DEF Recorded, Early
    <3> QED  BY <3>3, <3>5
  <2> QED  BY <2>2, <2>3
<1> QED  BY <1>2, <1>3, <1>4, <1>5, HistorySteps

\* HistoryInv is an invariant.
LEMMA HistoryAlways == Spec => []HistoryInv
<1>1. Init => HistoryInv
  <2> SUFFICES ASSUME Init, NEW r \in Request PROVE AnswerKept(r)
    BY DEF HistoryInv
  <2>1. relay[r].pc = "idle" /\ relay[r].texts = <<>> /\ Len(<<>>) = 0
    BY DEF Init, Idle
  <2>2. AnswersTo(r) = <<>>
    BY OnlyEmpty DEF Init, AnswersTo
  <2> QED  BY <2>1, <2>2 DEF AnswerKept
<1>2. TypeInv /\ HistoryInv /\ [Next]_vars => HistoryInv'
  BY HistoryStep, RecordedKept DEF HistoryInv
<1> QED  BY <1>1, <1>2, TypeAlways, PTL DEF Spec

\* What the history holds as an answer is what the client was shown, once,
\* and no answer is missing from a session that is not deleted.
THEOREM AnswersAreRecorded == Spec => []RecordedIsShown
<1>1. TypeInv /\ TextInv /\ HistoryInv => RecordedIsShown
  <2> SUFFICES ASSUME TypeInv, TextInv, HistoryInv, NEW r \in Request
        PROVE  LET shown == ShownTexts(relay[r])
                   mine == AnswersTo(r)
               IN  /\ Len(mine) <= 1
                   /\ \A i \in DOMAIN mine : mine[i].texts = shown
                   /\ In(r, "done") /\ shown # <<>> /\ deletion = "none" => mine # <<>>
    BY DEF RecordedIsShown
  <2> DEFINE shown == ShownTexts(relay[r])
             mine == AnswersTo(r)
  <2>1. relay[r].texts = shown
    BY DEF TextInv, TextsShown
  <2>2. DOMAIN mine = 1..Len(mine)
    BY AnswersTyped
  <2>3. Recorded(relay[r], mine, deletion)
    BY RecordedKept DEF HistoryInv
  <2> HIDE DEF shown, mine
  <2> QED  BY <2>1, <2>2, <2>3 DEF Recorded, In, shown, mine
<1> QED  BY <1>1, TypeAlways, TextAlways, HistoryAlways, PTL
=============================================================================
