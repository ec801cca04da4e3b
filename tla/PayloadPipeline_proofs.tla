----------------------- MODULE PayloadPipeline_proofs -----------------------
(***************************************************************************)
(* Theorems about the rewriting of requests: type correctness, that all     *)
(* the stubs of a payload offer is stored, and that a payload begins with   *)
(* a user and never parts a tool call from its result.                      *)
(***************************************************************************)
EXTENDS PayloadPipeline, FiniteSetTheorems, SequenceTheorems, WellFoundedInduction, TLAPS

-----------------------------------------------------------------------------
(* Induction, and least and greatest elements.                               *)

\* A set of naturals that is not empty has a least element.
LEMMA LeastExists ==
  ASSUME NEW S \in SUBSET Nat, S # {}
  PROVE  \E x \in S : \A y \in S : x <= y
<1> DEFINE R == {ss \in Nat \X Nat : ss[1] < ss[2]}
<1>1. IsWellFoundedOn(R, Nat)
  BY NatLessThanWellFounded, Zenon DEF OpToRel
<1>2. \A m, n \in Nat : m < n => <<m, n>> \in R
  OBVIOUS
<1> HIDE DEF R
<1>3. PICK x \in S : \A y \in S : ~ (<<y, x>> \in R)
  BY <1>1, WFMin
<1>4. ASSUME NEW y \in S PROVE x <= y
  <2>1. CASE y < x
    <3>1. <<y, x>> \in R
      BY <1>2, <2>1
    <3> QED  BY <1>3, <3>1
  <2>2. CASE ~ (y < x)
    BY <2>2
  <2> QED  BY <2>1, <2>2
<1> QED  BY <1>4

\* Min is the least element.
LEMMA MinLeast ==
  ASSUME NEW S \in SUBSET Nat, S # {}
  PROVE  Min(S) \in S /\ \A y \in S : Min(S) <= y
  BY LeastExists, Zenon DEF Min

\* Max is the greatest element, if there is a bound.
LEMMA MaxGreatest ==
  ASSUME NEW n \in Nat, NEW S \in SUBSET (0..n), S # {}
  PROVE  Max(S) \in S /\ \A y \in S : Max(S) >= y
<1> DEFINE R == {k \in Nat : \E x \in S : k = n - x}
<1>1. R \in SUBSET Nat /\ R # {}
  <2>1. PICK x \in S : TRUE
    OBVIOUS
  <2>2. n - x \in Nat
    OBVIOUS
  <2> QED  BY <2>1, <2>2
<1>2. PICK k \in R : \A j \in R : k <= j
  BY <1>1, LeastExists
<1>3. PICK x \in S : k = n - x
  BY <1>2
<1>4. ASSUME NEW y \in S PROVE x >= y
  <2>1. n - y \in R /\ n \in Nat /\ x \in Nat /\ y \in Nat
    OBVIOUS
  <2>2. k <= n - y
    BY <1>2, <2>1
  <2> QED  BY <1>3, <2>1, <2>2
<1>5. \E z \in S : \A y \in S : z >= y
  BY <1>4
<1> QED  BY <1>5, Zenon DEF Max

\* Induction over a set of naturals that stands for a predicate.
LEMMA InductionOver ==
  ASSUME NEW P \in SUBSET Nat, 0 \in P, \A n \in Nat : n \in P => n + 1 \in P
  PROVE  P = Nat
<1> SUFFICES ASSUME P # Nat PROVE FALSE
  OBVIOUS
<1>1. PICK x \in Nat \ P : \A y \in Nat \ P : x <= y
  BY LeastExists
<1>2. x # 0 /\ x - 1 \in Nat /\ ~ (x <= x - 1)
  BY <1>1
<1>3. x - 1 \in P
  BY <1>1, <1>2
<1> QED  BY <1>1, <1>2, <1>3

\* What f has at 0, and keeps with each step, it has throughout.
LEMMA KeptThroughout ==
  ASSUME NEW n \in Nat, NEW T, NEW f, f[0] \in T,
         \A k \in 1..n : f[k - 1] \in T => f[k] \in T
  PROVE  \A k \in 0..n : f[k] \in T
<1> DEFINE P == {k \in Nat : k <= n => f[k] \in T}
<1>1. 0 \in P
  OBVIOUS
<1>2. ASSUME NEW k \in Nat, k \in P PROVE k + 1 \in P
  <2>1. CASE k + 1 <= n
    <3>1. k + 1 \in 1..n /\ (k + 1) - 1 = k /\ k <= n
      BY <2>1
    <3>2. f[k] \in T
      BY <1>2, <3>1
    <3> QED  BY <3>1, <3>2
  <2>2. CASE ~ (k + 1 <= n)
    BY <2>2
  <2> QED  BY <2>1, <2>2
<1> HIDE DEF P
<1>3. P \in SUBSET Nat
  BY DEF P
<1>4. P = Nat
  BY <1>1, <1>2, <1>3, InductionOver
<1> QED  BY <1>4 DEF P

\* f is the recursive function with n steps from a.
Recursion(f, n, a, step) ==
  f[0] = a /\ \A k \in 1..n : f[k] = step[<<k, f[k - 1]>>]
Values(n, T) == [0..n -> T]
Steps(n, T) == [(1..n) \X T -> T]

\* A recursive function whose step stays in T exists.
LEMMA RecursionExists ==
  ASSUME NEW n \in Nat, NEW T, NEW a \in T, NEW step \in Steps(n, T)
  PROVE  \E f \in Values(n, T) : Recursion(f, n, a, step)
<1> USE DEF Steps
<1> DEFINE Q(f, m) == f \in [0..m -> T] /\ f[0] = a
                      /\ \A k \in 1..m : f[k] = step[<<k, f[k - 1]>>]
           P == {m \in Nat : m <= n => \E f : Q(f, m)}
<1>1. 0 \in P
  <2>1. Q([k \in 0..0 |-> a], 0)
    OBVIOUS
  <2> QED  BY <2>1
<1>2. ASSUME NEW m \in Nat, m \in P, m + 1 <= n PROVE \E f : Q(f, m + 1)
  <2>1. PICK g : Q(g, m)
    BY <1>2
  <2> DEFINE x == step[<<m + 1, g[m]>>]
             f == [k \in 0..(m + 1) |-> IF k = m + 1 THEN x ELSE g[k]]
  <2>2. x \in T
    <3>1. g[m] \in T /\ m + 1 \in 1..n
      BY <1>2, <2>1
    <3> QED  BY <3>1
  <2>3. f[m + 1] = x /\ \A k \in 0..m : f[k] = g[k]
    OBVIOUS
  <2>4. f \in [0..(m + 1) -> T]
    BY <2>1, <2>2
  <2> HIDE DEF f
  <2>5. f[0] = a
    BY <2>1, <2>3
  <2>6. ASSUME NEW k \in 1..(m + 1) PROVE f[k] = step[<<k, f[k - 1]>>]
    <3>1. CASE k = m + 1
      BY <2>3, <3>1
    <3>2. CASE k \in 1..m
      <4>1. f[k] = g[k] /\ f[k - 1] = g[k - 1]
        BY <2>3, <3>2
      <4> QED  BY <2>1, <3>2, <4>1
    <3> QED  BY <3>1, <3>2
  <2> QED  BY <2>4, <2>5, <2>6
<1> HIDE DEF Q
<1>3. \A m \in Nat : m \in P => m + 1 \in P
  BY <1>2
<1> HIDE DEF P
<1>4. P \in SUBSET Nat
  BY DEF P
<1>5. P = Nat
  BY <1>1, <1>3, <1>4, InductionOver
<1>6. \E f : Q(f, n)
  BY <1>5 DEF P
<1> QED  BY <1>6 DEF Q, Recursion, Values


-----------------------------------------------------------------------------
(* FlattenSeq.                                                               *)

\* What flatten is, for a sequence that is not empty.
LEMMA FlattenUnfolds ==
  ASSUME NEW T, NEW ss \in Seq(Seq(T)), ss # <<>>
  PROVE  \E f : /\ \A i \in 1..Len(ss) :
                      f[i] = IF i = 1 THEN ss[i] ELSE f[i - 1] \o ss[i]
                /\ FlattenSeq(ss) = f[Len(ss)]
<1> DEFINE n == Len(ss)
           U == Seq(T)
           e == <<>>
           D(f) == f = [i \in 1..Len(ss) |-> IF i = 1 THEN ss[i] ELSE f[i - 1] \o ss[i]]
           g == CHOOSE f : D(f)
           step == [p \in (1..n) \X U |-> p[2] \o ss[p[1]]]
<1>1. n \in Nat /\ n # 0 /\ \A i \in 1..n : ss[i] \in Seq(T)
  OBVIOUS
<1>2. step \in [(1..n) \X U -> U]
  <2>1. \A p \in (1..n) \X U : p[2] \o ss[p[1]] \in U
    BY <1>1
  <2> HIDE DEF U
  <2> QED  BY <2>1
<1>3. e \in U
  OBVIOUS
<1>4. \A k \in 1..n : \A s \in U : step[<<k, s>>] = s \o ss[k]
  OBVIOUS
<1> HIDE DEF step, n, U, e
<1>5. PICK h \in Values(n, U) : Recursion(h, n, e, step)
  BY <1>1, <1>2, <1>3, RecursionExists DEF Steps
<1> USE DEF Recursion, Values
<1>6. \A k \in 1..n : h[k] = h[k - 1] \o ss[k]
  <2> TAKE k \in 1..n
  <2>1. h[k - 1] \in U
    BY <1>1, <1>5
  <2> QED  BY <1>4, <1>5, <2>1
<1> DEFINE f == [k \in 1..n |-> h[k]]
<1>7. ASSUME NEW i \in 1..n
      PROVE  f[i] = IF i = 1 THEN ss[i] ELSE f[i - 1] \o ss[i]
  <2>1. CASE i = 1
    <3>1. h[1] = <<>> \o ss[1]
      <4>1. 1 \in 1..n /\ 1 - 1 = 0
        BY <1>1
      <4> QED  BY <1>5, <1>6, <4>1 DEF e
    <3>2. ss[1] \in Seq(T)
      BY <1>1, <2>1
    <3>3. <<>> \o ss[1] = ss[1]
      BY <3>2
    <3> QED  BY <2>1, <3>1, <3>3
  <2>2. CASE i # 1
    <3>1. i - 1 \in 1..n
      BY <1>1, <2>2
    <3>2. f[i] = h[i] /\ f[i - 1] = h[i - 1]
      BY <3>1
    <3> HIDE DEF f
    <3> QED  BY <1>6, <2>2, <3>2
  <2> QED  BY <2>1, <2>2
<1>8. f = [i \in 1..n |-> f[i]]
  OBVIOUS
<1> HIDE DEF f
<1>9. D(f)
  <2>1. [i \in 1..n |-> f[i]] = [i \in 1..n |-> IF i = 1 THEN ss[i] ELSE f[i - 1] \o ss[i]]
    BY <1>7
  <2> QED  BY <1>8, <2>1 DEF n
<1>10. D(g)
  <2> HIDE DEF D
  <2> QED  BY <1>9, Zenon
<1>11. FlattenSeq(ss) = g[Len(ss)]
  <2>1. Len(ss) # 0
    BY <1>1 DEF n
  <2> QED  BY <2>1, Zenon DEF FlattenSeq
<1> HIDE DEF g
<1>12. \A i \in 1..Len(ss) : g[i] = IF i = 1 THEN ss[i] ELSE g[i - 1] \o ss[i]
  BY <1>10
<1> QED  BY <1>11, <1>12

\* Nothing flattens to nothing.
LEMMA FlattenEmpty == FlattenSeq(<<>>) = <<>>
<1>1. Len(<<>>) = 0
  OBVIOUS
<1> QED  BY <1>1, Zenon DEF FlattenSeq

\* The elements of a concatenation.
LEMMA Concatenated ==
  ASSUME NEW T, NEW s \in Seq(T), NEW t \in Seq(T)
  PROVE  /\ s \o t \in Seq(T) /\ Len(s \o t) = Len(s) + Len(t)
         /\ Len(s) \in Nat /\ Len(t) \in Nat
         /\ \A k \in 1..Len(s) : (s \o t)[k] = s[k] /\ s[k] \in T
         /\ \A k \in 1..Len(t) : (s \o t)[Len(s) + k] = t[k] /\ t[k] \in T
  OBVIOUS

\* g has the flattened first pieces of ss.
Folds(g, ss) == g[0] = <<>> /\ \A i \in 1..Len(ss) : g[i] = g[i - 1] \o ss[i]

\* FlattenSeq appends piece after piece.
LEMMA FlattenFolds ==
  ASSUME NEW T, NEW ss \in Seq(Seq(T))
  PROVE  \E g \in Values(Len(ss), Seq(T)) : Folds(g, ss) /\ FlattenSeq(ss) = g[Len(ss)]
<1> DEFINE n == Len(ss)
           U == Seq(T)
<1>0. n \in Nat /\ (\A k \in 1..n : ss[k] \in U) /\ <<>> \in U
  BY EmptySeq
<1>1. CASE ss = <<>>
  <2> DEFINE g == [k \in 0..n |-> <<>>]
  <2>1. n = 0
    BY <1>1
  <2>2. g \in Values(n, U) /\ g[0] = <<>> /\ g[n] = <<>>
    BY <1>0, <2>1 DEF Values
  <2>3. Folds(g, ss)
    BY <2>1, <2>2 DEF Folds
  <2> QED  BY <1>1, <2>2, <2>3, FlattenEmpty
<1>2. CASE ss # <<>>
  <2>1. PICK f : /\ \A i \in 1..n : f[i] = IF i = 1 THEN ss[i] ELSE f[i - 1] \o ss[i]
                 /\ FlattenSeq(ss) = f[n]
    BY <1>2, FlattenUnfolds
  <2>2. n # 0
    BY <1>2
  <2> DEFINE g == [k \in 0..n |-> IF k = 0 THEN <<>> ELSE f[k]]
  <2> HIDE DEF n, U
  <2>3. g[0] = <<>> /\ \A k \in 1..n : g[k] = f[k]
    BY <1>0
  <2>4. g = [k \in 0..n |-> g[k]]
    OBVIOUS
  <2> HIDE DEF g
  <2>5. ASSUME NEW i \in 1..n PROVE g[i] = g[i - 1] \o ss[i]
    <3>1. CASE i = 1
      <4>1. g[i] = ss[1] /\ g[i - 1] = <<>> /\ ss[1] \in U
        BY <1>0, <2>1, <2>3, <3>1
      <4>2. <<>> \o ss[1] = ss[1]
        BY <4>1 DEF U
      <4> QED  BY <3>1, <4>1, <4>2
    <3>2. CASE i # 1
      <4>1. i - 1 \in 1..n
        BY <1>0, <3>2
      <4> QED  BY <2>1, <2>3, <3>2, <4>1
    <3> QED  BY <3>1, <3>2
  <2>6. \A i \in 1..n : g[i - 1] \in U => g[i] \in U
    <3>1. ASSUME NEW i \in 1..n, g[i - 1] \in U PROVE g[i] \in U
      <4>1. ss[i] \in U
        BY <1>0
      <4>2. g[i - 1] \o ss[i] \in U
        BY <3>1, <4>1, Concatenated DEF U
      <4> QED  BY <2>5, <4>2
    <3> QED  BY <3>1
  <2>7. \A k \in 0..n : g[k] \in U
    BY <1>0, <2>3, <2>6, KeptThroughout
  <2>8. g \in Values(n, U)
    BY <2>4, <2>7 DEF Values
  <2>9. Folds(g, ss)
    BY <2>3, <2>5 DEF Folds, n
  <2>10. FlattenSeq(ss) = g[n]
    BY <1>0, <2>1, <2>2, <2>3
  <2> QED  BY <2>8, <2>9, <2>10 DEF n, U
<1> QED  BY <1>1, <1>2

\* Flattened sequences over T are one.
LEMMA FlattenTyped ==
  ASSUME NEW T, NEW ss \in Seq(Seq(T))
  PROVE  FlattenSeq(ss) \in Seq(T)
<1>1. PICK g \in Values(Len(ss), Seq(T)) : FlattenSeq(ss) = g[Len(ss)]
  BY FlattenFolds
<1>2. Len(ss) \in 0..Len(ss)
  OBVIOUS
<1> QED  BY <1>1, <1>2 DEF Values

\* Each piece is somewhere in the whole.
LEMMA FlattenBlock ==
  ASSUME NEW T, NEW ss \in Seq(Seq(T)), NEW i \in 1..Len(ss)
  PROVE  \E k \in Nat : /\ k + Len(ss[i]) <= Len(FlattenSeq(ss))
                        /\ \A j \in 1..Len(ss[i]) : FlattenSeq(ss)[k + j] = ss[i][j]
<1> DEFINE n == Len(ss)
<1>1. PICK g \in Values(n, Seq(T)) : Folds(g, ss) /\ FlattenSeq(ss) = g[n]
  BY FlattenFolds
<1>2. n \in Nat /\ i \in 1..n /\ \A m \in 1..n : ss[m] \in Seq(T)
  OBVIOUS
<1> DEFINE k == Len(g[i - 1])
           At(m) == /\ k + Len(ss[i]) <= Len(g[m])
                    /\ \A j \in 1..Len(ss[i]) : g[m][k + j] = ss[i][j]
           P == {m \in Nat : i <= m /\ m <= n => At(m)}
<1> HIDE DEF n
<1>3. \A m \in 0..n : g[m] \in Seq(T)
  BY <1>1 DEF Values
<1>4. \A m \in 1..n :
         /\ g[m] = g[m - 1] \o ss[m] /\ Len(g[m]) = Len(g[m - 1]) + Len(ss[m])
         /\ Len(g[m - 1]) \in Nat /\ Len(ss[m]) \in Nat
         /\ \A j \in 1..Len(g[m - 1]) : g[m][j] = g[m - 1][j]
         /\ \A j \in 1..Len(ss[m]) : g[m][Len(g[m - 1]) + j] = ss[m][j]
  <2> TAKE m \in 1..n
  <2>1. g[m] = g[m - 1] \o ss[m] /\ ss[m] \in Seq(T)
    BY <1>1, <1>2 DEF Folds, n
  <2>2. g[m - 1] \in Seq(T)
    BY <1>2, <1>3
  <2> DEFINE x == g[m - 1]
             y == ss[m]
             z == x \o y
  <2>3. /\ Len(z) = Len(x) + Len(y) /\ Len(x) \in Nat /\ Len(y) \in Nat
        /\ \A j \in 1..Len(x) : z[j] = x[j]
        /\ \A j \in 1..Len(y) : z[Len(x) + j] = y[j]
    <3> HIDE DEF x, y
    <3>1. x \in Seq(T) /\ y \in Seq(T)
      BY <2>1, <2>2 DEF x, y
    <3> QED  BY <3>1, Concatenated
  <2>4. g[m] = z
    BY <2>1
  <2> HIDE DEF z
  <2> QED  BY <2>1, <2>3, <2>4 DEF z
<1>5. k \in Nat
  BY <1>2, <1>4
<1>6. At(i)
  <2>1. /\ Len(g[i]) = Len(g[i - 1]) + Len(ss[i])
        /\ Len(g[i - 1]) \in Nat /\ Len(ss[i]) \in Nat
        /\ \A j \in 1..Len(ss[i]) : g[i][Len(g[i - 1]) + j] = ss[i][j]
    BY <1>2, <1>4
  <2> QED  BY <2>1
<1>7. ASSUME NEW m \in Nat, i <= m, m + 1 <= n, At(m) PROVE At(m + 1)
  <2>1. m + 1 \in 1..n /\ (m + 1) - 1 = m
    BY <1>2, <1>7
  <2>2. /\ Len(g[m + 1]) = Len(g[(m + 1) - 1]) + Len(ss[m + 1])
        /\ Len(g[(m + 1) - 1]) \in Nat /\ Len(ss[m + 1]) \in Nat
        /\ \A j \in 1..Len(g[(m + 1) - 1]) : g[m + 1][j] = g[(m + 1) - 1][j]
    BY <1>4, <2>1
  <2>3. Len(g[m]) \in Nat /\ Len(ss[m + 1]) \in Nat /\ Len(ss[i]) \in Nat
        /\ Len(g[m + 1]) = Len(g[m]) + Len(ss[m + 1])
        /\ \A j \in 1..Len(g[m]) : g[m + 1][j] = g[m][j]
    BY <1>2, <1>4, <2>1, <2>2
  <2> HIDE DEF k
  <2>4. k + Len(ss[i]) <= Len(g[m]) /\ \A j \in 1..Len(ss[i]) : g[m][k + j] = ss[i][j]
    BY <1>7
  <2>5. k + Len(ss[i]) <= Len(g[m + 1])
    <3> DEFINE a == Len(ss[i])
               b == Len(g[m])
               c == Len(g[m + 1])
               d == Len(ss[m + 1])
    <3>1. a \in Nat /\ b \in Nat /\ d \in Nat /\ c = b + d /\ k + a <= b
      BY <2>3, <2>4
    <3> HIDE DEF a, b, c, d
    <3>2. k + a <= c
      BY ONLY <1>5, <3>1
    <3> QED  BY <3>2 DEF a, c
  <2>6. ASSUME NEW j \in 1..Len(ss[i]) PROVE g[m + 1][k + j] = ss[i][j]
    <3>1. k + j \in 1..Len(g[m])
      BY <1>5, <2>3, <2>4
    <3> QED  BY <2>3, <2>4, <3>1
  <2> QED  BY <2>5, <2>6
<1> HIDE DEF At
<1>8. 0 \in P
  BY <1>2
<1>9. ASSUME NEW m \in Nat, m \in P PROVE m + 1 \in P
  <2>1. CASE i <= m /\ m + 1 <= n
    BY <1>2, <1>7, <1>9, <2>1
  <2>2. CASE i = m + 1
    BY <1>6, <2>2
  <2>3. CASE i > m + 1 \/ m + 1 > n
    BY <1>2, <2>3
  <2> QED  BY <1>2, <2>1, <2>2, <2>3
<1> HIDE DEF P
<1>10. P = Nat
  BY <1>8, <1>9, InductionOver DEF P
<1>11. At(n)
  BY <1>2, <1>10 DEF P
<1> QED  BY <1>1, <1>5, <1>11 DEF At

\* The k-th element of x is the j-th of the i-th piece, and the next one is the
\* next of that piece, or the first of the next piece, up to m, that has any.
Place(x, k, ss, i, j, m) ==
  /\ x[k] = ss[i][j]
  /\ j < Len(ss[i]) => k < Len(x) /\ x[k + 1] = ss[i][j + 1]
  /\ j = Len(ss[i]) /\ k < Len(x) =>
       \E h \in (i + 1)..m : /\ ss[h] # <<>> /\ x[k + 1] = ss[h][1]
                             /\ \A g \in (i + 1)..(h - 1) : ss[g] = <<>>
  /\ k = Len(x) => j = Len(ss[i]) /\ \A g \in (i + 1)..m : ss[g] = <<>>

\* So is every element of x, and its first one is the first of the first piece
\* that has any.
From(x, ss, m) ==
  /\ \A k \in 1..Len(x) : \E i \in 1..m : \E j \in 1..Len(ss[i]) : Place(x, k, ss, i, j, m)
  /\ Len(x) > 0 => \E h \in 1..m : /\ ss[h] # <<>> /\ x[1] = ss[h][1]
                                   /\ \A g \in 1..(h - 1) : ss[g] = <<>>
  /\ Len(x) = 0 => \A g \in 1..m : ss[g] = <<>>

\* One more piece.
LEMMA FromStep ==
  ASSUME NEW ss, NEW m \in Nat, NEW x, NEW y, NEW z, From(x, ss, m), y = ss[m + 1],
         Len(x) \in Nat, Len(y) \in Nat, y = <<>> <=> Len(y) = 0,
         Len(z) = Len(x) + Len(y),
         \A k \in 1..Len(x) : z[k] = x[k],
         \A k \in 1..Len(y) : z[Len(x) + k] = y[k],
         \A i \in 1..m : Len(ss[i]) \in Nat
  PROVE  From(z, ss, m + 1)
<1>1. m + 1 \in 1..(m + 1) /\ (m + 1) + 1 > m + 1
  OBVIOUS
<1>2. ASSUME NEW k \in 1..Len(x)
      PROVE  \E i \in 1..(m + 1) : \E j \in 1..Len(ss[i]) : Place(z, k, ss, i, j, m + 1)
  <2>1. PICK i \in 1..m : \E j \in 1..Len(ss[i]) : Place(x, k, ss, i, j, m)
    BY DEF From
  <2>2. PICK j \in 1..Len(ss[i]) : Place(x, k, ss, i, j, m)
    BY <2>1
  <2>3. z[k] = ss[i][j] /\ Len(ss[i]) \in Nat
    BY <2>2 DEF Place
  <2>4. ASSUME j < Len(ss[i]) PROVE k < Len(z) /\ z[k + 1] = ss[i][j + 1]
    <3>1. k < Len(x) /\ x[k + 1] = ss[i][j + 1]
      BY <2>2, <2>4 DEF Place
    <3>2. k + 1 \in 1..Len(x)
      BY <3>1
    <3> QED  BY <3>1, <3>2
  <2>5. ASSUME j = Len(ss[i]), k < Len(z)
        PROVE  \E h \in (i + 1)..(m + 1) :
                 /\ ss[h] # <<>> /\ z[k + 1] = ss[h][1]
                 /\ \A g \in (i + 1)..(h - 1) : ss[g] = <<>>
    <3>1. CASE k < Len(x)
      <4>1. PICK h \in (i + 1)..m : /\ ss[h] # <<>> /\ x[k + 1] = ss[h][1]
                                    /\ \A g \in (i + 1)..(h - 1) : ss[g] = <<>>
        BY <2>2, <2>5, <3>1 DEF Place
      <4>2. k + 1 \in 1..Len(x)
        BY <3>1
      <4>3. h \in (i + 1)..(m + 1) /\ z[k + 1] = ss[h][1]
        BY <4>1, <4>2
      <4> QED  BY <4>1, <4>3
    <3>2. CASE k = Len(x)
      <4>1. \A g \in (i + 1)..m : ss[g] = <<>>
        BY <2>2, <3>2 DEF Place
      <4>2. 1 \in 1..Len(y) /\ z[k + 1] = y[1] /\ y # <<>>
        <5>1. 1 \in 1..Len(y) /\ y # <<>>
          BY <2>5, <3>2
        <5> QED  BY <3>2, <5>1
      <4>3. m + 1 \in (i + 1)..(m + 1) /\ (m + 1) - 1 = m
        OBVIOUS
      <4> QED  BY <4>1, <4>2, <4>3
    <3>3. k < Len(x) \/ k = Len(x)
      OBVIOUS
    <3> QED  BY <3>1, <3>2, <3>3
  <2>6. ASSUME k = Len(z)
        PROVE  j = Len(ss[i]) /\ \A g \in (i + 1)..(m + 1) : ss[g] = <<>>
    <3>1. k = Len(x) /\ Len(y) = 0
      BY <2>6
    <3>2. j = Len(ss[i]) /\ \A g \in (i + 1)..m : ss[g] = <<>>
      BY <2>2, <3>1 DEF Place
    <3> QED  BY <3>1, <3>2
  <2>7. Place(z, k, ss, i, j, m + 1)
    BY <2>3, <2>4, <2>5, <2>6 DEF Place
  <2>8. i \in 1..(m + 1)
    OBVIOUS
  <2> QED  BY <2>7, <2>8
<1>3. ASSUME NEW k \in 1..Len(z), k \notin 1..Len(x)
      PROVE  \E i \in 1..(m + 1) : \E j \in 1..Len(ss[i]) : Place(z, k, ss, i, j, m + 1)
  <2> DEFINE j == k - Len(x)
  <2>1. j \in 1..Len(y) /\ k = Len(x) + j
    BY <1>3
  <2> HIDE DEF j
  <2>2. z[k] = y[j]
    BY <2>1
  <2>3. ASSUME j < Len(y) PROVE k < Len(z) /\ z[k + 1] = y[j + 1]
    <3>1. j + 1 \in 1..Len(y) /\ k + 1 = Len(x) + (j + 1)
      BY <2>1, <2>3
    <3>2. z[k + 1] = y[j + 1]
      BY <3>1
    <3> QED  BY <2>1, <2>3, <3>2
  <2>4. j = Len(y) => ~ (k < Len(z))
    BY <2>1
  <2>5. k = Len(z) => j = Len(y)
    BY <2>1
  <2>6. Place(z, k, ss, m + 1, j, m + 1)
    BY <2>2, <2>3, <2>4, <2>5 DEF Place
  <2> QED  BY <1>1, <2>1, <2>6
<1>4. ASSUME Len(z) > 0
      PROVE  \E h \in 1..(m + 1) : /\ ss[h] # <<>> /\ z[1] = ss[h][1]
                                   /\ \A g \in 1..(h - 1) : ss[g] = <<>>
  <2>1. CASE Len(x) > 0
    <3>1. PICK h \in 1..m : /\ ss[h] # <<>> /\ x[1] = ss[h][1]
                            /\ \A g \in 1..(h - 1) : ss[g] = <<>>
      BY <2>1 DEF From
    <3>2. 1 \in 1..Len(x) /\ h \in 1..(m + 1)
      BY <2>1
    <3> QED  BY <3>1, <3>2
  <2>2. CASE Len(x) = 0
    <3>1. \A g \in 1..m : ss[g] = <<>>
      BY <2>2 DEF From
    <3>2. 1 \in 1..Len(y) /\ Len(x) + 1 = 1 /\ (m + 1) - 1 = m
      BY <1>4, <2>2
    <3>3. z[1] = y[1] /\ y # <<>>
      BY <2>2, <3>2
    <3> QED  BY <1>1, <3>1, <3>2, <3>3
  <2> QED  BY <2>1, <2>2
<1>5. ASSUME Len(z) = 0 PROVE \A g \in 1..(m + 1) : ss[g] = <<>>
  <2>1. Len(x) = 0 /\ Len(y) = 0
    <3>1. \A a, b \in Nat : a + b = 0 => a = 0 /\ b = 0
      OBVIOUS
    <3> QED  BY <1>5, <3>1
  <2>2. \A g \in 1..m : ss[g] = <<>>
    BY <2>1 DEF From
  <2> QED  BY <2>1, <2>2
<1> QED  BY <1>2, <1>3, <1>4, <1>5 DEF From

\* Where the elements of a flattened sequence come from.
LEMMA FlattenFrom ==
  ASSUME NEW T, NEW ss \in Seq(Seq(T))
  PROVE  From(FlattenSeq(ss), ss, Len(ss))
<1> DEFINE n == Len(ss)
<1>1. PICK g \in Values(n, Seq(T)) : Folds(g, ss) /\ FlattenSeq(ss) = g[n]
  BY FlattenFolds
<1>2. n \in Nat /\ \A m \in 1..n : ss[m] \in Seq(T)
  OBVIOUS
<1> DEFINE Q == {m \in Nat : m <= n => From(g[m], ss, m)}
<1>3. 0 \in Q
  <2>1. g[0] = <<>> /\ Len(<<>>) = 0
    BY <1>1 DEF Folds
  <2> QED  BY <2>1 DEF From
<1>4. ASSUME NEW m \in Nat, m \in Q, m + 1 <= n PROVE From(g[m + 1], ss, m + 1)
  <2> DEFINE x == g[m]
             y == ss[m + 1]
             z == g[m + 1]
  <2>1. m + 1 \in 1..n /\ m \in 0..n /\ (m + 1) - 1 = m
    BY <1>2, <1>4
  <2>2. z = x \o y /\ x \in Seq(T) /\ y \in Seq(T)
    BY <1>1, <1>2, <2>1 DEF Folds, Values
  <2>3. From(x, ss, m)
    BY <1>2, <1>4
  <2>4. y = ss[m + 1] /\ \A i \in 1..m : Len(ss[i]) \in Nat
    BY <1>2, <2>1
  <2> HIDE DEF x, z
  <2>5. /\ Len(z) = Len(x) + Len(y) /\ Len(x) \in Nat /\ Len(y) \in Nat
        /\ \A k \in 1..Len(x) : z[k] = x[k]
        /\ \A k \in 1..Len(y) : z[Len(x) + k] = y[k]
    <3> HIDE DEF y
    <3> DEFINE c == x \o y
    <3>1. /\ Len(c) = Len(x) + Len(y) /\ Len(x) \in Nat /\ Len(y) \in Nat
          /\ \A k \in 1..Len(x) : c[k] = x[k]
          /\ \A k \in 1..Len(y) : c[Len(x) + k] = y[k]
      BY <2>2, Concatenated
    <3> HIDE DEF c
    <3>2. z = c
      BY <2>2 DEF c
    <3> QED  BY <3>1, <3>2
  <2>6. y = <<>> <=> Len(y) = 0
    <3> HIDE DEF y
    <3> QED  BY <2>2
  <2> HIDE DEF y
  <2>7. From(z, ss, m + 1)
    BY <2>3, <2>4, <2>5, <2>6, FromStep
  <2> QED  BY <2>7 DEF z
<1> HIDE DEF Q
<1>5. Q = Nat
  <2>1. Q \in SUBSET Nat /\ \A m \in Nat : m \in Q => m + 1 \in Q
    BY <1>4 DEF Q
  <2> QED  BY <1>3, <2>1, InductionOver
<1>6. From(g[n], ss, n)
  BY <1>2, <1>5 DEF Q
<1> QED  BY <1>1, <1>6

-----------------------------------------------------------------------------
(* The operations on a body, for messages of any type.                       *)

\* A function on 1..n is a sequence.
LEMMA SequenceBuilt ==
  ASSUME NEW T, NEW n \in Nat, NEW f, \A i \in 1..n : f[i] \in T,
         f = [i \in 1..n |-> f[i]]
  PROVE  f \in Seq(T) /\ Len(f) = n
  OBVIOUS

\* Keep selects messages of b.
LEMMA KeepTyped ==
  ASSUME NEW T, NEW b \in Seq(T), NEW S
  PROVE  Keep(b, S) \in Seq(T)
<1> DEFINE f == [i \in DOMAIN b |-> IF i \in S THEN <<b[i]>> ELSE <<>>]
<1>1. Len(b) \in Nat /\ DOMAIN b = 1..Len(b) /\ \A i \in 1..Len(b) : b[i] \in T
  OBVIOUS
<1>2. \A i \in 1..Len(b) : f[i] \in Seq(T)
  <2> TAKE i \in 1..Len(b)
  <2>1. b[i] \in T
    BY <1>1
  <2>2. <<b[i]>> \in Seq(T) /\ <<>> \in Seq(T)
    BY <2>1
  <2> QED  BY <1>1, <2>2
<1>3. f = [i \in 1..Len(b) |-> f[i]]
  BY <1>1
<1> HIDE DEF f
<1>4. f \in Seq(Seq(T))
  <2> DEFINE U == Seq(T)
  <2>1. \A i \in 1..Len(b) : f[i] \in U
    BY <1>2
  <2> HIDE DEF U
  <2>2. f \in Seq(U)
    BY <1>1, <1>3, <2>1, SequenceBuilt
  <2> QED  BY <2>2 DEF U
<1> QED  BY <1>4, FlattenTyped DEF Keep, f

\* One item more in Alternate.
AlternateStep(acc, x) ==
  LET clash == acc # <<>> /\ acc[Len(acc)].m.role = x.m.role
  IN  CASE ~clash -> Append(acc, x)
        [] clash /\ ~x.crit -> acc
        [] clash /\ x.crit /\ acc[Len(acc)].crit -> Append(acc, x)
        [] OTHER -> [acc EXCEPT ![Len(acc)] = x]

Items(T) == [m : T, crit : BOOLEAN]

LEMMA AlternateStepTyped ==
  ASSUME NEW I, NEW acc \in Seq(I), NEW x \in I
  PROVE  AlternateStep(acc, x) \in Seq(I)
<1>1. acc # <<>> => Len(acc) \in 1..Len(acc)
  OBVIOUS
<1>2. acc # <<>> => [acc EXCEPT ![Len(acc)] = x] \in Seq(I)
  BY <1>1
<1>3. Append(acc, x) \in Seq(I)
  OBVIOUS
<1> DEFINE clash == acc # <<>> /\ acc[Len(acc)].m.role = x.m.role
           u == Append(acc, x)
           v == [acc EXCEPT ![Len(acc)] = x]
<1>4. AlternateStep(acc, x) = CASE ~clash -> u [] clash /\ ~x.crit -> acc
                                [] clash /\ x.crit /\ acc[Len(acc)].crit -> u
                                [] OTHER -> v
  BY Zenon DEF AlternateStep
<1>5. clash => acc # <<>>
  OBVIOUS
<1> HIDE DEF clash, u, v
<1>6. u \in Seq(I) /\ (clash => v \in Seq(I))
  BY <1>2, <1>3, <1>5 DEF u, v
<1> QED  BY <1>4, <1>6

\* Alternate takes item after item.
LEMMA AlternateFolds ==
  ASSUME NEW T, NEW items \in Seq(Items(T))
  PROVE  \E g \in Values(Len(items), Seq(Items(T))) :
            /\ g[0] = <<>>
            /\ \A k \in 1..Len(items) : g[k] = AlternateStep(g[k - 1], items[k])
            /\ Alternate(items) = [k \in DOMAIN g[Len(items)] |-> g[Len(items)][k].m]
<1> DEFINE n == Len(items)
           I == Items(T)
           U == Seq(I)
           e == <<>>
           D(f) == f = [k \in 0..Len(items) |->
                     IF k = 0 THEN <<>>
                     ELSE LET acc == f[k - 1]
                              x == items[k]
                              clash == acc # <<>> /\ acc[Len(acc)].m.role = x.m.role
                          IN  CASE ~clash -> Append(acc, x)
                                [] clash /\ ~x.crit -> acc
                                [] clash /\ x.crit /\ acc[Len(acc)].crit -> Append(acc, x)
                                [] OTHER -> [acc EXCEPT ![Len(acc)] = x]]
           g == CHOOSE f : D(f)
           step == [p \in (1..n) \X U |-> AlternateStep(p[2], items[p[1]])]
<1>0. \A f : D(f) <=> f = [k \in 0..n |-> IF k = 0 THEN <<>> ELSE AlternateStep(f[k - 1], items[k])]
  BY Zenon DEF AlternateStep
<1>1. n \in Nat /\ (\A k \in 1..n : items[k] \in I) /\ e \in U
  BY EmptySeq
<1>2. step \in Steps(n, U)
  <2> HIDE DEF I, n
  <2>1. \A p \in (1..n) \X U : AlternateStep(p[2], items[p[1]]) \in U
    BY <1>1, AlternateStepTyped
  <2> HIDE DEF U
  <2> QED  BY <2>1 DEF Steps
<1>3. \A k \in 1..n : \A s \in U : step[<<k, s>>] = AlternateStep(s, items[k])
  OBVIOUS
<1>4. Alternate(items) = [k \in DOMAIN g[Len(items)] |-> g[Len(items)][k].m]
  BY Zenon DEF Alternate
<1> HIDE DEF D, n, step, U, e
<1>5. PICK h \in Values(n, U) : Recursion(h, n, e, step)
  BY <1>1, <1>2, RecursionExists
<1>6. D(h)
  <2>1. h = [k \in 0..n |-> h[k]]
    BY <1>5 DEF Values
  <2>2. ASSUME NEW k \in 0..n
        PROVE  h[k] = IF k = 0 THEN <<>> ELSE AlternateStep(h[k - 1], items[k])
    <3>1. CASE k = 0
      BY <1>5, <3>1 DEF Recursion, e
    <3>2. CASE k # 0
      <4>1. k \in 1..n /\ k - 1 \in 0..n
        BY <1>1, <3>2
      <4>2. h[k - 1] \in U
        BY <1>5, <4>1 DEF Values
      <4> QED  BY <1>3, <1>5, <3>2, <4>1, <4>2 DEF Recursion
    <3> QED  BY <3>1, <3>2
  <2> QED  BY <1>0, <2>1, <2>2
<1>7. D(g)
  BY <1>6, Zenon
<1> HIDE DEF g
<1>8. g = [k \in 0..n |-> IF k = 0 THEN <<>> ELSE AlternateStep(g[k - 1], items[k])]
  BY <1>0, <1>7
<1>9. g[0] = e /\ \A k \in 1..n : g[k] = AlternateStep(g[k - 1], items[k])
  <2>1. 0 \in 0..n
    BY <1>1
  <2>2. g[0] = <<>>
    BY <1>8, <2>1
  <2>3. ASSUME NEW k \in 1..n PROVE g[k] = AlternateStep(g[k - 1], items[k])
    <3>1. k \in 0..n /\ k # 0
      BY <1>1
    <3> QED  BY <1>8, <3>1
  <2> QED  BY <2>2, <2>3 DEF e
<1>10. \A k \in 1..n : g[k - 1] \in U => g[k] \in U
  <2> HIDE DEF I
  <2> QED  BY <1>1, <1>9, AlternateStepTyped DEF U
<1>11. g \in Values(n, U)
  <2>1. \A k \in 0..n : g[k] \in U
    BY <1>1, <1>9, <1>10, KeptThroughout
  <2> QED  BY <1>8, <2>1 DEF Values
<1> QED  BY <1>4, <1>9, <1>11 DEF n, e, U

\* Alternate selects messages of its items.
LEMMA AlternateTyped ==
  ASSUME NEW T, NEW items \in Seq(Items(T))
  PROVE  Alternate(items) \in Seq(T)
<1>1. PICK g \in Values(Len(items), Seq(Items(T))) :
         Alternate(items) = [k \in DOMAIN g[Len(items)] |-> g[Len(items)][k].m]
  BY AlternateFolds
<1> DEFINE y == g[Len(items)]
<1>2. y \in Seq(Items(T))
  <2>1. Len(items) \in 0..Len(items)
    OBVIOUS
  <2> QED  BY <1>1, <2>1 DEF Values
<1>3. Alternate(items) = [k \in DOMAIN y |-> y[k].m]
  BY <1>1
<1> HIDE DEF y
<1>4. [k \in DOMAIN y |-> y[k].m] \in Seq(T)
  <2>1. DOMAIN y = 1..Len(y) /\ Len(y) \in Nat /\ \A k \in 1..Len(y) : y[k].m \in T
    <3>1. DOMAIN y = 1..Len(y) /\ Len(y) \in Nat /\ \A k \in 1..Len(y) : y[k] \in Items(T)
      BY <1>2
    <3>2. \A x \in Items(T) : x.m \in T
      BY DEF Items
    <3> QED  BY <3>1, <3>2
  <2> DEFINE z == [k \in DOMAIN y |-> y[k].m]
  <2>2. z = [k \in 1..Len(y) |-> z[k]] /\ \A k \in 1..Len(y) : z[k] \in T
    BY <2>1
  <2> HIDE DEF z
  <2>3. z \in Seq(T)
    BY <2>1, <2>2, SequenceBuilt
  <2> QED  BY <2>3 DEF z
<1> QED  BY <1>3, <1>4

\* What drop_compacted_turns leaves are messages of b.
LEMMA DropTyped ==
  ASSUME NEW T, NEW b \in Seq(T), NEW window, NEW limit
  PROVE  DropTurns(b, window, limit) \in Seq(T)
  BY KeepTyped DEF DropTurns

\* What the filter returns are messages of b.
LEMMA FilterTyped ==
  ASSUME NEW T, NEW b \in Seq(T), NEW window, NEW count, NEW matched
  PROVE  Filter(b, window, count, matched) \in Seq(T)
<1> DEFINE asked == b # <<>> /\ IsUser(b[Len(b)])
           c == IF asked THEN SubSeq(b, 1, Len(b) - 1) ELSE b
           P == PairStarts(c)
           wanted == {i \in P : \/ i \notin ButLast(P, window)
                                \/ Rank(P, i) >= count
                                \/ Rank(P, i) \in matched}
           unpaired == DOMAIN c \ (P \union {i + 1 : i \in P})
           first == Closure(c, unpaired \union wanted \union {i + 1 : i \in wanted})
           kept == Closure(c, Backfill(c, first))
           critical(i) == \E j \in kept : ToolLinked(c, i, j) \/ ToolLinked(c, j, i)
           item(i) == IF i \in kept THEN <<[m |-> c[i], crit |-> critical(i)]>> ELSE <<>>
           current == IF asked THEN <<[m |-> b[Len(b)], crit |-> FALSE]>> ELSE <<>>
           parts == [i \in DOMAIN c |-> item(i)]
           items == FlattenSeq(parts) \o current
           out == Alternate(items)
<1>1. Filter(b, window, count, matched) = b \/ Filter(b, window, count, matched) = out
  BY Zenon DEF Filter
<1>2. c \in Seq(T)
  OBVIOUS
<1>3. DOMAIN c = 1..Len(c) /\ Len(c) \in Nat /\ \A i \in 1..Len(c) : c[i] \in T
  <2> HIDE DEF c
  <2> QED  BY <1>2
<1> HIDE DEF c, P, wanted, unpaired, first, kept
<1>4. \A i \in 1..Len(c) : item(i) \in Seq(Items(T))
  <2> TAKE i \in 1..Len(c)
  <2>1. c[i] \in T /\ critical(i) \in BOOLEAN
    BY <1>3
  <2> HIDE DEF critical
  <2>2. [m |-> c[i], crit |-> critical(i)] \in Items(T)
    BY <2>1 DEF Items
  <2> QED  BY <2>2
<1>5. parts = [i \in 1..Len(c) |-> parts[i]] /\ \A i \in 1..Len(c) : parts[i] = item(i)
  BY <1>3
<1>6. parts \in Seq(Seq(Items(T)))
  <2> DEFINE U == Seq(Items(T))
  <2>1. \A i \in 1..Len(c) : parts[i] \in U
    BY <1>4, <1>5
  <2> HIDE DEF U, parts
  <2>2. parts \in Seq(U)
    BY <1>3, <1>5, <2>1, SequenceBuilt
  <2> QED  BY <2>2 DEF U
<1>7. current \in Seq(Items(T))
  <2>1. asked => b[Len(b)] \in T
    <3>1. b # <<>> => Len(b) \in 1..Len(b)
      OBVIOUS
    <3> QED  BY <3>1
  <2> HIDE DEF asked
  <2>2. asked => [m |-> b[Len(b)], crit |-> FALSE] \in Items(T)
    BY <2>1 DEF Items
  <2> QED  BY <2>2
<1> HIDE DEF parts, current
<1>8. items \in Seq(Items(T))
  BY <1>6, <1>7, FlattenTyped, Concatenated
<1> HIDE DEF items
<1>9. out \in Seq(T)
  BY <1>8, AlternateTyped
<1> QED  BY <1>1, <1>9

\* What stays after the trim are messages of b.
LEMMA TrimmedTyped ==
  ASSUME NEW T, NEW b \in Seq(T), NEW older
  PROVE  Trimmed(b, older) \in Seq(T)
  BY KeepTyped DEF Trimmed

\* The messages that Cleanup keeps in one pass.
UsesOf(x) == UNION {x[i].uses : i \in DOMAIN x}
ResultsOf(x) == UNION {x[i].results : i \in DOMAIN x}
WholeCalls(x) ==
  {i \in DOMAIN x : x[i].uses \subseteq ResultsOf(x) /\ x[i].results \subseteq UsesOf(x)}

LEMMA CleanupPasses ==
  ASSUME NEW T, NEW b \in Seq(T)
  PROVE  \E g \in Values(3, Seq(T)) :
           /\ g[0] = b
           /\ \A k \in 1..3 : g[k] = Keep(g[k - 1], WholeCalls(g[k - 1]))
           /\ Cleanup(b) = g[3]
<1> DEFINE U == Seq(T)
           D(f) == f = [n \in 0..3 |-> IF n = 0 THEN b
                                       ELSE LET x == f[n - 1]
                                            IN  Keep(x, {i \in DOMAIN x :
                                                 /\ x[i].uses \subseteq UNION {x[j].results : j \in DOMAIN x}
                                                 /\ x[i].results \subseteq UNION {x[j].uses : j \in DOMAIN x}})]
           g == CHOOSE f : D(f)
           step == [p \in (1..3) \X U |-> Keep(p[2], WholeCalls(p[2]))]
<1>0. \A f : D(f) <=> f = [k \in 0..3 |-> IF k = 0 THEN b
                                          ELSE Keep(f[k - 1], WholeCalls(f[k - 1]))]
  BY Zenon DEF WholeCalls, UsesOf, ResultsOf
<1>1. Cleanup(b) = g[3]
  BY Zenon DEF Cleanup
<1>2. b \in U
  OBVIOUS
<1>3. \A x \in U : Keep(x, WholeCalls(x)) \in U
  BY KeepTyped
<1>4. step \in Steps(3, U)
  <2> HIDE DEF U
  <2> QED  BY <1>3 DEF Steps
<1>5. \A k \in 1..3 : \A s \in U : step[<<k, s>>] = Keep(s, WholeCalls(s))
  OBVIOUS
<1> HIDE DEF D, step, U
<1>6. PICK h \in Values(3, U) : Recursion(h, 3, b, step)
  BY <1>2, <1>4, RecursionExists
<1>7. D(h)
  <2>1. h = [k \in 0..3 |-> h[k]]
    BY <1>6 DEF Values
  <2>2. ASSUME NEW k \in 0..3
        PROVE  h[k] = IF k = 0 THEN b ELSE Keep(h[k - 1], WholeCalls(h[k - 1]))
    <3>1. CASE k = 0
      BY <1>6, <3>1 DEF Recursion
    <3>2. CASE k # 0
      <4>1. k \in 1..3 /\ k - 1 \in 0..3
        BY <3>2
      <4>2. h[k - 1] \in U
        BY <1>6, <4>1 DEF Values
      <4> QED  BY <1>5, <1>6, <3>2, <4>1, <4>2 DEF Recursion
    <3> QED  BY <3>1, <3>2
  <2> QED  BY <1>0, <2>1, <2>2
<1>8. D(g)
  BY <1>7, Zenon
<1> HIDE DEF g
<1>9. g = [k \in 0..3 |-> IF k = 0 THEN b ELSE Keep(g[k - 1], WholeCalls(g[k - 1]))]
  BY <1>0, <1>8
<1>10. g[0] = b /\ \A k \in 1..3 : g[k] = Keep(g[k - 1], WholeCalls(g[k - 1]))
  <2>1. 0 \in 0..3 /\ \A k \in 1..3 : k \in 0..3 /\ k # 0
    OBVIOUS
  <2> QED  BY <1>9, <2>1
<1>11. \A k \in 0..3 : g[k] \in U
  <2>1. \A k \in 1..3 : g[k - 1] \in U => g[k] \in U
    BY <1>3, <1>10
  <2> QED  BY <1>2, <1>10, <2>1, KeptThroughout
<1>12. g \in Values(3, U)
  BY <1>9, <1>11 DEF Values
<1> QED  BY <1>1, <1>10, <1>12 DEF U

\* What is left after the clean-up are messages of b.
LEMMA CleanupTyped ==
  ASSUME NEW T, NEW b \in Seq(T)
  PROVE  Cleanup(b) \in Seq(T)
<1>1. PICK g \in Values(3, Seq(T)) : Cleanup(b) = g[3]
  BY CleanupPasses
<1> QED  BY <1>1 DEF Values

-----------------------------------------------------------------------------
(* Groups.                                                                   *)

\* Groups begin at positions of b.
LEMMA StartsIn ==
  ASSUME NEW T, NEW b \in Seq(T)
  PROVE  /\ GroupStarts(b) \subseteq 1..Len(b) /\ HistoryStarts(b) \subseteq GroupStarts(b)
         /\ (b # <<>> => 1 \in GroupStarts(b))
         /\ Len(b) \in Nat /\ DOMAIN b = 1..Len(b)
<1>1. GroupStarts(b) \subseteq 1..Len(b) /\ (b # <<>> => 1 \in GroupStarts(b))
  BY DEF GroupStarts
<1>2. HistoryStarts(b) \subseteq GroupStarts(b)
  BY DEF HistoryStarts
<1> QED  BY <1>1, <1>2

\* A group ends before the next one begins.
LEMMA GroupIs ==
  ASSUME NEW T, NEW b \in Seq(T), NEW s \in 1..Len(b)
  PROVE  /\ Group(b, s) = {i \in s..Len(b) : \A r \in GroupStarts(b) : r > s => r > i}
         /\ s \in Group(b, s)
<1> DEFINE G == GroupStarts(b)
           M == {r \in G : r > s} \union {Len(b) + 1}
           m == Min(M)
<1>1. G \subseteq 1..Len(b) /\ Len(b) \in Nat /\ s \in 1..Len(b)
  BY StartsIn
<1>2. Group(b, s) = s..(m - 1)
  BY Zenon DEF Group
<1> HIDE DEF G
<1>3. M \in SUBSET Nat /\ M # {}
  <2>1. Len(b) + 1 \in Nat /\ Len(b) + 1 \in M
    BY <1>1
  <2>2. \A r \in G : r \in Nat
    BY <1>1
  <2> QED  BY <2>1, <2>2
<1>4. m \in M /\ \A y \in M : m <= y
  <2> HIDE DEF M
  <2> QED  BY <1>3, MinLeast
<1> HIDE DEF m
<1>5. m \in s + 1..Len(b) + 1 /\ (m \in G \/ m = Len(b) + 1)
  BY <1>1, <1>4
<1>6. \A r \in G : r > s => m <= r
  BY <1>4
<1>7. ASSUME NEW i \in s..(m - 1) PROVE i \in s..Len(b) /\ \A r \in G : r > s => r > i
  BY <1>1, <1>5, <1>6
<1>8. ASSUME NEW i \in s..Len(b), \A r \in G : r > s => r > i PROVE i \in s..(m - 1)
  BY <1>1, <1>5, <1>8
<1>9. s..(m - 1) = {i \in s..Len(b) : \A r \in G : r > s => r > i}
  BY <1>7, <1>8
<1>10. s \in s..(m - 1)
  BY <1>1, <1>5
<1> QED  BY <1>2, <1>9, <1>10 DEF G

\* A group is in b.
LEMMA GroupIn ==
  ASSUME NEW T, NEW b \in Seq(T), NEW s \in 1..Len(b)
  PROVE  Group(b, s) \subseteq 1..Len(b)
  BY GroupIs

-----------------------------------------------------------------------------
(* Merging and stubbing.                                                     *)

Plain(m) == m.uses = {} /\ m.results = {}
Joined(m, n) == [m EXCEPT !.of = @ \o n.of, !.text = @ \/ n.text,
                          !.mark = @ \/ n.mark, !.refs = @ \union n.refs]

\* One message more in MergeConversational.
MergeStep(acc, x) ==
  LET top == acc[Len(acc)]
  IN  IF /\ acc # <<>> /\ top.role = x.role
         /\ Plain(top) /\ Plain(x)
      THEN [acc EXCEPT ![Len(acc)] = Joined(top, x)]
      ELSE Append(acc, x)

LEMMA MergeStepTyped ==
  ASSUME NEW T, NEW acc \in Seq(T), NEW x \in T,
         \A m, n \in T : m.role = n.role /\ Plain(m) /\ Plain(n) => Joined(m, n) \in T
  PROVE  MergeStep(acc, x) \in Seq(T)
<1> DEFINE top == acc[Len(acc)]
           j == Joined(top, x)
           u == Append(acc, x)
           v == [acc EXCEPT ![Len(acc)] = j]
           joins == /\ acc # <<>> /\ top.role = x.role
                    /\ Plain(top) /\ Plain(x)
<1>1. MergeStep(acc, x) = IF joins THEN v ELSE u
  BY Zenon DEF MergeStep
<1>2. u \in Seq(T)
  OBVIOUS
<1>3. ASSUME joins PROVE v \in Seq(T)
  <2>1. Len(acc) \in 1..Len(acc) /\ top \in T
    BY <1>3
  <2>2. j \in T
    BY <1>3, <2>1
  <2> HIDE DEF j
  <2> QED  BY <2>1, <2>2
<1> HIDE DEF joins, u, v
<1> QED  BY <1>1, <1>2, <1>3

\* MergeConversational takes message after message.
LEMMA MergeFolds ==
  ASSUME NEW T, NEW b \in Seq(T),
         \A m, n \in T : m.role = n.role /\ Plain(m) /\ Plain(n) => Joined(m, n) \in T
  PROVE  \E g \in Values(Len(b), Seq(T)) :
            /\ g[0] = <<>>
            /\ \A k \in 1..Len(b) : g[k] = MergeStep(g[k - 1], b[k])
            /\ MergeConversational(b) = g[Len(b)]
<1> DEFINE N == Len(b)
           U == Seq(T)
           e == <<>>
           D(f) == f = [n \in 0..Len(b) |->
                     IF n = 0 THEN <<>>
                     ELSE LET acc == f[n - 1]
                              top == acc[Len(acc)]
                          IN  IF /\ acc # <<>> /\ top.role = b[n].role
                                 /\ (top.uses = {} /\ top.results = {})
                                    /\ (b[n].uses = {} /\ b[n].results = {})
                              THEN [acc EXCEPT ![Len(acc)] =
                                     [top EXCEPT !.of = @ \o b[n].of, !.text = @ \/ b[n].text,
                                                 !.mark = @ \/ b[n].mark,
                                                 !.refs = @ \union b[n].refs]]
                              ELSE Append(acc, b[n])]
           g == CHOOSE f : D(f)
           step == [p \in (1..N) \X U |-> MergeStep(p[2], b[p[1]])]
<1>0. \A f : D(f) <=> f = [k \in 0..N |-> IF k = 0 THEN <<>> ELSE MergeStep(f[k - 1], b[k])]
  BY Zenon DEF MergeStep, Joined, Plain
<1>1. N \in Nat /\ (\A k \in 1..N : b[k] \in T) /\ e \in U
  BY EmptySeq
<1>2. step \in Steps(N, U)
  <2> HIDE DEF N
  <2>1. \A p \in (1..N) \X U : MergeStep(p[2], b[p[1]]) \in U
    BY <1>1, MergeStepTyped
  <2> HIDE DEF U
  <2> QED  BY <2>1 DEF Steps
<1>3. \A k \in 1..N : \A s \in U : step[<<k, s>>] = MergeStep(s, b[k])
  OBVIOUS
<1>4. MergeConversational(b) = g[Len(b)]
  BY Zenon DEF MergeConversational
<1> HIDE DEF D, N, step, U, e
<1>5. PICK h \in Values(N, U) : Recursion(h, N, e, step)
  BY <1>1, <1>2, RecursionExists
<1>6. D(h)
  <2>1. h = [k \in 0..N |-> h[k]]
    BY <1>5 DEF Values
  <2>2. ASSUME NEW k \in 0..N
        PROVE  h[k] = IF k = 0 THEN <<>> ELSE MergeStep(h[k - 1], b[k])
    <3>1. CASE k = 0
      BY <1>5, <3>1 DEF Recursion, e
    <3>2. CASE k # 0
      <4>1. k \in 1..N /\ k - 1 \in 0..N
        BY <1>1, <3>2
      <4>2. h[k - 1] \in U
        BY <1>5, <4>1 DEF Values
      <4> QED  BY <1>3, <1>5, <3>2, <4>1, <4>2 DEF Recursion
    <3> QED  BY <3>1, <3>2
  <2> QED  BY <1>0, <2>1, <2>2
<1>7. D(g)
  BY <1>6, Zenon
<1> HIDE DEF g
<1>8. g = [k \in 0..N |-> IF k = 0 THEN <<>> ELSE MergeStep(g[k - 1], b[k])]
  BY <1>0, <1>7
<1>9. g[0] = e /\ \A k \in 1..N : g[k] = MergeStep(g[k - 1], b[k])
  <2>1. 0 \in 0..N
    BY <1>1
  <2>2. g[0] = <<>>
    BY <1>8, <2>1
  <2>3. ASSUME NEW k \in 1..N PROVE g[k] = MergeStep(g[k - 1], b[k])
    <3>1. k \in 0..N /\ k # 0
      BY <1>1
    <3> QED  BY <1>8, <3>1
  <2> QED  BY <2>2, <2>3 DEF e
<1>10. \A k \in 1..N : g[k - 1] \in U => g[k] \in U
  BY <1>1, <1>9, MergeStepTyped DEF U
<1>11. g \in Values(N, U)
  <2>1. \A k \in 0..N : g[k] \in U
    BY <1>1, <1>9, <1>10, KeptThroughout
  <2> QED  BY <1>8, <2>1 DEF Values
<1> QED  BY <1>4, <1>9, <1>11 DEF N, e, U

\* Merged messages are messages.
LEMMA MergeTyped ==
  ASSUME NEW T, NEW b \in Seq(T),
         \A m, n \in T : m.role = n.role /\ Plain(m) /\ Plain(n) => Joined(m, n) \in T
  PROVE  MergeConversational(b) \in Seq(T)
<1>1. PICK g \in Values(Len(b), Seq(T)) : MergeConversational(b) = g[Len(b)]
  BY MergeFolds
<1>2. Len(b) \in 0..Len(b)
  OBVIOUS
<1> QED  BY <1>1, <1>2 DEF Values

-----------------------------------------------------------------------------
(* Messages whose references and stubbed outputs are stored.                 *)

Good(R, O) == {m \in Messages : m.refs \subseteq R /\ m.stubbed \subseteq O}

LEMMA GoodGrows ==
  ASSUME NEW R, NEW O, NEW Q, NEW U, R \subseteq Q, O \subseteq U
  PROVE  Good(R, O) \subseteq Good(Q, U) /\ Seq(Good(R, O)) \subseteq Seq(Good(Q, U))
<1>1. Good(R, O) \subseteq Good(Q, U)
  BY DEF Good
<1>2. ASSUME NEW A, NEW B, A \subseteq B PROVE Seq(A) \subseteq Seq(B)
  BY <1>2
<1> QED  BY <1>1, <1>2

\* The fields of a message.
LEMMA MessageFields ==
  ASSUME NEW m
  PROVE  /\ m \in Messages =>
              /\ m.role \in {"user", "assistant"} /\ m.of \in Seq(Id) /\ m.text \in BOOLEAN
              /\ m.uses \in SUBSET (1..MaxTurns) /\ m.results \in SUBSET (1..MaxTurns)
              /\ m.stubbed \in SUBSET (1..MaxTurns) /\ m.mark \in BOOLEAN
              /\ m.refs \in SUBSET Refs
  BY DEF Messages

\* A message built from typed parts.
LEMMA MessageBuilt ==
  ASSUME NEW role \in {"user", "assistant"}, NEW of \in Seq(Id), NEW text \in BOOLEAN,
         NEW uses \in SUBSET (1..MaxTurns), NEW results \in SUBSET (1..MaxTurns),
         NEW stubbed \in SUBSET (1..MaxTurns), NEW mark \in BOOLEAN, NEW refs \in SUBSET Refs
  PROVE  [role |-> role, of |-> of, text |-> text, uses |-> uses, results |-> results,
          stubbed |-> stubbed, mark |-> mark, refs |-> refs] \in Messages
  BY DEF Messages

\* The message that two plain ones are joined to.
LEMMA JoinedIs ==
  ASSUME NEW m \in Messages, NEW n \in Messages
  PROVE  /\ Joined(m, n) \in Messages
         /\ Joined(m, n).role = m.role /\ Joined(m, n).of = m.of \o n.of
         /\ Joined(m, n).text = (m.text \/ n.text) /\ Joined(m, n).uses = m.uses
         /\ Joined(m, n).results = m.results /\ Joined(m, n).stubbed = m.stubbed
         /\ Joined(m, n).mark = (m.mark \/ n.mark)
         /\ Joined(m, n).refs = m.refs \union n.refs
<1> DEFINE of == m.of \o n.of
           text == m.text \/ n.text
           mark == m.mark \/ n.mark
           refs == m.refs \union n.refs
           c == [m EXCEPT !.of = of, !.text = text, !.mark = mark, !.refs = refs]
<1>1. of \in Seq(Id)
  <2>1. m.of \in Seq(Id) /\ n.of \in Seq(Id)
    BY MessageFields
  <2> QED  BY <2>1
<1>2. text \in BOOLEAN /\ mark \in BOOLEAN
  OBVIOUS
<1>3. refs \in SUBSET Refs
  BY MessageFields
<1>4. Joined(m, n) = c
  BY Zenon DEF Joined
<1> HIDE DEF of, text, mark, refs
<1>5. c \in Messages /\ c.role = m.role /\ c.of = of /\ c.uses = m.uses
      /\ c.results = m.results /\ c.stubbed = m.stubbed /\ c.refs = refs
  BY <1>1, <1>2, <1>3 DEF Messages
<1>6. c.text = text /\ c.mark = mark
  BY <1>1, <1>2, <1>3, Zenon DEF Messages
<1> HIDE DEF c
<1> QED  BY <1>4, <1>5, <1>6 DEF of, text, mark, refs

LEMMA JoinedTyped ==
  ASSUME NEW R, NEW O, NEW m \in Good(R, O), NEW n \in Good(R, O)
  PROVE  Joined(m, n) \in Good(R, O)
<1>1. m \in Messages /\ n \in Messages /\ m.refs \subseteq R /\ n.refs \subseteq R
      /\ m.stubbed \subseteq O
  BY DEF Good
<1>2. /\ Joined(m, n) \in Messages /\ Joined(m, n).refs = m.refs \union n.refs
      /\ Joined(m, n).stubbed = m.stubbed
  BY <1>1, JoinedIs
<1> DEFINE j == Joined(m, n)
<1> HIDE DEF j
<1>3. j \in Messages /\ j.refs \subseteq R /\ j.stubbed \subseteq O
  BY <1>1, <1>2 DEF j
<1>4. j \in Good(R, O)
  BY <1>3 DEF Good
<1> QED  BY <1>4 DEF j

\* Outputs that are stored when they are replaced.
LEMMA StubOutputsTyped ==
  ASSUME NEW R, NEW O, NEW b \in Seq(Good(R, O)), NEW S
  PROVE  /\ StubOutputs(b, S) \in Seq(Good(R, O \union UNION {b[i].results : i \in S}))
         /\ Len(StubOutputs(b, S)) = Len(b)
         /\ \A i \in 1..Len(b) : StubOutputs(b, S)[i] =
              IF i \in S THEN [b[i] EXCEPT !.stubbed = b[i].results] ELSE b[i]
<1> DEFINE U == O \union UNION {b[i].results : i \in S}
           x == StubOutputs(b, S)
<1>1. DOMAIN b = 1..Len(b) /\ Len(b) \in Nat /\ \A i \in 1..Len(b) : b[i] \in Good(R, O)
  OBVIOUS
<1>2. \A i \in 1..Len(b) : x[i] = IF i \in S THEN [b[i] EXCEPT !.stubbed = b[i].results] ELSE b[i]
  BY <1>1 DEF StubOutputs
<1>3. x = [i \in 1..Len(b) |-> x[i]]
  BY <1>1 DEF StubOutputs
<1> HIDE DEF x
<1>4. ASSUME NEW i \in 1..Len(b) PROVE x[i] \in Good(R, U)
  <2> DEFINE m == b[i]
             c == [m EXCEPT !.stubbed = m.results]
  <2>1. m \in Messages /\ m.refs \subseteq R /\ m.stubbed \subseteq U
    BY <1>1 DEF Good
  <2>2. i \in S => m.results \subseteq U
    OBVIOUS
  <2> HIDE DEF m, U
  <2>3. c \in Messages /\ c.refs = m.refs /\ c.stubbed = m.results
    BY <2>1 DEF Messages
  <2>4. x[i] = IF i \in S THEN c ELSE m
    BY <1>2 DEF m
  <2> HIDE DEF c
  <2> QED  BY <2>1, <2>2, <2>3, <2>4 DEF Good
<1> HIDE DEF U
<1>5. x \in Seq(Good(R, U)) /\ Len(x) = Len(b)
  BY <1>1, <1>3, <1>4, SequenceBuilt
<1> QED  BY <1>2, <1>5 DEF x, U

\* A stub pair offers its reference alone.
LEMMA StubPairTyped ==
  ASSUME NEW R, NEW O, NEW ref \in Refs, ref \in R
  PROVE  StubPair(ref) \in Seq(Good(R, O)) /\ Len(StubPair(ref)) = 2
<1> DEFINE u == [role |-> "user", of |-> <<>>, text |-> TRUE, uses |-> {}, results |-> {},
                 stubbed |-> {}, mark |-> TRUE, refs |-> {}]
           a == [role |-> "assistant", of |-> <<>>, text |-> TRUE, uses |-> {}, results |-> {},
                 stubbed |-> {}, mark |-> TRUE, refs |-> {ref}]
<1>1. <<>> \in Seq(Id) /\ {ref} \in SUBSET Refs /\ {} \in SUBSET Refs
  OBVIOUS
<1>2. u \in Messages /\ a \in Messages
  BY <1>1, MessageBuilt
<1>3. u \in Good(R, O) /\ a \in Good(R, O)
  BY <1>2 DEF Good
<1>4. StubPair(ref) = <<u, a>>
  BY Zenon DEF StubPair
<1> HIDE DEF u, a
<1> QED  BY <1>3, <1>4

\* What Collapsed puts in the place of the i-th message.
Stripped(m, calls) ==
  IF m.results \intersect calls = {} THEN m
  ELSE [m EXCEPT !.results = @ \ calls, !.text = TRUE, !.stubbed = @ \ calls]
Gone(b, out) == UNION {Group(b, s) : s \in out}
CollapsedPart(b, out, stubs, i) ==
  IF i \in DOMAIN stubs THEN StubPair(stubs[i])
  ELSE IF i \in Gone(b, out) THEN <<>>
  ELSE <<Stripped(b[i], UNION {b[j].uses : j \in Gone(b, out)})>>

LEMMA CollapsedIs ==
  ASSUME NEW T, NEW b \in Seq(T), NEW out, NEW stubs
  PROVE  Collapsed(b, out, stubs) =
           FlattenSeq([i \in 1..Len(b) |-> CollapsedPart(b, out, stubs, i)])
<1> DEFINE gone == Gone(b, out)
           calls == UNION {b[i].uses : i \in gone}
           part(i) == CASE i \in DOMAIN stubs -> StubPair(stubs[i])
                        [] i \notin DOMAIN stubs /\ i \in gone -> <<>>
                        [] OTHER -> <<Stripped(b[i], calls)>>
<1>1. Collapsed(b, out, stubs) = FlattenSeq([i \in DOMAIN b |-> part(i)])
  BY Zenon DEF Collapsed, Gone, Stripped
<1>2. DOMAIN b = 1..Len(b)
  OBVIOUS
<1>3. ASSUME NEW i PROVE part(i) = CollapsedPart(b, out, stubs, i)
  <2> HIDE DEF gone, calls
  <2>1. CollapsedPart(b, out, stubs, i) = IF i \in DOMAIN stubs THEN StubPair(stubs[i])
          ELSE IF i \in gone THEN <<>> ELSE <<Stripped(b[i], calls)>>
    BY Zenon DEF CollapsedPart, gone, calls
  <2> QED  BY <2>1
<1> HIDE DEF part
<1>4. [i \in DOMAIN b |-> part(i)] = [i \in 1..Len(b) |-> CollapsedPart(b, out, stubs, i)]
  BY <1>2, <1>3
<1> QED  BY <1>1, <1>4

\* The stubs of stored chains and what is left of b.
LEMMA CollapsedTyped ==
  ASSUME NEW R, NEW O, NEW b \in Seq(Good(R, O)), NEW out, NEW stubs,
         \A s \in DOMAIN stubs : stubs[s] \in R /\ stubs[s] \in Refs
  PROVE  /\ \A i \in 1..Len(b) : CollapsedPart(b, out, stubs, i) \in Seq(Good(R, O))
         /\ Collapsed(b, out, stubs) \in Seq(Good(R, O))
<1> DEFINE T == Good(R, O)
           f == [i \in 1..Len(b) |-> CollapsedPart(b, out, stubs, i)]
           calls == UNION {b[j].uses : j \in Gone(b, out)}
<1>1. Len(b) \in Nat /\ \A i \in 1..Len(b) : b[i] \in T
  OBVIOUS
<1>2. ASSUME NEW m \in T PROVE Stripped(m, calls) \in T
  <2> HIDE DEF calls
  <2> DEFINE c == [m EXCEPT !.results = @ \ calls, !.text = TRUE, !.stubbed = @ \ calls]
  <2>1. m \in Messages /\ m.refs \subseteq R /\ m.stubbed \subseteq O
    BY <1>2 DEF Good
  <2>2. c \in Messages /\ c.refs = m.refs /\ c.stubbed = m.stubbed \ calls
    BY <2>1 DEF Messages
  <2> HIDE DEF c
  <2>3. c \in T
    BY <2>1, <2>2 DEF Good
  <2>4. Stripped(m, calls) = IF m.results \intersect calls = {} THEN m ELSE c
    BY Zenon DEF Stripped, c
  <2> QED  BY <2>3, <2>4
<1>3. ASSUME NEW i \in 1..Len(b) PROVE CollapsedPart(b, out, stubs, i) \in Seq(T)
  <2>1. CollapsedPart(b, out, stubs, i) = IF i \in DOMAIN stubs THEN StubPair(stubs[i])
          ELSE IF i \in Gone(b, out) THEN <<>> ELSE <<Stripped(b[i], calls)>>
    BY Zenon DEF CollapsedPart
  <2>2. Stripped(b[i], calls) \in T
    BY <1>1, <1>2
  <2>3. i \in DOMAIN stubs => StubPair(stubs[i]) \in Seq(T)
    BY StubPairTyped
  <2> HIDE DEF T, calls
  <2>4. <<>> \in Seq(T) /\ <<Stripped(b[i], calls)>> \in Seq(T)
    BY <2>2
  <2> QED  BY <2>1, <2>3, <2>4
<1>4. \A i \in 1..Len(b) : f[i] = CollapsedPart(b, out, stubs, i)
  OBVIOUS
<1>5. f = [i \in 1..Len(b) |-> f[i]]
  OBVIOUS
<1> HIDE DEF f, T
<1>6. f \in Seq(Seq(T))
  <2> DEFINE U == Seq(T)
  <2>1. \A i \in 1..Len(b) : f[i] \in U
    BY <1>3, <1>4
  <2> HIDE DEF U
  <2>2. f \in Seq(U)
    BY <1>1, <1>5, <2>1, SequenceBuilt
  <2> QED  BY <2>2 DEF U
<1>7. Collapsed(b, out, stubs) = FlattenSeq(f)
  BY CollapsedIs DEF f
<1> QED  BY <1>3, <1>6, <1>7, FlattenTyped DEF T

-----------------------------------------------------------------------------
(* The client's messages.                                                    *)

Forms == Form \union {"ask"}
Turns == [form : Forms, answered : BOOLEAN, hashed : BOOLEAN]

\* The messages of turn t.
Said(t, form, answered) ==
  IF answered
  THEN Append(Opening(t, form),
              Message("assistant", <<t, Len(Opening(t, form)) + 1>>, TRUE, {}, {}))
  ELSE Opening(t, form)

\* A message as the client sends it, the p-th of turn t.
Sent(t, p) == {m \in Messages : m.of = <<<<t, p>>>> /\ m.refs = {} /\ m.stubbed = {}
                                /\ ~ m.mark}

IsSent(m, t, p, role, text, uses, results) ==
  /\ m \in Sent(t, p) /\ m.role = role /\ m.text = text
  /\ m.uses = uses /\ m.results = results

LEMMA MessageSent ==
  ASSUME NEW t \in 1..MaxTurns, NEW p \in 1..5, NEW role \in {"user", "assistant"},
         NEW text \in BOOLEAN, NEW uses \in SUBSET {t}, NEW results \in SUBSET {t}
  PROVE  IsSent(Message(role, <<t, p>>, text, uses, results), t, p, role, text, uses, results)
<1> DEFINE m == Message(role, <<t, p>>, text, uses, results)
           of == <<<<t, p>>>>
<1>1. of \in Seq(Id)
  BY DEF Id
<1>2. uses \in SUBSET (1..MaxTurns) /\ results \in SUBSET (1..MaxTurns)
      /\ {} \in SUBSET (1..MaxTurns) /\ {} \in SUBSET Refs
  OBVIOUS
<1>3. m = [role |-> role, of |-> of, text |-> text, uses |-> uses, results |-> results,
           stubbed |-> {}, mark |-> FALSE, refs |-> {}]
  BY Zenon DEF Message
<1>4. m \in Messages
  <2> HIDE DEF m, of
  <2> QED  BY <1>1, <1>2, <1>3, MessageBuilt
<1>5. m.of = of /\ m.refs = {} /\ m.stubbed = {} /\ ~ m.mark /\ m.role = role
      /\ m.uses = uses /\ m.results = results
  <2> HIDE DEF m, of
  <2> QED  BY <1>3
<1>6. m.text = text
  <2> HIDE DEF m, of
  <2> QED  BY <1>3, Zenon
<1> HIDE DEF m
<1>7. m \in Sent(t, p)
  BY <1>4, <1>5 DEF Sent, of
<1>8. IsSent(m, t, p, role, text, uses, results)
  BY <1>5, <1>6, <1>7, Zenon DEF IsSent
<1> QED  BY <1>8 DEF m

\* The p-th message of turn t, of each form.
LEMMA OpeningIs ==
  ASSUME NEW t \in 1..MaxTurns
  PROVE  /\ Opening(t, "ask") = <<Message("user", <<t, 1>>, TRUE, {}, {})>>
         /\ Opening(t, "loop") = <<Message("user", <<t, 1>>, TRUE, {}, {}),
                                   Message("assistant", <<t, 2>>, FALSE, {t}, {}),
                                   Message("user", <<t, 3>>, FALSE, {}, {t})>>
         /\ Opening(t, "mixed") = <<Message("user", <<t, 1>>, TRUE, {}, {}),
                                    Message("assistant", <<t, 2>>, FALSE, {t}, {}),
                                    Message("user", <<t, 3>>, TRUE, {}, {t})>>
         /\ Opening(t, "split") = <<Message("user", <<t, 1>>, TRUE, {}, {}),
                                    Message("assistant", <<t, 2>>, TRUE, {}, {}),
                                    Message("assistant", <<t, 3>>, FALSE, {t}, {}),
                                    Message("user", <<t, 4>>, FALSE, {}, {t})>>
<1> DEFINE a == <<Message("user", <<t, 1>>, TRUE, {}, {})>>
           l == <<Message("user", <<t, 1>>, TRUE, {}, {}),
                  Message("assistant", <<t, 2>>, FALSE, {t}, {}),
                  Message("user", <<t, 3>>, FALSE, {}, {t})>>
           x == <<Message("user", <<t, 1>>, TRUE, {}, {}),
                  Message("assistant", <<t, 2>>, FALSE, {t}, {}),
                  Message("user", <<t, 3>>, TRUE, {}, {t})>>
           s == <<Message("user", <<t, 1>>, TRUE, {}, {}),
                  Message("assistant", <<t, 2>>, TRUE, {}, {}),
                  Message("assistant", <<t, 3>>, FALSE, {t}, {}),
                  Message("user", <<t, 4>>, FALSE, {}, {t})>>
<1>1. ASSUME NEW form
      PROVE  Opening(t, form) = CASE form = "ask" -> a [] form = "loop" -> l
                                  [] form = "mixed" -> x [] form = "split" -> s
  BY Zenon DEF Opening
<1> HIDE DEF a, l, x, s
<1>2. /\ Opening(t, "ask") = a /\ Opening(t, "loop") = l
      /\ Opening(t, "mixed") = x /\ Opening(t, "split") = s
  BY <1>1
<1> QED  BY <1>2 DEF a, l, x, s

\* Where a turn has its call: the result follows it.
CallAt(form) == IF form = "ask" THEN 0 ELSE IF form = "split" THEN 3 ELSE 2

\* What the p-th message of turn t is.
Role(form, answered, p) ==
  IF p = 1 \/ (form # "ask" /\ p = CallAt(form) + 1) THEN "user" ELSE "assistant"
Opens(form) == IF form = "ask" THEN 1 ELSE IF form = "split" THEN 4 ELSE 3

SaidMessage(m, t, form, answered, p) ==
  /\ m \in Sent(t, p)
  /\ m.role = Role(form, answered, p)
  /\ m.uses = (IF p = CallAt(form) THEN {t} ELSE {})
  /\ m.results = (IF form # "ask" /\ p = CallAt(form) + 1 THEN {t} ELSE {})
  /\ (m.text <=> ~ (form # "ask" /\ p = CallAt(form))
                 /\ ~ (form \in {"loop", "split"} /\ p = CallAt(form) + 1))

LEMMA SaidIs ==
  ASSUME NEW t \in 1..MaxTurns, NEW form \in Forms, NEW answered \in BOOLEAN
  PROVE  /\ Len(Said(t, form, answered)) = (IF answered THEN Opens(form) + 1 ELSE Opens(form))
         /\ \A p \in 1..Len(Said(t, form, answered)) :
              SaidMessage(Said(t, form, answered)[p], t, form, answered, p)
         /\ Said(t, form, answered) \in Seq(Messages)
         /\ Opens(form) \in 1..4 /\ CallAt(form) \in 0..3
<1> DEFINE M == Said(t, form, answered)
           Is(m, p) == /\ m \in Sent(t, p)
                       /\ m.role = Role(form, answered, p)
                       /\ m.uses = (IF p = CallAt(form) THEN {t} ELSE {})
                       /\ m.results = (IF form # "ask" /\ p = CallAt(form) + 1 THEN {t} ELSE {})
                       /\ (m.text <=> ~ (form # "ask" /\ p = CallAt(form))
                                      /\ ~ (form \in {"loop", "split"} /\ p = CallAt(form) + 1))
           O == Opening(t, form)
<1>0. form \in {"ask", "loop", "mixed", "split"}
  BY FormAssumption DEF Forms
<1>1. /\ {} \in SUBSET {t} /\ {t} \in SUBSET {t} /\ TRUE \in BOOLEAN /\ FALSE \in BOOLEAN
      /\ 1 \in 1..5 /\ 2 \in 1..5 /\ 3 \in 1..5 /\ 4 \in 1..5
      /\ "user" \in {"user", "assistant"} /\ "assistant" \in {"user", "assistant"}
  OBVIOUS
<1>2. /\ O \in Seq(Messages) /\ Len(O) = Opens(form)
      /\ \A p \in 1..Opens(form) : Is(O[p], p)
  <2>1. CASE form = "ask"
    <3> DEFINE u == Message("user", <<t, 1>>, TRUE, {}, {})
    <3>1. O = <<u>>
      BY <2>1, OpeningIs
    <3>2. IsSent(u, t, 1, "user", TRUE, {}, {})
      BY <1>1, MessageSent, Zenon
    <3> HIDE DEF u
    <3>3. Is(u, 1)
      BY <2>1, <3>2 DEF CallAt, Role, IsSent
    <3> HIDE DEF O, Is
    <3>4. u \in Messages
      BY <3>2 DEF Sent, IsSent
    <3>5. Opens(form) = 1
      BY <2>1 DEF Opens
    <3> QED  BY <3>1, <3>3, <3>4, <3>5
  <2>2. CASE form \in {"loop", "mixed"}
    <3> DEFINE u == Message("user", <<t, 1>>, TRUE, {}, {})
               c == Message("assistant", <<t, 2>>, FALSE, {t}, {})
               r == Message("user", <<t, 3>>, form = "mixed", {}, {t})
    <3>0. (form = "mixed") \in BOOLEAN
      OBVIOUS
    <3>1. O = <<u, c, r>>
      <4>1. form = "mixed" => (form = "mixed") = TRUE
        OBVIOUS
      <4>2. form = "loop" => (form = "mixed") = FALSE
        OBVIOUS
      <4> QED  BY <2>2, <4>1, <4>2, OpeningIs
    <3>2. IsSent(u, t, 1, "user", TRUE, {}, {})
      BY <1>1, MessageSent, Zenon
    <3>3. IsSent(c, t, 2, "assistant", FALSE, {t}, {})
      BY <1>1, MessageSent, Zenon
    <3>4. IsSent(r, t, 3, "user", (form = "mixed"), {}, {t})
      BY <1>1, <3>0, MessageSent, Zenon
    <3> HIDE DEF u, c, r
    <3>5. Is(u, 1)
      BY <2>2, <3>2 DEF CallAt, Role, IsSent
    <3>6. Is(c, 2)
      BY <2>2, <3>3 DEF CallAt, Role, IsSent
    <3>7. Is(r, 3)
      <4>1. r.text <=> form = "mixed"
        BY <3>4, Zenon DEF IsSent
      <4>2. r \in Sent(t, 3) /\ r.role = "user" /\ r.uses = {} /\ r.results = {t}
        BY <3>4, Zenon DEF IsSent
      <4>3. CallAt(form) = 2 /\ Role(form, answered, 3) = "user" /\ form # "ask"
            /\ (form \in {"loop", "split"} <=> form # "mixed")
        BY <2>2 DEF CallAt, Role
      <4> QED  BY <4>1, <4>2, <4>3
    <3> HIDE DEF O, Is
    <3>8. u \in Messages /\ c \in Messages /\ r \in Messages
      BY <3>2, <3>3, <3>4 DEF Sent, IsSent
    <3>9. Opens(form) = 3
      BY <2>2 DEF Opens
    <3> QED  BY <3>1, <3>5, <3>6, <3>7, <3>8, <3>9
  <2>3. CASE form = "split"
    <3> DEFINE u == Message("user", <<t, 1>>, TRUE, {}, {})
               a == Message("assistant", <<t, 2>>, TRUE, {}, {})
               c == Message("assistant", <<t, 3>>, FALSE, {t}, {})
               r == Message("user", <<t, 4>>, FALSE, {}, {t})
    <3>1. O = <<u, a, c, r>>
      BY <2>3, OpeningIs
    <3>2. IsSent(u, t, 1, "user", TRUE, {}, {})
      BY <1>1, MessageSent, Zenon
    <3>3. IsSent(a, t, 2, "assistant", TRUE, {}, {})
      BY <1>1, MessageSent, Zenon
    <3>4. IsSent(c, t, 3, "assistant", FALSE, {t}, {})
      BY <1>1, MessageSent, Zenon
    <3>5. IsSent(r, t, 4, "user", FALSE, {}, {t})
      BY <1>1, MessageSent, Zenon
    <3> HIDE DEF u, a, c, r
    <3>6. Is(u, 1) /\ Is(a, 2)
      BY <2>3, <3>2, <3>3 DEF CallAt, Role, IsSent
    <3>7. Is(c, 3) /\ Is(r, 4)
      BY <2>3, <3>4, <3>5 DEF CallAt, Role, IsSent
    <3> HIDE DEF O, Is
    <3>8. u \in Messages /\ a \in Messages /\ c \in Messages /\ r \in Messages
      BY <3>2, <3>3, <3>4, <3>5 DEF Sent, IsSent
    <3>9. Opens(form) = 4
      BY <2>3 DEF Opens
    <3> QED  BY <3>1, <3>6, <3>7, <3>8, <3>9
  <2> QED  BY <1>0, <2>1, <2>2, <2>3
<1>3. Opens(form) \in 1..4 /\ CallAt(form) \in 0..3 /\ (form # "ask" => CallAt(form) + 1 <= Opens(form))
      /\ CallAt(form) < Opens(form)
  BY <1>0 DEF Opens, CallAt
<1> DEFINE q == Opens(form) + 1
           z == Message("assistant", <<t, q>>, TRUE, {}, {})
<1>4. z \in Messages /\ Is(z, q)
  <2>1. q \in 1..5
    BY <1>3
  <2>2. IsSent(z, t, q, "assistant", TRUE, {}, {})
    BY <1>1, <2>1, MessageSent, Zenon
  <2> HIDE DEF z
  <2>3. q # 1 /\ q # CallAt(form) /\ (form # "ask" => q # CallAt(form) + 1)
    BY <1>3
  <2> HIDE DEF q
  <2>4. Is(z, q)
    BY <2>2, <2>3 DEF Role, IsSent
  <2> QED  BY <2>2, <2>4 DEF Sent, IsSent
<1>5. M = IF answered THEN Append(O, z) ELSE O
  BY <1>2 DEF Said
<1> HIDE DEF O, z, M, Is
<1>6. /\ M \in Seq(Messages) /\ Len(M) = (IF answered THEN q ELSE Opens(form))
      /\ \A p \in 1..Len(M) : Is(M[p], p)
  <2>1. CASE answered
    <3>1. M = Append(O, z)
      BY <1>5, <2>1
    <3>2. M \in Seq(Messages) /\ Len(M) = q /\ M[q] = z /\ \A p \in 1..Opens(form) : M[p] = O[p]
      BY <1>2, <1>3, <1>4, <3>1
    <3>3. 1..q = 1..Opens(form) \union {q}
      BY <1>3
    <3> QED  BY <1>2, <1>4, <2>1, <3>2, <3>3
  <2>2. CASE ~ answered
    BY <1>2, <1>3, <1>5, <2>2
  <2> QED  BY <2>1, <2>2
<1>7. ASSUME NEW p \in 1..Len(M) PROVE SaidMessage(M[p], t, form, answered, p)
  <2>1. Is(M[p], p)
    BY <1>6
  <2> QED  BY <2>1, Zenon DEF SaidMessage, Is
<1> QED  BY <1>3, <1>6, <1>7 DEF M

\* The history, and what the client sends of it.
History == turns \in Seq(Turns) /\ Len(turns) <= MaxTurns
Told(n) == [t \in DOMAIN turns |-> IF t > n THEN TurnMessages(t) ELSE <<>>]
OwnIds(n) == {id \in Id : /\ id[1] > n /\ id[1] <= Len(turns)
                          /\ id[2] <= Len(TurnMessages(id[1]))}
Says(id) == TurnMessages(id[1])[id[2]].text
Raw(n) == {m \in Messages : /\ m.of # <<>> /\ \A k \in 1..Len(m.of) : m.of[k] \in OwnIds(n)
                            /\ m.refs = {} /\ m.stubbed = {} /\ ~ m.mark
                            /\ m.text \/ Plain(m) => Says(m.of[Len(m.of)])}

LEMMA TurnSaid ==
  ASSUME NEW t
  PROVE  TurnMessages(t) = Said(t, turns[t].form, turns[t].answered)
  BY Zenon DEF TurnMessages, Said

\* What the client says in turn t.
LEMMA TurnIs ==
  ASSUME History, NEW t \in 1..Len(turns)
  PROVE  /\ t \in 1..MaxTurns /\ turns[t] \in Turns
         /\ turns[t].form \in Forms /\ turns[t].answered \in BOOLEAN
         /\ TurnMessages(t) \in Seq(Messages) /\ Len(TurnMessages(t)) \in 1..5
         /\ \A p \in 1..Len(TurnMessages(t)) : TurnMessages(t)[p] \in Sent(t, p)
         /\ IsUser(TurnMessages(t)[1])
         /\ Len(TurnMessages(t)) = (IF turns[t].answered THEN Opens(turns[t].form) + 1
                                    ELSE Opens(turns[t].form))
         /\ \A p \in 1..Len(TurnMessages(t)) :
              SaidMessage(TurnMessages(t)[p], t, turns[t].form, turns[t].answered, p)
<1>1. t \in 1..MaxTurns /\ turns[t] \in Turns
  BY BoundAssumption DEF History
<1>2. turns[t].form \in Forms /\ turns[t].answered \in BOOLEAN
  BY <1>1 DEF Turns
<1> DEFINE M == TurnMessages(t)
<1>3. M = Said(t, turns[t].form, turns[t].answered)
  BY TurnSaid
<1> HIDE DEF M
<1>4. /\ Len(M) = IF turns[t].answered THEN Opens(turns[t].form) + 1 ELSE Opens(turns[t].form)
      /\ \A p \in 1..Len(M) : /\ M[p] \in Sent(t, p)
                              /\ M[p].role = Role(turns[t].form, turns[t].answered, p)
                              /\ SaidMessage(M[p], t, turns[t].form, turns[t].answered, p)
      /\ M \in Seq(Messages) /\ Opens(turns[t].form) \in 1..4
  <2> DEFINE F == turns[t].form
             A == turns[t].answered
             N == Said(t, F, A)
  <2>1. F \in Forms /\ A \in BOOLEAN
    BY <1>2
  <2> HIDE DEF F, A
  <2>2. /\ Len(N) = (IF A THEN Opens(F) + 1 ELSE Opens(F))
        /\ \A p \in 1..Len(N) : SaidMessage(N[p], t, F, A, p)
        /\ N \in Seq(Messages) /\ Opens(F) \in 1..4
    BY <1>1, <2>1, SaidIs, Zenon
  <2>3. M = N
    BY <1>3 DEF F, A
  <2> HIDE DEF N
  <2> QED  BY <2>2, <2>3 DEF F, A, SaidMessage
<1>5. Len(M) \in 1..5
  BY <1>2, <1>4
<1>6. IsUser(M[1])
  <2>1. M[1].role = Role(turns[t].form, turns[t].answered, 1)
    BY <1>4, <1>5
  <2> QED  BY <2>1 DEF Role, IsUser
<1> QED  BY <1>1, <1>2, <1>4, <1>5, <1>6 DEF M

\* Its messages are raw.
LEMMA SentRaw ==
  ASSUME History, NEW t \in 1..Len(turns), NEW n \in Nat, t > n,
         NEW p \in 1..Len(TurnMessages(t))
  PROVE  /\ TurnMessages(t)[p] \in Raw(n) /\ TurnMessages(t)[p].of = <<<<t, p>>>>
         /\ <<t, p>> \in OwnIds(n)
<1> DEFINE M == TurnMessages(t)
           m == M[p]
<1>1. t \in 1..MaxTurns /\ Len(M) \in 1..5 /\ m \in Sent(t, p)
  BY TurnIs
<1>2. <<t, p>> \in OwnIds(n)
  <2>1. <<t, p>> \in Id
    BY <1>1 DEF Id
  <2> QED  BY <1>1, <2>1 DEF OwnIds
<1> HIDE DEF m
<1>3. m \in Messages /\ m.of = <<<<t, p>>>> /\ m.refs = {} /\ m.stubbed = {} /\ ~ m.mark
  BY <1>1 DEF Sent
<1>4. m.of # <<>> /\ \A k \in 1..Len(m.of) : m.of[k] \in OwnIds(n)
  BY <1>2, <1>3
<1>6. m.text \/ Plain(m) => Says(m.of[Len(m.of)])
  <2>1. m.of[Len(m.of)] = <<t, p>>
    BY <1>3
  <2>2. Says(<<t, p>>) = m.text
    BY DEF Says, m
  <2>3. SaidMessage(m, t, turns[t].form, turns[t].answered, p)
    BY TurnIs DEF m
  <2>4. Plain(m) => m.text
    BY <2>3, <1>1 DEF SaidMessage, Plain
  <2> QED  BY <2>1, <2>2, <2>4
<1>5. m \in Raw(n)
  BY <1>3, <1>4, <1>6 DEF Raw
<1> QED  BY <1>2, <1>3, <1>5 DEF m

LEMMA ToldTyped ==
  ASSUME History, NEW n \in Nat
  PROVE  /\ Told(n) \in Seq(Seq(Raw(n))) /\ Len(Told(n)) = Len(turns)
         /\ Client(n) = FlattenSeq(Told(n)) /\ Client(n) \in Seq(Raw(n))
         /\ \A t \in 1..Len(turns) :
              Told(n)[t] = IF t > n THEN TurnMessages(t) ELSE <<>>
         /\ Len(turns) \in Nat /\ DOMAIN turns = 1..Len(turns)
<1> DEFINE f == Told(n)
           U == Seq(Raw(n))
<1>1. Len(turns) \in Nat /\ DOMAIN turns = 1..Len(turns)
  BY DEF History
<1>2. \A t \in 1..Len(turns) : f[t] = IF t > n THEN TurnMessages(t) ELSE <<>>
  BY <1>1 DEF Told
<1>3. f = [t \in 1..Len(turns) |-> f[t]]
  BY <1>1 DEF Told
<1>4. Client(n) = FlattenSeq(f)
  BY Zenon DEF Client, Told
<1> HIDE DEF f
<1>5. ASSUME NEW t \in 1..Len(turns) PROVE f[t] \in U
  <2>1. CASE t > n
    <3> DEFINE M == TurnMessages(t)
    <3>1. M \in Seq(Messages)
      BY TurnIs
    <3>2. \A p \in 1..Len(M) : M[p] \in Raw(n)
      BY <2>1, SentRaw
    <3> HIDE DEF M
    <3>3. M \in U
      BY <3>1, <3>2
    <3> QED  BY <1>2, <2>1, <3>3 DEF M
  <2>2. CASE ~ (t > n)
    BY <1>2, <2>2, EmptySeq
  <2> QED  BY <2>1, <2>2
<1> HIDE DEF U
<1>6. f \in Seq(U) /\ Len(f) = Len(turns)
  BY <1>1, <1>3, <1>5, SequenceBuilt
<1>7. FlattenSeq(f) \in Seq(Raw(n))
  BY <1>6, FlattenTyped DEF U
<1> QED  BY <1>1, <1>2, <1>4, <1>6, <1>7 DEF f, U

\* The k-th message the client sends is the p-th of turn t.
SaidAt(n, k, t, p) ==
  /\ t > n /\ Client(n)[k] = TurnMessages(t)[p] /\ Client(n)[k].of = <<<<t, p>>>>
  /\ p < Len(TurnMessages(t)) =>
       k < Len(Client(n)) /\ Client(n)[k + 1] = TurnMessages(t)[p + 1]
  /\ p = Len(TurnMessages(t)) /\ k < Len(Client(n)) =>
       \E h \in (t + 1)..Len(turns) : Client(n)[k + 1] = TurnMessages(h)[1]
  /\ k = Len(Client(n)) => t = Len(turns) /\ p = Len(TurnMessages(t))

LEMMA ClientPlace ==
  ASSUME History, NEW n \in Nat, NEW k \in 1..Len(Client(n))
  PROVE  \E t \in 1..Len(turns) : \E p \in 1..Len(TurnMessages(t)) : SaidAt(n, k, t, p)
<1> DEFINE x == Client(n)
           ss == Told(n)
           m == Len(turns)
<1>1. /\ ss \in Seq(Seq(Raw(n))) /\ Len(ss) = m /\ x = FlattenSeq(ss) /\ x \in Seq(Raw(n))
      /\ m \in Nat /\ \A t \in 1..m : ss[t] = IF t > n THEN TurnMessages(t) ELSE <<>>
  BY ToldTyped
<1>2. From(x, ss, m)
  BY <1>1, FlattenFrom
<1>3. k \in 1..Len(x)
  OBVIOUS
<1>4. \A t \in 1..m : t > n => Len(TurnMessages(t)) \in 1..5 /\ TurnMessages(t) # <<>>
  <2> TAKE t \in 1..m
  <2>1. Len(TurnMessages(t)) \in 1..5
    BY TurnIs
  <2>2. TurnMessages(t) # <<>>
    <3> DEFINE M == TurnMessages(t)
    <3>1. Len(M) # 0
      BY <2>1
    <3> HIDE DEF M
    <3>2. M # <<>>
      BY <3>1
    <3> QED  BY <3>2 DEF M
  <2> QED  BY <2>1, <2>2, Zenon
<1> HIDE DEF x, ss, m
<1>5. PICK i \in 1..m : \E j \in 1..Len(ss[i]) : Place(x, k, ss, i, j, m)
  BY <1>2, <1>3 DEF From
<1>6. PICK j \in 1..Len(ss[i]) : Place(x, k, ss, i, j, m)
  BY <1>5
<1>7. i > n /\ ss[i] = TurnMessages(i)
  <2>1. i > n
    <3> SUFFICES ASSUME ~ (i > n) PROVE FALSE
      OBVIOUS
    <3>1. ss[i] = <<>>
      BY <1>1
    <3> QED  BY <1>6, <3>1
  <2> QED  BY <1>1, <2>1
<1>8. j \in 1..Len(TurnMessages(i))
  BY <1>7
<1>9. x[k] = TurnMessages(i)[j]
  BY <1>6, <1>7 DEF Place
<1>10. j < Len(TurnMessages(i)) => k < Len(x) /\ x[k + 1] = TurnMessages(i)[j + 1]
  BY <1>6, <1>7 DEF Place
<1>11. ASSUME j = Len(TurnMessages(i)), k < Len(x)
       PROVE  \E h \in (i + 1)..m : x[k + 1] = TurnMessages(h)[1]
  <2>1. PICK h \in (i + 1)..m : ss[h] # <<>> /\ x[k + 1] = ss[h][1]
    BY <1>6, <1>7, <1>11 DEF Place
  <2>2. h \in 1..m /\ ss[h] = TurnMessages(h)
    BY <1>1, <2>1
  <2> QED  BY <2>1, <2>2
<1>12. ASSUME k = Len(x) PROVE i = m /\ j = Len(TurnMessages(i))
  <2>1. j = Len(ss[i]) /\ \A g \in (i + 1)..m : ss[g] = <<>>
    BY <1>6, <1>12 DEF Place
  <2>2. ASSUME i < m PROVE FALSE
    <3>1. i + 1 \in (i + 1)..m /\ i + 1 \in 1..m /\ i + 1 > n
      BY <1>1, <1>7, <2>2
    <3>2. ss[i + 1] = <<>> /\ ss[i + 1] # <<>>
      BY <1>1, <1>4, <2>1, <3>1
    <3> QED  BY <3>2
  <2> QED  BY <1>1, <1>7, <2>1, <2>2
<1>13. x[k].of = <<<<i, j>>>>
  BY <1>7, <1>8, <1>9, SentRaw DEF m
<1>14. SaidAt(n, k, i, j)
  BY <1>7, <1>9, <1>10, <1>11, <1>12, <1>13 DEF SaidAt, x, m
<1> QED  BY <1>8, <1>14 DEF m

\* The client's messages can be found by their ids.
LEMMA ClientHas ==
  ASSUME History, NEW n \in Nat, NEW id \in OwnIds(n)
  PROVE  /\ PositionIn(Client(n), id) \in 1..Len(Client(n))
         /\ Client(n)[PositionIn(Client(n), id)].of = <<id>>
<1> DEFINE x == Client(n)
           ss == Told(n)
           t == id[1]
           p == id[2]
<1>1. /\ ss \in Seq(Seq(Raw(n))) /\ Len(ss) = Len(turns) /\ x = FlattenSeq(ss)
      /\ x \in Seq(Raw(n)) /\ DOMAIN turns = 1..Len(turns) /\ Len(turns) \in Nat
      /\ \A h \in 1..Len(turns) : ss[h] = IF h > n THEN TurnMessages(h) ELSE <<>>
  BY ToldTyped
<1>2. id = <<t, p>> /\ t \in Nat \ {0} /\ t > n /\ t <= Len(turns) /\ p \in 1..5
      /\ p <= Len(TurnMessages(t))
  BY BoundAssumption DEF OwnIds, Id
<1> HIDE DEF t, p, x, ss
<1>3. t \in 1..Len(turns) /\ ss[t] = TurnMessages(t)
  BY <1>1, <1>2
<1>4. p \in 1..Len(ss[t])
  <2>1. Len(TurnMessages(t)) \in 1..5
    BY <1>3, TurnIs
  <2> QED  BY <1>2, <1>3, <2>1
<1>5. PICK k \in Nat : /\ k + Len(ss[t]) <= Len(FlattenSeq(ss))
                       /\ \A j \in 1..Len(ss[t]) : FlattenSeq(ss)[k + j] = ss[t][j]
  <2>1. t \in 1..Len(ss)
    BY <1>1, <1>3
  <2> QED  BY <1>1, <2>1, FlattenBlock, Zenon
<1>6. k + p \in 1..Len(x) /\ x[k + p] = TurnMessages(t)[p]
  <2>1. Len(ss[t]) \in Nat /\ Len(x) \in Nat
    <3>1. Len(TurnMessages(t)) \in 1..5
      BY <1>3, TurnIs
    <3> QED  BY <1>1, <1>3, <3>1
  <2>2. k + Len(ss[t]) <= Len(x) /\ x[k + p] = ss[t][p]
    BY <1>1, <1>4, <1>5
  <2>3. k + p \in 1..Len(x)
    <3> DEFINE a == Len(ss[t])
               b == Len(x)
    <3>1. a \in Nat /\ b \in Nat /\ p \in 1..a /\ k + a <= b
      BY <1>4, <2>1, <2>2
    <3> HIDE DEF a, b
    <3>2. k + p \in 1..b
      BY ONLY <3>1, k \in Nat
    <3> QED  BY <3>2 DEF b
  <2> QED  BY <1>3, <2>2, <2>3
<1>7. x[k + p].of = <<id>>
  BY <1>2, <1>3, <1>4, <1>6, SentRaw
<1>8. \E i \in DOMAIN x : x[i].of = <<id>>
  <2>1. DOMAIN x = 1..Len(x)
    BY <1>1
  <2> QED  BY <1>6, <1>7, <2>1
<1>9. PositionIn(x, id) \in DOMAIN x /\ x[PositionIn(x, id)].of = <<id>>
  BY <1>8, Zenon DEF PositionIn
<1>10. DOMAIN x = 1..Len(x)
  BY <1>1
<1> QED  BY <1>9, <1>10 DEF x

-----------------------------------------------------------------------------
(* Chains.                                                                   *)

\* A round of tool results and an assistant message follows position j.
Round(pre, j) ==
  j + 2 \in DOMAIN pre /\ ToolResultOnly(pre[j + 1]) /\ ~ IsUser(pre[j + 2])

\* f has the ends of the chains of pre.
Ends(f, pre) ==
  \A j \in 1..Len(pre) : /\ f[j] = IF Round(pre, j) THEN f[j + 2] ELSE j
                         /\ f[j] \in j..Len(pre)

\* Every number is even or odd.
LEMMA Halved ==
  ASSUME NEW d \in Nat
  PROVE  \E h \in Nat : d = 2 * h \/ d = 2 * h + 1
<1> DEFINE P == {k \in Nat : \E h \in Nat : k = 2 * h \/ k = 2 * h + 1}
<1>1. 0 \in P
  <2>1. 0 = 2 * 0
    OBVIOUS
  <2> QED  BY <2>1
<1>2. ASSUME NEW k \in Nat, k \in P PROVE k + 1 \in P
  <2>1. PICK h \in Nat : k = 2 * h \/ k = 2 * h + 1
    BY <1>2
  <2>2. h + 1 \in Nat /\ k + 1 \in Nat /\ (k + 1 = 2 * h + 1 \/ k + 1 = 2 * (h + 1))
    BY <2>1
  <2>3. \E z \in Nat : k + 1 = 2 * z \/ k + 1 = 2 * z + 1
    BY ONLY <2>1, <2>2, Zenon
  <2> QED  BY <2>2, <2>3
<1> HIDE DEF P
<1>3. P = Nat
  BY <1>1, <1>2, InductionOver DEF P
<1> QED  BY <1>3 DEF P

\* The function of the ends exists.
LEMMA EndsExist ==
  ASSUME NEW T, NEW pre \in Seq(T)
  PROVE  \E f : Ends(f, pre) /\ f = [j \in DOMAIN pre |-> IF Round(pre, j) THEN f[j + 2] ELSE j]
<1> DEFINE N == Len(pre)
           c(j) == Round(pre, j)
           E(j) == {i \in j..N : (\E h \in Nat : i = j + 2 * h) /\ ~ c(i)}
           f == [j \in 1..N |-> Min(E(j))]
<1>1. N \in Nat /\ DOMAIN pre = 1..N
  OBVIOUS
<1>2. \A j \in 1..N : c(j) => j + 2 <= N
  BY <1>1 DEF Round
<1> HIDE DEF N, c
<1>3. ASSUME NEW j \in 1..N PROVE E(j) \in SUBSET Nat /\ E(j) # {} /\ E(j) \subseteq j..N
  <2>1. N - j \in Nat
    BY <1>1
  <2>2. PICK h \in Nat : N - j = 2 * h \/ N - j = 2 * h + 1
    BY <2>1, Halved
  <2> DEFINE i == j + 2 * h
  <2>3. i \in j..N /\ i + 2 > N
    BY <1>1, <2>2
  <2>4. ~ c(i)
    <3>1. i \in 1..N
      BY <1>1, <2>3
    <3> HIDE DEF i
    <3> QED  BY <1>1, <1>2, <2>3, <3>1
  <2>5. i \in E(j)
    BY <2>3, <2>4
  <2>6. E(j) \subseteq j..N /\ j..N \subseteq Nat
    BY <1>1
  <2> HIDE DEF E, i
  <2> QED  BY <2>5, <2>6
<1>4. ASSUME NEW j \in 1..N, c(j) PROVE j + 2 \in 1..N /\ E(j) = E(j + 2)
  <2>1. j + 2 \in 1..N
    BY <1>1, <1>2, <1>4
  <2>2. ASSUME NEW i \in E(j) PROVE i \in E(j + 2)
    <3>1. PICK h \in Nat : i = j + 2 * h
      BY <2>2
    <3>2. i # j /\ ~ c(i) /\ i \in j..N
      BY <1>4, <2>2
    <3>3. h # 0
      BY <3>1, <3>2
    <3>4. h - 1 \in Nat /\ i = (j + 2) + 2 * (h - 1)
      BY <3>1, <3>3
    <3>5. i \in (j + 2)..N
      BY <1>1, <3>2, <3>4
    <3> QED  BY <3>2, <3>4, <3>5
  <2>3. ASSUME NEW i \in E(j + 2) PROVE i \in E(j)
    <3>1. PICK h \in Nat : i = (j + 2) + 2 * h
      BY <2>3
    <3>2. h + 1 \in Nat /\ i = j + 2 * (h + 1) /\ ~ c(i) /\ i \in j..N
      BY <1>1, <2>3, <3>1
    <3> QED  BY <3>2
  <2> HIDE DEF E
  <2> QED  BY <2>1, <2>2, <2>3
<1>5. ASSUME NEW j \in 1..N, ~ c(j) PROVE j \in E(j)
  <2>1. j \in j..N /\ j = j + 2 * 0
    BY <1>1
  <2> QED  BY <1>5, <2>1
<1> HIDE DEF E
<1>6. ASSUME NEW j \in 1..N PROVE Min(E(j)) \in j..N /\ \A y \in E(j) : Min(E(j)) <= y
  <2>1. Min(E(j)) \in E(j) /\ \A y \in E(j) : Min(E(j)) <= y
    BY <1>3, MinLeast
  <2> QED  BY <1>3, <2>1
<1>7. \A j \in 1..N : f[j] = Min(E(j))
  OBVIOUS
<1>8. f = [j \in 1..N |-> f[j]]
  OBVIOUS
<1> HIDE DEF f
<1>9. ASSUME NEW j \in 1..N PROVE f[j] = IF c(j) THEN f[j + 2] ELSE j
  <2>1. CASE c(j)
    BY <1>4, <1>7, <2>1
  <2>2. CASE ~ c(j)
    <3>1. Min(E(j)) <= j /\ Min(E(j)) \in j..N
      BY <1>5, <1>6, <2>2
    <3> QED  BY <1>1, <1>7, <2>2, <3>1
  <2> QED  BY <2>1, <2>2
<1>10. f = [j \in 1..N |-> IF c(j) THEN f[j + 2] ELSE j]
  BY <1>8, <1>9
<1>11. \A j \in 1..N : f[j] \in j..N
  BY <1>6, <1>7
<1>12. Ends(f, pre)
  BY <1>9, <1>11 DEF Ends, N, c
<1>13. f = [j \in DOMAIN pre |-> IF Round(pre, j) THEN f[j + 2] ELSE j]
  BY <1>1, <1>10 DEF c
<1> QED  BY <1>12, <1>13

\* What a chain is.
LEMMA ChainIs ==
  ASSUME NEW T, NEW pre \in Seq(T), NEW i \in 1..Len(pre)
  PROVE  /\ Chain(pre, i) # {} <=> i < Len(pre) /\ IsUser(pre[i]) /\ ~ IsUser(pre[i + 1])
         /\ Chain(pre, i) # {} => \E f : Ends(f, pre) /\ Chain(pre, i) = i..f[i + 1]
<1> DEFINE D(f) == f = [j \in DOMAIN pre |->
                          IF j + 2 \in DOMAIN pre /\ ToolResultOnly(pre[j + 1]) /\ ~ IsUser(pre[j + 2])
                          THEN f[j + 2] ELSE j]
           g == CHOOSE f : D(f)
           starts == i + 1 \in DOMAIN pre /\ IsUser(pre[i]) /\ ~ IsUser(pre[i + 1])
<1>0. \A f : D(f) <=> f = [j \in DOMAIN pre |-> IF Round(pre, j) THEN f[j + 2] ELSE j]
  BY Zenon DEF Round
<1>1. Chain(pre, i) = IF starts THEN i..g[i + 1] ELSE {}
  BY Zenon DEF Chain
<1>2. DOMAIN pre = 1..Len(pre) /\ Len(pre) \in Nat
  OBVIOUS
<1> HIDE DEF D
<1>3. D(g)
  <2>1. \E f : D(f)
    BY <1>0, EndsExist
  <2> QED  BY <2>1, Zenon
<1> HIDE DEF g
<1>4. \A j \in 1..Len(pre) : g[j] = IF Round(pre, j) THEN g[j + 2] ELSE j
  <2>1. g = [j \in DOMAIN pre |-> IF Round(pre, j) THEN g[j + 2] ELSE j]
    BY <1>0, <1>3
  <2> QED  BY <1>2, <2>1
<1>5. \A j \in 1..Len(pre) : g[j] \in j..Len(pre)
  <2> DEFINE N == Len(pre)
             P == {k \in Nat : \A j \in 1..N : N - j <= k => g[j] \in j..N}
  <2>1. \A j \in 1..N : Round(pre, j) => j + 2 <= N
    BY <1>2 DEF Round
  <2> HIDE DEF N
  <2>2. 0 \in P
    <3>1. ASSUME NEW j \in 1..N, N - j <= 0 PROVE g[j] \in j..N
      <4>1. ~ Round(pre, j)
        BY <1>2, <2>1, <3>1 DEF N
      <4> QED  BY <1>2, <1>4, <3>1, <4>1 DEF N
    <3> QED  BY <3>1
  <2>3. ASSUME NEW k \in Nat, k \in P PROVE k + 1 \in P
    <3>1. ASSUME NEW j \in 1..N, N - j <= k + 1 PROVE g[j] \in j..N
      <4>1. CASE Round(pre, j)
        <5>1. j + 2 \in 1..N /\ N - (j + 2) <= k
          BY <1>2, <2>1, <3>1, <4>1 DEF N
        <5>2. g[j + 2] \in (j + 2)..N
          BY <2>3, <5>1
        <5> QED  BY <1>2, <1>4, <4>1, <5>2 DEF N
      <4>2. CASE ~ Round(pre, j)
        BY <1>2, <1>4, <4>2 DEF N
      <4> QED  BY <4>1, <4>2
    <3> QED  BY <3>1
  <2> HIDE DEF P
  <2>4. P = Nat
    BY <2>2, <2>3, InductionOver DEF P
  <2>5. N \in P /\ N \in Nat
    BY <1>2, <2>4 DEF N
  <2>6. \A j \in 1..N : g[j] \in j..N
    BY <2>5 DEF P
  <2> QED  BY <2>6 DEF N
<1>6. Ends(g, pre)
  BY <1>4, <1>5, Zenon DEF Ends
<1>7. starts <=> i < Len(pre) /\ IsUser(pre[i]) /\ ~ IsUser(pre[i + 1])
  BY <1>2
<1>8. starts => i \in i..g[i + 1]
  BY <1>2, <1>5
<1> HIDE DEF starts
<1> QED  BY <1>1, <1>6, <1>7, <1>8

\* The client has said the message id, in words, and got an answer.
WholeChain(id) ==
  /\ id \in OwnIds(0) /\ id[2] + 1 <= Len(TurnMessages(id[1]))
  /\ IsUser(TurnMessages(id[1])[id[2]]) /\ ~ IsUser(TurnMessages(id[1])[id[2] + 1])
  /\ Says(id)

\* A chain of what the client sends is one.
LEMMA ChainWhole ==
  ASSUME History, NEW n \in Nat, NEW id \in OwnIds(n), Says(id),
         Chain(Client(n), PositionIn(Client(n), id)) # {}
  PROVE  WholeChain(id)
<1> DEFINE x == Client(n)
           k == PositionIn(Client(n), id)
           t == id[1]
           p == id[2]
<1>1. x \in Seq(Raw(n)) /\ k \in 1..Len(x) /\ x[k].of = <<id>>
  BY ToldTyped, ClientHas
<1>2. k < Len(x) /\ IsUser(x[k]) /\ ~ IsUser(x[k + 1])
  BY <1>1, ChainIs
<1>3. PICK tt \in 1..Len(turns) : \E pp \in 1..Len(TurnMessages(tt)) : SaidAt(n, k, tt, pp)
  BY <1>1, ClientPlace
<1>4. PICK pp \in 1..Len(TurnMessages(tt)) : SaidAt(n, k, tt, pp)
  BY <1>3
<1>5. <<id>> = <<<<tt, pp>>>>
  BY <1>1, <1>4, Zenon DEF SaidAt
<1>6. t = tt /\ p = pp
  BY <1>5
<1> HIDE DEF x, k, t, p
<1>7. pp < Len(TurnMessages(tt))
  <2>1. Len(TurnMessages(tt)) \in 1..5
    BY TurnIs
  <2>2. ASSUME pp = Len(TurnMessages(tt)) PROVE FALSE
    <3>1. PICK h \in (tt + 1)..Len(turns) : x[k + 1] = TurnMessages(h)[1]
      BY <1>2, <1>4, <2>2 DEF SaidAt, x, k
    <3>2. h \in 1..Len(turns)
      <4>1. Len(turns) \in Nat
        BY DEF History
      <4> QED  BY <3>1, <4>1
    <3>3. IsUser(TurnMessages(h)[1])
      BY <3>2, TurnIs
    <3> QED  BY <1>2, <3>1, <3>3
  <2> QED  BY <2>1, <2>2
<1>8. x[k] = TurnMessages(tt)[pp] /\ x[k + 1] = TurnMessages(tt)[pp + 1]
  BY <1>4, <1>7 DEF SaidAt, x, k
<1>9. id \in OwnIds(0)
  <2>1. id \in OwnIds(n)
    OBVIOUS
  <2>2. t > 0
    BY <1>6 DEF t
  <2> QED  BY <2>1, <2>2 DEF OwnIds, t
<1>10. pp + 1 <= Len(TurnMessages(tt))
  <2>1. Len(TurnMessages(tt)) \in 1..5
    BY TurnIs
  <2> QED  BY <1>7, <2>1
<1> QED  BY <1>2, <1>6, <1>8, <1>9, <1>10 DEF WholeChain, t, p

\* Where the chain is in all the client has said.
LEMMA WholeIs ==
  ASSUME History, NEW id, WholeChain(id)
  PROVE  LET x == Client(0)
             k == PositionIn(x, id)
         IN  /\ x \in Seq(Raw(0)) /\ k \in 1..Len(x) /\ Chain(x, k) # {}
             /\ SaidAt(0, k, id[1], id[2]) /\ id[1] \in 1..Len(turns)
             /\ id[2] \in 1..Len(TurnMessages(id[1]))
<1> DEFINE x == Client(0)
           k == PositionIn(Client(0), id)
           t == id[1]
           p == id[2]
<1>0. id \in OwnIds(0)
  BY DEF WholeChain
<1>1. x \in Seq(Raw(0)) /\ k \in 1..Len(x) /\ x[k].of = <<id>>
  BY <1>0, ToldTyped, ClientHas
<1>3. PICK tt \in 1..Len(turns) : \E pp \in 1..Len(TurnMessages(tt)) : SaidAt(0, k, tt, pp)
  BY <1>1, ClientPlace
<1>4. PICK pp \in 1..Len(TurnMessages(tt)) : SaidAt(0, k, tt, pp)
  BY <1>3
<1>5. <<id>> = <<<<tt, pp>>>>
  BY <1>1, <1>4, Zenon DEF SaidAt
<1>6. t = tt /\ p = pp
  BY <1>5
<1>7. pp < Len(TurnMessages(tt)) /\ IsUser(TurnMessages(tt)[pp])
      /\ ~ IsUser(TurnMessages(tt)[pp + 1])
  <2>1. Len(TurnMessages(tt)) \in 1..5
    BY TurnIs
  <2> QED  BY <1>6, <2>1 DEF WholeChain
<1> HIDE DEF x, k, t, p
<1>8. k < Len(x) /\ x[k + 1] = TurnMessages(tt)[pp + 1] /\ x[k] = TurnMessages(tt)[pp]
  BY <1>4, <1>7 DEF SaidAt, x, k
<1>9. Chain(x, k) # {}
  BY <1>1, <1>7, <1>8, ChainIs
<1> QED  BY <1>1, <1>3, <1>4, <1>6, <1>9, Zenon DEF x, k, t, p

-----------------------------------------------------------------------------
(* What Keep keeps.                                                          *)

\* x has the messages of b at the positions of S up to m, e says where.
Picks(x, b, S, e, m) ==
  /\ \A k \in 1..Len(x) : e[k] \in 1..m /\ e[k] \in S /\ x[k] = b[e[k]]
  /\ \A k, l \in 1..Len(x) : k < l => e[k] < e[l]
  /\ \A i \in 1..m : i \in S => \E k \in 1..Len(x) : e[k] = i

LEMMA PicksStep ==
  ASSUME NEW b, NEW S, NEW m \in Nat, NEW x, NEW e, Picks(x, b, S, e, m),
         Len(x) \in Nat, NEW z,
         IF m + 1 \in S
         THEN /\ Len(z) = Len(x) + 1 /\ z[Len(x) + 1] = b[m + 1]
              /\ \A k \in 1..Len(x) : z[k] = x[k]
         ELSE z = x
  PROVE  \E d : Picks(z, b, S, d, m + 1)
<1>1. m + 1 \in 1..(m + 1) /\ 1..m \subseteq 1..(m + 1)
      /\ \A i \in 1..(m + 1) : i \in 1..m \/ i = m + 1
  OBVIOUS
<1>2. CASE m + 1 \in S
  <2> DEFINE n == Len(x)
             d == [k \in 1..(n + 1) |-> IF k = n + 1 THEN m + 1 ELSE e[k]]
  <2>0. n \in Nat /\ Len(z) = n + 1 /\ z[n + 1] = b[m + 1] /\ \A k \in 1..n : z[k] = x[k]
    BY <1>2
  <2> HIDE DEF n
  <2>1. d[n + 1] = m + 1 /\ (\A k \in 1..n : d[k] = e[k]) /\ n + 1 \in 1..(n + 1)
        /\ \A k \in 1..(n + 1) : k \in 1..n \/ k = n + 1
    BY <2>0
  <2>2. /\ \A k \in 1..n : e[k] \in 1..m /\ e[k] \in S /\ x[k] = b[e[k]]
        /\ \A k, l \in 1..n : k < l => e[k] < e[l]
        /\ \A i \in 1..m : i \in S => \E k \in 1..n : e[k] = i
    BY DEF Picks, n
  <2> HIDE DEF d
  <2>3. ASSUME NEW k \in 1..(n + 1) PROVE d[k] \in 1..(m + 1) /\ d[k] \in S /\ z[k] = b[d[k]]
    <3>1. CASE k = n + 1
      BY <1>1, <1>2, <2>0, <2>1, <3>1
    <3>2. CASE k \in 1..n
      BY <1>1, <2>0, <2>1, <2>2, <3>2
    <3> QED  BY <2>1, <3>1, <3>2
  <2>4. ASSUME NEW k \in 1..(n + 1), NEW l \in 1..(n + 1), k < l PROVE d[k] < d[l]
    <3>1. k \in 1..n
      BY <2>0, <2>4
    <3>2. CASE l = n + 1
      <4>1. d[k] \in 1..m /\ d[l] = m + 1
        BY <2>1, <2>2, <3>1, <3>2
      <4> QED  BY <4>1
    <3>3. CASE l \in 1..n
      BY <2>1, <2>2, <2>4, <3>1, <3>3
    <3> QED  BY <2>1, <3>2, <3>3
  <2>5. ASSUME NEW i \in 1..(m + 1), i \in S PROVE \E k \in 1..(n + 1) : d[k] = i
    <3>1. CASE i = m + 1
      BY <2>1, <3>1
    <3>2. CASE i \in 1..m
      <4>1. PICK k \in 1..n : e[k] = i
        BY <2>2, <2>5, <3>2
      <4>2. k \in 1..(n + 1) /\ d[k] = i
        BY <2>0, <2>1, <4>1
      <4> QED  BY <4>2
    <3> QED  BY <1>1, <3>1, <3>2
  <2>6. Picks(z, b, S, d, m + 1)
    BY <2>0, <2>3, <2>4, <2>5 DEF Picks
  <2> QED  BY <2>6
<1>3. CASE m + 1 \notin S
  <2>1. z = x
    BY <1>3
  <2>2. Picks(x, b, S, e, m + 1)
    BY <1>1, <1>3 DEF Picks
  <2> QED  BY <2>1, <2>2
<1> QED  BY <1>2, <1>3

LEMMA KeepPicks ==
  ASSUME NEW T, NEW b \in Seq(T), NEW S
  PROVE  \E e : Picks(Keep(b, S), b, S, e, Len(b))
<1> DEFINE f == [i \in DOMAIN b |-> IF i \in S THEN <<b[i]>> ELSE <<>>]
           N == Len(b)
           U == Seq(T)
<1>1. N \in Nat /\ DOMAIN b = 1..N /\ \A i \in 1..N : b[i] \in T
  OBVIOUS
<1>2. \A i \in 1..N : f[i] = IF i \in S THEN <<b[i]>> ELSE <<>>
  BY <1>1
<1>3. f = [i \in 1..N |-> f[i]]
  BY <1>1
<1>4. Keep(b, S) = FlattenSeq(f)
  BY Zenon DEF Keep
<1> HIDE DEF f, N
<1>5. \A i \in 1..N : f[i] \in U
  <2> TAKE i \in 1..N
  <2>1. <<b[i]>> \in Seq(T) /\ <<>> \in Seq(T)
    BY <1>1
  <2> QED  BY <1>2, <2>1
<1> HIDE DEF U
<1>6. f \in Seq(U) /\ Len(f) = N
  BY <1>1, <1>3, <1>5, SequenceBuilt
<1>7. PICK g \in Values(N, U) : Folds(g, f) /\ FlattenSeq(f) = g[N]
  BY <1>6, FlattenFolds DEF U
<1> DEFINE P == {m \in Nat : m <= N => \E e : Picks(g[m], b, S, e, m)}
<1>8. 0 \in P
  <2>1. g[0] = <<>>
    BY <1>7 DEF Folds
  <2>2. Len(g[0]) = 0
    BY <2>1
  <2>3. Picks(g[0], b, S, <<>>, 0)
    BY <2>2 DEF Picks
  <2> QED  BY <2>3
<1>9. ASSUME NEW m \in Nat, m \in P PROVE m + 1 \in P
  <2> SUFFICES ASSUME m + 1 <= N PROVE \E e : Picks(g[m + 1], b, S, e, m + 1)
    BY <1>9
  <2>1. m + 1 \in 1..N /\ (m + 1) - 1 = m /\ m \in 0..N /\ m <= N
    BY <1>1
  <2>2. PICK e : Picks(g[m], b, S, e, m)
    BY <1>9, <2>1
  <2> DEFINE x == g[m]
             y == f[m + 1]
             z == x \o y
  <2>3. g[m + 1] = z
    BY <1>6, <1>7, <2>1 DEF Folds
  <2>4. x \in Seq(T) /\ y \in Seq(T)
    BY <1>5, <1>7, <2>1 DEF Values, U
  <2>5. y = IF m + 1 \in S THEN <<b[m + 1]>> ELSE <<>>
    BY <1>2, <2>1
  <2> HIDE DEF x, y
  <2>6. /\ Len(z) = Len(x) + Len(y) /\ Len(x) \in Nat
        /\ \A k \in 1..Len(x) : z[k] = x[k]
        /\ \A k \in 1..Len(y) : z[Len(x) + k] = y[k]
    BY <2>4, Concatenated
  <2>7. m + 1 \notin S => z = x
    BY <2>4, <2>5
  <2> HIDE DEF z
  <2>8. m + 1 \in S => Len(y) = 1 /\ y[1] = b[m + 1]
    BY <2>5
  <2>9. IF m + 1 \in S
        THEN /\ Len(z) = Len(x) + 1 /\ z[Len(x) + 1] = b[m + 1]
             /\ \A k \in 1..Len(x) : z[k] = x[k]
        ELSE z = x
    BY <2>6, <2>7, <2>8
  <2>10. \E d : Picks(z, b, S, d, m + 1)
    BY <2>2, <2>6, <2>9, PicksStep DEF x
  <2> QED  BY <2>3, <2>10
<1> HIDE DEF P
<1>10. P = Nat
  BY <1>8, <1>9, InductionOver DEF P
<1>11. \E e : Picks(g[N], b, S, e, N)
  BY <1>1, <1>10 DEF P
<1> QED  BY <1>4, <1>7, <1>11 DEF N

\* Nothing of S is between two neighbours, before the first or after the last.
LEMMA PicksNext ==
  ASSUME NEW x, NEW b, NEW S, NEW e, NEW m \in Nat, Picks(x, b, S, e, m), Len(x) \in Nat
  PROVE  /\ \A k \in 1..Len(x) : k < Len(x) =>
              e[k] < e[k + 1] /\ \A i \in 1..m : e[k] < i /\ i < e[k + 1] => i \notin S
         /\ \A i \in 1..m : i < e[1] /\ Len(x) > 0 => i \notin S
         /\ \A i \in 1..m : i > e[Len(x)] /\ Len(x) > 0 => i \notin S
         /\ (\E i \in 1..m : i \in S) => Len(x) > 0
<1> DEFINE n == Len(x)
<1>1. /\ \A k \in 1..n : e[k] \in 1..m
      /\ \A k, l \in 1..n : k < l => e[k] < e[l]
      /\ \A i \in 1..m : i \in S => \E k \in 1..n : e[k] = i
      /\ n \in Nat
  BY DEF Picks
<1> HIDE DEF n
<1>2. ASSUME NEW k \in 1..n, k < n, NEW i \in 1..m, e[k] < i, i < e[k + 1], i \in S
      PROVE  FALSE
  <2>1. PICK l \in 1..n : e[l] = i
    BY <1>1, <1>2
  <2>2. k + 1 \in 1..n /\ e[k] \in 1..m /\ e[k + 1] \in 1..m
    BY <1>1, <1>2
  <2>3. CASE l < k
    BY <1>1, <1>2, <2>1, <2>2, <2>3
  <2>4. CASE l = k \/ l = k + 1
    BY <1>2, <2>1, <2>2, <2>4
  <2>5. CASE l > k + 1
    <3>1. e[k + 1] < e[l]
      BY <1>1, <2>2, <2>5
    <3> QED  BY <1>2, <2>1, <2>2, <3>1
  <2>6. l < k \/ l = k \/ l = k + 1 \/ l > k + 1
    BY <1>1, <1>2
  <2> QED  BY <2>3, <2>4, <2>5, <2>6
<1>3. ASSUME NEW i \in 1..m, i < e[1], n > 0, i \in S PROVE FALSE
  <2>1. PICK l \in 1..n : e[l] = i
    BY <1>1, <1>3
  <2>2. 1 \in 1..n /\ e[1] \in 1..m /\ (l = 1 \/ l > 1)
    BY <1>1, <1>3
  <2>3. l > 1 => e[1] < e[l]
    BY <1>1, <2>2
  <2> QED  BY <1>3, <2>1, <2>2, <2>3
<1>4. ASSUME NEW i \in 1..m, i > e[n], n > 0, i \in S PROVE FALSE
  <2>1. PICK l \in 1..n : e[l] = i
    BY <1>1, <1>4
  <2>2. n \in 1..n /\ e[n] \in 1..m /\ (l = n \/ l < n)
    BY <1>1, <1>4
  <2>3. l < n => e[l] < e[n]
    BY <1>1, <2>2
  <2> QED  BY <1>4, <2>1, <2>2, <2>3
<1>5. ASSUME NEW k \in 1..n, k < n PROVE e[k] < e[k + 1]
  <2>1. k + 1 \in 1..n /\ k < k + 1
    BY <1>1, <1>5
  <2> QED  BY <1>1, <2>1
<1>6. ASSUME NEW i \in 1..m, i \in S PROVE n > 0
  BY <1>1, <1>6
<1> QED  BY <1>2, <1>3, <1>4, <1>5, <1>6 DEF n

\* What is kept is not empty.
LEMMA KeepHas ==
  ASSUME NEW T, NEW b \in Seq(T), NEW S, NEW i \in 1..Len(b), i \in S
  PROVE  Len(Keep(b, S)) \in Nat \ {0}
<1>1. Keep(b, S) \in Seq(T)
  BY KeepTyped
<1>2. Len(Keep(b, S)) \in Nat
  BY <1>1
<1>3. PICK e : Picks(Keep(b, S), b, S, e, Len(b))
  BY KeepPicks
<1>4. Len(b) \in Nat
  OBVIOUS
<1>5. Len(Keep(b, S)) > 0
  BY <1>2, <1>3, <1>4, PicksNext
<1> QED  BY <1>2, <1>5

-----------------------------------------------------------------------------
(* Restoring a chain.                                                        *)

\* A message without its calls, or without some of its results.
WithoutUses(m) == [m EXCEPT !.uses = {}]
WithoutResults(m, S) == [m EXCEPT !.results = @ \ S]

LEMMA WithoutTyped ==
  ASSUME NEW R, NEW O, NEW m \in Good(R, O), NEW S
  PROVE  WithoutUses(m) \in Good(R, O) /\ WithoutResults(m, S) \in Good(R, O)
<1>1. m \in Messages /\ m.refs \subseteq R /\ m.stubbed \subseteq O
  BY DEF Good
<1> DEFINE c == WithoutUses(m)
           d == WithoutResults(m, S)
<1>2. c \in Messages /\ c.refs = m.refs /\ c.stubbed = m.stubbed
  BY <1>1 DEF WithoutUses, Messages
<1>3. d \in Messages /\ d.refs = m.refs /\ d.stubbed = m.stubbed
  BY <1>1 DEF WithoutResults, Messages
<1> HIDE DEF c, d
<1>4. c \in Good(R, O) /\ d \in Good(R, O)
  BY <1>1, <1>2, <1>3 DEF Good
<1> QED  BY <1>4 DEF c, d

\* The chain without the calls of its last message.
RestoredTail(chain) ==
  LET n == Len(chain)
  IN  IF IsUser(chain[n]) \/ chain[n].uses = {} THEN chain
      ELSE IF chain[n].text THEN [chain EXCEPT ![n] = WithoutUses(chain[n])]
      ELSE SubSeq(chain, 1, n - 1)
RestoredOrphans(tail) ==
  IF tail = <<>> \/ ~ IsUser(tail[1]) THEN {}
  ELSE tail[1].results \ UNION {tail[i].uses : i \in DOMAIN tail}

LEMMA RestorableIs ==
  ASSUME NEW T, NEW chain \in Seq(T), chain # <<>>
  PROVE  LET tail == RestoredTail(chain)
             orphans == RestoredOrphans(tail)
         IN  Restorable(chain) =
               CASE orphans = {} -> tail
                 [] orphans # {} /\ (tail[1].text \/ orphans # tail[1].results)
                       -> [tail EXCEPT ![1] = WithoutResults(tail[1], orphans)]
                 [] OTHER -> Tail(tail)
<1> DEFINE n == Len(chain)
           c == [chain EXCEPT ![n].uses = {}]
           d == [chain EXCEPT ![n] = WithoutUses(chain[n])]
           tail == RestoredTail(chain)
           old == IF IsUser(chain[n]) \/ chain[n].uses = {} THEN chain
                  ELSE IF chain[n].text THEN c ELSE SubSeq(chain, 1, n - 1)
           orphans == RestoredOrphans(tail)
<1>1. c = d
  BY Zenon DEF WithoutUses
<1>2. old = tail
  BY <1>1, Zenon DEF RestoredTail
<1>3. \A x, S : [x EXCEPT ![1].results = @ \ S] = [x EXCEPT ![1] = WithoutResults(x[1], S)]
  BY Zenon DEF WithoutResults
<1>4. Restorable(chain) =
               CASE RestoredOrphans(old) = {} -> old
                 [] RestoredOrphans(old) # {} /\ (old[1].text \/ RestoredOrphans(old) # old[1].results)
                       -> [old EXCEPT ![1].results = @ \ RestoredOrphans(old)]
                 [] OTHER -> Tail(old)
  BY Zenon DEF Restorable, RestoredOrphans
<1> HIDE DEF old, tail
<1>5. old = tail /\ RestoredOrphans(old) = orphans
  BY <1>2
<1> HIDE DEF orphans
<1> DEFINE u == [tail EXCEPT ![1].results = @ \ orphans]
           v == [tail EXCEPT ![1] = WithoutResults(tail[1], orphans)]
<1>6. u = v
  BY <1>3
<1>7. Restorable(chain) =
               CASE orphans = {} -> tail
                 [] orphans # {} /\ (tail[1].text \/ orphans # tail[1].results) -> u
                 [] OTHER -> Tail(tail)
  BY <1>4, <1>5
<1> HIDE DEF u, v
<1>8. Restorable(chain) =
               CASE orphans = {} -> tail
                 [] orphans # {} /\ (tail[1].text \/ orphans # tail[1].results) -> v
                 [] OTHER -> Tail(tail)
  BY <1>6, <1>7
<1> QED  BY <1>8 DEF v, orphans, tail

\* The restored chain has stored outputs as the chain has.
LEMMA RestorableTyped ==
  ASSUME NEW R, NEW O, NEW chain \in Seq(Good(R, O)), chain # <<>>
  PROVE  Restorable(chain) \in Seq(Good(R, O))
<1> DEFINE T == Good(R, O)
           n == Len(chain)
           tail == RestoredTail(chain)
           orphans == RestoredOrphans(tail)
           w == WithoutUses(chain[n])
           cut == SubSeq(chain, 1, n - 1)
           freed == [chain EXCEPT ![n] = w]
<1>1. n \in Nat \ {0} /\ n \in 1..n /\ chain[n] \in T
  OBVIOUS
<1>2. w \in T
  BY <1>1, WithoutTyped
<1>3. tail = IF IsUser(chain[n]) \/ chain[n].uses = {} THEN chain
             ELSE IF chain[n].text THEN freed ELSE cut
  BY Zenon DEF RestoredTail
<1> HIDE DEF w, T
<1>4. freed \in Seq(T)
  BY <1>1, <1>2 DEF T
<1>5. cut \in Seq(T)
  BY <1>1 DEF T
<1>6. chain \in Seq(T)
  BY DEF T
<1> HIDE DEF freed, cut, tail, n
<1>7. tail \in Seq(T)
  BY <1>3, <1>4, <1>5, <1>6
<1>8. ASSUME orphans # {} PROVE tail # <<>>
  BY <1>8 DEF RestoredOrphans
<1> HIDE DEF orphans
<1> DEFINE v == WithoutResults(tail[1], orphans)
           p == [tail EXCEPT ![1] = v]
           q == Tail(tail)
<1>9. Restorable(chain) = CASE orphans = {} -> tail
                 [] orphans # {} /\ (tail[1].text \/ orphans # tail[1].results) -> p
                 [] OTHER -> q
  BY RestorableIs, Zenon DEF tail, orphans
<1>10. ASSUME orphans # {} PROVE p \in Seq(T) /\ q \in Seq(T)
  <2>1. 1 \in 1..Len(tail) /\ tail[1] \in T /\ tail # <<>>
    BY <1>7, <1>8, <1>10
  <2>2. v \in T
    BY <2>1, WithoutTyped DEF T
  <2> HIDE DEF v
  <2> QED  BY <1>7, <2>1, <2>2
<1> HIDE DEF p, q
<1>11. Restorable(chain) \in Seq(T)
  BY <1>7, <1>9, <1>10
<1> QED  BY <1>11 DEF T

\* y is b with chain in the place of the i-th pair.
RestoredAt(y, b, ref, chain, i) ==
  /\ b[i].mark /\ ref \in b[i + 1].refs
  /\ y = SubSeq(b, 1, i - 1) \o chain \o SubSeq(b, i + 2, Len(b))

\* A chain in the place of a stub pair.
LEMMA RestoreTyped ==
  ASSUME NEW T, NEW b \in Seq(T), NEW ref, StubsOf(b, ref) # {}, NEW chain \in Seq(T)
  PROVE  /\ RestoreInPlace(b, ref, chain) \in Seq(T)
         /\ \E i \in 1..(Len(b) - 1) : RestoredAt(RestoreInPlace(b, ref, chain), b, ref, chain, i)
<1> DEFINE S == StubsOf(b, ref)
           i == Min(StubsOf(b, ref))
           u == SubSeq(b, 1, i - 1)
           v == SubSeq(b, i + 2, Len(b))
<1>1. DOMAIN b = 1..Len(b) /\ Len(b) \in Nat
  OBVIOUS
<1>2. \A k \in S : k \in 1..(Len(b) - 1) /\ b[k].mark /\ ref \in b[k + 1].refs
  BY <1>1 DEF StubsOf
<1>3. S \in SUBSET Nat
  BY <1>2
<1>4. i \in S
  <2> HIDE DEF S
  <2>1. Min(S) \in S
    BY <1>3, MinLeast DEF S
  <2> QED  BY <2>1 DEF S
<1>5. i \in 1..(Len(b) - 1) /\ b[i].mark /\ ref \in b[i + 1].refs
  BY <1>2, <1>4
<1>6. RestoreInPlace(b, ref, chain) = u \o chain \o v
  BY Zenon DEF RestoreInPlace
<1> HIDE DEF i, S
<1>7. u \in Seq(T) /\ v \in Seq(T)
  BY <1>1, <1>5
<1>8. u \o chain \o v \in Seq(T)
  BY <1>7
<1>9. RestoredAt(RestoreInPlace(b, ref, chain), b, ref, chain, i)
  BY <1>5, <1>6, Zenon DEF RestoredAt, u, v
<1> QED  BY <1>5, <1>6, <1>8, <1>9

-----------------------------------------------------------------------------
(* The loop of collapse_turn_chains.                                         *)

\* Its state at first, and what it does with a group.
CollapseStart(b, cached) ==
  LET known == IF cached /\ cache.loaded THEN cache.refs
               ELSE {r \in rows : r.canon >= 0}
  IN  [known |-> known, rows |-> rows, outputs |-> outputs,
       cache |-> IF cached THEN [cache EXCEPT !.loaded = TRUE, !.refs = known]
                 ELSE cache,
       stubs |-> [s \in {} |-> Ref(-1, <<0, 0>>)], deep |-> {}]

WithStub(acc, s, canon, ref) ==
  IF Deep > 0 /\ canon >= 0 /\ canon < Deep
  THEN [acc EXCEPT !.deep = @ \union {[start |-> s, ref |-> ref]}]
  ELSE [acc EXCEPT !.stubs = [x \in DOMAIN @ \union {s} |->
                                IF x = s THEN ref ELSE @[x]]]

WithRow(cached, acc, s, canon, ref) ==
  [acc EXCEPT
     !.known = @ \union {ref}, !.rows = @ \union {ref},
     !.cache = IF cached /\ canon >= 0
               THEN Remember(@, @.refs \union {ref}, ref) ELSE @]

WithOutputs(b, lostOutputs, acc, s) ==
  LET calls == IF s \in lostOutputs THEN {}
               ELSE UNION {b[i].results : i \in Group(b, s)}
  IN  [acc EXCEPT !.outputs = @ \union calls]

CollapseStep(b, cached, lostRows, lostOutputs, acc, s) ==
  LET id == Needle(b, s)
      canon == Resolve(id)
      same == {r \in acc.known : r.canon = canon}
      chain == Chain(PreFilter, PositionIn(PreFilter, id))
      tried == WithOutputs(b, lostOutputs, acc, s)
      ref == Ref(canon, id)
  IN  CASE id = <<>> -> acc
        [] id # <<>> /\ same # {} ->
              WithStub(acc, s, canon, CHOOSE r \in same : TRUE)
        [] id # <<>> /\ same = {} /\ chain = {} -> acc
        [] id # <<>> /\ same = {} /\ chain # {} /\ s \in lostRows -> tried
        [] OTHER -> WithStub(WithRow(cached, tried, s, canon, ref), s, canon, ref)

\* What the loop has at first and keeps with each group, it ends with.
LEMMA CollapsingKeeps ==
  ASSUME NEW T, NEW b \in Seq(T), NEW cached, NEW lostRows, NEW lostOutputs, NEW A,
         CollapseStart(b, cached) \in A,
         \A acc \in A : \A s \in Collapsible(b) :
           CollapseStep(b, cached, lostRows, lostOutputs, acc, s) \in A
  PROVE  Collapsing(b, cached, lostRows, lostOutputs) \in A
<1> DEFINE N == Len(b)
           H == Collapsible(b)
           a == CollapseStart(b, cached)
           S(acc, s) == CollapseStep(b, cached, lostRows, lostOutputs, acc, s)
           next(acc, k) == IF k \in H THEN S(acc, k) ELSE acc
           D(f) == f = [i \in 0..Len(b) |->
                          IF i = 0 THEN CollapseStart(b, cached)
                          ELSE IF i \in Collapsible(b)
                               THEN CollapseStep(b, cached, lostRows, lostOutputs, f[i - 1], i)
                               ELSE f[i - 1]]
           g == CHOOSE f : D(f)
           step == [p \in (1..N) \X A |-> next(p[2], p[1])]
<1>1. Collapsing(b, cached, lostRows, lostOutputs) = g[Len(b)]
  BY Zenon DEF Collapsing, CollapseStart, CollapseStep, WithStub, WithRow, WithOutputs
<1>2. \A f : D(f) <=> f = [i \in 0..N |-> IF i = 0 THEN a ELSE next(f[i - 1], i)]
  BY Zenon
<1>3. N \in Nat
  OBVIOUS
<1>4. \A acc \in A : \A k : next(acc, k) \in A
  <2> HIDE DEF S, H
  <2>1. \A acc \in A : \A s \in H : S(acc, s) \in A
    BY DEF S, H
  <2> QED  BY <2>1
<1>5. a \in A
  OBVIOUS
<1> HIDE DEF D, next, N, a
<1>6. step \in Steps(N, A)
  <2>1. \A p \in (1..N) \X A : next(p[2], p[1]) \in A
    BY <1>4
  <2> QED  BY <2>1 DEF Steps
<1>7. \A k \in 1..N : \A acc \in A : step[<<k, acc>>] = next(acc, k)
  OBVIOUS
<1> HIDE DEF step
<1>8. PICK h \in Values(N, A) : Recursion(h, N, a, step)
  BY <1>3, <1>5, <1>6, RecursionExists
<1>9. D(h)
  <2>1. h = [k \in 0..N |-> h[k]]
    BY <1>8 DEF Values
  <2>2. ASSUME NEW k \in 0..N PROVE h[k] = IF k = 0 THEN a ELSE next(h[k - 1], k)
    <3>1. CASE k = 0
      BY <1>8, <3>1 DEF Recursion
    <3>2. CASE k # 0
      <4>1. k \in 1..N /\ k - 1 \in 0..N
        BY <1>3, <3>2
      <4>2. h[k - 1] \in A
        BY <1>8, <4>1 DEF Values
      <4> QED  BY <1>7, <1>8, <3>2, <4>1, <4>2 DEF Recursion
    <3> QED  BY <3>1, <3>2
  <2> QED  BY <1>2, <2>1, <2>2
<1>10. D(g)
  BY <1>9, Zenon
<1> HIDE DEF g
<1>11. g = [i \in 0..N |-> IF i = 0 THEN a ELSE next(g[i - 1], i)]
  BY <1>2, <1>10
<1>12. g[0] \in A
  <2>1. 0 \in 0..N
    BY <1>3
  <2>2. g[0] = a
    BY <1>11, <2>1
  <2> QED  BY <1>5, <2>2
<1>13. ASSUME NEW k \in 1..N, g[k - 1] \in A PROVE g[k] \in A
  <2>1. k \in 0..N /\ k # 0
    BY <1>3
  <2>2. g[k] = next(g[k - 1], k)
    BY <1>11, <2>1
  <2> QED  BY <1>4, <1>13, <2>2
<1>14. \A k \in 0..N : g[k] \in A
  BY <1>3, <1>12, <1>13, KeptThroughout
<1>15. N \in 0..N
  BY <1>3
<1> QED  BY <1>1, <1>14, <1>15 DEF N

-----------------------------------------------------------------------------
(* What the loop stores.                                                     *)

\* The groups that may be collapsed are groups.
LEMMA CollapsibleIn ==
  ASSUME NEW T, NEW b \in Seq(T)
  PROVE  Collapsible(b) \subseteq HistoryStarts(b) /\ Collapsible(b) \subseteq 1..Len(b)
<1>1. Collapsible(b) \subseteq HistoryStarts(b)
  BY DEF Collapsible, ButLast
<1> QED  BY <1>1, StartsIn

\* The id that names a group is the client's.
LEMMA NeedleTyped ==
  ASSUME NEW n \in Nat, NEW b \in Seq(Raw(n)), NEW s \in 1..Len(b)
  PROVE  Needle(b, s) # <<>> => Needle(b, s) \in OwnIds(n) /\ Says(Needle(b, s))
<1> DEFINE S == {i \in Group(b, s) : IsUser(b[i]) /\ ~ToolResultOnly(b[i]) /\ b[i].text}
           of == b[Max(S)].of
<1>1. Needle(b, s) = IF S = {} THEN <<>> ELSE of[Len(of)]
  BY Zenon DEF Needle
<1>2. S \in SUBSET (0..Len(b)) /\ S \subseteq 1..Len(b) /\ Len(b) \in Nat
      /\ \A i \in S : b[i].text
  BY GroupIn
<1> HIDE DEF S
<1>3. ASSUME S # {} PROVE of[Len(of)] \in OwnIds(n) /\ Says(of[Len(of)])
  <2>1. Max(S) \in 1..Len(b) /\ Max(S) \in S
    BY <1>2, <1>3, MaxGreatest
  <2> DEFINE m == b[Max(S)]
  <2>2. m \in Raw(n) /\ m.text
    BY <1>2, <2>1
  <2> HIDE DEF m
  <2>3. m.of \in Seq(Id) /\ m.of # <<>> /\ (\A k \in 1..Len(m.of) : m.of[k] \in OwnIds(n))
        /\ Says(m.of[Len(m.of)])
    BY <2>2, MessageFields DEF Raw
  <2>4. Len(m.of) \in 1..Len(m.of)
    BY <2>3
  <2> QED  BY <2>3, <2>4 DEF m
<1> QED  BY <1>1, <1>3

\* Turn numbers.
LEMMA CanonicalTyped ==
  ASSUME NEW t \in Nat \ {0}
  PROVE  Canonical(t) \in 0..(t - 1)
<1> DEFINE S == {s \in 1..(t - 1) : turns[s].answered}
<1>1. IsFiniteSet(1..(t - 1)) /\ Cardinality(1..(t - 1)) = t - 1
  <2>1. t - 1 \in Int /\ 1 \in Int
    OBVIOUS
  <2>2. /\ IsFiniteSet(1..(t - 1))
        /\ Cardinality(1..(t - 1)) = IF 1 > t - 1 THEN 0 ELSE (t - 1) - 1 + 1
    BY <2>1, FS_Interval
  <2> QED  BY <2>2
<1>2. Cardinality(S) \in Nat /\ Cardinality(S) <= t - 1
  <2>1. S \subseteq 1..(t - 1)
    OBVIOUS
  <2> HIDE DEF S
  <2>2. IsFiniteSet(S) /\ Cardinality(S) <= Cardinality(1..(t - 1))
    BY <1>1, <2>1, FS_Subset
  <2> QED  BY <1>1, <2>2, FS_CardinalityType
<1>3. Canonical(t) = Cardinality(S)
  BY Zenon DEF Canonical
<1> HIDE DEF S
<1> QED  BY <1>2, <1>3

LEMMA RefTyped ==
  ASSUME History, NEW n \in Nat, NEW id \in OwnIds(n)
  PROVE  /\ Resolve(id) \in (-1)..(MaxTurns - 1) /\ Ref(Resolve(id), id) \in Refs
         /\ Ref(Resolve(id), id).first = id /\ Ref(Resolve(id), id).canon = Resolve(id)
<1> DEFINE t == id[1]
           c == Resolve(id)
<1>1. t \in 1..Len(turns) /\ id \in Id /\ Len(turns) \in Nat
  BY DEF OwnIds, Id, History
<1> HIDE DEF t
<1>2. Canonical(t) \in 0..(MaxTurns - 1)
  <2>1. Canonical(t) \in 0..(t - 1)
    BY <1>1, CanonicalTyped
  <2> QED  BY <1>1, <2>1, BoundAssumption DEF History
<1>3. c = Canonical(t) \/ c = -1
  BY Zenon DEF Resolve, t
<1>4. c \in (-1)..(MaxTurns - 1)
  <2>1. MaxTurns \in Nat \ {0}
    BY <1>1, BoundAssumption DEF History
  <2> QED  BY <1>2, <1>3, <2>1
<1> HIDE DEF c
<1>5. Ref(c, id) \in Refs /\ Ref(c, id).first = id /\ Ref(c, id).canon = c
  BY <1>1, <1>4 DEF Ref, Refs
<1> QED  BY <1>4, <1>5 DEF c

\* The states of the loop.
Caches == [loaded : BOOLEAN, refs : SUBSET Refs, recovery : BOOLEAN, manifest : SUBSET Refs]
StubFunctions(H) == UNION {[S -> Refs] : S \in SUBSET H}
Loops(H) == [known : SUBSET Refs, rows : SUBSET Refs, outputs : SUBSET (1..MaxTurns),
             cache : Caches, stubs : StubFunctions(H), deep : SUBSET [start : H, ref : Refs]]

\* All that the loop knows or offers has a row, whose chain the client has sent.
Backed(H) ==
  {a \in Loops(H) : /\ rows \subseteq a.rows /\ outputs \subseteq a.outputs
                    /\ a.known \subseteq a.rows
                    /\ a.cache.refs \subseteq a.rows /\ a.cache.manifest \subseteq a.rows
                    /\ \A s \in DOMAIN a.stubs : a.stubs[s] \in a.rows
                    /\ \A d \in a.deep : d.ref \in a.rows
                    /\ \A r \in a.rows : WholeChain(r.first)}

LEMMA LoopFields ==
  ASSUME NEW H, NEW a \in Loops(H)
  PROVE  /\ a.known \in SUBSET Refs /\ a.rows \in SUBSET Refs
         /\ a.outputs \in SUBSET (1..MaxTurns) /\ a.cache \in Caches
         /\ a.stubs \in StubFunctions(H) /\ a.deep \in SUBSET [start : H, ref : Refs]
  BY DEF Loops

StubsWith(f, s, ref) == [x \in DOMAIN f \union {s} |-> IF x = s THEN ref ELSE f[x]]

LEMMA StubAdded ==
  ASSUME NEW H, NEW f \in StubFunctions(H), NEW s \in H, NEW ref \in Refs
  PROVE  /\ StubsWith(f, s, ref) \in StubFunctions(H)
         /\ DOMAIN StubsWith(f, s, ref) = DOMAIN f \union {s}
         /\ \A x \in DOMAIN f \union {s} :
              StubsWith(f, s, ref)[x] = IF x = s THEN ref ELSE f[x]
<1> DEFINE g == StubsWith(f, s, ref)
<1> USE DEF StubsWith
<1>1. PICK S \in SUBSET H : f \in [S -> Refs]
  BY DEF StubFunctions
<1>2. S \union {s} \in SUBSET H /\ DOMAIN f = S
  BY <1>1
<1>3. g \in [S \union {s} -> Refs]
  BY <1>1, <1>2
<1>4. /\ DOMAIN g = DOMAIN f \union {s}
      /\ \A x \in DOMAIN f \union {s} : g[x] = IF x = s THEN ref ELSE f[x]
  OBVIOUS
<1> HIDE DEF g
<1>5. g \in StubFunctions(H)
  BY <1>2, <1>3 DEF StubFunctions
<1> QED  BY <1>4, <1>5 DEF g

LEMMA WithStubBacked ==
  ASSUME NEW H, NEW a \in Backed(H), NEW s \in H, NEW canon, NEW ref \in a.rows
  PROVE  WithStub(a, s, canon, ref) \in Backed(H)
<1> DEFINE g == StubsWith(a.stubs, s, ref)
           e == a.deep \union {[start |-> s, ref |-> ref]}
           u == [a EXCEPT !.deep = e]
           v == [a EXCEPT !.stubs = g]
           shallow == ~ (Deep > 0 /\ canon >= 0 /\ canon < Deep)
<1>1. WithStub(a, s, canon, ref) = IF shallow THEN v ELSE u
  BY Zenon DEF WithStub, StubsWith
<1>2. a \in Loops(H) /\ a.rows \in SUBSET Refs /\ ref \in Refs
      /\ a.stubs \in StubFunctions(H) /\ a.deep \in SUBSET [start : H, ref : Refs]
  BY LoopFields DEF Backed
<1>3. g \in StubFunctions(H) /\ DOMAIN g = DOMAIN a.stubs \union {s}
      /\ \A x \in DOMAIN g : g[x] = IF x = s THEN ref ELSE a.stubs[x]
  <2> DEFINE f == a.stubs
  <2>1. f \in StubFunctions(H)
    BY <1>2
  <2> HIDE DEF f
  <2>2. /\ g \in StubFunctions(H) /\ DOMAIN g = DOMAIN f \union {s}
        /\ \A x \in DOMAIN f \union {s} : g[x] = IF x = s THEN ref ELSE f[x]
    BY <1>2, <2>1, StubAdded DEF f
  <2> HIDE DEF g
  <2> QED  BY <2>2 DEF f
<1>4. e \in SUBSET [start : H, ref : Refs] /\ \A d \in e : d \in a.deep \/ d.ref = ref
  BY <1>2
<1> HIDE DEF g, e
<1>5. /\ v \in Loops(H) /\ v.rows = a.rows /\ v.outputs = a.outputs /\ v.known = a.known
      /\ v.cache = a.cache /\ v.deep = a.deep /\ v.stubs = g
  BY <1>2, <1>3 DEF Loops
<1>6. /\ u \in Loops(H) /\ u.rows = a.rows /\ u.outputs = a.outputs /\ u.known = a.known
      /\ u.cache = a.cache /\ u.deep = e /\ u.stubs = a.stubs
  BY <1>2, <1>4 DEF Loops
<1> HIDE DEF u, v, shallow
<1>7. /\ rows \subseteq a.rows /\ outputs \subseteq a.outputs /\ a.known \subseteq a.rows
      /\ a.cache.refs \subseteq a.rows /\ a.cache.manifest \subseteq a.rows
      /\ \A x \in DOMAIN a.stubs : a.stubs[x] \in a.rows
      /\ \A d \in a.deep : d.ref \in a.rows
      /\ \A r \in a.rows : WholeChain(r.first)
  BY DEF Backed
<1>8. v \in Backed(H)
  <2>1. \A x \in DOMAIN g : g[x] \in a.rows
    BY <1>3, <1>7
  <2> QED  BY <1>5, <1>7, <2>1 DEF Backed
<1>9. u \in Backed(H)
  <2>1. \A d \in e : d.ref \in a.rows
    BY <1>4, <1>7
  <2> QED  BY <1>6, <1>7, <2>1 DEF Backed
<1> QED  BY <1>1, <1>8, <1>9

LEMMA WithRowBacked ==
  ASSUME NEW H, NEW a \in Backed(H), NEW cached, NEW s, NEW canon, NEW ref \in Refs,
         WholeChain(ref.first)
  PROVE  WithRow(cached, a, s, canon, ref) \in Backed(H)
         /\ ref \in WithRow(cached, a, s, canon, ref).rows
<1> DEFINE c == Remember(a.cache, a.cache.refs \union {ref}, ref)
           k == a.known \union {ref}
           q == a.rows \union {ref}
           cc == IF cached /\ canon >= 0 THEN c ELSE a.cache
           u == [a EXCEPT !.known = k, !.rows = q, !.cache = cc]
<1>1. WithRow(cached, a, s, canon, ref) = u
  BY Zenon DEF WithRow
<1>2. a \in Loops(H) /\ a.rows \in SUBSET Refs /\ a.known \in SUBSET Refs /\ a.cache \in Caches
  BY LoopFields DEF Backed
<1>3. c \in Caches /\ c.refs = a.cache.refs \union {ref}
      /\ c.manifest = a.cache.manifest \union {ref}
  BY <1>2 DEF Remember, Caches
<1>4. k \in SUBSET Refs /\ q \in SUBSET Refs
  BY <1>2
<1> HIDE DEF c
<1>5. cc \in Caches /\ cc.refs \subseteq a.cache.refs \union {ref}
      /\ cc.manifest \subseteq a.cache.manifest \union {ref}
  BY <1>2, <1>3
<1> HIDE DEF k, q, cc
<1>6. /\ u \in Loops(H) /\ u.known = k /\ u.rows = q /\ u.cache = cc
      /\ u.outputs = a.outputs /\ u.stubs = a.stubs /\ u.deep = a.deep
  BY <1>2, <1>4, <1>5 DEF Loops
<1> HIDE DEF u
<1>7. /\ rows \subseteq a.rows /\ outputs \subseteq a.outputs /\ a.known \subseteq a.rows
      /\ a.cache.refs \subseteq a.rows /\ a.cache.manifest \subseteq a.rows
      /\ \A x \in DOMAIN a.stubs : a.stubs[x] \in a.rows
      /\ \A d \in a.deep : d.ref \in a.rows
      /\ \A r \in a.rows : WholeChain(r.first)
  BY DEF Backed
<1>8. /\ rows \subseteq q /\ k \subseteq q /\ cc.refs \subseteq q /\ cc.manifest \subseteq q
      /\ (\A x \in DOMAIN a.stubs : a.stubs[x] \in q) /\ (\A d \in a.deep : d.ref \in q)
      /\ \A r \in q : WholeChain(r.first)
  BY <1>5, <1>7 DEF k, q
<1>9. u \in Backed(H)
  BY <1>6, <1>7, <1>8 DEF Backed
<1> QED  BY <1>1, <1>6, <1>9 DEF q

LEMMA WithOutputsBacked ==
  ASSUME NEW H, NEW a \in Backed(H), NEW b \in Seq(Messages), NEW lostOutputs,
         NEW s \in 1..Len(b)
  PROVE  WithOutputs(b, lostOutputs, a, s) \in Backed(H)
<1> DEFINE calls == IF s \in lostOutputs THEN {}
                    ELSE UNION {b[i].results : i \in Group(b, s)}
           o == a.outputs \union calls
           u == [a EXCEPT !.outputs = o]
<1>1. WithOutputs(b, lostOutputs, a, s) = u
  BY Zenon DEF WithOutputs
<1>2. calls \in SUBSET (1..MaxTurns)
  <2>1. \A i \in Group(b, s) : b[i] \in Messages
    BY GroupIn
  <2>2. \A i \in Group(b, s) : b[i].results \in SUBSET (1..MaxTurns)
    BY <2>1, MessageFields
  <2> QED  BY <2>2
<1> HIDE DEF calls
<1>3. a \in Loops(H) /\ o \in SUBSET (1..MaxTurns)
  <2>1. a \in Loops(H)
    BY DEF Backed
  <2> QED  BY <1>2, <2>1, LoopFields
<1>4. outputs \subseteq o
  BY DEF Backed
<1> HIDE DEF o
<1>5. /\ u \in Loops(H) /\ u.known = a.known /\ u.rows = a.rows /\ u.cache = a.cache
      /\ u.outputs = o /\ u.stubs = a.stubs /\ u.deep = a.deep
  BY <1>3 DEF Loops
<1> HIDE DEF u
<1>6. u \in Backed(H)
  BY <1>4, <1>5 DEF Backed
<1> QED  BY <1>1, <1>6

\* What is stored has been sent.
Kept == /\ rows \in SUBSET Refs /\ outputs \in SUBSET (1..MaxTurns) /\ cache \in Caches
        /\ cache.refs \subseteq rows /\ cache.manifest \subseteq rows
        /\ \A r \in rows : WholeChain(r.first)

LEMMA StartBacked ==
  ASSUME Kept, NEW b, NEW cached \in BOOLEAN
  PROVE  CollapseStart(b, cached) \in Backed(Collapsible(b))
<1> DEFINE H == Collapsible(b)
           known == IF cached /\ cache.loaded THEN cache.refs ELSE {r \in rows : r.canon >= 0}
           c == [cache EXCEPT !.loaded = TRUE, !.refs = known]
           cc == IF cached THEN c ELSE cache
           f == [s \in {} |-> Ref(-1, <<0, 0>>)]
           u == [known |-> known, rows |-> rows, outputs |-> outputs,
                 cache |-> cc, stubs |-> f, deep |-> {}]
<1>1. CollapseStart(b, cached) = u
  BY Zenon DEF CollapseStart
<1>2. known \in SUBSET Refs /\ known \subseteq rows
  BY DEF Kept
<1> HIDE DEF known, H
<1>3. c \in Caches /\ c.refs = known /\ c.manifest = cache.manifest
  BY <1>2 DEF Kept, Caches
<1> HIDE DEF c
<1>4. cc \in Caches /\ cc.refs \subseteq rows /\ cc.manifest \subseteq rows
  BY <1>2, <1>3 DEF Kept
<1>5. f \in StubFunctions(H) /\ DOMAIN f = {}
  <2>1. DOMAIN f = {} /\ f \in [{} -> Refs] /\ {} \in SUBSET H
    OBVIOUS
  <2> HIDE DEF f
  <2> QED  BY <2>1 DEF StubFunctions
<1> HIDE DEF cc, f
<1>6. {} \in SUBSET [start : H, ref : Refs]
  OBVIOUS
<1>7. u \in Loops(H) /\ u.known = known /\ u.rows = rows /\ u.outputs = outputs
      /\ u.cache = cc /\ u.stubs = f /\ u.deep = {}
  BY <1>2, <1>4, <1>5, <1>6 DEF Loops, Kept
<1> HIDE DEF u
<1>8. u \in Backed(H)
  <2>1. \A r \in rows : WholeChain(r.first)
    BY DEF Kept
  <2> QED  BY <1>2, <1>4, <1>5, <1>7, <2>1 DEF Backed
<1> QED  BY <1>1, <1>8 DEF H

LEMMA StepBacked ==
  ASSUME History, base \in Nat, NEW b \in Seq(Raw(base)), NEW cached, NEW lostRows,
         NEW lostOutputs, NEW a \in Backed(Collapsible(b)), NEW s \in Collapsible(b)
  PROVE  CollapseStep(b, cached, lostRows, lostOutputs, a, s) \in Backed(Collapsible(b))
<1> DEFINE H == Collapsible(b)
           id == Needle(b, s)
           canon == Resolve(id)
           same == {r \in a.known : r.canon = canon}
           chain == Chain(PreFilter, PositionIn(PreFilter, id))
           tried == WithOutputs(b, lostOutputs, a, s)
           ref == Ref(canon, id)
           old == CHOOSE r \in same : TRUE
           more == WithRow(cached, tried, s, canon, ref)
<1>1. CollapseStep(b, cached, lostRows, lostOutputs, a, s) =
        CASE id = <<>> -> a
          [] id # <<>> /\ same # {} -> WithStub(a, s, canon, old)
          [] id # <<>> /\ same = {} /\ chain = {} -> a
          [] id # <<>> /\ same = {} /\ chain # {} /\ s \in lostRows -> tried
          [] OTHER -> WithStub(more, s, canon, ref)
  BY Zenon DEF CollapseStep
<1>2. s \in 1..Len(b)
  BY CollapsibleIn
<1>3. id # <<>> => id \in OwnIds(base) /\ Says(id)
  BY <1>2, NeedleTyped
<1>4. same # {} => WithStub(a, s, canon, old) \in Backed(H)
  <2> SUFFICES ASSUME same # {} PROVE WithStub(a, s, canon, old) \in Backed(H)
    OBVIOUS
  <2>1. old \in same
    OBVIOUS
  <2>2. old \in a.rows
    BY <2>1 DEF Backed
  <2> HIDE DEF old, same, canon
  <2> QED  BY <2>2, WithStubBacked
<1>5. tried \in Backed(H)
  <2>1. b \in Seq(Messages)
    <3>1. Raw(base) \subseteq Messages
      BY DEF Raw
    <3>2. \A i \in 1..Len(b) : b[i] \in Messages
      BY <3>1
    <3> QED  BY <3>2
  <2> QED  BY <1>2, <2>1, WithOutputsBacked
<1>6. id # <<>> /\ chain # {} => WithStub(more, s, canon, ref) \in Backed(H)
  <2> SUFFICES ASSUME id # <<>>, chain # {} PROVE WithStub(more, s, canon, ref) \in Backed(H)
    OBVIOUS
  <2>1. id \in OwnIds(base) /\ Says(id)
    BY <1>3
  <2>2. WholeChain(id)
    <3> HIDE DEF id
    <3> QED  BY <2>1, ChainWhole DEF PreFilter
  <2>3. ref \in Refs /\ ref.first = id
    BY <2>1, RefTyped
  <2> HIDE DEF ref, tried, id, canon, H
  <2>4. more \in Backed(H) /\ ref \in more.rows
    BY <1>5, <2>2, <2>3, WithRowBacked
  <2> HIDE DEF more
  <2> QED  BY <2>4, WithStubBacked DEF H
<1> HIDE DEF id, canon, same, chain, tried, ref, old, more, H
<1>7. a \in Backed(H)
  BY DEF H
<1>8. CollapseStep(b, cached, lostRows, lostOutputs, a, s) \in Backed(H)
  BY <1>1, <1>4, <1>5, <1>6, <1>7
<1> QED  BY <1>8 DEF H

LEMMA CollapsingBacked ==
  ASSUME History, Kept, base \in Nat, NEW b \in Seq(Raw(base)), NEW cached \in BOOLEAN,
         NEW lostRows, NEW lostOutputs
  PROVE  Collapsing(b, cached, lostRows, lostOutputs) \in Backed(Collapsible(b))
<1> DEFINE A == Backed(Collapsible(b))
<1>1. CollapseStart(b, cached) \in A
  BY StartBacked
<1>2. \A a \in A : \A s \in Collapsible(b) :
         CollapseStep(b, cached, lostRows, lostOutputs, a, s) \in A
  BY StepBacked
<1> HIDE DEF A
<1>3. Collapsing(b, cached, lostRows, lostOutputs) \in A
  BY <1>1, <1>2, CollapsingKeeps
<1> QED  BY <1>3 DEF A

\* The stub pairs that are put before the body.
RecoveredBack(result, cached) ==
  {r \in (IF cached /\ cache.recovery THEN result.cache.manifest
          ELSE {r \in result.rows : r.canon >= 0}) :
     /\ r.canon >= Deep
     /\ r.canon < Newest - Protected + 1
     /\ r \notin Offers(result)}
RecoveredPart(result, cached, t) ==
  LET R == {r \in RecoveredBack(result, cached) : r.canon = t - 1}
  IN  IF R = {} THEN <<>> ELSE StubPair(CHOOSE r \in R : TRUE)

LEMMA RecoveredTyped ==
  ASSUME History, NEW H, NEW result \in Backed(H), NEW cached, NEW O
  PROVE  /\ \A t \in 1..Len(turns) : RecoveredPart(result, cached, t) \in Seq(Good(result.rows, O))
         /\ Recovered(result, cached) = FlattenSeq([t \in 1..Len(turns) |-> RecoveredPart(result, cached, t)])
         /\ [t \in 1..Len(turns) |-> RecoveredPart(result, cached, t)]
              \in Seq(Seq(Good(result.rows, O)))
         /\ Recovered(result, cached) \in Seq(Good(result.rows, O))
<1> DEFINE U == Seq(Good(result.rows, O))
           f == [t \in 1..Len(turns) |-> RecoveredPart(result, cached, t)]
           back == RecoveredBack(result, cached)
<1>1. Len(turns) \in Nat /\ DOMAIN turns = 1..Len(turns)
  BY DEF History
<1>2. Recovered(result, cached) = FlattenSeq([t \in DOMAIN turns |-> RecoveredPart(result, cached, t)])
  BY Zenon DEF Recovered, RecoveredPart, RecoveredBack
<1>3. back \subseteq result.rows /\ result.rows \in SUBSET Refs
  <2>1. result \in Loops(H) /\ result.cache.manifest \subseteq result.rows
    BY DEF Backed
  <2>2. result.rows \in SUBSET Refs
    BY <2>1, LoopFields
  <2> QED  BY <2>1, <2>2 DEF RecoveredBack
<1>4. ASSUME NEW t \in 1..Len(turns) PROVE RecoveredPart(result, cached, t) \in U
  <2> DEFINE R == {r \in back : r.canon = t - 1}
             x == CHOOSE r \in R : TRUE
  <2>1. RecoveredPart(result, cached, t) = IF R = {} THEN <<>> ELSE StubPair(x)
    BY Zenon DEF RecoveredPart
  <2>2. R # {} => x \in R
    OBVIOUS
  <2>3. R # {} => x \in result.rows /\ x \in Refs
    <3> HIDE DEF back, x
    <3> QED  BY <1>3, <2>2
  <2> HIDE DEF R, x
  <2>4. R # {} => StubPair(x) \in U
    BY <2>3, StubPairTyped
  <2>5. <<>> \in U
    BY EmptySeq
  <2> HIDE DEF U
  <2> QED  BY <2>1, <2>4, <2>5
<1>5. f = [t \in 1..Len(turns) |-> f[t]] /\ \A t \in 1..Len(turns) : f[t] = RecoveredPart(result, cached, t)
  OBVIOUS
<1>6. Recovered(result, cached) = FlattenSeq(f)
  BY <1>1, <1>2
<1> HIDE DEF f, U
<1>7. f \in Seq(U)
  BY <1>1, <1>4, <1>5, SequenceBuilt
<1>8. FlattenSeq(f) \in U
  BY <1>7, FlattenTyped DEF U
<1> QED  BY <1>4, <1>6, <1>7, <1>8 DEF U, f

-----------------------------------------------------------------------------
(* The invariant.                                                            *)

Early == stage \in {"drop", "filter", "collapse"} \/ (warm /\ stage \in {"stub", "merge"})

\* The bounds of what advances.
Counts ==
  /\ base \in 0..MaxTurns /\ indexed \in 0..Cardinality(Answered)
  /\ compacted \in 0..MaxTurns /\ (compacted > 0 => compacted <= indexed - Protected)
  /\ flushed \in 0..compacted /\ defer \in BOOLEAN /\ troubles \in 0..MaxTroubles

Control ==
  /\ stage \in {"idle", "drop", "filter", "collapse", "stub", "merge", "trim", "sent"}
  /\ pass \in 1..2 /\ warm \in BOOLEAN /\ truncated \in BOOLEAN /\ unseen \in BOOLEAN

\* A request is about an open question; until chains are collapsed its messages
\* are the client's, and all that was replaced is stored.
Sending ==
  /\ stage # "idle" => turns # <<>> /\ ~ turns[Len(turns)].answered
  /\ Early => body \in Seq(Raw(base))
  /\ body \in Seq(Good(rows, outputs))

Inv == History /\ Counts /\ Control /\ Kept /\ Sending

\* What does not depend on a step that leaves the history alone.
LEMMA Steady ==
  ASSUME turns' = turns
  PROVE  /\ History' = History /\ Answered' = Answered /\ Pending' = Pending
         /\ \A n : OwnIds(n)' = OwnIds(n) /\ Raw(n)' = Raw(n)
         /\ \A id : WholeChain(id)' = WholeChain(id)
         /\ \A t : TurnMessages(t)' = TurnMessages(t)
         /\ \A id : Says(id)' = Says(id)
<1>1. \A t : TurnMessages(t)' = TurnMessages(t)
  BY Zenon DEF TurnMessages
<1>2. \A n : OwnIds(n)' = OwnIds(n)
  BY <1>1, Zenon DEF OwnIds
<1>6. \A id : Says(id)' = Says(id)
  BY <1>1, Zenon DEF Says
<1>3. \A n : Raw(n)' = Raw(n)
  BY <1>2, <1>6, Zenon DEF Raw
<1>4. \A id : WholeChain(id)' = WholeChain(id)
  BY <1>1, <1>2, <1>6, Zenon DEF WholeChain
<1>5. History' = History /\ Answered' = Answered /\ Pending' = Pending
  BY Zenon DEF History, Answered, Pending
<1> QED  BY <1>1, <1>2, <1>3, <1>4, <1>5, <1>6

AnsweredIn(ts) == {t \in DOMAIN ts : ts[t].answered}

LEMMA AnsweredCounted ==
  ASSUME NEW ts \in Seq(Turns)
  PROVE  /\ IsFiniteSet(AnsweredIn(ts)) /\ Cardinality(AnsweredIn(ts)) \in Nat
         /\ Cardinality(AnsweredIn(ts)) <= Len(ts) /\ Len(ts) \in Nat
         /\ AnsweredIn(ts) \subseteq 1..Len(ts)
<1> DEFINE S == AnsweredIn(ts)
<1>1. Len(ts) \in Nat /\ DOMAIN ts = 1..Len(ts)
  OBVIOUS
<1>2. IsFiniteSet(1..Len(ts)) /\ Cardinality(1..Len(ts)) = Len(ts)
  <2>1. /\ IsFiniteSet(1..Len(ts))
        /\ Cardinality(1..Len(ts)) = IF 1 > Len(ts) THEN 0 ELSE Len(ts) - 1 + 1
    BY <1>1, FS_Interval
  <2> QED  BY <1>1, <2>1
<1>3. S \subseteq 1..Len(ts)
  BY <1>1 DEF AnsweredIn
<1> HIDE DEF S
<1>4. IsFiniteSet(S) /\ Cardinality(S) <= Cardinality(1..Len(ts))
  BY <1>2, <1>3, FS_Subset
<1>5. IsFiniteSet(S) /\ Cardinality(S) \in Nat /\ Cardinality(S) <= Len(ts)
  BY <1>2, <1>4, FS_CardinalityType
<1> QED  BY <1>1, <1>3, <1>5 DEF S

LEMMA AnsweredFinite ==
  ASSUME History
  PROVE  /\ IsFiniteSet(Answered) /\ Cardinality(Answered) \in Nat
         /\ Cardinality(Answered) <= Len(turns) /\ Len(turns) \in Nat
         /\ Answered \subseteq 1..Len(turns)
<1>1. Answered = AnsweredIn(turns)
  BY Zenon DEF Answered, AnsweredIn
<1>2. turns \in Seq(Turns)
  BY DEF History
<1> QED  BY <1>1, <1>2, AnsweredCounted

\* More turns may be answered.
LEMMA AnsweredGrow ==
  ASSUME History, History', Answered \subseteq Answered'
  PROVE  /\ Cardinality(Answered) \in Nat /\ Cardinality(Answered)' \in Nat
         /\ Cardinality(Answered) <= Cardinality(Answered)'
<1> DEFINE S == AnsweredIn(turns)
           R == AnsweredIn(turns')
<1>1. Answered = S /\ Answered' = R
  BY Zenon DEF Answered, AnsweredIn
<1>2. turns \in Seq(Turns) /\ turns' \in Seq(Turns)
  BY DEF History
<1>3. IsFiniteSet(R) /\ Cardinality(R) \in Nat /\ Cardinality(S) \in Nat
  BY <1>2, AnsweredCounted
<1> HIDE DEF S, R
<1>4. S \subseteq R
  BY <1>1
<1>5. Cardinality(S) <= Cardinality(R)
  BY <1>3, <1>4, FS_Subset
<1>6. Cardinality(Answered) = Cardinality(S) /\ Cardinality(Answered)' = Cardinality(R)
  BY <1>1, Zenon
<1> QED  BY <1>3, <1>5, <1>6

\* A chain the client has sent is not taken back.
LEMMA WholeKept ==
  ASSUME History, History', Len(turns) <= Len(turns'),
         \A t \in 1..Len(turns) :
           \/ turns'[t].form = turns[t].form /\ (turns[t].answered => turns'[t].answered)
           \/ turns[t].form = "ask" /\ ~ turns[t].answered,
         NEW id, WholeChain(id)
  PROVE  WholeChain(id)'
<1> DEFINE t == id[1]
           p == id[2]
           M == TurnMessages(t)
           N == TurnMessages(t)'
           F == turns[t].form
           A == turns[t].answered
           G == turns'[t].form
           B == turns'[t].answered
<1>1. id \in Id /\ t > 0 /\ t <= Len(turns) /\ p <= Len(M) /\ p + 1 <= Len(M)
      /\ IsUser(M[p]) /\ ~ IsUser(M[p + 1])
  BY DEF WholeChain, OwnIds
<1>2. t \in Nat /\ p \in 1..5 /\ Len(turns) \in Nat /\ Len(turns') \in Nat
  BY <1>1, BoundAssumption DEF Id, History
<1> HIDE DEF t, p
<1>3. t \in 1..Len(turns) /\ t \in 1..Len(turns') /\ t \in 1..MaxTurns
  BY <1>1, <1>2, BoundAssumption DEF History
<1>4. F \in Forms /\ A \in BOOLEAN /\ G \in Forms /\ B \in BOOLEAN
  <2>1. turns[t] \in Turns /\ turns'[t] \in Turns
    BY <1>3 DEF History
  <2> QED  BY <2>1 DEF Turns
<1>5. M = Said(t, F, A) /\ N = Said(t, G, B)
  BY Zenon DEF TurnMessages, Said
<1>6. (G = F /\ (A => B)) \/ (F = "ask" /\ ~ A)
  BY <1>3
<1> HIDE DEF M, N, F, A, G, B
<1>7. /\ Len(M) = (IF A THEN Opens(F) + 1 ELSE Opens(F))
      /\ (\A q \in 1..Len(M) : SaidMessage(M[q], t, F, A, q)) /\ Opens(F) \in 1..4
  BY <1>3, <1>4, <1>5, SaidIs
<1>8. /\ Len(N) = (IF B THEN Opens(G) + 1 ELSE Opens(G))
      /\ \A q \in 1..Len(N) : SaidMessage(N[q], t, G, B, q)
  BY <1>3, <1>4, <1>5, SaidIs
<1>9. G = F /\ (A => B)
  <2>1. ASSUME F = "ask", ~ A PROVE FALSE
    BY <1>1, <1>2, <1>7, <2>1 DEF Opens
  <2> QED  BY <1>6, <2>1
<1>10. Len(M) <= Len(N)
  BY <1>4, <1>7, <1>8, <1>9
<1>11. p \in 1..Len(M) /\ p + 1 \in 1..Len(M) /\ p \in 1..Len(N) /\ p + 1 \in 1..Len(N)
       /\ p <= Len(N) /\ p + 1 <= Len(N)
  BY <1>1, <1>2, <1>4, <1>7, <1>8, <1>9
<1>12. M[p].role = N[p].role /\ M[p + 1].role = N[p + 1].role
  <2>1. \A q \in 1..Len(M) : M[q].role = Role(F, A, q)
    BY <1>7 DEF SaidMessage
  <2>2. \A q \in 1..Len(N) : N[q].role = Role(G, B, q)
    BY <1>8 DEF SaidMessage
  <2>3. \A q : Role(F, A, q) = Role(G, B, q)
    BY <1>9, Zenon DEF Role
  <2> QED  BY <1>11, <2>1, <2>2, <2>3
<1>16. M[p].text
  BY DEF WholeChain, Says, M, t, p
<1>17. N[p].text
  <2>1. SaidMessage(M[p], t, F, A, p) /\ SaidMessage(N[p], t, G, B, p)
    BY <1>7, <1>8, <1>11
  <2>2. ~ (F # "ask" /\ p = CallAt(F)) /\ ~ (F \in {"loop", "split"} /\ p = CallAt(F) + 1)
    BY <1>16, <2>1 DEF SaidMessage
  <2> QED  BY <1>9, <2>1, <2>2 DEF SaidMessage
<1>13. IsUser(N[p]) /\ ~ IsUser(N[p + 1])
  BY <1>1, <1>12 DEF IsUser
<1>14. OwnIds(0)' = {i \in Id : /\ i[1] > 0 /\ i[1] <= Len(turns')
                                /\ i[2] <= Len(TurnMessages(i[1])')}
  BY Zenon DEF OwnIds
<1>15. id \in OwnIds(0)'
  BY <1>1, <1>3, <1>11, <1>14 DEF N, t, p
<1>18. Says(id)' = N[p].text
  BY Zenon DEF Says, N, t, p
<1> QED  BY <1>11, <1>13, <1>15, <1>17, <1>18 DEF WholeChain, N, t, p

\* A request that is over.
LEMMA RequestEnded ==
  ASSUME EndRequest
  PROVE  /\ Sending' /\ stage' = "idle" /\ pass' \in 1..2 /\ warm' \in BOOLEAN
         /\ truncated' \in BOOLEAN
<1>1. body' = <<>> /\ stage' = "idle" /\ pass' = 1 /\ warm' = FALSE /\ truncated' = FALSE
  BY DEF EndRequest
<1>2. body' \in Seq(Good(rows, outputs)') /\ body' \in Seq(Raw(base)')
  BY <1>1, EmptySeq
<1>3. Sending'
  <2> DEFINE X == Good(rows, outputs)'
             Y == Raw(base)'
  <2>1. body' \in Seq(X) /\ body' \in Seq(Y)
    BY <1>2
  <2> HIDE DEF X, Y
  <2>2. Early' => body' \in Seq(Y)
    BY <2>1
  <2>3. stage' # "idle" => FALSE
    BY <1>1
  <2> QED  BY <2>1, <2>2, <2>3 DEF Sending, X, Y
<1>4. pass' \in 1..2
  BY <1>1
<1>5. warm' \in BOOLEAN /\ truncated' \in BOOLEAN
  BY <1>1, Zenon
<1> QED  BY <1>1, <1>3, <1>4, <1>5, Zenon

\* A request that goes on.
LEMMA Continues ==
  ASSUME Inv, stage # "idle", turns' = turns, base' = base,
         body' \in Seq(Good(rows', outputs')), Early' => body' \in Seq(Raw(base))
  PROVE  Sending'
<1>1. turns # <<>> /\ ~ turns[Len(turns)].answered
  BY DEF Inv, Sending
<1>2. Raw(base)' = Raw(base)
  <2>1. \A t : TurnMessages(t)' = TurnMessages(t)
    BY Steady
  <2>2. OwnIds(base)' = OwnIds(base')
    BY <2>1, Zenon DEF OwnIds
  <2>3. Raw(base)' = Raw(base')
    BY <2>1, <2>2, Zenon DEF Raw, Says
  <2> QED  BY <2>3
<1>3. Good(rows, outputs)' = Good(rows', outputs')
  BY Zenon DEF Good
<1> QED  BY <1>1, <1>2, <1>3, Zenon DEF Sending

\* A step that leaves the history and the store alone.
LEMMA StillKept ==
  ASSUME Kept, UNCHANGED <<turns, store, cache>>
  PROVE  Kept'
<1>1. rows' = rows /\ outputs' = outputs /\ cache' = cache /\ turns' = turns
  BY DEF store
<1>2. \A id : WholeChain(id)' = WholeChain(id)
  BY <1>1, Steady
<1>3. \A r \in rows : WholeChain(r.first)'
  BY <1>2 DEF Kept
<1> QED  BY <1>1, <1>3, Zenon DEF Kept

\* The same when the history grows.
LEMMA GrownKept ==
  ASSUME Kept, History, History', UNCHANGED <<store, cache>>, Len(turns) <= Len(turns'),
         \A t \in 1..Len(turns) :
           \/ turns'[t].form = turns[t].form /\ (turns[t].answered => turns'[t].answered)
           \/ turns[t].form = "ask" /\ ~ turns[t].answered
  PROVE  Kept'
<1>1. rows' = rows /\ outputs' = outputs /\ cache' = cache
  BY DEF store
<1>2. \A r \in rows : WholeChain(r.first)'
  <2> TAKE r \in rows
  <2>1. WholeChain(r.first)
    BY DEF Kept
  <2> DEFINE id == r.first
  <2> HIDE DEF id
  <2>2. WholeChain(id)'
    BY <2>1, WholeKept DEF id
  <2> QED  BY <2>2 DEF id
<1> QED  BY <1>1, <1>2, Zenon DEF Kept

LEMMA InitInv == Init => Inv
<1> SUFFICES ASSUME Init PROVE Inv
  OBVIOUS
<1>1. History
  <2>1. turns = <<>> /\ Len(<<>>) = 0
    BY DEF Init
  <2>2. turns \in Seq(Turns)
    BY <2>1, EmptySeq
  <2> QED  BY <2>1, <2>2, BoundAssumption DEF History
<1>2. Counts
  <2>1. Cardinality(Answered) \in Nat
    BY <1>1, AnsweredFinite
  <2> QED  BY <2>1, BoundAssumption DEF Init, Counts
<1>3. Control
  <2>1. pass \in 1..2 /\ stage = "idle"
    BY DEF Init
  <2>2. warm \in BOOLEAN /\ truncated \in BOOLEAN /\ unseen \in BOOLEAN
    BY Zenon DEF Init
  <2> QED  BY <2>1, <2>2 DEF Control
<1>4. Kept
  BY DEF Init, Kept, Caches, Unloaded
<1>5. Sending
  <2>1. body = <<>> /\ stage = "idle"
    BY DEF Init
  <2> DEFINE X == Good(rows, outputs)
             Y == Raw(base)
  <2>2. body \in Seq(X) /\ body \in Seq(Y)
    BY <2>1, EmptySeq
  <2> HIDE DEF X, Y
  <2> QED  BY <2>1, <2>2 DEF Sending, X, Y
<1> QED  BY <1>1, <1>2, <1>3, <1>4, <1>5 DEF Inv

LEMMA StutterInv == Inv /\ UNCHANGED vars => Inv'
<1> SUFFICES ASSUME Inv, UNCHANGED vars PROVE Inv'
  OBVIOUS
<1> USE DEF vars, marks, store, work, bounds
<1>1. turns' = turns /\ History' /\ Answered' = Answered
  BY Steady DEF Inv
<1>2. Counts' /\ Control'
  BY <1>1 DEF Inv, Counts, Control
<1>3. Kept'
  BY StillKept DEF Inv
<1>4. Sending'
  <2>1. Raw(base)' = Raw(base)
    BY Zenon DEF Raw, OwnIds, TurnMessages, Says
  <2>2. Good(rows, outputs)' = Good(rows, outputs)
    BY Zenon DEF Good
  <2>3. Early' = Early
    BY Zenon DEF Early
  <2>4. Sending
    BY DEF Inv
  <2> QED  BY <2>1, <2>2, <2>3, <2>4, Zenon DEF Sending
<1> QED  BY <1>1, <1>2, <1>3, <1>4 DEF Inv

-----------------------------------------------------------------------------
(* The client's and the background's steps keep it.                          *)

LEMMA AskInv == Inv /\ Ask => Inv'
<1> SUFFICES ASSUME Inv, Ask PROVE Inv'
  OBVIOUS
<1> DEFINE turn == [form |-> "ask", answered |-> FALSE, hashed |-> FALSE]
           n == Len(turns)
<1>1. /\ stage = "idle" /\ n < MaxTurns /\ turns' = Append(turns, turn)
      /\ UNCHANGED <<base, marks, store, cache, work, unseen>>
      /\ Trouble(IF Pending THEN 1 ELSE 0)
  BY DEF Ask
<1>2. turn \in Turns
  BY DEF Turns, Forms
<1>3. History
  BY DEF Inv
<1> HIDE DEF turn, n
<1>4. turns' \in Seq(Turns) /\ Len(turns') = n + 1 /\ n \in Nat
      /\ \A t \in 1..n : turns'[t] = turns[t]
  BY <1>1, <1>2, <1>3 DEF History, n
<1>5. History'
  BY <1>1, <1>4, BoundAssumption DEF History
<1>6. Answered \subseteq Answered'
  <2>1. DOMAIN turns = 1..n /\ DOMAIN turns' = 1..(n + 1)
    BY <1>3, <1>4 DEF History, n
  <2> QED  BY <1>4, <2>1 DEF Answered
<1>7. /\ Cardinality(Answered) \in Nat /\ Cardinality(Answered)' \in Nat
      /\ Cardinality(Answered) <= Cardinality(Answered)'
  BY <1>3, <1>5, <1>6, AnsweredGrow
<1>8. Counts'
  <2>1. base' = base /\ indexed' = indexed /\ compacted' = compacted /\ flushed' = flushed /\ defer' = defer
    BY <1>1 DEF marks
  <2>2. troubles' \in 0..MaxTroubles
    <3>1. troubles \in 0..MaxTroubles
      BY DEF Inv, Counts
    <3> QED  BY <1>1, <3>1, BoundAssumption DEF Trouble
  <2> QED  BY <1>7, <2>1, <2>2 DEF Inv, Counts
<1>9. Control'
  BY <1>1 DEF Inv, Control, work
<1>10. Kept'
  <2>1. n <= Len(turns') /\ \A t \in 1..n : turns'[t] = turns[t]
    BY <1>4
  <2> QED  BY <1>1, <1>3, <1>5, <2>1, GrownKept DEF Inv, n
<1>11. Sending'
  <2>1. stage' = "idle" /\ body' = body /\ rows' = rows /\ outputs' = outputs /\ warm' = warm
    BY <1>1 DEF work, store
  <2>2. ~ Early'
    BY <2>1, <1>1 DEF Early
  <2>3. Good(rows, outputs)' = Good(rows, outputs)
    BY <2>1, Zenon DEF Good
  <2>4. body \in Seq(Good(rows, outputs))
    BY DEF Inv, Sending
  <2> QED  BY <2>1, <2>2, <2>3, <2>4, Zenon DEF Sending
<1> QED  BY <1>5, <1>8, <1>9, <1>10, <1>11 DEF Inv

LEMMA CallToolInv == Inv /\ (\E form \in Form : CallTool(form)) => Inv'
<1> SUFFICES ASSUME Inv, NEW form \in Form, CallTool(form) PROVE Inv'
  OBVIOUS
<1> DEFINE n == Len(turns)
           turn == [turns[n] EXCEPT !.form = form]
<1>1. /\ stage = "sent" /\ turns[n].form = "ask" /\ EndRequest
      /\ UNCHANGED <<base, marks, store, cache, bounds>>
  BY DEF CallTool
<1>2. turns' = [turns EXCEPT ![n] = turn]
  BY Zenon DEF CallTool
<1>3. History /\ turns # <<>> /\ ~ turns[n].answered
  BY <1>1 DEF Inv, Sending
<1>4. n \in 1..n /\ turns[n] \in Turns
  BY <1>3 DEF History
<1>5. turn \in Turns /\ turn.answered = turns[n].answered
  BY <1>4 DEF Turns, Forms
<1> HIDE DEF turn, n
<1>6. turns' \in Seq(Turns) /\ Len(turns') = n /\ turns'[n] = turn
      /\ (\A t \in 1..n : t # n => turns'[t] = turns[t]) /\ n \in Nat
      /\ DOMAIN turns' = 1..n /\ DOMAIN turns = 1..n
  BY <1>2, <1>3, <1>4, <1>5 DEF History, n
<1>7. History'
  BY <1>3, <1>6 DEF History, n
<1>8. Answered' = Answered
  BY <1>5, <1>6 DEF Answered
<1>9. Counts'
  <2>1. Counts
    BY DEF Inv
  <2> QED  BY <1>1, <1>8, <2>1 DEF Counts, marks, bounds
<1>10. Control' /\ Sending'
  <2>1. unseen' = unseen /\ unseen \in BOOLEAN
    BY <1>1 DEF bounds, Inv, Control
  <2> QED  BY <1>1, <2>1, RequestEnded DEF Control
<1>11. Kept'
  <2>1. n <= Len(turns')
    BY <1>6
  <2>2. ASSUME NEW t \in 1..n
        PROVE  \/ turns'[t].form = turns[t].form /\ (turns[t].answered => turns'[t].answered)
               \/ turns[t].form = "ask" /\ ~ turns[t].answered
    <3>1. CASE t = n
      BY <1>1, <1>3, <3>1
    <3>2. CASE t # n
      BY <1>6, <3>2
    <3> QED  BY <3>1, <3>2
  <2> QED  BY <1>1, <1>3, <1>7, <2>1, <2>2, GrownKept DEF Inv, n
<1> QED  BY <1>7, <1>9, <1>10, <1>11 DEF Inv

LEMMA AnswerInv == Inv /\ (\E hashed \in BOOLEAN : Answer(hashed)) => Inv'
<1> SUFFICES ASSUME Inv, NEW hashed \in BOOLEAN, Answer(hashed) PROVE Inv'
  OBVIOUS
<1> DEFINE n == Len(turns)
           turn == [turns[n] EXCEPT !.answered = TRUE, !.hashed = hashed]
<1>1. /\ stage = "sent" /\ EndRequest
      /\ UNCHANGED <<base, marks, store, cache, bounds>>
  BY DEF Answer
<1>3. History /\ turns # <<>> /\ ~ turns[n].answered
  BY <1>1 DEF Inv, Sending
<1>4. n \in 1..n /\ turns[n] \in Turns
  BY <1>3 DEF History
<1>2. turns' = [turns EXCEPT ![n] = turn]
  <2>1. turns' = [turns EXCEPT ![n].answered = TRUE, ![n].hashed = hashed]
    BY Zenon DEF Answer
  <2> DEFINE a == [turns[n] EXCEPT !.answered = TRUE]
             u == [turns EXCEPT ![n] = a]
             z == [a EXCEPT !.hashed = hashed]
  <2>2. turns' = [u EXCEPT ![n] = [u[n] EXCEPT !.hashed = hashed]]
    BY <2>1, Zenon
  <2>3. u[n] = a
    <3>1. n \in DOMAIN turns
      BY <1>3, <1>4 DEF History
    <3> HIDE DEF a, n
    <3> QED  BY <3>1
  <2>4. turns' = [u EXCEPT ![n] = z]
    BY <2>2, <2>3, Zenon
  <2>5. [u EXCEPT ![n] = z] = [turns EXCEPT ![n] = z]
    <3> HIDE DEF a, z, n
    <3> QED  BY <1>3 DEF History
  <2>6. z = turn
    BY <1>4 DEF Turns
  <2> HIDE DEF z, turn, u
  <2> QED  BY <2>4, <2>5, <2>6
<1>5. turn \in Turns /\ turn.form = turns[n].form /\ turn.answered
  BY <1>4 DEF Turns, Forms
<1> HIDE DEF turn, n
<1>6. turns' \in Seq(Turns) /\ Len(turns') = n /\ turns'[n] = turn
      /\ (\A t \in 1..n : t # n => turns'[t] = turns[t]) /\ n \in Nat
      /\ DOMAIN turns' = 1..n /\ DOMAIN turns = 1..n
  BY <1>2, <1>3, <1>4, <1>5 DEF History, n
<1>7. History'
  BY <1>3, <1>6 DEF History, n
<1>8. Answered \subseteq Answered'
  BY <1>5, <1>6 DEF Answered
<1>9. Counts'
  <2>1. Counts
    BY DEF Inv
  <2>2. /\ Cardinality(Answered) \in Nat /\ Cardinality(Answered)' \in Nat
        /\ Cardinality(Answered) <= Cardinality(Answered)'
    BY <1>3, <1>7, <1>8, AnsweredGrow
  <2> QED  BY <1>1, <2>1, <2>2 DEF Counts, marks, bounds
<1>10. Control' /\ Sending'
  <2>1. unseen' = unseen /\ unseen \in BOOLEAN
    BY <1>1 DEF bounds, Inv, Control
  <2> QED  BY <1>1, <2>1, RequestEnded DEF Control
<1>11. Kept'
  <2>1. n <= Len(turns')
    BY <1>6
  <2>2. ASSUME NEW t \in 1..n
        PROVE  turns'[t].form = turns[t].form /\ (turns[t].answered => turns'[t].answered)
    <3>1. CASE t = n
      BY <1>5, <1>6, <3>1
    <3>2. CASE t # n
      BY <1>6, <3>2
    <3> QED  BY <3>1, <3>2
  <2> QED  BY <1>1, <1>3, <1>7, <2>1, <2>2, GrownKept DEF Inv, n
<1> QED  BY <1>7, <1>9, <1>10, <1>11 DEF Inv

LEMMA InterruptInv == Inv /\ Interrupt => Inv'
<1> SUFFICES ASSUME Inv, Interrupt PROVE Inv'
  OBVIOUS
<1>1. EndRequest /\ UNCHANGED <<turns, base, marks, store, cache, bounds>>
  BY DEF Interrupt
<1>2. History' /\ Answered' = Answered /\ turns' = turns
  BY <1>1, Steady DEF Inv
<1>3. Counts'
  BY <1>1, <1>2 DEF Inv, Counts, marks, bounds
<1>4. Control' /\ Sending'
  BY <1>1, RequestEnded DEF Inv, Control, bounds
<1>5. Kept'
  BY <1>1, StillKept DEF Inv
<1> QED  BY <1>2, <1>3, <1>4, <1>5 DEF Inv

LEMMA RestartInv == Inv /\ Restart => Inv'
<1> SUFFICES ASSUME Inv, Restart PROVE Inv'
  OBVIOUS
<1>1. EndRequest /\ UNCHANGED <<turns, base, marks, store>> /\ cache' = Unloaded
      /\ Trouble(1) /\ unseen' = (rows # {})
  BY DEF Restart
<1>2. History' /\ Answered' = Answered /\ turns' = turns
  BY <1>1, Steady DEF Inv
<1>3. Counts'
  <2>1. troubles' \in 0..MaxTroubles
    <3>1. troubles \in 0..MaxTroubles
      BY DEF Inv, Counts
    <3> QED  BY <1>1, <3>1, BoundAssumption DEF Trouble
  <2> QED  BY <1>1, <1>2, <2>1 DEF Inv, Counts, marks
<1>4. Control' /\ Sending'
  <2>1. unseen' \in BOOLEAN
    BY <1>1
  <2> QED  BY <1>1, <2>1, RequestEnded DEF Inv, Control
<1>5. Kept'
  <2>1. rows' = rows /\ outputs' = outputs
    BY <1>1 DEF store
  <2>2. \A id : WholeChain(id)' = WholeChain(id)
    BY <1>2, Steady
  <2>3. \A r \in rows : WholeChain(r.first)'
    BY <2>2 DEF Inv, Kept
  <2>4. Unloaded \in Caches /\ Unloaded.refs = {} /\ Unloaded.manifest = {}
    BY DEF Unloaded, Caches
  <2> QED  BY <1>1, <2>1, <2>3, <2>4 DEF Inv, Kept
<1> QED  BY <1>2, <1>3, <1>4, <1>5 DEF Inv

\* A step of the background, or the client's truncation, moves a mark.
LEMMA MarkInv ==
  ASSUME Inv, UNCHANGED <<turns, store, cache, work, unseen>>, Counts',
         base' = base \/ stage = "idle"
  PROVE  Inv'
<1>1. History' /\ turns' = turns
  BY Steady DEF Inv
<1>2. Control' /\ Kept'
  BY StillKept DEF Inv, Control, work
<1>3. stage' = stage /\ body' = body /\ warm' = warm /\ rows' = rows /\ outputs' = outputs
  BY DEF work, store
<1>4. body \in Seq(Good(rows, outputs)) /\ (Early => body \in Seq(Raw(base)))
  BY DEF Inv, Sending
<1>5. Good(rows, outputs)' = Good(rows, outputs)
  BY <1>3, Zenon DEF Good
<1>6. Sending'
  <2>1. CASE stage = "idle"
    <3>1. ~ Early'
      BY <1>3, <2>1 DEF Early
    <3> QED  BY <1>3, <1>4, <1>5, <2>1, <3>1, Zenon DEF Sending
  <2>2. CASE stage # "idle"
    <3>1. Early' = Early
      BY <1>3, Zenon DEF Early
    <3> QED  BY <1>1, <1>3, <1>4, <2>2, <3>1, Continues
  <2> QED  BY <2>1, <2>2
<1> QED  BY <1>1, <1>2, <1>6 DEF Inv

LEMMA TruncateInv == Inv /\ (\E n \in 1..MaxTurns : Truncate(n)) => Inv'
<1> SUFFICES ASSUME Inv, NEW n \in 1..MaxTurns, Truncate(n) PROVE Inv'
  OBVIOUS
<1>1. stage = "idle" /\ base' = n /\ UNCHANGED <<turns, marks, store, cache, work, unseen>>
      /\ Trouble(1)
  BY DEF Truncate
<1>2. Answered' = Answered
  BY <1>1, Steady
<1>3. troubles' \in 0..MaxTroubles
  <2>1. troubles \in 0..MaxTroubles
    BY DEF Inv, Counts
  <2> QED  BY <1>1, <2>1, BoundAssumption DEF Trouble
<1>4. Counts'
  <2>1. n \in 0..MaxTurns
    BY BoundAssumption
  <2> QED  BY <1>1, <1>2, <1>3, <2>1 DEF Inv, Counts, marks
<1> QED  BY <1>1, <1>4, MarkInv

LEMMA TagInv == Inv /\ Tag => Inv'
<1> SUFFICES ASSUME Inv, Tag PROVE Inv'
  OBVIOUS
<1>1. /\ indexed < Cardinality(Answered) /\ indexed' = indexed + 1
      /\ UNCHANGED <<turns, base, compacted, flushed, defer, store, cache, work, bounds>>
  BY DEF Tag
<1>2. Answered' = Answered
  BY <1>1, Steady
<1>3. Cardinality(Answered) \in Nat
  BY AnsweredFinite DEF Inv
<1>4. Counts'
  BY <1>1, <1>2, <1>3, WindowAssumption DEF Inv, Counts, bounds
<1> QED  BY <1>1, <1>4, MarkInv DEF bounds

LEMMA CompactInv == Inv /\ Compact => Inv'
<1> SUFFICES ASSUME Inv, Compact PROVE Inv'
  OBVIOUS
<1>1. /\ compacted < indexed - Protected /\ compacted' = indexed - Protected
      /\ UNCHANGED <<turns, base, indexed, flushed, defer, store, cache, work, bounds>>
  BY DEF Compact
<1>2. Answered' = Answered
  BY <1>1, Steady
<1>3. Cardinality(Answered) \in Nat /\ Cardinality(Answered) <= Len(turns) /\ Len(turns) <= MaxTurns
      /\ Len(turns) \in Nat
  BY AnsweredFinite DEF Inv, History
<1>4. compacted' \in 0..MaxTurns
  BY <1>1, <1>3, WindowAssumption, BoundAssumption DEF Inv, Counts
<1>5. Counts'
  BY <1>1, <1>2, <1>4 DEF Inv, Counts, bounds
<1> QED  BY <1>1, <1>5, MarkInv DEF bounds

-----------------------------------------------------------------------------
(* The steps of a request keep it.                                           *)

LEMMA RawGood ==
  ASSUME NEW n, NEW R, NEW O
  PROVE  Raw(n) \subseteq Good(R, O) /\ Seq(Raw(n)) \subseteq Seq(Good(R, O))
<1>1. Raw(n) \subseteq Good(R, O)
  BY DEF Raw, Good
<1>2. ASSUME NEW A, NEW B, A \subseteq B PROVE Seq(A) \subseteq Seq(B)
  BY <1>2
<1> QED  BY <1>1, <1>2

\* A stage of the request that stores nothing.
LEMMA StageInv ==
  ASSUME Inv, stage # "idle", UNCHANGED <<turns, base, store, cache, unseen>>,
         Counts', stage' \in {"idle", "drop", "filter", "collapse", "stub", "merge", "trim", "sent"},
         pass' \in 1..2, warm' \in BOOLEAN, truncated' \in BOOLEAN,
         body' \in Seq(Good(rows, outputs)), Early' => body' \in Seq(Raw(base))
  PROVE  Inv'
<1>1. History' /\ turns' = turns
  BY Steady DEF Inv
<1>2. Control'
  BY DEF Inv, Control
<1>3. Kept'
  BY StillKept DEF Inv
<1>4. rows' = rows /\ outputs' = outputs
  BY DEF store
<1>5. Sending'
  BY <1>4, Continues
<1> QED  BY <1>1, <1>2, <1>3, <1>5 DEF Inv

\* The counters are as they were.
LEMMA StillCounts ==
  ASSUME Inv, UNCHANGED <<turns, base, marks, troubles>>
  PROVE  Counts'
<1>1. Answered' = Answered
  BY Steady
<1> QED  BY <1>1 DEF Inv, Counts, marks

LEMMA ReceiveInv == Inv /\ (\E cold \in BOOLEAN : Receive(cold)) => Inv'
<1> SUFFICES ASSUME Inv, NEW cold \in BOOLEAN, Receive(cold) PROVE Inv'
  OBVIOUS
<1> DEFINE flush == ~defer \/ cold
<1>1. /\ stage = "idle" /\ Pending /\ body' = PreFilter /\ stage' = "drop" /\ pass' = 1
      /\ UNCHANGED <<turns, base, indexed, compacted, defer, store, cache, bounds>>
      /\ flushed' = IF flush THEN Max({flushed, compacted}) ELSE flushed
  BY DEF Receive
<1>2. warm' \in BOOLEAN /\ truncated' \in BOOLEAN
  <2>1. warm' = (~flush /\ compacted > flushed)
    BY Zenon DEF Receive
  <2>2. truncated' = (/\ indexed > MinStoreTurns
                      /\ 10 * Cardinality(GroupStarts(PreFilter)) < 7 * indexed)
    BY Zenon DEF Receive
  <2> QED  BY <2>1, <2>2
<1>3. History' /\ Answered' = Answered /\ turns' = turns
  BY <1>1, Steady DEF Inv
<1>4. flushed' \in 0..compacted
  <2> DEFINE S == {flushed, compacted}
  <2>1. compacted \in Nat /\ flushed \in 0..compacted
    BY BoundAssumption DEF Inv, Counts
  <2>2. S \in SUBSET (0..compacted) /\ S # {}
    BY <2>1
  <2> HIDE DEF S
  <2>3. Max(S) \in 0..compacted
    BY <2>1, <2>2, MaxGreatest
  <2> QED  BY <1>1, <2>1, <2>3 DEF S
<1>5. Counts'
  BY <1>1, <1>3, <1>4 DEF Inv, Counts, bounds
<1>6. Control'
  BY <1>1, <1>2 DEF Inv, Control, bounds
<1>7. Kept'
  BY <1>1, StillKept DEF Inv
<1>8. Sending'
  <2>1. PreFilter \in Seq(Raw(base))
    <3>1. base \in Nat
      BY BoundAssumption DEF Inv, Counts
    <3> QED  BY <3>1, ToldTyped DEF PreFilter, Inv
  <2>2. Raw(base)' = Raw(base)
    BY <1>1, Zenon DEF Raw, OwnIds, TurnMessages, Says
  <2>3. body' \in Seq(Good(rows, outputs)')
    BY <1>1, <2>1, RawGood
  <2>4. turns # <<>> /\ ~ turns[Len(turns)].answered
    BY <1>1 DEF Pending
  <2> QED  BY <1>1, <2>1, <2>2, <2>3, <2>4, Zenon DEF Sending
<1> QED  BY <1>3, <1>5, <1>6, <1>7, <1>8 DEF Inv

\* What the invariant says of a request.
LEMMA BodyTyped ==
  ASSUME Inv
  PROVE  /\ body \in Seq(Good(rows, outputs)) /\ (Early => body \in Seq(Raw(base)))
         /\ base \in Nat /\ pass \in 1..2 /\ warm \in BOOLEAN /\ truncated \in BOOLEAN
         /\ History /\ Kept
  BY BoundAssumption DEF Inv, Sending, Counts, Control

LEMMA DropInv == Inv /\ Drop => Inv'
<1> SUFFICES ASSUME Inv, Drop PROVE Inv'
  OBVIOUS
<1> DEFINE w == IF pass = 1 THEN Protected ELSE DefaultWindow
           l == IF defer \/ pass = 2 THEN 0..(flushed - 1) ELSE Nat
           d == DropTurns(body, w, l)
<1>1. /\ stage = "drop" /\ body' = (IF flushed > 0 /\ ~warm THEN d ELSE body)
      /\ stage' = (IF pass = 1 THEN "filter" ELSE "collapse")
      /\ UNCHANGED <<turns, base, marks, store, cache, pass, warm, truncated, bounds>>
  BY Zenon DEF Drop
<1>2. Early
  BY <1>1 DEF Early
<1>3. body \in Seq(Raw(base))
  BY <1>2, BodyTyped
<1>4. d \in Seq(Raw(base))
  BY <1>3, DropTyped
<1> HIDE DEF d
<1>5. body' \in Seq(Raw(base))
  BY <1>1, <1>3, <1>4
<1>6. body' \in Seq(Good(rows, outputs))
  BY <1>5, RawGood
<1>7. Counts'
  BY <1>1, StillCounts DEF bounds
<1>8. stage' \in {"filter", "collapse"}
  BY <1>1
<1> QED  BY <1>1, <1>5, <1>6, <1>7, <1>8, BodyTyped, StageInv DEF bounds

LEMMA FilterInv == Inv /\ (\E matched \in SUBSET Decided : FilterBody(matched)) => Inv'
<1> SUFFICES ASSUME Inv, NEW matched, FilterBody(matched) PROVE Inv'
  OBVIOUS
<1> DEFINE d == Filter(body, Protected, indexed, matched)
<1>1. /\ stage = "filter" /\ body' = d /\ stage' = "collapse"
      /\ UNCHANGED <<turns, base, marks, store, cache, pass, warm, truncated, bounds>>
  BY Zenon DEF FilterBody
<1>2. Early
  BY <1>1 DEF Early
<1>3. body \in Seq(Raw(base))
  BY <1>2, BodyTyped
<1>4. d \in Seq(Raw(base))
  BY <1>3, FilterTyped
<1> HIDE DEF d
<1>5. body' \in Seq(Raw(base))
  BY <1>1, <1>4
<1>6. body' \in Seq(Good(rows, outputs))
  BY <1>5, RawGood
<1>7. Counts'
  BY <1>1, StillCounts DEF bounds
<1> QED  BY <1>1, <1>5, <1>6, <1>7, BodyTyped, StageInv DEF bounds

LEMMA SkipInv == Inv /\ (SkipFilter \/ SkipCollapse) => Inv'
<1> SUFFICES ASSUME Inv, SkipFilter \/ SkipCollapse PROVE Inv'
  OBVIOUS
<1>1. /\ stage \in {"filter", "collapse"} /\ stage' \in {"collapse", "stub"} /\ body' = body
      /\ UNCHANGED <<turns, base, marks, store, cache, pass, warm, truncated, bounds>>
  BY DEF SkipFilter, SkipCollapse
<1>2. Early
  BY <1>1 DEF Early
<1>3. body' \in Seq(Raw(base)) /\ body' \in Seq(Good(rows, outputs))
  BY <1>1, <1>2, BodyTyped
<1>4. Counts'
  BY <1>1, StillCounts DEF bounds
<1> QED  BY <1>1, <1>3, <1>4, BodyTyped, StageInv DEF bounds

LEMMA RawJoined ==
  ASSUME NEW k \in Nat, NEW m \in Raw(k), NEW n \in Raw(k), Plain(m), Plain(n)
  PROVE  Joined(m, n) \in Raw(k)
<1> DEFINE j == Joined(m, n)
           o == m.of \o n.of
<1>1. m \in Messages /\ n \in Messages /\ m.of # <<>>
      /\ (\A i \in 1..Len(m.of) : m.of[i] \in OwnIds(k))
      /\ (\A i \in 1..Len(n.of) : n.of[i] \in OwnIds(k))
      /\ m.refs = {} /\ n.refs = {} /\ m.stubbed = {} /\ ~ m.mark /\ ~ n.mark
      /\ n.of # <<>> /\ Says(n.of[Len(n.of)])
  BY DEF Raw
<1>2. m.of \in Seq(Id) /\ n.of \in Seq(Id)
  BY <1>1, MessageFields
<1>3. /\ j \in Messages /\ j.of = o /\ j.stubbed = m.stubbed
      /\ j.mark = (m.mark \/ n.mark) /\ j.refs = m.refs \union n.refs
  BY <1>1, JoinedIs
<1>4. o # <<>> /\ \A i \in 1..Len(o) : o[i] \in OwnIds(k)
  <2> DEFINE a == m.of
             c == n.of
  <2>1. a \in Seq(OwnIds(k)) /\ c \in Seq(OwnIds(k)) /\ a # <<>>
    BY <1>1, <1>2
  <2> HIDE DEF a, c
  <2>2. a \o c # <<>> /\ \A i \in 1..Len(a \o c) : (a \o c)[i] \in OwnIds(k)
    BY <2>1
  <2> QED  BY <2>2 DEF a, c
<1>7. o[Len(o)] = n.of[Len(n.of)]
  <2> DEFINE a == m.of
             c == n.of
  <2>1. a \in Seq(Id) /\ c \in Seq(Id) /\ c # <<>>
    BY <1>1, <1>2
  <2> HIDE DEF a, c
  <2>2. (a \o c)[Len(a \o c)] = c[Len(c)]
    BY <2>1
  <2> QED  BY <2>2 DEF a, c
<1> HIDE DEF j, o
<1>5. ~ j.mark /\ j.refs = {} /\ j.stubbed = {}
  BY <1>1, <1>3
<1>8. Says(j.of[Len(j.of)])
  BY <1>1, <1>3, <1>7
<1>6. j \in Raw(k)
  BY <1>3, <1>4, <1>5, <1>8 DEF Raw
<1> QED  BY <1>6 DEF j

\* The merged payload, whatever comes next.
LEMMA MergedTyped ==
  ASSUME Inv, body' = MergeConversational(body)
  PROVE  /\ body' \in Seq(Good(rows, outputs))
         /\ body \in Seq(Raw(base)) => body' \in Seq(Raw(base))
<1>1. body \in Seq(Good(rows, outputs)) /\ base \in Nat
  BY BodyTyped
<1>2. body' \in Seq(Good(rows, outputs))
  <2>1. \A m, n \in Good(rows, outputs) : Joined(m, n) \in Good(rows, outputs)
    BY JoinedTyped
  <2> QED  BY <1>1, <2>1, MergeTyped
<1>3. body \in Seq(Raw(base)) => body' \in Seq(Raw(base))
  <2>1. \A m, n \in Raw(base) : Plain(m) /\ Plain(n) => Joined(m, n) \in Raw(base)
    BY <1>1, RawJoined
  <2> QED  BY <2>1, MergeTyped
<1> QED  BY <1>2, <1>3

LEMMA MergeInv == Inv /\ (Merge \/ Valve) => Inv'
<1> SUFFICES ASSUME Inv, Merge \/ Valve PROVE Inv'
  OBVIOUS
<1>1. CASE Merge
  <2>1. /\ stage = "merge" /\ body' = MergeConversational(body) /\ stage' = "trim"
        /\ UNCHANGED <<turns, base, marks, store, cache, pass, warm, truncated, bounds>>
    BY <1>1 DEF Merge
  <2>2. Counts'
    BY <2>1, StillCounts DEF bounds
  <2>3. body' \in Seq(Good(rows, outputs)) /\ ~ Early'
    BY <2>1, MergedTyped DEF Early
  <2> QED  BY <2>1, <2>2, <2>3, BodyTyped, StageInv DEF bounds
<1>2. CASE Valve
  <2>1. /\ stage = "merge" /\ warm /\ body' = MergeConversational(body) /\ stage' = "drop"
        /\ pass' = 2 /\ flushed' = compacted /\ warm' = FALSE
        /\ UNCHANGED <<turns, base, indexed, compacted, defer, store, cache, truncated, bounds>>
    BY <1>2, Zenon DEF Valve
  <2>2. Early
    BY <2>1 DEF Early
  <2>3. body' \in Seq(Raw(base)) /\ body' \in Seq(Good(rows, outputs))
    BY <2>1, <2>2, BodyTyped, MergedTyped
  <2>4. Answered' = Answered
    BY <2>1, Steady
  <2>5. Counts'
    BY <2>1, <2>4 DEF Inv, Counts, bounds
  <2>6. warm' \in BOOLEAN
    BY <2>1, Zenon
  <2> QED  BY <2>1, <2>3, <2>5, <2>6, BodyTyped, StageInv DEF bounds
<1> QED  BY <1>1, <1>2

LEMMA TrimInv ==
  Inv /\ (\E cramped \in BOOLEAN :
            \E older \in SUBSET ButLast(GroupStarts(body), 2) : Trim(older, cramped)) => Inv'
<1> SUFFICES ASSUME Inv, NEW cramped, NEW older, Trim(older, cramped) PROVE Inv'
  OBVIOUS
<1> DEFINE t == Trimmed(body, older)
           c == Cleanup(Trimmed(body, older))
           all == ButLast(GroupStarts(body), 2)
<1>1. /\ stage = "trim" /\ body' = (IF older = all \/ cramped THEN t ELSE c) /\ stage' = "sent"
      /\ UNCHANGED <<turns, base, marks, store, cache, pass, warm, truncated, bounds>>
  BY Zenon DEF Trim
<1>2. body \in Seq(Good(rows, outputs))
  BY BodyTyped
<1>3. t \in Seq(Good(rows, outputs))
  BY <1>2, TrimmedTyped
<1>4. c \in Seq(Good(rows, outputs))
  BY <1>3, CleanupTyped
<1> HIDE DEF t, c, all
<1>5. body' \in Seq(Good(rows, outputs)) /\ ~ Early'
  BY <1>1, <1>3, <1>4 DEF Early
<1>6. Counts'
  BY <1>1, StillCounts DEF bounds
<1> QED  BY <1>1, <1>5, <1>6, BodyTyped, StageInv DEF bounds

LEMMA RestoreInv == Inv /\ (\E ref \in rows : Restore(ref)) => Inv'
<1> SUFFICES ASSUME Inv, NEW ref \in rows, Restore(ref) PROVE Inv'
  OBVIOUS
<1> DEFINE full == Client(0)
           k == PositionIn(full, ref.first)
           chain == Chain(full, k)
           whole == Keep(full, chain)
           r == Restorable(whole)
           T == Good(rows, outputs)
<1>1. /\ stage = "sent" /\ StubsOf(body, ref) # {} /\ body' = RestoreInPlace(body, ref, r)
      /\ UNCHANGED <<turns, base, marks, store, cache, stage, pass, warm, truncated, bounds>>
  BY Zenon DEF Restore
<1>2. body \in Seq(T) /\ History /\ WholeChain(ref.first)
  BY BodyTyped DEF Kept
<1>3. full \in Seq(Raw(0)) /\ k \in 1..Len(full) /\ chain # {}
  <2> DEFINE id == ref.first
  <2> HIDE DEF id
  <2>1. WholeChain(id)
    BY <1>2 DEF id
  <2> QED  BY <1>2, <2>1, WholeIs, Zenon DEF id
<1> HIDE DEF full, k, T
<1>4. k \in chain
  <2>1. PICK f : Ends(f, full) /\ chain = k..f[k + 1]
    BY <1>3, ChainIs
  <2>2. k < Len(full)
    BY <1>3, ChainIs
  <2>3. Len(full) \in Nat
    BY <1>3
  <2>4. k + 1 \in 1..Len(full)
    BY <1>3, <2>2, <2>3
  <2>5. f[k + 1] \in (k + 1)..Len(full)
    BY <2>1, <2>4 DEF Ends
  <2> HIDE DEF chain
  <2> QED  BY <1>3, <2>1, <2>3, <2>5
<1> HIDE DEF chain
<1>5. whole \in Seq(T) /\ whole # <<>>
  <2>1. whole \in Seq(Raw(0))
    BY <1>3, KeepTyped
  <2>2. Len(whole) \in Nat \ {0}
    BY <1>3, <1>4, KeepHas
  <2> HIDE DEF whole
  <2>3. whole # <<>>
    BY <2>2
  <2> QED  BY <2>1, <2>3, RawGood DEF T
<1> HIDE DEF whole
<1>6. r \in Seq(T)
  BY <1>5, RestorableTyped DEF T
<1> HIDE DEF r
<1>7. body' \in Seq(T)
  BY <1>1, <1>2, <1>6, RestoreTyped
<1>8. ~ Early'
  BY <1>1 DEF Early
<1>9. Counts'
  BY <1>1, StillCounts DEF bounds
<1> QED  BY <1>1, <1>7, <1>8, <1>9, BodyTyped, StageInv DEF bounds, T

\* A write that fails is counted.
LEMMA TroubleCounts ==
  ASSUME Inv, UNCHANGED <<turns, base, marks>>, NEW n \in Nat, Trouble(n)
  PROVE  Counts'
<1>1. Answered' = Answered
  BY Steady
<1>2. troubles \in 0..MaxTroubles /\ troubles + n <= MaxTroubles /\ troubles' = troubles + n
  BY DEF Inv, Counts, Trouble
<1>3. troubles' \in 0..MaxTroubles
  BY <1>2, BoundAssumption
<1> QED  BY <1>1, <1>3 DEF Inv, Counts, marks

\* Positions of the body are finitely many.
LEMMA PositionsCounted ==
  ASSUME NEW T, NEW b \in Seq(T), NEW S \in SUBSET (1..Len(b))
  PROVE  IsFiniteSet(S) /\ Cardinality(S) \in Nat
<1>1. Len(b) \in Nat
  OBVIOUS
<1>2. IsFiniteSet(1..Len(b))
  BY <1>1, FS_Interval
<1>3. IsFiniteSet(S)
  BY <1>2, FS_Subset
<1> QED  BY <1>3, FS_CardinalityType

\* More outputs are stored.
LEMMA MoreOutputsKept ==
  ASSUME Kept, UNCHANGED <<turns, rows, cache>>, outputs' \in SUBSET (1..MaxTurns)
  PROVE  Kept'
<1>1. \A id : WholeChain(id)' = WholeChain(id)
  BY Steady
<1>2. \A r \in rows : WholeChain(r.first)'
  BY <1>1 DEF Kept
<1> QED  BY <1>2, Zenon DEF Kept

LEMMA StubToolsInv ==
  Inv /\ (\E intrude \in BOOLEAN : \E lost \in SUBSET Stubbable(intrude) :
            StubTools(intrude, lost)) => Inv'
<1> SUFFICES ASSUME Inv, NEW intrude \in BOOLEAN, NEW lost \in SUBSET Stubbable(intrude),
                    StubTools(intrude, lost)
             PROVE  Inv'
  OBVIOUS
<1> DEFINE S == Stubbable(intrude)
           K == S \ lost
           more == UNION {body[i].results : i \in K}
           x == StubOutputs(body, K)
<1>1. /\ stage = "stub" /\ Trouble(Cardinality(lost)) /\ body' = x
      /\ outputs' = outputs \union more
      /\ stage' = (IF pass = 1 THEN "merge" ELSE "trim")
      /\ UNCHANGED <<turns, base, marks, rows, cache, pass, warm, truncated, unseen>>
  BY Zenon DEF StubTools
<1>2. body \in Seq(Good(rows, outputs)) /\ Len(body) \in Nat /\ DOMAIN body = 1..Len(body)
  BY BodyTyped
<1>3. S \subseteq 1..Len(body) /\ (warm => S = {})
  <2>1. StubbablePositions(body, Protected, intrude) \subseteq 1..Len(body)
    <3> DEFINE T == Good(rows, outputs)
    <3>1. body \in Seq(T)
      BY <1>2
    <3> HIDE DEF T
    <3>2. \A s \in 1..Len(body) : Group(body, s) \subseteq 1..Len(body)
      BY <3>1, GroupIn
    <3>3. GroupStarts(body) \subseteq 1..Len(body)
      BY <3>1, StartsIn
    <3>4. \A n : ButLast(GroupStarts(body), n) \subseteq GroupStarts(body)
      BY DEF ButLast
    <3> QED  BY <3>2, <3>3, <3>4 DEF StubbablePositions
  <2> QED  BY <2>1 DEF Stubbable
<1>4. more \in SUBSET (1..MaxTurns)
  <2>1. \A i \in 1..Len(body) : body[i] \in Messages
    BY <1>2 DEF Good
  <2>2. \A i \in 1..Len(body) : body[i].results \in SUBSET (1..MaxTurns)
    BY <2>1, MessageFields
  <2>3. K \subseteq 1..Len(body)
    BY <1>3
  <2> QED  BY <2>2, <2>3
<1>5. outputs' \in SUBSET (1..MaxTurns)
  BY <1>1, <1>4, BodyTyped DEF Kept
<1>6. Kept'
  BY <1>1, <1>5, BodyTyped, MoreOutputsKept
<1>7. Cardinality(lost) \in Nat
  BY <1>2, <1>3, PositionsCounted
<1>8. Counts'
  BY <1>1, <1>7, TroubleCounts
<1>9. body' \in Seq(Good(rows', outputs'))
  <2>1. x \in Seq(Good(rows, outputs \union more))
    BY <1>2, StubOutputsTyped
  <2> HIDE DEF x, more
  <2> QED  BY <1>1, <2>1
<1>10. warm => x = body
  <2> SUFFICES ASSUME warm PROVE x = body
    OBVIOUS
  <2>1. K = {}
    BY <1>3
  <2> HIDE DEF K
  <2>2. x = [i \in DOMAIN body |-> body[i]]
    BY <2>1 DEF StubOutputs
  <2> HIDE DEF x
  <2> QED  BY <1>2, <2>2
<1> HIDE DEF x, more, K, S
<1>11. Early' => body' \in Seq(Raw(base))
  <2> SUFFICES ASSUME Early' PROVE body' \in Seq(Raw(base))
    OBVIOUS
  <2>1. warm' /\ warm' = warm
    BY <1>1 DEF Early
  <2>2. Early
    BY <1>1, <2>1 DEF Early
  <2> QED  BY <1>1, <1>10, <2>1, <2>2, BodyTyped
<1>12. Sending'
  BY <1>1, <1>9, <1>11, Continues
<1>13. Control'
  BY <1>1, BodyTyped DEF Inv, Control
<1>14. History'
  BY <1>1, Steady DEF Inv
<1> QED  BY <1>6, <1>8, <1>12, <1>13, <1>14 DEF Inv

\* What collapsing stores is a larger store.
LEMMA CollapsedKept ==
  ASSUME Kept, History, turns' = turns, NEW H, NEW result \in Backed(H),
         rows' = result.rows, outputs' = result.outputs,
         \/ cache' = result.cache
         \/ cache' = [result.cache EXCEPT !.recovery = TRUE,
                        !.manifest = {r \in result.rows : r.canon >= 0}]
  PROVE  Kept'
<1> DEFINE c == result.cache
           m == {r \in result.rows : r.canon >= 0}
           d == [c EXCEPT !.recovery = TRUE, !.manifest = m]
<1>1. /\ result \in Loops(H) /\ c.refs \subseteq result.rows /\ c.manifest \subseteq result.rows
      /\ \A r \in result.rows : WholeChain(r.first)
  BY DEF Backed
<1>2. result.rows \in SUBSET Refs /\ result.outputs \in SUBSET (1..MaxTurns) /\ c \in Caches
  BY <1>1, LoopFields
<1>3. m \subseteq result.rows
  OBVIOUS
<1> HIDE DEF m
<1>4. cache' = c \/ cache' = d
  BY DEF m
<1>5. d \in Caches /\ d.refs = c.refs /\ d.manifest = m
  <2> HIDE DEF c
  <2>1. m \in SUBSET Refs
    BY <1>2, <1>3
  <2> QED  BY <1>2, <2>1 DEF Caches
<1> HIDE DEF c, d
<1>6. cache' \in Caches /\ cache'.refs \subseteq result.rows /\ cache'.manifest \subseteq result.rows
  BY <1>1, <1>2, <1>3, <1>4, <1>5
<1>7. \A id : WholeChain(id)' = WholeChain(id)
  BY Steady
<1>8. \A r \in rows' : WholeChain(r.first)'
  BY <1>1, <1>7
<1> QED  BY <1>2, <1>6, <1>8, Zenon DEF Kept

LEMMA CollapseInv ==
  Inv /\ (\E lostRows \in SUBSET Collapsible(body) :
            \E lostOutputs \in SUBSET Collapsible(body) : Collapse(lostRows, lostOutputs)) => Inv'
<1> SUFFICES ASSUME Inv, NEW lostRows \in SUBSET Collapsible(body),
                    NEW lostOutputs \in SUBSET Collapsible(body),
                    Collapse(lostRows, lostOutputs)
             PROVE  Inv'
  OBVIOUS
<1> DEFINE H == Collapsible(body)
           cached == pass = 1
           result == Collapsing(body, cached, lostRows, lostOutputs)
           back == IF truncated THEN Recovered(result, cached) ELSE <<>>
           out == DOMAIN result.stubs \union {d.start : d \in result.deep}
           rest == Collapsed(body, out, result.stubs)
<1>1. /\ stage = "collapse" /\ ~warm
      /\ Trouble(Cardinality(lostRows) + Cardinality(lostOutputs))
      /\ body' = back \o rest
      /\ rows' = result.rows /\ outputs' = result.outputs
      /\ cache' = (IF cached /\ truncated /\ ~cache.recovery
                   THEN [result.cache EXCEPT !.recovery = TRUE,
                            !.manifest = {r \in result.rows : r.canon >= 0}]
                   ELSE result.cache)
      /\ unseen' = (unseen \/ (~cached /\ result.rows # rows))
      /\ stage' = "stub"
      /\ UNCHANGED <<turns, base, marks, pass, warm, truncated>>
  BY Zenon DEF Collapse
<1>2. Early
  BY <1>1 DEF Early
<1>3. body \in Seq(Raw(base)) /\ History /\ Kept /\ base \in Nat
  BY <1>2, BodyTyped
<1>4. result \in Backed(H)
  <2>1. cached \in BOOLEAN
    OBVIOUS
  <2> HIDE DEF cached, H
  <2> QED  BY <1>3, <2>1, CollapsingBacked DEF H
<1> DEFINE R == result.rows
           O == result.outputs
           T == Good(R, O)
<1>5. back \in Seq(T)
  <2>1. Recovered(result, cached) \in Seq(T)
    <3> HIDE DEF result, cached, H
    <3> QED  BY <1>3, <1>4, RecoveredTyped
  <2>2. <<>> \in Seq(T)
    BY EmptySeq
  <2> HIDE DEF result, T
  <2> QED  BY <2>1, <2>2
<1>6. rest \in Seq(T)
  <2>1. body \in Seq(T)
    BY <1>3, RawGood
  <2>2. \A s \in DOMAIN result.stubs : result.stubs[s] \in R /\ result.stubs[s] \in Refs
    <3> HIDE DEF result, H
    <3>1. result \in Loops(H) /\ \A s \in DOMAIN result.stubs : result.stubs[s] \in R
      BY <1>4 DEF Backed
    <3>2. R \in SUBSET Refs
      BY <3>1, LoopFields
    <3> QED  BY <3>1, <3>2
  <2> HIDE DEF result, out
  <2> QED  BY <2>1, <2>2, CollapsedTyped
<1> HIDE DEF back, rest, T, out, result
<1>7. body' \in Seq(T)
  BY <1>1, <1>5, <1>6
<1>8. body' \in Seq(Good(rows', outputs'))
  BY <1>1, <1>7 DEF T
<1>9. ~ Early'
  BY <1>1 DEF Early
<1>10. Sending'
  BY <1>1, <1>8, <1>9, Continues
<1>11. Kept'
  <2> HIDE DEF H
  <2>1. \/ cache' = result.cache
        \/ cache' = [result.cache EXCEPT !.recovery = TRUE,
                       !.manifest = {r \in result.rows : r.canon >= 0}]
    BY <1>1
  <2> QED  BY <1>1, <1>3, <1>4, <2>1, CollapsedKept
<1>12. Counts'
  <2>1. H \subseteq 1..Len(body)
    BY <1>3, CollapsibleIn
  <2>2. Cardinality(lostRows) \in Nat /\ Cardinality(lostOutputs) \in Nat
    BY <1>3, <2>1, PositionsCounted
  <2>3. Cardinality(lostRows) + Cardinality(lostOutputs) \in Nat
    BY <2>2
  <2> QED  BY <1>1, <2>3, TroubleCounts
<1>13. Control'
  <2>1. unseen' \in BOOLEAN
    BY <1>1
  <2>2. stage' = "stub"
    BY <1>1
  <2> QED  BY <1>1, <2>1, <2>2, BodyTyped DEF Inv, Control
<1>14. History'
  BY <1>1, Steady DEF Inv
<1> QED  BY <1>10, <1>11, <1>12, <1>13, <1>14 DEF Inv

-----------------------------------------------------------------------------
(* The theorems.                                                             *)

LEMMA NextInv == Inv /\ [Next]_vars => Inv'
<1> SUFFICES ASSUME Inv, [Next]_vars PROVE Inv'
  OBVIOUS
<1>1. CASE Ask  BY <1>1, AskInv
<1>2. CASE Interrupt  BY <1>2, InterruptInv
<1>3. CASE Tag  BY <1>3, TagInv
<1>4. CASE Compact  BY <1>4, CompactInv
<1>5. CASE Restart  BY <1>5, RestartInv
<1>6. CASE \E form \in Form : CallTool(form)  BY <1>6, CallToolInv
<1>7. CASE \E hashed \in BOOLEAN : Answer(hashed)  BY <1>7, AnswerInv
<1>8. CASE \E n \in 1..MaxTurns : Truncate(n)  BY <1>8, TruncateInv
<1>9. CASE Prepare
  <2>1. CASE \E cold \in BOOLEAN : Receive(cold)  BY <2>1, ReceiveInv
  <2>2. CASE Drop  BY <2>2, DropInv
  <2>3. CASE SkipFilter  BY <2>3, SkipInv
  <2>4. CASE \E matched \in SUBSET Decided : FilterBody(matched)  BY <2>4, FilterInv
  <2>5. CASE \E lostRows \in SUBSET Collapsible(body) :
               \E lostOutputs \in SUBSET Collapsible(body) : Collapse(lostRows, lostOutputs)
    BY <2>5, CollapseInv
  <2>6. CASE SkipCollapse  BY <2>6, SkipInv
  <2>7. CASE \E intrude \in BOOLEAN : \E lost \in SUBSET Stubbable(intrude) :
               StubTools(intrude, lost)
    BY <2>7, StubToolsInv
  <2>8. CASE Merge \/ Valve  BY <2>8, MergeInv
  <2>9. CASE \E cramped \in BOOLEAN :
               \E older \in SUBSET ButLast(GroupStarts(body), 2) : Trim(older, cramped)
    BY <2>9, TrimInv
  <2>10. CASE \E ref \in rows : Restore(ref)  BY <2>10, RestoreInv
  <2> QED
    BY <1>9, <2>1, <2>2, <2>3, <2>4, <2>5, <2>6, <2>7, <2>8, <2>9, <2>10, Zenon DEF Prepare
<1>10. CASE UNCHANGED vars  BY <1>10, StutterInv
<1> QED
  BY <1>1, <1>2, <1>3, <1>4, <1>5, <1>6, <1>7, <1>8, <1>9, <1>10, Zenon DEF Next

\* The invariant is more than the shape.
LEMMA InvTyped == Inv => TypeOK
<1> SUFFICES ASSUME Inv PROVE TypeOK
  OBVIOUS
<1>1. turns \in Seq([form : Form \union {"ask"}, answered : BOOLEAN, hashed : BOOLEAN])
  BY DEF Inv, History, Turns, Forms
<1>2. cache \in [loaded : BOOLEAN, refs : SUBSET rows, recovery : BOOLEAN, manifest : SUBSET rows]
  <2>1. cache \in Caches /\ cache.refs \subseteq rows /\ cache.manifest \subseteq rows
    BY DEF Inv, Kept
  <2> QED  BY <2>1 DEF Caches
<1>3. body \in Seq(Messages)
  <2>1. ASSUME NEW A, NEW B, A \subseteq B PROVE Seq(A) \subseteq Seq(B)
    BY <2>1
  <2>2. Good(rows, outputs) \subseteq Messages
    BY DEF Good
  <2> QED  BY <2>1, <2>2, BodyTyped
<1>4. rows \in SUBSET Refs /\ outputs \in SUBSET (1..MaxTurns)
  BY DEF Inv, Kept
<1> QED  BY <1>1, <1>2, <1>3, <1>4, Zenon DEF Inv, Counts, Control, TypeOK

\* All that a stub of the payload stands for is stored.
LEMMA InvStored == Inv => StubsStored
<1> SUFFICES ASSUME Inv, NEW i \in DOMAIN body
             PROVE  body[i].refs \subseteq rows /\ body[i].stubbed \subseteq outputs
  BY DEF StubsStored
<1>1. body \in Seq(Good(rows, outputs))
  BY BodyTyped
<1>2. body[i] \in Good(rows, outputs)
  BY <1>1
<1> QED  BY <1>2 DEF Good

\* The counters of what is tagged, compacted and flushed stay in their order,
\* the protected turns are never compacted, the cache knows only chains that
\* have a row, and the payload is a list of messages, whatever the stages of
\* prepare_payload, the client's truncations, restarts and failing writes do.
THEOREM TypeCorrect == Spec => []TypeOK
<1>1. Init => Inv
  BY InitInv
<1>2. Inv /\ [Next]_vars => Inv'
  BY NextInv
<1>3. Inv => TypeOK
  BY InvTyped
<1> QED  BY <1>1, <1>2, <1>3, PTL DEF Spec

\* Every reference a stub of the payload offers has a chain_snapshots row, and
\* every output it has replaced a tool_outputs row: collapse_turn_chains and
\* stub_tool_outputs_by_position insert no stub for a write that raised, and
\* the store recovery offers stored chains only, so that vc_restore_tool finds
\* what the model asks for, for any history, bounds and windows.
THEOREM StubsAreStored == Spec => []StubsStored
<1>1. Init => Inv
  BY InitInv
<1>2. Inv /\ [Next]_vars => Inv'
  BY NextInv
<1>3. Inv => StubsStored
  BY InvStored
<1> QED  BY <1>1, <1>2, <1>3, PTL DEF Spec

-----------------------------------------------------------------------------
(* Payloads whose calls are followed by their results.                       *)

\* What holds at 0 and with each step holds up to n.
LEMMA Stepwise ==
  ASSUME NEW n \in Nat, NEW P \in SUBSET (0..n), 0 \in P,
         \A k \in 1..n : k - 1 \in P => k \in P
  PROVE  P = 0..n
<1> DEFINE Q == {k \in Nat : k <= n => k \in P}
<1>1. 0 \in Q
  OBVIOUS
<1>2. ASSUME NEW k \in Nat, k \in Q PROVE k + 1 \in Q
  <2>1. CASE k + 1 <= n
    <3>1. k + 1 \in 1..n /\ (k + 1) - 1 = k /\ k <= n
      BY <2>1
    <3> QED  BY <1>2, <3>1
  <2>2. CASE ~ (k + 1 <= n)
    BY <2>2
  <2> QED  BY <2>1, <2>2
<1> HIDE DEF Q
<1>3. Q \in SUBSET Nat
  BY DEF Q
<1>4. Q = Nat
  BY <1>1, <1>2, <1>3, InductionOver
<1>5. \A k \in 0..n : k \in P
  <2> TAKE k \in 0..n
  <2>1. k \in Nat /\ k <= n
    OBVIOUS
  <2> QED  BY <1>4, <2>1 DEF Q
<1> QED  BY <1>5

\* x answers the calls u before its first message, leaves the calls v of its
\* last one open, and answers all others in the next message.
Passes(x, u, v) ==
  IF x = <<>> THEN u = v
  ELSE /\ x[1].results = u /\ x[Len(x)].uses = v
       /\ \A k \in 1..(Len(x) - 1) : x[k].uses = x[k + 1].results

Begins(x) == x # <<>> => IsUser(x[1])

\* No call is made twice.
CallsOnce(x) ==
  \A i, j \in 1..Len(x) : x[i].uses \intersect x[j].uses # {} => i = j

\* Assistants call, users answer, and stub pairs do neither.
Sided ==
  {m \in Messages : /\ IsUser(m) => m.uses = {}
                    /\ ~ IsUser(m) => m.results = {}
                    /\ m.mark \/ m.refs # {} => Plain(m)}

LEMMA PassesConcat ==
  ASSUME NEW T, NEW x \in Seq(T), NEW p \in Seq(T), NEW u, NEW v, NEW w,
         Passes(x, w, u), Passes(p, u, v)
  PROVE  Passes(x \o p, w, v)
<1> DEFINE z == x \o p
           n == Len(x)
           m == Len(p)
<1>1. CASE x = <<>>
  <2>1. z = p
    BY <1>1
  <2>2. w = u
    BY <1>1 DEF Passes
  <2> QED  BY <2>1, <2>2
<1>2. CASE p = <<>>
  <2>1. z = x
    BY <1>2
  <2>2. v = u
    BY <1>2 DEF Passes
  <2> QED  BY <2>1, <2>2
<1>3. CASE x # <<>> /\ p # <<>>
  <2>1. /\ Len(z) = n + m /\ n \in Nat \ {0} /\ m \in Nat \ {0}
        /\ (\A k \in 1..n : z[k] = x[k]) /\ (\A k \in 1..m : z[n + k] = p[k])
    BY <1>3, Concatenated
  <2>2. /\ x[1].results = w /\ x[n].uses = u
        /\ \A k \in 1..(n - 1) : x[k].uses = x[k + 1].results
    BY <1>3 DEF Passes
  <2>3. /\ p[1].results = u /\ p[m].uses = v
        /\ \A k \in 1..(m - 1) : p[k].uses = p[k + 1].results
    BY <1>3 DEF Passes
  <2> HIDE DEF z, n, m
  <2>4. z[1].results = w /\ z[n + m].uses = v /\ z # <<>>
    <3>1. 1 \in 1..n /\ m \in 1..m
      BY <2>1
    <3>2. z = <<>> => Len(z) = 0
      OBVIOUS
    <3> QED  BY <2>1, <2>2, <2>3, <3>1, <3>2
  <2>5. ASSUME NEW k \in 1..(n + m - 1) PROVE z[k].uses = z[k + 1].results
    <3>1. CASE k < n
      <4>1. k \in 1..(n - 1) /\ k \in 1..n /\ k + 1 \in 1..n
        BY <2>1, <3>1
      <4> QED  BY <2>1, <2>2, <4>1
    <3>2. CASE k = n
      <4>1. k \in 1..n /\ 1 \in 1..m
        BY <2>1, <3>2
      <4> QED  BY <2>1, <2>2, <2>3, <3>2, <4>1
    <3>3. CASE k > n
      <4>1. k - n \in 1..(m - 1) /\ k - n \in 1..m /\ (k - n) + 1 \in 1..m
            /\ n + (k - n) = k /\ n + ((k - n) + 1) = k + 1
        BY <2>1, <3>3
      <4>2. z[k] = p[k - n] /\ z[k + 1] = p[(k - n) + 1]
        BY <2>1, <4>1
      <4> QED  BY <2>3, <4>1, <4>2
    <3> QED  BY <2>1, <3>1, <3>2, <3>3
  <2>6. Passes(z, w, v)
    BY <2>1, <2>4, <2>5 DEF Passes
  <2> QED  BY <2>6 DEF z
<1> QED  BY <1>1, <1>2, <1>3

\* Pieces that pass open calls on to the next one.
LEMMA FlattenPasses ==
  ASSUME NEW T, NEW ss \in Seq(Seq(T)), NEW c,
         \A i \in 1..Len(ss) : Passes(ss[i], c[i - 1], c[i])
  PROVE  Passes(FlattenSeq(ss), c[0], c[Len(ss)])
<1> DEFINE n == Len(ss)
           U == Seq(T)
<1>1. PICK g \in Values(n, U) : Folds(g, ss) /\ FlattenSeq(ss) = g[n]
  BY FlattenFolds
<1>2. n \in Nat /\ \A i \in 1..n : ss[i] \in U
  OBVIOUS
<1>3. g[0] = <<>> /\ \A i \in 1..n : g[i] = g[i - 1] \o ss[i]
  BY <1>1 DEF Folds
<1> HIDE DEF n, U
<1> DEFINE P == {k \in 0..n : Passes(g[k], c[0], c[k])}
<1>4. 0 \in P
  BY <1>2, <1>3 DEF Passes
<1>5. ASSUME NEW k \in 1..n, k - 1 \in P PROVE k \in P
  <2>1. k \in 0..n /\ k - 1 \in 0..n /\ g[k - 1] \in U
    BY <1>1, <1>2 DEF Values
  <2>2. Passes(g[k - 1], c[0], c[k - 1]) /\ Passes(ss[k], c[k - 1], c[k])
    BY <1>5 DEF n
  <2>3. Passes(g[k - 1] \o ss[k], c[0], c[k])
    BY <1>2, <2>1, <2>2, PassesConcat DEF U
  <2> QED  BY <1>3, <2>1, <2>3
<1> HIDE DEF P
<1>6. P = 0..n
  <2>1. P \in SUBSET (0..n)
    BY DEF P
  <2> QED  BY <1>2, <1>4, <1>5, <2>1, Stepwise
<1>7. n \in P
  BY <1>2, <1>6
<1> QED  BY <1>1, <1>7 DEF P, n

\* Pieces the first of which that is not empty begins with a user.
LEMMA FlattenBegins ==
  ASSUME NEW T, NEW ss \in Seq(Seq(T)),
         \A i \in 1..Len(ss) : ss[i] # <<>> =>
            IsUser(ss[i][1]) \/ \E j \in 1..(i - 1) : ss[j] # <<>>
  PROVE  Begins(FlattenSeq(ss))
<1> DEFINE n == Len(ss)
           U == Seq(T)
<1>1. PICK g \in Values(n, U) : Folds(g, ss) /\ FlattenSeq(ss) = g[n]
  BY FlattenFolds
<1>2. n \in Nat /\ \A i \in 1..n : ss[i] \in U
  OBVIOUS
<1>3. g[0] = <<>> /\ \A i \in 1..n : g[i] = g[i - 1] \o ss[i]
  BY <1>1 DEF Folds
<1> HIDE DEF n, U
<1> DEFINE P == {k \in 0..n : /\ Begins(g[k])
                              /\ \A j \in 1..k : ss[j] # <<>> => g[k] # <<>>}
<1>4. 0 \in P
  BY <1>2, <1>3 DEF Begins
<1>5. ASSUME NEW k \in 1..n, k - 1 \in P PROVE k \in P
  <2> DEFINE x == g[k - 1]
             p == ss[k]
             z == x \o p
  <2>1. k \in 0..n /\ k - 1 \in 0..n /\ x \in U /\ p \in U /\ g[k] = z
    BY <1>1, <1>2, <1>3 DEF Values
  <2>2. Begins(x) /\ \A j \in 1..(k - 1) : ss[j] # <<>> => x # <<>>
    BY <1>5
  <2>3. p # <<>> => IsUser(p[1]) \/ x # <<>>
    BY <2>2 DEF n
  <2> HIDE DEF x, p
  <2>4. CASE x = <<>>
    <3>1. z = p
      BY <2>1, <2>4 DEF U
    <3>2. Begins(z)
      BY <2>3, <2>4, <3>1 DEF Begins
    <3>3. ASSUME NEW j \in 1..k, ss[j] # <<>> PROVE z # <<>>
      <4>1. j = k \/ j \in 1..(k - 1)
        OBVIOUS
      <4> QED  BY <2>2, <2>4, <3>1, <3>3, <4>1 DEF p
    <3> QED  BY <2>1, <3>2, <3>3
  <2>5. CASE x # <<>>
    <3>1. z # <<>> /\ z[1] = x[1]
      BY <2>1, <2>5 DEF U
    <3>2. Begins(z)
      BY <2>2, <2>5, <3>1 DEF Begins
    <3> QED  BY <2>1, <3>1, <3>2
  <2> QED  BY <2>4, <2>5
<1> HIDE DEF P
<1>6. P = 0..n
  <2>1. P \in SUBSET (0..n)
    BY DEF P
  <2> QED  BY <1>2, <1>4, <1>5, <2>1, Stepwise
<1>7. n \in P
  BY <1>2, <1>6
<1> QED  BY <1>1, <1>7 DEF P, n

Apart(x, p) ==
  \A i \in 1..Len(x) : \A j \in 1..Len(p) : x[i].uses \intersect p[j].uses = {}
Among(z, x, p) ==
  \A k \in 1..Len(z) : \/ \E i \in 1..Len(x) : z[k] = x[i]
                       \/ \E j \in 1..Len(p) : z[k] = p[j]

\* A call of x \o p is one of x or of p.
LEMMA OnceConcat ==
  ASSUME NEW T, NEW x \in Seq(T), NEW p \in Seq(T), CallsOnce(x), CallsOnce(p),
         Apart(x, p)
  PROVE  CallsOnce(x \o p) /\ Among(x \o p, x, p)
<1> DEFINE z == x \o p
           n == Len(x)
           m == Len(p)
<1>1. /\ Len(z) = n + m /\ n \in Nat /\ m \in Nat
      /\ (\A k \in 1..n : z[k] = x[k]) /\ (\A k \in 1..m : z[n + k] = p[k])
  BY Concatenated
<1>2. /\ \A i, j \in 1..n : x[i].uses \intersect x[j].uses # {} => i = j
      /\ \A i, j \in 1..m : p[i].uses \intersect p[j].uses # {} => i = j
      /\ \A i \in 1..n : \A j \in 1..m : x[i].uses \intersect p[j].uses = {}
  BY DEF CallsOnce, Apart
<1> HIDE DEF z, n, m
<1>3. ASSUME NEW k \in 1..(n + m)
      PROVE  (k \in 1..n /\ z[k] = x[k]) \/ (k - n \in 1..m /\ z[k] = p[k - n] /\ k > n)
  <2>1. CASE k <= n
    BY <1>1, <2>1
  <2>2. CASE k > n
    <3>1. k - n \in 1..m /\ n + (k - n) = k
      BY <1>1, <2>2
    <3> QED  BY <1>1, <2>2, <3>1
  <2> QED  BY <1>1, <2>1, <2>2
<1>4. ASSUME NEW i \in 1..(n + m), NEW j \in 1..(n + m), z[i].uses \intersect z[j].uses # {}
      PROVE  i = j
  <2>1. CASE i \in 1..n /\ z[i] = x[i] /\ j \in 1..n /\ z[j] = x[j]
    BY <1>2, <1>4, <2>1
  <2>2. CASE i \in 1..n /\ z[i] = x[i] /\ j - n \in 1..m /\ z[j] = p[j - n]
    BY <1>2, <1>4, <2>2
  <2>3. CASE i - n \in 1..m /\ z[i] = p[i - n] /\ j \in 1..n /\ z[j] = x[j]
    <3>1. x[j].uses \intersect p[i - n].uses = {}
      BY <1>2, <2>3
    <3> QED  BY <1>4, <2>3, <3>1
  <2>4. CASE i - n \in 1..m /\ z[i] = p[i - n] /\ j - n \in 1..m /\ z[j] = p[j - n]
    <3>1. i - n = j - n
      BY <1>2, <1>4, <2>4
    <3> QED  BY <1>1, <3>1
  <2> QED  BY <1>3, <2>1, <2>2, <2>3, <2>4
<1>5. CallsOnce(z)
  BY <1>1, <1>4 DEF CallsOnce
<1>6. Among(z, x, p)
  BY <1>1, <1>3 DEF Among, n, m
<1> QED  BY <1>5, <1>6 DEF z

-----------------------------------------------------------------------------
(* What Keep leaves.                                                       *)

\* Pieces that make different calls.
LEMMA FlattenOnce ==
  ASSUME NEW T, NEW ss \in Seq(Seq(T)), \A i \in 1..Len(ss) : CallsOnce(ss[i]),
         \A i, j \in 1..Len(ss) : i < j =>
            \A k \in 1..Len(ss[i]) : \A l \in 1..Len(ss[j]) :
               ss[i][k].uses \intersect ss[j][l].uses = {}
  PROVE  CallsOnce(FlattenSeq(ss))
<1> DEFINE n == Len(ss)
           U == Seq(T)
<1>1. PICK g \in Values(n, U) : Folds(g, ss) /\ FlattenSeq(ss) = g[n]
  BY FlattenFolds
<1>2. n \in Nat /\ \A i \in 1..n : ss[i] \in U
  OBVIOUS
<1>3. g[0] = <<>> /\ \A i \in 1..n : g[i] = g[i - 1] \o ss[i]
  BY <1>1 DEF Folds
<1> DEFINE Of(k, a) == \E i \in 1..k : \E l \in 1..Len(ss[i]) : g[k][a] = ss[i][l]
           P == {k \in 0..n : CallsOnce(g[k]) /\ \A a \in 1..Len(g[k]) : Of(k, a)}
<1>4. 0 \in P
  <2>1. Len(g[0]) = 0
    BY <1>3
  <2> QED  BY <1>2, <2>1 DEF CallsOnce
<1>5. ASSUME NEW k \in 1..n, k - 1 \in P PROVE k \in P
  <2> DEFINE x == g[k - 1]
             p == ss[k]
             z == x \o p
  <2>1. k \in 0..n /\ k - 1 \in 0..n /\ x \in U /\ p \in U /\ g[k] = z
    <3>1. k \in 0..n /\ k - 1 \in 0..n
      BY <1>2
    <3>2. x \in U
      BY <1>1, <3>1 DEF Values
    <3> QED  BY <1>2, <1>3, <3>1, <3>2
  <2>2. CallsOnce(x) /\ \A a \in 1..Len(x) : Of(k - 1, a)
    BY <1>5
  <2>3. CallsOnce(p)
    OBVIOUS
  <2>4. ASSUME NEW a \in 1..Len(x), NEW l \in 1..Len(p) PROVE x[a].uses \intersect p[l].uses = {}
    <3>1. PICK i \in 1..(k - 1) : \E h \in 1..Len(ss[i]) : x[a] = ss[i][h]
      BY <2>2
    <3>2. i \in 1..n /\ k \in 1..n /\ i < k
      BY <1>2, <3>1
    <3> QED  BY <3>1, <3>2
  <2> HIDE DEF x, p
  <2>5. /\ CallsOnce(z)
        /\ Among(z, x, p)
    <3>1. x \in Seq(T) /\ p \in Seq(T)
      BY <2>1 DEF U
    <3>2. Apart(x, p)
      BY <2>4 DEF Apart
    <3>3. CallsOnce(x)
      BY <2>2
    <3> QED  BY <2>3, <3>1, <3>2, <3>3, OnceConcat
  <2> HIDE DEF z
  <2>6. ASSUME NEW a \in 1..Len(z) PROVE \E i \in 1..k : \E l \in 1..Len(ss[i]) : z[a] = ss[i][l]
    <3>1. CASE \E i \in 1..Len(x) : z[a] = x[i]
      <4>1. PICK b \in 1..Len(x) : z[a] = x[b]
        BY <3>1
      <4>2. PICK i \in 1..(k - 1) : \E l \in 1..Len(ss[i]) : x[b] = ss[i][l]
        BY <2>2, <4>1 DEF x
      <4>3. i \in 1..k
        BY <1>2, <4>2
      <4> QED  BY <4>1, <4>2, <4>3
    <3>2. CASE \E l \in 1..Len(p) : z[a] = p[l]
      <4>1. k \in 1..k
        BY <1>2
      <4> QED  BY <3>2, <4>1 DEF p
    <3> QED  BY <2>5, <3>1, <3>2 DEF Among
  <2> QED  BY <2>1, <2>5, <2>6
<1> HIDE DEF P
<1>6. P = 0..n
  <2>1. P \in SUBSET (0..n)
    BY DEF P
  <2> HIDE DEF n
  <2> QED  BY <1>2, <1>4, <1>5, <2>1, Stepwise
<1>7. n \in P
  BY <1>2, <1>6
<1> QED  BY <1>1, <1>7 DEF P

\* The pieces of Keep.
Piece(b, S, i) == IF i \in S THEN <<b[i]>> ELSE <<>>
Pieces(b, S) == [i \in DOMAIN b |-> Piece(b, S, i)]

LEMMA KeepPieces ==
  ASSUME NEW T, NEW b \in Seq(T), NEW S
  PROVE  /\ Pieces(b, S) \in Seq(Seq(T)) /\ Len(Pieces(b, S)) = Len(b)
         /\ Keep(b, S) = FlattenSeq(Pieces(b, S)) /\ Keep(b, S) \in Seq(T)
         /\ \A i \in 1..Len(b) : Pieces(b, S)[i] = Piece(b, S, i)
         /\ Len(b) \in Nat /\ DOMAIN b = 1..Len(b) /\ \A i \in 1..Len(b) : b[i] \in T
<1> DEFINE f == Pieces(b, S)
           U == Seq(T)
<1>1. Len(b) \in Nat /\ DOMAIN b = 1..Len(b) /\ \A i \in 1..Len(b) : b[i] \in T
  OBVIOUS
<1>2. \A i \in 1..Len(b) : f[i] = Piece(b, S, i)
  BY <1>1 DEF Pieces
<1>3. f = [i \in 1..Len(b) |-> f[i]]
  BY <1>1 DEF Pieces
<1>4. Keep(b, S) = FlattenSeq(f)
  BY Zenon DEF Keep, Pieces, Piece
<1> HIDE DEF f
<1>5. \A i \in 1..Len(b) : f[i] \in U
  <2> TAKE i \in 1..Len(b)
  <2>1. <<b[i]>> \in Seq(T) /\ <<>> \in Seq(T)
    BY <1>1
  <2> QED  BY <1>2, <2>1 DEF Piece
<1> HIDE DEF U
<1>6. f \in Seq(U) /\ Len(f) = Len(b)
  BY <1>1, <1>3, <1>5, SequenceBuilt
<1> QED  BY <1>1, <1>2, <1>4, <1>6, KeepTyped DEF U, f

\* With a call S has the result, and with the result the call.
Unsplit(b, S) ==
  \A i \in 1..(Len(b) - 1) : b[i].uses # {} => (i \in S <=> i + 1 \in S)

LEMMA KeepPasses ==
  ASSUME NEW T, NEW b \in Seq(T), NEW S, NEW v, Passes(b, {}, v), Unsplit(b, S)
  PROVE  Passes(Keep(b, S), {}, IF Len(b) \in S THEN v ELSE {})
<1> DEFINE n == Len(b)
           f == Pieces(b, S)
           c == [i \in 0..n |-> IF i \in 1..n /\ i \in S THEN b[i].uses ELSE {}]
<1>1. /\ f \in Seq(Seq(T)) /\ Len(f) = n /\ Keep(b, S) = FlattenSeq(f)
      /\ (\A i \in 1..n : f[i] = Piece(b, S, i)) /\ n \in Nat
  BY KeepPieces
<1>2. ASSUME b # <<>>
      PROVE  /\ b[1].results = {} /\ b[n].uses = v
             /\ \A k \in 1..(n - 1) : b[k].uses = b[k + 1].results
  BY <1>2 DEF Passes
<1>3. \A i \in 1..(n - 1) : b[i].uses # {} => (i \in S <=> i + 1 \in S)
  BY DEF Unsplit
<1>4. b = <<>> <=> n = 0
  OBVIOUS
<1>5. /\ \A i \in 1..n : c[i] = IF i \in S THEN b[i].uses ELSE {}
      /\ c[0] = {}
  BY <1>1
<1> HIDE DEF n, f, c
<1>6. ASSUME NEW i \in 1..n PROVE Passes(f[i], c[i - 1], c[i])
  <2>1. b # <<>> /\ n >= 1
    BY <1>1, <1>4
  <2>2. i = 1 \/ i - 1 \in 1..(n - 1)
    BY <1>1
  <2>3. f[i] = IF i \in S THEN <<b[i]>> ELSE <<>>
    BY <1>1 DEF Piece
  <2>4. CASE i \in S
    <3>1. b[i].results = c[i - 1]
      <4>1. CASE i = 1
        <5>1. i - 1 = 0
          BY <4>1
        <5>2. c[i - 1] = {}
          BY <1>5, <5>1
        <5> QED  BY <1>2, <2>1, <4>1, <5>2
      <4>2. CASE i - 1 \in 1..(n - 1)
        <5>1. i - 1 \in 1..n /\ (i - 1) + 1 = i
          BY <1>1, <4>2
        <5>2. b[i - 1].uses = b[i].results
          BY <1>2, <2>1, <4>2, <5>1
        <5>3. b[i - 1].uses # {} => i - 1 \in S
          BY <1>3, <2>4, <4>2, <5>1
        <5> QED  BY <1>5, <5>1, <5>2, <5>3
      <4> QED  BY <2>2, <4>1, <4>2
    <3>2. c[i] = b[i].uses
      BY <1>5, <2>4
    <3> DEFINE m == b[i]
    <3>3. f[i] = <<m>> /\ m.results = c[i - 1] /\ m.uses = c[i]
      BY <2>3, <2>4, <3>1, <3>2
    <3> HIDE DEF m
    <3>4. /\ <<m>> # <<>> /\ Len(<<m>>) = 1 /\ <<m>>[1] = m /\ 1..(1 - 1) = {}
      OBVIOUS
    <3> DEFINE x == <<m>>
    <3> HIDE DEF x
    <3>5. Passes(x, c[i - 1], c[i])
      BY <3>3, <3>4 DEF Passes, x
    <3> QED  BY <3>3, <3>5 DEF x
  <2>5. CASE i \notin S
    <3>1. c[i] = {}
      BY <1>5, <2>5
    <3>2. c[i - 1] = {}
      <4>1. CASE i = 1
        BY <1>5, <4>1
      <4>2. CASE i - 1 \in 1..(n - 1)
        <5>1. i - 1 \in 1..n /\ (i - 1) + 1 = i
          BY <1>1, <4>2
        <5>2. b[i - 1].uses # {} => i - 1 \notin S
          BY <1>3, <2>5, <4>2, <5>1
        <5> QED  BY <1>5, <5>1, <5>2
      <4> QED  BY <2>2, <4>1, <4>2
    <3> QED  BY <2>3, <2>5, <3>1, <3>2 DEF Passes
  <2> QED  BY <2>4, <2>5
<1>7. Passes(FlattenSeq(f), c[0], c[n])
  BY <1>1, <1>6, FlattenPasses
<1>8. c[n] = IF n \in S THEN v ELSE {}
  <2>1. CASE n = 0
    <3>1. v = {}
      BY <1>4, <2>1 DEF Passes
    <3> QED  BY <1>5, <2>1, <3>1
  <2>2. CASE n # 0
    <3>1. n \in 1..n
      BY <1>1, <2>2
    <3> QED  BY <1>2, <1>4, <1>5, <2>2, <3>1
  <2> QED  BY <2>1, <2>2
<1> QED  BY <1>1, <1>5, <1>7, <1>8 DEF n

LEMMA KeepBegins ==
  ASSUME NEW T, NEW b \in Seq(T), NEW S,
         \A i \in 1..Len(b) : i \in S => IsUser(b[i]) \/ \E j \in 1..(i - 1) : j \in S
  PROVE  Begins(Keep(b, S))
<1> DEFINE n == Len(b)
           f == Pieces(b, S)
<1>1. /\ f \in Seq(Seq(T)) /\ Len(f) = n /\ Keep(b, S) = FlattenSeq(f)
      /\ (\A i \in 1..n : f[i] = Piece(b, S, i)) /\ n \in Nat
  BY KeepPieces
<1> HIDE DEF f
<1>2. ASSUME NEW i \in 1..n, f[i] # <<>>
      PROVE  IsUser(f[i][1]) \/ \E j \in 1..(i - 1) : f[j] # <<>>
  <2>1. i \in S /\ f[i] = <<b[i]>>
    BY <1>1, <1>2 DEF Piece
  <2>2. f[i][1] = b[i]
    BY <2>1
  <2>3. ASSUME NEW j \in 1..(i - 1), j \in S PROVE f[j] # <<>>
    <3>1. j \in 1..n
      BY <1>1
    <3>2. f[j] = <<b[j]>>
      BY <1>1, <2>3, <3>1 DEF Piece
    <3> QED  BY <3>2
  <2> QED  BY <2>1, <2>2, <2>3
<1> HIDE DEF n
<1> QED  BY <1>1, <1>2, FlattenBegins

LEMMA KeepOnce ==
  ASSUME NEW T, NEW b \in Seq(T), NEW S, CallsOnce(b)
  PROVE  CallsOnce(Keep(b, S))
<1> DEFINE n == Len(b)
           f == Pieces(b, S)
<1>1. /\ f \in Seq(Seq(T)) /\ Len(f) = n /\ Keep(b, S) = FlattenSeq(f)
      /\ (\A i \in 1..n : f[i] = Piece(b, S, i)) /\ n \in Nat
  BY KeepPieces
<1> HIDE DEF f
<1>2. \A i, j \in 1..n : b[i].uses \intersect b[j].uses # {} => i = j
  BY DEF CallsOnce
<1> HIDE DEF n
<1>3. ASSUME NEW i \in 1..n
      PROVE  /\ CallsOnce(f[i]) /\ Len(f[i]) \in 0..1
             /\ \A k \in 1..Len(f[i]) : f[i][k] = b[i]
  <2>1. CASE i \in S
    <3>1. f[i] = <<b[i]>>
      BY <1>1, <2>1 DEF Piece
    <3>2. Len(f[i]) = 1 /\ f[i][1] = b[i]
      BY <3>1
    <3>3. \A k \in 1..1 : k = 1
      OBVIOUS
    <3> QED  BY <3>2, <3>3 DEF CallsOnce
  <2>2. CASE i \notin S
    <3>1. Len(f[i]) = 0
      BY <1>1, <2>2 DEF Piece
    <3> QED  BY <3>1 DEF CallsOnce
  <2> QED  BY <2>1, <2>2
<1>4. ASSUME NEW i \in 1..n, NEW j \in 1..n, i < j, NEW k \in 1..Len(f[i]), NEW l \in 1..Len(f[j])
      PROVE  f[i][k].uses \intersect f[j][l].uses = {}
  <2>1. i # j
    BY <1>1, <1>4
  <2>2. f[i][k] = b[i] /\ f[j][l] = b[j]
    BY <1>3
  <2> QED  BY <1>2, <2>1, <2>2
<1> QED  BY <1>1, <1>3, <1>4, FlattenOnce

-----------------------------------------------------------------------------
(* Payloads that are linked.                                               *)

\* A payload as the providers accept it.
Linked(b) == b \in Seq(Sided) /\ Passes(b, {}, {}) /\ Begins(b)

LEMMA PassesIs ==
  ASSUME NEW T, NEW b \in Seq(T), NEW u, NEW v, Passes(b, u, v), b # <<>>
  PROVE  /\ b[1].results = u /\ b[Len(b)].uses = v
         /\ \A k \in 1..(Len(b) - 1) : b[k].uses = b[k + 1].results
         /\ Len(b) \in Nat \ {0}
  BY DEF Passes

\* S has all of a group or nothing.
Grouped(b, S) ==
  \A i \in 1..(Len(b) - 1) : i + 1 \notin GroupStarts(b) => (i \in S <=> i + 1 \in S)

LEMMA GroupsGrouped ==
  ASSUME NEW T, NEW b \in Seq(T), NEW A \in SUBSET GroupStarts(b)
  PROVE  /\ Grouped(b, UNION {Group(b, s) : s \in A})
         /\ Grouped(b, DOMAIN b \ UNION {Group(b, s) : s \in A})
<1> DEFINE G == GroupStarts(b)
           n == Len(b)
           S == UNION {Group(b, s) : s \in A}
<1>1. G \subseteq 1..n /\ n \in Nat /\ DOMAIN b = 1..n
  BY StartsIn
<1>2. \A s \in A : Group(b, s) = {i \in s..n : \A r \in G : r > s => r > i}
  <2>1. \A s \in A : s \in 1..n
    BY <1>1
  <2> QED  BY <2>1, GroupIs
<1>3. A \subseteq G
  OBVIOUS
<1> HIDE DEF G, n
<1>4. ASSUME NEW i \in 1..(n - 1), i + 1 \notin G PROVE i \in S <=> i + 1 \in S
  <2>1. i \in 1..n /\ i + 1 \in 1..n
    BY <1>1
  <2>2. ASSUME NEW s \in A, i \in Group(b, s) PROVE i + 1 \in Group(b, s)
    <3>1. s \in 1..n /\ i \in s..n /\ \A r \in G : r > s => r > i
      BY <1>1, <1>2, <1>3, <2>2
    <3>2. \A r \in G : r > s => r > i + 1
      BY <1>1, <1>4, <3>1
    <3>3. i + 1 \in s..n
      BY <2>1, <3>1
    <3> QED  BY <1>2, <3>2, <3>3
  <2>3. ASSUME NEW s \in A, i + 1 \in Group(b, s) PROVE i \in Group(b, s)
    <3>1. s \in 1..n /\ s \in G /\ i + 1 \in s..n /\ \A r \in G : r > s => r > i + 1
      BY <1>1, <1>2, <1>3, <2>3
    <3>2. s # i + 1
      BY <1>4, <3>1
    <3>3. i \in s..n
      BY <2>1, <3>1, <3>2
    <3>4. \A r \in G : r > s => r > i
      BY <1>1, <3>1
    <3> QED  BY <1>2, <3>3, <3>4
  <2> QED  BY <2>2, <2>3
<1>5. Grouped(b, S)
  BY <1>4 DEF Grouped, G, n
<1> HIDE DEF S
<1>6. Grouped(b, DOMAIN b \ S)
  <2> SUFFICES ASSUME NEW i \in 1..(n - 1), i + 1 \notin G
               PROVE  i \in DOMAIN b \ S <=> i + 1 \in DOMAIN b \ S
    BY DEF Grouped, G, n
  <2>1. i \in 1..n /\ i + 1 \in 1..n
    BY <1>1
  <2> QED  BY <1>1, <1>4, <2>1
<1> QED  BY <1>5, <1>6 DEF S

LEMMA KeepLinked ==
  ASSUME NEW b, Linked(b), NEW S, Grouped(b, S)
  PROVE  /\ Linked(Keep(b, S)) /\ Unsplit(b, S)
         /\ CallsOnce(b) => CallsOnce(Keep(b, S))
<1> DEFINE n == Len(b)
<1>1. b \in Seq(Sided) /\ Passes(b, {}, {}) /\ Begins(b) /\ n \in Nat /\ (b = <<>> <=> n = 0)
  BY DEF Linked
<1>2. b # <<>> => \A k \in 1..(n - 1) : b[k].uses = b[k + 1].results
  BY <1>1, PassesIs
<1>3. \A i \in 1..(n - 1) : i + 1 \notin GroupStarts(b) => (i \in S <=> i + 1 \in S)
  BY DEF Grouped
<1>4. GroupStarts(b) = {i \in 1..n : i = 1 \/ RealUser(b[i])}
  BY <1>1 DEF GroupStarts
<1>5. b # <<>> => IsUser(b[1])
  BY <1>1 DEF Begins
<1> HIDE DEF n
<1>6. ASSUME NEW i \in 1..(n - 1), b[i].uses # {} PROVE i \in S <=> i + 1 \in S
  <2>1. b # <<>> /\ i + 1 # 1
    BY <1>1
  <2>2. b[i + 1].results # {}
    BY <1>2, <1>6, <2>1
  <2>3. i + 1 \notin GroupStarts(b)
    BY <1>4, <2>1, <2>2 DEF RealUser
  <2> QED  BY <1>3, <2>3
<1>7. Unsplit(b, S)
  BY <1>6 DEF Unsplit, n
<1>8. ASSUME NEW i \in 1..n, i \in S PROVE IsUser(b[i]) \/ \E j \in 1..(i - 1) : j \in S
  <2> SUFFICES ASSUME ~ IsUser(b[i]) PROVE \E j \in 1..(i - 1) : j \in S
    OBVIOUS
  <2>1. i # 1
    BY <1>1, <1>5
  <2>2. i \notin GroupStarts(b)
    BY <1>4, <2>1 DEF RealUser
  <2>3. i - 1 \in 1..(n - 1) /\ (i - 1) + 1 = i /\ i - 1 \in 1..(i - 1)
    BY <1>1, <2>1
  <2>4. i - 1 \in S
    BY <1>3, <1>8, <2>2, <2>3
  <2> QED  BY <2>3, <2>4
<1>9. Passes(Keep(b, S), {}, {}) /\ Begins(Keep(b, S)) /\ Keep(b, S) \in Seq(Sided)
  BY <1>1, <1>7, <1>8, KeepPasses, KeepBegins, KeepTyped DEF n
<1>10. CallsOnce(b) => CallsOnce(Keep(b, S))
  BY <1>1, KeepOnce
<1> QED  BY <1>7, <1>9, <1>10 DEF Linked

\* drop_compacted_turns takes out whole groups.
LEMMA DropLinked ==
  ASSUME NEW b, Linked(b), NEW window, NEW limit
  PROVE  /\ Linked(DropTurns(b, window, limit))
         /\ CallsOnce(b) => CallsOnce(DropTurns(b, window, limit))
<1> DEFINE H == HistoryStarts(b)
           out == {s \in ButLast(H, window) : ~HasTool(b, s) /\ Rank(H, s) \in limit}
           S == DOMAIN b \ UNION {Group(b, s) : s \in out}
<1>1. DropTurns(b, window, limit) = Keep(b, S)
  BY Zenon DEF DropTurns
<1>2. b \in Seq(Sided)
  BY DEF Linked
<1>3. out \in SUBSET GroupStarts(b)
  <2>1. HistoryStarts(b) \subseteq GroupStarts(b)
    BY <1>2, StartsIn
  <2> QED  BY <2>1 DEF ButLast
<1> HIDE DEF out
<1>4. Grouped(b, S)
  BY <1>2, <1>3, GroupsGrouped
<1> HIDE DEF S
<1> QED  BY <1>1, <1>4, KeepLinked

\* So does trim_to_upstream_limit.
LEMMA TrimmedLinked ==
  ASSUME NEW b, Linked(b), NEW older \in SUBSET GroupStarts(b)
  PROVE  Linked(Trimmed(b, older))
<1> DEFINE G == GroupStarts(b)
           A == older \union (G \ ButLast(G, 2))
           S == UNION {Group(b, s) : s \in A}
<1>1. Trimmed(b, older) = Keep(b, S)
  BY Zenon DEF Trimmed
<1>2. b \in Seq(Sided)
  BY DEF Linked
<1>3. A \in SUBSET GroupStarts(b)
  OBVIOUS
<1> HIDE DEF A
<1>4. Grouped(b, S)
  BY <1>2, <1>3, GroupsGrouped
<1> HIDE DEF S
<1> QED  BY <1>1, <1>4, KeepLinked

\* A payload whose calls are all answered loses nothing in the clean-up.
LEMMA LinkedWhole ==
  ASSUME NEW b, Linked(b)
  PROVE  WholeCalls(b) = DOMAIN b
<1> DEFINE n == Len(b)
<1>1. b \in Seq(Sided) /\ Passes(b, {}, {}) /\ n \in Nat /\ DOMAIN b = 1..n /\ (b = <<>> <=> n = 0)
  BY DEF Linked
<1>2. b # <<>> => /\ b[1].results = {} /\ b[n].uses = {}
                  /\ \A k \in 1..(n - 1) : b[k].uses = b[k + 1].results
  BY <1>1, PassesIs
<1> HIDE DEF n
<1>3. ASSUME NEW i \in 1..n PROVE b[i].uses \subseteq ResultsOf(b)
  <2>1. CASE i = n
    <3>1. b[i].uses = {}
      BY <1>1, <1>2, <2>1
    <3> QED  BY <3>1
  <2>2. CASE i # n
    <3>1. i \in 1..(n - 1) /\ i + 1 \in 1..n /\ b # <<>>
      BY <1>1, <2>2
    <3>2. b[i].uses = b[i + 1].results
      BY <1>2, <3>1
    <3> QED  BY <1>1, <3>1, <3>2 DEF ResultsOf
  <2> QED  BY <2>1, <2>2
<1>4. ASSUME NEW i \in 1..n PROVE b[i].results \subseteq UsesOf(b)
  <2>1. CASE i = 1
    <3>1. b[i].results = {}
      BY <1>1, <1>2, <2>1
    <3> QED  BY <3>1
  <2>2. CASE i # 1
    <3>1. i - 1 \in 1..(n - 1) /\ i - 1 \in 1..n /\ (i - 1) + 1 = i /\ b # <<>>
      BY <1>1, <2>2
    <3>2. b[i - 1].uses = b[i].results
      BY <1>2, <3>1
    <3> QED  BY <1>1, <3>1, <3>2 DEF UsesOf
  <2> QED  BY <2>1, <2>2
<1> QED  BY <1>1, <1>3, <1>4 DEF WholeCalls

LEMMA CleanupLinked ==
  ASSUME NEW b, Linked(b)
  PROVE  Linked(Cleanup(b))
<1> DEFINE T == Sided
<1>1. b \in Seq(T)
  BY DEF Linked
<1> HIDE DEF T
<1>2. PICK g \in Values(3, Seq(T)) :
           /\ g[0] = b
           /\ \A k \in 1..3 : g[k] = Keep(g[k - 1], WholeCalls(g[k - 1]))
           /\ Cleanup(b) = g[3]
  BY <1>1, CleanupPasses
<1>3. ASSUME NEW x, Linked(x) PROVE Linked(Keep(x, WholeCalls(x)))
  <2>1. x \in Seq(Sided)
    BY <1>3 DEF Linked
  <2>2. Len(x) \in Nat /\ DOMAIN x = 1..Len(x)
    BY <2>1
  <2>3. \A i \in 1..(Len(x) - 1) : i \in DOMAIN x /\ i + 1 \in DOMAIN x
    BY <2>2
  <2>4. Grouped(x, DOMAIN x)
    BY <2>3 DEF Grouped
  <2> QED  BY <1>3, <2>4, KeepLinked, LinkedWhole
<1>4. Linked(g[0])
  BY <1>2
<1>5. g[1] = Keep(g[0], WholeCalls(g[0])) /\ g[2] = Keep(g[1], WholeCalls(g[1]))
      /\ g[3] = Keep(g[2], WholeCalls(g[2]))
  <2>1. 1 \in 1..3 /\ 2 \in 1..3 /\ 3 \in 1..3 /\ 1 - 1 = 0 /\ 2 - 1 = 1 /\ 3 - 1 = 2
    OBVIOUS
  <2> QED  BY <1>2, <2>1
<1>6. Linked(g[1])
  BY <1>3, <1>4, <1>5
<1>7. Linked(g[2])
  BY <1>3, <1>5, <1>6
<1>8. Linked(g[3])
  BY <1>3, <1>5, <1>7
<1> QED  BY <1>2, <1>8

\* x has the roles, the calls and the results of b.
SameLinks(x, b) ==
  /\ Len(x) = Len(b)
  /\ \A i \in 1..Len(b) : x[i].role = b[i].role /\ x[i].uses = b[i].uses
                          /\ x[i].results = b[i].results

LEMMA SameLinked ==
  ASSUME NEW b, Linked(b), NEW x \in Seq(Sided), SameLinks(x, b)
  PROVE  Linked(x) /\ (CallsOnce(b) => CallsOnce(x))
<1> DEFINE n == Len(b)
<1>1. /\ b \in Seq(Sided) /\ Passes(b, {}, {}) /\ Begins(b) /\ n \in Nat /\ (b = <<>> <=> n = 0)
      /\ (x = <<>> <=> n = 0) /\ Len(x) = n
  BY DEF Linked, SameLinks
<1>2. b # <<>> => /\ b[1].results = {} /\ b[n].uses = {}
                  /\ \A k \in 1..(n - 1) : b[k].uses = b[k + 1].results
  BY <1>1, PassesIs
<1>3. \A i \in 1..n : x[i].role = b[i].role /\ x[i].uses = b[i].uses
                          /\ x[i].results = b[i].results
  BY DEF SameLinks
<1>4. b # <<>> => IsUser(b[1])
  BY <1>1 DEF Begins
<1>5. CallsOnce(b) => \A i, j \in 1..n : b[i].uses \intersect b[j].uses # {} => i = j
  BY DEF CallsOnce
<1> HIDE DEF n
<1>6. x # <<>> => 1 \in 1..n /\ n \in 1..n /\ \A k \in 1..(n - 1) : k \in 1..n /\ k + 1 \in 1..n
  BY <1>1
<1>7. Passes(x, {}, {})
  BY <1>1, <1>2, <1>3, <1>6 DEF Passes
<1>8. Begins(x)
  BY <1>1, <1>3, <1>4, <1>6 DEF Begins, IsUser
<1>9. CallsOnce(b) => CallsOnce(x)
  BY <1>1, <1>3, <1>5 DEF CallsOnce
<1> QED  BY <1>7, <1>8, <1>9 DEF Linked

\* Replaced outputs are results still.
LEMMA StubOutputsLinked ==
  ASSUME NEW b, Linked(b), NEW S
  PROVE  Linked(StubOutputs(b, S)) /\ (CallsOnce(b) => CallsOnce(StubOutputs(b, S)))
<1> DEFINE x == StubOutputs(b, S)
<1>1. b \in Seq(Sided) /\ DOMAIN b = 1..Len(b) /\ Len(b) \in Nat
      /\ \A i \in 1..Len(b) : b[i] \in Sided
  BY DEF Linked
<1>2. \A i \in 1..Len(b) : x[i] = IF i \in S THEN [b[i] EXCEPT !.stubbed = b[i].results] ELSE b[i]
  BY <1>1 DEF StubOutputs
<1>3. x = [i \in 1..Len(b) |-> x[i]]
  BY <1>1 DEF StubOutputs
<1> HIDE DEF x
<1>4. ASSUME NEW i \in 1..Len(b)
      PROVE  /\ x[i] \in Sided /\ x[i].role = b[i].role /\ x[i].uses = b[i].uses
             /\ x[i].results = b[i].results
  <2> DEFINE m == b[i]
             c == [m EXCEPT !.stubbed = m.results]
  <2>1. m \in Messages /\ (IsUser(m) => m.uses = {}) /\ (~ IsUser(m) => m.results = {})
        /\ (m.mark \/ m.refs # {} => Plain(m))
    BY <1>1 DEF Sided
  <2>2. x[i] = c \/ x[i] = m
    BY <1>2
  <2> HIDE DEF m
  <2>3. c \in Messages /\ c.role = m.role /\ c.uses = m.uses /\ c.results = m.results
        /\ c.refs = m.refs
    BY <2>1 DEF Messages
  <2>4. c.mark = m.mark
    BY <2>1, Zenon DEF Messages
  <2> HIDE DEF c
  <2>5. c \in Sided
    BY <2>1, <2>3, <2>4 DEF Sided, Plain, IsUser
  <2>6. m \in Sided
    BY <2>1 DEF Sided
  <2> QED  BY <2>2, <2>3, <2>5, <2>6 DEF m
<1>5. x \in Seq(Sided) /\ Len(x) = Len(b)
  BY <1>1, <1>3, <1>4, SequenceBuilt
<1>6. SameLinks(x, b)
  BY <1>4, <1>5 DEF SameLinks
<1> QED  BY <1>5, <1>6, SameLinked DEF x

\* The links are all that matters.
LEMMA SamePasses ==
  ASSUME NEW T, NEW b \in Seq(T), NEW x \in Seq(T), SameLinks(x, b), NEW u, NEW v
  PROVE  /\ Passes(b, u, v) => Passes(x, u, v)
         /\ Begins(b) => Begins(x)
         /\ CallsOnce(b) => CallsOnce(x)
<1> DEFINE n == Len(b)
<1>1. /\ n \in Nat /\ (b = <<>> <=> n = 0) /\ (x = <<>> <=> n = 0) /\ Len(x) = n
  BY DEF SameLinks
<1>3. \A i \in 1..n : x[i].role = b[i].role /\ x[i].uses = b[i].uses
                          /\ x[i].results = b[i].results
  BY DEF SameLinks
<1>5. CallsOnce(b) => \A i, j \in 1..n : b[i].uses \intersect b[j].uses # {} => i = j
  BY DEF CallsOnce
<1> HIDE DEF n
<1>6. x # <<>> => 1 \in 1..n /\ n \in 1..n /\ \A k \in 1..(n - 1) : k \in 1..n /\ k + 1 \in 1..n
  BY <1>1
<1>7. ASSUME Passes(b, u, v) PROVE Passes(x, u, v)
  <2>1. CASE b = <<>>
    BY <1>1, <1>7, <2>1 DEF Passes
  <2>2. CASE b # <<>>
    <3>1. /\ b[1].results = u /\ b[n].uses = v
          /\ \A k \in 1..(n - 1) : b[k].uses = b[k + 1].results
      BY <1>7, <2>2, PassesIs DEF n
    <3> QED  BY <1>1, <1>3, <1>6, <2>2, <3>1 DEF Passes
  <2> QED  BY <2>1, <2>2
<1>8. ASSUME Begins(b) PROVE Begins(x)
  BY <1>1, <1>3, <1>6, <1>8 DEF Begins, IsUser
<1>9. CallsOnce(b) => CallsOnce(x)
  BY <1>1, <1>3, <1>5 DEF CallsOnce
<1> QED  BY <1>7, <1>8, <1>9

\* A piece of one message.
LEMMA OnePasses ==
  ASSUME NEW T, NEW m \in T
  PROVE  /\ Passes(<<m>>, m.results, m.uses) /\ CallsOnce(<<m>>)
         /\ <<m>> \in Seq(T) /\ Len(<<m>>) = 1 /\ <<m>>[1] = m /\ <<m>> # <<>>
<1> DEFINE x == <<m>>
<1>1. x \in Seq(T) /\ Len(x) = 1 /\ x[1] = m /\ x # <<>> /\ 1..(1 - 1) = {}
  OBVIOUS
<1>2. \A i, j \in 1..1 : i = j
  OBVIOUS
<1> HIDE DEF x
<1>3. Passes(x, m.results, m.uses) /\ CallsOnce(x)
  BY <1>1, <1>2 DEF Passes, CallsOnce
<1> QED  BY <1>1, <1>3 DEF x

LEMMA JoinedSided ==
  ASSUME NEW m \in Sided, NEW n \in Sided, Plain(m), Plain(n)
  PROVE  Joined(m, n) \in Sided
<1> DEFINE j == Joined(m, n)
<1>1. m \in Messages /\ n \in Messages
  BY DEF Sided
<1>2. j \in Messages /\ j.uses = m.uses /\ j.results = m.results
  BY <1>1, JoinedIs
<1> HIDE DEF j
<1>3. j \in Sided
  BY <1>2 DEF Sided, Plain
<1> QED  BY <1>3 DEF j

LEMMA MergeLinked ==
  ASSUME NEW b, Linked(b)
  PROVE  /\ Linked(MergeConversational(b))
         /\ CallsOnce(b) => CallsOnce(MergeConversational(b))
<1> DEFINE n == Len(b)
           T == Sided
           U == Seq(T)
           c == [k \in 0..n |-> IF k = 0 THEN {} ELSE b[k].uses]
<1>1. b \in Seq(T) /\ Passes(b, {}, {}) /\ Begins(b) /\ n \in Nat /\ (\A i \in 1..n : b[i] \in T)
      /\ (b = <<>> <=> n = 0)
  BY DEF Linked
<1>2. b # <<>> => /\ b[1].results = {} /\ b[n].uses = {}
                  /\ \A k \in 1..(n - 1) : b[k].uses = b[k + 1].results
  BY <1>1, PassesIs
<1>3. \A x, y \in T : x.role = y.role /\ Plain(x) /\ Plain(y) => Joined(x, y) \in T
  BY JoinedSided
<1>4. c[0] = {} /\ \A k \in 1..n : c[k] = b[k].uses
  BY <1>1
<1>5. b # <<>> => IsUser(b[1])
  BY <1>1 DEF Begins
<1>6. CallsOnce(b) => \A i, j \in 1..n : b[i].uses \intersect b[j].uses # {} => i = j
  BY DEF CallsOnce
<1> HIDE DEF c, T
<1>7. PICK g \in Values(n, U) :
            /\ g[0] = <<>>
            /\ \A k \in 1..n : g[k] = MergeStep(g[k - 1], b[k])
            /\ MergeConversational(b) = g[n]
  BY <1>1, <1>3, MergeFolds
<1> HIDE DEF n
<1>8. ASSUME NEW k \in 1..n PROVE b[k].results = c[k - 1]
  <2>1. CASE k = 1
    <3>1. k - 1 = 0
      BY <2>1
    <3>2. c[k - 1] = {}
      BY <1>4, <3>1
    <3>3. b # <<>>
      BY <1>1
    <3> QED  BY <1>2, <2>1, <3>2, <3>3
  <2>2. CASE k # 1
    <3>1. k - 1 \in 1..(n - 1) /\ k - 1 \in 1..n /\ (k - 1) + 1 = k /\ b # <<>>
      BY <1>1, <2>2
    <3> QED  BY <1>2, <1>4, <3>1
  <2> QED  BY <2>1, <2>2
<1> DEFINE From2(x, k) == \A a \in 1..Len(x) : x[a].uses = {} \/ \E i \in 1..k : x[a].uses = b[i].uses
           OK(x, k) == /\ Passes(x, {}, c[k]) /\ Begins(x) /\ From2(x, k)
                       /\ (CallsOnce(b) => CallsOnce(x)) /\ (k > 0 => x # <<>>)
           P == {k \in 0..n : OK(g[k], k)}
<1>9. 0 \in P
  <2>1. Len(g[0]) = 0 /\ g[0] = <<>> /\ 0 \in 0..n
    BY <1>1, <1>7
  <2> QED  BY <1>4, <2>1 DEF CallsOnce, Passes, Begins
<1>10. ASSUME NEW k \in 1..n, k - 1 \in P PROVE k \in P
  <2> DEFINE acc == g[k - 1]
             x == b[k]
             top == acc[Len(acc)]
             joins == /\ acc # <<>> /\ top.role = x.role
                      /\ Plain(top) /\ Plain(x)
             j == Joined(top, x)
             y == [acc EXCEPT ![Len(acc)] = j]
             z == Append(acc, x)
  <2>1. k \in 0..n /\ k - 1 \in 0..n /\ x \in T
    BY <1>1
  <2>2. acc \in U
    BY <1>7, <2>1 DEF Values
  <2>3. g[k] = IF joins THEN y ELSE z
    <3>1. g[k] = MergeStep(acc, x)
      BY <1>7
    <3> QED  BY <3>1, Zenon DEF MergeStep
  <2>4. OK(acc, k - 1)
    BY <1>10
  <2>5. x.results = c[k - 1] /\ x.uses = c[k]
    BY <1>4, <1>8
  <2> HIDE DEF acc, x
  <2>6. CASE joins
    <3>1. Len(acc) \in 1..Len(acc) /\ Len(acc) \in Nat /\ top \in T /\ acc \in Seq(T)
      BY <2>2, <2>6
    <3> HIDE DEF top
    <3>2. j \in T /\ j.role = top.role /\ j.uses = top.uses /\ j.results = top.results
      <4>1. top \in Messages /\ x \in Messages
        BY <2>1, <3>1 DEF T, Sided
      <4>2. j.role = top.role /\ j.uses = top.uses /\ j.results = top.results
        BY <4>1, JoinedIs
      <4>3. j \in T
        BY <1>3, <2>1, <2>6, <3>1
      <4> QED  BY <4>2, <4>3
    <3> HIDE DEF j
    <3>3. y \in Seq(T) /\ Len(y) = Len(acc) /\ \A a \in 1..Len(acc) : y[a] = IF a = Len(acc) THEN j ELSE acc[a]
      BY <3>1, <3>2
    <3> HIDE DEF y
    <3>4. SameLinks(y, acc)
      BY <3>1, <3>2, <3>3 DEF SameLinks, top
    <3>5. c[k - 1] = {} /\ c[k] = {}
      <4>1. x.results = {} /\ x.uses = {}
        BY <2>6 DEF Plain
      <4> QED  BY <2>5, <4>1
    <3>6. Passes(acc, {}, c[k - 1]) /\ Begins(acc) /\ (CallsOnce(b) => CallsOnce(acc))
      BY <2>4
    <3>7. Passes(y, {}, c[k - 1]) /\ Begins(y) /\ (CallsOnce(b) => CallsOnce(y))
      BY <3>1, <3>3, <3>4, <3>6, SamePasses
    <3>8. Passes(y, {}, c[k])
      BY <3>5, <3>7
    <3>9. From2(y, k)
      <4> SUFFICES ASSUME NEW a \in 1..Len(y) PROVE y[a].uses = {} \/ \E i \in 1..k : y[a].uses = b[i].uses
        OBVIOUS
      <4>1. a \in 1..Len(acc) /\ y[a].uses = acc[a].uses
        BY <3>3, <3>4 DEF SameLinks
      <4>2. acc[a].uses = {} \/ \E i \in 1..(k - 1) : acc[a].uses = b[i].uses
        BY <2>4, <4>1
      <4>3. \A i \in 1..(k - 1) : i \in 1..k
        BY <1>1
      <4> QED  BY <4>1, <4>2, <4>3
    <3>10. y # <<>>
      BY <3>1, <3>3
    <3> HIDE DEF From2
    <3>11. OK(y, k)
      BY <3>7, <3>8, <3>9, <3>10
    <3> QED  BY <2>1, <2>3, <2>6, <3>11
  <2>7. CASE ~ joins
    <3> DEFINE p == <<x>>
    <3>1. Passes(p, c[k - 1], c[k]) /\ CallsOnce(p) /\ p \in Seq(T) /\ Len(p) = 1 /\ p[1] = x
      BY <2>1, <2>5, OnePasses
    <3>2. z = acc \o p /\ acc \in Seq(T)
      BY <2>1, <2>2
    <3> HIDE DEF p, z, joins
    <3>3. /\ Len(z) = Len(acc) + 1 /\ Len(acc) \in Nat
          /\ (\A a \in 1..Len(acc) : z[a] = acc[a]) /\ z[Len(acc) + 1] = x
      <4>1. 1 \in 1..1
        OBVIOUS
      <4>2. /\ Len(acc \o p) = Len(acc) + Len(p) /\ Len(acc) \in Nat
            /\ (\A a \in 1..Len(acc) : (acc \o p)[a] = acc[a])
            /\ \A a \in 1..Len(p) : (acc \o p)[Len(acc) + a] = p[a]
        <5>1. acc \in Seq(T) /\ p \in Seq(T)
          BY <3>1, <3>2
        <5> QED  BY ONLY <5>1, Concatenated
      <4>3. /\ Len(z) = Len(acc) + Len(p) /\ Len(acc) \in Nat
            /\ (\A a \in 1..Len(acc) : z[a] = acc[a])
            /\ \A a \in 1..Len(p) : z[Len(acc) + a] = p[a]
        BY <3>2, <4>2
      <4> HIDE DEF z
      <4> QED  BY <3>1, <4>1, <4>3
    <3>4. Passes(acc, {}, c[k - 1]) /\ Begins(acc) /\ (CallsOnce(b) => CallsOnce(acc)) /\ From2(acc, k - 1)
          /\ (k - 1 > 0 => acc # <<>>)
      BY <2>4
    <3>5. Passes(z, {}, c[k])
      BY <3>1, <3>2, <3>4, PassesConcat
    <3>6. Begins(z)
      <4>1. CASE acc = <<>>
        <5>1. k = 1
          BY <1>1, <3>4, <4>1
        <5>2. IsUser(x)
          BY <1>1, <1>5, <5>1 DEF x
        <5>3. z[1] = x
          <6>1. Len(acc) = 0
            BY <4>1
          <6> QED  BY <3>3, <6>1
        <5> QED  BY <5>2, <5>3 DEF Begins
      <4>2. CASE acc # <<>>
        <5>1. 1 \in 1..Len(acc)
          BY <3>2, <4>2
        <5> QED  BY <3>3, <3>4, <4>2, <5>1 DEF Begins
      <4> QED  BY <4>1, <4>2
    <3>7. CallsOnce(b) => CallsOnce(z)
      <4> SUFFICES ASSUME CallsOnce(b) PROVE CallsOnce(z)
        OBVIOUS
      <4>1. ASSUME NEW a \in 1..Len(acc) PROVE acc[a].uses \intersect x.uses = {}
        <5>1. acc[a].uses = {} \/ \E i \in 1..(k - 1) : acc[a].uses = b[i].uses
          BY <3>4
        <5>2. ASSUME NEW i \in 1..(k - 1), acc[a].uses = b[i].uses
              PROVE  acc[a].uses \intersect x.uses = {}
          <6>1. i \in 1..n /\ i # k
            BY <1>1
          <6> QED  BY <1>6, <5>2, <6>1 DEF x
        <5> QED  BY <5>1, <5>2
      <4>2. Apart(acc, p)
        <5>1. \A a \in 1..1 : a = 1
          OBVIOUS
        <5> QED  BY <3>1, <4>1, <5>1 DEF Apart
      <4> QED  BY <3>1, <3>2, <3>4, <4>2, OnceConcat
    <3>8. From2(z, k)
      <4> SUFFICES ASSUME NEW a \in 1..Len(z) PROVE z[a].uses = {} \/ \E i \in 1..k : z[a].uses = b[i].uses
        OBVIOUS
      <4>1. a \in 1..Len(acc) \/ a = Len(acc) + 1
        BY <3>3
      <4>2. CASE a \in 1..Len(acc)
        <5>1. z[a] = acc[a]
          BY <3>3, <4>2
        <5>2. acc[a].uses = {} \/ \E i \in 1..(k - 1) : acc[a].uses = b[i].uses
          BY <3>4, <4>2
        <5>3. \A i \in 1..(k - 1) : i \in 1..k
          BY <1>1
        <5> QED  BY <5>1, <5>2, <5>3
      <4>3. CASE a = Len(acc) + 1
        <5>1. z[a].uses = b[k].uses /\ k \in 1..k
          BY <3>3, <4>3 DEF x
        <5> QED  BY <5>1
      <4> QED  BY <4>1, <4>2, <4>3
    <3>9. z # <<>>
      <4>1. Len(z) # 0
        BY <3>3
      <4> QED  BY <4>1
    <3> HIDE DEF From2
    <3>10. OK(z, k)
      BY <3>5, <3>6, <3>7, <3>8, <3>9
    <3> QED  BY <2>1, <2>3, <2>7, <3>10
  <2> QED  BY <2>6, <2>7
<1> HIDE DEF P
<1>11. P = 0..n
  <2>1. P \in SUBSET (0..n)
    BY DEF P
  <2> QED  BY <1>1, <1>9, <1>10, <2>1, Stepwise
<1>12. n \in P
  BY <1>1, <1>11
<1>13. c[n] = {}
  <2>1. CASE n = 0
    BY <1>4, <2>1
  <2>2. CASE n # 0
    <3>1. n \in 1..n /\ b # <<>>
      BY <1>1, <2>2
    <3> QED  BY <1>2, <1>4, <3>1
  <2> QED  BY <2>1, <2>2
<1>14. g[n] \in U
  BY <1>1, <1>7 DEF Values
<1> HIDE DEF From2
<1>15. OK(g[n], n)
  BY <1>12 DEF P
<1> QED  BY <1>7, <1>13, <1>14, <1>15 DEF Linked, U, T

-----------------------------------------------------------------------------
(* The client's payload.                                                   *)

\* The client answers each call with the next message.
LEMMA TurnLinked ==
  ASSUME History, NEW t \in 1..Len(turns)
  PROVE  LET x == TurnMessages(t)
         IN  /\ x \in Seq(Sided) /\ x # <<>> /\ IsUser(x[1])
             /\ Passes(x, {}, {}) /\ CallsOnce(x)
             /\ \A p \in 1..Len(x) : x[p].uses \subseteq {t}
<1> DEFINE x == TurnMessages(t)
           form == turns[t].form
           answered == turns[t].answered
           N == Len(x)
           c == CallAt(form)
<1>1. /\ form \in Forms /\ answered \in BOOLEAN /\ x \in Seq(Messages) /\ N \in 1..5
      /\ IsUser(x[1]) /\ N = (IF answered THEN Opens(form) + 1 ELSE Opens(form))
      /\ \A p \in 1..N : SaidMessage(x[p], t, form, answered, p)
  BY TurnIs, Zenon
<1>2. x = <<>> <=> N = 0
  BY <1>1
<1> HIDE DEF x, N, form, answered
<1>3. \/ form = "ask" /\ c = 0 /\ Opens(form) = 1
      \/ form # "ask" /\ c \in 2..3 /\ Opens(form) = c + 1
  BY <1>1, FormAssumption DEF Forms, CallAt, Opens
<1> HIDE DEF c
<1>4. N \in Nat /\ N > c /\ N >= 1
  BY <1>1, <1>3
<1>5. ASSUME NEW p \in 1..N
      PROVE  /\ x[p] \in Messages /\ x[p].refs = {} /\ ~ x[p].mark
             /\ x[p].role = (IF p = 1 \/ (form # "ask" /\ p = c + 1) THEN "user" ELSE "assistant")
             /\ x[p].uses = (IF p = c THEN {t} ELSE {})
             /\ x[p].results = (IF form # "ask" /\ p = c + 1 THEN {t} ELSE {})
  <2>1. SaidMessage(x[p], t, form, answered, p)
    BY <1>1
  <2> DEFINE m == x[p]
  <2> HIDE DEF m
  <2>2. SaidMessage(m, t, form, answered, p)
    BY <2>1 DEF m
  <2>3. m \in Messages /\ m.refs = {} /\ ~ m.mark
    BY <2>2 DEF SaidMessage, Sent
  <2>4. /\ m.role = (IF p = 1 \/ (form # "ask" /\ p = c + 1) THEN "user" ELSE "assistant")
        /\ m.uses = (IF p = c THEN {t} ELSE {})
        /\ m.results = (IF form # "ask" /\ p = c + 1 THEN {t} ELSE {})
    BY <2>2 DEF SaidMessage, Role, c
  <2> QED  BY <2>3, <2>4 DEF m
<1>6. ASSUME NEW p \in 1..N PROVE x[p] \in Sided
  <2> DEFINE m == x[p]
  <2>1. /\ m \in Messages /\ m.refs = {} /\ ~ m.mark
        /\ m.role = (IF p = 1 \/ (form # "ask" /\ p = c + 1) THEN "user" ELSE "assistant")
        /\ m.uses = (IF p = c THEN {t} ELSE {})
        /\ m.results = (IF form # "ask" /\ p = c + 1 THEN {t} ELSE {})
    BY <1>5
  <2> HIDE DEF m
  <2>2. IsUser(m) => m.uses = {}
    BY <1>3, <2>1 DEF IsUser
  <2>3. ~ IsUser(m) => m.results = {}
    BY <1>3, <2>1 DEF IsUser
  <2> QED  BY <2>1, <2>2, <2>3 DEF Sided, m
<1>7. x \in Seq(Sided)
  BY <1>1, <1>6 DEF N
<1>8. x # <<>>
  BY <1>2, <1>4
<1>9. Passes(x, {}, {})
  <2>1. 1 \in 1..N /\ N \in 1..N /\ \A k \in 1..(N - 1) : k \in 1..N /\ k + 1 \in 1..N
    BY <1>4
  <2>2. x[1].results = {}
    BY <1>3, <1>5, <2>1
  <2>3. x[N].uses = {}
    BY <1>4, <1>5, <2>1
  <2>4. ASSUME NEW k \in 1..(N - 1) PROVE x[k].uses = x[k + 1].results
    <3>1. x[k].uses = (IF k = c THEN {t} ELSE {})
      BY <1>5, <2>1
    <3>2. x[k + 1].results = (IF form # "ask" /\ k + 1 = c + 1 THEN {t} ELSE {})
      BY <1>5, <2>1
    <3>3. k = c => form # "ask"
      BY <1>3
    <3>4. k + 1 = c + 1 <=> k = c
      BY <1>3
    <3> QED  BY <3>1, <3>2, <3>3, <3>4
  <2> QED  BY <1>8, <2>2, <2>3, <2>4 DEF Passes, N
<1>10. CallsOnce(x)
  <2> SUFFICES ASSUME NEW i \in 1..N, NEW j \in 1..N, x[i].uses \intersect x[j].uses # {}
               PROVE  i = j
    BY DEF CallsOnce, N
  <2>1. i = c /\ j = c
    BY <1>5
  <2> QED  BY <2>1
<1>11. \A p \in 1..N : x[p].uses \subseteq {t}
  BY <1>5
<1> QED  BY <1>1, <1>7, <1>8, <1>9, <1>10, <1>11 DEF x, N

LEMMA ClientLinked ==
  ASSUME History, NEW n \in Nat
  PROVE  Linked(Client(n)) /\ CallsOnce(Client(n))
<1> DEFINE f == Told(n)
           N == Len(turns)
           U == Seq(Sided)
<1>1. /\ f \in Seq(Seq(Raw(n))) /\ Len(f) = N /\ Client(n) = FlattenSeq(f)
      /\ (\A t \in 1..N : f[t] = IF t > n THEN TurnMessages(t) ELSE <<>>)
      /\ N \in Nat
  BY ToldTyped
<1>2. f = [t \in 1..N |-> f[t]]
  BY <1>1
<1>3. ASSUME NEW t \in 1..N
      PROVE  /\ f[t] \in U /\ Passes(f[t], {}, {}) /\ CallsOnce(f[t])
             /\ f[t] # <<>> => IsUser(f[t][1])
             /\ \A p \in 1..Len(f[t]) : f[t][p].uses \subseteq {t}
  <2>1. CASE t > n
    <3> DEFINE x == TurnMessages(t)
    <3>1. /\ x \in U /\ Passes(x, {}, {}) /\ CallsOnce(x) /\ IsUser(x[1])
          /\ \A p \in 1..Len(x) : x[p].uses \subseteq {t}
      BY TurnLinked
    <3>2. f[t] = x
      BY <1>1, <2>1
    <3> HIDE DEF x, f, U
    <3> QED  BY <3>1, <3>2
  <2>2. CASE ~ (t > n)
    <3> DEFINE x == <<>>
    <3>1. x \in U /\ x = <<>> /\ Len(x) = 0
      BY EmptySeq
    <3>2. f[t] = x
      BY <1>1, <2>2
    <3> HIDE DEF x, f, U
    <3>3. Passes(x, {}, {}) /\ CallsOnce(x)
      BY <3>1 DEF Passes, CallsOnce
    <3> QED  BY <3>1, <3>2, <3>3
  <2> QED  BY <2>1, <2>2
<1> HIDE DEF f, N, U
<1>4. f \in Seq(U) /\ Len(f) = N
  BY <1>1, <1>2, <1>3, SequenceBuilt
<1>5. f \in Seq(Seq(Sided))
  BY <1>4 DEF U
<1>6. FlattenSeq(f) \in Seq(Sided)
  BY <1>5, FlattenTyped
<1>7. Passes(FlattenSeq(f), {}, {})
  <2> DEFINE c == [k \in 0..N |-> {}]
  <2>1. \A i \in 1..N : c[i - 1] = {} /\ c[i] = {}
    BY <1>1
  <2>2. c[0] = {} /\ c[N] = {}
    BY <1>1
  <2> HIDE DEF c
  <2>3. \A i \in 1..Len(f) : Passes(f[i], c[i - 1], c[i])
    BY <1>3, <1>4, <2>1
  <2>4. Passes(FlattenSeq(f), c[0], c[Len(f)])
    BY <1>5, <2>3, FlattenPasses
  <2> QED  BY <1>4, <2>2, <2>4
<1>8. Begins(FlattenSeq(f))
  BY <1>3, <1>4, <1>5, FlattenBegins
<1>9. CallsOnce(FlattenSeq(f))
  <2>1. ASSUME NEW i \in 1..N, NEW j \in 1..N, i < j, NEW k \in 1..Len(f[i]), NEW l \in 1..Len(f[j])
        PROVE  f[i][k].uses \intersect f[j][l].uses = {}
    <3>1. i # j
      BY <1>1, <2>1
    <3>2. f[i][k].uses \subseteq {i} /\ f[j][l].uses \subseteq {j}
      BY <1>3
    <3> QED  BY <3>1, <3>2
  <2> QED  BY <1>3, <1>4, <1>5, <2>1, FlattenOnce
<1> QED  BY <1>1, <1>6, <1>7, <1>8, <1>9 DEF Linked

-----------------------------------------------------------------------------
(* Stubs and recovered chains.                                             *)

\* Pieces of which each is a payload by itself.
LEMMA LinkedConcat ==
  ASSUME NEW x, NEW y, Linked(x), Linked(y)
  PROVE  Linked(x \o y)
<1> DEFINE T == Sided
<1>1. /\ x \in Seq(T) /\ Passes(x, {}, {}) /\ Begins(x)
      /\ y \in Seq(T) /\ Passes(y, {}, {}) /\ Begins(y)
  BY DEF Linked
<1> HIDE DEF T
<1>2. Passes(x \o y, {}, {})
  BY <1>1, PassesConcat
<1>3. x \o y \in Seq(T)
  BY <1>1, Concatenated
<1>4. Begins(x \o y)
  <2>1. CASE x = <<>>
    <3>1. x \o y = y
      BY <1>1, <2>1
    <3> QED  BY <1>1, <3>1
  <2>2. CASE x # <<>>
    <3>1. (x \o y)[1] = x[1]
      BY <1>1, <2>2
    <3>2. IsUser(x[1])
      BY <1>1, <2>2 DEF Begins
    <3> QED  BY <3>1, <3>2 DEF Begins
  <2> QED  BY <2>1, <2>2
<1> QED  BY <1>2, <1>3, <1>4 DEF Linked, T

LEMMA LinkedEmpty == Linked(<<>>) /\ CallsOnce(<<>>)
<1> DEFINE x == <<>>
<1>1. x \in Seq(Sided) /\ x = <<>> /\ Len(x) = 0
  OBVIOUS
<1> HIDE DEF x
<1>2. Linked(x) /\ CallsOnce(x)
  BY <1>1 DEF Linked, Passes, Begins, CallsOnce
<1> QED  BY <1>2 DEF x

LEMMA FlattenLinked ==
  ASSUME NEW ss, NEW n \in Nat, ss = [i \in 1..n |-> ss[i]], \A i \in 1..n : Linked(ss[i])
  PROVE  Linked(FlattenSeq(ss))
<1> DEFINE U == Seq(Sided)
<1>1. \A i \in 1..n : ss[i] \in U /\ Passes(ss[i], {}, {}) /\ Begins(ss[i])
  BY DEF Linked
<1> HIDE DEF U
<1>2. ss \in Seq(U) /\ Len(ss) = n
  BY <1>1, SequenceBuilt
<1>3. ss \in Seq(Seq(Sided))
  BY <1>2 DEF U
<1>4. FlattenSeq(ss) \in Seq(Sided)
  BY <1>3, FlattenTyped
<1>5. Passes(FlattenSeq(ss), {}, {})
  <2> DEFINE c == [k \in 0..n |-> {}]
  <2>1. \A i \in 1..n : c[i - 1] = {} /\ c[i] = {}
    OBVIOUS
  <2>2. c[0] = {} /\ c[n] = {}
    OBVIOUS
  <2> HIDE DEF c
  <2>3. \A i \in 1..Len(ss) : Passes(ss[i], c[i - 1], c[i])
    BY <1>1, <1>2, <2>1
  <2>4. Passes(FlattenSeq(ss), c[0], c[Len(ss)])
    BY <1>3, <2>3, FlattenPasses
  <2> QED  BY <1>2, <2>2, <2>4
<1>6. Begins(FlattenSeq(ss))
  <2>1. \A i \in 1..n : ss[i] # <<>> => IsUser(ss[i][1])
    BY <1>1 DEF Begins
  <2> QED  BY <1>2, <1>3, <2>1, FlattenBegins
<1> QED  BY <1>4, <1>5, <1>6 DEF Linked

\* A stub pair makes no calls.
LEMMA StubPairLinked ==
  ASSUME NEW ref \in Refs
  PROVE  Linked(StubPair(ref)) /\ StubPair(ref) # <<>> /\ IsUser(StubPair(ref)[1])
<1> DEFINE u == [role |-> "user", of |-> <<>>, text |-> TRUE, uses |-> {}, results |-> {},
                 stubbed |-> {}, mark |-> TRUE, refs |-> {}]
           a == [role |-> "assistant", of |-> <<>>, text |-> TRUE, uses |-> {}, results |-> {},
                 stubbed |-> {}, mark |-> TRUE, refs |-> {ref}]
           x == <<u, a>>
<1>1. <<>> \in Seq(Id) /\ {ref} \in SUBSET Refs /\ {} \in SUBSET Refs
  OBVIOUS
<1>2. u \in Messages /\ a \in Messages
  BY <1>1, MessageBuilt
<1>3. u.role = "user" /\ u.uses = {} /\ u.results = {} /\ a.role = "assistant"
      /\ a.uses = {} /\ a.results = {}
  OBVIOUS
<1>4. StubPair(ref) = x
  BY Zenon DEF StubPair
<1> HIDE DEF u, a
<1>5. u \in Sided /\ a \in Sided
  BY <1>2, <1>3 DEF Sided, Plain
<1>6. x \in Seq(Sided) /\ Len(x) = 2 /\ x[1] = u /\ x[2] = a /\ x # <<>>
  BY <1>5
<1> HIDE DEF x
<1>7. Passes(x, {}, {})
  <2>1. \A k \in 1..(2 - 1) : k = 1 /\ k + 1 = 2
    OBVIOUS
  <2> QED  BY <1>3, <1>6, <2>1 DEF Passes
<1>8. IsUser(x[1])
  BY <1>3, <1>6 DEF IsUser
<1> QED  BY <1>4, <1>6, <1>7, <1>8 DEF Linked, Begins

LEMMA RecoveredLinked ==
  ASSUME History, NEW H, NEW result \in Backed(H), NEW cached
  PROVE  Linked(Recovered(result, cached))
<1> DEFINE n == Len(turns)
           f == [t \in 1..n |-> RecoveredPart(result, cached, t)]
           back == RecoveredBack(result, cached)
<1>1. n \in Nat
  BY DEF History
<1>2. Recovered(result, cached) = FlattenSeq(f)
  <2> DEFINE O == {}
  <2> HIDE DEF O
  <2> QED  BY RecoveredTyped
<1>3. back \subseteq Refs
  <2>1. result \in Loops(H) /\ result.cache.manifest \subseteq result.rows
    BY DEF Backed
  <2>2. result.rows \in SUBSET Refs
    BY <2>1, LoopFields
  <2> QED  BY <2>1, <2>2 DEF RecoveredBack
<1>4. ASSUME NEW t \in 1..n PROVE Linked(RecoveredPart(result, cached, t))
  <2> DEFINE R == {r \in back : r.canon = t - 1}
             x == CHOOSE r \in R : TRUE
  <2>1. RecoveredPart(result, cached, t) = IF R = {} THEN <<>> ELSE StubPair(x)
    BY Zenon DEF RecoveredPart
  <2>2. R # {} => x \in R
    OBVIOUS
  <2>3. R # {} => x \in Refs
    <3> HIDE DEF back, x
    <3> QED  BY <1>3, <2>2
  <2> HIDE DEF R, x
  <2> QED  BY <2>1, <2>3, StubPairLinked, LinkedEmpty
<1>5. f = [t \in 1..n |-> f[t]] /\ \A t \in 1..n : f[t] = RecoveredPart(result, cached, t)
  OBVIOUS
<1> HIDE DEF f, n
<1> QED  BY <1>1, <1>2, <1>4, <1>5, FlattenLinked

\* Collapsing replaces whole groups, and no result that stays loses its call.
LEMMA CollapsedLinked ==
  ASSUME NEW b, Linked(b), CallsOnce(b), NEW out \in SUBSET GroupStarts(b), NEW stubs,
         DOMAIN stubs \subseteq out, \A s \in DOMAIN stubs : stubs[s] \in Refs
  PROVE  Linked(Collapsed(b, out, stubs))
<1> DEFINE n == Len(b)
           gone == Gone(b, out)
           S == DOMAIN b \ gone
           part(i) == CollapsedPart(b, out, stubs, i)
           f == [i \in 1..n |-> part(i)]
           c == [i \in 0..n |-> IF i \in 1..n /\ i \in S THEN b[i].uses ELSE {}]
<1>1. /\ b \in Seq(Sided) /\ Passes(b, {}, {}) /\ Begins(b) /\ n \in Nat /\ DOMAIN b = 1..n
      /\ (b = <<>> <=> n = 0) /\ \A i \in 1..n : b[i] \in Sided
  BY DEF Linked
<1>2. b # <<>> => /\ b[1].results = {} /\ b[n].uses = {}
                  /\ \A k \in 1..(n - 1) : b[k].uses = b[k + 1].results
  BY <1>1, PassesIs
<1>3. GroupStarts(b) = {i \in 1..n : i = 1 \/ RealUser(b[i])}
  BY <1>1 DEF GroupStarts
<1>4. Grouped(b, S)
  BY <1>1, GroupsGrouped DEF Gone
<1>5. Unsplit(b, S)
  BY <1>4, KeepLinked
<1>6. \A i \in 1..(n - 1) : b[i].uses # {} => (i \in S <=> i + 1 \in S)
  BY <1>5 DEF Unsplit
<1>7. \A i \in 1..(n - 1) : i + 1 \notin GroupStarts(b) => (i \in S <=> i + 1 \in S)
  BY <1>4 DEF Grouped
<1>8. \A i, j \in 1..n : b[i].uses \intersect b[j].uses # {} => i = j
  BY DEF CallsOnce
<1>9. \A i \in DOMAIN stubs : i \in gone /\ i \in GroupStarts(b)
  <2> TAKE i \in DOMAIN stubs
  <2>1. i \in out /\ i \in GroupStarts(b)
    OBVIOUS
  <2>2. i \in Group(b, i)
    BY <1>1, <1>3, <2>1, GroupIs
  <2> QED  BY <2>1, <2>2 DEF Gone
<1>10. Collapsed(b, out, stubs) = FlattenSeq(f)
  BY <1>1, CollapsedIs
<1>11. b # <<>> => IsUser(b[1])
  BY <1>1 DEF Begins
<1>12. c[0] = {} /\ \A i \in 1..n : c[i] = IF i \in S THEN b[i].uses ELSE {}
  BY <1>1
<1> HIDE DEF c
<1>13. ASSUME NEW i \in 1..n, i \in S PROVE part(i) = <<b[i]>>
  <2> DEFINE calls == UNION {b[j].uses : j \in gone}
  <2>1. i \notin DOMAIN stubs /\ i \notin gone
    BY <1>9, <1>13
  <2>2. part(i) = <<Stripped(b[i], calls)>>
    <3>1. part(i) = IF i \in DOMAIN stubs THEN StubPair(stubs[i])
            ELSE IF i \in gone THEN <<>> ELSE <<Stripped(b[i], calls)>>
      BY Zenon DEF CollapsedPart
    <3> HIDE DEF part, calls
    <3> QED  BY <2>1, <3>1
  <2>3. ASSUME NEW t \in b[i].results, NEW j \in gone, t \in b[j].uses PROVE FALSE
    <3>0. b # <<>>
      BY <1>1
    <3>1. i # 1
      BY <1>2, <2>3, <3>0
    <3>2. i - 1 \in 1..(n - 1) /\ i - 1 \in 1..n /\ (i - 1) + 1 = i
      BY <1>1, <3>1
    <3>3. t \in b[i - 1].uses
      BY <1>2, <2>3, <3>0, <3>2
    <3>4. j \in 1..n
      <4>1. PICK s \in out : j \in Group(b, s)
        BY <2>3 DEF Gone
      <4>2. s \in 1..n
        BY <1>3
      <4> QED  BY <1>1, <4>1, <4>2, GroupIn
    <3>5. j = i - 1
      BY <1>8, <2>3, <3>2, <3>3, <3>4
    <3>6. i - 1 \in S
      BY <1>6, <1>13, <3>2, <3>3
    <3> QED  BY <2>3, <3>5, <3>6
  <2>4. b[i].results \intersect calls = {}
    BY <2>3
  <2> HIDE DEF calls, part
  <2>5. Stripped(b[i], calls) = b[i]
    BY <2>4, Zenon DEF Stripped
  <2> QED  BY <2>2, <2>5
<1>14. ASSUME NEW i \in 1..n, i \notin S
       PROVE  part(i) = IF i \in DOMAIN stubs THEN StubPair(stubs[i]) ELSE <<>>
  <2>1. i \in gone
    BY <1>1, <1>14
  <2>2. part(i) = IF i \in DOMAIN stubs THEN StubPair(stubs[i])
            ELSE IF i \in gone THEN <<>> ELSE <<Stripped(b[i], UNION {b[j].uses : j \in Gone(b, out)})>>
    BY Zenon DEF CollapsedPart
  <2> HIDE DEF part, gone
  <2> QED  BY <2>1, <2>2
<1> HIDE DEF S, gone, part
<1>15. ASSUME NEW i \in 1..n
       PROVE  part(i) \in Seq(Sided) /\ Passes(part(i), c[i - 1], c[i])
  <2>1. b # <<>>
    BY <1>1
  <2>2. i = 1 \/ i - 1 \in 1..(n - 1)
    BY <1>1
  <2>3. CASE i \in S
    <3>1. b[i].results = c[i - 1]
      <4>1. CASE i = 1
        <5>1. i - 1 = 0
          BY <4>1
        <5>2. c[i - 1] = {}
          BY <1>12, <5>1
        <5> QED  BY <1>2, <2>1, <4>1, <5>2
      <4>2. CASE i - 1 \in 1..(n - 1)
        <5>1. i - 1 \in 1..n /\ (i - 1) + 1 = i
          BY <1>1, <4>2
        <5>2. b[i - 1].uses = b[i].results
          BY <1>2, <2>1, <4>2, <5>1
        <5>3. b[i - 1].uses # {} => i - 1 \in S
          BY <1>6, <2>3, <4>2, <5>1
        <5> QED  BY <1>12, <5>1, <5>2, <5>3
      <4> QED  BY <2>2, <4>1, <4>2
    <3>2. c[i] = b[i].uses
      BY <1>12, <2>3
    <3> DEFINE m == b[i]
    <3>3. m \in Sided /\ part(i) = <<m>> /\ m.results = c[i - 1] /\ m.uses = c[i]
      BY <1>1, <1>13, <2>3, <3>1, <3>2
    <3> HIDE DEF m
    <3>4. Passes(<<m>>, m.results, m.uses) /\ <<m>> \in Seq(Sided)
      BY <3>3, OnePasses
    <3> QED  BY <3>3, <3>4
  <2>4. CASE i \notin S
    <3>1. c[i] = {}
      BY <1>12, <2>4
    <3>2. c[i - 1] = {}
      <4>1. CASE i = 1
        <5>1. i - 1 = 0
          BY <4>1
        <5> QED  BY <1>12, <5>1
      <4>2. CASE i - 1 \in 1..(n - 1)
        <5>1. i - 1 \in 1..n /\ (i - 1) + 1 = i
          BY <1>1, <4>2
        <5>2. b[i - 1].uses # {} => i - 1 \notin S
          BY <1>6, <2>4, <4>2, <5>1
        <5> QED  BY <1>12, <5>1, <5>2
      <4> QED  BY <2>2, <4>1, <4>2
    <3>3. Linked(part(i))
      <4>1. i \in DOMAIN stubs => Linked(StubPair(stubs[i]))
        BY StubPairLinked
      <4> QED  BY <1>14, <2>4, <4>1, LinkedEmpty
    <3> QED  BY <3>1, <3>2, <3>3 DEF Linked
  <2> QED  BY <2>3, <2>4
<1>16. ASSUME NEW i \in 1..n, part(i) # <<>>
       PROVE  IsUser(part(i)[1]) \/ \E j \in 1..(i - 1) : part(j) # <<>>
  <2>1. CASE i \in S
    <3> DEFINE m == b[i]
    <3>0. part(i) = <<m>>
      BY <1>13, <2>1
    <3>1. part(i)[1] = m
      <4> HIDE DEF m
      <4> QED  BY <3>0
    <3> SUFFICES ASSUME ~ IsUser(b[i]) PROVE \E j \in 1..(i - 1) : part(j) # <<>>
      BY <3>1
    <3>2. i # 1
      BY <1>1, <1>11
    <3>3. i \notin GroupStarts(b)
      BY <1>3, <3>2 DEF RealUser
    <3>4. i - 1 \in 1..(n - 1) /\ (i - 1) + 1 = i /\ i - 1 \in 1..(i - 1) /\ i - 1 \in 1..n
      BY <1>1, <3>2
    <3>5. i - 1 \in S
      BY <1>7, <2>1, <3>3, <3>4
    <3>6. part(i - 1) = <<b[i - 1]>>
      BY <1>13, <3>4, <3>5
    <3>7. part(i - 1) # <<>>
      BY <3>6
    <3> QED  BY <3>4, <3>7
  <2>2. CASE i \notin S
    <3>1. i \in DOMAIN stubs /\ part(i) = StubPair(stubs[i])
      BY <1>14, <1>16, <2>2
    <3> QED  BY <3>1, StubPairLinked
  <2> QED  BY <2>1, <2>2
<1>17. f = [i \in 1..n |-> f[i]] /\ \A i \in 1..n : f[i] = part(i)
  OBVIOUS
<1> HIDE DEF f, n
<1>18. f \in Seq(Seq(Sided)) /\ Len(f) = n
  <2> DEFINE U == Seq(Sided)
  <2>1. \A i \in 1..n : f[i] \in U
    BY <1>15, <1>17
  <2> HIDE DEF U
  <2>2. f \in Seq(U) /\ Len(f) = n
    BY <1>1, <1>17, <2>1, SequenceBuilt
  <2> QED  BY <2>2 DEF U
<1>19. FlattenSeq(f) \in Seq(Sided)
  BY <1>18, FlattenTyped
<1>20. c[n] = {}
  <2>1. CASE n = 0
    BY <1>12, <2>1
  <2>2. CASE n # 0
    <3>1. n \in 1..n /\ b # <<>>
      BY <1>1, <2>2
    <3> QED  BY <1>2, <1>12, <3>1
  <2> QED  BY <2>1, <2>2
<1>21. Passes(FlattenSeq(f), {}, {})
  <2>1. \A i \in 1..Len(f) : Passes(f[i], c[i - 1], c[i])
    BY <1>15, <1>17, <1>18
  <2>2. Passes(FlattenSeq(f), c[0], c[Len(f)])
    BY <1>18, <2>1, FlattenPasses
  <2> QED  BY <1>12, <1>18, <1>20, <2>2
<1>22. Begins(FlattenSeq(f))
  <2>1. ASSUME NEW i \in 1..n, f[i] # <<>>
        PROVE  IsUser(f[i][1]) \/ \E j \in 1..(i - 1) : f[j] # <<>>
    <3>1. IsUser(part(i)[1]) \/ \E j \in 1..(i - 1) : part(j) # <<>>
      BY <1>16, <1>17, <2>1
    <3>2. \A j \in 1..(i - 1) : j \in 1..n
      BY <1>1
    <3> QED  BY <1>17, <3>1, <3>2
  <2> QED  BY <1>18, <2>1, FlattenBegins
<1> QED  BY <1>10, <1>19, <1>21, <1>22 DEF Linked

-----------------------------------------------------------------------------
(* Chains that are put back.                                               *)

\* A slice of b.
Slice(y, b, l, h) ==
  /\ Len(y) = (IF l <= h THEN (h - l) + 1 ELSE 0)
  /\ \A i \in 1..Len(y) : y[i] = b[l + i - 1]

LEMMA SubSeqSlice ==
  ASSUME NEW T, NEW b \in Seq(T), NEW l \in 1..(Len(b) + 1), NEW h \in 0..Len(b)
  PROVE  SubSeq(b, l, h) \in Seq(T) /\ Slice(SubSeq(b, l, h), b, l, h)
<1>1. Len(b) \in Nat
  OBVIOUS
<1>2. SubSeq(b, l, h) \in Seq(T)
  BY <1>1
<1>3. Len(SubSeq(b, l, h)) = IF l <= h THEN (h - l) + 1 ELSE 0
  BY <1>1
<1>4. \A i \in 1..Len(SubSeq(b, l, h)) : SubSeq(b, l, h)[i] = b[l + i - 1]
  BY <1>1, <1>3
<1> QED  BY <1>2, <1>3, <1>4 DEF Slice

\* Keeping an interval is a slice.
LEMMA KeepSlice ==
  ASSUME NEW T, NEW b \in Seq(T), NEW l \in 1..Len(b), NEW h \in l..Len(b)
  PROVE  Slice(Keep(b, l..h), b, l, h)
<1> DEFINE S == l..h
           n == Len(b)
           f == Pieces(b, S)
           U == Seq(T)
<1>1. /\ f \in Seq(Seq(T)) /\ Len(f) = n /\ Keep(b, S) = FlattenSeq(f)
      /\ (\A i \in 1..n : f[i] = Piece(b, S, i)) /\ n \in Nat
      /\ \A i \in 1..n : b[i] \in T
  BY KeepPieces
<1> HIDE DEF f
<1>2. PICK g \in Values(n, U) : Folds(g, f) /\ FlattenSeq(f) = g[n]
  BY <1>1, FlattenFolds
<1>3. g[0] = <<>> /\ \A i \in 1..n : g[i] = g[i - 1] \o f[i]
  BY <1>1, <1>2 DEF Folds
<1>4. l \in 1..n /\ h \in l..n
  OBVIOUS
<1> HIDE DEF n, U
<1> DEFINE Size(k) == IF k < l THEN 0 ELSE IF k <= h THEN (k - l) + 1 ELSE (h - l) + 1
           OK(x, k) == Len(x) = Size(k) /\ \A i \in 1..Len(x) : x[i] = b[l + i - 1]
           P == {k \in 0..n : OK(g[k], k)}
<1>5. 0 \in P
  <2>1. Len(g[0]) = 0
    BY <1>3
  <2> QED  BY <1>1, <1>4, <2>1
<1>6. ASSUME NEW k \in 1..n, k - 1 \in P PROVE k \in P
  <2> DEFINE x == g[k - 1]
             p == f[k]
             z == g[k]
  <2>1. k \in 0..n /\ k - 1 \in 0..n
    BY <1>1
  <2>2. x \in U /\ OK(x, k - 1) /\ z \in U
    <3>1. x \in U
      BY <1>2, <2>1 DEF Values
    <3>2. z \in U
      BY <1>2, <2>1 DEF Values
    <3> QED  BY <1>6, <3>1, <3>2
  <2>3. z = x \o p /\ p = (IF k \in S THEN <<b[k]>> ELSE <<>>)
    BY <1>1, <1>3 DEF Piece
  <2> HIDE DEF x, p, z
  <2>4. CASE k \in S
    <3> DEFINE m == b[k]
    <3>1. m \in T
      BY <1>1
    <3> DEFINE q == <<m>>
    <3>2. z = x \o q /\ x \in Seq(T)
      BY <2>2, <2>3, <2>4 DEF U
    <3>21. q \in Seq(T) /\ Len(q) = 1 /\ q[1] = m
      BY <3>1, OnePasses
    <3> HIDE DEF m, q
    <3>3. Len(z) = Len(x) + 1 /\ Len(x) \in Nat /\ (\A i \in 1..Len(x) : z[i] = x[i])
          /\ z[Len(x) + 1] = m
      <4>1. /\ Len(x \o q) = Len(x) + Len(q) /\ Len(x) \in Nat
            /\ (\A a \in 1..Len(x) : (x \o q)[a] = x[a])
            /\ \A a \in 1..Len(q) : (x \o q)[Len(x) + a] = q[a]
        <5>1. x \in Seq(T) /\ q \in Seq(T)
          BY <3>2, <3>21
        <5> QED  BY ONLY <5>1, Concatenated
      <4>2. /\ Len(z) = Len(x) + Len(q)
            /\ (\A a \in 1..Len(x) : z[a] = x[a])
            /\ \A a \in 1..Len(q) : z[Len(x) + a] = q[a]
        BY <3>2, <4>1
      <4>3. 1 \in 1..1
        OBVIOUS
      <4> QED  BY <3>21, <4>1, <4>2, <4>3
    <3>4. k >= l /\ k <= h /\ k - 1 >= l - 1
      BY <1>1, <1>4, <2>4
    <3>5. Len(x) = k - l /\ Len(z) = (k - l) + 1
      BY <1>1, <1>4, <2>2, <3>3, <3>4
    <3>6. ASSUME NEW i \in 1..Len(z) PROVE z[i] = b[l + i - 1]
      <4>1. CASE i \in 1..Len(x)
        BY <2>2, <3>3, <4>1
      <4>2. CASE i = Len(x) + 1
        <5>1. l + i - 1 = k
          BY <1>1, <1>4, <3>5, <4>2
        <5> QED  BY <3>3, <4>2, <5>1 DEF m
      <4>3. i \in 1..Len(x) \/ i = Len(x) + 1
        BY <3>3
      <4> QED  BY <4>1, <4>2, <4>3
    <3>7. Size(k) = (k - l) + 1
      BY <1>4, <3>4
    <3> HIDE DEF Size
    <3> QED  BY <2>1, <3>5, <3>6, <3>7 DEF z
  <2>5. CASE k \notin S
    <3>1. z = x
      BY <2>2, <2>3, <2>5 DEF U
    <3>2. k < l \/ k > h
      BY <1>4, <2>5
    <3>3. Size(k) = Size(k - 1)
      BY <1>4, <3>2
    <3> HIDE DEF Size
    <3> QED  BY <2>1, <2>2, <3>1, <3>3 DEF z
  <2> QED  BY <2>4, <2>5
<1> HIDE DEF P
<1>7. P = 0..n
  <2>1. P \in SUBSET (0..n)
    BY DEF P
  <2> QED  BY <1>1, <1>5, <1>6, <2>1, Stepwise
<1>8. n \in P
  BY <1>1, <1>7
<1>9. OK(g[n], n)
  BY <1>8 DEF P
<1>10. Size(n) = (h - l) + 1 /\ l <= h
  BY <1>1, <1>4
<1> HIDE DEF Size
<1> QED  BY <1>1, <1>2, <1>9, <1>10 DEF Slice

\* A slice passes what b does between its ends.
LEMMA SlicePasses ==
  ASSUME NEW T, NEW b \in Seq(T), NEW u, NEW v, Passes(b, u, v),
         NEW l \in 1..Len(b), NEW h \in l..Len(b), NEW y \in Seq(T), Slice(y, b, l, h)
  PROVE  Passes(y, b[l].results, b[h].uses) /\ y # <<>> /\ y[1] = b[l]
<1> DEFINE n == Len(b)
           m == Len(y)
<1>1. b # <<>> /\ n \in Nat /\ l \in 1..n /\ h \in l..n
  OBVIOUS
<1>2. \A k \in 1..(n - 1) : b[k].uses = b[k + 1].results
  BY <1>1, PassesIs
<1>3. m = (h - l) + 1 /\ \A i \in 1..m : y[i] = b[l + i - 1]
  BY DEF Slice
<1>4. y = <<>> => m = 0
  OBVIOUS
<1> HIDE DEF n, m
<1>5. 1 \in 1..m /\ m \in 1..m /\ l + 1 - 1 = l /\ l + m - 1 = h
  BY <1>1, <1>3
<1>6. ASSUME NEW k \in 1..(m - 1) PROVE y[k].uses = y[k + 1].results
  <2>1. k \in 1..m /\ k + 1 \in 1..m /\ l + k - 1 \in 1..(n - 1)
        /\ l + (k + 1) - 1 = (l + k - 1) + 1
    BY <1>1, <1>3
  <2>2. y[k] = b[l + k - 1] /\ y[k + 1] = b[(l + k - 1) + 1]
    BY <1>3, <2>1
  <2> QED  BY <1>2, <2>1, <2>2
<1>7. y[1] = b[l] /\ y[m] = b[h]
  BY <1>3, <1>5
<1>8. y # <<>>
  BY <1>4, <1>5
<1>9. Passes(y, b[l].results, b[h].uses)
  BY <1>6, <1>7, <1>8 DEF Passes, m
<1> QED  BY <1>7, <1>8, <1>9

\* A chain ends with the answer to a user message.
LEMMA EndsAnswered ==
  ASSUME NEW T, NEW pre \in Seq(T), NEW f, Ends(f, pre), NEW i \in 1..(Len(pre) - 1),
         IsUser(pre[i]), ~ IsUser(pre[i + 1])
  PROVE  /\ f[i + 1] \in (i + 1)..Len(pre)
         /\ ~ IsUser(pre[f[i + 1]]) /\ IsUser(pre[f[i + 1] - 1])
<1> DEFINE N == Len(pre)
           Good2(e) == ~ IsUser(pre[e]) /\ IsUser(pre[e - 1])
           P == {k \in Nat : \A j \in 1..N : N - j <= k /\ Good2(j) => Good2(f[j])}
<1>1. N \in Nat /\ DOMAIN pre = 1..N
  OBVIOUS
<1>2. \A j \in 1..N : /\ f[j] = IF Round(pre, j) THEN f[j + 2] ELSE j
                      /\ f[j] \in j..N
  BY DEF Ends
<1>3. \A j \in 1..N : Round(pre, j) => j + 2 <= N /\ IsUser(pre[j + 1]) /\ ~ IsUser(pre[j + 2])
  BY <1>1 DEF Round, ToolResultOnly
<1>4. i \in 1..(N - 1) /\ IsUser(pre[i]) /\ ~ IsUser(pre[i + 1])
  OBVIOUS
<1> HIDE DEF N
<1>5. 0 \in P
  <2>1. ASSUME NEW j \in 1..N, N - j <= 0, Good2(j) PROVE Good2(f[j])
    <3>1. ~ Round(pre, j)
      BY <1>1, <1>3, <2>1
    <3>2. f[j] = j
      BY <1>2, <3>1
    <3> QED  BY <2>1, <3>2
  <2> QED  BY <2>1
<1>6. ASSUME NEW k \in Nat, k \in P PROVE k + 1 \in P
  <2>1. ASSUME NEW j \in 1..N, N - j <= k + 1, Good2(j) PROVE Good2(f[j])
    <3>1. CASE Round(pre, j)
      <4>1. j + 2 \in 1..N /\ N - (j + 2) <= k /\ (j + 2) - 1 = j + 1
        BY <1>1, <1>3, <2>1, <3>1
      <4>2. Good2(j + 2)
        BY <1>3, <3>1, <4>1
      <4>3. Good2(f[j + 2])
        BY <1>6, <4>1, <4>2
      <4>4. f[j] = f[j + 2]
        BY <1>2, <3>1
      <4> QED  BY <4>3, <4>4
    <3>2. CASE ~ Round(pre, j)
      <4>1. f[j] = j
        BY <1>2, <3>2
      <4> QED  BY <2>1, <4>1
    <3> QED  BY <3>1, <3>2
  <2> HIDE DEF Good2
  <2> QED  BY <2>1
<1> HIDE DEF P
<1>7. P = Nat
  BY <1>5, <1>6, InductionOver DEF P
<1>8. i + 1 \in 1..N /\ N - (i + 1) \in Nat /\ (i + 1) - 1 = i
  BY <1>1, <1>4
<1>9. Good2(i + 1)
  BY <1>4, <1>8
<1>10. N - (i + 1) \in P
  BY <1>7, <1>8
<1> HIDE DEF Good2
<1>11. Good2(f[i + 1])
  <2>1. N - (i + 1) <= N - (i + 1)
    BY <1>8
  <2> QED  BY <1>8, <1>9, <1>10, <2>1 DEF P
<1>12. f[i + 1] \in (i + 1)..N
  BY <1>2, <1>8
<1> QED  BY <1>11, <1>12 DEF Good2, N

LEMMA WithoutSided ==
  ASSUME NEW m \in Sided, NEW S
  PROVE  /\ WithoutUses(m) \in Sided /\ WithoutResults(m, S) \in Sided
         /\ WithoutUses(m).role = m.role /\ WithoutResults(m, S).role = m.role
         /\ WithoutUses(m).uses = {} /\ WithoutUses(m).results = m.results
         /\ WithoutResults(m, S).uses = m.uses
         /\ WithoutResults(m, S).results = m.results \ S
<1>1. m \in Messages /\ (IsUser(m) => m.uses = {}) /\ (~ IsUser(m) => m.results = {})
      /\ (m.mark \/ m.refs # {} => Plain(m))
  BY DEF Sided
<1> DEFINE c == WithoutUses(m)
           d == WithoutResults(m, S)
<1>2. c \in Messages /\ c.refs = m.refs /\ c.role = m.role /\ c.uses = {} /\ c.results = m.results
  BY <1>1 DEF WithoutUses, Messages
<1>3. d \in Messages /\ d.refs = m.refs /\ d.role = m.role /\ d.uses = m.uses
      /\ d.results = m.results \ S
  BY <1>1 DEF WithoutResults, Messages
<1>4. c.mark = m.mark /\ d.mark = m.mark
  BY <1>1, Zenon DEF WithoutUses, WithoutResults, Messages
<1> HIDE DEF c, d
<1>5. c \in Sided
  BY <1>1, <1>2, <1>4 DEF Sided, Plain, IsUser
<1>6. d \in Sided
  BY <1>1, <1>3, <1>4 DEF Sided, Plain, IsUser
<1> QED  BY <1>2, <1>3, <1>5, <1>6 DEF c, d

\* Another message in the place of the k-th.
LEMMA Replaced ==
  ASSUME NEW T, NEW x \in Seq(T), NEW k \in 1..Len(x), NEW w \in T
  PROVE  /\ [x EXCEPT ![k] = w] \in Seq(T) /\ Len([x EXCEPT ![k] = w]) = Len(x)
         /\ [x EXCEPT ![k] = w][k] = w /\ [x EXCEPT ![k] = w] # <<>>
         /\ \A i \in 1..Len(x) : i # k => [x EXCEPT ![k] = w][i] = x[i]
<1> DEFINE y == [x EXCEPT ![k] = w]
<1>1. y \in Seq(T) /\ Len(y) = Len(x) /\ y[k] = w /\ \A i \in 1..Len(x) : i # k => y[i] = x[i]
  OBVIOUS
<1>2. Len(x) # 0
  OBVIOUS
<1> HIDE DEF y
<1>3. y # <<>>
  BY <1>1, <1>2
<1> QED  BY <1>1, <1>3 DEF y

\* A chain whose last message answers a user and whose first one has text.
Answering(x) ==
  /\ Len(x) >= 2 /\ ~ IsUser(x[Len(x)]) /\ IsUser(x[Len(x) - 1])
  /\ IsUser(x[1]) /\ x[1].text

LEMMA RestoredTailPasses ==
  ASSUME NEW x \in Seq(Sided), Answering(x), NEW u, NEW v, Passes(x, u, v)
  PROVE  LET tail == RestoredTail(x)
         IN  /\ tail \in Seq(Sided) /\ tail # <<>> /\ tail[1] = x[1]
             /\ Passes(tail, x[1].results, {})
             /\ UsesOf(tail) \subseteq UsesOf(x)
<1> DEFINE n == Len(x)
           w == WithoutUses(x[n])
           freed == [x EXCEPT ![n] = w]
           cut == SubSeq(x, 1, n - 1)
           tail == RestoredTail(x)
           Fine(y) == /\ y \in Seq(Sided) /\ y # <<>> /\ y[1] = x[1]
                      /\ Passes(y, x[1].results, {})
                      /\ UsesOf(y) \subseteq UsesOf(x)
<1>1. n \in Nat /\ n >= 2 /\ n \in 1..n /\ n - 1 \in 1..n /\ 1 \in 1..n /\ DOMAIN x = 1..n
      /\ (\A i \in 1..n : x[i] \in Sided) /\ x # <<>>
      /\ ~ IsUser(x[n]) /\ IsUser(x[n - 1])
  BY DEF Answering
<1>2. x[1].results = u /\ x[n].uses = v /\ \A k \in 1..(n - 1) : x[k].uses = x[k + 1].results
  BY <1>1, PassesIs
<1>3. tail = IF IsUser(x[n]) \/ x[n].uses = {} THEN x
             ELSE IF x[n].text THEN freed ELSE cut
  BY Zenon DEF RestoredTail
<1>4. w \in Sided /\ w.uses = {} /\ w.results = x[n].results
  BY <1>1, WithoutSided
<1> HIDE DEF w, n, tail
<1>5. x[n].uses = {} => Fine(x)
  BY <1>1, <1>2
<1>6. Fine(freed)
  <2>1. /\ freed \in Seq(Sided) /\ Len(freed) = n /\ freed[n] = w /\ freed # <<>>
        /\ \A i \in 1..n : i # n => freed[i] = x[i]
    BY <1>1, <1>4, Replaced DEF n
  <2> HIDE DEF freed
  <2>2. freed[1] = x[1]
    BY <1>1, <2>1
  <2>3. ASSUME NEW k \in 1..(n - 1) PROVE freed[k].uses = freed[k + 1].results
    <3>1. k \in 1..n /\ k + 1 \in 1..n /\ k # n
      BY <1>1
    <3>2. freed[k] = x[k] /\ freed[k + 1].results = x[k + 1].results
      BY <1>4, <2>1, <3>1
    <3> QED  BY <1>2, <3>2
  <2>4. Passes(freed, x[1].results, {})
    BY <1>4, <2>1, <2>2, <2>3 DEF Passes
  <2>5. UsesOf(freed) \subseteq UsesOf(x)
    <3>1. DOMAIN freed = 1..n
      BY <2>1
    <3>2. \A i \in 1..n : freed[i].uses \subseteq x[i].uses
      BY <1>4, <2>1
    <3> QED  BY <1>1, <3>1, <3>2 DEF UsesOf
  <2> QED  BY <2>1, <2>2, <2>4, <2>5
<1>7. Fine(cut)
  <2>1. 1 \in 1..(n + 1) /\ n - 1 \in 0..n /\ n - 1 \in 1..n
    BY <1>1
  <2>2. cut \in Seq(Sided) /\ Slice(cut, x, 1, n - 1)
    BY <2>1, SubSeqSlice DEF n
  <2> HIDE DEF cut
  <2>3. Passes(cut, x[1].results, x[n - 1].uses) /\ cut # <<>> /\ cut[1] = x[1]
    <3>1. 1 \in 1..Len(x) /\ n - 1 \in 1..Len(x)
      BY <1>1 DEF n
    <3> QED  BY <2>2, <3>1, SlicePasses
  <2>4. x[n - 1].uses = {}
    BY <1>1 DEF Sided
  <2>5. UsesOf(cut) \subseteq UsesOf(x)
    <3>1. DOMAIN cut = 1..Len(cut)
      BY <2>2
    <3>2. \A i \in 1..Len(cut) : i \in 1..n /\ cut[i] = x[i]
      BY <1>1, <2>2 DEF Slice
    <3> QED  BY <1>1, <3>1, <3>2 DEF UsesOf
  <2> QED  BY <2>2, <2>3, <2>4, <2>5
<1> HIDE DEF Fine, freed, cut
<1>8. Fine(tail)
  BY <1>1, <1>3, <1>5, <1>6, <1>7
<1> QED  BY <1>8 DEF Fine, tail

\* The chain to restore is a payload by itself.
LEMMA RestorableLinked ==
  ASSUME NEW x \in Seq(Sided), Answering(x), NEW u, NEW v, Passes(x, u, v),
         x[1].results \intersect UsesOf(x) = {}
  PROVE  Linked(Restorable(x)) /\ Restorable(x) # <<>> /\ IsUser(Restorable(x)[1])
<1> DEFINE tail == RestoredTail(x)
           orphans == RestoredOrphans(tail)
           w == WithoutResults(tail[1], orphans)
           p == [tail EXCEPT ![1] = w]
           q == Tail(tail)
<1>1. /\ tail \in Seq(Sided) /\ tail # <<>> /\ tail[1] = x[1]
      /\ Passes(tail, x[1].results, {}) /\ UsesOf(tail) \subseteq UsesOf(x)
  BY RestoredTailPasses
<1>2. x # <<>> /\ IsUser(x[1]) /\ x[1].text
  <2>1. Len(x) >= 2
    BY DEF Answering
  <2>2. x # <<>>
    BY <2>1
  <2> QED  BY <2>2, Zenon DEF Answering
<1>3. Restorable(x) = CASE orphans = {} -> tail
                 [] orphans # {} /\ (tail[1].text \/ orphans # tail[1].results) -> p
                 [] OTHER -> q
  BY <1>2, RestorableIs, Zenon
<1>4. orphans = tail[1].results \ UsesOf(tail)
  <2>1. orphans = IF tail = <<>> \/ ~ IsUser(tail[1]) THEN {} ELSE tail[1].results \ UsesOf(tail)
    BY Zenon DEF RestoredOrphans, UsesOf
  <2> HIDE DEF tail, orphans
  <2> QED  BY <1>1, <1>2, <2>1
<1> HIDE DEF tail, orphans
<1>5. orphans = x[1].results
  BY <1>1, <1>4
<1> HIDE DEF q
<1>6. Restorable(x) = IF orphans = {} THEN tail ELSE p
  BY <1>1, <1>2, <1>3
<1>7. tail[1] \in Sided /\ 1 \in 1..Len(tail)
  BY <1>1
<1>8. w \in Sided /\ w.role = tail[1].role /\ w.uses = tail[1].uses /\ w.results = {}
  <2>1. w.results = tail[1].results \ orphans
    BY <1>7, WithoutSided
  <2>2. w \in Sided /\ w.role = tail[1].role /\ w.uses = tail[1].uses
    BY <1>7, WithoutSided
  <2> QED  BY <1>1, <1>5, <2>1, <2>2
<1> HIDE DEF w
<1>9. /\ p \in Seq(Sided) /\ Len(p) = Len(tail) /\ p[1] = w /\ p # <<>>
      /\ \A i \in 1..Len(tail) : i # 1 => p[i] = tail[i]
  BY <1>1, <1>7, <1>8, Replaced
<1> HIDE DEF p
<1>10. /\ tail[Len(tail)].uses = {} /\ Len(tail) \in Nat \ {0}
       /\ \A k \in 1..(Len(tail) - 1) : tail[k].uses = tail[k + 1].results
  BY <1>1, PassesIs
<1>11. Passes(p, {}, {})
  <2>1. p[1].results = {} /\ \A i \in 1..Len(tail) : p[i].uses = tail[i].uses
    BY <1>8, <1>9
  <2>2. ASSUME NEW k \in 1..(Len(tail) - 1) PROVE p[k].uses = p[k + 1].results
    <3>1. k \in 1..Len(tail) /\ k + 1 \in 1..Len(tail) /\ k + 1 # 1
      BY <1>10
    <3>2. p[k + 1] = tail[k + 1]
      BY <1>9, <3>1
    <3> QED  BY <1>10, <2>1, <3>1, <3>2
  <2>3. Len(tail) \in 1..Len(tail)
    BY <1>10
  <2> QED  BY <1>9, <1>10, <2>1, <2>2, <2>3 DEF Passes
<1>12. Linked(p) /\ p # <<>> /\ IsUser(p[1])
  <2>1. IsUser(p[1])
    BY <1>1, <1>2, <1>8, <1>9 DEF IsUser
  <2> QED  BY <1>9, <1>11, <2>1 DEF Linked, Begins
<1>13. orphans = {} => Linked(tail) /\ tail # <<>> /\ IsUser(tail[1])
  BY <1>1, <1>2, <1>5 DEF Linked, Begins
<1> QED  BY <1>6, <1>12, <1>13

\* A payload that makes way for another at a pair without calls.
LEMMA RestoreLinked ==
  ASSUME NEW b, Linked(b), NEW ref, StubsOf(b, ref) # {}, NEW r, Linked(r), r # <<>>
  PROVE  Linked(RestoreInPlace(b, ref, r))
<1> DEFINE n == Len(b)
           T == Sided
<1>1. b \in Seq(T) /\ Passes(b, {}, {}) /\ Begins(b) /\ r \in Seq(T) /\ n \in Nat
      /\ (\A k \in 1..n : b[k] \in T) /\ IsUser(r[1])
  BY DEF Linked, Begins
<1>20. b \in Seq(T) /\ r \in Seq(T)
  BY <1>1
<1> HIDE DEF T
<1>21. \E i \in 1..(Len(b) - 1) : RestoredAt(RestoreInPlace(b, ref, r), b, ref, r, i)
  BY <1>20, RestoreTyped
<1>2. PICK i \in 1..(n - 1) :
         /\ b[i].mark /\ ref \in b[i + 1].refs
         /\ RestoreInPlace(b, ref, r) = SubSeq(b, 1, i - 1) \o r \o SubSeq(b, i + 2, n)
  BY <1>21 DEF RestoredAt
<1>30. n # 0
  BY <1>1, <1>2
<1>31. b # <<>>
  BY <1>30
<1>3. i \in 1..n /\ i + 1 \in 1..n /\ b # <<>>
  BY <1>1, <1>2, <1>31
<1>4. Plain(b[i]) /\ Plain(b[i + 1])
  <2>1. b[i] \in Sided /\ b[i + 1] \in Sided /\ b[i + 1].refs # {}
    BY <1>1, <1>2, <1>3 DEF T
  <2>2. b[i].mark
    BY <1>2, Zenon
  <2> HIDE DEF n
  <2>3. \A m \in Sided : m.mark => Plain(m)
    BY DEF Sided
  <2>4. \A m \in Sided : m.refs # {} => Plain(m)
    BY DEF Sided
  <2> QED  BY ONLY <2>1, <2>2, <2>3, <2>4
<1>5. /\ b[1].results = {} /\ b[n].uses = {}
      /\ \A k \in 1..(n - 1) : b[k].uses = b[k + 1].results
  BY <1>1, <1>3, PassesIs
<1> DEFINE x == SubSeq(b, 1, i - 1)
           z == SubSeq(b, i + 2, n)
<1>6. x \in Seq(T) /\ Slice(x, b, 1, i - 1) /\ z \in Seq(T) /\ Slice(z, b, i + 2, n)
  <2>1. 1 \in 1..(n + 1) /\ i - 1 \in 0..n /\ i + 2 \in 1..(n + 1) /\ n \in 0..n
    BY <1>1, <1>2
  <2>2. 1 \in 1..(Len(b) + 1) /\ i - 1 \in 0..Len(b) /\ i + 2 \in 1..(Len(b) + 1)
        /\ Len(b) \in 0..Len(b)
    BY <2>1
  <2>3. x \in Seq(T) /\ Slice(x, b, 1, i - 1)
    BY <1>20, <2>2, SubSeqSlice
  <2>4. z \in Seq(T) /\ Slice(z, b, i + 2, n)
    BY <1>20, <2>2, SubSeqSlice
  <2> QED  BY <2>3, <2>4
<1>7. Passes(x, {}, {}) /\ (i > 1 => x # <<>> /\ x[1] = b[1]) /\ (i = 1 => x = <<>>)
  <2>1. CASE i = 1
    <3>1. Len(x) = 0
      BY <1>6, <2>1 DEF Slice
    <3> HIDE DEF x
    <3>2. x = <<>>
      BY <1>6, <3>1
    <3> QED  BY <2>1, <3>2 DEF Passes
  <2>2. CASE i > 1
    <3>1. 1 \in 1..n /\ i - 1 \in 1..n /\ i - 1 \in 1..(n - 1) /\ (i - 1) + 1 = i
      BY <1>1, <1>2, <2>2
    <3> HIDE DEF x
    <3>2. Passes(x, b[1].results, b[i - 1].uses) /\ x # <<>> /\ x[1] = b[1]
      BY <1>1, <1>6, <3>1, SlicePasses
    <3>3. b[i - 1].uses = {}
      BY <1>4, <1>5, <3>1 DEF Plain
    <3> QED  BY <1>5, <2>2, <3>2, <3>3
  <2> QED  BY <1>2, <2>1, <2>2
<1>8. Passes(z, {}, {})
  <2>1. CASE i + 2 > n
    <3>1. Len(z) = 0
      BY <1>1, <1>2, <1>6, <2>1 DEF Slice
    <3> HIDE DEF z
    <3>2. z = <<>>
      BY <1>6, <3>1
    <3> QED  BY <3>2 DEF Passes
  <2>2. CASE i + 2 <= n
    <3>1. i + 2 \in 1..n /\ n \in (i + 2)..n /\ i + 1 \in 1..(n - 1) /\ (i + 1) + 1 = i + 2
      BY <1>1, <1>2, <2>2
    <3> HIDE DEF z
    <3>2. Passes(z, b[i + 2].results, b[n].uses)
      BY <1>1, <1>6, <3>1, SlicePasses
    <3>3. b[i + 2].results = {}
      BY <1>4, <1>5, <3>1 DEF Plain
    <3> QED  BY <1>5, <3>2, <3>3
  <2> QED  BY <1>1, <1>2, <2>1, <2>2
<1> HIDE DEF x, z, T
<1>9. Passes(r, {}, {})
  BY DEF Linked
<1>10. x \o r \in Seq(T) /\ Passes(x \o r, {}, {})
  BY <1>1, <1>6, <1>7, <1>9, PassesConcat, Concatenated
<1>11. (x \o r) \o z \in Seq(T) /\ Passes((x \o r) \o z, {}, {})
  BY <1>6, <1>8, <1>10, PassesConcat, Concatenated
<1>12. Begins((x \o r) \o z)
  <2>1. Len(x) \in Nat /\ Len(r) \in Nat \ {0} /\ Len(z) \in Nat
    BY <1>1, <1>6
  <2>2. IsUser((x \o r)[1]) /\ Len(x \o r) >= 1
    <3>1. CASE i = 1
      <4>1. x \o r = r
        BY <1>1, <1>7, <3>1
      <4> QED  BY <1>1, <2>1, <4>1
    <3>2. CASE i > 1
      <4>1. 1 \in 1..Len(x)
        BY <1>6, <1>7, <3>2
      <4>2. (x \o r)[1] = x[1] /\ Len(x \o r) = Len(x) + Len(r)
        BY <1>1, <1>6, <4>1
      <4>3. IsUser(b[1])
        BY <1>1, <1>3 DEF Begins
      <4> QED  BY <1>7, <2>1, <3>2, <4>2, <4>3
    <3> QED  BY <1>2, <3>1, <3>2
  <2>3. ((x \o r) \o z)[1] = (x \o r)[1]
    BY <1>6, <1>10, <2>2
  <2> QED  BY <2>2, <2>3 DEF Begins
<1> QED  BY <1>2, <1>11, <1>12 DEF Linked, T, x, z

\* A chain of the client's history can be restored.
LEMMA RestoredWhole ==
  ASSUME History, NEW id, WholeChain(id)
  PROVE  LET full == Client(0)
             r == Restorable(Keep(full, Chain(full, PositionIn(full, id))))
         IN  Linked(r) /\ r # <<>>
<1> DEFINE full == Client(0)
           k == PositionIn(Client(0), id)
           chain == Chain(full, k)
           T == Sided
<1>1. /\ full \in Seq(Raw(0)) /\ k \in 1..Len(full) /\ chain # {}
      /\ SaidAt(0, k, id[1], id[2])
  BY WholeIs
<1>2. full \in Seq(T) /\ Passes(full, {}, {}) /\ CallsOnce(full)
  <2>1. Linked(full) /\ CallsOnce(full)
    BY ClientLinked
  <2> QED  BY <2>1 DEF Linked
<1>3. full[k].text
  <2>1. full[k] = TurnMessages(id[1])[id[2]]
    BY <1>1, Zenon DEF SaidAt
  <2>2. TurnMessages(id[1])[id[2]].text
    BY Zenon DEF WholeChain, Says
  <2> QED  BY <2>1, <2>2, Zenon
<1> HIDE DEF full, k
<1>4. k < Len(full) /\ IsUser(full[k]) /\ ~ IsUser(full[k + 1])
  BY <1>1, ChainIs
<1>5. PICK f : Ends(f, full) /\ chain = k..f[k + 1]
  BY <1>1, ChainIs
<1> HIDE DEF chain
<1> DEFINE e == f[k + 1]
<1>6. k \in 1..(Len(full) - 1) /\ Len(full) \in Nat
  BY <1>1, <1>4
<1>7. e \in (k + 1)..Len(full) /\ ~ IsUser(full[e]) /\ IsUser(full[e - 1])
  BY <1>1, <1>4, <1>5, <1>6, EndsAnswered
<1> HIDE DEF e
<1> DEFINE x == Keep(full, chain)
<1>8. chain = k..e
  BY <1>5 DEF e
<1>9. k \in 1..Len(full) /\ e \in k..Len(full)
  BY <1>6, <1>7
<1> HIDE DEF T
<1>10. x \in Seq(T)
  BY <1>2, KeepTyped
<1>11. Slice(x, full, k, e)
  <2>1. Slice(Keep(full, k..e), full, k, e)
    BY <1>2, <1>9, KeepSlice
  <2> QED  BY <1>8, <2>1
<1> HIDE DEF x
<1>12. Passes(x, full[k].results, full[e].uses) /\ x # <<>> /\ x[1] = full[k]
  BY <1>2, <1>9, <1>10, <1>11, SlicePasses
<1>13. Len(x) = (e - k) + 1 /\ \A i \in 1..Len(x) : x[i] = full[k + i - 1]
  BY <1>6, <1>9, <1>11 DEF Slice
<1>14. Answering(x)
  <2>1. Len(x) >= 2 /\ Len(x) \in 1..Len(x) /\ Len(x) - 1 \in 1..Len(x)
        /\ k + Len(x) - 1 = e /\ k + (Len(x) - 1) - 1 = e - 1
    BY <1>6, <1>7, <1>9, <1>13
  <2>2. x[Len(x)] = full[e] /\ x[Len(x) - 1] = full[e - 1]
    BY <1>13, <2>1
  <2>3. IsUser(x[1])
    BY <1>4, <1>12
  <2>4. x[1].text
    BY <1>3, <1>12, Zenon
  <2>5. ~ IsUser(x[Len(x)]) /\ IsUser(x[Len(x) - 1])
    BY <1>7, <2>2
  <2> QED  BY <2>1, <2>3, <2>4, <2>5, Zenon DEF Answering
<1>15. x[1].results \intersect UsesOf(x) = {}
  <2>1. full # <<>>
    <3>1. Len(full) # 0
      BY <1>6
    <3> QED  BY <3>1
  <2>2. full[1].results = {} /\ \A j \in 1..(Len(full) - 1) : full[j].uses = full[j + 1].results
    BY <1>2, <2>1, PassesIs
  <2>3. DOMAIN x = 1..Len(x)
    BY <1>10
  <2>4. ASSUME NEW i \in 1..Len(x) PROVE full[k].results \intersect x[i].uses = {}
    <3>1. k + i - 1 \in 1..Len(full) /\ x[i] = full[k + i - 1]
      BY <1>6, <1>9, <1>13
    <3>2. CASE k = 1
      BY <2>2, <3>2
    <3>3. CASE k # 1
      <4>1. k - 1 \in 1..(Len(full) - 1) /\ k - 1 \in 1..Len(full) /\ (k - 1) + 1 = k
            /\ k - 1 # k + i - 1
        BY <1>6, <3>3
      <4>2. full[k].results = full[k - 1].uses
        BY <2>2, <4>1
      <4> QED  BY <1>2, <3>1, <4>1, <4>2 DEF CallsOnce
    <3> QED  BY <3>2, <3>3
  <2> QED  BY <1>12, <2>3, <2>4 DEF UsesOf
<1>16. Linked(Restorable(x)) /\ Restorable(x) # <<>>
  <2>1. x \in Seq(Sided)
    BY <1>10 DEF T
  <2> QED  BY <1>12, <1>14, <1>15, <2>1, RestorableLinked
<1> QED  BY <1>16 DEF x, chain, full, k

-----------------------------------------------------------------------------
(* Alternate and the backfill: what the filter keeps.                      *)

\* One round of Closure.
Near(c, S) == S \union {j \in DOMAIN c \ S : \E i \in S : Tied(c, i, j)}

Closed(c, S) == \A i \in S : \A j \in 1..Len(c) : Tied(c, i, j) => j \in S

LEMMA NearIs ==
  ASSUME NEW T, NEW c \in Seq(T), NEW S \in SUBSET (1..Len(c))
  PROVE  /\ S \subseteq Near(c, S) /\ Near(c, S) \in SUBSET (1..Len(c))
         /\ Near(c, S) = S <=> Closed(c, S)
<1>1. DOMAIN c = 1..Len(c)
  OBVIOUS
<1> QED  BY <1>1 DEF Near, Closed

LEMMA ClosureNears ==
  ASSUME NEW T, NEW c \in Seq(T), NEW S \in SUBSET (1..Len(c))
  PROVE  \E g \in Values(Len(c), SUBSET (1..Len(c))) :
           /\ g[0] = S
           /\ \A k \in 1..Len(c) : g[k] = Near(c, g[k - 1])
           /\ Closure(c, S) = g[Len(c)]
<1> DEFINE n == Len(c)
           U == SUBSET (1..Len(c))
           D(f) == f = [k \in 0..Len(c) |->
                     IF k = 0 THEN S
                     ELSE LET R == f[k - 1]
                          IN  R \union {j \in DOMAIN c \ R : \E i \in R : Tied(c, i, j)}]
           g == CHOOSE f : D(f)
           step == [p \in (1..n) \X U |-> Near(c, p[2])]
<1>0. \A f : D(f) <=> f = [k \in 0..n |-> IF k = 0 THEN S ELSE Near(c, f[k - 1])]
  BY Zenon DEF Near
<1>1. n \in Nat /\ S \in U
  OBVIOUS
<1>2. \A R \in U : Near(c, R) \in U
  BY NearIs
<1>3. step \in Steps(n, U)
  <2> HIDE DEF U, n
  <2> QED  BY <1>2 DEF Steps
<1>4. \A k \in 1..n : \A s \in U : step[<<k, s>>] = Near(c, s)
  OBVIOUS
<1>5. Closure(c, S) = g[Len(c)]
  BY Zenon DEF Closure
<1> HIDE DEF D, n, step, U
<1>6. PICK h \in Values(n, U) : Recursion(h, n, S, step)
  BY <1>1, <1>3, RecursionExists
<1>7. D(h)
  <2>1. h = [k \in 0..n |-> h[k]]
    BY <1>6 DEF Values
  <2>2. ASSUME NEW k \in 0..n
        PROVE  h[k] = IF k = 0 THEN S ELSE Near(c, h[k - 1])
    <3>1. CASE k = 0
      BY <1>6, <3>1 DEF Recursion
    <3>2. CASE k # 0
      <4>1. k \in 1..n /\ k - 1 \in 0..n
        BY <1>1, <3>2
      <4>2. h[k - 1] \in U
        BY <1>6, <4>1 DEF Values
      <4> QED  BY <1>4, <1>6, <3>2, <4>1, <4>2 DEF Recursion
    <3> QED  BY <3>1, <3>2
  <2> QED  BY <1>0, <2>1, <2>2
<1>8. D(g)
  BY <1>7, Zenon
<1> HIDE DEF g
<1>9. g = [k \in 0..n |-> IF k = 0 THEN S ELSE Near(c, g[k - 1])]
  BY <1>0, <1>8
<1>10. g[0] = S /\ \A k \in 1..n : g[k] = Near(c, g[k - 1])
  <2>1. 0 \in 0..n /\ \A k \in 1..n : k \in 0..n /\ k # 0
    BY <1>1
  <2> QED  BY <1>9, <2>1
<1>11. \A k \in 0..n : g[k] \in U
  <2>1. \A k \in 1..n : g[k - 1] \in U => g[k] \in U
    BY <1>2, <1>10
  <2> QED  BY <1>1, <1>10, <2>1, KeptThroughout
<1>12. g \in Values(n, U)
  BY <1>9, <1>11 DEF Values
<1> QED  BY <1>5, <1>10, <1>12 DEF n, U

\* A closure is closed: a round that adds nothing ends the growth, and there
\* are more rounds than positions.
LEMMA ClosureClosed ==
  ASSUME NEW T, NEW c \in Seq(T), NEW S \in SUBSET (1..Len(c))
  PROVE  /\ Closure(c, S) \in SUBSET (1..Len(c)) /\ S \subseteq Closure(c, S)
         /\ Closed(c, Closure(c, S))
         /\ Closed(c, S) => Closure(c, S) = S
<1> DEFINE n == Len(c)
           U == SUBSET (1..n)
<1>1. PICK g \in Values(n, U) :
           /\ g[0] = S
           /\ \A k \in 1..n : g[k] = Near(c, g[k - 1])
           /\ Closure(c, S) = g[n]
  BY ClosureNears
<1>2. n \in Nat
  OBVIOUS
<1>3. \A R \in U : R \subseteq Near(c, R) /\ (Near(c, R) = R <=> Closed(c, R))
  BY NearIs
<1> HIDE DEF n
<1>4. \A k \in 0..n : g[k] \in U
  BY <1>1 DEF Values
<1>5. \A R \in U : IsFiniteSet(R) /\ Cardinality(R) \in Nat
  <2>1. IsFiniteSet(1..n)
    BY <1>2, FS_Interval
  <2> QED  BY <2>1, FS_Subset, FS_CardinalityType
<1> HIDE DEF U
<1> DEFINE Q(k) == /\ S \subseteq g[k]
                   /\ Closed(c, S) => g[k] = S
                   /\ Closed(c, g[k]) \/ Cardinality(g[k]) >= k
           P == {k \in 0..n : Q(k)}
<1>6. 0 \in P
  <2>1. 0 \in 0..n /\ Cardinality(g[0]) >= 0
    BY <1>2, <1>4, <1>5
  <2> QED  BY <1>1, <2>1
<1>7. ASSUME NEW k \in 1..n, k - 1 \in P PROVE k \in P
  <2> DEFINE R == g[k - 1]
             W == g[k]
  <2>1. k \in 0..n /\ k - 1 \in 0..n /\ (k - 1) + 1 = k
    BY <1>2
  <2>2. R \in U /\ W \in U /\ W = Near(c, R) /\ Q(k - 1)
    BY <1>1, <1>4, <1>7, <2>1
  <2> HIDE DEF R, W
  <2>3. R \subseteq W /\ (W = R <=> Closed(c, R))
    BY <1>3, <2>2
  <2>4. S \subseteq R /\ (Closed(c, S) => R = S) /\ (Closed(c, R) \/ Cardinality(R) >= k - 1)
    BY <2>2 DEF R
  <2>5. CASE Closed(c, R)
    <3>1. W = R
      BY <2>3, <2>5
    <3> QED  BY <2>1, <2>4, <2>5, <3>1 DEF W
  <2>6. CASE ~ Closed(c, R)
    <3>1. W # R /\ Cardinality(R) >= k - 1
      BY <2>3, <2>4, <2>6
    <3>2. IsFiniteSet(W) /\ Cardinality(W) \in Nat /\ Cardinality(R) \in Nat
      BY <1>5, <2>2
    <3>3. Cardinality(R) < Cardinality(W)
      BY <2>3, <3>1, <3>2, FS_Subset
    <3>4. Cardinality(W) >= k
      BY <1>2, <3>1, <3>2, <3>3
    <3>5. ~ Closed(c, S)
      BY <2>4, <2>6
    <3> QED  BY <2>1, <2>3, <2>4, <3>4, <3>5 DEF W
  <2> QED  BY <2>5, <2>6
<1>8. P = 0..n
  <2>1. P \in SUBSET (0..n)
    OBVIOUS
  <2> HIDE DEF P
  <2> QED  BY <1>2, <1>6, <1>7, <2>1, Stepwise
<1>9. Q(n) /\ g[n] \in U
  <2>1. n \in 0..n
    BY <1>2
  <2>2. n \in P
    BY <1>8, <2>1
  <2> QED  BY <1>4, <2>1, <2>2
<1>10. Closed(c, g[n])
  <2>1. CASE Cardinality(g[n]) >= n
    <3>1. IsFiniteSet(1..n) /\ Cardinality(1..n) = n
      BY <1>2, FS_Interval
    <3>2. g[n] \subseteq 1..n
      BY <1>9 DEF U
    <3>3. Cardinality(g[n]) \in Nat
      BY <1>5, <1>9
    <3> DEFINE all == 1..n
               R == g[n]
    <3>4. IsFiniteSet(all) /\ Cardinality(all) = n /\ R \in SUBSET all /\ Cardinality(R) \in Nat
          /\ Cardinality(R) >= n
      BY <2>1, <3>1, <3>2, <3>3
    <3> HIDE DEF all, R
    <3>5. Cardinality(R) <= Cardinality(all) /\ (Cardinality(all) = Cardinality(R) => all = R)
      BY <3>4, FS_Subset
    <3>6. Cardinality(all) = Cardinality(R)
      BY <1>2, <3>4, <3>5
    <3>7. g[n] = 1..n
      BY <3>5, <3>6 DEF all, R
    <3> QED  BY <3>7 DEF Closed, n
  <2>2. CASE ~ (Cardinality(g[n]) >= n)
    BY <1>9, <2>2
  <2> QED  BY <2>1, <2>2
<1>11. Closure(c, S) = g[n]
  BY <1>1
<1>12. g[n] \in SUBSET (1..Len(c))
  BY <1>9 DEF U, n
<1>13. S \subseteq g[n] /\ (Closed(c, S) => g[n] = S)
  BY <1>9
<1> QED  BY <1>10, <1>11, <1>12, <1>13

\* The messages of items.
Ms(x) == [k \in DOMAIN x |-> x[k].m]

LEMMA MsIs ==
  ASSUME NEW T, NEW x \in Seq(Items(T))
  PROVE  /\ Ms(x) \in Seq(T) /\ Len(Ms(x)) = Len(x) /\ Len(x) \in Nat
         /\ \A k \in 1..Len(x) : Ms(x)[k] = x[k].m /\ x[k] \in Items(T) /\ x[k].m \in T
         /\ Ms(x) = <<>> <=> x = <<>>
<1> DEFINE n == Len(x)
           z == Ms(x)
           I == Items(T)
<1>1. n \in Nat /\ DOMAIN x = 1..n /\ \A k \in 1..n : x[k] \in I
  OBVIOUS
<1>2. \A i \in I : i.m \in T
  BY DEF Items
<1>3. z = [k \in 1..n |-> z[k]] /\ \A k \in 1..n : z[k] = x[k].m /\ z[k] \in T
  BY <1>1, <1>2 DEF Ms
<1>4. x = <<>> <=> n = 0
  OBVIOUS
<1> HIDE DEF z, n, I
<1>5. z \in Seq(T) /\ Len(z) = n
  BY <1>1, <1>3, SequenceBuilt
<1>6. z = <<>> <=> Len(z) = 0
  BY <1>5
<1> QED  BY <1>1, <1>2, <1>3, <1>4, <1>5, <1>6 DEF z, n, I

\* No call twice, and all of them of S.
Counted(y, S) == CallsOnce(y) /\ \A k \in 1..Len(y) : y[k].uses \subseteq S

\* A payload so far, whose last message calls e.
Selected(y, e, S, role) ==
  /\ y \in Seq(Sided) /\ Passes(y, {}, e) /\ Counted(y, S)
  /\ y # <<>> => y[1].role = role

\* A message comes at the end.
LEMMA AddedSelected ==
  ASSUME NEW y, NEW m \in Sided, NEW S, NEW role, Selected(y, m.results, S, role),
         m.uses \intersect S = {}, y = <<>> => m.role = role
  PROVE  Selected(y \o <<m>>, m.uses, S \union m.uses, role)
<1> DEFINE T == Sided
           p == <<m>>
           z == y \o p
           R == S \union m.uses
<1>1. y \in Seq(T) /\ Passes(y, {}, m.results) /\ CallsOnce(y)
      /\ (\A k \in 1..Len(y) : y[k].uses \subseteq S) /\ (y # <<>> => y[1].role = role)
  BY DEF Selected, Counted
<1>2. m \in T
  OBVIOUS
<1> HIDE DEF T
<1>3. p \in Seq(T) /\ Passes(p, m.results, m.uses) /\ CallsOnce(p) /\ Len(p) = 1 /\ p[1] = m
  BY <1>2, OnePasses
<1> HIDE DEF p
<1>4. Passes(z, {}, m.uses)
  BY <1>1, <1>3, PassesConcat
<1>5. y \in Seq(T) /\ p \in Seq(T)
  BY <1>1, <1>3
<1>6. /\ z \in Seq(T) /\ Len(z) = Len(y) + 1 /\ Len(y) \in Nat
      /\ (\A k \in 1..Len(y) : z[k] = y[k]) /\ z[Len(y) + 1] = m
  <2>1. /\ y \o p \in Seq(T) /\ Len(y \o p) = Len(y) + Len(p) /\ Len(y) \in Nat
        /\ (\A a \in 1..Len(y) : (y \o p)[a] = y[a])
        /\ \A a \in 1..Len(p) : (y \o p)[Len(y) + a] = p[a]
    BY ONLY <1>5, Concatenated
  <2>2. 1 \in 1..1
    OBVIOUS
  <2>3. (y \o p)[Len(y) + 1] = p[1]
    BY <1>3, <2>1, <2>2
  <2> QED  BY <1>3, <2>1, <2>3
<1>7. Apart(y, p)
  BY <1>1, <1>3 DEF Apart
<1>8. CallsOnce(z)
  BY <1>1, <1>3, <1>5, <1>7, OnceConcat
<1>9. y # <<>> => 1 \in 1..Len(y)
  BY <1>1
<1>10. y = <<>> => Len(y) = 0
  OBVIOUS
<1> HIDE DEF z
<1>11. \A k \in 1..Len(z) : k \in 1..Len(y) \/ k = Len(y) + 1
  BY <1>6
<1>12. \A k \in 1..Len(z) : z[k].uses \subseteq R
  BY <1>1, <1>6, <1>11
<1>13. z # <<>> => z[1].role = role
  <2>1. CASE y = <<>>
    <3>1. z[1] = m
      BY <1>6, <1>10, <2>1
    <3> QED  BY <2>1, <3>1
  <2>2. CASE y # <<>>
    BY <1>1, <1>6, <1>9, <2>2
  <2> QED  BY <2>1, <2>2
<1>14. z \in Seq(Sided)
  BY <1>6 DEF T
<1> QED  BY <1>4, <1>8, <1>12, <1>13, <1>14 DEF Selected, Counted, z, p, R

\* A message comes in the place of the last one, which had no part in a call.
LEMMA SwappedSelected ==
  ASSUME NEW y, NEW m \in Sided, NEW S, NEW role, Selected(y, {}, S, role), y # <<>>,
         Plain(y[Len(y)]), m.results = {}, m.role = y[Len(y)].role,
         m.uses \intersect S = {}
  PROVE  Selected([y EXCEPT ![Len(y)] = m], m.uses, S \union m.uses, role)
<1> DEFINE T == Sided
           n == Len(y)
           z == [y EXCEPT ![n] = m]
           R == S \union m.uses
<1>1. y \in Seq(T) /\ Passes(y, {}, {}) /\ CallsOnce(y)
      /\ (\A k \in 1..n : y[k].uses \subseteq S) /\ y[1].role = role
  BY DEF Selected, Counted
<1>2. m \in T
  OBVIOUS
<1> HIDE DEF T
<1>3. n \in 1..Len(y) /\ n \in Nat /\ 1 \in 1..n /\ n \in 1..n /\ n = Len(y)
  BY <1>1
<1>4. /\ z \in Seq(T) /\ Len(z) = n /\ z[n] = m /\ z # <<>>
      /\ \A i \in 1..n : i # n => z[i] = y[i]
  BY <1>1, <1>2, <1>3, Replaced
<1>5. y[1].results = {} /\ \A k \in 1..(n - 1) : y[k].uses = y[k + 1].results
  BY <1>1, PassesIs
<1>6. y[n].results = {} /\ y[n].uses = {} /\ m.role = y[n].role
  BY DEF Plain
<1> HIDE DEF z, n
<1>7. z[1].results = {} /\ z[1].role = role
  <2>1. CASE n = 1
    BY <1>1, <1>4, <1>6, <2>1
  <2>2. CASE n # 1
    <3>1. z[1] = y[1]
      BY <1>3, <1>4, <2>2
    <3> QED  BY <1>1, <1>5, <3>1
  <2> QED  BY <2>1, <2>2
<1>8. ASSUME NEW k \in 1..(n - 1) PROVE z[k].uses = z[k + 1].results
  <2>1. k \in 1..n /\ k # n /\ k + 1 \in 1..n
    BY <1>3
  <2>2. z[k] = y[k]
    BY <1>4, <2>1
  <2>3. z[k + 1].results = y[k + 1].results
    <3>1. CASE k + 1 = n
      BY <1>4, <1>6, <3>1
    <3>2. CASE k + 1 # n
      BY <1>4, <2>1, <3>2
    <3> QED  BY <3>1, <3>2
  <2> QED  BY <1>5, <2>2, <2>3
<1>9. Passes(z, {}, m.uses)
  BY <1>4, <1>7, <1>8 DEF Passes
<1>10. \A k \in 1..n : z[k].uses \subseteq R /\ (k # n => z[k].uses = y[k].uses)
  BY <1>1, <1>4
<1>11. CallsOnce(z)
  <2> SUFFICES ASSUME NEW i \in 1..n, NEW j \in 1..n, z[i].uses \intersect z[j].uses # {}
               PROVE  i = j
    BY <1>4 DEF CallsOnce
  <2>1. CASE i # n /\ j # n
    <3>1. y[i].uses \intersect y[j].uses # {}
      BY <1>10, <2>1
    <3> QED  BY <1>1, <1>3, <3>1 DEF CallsOnce
  <2>2. CASE i = n /\ j # n
    <3>1. z[i].uses = m.uses /\ z[j].uses \subseteq S
      BY <1>1, <1>4, <1>10, <2>2
    <3> QED  BY <3>1
  <2>3. CASE i # n /\ j = n
    <3>1. z[j].uses = m.uses /\ z[i].uses \subseteq S
      BY <1>1, <1>4, <1>10, <2>3
    <3> QED  BY <3>1
  <2> QED  BY <2>1, <2>2, <2>3
<1>12. z \in Seq(Sided) /\ Len(z) = n
  BY <1>4 DEF T
<1> QED  BY <1>7, <1>9, <1>10, <1>11, <1>12 DEF Selected, Counted, z, R, n

Clash(acc, x) == acc # <<>> /\ acc[Len(acc)].m.role = x.m.role

\* What a step of Alternate does.
LEMMA StepCases ==
  ASSUME NEW acc, NEW x
  PROVE  \/ Clash(acc, x) /\ ~ x.crit /\ AlternateStep(acc, x) = acc
         \/ /\ ~ Clash(acc, x) \/ (x.crit /\ acc[Len(acc)].crit)
            /\ AlternateStep(acc, x) = Append(acc, x)
         \/ /\ Clash(acc, x) /\ x.crit /\ ~ acc[Len(acc)].crit
            /\ AlternateStep(acc, x) = [acc EXCEPT ![Len(acc)] = x]
<1> DEFINE u == Append(acc, x)
           v == [acc EXCEPT ![Len(acc)] = x]
           clash == acc # <<>> /\ acc[Len(acc)].m.role = x.m.role
           s == AlternateStep(acc, x)
<1>1. s = CASE ~clash -> u [] clash /\ ~x.crit -> acc
            [] clash /\ x.crit /\ acc[Len(acc)].crit -> u
            [] OTHER -> v
  BY Zenon DEF AlternateStep
<1>2. clash <=> Clash(acc, x)
  BY Zenon DEF Clash
<1> DEFINE a == x.crit
           c == acc[Len(acc)].crit
<1> HIDE DEF clash, u, v, s, a, c
<1>3. s = CASE ~clash -> u [] clash /\ ~a -> acc
            [] clash /\ a /\ c -> u
            [] OTHER -> v
  BY <1>1, Zenon DEF a, c
<1>4. CASE ~ clash
  <2>1. s = u
    BY <1>3, <1>4
  <2> QED  BY <1>2, <1>4, <2>1, Zenon DEF u, s
<1>5. CASE clash /\ ~ a
  <2>1. s = acc
    BY <1>3, <1>5
  <2> QED  BY <1>2, <1>5, <2>1, Zenon DEF a, s
<1>6. CASE clash /\ a /\ c
  <2>1. s = u
    BY <1>3, <1>6
  <2> QED  BY <1>2, <1>6, <2>1, Zenon DEF a, c, u, s
<1>7. CASE clash /\ a /\ ~ c
  <2>1. s = v
    BY <1>3, <1>7
  <2> QED  BY <1>2, <1>7, <2>1, Zenon DEF a, c, v, s
<1> QED  BY <1>4, <1>5, <1>6, <1>7, Zenon

\* u has the item x after those of acc, v has it in the place of the last.
AddsItem(u, acc, x, T) ==
  /\ u \in Seq(Items(T)) /\ u # <<>> /\ u[Len(u)] = x
  /\ Ms(u) = Ms(acc) \o <<x.m>>

SwapsItem(v, acc, x, T) ==
  /\ v \in Seq(Items(T)) /\ v # <<>> /\ v[Len(v)] = x
  /\ Ms(v) = [Ms(acc) EXCEPT ![Len(Ms(acc))] = x.m]

LEMMA MsStepped ==
  ASSUME NEW T, NEW acc \in Seq(Items(T)), NEW x \in Items(T)
  PROVE  /\ AddsItem(Append(acc, x), acc, x, T)
         /\ acc # <<>> => SwapsItem([acc EXCEPT ![Len(acc)] = x], acc, x, T)
<1> DEFINE I == Items(T)
           n == Len(acc)
           y == Ms(acc)
           u == Append(acc, x)
           v == [acc EXCEPT ![n] = x]
           m == x.m
           w == y \o <<m>>
           z == [y EXCEPT ![n] = m]
<1>1. acc \in Seq(I) /\ x \in I /\ n \in Nat /\ DOMAIN acc = 1..n
  OBVIOUS
<1>2. y \in Seq(T) /\ Len(y) = n /\ (\A k \in 1..n : y[k] = acc[k].m) /\ m \in T
  <2>1. m \in T
    BY DEF Items
  <2> QED  BY <2>1, MsIs
<1> HIDE DEF I, y, m
<1>3. u \in Seq(I) /\ Len(u) = n + 1 /\ u[n + 1] = x /\ \A k \in 1..n : u[k] = acc[k]
  BY <1>1
<1>4. w \in Seq(T) /\ Len(w) = n + 1 /\ w[n + 1] = m /\ \A k \in 1..n : w[k] = y[k]
  <2> DEFINE q == <<m>>
  <2>1. y \in Seq(T) /\ q \in Seq(T) /\ Len(q) = 1 /\ q[1] = m
    BY <1>2
  <2> HIDE DEF q
  <2>10. y \in Seq(T) /\ q \in Seq(T)
    BY <2>1
  <2>2. /\ y \o q \in Seq(T) /\ Len(y \o q) = Len(y) + Len(q)
        /\ (\A a \in 1..Len(y) : (y \o q)[a] = y[a])
        /\ \A a \in 1..Len(q) : (y \o q)[Len(y) + a] = q[a]
    BY ONLY <2>10, Concatenated
  <2>3. 1 \in 1..1
    OBVIOUS
  <2> QED  BY <1>2, <2>1, <2>2, <2>3 DEF q
<1> HIDE DEF u, w
<1>5. Ms(u) = w
  <2>1. DOMAIN u = 1..(n + 1) /\ w = [k \in 1..(n + 1) |-> w[k]]
    BY <1>1, <1>3, <1>4
  <2>2. \A k \in 1..(n + 1) : u[k].m = w[k]
    <3>1. \A k \in 1..(n + 1) : k \in 1..n \/ k = n + 1
      BY <1>1
    <3> QED  BY <1>2, <1>3, <1>4, <3>1 DEF m
  <2> QED  BY <2>1, <2>2 DEF Ms
<1>6. u # <<>>
  BY <1>1, <1>3
<1>7. ASSUME acc # <<>>
      PROVE  v \in Seq(I) /\ v # <<>> /\ Len(v) = n /\ v[n] = x /\ Ms(v) = z
  <2>1. n \in 1..n
    BY <1>1, <1>7
  <2>2. n \in 1..Len(acc)
    BY <2>1
  <2>3. /\ v \in Seq(I) /\ Len(v) = Len(acc) /\ v[n] = x /\ v # <<>>
        /\ \A i \in 1..Len(acc) : i # n => v[i] = acc[i]
    <3>1. acc \in Seq(I) /\ x \in I
      BY <1>1
    <3> HIDE DEF n
    <3> QED  BY ONLY <2>2, <3>1, Replaced
  <2>30. Len(v) = n /\ \A i \in 1..n : i # n => v[i] = acc[i]
    BY <2>3
  <2>4. n \in 1..Len(y)
    BY <1>2, <2>1
  <2>5. /\ z \in Seq(T) /\ Len(z) = n /\ z[n] = m
        /\ \A i \in 1..n : i # n => z[i] = y[i]
    BY <1>2, <2>4, Replaced
  <2> HIDE DEF v, z, n
  <2>6. DOMAIN v = 1..n /\ z = [k \in 1..n |-> z[k]]
    BY <2>3, <2>30, <2>5
  <2>7. \A k \in 1..n : v[k].m = z[k]
    BY <1>2, <2>3, <2>30, <2>5 DEF m
  <2>8. Ms(v) = z
    BY <2>6, <2>7 DEF Ms
  <2> QED  BY <2>3, <2>30, <2>8
<1>8. u[Len(u)] = x
  BY <1>3
<1>9. AddsItem(u, acc, x, T)
  BY <1>3, <1>5, <1>6, <1>8, Zenon DEF AddsItem, I, y, m, w
<1>10. ASSUME acc # <<>> PROVE SwapsItem(v, acc, x, T)
  <2>1. v \in Seq(I) /\ v # <<>> /\ Len(v) = n /\ v[n] = x /\ Ms(v) = z /\ n = Len(y)
    BY <1>2, <1>7, <1>10
  <2> HIDE DEF v
  <2>2. Ms(v) = [Ms(acc) EXCEPT ![Len(Ms(acc))] = x.m]
    BY <2>1, Zenon DEF y, m, z
  <2>3. v[Len(v)] = x
    BY <2>1, Zenon
  <2> QED  BY <2>1, <2>2, <2>3, Zenon DEF SwapsItem, I
<1> QED  BY <1>9, <1>10 DEF u

\* A payload so far whose last message, when half of a call, is kept for it.
Alternating(acc, e, S, role) ==
  /\ acc \in Seq(Items(Sided)) /\ Selected(Ms(acc), e, S, role)
  /\ acc # <<>> => acc[Len(acc)].crit \/ Plain(acc[Len(acc)].m)

\* The step of Alternate keeps the halves of the calls together.
LEMMA StepAlternates ==
  ASSUME NEW acc, NEW x \in Items(Sided), NEW S, NEW role,
         Alternating(acc, x.m.results, S, role),
         x.crit \/ Plain(x.m), x.m.uses \intersect S = {},
         acc = <<>> => x.m.role = role
  PROVE  /\ Alternating(AlternateStep(acc, x), x.m.uses, S \union x.m.uses, role)
         /\ AlternateStep(acc, x) # <<>>
<1> DEFINE T == Sided
           n == Len(acc)
           y == Ms(acc)
           m == x.m
           s == AlternateStep(acc, x)
           R == S \union m.uses
           u == Append(acc, x)
           v == [acc EXCEPT ![n] = x]
<1>1. acc \in Seq(Items(T)) /\ Selected(y, m.results, S, role)
  BY Zenon DEF Alternating
<1>2. m \in Sided /\ x \in Items(T)
  BY DEF Items
<1>20. acc \in Seq(Items(T)) /\ x \in Items(T)
  BY <1>1, <1>2
<1>3. acc # <<>> => acc[n].crit \/ Plain(acc[n].m)
  BY Zenon DEF Alternating
<1>4. /\ Len(y) = n /\ (y = <<>> <=> acc = <<>>) /\ (\A k \in 1..n : y[k] = acc[k].m)
      /\ (acc # <<>> => n \in 1..n)
  BY <1>1, MsIs
<1>5. CASE s = u
  <2>1. Selected(y \o <<m>>, m.uses, R, role)
    BY <1>1, <1>2, <1>4, AddedSelected
  <2>20. AddsItem(u, acc, x, T)
    <3> HIDE DEF T
    <3> QED  BY ONLY <1>20, MsStepped
  <2> HIDE DEF u
  <2>2. u \in Seq(Items(T)) /\ u # <<>> /\ u[Len(u)] = x /\ Ms(u) = y \o <<m>>
    BY <2>20, Zenon DEF AddsItem
  <2>3. u[Len(u)].crit \/ Plain(u[Len(u)].m)
    BY <2>2, Zenon
  <2> HIDE DEF R, m, y
  <2>4. Alternating(u, m.uses, R, role)
    BY <2>1, <2>2, <2>3, Zenon DEF Alternating, T
  <2> QED  BY <1>5, <2>2, <2>4 DEF R, m
<1>6. CASE s = acc /\ Clash(acc, x) /\ ~ x.crit
  <2>1. Plain(m) /\ acc # <<>>
    BY <1>6, Zenon DEF Clash
  <2>2. m.uses = {} /\ m.results = {} /\ R = S
    BY <2>1 DEF Plain
  <2>3. Alternating(acc, m.uses, R, role)
    BY <2>2
  <2> QED  BY <1>6, <2>1, <2>3
<1>7. CASE s = v /\ Clash(acc, x) /\ x.crit /\ ~ acc[n].crit
  <2>1. acc # <<>> /\ acc[n].m.role = m.role
    BY <1>7, Zenon DEF Clash
  <2>2. Plain(acc[n].m)
    BY <1>3, <1>7, <2>1, Zenon
  <2>3. y # <<>> /\ y[Len(y)] = acc[n].m
    BY <1>4, <2>1
  <2>4. y[Len(y)].uses = m.results
    <3>1. Passes(y, {}, m.results)
      BY <1>1 DEF Selected
    <3> QED  BY <2>3, <3>1 DEF Passes
  <2>5. m.results = {}
    BY <2>2, <2>3, <2>4 DEF Plain
  <2>6. Plain(y[Len(y)]) /\ m.role = y[Len(y)].role
    BY <2>1, <2>2, <2>3
  <2>7. Selected(y, {}, S, role)
    BY <1>1, <2>5
  <2> HIDE DEF y, m
  <2>8. Selected([y EXCEPT ![Len(y)] = m], m.uses, R, role)
    <3>1. m.uses \intersect S = {}
      BY DEF m
    <3> QED  BY <1>2, <2>3, <2>5, <2>6, <2>7, <3>1, SwappedSelected
  <2>90. SwapsItem(v, acc, x, T)
    <3>1. acc # <<>>
      BY <2>1
    <3> HIDE DEF T
    <3> QED  BY ONLY <1>20, <3>1, MsStepped
  <2> HIDE DEF v
  <2>9. /\ v \in Seq(Items(T)) /\ v # <<>> /\ v[Len(v)] = x
        /\ Ms(v) = [y EXCEPT ![Len(y)] = m]
    BY <2>90, Zenon DEF SwapsItem, y, m
  <2>10. v[Len(v)].crit \/ Plain(v[Len(v)].m)
    BY <2>9, Zenon
  <2> HIDE DEF R
  <2>11. Alternating(v, m.uses, R, role)
    BY <2>8, <2>9, <2>10, Zenon DEF Alternating, T
  <2> QED  BY <1>7, <2>9, <2>11 DEF R, m
<1>8. \/ s = u \/ (s = acc /\ Clash(acc, x) /\ ~ x.crit)
      \/ (s = v /\ Clash(acc, x) /\ x.crit /\ ~ acc[n].crit)
  BY StepCases, Zenon
<1> QED  BY <1>5, <1>6, <1>7, <1>8

\* The first h items are a payload, halves of calls marked; the calls of the
\* first k of them.
Orderly(items, h) ==
  /\ \A k \in 1..h : items[k].crit \/ Plain(items[k].m)
  /\ h >= 1 => items[1].m.results = {}
  /\ \A k \in 1..(h - 1) : items[k].m.uses = items[k + 1].m.results
  /\ \A i, j \in 1..h : items[i].m.uses \intersect items[j].m.uses # {} => i = j

CallsOf(items, k) == UNION {items[i].m.uses : i \in 1..k}
LastCalls(items, k) == IF k = 0 THEN {} ELSE items[k].m.uses

\* Alternate on the first h items.
LEMMA AlternatePrefix ==
  ASSUME NEW items \in Seq(Items(Sided)), NEW h \in 0..Len(items), Orderly(items, h),
         NEW g \in Values(Len(items), Seq(Items(Sided))), g[0] = <<>>,
         \A k \in 1..Len(items) : g[k] = AlternateStep(g[k - 1], items[k])
  PROVE  /\ Alternating(g[h], LastCalls(items, h), CallsOf(items, h), items[1].m.role)
         /\ h # 0 => g[h] # <<>>
<1> DEFINE T == Sided
           N == Len(items)
           role == items[1].m.role
           OK(k) == /\ Alternating(g[k], LastCalls(items, k), CallsOf(items, k), role)
                    /\ k # 0 => g[k] # <<>>
           P == {k \in 0..h : OK(k)}
<1>1. N \in Nat /\ h \in 0..N /\ h \in Nat /\ \A k \in 1..N : items[k] \in Items(T)
  OBVIOUS
<1>2. \A k \in 1..N : g[k] = AlternateStep(g[k - 1], items[k])
  OBVIOUS
<1>3. /\ \A k \in 1..h : items[k].crit \/ Plain(items[k].m)
      /\ h >= 1 => items[1].m.results = {}
      /\ \A k \in 1..(h - 1) : items[k].m.uses = items[k + 1].m.results
      /\ \A i, j \in 1..h : items[i].m.uses \intersect items[j].m.uses # {} => i = j
  BY Zenon DEF Orderly
<1> HIDE DEF N
<1>4. OK(0)
  <2>1. LastCalls(items, 0) = {} /\ g[0] = <<>>
    BY DEF LastCalls
  <2>2. Ms(<<>>) = <<>> /\ <<>> \in Seq(Items(Sided)) /\ <<>> \in Seq(Sided) /\ Len(<<>>) = 0
        /\ 1..0 = {}
    <3>1. <<>> \in Seq(Items(Sided)) /\ <<>> \in Seq(Sided) /\ Len(<<>>) = 0
      BY EmptySeq
    <3>2. Ms(<<>>) = <<>>
      BY <3>1, MsIs
    <3> QED  BY <3>1, <3>2
  <2> DEFINE e == <<>>
             R == CallsOf(items, 0)
  <2>3. e = <<>> /\ Ms(e) = e /\ e \in Seq(Items(Sided)) /\ e \in Seq(Sided) /\ Len(e) = 0
        /\ 1..Len(e) = {}
    BY <2>2
  <2> HIDE DEF e, R
  <2>4. Selected(Ms(e), {}, R, role)
    BY <2>3 DEF Selected, Passes, Counted, CallsOnce
  <2>5. Alternating(e, {}, R, role)
    BY <2>3, <2>4 DEF Alternating
  <2> QED  BY <2>1, <2>3, <2>5 DEF R
<1>5. ASSUME NEW k \in 1..h, OK(k - 1) PROVE OK(k)
  <2> DEFINE acc == g[k - 1]
             x == items[k]
             S == CallsOf(items, k - 1)
  <2>1. k \in 1..N /\ k - 1 \in 0..N /\ k # 0 /\ (k - 1 = 0 <=> k = 1)
    BY <1>1
  <2>2. x \in Items(Sided) /\ (x.crit \/ Plain(x.m))
    BY <1>1, <1>3, <2>1
  <2>3. x.m.results = LastCalls(items, k - 1)
    <3>1. CASE k = 1
      <4>1. h >= 1 /\ k - 1 = 0
        BY <1>1, <3>1
      <4>2. LastCalls(items, k - 1) = {}
        BY <4>1 DEF LastCalls
      <4> QED  BY <1>3, <3>1, <4>1, <4>2
    <3>2. CASE k # 1
      <4>1. k - 1 \in 1..(h - 1) /\ (k - 1) + 1 = k /\ k - 1 # 0
        BY <1>1, <3>2
      <4>2. items[k - 1].m.uses = items[k].m.results
        BY <1>3, <4>1
      <4>3. LastCalls(items, k - 1) = items[k - 1].m.uses
        BY <4>1 DEF LastCalls
      <4> QED  BY <4>2, <4>3
    <3> QED  BY <3>1, <3>2
  <2>4. x.m.uses \intersect S = {}
    <3>1. \A i \in 1..(k - 1) : i \in 1..h /\ i # k
      BY <1>1
    <3>2. \A i \in 1..(k - 1) : items[i].m.uses \intersect items[k].m.uses = {}
      BY <1>3, <3>1
    <3> QED  BY <3>2 DEF CallsOf
  <2>5. acc = <<>> => x.m.role = role
    BY <1>5, <2>1
  <2>6. Alternating(acc, x.m.results, S, role)
    BY <1>5, <2>3
  <2>7. S \union x.m.uses = CallsOf(items, k) /\ x.m.uses = LastCalls(items, k)
    <3>1. 1..k = (1..(k - 1)) \union {k}
      BY <2>1
    <3>2. CallsOf(items, k) = CallsOf(items, k - 1) \union items[k].m.uses
      BY <3>1 DEF CallsOf
    <3> QED  BY <2>1, <3>2 DEF LastCalls
  <2>8. g[k] = AlternateStep(acc, x)
    BY <1>2, <2>1
  <2> HIDE DEF acc, x, S
  <2>9. /\ Alternating(AlternateStep(acc, x), x.m.uses, S \union x.m.uses, role)
        /\ AlternateStep(acc, x) # <<>>
    BY <2>2, <2>4, <2>5, <2>6, StepAlternates
  <2> QED  BY <2>7, <2>8, <2>9
<1> HIDE DEF OK
<1>6. P = 0..h
  <2>1. 0 \in P /\ P \in SUBSET (0..h)
    BY <1>1, <1>4
  <2>2. \A k \in 1..h : k - 1 \in P => k \in P
    BY <1>1, <1>5
  <2> HIDE DEF P
  <2> QED  BY <1>1, <2>1, <2>2, Stepwise
<1>7. OK(h)
  BY <1>1, <1>6
<1> QED  BY <1>7 DEF OK

\* y has the messages of the items x.
Tracks(x, y) == Len(x) = Len(y) /\ \A k \in 1..Len(x) : x[k].m = y[k]

LEMMA TracksConcat ==
  ASSUME NEW I, NEW T, NEW x \in Seq(I), NEW p \in Seq(I), NEW y \in Seq(T),
         NEW q \in Seq(T), Tracks(x, y), Tracks(p, q)
  PROVE  Tracks(x \o p, y \o q)
<1> DEFINE u == x \o p
           v == y \o q
           n == Len(x)
           k == Len(p)
<1>1. /\ Len(u) = n + k /\ n \in Nat /\ k \in Nat
      /\ (\A a \in 1..n : u[a] = x[a]) /\ (\A a \in 1..k : u[n + a] = p[a])
  BY Concatenated
<1>2. /\ Len(v) = Len(y) + Len(q)
      /\ (\A a \in 1..Len(y) : v[a] = y[a]) /\ (\A a \in 1..Len(q) : v[Len(y) + a] = q[a])
  BY Concatenated
<1>3. Len(y) = n /\ Len(q) = k /\ (\A a \in 1..n : x[a].m = y[a])
      /\ (\A a \in 1..k : p[a].m = q[a])
  BY DEF Tracks
<1> HIDE DEF u, v, n, k
<1>4. ASSUME NEW a \in 1..Len(u) PROVE u[a].m = v[a]
  <2>1. CASE a \in 1..n
    BY <1>1, <1>2, <1>3, <2>1
  <2>2. CASE a \notin 1..n
    <3>1. a - n \in 1..k /\ n + (a - n) = a
      BY <1>1, <2>2
    <3>2. u[n + (a - n)] = p[a - n] /\ v[n + (a - n)] = q[a - n]
      BY <1>1, <1>2, <1>3, <3>1
    <3> QED  BY <1>3, <3>1, <3>2
  <2> QED  BY <2>1, <2>2
<1> QED  BY <1>1, <1>2, <1>3, <1>4 DEF Tracks, u, v

LEMMA FlattenTracks ==
  ASSUME NEW I, NEW T, NEW ss \in Seq(Seq(I)), NEW tt \in Seq(Seq(T)),
         Len(ss) = Len(tt), \A i \in 1..Len(ss) : Tracks(ss[i], tt[i])
  PROVE  Tracks(FlattenSeq(ss), FlattenSeq(tt))
<1> DEFINE n == Len(ss)
           U == Seq(I)
           V == Seq(T)
<1>1. PICK g \in Values(n, U) : Folds(g, ss) /\ FlattenSeq(ss) = g[n]
  BY FlattenFolds
<1>2. PICK h \in Values(Len(tt), V) : Folds(h, tt) /\ FlattenSeq(tt) = h[Len(tt)]
  BY FlattenFolds
<1>3. n \in Nat /\ Len(tt) = n /\ (\A i \in 1..n : ss[i] \in U) /\ \A i \in 1..n : tt[i] \in V
  <2>1. \A i \in 1..Len(tt) : tt[i] \in V
    OBVIOUS
  <2> QED  BY <2>1
<1>4. g[0] = <<>> /\ \A i \in 1..n : g[i] = g[i - 1] \o ss[i]
  BY <1>1 DEF Folds
<1>5. h[0] = <<>> /\ \A i \in 1..n : h[i] = h[i - 1] \o tt[i]
  BY <1>2, <1>3 DEF Folds
<1>6. \A i \in 1..n : Tracks(ss[i], tt[i])
  OBVIOUS
<1>7. h \in Values(n, V) /\ FlattenSeq(tt) = h[n]
  BY <1>2, <1>3
<1> HIDE DEF n
<1> DEFINE P == {k \in 0..n : Tracks(g[k], h[k])}
<1>8. 0 \in P
  <2>1. 0 \in 0..n /\ Len(<<>>) = 0
    BY <1>3
  <2> QED  BY <1>4, <1>5, <2>1 DEF Tracks
<1>9. ASSUME NEW k \in 1..n, k - 1 \in P PROVE k \in P
  <2> HIDE DEF U, V
  <2>1. k \in 0..n /\ k - 1 \in 0..n
    BY <1>3
  <2>2. g[k - 1] \in U /\ ss[k] \in U /\ h[k - 1] \in V /\ tt[k] \in V
    BY <1>1, <1>3, <1>7, <2>1 DEF Values
  <2>3. Tracks(g[k - 1], h[k - 1]) /\ Tracks(ss[k], tt[k])
    BY <1>6, <1>9
  <2>4. Tracks(g[k - 1] \o ss[k], h[k - 1] \o tt[k])
    BY <2>2, <2>3, TracksConcat DEF U, V
  <2> QED  BY <1>4, <1>5, <2>1, <2>4
<1>10. P = 0..n
  <2>1. P \in SUBSET (0..n)
    OBVIOUS
  <2> HIDE DEF P
  <2> QED  BY <1>3, <1>8, <1>9, <2>1, Stepwise
<1>11. n \in P
  BY <1>3, <1>10
<1> QED  BY <1>1, <1>7, <1>11

Calm(items, h) == \A k \in 1..h : items[k].crit \/ Plain(items[k].m)

Chained(items, h) ==
  /\ h >= 1 => items[1].m.results = {}
  /\ \A k \in 1..(h - 1) : items[k].m.uses = items[k + 1].m.results
  /\ \A i, j \in 1..h : items[i].m.uses \intersect items[j].m.uses # {} => i = j

LEMMA OrderlyIs ==
  ASSUME NEW items, NEW h, Calm(items, h), Chained(items, h)
  PROVE  Orderly(items, h)
  BY Zenon DEF Calm, Chained, Orderly

\* A payload that waits for the answer to the calls v, or does not make them.
Ended(z, v, S, role) ==
  \/ Selected(z, v, S, role)
  \/ Selected(z, {}, S, role) /\ v \intersect S = {}

\* What the history becomes: its last message may call what the question
\* answers, without being marked for it.
LEMMA PrefixEnds ==
  ASSUME NEW items \in Seq(Items(Sided)), NEW h \in 0..Len(items), Chained(items, h),
         NEW g \in Values(Len(items), Seq(Items(Sided))), g[0] = <<>>,
         \A k \in 1..Len(items) : g[k] = AlternateStep(g[k - 1], items[k]),
         NEW v,
         \/ /\ Calm(items, h)
            /\ v = LastCalls(items, h) \/ (LastCalls(items, h) = {} /\ v \intersect CallsOf(items, h) = {})
         \/ h >= 1 /\ Calm(items, h - 1) /\ ~ items[h].crit /\ items[h].m.uses = v /\ v # {}
  PROVE  \E S : Ended(Ms(g[h]), v, S, items[1].m.role)
<1> DEFINE role == items[1].m.role
<1>1. h \in Nat /\ Len(items) \in Nat
  OBVIOUS
<1>2. CASE /\ Calm(items, h)
           /\ v = LastCalls(items, h) \/ (LastCalls(items, h) = {} /\ v \intersect CallsOf(items, h) = {})
  <2>1. Orderly(items, h)
    BY <1>2, OrderlyIs
  <2>2. Alternating(g[h], LastCalls(items, h), CallsOf(items, h), role)
    BY <2>1, AlternatePrefix
  <2>3. Selected(Ms(g[h]), LastCalls(items, h), CallsOf(items, h), role)
    BY <2>2, Zenon DEF Alternating
  <2> QED  BY <1>2, <2>3 DEF Ended
<1>3. CASE h >= 1 /\ Calm(items, h - 1) /\ ~ items[h].crit /\ items[h].m.uses = v /\ v # {}
  <2> DEFINE acc == g[h - 1]
             x == items[h]
             m == x.m
             S == CallsOf(items, h - 1)
             y == Ms(acc)
             s == AlternateStep(acc, x)
             T == Sided
  <2>1. h \in 1..Len(items) /\ h - 1 \in 0..Len(items) /\ h \in 1..h
    BY <1>1, <1>3
  <2>2. x \in Items(T) /\ m \in T
    <3>1. x \in Items(T)
      BY <2>1
    <3> QED  BY <3>1 DEF Items
  <2>3. Chained(items, h - 1)
    <3>1. /\ h >= 1 => items[1].m.results = {}
          /\ \A k \in 1..(h - 1) : items[k].m.uses = items[k + 1].m.results
          /\ \A i, j \in 1..h : items[i].m.uses \intersect items[j].m.uses # {} => i = j
      BY Zenon DEF Chained
    <3>2. (h - 1 >= 1 => h >= 1) /\ (\A k \in 1..((h - 1) - 1) : k \in 1..(h - 1))
          /\ \A i \in 1..(h - 1) : i \in 1..h
      BY <1>1
    <3> QED  BY <3>1, <3>2 DEF Chained
  <2>4. Orderly(items, h - 1)
    BY <1>3, <2>3, OrderlyIs
  <2>5. /\ Alternating(acc, LastCalls(items, h - 1), S, role)
        /\ h - 1 # 0 => acc # <<>>
    BY <2>1, <2>4, AlternatePrefix
  <2>6. m.results = {}
    BY <1>3, <2>2 DEF Sided
  <2>7. LastCalls(items, h - 1) = {}
    <3>1. CASE h = 1
      BY <3>1 DEF LastCalls
    <3>2. CASE h # 1
      <4>1. h - 1 \in 1..(h - 1) /\ (h - 1) + 1 = h /\ h - 1 # 0
        BY <1>1, <1>3, <3>2
      <4>2. items[h - 1].m.uses = items[(h - 1) + 1].m.results
        BY <4>1, Zenon DEF Chained
      <4> QED  BY <2>6, <4>1, <4>2 DEF LastCalls
    <3> QED  BY <3>1, <3>2
  <2>8. Selected(y, {}, S, role) /\ acc \in Seq(Items(T))
    BY <2>5, <2>7, Zenon DEF Alternating
  <2>9. v \intersect S = {}
    <3>1. \A i \in 1..(h - 1) : i \in 1..h /\ i # h
      BY <1>1
    <3>2. \A i \in 1..(h - 1) : items[i].m.uses \intersect items[h].m.uses = {}
      BY <2>1, <3>1 DEF Chained
    <3> QED  BY <1>3, <3>2 DEF CallsOf
  <2>10. g[h] = s
    BY <2>1
  <2>11. CASE s = acc
    BY <2>8, <2>9, <2>10, <2>11 DEF Ended
  <2>12. CASE s = Append(acc, x)
    <3>1. AddsItem(s, acc, x, T)
      <4>1. AddsItem(Append(acc, x), acc, x, T)
        <5>1. acc \in Seq(Items(T)) /\ x \in Items(T)
          BY <2>2, <2>8
        <5> HIDE DEF acc, x, T
        <5> QED  BY ONLY <5>1, MsStepped
      <4> QED  BY <2>12, <4>1
    <3>2. Ms(s) = y \o <<m>>
      BY <3>1, Zenon DEF AddsItem
    <3>3. y = <<>> => m.role = role
      <4>1. y = <<>> => acc = <<>>
        BY <2>8, MsIs
      <4>2. acc = <<>> => h = 1
        BY <1>1, <2>5
      <4> QED  BY <4>1, <4>2
    <3>4. Selected(y, m.results, S, role) /\ m.uses \intersect S = {}
      BY <1>3, <2>6, <2>8, <2>9
    <3> HIDE DEF y, m, S, role
    <3>5. Selected(y \o <<m>>, m.uses, S \union m.uses, role)
      BY <2>2, <3>3, <3>4, AddedSelected DEF T
    <3>6. m.uses = v
      BY <1>3 DEF m
    <3> QED  BY <2>10, <3>2, <3>5, <3>6 DEF Ended, role
  <2>13. s = acc \/ s = Append(acc, x)
    <3>1. ~ x.crit
      BY <1>3, Zenon
    <3> HIDE DEF x, acc
    <3> QED  BY <3>1, StepCases, Zenon
  <2> QED  BY <2>11, <2>12, <2>13
<1> QED  BY <1>2, <1>3

LEMMA OrphansAre ==
  ASSUME NEW b
  PROVE  Orphans(b) = ResultsOf(b) \ UsesOf(b)
  BY Zenon DEF Orphans, ResultsOf, UsesOf

\* What Alternate returns when no result is without its call.
LEMMA AlternateEnds ==
  ASSUME NEW items \in Seq(Items(Sided)), NEW h \in 0..Len(items), Chained(items, h),
         items # <<>> => IsUser(items[1].m), NEW v,
         \/ /\ Calm(items, h)
            /\ v = LastCalls(items, h) \/ (LastCalls(items, h) = {} /\ v \intersect CallsOf(items, h) = {})
         \/ h >= 1 /\ Calm(items, h - 1) /\ ~ items[h].crit /\ items[h].m.uses = v /\ v # {},
         \/ Len(items) = h /\ v = {}
         \/ /\ Len(items) = h + 1 /\ ~ items[h + 1].crit /\ items[h + 1].m.results = v
            /\ IsUser(items[h + 1].m),
         Orphans(Alternate(items)) = {}
  PROVE  Linked(Alternate(items)) /\ CallsOnce(Alternate(items))
<1> DEFINE T == Sided
           out == Alternate(items)
           role == items[1].m.role
<1>1. PICK g \in Values(Len(items), Seq(Items(T))) :
        /\ g[0] = <<>>
        /\ \A k \in 1..Len(items) : g[k] = AlternateStep(g[k - 1], items[k])
        /\ out = [k \in DOMAIN g[Len(items)] |-> g[Len(items)][k].m]
  BY AlternateFolds
<1>2. PICK S : Ended(Ms(g[h]), v, S, role)
  BY <1>1, PrefixEnds
<1>3. out = Ms(g[Len(items)])
  BY <1>1 DEF Ms
<1>4. h \in Nat /\ h \in 0..Len(items) /\ Len(items) \in Nat
  OBVIOUS
<1>5. items # <<>> => role = "user"
  BY DEF IsUser
<1> HIDE DEF out
<1>6. ASSUME NEW R, Selected(out, {}, R, role) PROVE Linked(out) /\ CallsOnce(out)
  <2>1. out \in Seq(Sided) /\ Passes(out, {}, {}) /\ CallsOnce(out)
        /\ (out # <<>> => out[1].role = role)
    BY <1>6 DEF Selected, Counted
  <2>2. items = <<>> => out = <<>>
    <3>1. ASSUME items = <<>> PROVE out = <<>>
      <4>1. Len(items) = 0
        BY <3>1
      <4>2. g[0] = <<>>
        BY <1>1
      <4>3. Ms(<<>>) = <<>>
        <5>1. <<>> \in Seq(Items(Sided))
          BY EmptySeq
        <5> QED  BY <5>1, MsIs
      <4> QED  BY <1>3, <4>1, <4>2, <4>3
    <3> QED  BY <3>1
  <2>3. Begins(out)
    BY <1>5, <2>1, <2>2 DEF Begins, IsUser
  <2> QED  BY <2>1, <2>3 DEF Linked
<1>7. CASE Len(items) = h /\ v = {}
  <2>1. Selected(out, {}, S, role)
    BY <1>2, <1>3, <1>7 DEF Ended
  <2> QED  BY <1>6, <2>1 DEF out
<1>8. CASE /\ Len(items) = h + 1 /\ ~ items[h + 1].crit /\ items[h + 1].m.results = v
           /\ IsUser(items[h + 1].m)
  <2> DEFINE acc == g[h]
             x == items[h + 1]
             m == x.m
             y == Ms(acc)
             s == AlternateStep(acc, x)
  <2>1. h + 1 \in 1..Len(items) /\ (h + 1) - 1 = h /\ h \in 0..Len(items)
    BY <1>4, <1>8
  <2>2. g[Len(items)] = s
    BY <1>1, <1>8, <2>1
  <2>3. x \in Items(T) /\ m \in T /\ acc \in Seq(Items(T))
    <3>1. x \in Items(T)
      BY <2>1
    <3>2. acc \in Seq(Items(T))
      BY <1>1, <2>1 DEF Values
    <3> QED  BY <3>1, <3>2 DEF Items
  <2>4. m.results = v /\ m.role = "user" /\ m.uses = {}
    BY <1>8, <2>3 DEF IsUser, Sided
  <2>5. items # <<>> /\ role = "user"
    <3>1. Len(items) # 0
      BY <1>4, <1>8
    <3>2. items # <<>>
      BY <3>1
    <3> QED  BY <1>5, <3>2
  <2>6. Len(y) = Len(acc) /\ Len(acc) \in Nat /\ (y = <<>> <=> acc = <<>>)
        /\ (\A k \in 1..Len(acc) : y[k] = acc[k].m) /\ y \in Seq(Sided)
    BY <2>3, MsIs
  <2>7. CASE s = acc /\ Clash(acc, x)
    <3>1. out = y
      BY <1>3, <2>2, <2>7
    <3>2. CASE Selected(y, {}, S, role)
      BY <1>6, <3>1, <3>2 DEF out
    <3>3. CASE Selected(y, v, S, role)
      <4>1. acc # <<>> /\ acc[Len(acc)].m.role = m.role
        BY <2>7, Zenon DEF Clash
      <4>2. Len(acc) \in 1..Len(acc)
        BY <2>6, <4>1
      <4>3. y[Len(y)] \in Sided /\ IsUser(y[Len(y)])
        BY <2>4, <2>6, <4>1, <4>2 DEF IsUser
      <4>4. y[Len(y)].uses = {}
        BY <4>3 DEF Sided
      <4>5. y[Len(y)].uses = v
        <5>1. Passes(y, {}, v) /\ y # <<>>
          BY <2>6, <3>3, <4>1 DEF Selected
        <5> QED  BY <5>1 DEF Passes
      <4>6. Selected(y, {}, S, role)
        BY <3>3, <4>4, <4>5
      <4> QED  BY <1>6, <3>1, <4>6 DEF out
    <3> QED  BY <1>2, <3>2, <3>3, Zenon DEF Ended, y, acc
  <2>8. CASE s = Append(acc, x)
    <3>1. AddsItem(s, acc, x, T)
      <4>1. AddsItem(Append(acc, x), acc, x, T)
        <5>1. acc \in Seq(Items(T)) /\ x \in Items(T)
          BY <2>3
        <5> HIDE DEF acc, x, T
        <5> QED  BY ONLY <5>1, MsStepped
      <4> QED  BY <2>8, <4>1
    <3>2. out = y \o <<m>>
      BY <1>3, <2>2, <3>1, Zenon DEF AddsItem
    <3>3. CASE Selected(y, v, S, role)
      <4>1. Selected(y, m.results, S, role) /\ m.uses \intersect S = {} /\ m.role = role
        BY <2>4, <2>5, <3>3
      <4> HIDE DEF y, m
      <4>2. Selected(y \o <<m>>, m.uses, S \union m.uses, role)
        BY <2>3, <4>1, AddedSelected DEF T
      <4>3. Selected(out, {}, S \union m.uses, role)
        BY <2>4, <3>2, <4>2
      <4> QED  BY <1>6, <4>3 DEF out
    <3>4. CASE Selected(y, {}, S, role) /\ v \intersect S = {} /\ v # {}
      <4> DEFINE q == <<m>>
      <4>1. q \in Seq(T) /\ Len(q) = 1 /\ q[1] = m
        BY <2>3, OnePasses
      <4>2. y \in Seq(T) /\ q \in Seq(T)
        BY <2>6, <4>1
      <4> HIDE DEF q, y, m, T
      <4>3. /\ Len(y \o q) = Len(y) + Len(q) /\ Len(y) \in Nat /\ y \o q \in Seq(T)
            /\ (\A a \in 1..Len(y) : (y \o q)[a] = y[a])
            /\ \A a \in 1..Len(q) : (y \o q)[Len(y) + a] = q[a]
        BY ONLY <4>2, Concatenated
      <4>4. out = y \o q
        BY <3>2 DEF q
      <4>5. /\ Len(out) = Len(y) + 1 /\ Len(y) \in Nat /\ out \in Seq(T)
            /\ (\A a \in 1..Len(y) : out[a] = y[a]) /\ out[Len(y) + 1] = m
        <5>1. 1 \in 1..1
          OBVIOUS
        <5> QED  BY <4>1, <4>3, <4>4, <5>1
      <4>6. DOMAIN out = 1..Len(out) /\ Len(y) + 1 \in 1..Len(out)
            /\ \A a \in 1..Len(out) : a \in 1..Len(y) \/ a = Len(y) + 1
        BY <4>5
      <4>7. \A a \in 1..Len(y) : y[a].uses \subseteq S
        BY <3>4 DEF Selected, Counted
      <4>8. \A a \in 1..Len(out) : out[a].uses \subseteq S
        BY <2>4, <4>5, <4>6, <4>7
      <4>9. out[Len(y) + 1].results = v
        BY <2>4, <4>5
      <4>10. UNION {out[a].uses : a \in DOMAIN out} \subseteq S
        BY <4>6, <4>8
      <4>11. v \subseteq UNION {out[a].results : a \in DOMAIN out}
        BY <4>6, <4>9
      <4>12. Orphans(out) # {}
        <5>1. PICK call : call \in v /\ call \notin S
          BY <3>4
        <5> DEFINE made == UNION {out[a].uses : a \in DOMAIN out}
                   answers == UNION {out[a].results : a \in DOMAIN out}
        <5>3. Orphans(out) = answers \ made
          BY OrphansAre, Zenon DEF ResultsOf, UsesOf
        <5>4. made \subseteq S /\ v \subseteq answers
          BY <4>10, <4>11
        <5> HIDE DEF made, answers
        <5>2. call \in Orphans(out)
          BY <5>1, <5>3, <5>4
        <5> QED  BY <5>2
      <4>13. Orphans(out) = {}
        BY DEF out
      <4> QED  BY <4>12, <4>13
    <3>5. Selected(y, v, S, role) \/ (Selected(y, {}, S, role) /\ v \intersect S = {})
      BY <1>2, Zenon DEF Ended
    <3> QED  BY <3>3, <3>4, <3>5
  <2>9. (s = acc /\ Clash(acc, x)) \/ s = Append(acc, x)
    BY <1>8, StepCases, Zenon
  <2> QED  BY <2>7, <2>8, <2>9
<1> QED  BY <1>7, <1>8

\* What Backfill and its closure keep begins with a user.
LEMMA BackfilledBegins ==
  ASSUME NEW T, NEW c \in Seq(T), c # <<>> => IsUser(c[1]), NEW S \in SUBSET (1..Len(c)),
         Closed(c, S)
  PROVE  LET kept == Closure(c, Backfill(c, S))
         IN  /\ kept \in SUBSET (1..Len(c)) /\ Closed(c, kept)
             /\ \A i \in 1..Len(c) : i \in kept =>
                   IsUser(c[i]) \/ \E j \in 1..(i - 1) : j \in kept
<1> DEFINE n == Len(c)
           heads == {k \in S : \A h \in S : h <= k => ~ IsUser(c[h])}
           B == Backfill(c, S)
           kept == Closure(c, B)
<1>1. n \in Nat /\ S \subseteq 1..n /\ (n # 0 => IsUser(c[1]))
  OBVIOUS
<1>2. B = S \union UNION {1..i : i \in heads}
  BY Zenon DEF Backfill
<1> HIDE DEF B, n
<1>3. B \in SUBSET (1..n)
  <2>1. \A i \in heads : 1..i \subseteq 1..n
    BY <1>1
  <2> HIDE DEF heads
  <2> QED  BY <1>1, <1>2, <2>1
<1>4. /\ kept \in SUBSET (1..n) /\ B \subseteq kept /\ Closed(c, kept)
      /\ Closed(c, B) => kept = B
  BY <1>3, ClosureClosed DEF n
<1> HIDE DEF kept
<1>5. ASSUME NEW i \in kept PROVE IsUser(c[i]) \/ \E j \in 1..(i - 1) : j \in kept
  <2>1. i \in 1..n
    BY <1>4
  <2>2. CASE heads = {}
    <3>1. B = S
      BY <1>2, <2>2
    <3>2. kept = S
      BY <1>4, <3>1
    <3>3. PICK h \in S : h <= i /\ IsUser(c[h])
      BY <2>2, <3>2
    <3>4. h = i \/ h \in 1..(i - 1)
      BY <1>1, <2>1, <3>3
    <3> QED  BY <3>2, <3>3, <3>4
  <2>3. CASE heads # {}
    <3>1. PICK k \in heads : TRUE
      BY <2>3
    <3>2. 1 \in 1..k
      BY <1>1, <3>1
    <3>3. 1 \in B
      <4> HIDE DEF heads
      <4> QED  BY <1>2, <3>1, <3>2
    <3>4. 1 \in kept /\ IsUser(c[1])
      BY <1>1, <1>4, <2>1, <3>3
    <3>5. i = 1 \/ 1 \in 1..(i - 1)
      BY <2>1
    <3> QED  BY <3>4, <3>5
  <2> QED  BY <2>2, <2>3
<1> QED  BY <1>4, <1>5 DEF kept, B, n

\* A closed set has both halves of a call or none.
LEMMA ClosedUnsplit ==
  ASSUME NEW T, NEW c \in Seq(T), NEW v, Passes(c, {}, v), NEW S \in SUBSET (1..Len(c)),
         Closed(c, S)
  PROVE  Unsplit(c, S)
<1> SUFFICES ASSUME NEW i \in 1..(Len(c) - 1), c[i].uses # {}
             PROVE  i \in S <=> i + 1 \in S
  BY DEF Unsplit
<1>1. c # <<>> /\ i \in 1..Len(c) /\ i + 1 \in 1..Len(c)
  <2>1. Len(c) \in Nat
    OBVIOUS
  <2>2. Len(c) # 0
    BY <2>1
  <2> QED  BY <2>1, <2>2
<1>2. c[i].uses = c[i + 1].results
  BY <1>1, PassesIs
<1>3. ToolLinked(c, i, i + 1)
  BY <1>2 DEF ToolLinked
<1>4. Tied(c, i, i + 1) /\ Tied(c, i + 1, i)
  BY <1>3 DEF Tied
<1> QED  BY <1>1, <1>4 DEF Closed

\* The history before the question.
LEMMA WithoutLast ==
  ASSUME NEW b, Linked(b), CallsOnce(b), b # <<>>
  PROVE  LET c == SubSeq(b, 1, Len(b) - 1)
         IN  /\ c \in Seq(Sided) /\ Passes(c, {}, b[Len(b)].results) /\ CallsOnce(c)
             /\ Begins(c)
<1> DEFINE T == Sided
           n == Len(b)
           c == SubSeq(b, 1, n - 1)
<1>1. b \in Seq(T) /\ Passes(b, {}, {}) /\ IsUser(b[1])
  BY DEF Linked, Begins
<1>2. b[1].results = {} /\ n \in Nat \ {0}
      /\ \A k \in 1..(n - 1) : b[k].uses = b[k + 1].results
  BY <1>1, PassesIs
<1>3. \A i, j \in 1..n : b[i].uses \intersect b[j].uses # {} => i = j
  BY DEF CallsOnce
<1>4. 1 \in 1..(Len(b) + 1) /\ n - 1 \in 0..Len(b)
  BY <1>2
<1> HIDE DEF T
<1>5. c \in Seq(T) /\ Slice(c, b, 1, n - 1)
  BY <1>1, <1>4, SubSeqSlice
<1> HIDE DEF c
<1>6. Len(c) = n - 1 /\ \A i \in 1..Len(c) : c[i] = b[i]
  <2>1. \A i \in 1..Len(c) : c[i] = b[1 + i - 1]
    BY <1>5, Zenon DEF Slice
  <2>2. Len(c) = IF 1 <= n - 1 THEN ((n - 1) - 1) + 1 ELSE 0
    BY <1>5, Zenon DEF Slice
  <2>3. Len(c) = n - 1
    <3>1. n \in Nat \ {0}
      BY <1>2
    <3> HIDE DEF n
    <3> QED  BY <2>2, <3>1
  <2>4. \A i \in 1..Len(c) : 1 + i - 1 = i
    BY <1>2, <2>3
  <2> QED  BY <2>1, <2>3, <2>4
<1>7. CallsOnce(c)
  BY <1>2, <1>3, <1>6 DEF CallsOnce
<1>8. Begins(c) /\ Passes(c, {}, b[n].results)
  <2>1. CASE n = 1
    <3>1. Len(c) = 0
      BY <1>6, <2>1
    <3>2. c = <<>>
      BY <1>5, <3>1
    <3> QED  BY <1>2, <2>1, <3>2 DEF Begins, Passes
  <2>2. CASE n # 1
    <3>10. n \in Nat \ {0} /\ n = Len(b)
      BY <1>2
    <3> HIDE DEF n
    <3>11. n - 1 >= 1
      BY <2>2, <3>10
    <3>12. 1 \in 1..n /\ n - 1 \in 1..n /\ n - 1 \in 1..(n - 1) /\ (n - 1) + 1 = n
      BY <3>10, <3>11
    <3>1. 1 \in 1..Len(b) /\ n - 1 \in 1..Len(b) /\ n - 1 \in 1..(n - 1) /\ (n - 1) + 1 = n
      BY <3>10, <3>12
    <3>2. Passes(c, b[1].results, b[n - 1].uses) /\ c[1] = b[1]
      BY <1>1, <1>5, <3>1, SlicePasses
    <3>3. b[n - 1].uses = b[n].results
      BY <1>2, <3>1
    <3> QED  BY <1>1, <1>2, <3>2, <3>3 DEF Begins
  <2> QED  BY <2>1, <2>2
<1> QED  BY <1>5, <1>7, <1>8 DEF T, c, n

\* The items of the filter.
ItemAt(c, crit, i) == [m |-> c[i], crit |-> crit[i]]
ItemPart(c, kept, crit, i) == IF i \in kept THEN <<ItemAt(c, crit, i)>> ELSE <<>>
ItemParts(c, kept, crit) == [i \in DOMAIN c |-> ItemPart(c, kept, crit, i)]

LEMMA ItemsOf ==
  ASSUME NEW T, NEW c \in Seq(T), NEW kept \in SUBSET (1..Len(c)),
         NEW crit \in [1..Len(c) -> BOOLEAN]
  PROVE  LET X == FlattenSeq(ItemParts(c, kept, crit))
         IN  /\ X \in Seq(Items(T)) /\ Tracks(X, Keep(c, kept))
             /\ \A k \in 1..Len(X) : \E i \in kept : X[k] = ItemAt(c, crit, i)
<1> DEFINE n == Len(c)
           C == {ItemAt(c, crit, i) : i \in kept}
           ss == ItemParts(c, kept, crit)
           tt == Pieces(c, kept)
           U == Seq(C)
           V == Seq(T)
           X == FlattenSeq(ss)
<1>1. /\ n \in Nat /\ DOMAIN c = 1..n /\ (\A i \in 1..n : c[i] \in T)
      /\ \A i \in kept : i \in 1..n /\ crit[i] \in BOOLEAN
  OBVIOUS
<1>2. /\ tt \in Seq(Seq(T)) /\ Len(tt) = n /\ Keep(c, kept) = FlattenSeq(tt)
      /\ \A i \in 1..n : tt[i] = Piece(c, kept, i)
  BY KeepPieces
<1> HIDE DEF tt, n
<1>3. \A x \in C : x \in Items(T)
  <2>1. ASSUME NEW i \in kept PROVE ItemAt(c, crit, i) \in Items(T)
    <3>1. c[i] \in T /\ crit[i] \in BOOLEAN
      BY <1>1
    <3> QED  BY <3>1 DEF ItemAt, Items
  <2> QED  BY <2>1
<1>4. ss = [i \in 1..n |-> ss[i]] /\ \A i \in 1..n : ss[i] = ItemPart(c, kept, crit, i)
  BY <1>1 DEF ItemParts
<1>5. ASSUME NEW i \in 1..n
      PROVE  /\ ss[i] \in U /\ Tracks(ss[i], tt[i])
  <2>1. CASE i \in kept
    <3> DEFINE a == ItemAt(c, crit, i)
               b == c[i]
    <3>1. a \in C /\ b \in T /\ a.m = b
      <4>1. a.m = b
        BY DEF ItemAt
      <4> QED  BY <1>1, <2>1, <4>1
    <3>2. ss[i] = <<a>> /\ tt[i] = <<b>>
      BY <1>2, <1>4, <2>1 DEF ItemPart, Piece
    <3> HIDE DEF a, b, C
    <3>3. <<a>> \in Seq(C) /\ Len(<<a>>) = 1 /\ <<a>>[1] = a /\ Len(<<b>>) = 1 /\ <<b>>[1] = b
      BY <3>1
    <3> DEFINE x == <<a>>
               y == <<b>>
    <3>4. Len(x) = 1 /\ x[1] = a /\ Len(y) = 1 /\ y[1] = b
      BY <3>3
    <3> HIDE DEF x, y
    <3>5. Tracks(x, y)
      BY <3>1, <3>4 DEF Tracks
    <3> QED  BY <3>2, <3>3, <3>5 DEF x, y
  <2>2. CASE i \notin kept
    <3>1. ss[i] = <<>> /\ tt[i] = <<>>
      BY <1>2, <1>4, <2>2 DEF ItemPart, Piece
    <3> HIDE DEF C
    <3>2. <<>> \in Seq(C)
      BY EmptySeq
    <3>3. Tracks(<<>>, <<>>)
      <4>1. Len(<<>>) = 0
        OBVIOUS
      <4> QED  BY <4>1 DEF Tracks
    <3> QED  BY <3>1, <3>2, <3>3
  <2> QED  BY <2>1, <2>2
<1> HIDE DEF ss, U
<1>6. ss \in Seq(U) /\ Len(ss) = n
  BY <1>1, <1>4, <1>5, SequenceBuilt
<1>7. Tracks(X, FlattenSeq(tt))
  <2> HIDE DEF X, C
  <2>1. ss \in Seq(Seq(C)) /\ Len(ss) = Len(tt) /\ \A i \in 1..Len(ss) : Tracks(ss[i], tt[i])
    BY <1>2, <1>5, <1>6 DEF U
  <2> QED  BY <1>2, <2>1, FlattenTracks DEF X
<1>8. X \in Seq(C)
  <2> HIDE DEF C
  <2>1. ss \in Seq(Seq(C))
    BY <1>6 DEF U
  <2> QED  BY <2>1, FlattenTyped
<1> HIDE DEF X
<1>9. \A k \in 1..Len(X) : X[k] \in C
  <2> HIDE DEF C
  <2> QED  BY <1>8
<1>10. X \in Seq(Items(T))
  <2> HIDE DEF C
  <2> DEFINE I == Items(T)
  <2>1. \A x \in C : x \in I
    BY <1>3
  <2> HIDE DEF I
  <2>2. X \in Seq(I)
    BY <1>8, <2>1
  <2> QED  BY <2>2 DEF I
<1>11. \A k \in 1..Len(X) : \E i \in kept : X[k] = ItemAt(c, crit, i)
  BY <1>9
<1> QED  BY <1>2, <1>7, <1>10, <1>11 DEF X, ss

\* What the history is when the question comes: see PrefixEnds.
Settled(items, h, v) ==
  \/ /\ Calm(items, h)
     /\ v = LastCalls(items, h) \/ (LastCalls(items, h) = {} /\ v \intersect CallsOf(items, h) = {})
  \/ h >= 1 /\ Calm(items, h - 1) /\ ~ items[h].crit /\ items[h].m.uses = v /\ v # {}

\* Only the first h items matter.
LEMMA SettledPrefix ==
  ASSUME NEW x, NEW y, NEW h \in Nat, \A k \in 1..h : x[k] = y[k], NEW v,
         Chained(x, h), Settled(x, h, v)
  PROVE  Chained(y, h) /\ Settled(y, h, v)
<1>1. /\ \A k \in 1..(h - 1) : k \in 1..h /\ k + 1 \in 1..h
      /\ (h >= 1 => 1 \in 1..h /\ h \in 1..h) /\ (h # 0 => h \in 1..h)
  OBVIOUS
<1>2. \A k \in 1..h : x[k] = y[k]
  OBVIOUS
<1>3. Chained(y, h)
  <2>1. /\ h >= 1 => x[1].m.results = {}
        /\ \A k \in 1..(h - 1) : x[k].m.uses = x[k + 1].m.results
        /\ \A i, j \in 1..h : x[i].m.uses \intersect x[j].m.uses # {} => i = j
    BY Zenon DEF Chained
  <2>2. h >= 1 => y[1].m.results = {}
    BY <1>1, <1>2, <2>1
  <2>3. \A k \in 1..(h - 1) : y[k].m.uses = y[k + 1].m.results
    BY <1>1, <1>2, <2>1
  <2>4. \A i, j \in 1..h : y[i].m.uses \intersect y[j].m.uses # {} => i = j
    BY <1>2, <2>1
  <2> QED  BY <2>2, <2>3, <2>4, Zenon DEF Chained
<1>4. LastCalls(y, h) = LastCalls(x, h)
  BY <1>1, <1>2 DEF LastCalls
<1>5. CallsOf(y, h) = CallsOf(x, h)
  BY <1>2 DEF CallsOf
<1>6. Calm(x, h) => Calm(y, h)
  BY <1>2, Zenon DEF Calm
<1>7. Calm(x, h - 1) => Calm(y, h - 1)
  BY <1>1, <1>2, Zenon DEF Calm
<1>8. h >= 1 => x[h] = y[h]
  BY <1>1, <1>2
<1>9. Settled(y, h, v)
  BY <1>4, <1>5, <1>6, <1>7, <1>8, Zenon DEF Settled
<1> QED  BY <1>3, <1>9

\* Which message is half of a call.
Halves(c, kept, i) == \E j \in kept : ToolLinked(c, i, j) \/ ToolLinked(c, j, i)

LEMMA KeptMarked ==
  ASSUME NEW c \in Seq(Sided), NEW v, Passes(c, {}, v), NEW kept \in SUBSET (1..Len(c)),
         Closed(c, kept), NEW i \in kept, i # Len(c) \/ v = {}
  PROVE  Halves(c, kept, i) \/ Plain(c[i])
<1> DEFINE n == Len(c)
<1>1. n \in Nat /\ i \in 1..n /\ c # <<>> /\ (\A k \in kept : k \in 1..n)
  <2>1. n \in Nat /\ i \in 1..n /\ \A k \in kept : k \in 1..n
    OBVIOUS
  <2>2. n # 0
    BY <2>1
  <2>3. c # <<>>
    BY <2>2
  <2> QED  BY <2>1, <2>3
<1>2. c[1].results = {} /\ c[n].uses = v /\ \A k \in 1..(n - 1) : c[k].uses = c[k + 1].results
  BY <1>1, PassesIs
<1>3. \A k \in kept : \A j \in 1..n : Tied(c, k, j) => j \in kept
  BY DEF Closed
<1> HIDE DEF n
<1>4. ASSUME c[i].uses # {} PROVE Halves(c, kept, i)
  <2>1. i # n
    BY <1>2, <1>4 DEF n
  <2>2. i \in 1..(n - 1) /\ i + 1 \in 1..n
    BY <1>1, <2>1
  <2>3. ToolLinked(c, i, i + 1)
    BY <1>2, <1>4, <2>2 DEF ToolLinked
  <2>4. Tied(c, i, i + 1)
    BY <2>3 DEF Tied
  <2>5. i + 1 \in kept
    BY <1>3, <2>2, <2>4
  <2> QED  BY <2>3, <2>5 DEF Halves
<1>5. ASSUME c[i].results # {} PROVE Halves(c, kept, i)
  <2>1. i # 1
    BY <1>2, <1>5
  <2>2. i - 1 \in 1..(n - 1) /\ i - 1 \in 1..n /\ (i - 1) + 1 = i
    BY <1>1, <2>1
  <2>3. c[i - 1].uses = c[i].results
    BY <1>2, <2>2
  <2>4. ToolLinked(c, i - 1, i)
    BY <1>5, <2>3 DEF ToolLinked
  <2>5. Tied(c, i, i - 1)
    BY <2>4 DEF Tied
  <2>6. i - 1 \in kept
    BY <1>3, <2>2, <2>5
  <2> QED  BY <2>4, <2>6 DEF Halves
<1> QED  BY <1>4, <1>5 DEF Plain

\* The items of what is kept are settled.
LEMMA KeptSettled ==
  ASSUME NEW c \in Seq(Sided), NEW v, Passes(c, {}, v), CallsOnce(c),
         NEW kept \in SUBSET (1..Len(c)), Closed(c, kept),
         NEW crit \in [1..Len(c) -> BOOLEAN],
         \A i \in 1..Len(c) : crit[i] <=> Halves(c, kept, i)
  PROVE  LET X == FlattenSeq(ItemParts(c, kept, crit))
         IN  X \in Seq(Items(Sided)) /\ Chained(X, Len(X)) /\ Settled(X, Len(X), v)
<1> DEFINE n == Len(c)
           T == Sided
           X == FlattenSeq(ItemParts(c, kept, crit))
           K == Keep(c, kept)
           N == Len(X)
           w == IF n \in kept THEN v ELSE {}
<1>1. /\ X \in Seq(Items(T)) /\ Tracks(X, K)
      /\ \A k \in 1..N : \E i \in kept : X[k] = ItemAt(c, crit, i)
  BY ItemsOf
<1>2. Unsplit(c, kept)
  BY ClosedUnsplit
<1>3. Passes(K, {}, w) /\ CallsOnce(K) /\ K \in Seq(T)
  BY <1>2, KeepPasses, KeepOnce, KeepTyped
<1>4. n \in Nat /\ (\A k \in kept : k \in 1..n) /\ (c = <<>> <=> n = 0)
  OBVIOUS
<1>5. \A i, j \in 1..n : c[i].uses \intersect c[j].uses # {} => i = j
  BY DEF CallsOnce
<1>6. n # 0 => c[n].uses = v
  BY <1>4, PassesIs
<1>60. n = 0 => v = {}
  BY <1>4 DEF Passes
<1>7. \A i \in 1..n : crit[i] <=> Halves(c, kept, i)
  OBVIOUS
<1>8. \A i \in kept : i # n \/ v = {} => Halves(c, kept, i) \/ Plain(c[i])
  BY KeptMarked
<1> HIDE DEF X, K, n
<1>9. N \in Nat /\ Len(K) = N /\ (\A k \in 1..N : X[k].m = K[k]) /\ (K = <<>> <=> N = 0)
  <2>1. Len(K) = N /\ \A k \in 1..N : X[k].m = K[k]
    BY <1>1 DEF Tracks
  <2>2. K = <<>> <=> Len(K) = 0
    BY <1>3
  <2> QED  BY <1>1, <2>1, <2>2
<1>10. \A k \in 1..N : \E i \in kept :
          /\ X[k].m = c[i] /\ i \in 1..n
          /\ X[k].crit <=> Halves(c, kept, i)
  <2> TAKE k \in 1..N
  <2>1. PICK i \in kept : X[k] = ItemAt(c, crit, i)
    BY <1>1
  <2>2. X[k].m = c[i] /\ X[k].crit = crit[i]
    BY <2>1 DEF ItemAt
  <2>3. i \in 1..n
    BY <1>4
  <2>4. X[k].crit <=> Halves(c, kept, i)
    BY <1>7, <2>2, <2>3, Zenon
  <2> QED  BY <2>2, <2>3, <2>4
<1>11. N # 0 => /\ K[1].results = {} /\ K[N].uses = w
                /\ \A k \in 1..(N - 1) : K[k].uses = K[k + 1].results
  BY <1>3, <1>9, PassesIs
<1>110. N = 0 => w = {}
  BY <1>3, <1>9 DEF Passes
<1>12. LastCalls(X, N) = w
  <2>1. CASE N = 0
    BY <1>110, <2>1 DEF LastCalls
  <2>2. CASE N # 0
    <3>1. N \in 1..N
      BY <1>9, <2>2
    <3> QED  BY <1>9, <1>11, <2>2, <3>1 DEF LastCalls
  <2> QED  BY <2>1, <2>2
<1>13. Chained(X, N)
  <2>1. N >= 1 => X[1].m.results = {}
    <3>1. N >= 1 => 1 \in 1..N /\ N # 0
      BY <1>9
    <3> QED  BY <1>9, <1>11, <3>1
  <2>2. \A k \in 1..(N - 1) : X[k].m.uses = X[k + 1].m.results
    <3>1. \A k \in 1..(N - 1) : k \in 1..N /\ k + 1 \in 1..N /\ N # 0
      BY <1>9
    <3> QED  BY <1>9, <1>11, <3>1
  <2>3. \A i, j \in 1..N : X[i].m.uses \intersect X[j].m.uses # {} => i = j
    BY <1>3, <1>9 DEF CallsOnce
  <2> QED  BY <2>1, <2>2, <2>3, Zenon DEF Chained
<1> DEFINE ends == Halves(c, kept, n)
<1>14. CASE v = {} \/ n \notin kept \/ ends
  <2>1. \A k \in 1..N : X[k].crit \/ Plain(X[k].m)
    <3> TAKE k \in 1..N
    <3>1. PICK i \in kept : X[k].m = c[i] /\ i \in 1..n /\ (X[k].crit <=> Halves(c, kept, i))
      BY <1>10
    <3>2. Halves(c, kept, i) \/ Plain(c[i])
      BY <1>8, <1>14
    <3> QED  BY <3>1, <3>2, Zenon
  <2>2. Calm(X, N)
    BY <2>1, Zenon DEF Calm
  <2>3. v = w \/ (w = {} /\ v \intersect CallsOf(X, N) = {})
    <3>1. CASE n \in kept \/ v = {}
      BY <3>1
    <3>2. CASE n \notin kept /\ v # {}
      <4>1. n \in 1..n /\ c[n].uses = v
        BY <1>4, <1>6, <1>60, <3>2
      <4>2. ASSUME NEW k \in 1..N PROVE v \intersect X[k].m.uses = {}
        <5>1. PICK i \in kept : X[k].m = c[i] /\ i \in 1..n
          BY <1>10
        <5>2. i # n
          BY <3>2
        <5> QED  BY <1>5, <4>1, <5>1, <5>2
      <4>3. v \intersect CallsOf(X, N) = {}
        BY <4>2 DEF CallsOf
      <4> QED  BY <3>2, <4>3
    <3> QED  BY <3>1, <3>2
  <2>4. Settled(X, N, v)
    BY <1>12, <2>2, <2>3, Zenon DEF Settled
  <2> QED  BY <1>1, <1>13, <2>4 DEF X
<1>15. CASE v # {} /\ n \in kept /\ ~ ends
  <2>1. w = v /\ N # 0 /\ n \in 1..n /\ c[n].uses = v
    BY <1>4, <1>6, <1>110, <1>15
  <2>2. N \in 1..N /\ N >= 1 /\ \A k \in 1..(N - 1) : k \in 1..N /\ k # N
    BY <1>9, <2>1
  <2>3. X[N].m.uses = v
    BY <1>9, <1>11, <2>1, <2>2
  <2>4. ~ X[N].crit
    <3>1. PICK i \in kept : X[N].m = c[i] /\ i \in 1..n /\ (X[N].crit <=> Halves(c, kept, i))
      BY <1>10, <2>2
    <3>2. c[i].uses = v
      BY <2>3, <3>1
    <3>3. i = n
      BY <1>5, <1>15, <2>1, <3>1, <3>2
    <3> QED  BY <1>15, <3>1, <3>3, Zenon
  <2>5. \A k \in 1..(N - 1) : X[k].crit \/ Plain(X[k].m)
    <3> TAKE k \in 1..(N - 1)
    <3>0. k \in 1..N /\ k # N
      BY <2>2
    <3>1. PICK i \in kept : X[k].m = c[i] /\ i \in 1..n /\ (X[k].crit <=> Halves(c, kept, i))
      BY <1>10, <3>0
    <3>2. i # n
      <4>1. i = n => X[k].m.uses = v
        BY <2>1, <3>1
      <4>2. X[k].m.uses = v => k = N
        BY <1>13, <1>15, <2>2, <2>3, <3>0 DEF Chained
      <4> QED  BY <3>0, <4>1, <4>2
    <3>3. Halves(c, kept, i) \/ Plain(c[i])
      BY <1>8, <3>2
    <3> QED  BY <3>1, <3>3, Zenon
  <2>6. Calm(X, N - 1)
    BY <2>5, Zenon DEF Calm
  <2>7. Settled(X, N, v)
    BY <1>15, <2>2, <2>3, <2>4, <2>6, Zenon DEF Settled
  <2> QED  BY <1>1, <1>13, <2>7 DEF X
<1> QED  BY <1>14, <1>15

\* What the items become with the question, if there is one.
LEMMA QuestionLinked ==
  ASSUME NEW X \in Seq(Items(Sided)), NEW v, Chained(X, Len(X)), Settled(X, Len(X), v),
         X # <<>> => IsUser(X[1].m),
         NEW current \in Seq(Items(Sided)),
         \/ current = <<>> /\ v = {}
         \/ /\ Len(current) = 1 /\ ~ current[1].crit /\ current[1].m.results = v
            /\ IsUser(current[1].m),
         Orphans(Alternate(X \o current)) = {}
  PROVE  Linked(Alternate(X \o current)) /\ CallsOnce(Alternate(X \o current))
<1> DEFINE I == Items(Sided)
           items == X \o current
           h == Len(X)
<1>1. X \in Seq(I) /\ current \in Seq(I)
  OBVIOUS
<1>20. /\ X \o current \in Seq(I) /\ Len(X \o current) = Len(X) + Len(current)
      /\ Len(X) \in Nat /\ Len(current) \in Nat
      /\ (\A k \in 1..Len(X) : (X \o current)[k] = X[k])
      /\ (\A k \in 1..Len(current) : (X \o current)[Len(X) + k] = current[k])
  <2> HIDE DEF I
  <2> QED  BY ONLY <1>1, Concatenated
<1> HIDE DEF I
<1>2. /\ items \in Seq(I) /\ Len(items) = h + Len(current)
      /\ h \in Nat /\ Len(current) \in Nat
      /\ (\A k \in 1..h : items[k] = X[k])
      /\ (\A k \in 1..Len(current) : items[h + k] = current[k])
  BY <1>20
<1>3. current = <<>> => Len(current) = 0
  OBVIOUS
<1>4. (X = <<>> <=> h = 0) /\ (items = <<>> <=> Len(items) = 0)
  BY <1>1, <1>2
<1> HIDE DEF items, h
<1>5. Chained(items, h) /\ Settled(items, h, v)
  <2>1. \A k \in 1..h : X[k] = items[k]
    BY <1>2
  <2> QED  BY <1>2, <2>1, SettledPrefix DEF h
<1>6. \/ Len(items) = h /\ v = {}
      \/ /\ Len(items) = h + 1 /\ ~ items[h + 1].crit /\ items[h + 1].m.results = v
         /\ IsUser(items[h + 1].m)
  <2>1. CASE current = <<>> /\ v = {}
    BY <1>2, <1>3, <2>1
  <2>2. CASE /\ Len(current) = 1 /\ ~ current[1].crit /\ current[1].m.results = v
             /\ IsUser(current[1].m)
    <3>1. items[h + 1] = current[1] /\ Len(items) = h + 1
      BY <1>2, <2>2
    <3> QED  BY <2>2, <3>1, Zenon
  <2> QED  BY <2>1, <2>2
<1>7. items # <<>> => IsUser(items[1].m)
  <2>1. CASE h = 0
    <3>1. items # <<>> => Len(items) = 1
      BY <1>4, <1>6, <2>1
    <3>2. h + 1 = 1
      BY <2>1
    <3> QED  BY <1>4, <1>6, <2>1, <3>1, <3>2
  <2>2. CASE h # 0
    <3>1. 1 \in 1..h
      BY <1>2, <2>2
    <3> QED  BY <1>2, <1>4, <2>2, <3>1
  <2> QED  BY <2>1, <2>2
<1>8. \/ /\ Calm(items, h)
         /\ v = LastCalls(items, h) \/ (LastCalls(items, h) = {} /\ v \intersect CallsOf(items, h) = {})
      \/ h >= 1 /\ Calm(items, h - 1) /\ ~ items[h].crit /\ items[h].m.uses = v /\ v # {}
  BY <1>5, Zenon DEF Settled
<1>9. h \in 0..Len(items) /\ items \in Seq(Items(Sided))
  BY <1>2, <1>6 DEF I
<1>10. Orphans(Alternate(items)) = {}
  BY DEF items
<1>11. Linked(Alternate(items)) /\ CallsOnce(Alternate(items))
  BY <1>5, <1>6, <1>7, <1>8, <1>9, <1>10, AlternateEnds
<1> QED  BY <1>11 DEF items

LEMMA FilterLinked ==
  ASSUME NEW b, Linked(b), CallsOnce(b), NEW window, NEW count, NEW matched
  PROVE  Linked(Filter(b, window, count, matched)) /\ CallsOnce(Filter(b, window, count, matched))
<1> DEFINE asked == b # <<>> /\ IsUser(b[Len(b)])
           c == IF asked THEN SubSeq(b, 1, Len(b) - 1) ELSE b
           P == PairStarts(c)
           wanted == {i \in P : \/ i \notin ButLast(P, window)
                                \/ Rank(P, i) >= count
                                \/ Rank(P, i) \in matched}
           unpaired == DOMAIN c \ (P \union {i + 1 : i \in P})
           start == unpaired \union wanted \union {i + 1 : i \in wanted}
           first == Closure(c, start)
           kept == Closure(c, Backfill(c, first))
           critical(i) == \E j \in kept : ToolLinked(c, i, j) \/ ToolLinked(c, j, i)
           item(i) == IF i \in kept THEN <<[m |-> c[i], crit |-> critical(i)]>> ELSE <<>>
           question == [m |-> b[Len(b)], crit |-> FALSE]
           current == IF asked THEN <<question>> ELSE <<>>
           parts == [i \in DOMAIN c |-> item(i)]
           items == FlattenSeq(parts) \o current
           out == Alternate(items)
           F == Filter(b, window, count, matched)
           users == Cardinality({i \in DOMAIN out : IsUser(out[i])})
           dropped == Cardinality(P) - (IF asked THEN users - 1 ELSE users)
           T == Sided
<1>1. F = b \/ (F = out /\ Orphans(out) = {})
  <2>1. F = IF \/ Cardinality(P) <= window \/ count = 0
               \/ Orphans(out) # {} \/ dropped <= 0
            THEN b ELSE out
    BY Zenon DEF Filter
  <2> HIDE DEF F, out, P, dropped
  <2> QED  BY <2>1
<1> HIDE DEF out
<1>2. CASE F = b
  BY <1>2
<1>3. CASE F = out /\ Orphans(out) = {}
  <2> DEFINE v == IF asked THEN b[Len(b)].results ELSE {}
             n == Len(c)
  <2>1. /\ c \in Seq(T) /\ Passes(c, {}, v) /\ CallsOnce(c) /\ Begins(c)
    <3>1. CASE asked
      <4>1. c = SubSeq(b, 1, Len(b) - 1) /\ v = b[Len(b)].results /\ b # <<>>
        BY <3>1
      <4> HIDE DEF c, v, asked
      <4> QED  BY <4>1, WithoutLast
    <3>2. CASE ~ asked
      <4>1. c = b /\ v = {}
        BY <3>2
      <4>2. b \in Seq(T) /\ Passes(b, {}, {}) /\ Begins(b)
        BY DEF Linked
      <4> HIDE DEF c, v
      <4> QED  BY <4>1, <4>2
    <3> QED  BY <3>1, <3>2
  <2>2. current \in Seq(Items(T))
        /\ \/ current = <<>> /\ v = {}
           \/ /\ Len(current) = 1 /\ ~ current[1].crit /\ current[1].m.results = v
              /\ IsUser(current[1].m)
    <3>1. CASE asked
      <4>1. b \in Seq(T) /\ b # <<>> /\ Len(b) \in 1..Len(b)
        BY <3>1 DEF Linked
      <4>2. b[Len(b)] \in T
        BY <4>1
      <4>3. question \in Items(T) /\ question.m = b[Len(b)] /\ ~ question.crit
        BY <4>2 DEF Items
      <4>4. v = b[Len(b)].results /\ IsUser(b[Len(b)]) /\ current = <<question>>
        BY <3>1
      <4> DEFINE I == Items(T)
      <4>5. question \in I
        BY <4>3
      <4> HIDE DEF question, I, v, current, asked
      <4>6. <<question>> \in Seq(I) /\ Len(<<question>>) = 1 /\ <<question>>[1] = question
        BY <4>5
      <4>7. current \in Seq(I) /\ Len(current) = 1 /\ current[1] = question
        BY <4>4, <4>6
      <4> QED  BY <4>3, <4>4, <4>7, Zenon DEF I
    <3>2. CASE ~ asked
      <4>1. current = <<>> /\ v = {}
        BY <3>2
      <4>2. <<>> \in Seq(Items(T))
        BY EmptySeq
      <4> HIDE DEF current, v
      <4> QED  BY <4>1, <4>2
    <3> QED  BY <3>1, <3>2
  <2> HIDE DEF c, current, v, T
  <2>3. n \in Nat /\ DOMAIN c = 1..n /\ (c # <<>> => IsUser(c[1]))
    BY <2>1 DEF Begins
  <2>4. start \in SUBSET (1..n)
    <3>1. P \subseteq 1..(n - 1)
      BY DEF PairStarts
    <3>2. \A i \in 1..(n - 1) : i \in 1..n /\ i + 1 \in 1..n
      BY <2>3
    <3> HIDE DEF P
    <3>3. wanted \subseteq P /\ unpaired \subseteq 1..n
      BY <2>3
    <3> HIDE DEF wanted, unpaired
    <3> QED  BY <3>1, <3>2, <3>3
  <2> HIDE DEF start
  <2>5. first \in SUBSET (1..n) /\ Closed(c, first)
    BY <2>1, <2>4, ClosureClosed
  <2> HIDE DEF first
  <2>6. /\ kept \in SUBSET (1..Len(c)) /\ Closed(c, kept)
        /\ \A i \in 1..Len(c) : i \in kept => IsUser(c[i]) \/ \E j \in 1..(i - 1) : j \in kept
    BY <2>1, <2>3, <2>5, BackfilledBegins
  <2> HIDE DEF kept
  <2> DEFINE crit == [i \in 1..Len(c) |-> Halves(c, kept, i)]
             X == FlattenSeq(ItemParts(c, kept, crit))
  <2>7. /\ \A i \in 1..Len(c) : crit[i] = Halves(c, kept, i)
        /\ crit = [i \in 1..Len(c) |-> crit[i]]
    BY Zenon
  <2>8. \A i \in 1..Len(c) : Halves(c, kept, i) \in BOOLEAN
    BY DEF Halves, ToolLinked
  <2> HIDE DEF crit
  <2>9. crit \in [1..Len(c) -> BOOLEAN] /\ \A i \in 1..Len(c) : crit[i] <=> Halves(c, kept, i)
    BY <2>7, <2>8
  <2>10. parts = ItemParts(c, kept, crit)
    <3>1. \A i \in DOMAIN c : item(i) = ItemPart(c, kept, crit, i)
      <4> TAKE i \in DOMAIN c
      <4>1. crit[i] = Halves(c, kept, i)
        BY <2>3, <2>7
      <4>2. critical(i) = Halves(c, kept, i)
        BY Zenon DEF Halves
      <4>3. critical(i) = crit[i]
        BY <4>1, <4>2, Zenon
      <4> HIDE DEF critical
      <4> QED  BY <4>3, Zenon DEF ItemPart, ItemAt
    <3> HIDE DEF item
    <3> QED  BY <3>1, Zenon DEF ItemParts
  <2>11. X \in Seq(Items(T)) /\ Chained(X, Len(X)) /\ Settled(X, Len(X), v)
    <3>1. c \in Seq(Sided)
      BY <2>1 DEF T
    <3> QED  BY <2>1, <2>6, <2>9, <3>1, KeptSettled DEF T
  <2>12. X # <<>> => IsUser(X[1].m)
    <3>1. Tracks(X, Keep(c, kept))
      BY <2>1, <2>6, <2>9, ItemsOf
    <3>2. Begins(Keep(c, kept)) /\ Keep(c, kept) \in Seq(T)
      BY <2>1, <2>6, KeepBegins, KeepTyped
    <3> DEFINE K == Keep(c, kept)
    <3> HIDE DEF X, K
    <3>3. ASSUME X # <<>> PROVE IsUser(X[1].m)
      <4>1. Len(X) \in Nat /\ Len(X) # 0 /\ 1 \in 1..Len(X)
        BY <2>11, <3>3
      <4>2. X[1].m = K[1] /\ Len(K) = Len(X)
        BY <3>1, <4>1 DEF Tracks, K
      <4>3. K # <<>>
        BY <4>1, <4>2
      <4>4. IsUser(K[1])
        BY <3>2, <4>3 DEF Begins, K
      <4> QED  BY <4>2, <4>4
    <3> QED  BY <3>3
  <2>13. items = X \o current
    BY <2>10, Zenon
  <2> HIDE DEF X, items
  <2>14. Orphans(Alternate(X \o current)) = {}
    BY <1>3, <2>13 DEF out
  <2>15. Linked(Alternate(X \o current)) /\ CallsOnce(Alternate(X \o current))
    BY <2>2, <2>11, <2>12, <2>14, QuestionLinked DEF T
  <2>16. F = Alternate(X \o current)
    BY <1>3, <2>13 DEF out
  <2> QED  BY <2>15, <2>16
<1> QED  BY <1>1, <1>2, <1>3

-----------------------------------------------------------------------------
(* A payload that stays linked.                                              *)

\* What is sent is linked; until chains are collapsed no call is made twice.
Linking == Linked(body) /\ (Early => CallsOnce(body))

LEMMA LinkingNext ==
  ASSUME Linked(body'), Early' => CallsOnce(body')
  PROVE  Linking'
  BY DEF Linking, Linked, Passes, Begins, CallsOnce

\* The body is as it was.
LEMMA LinkingSame ==
  ASSUME Linking, body' = body, Early' => Early
  PROVE  Linking'
<1>1. Linked(body')
  BY DEF Linking
<1>2. Early' => CallsOnce(body')
  BY DEF Linking
<1> QED  BY <1>1, <1>2, LinkingNext

\* The request is over.
LEMMA LinkingOver ==
  ASSUME EndRequest
  PROVE  Linking'
<1>1. body' = <<>>
  BY DEF EndRequest
<1> QED  BY <1>1, LinkedEmpty, LinkingNext

LEMMA InitLinking == Init => Linking
<1> SUFFICES ASSUME Init PROVE Linking
  OBVIOUS
<1>1. body = <<>>
  BY DEF Init
<1> QED  BY <1>1, LinkedEmpty DEF Linking

\* The history and the background threads leave the request alone, or end it.
LEMMA OutsideLinking ==
  Linking /\ (Ask \/ Interrupt \/ Tag \/ Compact \/ Restart
              \/ (\E form \in Form : CallTool(form)) \/ (\E hashed \in BOOLEAN : Answer(hashed))
              \/ (\E n \in 1..MaxTurns : Truncate(n)) \/ UNCHANGED vars) => Linking'
<1> SUFFICES ASSUME Linking,
                    Ask \/ Interrupt \/ Tag \/ Compact \/ Restart
                    \/ (\E form \in Form : CallTool(form))
                    \/ (\E hashed \in BOOLEAN : Answer(hashed))
                    \/ (\E n \in 1..MaxTurns : Truncate(n)) \/ UNCHANGED vars
             PROVE  Linking'
  OBVIOUS
<1>1. ASSUME UNCHANGED work PROVE Linking'
  <2>1. body' = body /\ stage' = stage /\ warm' = warm
    BY <1>1 DEF work
  <2>2. Early' = Early
    BY <2>1, Zenon DEF Early
  <2> QED  BY <2>1, <2>2, LinkingSame
<1>2. CASE Ask \/ Tag \/ Compact \/ (\E n \in 1..MaxTurns : Truncate(n)) \/ UNCHANGED vars
  BY <1>1, <1>2 DEF Ask, Tag, Compact, Truncate, vars, work
<1>3. CASE Interrupt \/ Restart \/ (\E form \in Form : CallTool(form))
           \/ (\E hashed \in BOOLEAN : Answer(hashed))
  <2>1. EndRequest
    BY <1>3, Zenon DEF Interrupt, Restart, CallTool, Answer
  <2> QED  BY <2>1, LinkingOver
<1> QED  BY <1>2, <1>3

LEMMA ReceiveLinking == Inv /\ (\E cold \in BOOLEAN : Receive(cold)) => Linking'
<1> SUFFICES ASSUME Inv, NEW cold, Receive(cold) PROVE Linking'
  OBVIOUS
<1>1. body' = Client(base)
  BY DEF Receive, PreFilter
<1>2. base \in Nat /\ History
  BY BodyTyped
<1>3. Linked(Client(base)) /\ CallsOnce(Client(base))
  BY <1>2, ClientLinked
<1> QED  BY <1>1, <1>3, LinkingNext

LEMMA DropLinking == Linking /\ Drop => Linking'
<1> SUFFICES ASSUME Linking, Drop PROVE Linking'
  OBVIOUS
<1> DEFINE w == IF pass = 1 THEN Protected ELSE DefaultWindow
           l == IF defer \/ pass = 2 THEN 0..(flushed - 1) ELSE Nat
           d == DropTurns(body, w, l)
<1>1. /\ stage = "drop" /\ body' = (IF flushed > 0 /\ ~warm THEN d ELSE body)
  BY Zenon DEF Drop
<1>2. Linked(body) /\ CallsOnce(body)
  BY <1>1 DEF Linking, Early
<1>3. Linked(d) /\ CallsOnce(d)
  BY <1>2, DropLinked
<1> HIDE DEF d
<1>4. body' = d \/ body' = body
  BY <1>1
<1>5. Linked(body') /\ CallsOnce(body')
  BY <1>2, <1>3, <1>4
<1> QED  BY <1>5, LinkingNext

LEMMA FilterLinking == Linking /\ (\E matched \in SUBSET Decided : FilterBody(matched)) => Linking'
<1> SUFFICES ASSUME Linking, NEW matched, FilterBody(matched) PROVE Linking'
  OBVIOUS
<1> DEFINE d == Filter(body, Protected, indexed, matched)
<1>1. stage = "filter" /\ body' = d
  BY Zenon DEF FilterBody
<1>2. Linked(body) /\ CallsOnce(body)
  BY <1>1 DEF Linking, Early
<1>3. Linked(d) /\ CallsOnce(d)
  BY <1>2, FilterLinked
<1> HIDE DEF d
<1> QED  BY <1>1, <1>3, LinkingNext

LEMMA SkipLinking == Linking /\ (SkipFilter \/ SkipCollapse) => Linking'
<1> SUFFICES ASSUME Linking, SkipFilter \/ SkipCollapse PROVE Linking'
  OBVIOUS
<1>1. body' = body /\ stage \in {"filter", "collapse"}
  BY DEF SkipFilter, SkipCollapse
<1>2. Early
  BY <1>1 DEF Early
<1> QED  BY <1>1, <1>2, LinkingSame

\* Groups that may be collapsed are turns, and the loop collapses no others.
LEMMA CollapsibleStarts ==
  ASSUME NEW b
  PROVE  Collapsible(b) \subseteq GroupStarts(b)
  BY DEF Collapsible, ButLast, HistoryStarts

LEMMA CollapseLinking ==
  Inv /\ Linking
  /\ (\E lostRows \in SUBSET Collapsible(body) :
        \E lostOutputs \in SUBSET Collapsible(body) : Collapse(lostRows, lostOutputs)) => Linking'
<1> SUFFICES ASSUME Inv, Linking, NEW lostRows \in SUBSET Collapsible(body),
                    NEW lostOutputs \in SUBSET Collapsible(body),
                    Collapse(lostRows, lostOutputs)
             PROVE  Linking'
  OBVIOUS
<1> DEFINE H == Collapsible(body)
           cached == pass = 1
           result == Collapsing(body, cached, lostRows, lostOutputs)
           back == IF truncated THEN Recovered(result, cached) ELSE <<>>
           out == DOMAIN result.stubs \union {d.start : d \in result.deep}
           stubs == result.stubs
           rest == Collapsed(body, out, stubs)
<1>1. stage = "collapse" /\ body' = back \o rest /\ stage' = "stub" /\ ~ warm /\ warm' = warm
  BY Zenon DEF Collapse
<1>2. Early /\ ~ Early'
  BY <1>1 DEF Early
<1>3. body \in Seq(Raw(base)) /\ History /\ Kept /\ base \in Nat
  BY <1>2, BodyTyped
<1>4. Linked(body) /\ CallsOnce(body)
  BY <1>2 DEF Linking
<1>5. result \in Backed(H)
  <2>1. cached \in BOOLEAN
    OBVIOUS
  <2> HIDE DEF cached, H
  <2> QED  BY <1>3, <2>1, CollapsingBacked DEF H
<1>6. H \subseteq GroupStarts(body)
  BY CollapsibleStarts
<1> HIDE DEF H, cached, result
<1>7. Linked(back)
  <2>1. Linked(Recovered(result, cached))
    BY <1>3, <1>5, RecoveredLinked
  <2> QED  BY <2>1, LinkedEmpty
<1>8. Linked(rest)
  <2>1. /\ result \in Loops(H) /\ \A s \in DOMAIN stubs : stubs[s] \in result.rows
    BY <1>5 DEF Backed
  <2>2. /\ result.rows \in SUBSET Refs /\ DOMAIN stubs \subseteq H
        /\ \A d \in result.deep : d.start \in H
    BY <2>1, LoopFields DEF StubFunctions
  <2>3. out \in SUBSET GroupStarts(body) /\ DOMAIN stubs \subseteq out
    BY <1>6, <2>2
  <2>4. \A s \in DOMAIN stubs : stubs[s] \in Refs
    BY <2>1, <2>2
  <2> HIDE DEF out, stubs
  <2> QED  BY <1>4, <2>3, <2>4, CollapsedLinked
<1> HIDE DEF back, rest
<1>9. Linked(back \o rest)
  BY <1>7, <1>8, LinkedConcat
<1> QED  BY <1>1, <1>2, <1>9, LinkingNext

LEMMA StubToolsLinking ==
  Linking /\ (\E intrude \in BOOLEAN : \E lost \in SUBSET Stubbable(intrude) :
                StubTools(intrude, lost)) => Linking'
<1> SUFFICES ASSUME Linking, NEW intrude, NEW lost, StubTools(intrude, lost)
             PROVE  Linking'
  OBVIOUS
<1> DEFINE K == Stubbable(intrude) \ lost
           x == StubOutputs(body, K)
<1>1. /\ stage = "stub" /\ body' = x /\ warm' = warm
      /\ stage' = (IF pass = 1 THEN "merge" ELSE "trim")
  BY Zenon DEF StubTools
<1>2. Early' => Early
  BY <1>1 DEF Early
<1>3. Linked(x) /\ (CallsOnce(body) => CallsOnce(x))
  <2>1. Linked(body)
    BY DEF Linking
  <2> QED  BY <2>1, StubOutputsLinked
<1> HIDE DEF x
<1>4. Early' => CallsOnce(x)
  BY <1>2, <1>3 DEF Linking
<1> QED  BY <1>1, <1>3, <1>4, LinkingNext

LEMMA MergeLinking == Linking /\ (Merge \/ Valve) => Linking'
<1> SUFFICES ASSUME Linking, Merge \/ Valve PROVE Linking'
  OBVIOUS
<1> DEFINE x == MergeConversational(body)
<1>1. body' = x /\ stage = "merge"
  BY Zenon DEF Merge, Valve
<1>2. Linked(x) /\ (CallsOnce(body) => CallsOnce(x))
  <2>1. Linked(body)
    BY DEF Linking
  <2> QED  BY <2>1, MergeLinked
<1>3. Early' => Early
  <2>1. CASE Merge
    BY <2>1 DEF Merge, Early
  <2>2. CASE Valve
    BY <2>2 DEF Valve, Early
  <2> QED  BY <2>1, <2>2
<1> HIDE DEF x
<1>4. Early' => CallsOnce(x)
  BY <1>2, <1>3 DEF Linking
<1> QED  BY <1>1, <1>2, <1>4, LinkingNext

LEMMA TrimLinking ==
  Linking /\ (\E cramped \in BOOLEAN :
                \E older \in SUBSET ButLast(GroupStarts(body), 2) : Trim(older, cramped))
  => Linking'
<1> SUFFICES ASSUME Linking, NEW cramped, NEW older \in SUBSET ButLast(GroupStarts(body), 2),
                    Trim(older, cramped)
             PROVE  Linking'
  OBVIOUS
<1> DEFINE t == Trimmed(body, older)
           c == Cleanup(t)
           all == ButLast(GroupStarts(body), 2)
<1>1. body' = (IF older = all \/ cramped THEN t ELSE c) /\ stage' = "sent"
  BY Zenon DEF Trim
<1>2. older \in SUBSET GroupStarts(body)
  BY DEF ButLast
<1>3. Linked(t)
  BY <1>2, TrimmedLinked DEF Linking
<1> HIDE DEF t, all
<1>4. Linked(c)
  BY <1>3, CleanupLinked
<1> HIDE DEF c
<1>5. Linked(body') /\ ~ Early'
  BY <1>1, <1>3, <1>4 DEF Early
<1> QED  BY <1>5, LinkingNext

LEMMA RestoreLinking == Inv /\ Linking /\ (\E ref \in rows : Restore(ref)) => Linking'
<1> SUFFICES ASSUME Inv, Linking, NEW ref \in rows, Restore(ref) PROVE Linking'
  OBVIOUS
<1> DEFINE id == ref.first
           full == Client(0)
           whole == Keep(full, Chain(full, PositionIn(full, id)))
           r == Restorable(whole)
<1>1. /\ stage = "sent" /\ stage' = stage /\ StubsOf(body, ref) # {}
      /\ body' = RestoreInPlace(body, ref, r)
  BY Zenon DEF Restore
<1>2. History /\ WholeChain(id)
  BY BodyTyped DEF Kept
<1> HIDE DEF id
<1>3. Linked(r) /\ r # <<>>
  BY <1>2, RestoredWhole
<1>4. Linked(body)
  BY DEF Linking
<1> HIDE DEF r
<1>5. Linked(body')
  BY <1>1, <1>3, <1>4, RestoreLinked
<1>6. ~ Early'
  BY <1>1 DEF Early
<1> QED  BY <1>5, <1>6, LinkingNext

LEMMA NextLinking == Inv /\ Linking /\ [Next]_vars => Linking'
<1> SUFFICES ASSUME Inv, Linking, [Next]_vars PROVE Linking'
  OBVIOUS
<1>1. CASE Prepare
  <2>1. CASE \E cold \in BOOLEAN : Receive(cold)
    BY <2>1, ReceiveLinking
  <2>2. CASE Drop
    BY <2>2, DropLinking
  <2>3. CASE SkipFilter \/ SkipCollapse
    BY <2>3, SkipLinking
  <2>4. CASE \E matched \in SUBSET Decided : FilterBody(matched)
    BY <2>4, FilterLinking
  <2>5. CASE \E lostRows \in SUBSET Collapsible(body) :
               \E lostOutputs \in SUBSET Collapsible(body) : Collapse(lostRows, lostOutputs)
    BY <2>5, CollapseLinking
  <2>6. CASE \E intrude \in BOOLEAN : \E lost \in SUBSET Stubbable(intrude) :
               StubTools(intrude, lost)
    BY <2>6, StubToolsLinking
  <2>7. CASE Merge \/ Valve
    BY <2>7, MergeLinking
  <2>8. CASE \E cramped \in BOOLEAN :
               \E older \in SUBSET ButLast(GroupStarts(body), 2) : Trim(older, cramped)
    BY <2>8, TrimLinking
  <2>9. CASE \E ref \in rows : Restore(ref)
    BY <2>9, RestoreLinking
  <2> QED  BY <1>1, <2>1, <2>2, <2>3, <2>4, <2>5, <2>6, <2>7, <2>8, <2>9, Zenon DEF Prepare
<1>2. CASE ~ Prepare
  BY <1>2, OutsideLinking, Zenon DEF Next
<1> QED  BY <1>1, <1>2

\* Linked bodies are what the provider's API takes.
LEMMA LinkingPairs == Linking => ToolsPaired /\ BeginsWithUser
<1> SUFFICES ASSUME Linking PROVE ToolsPaired /\ BeginsWithUser
  OBVIOUS
<1>1. body \in Seq(Sided) /\ Passes(body, {}, {}) /\ Begins(body)
  BY DEF Linking, Linked
<1>2. BeginsWithUser
  BY <1>1 DEF BeginsWithUser, Begins
<1>3. ToolsPaired
  <2> SUFFICES ASSUME NEW i \in DOMAIN body
               PROVE  /\ body[i].results # {} =>
                           i > 1 /\ body[i].results \subseteq body[i - 1].uses
                      /\ body[i].uses # {} =>
                           i < Len(body) /\ body[i].uses \subseteq body[i + 1].results
    BY DEF ToolsPaired
  <2> DEFINE n == Len(body)
  <2>1. n \in Nat /\ i \in 1..n /\ body # <<>>
    BY <1>1
  <2>2. /\ body[1].results = {} /\ body[n].uses = {}
        /\ \A k \in 1..(n - 1) : body[k].uses = body[k + 1].results
    BY <1>1, <2>1 DEF Passes
  <2> HIDE DEF n
  <2>3. body[i].results # {} => i > 1 /\ body[i].results \subseteq body[i - 1].uses
    <3> SUFFICES ASSUME body[i].results # {}
                 PROVE  i > 1 /\ body[i].results \subseteq body[i - 1].uses
      OBVIOUS
    <3>1. i # 1
      BY <2>2
    <3>2. i - 1 \in 1..(n - 1) /\ (i - 1) + 1 = i
      BY <2>1, <3>1
    <3>3. body[i - 1].uses = body[i].results
      BY <2>2, <3>2
    <3> QED  BY <3>2, <3>3, <2>1
  <2>4. body[i].uses # {} => i < n /\ body[i].uses \subseteq body[i + 1].results
    <3> SUFFICES ASSUME body[i].uses # {}
                 PROVE  i < n /\ body[i].uses \subseteq body[i + 1].results
      OBVIOUS
    <3>1. i # n
      BY <2>2
    <3>2. i \in 1..(n - 1)
      BY <2>1, <3>1
    <3> QED  BY <2>1, <2>2, <3>1, <3>2
  <2> QED  BY <2>3, <2>4 DEF n
<1> QED  BY <1>2, <1>3

\* A tool result of the payload follows the message that calls the tool and a
\* call is answered by the message after it: what drop_compacted_turns, the
\* filter, collapse_turn_chains, the merge, the trim and its cleanup cut, insert
\* and join, and what the restore handler puts back, never parts a call from its
\* result, for any history, bounds and windows and whatever has failed.
THEOREM ToolsArePaired == Spec => []ToolsPaired
<1>1. Init => Inv /\ Linking
  BY InitInv, InitLinking
<1>2. Inv /\ Linking /\ [Next]_vars => Inv' /\ Linking'
  BY NextInv, NextLinking
<1>3. Linking => ToolsPaired
  BY LinkingPairs
<1> QED  BY <1>1, <1>2, <1>3, PTL DEF Spec

\* The payload begins with a user message after every stage of prepare_payload:
\* whatever the stages drop or put before it, the backfill of
\* filter_body_messages and the cleanup after the trim leave no answer in front.
THEOREM PayloadBeginsWithUser == Spec => []BeginsWithUser
<1>1. Init => Inv /\ Linking
  BY InitInv, InitLinking
<1>2. Inv /\ Linking /\ [Next]_vars => Inv' /\ Linking'
  BY NextInv, NextLinking
<1>3. Linking => BeginsWithUser
  BY LinkingPairs
<1> QED  BY <1>1, <1>2, <1>3, PTL DEF Spec
=============================================================================
