----------------------- MODULE IngestReconciler_proofs -----------------------
(****************************************************************************)
(* Theorems about the ingest reconciler: type correctness, that a refused   *)
(* call leaves no row, and, on Postgres, that merges are serialized and     *)
(* leave the turns of other calls alone, that the sort keys a call allocates*)
(* are free, that its payload is stored in order and in one place, and that *)
(* a payload that is there already is not written again.                    *)
(****************************************************************************)
EXTENDS IngestReconciler, FiniteSetTheorems, SequenceTheorems, WellFoundedInduction, TLAPS

----------------------------------------------------------------------------
(* Least and greatest elements.                                            *)

\* A set of naturals that is not empty has a least element.
LEMMA LeastExists ==
  ASSUME NEW S \in SUBSET Nat, S # {}
  PROVE  \E x \in S : \A y \in S : x <= y
<1> DEFINE R == {ss \in Nat \X Nat : ss[1] < ss[2]}
<1>1. IsWellFoundedOn(R, Nat)
  BY NatLessThanWellFounded, Zenon DEF OpToRel
<1>2. \A m, n \in Nat : m < n => <<m, n>> \in R
  OBVIOUS
<1> HIDE DEF R
<1>3. PICK x \in S : \A y \in S : ~ (<<y, x>> \in R)
  BY <1>1, WFMin
<1>4. ASSUME NEW y \in S PROVE x <= y
  <2>1. CASE y < x
    <3>1. <<y, x>> \in R
      BY <1>2, <2>1
    <3> QED  BY <1>3, <3>1
  <2>2. CASE ~ (y < x)
    BY <2>2
  <2> QED  BY <2>1, <2>2
<1> QED  BY <1>4

\* A bounded set of integers that is not empty has a greatest element, and Max
\* is it.
LEMMA MaxOfBounded ==
  ASSUME NEW S \in SUBSET Int, S # {}, NEW b \in Int, \A x \in S : x <= b
  PROVE  Max(S) \in S /\ \A x \in S : x <= Max(S)
<1> DEFINE T == {n \in Nat : b - n \in S}
<1>1. PICK s \in S : TRUE
  OBVIOUS
<1>2. b - s \in T
  BY <1>1
<1> HIDE DEF T
<1>3. PICK n \in T : \A m \in T : n <= m
  BY <1>2, LeastExists DEF T
<1>4. n \in Nat /\ b - n \in S
  BY <1>3 DEF T
<1>5. ASSUME NEW x \in S PROVE x <= b - n
  <2>1. b - x \in T
    BY DEF T
  <2> QED  BY <2>1, <1>3, <1>4
<1>6. \E x \in S : \A y \in S : x >= y
  BY <1>4, <1>5
<1> QED  BY <1>6, Zenon DEF Max

\* The greatest of finitely many integers, given as the values of a list.
LEMMA MaxOfList ==
  ASSUME NEW n \in Nat, NEW f, \A k \in 1..n : f[k] \in Int, n > 0
  PROVE  Max({f[k] : k \in 1..n}) \in Int /\ \A k \in 1..n : f[k] <= Max({f[i] : i \in 1..n})
<1> DEFINE Bounded(m) == \E b \in Int : \A k \in 1..m : f[k] <= b
           Unbounded == {m \in 1..n : ~ Bounded(m)}
<1>1. ASSUME NEW m \in 1..n, m > 1, Bounded(m - 1) PROVE Bounded(m)
  <2>1. PICK b \in Int : \A k \in 1..(m - 1) : f[k] <= b
    BY <1>1
  <2>2. CASE f[m] <= b
    <3>1. \A k \in 1..m : f[k] <= b
      BY <2>1, <2>2, <1>1
    <3> QED  BY <2>1, <3>1
  <2>3. CASE ~ (f[m] <= b)
    <3>1. f[m] \in Int
      OBVIOUS
    <3>2. \A k \in 1..m : f[k] <= f[m]
      BY <2>1, <2>3, <1>1, <3>1
    <3> QED  BY <3>1, <3>2
  <2> QED  BY <2>2, <2>3
<1>2. Bounded(1)
  <2>1. f[1] \in Int /\ \A k \in 1..1 : f[k] <= f[1]
    OBVIOUS
  <2> QED  BY <2>1
<1>3. Unbounded \in SUBSET Nat
  OBVIOUS
<1>4. \A m : m \in Unbounded <=> m \in 1..n /\ ~ Bounded(m)
  BY Zenon
<1> HIDE DEF Unbounded, Bounded
<1>5. Unbounded = {}
  <2> SUFFICES ASSUME Unbounded # {} PROVE FALSE
    OBVIOUS
  <2>1. PICK m \in Unbounded : \A k \in Unbounded : m <= k
    BY <1>3, LeastExists
  <2>2. m \in 1..n /\ ~ Bounded(m)
    BY <1>4
  <2>3. m # 1
    BY <2>2, <1>2
  <2>4. m - 1 \in 1..n /\ m > 1
    BY <2>2, <2>3
  <2>5. m - 1 \notin Unbounded
    BY <2>1, <2>2
  <2>6. Bounded(m - 1)
    BY <2>4, <2>5, <1>4
  <2> QED  BY <1>1, <2>2, <2>4, <2>6
<1>6. Bounded(n)
  BY <1>4, <1>5
<1>7. PICK b \in Int : \A k \in 1..n : f[k] <= b
  BY <1>6 DEF Bounded
<1> DEFINE S == {f[k] : k \in 1..n}
<1>8. S \in SUBSET Int /\ S # {} /\ (\A x \in S : x <= b) /\ \A k \in 1..n : f[k] \in S
  BY <1>7
<1> HIDE DEF S
<1>9. Max(S) \in S /\ \A x \in S : x <= Max(S)
  BY <1>8, MaxOfBounded
<1>10. Max(S) \in Int /\ \A k \in 1..n : f[k] <= Max(S)
  BY <1>8, <1>9
<1> QED  BY <1>10 DEF S

\* Among the elements of a set that is not empty there is one that comes first
\* in the lexicographic order of three natural measures.
LEMMA FirstExists ==
  ASSUME NEW S, S # {}, NEW f \in [S -> Nat], NEW g \in [S -> Nat], NEW h \in [S -> Nat]
  PROVE  \E x \in S : \A y \in S :
           \/ f[x] < f[y]
           \/ f[x] = f[y] /\ g[x] < g[y]
           \/ f[x] = f[y] /\ g[x] = g[y] /\ h[x] <= h[y]
<1>1. PICK a \in S : \A y \in S : f[a] <= f[y]
  <2> DEFINE T == {f[y] : y \in S}
  <2>1. T \in SUBSET Nat /\ T # {}
    OBVIOUS
  <2>2. PICK n \in T : \A m \in T : n <= m
    BY <2>1, LeastExists
  <2> QED  BY <2>2
<1>2. PICK c \in S : f[c] = f[a] /\ \A y \in S : f[y] = f[a] => g[c] <= g[y]
  <2> DEFINE T == {g[y] : y \in {z \in S : f[z] = f[a]}}
  <2>1. T \in SUBSET Nat /\ T # {}
    OBVIOUS
  <2>2. PICK n \in T : \A m \in T : n <= m
    BY <2>1, LeastExists
  <2> QED  BY <2>2
<1>3. PICK x \in S : f[x] = f[a] /\ g[x] = g[c]
        /\ \A y \in S : f[y] = f[a] /\ g[y] = g[c] => h[x] <= h[y]
  <2> DEFINE T == {h[y] : y \in {z \in S : f[z] = f[a] /\ g[z] = g[c]}}
  <2>1. T \in SUBSET Nat /\ T # {}
    BY <1>2
  <2>2. PICK n \in T : \A m \in T : n <= m
    BY <2>1, LeastExists
  <2> QED  BY <2>2
<1>4. ASSUME NEW y \in S
      PROVE  \/ f[x] < f[y]
             \/ f[x] = f[y] /\ g[x] < g[y]
             \/ f[x] = f[y] /\ g[x] = g[y] /\ h[x] <= h[y]
  <2>1. f[x] <= f[y] /\ (f[x] = f[y] => g[x] <= g[y])
    BY <1>1, <1>2, <1>3
  <2> QED  BY <2>1, <1>2, <1>3
<1> QED  BY <1>4

----------------------------------------------------------------------------
(* What _find_alignment returns.                                           *)

Alignment == [old : Nat, new : Nat, n : Nat]

\* An alignment lies within the incoming list and starts within the existing one.
Fits(a, I) ==
  /\ a \in Alignment
  /\ a = NoAlignment \/ (a.old >= 1 /\ a.new >= 1 /\ a.n >= 1 /\ a.new + a.n - 1 <= Len(I))

\* Agreement is a number of positions at which the lists agree.
LEMMA AgreementHolds ==
  ASSUME NEW E \in Seq(Turn), NEW I \in Seq(Turn), NEW old \in Int, NEW new \in Int,
         NEW d \in Int
  PROVE  /\ Agreement(E, I, old, new, d) \in 0..Len(I)
         /\ \A k \in 0..(Agreement(E, I, old, new, d) - 1) :
              /\ old + d * k \in DOMAIN E /\ new + d * k \in DOMAIN I
              /\ E[old + d * k] = I[new + d * k]
<1> DEFINE Agree(k) == /\ old + d * k \in DOMAIN E /\ new + d * k \in DOMAIN I
                       /\ E[old + d * k] = I[new + d * k]
           S == {n \in 0..Len(I) : \A k \in 0..(n - 1) : Agree(k)}
<1>1. Len(I) \in Nat /\ Len(I) \in Int
  OBVIOUS
<1>2. Agreement(E, I, old, new, d) = Max(S)
  BY Zenon DEF Agreement
<1> HIDE DEF Agree
<1>3. S \in SUBSET Int /\ S # {} /\ \A n \in S : n <= Len(I)
  BY <1>1
<1>4. \A n : n \in S => n \in 0..Len(I) /\ \A k \in 0..(n - 1) : Agree(k)
  BY Zenon
<1> HIDE DEF S
<1>5. Max(S) \in S
  BY <1>1, <1>3, MaxOfBounded, Zenon
<1>6. Max(S) \in 0..Len(I) /\ \A k \in 0..(Max(S) - 1) : Agree(k)
  BY <1>4, <1>5
<1> QED  BY <1>2, <1>6, Zenon DEF Agree

\* Agreement reaches neither beyond the ends of the incoming list nor before the
\* start of the existing one.
LEMMA AgreementWithin ==
  ASSUME NEW E \in Seq(Turn), NEW I \in Seq(Turn), NEW old \in Int, NEW new \in Int,
         NEW left, left = Agreement(E, I, old, new, -1),
         NEW right, right = Agreement(E, I, old, new, 1)
  PROVE  /\ left \in Nat /\ (left > 0 => old - left >= 0 /\ new - left >= 0)
         /\ right \in Nat /\ (right > 0 => new + right - 1 <= Len(I))
<1>1. Len(E) \in Nat /\ Len(I) \in Nat /\ DOMAIN E = 1..Len(E) /\ DOMAIN I = 1..Len(I)
  OBVIOUS
<1>2. ASSUME NEW d \in Int
      PROVE  /\ Agreement(E, I, old, new, d) \in 0..Len(I)
             /\ \A k \in 0..(Agreement(E, I, old, new, d) - 1) :
                  old + d * k \in DOMAIN E /\ new + d * k \in DOMAIN I
  BY AgreementHolds
<1>3. left \in Nat /\ (left > 0 => old - left >= 0 /\ new - left >= 0)
  <2> DEFINE d == -1
  <2>1. d \in Int /\ left = Agreement(E, I, old, new, d) /\ d = -1
    OBVIOUS
  <2> HIDE DEF d
  <2>2. left \in 0..Len(I) /\ \A k \in 0..(left - 1) :
          old + d * k \in DOMAIN E /\ new + d * k \in DOMAIN I
    BY <1>2, <2>1
  <2> QED
    <3> SUFFICES ASSUME left > 0 PROVE old - left >= 0 /\ new - left >= 0
      BY <1>1, <2>2
    <3>1. left - 1 \in 0..(left - 1)
      BY <2>2, <1>1
    <3>2. old + d * (left - 1) \in DOMAIN E /\ new + d * (left - 1) \in DOMAIN I
      BY <2>2, <3>1
    <3>3. left \in Int /\ d * (left - 1) = 1 - left
      BY <2>1, <2>2
    <3> QED  BY <1>1, <3>2, <3>3, SMTT(30)
<1>4. right \in Nat /\ (right > 0 => new + right - 1 <= Len(I))
  <2>1. right \in 0..Len(I) /\ \A k \in 0..(right - 1) : new + 1 * k \in DOMAIN I
    BY <1>2
  <2> QED
    <3> SUFFICES ASSUME right > 0 PROVE new + right - 1 <= Len(I)
      BY <1>1, <2>1
    <3>1. right - 1 \in 0..(right - 1)
      BY <2>1, <1>1
    <3>2. new + 1 * (right - 1) \in DOMAIN I
      BY <2>1, <3>1
    <3> QED  BY <1>1, <2>1, <3>2
<1> QED  BY <1>3, <1>4

\* Extending a hit keeps it within the lists.
LEMMA ExtendFits ==
  ASSUME NEW E \in Seq(Turn), NEW I \in Seq(Turn), NEW size \in Nat \ {0}, NEW hit,
         hit.old \in Nat \ {0}, hit.new \in 1..(Len(I) - size + 1)
  PROVE  Fits(Extend(E, I, hit, size), I) /\ Extend(E, I, hit, size).n \in 1..Len(I)
<1> DEFINE left == Agreement(E, I, hit.old - 1, hit.new - 1, -1)
           right == Agreement(E, I, hit.old + size, hit.new + size, 1)
<1>1. Len(I) \in Nat /\ hit.old \in Int /\ hit.new \in Int
  OBVIOUS
<1>2. left \in Nat /\ (left > 0 => (hit.old - 1) - left >= 0 /\ (hit.new - 1) - left >= 0)
  <2>1. ASSUME NEW o \in Int, NEW i \in Int, NEW l, l = Agreement(E, I, o, i, -1)
        PROVE  l \in Nat /\ (l > 0 => o - l >= 0 /\ i - l >= 0)
    <3>1. Agreement(E, I, o, i, 1) = Agreement(E, I, o, i, 1)
      OBVIOUS
    <3> QED  BY <2>1, <3>1, AgreementWithin
  <2>2. hit.old - 1 \in Int /\ hit.new - 1 \in Int
    BY <1>1
  <2> QED  BY <2>1, <2>2
<1>3. right \in Nat /\ (right > 0 => (hit.new + size) + right - 1 <= Len(I))
  <2>1. ASSUME NEW o \in Int, NEW i \in Int, NEW r, r = Agreement(E, I, o, i, 1)
        PROVE  r \in Nat /\ (r > 0 => i + r - 1 <= Len(I))
    <3>1. Agreement(E, I, o, i, -1) = Agreement(E, I, o, i, -1)
      OBVIOUS
    <3> QED  BY <2>1, <3>1, AgreementWithin
  <2>2. hit.old + size \in Int /\ hit.new + size \in Int
    BY <1>1
  <2> QED  BY <2>1, <2>2
<1>4. Extend(E, I, hit, size)
        = [old |-> hit.old - left, new |-> hit.new - left, n |-> left + size + right]
  BY DEF Extend
<1> HIDE DEF left, right
<1> DEFINE a == [old |-> hit.old - left, new |-> hit.new - left, n |-> left + size + right]
<1>5. /\ hit.old - left \in Nat /\ hit.new - left \in Nat /\ left + size + right \in 1..Len(I)
      /\ hit.old - left >= 1 /\ hit.new - left >= 1
      /\ (hit.new - left) + (left + size + right) - 1 <= Len(I)
  <2>1. ASSUME NEW o \in Nat, o >= 1, NEW i \in Nat, i >= 1, i + size - 1 <= Len(I),
               left > 0 => (o - 1) - left >= 0 /\ (i - 1) - left >= 0,
               right > 0 => (i + size) + right - 1 <= Len(I)
        PROVE  /\ o - left \in Nat /\ i - left \in Nat /\ left + size + right \in 1..Len(I)
               /\ o - left >= 1 /\ i - left >= 1
               /\ (i - left) + (left + size + right) - 1 <= Len(I)
    BY <1>1, <1>2, <1>3, <2>1
  <2>2. hit.old \in Nat /\ hit.old >= 1 /\ hit.new \in Nat /\ hit.new >= 1
        /\ hit.new + size - 1 <= Len(I)
    BY <1>1
  <2> QED  BY <1>2, <1>3, <2>1, <2>2
<1>6. Fits(a, I) /\ a.n \in 1..Len(I)
  BY <1>5 DEF Fits, Alignment
<1> QED  BY <1>4, <1>6

\* The longest alignment that comes first is one of those given, and no other
\* is longer.
LEMMA FirstLongestFound ==
  ASSUME NEW A, A # {}, NEW b \in Nat, A \subseteq Alignment, \A a \in A : a.n <= b
  PROVE  FirstLongest(A) \in A /\ \A c \in A : c.n <= FirstLongest(A).n
<1> DEFINE longest == {a \in A : \A c \in A : c.n <= a.n}
           lengths == {a.n : a \in A}
           f == [a \in longest |-> a.new]
           g == [a \in longest |-> a.old]
<1>1. \A a \in A : a.n \in Nat /\ a.new \in Nat /\ a.old \in Nat
  BY DEF Alignment
<1>2. lengths \in SUBSET Int /\ lengths # {} /\ \A n \in lengths : n <= b
  BY <1>1
<1> HIDE DEF lengths
<1>3. Max(lengths) \in lengths /\ \A n \in lengths : n <= Max(lengths)
  BY <1>2, MaxOfBounded
<1>4. longest # {}
  <2>1. PICK a \in A : a.n = Max(lengths)
    BY <1>3 DEF lengths
  <2>2. \A c \in A : c.n <= a.n
    BY <1>3, <2>1 DEF lengths
  <2> QED  BY <2>2
<1>5. f \in [longest -> Nat] /\ g \in [longest -> Nat]
  BY <1>1
<1> HIDE DEF longest, f, g
<1>6. PICK x \in longest : \A y \in longest :
        \/ f[x] < f[y]
        \/ f[x] = f[y] /\ g[x] < g[y]
        \/ f[x] = f[y] /\ g[x] = g[y] /\ g[x] <= g[y]
  BY <1>4, <1>5, FirstExists, SMTT(30)
<1>7. ASSUME NEW y \in longest PROVE x.new < y.new \/ (x.new = y.new /\ x.old <= y.old)
  <2>1. f[x] = x.new /\ f[y] = y.new /\ g[x] = x.old /\ g[y] = y.old
    BY DEF f, g
  <2>2. x.old \in Nat /\ y.old \in Nat
    BY <1>1 DEF longest
  <2> QED  BY <1>6, <2>1, <2>2
<1>8. \E z \in longest : \A y \in longest : z.new < y.new \/ (z.new = y.new /\ z.old <= y.old)
  BY <1>6, <1>7
<1>9. FirstLongest(A) \in longest
  BY <1>8, Zenon DEF FirstLongest, longest
<1> QED  BY <1>9 DEF longest

\* The short alignments lie within the incoming list.
LEMMA ShortAlignmentsFit ==
  ASSUME NEW E \in Seq(Turn), NEW I \in Seq(Turn), NEW a \in ShortAlignments(E, I)
  PROVE  Fits(a, I) /\ a \in Alignment /\ a.n \in 1..Len(I)
<1>1. Len(E) \in Nat /\ Len(I) \in Nat /\ DOMAIN E = 1..Len(E) /\ DOMAIN I = 1..Len(I)
  OBVIOUS
<1>2. PICK e \in DOMAIN E, i \in DOMAIN I, n \in DOMAIN I : a = [old |-> e, new |-> i, n |-> n]
  BY DEF ShortAlignments, Overlaps
<1>3. n <= Agreement(E, I, e, i, 1)
  BY <1>2 DEF ShortAlignments
<1> DEFINE r == Agreement(E, I, e, i, 1)
           l == Agreement(E, I, e, i, -1)
<1>4. e \in Int /\ i \in Int
  BY <1>1
<1>5. r = Agreement(E, I, e, i, 1) /\ l = Agreement(E, I, e, i, -1)
  OBVIOUS
<1> HIDE DEF r, l
<1>6. r \in Nat /\ (r > 0 => i + r - 1 <= Len(I))
  BY <1>4, <1>5, AgreementWithin
<1>7. n <= r
  BY <1>3, <1>5
<1>8. n \in Nat /\ n >= 1 /\ i \in Nat /\ i >= 1 /\ e \in Nat /\ e >= 1 /\ n <= Len(I)
  BY <1>1
<1>9. i + n - 1 <= Len(I)
  BY <1>1, <1>6, <1>7, <1>8
<1>10. a \in Alignment /\ a.old = e /\ a.new = i /\ a.n = n
  BY <1>2, <1>8 DEF Alignment
<1> QED  BY <1>1, <1>8, <1>9, <1>10 DEF Fits

\* A set of naturals that is not empty contains its Min, which is least.
LEMMA MinOfNaturals ==
  ASSUME NEW S \in SUBSET Nat, S # {}
  PROVE  Min(S) \in S /\ \A y \in S : Min(S) <= y
<1>1. \E x \in S : \A y \in S : x =< y
  BY LeastExists
<1> QED  BY <1>1, Zenon DEF Min

\* An index of windows of turns.
WindowIndex == [turns : Seq(Turn), at : Nat \ {0}]

\* The best hit is one of those given; unless one starts beyond the list, no
\* other extends further.
LEMMA BestHitFound ==
  ASSUME NEW E \in Seq(Turn), NEW I \in Seq(Turn), NEW size \in Nat \ {0}, NEW hits, hits # {},
         hits \subseteq [old : Nat \ {0}, new : 1..(Len(I) - size + 1)]
  PROVE  /\ BestHit(E, I, hits, size) \in hits
         /\ (\A h \in hits : h.old <= Len(E) + 1)
            => \A g \in hits : Extend(E, I, g, size).n
                               <= Extend(E, I, BestHit(E, I, hits, size), size).n
<1> DEFINE first(h) == Min({i \in 1..h.new : Window(I, i, size) = Window(I, h.new, size)})
           length(h) == Extend(E, I, h, size).n
           beyond == {h \in hits : h.new > 1 /\ h.old > Len(E) + 1}
           longest == {h \in hits : \A g \in hits : length(g) <= length(h)}
           best == IF beyond # {} THEN beyond ELSE longest
           lengths == {length(h) : h \in hits}
<1>1. Len(I) \in Nat
  OBVIOUS
<1>2. \A h \in hits : h.new \in Nat /\ h.new >= 1 /\ h.old \in Nat
  BY <1>1
<1>3. ASSUME NEW h \in hits PROVE first(h) \in Nat
  <2> DEFINE S == {i \in 1..h.new : Window(I, i, size) = Window(I, h.new, size)}
  <2>1. S \in SUBSET Nat /\ h.new \in S
    BY <1>2
  <2> HIDE DEF S
  <2>2. Min(S) \in Nat
    BY <2>1, MinOfNaturals
  <2> QED  BY <2>2, Zenon DEF S
<1>4. ASSUME NEW h \in hits PROVE length(h) \in 1..Len(I)
  <2>1. hits \subseteq [old : Nat \ {0}, new : 1..(Len(I) - size + 1)]
    OBVIOUS
  <2>2. h.old \in Nat \ {0} /\ h.new \in 1..(Len(I) - size + 1)
    BY <2>1
  <2> QED  BY <2>2, ExtendFits
<1> HIDE DEF first, length
<1>5. longest # {}
  <2>1. lengths \in SUBSET Int /\ lengths # {} /\ \A n \in lengths : n <= Len(I)
    BY <1>1, <1>4
  <2> HIDE DEF lengths
  <2> DEFINE b == Len(I)
  <2>6. b \in Int /\ \A n \in lengths : n <= b
    BY <1>1, <2>1
  <2> HIDE DEF b
  <2>2. Max(lengths) \in lengths /\ \A n \in lengths : n <= Max(lengths)
    BY <2>1, <2>6, MaxOfBounded
  <2>3. PICK h \in hits : length(h) = Max(lengths)
    BY <2>2 DEF lengths
  <2>4. \A g \in hits : length(g) \in lengths
    BY DEF lengths
  <2>5. \A g \in hits : length(g) <= length(h)
    BY <2>2, <2>3, <2>4
  <2> QED  BY <2>5
<1>6. best # {} /\ best \subseteq hits
  BY <1>5
<1> HIDE DEF best, beyond, longest, lengths
<1> DEFINE f == [h \in best |-> first(h)]
           g == [h \in best |-> h.new]
           o == [h \in best |-> h.old]
<1>7. f \in [best -> Nat] /\ g \in [best -> Nat] /\ o \in [best -> Nat]
  BY <1>2, <1>3, <1>6
<1>8. \A h \in best : f[h] = first(h) /\ g[h] = h.new /\ o[h] = h.old
  OBVIOUS
<1> HIDE DEF f, g, o
<1>9. PICK x \in best : \A y \in best :
        \/ f[x] < f[y]
        \/ f[x] = f[y] /\ g[x] < g[y]
        \/ f[x] = f[y] /\ g[x] = g[y] /\ o[x] <= o[y]
  <2>1. best # {}
    BY <1>6
  <2>2. f \in [best -> Nat]
    BY <1>7
  <2>3. g \in [best -> Nat]
    BY <1>7
  <2>4. o \in [best -> Nat]
    BY <1>7
  <2>5. \A F, G, O \in [best -> Nat] : \E x \in best : \A y \in best :
          \/ F[x] < F[y]
          \/ F[x] = F[y] /\ G[x] < G[y]
          \/ F[x] = F[y] /\ G[x] = G[y] /\ O[x] <= O[y]
    BY <2>1, FirstExists
  <2>6. \A G, O \in [best -> Nat] : \E x \in best : \A y \in best :
          \/ f[x] < f[y]
          \/ f[x] = f[y] /\ G[x] < G[y]
          \/ f[x] = f[y] /\ G[x] = G[y] /\ O[x] <= O[y]
    BY ONLY <2>2, <2>5, Zenon
  <2>7. \A O \in [best -> Nat] : \E x \in best : \A y \in best :
          \/ f[x] < f[y]
          \/ f[x] = f[y] /\ g[x] < g[y]
          \/ f[x] = f[y] /\ g[x] = g[y] /\ O[x] <= O[y]
    BY ONLY <2>3, <2>6, Zenon
  <2> QED  BY ONLY <2>4, <2>7, Zenon
<1>10. \E h \in best : \A y \in best :
         \/ first(h) < first(y)
         \/ first(h) = first(y) /\ h.new < y.new
         \/ first(h) = first(y) /\ h.new = y.new /\ h.old <= y.old
  BY <1>8, <1>9
<1>11. BestHit(E, I, hits, size) \in best
  BY <1>10, Zenon DEF BestHit, best, beyond, longest, first, length
<1>12. ASSUME \A h \in hits : h.old <= Len(E) + 1, NEW c \in hits
       PROVE  length(c) <= length(BestHit(E, I, hits, size))
  <2>1. beyond = {}
    <3>1. \A h \in hits : h.old \in Nat /\ Len(E) \in Nat /\ h.old <= Len(E) + 1
      BY <1>2, <1>12
    <3>2. \A h \in hits : ~ (h.old > Len(E) + 1)
      BY ONLY <3>1
    <3> QED  BY <3>2 DEF beyond
  <2>2. best = longest
    BY <2>1 DEF best
  <2>3. BestHit(E, I, hits, size) \in longest
    BY <1>11, <2>2
  <2> QED  BY <2>3 DEF longest
<1> QED  BY <1>6, <1>11, <1>12 DEF length

\* What the anchors yield lies within the incoming list.
LEMMA AnchorAlignmentFits ==
  ASSUME NEW E \in Seq(Turn), NEW I \in Seq(Turn), NEW index,
         \A z \in AnchorSizes : index[z] \subseteq WindowIndex
  PROVE  Fits(AnchorAlignment(E, I, index), I)
<1> DEFINE hits(z) == AnchorHits(index[z], I, z)
           found == {z \in AnchorSizes : hits(z) # {}}
<1>1. Len(I) \in Nat /\ AnchorSizes \subseteq Nat \ {0}
  BY AlignmentAssumption
<1>2. ASSUME NEW z \in AnchorSizes
      PROVE  hits(z) \subseteq [old : Nat \ {0}, new : 1..(Len(I) - z + 1)]
  <2>1. index[z] \subseteq WindowIndex
    OBVIOUS
  <2>2. {x.at : x \in index[z]} \subseteq Nat \ {0}
    BY <2>1 DEF WindowIndex
  <2> QED  BY <2>2 DEF AnchorHits
<1> HIDE DEF hits
<1>3. CASE found = {}
  <2>1. AnchorAlignment(E, I, index) = NoAlignment
    BY <1>3, Zenon DEF AnchorAlignment, found, hits
  <2> QED  BY <2>1 DEF Fits, NoAlignment, Alignment
<1>4. CASE found # {}
  <2> DEFINE z == Max(found)
  <2>1. found \in SUBSET Int
    <3>1. found \subseteq AnchorSizes
      BY Zenon
    <3> HIDE DEF found
    <3> QED  BY <1>1, <3>1
  <2>2. \A y \in found : y <= Len(I)
    <3> SUFFICES ASSUME NEW y \in found PROVE y <= Len(I)
      OBVIOUS
    <3>1. PICK h : h \in hits(y)
      OBVIOUS
    <3>2. h.new \in 1..(Len(I) - y + 1)
      BY <1>2, <3>1
    <3> QED  BY <1>1, <3>2
  <2>3. \A y : y \in found <=> y \in AnchorSizes /\ hits(y) # {}
    OBVIOUS
  <2>4. AnchorAlignment(E, I, index) = Extend(E, I, BestHit(E, I, hits(z), z), z)
    BY <1>4, Zenon DEF AnchorAlignment, found, hits
  <2> HIDE DEF found
  <2> DEFINE b == Len(I)
  <2>10. b \in Int /\ \A y \in found : y <= b
    BY <1>1, <2>2
  <2> HIDE DEF b
  <2>5. z \in found
    BY <1>4, <2>1, <2>10, MaxOfBounded
  <2> HIDE DEF z
  <2>6. z \in Nat \ {0} /\ z \in AnchorSizes /\ hits(z) # {}
    BY <1>1, <2>3, <2>5
  <2> DEFINE h == BestHit(E, I, hits(z), z)
  <2>7. h \in hits(z)
    BY <1>2, <2>6, BestHitFound
  <2> HIDE DEF h
  <2>8. h.old \in Nat \ {0} /\ h.new \in 1..(Len(I) - z + 1)
    BY <1>2, <2>6, <2>7
  <2>9. Fits(Extend(E, I, h, z), I)
    BY <2>6, <2>8, ExtendFits
  <2> QED  BY <2>4, <2>9 DEF h
<1> QED  BY <1>3, <1>4

\* So does whatever _find_alignment returns.
LEMMA FindAlignmentFits ==
  ASSUME NEW E \in Seq(Turn), NEW I \in Seq(Turn), NEW index, NEW short,
         \A z \in AnchorSizes : index[z] \subseteq WindowIndex
  PROVE  Fits(FindAlignment(E, I, index, short), I)
<1>1. Len(E) \in Nat /\ Len(I) \in Nat
  OBVIOUS
<1>2. Fits(NoAlignment, I)
  BY DEF Fits, NoAlignment, Alignment
<1>3. ASSUME E # <<>>, IsPrefix(E, I) PROVE Fits([old |-> 1, new |-> 1, n |-> Len(E)], I)
  BY <1>1, <1>3 DEF IsPrefix, Fits, Alignment
<1>4. ASSUME E # <<>>, IsSuffix(E, I)
      PROVE  Fits([old |-> 1, new |-> Len(I) - Len(E) + 1, n |-> Len(E)], I)
  <2>1. Len(Reverse(E)) = Len(E) /\ Len(Reverse(I)) = Len(I)
    BY DEF Reverse
  <2>2. Len(E) <= Len(I)
    BY <1>4, <2>1 DEF IsSuffix, IsPrefix
  <2>3. Len(E) >= 1
    BY <1>4
  <2> QED  BY <1>1, <2>2, <2>3 DEF Fits, Alignment
<1>5. ASSUME ShortAlignments(E, I) # {} PROVE Fits(FirstLongest(ShortAlignments(E, I)), I)
  <2> DEFINE A == ShortAlignments(E, I)
  <2>1. A \subseteq Alignment /\ \A a \in A : a.n <= Len(I) /\ Fits(a, I)
    BY <1>1, ShortAlignmentsFit
  <2> HIDE DEF A
  <2>2. A # {}
    BY <1>5 DEF A
  <2>3. FirstLongest(A) \in A
    BY <1>1, <2>1, <2>2, FirstLongestFound
  <2>4. Fits(FirstLongest(A), I)
    BY <2>1, <2>3
  <2> QED  BY <2>4 DEF A
<1>6. Fits(AnchorAlignment(E, I, index), I)
  BY AnchorAlignmentFits
<1> QED  BY <1>2, <1>3, <1>4, <1>5, <1>6, Zenon DEF FindAlignment

----------------------------------------------------------------------------
(* The table in its order.                                                 *)

IdsDistinct == \A r, s \in turns : r.id = s.id => r = s
TableSound == turns \subseteq Row /\ IsFiniteSet(turns) /\ IdsDistinct

Rank(r) == Cardinality({s \in turns : Precedes(s, r)})

\* Rows are ordered: by key, then by id.
LEMMA PrecedesOrders ==
  ASSUME NEW r \in Row, NEW s \in Row, NEW t \in Row
  PROVE  /\ ~ Precedes(r, r)
         /\ r.id # s.id => Precedes(r, s) \/ Precedes(s, r)
         /\ Precedes(r, s) /\ Precedes(s, t) => Precedes(r, t)
<1>1. ASSUME NEW x \in Row
      PROVE  /\ x.key \in Int /\ x.id[1] \in Nat /\ x.id[2] \in Nat
             /\ x.id = <<x.id[1], x.id[2]>>
  BY ReconcilerAssumption, SMTT(30) DEF Row, Id
<1>2. r.id # s.id => r.id[1] # s.id[1] \/ r.id[2] # s.id[2]
  BY <1>1
<1>3. /\ r.key \in Int /\ r.id[1] \in Nat /\ r.id[2] \in Nat
      /\ s.key \in Int /\ s.id[1] \in Nat /\ s.id[2] \in Nat
      /\ t.key \in Int /\ t.id[1] \in Nat /\ t.id[2] \in Nat
  BY <1>1
<1> QED  BY <1>2, <1>3 DEF Precedes

\* The rank of a row is a position, and no two rows have the same.
LEMMA RankInjective ==
  ASSUME TableSound
  PROVE  /\ Cardinality(turns) \in Nat
         /\ \A r \in turns : Rank(r) \in 0..(Cardinality(turns) - 1)
         /\ \A r, s \in turns : r # s => Rank(r) # Rank(s)
         /\ \A r, s \in turns : Precedes(r, s) => Rank(r) < Rank(s)
<1> DEFINE before(r) == {s \in turns : Precedes(s, r)}
<1>1. turns \subseteq Row /\ IsFiniteSet(turns) /\ Cardinality(turns) \in Nat
  BY FS_CardinalityType DEF TableSound
<1>2. ASSUME NEW r \in turns
      PROVE  /\ IsFiniteSet(before(r)) /\ Cardinality(before(r)) \in Nat
             /\ Cardinality(before(r)) < Cardinality(turns)
  <2>1. before(r) \in SUBSET turns
    OBVIOUS
  <2>2. r \notin before(r)
    BY <1>1, PrecedesOrders
  <2>3. before(r) # turns
    BY <2>2
  <2> HIDE DEF before
  <2>4. IsFiniteSet(before(r)) /\ Cardinality(before(r)) <= Cardinality(turns)
        /\ Cardinality(before(r)) # Cardinality(turns)
    BY <1>1, <2>1, <2>3, FS_Subset
  <2>5. Cardinality(before(r)) \in Nat
    BY <2>4, FS_CardinalityType
  <2> QED  BY <1>1, <2>4, <2>5
<1>3. ASSUME NEW r \in turns, NEW s \in turns, Precedes(r, s)
      PROVE  Cardinality(before(r)) < Cardinality(before(s))
  <2>1. before(r) \in SUBSET before(s)
    BY <1>1, <1>3, PrecedesOrders
  <2>2. r \in before(s) /\ r \notin before(r)
    BY <1>1, <1>3, PrecedesOrders
  <2>3. before(r) # before(s)
    BY <2>2
  <2>4. IsFiniteSet(before(s))
    BY <1>2
  <2>5. Cardinality(before(r)) \in Nat /\ Cardinality(before(s)) \in Nat
    BY <1>2
  <2> HIDE DEF before
  <2>6. Cardinality(before(r)) <= Cardinality(before(s)) /\ Cardinality(before(r)) # Cardinality(before(s))
    BY <2>1, <2>3, <2>4, FS_Subset
  <2> QED  BY <2>5, <2>6
<1>4. ASSUME NEW r \in turns, NEW s \in turns, r # s PROVE Precedes(r, s) \/ Precedes(s, r)
  <2>1. r.id # s.id
    BY <1>4 DEF TableSound, IdsDistinct
  <2> QED  BY <1>1, <2>1, PrecedesOrders
<1>5. \A r \in turns : Rank(r) = Cardinality(before(r))
  BY Zenon DEF Rank
<1> HIDE DEF before
<1> QED  BY <1>1, <1>2, <1>3, <1>4, <1>5

\* Table lists every row once, in order.
LEMMA TableListsTurns ==
  ASSUME TableSound
  PROVE  /\ Table \in Seq(Row) /\ Len(Table) = Cardinality(turns)
         /\ \A k \in 1..Len(Table) : Table[k] \in turns /\ Rank(Table[k]) = k - 1
         /\ \A r \in turns : \E k \in 1..Len(Table) : Table[k] = r
<1> DEFINE n == Cardinality(turns)
           rank == [r \in turns |-> Rank(r)]
           row(k) == CHOOSE r \in turns : Rank(r) = k - 1
<1>1. n \in Nat /\ (\A r \in turns : Rank(r) \in 0..(n - 1))
      /\ \A r, s \in turns : r # s => Rank(r) # Rank(s)
  BY RankInjective
<1>2. IsFiniteSet(turns) /\ turns \subseteq Row
  BY DEF TableSound
<1>3. IsFiniteSet(0..(n - 1)) /\ Cardinality(0..(n - 1)) = n
  BY <1>1, FS_Interval
<1> HIDE DEF n
<1>4. rank \in Injection(turns, 0..(n - 1))
  BY <1>1 DEF Injection, IsInjective
<1> HIDE DEF rank
<1>5. rank \in Surjection(turns, 0..(n - 1))
  BY <1>2, <1>3, <1>4, FS_Injection DEF n
<1>6. \A k \in 1..n : \E r \in turns : Rank(r) = k - 1
  <2> SUFFICES ASSUME NEW k \in 1..n PROVE \E r \in turns : Rank(r) = k - 1
    OBVIOUS
  <2>1. k - 1 \in 0..(n - 1)
    BY <1>1
  <2>2. PICK r \in turns : rank[r] = k - 1
    BY <1>5, <2>1 DEF Surjection
  <2> QED  BY <2>2 DEF rank
<1>7. \A k \in 1..n : row(k) \in turns /\ Rank(row(k)) = k - 1
  BY <1>6, Zenon
<1>8. Table = [k \in 1..n |-> row(k)]
  BY Zenon DEF Table, Rank, n
<1> HIDE DEF row
<1>9. Table \in Seq(Row) /\ Len(Table) = n /\ \A k \in 1..n : Table[k] = row(k)
  BY <1>1, <1>2, <1>7, <1>8
<1>10. ASSUME NEW r \in turns PROVE \E k \in 1..n : Table[k] = r
  <2>1. Rank(r) + 1 \in 1..n
    BY <1>1
  <2>2. row(Rank(r) + 1) \in turns /\ Rank(row(Rank(r) + 1)) = Rank(r)
    BY <1>1, <1>7, <2>1
  <2>3. row(Rank(r) + 1) = r
    BY <1>1, <2>2
  <2> QED  BY <1>9, <2>1, <2>3
<1> QED  BY <1>7, <1>9, <1>10 DEF n

----------------------------------------------------------------------------
(* The types of what the steps of a merge compute.                         *)

\* What is in a list of rows.
LEMMA RowsTyped ==
  ASSUME NEW rows \in Seq(Row)
  PROVE  /\ Len(rows) \in Nat /\ DOMAIN rows = 1..Len(rows)
         /\ \A k \in 1..Len(rows) :
              /\ rows[k] \in Row /\ rows[k].id \in Id /\ rows[k].turn \in Turn
              /\ rows[k].key \in Int /\ rows[k].batch \in 0..MaxCalls
<1>1. \A k \in 1..Len(rows) : rows[k] \in Row
  OBVIOUS
<1>2. \A r \in Row : r.id \in Id /\ r.turn \in Turn /\ r.key \in Int /\ r.batch \in 0..MaxCalls
  BY DEF Row
<1> QED  BY <1>1, <1>2

\* The turns of a list of rows are a list of turns.
LEMMA TurnsOfTyped ==
  ASSUME NEW rows \in Seq(Row)
  PROVE  TurnsOf(rows) \in Seq(Turn) /\ Len(TurnsOf(rows)) = Len(rows)
BY RowsTyped DEF TurnsOf

\* The windows of a list of turns are an index.
LEMMA AnchorIndexTyped ==
  ASSUME NEW s \in Seq(Turn), NEW size \in Nat \ {0}
  PROVE  AnchorIndex(s, size) \subseteq WindowIndex
<1> SUFFICES ASSUME NEW at \in 1..(Len(s) - size + 1)
             PROVE  Window(s, at, size) \in Seq(Turn) /\ at \in Nat \ {0}
  BY DEF AnchorIndex, WindowIndex
<1>1. at \in Nat \ {0} /\ at + size - 1 \in Nat /\ at + size - 1 <= Len(s)
  OBVIOUS
<1> QED  BY <1>1 DEF Window

\* So is what the store holds of them.
LEMMA LoadAnchorIndexTyped ==
  ASSUME TypeOK, TableSound, NEW rows \in Seq(Row), NEW size \in Nat \ {0}
  PROVE  LoadAnchorIndex(rows, size) \subseteq WindowIndex
<1> DEFINE digests == {x.turns : x \in {y \in anchors : Len(y.turns) = size}}
           stored == {w \in [turns : digests, at : DOMAIN Table] :
                        [turns |-> w.turns, start |-> Table[w.at].id] \in anchors}
<1>1. digests \subseteq Seq(Turn)
  BY DEF TypeOK, Anchor
<1>2. DOMAIN Table \subseteq Nat \ {0}
  BY TableListsTurns
<1> HIDE DEF digests
<1>3. stored \subseteq WindowIndex
  BY <1>1, <1>2 DEF WindowIndex
<1>4. AnchorIndex(TurnsOf(rows), size) \subseteq WindowIndex
  BY TurnsOfTyped, AnchorIndexTyped
<1>5. LoadAnchorIndex(rows, size) \in {stored, AnchorIndex(TurnsOf(rows), size)}
  BY Zenon DEF LoadAnchorIndex, digests
<1> QED  BY <1>3, <1>4, <1>5

\* New rows before they are stamped.
NewRow == [turn : Turn, key : Int]

\* Turns and as many integers make new rows.
LEMMA KeyedTyped ==
  ASSUME NEW s \in Seq(Turn), NEW keys, \A k \in 1..Len(s) : keys[k] \in Int
  PROVE  Keyed(s, keys) \in Seq(NewRow) /\ Len(Keyed(s, keys)) = Len(s)
<1> DEFINE row(k) == [turn |-> s[k], key |-> keys[k]]
<1>1. \A k \in 1..Len(s) : row(k) \in NewRow
  BY DEF NewRow
<1>2. Keyed(s, keys) = [k \in 1..Len(s) |-> row(k)] /\ Len(s) \in Nat
  BY DEF Keyed
<1> HIDE DEF row
<1> QED  BY <1>1, <1>2

\* Sort keys are integers.
LEMMA KeysTyped ==
  ASSUME NEW n \in Nat, NEW l \in Int, NEW r \in Int, NEW k \in 1..n
  PROVE  /\ KeysBefore(r, n)[k] \in Int /\ KeysAfter(l, n)[k] \in Int
         /\ KeysBetween(l, r, n)[k] \in Int
<1>1. KeyGap \in Int /\ MinStep \in Int
  BY AlignmentAssumption
<1>2. Step(l, r, n) \in Int
  BY <1>1 DEF Step
<1>3. KeyGap * (n + 1 - k) \in Int /\ KeyGap * k \in Int /\ Step(l, r, n) * k \in Int
  BY <1>1, <1>2
<1> QED  BY <1>3 DEF KeysBefore, KeysAfter, KeysBetween

\* The rows that go before and after an overlap.
LEMMA PartsTyped ==
  ASSUME NEW rows \in Seq(Row), NEW I \in Seq(Turn), NEW a, a \in Alignment,
         a.old >= 1, a.new >= 1, a.n >= 1, a.new + a.n - 1 <= Len(I), a.old + a.n - 1 <= Len(rows)
  PROVE  PrefixRows(rows, I, a) \in Seq(NewRow) /\ SuffixRows(rows, I, a) \in Seq(NewRow)
<1>0. Len(rows) \in Nat /\ Len(I) \in Nat /\ DOMAIN rows = 1..Len(rows)
      /\ \A k \in 1..Len(rows) : rows[k].key \in Int
  BY RowsTyped
<1>1. a.old \in Nat /\ a.new \in Nat /\ a.n \in Nat
  BY DEF Alignment
<1>2. PrefixRows(rows, I, a) \in Seq(NewRow)
  <2> DEFINE s == SubSeq(I, 1, a.new - 1)
             right == rows[a.old].key
  <2>1. s \in Seq(Turn) /\ Len(s) \in Nat
    BY <1>0, <1>1
  <2>2. right \in Int /\ (a.old # 1 => rows[a.old - 1].key \in Int)
    BY <1>0, <1>1, SMTT(30)
  <2> HIDE DEF s, right
  <2>3. Keyed(s, KeysBefore(right, Len(s))) \in Seq(NewRow)
    BY <2>1, <2>2, KeysTyped, KeyedTyped
  <2>4. a.old # 1 => Keyed(s, KeysBetween(rows[a.old - 1].key, right, Len(s))) \in Seq(NewRow)
    BY <2>1, <2>2, KeysTyped, KeyedTyped
  <2> QED  BY <2>3, <2>4 DEF PrefixRows, s, right
<1>3. SuffixRows(rows, I, a) \in Seq(NewRow)
  <2> DEFINE s == SubSeq(I, a.new + a.n, Len(I))
             last == a.old + a.n - 1
             left == rows[last].key
  <2>1. s \in Seq(Turn) /\ Len(s) \in Nat
    BY <1>0, <1>1, SMTT(30)
  <2>2. left \in Int /\ (last # Len(rows) => rows[last + 1].key \in Int)
    <3>1. last \in 1..Len(rows) /\ (last # Len(rows) => last + 1 \in 1..Len(rows))
      BY <1>0, <1>1, SMTT(30)
    <3> HIDE DEF last
    <3> QED  BY <1>0, <3>1
  <2> HIDE DEF s, last, left
  <2>3. Keyed(s, KeysAfter(left, Len(s))) \in Seq(NewRow)
    BY <2>1, <2>2, KeysTyped, KeyedTyped
  <2>4. last # Len(rows)
          => Keyed(s, KeysBetween(left, rows[last + 1].key, Len(s))) \in Seq(NewRow)
    BY <2>1, <2>2, KeysTyped, KeyedTyped
  <2> QED  BY <2>3, <2>4 DEF SuffixRows, s, last, left
<1> QED  BY <1>2, <1>3

\* An alignment that fits and is not out of range yields new rows.
LEMMA NewRowsTyped ==
  ASSUME NEW rows \in Seq(Row), NEW I \in Seq(Turn), NEW a, Fits(a, I), ~ OutOfRange(rows, a)
  PROVE  NewRows(rows, I, a) \in Seq(NewRow)
<1>1. Len(rows) \in Nat /\ Len(I) \in Nat /\ DOMAIN rows = 1..Len(rows)
      /\ \A k \in 1..Len(rows) : rows[k].key \in Int
  BY RowsTyped
<1>2. CASE a = NoAlignment
  <2> DEFINE last == IF rows = <<>> THEN 0 ELSE Max({rows[k].key : k \in DOMAIN rows})
  <2>1. last \in Int
    <3>1. ASSUME rows # <<>> PROVE Max({rows[k].key : k \in DOMAIN rows}) \in Int
      <4> DEFINE f == [k \in 1..Len(rows) |-> rows[k].key]
      <4>1. Len(rows) > 0 /\ \A k \in 1..Len(rows) : f[k] \in Int
        BY <1>1, <3>1
      <4>2. {f[k] : k \in 1..Len(rows)} = {rows[k].key : k \in DOMAIN rows}
        BY <1>1
      <4> HIDE DEF f
      <4>3. Max({f[k] : k \in 1..Len(rows)}) \in Int
        BY <1>1, <4>1, MaxOfList
      <4> QED  BY <4>2, <4>3
    <3> QED  BY <3>1
  <2> HIDE DEF last
  <2>2. Keyed(I, KeysAfter(last, Len(I))) \in Seq(NewRow)
    BY <1>1, <2>1, KeysTyped, KeyedTyped
  <2> QED  BY <1>2, <2>2, Zenon DEF NewRows, AppendAll, last
<1>3. CASE a # NoAlignment
  <2>1. /\ a.old \in Nat /\ a.new \in Nat /\ a.n \in Nat
        /\ a.old >= 1 /\ a.new >= 1 /\ a.n >= 1 /\ a.new + a.n - 1 <= Len(I)
        /\ a.old + a.n - 1 <= Len(rows)
    BY <1>1, <1>3 DEF Fits, Alignment, OutOfRange
  <2>2. a \in Alignment
    BY DEF Fits
  <2>3. PrefixRows(rows, I, a) \in Seq(NewRow) /\ SuffixRows(rows, I, a) \in Seq(NewRow)
    BY <2>1, <2>2, PartsTyped
  <2>4. PrefixRows(rows, I, a) \o SuffixRows(rows, I, a) \in Seq(NewRow)
    BY <2>3
  <2> QED  BY <1>3, <2>4 DEF NewRows
<1> QED  BY <1>2, <1>3

\* Stamped rows are rows of the call.
LEMMA StampedTyped ==
  ASSUME NEW new \in Seq(NewRow), NEW call \in 1..MaxCalls
  PROVE  /\ Stamped(new, call) \in Seq(Row) /\ Len(Stamped(new, call)) = Len(new)
         /\ \A k \in 1..Len(new) : Stamped(new, call)[k].batch = call
                                   /\ Stamped(new, call)[k].id = <<call, k>>
<1>1. Len(new) \in Nat /\ DOMAIN new = 1..Len(new)
      /\ \A k \in 1..Len(new) : new[k].turn \in Turn /\ new[k].key \in Int
  <2>1. \A k \in 1..Len(new) : new[k] \in NewRow
    OBVIOUS
  <2> QED  BY <2>1 DEF NewRow
<1>2. call \in 0..MaxCalls /\ \A k \in 1..Len(new) : <<call, k>> \in Id
  BY <1>1, ReconcilerAssumption DEF Id
<1> QED  BY <1>1, <1>2 DEF Stamped, Row

\* The windows of a list of rows are anchors.
LEMMA WindowsTyped ==
  ASSUME NEW rows \in Seq(Row)
  PROVE  Windows(rows) \subseteq Anchor
<1> SUFFICES ASSUME NEW z \in AnchorSizes, NEW w \in AnchorIndex(TurnsOf(rows), z)
             PROVE  [turns |-> w.turns, start |-> rows[w.at].id] \in Anchor
  BY DEF Windows
<1>1. z \in Nat \ {0} /\ Len(TurnsOf(rows)) = Len(rows) /\ TurnsOf(rows) \in Seq(Turn)
  BY AlignmentAssumption, TurnsOfTyped
<1>2. w.turns \in Seq(Turn)
  BY <1>1, AnchorIndexTyped DEF WindowIndex
<1>3. w.at \in 1..Len(rows)
  <2>1. w.at \in 1..(Len(TurnsOf(rows)) - z + 1)
    BY DEF AnchorIndex
  <2>2. ASSUME NEW at \in 1..(Len(rows) - z + 1) PROVE at \in 1..Len(rows)
    BY <1>1, RowsTyped
  <2> QED  BY <1>1, <2>1, <2>2
<1>4. rows[w.at].id \in Id
  BY <1>3, RowsTyped
<1> QED  BY <1>2, <1>4 DEF Anchor

----------------------------------------------------------------------------
(* Type correctness.                                                       *)

ActiveCalls == \A p \in Proc : merge[p].pc # "idle" => merge[p].call \in 1..calls
Pending == \A p \in Proc : merge[p].pc = "write" => merge[p].todo # <<>>
TypeInv == TypeOK /\ TableSound /\ ActiveCalls /\ Pending

\* What TypeOK says of a call.
LEMMA MergeTyped ==
  ASSUME TypeOK, NEW p \in Proc
  PROVE  /\ merge[p] \in Merge
         /\ merge[p].pc \in Phases /\ merge[p].kind \in {"batch", "single", "resend"}
         /\ merge[p].payload \in Seq(Turn) /\ merge[p].epoch \in 0..MaxEpoch
         /\ merge[p].call \in 0..MaxCalls /\ merge[p].seen \in Seq(Row)
         /\ merge[p].at \in Alignment
         /\ merge[p].todo \in Seq(Row) /\ merge[p].windows \subseteq Anchor
<1>1. merge[p] \in Merge
  BY DEF TypeOK
<1> QED  BY <1>1 DEF Merge, Alignment

\* A step that changes one call keeps merge typed if the call stays typed.
LEMMA MergeUpdated ==
  ASSUME TypeOK, NEW p \in Proc, NEW m \in Merge, merge' = [merge EXCEPT ![p] = m]
  PROVE  /\ merge' \in [Proc -> Merge] /\ merge'[p] = m
         /\ \A q \in Proc : q # p => merge'[q] = merge[q]
BY DEF TypeOK

\* A call that moves on keeps its type.
LEMMA GotoTyped ==
  ASSUME TypeOK, NEW p \in Proc, NEW pc \in Phases, Goto(p, pc)
  PROVE  /\ merge' \in [Proc -> Merge]
         /\ merge'[p] = [merge[p] EXCEPT !.pc = pc]
         /\ \A q \in Proc : q # p => merge'[q] = merge[q]
<1> DEFINE m == [merge[p] EXCEPT !.pc = pc]
<1>1. m \in Merge
  <2>1. merge[p] \in Merge
    BY MergeTyped
  <2> QED  BY <2>1 DEF Merge
<1>2. merge' = [merge EXCEPT ![p] = m]
  BY DEF Goto
<1> HIDE DEF m
<1>3. /\ merge' \in [Proc -> Merge] /\ merge'[p] = m
      /\ \A q \in Proc : q # p => merge'[q] = merge[q]
  BY <1>1, <1>2, MergeUpdated
<1> QED  BY <1>3 DEF m

\* A call that ends leaves an idle process.
LEMMA LeaveTyped ==
  ASSUME TypeOK, NEW p \in Proc, NEW result \in {"ok", "stale", "failed"}, Leave(p, result)
  PROVE  /\ merge' \in [Proc -> Merge] /\ merge'[p] = Idle
         /\ \A q \in Proc : q # p => merge'[q] = merge[q]
         /\ outcome' \in [1..MaxCalls -> {"open", "ok", "stale", "failed"}]
         /\ holder' \in Proc \cup {None}
<1>1. Idle \in Merge
  BY ReconcilerAssumption DEF Idle, Merge, Phases, NoAlignment
<1>2. merge' = [merge EXCEPT ![p] = Idle]
  BY DEF Leave
<1>3. /\ merge' \in [Proc -> Merge] /\ merge'[p] = Idle
      /\ \A q \in Proc : q # p => merge'[q] = merge[q]
  BY <1>1, <1>2, MergeUpdated
<1>4. outcome' \in [1..MaxCalls -> {"open", "ok", "stale", "failed"}]
  BY DEF TypeOK, Leave
<1>5. holder' \in Proc \cup {None}
  BY DEF TypeOK, Leave
<1> QED  BY <1>3, <1>4, <1>5

\* What a step of one process must show to preserve the type invariant.
LEMMA TypeStep ==
  ASSUME TypeInv, NEW p \in Proc,
         turns' \subseteq Row, IsFiniteSet(turns'), \A r, s \in turns' : r.id = s.id => r = s,
         anchors' \subseteq Anchor, epoch' = epoch,
         holder' \in Proc \cup {None},
         calls' \in 0..MaxCalls, calls' >= calls,
         outcome' \in [1..MaxCalls -> {"open", "ok", "stale", "failed"}],
         merge' \in [Proc -> Merge],
         \A q \in Proc : q # p => merge'[q] = merge[q],
         merge'[p].pc # "idle" => merge'[p].call \in 1..calls',
         merge'[p].pc = "write" => merge'[p].todo # <<>>
  PROVE  TypeInv'
<1>1. TypeOK'
  BY DEF TypeInv, TypeOK
<1>2. TableSound'
  BY DEF TableSound, IdsDistinct
<1>3. ActiveCalls'
  <2> SUFFICES ASSUME NEW q \in Proc, merge'[q].pc # "idle" PROVE merge'[q].call \in 1..calls'
    BY DEF ActiveCalls
  <2>1. calls \in Nat /\ calls' \in Nat
    BY ReconcilerAssumption DEF TypeInv, TypeOK
  <2>2. CASE q = p
    BY <2>2
  <2>3. CASE q # p
    <3>1. merge[q].call \in 1..calls
      BY <2>3 DEF TypeInv, ActiveCalls
    <3> QED  BY <2>1, <2>3, <3>1
  <2> QED  BY <2>2, <2>3
<1>4. Pending'
  BY DEF TypeInv, Pending
<1> QED  BY <1>1, <1>2, <1>3, <1>4 DEF TypeInv

\* The same for a step that leaves the table and its anchors alone.
LEMMA QuietStep ==
  ASSUME TypeInv, NEW p \in Proc,
         turns' = turns, anchors' = anchors, epoch' = epoch, calls' = calls,
         holder' \in Proc \cup {None},
         outcome' \in [1..MaxCalls -> {"open", "ok", "stale", "failed"}],
         merge' \in [Proc -> Merge],
         \A q \in Proc : q # p => merge'[q] = merge[q],
         merge'[p].pc # "idle" => merge'[p].call = merge[p].call /\ merge[p].pc # "idle",
         merge'[p].pc = "write" => merge'[p].todo # <<>>
  PROVE  TypeInv'
<1>1. /\ turns' \subseteq Row /\ IsFiniteSet(turns') /\ \A r, s \in turns' : r.id = s.id => r = s
      /\ anchors' \subseteq Anchor
  BY DEF TypeInv, TypeOK, TableSound, IdsDistinct
<1>2. calls' \in 0..MaxCalls /\ calls' >= calls
  BY ReconcilerAssumption DEF TypeInv, TypeOK
<1>3. merge'[p].pc # "idle" => merge'[p].call \in 1..calls'
  BY DEF TypeInv, ActiveCalls
<1> QED  BY <1>1, <1>2, <1>3, TypeStep

\* A pair is a list of turns.
LEMMA SinglePairsTyped == SinglePair \subseteq Seq(Turn)
<1> SUFFICES ASSUME NEW pair \in SinglePair PROVE pair \in Seq(Turn)
  OBVIOUS
<1>1. pair = <<pair[1], pair[2]>> /\ pair[1] \in Turn /\ pair[2] \in Turn
  BY ReconcilerAssumption DEF Turn
<1>2. ASSUME NEW x \in Turn, NEW y \in Turn PROVE <<x, y>> \in Seq(Turn)
  OBVIOUS
<1>3. <<pair[1], pair[2]>> \in Seq(Turn)
  BY <1>1, <1>2
<1> QED  BY <1>1, <1>3, Zenon

\* A call that starts is typed.
LEMMA BeginTyped ==
  ASSUME TypeInv, NEW p \in Proc, NEW kind \in {"batch", "single"}, NEW payload \in Seq(Turn),
         Begin(p, kind, payload)
  PROVE  TypeInv'
<1> DEFINE m == [Idle EXCEPT !.pc = "lock", !.kind = kind, !.payload = payload,
                             !.epoch = epoch, !.call = calls + 1]
<1>1. /\ calls \in 0..MaxCalls /\ calls < MaxCalls /\ epoch \in 0..MaxEpoch /\ MaxCalls \in Nat
      /\ MaxEpoch \in Nat
  BY ReconcilerAssumption DEF TypeInv, TypeOK, Begin
<1>2. m \in Merge /\ m.pc = "lock" /\ m.call = calls + 1
  <2>1. Idle \in Merge
    BY ReconcilerAssumption DEF Idle, Merge, Phases, NoAlignment
  <2>2. calls + 1 \in 0..MaxCalls
    BY <1>1
  <2>3. m = [Idle EXCEPT !.pc = "lock", !.kind = kind, !.payload = payload,
                         !.epoch = epoch, !.call = calls + 1]
    OBVIOUS
  <2>4. ASSUME NEW i \in Merge, NEW x, x = [i EXCEPT !.pc = "lock", !.kind = kind,
                 !.payload = payload, !.epoch = epoch, !.call = calls + 1]
        PROVE  x \in Merge /\ x.pc = "lock" /\ x.call = calls + 1
    BY <1>1, <2>2, <2>4 DEF Merge, Phases
  <2> HIDE DEF m
  <2> QED  BY <2>1, <2>3, <2>4
<1>3. merge' = [merge EXCEPT ![p] = m]
  BY DEF Begin
<1> HIDE DEF m
<1>4. /\ merge' \in [Proc -> Merge] /\ merge'[p] = m
      /\ \A q \in Proc : q # p => merge'[q] = merge[q]
  BY <1>2, <1>3, MergeUpdated DEF TypeInv
<1>5. calls' \in 0..MaxCalls /\ calls' >= calls /\ merge'[p].call \in 1..calls'
  BY <1>1, <1>2, <1>4 DEF Begin
<1>6. /\ turns' \subseteq Row /\ IsFiniteSet(turns') /\ \A r, s \in turns' : r.id = s.id => r = s
      /\ anchors' \subseteq Anchor /\ epoch' = epoch /\ holder' \in Proc \cup {None}
      /\ outcome' \in [1..MaxCalls -> {"open", "ok", "stale", "failed"}]
  BY DEF TypeInv, TypeOK, TableSound, IdsDistinct, Begin
<1>7. merge'[p].pc # "write"
  BY <1>2, <1>4
<1> QED  BY <1>4, <1>5, <1>6, <1>7, TypeStep

\* The alignment and the rows to write are typed.
LEMMA AlignTyped ==
  ASSUME TypeInv, NEW p \in Proc, Align(p)
  PROVE  TypeInv'
<1> DEFINE m == merge[p]
           index == [z \in AnchorSizes |-> LoadAnchorIndex(m.seen, z)]
           a == FindAlignment(TurnsOf(m.seen), m.payload, index, m.kind = "batch")
           rejected == Rejected(m.seen, m.payload, a)
           todo == IF rejected THEN <<>> ELSE Stamped(NewRows(m.seen, m.payload, a), m.call)
           next == [m EXCEPT !.at = a, !.todo = todo,
                             !.pc = IF rejected THEN "check" ELSE WriteNext(todo)]
<1>1. /\ m \in Merge /\ m.pc = "align" /\ m.payload \in Seq(Turn) /\ m.seen \in Seq(Row)
      /\ m.call \in 1..calls /\ m.call \in 1..MaxCalls
  <2>1. m.pc = "align" /\ calls \in 0..MaxCalls /\ MaxCalls \in Nat
    BY ReconcilerAssumption DEF Align, TypeInv, TypeOK
  <2>2. m.call \in 1..calls
    BY <2>1 DEF TypeInv, ActiveCalls
  <2> QED  BY <2>1, <2>2, MergeTyped DEF TypeInv
<1>2. Fits(a, m.payload)
  <2>1. TurnsOf(m.seen) \in Seq(Turn)
    BY <1>1, TurnsOfTyped
  <2>2. \A z \in AnchorSizes : index[z] \subseteq WindowIndex
    BY <1>1, LoadAnchorIndexTyped, AlignmentAssumption DEF TypeInv
  <2> HIDE DEF index
  <2> QED  BY <1>1, <2>1, <2>2, FindAlignmentFits
<1>3. CASE OutOfRange(m.seen, a)
  <2>1. Leave(p, "failed") /\ UNCHANGED <<turns, anchors, epoch, calls>>
    BY <1>3, Zenon DEF Align
  <2>2. TypeOK
    BY DEF TypeInv
  <2>3. /\ merge' \in [Proc -> Merge] /\ merge'[p] = Idle
        /\ \A q \in Proc : q # p => merge'[q] = merge[q]
        /\ outcome' \in [1..MaxCalls -> {"open", "ok", "stale", "failed"}]
        /\ holder' \in Proc \cup {None}
    BY <2>1, <2>2, LeaveTyped
  <2>4. merge'[p].pc = "idle"
    BY <2>3 DEF Idle
  <2> QED  BY <2>1, <2>3, <2>4, QuietStep
<1>4. CASE ~ OutOfRange(m.seen, a)
  <2>1. /\ merge' = [merge EXCEPT ![p].at = a, ![p].todo = todo,
                       ![p].pc = IF rejected THEN "check" ELSE WriteNext(todo)]
        /\ UNCHANGED <<turns, anchors, epoch, holder, calls, outcome>>
    BY <1>4, Zenon DEF Align
  <2> HIDE DEF a, index
  <2>2. Stamped(NewRows(m.seen, m.payload, a), m.call) \in Seq(Row)
    BY <1>1, <1>2, <1>4, NewRowsTyped, StampedTyped
  <2>3. todo \in Seq(Row)
    BY <2>2
  <2> HIDE DEF rejected, todo
  <2>4. a \in Alignment
    BY <1>2 DEF Fits
  <2>5. next \in Merge /\ next.call = m.call /\ (next.pc = "write" => next.todo # <<>>)
    BY <1>1, <2>3, <2>4 DEF Merge, Alignment, Phases, WriteNext
  <2>6. merge' = [merge EXCEPT ![p] = next]
    BY <2>1
  <2> HIDE DEF next
  <2>7. /\ merge' \in [Proc -> Merge] /\ merge'[p] = next
        /\ \A q \in Proc : q # p => merge'[q] = merge[q]
    BY <2>5, <2>6, MergeUpdated DEF TypeInv
  <2>8. holder' \in Proc \cup {None}
        /\ outcome' \in [1..MaxCalls -> {"open", "ok", "stale", "failed"}]
    BY <2>1 DEF TypeInv, TypeOK
  <2> QED  BY <1>1, <2>1, <2>5, <2>7, <2>8, QuietStep
<1> QED  BY <1>3, <1>4

\* So are the rows that ingest_single writes again.
LEMMA ResendTyped ==
  ASSUME TypeInv, NEW p \in Proc, ExactResend(p)
  PROVE  TypeInv'
<1> DEFINE m == merge[p]
<1>1. /\ m \in Merge /\ m.pc = "align" /\ m.seen \in Seq(Row)
  BY MergeTyped DEF TypeInv, ExactResend
<1>2. PICK w \in 1..(Len(m.seen) - 1) :
        /\ merge' = [merge EXCEPT ![p].pc = "write", ![p].kind = "resend",
             ![p].at = [old |-> w, new |-> 1, n |-> 2],
             ![p].todo = [k \in 1..2 |-> [m.seen[w + k - 1] EXCEPT !.batch = 0]]]
        /\ UNCHANGED <<turns, anchors, epoch, holder, calls, outcome>>
  BY Zenon DEF ExactResend
<1> DEFINE todo == [k \in 1..2 |-> [m.seen[w + k - 1] EXCEPT !.batch = 0]]
           next == [m EXCEPT !.pc = "write", !.kind = "resend",
                             !.at = [old |-> w, new |-> 1, n |-> 2], !.todo = todo]
<1>3. todo \in Seq(Row) /\ Len(todo) = 2
  <2>1. ASSUME NEW k \in 1..2 PROVE [m.seen[w + k - 1] EXCEPT !.batch = 0] \in Row
    <3>1. w + k - 1 \in 1..Len(m.seen)
      BY <1>1, RowsTyped
    <3>2. m.seen[w + k - 1] \in Row
      BY <1>1, <3>1, RowsTyped
    <3> QED  BY <3>2, ReconcilerAssumption DEF Row
  <2> QED  BY <2>1
<1> HIDE DEF todo
<1>4. next \in Merge /\ next.call = m.call /\ next.todo # <<>>
  <2>1. w \in Nat
    BY <1>1, RowsTyped
  <2>2. todo # <<>>
    <3> SUFFICES ASSUME todo = <<>> PROVE FALSE
      OBVIOUS
    <3>1. Len(todo) = 2
      BY <1>3
    <3>2. Len(<<>>) = 2
      BY <3>1
    <3>3. Len(<<>>) = 0
      BY EmptySeq
    <3> QED  BY <3>2, <3>3
  <2> DEFINE at == [old |-> w, new |-> 1, n |-> 2]
  <2>3. at \in [old : Nat, new : Nat, n : Nat]
    BY <2>1
  <2>4. next = [m EXCEPT !.pc = "write", !.kind = "resend", !.at = at, !.todo = todo]
    OBVIOUS
  <2> HIDE DEF at, next
  <2>5. next \in Merge /\ next.call = m.call /\ next.todo = todo
    BY <1>1, <1>3, <2>3, <2>4 DEF Merge, Phases
  <2> QED  BY <2>2, <2>5
<1>5. merge' = [merge EXCEPT ![p] = next]
  BY <1>2 DEF todo
<1> HIDE DEF next
<1>6. /\ merge' \in [Proc -> Merge] /\ merge'[p] = next
      /\ \A q \in Proc : q # p => merge'[q] = merge[q]
  BY <1>4, <1>5, MergeUpdated DEF TypeInv
<1>7. holder' \in Proc \cup {None}
      /\ outcome' \in [1..MaxCalls -> {"open", "ok", "stale", "failed"}]
  BY <1>2 DEF TypeInv, TypeOK
<1> QED  BY <1>1, <1>2, <1>4, <1>6, <1>7, QuietStep

\* An upsert keeps identifiers distinct.
LEMMA WriteTyped ==
  ASSUME TypeInv, NEW p \in Proc, WriteTurn(p)
  PROVE  TypeInv'
<1> DEFINE m == merge[p]
           next == [m EXCEPT !.todo = Tail(m.todo), !.pc = WriteNext(Tail(m.todo))]
<1>1. /\ m \in Merge /\ m.pc = "write" /\ m.todo \in Seq(Row) /\ m.todo # <<>>
  BY MergeTyped DEF TypeInv, WriteTurn, Pending
<1>2. Head(m.todo) \in Row /\ Tail(m.todo) \in Seq(Row)
  BY <1>1
<1>3. next \in Merge /\ next.call = m.call /\ (next.pc = "write" => next.todo # <<>>)
  BY <1>1, <1>2 DEF Merge, Phases, WriteNext
<1>4. merge' = [merge EXCEPT ![p] = next]
  BY DEF WriteTurn
<1> HIDE DEF next
<1>5. /\ merge' \in [Proc -> Merge] /\ merge'[p] = next
      /\ \A q \in Proc : q # p => merge'[q] = merge[q]
  BY <1>3, <1>4, MergeUpdated DEF TypeInv
<1>6. turns \subseteq Row /\ IsFiniteSet(turns) /\ \A r, s \in turns : r.id = s.id => r = s
  BY DEF TypeInv, TableSound, IdsDistinct
<1> DEFINE kept == {r \in turns : r.id # Head(m.todo).id}
<1>7. turns' = kept \cup {Head(m.todo)}
  BY Zenon DEF WriteTurn
<1>8. IsFiniteSet(turns')
  <2>1. kept \in SUBSET turns
    OBVIOUS
  <2>2. IsFiniteSet(kept)
    BY <1>6, <2>1, FS_Subset, Zenon
  <2> HIDE DEF kept
  <2> QED  BY <1>7, <2>2, FS_AddElement
<1>9. turns' \subseteq Row /\ \A r, s \in turns' : r.id = s.id => r = s
  BY <1>2, <1>6, <1>7
<1>10. /\ anchors' \subseteq Anchor /\ epoch' = epoch /\ holder' \in Proc \cup {None}
       /\ calls' \in 0..MaxCalls /\ calls' >= calls
       /\ outcome' \in [1..MaxCalls -> {"open", "ok", "stale", "failed"}]
       /\ merge[p].call \in 1..calls'
  BY <1>1, ReconcilerAssumption DEF TypeInv, TypeOK, WriteTurn, ActiveCalls
<1> QED  BY <1>3, <1>5, <1>8, <1>9, <1>10, TypeStep

\* Every step preserves the type invariant.
LEMMA TypeInvStep ==
  ASSUME TypeInv, [Next]_vars
  PROVE  TypeInv'
<1>1. TypeOK /\ holder \in Proc \cup {None}
      /\ outcome \in [1..MaxCalls -> {"open", "ok", "stale", "failed"}]
  BY DEF TypeInv, TypeOK
<1> DEFINE Outcomes == {"open", "ok", "stale", "failed"}
\* A call that moves on, and one that ends.
<1>2. ASSUME NEW p \in Proc, NEW pc \in Phases \ {"idle", "write"}, Goto(p, pc),
             merge[p].pc # "idle", turns' = turns, anchors' = anchors, epoch' = epoch,
             calls' = calls, holder' \in Proc \cup {None}, outcome' = outcome
      PROVE  TypeInv'
  <2>1. /\ merge' \in [Proc -> Merge]
        /\ merge'[p] = [merge[p] EXCEPT !.pc = pc]
        /\ \A q \in Proc : q # p => merge'[q] = merge[q]
    BY <1>1, <1>2, GotoTyped
  <2>2. merge[p] \in Merge
    BY <1>1, MergeTyped
  <2>3. merge'[p].pc = pc /\ merge'[p].call = merge[p].call
    BY <2>1, <2>2 DEF Merge
  <2>4. outcome' \in [1..MaxCalls -> {"open", "ok", "stale", "failed"}]
    BY <1>1, <1>2
  <2> QED  BY <1>2, <2>1, <2>3, <2>4, QuietStep
<1>3. ASSUME NEW p \in Proc, NEW result \in {"ok", "stale", "failed"}, Leave(p, result),
             turns' = turns, anchors' = anchors, epoch' = epoch, calls' = calls
      PROVE  TypeInv'
  <2>1. /\ merge' \in [Proc -> Merge] /\ merge'[p] = Idle
        /\ \A q \in Proc : q # p => merge'[q] = merge[q]
        /\ outcome' \in [1..MaxCalls -> {"open", "ok", "stale", "failed"}]
        /\ holder' \in Proc \cup {None}
    BY <1>1, <1>3, LeaveTyped
  <2>2. merge'[p].pc = "idle"
    BY <2>1 DEF Idle
  <2> QED  BY <1>3, <2>1, <2>2, QuietStep
<1>4. ASSUME NEW p \in Proc, IngestBatch(p) PROVE TypeInv'
  <2>1. PICK payload \in Payload : Begin(p, "batch", payload)
    BY <1>4 DEF IngestBatch
  <2>2. payload \in Seq(Turn)
    BY ReconcilerAssumption
  <2> QED  BY <2>1, <2>2, BeginTyped
<1>5. ASSUME NEW p \in Proc, IngestSingle(p) PROVE TypeInv'
  <2>1. PICK pair \in SinglePair : Begin(p, "single", pair)
    BY <1>5 DEF IngestSingle
  <2>2. pair \in Seq(Turn)
    BY SinglePairsTyped
  <2> QED  BY <2>1, <2>2, BeginTyped
<1>6. ASSUME NEW p \in Proc, AcquireLock(p) PROVE TypeInv'
  <2>1. Goto(p, IF merge[p].kind = "batch" THEN "recheck" ELSE "read") /\ merge[p].pc = "lock"
        /\ holder' = p /\ UNCHANGED <<turns, anchors, epoch, calls, outcome>>
    BY <1>6 DEF AcquireLock
  <2>2. (IF merge[p].kind = "batch" THEN "recheck" ELSE "read") \in Phases \ {"idle", "write"}
    BY DEF Phases
  <2> QED  BY <1>2, <2>1, <2>2
<1>7. ASSUME NEW p \in Proc, Recheck(p) PROVE TypeInv'
  <2>1. CASE merge[p].epoch = epoch
    <3>1. Goto(p, "read") /\ merge[p].pc = "recheck" /\ holder' \in Proc \cup {None}
          /\ UNCHANGED <<turns, anchors, epoch, calls, outcome>>
      BY <1>1, <1>7, <2>1 DEF Recheck
    <3>2. "read" \in Phases \ {"idle", "write"}
      BY DEF Phases
    <3> QED  BY <1>2, <3>1, <3>2
  <2>2. CASE merge[p].epoch # epoch
    <3>1. Leave(p, "stale") /\ UNCHANGED <<turns, anchors, epoch, calls>>
      BY <1>7, <2>2 DEF Recheck
    <3> QED  BY <1>3, <3>1
  <2> QED  BY <2>1, <2>2
<1>8. ASSUME NEW p \in Proc, ReadTurns(p) PROVE TypeInv'
  <2> DEFINE m == [merge[p] EXCEPT !.pc = "align", !.seen = Table]
  <2>1. merge[p] \in Merge /\ Table \in Seq(Row)
    BY <1>1, MergeTyped, TableListsTurns DEF TypeInv
  <2>2. m \in Merge /\ m.call = merge[p].call /\ m.pc = "align"
    BY <2>1 DEF Merge, Phases
  <2>3. merge' = [merge EXCEPT ![p] = m]
    BY <1>8 DEF ReadTurns
  <2> HIDE DEF m
  <2>4. /\ merge' \in [Proc -> Merge] /\ merge'[p] = m
        /\ \A q \in Proc : q # p => merge'[q] = merge[q]
    BY <1>1, <2>2, <2>3, MergeUpdated
  <2>5. merge[p].pc = "read" /\ UNCHANGED <<turns, anchors, epoch, holder, calls, outcome>>
    BY <1>8 DEF ReadTurns
  <2> QED  BY <1>1, <2>2, <2>4, <2>5, QuietStep
<1>9. ASSUME NEW p \in Proc, ReadForAnchors(p) PROVE TypeInv'
  <2> DEFINE m == [merge[p] EXCEPT !.pc = "deleteAnchors", !.windows = Windows(Table)]
  <2>1. merge[p] \in Merge /\ Windows(Table) \subseteq Anchor
    BY <1>1, MergeTyped, TableListsTurns, WindowsTyped DEF TypeInv
  <2>2. m \in Merge /\ m.call = merge[p].call /\ m.pc = "deleteAnchors"
    BY <2>1 DEF Merge, Phases
  <2>3. merge' = [merge EXCEPT ![p] = m]
    BY <1>9 DEF ReadForAnchors
  <2> HIDE DEF m
  <2>4. /\ merge' \in [Proc -> Merge] /\ merge'[p] = m
        /\ \A q \in Proc : q # p => merge'[q] = merge[q]
    BY <1>1, <2>2, <2>3, MergeUpdated
  <2>5. merge[p].pc = "readAnchors" /\ UNCHANGED <<turns, anchors, epoch, holder, calls, outcome>>
    BY <1>9 DEF ReadForAnchors
  <2> QED  BY <1>1, <2>2, <2>4, <2>5, QuietStep
\* The steps that change the anchors, or take rows from the table.
<1>10. ASSUME NEW p \in Proc, NEW pc \in {"insertAnchors", "check"}, Goto(p, pc),
              merge[p].pc # "idle", anchors' \subseteq Anchor,
              UNCHANGED <<turns, epoch, holder, calls, outcome>>
       PROVE  TypeInv'
  <2>1. pc \in Phases
    BY DEF Phases
  <2>2. /\ merge' \in [Proc -> Merge]
        /\ merge'[p] = [merge[p] EXCEPT !.pc = pc]
        /\ \A q \in Proc : q # p => merge'[q] = merge[q]
    BY <1>1, <1>10, <2>1, GotoTyped
  <2>3. merge[p] \in Merge
    BY <1>1, MergeTyped
  <2>4. merge'[p].pc # "write" /\ merge'[p].call = merge[p].call
    BY <1>10, <2>2, <2>3 DEF Merge
  <2>5. merge[p].call \in 1..calls
    BY <1>10 DEF TypeInv, ActiveCalls
  <2>6. /\ turns' \subseteq Row /\ IsFiniteSet(turns')
        /\ \A r, s \in turns' : r.id = s.id => r = s
        /\ epoch' = epoch /\ holder' \in Proc \cup {None}
        /\ calls' \in 0..MaxCalls /\ calls' >= calls
        /\ outcome' \in [1..MaxCalls -> {"open", "ok", "stale", "failed"}]
    BY <1>10, ReconcilerAssumption DEF TypeInv, TypeOK, TableSound, IdsDistinct
  <2>7. merge'[p].call \in 1..calls'
    BY <1>10, <2>4, <2>5
  <2> QED  BY <1>10, <2>2, <2>4, <2>6, <2>7, TypeStep
<1>11. ASSUME NEW p \in Proc, DeleteAnchors(p) PROVE TypeInv'
  <2>1. Goto(p, "insertAnchors") /\ merge[p].pc # "idle" /\ anchors' \subseteq Anchor
        /\ UNCHANGED <<turns, epoch, holder, calls, outcome>>
    BY <1>11 DEF DeleteAnchors
  <2> QED  BY <1>10, <2>1
<1>12. ASSUME NEW p \in Proc, InsertAnchors(p) PROVE TypeInv'
  <2>1. anchors' \subseteq Anchor
    BY <1>1, <1>12, MergeTyped DEF InsertAnchors, TypeOK
  <2>2. Goto(p, "check") /\ merge[p].pc # "idle"
        /\ UNCHANGED <<turns, epoch, holder, calls, outcome>>
    BY <1>12 DEF InsertAnchors
  <2> QED  BY <1>10, <2>1, <2>2
<1>13. ASSUME NEW p \in Proc, RefreshFails(p) PROVE TypeInv'
  <2>1. Goto(p, "check") /\ merge[p].pc # "idle"
        /\ UNCHANGED <<turns, anchors, epoch, holder, calls, outcome>>
    BY <1>13 DEF RefreshFails
  <2>2. anchors' \subseteq Anchor
    BY <1>1, <2>1 DEF TypeOK
  <2> QED  BY <1>10, <2>1, <2>2
<1>14. ASSUME NEW p \in Proc, CheckEpoch(p) PROVE TypeInv'
  <2>1. CASE merge[p].kind = "batch" /\ merge[p].epoch # epoch
    <3>1. Goto(p, "purge") /\ merge[p].pc # "idle" /\ "purge" \in Phases \ {"idle", "write"}
          /\ UNCHANGED <<turns, anchors, epoch, calls, holder, outcome>>
      BY <1>14, <2>1 DEF CheckEpoch, Phases
    <3> QED  BY <1>1, <1>2, <3>1
  <2>2. CASE ~ (merge[p].kind = "batch" /\ merge[p].epoch # epoch)
    <3>1. Leave(p, "ok") /\ UNCHANGED <<turns, anchors, epoch, calls>>
      BY <1>14, <2>2 DEF CheckEpoch
    <3> QED  BY <1>3, <3>1
  <2> QED  BY <2>1, <2>2
<1>15. ASSUME NEW p \in Proc, Purge(p) PROVE TypeInv'
  <2>1. Leave(p, "stale") /\ UNCHANGED <<anchors, epoch, calls>>
    BY <1>15 DEF Purge
  <2>2. /\ merge' \in [Proc -> Merge] /\ merge'[p] = Idle
        /\ \A q \in Proc : q # p => merge'[q] = merge[q]
        /\ outcome' \in [1..MaxCalls -> {"open", "ok", "stale", "failed"}]
        /\ holder' \in Proc \cup {None}
    BY <1>1, <2>1, LeaveTyped
  <2>3. merge'[p].pc = "idle"
    BY <2>2 DEF Idle
  <2>4. turns' \in SUBSET turns
    BY <1>15, Zenon DEF Purge
  <2>5. turns \subseteq Row /\ IsFiniteSet(turns) /\ \A r, s \in turns : r.id = s.id => r = s
    BY DEF TypeInv, TableSound, IdsDistinct
  <2>6. IsFiniteSet(turns')
    BY <2>4, <2>5, FS_Subset
  <2>7. turns' \subseteq Row /\ \A r, s \in turns' : r.id = s.id => r = s
    BY <2>4, <2>5
  <2>8. anchors' \subseteq Anchor /\ epoch' = epoch /\ calls' \in 0..MaxCalls /\ calls' >= calls
    BY <2>1, ReconcilerAssumption DEF TypeInv, TypeOK
  <2> QED  BY <2>2, <2>3, <2>6, <2>7, <2>8, TypeStep
<1>16. ASSUME NEW p \in Proc, Fail(p) PROVE TypeInv'
  <2>1. Leave(p, "failed") /\ UNCHANGED <<turns, anchors, epoch, calls>>
    BY <1>16 DEF Fail
  <2> QED  BY <1>3, <2>1
<1>17. ASSUME Resurrect PROVE TypeInv'
  <2>1. epoch' \in 1..MaxEpoch /\ UNCHANGED <<turns, anchors, holder, calls, outcome, merge>>
    BY <1>1, <1>17, ReconcilerAssumption DEF Resurrect, TypeOK
  <2> QED  BY <2>1 DEF TypeInv, TypeOK, TableSound, IdsDistinct, ActiveCalls, Pending
<1>18. ASSUME UNCHANGED vars PROVE TypeInv'
  BY <1>18 DEF TypeInv, TypeOK, TableSound, IdsDistinct, ActiveCalls, Pending, vars
<1> QED
  BY <1>4, <1>5, <1>6, <1>7, <1>8, <1>9, <1>11, <1>12, <1>13, <1>14, <1>15, <1>16, <1>17, <1>18,
     AlignTyped, ResendTyped, WriteTyped DEF Next

\* It holds initially.
LEMMA TypeInvInit == Init => TypeInv
<1> SUFFICES ASSUME Init PROVE TypeInv
  OBVIOUS
<1>1. Idle \in Merge /\ Idle.pc = "idle"
  BY ReconcilerAssumption DEF Idle, Merge, Phases, NoAlignment
<1>2. TypeOK
  BY <1>1, ReconcilerAssumption DEF Init, TypeOK
<1>3. TableSound
  BY FS_EmptySet DEF Init, TableSound, IdsDistinct
<1>4. ActiveCalls /\ Pending
  BY <1>1 DEF Init, ActiveCalls, Pending
<1> QED  BY <1>2, <1>3, <1>4 DEF TypeInv

\* The variables always have the types of the tables and of the locals of a
\* call: what _find_alignment and _allocate_sort_keys return indexes the rows
\* read and yields rows, whatever the rows, the payload and the anchors are.
THEOREM TypeCorrect == Spec => []TypeOK
<1>1. Spec => []TypeInv
  BY TypeInvInit, TypeInvStep, PTL DEF Spec
<1>2. TypeInv => TypeOK
  BY DEF TypeInv
<1> QED  BY <1>1, <1>2, PTL

----------------------------------------------------------------------------
(* A refused call leaves no row.                                           *)

\* A call under way is open and a process's own, and so are those to come.
CallsOpen == \A p \in Proc : merge[p].pc # "idle" => outcome[merge[p].call] = "open"
CallsDistinct ==
  \A p, q \in Proc : p # q /\ merge[p].pc # "idle" /\ merge[q].pc # "idle"
    => merge[p].call # merge[q].call
FutureOpen == \A c \in 1..MaxCalls : c > calls => outcome[c] = "open"
\* Rows are those of calls made, and a call writes its own rows or resent ones.
BatchesKnown == \A r \in turns : r.batch <= calls
OwnRows ==
  \A p \in Proc : merge[p].pc = "write" =>
    \A k \in 1..Len(merge[p].todo) : merge[p].todo[k].batch \in {0, merge[p].call}
\* Before it reads the table a call has no rows.
NoneYet ==
  \A p \in Proc : merge[p].pc \in {"lock", "recheck", "read"} =>
    \A r \in turns : r.batch # merge[p].call
RefusedInv ==
  CallsOpen /\ CallsDistinct /\ FutureOpen /\ BatchesKnown /\ OwnRows /\ NoneYet
  /\ RefusedLeavesNothing

\* A call that moves on without touching the table preserves the invariant.
LEMMA MoveKeepsRefused ==
  ASSUME TypeInv, RefusedInv, NEW p \in Proc,
         turns' = turns, calls' = calls, outcome' = outcome,
         \A q \in Proc : q # p => merge'[q] = merge[q],
         merge[p].pc # "idle", merge'[p].call = merge[p].call,
         merge'[p].pc \in {"lock", "recheck", "read"} => merge[p].pc \in {"lock", "recheck", "read"},
         merge'[p].pc = "write" =>
           \A k \in 1..Len(merge'[p].todo) : merge'[p].todo[k].batch \in {0, merge[p].call}
  PROVE  RefusedInv'
<1>1. CallsOpen'
  BY DEF RefusedInv, CallsOpen
<1>2. CallsDistinct'
  <2> SUFFICES ASSUME NEW q \in Proc, NEW r \in Proc, q # r,
                      merge'[q].pc # "idle", merge'[r].pc # "idle"
               PROVE  merge'[q].call # merge'[r].call
    BY DEF CallsDistinct
  <2>1. CASE q = p
    BY <2>1 DEF RefusedInv, CallsDistinct
  <2>2. CASE r = p
    BY <2>2 DEF RefusedInv, CallsDistinct
  <2>3. CASE q # p /\ r # p
    BY <2>3 DEF RefusedInv, CallsDistinct
  <2> QED  BY <2>1, <2>2, <2>3
<1>3. FutureOpen' /\ BatchesKnown' /\ RefusedLeavesNothing'
  BY DEF RefusedInv, FutureOpen, BatchesKnown, RefusedLeavesNothing
<1>4. OwnRows'
  <2> SUFFICES ASSUME NEW q \in Proc, merge'[q].pc = "write"
               PROVE  \A k \in 1..Len(merge'[q].todo) :
                        merge'[q].todo[k].batch \in {0, merge'[q].call}
    BY DEF OwnRows
  <2>1. CASE q = p
    BY <2>1
  <2>2. CASE q # p
    BY <2>2 DEF RefusedInv, OwnRows
  <2> QED  BY <2>1, <2>2
<1>5. NoneYet'
  <2> SUFFICES ASSUME NEW q \in Proc, merge'[q].pc \in {"lock", "recheck", "read"}
               PROVE  \A r \in turns' : r.batch # merge'[q].call
    BY DEF NoneYet
  <2>1. CASE q = p
    BY <2>1 DEF RefusedInv, NoneYet
  <2>2. CASE q # p
    BY <2>2 DEF RefusedInv, NoneYet
  <2> QED  BY <2>1, <2>2
<1> QED  BY <1>1, <1>2, <1>3, <1>4, <1>5 DEF RefusedInv

\* A call that ends preserves it, if a refused one takes its rows along.
LEMMA LeaveKeepsRefused ==
  ASSUME TypeInv, RefusedInv, NEW p \in Proc, NEW result \in {"ok", "stale", "failed"},
         Leave(p, result), merge[p].pc # "idle", calls' = calls, turns' \subseteq turns,
         result = "stale" => \A r \in turns' : r.batch # merge[p].call
  PROVE  RefusedInv'
<1>1. TypeOK
  BY DEF TypeInv
<1>2. merge'[p].pc = "idle" /\ \A q \in Proc : q # p => merge'[q] = merge[q]
  BY <1>1, LeaveTyped DEF Idle
<1>3. merge[p].call \in 1..calls /\ calls \in Nat /\ calls <= MaxCalls /\ MaxCalls \in Nat
  BY <1>1, ReconcilerAssumption DEF TypeInv, TypeOK, ActiveCalls
<1>4. \A c \in 1..MaxCalls : outcome'[c] = IF c = merge[p].call THEN result ELSE outcome[c]
  BY <1>1 DEF Leave, TypeOK
<1>5. \A q \in Proc : q # p /\ merge[q].pc # "idle"
        => merge[q].call # merge[p].call /\ merge[q].call \in 1..calls
  BY DEF RefusedInv, CallsDistinct, TypeInv, ActiveCalls
<1>6. CallsOpen'
  <2> SUFFICES ASSUME NEW q \in Proc, merge'[q].pc # "idle"
               PROVE  outcome'[merge'[q].call] = "open"
    BY DEF CallsOpen
  <2>1. q # p /\ merge'[q] = merge[q]
    BY <1>2
  <2>2. merge[q].call \in 1..MaxCalls /\ merge[q].call # merge[p].call
    BY <1>3, <1>5, <2>1
  <2>3. outcome[merge[q].call] = "open"
    BY <2>1 DEF RefusedInv, CallsOpen
  <2> QED  BY <1>4, <2>1, <2>2, <2>3
<1>7. CallsDistinct'
  BY <1>2 DEF RefusedInv, CallsDistinct
<1>8. FutureOpen'
  BY <1>3, <1>4 DEF RefusedInv, FutureOpen
<1>9. BatchesKnown'
  BY DEF RefusedInv, BatchesKnown
<1>10. OwnRows'
  BY <1>2 DEF RefusedInv, OwnRows
<1>11. NoneYet'
  BY <1>2 DEF RefusedInv, NoneYet
<1>12. RefusedLeavesNothing'
  <2> SUFFICES ASSUME NEW r \in turns', r.batch # 0 PROVE outcome'[r.batch] # "stale"
    BY DEF RefusedLeavesNothing
  <2>1. r \in turns /\ r.batch \in 0..MaxCalls
    BY <1>1 DEF TypeOK, Row
  <2>2. outcome[r.batch] # "stale" /\ r.batch \in 1..MaxCalls
    BY <1>3, <2>1 DEF RefusedInv, RefusedLeavesNothing
  <2> QED  BY <1>4, <2>2
<1> QED  BY <1>6, <1>7, <1>8, <1>9, <1>10, <1>11, <1>12 DEF RefusedInv

\* So does a call that begins.
LEMMA BeginKeepsRefused ==
  ASSUME TypeInv, RefusedInv, NEW p \in Proc, NEW kind \in {"batch", "single"},
         NEW payload \in Seq(Turn), Begin(p, kind, payload)
  PROVE  RefusedInv'
<1>1. /\ calls \in Nat /\ calls < MaxCalls /\ MaxCalls \in Nat /\ calls' = calls + 1
      /\ turns' = turns /\ outcome' = outcome
  BY ReconcilerAssumption DEF TypeInv, TypeOK, Begin
<1>2. /\ merge'[p].pc = "lock" /\ merge'[p].call = calls + 1
      /\ \A q \in Proc : q # p => merge'[q] = merge[q]
  BY DEF Begin, TypeInv, TypeOK, Idle
<1>3. \A q \in Proc : merge[q].pc # "idle" => merge[q].call # calls + 1
  BY <1>1 DEF TypeInv, ActiveCalls
<1>4. \A r \in turns : r.batch \in Nat /\ r.batch # calls + 1 /\ r.batch <= calls
  <2>1. \A r \in turns : r.batch \in 0..MaxCalls
    BY DEF TypeInv, TypeOK, Row
  <2> QED  BY <1>1, <2>1 DEF RefusedInv, BatchesKnown
<1>5. outcome[calls + 1] = "open"
  BY <1>1 DEF RefusedInv, FutureOpen
<1>6. CallsOpen'
  BY <1>1, <1>2, <1>5 DEF RefusedInv, CallsOpen
<1>7. CallsDistinct'
  BY <1>2, <1>3 DEF RefusedInv, CallsDistinct
<1>8. FutureOpen'
  BY <1>1 DEF RefusedInv, FutureOpen
<1>9. BatchesKnown'
  BY <1>1, <1>4 DEF BatchesKnown
<1>10. OwnRows'
  BY <1>2 DEF RefusedInv, OwnRows
<1>11. NoneYet'
  BY <1>1, <1>2, <1>4 DEF RefusedInv, NoneYet
<1>12. RefusedLeavesNothing'
  BY <1>1 DEF RefusedInv, RefusedLeavesNothing
<1> QED  BY <1>6, <1>7, <1>8, <1>9, <1>10, <1>11, <1>12 DEF RefusedInv

\* And a row that is written: it is the call's own, or has no batch.
LEMMA WriteKeepsRefused ==
  ASSUME TypeInv, RefusedInv, NEW p \in Proc, WriteTurn(p)
  PROVE  RefusedInv'
<1> DEFINE m == merge[p]
<1>1. /\ m \in Merge /\ m.pc = "write" /\ m.todo \in Seq(Row) /\ m.todo # <<>>
      /\ calls' = calls /\ outcome' = outcome /\ calls \in Nat
  BY MergeTyped, ReconcilerAssumption DEF TypeInv, TypeOK, WriteTurn, Pending
<1> DEFINE row == Head(m.todo)
<1>2. m.call \in 1..calls /\ outcome[m.call] = "open"
  BY <1>1 DEF TypeInv, ActiveCalls, RefusedInv, CallsOpen
<1>3. row.batch \in {0, m.call}
  <2>1. \A k \in 1..Len(m.todo) : m.todo[k].batch \in {0, m.call}
    BY <1>1 DEF RefusedInv, OwnRows
  <2>2. Len(m.todo) \in Nat /\ Len(m.todo) >= 1 /\ Head(m.todo) = m.todo[1]
    BY <1>1
  <2> QED  BY <2>1, <2>2
<1>4. turns' \subseteq turns \cup {row}
  BY DEF WriteTurn
<1>5. /\ merge'[p].call = m.call /\ merge'[p].pc \in {"write", "readAnchors"}
      /\ merge'[p].todo = Tail(m.todo)
      /\ \A q \in Proc : q # p => merge'[q] = merge[q]
  <2>1. merge' = [merge EXCEPT ![p].todo = Tail(m.todo), ![p].pc = WriteNext(Tail(m.todo))]
    BY DEF WriteTurn
  <2>2. WriteNext(Tail(m.todo)) \in {"write", "readAnchors"}
    BY DEF WriteNext
  <2> QED  BY <1>1, <2>1, <2>2 DEF TypeInv, TypeOK, Merge
<1> HIDE DEF row
<1>6. CallsOpen'
  BY <1>1, <1>5 DEF RefusedInv, CallsOpen
<1>7. CallsDistinct'
  BY <1>1, <1>5 DEF RefusedInv, CallsDistinct
<1>8. FutureOpen'
  BY <1>1 DEF RefusedInv, FutureOpen
<1>9. BatchesKnown'
  <2>1. row.batch <= calls
    BY <1>1, <1>2, <1>3
  <2> QED  BY <1>1, <1>4, <2>1 DEF RefusedInv, BatchesKnown
<1>10. OwnRows'
  <2>1. ASSUME NEW k \in 1..Len(Tail(m.todo)) PROVE Tail(m.todo)[k].batch \in {0, m.call}
    <3>1. Len(m.todo) \in Nat /\ Len(m.todo) >= 1 /\ Len(Tail(m.todo)) = Len(m.todo) - 1
      BY <1>1
    <3>2. k \in Nat /\ k + 1 \in 1..Len(m.todo)
      BY <3>1
    <3>3. Tail(m.todo)[k] = m.todo[k + 1]
      BY <1>1, <3>1, <3>2
    <3> QED  BY <1>1, <3>2, <3>3 DEF RefusedInv, OwnRows
  <2> QED  BY <1>5, <2>1 DEF RefusedInv, OwnRows
<1>11. NoneYet'
  <2> SUFFICES ASSUME NEW q \in Proc, merge'[q].pc \in {"lock", "recheck", "read"}, NEW r \in turns'
               PROVE  r.batch # merge'[q].call
    BY DEF NoneYet
  <2>1. q # p /\ merge'[q] = merge[q]
    BY <1>5
  <2>2. merge[q].call \in 1..calls /\ merge[q].call # m.call
    BY <1>1, <2>1 DEF TypeInv, ActiveCalls, RefusedInv, CallsDistinct
  <2>3. row.batch # merge[q].call
    BY <1>1, <1>3, <2>2
  <2> QED  BY <1>4, <2>1, <2>3 DEF RefusedInv, NoneYet
<1>12. RefusedLeavesNothing'
  <2>1. row.batch # 0 => outcome[row.batch] # "stale"
    BY <1>2, <1>3
  <2> QED  BY <1>1, <1>4, <2>1 DEF RefusedInv, RefusedLeavesNothing
<1> QED  BY <1>6, <1>7, <1>8, <1>9, <1>10, <1>11, <1>12 DEF RefusedInv

\* Placing the payload: the rows to write are stamped with the call.
LEMMA AlignKeepsRefused ==
  ASSUME TypeInv, RefusedInv, NEW p \in Proc, Align(p)
  PROVE  RefusedInv'
<1> DEFINE m == merge[p]
           index == [z \in AnchorSizes |-> LoadAnchorIndex(m.seen, z)]
           a == FindAlignment(TurnsOf(m.seen), m.payload, index, m.kind = "batch")
           rejected == Rejected(m.seen, m.payload, a)
           todo == IF rejected THEN <<>> ELSE Stamped(NewRows(m.seen, m.payload, a), m.call)
<1>1. m \in Merge /\ m.pc = "align"
      /\ calls' = calls /\ turns' = turns
  BY MergeTyped DEF Align, TypeInv
<1>2. CASE OutOfRange(m.seen, a)
  <2>1. Leave(p, "failed")
    BY <1>2, Zenon DEF Align
  <2> QED  BY <1>1, <2>1, LeaveKeepsRefused
<1>3. CASE ~ OutOfRange(m.seen, a)
  <2>1. /\ merge' = [merge EXCEPT ![p].at = a, ![p].todo = todo,
                       ![p].pc = IF rejected THEN "check" ELSE WriteNext(todo)]
        /\ outcome' = outcome
    BY <1>3, Zenon DEF Align
  <2>2. todo = <<>> \/ \A k \in DOMAIN todo : todo[k].batch = m.call
    BY DEF Stamped
  <2> HIDE DEF a, index, rejected, todo
  <2>3. (IF rejected THEN "check" ELSE WriteNext(todo)) \in {"check", "readAnchors", "write"}
    BY DEF WriteNext
  <2>4. /\ merge'[p].pc \in {"check", "readAnchors", "write"} /\ merge'[p].call = m.call
        /\ merge'[p].todo = todo /\ \A q \in Proc : q # p => merge'[q] = merge[q]
    BY <1>1, <2>1, <2>3 DEF TypeInv, TypeOK, Merge
  <2>5. merge'[p].pc = "write" => todo # <<>>
    BY <1>1, <2>1 DEF TypeInv, TypeOK, Merge, WriteNext
  <2>6. TypeInv'
    BY AlignTyped
  <2>7. todo \in Seq(Row)
    BY <2>4, <2>6, MergeTyped DEF TypeInv, TypeOK, Merge
  <2>8. \A k \in 1..Len(todo) : merge'[p].pc = "write" => todo[k].batch \in {0, m.call}
    BY <2>2, <2>5, <2>7
  <2> QED  BY <1>1, <2>1, <2>4, <2>8, MoveKeepsRefused
<1> QED  BY <1>2, <1>3

\* Resending: the rows to write have no batch.
LEMMA ResendKeepsRefused ==
  ASSUME TypeInv, RefusedInv, NEW p \in Proc, ExactResend(p)
  PROVE  RefusedInv'
<1> DEFINE m == merge[p]
<1>1. /\ m \in Merge /\ m.pc = "align" /\ m.seen \in Seq(Row)
      /\ UNCHANGED <<turns, anchors, epoch, holder, calls, outcome>>
  BY MergeTyped DEF TypeInv, ExactResend
<1>2. PICK w \in 1..(Len(m.seen) - 1) :
        merge' = [merge EXCEPT ![p].pc = "write", ![p].kind = "resend",
             ![p].at = [old |-> w, new |-> 1, n |-> 2],
             ![p].todo = [k \in 1..2 |-> [m.seen[w + k - 1] EXCEPT !.batch = 0]]]
  BY Zenon DEF ExactResend
<1> DEFINE todo == [k \in 1..2 |-> [m.seen[w + k - 1] EXCEPT !.batch = 0]]
<1>3. \A k \in 1..2 : todo[k].batch = 0
  <2> SUFFICES ASSUME NEW k \in 1..2 PROVE [m.seen[w + k - 1] EXCEPT !.batch = 0].batch = 0
    OBVIOUS
  <2>1. w + k - 1 \in 1..Len(m.seen)
    BY <1>1, RowsTyped
  <2>2. m.seen[w + k - 1] \in Row
    BY <1>1, <2>1, RowsTyped
  <2> QED  BY <2>2 DEF Row
<1>4. Len(todo) = 2
  OBVIOUS
<1> HIDE DEF todo
<1>5. /\ merge'[p].pc = "write" /\ merge'[p].call = m.call /\ merge'[p].todo = todo
      /\ \A q \in Proc : q # p => merge'[q] = merge[q]
  BY <1>1, <1>2 DEF TypeInv, TypeOK, Merge, todo
<1> QED  BY <1>1, <1>3, <1>4, <1>5, MoveKeepsRefused

\* Every step preserves the invariant.
LEMMA RefusedInvStep ==
  ASSUME TypeInv, RefusedInv, [Next]_vars
  PROVE  RefusedInv'
<1>1. \A p \in Proc : merge[p] \in Merge
  BY MergeTyped DEF TypeInv
<1>2. ASSUME NEW p \in Proc, NEW pc \in Phases \ {"idle", "write"}, Goto(p, pc),
             merge[p].pc # "idle", turns' = turns, calls' = calls, outcome' = outcome,
             pc \in {"lock", "recheck", "read"} => merge[p].pc \in {"lock", "recheck"}
      PROVE  RefusedInv'
  <2>1. merge'[p] = [merge[p] EXCEPT !.pc = pc] /\ \A q \in Proc : q # p => merge'[q] = merge[q]
    BY <1>2, GotoTyped DEF TypeInv
  <2>2. merge'[p].pc = pc /\ merge'[p].call = merge[p].call
    BY <1>1, <2>1 DEF Merge
  <2> QED  BY <1>2, <2>1, <2>2, MoveKeepsRefused
<1>3. ASSUME NEW p \in Proc, NEW pc, pc \in {"align", "deleteAnchors"},
             merge[p].pc # "idle", turns' = turns, calls' = calls, outcome' = outcome,
             merge'[p].pc = pc, merge'[p].call = merge[p].call,
             \A q \in Proc : q # p => merge'[q] = merge[q]
      PROVE  RefusedInv'
  BY <1>3, MoveKeepsRefused
<1>4. ASSUME NEW p \in Proc, IngestBatch(p) \/ IngestSingle(p) PROVE RefusedInv'
  <2>1. PICK kind \in {"batch", "single"}, payload \in Payload \cup SinglePair :
          Begin(p, kind, payload)
    BY <1>4 DEF IngestBatch, IngestSingle
  <2>3. payload \in Seq(Turn)
    BY SinglePairsTyped, ReconcilerAssumption
  <2> QED  BY <2>1, <2>3, BeginKeepsRefused
<1>5. ASSUME NEW p \in Proc, AcquireLock(p) PROVE RefusedInv'
  <2>1. Goto(p, IF merge[p].kind = "batch" THEN "recheck" ELSE "read") /\ merge[p].pc = "lock"
        /\ UNCHANGED <<turns, calls, outcome>>
    BY <1>5 DEF AcquireLock
  <2>2. (IF merge[p].kind = "batch" THEN "recheck" ELSE "read") \in Phases \ {"idle", "write"}
    BY DEF Phases
  <2> QED  BY <1>2, <2>1, <2>2
<1>6. ASSUME NEW p \in Proc, Recheck(p) PROVE RefusedInv'
  <2>1. CASE merge[p].epoch = epoch
    <3>1. Goto(p, "read") /\ merge[p].pc = "recheck" /\ "read" \in Phases \ {"idle", "write"}
          /\ UNCHANGED <<turns, calls, outcome>>
      BY <1>6, <2>1 DEF Recheck, Phases
    <3> QED  BY <1>2, <3>1
  <2>2. CASE merge[p].epoch # epoch
    <3>1. Leave(p, "stale") /\ UNCHANGED <<turns, calls>> /\ merge[p].pc = "recheck"
      BY <1>6, <2>2 DEF Recheck
    <3>2. \A r \in turns' : r.batch # merge[p].call
      BY <3>1 DEF RefusedInv, NoneYet
    <3> QED  BY <3>1, <3>2, LeaveKeepsRefused
  <2> QED  BY <2>1, <2>2
<1>7. ASSUME NEW p \in Proc, ReadTurns(p) PROVE RefusedInv'
  <2>1. /\ merge'[p].pc = "align" /\ merge'[p].call = merge[p].call
        /\ \A q \in Proc : q # p => merge'[q] = merge[q]
    BY <1>1, <1>7 DEF ReadTurns, TypeInv, TypeOK, Merge
  <2>2. merge[p].pc # "idle" /\ UNCHANGED <<turns, calls, outcome>>
    BY <1>7 DEF ReadTurns
  <2> QED  BY <1>3, <2>1, <2>2
<1>8. ASSUME NEW p \in Proc, ReadForAnchors(p) PROVE RefusedInv'
  <2>1. /\ merge'[p].pc = "deleteAnchors" /\ merge'[p].call = merge[p].call
        /\ \A q \in Proc : q # p => merge'[q] = merge[q]
    BY <1>1, <1>8 DEF ReadForAnchors, TypeInv, TypeOK, Merge
  <2>2. merge[p].pc # "idle" /\ UNCHANGED <<turns, calls, outcome>>
    BY <1>8 DEF ReadForAnchors
  <2> QED  BY <1>3, <2>1, <2>2
<1>9. ASSUME NEW p \in Proc, DeleteAnchors(p) \/ InsertAnchors(p) \/ RefreshFails(p)
      PROVE  RefusedInv'
  <2>1. PICK pc \in {"insertAnchors", "check"} : Goto(p, pc)
    BY <1>9 DEF DeleteAnchors, InsertAnchors, RefreshFails
  <2>2. merge[p].pc # "idle" /\ UNCHANGED <<turns, calls, outcome>>
    BY <1>9 DEF DeleteAnchors, InsertAnchors, RefreshFails
  <2>3. pc \in Phases \ {"idle", "write"}
    BY DEF Phases
  <2> QED  BY <1>2, <2>1, <2>2, <2>3
<1>10. ASSUME NEW p \in Proc, CheckEpoch(p) PROVE RefusedInv'
  <2>1. merge[p].pc # "idle" /\ UNCHANGED <<turns, calls>>
    BY <1>10 DEF CheckEpoch
  <2>2. CASE merge[p].kind = "batch" /\ merge[p].epoch # epoch
    <3>1. Goto(p, "purge") /\ outcome' = outcome /\ "purge" \in Phases \ {"idle", "write"}
      BY <1>10, <2>2 DEF CheckEpoch, Phases
    <3> QED  BY <1>2, <2>1, <3>1
  <2>3. CASE ~ (merge[p].kind = "batch" /\ merge[p].epoch # epoch)
    <3>1. Leave(p, "ok")
      BY <1>10, <2>3 DEF CheckEpoch
    <3> QED  BY <2>1, <3>1, LeaveKeepsRefused
  <2> QED  BY <2>2, <2>3
<1>11. ASSUME NEW p \in Proc, Purge(p) PROVE RefusedInv'
  <2>1. Leave(p, "stale") /\ merge[p].pc # "idle" /\ calls' = calls
    BY <1>11 DEF Purge
  <2>2. turns' \subseteq turns /\ \A r \in turns' : r.batch # merge[p].call
    BY <1>11 DEF Purge
  <2> QED  BY <2>1, <2>2, LeaveKeepsRefused
<1>12. ASSUME NEW p \in Proc, Fail(p) PROVE RefusedInv'
  <2>1. Leave(p, "failed") /\ merge[p].pc # "idle" /\ UNCHANGED <<turns, calls>>
    BY <1>12 DEF Fail
  <2> QED  BY <2>1, LeaveKeepsRefused
<1>13. ASSUME Resurrect \/ UNCHANGED vars PROVE RefusedInv'
  <2>1. UNCHANGED <<turns, calls, outcome, merge>>
    BY <1>13 DEF Resurrect, vars
  <2> QED  BY <2>1 DEF RefusedInv, CallsOpen, CallsDistinct, FutureOpen, BatchesKnown, OwnRows,
                       NoneYet, RefusedLeavesNothing
<1> QED
  BY <1>4, <1>5, <1>6, <1>7, <1>8, <1>9, <1>10, <1>11, <1>12, <1>13,
     AlignKeepsRefused, ResendKeepsRefused, WriteKeepsRefused DEF Next

\* A call refused because of its epoch leaves no row behind, on either backend
\* and however the calls interleave: it has no rows when its epoch is checked
\* in conversation_reconcile, and delete_canonical_turns_by_batch_id takes
\* them all after the check at the end.
THEOREM RefusedLeaveNothing == Spec => []RefusedLeavesNothing
<1>1. Init => TypeInv /\ RefusedInv
  <2> SUFFICES ASSUME Init PROVE RefusedInv
    BY TypeInvInit
  <2>1. \A p \in Proc : merge[p].pc = "idle"
    BY DEF Init, Idle
  <2> QED  BY <2>1 DEF Init, RefusedInv, CallsOpen, CallsDistinct, FutureOpen, BatchesKnown,
                       OwnRows, NoneYet, RefusedLeavesNothing
<1>2. TypeInv /\ RefusedInv /\ [Next]_vars => (TypeInv /\ RefusedInv)'
  BY TypeInvStep, RefusedInvStep
<1>3. TypeInv /\ RefusedInv => RefusedLeavesNothing
  BY DEF RefusedInv
<1> QED  BY <1>1, <1>2, <1>3, PTL DEF Spec

----------------------------------------------------------------------------
(* On Postgres merges are serialized.                                      *)

SamePlace(r, s) == r.id = s.id /\ r.turn = s.turn /\ r.key = s.key

\* What p read, with its own rows, is what is there.
Undisturbed(p) ==
  /\ \A r \in turns : r.batch # merge[p].call =>
       \E k \in 1..Len(merge[p].seen) : SamePlace(r, merge[p].seen[k])
  /\ \A k \in 1..Len(merge[p].seen) :
       \E r \in turns : r.batch # merge[p].call /\ SamePlace(r, merge[p].seen[k])

LockHeld == \A p \in Proc : merge[p].pc \notin {"idle", "lock"} => holder = p
SeenStands == \A p \in Proc : Writing(p) => Undisturbed(p)

\* Identifiers are those of calls made; none is that of a call before it has
\* read the table, so none that it has read.
IdsKnown == \A r \in turns : r.id[1] <= calls
NoIdsYet ==
  \A p \in Proc : merge[p].pc \in {"lock", "recheck", "read"} =>
    \A r \in turns : r.id[1] # merge[p].call
SeenForeign ==
  \A p \in Proc : Writing(p) =>
    \A k \in 1..Len(merge[p].seen) : merge[p].seen[k].id[1] # merge[p].call

\* The rows to write have identifiers of the call, or are rows it has read.
Own(p, r) ==
  \/ r.id[1] = merge[p].call /\ r.batch = merge[p].call
  \/ r.batch = 0 /\ \E j \in 1..Len(merge[p].seen) : SamePlace(r, merge[p].seen[j])
AllOwn(p) == \A k \in 1..Len(merge[p].todo) : Own(p, merge[p].todo[k])
TodoOwn == \A p \in Proc : merge[p].pc = "write" => AllOwn(p)
LockInv == LockHeld /\ SeenStands /\ IdsKnown /\ NoIdsYet /\ SeenForeign /\ TodoOwn

\* While one call is past the lock, the others wait.
LEMMA OthersWait ==
  ASSUME LockInv, NEW p \in Proc, merge[p].pc \notin {"idle", "lock"}
  PROVE  \A q \in Proc : q # p => merge[q].pc \in {"idle", "lock"} /\ ~ Writing(q)
<1>1. \A q \in Proc : merge[q].pc \notin {"idle", "lock"} => q = p
  BY DEF LockInv, LockHeld
<1> QED  BY <1>1 DEF Writing

\* What identifiers and calls are.
LEMMA IdsTyped ==
  ASSUME TypeInv
  PROVE  /\ calls \in Nat
         /\ \A p \in Proc : merge[p].pc # "idle" => merge[p].call \in 1..calls
         /\ \A r \in turns : r.id[1] \in Nat
<1>1. \A r \in turns : r.id \in Id
  BY DEF TypeInv, TypeOK, Row
<1>2. \A r \in turns : r.id[1] \in Nat
  BY <1>1, ReconcilerAssumption DEF Id
<1> QED  BY <1>2, ReconcilerAssumption DEF TypeInv, TypeOK, ActiveCalls

\* What is said of a call another step leaves alone is still so.
LEMMA Unmoved ==
  ASSUME NEW q \in Proc, merge'[q] = merge[q]
  PROVE  /\ AllOwn(q) => AllOwn(q)'
         /\ turns' = turns /\ Undisturbed(q) => Undisturbed(q)'
<1>1. AllOwn(q) => AllOwn(q)'
  BY DEF AllOwn, Own
<1>2. turns' = turns /\ Undisturbed(q) => Undisturbed(q)'
  BY DEF Undisturbed
<1> QED  BY <1>1, <1>2

\* A call past the lock that moves on without touching the table preserves
\* the invariant.
LEMMA MoveKeepsLock ==
  ASSUME TypeInv, LockInv, NEW p \in Proc,
         turns' = turns, calls' = calls, holder' = holder,
         \A q \in Proc : q # p => merge'[q] = merge[q],
         merge[p].pc \notin {"idle", "lock"},
         merge'[p].call = merge[p].call, merge'[p].seen = merge[p].seen,
         merge'[p].pc \notin {"idle", "lock"},
         merge'[p].pc \in {"recheck", "read"} => merge[p].pc \in {"recheck", "read"},
         Writing(p)' => Writing(p),
         merge'[p].pc = "write" => AllOwn(p)'
  PROVE  LockInv'
<1>1. \A q \in Proc : q # p => ~ Writing(q) /\ merge[q].pc \in {"idle", "lock"}
  BY OthersWait
<1>2. \A q \in Proc : q # p => ~ Writing(q)'
  BY <1>1 DEF Writing
<1>3. LockHeld'
  BY DEF LockInv, LockHeld
<1>4. SeenStands'
  <2>1. Writing(p)' => Undisturbed(p)'
    BY DEF LockInv, SeenStands, Undisturbed
  <2> QED  BY <1>2, <2>1 DEF SeenStands
<1>5. IdsKnown'
  BY DEF LockInv, IdsKnown
<1>6. NoIdsYet'
  <2> SUFFICES ASSUME NEW q \in Proc, merge'[q].pc \in {"lock", "recheck", "read"}
               PROVE  \A r \in turns : r.id[1] # merge'[q].call
    BY DEF NoIdsYet
  <2>1. CASE q = p
    BY <2>1 DEF LockInv, NoIdsYet
  <2>2. CASE q # p
    BY <2>2 DEF LockInv, NoIdsYet
  <2> QED  BY <2>1, <2>2
<1>7. SeenForeign'
  <2>1. Writing(p)' => \A k \in 1..Len(merge'[p].seen) : merge'[p].seen[k].id[1] # merge'[p].call
    BY DEF LockInv, SeenForeign
  <2> QED  BY <1>2, <2>1 DEF SeenForeign
<1>8. TodoOwn'
  <2> SUFFICES ASSUME NEW q \in Proc, merge'[q].pc = "write" PROVE AllOwn(q)'
    BY DEF TodoOwn
  <2>1. q = p
    BY <1>2 DEF Writing
  <2> QED  BY <2>1
<1> QED  BY <1>3, <1>4, <1>5, <1>6, <1>7, <1>8 DEF LockInv

\* A call that ends preserves it, if it takes rows along only past the lock.
LEMMA LeaveKeepsLock ==
  ASSUME TypeInv, LockInv, NEW p \in Proc, NEW result \in {"ok", "stale", "failed"},
         Leave(p, result), merge[p].pc # "idle", calls' = calls, turns' \subseteq turns,
         merge[p].pc = "lock" => turns' = turns
  PROVE  LockInv'
<1>1. merge'[p].pc = "idle" /\ \A q \in Proc : q # p => merge'[q] = merge[q]
  BY LeaveTyped DEF Idle, TypeInv
<1>2. ~ Writing(p)'
  BY <1>1 DEF Writing
<1>3. LockHeld'
  <2> SUFFICES ASSUME NEW q \in Proc, merge'[q].pc \notin {"idle", "lock"} PROVE holder' = q
    BY DEF LockHeld
  <2>1. q # p /\ holder = q
    BY <1>1 DEF LockInv, LockHeld
  <2> QED  BY <2>1 DEF Leave
<1>4. IdsKnown'
  BY DEF LockInv, IdsKnown
<1>5. NoIdsYet'
  BY <1>1 DEF LockInv, NoIdsYet
<1>6. SeenForeign' /\ TodoOwn'
  <2>1. SeenForeign'
    BY <1>1, <1>2 DEF LockInv, SeenForeign, Writing
  <2>2. TodoOwn'
    <3>1. \A q \in Proc : merge'[q].pc = "write" => AllOwn(q)'
      BY <1>1, Unmoved DEF LockInv, TodoOwn
    <3> QED  BY <3>1 DEF TodoOwn
  <2> QED  BY <2>1, <2>2
<1>7. SeenStands'
  <2> SUFFICES ASSUME NEW q \in Proc, Writing(q)' PROVE Undisturbed(q)'
    BY DEF SeenStands
  <2>1. q # p /\ merge'[q] = merge[q] /\ Writing(q)
    BY <1>1, <1>2 DEF Writing
  <2>2. merge[p].pc = "lock"
    BY <2>1, OthersWait DEF Writing
  <2> QED  BY <2>1, <2>2 DEF LockInv, SeenStands, Undisturbed
<1> QED  BY <1>3, <1>4, <1>5, <1>6, <1>7 DEF LockInv

\* So does a call that begins: its identifiers are new.
LEMMA BeginKeepsLock ==
  ASSUME TypeInv, LockInv, NEW p \in Proc, NEW kind \in {"batch", "single"},
         NEW payload \in Seq(Turn), Begin(p, kind, payload)
  PROVE  LockInv'
<1>1. /\ calls' = calls + 1 /\ turns' = turns /\ holder' = holder /\ merge[p].pc = "idle"
      /\ merge'[p].pc = "lock" /\ merge'[p].call = calls + 1
      /\ \A q \in Proc : q # p => merge'[q] = merge[q]
  BY DEF Begin, TypeInv, TypeOK, Idle
<1>2. ~ Writing(p)' /\ \A q \in Proc : Writing(q)' => q # p /\ Writing(q)
  BY <1>1 DEF Writing
<1>3. LockHeld'
  BY <1>1 DEF LockInv, LockHeld
<1>4. SeenStands' /\ SeenForeign'
  <2>1. \A q \in Proc : Writing(q)' => Undisturbed(q)'
    BY <1>1, <1>2, Unmoved DEF LockInv, SeenStands
  <2>2. SeenForeign'
    BY <1>1, <1>2 DEF LockInv, SeenForeign
  <2> QED  BY <2>1, <2>2 DEF SeenStands
<1>5. IdsKnown'
  BY <1>1, IdsTyped DEF LockInv, IdsKnown
<1>6. NoIdsYet'
  <2>1. \A r \in turns : r.id[1] # calls + 1
    BY IdsTyped DEF LockInv, IdsKnown
  <2> QED  BY <1>1, <2>1 DEF LockInv, NoIdsYet
<1>7. TodoOwn'
  <2>1. \A q \in Proc : merge'[q].pc = "write" => AllOwn(q)'
    BY <1>1, Unmoved DEF LockInv, TodoOwn
  <2> QED  BY <2>1 DEF TodoOwn
<1> QED  BY <1>3, <1>4, <1>5, <1>6, <1>7 DEF LockInv

\* And one that takes the lock: nobody else has it.
LEMMA AcquireKeepsLock ==
  ASSUME TypeInv, LockInv, NEW p \in Proc, AcquireLock(p)
  PROVE  LockInv'
<1>1. /\ merge[p].pc = "lock" /\ holder = None /\ holder' = p
      /\ turns' = turns /\ calls' = calls
  BY DEF AcquireLock
<1>2. /\ merge'[p].pc \in {"recheck", "read"} /\ merge'[p].call = merge[p].call
      /\ \A q \in Proc : q # p => merge'[q] = merge[q]
  <2>1. merge' = [merge EXCEPT ![p].pc = IF merge[p].kind = "batch" THEN "recheck" ELSE "read"]
    BY DEF AcquireLock, Goto
  <2> QED  BY <2>1 DEF TypeInv, TypeOK, Merge
<1>3. \A q \in Proc : merge[q].pc \in {"idle", "lock"}
  BY <1>1, ReconcilerAssumption DEF LockInv, LockHeld
<1>4. \A q \in Proc : ~ Writing(q)'
  BY <1>2, <1>3 DEF Writing
<1>5. LockHeld'
  BY <1>1, <1>2, <1>3 DEF LockHeld
<1>6. SeenStands' /\ SeenForeign'
  BY <1>4 DEF SeenStands, SeenForeign
<1>7. IdsKnown'
  BY <1>1 DEF LockInv, IdsKnown
<1>8. NoIdsYet'
  BY <1>1, <1>2 DEF LockInv, NoIdsYet
<1>9. TodoOwn'
  BY <1>4 DEF TodoOwn, Writing
<1> QED  BY <1>5, <1>6, <1>7, <1>8, <1>9 DEF LockInv

\* Reading the table: what is read is what is there, and is not the call's.
LEMMA ReadKeepsLock ==
  ASSUME TypeInv, RefusedInv, LockInv, NEW p \in Proc, ReadTurns(p)
  PROVE  LockInv'
<1>1. /\ merge[p].pc = "read" /\ turns' = turns /\ calls' = calls /\ holder' = holder
  BY DEF ReadTurns
<1>2. /\ merge'[p].pc = "align" /\ merge'[p].call = merge[p].call /\ merge'[p].seen = Table
      /\ \A q \in Proc : q # p => merge'[q] = merge[q]
  BY DEF ReadTurns, TypeInv, TypeOK, Merge
<1>3. \A q \in Proc : q # p => merge[q].pc \in {"idle", "lock"} /\ ~ Writing(q)'
  BY <1>1, <1>2, OthersWait DEF Writing
<1>4. /\ \A k \in 1..Len(Table) : Table[k] \in turns
      /\ \A r \in turns : \E k \in 1..Len(Table) : Table[k] = r
  BY TableListsTurns DEF TypeInv
<1>5. \A r \in turns : r.batch # merge[p].call /\ r.id[1] # merge[p].call
  BY <1>1 DEF RefusedInv, NoneYet, LockInv, NoIdsYet
<1>6. LockHeld'
  BY <1>1, <1>2, <1>3 DEF LockInv, LockHeld
<1>7. SeenStands'
  <2>1. Undisturbed(p)'
    BY <1>1, <1>2, <1>4, <1>5 DEF Undisturbed, SamePlace
  <2> QED  BY <1>3, <2>1 DEF SeenStands
<1>8. IdsKnown'
  BY <1>1 DEF LockInv, IdsKnown
<1>9. NoIdsYet'
  BY <1>1, <1>2 DEF LockInv, NoIdsYet
<1>10. SeenForeign'
  BY <1>2, <1>3, <1>4, <1>5 DEF SeenForeign
<1>11. TodoOwn'
  BY <1>2, <1>3 DEF TodoOwn, Writing
<1> QED  BY <1>6, <1>7, <1>8, <1>9, <1>10, <1>11 DEF LockInv

\* A row about to be written is new to the table or stands where it already is.
LEMMA WriteAddsOrRepeats ==
  ASSUME TypeInv, LockInv, NEW p \in Proc, merge[p].pc = "write", NEW row, Own(p, row)
  PROVE  \A r \in turns : r.id = row.id => r.batch = merge[p].call \/ SamePlace(r, row)
<1>1. Undisturbed(p)
  BY DEF LockInv, SeenStands, Writing
<1> SUFFICES ASSUME NEW r \in turns, r.id = row.id, r.batch # merge[p].call
             PROVE  SamePlace(r, row)
  OBVIOUS
<1>2. PICK k \in 1..Len(merge[p].seen) : SamePlace(r, merge[p].seen[k])
  BY <1>1 DEF Undisturbed
<1>3. merge[p].seen[k].id[1] # merge[p].call
  BY DEF LockInv, SeenForeign, Writing
<1>4. row.id[1] # merge[p].call
  BY <1>2, <1>3 DEF SamePlace
<1>5. PICK j \in 1..Len(merge[p].seen) : SamePlace(row, merge[p].seen[j])
  BY <1>4 DEF Own
<1>6. PICK s \in turns : s.batch # merge[p].call /\ SamePlace(s, merge[p].seen[j])
  BY <1>1 DEF Undisturbed
<1>7. s.id = r.id
  BY <1>5, <1>6 DEF SamePlace
<1>8. s = r
  BY <1>7 DEF TypeInv, TableSound, IdsDistinct
<1> QED  BY <1>5, <1>6, <1>8 DEF SamePlace

\* Writing a row leaves what was read where it is.
LEMMA WriteKeepsLock ==
  ASSUME TypeInv, RefusedInv, LockInv, NEW p \in Proc, WriteTurn(p)
  PROVE  LockInv'
<1> DEFINE m == merge[p]
           row == Head(m.todo)
<1>1. /\ m \in Merge /\ m.pc = "write" /\ m.todo \in Seq(Row) /\ m.todo # <<>> /\ m.seen \in Seq(Row)
      /\ calls' = calls /\ holder' = holder
  BY MergeTyped DEF TypeInv, WriteTurn, Pending
<1>2. /\ merge'[p].call = m.call /\ merge'[p].seen = m.seen
      /\ merge'[p].pc \in {"write", "readAnchors"} /\ merge'[p].todo = Tail(m.todo)
      /\ \A q \in Proc : q # p => merge'[q] = merge[q]
  <2>1. merge' = [merge EXCEPT ![p].todo = Tail(m.todo), ![p].pc = WriteNext(Tail(m.todo))]
    BY DEF WriteTurn
  <2>2. WriteNext(Tail(m.todo)) \in {"write", "readAnchors"}
    BY DEF WriteNext
  <2> QED  BY <1>1, <2>1, <2>2 DEF TypeInv, TypeOK, Merge
<1>3. \A q \in Proc : q # p => merge[q].pc \in {"idle", "lock"} /\ ~ Writing(q)'
  BY <1>1, <1>2, OthersWait DEF Writing
<1>4. Len(m.todo) \in Nat /\ Len(m.todo) >= 1 /\ row = m.todo[1]
  BY <1>1
<1>5. Own(p, row)
  BY <1>1, <1>4 DEF LockInv, TodoOwn, AllOwn
<1>6. m.call \in 1..calls /\ calls \in Nat
  BY <1>1, IdsTyped
<1>7. turns' = {r \in turns : r.id # row.id} \cup {row}
  BY Zenon DEF WriteTurn
<1>8. Undisturbed(p)
  BY <1>1 DEF LockInv, SeenStands, Writing
<1>9. \A r \in turns : r.id = row.id => r.batch = m.call \/ SamePlace(r, row)
  BY <1>1, <1>5, WriteAddsOrRepeats
<1>10. row.batch # m.call => \E j \in 1..Len(m.seen) : SamePlace(row, m.seen[j])
  BY <1>5 DEF Own
<1>11. row.batch = m.call \/ row.batch = 0
  BY <1>5 DEF Own
\* The row of a call that appends has its identifier; that of one that resends
\* has an identifier that it has read.
<1>12. row.id[1] <= calls /\ \A q \in Proc : q # p /\ merge[q].pc = "lock" => row.id[1] # merge[q].call
  <2>1. CASE row.id[1] = m.call
    <3>2. \A q \in Proc : q # p /\ merge[q].pc = "lock" => merge[q].call # m.call
      BY <1>1 DEF RefusedInv, CallsDistinct
    <3> QED  BY <1>6, <2>1, <3>2
  <2>2. CASE row.id[1] # m.call
    <3>1. PICK j \in 1..Len(m.seen) : SamePlace(row, m.seen[j])
      BY <1>5, <2>2 DEF Own
    <3>2. PICK r \in turns : SamePlace(r, m.seen[j])
      BY <1>8 DEF Undisturbed
    <3>3. r.id = row.id
      BY <3>1, <3>2 DEF SamePlace
    <3>4. r.id[1] <= calls /\ \A q \in Proc : merge[q].pc = "lock" => r.id[1] # merge[q].call
      BY DEF LockInv, IdsKnown, NoIdsYet
    <3> QED  BY <3>3, <3>4
  <2> QED  BY <2>1, <2>2
<1> HIDE DEF row
<1>13. LockHeld'
  BY <1>1, <1>2, <1>3 DEF LockInv, LockHeld
<1>14. SeenStands'
  <2>1. ASSUME NEW r \in turns', r.batch # m.call
        PROVE  \E k \in 1..Len(m.seen) : SamePlace(r, m.seen[k])
    <3>1. CASE r = row
      BY <1>10, <2>1, <3>1
    <3>2. CASE r # row
      BY <1>7, <1>8, <2>1, <3>2 DEF Undisturbed
    <3> QED  BY <3>1, <3>2
  <2>2. ASSUME NEW k \in 1..Len(m.seen)
        PROVE  \E r \in turns' : r.batch # m.call /\ SamePlace(r, m.seen[k])
    <3>1. PICK r \in turns : r.batch # m.call /\ SamePlace(r, m.seen[k])
      BY <1>8 DEF Undisturbed
    <3>2. CASE r.id # row.id
      BY <1>7, <3>1, <3>2
    <3>3. CASE r.id = row.id
      <4>1. SamePlace(r, row)
        BY <1>9, <3>1, <3>3
      <4>2. SamePlace(row, m.seen[k])
        BY <3>1, <4>1 DEF SamePlace
      <4>3. row.batch # m.call
        <5>1. m.seen[k].id[1] # m.call
          BY <1>1 DEF LockInv, SeenForeign, Writing
        <5>2. row.id[1] # m.call
          BY <4>2, <5>1 DEF SamePlace
        <5> QED  BY <1>5, <1>6, <5>2 DEF Own
      <4> QED  BY <1>7, <4>2, <4>3
    <3> QED  BY <3>2, <3>3
  <2>3. Undisturbed(p)'
    BY <1>2, <2>1, <2>2 DEF Undisturbed
  <2> QED  BY <1>3, <2>3 DEF SeenStands
<1>15. IdsKnown'
  BY <1>1, <1>7, <1>12 DEF LockInv, IdsKnown
<1>16. NoIdsYet'
  <2> SUFFICES ASSUME NEW q \in Proc, merge'[q].pc \in {"lock", "recheck", "read"}, NEW r \in turns'
               PROVE  r.id[1] # merge'[q].call
    BY DEF NoIdsYet
  <2>1. q # p /\ merge'[q] = merge[q] /\ merge[q].pc = "lock"
    BY <1>2, <1>3
  <2> QED  BY <1>7, <1>12, <2>1 DEF LockInv, NoIdsYet
<1>17. SeenForeign'
  BY <1>1, <1>2, <1>3 DEF LockInv, SeenForeign, Writing
<1>18. TodoOwn'
  <2>1. ASSUME NEW k \in 1..Len(Tail(m.todo)) PROVE Own(p, Tail(m.todo)[k])
    <3>1. Len(Tail(m.todo)) = Len(m.todo) - 1
      BY <1>1, <1>4
    <3>2. k \in Nat /\ k + 1 \in 1..Len(m.todo)
      BY <1>4, <3>1
    <3>3. Tail(m.todo)[k] = m.todo[k + 1]
      BY <1>1, <3>1, <3>2
    <3> QED  BY <1>1, <3>2, <3>3 DEF LockInv, TodoOwn, AllOwn
  <2>2. AllOwn(p)'
    BY <1>2, <2>1 DEF AllOwn, Own
  <2> QED  BY <1>3, <2>2 DEF TodoOwn, Writing
<1> QED  BY <1>13, <1>14, <1>15, <1>16, <1>17, <1>18 DEF LockInv

\* The rows that Align stamps are the call's own.
LEMMA AlignKeepsLock ==
  ASSUME TypeInv, RefusedInv, LockInv, NEW p \in Proc, Align(p)
  PROVE  LockInv'
<1> DEFINE m == merge[p]
           index == [z \in AnchorSizes |-> LoadAnchorIndex(m.seen, z)]
           a == FindAlignment(TurnsOf(m.seen), m.payload, index, m.kind = "batch")
           rejected == Rejected(m.seen, m.payload, a)
           todo == IF rejected THEN <<>> ELSE Stamped(NewRows(m.seen, m.payload, a), m.call)
<1>1. /\ m \in Merge /\ m.pc = "align" /\ calls' = calls /\ turns' = turns
  BY MergeTyped DEF Align, TypeInv
<1>2. CASE OutOfRange(m.seen, a)
  <2>1. Leave(p, "failed")
    BY <1>2, Zenon DEF Align
  <2> QED  BY <1>1, <2>1, LeaveKeepsLock
<1>3. CASE ~ OutOfRange(m.seen, a)
  <2>1. /\ merge' = [merge EXCEPT ![p].at = a, ![p].todo = todo,
                       ![p].pc = IF rejected THEN "check" ELSE WriteNext(todo)]
        /\ holder' = holder
    BY <1>3, Zenon DEF Align
  <2>2. todo = <<>> \/ \A k \in DOMAIN todo :
                         todo[k].batch = m.call /\ todo[k].id = <<m.call, k>>
    BY DEF Stamped
  <2> HIDE DEF a, index, rejected, todo
  <2>3. (IF rejected THEN "check" ELSE WriteNext(todo)) \in {"check", "readAnchors", "write"}
    BY DEF WriteNext
  <2>4. /\ merge'[p].pc \in {"check", "readAnchors", "write"} /\ merge'[p].call = m.call
        /\ merge'[p].todo = todo /\ merge'[p].seen = m.seen
        /\ \A q \in Proc : q # p => merge'[q] = merge[q]
    BY <1>1, <2>1, <2>3 DEF TypeInv, TypeOK, Merge
  <2>5. merge'[p].pc = "write" => todo # <<>>
    BY <1>1, <2>1 DEF TypeInv, TypeOK, Merge, WriteNext
  <2>6. TypeInv'
    BY AlignTyped
  <2>7. todo \in Seq(Row)
    BY <2>4, <2>6, MergeTyped DEF TypeInv, TypeOK, Merge
  <2>8. merge'[p].pc = "write" => AllOwn(p)'
    BY <2>2, <2>4, <2>5, <2>7 DEF AllOwn, Own
  <2>9. Writing(p)
    BY <1>1 DEF Writing
  <2> QED  BY <1>1, <2>1, <2>4, <2>8, <2>9, MoveKeepsLock
<1> QED  BY <1>2, <1>3

\* Those that ingest_single writes again are rows it has read.
LEMMA ResendKeepsLock ==
  ASSUME TypeInv, RefusedInv, LockInv, NEW p \in Proc, ExactResend(p)
  PROVE  LockInv'
<1> DEFINE m == merge[p]
<1>1. /\ m \in Merge /\ m.pc = "align" /\ m.seen \in Seq(Row)
      /\ UNCHANGED <<turns, anchors, epoch, holder, calls, outcome>>
  BY MergeTyped DEF TypeInv, ExactResend
<1>2. PICK w \in 1..(Len(m.seen) - 1) :
        merge' = [merge EXCEPT ![p].pc = "write", ![p].kind = "resend",
             ![p].at = [old |-> w, new |-> 1, n |-> 2],
             ![p].todo = [k \in 1..2 |-> [m.seen[w + k - 1] EXCEPT !.batch = 0]]]
  BY Zenon DEF ExactResend
<1> DEFINE todo == [k \in 1..2 |-> [m.seen[w + k - 1] EXCEPT !.batch = 0]]
<1>3. ASSUME NEW k \in 1..2
      PROVE  todo[k].batch = 0 /\ \E j \in 1..Len(m.seen) : SamePlace(todo[k], m.seen[j])
  <2>1. w + k - 1 \in 1..Len(m.seen)
    BY <1>1, RowsTyped
  <2>2. m.seen[w + k - 1] \in Row
    BY <1>1, <2>1, RowsTyped
  <2>3. todo[k] = [m.seen[w + k - 1] EXCEPT !.batch = 0]
    OBVIOUS
  <2> HIDE DEF todo
  <2>4. todo[k].batch = 0 /\ SamePlace(todo[k], m.seen[w + k - 1])
    BY <2>2, <2>3 DEF Row, SamePlace
  <2> QED  BY <2>1, <2>4
<1>4. Len(todo) = 2
  OBVIOUS
<1> HIDE DEF todo
<1>5. /\ merge'[p].pc = "write" /\ merge'[p].call = m.call /\ merge'[p].todo = todo
      /\ merge'[p].seen = m.seen
      /\ \A q \in Proc : q # p => merge'[q] = merge[q]
  BY <1>1, <1>2 DEF TypeInv, TypeOK, Merge, todo
<1>6. AllOwn(p)'
  BY <1>3, <1>4, <1>5 DEF AllOwn, Own
<1>7. Writing(p)
  BY <1>1 DEF Writing
<1> QED  BY <1>1, <1>5, <1>6, <1>7, MoveKeepsLock

\* Every step on Postgres preserves the invariant.
LEMMA LockInvStep ==
  ASSUME Backend = "postgres", TypeInv, RefusedInv, LockInv, [Next]_vars
  PROVE  LockInv'
<1>1. ASSUME NEW p \in Proc, IngestBatch(p) \/ IngestSingle(p) PROVE LockInv'
  <2>1. PICK kind \in {"batch", "single"}, payload \in Payload \cup SinglePair :
          Begin(p, kind, payload)
    BY <1>1 DEF IngestBatch, IngestSingle
  <2>2. payload \in Seq(Turn)
    BY SinglePairsTyped, ReconcilerAssumption
  <2> QED  BY <2>1, <2>2, BeginKeepsLock
\* Steps past the lock that neither read the turns nor plan to write any.
<1>2. ASSUME NEW p \in Proc, merge[p].pc \notin {"idle", "lock"},
             NEW pc \in {"read", "deleteAnchors", "insertAnchors", "check", "purge"},
             pc = "read" => merge[p].pc = "recheck",
             pc # "read" => Writing(p),
             turns' = turns, calls' = calls, holder' = holder,
             merge'[p].pc = pc, merge'[p].call = merge[p].call, merge'[p].seen = merge[p].seen,
             \A q \in Proc : q # p => merge'[q] = merge[q]
      PROVE  LockInv'
  <2>1. Writing(p)' => Writing(p)
    BY <1>2 DEF Writing
  <2> QED  BY <1>2, <2>1, MoveKeepsLock
<1>3. ASSUME NEW p \in Proc, NEW pc, Goto(p, pc)
      PROVE  /\ merge'[p].pc = pc /\ merge'[p].call = merge[p].call
             /\ merge'[p].seen = merge[p].seen
             /\ \A q \in Proc : q # p => merge'[q] = merge[q]
  BY <1>3 DEF Goto, TypeInv, TypeOK, Merge
<1>4. ASSUME NEW p \in Proc, Recheck(p) PROVE LockInv'
  <2>1. CASE merge[p].epoch = epoch
    <3>1. Goto(p, "read") /\ merge[p].pc = "recheck" /\ UNCHANGED <<turns, calls, holder>>
      BY <1>4, <2>1 DEF Recheck
    <3> QED  BY <1>2, <1>3, <3>1
  <2>2. CASE merge[p].epoch # epoch
    <3>1. Leave(p, "stale") /\ UNCHANGED <<turns, calls>> /\ merge[p].pc = "recheck"
      BY <1>4, <2>2 DEF Recheck
    <3> QED  BY <3>1, LeaveKeepsLock
  <2> QED  BY <2>1, <2>2
<1>5. ASSUME NEW p \in Proc, ReadForAnchors(p) PROVE LockInv'
  <2>1. /\ merge'[p].pc = "deleteAnchors" /\ merge'[p].call = merge[p].call
        /\ merge'[p].seen = merge[p].seen
        /\ \A q \in Proc : q # p => merge'[q] = merge[q]
    BY <1>5 DEF ReadForAnchors, TypeInv, TypeOK, Merge
  <2>2. merge[p].pc = "readAnchors" /\ Writing(p) /\ UNCHANGED <<turns, calls, holder>>
    BY <1>5 DEF ReadForAnchors, Writing
  <2> QED  BY <1>2, <2>1, <2>2
<1>6. ASSUME NEW p \in Proc, DeleteAnchors(p) \/ InsertAnchors(p) \/ RefreshFails(p)
      PROVE  LockInv'
  <2>1. PICK pc \in {"insertAnchors", "check"} : Goto(p, pc)
    BY <1>6 DEF DeleteAnchors, InsertAnchors, RefreshFails
  <2>2. merge[p].pc \notin {"idle", "lock"} /\ Writing(p) /\ UNCHANGED <<turns, calls, holder>>
    BY <1>6 DEF DeleteAnchors, InsertAnchors, RefreshFails, Writing
  <2> QED  BY <1>2, <1>3, <2>1, <2>2
<1>7. ASSUME NEW p \in Proc, CheckEpoch(p) PROVE LockInv'
  <2>1. merge[p].pc \notin {"idle", "lock"} /\ Writing(p) /\ UNCHANGED <<turns, calls>>
    BY <1>7 DEF CheckEpoch, Writing
  <2>2. CASE merge[p].kind = "batch" /\ merge[p].epoch # epoch
    <3>1. Goto(p, "purge") /\ holder' = holder
      BY <1>7, <2>2 DEF CheckEpoch
    <3> QED  BY <1>2, <1>3, <2>1, <3>1
  <2>3. CASE ~ (merge[p].kind = "batch" /\ merge[p].epoch # epoch)
    <3>1. Leave(p, "ok")
      BY <1>7, <2>3 DEF CheckEpoch
    <3> QED  BY <2>1, <3>1, LeaveKeepsLock
  <2> QED  BY <2>2, <2>3
<1>8. ASSUME NEW p \in Proc, Purge(p) PROVE LockInv'
  <2>1. Leave(p, "stale") /\ merge[p].pc = "purge" /\ calls' = calls /\ turns' \subseteq turns
    BY <1>8 DEF Purge
  <2> QED  BY <2>1, LeaveKeepsLock
<1>9. ASSUME NEW p \in Proc, Fail(p) PROVE LockInv'
  <2>1. Leave(p, "failed") /\ merge[p].pc # "idle" /\ UNCHANGED <<turns, calls>>
    BY <1>9 DEF Fail
  <2> QED  BY <2>1, LeaveKeepsLock
<1>10. ASSUME Resurrect \/ UNCHANGED vars PROVE LockInv'
  <2>1. UNCHANGED <<turns, calls, holder, merge>>
    BY <1>10 DEF Resurrect, vars
  <2> QED
    BY <2>1, Unmoved DEF LockInv, LockHeld, SeenStands, Writing, IdsKnown, NoIdsYet, SeenForeign,
                         TodoOwn
<1> QED
  BY <1>1, <1>4, <1>5, <1>6, <1>7, <1>8, <1>9, <1>10,
     AcquireKeepsLock, ReadKeepsLock, AlignKeepsLock, ResendKeepsLock, WriteKeepsLock DEF Next

\* The three invariants together, from the start.
PostgresInv == TypeInv /\ RefusedInv /\ LockInv

LEMMA PostgresInvariant ==
  ASSUME Backend = "postgres"
  PROVE  Spec => []PostgresInv
<1>1. Init => PostgresInv
  <2> SUFFICES ASSUME Init PROVE RefusedInv /\ LockInv
    BY TypeInvInit DEF PostgresInv
  <2>1. \A p \in Proc : merge[p].pc = "idle" /\ ~ Writing(p)
    BY DEF Init, Idle, Writing
  <2>2. RefusedInv
    BY <2>1 DEF Init, RefusedInv, CallsOpen, CallsDistinct, FutureOpen, BatchesKnown,
                OwnRows, NoneYet, RefusedLeavesNothing
  <2>3. LockInv
    BY <2>1 DEF Init, LockInv, LockHeld, SeenStands, IdsKnown, NoIdsYet, SeenForeign, TodoOwn
  <2> QED  BY <2>2, <2>3
<1>2. PostgresInv /\ [Next]_vars => PostgresInv'
  BY TypeInvStep, RefusedInvStep, LockInvStep DEF PostgresInv
<1> QED  BY <1>1, <1>2, PTL DEF Spec

\* On Postgres nobody else changes the table between a call's reading the turns
\* and its end, whatever the number of workers and calls: the row lock of
\* conversation_reconcile is held throughout.
THEOREM PostgresMergesSerialized ==
  ASSUME Backend = "postgres"
  PROVE  Spec => []MergesSerialized
<1>1. PostgresInv => MergesSerialized
  <2> SUFFICES ASSUME PostgresInv, NEW p \in Proc, Writing(p)
               PROVE  Placed({r \in turns : r.batch # merge[p].call}) = Placed(Range(merge[p].seen))
    BY DEF MergesSerialized
  <2> DEFINE place(r) == [id |-> r.id, turn |-> r.turn, key |-> r.key]
             there == {r \in turns : r.batch # merge[p].call}
             read == Range(merge[p].seen)
  <2>1. Undisturbed(p)
    BY DEF PostgresInv, LockInv, SeenStands
  <2>2. \A r, s : SamePlace(r, s) => place(r) = place(s)
    BY DEF SamePlace
  <2>3. \A s : s \in read <=> \E k \in 1..Len(merge[p].seen) : s = merge[p].seen[k]
    <3>1. DOMAIN merge[p].seen = 1..Len(merge[p].seen)
      BY MergeTyped, RowsTyped DEF PostgresInv, TypeInv
    <3> QED  BY <3>1 DEF Range
  <2>4. \A r : r \in there <=> r \in turns /\ r.batch # merge[p].call
    OBVIOUS
  <2> HIDE DEF place, there, read
  <2>5. \A r \in there : \E s \in read : place(r) = place(s)
    BY <2>1, <2>2, <2>3, <2>4 DEF Undisturbed
  <2>6. \A s \in read : \E r \in there : place(r) = place(s)
    BY <2>1, <2>2, <2>3, <2>4 DEF Undisturbed
  <2>7. {place(r) : r \in there} = {place(s) : s \in read}
    BY <2>5, <2>6
  <2>8. Placed(there) = {place(r) : r \in there} /\ Placed(read) = {place(s) : s \in read}
    BY DEF Placed, place
  <2> QED  BY <2>7, <2>8 DEF there, read
<1> QED  BY <1>1, PostgresInvariant, PTL

\* On Postgres the rows of calls that are over keep their turn and their place
\* in every step: save_canonical_turn writes new identifiers or repeats what
\* is there, and delete_canonical_turns_by_batch_id takes the caller's own rows.
THEOREM PostgresMergesOnlyAdd ==
  ASSUME Backend = "postgres"
  PROVE  Spec => MergesOnlyAdd
<1>1. ASSUME PostgresInv, [Next]_vars, NEW r \in turns,
             r.batch = 0 \/ \A p \in Proc : merge[p].call # r.batch
      PROVE  \E s \in turns' : s.id = r.id /\ s.turn = r.turn /\ s.key = r.key
  <2>1. CASE r \in turns'
    BY <2>1
  <2>2. ASSUME NEW p \in Proc, WriteTurn(p), r \notin turns'
        PROVE  \E s \in turns' : s.id = r.id /\ s.turn = r.turn /\ s.key = r.key
    <3> DEFINE todo == merge[p].todo
               row == Head(todo)
    <3>1. merge[p].pc = "write" /\ turns' = {t \in turns : t.id # row.id} \cup {row}
      BY <2>2, Zenon DEF WriteTurn
    <3>2. todo \in Seq(Row) /\ todo # <<>>
      BY <1>1, <3>1, MergeTyped DEF PostgresInv, TypeInv, Pending
    <3>3. 1 \in 1..Len(todo) /\ row = todo[1]
      BY <3>2
    <3>4. Own(p, row)
      BY <1>1, <3>1, <3>3 DEF PostgresInv, LockInv, TodoOwn, AllOwn
    <3> HIDE DEF row
    <3>5. r.id = row.id
      BY <2>2, <3>1
    <3>6. r.batch # merge[p].call
      <4>1. merge[p].call # 0
        BY <1>1, <3>1, IdsTyped DEF PostgresInv
      <4> QED  BY <1>1, <4>1
    <3>7. SamePlace(r, row)
      BY <1>1, <3>1, <3>4, <3>5, <3>6, WriteAddsOrRepeats DEF PostgresInv
    <3> QED  BY <3>1, <3>7 DEF SamePlace
  <2>3. ASSUME NEW p \in Proc, Purge(p) PROVE r \in turns'
    <3>1. merge[p].pc = "purge" /\ turns' = {t \in turns : t.batch # merge[p].call}
      BY <2>3, Zenon DEF Purge
    <3>2. merge[p].call # 0
      BY <1>1, <3>1, IdsTyped DEF PostgresInv
    <3> QED  BY <1>1, <3>1, <3>2
  <2>4. ASSUME ~ \E p \in Proc : WriteTurn(p) \/ Purge(p) PROVE turns' = turns
    BY <1>1, <2>4 DEF Next, vars, IngestBatch, IngestSingle, Begin, AcquireLock, Recheck, ReadTurns,
       Align, ExactResend, ReadForAnchors, DeleteAnchors, InsertAnchors, RefreshFails, CheckEpoch,
       Fail, Resurrect
  <2> QED  BY <2>1, <2>2, <2>3, <2>4
<1>2. PostgresInv /\ [Next]_vars =>
        [\A r \in turns : (r.batch = 0 \/ \A p \in Proc : merge[p].call # r.batch)
           => \E s \in turns' : s.id = r.id /\ s.turn = r.turn /\ s.key = r.key]_vars
  BY <1>1
<1> QED  BY <1>2, PostgresInvariant, PTL DEF Spec, MergesOnlyAdd


----------------------------------------------------------------------------
(* Lists that grow.                                                        *)

\* If neighbours are g apart, any two elements are.
LEMMA GrowsThroughout ==
  ASSUME NEW n \in Nat, NEW f, \A i \in 1..n : f[i] \in Int, NEW g \in Nat,
         \A i \in 1..n : i < n => f[i] + g <= f[i + 1]
  PROVE  \A i, j \in 1..n : i < j => f[i] + g <= f[j]
<1> SUFFICES ASSUME NEW i \in 1..n PROVE \A j \in 1..n : i < j => f[i] + g <= f[j]
  OBVIOUS
<1> DEFINE S == {j \in 1..n : i < j /\ ~ (f[i] + g <= f[j])}
<1> SUFFICES ASSUME S # {} PROVE FALSE
  OBVIOUS
<1>1. PICK j \in S : \A k \in S : j <= k
  <2>1. S \in SUBSET Nat
    OBVIOUS
  <2> HIDE DEF S
  <2> QED  BY <2>1, LeastExists
<1>2. j \in 1..n /\ i < j /\ ~ (f[i] + g <= f[j])
  OBVIOUS
<1>3. j # i + 1
  BY <1>2
<1>4. j - 1 \in 1..n /\ i < j - 1 /\ j - 1 < n /\ (j - 1) + 1 = j
  BY <1>2, <1>3
<1>5. j - 1 \notin S
  BY <1>1, <1>4
<1>6. f[i] + g <= f[j - 1]
  BY <1>4, <1>5
<1>7. f[j - 1] + g <= f[j]
  BY <1>4
<1> QED  BY <1>2, <1>4, <1>6, <1>7

\* A list with p of the new rows put in after the first b, and the others after
\* the first l.
Merged(rows, new, b, l, p) ==
  [i \in 1..(Len(rows) + Len(new)) |->
     IF i <= b THEN rows[i]
     ELSE IF i <= b + p THEN new[i - b]
     ELSE IF i <= l + p THEN rows[i - p]
     ELSE IF i <= l + Len(new) THEN new[i - l]
     ELSE rows[i - Len(new)]]

\* Where the rows of the two lists are in it.
OldAt(new, b, l, p, k) == IF k <= b THEN k ELSE IF k <= l THEN k + p ELSE k + Len(new)
NewAt(b, l, p, j) == IF j <= p THEN b + j ELSE l + j

\* They are where they should be.
LEMMA MergedHolds ==
  ASSUME NEW rows, NEW new, Len(rows) \in Nat, Len(new) \in Nat,
         NEW b \in Nat, NEW l \in Nat, NEW p \in Nat, b <= l, l <= Len(rows), p <= Len(new)
  PROVE  /\ \A k \in 1..Len(rows) :
              /\ OldAt(new, b, l, p, k) \in 1..(Len(rows) + Len(new))
              /\ Merged(rows, new, b, l, p)[OldAt(new, b, l, p, k)] = rows[k]
         /\ \A j \in 1..Len(new) :
              /\ NewAt(b, l, p, j) \in 1..(Len(rows) + Len(new))
              /\ Merged(rows, new, b, l, p)[NewAt(b, l, p, j)] = new[j]
         /\ \A k \in 1..Len(rows), j \in 1..Len(new) : OldAt(new, b, l, p, k) # NewAt(b, l, p, j)
<1> DEFINE m == Len(rows)
           q == Len(new)
<1>1. m \in Nat /\ q \in Nat /\ m = Len(rows) /\ q = Len(new)
  OBVIOUS
<1> HIDE DEF m, q
<1>2. ASSUME NEW k \in 1..m
      PROVE  /\ OldAt(new, b, l, p, k) \in 1..(m + q)
             /\ Merged(rows, new, b, l, p)[OldAt(new, b, l, p, k)] = rows[k]
  <2>1. CASE k <= b
    BY <1>1, <2>1 DEF OldAt, Merged
  <2>2. CASE k > b /\ k <= l
    <3>1. OldAt(new, b, l, p, k) = k + p /\ k + p \in 1..(m + q) /\ ~ (k + p <= b)
          /\ ~ (k + p <= b + p) /\ k + p <= l + p /\ k + p - p = k
      BY <1>1, <2>2 DEF OldAt
    <3> QED  BY <1>1, <3>1 DEF Merged
  <2>3. CASE k > l
    <3>1. OldAt(new, b, l, p, k) = k + q /\ k + q \in 1..(m + q) /\ ~ (k + q <= b)
          /\ ~ (k + q <= b + p) /\ ~ (k + q <= l + p) /\ ~ (k + q <= l + q) /\ k + q - q = k
      BY <1>1, <2>3 DEF OldAt
    <3> QED  BY <1>1, <3>1 DEF Merged
  <2> QED  BY <1>1, <2>1, <2>2, <2>3
<1>3. ASSUME NEW j \in 1..q
      PROVE  /\ NewAt(b, l, p, j) \in 1..(m + q)
             /\ Merged(rows, new, b, l, p)[NewAt(b, l, p, j)] = new[j]
  <2>1. CASE j <= p
    <3>1. NewAt(b, l, p, j) = b + j /\ b + j \in 1..(m + q) /\ ~ (b + j <= b) /\ b + j <= b + p
          /\ b + j - b = j
      BY <1>1, <2>1 DEF NewAt
    <3> QED  BY <1>1, <3>1 DEF Merged
  <2>2. CASE j > p
    <3>1. NewAt(b, l, p, j) = l + j /\ l + j \in 1..(m + q) /\ ~ (l + j <= b) /\ ~ (l + j <= b + p)
          /\ ~ (l + j <= l + p) /\ l + j <= l + q /\ l + j - l = j
      BY <1>1, <2>2 DEF NewAt
    <3> QED  BY <1>1, <3>1 DEF Merged
  <2> QED  BY <1>1, <2>1, <2>2
<1>4. \A k \in 1..m, j \in 1..q : OldAt(new, b, l, p, k) # NewAt(b, l, p, j)
  BY <1>1 DEF OldAt, NewAt
<1> QED  BY <1>1, <1>2, <1>3, <1>4

\* New rows, p of them after the first b rows and the others after the first l,
\* that hold the turns of I which the rows in between do not, and lie g apart.
GoesIn(rows, I, new, b, l, p, g) ==
  /\ Len(new) \in Nat /\ b \in Nat /\ l \in Nat /\ p \in Nat
  /\ b <= l /\ l <= Len(rows) /\ p <= Len(new) /\ (p > 0 => b < l)
  /\ Len(new) = Len(I) - (l - b)
  /\ \A j \in 1..Len(new) :
       /\ new[j].key \in Int
       /\ new[j].turn = I[IF j <= p THEN j ELSE j + (l - b)]
       /\ j < Len(new) /\ j # p => new[j].key + g <= new[j + 1].key
  /\ p > 0 => (b > 0 => rows[b].key + g <= new[1].key) /\ new[p].key + g <= rows[b + 1].key
  /\ Len(new) > p => /\ l > 0 => rows[l].key + g <= new[p + 1].key
                     /\ l < Len(rows) => new[Len(new)].key + g <= rows[l + 1].key

\* It grows if both lists do and the new rows lie between those they are put
\* between.
LEMMA MergedGrows ==
  ASSUME NEW rows, NEW new, NEW I, NEW b, NEW l, NEW p, NEW g \in Nat, Len(rows) \in Nat,
         \A k \in 1..Len(rows) : rows[k].key \in Int,
         \A k \in 1..Len(rows) : k < Len(rows) => rows[k].key + g <= rows[k + 1].key,
         GoesIn(rows, I, new, b, l, p, g)
  PROVE  \A i, j \in 1..(Len(rows) + Len(new)) :
           /\ Merged(rows, new, b, l, p)[i].key \in Int
           /\ i < j => Merged(rows, new, b, l, p)[i].key + g <= Merged(rows, new, b, l, p)[j].key
<1> DEFINE m == Len(rows)
           q == Len(new)
           M == Merged(rows, new, b, l, p)
<1>0. /\ Len(new) \in Nat /\ b \in Nat /\ l \in Nat /\ p \in Nat /\ b <= l /\ l <= Len(rows)
      /\ p <= Len(new) /\ (p > 0 => b < l)
      /\ p > 0 => (b > 0 => rows[b].key + g <= new[1].key) /\ new[p].key + g <= rows[b + 1].key
  BY DEF GoesIn
<1>1. m \in Nat /\ q \in Nat /\ m = Len(rows) /\ q = Len(new)
  BY <1>0
<1>2. \A i \in 1..(m + q) :
        M[i] = IF i <= b THEN rows[i]
               ELSE IF i <= b + p THEN new[i - b]
               ELSE IF i <= l + p THEN rows[i - p]
               ELSE IF i <= l + q THEN new[i - l]
               ELSE rows[i - q]
  BY DEF Merged
<1>3. /\ \A k \in 1..m : rows[k].key \in Int /\ (k < m => rows[k].key + g <= rows[k + 1].key)
      /\ \A j \in 1..q : new[j].key \in Int /\ (j < q /\ j # p => new[j].key + g <= new[j + 1].key)
  BY DEF GoesIn
<1>4. /\ q > p /\ l > 0 => rows[l].key + g <= new[p + 1].key
      /\ q > p /\ l < m => new[q].key + g <= rows[l + 1].key
  BY DEF GoesIn
<1> HIDE DEF M, m, q
<1>5. ASSUME NEW i \in 1..(m + q) PROVE M[i].key \in Int
  <2>1. CASE i <= b
    BY <1>0, <1>1, <1>2, <1>3, <2>1
  <2>2. CASE i > b /\ i <= b + p
    <3>1. i - b \in 1..q /\ M[i] = new[i - b]
      BY <1>0, <1>1, <1>2, <2>2
    <3> QED  BY <1>3, <3>1
  <2>3. CASE i > b + p /\ i <= l + p
    <3>1. i - p \in 1..m /\ M[i] = rows[i - p]
      BY <1>0, <1>1, <1>2, <2>3
    <3> QED  BY <1>3, <3>1
  <2>4. CASE i > l + p /\ i <= l + q
    <3>1. i - l \in 1..q /\ M[i] = new[i - l]
      BY <1>0, <1>1, <1>2, <2>4
    <3> QED  BY <1>3, <3>1
  <2>5. CASE i > l + q
    <3>1. i - q \in 1..m /\ ~ (i <= b) /\ ~ (i <= b + p) /\ ~ (i <= l + p) /\ ~ (i <= l + q)
      BY <1>0, <1>1, <2>5
    <3>2. M[i] = rows[i - q]
      BY <1>0, <1>2, <3>1
    <3> QED  BY <1>3, <3>1, <3>2
  <2> QED  BY <1>0, <1>1, <2>1, <2>2, <2>3, <2>4, <2>5
<1>6. ASSUME NEW i \in 1..(m + q), i < m + q PROVE M[i].key + g <= M[i + 1].key
  <2>0. i + 1 \in 1..(m + q)
    BY <1>0, <1>1, <1>6
  <2>1. CASE i < b
    <3>1. M[i] = rows[i] /\ M[i + 1] = rows[i + 1] /\ i \in 1..m /\ i < m
      BY <1>0, <1>1, <1>2, <2>0, <2>1
    <3> QED  BY <1>3, <3>1
  <2>2. CASE i = b /\ p > 0
    <3>1. M[i] = rows[b] /\ M[i + 1] = new[1] /\ b > 0
      BY <1>0, <1>1, <1>2, <2>0, <2>2
    <3> QED  BY <1>0, <2>2, <3>1
  <2>3. CASE i > b /\ i < b + p
    <3>1. M[i] = new[i - b] /\ M[i + 1] = new[(i - b) + 1] /\ i - b \in 1..q /\ i - b < q /\ i - b # p
      BY <1>0, <1>1, <1>2, <2>0, <2>3
    <3> QED  BY <1>3, <3>1
  <2>4. CASE i = b + p /\ p > 0
    <3>1. M[i] = new[p] /\ M[i + 1] = rows[b + 1]
      BY <1>0, <1>1, <1>2, <2>0, <2>4
    <3> QED  BY <1>0, <2>4, <3>1
  <2>5. CASE i > p /\ i >= b + p /\ i < l + p /\ (p > 0 => i > b + p)
    <3>1. i - p \in 1..m /\ i - p < m
      BY <1>0, <1>1, <2>5
    <3>2. M[i] = rows[i - p]
      <4>1. CASE p = 0
        BY <1>0, <1>1, <1>2, <2>5, <4>1
      <4>2. CASE p > 0
        BY <1>0, <1>1, <1>2, <2>5, <4>2
      <4> QED  BY <1>0, <4>1, <4>2
    <3>3. M[i + 1] = rows[(i - p) + 1]
      <4>1. (i + 1) - p = (i - p) + 1 /\ ~ (i + 1 <= b) /\ ~ (i + 1 <= b + p) /\ i + 1 <= l + p
        BY <1>0, <1>1, <2>5
      <4> QED  BY <1>2, <2>0, <4>1
    <3> QED  BY <1>3, <3>1, <3>2, <3>3
  <2>6. CASE i = l + p /\ q > p
    <3>1. l > 0
      BY <1>0, <2>6
    <3>2. M[i] = rows[l]
      <4>1. CASE p = 0
        <5>1. i = l /\ i - p = l
          BY <1>0, <2>6, <4>1
        <5> QED  BY <1>0, <1>1, <1>2, <4>1, <5>1
      <4>2. CASE p > 0
        <5>1. i - p = l /\ ~ (i <= b) /\ ~ (i <= b + p) /\ i <= l + p
          BY <1>0, <2>6, <4>2
        <5> QED  BY <1>2, <5>1
      <4> QED  BY <1>0, <4>1, <4>2
    <3>3. M[i + 1] = new[p + 1]
      <4>1. (i + 1) - l = p + 1 /\ ~ (i + 1 <= b) /\ ~ (i + 1 <= b + p) /\ ~ (i + 1 <= l + p)
            /\ i + 1 <= l + q
        BY <1>0, <1>1, <2>6
      <4> QED  BY <1>0, <1>2, <2>0, <4>1
    <3> QED  BY <1>4, <2>6, <3>1, <3>2, <3>3
  <2>7. CASE i > l + p /\ i < l + q
    <3>1. /\ i - l \in 1..q /\ i - l < q /\ i - l # p /\ (i + 1) - l = (i - l) + 1
          /\ ~ (i <= b) /\ ~ (i <= b + p) /\ ~ (i <= l + p) /\ i <= l + q
          /\ ~ (i + 1 <= b) /\ ~ (i + 1 <= b + p) /\ ~ (i + 1 <= l + p) /\ i + 1 <= l + q
      BY <1>0, <1>1, <2>7
    <3>2. M[i] = new[i - l]
      BY <1>0, <1>2, <3>1
    <3>3. M[i + 1] = new[(i - l) + 1]
      BY <1>0, <1>2, <2>0, <3>1
    <3> QED  BY <1>3, <3>1, <3>2, <3>3
  <2>8. CASE i = l + q /\ q > p
    <3>1. l < m
      BY <1>0, <1>1, <1>6, <2>8
    <3>2. M[i] = new[q]
      <4>1. i - l = q /\ ~ (i <= b) /\ ~ (i <= b + p) /\ ~ (i <= l + p) /\ i <= l + q
        BY <1>0, <1>1, <2>8
      <4> QED  BY <1>0, <1>2, <4>1
    <3>3. M[i + 1] = rows[l + 1]
      <4>1. (i + 1) - q = l + 1 /\ ~ (i + 1 <= b) /\ ~ (i + 1 <= b + p) /\ ~ (i + 1 <= l + p)
            /\ ~ (i + 1 <= l + q)
        BY <1>0, <1>1, <2>8, SMTT(30)
      <4> QED  BY <1>0, <1>2, <2>0, <4>1
    <3> QED  BY <1>4, <2>8, <3>1, <3>2, <3>3
  <2>9. CASE i >= l + q /\ (i = l + q => q = p)
    <3>1. i - q \in 1..m /\ i - q < m
      BY <1>0, <1>1, <1>6, <2>9
    <3>2. M[i] = rows[i - q]
      <4>1. CASE i > l + q
        <5>1. ~ (i <= b) /\ ~ (i <= b + p) /\ ~ (i <= l + p) /\ ~ (i <= l + q)
          BY <1>0, <1>1, <4>1
        <5> QED  BY <1>0, <1>2, <5>1
      <4>2. CASE i = l + q /\ q = p /\ p > 0
        BY <1>0, <1>1, <1>2, <4>2
      <4>3. CASE i = l + q /\ q = p /\ p = 0
        <5>1. i = l /\ i - q = i /\ i - p = i
          BY <1>0, <1>1, <4>3
        <5> QED  BY <1>0, <1>1, <1>2, <5>1, <4>3
      <4>4. i > l + q \/ (i = l + q /\ q = p /\ p > 0) \/ (i = l + q /\ q = p /\ p = 0)
        <5>1. i \in Nat /\ q \in Nat /\ l \in Nat /\ p \in Nat
          BY <1>0, <1>1
        <5>2. i > l + q \/ i = l + q
          BY <1>0, <2>9, <5>1
        <5>3. p > 0 \/ p = 0
          BY <5>1
        <5> QED  BY <1>0, <2>9, <5>2, <5>3
      <4> QED  BY <4>1, <4>2, <4>3, <4>4
    <3>3. M[i + 1] = rows[(i - q) + 1]
      <4>1. (i + 1) - q = (i - q) + 1 /\ ~ (i + 1 <= b) /\ ~ (i + 1 <= b + p) /\ ~ (i + 1 <= l + p)
            /\ ~ (i + 1 <= l + q)
        BY <1>0, <1>1, <2>9, SMTT(30)
      <4> QED  BY <1>0, <1>2, <2>0, <4>1
    <3> QED  BY <1>3, <3>1, <3>2, <3>3
  <2>10. \/ i < b \/ (i = b /\ p > 0) \/ (i > b /\ i < b + p) \/ (i = b + p /\ p > 0)
         \/ (i > p /\ i >= b + p /\ i < l + p /\ (p > 0 => i > b + p))
         \/ (i = l + p /\ q > p) \/ (i > l + p /\ i < l + q) \/ (i = l + q /\ q > p)
         \/ (i >= l + q /\ (i = l + q => q = p))
    BY <1>0, <1>1, <1>6
  <2> QED  BY <2>1, <2>2, <2>3, <2>4, <2>5, <2>6, <2>7, <2>8, <2>9, <2>10
<1> DEFINE f == [i \in 1..(m + q) |-> M[i].key]
           n == m + q
<1>7. n \in Nat /\ \A i \in 1..n : f[i] \in Int /\ f[i] = M[i].key
  BY <1>0, <1>1, <1>5
<1>8. \A i \in 1..n : i < n => f[i] + g <= f[i + 1]
  <2> SUFFICES ASSUME NEW i \in 1..n, i < n PROVE f[i] + g <= f[i + 1]
    OBVIOUS
  <2>1. i + 1 \in 1..n
    BY <1>0, <1>1
  <2> QED  BY <1>6, <1>7, <2>1
<1>9. n = m + q
  OBVIOUS
<1> HIDE DEF f, n
<1>10. \A i, j \in 1..n : i < j => f[i] + g <= f[j]
  BY <1>7, <1>8, GrowsThroughout
<1> QED  BY <1>0, <1>1, <1>5, <1>7, <1>9, <1>10 DEF M

----------------------------------------------------------------------------
(* The sort keys of new rows.                                              *)

\* n rows with the step the code takes lie g apart between left and right.
StepFits(left, right, n, g) ==
  g <= Step(left, right, n) /\ left + Step(left, right, n) * n + g <= right

\* A gap wider than n least steps has room for n rows.
LEMMA WideGapFits ==
  ASSUME NEW left \in Int, NEW right \in Int, NEW n \in Nat \ {0}, right - left > MinStep * n
  PROVE  StepFits(left, right, n, 1)
<1> DEFINE gap == right - left
           even == gap \div (n + 1)
           step == Step(left, right, n)
<1>1. gap \in Int /\ MinStep \in Nat \ {0} /\ n + 1 \in Nat \ {0} /\ gap > MinStep * n
  BY AlignmentAssumption
<1>2. even \in Int /\ even * (n + 1) <= gap
  BY <1>1
<1>3. step = IF even > MinStep THEN even ELSE MinStep
  BY DEF Step
<1>4. gap = right - left
  OBVIOUS
<1> HIDE DEF gap, even, step
<1>5. step \in Nat \ {0} /\ step * n + 1 <= gap
  <2>1. CASE even > MinStep
    <3>1. step = even /\ even \in Nat \ {0}
      BY <1>1, <1>2, <1>3, <2>1
    <3>2. even * (n + 1) = even * n + even /\ even * n \in Int
      BY <1>2
    <3> QED  BY <1>1, <1>2, <3>1, <3>2
  <2>2. CASE ~ (even > MinStep)
    <3>1. step = MinStep /\ MinStep * n \in Int
      BY <1>1, <1>3, <2>2
    <3> QED  BY <1>1, <3>1
  <2> QED  BY <2>1, <2>2
<1>6. step * n \in Int
  BY <1>5
<1>7. 1 <= step /\ left + step * n + 1 <= right
  BY <1>4, <1>5, <1>6
<1> QED  BY <1>7 DEF StepFits, step

\* A gap of n + 1 times g, at least the least step, is divided into gaps of g.
LEMMA DividedGapFits ==
  ASSUME NEW left \in Int, NEW right \in Int, NEW n \in Nat \ {0}, NEW g \in Nat, MinStep <= g,
         (n + 1) * g <= right - left
  PROVE  StepFits(left, right, n, g)
<1> DEFINE gap == right - left
           even == gap \div (n + 1)
           step == Step(left, right, n)
<1>1. gap \in Int /\ MinStep \in Nat \ {0} /\ n + 1 \in Nat \ {0} /\ (n + 1) * g <= gap
  BY AlignmentAssumption
<1>2. even \in Int /\ even * (n + 1) <= gap /\ gap < (even + 1) * (n + 1)
  BY <1>1
<1>3. step = IF even > MinStep THEN even ELSE MinStep
  BY DEF Step
<1>4. gap = right - left
  OBVIOUS
<1> HIDE DEF gap, even, step
<1>5. g <= even
  <2> SUFFICES ASSUME even + 1 <= g PROVE FALSE
    BY <1>2
  <2>1. (even + 1) * (n + 1) <= g * (n + 1)
    <3>1. \A x, y \in Int, z \in Nat : x <= y => x * z <= y * z
      OBVIOUS
    <3> QED  BY <1>1, <1>2, <3>1
  <2>2. g * (n + 1) = (n + 1) * g /\ g * (n + 1) \in Int /\ (even + 1) * (n + 1) \in Int
    BY <1>2
  <2> QED  BY <1>1, <1>2, <2>1, <2>2
<1>6. step = even
  BY <1>1, <1>2, <1>3, <1>5
<1>7. even * (n + 1) = even * n + even /\ even * n \in Int
  BY <1>2
<1>8. g <= step /\ left + step * n + g <= right
  BY <1>1, <1>2, <1>4, <1>5, <1>6, <1>7
<1> QED  BY <1>8 DEF StepFits, step

\* What n keys between two others have to do: lie g apart and g away from them.
LEMMA KeysBetweenLie ==
  ASSUME NEW left \in Int, NEW right \in Int, NEW n \in Nat \ {0}, NEW g \in Nat,
         StepFits(left, right, n, g)
  PROVE  /\ \A k \in 1..n : k < n =>
              KeysBetween(left, right, n)[k] + g <= KeysBetween(left, right, n)[k + 1]
         /\ left + g <= KeysBetween(left, right, n)[1]
         /\ KeysBetween(left, right, n)[n] + g <= right
<1> DEFINE s == Step(left, right, n)
           keys == KeysBetween(left, right, n)
<1>1. s \in Int
  BY AlignmentAssumption DEF Step
<1>2. g <= s /\ left + s * n + g <= right
  BY DEF StepFits
<1>3. \A k \in 1..n : keys[k] = left + s * k
  BY DEF KeysBetween
<1> HIDE DEF s, keys
<1>4. ASSUME NEW k \in 1..n, k < n PROVE keys[k] + g <= keys[k + 1]
  <2>1. k + 1 \in 1..n /\ s * (k + 1) = s * k + s /\ s * k \in Int
    BY <1>1, <1>4
  <2> QED  BY <1>1, <1>2, <1>3, <2>1
<1>5. left + g <= keys[1]
  <2>1. 1 \in 1..n /\ s * 1 = s
    BY <1>1
  <2> QED  BY <1>1, <1>2, <1>3, <2>1
<1>6. keys[n] + g <= right
  <2>1. n \in 1..n
    OBVIOUS
  <2> QED  BY <1>2, <1>3, <2>1
<1> QED  BY <1>4, <1>5, <1>6 DEF keys

\* The same for keys before the first row and after the last one.
LEMMA KeysOutsideLie ==
  ASSUME NEW edge \in Int, NEW n \in Nat \ {0}, NEW g \in Nat, g <= KeyGap
  PROVE  /\ \A k \in 1..n : k < n =>
              /\ KeysBefore(edge, n)[k] + g <= KeysBefore(edge, n)[k + 1]
              /\ KeysAfter(edge, n)[k] + g <= KeysAfter(edge, n)[k + 1]
         /\ KeysBefore(edge, n)[n] + g <= edge
         /\ edge + g <= KeysAfter(edge, n)[1]
<1>1. KeyGap \in Nat
  BY AlignmentAssumption
<1>2. ASSUME NEW k \in 1..n
      PROVE  /\ KeysBefore(edge, n)[k] = edge - KeyGap * (n + 1 - k)
             /\ KeysAfter(edge, n)[k] = edge + KeyGap * k
  BY DEF KeysBefore, KeysAfter
<1>3. ASSUME NEW k \in 1..n, k < n
      PROVE  /\ KeysBefore(edge, n)[k] + g <= KeysBefore(edge, n)[k + 1]
             /\ KeysAfter(edge, n)[k] + g <= KeysAfter(edge, n)[k + 1]
  <2>1. k + 1 \in 1..n
    BY <1>3
  <2>2. KeyGap * (n + 1 - k) = KeyGap * (n + 1 - (k + 1)) + KeyGap
        /\ KeyGap * (n + 1 - (k + 1)) \in Int
    BY <1>1
  <2>3. KeyGap * (k + 1) = KeyGap * k + KeyGap /\ KeyGap * k \in Int
    BY <1>1
  <2> QED  BY <1>1, <1>2, <2>1, <2>2, <2>3
<1>4. KeysBefore(edge, n)[n] + g <= edge
  <2>1. n \in 1..n /\ KeyGap * (n + 1 - n) = KeyGap
    BY <1>1
  <2> QED  BY <1>1, <1>2, <2>1
<1>5. edge + g <= KeysAfter(edge, n)[1]
  <2>1. 1 \in 1..n /\ KeyGap * 1 = KeyGap
    BY <1>1
  <2> QED  BY <1>1, <1>2, <2>1
<1> QED  BY <1>3, <1>4, <1>5

----------------------------------------------------------------------------
(* Where the new rows go.                                                  *)

\* The rows that precede the overlap, those up to its end, and the incoming
\* turns that precede and follow it.
RowsBefore(rows, a) == IF a = NoAlignment THEN Len(rows) ELSE a.old - 1
RowsUpTo(rows, a) == IF a = NoAlignment THEN Len(rows) ELSE a.old + a.n - 1
TurnsBefore(a) == IF a = NoAlignment THEN 0 ELSE a.new - 1
TurnsAfter(I, a) == Len(I) - (a.new + a.n - 1)

\* The gaps the new rows are put in have room for them, g apart.
GapsFit(rows, I, a, g) ==
  a # NoAlignment =>
    /\ a.old > 1 /\ a.new > 1
         => StepFits(rows[a.old - 1].key, rows[a.old].key, a.new - 1, g)
    /\ a.old + a.n - 1 < Len(rows) /\ TurnsAfter(I, a) > 0
         => StepFits(rows[a.old + a.n - 1].key, rows[a.old + a.n].key, TurnsAfter(I, a), g)

\* What Keyed yields.
LEMMA KeyedHolds ==
  ASSUME NEW s \in Seq(Turn), NEW keys
  PROVE  /\ Len(Keyed(s, keys)) = Len(s)
         /\ \A k \in 1..Len(s) : Keyed(s, keys)[k].turn = s[k] /\ Keyed(s, keys)[k].key = keys[k]
BY DEF Keyed

\* A payload without overlap is appended.
LEMMA AppendGoesIn ==
  ASSUME NEW rows \in Seq(Row), NEW I \in Seq(Turn), NEW g \in Nat, g <= KeyGap
  PROVE  GoesIn(rows, I, AppendAll(rows, I), Len(rows), Len(rows), 0, g)
<1> DEFINE last == IF rows = <<>> THEN 0 ELSE Max({rows[k].key : k \in DOMAIN rows})
           n == Len(I)
           m == Len(rows)
           new == AppendAll(rows, I)
<1>1. n \in Nat /\ m \in Nat /\ n = Len(I) /\ m = Len(rows)
      /\ \A k \in 1..m : rows[k].key \in Int
  BY RowsTyped
<1>2. last \in Int /\ \A k \in 1..m : rows[k].key <= last
  <2>1. CASE rows = <<>>
    BY <2>1
  <2>2. CASE rows # <<>>
    <3> DEFINE f == [k \in 1..m |-> rows[k].key]
    <3>1. m > 0 /\ \A k \in 1..m : f[k] \in Int /\ f[k] = rows[k].key
      BY <1>1, <2>2
    <3>2. {f[k] : k \in 1..m} = {rows[k].key : k \in DOMAIN rows}
      BY <1>1
    <3> HIDE DEF f
    <3>3. Max({f[k] : k \in 1..m}) \in Int /\ \A k \in 1..m : f[k] <= Max({f[i] : i \in 1..m})
      BY <1>1, <3>1, MaxOfList
    <3>4. last = Max({f[k] : k \in 1..m})
      BY <2>2, <3>2
    <3> HIDE DEF last
    <3> QED  BY <3>1, <3>3, <3>4
  <2> QED  BY <2>1, <2>2
<1>3. new = Keyed(I, KeysAfter(last, n))
  BY Zenon DEF AppendAll
<1> HIDE DEF last, n, m, new
<1>4. Len(new) = n /\ \A k \in 1..n : new[k].turn = I[k] /\ new[k].key = KeysAfter(last, n)[k]
  BY <1>1, <1>3, KeyedHolds
<1>5. \A k \in 1..n : KeysAfter(last, n)[k] \in Int
  BY <1>1, <1>2, KeysTyped
<1>6. n > 0 => /\ \A k \in 1..n : k < n => KeysAfter(last, n)[k] + g <= KeysAfter(last, n)[k + 1]
               /\ last + g <= KeysAfter(last, n)[1]
  <2> SUFFICES ASSUME n > 0
               PROVE  /\ \A k \in 1..n : k < n =>
                           KeysAfter(last, n)[k] + g <= KeysAfter(last, n)[k + 1]
                      /\ last + g <= KeysAfter(last, n)[1]
    OBVIOUS
  <2>1. n \in Nat \ {0} /\ last \in Int
    BY <1>1, <1>2
  <2> QED  BY <2>1, KeysOutsideLie
<1>7. ASSUME NEW j \in 1..n PROVE j < n => new[j].key + g <= new[j + 1].key
  <2>1. j < n => j + 1 \in 1..n
    BY <1>1
  <2> QED  BY <1>1, <1>4, <1>6, <2>1
<1>8. n > 0 /\ m > 0 => rows[m].key + g <= new[1].key
  <2> SUFFICES ASSUME n > 0, m > 0 PROVE rows[m].key + g <= new[1].key
    OBVIOUS
  <2>1. 1 \in 1..n /\ m \in 1..m
    BY <1>1
  <2>2. rows[m].key <= last /\ new[1].key = KeysAfter(last, n)[1] /\ last + g <= KeysAfter(last, n)[1]
    BY <1>2, <1>4, <1>6, <2>1
  <2>3. KeysAfter(last, n)[1] \in Int /\ rows[m].key \in Int
    BY <1>1, <1>5, <2>1
  <2> QED  BY <1>2, <2>2, <2>3
<1> DEFINE Goes == GoesIn(rows, I, new, m, m, 0, g)
<1>9. Goes
  BY <1>1, <1>4, <1>5, <1>7, <1>8 DEF GoesIn
<1> QED  BY <1>9 DEF n, m, new

\* What precedes the overlap, with its keys.
PrefixStands(rows, I, a, new, p, g) ==
  /\ p \in Nat /\ Len(new) = p
  /\ \A j \in 1..p : /\ new[j].key \in Int /\ new[j].turn = I[j]
                     /\ j < p => new[j].key + g <= new[j + 1].key
  /\ p > 0 => /\ a.old > 1 => rows[a.old - 1].key + g <= new[1].key
              /\ new[p].key + g <= rows[a.old].key
LEMMA PrefixLies ==
  ASSUME NEW rows \in Seq(Row), NEW I \in Seq(Turn), NEW a, NEW g \in Nat, g <= KeyGap,
         a \in Alignment, a.old >= 1, a.new >= 1, a.n >= 1, a.new + a.n - 1 <= Len(I),
         a.old + a.n - 1 <= Len(rows), a # NoAlignment, GapsFit(rows, I, a, g),
         NEW new, new = PrefixRows(rows, I, a), NEW p, p = a.new - 1
  PROVE  PrefixStands(rows, I, a, new, p, g)
<1> DEFINE s == SubSeq(I, 1, p)
           right == rows[a.old].key
           left == rows[a.old - 1].key
           keys == IF a.old = 1 THEN KeysBefore(right, p) ELSE KeysBetween(left, right, p)
<1>1. /\ p \in Nat /\ p <= Len(I) /\ Len(I) \in Nat /\ Len(rows) \in Nat
      /\ a.old \in Nat /\ a.old \in 1..Len(rows) /\ (a.old > 1 => a.old - 1 \in 1..Len(rows))
  BY RowsTyped DEF Alignment
<1>2. s \in Seq(Turn) /\ Len(s) = p /\ \A j \in 1..p : s[j] = I[j]
  BY <1>1
<1>3. right \in Int /\ (a.old > 1 => left \in Int)
  BY <1>1, RowsTyped
<1>4. new = Keyed(s, keys)
  BY <1>2 DEF PrefixRows
<1>5. a.old > 1 /\ p > 0 => StepFits(left, right, p, g)
  BY <1>1 DEF GapsFit, Alignment
<1>12. right = rows[a.old].key /\ left = rows[a.old - 1].key
  OBVIOUS
<1> HIDE DEF s, right, left
<1>6. a.old = 1 => keys = KeysBefore(right, p)
  OBVIOUS
<1>7. a.old > 1 => keys = KeysBetween(left, right, p)
  BY <1>1
<1> HIDE DEF keys
<1>8. \A j \in 1..p : keys[j] \in Int
  <2>1. CASE a.old = 1
    BY <1>1, <1>3, <1>6, <2>1, KeysTyped
  <2>2. CASE a.old > 1
    BY <1>1, <1>3, <1>7, <2>2, KeysTyped
  <2> QED  BY <1>1, <2>1, <2>2
<1>9. ASSUME p > 0
      PROVE  /\ \A j \in 1..p : j < p => keys[j] + g <= keys[j + 1]
             /\ a.old > 1 => left + g <= keys[1]
             /\ keys[p] + g <= right
  <2>0. p \in Nat \ {0}
    BY <1>1, <1>9
  <2>1. CASE a.old = 1
    <3>1. /\ \A j \in 1..p : j < p => KeysBefore(right, p)[j] + g <= KeysBefore(right, p)[j + 1]
          /\ KeysBefore(right, p)[p] + g <= right
      BY <1>3, <2>0, KeysOutsideLie
    <3>2. keys = KeysBefore(right, p) /\ ~ (a.old > 1)
      BY <1>6, <2>1
    <3> QED  BY <3>1, <3>2
  <2>2. CASE a.old > 1
    <3>1. /\ \A j \in 1..p : j < p => KeysBetween(left, right, p)[j] + g <= KeysBetween(left, right, p)[j + 1]
          /\ left + g <= KeysBetween(left, right, p)[1]
          /\ KeysBetween(left, right, p)[p] + g <= right
      BY <1>3, <1>5, <1>9, <2>0, <2>2, KeysBetweenLie
    <3> QED  BY <1>7, <2>2, <3>1
  <2> QED  BY <1>1, <2>1, <2>2
<1>10. Len(new) = p /\ \A j \in 1..p : new[j].turn = I[j] /\ new[j].key = keys[j]
  BY <1>2, <1>4, KeyedHolds
<1>11. ASSUME NEW j \in 1..p, j < p PROVE new[j].key + g <= new[j + 1].key
  <2>1. j + 1 \in 1..p /\ p > 0
    BY ONLY <1>1, <1>11, j \in 1..p
  <2>2. keys[j] + g <= keys[j + 1]
    BY <1>9, <1>11, <2>1
  <2>3. new[j].key = keys[j] /\ new[j + 1].key = keys[j + 1]
    BY <1>10, <2>1
  <2> QED  BY ONLY <2>2, <2>3
<1>13. ASSUME p > 0
       PROVE  (a.old > 1 => left + g <= new[1].key) /\ new[p].key + g <= right
  <2>1. 1 \in 1..p /\ p \in 1..p
    BY <1>1, <1>13
  <2> QED  BY <1>9, <1>10, <1>13, <2>1
<1> QED  BY <1>1, <1>8, <1>10, <1>11, <1>12, <1>13 DEF PrefixStands

\* What follows it.
SuffixStands(rows, I, l, e, new, q, g) ==
  /\ q \in Nat /\ Len(new) = q
  /\ \A j \in 1..q : /\ new[j].key \in Int /\ new[j].turn = I[e + j]
                     /\ j < q => new[j].key + g <= new[j + 1].key
  /\ q > 0 => /\ rows[l].key + g <= new[1].key
              /\ l < Len(rows) => new[q].key + g <= rows[l + 1].key
LEMMA SuffixLies ==
  ASSUME NEW rows \in Seq(Row), NEW I \in Seq(Turn), NEW a, NEW g \in Nat, g <= KeyGap,
         a \in Alignment, a.old >= 1, a.new >= 1, a.n >= 1, a.new + a.n - 1 <= Len(I),
         a.old + a.n - 1 <= Len(rows), a # NoAlignment, GapsFit(rows, I, a, g),
         NEW new, new = SuffixRows(rows, I, a), NEW q, q = TurnsAfter(I, a),
         NEW l, l = a.old + a.n - 1, NEW e, e = a.new + a.n - 1
  PROVE  SuffixStands(rows, I, l, e, new, q, g)
<1> DEFINE s == SubSeq(I, a.new + a.n, Len(I))
           left == rows[l].key
           right == rows[l + 1].key
           keys == IF l = Len(rows) THEN KeysAfter(left, q) ELSE KeysBetween(left, right, q)
<1>1. /\ e \in Nat /\ e <= Len(I) /\ Len(I) \in Nat /\ Len(rows) \in Nat /\ q = Len(I) - e
      /\ q \in Nat /\ l \in Nat /\ l \in 1..Len(rows) /\ (l < Len(rows) => l + 1 \in 1..Len(rows))
      /\ l + 1 = a.old + a.n /\ a.new + a.n = e + 1
  BY RowsTyped, SMTT(30) DEF Alignment, TurnsAfter
<1>2. s \in Seq(Turn) /\ Len(s) = q /\ \A j \in 1..q : s[j] = I[e + j]
  <2>1. s = SubSeq(I, e + 1, Len(I))
    BY <1>1
  <2> HIDE DEF s
  <2> QED  BY <1>1, <2>1, SMTT(30)
<1>3. left \in Int /\ (l < Len(rows) => right \in Int)
  BY <1>1, RowsTyped
<1>4. new = Keyed(s, keys)
  BY <1>2 DEF SuffixRows
<1>5. l < Len(rows) /\ q > 0 => StepFits(left, right, q, g)
  BY <1>1 DEF GapsFit
<1>12. right = rows[l + 1].key /\ left = rows[l].key
  OBVIOUS
<1> HIDE DEF s, right, left
<1>6. l = Len(rows) => keys = KeysAfter(left, q)
  OBVIOUS
<1>7. l < Len(rows) => keys = KeysBetween(left, right, q)
  BY <1>1
<1> HIDE DEF keys
<1>8. \A j \in 1..q : keys[j] \in Int
  <2>1. CASE l = Len(rows)
    BY <1>1, <1>3, <1>6, <2>1, KeysTyped
  <2>2. CASE l < Len(rows)
    BY <1>1, <1>3, <1>7, <2>2, KeysTyped
  <2> QED  BY <1>1, <2>1, <2>2
<1>9. ASSUME q > 0
      PROVE  /\ \A j \in 1..q : j < q => keys[j] + g <= keys[j + 1]
             /\ left + g <= keys[1]
             /\ l < Len(rows) => keys[q] + g <= right
  <2>0. q \in Nat \ {0}
    BY <1>1, <1>9
  <2>1. CASE l = Len(rows)
    <3>1. /\ \A j \in 1..q : j < q => KeysAfter(left, q)[j] + g <= KeysAfter(left, q)[j + 1]
          /\ left + g <= KeysAfter(left, q)[1]
      BY <1>3, <2>0, KeysOutsideLie
    <3>2. keys = KeysAfter(left, q) /\ ~ (l < Len(rows))
      BY <1>1, <1>6, <2>1
    <3> QED  BY <3>1, <3>2
  <2>2. CASE l < Len(rows)
    BY <1>3, <1>5, <1>7, <2>0, <2>2, KeysBetweenLie, SMTT(30)
  <2> QED  BY <1>1, <2>1, <2>2
<1>10. Len(new) = q /\ \A j \in 1..q : new[j].turn = I[e + j] /\ new[j].key = keys[j]
  BY <1>2, <1>4, KeyedHolds
<1>11. ASSUME NEW j \in 1..q, j < q PROVE new[j].key + g <= new[j + 1].key
  <2>1. j + 1 \in 1..q
    BY <1>1, <1>11
  <2>2. new[j].key = keys[j] /\ new[j + 1].key = keys[j + 1]
    BY <1>10, <2>1
  <2>3. q > 0
    BY <1>1, <1>11
  <2>4. keys[j] + g <= keys[j + 1]
    BY <1>9, <1>11, <2>3
  <2> QED  BY ONLY <2>2, <2>4
<1>13. ASSUME q > 0
       PROVE  left + g <= new[1].key /\ (l < Len(rows) => new[q].key + g <= right)
  <2>1. 1 \in 1..q /\ q \in 1..q
    BY <1>1, <1>13
  <2> QED  BY <1>9, <1>10, <1>13, <2>1
<1> QED  BY <1>1, <1>8, <1>10, <1>11, <1>12, <1>13 DEF SuffixStands

\* The elements of two lists put together.
LEMMA AppendParts ==
  ASSUME NEW X, NEW s \in Seq(X), NEW t \in Seq(X), NEW p, p = Len(s), NEW q, q = Len(t)
  PROVE  /\ Len(s \o t) = p + q
         /\ \A j \in 1..(p + q) : (s \o t)[j] = IF j <= p THEN s[j] ELSE t[j - p]
OBVIOUS

\* All new rows: what the code computes goes in where it should.
LEMMA NewRowsGoIn ==
  ASSUME NEW rows \in Seq(Row), NEW I \in Seq(Turn), NEW a, NEW g \in Nat, g <= KeyGap,
         Fits(a, I), ~ OutOfRange(rows, a), GapsFit(rows, I, a, g)
  PROVE  GoesIn(rows, I, NewRows(rows, I, a), RowsBefore(rows, a), RowsUpTo(rows, a),
                TurnsBefore(a), g)
<1>1. CASE a = NoAlignment
  <2>1. GoesIn(rows, I, AppendAll(rows, I), Len(rows), Len(rows), 0, g)
    BY AppendGoesIn
  <2> QED  BY <1>1, <2>1 DEF NewRows, RowsBefore, RowsUpTo, TurnsBefore
<1>2. CASE a # NoAlignment
  <2> DEFINE P == PrefixRows(rows, I, a)
             S == SuffixRows(rows, I, a)
             N == NewRows(rows, I, a)
             b == a.old - 1
             l == a.old + a.n - 1
             p == a.new - 1
             q == TurnsAfter(I, a)
             e == a.new + a.n - 1
  <2>1. /\ a \in Alignment /\ a.old >= 1 /\ a.new >= 1 /\ a.n >= 1 /\ a.new + a.n - 1 <= Len(I)
        /\ a.old + a.n - 1 <= Len(rows)
    <3>1. Len(rows) \in Nat /\ a \in Alignment
      BY RowsTyped DEF Fits
    <3> QED  BY <1>2, <3>1 DEF Fits, OutOfRange, Alignment
  <2>2. /\ b \in Nat /\ l \in Nat /\ p \in Nat /\ Len(rows) \in Nat /\ l <= Len(rows) /\ b < l
        /\ Len(I) \in Nat /\ q = Len(I) - e /\ e = p + (l - b) /\ e <= Len(I) /\ e \in Nat
        /\ b + 1 = a.old /\ (a.old > 1 <=> b > 0) /\ a.old - 1 = b
    BY <2>1, RowsTyped DEF Alignment, TurnsAfter
  <2>3. /\ Len(P) = p
        /\ \A j \in 1..p : /\ P[j].key \in Int /\ P[j].turn = I[j]
                           /\ j < p => P[j].key + g <= P[j + 1].key
        /\ p > 0 => /\ b > 0 => rows[b].key + g <= P[1].key
                    /\ P[p].key + g <= rows[b + 1].key
    <3>1. p = a.new - 1 /\ P = PrefixRows(rows, I, a)
      OBVIOUS
    <3> HIDE DEF p, P
    <3>2. PrefixStands(rows, I, a, P, p, g)
      BY <1>2, <2>1, <3>1, PrefixLies
    <3>3. a.old > 1 <=> b > 0
      BY <2>2
    <3>4. a.old - 1 = b /\ b + 1 = a.old
      BY <2>2
    <3> QED  BY ONLY <3>2, <3>3, <3>4 DEF PrefixStands
  <2>4. /\ Len(S) = q /\ q \in Nat
        /\ \A j \in 1..q : /\ S[j].key \in Int /\ S[j].turn = I[e + j]
                           /\ j < q => S[j].key + g <= S[j + 1].key
        /\ q > 0 => /\ rows[l].key + g <= S[1].key
                    /\ l < Len(rows) => S[q].key + g <= rows[l + 1].key
    <3>1. q = TurnsAfter(I, a) /\ S = SuffixRows(rows, I, a) /\ l = a.old + a.n - 1
          /\ e = a.new + a.n - 1
      OBVIOUS
    <3> HIDE DEF q, S, l, e
    <3>2. SuffixStands(rows, I, l, e, S, q, g)
      BY <1>2, <2>1, <3>1, SuffixLies
    <3> QED  BY ONLY <3>2 DEF SuffixStands
  <2>5. P \in Seq(NewRow) /\ S \in Seq(NewRow)
    BY <1>2, <2>1, PartsTyped
  <2>6. N = P \o S
    BY <1>2 DEF NewRows
  <2>7. RowsBefore(rows, a) = b /\ RowsUpTo(rows, a) = l /\ TurnsBefore(a) = p
    BY <1>2 DEF RowsBefore, RowsUpTo, TurnsBefore
  <2> HIDE DEF P, S, N, b, l, p, q, e
  <2>8. /\ Len(N) = p + q
        /\ \A j \in 1..p : N[j] = P[j]
        /\ \A j \in 1..q : N[p + j] = S[j]
    <3>1. Len(N) = p + q /\ \A j \in 1..(p + q) : N[j] = IF j <= p THEN P[j] ELSE S[j - p]
      <4>1. p = Len(P) /\ q = Len(S)
        BY <2>3, <2>4
      <4> QED  BY <2>5, <2>6, <4>1, AppendParts
    <3>2. ASSUME NEW j \in 1..p PROVE N[j] = P[j]
      <4>1. j \in 1..(p + q) /\ j <= p
        BY <2>2, <2>4
      <4> QED  BY <3>1, <4>1
    <3>3. ASSUME NEW j \in 1..q PROVE N[p + j] = S[j]
      <4>1. p + j \in 1..(p + q) /\ ~ (p + j <= p) /\ (p + j) - p = j
        BY <2>2, <2>4
      <4> QED  BY <3>1, <4>1
    <3> QED  BY <3>1, <3>2, <3>3
  <2>9. ASSUME NEW j \in 1..(p + q)
        PROVE  /\ N[j].key \in Int
               /\ N[j].turn = I[IF j <= p THEN j ELSE j + (l - b)]
               /\ j < p + q /\ j # p => N[j].key + g <= N[j + 1].key
    <3>1. CASE j < p
      <4>1. j \in 1..p /\ j + 1 \in 1..p /\ j <= p
        BY <2>2, <2>4, <3>1
      <4>2. N[j] = P[j] /\ N[j + 1] = P[j + 1]
        BY <2>8, <4>1
      <4> QED  BY <2>3, <3>1, <4>1, <4>2
    <3>2. CASE j = p
      <4>1. p \in 1..p /\ p <= p
        BY <2>2, <3>2
      <4>2. N[p] = P[p]
        BY <2>8, <4>1
      <4> QED  BY <2>3, <3>2, <4>1, <4>2
    <3>3. CASE j > p
      <4> DEFINE i == j - p
      <4>1. /\ i \in 1..q /\ j = p + i /\ e + i = j + (l - b) /\ ~ (j <= p)
            /\ j < p + q => i < q /\ i + 1 \in 1..q /\ j + 1 = p + (i + 1)
        BY <2>2, <2>4, <3>3
      <4> HIDE DEF i
      <4>2. N[j] = S[i]
        BY <2>8, <4>1
      <4>3. j < p + q => N[j + 1] = S[i + 1]
        BY <2>8, <4>1
      <4>4. N[j].key \in Int /\ N[j].turn = I[j + (l - b)]
        BY <2>4, <4>1, <4>2
      <4>5. j < p + q => N[j].key + g <= N[j + 1].key
        BY <2>4, <4>1, <4>2, <4>3
      <4> QED  BY <4>1, <4>4, <4>5
    <3> QED  BY <2>2, <3>1, <3>2, <3>3
  <2>10. p > 0 => (b > 0 => rows[b].key + g <= N[1].key) /\ N[p].key + g <= rows[b + 1].key
    <3> SUFFICES ASSUME p > 0
                 PROVE  (b > 0 => rows[b].key + g <= N[1].key) /\ N[p].key + g <= rows[b + 1].key
      OBVIOUS
    <3>1. 1 \in 1..p /\ p \in 1..p
      BY <2>2
    <3>2. N[1] = P[1] /\ N[p] = P[p]
      BY <2>8, <3>1
    <3> QED  BY <2>3, <3>2
  <2>11. q > 0 => /\ rows[l].key + g <= N[p + 1].key
                  /\ l < Len(rows) => N[p + q].key + g <= rows[l + 1].key
    <3> SUFFICES ASSUME q > 0
                 PROVE  /\ rows[l].key + g <= N[p + 1].key
                        /\ l < Len(rows) => N[p + q].key + g <= rows[l + 1].key
      OBVIOUS
    <3>1. 1 \in 1..q /\ q \in 1..q
      BY <2>4
    <3>2. N[p + 1] = S[1] /\ N[p + q] = S[q]
      BY <2>8, <3>1
    <3> QED  BY <2>4, <3>2
  <2>12. Len(N) \in Nat /\ b <= l /\ p <= Len(N) /\ Len(N) = Len(I) - (l - b)
    <3>1. Len(N) = p + q
      BY <2>8
    <3>2. p + q \in Nat /\ p <= p + q /\ p + q = Len(I) - (l - b) /\ b <= l
      BY <2>2, <2>4
    <3> QED  BY <3>1, <3>2
  <2>13. Len(N) > p <=> q > 0
    <3>1. Len(N) = p + q
      BY <2>8
    <3> QED  BY <2>2, <2>4, <3>1
  <2>14. GoesIn(rows, I, N, b, l, p, g)
    BY <2>2, <2>8, <2>9, <2>10, <2>11, <2>12, <2>13 DEF GoesIn
  <2> QED  BY <2>7, <2>14 DEF N
<1> QED  BY <1>1, <1>2

\* With the new rows in their places the list grows, g at a time.
LEMMA PlanGrows ==
  ASSUME NEW rows \in Seq(Row), NEW I \in Seq(Turn), NEW a, NEW g \in Nat, g <= KeyGap,
         Fits(a, I), ~ OutOfRange(rows, a), GapsFit(rows, I, a, g),
         \A k \in 1..Len(rows) : k < Len(rows) => rows[k].key + g <= rows[k + 1].key,
         NEW new, new = NewRows(rows, I, a), NEW b, b = RowsBefore(rows, a),
         NEW l, l = RowsUpTo(rows, a), NEW p, p = TurnsBefore(a)
  PROVE  /\ Len(rows) \in Nat /\ GoesIn(rows, I, new, b, l, p, g)
         /\ \A i, j \in 1..(Len(rows) + Len(new)) :
              /\ Merged(rows, new, b, l, p)[i].key \in Int
              /\ i < j => Merged(rows, new, b, l, p)[i].key + g <= Merged(rows, new, b, l, p)[j].key
<1>1. GoesIn(rows, I, new, b, l, p, g)
  BY NewRowsGoIn
<1>2. Len(rows) \in Nat /\ \A k \in 1..Len(rows) : rows[k].key \in Int
  BY RowsTyped
<1> QED  BY <1>1, <1>2, MergedGrows

\* So the keys of old and new rows are all different, and g apart.
LEMMA MergedKeys ==
  ASSUME NEW rows, NEW new, NEW b, NEW l, NEW p, NEW g \in Nat, NEW I,
         Len(rows) \in Nat, GoesIn(rows, I, new, b, l, p, g),
         \A i, j \in 1..(Len(rows) + Len(new)) :
           /\ Merged(rows, new, b, l, p)[i].key \in Int
           /\ i < j => Merged(rows, new, b, l, p)[i].key + g <= Merged(rows, new, b, l, p)[j].key
  PROVE  /\ g > 0 => \A k \in 1..Len(rows), j \in 1..Len(new) : rows[k].key # new[j].key
         /\ g > 0 => \A i, j \in 1..Len(new) : new[i].key = new[j].key => i = j
         /\ \A x, y \in {rows[k].key : k \in 1..Len(rows)} \cup {new[j].key : j \in 1..Len(new)} :
              x < y => x + g <= y
<1> DEFINE M == Merged(rows, new, b, l, p)
           n == Len(rows) + Len(new)
           old(k) == OldAt(new, b, l, p, k)
           at(j) == NewAt(b, l, p, j)
<1>1. /\ Len(new) \in Nat /\ b \in Nat /\ l \in Nat /\ p \in Nat /\ b <= l /\ l <= Len(rows)
      /\ p <= Len(new)
  BY DEF GoesIn
<1>2. /\ \A k \in 1..Len(rows) : old(k) \in 1..n /\ M[old(k)] = rows[k]
      /\ \A j \in 1..Len(new) : at(j) \in 1..n /\ M[at(j)] = new[j]
      /\ \A k \in 1..Len(rows), j \in 1..Len(new) : old(k) # at(j)
  BY <1>1, MergedHolds
<1>3. \A i, j \in 1..Len(new) : at(i) = at(j) => i = j
  BY <1>1 DEF NewAt
<1>4. /\ n \in Nat
      /\ \A i, j \in 1..n : M[i].key \in Int /\ (i < j => M[i].key + g <= M[j].key)
  BY <1>1
<1> HIDE DEF M, n, old, at
<1>5. ASSUME g > 0, NEW i \in 1..n, NEW j \in 1..n, M[i].key = M[j].key PROVE i = j
  BY ONLY <1>4, <1>5, SMTT(30)
<1>6. ASSUME NEW i \in 1..n, NEW j \in 1..n, M[i].key < M[j].key PROVE M[i].key + g <= M[j].key
  <2>1. i < j \/ i = j \/ j < i
    BY <1>4
  <2>2. ~ (j < i)
    BY <1>4, <1>6
  <2>3. i # j
    BY <1>4, <1>6
  <2> QED  BY <1>4, <2>1, <2>2, <2>3
<1>7. ASSUME NEW x \in {rows[k].key : k \in 1..Len(rows)} \cup {new[j].key : j \in 1..Len(new)}
      PROVE  \E i \in 1..n : x = M[i].key
  BY <1>2
<1>8. ASSUME g > 0, NEW k \in 1..Len(rows), NEW j \in 1..Len(new) PROVE rows[k].key # new[j].key
  BY <1>2, <1>5, <1>8, SMTT(30)
<1>9. ASSUME g > 0, NEW i \in 1..Len(new), NEW j \in 1..Len(new), new[i].key = new[j].key PROVE i = j
  BY <1>2, <1>3, <1>5, <1>9
<1>10. \A x, y \in {rows[k].key : k \in 1..Len(rows)} \cup {new[j].key : j \in 1..Len(new)} :
         x < y => x + g <= y
  BY <1>6, <1>7
<1> QED  BY <1>8, <1>9, <1>10

----------------------------------------------------------------------------
(* The table as the list of its rows in the order of their keys.           *)

KeysUnique == \A r, s \in turns : r.key = s.key => r = s

\* Different elements of a list are as many as its length.
LEMMA ListedCount ==
  ASSUME NEW n \in Nat, NEW f, NEW T, \A i, j \in 1..n : i # j => f[i] # f[j],
         \A i \in 1..n : f[i] \in T, \A t \in T : \E i \in 1..n : t = f[i]
  PROVE  IsFiniteSet(T) /\ Cardinality(T) = n
<1> DEFINE h == [i \in 1..n |-> f[i]]
           S == 1..n
<1>1. IsFiniteSet(S) /\ Cardinality(S) = n
  BY FS_Interval
<1>2. h \in Surjection(S, T)
  BY DEF Surjection
<1>3. h \in Injection(S, T)
  BY DEF Injection, IsInjective
<1> HIDE DEF h, S
<1> QED  BY <1>1, <1>2, <1>3, FS_Surjection

\* A list of n places whose keys grow, and one that has the places of all rows
\* of the table.
Growing(M, n) ==
  n \in Nat /\ \A i, j \in 1..n : M[i].key \in Int /\ (i < j => M[i].key + 1 <= M[j].key)
ListsTurns(M, n) ==
  /\ Growing(M, n)
  /\ \A r \in turns : \E i \in 1..n : r.key = M[i].key
  /\ \A i \in 1..n : \E r \in turns : r.key = M[i].key /\ r.turn = M[i].turn

\* Such a list is what ORDER BY yields.
LEMMA TableFollows ==
  ASSUME TableSound, KeysUnique, NEW n, NEW M, ListsTurns(M, n)
  PROVE  Len(Table) = n /\ \A i \in 1..n : Table[i].key = M[i].key /\ Table[i].turn = M[i].turn
<1>0. /\ n \in Nat
      /\ \A i, j \in 1..n : M[i].key \in Int /\ (i < j => M[i].key < M[j].key)
      /\ \A r \in turns : \E i \in 1..n : r.key = M[i].key
      /\ \A i \in 1..n : \E r \in turns : r.key = M[i].key /\ r.turn = M[i].turn
  <2>1. ASSUME NEW i \in 1..n, NEW j \in 1..n
        PROVE  M[i].key \in Int /\ (i < j => M[i].key < M[j].key)
    <3>1. M[i].key \in Int /\ M[j].key \in Int /\ (i < j => M[i].key + 1 <= M[j].key)
      BY DEF ListsTurns, Growing
    <3> QED  BY ONLY <3>1
  <2> QED  BY <2>1 DEF ListsTurns, Growing
<1> USE <1>0
<1> DEFINE row == [i \in 1..n |-> CHOOSE r \in turns : r.key = M[i].key]
<1>1. ASSUME NEW i \in 1..n
      PROVE  row[i] \in turns /\ row[i].key = M[i].key /\ row[i].turn = M[i].turn
  <2>1. PICK r \in turns : r.key = M[i].key /\ r.turn = M[i].turn
    OBVIOUS
  <2>2. row[i] = CHOOSE s \in turns : s.key = M[i].key
    OBVIOUS
  <2> HIDE DEF row
  <2>3. row[i] \in turns /\ row[i].key = M[i].key
    BY <2>1, <2>2, Zenon
  <2>4. row[i] = r
    BY <2>1, <2>3 DEF KeysUnique
  <2> QED  BY <2>1, <2>3, <2>4
<1> HIDE DEF row
<1>2. \A i, j \in 1..n : i # j => row[i] # row[j]
  <2>1. \A i, j \in 1..n : i # j => M[i].key # M[j].key
    OBVIOUS
  <2> QED  BY <1>1, <2>1
<1>3. \A r \in turns : \E i \in 1..n : r = row[i]
  BY <1>1 DEF KeysUnique
<1>4. \A i \in 1..n : row[i] \in turns
  BY <1>1
<1>5. Cardinality(turns) = n
  BY ONLY n \in Nat, <1>2, <1>3, <1>4, ListedCount
<1>6. ASSUME NEW i \in 1..n PROVE Rank(row[i]) = i - 1
  <2> DEFINE before == {s \in turns : Precedes(s, row[i])}
             m == i - 1
             listed == {row[j] : j \in 1..m}
  <2>1. m \in Nat /\ (\A j \in 1..m : j \in 1..n /\ j < i) /\ (\A j \in 1..n : j < i => j \in 1..m)
    OBVIOUS
  <2>2. ASSUME NEW j \in 1..n PROVE Precedes(row[j], row[i]) <=> j < i
    <3>1. row[j].key = M[j].key /\ row[i].key = M[i].key /\ M[j].key \in Int /\ M[i].key \in Int
      BY <1>1
    <3>2. j < i => M[j].key < M[i].key
      OBVIOUS
    <3>3. i < j => M[i].key < M[j].key
      OBVIOUS
    <3>4. j = i => ~ Precedes(row[j], row[i])
      <4>1. row[i] \in Row
        BY <1>1 DEF TableSound
      <4> QED  BY <4>1, PrecedesOrders
    <3>5. j < i => Precedes(row[j], row[i])
      BY <3>1, <3>2 DEF Precedes
    <3>6. i < j => ~ Precedes(row[j], row[i])
      BY <3>1, <3>3 DEF Precedes
    <3> QED  BY <3>4, <3>5, <3>6
  <2>3. before = listed
    <3>1. ASSUME NEW s \in before PROVE s \in listed
      <4>1. s \in turns /\ Precedes(s, row[i])
        OBVIOUS
      <4>2. PICK j \in 1..n : s = row[j]
        BY <1>3, <4>1
      <4>3. j \in 1..m
        BY <2>1, <2>2, <4>1, <4>2
      <4> QED  BY <4>2, <4>3
    <3>2. ASSUME NEW s \in listed PROVE s \in before
      <4>1. PICK j \in 1..m : s = row[j]
        OBVIOUS
      <4>2. j \in 1..n /\ j < i
        BY <2>1
      <4> QED  BY <1>1, <2>2, <4>1, <4>2
    <3> HIDE DEF before, listed
    <3> QED  BY <3>1, <3>2
  <2>4. \A j, k \in 1..m : j # k => row[j] # row[k]
    BY <1>2, <2>1
  <2>5. \A j \in 1..m : row[j] \in listed
    OBVIOUS
  <2>8. \A t \in listed : \E j \in 1..m : t = row[j]
    OBVIOUS
  <2>9. m \in Nat
    BY <2>1
  <2> HIDE DEF m, listed, before
  <2>6. Cardinality(listed) = m
    BY ONLY <2>9, <2>4, <2>5, <2>8, ListedCount
  <2>7. Rank(row[i]) = Cardinality(before)
    BY Zenon DEF Rank, before
  <2> QED  BY <2>3, <2>6, <2>7 DEF m
<1>7. ASSUME NEW i \in 1..n PROVE Table[i] = row[i]
  <2>1. Table[i] = CHOOSE r \in turns : Rank(r) = i - 1
    BY <1>5, Zenon DEF Table, Rank
  <2>2. Table[i] \in turns /\ Rank(Table[i]) = i - 1
    BY <1>1, <1>6, <2>1, Zenon
  <2> QED  BY <1>1, <1>6, <2>2, RankInjective
<1>8. Len(Table) = n
  BY <1>5, TableListsTurns
<1> QED  BY <1>1, <1>7, <1>8

\* Each row has a smaller key than the next.
LEMMA TableGrows ==
  ASSUME TableSound, KeysUnique
  PROVE  \A k \in 1..Len(Table) : k < Len(Table) => Table[k].key + 1 <= Table[k + 1].key
<1> SUFFICES ASSUME NEW k \in 1..Len(Table), k < Len(Table)
             PROVE  Table[k].key + 1 <= Table[k + 1].key
  OBVIOUS
<1> DEFINE r == Table[k]
           s == Table[k + 1]
<1>1. Len(Table) \in Nat /\ k + 1 \in 1..Len(Table)
  BY TableListsTurns
<1>2. r \in turns /\ s \in turns /\ Rank(r) = k - 1 /\ Rank(s) = (k + 1) - 1
  BY <1>1, TableListsTurns
<1>3. r.key \in Int /\ s.key \in Int
  BY <1>2 DEF TableSound, Row
<1> HIDE DEF r, s
<1>4. r # s
  BY <1>1, <1>2
<1>5. r.key # s.key
  BY <1>2, <1>4 DEF KeysUnique
<1>6. ~ (s.key < r.key)
  <2> SUFFICES ASSUME s.key < r.key PROVE FALSE
    OBVIOUS
  <2>1. Rank(s) < Rank(r)
    BY <1>2, RankInjective DEF Precedes
  <2> QED  BY <1>1, <1>2, <2>1
<1>7. r.key + 1 <= s.key
  BY <1>3, <1>5, <1>6
<1> QED  BY <1>7 DEF r, s

----------------------------------------------------------------------------
(* What a call on Postgres has read, plans to write and has written.       *)

Planned == {"write", "readAnchors", "deleteAnchors", "insertAnchors", "check", "purge"}

\* The rows a call writes in all.
Plan(p) ==
  LET m == merge[p] IN
  IF Rejected(m.seen, m.payload, m.at) THEN <<>>
  ELSE Stamped(NewRows(m.seen, m.payload, m.at), m.call)

\* What has not been written of the plan is still to be written, and the call
\* has no other rows.
FollowsPlan(p) ==
  LET m == merge[p] IN
  /\ Fits(m.at, m.payload) /\ ~ OutOfRange(m.seen, m.at)
  /\ \A k \in 1..Len(m.todo) : \E j \in 1..Len(Plan(p)) : m.todo[k] = Plan(p)[j]
  /\ \A j \in 1..Len(Plan(p)) :
       Plan(p)[j] \in turns \/ \E k \in 1..Len(m.todo) : m.todo[k] = Plan(p)[j]
  /\ \A r \in turns : r.batch = m.call => \E j \in 1..Len(Plan(p)) : r = Plan(p)[j]

\* A resent pair is one that was read, and is written as it is.
RepeatsRows(p) ==
  LET m == merge[p] IN
  /\ m.at.old \in 1..(Len(m.seen) - 1) /\ Len(m.payload) = 2
  /\ \A i \in 1..2 : m.payload[i] = m.seen[m.at.old + i - 1].turn
  /\ \A r \in turns : r.batch # m.call
  /\ \A k \in 1..Len(m.todo) : /\ m.todo[k].batch = 0
                               /\ \E j \in 1..Len(m.seen) : SamePlace(m.todo[k], m.seen[j])

PlanStands(p) == IF merge[p].kind = "resend" THEN RepeatsRows(p) ELSE FollowsPlan(p)
SeenIsTable(p) == merge[p].seen = Table /\ \A r \in turns : r.batch # merge[p].call
SeenGrows(p) ==
  \A k \in 1..Len(merge[p].seen) :
    k < Len(merge[p].seen) => merge[p].seen[k].key + 1 <= merge[p].seen[k + 1].key
CallPlan(p) ==
  /\ merge[p].pc \notin Planned => merge[p].kind # "resend"
  /\ merge[p].pc # "write" => merge[p].todo = <<>>
  /\ merge[p].pc = "align" => SeenIsTable(p)
  /\ Writing(p) => SeenGrows(p)
  /\ merge[p].pc \in Planned => PlanStands(p)
PlanInv == KeysUnique /\ \A p \in Proc : CallPlan(p)

\* A call that another one's step leaves alone keeps what is said of it if the
\* table stays the same, or if it has not read the table yet.
LEMMA OtherPlanKept ==
  ASSUME NEW q \in Proc, merge'[q] = merge[q], CallPlan(q),
         turns' = turns \/ merge[q].pc \in {"idle", "lock"}
  PROVE  CallPlan(q)'
<1>1. CASE merge[q].pc \in {"idle", "lock"}
  BY <1>1 DEF CallPlan, Writing, Planned
<1>2. CASE turns' = turns
  <2>1. Table' = Table
    BY <1>2 DEF Table, Precedes
  <2>2. Plan(q)' = Plan(q)
    BY DEF Plan, Stamped
  <2>3. (PlanStands(q) => PlanStands(q)') /\ (SeenIsTable(q) => SeenIsTable(q)')
        /\ (SeenGrows(q) => SeenGrows(q)') /\ (Writing(q)' <=> Writing(q))
    BY <1>2, <2>1, <2>2 DEF PlanStands, SeenIsTable, SeenGrows, FollowsPlan, RepeatsRows, Writing
  <2> QED  BY <2>3 DEF CallPlan
<1> QED  BY <1>1, <1>2

\* So a step keeps the invariant if it does so for its own call.
LEMMA OwnPlanSuffices ==
  ASSUME LockInv, PlanInv, NEW p \in Proc, \A q \in Proc : q # p => merge'[q] = merge[q],
         turns' = turns \/ merge[p].pc \notin {"idle", "lock"}, KeysUnique', CallPlan(p)'
  PROVE  PlanInv'
<1> SUFFICES ASSUME NEW q \in Proc, q # p PROVE CallPlan(q)'
  BY DEF PlanInv
<1>1. turns' = turns \/ merge[q].pc \in {"idle", "lock"}
  BY OthersWait
<1> QED  BY <1>1, OtherPlanKept DEF PlanInv

\* A call that has nothing to write and has not read the table.
LEMMA EarlyPlanKept ==
  ASSUME LockInv, PlanInv, NEW p \in Proc, \A q \in Proc : q # p => merge'[q] = merge[q],
         turns' = turns, merge'[p].pc \in {"idle", "lock", "recheck", "read"},
         merge'[p].todo = <<>>, merge'[p].kind # "resend"
  PROVE  PlanInv'
<1>1. KeysUnique'
  BY DEF PlanInv, KeysUnique
<1>2. CallPlan(p)'
  BY DEF CallPlan, Writing, Planned
<1> QED  BY <1>1, <1>2, OwnPlanSuffices

\* A call that ends, with or without rows that it takes along.
LEMMA LeavePlanKept ==
  ASSUME TypeInv, LockInv, PlanInv, NEW p \in Proc, NEW result \in {"ok", "stale", "failed"},
         Leave(p, result), turns' \subseteq turns,
         turns' = turns \/ merge[p].pc \notin {"idle", "lock"}
  PROVE  PlanInv'
<1>1. /\ merge'[p].pc = "idle" /\ merge'[p].todo = <<>> /\ merge'[p].kind = "batch"
      /\ \A q \in Proc : q # p => merge'[q] = merge[q]
  BY LeaveTyped DEF Idle, TypeInv
<1>2. KeysUnique'
  BY DEF PlanInv, KeysUnique
<1>3. CallPlan(p)'
  BY <1>1 DEF CallPlan, Writing, Planned
<1> QED  BY <1>1, <1>2, <1>3, OwnPlanSuffices

\* A call that has written its rows and goes on.
LEMMA LatePlanKept ==
  ASSUME LockInv, PlanInv, NEW p \in Proc, \A q \in Proc : q # p => merge'[q] = merge[q],
         turns' = turns, merge[p].pc \in Planned, merge[p].pc # "write",
         merge'[p].pc \in Planned,
         merge'[p].kind = merge[p].kind, merge'[p].payload = merge[p].payload,
         merge'[p].call = merge[p].call, merge'[p].seen = merge[p].seen,
         merge'[p].at = merge[p].at, merge'[p].todo = merge[p].todo
  PROVE  PlanInv'
<1>1. KeysUnique'
  BY DEF PlanInv, KeysUnique
<1>2. Plan(p)' = Plan(p)
  BY DEF Plan, Stamped
<1>3. merge[p].todo = <<>> /\ SeenGrows(p) /\ PlanStands(p)
  BY DEF PlanInv, CallPlan, Writing, Planned
<1>4. SeenGrows(p)' /\ PlanStands(p)'
  BY <1>2, <1>3 DEF SeenGrows, PlanStands, FollowsPlan, RepeatsRows
<1>5. CallPlan(p)'
  BY <1>3, <1>4 DEF CallPlan, Planned
<1> QED  BY <1>1, <1>5, OwnPlanSuffices

\* The rows of a plan have the identifiers of the call, in order.
LEMMA PlanTyped ==
  ASSUME TypeInv, NEW p \in Proc, merge[p].pc # "idle",
         Fits(merge[p].at, merge[p].payload), ~ OutOfRange(merge[p].seen, merge[p].at)
  PROVE  /\ Plan(p) \in Seq(Row)
         /\ \A j \in 1..Len(Plan(p)) :
              Plan(p)[j].id = <<merge[p].call, j>> /\ Plan(p)[j].batch = merge[p].call
<1> DEFINE m == merge[p]
           new == NewRows(m.seen, m.payload, m.at)
<1>1. m.seen \in Seq(Row) /\ m.payload \in Seq(Turn)
  BY MergeTyped DEF TypeInv
<1>2. m.call \in 1..MaxCalls
  BY ReconcilerAssumption DEF TypeInv, TypeOK, ActiveCalls
<1>3. new \in Seq(NewRow)
  BY <1>1, NewRowsTyped
<1> HIDE DEF new
<1>4. /\ Stamped(new, m.call) \in Seq(Row) /\ Len(Stamped(new, m.call)) = Len(new)
      /\ \A k \in 1..Len(new) : Stamped(new, m.call)[k].batch = m.call
                                /\ Stamped(new, m.call)[k].id = <<m.call, k>>
  BY <1>2, <1>3, StampedTyped
<1>5. Plan(p) = IF Rejected(m.seen, m.payload, m.at) THEN <<>> ELSE Stamped(new, m.call)
  BY DEF Plan, new
<1> QED  BY <1>4, <1>5

\* Reading the table.
LEMMA ReadPlanKept ==
  ASSUME TypeInv, RefusedInv, LockInv, PlanInv, NEW p \in Proc, ReadTurns(p)
  PROVE  PlanInv'
<1>1. merge[p].pc = "read" /\ turns' = turns
  BY DEF ReadTurns
<1>2. /\ merge'[p].pc = "align" /\ merge'[p].call = merge[p].call /\ merge'[p].seen = Table
      /\ merge'[p].todo = merge[p].todo /\ merge'[p].kind = merge[p].kind
      /\ \A q \in Proc : q # p => merge'[q] = merge[q]
  BY DEF ReadTurns, TypeInv, TypeOK, Merge
<1>3. Table' = Table
  BY <1>1 DEF Table, Precedes
<1>4. KeysUnique /\ KeysUnique'
  BY <1>1 DEF PlanInv, KeysUnique
<1>5. \A r \in turns : r.batch # merge[p].call
  BY <1>1 DEF RefusedInv, NoneYet
<1>6. SeenIsTable(p)'
  BY <1>1, <1>2, <1>3, <1>5 DEF SeenIsTable
<1>7. SeenGrows(p)'
  BY <1>2, <1>4, TableGrows DEF SeenGrows, TypeInv
<1>8. merge[p].todo = <<>> /\ merge[p].kind # "resend"
  BY <1>1 DEF PlanInv, CallPlan, Planned
<1>9. CallPlan(p)'
  BY <1>2, <1>6, <1>7, <1>8 DEF CallPlan, Planned
<1> QED  BY <1>1, <1>2, <1>4, <1>9, OwnPlanSuffices

\* What Align sets.
LEMMA AlignSets ==
  ASSUME TypeInv, NEW p \in Proc, Align(p), NEW a,
         a = FindAlignment(TurnsOf(merge[p].seen), merge[p].payload,
                           [z \in AnchorSizes |-> LoadAnchorIndex(merge[p].seen, z)],
                           merge[p].kind = "batch")
  PROVE  /\ Fits(a, merge[p].payload)
         /\ OutOfRange(merge[p].seen, a) => Leave(p, "failed")
         /\ ~ OutOfRange(merge[p].seen, a) =>
              /\ merge'[p].pc \in {"check", "readAnchors", "write"}
              /\ merge'[p].pc # "write" => merge'[p].todo = <<>>
              /\ Rejected(merge[p].seen, merge[p].payload, a) <=> merge'[p].pc = "check"
              /\ merge'[p].at = a /\ merge'[p].todo = Plan(p)'
              /\ merge'[p].call = merge[p].call /\ merge'[p].seen = merge[p].seen
              /\ merge'[p].payload = merge[p].payload /\ merge'[p].kind = merge[p].kind
              /\ \A q \in Proc : q # p => merge'[q] = merge[q]
<1> DEFINE m == merge[p]
           index == [z \in AnchorSizes |-> LoadAnchorIndex(m.seen, z)]
           rejected == Rejected(m.seen, m.payload, a)
           todo == IF rejected THEN <<>> ELSE Stamped(NewRows(m.seen, m.payload, a), m.call)
<1>1. m \in Merge /\ m.payload \in Seq(Turn) /\ m.seen \in Seq(Row)
  BY MergeTyped DEF TypeInv
<1>2. Fits(a, m.payload)
  <2>1. TurnsOf(m.seen) \in Seq(Turn)
    BY <1>1, TurnsOfTyped
  <2>2. \A z \in AnchorSizes : index[z] \subseteq WindowIndex
    BY <1>1, LoadAnchorIndexTyped, AlignmentAssumption DEF TypeInv
  <2>3. a = FindAlignment(TurnsOf(m.seen), m.payload, index, m.kind = "batch")
    OBVIOUS
  <2> HIDE DEF index
  <2> QED  BY <1>1, <2>1, <2>2, <2>3, FindAlignmentFits
<1>3. CASE OutOfRange(m.seen, a)
  <2>1. Leave(p, "failed")
    BY <1>3, Zenon DEF Align
  <2> QED  BY <1>2, <1>3, <2>1
<1>4. CASE ~ OutOfRange(m.seen, a)
  <2>1. merge' = [merge EXCEPT ![p].at = a, ![p].todo = todo,
                    ![p].pc = IF rejected THEN "check" ELSE WriteNext(todo)]
    BY <1>4, Zenon DEF Align
  <2>2. Plan(p)' = IF Rejected(merge'[p].seen, merge'[p].payload, merge'[p].at) THEN <<>>
                   ELSE Stamped(NewRows(merge'[p].seen, merge'[p].payload, merge'[p].at), merge'[p].call)
    BY DEF Plan, Stamped
  <2> HIDE DEF index
  <2>3. /\ (IF rejected THEN "check" ELSE WriteNext(todo)) \in {"check", "readAnchors", "write"}
        /\ (IF rejected THEN "check" ELSE WriteNext(todo)) # "write" => todo = <<>>
        /\ rejected <=> (IF rejected THEN "check" ELSE WriteNext(todo)) = "check"
    BY DEF WriteNext
  <2>4. todo = IF rejected THEN <<>> ELSE Stamped(NewRows(m.seen, m.payload, a), m.call)
    OBVIOUS
  <2> HIDE DEF todo
  <2>5. /\ merge'[p].pc = IF rejected THEN "check" ELSE WriteNext(todo)
        /\ merge'[p].at = a /\ merge'[p].todo = todo
        /\ merge'[p].call = m.call /\ merge'[p].seen = m.seen
        /\ merge'[p].payload = m.payload /\ merge'[p].kind = m.kind
        /\ \A q \in Proc : q # p => merge'[q] = merge[q]
    BY <1>1, <2>1 DEF TypeInv, TypeOK, Merge
  <2>6. todo = Plan(p)'
    BY <2>2, <2>4, <2>5
  <2> QED  BY <1>2, <1>4, <2>3, <2>5, <2>6
<1> QED  BY <1>3, <1>4

\* Planning what to write.
LEMMA AlignPlanKept ==
  ASSUME TypeInv, LockInv, PlanInv, NEW p \in Proc, Align(p)
  PROVE  PlanInv'
<1>1. PICK a : a = FindAlignment(TurnsOf(merge[p].seen), merge[p].payload,
                           [z \in AnchorSizes |-> LoadAnchorIndex(merge[p].seen, z)],
                           merge[p].kind = "batch")
  OBVIOUS
<1>2. merge[p].pc = "align" /\ turns' = turns
  BY DEF Align
<1>3. CASE OutOfRange(merge[p].seen, a)
  <2>1. Leave(p, "failed")
    BY <1>1, <1>3, AlignSets
  <2> QED  BY <1>2, <2>1, LeavePlanKept
<1>4. CASE ~ OutOfRange(merge[p].seen, a)
  <2>1. /\ Fits(a, merge[p].payload)
        /\ merge'[p].pc \in {"check", "readAnchors", "write"}
        /\ merge'[p].pc # "write" => merge'[p].todo = <<>>
        /\ merge'[p].at = a /\ merge'[p].todo = Plan(p)'
        /\ merge'[p].call = merge[p].call /\ merge'[p].seen = merge[p].seen
        /\ merge'[p].payload = merge[p].payload /\ merge'[p].kind = merge[p].kind
        /\ \A q \in Proc : q # p => merge'[q] = merge[q]
    BY <1>1, <1>4, AlignSets
  <2>2. SeenIsTable(p) /\ SeenGrows(p) /\ merge[p].kind # "resend"
    BY <1>2 DEF PlanInv, CallPlan, Planned, Writing
  <2>3. FollowsPlan(p)'
    BY <1>2, <1>4, <2>1, <2>2 DEF FollowsPlan, SeenIsTable
  <2>4. SeenGrows(p)'
    BY <2>1, <2>2 DEF SeenGrows
  <2>5. CallPlan(p)'
    BY <2>1, <2>2, <2>3, <2>4 DEF CallPlan, Planned, PlanStands
  <2>6. KeysUnique'
    BY <1>2 DEF PlanInv, KeysUnique
  <2> QED  BY <1>2, <2>1, <2>5, <2>6, OwnPlanSuffices
<1> QED  BY <1>3, <1>4

\* The elements of a window.
LEMMA WindowHolds ==
  ASSUME NEW X, NEW s \in Seq(X), NEW at \in Nat \ {0}, NEW n \in Nat, at + n - 1 <= Len(s)
  PROVE  /\ Window(s, at, n) \in Seq(X) /\ Len(Window(s, at, n)) = n
         /\ \A k \in 1..n : Window(s, at, n)[k] = s[at + k - 1]
<1> DEFINE e == at + n - 1
<1>1. e \in Nat /\ e <= Len(s) /\ n = e - at + 1 /\ (e = at - 1 \/ at <= e)
  OBVIOUS
<1>2. Window(s, at, n) = SubSeq(s, at, e)
  BY DEF Window
<1> HIDE DEF e
<1>3. SubSeq(s, at, e) \in Seq(X) /\ Len(SubSeq(s, at, e)) = n
  BY <1>1
<1>4. ASSUME NEW k \in 1..n PROVE SubSeq(s, at, e)[k] = s[at + k - 1]
  BY <1>1
<1> QED  BY <1>2, <1>3, <1>4

\* Resending a pair that was read.
LEMMA ResendPlanKept ==
  ASSUME TypeInv, LockInv, PlanInv, NEW p \in Proc, ExactResend(p)
  PROVE  PlanInv'
<1> DEFINE m == merge[p]
<1>1. m \in Merge /\ m.pc = "align" /\ m.seen \in Seq(Row) /\ turns' = turns
  BY MergeTyped DEF TypeInv, ExactResend
<1>2. PICK w \in 1..(Len(m.seen) - 1) :
        /\ TurnsOf(Window(m.seen, w, 2)) = m.payload
        /\ merge' = [merge EXCEPT ![p].pc = "write", ![p].kind = "resend",
             ![p].at = [old |-> w, new |-> 1, n |-> 2],
             ![p].todo = [k \in 1..2 |-> [m.seen[w + k - 1] EXCEPT !.batch = 0]]]
  BY Zenon DEF ExactResend
<1> DEFINE todo == [k \in 1..2 |-> [m.seen[w + k - 1] EXCEPT !.batch = 0]]
<1>3. ASSUME NEW k \in 1..2
      PROVE  todo[k].batch = 0 /\ \E j \in 1..Len(m.seen) : SamePlace(todo[k], m.seen[j])
  <2>1. w + k - 1 \in 1..Len(m.seen)
    BY <1>1, RowsTyped
  <2>2. m.seen[w + k - 1] \in Row
    BY <1>1, <2>1, RowsTyped
  <2>3. todo[k] = [m.seen[w + k - 1] EXCEPT !.batch = 0]
    OBVIOUS
  <2> HIDE DEF todo
  <2>4. todo[k].batch = 0 /\ SamePlace(todo[k], m.seen[w + k - 1])
    BY <2>2, <2>3 DEF Row, SamePlace
  <2> QED  BY <2>1, <2>4
<1>4. Len(todo) = 2
  OBVIOUS
<1>5. Len(m.payload) = 2 /\ \A i \in 1..2 : m.payload[i] = m.seen[w + i - 1].turn
  <2> DEFINE v == Window(m.seen, w, 2)
  <2>1. Len(m.seen) \in Nat /\ w \in 1..Len(m.seen) /\ w + 2 - 1 \in 1..Len(m.seen)
    BY <1>1, RowsTyped
  <2>2. v \in Seq(Row) /\ Len(v) = 2 /\ v[1] = m.seen[w + 1 - 1] /\ v[2] = m.seen[w + 2 - 1]
    <3>0. w \in Nat \ {0} /\ w + 2 - 1 <= Len(m.seen)
      BY <2>1
    <3>1. v \in Seq(Row) /\ Len(v) = 2 /\ \A k \in 1..2 : v[k] = m.seen[w + k - 1]
      BY ONLY <1>1, <3>0, WindowHolds, 2 \in Nat, ZenonT(30)
    <3> QED  BY <3>1
  <2>3. m.payload = TurnsOf(v)
    BY <1>2
  <2> HIDE DEF v
  <2>4. m.payload = [k \in 1..2 |-> v[k].turn]
    <3>1. DOMAIN v = 1..2
      BY <2>2
    <3> QED  BY <2>3, <3>1 DEF TurnsOf
  <2> QED  BY <2>2, <2>4
<1> HIDE DEF todo
<1>6. /\ merge'[p].pc = "write" /\ merge'[p].call = m.call /\ merge'[p].todo = todo
      /\ merge'[p].seen = m.seen /\ merge'[p].kind = "resend" /\ merge'[p].at.old = w
      /\ merge'[p].payload = m.payload
      /\ \A q \in Proc : q # p => merge'[q] = merge[q]
  BY <1>1, <1>2 DEF TypeInv, TypeOK, Merge, todo
<1>7. SeenIsTable(p) /\ SeenGrows(p)
  BY <1>1 DEF PlanInv, CallPlan, Writing
<1>8. SeenGrows(p)'
  BY <1>6, <1>7 DEF SeenGrows
<1>9. RepeatsRows(p)'
  BY <1>1, <1>3, <1>4, <1>5, <1>6, <1>7 DEF RepeatsRows, SeenIsTable
<1>10. CallPlan(p)'
  BY <1>6, <1>8, <1>9 DEF CallPlan, Planned, PlanStands
<1>11. KeysUnique'
  BY <1>1 DEF PlanInv, KeysUnique
<1> QED  BY <1>1, <1>6, <1>10, <1>11, OwnPlanSuffices

\* Writing a row whose key nobody else has.
LEMMA WritePlanKept ==
  ASSUME TypeInv, LockInv, PlanInv, NEW p \in Proc, WriteTurn(p)
  PROVE  PlanInv'
<1> DEFINE m == merge[p]
           row == Head(m.todo)
<1>1. /\ m \in Merge /\ m.pc = "write" /\ m.todo \in Seq(Row) /\ m.todo # <<>>
  BY MergeTyped DEF TypeInv, WriteTurn, Pending
<1>2. /\ merge'[p].call = m.call /\ merge'[p].seen = m.seen /\ merge'[p].at = m.at
      /\ merge'[p].payload = m.payload /\ merge'[p].kind = m.kind
      /\ merge'[p].pc \in {"write", "readAnchors"} /\ merge'[p].todo = Tail(m.todo)
      /\ merge'[p].pc # "write" => Tail(m.todo) = <<>>
      /\ \A q \in Proc : q # p => merge'[q] = merge[q]
  <2>1. merge' = [merge EXCEPT ![p].todo = Tail(m.todo), ![p].pc = WriteNext(Tail(m.todo))]
    BY DEF WriteTurn
  <2>2. WriteNext(Tail(m.todo)) \in {"write", "readAnchors"}
        /\ (WriteNext(Tail(m.todo)) # "write" => Tail(m.todo) = <<>>)
    BY DEF WriteNext
  <2> QED  BY <1>1, <2>1, <2>2 DEF TypeInv, TypeOK, Merge
<1>3. /\ Len(m.todo) \in Nat /\ 1 \in 1..Len(m.todo) /\ row = m.todo[1]
      /\ Len(Tail(m.todo)) = Len(m.todo) - 1
  BY <1>1
<1>4. \A k \in 1..Len(Tail(m.todo)) : k + 1 \in 1..Len(m.todo) /\ Tail(m.todo)[k] = m.todo[k + 1]
  BY <1>1, <1>3
<1>5. turns' = {r \in turns : r.id # row.id} \cup {row}
  BY Zenon DEF WriteTurn
<1>6. \A r \in turns : r.key = row.key => r.id = row.id
  BY <1>1 DEF WriteTurn, KeyTaken
<1>7. SeenGrows(p) /\ PlanStands(p) /\ KeysUnique
  BY <1>1 DEF PlanInv, CallPlan, Writing, Planned
<1>8. Plan(p)' = Plan(p)
  BY <1>2 DEF Plan, Stamped
<1> HIDE DEF row
<1>9. KeysUnique'
  BY <1>5, <1>6, <1>7 DEF KeysUnique
<1>10. SeenGrows(p)'
  BY <1>2, <1>7 DEF SeenGrows
<1>11. CASE m.kind = "resend"
  <2>1. RepeatsRows(p)
    BY <1>7, <1>11 DEF PlanStands
  <2>2. row.batch # m.call
    <3>1. m.call # 0
      BY <1>1, IdsTyped
    <3> QED  BY <1>3, <2>1, <3>1 DEF RepeatsRows
  <2>3. \A r \in turns' : r.batch # m.call
    BY <1>5, <2>1, <2>2 DEF RepeatsRows
  <2>4. \A k \in 1..Len(Tail(m.todo)) : /\ Tail(m.todo)[k].batch = 0
                                        /\ \E j \in 1..Len(m.seen) : SamePlace(Tail(m.todo)[k], m.seen[j])
    BY <1>4, <2>1 DEF RepeatsRows
  <2>5. RepeatsRows(p)'
    BY <1>2, <2>1, <2>3, <2>4 DEF RepeatsRows
  <2> QED  BY <1>2, <1>5, <1>1, <1>9, <1>10, <1>11, <2>5, OwnPlanSuffices DEF CallPlan, Planned, PlanStands
<1>12. CASE m.kind # "resend"
  <2> DEFINE plan == Plan(p)
  <2>1. FollowsPlan(p)
    BY <1>7, <1>12 DEF PlanStands
  <2>2. plan \in Seq(Row) /\ \A j \in 1..Len(plan) : plan[j].id = <<m.call, j>>
    BY <1>1, <2>1, PlanTyped DEF FollowsPlan
  <2> HIDE DEF plan
  <2>3. /\ \A k \in 1..Len(m.todo) : \E j \in 1..Len(plan) : m.todo[k] = plan[j]
        /\ \A j \in 1..Len(plan) : plan[j] \in turns \/ \E k \in 1..Len(m.todo) : m.todo[k] = plan[j]
        /\ \A r \in turns : r.batch = m.call => \E j \in 1..Len(plan) : r = plan[j]
    BY <2>1 DEF FollowsPlan, plan
  <2>4. PICK i \in 1..Len(plan) : row = plan[i]
    BY <1>3, <2>3
  <2>5. \A k \in 1..Len(Tail(m.todo)) : \E j \in 1..Len(plan) : Tail(m.todo)[k] = plan[j]
    BY <1>4, <2>3
  <2>6. \A r \in turns' : r.batch = m.call => \E j \in 1..Len(plan) : r = plan[j]
    BY <1>5, <2>3, <2>4
  <2>7. ASSUME NEW j \in 1..Len(plan)
        PROVE  plan[j] \in turns' \/ \E k \in 1..Len(Tail(m.todo)) : Tail(m.todo)[k] = plan[j]
    <3>1. CASE plan[j] \in turns
      <4>1. CASE plan[j].id = row.id
        <5>1. j = i
          BY <2>2, <2>4, <4>1
        <5> QED  BY <1>5, <2>4, <5>1
      <4>2. CASE plan[j].id # row.id
        BY <1>5, <3>1, <4>2
      <4> QED  BY <4>1, <4>2
    <3>2. CASE plan[j] \notin turns
      <4>1. PICK k \in 1..Len(m.todo) : m.todo[k] = plan[j]
        BY <2>3, <3>2
      <4>2. CASE k = 1
        BY <1>3, <1>5, <4>1, <4>2
      <4>3. CASE k # 1
        <5>1. k - 1 \in 1..Len(Tail(m.todo)) /\ (k - 1) + 1 = k
          BY <1>3, <4>3
        <5> QED  BY <1>4, <4>1, <5>1
      <4> QED  BY <4>2, <4>3
    <3> QED  BY <3>1, <3>2
  <2>8. FollowsPlan(p)'
    BY <1>2, <1>8, <2>1, <2>5, <2>6, <2>7 DEF FollowsPlan, plan
  <2>9. CallPlan(p)'
    BY <1>1, <1>2, <1>10, <1>12, <2>8 DEF CallPlan, Planned, PlanStands
  <2> QED  BY <1>1, <1>2, <1>9, <2>9, OwnPlanSuffices
<1> QED  BY <1>11, <1>12

\* Every step on Postgres preserves the invariant.
LEMMA PlanInvStep ==
  ASSUME TypeInv, RefusedInv, LockInv, PlanInv, [Next]_vars
  PROVE  PlanInv'
<1>1. ASSUME NEW p \in Proc, IngestBatch(p) \/ IngestSingle(p) PROVE PlanInv'
  <2>1. PICK kind \in {"batch", "single"}, payload \in Payload \cup SinglePair :
          Begin(p, kind, payload)
    BY <1>1 DEF IngestBatch, IngestSingle
  <2>2. /\ merge'[p].pc = "lock" /\ merge'[p].todo = <<>> /\ merge'[p].kind = kind
        /\ turns' = turns /\ \A q \in Proc : q # p => merge'[q] = merge[q]
    BY <2>1 DEF Begin, TypeInv, TypeOK, Idle
  <2> QED  BY <2>2, EarlyPlanKept
<1>2. ASSUME NEW p \in Proc, NEW pc, Goto(p, pc)
      PROVE  /\ merge'[p].pc = pc /\ merge'[p].kind = merge[p].kind
             /\ merge'[p].payload = merge[p].payload /\ merge'[p].call = merge[p].call
             /\ merge'[p].seen = merge[p].seen /\ merge'[p].at = merge[p].at
             /\ merge'[p].todo = merge[p].todo
             /\ \A q \in Proc : q # p => merge'[q] = merge[q]
  BY <1>2 DEF Goto, TypeInv, TypeOK, Merge
<1>3. ASSUME NEW p \in Proc, NEW pc \in {"recheck", "read"}, Goto(p, pc),
             turns' = turns, merge[p].pc \in {"lock", "recheck"}
      PROVE  PlanInv'
  <2>1. merge[p].todo = <<>> /\ merge[p].kind # "resend"
    BY <1>3 DEF PlanInv, CallPlan, Planned
  <2> QED  BY <1>2, <1>3, <2>1, EarlyPlanKept
<1>4. ASSUME NEW p \in Proc, NEW pc \in {"insertAnchors", "check", "purge"}, Goto(p, pc),
             turns' = turns,
             merge[p].pc \in {"readAnchors", "deleteAnchors", "insertAnchors", "check"}
      PROVE  PlanInv'
  <2>1. /\ merge'[p].pc \in Planned /\ merge[p].pc \in Planned /\ merge[p].pc # "write"
        /\ merge'[p].kind = merge[p].kind
        /\ merge'[p].payload = merge[p].payload /\ merge'[p].call = merge[p].call
        /\ merge'[p].seen = merge[p].seen /\ merge'[p].at = merge[p].at
        /\ merge'[p].todo = merge[p].todo
        /\ \A q \in Proc : q # p => merge'[q] = merge[q]
    BY <1>2, <1>4 DEF Planned
  <2> QED  BY <1>4, <2>1, LatePlanKept
<1>5. ASSUME NEW p \in Proc, AcquireLock(p) PROVE PlanInv'
  <2>1. PICK pc \in {"recheck", "read"} : Goto(p, pc)
    BY <1>5 DEF AcquireLock
  <2> QED  BY <1>3, <1>5, <2>1 DEF AcquireLock
<1>6. ASSUME NEW p \in Proc, Recheck(p) PROVE PlanInv'
  <2>1. CASE merge[p].epoch = epoch
    BY <1>3, <1>6, <2>1 DEF Recheck
  <2>2. CASE merge[p].epoch # epoch
    BY <1>6, <2>2, LeavePlanKept DEF Recheck
  <2> QED  BY <2>1, <2>2
<1>7. ASSUME NEW p \in Proc, ReadForAnchors(p) PROVE PlanInv'
  <2>1. /\ merge'[p].pc = "deleteAnchors" /\ merge[p].pc = "readAnchors"
        /\ merge'[p].kind = merge[p].kind
        /\ merge'[p].payload = merge[p].payload /\ merge'[p].call = merge[p].call
        /\ merge'[p].seen = merge[p].seen /\ merge'[p].at = merge[p].at
        /\ merge'[p].todo = merge[p].todo /\ turns' = turns
        /\ \A q \in Proc : q # p => merge'[q] = merge[q]
    BY <1>7 DEF ReadForAnchors, TypeInv, TypeOK, Merge
  <2>2. merge'[p].pc \in Planned /\ merge[p].pc \in Planned /\ merge[p].pc # "write"
    BY <2>1 DEF Planned
  <2> QED  BY <2>1, <2>2, LatePlanKept
<1>8. ASSUME NEW p \in Proc, DeleteAnchors(p) \/ InsertAnchors(p) \/ RefreshFails(p)
      PROVE  PlanInv'
  <2>1. PICK pc \in {"insertAnchors", "check"} : Goto(p, pc)
    BY <1>8 DEF DeleteAnchors, InsertAnchors, RefreshFails
  <2> QED  BY <1>4, <1>8, <2>1 DEF DeleteAnchors, InsertAnchors, RefreshFails
<1>9. ASSUME NEW p \in Proc, CheckEpoch(p) PROVE PlanInv'
  <2>1. CASE merge[p].kind = "batch" /\ merge[p].epoch # epoch
    BY <1>4, <1>9, <2>1 DEF CheckEpoch
  <2>2. CASE ~ (merge[p].kind = "batch" /\ merge[p].epoch # epoch)
    BY <1>9, <2>2, LeavePlanKept DEF CheckEpoch
  <2> QED  BY <2>1, <2>2
<1>10. ASSUME NEW p \in Proc, Purge(p) PROVE PlanInv'
  BY <1>10, LeavePlanKept DEF Purge
<1>11. ASSUME NEW p \in Proc, Fail(p) PROVE PlanInv'
  BY <1>11, LeavePlanKept DEF Fail
<1>12. ASSUME Resurrect \/ UNCHANGED vars PROVE PlanInv'
  <2>1. turns' = turns /\ merge' = merge
    BY <1>12 DEF Resurrect, vars
  <2>2. \A q \in Proc : CallPlan(q)'
    BY <2>1, OtherPlanKept DEF PlanInv
  <2> QED  BY <2>1, <2>2 DEF PlanInv, KeysUnique
<1> QED
  BY <1>1, <1>5, <1>6, <1>7, <1>8, <1>9, <1>10, <1>11, <1>12,
     ReadPlanKept, AlignPlanKept, ResendPlanKept, WritePlanKept DEF Next

\* So it holds on Postgres, with those it rests on.
LEMMA PlanInvariant ==
  ASSUME Backend = "postgres"
  PROVE  Spec => [](PostgresInv /\ PlanInv)
<1>1. Init => PlanInv
  BY DEF Init, Idle, PlanInv, KeysUnique, CallPlan, Writing, Planned
<1>2. PostgresInv /\ PlanInv /\ [Next]_vars => PlanInv'
  BY PlanInvStep DEF PostgresInv
<1> QED  BY <1>1, <1>2, PostgresInvariant, PTL DEF Spec

----------------------------------------------------------------------------
(* How long the room between two rows lasts.                               *)

\* The distances shrink from call to call, between the gap and the least step.
LEMMA GapsShrink ==
  ASSUME NEW L \in Nat, NEW G, GapsLast(G, L)
  PROVE  /\ \A i, j \in 0..MaxCalls : i <= j => G[j] <= G[i]
         /\ \A i \in 0..MaxCalls : G[i] \in Nat \ {0} /\ MinStep <= G[i] /\ G[i] <= KeyGap
<1>1. /\ MaxCalls \in Nat /\ KeyGap \in Nat \ {0} /\ MinStep \in Nat \ {0}
      /\ \A i \in 0..MaxCalls : G[i] \in Nat
      /\ G[0] <= KeyGap /\ MinStep <= G[MaxCalls]
  BY ReconcilerAssumption, AlignmentAssumption DEF GapsLast
<1>2. \A c \in 1..MaxCalls : G[c] <= G[c - 1]
  <2> SUFFICES ASSUME NEW c \in 1..MaxCalls PROVE G[c] <= G[c - 1]
    OBVIOUS
  <2>1. (L + 1) * G[c] <= G[c - 1] /\ G[c] \in Nat /\ G[c - 1] \in Nat
    BY <1>1 DEF GapsLast
  <2>2. (L + 1) * G[c] = L * G[c] + G[c] /\ L * G[c] \in Nat
    BY <2>1
  <2> QED  BY <2>1, <2>2
<1> DEFINE n == MaxCalls + 1
           f == [i \in 1..n |-> 0 - G[i - 1]]
<1>3. n \in Nat /\ \A i \in 1..n : f[i] \in Int
  BY <1>1
<1>4. \A i \in 1..n : i < n => f[i] + 0 <= f[i + 1]
  <2> SUFFICES ASSUME NEW i \in 1..n, i < n PROVE f[i] + 0 <= f[i + 1]
    OBVIOUS
  <2>1. i \in 1..MaxCalls /\ i - 1 \in 0..MaxCalls /\ i + 1 \in 1..n /\ (i + 1) - 1 = i
    BY <1>1
  <2>2. G[i] <= G[i - 1] /\ G[i] \in Nat /\ G[i - 1] \in Nat
    BY <1>1, <1>2, <2>1
  <2>3. f[i] = 0 - G[i - 1] /\ f[i + 1] = 0 - G[i]
    BY <2>1
  <2> QED  BY <2>2, <2>3
<1>5. \A i \in 0..MaxCalls : i + 1 \in 1..n /\ f[i + 1] = 0 - G[i]
  BY <1>1
<1> HIDE DEF n, f
<1>6. \A i, j \in 1..n : i < j => f[i] + 0 <= f[j]
  BY ONLY <1>3, <1>4, 0 \in Nat, GrowsThroughout
<1>7. ASSUME NEW i \in 0..MaxCalls, NEW j \in 0..MaxCalls, i <= j PROVE G[j] <= G[i]
  <2>1. CASE i = j
    BY <1>1, <2>1
  <2>2. CASE i # j
    <3>1. f[i + 1] + 0 <= f[j + 1]
      BY <1>5, <1>6, <1>7, <2>2
    <3> QED  BY <1>1, <1>5, <3>1
  <2> QED  BY <2>1, <2>2
<1>8. ASSUME NEW i \in 0..MaxCalls
      PROVE  G[i] \in Nat \ {0} /\ MinStep <= G[i] /\ G[i] <= KeyGap
  <2>1. 0 \in 0..MaxCalls /\ MaxCalls \in 0..MaxCalls /\ 0 <= i /\ i <= MaxCalls
    BY <1>1
  <2>2. G[MaxCalls] <= G[i] /\ G[i] <= G[0]
    BY <1>7, <2>1
  <2> QED  BY <1>1, <2>1, <2>2
<1> QED  BY <1>7, <1>8

\* Rows that fit g apart fit closer.
LEMMA CloserFits ==
  ASSUME NEW left \in Int, NEW right \in Int, NEW n \in Nat \ {0}, NEW g \in Nat, NEW h \in Nat,
         h <= g, StepFits(left, right, n, g)
  PROVE  StepFits(left, right, n, h)
<1> DEFINE step == Step(left, right, n)
<1>1. step \in Int
  BY AlignmentAssumption DEF Step
<1>2. g <= step /\ left + step * n + g <= right
  BY DEF StepFits
<1> HIDE DEF step
<1>3. step * n \in Int
  BY <1>1
<1>4. h <= step /\ left + step * n + h <= right
  BY <1>1, <1>2, <1>3
<1> QED  BY <1>4 DEF StepFits, step

\* In a list whose keys are G[n] apart all gaps have room for the rows of a
\* call, G[m] apart, if m > n.
LEMMA GapsFitApart ==
  ASSUME NEW L \in Nat, NEW G, GapsLast(G, L), NEW n \in 0..MaxCalls, NEW m \in 0..MaxCalls, n < m,
         NEW rows \in Seq(Row), NEW I \in Seq(Turn), Len(I) <= L, NEW a,
         Fits(a, I), ~ OutOfRange(rows, a),
         \A k \in 1..Len(rows) : k < Len(rows) => rows[k].key + G[n] <= rows[k + 1].key
  PROVE  GapsFit(rows, I, a, G[m]) /\ GapsFit(rows, I, a, 1)
<1>1. /\ MaxCalls \in Nat /\ Len(rows) \in Nat /\ Len(I) \in Nat
      /\ \A k \in 1..Len(rows) : rows[k].key \in Int
  BY RowsTyped, ReconcilerAssumption
<1>2. /\ G[n] \in Nat /\ G[m] \in Nat \ {0} /\ MinStep <= G[m]
  BY GapsShrink
<1>3. (L + 1) * G[m] <= G[n]
  <2>1. n + 1 \in 1..MaxCalls /\ n + 1 \in 0..MaxCalls /\ n + 1 <= m /\ (n + 1) - 1 = n
    BY <1>1
  <2>2. (L + 1) * G[n + 1] <= G[n]
    BY <2>1 DEF GapsLast
  <2>3. G[m] <= G[n + 1] /\ G[n + 1] \in Nat
    BY <2>1, GapsShrink
  <2>4. (L + 1) * G[m] <= (L + 1) * G[n + 1]
    <3>1. \A x, y, z \in Nat : x <= y => z * x <= z * y
      OBVIOUS
    <3>2. L + 1 \in Nat
      OBVIOUS
    <3> QED  BY <1>2, <2>3, <3>1, <3>2
  <2>5. (L + 1) * G[m] \in Nat /\ (L + 1) * G[n + 1] \in Nat
    BY <1>2, <2>3, SMTT(30)
  <2> QED  BY <1>2, <2>2, <2>4, <2>5
\* A gap takes at most L new rows.
<1>4. ASSUME NEW k \in 1..Len(rows), k < Len(rows), NEW c \in Nat \ {0}, c <= L
      PROVE  /\ StepFits(rows[k].key, rows[k + 1].key, c, G[m])
             /\ StepFits(rows[k].key, rows[k + 1].key, c, 1)
  <2>1. k + 1 \in 1..Len(rows) /\ rows[k].key \in Int /\ rows[k + 1].key \in Int
    BY <1>1, <1>4
  <2>2. (c + 1) * G[m] <= (L + 1) * G[m]
    <3>1. \A x, y, z \in Nat : x <= y => x * z <= y * z
      OBVIOUS
    <3>2. c + 1 \in Nat /\ L + 1 \in Nat /\ c + 1 <= L + 1
      BY <1>4
    <3> QED  BY <1>2, <3>1, <3>2
  <2>3. rows[k].key + G[n] <= rows[k + 1].key
    BY <1>4
  <2>4. (c + 1) * G[m] \in Nat /\ (L + 1) * G[m] \in Nat
    BY <1>2, SMTT(30)
  <2>5. (c + 1) * G[m] <= rows[k + 1].key - rows[k].key
    <3> DEFINE x == (c + 1) * G[m]
               y == (L + 1) * G[m]
    <3>1. x \in Nat /\ y \in Nat /\ x <= y /\ y <= G[n]
      BY <1>3, <2>2, <2>4
    <3> HIDE DEF x, y
    <3>2. x <= rows[k + 1].key - rows[k].key
      BY <1>2, <2>1, <2>3, <3>1, SMTT(30)
    <3> QED  BY <3>2 DEF x
  <2>6. StepFits(rows[k].key, rows[k + 1].key, c, G[m])
    BY <1>2, <2>1, <2>5, DividedGapFits
  <2>7. 1 \in Nat /\ 1 <= G[m] /\ G[m] \in Nat
    BY <1>2
  <2>8. StepFits(rows[k].key, rows[k + 1].key, c, 1)
    BY <2>1, <2>6, <2>7, CloserFits
  <2> QED  BY <2>6, <2>8
<1>5. ASSUME NEW g, \A k \in 1..Len(rows), c \in Nat \ {0} :
                      k < Len(rows) /\ c <= L => StepFits(rows[k].key, rows[k + 1].key, c, g)
      PROVE  GapsFit(rows, I, a, g)
  <2> SUFFICES ASSUME a # NoAlignment
               PROVE  /\ a.old > 1 /\ a.new > 1
                           => StepFits(rows[a.old - 1].key, rows[a.old].key, a.new - 1, g)
                      /\ a.old + a.n - 1 < Len(rows) /\ TurnsAfter(I, a) > 0
                           => StepFits(rows[a.old + a.n - 1].key, rows[a.old + a.n].key,
                                       TurnsAfter(I, a), g)
    BY DEF GapsFit
  <2>1. /\ a.old \in Nat /\ a.new \in Nat /\ a.n \in Nat /\ a.old >= 1 /\ a.new >= 1 /\ a.n >= 1
        /\ a.new + a.n - 1 <= Len(I) /\ a.old + a.n - 1 <= Len(rows)
    BY DEF Fits, Alignment, OutOfRange
  <2>2. ASSUME a.old > 1, a.new > 1
        PROVE  StepFits(rows[a.old - 1].key, rows[a.old].key, a.new - 1, g)
    <3> DEFINE k == a.old - 1
               c == a.new - 1
    <3>1. k \in 1..Len(rows) /\ k < Len(rows) /\ k + 1 = a.old
      BY <1>1, <2>1, <2>2, SMTT(30)
    <3>2. c \in Nat \ {0} /\ c <= L
      BY <1>1, <2>1, <2>2
    <3>3. StepFits(rows[k].key, rows[k + 1].key, c, g)
      BY <1>5, <3>1, <3>2
    <3> QED  BY <3>1, <3>3
  <2>3. ASSUME a.old + a.n - 1 < Len(rows), TurnsAfter(I, a) > 0
        PROVE  StepFits(rows[a.old + a.n - 1].key, rows[a.old + a.n].key, TurnsAfter(I, a), g)
    <3> DEFINE last == a.old + a.n - 1
               c == TurnsAfter(I, a)
    <3>1. last \in 1..Len(rows) /\ last < Len(rows) /\ last + 1 = a.old + a.n
      BY <1>1, <2>1, <2>3
    <3>2. c \in Nat \ {0} /\ c <= L
      BY <1>1, <2>1, <2>3, SMTT(30) DEF TurnsAfter
    <3>3. StepFits(rows[last].key, rows[last + 1].key, c, g)
      BY <1>5, <3>1, <3>2
    <3> QED  BY <3>1, <3>3
  <2> QED  BY <2>2, <2>3
<1> QED  BY <1>4, <1>5

----------------------------------------------------------------------------
(* Calls that have not placed their turns yet leave the room they need.    *)

\* The calls that have placed their turns, or ended without.
Due(p) == merge[p].pc \in {"lock", "recheck", "read", "align"}
Spent == {c \in 1..calls : \A p \in Proc : Due(p) => merge[p].call # c}

\* The keys of rows written or about to be.
HasKey(x) ==
  \/ \E r \in turns : x = r.key
  \/ \E p \in Proc : \E k \in 1..Len(merge[p].todo) : x = merge[p].todo[k].key
Apart(g) == \A x, y \in Int : HasKey(x) /\ HasKey(y) /\ x < y => x + g <= y

PayloadKnown(p) == merge[p].pc # "idle" => merge[p].payload \in Payload \cup SinglePair
Roomy(p) ==
  merge[p].pc \in Planned /\ merge[p].kind # "resend"
    => GapsFit(merge[p].seen, merge[p].payload, merge[p].at, 1)
RoomInv(G) ==
  /\ Apart(G[Cardinality(Spent)])
  /\ \A p \in Proc : PayloadKnown(p) /\ Roomy(p)

\* There are at most MaxCalls of them.
LEMMA CallsCount ==
  ASSUME NEW c \in 0..MaxCalls, NEW S \in SUBSET (1..c)
  PROVE  IsFiniteSet(S) /\ Cardinality(S) \in 0..MaxCalls
<1>1. c \in Nat /\ c <= MaxCalls /\ MaxCalls \in Nat
  BY ReconcilerAssumption
<1>2. IsFiniteSet(1..c) /\ Cardinality(1..c) = c
  BY <1>1, FS_Interval
<1>3. IsFiniteSet(S) /\ Cardinality(S) <= Cardinality(1..c)
  BY <1>2, FS_Subset
<1>4. Cardinality(S) \in Nat
  BY <1>3, FS_CardinalityType
<1> QED  BY <1>1, <1>2, <1>3, <1>4

\* No call becomes due again.
LEMMA SpentGrows ==
  ASSUME TypeInv, TypeInv', NEW p \in Proc, \A q \in Proc : q # p => merge'[q] = merge[q],
         calls' >= calls,
         Due(p)' => (Due(p) /\ merge'[p].call = merge[p].call) \/ merge'[p].call > calls
  PROVE  /\ Spent \in SUBSET Spent'
         /\ Cardinality(Spent) \in 0..MaxCalls /\ Cardinality(Spent)' \in 0..MaxCalls
         /\ Cardinality(Spent) <= Cardinality(Spent)'
<1>1. calls \in Nat /\ calls' \in Nat /\ calls <= calls'
  BY ReconcilerAssumption DEF TypeInv, TypeOK
<1>2. Spent \in SUBSET Spent'
  <2> SUFFICES ASSUME NEW c \in Spent PROVE c \in Spent'
    OBVIOUS
  <2>1. c \in 1..calls /\ \A q \in Proc : Due(q) => merge[q].call # c
    BY DEF Spent
  <2>2. ASSUME NEW q \in Proc, Due(q)' PROVE merge'[q].call # c
    <3>1. CASE q = p
      BY <1>1, <2>1, <2>2, <3>1
    <3>2. CASE q # p
      BY <2>1, <2>2, <3>2 DEF Due
    <3> QED  BY <3>1, <3>2
  <2>3. c \in 1..calls'
    BY <1>1, <2>1
  <2> QED  BY <2>2, <2>3 DEF Spent
<1>3. IsFiniteSet(Spent') /\ Cardinality(Spent') \in 0..MaxCalls
  <2>1. Spent' \in SUBSET (1..calls') /\ calls' \in 0..MaxCalls
    BY DEF Spent, TypeInv, TypeOK
  <2> QED  BY <2>1, CallsCount
<1>4. Cardinality(Spent) \in 0..MaxCalls
  <2>1. Spent \in SUBSET (1..calls) /\ calls \in 0..MaxCalls
    BY DEF Spent, TypeInv, TypeOK
  <2> QED  BY <2>1, CallsCount
<1>5. Cardinality(Spent) <= Cardinality(Spent')
  BY <1>2, <1>3, FS_Subset
<1> QED  BY <1>2, <1>3, <1>4, <1>5

\* A step that adds no key, and moves a call that has its place or keeps it.
LEMMA RoomKept ==
  ASSUME TypeInv, TypeInv', NEW p \in Proc, \A q \in Proc : q # p => merge'[q] = merge[q],
         calls' >= calls,
         Due(p)' => (Due(p) /\ merge'[p].call = merge[p].call) \/ merge'[p].call > calls,
         NEW L \in Nat, NEW G, GapsLast(G, L), RoomInv(G),
         \A x \in Int : HasKey(x)' => HasKey(x),
         PayloadKnown(p)', Roomy(p)'
  PROVE  RoomInv(G)'
<1> DEFINE n == Cardinality(Spent)
<1>1. n \in 0..MaxCalls /\ n' \in 0..MaxCalls /\ n <= n'
  BY SpentGrows
<1>2. Apart(G[n])
  BY DEF RoomInv
<1> HIDE DEF n
<1>3. G[n'] <= G[n] /\ G[n] \in Nat /\ G[n'] \in Nat
  BY <1>1, GapsShrink
<1>4. ASSUME NEW x \in Int, NEW y \in Int, HasKey(x)', HasKey(y)', x < y
      PROVE  x + G[n'] <= y
  <2>1. x + G[n] <= y
    BY <1>2, <1>4 DEF Apart
  <2> QED  BY <1>3, <2>1
<1>5. Apart(G[n])'
  BY <1>4 DEF Apart
<1>6. ASSUME NEW q \in Proc PROVE PayloadKnown(q)' /\ Roomy(q)'
  <2>1. CASE q = p
    BY <2>1
  <2>2. CASE q # p
    <3>1. PayloadKnown(q) /\ Roomy(q) /\ merge'[q] = merge[q]
      BY <2>2 DEF RoomInv
    <3> QED  BY <3>1 DEF PayloadKnown, Roomy, GapsFit
  <2> QED  BY <2>1, <2>2
<1> QED  BY <1>5, <1>6 DEF RoomInv, n

\* A call that goes on as it is, and one that ends.
LEMMA MoveKeepsRoom ==
  ASSUME TypeInv, TypeInv', NEW p \in Proc, \A q \in Proc : q # p => merge'[q] = merge[q],
         NEW L \in Nat, NEW G, GapsLast(G, L), RoomInv(G), calls' = calls,
         \A r \in turns' : HasKey(r.key),
         \/ merge'[p] = Idle
         \/ /\ merge[p].pc # "idle"
            /\ Due(p)' => Due(p)
            /\ merge'[p].pc \in Planned /\ merge'[p].kind # "resend"
                 => merge[p].pc \in Planned /\ merge[p].kind # "resend"
            /\ merge'[p].call = merge[p].call /\ merge'[p].payload = merge[p].payload
            /\ merge'[p].pc \in Planned => merge'[p].seen = merge[p].seen
            /\ merge'[p].pc \in Planned /\ merge'[p].kind # "resend" => merge'[p].at = merge[p].at
            /\ \A k \in 1..Len(merge'[p].todo) : HasKey(merge'[p].todo[k].key)
  PROVE  RoomInv(G)'
<1>0. calls' >= calls
  BY ReconcilerAssumption DEF TypeInv, TypeOK
<1>9. Idle.pc = "idle" /\ Idle.todo = <<>>
  BY DEF Idle
<1>1. Due(p)' => Due(p) /\ merge'[p].call = merge[p].call
  <2>1. CASE merge'[p] = Idle
    BY <1>9, <2>1 DEF Due
  <2>2. CASE merge'[p] # Idle
    BY <2>2
  <2> QED  BY <2>1, <2>2
<1>2. ASSUME NEW x \in Int, HasKey(x)' PROVE HasKey(x)
  <2>1. CASE \E r \in turns' : x = r.key
    BY <2>1
  <2>2. ASSUME NEW q \in Proc, NEW k \in 1..Len(merge'[q].todo), x = merge'[q].todo[k].key
        PROVE  HasKey(x)
    <3>1. CASE q # p
      BY <2>2, <3>1 DEF HasKey
    <3>2. CASE q = p
      BY <1>9, <2>2, <3>2
    <3> QED  BY <3>1, <3>2
  <2> QED  BY <1>2, <2>1, <2>2 DEF HasKey
<1>3. PayloadKnown(p)' /\ Roomy(p)'
  <2>1. PayloadKnown(p) /\ Roomy(p)
    BY DEF RoomInv
  <2>2. PayloadKnown(p)'
    <3>1. CASE merge'[p] = Idle
      BY <1>9, <3>1 DEF PayloadKnown
    <3>2. CASE merge'[p] # Idle
      BY <2>1, <3>2 DEF PayloadKnown
    <3> QED  BY <3>1, <3>2
  <2>3. Roomy(p)'
    <3>1. CASE merge'[p] = Idle
      BY <1>9, <3>1 DEF Roomy, Planned
    <3>2. CASE ~ (merge'[p].pc \in Planned /\ merge'[p].kind # "resend")
      BY <3>2 DEF Roomy
    <3>3. CASE merge'[p] # Idle /\ merge'[p].pc \in Planned /\ merge'[p].kind # "resend"
      BY <2>1, <3>3 DEF Roomy, GapsFit
    <3> QED  BY <3>1, <3>2, <3>3
  <2> QED  BY <2>2, <2>3
<1> QED  BY <1>0, <1>1, <1>2, <1>3, RoomKept

\* A call that starts.
LEMMA BeginKeepsRoom ==
  ASSUME TypeInv, TypeInv', NEW p \in Proc, NEW kind \in {"batch", "single"},
         NEW payload \in Payload \cup SinglePair, Begin(p, kind, payload),
         NEW L \in Nat, NEW G, GapsLast(G, L), RoomInv(G)
  PROVE  RoomInv(G)'
<1>1. /\ calls' = calls + 1 /\ calls \in Nat /\ turns' = turns
      /\ merge'[p].pc = "lock" /\ merge'[p].call = calls + 1 /\ merge'[p].payload = payload
      /\ merge'[p].todo = <<>>
      /\ \A q \in Proc : q # p => merge'[q] = merge[q]
  BY ReconcilerAssumption DEF Begin, TypeInv, TypeOK, Idle
<1>2. calls' >= calls /\ merge'[p].call > calls
  BY <1>1
<1>3. ASSUME NEW x \in Int, HasKey(x)' PROVE HasKey(x)
  <2>1. ASSUME NEW q \in Proc, NEW k \in 1..Len(merge'[q].todo), x = merge'[q].todo[k].key
        PROVE  HasKey(x)
    <3>1. q # p
      BY <1>1, <2>1
    <3> QED  BY <1>1, <2>1, <3>1 DEF HasKey
  <2> QED  BY <1>1, <1>3, <2>1 DEF HasKey
<1>4. PayloadKnown(p)' /\ Roomy(p)'
  BY <1>1 DEF PayloadKnown, Roomy, Planned
<1> QED  BY <1>1, <1>2, <1>3, <1>4, RoomKept

\* A call that places its turns takes one of the distances that are left.
LEMMA PlaceSpends ==
  ASSUME TypeInv, TypeInv', RefusedInv, NEW p \in Proc, merge[p].pc = "align", ~ Due(p)',
         calls' = calls, \A q \in Proc : q # p => merge'[q] = merge[q]
  PROVE  /\ Cardinality(Spent) \in 0..MaxCalls /\ Cardinality(Spent)' \in 0..MaxCalls
         /\ Cardinality(Spent) < Cardinality(Spent)'
<1>1. calls \in Nat /\ merge[p].call \in 1..calls
  BY IdsTyped
<1>2. /\ Spent \in SUBSET Spent'
      /\ Cardinality(Spent) \in 0..MaxCalls /\ Cardinality(Spent)' \in 0..MaxCalls
      /\ Cardinality(Spent) <= Cardinality(Spent)'
  BY <1>1, SpentGrows
<1>3. merge[p].call \in Spent'
  <2> SUFFICES ASSUME NEW q \in Proc, Due(q)' PROVE merge'[q].call # merge[p].call
    BY <1>1 DEF Spent
  <2>1. q # p /\ merge'[q] = merge[q] /\ merge[q].pc # "idle"
    BY DEF Due
  <2> QED  BY <2>1 DEF RefusedInv, CallsDistinct
<1>4. merge[p].call \notin Spent
  BY DEF Spent, Due
<1>5. IsFiniteSet(Spent')
  <2>1. Spent' \in SUBSET (1..calls') /\ calls' \in 0..MaxCalls
    BY DEF Spent, TypeInv, TypeOK
  <2> QED  BY <2>1, CallsCount
<1>6. Spent # Spent'
  BY <1>3, <1>4
<1>7. Cardinality(Spent) # Cardinality(Spent')
  BY <1>2, <1>5, <1>6, FS_Subset
<1> QED  BY <1>2, <1>7

\* Stamped rows keep their turns and keys.
LEMMA StampedPlaces ==
  ASSUME NEW new \in Seq(NewRow), NEW call
  PROVE  /\ Len(Stamped(new, call)) = Len(new) /\ Len(new) \in Nat
         /\ \A k \in 1..Len(new) : /\ Stamped(new, call)[k].turn = new[k].turn
                                   /\ Stamped(new, call)[k].key = new[k].key
                                   /\ Stamped(new, call)[k].id = <<call, k>>
<1>1. Len(new) \in Nat /\ DOMAIN new = 1..Len(new)
  OBVIOUS
<1> QED  BY <1>1 DEF Stamped

\* Placing the turns keeps all keys as far apart as the next call needs.
LEMMA AlignKeepsRoom ==
  ASSUME TypeInv, TypeInv', RefusedInv, LockInv, PlanInv, NEW p \in Proc, Align(p),
         NEW L \in Nat, PayloadsFit(L), NEW G, GapsLast(G, L), RoomInv(G)
  PROVE  RoomInv(G)'
<1>1. PICK a : a = FindAlignment(TurnsOf(merge[p].seen), merge[p].payload,
                           [z \in AnchorSizes |-> LoadAnchorIndex(merge[p].seen, z)],
                           merge[p].kind = "batch")
  OBVIOUS
<1>2. merge[p].pc = "align" /\ turns' = turns /\ calls' = calls
  BY DEF Align
<1>3. CASE OutOfRange(merge[p].seen, a)
  <2>1. Leave(p, "failed")
    BY <1>1, <1>3, AlignSets
  <2>2. merge'[p] = Idle /\ \A q \in Proc : q # p => merge'[q] = merge[q]
    BY <2>1, LeaveTyped DEF TypeInv
  <2>3. \A r \in turns' : HasKey(r.key)
    BY <1>2 DEF HasKey
  <2> QED  BY <1>2, <2>2, <2>3, MoveKeepsRoom
<1>4. CASE ~ OutOfRange(merge[p].seen, a)
  <2> DEFINE rows == merge[p].seen
             I == merge[p].payload
             new == NewRows(rows, I, a)
             n == Cardinality(Spent)
             m == Cardinality(Spent)'
             b == RowsBefore(rows, a)
             l == RowsUpTo(rows, a)
             t == TurnsBefore(a)
             keys == {rows[k].key : k \in 1..Len(rows)} \cup {new[j].key : j \in 1..Len(new)}
  <2>1. /\ Fits(a, I) /\ merge'[p].pc \in {"check", "readAnchors", "write"}
        /\ merge'[p].at = a /\ merge'[p].todo = Plan(p)'
        /\ merge'[p].call = merge[p].call /\ merge'[p].seen = rows
        /\ merge'[p].payload = I /\ merge'[p].kind = merge[p].kind
        /\ \A q \in Proc : q # p => merge'[q] = merge[q]
    BY <1>1, <1>4, AlignSets
  <2>2. rows \in Seq(Row) /\ I \in Seq(Turn) /\ Len(rows) \in Nat
        /\ \A k \in 1..Len(rows) : rows[k].key \in Int
    BY MergeTyped, RowsTyped DEF TypeInv
  <2>3. rows = Table /\ SeenGrows(p)
    BY <1>2 DEF PlanInv, CallPlan, SeenIsTable, Writing
  <2>4. n \in 0..MaxCalls /\ m \in 0..MaxCalls /\ n < m
    <3>1. ~ Due(p)'
      BY <2>1 DEF Due
    <3> QED  BY <1>2, <2>1, <3>1, PlaceSpends
  <2>5. Apart(G[n]) /\ PayloadKnown(p)
    BY DEF RoomInv
  <2>6. Len(I) <= L
    BY <1>2, <2>5 DEF PayloadKnown, PayloadsFit
  <2> HIDE DEF n, m
  <2>7. \A k \in 1..Len(rows) : k < Len(rows) => rows[k].key + G[n] <= rows[k + 1].key
    <3> SUFFICES ASSUME NEW k \in 1..Len(rows), k < Len(rows)
                 PROVE  rows[k].key + G[n] <= rows[k + 1].key
      OBVIOUS
    <3>1. k + 1 \in 1..Len(rows) /\ rows[k].key \in Int /\ rows[k + 1].key \in Int
      BY <2>2
    <3>2. rows[k] \in turns /\ rows[k + 1] \in turns
      BY <2>3, <3>1, TableListsTurns DEF TypeInv
    <3>3. HasKey(rows[k].key) /\ HasKey(rows[k + 1].key)
      BY <3>2 DEF HasKey
    <3>4. rows[k].key < rows[k + 1].key
      BY <2>3, <3>1 DEF SeenGrows
    <3> QED  BY <2>5, <3>1, <3>3, <3>4 DEF Apart
  <2>8. GapsFit(rows, I, a, G[m]) /\ GapsFit(rows, I, a, 1)
    BY <1>4, <2>1, <2>2, <2>4, <2>6, <2>7, GapsFitApart
  <2>9. G[m] \in Nat /\ G[m] <= KeyGap /\ G[n] \in Nat /\ G[m] <= G[n]
    BY <2>4, GapsShrink
  <2>10. \A k \in 1..Len(rows) : k < Len(rows) => rows[k].key + G[m] <= rows[k + 1].key
    <3> SUFFICES ASSUME NEW k \in 1..Len(rows), k < Len(rows)
                 PROVE  rows[k].key + G[m] <= rows[k + 1].key
      OBVIOUS
    <3>1. rows[k].key \in Int /\ rows[k + 1].key \in Int
      BY <2>2
    <3>2. rows[k].key + G[n] <= rows[k + 1].key
      BY <2>7
    <3> QED  BY <2>9, <3>1, <3>2, SMTT(30)
  <2> HIDE DEF b, l, t
  <2>11. /\ GoesIn(rows, I, new, b, l, t, G[m])
         /\ \A i, j \in 1..(Len(rows) + Len(new)) :
              /\ Merged(rows, new, b, l, t)[i].key \in Int
              /\ i < j => Merged(rows, new, b, l, t)[i].key + G[m] <= Merged(rows, new, b, l, t)[j].key
    <3>1. /\ b = RowsBefore(rows, a) /\ l = RowsUpTo(rows, a) /\ t = TurnsBefore(a)
          /\ new = NewRows(rows, I, a) /\ ~ OutOfRange(rows, a) /\ Fits(a, I)
      BY <1>4, <2>1 DEF b, l, t
    <3> HIDE DEF new, rows, I
    <3> QED  BY ONLY <2>2, <2>8, <2>9, <2>10, <3>1, PlanGrows, ZenonT(30)
  <2>12. \A x, y \in keys : x < y => x + G[m] <= y
    <3> HIDE DEF new, rows, I
    <3>1. \A x, y \in {rows[k].key : k \in 1..Len(rows)} \cup {new[j].key : j \in 1..Len(new)} :
             x < y => x + G[m] <= y
      BY ONLY <2>2, <2>9, <2>11, MergedKeys
    <3> QED  BY <3>1
  <2>13. new \in Seq(NewRow)
    BY <1>4, <2>1, <2>2, NewRowsTyped
  <2> HIDE DEF new
  <2>14. ASSUME NEW x \in Int, HasKey(x)' PROVE x \in keys
    <3>1. ASSUME NEW r \in turns', x = r.key PROVE x \in keys
      <4>1. r \in turns
        BY <1>2
      <4>2. PICK k \in 1..Len(rows) : rows[k] = r
        BY <2>3, <4>1, TableListsTurns DEF TypeInv
      <4> QED  BY <3>1, <4>2
    <3>2. ASSUME NEW q \in Proc, NEW k \in 1..Len(merge'[q].todo), x = merge'[q].todo[k].key
          PROVE  x \in keys
      <4>1. CASE q # p
        <5>1. merge[q].pc \in {"idle", "lock"}
          BY <1>2, <4>1, OthersWait
        <5>2. merge'[q].todo = <<>>
          BY <2>1, <4>1, <5>1 DEF PlanInv, CallPlan
        <5> QED  BY <3>2, <5>2
      <4>2. CASE q = p
        <5>1. Plan(p)' = IF Rejected(rows, I, a) THEN <<>> ELSE Stamped(new, merge[p].call)
          BY <2>1 DEF Plan, Stamped, new
        <5>2. Plan(p)' # <<>>
          BY <2>1, <3>2, <4>2
        <5>3. merge'[q].todo = Stamped(new, merge[p].call)
          BY <2>1, <4>2, <5>1, <5>2
        <5>4. k \in 1..Len(new) /\ merge'[q].todo[k].key = new[k].key
          BY <2>13, <3>2, <5>3, StampedPlaces
        <5> QED  BY <3>2, <5>4
      <4> QED  BY <4>1, <4>2
    <3> QED  BY <2>14, <3>1, <3>2 DEF HasKey
  <2> HIDE DEF keys
  <2>15. Apart(G[Cardinality(Spent)])'
    BY <2>12, <2>14 DEF Apart, m
  <2>16. PayloadKnown(p)' /\ Roomy(p)'
    BY <1>2, <2>1, <2>5, <2>8 DEF PayloadKnown, Roomy, GapsFit
  <2>17. ASSUME NEW q \in Proc PROVE PayloadKnown(q)' /\ Roomy(q)'
    <3>1. CASE q = p
      BY <2>16, <3>1
    <3>2. CASE q # p
      <4>1. PayloadKnown(q) /\ Roomy(q) /\ merge'[q] = merge[q]
        BY <2>1, <3>2 DEF RoomInv
      <4> QED  BY <4>1 DEF PayloadKnown, Roomy, GapsFit
    <3> QED  BY <3>1, <3>2
  <2> QED  BY <2>15, <2>17 DEF RoomInv
<1> QED  BY <1>3, <1>4

\* Every step keeps the room.
LEMMA RoomInvStep ==
  ASSUME TypeInv, RefusedInv, LockInv, PlanInv, [Next]_vars,
         NEW L \in Nat, PayloadsFit(L), NEW G, GapsLast(G, L), RoomInv(G)
  PROVE  RoomInv(G)'
<1>0. TypeInv' /\ PlanInv'
  BY TypeInvStep, PlanInvStep
<1>1. ASSUME NEW p \in Proc, IngestBatch(p) \/ IngestSingle(p) PROVE RoomInv(G)'
  <2>1. PICK kind \in {"batch", "single"}, payload \in Payload \cup SinglePair :
          Begin(p, kind, payload)
    BY <1>1 DEF IngestBatch, IngestSingle
  <2> QED  BY <1>0, <2>1, BeginKeepsRoom
<1>2. turns' \subseteq turns => \A r \in turns' : HasKey(r.key)
  BY DEF HasKey
<1>3. ASSUME NEW p \in Proc, NEW pc, Goto(p, pc), merge[p].pc # "idle", turns' = turns, calls' = calls,
             pc \in {"recheck", "read"} => Due(p),
             pc \notin {"recheck", "read"} => pc \notin {"lock", "align"} /\ merge[p].pc \in Planned
      PROVE  RoomInv(G)'
  <2>1. /\ merge'[p].pc = pc /\ merge'[p].kind = merge[p].kind
        /\ merge'[p].payload = merge[p].payload /\ merge'[p].call = merge[p].call
        /\ merge'[p].seen = merge[p].seen /\ merge'[p].at = merge[p].at
        /\ merge'[p].todo = merge[p].todo
        /\ \A q \in Proc : q # p => merge'[q] = merge[q]
    BY <1>3 DEF Goto, TypeInv, TypeOK, Merge
  <2>2. \A k \in 1..Len(merge'[p].todo) : HasKey(merge'[p].todo[k].key)
    BY <2>1 DEF HasKey
  <2>3. Due(p)' => Due(p)
    BY <1>3, <2>1 DEF Due
  <2>4. merge'[p].pc \in Planned => merge[p].pc \in Planned
    BY <1>3, <2>1 DEF Planned
  <2> QED  BY <1>0, <1>2, <1>3, <2>1, <2>2, <2>3, <2>4, MoveKeepsRoom
<1>4. ASSUME NEW p \in Proc, NEW result \in {"ok", "stale", "failed"}, Leave(p, result),
             turns' \subseteq turns, calls' = calls
      PROVE  RoomInv(G)'
  <2>1. merge'[p] = Idle /\ \A q \in Proc : q # p => merge'[q] = merge[q]
    BY <1>4, LeaveTyped DEF TypeInv
  <2> QED  BY <1>0, <1>2, <1>4, <2>1, MoveKeepsRoom
<1>5. ASSUME NEW p \in Proc, AcquireLock(p) PROVE RoomInv(G)'
  <2>1. PICK pc \in {"recheck", "read"} : Goto(p, pc)
    BY <1>5 DEF AcquireLock
  <2>2. Due(p) /\ merge[p].pc # "idle" /\ turns' = turns /\ calls' = calls
    BY <1>5 DEF AcquireLock, Due
  <2> QED  BY <1>3, <2>1, <2>2
<1>6. ASSUME NEW p \in Proc, Recheck(p) PROVE RoomInv(G)'
  <2>1. merge[p].pc = "recheck" /\ Due(p) /\ turns' = turns /\ calls' = calls
    BY <1>6 DEF Recheck, Due
  <2>2. Goto(p, "read") \/ Leave(p, "stale")
    BY <1>6 DEF Recheck
  <2> QED  BY <1>3, <1>4, <2>1, <2>2
<1>7. ASSUME NEW p \in Proc, ReadTurns(p) PROVE RoomInv(G)'
  <2>1. /\ merge'[p].pc = "align" /\ merge'[p].kind = merge[p].kind /\ merge[p].pc = "read"
        /\ merge'[p].payload = merge[p].payload /\ merge'[p].call = merge[p].call
        /\ merge'[p].at = merge[p].at /\ merge'[p].todo = merge[p].todo
        /\ turns' = turns /\ calls' = calls
        /\ \A q \in Proc : q # p => merge'[q] = merge[q]
    BY <1>7 DEF ReadTurns, TypeInv, TypeOK, Merge
  <2>2. \A k \in 1..Len(merge'[p].todo) : HasKey(merge'[p].todo[k].key)
    BY <2>1 DEF HasKey
  <2>3. Due(p) /\ merge'[p].pc \notin Planned
    BY <2>1 DEF Due, Planned
  <2> QED  BY <1>0, <1>2, <2>1, <2>2, <2>3, MoveKeepsRoom
<1>8. ASSUME NEW p \in Proc, ReadForAnchors(p) PROVE RoomInv(G)'
  <2>1. /\ merge'[p].pc = "deleteAnchors" /\ merge'[p].kind = merge[p].kind
        /\ merge[p].pc = "readAnchors" /\ merge'[p].seen = merge[p].seen
        /\ merge'[p].payload = merge[p].payload /\ merge'[p].call = merge[p].call
        /\ merge'[p].at = merge[p].at /\ merge'[p].todo = merge[p].todo
        /\ turns' = turns /\ calls' = calls
        /\ \A q \in Proc : q # p => merge'[q] = merge[q]
    BY <1>8 DEF ReadForAnchors, TypeInv, TypeOK, Merge
  <2>2. \A k \in 1..Len(merge'[p].todo) : HasKey(merge'[p].todo[k].key)
    BY <2>1 DEF HasKey
  <2>3. ~ Due(p)' /\ merge[p].pc \in Planned
    BY <2>1 DEF Due, Planned
  <2> QED  BY <1>0, <1>2, <2>1, <2>2, <2>3, MoveKeepsRoom
<1>9. ASSUME NEW p \in Proc, DeleteAnchors(p) \/ InsertAnchors(p) \/ RefreshFails(p)
      PROVE  RoomInv(G)'
  <2>1. PICK pc \in {"insertAnchors", "check"} : Goto(p, pc)
    BY <1>9 DEF DeleteAnchors, InsertAnchors, RefreshFails
  <2>2. merge[p].pc # "idle" /\ merge[p].pc \in Planned /\ turns' = turns /\ calls' = calls
    BY <1>9 DEF DeleteAnchors, InsertAnchors, RefreshFails, Planned
  <2> QED  BY <1>3, <2>1, <2>2
<1>10. ASSUME NEW p \in Proc, CheckEpoch(p) PROVE RoomInv(G)'
  <2>1. merge[p].pc = "check" /\ merge[p].pc \in Planned /\ turns' = turns /\ calls' = calls
    BY <1>10 DEF CheckEpoch, Planned
  <2>2. Goto(p, "purge") \/ Leave(p, "ok")
    BY <1>10 DEF CheckEpoch
  <2> QED  BY <1>3, <1>4, <2>1, <2>2
<1>11. ASSUME NEW p \in Proc, Purge(p) \/ Fail(p) PROVE RoomInv(G)'
  BY <1>4, <1>11 DEF Purge, Fail
<1>12. ASSUME NEW p \in Proc, ExactResend(p) PROVE RoomInv(G)'
  <2>1. /\ merge'[p].pc = "write" /\ merge'[p].kind = "resend" /\ merge[p].pc = "align"
        /\ merge'[p].payload = merge[p].payload /\ merge'[p].call = merge[p].call
        /\ merge'[p].seen = merge[p].seen
        /\ turns' = turns /\ calls' = calls
        /\ \A q \in Proc : q # p => merge'[q] = merge[q]
    BY <1>12 DEF ExactResend, TypeInv, TypeOK, Merge
  <2>2. \A k \in 1..Len(merge'[p].todo) : \E j \in 1..Len(merge[p].seen) :
          SamePlace(merge'[p].todo[k], merge[p].seen[j])
    BY <1>0, <2>1 DEF PlanInv, CallPlan, PlanStands, RepeatsRows, Planned
  <2>3. merge[p].seen = Table
    BY <2>1 DEF PlanInv, CallPlan, SeenIsTable
  <2>4. \A k \in 1..Len(merge'[p].todo) : HasKey(merge'[p].todo[k].key)
    BY <2>2, <2>3, TableListsTurns, SMTT(30) DEF SamePlace, HasKey, TypeInv
  <2>5. ~ Due(p)'
    BY <2>1 DEF Due
  <2> QED  BY <1>0, <1>2, <2>1, <2>4, <2>5, MoveKeepsRoom
<1>13. ASSUME NEW p \in Proc, WriteTurn(p) PROVE RoomInv(G)'
  <2> DEFINE todo == merge[p].todo
  <2>1. /\ merge'[p].pc \in {"write", "readAnchors"} /\ merge'[p].kind = merge[p].kind
        /\ merge[p].pc = "write" /\ merge'[p].seen = merge[p].seen
        /\ merge'[p].payload = merge[p].payload /\ merge'[p].call = merge[p].call
        /\ merge'[p].at = merge[p].at /\ merge'[p].todo = Tail(todo)
        /\ calls' = calls
        /\ \A q \in Proc : q # p => merge'[q] = merge[q]
    <3>1. merge' = [merge EXCEPT ![p].todo = Tail(todo), ![p].pc = WriteNext(Tail(todo))]
          /\ merge[p].pc = "write" /\ calls' = calls
      BY <1>13 DEF WriteTurn
    <3>2. WriteNext(Tail(todo)) \in {"write", "readAnchors"}
      BY DEF WriteNext
    <3> QED  BY <3>1, <3>2 DEF TypeInv, TypeOK, Merge
  <2>2. todo \in Seq(Row) /\ todo # <<>>
    BY <2>1, MergeTyped DEF TypeInv, Pending
  <2> HIDE DEF todo
  <2>3. /\ 1 \in 1..Len(todo) /\ Head(todo) = todo[1]
        /\ \A k \in 1..Len(Tail(todo)) : k + 1 \in 1..Len(todo) /\ Tail(todo)[k] = todo[k + 1]
    BY <2>2
  <2>4. \A k \in 1..Len(todo) : HasKey(todo[k].key)
    BY DEF HasKey, todo
  <2>5. \A k \in 1..Len(merge'[p].todo) : HasKey(merge'[p].todo[k].key)
    BY <2>1, <2>3, <2>4
  <2>6. turns' = {r \in turns : r.id # Head(todo).id} \cup {Head(todo)}
    BY <1>13, Zenon DEF WriteTurn, todo
  <2>7. \A r \in turns' : HasKey(r.key)
    <3>1. HasKey(Head(todo).key)
      BY <2>3, <2>4
    <3> QED  BY <2>6, <3>1 DEF HasKey
  <2>8. ~ Due(p)' /\ merge[p].pc \in Planned
    BY <2>1 DEF Due, Planned
  <2> QED  BY <1>0, <2>1, <2>5, <2>7, <2>8, MoveKeepsRoom
<1>14. ASSUME Resurrect \/ UNCHANGED vars PROVE RoomInv(G)'
  <2>1. turns' = turns /\ calls' = calls /\ merge' = merge
    BY <1>14 DEF Resurrect, vars
  <2>2. Spent' = Spent
    BY <2>1 DEF Spent, Due
  <2>3. \A x : HasKey(x)' <=> HasKey(x)
    BY <2>1 DEF HasKey
  <2>4. Apart(G[Cardinality(Spent)])'
    BY <2>2, <2>3 DEF RoomInv, Apart
  <2>5. \A q \in Proc : PayloadKnown(q)' /\ Roomy(q)'
    BY <2>1 DEF RoomInv, PayloadKnown, Roomy, GapsFit
  <2> QED  BY <2>4, <2>5 DEF RoomInv
<1> QED
  BY <1>0, <1>1, <1>5, <1>6, <1>7, <1>8, <1>9, <1>10, <1>11, <1>12, <1>13, <1>14,
     AlignKeepsRoom DEF Next

\* So on Postgres the room lasts as long as the distances do.
LEMMA RoomInvariant ==
  ASSUME Backend = "postgres", NEW L \in Nat, PayloadsFit(L), NEW G, GapsLast(G, L)
  PROVE  Spec => [](PostgresInv /\ PlanInv /\ RoomInv(G))
<1>1. Init => RoomInv(G)
  BY DEF Init, Idle, RoomInv, Apart, HasKey, PayloadKnown, Roomy, Planned
<1>2. PostgresInv /\ PlanInv /\ RoomInv(G) /\ [Next]_vars => RoomInv(G)'
  BY RoomInvStep DEF PostgresInv
<1> QED  BY <1>1, <1>2, PlanInvariant, PTL DEF Spec

\* The rows read, with those of the plan in their places, grow.
StaysInOrder(rows, new, b, l, t) ==
  Growing(Merged(rows, new, b, l, t), Len(rows) + Len(new))
LEMMA PlanLies ==
  ASSUME PostgresInv, PlanInv, NEW p \in Proc, merge[p].pc \in Planned,
         merge[p].kind # "resend", Roomy(p),
         NEW rows, rows = merge[p].seen, NEW I, I = merge[p].payload, NEW a, a = merge[p].at,
         NEW new, new = NewRows(rows, I, a), NEW b, b = RowsBefore(rows, a),
         NEW l, l = RowsUpTo(rows, a), NEW t, t = TurnsBefore(a)
  PROVE  /\ Fits(a, I) /\ ~ OutOfRange(rows, a)
         /\ rows \in Seq(Row) /\ I \in Seq(Turn) /\ new \in Seq(NewRow)
         /\ Len(rows) \in Nat /\ GoesIn(rows, I, new, b, l, t, 1)
         /\ StaysInOrder(rows, new, b, l, t)
         /\ \A k \in 1..Len(rows), j \in 1..Len(new) : rows[k].key # new[j].key
         /\ \A i, j \in 1..Len(new) : new[i].key = new[j].key => i = j
<1>1. rows \in Seq(Row) /\ I \in Seq(Turn)
  BY MergeTyped DEF PostgresInv, TypeInv
<1>2. Fits(a, I) /\ ~ OutOfRange(rows, a)
  BY DEF PlanInv, CallPlan, PlanStands, FollowsPlan
<1>3. \A k \in 1..Len(rows) : k < Len(rows) => rows[k].key + 1 <= rows[k + 1].key
  BY DEF PlanInv, CallPlan, SeenGrows, Planned, Writing
<1>4. GapsFit(rows, I, a, 1)
  BY DEF Roomy
<1>5. 1 \in Nat /\ 1 <= KeyGap
  BY AlignmentAssumption
<1>6. /\ Len(rows) \in Nat /\ GoesIn(rows, I, new, b, l, t, 1)
      /\ \A i, j \in 1..(Len(rows) + Len(new)) :
           /\ Merged(rows, new, b, l, t)[i].key \in Int
           /\ i < j => Merged(rows, new, b, l, t)[i].key + 1 <= Merged(rows, new, b, l, t)[j].key
  <2>1. /\ new = NewRows(rows, I, a) /\ b = RowsBefore(rows, a)
        /\ l = RowsUpTo(rows, a) /\ t = TurnsBefore(a)
    OBVIOUS
  <2> QED  BY ONLY <1>1, <1>2, <1>3, <1>4, <1>5, <2>1, PlanGrows
<1>7. /\ \A k \in 1..Len(rows), j \in 1..Len(new) : rows[k].key # new[j].key
      /\ \A i, j \in 1..Len(new) : new[i].key = new[j].key => i = j
  <2>1. 1 > 0
    OBVIOUS
  <2> QED  BY ONLY <1>5, <1>6, <2>1, MergedKeys
<1>8. new \in Seq(NewRow)
  BY <1>1, <1>2, NewRowsTyped
<1>9. StaysInOrder(rows, new, b, l, t)
  <2>1. Len(rows) + Len(new) \in Nat
    BY ONLY <1>6, SMTT(30) DEF GoesIn
  <2> QED  BY ONLY <1>6, <2>1 DEF StaysInOrder, Growing
<1> QED  BY <1>1, <1>2, <1>6, <1>7, <1>8, <1>9

\* On Postgres the sort keys a call allocates are free when it writes them, as
\* long as the gaps last: with rows KeyGap apart, MaxCalls calls of at most L
\* turns may each divide a gap before its parts are down to the least step.
THEOREM PostgresKeysFree ==
  ASSUME Backend = "postgres", NEW L \in Nat, PayloadsFit(L), NEW G, GapsLast(G, L)
  PROVE  Spec => []KeysFree
<1>1. PostgresInv /\ PlanInv /\ RoomInv(G) => KeysFree
  <2> SUFFICES ASSUME PostgresInv, PlanInv, RoomInv(G), NEW p \in Proc, merge[p].pc = "write",
                      NEW r \in turns, NEW w \in Range(merge[p].todo), r.key = w.key
               PROVE  r.id = w.id
    BY DEF KeysFree
  <2> DEFINE rows == merge[p].seen
             todo == merge[p].todo
             new == NewRows(rows, merge[p].payload, merge[p].at)
  <2>1. merge[p].pc \in Planned /\ Writing(p) /\ Undisturbed(p) /\ Roomy(p) /\ PlanStands(p)
        /\ SeenGrows(p)
    BY DEF Planned, Writing, PostgresInv, LockInv, SeenStands, RoomInv, PlanInv, CallPlan
  <2>2. PICK k \in 1..Len(todo) : w = todo[k]
    <3>1. DOMAIN todo = 1..Len(todo)
      BY MergeTyped, RowsTyped DEF PostgresInv, TypeInv
    <3> QED  BY <3>1 DEF Range
  <2>3. CASE merge[p].kind = "resend"
    <3>1. RepeatsRows(p)
      BY <2>1, <2>3 DEF PlanStands
    <3>2. PICK j \in 1..Len(rows) : SamePlace(w, rows[j])
      BY <2>2, <3>1 DEF RepeatsRows
    <3>3. PICK i \in 1..Len(rows) : SamePlace(r, rows[i])
      BY <2>1, <3>1 DEF RepeatsRows, Undisturbed
    <3>4. Len(rows) \in Nat /\ \A c \in 1..Len(rows) : rows[c].key \in Int
      BY MergeTyped, RowsTyped DEF PostgresInv, TypeInv
    <3>5. \A c \in 1..Len(rows) : c < Len(rows) => rows[c].key + 1 <= rows[c + 1].key
      BY <2>1 DEF SeenGrows
    <3>6. rows[i].key = rows[j].key
      BY <3>2, <3>3 DEF SamePlace
    <3> HIDE DEF rows
    <3> DEFINE key == [c \in 1..Len(rows) |-> rows[c].key]
    <3>7. /\ \A c \in 1..Len(rows) : key[c] \in Int
          /\ \A c \in 1..Len(rows) : c < Len(rows) => key[c] + 1 <= key[c + 1]
      BY <3>4, <3>5
    <3>8. key[i] = key[j]
      BY <3>6
    <3> HIDE DEF key
    <3>9. \A c, d \in 1..Len(rows) : c < d => key[c] + 1 <= key[d]
      BY ONLY <3>4, <3>7, 1 \in Nat, GrowsThroughout
    <3>10. i = j
      BY <3>4, <3>7, <3>8, <3>9
    <3> QED  BY <3>2, <3>3, <3>10 DEF SamePlace
  <2>4. CASE merge[p].kind # "resend"
    <3> DEFINE plan == Plan(p)
               call == merge[p].call
    <3>1. FollowsPlan(p)
      BY <2>1, <2>4 DEF PlanStands
    <3>2. PICK j \in 1..Len(plan) : w = plan[j]
      BY <2>2, <3>1 DEF FollowsPlan
    <3>3. /\ new \in Seq(NewRow)
          /\ \A i \in 1..Len(rows), d \in 1..Len(new) : rows[i].key # new[d].key
          /\ \A i, d \in 1..Len(new) : new[i].key = new[d].key => i = d
      <4>1. PostgresInv /\ PlanInv /\ p \in Proc
        OBVIOUS
      <4>2. new \in Seq(NewRow)
        BY ONLY <2>1, <2>4, <4>1, PlanLies
      <4>3. \A i \in 1..Len(rows), d \in 1..Len(new) : rows[i].key # new[d].key
        BY ONLY <2>1, <2>4, <4>1, PlanLies
      <4>4. \A i, d \in 1..Len(new) : new[i].key = new[d].key => i = d
        BY ONLY <2>1, <2>4, <4>1, PlanLies
      <4> QED  BY ONLY <4>2, <4>3, <4>4
    <3>4. plan = IF Rejected(rows, merge[p].payload, merge[p].at) THEN <<>> ELSE Stamped(new, call)
      BY DEF Plan
    <3>5. \A r1 \in turns : r1.batch = call => \E d \in 1..Len(plan) : r1 = plan[d]
      BY <3>1 DEF FollowsPlan
    <3> HIDE DEF plan, new
    <3>6. plan = Stamped(new, call)
      BY <3>2, <3>4
    <3>7. Len(plan) = Len(new) /\ \A d \in 1..Len(new) : plan[d].key = new[d].key
      BY <3>3, <3>6, StampedPlaces
    <3>8. CASE r.batch = call
      <4>1. PICK d \in 1..Len(plan) : r = plan[d]
        BY <3>5, <3>8
      <4>2. d = j
        BY <3>2, <3>3, <3>7, <4>1
      <4> QED  BY <3>2, <4>1, <4>2
    <3>9. CASE r.batch # call
      <4>1. PICK i \in 1..Len(rows) : SamePlace(r, rows[i])
        BY <2>1, <3>9 DEF Undisturbed
      <4>2. rows[i].key = new[j].key
        BY <3>2, <3>7, <4>1 DEF SamePlace
      <4> QED  BY <3>2, <3>3, <3>7, <4>2
    <3> QED  BY <3>8, <3>9
  <2> QED  BY <2>3, <2>4
<1> QED  BY <1>1, RoomInvariant, PTL

----------------------------------------------------------------------------
(* The payload in the table.                                               *)

\* A list whose elements another one has from some position on occurs in it.
LEMMA OccursAt ==
  ASSUME NEW X, NEW s \in Seq(X), NEW t \in Seq(X), NEW b \in Nat, b + Len(s) <= Len(t),
         \A k \in 1..Len(s) : t[b + k] = s[k]
  PROVE  OccursIn(s, t)
<1> DEFINE at == b + 1
<1>1. Len(s) \in Nat /\ Len(t) \in Nat /\ at \in 1..(Len(t) - Len(s) + 1)
  OBVIOUS
<1>2. at \in Nat \ {0} /\ at + Len(s) - 1 <= Len(t)
  OBVIOUS
<1>3. /\ Window(t, at, Len(s)) \in Seq(X) /\ Len(Window(t, at, Len(s))) = Len(s)
      /\ \A k \in 1..Len(s) : Window(t, at, Len(s))[k] = t[at + k - 1]
  BY ONLY <1>1, <1>2, t \in Seq(X), WindowHolds
<1>4. \A k \in 1..Len(s) : t[at + k - 1] = s[k]
  <2> SUFFICES ASSUME NEW k \in 1..Len(s) PROVE t[at + k - 1] = s[k]
    OBVIOUS
  <2>1. at + k - 1 = b + k
    OBVIOUS
  <2> QED  BY <2>1
<1> HIDE DEF at
<1>5. Window(t, at, Len(s)) = s
  <2> DEFINE v == Window(t, at, Len(s))
  <2>1. v \in Seq(X) /\ Len(v) = Len(s) /\ \A k \in 1..Len(s) : v[k] = s[k]
    BY <1>3, <1>4
  <2> HIDE DEF v
  <2>2. v = s
    BY <2>1
  <2> QED  BY <2>2 DEF v
<1> QED  BY <1>1, <1>5 DEF OccursIn

\* With the new rows in their places the incoming turns stand next to each
\* other, if those that have no new row are the turns of the rows in between.
LEMMA PayloadAt ==
  ASSUME NEW rows, NEW I \in Seq(Turn), NEW new, NEW b, NEW l, NEW t, NEW g,
         Len(rows) \in Nat, GoesIn(rows, I, new, b, l, t, g),
         \A k \in 1..(l - b) : rows[b + k].turn = I[t + k]
  PROVE  /\ b + Len(I) <= Len(rows) + Len(new)
         /\ \A k \in 1..Len(I) : Merged(rows, new, b, l, t)[b + k].turn = I[k]
<1>1. /\ Len(new) \in Nat /\ b \in Nat /\ l \in Nat /\ t \in Nat
      /\ b <= l /\ l <= Len(rows) /\ t <= Len(new)
      /\ Len(new) = Len(I) - (l - b) /\ Len(I) \in Nat
      /\ \A j \in 1..Len(new) : new[j].turn = I[IF j <= t THEN j ELSE j + (l - b)]
  BY DEF GoesIn
<1>2. b + Len(I) <= Len(rows) + Len(new)
  BY <1>1
<1>3. ASSUME NEW k \in 1..Len(I) PROVE Merged(rows, new, b, l, t)[b + k].turn = I[k]
  <2> DEFINE i == b + k
             row == Merged(rows, new, b, l, t)[i]
  <2>1. i \in 1..(Len(rows) + Len(new)) /\ ~ (i <= b) /\ i <= l + Len(new)
    BY <1>1, <1>2
  <2>2. row = IF i <= b THEN rows[i]
              ELSE IF i <= b + t THEN new[i - b]
              ELSE IF i <= l + t THEN rows[i - t]
              ELSE IF i <= l + Len(new) THEN new[i - l]
              ELSE rows[i - Len(new)]
    BY <2>1 DEF Merged
  <2> HIDE DEF row
  <2>3. CASE k <= t
    <3>1. i <= b + t /\ i - b = k /\ k \in 1..Len(new)
      BY <1>1, <2>3
    <3>2. row = new[k]
      BY <2>1, <2>2, <3>1
    <3>3. new[k].turn = I[k]
      BY <1>1, <2>3, <3>1
    <3> QED  BY <3>2, <3>3 DEF row
  <2>4. CASE ~ (k <= t) /\ k <= t + (l - b)
    <3> DEFINE d == k - t
    <3>1. ~ (i <= b + t) /\ i <= l + t /\ i - t = b + d /\ d \in 1..(l - b) /\ t + d = k
      BY <1>1, <2>4
    <3>2. row = rows[b + d]
      BY <2>1, <2>2, <3>1
    <3>3. rows[b + d].turn = I[t + d]
      BY <3>1
    <3> QED  BY <3>1, <3>2, <3>3 DEF row
  <2>5. CASE ~ (k <= t) /\ ~ (k <= t + (l - b))
    <3> DEFINE j == k - (l - b)
    <3>1. ~ (i <= b + t) /\ ~ (i <= l + t) /\ i - l = j /\ j \in 1..Len(new) /\ ~ (j <= t)
          /\ j + (l - b) = k
      BY <1>1, <2>5
    <3>2. row = new[j]
      BY <2>1, <2>2, <3>1
    <3>3. new[j].turn = I[j + (l - b)]
      BY <1>1, <3>1
    <3> QED  BY <3>1, <3>2, <3>3 DEF row
  <2> QED  BY <1>1, <2>3, <2>4, <2>5
<1> QED  BY <1>2, <1>3

\* A list that has the turns of another from some position on.
HoldsAfter(M, n, b, I) ==
  b \in Nat /\ b + Len(I) <= n /\ \A k \in 1..Len(I) : M[b + k].turn = I[k]

\* Then the table has those turns too.
LEMMA OccursInTable ==
  ASSUME PostgresInv, KeysUnique, NEW n, NEW M, NEW b, NEW I \in Seq(Turn),
         ListsTurns(M, n), HoldsAfter(M, n, b, I)
  PROVE  OccursIn(I, TurnsOf(Table))
<1>1. TableSound
  BY DEF PostgresInv, TypeInv
<1>2. /\ n \in Nat /\ b \in Nat /\ b + Len(I) <= n
      /\ \A k \in 1..Len(I) : M[b + k].turn = I[k]
  BY DEF ListsTurns, Growing, HoldsAfter
<1>3. Len(Table) = n /\ \A i \in 1..n : Table[i].key = M[i].key /\ Table[i].turn = M[i].turn
  BY <1>1, TableFollows
<1>4. Table \in Seq(Row)
  BY <1>1, TableListsTurns
<1> DEFINE T == Table
<1> HIDE DEF T
<1>5. /\ TurnsOf(T) \in Seq(Turn) /\ Len(TurnsOf(T)) = n
      /\ \A i \in 1..n : TurnsOf(T)[i] = T[i].turn
  <2>1. DOMAIN T = 1..n
    BY <1>3, <1>4, RowsTyped DEF T
  <2> QED  BY <1>3, <1>4, <2>1, TurnsOfTyped DEF TurnsOf, T
<1>6. \A k \in 1..Len(I) : TurnsOf(T)[b + k] = I[k]
  <2> SUFFICES ASSUME NEW k \in 1..Len(I) PROVE TurnsOf(T)[b + k] = I[k]
    OBVIOUS
  <2>1. b + k \in 1..n
    BY <1>2
  <2> QED  BY <1>2, <1>3, <1>5, <2>1 DEF T
<1>7. OccursIn(I, TurnsOf(T))
  BY <1>2, <1>5, <1>6, OccursAt
<1> QED  BY <1>7 DEF T

\* A pair that was found in the table is there.
LEMMA ResentIsStored ==
  ASSUME PostgresInv, PlanInv, NEW p \in Proc, merge[p].pc \in Planned, merge[p].kind = "resend",
         NEW rows, rows = merge[p].seen, NEW I, I = merge[p].payload,
         NEW b, b = merge[p].at.old - 1
  PROVE  OccursIn(I, TurnsOf(Table))
<1>1. RepeatsRows(p) /\ Undisturbed(p) /\ SeenGrows(p) /\ KeysUnique
  BY DEF PlanInv, CallPlan, PlanStands, PostgresInv, LockInv, SeenStands, Planned, Writing
<1>2. I \in Seq(Turn) /\ Len(rows) \in Nat /\ \A k \in 1..Len(rows) : rows[k].key \in Int
  BY MergeTyped, RowsTyped DEF PostgresInv, TypeInv
<1>3. /\ \A r \in turns : \E k \in 1..Len(rows) : SamePlace(r, rows[k])
      /\ \A k \in 1..Len(rows) : \E r \in turns : SamePlace(r, rows[k])
  BY <1>1 DEF RepeatsRows, Undisturbed
<1>4. b \in Nat /\ b + Len(I) <= Len(rows) /\ \A k \in 1..Len(I) : rows[b + k].turn = I[k]
  <2>1. /\ b + 1 \in 1..(Len(rows) - 1) /\ Len(I) = 2 /\ b \in Nat
        /\ \A i \in 1..2 : I[i] = rows[(b + 1) + i - 1].turn
    <3>1. merge[p].at.old \in 1..(Len(rows) - 1) /\ b + 1 = merge[p].at.old /\ b \in Nat
      BY <1>1 DEF RepeatsRows
    <3> QED  BY <1>1, <3>1 DEF RepeatsRows
  <2>2. \A k \in 1..2 : (b + 1) + k - 1 = b + k
    BY <2>1
  <2>3. \A k \in 1..2 : rows[b + k].turn = I[k]
    BY <2>1, <2>2
  <2>4. b + Len(I) <= Len(rows)
    <3>1. b \in Nat /\ b + 1 \in 1..(Len(rows) - 1) /\ Len(I) = 2 /\ Len(rows) \in Nat
      BY <1>2, <2>1
    <3> QED  BY ONLY <3>1
  <2> QED  BY <2>1, <2>3, <2>4
<1>5. \A i, j \in 1..Len(rows) :
        rows[i].key \in Int /\ (i < j => rows[i].key + 1 <= rows[j].key)
  <2> DEFINE key == [c \in 1..Len(rows) |-> rows[c].key]
  <2>1. \A c \in 1..Len(rows) : c < Len(rows) => rows[c].key + 1 <= rows[c + 1].key
    BY <1>1 DEF SeenGrows
  <2>2. \A c \in 1..Len(rows) : key[c] \in Int
    BY <1>2
  <2>3. \A c \in 1..Len(rows) : c < Len(rows) => key[c] + 1 <= key[c + 1]
    BY <1>2, <2>1
  <2> HIDE DEF key
  <2>4. \A c, d \in 1..Len(rows) : c < d => key[c] + 1 <= key[d]
    BY ONLY <1>2, <2>2, <2>3, 1 \in Nat, GrowsThroughout
  <2> QED  BY <1>2, <2>4 DEF key
<1>6. /\ \A r \in turns : \E i \in 1..Len(rows) : r.key = rows[i].key
      /\ \A i \in 1..Len(rows) : \E r \in turns : r.key = rows[i].key /\ r.turn = rows[i].turn
  BY <1>3 DEF SamePlace
<1>7. ListsTurns(rows, Len(rows)) /\ HoldsAfter(rows, Len(rows), b, I)
  BY ONLY <1>2, <1>4, <1>5, <1>6 DEF ListsTurns, Growing, HoldsAfter
<1> QED  BY <1>1, <1>2, <1>7, OccursInTable

\* Nothing of a plan is left to write, and the rest of the table is what was
\* read.
Stored(call, rows, new, plan) ==
  /\ \A j \in 1..Len(new) : plan[j].key = new[j].key /\ plan[j].turn = new[j].turn
  /\ \A j \in 1..Len(new) : plan[j] \in turns
  /\ \A r \in turns : r.batch = call => \E j \in 1..Len(new) : r = plan[j]
  /\ \A r \in turns : r.batch # call => \E k \in 1..Len(rows) : SamePlace(r, rows[k])
  /\ \A k \in 1..Len(rows) : \E r \in turns : SamePlace(r, rows[k])

\* Then the table is what was read, with the rows of the plan in their places.
LEMMA PlanListsTurns ==
  ASSUME NEW call, NEW rows, NEW new, NEW plan, NEW b, NEW l, NEW t,
         NEW I, Len(rows) \in Nat, GoesIn(rows, I, new, b, l, t, 1),
         StaysInOrder(rows, new, b, l, t),
         Stored(call, rows, new, plan)
  PROVE  ListsTurns(Merged(rows, new, b, l, t), Len(rows) + Len(new))
<1> DEFINE M == Merged(rows, new, b, l, t)
           n == Len(rows) + Len(new)
<1>1. /\ Len(rows) \in Nat /\ Len(new) \in Nat /\ b \in Nat /\ l \in Nat /\ t \in Nat
      /\ b <= l /\ l <= Len(rows) /\ t <= Len(new)
  BY DEF GoesIn
<1>2. /\ \A k \in 1..Len(rows) : \E i \in 1..n : M[i] = rows[k]
      /\ \A j \in 1..Len(new) : \E i \in 1..n : M[i] = new[j]
      /\ \A i \in 1..n : \/ \E k \in 1..Len(rows) : M[i] = rows[k]
                         \/ \E j \in 1..Len(new) : M[i] = new[j]
  <2>1. /\ \A k \in 1..Len(rows) :
             OldAt(new, b, l, t, k) \in 1..n /\ M[OldAt(new, b, l, t, k)] = rows[k]
        /\ \A j \in 1..Len(new) :
             NewAt(b, l, t, j) \in 1..n /\ M[NewAt(b, l, t, j)] = new[j]
        /\ \A k \in 1..Len(rows), j \in 1..Len(new) : OldAt(new, b, l, t, k) # NewAt(b, l, t, j)
    BY <1>1, MergedHolds
  <2>2. ASSUME NEW i \in 1..n
        PROVE  \/ \E k \in 1..Len(rows) : M[i] = rows[k]
               \/ \E j \in 1..Len(new) : M[i] = new[j]
    <3>1. M[i] = IF i <= b THEN rows[i]
                 ELSE IF i <= b + t THEN new[i - b]
                 ELSE IF i <= l + t THEN rows[i - t]
                 ELSE IF i <= l + Len(new) THEN new[i - l]
                 ELSE rows[i - Len(new)]
      BY DEF Merged
    <3>2. i \in 1..(Len(rows) + Len(new))
      OBVIOUS
    <3> HIDE DEF M, n
    <3>3. CASE i <= b
      <4>1. i \in 1..Len(rows)
        BY ONLY <1>1, <3>2, <3>3
      <4> QED  BY ONLY <3>1, <3>3, <4>1
    <3>4. CASE ~ (i <= b) /\ i <= b + t
      <4>1. i - b \in 1..Len(new)
        BY ONLY <1>1, <3>2, <3>4
      <4> QED  BY ONLY <3>1, <3>4, <4>1
    <3>5. CASE ~ (i <= b) /\ ~ (i <= b + t) /\ i <= l + t
      <4>1. i - t \in 1..Len(rows)
        BY ONLY <1>1, <3>2, <3>5
      <4> QED  BY ONLY <3>1, <3>5, <4>1
    <3>6. CASE ~ (i <= b) /\ ~ (i <= b + t) /\ ~ (i <= l + t) /\ i <= l + Len(new)
      <4>1. i - l \in 1..Len(new)
        BY ONLY <1>1, <3>2, <3>6
      <4> QED  BY ONLY <3>1, <3>6, <4>1
    <3>7. CASE ~ (i <= b) /\ ~ (i <= b + t) /\ ~ (i <= l + t) /\ ~ (i <= l + Len(new))
      <4>1. i - Len(new) \in 1..Len(rows)
        BY ONLY <1>1, <3>2, <3>7
      <4> QED  BY ONLY <3>1, <3>7, <4>1
    <3> QED  BY ONLY <3>3, <3>4, <3>5, <3>6, <3>7
  <2> HIDE DEF M, n
  <2> QED  BY ONLY <2>1, <2>2
<1>3. Growing(M, n)
  BY DEF StaysInOrder
<1>4. /\ \A j \in 1..Len(new) : plan[j].key = new[j].key /\ plan[j].turn = new[j].turn
      /\ \A j \in 1..Len(new) : plan[j] \in turns
      /\ \A r \in turns : r.batch = call => \E j \in 1..Len(new) : r = plan[j]
      /\ \A r \in turns : r.batch # call => \E k \in 1..Len(rows) : SamePlace(r, rows[k])
      /\ \A k \in 1..Len(rows) : \E r \in turns : SamePlace(r, rows[k])
  BY DEF Stored
<1> HIDE DEF M, n
<1>5. ASSUME NEW r \in turns PROVE \E i \in 1..n : r.key = M[i].key
  <2>1. CASE r.batch = call
    <3>1. PICK j \in 1..Len(new) : r = plan[j]
      BY <1>4, <2>1
    <3>2. PICK i \in 1..n : M[i] = new[j]
      BY ONLY <1>2
    <3>3. plan[j].key = new[j].key
      BY <1>4
    <3> QED  BY ONLY <3>1, <3>2, <3>3
  <2>2. CASE r.batch # call
    <3>1. PICK k \in 1..Len(rows) : SamePlace(r, rows[k])
      BY <1>4, <2>2
    <3>2. PICK i \in 1..n : M[i] = rows[k]
      BY ONLY <1>2
    <3> QED  BY ONLY <3>1, <3>2 DEF SamePlace
  <2> QED  BY <2>1, <2>2
<1>6. ASSUME NEW i \in 1..n PROVE \E r \in turns : r.key = M[i].key /\ r.turn = M[i].turn
  <2>1. ASSUME NEW k \in 1..Len(rows), M[i] = rows[k]
        PROVE  \E r \in turns : r.key = M[i].key /\ r.turn = M[i].turn
    <3>1. \E r \in turns : SamePlace(r, rows[k])
      BY <1>4
    <3> QED  BY ONLY <2>1, <3>1 DEF SamePlace
  <2>2. ASSUME NEW j \in 1..Len(new), M[i] = new[j]
        PROVE  \E r \in turns : r.key = M[i].key /\ r.turn = M[i].turn
    <3>1. plan[j] \in turns /\ plan[j].key = new[j].key /\ plan[j].turn = new[j].turn
      BY <1>4
    <3> QED  BY ONLY <2>2, <3>1
  <2> QED  BY ONLY <1>2, <2>1, <2>2
<1>7. ListsTurns(M, n)
  BY ONLY <1>3, <1>5, <1>6 DEF ListsTurns
<1> QED  BY <1>7 DEF M, n

\* What a call planned and wrote, around an overlap that is one, is its payload.
LEMMA PlacedIsStored ==
  ASSUME PostgresInv, PlanInv, NEW p \in Proc, merge[p].pc \in Planned, merge[p].kind # "resend",
         Roomy(p), merge[p].todo = <<>>,
         merge[p].at.n = 0 => ~ Rejected(merge[p].seen, merge[p].payload, merge[p].at),
         \A k \in 0..(merge[p].at.n - 1) :
           merge[p].seen[merge[p].at.old + k].turn = merge[p].payload[merge[p].at.new + k]
  PROVE  OccursIn(merge[p].payload, TurnsOf(Table))
<1> DEFINE rows == merge[p].seen
           I    == merge[p].payload
           a    == merge[p].at
           new  == NewRows(rows, I, a)
           b    == RowsBefore(rows, a)
           l    == RowsUpTo(rows, a)
           t    == TurnsBefore(a)
           plan == Plan(p)
<1>0. /\ PostgresInv /\ PlanInv /\ merge[p].pc \in Planned /\ merge[p].kind # "resend"
      /\ Roomy(p) /\ merge[p].todo = <<>> /\ p \in Proc
      /\ rows = merge[p].seen /\ I = merge[p].payload /\ a = merge[p].at
      /\ new = NewRows(rows, I, a) /\ b = RowsBefore(rows, a)
      /\ l = RowsUpTo(rows, a) /\ t = TurnsBefore(a) /\ plan = Plan(p)
      /\ a.n = 0 => ~ Rejected(rows, I, a)
      /\ \A k \in 0..(a.n - 1) : rows[a.old + k].turn = I[a.new + k]
  OBVIOUS
<1>1. /\ Fits(a, I) /\ ~ OutOfRange(rows, a)
      /\ rows \in Seq(Row) /\ I \in Seq(Turn) /\ new \in Seq(NewRow)
      /\ Len(rows) \in Nat /\ GoesIn(rows, I, new, b, l, t, 1)
      /\ StaysInOrder(rows, new, b, l, t)
  <2>1. /\ PostgresInv /\ PlanInv /\ p \in Proc /\ merge[p].pc \in Planned
        /\ merge[p].kind # "resend" /\ Roomy(p)
    OBVIOUS
  <2>2. Fits(a, I) /\ ~ OutOfRange(rows, a)
    BY ONLY <2>1, PlanLies
  <2>3. rows \in Seq(Row) /\ I \in Seq(Turn) /\ new \in Seq(NewRow)
    BY ONLY <2>1, PlanLies
  <2>4. Len(rows) \in Nat /\ GoesIn(rows, I, new, b, l, t, 1)
    BY ONLY <2>1, PlanLies
  <2>5. StaysInOrder(rows, new, b, l, t)
    BY ONLY <2>1, PlanLies
  <2> QED  BY ONLY <2>2, <2>3, <2>4, <2>5
<1> HIDE DEF rows, I, a, new, b, l, t, plan
<1>2. FollowsPlan(p) /\ Undisturbed(p) /\ KeysUnique
  BY ONLY <1>0 DEF PlanInv, CallPlan, PlanStands, PostgresInv, LockInv, SeenStands, Planned, Writing
<1>3. ~ Rejected(rows, I, a)
  <2>1. a = NoAlignment => a.n = 0
    BY DEF NoAlignment
  <2>2. a # NoAlignment => I # <<>>
    BY ONLY <1>1 DEF Fits, Alignment
  <2> QED  BY <1>0, <2>1, <2>2 DEF Rejected
<1>4. plan = Stamped(new, merge[p].call)
  BY ONLY <1>0, <1>3 DEF Plan
<1>5. /\ Len(plan) = Len(new) /\ Len(new) \in Nat
      /\ \A j \in 1..Len(new) : plan[j].key = new[j].key /\ plan[j].turn = new[j].turn
  BY ONLY <1>1, <1>4, StampedPlaces
<1>6. /\ \A j \in 1..Len(new) : plan[j] \in turns
      /\ \A r \in turns : r.batch = merge[p].call => \E j \in 1..Len(new) : r = plan[j]
  BY ONLY <1>0, <1>2, <1>5 DEF FollowsPlan
<1>7. \A k \in 1..(l - b) : rows[b + k].turn = I[t + k]
  <2>1. CASE a = NoAlignment
    <3>1. l - b = 0
      BY ONLY <1>0, <1>1, <2>1 DEF RowsBefore, RowsUpTo
    <3> QED  BY ONLY <3>1
  <2>2. CASE a # NoAlignment
    <3> SUFFICES ASSUME NEW k \in 1..(l - b) PROVE rows[b + k].turn = I[t + k]
      OBVIOUS
    <3>1. /\ a.old \in Nat /\ a.new \in Nat /\ a.n \in Nat
          /\ b = a.old - 1 /\ l = a.old + a.n - 1 /\ t = a.new - 1
      BY ONLY <1>0, <1>1, <2>2 DEF Fits, Alignment, RowsBefore, RowsUpTo, TurnsBefore
    <3>2. k - 1 \in 0..(a.n - 1) /\ a.old + (k - 1) = b + k /\ a.new + (k - 1) = t + k
      BY ONLY <3>1, k \in 1..(l - b)
    <3>3. rows[a.old + (k - 1)].turn = I[a.new + (k - 1)]
      BY ONLY <1>0, <3>2
    <3> QED  BY ONLY <3>2, <3>3
  <2> QED  BY <2>1, <2>2
<1>8. HoldsAfter(Merged(rows, new, b, l, t), Len(rows) + Len(new), b, I)
  <2>1. /\ b + Len(I) <= Len(rows) + Len(new)
        /\ \A k \in 1..Len(I) : Merged(rows, new, b, l, t)[b + k].turn = I[k]
    BY ONLY <1>1, <1>7, PayloadAt
  <2>2. b \in Nat
    BY ONLY <1>1 DEF GoesIn
  <2> QED  BY ONLY <2>1, <2>2 DEF HoldsAfter
<1>9. ListsTurns(Merged(rows, new, b, l, t), Len(rows) + Len(new))
  <2>1. /\ \A r \in turns : r.batch # merge[p].call => \E k \in 1..Len(rows) : SamePlace(r, rows[k])
        /\ \A k \in 1..Len(rows) : \E r \in turns : SamePlace(r, rows[k])
    BY ONLY <1>0, <1>2 DEF Undisturbed
  <2>2. Stored(merge[p].call, rows, new, plan)
    BY ONLY <1>5, <1>6, <2>1 DEF Stored
  <2> QED  BY ONLY <1>1, <2>2, PlanListsTurns
<1>10. OccursIn(I, TurnsOf(Table))
  BY ONLY <1>0, <1>1, <1>2, <1>8, <1>9, OccursInTable
<1> QED  BY <1>10 DEF I

\* On Postgres, when a call has written its rows, the table holds the turns of
\* its payload next to each other and in their order: the rows it inserted are
\* where the overlap has a gap for them, or at the end, and nobody else's rows
\* have come in between since it read the table.  The gaps have to last.
THEOREM PostgresPayloadIsStored ==
  ASSUME Backend = "postgres", NEW L \in Nat, PayloadsFit(L), NEW G, GapsLast(G, L)
  PROVE  Spec => []PayloadIsStored
<1>1. PostgresInv /\ PlanInv /\ RoomInv(G) => PayloadIsStored
  <2> SUFFICES ASSUME PostgresInv, PlanInv, RoomInv(G), NEW p \in Proc,
                      merge[p].pc \in {"readAnchors", "deleteAnchors", "insertAnchors", "check"},
                      merge[p].at.n = 0 => ~ Rejected(merge[p].seen, merge[p].payload, merge[p].at),
                      \A k \in 0..(merge[p].at.n - 1) :
                        merge[p].seen[merge[p].at.old + k].turn = merge[p].payload[merge[p].at.new + k]
               PROVE  OccursIn(merge[p].payload, TurnsOf(Table))
    BY DEF PayloadIsStored
  <2>1. merge[p].pc \in Planned /\ merge[p].todo = <<>> /\ Roomy(p)
    BY DEF Planned, RoomInv, PlanInv, CallPlan
  <2>2. CASE merge[p].kind = "resend"
    BY <2>1, <2>2, ResentIsStored
  <2>3. CASE merge[p].kind # "resend"
    BY <2>1, <2>3, PlacedIsStored
  <2> QED  BY <2>2, <2>3
<1> QED  BY <1>1, RoomInvariant, PTL

----------------------------------------------------------------------------
(* A payload that is there already.                                        *)

\* The turns of I are those of E from position at on.
IsAt(I, E, at) ==
  /\ at \in Nat \ {0} /\ at + Len(I) - 1 <= Len(E)
  /\ \A k \in 1..Len(I) : E[at + k - 1] = I[k]

\* That is what it is to occur.
LEMMA OccursSomewhere ==
  ASSUME NEW X, NEW I \in Seq(X), NEW E \in Seq(X), OccursIn(I, E)
  PROVE  \E at : IsAt(I, E, at)
<1>1. Len(I) \in Nat /\ Len(E) \in Nat
  OBVIOUS
<1>2. PICK at \in 1..(Len(E) - Len(I) + 1) : Window(E, at, Len(I)) = I
  BY DEF OccursIn
<1>3. at \in Nat \ {0} /\ at + Len(I) - 1 <= Len(E)
  BY <1>1
<1>4. \A k \in 1..Len(I) : Window(E, at, Len(I))[k] = E[at + k - 1]
  BY <1>1, <1>3, WindowHolds
<1>5. \A k \in 1..Len(I) : E[at + k - 1] = I[k]
  BY ONLY <1>2, <1>4
<1> QED  BY <1>3, <1>5 DEF IsAt

\* Agreement goes as far as the lists agree.
LEMMA AgreementReaches ==
  ASSUME NEW E \in Seq(Turn), NEW I \in Seq(Turn), NEW old \in Int, NEW new \in Int,
         NEW n \in 0..Len(I),
         \A k \in 0..(n - 1) : /\ old + k \in DOMAIN E /\ new + k \in DOMAIN I
                               /\ E[old + k] = I[new + k]
  PROVE  n <= Agreement(E, I, old, new, 1)
<1> DEFINE Agree(k) == /\ old + 1 * k \in DOMAIN E /\ new + 1 * k \in DOMAIN I
                       /\ E[old + 1 * k] = I[new + 1 * k]
           S == {i \in 0..Len(I) : \A k \in 0..(i - 1) : Agree(k)}
<1>1. Len(I) \in Nat /\ Len(I) \in Int
  OBVIOUS
<1>2. Agreement(E, I, old, new, 1) = Max(S)
  BY Zenon DEF Agreement
<1>3. \A k \in 0..(n - 1) : Agree(k)
  <2> SUFFICES ASSUME NEW k \in 0..(n - 1) PROVE Agree(k)
    OBVIOUS
  <2>1. 1 * k = k
    OBVIOUS
  <2> QED  BY <2>1
<1> HIDE DEF Agree
<1>4. S \in SUBSET Int /\ S # {} /\ (\A i \in S : i <= Len(I)) /\ n \in S
  BY <1>1, <1>3
<1> HIDE DEF S
<1>5. \A i \in S : i <= Max(S)
  BY <1>1, <1>4, MaxOfBounded
<1> QED  BY <1>2, <1>4, <1>5

\* A hit where the payload is extends to all of it.
LEMMA ExtendReaches ==
  ASSUME NEW E \in Seq(Turn), NEW I \in Seq(Turn), NEW at, IsAt(I, E, at),
         NEW size \in 1..Len(I), NEW hit, hit.old = at, hit.new = 1
  PROVE  Len(I) <= Extend(E, I, hit, size).n
<1> DEFINE old == at + size
           new == 1 + size
           n == Len(I) - size
           left == Agreement(E, I, hit.old - 1, hit.new - 1, -1)
           right == Agreement(E, I, hit.old + size, hit.new + size, 1)
<1>1. /\ Len(I) \in Nat /\ Len(E) \in Nat /\ DOMAIN E = 1..Len(E) /\ DOMAIN I = 1..Len(I)
      /\ size \in Nat /\ size >= 1 /\ size <= Len(I)
      /\ at \in Nat /\ at >= 1 /\ at + Len(I) - 1 <= Len(E)
  BY DEF IsAt
<1>2. old \in Int /\ new \in Int /\ n \in 0..Len(I)
  BY <1>1
<1>3. \A k \in 0..(n - 1) : /\ old + k \in DOMAIN E /\ new + k \in DOMAIN I
                            /\ E[old + k] = I[new + k]
  <2> SUFFICES ASSUME NEW k \in 0..(n - 1)
               PROVE  /\ old + k \in DOMAIN E /\ new + k \in DOMAIN I
                      /\ E[old + k] = I[new + k]
    OBVIOUS
  <2> DEFINE j == new + k
  <2>1. j \in 1..Len(I) /\ old + k = at + j - 1 /\ old + k \in 1..Len(E)
    BY <1>1
  <2>2. E[at + j - 1] = I[j]
    BY <2>1 DEF IsAt
  <2> QED  BY <1>1, <2>1, <2>2
<1>4. right = Agreement(E, I, old, new, 1)
  OBVIOUS
<1> HIDE DEF old, new
<1>5. n <= right
  BY <1>2, <1>3, <1>4, AgreementReaches
<1>6. right \in Nat
  BY <1>2, <1>4, AgreementHolds
<1>7. left \in Nat
  <2> DEFINE o == hit.old - 1
             i == hit.new - 1
             d == -1
  <2>1. o \in Int /\ i \in Int /\ d \in Int /\ left = Agreement(E, I, o, i, d)
    BY <1>1
  <2> HIDE DEF o, i, d, left
  <2>2. left \in 0..Len(I)
    BY ONLY <2>1, E \in Seq(Turn), I \in Seq(Turn), AgreementHolds
  <2> QED  BY <1>1, <2>2
<1>8. Extend(E, I, hit, size).n = left + size + right
  BY DEF Extend
<1> HIDE DEF left, right
<1> QED  BY ONLY <1>1, <1>5, <1>6, <1>7, <1>8

\* What is as long as the payload is all of it.
Whole(a, I) == a.new = 1 /\ a.n = Len(I)
LEMMA LongIsWhole ==
  ASSUME NEW I \in Seq(Turn), NEW a, Fits(a, I), I # <<>>, Len(I) <= a.n
  PROVE  Whole(a, I)
<1>1. Len(I) \in Nat /\ Len(I) >= 1
  OBVIOUS
<1>2. a # NoAlignment
  <2>1. a = NoAlignment => a.n = 0
    BY DEF NoAlignment
  <2> QED  BY <1>1, <2>1
<1>3. /\ a.new \in Nat /\ a.n \in Nat /\ a.new >= 1 /\ a.new + a.n - 1 <= Len(I)
  BY <1>2 DEF Fits, Alignment
<1>4. a.new = 1 /\ a.n = Len(I)
  BY ONLY <1>1, <1>3, Len(I) <= a.n
<1> QED  BY <1>4 DEF Whole

\* The longest short alignment is all of the payload.
LEMMA ShortFindsWhole ==
  ASSUME NEW E \in Seq(Turn), NEW I \in Seq(Turn), NEW at, IsAt(I, E, at), I # <<>>
  PROVE  ShortAlignments(E, I) # {} /\ Whole(FirstLongest(ShortAlignments(E, I)), I)
<1> DEFINE A == ShortAlignments(E, I)
           a == [old |-> at, new |-> 1, n |-> Len(I)]
<1>1. /\ Len(I) \in Nat /\ Len(I) >= 1 /\ Len(E) \in Nat
      /\ DOMAIN E = 1..Len(E) /\ DOMAIN I = 1..Len(I)
      /\ at \in Nat /\ at >= 1 /\ at + Len(I) - 1 <= Len(E)
  BY DEF IsAt
<1>2. Len(I) <= Agreement(E, I, at, 1, 1)
  <2> DEFINE new == 1
             n == Len(I)
  <2>1. new \in Int /\ at \in Int /\ n \in 0..Len(I)
    BY <1>1
  <2>2. \A k \in 0..(n - 1) : /\ at + k \in DOMAIN E /\ new + k \in DOMAIN I
                              /\ E[at + k] = I[new + k]
    <3> SUFFICES ASSUME NEW k \in 0..(n - 1)
                 PROVE  /\ at + k \in DOMAIN E /\ new + k \in DOMAIN I
                        /\ E[at + k] = I[new + k]
      OBVIOUS
    <3> DEFINE j == new + k
    <3>1. j \in 1..Len(I) /\ at + k = at + j - 1 /\ at + k \in 1..Len(E)
      BY <1>1
    <3>2. E[at + j - 1] = I[j]
      BY <3>1 DEF IsAt
    <3> QED  BY <1>1, <3>1, <3>2
  <2>3. n <= Agreement(E, I, at, new, 1)
    BY ONLY <2>1, <2>2, E \in Seq(Turn), I \in Seq(Turn), AgreementReaches
  <2> QED  BY <2>3
<1>3. a \in A
  <2>1. a \in Overlaps(E, I)
    <3>1. at \in DOMAIN E /\ 1 \in DOMAIN I /\ Len(I) \in DOMAIN I
      BY <1>1
    <3> QED  BY <3>1 DEF Overlaps
  <2> QED  BY <1>2, <2>1 DEF ShortAlignments
<1>4. A \subseteq Alignment /\ \A c \in A : c.n <= Len(I) /\ Fits(c, I)
  BY <1>1, ShortAlignmentsFit
<1> HIDE DEF A
<1>5. FirstLongest(A) \in A /\ \A c \in A : c.n <= FirstLongest(A).n
  BY ONLY <1>1, <1>3, <1>4, FirstLongestFound
<1>6. Len(I) <= FirstLongest(A).n /\ Fits(FirstLongest(A), I)
  BY <1>3, <1>4, <1>5
<1>7. Whole(FirstLongest(A), I)
  BY <1>6, LongIsWhole
<1> QED  BY <1>3, <1>7 DEF A

\* An index of the windows of E hits the payload where it is.
LEMMA HitThere ==
  ASSUME NEW E \in Seq(Turn), NEW I \in Seq(Turn), NEW at, IsAt(I, E, at), NEW size \in 1..Len(I)
  PROVE  [old |-> at, new |-> 1] \in AnchorHits(AnchorIndex(E, size), I, size)
<1>1. /\ Len(I) \in Nat /\ Len(E) \in Nat /\ size \in Nat /\ size >= 1 /\ size <= Len(I)
      /\ at \in Nat \ {0} /\ at + Len(I) - 1 <= Len(E) /\ at + size - 1 <= Len(E)
  BY DEF IsAt
<1>2. /\ Window(E, at, size) \in Seq(Turn) /\ Len(Window(E, at, size)) = size
      /\ \A k \in 1..size : Window(E, at, size)[k] = E[at + k - 1]
  BY <1>1, WindowHolds
<1>3. /\ Window(I, 1, size) \in Seq(Turn) /\ Len(Window(I, 1, size)) = size
      /\ \A k \in 1..size : Window(I, 1, size)[k] = I[1 + k - 1]
  <2> DEFINE one == 1
  <2>1. one \in Nat \ {0} /\ one + size - 1 <= Len(I)
    BY <1>1
  <2>2. size \in Nat
    BY <1>1
  <2> HIDE DEF one
  <2>3. /\ Window(I, one, size) \in Seq(Turn) /\ Len(Window(I, one, size)) = size
        /\ \A k \in 1..size : Window(I, one, size)[k] = I[one + k - 1]
    BY ONLY <2>1, <2>2, I \in Seq(Turn), WindowHolds
  <2> QED  BY <2>3 DEF one
<1>4. Window(E, at, size) = Window(I, 1, size)
  <2> DEFINE v == Window(E, at, size)
             w == Window(I, 1, size)
  <2>1. \A k \in 1..size : v[k] = w[k]
    <3> SUFFICES ASSUME NEW k \in 1..size PROVE v[k] = w[k]
      OBVIOUS
    <3>1. k \in 1..Len(I) /\ 1 + k - 1 = k
      BY <1>1
    <3>2. E[at + k - 1] = I[k]
      BY <3>1 DEF IsAt
    <3>3. v[k] = E[at + k - 1] /\ w[k] = I[1 + k - 1]
      BY <1>2, <1>3
    <3> QED  BY ONLY <3>1, <3>2, <3>3
  <2>2. v \in Seq(Turn) /\ w \in Seq(Turn) /\ Len(v) = size /\ Len(w) = size
    BY <1>2, <1>3
  <2> HIDE DEF v, w
  <2>3. v = w
    BY ONLY <2>1, <2>2
  <2> QED  BY <2>3 DEF v, w
<1> DEFINE index == AnchorIndex(E, size)
           h == [old |-> at, new |-> 1]
<1>5. [turns |-> Window(I, 1, size), at |-> at] \in index
  <2>1. at \in 1..(Len(E) - size + 1)
    BY <1>1
  <2>2. [turns |-> Window(E, at, size), at |-> at] \in index
    BY <2>1 DEF AnchorIndex
  <2> QED  BY <1>4, <2>2
<1>6. at \in {x.at : x \in index}
  BY <1>5
<1>7. 1 \in 1..(Len(I) - size + 1)
  BY <1>1
<1> HIDE DEF index
<1>8. h \in [old : {x.at : x \in index}, new : 1..(Len(I) - size + 1)]
  BY <1>6, <1>7
<1>9. h.old = at /\ h.new = 1
  OBVIOUS
<1> HIDE DEF h
<1>10. h \in AnchorHits(index, I, size)
  BY <1>5, <1>8, <1>9 DEF AnchorHits
<1> QED  BY <1>10 DEF index, h

\* With the index of the list itself the payload is found where it is: the best
\* hit extends at least as far as the one there.
LEMMA AnchorsFindWhole ==
  ASSUME NEW E \in Seq(Turn), NEW I \in Seq(Turn), NEW at, IsAt(I, E, at), I # <<>>, NEW index,
         \A z \in AnchorSizes : index[z] = AnchorIndex(E, z),
         NEW y \in AnchorSizes, y <= Len(I)
  PROVE  Whole(AnchorAlignment(E, I, index), I)
<1> DEFINE hits(z) == AnchorHits(index[z], I, z)
           found == {z \in AnchorSizes : hits(z) # {}}
           h0 == [old |-> at, new |-> 1]
<1>1. Len(I) \in Nat /\ Len(E) \in Nat /\ AnchorSizes \subseteq Nat \ {0}
  BY AlignmentAssumption
<1>2. ASSUME NEW z \in AnchorSizes
      PROVE  /\ hits(z) \subseteq [old : Nat \ {0}, new : 1..(Len(I) - z + 1)]
             /\ \A h \in hits(z) : h.old <= Len(E) + 1
  <2>1. index[z] = AnchorIndex(E, z) /\ z \in Nat \ {0}
    BY <1>1
  <2>2. \A x \in AnchorIndex(E, z) : x.at \in 1..(Len(E) - z + 1)
    BY DEF AnchorIndex
  <2>3. {x.at : x \in index[z]} \subseteq 1..(Len(E) - z + 1)
    BY <2>1, <2>2
  <2>4. hits(z) \subseteq [old : 1..(Len(E) - z + 1), new : 1..(Len(I) - z + 1)]
    BY <2>3 DEF AnchorHits
  <2>5. \A o \in 1..(Len(E) - z + 1) : o \in Nat \ {0} /\ o <= Len(E) + 1
    BY <1>1, <2>1
  <2> HIDE DEF hits
  <2> QED  BY ONLY <2>4, <2>5
<1>3. ASSUME NEW z \in AnchorSizes, z <= Len(I) PROVE h0 \in hits(z)
  <2>1. z \in 1..Len(I)
    BY <1>1, <1>3
  <2>2. index[z] = AnchorIndex(E, z)
    OBVIOUS
  <2>3. h0 \in AnchorHits(AnchorIndex(E, z), I, z)
    BY <2>1, HitThere
  <2> QED  BY <2>2, <2>3
<1>4. AnchorAlignment(E, I, index)
        = IF found = {} THEN NoAlignment
          ELSE Extend(E, I, BestHit(E, I, hits(Max(found)), Max(found)), Max(found))
  BY Zenon DEF AnchorAlignment
<1> HIDE DEF hits, h0
<1>5. \A z : z \in found <=> z \in AnchorSizes /\ hits(z) # {}
  OBVIOUS
<1> HIDE DEF found
<1>6. y \in found
  BY <1>3, <1>5
<1>7. ASSUME NEW z \in found PROVE z \in Nat \ {0} /\ z <= Len(I) /\ z \in AnchorSizes
  <2>1. z \in AnchorSizes /\ z \in Nat \ {0}
    BY <1>1, <1>5
  <2>2. PICK h : h \in hits(z)
    BY <1>5
  <2>3. h.new \in 1..(Len(I) - z + 1)
    BY <1>2, <2>1, <2>2
  <2>4. z <= Len(I)
    BY ONLY <1>1, <2>1, <2>3
  <2> QED  BY <2>1, <2>4
<1> DEFINE z == Max(found)
           best == BestHit(E, I, hits(z), z)
<1>8. z \in found
  <2> DEFINE b == Len(I)
  <2>1. b \in Int /\ found \in SUBSET Int /\ found # {} /\ \A x \in found : x <= b
    BY <1>1, <1>6, <1>7
  <2> HIDE DEF b
  <2> QED  BY <2>1, MaxOfBounded
<1>9. AnchorAlignment(E, I, index) = Extend(E, I, best, z)
  BY <1>4, <1>6
<1> HIDE DEF z
<1>10. z \in Nat \ {0} /\ z \in AnchorSizes /\ z \in 1..Len(I)
  BY <1>1, <1>7, <1>8
<1>11. h0 \in hits(z)
  BY <1>3, <1>10
<1>12. best \in hits(z) /\ Extend(E, I, h0, z).n <= Extend(E, I, best, z).n
  <2>1. hits(z) # {} /\ hits(z) \subseteq [old : Nat \ {0}, new : 1..(Len(I) - z + 1)]
        /\ \A h \in hits(z) : h.old <= Len(E) + 1
    BY <1>2, <1>10, <1>11
  <2> DEFINE H == hits(z)
  <2> HIDE DEF H
  <2>2. /\ BestHit(E, I, H, z) \in H
        /\ (\A h \in H : h.old <= Len(E) + 1)
           => \A g \in H : Extend(E, I, g, z).n <= Extend(E, I, BestHit(E, I, H, z), z).n
    BY <1>10, <2>1, BestHitFound DEF H
  <2> QED  BY <1>11, <2>1, <2>2 DEF H
<1> HIDE DEF best
<1>13. Len(I) <= Extend(E, I, h0, z).n
  <2>1. h0.old = at /\ h0.new = 1
    BY DEF h0
  <2> QED  BY <1>10, <2>1, ExtendReaches
<1>14. Fits(Extend(E, I, best, z), I) /\ Extend(E, I, best, z).n \in 1..Len(I)
  <2>1. best.old \in Nat \ {0} /\ best.new \in 1..(Len(I) - z + 1)
    BY <1>2, <1>10, <1>12
  <2> QED  BY <1>10, <2>1, ExtendFits
<1>15. Extend(E, I, h0, z).n \in 1..Len(I)
  <2>1. h0.old \in Nat \ {0} /\ h0.new \in 1..(Len(I) - z + 1)
    BY <1>2, <1>10, <1>11
  <2> QED  BY <1>10, <2>1, ExtendFits
<1>16. Len(I) <= Extend(E, I, best, z).n
  BY <1>1, <1>12, <1>13, <1>14, <1>15
<1> QED  BY <1>9, <1>14, <1>16, LongIsWhole

\* _find_alignment finds it, if some window is short enough for every payload
\* that the short rule leaves to the anchors.
LEMMA FindsWhole ==
  ASSUME NEW E \in Seq(Turn), NEW I \in Seq(Turn), I # <<>>, OccursIn(I, E), NEW index,
         \A z \in AnchorSizes : index[z] = AnchorIndex(E, z),
         \E z \in AnchorSizes : z <= ShortOverlap
  PROVE  Whole(FindAlignment(E, I, index, TRUE), I)
<1>1. PICK at : IsAt(I, E, at)
  BY OccursSomewhere
<1>2. /\ Len(I) \in Nat /\ Len(E) \in Nat /\ Len(I) >= 1 /\ Len(I) <= Len(E)
      /\ ShortOverlap \in Nat /\ AnchorSizes \subseteq Nat \ {0}
  BY <1>1, AlignmentAssumption DEF IsAt
<1>3. E # <<>>
  BY <1>2
<1> DEFINE a == FindAlignment(E, I, index, TRUE)
<1>4. Fits(a, I)
  <2>1. \A z \in AnchorSizes : index[z] \subseteq WindowIndex
    BY <1>2, AnchorIndexTyped
  <2> QED  BY <2>1, FindAlignmentFits
<1>5. CASE IsPrefix(E, I)
  <2>1. a = [old |-> 1, new |-> 1, n |-> Len(E)]
    BY <1>3, <1>5, Zenon DEF FindAlignment
  <2> HIDE DEF a
  <2> QED  BY <1>2, <1>4, <2>1, LongIsWhole DEF a
<1>6. CASE ~ IsPrefix(E, I) /\ IsSuffix(E, I)
  <2>1. a = [old |-> 1, new |-> Len(I) - Len(E) + 1, n |-> Len(E)]
    BY <1>3, <1>6, Zenon DEF FindAlignment
  <2> HIDE DEF a
  <2> QED  BY <1>2, <1>4, <2>1, LongIsWhole DEF a
<1>7. CASE ~ IsPrefix(E, I) /\ ~ IsSuffix(E, I)
  <2> DEFINE short == Min({Len(E), Len(I)}) < ShortOverlap
  <2>1. ShortAlignments(E, I) # {} /\ Whole(FirstLongest(ShortAlignments(E, I)), I)
    BY <1>1, ShortFindsWhole
  <2>2. a = IF short THEN FirstLongest(ShortAlignments(E, I)) ELSE AnchorAlignment(E, I, index)
    BY <1>3, <1>7, <2>1, Zenon DEF FindAlignment
  <2>3. ASSUME ~ short PROVE Whole(AnchorAlignment(E, I, index), I)
    <3>1. Min({Len(E), Len(I)}) \in {Len(E), Len(I)} /\ Min({Len(E), Len(I)}) <= Len(I)
      <4> DEFINE S == {Len(E), Len(I)}
      <4>1. S \in SUBSET Nat /\ S # {} /\ Len(I) \in S
        BY <1>2
      <4> HIDE DEF S
      <4>2. Min(S) \in S /\ Min(S) <= Len(I)
        BY <4>1, MinOfNaturals
      <4> QED  BY <4>2 DEF S
    <3>2. ShortOverlap <= Len(I)
      BY <1>2, <2>3, <3>1
    <3>3. PICK z \in AnchorSizes : z <= ShortOverlap
      OBVIOUS
    <3>4. z <= Len(I)
      BY <1>2, <3>2, <3>3
    <3> QED  BY <1>1, <3>4, AnchorsFindWhole
  <2> HIDE DEF short, a
  <2> QED  BY <2>1, <2>2, <2>3 DEF a
<1> QED  BY <1>5, <1>6, <1>7

\* Anchors that describe the table yield its own windows.
LEMMA IndexOfTable ==
  ASSUME TypeInv, AnchorsDescribe(Table), NEW size \in AnchorSizes
  PROVE  LoadAnchorIndex(Table, size) = AnchorIndex(TurnsOf(Table), size)
<1> DEFINE E == TurnsOf(Table)
           digests == {x.turns : x \in {y \in anchors : Len(y.turns) = size}}
           stored == {w \in [turns : digests, at : DOMAIN Table] :
                        [turns |-> w.turns, start |-> Table[w.at].id] \in anchors}
           index == AnchorIndex(E, size)
<1>1. /\ Table \in Seq(Row) /\ Len(Table) \in Nat /\ DOMAIN Table = 1..Len(Table)
      /\ E \in Seq(Turn) /\ Len(E) = Len(Table) /\ AnchorSizes \subseteq Nat \ {0}
  BY TableListsTurns, RowsTyped, TurnsOfTyped, AlignmentAssumption DEF TypeInv
<1>2. LoadAnchorIndex(Table, size) = IF stored # {} THEN stored ELSE index
  BY Zenon DEF LoadAnchorIndex
<1>3. \A k, j \in 1..Len(Table) : Table[k].id = Table[j].id => k = j
  <2> SUFFICES ASSUME NEW k \in 1..Len(Table), NEW j \in 1..Len(Table), Table[k].id = Table[j].id
               PROVE  k = j
    OBVIOUS
  <2>1. /\ Table[k] \in turns /\ Table[j] \in turns
        /\ Rank(Table[k]) = k - 1 /\ Rank(Table[j]) = j - 1
    BY TableListsTurns DEF TypeInv
  <2>2. Table[k] = Table[j]
    BY <2>1 DEF TypeInv, TableSound, IdsDistinct
  <2>3. k - 1 = j - 1
    BY <2>1, <2>2
  <2> QED  BY ONLY <2>3, k \in 1..Len(Table), j \in 1..Len(Table), <1>1
<1>4. ASSUME NEW z \in AnchorSizes, NEW w \in AnchorIndex(E, z)
      PROVE  Len(w.turns) = z /\ w.at \in 1..Len(Table) /\ w = [turns |-> w.turns, at |-> w.at]
  <2>1. PICK at \in 1..(Len(E) - z + 1) : w = [turns |-> Window(E, at, z), at |-> at]
    BY DEF AnchorIndex
  <2>2. at \in Nat \ {0} /\ z \in Nat /\ z >= 1 /\ at + z - 1 <= Len(E) /\ at \in 1..Len(Table)
    BY <1>1
  <2>3. Len(Window(E, at, z)) = z
    BY ONLY <1>1, <2>2, WindowHolds
  <2> QED  BY <2>1, <2>2, <2>3
<1> HIDE DEF E
<1>5. CASE anchors = {}
  <2>1. stored = {}
    BY <1>5
  <2> QED  BY <1>2, <2>1 DEF E
<1>6. CASE anchors = Windows(Table)
  <2>1. \A x : x \in anchors <=>
          \E z \in AnchorSizes : \E w \in AnchorIndex(E, z) :
            x = [turns |-> w.turns, start |-> Table[w.at].id]
    BY <1>6 DEF Windows, E
  <2>2. ASSUME NEW w \in stored PROVE w \in index
    <3>1. /\ w.turns \in digests /\ w.at \in 1..Len(Table) /\ w = [turns |-> w.turns, at |-> w.at]
          /\ [turns |-> w.turns, start |-> Table[w.at].id] \in anchors
      BY <1>1
    <3>2. Len(w.turns) = size
      BY <3>1
    <3> HIDE DEF stored, digests
    <3> DEFINE x == [turns |-> w.turns, start |-> Table[w.at].id]
    <3>3. PICK z \in AnchorSizes : \E v \in AnchorIndex(E, z) :
            x = [turns |-> v.turns, start |-> Table[v.at].id]
      BY <2>1, <3>1
    <3>4. PICK v \in AnchorIndex(E, z) : x = [turns |-> v.turns, start |-> Table[v.at].id]
      BY <3>3
    <3>5. w.turns = v.turns /\ Table[w.at].id = Table[v.at].id
      BY ONLY <3>4
    <3>6. Len(v.turns) = z /\ v.at \in 1..Len(Table) /\ v = [turns |-> v.turns, at |-> v.at]
      BY <1>4
    <3>7. w.at = v.at /\ z = size
      BY <1>3, <3>1, <3>2, <3>5, <3>6
    <3>8. w = v
      BY ONLY <3>1, <3>5, <3>6, <3>7
    <3> QED  BY <3>7, <3>8
  <2>3. ASSUME NEW w \in index PROVE w \in stored
    <3>1. Len(w.turns) = size /\ w.at \in 1..Len(Table) /\ w = [turns |-> w.turns, at |-> w.at]
      BY <1>4
    <3>2. [turns |-> w.turns, start |-> Table[w.at].id] \in anchors
      BY <2>1
    <3>3. w.turns \in digests
      <4> DEFINE x == [turns |-> w.turns, start |-> Table[w.at].id]
      <4>1. x \in anchors /\ x.turns = w.turns
        BY <3>2
      <4> HIDE DEF x
      <4>2. Len(x.turns) = size
        BY <3>1, <4>1
      <4>3. x.turns \in digests
        BY <4>1, <4>2
      <4> QED  BY <4>1, <4>3
    <3> HIDE DEF digests
    <3>4. w \in [turns : digests, at : DOMAIN Table]
      BY <1>1, <3>1, <3>3
    <3> QED  BY <3>2, <3>4
  <2> HIDE DEF stored, index
  <2>4. stored = index
    BY <2>2, <2>3
  <2> QED  BY <1>2, <2>4 DEF index, E
<1> QED  BY <1>5, <1>6 DEF AnchorsDescribe

\* Around an overlap that is all of the payload there is nothing to put.
LEMMA WholeAddsNothing ==
  ASSUME NEW rows \in Seq(Row), NEW I \in Seq(Turn), NEW a, Fits(a, I), Whole(a, I), I # <<>>,
         ~ OutOfRange(rows, a), NEW call
  PROVE  Stamped(NewRows(rows, I, a), call) = <<>>
<1>1. Len(I) \in Nat /\ Len(I) >= 1 /\ a.new = 1 /\ a.n = Len(I)
  BY DEF Whole
<1>2. a # NoAlignment
  BY <1>1 DEF NoAlignment
<1>3. SubSeq(I, 1, a.new - 1) = <<>> /\ SubSeq(I, a.new + a.n, Len(I)) = <<>>
  BY <1>1
<1>4. ASSUME NEW keys PROVE Keyed(<<>>, keys) = <<>>
  BY DEF Keyed
<1>5. PrefixRows(rows, I, a) = <<>> /\ SuffixRows(rows, I, a) = <<>>
  BY <1>3, <1>4 DEF PrefixRows, SuffixRows
<1>6. NewRows(rows, I, a) = <<>>
  BY <1>2, <1>5 DEF NewRows
<1> QED  BY <1>6 DEF Stamped

\* On Postgres a batch that the table holds already, next to each other and in
\* its order, writes nothing, whatever else the table holds: neither a prefix,
\* nor the first of several anchor hits, nor a repeated turn misleads it.  The
\* anchors have to describe the table, and one of their windows has to be short
\* enough for every payload that the short rule does not look at.
THEOREM PostgresStoredWritesNothing ==
  ASSUME Backend = "postgres", \E z \in AnchorSizes : z <= ShortOverlap
  PROVE  Spec => StoredPayloadWritesNothing
<1>1. PostgresInv /\ PlanInv =>
        [\A p \in Proc :
           (/\ Align(p) /\ merge[p].kind = "batch" /\ AnchorsDescribe(merge[p].seen)
            /\ OccursIn(merge[p].payload, TurnsOf(merge[p].seen)))
           => merge'[p].todo = <<>>]_vars
  <2> SUFFICES ASSUME PostgresInv, PlanInv, NEW p \in Proc, Align(p), merge[p].kind = "batch",
                      AnchorsDescribe(merge[p].seen),
                      OccursIn(merge[p].payload, TurnsOf(merge[p].seen))
               PROVE  merge'[p].todo = <<>>
    OBVIOUS
  <2> DEFINE I == merge[p].payload
             rows == merge[p].seen
             index == [z \in AnchorSizes |-> LoadAnchorIndex(rows, z)]
             a == FindAlignment(TurnsOf(rows), I, index, merge[p].kind = "batch")
  <2>1. TypeInv /\ rows = Table
    BY DEF PostgresInv, PlanInv, CallPlan, SeenIsTable, Align
  <2>2. I \in Seq(Turn) /\ rows \in Seq(Row) /\ TurnsOf(rows) \in Seq(Turn)
    BY <2>1, MergeTyped, TurnsOfTyped DEF TypeInv
  <2>3. /\ Fits(a, I)
        /\ OutOfRange(rows, a) => Leave(p, "failed")
        /\ ~ OutOfRange(rows, a) => merge'[p].todo = Plan(p)' /\ merge'[p].at = a
             /\ merge'[p].call = merge[p].call /\ merge'[p].seen = rows /\ merge'[p].payload = I
    BY <2>1, AlignSets
  <2>4. CASE OutOfRange(rows, a)
    <3>1. merge' = [merge EXCEPT ![p] = Idle]
      BY <2>3, <2>4 DEF Leave
    <3>2. merge'[p] = Idle
      BY <2>1, <3>1 DEF TypeInv, TypeOK
    <3> QED  BY <3>2 DEF Idle
  <2>5. CASE ~ OutOfRange(rows, a)
    <3>1. I # <<>> => Whole(a, I)
      <4>1. \A z \in AnchorSizes : index[z] = AnchorIndex(TurnsOf(rows), z)
        BY <2>1, IndexOfTable
      <4>2. (merge[p].kind = "batch") = TRUE
        OBVIOUS
      <4> HIDE DEF index
      <4> QED  BY <2>2, <4>1, <4>2, FindsWhole
    <3> HIDE DEF a
    <3>2. merge'[p].todo = IF Rejected(rows, I, a) THEN <<>>
                           ELSE Stamped(NewRows(rows, I, a), merge[p].call)
      BY <2>3, <2>5 DEF Plan
    <3>3. CASE I = <<>>
      BY <3>2, <3>3 DEF Rejected
    <3>4. CASE I # <<>>
      <4>1. Stamped(NewRows(rows, I, a), merge[p].call) = <<>>
        BY <2>2, <2>3, <2>5, <3>1, <3>4, WholeAddsNothing
      <4> QED  BY <3>2, <4>1
    <3> QED  BY <3>3, <3>4
  <2> QED  BY <2>4, <2>5
<1> QED  BY <1>1, PlanInvariant, PTL DEF StoredPayloadWritesNothing
=============================================================================
