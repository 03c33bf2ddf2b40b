----------------------------- MODULE DataLemmas -----------------------------
(***************************************************************************)
(* Lemmas about the data the specifications are built from: induction over *)
(* naturals and over the subsets of a finite set, what Keep and Without    *)
(* preserve of a queue, queues put together, turned round or cut, sums,    *)
(* and the bounds of what the accountant grants and gives back.            *)
(* Induction rests on the library theorem that a non-empty set of naturals *)
(* has a least element; it is stated with sets, not with a predicate.      *)
(***************************************************************************)
EXTENDS Subsequences, PrefillBudgetAccountant, TLAPS, WellFoundedInduction, SequenceTheorems,
        FiniteSetTheorems

\* A non-empty set of naturals has a least element.
LEMMA NatMinimum ==
    ASSUME NEW T \in SUBSET Nat, T # {}
    PROVE  \E x \in T : \A y \in T : x <= y
<1> DEFINE R == OpToRel(<, Nat)
<1>1. IsWellFoundedOn(R, Nat)  BY NatLessThanWellFounded
<1>2. \A x, y \in Nat : <<x, y>> \in R <=> x < y  BY DEF OpToRel
<1> HIDE DEF R
<1>3. \E x \in T : \A y \in T : ~(<<y, x>> \in R)  BY <1>1, WFMin
<1>4. \E x \in T : \A y \in T : ~(y < x)  BY <1>2, <1>3
<1> QED  BY <1>4

\* Induction over the naturals, with a set in the place of a predicate.
LEMMA NatSetInduction ==
    ASSUME NEW T \in SUBSET Nat, 0 \in T, \A n \in T : n + 1 \in T
    PROVE  T = Nat
<1> SUFFICES ASSUME Nat \ T # {} PROVE FALSE  OBVIOUS
<1>1. PICK x \in Nat \ T : \A y \in Nat \ T : x <= y
  BY NatMinimum, Nat \ T \in SUBSET Nat
<1>2. x # 0 /\ x - 1 \in Nat  BY <1>1
<1>3. x - 1 \in T  BY <1>1, <1>2
<1> QED  BY <1>1, <1>2, <1>3

\* The same up to a bound.
LEMMA BoundedInduction ==
    ASSUME NEW N \in Nat, NEW T \in SUBSET (0..N), 0 \in T,
           \A n \in T : n < N => n + 1 \in T
    PROVE  T = 0..N
<1> DEFINE U == {n \in Nat : n <= N => n \in T}
<1>1. U \in SUBSET Nat /\ 0 \in U  OBVIOUS
<1>2. \A n \in U : n + 1 \in U  OBVIOUS
<1>3. U = Nat
  <2> HIDE DEF U
  <2> QED  BY <1>1, <1>2, NatSetInduction
<1>4. \A n \in 0..N : n \in U /\ n <= N  BY <1>3
<1> QED  BY <1>4

\* One value of the recursive function inside Keep, from the one before.
KeptAt(queue, set, f, n) ==
    IF n = 0 THEN <<>>
    ELSE IF queue[n] \in set THEN Append(f[n - 1], queue[n])
    ELSE f[n - 1]

\* A solution of the recursion up to position N.
Kept(queue, set, f, N) == f = [n \in 0..N |-> KeptAt(queue, set, f, n)]

\* The recursion that defines Keep has a solution.
LEMMA KeptExists ==
    ASSUME NEW q, NEW S, NEW L \in Nat
    PROVE  \E f : Kept(q, S, f, L)
<1> DEFINE T == {N \in 0..L : \E f : Kept(q, S, f, N)}
<1>1. T \in SUBSET (0..L)  OBVIOUS
<1>2. 0 \in T
  <2> DEFINE f == [n \in 0..0 |-> <<>>]
  <2>1. Kept(q, S, f, 0)  BY DEF Kept, KeptAt
  <2> QED  BY <2>1
<1>3. ASSUME NEW N \in T, N < L  PROVE N + 1 \in T
  <2>1. PICK f : Kept(q, S, f, N)  OBVIOUS
  <2> DEFINE g == [n \in 0..(N + 1) |-> KeptAt(q, S, f, n)]
  <2>2. N \in Nat  OBVIOUS
  <2>3. \A n \in 0..N : f[n] = KeptAt(q, S, f, n)  BY <2>1 DEF Kept
  <2>4. \A n \in 0..N : g[n] = f[n]  BY <2>2, <2>3
  <2>5. \A n \in 0..(N + 1) : n # 0 => n - 1 \in 0..N  BY <2>2
  <2>6. \A n \in 0..(N + 1) : KeptAt(q, S, f, n) = KeptAt(q, S, g, n)
    <3> HIDE DEF g
    <3> QED  BY <2>4, <2>5 DEF KeptAt
  <2>7. Kept(q, S, g, N + 1)  BY <2>6 DEF Kept
  <2>8. N + 1 \in 0..L  BY <1>3, <2>2
  <2> HIDE DEF g
  <2> QED  BY <2>7, <2>8
<1> HIDE DEF T
<1>4. T = 0..L  BY <1>1, <1>2, <1>3, BoundedInduction
<1>5. L \in T  BY <1>4
<1> QED  BY <1>5 DEF T

\* Keep is the last value of a function that satisfies the recursion.
LEMMA KeepIsKept ==
    ASSUME NEW E, NEW q \in Seq(E), NEW S
    PROVE  \E f : Kept(q, S, f, Len(q)) /\ Keep(q, S) = f[Len(q)]
<1> DEFINE f == CHOOSE f : Kept(q, S, f, Len(q))
<1>1. Kept(q, S, f, Len(q))  BY KeptExists
<1>2. Keep(q, S) = f[Len(q)]  BY Zenon DEF Keep, Kept, KeptAt
<1> HIDE DEF f
<1> QED  BY <1>1, <1>2

\* The part of the queue up to position n, filtered: its elements are those
\* of the queue that are in the set, and they stand in the same order.
OnlyKept(queue, set, n, kept) ==
    \A i \in 1..Len(kept) : \E a \in 1..n : queue[a] \in set /\ kept[i] = queue[a]
AllKept(queue, set, n, kept) ==
    \A a \in 1..n : queue[a] \in set => \E i \in 1..Len(kept) : kept[i] = queue[a]
InOrder(queue, n, kept) ==
    \A i, j \in 1..Len(kept) : i < j =>
        \E a, b \in 1..n : a < b /\ kept[i] = queue[a] /\ kept[j] = queue[b]
Filtered(queue, set, E, n, kept) ==
    /\ kept \in Seq(E) /\ Len(kept) <= n
    /\ OnlyKept(queue, set, n, kept) /\ AllKept(queue, set, n, kept)
    /\ InOrder(queue, n, kept)

LEMMA FilteredStep ==
    ASSUME NEW E, NEW q \in Seq(E), NEW S, NEW n \in Nat, n < Len(q),
           NEW k, Filtered(q, S, E, n, k), NEW m,
           m = IF q[n + 1] \in S THEN Append(k, q[n + 1]) ELSE k
    PROVE  Filtered(q, S, E, n + 1, m)
<1>1. n + 1 \in 1..Len(q) /\ q[n + 1] \in E  OBVIOUS
<1>2. k \in Seq(E) /\ Len(k) <= n /\ Len(k) \in Nat  BY DEF Filtered
<1>3. OnlyKept(q, S, n, k) /\ AllKept(q, S, n, k) /\ InOrder(q, n, k)
  BY DEF Filtered
<1>4. 1..n \subseteq 1..(n + 1) /\ n + 1 \in 1..(n + 1)
      /\ \A a \in 1..(n + 1) : a = n + 1 \/ a \in 1..n
  OBVIOUS
<1>5. CASE q[n + 1] \notin S
  <2>1. m = k  BY <1>5
  <2>2. OnlyKept(q, S, n + 1, k)  BY <1>3, <1>4 DEF OnlyKept
  <2>3. AllKept(q, S, n + 1, k)  BY <1>3, <1>4, <1>5 DEF AllKept
  <2>4. InOrder(q, n + 1, k)
    <3> SUFFICES ASSUME NEW i \in 1..Len(k), NEW j \in 1..Len(k), i < j
                 PROVE  \E a, b \in 1..(n + 1) : a < b /\ k[i] = q[a] /\ k[j] = q[b]
      BY DEF InOrder
    <3>1. PICK a, b \in 1..n : a < b /\ k[i] = q[a] /\ k[j] = q[b]
      BY <1>3 DEF InOrder
    <3> QED  BY <1>4, <3>1
  <2> QED  BY <1>2, <2>1, <2>2, <2>3, <2>4 DEF Filtered
<1>6. CASE q[n + 1] \in S
  <2>1. /\ m \in Seq(E) /\ Len(m) = Len(k) + 1 /\ m[Len(k) + 1] = q[n + 1]
        /\ \A i \in 1..Len(k) : m[i] = k[i]
    BY <1>1, <1>2, <1>6
  <2>2. \A i \in 1..Len(m) : i = Len(k) + 1 \/ i \in 1..Len(k)  BY <1>2, <2>1
  <2>3. 1..Len(k) \subseteq 1..Len(m) /\ Len(k) + 1 \in 1..Len(m)  BY <1>2, <2>1
  <2>4. OnlyKept(q, S, n + 1, m)
    BY <1>3, <1>4, <1>6, <2>1, <2>2, Zenon DEF OnlyKept
  <2>5. AllKept(q, S, n + 1, m)
    BY <1>3, <1>4, <2>1, <2>3, Zenon DEF AllKept
  <2>6. InOrder(q, n + 1, m)
    <3> SUFFICES ASSUME NEW i \in 1..Len(m), NEW j \in 1..Len(m), i < j
                 PROVE  \E a, b \in 1..(n + 1) : a < b /\ m[i] = q[a] /\ m[j] = q[b]
      BY DEF InOrder
    <3>1. i \in 1..Len(k)  BY <1>2, <2>1
    <3>2. CASE j = Len(k) + 1
      <4>1. PICK a \in 1..n : k[i] = q[a]  BY <1>3, <3>1 DEF OnlyKept
      <4>2. a < n + 1 /\ a \in 1..(n + 1)  OBVIOUS
      <4> QED  BY <1>4, <2>1, <3>1, <3>2, <4>1, <4>2
    <3>3. CASE j \in 1..Len(k)
      <4>1. PICK a, b \in 1..n : a < b /\ k[i] = q[a] /\ k[j] = q[b]
        BY <1>3, <3>1, <3>3 DEF InOrder
      <4>2. m[i] = q[a] /\ m[j] = q[b] /\ a \in 1..(n + 1) /\ b \in 1..(n + 1)
        BY <1>4, <2>1, <3>1, <3>3, <4>1
      <4> QED  BY <4>1, <4>2
    <3> QED  BY <2>2, <3>2, <3>3
  <2>7. Len(m) <= n + 1  BY <1>2, <2>1
  <2> QED  BY <2>1, <2>4, <2>5, <2>6, <2>7 DEF Filtered
<1> QED  BY <1>5, <1>6

LEMMA KeepFilters ==
    ASSUME NEW E, NEW q \in Seq(E), NEW S
    PROVE  Filtered(q, S, E, Len(q), Keep(q, S))
<1>1. PICK f : Kept(q, S, f, Len(q)) /\ Keep(q, S) = f[Len(q)]  BY KeepIsKept
<1> DEFINE T == {n \in 0..Len(q) : Filtered(q, S, E, n, f[n])}
<1>2. \A n \in 0..Len(q) : f[n] = KeptAt(q, S, f, n)  BY <1>1 DEF Kept
<1>3. T \in SUBSET (0..Len(q)) /\ Len(q) \in Nat  OBVIOUS
<1>4. 0 \in T
  <2>1. f[0] = <<>>  BY <1>2, <1>3 DEF KeptAt
  <2>2. Filtered(q, S, E, 0, <<>>)
    BY DEF Filtered, OnlyKept, AllKept, InOrder
  <2> QED  BY <1>3, <2>1, <2>2
<1>5. ASSUME NEW n \in T, n < Len(q)  PROVE n + 1 \in T
  <2>1. n \in Nat /\ n + 1 \in 0..Len(q) /\ n + 1 # 0  BY <1>5
  <2>2. Filtered(q, S, E, n, f[n])  OBVIOUS
  <2>3. f[n + 1] = IF q[n + 1] \in S THEN Append(f[n], q[n + 1]) ELSE f[n]
    BY <1>2, <2>1 DEF KeptAt
  <2>4. Filtered(q, S, E, n + 1, f[n + 1])
    <3> HIDE DEF T
    <3> QED  BY <1>5, <2>1, <2>2, <2>3, FilteredStep
  <2> QED  BY <2>1, <2>4
<1> HIDE DEF T
<1>6. T = 0..Len(q)  BY <1>3, <1>4, <1>5, BoundedInduction
<1>7. Len(q) \in T  BY <1>3, <1>6
<1> QED  BY <1>1, <1>7 DEF T

\* Keep returns the elements of the queue in the set; it neither repeats
\* nor reorders what stood once in the queue.
LEMMA KeepFacts ==
    ASSUME NEW E, NEW q \in Seq(E), NEW S
    PROVE  /\ Keep(q, S) \in Seq(E)
           /\ Len(Keep(q, S)) <= Len(q)
           /\ ToSet(Keep(q, S)) = ToSet(q) \cap S
           /\ IsInjective(q) => IsInjective(Keep(q, S))
<1> DEFINE k == Keep(q, S)
<1>1. Filtered(q, S, E, Len(q), k)  BY KeepFilters
<1> HIDE DEF k
<1>2. k \in Seq(E) /\ Len(k) <= Len(q) /\ Len(q) \in Nat /\ Len(k) \in Nat
  BY <1>1 DEF Filtered
<1>3. ToSet(k) = ToSet(q) \cap S
  <2>1. ToSet(k) = {k[i] : i \in 1..Len(k)} /\ ToSet(q) = {q[i] : i \in 1..Len(q)}
    BY <1>2 DEF ToSet
  <2>2. OnlyKept(q, S, Len(q), k) /\ AllKept(q, S, Len(q), k)  BY <1>1 DEF Filtered
  <2> QED  BY <2>1, <2>2, Zenon DEF OnlyKept, AllKept
<1>4. ASSUME IsInjective(q)  PROVE IsInjective(k)
  <2> SUFFICES ASSUME NEW i \in 1..Len(k), NEW j \in 1..Len(k), i < j PROVE k[i] # k[j]
    BY <1>2 DEF IsInjective
  <2>1. PICK a, b \in 1..Len(q) : a < b /\ k[i] = q[a] /\ k[j] = q[b]
    BY <1>1 DEF Filtered, InOrder
  <2> QED  BY <1>2, <1>4, <2>1 DEF IsInjective
<1> QED  BY <1>2, <1>3, <1>4 DEF k

LEMMA WithoutFacts ==
    ASSUME NEW E, NEW q \in Seq(E), NEW S
    PROVE  /\ Without(q, S) \in Seq(E)
           /\ Len(Without(q, S)) <= Len(q)
           /\ ToSet(Without(q, S)) = ToSet(q) \ S
           /\ IsInjective(q) => IsInjective(Without(q, S))
<1> ToSet(q) \cap (ToSet(q) \ S) = ToSet(q) \ S  OBVIOUS
<1> QED  BY KeepFacts DEF Without

\* Two queues one after the other: their elements, and when none is twice.
LEMMA ConcatFacts ==
    ASSUME NEW E, NEW p \in Seq(E), NEW q \in Seq(E)
    PROVE  /\ p \o q \in Seq(E) /\ Len(p \o q) = Len(p) + Len(q)
           /\ ToSet(p \o q) = ToSet(p) \cup ToSet(q)
           /\ IsInjective(p \o q) <=>
                IsInjective(p) /\ IsInjective(q) /\ ToSet(p) \cap ToSet(q) = {}
<1> DEFINE c == p \o q
<1>1. /\ c \in Seq(E) /\ Len(c) = Len(p) + Len(q)
      /\ DOMAIN c = 1..(Len(p) + Len(q)) /\ DOMAIN p = 1..Len(p) /\ DOMAIN q = 1..Len(q)
      /\ Len(p) \in Nat /\ Len(q) \in Nat
  OBVIOUS
<1>2. \A i \in 1..Len(p) : c[i] = p[i] /\ i \in DOMAIN c  OBVIOUS
<1>3. \A i \in 1..Len(q) : c[Len(p) + i] = q[i] /\ Len(p) + i \in DOMAIN c  OBVIOUS
<1> HIDE DEF c
<1>4. \A i \in DOMAIN c : i \in 1..Len(p) \/ \E j \in 1..Len(q) : i = Len(p) + j
  <2> TAKE i \in DOMAIN c
  <2>1. CASE i <= Len(p)  BY <1>1, <2>1
  <2>2. CASE i > Len(p)
    <3>1. i - Len(p) \in 1..Len(q) /\ i = Len(p) + (i - Len(p))  BY <1>1, <2>2
    <3> QED  BY <3>1
  <2> QED  BY <1>1, <2>1, <2>2
<1>5. ToSet(c) = ToSet(p) \cup ToSet(q)
  <2>1. /\ ToSet(c) = {c[i] : i \in DOMAIN c}
        /\ ToSet(p) = {p[i] : i \in 1..Len(p)} /\ ToSet(q) = {q[i] : i \in 1..Len(q)}
    BY <1>1 DEF ToSet
  <2>2. ASSUME NEW x \in ToSet(c)  PROVE x \in ToSet(p) \cup ToSet(q)
    <3>1. PICK i \in DOMAIN c : x = c[i]  BY <2>1
    <3> QED  BY <1>2, <1>3, <1>4, <2>1, <3>1
  <2>3. ASSUME NEW x \in ToSet(p)  PROVE x \in ToSet(c)  BY <1>2, <2>1
  <2>4. ASSUME NEW x \in ToSet(q)  PROVE x \in ToSet(c)  BY <1>3, <2>1
  <2> QED  BY <2>2, <2>3, <2>4
<1>6. ASSUME IsInjective(c)
      PROVE  IsInjective(p) /\ IsInjective(q) /\ ToSet(p) \cap ToSet(q) = {}
  <2>1. IsInjective(p)  BY <1>1, <1>2, <1>6 DEF IsInjective
  <2>2. IsInjective(q)
    <3> SUFFICES ASSUME NEW i \in 1..Len(q), NEW j \in 1..Len(q), q[i] = q[j] PROVE i = j
      BY <1>1 DEF IsInjective
    <3>1. Len(p) + i = Len(p) + j  BY <1>3, <1>6 DEF IsInjective
    <3> QED  BY <1>1, <3>1
  <2>3. ASSUME NEW x \in ToSet(p) \cap ToSet(q)  PROVE FALSE
    <3>1. PICK i \in 1..Len(p), j \in 1..Len(q) : p[i] = x /\ q[j] = x  BY <1>1 DEF ToSet
    <3>2. i = Len(p) + j  BY <1>2, <1>3, <1>6, <3>1 DEF IsInjective
    <3> QED  BY <1>1, <3>2
  <2> QED  BY <2>1, <2>2, <2>3
<1>7. ASSUME IsInjective(p), IsInjective(q), ToSet(p) \cap ToSet(q) = {}
      PROVE  IsInjective(c)
  <2> SUFFICES ASSUME NEW i \in DOMAIN c, NEW j \in DOMAIN c, c[i] = c[j] PROVE i = j
    BY DEF IsInjective
  <2>1. \A k \in 1..Len(p) : p[k] \in ToSet(p)  BY <1>1 DEF ToSet
  <2>2. \A k \in 1..Len(q) : q[k] \in ToSet(q)  BY <1>1 DEF ToSet
  <2>3. CASE i \in 1..Len(p) /\ j \in 1..Len(p)
    BY <1>1, <1>2, <1>7, <2>3 DEF IsInjective
  <2>4. ASSUME NEW k \in 1..Len(q), NEW l \in 1..Len(q), i = Len(p) + k, j = Len(p) + l
        PROVE  i = j
    BY <1>1, <1>3, <1>7, <2>4 DEF IsInjective
  <2>5. ASSUME NEW k \in 1..Len(q), i \in 1..Len(p), j = Len(p) + k  PROVE FALSE
    BY <1>2, <1>3, <1>7, <2>1, <2>2, <2>5
  <2>6. ASSUME NEW k \in 1..Len(q), j \in 1..Len(p), i = Len(p) + k  PROVE FALSE
    BY <1>2, <1>3, <1>7, <2>1, <2>2, <2>6
  <2> QED  BY <1>4, <2>3, <2>4, <2>5, <2>6
<1> QED  BY <1>1, <1>5, <1>6, <1>7 DEF c

\* One element more at the end.
LEMMA AppendFacts ==
    ASSUME NEW E, NEW q \in Seq(E), NEW e \in E
    PROVE  /\ Append(q, e) \in Seq(E) /\ Len(Append(q, e)) = Len(q) + 1
           /\ ToSet(Append(q, e)) = ToSet(q) \cup {e}
           /\ IsInjective(q) /\ e \notin ToSet(q) => IsInjective(Append(q, e))
<1> DEFINE s == <<e>>
<1>1. Append(q, e) = q \o s  OBVIOUS
<1>2. s \in Seq(E) /\ IsInjective(s)  BY DEF IsInjective
<1>3. ToSet(s) = {e}  BY DEF ToSet
<1>4. Append(q, e) \in Seq(E) /\ Len(Append(q, e)) = Len(q) + 1  OBVIOUS
<1> HIDE DEF s
<1>5. /\ ToSet(q \o s) = ToSet(q) \cup ToSet(s)
      /\ IsInjective(q \o s) <=>
           IsInjective(q) /\ IsInjective(s) /\ ToSet(q) \cap ToSet(s) = {}
  BY <1>2, ConcatFacts
<1> QED  BY <1>1, <1>2, <1>3, <1>4, <1>5

\* A queue cut in two.
LEMMA SplitFacts ==
    ASSUME NEW E, NEW q \in Seq(E), NEW k \in 0..Len(q)
    PROVE  /\ SubSeq(q, 1, k) \in Seq(E) /\ SubSeq(q, k + 1, Len(q)) \in Seq(E)
           /\ Len(SubSeq(q, 1, k)) = k /\ Len(SubSeq(q, k + 1, Len(q))) = Len(q) - k
           /\ q = SubSeq(q, 1, k) \o SubSeq(q, k + 1, Len(q))
           /\ ToSet(q) = ToSet(SubSeq(q, 1, k)) \cup ToSet(SubSeq(q, k + 1, Len(q)))
           /\ IsInjective(q) =>
                /\ IsInjective(SubSeq(q, 1, k)) /\ IsInjective(SubSeq(q, k + 1, Len(q)))
                /\ ToSet(SubSeq(q, 1, k)) \cap ToSet(SubSeq(q, k + 1, Len(q))) = {}
<1> DEFINE a == SubSeq(q, 1, k)
           b == SubSeq(q, k + 1, Len(q))
<1>1. a \in Seq(E) /\ b \in Seq(E) /\ Len(a) = k /\ Len(b) = Len(q) - k  OBVIOUS
<1>2. q = a \o b
  <2>1. 1 \in 1..(Len(q) + 1) /\ k \in (1 - 1)..Len(q) /\ Len(q) \in k..Len(q)
    OBVIOUS
  <2>2. SubSeq(q, 1, k) \o SubSeq(q, k + 1, Len(q)) = SubSeq(q, 1, Len(q))
    BY <2>1, ConcatAdjacentSubSeq
  <2> QED  BY <2>2, SubSeqFull
<1> HIDE DEF a, b
<1>3. /\ ToSet(a \o b) = ToSet(a) \cup ToSet(b)
      /\ IsInjective(a \o b) <=>
           IsInjective(a) /\ IsInjective(b) /\ ToSet(a) \cap ToSet(b) = {}
  BY <1>1, ConcatFacts
<1>4. /\ ToSet(q) = ToSet(a) \cup ToSet(b)
      /\ IsInjective(q) <=>
           IsInjective(a) /\ IsInjective(b) /\ ToSet(a) \cap ToSet(b) = {}
  BY <1>2, <1>3
<1> QED  BY <1>1, <1>2, <1>4 DEF a, b

\* The head of a queue and the rest of it.
LEMMA TailFacts ==
    ASSUME NEW E, NEW q \in Seq(E), q # <<>>
    PROVE  /\ Head(q) \in E /\ Tail(q) \in Seq(E) /\ Len(Tail(q)) = Len(q) - 1
           /\ Len(q) \in Nat \ {0} /\ q[1] = Head(q)
           /\ \A i \in 1..Len(Tail(q)) : Tail(q)[i] = q[i + 1] /\ i + 1 \in 1..Len(q)
           /\ ToSet(q) = {Head(q)} \cup ToSet(Tail(q))
<1>1. /\ Head(q) \in E /\ Tail(q) \in Seq(E) /\ Len(Tail(q)) = Len(q) - 1
      /\ Len(q) \in Nat \ {0} /\ q[1] = Head(q)
      /\ \A i \in 1..Len(Tail(q)) : Tail(q)[i] = q[i + 1] /\ i + 1 \in 1..Len(q)
      /\ DOMAIN q = 1..Len(q) /\ DOMAIN Tail(q) = 1..(Len(q) - 1)
  OBVIOUS
<1>2. \A i \in 1..Len(q) : i = 1 \/ \E j \in 1..(Len(q) - 1) : i = j + 1
  <2> TAKE i \in 1..Len(q)
  <2>1. CASE i # 1
    <3>1. i - 1 \in 1..(Len(q) - 1) /\ i = (i - 1) + 1  BY <1>1, <2>1
    <3> QED  BY <3>1
  <2> QED  BY <2>1
<1>3. 1 \in DOMAIN q  BY <1>1
<1>4. ToSet(q) = {Head(q)} \cup ToSet(Tail(q))
  <2>1. ASSUME NEW x \in ToSet(q)  PROVE x = Head(q) \/ x \in ToSet(Tail(q))
    <3>1. PICK i \in 1..Len(q) : x = q[i]  BY <1>1 DEF ToSet
    <3>2. CASE i = 1  BY <1>1, <3>1, <3>2
    <3>3. ASSUME NEW j \in 1..(Len(q) - 1), i = j + 1  PROVE x \in ToSet(Tail(q))
      <4>1. x = Tail(q)[j] /\ j \in DOMAIN Tail(q)  BY <1>1, <3>1, <3>3
      <4> QED  BY <4>1 DEF ToSet
    <3> QED  BY <1>2, <3>2, <3>3
  <2>2. ASSUME NEW x \in ToSet(Tail(q))  PROVE x \in ToSet(q)
    <3>1. PICK i \in 1..(Len(q) - 1) : x = Tail(q)[i]  BY <1>1 DEF ToSet
    <3> QED  BY <1>1, <3>1 DEF ToSet
  <2>3. Head(q) \in ToSet(q)  BY <1>1, <1>3 DEF ToSet
  <2> QED  BY <2>1, <2>2, <2>3
<1> QED  BY <1>1, <1>4

\* The elements of a queue, and the queues that are empty or have one.
LEMMA ElementFacts ==
    ASSUME NEW E, NEW q \in Seq(E)
    PROVE  /\ ToSet(q) \subseteq E
           /\ \A i \in 1..Len(q) : q[i] \in ToSet(q)
           /\ ToSet(q) = {} <=> q = <<>>
           /\ ToSet(<<>>) = {} /\ <<>> \in Seq(E) /\ IsInjective(<<>>)
<1>1. DOMAIN q = 1..Len(q) /\ Len(q) \in Nat /\ \A i \in 1..Len(q) : q[i] \in E  OBVIOUS
<1>2. \A i \in 1..Len(q) : q[i] \in ToSet(q)  BY <1>1 DEF ToSet
<1>3. q # <<>> => 1 \in 1..Len(q)  OBVIOUS
<1>4. ToSet(q) \subseteq E  BY <1>1 DEF ToSet
<1>5. ToSet(<<>>) = {} /\ <<>> \in Seq(E) /\ IsInjective(<<>>)  BY DEF ToSet, IsInjective
<1> QED  BY <1>2, <1>3, <1>4, <1>5

LEMMA SingletonFacts ==
    ASSUME NEW E, NEW q \in Seq(E), Len(q) = 1, NEW p
    PROVE  q[1] \in E /\ q = <<q[1]>> /\ p \o q = p \o <<q[1]>>
<1>1. q = <<q[1]>> /\ q[1] \in E  OBVIOUS
<1> QED  BY <1>1

\* A queue without repetition and its head, its last element, a new head.
LEMMA HeadFacts ==
    ASSUME NEW E, NEW q \in Seq(E), q # <<>>, IsInjective(q)
    PROVE  IsInjective(Tail(q)) /\ Head(q) \notin ToSet(Tail(q))
<1> DEFINE t == Tail(q)
<1>1. /\ \A i \in 1..Len(t) : t[i] = q[i + 1] /\ i + 1 \in 1..Len(q)
      /\ q[1] = Head(q) /\ Len(q) \in Nat \ {0}
  BY TailFacts
<1>2. DOMAIN q = 1..Len(q) /\ DOMAIN t = 1..Len(t)  OBVIOUS
<1> HIDE DEF t
<1>3. ASSUME NEW i \in 1..Len(t), NEW j \in 1..Len(t), t[i] = t[j] PROVE i = j
  <2>1. i + 1 = j + 1  BY <1>1, <1>2, <1>3 DEF IsInjective
  <2> QED  BY <2>1
<1>4. ASSUME NEW i \in 1..Len(t), t[i] = Head(q) PROVE FALSE
  <2>1. 1 \in 1..Len(q)  BY <1>1
  <2>2. i + 1 = 1  BY <1>1, <1>2, <1>4, <2>1 DEF IsInjective
  <2> QED  BY <2>2
<1>5. IsInjective(t)  BY <1>2, <1>3 DEF IsInjective
<1>6. Head(q) \notin ToSet(t)  BY <1>2, <1>4 DEF ToSet
<1> QED  BY <1>5, <1>6 DEF t

LEMMA LastFacts ==
    ASSUME NEW E, NEW q \in Seq(E), q # <<>>
    PROVE  /\ Front(q) \in Seq(E) /\ Last(q) \in E /\ Len(Front(q)) = Len(q) - 1
           /\ Last(q) = q[Len(q)] /\ Len(q) \in Nat \ {0}
           /\ \A i \in 1..(Len(q) - 1) : Front(q)[i] = q[i]
           /\ ToSet(q) = ToSet(Front(q)) \cup {Last(q)}
           /\ IsInjective(q) => IsInjective(Front(q)) /\ Last(q) \notin ToSet(Front(q))
<1>1. Len(q) \in Nat \ {0} /\ Len(q) - 1 \in 0..Len(q) /\ q[Len(q)] \in E  OBVIOUS
<1>2. PICK k \in 0..Len(q) : k = Len(q) - 1  BY <1>1
<1> DEFINE a == SubSeq(q, 1, k)
           b == SubSeq(q, k + 1, Len(q))
<1>3. a \in Seq(E) /\ b \in Seq(E)  BY SplitFacts
<1>4. Len(a) = k /\ Len(b) = Len(q) - k  BY SplitFacts
<1>5. ToSet(q) = ToSet(a) \cup ToSet(b)  BY SplitFacts
<1>6. IsInjective(q) => IsInjective(a) /\ ToSet(a) \cap ToSet(b) = {}  BY SplitFacts
<1>7. b = <<q[Len(q)]>>
  <2>1. Len(b) = 1 /\ b[1] = q[Len(q)]  BY <1>1, <1>2
  <2> QED  BY <1>3, <2>1, SingletonFacts
<1>8. ToSet(b) = {q[Len(q)]}  BY <1>7 DEF ToSet
<1>9. \A i \in 1..k : a[i] = q[i]  BY <1>1
<1>10. Front(q) = a /\ Last(q) = q[Len(q)]  BY <1>2 DEF Front, Last
<1> HIDE DEF a, b
<1> QED  BY <1>1, <1>2, <1>3, <1>4, <1>5, <1>6, <1>8, <1>9, <1>10

LEMMA PushFacts ==
    ASSUME NEW E, NEW q \in Seq(E), NEW e \in E
    PROVE  /\ <<e>> \o q \in Seq(E) /\ <<e>> \o q # <<>> /\ Head(<<e>> \o q) = e
           /\ ToSet(<<e>> \o q) = {e} \cup ToSet(q)
           /\ IsInjective(q) /\ e \notin ToSet(q) => IsInjective(<<e>> \o q)
<1> DEFINE s == <<e>>
<1>1. <<e>> \o q \in Seq(E) /\ <<e>> \o q # <<>> /\ Head(<<e>> \o q) = e  OBVIOUS
<1>2. s \in Seq(E) /\ IsInjective(s)  BY DEF IsInjective
<1>3. ToSet(s) = {e}  BY DEF ToSet
<1> HIDE DEF s
<1>4. /\ ToSet(s \o q) = ToSet(s) \cup ToSet(q)
      /\ IsInjective(s \o q) <=>
           IsInjective(s) /\ IsInjective(q) /\ ToSet(s) \cap ToSet(q) = {}
  BY <1>2, ConcatFacts
<1> QED  BY <1>1, <1>2, <1>3, <1>4 DEF s

-----------------------------------------------------------------------------
(* Sums. *)

\* A set of subsets that is reached by adding elements has all of them.
LEMMA SubsetInduction ==
    ASSUME NEW S, IsFiniteSet(S), NEW T \in SUBSET (SUBSET S), {} \in T,
           \A s \in SUBSET S : s # {} /\ (\A x \in s : s \ {x} \in T) => s \in T
    PROVE  T = SUBSET S
<1> DEFINE N == {n \in Nat : \A s \in SUBSET S : Cardinality(s) = n => s \in T}
<1>1. \A s \in SUBSET S : IsFiniteSet(s) /\ Cardinality(s) \in Nat
  BY FS_Subset, FS_CardinalityType
<1>2. 0 \in N  BY <1>1, FS_EmptySet
<1>3. ASSUME NEW n \in N PROVE n + 1 \in N
  <2> SUFFICES ASSUME NEW s \in SUBSET S, Cardinality(s) = n + 1 PROVE s \in T
    OBVIOUS
  <2>1. n \in Nat  OBVIOUS
  <2>2. s # {}  BY <1>1, <2>1, FS_EmptySet
  <2>3. \A x \in s : Cardinality(s \ {x}) = n
    BY <1>1, <2>1, FS_RemoveElement
  <2>4. \A x \in s : s \ {x} \in T  BY <2>3
  <2> QED  BY <2>2, <2>4
<1>4. N = Nat
  <2>1. N \in SUBSET Nat  OBVIOUS
  <2> HIDE DEF N
  <2> QED  BY <1>2, <1>3, <2>1, NatSetInduction
<1> QED  BY <1>1, <1>4

\* One value of the recursive function inside MapThenFoldSet, for sums.
SumAt(f, g, s) == IF s = {} THEN 0 ELSE LET x == CHOOSE x \in s : TRUE IN f[x] + g[s \ {x}]

\* A solution of the recursion on the subsets of S.
Summed(f, S, g) == g = [s \in SUBSET S |-> SumAt(f, g, s)]

\* The recursion that defines a sum has a solution, and only one value for
\* each set.
LEMMA SumExists ==
    ASSUME NEW f, NEW S, IsFiniteSet(S)
    PROVE  \E g : Summed(f, S, g)
<1> DEFINE D(n) == {s \in SUBSET S : Cardinality(s) <= n}
           T == {n \in Nat : \E g : g = [s \in D(n) |-> SumAt(f, g, s)]}
<1>1. \A s \in SUBSET S : IsFiniteSet(s) /\ Cardinality(s) \in Nat
  BY FS_Subset, FS_CardinalityType
<1>2. 0 \in T
  <2> DEFINE g == [s \in D(0) |-> 0]
  <2>1. \A s \in D(0) : s = {}  BY <1>1, FS_EmptySet
  <2>2. g = [s \in D(0) |-> SumAt(f, g, s)]  BY <2>1 DEF SumAt
  <2> HIDE DEF g
  <2> QED  BY <2>2
<1>3. ASSUME NEW n \in T PROVE n + 1 \in T
  <2> n \in Nat  OBVIOUS
  <2>1. PICK g : g = [s \in D(n) |-> SumAt(f, g, s)]  OBVIOUS
  <2> DEFINE h == [s \in D(n + 1) |-> SumAt(f, g, s)]
  <2>2. \A s \in D(n) : s \in D(n + 1) /\ g[s] = SumAt(f, g, s)  BY <1>1, <2>1
  <2>3. \A s \in D(n) : h[s] = g[s]  BY <2>2
  <2>4. ASSUME NEW s \in D(n + 1), s # {}, NEW x \in s PROVE s \ {x} \in D(n)
    <3>1. Cardinality(s \ {x}) = Cardinality(s) - 1  BY <1>1, FS_RemoveElement
    <3> QED  BY <1>1, <3>1
  <2>5. ASSUME NEW s \in D(n + 1) PROVE SumAt(f, g, s) = SumAt(f, h, s)
    <3> HIDE DEF h, D
    <3>1. CASE s = {}  BY <3>1 DEF SumAt
    <3>2. CASE s # {}
      <4> DEFINE x == CHOOSE x \in s : TRUE
      <4>1. x \in s  BY <3>2
      <4>2. s \ {x} \in D(n)  BY <2>4, <3>2, <4>1
      <4>3. h[s \ {x}] = g[s \ {x}]  BY <2>3, <4>2
      <4> QED  BY <4>3, <3>2 DEF SumAt
    <3> QED  BY <3>1, <3>2
  <2>6. h = [s \in D(n + 1) |-> SumAt(f, h, s)]
    <3> HIDE DEF D
    <3> QED  BY <2>5
  <2> HIDE DEF h, D
  <2> QED  BY <2>6
<1>4. T = Nat
  <2>1. T \in SUBSET Nat  OBVIOUS
  <2> HIDE DEF T
  <2> QED  BY <1>2, <1>3, <2>1, NatSetInduction
<1>5. Cardinality(S) \in Nat /\ D(Cardinality(S)) = SUBSET S
  BY FS_Subset, FS_CardinalityType
<1>6. PICK g : g = [s \in D(Cardinality(S)) |-> SumAt(f, g, s)]
  <2> HIDE DEF D
  <2> QED  BY <1>4, <1>5
<1> QED  BY <1>5, <1>6 DEF Summed

LEMMA SumUnique ==
    ASSUME NEW f, NEW S, IsFiniteSet(S), NEW R \in SUBSET S, NEW g, NEW h,
           Summed(f, S, g), Summed(f, R, h)
    PROVE  g[R] = h[R]
<1> DEFINE T == {s \in SUBSET R : g[s] = h[s]}
<1>1. IsFiniteSet(R)  BY FS_Subset
<1>2. ASSUME NEW s \in SUBSET R
      PROVE  g[s] = SumAt(f, g, s) /\ h[s] = SumAt(f, h, s)
  BY DEF Summed
<1>3. {} \in T  BY <1>2 DEF SumAt
<1>4. ASSUME NEW s \in SUBSET R, s # {}, \A x \in s : s \ {x} \in T PROVE s \in T
  <2> DEFINE x == CHOOSE x \in s : TRUE
  <2>1. x \in s  BY <1>4
  <2>2. g[s \ {x}] = h[s \ {x}]  BY <1>4, <2>1
  <2>3. SumAt(f, g, s) = SumAt(f, h, s)  BY <2>2, <1>4 DEF SumAt
  <2> QED  BY <1>2, <2>3
<1>5. T = SUBSET R
  <2>1. T \in SUBSET (SUBSET R)  OBVIOUS
  <2> HIDE DEF T
  <2> QED  BY <1>1, <1>3, <1>4, <2>1, SubsetInduction
<1>6. R \in T  BY <1>5
<1> QED  BY <1>6

\* SumFunctionOnSet is the last value of a function that satisfies the recursion.
LEMMA SumIsSummed ==
    ASSUME NEW f, NEW S, IsFiniteSet(S)
    PROVE  \E g : Summed(f, S, g) /\ SumFunctionOnSet(f, S) = g[S]
<1> DEFINE g == CHOOSE g : Summed(f, S, g)
<1>1. Summed(f, S, g)  BY SumExists
<1>2. SumFunctionOnSet(f, S) = g[S]
  BY Zenon DEF SumFunctionOnSet, FoldFunctionOnSet, MapThenFoldSet, Summed, SumAt
<1> HIDE DEF g
<1> QED  BY <1>1, <1>2

\* A sum is its chosen term and the sum of the rest.
LEMMA SumChosen ==
    ASSUME NEW f, NEW S, IsFiniteSet(S), S # {}
    PROVE  \E x \in S : SumFunctionOnSet(f, S) = f[x] + SumFunctionOnSet(f, S \ {x})
<1> DEFINE x == CHOOSE x \in S : TRUE
<1>1. x \in S  OBVIOUS
<1>2. IsFiniteSet(S \ {x}) /\ S \ {x} \in SUBSET S  BY FS_Subset
<1>3. PICK g : Summed(f, S, g) /\ SumFunctionOnSet(f, S) = g[S]  BY SumIsSummed
<1>4. PICK h : Summed(f, S \ {x}, h) /\ SumFunctionOnSet(f, S \ {x}) = h[S \ {x}]
  BY <1>2, SumIsSummed
<1>5. g[S \ {x}] = h[S \ {x}]  BY <1>2, <1>3, <1>4, SumUnique
<1>6. g[S] = f[x] + g[S \ {x}]  BY <1>3 DEF Summed, SumAt
<1> QED  BY <1>1, <1>3, <1>4, <1>5, <1>6

LEMMA SumEmpty == ASSUME NEW f PROVE SumFunctionOnSet(f, {}) = 0
<1>1. IsFiniteSet({})  BY FS_EmptySet
<1>2. PICK g : Summed(f, {}, g) /\ SumFunctionOnSet(f, {}) = g[{}]  BY <1>1, SumIsSummed
<1> QED  BY <1>2 DEF Summed, SumAt

\* A sum of integers is an integer.
LEMMA SumType ==
    ASSUME NEW S, IsFiniteSet(S), NEW f, \A x \in S : f[x] \in Int
    PROVE  SumFunctionOnSet(f, S) \in Int
<1> DEFINE T == {s \in SUBSET S : SumFunctionOnSet(f, s) \in Int}
<1>1. {} \in T  BY SumEmpty
<1>2. ASSUME NEW s \in SUBSET S, s # {}, \A x \in s : s \ {x} \in T PROVE s \in T
  <2>1. IsFiniteSet(s)  BY FS_Subset
  <2>2. PICK x \in s : SumFunctionOnSet(f, s) = f[x] + SumFunctionOnSet(f, s \ {x})
    BY <1>2, <2>1, SumChosen
  <2> QED  BY <1>2, <2>2
<1>3. T = SUBSET S
  <2>1. T \in SUBSET (SUBSET S)  OBVIOUS
  <2> HIDE DEF T
  <2> QED  BY <1>1, <1>2, <2>1, SubsetInduction
<1>4. S \in T  BY <1>3
<1> QED  BY <1>4

\* Any term may be taken out first.
LEMMA SumSplit ==
    ASSUME NEW S, IsFiniteSet(S), NEW f, \A x \in S : f[x] \in Int, NEW y \in S
    PROVE  SumFunctionOnSet(f, S) = f[y] + SumFunctionOnSet(f, S \ {y})
<1> DEFINE Sum(s) == SumFunctionOnSet(f, s)
           T == {s \in SUBSET S : \A z \in s : Sum(s) = f[z] + Sum(s \ {z})}
<1>1. {} \in T  OBVIOUS
<1>2. ASSUME NEW s \in SUBSET S, s # {}, \A x \in s : s \ {x} \in T PROVE s \in T
  <2> SUFFICES ASSUME NEW z \in s PROVE Sum(s) = f[z] + Sum(s \ {z})  OBVIOUS
  <2>1. IsFiniteSet(s)  BY FS_Subset
  <2>2. PICK x \in s : Sum(s) = f[x] + Sum(s \ {x})  BY <1>2, <2>1, SumChosen
  <2>3. CASE x = z  BY <2>2, <2>3
  <2>4. CASE x # z
    <3> DEFINE both == (s \ {x}) \ {z}
    <3>1. z \in s \ {x} /\ x \in s \ {z} /\ both = (s \ {z}) \ {x}  BY <2>4
    <3>2. Sum(s \ {x}) = f[z] + Sum(both)  BY <1>2, <3>1
    <3>3. Sum(s \ {z}) = f[x] + Sum(both)  BY <1>2, <3>1
    <3>4. Sum(both) \in Int
      <4>1. IsFiniteSet(both) /\ \A a \in both : f[a] \in Int  BY FS_Subset
      <4> HIDE DEF both
      <4> QED  BY <4>1, SumType
    <3> HIDE DEF both, Sum
    <3> QED  BY <2>2, <3>2, <3>3, <3>4
  <2> QED  BY <2>3, <2>4
<1>3. T = SUBSET S
  <2>1. T \in SUBSET (SUBSET S)  OBVIOUS
  <2> HIDE DEF T
  <2> QED  BY <1>1, <1>2, <2>1, SubsetInduction
<1>4. S \in T  BY <1>3
<1> QED  BY <1>4

\* Functions that agree have the same sum.
LEMMA SumAgrees ==
    ASSUME NEW S, IsFiniteSet(S), NEW f, NEW g, \A x \in S : f[x] = g[x],
           \A x \in S : f[x] \in Int
    PROVE  SumFunctionOnSet(f, S) = SumFunctionOnSet(g, S)
<1> DEFINE T == {s \in SUBSET S : SumFunctionOnSet(f, s) = SumFunctionOnSet(g, s)}
<1>1. {} \in T  BY SumEmpty
<1>2. ASSUME NEW s \in SUBSET S, s # {}, \A x \in s : s \ {x} \in T PROVE s \in T
  <2>1. IsFiniteSet(s) /\ \A x \in s : f[x] \in Int /\ g[x] \in Int  BY FS_Subset
  <2>2. PICK x \in s : TRUE  BY <1>2
  <2>3. SumFunctionOnSet(f, s) = f[x] + SumFunctionOnSet(f, s \ {x})  BY <2>1, SumSplit
  <2>4. SumFunctionOnSet(g, s) = g[x] + SumFunctionOnSet(g, s \ {x})  BY <2>1, SumSplit
  <2> QED  BY <1>2, <2>3, <2>4
<1>3. T = SUBSET S
  <2>1. T \in SUBSET (SUBSET S)  OBVIOUS
  <2> HIDE DEF T
  <2> QED  BY <1>1, <1>2, <2>1, SubsetInduction
<1>4. S \in T  BY <1>3
<1> QED  BY <1>4

\* A sum after one of its terms has changed.
LEMMA SumUpdate ==
    ASSUME NEW D, IsFiniteSet(D), NEW f \in [D -> Int], NEW x \in D, NEW n \in Int
    PROVE  /\ SumFunction(f) \in Int
           /\ SumFunction([f EXCEPT ![x] = n]) = SumFunction(f) - f[x] + n
<1> DEFINE g == [f EXCEPT ![x] = n]
           R == D \ {x}
<1>1. DOMAIN f = D /\ DOMAIN g = D /\ g \in [D -> Int] /\ g[x] = n
      /\ (\A y \in R : f[y] = g[y]) /\ \A y \in D : f[y] \in Int /\ g[y] \in Int
  OBVIOUS
<1>2. IsFiniteSet(R) /\ R \subseteq D  BY FS_Subset
<1> HIDE DEF g
<1>3. SumFunctionOnSet(f, D) = f[x] + SumFunctionOnSet(f, R)  BY <1>1, SumSplit
<1>4. SumFunctionOnSet(g, D) = n + SumFunctionOnSet(g, R)
  <2>1. SumFunctionOnSet(g, D) = g[x] + SumFunctionOnSet(g, D \ {x})  BY <1>1, SumSplit
  <2> QED  BY <1>1, <2>1
<1> HIDE DEF R
<1>5. SumFunctionOnSet(f, R) = SumFunctionOnSet(g, R)  BY <1>1, <1>2, SumAgrees
<1>6. SumFunctionOnSet(f, R) \in Int  BY <1>1, <1>2, SumType
<1>7. f[x] \in Int  BY <1>1
<1> QED  BY <1>1, <1>3, <1>4, <1>5, <1>6, <1>7 DEF SumFunction, g

LEMMA SumZero ==
    ASSUME NEW S, IsFiniteSet(S), NEW f, \A x \in S : f[x] = 0
    PROVE  SumFunctionOnSet(f, S) = 0
<1> DEFINE T == {s \in SUBSET S : SumFunctionOnSet(f, s) = 0}
<1>1. {} \in T  BY SumEmpty
<1>2. ASSUME NEW s \in SUBSET S, s # {}, \A x \in s : s \ {x} \in T PROVE s \in T
  <2>1. IsFiniteSet(s)  BY FS_Subset
  <2>2. PICK x \in s : SumFunctionOnSet(f, s) = f[x] + SumFunctionOnSet(f, s \ {x})
    BY <1>2, <2>1, SumChosen
  <2> QED  BY <1>2, <2>2
<1>3. T = SUBSET S
  <2>1. T \in SUBSET (SUBSET S)  OBVIOUS
  <2> HIDE DEF T
  <2> QED  BY <1>1, <1>2, <2>1, SubsetInduction
<1>4. S \in T  BY <1>3
<1> QED  BY <1>4

\* A sum of naturals is a natural.
LEMMA SumNat ==
    ASSUME NEW S, IsFiniteSet(S), NEW f, \A x \in S : f[x] \in Nat
    PROVE  SumFunctionOnSet(f, S) \in Nat
<1> DEFINE T == {s \in SUBSET S : SumFunctionOnSet(f, s) \in Nat}
<1>1. {} \in T  BY SumEmpty
<1>2. ASSUME NEW s \in SUBSET S, s # {}, \A x \in s : s \ {x} \in T PROVE s \in T
  <2>1. IsFiniteSet(s)  BY FS_Subset
  <2>2. PICK x \in s : SumFunctionOnSet(f, s) = f[x] + SumFunctionOnSet(f, s \ {x})
    BY <1>2, <2>1, SumChosen
  <2> QED  BY <1>2, <2>2
<1>3. T = SUBSET S
  <2>1. T \in SUBSET (SUBSET S)  OBVIOUS
  <2> HIDE DEF T
  <2> QED  BY <1>1, <1>2, <2>1, SubsetInduction
<1>4. S \in T  BY <1>3
<1> QED  BY <1>4

\* A sum is not below another one, term by term; and it is above it when one
\* term is.
LEMMA SumMonotone ==
    ASSUME NEW S, IsFiniteSet(S), NEW f, NEW g,
           \A x \in S : f[x] \in Int /\ g[x] \in Int /\ f[x] <= g[x]
    PROVE  SumFunctionOnSet(f, S) <= SumFunctionOnSet(g, S)
<1> DEFINE T == {s \in SUBSET S : SumFunctionOnSet(f, s) <= SumFunctionOnSet(g, s)}
<1>1. {} \in T  BY SumEmpty
<1>2. ASSUME NEW s \in SUBSET S, s # {}, \A x \in s : s \ {x} \in T PROVE s \in T
  <2>1. IsFiniteSet(s) /\ (\A x \in s : f[x] \in Int) /\ \A x \in s : g[x] \in Int  BY FS_Subset
  <2>2. PICK x \in s : TRUE  BY <1>2
  <2> DEFINE a == SumFunctionOnSet(f, s \ {x})
             b == SumFunctionOnSet(g, s \ {x})
  <2>3. SumFunctionOnSet(f, s) = f[x] + a  BY <2>1, SumSplit
  <2>4. SumFunctionOnSet(g, s) = g[x] + b  BY <2>1, SumSplit
  <2>5. IsFiniteSet(s \ {x})  BY <2>1, FS_Subset
  <2>6. a \in Int  BY <2>1, <2>5, SumType
  <2>7. b \in Int  BY <2>1, <2>5, SumType
  <2>8. a <= b  BY <1>2, <2>2
  <2>9. f[x] \in Int /\ g[x] \in Int /\ f[x] <= g[x]  BY <2>2
  <2> HIDE DEF a, b
  <2> QED  BY <2>3, <2>4, <2>6, <2>7, <2>8, <2>9
<1>3. T = SUBSET S
  <2>1. T \in SUBSET (SUBSET S)  OBVIOUS
  <2> HIDE DEF T
  <2> QED  BY <1>1, <1>2, <2>1, SubsetInduction
<1>4. S \in T  BY <1>3
<1> QED  BY <1>4

LEMMA SumBelow ==
    ASSUME NEW S, IsFiniteSet(S), NEW f, NEW g,
           \A x \in S : f[x] \in Int /\ g[x] \in Int /\ f[x] <= g[x],
           NEW y \in S, f[y] < g[y]
    PROVE  SumFunctionOnSet(f, S) < SumFunctionOnSet(g, S)
<1> DEFINE R == S \ {y}
           a == SumFunctionOnSet(f, R)
           b == SumFunctionOnSet(g, R)
<1>1. IsFiniteSet(R) /\ R \subseteq S  BY FS_Subset
<1>2. (\A x \in S : f[x] \in Int) /\ \A x \in S : g[x] \in Int  OBVIOUS
<1>3. SumFunctionOnSet(f, S) = f[y] + a  BY <1>2, SumSplit
<1>4. SumFunctionOnSet(g, S) = g[y] + b  BY <1>2, SumSplit
<1> HIDE DEF R
<1>5. a \in Int  BY <1>1, <1>2, SumType
<1>6. b \in Int  BY <1>1, <1>2, SumType
<1>7. a <= b  BY <1>1, SumMonotone
<1>8. f[y] \in Int /\ g[y] \in Int  OBVIOUS
<1> HIDE DEF a, b
<1> QED  BY <1>3, <1>4, <1>5, <1>6, <1>7, <1>8

\* A sum over one position more.
LEMMA SumNext ==
    ASSUME NEW n \in Nat, NEW f, NEW g, \A j \in 1..(n + 1) : f[j] \in Int,
           \A j \in 1..n : g[j] = f[j]
    PROVE  /\ SumFunctionOnSet(g, 1..n) \in Int
           /\ SumFunctionOnSet(f, 1..(n + 1)) = SumFunctionOnSet(g, 1..n) + f[n + 1]
<1> DEFINE S == 1..(n + 1)
           R == 1..n
<1>1. IsFiniteSet(S) /\ IsFiniteSet(R)  BY FS_Interval
<1>2. n + 1 \in S /\ S \ {n + 1} = R /\ f[n + 1] \in Int
      /\ (\A j \in R : g[j] \in Int) /\ \A j \in S : f[j] \in Int
  OBVIOUS
<1>3. \A j \in R : g[j] = f[j]  OBVIOUS
<1> HIDE DEF S, R
<1>4. SumFunctionOnSet(f, S) = f[n + 1] + SumFunctionOnSet(f, S \ {n + 1})
  BY <1>1, <1>2, SumSplit
<1>5. SumFunctionOnSet(g, R) = SumFunctionOnSet(f, R)  BY <1>1, <1>2, <1>3, SumAgrees
<1>6. SumFunctionOnSet(g, R) \in Int  BY <1>1, <1>2, SumType
<1>7. SumFunctionOnSet(f, S) = SumFunctionOnSet(g, R) + f[n + 1]
  <2> DEFINE a == SumFunctionOnSet(g, R)
  <2>1. SumFunctionOnSet(f, S) = f[n + 1] + a /\ a \in Int /\ f[n + 1] \in Int
    BY <1>2, <1>4, <1>5, <1>6
  <2> HIDE DEF a
  <2>2. f[n + 1] + a = a + f[n + 1]  BY <2>1
  <2>3. SumFunctionOnSet(f, S) = a + f[n + 1]  BY <2>1, <2>2
  <2> QED  BY <2>3 DEF a
<1> QED  BY <1>6, <1>7 DEF S, R

-----------------------------------------------------------------------------
(* The accountant. *)

\* The types of an account.
AccountType(a) ==
    /\ a.remaining \in Int
    /\ a.caps \in [DOMAIN a.caps -> Nat]
    /\ a.committed \in [DOMAIN a.caps -> Int]

\* The fields of an account.
IsAccount(a) ==
    a = [total |-> a.total, remaining |-> a.remaining, caps |-> a.caps,
         committed |-> a.committed, by |-> a.by]

\* clamp() never goes beyond the request, its cap or the total; and what it
\* leaves of a request is never negative.
LEMMA ClampBounds ==
    ASSUME NEW a, NEW r, NEW n \in Nat, AccountType(a), a.remaining >= 0
    PROVE  /\ Clamp(a, r, n) \in Nat
           /\ Clamp(a, r, n) <= n
           /\ Clamp(a, r, n) <= a.remaining
           /\ Clamp(a, r, n) > 0 => /\ HasCap(a, r)
                                    /\ a.committed[r] + Clamp(a, r, n) <= a.caps[r]
  <1>1. CASE HasCap(a, r)
    <2>1. a.caps[r] \in Nat /\ a.committed[r] \in Int
      BY <1>1 DEF HasCap, AccountType
    <2> QED
      BY <1>1, <2>1 DEF Clamp, Least, Monus, AccountType
  <1>2. CASE ~HasCap(a, r)
    BY <1>2 DEF Clamp, AccountType
  <1> QED
    BY <1>1, <1>2

\* restore() gives back at most what was asked, and at most what was committed.
LEMMA RestoredBounds ==
    ASSUME NEW a, NEW r, NEW n \in Nat, AccountType(a),
           HasCap(a, r) => a.committed[r] >= 0
    PROVE  /\ Restored(a, r, n) \in Nat
           /\ Restored(a, r, n) <= n
           /\ HasCap(a, r) => Restored(a, r, n) <= a.committed[r]
           /\ HasCap(a, r) /\ n <= a.committed[r] => Restored(a, r, n) = n
  <1>1. HasCap(a, r) => a.committed[r] \in Int
    BY DEF HasCap, AccountType
  <1> QED
    BY <1>1 DEF Restored, Least

\* A finite set of integers has a least element.
LEMMA FiniteMinimum ==
    ASSUME NEW S \in SUBSET Int, IsFiniteSet(S), S # {}
    PROVE  \E m \in S : \A x \in S : m <= x
<1> DEFINE T == {s \in SUBSET S : s # {} => \E m \in s : \A x \in s : m <= x}
<1>1. {} \in T  OBVIOUS
<1>2. ASSUME NEW s \in SUBSET S, s # {}, \A x \in s : s \ {x} \in T PROVE s \in T
  <2>1. PICK x \in s : TRUE  BY <1>2
  <2>2. s \ {x} \in T /\ x \in Int /\ \A y \in s : y = x \/ y \in s \ {x}  BY <1>2
  <2>3. CASE s \ {x} = {}  BY <2>1, <2>2, <2>3
  <2>4. CASE s \ {x} # {}
    <3>1. PICK m \in s \ {x} : \A y \in s \ {x} : m <= y  BY <2>2, <2>4
    <3>2. m \in Int /\ \A y \in s : y \in Int  BY <3>1
    <3>3. CASE m <= x  BY <2>2, <3>1, <3>3
    <3>4. CASE ~(m <= x)
      <4>1. \A y \in s \ {x} : x <= y  BY <2>2, <3>1, <3>2, <3>4
      <4>2. \A y \in s : x <= y  BY <2>2, <4>1
      <4> QED  BY <2>1, <4>2
    <3> QED  BY <3>3, <3>4
  <2> QED  BY <2>3, <2>4
<1>3. T \in SUBSET (SUBSET S)  OBVIOUS
<1> HIDE DEF T
<1>4. T = SUBSET S  BY <1>1, <1>2, <1>3, SubsetInduction
<1>5. S \in T  BY <1>4
<1> QED  BY <1>5 DEF T

\* The values of a function on a finite set, and the elements of a queue, are
\* finitely many.
LEMMA FiniteImage ==
    ASSUME NEW S, IsFiniteSet(S), NEW f, DOMAIN f = S, f = [x \in S |-> f[x]]
    PROVE  IsFiniteSet({f[x] : x \in S})
<1> DEFINE T == {f[x] : x \in S}
<1>1. f \in Surjection(S, T)
  <2>1. f \in [S -> T]  OBVIOUS
  <2>2. \A y \in T : \E x \in S : f[x] = y  OBVIOUS
  <2> HIDE DEF T
  <2> QED  BY <2>1, <2>2 DEF Surjection
<1> HIDE DEF T
<1> QED  BY <1>1, FS_Surjection DEF T

LEMMA FiniteElements ==
    ASSUME NEW E, NEW q \in Seq(E)
    PROVE  IsFiniteSet(ToSet(q))
<1>1. DOMAIN q = 1..Len(q) /\ Len(q) \in Nat /\ q = [i \in 1..Len(q) |-> q[i]]  OBVIOUS
<1>2. IsFiniteSet(1..Len(q))  BY <1>1, FS_Interval
<1>3. IsFiniteSet({q[i] : i \in 1..Len(q)})  BY <1>1, <1>2, FiniteImage
<1> QED  BY <1>1, <1>3 DEF ToSet

\* A queue in reverse, and without one of its places.
LEMMA ReverseFacts ==
    ASSUME NEW E, NEW q \in Seq(E)
    PROVE  /\ Reverse(q) \in Seq(E) /\ ToSet(Reverse(q)) = ToSet(q)
           /\ IsInjective(q) => IsInjective(Reverse(q))
<1> DEFINE n == Len(q)
           p == Reverse(q)
<1>1. n \in Nat /\ DOMAIN q = 1..n /\ \A i \in 1..n : q[i] \in E  OBVIOUS
<1>2. p = [i \in 1..n |-> q[(n - i) + 1]]  BY DEF Reverse
<1> HIDE DEF p, n
<1>3. \A i \in 1..n : (n - i) + 1 \in 1..n /\ (n - ((n - i) + 1)) + 1 = i  BY <1>1
<1>4. p \in [1..n -> E]  BY <1>1, <1>2, <1>3
<1>5. p \in Seq(E) /\ DOMAIN p = 1..n /\ \A i \in 1..n : p[i] = q[(n - i) + 1]
  BY <1>1, <1>2, <1>4
<1>6. ToSet(p) = ToSet(q)
  <2>1. ASSUME NEW i \in 1..n PROVE p[i] \in ToSet(q) /\ q[i] \in ToSet(p)
    <3>1. p[i] = q[(n - i) + 1] /\ (n - i) + 1 \in 1..n  BY <1>3, <1>5
    <3>2. p[(n - i) + 1] = q[i]  BY <1>3, <1>5
    <3> QED  BY <1>1, <1>3, <1>5, <3>1, <3>2 DEF ToSet
  <2> QED  BY <1>1, <1>5, <2>1 DEF ToSet
<1>7. IsInjective(q) => IsInjective(p)
  <2> SUFFICES ASSUME IsInjective(q), NEW i \in 1..n, NEW j \in 1..n, p[i] = p[j]
               PROVE  i = j
    BY <1>5 DEF IsInjective
  <2>1. (n - i) + 1 = (n - j) + 1  BY <1>1, <1>3, <1>5 DEF IsInjective
  <2> QED  BY <1>1, <2>1
<1> QED  BY <1>5, <1>6, <1>7 DEF p

LEMMA RemoveFacts ==
    ASSUME NEW E, NEW q \in Seq(E), IsInjective(q), NEW k \in 1..Len(q)
    PROVE  /\ q[k] \in E /\ q[k] \in ToSet(q)
           /\ RemoveAt(q, k) \in Seq(E) /\ IsInjective(RemoveAt(q, k))
           /\ ToSet(RemoveAt(q, k)) = ToSet(q) \ {q[k]}
<1> DEFINE a == SubSeq(q, 1, k - 1)
           h == SubSeq(q, 1, k)
           b == SubSeq(q, k + 1, Len(q))
           e == <<q[k]>>
<1>1. k - 1 \in 0..Len(q) /\ k \in 0..Len(q) /\ 1 \in 1..Len(q) /\ q[k] \in E  OBVIOUS
<1>2. h = a \o e  BY <1>1, SubSeqRecursiveSecond
<1>3. /\ h \in Seq(E) /\ b \in Seq(E) /\ ToSet(q) = ToSet(h) \cup ToSet(b)
      /\ IsInjective(h) /\ IsInjective(b) /\ ToSet(h) \cap ToSet(b) = {}
  BY <1>1, SplitFacts
<1>4. a \in Seq(E)
  <2> DEFINE j == k - 1
  <2>1. j \in 0..Len(q)  BY <1>1
  <2> HIDE DEF j
  <2>2. SubSeq(q, 1, j) \in Seq(E)  BY <2>1, SplitFacts
  <2> QED  BY <2>2 DEF j
<1>5. e \in Seq(E) /\ ToSet(e) = {q[k]}  BY <1>1 DEF ToSet
<1>6. RemoveAt(q, k) = a \o b  BY DEF RemoveAt
<1> HIDE DEF a, h, b, e
<1>7. /\ ToSet(h) = ToSet(a) \cup ToSet(e) /\ IsInjective(a)
      /\ ToSet(a) \cap ToSet(e) = {}
  BY <1>2, <1>3, <1>4, <1>5, ConcatFacts
<1>8. ToSet(a) \cap ToSet(b) = {} /\ q[k] \notin ToSet(b) /\ q[k] \notin ToSet(a)
  BY <1>3, <1>5, <1>7
<1>9. a \o b \in Seq(E) /\ IsInjective(a \o b) /\ ToSet(a \o b) = ToSet(a) \cup ToSet(b)
  BY <1>3, <1>4, <1>7, <1>8, ConcatFacts
<1>10. ToSet(q) = ToSet(a) \cup {q[k]} \cup ToSet(b)  BY <1>3, <1>5, <1>7
<1> QED  BY <1>1, <1>6, <1>8, <1>9, <1>10

\* A queue without repetitions has as many elements as places.
LEMMA QueueIsFinite ==
    ASSUME NEW E, NEW q \in Seq(E)
    PROVE  /\ IsFiniteSet(ToSet(q)) /\ Cardinality(ToSet(q)) \in Nat
           /\ IsInjective(q) => Cardinality(ToSet(q)) = Len(q)
<1>1. Len(q) \in Nat /\ DOMAIN q = 1..Len(q) /\ q \in [1..Len(q) -> E]  OBVIOUS
<1>2. q \in [1..Len(q) -> ToSet(q)]  BY <1>1 DEF ToSet
<1>3. q \in Surjection(1..Len(q), ToSet(q))  BY <1>1, <1>2 DEF Surjection, ToSet
<1>4. IsFiniteSet(1..Len(q)) /\ Cardinality(1..Len(q)) = Len(q)
  <2>1. /\ IsFiniteSet(1..Len(q))
        /\ Cardinality(1..Len(q)) = IF 1 > Len(q) THEN 0 ELSE Len(q) - 1 + 1
    BY <1>1, FS_Interval
  <2> QED  BY <1>1, <2>1
<1>5. /\ IsFiniteSet(ToSet(q))
      /\ Cardinality(ToSet(q)) = Cardinality(1..Len(q)) <=> q \in Injection(1..Len(q), ToSet(q))
  BY <1>3, <1>4, FS_Surjection
<1>6. Cardinality(ToSet(q)) \in Nat  BY <1>5, FS_CardinalityType
<1>7. ASSUME IsInjective(q) PROVE q \in Injection(1..Len(q), ToSet(q))
  BY <1>1, <1>2, <1>7 DEF IsInjective, Injection
<1> QED  BY <1>4, <1>5, <1>6, <1>7

\* Two queues without repetitions that hold the same are equally long.
LEMMA SameLength ==
    ASSUME NEW E, NEW p \in Seq(E), NEW q \in Seq(E), IsInjective(p), IsInjective(q),
           ToSet(p) = ToSet(q)
    PROVE  Len(p) = Len(q)
BY QueueIsFinite
=============================================================================
