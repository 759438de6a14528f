---------------------------- MODULE LListProofs ----------------------------
(***************************************************************************)
(* Proofs about module LList, for any nodes and values and any sequence of *)
(* calls, also after the cursor was skewed.  The invariant keeps, beside   *)
(* the list, the sequence of its nodes: next, prev, head and tail are read *)
(* off it, and the cursor points to a cell of one of its nodes.            *)
(***************************************************************************)
EXTENDS LList, SequenceTheorems, FiniteSetTheorems, FunctionTheorems,
        WellFoundedInduction, TLAPS

----------------------------------------------------------------------------
(* Sequences.                                                              *)

LEMMA LeastExists ==
  ASSUME NEW T, T \subseteq Nat, T # {}
  PROVE  \E x \in T : \A y \in T : x <= y
<1>1. PICK x \in T : \A y \in T : ~ (<<y, x>> \in OpToRel(<, Nat))
  BY NatLessThanWellFounded, WFMin
<1>2. ASSUME NEW y \in T PROVE x <= y
  <2>1. <<y, x>> \notin {ss \in Nat \X Nat : ss[1] < ss[2]}
    BY <1>1 DEF OpToRel
  <2> QED
    BY <2>1
<1> QED
  BY <1>2

LEMMA RemoveAtFacts ==
  ASSUME NEW S, NEW s \in Seq(S), NEW k \in 1..Len(s)
  PROVE  /\ RemoveAt(s, k) \in Seq(S)
         /\ Len(RemoveAt(s, k)) = Len(s) - 1
         /\ \A i \in 1..Len(s) - 1 :
              RemoveAt(s, k)[i] = IF i < k THEN s[i] ELSE s[i + 1]
<1> DEFINE a == SubSeq(s, 1, k - 1)
           b == SubSeq(s, k + 1, Len(s))
<1>1. Len(s) \in Nat /\ \A i \in 1..Len(s) : s[i] \in S
  BY ElementOfSeq, LenProperties
<1>2. /\ a \in Seq(S)
      /\ Len(a) = IF 1 <= k - 1 THEN k - 1 - 1 + 1 ELSE 0
      /\ \A i \in 1..k - 1 - 1 + 1 : a[i] = s[1 + i - 1]
  <2>1. \A i \in 1..k - 1 : s[i] \in S
    BY <1>1
  <2> QED
    BY <1>1, <2>1, SubSeqProperties
<1>3. /\ b \in Seq(S)
      /\ Len(b) = IF k + 1 <= Len(s) THEN Len(s) - (k + 1) + 1 ELSE 0
      /\ \A i \in 1..Len(s) - (k + 1) + 1 : b[i] = s[k + 1 + i - 1]
  <2>1. \A i \in k + 1..Len(s) : s[i] \in S
    BY <1>1
  <2> QED
    BY <1>1, <2>1, SubSeqProperties
<1> HIDE DEF a, b
<1>4. /\ a \o b \in Seq(S)
      /\ Len(a \o b) = Len(a) + Len(b)
      /\ \A i \in 1..Len(a) + Len(b) :
           (a \o b)[i] = IF i <= Len(a) THEN a[i] ELSE b[i - Len(a)]
  BY <1>2, <1>3, ConcatProperties
<1>5. Len(a) = k - 1 /\ Len(b) = Len(s) - k
  BY <1>1, <1>2, <1>3
<1>6. \A i \in 1..Len(s) - 1 : (a \o b)[i] = IF i < k THEN s[i] ELSE s[i + 1]
  <2> SUFFICES ASSUME NEW i \in 1..Len(s) - 1
               PROVE  (a \o b)[i] = IF i < k THEN s[i] ELSE s[i + 1]
    OBVIOUS
  <2>1. CASE i < k
    <3>1. (a \o b)[i] = a[i] /\ a[i] = s[i]
      BY <1>1, <1>2, <1>4, <1>5, <2>1
    <3> QED
      BY <2>1, <3>1
  <2>2. CASE ~(i < k)
    <3>1. (a \o b)[i] = b[i - (k - 1)]
      BY <1>1, <1>4, <1>5, <2>2
    <3>2. i - (k - 1) \in 1..Len(s) - (k + 1) + 1
      BY <1>1, <2>2
    <3>3. b[i - (k - 1)] = s[k + 1 + (i - (k - 1)) - 1]
      BY <1>3, <3>2
    <3>4. k + 1 + (i - (k - 1)) - 1 = i + 1
      BY <1>1, <2>2
    <3> QED
      BY <2>2, <3>1, <3>3, <3>4
  <2> QED
    BY <2>1, <2>2
<1>7. RemoveAt(s, k) = a \o b
  BY DEF RemoveAt, a, b
<1>8. Len(a \o b) = Len(s) - 1
  BY <1>1, <1>4, <1>5
<1> DEFINE c == a \o b
<1> HIDE DEF c
<1>9. c \in Seq(S) /\ Len(c) = Len(s) - 1 /\ RemoveAt(s, k) = c
      /\ \A i \in 1..Len(s) - 1 : c[i] = IF i < k THEN s[i] ELSE s[i + 1]
  BY <1>4, <1>6, <1>7, <1>8 DEF c
<1> QED
  BY <1>9

\* d is s with x put in at place k.
Spliced(d, s, k, x) ==
  /\ Len(d) = Len(s) + 1
  /\ \A i \in 1..Len(s) + 1 : d[i] = IF i < k THEN s[i] ELSE IF i = k THEN x ELSE s[i - 1]

LEMMA InsertAtFacts ==
  ASSUME NEW S, NEW s \in Seq(S), NEW k \in 1..Len(s) + 1, NEW x \in S
  PROVE  /\ InsertAt(s, k, x) \in Seq(S)
         /\ Len(InsertAt(s, k, x)) = Len(s) + 1
         /\ \A i \in 1..Len(s) + 1 :
              InsertAt(s, k, x)[i] = IF i < k THEN s[i] ELSE IF i = k THEN x ELSE s[i - 1]
<1> DEFINE a == SubSeq(s, 1, k - 1)
           b == SubSeq(s, k, Len(s))
           m == a \o <<x>>
           r == m \o b
<1>1. Len(s) \in Nat /\ \A i \in 1..Len(s) : s[i] \in S
  BY ElementOfSeq, LenProperties
<1>2. /\ a \in Seq(S)
      /\ Len(a) = IF 1 <= k - 1 THEN k - 1 - 1 + 1 ELSE 0
      /\ \A i \in 1..k - 1 - 1 + 1 : a[i] = s[1 + i - 1]
  <2>1. \A i \in 1..k - 1 : s[i] \in S
    BY <1>1
  <2> QED
    BY <1>1, <2>1, SubSeqProperties
<1>3. /\ b \in Seq(S)
      /\ Len(b) = IF k <= Len(s) THEN Len(s) - k + 1 ELSE 0
      /\ \A i \in 1..Len(s) - k + 1 : b[i] = s[k + i - 1]
  <2>1. \A i \in k..Len(s) : s[i] \in S
    BY <1>1
  <2> QED
    BY <1>1, <2>1, SubSeqProperties
<1>4. InsertAt(s, k, x) = r
  BY DEF InsertAt
<1> HIDE DEF a, b
<1>5. Len(a) = k - 1 /\ Len(b) = Len(s) - k + 1
  BY <1>1, <1>2, <1>3
<1>6. /\ m \in Seq(S) /\ Len(m) = k
      /\ \A i \in 1..k - 1 : m[i] = a[i]
      /\ m[k] = x
  <2>1. <<x>> \in Seq(S) /\ Len(<<x>>) = 1 /\ <<x>>[1] = x
    OBVIOUS
  <2>2. /\ m \in Seq(S) /\ Len(m) = Len(a) + 1
        /\ \A i \in 1..Len(a) + 1 : m[i] = IF i <= Len(a) THEN a[i] ELSE <<x>>[i - Len(a)]
    BY <1>2, <2>1, ConcatProperties
  <2> HIDE DEF m
  <2>3. Len(m) = k
    BY <1>1, <1>5, <2>2
  <2>4. \A i \in 1..k - 1 : m[i] = a[i]
    BY <1>1, <1>5, <2>2
  <2>5. m[k] = <<x>>[k - Len(a)] /\ k - Len(a) = 1
    BY <1>1, <1>5, <2>2
  <2> QED
    BY <2>1, <2>2, <2>3, <2>4, <2>5
<1> HIDE DEF m
<1>7. /\ r \in Seq(S) /\ Len(r) = Len(m) + Len(b)
      /\ \A i \in 1..Len(m) + Len(b) : r[i] = IF i <= Len(m) THEN m[i] ELSE b[i - Len(m)]
  BY <1>3, <1>6, ConcatProperties
<1> HIDE DEF r
<1>8. Len(r) = Len(s) + 1
  BY <1>1, <1>5, <1>6, <1>7
<1>9. ASSUME NEW i \in 1..Len(s) + 1
      PROVE  r[i] = IF i < k THEN s[i] ELSE IF i = k THEN x ELSE s[i - 1]
  <2>1. r[i] = IF i <= k THEN m[i] ELSE b[i - k]
    BY <1>1, <1>5, <1>6, <1>7
  <2>2. CASE i < k
    <3>1. i \in 1..k - 1 /\ i \in 1..k - 1 - 1 + 1 /\ 1 + i - 1 = i
      BY <1>1, <2>2
    <3>2. a[i] = s[1 + i - 1]
      BY <1>2, <3>1
    <3> QED
      BY <1>6, <2>1, <2>2, <3>1, <3>2
  <2>3. CASE i = k
    BY <1>6, <2>1, <2>3
  <2>4. CASE i > k
    <3>1. i - k \in 1..Len(s) - k + 1 /\ k + (i - k) - 1 = i - 1
      BY <1>1, <2>4
    <3>2. b[i - k] = s[k + (i - k) - 1]
      BY <1>3, <3>1
    <3> QED
      BY <2>1, <2>4, <3>1, <3>2
  <2> QED
    BY <1>1, <2>2, <2>3, <2>4
<1> QED
  BY <1>4, <1>7, <1>8, <1>9

LEMMA InsertAtSpliced ==
  ASSUME NEW S, NEW s \in Seq(S), NEW k \in 1..Len(s) + 1, NEW x \in S
  PROVE  InsertAt(s, k, x) \in Seq(S) /\ Spliced(InsertAt(s, k, x), s, k, x)
BY InsertAtFacts DEF Spliced

----------------------------------------------------------------------------
(* Sorting.                                                                *)

\* The positions above k hold nothing smaller than what comes before them.
Settled(u, n, k) == \A a, b \in 1..n : a < b /\ k < b => u[a] <= u[b]

\* u holds the elements of s, in the order p.
InOrder(u, s, p, n) == \A i \in 1..n : u[i] = s[p[i]]

LEMMA ReorderingHas ==
  ASSUME NEW n \in Nat, NEW s, s \in [1..n -> Nat], NEW u \in Reorderings(s)
  PROVE  /\ u \in [1..n -> Nat]
         /\ \E p \in Bijection(1..n, 1..n) : InOrder(u, s, p, n)
<1>1. Len(s) = n
  BY LenProperties, SeqDef
<1>2. PICK p \in Bijection(1..n, 1..n) : u = [i \in 1..n |-> s[p[i]]]
  BY <1>1 DEF Reorderings
<1>3. p \in [1..n -> 1..n]
  BY <1>2, Fun_BijectionProperties
<1>4. u \in [1..n -> Nat] /\ InOrder(u, s, p, n)
  BY <1>2, <1>3 DEF InOrder
<1> QED
  BY <1>4

LEMMA ReorderingMade ==
  ASSUME NEW n \in Nat, NEW s, s \in [1..n -> Nat], NEW u, u \in [1..n -> Nat],
         NEW p \in Bijection(1..n, 1..n), InOrder(u, s, p, n)
  PROVE  u \in Reorderings(s)
<1>1. Len(s) = n
  BY LenProperties, SeqDef
<1>2. u = [i \in 1..n |-> s[p[i]]]
  BY DEF InOrder
<1> QED
  BY <1>1, <1>2 DEF Reorderings

LEMMA ReorderingSelf ==
  ASSUME NEW n \in Nat, NEW s, s \in [1..n -> Nat]
  PROVE  s \in Reorderings(s)
<1> DEFINE p == [i \in 1..n |-> i]
<1>1. p \in Bijection(1..n, 1..n)
  BY DEF Bijection, Injection, IsInjective, Surjection
<1>2. InOrder(s, s, p, n)
  BY DEF InOrder
<1> HIDE DEF p
<1> QED
  BY <1>1, <1>2, ReorderingMade

LEMMA ReorderingAgain ==
  ASSUME NEW n \in Nat, NEW s, s \in [1..n -> Nat], NEW t \in Reorderings(s),
         NEW u \in Reorderings(t)
  PROVE  u \in Reorderings(s)
<1>1. PICK p \in Bijection(1..n, 1..n) : InOrder(t, s, p, n)
  BY ReorderingHas
<1>2. t \in [1..n -> Nat]
  BY ReorderingHas
<1>3. PICK q \in Bijection(1..n, 1..n) : InOrder(u, t, q, n)
  BY <1>2, ReorderingHas
<1>4. u \in [1..n -> Nat]
  BY <1>2, ReorderingHas
<1> DEFINE r == [i \in 1..n |-> p[q[i]]]
<1>5. r \in Bijection(1..n, 1..n)
  BY Fun_BijTransitive
<1>6. q \in [1..n -> 1..n]
  BY Fun_BijectionProperties
<1>7. InOrder(u, s, r, n)
  BY <1>1, <1>3, <1>6 DEF InOrder
<1> HIDE DEF r
<1> QED
  BY <1>4, <1>5, <1>7, ReorderingMade

\* swap_data puts two neighbours in order and moves nothing else.
LEMMA ExchangeFacts ==
  ASSUME NEW n \in Nat, NEW s, s \in [1..n -> Nat], NEW j \in 1..n - 1
  PROVE  /\ Exchange(s, j) \in Reorderings(s)
         /\ \A i \in 1..n : i # j /\ i # j + 1 => Exchange(s, j)[i] = s[i]
         /\ \/ s[j] <= s[j + 1] /\ Exchange(s, j) = s
            \/ /\ s[j + 1] <= s[j]
               /\ Exchange(s, j)[j] = s[j + 1] /\ Exchange(s, j)[j + 1] = s[j]
<1>1. CASE ~(s[j] > s[j + 1])
  <2>1. Exchange(s, j) = s
    BY <1>1 DEF Exchange
  <2>2. s[j] <= s[j + 1]
    BY <1>1
  <2> QED
    BY <2>1, <2>2, ReorderingSelf
<1>2. CASE s[j] > s[j + 1]
  <2> DEFINE p == [i \in 1..n |-> IF i = j THEN j + 1 ELSE IF i = j + 1 THEN j ELSE i]
  <2>1. Exchange(s, j) = [s EXCEPT ![j] = s[j + 1], ![j + 1] = s[j]]
    BY <1>2 DEF Exchange
  <2>2. Exchange(s, j) \in [1..n -> Nat] /\ InOrder(Exchange(s, j), s, p, n)
    BY <2>1 DEF InOrder
  <2>3. p \in Bijection(1..n, 1..n)
    <3>1. p \in [1..n -> 1..n]
      OBVIOUS
    <3>2. \A a, b \in 1..n : p[a] = p[b] => a = b
      OBVIOUS
    <3>3. ASSUME NEW t \in 1..n PROVE \E i \in 1..n : p[i] = t
      <4>1. p[p[t]] = t /\ p[t] \in 1..n
        OBVIOUS
      <4> QED
        BY <4>1
    <3> HIDE DEF p
    <3> QED
      BY <3>1, <3>2, <3>3 DEF Bijection, Injection, IsInjective, Surjection
  <2> HIDE DEF p
  <2>4. Exchange(s, j) \in Reorderings(s)
    BY <2>2, <2>3, ReorderingMade
  <2>5. s[j + 1] <= s[j]
    BY <1>2
  <2>6. /\ \A i \in 1..n : i # j /\ i # j + 1 => Exchange(s, j)[i] = s[i]
        /\ Exchange(s, j)[j] = s[j + 1] /\ Exchange(s, j)[j + 1] = s[j]
    BY <2>1
  <2> QED
    BY <2>4, <2>5, <2>6
<1> QED
  BY <1>1, <1>2

\* The inner loop of llist_sort is defined, for any number of its steps.
LEMMA PassDefined ==
  ASSUME NEW s, NEW m \in Nat
  PROVE  \E g : g = [j \in 0..m |-> IF j = 0 THEN s ELSE Exchange(g[j - 1], j)]
<1> DEFINE Ok(k) == \E g : g = [j \in 0..k |-> IF j = 0 THEN s ELSE Exchange(g[j - 1], j)]
           T == {k \in Nat : ~Ok(k)}
<1>1. Ok(0)
  <2> DEFINE g == [j \in 0..0 |-> s]
  <2>1. g = [j \in 0..0 |-> IF j = 0 THEN s ELSE Exchange(g[j - 1], j)]
    OBVIOUS
  <2> HIDE DEF g
  <2> QED
    BY <2>1
<1>2. ASSUME NEW k \in Nat, k # 0, Ok(k - 1) PROVE Ok(k)
  <2>1. PICK g : g = [j \in 0..k - 1 |-> IF j = 0 THEN s ELSE Exchange(g[j - 1], j)]
    BY <1>2
  <2> DEFINE h == [j \in 0..k |-> IF j < k THEN g[j] ELSE Exchange(g[k - 1], k)]
  <2>2. ASSUME NEW j \in 0..k PROVE h[j] = IF j = 0 THEN s ELSE Exchange(h[j - 1], j)
    <3>1. CASE j = k
      <4>1. h[j] = Exchange(g[k - 1], k) /\ h[k - 1] = g[k - 1] /\ j # 0
        BY <1>2, <3>1
      <4> QED
        BY <3>1, <4>1
    <3>2. CASE j # k
      <4>1. j < k /\ j \in 0..k - 1 /\ (j # 0 => j - 1 \in 0..k /\ j - 1 < k)
        BY <1>2, <3>2
      <4>2. h[j] = g[j] /\ (j # 0 => h[j - 1] = g[j - 1])
        BY <4>1
      <4>3. g[j] = IF j = 0 THEN s ELSE Exchange(g[j - 1], j)
        BY <2>1, <4>1
      <4> QED
        BY <4>2, <4>3
    <3> QED
      BY <3>1, <3>2
  <2>3. h = [j \in 0..k |-> h[j]]
    OBVIOUS
  <2> HIDE DEF h
  <2>4. h = [j \in 0..k |-> IF j = 0 THEN s ELSE Exchange(h[j - 1], j)]
    BY <2>2, <2>3
  <2> QED
    BY <2>4
<1> HIDE DEF Ok
<1>3. T = {}
  <2> SUFFICES ASSUME T # {} PROVE FALSE
    OBVIOUS
  <2>1. PICK k \in T : \A y \in T : k <= y
    <3>1. T \subseteq Nat
      OBVIOUS
    <3> HIDE DEF T
    <3> QED
      BY <3>1, LeastExists
  <2>2. k \in Nat /\ k # 0 /\ ~Ok(k)
    BY <1>1, <2>1
  <2>3. k - 1 \in Nat /\ k - 1 \notin T
    BY <2>1, <2>2
  <2>4. Ok(k - 1)
    BY <2>3
  <2> QED
    BY <1>2, <2>2, <2>4
<1>4. Ok(m)
  BY <1>3
<1> QED
  BY <1>4 DEF Ok

\* A step of a pass, whose largest element so far is at j: the largest moves on to
\* j + 1, and what was settled stays.
LEMMA ExchangeSettles ==
  ASSUME NEW n \in Nat, NEW k \in 1..n, NEW u, u \in [1..n -> Nat], NEW j \in 1..n - 1,
         Settled(u, n, k), \A a \in 1..j : u[a] <= u[j], j > k - 1 => Settled(u, n, k - 1),
         NEW v, v \in [1..n -> Nat], v = Exchange(u, j)
  PROVE  /\ Settled(v, n, k) /\ \A a \in 1..j + 1 : v[a] <= v[j + 1]
         /\ j >= k - 1 => Settled(v, n, k - 1)
<1>1. j \in 1..n /\ j + 1 \in 1..n /\ k \in Nat /\ j \in Nat
  OBVIOUS
<1>2. \/ u[j] <= u[j + 1] /\ v = u
      \/ /\ u[j + 1] <= u[j] /\ v[j] = u[j + 1] /\ v[j + 1] = u[j]
         /\ \A i \in 1..n : i # j /\ i # j + 1 => v[i] = u[i]
  BY ExchangeFacts
<1>3. \A a \in 1..n : u[a] \in Nat /\ v[a] \in Nat
  OBVIOUS
<1>4. ASSUME NEW a \in 1..j + 1 PROVE v[a] <= v[j + 1]
  <2>1. a \in 1..n /\ (a \in 1..j \/ a = j + 1)
    BY <1>1
  <2>2. a \in 1..j => u[a] <= u[j]
    OBVIOUS
  <2> QED
    BY <1>1, <1>2, <1>3, <2>1, <2>2
<1>5. ASSUME j + 1 > k PROVE v = u
  <2>1. u[j] <= u[j + 1]
    BY <1>1, <1>5 DEF Settled
  <2>2. CASE v # u
    <3>1. u[j] = u[j + 1]
      BY <1>1, <1>2, <1>3, <2>1, <2>2
    <3>2. \A i \in 1..n : v[i] = u[i]
      BY <1>1, <1>2, <2>2, <3>1
    <3> QED
      BY <3>2
  <2> QED
    BY <2>2
<1>6. Settled(v, n, k)
  <2>1. CASE j + 1 > k
    BY <1>5, <2>1
  <2>2. CASE j + 1 <= k
    <3> SUFFICES ASSUME NEW a \in 1..n, NEW b \in 1..n, a < b, k < b PROVE v[a] <= v[b]
      BY DEF Settled
    <3>1. b # j /\ b # j + 1 /\ j < b /\ j + 1 < b
      BY <1>1, <2>2
    <3>2. v[b] = u[b]
      BY <1>2, <3>1
    <3>3. u[a] <= u[b] /\ u[j] <= u[b] /\ u[j + 1] <= u[b]
      BY <1>1, <3>1 DEF Settled
    <3>4. v[a] = u[a] \/ v[a] = u[j] \/ v[a] = u[j + 1]
      BY <1>2
    <3> QED
      BY <3>2, <3>3, <3>4
  <2> QED
    BY <1>1, <2>1, <2>2
<1>7. ASSUME j >= k - 1 PROVE Settled(v, n, k - 1)
  <2>1. CASE j > k - 1
    <3>1. j + 1 > k
      BY <1>1, <2>1
    <3> QED
      BY <1>5, <2>1, <3>1
  <2>2. CASE j = k - 1
    <3>1. j + 1 = k
      BY <1>1, <2>2
    <3> SUFFICES ASSUME NEW a \in 1..n, NEW b \in 1..n, a < b, k - 1 < b PROVE v[a] <= v[b]
      BY DEF Settled
    <3>2. CASE b = k
      <4>1. a \in 1..j + 1
        BY <3>1, <3>2
      <4> QED
        BY <1>4, <3>1, <3>2, <4>1
    <3>3. CASE b # k
      <4>1. k < b
        BY <3>3
      <4> QED
        BY <1>6, <4>1 DEF Settled
    <3> QED
      BY <3>2, <3>3
  <2> QED
    BY <1>1, <1>7, <2>1, <2>2
<1> QED
  BY <1>4, <1>6, <1>7

\* A pass over the first size nodes settles one more position.
LEMMA PassSettles ==
  ASSUME NEW n \in Nat, NEW s, s \in [1..n -> Nat], NEW k \in 1..n, Settled(s, n, k),
         NEW size \in Nat, k - 1 <= size
  PROVE  Pass(s, size) \in Reorderings(s) /\ Settled(Pass(s, size), n, k - 1)
<1> DEFINE m == IF size < n THEN size ELSE n - 1
           W(w) == [j \in 0..m |-> IF j = 0 THEN s ELSE Exchange(w[j - 1], j)]
           p == CHOOSE w : w = W(w)
           Done(j) == /\ p[j] \in Reorderings(s) /\ Settled(p[j], n, k)
                      /\ \A a \in 1..j + 1 : p[j][a] <= p[j][j + 1]
                      /\ j >= k - 1 => Settled(p[j], n, k - 1)
           T == {j \in 0..m : ~Done(j)}
<1>1. Len(s) = n
  BY LenProperties, SeqDef
<1>2. m \in Nat /\ m <= n - 1 /\ k - 1 <= m
  OBVIOUS
<1>3. Pass(s, size) = p[m]
  BY <1>1 DEF Pass
<1> HIDE DEF m
<1>4. p = W(p)
  <2>1. \E w : w = W(w)
    BY <1>2, PassDefined
  <2> QED
    BY <2>1
<1> HIDE DEF p
<1>5. \A j \in 0..m : p[j] = IF j = 0 THEN s ELSE Exchange(p[j - 1], j)
  BY <1>4
<1>6. Done(0)
  <2>1. p[0] = s
    BY <1>2, <1>5
  <2>2. s \in Reorderings(s)
    BY ReorderingSelf
  <2>3. \A a \in 1..0 + 1 : s[a] <= s[0 + 1]
    OBVIOUS
  <2>4. 0 >= k - 1 => Settled(s, n, k - 1)
    <3> SUFFICES ASSUME 0 >= k - 1, NEW a \in 1..n, NEW b \in 1..n, a < b, k - 1 < b
                 PROVE  s[a] <= s[b]
      BY DEF Settled
    <3>1. k < b
      OBVIOUS
    <3> QED
      BY <3>1 DEF Settled
  <2> QED
    BY <2>1, <2>2, <2>3, <2>4
<1>7. ASSUME NEW j \in 1..m, Done(j - 1) PROVE Done(j)
  <2>1. j \in 1..n - 1 /\ j - 1 \in 0..m /\ j \in 0..m /\ j # 0 /\ (j - 1) + 1 = j
    BY <1>2
  <2>2. p[j] = Exchange(p[j - 1], j)
    BY <1>5, <2>1
  <2>3. PICK u : u = p[j - 1]
    OBVIOUS
  <2>4. u \in Reorderings(s) /\ Settled(u, n, k) /\ (\A a \in 1..j : u[a] <= u[j])
        /\ (j > k - 1 => Settled(u, n, k - 1))
    <3>1. j > k - 1 => j - 1 >= k - 1
      BY <2>1
    <3> QED
      BY <1>7, <2>1, <2>3, <3>1
  <2>5. u \in [1..n -> Nat]
    BY <2>4, ReorderingHas
  <2>6. PICK v : v = Exchange(u, j)
    OBVIOUS
  <2>7. v \in Reorderings(u)
    BY <2>1, <2>5, <2>6, ExchangeFacts
  <2>8. v \in Reorderings(s)
    BY <2>4, <2>7, ReorderingAgain
  <2>9. v \in [1..n -> Nat]
    BY <2>8, ReorderingHas
  <2>10. /\ Settled(v, n, k) /\ \A a \in 1..j + 1 : v[a] <= v[j + 1]
         /\ j >= k - 1 => Settled(v, n, k - 1)
    BY <2>1, <2>4, <2>5, <2>6, <2>9, ExchangeSettles
  <2>11. p[j] = v
    BY <2>2, <2>3, <2>6
  <2> QED
    BY <2>8, <2>10, <2>11
<1> HIDE DEF Done
<1>8. T = {}
  <2> SUFFICES ASSUME T # {} PROVE FALSE
    OBVIOUS
  <2>1. PICK j \in T : \A y \in T : j <= y
    <3>1. T \subseteq Nat
      BY <1>2
    <3> HIDE DEF T
    <3> QED
      BY <3>1, LeastExists
  <2>2. j \in 1..m /\ ~Done(j)
    BY <1>2, <1>6, <2>1
  <2>3. j - 1 \in 0..m /\ j - 1 \notin T
    BY <1>2, <2>1, <2>2
  <2>4. Done(j - 1)
    BY <2>3
  <2> QED
    BY <1>7, <2>2, <2>4
<1>9. Done(m)
  BY <1>2, <1>8
<1> QED
  BY <1>2, <1>3, <1>9 DEF Done

\* The i-th pass.
Ith(u, n, i) == Pass(u, n - i + 1)
Passes(w, s, n) == [i \in 0..n |-> IF i = 0 THEN s ELSE Ith(w[i - 1], n, i)]

\* The outer loop of llist_sort is defined, for any number of its passes.
LEMMA PassesDefined ==
  ASSUME NEW s, NEW n \in Nat
  PROVE  \E g : g = Passes(g, s, n)
<1> DEFINE Ok(k) == \E g : g = [i \in 0..k |-> IF i = 0 THEN s ELSE Ith(g[i - 1], n, i)]
           T == {k \in Nat : ~Ok(k)}
<1>1. Ok(0)
  <2> DEFINE g == [i \in 0..0 |-> s]
  <2>1. g = [i \in 0..0 |-> IF i = 0 THEN s ELSE Ith(g[i - 1], n, i)]
    OBVIOUS
  <2> HIDE DEF g
  <2> QED
    BY <2>1
<1>2. ASSUME NEW k \in Nat, k # 0, Ok(k - 1) PROVE Ok(k)
  <2>1. PICK g : g = [i \in 0..k - 1 |-> IF i = 0 THEN s ELSE Ith(g[i - 1], n, i)]
    BY <1>2
  <2> DEFINE h == [i \in 0..k |-> IF i < k THEN g[i] ELSE Ith(g[k - 1], n, k)]
  <2>2. ASSUME NEW i \in 0..k PROVE h[i] = IF i = 0 THEN s ELSE Ith(h[i - 1], n, i)
    <3>1. CASE i = k
      <4>1. h[i] = Ith(g[k - 1], n, k) /\ h[k - 1] = g[k - 1] /\ i # 0
        BY <1>2, <3>1
      <4> QED
        BY <3>1, <4>1
    <3>2. CASE i # k
      <4>1. i < k /\ i \in 0..k - 1 /\ (i # 0 => i - 1 \in 0..k /\ i - 1 < k)
        BY <1>2, <3>2
      <4>2. h[i] = g[i] /\ (i # 0 => h[i - 1] = g[i - 1])
        BY <4>1
      <4>3. g[i] = IF i = 0 THEN s ELSE Ith(g[i - 1], n, i)
        BY <2>1, <4>1
      <4> QED
        BY <4>2, <4>3
    <3> QED
      BY <3>1, <3>2
  <2>3. h = [i \in 0..k |-> h[i]]
    OBVIOUS
  <2> HIDE DEF h
  <2>4. h = [i \in 0..k |-> IF i = 0 THEN s ELSE Ith(h[i - 1], n, i)]
    BY <2>2, <2>3
  <2> QED
    BY <2>4
<1> HIDE DEF Ok
<1>3. T = {}
  <2> SUFFICES ASSUME T # {} PROVE FALSE
    OBVIOUS
  <2>1. PICK k \in T : \A y \in T : k <= y
    <3>1. T \subseteq Nat
      OBVIOUS
    <3> HIDE DEF T
    <3> QED
      BY <3>1, LeastExists
  <2>2. k \in Nat /\ k # 0 /\ ~Ok(k)
    BY <1>1, <2>1
  <2>3. k - 1 \in Nat /\ k - 1 \notin T
    BY <2>1, <2>2
  <2>4. Ok(k - 1)
    BY <2>3
  <2> QED
    BY <1>2, <2>2, <2>4
<1>4. Ok(n)
  BY <1>3
<1> QED
  BY <1>4 DEF Ok, Passes

\* llist_sort puts the elements of a list of count nodes in order.
LEMMA SortSorts ==
  ASSUME count \in Nat, NEW s, s \in [1..count -> Nat]
  PROVE  Sort(s) \in Reorderings(s) /\ Settled(Sort(s), count, 0)
<1>1. PICK n \in Nat : n = count
  OBVIOUS
<1> DEFINE q == CHOOSE w : w = Passes(w, s, n)
           Done(i) == q[i] \in Reorderings(s) /\ Settled(q[i], n, n - i)
           T == {i \in 0..n : ~Done(i)}
<1>2. Sort(s) = q[n]
  BY <1>1 DEF Sort, Ith, Passes
<1>3. q = Passes(q, s, n)
  <2>1. \E w : w = Passes(w, s, n)
    BY PassesDefined
  <2> QED
    BY <2>1
<1> HIDE DEF q
<1>4. \A i \in 0..n : q[i] = IF i = 0 THEN s ELSE Ith(q[i - 1], n, i)
  BY <1>3 DEF Passes
<1>5. Done(0)
  <2>1. q[0] = s /\ n - 0 = n
    BY <1>4
  <2>2. s \in Reorderings(s)
    BY <1>1, ReorderingSelf
  <2>3. Settled(s, n, n)
    BY DEF Settled
  <2> QED
    BY <2>1, <2>2, <2>3
<1>6. ASSUME NEW i \in 1..n, Done(i - 1) PROVE Done(i)
  <2>1. PICK k \in 1..n : k = n - i + 1
    OBVIOUS
  <2>2. i - 1 \in 0..n /\ i \in 0..n /\ i # 0 /\ n - (i - 1) = k /\ k - 1 = n - i
        /\ k \in Nat /\ k - 1 <= k
    BY <2>1
  <2>3. PICK u : u = q[i - 1]
    OBVIOUS
  <2>4. u \in Reorderings(s) /\ Settled(u, n, k)
    BY <1>6, <2>2, <2>3
  <2>5. u \in [1..n -> Nat]
    BY <1>1, <2>4, ReorderingHas
  <2>6. Pass(u, k) \in Reorderings(u) /\ Settled(Pass(u, k), n, k - 1)
    BY <2>2, <2>4, <2>5, PassSettles
  <2>7. Pass(u, k) \in Reorderings(s)
    BY <1>1, <2>4, <2>6, ReorderingAgain
  <2>8. q[i] = Pass(u, k)
    BY <1>4, <2>1, <2>2, <2>3 DEF Ith
  <2> QED
    BY <2>2, <2>6, <2>7, <2>8
<1> HIDE DEF Done
<1>7. T = {}
  <2> SUFFICES ASSUME T # {} PROVE FALSE
    OBVIOUS
  <2>1. PICK i \in T : \A y \in T : i <= y
    <3>1. T \subseteq Nat
      OBVIOUS
    <3> HIDE DEF T
    <3> QED
      BY <3>1, LeastExists
  <2>2. i \in 1..n /\ ~Done(i)
    BY <1>5, <2>1
  <2>3. i - 1 \in 0..n /\ i - 1 \notin T
    BY <2>1, <2>2
  <2>4. Done(i - 1)
    BY <2>3
  <2> QED
    BY <1>6, <2>2, <2>4
<1>8. Done(n) /\ n - n = 0
  BY <1>7
<1> QED
  BY <1>1, <1>2, <1>8 DEF Done

LEMMA ReorderingBack ==
  ASSUME NEW n \in Nat, NEW s, s \in [1..n -> Nat], NEW t \in Reorderings(s)
  PROVE  s \in Reorderings(t)
<1>1. PICK p \in Bijection(1..n, 1..n) : InOrder(t, s, p, n)
  BY ReorderingHas
<1>2. t \in [1..n -> Nat]
  BY ReorderingHas
<1> DEFINE r == Inverse(p, 1..n, 1..n)
<1>3. r \in Bijection(1..n, 1..n) /\ \A i \in 1..n : r[p[i]] = i
  BY Fun_BijInverse
<1>4. \A i \in 1..n : \E k \in 1..n : p[k] = i
  BY DEF Bijection, Surjection
<1> HIDE DEF r
<1>5. InOrder(s, t, r, n)
  <2> SUFFICES ASSUME NEW i \in 1..n PROVE s[i] = t[r[i]]
    BY DEF InOrder
  <2>1. PICK k \in 1..n : p[k] = i
    BY <1>4
  <2>2. r[i] = k /\ t[k] = s[p[k]]
    BY <1>1, <1>3, <2>1 DEF InOrder
  <2> QED
    BY <2>1, <2>2
<1> QED
  BY <1>2, <1>3, <1>5, ReorderingMade

\* Of two ordered sequences of the same elements neither is above the other: the
\* n - i + 1 elements from i on cannot all be among the n - i above i.
LEMMA OrderedBelow ==
  ASSUME NEW n \in Nat, NEW t, t \in [1..n -> Nat], NEW u \in Reorderings(t),
         Settled(t, n, 0), Settled(u, n, 0), NEW i \in 1..n
  PROVE  u[i] <= t[i]
<1>1. PICK p \in Bijection(1..n, 1..n) : InOrder(u, t, p, n)
  BY ReorderingHas
<1>2. p \in [1..n -> 1..n] /\ \A a, b \in 1..n : p[a] = p[b] => a = b
  BY DEF Bijection, Injection, IsInjective
<1>3. u \in [1..n -> Nat]
  BY ReorderingHas
<1>4. PICK k \in i..n : p[k] <= i
  <2> SUFFICES ASSUME \A k \in i..n : ~(p[k] <= i) PROVE FALSE
    OBVIOUS
  <2> DEFINE f == [k \in i..n |-> p[k]]
  <2>1. f \in [i..n -> i + 1..n]
    <3>1. ASSUME NEW k \in i..n PROVE p[k] \in i + 1..n
      <4>1. k \in 1..n /\ ~(p[k] <= i)
        OBVIOUS
      <4>2. p[k] \in 1..n
        BY <1>2, <4>1
      <4> QED
        BY <4>1, <4>2
    <3> QED
      BY <3>1
  <2>2. IsFiniteSet(i..n) /\ Cardinality(i..n) = n - i + 1
    <3>1. i \in Int /\ n \in Int /\ ~(i > n)
      OBVIOUS
    <3>2. IsFiniteSet(i..n) /\ Cardinality(i..n) = IF i > n THEN 0 ELSE n - i + 1
      BY <3>1, FS_Interval
    <3> QED
      BY <3>1, <3>2
  <2>3. IsFiniteSet(i + 1..n) /\ Cardinality(i + 1..n) = n - i
    <3>1. i + 1 \in Int /\ n \in Int
      OBVIOUS
    <3>2. IsFiniteSet(i + 1..n)
          /\ Cardinality(i + 1..n) = IF i + 1 > n THEN 0 ELSE n - (i + 1) + 1
      BY <3>1, FS_Interval
    <3> QED
      BY <3>2
  <2>4. Cardinality(i + 1..n) < Cardinality(i..n)
    BY <2>2, <2>3
  <2> HIDE DEF f
  <2>5. \E x, y \in i..n : x # y /\ f[x] = f[y]
    BY <2>1, <2>2, <2>3, <2>4, FS_PigeonHole
  <2>6. PICK x \in i..n, y \in i..n : x # y /\ f[x] = f[y]
    BY <2>5
  <2>7. x \in 1..n /\ y \in 1..n /\ p[x] = p[y]
    BY <2>6 DEF f
  <2> QED
    BY <1>2, <2>6, <2>7
<1>5. k \in 1..n /\ i <= k
  BY <1>4
<1>6. p[k] \in 1..n /\ u[k] = t[p[k]]
  BY <1>1, <1>2, <1>5 DEF InOrder
<1>7. t[p[k]] <= t[i]
  <2>1. CASE p[k] = i
    BY <2>1
  <2>2. CASE p[k] # i
    <3>1. p[k] < i /\ 0 < i
      BY <1>4, <1>6, <2>2
    <3> QED
      BY <1>6, <3>1 DEF Settled
  <2> QED
    BY <2>1, <2>2
<1>8. u[i] <= u[k]
  <2>1. CASE i = k
    BY <1>3, <2>1
  <2>2. CASE i # k
    BY <1>5, <2>2 DEF Settled
  <2> QED
    BY <2>1, <2>2
<1>9. u[i] \in Nat /\ u[k] \in Nat /\ t[i] \in Nat
  BY <1>3, <1>5
<1> QED
  BY <1>6, <1>7, <1>8, <1>9

\* There is one ordered sequence of the elements of s.
LEMMA OrderedIs ==
  ASSUME NEW n \in Nat, NEW s, s \in [1..n -> Nat], NEW t \in Reorderings(s),
         Settled(t, n, 0)
  PROVE  Ordered(s) = t
<1> DEFINE In(x) == \A a, b \in 1..n : a < b => x[a] <= x[b]
           u == CHOOSE x \in Reorderings(s) : In(x)
<1>1. Len(s) = n
  BY LenProperties, SeqDef
<1>2. Ordered(s) = u
  BY <1>1 DEF Ordered
<1>3. In(t)
  BY DEF Settled
<1>4. u \in Reorderings(s) /\ In(u)
  <2> HIDE DEF In
  <2> QED
    BY <1>3
<1> HIDE DEF u
<1>5. Settled(u, n, 0)
  BY <1>4 DEF Settled
<1>6. t \in [1..n -> Nat] /\ u \in [1..n -> Nat]
  BY <1>4, ReorderingHas
<1>7. u \in Reorderings(t)
  <2>1. s \in Reorderings(t)
    BY ReorderingBack
  <2> QED
    BY <1>4, <1>6, <2>1, ReorderingAgain
<1>8. t \in Reorderings(u)
  BY <1>6, <1>7, ReorderingBack
<1>9. ASSUME NEW i \in 1..n PROVE u[i] = t[i]
  <2>1. u[i] <= t[i]
    BY <1>5, <1>6, <1>7, OrderedBelow
  <2>2. t[i] <= u[i]
    BY <1>5, <1>6, <1>8, OrderedBelow
  <2> QED
    BY <1>6, <2>1, <2>2
<1> QED
  BY <1>2, <1>6, <1>9

----------------------------------------------------------------------------
(* The chain of nodes.                                                     *)

\* c is the list, linked both ways from head to tail.
Linked(c) ==
  /\ c \in Seq(Nodes)
  /\ \A i, j \in 1..Len(c) : c[i] = c[j] => i = j
  /\ head = IF Len(c) = 0 THEN Null ELSE c[1]
  /\ tail = IF Len(c) = 0 THEN Null ELSE c[Len(c)]
  /\ \A j \in 1..Len(c) : next[c[j]] = IF j = Len(c) THEN Null ELSE c[j + 1]
  /\ \A j \in 1..Len(c) : prev[c[j]] = IF j = 1 THEN Null ELSE c[j - 1]

LEMMA LinkedFacts ==
  ASSUME NEW c, Linked(c)
  PROVE  /\ Len(c) \in Nat /\ Len(c) <= Cardinality(Nodes) /\ Cardinality(Nodes) \in Nat
         /\ \A i \in 1..Len(c) : c[i] \in Nodes /\ c[i] # Null
<1>1. Len(c) \in Nat /\ \A i \in 1..Len(c) : c[i] \in Nodes
  BY LenProperties, ElementOfSeq DEF Linked
<1> DEFINE f == [i \in 1..Len(c) |-> c[i]]
<1>2. f \in Injection(1..Len(c), Nodes)
  BY <1>1 DEF Linked, Injection, IsInjective
<1>3. IsFiniteSet(Nodes) /\ Cardinality(Nodes) \in Nat
  BY FS_CardinalityType, ListAssumption
<1>4. Cardinality(1..Len(c)) = Len(c)
  <2>1. PICK l \in Nat : l = Len(c)
    BY <1>1
  <2>2. Cardinality(1..l) = l
    BY FS_Interval
  <2> QED
    BY <2>1, <2>2
<1>5. Cardinality(1..Len(c)) <= Cardinality(Nodes)
  BY <1>2, <1>3, FS_Injection DEF ExistsInjection
<1> QED
  BY <1>1, <1>3, <1>4, <1>5, ListAssumption

\* Walking from the head meets the nodes of the list, all of them, in order.
LEMMA ChainIs ==
  ASSUME NEW c, Linked(c)
  PROVE  Chain = c
<1> DEFINE N == Cardinality(Nodes)
           W(w) == [j \in 0..N |-> IF j = 0 THEN head
                                   ELSE IF w[j - 1] = Null THEN Null ELSE next[w[j - 1]]]
           node(j) == IF j < Len(c) THEN c[j + 1] ELSE Null
           g == [j \in 0..N |-> node(j)]
           v == CHOOSE w : w = W(w)
<1>1. Len(c) \in Nat /\ Len(c) <= N /\ N \in Nat
      /\ \A i \in 1..Len(c) : c[i] \in Nodes /\ c[i] # Null
  BY LinkedFacts
<1>2. node(0) = head
  BY <1>1 DEF Linked
<1>3. ASSUME NEW j \in 0..N, j # 0
      PROVE  /\ j - 1 \in 0..N
             /\ node(j) = IF node(j - 1) = Null THEN Null ELSE next[node(j - 1)]
  <2>1. j - 1 \in 0..N /\ (j - 1) + 1 = j
    BY <1>1, <1>3
  <2>2. CASE j <= Len(c)
    <3>1. node(j - 1) = c[j] /\ c[j] # Null /\ j \in 1..Len(c)
      BY <1>1, <1>3, <2>1, <2>2
    <3>2. next[c[j]] = node(j)
      BY <1>1, <3>1 DEF Linked
    <3> QED
      BY <2>1, <3>1, <3>2
  <2>3. CASE j > Len(c)
    <3>1. node(j - 1) = Null /\ node(j) = Null
      BY <1>1, <1>3, <2>3
    <3> QED
      BY <2>1, <3>1
  <2> QED
    BY <1>1, <2>2, <2>3
<1> HIDE DEF node
<1>4. g = W(g)
  <2>1. ASSUME NEW j \in 0..N
        PROVE  node(j) = IF j = 0 THEN head
                         ELSE IF g[j - 1] = Null THEN Null ELSE next[g[j - 1]]
    BY <1>2, <1>3
  <2> QED
    BY <2>1
<1>5. v = W(v)
  BY <1>4
<1> HIDE DEF v, g
<1>6. \A j \in 0..N : v[j] = IF j = 0 THEN head
                             ELSE IF v[j - 1] = Null THEN Null ELSE next[v[j - 1]]
  BY <1>5
<1> DEFINE T == {j \in 0..N : v[j] # node(j)}
<1>7. T = {}
  <2> SUFFICES ASSUME T # {} PROVE FALSE
    OBVIOUS
  <2>1. PICK j \in T : \A y \in T : j <= y
    <3>1. T \subseteq Nat
      BY <1>1
    <3> HIDE DEF T
    <3> QED
      BY <3>1, LeastExists
  <2>2. j # 0
    BY <1>1, <1>2, <1>6, <2>1
  <2>3. j \in 0..N /\ j - 1 \in 0..N /\ j - 1 \notin T
    BY <1>1, <2>1, <2>2
  <2>4. v[j - 1] = node(j - 1)
    BY <2>3
  <2>5. v[j] = node(j)
    BY <1>3, <1>6, <2>2, <2>3, <2>4
  <2> QED
    BY <2>1, <2>5
<1> DEFINE met == {j \in 1..N : v[j - 1] # Null}
<1>8. met = 1..Len(c)
  <2>1. ASSUME NEW j \in 1..N PROVE v[j - 1] # Null <=> j <= Len(c)
    <3>1. j - 1 \in 0..N /\ (j - 1) + 1 = j
      BY <1>1
    <3>2. v[j - 1] = node(j - 1)
      BY <1>7, <3>1
    <3>3. node(j - 1) = IF j - 1 < Len(c) THEN c[j] ELSE Null
      BY <3>1 DEF node
    <3> QED
      BY <1>1, <3>2, <3>3
  <2>2. \A j \in 1..Len(c) : j \in 1..N
    BY <1>1
  <2> QED
    BY <1>1, <2>1, <2>2
<1>9. Cardinality(met) = Len(c)
  <2>1. PICK l \in Nat : l = Len(c)
    BY <1>1
  <2>2. Cardinality(1..l) = l
    BY FS_Interval
  <2> QED
    BY <1>8, <2>1, <2>2
<1>10. Chain = [j \in 1..Cardinality(met) |-> v[j - 1]]
  BY DEF Chain, v
<1>11. ASSUME NEW j \in 1..Len(c) PROVE v[j - 1] = c[j]
  <2>1. j - 1 \in 0..N /\ (j - 1) + 1 = j /\ j - 1 < Len(c)
    BY <1>1
  <2> QED
    BY <1>7, <2>1 DEF node
<1>12. Chain = [j \in 1..Len(c) |-> c[j]]
  BY <1>9, <1>10, <1>11
<1>13. c = [j \in 1..Len(c) |-> c[j]]
  BY <1>1 DEF Linked
<1> QED
  BY <1>12, <1>13

\* The cell a holds the p-th node of c, or null and p is outside.
At(c, a, p) ==
  IF p \in 1..Len(c) THEN Deref(a) = c[p] ELSE Deref(a) = Null

LEMMA CellFacts ==
  /\ \A n : Deref(<<"next", n>>) = next[n] /\ Deref(<<"prev", n>>) = prev[n]
  /\ Deref(HeadCell) = head /\ Deref(Crash) = Null
  /\ \A n, f : <<f, n>>[1] = f /\ <<f, n>>[2] = n
  /\ HeadCell # Crash
  /\ \A n : /\ <<"next", n>> # HeadCell /\ <<"next", n>> # Crash
            /\ <<"prev", n>> # HeadCell /\ <<"prev", n>> # Crash
BY DEF Deref, HeadCell, Crash

\* Where k steps along a field lead from the cell a.
Reached(c, a, field, p, q, k) ==
  IF k = 0 THEN a
  ELSE IF p \in 1..Len(c) /\ q \in 1..Len(c) THEN <<field, c[q]>> ELSE Crash

\* A step of a walk, from whatever is reached to the next node or nowhere.
Onward(field, a) == IF Deref(a) = Null THEN Crash ELSE <<field, Deref(a)>>

\* A walk is the function that starts at a and goes onward.
LEMMA WalkUnique ==
  ASSUME NEW a, NEW field, NEW k \in Nat, NEW g,
         g = [j \in 0..k |-> IF j = 0 THEN a ELSE Onward(field, g[j - 1])]
  PROVE  WalkFrom(a, field, k) = g[k]
<1> DEFINE W(w) == [j \in 0..k |-> IF j = 0 THEN a ELSE Onward(field, w[j - 1])]
           v == CHOOSE w : w = W(w)
<1>1. v = W(v)
  OBVIOUS
<1>2. WalkFrom(a, field, k) = v[k]
  BY DEF WalkFrom, Onward
<1> HIDE DEF v
<1>3. \A j \in 0..k : v[j] = IF j = 0 THEN a ELSE Onward(field, v[j - 1])
  BY <1>1
<1>4. \A j \in 0..k : g[j] = IF j = 0 THEN a ELSE Onward(field, g[j - 1])
  OBVIOUS
<1> DEFINE T == {j \in 0..k : v[j] # g[j]}
<1>5. T = {}
  <2> SUFFICES ASSUME T # {} PROVE FALSE
    OBVIOUS
  <2>1. PICK j \in T : \A y \in T : j <= y
    <3>1. T \subseteq Nat
      OBVIOUS
    <3> HIDE DEF T
    <3> QED
      BY <3>1, LeastExists
  <2>2. j # 0
    BY <1>3, <1>4, <2>1
  <2>3. j \in 0..k /\ j - 1 \in 0..k /\ j - 1 \notin T
    BY <2>1, <2>2
  <2>4. v[j] = g[j]
    BY <1>3, <1>4, <2>2, <2>3
  <2> QED
    BY <2>1, <2>4
<1>6. ASSUME NEW j \in 0..k PROVE v[j] = g[j]
  <2>1. j \notin T
    BY <1>5
  <2> QED
    BY <2>1
<1> HIDE DEF T
<1>7. k \in 0..k
  OBVIOUS
<1> QED
  BY <1>2, <1>6, <1>7

LEMMA WalkForward ==
  ASSUME NEW c, Linked(c), NEW a, NEW p \in Int, At(c, a, p), NEW k \in Nat
  PROVE  WalkFrom(a, "next", k) = Reached(c, a, "next", p, p + k - 1, k)
<1> DEFINE r(j) == Reached(c, a, "next", p, p + j - 1, j)
           g == [j \in 0..k |-> r(j)]
<1>1. Len(c) \in Nat /\ \A i \in 1..Len(c) : c[i] \in Nodes /\ c[i] # Null
  BY LinkedFacts
<1>2. r(0) = a
  BY DEF Reached
<1>3. ASSUME NEW j \in 1..k PROVE r(j) = Onward("next", r(j - 1))
  <2>1. CASE j = 1
    <3>1. r(j - 1) = a /\ p + j - 1 = p /\ j # 0
      BY <2>1 DEF Reached
    <3> QED
      BY <1>1, <3>1 DEF Reached, Onward, At
  <2>2. CASE j # 1
    <3> DEFINE q == p + j - 1
    <3>1. j - 1 # 0 /\ j # 0 /\ p + (j - 1) - 1 = q - 1 /\ q \in Int /\ q - 1 >= p
      BY <2>2
    <3> HIDE DEF q
    <3>2. /\ r(j) = IF p \in 1..Len(c) /\ q \in 1..Len(c) THEN <<"next", c[q]>> ELSE Crash
          /\ r(j - 1) = IF p \in 1..Len(c) /\ q - 1 \in 1..Len(c)
                        THEN <<"next", c[q - 1]>> ELSE Crash
      BY <3>1 DEF Reached, q
    <3> HIDE DEF r
    <3>3. CASE p \in 1..Len(c) /\ q - 1 \in 1..Len(c)
      <4>1. Deref(r(j - 1)) = IF q - 1 = Len(c) THEN Null ELSE c[q]
        <5>1. next[c[q - 1]] = IF q - 1 = Len(c) THEN Null ELSE c[(q - 1) + 1]
          BY <3>3 DEF Linked
        <5>2. (q - 1) + 1 = q
          BY <3>1
        <5> QED
          BY <3>2, <3>3, <5>1, <5>2, CellFacts
      <4>2. q - 1 # Len(c) => q \in 1..Len(c)
        BY <1>1, <3>1, <3>3
      <4>3. q - 1 = Len(c) => q \notin 1..Len(c)
        BY <1>1, <3>1, <3>3
      <4> QED
        BY <1>1, <3>2, <3>3, <4>1, <4>2, <4>3 DEF Onward
    <3>4. CASE ~(p \in 1..Len(c) /\ q - 1 \in 1..Len(c))
      <4>1. ~(p \in 1..Len(c) /\ q \in 1..Len(c))
        BY <1>1, <3>1, <3>4
      <4> QED
        BY <3>2, <3>4, <4>1, CellFacts DEF Onward
    <3> QED
      BY <3>3, <3>4
  <2> QED
    BY <2>1, <2>2
<1> HIDE DEF r
<1>4. g = [j \in 0..k |-> IF j = 0 THEN a ELSE Onward("next", g[j - 1])]
  <2>1. ASSUME NEW j \in 0..k PROVE r(j) = IF j = 0 THEN a ELSE Onward("next", g[j - 1])
    <3>1. CASE j = 0
      BY <1>2, <3>1
    <3>2. CASE j # 0
      <4>1. j \in 1..k /\ j - 1 \in 0..k
        BY <3>2
      <4> QED
        BY <1>3, <3>2, <4>1
    <3> QED
      BY <3>1, <3>2
  <2> QED
    BY <2>1
<1> HIDE DEF g
<1>5. WalkFrom(a, "next", k) = g[k]
  BY <1>4, WalkUnique
<1> QED
  BY <1>5 DEF g, r

LEMMA WalkBackward ==
  ASSUME NEW c, Linked(c), NEW a, NEW p \in Int, At(c, a, p), NEW k \in Nat
  PROVE  WalkFrom(a, "prev", k) = Reached(c, a, "prev", p, p - k + 1, k)
<1> DEFINE r(j) == Reached(c, a, "prev", p, p - j + 1, j)
           g == [j \in 0..k |-> r(j)]
<1>1. Len(c) \in Nat /\ \A i \in 1..Len(c) : c[i] \in Nodes /\ c[i] # Null
  BY LinkedFacts
<1>2. r(0) = a
  BY DEF Reached
<1>3. ASSUME NEW j \in 1..k PROVE r(j) = Onward("prev", r(j - 1))
  <2>1. CASE j = 1
    <3>1. r(j - 1) = a /\ p - j + 1 = p /\ j # 0
      BY <2>1 DEF Reached
    <3> QED
      BY <1>1, <3>1 DEF Reached, Onward, At
  <2>2. CASE j # 1
    <3> DEFINE q == p - j + 1
    <3>1. j - 1 # 0 /\ j # 0 /\ p - (j - 1) + 1 = q + 1 /\ q \in Int /\ q + 1 <= p
      BY <2>2
    <3> HIDE DEF q
    <3>2. /\ r(j) = IF p \in 1..Len(c) /\ q \in 1..Len(c) THEN <<"prev", c[q]>> ELSE Crash
          /\ r(j - 1) = IF p \in 1..Len(c) /\ q + 1 \in 1..Len(c)
                        THEN <<"prev", c[q + 1]>> ELSE Crash
      BY <3>1 DEF Reached, q
    <3> HIDE DEF r
    <3>3. CASE p \in 1..Len(c) /\ q + 1 \in 1..Len(c)
      <4>1. Deref(r(j - 1)) = IF q + 1 = 1 THEN Null ELSE c[q]
        <5>1. prev[c[q + 1]] = IF q + 1 = 1 THEN Null ELSE c[(q + 1) - 1]
          BY <3>3 DEF Linked
        <5>2. (q + 1) - 1 = q
          BY <3>1
        <5> QED
          BY <3>2, <3>3, <5>1, <5>2, CellFacts
      <4>2. q + 1 # 1 => q \in 1..Len(c)
        BY <1>1, <3>1, <3>3
      <4>3. q + 1 = 1 => q \notin 1..Len(c)
        BY <1>1, <3>1, <3>3
      <4> QED
        BY <1>1, <3>2, <3>3, <4>1, <4>2, <4>3 DEF Onward
    <3>4. CASE ~(p \in 1..Len(c) /\ q + 1 \in 1..Len(c))
      <4>1. ~(p \in 1..Len(c) /\ q \in 1..Len(c))
        BY <1>1, <3>1, <3>4
      <4> QED
        BY <3>2, <3>4, <4>1, CellFacts DEF Onward
    <3> QED
      BY <3>3, <3>4
  <2> QED
    BY <2>1, <2>2
<1> HIDE DEF r
<1>4. g = [j \in 0..k |-> IF j = 0 THEN a ELSE Onward("prev", g[j - 1])]
  <2>1. ASSUME NEW j \in 0..k PROVE r(j) = IF j = 0 THEN a ELSE Onward("prev", g[j - 1])
    <3>1. CASE j = 0
      BY <1>2, <3>1
    <3>2. CASE j # 0
      <4>1. j \in 1..k /\ j - 1 \in 0..k
        BY <3>2
      <4> QED
        BY <1>3, <3>2, <4>1
    <3> QED
      BY <3>1, <3>2
  <2> QED
    BY <2>1
<1> HIDE DEF g
<1>5. WalkFrom(a, "prev", k) = g[k]
  BY <1>4, WalkUnique
<1> QED
  BY <1>5 DEF g, r
\* A node is linked in at place k.
LEMMA InsertLink ==
  ASSUME NEW c, Linked(c), NEW n \in Nodes, \A j \in 1..Len(c) : c[j] # n,
         NEW k \in 1..Len(c) + 1,
         head' = IF k = 1 THEN n ELSE head,
         tail' = IF k = Len(c) + 1 THEN n ELSE tail,
         next'[n] = IF k = Len(c) + 1 THEN Null ELSE c[k],
         prev'[n] = IF k = 1 THEN Null ELSE c[k - 1],
         \A j \in 1..Len(c) : next'[c[j]] = IF j = k - 1 THEN n ELSE next[c[j]],
         \A j \in 1..Len(c) : prev'[c[j]] = IF j = k THEN n ELSE prev[c[j]]
  PROVE  Linked(InsertAt(c, k, n))'
<1> DEFINE d == InsertAt(c, k, n)
<1>1. c \in Seq(Nodes) /\ \A i \in 1..Len(c) : c[i] \in Nodes
  BY LinkedFacts DEF Linked
<1>2. PICK l \in Nat : l = Len(c)
  BY LinkedFacts
<1>3. /\ d \in Seq(Nodes) /\ Len(d) = l + 1
      /\ \A i \in 1..l + 1 : d[i] = IF i < k THEN c[i] ELSE IF i = k THEN n ELSE c[i - 1]
  BY <1>1, <1>2, InsertAtFacts
<1> HIDE DEF d
<1>4. /\ k \in 1..l + 1 /\ k \in Nat
      /\ \A i \in 1..l + 1 : i < k => i \in 1..l /\ d[i] = c[i]
      /\ d[k] = n
      /\ \A i \in 1..l + 1 : i > k => i - 1 \in 1..l /\ d[i] = c[i - 1]
  BY <1>2, <1>3
<1>5. /\ \A i, j \in 1..l : c[i] = c[j] => i = j
      /\ \A j \in 1..l : c[j] # n
      /\ head = IF l = 0 THEN Null ELSE c[1]
      /\ tail = IF l = 0 THEN Null ELSE c[l]
      /\ \A j \in 1..l : next[c[j]] = IF j = l THEN Null ELSE c[j + 1]
      /\ \A j \in 1..l : prev[c[j]] = IF j = 1 THEN Null ELSE c[j - 1]
  BY <1>2 DEF Linked
<1>6. /\ head' = IF k = 1 THEN n ELSE head
      /\ tail' = IF k = l + 1 THEN n ELSE tail
      /\ next'[n] = IF k = l + 1 THEN Null ELSE c[k]
      /\ prev'[n] = IF k = 1 THEN Null ELSE c[k - 1]
      /\ \A j \in 1..l : next'[c[j]] = IF j = k - 1 THEN n ELSE next[c[j]]
      /\ \A j \in 1..l : prev'[c[j]] = IF j = k THEN n ELSE prev[c[j]]
  BY <1>2
<1>7. ASSUME NEW i \in 1..l + 1, NEW j \in 1..l + 1, d[i] = d[j] PROVE i = j
  <2>1. \A x \in 1..l + 1 : x # k => d[x] # n
    <3> SUFFICES ASSUME NEW x \in 1..l + 1, x # k PROVE d[x] # n
      OBVIOUS
    <3>1. x < k \/ x > k
      BY <1>4
    <3> QED
      BY <1>4, <1>5, <3>1
  <2>6. CASE i = k \/ j = k
    BY <1>4, <1>7, <2>1, <2>6
  <2>2. CASE i < k /\ j < k
    BY <1>4, <1>5, <1>7, <2>2
  <2>3. CASE i < k /\ j > k
    <3>1. i = j - 1
      BY <1>4, <1>5, <1>7, <2>3
    <3> QED
      BY <1>4, <2>3, <3>1
  <2>4. CASE i > k /\ j < k
    <3>1. i - 1 = j
      BY <1>4, <1>5, <1>7, <2>4
    <3> QED
      BY <1>4, <2>4, <3>1
  <2>5. CASE i > k /\ j > k
    <3>1. i - 1 = j - 1
      BY <1>4, <1>5, <1>7, <2>5
    <3> QED
      BY <3>1
  <2> QED
    BY <1>4, <2>2, <2>3, <2>4, <2>5, <2>6
<1>8. head' = d[1]
  <2>1. CASE k = 1
    BY <1>4, <1>6, <2>1
  <2>2. CASE k # 1
    <3>1. 1 \in 1..l + 1 /\ 1 < k /\ l # 0
      BY <1>4, <2>2
    <3> QED
      BY <1>4, <1>5, <1>6, <2>2, <3>1
  <2> QED
    BY <2>1, <2>2
<1>9. tail' = d[l + 1]
  <2>1. CASE k = l + 1
    BY <1>4, <1>6, <2>1
  <2>2. CASE k # l + 1
    <3>1. l + 1 \in 1..l + 1 /\ l + 1 > k /\ l # 0 /\ (l + 1) - 1 = l
      BY <1>4, <2>2
    <3>2. d[l + 1] = c[(l + 1) - 1]
      BY <1>4, <3>1
    <3> QED
      BY <1>5, <1>6, <2>2, <3>1, <3>2
  <2> QED
    BY <2>1, <2>2
<1>10. ASSUME NEW j \in 1..l + 1
       PROVE  next'[d[j]] = IF j = l + 1 THEN Null ELSE d[j + 1]
  <2>1. CASE j = k
    <3>1. ASSUME k # l + 1 PROVE d[k + 1] = c[k]
      <4>1. k + 1 \in 1..l + 1 /\ k + 1 > k /\ (k + 1) - 1 = k
        BY <1>4, <3>1
      <4>2. d[k + 1] = c[(k + 1) - 1]
        BY <1>4, <4>1
      <4> QED
        BY <4>1, <4>2
    <3> QED
      BY <1>4, <1>6, <2>1, <3>1
  <2>2. CASE j = k - 1
    <3>1. j \in 1..l /\ j < k /\ j # l + 1 /\ j + 1 = k
      BY <1>4, <2>2
    <3> QED
      BY <1>4, <1>6, <2>2, <3>1
  <2>3. CASE j < k - 1
    <3>1. /\ j \in 1..l /\ j < k /\ j # l + 1 /\ j # l /\ j # k - 1
          /\ j + 1 \in 1..l + 1 /\ j + 1 < k
      BY <1>4, <2>3
    <3>2. d[j] = c[j] /\ d[j + 1] = c[j + 1]
      BY <1>4, <3>1
    <3> QED
      BY <1>5, <1>6, <3>1, <3>2
  <2>4. CASE j > k
    <3>1. j - 1 \in 1..l /\ j - 1 # k - 1 /\ (j - 1) + 1 = j
      BY <1>4, <2>4
    <3>2. d[j] = c[j - 1]
      BY <1>4, <2>4
    <3>3. next'[c[j - 1]] = IF j - 1 = l THEN Null ELSE c[(j - 1) + 1]
      BY <1>5, <1>6, <3>1
    <3>4. ASSUME j # l + 1 PROVE d[j + 1] = c[j]
      <4>1. j + 1 \in 1..l + 1 /\ j + 1 > k /\ (j + 1) - 1 = j
        BY <1>4, <2>4, <3>4
      <4>2. d[j + 1] = c[(j + 1) - 1]
        BY <1>4, <4>1
      <4> QED
        BY <4>1, <4>2
    <3> QED
      BY <3>1, <3>2, <3>3, <3>4
  <2> QED
    BY <1>4, <2>1, <2>2, <2>3, <2>4
<1>11. ASSUME NEW j \in 1..l + 1
       PROVE  prev'[d[j]] = IF j = 1 THEN Null ELSE d[j - 1]
  <2>1. CASE j = k
    <3>1. ASSUME k # 1 PROVE d[k - 1] = c[k - 1]
      <4>1. k - 1 \in 1..l + 1 /\ k - 1 < k
        BY <1>4, <3>1
      <4> QED
        BY <1>4, <4>1
    <3> QED
      BY <1>4, <1>6, <2>1, <3>1
  <2>2. CASE j = k + 1
    <3>1. k \in 1..l /\ j > k /\ j - 1 = k /\ j # 1
      BY <1>4, <2>2
    <3>2. d[j] = c[j - 1]
      BY <1>4, <3>1
    <3> QED
      BY <1>4, <1>6, <3>1, <3>2
  <2>3. CASE j > k + 1
    <3>1. /\ j - 1 \in 1..l /\ j - 1 # k /\ j # 1 /\ j - 1 # 1 /\ j > k
          /\ j - 1 \in 1..l + 1 /\ j - 1 > k
      BY <1>4, <2>3
    <3>2. d[j] = c[j - 1] /\ d[j - 1] = c[(j - 1) - 1]
      BY <1>4, <3>1
    <3> QED
      BY <1>5, <1>6, <3>1, <3>2
  <2>4. CASE j < k
    <3>1. j \in 1..l /\ j # k /\ d[j] = c[j]
      BY <1>4, <2>4
    <3>2. ASSUME j # 1 PROVE d[j - 1] = c[j - 1]
      <4>1. j - 1 \in 1..l + 1 /\ j - 1 < k
        BY <1>4, <2>4, <3>2
      <4> QED
        BY <1>4, <4>1
    <3> QED
      BY <1>5, <1>6, <3>1, <3>2
  <2> QED
    BY <1>4, <2>1, <2>2, <2>3, <2>4
<1>12. Len(d) # 0
  BY <1>3
<1>13. Linked(d)'
  <2>1. \A i, j \in 1..Len(d) : d[i] = d[j] => i = j
    BY <1>3, <1>7
  <2>2. \A j \in 1..Len(d) : next'[d[j]] = IF j = Len(d) THEN Null ELSE d[j + 1]
    BY <1>3, <1>10
  <2>3. \A j \in 1..Len(d) : prev'[d[j]] = IF j = 1 THEN Null ELSE d[j - 1]
    BY <1>3, <1>11
  <2>4. head' = d[1] /\ tail' = d[Len(d)]
    BY <1>3, <1>8, <1>9
  <2> QED
    BY <1>3, <1>12, <2>1, <2>2, <2>3, <2>4 DEF Linked
<1> QED
  BY <1>13 DEF d

\* The node at place k is unlinked.
LEMMA RemoveLink ==
  ASSUME NEW c, Linked(c), NEW k \in 1..Len(c),
         head' = IF k = 1 THEN next[c[k]] ELSE head,
         tail' = IF k = Len(c) THEN prev[c[k]] ELSE tail,
         \A j \in 1..Len(c) : j # k =>
           next'[c[j]] = IF j = k - 1 THEN next[c[k]] ELSE next[c[j]],
         \A j \in 1..Len(c) : j # k =>
           prev'[c[j]] = IF j = k + 1 THEN prev[c[k]] ELSE prev[c[j]]
  PROVE  Linked(RemoveAt(c, k))'
<1> DEFINE d == RemoveAt(c, k)
<1>1. c \in Seq(Nodes) /\ \A i \in 1..Len(c) : c[i] \in Nodes
  BY LinkedFacts DEF Linked
<1>2. PICK l \in Nat : l = Len(c)
  BY LinkedFacts
<1>3. /\ d \in Seq(Nodes) /\ Len(d) = l - 1
      /\ \A i \in 1..l - 1 : d[i] = IF i < k THEN c[i] ELSE c[i + 1]
  BY <1>1, <1>2, RemoveAtFacts
<1> HIDE DEF d
<1>4. /\ k \in 1..l /\ k \in Nat /\ l - 1 \in Nat
      /\ \A i \in 1..l - 1 : i < k => i \in 1..l /\ i # k /\ d[i] = c[i]
      /\ \A i \in 1..l - 1 : i >= k => i + 1 \in 1..l /\ i + 1 # k /\ d[i] = c[i + 1]
  BY <1>2, <1>3
<1>5. /\ \A i, j \in 1..l : c[i] = c[j] => i = j
      /\ head = IF l = 0 THEN Null ELSE c[1]
      /\ tail = IF l = 0 THEN Null ELSE c[l]
      /\ \A j \in 1..l : next[c[j]] = IF j = l THEN Null ELSE c[j + 1]
      /\ \A j \in 1..l : prev[c[j]] = IF j = 1 THEN Null ELSE c[j - 1]
  BY <1>2 DEF Linked
<1>6. /\ head' = IF k = 1 THEN next[c[k]] ELSE head
      /\ tail' = IF k = l THEN prev[c[k]] ELSE tail
      /\ \A j \in 1..l : j # k => next'[c[j]] = IF j = k - 1 THEN next[c[k]] ELSE next[c[j]]
      /\ \A j \in 1..l : j # k => prev'[c[j]] = IF j = k + 1 THEN prev[c[k]] ELSE prev[c[j]]
  BY <1>2
<1>7. ASSUME NEW i \in 1..l - 1, NEW j \in 1..l - 1, d[i] = d[j] PROVE i = j
  <2>1. CASE i < k /\ j < k
    BY <1>4, <1>5, <1>7, <2>1
  <2>2. CASE i < k /\ j >= k
    <3>1. i = j + 1
      BY <1>4, <1>5, <1>7, <2>2
    <3> QED
      BY <1>4, <2>2, <3>1
  <2>3. CASE i >= k /\ j < k
    <3>1. i + 1 = j
      BY <1>4, <1>5, <1>7, <2>3
    <3> QED
      BY <1>4, <2>3, <3>1
  <2>4. CASE i >= k /\ j >= k
    <3>1. i + 1 = j + 1
      BY <1>4, <1>5, <1>7, <2>4
    <3> QED
      BY <3>1
  <2> QED
    BY <1>4, <2>1, <2>2, <2>3, <2>4
<1>8. head' = IF l - 1 = 0 THEN Null ELSE d[1]
  <2>1. CASE k = 1
    <3>1. next[c[k]] = IF l = 1 THEN Null ELSE c[2]
      BY <1>4, <1>5, <2>1
    <3>2. l # 1 => d[1] = c[2]
      BY <1>4, <2>1
    <3> QED
      BY <1>6, <2>1, <3>1, <3>2
  <2>2. CASE k # 1
    <3>1. 1 \in 1..l - 1 /\ 1 < k /\ l # 0 /\ l - 1 # 0
      BY <1>4, <2>2
    <3> QED
      BY <1>4, <1>5, <1>6, <2>2, <3>1
  <2> QED
    BY <2>1, <2>2
<1>9. tail' = IF l - 1 = 0 THEN Null ELSE d[l - 1]
  <2>1. CASE k = l
    <3>1. prev[c[k]] = IF l = 1 THEN Null ELSE c[l - 1]
      BY <1>4, <1>5, <2>1
    <3>2. ASSUME l # 1 PROVE d[l - 1] = c[l - 1]
      <4>1. l - 1 \in 1..l - 1 /\ l - 1 < k
        BY <1>4, <2>1, <3>2
      <4> QED
        BY <1>4, <4>1
    <3> QED
      BY <1>4, <1>6, <2>1, <3>1, <3>2
  <2>2. CASE k # l
    <3>1. l - 1 \in 1..l - 1 /\ l - 1 >= k /\ (l - 1) + 1 = l /\ l # 0 /\ l - 1 # 0
      BY <1>4, <2>2
    <3>2. d[l - 1] = c[(l - 1) + 1]
      BY <1>4, <3>1
    <3> QED
      BY <1>5, <1>6, <2>2, <3>1, <3>2
  <2> QED
    BY <2>1, <2>2
<1>10. ASSUME NEW j \in 1..l - 1
       PROVE  next'[d[j]] = IF j = l - 1 THEN Null ELSE d[j + 1]
  <2>1. CASE j >= k
    <3>1. j + 1 \in 1..l /\ j + 1 # k /\ j + 1 # k - 1 /\ d[j] = c[j + 1]
      BY <1>4, <2>1
    <3>2. next'[c[j + 1]] = IF j + 1 = l THEN Null ELSE c[(j + 1) + 1]
      BY <1>5, <1>6, <3>1
    <3>3. ASSUME j # l - 1 PROVE d[j + 1] = c[(j + 1) + 1]
      <4>1. j + 1 \in 1..l - 1 /\ j + 1 >= k
        BY <1>4, <2>1, <3>3
      <4> QED
        BY <1>4, <4>1
    <3>4. j + 1 = l <=> j = l - 1
      BY <1>4
    <3> QED
      BY <3>1, <3>2, <3>3, <3>4
  <2>2. CASE j = k - 1
    <3>1. j \in 1..l /\ j < k /\ j # k /\ d[j] = c[j]
      BY <1>4, <2>2
    <3>2. next'[c[j]] = IF k = l THEN Null ELSE c[k + 1]
      BY <1>4, <1>5, <1>6, <2>2, <3>1
    <3>3. ASSUME k # l PROVE d[k] = c[k + 1]
      <4>1. k \in 1..l - 1 /\ k >= k
        BY <1>4, <3>3
      <4> QED
        BY <1>4, <4>1
    <3>4. (k = l <=> j = l - 1) /\ j + 1 = k
      BY <1>4, <2>2
    <3> QED
      BY <3>1, <3>2, <3>3, <3>4
  <2>3. CASE j < k - 1
    <3>1. /\ j \in 1..l /\ j < k /\ j # k /\ j # k - 1 /\ j # l /\ j # l - 1
          /\ j + 1 \in 1..l - 1 /\ j + 1 < k
      BY <1>4, <2>3
    <3>2. d[j] = c[j] /\ d[j + 1] = c[j + 1]
      BY <1>4, <3>1
    <3> QED
      BY <1>5, <1>6, <3>1, <3>2
  <2> QED
    BY <1>4, <2>1, <2>2, <2>3
<1>11. ASSUME NEW j \in 1..l - 1
       PROVE  prev'[d[j]] = IF j = 1 THEN Null ELSE d[j - 1]
  <2>1. CASE j < k
    <3>1. j \in 1..l /\ j # k /\ d[j] = c[j]
      BY <1>4, <2>1
    <3>3. j # k + 1
      BY <1>4, <2>1
    <3>2. ASSUME j # 1 PROVE d[j - 1] = c[j - 1]
      <4>1. j - 1 \in 1..l - 1 /\ j - 1 < k
        BY <1>4, <2>1, <3>2
      <4> QED
        BY <1>4, <4>1
    <3> QED
      BY <1>5, <1>6, <3>1, <3>2, <3>3
  <2>2. CASE j = k
    <3>1. j + 1 \in 1..l /\ j + 1 # k /\ j + 1 = k + 1 /\ d[j] = c[j + 1]
      BY <1>4, <2>2
    <3>2. prev'[c[j + 1]] = IF k = 1 THEN Null ELSE c[k - 1]
      BY <1>4, <1>5, <1>6, <3>1
    <3>3. ASSUME k # 1 PROVE d[k - 1] = c[k - 1]
      <4>1. k - 1 \in 1..l - 1 /\ k - 1 < k
        BY <1>4, <3>3
      <4> QED
        BY <1>4, <4>1
    <3> QED
      BY <2>2, <3>1, <3>2, <3>3
  <2>3. CASE j > k
    <3>1. /\ j + 1 \in 1..l /\ j + 1 # k /\ j + 1 # k + 1 /\ j + 1 # 1 /\ j # 1
          /\ d[j] = c[j + 1] /\ j - 1 \in 1..l - 1 /\ j - 1 >= k
          /\ (j + 1) - 1 = j /\ (j - 1) + 1 = j
      BY <1>4, <2>3
    <3>2. d[j - 1] = c[(j - 1) + 1]
      BY <1>4, <3>1
    <3>3. prev'[c[j + 1]] = c[(j + 1) - 1]
      BY <1>5, <1>6, <3>1
    <3> QED
      BY <3>1, <3>2, <3>3
  <2> QED
    BY <1>4, <2>1, <2>2, <2>3
<1>12. Linked(d)'
  <2>1. \A i, j \in 1..Len(d) : d[i] = d[j] => i = j
    BY <1>3, <1>7
  <2>2. \A j \in 1..Len(d) : next'[d[j]] = IF j = Len(d) THEN Null ELSE d[j + 1]
    BY <1>3, <1>10
  <2>3. \A j \in 1..Len(d) : prev'[d[j]] = IF j = 1 THEN Null ELSE d[j - 1]
    BY <1>3, <1>11
  <2>4. /\ head' = IF Len(d) = 0 THEN Null ELSE d[1]
        /\ tail' = IF Len(d) = 0 THEN Null ELSE d[Len(d)]
    BY <1>3, <1>8, <1>9
  <2> QED
    BY <1>3, <2>1, <2>2, <2>3, <2>4 DEF Linked
<1> QED
  BY <1>12 DEF d
----------------------------------------------------------------------------
(* The invariant.                                                          *)

\* A cell of the list.
Cell(c, a) ==
  \/ a = HeadCell
  \/ \E j \in 1..Len(c) : a = <<"next", c[j]>> \/ a = <<"prev", c[j]>>

\* The size is that of the list, or less when nodes were miscounted.
Sized(c) ==
  /\ count \in Nat /\ sort_count \in Nat
  /\ count <= Len(c) /\ (count = 0 <=> Len(c) = 0)
  /\ \A j \in 1..Len(c) : c[j] \in used
  /\ ~skewed => Len(c) = count /\ \A n \in used : \E j \in 1..Len(c) : c[j] = n

\* cur_index is the index of the node the cursor reads.
Exact(c) ==
  IF Len(c) = 0 THEN current = HeadCell /\ cur_index = 0
  ELSE cur_index \in 0..Len(c) - 1 /\ Deref(current) = c[cur_index + 1]

Placed(c) == cur_index \in Int /\ Cell(c, current) /\ (~skewed => Exact(c))

\* The list holds what was put in, sorted when llist_sort ran.
Holds(c) ==
  ~skewed =>
    /\ content \in Seq(Values) /\ Len(content) = Len(c)
    /\ \A j \in 1..Len(c) : data[c[j]] = content[j]

Fields == DOMAIN next = Nodes /\ DOMAIN prev = Nodes /\ DOMAIN data = Nodes

Good(c) ==
  Linked(c) /\ Sized(c) /\ Placed(c) /\ Holds(c) /\ Fields /\ CrashesExplained

ListInv == \E c : Good(c)

LEMMA ListInit == Init => ListInv
<1> SUFFICES ASSUME Init PROVE Good(<<>>)
  BY DEF ListInv
<1>1. <<>> \in Seq(Nodes) /\ <<>> \in Seq(Values) /\ Len(<<>>) = 0
  BY EmptySeq
<1>2. Linked(<<>>)
  BY <1>1 DEF Init, Linked
<1>3. Sized(<<>>)
  BY <1>1 DEF Init, Sized
<1>4. Placed(<<>>)
  BY <1>1 DEF Init, Placed, Cell, Exact
<1>5. Holds(<<>>) /\ Fields
  BY <1>1 DEF Init, Holds, Fields
<1>6. CrashesExplained
  BY DEF Init, CrashesExplained
<1> QED
  BY <1>2, <1>3, <1>4, <1>5, <1>6 DEF Good

\* A cell of the list holds one of its nodes, next to its own, or null.
LEMMA CellAt ==
  ASSUME NEW c, Linked(c), NEW a, Cell(c, a)
  PROVE  \E p \in Int : At(c, a, p)
<1>1. Len(c) \in Nat /\ \A i \in 1..Len(c) : c[i] \in Nodes /\ c[i] # Null
  BY LinkedFacts
<1>2. CASE a = HeadCell
  <2>1. At(c, a, 1)
    BY <1>1, <1>2, CellFacts DEF At, Linked
  <2> QED
    BY <2>1
<1>3. ASSUME NEW j \in 1..Len(c), a = <<"next", c[j]>> PROVE \E p \in Int : At(c, a, p)
  <2>1. Deref(a) = IF j = Len(c) THEN Null ELSE c[j + 1]
    BY <1>3, CellFacts DEF Linked
  <2>2. At(c, a, j + 1)
    BY <1>1, <2>1 DEF At
  <2> QED
    BY <2>2
<1>4. ASSUME NEW j \in 1..Len(c), a = <<"prev", c[j]>> PROVE \E p \in Int : At(c, a, p)
  <2>1. Deref(a) = IF j = 1 THEN Null ELSE c[j - 1]
    BY <1>4, CellFacts DEF Linked
  <2>2. At(c, a, j - 1)
    BY <1>1, <2>1 DEF At
  <2> QED
    BY <2>2
<1> QED
  BY <1>2, <1>3, <1>4 DEF Cell

\* get_node_of ends at a cell of the list or crashes, skewed or not.
LEMMA LocateCell ==
  ASSUME NEW c, Linked(c), Placed(c), NEW i \in Int
  PROVE  Locate(i) = Crash \/ Cell(c, Locate(i))
<1>1. PICK p \in Int : At(c, current, p)
  BY CellAt DEF Placed
<1>2. CASE i >= cur_index
  <2>1. i - cur_index \in Nat
    BY <1>2 DEF Placed
  <2> DEFINE k == i - cur_index
             q == p + k - 1
  <2>2. Locate(i) = Reached(c, current, "next", p, q, k)
    BY <1>1, <1>2, <2>1, WalkForward DEF Locate
  <2> HIDE DEF k, q
  <2> QED
    BY <2>2 DEF Reached, Cell, Placed
<1>3. CASE ~(i >= cur_index)
  <2>1. cur_index - i \in Nat
    BY <1>3 DEF Placed
  <2> DEFINE k == cur_index - i
             q == p - k + 1
  <2>2. Locate(i) = Reached(c, current, "prev", p, q, k)
    BY <1>1, <1>3, <2>1, WalkBackward DEF Locate
  <2> HIDE DEF k, q
  <2> QED
    BY <2>2 DEF Reached, Cell, Placed
<1> QED
  BY <1>2, <1>3

\* With an exact cursor it ends at a cell that holds the i-th node.
LEMMA LocateExact ==
  ASSUME NEW c, Linked(c), Placed(c), ~skewed, NEW i \in 0..Len(c) - 1
  PROVE  Locate(i) # Crash /\ Deref(Locate(i)) = c[i + 1]
<1>1. Len(c) \in Nat /\ \A j \in 1..Len(c) : c[j] \in Nodes /\ c[j] # Null
  BY LinkedFacts
<1>2. /\ Len(c) # 0 /\ cur_index \in 0..Len(c) - 1 /\ Deref(current) = c[cur_index + 1]
      /\ i + 1 \in 1..Len(c)
  BY <1>1 DEF Placed, Exact
<1> DEFINE p == cur_index + 1
<1>3. p \in Int /\ p \in 1..Len(c) /\ At(c, current, p)
  BY <1>1, <1>2 DEF At
<1>4. CASE i >= cur_index
  <2> DEFINE k == i - cur_index
             q == p + k - 1
  <2>1. k \in Nat /\ q = i /\ (k = 0 => i = cur_index) /\ (k # 0 => i \in 1..Len(c))
    BY <1>1, <1>2, <1>4
  <2>2. Locate(i) = Reached(c, current, "next", p, q, k)
    BY <1>3, <1>4, <2>1, WalkForward DEF Locate
  <2> HIDE DEF p, k, q
  <2>3. CASE k = 0
    <3>1. Locate(i) = current /\ Deref(current) = c[i + 1]
      BY <1>2, <2>1, <2>2, <2>3 DEF Reached
    <3>2. Deref(current) # Null
      BY <1>1, <1>2, <3>1
    <3> QED
      BY <3>1, <3>2, CellFacts
  <2>4. CASE k # 0
    <3>1. Locate(i) = <<"next", c[i]>> /\ i \in 1..Len(c)
      BY <1>3, <2>1, <2>2, <2>4 DEF Reached
    <3>2. next[c[i]] = c[i + 1]
      BY <1>1, <1>2, <3>1 DEF Linked
    <3> QED
      BY <3>1, <3>2, CellFacts
  <2> QED
    BY <2>3, <2>4
<1>5. CASE ~(i >= cur_index)
  <2> DEFINE k == cur_index - i
             q == p - k + 1
  <2>1. k \in Nat /\ k # 0 /\ q = i + 2 /\ i + 2 \in 1..Len(c) /\ i + 2 # 1 /\ (i + 2) - 1 = i + 1
    BY <1>1, <1>2, <1>5
  <2>2. Locate(i) = Reached(c, current, "prev", p, q, k)
    BY <1>3, <1>5, <2>1, WalkBackward DEF Locate
  <2> HIDE DEF p, k, q
  <2>3. Locate(i) = <<"prev", c[i + 2]>>
    BY <1>3, <2>1, <2>2 DEF Reached
  <2>4. prev[c[i + 2]] = c[(i + 2) - 1]
    BY <2>1 DEF Linked
  <2> QED
    BY <2>1, <2>3, <2>4, CellFacts
<1> QED
  BY <1>4, <1>5

\* A cell that holds a node of the list belongs to the list head or to a neighbour.
LEMMA CellNeighbour ==
  ASSUME NEW c, Linked(c), NEW a, Cell(c, a), NEW k \in 1..Len(c), Deref(a) = c[k]
  PROVE  \/ a = HeadCell /\ k = 1
         \/ k - 1 \in 1..Len(c) /\ a = <<"next", c[k - 1]>>
         \/ k + 1 \in 1..Len(c) /\ a = <<"prev", c[k + 1]>>
<1>1. Len(c) \in Nat /\ \A j \in 1..Len(c) : c[j] \in Nodes /\ c[j] # Null
  BY LinkedFacts
<1>2. CASE a = HeadCell
  <2>1. c[1] = c[k] /\ 1 \in 1..Len(c)
    BY <1>1, <1>2, CellFacts DEF Linked
  <2> QED
    BY <1>2, <2>1 DEF Linked
<1>3. ASSUME NEW j \in 1..Len(c), a = <<"next", c[j]>>
      PROVE  k - 1 \in 1..Len(c) /\ a = <<"next", c[k - 1]>>
  <2>1. Deref(a) = IF j = Len(c) THEN Null ELSE c[j + 1]
    BY <1>3, CellFacts DEF Linked
  <2>2. j # Len(c) /\ c[j + 1] = c[k] /\ j + 1 \in 1..Len(c)
    <3>1. Deref(a) # Null
      BY <1>1
    <3>2. j # Len(c)
      BY <2>1, <3>1
    <3>3. j + 1 \in 1..Len(c)
      BY <1>1, <3>2
    <3> QED
      BY <2>1, <3>2, <3>3
  <2>3. j + 1 = k
    BY <2>2 DEF Linked
  <2>4. j = k - 1
    BY <2>3
  <2> QED
    BY <1>3, <2>4
<1>4. ASSUME NEW j \in 1..Len(c), a = <<"prev", c[j]>>
      PROVE  k + 1 \in 1..Len(c) /\ a = <<"prev", c[k + 1]>>
  <2>1. Deref(a) = IF j = 1 THEN Null ELSE c[j - 1]
    BY <1>4, CellFacts DEF Linked
  <2>2. j # 1 /\ c[j - 1] = c[k] /\ j - 1 \in 1..Len(c)
    <3>1. Deref(a) # Null
      BY <1>1
    <3>2. j # 1
      BY <2>1, <3>1
    <3>3. j - 1 \in 1..Len(c)
      BY <1>1, <3>2
    <3> QED
      BY <2>1, <3>2, <3>3
  <2>3. j - 1 = k
    BY <2>2 DEF Linked
  <2>4. j = k + 1
    BY <2>3
  <2> QED
    BY <1>4, <2>4
<1> QED
  BY <1>2, <1>3, <1>4 DEF Cell

\* A cell that does not hold null holds a node of the list.
LEMMA CellHolds ==
  ASSUME NEW c, Linked(c), NEW a, Cell(c, a), Deref(a) # Null
  PROVE  \E k \in 1..Len(c) : Deref(a) = c[k]
<1>1. PICK p \in Int : At(c, a, p)
  BY CellAt
<1> QED
  BY <1>1 DEF At

----------------------------------------------------------------------------
(* The kinds of steps.                                                     *)

\* Nothing but the cursor moves.
LEMMA MovesKeep ==
  ASSUME NEW c, Good(c), NEW a, NEW i \in Int, Moves(a, i), Cell(c, a),
         ~skewed => i \in 0..Len(c) - 1 /\ Deref(a) = c[i + 1]
  PROVE  Good(c)'
<1> USE DEF Good
<1>1. /\ current' = a /\ cur_index' = i
      /\ UNCHANGED <<head, tail, next, prev, data, used, count, sort_count, crashed,
                     content, skewed, popped_last>>
  BY DEF Moves, chain, ghosts
<1>2. Linked(c)' /\ Sized(c)' /\ Holds(c)' /\ Fields' /\ CrashesExplained'
  BY <1>1 DEF Linked, Sized, Holds, Fields, CrashesExplained
<1>3. Deref(a)' = Deref(a)
  BY <1>1 DEF Deref
<1>4. Cell(c, current)'
  BY <1>1 DEF Cell, HeadCell
<1>5. ASSUME ~skewed PROVE Exact(c)'
  <2>1. Len(c) \in Nat /\ i \in 0..Len(c) - 1
    BY <1>5, LinkedFacts
  <2>2. Len(c) # 0
    BY <2>1
  <2>3. Deref(current)' = c[i + 1]
    BY <1>1, <1>3, <1>5
  <2> QED
    BY <1>1, <2>1, <2>2, <2>3 DEF Exact
<1>6. Placed(c)'
  BY <1>1, <1>4, <1>5 DEF Placed
<1> QED
  BY <1>2, <1>6

\* The program crashes, and the crash is explained.
LEMMA CrashKeeps ==
  ASSUME NEW c, Good(c), NEW b, Crashes(b), skewed \/ b
  PROVE  Good(c)'
<1> USE DEF Good
<1>1. /\ popped_last' = b
      /\ UNCHANGED <<head, tail, next, prev, data, used, count, sort_count, current,
                     cur_index, content, skewed>>
  BY DEF Crashes, chain, cursor
<1>2. Linked(c)' /\ Sized(c)' /\ Holds(c)' /\ Fields'
  BY <1>1 DEF Linked, Sized, Holds, Fields
<1>3. Placed(c)'
  BY <1>1 DEF Placed, Cell, HeadCell, Exact, Deref
<1>4. CrashesExplained'
  BY <1>1 DEF CrashesExplained
<1> QED
  BY <1>2, <1>3, <1>4

\* The list becomes empty.
LEMMA EmptyGood ==
  ASSUME NEW c, Good(c), head' = Null, tail' = Null, count' = 0, reset_cur_node,
         Fields', sort_count' \in Nat, UNCHANGED <<crashed, popped_last, skewed>>,
         ~skewed => used' = {},
         ~skewed => content' = <<>>
  PROVE  Good(<<>>)'
<1> USE DEF Good
<1>1. <<>> \in Seq(Nodes) /\ <<>> \in Seq(Values) /\ Len(<<>>) = 0
  BY EmptySeq
<1>2. Linked(<<>>)'
  BY <1>1 DEF Linked
<1>3. Sized(<<>>)'
  BY <1>1 DEF Sized
<1>4. Placed(<<>>)'
  BY <1>1 DEF Placed, Cell, Exact, reset_cur_node, HeadCell
<1>5. Holds(<<>>)'
  BY <1>1 DEF Holds
<1>6. CrashesExplained'
  BY DEF CrashesExplained
<1> QED
  BY <1>2, <1>3, <1>4, <1>5, <1>6

\* A reset cursor is exact.
LEMMA ResetPlaced ==
  ASSUME NEW d, Linked(d)', reset_cur_node, Len(d) > 0
  PROVE  Placed(d)'
<1>1. Len(d) \in Nat
  BY LenProperties DEF Linked
<1>2. Deref(current)' = head'
  BY DEF Deref, reset_cur_node, HeadCell
<1>3. head' = d[1]
  BY <1>1 DEF Linked
<1> QED
  BY <1>1, <1>2, <1>3 DEF Placed, Cell, Exact, reset_cur_node, HeadCell

\* A node is added at place k.
LEMMA InsertGood ==
  ASSUME NEW c, Good(c), NEW n \in Nodes, NEW v \in Values, NEW i \in Nat,
         NEW k \in 1..Len(c) + 1, Inserts(n, i, v),
         Linked(InsertAt(c, k, n))', Placed(InsertAt(c, k, n))',
         DOMAIN next' = Nodes, DOMAIN prev' = Nodes,
         ~skewed' => ~skewed /\ k = i + 1
  PROVE  Good(InsertAt(c, k, n))'
<1> USE DEF Good
<1> DEFINE d == InsertAt(c, k, n)
<1>1. /\ n \notin used /\ used' = used \cup {n} /\ count' = count + 1
      /\ data' = [data EXCEPT ![n] = v] /\ content' = Added(i, v)
      /\ UNCHANGED <<sort_count, crashed, popped_last>> /\ ~crashed
  BY DEF Inserts
<1>2. PICK l \in Nat : l = Len(c)
  BY LinkedFacts
<1>3. c \in Seq(Nodes) /\ \A j \in 1..l : c[j] \in Nodes /\ c[j] \in used
  BY <1>2, LinkedFacts DEF Linked, Sized
<1>4. /\ Len(d) = l + 1 /\ k \in 1..l + 1
      /\ \A j \in 1..l + 1 : d[j] = IF j < k THEN c[j] ELSE IF j = k THEN n ELSE c[j - 1]
  <2>0. c \in Seq(Nodes)
    BY <1>3
  <2>1. /\ d \in Seq(Nodes) /\ Len(d) = Len(c) + 1
        /\ \A j \in 1..Len(c) + 1 :
             d[j] = IF j < k THEN c[j] ELSE IF j = k THEN n ELSE c[j - 1]
    <3> HIDE DEF Good
    <3>1. d \in Seq(Nodes) /\ Spliced(d, c, k, n)
      BY <2>0, InsertAtSpliced
    <3> HIDE DEF d
    <3> QED
      BY <3>1 DEF Spliced
  <2> HIDE DEF d
  <2> QED
    BY <1>2, <2>1
<1> HIDE DEF d
<1>5. \A j \in 1..l + 1 : \/ j < k /\ j \in 1..l /\ d[j] = c[j]
                          \/ j = k /\ d[j] = n
                          \/ j > k /\ j - 1 \in 1..l /\ d[j] = c[j - 1]
  BY <1>4
<1>6. Fields'
  BY <1>1 DEF Fields
<1>7. Sized(d)'
  <2>1. count' \in Nat /\ sort_count' \in Nat /\ count' # 0 /\ Len(d) # 0 /\ count' <= Len(d)
    BY <1>1, <1>2, <1>4 DEF Sized
  <2>2. \A j \in 1..Len(d) : d[j] \in used'
    BY <1>1, <1>3, <1>4, <1>5
  <2>3. ASSUME ~skewed' PROVE Len(d) = count' /\ \A m \in used' : \E j \in 1..Len(d) : d[j] = m
    <3>1. l = count /\ \A m \in used : \E j \in 1..l : c[j] = m
      BY <1>2, <2>3 DEF Sized
    <3>2. ASSUME NEW m \in used' PROVE \E j \in 1..l + 1 : d[j] = m
      <4>1. CASE m = n
        BY <1>4, <1>5, <4>1
      <4>2. CASE m # n
        <5>1. PICK j \in 1..l : c[j] = m
          BY <1>1, <3>1, <4>2
        <5>2. CASE j < k
          <6>1. j \in 1..l + 1
            OBVIOUS
          <6> QED
            BY <1>4, <5>1, <5>2, <6>1
        <5>3. CASE j >= k
          <6>1. j + 1 \in 1..l + 1 /\ ~(j + 1 < k) /\ j + 1 # k /\ (j + 1) - 1 = j
            BY <1>4, <5>3
          <6>2. d[j + 1] = c[(j + 1) - 1]
            BY <1>4, <6>1
          <6> QED
            BY <5>1, <6>1, <6>2
        <5> QED
          BY <1>4, <5>2, <5>3
      <4> QED
        BY <4>1, <4>2
    <3> QED
      BY <1>1, <1>4, <3>1, <3>2
  <2> QED
    BY <2>1, <2>2, <2>3 DEF Sized
<1>8. Holds(d)'
  <2> SUFFICES ASSUME ~skewed'
               PROVE  /\ content' \in Seq(Values) /\ Len(content') = Len(d)
                      /\ \A j \in 1..Len(d) : data'[d[j]] = content'[j]
    BY DEF Holds
  <2>1. ~skewed /\ k = i + 1 /\ content \in Seq(Values) /\ Len(content) = l
        /\ \A j \in 1..l : data[c[j]] = content[j]
    BY <1>2 DEF Holds
  <2>2. content' = InsertAt(content, k, v)
    BY <1>1, <2>1 DEF Added
  <2>3. /\ content' \in Seq(Values) /\ Len(content') = l + 1
        /\ \A j \in 1..l + 1 :
             content'[j] = IF j < k THEN content[j] ELSE IF j = k THEN v ELSE content[j - 1]
    <3>1. k \in 1..Len(content) + 1 /\ content \in Seq(Values)
      BY <1>4, <2>1
    <3>2. /\ InsertAt(content, k, v) \in Seq(Values)
          /\ Len(InsertAt(content, k, v)) = Len(content) + 1
          /\ \A j \in 1..Len(content) + 1 :
               InsertAt(content, k, v)[j] =
                 IF j < k THEN content[j] ELSE IF j = k THEN v ELSE content[j - 1]
      BY <3>1, InsertAtFacts
    <3> QED
      BY <2>1, <2>2, <3>2
  <2>4. /\ data'[n] = v
        /\ \A j \in 1..l : data'[c[j]] = content[j]
    BY <1>1, <1>3, <2>1 DEF Fields
  <2>5. ASSUME NEW j \in 1..l + 1 PROVE data'[d[j]] = content'[j]
    <3>1. CASE j < k /\ j \in 1..l /\ d[j] = c[j]
      BY <2>3, <2>4, <3>1
    <3>2. CASE j = k /\ d[j] = n
      BY <2>3, <2>4, <3>2
    <3>3. CASE j > k /\ j - 1 \in 1..l /\ d[j] = c[j - 1]
      <4>1. ~(j < k) /\ j # k
        BY <1>4, <3>3
      <4> QED
        BY <2>3, <2>4, <3>3, <4>1
    <3> QED
      BY <1>5, <3>1, <3>2, <3>3
  <2> QED
    BY <1>4, <2>3, <2>5
<1>9. CrashesExplained'
  BY <1>1 DEF CrashesExplained
<1> QED
  BY <1>6, <1>7, <1>8, <1>9 DEF d

\* The node at place k is removed from a list of more than one.
LEMMA RemoveGood ==
  ASSUME NEW c, Good(c), NEW i \in Nat, NEW k \in 1..Len(c), count > 1, ~crashed,
         Removes(c[k], i),
         Linked(RemoveAt(c, k))', Placed(RemoveAt(c, k))',
         DOMAIN next' = Nodes, DOMAIN prev' = Nodes,
         ~skewed' => ~skewed /\ k = i + 1
  PROVE  Good(RemoveAt(c, k))'
<1> USE DEF Good
<1> DEFINE d == RemoveAt(c, k)
<1>1. /\ used' = used \ {c[k]} /\ count' = count - 1
      /\ data' = [data EXCEPT ![c[k]] = Garbage] /\ content' = Removed(i)
      /\ UNCHANGED <<sort_count, crashed, popped_last>>
  BY DEF Removes
<1>2. PICK l \in Nat : l = Len(c)
  BY LinkedFacts
<1>3. /\ c \in Seq(Nodes) /\ \A j \in 1..l : c[j] \in Nodes /\ c[j] \in used
      /\ \A j, m \in 1..l : c[j] = c[m] => j = m
      /\ k \in 1..l /\ l >= 2
  BY <1>2, LinkedFacts DEF Linked, Sized
<1>4. /\ Len(d) = l - 1
      /\ \A j \in 1..l - 1 : d[j] = IF j < k THEN c[j] ELSE c[j + 1]
  BY <1>2, <1>3, RemoveAtFacts
<1> HIDE DEF d
<1>5. \A j \in 1..l - 1 : \/ j < k /\ j \in 1..l /\ j # k /\ d[j] = c[j]
                          \/ j >= k /\ j + 1 \in 1..l /\ j + 1 # k /\ d[j] = c[j + 1]
  BY <1>3, <1>4
<1>6. Fields'
  BY <1>1 DEF Fields
<1>7. Sized(d)'
  <2>1. count' \in Nat /\ sort_count' \in Nat /\ count' # 0 /\ Len(d) # 0 /\ count' <= Len(d)
    BY <1>1, <1>2, <1>3, <1>4 DEF Sized
  <2>2. \A j \in 1..Len(d) : d[j] \in used'
    BY <1>1, <1>3, <1>4, <1>5
  <2>3. ASSUME ~skewed' PROVE Len(d) = count' /\ \A m \in used' : \E j \in 1..Len(d) : d[j] = m
    <3>1. l = count /\ \A m \in used : \E j \in 1..l : c[j] = m
      BY <1>2, <2>3 DEF Sized
    <3>2. ASSUME NEW m \in used' PROVE \E j \in 1..l - 1 : d[j] = m
      <4>1. PICK j \in 1..l : c[j] = m /\ j # k
        BY <1>1, <3>1
      <4>2. CASE j < k
        <5>1. j \in 1..l - 1
          BY <1>3, <4>2
        <5> QED
          BY <1>4, <4>1, <4>2, <5>1
      <4>3. CASE j > k
        <5>1. j - 1 \in 1..l - 1 /\ ~(j - 1 < k) /\ (j - 1) + 1 = j
          BY <1>3, <4>3
        <5>2. d[j - 1] = c[(j - 1) + 1]
          BY <1>4, <5>1
        <5> QED
          BY <4>1, <5>1, <5>2
      <4> QED
        BY <1>3, <4>1, <4>2, <4>3
    <3>3. count' = l - 1
      BY <1>1, <3>1
    <3> QED
      BY <1>4, <3>2, <3>3
  <2> QED
    BY <2>1, <2>2, <2>3 DEF Sized
<1>8. Holds(d)'
  <2> SUFFICES ASSUME ~skewed'
               PROVE  /\ content' \in Seq(Values) /\ Len(content') = Len(d)
                      /\ \A j \in 1..Len(d) : data'[d[j]] = content'[j]
    BY DEF Holds
  <2>1. ~skewed /\ k = i + 1 /\ content \in Seq(Values) /\ Len(content) = l
        /\ \A j \in 1..l : data[c[j]] = content[j]
    BY <1>2 DEF Holds
  <2>2. content' = RemoveAt(content, k)
    BY <1>1, <2>1 DEF Removed
  <2>3. /\ content' \in Seq(Values) /\ Len(content') = l - 1
        /\ \A j \in 1..l - 1 : content'[j] = IF j < k THEN content[j] ELSE content[j + 1]
    <3>1. k \in 1..Len(content) /\ content \in Seq(Values)
      BY <1>3, <2>1
    <3>2. /\ RemoveAt(content, k) \in Seq(Values)
          /\ Len(RemoveAt(content, k)) = Len(content) - 1
          /\ \A j \in 1..Len(content) - 1 :
               RemoveAt(content, k)[j] = IF j < k THEN content[j] ELSE content[j + 1]
      BY <3>1, RemoveAtFacts
    <3> QED
      BY <2>1, <2>2, <3>2
  <2>4. \A j \in 1..l : j # k => data'[c[j]] = content[j]
    <3> SUFFICES ASSUME NEW j \in 1..l, j # k PROVE data'[c[j]] = content[j]
      OBVIOUS
    <3>1. c[j] # c[k] /\ c[j] \in DOMAIN data
      BY <1>3 DEF Fields
    <3>2. data'[c[j]] = data[c[j]]
      BY <1>1, <3>1
    <3> QED
      BY <2>1, <3>2
  <2>5. ASSUME NEW j \in 1..l - 1 PROVE data'[d[j]] = content'[j]
    <3>1. CASE j < k /\ j \in 1..l /\ j # k /\ d[j] = c[j]
      BY <2>3, <2>4, <3>1
    <3>2. CASE j >= k /\ j + 1 \in 1..l /\ j + 1 # k /\ d[j] = c[j + 1]
      <4>1. ~(j < k)
        BY <1>3, <3>2
      <4> QED
        BY <2>3, <2>4, <3>2, <4>1
    <3> QED
      BY <1>5, <3>1, <3>2
  <2> QED
    BY <1>4, <2>3, <2>5
<1>9. CrashesExplained'
  BY <1>1 DEF CrashesExplained
<1> QED
  BY <1>6, <1>7, <1>8, <1>9 DEF d
----------------------------------------------------------------------------
(* The calls.                                                              *)

\* What a list tells of its first and last place.
LEMMA EndFacts ==
  ASSUME NEW c, Good(c), count > 0
  PROVE  /\ Len(c) \in Nat /\ Len(c) > 0 /\ 1 \in 1..Len(c) /\ Len(c) \in 1..Len(c)
         /\ head = c[1] /\ tail = c[Len(c)] /\ head \in Nodes /\ tail \in Nodes
         /\ count > 1 => Len(c) > 1
<1>1. Len(c) \in Nat /\ \A i \in 1..Len(c) : c[i] \in Nodes
  BY LinkedFacts DEF Good
<1>2. Len(c) # 0 /\ (count > 1 => Len(c) > 1) /\ count \in Nat
  BY <1>1 DEF Good, Sized
<1> QED
  BY <1>1, <1>2 DEF Good, Linked

LEMMA PushGood ==
  ASSUME NEW c, Good(c), NEW n \in Nodes, NEW v \in Values,
         push_empty(n, v) \/ push_front(n, v) \/ push_back(n, v)
  PROVE  \E d : Good(d)'
<1> USE DEF Good
<1>1. Inserts(n, 0, v) \/ Inserts(n, count, v)
  BY DEF push_empty, push_front, push_back
<1>2. n \notin used
  BY <1>1 DEF Inserts
<1>3. \A j \in 1..Len(c) : c[j] # n /\ c[j] \in Nodes
  BY <1>2, LinkedFacts DEF Sized
<1>4. Len(c) \in Nat /\ c \in Seq(Nodes) /\ count \in Nat
  BY LinkedFacts DEF Linked, Sized
<1>5. ASSUME NEW k \in 1..Len(c) + 1, NEW i \in Nat, Inserts(n, i, v), reset_cur_node,
             Linked(InsertAt(c, k, n))', DOMAIN next' = Nodes, DOMAIN prev' = Nodes,
             skewed' = skewed, ~skewed => k = i + 1
      PROVE  \E d : Good(d)'
  <2>0. c \in Seq(Nodes)
    BY <1>4
  <2>1. Len(InsertAt(c, k, n)) = Len(c) + 1
    <3> HIDE DEF Good
    <3>1. Spliced(InsertAt(c, k, n), c, k, n)
      BY <2>0, InsertAtSpliced
    <3> QED
      BY <3>1 DEF Spliced
  <2>2. Len(InsertAt(c, k, n)) > 0
    BY <1>4, <2>1
  <2>3. Placed(InsertAt(c, k, n))'
    BY <1>5, <2>2, ResetPlaced
  <2>4. Good(InsertAt(c, k, n))'
    BY <1>5, <2>3, InsertGood
  <2> QED
    BY <2>4
<1>6. CASE push_empty(n, v)
  <2>1. /\ Inserts(n, 0, v) /\ reset_cur_node /\ skewed' = skewed /\ count = 0
        /\ head' = n /\ tail' = n
        /\ next' = [next EXCEPT ![n] = Null] /\ prev' = [prev EXCEPT ![n] = Null]
    BY <1>6 DEF push_empty
  <2>2. Len(c) = 0 /\ 1 \in 1..Len(c) + 1
    BY <1>4, <2>1 DEF Sized
  <2>3. next'[n] = Null /\ prev'[n] = Null /\ DOMAIN next' = Nodes /\ DOMAIN prev' = Nodes
    BY <2>1 DEF Fields
  <2>4. Linked(InsertAt(c, 1, n))'
    BY <1>3, <2>1, <2>2, <2>3, InsertLink
  <2> QED
    BY <1>5, <2>1, <2>2, <2>3, <2>4
<1>7. CASE push_front(n, v)
  <2>1. /\ Inserts(n, 0, v) /\ reset_cur_node /\ skewed' = skewed /\ count > 0
        /\ head' = n /\ tail' = tail
        /\ next' = [next EXCEPT ![n] = head]
        /\ prev' = [prev EXCEPT ![head] = n, ![n] = Null]
    BY <1>7 DEF push_front
  <2>2. /\ Len(c) > 0 /\ 1 \in 1..Len(c) /\ head = c[1] /\ head \in Nodes
        /\ 1 \in 1..Len(c) + 1 /\ 1 # Len(c) + 1
    BY <1>4, <2>1, EndFacts
  <2>3. next'[n] = c[1] /\ prev'[n] = Null /\ DOMAIN next' = Nodes /\ DOMAIN prev' = Nodes
    BY <2>1, <2>2 DEF Fields
  <2>4. \A j \in 1..Len(c) : next'[c[j]] = next[c[j]]
    BY <1>3, <2>1 DEF Fields
  <2>5. \A j \in 1..Len(c) : prev'[c[j]] = IF j = 1 THEN n ELSE prev[c[j]]
    <3>1. \A j \in 1..Len(c) : c[j] = head <=> j = 1
      BY <2>2 DEF Linked
    <3> QED
      BY <1>3, <2>1, <2>2, <3>1 DEF Fields
  <2>6. \A j \in 1..Len(c) : j # 1 - 1
    BY <1>4
  <2>7. Linked(InsertAt(c, 1, n))'
    BY <1>3, <2>1, <2>2, <2>3, <2>4, <2>5, <2>6, InsertLink
  <2> QED
    BY <1>5, <2>1, <2>2, <2>3, <2>7
<1>8. CASE push_back(n, v)
  <2> DEFINE k == Len(c) + 1
  <2>1. /\ Inserts(n, count, v) /\ reset_cur_node /\ skewed' = skewed /\ count > 0
        /\ tail' = n /\ head' = head
        /\ next' = [next EXCEPT ![tail] = n, ![n] = Null]
        /\ prev' = [prev EXCEPT ![n] = tail]
    BY <1>8 DEF push_back
  <2>2. /\ Len(c) > 0 /\ Len(c) \in 1..Len(c) /\ tail = c[Len(c)] /\ tail \in Nodes
        /\ k \in 1..Len(c) + 1 /\ k # 1 /\ k - 1 = Len(c)
    BY <1>4, <2>1, EndFacts
  <2>3. next'[n] = Null /\ prev'[n] = c[k - 1] /\ DOMAIN next' = Nodes /\ DOMAIN prev' = Nodes
    BY <2>1, <2>2 DEF Fields
  <2>4. \A j \in 1..Len(c) : prev'[c[j]] = prev[c[j]]
    BY <1>3, <2>1 DEF Fields
  <2>5. \A j \in 1..Len(c) : next'[c[j]] = IF j = k - 1 THEN n ELSE next[c[j]]
    <3>1. \A j \in 1..Len(c) : c[j] = tail <=> j = k - 1
      BY <2>2 DEF Linked
    <3> HIDE DEF k
    <3> QED
      BY <1>3, <2>1, <2>2, <3>1 DEF Fields
  <2>6. \A j \in 1..Len(c) : j # k
    BY <1>4
  <2>7. Linked(InsertAt(c, k, n))'
    <3>1. k = Len(c) + 1
      OBVIOUS
    <3> HIDE DEF k
    <3> QED
      BY <1>3, <2>1, <2>2, <2>3, <2>4, <2>5, <2>6, <3>1, InsertLink
  <2>8. ~skewed => k = count + 1
    BY <1>4 DEF Sized
  <2> HIDE DEF k
  <2> QED
    BY <1>4, <1>5, <2>1, <2>2, <2>3, <2>7, <2>8
<1> QED
  BY <1>6, <1>7, <1>8

\* The node get_node_of finds for an inner index, when it finds one.
LEMMA Found ==
  ASSUME NEW c, Good(c), NEW i \in 1..count - 1,
         Deref(Locate(i)) # Null, prev[Deref(Locate(i))] # Null
  PROVE  \E k \in 2..Len(c) :
           /\ Deref(Locate(i)) = c[k] /\ prev[c[k]] = c[k - 1]
           /\ Cell(c, Locate(i))
           /\ ~skewed => k = i + 1
           /\ \/ Locate(i) = <<"next", c[k - 1]>>
              \/ k + 1 \in 1..Len(c) /\ Locate(i) = <<"prev", c[k + 1]>>
<1> USE DEF Good
<1>1. Len(c) \in Nat /\ count \in Nat /\ i \in Int
  BY LinkedFacts DEF Sized
<1>2. Cell(c, Locate(i))
  BY <1>1, LocateCell, CellFacts
<1>3. PICK k \in 1..Len(c) : Deref(Locate(i)) = c[k]
  BY <1>2, CellHolds
<1>4. k # 1 /\ prev[c[k]] = c[k - 1]
  BY <1>3 DEF Linked
<1>5. k \in 2..Len(c) /\ k - 1 \in 1..Len(c)
  BY <1>1, <1>4
<1>6. ASSUME ~skewed PROVE k = i + 1
  <2>1. Len(c) = count /\ i \in 0..Len(c) - 1 /\ i + 1 \in 1..Len(c)
    BY <1>1, <1>6 DEF Sized
  <2>2. Deref(Locate(i)) = c[i + 1]
    BY <1>6, <2>1, LocateExact
  <2> QED
    BY <1>3, <2>1, <2>2 DEF Linked
<1>7. \/ Locate(i) = <<"next", c[k - 1]>>
      \/ k + 1 \in 1..Len(c) /\ Locate(i) = <<"prev", c[k + 1]>>
  BY <1>2, <1>3, <1>4, CellNeighbour
<1> QED
  BY <1>2, <1>3, <1>4, <1>5, <1>6, <1>7

LEMMA PushMiddleGood ==
  ASSUME NEW c, Good(c), NEW n \in Nodes, NEW v \in Values, NEW i, push_middle(n, i, v)
  PROVE  \E d : Good(d)'
<1> USE DEF Good
<1> DEFINE a == Locate(i)
<1>1. /\ i \in 1..count - 1 /\ Deref(a) # Null /\ prev[Deref(a)] # Null
      /\ Inserts(n, i, v) /\ head' = head /\ tail' = tail
      /\ next' = [next EXCEPT ![n] = Deref(a), ![prev[Deref(a)]] = n]
      /\ prev' = [prev EXCEPT ![n] = prev[Deref(a)], ![Deref(a)] = n]
      /\ current' = a /\ cur_index' = i
      /\ skewed' = (skewed \/ a[1] = "prev")
  BY DEF push_middle
<1>2. PICK k \in 2..Len(c) :
        /\ Deref(a) = c[k] /\ prev[c[k]] = c[k - 1]
        /\ Cell(c, a)
        /\ ~skewed => k = i + 1
        /\ \/ a = <<"next", c[k - 1]>>
           \/ k + 1 \in 1..Len(c) /\ a = <<"prev", c[k + 1]>>
  BY <1>1, Found
<1> HIDE DEF a
<1>3. Len(c) \in Nat /\ c \in Seq(Nodes) /\ count \in Nat
  BY LinkedFacts DEF Linked, Sized
<1>4. \A j \in 1..Len(c) : c[j] # n /\ c[j] \in Nodes
  BY <1>1, LinkedFacts DEF Sized, Inserts
<1>5. k \in 1..Len(c) /\ k - 1 \in 1..Len(c) /\ k \in 1..Len(c) + 1 /\ k # 1 /\ k # Len(c) + 1
      /\ k - 1 # k
  BY <1>3
<1>6. /\ next' = [next EXCEPT ![n] = c[k], ![c[k - 1]] = n]
      /\ prev' = [prev EXCEPT ![n] = c[k - 1], ![c[k]] = n]
  BY <1>1, <1>2
<1>7. next'[n] = c[k] /\ prev'[n] = c[k - 1] /\ DOMAIN next' = Nodes /\ DOMAIN prev' = Nodes
  BY <1>4, <1>5, <1>6 DEF Fields
<1>8. \A j \in 1..Len(c) : next'[c[j]] = IF j = k - 1 THEN n ELSE next[c[j]]
  <2>1. \A j \in 1..Len(c) : c[j] = c[k - 1] <=> j = k - 1
    BY <1>5 DEF Linked
  <2> QED
    BY <1>4, <1>6, <2>1 DEF Fields
<1>9. \A j \in 1..Len(c) : prev'[c[j]] = IF j = k THEN n ELSE prev[c[j]]
  <2>1. \A j \in 1..Len(c) : c[j] = c[k] <=> j = k
    BY <1>5 DEF Linked
  <2> QED
    BY <1>4, <1>6, <2>1 DEF Fields
<1> DEFINE d == InsertAt(c, k, n)
<1>10. Linked(d)'
  BY <1>1, <1>4, <1>5, <1>7, <1>8, <1>9, InsertLink
<1>11. /\ Len(d) = Len(c) + 1
       /\ \A j \in 1..Len(c) + 1 :
            d[j] = IF j < k THEN c[j] ELSE IF j = k THEN n ELSE c[j - 1]
  <2>1. /\ d \in Seq(Nodes) /\ Len(d) = Len(c) + 1
        /\ \A j \in 1..Len(c) + 1 :
             d[j] = IF j < k THEN c[j] ELSE IF j = k THEN n ELSE c[j - 1]
    <3>1. c \in Seq(Nodes)
      BY <1>3
    <3>2. k \in 1..Len(c) + 1
      BY <1>5
    <3> HIDE DEF Good
    <3>3. d \in Seq(Nodes) /\ Spliced(d, c, k, n)
      BY <3>1, <3>2, InsertAtSpliced
    <3> HIDE DEF d
    <3> QED
      BY <3>3 DEF Spliced
  <2> QED
    BY <2>1
<1> HIDE DEF d
<1>12. Placed(d)'
  <2>1. cur_index' \in Int
    BY <1>1, <1>3
  <2>2. \A j \in 1..Len(c) : \E m \in 1..Len(d) : d[m] = c[j]
    <3> SUFFICES ASSUME NEW j \in 1..Len(c) PROVE \E m \in 1..Len(d) : d[m] = c[j]
      OBVIOUS
    <3>1. CASE j < k
      <4>1. j \in 1..Len(d) /\ j \in 1..Len(c) + 1
        BY <1>3, <1>11
      <4> QED
        BY <1>11, <3>1, <4>1
    <3>2. CASE j >= k
      <4>1. /\ j + 1 \in 1..Len(d) /\ j + 1 \in 1..Len(c) + 1
            /\ ~(j + 1 < k) /\ j + 1 # k /\ (j + 1) - 1 = j
        BY <1>3, <1>11, <3>2
      <4>2. d[j + 1] = c[(j + 1) - 1]
        BY <1>11, <4>1
      <4> QED
        BY <4>1, <4>2
    <3> QED
      BY <1>3, <3>1, <3>2
  <2>3. Cell(d, current)'
    <3>1. current' = HeadCell \/ \E j \in 1..Len(c) : \/ current' = <<"next", c[j]>>
                                                       \/ current' = <<"prev", c[j]>>
      BY <1>1, <1>2 DEF Cell
    <3>2. current' = HeadCell \/ \E m \in 1..Len(d) : \/ current' = <<"next", d[m]>>
                                                       \/ current' = <<"prev", d[m]>>
      BY <2>2, <3>1
    <3> QED
      BY <3>2 DEF Cell, HeadCell
  <2>4. ASSUME ~skewed' PROVE Exact(d)'
    <3>1. ~skewed /\ a[1] # "prev"
      BY <1>1, <2>4
    <3>2. a = <<"next", c[k - 1]>> /\ k = i + 1
      BY <1>2, <3>1, CellFacts
    <3>3. Deref(current)' = next'[c[k - 1]]
      BY <1>1, <3>2 DEF Deref
    <3>4. next'[c[k - 1]] = n /\ d[k] = n
      BY <1>5, <1>8, <1>11
    <3>5. Len(d) # 0 /\ i \in 0..Len(d) - 1
      BY <1>1, <1>3, <1>5, <1>11, <3>2
    <3> QED
      BY <1>1, <3>2, <3>3, <3>4, <3>5 DEF Exact
  <2> QED
    BY <2>1, <2>3, <2>4 DEF Placed
<1>13. ~skewed' => ~skewed /\ k = i + 1
  BY <1>1, <1>2
<1>14. i \in Nat
  BY <1>1, <1>3
<1>15. Good(d)'
  BY <1>1, <1>5, <1>7, <1>10, <1>12, <1>13, <1>14, InsertGood DEF d
<1> QED
  BY <1>15

\* push_at finds no node, which takes a skewed cursor: a block is lost, the list kept.
LEMMA PushLostGood ==
  ASSUME NEW c, Good(c), NEW n \in Nodes, NEW v \in Values, NEW i, push_lost(n, i, v)
  PROVE  Good(c)'
<1> USE DEF Good
<1> DEFINE a == Locate(i)
<1>1. /\ n \notin used /\ i \in 1..count - 1 /\ a # Crash /\ Deref(a) = Null
      /\ used' = used \cup {n} /\ data' = [data EXCEPT ![n] = v]
      /\ next' = [next EXCEPT ![n] = Null] /\ prev' = [prev EXCEPT ![n] = Null]
      /\ current' = a /\ cur_index' = i
      /\ UNCHANGED <<head, tail, count, sort_count, crashed, skewed, popped_last>>
  BY DEF push_lost
<1>2. Len(c) \in Nat /\ count \in Nat /\ c \in Seq(Nodes)
      /\ \A j \in 1..Len(c) : c[j] \in Nodes /\ c[j] # Null /\ c[j] # n
  <2>1. Len(c) \in Nat /\ \A j \in 1..Len(c) : c[j] \in Nodes /\ c[j] # Null
    BY LinkedFacts
  <2>2. count \in Nat /\ \A j \in 1..Len(c) : c[j] # n
    BY <1>1 DEF Sized
  <2> QED
    BY <2>1, <2>2 DEF Linked
<1>3. i \in Int
  BY <1>1, <1>2
<1>4. skewed
  <2> SUFFICES ASSUME ~skewed PROVE FALSE
    OBVIOUS
  <2>1. i \in 0..Len(c) - 1 /\ i + 1 \in 1..Len(c)
    BY <1>1, <1>2 DEF Sized
  <2>2. Deref(a) = c[i + 1]
    BY <2>1, LocateExact
  <2> QED
    BY <1>1, <1>2, <2>1, <2>2
<1>5. Cell(c, a)
  BY <1>1, <1>3, LocateCell
<1> HIDE DEF a
<1>6. \A j \in 1..Len(c) : next'[c[j]] = next[c[j]] /\ prev'[c[j]] = prev[c[j]]
  BY <1>1, <1>2 DEF Fields
<1>7. Linked(c)'
  BY <1>1, <1>6 DEF Linked
<1>8. Sized(c)'
  BY <1>1, <1>4 DEF Sized
<1>9. Placed(c)'
  BY <1>1, <1>3, <1>4, <1>5 DEF Placed, Cell, HeadCell
<1>10. Holds(c)' /\ Fields' /\ CrashesExplained'
  BY <1>1, <1>4 DEF Holds, Fields, CrashesExplained
<1> QED
  BY <1>7, <1>8, <1>9, <1>10

\* pop_of finds no node, which takes a skewed cursor: only the size changes.
LEMMA PopNothingGood ==
  ASSUME NEW c, Good(c), NEW i, pop_nothing(i)
  PROVE  Good(c)'
<1> USE DEF Good
<1> DEFINE a == Locate(i)
<1>1. /\ i \in 1..count - 1 /\ a # Crash /\ Deref(a) = Null /\ count' = count - 1
      /\ current' = a /\ cur_index' = i
      /\ UNCHANGED <<head, tail, next, prev, data, used, sort_count, crashed, skewed, popped_last>>
  BY DEF pop_nothing, chain
<1>2. Len(c) \in Nat /\ count \in Nat /\ \A j \in 1..Len(c) : c[j] # Null
  BY LinkedFacts DEF Sized
<1>3. i \in Int
  BY <1>1, <1>2
<1>4. skewed
  <2> SUFFICES ASSUME ~skewed PROVE FALSE
    OBVIOUS
  <2>1. i \in 0..Len(c) - 1 /\ i + 1 \in 1..Len(c)
    BY <1>1, <1>2 DEF Sized
  <2>2. Deref(a) = c[i + 1]
    BY <2>1, LocateExact
  <2> QED
    BY <1>1, <1>2, <2>1, <2>2
<1>5. Cell(c, a)
  BY <1>1, <1>3, LocateCell
<1> HIDE DEF a
<1>7. Linked(c)'
  BY <1>1 DEF Linked
<1>8. Sized(c)'
  <2>1. count' \in Nat /\ count' # 0 /\ count' <= Len(c) /\ Len(c) # 0
    BY <1>1, <1>2 DEF Sized
  <2> QED
    BY <1>1, <1>4, <2>1 DEF Sized
<1>9. Placed(c)'
  BY <1>1, <1>3, <1>4, <1>5 DEF Placed, Cell, HeadCell
<1>10. Holds(c)' /\ Fields' /\ CrashesExplained'
  BY <1>1, <1>4 DEF Holds, Fields, CrashesExplained
<1> QED
  BY <1>7, <1>8, <1>9, <1>10

\* Only a skewed cursor makes an accepted index crash, except pop_of(size - 1).
LEMMA CrashesGood ==
  ASSUME NEW c, Good(c), NEW i, push_crashes(i) \/ pop_crashes(i) \/ get_crashes(i)
  PROVE  Good(c)'
<1> USE DEF Good
<1> DEFINE a == Locate(i)
<1>1. Len(c) \in Nat /\ count \in Nat /\ \A j \in 1..Len(c) : c[j] # Null
  BY LinkedFacts DEF Sized
<1>2. i \in 0..count - 1
  <2>1. i \in 1..count - 1 \/ i \in 0..count - 1
    BY Zenon DEF push_crashes, pop_crashes, get_crashes
  <2> QED
    BY <1>1, <2>1
<1>3. ASSUME ~skewed
      PROVE  /\ a # Crash /\ Deref(a) = c[i + 1] /\ i + 1 \in 1..Len(c) /\ Len(c) = count
             /\ Deref(a) # Null
             /\ next[Deref(a)] = IF i + 1 = Len(c) THEN Null ELSE c[(i + 1) + 1]
             /\ prev[Deref(a)] = IF i + 1 = 1 THEN Null ELSE c[(i + 1) - 1]
  <2>1. Len(c) = count /\ i \in 0..Len(c) - 1 /\ i + 1 \in 1..Len(c)
    BY <1>1, <1>2, <1>3 DEF Sized
  <2>2. a # Crash /\ Deref(a) = c[i + 1]
    BY <1>3, <2>1, LocateExact
  <2>3. /\ next[c[i + 1]] = IF i + 1 = Len(c) THEN Null ELSE c[(i + 1) + 1]
        /\ prev[c[i + 1]] = IF i + 1 = 1 THEN Null ELSE c[(i + 1) - 1]
    BY <2>1 DEF Linked
  <2> QED
    BY <1>1, <2>1, <2>2, <2>3
<1>4. CASE push_crashes(i)
  <2>1. /\ i \in 1..count - 1 /\ Crashes(FALSE)
        /\ a = Crash \/ (Deref(a) # Null /\ prev[Deref(a)] = Null)
    BY <1>4 DEF push_crashes
  <2> HIDE DEF a
  <2>2. skewed
    <3> SUFFICES ASSUME ~skewed PROVE FALSE
      OBVIOUS
    <3>1. i + 1 # 1 /\ (i + 1) - 1 \in 1..Len(c)
      BY <1>1, <1>3, <2>1
    <3> QED
      BY <1>1, <1>3, <2>1, <3>1
  <2> QED
    BY <2>1, <2>2, CrashKeeps
<1>5. CASE pop_crashes(i)
  <2>1. /\ i \in 1..count - 1 /\ Crashes(i = count - 1)
        /\ a = Crash \/ (Deref(a) # Null /\ (prev[Deref(a)] = Null \/ next[Deref(a)] = Null))
    BY <1>5 DEF pop_crashes
  <2> HIDE DEF a
  <2>2. ASSUME ~skewed PROVE i = count - 1
    <3>1. i + 1 # 1 /\ (i + 1) - 1 \in 1..Len(c)
      BY <1>1, <1>3, <2>1, <2>2
    <3>2. next[Deref(a)] = Null
      BY <1>1, <1>3, <2>1, <2>2, <3>1
    <3>3. (i + 1) + 1 \in 1..Len(c) \/ i + 1 = Len(c)
      BY <1>1, <1>3, <2>2
    <3>4. i + 1 = Len(c)
      BY <1>1, <1>3, <2>2, <3>2, <3>3
    <3> QED
      BY <1>1, <1>2, <1>3, <2>2, <3>4
  <2> QED
    BY <2>1, <2>2, CrashKeeps
<1>6. CASE get_crashes(i)
  <2>1. a = Crash /\ Crashes(FALSE)
    BY <1>6 DEF get_crashes
  <2>2. skewed
    BY <1>3, <2>1
  <2> QED
    BY <2>1, <2>2, CrashKeeps
<1> QED
  BY <1>4, <1>5, <1>6

\* The node counted last goes, and the list is reset.
LEMMA LastGood ==
  ASSUME NEW c, Good(c), count = 1, NEW i \in Nat, NEW k \in 1..Len(c), Removes(c[k], i),
         head' = Null, tail' = Null, reset_cur_node, skewed' = skewed,
         DOMAIN next' = Nodes, DOMAIN prev' = Nodes, ~skewed => k = i + 1
  PROVE  \E d : Good(d)'
<1> USE DEF Good
<1>1. /\ used' = used \ {c[k]} /\ count' = 0
      /\ data' = [data EXCEPT ![c[k]] = Garbage] /\ content' = Removed(i)
      /\ UNCHANGED <<sort_count, crashed, popped_last>>
  BY DEF Removes
<1>2. Fields' /\ sort_count' \in Nat
  BY <1>1 DEF Fields, Sized
<1>3. ASSUME ~skewed PROVE Len(c) = 1 /\ k = 1 /\ i = 0 /\ used' = {}
  <2>1. Len(c) = 1 /\ k = 1 /\ i = 0
    <3>1. Len(c) = 1 /\ k = i + 1
      BY <1>3 DEF Sized
    <3>2. k \in 1..1
      BY <3>1
    <3> QED
      BY <3>1, <3>2
  <2>2. \A m \in used : m = c[1]
    BY <1>3, <2>1 DEF Sized
  <2> QED
    BY <1>1, <2>1, <2>2
<1>4. ASSUME ~skewed PROVE content' = <<>>
  <2>1. content \in Seq(Values) /\ Len(content) = 1
    BY <1>3, <1>4 DEF Holds
  <2>2. 1 \in 1..Len(content)
    BY <2>1
  <2>3. content' = RemoveAt(content, 1)
    BY <1>1, <1>3, <1>4 DEF Removed
  <2>4. /\ RemoveAt(content, 1) \in Seq(Values)
        /\ Len(RemoveAt(content, 1)) = Len(content) - 1
    BY <2>1, <2>2, RemoveAtFacts
  <2>5. content' \in Seq(Values) /\ Len(content') = 0
    BY <2>1, <2>3, <2>4
  <2> QED
    BY <2>5, EmptySeq
<1>5. Good(<<>>)'
  BY <1>1, <1>2, <1>3, <1>4, EmptyGood
<1> QED
  BY <1>5

\* One node of several goes, and the cursor is reset.
LEMMA UnlinkGood ==
  ASSUME NEW c, Good(c), NEW i \in Nat, NEW k \in 1..Len(c), count > 1, ~crashed,
         Removes(c[k], i), Linked(RemoveAt(c, k))', reset_cur_node, skewed' = skewed,
         DOMAIN next' = Nodes, DOMAIN prev' = Nodes, ~skewed => k = i + 1
  PROVE  \E d : Good(d)'
<1>1. c \in Seq(Nodes)
  BY DEF Good, Linked
<1>2. Len(RemoveAt(c, k)) = Len(c) - 1
  BY <1>1, RemoveAtFacts
<1>3. Len(c) \in Nat /\ count \in Nat /\ count <= Len(c)
  BY LinkedFacts DEF Good, Sized
<1>4. Len(RemoveAt(c, k)) > 0
  BY <1>2, <1>3
<1>5. Placed(RemoveAt(c, k))'
  BY <1>4, ResetPlaced
<1>6. Good(RemoveAt(c, k))'
  BY <1>5, RemoveGood
<1> QED
  BY <1>6

\* The fields after a removal at the front, at the back and in between.
LEMMA FrontUnlinked ==
  ASSUME NEW c, Good(c), NEW k \in 1..Len(c), k = 1,
         prev' = SetAt(prev, next[c[k]], Null), next' = [next EXCEPT ![c[k]] = Null]
  PROVE  /\ DOMAIN next' = Nodes /\ DOMAIN prev' = Nodes
         /\ \A j \in 1..Len(c) : j # k => next'[c[j]] = next[c[j]]
         /\ \A j \in 1..Len(c) : j # k =>
              prev'[c[j]] = IF j = k + 1 THEN prev[c[k]] ELSE prev[c[j]]
<1> USE DEF Good
<1>1. Len(c) \in Nat /\ \A j \in 1..Len(c) : c[j] \in Nodes /\ c[j] # Null
  BY LinkedFacts
<1>2. DOMAIN next' = Nodes /\ DOMAIN prev' = Nodes
  BY DEF Fields, SetAt
<1>3. \A j \in 1..Len(c) : j # k => next'[c[j]] = next[c[j]]
  BY <1>1 DEF Fields, Linked
<1>4. prev[c[k]] = Null /\ next[c[k]] = IF k = Len(c) THEN Null ELSE c[k + 1]
  BY DEF Linked
<1>5. ASSUME NEW j \in 1..Len(c), j # k
      PROVE  prev'[c[j]] = IF j = k + 1 THEN prev[c[k]] ELSE prev[c[j]]
  <2>1. k # Len(c) /\ k + 1 \in 1..Len(c)
    BY <1>1, <1>5
  <2>2. prev' = [prev EXCEPT ![c[k + 1]] = Null]
    BY <1>1, <1>4, <2>1 DEF SetAt
  <2>3. c[j] = c[k + 1] <=> j = k + 1
    BY <2>1 DEF Linked
  <2> QED
    BY <1>1, <1>4, <2>2, <2>3 DEF Fields
<1> QED
  BY <1>2, <1>3, <1>5

LEMMA BackUnlinked ==
  ASSUME NEW c, Good(c), NEW k \in 1..Len(c), k = Len(c),
         next' = SetAt(next, prev[c[k]], Null), prev' = [prev EXCEPT ![c[k]] = Null]
  PROVE  /\ DOMAIN next' = Nodes /\ DOMAIN prev' = Nodes
         /\ \A j \in 1..Len(c) : j # k =>
              next'[c[j]] = IF j = k - 1 THEN next[c[k]] ELSE next[c[j]]
         /\ \A j \in 1..Len(c) : j # k => prev'[c[j]] = prev[c[j]]
<1> USE DEF Good
<1>1. Len(c) \in Nat /\ \A j \in 1..Len(c) : c[j] \in Nodes /\ c[j] # Null
  BY LinkedFacts
<1>2. DOMAIN next' = Nodes /\ DOMAIN prev' = Nodes
  BY DEF Fields, SetAt
<1>3. \A j \in 1..Len(c) : j # k => prev'[c[j]] = prev[c[j]]
  BY <1>1 DEF Fields, Linked
<1>4. next[c[k]] = Null /\ prev[c[k]] = IF k = 1 THEN Null ELSE c[k - 1]
  BY DEF Linked
<1>5. ASSUME NEW j \in 1..Len(c), j # k
      PROVE  next'[c[j]] = IF j = k - 1 THEN next[c[k]] ELSE next[c[j]]
  <2>1. k # 1 /\ k - 1 \in 1..Len(c)
    BY <1>1, <1>5
  <2>2. next' = [next EXCEPT ![c[k - 1]] = Null]
    BY <1>1, <1>4, <2>1 DEF SetAt
  <2>3. c[j] = c[k - 1] <=> j = k - 1
    BY <2>1 DEF Linked
  <2> QED
    BY <1>1, <1>4, <2>2, <2>3 DEF Fields
<1> QED
  BY <1>2, <1>3, <1>5

\* The neighbours of n are joined.
Joins(n) ==
  /\ next' = [next EXCEPT ![prev[n]] = next[n], ![n] = Null]
  /\ prev' = [prev EXCEPT ![next[n]] = prev[n], ![n] = Null]

LEMMA InnerUnlinked ==
  ASSUME NEW c, Good(c), NEW k \in 1..Len(c), k # 1, k # Len(c), Joins(c[k])
  PROVE  /\ DOMAIN next' = Nodes /\ DOMAIN prev' = Nodes
         /\ \A j \in 1..Len(c) : j # k =>
              next'[c[j]] = IF j = k - 1 THEN next[c[k]] ELSE next[c[j]]
         /\ \A j \in 1..Len(c) : j # k =>
              prev'[c[j]] = IF j = k + 1 THEN prev[c[k]] ELSE prev[c[j]]
<1> USE DEF Good
<1>1. Len(c) \in Nat /\ \A j \in 1..Len(c) : c[j] \in Nodes /\ c[j] # Null
  BY LinkedFacts
<1>2. DOMAIN next' = Nodes /\ DOMAIN prev' = Nodes
  BY DEF Fields, Joins
<1>3. next[c[k]] = c[k + 1] /\ prev[c[k]] = c[k - 1]
  BY DEF Linked
<1>4. k - 1 \in 1..Len(c) /\ k + 1 \in 1..Len(c)
  BY <1>1
<1>5. \A j \in 1..Len(c) : /\ c[j] = c[k - 1] <=> j = k - 1
                           /\ c[j] = c[k + 1] <=> j = k + 1
                           /\ c[j] = c[k] <=> j = k
  BY <1>4 DEF Linked
<1>6. /\ next' = [next EXCEPT ![c[k - 1]] = c[k + 1], ![c[k]] = Null]
      /\ prev' = [prev EXCEPT ![c[k + 1]] = c[k - 1], ![c[k]] = Null]
  BY <1>3 DEF Joins
<1>7. ASSUME NEW j \in 1..Len(c), j # k
      PROVE  /\ next'[c[j]] = IF j = k - 1 THEN c[k + 1] ELSE next[c[j]]
             /\ prev'[c[j]] = IF j = k + 1 THEN c[k - 1] ELSE prev[c[j]]
  BY <1>1, <1>5, <1>6, <1>7 DEF Fields
<1> QED
  BY <1>2, <1>3, <1>7

LEMMA PopEndGood ==
  ASSUME NEW c, Good(c), pop_front \/ pop_back
  PROVE  \E d : Good(d)'
<1> USE DEF Good
<1>1. count > 0 /\ ~crashed
  BY DEF pop_front, pop_back
<1>2. /\ Len(c) \in Nat /\ 1 \in 1..Len(c) /\ Len(c) \in 1..Len(c)
      /\ head = c[1] /\ tail = c[Len(c)] /\ (count > 1 => Len(c) > 1)
  BY <1>1, EndFacts
<1>3. count \in Nat /\ count - 1 \in Nat /\ (count = 1 \/ count > 1)
  BY <1>1 DEF Sized
<1>4. \A j \in 1..Len(c) : j # 1 - 1 /\ j # Len(c) + 1
  BY <1>2
<1>5. CASE pop_front
  <2>1. /\ Removes(c[1], 0) /\ reset_cur_node /\ skewed' = skewed
        /\ head' = IF count = 1 THEN Null ELSE next[c[1]]
        /\ tail' = IF count = 1 THEN Null ELSE tail
        /\ prev' = SetAt(prev, next[c[1]], Null)
        /\ next' = [next EXCEPT ![c[1]] = Null]
    BY <1>2, <1>5 DEF pop_front
  <2>2. /\ DOMAIN next' = Nodes /\ DOMAIN prev' = Nodes
        /\ \A j \in 1..Len(c) : j # 1 => next'[c[j]] = next[c[j]]
        /\ \A j \in 1..Len(c) : j # 1 =>
             prev'[c[j]] = IF j = 1 + 1 THEN prev[c[1]] ELSE prev[c[j]]
    BY <1>2, <2>1, FrontUnlinked
  <2>3. CASE count = 1
    BY <1>2, <2>1, <2>2, <2>3, LastGood
  <2>4. CASE count > 1
    <3>1. head' = next[c[1]] /\ tail' = tail /\ 1 # Len(c)
      BY <1>2, <2>1, <2>4
    <3>2. Linked(RemoveAt(c, 1))'
      BY <1>2, <1>4, <2>2, <3>1, RemoveLink
    <3> QED
      BY <1>1, <1>2, <2>1, <2>2, <2>4, <3>2, UnlinkGood
  <2> QED
    BY <1>3, <2>3, <2>4
<1>6. CASE pop_back
  <2> DEFINE k == Len(c)
  <2>1. /\ Removes(c[k], count - 1) /\ reset_cur_node /\ skewed' = skewed
        /\ head' = IF count = 1 THEN Null ELSE head
        /\ tail' = IF count = 1 THEN Null ELSE prev[c[k]]
        /\ next' = SetAt(next, prev[c[k]], Null)
        /\ prev' = [prev EXCEPT ![c[k]] = Null]
    BY <1>2, <1>6 DEF pop_back
  <2>2. /\ DOMAIN next' = Nodes /\ DOMAIN prev' = Nodes
        /\ \A j \in 1..Len(c) : j # k =>
             next'[c[j]] = IF j = k - 1 THEN next[c[k]] ELSE next[c[j]]
        /\ \A j \in 1..Len(c) : j # k => prev'[c[j]] = prev[c[j]]
    BY <1>2, <2>1, BackUnlinked
  <2>3. ~skewed => k = (count - 1) + 1
    BY <1>3 DEF Sized
  <2>4. k = Len(c) /\ k \in 1..Len(c) /\ \A j \in 1..Len(c) : j # k + 1
    BY <1>2, <1>4
  <2> HIDE DEF k
  <2>5. CASE count = 1
    BY <1>3, <2>1, <2>2, <2>3, <2>4, <2>5, LastGood
  <2>6. CASE count > 1
    <3>1. head' = head /\ tail' = prev[c[k]] /\ k # 1
      BY <1>2, <2>1, <2>4, <2>6
    <3>2. Linked(RemoveAt(c, k))'
      BY <2>2, <2>4, <3>1, RemoveLink
    <3> QED
      BY <1>1, <1>3, <2>1, <2>2, <2>3, <2>4, <2>6, <3>2, UnlinkGood
  <2> QED
    BY <1>3, <2>5, <2>6
<1> QED
  BY <1>5, <1>6

LEMMA RemoveNodeGood ==
  ASSUME NEW c, Good(c), NEW i \in Nat, remove_node(i)
  PROVE  \E d : Good(d)'
<1> USE DEF Good
<1> DEFINE k == i + 1
<1>1. Chain = c
  BY ChainIs
<1>2. /\ ~crashed /\ i \in 0..Len(c) - 1 /\ count > 0 /\ Removes(c[k], i)
      /\ \/ /\ c[k] = head
            /\ head' = (IF count = 1 THEN Null ELSE next[c[k]])
            /\ tail' = (IF count = 1 THEN Null ELSE tail)
            /\ prev' = SetAt(prev, next[c[k]], Null)
            /\ next' = [next EXCEPT ![c[k]] = Null]
         \/ /\ c[k] # head /\ c[k] = tail
            /\ head' = (IF count = 1 THEN Null ELSE head)
            /\ tail' = (IF count = 1 THEN Null ELSE prev[c[k]])
            /\ next' = SetAt(next, prev[c[k]], Null)
            /\ prev' = [prev EXCEPT ![c[k]] = Null]
         \/ /\ c[k] # head /\ c[k] # tail
            /\ head' = (IF count = 1 THEN Null ELSE head)
            /\ tail' = (IF count = 1 THEN Null ELSE tail)
            /\ next' = [next EXCEPT ![prev[c[k]]] = next[c[k]], ![c[k]] = Null]
            /\ prev' = [prev EXCEPT ![next[c[k]]] = prev[c[k]], ![c[k]] = Null]
      /\ reset_cur_node /\ skewed' = skewed
  BY <1>1, Zenon DEF remove_node
<1>3. /\ Len(c) \in Nat /\ 1 \in 1..Len(c) /\ Len(c) \in 1..Len(c)
      /\ head = c[1] /\ tail = c[Len(c)] /\ (count > 1 => Len(c) > 1)
  BY <1>2, EndFacts
<1>4. k \in 1..Len(c) /\ k = i + 1
  BY <1>2, <1>3
<1>5. count \in Nat /\ (count = 1 \/ count > 1)
  BY <1>2 DEF Sized
<1> HIDE DEF k
<1>6. (c[k] = head <=> k = 1) /\ (c[k] = tail <=> k = Len(c))
  BY <1>3, <1>4 DEF Linked
<1>7. \A j \in 1..Len(c) : j # 1 - 1 /\ j # Len(c) + 1
  BY <1>3
<1>8. ASSUME DOMAIN next' = Nodes, DOMAIN prev' = Nodes,
             count = 1 => head' = Null /\ tail' = Null,
             count > 1 => Linked(RemoveAt(c, k))'
      PROVE  \E d : Good(d)'
  <2>1. CASE count = 1
    BY <1>2, <1>4, <1>8, <2>1, LastGood
  <2>2. CASE count > 1
    BY <1>2, <1>4, <1>8, <2>2, UnlinkGood
  <2> QED
    BY <1>5, <2>1, <2>2
<1>9. CASE k = 1
  <2>1. /\ head' = (IF count = 1 THEN Null ELSE next[c[k]])
        /\ tail' = (IF count = 1 THEN Null ELSE tail)
        /\ prev' = SetAt(prev, next[c[k]], Null)
        /\ next' = [next EXCEPT ![c[k]] = Null]
    BY <1>2, <1>6, <1>9
  <2>2. /\ DOMAIN next' = Nodes /\ DOMAIN prev' = Nodes
        /\ \A j \in 1..Len(c) : j # k => next'[c[j]] = next[c[j]]
        /\ \A j \in 1..Len(c) : j # k =>
             prev'[c[j]] = IF j = k + 1 THEN prev[c[k]] ELSE prev[c[j]]
    BY <1>4, <1>9, <2>1, FrontUnlinked
  <2>3. ASSUME count > 1 PROVE Linked(RemoveAt(c, k))'
    <3>1. head' = next[c[k]] /\ tail' = tail /\ k # Len(c)
      BY <1>3, <1>9, <2>1, <2>3
    <3> QED
      BY <1>4, <1>7, <1>9, <2>2, <3>1, RemoveLink
  <2> QED
    BY <1>8, <2>1, <2>2, <2>3
<1>10. CASE k # 1 /\ k = Len(c)
  <2>1. /\ head' = (IF count = 1 THEN Null ELSE head)
        /\ tail' = (IF count = 1 THEN Null ELSE prev[c[k]])
        /\ next' = SetAt(next, prev[c[k]], Null)
        /\ prev' = [prev EXCEPT ![c[k]] = Null]
    BY <1>2, <1>6, <1>10
  <2>2. /\ DOMAIN next' = Nodes /\ DOMAIN prev' = Nodes
        /\ \A j \in 1..Len(c) : j # k =>
             next'[c[j]] = IF j = k - 1 THEN next[c[k]] ELSE next[c[j]]
        /\ \A j \in 1..Len(c) : j # k => prev'[c[j]] = prev[c[j]]
    BY <1>4, <1>10, <2>1, BackUnlinked
  <2>3. ASSUME count > 1 PROVE Linked(RemoveAt(c, k))'
    <3>1. head' = head /\ tail' = prev[c[k]] /\ \A j \in 1..Len(c) : j # k + 1
      BY <1>5, <1>7, <1>10, <2>1, <2>3
    <3> QED
      BY <1>4, <1>10, <2>2, <3>1, RemoveLink
  <2> QED
    BY <1>8, <2>1, <2>2, <2>3
<1>11. CASE k # 1 /\ k # Len(c)
  <2>1. /\ head' = (IF count = 1 THEN Null ELSE head)
        /\ tail' = (IF count = 1 THEN Null ELSE tail)
        /\ next' = [next EXCEPT ![prev[c[k]]] = next[c[k]], ![c[k]] = Null]
        /\ prev' = [prev EXCEPT ![next[c[k]]] = prev[c[k]], ![c[k]] = Null]
    BY <1>2, <1>6, <1>11
  <2>2. /\ DOMAIN next' = Nodes /\ DOMAIN prev' = Nodes
        /\ \A j \in 1..Len(c) : j # k =>
             next'[c[j]] = IF j = k - 1 THEN next[c[k]] ELSE next[c[j]]
        /\ \A j \in 1..Len(c) : j # k =>
             prev'[c[j]] = IF j = k + 1 THEN prev[c[k]] ELSE prev[c[j]]
    <3>1. k \in 1..Len(c) /\ k # 1 /\ k # Len(c)
      BY <1>4, <1>11
    <3>2. Joins(c[k])
      BY <2>1 DEF Joins
    <3> QED
      BY <3>1, <3>2, InnerUnlinked
  <2>3. ASSUME count > 1 PROVE Linked(RemoveAt(c, k))'
    <3>1. head' = head /\ tail' = tail
      BY <1>5, <2>1, <2>3
    <3> QED
      BY <1>4, <1>11, <2>2, <3>1, RemoveLink
  <2> QED
    BY <1>8, <2>1, <2>2, <2>3
<1> QED
  BY <1>9, <1>10, <1>11

\* The list is emptied; with a skewed cursor lost blocks may remain.
LEMMA ClearGood ==
  ASSUME NEW c, Good(c), clear
  PROVE  \E d : Good(d)'
<1> USE DEF Good
<1>1. Chain = c
  BY ChainIs
<1>2. /\ used' = used \ ToSet(c) /\ count' = 0 /\ sort_count' = 0
      /\ head' = Null /\ tail' = Null /\ content' = <<>> /\ reset_cur_node
      /\ UNCHANGED <<crashed, popped_last, skewed>> /\ Fields'
  BY <1>1 DEF clear, Fields
<1>3. ASSUME ~skewed PROVE used' = {}
  <2>1. \A n \in used : \E j \in 1..Len(c) : c[j] = n
    BY <1>3 DEF Sized
  <2>2. DOMAIN c = 1..Len(c)
    BY LenProperties DEF Linked
  <2> QED
    BY <1>2, <2>1, <2>2 DEF ToSet
<1>4. Good(<<>>)'
  BY <1>2, <1>3, EmptyGood
<1> QED
  BY <1>4

\* pop_of unlinks the node the cursor finds and leaves the cursor where it is, which
\* is exact only if it got there forwards.
LEMMA PopMiddleGood ==
  ASSUME NEW c, Good(c), NEW i, pop_middle(i)
  PROVE  \E d : Good(d)'
<1> USE DEF Good
<1> DEFINE a == Locate(i)
<1>1. /\ ~crashed /\ i \in 1..count - 1 /\ Deref(a) # Null /\ prev[Deref(a)] # Null
      /\ next[Deref(a)] # Null /\ Removes(Deref(a), i) /\ head' = head /\ tail' = tail
      /\ next' = [next EXCEPT ![prev[Deref(a)]] = next[Deref(a)], ![Deref(a)] = Null]
      /\ prev' = [prev EXCEPT ![next[Deref(a)]] = prev[Deref(a)], ![Deref(a)] = Null]
      /\ current' = a /\ cur_index' = i
      /\ skewed' = (skewed \/ a[1] = "prev")
  BY DEF pop_middle
<1>2. PICK k \in 2..Len(c) :
        /\ Deref(a) = c[k] /\ prev[c[k]] = c[k - 1]
        /\ Cell(c, a)
        /\ ~skewed => k = i + 1
        /\ \/ a = <<"next", c[k - 1]>>
           \/ k + 1 \in 1..Len(c) /\ a = <<"prev", c[k + 1]>>
  BY <1>1, Found
<1> HIDE DEF a
<1>3. Len(c) \in Nat /\ c \in Seq(Nodes) /\ count \in Nat
      /\ \A j \in 1..Len(c) : c[j] \in Nodes /\ c[j] # Null
  BY LinkedFacts DEF Linked, Sized
<1>4. k \in 1..Len(c) /\ k - 1 \in 1..Len(c) /\ k # 1
  BY <1>3
<1>5. next[c[k]] = IF k = Len(c) THEN Null ELSE c[k + 1]
  BY <1>4 DEF Linked
<1>6. k # Len(c) /\ next[c[k]] = c[k + 1]
  BY <1>1, <1>2, <1>5
<1>7. k + 1 \in 1..Len(c)
  BY <1>3, <1>4, <1>6
<1>8. /\ DOMAIN next' = Nodes /\ DOMAIN prev' = Nodes
      /\ \A j \in 1..Len(c) : j # k =>
           next'[c[j]] = IF j = k - 1 THEN next[c[k]] ELSE next[c[j]]
      /\ \A j \in 1..Len(c) : j # k =>
           prev'[c[j]] = IF j = k + 1 THEN prev[c[k]] ELSE prev[c[j]]
  <2>1. k \in 1..Len(c) /\ k # 1 /\ k # Len(c)
    BY <1>4, <1>6
  <2>2. Joins(c[k])
    BY <1>1, <1>2 DEF Joins
  <2> QED
    BY <2>1, <2>2, InnerUnlinked
<1> DEFINE d == RemoveAt(c, k)
<1>9. Linked(d)'
  BY <1>1, <1>4, <1>6, <1>8, RemoveLink
<1>10. /\ Len(d) = Len(c) - 1
       /\ \A j \in 1..Len(c) - 1 : d[j] = IF j < k THEN c[j] ELSE c[j + 1]
  <2>1. c \in Seq(Nodes)
    BY <1>3
  <2>2. k \in 1..Len(c)
    BY <1>4
  <2>3. /\ d \in Seq(Nodes) /\ Len(d) = Len(c) - 1
        /\ \A j \in 1..Len(c) - 1 : d[j] = IF j < k THEN c[j] ELSE c[j + 1]
    BY <2>1, <2>2, RemoveAtFacts
  <2> QED
    BY <2>3
<1> HIDE DEF d
<1>11. k - 1 \in 1..Len(d) /\ k \in 1..Len(d) /\ d[k - 1] = c[k - 1] /\ d[k] = c[k + 1]
  <2>1. k - 1 \in 1..Len(c) - 1 /\ k \in 1..Len(c) - 1 /\ k - 1 < k /\ ~(k < k)
    BY <1>3, <1>4, <1>7
  <2> QED
    BY <1>10, <2>1
<1>12. Placed(d)'
  <2>1. cur_index' \in Int /\ i \in Nat
    BY <1>1, <1>3
  <2>2. Cell(d, current)'
    <3>1. \E m \in 1..Len(d) : current' = <<"next", d[m]>> \/ current' = <<"prev", d[m]>>
      BY <1>1, <1>2, <1>11
    <3> QED
      BY <3>1 DEF Cell
  <2>3. ASSUME ~skewed' PROVE Exact(d)'
    <3>1. ~skewed /\ a[1] # "prev"
      BY <1>1, <2>3
    <3>2. a = <<"next", c[k - 1]>> /\ k = i + 1
      BY <1>2, <3>1, CellFacts
    <3>3. Deref(current)' = next'[c[k - 1]]
      BY <1>1, <3>2 DEF Deref
    <3>4. k - 1 # k
      BY <1>4
    <3>5. next'[c[k - 1]] = d[k]
      BY <1>4, <1>6, <1>8, <1>11, <3>4
    <3>6. Len(d) # 0 /\ i \in 0..Len(d) - 1
      BY <1>3, <1>10, <1>11, <2>1, <3>2
    <3> QED
      BY <1>1, <3>2, <3>3, <3>5, <3>6 DEF Exact
  <2> QED
    BY <2>1, <2>2, <2>3 DEF Placed
<1>13. ~skewed' => ~skewed /\ k = i + 1
  BY <1>1, <1>2
<1>14. i \in Nat /\ count > 1
  BY <1>1, <1>3
<1>15. Removes(c[k], i)
  BY <1>1, <1>2
<1>16. Good(d)'
  <2> HIDE DEF Good
  <2> QED
    BY <1>1, <1>4, <1>8, <1>9, <1>12, <1>13, <1>14, <1>15, RemoveGood DEF d
<1> QED
  BY <1>16

\* The reads.
LEMMA ReadGood ==
  ASSUME NEW c, Good(c),
         \/ \E i \in Nat : get_of(i) \/ scan(i)
         \/ get_next \/ get_prev \/ get_cycling_next
  PROVE  Good(c)'
<1> USE DEF Good
<1>1. /\ Len(c) \in Nat /\ count \in Nat /\ cur_index \in Int /\ Cell(c, current)
      /\ \A j \in 1..Len(c) : c[j] \in Nodes /\ c[j] # Null
  BY LinkedFacts DEF Sized, Placed
<1>2. ASSUME NEW i \in Nat, get_of(i) PROVE Good(c)'
  <2> DEFINE a == Locate(i)
  <2>1. i \in 0..count - 1 /\ a # Crash /\ Moves(a, i)
    BY <1>2 DEF get_of
  <2>2. Cell(c, a)
    BY <2>1, LocateCell
  <2>3. ASSUME ~skewed PROVE i \in 0..Len(c) - 1 /\ Deref(a) = c[i + 1]
    <3>1. i \in 0..Len(c) - 1
      BY <1>1, <2>1, <2>3 DEF Sized
    <3> QED
      BY <2>3, <3>1, LocateExact
  <2> HIDE DEF a, Good
  <2> QED
    BY <2>1, <2>2, <2>3, MovesKeep
<1>3. ASSUME NEW i \in Nat, scan(i) PROVE Good(c)'
  <2> DEFINE a == WalkFrom(HeadCell, "next", i)
  <2>1. i \in 0..Len(c) - 1 /\ Moves(a, i)
    BY <1>3, ChainIs DEF scan
  <2>2. At(c, HeadCell, 1)
    BY <1>1, CellFacts DEF At, Linked
  <2>3. a = Reached(c, HeadCell, "next", 1, 1 + i - 1, i)
    BY <2>2, WalkForward
  <2>4. 1 + i - 1 = i /\ 1 \in 1..Len(c) /\ i + 1 \in 1..Len(c)
    BY <1>1, <2>1
  <2> HIDE DEF a
  <2>5. CASE i = 0
    <3>1. a = HeadCell
      BY <2>3, <2>5 DEF Reached
    <3>2. Cell(c, a) /\ Deref(a) = c[i + 1]
      BY <1>1, <2>2, <2>4, <2>5, <3>1 DEF Cell, At
    <3> HIDE DEF Good
    <3> QED
      BY <2>1, <3>2, MovesKeep
  <2>6. CASE i # 0
    <3>1. i \in 1..Len(c) /\ i # Len(c)
      BY <1>1, <2>1, <2>6
    <3>2. a = <<"next", c[i]>>
      BY <2>3, <2>4, <2>6, <3>1 DEF Reached
    <3>3. next[c[i]] = c[i + 1]
      BY <3>1 DEF Linked
    <3>4. Cell(c, a) /\ Deref(a) = c[i + 1]
      BY <3>1, <3>2, <3>3, CellFacts DEF Cell
    <3> HIDE DEF Good
    <3> QED
      BY <2>1, <3>4, MovesKeep
  <2> QED
    BY <2>5, <2>6
<1>4. ASSUME NEW k \in 1..Len(c), Deref(current) = c[k]
      PROVE  /\ \A f \in {"next", "prev"} : Cell(c, <<f, c[k]>>)
             /\ ~skewed => k = cur_index + 1
             /\ next[c[k]] = IF k = Len(c) THEN Null ELSE c[k + 1]
             /\ prev[c[k]] = IF k = 1 THEN Null ELSE c[k - 1]
  <2>1. ASSUME ~skewed PROVE k = cur_index + 1
    <3>1. cur_index \in 0..Len(c) - 1 /\ Deref(current) = c[cur_index + 1]
      BY <1>1, <2>1 DEF Placed, Exact
    <3>2. cur_index + 1 \in 1..Len(c) /\ c[cur_index + 1] = c[k]
      BY <1>1, <1>4, <3>1
    <3> QED
      BY <3>2 DEF Linked
  <2> QED
    BY <2>1 DEF Cell, Linked
<1>5. ASSUME NEW k \in 1..Len(c), Deref(current) = c[k], next[c[k]] # Null,
             Moves(<<"next", c[k]>>, cur_index + 1)
      PROVE  Good(c)'
  <2>1. Cell(c, <<"next", c[k]>>) /\ (~skewed => k = cur_index + 1) /\ next[c[k]] = c[k + 1] /\ k # Len(c)
    BY <1>4, <1>5
  <2>2. cur_index + 1 \in Int
    BY <1>1
  <2>3. ASSUME ~skewed PROVE /\ cur_index + 1 \in 0..Len(c) - 1
                             /\ Deref(<<"next", c[k]>>) = c[(cur_index + 1) + 1]
    <3>1. k = cur_index + 1
      BY <2>1, <2>3
    <3>2. cur_index + 1 \in 0..Len(c) - 1
      BY <1>1, <2>1, <3>1
    <3> QED
      BY <2>1, <3>1, <3>2, CellFacts
  <2> HIDE DEF Good
  <2> QED
    BY <1>5, <2>1, <2>2, <2>3, MovesKeep
<1>6. CASE get_next
  <2>1. PICK k \in 1..Len(c) : Deref(current) = c[k]
    BY <1>1, <1>6, CellHolds DEF get_next
  <2> QED
    BY <1>5, <1>6, <2>1 DEF get_next
<1>7. CASE get_prev
  <2>1. PICK k \in 1..Len(c) : Deref(current) = c[k]
    BY <1>1, <1>7, CellHolds DEF get_prev
  <2>2. prev[c[k]] # Null /\ Moves(<<"prev", c[k]>>, cur_index - 1)
    BY <1>7, <2>1 DEF get_prev
  <2>3. Cell(c, <<"prev", c[k]>>) /\ (~skewed => k = cur_index + 1) /\ prev[c[k]] = c[k - 1] /\ k # 1
    BY <1>4, <2>1, <2>2
  <2>4. cur_index - 1 \in Int
    BY <1>1
  <2>5. ASSUME ~skewed PROVE /\ cur_index - 1 \in 0..Len(c) - 1
                             /\ Deref(<<"prev", c[k]>>) = c[(cur_index - 1) + 1]
    <3>1. k = cur_index + 1
      BY <2>3, <2>5
    <3>2. cur_index - 1 \in 0..Len(c) - 1 /\ (cur_index - 1) + 1 = k - 1
      BY <1>1, <2>3, <3>1
    <3> QED
      BY <2>3, <3>2, CellFacts
  <2> HIDE DEF Good
  <2> QED
    BY <2>2, <2>3, <2>4, <2>5, MovesKeep
<1>8. CASE get_cycling_next
  <2>1. PICK k \in 1..Len(c) : Deref(current) = c[k]
    BY <1>1, <1>8, CellHolds DEF get_cycling_next
  <2>2. CASE next[c[k]] = Null
    <3>1. Moves(HeadCell, 0)
      BY <1>8, <2>1, <2>2 DEF get_cycling_next
    <3>2. Len(c) # 0 /\ 0 \in 0..Len(c) - 1
      BY <1>1, <2>1
    <3>3. Cell(c, HeadCell) /\ Deref(HeadCell) = c[0 + 1]
      BY <1>1, <3>2, CellFacts DEF Cell, Linked
    <3> HIDE DEF Good
    <3> QED
      BY <3>1, <3>2, <3>3, MovesKeep
  <2>3. CASE next[c[k]] # Null
    BY <1>5, <1>8, <2>1, <2>3 DEF get_cycling_next
  <2> QED
    BY <2>2, <2>3
<1> QED
  BY <1>2, <1>3, <1>6, <1>7, <1>8

\* llist_sort moves data, never nodes.
LEMMA SortGood ==
  ASSUME NEW c, Good(c), sort
  PROVE  Good(c)'
<1> USE DEF Good
<1>1. /\ ~is_sort /\ sort_count + count <= MaxSort /\ sort_count' = sort_count + count
      /\ DOMAIN data' = Nodes
      /\ UNCHANGED <<head, tail, next, prev, used, count, current, cur_index, crashed,
                     skewed, popped_last>>
  BY DEF sort, chain, cursor
<1>2. Linked(c)' /\ Fields' /\ CrashesExplained'
  BY <1>1 DEF Linked, Fields, CrashesExplained
<1>3. Sized(c)'
  BY <1>1 DEF Sized
<1>4. Placed(c)'
  BY <1>1 DEF Placed, Cell, HeadCell, Exact, Deref
<1>5. Holds(c)'
  <2> SUFFICES ASSUME ~skewed
               PROVE  /\ content' \in Seq(Values) /\ Len(content') = Len(c)
                      /\ \A j \in 1..Len(c) : data'[c[j]] = content'[j]
    BY <1>1 DEF Holds
  <2>1. PICK n \in Nat : n = count
    BY DEF Sized
  <2>2. Chain = c /\ Len(c) = n /\ DOMAIN c = 1..n
    BY <2>1, ChainIs, LenProperties DEF Sized, Linked
  <2>3. /\ content \in [1..n -> Values] /\ Len(content) = n
        /\ \A j \in 1..n : data[c[j]] = content[j]
    <3>1. content \in Seq(Values) /\ Len(content) = n
          /\ \A j \in 1..n : data[c[j]] = content[j]
      BY <2>2 DEF Holds
    <3> QED
      BY <3>1, LenProperties
  <2>4. content \in [1..n -> Nat]
    BY <2>3, ListAssumption
  <2>5. content = [j \in 1..Len(Chain) |-> data[Chain[j]]]
    BY <2>2, <2>3
  <2>6. PICK t : t = Sort(content)
    OBVIOUS
  <2>7. t \in Reorderings(content) /\ Settled(t, n, 0)
    BY <2>1, <2>4, <2>6, SortSorts
  <2>8. content' = t
    <3>1. content' = Ordered(content)
      BY DEF sort
    <3> QED
      BY <2>4, <2>7, <3>1, OrderedIs
  <2>9. t \in [1..n -> Values]
    <3>1. PICK p \in Bijection(1..n, 1..n) : InOrder(t, content, p, n)
      BY <2>4, <2>7, ReorderingHas
    <3>2. p \in [1..n -> 1..n] /\ t \in [1..n -> Nat]
      BY <2>4, <2>7, ReorderingHas, Fun_BijectionProperties
    <3>3. \A i \in 1..n : t[i] = content[p[i]] /\ p[i] \in 1..n
      BY <3>1, <3>2 DEF InOrder
    <3> QED
      BY <2>3, <3>2, <3>3
  <2>10. t \in Seq(Values) /\ Len(t) = n
    BY <2>9, SeqDef, LenProperties
  <2>11. ASSUME NEW j \in 1..n PROVE data'[c[j]] = t[j]
    <3>1. c[j] \in Nodes /\ c[j] \in ToSet(c)
      BY <2>2, LinkedFacts DEF ToSet
    <3>2. data'[c[j]] = Sort(content)[CHOOSE i \in 1..Len(c) : c[i] = c[j]]
      BY <2>2, <2>5, <3>1 DEF sort
    <3>3. (CHOOSE i \in 1..Len(c) : c[i] = c[j]) = j
      BY <2>2 DEF Linked
    <3> QED
      BY <2>6, <3>2, <3>3
  <2> QED
    BY <2>2, <2>8, <2>10, <2>11
<1> QED
  BY <1>2, <1>3, <1>4, <1>5

----------------------------------------------------------------------------
(* The theorems.                                                           *)

\* Every call keeps the invariant.
LEMMA ListStep == ListInv /\ [Next]_vars => ListInv'
<1> SUFFICES ASSUME NEW c, Good(c), [Next]_vars PROVE \E d : Good(d)'
  BY DEF ListInv
<1>1. 0..Cardinality(Nodes) \subseteq Nat
  OBVIOUS
<1>2. ASSUME NEW n \in Nodes, NEW v \in Values,
             push_empty(n, v) \/ push_front(n, v) \/ push_back(n, v)
      PROVE  \E d : Good(d)'
  BY <1>2, PushGood
<1>3. ASSUME NEW n \in Nodes, NEW v \in Values, NEW i, push_middle(n, i, v)
      PROVE  \E d : Good(d)'
  BY <1>3, PushMiddleGood
<1>4. ASSUME NEW n \in Nodes, NEW v \in Values, NEW i, push_lost(n, i, v)
      PROVE  \E d : Good(d)'
  BY <1>4, PushLostGood
<1>5. ASSUME NEW i, push_crashes(i) \/ pop_crashes(i) \/ get_crashes(i)
      PROVE  \E d : Good(d)'
  BY <1>5, CrashesGood
<1>6. ASSUME NEW i, pop_middle(i) PROVE \E d : Good(d)'
  BY <1>6, PopMiddleGood
<1>7. ASSUME NEW i, pop_nothing(i) PROVE \E d : Good(d)'
  BY <1>7, PopNothingGood
<1>8. ASSUME NEW i \in Nat, remove_node(i) PROVE \E d : Good(d)'
  BY <1>8, RemoveNodeGood
<1>9. ASSUME NEW i \in Nat, get_of(i) \/ scan(i) PROVE \E d : Good(d)'
  BY <1>9, ReadGood
<1>10. CASE get_next \/ get_prev \/ get_cycling_next
  BY <1>10, ReadGood
<1>11. CASE pop_front \/ pop_back
  BY <1>11, PopEndGood
<1>12. CASE clear
  BY <1>12, ClearGood
<1>13. CASE sort
  BY <1>13, SortGood
<1>14. CASE UNCHANGED vars
  <2>1. UNCHANGED <<head, tail, next, prev, data, used, count, sort_count, current,
                    cur_index, crashed, content, skewed, popped_last>>
    BY <1>14 DEF vars, chain, cursor, ghosts
  <2>2. Linked(c)' /\ Sized(c)' /\ Holds(c)' /\ Fields' /\ CrashesExplained'
    BY <2>1 DEF Good, Linked, Sized, Holds, Fields, CrashesExplained
  <2>3. Placed(c)'
    BY <2>1 DEF Good, Placed, Cell, HeadCell, Exact, Deref
  <2> QED
    BY <2>2, <2>3 DEF Good
<1> QED
  BY <1>1, <1>2, <1>3, <1>4, <1>5, <1>6, <1>7, <1>8, <1>9, <1>10, <1>11, <1>12, <1>13,
     <1>14 DEF Next

LEMMA ListAlways == Spec => []ListInv
<1>1. Init => ListInv
  BY ListInit
<1>2. ListInv /\ [Next]_vars => ListInv'
  BY ListStep
<1> QED
  BY <1>1, <1>2, PTL DEF Spec

LEMMA LinkedChain == ListInv => ChainLinked
<1> SUFFICES ASSUME NEW c, Good(c), ~skewed
             PROVE  /\ Len(Chain) = count /\ ToSet(Chain) = used
                    /\ head = (IF count = 0 THEN Null ELSE Chain[1])
                    /\ tail = (IF count = 0 THEN Null ELSE Chain[count])
                    /\ \A j \in 1..count :
                         prev[Chain[j]] = IF j = 1 THEN Null ELSE Chain[j - 1]
  BY DEF ListInv, ChainLinked
<1>1. Chain = c /\ Len(c) = count
  BY ChainIs DEF Good, Sized
<1>2. DOMAIN c = 1..Len(c)
  BY LenProperties DEF Good, Linked
<1>3. ToSet(c) = used
  BY <1>2 DEF Good, Sized, ToSet
<1> QED
  BY <1>1, <1>3 DEF Good, Linked

\* However calls are mixed, the list of llist.c is linked in both directions, its
\* size is the number of its nodes and it loses none of them, until an index was
\* resolved with a skewed cursor: also for lists that are sorted.
THEOREM ListLinked == Spec => []ChainLinked
<1>1. ListInv => ChainLinked
  BY LinkedChain
<1> QED
  BY <1>1, ListAlways, PTL

\* list->current never points into a freed node, and cur_index is the index of the
\* node it reads until a node was linked or unlinked under it in the middle.
THEOREM CursorIsSound == Spec => []CursorSound
<1>1. ASSUME ListInv PROVE CursorLive
  <2>1. PICK c : Good(c)
    BY <1>1 DEF ListInv
  <2>2. current = HeadCell \/ \E j \in 1..Len(c) : current[2] = c[j]
    BY <2>1 DEF Good, Placed, Cell
  <2> QED
    BY <2>1, <2>2 DEF Good, Sized, CursorLive
<1>2. ASSUME ListInv PROVE CursorExact
  <2>1. PICK c : Good(c)
    BY <1>2 DEF ListInv
  <2>2. Chain = c
    BY <2>1, ChainIs DEF Good
  <2>3. ~skewed => Len(c) = count
    BY <2>1 DEF Good, Sized
  <2> QED
    BY <2>1, <2>2, <2>3 DEF Good, Placed, Exact, CursorExact
<1>3. ListInv => CursorSound
  BY <1>1, <1>2 DEF CursorSound
<1> QED
  BY <1>3, ListAlways, PTL

\* A call with an accepted index dereferences a null pointer only with a skewed
\* cursor, or as pop_of(size - 1), which does not treat the last index as the tail.
THEOREM CrashesAreExplained == Spec => []CrashesExplained
<1>1. ListInv => CrashesExplained
  BY DEF ListInv, Good
<1> QED
  BY <1>1, ListAlways, PTL

\* Under every mix of pushes, pops, removals, clears, reads and sorts the list stays
\* linked both ways and holds what was put in, in order; after llist_sort, the one
\* ordered sequence of the same elements.
THEOREM ListIntact == Spec => []ChainIntact
<1>1. ASSUME ListInv PROVE ContentKept
  <2> SUFFICES ASSUME NEW c, Good(c), ~skewed
               PROVE  [j \in 1..Len(Chain) |-> data[Chain[j]]] = content
    BY <1>1 DEF ListInv, ContentKept
  <2>1. Chain = c
    BY ChainIs DEF Good
  <2>2. content \in Seq(Values) /\ Len(content) = Len(c)
        /\ \A j \in 1..Len(c) : data[c[j]] = content[j]
    BY DEF Good, Holds
  <2>3. content = [j \in 1..Len(content) |-> content[j]]
    BY <2>2
  <2>4. [j \in 1..Len(c) |-> data[c[j]]] = [j \in 1..Len(c) |-> content[j]]
    BY <2>2
  <2> QED
    BY <2>1, <2>2, <2>3, <2>4
<1>2. ListInv => ChainIntact
  BY <1>1, LinkedChain DEF ChainIntact
<1> QED
  BY <1>2, ListAlways, PTL
=============================================================================
