--------------------------- MODULE ServicesProofs ---------------------------
(***************************************************************************)
(* Proofs about the logger of syslog.c, the event server and the spin lock,*)
(* for any number of blocks, messages, clients, adds, threads and objects. *)
(***************************************************************************)
EXTENDS MCServices, SequenceTheorems, TLAPS

(***************************************************************************)
(* The logger.                                                             *)
(***************************************************************************)

\* Messages are numbers, and the worker has at most one of them in its hand.
LogTyped ==
  /\ lg_free \in Nat /\ lg_prints \in Nat
  /\ lg_list \in Seq(Nat) /\ lg_hand \in Seq(Nat)
  /\ lg_written \in Seq(Nat) /\ lg_handed \in Seq(Nat) /\ lg_accepted \in Seq(Nat)
  /\ lg_hand # <<>> => Len(lg_hand) = 1

\* Popping the oldest message of the queue into an empty hand leaves the
\* concatenation as it is.
LEMMA PopKeeps ==
  ASSUME NEW S, NEW w \in Seq(S), NEW q \in Seq(S), q # <<>>
  PROVE  /\ <<Head(q)>> \in Seq(S) /\ Len(<<Head(q)>>) = 1
         /\ Tail(q) \in Seq(S) /\ Len(Tail(q)) = Len(q) - 1
         /\ (w \o <<Head(q)>>) \o Tail(q) = (w \o <<>>) \o q
<1>1. /\ Head(q) \in S /\ Tail(q) \in Seq(S) /\ Len(Tail(q)) = Len(q) - 1
      /\ <<Head(q)>> \in Seq(S) /\ Len(<<Head(q)>>) = 1
  BY HeadTailProperties
<1>2. <<Head(q)>> \o Tail(q) = q
  <2>1. q = SubSeq(q, 1, Len(q)) /\ Len(q) \in Nat \ {0}
    BY SubSeqFull, EmptySeq
  <2>2. SubSeq(q, 1, Len(q)) = <<q[1]>> \o SubSeq(q, 2, Len(q))
    BY <2>1, SubSeqRecursiveFirst
  <2>3. q[1] = Head(q) /\ SubSeq(q, 2, Len(q)) = Tail(q)
    BY TailIsSubSeq
  <2> QED
    BY <2>1, <2>2, <2>3
<1>3. (w \o <<Head(q)>>) \o Tail(q) = w \o (<<Head(q)>> \o Tail(q))
  BY <1>1, ConcatAssociative
<1>4. w \o <<>> = w
  BY ConcatEmptySeq
<1> QED
  BY <1>1, <1>2, <1>3, <1>4

\* A message appended to the queue is appended to the concatenation.
LEMMA AppendKeeps ==
  ASSUME NEW S, NEW w \in Seq(S), NEW q \in Seq(S), NEW e \in S
  PROVE  /\ Append(q, e) \in Seq(S) /\ Len(Append(q, e)) = Len(q) + 1
         /\ w \o Append(q, e) = Append(w \o q, e)
         /\ Append(w \o q, e) \in Seq(S)
<1>1. /\ Append(q, e) \in Seq(S) /\ Len(Append(q, e)) = Len(q) + 1
      /\ Append(q, e) = q \o <<e>> /\ <<e>> \in Seq(S)
  BY AppendProperties, AppendIsConcat
<1>2. w \o q \in Seq(S)
  BY ConcatProperties
<1>3. Append(w \o q, e) = (w \o q) \o <<e>> /\ Append(w \o q, e) \in Seq(S)
  BY <1>2, AppendProperties, AppendIsConcat
<1>4. (w \o q) \o <<e>> = w \o (q \o <<e>>)
  BY <1>1, ConcatAssociative
<1> QED
  BY <1>1, <1>3, <1>4

\* The numbers of s grow, and all of w are among the first n of a.
Growing(s) == \A i, j \in DOMAIN s : i < j => s[i] < s[j]
Among(w, a, n) == \A i \in 1..Len(w) : \E k \in 1..n : w[i] = a[k]

\* The four parts of LogFaithful.
LogOrder == lg_handed \o lg_hand \o lg_list = lg_accepted
LogSorted == Growing(lg_written)
LogWhole == ~lg_spoilt => lg_written = lg_handed
LogBlocks == lg_free + Len(lg_hand) + Len(lg_list) = MaxMessages

\* The numbers of the queued messages grow, and what is in the file was among the
\* messages handed to write.
LogNumbers ==
  /\ \A i \in 1..Len(lg_accepted) : lg_accepted[i] <= lg_prints
  /\ Growing(lg_accepted) /\ Among(lg_written, lg_accepted, Len(lg_handed))

LogInv == LogTyped /\ LogOrder /\ LogSorted /\ LogWhole /\ LogBlocks /\ LogNumbers

\* The invariant of the proof gives the property.
LEMMA LogParts == LogInv => LogFaithful
  BY DEF LogInv, LogFaithful, Log!LogFaithful, LogOrder, LogSorted, Growing, LogWhole, LogBlocks

\* A message with the next number keeps the numbers growing.
LEMMA NumbersGrow ==
  ASSUME NEW a \in Seq(Nat), NEW m \in Nat, Growing(a), \A i \in 1..Len(a) : a[i] <= m
  PROVE  /\ \A i \in 1..Len(Append(a, m + 1)) : Append(a, m + 1)[i] <= m + 1
         /\ Growing(Append(a, m + 1))
         /\ \A i \in 1..Len(a) : Append(a, m + 1)[i] = a[i]
<1>1. PICK n \in Nat : n = Len(a)
  BY LenProperties
<1>2. PICK b : b = Append(a, m + 1)
  OBVIOUS
<1>3. /\ Len(b) = n + 1 /\ b[n + 1] = m + 1 /\ DOMAIN b = 1..(n + 1) /\ DOMAIN a = 1..n
      /\ \A i \in 1..n : b[i] = a[i] /\ a[i] \in Nat
  BY <1>1, <1>2, LenProperties, AppendProperties, ElementOfSeq
<1>4. \A i \in 1..Len(b) : b[i] <= m + 1
  BY <1>1, <1>3
<1>5. ASSUME NEW i \in 1..(n + 1), NEW j \in 1..(n + 1), i < j PROVE b[i] < b[j]
  <2>1. i \in 1..n /\ a[i] \in Nat /\ a[i] <= m /\ b[i] = a[i]
    BY <1>1, <1>3, <1>5
  <2>2. CASE j = n + 1
    BY <1>3, <2>1, <2>2
  <2>3. CASE j \in 1..n
    BY <1>3, <1>5, <2>1, <2>3 DEF Growing
  <2> QED
    BY <2>2, <2>3
<1>6. Growing(b)
  BY <1>3, <1>5 DEF Growing
<1> QED
  BY <1>1, <1>2, <1>3, <1>4, <1>6

\* What a sequence is with one more element at its end.
LEMMA OneMore ==
  ASSUME NEW s \in Seq(Nat), NEW e \in Seq(Nat), Len(e) = 1
  PROVE  /\ s \o e \in Seq(Nat) /\ Len(s \o e) = Len(s) + 1 /\ (s \o e)[Len(s) + 1] = e[1]
         /\ \A i \in 1..Len(s) : (s \o e)[i] = s[i]
<1>1. PICK n \in Nat : n = Len(s)
  BY LenProperties
<1>2. /\ s \o e \in Seq(Nat) /\ Len(s \o e) = n + 1
      /\ \A i \in 1..(n + 1) : (s \o e)[i] = IF i <= n THEN s[i] ELSE e[i - n]
  <2>1. /\ s \o e \in Seq(Nat) /\ Len(s \o e) = Len(s) + Len(e)
        /\ \A i \in 1..(Len(s) + Len(e)) :
             (s \o e)[i] = IF i <= Len(s) THEN s[i] ELSE e[i - Len(s)]
    BY ConcatProperties
  <2> QED
    BY ONLY <1>1, <2>1, Len(e) = 1
<1>3. (s \o e)[n + 1] = e[1] /\ \A i \in 1..n : (s \o e)[i] = s[i]
  BY ONLY <1>2, n \in Nat
<1> QED
  BY <1>1, <1>2, <1>3

\* A concatenation begins with its first part.
LEMMA PrefixKept ==
  ASSUME NEW g \in Seq(Nat), NEW q \in Seq(Nat)
  PROVE  /\ Len(g \o q) = Len(g) + Len(q)
         /\ \A i \in 1..Len(g) : (g \o q)[i] = g[i]
<1>1. PICK n \in Nat : n = Len(g)
  BY LenProperties
<1>2. PICK l \in Nat : l = Len(q)
  BY LenProperties
<1>3. /\ Len(g \o q) = n + l
      /\ \A i \in 1..(n + l) : (g \o q)[i] = IF i <= n THEN g[i] ELSE q[i - n]
  <2>1. /\ Len(g \o q) = Len(g) + Len(q)
        /\ \A i \in 1..(Len(g) + Len(q)) :
             (g \o q)[i] = IF i <= Len(g) THEN g[i] ELSE q[i - Len(g)]
    BY ConcatProperties
  <2> QED
    BY ONLY <1>1, <1>2, <2>1
<1>4. \A i \in 1..n : (g \o q)[i] = g[i]
  BY ONLY <1>3, n \in Nat, l \in Nat
<1> QED
  BY <1>1, <1>2, <1>3, <1>4

\* Handing on the one message e, which is the next of the growing numbers a, keeps
\* the file sorted and made of what was handed on.
LEMMA FileGrows ==
  ASSUME NEW w \in Seq(Nat), NEW h \in Seq(Nat), NEW q \in Seq(Nat), NEW e \in Seq(Nat),
         NEW a \in Seq(Nat), (h \o e) \o q = a, Len(e) = 1,
         Growing(a), Growing(w), Among(w, a, Len(h))
  PROVE  w \o e \in Seq(Nat) /\ Growing(w \o e) /\ Among(w \o e, a, Len(h \o e))
<1>1. PICK n \in Nat : n = Len(h)
  BY LenProperties
<1>2. PICK l \in Nat : l = Len(w)
  BY LenProperties
<1>v. PICK v : v = w \o e
  OBVIOUS
<1>g. PICK g : g = h \o e
  OBVIOUS
<1>3. /\ v \in Seq(Nat) /\ Len(v) = l + 1 /\ v[l + 1] = e[1]
      /\ \A i \in 1..l : v[i] = w[i]
  <2>1. /\ w \o e \in Seq(Nat) /\ Len(w \o e) = Len(w) + 1 /\ (w \o e)[Len(w) + 1] = e[1]
        /\ \A i \in 1..Len(w) : (w \o e)[i] = w[i]
    BY OneMore
  <2> QED
    BY ONLY <1>2, <1>v, <2>1
<1>4. g \in Seq(Nat) /\ Len(g) = n + 1 /\ g[n + 1] = e[1]
  <2>1. h \o e \in Seq(Nat) /\ Len(h \o e) = Len(h) + 1 /\ (h \o e)[Len(h) + 1] = e[1]
    BY OneMore
  <2> QED
    BY ONLY <1>1, <1>g, <2>1
<1>5. PICK r \in Nat : r = Len(q)
  BY LenProperties
<1>6. Len(a) = n + 1 + r /\ a[n + 1] = e[1]
  <2>1. Len(g \o q) = Len(g) + Len(q) /\ \A i \in 1..Len(g) : (g \o q)[i] = g[i]
    BY <1>4, PrefixKept
  <2>2. n + 1 \in 1..Len(g)
    BY <1>4
  <2> QED
    BY <1>4, <1>5, <1>g, <2>1, <2>2
<1>7. DOMAIN w = 1..l /\ DOMAIN v = 1..(l + 1) /\ DOMAIN a = 1..(n + 1 + r)
  BY <1>2, <1>3, <1>6, LenProperties
<1>8. ASSUME NEW i \in 1..l PROVE w[i] < a[n + 1]
  <2>1. PICK k \in 1..n : w[i] = a[k]
    BY <1>1, <1>2 DEF Among
  <2>2. k \in 1..(n + 1 + r) /\ n + 1 \in 1..(n + 1 + r) /\ k < n + 1
    OBVIOUS
  <2> QED
    BY <1>7, <2>1, <2>2 DEF Growing
<1>9. Growing(v)
  <2> SUFFICES ASSUME NEW i \in 1..(l + 1), NEW j \in 1..(l + 1), i < j PROVE v[i] < v[j]
    BY <1>7 DEF Growing
  <2>1. i \in 1..l /\ v[i] = w[i]
    BY <1>3
  <2>2. CASE j = l + 1
    BY <1>3, <1>6, <1>8, <2>1, <2>2
  <2>3. CASE j \in 1..l
    BY <1>3, <1>7, <2>1, <2>3 DEF Growing
  <2> QED
    BY <2>2, <2>3
<1>10. Among(v, a, n + 1)
  <2> SUFFICES ASSUME NEW i \in 1..(l + 1) PROVE \E k \in 1..(n + 1) : v[i] = a[k]
    BY <1>3 DEF Among
  <2>1. CASE i \in 1..l
    <3>1. PICK k \in 1..n : w[i] = a[k]
      BY <1>1, <1>2, <2>1 DEF Among
    <3>2. k \in 1..(n + 1)
      OBVIOUS
    <3> QED
      BY <1>3, <2>1, <3>1, <3>2
  <2>2. CASE i = l + 1
    BY <1>3, <1>6, <2>2
  <2> QED
    BY <2>1, <2>2
<1> QED
  BY <1>3, <1>4, <1>9, <1>10, <1>v, <1>g

LEMMA LogStep == LogInv /\ [Log!Next]_lgVars => LogInv'
<1> SUFFICES ASSUME LogInv, [Log!Next]_lgVars PROVE LogInv'
  OBVIOUS
<1>0. /\ LogTyped /\ LogOrder /\ LogSorted /\ LogWhole /\ LogBlocks /\ LogNumbers
      /\ Len(lg_hand) \in Nat /\ Len(lg_list) \in Nat /\ Len(<<>>) = 0
  BY LenProperties DEF LogInv, LogTyped
<1> USE DEF LogInv, Log!file
<1>1. CASE UNCHANGED lgVars
  BY <1>0, <1>1 DEF lgVars, LogTyped, LogOrder, LogSorted, LogWhole, LogBlocks, LogNumbers
<1>2. CASE Log!Accept
  <2> DEFINE w == lg_handed \o lg_hand
             e == lg_prints + 1
             b == Append(lg_accepted, e)
  <2>1. w \in Seq(Nat) /\ e \in Nat /\ lg_list \in Seq(Nat) /\ lg_accepted \in Seq(Nat)
    BY <1>0, ConcatProperties DEF LogTyped
  <2>2. /\ Append(lg_list, e) \in Seq(Nat) /\ Len(Append(lg_list, e)) = Len(lg_list) + 1
        /\ w \o Append(lg_list, e) = Append(w \o lg_list, e)
        /\ Append(w \o lg_list, e) \in Seq(Nat)
    <3> HIDE DEF w, e
    <3> QED
      BY <2>1, AppendKeeps
  <2>3. /\ lg_list' = Append(lg_list, e) /\ lg_accepted' = b /\ lg_prints' = e
        /\ w \o lg_list = lg_accepted /\ (lg_handed \o lg_hand)' = w
        /\ lg_free' = lg_free - 1 /\ lg_free' \in Nat /\ lg_prints' \in Nat
        /\ UNCHANGED <<lg_hand, lg_written, lg_handed, lg_spoilt>>
    BY <1>0, <1>2 DEF Log!Accept, LogOrder, LogTyped
  <2>4. /\ \A i \in 1..Len(b) : b[i] <= e
        /\ Growing(b)
        /\ \A i \in 1..Len(lg_accepted) : b[i] = lg_accepted[i]
    BY <1>0, <2>1, NumbersGrow DEF LogNumbers, LogTyped
  <2>5. \A k \in 1..Len(lg_handed) : k \in 1..Len(lg_accepted)
    <3>1. Len(w) = Len(lg_handed) + Len(lg_hand) /\ Len(w \o lg_list) = Len(w) + Len(lg_list)
      BY <1>0, <2>1, ConcatProperties DEF LogTyped
    <3>2. Len(lg_handed) \in Nat
      BY <1>0, LenProperties DEF LogTyped
    <3> QED
      BY <1>0, <2>3, <3>1, <3>2
  <2> HIDE DEF w, e, b
  <2>6. LogOrder' /\ LogSorted' /\ LogWhole'
    BY <1>0, <2>2, <2>3 DEF LogOrder, LogSorted, LogWhole, b
  <2>7. LogBlocks'
    BY <1>0, <2>2, <2>3 DEF LogBlocks, LogTyped
  <2>8. LogNumbers'
    BY <1>0, <2>3, <2>4, <2>5 DEF LogNumbers, Among
  <2> QED
    BY <1>0, <2>2, <2>3, <2>6, <2>7, <2>8 DEF LogTyped, b
<1>3. CASE Log!PrintDropped
  <2>1. /\ lg_prints' = lg_prints + 1
        /\ UNCHANGED <<lg_free, lg_list, lg_hand, lg_written, lg_handed, lg_spoilt, lg_accepted>>
    BY <1>3 DEF Log!PrintDropped
  <2>2. LogNumbers'
    <3>1. \A i \in 1..Len(lg_accepted) : lg_accepted[i] <= lg_prints + 1
      BY <1>0, ElementOfSeq DEF LogNumbers, LogTyped
    <3> QED
      BY <1>0, <2>1, <3>1 DEF LogNumbers
  <2> QED
    BY <1>0, <2>1, <2>2 DEF LogTyped, LogOrder, LogSorted, LogWhole, LogBlocks
<1>4. CASE Log!Enter \/ Log!Open \/ Log!OpenFails \/ Log!Close \/ Log!Delete
  <2>1. UNCHANGED <<lg_free, lg_list, lg_hand, lg_written, lg_handed, lg_spoilt, lg_accepted,
                    lg_prints>>
    BY <1>4 DEF Log!Enter, Log!Open, Log!OpenFails, Log!Close, Log!Delete
  <2> QED
    BY <1>0, <2>1 DEF LogTyped, LogOrder, LogSorted, LogWhole, LogBlocks, LogNumbers
<1>5. CASE Log!Pop
  <2>1. /\ lg_list # <<>> /\ lg_hand = <<>> /\ lg_list \in Seq(Nat) /\ lg_handed \in Seq(Nat)
        /\ lg_hand' = <<Head(lg_list)>> /\ lg_list' = Tail(lg_list)
        /\ UNCHANGED <<lg_free, lg_written, lg_handed, lg_spoilt, lg_accepted, lg_prints>>
    BY <1>0, <1>5 DEF Log!Pop, LogTyped
  <2>2. /\ lg_hand' \in Seq(Nat) /\ Len(lg_hand') = 1
        /\ lg_list' \in Seq(Nat) /\ Len(lg_list') = Len(lg_list) - 1
        /\ (lg_handed \o lg_hand') \o lg_list' = (lg_handed \o <<>>) \o lg_list
    BY <2>1, PopKeeps
  <2>3. LogOrder'
    BY <1>0, <2>1, <2>2 DEF LogOrder
  <2>4. LogBlocks'
    BY <1>0, <2>1, <2>2 DEF LogBlocks, LogTyped
  <2>5. LogSorted' /\ LogWhole' /\ LogNumbers'
    BY <1>0, <2>1 DEF LogSorted, LogWhole, LogNumbers
  <2> QED
    BY <1>0, <2>1, <2>2, <2>3, <2>4, <2>5 DEF LogTyped
<1>6. CASE Log!Write \/ Log!WriteFails
  <2>1. /\ lg_handed' = lg_handed \o lg_hand /\ lg_hand' = <<>> /\ lg_free' = lg_free + 1
        /\ UNCHANGED <<lg_list, lg_accepted, lg_prints>> /\ Len(lg_hand) = 1
        /\ \/ lg_written' = lg_written \o lg_hand /\ lg_spoilt' = lg_spoilt
           \/ lg_written' = lg_written /\ lg_spoilt'
    BY <1>0, <1>6 DEF Log!Write, Log!WriteFails, Log!PassOn, LogTyped
  <2>2. /\ lg_handed' \in Seq(Nat) /\ lg_handed' \o <<>> = lg_handed \o lg_hand
        /\ Len(lg_handed') = Len(lg_handed) + 1 /\ Len(lg_handed) \in Nat
    <3>1. /\ lg_handed \o lg_hand \in Seq(Nat)
          /\ Len(lg_handed \o lg_hand) = Len(lg_handed) + 1 /\ Len(lg_handed) \in Nat
      BY <1>0, <2>1, OneMore, LenProperties DEF LogTyped
    <3> QED
      BY <2>1, <3>1, ConcatEmptySeq
  <2>3. LogOrder' /\ LogWhole'
    BY <1>0, <2>1, <2>2 DEF LogOrder, LogWhole
  <2>4. LogBlocks'
    BY <1>0, <2>1 DEF LogBlocks, LogTyped
  <2>5. lg_written' \in Seq(Nat) /\ LogSorted' /\ LogNumbers'
    <3>1. CASE lg_written' = lg_written \o lg_hand
      <4>1. /\ lg_written \o lg_hand \in Seq(Nat) /\ Growing(lg_written \o lg_hand)
            /\ Among(lg_written \o lg_hand, lg_accepted, Len(lg_handed \o lg_hand))
        BY <1>0, <2>1, FileGrows DEF LogTyped, LogOrder, LogSorted, LogNumbers
      <4> QED
        BY <1>0, <2>1, <3>1, <4>1 DEF LogSorted, LogNumbers
    <3>2. CASE lg_written' = lg_written
      <4>1. \A k \in 1..Len(lg_handed) : k \in 1..Len(lg_handed')
        BY <2>2
      <4> QED
        BY <1>0, <2>1, <3>2, <4>1 DEF LogTyped, LogSorted, LogNumbers, Among
    <3> QED
      BY <2>1, <3>1, <3>2
  <2> QED
    BY <1>0, <2>1, <2>2, <2>3, <2>4, <2>5, EmptySeq DEF LogTyped
<1> QED
  BY <1>1, <1>2, <1>3, <1>4, <1>5, <1>6 DEF Log!Next, Log!Worker

\* syslog.c hands every message that was queued to write(2) once and in order,
\* whatever that returns; its files hold no message twice or out of order and,
\* until a write fails, all of them; and no block of message_buffer_pool is lost.
THEOREM LogIsFaithful == Log!Spec => []LogFaithful
<1>1. Log!Init => LogInv
  <2> SUFFICES ASSUME Log!Init PROVE LogInv
    OBVIOUS
  <2>1. <<>> \in Seq(Nat) /\ Len(<<>>) = 0 /\ DOMAIN <<>> = 1..0 /\ <<>> \o <<>> = <<>>
    BY EmptySeq, ConcatEmptySeq, LenProperties
  <2> QED
    BY <2>1, ServicesAssumption
    DEF Log!Init, LogInv, LogTyped, LogOrder, LogSorted, LogWhole, LogBlocks, LogNumbers,
        Growing, Among
<1> QED
  BY <1>1, LogStep, LogParts, PTL DEF Log!Spec, Log!vars, lgVars

(***************************************************************************)
(* The event server.                                                       *)
(***************************************************************************)

LEMMA DivisionUnique ==
  ASSUME NEW n \in Nat \ {0}, NEW p \in Int, NEW q \in Int,
         NEW r \in 0..(n - 1), NEW s \in 0..(n - 1), n * p + r = n * q + s
  PROVE  r = s
<1>1. n * (p - q) = s - r
  OBVIOUS
<1>2. CASE p - q >= 1
  <2>1. n * (p - q) >= n
    BY <1>2
  <2> QED
    BY <1>1, <2>1
<1>3. CASE p - q <= -1
  <2>1. n * (p - q) <= -n
    BY <1>3
  <2> QED
    BY <1>1, <2>1
<1>4. CASE p = q
  BY <1>1, <1>4
<1> QED
  BY <1>2, <1>3, <1>4

\* Adding a multiple of n changes nothing modulo n.
LEMMA ModShift ==
  ASSUME NEW n \in Nat \ {0}, NEW a \in Int, NEW k \in Int
  PROVE  (a + n * k) % n = a % n
<1> DEFINE b == a + n * k
           p == b \div n
           q == (a \div n) + k
           r == b % n
           s == a % n
<1>1. a \div n \in Int /\ s \in 0..(n - 1) /\ a = n * (a \div n) + s
  OBVIOUS
<1>2. p \in Int /\ r \in 0..(n - 1) /\ b = n * p + r
  OBVIOUS
<1>3. q \in Int /\ b = n * q + s
  BY <1>1
<1> HIDE DEF p, q, r, s, b
<1>4. r = s
  BY <1>1, <1>2, <1>3, DivisionUnique
<1> QED
  BY <1>4 DEF r, s, b

\* The cast to int32_t takes whole multiples of 2^32 away.
LEMMA CastShift ==
  ASSUME NEW v \in Int
  PROVE  \E k \in Int : ES!int32(v) = v + IntMod * k
<1> DEFINE w == v % IntMod
           q == v \div IntMod
<1>1. q \in Int /\ w \in Int /\ v = IntMod * q + w
  BY ServicesAssumption
<1>2. w = v + IntMod * (-q) /\ w - IntMod = v + IntMod * (-q - 1)
  BY <1>1, ServicesAssumption
<1>3. -q \in Int /\ -q - 1 \in Int
  BY <1>1
<1>4. ES!int32(v) = w \/ ES!int32(v) = w - IntMod
  BY DEF ES!int32
<1> HIDE DEF w, q
<1> QED
  BY <1>2, <1>3, <1>4

\* By how much what is delivered, in the task's hand and in the counter exceeds
\* what was put in.
Drift == es_delivered + es_value + es_counter - (es_config.init_val + es_added)
WholeTurns(d) == \E k \in Int : d = IntMod * k

\* The task has a value in its hand only between its read and its callback.
EventTyped ==
  /\ es_config.init_val \in Int
  /\ es_delivered \in Int /\ es_value \in Int /\ es_counter \in Int /\ es_added \in Int
  /\ es_truncated \in BOOLEAN
  /\ es_arg \in [Clients -> Int]
  /\ es_poll # "call" => es_value = 0

\* Until a value is truncated the sum is exact; afterwards it is off by whole
\* turns of an int32_t.
EventInv ==
  EventTyped /\ WholeTurns(Drift) /\ (~es_truncated => Drift = 0)

LEMMA EventStep == EventInv /\ [ES!Next]_esVars => EventInv'
<1> SUFFICES ASSUME EventInv, [ES!Next]_esVars PROVE EventInv'
  OBVIOUS
<1>0. EventTyped /\ WholeTurns(Drift) /\ (~es_truncated => Drift = 0) /\ IntMod \in Int
  BY ServicesAssumption DEF EventInv
\* A step that keeps the sum and es_truncated keeps the invariant.
<1>a. ASSUME EventTyped', Drift' = Drift, es_truncated' = es_truncated PROVE EventInv'
  <2>1. WholeTurns(Drift') /\ (~es_truncated' => Drift' = 0)
    BY <1>0, <1>a
  <2> QED
    BY <1>a, <2>1 DEF EventInv, WholeTurns
<1> USE DEF EventTyped, Drift, ES!events, ES!passing
<1>1. CASE UNCHANGED esVars
  BY <1>0, <1>1, <1>a DEF esVars
<1>2. CASE ES!start \/ ES!delete \/ ES!poll \/ ES!accept \/ ES!ack_timeout
  BY <1>0, <1>2, <1>a DEF ES!start, ES!delete, ES!poll, ES!accept, ES!ack_timeout
<1>3. CASE ES!read
  BY <1>0, <1>3, <1>a DEF ES!read
<1>4. CASE ES!on_read
  <2>1. PICK k \in Int : ES!int32(es_value) = es_value + IntMod * k
    BY <1>0, CastShift
  <2>2. PICK j \in Int : Drift = IntMod * j
    BY <1>0 DEF WholeTurns
  <2>3. /\ es_delivered' = es_delivered + ES!int32(es_value)
        /\ es_truncated' = (es_truncated \/ ES!int32(es_value) # es_value)
        /\ es_value' = 0 /\ es_poll' = "poll"
        /\ UNCHANGED <<es_config, es_counter, es_added, es_arg>>
    BY <1>4 DEF ES!on_read
  <2>4. ES!int32(es_value) \in Int
    BY <1>0, <2>1
  <2>5. EventTyped'
    BY <1>0, <2>3, <2>4
  <2>6. Drift' = Drift + (ES!int32(es_value) - es_value)
    BY <1>0, <2>3, <2>4
  <2>7. WholeTurns(Drift)'
    <3>1. j + k \in Int /\ Drift' = IntMod * (j + k)
      BY <1>0, <2>1, <2>2, <2>6
    <3> QED
      BY <3>1 DEF WholeTurns
  <2>8. ~es_truncated' => Drift' = 0
    <3>1. ~es_truncated' => ~es_truncated /\ ES!int32(es_value) = es_value
      BY <2>3, Zenon
    <3> QED
      BY <1>0, <2>4, <2>6, <3>1
  <2> QED
    BY <2>5, <2>7, <2>8 DEF EventInv
<1>5. ASSUME NEW c \in Clients,
             ES!attach(c) \/ ES!connect(c) \/ ES!connect_fails(c) \/ ES!acknowledge(c)
      PROVE  EventInv'
  BY <1>0, <1>5, <1>a DEF ES!attach, ES!connect, ES!connect_fails, ES!acknowledge
<1>6. ASSUME NEW c \in Clients, ES!write(c) PROVE EventInv'
  BY <1>0, <1>6, <1>a DEF ES!write
<1>7. ASSUME NEW c \in Clients, ES!write_fails(c) PROVE EventInv'
  BY <1>0, <1>7, <1>a DEF ES!write_fails
<1>8. ASSUME NEW c \in Clients, NEW n \in {1, IntMod}, ES!add_count(c, n) PROVE EventInv'
  BY <1>0, <1>8, <1>a DEF ES!add_count
<1> QED
  BY <1>1, <1>2, <1>3, <1>4, <1>5, <1>6, <1>7, <1>8 DEF ES!Next, ES!Poll, ES!Reply

\* What on_read of event_server.c is given accounts for every successful add,
\* for any clients, any sizes of counter and int32_t and any interleaving.
THEOREM CountIsDelivered == ES!Spec => []CountDelivered
<1>1. ES!Init => EventInv
  <2> SUFFICES ASSUME ES!Init PROVE EventInv
    OBVIOUS
  <2>1. /\ es_config.init_val = 1 /\ es_counter = 1 /\ es_poll = "poll"
        /\ es_value = 0 /\ es_delivered = 0 /\ es_added = 0
        /\ es_arg \in [Clients -> Int]
    BY DEF ES!Init
  <2>2. es_truncated \in BOOLEAN
    BY DEF ES!Init
  <2>3. Drift = 0
    BY <2>1 DEF Drift
  <2>4. EventTyped
    BY <2>1, <2>2 DEF EventTyped
  <2>5. WholeTurns(0)
    BY ServicesAssumption DEF WholeTurns
  <2> QED
    BY <2>3, <2>4, <2>5 DEF EventInv
<1>2. EventInv => CountDelivered
  <2> SUFFICES ASSUME EventInv PROVE CountDelivered
    OBVIOUS
  <2> DEFINE got == es_delivered + es_value + es_counter
             put == es_config.init_val + es_added
  <2>1. got \in Int /\ put \in Int /\ Drift = got - put /\ (~es_truncated => got = put)
    BY DEF EventInv, EventTyped, Drift
  <2>2. PICK k \in Int : Drift = IntMod * k
    BY DEF EventInv, WholeTurns
  <2> HIDE DEF got, put
  <2>3. got = put + IntMod * k
    BY <2>1, <2>2, ServicesAssumption
  <2>4. got % IntMod = put % IntMod
    BY <2>1, <2>3, ModShift, ServicesAssumption
  <2> QED
    BY <2>1, <2>4 DEF got, put, CountDelivered, ES!CountDelivered
<1> QED
  BY <1>1, <1>2, EventStep, PTL DEF ES!Spec, ES!vars, esVars
(***************************************************************************)
(* The spin lock.  As long as no exchange has failed, spin_down is 0, so   *)
(* are the register copies about to be used, and the lock words say who is *)
(* inside.                                                                 *)
(***************************************************************************)

\* spin_down and the copies of it that are about to be used are intact.
ExpectationsIntact ==
  /\ spin_down = 0
  /\ \A t \in Threads : /\ pc[t] # "store"
                        /\ pc[t] \in {"cas", "write"} => expect[t] = 0

\* At most one thread is busy with an object.
OneCaller ==
  \A t, u \in Threads :
    (pc[t] # "idle" /\ pc[u] # "idle" /\ obj[t] = obj[u]) => t = u

SpinInv ==
  /\ TypeOK
  /\ ~failed => ExpectationsIntact /\ LockTracksHolder
  /\ serialised => OneCaller /\ ~failed

LEMMA SpinInit == Init => SpinInv
<1> SUFFICES ASSUME Init PROVE SpinInv
  OBVIOUS
<1>1. TypeOK
  BY DEF Init, TypeOK
<1>2. ExpectationsIntact /\ OneCaller
  BY DEF Init, ExpectationsIntact, OneCaller
<1>3. LockTracksHolder
  <2>1. \A o \in Objects : Inside(o) = {} /\ spinlock[o] = 0
    BY DEF Init, Inside
  <2> QED
    BY <2>1 DEF LockTracksHolder
<1>4. ~failed
  BY DEF Init
<1> QED
  BY <1>1, <1>2, <1>3, <1>4 DEF SpinInv

LEMMA SpinTypeStep == TypeOK /\ [Next]_vars => TypeOK'
<1> SUFFICES ASSUME TypeOK, [Next]_vars PROVE TypeOK'
  OBVIOUS
<1> USE DEF TypeOK
<1>1. ASSUME NEW t \in Threads, NEW o \in Objects, Call(t, o) PROVE TypeOK'
  BY <1>1 DEF Call
<1>2. ASSUME NEW t \in Threads, Step(t) PROVE TypeOK'
  <2>1. CASE ReadLock(t)
    BY <2>1 DEF ReadLock
  <2>2. CASE LoadExpected(t)
    BY <2>2 DEF LoadExpected
  <2>3. CASE Exchange(t)
    BY <2>3 DEF Exchange, spin_up
  <2>4. CASE ExchangeFails(t)
    BY <2>4 DEF ExchangeFails
  <2>5. CASE StoreExpected(t)
    BY <2>5 DEF StoreExpected
  <2>6. CASE LoadUnlockValue(t)
    BY <2>6 DEF LoadUnlockValue
  <2>7. CASE Unlock(t)
    BY <2>7 DEF Unlock
  <2> QED
    BY <1>2, <2>1, <2>2, <2>3, <2>4, <2>5, <2>6, <2>7 DEF Step
<1>3. CASE UNCHANGED vars
  BY <1>3 DEF vars
<1> QED
  BY <1>1, <1>2, <1>3 DEF Next

\* Until an exchange fails, no step disturbs spin_down or the lock words.
LEMMA SpinIntact ==
  ASSUME TypeOK, ExpectationsIntact, LockTracksHolder, [Next]_vars, ~failed'
  PROVE  ExpectationsIntact' /\ LockTracksHolder'
<1> USE DEF TypeOK, ExpectationsIntact, LockTracksHolder, Inside
<1>1. ASSUME NEW t \in Threads, NEW o \in Objects, Call(t, o)
      PROVE  ExpectationsIntact' /\ LockTracksHolder'
  BY <1>1 DEF Call
<1>2. ASSUME NEW t \in Threads, Step(t)
      PROVE  ExpectationsIntact' /\ LockTracksHolder'
  <2>1. CASE ReadLock(t)
    BY <2>1 DEF ReadLock
  <2>2. CASE LoadExpected(t)
    BY <2>2 DEF LoadExpected
  <2>3. CASE Exchange(t)
    BY <2>3 DEF Exchange, spin_up
  <2>4. CASE ExchangeFails(t)
    BY <2>4 DEF ExchangeFails
  <2>5. CASE StoreExpected(t)
    BY <2>5 DEF StoreExpected
  <2>6. CASE LoadUnlockValue(t)
    BY <2>6 DEF LoadUnlockValue
  <2>7. CASE Unlock(t)
    BY <2>7 DEF Unlock
  <2> QED
    BY <1>2, <2>1, <2>2, <2>3, <2>4, <2>5, <2>6, <2>7 DEF Step
<1>3. CASE UNCHANGED vars
  BY <1>3 DEF vars
<1> QED
  BY <1>1, <1>2, <1>3 DEF Next

\* With one caller per object the exchange finds the lock word it expects.
LEMMA SpinSerialised ==
  ASSUME TypeOK, ExpectationsIntact, LockTracksHolder, serialised, OneCaller, ~failed,
         [Next]_vars
  PROVE  OneCaller' /\ ~failed'
<1>1. ASSUME NEW t \in Threads, NEW o \in Objects, Call(t, o)
      PROVE  OneCaller' /\ ~failed'
  BY <1>1 DEF Call, OneCaller, Busy, TypeOK
<1>2. ASSUME NEW t \in Threads, Step(t) PROVE OneCaller' /\ ~failed'
  <2>1. CASE ReadLock(t)
    BY <2>1 DEF ReadLock, OneCaller, TypeOK
  <2>2. CASE LoadExpected(t)
    BY <2>2 DEF LoadExpected, OneCaller, TypeOK
  <2>3. CASE Exchange(t)
    BY <2>3 DEF Exchange, OneCaller, TypeOK
  <2>4. CASE ExchangeFails(t)
    <3>1. Inside(obj[t]) = {}
      BY <2>4 DEF ExchangeFails, OneCaller, Inside, TypeOK
    <3>2. spinlock[obj[t]] = 0
      BY <3>1 DEF LockTracksHolder, TypeOK
    <3>3. expect[t] = 0
      BY <2>4 DEF ExchangeFails, ExpectationsIntact
    <3> QED
      BY <2>4, <3>2, <3>3 DEF ExchangeFails
  <2>5. CASE StoreExpected(t)
    BY <2>5 DEF StoreExpected, OneCaller, TypeOK
  <2>6. CASE LoadUnlockValue(t)
    BY <2>6 DEF LoadUnlockValue, OneCaller, TypeOK
  <2>7. CASE Unlock(t)
    BY <2>7 DEF Unlock, OneCaller, TypeOK
  <2> QED
    BY <1>2, <2>1, <2>2, <2>3, <2>4, <2>5, <2>6, <2>7 DEF Step
<1>3. CASE UNCHANGED vars
  BY <1>3 DEF vars, OneCaller
<1> QED
  BY <1>1, <1>2, <1>3 DEF Next

LEMMA FailedStays == [Next]_vars /\ failed => failed'
BY DEF Next, Step, Call, ReadLock, LoadExpected, Exchange, ExchangeFails, StoreExpected,
   LoadUnlockValue, Unlock, vars

LEMMA SpinStep == SpinInv /\ [Next]_vars => SpinInv'
<1> SUFFICES ASSUME SpinInv, [Next]_vars PROVE SpinInv'
  OBVIOUS
<1>1. TypeOK'
  BY SpinTypeStep DEF SpinInv
<1>2. ASSUME ~failed' PROVE ExpectationsIntact' /\ LockTracksHolder'
  <2>1. ~failed
    BY <1>2, FailedStays
  <2> QED
    BY <1>2, <2>1, SpinIntact DEF SpinInv
<1>3. serialised' = serialised
  BY DEF Next, Step, Call, ReadLock, LoadExpected, Exchange, ExchangeFails,
     StoreExpected, LoadUnlockValue, Unlock, vars
<1>4. ASSUME serialised' PROVE OneCaller' /\ ~failed'
  BY <1>3, <1>4, SpinSerialised DEF SpinInv
<1> QED
  BY <1>1, <1>2, <1>4 DEF SpinInv, TypeOK

\* The lock words, registers and counters keep their types.
THEOREM SpinTyped == Spec => []TypeOK
<1>1. SpinInv => TypeOK
  BY DEF SpinInv
<1> QED
  BY <1>1, SpinInit, SpinStep, PTL DEF Spec

\* The lock excludes until a compare-exchange fails for the first time.
THEOREM LockSoundUntilFailure == Spec => []SafeUntilFirstFailure
<1>1. SpinInv => SafeUntilFirstFailure
  BY DEF SpinInv, SafeUntilFirstFailure
<1> QED
  BY <1>1, SpinInit, SpinStep, PTL DEF Spec

\* If the callers of each object exclude one another no exchange ever fails,
\* whatever the users of other objects do with the shared spin_down.
THEOREM SerialisedNeverFails == Spec => []NeverFails
<1>1. SpinInv => NeverFails
  BY DEF SpinInv, NeverFails
<1> QED
  BY <1>1, SpinInit, SpinStep, PTL DEF Spec
=============================================================================
