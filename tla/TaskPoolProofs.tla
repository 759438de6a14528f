--------------------------- MODULE TaskPoolProofs ---------------------------
(***************************************************************************)
(* Proofs about module TaskPool, for any number of workers, clients, tasks *)
(* and blocks.  The list is kept newest first, so the order of the tasks   *)
(* is that of their numbers, and a task once fetched is older than all of  *)
(* the list.                                                               *)
(***************************************************************************)
EXTENDS TaskPool, SequenceTheorems, FiniteSetTheorems, TLAPS

\* The numbers of s are in lo+1..hi, the largest first.
Descending(s, lo, hi) ==
  /\ \A i \in 1..Len(s) : lo < s[i] /\ s[i] <= hi
  /\ \A i, j \in 1..Len(s) : i < j => s[j] < s[i]

PoolTyped ==
  /\ task_list \in Seq(Tasks)
  /\ added \in 0..MaxTasks
  /\ free_blocks \in Nat /\ remain_taskpool \in Nat /\ lost \in Nat
  /\ adding \subseteq Clients
  /\ wpc = [w \in Workers |-> wpc[w]]
  /\ wtask = [w \in Workers |-> wtask[w]]

\* Whatever a worker runs is no younger than the last task fetched, and
\* whatever is listed is younger.
PoolOrder ==
  ~get_task_cycling =>
    /\ last \in 0..added
    /\ Descending(task_list, last, added)
    /\ \A w \in Workers : wtask[w] \in 0..last
    /\ \A v, w \in Workers : (wtask[v] = wtask[w] /\ wtask[v] # NoTask) => v = w

----------------------------------------------------------------------------
(* The list operations.                                                    *)

\* cplus_llist_push_front
LEMMA PushFront ==
  ASSUME NEW S, NEW s \in Seq(S), NEW x \in S
  PROVE  /\ <<x>> \o s \in Seq(S)
         /\ Len(<<x>> \o s) = Len(s) + 1
         /\ (<<x>> \o s)[1] = x
         /\ \A i \in 2..Len(s) + 1 : (<<x>> \o s)[i] = s[i - 1]
<1>1. <<x>> \in Seq(S) /\ Len(<<x>>) = 1 /\ <<x>>[1] = x
  OBVIOUS
<1>2. /\ <<x>> \o s \in Seq(S)
      /\ Len(<<x>> \o s) = 1 + Len(s)
      /\ \A i \in 1..1 + Len(s) : (<<x>> \o s)[i] = IF i <= 1 THEN <<x>>[i] ELSE s[i - 1]
  BY <1>1, ConcatProperties
<1>3. Len(s) \in Nat
  BY LenProperties
<1> QED
  BY <1>1, <1>2, <1>3

\* cplus_llist_pop_back
LEMMA PopBack ==
  ASSUME NEW S, NEW s \in Seq(S), s # <<>>
  PROVE  /\ Front(s) \in Seq(S)
         /\ Len(Front(s)) = Len(s) - 1
         /\ \A i \in 1..Len(s) - 1 : Front(s)[i] = s[i]
         /\ Len(s) \in Nat \ {0} /\ Last(s) = s[Len(s)] /\ Last(s) \in S
<1>1. Len(s) \in Nat \ {0}
  BY EmptySeq, LenProperties
<1>2. \A i \in 1..Len(s) : s[i] \in S
  BY ElementOfSeq
<1>3. \A i \in 1..Len(s) - 1 : s[i] \in S
  BY <1>1, <1>2
<1> DEFINE f == SubSeq(s, 1, Len(s) - 1)
<1>4. /\ f \in Seq(S)
      /\ Len(f) = IF 1 <= Len(s) - 1 THEN (Len(s) - 1) - 1 + 1 ELSE 0
      /\ \A i \in 1..(Len(s) - 1) - 1 + 1 : f[i] = s[1 + i - 1]
  BY <1>1, <1>3, SubSeqProperties
<1>5. Front(s) = f /\ Last(s) = s[Len(s)]
  BY DEF Front, Last
<1> HIDE DEF f
<1>6. Len(f) = Len(s) - 1 /\ \A i \in 1..Len(s) - 1 : f[i] = s[i]
  <2>1. Len(f) = Len(s) - 1
    <3>1. Len(f) = IF 1 <= Len(s) - 1 THEN (Len(s) - 1) - 1 + 1 ELSE 0
      BY <1>4
    <3>2. PICK n \in Nat \ {0} : n = Len(s)
      BY <1>1
    <3>3. (IF 1 <= n - 1 THEN (n - 1) - 1 + 1 ELSE 0) = n - 1
      OBVIOUS
    <3> QED
      BY <3>1, <3>2, <3>3
  <2>2. ASSUME NEW i \in 1..Len(s) - 1 PROVE f[i] = s[i]
    <3>1. i \in 1..(Len(s) - 1) - 1 + 1 /\ 1 + i - 1 = i
      BY <1>1
    <3>2. f[i] = s[1 + i - 1]
      BY <1>4, <3>1
    <3> QED
      BY <3>1, <3>2
  <2> QED
    BY <2>1, <2>2
<1>7. s[Len(s)] \in S
  BY <1>1, <1>2
<1> QED
  BY <1>1, <1>4, <1>5, <1>6, <1>7

\* cplus_llist_pop_if
LEMMA PopIf ==
  ASSUME NEW S, NEW s \in Seq(S), NEW k \in 1..Len(s)
  PROVE  /\ RemoveAt(s, k) \in Seq(S)
         /\ Len(RemoveAt(s, k)) = Len(s) - 1
         /\ \A i \in 1..Len(s) - 1 :
              RemoveAt(s, k)[i] = IF i < k THEN s[i] ELSE s[i + 1]
<1> DEFINE a == SubSeq(s, 1, k - 1)
           b == SubSeq(s, k + 1, Len(s))
<1>1. Len(s) \in Nat /\ \A i \in 1..Len(s) : s[i] \in S
  BY ElementOfSeq, LenProperties
<1>2. /\ a \in Seq(S)
      /\ Len(a) = IF 1 <= k - 1 THEN k - 1 - 1 + 1 ELSE 0
      /\ \A i \in 1..k - 1 - 1 + 1 : a[i] = s[1 + i - 1]
  <2>1. \A i \in 1..k - 1 : s[i] \in S
    BY <1>1
  <2> QED
    BY <1>1, <2>1, SubSeqProperties
<1>3. /\ b \in Seq(S)
      /\ Len(b) = IF k + 1 <= Len(s) THEN Len(s) - (k + 1) + 1 ELSE 0
      /\ \A i \in 1..Len(s) - (k + 1) + 1 : b[i] = s[k + 1 + i - 1]
  <2>1. \A i \in k + 1..Len(s) : s[i] \in S
    BY <1>1
  <2> QED
    BY <1>1, <2>1, SubSeqProperties
<1> HIDE DEF a, b
<1>4. /\ a \o b \in Seq(S)
      /\ Len(a \o b) = Len(a) + Len(b)
      /\ \A i \in 1..Len(a) + Len(b) :
           (a \o b)[i] = IF i <= Len(a) THEN a[i] ELSE b[i - Len(a)]
  BY <1>2, <1>3, ConcatProperties
<1>5. Len(a) = k - 1 /\ Len(b) = Len(s) - k
  BY <1>1, <1>2, <1>3
<1>6. \A i \in 1..Len(s) - 1 : (a \o b)[i] = IF i < k THEN s[i] ELSE s[i + 1]
  <2> SUFFICES ASSUME NEW i \in 1..Len(s) - 1
               PROVE  (a \o b)[i] = IF i < k THEN s[i] ELSE s[i + 1]
    OBVIOUS
  <2>1. CASE i < k
    <3>1. (a \o b)[i] = a[i] /\ a[i] = s[i]
      BY <1>1, <1>2, <1>4, <1>5, <2>1
    <3> QED
      BY <2>1, <3>1
  <2>2. CASE ~(i < k)
    <3>1. (a \o b)[i] = b[i - (k - 1)]
      BY <1>1, <1>4, <1>5, <2>2
    <3>2. i - (k - 1) \in 1..Len(s) - (k + 1) + 1
      BY <1>1, <2>2
    <3>3. b[i - (k - 1)] = s[k + 1 + (i - (k - 1)) - 1]
      BY <1>3, <3>2
    <3>4. k + 1 + (i - (k - 1)) - 1 = i + 1
      BY <1>1, <2>2
    <3> QED
      BY <2>2, <3>1, <3>3, <3>4
  <2> QED
    BY <2>1, <2>2
<1>7. RemoveAt(s, k) = a \o b
  BY DEF RemoveAt, a, b
<1>8. Len(a \o b) = Len(s) - 1
  BY <1>1, <1>4, <1>5
<1> DEFINE c == a \o b
<1> HIDE DEF c
<1>9. c \in Seq(S) /\ Len(c) = Len(s) - 1 /\ RemoveAt(s, k) = c
      /\ \A i \in 1..Len(s) - 1 : c[i] = IF i < k THEN s[i] ELSE s[i + 1]
  BY <1>4, <1>6, <1>7, <1>8 DEF c
<1> QED
  BY <1>9

LEMMA DescendingPush ==
  ASSUME NEW s \in Seq(Nat), NEW lo \in Nat, NEW hi \in Nat, lo <= hi,
         Descending(s, lo, hi)
  PROVE  Descending(<<hi + 1>> \o s, lo, hi + 1)
<1> DEFINE t == <<hi + 1>> \o s
<1>1. /\ Len(t) = Len(s) + 1 /\ t[1] = hi + 1
      /\ \A i \in 2..Len(s) + 1 : t[i] = s[i - 1]
  BY PushFront, hi + 1 \in Nat
<1>2. Len(s) \in Nat /\ \A i \in 1..Len(s) : s[i] \in Nat
  BY ElementOfSeq, LenProperties
<1> HIDE DEF t
<1>3. ASSUME NEW i \in 1..Len(t) PROVE lo < t[i] /\ t[i] <= hi + 1
  <2>1. CASE i = 1
    BY <1>1, <2>1
  <2>2. CASE i # 1
    <3>1. i - 1 \in 1..Len(s) /\ t[i] = s[i - 1]
      BY <1>1, <1>2, <2>2
    <3> QED
      BY <1>2, <3>1 DEF Descending
  <2> QED
    BY <2>1, <2>2
<1>4. ASSUME NEW i \in 1..Len(t), NEW j \in 1..Len(t), i < j PROVE t[j] < t[i]
  <2>1. j - 1 \in 1..Len(s) /\ t[j] = s[j - 1]
    BY <1>1, <1>2, <1>4
  <2>2. CASE i = 1
    BY <1>1, <1>2, <2>1, <2>2 DEF Descending
  <2>3. CASE i # 1
    <3>1. i - 1 \in 1..Len(s) /\ t[i] = s[i - 1] /\ i - 1 < j - 1
      BY <1>1, <1>2, <1>4, <2>3
    <3> QED
      BY <2>1, <3>1 DEF Descending
  <2> QED
    BY <2>2, <2>3
<1> QED
  BY <1>3, <1>4 DEF Descending, t

LEMMA DescendingPop ==
  ASSUME NEW s \in Seq(Nat), NEW lo \in Nat, NEW hi \in Nat, s # <<>>,
         Descending(s, lo, hi)
  PROVE  Descending(Front(s), Last(s), hi) /\ lo < Last(s) /\ Last(s) <= hi
<1>1. /\ Len(Front(s)) = Len(s) - 1
      /\ \A i \in 1..Len(s) - 1 : Front(s)[i] = s[i]
      /\ Len(s) \in Nat \ {0} /\ Last(s) = s[Len(s)]
  BY PopBack
<1>2. \A i \in 1..Len(s) : s[i] \in Nat
  BY ElementOfSeq
<1> QED
  BY <1>1, <1>2 DEF Descending

LEMMA DescendingRemove ==
  ASSUME NEW s \in Seq(Nat), NEW lo \in Nat, NEW hi \in Nat, NEW k \in 1..Len(s),
         Descending(s, lo, hi)
  PROVE  Descending(RemoveAt(s, k), lo, hi)
<1> DEFINE t == RemoveAt(s, k)
<1>1. /\ Len(t) = Len(s) - 1
      /\ \A i \in 1..Len(s) - 1 : t[i] = IF i < k THEN s[i] ELSE s[i + 1]
  BY PopIf
<1>2. Len(s) \in Nat
  BY LenProperties
<1> HIDE DEF t
<1>3. ASSUME NEW i \in 1..Len(t)
      PROVE  \E a \in 1..Len(s) : t[i] = s[a] /\ a = IF i < k THEN i ELSE i + 1
  BY <1>1, <1>2
<1>4. ASSUME NEW i \in 1..Len(t) PROVE lo < t[i] /\ t[i] <= hi
  BY <1>3, <1>4 DEF Descending
<1>5. ASSUME NEW i \in 1..Len(t), NEW j \in 1..Len(t), i < j PROVE t[j] < t[i]
  <2>1. PICK a \in 1..Len(s) : t[i] = s[a] /\ a = IF i < k THEN i ELSE i + 1
    BY <1>3
  <2>2. PICK b \in 1..Len(s) : t[j] = s[b] /\ b = IF j < k THEN j ELSE j + 1
    BY <1>3
  <2>3. a < b
    BY <1>1, <1>2, <1>5, <2>1, <2>2
  <2> QED
    BY <2>1, <2>2, <2>3 DEF Descending
<1> QED
  BY <1>4, <1>5 DEF Descending, t

----------------------------------------------------------------------------
(* The steps.                                                              *)

LEMMA PoolSteps ==
  ASSUME Next
  PROVE  \/ \E c \in Clients : add_task(c)
         \/ \E c \in Clients : add_fails(c)
         \/ \E c \in Clients : add_push(c)
         \/ \E w \in Workers : worker_exits(w)
         \/ \E w \in Workers : worker_goes_on(w)
         \/ \E w \in Workers : worker_begins(w)
         \/ \E w \in Workers : worker_waits(w)
         \/ \E w \in Workers : worker_times_out(w)
         \/ \E w \in Workers : worker_fetches(w)
         \/ \E w \in Workers : worker_cycles(w)
         \/ \E w \in Workers : worker_finds_nothing(w)
         \/ \E w \in Workers : worker_runs(w)
         \/ \E w \in Workers : grow(w)
         \/ \E w \in Workers : shrink(w)
         \/ \E w \in Workers : cancel(w)
         \/ \E w \in Workers : delete_stop(w)
         \/ \E k \in Tasks : remove_task(k)
         \/ clear_task \/ shrunk \/ delete \/ deleted \/ remove_nothing
         \/ \E b \in BOOLEAN : all_pause(b)
BY DEF Next, Worker

LEMMA PoolTypedInit == Init => PoolTyped
<1> SUFFICES ASSUME Init PROVE PoolTyped
  OBVIOUS
<1>1. <<>> \in Seq(Tasks)
  BY EmptySeq
<1>2. wpc = [w \in Workers |-> wpc[w]] /\ wtask = [w \in Workers |-> wtask[w]]
  BY DEF Init
<1> QED
  BY <1>1, <1>2, TaskPoolAssumption DEF Init, PoolTyped
LEMMA PoolTypedStep ==
  ASSUME PoolTyped, [Next]_vars
  PROVE  PoolTyped'
<1> USE DEF PoolTyped, Goto, queue, workers, control, settings
<1>a. Len(task_list) \in Nat
  BY LenProperties
<1>b. <<>> \in Seq(Tasks)
  BY EmptySeq
<1>1. ASSUME NEW c \in Clients, add_task(c) PROVE PoolTyped'
  <2>1. added + 1 \in Tasks
    BY <1>1, TaskPoolAssumption DEF add_task, Tasks
  <2>2. task_list' \in Seq(Tasks)
    BY <1>1, <2>1, PushFront DEF add_task
  <2>3. added' \in 0..MaxTasks /\ free_blocks' \in Nat
    BY <1>1, TaskPoolAssumption DEF add_task
  <2> QED
    BY <1>1, <2>2, <2>3 DEF add_task
<1>2. ASSUME NEW c \in Clients, add_fails(c) PROVE PoolTyped'
  BY <1>2, TaskPoolAssumption DEF add_fails
<1>3. ASSUME NEW c \in Clients, add_push(c) PROVE PoolTyped'
  BY <1>3 DEF add_push
<1>4. ASSUME NEW w \in Workers, worker_exits(w) PROVE PoolTyped'
  BY <1>4 DEF worker_exits
<1>5. ASSUME NEW w \in Workers, worker_goes_on(w) PROVE PoolTyped'
  BY <1>5 DEF worker_goes_on
<1>6. ASSUME NEW w \in Workers, worker_begins(w) PROVE PoolTyped'
  BY <1>6 DEF worker_begins
<1>7. ASSUME NEW w \in Workers, worker_waits(w) PROVE PoolTyped'
  <2>1. wpc' = [v \in Workers |-> wpc'[v]]
    BY <1>7 DEF worker_waits
  <2>2. remain_taskpool' \in Nat
    BY <1>7 DEF worker_waits
  <2> QED
    BY <1>7, <2>1, <2>2 DEF worker_waits
<1>8. ASSUME NEW w \in Workers, worker_times_out(w) PROVE PoolTyped'
  BY <1>8 DEF worker_times_out
<1>9. ASSUME NEW w \in Workers, worker_fetches(w) PROVE PoolTyped'
  <2>1. task_list' \in Seq(Tasks)
    BY <1>9, PopBack DEF worker_fetches, Pop
  <2>2. wpc' = [v \in Workers |-> wpc'[v]]
    BY <1>9 DEF worker_fetches
  <2>3. wtask' = [v \in Workers |-> wtask'[v]]
    BY <1>9 DEF worker_fetches
  <2> QED
    BY <1>9, <2>1, <2>2, <2>3 DEF worker_fetches
<1>10. ASSUME NEW w \in Workers, worker_cycles(w) PROVE PoolTyped'
  <2>1. wpc' = [v \in Workers |-> wpc'[v]]
    BY <1>10 DEF worker_cycles
  <2>2. wtask' = [v \in Workers |-> wtask'[v]]
    BY <1>10 DEF worker_cycles
  <2>3. lost' \in Nat
    BY <1>10 DEF worker_cycles
  <2> QED
    BY <1>10, <2>1, <2>2, <2>3 DEF worker_cycles
<1>11. ASSUME NEW w \in Workers, worker_finds_nothing(w) PROVE PoolTyped'
  BY <1>11 DEF worker_finds_nothing
<1>12. ASSUME NEW w \in Workers, worker_runs(w) PROVE PoolTyped'
  <2>1. wpc' = [v \in Workers |-> wpc'[v]]
    BY <1>12 DEF worker_runs
  <2>2. wtask' = [v \in Workers |-> wtask'[v]]
    BY <1>12 DEF worker_runs
  <2>3. lost' \in Nat
    BY <1>12 DEF worker_runs
  <2> QED
    BY <1>12, <2>1, <2>2, <2>3 DEF worker_runs
<1>13. ASSUME NEW w \in Workers, grow(w) PROVE PoolTyped'
  BY <1>13 DEF grow
<1>14. ASSUME NEW w \in Workers, shrink(w) PROVE PoolTyped'
  BY <1>14 DEF shrink
<1>15. ASSUME NEW w \in Workers, cancel(w) PROVE PoolTyped'
  <2>1. wpc' = [v \in Workers |-> wpc'[v]]
    BY <1>15 DEF cancel
  <2>2. wtask' = [v \in Workers |-> wtask'[v]]
    BY <1>15 DEF cancel
  <2>3. lost' \in Nat
    BY <1>15 DEF cancel
  <2> QED
    BY <1>15, <2>1, <2>2, <2>3 DEF cancel
<1>16. ASSUME NEW w \in Workers, delete_stop(w) PROVE PoolTyped'
  BY <1>16 DEF delete_stop
<1>17. ASSUME NEW k \in Tasks, remove_task(k) PROVE PoolTyped'
  <2>1. PICK i \in 1..Len(task_list) : task_list' = RemoveAt(task_list, i)
    BY <1>17 DEF remove_task
  <2>2. task_list' \in Seq(Tasks)
    BY <2>1, PopIf
  <2> QED
    BY <1>17, <2>2 DEF remove_task
<1>18. CASE clear_task
  BY <1>18, <1>a, <1>b DEF clear_task
<1>19. CASE shrunk
  BY <1>19 DEF shrunk
<1>20. CASE delete
  BY <1>20 DEF delete
<1>21. CASE deleted
  BY <1>21, <1>a, <1>b DEF deleted
<1>22. ASSUME NEW b \in BOOLEAN, all_pause(b) PROVE PoolTyped'
  BY <1>22 DEF all_pause
<1>23. CASE remove_nothing
  BY <1>23, <1>a DEF remove_nothing
<1>24. CASE UNCHANGED vars
  BY <1>24 DEF vars, settings, queue, workers, control
<1> QED
  BY PoolSteps, <1>1, <1>2, <1>3, <1>4, <1>5, <1>6, <1>7, <1>8, <1>9, <1>10,
     <1>11, <1>12, <1>13, <1>14, <1>15, <1>16, <1>17, <1>18, <1>19, <1>20,
     <1>21, <1>22, <1>23, <1>24

\* A block leaves task_pool with the task that enters the list, and returns with it.
LEMMA BlocksStep ==
  ASSUME PoolTyped, BlocksConserved, [Next]_vars
  PROVE  BlocksConserved'
<1> USE DEF BlocksConserved, Goto, queue, workers, control, settings
<1>a. /\ task_list \in Seq(Tasks) /\ free_blocks \in Nat
      /\ added \in 0..MaxTasks /\ Len(task_list) \in Nat
  BY LenProperties DEF PoolTyped
<1>b. Len(<<>>) = 0
  BY EmptySeq
<1>1. ASSUME NEW c \in Clients, add_task(c) PROVE BlocksConserved'
  <2>1. added + 1 \in Tasks
    BY <1>a, <1>1, TaskPoolAssumption DEF add_task, Tasks
  <2>2. Len(task_list') = Len(task_list) + 1
    BY <1>a, <1>1, <2>1, PushFront DEF add_task
  <2>3. free_blocks' = free_blocks - 1
    BY <1>1 DEF add_task
  <2> QED
    BY <1>a, <2>2, <2>3
<1>2. ASSUME NEW c \in Clients, add_fails(c) PROVE BlocksConserved'
  BY <1>2 DEF add_fails
<1>3. ASSUME NEW c \in Clients, add_push(c) PROVE BlocksConserved'
  BY <1>3 DEF add_push
<1>4. ASSUME NEW w \in Workers, worker_exits(w) PROVE BlocksConserved'
  BY <1>4 DEF worker_exits
<1>5. ASSUME NEW w \in Workers, worker_goes_on(w) PROVE BlocksConserved'
  BY <1>5 DEF worker_goes_on
<1>6. ASSUME NEW w \in Workers, worker_begins(w) PROVE BlocksConserved'
  BY <1>6 DEF worker_begins
<1>7. ASSUME NEW w \in Workers, worker_waits(w) PROVE BlocksConserved'
  BY <1>7 DEF worker_waits
<1>8. ASSUME NEW w \in Workers, worker_times_out(w) PROVE BlocksConserved'
  BY <1>8 DEF worker_times_out
<1>9. ASSUME NEW w \in Workers, worker_fetches(w) PROVE BlocksConserved'
  <2>1. Len(task_list') = Len(task_list) - 1
    BY <1>a, <1>9, PopBack DEF worker_fetches, Pop
  <2>2. free_blocks' = free_blocks + 1
    BY <1>9 DEF worker_fetches
  <2> QED
    BY <1>a, <2>1, <2>2
<1>10. ASSUME NEW w \in Workers, worker_cycles(w) PROVE BlocksConserved'
  BY <1>10 DEF worker_cycles
<1>11. ASSUME NEW w \in Workers, worker_finds_nothing(w) PROVE BlocksConserved'
  BY <1>11 DEF worker_finds_nothing
<1>12. ASSUME NEW w \in Workers, worker_runs(w) PROVE BlocksConserved'
  BY <1>12 DEF worker_runs
<1>13. ASSUME NEW w \in Workers, grow(w) PROVE BlocksConserved'
  BY <1>13 DEF grow
<1>14. ASSUME NEW w \in Workers, shrink(w) PROVE BlocksConserved'
  BY <1>14 DEF shrink
<1>15. ASSUME NEW w \in Workers, cancel(w) PROVE BlocksConserved'
  BY <1>15 DEF cancel
<1>16. ASSUME NEW w \in Workers, delete_stop(w) PROVE BlocksConserved'
  BY <1>16 DEF delete_stop
<1>17. ASSUME NEW k \in Tasks, remove_task(k) PROVE BlocksConserved'
  <2>1. PICK i \in 1..Len(task_list) : task_list' = RemoveAt(task_list, i)
    BY <1>17 DEF remove_task
  <2>2. Len(task_list') = Len(task_list) - 1
    BY <1>a, <2>1, PopIf
  <2>3. free_blocks' = free_blocks + 1
    BY <1>17 DEF remove_task
  <2> QED
    BY <1>a, <2>2, <2>3
<1>18. CASE clear_task
  BY <1>18, <1>a, <1>b DEF clear_task
<1>19. CASE shrunk
  BY <1>19 DEF shrunk
<1>20. CASE delete
  BY <1>20 DEF delete
<1>21. CASE deleted
  BY <1>21, <1>a, <1>b DEF deleted
<1>22. ASSUME NEW b \in BOOLEAN, all_pause(b) PROVE BlocksConserved'
  BY <1>22 DEF all_pause
<1>23. CASE remove_nothing
  BY <1>23 DEF remove_nothing
<1>24. CASE UNCHANGED vars
  BY <1>24 DEF vars, settings, queue, workers, control
<1> QED
  BY PoolSteps, <1>1, <1>2, <1>3, <1>4, <1>5, <1>6, <1>7, <1>8, <1>9, <1>10,
     <1>11, <1>12, <1>13, <1>14, <1>15, <1>16, <1>17, <1>18, <1>19, <1>20,
     <1>21, <1>22, <1>23, <1>24

\* The oldest task is fetched, so the list stays younger than whatever ran.
LEMMA OrderStep ==
  ASSUME PoolTyped, PoolOrder, ~get_task_cycling, [Next]_vars
  PROVE  PoolOrder'
<1> USE DEF Goto, queue, workers, control, settings
<1>a. /\ task_list \in Seq(Nat) /\ added \in 0..MaxTasks /\ MaxTasks \in Nat
      /\ wtask = [w \in Workers |-> wtask[w]]
  <2>1. Tasks \subseteq Nat
    BY TaskPoolAssumption DEF Tasks
  <2>2. task_list \in Seq(Nat)
    BY <2>1, SeqMonotonic DEF PoolTyped
  <2> QED
    BY <2>2, TaskPoolAssumption DEF PoolTyped
<1>b. /\ last \in 0..added /\ Descending(task_list, last, added)
      /\ \A w \in Workers : wtask[w] \in 0..last
      /\ \A v, w \in Workers : (wtask[v] = wtask[w] /\ wtask[v] # NoTask) => v = w
  BY DEF PoolOrder
<1>c. \A lo, hi : Descending(<<>>, lo, hi)
  BY DEF Descending
<1>1. ASSUME NEW c \in Clients, add_task(c) PROVE PoolOrder'
  <2>1. Descending(task_list', last, added + 1)
    BY <1>a, <1>b, <1>1, DescendingPush DEF add_task
  <2>2. last' \in 0..added'
    BY <1>a, <1>b, <1>1 DEF add_task
  <2> QED
    BY <1>b, <1>1, <2>1, <2>2 DEF add_task, PoolOrder
<1>2. ASSUME NEW c \in Clients, add_fails(c) PROVE PoolOrder'
  <2>1. Descending(task_list, last, added + 1)
    BY <1>a, <1>b, ElementOfSeq DEF Descending
  <2>2. last' \in 0..added'
    BY <1>a, <1>b, <1>2 DEF add_fails
  <2> QED
    BY <1>b, <1>2, <2>1, <2>2 DEF add_fails, PoolOrder
<1>3. ASSUME NEW c \in Clients, add_push(c) PROVE PoolOrder'
  BY <1>3, <1>b DEF add_push, PoolOrder
<1>4. ASSUME NEW w \in Workers, worker_exits(w) PROVE PoolOrder'
  BY <1>4, <1>b DEF worker_exits, PoolOrder
<1>5. ASSUME NEW w \in Workers, worker_goes_on(w) PROVE PoolOrder'
  BY <1>5, <1>b DEF worker_goes_on, PoolOrder
<1>6. ASSUME NEW w \in Workers, worker_begins(w) PROVE PoolOrder'
  BY <1>6, <1>b DEF worker_begins, PoolOrder
<1>7. ASSUME NEW w \in Workers, worker_waits(w) PROVE PoolOrder'
  BY <1>7, <1>b DEF worker_waits, PoolOrder
<1>8. ASSUME NEW w \in Workers, worker_times_out(w) PROVE PoolOrder'
  BY <1>8, <1>b DEF worker_times_out, PoolOrder
<1>9. ASSUME NEW w \in Workers, worker_fetches(w) PROVE PoolOrder'
  <2>1. /\ task_list' = Front(task_list) /\ last' = Last(task_list)
        /\ wtask' = [wtask EXCEPT ![w] = Last(task_list)]
        /\ task_list # <<>> /\ added' = added
    BY <1>9 DEF worker_fetches, Pop
  <2>2. /\ Descending(task_list', last', added')
        /\ last < last' /\ last' <= added /\ last' \in Nat
    <3>1. last \in Nat /\ added \in Nat
      BY <1>a, <1>b
    <3>2. Last(task_list) \in Nat
      BY <1>a, <2>1, PopBack
    <3> QED
      BY <1>a, <1>b, <2>1, <3>1, <3>2, DescendingPop
  <2>3. /\ wtask'[w] = last'
        /\ \A v \in Workers \ {w} : wtask'[v] = wtask[v] /\ wtask[v] \in 0..last
    BY <1>a, <1>b, <2>1
  <2>4. \A v \in Workers : wtask'[v] \in 0..last'
    BY <1>a, <1>b, <2>2, <2>3
  <2>5. ASSUME NEW u \in Workers, NEW v \in Workers,
               wtask'[u] = wtask'[v], wtask'[u] # NoTask
        PROVE  u = v
    <3>1. CASE u = w \/ v = w
      BY <1>a, <1>b, <2>2, <2>3, <2>5, <3>1
    <3>2. CASE u # w /\ v # w
      BY <1>b, <2>3, <2>5, <3>2
    <3> QED
      BY <3>1, <3>2
  <2>6. last' \in 0..added'
    BY <1>a, <1>b, <2>1, <2>2
  <2> QED
    BY <2>2, <2>4, <2>5, <2>6 DEF PoolOrder
<1>10. ASSUME NEW w \in Workers, worker_cycles(w) PROVE PoolOrder'
  BY <1>10 DEF worker_cycles
<1>11. ASSUME NEW w \in Workers, worker_finds_nothing(w) PROVE PoolOrder'
  BY <1>11, <1>b DEF worker_finds_nothing, PoolOrder
<1>12. ASSUME NEW w \in Workers, worker_runs(w) PROVE PoolOrder'
  <2>1. /\ wtask' = [wtask EXCEPT ![w] = NoTask]
        /\ UNCHANGED <<task_list, last, added>>
    BY <1>12 DEF worker_runs
  <2> QED
    BY <1>a, <1>b, <2>1 DEF PoolOrder, NoTask
<1>13. ASSUME NEW w \in Workers, grow(w) PROVE PoolOrder'
  BY <1>13, <1>b DEF grow, PoolOrder
<1>14. ASSUME NEW w \in Workers, shrink(w) PROVE PoolOrder'
  BY <1>14, <1>b DEF shrink, PoolOrder
<1>15. ASSUME NEW w \in Workers, cancel(w) PROVE PoolOrder'
  <2>1. /\ wtask' = [wtask EXCEPT ![w] = NoTask]
        /\ UNCHANGED <<task_list, last, added>>
    BY <1>15 DEF cancel
  <2> QED
    BY <1>a, <1>b, <2>1 DEF PoolOrder, NoTask
<1>16. ASSUME NEW w \in Workers, delete_stop(w) PROVE PoolOrder'
  BY <1>16, <1>b DEF delete_stop, PoolOrder
<1>17. ASSUME NEW k \in Tasks, remove_task(k) PROVE PoolOrder'
  <2>1. PICK i \in 1..Len(task_list) : task_list' = RemoveAt(task_list, i)
    BY <1>17 DEF remove_task
  <2>2. Descending(task_list', last, added)
    BY <1>a, <1>b, <2>1, DescendingRemove
  <2> QED
    BY <1>b, <1>17, <2>2 DEF remove_task, PoolOrder
<1>18. CASE clear_task
  BY <1>18, <1>b, <1>c DEF clear_task, PoolOrder
<1>19. CASE shrunk
  BY <1>19, <1>b DEF shrunk, PoolOrder
<1>20. CASE delete
  BY <1>20, <1>b DEF delete, PoolOrder
<1>21. CASE deleted
  BY <1>21, <1>b, <1>c DEF deleted, PoolOrder
<1>22. ASSUME NEW b \in BOOLEAN, all_pause(b) PROVE PoolOrder'
  BY <1>22, <1>b DEF all_pause, PoolOrder
<1>23. CASE remove_nothing
  BY <1>23, <1>b DEF remove_nothing, PoolOrder
<1>24. CASE UNCHANGED vars
  BY <1>24, <1>b DEF vars, settings, queue, workers, control, PoolOrder
<1> QED
  BY PoolSteps, <1>1, <1>2, <1>3, <1>4, <1>5, <1>6, <1>7, <1>8, <1>9, <1>10,
     <1>11, <1>12, <1>13, <1>14, <1>15, <1>16, <1>17, <1>18, <1>19, <1>20,
     <1>21, <1>22, <1>23, <1>24

\* A task enters the list with a token to come, and leaves it with the worker that
\* took one; only a cancelled worker takes its token with it.
LEMMA TokensStep ==
  ASSUME PoolTyped, NoStrandedTask, ~get_task_cycling, [Next]_vars
  PROVE  NoStrandedTask'
<1> USE DEF Goto, At, queue, workers, control, settings
<1>a. /\ task_list \in Seq(Tasks) /\ Len(task_list) \in Nat
      /\ added \in 0..MaxTasks
      /\ remain_taskpool \in Nat /\ lost \in Nat
      /\ wpc = [w \in Workers |-> wpc[w]]
  BY LenProperties DEF PoolTyped
<1>b. /\ IsFiniteSet(adding) /\ Cardinality(adding) \in Nat
      /\ IsFiniteSet(Fetching) /\ Cardinality(Fetching) \in Nat
  <2>1. IsFiniteSet(adding)
    BY FS_Subset, TaskPoolAssumption DEF PoolTyped
  <2>2. IsFiniteSet(Fetching)
    BY FS_Subset, TaskPoolAssumption, Fetching \subseteq Workers DEF Fetching
  <2> QED
    BY <2>1, <2>2, FS_CardinalityType
<1>c. Len(task_list) <= remain_taskpool + Cardinality(adding) + Cardinality(Fetching) + lost
  BY DEF NoStrandedTask
<1>1. ASSUME NEW c \in Clients, add_task(c) PROVE NoStrandedTask'
  <2>1. added + 1 \in Tasks
    BY <1>a, <1>1, TaskPoolAssumption DEF add_task, Tasks
  <2>2. Len(task_list') = Len(task_list) + 1
    BY <1>a, <1>1, <2>1, PushFront DEF add_task
  <2>3. Cardinality(adding') = Cardinality(adding) + 1
    BY <1>b, <1>1, FS_AddElement DEF add_task
  <2>4. Fetching' = Fetching /\ UNCHANGED <<remain_taskpool, lost>>
    BY <1>1 DEF add_task, Fetching
  <2> QED
    BY <1>a, <1>b, <1>c, <2>2, <2>3, <2>4 DEF NoStrandedTask
<1>2. ASSUME NEW c \in Clients, add_fails(c) PROVE NoStrandedTask'
  BY <1>2, <1>a, <1>c DEF add_fails, NoStrandedTask, Fetching
<1>3. ASSUME NEW c \in Clients, add_push(c) PROVE NoStrandedTask'
  <2>1. Cardinality(adding') = Cardinality(adding) - 1
    BY <1>b, <1>3, FS_RemoveElement DEF add_push
  <2>2. Fetching' = Fetching /\ UNCHANGED <<task_list, lost>>
    BY <1>3 DEF add_push, Fetching
  <2>3. remain_taskpool' = remain_taskpool + 1
    BY <1>3 DEF add_push
  <2> QED
    BY <1>a, <1>b, <1>c, <2>1, <2>2, <2>3 DEF NoStrandedTask
<1>4. ASSUME NEW w \in Workers, worker_exits(w) PROVE NoStrandedTask'
  BY <1>4, <1>a, <1>c DEF worker_exits, NoStrandedTask, Fetching
<1>5. ASSUME NEW w \in Workers, worker_goes_on(w) PROVE NoStrandedTask'
  BY <1>5, <1>a, <1>c DEF worker_goes_on, NoStrandedTask, Fetching
<1>6. ASSUME NEW w \in Workers, worker_begins(w) PROVE NoStrandedTask'
  BY <1>6, <1>a, <1>c DEF worker_begins, NoStrandedTask, Fetching
<1>7. ASSUME NEW w \in Workers, worker_waits(w) PROVE NoStrandedTask'
  <2>1. Fetching' = Fetching \cup {w} /\ w \notin Fetching
    BY <1>a, <1>7 DEF worker_waits, Fetching
  <2>2. Cardinality(Fetching') = Cardinality(Fetching) + 1
    BY <1>b, <2>1, FS_AddElement
  <2>3. remain_taskpool' = remain_taskpool - 1 /\ UNCHANGED <<task_list, adding, lost>>
    BY <1>7 DEF worker_waits
  <2> QED
    BY <1>a, <1>b, <1>c, <2>2, <2>3 DEF NoStrandedTask
<1>8. ASSUME NEW w \in Workers, worker_times_out(w) PROVE NoStrandedTask'
  BY <1>8, <1>a, <1>c DEF worker_times_out, NoStrandedTask, Fetching
<1>9. ASSUME NEW w \in Workers, worker_fetches(w) PROVE NoStrandedTask'
  <2>1. Fetching' = Fetching \ {w} /\ w \in Fetching
    BY <1>a, <1>9 DEF worker_fetches, Fetching
  <2>2. Cardinality(Fetching') = Cardinality(Fetching) - 1
    BY <1>b, <2>1, FS_RemoveElement
  <2>3. Len(task_list') = Len(task_list) - 1
    BY <1>a, <1>9, PopBack DEF worker_fetches, Pop
  <2>4. UNCHANGED <<remain_taskpool, adding, lost>>
    BY <1>9 DEF worker_fetches
  <2> QED
    BY <1>a, <1>b, <1>c, <2>2, <2>3, <2>4 DEF NoStrandedTask
<1>10. ASSUME NEW w \in Workers, worker_cycles(w) PROVE NoStrandedTask'
  BY <1>10 DEF worker_cycles
<1>11. ASSUME NEW w \in Workers, worker_finds_nothing(w) PROVE NoStrandedTask'
  <2>1. Fetching' = Fetching \ {w}
    BY <1>a, <1>11 DEF worker_finds_nothing, Fetching
  <2>2. Cardinality(Fetching') \in Nat
    BY <1>b, <2>1, FS_RemoveElement, FS_CardinalityType
  <2>3. Len(task_list') = 0 /\ UNCHANGED <<remain_taskpool, adding, lost>>
    BY <1>11, EmptySeq DEF worker_finds_nothing
  <2> QED
    BY <1>a, <1>b, <2>2, <2>3 DEF NoStrandedTask
<1>12. ASSUME NEW w \in Workers, worker_runs(w) PROVE NoStrandedTask'
  BY <1>12, <1>a, <1>c DEF worker_runs, NoStrandedTask, Fetching
<1>13. ASSUME NEW w \in Workers, grow(w) PROVE NoStrandedTask'
  BY <1>13, <1>a, <1>c DEF grow, NoStrandedTask, Fetching
<1>14. ASSUME NEW w \in Workers, shrink(w) PROVE NoStrandedTask'
  BY <1>14, <1>a, <1>c DEF shrink, NoStrandedTask, Fetching
<1>15. ASSUME NEW w \in Workers, cancel(w) PROVE NoStrandedTask'
  <2>1. CASE wpc[w] = "fetch"
    <3>1. Fetching' = Fetching \ {w} /\ w \in Fetching
      BY <1>a, <1>15, <2>1 DEF cancel, Fetching
    <3>2. Cardinality(Fetching') = Cardinality(Fetching) - 1
      BY <1>b, <3>1, FS_RemoveElement
    <3>3. lost' = lost + 1 /\ UNCHANGED <<task_list, remain_taskpool, adding>>
      BY <1>15, <2>1 DEF cancel
    <3> QED
      BY <1>a, <1>b, <1>c, <3>2, <3>3 DEF NoStrandedTask
  <2>2. CASE wpc[w] # "fetch"
    <3>1. Fetching' = Fetching
      BY <1>a, <1>15, <2>2 DEF cancel, Fetching
    <3>2. UNCHANGED <<task_list, remain_taskpool, adding, lost>>
      BY <1>15, <2>2 DEF cancel
    <3> QED
      BY <1>c, <3>1, <3>2 DEF NoStrandedTask
  <2> QED
    BY <2>1, <2>2
<1>16. ASSUME NEW w \in Workers, delete_stop(w) PROVE NoStrandedTask'
  BY <1>16, <1>a, <1>c DEF delete_stop, NoStrandedTask, Fetching
<1>17. ASSUME NEW k \in Tasks, remove_task(k) PROVE NoStrandedTask'
  <2>1. PICK i \in 1..Len(task_list) : task_list' = RemoveAt(task_list, i)
    BY <1>17 DEF remove_task
  <2>2. Len(task_list') = Len(task_list) - 1
    BY <1>a, <2>1, PopIf
  <2>3. Fetching' = Fetching /\ UNCHANGED <<remain_taskpool, adding, lost>>
    BY <1>17 DEF remove_task, Fetching
  <2> QED
    BY <1>a, <1>b, <1>c, <2>2, <2>3 DEF NoStrandedTask
<1>18. CASE clear_task
  <2>1. Len(task_list') = 0 /\ UNCHANGED <<remain_taskpool, adding, lost>>
    BY <1>18, EmptySeq DEF clear_task
  <2>2. Fetching' = Fetching
    BY <1>18 DEF clear_task, Fetching
  <2> QED
    BY <1>a, <1>b, <2>1, <2>2 DEF NoStrandedTask
<1>19. CASE shrunk
  BY <1>19, <1>a, <1>c DEF shrunk, NoStrandedTask, Fetching
<1>20. CASE delete
  BY <1>20, <1>a, <1>c DEF delete, NoStrandedTask, Fetching
<1>21. CASE deleted
  <2>1. Len(task_list') = 0 /\ UNCHANGED <<remain_taskpool, adding, lost>>
    BY <1>21, EmptySeq DEF deleted
  <2>2. Fetching' = Fetching
    BY <1>21 DEF deleted, Fetching
  <2> QED
    BY <1>a, <1>b, <2>1, <2>2 DEF NoStrandedTask
<1>22. ASSUME NEW b \in BOOLEAN, all_pause(b) PROVE NoStrandedTask'
  BY <1>22, <1>a, <1>c DEF all_pause, NoStrandedTask, Fetching
<1>23. CASE remove_nothing
  BY <1>23, <1>a, <1>c DEF remove_nothing, NoStrandedTask, Fetching
<1>24. CASE UNCHANGED vars
  BY <1>24, <1>a, <1>c DEF vars, settings, queue, workers, control, NoStrandedTask, Fetching
<1> QED
  BY PoolSteps, <1>1, <1>2, <1>3, <1>4, <1>5, <1>6, <1>7, <1>8, <1>9, <1>10,
     <1>11, <1>12, <1>13, <1>14, <1>15, <1>16, <1>17, <1>18, <1>19, <1>20,
     <1>21, <1>22, <1>23, <1>24

----------------------------------------------------------------------------

\* A pool keeps its kind: get_task_cycling is set when it is made.
LEMMA KindStep ==
  ASSUME [Next]_vars
  PROVE  get_task_cycling' = get_task_cycling
<1> USE DEF settings, Manage
<1>1. ASSUME Next PROVE get_task_cycling' = get_task_cycling
  BY <1>1, PoolSteps
     DEF add_task, add_fails, add_push, worker_exits, worker_goes_on, worker_begins,
         worker_waits, worker_times_out, worker_fetches, worker_cycles,
         worker_finds_nothing, worker_runs, grow, shrink, cancel, delete_stop,
         remove_task, remove_nothing, clear_task, shrunk, delete, deleted, all_pause
<1> QED
  BY <1>1 DEF vars

LEMMA PoolInit == Init => BlocksConserved /\ PoolOrder /\ NoStrandedTask
<1> SUFFICES ASSUME Init PROVE BlocksConserved /\ PoolOrder /\ NoStrandedTask
  OBVIOUS
<1>1. task_list = <<>> /\ Len(task_list) = 0 /\ free_blocks = max_task_count
  BY EmptySeq DEF Init
<1>2. BlocksConserved
  BY <1>1, TaskPoolAssumption DEF BlocksConserved
<1>3. PoolOrder
  BY <1>1 DEF PoolOrder, Descending, Init, NoTask
<1>4. NoStrandedTask
  <2>1. Fetching = {} /\ adding = {} /\ remain_taskpool = 0 /\ lost = 0
    BY DEF Init, Fetching
  <2> QED
    BY <1>1, <2>1, FS_EmptySet DEF NoStrandedTask
<1> QED
  BY <1>2, <1>3, <1>4

LEMMA OrderSuffices == PoolTyped /\ PoolOrder => OnceInOrder
<1> SUFFICES ASSUME PoolTyped, PoolOrder, ~get_task_cycling PROVE OnceInOrder
  BY DEF OnceInOrder, RunsOnce, OldestFirst
<1>1. /\ Len(task_list) \in Nat /\ \A i \in 1..Len(task_list) : task_list[i] \in Nat
      /\ last \in Nat
  <2>1. Tasks \subseteq Nat /\ added \in Nat
    BY TaskPoolAssumption DEF Tasks, PoolTyped
  <2>2. \A i \in 1..Len(task_list) : task_list[i] \in Tasks
    BY ElementOfSeq DEF PoolTyped
  <2> QED
    BY <2>1, <2>2, LenProperties DEF PoolTyped, PoolOrder
<1>2. Descending(task_list, last, added) /\ \A w \in Workers : wtask[w] \in 0..last
  BY DEF PoolOrder
<1>3. OldestFirst
  BY <1>2 DEF OldestFirst, Descending
<1>4. ASSUME NEW i \in 1..Len(task_list), NEW j \in 1..Len(task_list),
             task_list[i] = task_list[j]
      PROVE  i = j
  BY <1>1, <1>2, <1>4 DEF Descending
<1>5. ASSUME NEW w \in Workers, NEW i \in 1..Len(task_list)
      PROVE  wtask[w] # task_list[i]
  BY <1>1, <1>2 DEF Descending
<1>6. RunsOnce
  BY <1>4, <1>5 DEF RunsOnce, PoolOrder
<1> QED
  BY <1>3, <1>6 DEF OnceInOrder

\* Every block of task_pool is free or holds a listed task, for any number of
\* workers and clients: add_task fails with ENOMEM only when the list is full.
THEOREM PoolConservesBlocks == Spec => []BlocksConserved
<1>1. Init => PoolTyped /\ BlocksConserved
  BY PoolTypedInit, PoolInit
<1>2. PoolTyped /\ BlocksConserved /\ [Next]_vars => PoolTyped' /\ BlocksConserved'
  BY PoolTypedStep, BlocksStep
<1> QED
  BY <1>1, <1>2, PTL DEF Spec

\* Without cycling, task_worker runs each added task at most once and in the
\* order of the adds, however many workers fetch and are stopped or cancelled.
THEOREM PoolRunsInOrder == Spec => []OnceInOrder
<1>1. Init => PoolTyped /\ PoolOrder
  BY PoolTypedInit, PoolInit
<1>2. PoolTyped /\ PoolOrder /\ [Next]_vars => PoolTyped' /\ PoolOrder'
  <2> SUFFICES ASSUME PoolTyped, PoolOrder, [Next]_vars PROVE PoolTyped' /\ PoolOrder'
    OBVIOUS
  <2>1. CASE get_task_cycling
    BY <2>1, KindStep, PoolTypedStep DEF PoolOrder
  <2>2. CASE ~get_task_cycling
    BY <2>2, PoolTypedStep, OrderStep
  <2> QED
    BY <2>1, <2>2
<1>3. PoolTyped /\ PoolOrder => OnceInOrder
  BY OrderSuffices
<1> QED
  BY <1>1, <1>2, <1>3, PTL DEF Spec

\* A listed task always has a token on its way to a worker, whatever is removed,
\* cleared, resized or cancelled.
THEOREM PoolStrandsNoTask == Spec => []NoStrandedTask
<1>1. Init => PoolTyped /\ NoStrandedTask
  BY PoolTypedInit, PoolInit
<1>2. PoolTyped /\ NoStrandedTask /\ [Next]_vars => PoolTyped' /\ NoStrandedTask'
  <2> SUFFICES ASSUME PoolTyped, NoStrandedTask, [Next]_vars
               PROVE  PoolTyped' /\ NoStrandedTask'
    OBVIOUS
  <2>1. CASE get_task_cycling
    BY <2>1, KindStep, PoolTypedStep DEF NoStrandedTask
  <2>2. CASE ~get_task_cycling
    BY <2>2, PoolTypedStep, TokensStep
  <2> QED
    BY <2>1, <2>2
<1> QED
  BY <1>1, <1>2, PTL DEF Spec
=============================================================================
