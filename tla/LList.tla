------------------------------- MODULE LList -------------------------------
(***************************************************************************)
(* The doubly linked list of llist.c with its cursor.  The cursor is a     *)
(* pair: list->current, which points to a CELL (list->head, or the next or *)
(* prev field of a node) and is read through at every use, and             *)
(* list->cur_index, the index the code believes the cursor is at.          *)
(*                                                                         *)
(* One caller at a time, as in a list used by one thread or inside another *)
(* object's section.  Indices count from 0 as in the code.                 *)
(***************************************************************************)
EXTENDS Integers, Sequences, SequencesExt, FiniteSets, TLC

CONSTANTS Nodes,      \* addresses of nodes: the blocks of list->mempool
          Null,
          Values,     \* data pointers, ordered as the comparator orders them
          MaxSort     \* bound of sort_count

ASSUME ListAssumption ==
  /\ Null \notin Nodes /\ IsFiniteSet(Nodes)
  /\ Values \subseteq Nat /\ Values # {}
  /\ MaxSort \in Nat

VARIABLES head, tail,           \* nodes or Null
          next, prev, data,     \* the fields of the nodes
          used,                 \* nodes that are allocated
          count, sort_count,
          current, cur_index,   \* the cursor
          crashed,              \* a null pointer has been dereferenced
          content,              \* ghost: what the calls so far have put in the list
          skewed,               \* ghost: a node was linked or unlinked in the middle
                                \* while the cursor pointed to a prev field
          popped_last           \* ghost: the crash was a pop_of(size - 1)

chain == <<head, tail, next, prev>>
cursor == <<current, cur_index>>
ghosts == <<content, skewed, popped_last>>
vars == <<chain, data, used, count, sort_count, cursor, crashed, ghosts>>

\* What a free block holds where data would be.
Garbage == CHOOSE v \in Values : TRUE

HeadCell == <<"head", Null>>
Crash == <<"crash", Null>>
Cells == {HeadCell} \cup ({"next", "prev"} \X Nodes)

\* *(list->current)
Deref(c) ==
  CASE c[1] = "head" -> head
    [] c[1] = "next" -> next[c[2]]
    [] c[1] = "prev" -> prev[c[2]]
    [] OTHER         -> Null

Init ==
  /\ head = Null /\ tail = Null
  /\ next = [n \in Nodes |-> Null] /\ prev = [n \in Nodes |-> Null]
  /\ data = [n \in Nodes |-> Garbage]
  /\ used = {} /\ count = 0 /\ sort_count = 0
  /\ current = HeadCell /\ cur_index = 0
  /\ crashed = FALSE
  /\ content = <<>> /\ skewed = FALSE /\ popped_last = FALSE

reset_cur_node == current' = HeadCell /\ cur_index' = 0

\* k steps along a field from cell c; a step through a null pointer crashes.
WalkFrom(c, field, k) ==
  LET w[j \in 0..k] == IF j = 0 THEN c
                       ELSE IF Deref(w[j - 1]) = Null THEN Crash
                       ELSE <<field, Deref(w[j - 1])>>
  IN w[k]

MutLocate(i) ==
  IF i >= cur_index THEN WalkFrom(current, "next", i - cur_index)
                    ELSE WalkFrom(current, "prev", cur_index - i - 1)
\* get_node_of: where the walk to index i leaves the cursor.
Locate(i) ==
  IF i >= cur_index THEN WalkFrom(current, "next", i - cur_index)
                    ELSE WalkFrom(current, "prev", cur_index - i)

Crashes(c) ==
  /\ crashed' = TRUE
  /\ popped_last' = c
  /\ UNCHANGED <<chain, data, used, count, sort_count, cursor, content, skewed>>

\* The nodes from the head on.
Chain ==
  LET w[j \in 0..Cardinality(Nodes)] ==
        IF j = 0 THEN head ELSE IF w[j - 1] = Null THEN Null ELSE next[w[j - 1]]
      met == {j \in 1..Cardinality(Nodes) : w[j - 1] # Null}
  IN [j \in 1..Cardinality(met) |-> w[j - 1]]

SetAt(f, n, v) == IF n = Null THEN f ELSE [f EXCEPT ![n] = v]

----------------------------------------------------------------------------
(* Insertion: cplus_llist_push_at(i, v), also for push_front, push_back.   *)

\* The ghost is followed until the cursor is skewed.
Added(i, v) == IF skewed THEN <<>> ELSE InsertAt(content, i + 1, v)
Removed(i) == IF skewed THEN <<>> ELSE RemoveAt(content, i + 1)

\* new_node takes the free block n.
Inserts(n, i, v) ==
  /\ ~crashed /\ n \notin used
  /\ used' = used \cup {n}
  /\ data' = [data EXCEPT ![n] = v]
  /\ count' = count + 1
  /\ content' = Added(i, v)
  /\ UNCHANGED <<sort_count, crashed, popped_last>>

push_empty(n, v) ==
  /\ count = 0
  /\ Inserts(n, 0, v)
  /\ head' = n /\ tail' = n
  /\ next' = [next EXCEPT ![n] = Null] /\ prev' = [prev EXCEPT ![n] = Null]
  /\ reset_cur_node
  /\ UNCHANGED skewed

push_front(n, v) ==
  /\ count > 0
  /\ Inserts(n, 0, v)
  /\ head' = n
  /\ prev' = [prev EXCEPT ![head] = n, ![n] = Null]
  /\ next' = [next EXCEPT ![n] = head]
  /\ reset_cur_node
  /\ UNCHANGED <<tail, skewed>>

MutPushBack(n, v) ==
  /\ count > 0
  /\ Inserts(n, count, v)
  /\ tail' = n
  /\ next' = [next EXCEPT ![tail] = n, ![n] = Null]
  /\ UNCHANGED <<head, prev, skewed, cursor>>
push_back(n, v) ==
  /\ count > 0
  /\ Inserts(n, count, v)
  /\ tail' = n
  /\ next' = [next EXCEPT ![tail] = n, ![n] = Null]
  /\ prev' = [prev EXCEPT ![n] = tail]
  /\ reset_cur_node
  /\ UNCHANGED <<head, skewed>>

\* The node goes before the one the cursor finds at i; the cursor stays.
push_middle(n, i, v) ==
  LET target == Deref(Locate(i)) IN
  /\ i \in 1..count - 1
  /\ target # Null /\ prev[target] # Null
  /\ Inserts(n, i, v)
  /\ next' = [next EXCEPT ![n] = target, ![prev[target]] = n]
  /\ prev' = [prev EXCEPT ![n] = prev[target], ![target] = n]
  /\ current' = Locate(i) /\ cur_index' = i
  /\ skewed' = (skewed \/ Locate(i)[1] = "prev")
  /\ UNCHANGED <<head, tail>>

\* No node is found at i (only with a skewed cursor): CPLUS_FAIL, and the new
\* node is not freed.
push_lost(n, i, v) ==
  /\ ~crashed /\ n \notin used
  /\ i \in 1..count - 1
  /\ Locate(i) # Crash /\ Deref(Locate(i)) = Null
  /\ used' = used \cup {n}
  /\ data' = [data EXCEPT ![n] = v]
  /\ next' = [next EXCEPT ![n] = Null] /\ prev' = [prev EXCEPT ![n] = Null]
  /\ current' = Locate(i) /\ cur_index' = i
  /\ content' = Added(i, v)
  /\ UNCHANGED <<head, tail, count, sort_count, crashed, skewed, popped_last>>

push_crashes(i) ==
  /\ ~crashed /\ used # Nodes
  /\ i \in 1..count - 1
  /\ \/ Locate(i) = Crash
     \/ Deref(Locate(i)) # Null /\ prev[Deref(Locate(i))] = Null
  /\ Crashes(FALSE)

----------------------------------------------------------------------------
(* Removal: cplus_llist_pop_of(i), also for pop_front and pop_back.        *)

\* The common end: the node is freed; an emptied list is reset.
Removes(n, i) ==
  /\ used' = used \ {n}
  /\ data' = [data EXCEPT ![n] = Garbage]
  /\ count' = count - 1
  /\ content' = Removed(i)
  /\ UNCHANGED <<sort_count, crashed, popped_last>>

pop_front ==
  /\ ~crashed /\ count > 0
  /\ Removes(head, 0)
  /\ head' = IF count = 1 THEN Null ELSE next[head]
  /\ tail' = IF count = 1 THEN Null ELSE tail
  /\ prev' = SetAt(prev, next[head], Null)
  /\ next' = [next EXCEPT ![head] = Null]
  /\ reset_cur_node
  /\ UNCHANGED skewed

\* pop_back passes the size, not the last index.
pop_back ==
  /\ ~crashed /\ count > 0
  /\ Removes(tail, count - 1)
  /\ head' = IF count = 1 THEN Null ELSE head
  /\ tail' = IF count = 1 THEN Null ELSE prev[tail]
  /\ next' = SetAt(next, prev[tail], Null)
  /\ prev' = [prev EXCEPT ![tail] = Null]
  /\ reset_cur_node
  /\ UNCHANGED skewed

\* The node is unlinked under the cursor, which stays.
pop_middle(i) ==
  LET n == Deref(Locate(i)) IN
  /\ ~crashed /\ i \in 1..count - 1
  /\ n # Null /\ prev[n] # Null /\ next[n] # Null
  /\ Removes(n, i)
  /\ next' = [next EXCEPT ![prev[n]] = next[n], ![n] = Null]
  /\ prev' = [prev EXCEPT ![next[n]] = prev[n], ![n] = Null]
  /\ current' = Locate(i) /\ cur_index' = i
  /\ skewed' = (skewed \/ Locate(i)[1] = "prev")
  /\ UNCHANGED <<head, tail>>

\* No node is found (only with a skewed cursor): the size goes down all the same.
pop_nothing(i) ==
  /\ ~crashed /\ i \in 1..count - 1
  /\ Locate(i) # Crash /\ Deref(Locate(i)) = Null
  /\ count' = count - 1
  /\ content' = Removed(i)
  /\ current' = Locate(i) /\ cur_index' = i
  /\ UNCHANGED <<chain, data, used, sort_count, crashed, skewed, popped_last>>

\* (node->prev)->next or (node->next)->prev with a null pointer: the last index
\* is not treated as the tail.
pop_crashes(i) ==
  LET n == Deref(Locate(i)) IN
  /\ ~crashed /\ i \in 1..count - 1
  /\ \/ Locate(i) = Crash
     \/ n # Null /\ (prev[n] = Null \/ next[n] = Null)
  /\ Crashes(i = count - 1)

\* remove_node under pop_if and remove_data: the node at i is the first match.
remove_node(i) ==
  LET n == Chain[i + 1] IN
  /\ ~crashed /\ i \in 0..Len(Chain) - 1 /\ count > 0
  /\ Removes(n, i)
  /\ \/ /\ n = head
        /\ head' = (IF count = 1 THEN Null ELSE next[n])
        /\ tail' = (IF count = 1 THEN Null ELSE tail)
        /\ prev' = SetAt(prev, next[n], Null)
        /\ next' = [next EXCEPT ![n] = Null]
     \/ /\ n # head /\ n = tail
        /\ head' = (IF count = 1 THEN Null ELSE head)
        /\ tail' = (IF count = 1 THEN Null ELSE prev[n])
        /\ next' = SetAt(next, prev[n], Null)
        /\ prev' = [prev EXCEPT ![n] = Null]
     \/ /\ n # head /\ n # tail
        /\ head' = (IF count = 1 THEN Null ELSE head)
        /\ tail' = (IF count = 1 THEN Null ELSE tail)
        /\ next' = [next EXCEPT ![prev[n]] = next[n], ![n] = Null]
        /\ prev' = [prev EXCEPT ![next[n]] = prev[n], ![n] = Null]
  /\ reset_cur_node
  /\ UNCHANGED skewed

clear ==
  /\ ~crashed
  /\ used' = used \ ToSet(Chain)
  /\ next' = [n \in Nodes |-> IF n \in used' THEN next[n] ELSE Null]
  /\ prev' = [n \in Nodes |-> IF n \in used' THEN prev[n] ELSE Null]
  /\ data' = [n \in Nodes |-> IF n \in used' THEN data[n] ELSE Garbage]
  /\ count' = 0 /\ sort_count' = 0
  /\ head' = Null /\ tail' = Null
  /\ content' = <<>>
  /\ reset_cur_node
  /\ UNCHANGED <<crashed, skewed, popped_last>>

----------------------------------------------------------------------------
(* Reads that move the cursor.                                             *)

Moves(c, i) ==
  /\ ~crashed
  /\ current' = c /\ cur_index' = i
  /\ UNCHANGED <<chain, data, used, count, sort_count, crashed, ghosts>>

get_of(i) ==
  /\ i \in 0..count - 1
  /\ Locate(i) # Crash
  /\ Moves(Locate(i), i)

MutGetCrashes(i) ==
  /\ ~crashed /\ Locate(i) = Crash
  /\ Crashes(FALSE)
get_crashes(i) ==
  /\ ~crashed /\ i \in 0..count - 1
  /\ Locate(i) = Crash
  /\ Crashes(FALSE)

\* get_node_if, get_index_if and get_set_if, and pop_if and remove_data without
\* a match: a scan from the head that ends at i, the match or the last node.
scan(i) ==
  /\ i \in 0..Len(Chain) - 1
  /\ Moves(WalkFrom(HeadCell, "next", i), i)

get_next ==
  /\ Deref(current) # Null /\ next[Deref(current)] # Null
  /\ Moves(<<"next", Deref(current)>>, cur_index + 1)

get_prev ==
  /\ Deref(current) # Null /\ prev[Deref(current)] # Null
  /\ Moves(<<"prev", Deref(current)>>, cur_index - 1)

\* The last element is followed by the first.
get_cycling_next ==
  /\ Deref(current) # Null
  /\ IF next[Deref(current)] = Null THEN Moves(HeadCell, 0)
     ELSE Moves(<<"next", Deref(current)>>, cur_index + 1)

----------------------------------------------------------------------------
(* Sorting.                                                                *)

is_sort == count = sort_count

\* swap_data, on the sequence of the data from the head on.
Exchange(s, j) == IF s[j] > s[j + 1] THEN [s EXCEPT ![j] = s[j + 1], ![j + 1] = s[j]] ELSE s

\* One pass of the inner loop over the first size nodes, which ends at the tail.
Pass(s, size) ==
  LET m == IF size < Len(s) THEN size ELSE Len(s) - 1
      p[j \in 0..m] == IF j = 0 THEN s ELSE Exchange(p[j - 1], j)
  IN p[m]

\* llist_sort: passes of size count, count - 1, ..., 1.
Sort(s) ==
  LET q[i \in 0..count] == IF i = 0 THEN s ELSE Pass(q[i - 1], count - i + 1)
  IN q[count]

\* What sorting is to do, for the ghost: put the elements of s in order.
Reorderings(s) ==
  LET I == 1..Len(s) IN {[i \in I |-> s[p[i]]] : p \in Bijection(I, I)}
Ordered(s) ==
  CHOOSE t \in Reorderings(s) : \A a, b \in 1..Len(s) : a < b => t[a] <= t[b]

sort ==
  LET sorted == Sort([j \in 1..Len(Chain) |-> data[Chain[j]]]) IN
  /\ ~crashed /\ ~is_sort
  /\ sort_count + count <= MaxSort
  /\ sort_count' = sort_count + count
  /\ data' = [n \in Nodes |-> IF n \in ToSet(Chain)
                              THEN sorted[CHOOSE j \in 1..Len(Chain) : Chain[j] = n]
                              ELSE data[n]]
  /\ content' = Ordered(content)
  /\ UNCHANGED <<chain, used, count, cursor, crashed, skewed, popped_last>>

Next ==
  \/ \E n \in Nodes, v \in Values :
       \/ push_empty(n, v) \/ push_front(n, v) \/ push_back(n, v)
       \/ \E i \in 0..Cardinality(Nodes) : push_middle(n, i, v) \/ push_lost(n, i, v)
  \/ \E i \in 0..Cardinality(Nodes) :
       \/ push_crashes(i)
       \/ pop_middle(i) \/ pop_nothing(i) \/ pop_crashes(i) \/ remove_node(i)
       \/ get_of(i) \/ get_crashes(i) \/ scan(i)
  \/ pop_front \/ pop_back \/ clear
  \/ get_next \/ get_prev \/ get_cycling_next
  \/ sort

Spec == Init /\ [][Next]_vars

\* Addresses are interchangeable.
NodeSymmetry == Permutations(Nodes)

----------------------------------------------------------------------------
(* Properties.                                                             *)

\* next and prev are mirror images from head to tail, and every allocated node is
\* on the chain.
ChainLinked ==
  ~skewed =>
    /\ Len(Chain) = count /\ ToSet(Chain) = used
    /\ head = (IF count = 0 THEN Null ELSE Chain[1])
    /\ tail = (IF count = 0 THEN Null ELSE Chain[count])
    /\ \A j \in 1..count : prev[Chain[j]] = IF j = 1 THEN Null ELSE Chain[j - 1]

\* The chain holds what was put in, sorted if llist_sort ran (its passes against
\* the one ordered sequence of the same elements).
ContentKept == ~skewed => [j \in 1..Len(Chain) |-> data[Chain[j]]] = content

\* However calls are mixed, the list is linked both ways, loses no node and holds
\* what was put in.  (Until an index was resolved with a skewed cursor.)
ChainIntact == ChainLinked /\ ContentKept

\* list->current never points into a freed node, skewed or not.
CursorLive == current = HeadCell \/ current[2] \in used

\* cur_index is the index of the node the cursor reads, unless a node was linked
\* or unlinked in the middle after a backward move.
CursorExact ==
  ~skewed => IF count = 0 THEN current = HeadCell /\ cur_index = 0
             ELSE cur_index \in 0..count - 1 /\ Deref(current) = Chain[cur_index + 1]

\* The cursor is never dangling, and exact until it is skewed.
CursorSound == CursorLive /\ CursorExact

\* A call with an index in its accepted range crashes only if the cursor was
\* skewed, or as pop_of(size - 1).
CrashesExplained == crashed => skewed \/ popped_last

\* What cplus_llist_get_of is for, and the test push_randomly of llist.c expects:
\* index i yields the i-th element.
GetOfRight ==
  \A i \in 0..Len(content) - 1 :
    Deref(Locate(i)) # Null /\ data[Deref(Locate(i))] = content[i + 1]
=============================================================================
