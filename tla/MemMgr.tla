------------------------------- MODULE MemMgr -------------------------------
(***************************************************************************)
(* The allocation ledger of memmgr.c (__CPLUS_MEM_MANAGER__): a linked list*)
(* of records under a pthread rwlock.  What runs under the lock is one     *)
(* action; find_mem_info and erase_mem_info load ptr_info_start before they*)
(* take it, and check_boundary uses the record it found after its release. *)
(***************************************************************************)
EXTENDS Naturals, FiniteSets, SequencesExt

CONSTANTS Threads,
          Blocks,       \* addresses libc can hand out for blocks, from 1
          Nodes,        \* addresses it can hand out for records, from 1
          MaxFaults,    \* bound: end tags overwritten and records not obtained
          MaxCalls      \* bound: calls made

VARIABLES heap,         \* the blocks libc has handed out
          held,         \* held[t]: the blocks t got from cplus_malloc
          overrun,      \* the blocks whose end tag has been overwritten
          live,         \* the records handed out
          node,         \* node[n]: mem_ref and next of record n
          ptr_info_start, ptr_info_last, inused_mem_num,
          pc, op, arg,  \* what t is doing, in which call, to which block
          ptr,          \* ptr[t]: ptr_temp before the lock, info after it
          stale,        \* history: a walk began at what was no longer the start
          faults,       \* history: end tags overwritten and records not obtained
          calls         \* history: calls made

vars == <<heap, held, overrun, live, node, ptr_info_start, ptr_info_last,
          inused_mem_num, pc, op, arg, ptr, stale, faults, calls>>

ledger == <<live, node, ptr_info_start, ptr_info_last, inused_mem_num>>

Nil == 0
NoBlock == 0
Blank == [mem_ref |-> NoBlock, next |-> Nil]

\* A walk of k - 1 records from n, and the next one if it ended there.
Follow(n, walk, k) ==
  LET m == IF k = 1 THEN n ELSE node[Last(walk)].next
  IN IF Len(walk) < k - 1 THEN walk ELSE IF m = Nil THEN walk ELSE Append(walk, m)

\* The records the code meets when it walks from n (cut off if it goes round).
Walk(n) ==
  LET w[k \in 0..Cardinality(Nodes)] ==
        IF k = 0 THEN <<>> ELSE Follow(n, w[k - 1], k)
  IN w[Cardinality(Nodes)]

\* The place of b's record in a walk, 0 if it is not met.
Place(w, b) == SelectInSeq(w, LAMBDA n : node[n].mem_ref = b)

\* libc hands out its lowest free address: which one it is makes no difference
\* to the code, only that a freed one comes back.
FirstFree(x, used) == \A y \in 1..(x - 1) : y \in used

abort == pc' = [u \in Threads |-> "aborted"]
Goto(t, l) == pc' = [pc EXCEPT ![t] = l]

Init ==
  /\ heap = {} /\ held = [t \in Threads |-> {}] /\ overrun = {}
  /\ live = {} /\ node = [n \in Nodes |-> Blank]
  /\ ptr_info_start = Nil /\ ptr_info_last = Nil /\ inused_mem_num = 0
  /\ pc = [t \in Threads |-> "idle"] /\ op = [t \in Threads |-> "none"]
  /\ arg = [t \in Threads |-> NoBlock] /\ ptr = [t \in Threads |-> Nil]
  /\ stale = FALSE /\ faults = 0 /\ calls = 0

----------------------------------------------------------------------------
(* The calls.                                                              *)

\* cplus_mgr_malloc up to add_mem_info.
malloc(t, b) ==
  /\ pc[t] = "idle" /\ calls < MaxCalls /\ b \notin heap /\ FirstFree(b, heap)
  /\ heap' = heap \cup {b}
  /\ Goto(t, "add") /\ arg' = [arg EXCEPT ![t] = b]
  /\ op' = [op EXCEPT ![t] = "malloc"]
  /\ calls' = calls + 1
  /\ UNCHANGED <<held, overrun, ledger, ptr, stale, faults>>

\* cplus_mgr_free, _realloc and _check_boundary begin with find_mem_info.
call(t, o, b) ==
  /\ pc[t] = "idle" /\ calls < MaxCalls /\ b \in held[t]
  /\ ptr' = [ptr EXCEPT ![t] = ptr_info_start]
  /\ Goto(t, "find") /\ arg' = [arg EXCEPT ![t] = b] /\ op' = [op EXCEPT ![t] = o]
  /\ calls' = calls + 1
  /\ UNCHANGED <<heap, held, overrun, ledger, stale, faults>>

\* The program writes past the end of a block it holds.
overwrite(t, b) ==
  /\ pc[t] = "idle" /\ b \in held[t] /\ faults < MaxFaults
  /\ faults' = faults + 1
  /\ overrun' = overrun \cup {b}
  /\ UNCHANGED <<heap, held, ledger, pc, op, arg, ptr, stale, calls>>

Return(t) ==
  /\ Goto(t, "idle") /\ op' = [op EXCEPT ![t] = "none"]
  /\ arg' = [arg EXCEPT ![t] = NoBlock] /\ ptr' = [ptr EXCEPT ![t] = Nil]

\* The walk starts where ptr_info_start pointed before the lock was taken: that
\* record may have been freed, and reused, since.  An empty list is not stale.
Stale(t) == ptr[t] \notin {Nil, ptr_info_start}

find_mem_info(t) ==
  /\ pc[t] = "find" /\ ~Stale(t)
  /\ LET w == Walk(ptr[t])
         i == Place(w, arg[t])
     IN ptr' = [ptr EXCEPT ![t] = IF i = 0 THEN Nil ELSE w[i]]
  /\ Goto(t, "check")
  /\ UNCHANGED <<heap, held, overrun, ledger, op, arg, stale, faults, calls>>

\* Mutant: the boundary is not compared.
check_boundary_blind(t) ==
  /\ pc[t] = "check"
  /\ \/ op[t] = "check" /\ Return(t)
     \/ /\ op[t] # "check"
        /\ Goto(t, "erase") /\ ptr' = [ptr EXCEPT ![t] = ptr_info_start]
        /\ UNCHANGED <<op, arg>>
  /\ UNCHANGED <<heap, held, overrun, ledger, stale, faults, calls>>

\* check_boundary after find_mem_info: a block without a record passes.  A call
\* of cplus_mgr_check_boundary ends; free and realloc go on to erase_mem_info.
check_boundary(t) ==
  /\ pc[t] = "check"
  /\ ptr[t] = Nil \/ arg[t] \notin overrun
  /\ \/ op[t] = "check" /\ Return(t)
     \/ /\ op[t] # "check"
        /\ Goto(t, "erase") /\ ptr' = [ptr EXCEPT ![t] = ptr_info_start]
        /\ UNCHANGED <<op, arg>>
  /\ UNCHANGED <<heap, held, overrun, ledger, stale, faults, calls>>

\* "[OVERFLOW]": the check reports it, free and realloc fail their assertion.
check_fails(t) ==
  /\ pc[t] = "check"
  /\ ptr[t] # Nil /\ arg[t] \in overrun
  /\ \/ op[t] = "check" /\ Return(t)
     \/ op[t] # "check" /\ abort /\ UNCHANGED <<op, arg, ptr>>
  /\ UNCHANGED <<heap, held, overrun, ledger, stale, faults, calls>>

\* Mutant: the last record is unlinked like one in the middle.
unlink_middle(w, i) ==
  /\ ptr_info_start' = IF w[i] = ptr_info_start THEN node[w[i]].next ELSE ptr_info_start
  /\ ptr_info_last' = ptr_info_last
  /\ node' = [n \in Nodes |->
                IF n = w[i] THEN Blank
                ELSE IF w[i] # ptr_info_start /\ n = w[i - 1]
                     THEN [node[n] EXCEPT !.next = node[w[i]].next] ELSE node[n]]
  /\ live' = live \ {w[i]}
  /\ inused_mem_num' = inused_mem_num - 1

\* Unlinking the record w[i] of the walk w.
unlink(w, i) ==
  /\ ptr_info_start' = IF w[i] = ptr_info_start THEN node[w[i]].next ELSE ptr_info_start
  /\ ptr_info_last' = IF w[i] # ptr_info_start /\ w[i] = ptr_info_last
                      THEN w[i - 1] ELSE ptr_info_last
  /\ node' = [n \in Nodes |->
                IF n = w[i] THEN Blank
                ELSE IF w[i] # ptr_info_start /\ n = w[i - 1]
                     THEN [node[n] EXCEPT !.next = node[w[i]].next] ELSE node[n]]
  /\ live' = live \ {w[i]}
  /\ inused_mem_num' = inused_mem_num - 1

erase_mem_info(t) ==
  /\ pc[t] = "erase" /\ ~Stale(t)
  /\ LET w == Walk(ptr[t])
         i == Place(w, arg[t])
     IN IF i = 0 THEN UNCHANGED ledger ELSE unlink(w, i)
  /\ Goto(t, "release")
  /\ UNCHANGED <<heap, held, overrun, op, arg, ptr, stale, faults, calls>>

\* The walk begins at freed or reused memory.  Whatever it does is undefined,
\* and the properties say nothing of what follows.
wild(t) ==
  /\ pc[t] \in {"find", "erase"} /\ Stale(t)
  /\ stale' = TRUE
  /\ abort
  /\ UNCHANGED <<heap, held, overrun, ledger, op, arg, ptr, faults, calls>>

\* free(entire), or a realloc that fails or shrinks to nothing: the block goes.
release(t) ==
  /\ pc[t] = "release"
  /\ heap' = heap \ {arg[t]} /\ overrun' = overrun \ {arg[t]}
  /\ held' = [held EXCEPT ![t] = @ \ {arg[t]}]
  /\ Return(t)
  /\ UNCHANGED <<ledger, stale, faults, calls>>

\* realloc(entire, new_size): the block moves to b, or stays; its tags are new.
realloc(t, b) ==
  /\ pc[t] = "release" /\ op[t] = "realloc" /\ b \notin heap \ {arg[t]}
  /\ b = arg[t] \/ FirstFree(b, heap)
  /\ heap' = (heap \ {arg[t]}) \cup {b}
  /\ overrun' = overrun \ {arg[t]}
  /\ held' = [held EXCEPT ![t] = @ \ {arg[t]}]
  /\ Goto(t, "add") /\ arg' = [arg EXCEPT ![t] = b]
  /\ UNCHANGED <<ledger, op, ptr, stale, faults, calls>>

\* add_mem_info with the record n, and the return from the call.
add_mem_info(t, n) ==
  /\ pc[t] = "add" /\ n \notin live /\ FirstFree(n, live)
  /\ live' = live \cup {n}
  /\ node' = [m \in Nodes |->
                IF m = n THEN [mem_ref |-> arg[t], next |-> Nil]
                ELSE IF ptr_info_start # Nil /\ m = ptr_info_last
                     THEN [node[m] EXCEPT !.next = n] ELSE node[m]]
  /\ ptr_info_start' = IF ptr_info_start = Nil THEN n ELSE ptr_info_start
  /\ ptr_info_last' = n
  /\ inused_mem_num' = inused_mem_num + 1
  /\ held' = [held EXCEPT ![t] = @ \cup {arg[t]}]
  /\ Return(t)
  /\ UNCHANGED <<heap, overrun, stale, faults, calls>>

\* There is no memory for the record: the block is given out without one.
add_fails(t) ==
  /\ pc[t] = "add" /\ faults < MaxFaults
  /\ faults' = faults + 1
  /\ held' = [held EXCEPT ![t] = @ \cup {arg[t]}]
  /\ Return(t)
  /\ UNCHANGED <<heap, overrun, ledger, stale, calls>>

Next ==
  \E t \in Threads :
    \/ \E b \in Blocks :
         \/ malloc(t, b) \/ overwrite(t, b) \/ realloc(t, b)
         \/ \E o \in {"free", "realloc", "check"} : call(t, o, b)
    \/ find_mem_info(t) \/ check_boundary(t) \/ check_fails(t) \/ erase_mem_info(t)
    \/ wild(t) \/ release(t) \/ (\E n \in Nodes : add_mem_info(t, n)) \/ add_fails(t)

Spec == Init /\ [][Next]_vars

----------------------------------------------------------------------------
(* Properties.                                                             *)

Records == Walk(ptr_info_start)
InHand == {b \in heap : \E t \in Threads : b \in held[t] /\ ~(arg[t] = b /\ pc[t] = "release")}

\* Until a walk begins at a stale start, the chain cplus_mgr_report prints is
\* whole: it ends at ptr_info_last, is all the records there are, counts
\* inused_mem_num, and names each block once and only blocks still in hand.
LedgerExact ==
  ~stale =>
    /\ ToSet(Records) = live /\ Len(Records) = inused_mem_num
    /\ Records # <<>> => Last(Records) = ptr_info_last
    /\ \A i, j \in 1..Len(Records) :
         node[Records[i]].mem_ref = node[Records[j]].mem_ref => i = j
    /\ \A n \in live : node[n].mem_ref \in InHand

\* The record check_boundary reads after the lock is released is still the
\* record of its block, and a block whose end was overwritten is not given
\* back to libc as long as it had a record.
OverrunCaught ==
  ~stale =>
    \A t \in Threads :
      /\ pc[t] = "check" /\ ptr[t] # Nil => ptr[t] \in live /\ node[ptr[t]].mem_ref = arg[t]
      /\ pc[t] = "erase" /\ arg[t] \in overrun => \A n \in live : node[n].mem_ref # arg[t]
=============================================================================
