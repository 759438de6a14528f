------------------------------ MODULE MCMemory ------------------------------
(***************************************************************************)
(* Model checking the memory managers and the locks around shared memory:  *)
(* the block pool, the allocation ledger, the reader-writer lock and named *)
(* mutexes.  They share no variable, so each behaviour is one of one of    *)
(* them: part says of which.                                               *)
(***************************************************************************)
EXTENDS Mempool

CONSTANTS RWThreads, MaxDepth,
          Procs, MaxSegments,
          Users, MaxBlocks, MaxFaults, MaxCalls

ASSUME MemoryAssumption ==
  /\ IsFiniteSet(RWThreads) /\ MaxDepth \in Nat
  /\ MaxBlocks \in Nat

VARIABLES part,
          rw_writer, rw_readers, rw_locked, rw_count, rw_pc, rw_reg, rw_res,
          nm_name, nm_segs, nm_pc, nm_shmem, nm_inside, nm_ill,
          mm_heap, mm_held, mm_overrun, mm_live, mm_node, mm_start, mm_last, mm_num,
          mm_pc, mm_op, mm_arg, mm_ptr, mm_stale, mm_faults, mm_calls

rwVars == <<rw_writer, rw_readers, rw_locked, rw_count, rw_pc, rw_reg, rw_res>>
nmVars == <<nm_name, nm_segs, nm_pc, nm_shmem, nm_inside, nm_ill>>
mmVars == <<mm_heap, mm_held, mm_overrun, mm_live, mm_node, mm_start, mm_last, mm_num,
            mm_pc, mm_op, mm_arg, mm_ptr, mm_stale, mm_faults, mm_calls>>
mcVars == <<part, vars, rwVars, nmVars, mmVars>>

RW == INSTANCE RWLock WITH
  Threads <- RWThreads, Overlap <- FALSE, writer <- rw_writer, readers <- rw_readers,
  st_locked <- rw_locked, count_rdlocked <- rw_count, pc <- rw_pc, reg <- rw_reg,
  res <- rw_res

NM == INSTANCE NamedMutex WITH
  name <- nm_name, segs <- nm_segs, pc <- nm_pc, shmem <- nm_shmem,
  inside <- nm_inside, ill <- nm_ill

MM == INSTANCE MemMgr WITH
  Threads <- Users, Blocks <- 1..MaxBlocks, Nodes <- 1..MaxBlocks, heap <- mm_heap,
  held <- mm_held, overrun <- mm_overrun, live <- mm_live, node <- mm_node,
  ptr_info_start <- mm_start, ptr_info_last <- mm_last, inused_mem_num <- mm_num,
  pc <- mm_pc, op <- mm_op, arg <- mm_arg, ptr <- mm_ptr, stale <- mm_stale,
  faults <- mm_faults, calls <- mm_calls

\* The parts that stand still start in one of their initial states.
MCInit ==
  /\ part \in {"mempool", "rwlock", "mutex", "memmgr"}
  /\ Init /\ RW!Init /\ NM!Init /\ MM!Init
  /\ part # "mempool" => \A addr \in Blocks : word[addr] = 0

MCNext ==
  \/ part = "mempool" /\ Next /\ UNCHANGED <<part, rwVars, nmVars, mmVars>>
  \/ part = "rwlock" /\ RW!Next /\ UNCHANGED <<part, vars, nmVars, mmVars>>
  \/ part = "mutex" /\ NM!Next /\ UNCHANGED <<part, vars, rwVars, mmVars>>
  \/ part = "memmgr" /\ MM!Next /\ UNCHANGED <<part, vars, rwVars, nmVars>>

MCSpec == MCInit /\ [][MCNext]_mcVars

\* Between calls, the fields of rwlock.c describe its pthread lock (RWLock).
BookkeepingExact == RW!BookkeepingExact

\* One process at a time is inside the section of the name, unless a window of
\* the code was hit (NamedMutex).
NamedExclusion == NM!NamedExclusion

\* Nobody maps more than the segment of the name has, and the name does not
\* outlive its owner (NamedMutex).
SegmentSound == NM!SegmentSound

\* The allocation ledger is whole and exact (MemMgr).
LedgerExact == MM!LedgerExact

\* A block written past its end is not given back unnoticed (MemMgr).
OverrunCaught == MM!OverrunCaught
=============================================================================
