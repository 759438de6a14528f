------------------------------ MODULE Mempool ------------------------------
(***************************************************************************)
(* The fixed-block pool of mempool.c: block_count blocks of block_size     *)
(* bytes in one region, free blocks threaded through their own first word  *)
(* and initialised lazily, one block per call of cplus_mempool_alloc.      *)
(*                                                                         *)
(* An address is an offset from mem_start.  The first 32-bit word of each  *)
(* block belongs to the pool while the block is free and to its client     *)
(* while it is allocated.  Calls are serialised: the pool's clients in the *)
(* library (taskpool.c, syslog.c) call it inside their own mutex.  What    *)
(* the pool's own spin lock provides is the subject of module SpinLock.    *)
(***************************************************************************)
EXTENDS Integers, FiniteSets

CONSTANTS block_count,  \* number of blocks of the pool
          block_size,   \* bytes of a block
          Clients,      \* callers of the pool
          Word,         \* values a 32-bit word can have
          UINT32_MOD,   \* 2^32: index_to_addr multiplies in uint32_t
          NULL          \* CPLUS_NULL

\* cplus_mempool_new refuses block_count = 0 and block_size < 4.
ASSUME PoolAssumption ==
  /\ block_count \in Nat \ {0}
  /\ block_size \in Nat /\ block_size >= 4
  \* The size passed to malloc is a product of two uint32_t: a pool is
  \* well-formed only if that product does not wrap.
  /\ UINT32_MOD \in Nat /\ block_size * block_count < UINT32_MOD
ASSUME WordAssumption == 0..block_count \subseteq Word
ASSUME NullAssumption == NULL \notin Int

VARIABLES free_blocks_count, initialized_blocks_count, next_block,
          word,    \* first word of every block
          held,    \* held[c]: the blocks client c was given and not freed
          enomem   \* whether the last call was an alloc that failed with ENOMEM

vars == <<free_blocks_count, initialized_blocks_count, next_block, word, held, enomem>>

index_to_addr(index) == (block_size * index) % UINT32_MOD
addr_to_index(addr) == addr \div block_size

Blocks == {index_to_addr(i) : i \in 0..block_count-1}
Held == UNION {held[c] : c \in Clients}

----------------------------------------------------------------------------
\* mempool_initialize_object: the region is malloc'ed, its words arbitrary.
Init ==
  /\ free_blocks_count = block_count
  /\ initialized_blocks_count = 0
  /\ next_block = 0
  /\ word \in [Blocks -> Word]
  /\ held = [c \in Clients |-> {}]
  /\ enomem = FALSE

\* The lazy initialisation at the head of cplus_mempool_alloc: one more block
\* is linked to its successor, whether or not a block is handed out.
MutInitializedWord ==
  IF initialized_blocks_count < block_count
  THEN [word EXCEPT ![index_to_addr(initialized_blocks_count)] =
                       initialized_blocks_count]
  ELSE word
InitializedWord ==
  IF initialized_blocks_count < block_count
  THEN [word EXCEPT ![index_to_addr(initialized_blocks_count)] =
                       initialized_blocks_count + 1]
  ELSE word

InitializedCount ==
  IF initialized_blocks_count < block_count
  THEN initialized_blocks_count + 1
  ELSE initialized_blocks_count

\* The block after next_block; CPLUS_NULL when the last free block is taken.
NextAfterAlloc ==
  IF free_blocks_count > 1
  THEN index_to_addr(InitializedWord[next_block])
  ELSE NULL

\* cplus_mempool_alloc returning a block (cplus_mempool_alloc_as_index calls
\* it and converts the address).
Alloc(c) ==
  /\ 0 < free_blocks_count
  /\ initialized_blocks_count' = InitializedCount
  /\ word' = InitializedWord
  /\ free_blocks_count' = free_blocks_count - 1
  /\ next_block' = NextAfterAlloc
  /\ held' = [held EXCEPT ![c] = @ \cup {next_block}]
  /\ enomem' = FALSE

\* cplus_mempool_alloc returning CPLUS_NULL with errno ENOMEM.
MutAllocFails ==
  /\ ~ (1 < free_blocks_count)
  /\ initialized_blocks_count' = InitializedCount
  /\ word' = InitializedWord
  /\ enomem' = TRUE
  /\ UNCHANGED <<free_blocks_count, next_block, held>>
AllocFails ==
  /\ ~ (0 < free_blocks_count)
  /\ initialized_blocks_count' = InitializedCount
  /\ word' = InitializedWord
  /\ enomem' = TRUE
  /\ UNCHANGED <<free_blocks_count, next_block, held>>

\* The word cplus_mempool_free writes: the index of the old head of the free
\* list, or block_count when the list is empty.
MutFreedLink == IF next_block # NULL THEN initialized_blocks_count ELSE block_count
FreedLink == IF next_block # NULL THEN addr_to_index(next_block) ELSE block_count

\* cplus_mempool_free (and free_by_index, which converts the index first).
\* Nothing in the code checks addr: freeing only what one was given, once, is
\* the caller's part of the contract.
Free(c, addr) ==
  /\ addr \in held[c]
  /\ word' = [word EXCEPT ![addr] = FreedLink]
  /\ next_block' = addr
  /\ free_blocks_count' = free_blocks_count + 1
  /\ held' = [held EXCEPT ![c] = @ \ {addr}]
  /\ enomem' = FALSE
  /\ UNCHANGED initialized_blocks_count

\* A client writes into a block it holds: the link word is client memory.
ClientWrite(c, addr, w) ==
  /\ addr \in held[c]
  /\ word' = [word EXCEPT ![addr] = w]
  /\ UNCHANGED <<free_blocks_count, initialized_blocks_count, next_block, held, enomem>>

Next ==
  \/ \E c \in Clients : Alloc(c)
  \/ AllocFails
  \/ \E c \in Clients : \E addr \in held[c] : Free(c, addr)
  \/ \E c \in Clients, w \in Word : \E addr \in held[c] : ClientWrite(c, addr, w)

Spec == Init /\ [][Next]_vars

----------------------------------------------------------------------------
(* Properties.                                                             *)

\* The counters, the head of the free list and the words have their types.
TypeOK ==
  /\ free_blocks_count \in Nat
  /\ initialized_blocks_count \in 0..block_count
  /\ next_block \in Blocks \cup {NULL}
  /\ word \in [Blocks -> Word]
  /\ held \in [Clients -> SUBSET Blocks]
  /\ enomem \in BOOLEAN

\* A block is in the hands of at most one client: no interleaving of alloc,
\* free and client writes makes cplus_mempool_alloc hand out a block that is
\* still in use.
Exclusive ==
  \A c, d \in Clients : c # d => held[c] \cap held[d] = {}

\* Where the links lead from a free block: an uninitialised block stands for
\* one linked to its successor.
link(addr) ==
  IF addr_to_index(addr) < initialized_blocks_count
  THEN word[addr]
  ELSE addr_to_index(addr) + 1

\* The last part of the list s of f free blocks, i blocks being initialised, is
\* the never-initialised tail of the region, in address order.
FreshTail(s, f, i) ==
  \A k \in 1..f :
    IF k > f - (block_count - i)
    THEN s[k] = index_to_addr(block_count - 1 - f + k)
    ELSE addr_to_index(s[k]) < i

\* s lists the free blocks in the order the links visit them.
IsFreeChain(s) ==
  /\ free_blocks_count > 0 => s[1] = next_block
  /\ \A k \in 1..free_blocks_count-1 : s[k+1] = index_to_addr(link(s[k]))
  /\ \A j, k \in 1..free_blocks_count : s[j] = s[k] => j = k
  /\ \A b \in Blocks : b \notin Held <=> \E k \in 1..free_blocks_count : s[k] = b
  /\ FreshTail(s, free_blocks_count, initialized_blocks_count)

\* The free list threaded through the blocks has free_blocks_count links, no
\* cycle, and visits exactly the blocks no client holds: nothing a client
\* writes, and no order of frees, loses a block or links a block in use.
FreeListIntact ==
  /\ block_count - initialized_blocks_count <= free_blocks_count
  /\ free_blocks_count = 0 <=> next_block = NULL
  /\ \E s \in [1..free_blocks_count -> Blocks] : IsFreeChain(s)

\* After a cplus_mempool_alloc that failed with ENOMEM, and until the next call,
\* every block of the pool is in some client's hands: no order of calls makes the
\* pool refuse while a block is free, and none is lost.
FailsOnlyWhenExhausted == enomem => Held = Blocks

\* free_blocks_count, which callers read, is the number of blocks not in use.
CountExact == free_blocks_count + Cardinality(Held) = block_count
=============================================================================
