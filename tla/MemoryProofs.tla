---------------------------- MODULE MemoryProofs ----------------------------
(***************************************************************************)
(* Proofs about the parts of MCMemory: the block pool, for every number    *)
(* and size of blocks, every set of clients and every content of the       *)
(* words; the reader-writer lock, for any number of threads; named         *)
(* mutexes, for any number of processes and segments; and the allocation   *)
(* ledger, for any number of threads and blocks.                           *)
(***************************************************************************)
EXTENDS MCMemory, FiniteSetTheorems, SequenceTheorems, WellFoundedInduction, TLAPS

----------------------------------------------------------------------------
(* The block pool.  The inductive invariant is the free chain itself: a    *)
(* list of the free blocks in link order whose last block_count -          *)
(* initialized_blocks_count entries are the untouched tail of the region.  *)
(* The chain is quantified existentially, so no recursive definition of    *)
(* following the links is needed.                                          *)

IInv == TypeOK /\ Exclusive /\ FreeListIntact

\* Multiplying by the block size is undone by dividing: the arithmetic of
\* index_to_addr and addr_to_index below 2^32.
LEMMA AddrInverse ==
  ASSUME NEW i \in 0..block_count-1
  PROVE  /\ index_to_addr(i) \in Nat
         /\ addr_to_index(index_to_addr(i)) = i
<1>1. block_size * i \in Nat /\ block_size * i < UINT32_MOD
  <2>1. block_size * i \in Nat
    BY PoolAssumption
  <2>2. block_size * i <= block_size * block_count
    BY PoolAssumption
  <2> QED
    BY <2>1, <2>2, PoolAssumption
<1>2. index_to_addr(i) = block_size * i
  BY <1>1, PoolAssumption DEF index_to_addr
<1>3. (block_size * i) \div block_size = i
  BY PoolAssumption
<1> QED
  BY <1>1, <1>2, <1>3 DEF addr_to_index

\* Blocks and indices are in one-to-one correspondence.
LEMMA BlockIndex ==
  ASSUME NEW b \in Blocks
  PROVE  /\ addr_to_index(b) \in 0..block_count-1
         /\ index_to_addr(addr_to_index(b)) = b
         /\ b # NULL
<1>1. PICK i \in 0..block_count-1 : b = index_to_addr(i)
  BY DEF Blocks
<1> QED
  BY <1>1, AddrInverse, NullAssumption

LEMMA FirstBlock == index_to_addr(0) = 0 /\ 0 \in Blocks
<1>1. index_to_addr(0) = 0
  BY PoolAssumption DEF index_to_addr
<1>2. 0 \in 0..block_count-1
  BY PoolAssumption
<1> QED
  BY <1>1, <1>2 DEF Blocks

----------------------------------------------------------------------------
LEMMA InitIInv == Init => IInv
<1> SUFFICES ASSUME Init PROVE IInv
  OBVIOUS
<1> DEFINE s == [k \in 1..block_count |-> index_to_addr(k - 1)]
<1>1. TypeOK /\ Exclusive
  <2>1. /\ free_blocks_count \in Nat /\ initialized_blocks_count \in 0..block_count
        /\ next_block \in Blocks \cup {NULL}
    BY FirstBlock, PoolAssumption DEF Init
  <2>2. word \in [Blocks -> Word] /\ held \in [Clients -> SUBSET Blocks] /\ enomem \in BOOLEAN
    BY DEF Init
  <2>3. Exclusive
    BY DEF Init, Exclusive
  <2> QED
    BY <2>1, <2>2, <2>3 DEF TypeOK
<1>2. s \in [1..free_blocks_count -> Blocks]
  BY PoolAssumption DEF Init, Blocks
<1>3. IsFreeChain(s)
  <2>1. \A k \in 1..block_count : addr_to_index(s[k]) = k - 1
    BY AddrInverse, PoolAssumption
  <2>2. free_blocks_count > 0 => s[1] = next_block
    BY FirstBlock, PoolAssumption DEF Init
  <2>3. \A k \in 1..free_blocks_count-1 : s[k+1] = index_to_addr(link(s[k]))
    BY <2>1, PoolAssumption DEF Init, link
  <2>4. \A j, k \in 1..free_blocks_count : s[j] = s[k] => j = k
    BY <2>1, PoolAssumption DEF Init
  <2>5. \A b \in Blocks : b \notin Held <=> \E k \in 1..free_blocks_count : s[k] = b
    <3>1. Held = {}
      BY DEF Init, Held
    <3>2. ASSUME NEW b \in Blocks PROVE \E k \in 1..free_blocks_count : s[k] = b
      <4>1. PICK i \in 0..block_count-1 : b = index_to_addr(i)
        BY DEF Blocks
      <4>2. i + 1 \in 1..free_blocks_count /\ s[i + 1] = b
        BY <4>1, PoolAssumption DEF Init
      <4> QED
        BY <4>2
    <3> QED
      BY <3>1, <3>2
  <2>6. FreshTail(s, free_blocks_count, initialized_blocks_count)
    <3> SUFFICES ASSUME NEW k \in 1..block_count
                 PROVE  s[k] = index_to_addr(block_count - 1 - block_count + k)
      BY PoolAssumption DEF Init, FreshTail
    <3>1. k - 1 = block_count - 1 - block_count + k
      BY PoolAssumption
    <3> QED
      BY <3>1
  <2> QED
    BY <2>2, <2>3, <2>4, <2>5, <2>6 DEF IsFreeChain
<1>4. FreeListIntact
  BY <1>2, <1>3, FirstBlock, NullAssumption, PoolAssumption DEF Init, FreeListIntact
<1> QED
  BY <1>1, <1>4 DEF IInv

\* Facts about the chain that every step uses: the head is free, a block that
\* is in use has been initialised, and an uninitialised head is the first
\* uninitialised block.
LEMMA FreeChainFacts ==
  ASSUME TypeOK, NEW s \in [1..free_blocks_count -> Blocks], IsFreeChain(s),
         block_count - initialized_blocks_count <= free_blocks_count
  PROVE  /\ free_blocks_count > 0 => next_block \in Blocks /\ next_block \notin Held
         /\ \A b \in Blocks : b \in Held => addr_to_index(b) < initialized_blocks_count
         /\ \A k \in 1..free_blocks_count :
              addr_to_index(s[k]) >= initialized_blocks_count =>
                /\ k > free_blocks_count - (block_count - initialized_blocks_count)
                /\ addr_to_index(s[k]) = block_count - 1 - free_blocks_count + k
<1>1. free_blocks_count > 0 => next_block \in Blocks /\ next_block \notin Held
  <2> SUFFICES ASSUME free_blocks_count > 0
               PROVE  next_block \in Blocks /\ next_block \notin Held
    OBVIOUS
  <2>1. 1 \in 1..free_blocks_count
    BY DEF TypeOK
  <2>2. s[1] = next_block /\ s[1] \in Blocks
    BY <2>1 DEF IsFreeChain, FreshTail
  <2> QED
    BY <2>1, <2>2 DEF IsFreeChain, FreshTail
<1>2. ASSUME NEW b \in Blocks, b \in Held
      PROVE addr_to_index(b) < initialized_blocks_count
  <2> SUFFICES ASSUME ~ (addr_to_index(b) < initialized_blocks_count) PROVE FALSE
    OBVIOUS
  <2> DEFINE k == addr_to_index(b) - block_count + 1 + free_blocks_count
  <2>1. /\ addr_to_index(b) \in 0..block_count-1
        /\ index_to_addr(addr_to_index(b)) = b
    BY BlockIndex
  <2>2. /\ k \in 1..free_blocks_count
        /\ k > free_blocks_count - (block_count - initialized_blocks_count)
        /\ block_count - 1 - free_blocks_count + k = addr_to_index(b)
    BY <2>1, PoolAssumption DEF TypeOK
  <2>3. s[k] = index_to_addr(block_count - 1 - free_blocks_count + k)
    BY <2>2 DEF IsFreeChain, FreshTail
  <2>4. s[k] = b
    BY <2>1, <2>2, <2>3
  <2> QED
    BY <1>2, <2>2, <2>4 DEF IsFreeChain, FreshTail
<1>3. ASSUME NEW k \in 1..free_blocks_count,
             addr_to_index(s[k]) >= initialized_blocks_count
      PROVE  /\ k > free_blocks_count - (block_count - initialized_blocks_count)
             /\ addr_to_index(s[k]) = block_count - 1 - free_blocks_count + k
  <2>1. s[k] \in Blocks /\ addr_to_index(s[k]) \in 0..block_count-1
    BY BlockIndex
  <2>2. k > free_blocks_count - (block_count - initialized_blocks_count)
    BY <1>3, <2>1 DEF IsFreeChain, FreshTail, TypeOK
  <2>3. s[k] = index_to_addr(block_count - 1 - free_blocks_count + k)
    BY <2>2 DEF IsFreeChain, FreshTail
  <2>4. block_count - 1 - free_blocks_count + k \in 0..block_count-1
    BY <2>2, PoolAssumption DEF TypeOK
  <2> QED
    BY <2>2, <2>3, <2>4, AddrInverse
<1> QED
  BY <1>1, <1>2, <1>3

\* Initialising one more block does not change where any free block leads.
LEMMA LinkStable ==
  ASSUME TypeOK, NEW b \in Blocks,
         initialized_blocks_count' = InitializedCount, word' = InitializedWord
  PROVE  link(b)' = link(b)
<1>1. addr_to_index(b) \in 0..block_count-1 /\ index_to_addr(addr_to_index(b)) = b
  BY BlockIndex
<1>2. CASE initialized_blocks_count < block_count
  <2>1. initialized_blocks_count \in 0..block_count-1
    BY <1>2, PoolAssumption DEF TypeOK
  <2>2. addr_to_index(index_to_addr(initialized_blocks_count)) = initialized_blocks_count
    BY <2>1, AddrInverse
  <2>3. CASE addr_to_index(b) = initialized_blocks_count
    <3>1. word'[b] = initialized_blocks_count + 1
      BY <1>1, <1>2, <2>3 DEF TypeOK, InitializedWord
    <3> QED
      BY <1>2, <2>1, <2>3, <3>1 DEF link, InitializedCount
  <2>4. CASE addr_to_index(b) # initialized_blocks_count
    <3>1. word'[b] = word[b]
      BY <1>2, <2>2, <2>4 DEF TypeOK, InitializedWord
    <3> QED
      BY <1>1, <1>2, <2>1, <2>4, <3>1 DEF link, InitializedCount
  <2> QED
    BY <2>3, <2>4
<1>3. CASE ~ (initialized_blocks_count < block_count)
  BY <1>3 DEF link, InitializedCount, InitializedWord
<1> QED
  BY <1>2, <1>3

\* The head's new successor is the second block of the chain.
LEMMA SecondBlock ==
  ASSUME TypeOK, NEW s \in [1..free_blocks_count -> Blocks], IsFreeChain(s),
         block_count - initialized_blocks_count <= free_blocks_count,
         free_blocks_count > 1
  PROVE  index_to_addr(InitializedWord[next_block]) = s[2]
<1>1. 1 \in 1..free_blocks_count /\ 1 \in 1..free_blocks_count-1 /\ 1 + 1 = 2
  BY DEF TypeOK
<1>2. s[1] = next_block /\ s[1] \in Blocks /\ s[2] = index_to_addr(link(s[1]))
  BY <1>1 DEF IsFreeChain, FreshTail, TypeOK
<1>3. addr_to_index(s[1]) \in 0..block_count-1 /\ index_to_addr(addr_to_index(s[1])) = s[1]
  BY <1>2, BlockIndex
<1>4. InitializedWord[s[1]] = link(s[1])
  <2>1. CASE addr_to_index(s[1]) < initialized_blocks_count
    <3>1. CASE initialized_blocks_count < block_count
      <4>1. initialized_blocks_count \in 0..block_count-1
        BY <3>1, PoolAssumption DEF TypeOK
      <4>2. index_to_addr(initialized_blocks_count) # s[1]
        BY <2>1, <4>1, <1>3, AddrInverse
      <4> QED
        BY <1>2, <2>1, <3>1, <4>2 DEF InitializedWord, link, TypeOK
    <3>2. CASE ~ (initialized_blocks_count < block_count)
      BY <2>1, <3>2 DEF InitializedWord, link
    <3> QED
      BY <3>1, <3>2
  <2>2. CASE ~ (addr_to_index(s[1]) < initialized_blocks_count)
    <3>1. /\ 1 > free_blocks_count - (block_count - initialized_blocks_count)
          /\ addr_to_index(s[1]) = block_count - 1 - free_blocks_count + 1
      BY <1>1, <1>3, <2>2, FreeChainFacts DEF TypeOK
    <3>2. addr_to_index(s[1]) = initialized_blocks_count
      BY <1>3, <2>2, <3>1, PoolAssumption DEF TypeOK
    <3>3. initialized_blocks_count < block_count
      BY <1>3, <3>2, PoolAssumption
    <3> QED
      BY <1>2, <1>3, <2>2, <3>2, <3>3 DEF InitializedWord, link, TypeOK
  <2> QED
    BY <2>1, <2>2
<1> QED
  BY <1>2, <1>4

LEMMA InitializedTypes ==
  ASSUME TypeOK
  PROVE  InitializedCount \in 0..block_count /\ InitializedWord \in [Blocks -> Word]
<1>1. InitializedCount \in 0..block_count
  BY PoolAssumption DEF TypeOK, InitializedCount
<1>2. InitializedWord \in [Blocks -> Word]
  <2>1. initialized_blocks_count < block_count => initialized_blocks_count + 1 \in Word
    BY PoolAssumption, WordAssumption DEF TypeOK
  <2> QED
    BY <2>1 DEF TypeOK, InitializedWord
<1> QED
  BY <1>1, <1>2

\* cplus_mempool_alloc drops the head of the chain.
LEMMA AllocIInv ==
  ASSUME IInv, NEW c \in Clients, Alloc(c)
  PROVE  IInv'
<1> USE DEF Alloc
<1>0. TypeOK /\ Exclusive /\ FreeListIntact
  BY DEF IInv
<1>1. PICK s \in [1..free_blocks_count -> Blocks] : IsFreeChain(s)
  BY <1>0 DEF FreeListIntact
<1>2. /\ block_count - initialized_blocks_count <= free_blocks_count
      /\ free_blocks_count \in Nat /\ free_blocks_count > 0
      /\ initialized_blocks_count \in 0..block_count
  BY <1>0 DEF FreeListIntact, TypeOK
<1>3. next_block \in Blocks /\ next_block \notin Held /\ s[1] = next_block
  BY <1>0, <1>1, <1>2, FreeChainFacts DEF IsFreeChain, FreshTail
<1>4. free_blocks_count > 1 => NextAfterAlloc = s[2] /\ s[2] \in Blocks
  <2> SUFFICES ASSUME free_blocks_count > 1
               PROVE  NextAfterAlloc = s[2] /\ s[2] \in Blocks
    OBVIOUS
  <2>1. NextAfterAlloc = s[2]
    BY <1>0, <1>1, <1>2, SecondBlock DEF NextAfterAlloc
  <2> QED
    BY <1>2, <2>1
<1>5. Held' = Held \cup {next_block}
  BY <1>0 DEF Held, TypeOK
<1>6. TypeOK'
  <2>1. next_block' \in Blocks \cup {NULL}
    BY <1>2, <1>4 DEF NextAfterAlloc
  <2>2. held' \in [Clients -> SUBSET Blocks]
    BY <1>0, <1>3 DEF TypeOK
  <2>3. free_blocks_count' \in Nat
    BY <1>2
  <2> QED
    BY <1>0, <2>1, <2>2, <2>3, InitializedTypes DEF TypeOK
<1>7. Exclusive'
  BY <1>0, <1>3 DEF Exclusive, TypeOK, Held
<1>8. PICK t \in [1..free_blocks_count-1 -> Blocks] :
        \A k \in 1..free_blocks_count-1 : t[k] = s[k+1]
  <2> DEFINE u == [k \in 1..free_blocks_count-1 |-> s[k+1]]
  <2>1. u \in [1..free_blocks_count-1 -> Blocks]
    BY <1>2
  <2>2. \A k \in 1..free_blocks_count-1 : u[k] = s[k+1]
    OBVIOUS
  <2> QED
    BY <2>1, <2>2
<1>9. \A k \in 1..free_blocks_count-1 : k + 1 \in 1..free_blocks_count /\ t[k] = s[k+1]
  BY <1>2, <1>8
<1>10. IsFreeChain(t)'
  <2>1. (free_blocks_count > 0 => t[1] = next_block)'
    <3> SUFFICES ASSUME free_blocks_count - 1 > 0 PROVE t[1] = NextAfterAlloc
      OBVIOUS
    <3>1. 1 \in 1..free_blocks_count-1 /\ 1 + 1 = 2 /\ free_blocks_count > 1
      BY <1>2
    <3> QED
      BY <3>1, <1>4, <1>9
  <2>2. (\A k \in 1..free_blocks_count-1 : t[k+1] = index_to_addr(link(t[k])))'
    <3> SUFFICES ASSUME NEW k \in 1..free_blocks_count-1-1
                 PROVE  t[k+1] = index_to_addr(link(t[k])')
      OBVIOUS
    <3>1. /\ k \in 1..free_blocks_count-1 /\ k+1 \in 1..free_blocks_count-1
      BY <1>2
    <3>2. t[k] = s[k+1] /\ t[k+1] = s[k+1+1] /\ s[k+1] \in Blocks
      BY <3>1, <1>9
    <3>3. s[k+1+1] = index_to_addr(link(s[k+1]))
      BY <3>1, <1>1 DEF IsFreeChain, FreshTail
    <3>4. link(s[k+1])' = link(s[k+1])
      <4> DEFINE b == s[k+1]
      <4>1. b \in Blocks
        BY <3>2
      <4> HIDE DEF b
      <4>2. link(b)' = link(b)
        BY <4>1, <1>0, LinkStable
      <4> QED
        BY <4>2 DEF b, link
    <3> QED
      BY <3>2, <3>3, <3>4 DEF link
  <2>3. (\A j, k \in 1..free_blocks_count : t[j] = t[k] => j = k)'
    <3> SUFFICES ASSUME NEW j \in 1..free_blocks_count-1, NEW k \in 1..free_blocks_count-1,
                        t[j] = t[k]
                 PROVE  j = k
      OBVIOUS
    <3>1. j + 1 = k + 1
      BY <1>1, <1>9 DEF IsFreeChain, FreshTail
    <3> QED
      BY <3>1, <1>2
  <2>4. (\A b \in Blocks : b \notin Held <=> \E k \in 1..free_blocks_count : t[k] = b)'
    <3> SUFFICES ASSUME NEW b \in Blocks
                 PROVE  b \notin Held' <=> \E k \in 1..free_blocks_count-1 : t[k] = b
      OBVIOUS
    <3>1. ASSUME b \notin Held' PROVE \E k \in 1..free_blocks_count-1 : t[k] = b
      <4>1. PICK k \in 1..free_blocks_count : s[k] = b
        BY <3>1, <1>1, <1>5 DEF IsFreeChain, FreshTail
      <4>2. k # 1
        BY <3>1, <4>1, <1>3, <1>5
      <4>3. k - 1 \in 1..free_blocks_count-1 /\ (k - 1) + 1 = k
        BY <4>2, <1>2
      <4>4. t[k - 1] = b
        BY <4>1, <4>3, <1>9
      <4> QED
        BY <4>3, <4>4
    <3>2. ASSUME NEW k \in 1..free_blocks_count-1, t[k] = b PROVE b \notin Held'
      <4>1. s[k+1] = b /\ k + 1 \in 1..free_blocks_count /\ 1 \in 1..free_blocks_count /\ k + 1 # 1
        BY <3>2, <1>2, <1>9
      <4>2. b \notin Held
        BY <4>1, <1>1 DEF IsFreeChain, FreshTail
      <4>3. b # s[1]
        BY <4>1, <1>1 DEF IsFreeChain, FreshTail
      <4> QED
        BY <4>2, <4>3, <1>3, <1>5
    <3> QED
      BY <3>1, <3>2
  <2>5. FreshTail(t, free_blocks_count - 1, InitializedCount)
    <3> SUFFICES ASSUME NEW k \in 1..free_blocks_count-1
                 PROVE  IF k > free_blocks_count - 1 - (block_count - InitializedCount)
                        THEN t[k] = index_to_addr(block_count - 1 - (free_blocks_count - 1) + k)
                        ELSE addr_to_index(t[k]) < InitializedCount
      BY DEF FreshTail
    <3>1. t[k] = s[k+1] /\ k + 1 \in 1..free_blocks_count /\ s[k+1] \in Blocks
      BY <1>9
    <3>2. /\ addr_to_index(s[k+1]) \in 0..block_count-1
          /\ initialized_blocks_count <= InitializedCount
          /\ InitializedCount \in 0..block_count
          /\ InitializedCount = block_count \/ InitializedCount = initialized_blocks_count + 1
      BY <3>1, <1>2, BlockIndex, PoolAssumption DEF InitializedCount
    <3>3. CASE k > free_blocks_count - 1 - (block_count - InitializedCount)
      <4>1. /\ k + 1 > free_blocks_count - (block_count - initialized_blocks_count)
            /\ block_count - 1 - (free_blocks_count - 1) + k = block_count - 1 - free_blocks_count + (k + 1)
        BY <3>2, <3>3, <1>2, PoolAssumption DEF InitializedCount
      <4>2. s[k+1] = index_to_addr(block_count - 1 - free_blocks_count + (k + 1))
        BY <4>1, <3>1, <1>1 DEF IsFreeChain, FreshTail
      <4> QED
        BY <3>1, <3>3, <4>1, <4>2
    <3>4. CASE ~ (k > free_blocks_count - 1 - (block_count - InitializedCount))
      <4>1. CASE addr_to_index(s[k+1]) < initialized_blocks_count
        BY <3>1, <3>2, <3>4, <4>1, <1>2, PoolAssumption
      <4>2. CASE ~ (addr_to_index(s[k+1]) < initialized_blocks_count)
        <5>1. addr_to_index(s[k+1]) = block_count - 1 - free_blocks_count + (k + 1)
          <6>1. addr_to_index(s[k+1]) >= initialized_blocks_count
            BY <3>2, <4>2, <1>2
          <6>2. \A j \in 1..free_blocks_count :
                  addr_to_index(s[j]) >= initialized_blocks_count =>
                    addr_to_index(s[j]) = block_count - 1 - free_blocks_count + j
            BY <1>0, <1>1, <1>2, FreeChainFacts
          <6> QED
            BY <6>1, <6>2, <3>1
        <5>2. addr_to_index(s[k+1]) < InitializedCount
          BY <5>1, <3>2, <3>4, <1>2, PoolAssumption
        <5> QED
          BY <5>2, <3>1, <3>4
      <4> QED
        BY <4>1, <4>2
    <3> QED
      BY <3>3, <3>4
  <2> QED
    BY <2>1, <2>2, <2>3, <2>4, <2>5 DEF IsFreeChain
<1>11. FreeListIntact'
  <2>1. (block_count - initialized_blocks_count <= free_blocks_count)'
    BY <1>2, PoolAssumption DEF InitializedCount
  <2>2. (free_blocks_count = 0 <=> next_block = NULL)'
    BY <1>2, <1>4, BlockIndex DEF NextAfterAlloc
  <2> QED
    BY <2>1, <2>2, <1>8, <1>10 DEF FreeListIntact
<1> QED
  BY <1>6, <1>7, <1>11 DEF IInv

\* A failing cplus_mempool_alloc finds nothing left to initialise.
LEMMA AllocFailsIInv ==
  ASSUME IInv, AllocFails
  PROVE  IInv' /\ FailsOnlyWhenExhausted'
<1>1. free_blocks_count = 0 /\ initialized_blocks_count = block_count
  BY PoolAssumption DEF IInv, TypeOK, FreeListIntact, AllocFails
<1>2. UNCHANGED <<free_blocks_count, initialized_blocks_count, next_block, word, held>> /\ enomem'
  BY <1>1, PoolAssumption DEF AllocFails, InitializedCount, InitializedWord
<1>3. IInv'
  <2>1. TypeOK' /\ Exclusive'
    BY <1>2 DEF IInv, TypeOK, Exclusive, AllocFails
  <2>2. FreeListIntact'
    <3>1. Held' = Held /\ \A b : link(b)' = link(b)
      BY <1>2 DEF Held, link
    <3>2. \A s : IsFreeChain(s) => IsFreeChain(s)'
      BY <1>2, <3>1 DEF IsFreeChain, FreshTail
    <3>3. FreeListIntact
      BY DEF IInv
    <3> QED
      BY <1>2, <3>2, <3>3 DEF FreeListIntact
  <2> QED
    BY <2>1, <2>2 DEF IInv
<1>4. Blocks \subseteq Held
  <2>1. PICK s \in [1..free_blocks_count -> Blocks] : IsFreeChain(s)
    BY DEF IInv, FreeListIntact
  <2>2. ~ \E k \in 1..free_blocks_count : TRUE
    BY <1>1
  <2> QED
    BY <2>1, <2>2 DEF IsFreeChain, FreshTail
<1>5. Held \subseteq Blocks
  BY DEF IInv, TypeOK, Held
<1>6. Held' = Held
  BY <1>2 DEF Held
<1> QED
  BY <1>3, <1>4, <1>5, <1>6 DEF FailsOnlyWhenExhausted

\* cplus_mempool_free puts the block at the head of the chain.
LEMMA FreeIInv ==
  ASSUME IInv, NEW c \in Clients, NEW addr \in held[c], Free(c, addr)
  PROVE  IInv'
<1> USE DEF Free
<1>0. TypeOK /\ Exclusive /\ FreeListIntact
  BY DEF IInv
<1>1. PICK s \in [1..free_blocks_count -> Blocks] : IsFreeChain(s)
  BY <1>0 DEF FreeListIntact
<1>2. /\ block_count - initialized_blocks_count <= free_blocks_count
      /\ free_blocks_count \in Nat
      /\ initialized_blocks_count \in 0..block_count
  BY <1>0 DEF FreeListIntact, TypeOK
<1>3. addr \in Blocks /\ addr \in Held
  BY <1>0 DEF TypeOK, Held
<1>4. addr_to_index(addr) < initialized_blocks_count
  BY <1>0, <1>1, <1>2, <1>3, FreeChainFacts
<1>5. Held' = Held \ {addr}
  BY <1>0 DEF Held, TypeOK, Exclusive
<1>6. FreedLink \in 0..block_count /\ (next_block # NULL => index_to_addr(FreedLink) = next_block)
  <2>1. CASE next_block = NULL
    BY <2>1, PoolAssumption DEF FreedLink
  <2>2. CASE next_block # NULL
    <3>1. next_block \in Blocks
      BY <1>0, <2>2 DEF TypeOK
    <3>2. addr_to_index(next_block) \in 0..block_count-1
          /\ index_to_addr(addr_to_index(next_block)) = next_block
      BY <3>1, BlockIndex
    <3> QED
      BY <2>2, <3>2, PoolAssumption DEF FreedLink
  <2> QED
    BY <2>1, <2>2
<1>7. TypeOK'
  <2>1. FreedLink \in Word
    BY <1>6, WordAssumption
  <2>2. word' \in [Blocks -> Word] /\ next_block' \in Blocks
    BY <1>0, <1>3, <2>1 DEF TypeOK
  <2>3. held' \in [Clients -> SUBSET Blocks]
    BY <1>0 DEF TypeOK
  <2>4. enomem' \in BOOLEAN
    OBVIOUS
  <2>5. free_blocks_count' = free_blocks_count + 1 /\ UNCHANGED initialized_blocks_count
    OBVIOUS
  <2> QED
    BY <1>2, <2>2, <2>3, <2>4, <2>5 DEF TypeOK
<1>8. Exclusive'
  BY <1>0 DEF Exclusive, TypeOK
<1>9. PICK t \in [1..free_blocks_count+1 -> Blocks] :
        t[1] = addr /\ \A k \in 1..free_blocks_count : t[k+1] = s[k]
  <2> DEFINE u == [k \in 1..free_blocks_count+1 |-> IF k = 1 THEN addr ELSE s[k-1]]
  <2>1. \A k \in 1..free_blocks_count+1 : k # 1 => k - 1 \in 1..free_blocks_count
    BY <1>2
  <2>2. u \in [1..free_blocks_count+1 -> Blocks]
    BY <1>3, <2>1
  <2>3. 1 \in 1..free_blocks_count+1
    BY <1>2
  <2>4. \A k \in 1..free_blocks_count :
          k+1 \in 1..free_blocks_count+1 /\ k + 1 # 1 /\ (k + 1) - 1 = k
    BY <1>2
  <2>5. u[1] = addr /\ \A k \in 1..free_blocks_count : u[k+1] = s[k]
    BY <2>3, <2>4
  <2> QED
    BY <2>2, <2>5
<1>10. \A k \in 1..free_blocks_count+1 :
         k # 1 => k - 1 \in 1..free_blocks_count /\ t[k] = s[k-1] /\ s[k-1] \in Blocks
  <2> SUFFICES ASSUME NEW k \in 1..free_blocks_count+1, k # 1
               PROVE  k - 1 \in 1..free_blocks_count /\ t[k] = s[k-1] /\ s[k-1] \in Blocks
    OBVIOUS
  <2>1. k - 1 \in 1..free_blocks_count /\ (k - 1) + 1 = k
    BY <1>2
  <2> QED
    BY <2>1, <1>9
<1>11. \A k \in 1..free_blocks_count : s[k] \notin Held /\ s[k] # addr
  BY <1>1, <1>3 DEF IsFreeChain, FreshTail
<1>12. \A k \in 1..free_blocks_count : link(s[k])' = link(s[k])
  BY <1>0, <1>11 DEF TypeOK, link
<1>13. IsFreeChain(t)'
  <2>1. (free_blocks_count > 0 => t[1] = next_block)'
    BY <1>9
  <2>2. (\A k \in 1..free_blocks_count-1 : t[k+1] = index_to_addr(link(t[k])))'
    <3> SUFFICES ASSUME NEW k \in 1..free_blocks_count
                 PROVE  t[k+1] = index_to_addr(link(t[k])')
      BY <1>2
    <3>1. t[k+1] = s[k]
      BY <1>9
    <3>2. CASE k = 1
      <4>1. next_block = s[1] /\ s[1] \in Blocks
        BY <1>1, <1>2, <3>2 DEF IsFreeChain, FreshTail
      <4>2. next_block # NULL
        BY <4>1, BlockIndex
      <4>3. link(t[1])' = FreedLink
        BY <1>0, <1>3, <1>4, <1>9 DEF TypeOK, link
      <4> QED
        BY <1>6, <3>1, <3>2, <4>1, <4>2, <4>3
    <3>3. CASE k # 1
      <4>1. k - 1 \in 1..free_blocks_count /\ k - 1 \in 1..free_blocks_count-1
            /\ (k - 1) + 1 = k /\ t[k] = s[k-1]
        BY <1>2, <1>10, <3>3
      <4>2. s[(k-1)+1] = index_to_addr(link(s[k-1]))
        BY <1>1, <4>1 DEF IsFreeChain, FreshTail
      <4>3. link(s[k-1])' = link(s[k-1])
        BY <1>12, <4>1
      <4>4. link(t[k])' = link(s[k-1])'
        BY <4>1 DEF link
      <4> QED
        BY <3>1, <4>1, <4>2, <4>3, <4>4
    <3> QED
      BY <3>2, <3>3
  <2>3. (\A j, k \in 1..free_blocks_count : t[j] = t[k] => j = k)'
    <3> SUFFICES ASSUME NEW j \in 1..free_blocks_count+1, NEW k \in 1..free_blocks_count+1,
                        t[j] = t[k]
                 PROVE  j = k
      OBVIOUS
    <3>1. CASE j = 1 \/ k = 1
      BY <1>9, <1>10, <1>11, <3>1
    <3>2. CASE j # 1 /\ k # 1
      <4>1. j - 1 = k - 1
        BY <1>1, <1>10, <3>2 DEF IsFreeChain, FreshTail
      <4> QED
        BY <4>1, <1>2
    <3> QED
      BY <3>1, <3>2
  <2>4. (\A b \in Blocks : b \notin Held <=> \E k \in 1..free_blocks_count : t[k] = b)'
    <3> SUFFICES ASSUME NEW b \in Blocks
                 PROVE  b \notin Held' <=> \E k \in 1..free_blocks_count+1 : t[k] = b
      OBVIOUS
    <3>1. ASSUME b \notin Held' PROVE \E k \in 1..free_blocks_count+1 : t[k] = b
      <4>1. CASE b = addr
        <5>1. 1 \in 1..free_blocks_count+1
          BY <1>2
        <5> QED
          BY <4>1, <5>1, <1>9
      <4>2. CASE b # addr
        <5>1. PICK k \in 1..free_blocks_count : s[k] = b
          BY <3>1, <4>2, <1>1, <1>5 DEF IsFreeChain, FreshTail
        <5>2. k + 1 \in 1..free_blocks_count+1
          BY <1>2
        <5> QED
          BY <5>1, <5>2, <1>9
      <4> QED
        BY <4>1, <4>2
    <3>2. ASSUME NEW k \in 1..free_blocks_count+1, t[k] = b PROVE b \notin Held'
      <4>1. CASE k = 1
        BY <3>2, <4>1, <1>5, <1>9
      <4>2. CASE k # 1
        BY <3>2, <4>2, <1>5, <1>10, <1>11
      <4> QED
        BY <4>1, <4>2
    <3> QED
      BY <3>1, <3>2
  <2>5. FreshTail(t, free_blocks_count + 1, initialized_blocks_count)
    <3> SUFFICES ASSUME NEW k \in 1..free_blocks_count+1
                 PROVE  IF k > free_blocks_count + 1 - (block_count - initialized_blocks_count)
                        THEN t[k] = index_to_addr(block_count - 1 - (free_blocks_count + 1) + k)
                        ELSE addr_to_index(t[k]) < initialized_blocks_count
      BY <1>2, PoolAssumption DEF FreshTail
    <3>1. CASE k = 1
      BY <3>1, <1>2, <1>4, <1>9, PoolAssumption
    <3>2. CASE k # 1
      <4>1. /\ k - 1 \in 1..free_blocks_count /\ t[k] = s[k-1]
            /\ block_count - 1 - (free_blocks_count + 1) + k = block_count - 1 - free_blocks_count + (k - 1)
            /\ k > free_blocks_count + 1 - (block_count - initialized_blocks_count)
                 <=> k - 1 > free_blocks_count - (block_count - initialized_blocks_count)
        BY <1>2, <1>10, <3>2, PoolAssumption
      <4>2. IF k - 1 > free_blocks_count - (block_count - initialized_blocks_count)
            THEN s[k-1] = index_to_addr(block_count - 1 - free_blocks_count + (k - 1))
            ELSE addr_to_index(s[k-1]) < initialized_blocks_count
        BY <4>1, <1>1 DEF IsFreeChain, FreshTail
      <4> QED
        BY <4>1, <4>2
    <3> QED
      BY <3>1, <3>2
  <2> QED
    BY <2>1, <2>2, <2>3, <2>4, <2>5 DEF IsFreeChain
<1>14. FreeListIntact'
  <2>1. (block_count - initialized_blocks_count <= free_blocks_count)'
    BY <1>2, PoolAssumption
  <2>2. (free_blocks_count = 0 <=> next_block = NULL)'
    BY <1>2, <1>3, BlockIndex
  <2> QED
    BY <2>1, <2>2, <1>9, <1>13 DEF FreeListIntact
<1> QED
  BY <1>7, <1>8, <1>14 DEF IInv

\* What a client writes into its own block reaches no link of the chain.
LEMMA ClientWriteIInv ==
  ASSUME IInv, NEW c \in Clients, NEW w \in Word, NEW addr \in held[c],
         ClientWrite(c, addr, w)
  PROVE  IInv'
<1> USE DEF ClientWrite
<1>0. TypeOK /\ Exclusive /\ FreeListIntact
  BY DEF IInv
<1>1. PICK s \in [1..free_blocks_count -> Blocks] : IsFreeChain(s)
  BY <1>0 DEF FreeListIntact
<1>2. addr \in Blocks /\ addr \in Held /\ Held' = Held
  BY <1>0 DEF TypeOK, Held
<1>3. TypeOK' /\ Exclusive'
  BY <1>0, <1>2 DEF TypeOK, Exclusive
<1>4. \A k \in 1..free_blocks_count : s[k] # addr
  BY <1>1, <1>2 DEF IsFreeChain, FreshTail
<1>5. \A k \in 1..free_blocks_count : link(s[k])' = link(s[k])
  BY <1>0, <1>4 DEF TypeOK, link
<1>6. \A k \in 1..free_blocks_count-1 : k \in 1..free_blocks_count
  BY <1>0 DEF TypeOK
<1>7. IsFreeChain(s)'
  BY <1>1, <1>2, <1>5, <1>6 DEF IsFreeChain, FreshTail
<1> QED
  BY <1>0, <1>3, <1>7 DEF IInv, FreeListIntact

LEMMA NextIInv == IInv /\ [Next]_vars => IInv'
<1> SUFFICES ASSUME IInv, [Next]_vars PROVE IInv'
  OBVIOUS
<1>1. ASSUME NEW c \in Clients, Alloc(c) PROVE IInv'
  BY <1>1, AllocIInv
<1>2. CASE AllocFails
  BY <1>2, AllocFailsIInv
<1>3. ASSUME NEW c \in Clients, NEW addr \in held[c], Free(c, addr) PROVE IInv'
  BY <1>3, FreeIInv
<1>4. ASSUME NEW c \in Clients, NEW w \in Word, NEW addr \in held[c],
             ClientWrite(c, addr, w)
      PROVE  IInv'
  BY <1>4, ClientWriteIInv
<1>5. CASE UNCHANGED vars
  BY <1>5 DEF IInv, TypeOK, Exclusive, FreeListIntact, IsFreeChain, FreshTail, link, Held, vars
<1> QED
  BY <1>1, <1>2, <1>3, <1>4, <1>5 DEF Next

\* mempool.c keeps the types of its counters, words and block addresses.
THEOREM TypeCorrect == Spec => []TypeOK
<1>1. IInv => TypeOK
  BY DEF IInv
<1> QED
  BY <1>1, InitIInv, NextIInv, PTL DEF Spec

\* No two clients ever hold the same block, whatever they write into theirs.
THEOREM BlocksExclusive == Spec => []Exclusive
<1>1. IInv => Exclusive
  BY DEF IInv
<1> QED
  BY <1>1, InitIInv, NextIInv, PTL DEF Spec

\* The links threaded through the free blocks always visit exactly the blocks
\* not in use, without a cycle.
THEOREM FreeListSafe == Spec => []FreeListIntact
<1>1. IInv => FreeListIntact
  BY DEF IInv
<1> QED
  BY <1>1, InitIInv, NextIInv, PTL DEF Spec

\* FailsOnlyWhenExhausted: after a cplus_mempool_alloc that failed with ENOMEM every
\* block is in use.  The chain has free_blocks_count = 0 members then, and it visits
\* every block that is not in use.
THEOREM NoSpuriousENOMEM == Spec => []FailsOnlyWhenExhausted
<1>1. Init => FailsOnlyWhenExhausted
  BY DEF Init, FailsOnlyWhenExhausted
<1>2. IInv /\ FailsOnlyWhenExhausted /\ [Next]_vars => FailsOnlyWhenExhausted'
  <2> SUFFICES ASSUME IInv, FailsOnlyWhenExhausted, [Next]_vars PROVE FailsOnlyWhenExhausted'
    OBVIOUS
  <2>1. CASE AllocFails
    BY <2>1, AllocFailsIInv
  <2>2. ASSUME NEW c \in Clients, Alloc(c) PROVE FailsOnlyWhenExhausted'
    BY <2>2 DEF Alloc, FailsOnlyWhenExhausted
  <2>3. ASSUME NEW c \in Clients, NEW addr \in held[c], Free(c, addr) PROVE FailsOnlyWhenExhausted'
    BY <2>3 DEF Free, FailsOnlyWhenExhausted
  <2>4. ASSUME held' = held, enomem' = enomem PROVE FailsOnlyWhenExhausted'
    BY <2>4 DEF FailsOnlyWhenExhausted, Held
  <2>5. ASSUME NEW c \in Clients, NEW w \in Word, NEW addr \in held[c], ClientWrite(c, addr, w)
        PROVE  FailsOnlyWhenExhausted'
    BY <2>4, <2>5 DEF ClientWrite
  <2>6. CASE UNCHANGED vars
    BY <2>4, <2>6 DEF vars
  <2> QED
    BY <2>1, <2>2, <2>3, <2>5, <2>6 DEF Next
<1> QED
  BY <1>1, <1>2, InitIInv, NextIInv, PTL DEF Spec

\* Counting: n distinct members of S that exhaust S give S n members.
LEMMA CountByListing ==
  ASSUME NEW S, NEW n \in Nat, NEW f \in [1..n -> S],
         \A j, k \in 1..n : f[j] = f[k] => j = k,
         \A x \in S : \E k \in 1..n : f[k] = x
  PROVE  IsFiniteSet(S) /\ Cardinality(S) = n
<1>1. f \in Bijection(1..n, S)
  BY DEF Bijection, Injection, Surjection, IsInjective
<1>2. ExistsBijection(1..n, S)
  BY <1>1 DEF ExistsBijection
<1>3. IsFiniteSet(1..n) /\ Cardinality(1..n) = n
  BY FS_Interval
<1> QED
  BY <1>2, <1>3, FS_Bijection

LEMMA CardinalityOfBlocks == IsFiniteSet(Blocks) /\ Cardinality(Blocks) = block_count
<1> DEFINE f == [k \in 1..block_count |-> index_to_addr(k - 1)]
<1>1. f \in [1..block_count -> Blocks]
  BY PoolAssumption DEF Blocks
<1>2. ASSUME NEW j \in 1..block_count, NEW k \in 1..block_count, f[j] = f[k]
      PROVE  j = k
  <2>1. j - 1 \in 0..block_count-1 /\ k - 1 \in 0..block_count-1
    BY PoolAssumption
  <2>2. j - 1 = k - 1
    BY <1>2, <2>1, AddrInverse
  <2> QED
    BY <2>2, PoolAssumption
<1>3. ASSUME NEW b \in Blocks PROVE \E k \in 1..block_count : f[k] = b
  <2>1. PICK i \in 0..block_count-1 : b = index_to_addr(i)
    BY DEF Blocks
  <2>2. i + 1 \in 1..block_count /\ f[i + 1] = b
    BY <2>1, PoolAssumption
  <2> QED
    BY <2>2
<1> HIDE DEF f
<1> QED
  BY <1>1, <1>2, <1>3, CountByListing, PoolAssumption

\* free_blocks_count is the number of blocks no client holds.
THEOREM CountsExact == Spec => []CountExact
<1>1. IInv => CountExact
  <2> SUFFICES ASSUME IInv PROVE CountExact
    OBVIOUS
  <2>1. PICK s \in [1..free_blocks_count -> Blocks] : IsFreeChain(s)
    BY DEF IInv, FreeListIntact
  <2>2. free_blocks_count \in Nat /\ Held \subseteq Blocks
    BY DEF IInv, TypeOK, Held
  <2>3. s \in [1..free_blocks_count -> Blocks \ Held]
    BY <2>1 DEF IsFreeChain
  <2>4. /\ \A j, k \in 1..free_blocks_count : s[j] = s[k] => j = k
        /\ \A b \in Blocks \ Held : \E k \in 1..free_blocks_count : s[k] = b
    BY <2>1 DEF IsFreeChain
  <2>5. Cardinality(Blocks \ Held) = free_blocks_count
    BY <2>2, <2>3, <2>4, CountByListing
  <2>6. Cardinality(Blocks \ Held) = Cardinality(Blocks) - Cardinality(Blocks \cap Held)
    BY CardinalityOfBlocks, FS_Difference
  <2>7. Blocks \cap Held = Held
    BY <2>2
  <2>8. Cardinality(Held) \in Nat
    BY <2>2, CardinalityOfBlocks, FS_Subset, FS_CardinalityType
  <2>9. free_blocks_count = block_count - Cardinality(Held)
    BY <2>5, <2>6, <2>7, CardinalityOfBlocks
  <2>10. block_count \in Nat
    BY PoolAssumption
  <2> QED
    BY <2>2, <2>8, <2>9, <2>10 DEF CountExact
<1> QED
  BY <1>1, InitIInv, NextIInv, PTL DEF Spec

----------------------------------------------------------------------------
(* The reader-writer lock.                                                 *)

RWShared == Cardinality(RW!Shares)

RWLabels ==
  {"idle", "wr_mark", "rd_mark", "rd_load", "rd_count",
   "un_pthread", "un_test", "un_load", "un_count", "un_retest", "un_clear"}

RWTyped ==
  /\ rw_writer \subseteq RWThreads
  /\ \A u, v \in rw_writer : u = v
  /\ rw_readers \in [RWThreads -> 0..MaxDepth]
  /\ rw_count \in Int /\ rw_reg \in [RWThreads -> Int]
  /\ rw_pc \in [RWThreads -> RWLabels]

RWIdle == \A t \in RWThreads : rw_pc[t] = "idle"

\* What the fields say while t is at l, for the one call that is running.
RWCall(t, l) ==
  /\ l \in {"wr_mark", "un_pthread"} => rw_count = RWShared
  /\ l = "wr_mark" => t \in rw_writer
  /\ l \in {"rd_mark", "rd_load", "rd_count"} => rw_readers[t] > 0 /\ rw_count = RWShared - 1
  /\ l = "un_pthread" => t \in rw_writer \/ rw_readers[t] > 0
  /\ l = "un_test" => /\ rw_writer = {}
                      /\ \/ rw_count = 0 /\ RWShared = 0
                         \/ rw_count = RWShared + 1
  /\ l \in {"un_load", "un_count"} => rw_writer = {} /\ rw_count = RWShared + 1
  /\ l = "un_retest" => rw_writer = {} /\ rw_count = RWShared
  /\ l = "un_clear" => rw_writer = {} /\ rw_count = 0 /\ RWShared = 0
  /\ l \in {"rd_count", "un_count"} => rw_reg[t] = rw_count
  /\ l \in {"rd_load", "rd_count", "un_pthread", "un_test", "un_load", "un_count", "un_retest"}
        => rw_locked

\* Readers and a writer exclude each other, one call runs at a time, and
\* between calls the fields describe the lock.
RWFields ==
  /\ rw_writer # {} => RWShared = 0
  /\ \A t, u \in RWThreads : (rw_pc[t] # "idle" /\ rw_pc[u] # "idle") => t = u
  /\ RWIdle => /\ rw_locked <=> (rw_writer # {} \/ RWShared # 0)
               /\ rw_count = RWShared
  /\ \A t \in RWThreads : RWCall(t, rw_pc[t])

LEMMA RWCardinality == \A S : RW!Cardinality(S) = Cardinality(S)
BY DEF RW!Cardinality, Cardinality

LEMMA SharesFinite ==
  /\ IsFiniteSet(RW!Shares)
  /\ RWShared \in Nat
<1>1. IsFiniteSet(RWThreads \X (1..MaxDepth))
  <2>1. IsFiniteSet(1..MaxDepth)
    BY FS_Interval, MemoryAssumption
  <2> QED
    BY <2>1, FS_Product, MemoryAssumption
<1>2. RW!Shares \subseteq RWThreads \X (1..MaxDepth)
  BY DEF RW!Shares
<1>3. IsFiniteSet(RW!Shares)
  BY <1>1, <1>2, FS_Subset
<1> QED
  BY <1>3, FS_CardinalityType DEF RWShared

LEMMA NoShares ==
  ASSUME RWTyped
  PROVE  RWShared = 0 <=> \A t \in RWThreads : rw_readers[t] = 0
<1>1. RWShared = 0 <=> RW!Shares = {}
  BY SharesFinite, FS_EmptySet DEF RWShared
<1>2. ASSUME NEW t \in RWThreads, rw_readers[t] # 0 PROVE RW!Shares # {}
  <2>1. rw_readers[t] \in 1..MaxDepth
    BY <1>2, MemoryAssumption DEF RWTyped
  <2>2. <<t, rw_readers[t]>> \in RW!Shares
    BY <2>1 DEF RW!Shares
  <2> QED
    BY <2>2
<1>3. ASSUME NEW h \in RW!Shares PROVE rw_readers[h[1]] # 0 /\ h[1] \in RWThreads
  BY MemoryAssumption DEF RW!Shares, RWTyped
<1> QED
  BY <1>1, <1>2, <1>3

LEMMA ShareTaken ==
  ASSUME RWTyped, NEW t \in RWThreads, rw_readers[t] < MaxDepth,
         rw_readers' = [rw_readers EXCEPT ![t] = @ + 1]
  PROVE  RWShared' = RWShared + 1
<1>1. rw_readers[t] + 1 \in 1..MaxDepth /\ rw_readers[t] \in Nat
  BY MemoryAssumption DEF RWTyped
<1> DEFINE s == <<t, rw_readers[t] + 1>>
<1>2. s \notin RW!Shares
  BY <1>1 DEF RW!Shares
<1>3. ASSUME NEW h \in RWThreads \X (1..MaxDepth)
      PROVE  h[2] <= rw_readers'[h[1]] <=> (h[2] <= rw_readers[h[1]] \/ h = s)
  <2>1. PICK u \in RWThreads, i \in 1..MaxDepth : h = <<u, i>>
    OBVIOUS
  <2>2. CASE u = t
    <3>1. rw_readers'[u] = rw_readers[t] + 1
      BY <2>2 DEF RWTyped
    <3>2. i <= rw_readers[t] + 1 <=> (i <= rw_readers[t] \/ i = rw_readers[t] + 1)
      BY <1>1
    <3> QED
      BY <2>1, <2>2, <3>1, <3>2
  <2>3. CASE u # t
    BY <2>1, <2>3 DEF RWTyped
  <2> QED
    BY <2>2, <2>3
<1>4. (RW!Shares)' = RW!Shares \cup {s}
  <2>1. s \in RWThreads \X (1..MaxDepth)
    BY <1>1
  <2> QED
    BY <1>3, <2>1 DEF RW!Shares
<1> QED
  BY <1>2, <1>4, SharesFinite, FS_AddElement DEF RWShared

LEMMA ShareGiven ==
  ASSUME RWTyped, NEW t \in RWThreads, rw_readers[t] > 0,
         rw_readers' = [rw_readers EXCEPT ![t] = @ - 1]
  PROVE  RWShared' = RWShared - 1
<1>1. rw_readers[t] \in 1..MaxDepth
  BY MemoryAssumption DEF RWTyped
<1> DEFINE s == <<t, rw_readers[t]>>
<1>2. s \in RW!Shares
  BY <1>1 DEF RW!Shares
<1>3. ASSUME NEW h \in RWThreads \X (1..MaxDepth)
      PROVE  h[2] <= rw_readers'[h[1]] <=> (h[2] <= rw_readers[h[1]] /\ h # s)
  <2>1. PICK u \in RWThreads, i \in 1..MaxDepth : h = <<u, i>>
    OBVIOUS
  <2>2. CASE u = t
    <3>1. rw_readers'[u] = rw_readers[t] - 1
      BY <2>2 DEF RWTyped
    <3>2. i <= rw_readers[t] - 1 <=> (i <= rw_readers[t] /\ i # rw_readers[t])
      BY <1>1
    <3> QED
      BY <2>1, <2>2, <3>1, <3>2
  <2>3. CASE u # t
    BY <2>1, <2>3 DEF RWTyped
  <2> QED
    BY <2>2, <2>3
<1>4. (RW!Shares)' = RW!Shares \ {s}
  BY <1>3 DEF RW!Shares
<1> QED
  BY <1>2, <1>4, SharesFinite, FS_RemoveElement DEF RWShared

LEMMA SharesKept ==
  ASSUME rw_readers' = rw_readers
  PROVE  RWShared' = RWShared
BY DEF RWShared, RW!Shares

LEMMA RWInit == RW!Init => RWTyped /\ RWFields
<1> SUFFICES ASSUME RW!Init PROVE RWTyped /\ RWFields
  OBVIOUS
<1>1. RWTyped
  BY MemoryAssumption DEF RW!Init, RWTyped, RWLabels
<1>2. RWShared = 0
  BY <1>1, NoShares DEF RW!Init
<1>3. RWIdle /\ rw_writer = {} /\ rw_count = 0 /\ ~rw_locked
  BY DEF RW!Init, RWIdle
<1>4. \A t \in RWThreads : RWCall(t, rw_pc[t])
  BY <1>3 DEF RWIdle, RWCall
<1> QED
  BY <1>1, <1>2, <1>3, <1>4 DEF RWFields, RWIdle

\* A call that begins is the only one; the lock is taken only when it is free.
LEMMA RWStep == RWTyped /\ RWFields /\ [RW!Next]_(RW!vars) => RWTyped' /\ RWFields'
<1> SUFFICES ASSUME RWTyped, RWFields, [RW!Next]_(RW!vars) PROVE RWTyped' /\ RWFields'
  OBVIOUS
<1> USE DEF RW!CanCall, RW!Holds, RW!Free, RW!At, RW!Goto, RW!Return, RWLabels, RWIdle
<1>a. RWShared \in Nat /\ (RWShared = 0 <=> \A t \in RWThreads : rw_readers[t] = 0)
  BY SharesFinite, NoShares
<1>1. ASSUME NEW t \in RWThreads, RW!wrlock(t) PROVE RWTyped' /\ RWFields'
  <2>1. RWTyped'
    BY <1>1 DEF RW!wrlock, RWTyped
  <2>2. RWShared' = RWShared /\ RWShared = 0
    BY <1>1, <1>a, SharesKept DEF RW!wrlock, RWTyped
  <2> QED
    BY <1>1, <1>a, <2>1, <2>2 DEF RW!wrlock, RWTyped, RWFields, RWCall
<1>2. ASSUME NEW t \in RWThreads, RW!wrlock_mark(t) PROVE RWTyped' /\ RWFields'
  <2>1. RWTyped'
    BY <1>2 DEF RW!wrlock_mark, RWTyped
  <2>2. RWShared' = RWShared
    BY <1>2, SharesKept DEF RW!wrlock_mark
  <2> QED
    BY <1>2, <1>a, <2>1, <2>2 DEF RW!wrlock_mark, RWTyped, RWFields, RWCall
<1>3. ASSUME NEW t \in RWThreads, RW!rdlock(t) PROVE RWTyped' /\ RWFields'
  <2>1. RWTyped'
    BY <1>3, MemoryAssumption DEF RW!rdlock, RWTyped
  <2>2. RWShared' = RWShared + 1
    BY <1>3, ShareTaken DEF RW!rdlock
  <2> QED
    BY <1>3, <1>a, <2>1, <2>2, MemoryAssumption DEF RW!rdlock, RWTyped, RWFields, RWCall
<1>4. ASSUME NEW t \in RWThreads, RW!rdlock_mark(t) PROVE RWTyped' /\ RWFields'
  <2>1. RWTyped'
    BY <1>4 DEF RW!rdlock_mark, RWTyped
  <2>2. RWShared' = RWShared
    BY <1>4, SharesKept DEF RW!rdlock_mark
  <2> QED
    BY <1>4, <1>a, <2>1, <2>2 DEF RW!rdlock_mark, RWTyped, RWFields, RWCall
<1>5. ASSUME NEW t \in RWThreads, RW!rdlock_count(t) PROVE RWTyped' /\ RWFields'
  <2>1. RWTyped'
    BY <1>5 DEF RW!rdlock_count, RWTyped
  <2>2. RWShared' = RWShared /\ RWShared # 0
    BY <1>5, <1>a, SharesKept, MemoryAssumption
       DEF RW!rdlock_count, RWFields, RWCall, RWTyped
  <2> QED
    BY <1>5, <1>a, <2>1, <2>2 DEF RW!rdlock_count, RWTyped, RWFields, RWCall
<1>6. ASSUME NEW t \in RWThreads, RW!lock_fails(t) \/ RW!unlock_refused(t)
      PROVE  RWTyped' /\ RWFields'
  <2>1. RWTyped'
    BY <1>6 DEF RW!lock_fails, RW!unlock_refused, RWTyped
  <2>2. RWShared' = RWShared
    BY <1>6, SharesKept DEF RW!lock_fails, RW!unlock_refused
  <2> QED
    BY <1>6, <1>a, <2>1, <2>2
       DEF RW!lock_fails, RW!unlock_refused, RWTyped, RWFields, RWCall
<1>7. ASSUME NEW t \in RWThreads, RW!unlock(t) PROVE RWTyped' /\ RWFields'
  <2>1. RWTyped'
    BY <1>7 DEF RW!unlock, RWTyped
  <2>2. RWShared' = RWShared
    BY <1>7, SharesKept DEF RW!unlock
  <2> QED
    BY <1>7, <1>a, <2>1, <2>2 DEF RW!unlock, RWTyped, RWFields, RWCall
<1>8. ASSUME NEW t \in RWThreads, RW!unlock_pthread(t) PROVE RWTyped' /\ RWFields'
  <2>1. CASE t \in rw_writer
    <3>1. rw_writer' = {} /\ rw_readers' = rw_readers
      BY <1>8, <2>1 DEF RW!unlock_pthread, RWTyped
    <3>2. RWShared' = RWShared /\ RWShared = 0 /\ rw_count = 0
      BY <1>8, <2>1, <3>1, SharesKept DEF RW!unlock_pthread, RWFields, RWCall
    <3>3. RWTyped'
      BY <1>8, <3>1 DEF RW!unlock_pthread, RWTyped
    <3> QED
      BY <1>8, <1>a, <3>1, <3>2, <3>3 DEF RW!unlock_pthread, RWTyped, RWFields, RWCall
  <2>2. CASE t \notin rw_writer
    <3>1. rw_readers' = [rw_readers EXCEPT ![t] = @ - 1] /\ rw_readers[t] > 0
      BY <1>8, <2>2 DEF RW!unlock_pthread, RWFields, RWCall
    <3>2. RWShared' = RWShared - 1 /\ RWShared # 0 /\ rw_writer = {} /\ rw_writer' = {}
      <4>1. RWShared # 0
        BY <1>a, <3>1, MemoryAssumption DEF RWTyped
      <4> QED
        BY <1>8, <3>1, <4>1, ShareGiven DEF RW!unlock_pthread, RWFields
    <3>3. RWTyped'
      BY <1>8, <3>1, <3>2, MemoryAssumption DEF RW!unlock_pthread, RWTyped
    <3> QED
      BY <1>8, <1>a, <3>1, <3>2, <3>3 DEF RW!unlock_pthread, RWTyped, RWFields, RWCall
  <2> QED
    BY <2>1, <2>2
<1>9. ASSUME NEW t \in RWThreads, RW!unlock_load(t) PROVE RWTyped' /\ RWFields'
  <2>1. RWTyped'
    BY <1>9 DEF RW!unlock_load, RWTyped
  <2>2. RWShared' = RWShared
    BY <1>9, SharesKept DEF RW!unlock_load
  <2> QED
    BY <1>9, <1>a, <2>1, <2>2 DEF RW!unlock_load, RWTyped, RWFields, RWCall
<1>10. ASSUME NEW t \in RWThreads, RW!unlock_count(t) PROVE RWTyped' /\ RWFields'
  <2>1. RWTyped'
    BY <1>10 DEF RW!unlock_count, RWTyped
  <2>2. RWShared' = RWShared
    BY <1>10, SharesKept DEF RW!unlock_count
  <2> QED
    BY <1>10, <1>a, <2>1, <2>2 DEF RW!unlock_count, RWTyped, RWFields, RWCall
<1>11. ASSUME NEW t \in RWThreads, RW!unlock_clear(t) PROVE RWTyped' /\ RWFields'
  <2>1. RWTyped'
    BY <1>11 DEF RW!unlock_clear, RWTyped
  <2>2. RWShared' = RWShared
    BY <1>11, SharesKept DEF RW!unlock_clear
  <2> QED
    BY <1>11, <1>a, <2>1, <2>2 DEF RW!unlock_clear, RWTyped, RWFields, RWCall
<1>12. ASSUME NEW t \in RWThreads, RW!rdlock_load(t) PROVE RWTyped' /\ RWFields'
  <2>1. RWTyped'
    BY <1>12 DEF RW!rdlock_load, RWTyped
  <2>2. RWShared' = RWShared
    BY <1>12, SharesKept DEF RW!rdlock_load
  <2> QED
    BY <1>12, <1>a, <2>1, <2>2 DEF RW!rdlock_load, RWTyped, RWFields, RWCall
<1>13. ASSUME NEW t \in RWThreads, RW!unlock_test(t) PROVE RWTyped' /\ RWFields'
  <2>1. RWTyped'
    BY <1>13 DEF RW!unlock_test, RWTyped
  <2>2. RWShared' = RWShared
    BY <1>13, SharesKept DEF RW!unlock_test
  <2> QED
    BY <1>13, <1>a, <2>1, <2>2 DEF RW!unlock_test, RWTyped, RWFields, RWCall
<1>14. ASSUME NEW t \in RWThreads, RW!unlock_retest(t) PROVE RWTyped' /\ RWFields'
  <2>1. RWTyped'
    BY <1>14 DEF RW!unlock_retest, RWTyped
  <2>2. RWShared' = RWShared
    BY <1>14, SharesKept DEF RW!unlock_retest
  <2> QED
    BY <1>14, <1>a, <2>1, <2>2 DEF RW!unlock_retest, RWTyped, RWFields, RWCall
<1>15. CASE UNCHANGED RW!vars
  <2>1. RWShared' = RWShared
    BY <1>15, SharesKept DEF RW!vars
  <2> QED
    BY <1>15, <2>1 DEF RW!vars, RWTyped, RWFields, RWCall
<1> QED
  BY <1>1, <1>2, <1>3, <1>4, <1>5, <1>6, <1>7, <1>8, <1>9, <1>10, <1>11, <1>12,
     <1>13, <1>14, <1>15
     DEF RW!Next, RW!Step

RWBoolean == rw_locked \in BOOLEAN

LEMMA RWBooleanStep ==
  ASSUME RWBoolean, [RW!Next]_(RW!vars)
  PROVE  RWBoolean'
<1>1. rw_locked' = rw_locked \/ rw_locked' = TRUE \/ rw_locked' = FALSE
  BY DEF RW!Next, RW!Step, RW!vars, RW!wrlock, RW!wrlock_mark, RW!rdlock, RW!rdlock_mark,
         RW!rdlock_load, RW!rdlock_count, RW!lock_fails, RW!unlock_refused, RW!unlock,
         RW!unlock_pthread, RW!unlock_test, RW!unlock_load, RW!unlock_count,
         RW!unlock_retest, RW!unlock_clear
<1> QED
  BY <1>1, Zenon DEF RWBoolean

\* What calls return; no holder has been refused.
RWResults == rw_res \in [RWThreads -> {"none", "success", "busy", "not_locked"}]

\* Between calls st_locked is true while the lock is held.
LEMMA RefusedStep ==
  ASSUME RWTyped, RWFields, RWResults, [RW!Next]_(RW!vars)
  PROVE  RWResults'
<1> USE DEF RWResults
<1>1. ASSUME NEW t \in RWThreads, RW!unlock_refused(t) PROVE RWResults'
  <2>1. RWIdle /\ ~rw_locked
    BY <1>1 DEF RW!unlock_refused, RW!CanCall, RWIdle
  <2>2. rw_writer = {} /\ RWShared = 0
    BY <2>1 DEF RWFields
  <2>3. ~RW!Holds(t)
    BY <2>2, NoShares DEF RW!Holds
  <2>4. rw_res' = [rw_res EXCEPT ![t] = "not_locked"]
    BY <1>1, <2>3 DEF RW!unlock_refused
  <2> QED
    BY <2>4
<1>2. ASSUME NEW t \in RWThreads,
             \/ RW!wrlock(t) \/ RW!rdlock(t) \/ RW!lock_fails(t) \/ RW!unlock(t)
             \/ RW!Step(t)
      PROVE  RWResults'
  <2>1. rw_res' = rw_res \/ \E r \in {"success", "busy"} : rw_res' = [rw_res EXCEPT ![t] = r]
    BY <1>2 DEF RW!Step, RW!wrlock, RW!wrlock_mark, RW!rdlock, RW!rdlock_mark,
         RW!rdlock_load, RW!rdlock_count, RW!lock_fails, RW!unlock, RW!unlock_pthread,
         RW!unlock_test, RW!unlock_load, RW!unlock_count, RW!unlock_retest,
         RW!unlock_clear, RW!Return
  <2> QED
    BY <2>1
<1>3. CASE UNCHANGED RW!vars
  BY <1>3 DEF RW!vars
<1> QED
  BY <1>1, <1>2, <1>3 DEF RW!Next

\* As long as calls of rwlock.c do not overlap, st_locked and count_rdlocked say
\* after each of them who holds the pthread lock, and how often.
THEOREM BookkeepingIsExact == RW!Spec => []BookkeepingExact
<1>1. RW!Init => RWTyped /\ RWFields /\ RWBoolean
  <2>1. RW!Init => RWBoolean
    BY Zenon DEF RW!Init, RWBoolean
  <2> QED
    BY <2>1, RWInit
<1>2. RWTyped /\ RWFields /\ RWBoolean /\ [RW!Next]_(RW!vars)
      => RWTyped' /\ RWFields' /\ RWBoolean'
  BY RWStep, RWBooleanStep
<1>3. RWTyped /\ RWFields /\ RWBoolean => BookkeepingExact
  <2> SUFFICES ASSUME RWTyped, RWFields, RWIdle, rw_locked \in BOOLEAN
               PROVE  rw_locked = ~RW!Free /\ rw_count = RW!Cardinality(RW!Shares)
    BY DEF BookkeepingExact, RW!BookkeepingExact, RWIdle, RWBoolean
  <2>1. rw_count = RW!Cardinality(RW!Shares)
    BY RWCardinality DEF RWFields, RWShared
  <2>2. RW!Free <=> (rw_writer = {} /\ RWShared = 0)
    <3>1. RW!Free <=> (rw_writer = {} /\ \A t \in RWThreads : rw_readers[t] = 0)
      BY MemoryAssumption DEF RW!Free, RW!Holds, RWTyped
    <3> QED
      BY <3>1, NoShares
  <2>3. rw_locked <=> ~RW!Free
    BY <2>2 DEF RWFields
  <2>4. rw_locked = ~RW!Free
    BY <2>3, Zenon
  <2> QED
    BY <2>1, <2>4
<1> QED
  BY <1>1, <1>2, <1>3, PTL DEF RW!Spec

\* Nor is a holder refused by cplus_rwlock_unlock then: the refusal that overlapping
\* calls run into is due to the overlap alone.
THEOREM HolderIsNotRefused == RW!Spec => []RW!HolderCanUnlock
<1>1. RW!Init => RWTyped /\ RWFields /\ RWResults
  <2>1. RW!Init => RWResults
    BY DEF RW!Init, RWResults
  <2> QED
    BY <2>1, RWInit
<1>2. RWTyped /\ RWFields /\ RWResults /\ [RW!Next]_(RW!vars)
      => RWTyped' /\ RWFields' /\ RWResults'
  BY RWStep, RefusedStep
<1>3. RWResults => RW!HolderCanUnlock
  BY DEF RWResults, RW!HolderCanUnlock
<1> QED
  BY <1>1, <1>2, <1>3, PTL DEF RW!Spec

----------------------------------------------------------------------------
(* Named mutexes.                                                          *)

NMSegment == [size : {0, 1}, mutex : {"free", "locked", "destroyed"}]
NMObject == [seg : Nat, size : {0, 1}, is_owner : BOOLEAN]
NMLabels ==
  {"none", "missing", "opened", "created", "sized", "mapped", "ready", "deleting"}
NMExcuses == {"reset", "orphaned", "foreign"}

NMTyped ==
  /\ nm_segs \in Seq(NMSegment) /\ nm_name \in 0..Len(nm_segs)
  /\ nm_pc \in [Procs -> NMLabels]
  /\ nm_shmem \in [Procs -> NMObject]
  /\ nm_inside \in [Procs -> BOOLEAN]
  /\ \A p \in Procs :
       IF nm_pc[p] \in {"none", "missing"}
       THEN nm_shmem[p] = NM!NoObject
       ELSE nm_shmem[p].seg \in 1..Len(nm_segs)

\* The one owner there may be owns the segment of the name.
NMOwner ==
  /\ \A p \in Procs : nm_shmem[p].is_owner => nm_name = nm_shmem[p].seg
  /\ \A p, q \in Procs : nm_shmem[p].is_owner /\ nm_shmem[q].is_owner => p = q

\* Nobody counts on more bytes than the segment has.
NMSized ==
  \A p \in Procs : nm_pc[p] \in {"sized", "mapped", "ready", "deleting"} =>
                     nm_shmem[p].size <= nm_segs[nm_shmem[p].seg].size

\* Only a process with a finished object is inside.
NMInside == \A q \in Procs : nm_inside[q] => nm_pc[q] = "ready"

\* Unless one of the open windows was hit, every object is one of the name's
\* segment, whose mutex is locked when somebody is inside, and one at most is.
NMQuiet ==
  nm_ill \cap NMExcuses = {} =>
    /\ \A q \in Procs : nm_shmem[q].seg # 0 => nm_shmem[q].seg = nm_name
    /\ \A q \in Procs : nm_inside[q] => nm_segs[nm_shmem[q].seg].mutex = "locked"
    /\ \A p, q \in Procs : nm_inside[p] /\ nm_inside[q] => p = q

NMInv ==
  /\ NMTyped /\ NMOwner /\ NMSized /\ NMInside /\ NMQuiet /\ NM!NameOwned

LEMMA NMInit == NM!Init => NMInv
<1> SUFFICES ASSUME NM!Init PROVE NMInv
  OBVIOUS
<1>1. nm_segs = <<>> /\ <<>> \in Seq(NMSegment) /\ Len(<<>>) = 0
  BY EmptySeq DEF NM!Init
<1>2. NM!NoObject \in NMObject
  BY DEF NM!NoObject, NMObject
<1>3. NMTyped
  BY <1>1, <1>2 DEF NM!Init, NMTyped, NMLabels
<1>4. \A p \in Procs : /\ ~nm_shmem[p].is_owner /\ nm_shmem[p].seg = 0
                       /\ nm_pc[p] = "none" /\ ~nm_inside[p]
  BY DEF NM!Init, NM!NoObject
<1> QED
  BY <1>1, <1>3, <1>4 DEF NMInv, NMOwner, NMSized, NMInside, NMQuiet, NM!NameOwned, NM!Init

\* What a write into the segment of p's object leaves behind.
LEMMA NMWrite ==
  ASSUME NMTyped, NEW p \in Procs, nm_pc[p] \notin {"none", "missing"},
         NEW r \in NMSegment, NM!InSegment(p, r)
  PROVE  /\ nm_segs' \in Seq(NMSegment) /\ Len(nm_segs') = Len(nm_segs)
         /\ nm_segs'[nm_shmem[p].seg] = r
         /\ \A s \in 1..Len(nm_segs) : s # nm_shmem[p].seg => nm_segs'[s] = nm_segs[s]
<1> DEFINE i == nm_shmem[p].seg
<1>1. i \in 1..Len(nm_segs) /\ nm_segs \in Seq(NMSegment)
  BY DEF NMTyped
<1>2. nm_segs' = [nm_segs EXCEPT ![i] = r]
  BY DEF NM!InSegment
<1> HIDE DEF i
<1>3. /\ [nm_segs EXCEPT ![i] = r] \in Seq(NMSegment)
      /\ Len([nm_segs EXCEPT ![i] = r]) = Len(nm_segs)
      /\ \A j \in 1..Len(nm_segs) : [nm_segs EXCEPT ![i] = r][j] = IF j = i THEN r ELSE nm_segs[j]
  BY <1>1, ExceptSeq
<1>4. nm_segs' \in Seq(NMSegment) /\ Len(nm_segs') = Len(nm_segs)
  BY <1>2, <1>3
<1>5. \A j \in 1..Len(nm_segs) : nm_segs'[j] = IF j = i THEN r ELSE nm_segs[j]
  BY <1>2, <1>3
<1>6. nm_segs'[i] = r /\ \A s \in 1..Len(nm_segs) : s # i => nm_segs'[s] = nm_segs[s]
  BY <1>1, <1>5
<1> QED
  BY <1>4, <1>6 DEF i

\* The segment of p's object, and its record.
LEMMA NMReach ==
  ASSUME NMTyped, NEW p \in Procs, nm_pc[p] \notin {"none", "missing"}
  PROVE  /\ nm_shmem[p].seg \in 1..Len(nm_segs)
         /\ nm_segs[nm_shmem[p].seg] \in NMSegment
         /\ nm_shmem[p] \in NMObject
<1>1. nm_shmem[p].seg \in 1..Len(nm_segs)
  BY DEF NMTyped
<1> QED
  BY <1>1, ElementOfSeq DEF NMTyped

\* Steps of p that leave the segments, the names and the section alone.
LEMMA NMLocal ==
  ASSUME NMInv, NEW p \in Procs, UNCHANGED <<nm_name, nm_segs, nm_inside, nm_ill>>,
         \/ NM!shm_open(p) \/ NM!shm_missing(p) \/ NM!shm_exists(p)
         \/ NM!fstat(p) \/ NM!mmap(p)
  PROVE  NMInv'
<1> USE DEF NMInv, NM!Goto, NM!Set, NMLabels
<1>0. Len(nm_segs) \in Nat
  BY LenProperties DEF NMTyped
<1>1. CASE NM!shm_open(p)
  <2>1. /\ nm_shmem' = [nm_shmem EXCEPT ![p] = [seg |-> nm_name, size |-> 0, is_owner |-> FALSE]]
        /\ nm_pc' = [nm_pc EXCEPT ![p] = "opened"] /\ nm_pc[p] = "none"
        /\ nm_name \in 1..Len(nm_segs) /\ nm_shmem[p] = NM!NoObject
    BY <1>0, <1>1 DEF NM!shm_open, NMTyped
  <2>2. NMTyped'
    BY <1>0, <2>1 DEF NMTyped, NMObject
  <2> QED
    BY <1>0, <2>1, <2>2 DEF NMTyped, NMOwner, NMSized, NMInside, NMQuiet, NM!NameOwned, NM!NoObject
<1>2. CASE NM!shm_missing(p) \/ NM!shm_exists(p)
  <2>1. NMTyped'
    BY <1>2 DEF NM!shm_missing, NM!shm_exists, NMTyped
  <2> QED
    BY <1>2, <2>1 DEF NM!shm_missing, NM!shm_exists, NMTyped, NMOwner, NMSized, NMInside,
                      NMQuiet, NM!NameOwned
<1>3. CASE NM!fstat(p)
  <2> DEFINE z == nm_segs[nm_shmem[p].seg].size
             o == [nm_shmem[p] EXCEPT !.size = z]
  <2>1. /\ nm_shmem' = [nm_shmem EXCEPT ![p] = o]
        /\ nm_pc' = [nm_pc EXCEPT ![p] = "sized"] /\ nm_pc[p] = "opened"
    BY <1>3 DEF NM!fstat
  <2>2. /\ o.seg = nm_shmem[p].seg /\ o.is_owner = nm_shmem[p].is_owner /\ o.size = z
        /\ z \in {0, 1} /\ o \in NMObject
    BY <2>1, NMReach DEF NMSegment, NMObject
  <2>3. nm_shmem' \in [Procs -> NMObject] /\ nm_pc' \in [Procs -> NMLabels]
        /\ nm_shmem'[p] = o /\ nm_pc'[p] = "sized"
        /\ \A q \in Procs \ {p} : nm_shmem'[q] = nm_shmem[q] /\ nm_pc'[q] = nm_pc[q]
    BY <2>1, <2>2 DEF NMTyped
  <2> HIDE DEF o
  <2>4. NMTyped'
    BY <2>1, <2>2, <2>3 DEF NMTyped
  <2>5. NMSized'
    BY <2>2, <2>3 DEF NMSized
  <2> QED
    BY <2>1, <2>2, <2>3, <2>4, <2>5 DEF NMTyped, NMOwner, NMInside, NMQuiet, NM!NameOwned
<1>4. CASE NM!mmap(p)
  <2>1. NMTyped'
    BY <1>4 DEF NM!mmap, NMTyped
  <2> QED
    BY <1>4, <2>1 DEF NM!mmap, NMTyped, NMOwner, NMSized, NMInside, NMQuiet, NM!NameOwned
<1> QED
  BY <1>1, <1>2, <1>3, <1>4

\* shm_open(O_CREAT | O_EXCL) makes its caller the one owner.
LEMMA NMCreate ==
  ASSUME NMInv, NEW p \in Procs, NM!shm_create(p)
  PROVE  NMInv'
<1> DEFINE n == Len(nm_segs)
           r == [size |-> 0, mutex |-> "free"]
<1>1. n \in Nat /\ nm_segs \in Seq(NMSegment) /\ r \in NMSegment
  BY LenProperties DEF NMInv, NMTyped, NMSegment
<1>2. /\ nm_segs' \in Seq(NMSegment) /\ Len(nm_segs') = n + 1 /\ nm_segs'[n + 1] = r
      /\ \A s \in 1..n : nm_segs'[s] = nm_segs[s]
  <2>1. nm_segs' = Append(nm_segs, r)
    BY DEF NM!shm_create
  <2> HIDE DEF r
  <2> QED
    BY <1>1, <2>1, AppendProperties
<1>3. /\ nm_pc[p] \in {"none", "missing"} /\ nm_name = 0 /\ nm_name' = n + 1
      /\ nm_shmem' = [nm_shmem EXCEPT ![p] = [seg |-> n + 1, size |-> 1, is_owner |-> TRUE]]
      /\ nm_pc' = [nm_pc EXCEPT ![p] = "created"]
      /\ nm_ill' = nm_ill /\ nm_inside' = nm_inside
  BY DEF NM!shm_create, NM!Set, NM!Goto, NM!Full
<1>4. /\ nm_pc'[p] = "created"
      /\ nm_shmem'[p] = [seg |-> n + 1, size |-> 1, is_owner |-> TRUE]
      /\ \A q \in Procs \ {p} : nm_pc'[q] = nm_pc[q] /\ nm_shmem'[q] = nm_shmem[q]
      /\ nm_pc' \in [Procs -> NMLabels] /\ nm_shmem' \in [Procs -> NMObject]
  BY <1>1, <1>3 DEF NMInv, NMTyped, NMObject, NMLabels
<1>5. \A q \in Procs : nm_shmem[q].seg \in 0..n /\ ~nm_shmem[q].is_owner
  <2>1. \A q \in Procs : nm_shmem[q].seg \in 0..n
    BY <1>1 DEF NMInv, NMTyped, NM!NoObject
  <2>2. ASSUME NEW q \in Procs, nm_shmem[q].is_owner PROVE FALSE
    BY <1>1, <1>3, <2>2 DEF NMInv, NMTyped, NMOwner, NM!NoObject
  <2> QED
    BY <2>1, <2>2
<1> HIDE DEF n
<1>6. NMTyped'
  BY <1>1, <1>2, <1>3, <1>4, <1>5 DEF NMInv, NMTyped, n
<1>7. NMOwner' /\ (NM!NameOwned)'
  BY <1>1, <1>2, <1>3, <1>4, <1>5 DEF NMOwner, NM!NameOwned
<1>8. NMSized'
  <2> SUFFICES ASSUME NEW q \in Procs, nm_pc'[q] \in {"sized", "mapped", "ready", "deleting"}
               PROVE  nm_shmem'[q].size <= nm_segs'[nm_shmem'[q].seg].size
    BY DEF NMSized
  <2>1. q # p /\ nm_shmem[q].seg \in 1..n
    BY <1>4 DEF NMInv, NMTyped, n
  <2> QED
    BY <1>2, <1>4, <2>1 DEF NMInv, NMSized
<1>9. NMInside'
  BY <1>3, <1>4 DEF NMInv, NMInside
<1>10. NMQuiet'
  <2> SUFFICES ASSUME nm_ill \cap NMExcuses = {}
               PROVE  /\ \A q \in Procs : nm_shmem'[q].seg # 0 => nm_shmem'[q].seg = nm_name'
                      /\ \A q \in Procs : ~nm_inside[q]
    BY <1>3 DEF NMQuiet
  <2>1. \A q \in Procs : nm_shmem[q].seg = 0
    BY <1>3 DEF NMInv, NMQuiet
  <2>2. ASSUME NEW q \in Procs, nm_inside[q] PROVE FALSE
    <3>1. nm_pc[q] = "ready" /\ nm_shmem[q].seg \in 1..n
      BY <2>2 DEF NMInv, NMInside, NMTyped, n
    <3> QED
      BY <1>1, <2>1, <3>1
  <2> QED
    BY <1>3, <1>4, <2>1, <2>2
<1> QED
  BY <1>6, <1>7, <1>8, <1>9, <1>10 DEF NMInv

\* A step of p that writes x into the segment of its object, goes on to l and is
\* inside or not as v says: what they must be for the invariant to survive.
LEMMA NMRewrite ==
  ASSUME NMInv, NEW p \in Procs, nm_pc[p] \notin {"none", "missing"},
         NEW x \in NMSegment, NM!InSegment(p, x), UNCHANGED <<nm_name, nm_shmem>>,
         NEW l \in NMLabels \ {"none", "missing"}, nm_pc' = [nm_pc EXCEPT ![p] = l],
         NEW v \in BOOLEAN, nm_inside' = [nm_inside EXCEPT ![p] = v],
         nm_ill \subseteq nm_ill',
         nm_segs[nm_shmem[p].seg].size <= x.size,
         l \in {"sized", "mapped", "ready", "deleting"} => nm_shmem[p].size <= x.size,
         v => l = "ready",
         nm_ill' \cap NMExcuses = {} =>
           /\ v => x.mutex = "locked"
           /\ \A q \in Procs \ {p} : nm_inside[q] => ~v /\ x.mutex = "locked"
  PROVE  NMInv'
<1> DEFINE i == nm_shmem[p].seg
           n == Len(nm_segs)
<1>1. /\ i \in 1..n /\ nm_segs[i] \in NMSegment /\ nm_shmem[p] \in NMObject
      /\ n \in Nat
  BY NMReach, LenProperties DEF NMInv, NMTyped
<1>2. /\ nm_segs' \in Seq(NMSegment) /\ Len(nm_segs') = n /\ nm_segs'[i] = x
      /\ \A s \in 1..n : s # i => nm_segs'[s] = nm_segs[s]
  BY NMWrite DEF NMInv
<1>3. /\ nm_pc' \in [Procs -> NMLabels] /\ nm_pc'[p] = l
      /\ \A q \in Procs \ {p} : nm_pc'[q] = nm_pc[q]
      /\ nm_inside' \in [Procs -> BOOLEAN] /\ nm_inside'[p] = v
      /\ \A q \in Procs \ {p} : nm_inside'[q] = nm_inside[q]
  BY DEF NMInv, NMTyped
<1>4. NMTyped'
  BY <1>1, <1>2, <1>3 DEF NMInv, NMTyped
<1>r. \A q \in Procs : nm_pc[q] \notin {"none", "missing"} => nm_shmem[q].seg \in 1..n
  BY DEF NMInv, NMTyped
<1> HIDE DEF i, n
<1>5. NMOwner' /\ (NM!NameOwned)'
  BY DEF NMInv, NMOwner, NM!NameOwned
<1>6. NMSized'
  <2> SUFFICES ASSUME NEW q \in Procs, nm_pc'[q] \in {"sized", "mapped", "ready", "deleting"}
               PROVE  nm_shmem[q].size <= nm_segs'[nm_shmem[q].seg].size
    BY DEF NMSized
  <2>1. CASE q = p
    BY <1>2, <1>3, <2>1 DEF i
  <2>2. CASE q # p
    <3>1. nm_shmem[q].seg \in 1..n /\ nm_shmem[q].size <= nm_segs[nm_shmem[q].seg].size
      BY <1>r, <1>3, <2>2 DEF NMInv, NMSized
    <3>2. nm_shmem[q].size \in {0, 1} /\ x.size \in {0, 1} /\ nm_segs[i].size \in {0, 1}
      BY <1>1 DEF NMInv, NMTyped, NMObject, NMSegment
    <3> QED
      BY <1>2, <3>1, <3>2 DEF i
  <2> QED
    BY <2>1, <2>2
<1>7. NMInside'
  BY <1>3 DEF NMInv, NMInside
<1>8. NMQuiet'
  <2> SUFFICES ASSUME nm_ill' \cap NMExcuses = {}
               PROVE  /\ \A q \in Procs : nm_shmem[q].seg # 0 => nm_shmem[q].seg = nm_name
                      /\ \A q \in Procs : nm_inside'[q] => nm_segs'[nm_shmem[q].seg].mutex = "locked"
                      /\ \A q1, q2 \in Procs : nm_inside'[q1] /\ nm_inside'[q2] => q1 = q2
    BY DEF NMQuiet
  <2>1. /\ \A q \in Procs : nm_shmem[q].seg # 0 => nm_shmem[q].seg = nm_name
        /\ \A q1, q2 \in Procs : nm_inside[q1] /\ nm_inside[q2] => q1 = q2
    BY DEF NMInv, NMQuiet
  <2>2. ASSUME NEW q \in Procs, nm_inside'[q]
        PROVE  nm_segs'[nm_shmem[q].seg].mutex = "locked"
    <3>1. CASE q = p
      BY <1>2, <1>3, <2>2, <3>1 DEF i
    <3>2. CASE q # p
      <4>1. nm_inside[q] /\ nm_shmem[q].seg \in 1..n
        BY <1>3, <1>r, <2>2, <3>2 DEF NMInv, NMInside
      <4>2. nm_shmem[q].seg = i
        BY <1>1, <2>1, <4>1 DEF i
      <4> QED
        BY <1>2, <3>2, <4>1, <4>2
    <3> QED
      BY <3>1, <3>2
  <2>3. \A q1, q2 \in Procs : nm_inside'[q1] /\ nm_inside'[q2] => q1 = q2
    BY <1>3, <2>1
  <2> QED
    BY <2>1, <2>2, <2>3
<1> QED
  BY <1>4, <1>5, <1>6, <1>7, <1>8 DEF NMInv

\* The steps that write into the segment.
LEMMA NMWrites ==
  ASSUME NMInv, NEW p \in Procs,
         \/ NM!ftruncate(p) \/ NM!pthread_mutex_init(p) \/ NM!lock(p)
         \/ NM!unlock(p) \/ NM!delete(p)
  PROVE  NMInv'
<1> DEFINE i == nm_shmem[p].seg
           r == nm_segs[i]
           x(m) == [r EXCEPT !.mutex = m]
<1>1. nm_pc[p] \notin {"none", "missing"}
  BY DEF NM!ftruncate, NM!pthread_mutex_init, NM!lock, NM!unlock, NM!delete
<1>2. i \in 1..Len(nm_segs) /\ r \in NMSegment /\ nm_shmem[p] \in NMObject
  BY <1>1, NMReach DEF NMInv
<1>3. r.size \in {0, 1} /\ nm_shmem[p].size \in {0, 1} /\ i # 0
  BY <1>2, LenProperties DEF NMSegment, NMObject, NMInv, NMTyped
<1>4. /\ "sized" \in NMLabels \ {"none", "missing"} /\ "ready" \in NMLabels \ {"none", "missing"}
      /\ "deleting" \in NMLabels \ {"none", "missing"}
  BY DEF NMLabels
<1>5. nm_pc[p] \in {"sized", "mapped", "ready", "deleting"} => nm_shmem[p].size <= r.size
  BY DEF NMInv, NMSized
<1>6. /\ nm_inside[p] => nm_pc[p] = "ready"
      /\ nm_inside[p] \in BOOLEAN /\ nm_inside = [nm_inside EXCEPT ![p] = nm_inside[p]]
  BY DEF NMInv, NMInside, NMTyped
\* Without an excuse, whoever is inside is so in the segment of p.
<1>7. ASSUME nm_ill \cap NMExcuses = {}, NEW q \in Procs, nm_inside[q]
      PROVE  nm_shmem[q].seg = i /\ r.mutex = "locked" /\ (nm_inside[p] => q = p)
  <2>1. nm_shmem[q].seg \in 1..Len(nm_segs) /\ Len(nm_segs) \in Nat
    BY <1>7, LenProperties DEF NMInv, NMInside, NMTyped
  <2>2. nm_shmem[q].seg = nm_name /\ nm_shmem[p].seg = nm_name
    BY <1>3, <1>7, <2>1 DEF NMInv, NMQuiet
  <2> QED
    BY <1>7, <2>2 DEF NMInv, NMQuiet
<1>8. ASSUME NEW m \in {"free", "locked", "destroyed"}
      PROVE  x(m) \in NMSegment /\ x(m).size = r.size /\ x(m).mutex = m
  BY <1>2 DEF NMSegment
<1>9. CASE NM!ftruncate(p)
  <2> DEFINE y == [r EXCEPT !.size = 1]
  <2>1. y \in NMSegment /\ y.size = 1 /\ y.mutex = r.mutex
    BY <1>2 DEF NMSegment
  <2>2. /\ NM!InSegment(p, y) /\ nm_pc' = [nm_pc EXCEPT ![p] = "sized"]
        /\ nm_pc[p] = "created" /\ UNCHANGED <<nm_name, nm_shmem, nm_inside, nm_ill>>
    BY <1>9 DEF NM!ftruncate, NM!Goto, NM!Full
  <2>3. r.size <= y.size /\ nm_shmem[p].size <= y.size
    BY <1>3, <2>1
  <2>4. ~nm_inside[p] /\ nm_inside' = [nm_inside EXCEPT ![p] = FALSE]
    BY <1>6, <2>2
  <2>5. nm_ill' \cap NMExcuses = {} => \A q \in Procs : nm_inside[q] => y.mutex = "locked"
    BY <1>7, <2>1, <2>2
  <2> HIDE DEF y
  <2> QED
    BY <1>1, <1>4, <2>1, <2>2, <2>3, <2>4, <2>5, NMRewrite
<1>10. CASE NM!pthread_mutex_init(p)
  <2> DEFINE m == IF nm_shmem[p].is_owner THEN "free" ELSE r.mutex
  <2>1. /\ NM!InSegment(p, x(m)) /\ nm_pc' = [nm_pc EXCEPT ![p] = "ready"]
        /\ nm_pc[p] = "mapped" /\ UNCHANGED <<nm_name, nm_shmem, nm_inside>>
        /\ nm_ill' = nm_ill \cup (IF nm_shmem[p].is_owner /\ r.mutex = "locked"
                                  THEN {"reset"} ELSE {})
    BY <1>10 DEF NM!pthread_mutex_init, NM!Goto, NM!SetMutex, NM!Mutex, NM!Note
  <2>2. m \in {"free", "locked", "destroyed"}
    BY <1>2 DEF NMSegment
  <2>3. x(m) \in NMSegment /\ x(m).size = r.size /\ x(m).mutex = m
    BY <1>8, <2>2
  <2>4. r.size <= x(m).size /\ nm_shmem[p].size <= x(m).size /\ nm_ill \subseteq nm_ill'
    BY <1>3, <1>5, <2>1, <2>3
  <2>5. ~nm_inside[p] /\ nm_inside' = [nm_inside EXCEPT ![p] = FALSE]
    BY <1>6, <2>1
  <2>6. ASSUME nm_ill' \cap NMExcuses = {}, NEW q \in Procs, nm_inside[q]
        PROVE  x(m).mutex = "locked"
    <3>1. r.mutex = "locked"
      BY <1>7, <2>4, <2>6
    <3>2. ~nm_shmem[p].is_owner
      BY <2>1, <2>6, <3>1 DEF NMExcuses
    <3> QED
      BY <2>3, <3>1, <3>2
  <2> HIDE DEF x
  <2> QED
    BY <1>1, <1>4, <2>1, <2>3, <2>4, <2>5, <2>6, NMRewrite
<1>11. CASE NM!lock(p)
  <2>1. /\ NM!InSegment(p, x("locked")) /\ nm_pc[p] = "ready" /\ r.mutex = "free"
        /\ UNCHANGED <<nm_name, nm_shmem, nm_ill>>
        /\ nm_pc' = [nm_pc EXCEPT ![p] = "ready"]
        /\ nm_inside' = [nm_inside EXCEPT ![p] = TRUE]
    BY <1>11 DEF NM!lock, NM!SetMutex, NM!Mutex, NM!Enter, NMInv, NMTyped
  <2>2. x("locked") \in NMSegment /\ x("locked").size = r.size /\ x("locked").mutex = "locked"
    BY <1>8
  <2>3. r.size <= x("locked").size /\ nm_shmem[p].size <= x("locked").size
    BY <1>3, <1>5, <2>1, <2>2
  <2>4. nm_ill' \cap NMExcuses = {} => \A q \in Procs : ~nm_inside[q]
    BY <1>7, <2>1
  <2> HIDE DEF x
  <2> QED
    BY <1>1, <1>4, <2>1, <2>2, <2>3, <2>4, NMRewrite
<1>12. CASE NM!unlock(p)
  <2> DEFINE m == IF r.mutex = "locked" THEN "free" ELSE r.mutex
  <2>1. /\ NM!InSegment(p, x(m)) /\ nm_pc[p] = "ready"
        /\ UNCHANGED <<nm_name, nm_shmem>>
        /\ nm_pc' = [nm_pc EXCEPT ![p] = "ready"]
        /\ nm_inside' = [nm_inside EXCEPT ![p] = FALSE]
        /\ nm_ill' = nm_ill \cup
             (IF \E q \in Procs \ {p} : nm_inside[q] /\ nm_shmem[q].seg = i THEN {"foreign"} ELSE {})
    BY <1>12 DEF NM!unlock, NM!SetMutex, NM!Mutex, NM!Enter, NM!Note, NMInv, NMTyped
  <2>2. m \in {"free", "locked", "destroyed"}
    BY <1>2 DEF NMSegment
  <2>3. x(m) \in NMSegment /\ x(m).size = r.size
    BY <1>8, <2>2
  <2>4. r.size <= x(m).size /\ nm_shmem[p].size <= x(m).size /\ nm_ill \subseteq nm_ill'
    BY <1>3, <1>5, <2>1, <2>3
  <2>5. ASSUME nm_ill' \cap NMExcuses = {}, NEW q \in Procs \ {p}, nm_inside[q] PROVE FALSE
    <3>1. nm_shmem[q].seg = i
      BY <1>7, <2>4, <2>5
    <3> QED
      BY <2>1, <2>5, <3>1 DEF NMExcuses
  <2> HIDE DEF x, m
  <2> QED
    BY <1>1, <1>4, <2>1, <2>3, <2>4, <2>5, NMRewrite
<1>13. CASE NM!delete(p)
  <2> DEFINE m == IF nm_shmem[p].is_owner /\ r.mutex # "locked" THEN "destroyed" ELSE r.mutex
  <2>1. /\ NM!InSegment(p, x(m)) /\ nm_pc[p] = "ready" /\ UNCHANGED <<nm_name, nm_shmem>>
        /\ nm_pc' = [nm_pc EXCEPT ![p] = "deleting"]
        /\ nm_inside' = [nm_inside EXCEPT ![p] = FALSE]
        /\ nm_ill \subseteq nm_ill'
    BY <1>13 DEF NM!delete, NM!SetMutex, NM!Mutex, NM!Enter, NM!Note, NM!Goto
  <2>2. m \in {"free", "locked", "destroyed"} /\ (r.mutex = "locked" => m = "locked")
    BY <1>2 DEF NMSegment
  <2>3. x(m) \in NMSegment /\ x(m).size = r.size /\ x(m).mutex = m
    BY <1>8, <2>2
  <2>4. r.size <= x(m).size /\ nm_shmem[p].size <= x(m).size
    BY <1>3, <1>5, <2>1, <2>3
  <2>5. nm_ill' \cap NMExcuses = {} => \A q \in Procs : nm_inside[q] => x(m).mutex = "locked"
    BY <1>7, <2>1, <2>2, <2>3
  <2> HIDE DEF x, m
  <2> QED
    BY <1>1, <1>4, <2>1, <2>3, <2>4, <2>5, NMRewrite
<1> QED
  BY <1>9, <1>10, <1>11, <1>12, <1>13

\* p is done with its object, by failing, deleting or dying: what must be true of
\* the name it leaves, or takes away, for the invariant to survive.
LEMMA NMLeave ==
  ASSUME NMInv, NEW p \in Procs, nm_segs' = nm_segs,
         nm_pc' = [nm_pc EXCEPT ![p] = "none"],
         nm_shmem' = [nm_shmem EXCEPT ![p] = NM!NoObject],
         nm_inside' = [nm_inside EXCEPT ![p] = FALSE],
         nm_ill \subseteq nm_ill',
         \/ nm_name' = nm_name /\ (nm_shmem[p].is_owner => "crashed" \in nm_ill')
         \/ /\ nm_name' = 0 /\ nm_shmem[p].is_owner
            /\ nm_ill' \cap NMExcuses = {} =>
                 \A q \in Procs \ {p} : nm_shmem[q].seg # nm_shmem[p].seg
  PROVE  NMInv'
<1> DEFINE n == Len(nm_segs)
<1>1. n \in Nat
  BY LenProperties DEF NMInv, NMTyped
<1>2. /\ nm_pc' \in [Procs -> NMLabels] /\ nm_pc'[p] = "none"
      /\ \A q \in Procs \ {p} : /\ nm_pc'[q] = nm_pc[q] /\ nm_shmem'[q] = nm_shmem[q]
                                /\ nm_inside'[q] = nm_inside[q]
      /\ nm_shmem' \in [Procs -> NMObject] /\ nm_shmem'[p] = NM!NoObject
      /\ nm_inside' \in [Procs -> BOOLEAN] /\ ~nm_inside'[p]
  <2>1. NM!NoObject \in NMObject
    BY DEF NM!NoObject, NMObject
  <2> QED
    BY <2>1 DEF NMInv, NMTyped, NMLabels
<1>3. ~nm_shmem'[p].is_owner /\ nm_shmem'[p].seg = 0
  BY <1>2 DEF NM!NoObject
<1>4. \A q \in Procs : nm_pc[q] \notin {"none", "missing"} => nm_shmem[q].seg \in 1..n
  BY DEF NMInv, NMTyped
<1>5. NMTyped'
  <2>1. nm_name' \in 0..n
    BY <1>1 DEF NMInv, NMTyped
  <2> QED
    BY <1>2, <2>1 DEF NMInv, NMTyped
<1>6. \A q \in Procs \ {p} : nm_shmem[q].is_owner =>
                                nm_name' = nm_name /\ ~nm_shmem[p].is_owner
  BY DEF NMInv, NMOwner
<1> HIDE DEF n
<1>7. NMOwner'
  <2>1. \A q \in Procs : nm_shmem'[q].is_owner => q # p /\ nm_shmem[q].is_owner
    BY <1>2, <1>3
  <2> QED
    BY <1>2, <1>6, <2>1 DEF NMInv, NMOwner
<1>8. NMSized' /\ NMInside'
  BY <1>2 DEF NMInv, NMSized, NMInside
<1>9. NMQuiet'
  <2> SUFFICES ASSUME nm_ill' \cap NMExcuses = {}
               PROVE  /\ \A q \in Procs : nm_shmem'[q].seg # 0 => nm_shmem'[q].seg = nm_name'
                      /\ \A q \in Procs : nm_inside'[q] => nm_segs[nm_shmem'[q].seg].mutex = "locked"
                      /\ \A q1, q2 \in Procs : nm_inside'[q1] /\ nm_inside'[q2] => q1 = q2
    BY DEF NMQuiet
  <2>1. /\ \A q \in Procs : nm_shmem[q].seg # 0 => nm_shmem[q].seg = nm_name
        /\ \A q \in Procs : nm_inside[q] => nm_segs[nm_shmem[q].seg].mutex = "locked"
        /\ \A q1, q2 \in Procs : nm_inside[q1] /\ nm_inside[q2] => q1 = q2
    BY DEF NMInv, NMQuiet
  <2>2. ASSUME NEW q \in Procs, nm_shmem'[q].seg # 0 PROVE nm_shmem'[q].seg = nm_name'
    <3>1. q # p /\ nm_shmem'[q] = nm_shmem[q] /\ nm_shmem[q].seg = nm_name
      BY <1>2, <1>3, <2>1, <2>2
    <3>2. CASE nm_name' = nm_name
      BY <3>1, <3>2
    <3>3. CASE nm_name' # nm_name
      <4>1. nm_shmem[p].is_owner /\ nm_shmem[p].seg = nm_name
        BY <3>3 DEF NMInv, NMOwner
      <4> QED
        BY <3>1, <3>3, <4>1
    <3> QED
      BY <3>2, <3>3
  <2> QED
    BY <1>2, <2>1, <2>2
<1>10. (NM!NameOwned)'
  <2> SUFFICES ASSUME nm_name' # 0, "crashed" \notin nm_ill'
               PROVE  \E q \in Procs : nm_shmem'[q].is_owner /\ nm_shmem'[q].seg = nm_name'
    BY DEF NM!NameOwned
  <2>1. nm_name' = nm_name /\ ~nm_shmem[p].is_owner
    OBVIOUS
  <2>2. PICK q \in Procs : nm_shmem[q].is_owner /\ nm_shmem[q].seg = nm_name
    BY <2>1 DEF NMInv, NM!NameOwned
  <2> QED
    BY <1>2, <2>1, <2>2
<1> QED
  BY <1>5, <1>7, <1>8, <1>9, <1>10 DEF NMInv

LEMMA NMLeaves ==
  ASSUME NMInv, NEW p \in Procs, NM!fail(p) \/ NM!sharedmem_delete(p) \/ NM!crash(p)
  PROVE  NMInv'
<1>1. /\ nm_pc' = [nm_pc EXCEPT ![p] = "none"] /\ nm_segs' = nm_segs
      /\ nm_shmem' = [nm_shmem EXCEPT ![p] = NM!NoObject]
      /\ nm_ill \subseteq nm_ill'
  BY DEF NM!fail, NM!sharedmem_delete, NM!crash, NM!Goto, NM!Set, NM!Note, NM!unlink
<1>2. nm_inside' = [nm_inside EXCEPT ![p] = FALSE]
  <2>1. CASE NM!fail(p) \/ NM!sharedmem_delete(p)
    <3>1. nm_inside' = nm_inside /\ nm_pc[p] # "ready"
      BY <2>1 DEF NM!fail, NM!sharedmem_delete
    <3>2. nm_inside \in [Procs -> BOOLEAN] /\ nm_inside[p] = FALSE
      BY <3>1 DEF NMInv, NMInside, NMTyped
    <3> QED
      BY <3>1, <3>2
  <2>2. CASE NM!crash(p)
    BY <2>2 DEF NM!crash, NM!Enter
  <2> QED
    BY <2>1, <2>2
<1>3. CASE NM!fail(p) \/ NM!sharedmem_delete(p)
  <2>1. /\ nm_name' = IF nm_shmem[p].is_owner THEN 0 ELSE nm_name
        /\ nm_ill' = nm_ill \cup (IF nm_shmem[p].is_owner
                                     /\ \E q \in Procs \ {p} : nm_shmem[q].seg = nm_shmem[p].seg
                                  THEN {"orphaned"} ELSE {})
    BY <1>3 DEF NM!fail, NM!sharedmem_delete, NM!unlink, NM!Note, NM!OthersHave
  <2>2. (nm_shmem[p].is_owner /\ nm_ill' \cap NMExcuses = {}) =>
          \A q \in Procs \ {p} : nm_shmem[q].seg # nm_shmem[p].seg
    BY <2>1 DEF NMExcuses
  <2> QED
    BY <1>1, <1>2, <2>1, <2>2, NMLeave
<1>4. CASE NM!crash(p)
  <2>1. nm_name' = nm_name /\ "crashed" \in nm_ill'
    BY <1>4 DEF NM!crash, NM!Note
  <2> QED
    BY <1>1, <1>2, <2>1, NMLeave
<1> QED
  BY <1>3, <1>4

LEMMA NMStep == NMInv /\ [NM!Next]_(NM!vars) => NMInv'
<1> SUFFICES ASSUME NMInv, [NM!Next]_(NM!vars) PROVE NMInv'
  OBVIOUS
<1>1. ASSUME NEW p \in Procs,
             \/ NM!shm_open(p) \/ NM!shm_missing(p) \/ NM!shm_exists(p)
             \/ NM!fstat(p) \/ NM!mmap(p)
      PROVE  NMInv'
  <2>1. UNCHANGED <<nm_name, nm_segs, nm_inside, nm_ill>>
    BY <1>1 DEF NM!shm_open, NM!shm_missing, NM!shm_exists, NM!fstat, NM!mmap
  <2> QED
    BY <1>1, <2>1, NMLocal
<1>2. CASE UNCHANGED NM!vars
  BY <1>2 DEF NM!vars, NMInv, NMTyped, NMOwner, NMSized, NMInside, NMQuiet, NM!NameOwned
<1> QED
  BY <1>1, <1>2, NMCreate, NMWrites, NMLeaves DEF NM!Next

\* For any number of processes and segments, one process at a time is inside the
\* section of a named mutex of mutex.c, through every race of its constructors
\* and with processes dying at any point, until its owner initialises it when it
\* is already locked or removes it under others, or a process leaves the section
\* for another that is inside.
THEOREM NamedMutexExcludes == NM!Spec => []NamedExclusion
<1>1. NMInv => NamedExclusion
  BY DEF NMInv, NMQuiet, NMExcuses, NamedExclusion, NM!NamedExclusion
<1> QED
  BY <1>1, NMInit, NMStep, PTL DEF NM!Spec

\* No process maps more of a segment of sharedmem.c than it has, in whatever order
\* shm_open, ftruncate and fstat of creators and openers interleave; and the
\* name goes with its owner unless a process died.
THEOREM NamedSegmentSound == NM!Spec => []SegmentSound
<1>1. NMInv => SegmentSound
  BY DEF NMInv, NMSized, SegmentSound, NM!SegmentSound, NM!MappedWhole, NM!Mapping
<1> QED
  BY <1>1, NMInit, NMStep, PTL DEF NM!Spec

----------------------------------------------------------------------------
(* The allocation ledger.                                                  *)

MMNodes == 1..MaxBlocks

\* The records of c, one after the other, are what a walk from n meets.
MMPath(c, n) ==
  /\ c \in Seq(MMNodes)
  /\ \A i, j \in 1..Len(c) : c[i] = c[j] => i = j
  /\ n = IF Len(c) = 0 THEN MM!Nil ELSE c[1]
  /\ \A i \in 1..Len(c) : mm_node[c[i]].next = IF i = Len(c) THEN MM!Nil ELSE c[i + 1]

\* The first k records of c.
MMPrefix(c, k) == SubSeq(c, 1, IF k <= Len(c) THEN k ELSE Len(c))

LEMMA MMNodeCount == MM!Cardinality(1..MaxBlocks) = MaxBlocks /\ MaxBlocks \in Nat
<1>1. MM!Cardinality(1..MaxBlocks) = Cardinality(1..MaxBlocks)
  BY DEF MM!Cardinality, Cardinality
<1>2. Cardinality(1..MaxBlocks) = MaxBlocks
  BY FS_Interval, MemoryAssumption
<1> QED
  BY <1>1, <1>2, MemoryAssumption

\* The records of a path are distinct, so there are at most MaxBlocks.
LEMMA PathLength ==
  ASSUME NEW c, NEW n, MMPath(c, n)
  PROVE  Len(c) \in 0..MaxBlocks
<1>1. Len(c) \in Nat /\ \A i \in 1..Len(c) : c[i] \in MMNodes
  BY LenProperties, ElementOfSeq DEF MMPath
<1> DEFINE f == [i \in 1..Len(c) |-> c[i]]
<1>2. f \in Injection(1..Len(c), MMNodes)
  BY <1>1 DEF MMPath, Injection, IsInjective
<1>3. IsFiniteSet(MMNodes) /\ Cardinality(MMNodes) = MaxBlocks
  BY FS_Interval, MemoryAssumption DEF MMNodes
<1>4. Cardinality(1..Len(c)) = Len(c)
  <2>1. PICK l \in Nat : l = Len(c)
    BY <1>1
  <2>2. Cardinality(1..l) = l
    BY FS_Interval
  <2> QED
    BY <2>1, <2>2
<1>5. Cardinality(1..Len(c)) <= Cardinality(MMNodes)
  BY <1>2, <1>3, FS_Injection DEF ExistsInjection
<1> QED
  BY <1>1, <1>3, <1>4, <1>5, MemoryAssumption

LEMMA PrefixFacts ==
  ASSUME NEW c \in Seq(MMNodes), NEW k \in Nat
  PROVE  /\ MMPrefix(c, k) \in Seq(MMNodes)
         /\ Len(MMPrefix(c, k)) = IF k <= Len(c) THEN k ELSE Len(c)
         /\ \A i \in 1..Len(MMPrefix(c, k)) : MMPrefix(c, k)[i] = c[i]
         /\ k >= Len(c) => MMPrefix(c, k) = c
<1> DEFINE m == IF k <= Len(c) THEN k ELSE Len(c)
           s == SubSeq(c, 1, m)
<1>1. Len(c) \in Nat /\ \A i \in 1..Len(c) : c[i] \in MMNodes
  BY LenProperties, ElementOfSeq
<1>2. m \in 0..Len(c) /\ MMPrefix(c, k) = s
  BY <1>1 DEF MMPrefix
<1> HIDE DEF m
<1>3. \A i \in 1..m : c[i] \in MMNodes
  BY <1>1, <1>2
<1>4. /\ s \in Seq(MMNodes) /\ Len(s) = IF 1 <= m THEN m - 1 + 1 ELSE 0
      /\ \A i \in 1..m - 1 + 1 : s[i] = c[1 + i - 1]
  BY <1>1, <1>2, <1>3, SubSeqProperties
<1> HIDE DEF s
<1>5. Len(s) = m
  BY <1>1, <1>2, <1>4
<1>6. \A i \in 1..m : s[i] = c[i]
  <2> SUFFICES ASSUME NEW i \in 1..m PROVE s[i] = c[i]
    OBVIOUS
  <2>1. i \in 1..m - 1 + 1 /\ 1 + i - 1 = i
    BY <1>1, <1>2
  <2>2. s[i] = c[1 + i - 1]
    BY <1>4, <2>1
  <2> QED
    BY <2>1, <2>2
<1>7. ASSUME k >= Len(c) PROVE s = c
  <2>1. m = Len(c)
    BY <1>1, <1>7 DEF m
  <2> QED
    BY <1>4, <1>5, <1>6, <2>1, SeqEqual
<1> QED
  BY <1>2, <1>4, <1>5, <1>6, <1>7 DEF m

\* One step of a walk along a path.
LEMMA FollowPath ==
  ASSUME NEW c, NEW n, MMPath(c, n), NEW k \in Nat \ {0}
  PROVE  MM!Follow(n, MMPrefix(c, k - 1), k) = MMPrefix(c, k)
<1> DEFINE x == MMPrefix(c, k - 1)
           y == MMPrefix(c, k)
           m == IF k = 1 THEN n ELSE mm_node[MM!Last(x)].next
<1>1. Len(c) \in Nat /\ c \in Seq(MMNodes) /\ \A i \in 1..Len(c) : c[i] \in MMNodes
  BY LenProperties, ElementOfSeq DEF MMPath
<1>2. k - 1 \in Nat
  OBVIOUS
<1>3. /\ x \in Seq(MMNodes) /\ Len(x) = IF k - 1 <= Len(c) THEN k - 1 ELSE Len(c)
      /\ \A i \in 1..Len(x) : x[i] = c[i]
      /\ k - 1 >= Len(c) => x = c
  BY <1>1, <1>2, PrefixFacts
<1>4. /\ y \in Seq(MMNodes) /\ Len(y) = IF k <= Len(c) THEN k ELSE Len(c)
      /\ \A i \in 1..Len(y) : y[i] = c[i]
      /\ k >= Len(c) => y = c
  BY <1>1, PrefixFacts
<1>5. MM!Follow(n, x, k) =
        IF Len(x) < k - 1 THEN x ELSE IF m = MM!Nil THEN x ELSE Append(x, m)
  BY DEF MM!Follow
<1>6. k > 1 /\ Len(x) = k - 1 => m = mm_node[c[k - 1]].next
  <2> SUFFICES ASSUME k > 1, Len(x) = k - 1 PROVE m = mm_node[c[k - 1]].next
    OBVIOUS
  <2>1. MM!Last(x) = x[k - 1]
    BY DEF MM!Last
  <2>2. x[k - 1] = c[k - 1]
    BY <1>3
  <2> QED
    BY <2>1, <2>2
<1>m. k = 1 => m = n
  OBVIOUS
<1> HIDE DEF x, y, m
<1>7. CASE k - 1 < Len(c)
  <2>1. Len(x) = k - 1 /\ m = c[k] /\ c[k] \in MMNodes /\ k \in 1..Len(c)
    <3>1. k \in 1..Len(c) /\ Len(x) = k - 1
      BY <1>1, <1>3, <1>7
    <3>2. CASE k = 1
      BY <1>1, <1>m, <3>1, <3>2 DEF MMPath
    <3>3. CASE k # 1
      <4>1. k - 1 \in 1..Len(c) /\ k - 1 # Len(c) /\ (k - 1) + 1 = k
        BY <1>1, <1>7, <3>3
      <4>2. mm_node[c[k - 1]].next = c[(k - 1) + 1]
        BY <4>1 DEF MMPath
      <4> QED
        BY <1>1, <1>6, <3>1, <3>3, <4>1, <4>2
    <3> QED
      BY <3>2, <3>3
  <2>2. m # MM!Nil
    BY <2>1, MemoryAssumption DEF MMNodes, MM!Nil
  <2>3. MM!Follow(n, x, k) = Append(x, c[k])
    BY <1>5, <2>1, <2>2
  <2> DEFINE z == Append(x, c[k])
  <2>4. /\ z \in Seq(MMNodes) /\ Len(z) = k
        /\ \A i \in 1..k - 1 : z[i] = x[i]
        /\ z[k] = c[k]
    BY <1>3, <2>1, AppendProperties
  <2> HIDE DEF z
  <2>5. \A i \in 1..k : z[i] = y[i]
    <3>1. \A i \in 1..k - 1 : z[i] = c[i] /\ y[i] = c[i]
      BY <1>1, <1>3, <1>4, <2>1, <2>4
    <3>2. y[k] = c[k]
      BY <1>1, <1>4, <2>1
    <3> QED
      BY <2>4, <3>1, <3>2
  <2>6. Len(y) = k
    BY <1>1, <1>4, <2>1
  <2>7. z = y
    BY <1>4, <2>4, <2>5, <2>6, SeqEqual
  <2> QED
    BY <2>3, <2>7 DEF z, x, y
<1>8. CASE k - 1 = Len(c)
  <2>1. Len(x) = k - 1 /\ x = c /\ y = c
    BY <1>1, <1>3, <1>4, <1>8
  <2>2. m = MM!Nil
    <3>1. CASE k = 1
      BY <1>1, <1>8, <1>m, <3>1 DEF MMPath
    <3>2. CASE k # 1
      BY <1>1, <1>6, <1>8, <2>1, <3>2 DEF MMPath
    <3> QED
      BY <3>1, <3>2
  <2> QED
    BY <1>5, <2>1, <2>2 DEF x, y
<1>9. CASE k - 1 > Len(c)
  <2>1. Len(x) < k - 1 /\ x = c /\ y = c
    BY <1>1, <1>3, <1>4, <1>9
  <2> QED
    BY <1>5, <2>1 DEF x, y
<1> QED
  BY <1>1, <1>7, <1>8, <1>9

LEMMA LeastExists ==
  ASSUME NEW T, T \subseteq Nat, T # {}
  PROVE  \E x \in T : \A y \in T : x <= y
<1>1. PICK x \in T : \A y \in T : ~ (<<y, x>> \in OpToRel(<, Nat))
  BY NatLessThanWellFounded, WFMin
<1>2. ASSUME NEW y \in T PROVE x <= y
  <2>1. <<y, x>> \notin {ss \in Nat \X Nat : ss[1] < ss[2]}
    BY <1>1 DEF OpToRel
  <2> QED
    BY <2>1
<1> QED
  BY <1>2

\* Walking a path meets its records, all of them, in order.
LEMMA WalkPath ==
  ASSUME NEW c, NEW n, MMPath(c, n)
  PROVE  MM!Walk(n) = c
<1> DEFINE N == MaxBlocks
           W(w) == [k \in 0..N |-> IF k = 0 THEN <<>> ELSE MM!Follow(n, w[k - 1], k)]
           g == [k \in 0..N |-> MMPrefix(c, k)]
           v == CHOOSE w : w = W(w)
<1>1. c \in Seq(MMNodes) /\ Len(c) \in 0..N /\ N \in Nat
  BY PathLength, MemoryAssumption DEF MMPath
<1>2. MMPrefix(c, 0) = <<>>
  <2>1. Len(MMPrefix(c, 0)) = 0 /\ MMPrefix(c, 0) \in Seq(MMNodes)
    BY <1>1, PrefixFacts
  <2> QED
    BY <2>1, EmptySeq
<1>3. g = W(g)
  <2>1. ASSUME NEW k \in 0..N
        PROVE  MMPrefix(c, k) = IF k = 0 THEN <<>> ELSE MM!Follow(n, g[k - 1], k)
    <3>1. CASE k = 0
      BY <1>2, <3>1
    <3>2. CASE k # 0
      <4>1. k \in Nat \ {0} /\ k - 1 \in 0..N /\ g[k - 1] = MMPrefix(c, k - 1)
        BY <1>1, <3>2
      <4> QED
        BY <3>2, <4>1, FollowPath
    <3> QED
      BY <3>1, <3>2
  <2> QED
    BY <2>1
<1>4. v = W(v)
  BY <1>3
<1> HIDE DEF v, g
<1>5. \A k \in 0..N : v[k] = IF k = 0 THEN <<>> ELSE MM!Follow(n, v[k - 1], k)
  BY <1>4
<1> DEFINE T == {k \in 0..N : v[k] # MMPrefix(c, k)}
<1>6. T = {}
  <2> SUFFICES ASSUME T # {} PROVE FALSE
    OBVIOUS
  <2>1. PICK k \in T : \A y \in T : k <= y
    <3>1. T \subseteq Nat
      BY <1>1
    <3> HIDE DEF T
    <3> QED
      BY <3>1, LeastExists
  <2>2. k # 0
    BY <1>1, <1>2, <1>5, <2>1
  <2>3. k \in Nat \ {0} /\ k - 1 \in 0..N /\ k - 1 \notin T
    BY <1>1, <2>1, <2>2
  <2>4. v[k - 1] = MMPrefix(c, k - 1)
    BY <2>3
  <2>5. v[k] = MMPrefix(c, k)
    BY <1>5, <2>1, <2>2, <2>3, <2>4, FollowPath
  <2> QED
    BY <2>1, <2>5
<1>7. v[N] = c
  <2>1. v[N] = MMPrefix(c, N)
    BY <1>1, <1>6
  <2> QED
    BY <1>1, <2>1, PrefixFacts
<1>8. MM!Walk(n) = v[N]
  BY MMNodeCount DEF MM!Walk, v
<1> QED
  BY <1>7, <1>8

MMLabels == {"idle", "add", "find", "check", "erase", "release", "aborted"}
MMWorking == {"find", "check", "erase", "release"}

MMTyped ==
  /\ mm_heap \subseteq Nat /\ mm_overrun \subseteq Nat
  /\ mm_held \in [Users -> SUBSET Nat]
  /\ mm_node \in [MMNodes -> [mem_ref : Nat, next : Nat]]
  /\ mm_pc \in [Users -> MMLabels]
  /\ mm_arg \in [Users -> Nat] /\ mm_ptr \in [Users -> Nat]
  /\ DOMAIN mm_op = Users

\* The chain of records: all there are, from ptr_info_start to ptr_info_last.
MMChain(c) ==
  /\ MMPath(c, mm_start)
  /\ Len(c) = mm_num
  /\ \A n : n \in mm_live <=> \E i \in 1..Len(c) : c[i] = n
  /\ Len(c) > 0 => mm_last = c[Len(c)]

\* A block in hand is in one pair of hands, and a block being recorded in none.
MMOwned ==
  /\ \A t \in Users : mm_held[t] \subseteq mm_heap
  /\ \A t, u \in Users : \A b \in mm_held[t] : b \in mm_held[u] => t = u
  /\ \A t \in Users : mm_pc[t] \in MMWorking => mm_arg[t] \in mm_held[t]
  /\ \A t \in Users : mm_pc[t] = "add" =>
       /\ mm_arg[t] \in mm_heap
       /\ \A u \in Users : mm_arg[t] \notin mm_held[u]
       /\ \A u \in Users : (mm_pc[u] = "add" /\ mm_arg[u] = mm_arg[t]) => u = t

\* A record is of a block in hand that is not about to go, and the only one.
MMRecorded ==
  /\ \A n \in mm_live : \E t \in Users :
       mm_node[n].mem_ref \in mm_held[t]
       /\ ~(mm_pc[t] = "release" /\ mm_arg[t] = mm_node[n].mem_ref)
  /\ \A m, n \in mm_live : mm_node[m].mem_ref = mm_node[n].mem_ref => m = n

Unrecorded(b) == \A n \in mm_live : mm_node[n].mem_ref # b

\* What a thread knows of the record of its block between two critical sections.
MMCalls ==
  \A t \in Users :
    /\ (mm_pc[t] \in {"find", "check", "erase"} /\ mm_ptr[t] = MM!Nil) => Unrecorded(mm_arg[t])
    /\ (mm_pc[t] = "check" /\ mm_ptr[t] # MM!Nil) =>
         mm_ptr[t] \in mm_live /\ mm_node[mm_ptr[t]].mem_ref = mm_arg[t]
    /\ (mm_pc[t] = "erase" /\ mm_arg[t] \in mm_overrun) => Unrecorded(mm_arg[t])

MMGood == MMTyped /\ (\E c : MMChain(c)) /\ MMOwned /\ MMRecorded /\ MMCalls
MMInv == ~mm_stale => MMGood

LEMMA MMInit == MM!Init => MMInv
<1> SUFFICES ASSUME MM!Init PROVE MMInv
  OBVIOUS
<1>1. MMTyped
  BY DEF MM!Init, MMTyped, MMLabels, MM!Blank, MM!NoBlock, MM!Nil, MMNodes
<1>2. MMChain(<<>>)
  <2>1. <<>> \in Seq(MMNodes) /\ Len(<<>>) = 0
    BY EmptySeq
  <2> QED
    BY <2>1 DEF MM!Init, MMChain, MMPath
<1>3. MMOwned /\ MMRecorded /\ MMCalls
  BY DEF MM!Init, MMOwned, MMRecorded, MMCalls, MMWorking
<1> QED
  BY <1>1, <1>2, <1>3 DEF MMInv, MMGood

\* SelectInSeq finds the record of b on the chain, if there is one.
LEMMA PlaceFacts ==
  ASSUME NEW c \in Seq(MMNodes), NEW b
  PROVE  \/ /\ MM!Place(c, b) = 0
            /\ \A j \in 1..Len(c) : mm_node[c[j]].mem_ref # b
         \/ /\ MM!Place(c, b) \in 1..Len(c)
            /\ mm_node[c[MM!Place(c, b)]].mem_ref = b
<1> DEFINE I == {j \in 1..Len(c) : mm_node[c[j]].mem_ref = b}
<1>1. Len(c) \in Nat
  BY LenProperties
<1>2. MM!Place(c, b) = IF I # {} THEN MM!Min(I) ELSE 0
  BY DEF MM!Place, MM!SelectInSeq
<1>3. CASE I = {}
  BY <1>2, <1>3
<1>4. CASE I # {}
  <2>1. \E x \in I : \A y \in I : x <= y
    <3>1. I \subseteq Nat
      BY <1>1
    <3> HIDE DEF I
    <3> QED
      BY <1>4, <3>1, LeastExists
  <2>2. MM!Min(I) \in I
    BY <2>1 DEF MM!Min
  <2> QED
    BY <1>2, <1>4, <2>2
<1> QED
  BY <1>3, <1>4

\* The records are a chain, and an empty list has none.
LEMMA ChainFacts ==
  ASSUME NEW c, MMChain(c)
  PROVE  /\ c \in Seq(MMNodes) /\ Len(c) \in Nat
         /\ \A i \in 1..Len(c) : c[i] \in MMNodes /\ c[i] \in mm_live /\ c[i] # MM!Nil
         /\ \A n \in mm_live : n \in MMNodes /\ \E i \in 1..Len(c) : c[i] = n
         /\ mm_start = MM!Nil => mm_live = {}
         /\ MM!Walk(mm_start) = c
<1>1. c \in Seq(MMNodes) /\ Len(c) \in Nat /\ \A i \in 1..Len(c) : c[i] \in MMNodes
  BY ElementOfSeq, LenProperties DEF MMChain, MMPath
<1>2. \A i \in 1..Len(c) : c[i] # MM!Nil
  BY <1>1, MemoryAssumption DEF MMNodes, MM!Nil
<1>3. mm_start = MM!Nil => Len(c) = 0
  BY <1>1, <1>2 DEF MMChain, MMPath
<1>4. mm_start = MM!Nil => mm_live = {}
  BY <1>1, <1>3 DEF MMChain
<1>5. MM!Walk(mm_start) = c
  BY WalkPath DEF MMChain
<1> QED
  BY <1>1, <1>2, <1>4, <1>5 DEF MMChain

\* The walk of a thread that is not stale: it tells whether its block has a
\* record, and finds it.
LEMMA SearchFacts ==
  ASSUME NEW c, MMChain(c), NEW t \in Users, MMCalls, ~MM!Stale(t),
         mm_pc[t] \in {"find", "erase"}
  PROVE  LET w == MM!Walk(mm_ptr[t])
             i == MM!Place(w, mm_arg[t])
         IN \/ i = 0 /\ Unrecorded(mm_arg[t])
            \/ w = c /\ i \in 1..Len(c) /\ mm_node[c[i]].mem_ref = mm_arg[t]
<1>1. CASE mm_ptr[t] = mm_start
  <2>1. MM!Walk(mm_ptr[t]) = c /\ c \in Seq(MMNodes)
    BY <1>1, ChainFacts
  <2>2. CASE MM!Place(c, mm_arg[t]) = 0 /\ \A j \in 1..Len(c) : mm_node[c[j]].mem_ref # mm_arg[t]
    BY <2>1, <2>2, ChainFacts DEF Unrecorded
  <2> QED
    BY <2>1, <2>2, PlaceFacts
<1>2. CASE mm_ptr[t] # mm_start
  <2>1. mm_ptr[t] = MM!Nil
    BY <1>2 DEF MM!Stale
  <2>2. Unrecorded(mm_arg[t])
    BY <2>1 DEF MMCalls
  <2>3. <<>> \in Seq(MMNodes) /\ Len(<<>>) = 0
    BY EmptySeq
  <2>4. MMPath(<<>>, MM!Nil)
    BY <2>3 DEF MMPath
  <2>5. MM!Walk(mm_ptr[t]) = <<>>
    BY <2>1, <2>4, WalkPath
  <2>6. MM!Place(<<>>, mm_arg[t]) = 0
    <3>1. \/ MM!Place(<<>>, mm_arg[t]) = 0
          \/ MM!Place(<<>>, mm_arg[t]) \in 1..Len(<<>>)
      BY <2>3, PlaceFacts
    <3> QED
      BY <2>3, <3>1
  <2> QED
    BY <2>2, <2>5, <2>6
<1> QED
  BY <1>1, <1>2

\* A step that leaves the records alone leaves the chain.
LEMMA ChainKept ==
  ASSUME NEW c, MMChain(c), UNCHANGED MM!ledger
  PROVE  MMChain(c)'
BY DEF MMChain, MMPath, MM!ledger

\* The calls as they begin, and the program's writes.
LEMMA MMBegin ==
  ASSUME MMGood, NEW t \in Users, NEW b \in 1..MaxBlocks,
         \/ MM!malloc(t, b) \/ MM!overwrite(t, b)
         \/ \E o \in {"free", "realloc", "check"} : MM!call(t, o, b)
  PROVE  MMGood'
<1> USE DEF MMGood
<1>1. PICK c : MMChain(c)
  OBVIOUS
<1>2. UNCHANGED MM!ledger /\ mm_held' = mm_held /\ b \in Nat /\ mm_pc[t] = "idle"
  BY MemoryAssumption DEF MM!malloc, MM!overwrite, MM!call
<1>3. MMChain(c)'
  BY <1>1, <1>2, ChainKept
<1>4. mm_node' = mm_node /\ mm_live' = mm_live /\ mm_start' = mm_start
  BY <1>2 DEF MM!ledger
<1>5. CASE MM!malloc(t, b)
  <2>1. /\ mm_pc'[t] = "add" /\ mm_arg'[t] = b
        /\ \A u \in Users \ {t} : mm_pc'[u] = mm_pc[u] /\ mm_arg'[u] = mm_arg[u]
        /\ UNCHANGED <<mm_ptr, mm_overrun>>
        /\ mm_heap' = mm_heap \cup {b} /\ b \notin mm_heap
    BY <1>5 DEF MM!malloc, MM!Goto, MMTyped
  <2>2. MMTyped'
    BY <1>2, <1>4, <1>5 DEF MM!malloc, MM!Goto, MMTyped, MMLabels
  <2>3. MMOwned'
    BY <1>2, <2>1 DEF MMOwned, MMWorking
  <2>4. MMRecorded'
    BY <1>2, <1>4, <2>1 DEF MMRecorded
  <2>5. MMCalls'
    BY <1>4, <2>1 DEF MMCalls, Unrecorded
  <2> QED
    BY <1>3, <2>2, <2>3, <2>4, <2>5
<1>6. CASE MM!overwrite(t, b)
  <2>1. /\ UNCHANGED <<mm_pc, mm_arg, mm_ptr, mm_heap, mm_op>> /\ b \in mm_held[t]
        /\ mm_overrun' = mm_overrun \cup {b}
    BY <1>6 DEF MM!overwrite
  <2>2. MMTyped' /\ MMOwned' /\ MMRecorded'
    BY <1>2, <1>4, <2>1 DEF MMTyped, MMOwned, MMRecorded
  <2>3. \A u \in Users : mm_pc[u] = "erase" => mm_arg[u] # b
    BY <1>2, <2>1 DEF MMOwned, MMWorking
  <2>4. MMCalls'
    BY <1>4, <2>1, <2>3 DEF MMCalls, Unrecorded
  <2> QED
    BY <1>3, <2>2, <2>4
<1>7. ASSUME NEW o \in {"free", "realloc", "check"}, MM!call(t, o, b) PROVE MMGood'
  <2>1. /\ mm_pc'[t] = "find" /\ mm_arg'[t] = b /\ mm_ptr'[t] = mm_start
        /\ \A u \in Users \ {t} : /\ mm_pc'[u] = mm_pc[u] /\ mm_arg'[u] = mm_arg[u]
                                  /\ mm_ptr'[u] = mm_ptr[u]
        /\ UNCHANGED <<mm_heap, mm_overrun>> /\ b \in mm_held[t]
    BY <1>7 DEF MM!call, MM!Goto, MMTyped
  <2>2. mm_start \in Nat
    BY <1>1, ChainFacts, MemoryAssumption DEF MMChain, MMPath, MMNodes, MM!Nil
  <2>3. MMTyped'
    BY <1>2, <1>4, <1>7, <2>2 DEF MM!call, MM!Goto, MMTyped, MMLabels
  <2>4. MMOwned'
    BY <1>2, <2>1 DEF MMOwned, MMWorking
  <2>5. MMRecorded'
    BY <1>2, <1>4, <2>1 DEF MMRecorded
  <2>6. MMCalls'
    BY <1>1, <1>4, <2>1, ChainFacts DEF MMCalls, Unrecorded
  <2> QED
    BY <1>3, <2>3, <2>4, <2>5, <2>6
<1> QED
  BY <1>5, <1>6, <1>7

\* find_mem_info and what check_boundary makes of it.
LEMMA MMCheck ==
  ASSUME MMGood, NEW t \in Users,
         MM!find_mem_info(t) \/ MM!check_boundary(t) \/ MM!check_fails(t)
  PROVE  MMGood'
<1> USE DEF MMGood
<1>1. PICK c : MMChain(c)
  OBVIOUS
<1>2. UNCHANGED MM!ledger /\ UNCHANGED <<mm_held, mm_heap, mm_overrun>>
  BY DEF MM!find_mem_info, MM!check_boundary, MM!check_fails
<1>3. MMChain(c)'
  BY <1>1, <1>2, ChainKept
<1>4. mm_node' = mm_node /\ mm_live' = mm_live /\ mm_start' = mm_start
  BY <1>2 DEF MM!ledger
<1>5. CASE MM!find_mem_info(t)
  <2> DEFINE w == MM!Walk(mm_ptr[t])
             i == MM!Place(w, mm_arg[t])
             r == IF i = 0 THEN MM!Nil ELSE w[i]
  <2>1. /\ mm_pc' = [mm_pc EXCEPT ![t] = "check"] /\ mm_ptr' = [mm_ptr EXCEPT ![t] = r]
        /\ UNCHANGED <<mm_arg, mm_op>> /\ mm_pc[t] = "find" /\ ~MM!Stale(t)
    BY <1>5 DEF MM!find_mem_info, MM!Goto
  <2>2. \/ i = 0 /\ Unrecorded(mm_arg[t])
        \/ w = c /\ i \in 1..Len(c) /\ mm_node[c[i]].mem_ref = mm_arg[t]
    BY <1>1, <2>1, SearchFacts
  <2> HIDE DEF w, i
  <2>3. \/ r = MM!Nil /\ Unrecorded(mm_arg[t])
        \/ r # MM!Nil /\ r \in mm_live /\ mm_node[r].mem_ref = mm_arg[t]
    BY <1>1, <2>2, ChainFacts
  <2>4. r \in Nat
    BY <1>1, <2>3, ChainFacts, MemoryAssumption DEF MM!Nil, MMNodes
  <2> HIDE DEF r
  <2>5. /\ mm_pc'[t] = "check" /\ mm_ptr'[t] = r
        /\ \A u \in Users \ {t} : mm_pc'[u] = mm_pc[u] /\ mm_ptr'[u] = mm_ptr[u]
    BY <2>1 DEF MMTyped
  <2>6. MMTyped'
    BY <1>2, <1>4, <2>1, <2>4 DEF MMTyped, MMLabels
  <2>7. MMOwned'
    BY <1>2, <2>1, <2>5 DEF MMOwned, MMWorking
  <2>8. MMRecorded'
    BY <1>2, <1>4, <2>1, <2>5 DEF MMRecorded
  <2>9. MMCalls'
    BY <1>2, <1>4, <2>1, <2>3, <2>5 DEF MMCalls, Unrecorded
  <2> QED
    BY <1>3, <2>6, <2>7, <2>8, <2>9
<1>6. ASSUME MM!Return(t) PROVE MMGood'
  <2>1. /\ mm_pc'[t] = "idle"
        /\ \A u \in Users \ {t} : /\ mm_pc'[u] = mm_pc[u] /\ mm_ptr'[u] = mm_ptr[u]
                                  /\ mm_arg'[u] = mm_arg[u]
    BY <1>6 DEF MM!Return, MM!Goto, MMTyped
  <2>2. MMTyped'
    BY <1>2, <1>4, <1>6 DEF MM!Return, MM!Goto, MM!NoBlock, MM!Nil, MMTyped, MMLabels
  <2>3. MMOwned' /\ MMRecorded'
    BY <1>2, <1>4, <2>1 DEF MMOwned, MMWorking, MMRecorded
  <2>4. MMCalls'
    BY <1>2, <1>4, <2>1 DEF MMCalls, Unrecorded
  <2> QED
    BY <1>3, <2>2, <2>3, <2>4
<1>7. CASE MM!check_boundary(t) /\ ~MM!Return(t)
  <2>1. /\ mm_pc' = [mm_pc EXCEPT ![t] = "erase"] /\ mm_ptr' = [mm_ptr EXCEPT ![t] = mm_start]
        /\ UNCHANGED <<mm_arg, mm_op>> /\ mm_pc[t] = "check"
        /\ mm_ptr[t] = MM!Nil \/ mm_arg[t] \notin mm_overrun
    BY <1>7 DEF MM!check_boundary, MM!Goto
  <2>2. mm_start \in Nat
    BY <1>1, ChainFacts, MemoryAssumption DEF MMChain, MMPath, MMNodes, MM!Nil
  <2>3. /\ mm_pc'[t] = "erase" /\ mm_ptr'[t] = mm_start
        /\ \A u \in Users \ {t} : mm_pc'[u] = mm_pc[u] /\ mm_ptr'[u] = mm_ptr[u]
    BY <2>1 DEF MMTyped
  <2>4. MMTyped'
    BY <1>2, <1>4, <2>1, <2>2 DEF MMTyped, MMLabels
  <2>5. MMOwned'
    BY <1>2, <2>1, <2>3 DEF MMOwned, MMWorking
  <2>6. MMRecorded'
    BY <1>2, <1>4, <2>1, <2>3 DEF MMRecorded
  <2>7. MMCalls'
    BY <1>1, <1>2, <1>4, <2>1, <2>3, ChainFacts DEF MMCalls, Unrecorded
  <2> QED
    BY <1>3, <2>4, <2>5, <2>6, <2>7
<1>8. CASE MM!check_fails(t) /\ ~MM!Return(t)
  <2>1. /\ mm_pc' = [u \in Users |-> "aborted"] /\ UNCHANGED <<mm_op, mm_arg, mm_ptr>>
    BY <1>8 DEF MM!check_fails, MM!abort
  <2>2. MMTyped'
    BY <1>2, <1>4, <2>1 DEF MMTyped, MMLabels
  <2>3. MMOwned' /\ MMRecorded' /\ MMCalls'
    BY <1>2, <1>4, <2>1 DEF MMOwned, MMWorking, MMRecorded, MMCalls
  <2> QED
    BY <1>3, <2>2, <2>3
<1> QED
  BY <1>5, <1>6, <1>7, <1>8

\* The block goes back to libc, moves, or stays without a record.
LEMMA MMRelease ==
  ASSUME MMGood, NEW t \in Users,
         MM!release(t) \/ MM!add_fails(t) \/ \E b \in 1..MaxBlocks : MM!realloc(t, b)
  PROVE  MMGood'
<1> USE DEF MMGood
<1>1. PICK c : MMChain(c)
  OBVIOUS
<1>2. UNCHANGED MM!ledger
  BY DEF MM!release, MM!add_fails, MM!realloc
<1>3. MMChain(c)'
  BY <1>1, <1>2, ChainKept
<1>4. mm_node' = mm_node /\ mm_live' = mm_live /\ mm_start' = mm_start
  BY <1>2 DEF MM!ledger
<1>5. ASSUME mm_pc[t] = "release" PROVE Unrecorded(mm_arg[t]) /\ mm_arg[t] \in mm_held[t]
  <2>1. mm_arg[t] \in mm_held[t]
    BY <1>5 DEF MMOwned, MMWorking
  <2>2. ASSUME NEW n \in mm_live, mm_node[n].mem_ref = mm_arg[t] PROVE FALSE
    <3>1. PICK u \in Users : /\ mm_arg[t] \in mm_held[u]
                             /\ ~(mm_pc[u] = "release" /\ mm_arg[u] = mm_arg[t])
      BY <2>2 DEF MMRecorded
    <3>2. u = t
      BY <2>1, <3>1 DEF MMOwned
    <3> QED
      BY <1>5, <3>1, <3>2
  <2> QED
    BY <2>1, <2>2 DEF Unrecorded
<1>6. CASE MM!release(t)
  <2>1. /\ mm_pc[t] = "release" /\ mm_pc'[t] = "idle"
        /\ mm_held'[t] = mm_held[t] \ {mm_arg[t]}
        /\ \A u \in Users \ {t} : /\ mm_pc'[u] = mm_pc[u] /\ mm_ptr'[u] = mm_ptr[u]
                                  /\ mm_arg'[u] = mm_arg[u] /\ mm_held'[u] = mm_held[u]
        /\ mm_heap' = mm_heap \ {mm_arg[t]} /\ mm_overrun' = mm_overrun \ {mm_arg[t]}
    BY <1>6 DEF MM!release, MM!Return, MM!Goto, MMTyped
  <2>2. MMTyped'
    BY <1>4, <1>6 DEF MM!release, MM!Return, MM!Goto, MM!NoBlock, MM!Nil, MMTyped, MMLabels
  <2>3. MMOwned'
    BY <1>5, <2>1 DEF MMOwned, MMWorking
  <2>4. MMRecorded'
    BY <1>4, <1>5, <2>1 DEF MMRecorded, Unrecorded
  <2>5. MMCalls'
    BY <1>4, <2>1 DEF MMCalls, Unrecorded
  <2> QED
    BY <1>3, <2>2, <2>3, <2>4, <2>5
<1>7. CASE MM!add_fails(t)
  <2>1. /\ mm_pc[t] = "add" /\ mm_pc'[t] = "idle"
        /\ mm_held'[t] = mm_held[t] \cup {mm_arg[t]}
        /\ \A u \in Users \ {t} : /\ mm_pc'[u] = mm_pc[u] /\ mm_ptr'[u] = mm_ptr[u]
                                  /\ mm_arg'[u] = mm_arg[u] /\ mm_held'[u] = mm_held[u]
        /\ mm_heap' = mm_heap /\ mm_overrun' = mm_overrun
    BY <1>7 DEF MM!add_fails, MM!Return, MM!Goto, MMTyped
  <2>2. MMTyped'
    BY <1>4, <1>7 DEF MM!add_fails, MM!Return, MM!Goto, MM!NoBlock, MM!Nil, MMTyped, MMLabels
  <2>3. MMOwned'
    BY <2>1 DEF MMOwned, MMWorking
  <2>4. MMRecorded'
    BY <1>4, <2>1 DEF MMRecorded
  <2>5. MMCalls'
    BY <1>4, <2>1 DEF MMCalls, Unrecorded
  <2> QED
    BY <1>3, <2>2, <2>3, <2>4, <2>5
<1>8. ASSUME NEW b \in 1..MaxBlocks, MM!realloc(t, b) PROVE MMGood'
  <2>1. /\ mm_pc[t] = "release" /\ mm_pc'[t] = "add" /\ mm_arg'[t] = b
        /\ mm_held'[t] = mm_held[t] \ {mm_arg[t]}
        /\ \A u \in Users \ {t} : /\ mm_pc'[u] = mm_pc[u]
                                  /\ mm_arg'[u] = mm_arg[u] /\ mm_held'[u] = mm_held[u]
        /\ mm_ptr' = mm_ptr /\ b \notin mm_heap \ {mm_arg[t]}
        /\ mm_heap' = (mm_heap \ {mm_arg[t]}) \cup {b}
        /\ mm_overrun' = mm_overrun \ {mm_arg[t]}
    BY <1>8 DEF MM!realloc, MM!Goto, MMTyped
  <2>2. MMTyped'
    <3>1. b \in Nat
      BY MemoryAssumption
    <3>2. (mm_heap \subseteq Nat /\ mm_overrun \subseteq Nat)'
      BY <2>1, <3>1 DEF MMTyped
    <3>3. (mm_held \in [Users -> SUBSET Nat])'
      <4>1. mm_held' = [mm_held EXCEPT ![t] = mm_held[t] \ {mm_arg[t]}]
        BY <1>8 DEF MM!realloc
      <4> QED
        BY <4>1 DEF MMTyped
    <3>4. (mm_pc \in [Users -> MMLabels])'
      BY <1>8 DEF MM!realloc, MM!Goto, MMTyped, MMLabels
    <3>5. (mm_arg \in [Users -> Nat])'
      BY <1>8, <3>1 DEF MM!realloc, MMTyped
    <3>6. mm_op' = mm_op
      BY <1>8 DEF MM!realloc
    <3> QED
      BY <1>4, <2>1, <3>2, <3>3, <3>4, <3>5, <3>6 DEF MMTyped
  <2>3. MMOwned'
    BY <1>5, <2>1 DEF MMOwned, MMWorking
  <2>4. MMRecorded'
    BY <1>4, <1>5, <2>1 DEF MMRecorded, Unrecorded
  <2>5. MMCalls'
    BY <1>4, <2>1 DEF MMCalls, Unrecorded
  <2> QED
    BY <1>3, <2>2, <2>3, <2>4, <2>5
<1> QED
  BY <1>6, <1>7, <1>8
\* A record is added: the chain grows by it at its end.
LEMMA MMAdd ==
  ASSUME MMGood, NEW t \in Users, NEW n \in 1..MaxBlocks, MM!add_mem_info(t, n)
  PROVE  MMGood'
<1> USE DEF MMGood
<1>1. PICK c : MMChain(c)
  OBVIOUS
<1>2. /\ n \in MMNodes /\ n # MM!Nil /\ n \in Nat /\ n \notin mm_live
      /\ \A i \in 1..Len(c) : c[i] # n
  BY <1>1, ChainFacts, MemoryAssumption DEF MM!add_mem_info, MMNodes, MM!Nil
<1>3. /\ mm_pc[t] = "add" /\ mm_pc'[t] = "idle"
      /\ mm_held'[t] = mm_held[t] \cup {mm_arg[t]}
      /\ \A u \in Users \ {t} : /\ mm_pc'[u] = mm_pc[u] /\ mm_ptr'[u] = mm_ptr[u]
                                /\ mm_arg'[u] = mm_arg[u] /\ mm_held'[u] = mm_held[u]
      /\ mm_heap' = mm_heap /\ mm_overrun' = mm_overrun
      /\ mm_live' = mm_live \cup {n}
  BY DEF MM!add_mem_info, MM!Return, MM!Goto, MMTyped
<1>4. /\ mm_start' = IF mm_start = MM!Nil THEN n ELSE mm_start
      /\ mm_last' = n /\ mm_num' = mm_num + 1
  BY DEF MM!add_mem_info
<1>5. /\ mm_node' \in [MMNodes -> [mem_ref : Nat, next : Nat]]
      /\ mm_node'[n].mem_ref = mm_arg[t] /\ mm_node'[n].next = MM!Nil
      /\ \A m \in MMNodes \ {n} :
           /\ mm_node'[m].mem_ref = mm_node[m].mem_ref
           /\ mm_node'[m].next = IF mm_start # MM!Nil /\ m = mm_last
                                 THEN n ELSE mm_node[m].next
  <2> DEFINE g(m) == IF m = n THEN [mem_ref |-> mm_arg[t], next |-> MM!Nil]
                     ELSE IF mm_start # MM!Nil /\ m = mm_last
                          THEN [mm_node[m] EXCEPT !.next = n] ELSE mm_node[m]
  <2>1. mm_node' = [m \in MMNodes |-> g(m)]
    BY DEF MM!add_mem_info, MMNodes
  <2>2. ASSUME NEW m \in MMNodes
        PROVE  /\ g(m) \in [mem_ref : Nat, next : Nat]
               /\ m = n => g(m).mem_ref = mm_arg[t] /\ g(m).next = MM!Nil
               /\ m # n => /\ g(m).mem_ref = mm_node[m].mem_ref
                           /\ g(m).next = IF mm_start # MM!Nil /\ m = mm_last
                                          THEN n ELSE mm_node[m].next
    BY <1>2 DEF MMTyped, MM!Nil
  <2> HIDE DEF g
  <2> QED
    BY <1>2, <2>1, <2>2
<1>6. MMTyped'
  <2>1. mm_held' = [mm_held EXCEPT ![t] = mm_held[t] \cup {mm_arg[t]}]
    BY DEF MM!add_mem_info
  <2>2. (mm_held \in [Users -> SUBSET Nat])'
    BY <2>1 DEF MMTyped
  <2>3. (mm_pc \in [Users -> MMLabels])' /\ (DOMAIN mm_op = Users)'
    BY DEF MM!add_mem_info, MM!Return, MM!Goto, MMTyped, MMLabels
  <2>4. (mm_arg \in [Users -> Nat] /\ mm_ptr \in [Users -> Nat])'
    BY DEF MM!add_mem_info, MM!Return, MM!NoBlock, MM!Nil, MMTyped
  <2> QED
    BY <1>3, <1>5, <2>2, <2>3, <2>4 DEF MMTyped
<1>7. \E d : MMChain(d)'
  <2> DEFINE d == Append(c, n)
  <2>1. c \in Seq(MMNodes) /\ Len(c) \in Nat
    BY <1>1, ChainFacts
  <2>2. /\ d \in Seq(MMNodes) /\ Len(d) = Len(c) + 1
        /\ \A i \in 1..Len(c) : d[i] = c[i]
        /\ d[Len(c) + 1] = n
    BY <1>2, <2>1, AppendProperties
  <2> HIDE DEF d
  <2>3. PICK l \in Nat : l = Len(c)
    BY <2>1
  <2>4. /\ \A i, j \in 1..l : c[i] = c[j] => i = j
        /\ mm_start = IF l = 0 THEN MM!Nil ELSE c[1]
        /\ \A i \in 1..l : mm_node[c[i]].next = IF i = l THEN MM!Nil ELSE c[i + 1]
        /\ l = mm_num
        /\ \A m : m \in mm_live <=> \E i \in 1..l : c[i] = m
        /\ l > 0 => mm_last = c[l]
    BY <1>1, <2>3 DEF MMChain, MMPath
  <2>5. \A i \in 1..l : c[i] \in MMNodes /\ c[i] # n /\ c[i] # MM!Nil
    BY <1>1, <1>2, <2>3, ChainFacts
  <2>6. /\ Len(d) = l + 1 /\ (\A i \in 1..l : d[i] = c[i]) /\ d[l + 1] = n
    BY <2>2, <2>3
  <2>7. ASSUME NEW i \in 1..l + 1, NEW j \in 1..l + 1, d[i] = d[j] PROVE i = j
    <3>1. i \in 1..l \/ i = l + 1
      OBVIOUS
    <3>2. j \in 1..l \/ j = l + 1
      OBVIOUS
    <3> QED
      BY <2>4, <2>5, <2>6, <2>7, <3>1, <3>2
  <2>8. mm_start' = d[1]
    <3>1. CASE l = 0
      BY <1>4, <2>4, <2>6, <3>1
    <3>2. CASE l # 0
      <4>1. 1 \in 1..l
        BY <3>2
      <4> QED
        BY <1>4, <2>4, <2>5, <2>6, <3>2, <4>1
    <3> QED
      BY <3>1, <3>2
  <2>9. ASSUME NEW i \in 1..l + 1
        PROVE  mm_node'[d[i]].next = IF i = l + 1 THEN MM!Nil ELSE d[i + 1]
    <3>1. CASE i = l + 1
      BY <1>5, <2>6, <3>1
    <3>2. CASE i = l /\ i # 0
      <4>1. i \in 1..l /\ i # l + 1 /\ l > 0 /\ 1 \in 1..l /\ i + 1 = l + 1
        BY <3>2
      <4>2. mm_start # MM!Nil /\ c[i] = mm_last /\ c[i] \in MMNodes \ {n}
        BY <2>4, <2>5, <3>2, <4>1
      <4>3. mm_node'[c[i]].next = n
        BY <1>5, <4>2
      <4> QED
        BY <2>6, <4>1, <4>3
    <3>3. CASE i < l
      <4>1. i \in 1..l /\ i # l + 1 /\ l > 0 /\ l \in 1..l /\ i + 1 \in 1..l /\ i # l
        BY <3>3
      <4>2. c[i] # mm_last /\ c[i] \in MMNodes \ {n}
        BY <2>4, <2>5, <4>1
      <4>3. mm_node'[c[i]].next = c[i + 1]
        BY <1>5, <2>4, <4>1, <4>2
      <4> QED
        BY <2>6, <4>1, <4>3
    <3> QED
      BY <3>1, <3>2, <3>3
  <2>10. ASSUME NEW m PROVE m \in mm_live' <=> \E i \in 1..l + 1 : d[i] = m
    <3>1. m \in mm_live <=> \E i \in 1..l : c[i] = m
      BY <2>4
    <3>2. (\E i \in 1..l + 1 : d[i] = m) <=> (\E i \in 1..l : c[i] = m) \/ m = n
      <4>1. \A i \in 1..l + 1 : i \in 1..l \/ i = l + 1
        OBVIOUS
      <4>2. l + 1 \in 1..l + 1 /\ \A i \in 1..l : i \in 1..l + 1
        OBVIOUS
      <4> QED
        BY <2>6, <4>1, <4>2
    <3> QED
      BY <1>3, <3>1, <3>2
  <2>11. MMPath(d, mm_start)'
    <3>1. Len(d) # 0 /\ Len(d) = l + 1
      BY <2>6
    <3> QED
      BY <2>2, <2>7, <2>8, <2>9, <3>1 DEF MMPath, MM!Nil
  <2>12. mm_num' = Len(d) /\ mm_last' = d[Len(d)]
    BY <1>4, <2>4, <2>6
  <2>13. \A m : m \in mm_live' <=> \E i \in 1..Len(d) : d[i] = m
    BY <2>6, <2>10
  <2>14. MMChain(d)'
    BY <2>11, <2>12, <2>13 DEF MMChain
  <2> QED
    BY <2>14
<1>8. MMOwned'
  BY <1>3 DEF MMOwned, MMWorking
<1>9. \A m \in mm_live : m \in MMNodes \ {n} /\ mm_node'[m].mem_ref = mm_node[m].mem_ref
  BY <1>1, <1>2, <1>5, ChainFacts
<1>10. \A u \in Users : mm_arg[t] \notin mm_held[u]
  BY <1>3 DEF MMOwned
<1>11. MMRecorded'
  <2>1. \A m \in mm_live : mm_node[m].mem_ref # mm_arg[t]
    BY <1>10 DEF MMRecorded
  <2>2. ASSUME NEW m \in mm_live'
        PROVE  (\E u \in Users : /\ mm_node[m].mem_ref \in mm_held[u]
                                 /\ ~(mm_pc[u] = "release" /\ mm_arg[u] = mm_node[m].mem_ref))'
    <3>1. CASE m = n
      BY <1>3, <1>5, <3>1
    <3>2. CASE m # n
      <4>1. m \in mm_live
        BY <1>3, <3>2
      <4>2. PICK u \in Users : /\ mm_node[m].mem_ref \in mm_held[u]
                               /\ ~(mm_pc[u] = "release" /\ mm_arg[u] = mm_node[m].mem_ref)
        BY <4>1 DEF MMRecorded
      <4>3. mm_node'[m].mem_ref \in mm_held'[u]
        BY <1>3, <1>9, <4>1, <4>2
      <4>4. ~(mm_pc'[u] = "release" /\ mm_arg'[u] = mm_node'[m].mem_ref)
        BY <1>3, <1>9, <4>1, <4>2
      <4> QED
        BY <4>3, <4>4
    <3> QED
      BY <3>1, <3>2
  <2>3. (\A m, k \in mm_live : mm_node[m].mem_ref = mm_node[k].mem_ref => m = k)'
    BY <1>3, <1>5, <1>9, <2>1 DEF MMRecorded
  <2> QED
    BY <2>2, <2>3 DEF MMRecorded
<1>12. MMCalls'
  <2> SUFFICES ASSUME NEW u \in Users, mm_pc'[u] \in {"find", "check", "erase"}
               PROVE  /\ (mm_pc'[u] \in {"find", "check", "erase"} /\ mm_ptr'[u] = MM!Nil)
                           => Unrecorded(mm_arg[u])'
                      /\ (mm_pc'[u] = "check" /\ mm_ptr'[u] # MM!Nil) =>
                           mm_ptr'[u] \in mm_live' /\ mm_node'[mm_ptr'[u]].mem_ref = mm_arg'[u]
                      /\ (mm_pc'[u] = "erase" /\ mm_arg'[u] \in mm_overrun')
                           => Unrecorded(mm_arg[u])'
    BY DEF MMCalls, MM!Nil
  <2>1. u # t
    BY <1>3
  <2>2. mm_arg[u] # mm_arg[t]
    BY <1>3, <1>10, <2>1 DEF MMOwned, MMWorking
  <2>3. Unrecorded(mm_arg[u]) => Unrecorded(mm_arg[u])'
    BY <1>3, <1>5, <1>9, <2>1, <2>2 DEF Unrecorded
  <2> QED
    BY <1>3, <1>9, <2>1, <2>3 DEF MMCalls
<1> QED
  BY <1>6, <1>7, <1>8, <1>11, <1>12
\* Unlinking the i-th record leaves the chain without it.
LEMMA Unlinked ==
  ASSUME NEW c, MMChain(c), MMTyped, NEW i \in 1..Len(c), MM!unlink(c, i)
  PROVE  /\ \E d : MMChain(d)'
         /\ mm_live' = mm_live \ {c[i]}
         /\ mm_node' \in [MMNodes -> [mem_ref : Nat, next : Nat]]
         /\ \A m \in MMNodes \ {c[i]} : mm_node'[m].mem_ref = mm_node[m].mem_ref
<1>1. c \in Seq(MMNodes) /\ Len(c) \in Nat
  BY ChainFacts
<1>2. PICK l \in Nat : l = Len(c)
  BY <1>1
<1>3. /\ \A j, k \in 1..l : c[j] = c[k] => j = k
      /\ mm_start = IF l = 0 THEN MM!Nil ELSE c[1]
      /\ \A j \in 1..l : mm_node[c[j]].next = IF j = l THEN MM!Nil ELSE c[j + 1]
      /\ l = mm_num
      /\ \A m : m \in mm_live <=> \E j \in 1..l : c[j] = m
      /\ l > 0 => mm_last = c[l]
  BY <1>2 DEF MMChain, MMPath
<1>4. /\ i \in 1..l /\ l > 0 /\ 1 \in 1..l /\ l \in 1..l
      /\ \A j \in 1..l : c[j] \in MMNodes /\ c[j] # MM!Nil
  BY <1>1, <1>2, ChainFacts
<1>5. (c[i] = mm_start <=> i = 1) /\ (c[i] = mm_last <=> i = l)
  BY <1>3, <1>4
<1>6. /\ mm_start' = IF i = 1 THEN mm_node[c[i]].next ELSE mm_start
      /\ mm_last' = IF i # 1 /\ i = l THEN c[i - 1] ELSE mm_last
      /\ mm_live' = mm_live \ {c[i]} /\ mm_num' = mm_num - 1
  BY <1>5 DEF MM!unlink
<1>7. /\ mm_node' \in [MMNodes -> [mem_ref : Nat, next : Nat]]
      /\ \A m \in MMNodes \ {c[i]} :
           /\ mm_node'[m].mem_ref = mm_node[m].mem_ref
           /\ mm_node'[m].next = IF i # 1 /\ m = c[i - 1] THEN mm_node[c[i]].next
                                 ELSE mm_node[m].next
  <2> DEFINE g(m) == IF m = c[i] THEN MM!Blank
                     ELSE IF c[i] # mm_start /\ m = c[i - 1]
                          THEN [mm_node[m] EXCEPT !.next = mm_node[c[i]].next] ELSE mm_node[m]
  <2>1. mm_node' = [m \in MMNodes |-> g(m)]
    BY DEF MM!unlink, MMNodes
  <2>2. mm_node[c[i]].next \in Nat
    BY <1>4 DEF MMTyped
  <2>3. ASSUME NEW m \in MMNodes
        PROVE  /\ g(m) \in [mem_ref : Nat, next : Nat]
               /\ m # c[i] => /\ g(m).mem_ref = mm_node[m].mem_ref
                              /\ g(m).next = IF i # 1 /\ m = c[i - 1]
                                             THEN mm_node[c[i]].next ELSE mm_node[m].next
    BY <1>5, <2>2 DEF MMTyped, MM!Blank, MM!NoBlock, MM!Nil
  <2> HIDE DEF g
  <2> QED
    BY <2>1, <2>3
<1> DEFINE d == [k \in 1..l - 1 |-> IF k < i THEN c[k] ELSE c[k + 1]]
<1>8. \A k \in 1..l - 1 : k \in 1..l /\ k + 1 \in 1..l
  OBVIOUS
<1>9. d \in Seq(MMNodes) /\ Len(d) = l - 1
  <2>1. l - 1 \in Nat
    BY <1>4
  <2>2. \A k \in 1..l - 1 : (IF k < i THEN c[k] ELSE c[k + 1]) \in MMNodes
    BY <1>4, <1>8
  <2> QED
    BY <2>1, <2>2
<1>10. \A k \in 1..l - 1 : d[k] = IF k < i THEN c[k] ELSE c[k + 1]
  OBVIOUS
<1> HIDE DEF d
<1>n. ASSUME NEW j \in 1..l, NEW k \in 1..l, c[j] = c[k] PROVE j = k
  BY <1>3, <1>n
<1>11. ASSUME NEW k \in 1..l - 1 PROVE d[k] # c[i] /\ d[k] \in MMNodes \ {c[i]}
  <2>1. CASE k < i
    <3>1. d[k] = c[k] /\ k \in 1..l /\ k # i
      BY ONLY <1>4, <1>8, <1>10, <1>11, <2>1
    <3> QED
      BY <1>4, <1>n, <3>1
  <2>2. CASE ~(k < i)
    <3>1. d[k] = c[k + 1] /\ k + 1 \in 1..l /\ k + 1 # i
      BY ONLY <1>4, <1>8, <1>10, <1>11, <2>2
    <3> QED
      BY <1>4, <1>n, <3>1
  <2> QED
    BY <2>1, <2>2
<1>12. ASSUME NEW j \in 1..l - 1, NEW k \in 1..l - 1, d[j] = d[k] PROVE j = k
  <2>1. CASE j < i /\ k < i
    BY ONLY <1>n, <1>8, <1>10, <1>12, <2>1
  <2>2. CASE j < i /\ ~(k < i)
    <3>1. d[j] = c[j] /\ d[k] = c[k + 1] /\ j \in 1..l /\ k + 1 \in 1..l
      BY ONLY <1>8, <1>10, <1>12, <2>2
    <3>2. j = k + 1
      BY ONLY <1>n, <1>12, <3>1
    <3> QED
      BY <1>4, <2>2, <3>2
  <2>3. CASE ~(j < i) /\ k < i
    <3>1. d[j] = c[j + 1] /\ d[k] = c[k] /\ j + 1 \in 1..l /\ k \in 1..l
      BY ONLY <1>8, <1>10, <1>12, <2>3
    <3>2. j + 1 = k
      BY ONLY <1>n, <1>12, <3>1
    <3> QED
      BY <1>4, <2>3, <3>2
  <2>4. CASE ~(j < i) /\ ~(k < i)
    <3>1. d[j] = c[j + 1] /\ d[k] = c[k + 1] /\ j + 1 \in 1..l /\ k + 1 \in 1..l
      BY ONLY <1>8, <1>10, <1>12, <2>4
    <3>2. j + 1 = k + 1
      BY ONLY <1>n, <1>12, <3>1
    <3> QED
      BY <3>2
  <2> QED
    BY <2>1, <2>2, <2>3, <2>4
<1>13. mm_start' = IF l - 1 = 0 THEN MM!Nil ELSE d[1]
  <2>1. CASE i = 1
    <3>1. mm_start' = IF l = 1 THEN MM!Nil ELSE c[2]
      BY <1>3, <1>4, <1>6, <2>1
    <3>2. l # 1 => 1 \in 1..l - 1 /\ d[1] = c[2]
      BY <1>4, <1>10, <2>1
    <3> QED
      BY <3>1, <3>2
  <2>2. CASE i # 1
    <3>1. 1 \in 1..l - 1 /\ 1 < i /\ l - 1 # 0
      BY <1>4, <2>2
    <3> QED
      BY <1>3, <1>6, <1>10, <2>2, <3>1
  <2> QED
    BY <2>1, <2>2
<1>14. ASSUME NEW k \in 1..l - 1
       PROVE  mm_node'[d[k]].next = IF k = l - 1 THEN MM!Nil ELSE d[k + 1]
  <2>1. CASE k >= i
    <3>1. d[k] = c[k + 1] /\ k + 1 \in 1..l /\ (i # 1 => i - 1 \in 1..l /\ k + 1 # i - 1)
      BY <1>4, <1>8, <1>10, <2>1
    <3>2. ~(i # 1 /\ d[k] = c[i - 1])
      BY <1>3, <3>1
    <3>3. mm_node'[d[k]].next = mm_node[c[k + 1]].next
      BY <1>7, <1>11, <3>1, <3>2
    <3>4. ASSUME k # l - 1 PROVE d[k + 1] = c[k + 2]
      <4>1. k + 1 \in 1..l - 1 /\ ~(k + 1 < i) /\ (k + 1) + 1 = k + 2
        BY <1>4, <2>1, <3>4
      <4>2. d[k + 1] = c[(k + 1) + 1]
        BY <1>10, <4>1
      <4> QED
        BY <4>1, <4>2
    <3>5. mm_node[c[k + 1]].next = IF k + 1 = l THEN MM!Nil ELSE c[k + 2]
      BY <1>3, <3>1
    <3> QED
      BY <3>3, <3>4, <3>5
  <2>2. CASE k = i - 1
    <3>1. d[k] = c[i - 1] /\ i # 1
      BY <1>4, <1>10, <2>2
    <3>2. mm_node'[d[k]].next = mm_node[c[i]].next
      BY <1>7, <1>11, <3>1
    <3>3. k # l - 1 => k + 1 \in 1..l - 1 /\ d[k + 1] = c[i + 1]
      BY <1>4, <1>10, <2>2
    <3>4. mm_node[c[i]].next = IF i = l THEN MM!Nil ELSE c[i + 1]
      BY <1>3, <1>4
    <3> QED
      BY <1>4, <2>2, <3>2, <3>3, <3>4
  <2>3. CASE k < i - 1
    <3>1. /\ d[k] = c[k] /\ k \in 1..l /\ i - 1 \in 1..l /\ k # i - 1
          /\ k # l - 1 /\ k # l /\ k + 1 \in 1..l - 1 /\ k + 1 < i
      BY <1>4, <1>8, <1>10, <2>3
    <3>2. d[k] # c[i - 1]
      BY <1>3, <3>1
    <3>3. mm_node'[d[k]].next = mm_node[c[k]].next
      BY <1>7, <1>11, <3>1, <3>2
    <3>4. d[k + 1] = c[k + 1]
      BY <1>10, <3>1
    <3> QED
      BY <1>3, <3>1, <3>3, <3>4
  <2> QED
    BY <1>4, <2>1, <2>2, <2>3
<1>15. ASSUME NEW m PROVE m \in mm_live' <=> \E k \in 1..l - 1 : d[k] = m
  <2>1. ASSUME NEW k \in 1..l - 1, d[k] = m PROVE m \in mm_live'
    <3>1. \E j \in 1..l : c[j] = m
      BY <1>8, <1>10, <2>1
    <3> QED
      BY <1>3, <1>6, <1>11, <2>1, <3>1
  <2>2. ASSUME m \in mm_live' PROVE \E k \in 1..l - 1 : d[k] = m
    <3>1. PICK j \in 1..l : c[j] = m
      BY <1>3, <1>6, <2>2
    <3>2. j # i
      BY <1>6, <2>2, <3>1
    <3>3. CASE j < i
      <4>1. j \in 1..l - 1
        BY <1>4, <3>3
      <4> QED
        BY <1>10, <3>1, <3>3, <4>1
    <3>4. CASE j > i
      <4>1. j - 1 \in 1..l - 1 /\ ~(j - 1 < i) /\ (j - 1) + 1 = j
        BY <1>4, <3>4
      <4>2. d[j - 1] = c[(j - 1) + 1]
        BY <1>10, <4>1
      <4> QED
        BY <3>1, <4>1, <4>2
    <3> QED
      BY <1>4, <3>2, <3>3, <3>4
  <2> QED
    BY <2>1, <2>2
<1>16. MMPath(d, mm_start)'
  <2>1. \A j, k \in 1..Len(d) : d[j] = d[k] => j = k
    BY <1>9, <1>12
  <2>2. \A k \in 1..Len(d) : mm_node'[d[k]].next = IF k = Len(d) THEN MM!Nil ELSE d[k + 1]
    BY <1>9, <1>14
  <2>3. mm_start' = IF Len(d) = 0 THEN MM!Nil ELSE d[1]
    BY <1>9, <1>13
  <2> QED
    BY <1>9, <2>1, <2>2, <2>3 DEF MMPath, MM!Nil
<1>17. Len(d) > 0 => mm_last' = d[Len(d)]
  <2> SUFFICES ASSUME l - 1 > 0 PROVE mm_last' = d[l - 1]
    BY <1>9
  <2>1. l - 1 \in 1..l - 1 /\ (l - 1) + 1 = l
    BY <1>4
  <2>2. CASE i = l
    <3>1. i # 1 /\ l - 1 < i /\ i - 1 = l - 1
      BY <1>4, <2>2
    <3> QED
      BY <1>6, <1>10, <2>1, <2>2, <3>1
  <2>3. CASE i # l
    <3>1. ~(l - 1 < i)
      BY <1>4, <2>3
    <3>2. d[l - 1] = c[(l - 1) + 1]
      BY <1>10, <2>1, <3>1
    <3> QED
      BY <1>3, <1>4, <1>6, <2>1, <2>3, <3>2
  <2> QED
    BY <2>2, <2>3
<1>18. MMChain(d)'
  <2>1. \A m : m \in mm_live' <=> \E k \in 1..Len(d) : d[k] = m
    BY <1>9, <1>15
  <2>2. mm_num' = Len(d)
    BY <1>3, <1>6, <1>9
  <2> QED
    BY <1>16, <1>17, <2>1, <2>2 DEF MMChain
<1> QED
  BY <1>6, <1>7, <1>18

\* A record is erased, if there is one: its block has none any more.
LEMMA MMErase ==
  ASSUME MMGood, NEW t \in Users, MM!erase_mem_info(t)
  PROVE  MMGood'
<1> USE DEF MMGood
<1>1. PICK c : MMChain(c)
  OBVIOUS
<1> DEFINE w == MM!Walk(mm_ptr[t])
           i == MM!Place(w, mm_arg[t])
<1>2. /\ mm_pc[t] = "erase" /\ ~MM!Stale(t)
      /\ mm_pc' = [mm_pc EXCEPT ![t] = "release"]
      /\ UNCHANGED <<mm_held, mm_heap, mm_overrun, mm_op, mm_arg, mm_ptr>>
      /\ IF i = 0 THEN UNCHANGED MM!ledger ELSE MM!unlink(w, i)
  BY DEF MM!erase_mem_info, MM!Goto
<1>3. \/ i = 0 /\ Unrecorded(mm_arg[t])
      \/ w = c /\ i \in 1..Len(c) /\ mm_node[c[i]].mem_ref = mm_arg[t]
  BY <1>1, <1>2, SearchFacts
<1> HIDE DEF w, i
<1>4. /\ \E d : MMChain(d)'
      /\ mm_node' \in [MMNodes -> [mem_ref : Nat, next : Nat]]
      /\ \A n \in mm_live' : n \in mm_live /\ mm_node'[n].mem_ref = mm_node[n].mem_ref
      /\ \A n \in mm_live' : mm_node[n].mem_ref # mm_arg[t]
      /\ \A n \in mm_live : mm_node[n].mem_ref # mm_arg[t] => n \in mm_live'
  <2>1. CASE i = 0 /\ Unrecorded(mm_arg[t])
    <3>1. UNCHANGED MM!ledger
      BY <1>2, <2>1
    <3>2. MMChain(c)'
      BY <1>1, <3>1, ChainKept
    <3> QED
      BY <2>1, <3>1, <3>2 DEF MM!ledger, Unrecorded, MMTyped
  <2>2. CASE w = c /\ i \in 1..Len(c) /\ mm_node[c[i]].mem_ref = mm_arg[t]
    <3>1. i # 0 /\ c[i] \in mm_live /\ \A n \in mm_live : n \in MMNodes
      BY <1>1, <2>2, ChainFacts
    <3>2. MM!unlink(c, i)
      BY <1>2, <2>2, <3>1
    <3>3. /\ \E d : MMChain(d)'
          /\ mm_live' = mm_live \ {c[i]}
          /\ mm_node' \in [MMNodes -> [mem_ref : Nat, next : Nat]]
          /\ \A m \in MMNodes \ {c[i]} : mm_node'[m].mem_ref = mm_node[m].mem_ref
      BY <1>1, <2>2, <3>2, Unlinked
    <3>4. \A n \in mm_live \ {c[i]} : mm_node[n].mem_ref # mm_arg[t]
      BY <2>2, <3>1 DEF MMRecorded
    <3> QED
      BY <2>2, <3>1, <3>3, <3>4
  <2> QED
    BY <1>3, <2>1, <2>2
<1>5. mm_pc'[t] = "release" /\ \A u \in Users \ {t} : mm_pc'[u] = mm_pc[u]
  BY <1>2 DEF MMTyped
<1>6. MMTyped'
  BY <1>2, <1>4 DEF MMTyped, MMLabels
<1>7. MMOwned'
  BY <1>2, <1>5 DEF MMOwned, MMWorking
<1>8. MMRecorded'
  <2>1. ASSUME NEW n \in mm_live'
        PROVE  (\E u \in Users : /\ mm_node[n].mem_ref \in mm_held[u]
                                 /\ ~(mm_pc[u] = "release" /\ mm_arg[u] = mm_node[n].mem_ref))'
    <3>1. PICK u \in Users : /\ mm_node[n].mem_ref \in mm_held[u]
                             /\ ~(mm_pc[u] = "release" /\ mm_arg[u] = mm_node[n].mem_ref)
      BY <1>4 DEF MMRecorded
    <3>2. mm_node'[n].mem_ref \in mm_held'[u]
      BY <1>2, <1>4, <3>1
    <3>3. ~(mm_pc'[u] = "release" /\ mm_arg'[u] = mm_node'[n].mem_ref)
      BY <1>2, <1>4, <1>5, <3>1
    <3> QED
      BY <3>2, <3>3
  <2>2. (\A m, n \in mm_live : mm_node[m].mem_ref = mm_node[n].mem_ref => m = n)'
    BY <1>4 DEF MMRecorded
  <2> QED
    BY <2>1, <2>2 DEF MMRecorded
<1>9. MMCalls'
  <2>1. \A b : Unrecorded(b) => \A n \in mm_live' : mm_node'[n].mem_ref # b
    BY <1>4 DEF Unrecorded
  <2>2. ASSUME NEW u \in Users, mm_pc'[u] \in {"find", "check", "erase"}
        PROVE  u # t /\ mm_pc'[u] = mm_pc[u] /\ mm_arg[u] # mm_arg[t]
    <3>1. u # t /\ mm_pc'[u] = mm_pc[u]
      BY <1>5, <2>2
    <3>2. mm_arg[u] \in mm_held[u] /\ mm_arg[t] \in mm_held[t]
      BY <1>2, <2>2, <3>1 DEF MMOwned, MMWorking
    <3> QED
      BY <3>1, <3>2 DEF MMOwned
  <2> SUFFICES ASSUME NEW u \in Users, mm_pc'[u] \in {"find", "check", "erase"}
               PROVE  /\ (mm_pc'[u] \in {"find", "check", "erase"} /\ mm_ptr'[u] = MM!Nil)
                           => Unrecorded(mm_arg[u])'
                      /\ (mm_pc'[u] = "check" /\ mm_ptr'[u] # MM!Nil) =>
                           mm_ptr'[u] \in mm_live' /\ mm_node'[mm_ptr'[u]].mem_ref = mm_arg'[u]
                      /\ (mm_pc'[u] = "erase" /\ mm_arg'[u] \in mm_overrun')
                           => Unrecorded(mm_arg[u])'
    BY DEF MMCalls, MM!Nil
  <2>3. Unrecorded(mm_arg[u]) => Unrecorded(mm_arg[u])'
    BY <1>2, <2>1 DEF Unrecorded
  <2>4. ASSUME mm_pc[u] = "check", mm_ptr[u] # MM!Nil
        PROVE  mm_ptr[u] \in mm_live' /\ mm_node'[mm_ptr[u]].mem_ref = mm_arg[u]
    <3>1. mm_ptr[u] \in mm_live /\ mm_node[mm_ptr[u]].mem_ref = mm_arg[u]
      BY <2>4 DEF MMCalls
    <3> QED
      BY <1>4, <2>2, <3>1
  <2> QED
    BY <1>2, <2>2, <2>3, <2>4 DEF MMCalls
<1> QED
  BY <1>4, <1>6, <1>7, <1>8, <1>9

LEMMA MMStep == MMInv /\ [MM!Next]_(MM!vars) => MMInv'
<1> SUFFICES ASSUME MMInv, [MM!Next]_(MM!vars), ~mm_stale' PROVE MMGood'
  BY DEF MMInv
<1>1. CASE UNCHANGED MM!vars
  <2>1. ~mm_stale
    BY <1>1 DEF MM!vars
  <2>2. PICK c : MMChain(c)
    BY <2>1 DEF MMInv, MMGood
  <2>3. MMChain(c)'
    BY <1>1, <2>2, ChainKept DEF MM!vars, MM!ledger
  <2>4. MMTyped' /\ MMOwned' /\ MMRecorded'
    BY <1>1, <2>1 DEF MMInv, MMGood, MM!vars, MMTyped, MMOwned, MMRecorded
  <2>5. MMCalls'
    BY <1>1, <2>1 DEF MMInv, MMGood, MM!vars, MMCalls, Unrecorded
  <2> QED
    BY <2>3, <2>4, <2>5 DEF MMGood
<1>2. ASSUME NEW t \in Users, NEW b \in 1..MaxBlocks,
             \/ MM!malloc(t, b) \/ MM!overwrite(t, b)
             \/ \E o \in {"free", "realloc", "check"} : MM!call(t, o, b)
      PROVE  MMGood'
  <2>1. ~mm_stale
    BY <1>2 DEF MM!malloc, MM!overwrite, MM!call
  <2> QED
    BY <1>2, <2>1, MMBegin DEF MMInv
<1>3. ASSUME NEW t \in Users,
             MM!find_mem_info(t) \/ MM!check_boundary(t) \/ MM!check_fails(t)
      PROVE  MMGood'
  <2>1. ~mm_stale
    BY <1>3 DEF MM!find_mem_info, MM!check_boundary, MM!check_fails
  <2> QED
    BY <1>3, <2>1, MMCheck DEF MMInv
<1>4. ASSUME NEW t \in Users,
             MM!release(t) \/ MM!add_fails(t) \/ \E b \in 1..MaxBlocks : MM!realloc(t, b)
      PROVE  MMGood'
  <2>1. ~mm_stale
    BY <1>4 DEF MM!release, MM!add_fails, MM!realloc
  <2> QED
    BY <1>4, <2>1, MMRelease DEF MMInv
<1>5. ASSUME NEW t \in Users, NEW n \in 1..MaxBlocks, MM!add_mem_info(t, n) PROVE MMGood'
  <2>1. ~mm_stale
    BY <1>5 DEF MM!add_mem_info
  <2> QED
    BY <1>5, <2>1, MMAdd DEF MMInv
<1>6. ASSUME NEW t \in Users, MM!erase_mem_info(t) PROVE MMGood'
  <2>1. ~mm_stale
    BY <1>6 DEF MM!erase_mem_info
  <2> QED
    BY <1>6, <2>1, MMErase DEF MMInv
<1>7. ASSUME NEW t \in Users, MM!wild(t) PROVE FALSE
  BY <1>7 DEF MM!wild
<1> QED
  BY <1>1, <1>2, <1>3, <1>4, <1>5, <1>6, <1>7 DEF MM!Next

\* For any number of threads and blocks and any length of run, the list memmgr.c
\* keeps is exact as long as no find_mem_info or erase_mem_info began at an
\* out-of-date ptr_info_start: the walk meets every record once, ends at
\* ptr_info_last, counts inused_mem_num, and names blocks in hand, each once.
THEOREM LedgerIsExact == MM!Spec => []LedgerExact
<1>1. MMInv => LedgerExact
  <2> SUFFICES ASSUME MMGood PROVE MM!LedgerExact
    BY DEF MMInv, LedgerExact, MM!LedgerExact
  <2> USE DEF MMGood
  <2>1. PICK c : MMChain(c)
    OBVIOUS
  <2>2. /\ MM!Records = c /\ c \in Seq(MMNodes) /\ Len(c) \in Nat
        /\ \A i \in 1..Len(c) : c[i] \in mm_live
    BY <2>1, ChainFacts DEF MM!Records
  <2>3. MM!ToSet(c) = mm_live
    <3>1. MM!ToSet(c) = {c[i] : i \in 1..Len(c)}
      BY <2>2, LenProperties DEF MM!ToSet
    <3> QED
      BY <2>1, <3>1 DEF MMChain
  <2>4. Len(c) = mm_num
    BY <2>1 DEF MMChain
  <2>5. c # <<>> => MM!Last(c) = mm_last
    BY <2>1, <2>2, EmptySeq DEF MMChain, MM!Last
  <2>6. \A i, j \in 1..Len(c) : mm_node[c[i]].mem_ref = mm_node[c[j]].mem_ref => i = j
    BY <2>1, <2>2 DEF MMRecorded, MMChain, MMPath
  <2>7. \A n \in mm_live : mm_node[n].mem_ref \in MM!InHand
    BY DEF MMRecorded, MMOwned, MM!InHand
  <2> QED
    BY <2>2, <2>3, <2>4, <2>5, <2>6, <2>7 DEF MM!LedgerExact
<1> QED
  BY <1>1, MMInit, MMStep, PTL DEF MM!Spec

\* Under the same condition, the record that cplus_mgr_check_boundary reads after
\* it gave the lock back is still the record of its block, and no free or
\* realloc erases the record of a block whose end tag was overwritten: it is
\* caught before.  For any number of threads and blocks.
THEOREM OverrunIsCaught == MM!Spec => []OverrunCaught
<1>1. MMInv => OverrunCaught
  BY DEF MMInv, MMGood, MMCalls, Unrecorded, OverrunCaught, MM!OverrunCaught
<1> QED
  BY <1>1, MMInit, MMStep, PTL DEF MM!Spec
=============================================================================
