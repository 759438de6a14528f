# Verification of libcplus

TLA+ models of the concurrent core of libcplus (a C library of threads,
events, locks, pools and lists), the TLC runs that check them on small instances
and TLAPS proofs for all sizes.  `PROJECT.json` maps every definition to the
source lines it models and lists runs, mutants, findings, hazards and theorems.

## The system

| component | state | operations | used by |
|---|---|---|---|
| mempool.c | blocks, free list threaded through the free blocks, lazily initialised | alloc, free | llist, taskpool, syslog, ipc_server |
| spin lock macros (mempool.c, data.c, atomic.c) | a lock word per object, one file-level `spin_down` | SPIN_LOCK, SPIN_UNLOCK | thread-safe pools and data objects |
| rwlock.c | pthread rwlock, `st_locked`, `count_rdlocked` | rdlock, wrlock (blocking, try, timed), unlock | thread-safe llist |
| pevent.c | mutex, condition variable, flag `event`, reset mode | wait, set, reset, get_status | task, ipc_server |
| task.c | thread, `duration`, events start, stop, finish, pause | start, stop, pause, wait_finish, set_duration | taskpool, ipc_server, syslog |
| taskpool.c | list of tasks, block pool, semaphore, workers | add, remove, clear, resize, pause, delete | applications |
| llist.c | doubly linked nodes, cursor, `sort_count` | push, pop, get, scan, sort, cursor moves | everything that queues |
| data.c | typed value, buffer and its length, validity, lock word | get_as, set_as (13 types), clone, set_key | llist helpers, applications |
| semaphore.c, sharedmem.c, mutex.c | named or anonymous IPC objects | create or open, wait, post, lock | taskpool, pevent, rwlock |
| event_server.c | counter in an eventfd, poll task, accept task | start, attach, connect, add_count, delete | applications |
| ipc_server.c | connections in a pool and a list, accept task, a task and a parser per connection; the client's sequence number | accept, reap, receive, reply; send_request, send_oneway, send_heartbeat | applications |
| syslog.c | pool of messages, queue, worker task | fatal ... trace, delete | applications |
| systime.c | none (tick arithmetic) | get, diff, compare | task, ipc_server |
| memmgr.c | linked records of live blocks (debug builds) | malloc, realloc, free, check, report | everything |
| socket.c, file.c, sys.c, helper.c, cplus.c, unittest.c | no state of their own | wrappers, dispatch, test runner | everything |

What is hard here: shared variables touched without the lock that should guard
them (`spin_down`, `st_locked`, the list's cursor and size); waits that race
timeouts and sets; stop, pause and cancellation of threads; tokens and list
entries that are counted separately; cached positions in a structure that
changes.  The properties that make the parts correct: a pool hands no block out
twice and loses none; locks exclude; an event loses no wake-up; a stop ends its
task, frees it once and returns; a task pool runs each task once, in order, and
strands none; index i of a list yields its i-th element; packets leave a
connection whole, in order and answered, however the stream cuts them; a client
takes only its own answer; a server loses no connection slot; a number survives
its conversions; the log is what was queued, as far as the file takes it; a named
mutex excludes between processes, also after one died.

## Modules

| module | models | correspondence |
|---|---|---|
| `Mempool` | mempool.c | memory as words: a free block's first word is the link; one action per call; `NextAfterAlloc`, `FreedLink`, `InitializedWord` are the pointer expressions; `enomem` is the result of the last alloc |
| `SpinLock` | the spin lock macros | one action per atomic access; the expected operand is the shared variable, a failed exchange stores into it |
| `RWLock` | rwlock.c | the pthread lock as holder sets (external), then each plain load and store of the two fields as a step of its own |
| `Event` | what an event promises | each call is one step |
| `PEvent` | pevent.c | mutex, condition queue and flag; one action per critical step of wait, set, reset and get_status; spurious wake-ups and timeouts |
| `Task` | task.c | executor thread and client; the four events atomic, as `Event` |
| `TaskPool` | taskpool.c over task.c | sections of `task_access_sect` are steps, the semaphore is posted and taken in steps of its own |
| `LList` | llist.c | heap of nodes, head and tail, and the cursor as a pointer to a cell plus `cur_index`; a dereference of null is a crash |
| `IpcStream` | the receiving side of ipc_server.c | the socket as a byte sequence of which any prefix is received; one action per result of `recv` and per iteration of `ipc_packet_analyze`; a payload buffer has exactly the length needed |
| `IpcServer` | the connections of ipc_server.c | accept task and connections' tasks, one step per section of `ipc_conn_sect`, per system call that waits and per callback |
| `IpcRequest` | the synchronous client of ipc_server.c | one action per call and per way a receive can end; packets are numbered by the call they answer, `seqn` is that number modulo the limit; the rest of a broken packet is `Junk` |
| `DataTypes` | the casts, `memcpy`, `snprintf` and `sscanf` that data.c uses (external), on words of `Radix` values | a byte is a digit of base `Radix`; a type keeps its size in bytes, so int8 is one digit and int64 eight; a float is a mantissa of all its bytes but one and an exponent, and rounds to its mantissa; its value is counted in quarters, of which the six decimals of `%f` and `%lf` show the halves |
| `Data` | data.c | one operator per function, from the object and the arguments to the object and the result; a branch returns the object `e`, whose spin lock it took, or `u`, on which it has released it, as its path in the code does; a wait for a lock that stays taken, a read past a buffer and a write past one end the behaviour with a name |
| `NamedMutex` | mutex.c over sharedmem.c | one action per system call of a constructor or destructor; the mutex is free, locked or destroyed and knows no holder; `inside` says who has entered and not left; anybody may unlock, and processes may die at any point |
| `MemMgr` | memmgr.c | the records as a heap of nodes; what runs under the rwlock is one action, the load of `ptr_info_start` before it another |
| `Syslog` | the file logger of syslog.c | a print is one action (it holds `message_sect`), the worker's pass one per system call, each of which may fail; `handed` is what went to `write(2)`, `written` what is whole in the file, `spoilt` that a write failed or was short |
| `EventServer` | event_server.c | the eventfd as a counter (external); poll task, accept task and clients step by step |
| `MCData`, `MCMemory`, `MCServices`, `MCIpc` | | instances for TLC; the last three put components that share no variable side by side, `part` says which one moves, so that a behaviour is one of one component |
| `MemoryProofs`, `ServicesProofs`, `IpcProofs`, `DataProofs`, `PEventProofs`, `TaskProofs`, `TaskPoolProofs`, `LListProofs` | | the theorems, one module per run; the first three extend the module that runs the components side by side |

How they compose: `PEvent` is shown to implement `Event` (refinement by
`INSTANCE`, checked and proved), which is what `Task` assumes of its events;
`TaskPool` takes the loop of `Task` as the body of a worker and the guarantees
of `Mempool` (blocks counted) and `LList` (pop at the back, push at the front,
cycling cursor) as the operations on its list.  `SpinLock` shows which callers
may rely on the atomic calls of `Mempool`: those that serialise themselves, which
taskpool.c, syslog.c and llist.c do.  `Syslog` and `IpcServer` take blocks from
pools as `Mempool` promises them (`SlotsExact` is also what shows that the running
server never frees a block twice), `IpcServer` takes the receiving side of a
connection from `IpcStream`, and `IpcRequest` takes whole packets in order, which
is what `ReceivedAsSent` says.

Operators called `Mut...`, or commented as mutants, are plausible mistakes in the
code they stand beside; no specification uses them.  Each is named in `PROJECT.json` with the property
that must catch it.

## Runs

| run | instance | shows | properties |
|---|---|---|---|
| `memory` | a pool of 4 blocks; 3 threads on a reader-writer lock; 3 processes and 2 segments of one name; 2 threads, 3 blocks, 5 calls on the ledger | free list intact, blocks exclusive, ENOMEM only with every block held; bookkeeping exact between calls; one process inside a named mutex, no mapping larger than its segment, no name without an owner; the ledger whole and exact, overruns caught | `Exclusive`, `FreeListIntact`, `BookkeepingExact`, `NamedExclusion`, `SegmentSound`, `LedgerExact`, `OverrunCaught`, `FailsOnlyWhenExhausted` |
| `services` | 3 threads, 2 spin locks, serialised or not; 3 message blocks, 5 prints; 2 clients, a counter up to 5 | lock sound until the first failed exchange, none and progress with serialised callers; messages handed to `write(2)` once, in order and in the end, the file whole while writes succeed; counts delivered, clients come back | `SafeUntilFirstFailure`, `NeverFails`, `LogFaithful`, `CountDelivered`, `Progress`, `EventuallyWritten`, `ClientReturns` |
| `ipc` | 2 packets, buffer of 5 bytes; 3 peers, 2 connections, 2 failures; 7 calls, 5 sequence numbers | packets whole, in order, all, answered by command; slots exact, tasks undisturbed, every peer accepted; own answers only, EILSEQ explained | `ReceivedAsSent`, `RepliesMatch`, `SlotsExact`, `TasksUndisturbed`, `OwnReply`, `RefusalExplained`, `AllReceived`, `EventuallyAccepted` |
| `data` | 2 objects, every type, every call, failing allocations | conversions exact (six decimals from a string), recorded lengths true, every path of a call releases the lock except on byte arrays, a valid object is readable | `ConvertExact`, `BufferSound`, `OnlyByteArraysHang`, `ValidReadable` |
| `spinlock_exclusion` (violation) | 3 threads, 1 object | two threads inside one section | `MutualExclusion` |
| `rwlock_overlap` (violation) | overlapping calls | a holder whose unlock is refused | `HolderCanUnlock` |
| `pevent` | 3 threads, 5 calls | no lost wake-up, refinement of `Event`, no waiter stuck on a set event | `NoLostWakeup`, `ImplementsEvent`, `NoStuckWaiter` |
| `task` | one task, one client, any order | no use after free unless a stop cancelled; start, pause and stop take effect within a round; a stop of an unpaused task returns | `NoUseAfterFree`, `ControlEffective`, `UnpausedStopReturns` |
| `task_paused` (violation) | the same | a stop of a paused task that never returns | `StopReturns` |
| `taskpool` | 2 workers, 2 clients, 3 tasks, 2 blocks, up to 3 management calls, cycling or not | no stranded, doubled or overtaken task, no lost block, every task of an unmanaged pool runs (and runs again when cycling) | `NoStrandedTask`, `BlocksConserved`, `OnceInOrder`, `EveryTaskServed` |
| `llist` | 4 nodes, 3 values | chain intact, cursor live and exact, crashes only where explained | `ChainIntact`, `CursorSound`, `CrashesExplained` |
| `llist_cursor` (violation) | the same | `get_of` yields a neighbour | `GetOfRight` |

**Bounds.**  Three threads are what the spin lock needs to break (one inside, one
that fails, one that profits) and what an event needs for a waiter to be
overtaken.  Five calls in `pevent` allow two waits that block, a set, a reset and
one more.  In `taskpool` three tasks on two blocks reach exhaustion and order;
two workers and two clients reach every overlap of a post with a fetch; three
management calls combine a resize, a pause and a deletion.  Four nodes give a
list with two inner elements, enough for a backward walk followed by a change in
the middle; `MaxSort` bounds `sort_count`, which only grows.  In the stream
a packet of 10 to 13 bytes (two length bytes instead of four, of base 2) passes a
buffer of 5, so every stage is cut by the end of a receive and by the end of the
buffer; payloads consist of the characters of the tags.  Three peers for two
connections make the server full; seven calls over five sequence numbers wrap and
leave answers up to six calls late.  Two segments let a name be unlinked and made
again; three processes are an owner, an opener and one that profits from the other two.  Three records
make a first, a middle and a last one, and two threads the stale start.  Three
message blocks reach the pool's limit, where a print finds one block or none; the
counter's limit of 5, over an `int32_t` of 4 values, reaches both the truncation
and the full counter.  In `data` a radix of 4 gives each width its own limits, so
that every conversion meets values that fit, that wrap, that lose precision and that
lose a fraction in a text; two kinds of fraction, shown by six decimals or rounded away
(a tie to even), stand for all: which of the real ones are which is not modelled;
only one of the two objects is converted, the other is a source of clones.  Durations are
abstracted: a timed wait may end at any moment, `INFINITE` marks a one-shot.

**Fairness.**  Weak fairness of a thread's own steps (threads are scheduled), of
the return of a callback (`proc`), of timeouts, and of the delivery of what a
stream socket holds.  None of clients: an
application may never call again.  Strong fairness in three places:
a connection's task that can enter `ipc_conn_sect` again and again does (the
accept task leaves it in every round and sleeps); a writer for whose count there
is room again and again writes (the kernel wakes the writers of an eventfd); a
log file that is tried again and again can be opened some time, which is an
assumption about the file system.  `EventuallyAccepted` also assumes that every
peer closes its end some time.  Mutexes and condition variables are not assumed
fair beyond that.

**Deadlock** checking is off where the system may stop: a deleted pool, a stopped
task, a lost connection, a crashed program, a bounded number of calls, or threads spinning on the
corrupted lock.

## Findings

Four runs end in a violation of what a test or a declaration of the repository
states; `PROJECT.json` quotes it.  (1) The spin lock's shared expected operand
lets two threads in.  (2) `cplus_rwlock_unlock` clears `st_locked` after it has
released the lock.  (3) `cplus_task_stop` on a paused task takes an old
`evt_finish` for the end of the loop and joins a thread that never ends.  (4) The
cursor of a list is one off after a backward walk and a change in the middle.

`ipc_packet_analyze` has a defect that the properties of `IpcStream` step around
instead: it copies payload up to the end of `recv_bufs`, not up to what was
received.  The variable `disturbed` records when that (or a failed allocation)
happens, and the properties speak of the behaviour before it.  In the same way
`MemMgr` ends a behaviour whose walk begins at a stale `ptr_info_start`,
`NamedMutex` records in `ill` that an owner initialised a mutex that another process
had locked by then (`reset`), that it was deleted under others (`orphaned`), that a
process unlocked it while another was inside, which mutex.c does not check and whose
test does (`foreign`), `Syslog` records in `spoilt` that a `write(2)` whose result
nobody looks at lost a message, `EventServer` records that a value was
truncated, and `Data` names the calls that wait for a lock that stays taken.  They are hazards
of the callers' timing or input that the code does not handle; the properties say
that nothing else goes wrong.

Reading also showed, beyond the hazards in `PROJECT.json`: `ipc_server_delete`
returns each connection to the pool a second time; `ipc_recv_packet` would free
its buffer twice if a caller passed one; a client whose connection was closed
keeps a pointer to the deleted socket; an asynchronous client passes no callback;
`ipc_client_new` leaks its socket when it cannot connect, and
`cplus_event_client_delete` its descriptor; shared memory objects close their
descriptor twice; the ledger's report of a double free is unreachable; an empty
format makes a print read the byte before it; `cplus_llist_update_data` appends a
second element of the same key; a second sort of a list fails; a deadline of
`cplus_pevent_wait` is computed anew after each wake-up; `accept_proc` of ipc_server.c
hands `on_connected` a socket that the connection's own task may have deleted by then;
after a failed `realloc` the parser keeps the old size without a buffer, and its next
`malloc` is cleared before it is checked.

## Proofs

The theorems hold for any constants that satisfy the named assumptions, all of
which TLC evaluates on the runs.  Where components run side by side the theorem is
about the component's own specification (`RW!Spec`, `Serv!Spec` and so on), which
is what the part of the run shows.

| theorem | property | from |
|---|---|---|
| `MemoryProofs`: `BlocksExclusive`, `FreeListSafe`, `NoSpuriousENOMEM`, `TypeCorrect`, `CountsExact` | `Exclusive`, `FreeListIntact`, `FailsOnlyWhenExhausted`, `TypeOK`, `CountExact` | `PoolAssumption` (the size of the pool does not overflow 32 bits, which the constructor does not check), `WordAssumption`, `NullAssumption` |
| `BookkeepingIsExact`, `HolderIsNotRefused` | `BookkeepingExact`, `HolderCanUnlock` (for calls that do not overlap) | `MemoryAssumption` |
| `NamedMutexExcludes`, `NamedSegmentSound` | `NamedExclusion`, `SegmentSound` | `MemoryAssumption` |
| `LedgerIsExact`, `OverrunIsCaught` | `LedgerExact`, `OverrunCaught` | `MemoryAssumption` |
| `ServicesProofs`: `LogIsFaithful`, `CountIsDelivered` | `LogFaithful`, `CountDelivered` | `ServicesAssumption` |
| `SpinTyped`, `LockSoundUntilFailure`, `SerialisedNeverFails` | `TypeOK`, `SafeUntilFirstFailure`, `NeverFails` | |
| `IpcProofs`: `SlotsAreExact`, `TasksAreUndisturbed`, `RepliesAreOwn`, `RefusalsAreExplained` | `SlotsExact`, `TasksUndisturbed`, `OwnReply`, `RefusalExplained` | `IpcAssumption` |
| `PacketsArriveAsSent`, `RepliesMatchPackets` | `ReceivedAsSent`, `RepliesMatch` | `StreamAssumption` (a length fits in the length field) |
| `DataProofs`: `BuffersStaySound`, `LocksAreReleased`, `ValidIsReadable`, `ConversionsExact` | `BufferSound`, `OnlyByteArraysHang`, `ValidReadable`, `ConvertExact` | `DataAssumption` (texts and arrays that callers pass have a length, and texts show no more than six decimals), `RadixAssumption` (a byte has an even number of values, 4 or more; a real one has 256) |
| `PEventProofs`: `TypeCorrect`, `WakeupsKept`, `EventImplemented` | `TypeOK`, `NoLostWakeup`, `ImplementsEvent` | |
| `TaskProofs`: `TaskFreedOnce`, `TaskControlled` | `NoUseAfterFree`, `ControlEffective` | the first: nobody makes a periodic task a one-shot while it runs (`INFINITE \notin NewDurations`), which would free it twice |
| `TaskPoolProofs`: `PoolConservesBlocks`, `PoolRunsInOrder`, `PoolStrandsNoTask` | `BlocksConserved`, `OnceInOrder`, `NoStrandedTask` | `TaskPoolAssumption` |
| `LListProofs`: `ListLinked`, `CursorIsSound`, `CrashesAreExplained`, `ListIntact` | `ChainLinked`, `CursorSound`, `CrashesExplained`, `ChainIntact` | `ListAssumption` |

The arguments, and why the properties are not inductive as they stand:

- Block pool.  `IInv` says which blocks are free, that the free list is a
  repetition-free path through them, and that exactly the blocks below the
  initialisation mark have been linked: exclusiveness alone does not say where the
  next block comes from.  That a failed alloc saw every block held follows from the
  count and the length of that path.
- Reader-writer lock.  `RWFields` says what the two fields, and the register that
  holds a loaded count, are at each place inside a call (`RWCall`), since they describe the lock
  only between calls.
- Named mutex.  The name is tied to its owner (`NMOwner`) and every mapping to the
  size its segment has by then (`NMSized`).  Exclusion needs more than the mutex:
  as long as `ill` has none of the three excuses, every object is one of the segment
  the name refers to, the mutex there is locked while somebody is inside, and one at
  most is (`NMQuiet`); only a process with a finished object is inside (`NMInside`).
- Ledger.  The records are a path from the start to the last one (`MMPath`), which
  a search follows; beside it, each recorded block is held and each call between
  its steps still has the record it found.
- Logger and event server.  Messages are numbered as they are printed, so what was
  accepted grows strictly, what was handed over is a prefix of it, and every
  message that goes to the file is larger than all that are there; the count of blocks includes
  the one in the worker's hand; the counts delivered, read and still in the eventfd add up to
  those added.
- Spin lock.  `spin_down`, and the register copies about to be used, are 0 as long
  as no exchange has failed.
- Server.  A connection's block is free, listed or in the hand of the accept task,
  a connected one has a socket and a block, and a task exists only for one that has
  a block (`ServSlots`, `ServTasks`).
- Client.  Every packet in flight answers a call that was made, so that equal
  sequence numbers are a whole turn apart.
- Stream.  `StreamGood(s)`: s tells where each packet begins among all the bytes
  that were sent; what is left in `recv_bufs` followed by what is on the wire is
  exactly the bytes after the place the parser has come to in its packet; each
  stage knows the fields before it (`StageKnows`), and what it copied is a prefix
  of the payload (`Copied`).  The length is rebuilt digit by digit: after k digits
  it is the length divided by the weight of the digits to come.
- Data.  `DataInv`: every object is `Sound` for what happened to it before.  To
  `BufferSound` it adds that lengths and sizes agree also without a buffer, which a
  later clone uses, that the lock is taken only of an array, that a text which is not open is
  shorter than the recorded
  length, and that a valid string without a buffer lost it to a failed allocation.
  One lemma per function says that all its outcomes are sound.
- Conversions.  `ConvertExact` is about what a getter would return and says nothing
  of how the number is stored, so `KeepInv` says that: an object that was given a
  number it can hold `Keeps` it, as a scalar of that value, as a text that prints
  it to six decimals, or as the memory image of the type it was written as.  Each writer
  establishes this and each getter reads from it (`ReadsExact`).  Below these lie
  the facts about the representations: a wrapped number that fits is unchanged,
  the sum of its digits times the powers of the radix is the number again
  (`NumberOfDigits`), two's complement images give the sign back, and rounding to
  a float is exact for what fits in its mantissa times a power of the base.
- Event.  The mutex follows the program counters and the condition queue the
  blocked threads; each step of the detailed event is a step of `Event` or a
  stutter.
- Task.  `Lifetime` says who may still free the task, `Control` what each event
  means for the executor's next round.
- Task pool.  The list is in descending order of the tasks' numbers and all of it
  is younger than what was fetched (`PoolOrder`); tokens on their way cover the
  listed tasks.
- List.  `Good(c)` keeps the sequence c of the list's nodes: `next`, `prev`, `head`
  and `tail` are read off it, and the cursor is a cell of one of its nodes.
- Sorting.  After i rounds of `llist_sort` the last i elements are in order and no
  element before them is larger; within a round the largest element met so far is
  where the comparison has come to.  Every exchange is a bijection of the indices,
  so the result is a reordering of the content, and two ascending reorderings of
  one finite sequence are equal: the result is `Ordered(content)`.

What a recursive function of the model computes (the walks of `LList` and
`MemMgr`, `Weight` of `IpcStream`, `Pass` and `Sort` of `LList`, `Power` and `Number`
of `DataTypes`) is proved through a least counterexample
(`LeastExists`, from the well-foundedness of the natural numbers), because the
library's induction schemes take an operator.

Types (`TypeOK`) and the count of free blocks (`CountExact`) are proved and not
model-checked; every other theorem states a property of a run or a part of one.

Only model-checked is liveness (`Progress`, `EventuallyWritten`, `ClientReturns`,
`AllReceived`, `EventuallyAccepted`, `NoStuckWaiter`, `UnpausedStopReturns`,
`EveryTaskServed`): it rests on fairness and `ENABLED`, out of the prover's reach.
Every invariant and every action property of the passing runs is a theorem, under the
hypotheses of the table.

## Not modelled, and the plan

- llist.c: the thread-safe variant, whose `push_back` and `pop_back` read the size
  before they take the lock, and the keyed-data helpers, which compose modelled
  operations.
- data.c: action mode, string code, group nodes, `get_as_pointer`, byte swaps.
- ipc_server.c: the asynchronous client; the steps of `ipc_server_delete`; what
  `on_connected` does with its socket; `data_no_memory` goes to the check of the
  buffer also where the code would clear a null pointer first.
- mutex.c: objects inherited over `fork`; an unlock of a free mutex, which POSIX
  leaves undefined, leaves it free.
- semaphore.c: POSIX semaphores keep the state; `TaskPool` has their counter, and
  the race of the named constructors is that of `NamedMutex`.
- systime.c: timeouts are nondeterministic, so no property depends on ticks.
- socket.c, file.c, sys.c, helper.c (system-call wrappers and stateless helpers),
  cplus.c (dispatch by type), unittest.c (the test runner): left out for good.
