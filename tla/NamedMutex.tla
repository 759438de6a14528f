----------------------------- MODULE NamedMutex -----------------------------
(***************************************************************************)
(* Named mutexes between processes: mutex.c over sharedmem.c.  One name;   *)
(* each process makes an object of it, uses it and deletes it, or dies.    *)
(* The steps are the system calls: between shm_open and ftruncate the      *)
(* segment is empty, between mmap and pthread_mutex_init its mutex is all  *)
(* zeros, which glibc locks like a free one, and both windows are open to  *)
(* the other processes.  A mutex does not know who locked it: inside says  *)
(* which processes have entered the section and not left it.               *)
(***************************************************************************)
EXTENDS Naturals, Sequences

CONSTANTS Procs,
          MaxSegments    \* bound: segments created under the name

VARIABLES name,          \* the segment the name refers to, 0 if there is none
          segs,          \* the segments: size and state of the mutex
          pc,            \* pc[p]: where p is in its constructor or destructor
          shmem,         \* shmem[p]: the struct shared_mem of p
          inside,        \* inside[p]: p has entered the section and not left it
          ill            \* history: what the callers' timing has brought about

vars == <<name, segs, pc, shmem, inside, ill>>

Full == 1                \* sizeof(struct named_mutex)
NoObject == [seg |-> 0, size |-> 0, is_owner |-> FALSE]
Mapping == {"mapped", "ready", "deleting"}
Attached(s) == {p \in Procs : pc[p] \in Mapping /\ shmem[p].seg = s}
Mutex(p) == segs[shmem[p].seg].mutex
OthersHave(p) == \E q \in Procs \ {p} : shmem[q].seg = shmem[p].seg

Goto(p, l) == pc' = [pc EXCEPT ![p] = l]
Set(p, o) == shmem' = [shmem EXCEPT ![p] = o]
InSegment(p, r) == segs' = [segs EXCEPT ![shmem[p].seg] = r]
SetMutex(p, m) == InSegment(p, [segs[shmem[p].seg] EXCEPT !.mutex = m])
Enter(p, b) == inside' = [inside EXCEPT ![p] = b]
Note(cond, what) == ill' = ill \cup IF cond THEN {what} ELSE {}

Init ==
  /\ name = 0 /\ segs = <<>>
  /\ pc = [p \in Procs |-> "none"]
  /\ shmem = [p \in Procs |-> NoObject]
  /\ inside = [p \in Procs |-> FALSE]
  /\ ill = {}

----------------------------------------------------------------------------
(* The constructors: cplus_mutex_create_xp, _open_xp and _new_xp.          *)

\* shm_open(O_RDWR) of _open_xp and, first, of _new_xp.
shm_open(p) ==
  /\ pc[p] = "none" /\ name # 0
  /\ Set(p, [seg |-> name, size |-> 0, is_owner |-> FALSE])
  /\ Goto(p, "opened")
  /\ UNCHANGED <<name, segs, inside, ill>>

\* _new_xp finds no such name (ENOENT) and goes on to create it.
shm_missing(p) ==
  /\ pc[p] = "none" /\ name = 0
  /\ Goto(p, "missing")
  /\ UNCHANGED <<name, segs, shmem, inside, ill>>

\* shm_open(O_CREAT | O_EXCL)
shm_create(p) ==
  /\ pc[p] \in {"none", "missing"} /\ name = 0 /\ Len(segs) < MaxSegments
  /\ segs' = Append(segs, [size |-> 0, mutex |-> "free"])
  /\ name' = Len(segs) + 1
  /\ Set(p, [seg |-> Len(segs) + 1, size |-> Full, is_owner |-> TRUE])
  /\ Goto(p, "created")
  /\ UNCHANGED <<inside, ill>>

\* EEXIST: another process was faster, and the constructor fails.
shm_exists(p) ==
  /\ pc[p] = "missing" /\ name # 0
  /\ Goto(p, "none")
  /\ UNCHANGED <<name, segs, shmem, inside, ill>>

ftruncate(p) ==
  /\ pc[p] = "created"
  /\ InSegment(p, [segs[shmem[p].seg] EXCEPT !.size = Full])
  /\ Goto(p, "sized")
  /\ UNCHANGED <<name, shmem, inside, ill>>

fstat(p) ==
  /\ pc[p] = "opened"
  /\ Set(p, [shmem[p] EXCEPT !.size = segs[shmem[p].seg].size])
  /\ Goto(p, "sized")
  /\ UNCHANGED <<name, segs, inside, ill>>

\* Mapping nothing is an error.
mmap(p) ==
  /\ pc[p] = "sized" /\ shmem[p].size > 0
  /\ Goto(p, "mapped")
  /\ UNCHANGED <<name, segs, shmem, inside, ill>>

\* cplus_sharedmem_delete: an owner unlinks the name, whoever has the segment.
unlink(p) ==
  /\ name' = IF shmem[p].is_owner THEN 0 ELSE name
  /\ Note(shmem[p].is_owner /\ OthersHave(p), "orphaned")

\* Mutant: the failed constructor forgets to unlink.
fail_linked(p) ==
  /\ pc[p] \in {"created", "opened", "sized", "mapped"}
  /\ pc[p] = "mapped" => shmem[p].is_owner
  /\ Goto(p, "none") /\ Set(p, NoObject)
  /\ UNCHANGED <<name, segs, inside, ill>>

\* ftruncate, fstat, mmap or pthread_mutex_init fails: goto exit.
fail(p) ==
  /\ pc[p] \in {"created", "opened", "sized", "mapped"}
  /\ pc[p] = "mapped" => shmem[p].is_owner
  /\ unlink(p)
  /\ Goto(p, "none") /\ Set(p, NoObject)
  /\ UNCHANGED <<segs, inside>>

\* Mutant: whoever maps the segment initialises its mutex.
pthread_mutex_init_all(p) ==
  /\ pc[p] = "mapped"
  /\ SetMutex(p, "free")
  /\ Note(shmem[p].is_owner /\ Mutex(p) = "locked", "reset")
  /\ Goto(p, "ready")
  /\ UNCHANGED <<name, shmem, inside>>

\* Only the owner initialises the mutex, and it does so whatever others did to
\* it before: one that another process has locked by then is free again.
pthread_mutex_init(p) ==
  /\ pc[p] = "mapped"
  /\ SetMutex(p, IF shmem[p].is_owner THEN "free" ELSE Mutex(p))
  /\ Note(shmem[p].is_owner /\ Mutex(p) = "locked", "reset")
  /\ Goto(p, "ready")
  /\ UNCHANGED <<name, shmem, inside>>

----------------------------------------------------------------------------
(* The mutex.                                                              *)

\* cplus_mutex_lock and cplus_crit_sect_enter; a destroyed mutex is refused.
lock(p) ==
  /\ pc[p] = "ready" /\ Mutex(p) = "free"
  /\ SetMutex(p, "locked") /\ Enter(p, TRUE)
  /\ UNCHANGED <<name, pc, shmem, ill>>

\* cplus_mutex_unlock and cplus_crit_sect_exit: nobody checks that the caller
\* is the one who entered, and the mutex is free whoever was inside.
unlock(p) ==
  /\ pc[p] = "ready"
  /\ SetMutex(p, IF Mutex(p) = "locked" THEN "free" ELSE Mutex(p)) /\ Enter(p, FALSE)
  /\ Note(\E q \in Procs \ {p} : inside[q] /\ shmem[q].seg = shmem[p].seg, "foreign")
  /\ UNCHANGED <<name, pc, shmem>>

\* cplus_mutex_delete: the owner destroys the mutex (a locked one refuses, and
\* the result is ignored), then the segment goes.
delete(p) ==
  /\ pc[p] = "ready"
  /\ SetMutex(p, IF shmem[p].is_owner /\ Mutex(p) # "locked" THEN "destroyed" ELSE Mutex(p))
  /\ Enter(p, FALSE)
  /\ Note(shmem[p].is_owner /\ Attached(shmem[p].seg) # {p}, "orphaned")
  /\ Goto(p, "deleting")
  /\ UNCHANGED <<name, shmem>>

\* Whoever opened the segment before the name is gone is left with it.
sharedmem_delete(p) ==
  /\ pc[p] = "deleting"
  /\ unlink(p)
  /\ Goto(p, "none") /\ Set(p, NoObject)
  /\ UNCHANGED <<segs, inside>>

\* The process dies: the name, and a mutex it had locked, stay as they are.
crash(p) ==
  /\ pc[p] # "none"
  /\ Goto(p, "none") /\ Set(p, NoObject) /\ Enter(p, FALSE)
  /\ Note(TRUE, "crashed")
  /\ UNCHANGED <<name, segs>>

Next ==
  \E p \in Procs :
    \/ shm_open(p) \/ shm_missing(p) \/ shm_create(p) \/ shm_exists(p)
    \/ ftruncate(p) \/ fstat(p) \/ mmap(p) \/ fail(p) \/ pthread_mutex_init(p)
    \/ lock(p) \/ unlock(p) \/ delete(p) \/ sharedmem_delete(p) \/ crash(p)

Spec == Init /\ [][Next]_vars

----------------------------------------------------------------------------
(* Properties.                                                             *)

\* No process maps more than the segment has: an opener that comes before the
\* owner's ftruncate fails instead (sharedmem_open, sharedmem_new).
MappedWhole ==
  \A p \in Procs : pc[p] \in Mapping => shmem[p].size <= segs[shmem[p].seg].size

\* One process at a time is inside the section of the name, through every race
\* of constructors and after processes have died, unless the code's own open
\* windows let it: the owner initialised a mutex that was locked by then
\* ("reset"), deleted it under others ("orphaned"), or a process that was not
\* inside left for one that was, which mutex.c does not check ("foreign").
NamedExclusion ==
  ill \cap {"reset", "orphaned", "foreign"} = {} =>
    \A p, q \in Procs : inside[p] /\ inside[q] => p = q

\* The name never outlives its owner: a constructor that fails and a delete
\* remove it, and only the owner does, unless a process died.
NameOwned ==
  name # 0 /\ "crashed" \notin ill =>
    \E p \in Procs : shmem[p].is_owner /\ shmem[p].seg = name

\* The segment of the name is whole for whoever maps it, and owned.
SegmentSound == MappedWhole /\ NameOwned
=============================================================================
