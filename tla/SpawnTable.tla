----------------------------- MODULE SpawnTable -----------------------------
(***************************************************************************)
(* Spawning, joining and detaching OS threads through the handle table of  *)
(* the C runtime (xiom_spawn_table, xiom_thread_spawn_with_result and      *)
(* _with_arg, xiom_thread_spawn_join and _detach), together with the two   *)
(* front ends that own the result buffer: xiom.thread.spawn (spawn.xi) and *)
(* xiom.thread (thread.xi, JoinHandle).                                    *)
(*                                                                         *)
(* A task is one spawn: the thread that calls spawn and later joins or     *)
(* detaches the handle, the OS thread the call starts, the payload block   *)
(* handed to its trampoline, and the result buffer it writes.              *)
(*                                                                         *)
(* The table is initialised on first use without any lock, and that        *)
(* initialisation makes the lock itself.  Each of its statements is        *)
(* therefore a step, and so are taking the lock and the search under it.   *)
(***************************************************************************)
EXTENDS Naturals, FiniteSets

CONSTANTS
  Tasks,
  TableSize,   \* XIOM_MAX_SPAWN_THREADS, 256 in C
  ByThread,    \* the tasks spawned through xiom.thread; the others through
               \* xiom.thread.spawn
  Solo         \* TRUE: the first spawn is over before another one starts

ASSUME TableSizeAssumption == TableSize \in Nat \ {0}
ASSUME ByThreadAssumption == ByThread \subseteq Tasks
ASSUME SoloAssumption == Solo \in BOOLEAN

VARIABLES
  slots,          \* slot number -> the task registered there, or Free
  initialized,    \* xiom_spawn_table_initialized
  lockedBy,       \* the task whose thread holds xiom_spawn_lock, or Free
  pc,             \* the position of each task's caller
  found,          \* the slot its caller found under the lock
  handle,         \* TRUE: the caller was given a handle, FALSE: it got NULL
  worker,         \* position of the OS thread
  reaped,         \* how often the OS thread was joined or detached
  payload, buffer \* the two blocks: "none", "live" or "freed"

table  == <<slots, initialized, lockedBy>>
caller == <<pc, found, handle>>
blocks == <<payload, buffer>>
vars   == <<table, caller, worker, reaped, blocks>>

Free    == "free"
ASSUME FreeAssumption == Free \notin Tasks

Slots   == 0 .. TableSize - 1
NoSlot  == TableSize
Threads == {t \in Tasks : worker[t] \notin {"none", "exited"}}

Goes(t, position) == pc' = [pc EXCEPT ![t] = position]

\* The slot the for loops end at: the first one that holds x.
FirstSlot(x) ==
  IF x \in {slots[i] : i \in Slots}
  THEN CHOOSE i \in Slots : slots[i] = x /\ \A k \in 0 .. i - 1 : slots[k] # x
  ELSE NoSlot
-----------------------------------------------------------------------------
(* Faulty variants of the actions below, each a slip this code could have. *)
(* They are in no specification; the properties are tested against them.   *)

\* The search for a free slot runs before the lock is taken.
FaultySearchUnlocked(t) ==
  /\ pc[t] = "lock"
  /\ found' = [found EXCEPT ![t] = FirstSlot(Free)]
  /\ Goes(t, "found")
  /\ UNCHANGED <<table, handle, worker, reaped, blocks>>

\* The payload is released when the handle is handed out.
FaultyRegisterFrees(t) ==
  /\ pc[t] = "found" /\ found[t] # NoSlot
  /\ slots' = [slots EXCEPT ![found[t]] = t]
  /\ handle' = [handle EXCEPT ![t] = TRUE]
  /\ payload' = [payload EXCEPT ![t] = "freed"]
  /\ lockedBy' = Free
  /\ Goes(t, "held")
  /\ UNCHANGED <<initialized, found, worker, reaped, buffer>>

\* The early return of a full table forgets the lock.
FaultyFullKeepsLock(t) ==
  /\ pc[t] = "found" /\ found[t] = NoSlot
  /\ reaped' = [reaped EXCEPT ![t] = @ + 1]
  /\ payload' = [payload EXCEPT ![t] = "freed"]
  /\ buffer' = [buffer EXCEPT ![t] = IF t \in ByThread THEN @ ELSE "freed"]
  /\ Goes(t, "held")
  /\ UNCHANGED <<table, found, handle, worker>>
-----------------------------------------------------------------------------
Init ==
  /\ slots = [i \in Slots |-> Free]
  /\ initialized = FALSE /\ lockedBy = Free
  /\ pc = [t \in Tasks |-> "idle"]
  /\ found = [t \in Tasks |-> NoSlot]
  /\ handle = [t \in Tasks |-> FALSE]
  /\ worker = [t \in Tasks |-> "none"]
  /\ reaped = [t \in Tasks |-> 0]
  /\ payload = [t \in Tasks |-> "none"] /\ buffer = [t \in Tasks |-> "none"]
-----------------------------------------------------------------------------
(* spawn: allocate the buffer and the payload, start the OS thread.        *)

MayBegin(t) ==
  /\ pc[t] = "idle"
  /\ Solo => initialized \/ \A u \in Tasks : pc[u] = "idle"

Spawn(t) ==
  /\ MayBegin(t)
  /\ buffer' = [buffer EXCEPT ![t] = "live"]
  /\ payload' = [payload EXCEPT ![t] = "live"]
  /\ worker' = [worker EXCEPT ![t] = "started"]
  /\ Goes(t, "init")
  /\ UNCHANGED <<table, found, handle, reaped>>

\* xiom_thread_create returned NULL: no thread, no payload, no handle.
\* Only spawn.xi gives its buffer back.
SpawnFails(t) ==
  /\ MayBegin(t)
  /\ payload' = [payload EXCEPT ![t] = "freed"]
  /\ buffer' = [buffer EXCEPT ![t] = IF t \in ByThread THEN "live" ELSE "freed"]
  /\ Goes(t, "held")
  /\ UNCHANGED <<table, found, handle, worker, reaped>>

\* xiom_spawn_table_init, statement by statement.
InitTest(t) ==
  /\ pc[t] = "init"
  /\ Goes(t, IF initialized THEN "lock" ELSE "init-lock")
  /\ UNCHANGED <<table, found, handle, worker, reaped, blocks>>

\* Making the mutex anew leaves it free, whoever held it.
InitLock(t) ==
  /\ pc[t] = "init-lock"
  /\ lockedBy' = Free
  /\ Goes(t, "init-clear")
  /\ UNCHANGED <<slots, initialized, found, handle, worker, reaped, blocks>>

InitClear(t) ==
  /\ pc[t] = "init-clear"
  /\ slots' = [i \in Slots |-> Free]
  /\ Goes(t, "init-flag")
  /\ UNCHANGED <<initialized, lockedBy, found, handle, worker, reaped, blocks>>

InitFlag(t) ==
  /\ pc[t] = "init-flag"
  /\ initialized' = TRUE
  /\ Goes(t, "lock")
  /\ UNCHANGED <<slots, lockedBy, found, handle, worker, reaped, blocks>>

\* Take the lock and look for a free slot.
Search(t) ==
  /\ pc[t] = "lock" /\ lockedBy = Free
  /\ lockedBy' = t
  /\ found' = [found EXCEPT ![t] = FirstSlot(Free)]
  /\ Goes(t, "found")
  /\ UNCHANGED <<slots, initialized, handle, worker, reaped, blocks>>

Register(t) ==
  /\ pc[t] = "found" /\ found[t] # NoSlot
  /\ slots' = [slots EXCEPT ![found[t]] = t]
  /\ handle' = [handle EXCEPT ![t] = TRUE]
  /\ lockedBy' = Free
  /\ Goes(t, "held")
  /\ UNCHANGED <<initialized, found, worker, reaped, blocks>>

\* No slot left: the running thread is detached, its payload freed, and the
\* caller told that there is no thread.
TableFull(t) ==
  /\ pc[t] = "found" /\ found[t] = NoSlot
  /\ lockedBy' = Free
  /\ reaped' = [reaped EXCEPT ![t] = @ + 1]
  /\ payload' = [payload EXCEPT ![t] = "freed"]
  /\ buffer' = [buffer EXCEPT ![t] = IF t \in ByThread THEN @ ELSE "freed"]
  /\ Goes(t, "held")
  /\ UNCHANGED <<slots, initialized, found, handle, worker>>
-----------------------------------------------------------------------------
(* The OS thread: xiom_task_trampoline, xiom_task_arg_trampoline.          *)

\* It reads the function and its argument out of the payload, and runs it.
WorkerReads(t) ==
  /\ worker[t] = "started"
  /\ worker' = [worker EXCEPT ![t] = "running"]
  /\ UNCHANGED <<table, caller, reaped, blocks>>

\* Back from the function, it reads the buffer's place out of the payload again
\* and stores the result there, and then the done flag.
WorkerWrites(t) ==
  /\ worker[t] = "running"
  /\ worker' = [worker EXCEPT ![t] = "exited"]
  /\ UNCHANGED <<table, caller, reaped, blocks>>
-----------------------------------------------------------------------------
(* join and detach of the handle.                                          *)

\* Without a handle, spawn.xi takes the job to have run inline and thread.xi
\* reports an error.
JoinNoThread(t) ==
  /\ pc[t] = "held" /\ ~handle[t]
  /\ Goes(t, IF t \in ByThread THEN "failed" ELSE "joined")
  /\ UNCHANGED <<table, found, handle, worker, reaped, blocks>>

\* Without a handle, spawn.xi detaches nothing; thread.xi frees the buffer.
DetachNoThread(t) ==
  /\ pc[t] = "held" /\ ~handle[t]
  /\ buffer' = [buffer EXCEPT ![t] = IF t \in ByThread THEN "freed" ELSE @]
  /\ Goes(t, "detached")
  /\ UNCHANGED <<table, found, handle, worker, reaped, payload>>

\* Take the lock and look the handle up; the table is initialised by now.
Lookup(t, position) ==
  /\ pc[t] = "held" /\ handle[t] /\ lockedBy = Free
  /\ lockedBy' = t
  /\ found' = [found EXCEPT ![t] = FirstSlot(t)]
  /\ Goes(t, position)
  /\ UNCHANGED <<slots, initialized, handle, worker, reaped, blocks>>

\* The handle is in the table: give the slot back and wait for the thread.  If
\* it is not, join fails.
JoinFound(t) ==
  /\ pc[t] = "join-found"
  /\ slots' = [i \in Slots |-> IF i = found[t] THEN Free ELSE slots[i]]
  /\ lockedBy' = Free
  /\ Goes(t, IF found[t] = NoSlot THEN "failed" ELSE "join-wait")
  /\ UNCHANGED <<initialized, found, handle, worker, reaped, blocks>>

\* The OS thread has ended; its buffer is read and freed.
JoinReturns(t) ==
  /\ pc[t] = "join-wait" /\ worker[t] = "exited"
  /\ reaped' = [reaped EXCEPT ![t] = @ + 1]
  /\ buffer' = [buffer EXCEPT ![t] = "freed"]
  /\ Goes(t, "joined")
  /\ UNCHANGED <<table, found, handle, worker, payload>>

\* Give the slot back and let the thread run; thread.xi frees its buffer.
DetachFound(t) ==
  /\ pc[t] = "detach-found"
  /\ slots' = [i \in Slots |-> IF i = found[t] THEN Free ELSE slots[i]]
  /\ lockedBy' = Free
  /\ reaped' = [reaped EXCEPT ![t] = IF found[t] = NoSlot THEN @ ELSE @ + 1]
  /\ buffer' = [buffer EXCEPT ![t] = IF t \in ByThread THEN "freed" ELSE @]
  /\ Goes(t, "detached")
  /\ UNCHANGED <<initialized, found, handle, worker, payload>>
-----------------------------------------------------------------------------
CallerStep(t) ==
  \/ InitTest(t) \/ InitLock(t) \/ InitClear(t) \/ InitFlag(t)
  \/ Search(t) \/ Register(t) \/ TableFull(t)
  \/ JoinNoThread(t) \/ JoinFound(t) \/ JoinReturns(t)
  \/ DetachNoThread(t) \/ DetachFound(t)
  \/ Lookup(t, "join-found") \/ Lookup(t, "detach-found")

WorkerStep(t) == WorkerReads(t) \/ WorkerWrites(t)

Next ==
  \E t \in Tasks : Spawn(t) \/ SpawnFails(t) \/ CallerStep(t) \/ WorkerStep(t)

Spec == Init /\ [][Next]_vars

\* Spawned functions terminate, and the OS runs every thread that can go on.
\* The lock is handed to each thread in turn: a caller waits for it at most
\* as often as there are other callers, each of which takes it twice.
Fairness == \A t \in Tasks : WF_vars(CallerStep(t)) /\ WF_vars(WorkerStep(t))

FairSpec == Spec /\ Fairness
-----------------------------------------------------------------------------
(* Properties *)

\* "Stores function/arg in table, spawns OS thread, returns handle": a handle
\* its owner may still use stands in exactly one slot, and every taken slot
\* stands for such a handle.
HandleIsRegistered ==
  /\ \A t \in Tasks :
       handle[t] /\ pc[t] \in {"held", "join-found", "detach-found"}
         => Cardinality({i \in Slots : slots[i] = t}) = 1
  /\ \A i \in Slots :
       slots[i] # Free => pc[slots[i]] \in {"held", "join-found", "detach-found"}

\* An OS thread is joined or detached at most once, and a thread nobody can
\* name any more has been: no OS handle leaks.
EachThreadIsReapedOnce ==
  \A t \in Tasks :
    /\ reaped[t] <= 1
    /\ pc[t] \in {"joined", "detached"} /\ worker[t] # "none" => reaped[t] = 1

\* Handles, slots and threads stay in step while handles are joined, detached,
\* or never given out because the table is full.
HandlesMatchTheirThreads == HandleIsRegistered /\ EachThreadIsReapedOnce

\* What a thread needs: the payload, read before the function and again after it,
\* and the result buffer are allocated until the result is stored; a joined thread
\* no longer runs.
BlocksOutlive(t) == t \in Threads => payload[t] = "live" /\ buffer[t] = "live"
JoinWaits(t) == pc[t] = "joined" => t \notin Threads

\* Both hold from spawn until detach for every task whose caller is still in
\* spawn or was given a handle; spawn.xi keeps them also after a detach.
HandleKeepsItsPromise ==
  \A t \in Tasks :
    LET inSpawn == pc[t] \in {"init", "init-lock", "init-clear", "init-flag", "lock", "found"}
        gone    == t \in ByThread /\ pc[t] = "detached"
    IN  inSpawn \/ (handle[t] /\ ~gone) => BlocksOutlive(t) /\ JoinWaits(t)

\* Whoever spawns gets through the table and through join, whatever the
\* others do with it.
CallersFinish ==
  \A t \in Tasks :
    pc[t] # "idle" ~> pc[t] \in {"joined", "failed", "detached"}
=============================================================================
