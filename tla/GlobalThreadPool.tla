-------------------------- MODULE GlobalThreadPool --------------------------
(***************************************************************************)
(* The process-wide thread pool of the C runtime (xiom_threadpool_init and *)
(* xiom_threadpool_spawn): one worker thread per processor, each with a    *)
(* bounded queue and a mutex of its own.  A caller picks a queue round     *)
(* robin; while it is full the caller takes the next queue's mutex and     *)
(* then lets go of the one it holds.  When no queue takes the task it gets *)
(* a thread to itself.                                                     *)
(*                                                                         *)
(* A caller can hold one queue's mutex while it waits for another's, so    *)
(* the mutexes are variables here.  Nothing ever sets w->shutdown; the     *)
(* workers never end.                                                      *)
(***************************************************************************)
EXTENDS Naturals, Sequences, FiniteSets, SequencesExt

CONSTANTS
  NumWorkers,  \* processors, at most XIOM_TP_MAX_WORKERS
  MaxTasks,    \* XIOM_TP_MAX_TASKS, 256 in C
  Callers,
  NumTasks,    \* bound on the number of spawns
  None

ASSUME NumWorkersAssumption == NumWorkers \in Nat \ {0}
ASSUME MaxTasksAssumption   == MaxTasks \in Nat \ {0}
ASSUME NumTasksAssumption   == NumTasks \in Nat
ASSUME NoneAssumption       == None \notin Nat \cup Callers

Workers == 0 .. NumWorkers - 1

\* The tasks in the order in which they are given to xiom_threadpool_spawn.
Tasks == 1 .. NumTasks

VARIABLES
  initialized,      \* xiom_tp_initialized
  next,             \* xiom_tp_next_worker
  queue,            \* each worker's ring, front first
  owner,            \* who holds a worker's mutex
  asleep,           \* workers blocked in xiom_cond_wait
  task,             \* the task a worker runs, or None
  alone,            \* tasks running on a thread of their own
  pc, arg,          \* each caller's position and the task it hands over
  cur, tried, seen, \* the queue it looks at, how many it tried, its read of next
  ran, given        \* history: how often each task ran, how many were given to
                    \* xiom_threadpool_spawn

pool   == <<initialized, queue, owner, asleep, task, alone, ran, given>>
caller == <<pc, arg, cur, tried, seen>>
vars   == <<pool, next, caller>>

Handed == {t \in Tasks : \E c \in Callers : arg[c] = t}
Count(t) ==
  Cardinality({w \in Workers : t \in ToSet(queue[w])})
    + Cardinality({w \in Workers : task[w] = t})
    + (IF t \in alone THEN 1 ELSE 0) + ran[t]
-----------------------------------------------------------------------------
(* Faulty variants of the actions below, each a slip this code could have. *)
(* They are in no specification; the properties are tested against them.   *)

\* The flag is not tested again under the lock, so the fleet is made twice.
FaultyInitPool(c) ==
  /\ pc[c] = "init"
  /\ initialized' = TRUE
  /\ queue' = [w \in Workers |-> <<>>]
  /\ pc' = [pc EXCEPT ![c] = "pick"]
  /\ UNCHANGED <<owner, asleep, task, alone, ran, given, next, arg, cur, tried, seen>>

\* The worker is not told.
FaultyEnqueue(c) ==
  /\ pc[c] = "look"
  /\ Len(queue[cur[c]]) < MaxTasks
  /\ queue' = [queue EXCEPT ![cur[c]] = Append(@, arg[c])]
  /\ owner' = [owner EXCEPT ![cur[c]] = None]
  /\ pc' = [pc EXCEPT ![c] = "idle"]
  /\ arg' = [arg EXCEPT ![c] = None]
  /\ UNCHANGED <<initialized, asleep, task, alone, ran, given, next, cur, tried, seen>>

\* The last mutex is still held when the task gets its own thread.
FaultyDedicated(c) ==
  /\ pc[c] = "look"
  /\ Len(queue[cur[c]]) >= MaxTasks /\ tried[c] = NumWorkers
  /\ alone' = alone \cup {arg[c]}
  /\ pc' = [pc EXCEPT ![c] = "idle"]
  /\ arg' = [arg EXCEPT ![c] = None]
  /\ UNCHANGED <<initialized, queue, owner, asleep, task, ran, given, next, cur, tried, seen>>
-----------------------------------------------------------------------------
Init ==
  /\ initialized = FALSE
  /\ next = 0
  /\ queue = [w \in Workers |-> <<>>]
  /\ owner = [w \in Workers |-> None]
  /\ asleep = {}
  /\ task = [w \in Workers |-> None]
  /\ alone = {}
  /\ pc = [c \in Callers |-> "idle"]
  /\ arg = [c \in Callers |-> None]
  /\ cur = [c \in Callers |-> 0]
  /\ tried = [c \in Callers |-> 0]
  /\ seen = [c \in Callers |-> 0]
  /\ ran = [t \in Tasks |-> 0] /\ given = 0
-----------------------------------------------------------------------------
(* xiom_threadpool_spawn *)

SpawnCall(c) ==
  /\ pc[c] = "idle"
  /\ given < NumTasks
  /\ given' = given + 1
  /\ arg' = [arg EXCEPT ![c] = given + 1]
  /\ pc' = [pc EXCEPT ![c] = IF initialized THEN "pick" ELSE "init"]
  /\ UNCHANGED <<initialized, queue, owner, asleep, task, alone, ran, next, cur, tried, seen>>

\* xiom_threadpool_init, under its lock: the first caller makes the fleet.
InitPool(c) ==
  /\ pc[c] = "init"
  /\ initialized' = TRUE
  /\ queue' = IF initialized THEN queue ELSE [w \in Workers |-> <<>>]
  /\ pc' = [pc EXCEPT ![c] = "pick"]
  /\ UNCHANGED <<owner, asleep, task, alone, ran, given, next, arg, cur, tried, seen>>

\* Read the shared counter.  It is an int; the model has fewer spawns than it
\* takes to overflow it.
Pick(c) ==
  /\ pc[c] = "pick"
  /\ seen' = [seen EXCEPT ![c] = next]
  /\ cur' = [cur EXCEPT ![c] = next % NumWorkers]
  /\ tried' = [tried EXCEPT ![c] = 1]
  /\ pc' = [pc EXCEPT ![c] = "bump"]
  /\ UNCHANGED <<pool, next, arg>>

\* Write it back one higher: two callers may have read the same value.
Bump(c) ==
  /\ pc[c] = "bump"
  /\ next' = seen[c] + 1
  /\ pc' = [pc EXCEPT ![c] = "lock"]
  /\ UNCHANGED <<pool, arg, cur, tried, seen>>

Lock(c) ==
  /\ pc[c] = "lock" /\ owner[cur[c]] = None
  /\ owner' = [owner EXCEPT ![cur[c]] = c]
  /\ pc' = [pc EXCEPT ![c] = "look"]
  /\ UNCHANGED <<initialized, queue, asleep, task, alone, ran, given, next, arg, cur, tried, seen>>

\* Room: put the task into the ring, signal the worker, unlock.
Enqueue(c) ==
  /\ pc[c] = "look"
  /\ Len(queue[cur[c]]) < MaxTasks
  /\ queue' = [queue EXCEPT ![cur[c]] = Append(@, arg[c])]
  /\ asleep' = asleep \ {cur[c]}
  /\ owner' = [owner EXCEPT ![cur[c]] = None]
  /\ pc' = [pc EXCEPT ![c] = "idle"]
  /\ arg' = [arg EXCEPT ![c] = None]
  /\ UNCHANGED <<initialized, task, alone, ran, given, next, cur, tried, seen>>

\* Full: lock the next queue, then unlock this one.
NextQueue(c) == (cur[c] + 1) % NumWorkers

MoveOn(c) ==
  /\ pc[c] = "look"
  /\ Len(queue[cur[c]]) >= MaxTasks /\ tried[c] < NumWorkers
  /\ owner[NextQueue(c)] = None
  /\ owner' = [owner EXCEPT ![NextQueue(c)] = c, ![cur[c]] = None]
  /\ cur' = [cur EXCEPT ![c] = NextQueue(c)]
  /\ tried' = [tried EXCEPT ![c] = @ + 1]
  /\ UNCHANGED <<initialized, queue, asleep, task, alone, ran, given, next, pc, arg, seen>>

\* "All full -- spawn dedicated thread"
Dedicated(c) ==
  /\ pc[c] = "look"
  /\ Len(queue[cur[c]]) >= MaxTasks /\ tried[c] = NumWorkers
  /\ alone' = alone \cup {arg[c]}
  /\ owner' = [owner EXCEPT ![cur[c]] = None]
  /\ pc' = [pc EXCEPT ![c] = "idle"]
  /\ arg' = [arg EXCEPT ![c] = None]
  /\ UNCHANGED <<initialized, queue, asleep, task, ran, given, next, cur, tried, seen>>
-----------------------------------------------------------------------------
(* xiom_tp_worker_loop; its mutex is free between its steps. *)

Idle(w) == initialized /\ w \notin asleep /\ task[w] = None /\ owner[w] = None

WorkerSleep(w) ==
  /\ Idle(w) /\ queue[w] = <<>>
  /\ asleep' = asleep \cup {w}
  /\ UNCHANGED <<initialized, queue, owner, task, alone, ran, given, next, caller>>

WorkerTake(w) ==
  /\ Idle(w) /\ queue[w] # <<>>
  /\ task' = [task EXCEPT ![w] = Head(queue[w])]
  /\ queue' = [queue EXCEPT ![w] = Tail(@)]
  /\ UNCHANGED <<initialized, owner, asleep, alone, ran, given, next, caller>>

WorkerRun(w) ==
  /\ task[w] # None
  /\ ran' = [ran EXCEPT ![task[w]] = @ + 1]
  /\ task' = [task EXCEPT ![w] = None]
  /\ UNCHANGED <<initialized, queue, owner, asleep, alone, given, next, caller>>

\* A thread of its own runs the task and ends.
AloneRun(t) ==
  /\ t \in alone
  /\ alone' = alone \ {t}
  /\ ran' = [ran EXCEPT ![t] = @ + 1]
  /\ UNCHANGED <<initialized, queue, owner, asleep, task, given, next, caller>>

SpuriousWakeup(w) ==
  /\ w \in asleep /\ owner[w] = None
  /\ asleep' = asleep \ {w}
  /\ UNCHANGED <<initialized, queue, owner, task, alone, ran, given, next, caller>>
-----------------------------------------------------------------------------
CallerStep(c) ==
  InitPool(c) \/ Pick(c) \/ Bump(c) \/ Lock(c) \/ Enqueue(c) \/ MoveOn(c) \/ Dedicated(c)

WorkerStep(w) == WorkerSleep(w) \/ WorkerTake(w) \/ WorkerRun(w)

Next ==
  \/ \E c \in Callers : CallerStep(c) \/ SpawnCall(c)
  \/ \E w \in Workers : WorkerStep(w) \/ SpuriousWakeup(w)
  \/ \E t \in Tasks : AloneRun(t)

Spec == Init /\ [][Next]_vars

\* Every thread that can go on is scheduled, and tasks terminate.
Fairness ==
  /\ \A c \in Callers : WF_vars(CallerStep(c))
  /\ \A w \in Workers : WF_vars(WorkerStep(w))
  /\ \A t \in Tasks : WF_vars(AloneRun(t))

FairSpec == Spec /\ Fairness
-----------------------------------------------------------------------------
(* Properties *)

TypeOK ==
  /\ initialized \in BOOLEAN
  /\ next \in Nat /\ given \in 0 .. NumTasks
  /\ \A w \in Workers : queue[w] \in Seq(Tasks) /\ Len(queue[w]) <= MaxTasks
  /\ owner \in [Workers -> Callers \cup {None}]
  /\ asleep \subseteq Workers /\ alone \subseteq Tasks
  /\ task \in [Workers -> Tasks \cup {None}]
  /\ pc \in [Callers -> {"idle", "init", "pick", "bump", "lock", "look"}]
  /\ arg \in [Callers -> Tasks \cup {None}]
  /\ cur \in [Callers -> Workers] /\ tried \in [Callers -> 0 .. NumWorkers]

\* A task given to the pool is in a caller's hands, in one queue, with one
\* worker, on one thread of its own, or has run: exactly one of these, once.
TasksRunOnce ==
  /\ \A t \in Tasks : Count(t) = IF t <= given /\ t \notin Handed THEN 1 ELSE 0
  /\ \A w \in Workers : IsInjective(queue[w])

\* No queue passes its bound and no wakeup is lost: a worker that sleeps has
\* nothing to do.
QueuesAreSound == TypeOK /\ \A w \in asleep : queue[w] = <<>>

\* "Queue full -- try next worker ... All full -- spawn dedicated thread": no
\* set of callers holds queues that each other wants.
BlockedBy(c) ==
  IF pc[c] = "look" /\ Len(queue[cur[c]]) >= MaxTasks /\ tried[c] < NumWorkers
  THEN {d \in Callers : owner[NextQueue(c)] = d} ELSE {}
NoLockCycle ==
  \A D \in (SUBSET Callers) \ {{}} : \E c \in D : BlockedBy(c) \cap D = {}

\* Unless callers lock each other out, what is handed to the pool runs and the
\* call returns.
PoolMakesProgress ==
  []NoLockCycle =>
    /\ \A t \in Tasks : t <= given ~> ran[t] = 1
    /\ \A c \in Callers : pc[c] # "idle" ~> pc[c] = "idle"
=============================================================================
