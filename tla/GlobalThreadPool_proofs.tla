----------------------- MODULE GlobalThreadPool_proofs -----------------------
(***************************************************************************)
(* The process-wide pool, for every number of workers, any queue bound and *)
(* any set of callers.                                                     *)
(***************************************************************************)
EXTENDS GlobalThreadPool, FiniteSetTheorems, SequenceTheorems, TLAPS

-----------------------------------------------------------------------------
(* Queues without duplicates *)

\* Behind a queue that does not have it a task joins its set.
LEMMA AppendToQueue ==
  ASSUME NEW q \in Seq(Tasks), NEW t \in Tasks
  PROVE  /\ Append(q, t) \in Seq(Tasks) /\ Len(Append(q, t)) = Len(q) + 1
         /\ ToSet(Append(q, t)) = ToSet(q) \cup {t}
         /\ IsInjective(q) /\ t \notin ToSet(q) => IsInjective(Append(q, t))
<1> DEFINE r == Append(q, t)
<1>1. /\ r \in Seq(Tasks) /\ Len(q) \in Nat /\ Len(r) = Len(q) + 1
      /\ DOMAIN q = 1 .. Len(q) /\ DOMAIN r = 1 .. Len(q) + 1
      /\ \A i \in 1 .. Len(q) : r[i] = q[i]
      /\ r[Len(q) + 1] = t
  BY AppendProperties, LenProperties
<1>2. ToSet(r) = ToSet(q) \cup {t}
  <2>1. ASSUME NEW x \in ToSet(r) PROVE x \in ToSet(q) \cup {t}
    <3>1. PICK i \in 1 .. Len(q) + 1 : x = r[i]  BY <1>1 DEF ToSet
    <3>2. i \in 1 .. Len(q) \/ i = Len(q) + 1  BY <1>1
    <3> QED  BY <1>1, <3>1, <3>2 DEF ToSet
  <2>2. ASSUME NEW x \in ToSet(q) PROVE x \in ToSet(r)
    <3>1. PICK i \in 1 .. Len(q) : x = q[i]  BY <1>1 DEF ToSet
    <3>2. i \in 1 .. Len(q) + 1 /\ x = r[i]  BY <1>1, <3>1
    <3> QED  BY <1>1, <3>2 DEF ToSet
  <2>3. t \in ToSet(r)
    <3>1. Len(q) + 1 \in 1 .. Len(q) + 1  BY <1>1
    <3> QED  BY <1>1, <3>1 DEF ToSet
  <2> QED  BY <2>1, <2>2, <2>3
<1>3. ASSUME IsInjective(q), t \notin ToSet(q)  PROVE IsInjective(r)
  <2>1. SUFFICES ASSUME NEW a \in 1 .. Len(q) + 1, NEW b \in 1 .. Len(q) + 1, r[a] = r[b]
                 PROVE a = b
    BY <1>1 DEF IsInjective
  <2>2. \A i \in 1 .. Len(q) : r[i] # t  BY <1>1, <1>3 DEF ToSet
  <2>3. (a \in 1 .. Len(q) \/ a = Len(q) + 1) /\ (b \in 1 .. Len(q) \/ b = Len(q) + 1)
    BY <1>1
  <2> QED  BY <1>1, <1>3, <2>1, <2>2, <2>3 DEF IsInjective
<1> QED  BY <1>1, <1>2, <1>3

\* The front of a queue without duplicates leaves its set.
LEMMA TakeFromQueue ==
  ASSUME NEW q \in Seq(Tasks), q # <<>>, IsInjective(q)
  PROVE  /\ Tail(q) \in Seq(Tasks) /\ Len(Tail(q)) = Len(q) - 1
         /\ Head(q) \in Tasks /\ Head(q) \in ToSet(q)
         /\ ToSet(Tail(q)) = ToSet(q) \ {Head(q)}
         /\ IsInjective(Tail(q))
<1> DEFINE r == Tail(q)
<1>1. /\ r \in Seq(Tasks) /\ Len(q) \in Nat \ {0} /\ Len(r) = Len(q) - 1
      /\ DOMAIN q = 1 .. Len(q) /\ DOMAIN r = 1 .. Len(q) - 1
      /\ \A i \in 1 .. Len(q) - 1 : r[i] = q[i + 1]
      /\ Head(q) = q[1] /\ q[1] \in Tasks
  BY HeadTailProperties, LenProperties, EmptySeq, ElementOfSeq
<1>2. \A a, b \in 1 .. Len(q) : q[a] = q[b] => a = b  BY <1>1 DEF IsInjective
<1>3. ToSet(r) = ToSet(q) \ {q[1]}
  <2>1. ASSUME NEW x \in ToSet(r) PROVE x \in ToSet(q) \ {q[1]}
    <3>1. PICK i \in 1 .. Len(q) - 1 : x = r[i]  BY <1>1 DEF ToSet
    <3>2. i + 1 \in 1 .. Len(q) /\ 1 \in 1 .. Len(q) /\ i + 1 # 1 /\ x = q[i + 1]
      BY <1>1, <3>1
    <3> QED  BY <1>1, <1>2, <3>2 DEF ToSet
  <2>2. ASSUME NEW x \in ToSet(q) \ {q[1]} PROVE x \in ToSet(r)
    <3>1. PICK i \in 1 .. Len(q) : x = q[i]  BY <1>1 DEF ToSet
    <3>2. i - 1 \in 1 .. Len(q) - 1 /\ x = r[i - 1]  BY <1>1, <3>1, <2>2
    <3> QED  BY <1>1, <3>2 DEF ToSet
  <2> QED  BY <2>1, <2>2
<1>4. IsInjective(r)
  <2>1. SUFFICES ASSUME NEW a \in 1 .. Len(q) - 1, NEW b \in 1 .. Len(q) - 1, r[a] = r[b]
                 PROVE a = b
    BY <1>1 DEF IsInjective
  <2>2. a + 1 \in 1 .. Len(q) /\ b + 1 \in 1 .. Len(q) /\ q[a + 1] = q[b + 1]
    BY <1>1, <2>1
  <2> QED  BY <1>2, <2>2
<1>5. q[1] \in ToSet(q)
  <2>1. 1 \in 1 .. Len(q)  BY <1>1
  <2> QED  BY <1>1, <2>1 DEF ToSet
<1> QED  BY <1>1, <1>3, <1>4, <1>5
-----------------------------------------------------------------------------
(* The inductive invariant *)

PoolTypes ==
  /\ TypeOK
  /\ queue \in [Workers -> Seq(Tasks)]
  /\ ran \in [Tasks -> Nat] /\ seen \in [Callers -> Nat]

\* A caller has a task while it is inside xiom_threadpool_spawn, and one of its own.
TasksInHand ==
  \A c \in Callers :
    /\ arg[c] = None <=> pc[c] = "idle"
    /\ arg[c] # None => arg[c] <= given /\ \A d \in Callers \ {c} : arg[d] # arg[c]

\* A queue's mutex is held by the caller that looks at that queue, and by nobody
\* else: none is left locked, and no two callers are at one queue.
MutexesAreHeld ==
  \A c \in Callers, w \in Workers : owner[w] = c <=> pc[c] = "look" /\ cur[c] = w

\* Before the fleet is made nothing is queued and nobody is past its making.
FleetComesFirst ==
  ~initialized => /\ \A w \in Workers : queue[w] = <<>>
                  /\ \A c \in Callers : pc[c] \in {"idle", "init"}

PoolInv ==
  /\ PoolTypes /\ TasksInHand /\ MutexesAreHeld /\ FleetComesFirst
  /\ TasksRunOnce /\ QueuesAreSound

\* The places of a task.
InQueue(t)    == {w \in Workers : t \in ToSet(queue[w])}
WithWorker(t) == {w \in Workers : task[w] = t}
Given(t)      == IF t <= given /\ t \notin Handed THEN 1 ELSE 0
-----------------------------------------------------------------------------
\* The places a task can be in are finitely many of each kind.
LEMMA PlacesAreFinite ==
  \A t : /\ IsFiniteSet(InQueue(t)) /\ Cardinality(InQueue(t)) \in Nat
         /\ IsFiniteSet(WithWorker(t)) /\ Cardinality(WithWorker(t)) \in Nat
<1> SUFFICES ASSUME NEW t
             PROVE  /\ IsFiniteSet(InQueue(t)) /\ Cardinality(InQueue(t)) \in Nat
                    /\ IsFiniteSet(WithWorker(t)) /\ Cardinality(WithWorker(t)) \in Nat
  OBVIOUS
<1>1. IsFiniteSet(Workers)  BY FS_Interval, NumWorkersAssumption DEF Workers
<1>2. InQueue(t) \in SUBSET Workers /\ WithWorker(t) \in SUBSET Workers
  BY DEF InQueue, WithWorker
<1> QED  BY <1>1, <1>2, FS_Subset, FS_CardinalityType

\* A task is counted by where it is.
LEMMA CountByPlace ==
  \A t : /\ Count(t) = Cardinality(InQueue(t)) + Cardinality(WithWorker(t))
                         + (IF t \in alone THEN 1 ELSE 0) + ran[t]
         /\ Count(t)' = Cardinality(InQueue(t)') + Cardinality(WithWorker(t)')
                          + (IF t \in alone' THEN 1 ELSE 0) + ran'[t]
  BY DEF Count, InQueue, WithWorker

\* A task that is not to be found has not been queued, taken or run; one that is, is
\* in one place only.
LEMMA OnePlace ==
  ASSUME PoolInv, NEW t \in Tasks
  PROVE  /\ Given(t) = 0 => InQueue(t) = {} /\ WithWorker(t) = {} /\ t \notin alone /\ ran[t] = 0
         /\ Count(t) = Given(t) /\ Given(t) \in {0, 1}
         /\ InQueue(t) # {} =>
               Cardinality(InQueue(t)) = 1 /\ WithWorker(t) = {} /\ t \notin alone /\ ran[t] = 0
<1>1. Count(t) = Given(t) /\ Given(t) \in {0, 1}  BY DEF PoolInv, TasksRunOnce, Given
<1>2. ran[t] \in Nat  BY DEF PoolInv, PoolTypes
<1>3. /\ Cardinality(InQueue(t)) \in Nat /\ Cardinality(WithWorker(t)) \in Nat
      /\ Cardinality(InQueue(t)) = 0 <=> InQueue(t) = {}
      /\ Cardinality(WithWorker(t)) = 0 <=> WithWorker(t) = {}
  BY PlacesAreFinite, FS_EmptySet
<1> DEFINE a == Cardinality(InQueue(t))
           b == Cardinality(WithWorker(t))
           c == IF t \in alone THEN 1 ELSE 0
<1>4. c \in {0, 1} /\ (c = 0 <=> t \notin alone)  OBVIOUS
<1>5. a + b + c + ran[t] = Given(t)  BY <1>1, CountByPlace
<1> HIDE DEF a, b, c
<1>6. /\ Given(t) = 0 => a = 0 /\ b = 0 /\ c = 0 /\ ran[t] = 0
      /\ a # 0 => a = 1 /\ b = 0 /\ c = 0 /\ ran[t] = 0
  BY <1>1, <1>2, <1>3, <1>4, <1>5 DEF a, b
<1> QED  BY <1>1, <1>3, <1>4, <1>6 DEF a, b
-----------------------------------------------------------------------------
(* Steps that move no task *)

\* As long as queues, workers and runs stay as they are, a task counts as before.
LEMMA PlacesUnchanged ==
  ASSUME PoolInv, UNCHANGED <<queue, task, alone, ran>>,
         \A t \in Tasks : Given(t)' = Given(t)
  PROVE  TasksRunOnce'
<1>1. \A t \in Tasks : Count(t)' = Count(t)  BY DEF Count
<1>2. \A t \in Tasks : Count(t) = Given(t)  BY OnePlace
<1> QED  BY <1>1, <1>2 DEF PoolInv, TasksRunOnce, Given

\* Entering spawn gives the task into the caller's hands.
LEMMA SpawnCallKeeps == ASSUME PoolInv, NEW c \in Callers, SpawnCall(c)  PROVE PoolInv'
<1> USE NumTasksAssumption, NoneAssumption
<1>1. given \in Nat /\ given + 1 \in Tasks /\ given' = given + 1 /\ arg[c] = None
  BY DEF SpawnCall, PoolInv, PoolTypes, TypeOK, TasksInHand, Tasks
<1>2. arg' = [arg EXCEPT ![c] = given + 1]  BY DEF SpawnCall
<1>3. PoolTypes'  BY <1>1 DEF SpawnCall, PoolInv, PoolTypes, TypeOK, Tasks
<1>4. TasksInHand'
  <2>1. \A d \in Callers : arg[d] # None => arg[d] \in Nat /\ arg[d] <= given
    BY DEF PoolInv, PoolTypes, TypeOK, TasksInHand, Tasks
  <2>2. \A d \in Callers : arg'[d] = IF d = c THEN given + 1 ELSE arg[d]
    BY <1>2 DEF PoolInv, PoolTypes, TypeOK
  <2>3. \A d \in Callers : pc'[d] = "idle" <=> d # c /\ pc[d] = "idle"
    BY DEF SpawnCall, PoolInv, PoolTypes, TypeOK
  <2> QED  BY <1>1, <2>1, <2>2, <2>3 DEF PoolInv, TasksInHand
<1>5. MutexesAreHeld'
  BY DEF SpawnCall, PoolInv, PoolTypes, TypeOK, MutexesAreHeld
<1>6. FleetComesFirst'  BY DEF SpawnCall, PoolInv, PoolTypes, TypeOK, FleetComesFirst
<1>7. \A t \in Tasks : Given(t)' = Given(t)
  <2>1. Handed' = Handed \cup {given + 1}
    <3>1. \A d \in Callers : arg'[d] = IF d = c THEN given + 1 ELSE arg[d]
      BY <1>2 DEF PoolInv, PoolTypes, TypeOK
    <3>2. \A d \in Callers : d = c => arg[d] \notin Tasks
      BY <1>1 DEF Tasks
    <3>3. \A t \in Tasks : t \in Handed' <=> t \in Handed \/ t = given + 1
      BY <3>1, <3>2 DEF Handed
    <3> QED  BY <1>1, <3>3 DEF Handed
  <2> QED  BY <1>1, <2>1 DEF Given, Tasks
<1>8. TasksRunOnce'  BY <1>7, PlacesUnchanged DEF SpawnCall
<1>9. QueuesAreSound'  BY <1>3 DEF SpawnCall, PoolInv, PoolTypes, QueuesAreSound
<1> QED  BY <1>3, <1>4, <1>5, <1>6, <1>8, <1>9 DEF PoolInv

\* A caller's task stays in its hands while the call goes on.
LEMMA GivenUnchanged ==
  ASSUME UNCHANGED <<arg, given>>  PROVE \A t \in Tasks : Given(t)' = Given(t)
  BY DEF Given, Handed

\* Making the fleet empties queues that are empty, and makes it once.
LEMMA InitPoolKeeps == ASSUME PoolInv, NEW c \in Callers, InitPool(c)  PROVE PoolInv'
<1>1. queue' = queue
  <2>1. ~initialized => \A w \in Workers : queue[w] = <<>>  BY DEF PoolInv, FleetComesFirst
  <2>2. queue = [w \in Workers |-> queue[w]]  BY DEF PoolInv, PoolTypes
  <2> QED  BY <2>1, <2>2 DEF InitPool
<1>2. PoolTypes'  BY <1>1 DEF InitPool, PoolInv, PoolTypes, TypeOK
<1>3. TasksInHand'  BY DEF InitPool, PoolInv, PoolTypes, TypeOK, TasksInHand
<1>4. MutexesAreHeld'  BY DEF InitPool, PoolInv, PoolTypes, TypeOK, MutexesAreHeld
<1>5. FleetComesFirst'  BY DEF InitPool, FleetComesFirst
<1>6. TasksRunOnce'  BY <1>1, GivenUnchanged, PlacesUnchanged DEF InitPool
<1>7. QueuesAreSound'  BY <1>1, <1>2 DEF InitPool, PoolInv, PoolTypes, QueuesAreSound
<1> QED  BY <1>2, <1>3, <1>4, <1>5, <1>6, <1>7 DEF PoolInv

\* Round robin stays among the workers.
LEMMA RoundRobin == \A n \in Nat : n % NumWorkers \in Workers
  BY NumWorkersAssumption DEF Workers

\* The unlocked read and write of the round-robin counter.
LEMMA PickKeeps == ASSUME PoolInv, NEW c \in Callers, Pick(c) \/ Bump(c)  PROVE PoolInv'
<1>1. UNCHANGED pool /\ UNCHANGED arg  BY DEF Pick, Bump
<1>2. /\ \A d \in Callers : pc'[d] = "look" <=> pc[d] = "look"
      /\ \A d \in Callers : pc[d] = "look" => cur'[d] = cur[d]
      /\ \A d \in Callers : pc'[d] = "idle" <=> pc[d] = "idle"
      /\ pc[c] \notin {"idle", "init"}
  BY DEF Pick, Bump, PoolInv, PoolTypes, TypeOK
<1>3. PoolTypes'
  <2>1. CASE Pick(c)
    <3>1. next % NumWorkers \in Workers  BY RoundRobin DEF PoolInv, PoolTypes, TypeOK
    <3>2. 1 \in 0 .. NumWorkers  BY NumWorkersAssumption
    <3> QED  BY <2>1, <3>1, <3>2 DEF Pick, pool, PoolInv, PoolTypes, TypeOK
  <2>2. CASE Bump(c)  BY <2>2 DEF Bump, pool, PoolInv, PoolTypes, TypeOK
  <2> QED  BY <2>1, <2>2
<1>4. TasksInHand'  BY <1>1, <1>2 DEF pool, PoolInv, TasksInHand
<1>5. MutexesAreHeld'  BY <1>1, <1>2 DEF pool, PoolInv, MutexesAreHeld
<1>6. FleetComesFirst'  BY <1>1, <1>2 DEF pool, PoolInv, FleetComesFirst
<1>7. TasksRunOnce'  BY <1>1, GivenUnchanged, PlacesUnchanged DEF pool
<1>8. QueuesAreSound'  BY <1>1, <1>3 DEF pool, PoolInv, PoolTypes, QueuesAreSound
<1> QED  BY <1>3, <1>4, <1>5, <1>6, <1>7, <1>8 DEF PoolInv

\* Taking a mutex, the first or the next one.
LEMMA LockKeeps == ASSUME PoolInv, NEW c \in Callers, Lock(c) \/ MoveOn(c)  PROVE PoolInv'
<1>1. UNCHANGED <<initialized, queue, asleep, task, alone, ran, given, next, arg, seen>>
  BY DEF Lock, MoveOn
<1>2. /\ \A d \in Callers : pc'[d] = IF d = c THEN "look" ELSE pc[d]
      /\ \A d \in Callers : d # c => cur'[d] = cur[d]
      /\ pc[c] \in {"lock", "look"} /\ cur'[c] \in Workers /\ owner[cur'[c]] = None
      /\ \A w \in Workers : owner'[w] =
           IF w = cur'[c] THEN c ELSE IF pc[c] = "look" /\ w = cur[c] THEN None ELSE owner[w]
  <2>1. CASE Lock(c)  BY <2>1 DEF Lock, PoolInv, PoolTypes, TypeOK
  <2>2. CASE MoveOn(c)
    <3>1. NextQueue(c) \in Workers
      <4>1. cur[c] + 1 \in Nat  BY DEF PoolInv, PoolTypes, TypeOK, Workers
      <4> QED  BY <4>1, RoundRobin DEF NextQueue
    <3>2. owner[cur[c]] = c /\ c # None /\ cur[c] \in Workers
      BY <2>2, NoneAssumption DEF MoveOn, PoolInv, PoolTypes, TypeOK, MutexesAreHeld
    <3>3. cur[c] # NextQueue(c)  BY <2>2, <3>2 DEF MoveOn
    <3> QED  BY <2>2, <3>1, <3>2, <3>3 DEF MoveOn, PoolInv, PoolTypes, TypeOK
  <2> QED  BY <2>1, <2>2
<1>3. PoolTypes'
  <2>1. CASE Lock(c)  BY <2>1 DEF Lock, PoolInv, PoolTypes, TypeOK
  <2>2. CASE MoveOn(c)
    <3>1. NextQueue(c) \in Workers
      <4>1. cur[c] + 1 \in Nat  BY DEF PoolInv, PoolTypes, TypeOK, Workers
      <4> QED  BY <4>1, RoundRobin DEF NextQueue
    <3>2. tried[c] + 1 \in 0 .. NumWorkers
      BY <2>2, NumWorkersAssumption DEF MoveOn, PoolInv, PoolTypes, TypeOK
    <3> QED  BY <2>2, <3>1, <3>2 DEF MoveOn, PoolInv, PoolTypes, TypeOK
  <2> QED  BY <2>1, <2>2
<1>4. TasksInHand'  BY <1>1, <1>2 DEF PoolInv, TasksInHand
<1>5. MutexesAreHeld'
  <2> SUFFICES ASSUME NEW d \in Callers, NEW w \in Workers
               PROVE  owner'[w] = d <=> pc'[d] = "look" /\ cur'[d] = w
    BY DEF MutexesAreHeld
  <2>1. d # None  BY NoneAssumption
  <2>2. owner[w] = d <=> pc[d] = "look" /\ cur[d] = w  BY DEF PoolInv, MutexesAreHeld
  <2>3. owner[w] = c <=> pc[c] = "look" /\ cur[c] = w  BY DEF PoolInv, MutexesAreHeld
  <2> QED  BY <1>2, <2>1, <2>2, <2>3
<1>6. FleetComesFirst'  BY <1>1, <1>2 DEF PoolInv, FleetComesFirst
<1>7. TasksRunOnce'  BY <1>1, GivenUnchanged, PlacesUnchanged
<1>8. QueuesAreSound'  BY <1>1, <1>3 DEF PoolInv, PoolTypes, QueuesAreSound
<1> QED  BY <1>3, <1>4, <1>5, <1>6, <1>7, <1>8 DEF PoolInv

\* A worker goes to sleep on an empty queue only, and wakes with or without a task.
LEMMA SleepKeeps ==
  ASSUME PoolInv, NEW w \in Workers, WorkerSleep(w) \/ SpuriousWakeup(w)  PROVE PoolInv'
<1>1. /\ UNCHANGED <<initialized, queue, owner, task, alone, ran, given, next, caller>>
      /\ \/ asleep' = asleep \cup {w} /\ queue[w] = <<>>
         \/ asleep' = asleep \ {w}
  BY DEF WorkerSleep, SpuriousWakeup
<1>2. PoolTypes'  BY <1>1 DEF caller, PoolInv, PoolTypes, TypeOK
<1>3. TasksInHand'  BY <1>1 DEF caller, PoolInv, TasksInHand
<1>4. MutexesAreHeld'  BY <1>1 DEF caller, PoolInv, MutexesAreHeld
<1>5. FleetComesFirst'  BY <1>1 DEF caller, PoolInv, FleetComesFirst
<1>6. TasksRunOnce'  BY <1>1, GivenUnchanged, PlacesUnchanged DEF caller
<1>7. QueuesAreSound'  BY <1>1, <1>2 DEF PoolInv, PoolTypes, QueuesAreSound
<1> QED  BY <1>2, <1>3, <1>4, <1>5, <1>6, <1>7 DEF PoolInv
-----------------------------------------------------------------------------
(* Steps that move a task *)

\* What the two steps by which a caller gives its task away have in common.
GivesAway(c) ==
  /\ pc[c] = "look" /\ pc' = [pc EXCEPT ![c] = "idle"]
  /\ arg' = [arg EXCEPT ![c] = None]
  /\ owner' = [owner EXCEPT ![cur[c]] = None]
  /\ UNCHANGED <<initialized, given, cur>>

\* A caller that gives its task away is done; the task counts from now on.
LEMMA HandOver ==
  ASSUME PoolInv, NEW c \in Callers, GivesAway(c)
  PROVE  /\ arg[c] \in Tasks /\ Given(arg[c]) = 0 /\ cur[c] \in Workers /\ initialized
         /\ \A t \in Tasks : Given(t)' = IF t = arg[c] THEN 1 ELSE Given(t)
         /\ TasksInHand' /\ MutexesAreHeld'
<1>1. /\ arg[c] \in Tasks /\ arg[c] <= given /\ cur[c] \in Workers
      /\ \A d \in Callers \ {c} : arg[d] # arg[c]
  BY DEF GivesAway, PoolInv, PoolTypes, TypeOK, TasksInHand
<1>2. \A d \in Callers : /\ arg'[d] = IF d = c THEN None ELSE arg[d]
                         /\ pc'[d] = IF d = c THEN "idle" ELSE pc[d]
  BY DEF GivesAway, PoolInv, PoolTypes, TypeOK
<1>3. None \notin Tasks  BY NoneAssumption DEF Tasks
<1>4. initialized  BY DEF GivesAway, PoolInv, FleetComesFirst
<1>5. \A t \in Tasks : t \in Handed' <=> t \in Handed /\ t # arg[c]
  BY <1>1, <1>2, <1>3 DEF Handed
<1>6. arg[c] \in Handed /\ Given(arg[c]) = 0  BY <1>1 DEF Handed, Given
<1>7. \A t \in Tasks : Given(t)' = IF t = arg[c] THEN 1 ELSE Given(t)
  BY <1>1, <1>5, <1>6 DEF GivesAway, Given
<1>8. TasksInHand'
  <2> SUFFICES ASSUME NEW d \in Callers
               PROVE  /\ arg'[d] = None <=> pc'[d] = "idle"
                      /\ arg'[d] # None =>
                           arg'[d] <= given' /\ \A e \in Callers \ {d} : arg'[e] # arg'[d]
    BY DEF TasksInHand
  <2>1. /\ arg[d] = None <=> pc[d] = "idle"
        /\ arg[d] # None => arg[d] <= given /\ \A e \in Callers \ {d} : arg[e] # arg[d]
    BY DEF PoolInv, TasksInHand
  <2>2. given' = given /\ arg[c] # None  BY <1>1, <1>3 DEF GivesAway
  <2>3. CASE d = c  BY <1>2, <2>3
  <2>4. CASE d # c  BY <1>2, <2>1, <2>2, <2>4
  <2> QED  BY <2>3, <2>4
<1>9. MutexesAreHeld'
  <2> SUFFICES ASSUME NEW d \in Callers, NEW w \in Workers
               PROVE  owner'[w] = d <=> pc'[d] = "look" /\ cur'[d] = w
    BY DEF MutexesAreHeld
  <2>1. d # None /\ owner'[w] = IF w = cur[c] THEN None ELSE owner[w]
    BY NoneAssumption DEF GivesAway, PoolInv, PoolTypes, TypeOK
  <2>2. owner[w] = d <=> pc[d] = "look" /\ cur[d] = w  BY DEF PoolInv, MutexesAreHeld
  <2>3. owner[w] = c <=> pc[c] = "look" /\ cur[c] = w  BY DEF PoolInv, MutexesAreHeld
  <2>4. pc[c] = "look" /\ cur' = cur  BY DEF GivesAway
  <2>5. CASE d = c
    <3>1. pc'[d] # "look"  BY <1>2, <2>5
    <3>2. owner'[w] # d  BY <2>1, <2>3, <2>4, <2>5
    <3> QED  BY <3>1, <3>2
  <2>6. CASE d # c  BY <1>1, <1>2, <2>1, <2>2, <2>3, <2>4, <2>6
  <2> QED  BY <2>5, <2>6
<1> QED  BY <1>1, <1>4, <1>6, <1>7, <1>8, <1>9

\* Into a queue with room, whose worker is told.
LEMMA EnqueueKeeps == ASSUME PoolInv, NEW c \in Callers, Enqueue(c)  PROVE PoolInv'
<1> DEFINE t == arg[c]
           v == cur[c]
<1>1. /\ t \in Tasks /\ Given(t) = 0 /\ v \in Workers /\ initialized
      /\ \A u \in Tasks : Given(u)' = IF u = t THEN 1 ELSE Given(u)
      /\ TasksInHand' /\ MutexesAreHeld'
  BY HandOver DEF Enqueue, GivesAway
<1>2. InQueue(t) = {} /\ WithWorker(t) = {} /\ t \notin alone /\ ran[t] = 0
  BY <1>1, OnePlace
<1>3. /\ queue[v] \in Seq(Tasks) /\ IsInjective(queue[v]) /\ t \notin ToSet(queue[v])
      /\ Len(queue[v]) < MaxTasks
  BY <1>1, <1>2 DEF PoolInv, PoolTypes, TypeOK, TasksRunOnce, InQueue, Enqueue
<1>4. /\ Append(queue[v], t) \in Seq(Tasks) /\ Len(Append(queue[v], t)) = Len(queue[v]) + 1
      /\ ToSet(Append(queue[v], t)) = ToSet(queue[v]) \cup {t}
      /\ IsInjective(Append(queue[v], t))
  BY <1>1, <1>3, AppendToQueue
<1>5. \A w \in Workers : queue'[w] = IF w = v THEN Append(queue[v], t) ELSE queue[w]
  BY <1>1 DEF Enqueue, PoolInv, PoolTypes
<1>6. PoolTypes'
  <2>1. \A w \in Workers : queue'[w] \in Seq(Tasks) /\ Len(queue'[w]) <= MaxTasks
    <3>1. Len(queue[v]) \in Nat /\ Len(queue[v]) + 1 <= MaxTasks
      BY <1>3, LenProperties, MaxTasksAssumption
    <3> QED  BY <3>1, <1>4, <1>5 DEF PoolInv, PoolTypes, TypeOK
  <2>2. queue' \in [Workers -> Seq(Tasks)]
    BY <2>1, <1>1 DEF Enqueue, PoolInv, PoolTypes
  <2> QED  BY <2>1, <2>2 DEF Enqueue, PoolInv, PoolTypes, TypeOK
<1>7. FleetComesFirst'  BY <1>1 DEF Enqueue, FleetComesFirst
<1>8. \A u \in Tasks : Count(u)' = Given(u)'
  <2> SUFFICES ASSUME NEW u \in Tasks PROVE Count(u)' = Given(u)'  OBVIOUS
  <2>1. WithWorker(u)' = WithWorker(u) /\ UNCHANGED <<alone, ran>>  BY DEF Enqueue, WithWorker
  <2>2. CASE u = t
    <3>1. InQueue(u)' = {v}  BY <1>1, <1>2, <1>4, <1>5, <2>2 DEF InQueue
    <3>2. Cardinality(InQueue(u)') = 1 /\ Cardinality(WithWorker(u)') = 0
      BY <3>1, <2>1, <2>2, <1>2, FS_Singleton, FS_EmptySet
    <3> QED  BY <3>2, <2>1, <2>2, <1>1, <1>2 DEF Count, InQueue, WithWorker
  <2>3. CASE u # t
    <3>1. InQueue(u)' = InQueue(u)  BY <1>4, <1>5, <2>3 DEF InQueue
    <3>2. Count(u)' = Count(u)  BY <3>1, <2>1 DEF Count, InQueue, WithWorker
    <3> QED  BY <3>2, <2>3, <1>1, OnePlace
  <2> QED  BY <2>2, <2>3
<1>9. TasksRunOnce'
  <2>1. \A w \in Workers : IsInjective(queue'[w])
    BY <1>4, <1>5 DEF PoolInv, TasksRunOnce
  <2> QED  BY <1>8, <2>1 DEF TasksRunOnce, Given
<1>10. QueuesAreSound'
  BY <1>5, <1>6 DEF Enqueue, PoolInv, PoolTypes, QueuesAreSound
<1> QED  BY <1>1, <1>6, <1>7, <1>9, <1>10 DEF PoolInv

\* A thread of its own.
LEMMA DedicatedKeeps == ASSUME PoolInv, NEW c \in Callers, Dedicated(c)  PROVE PoolInv'
<1> DEFINE t == arg[c]
<1>1. /\ t \in Tasks /\ Given(t) = 0 /\ cur[c] \in Workers /\ initialized
      /\ \A u \in Tasks : Given(u)' = IF u = t THEN 1 ELSE Given(u)
      /\ TasksInHand' /\ MutexesAreHeld'
  BY HandOver DEF Dedicated, GivesAway
<1>2. InQueue(t) = {} /\ WithWorker(t) = {} /\ t \notin alone /\ ran[t] = 0
  BY <1>1, OnePlace
<1>3. PoolTypes'  BY <1>1 DEF Dedicated, PoolInv, PoolTypes, TypeOK
<1>4. FleetComesFirst'  BY <1>1 DEF Dedicated, FleetComesFirst
<1>5. \A u \in Tasks : Count(u)' = Given(u)'
  <2> SUFFICES ASSUME NEW u \in Tasks PROVE Count(u)' = Given(u)'  OBVIOUS
  <2>1. /\ WithWorker(u)' = WithWorker(u) /\ InQueue(u)' = InQueue(u)
        /\ ran' = ran /\ alone' = alone \cup {t}
    BY DEF Dedicated, WithWorker, InQueue
  <2>2. CASE u = t
    <3>1. Cardinality(InQueue(u)') = 0 /\ Cardinality(WithWorker(u)') = 0
      BY <1>2, <2>1, <2>2, FS_EmptySet
    <3>2. Count(u)' = 1  BY <3>1, <1>2, <2>1, <2>2, CountByPlace
    <3> QED  BY <3>2, <2>2, <1>1
  <2>3. CASE u # t
    <3>1. Count(u)' = Count(u)  BY <2>1, <2>3 DEF Count, InQueue, WithWorker
    <3> QED  BY <3>1, <2>3, <1>1, OnePlace
  <2> QED  BY <2>2, <2>3
<1>6. TasksRunOnce'  BY <1>5 DEF Dedicated, PoolInv, TasksRunOnce, Given
<1>7. QueuesAreSound'  BY <1>3 DEF Dedicated, PoolInv, PoolTypes, QueuesAreSound
<1> QED  BY <1>1, <1>3, <1>4, <1>6, <1>7 DEF PoolInv

\* From the front of a queue to its worker.
LEMMA TakeKeeps == ASSUME PoolInv, NEW v \in Workers, WorkerTake(v)  PROVE PoolInv'
<1> DEFINE t == Head(queue[v])
<1>1. /\ queue[v] \in Seq(Tasks) /\ queue[v] # <<>> /\ IsInjective(queue[v])
      /\ Len(queue[v]) <= MaxTasks /\ initialized /\ task[v] = None
  BY DEF WorkerTake, Idle, PoolInv, PoolTypes, TypeOK, TasksRunOnce
<1>2. /\ Tail(queue[v]) \in Seq(Tasks) /\ Len(Tail(queue[v])) = Len(queue[v]) - 1
      /\ t \in Tasks /\ t \in ToSet(queue[v])
      /\ ToSet(Tail(queue[v])) = ToSet(queue[v]) \ {t}
      /\ IsInjective(Tail(queue[v]))
  BY <1>1, TakeFromQueue
<1>3. /\ \A w \in Workers : queue'[w] = IF w = v THEN Tail(queue[v]) ELSE queue[w]
      /\ \A w \in Workers : task'[w] = IF w = v THEN t ELSE task[w]
      /\ UNCHANGED <<initialized, owner, asleep, alone, ran, given, next, caller>>
  BY DEF WorkerTake, PoolInv, PoolTypes, TypeOK
<1>4. InQueue(t) = {v} /\ WithWorker(t) = {} /\ t \notin alone /\ ran[t] = 0 /\ Given(t) = 1
  <2>1. v \in InQueue(t)  BY <1>2 DEF InQueue
  <2>2. /\ Cardinality(InQueue(t)) = 1 /\ WithWorker(t) = {}
        /\ t \notin alone /\ ran[t] = 0 /\ Given(t) = 1
    BY <1>2, <2>1, OnePlace
  <2>3. \E x : InQueue(t) = {x}  BY <2>2, PlacesAreFinite, FS_Singleton
  <2> QED  BY <2>1, <2>2, <2>3
<1>5. PoolTypes'
  <2>1. \A w \in Workers : queue'[w] \in Seq(Tasks) /\ Len(queue'[w]) <= MaxTasks
    <3>1. Len(queue[v]) \in Nat /\ Len(queue[v]) - 1 <= MaxTasks
      BY <1>1, LenProperties, MaxTasksAssumption
    <3> QED  BY <3>1, <1>2, <1>3 DEF PoolInv, PoolTypes, TypeOK
  <2>2. queue' \in [Workers -> Seq(Tasks)]  BY <1>2 DEF WorkerTake, PoolInv, PoolTypes
  <2>3. task' \in [Workers -> Tasks \cup {None}]
    BY <1>2 DEF WorkerTake, PoolInv, PoolTypes, TypeOK
  <2> QED  BY <2>1, <2>2, <2>3, <1>3 DEF caller, PoolInv, PoolTypes, TypeOK
<1>6. TasksInHand'  BY <1>3 DEF caller, PoolInv, TasksInHand
<1>7. MutexesAreHeld'  BY <1>3 DEF caller, PoolInv, MutexesAreHeld
<1>8. FleetComesFirst'  BY <1>1, <1>3 DEF FleetComesFirst
<1>9. \A u \in Tasks : Count(u)' = Given(u)'
  <2> SUFFICES ASSUME NEW u \in Tasks PROVE Count(u)' = Given(u)'  OBVIOUS
  <2>1. Given(u)' = Given(u)  BY <1>3, GivenUnchanged DEF caller
  <2>2. CASE u = t
    <3>1. InQueue(u)' = {}  BY <1>2, <1>3, <1>4, <2>2 DEF InQueue
    <3>2. WithWorker(u)' = {v}  BY <1>3, <1>4, <2>2 DEF WithWorker
    <3>3. Cardinality(InQueue(u)') = 0 /\ Cardinality(WithWorker(u)') = 1
      BY <3>1, <3>2, FS_Singleton, FS_EmptySet
    <3> QED  BY <3>3, <2>1, <2>2, <1>3, <1>4 DEF Count, InQueue, WithWorker
  <2>3. CASE u # t
    <3>1. InQueue(u)' = InQueue(u)  BY <1>2, <1>3, <2>3 DEF InQueue
    <3>2. WithWorker(u)' = WithWorker(u)
      <4>1. u # None  BY NoneAssumption DEF Tasks
      <4> QED  BY <4>1, <1>1, <1>3, <2>3 DEF WithWorker
    <3>3. Count(u)' = Count(u)  BY <3>1, <3>2, <1>3 DEF Count, InQueue, WithWorker
    <3> QED  BY <3>3, <2>1, OnePlace
  <2> QED  BY <2>2, <2>3
<1>10. TasksRunOnce'
  <2>1. \A w \in Workers : IsInjective(queue'[w])
    BY <1>2, <1>3 DEF PoolInv, TasksRunOnce
  <2> QED  BY <1>9, <2>1 DEF TasksRunOnce, Given
<1>11. QueuesAreSound'
  <2>1. v \notin asleep  BY DEF WorkerTake, Idle
  <2>2. asleep \subseteq Workers  BY DEF PoolInv, PoolTypes, TypeOK
  <2> QED  BY <2>1, <2>2, <1>3, <1>5 DEF PoolInv, PoolTypes, QueuesAreSound
<1> QED  BY <1>5, <1>6, <1>7, <1>8, <1>10, <1>11 DEF PoolInv

\* A worker runs its task, or a thread of its own does.
LEMMA RunKeeps ==
  ASSUME PoolInv, (\E v \in Workers : WorkerRun(v)) \/ (\E t \in Tasks : AloneRun(t))
  PROVE  PoolInv'
<1>1. /\ UNCHANGED <<initialized, queue, owner, asleep, given, next, caller>>
      /\ task' \in [Workers -> Tasks \cup {None}] /\ alone' \subseteq Tasks
      /\ ran' \in [Tasks -> Nat]
  <2>1. /\ task \in [Workers -> Tasks \cup {None}] /\ alone \subseteq Tasks
        /\ ran \in [Tasks -> Nat]
    BY DEF PoolInv, PoolTypes, TypeOK
  <2>2. ASSUME NEW v \in Workers, WorkerRun(v)
        PROVE  /\ UNCHANGED <<initialized, queue, owner, asleep, given, next, caller>>
               /\ task' \in [Workers -> Tasks \cup {None}] /\ alone' \subseteq Tasks
               /\ ran' \in [Tasks -> Nat]
    <3>1. task[v] \in Tasks  BY <2>1, <2>2 DEF WorkerRun
    <3> QED  BY <2>1, <2>2, <3>1 DEF WorkerRun
  <2>3. ASSUME NEW t \in Tasks, AloneRun(t)
        PROVE  /\ UNCHANGED <<initialized, queue, owner, asleep, given, next, caller>>
               /\ task' \in [Workers -> Tasks \cup {None}] /\ alone' \subseteq Tasks
               /\ ran' \in [Tasks -> Nat]
    BY <2>1, <2>3 DEF AloneRun
  <2> QED  BY <2>2, <2>3
<1>2. PoolTypes'  BY <1>1 DEF caller, PoolInv, PoolTypes, TypeOK
<1>3. TasksInHand'  BY <1>1 DEF caller, PoolInv, TasksInHand
<1>4. MutexesAreHeld'  BY <1>1 DEF caller, PoolInv, MutexesAreHeld
<1>5. FleetComesFirst'  BY <1>1 DEF caller, PoolInv, FleetComesFirst
<1>6. \A u \in Tasks : Count(u)' = Count(u)
  <2> SUFFICES ASSUME NEW u \in Tasks PROVE Count(u)' = Count(u)  OBVIOUS
  <2>1. InQueue(u)' = InQueue(u) /\ u # None  BY <1>1, NoneAssumption DEF InQueue, Tasks
  <2>2. ASSUME NEW v \in Workers, WorkerRun(v)  PROVE Count(u)' = Count(u)
    <3>1. task[v] \in Tasks  BY <2>2 DEF WorkerRun, PoolInv, PoolTypes, TypeOK
    <3>2. CASE u = task[v]
      <4>1. WithWorker(u)' = WithWorker(u) \ {v} /\ v \in WithWorker(u)
        BY <2>1, <2>2, <3>2 DEF WorkerRun, WithWorker, PoolInv, PoolTypes, TypeOK
      <4>2. Cardinality(WithWorker(u)') = Cardinality(WithWorker(u)) - 1
        BY <4>1, PlacesAreFinite, FS_RemoveElement
      <4>3. ran'[u] = ran[u] + 1 /\ alone' = alone /\ ran[u] \in Nat
        BY <2>2, <3>1, <3>2 DEF WorkerRun, PoolInv, PoolTypes
      <4>4. Cardinality(WithWorker(u)) \in Nat /\ Cardinality(InQueue(u)) \in Nat
        BY PlacesAreFinite
      <4> QED  BY <4>2, <4>3, <4>4, <2>1, CountByPlace
    <3>3. CASE u # task[v]
      <4>1. WithWorker(u)' = WithWorker(u)
        BY <2>1, <2>2, <3>3 DEF WorkerRun, WithWorker, PoolInv, PoolTypes, TypeOK
      <4>2. ran'[u] = ran[u] /\ alone' = alone
        BY <2>2, <3>1, <3>3 DEF WorkerRun, PoolInv, PoolTypes
      <4> QED  BY <4>1, <4>2, <2>1 DEF Count, InQueue, WithWorker
    <3> QED  BY <3>2, <3>3
  <2>3. ASSUME NEW t \in Tasks, AloneRun(t)  PROVE Count(u)' = Count(u)
    <3>1. WithWorker(u)' = WithWorker(u)  BY <2>3 DEF AloneRun, WithWorker
    <3>2. Cardinality(WithWorker(u)) \in Nat /\ Cardinality(InQueue(u)) \in Nat /\ ran[u] \in Nat
      BY PlacesAreFinite DEF PoolInv, PoolTypes
    <3>3. /\ u = t => u \in alone /\ u \notin alone' /\ ran'[u] = ran[u] + 1
          /\ u # t => (u \in alone' <=> u \in alone) /\ ran'[u] = ran[u]
      BY <2>3 DEF AloneRun, PoolInv, PoolTypes
    <3> QED  BY <3>1, <3>2, <3>3, <2>1, CountByPlace
  <2> QED  BY <2>2, <2>3
<1>7. TasksRunOnce'
  <2>1. \A t \in Tasks : Given(t)' = Given(t)  BY <1>1, GivenUnchanged DEF caller
  <2>2. \A t \in Tasks : Count(t) = Given(t)  BY OnePlace
  <2> QED  BY <1>1, <1>6, <2>1, <2>2 DEF PoolInv, TasksRunOnce, Given
<1>8. QueuesAreSound'  BY <1>1, <1>2 DEF PoolInv, PoolTypes, QueuesAreSound
<1> QED  BY <1>2, <1>3, <1>4, <1>5, <1>7, <1>8 DEF PoolInv
-----------------------------------------------------------------------------
\* At the start there is no task and no fleet.
LEMMA InitEstablishes == Init => PoolInv
<1> SUFFICES ASSUME Init PROVE PoolInv  OBVIOUS
<1> USE NumWorkersAssumption, NumTasksAssumption, MaxTasksAssumption, NoneAssumption
<1>1. <<>> \in Seq(Tasks) /\ Len(<<>>) = 0 /\ ToSet(<<>>) = {} /\ IsInjective(<<>>)
  BY EmptySeq DEF ToSet, IsInjective
<1>2. PoolTypes
  <2>1. 0 \in Workers /\ 0 \in 0 .. NumWorkers /\ 0 \in 0 .. NumTasks  BY DEF Workers
  <2> QED  BY <1>1, <2>1 DEF Init, PoolTypes, TypeOK
<1>3. TasksInHand  BY DEF Init, TasksInHand
<1>4. MutexesAreHeld  BY DEF Init, MutexesAreHeld
<1>5. FleetComesFirst  BY DEF Init, FleetComesFirst
<1>6. TasksRunOnce
  <2>1. ASSUME NEW t \in Tasks PROVE Count(t) = 0 /\ Given(t) = 0
    <3>1. InQueue(t) = {} /\ WithWorker(t) = {}
      BY <1>1 DEF Init, InQueue, WithWorker, Tasks
    <3>2. ~(t <= given)  BY DEF Init, Tasks
    <3>3. t \notin alone /\ ran[t] = 0  BY DEF Init
    <3>4. Cardinality(InQueue(t)) = 0 /\ Cardinality(WithWorker(t)) = 0
      BY <3>1, FS_EmptySet
    <3>5. Count(t) = 0  BY <3>3, <3>4, CountByPlace
    <3> QED  BY <3>2, <3>5 DEF Given
  <2> QED  BY <1>1, <2>1 DEF Init, TasksRunOnce, Given
<1>7. QueuesAreSound  BY <1>2 DEF Init, PoolTypes, QueuesAreSound
<1> QED  BY <1>2, <1>3, <1>4, <1>5, <1>6, <1>7 DEF PoolInv

\* The inductive invariant of the pool: where each task is, whose hands are on which
\* mutex, and that there is a fleet before there is work for it.
THEOREM PoolInvariant == Spec => []PoolInv
<1>1. PoolInv /\ [Next]_vars => PoolInv'
  <2> SUFFICES ASSUME PoolInv, [Next]_vars PROVE PoolInv'  OBVIOUS
  <2>1. CASE UNCHANGED vars
    <3>1. UNCHANGED <<pool, next, caller>>  BY <2>1 DEF vars
    <3>2. TasksRunOnce'
      BY <3>1, GivenUnchanged, PlacesUnchanged DEF pool, caller
    <3>3. PoolTypes' /\ TasksInHand' /\ MutexesAreHeld' /\ FleetComesFirst' /\ QueuesAreSound'
      BY <3>1 DEF pool, caller, PoolInv, PoolTypes, TypeOK, TasksInHand, MutexesAreHeld,
                  FleetComesFirst, QueuesAreSound
    <3> QED  BY <3>2, <3>3 DEF PoolInv
  <2>2. ASSUME NEW c \in Callers, CallerStep(c) \/ SpawnCall(c)  PROVE PoolInv'
    BY <2>2, SpawnCallKeeps, InitPoolKeeps, PickKeeps, LockKeeps, EnqueueKeeps, DedicatedKeeps
       DEF CallerStep
  <2>3. ASSUME NEW w \in Workers, WorkerStep(w) \/ SpuriousWakeup(w)  PROVE PoolInv'
    BY <2>3, SleepKeeps, TakeKeeps, RunKeeps DEF WorkerStep
  <2>4. ASSUME NEW t \in Tasks, AloneRun(t)  PROVE PoolInv'  BY <2>4, RunKeeps
  <2> QED  BY <2>1, <2>2, <2>3, <2>4 DEF Next
<1> QED  BY InitEstablishes, <1>1, PTL DEF Spec

\* A task given to xiom_threadpool_spawn is in one place and runs once, for every
\* number of workers, callers and tasks.
THEOREM EveryTaskRunsOnce == Spec => []TasksRunOnce
BY PoolInvariant, PTL DEF PoolInv

\* No queue passes its bound and no worker sleeps on work, for every queue bound.
THEOREM NoQueueIsForgotten == Spec => []QueuesAreSound
BY PoolInvariant, PTL DEF PoolInv

\* A queue's mutex is held by the one caller that looks at it: two callers are never
\* at one queue, and no call returns with a mutex.
THEOREM QueueMutexesAreHeld == Spec => []MutexesAreHeld
BY PoolInvariant, PTL DEF PoolInv
=============================================================================
