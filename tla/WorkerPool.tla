----------------------------- MODULE WorkerPool -----------------------------
(***************************************************************************)
(* The owned persistent worker pool of the C runtime (xiom_workerpool_*,   *)
(* runtime/xiom_runtime.c), on which xiom.thread.pool is built.            *)
(*                                                                         *)
(* One mutex guards every field, so one action is one critical section:    *)
(* from xiom_mutex_lock to xiom_mutex_unlock, or to the xiom_cond_wait     *)
(* that gives the mutex up.  A thread in a wait set is blocked in          *)
(* xiom_cond_wait; when it leaves the set it takes the mutex again and     *)
(* re-tests the condition of its while loop.  What happens outside the     *)
(* mutex (a job's body, joining an OS thread, freeing the pool) is an      *)
(* action of its own.                                                      *)
(*                                                                         *)
(* A job is the (fn, arg, has_arg) triple of one submission, so the pool   *)
(* sees each job at most once.  completed and outstanding are i64 in C and *)
(* are not bounded here: every job is submitted at most once.              *)
(***************************************************************************)
EXTENDS RingOps, FiniteSets

CONSTANTS
  Workers,      \* the worker threads xiom_workerpool_create asks for
  Clients,      \* the threads that call the pool
  Destroyers,   \* the clients that may call xiom_workerpool_destroy
  Jobs,         \* the submissions
  Cap,          \* p->cap, at least 1024 in C
  NoJob,        \* an empty task slot
  Exclusive     \* TRUE: one closer at a time, and nobody else in a destroy

ASSUME WorkersAssumption  == Workers # {} /\ IsFiniteSet(Workers)
ASSUME CapAssumption      == Cap \in Nat \ {0}
ASSUME NoJobAssumption    == NoJob \notin Jobs
ASSUME DestroyersAssumption == Destroyers \subseteq Clients
ASSUME ExclusiveAssumption  == Exclusive \in BOOLEAN

VARIABLES
  tasks, head, tail, count,   \* the ring of accepted jobs
  outstanding, completed,     \* the accounting behind join
  shutdown, joined,           \* set once, by the first shutdown
  freed,                      \* the pool's memory was released
  waitWork,                   \* workers blocked on p->work
  waitSpace, waitDone,        \* clients blocked on p->space and p->done
  wpc, wjob,                  \* each worker's position and the job it holds
  cpc, cjob,                  \* each client's position and the job it submits
  \* History: what was asked of the pool and what became of it.
  asked, accepted, done,
  owed                        \* the jobs accepted when a client called join

ring    == <<tasks, head, tail, count>>
acct    == <<outstanding, completed>>
life    == <<shutdown, joined, freed>>
waits   == <<waitWork, waitSpace, waitDone>>
worker  == <<wpc, wjob>>
client  == <<cpc, cjob>>
history == <<asked, accepted, done, owed>>
vars    == <<ring, acct, life, waits, worker, client, history>>

Slots == 0 .. Cap - 1
-----------------------------------------------------------------------------
(* What a pool holds. *)

Fleet   == {w \in Workers : wpc[w] # "off"}
Busy    == {w \in Workers : wpc[w] \in {"run", "report"}}
Running == {wjob[w] : w \in {v \in Workers : wpc[v] = "run"}}
Queued  == {tasks[RingSlot(head, k, Cap)] : k \in 0 .. count - 1}

\* A client that shuts the pool down, and one that does so to free it.
Destroying(c) == cpc[c] \in {"destroy", "reapfree", "free"}
Closing(c)    == Destroying(c) \/ cpc[c] \in {"shutdown", "reap"}

\* xiom_cond_signal: one of the waiters goes on, if there is one.
Signalled(S, T) == IF S = {} THEN T = S ELSE \E t \in S : T = S \ {t}
-----------------------------------------------------------------------------
(* Faulty variants of the actions below, each a slip this code could have. *)
(* They are in no specification; the properties are tested against them.   *)

\* `if (p->shutdown) return` tested before the queue is drained.
FaultyExitUndrained(w) ==
  /\ wpc[w] = "loop" /\ w \notin waitWork
  /\ shutdown
  /\ wpc' = [wpc EXCEPT ![w] = "exited"]
  /\ UNCHANGED <<ring, acct, life, waits, wjob, client, history>>

\* The worker goes on after a wakeup without testing the count again.
FaultyTakeAtAnyCount(w) ==
  /\ wpc[w] = "loop" /\ w \notin waitWork
  /\ wjob' = [wjob EXCEPT ![w] = tasks[head]]
  /\ wpc' = [wpc EXCEPT ![w] = "run"]
  /\ head' = RingNext(head, Cap)
  /\ count' = count - 1
  /\ Signalled(waitSpace, waitSpace')
  /\ UNCHANGED <<tasks, tail, acct, life, waitWork, waitDone, client, history>>

\* The freed slot is not announced to a blocked submitter.
FaultyTakeSilently(w) ==
  /\ wpc[w] = "loop" /\ w \notin waitWork
  /\ count > 0
  /\ wjob' = [wjob EXCEPT ![w] = tasks[head]]
  /\ wpc' = [wpc EXCEPT ![w] = "run"]
  /\ head' = RingNext(head, Cap)
  /\ count' = count - 1
  /\ UNCHANGED <<tasks, tail, acct, life, waits, client, history>>

\* The job is accounted for when it is taken, before it has run.
FaultyTakeAccounts(w) ==
  /\ wpc[w] = "loop" /\ w \notin waitWork
  /\ count > 0
  /\ wjob' = [wjob EXCEPT ![w] = tasks[head]]
  /\ wpc' = [wpc EXCEPT ![w] = "run"]
  /\ head' = RingNext(head, Cap)
  /\ count' = count - 1
  /\ outstanding' = outstanding - 1
  /\ Signalled(waitSpace, waitSpace')
  /\ UNCHANGED <<tasks, tail, completed, life, waitWork, waitDone, client, history>>

\* A blocked submitter does not test p->shutdown when it wakes up.
FaultySubmitIgnoresShutdown(c) ==
  /\ cpc[c] = "submit" /\ c \notin waitSpace
  /\ count # Cap
  /\ tasks' = [tasks EXCEPT ![tail] = cjob[c]]
  /\ tail' = RingNext(tail, Cap)
  /\ count' = count + 1
  /\ outstanding' = outstanding + 1
  /\ accepted' = accepted \cup {cjob[c]}
  /\ Signalled(waitWork, waitWork')
  /\ cpc' = [cpc EXCEPT ![c] = "idle"]
  /\ cjob' = [cjob EXCEPT ![c] = NoJob]
  /\ UNCHANGED <<head, completed, life, waitSpace, waitDone, worker, asked, done, owed>>

\* Destroy does not wait for the threads.
FaultyReapEarly(c) ==
  /\ cpc[c] \in {"reap", "reapfree"}
  /\ cpc' = [cpc EXCEPT ![c] = IF cpc[c] = "reap" THEN "idle" ELSE "free"]
  /\ UNCHANGED <<ring, acct, life, waits, worker, cjob, history>>
-----------------------------------------------------------------------------
(* xiom_workerpool_create: thread creation stops at the first failure and  *)
(* the pool keeps the threads it got, as long as there is one.             *)
Init ==
  /\ tasks = [i \in Slots |-> NoJob]
  /\ head = 0 /\ tail = 0 /\ count = 0
  /\ outstanding = 0 /\ completed = 0
  /\ shutdown = FALSE /\ joined = FALSE /\ freed = FALSE
  /\ waitWork = {} /\ waitSpace = {} /\ waitDone = {}
  /\ \E started \in (SUBSET Workers) \ {{}} :
       wpc = [w \in Workers |-> IF w \in started THEN "loop" ELSE "off"]
  /\ wjob = [w \in Workers |-> NoJob]
  /\ cpc = [c \in Clients |-> "idle"]
  /\ cjob = [c \in Clients |-> NoJob]
  /\ asked = {} /\ accepted = {} /\ done = {}
  /\ owed = [c \in Clients |-> {}]
-----------------------------------------------------------------------------
(* xiom_workerpool_worker *)

\* Nothing to do yet: sleep on p->work.
WorkerWait(w) ==
  /\ wpc[w] = "loop" /\ w \notin waitWork
  /\ count = 0 /\ ~shutdown
  /\ waitWork' = waitWork \cup {w}
  /\ UNCHANGED <<ring, acct, life, waitSpace, waitDone, worker, client, history>>

\* Shut down and drained: the thread ends.
WorkerExit(w) ==
  /\ wpc[w] = "loop" /\ w \notin waitWork
  /\ count = 0 /\ shutdown
  /\ wpc' = [wpc EXCEPT ![w] = "exited"]
  /\ UNCHANGED <<ring, acct, life, waits, wjob, client, history>>

\* Take the front job, also after shutdown, and tell one blocked submitter.
WorkerTake(w) ==
  /\ wpc[w] = "loop" /\ w \notin waitWork
  /\ count > 0
  /\ wjob' = [wjob EXCEPT ![w] = tasks[head]]
  /\ wpc' = [wpc EXCEPT ![w] = "run"]
  /\ head' = RingNext(head, Cap)
  /\ count' = count - 1
  /\ Signalled(waitSpace, waitSpace')
  /\ UNCHANGED <<tasks, tail, acct, life, waitWork, waitDone, client, history>>

\* The job's function runs to its end, without the mutex.
WorkerRun(w) ==
  /\ wpc[w] = "run"
  /\ wpc' = [wpc EXCEPT ![w] = "report"]
  /\ done' = done \cup {wjob[w]}
  /\ UNCHANGED <<ring, acct, life, waits, wjob, client, asked, accepted, owed>>

\* Account for the job; the last one wakes every thread in join.
WorkerReport(w) ==
  /\ wpc[w] = "report"
  /\ completed' = completed + 1
  /\ outstanding' = outstanding - 1
  /\ waitDone' = IF outstanding - 1 = 0 THEN {} ELSE waitDone
  /\ wpc' = [wpc EXCEPT ![w] = "loop"]
  /\ wjob' = [wjob EXCEPT ![w] = NoJob]
  /\ UNCHANGED <<ring, life, waitWork, waitSpace, client, history>>
-----------------------------------------------------------------------------
(* xiom_workerpool_submit and _submit_with *)

\* A client enters the pool only through a live handle.
Enters(c, position) ==
  /\ cpc[c] = "idle"
  /\ ~freed
  /\ Exclusive => \A d \in Clients : ~Destroying(d)
  /\ cpc' = [cpc EXCEPT ![c] = position]

SubmitCall(c, j) ==
  /\ j \notin asked
  /\ Enters(c, "submit")
  /\ cjob' = [cjob EXCEPT ![c] = j]
  /\ asked' = asked \cup {j}
  /\ UNCHANGED <<ring, acct, life, waits, worker, accepted, done, owed>>

SubmitWait(c) ==
  /\ cpc[c] = "submit" /\ c \notin waitSpace
  /\ count = Cap /\ ~shutdown
  /\ waitSpace' = waitSpace \cup {c}
  /\ UNCHANGED <<ring, acct, life, waitWork, waitDone, worker, client, history>>

SubmitRefused(c) ==
  /\ cpc[c] = "submit" /\ c \notin waitSpace
  /\ shutdown
  /\ cpc' = [cpc EXCEPT ![c] = "idle"]
  /\ cjob' = [cjob EXCEPT ![c] = NoJob]
  /\ UNCHANGED <<ring, acct, life, waits, worker, history>>

SubmitAccepted(c) ==
  /\ cpc[c] = "submit" /\ c \notin waitSpace
  /\ count # Cap /\ ~shutdown
  /\ tasks' = [tasks EXCEPT ![tail] = cjob[c]]
  /\ tail' = RingNext(tail, Cap)
  /\ count' = count + 1
  /\ outstanding' = outstanding + 1
  /\ accepted' = accepted \cup {cjob[c]}
  /\ Signalled(waitWork, waitWork')
  /\ cpc' = [cpc EXCEPT ![c] = "idle"]
  /\ cjob' = [cjob EXCEPT ![c] = NoJob]
  /\ UNCHANGED <<head, completed, life, waitSpace, waitDone, worker, asked, done, owed>>
-----------------------------------------------------------------------------
(* xiom_workerpool_join *)

JoinCall(c) ==
  /\ Enters(c, "join")
  /\ owed' = [owed EXCEPT ![c] = accepted]
  /\ UNCHANGED <<ring, acct, life, waits, worker, cjob, asked, accepted, done>>

JoinWait(c) ==
  /\ cpc[c] = "join" /\ c \notin waitDone
  /\ outstanding > 0
  /\ waitDone' = waitDone \cup {c}
  /\ UNCHANGED <<ring, acct, life, waitWork, waitSpace, worker, client, history>>

JoinReturn(c) ==
  /\ cpc[c] = "join" /\ c \notin waitDone
  /\ outstanding <= 0
  /\ cpc' = [cpc EXCEPT ![c] = "idle"]
  /\ UNCHANGED <<ring, acct, life, waits, worker, cjob, history>>
-----------------------------------------------------------------------------
(* xiom_workerpool_shutdown and xiom_workerpool_destroy *)

ShutdownCall(c) ==
  /\ Enters(c, "shutdown")
  /\ Exclusive => \A d \in Clients : ~Closing(d)
  /\ UNCHANGED <<ring, acct, life, waits, worker, cjob, history>>

DestroyCall(c) ==
  /\ c \in Destroyers
  /\ Enters(c, "destroy")
  /\ Exclusive => \A d \in Clients : cpc[d] = "idle"
  /\ UNCHANGED <<ring, acct, life, waits, worker, cjob, history>>

\* Where a thread goes when its shutdown is over.
AfterShutdown(c) == IF cpc[c] \in {"shutdown", "reap"} THEN "idle" ELSE "free"

\* Close the pool and wake every worker and blocked submitter.  The first
\* caller goes on to join the threads, a later one is through.
ShutdownLocked(c) ==
  /\ cpc[c] \in {"shutdown", "destroy"}
  /\ shutdown' = TRUE
  /\ waitWork' = IF shutdown THEN waitWork ELSE {}
  /\ waitSpace' = IF shutdown THEN waitSpace ELSE {}
  /\ joined' = TRUE
  /\ cpc' = [cpc EXCEPT ![c] =
       IF joined THEN AfterShutdown(c)
       ELSE IF cpc[c] = "shutdown" THEN "reap" ELSE "reapfree"]
  /\ UNCHANGED <<ring, acct, freed, waitDone, worker, cjob, history>>

\* xiom_thread_join on every thread of the fleet returned.
Reap(c) ==
  /\ cpc[c] \in {"reap", "reapfree"}
  /\ \A w \in Fleet : wpc[w] = "exited"
  /\ cpc' = [cpc EXCEPT ![c] = AfterShutdown(c)]
  /\ UNCHANGED <<ring, acct, life, waits, worker, cjob, history>>

\* The mutex, the condition variables and the memory go away.
Free(c) ==
  /\ cpc[c] = "free"
  /\ freed' = TRUE
  /\ cpc' = [cpc EXCEPT ![c] = "idle"]
  /\ UNCHANGED <<ring, acct, shutdown, joined, waits, worker, cjob, history>>
-----------------------------------------------------------------------------
\* POSIX and Win32 let a condition wait return without a signal.
SpuriousWakeup ==
  /\ \/ /\ \E w \in waitWork : waitWork' = waitWork \ {w}
        /\ UNCHANGED <<waitSpace, waitDone>>
     \/ /\ \E c \in waitSpace : waitSpace' = waitSpace \ {c}
        /\ UNCHANGED <<waitWork, waitDone>>
     \/ /\ \E c \in waitDone : waitDone' = waitDone \ {c}
        /\ UNCHANGED <<waitWork, waitSpace>>
  /\ UNCHANGED <<ring, acct, life, worker, client, history>>

WorkerStep(w) ==
  WorkerWait(w) \/ WorkerExit(w) \/ WorkerTake(w) \/ WorkerRun(w) \/ WorkerReport(w)

\* The steps of a call that is under way.
ClientStep(c) ==
  \/ SubmitWait(c) \/ SubmitRefused(c) \/ SubmitAccepted(c)
  \/ JoinWait(c) \/ JoinReturn(c)
  \/ ShutdownLocked(c) \/ Reap(c) \/ Free(c)

ClientCall(c) ==
  \/ \E j \in Jobs : SubmitCall(c, j)
  \/ JoinCall(c) \/ ShutdownCall(c) \/ DestroyCall(c)

Next ==
  \/ \E w \in Workers : WorkerStep(w)
  \/ \E c \in Clients : ClientStep(c) \/ ClientCall(c)
  \/ SpuriousWakeup

Spec == Init /\ [][Next]_vars

\* Threads that can go on are scheduled: the OS runs every runnable thread
\* and hands over a free mutex, and jobs terminate (the pool's contract).
Fairness ==
  /\ \A w \in Workers : WF_vars(WorkerStep(w))
  /\ \A c \in Clients : WF_vars(ClientStep(c))

FairSpec == Spec /\ Fairness
-----------------------------------------------------------------------------
(* Properties *)

TypeOK ==
  /\ tasks \in [Slots -> Jobs \cup {NoJob}]
  /\ head \in Slots /\ tail \in Slots /\ count \in 0 .. Cap
  /\ outstanding \in Int /\ completed \in Int
  /\ shutdown \in BOOLEAN /\ joined \in BOOLEAN /\ freed \in BOOLEAN
  /\ waitWork \subseteq Workers
  /\ waitSpace \subseteq Clients /\ waitDone \subseteq Clients
  /\ wpc \in [Workers -> {"off", "loop", "run", "report", "exited"}]
  /\ wjob \in [Workers -> Jobs \cup {NoJob}]
  /\ cpc \in [Clients -> {"idle", "submit", "join", "shutdown", "destroy",
                           "reap", "reapfree", "free"}]
  /\ cjob \in [Clients -> Jobs \cup {NoJob}]
  /\ asked \subseteq Jobs /\ accepted \subseteq Jobs /\ done \subseteq Jobs
  /\ owed \in [Clients -> SUBSET Jobs]

\* Once the last worker has ended no accepted job is left behind, although
\* submitters race with the shutdown.
ShutdownDrains ==
  (\A w \in Fleet : wpc[w] = "exited") => accepted = done

\* The memory goes only when no thread can touch it any more.
NoUseAfterFree ==
  freed => /\ \A w \in Fleet : wpc[w] = "exited"
           /\ \A c \in Clients : cpc[c] = "idle"

\* "join is a real completion point": when join returns, every job accepted
\* before the call has run.
JoinIsCompletionPoint ==
  [][\A c \in Clients :
       cpc[c] = "join" /\ cpc'[c] = "idle" => owed[c] \subseteq done]_vars

\* "shutdown wakes every worker and joins the OS threads": whoever returns
\* from shutdown finds every worker ended.
ShutdownJoinsTheThreads ==
  [][\A c \in Clients :
       cpc[c] \in {"shutdown", "reap"} /\ cpc'[c] = "idle"
         => \A w \in Fleet : wpc[w] = "exited"]_vars

\* The threads end before the call that closes the pool returns, and before the
\* memory they use is freed.
TeardownIsOrdered == []NoUseAfterFree /\ ShutdownJoinsTheThreads

\* No wakeup is lost between submit and the workers: a job that was accepted
\* is run in the end.
AcceptedJobsRun == \A j \in Jobs : j \in accepted ~> j \in done

\* Nobody stays blocked on p->space, on p->done or in a thread join: every
\* call comes back, whatever the other clients do.
CallsReturn == \A c \in Clients : cpc[c] # "idle" ~> cpc[c] = "idle"

\* Whatever the threads do to each other, the pool gets on with its work.
PoolMakesProgress == AcceptedJobsRun /\ CallsReturn

\* What a client may rely on is a bounded FIFO queue of jobs that run once.
Queue == INSTANCE JobQueue WITH
  Bound <- Cap, Hands <- Workers,
  queue <- RingContents(tasks, head, count, Cap),
  hand <- [w \in Workers |-> IF wpc[w] = "run" THEN wjob[w] ELSE NoJob],
  finished <- done, open <- ~shutdown

ImplementsJobQueue == Queue!Spec
-----------------------------------------------------------------------------
(* The inductive invariant behind the theorems of WorkerPool_proofs. *)

\* The ring holds count jobs between head and tail.
RingHoldsJobs ==
  /\ tail = RingSlot(head, count, Cap)
  /\ \A k \in 0 .. count - 1 : tasks[RingSlot(head, k, Cap)] \in Jobs

\* A thread between two critical sections holds a real job.
HandsHoldJobs ==
  /\ \A w \in Busy : wjob[w] \in Jobs
  /\ \A c \in Clients : cpc[c] = "submit" => cjob[c] \in Jobs

\* No accepted job is lost and none is invented.
AcceptedAreSomewhere == accepted = Queued \cup Running \cup done

\* outstanding, which join tests, never runs behind the work that is left.
OutstandingCountsWork == outstanding = count + Cardinality(Busy)

\* A worker that has ended found the pool closed and empty, and a closed pool
\* stays empty.
ExitedMeansDrained ==
  /\ Fleet # {}
  /\ \A w \in Workers : wpc[w] = "exited" => shutdown /\ count = 0

OwedWereAccepted == \A c \in Clients : owed[c] \subseteq accepted

PoolInv ==
  /\ TypeOK
  /\ RingHoldsJobs /\ HandsHoldJobs
  /\ AcceptedAreSomewhere /\ OutstandingCountsWork
  /\ ExitedMeansDrained /\ OwedWereAccepted

\* One client closes the pool at a time, who destroys it is alone in it, and
\* once the first closer is past its thread joins the fleet has ended.
ClosingIsExclusive ==
  /\ \A c, d \in Clients : Closing(c) /\ Closing(d) => d = c
  /\ \A c, d \in Clients : Destroying(c) /\ cpc[d] # "idle" => d = c
  /\ \A c \in Clients : cpc[c] \in {"reap", "reapfree", "free"} => joined
  /\ joined /\ (\A c \in Clients : cpc[c] \notin {"reap", "reapfree"})
       => \A w \in Fleet : wpc[w] = "exited"
  /\ freed => joined /\ \A c \in Clients : cpc[c] = "idle"
=============================================================================
