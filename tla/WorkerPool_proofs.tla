-------------------------- MODULE WorkerPool_proofs --------------------------
(***************************************************************************)
(* Theorems about WorkerPool, for every fleet, every set of clients and    *)
(* every capacity.                                                         *)
(***************************************************************************)
EXTENDS WorkerPool, SequenceLemmas, FiniteSetTheorems, TLAPS

-----------------------------------------------------------------------------
(* Facts about the ring of a pool that satisfies its invariant.            *)

\* The front slot is one of the queued ones, the tail slot is not.
LEMMA QueuedFacts ==
  ASSUME TypeOK, RingHoldsJobs
  PROVE  /\ Queued \subseteq Jobs
         /\ count > 0 => tasks[head] \in Jobs
         /\ \A k \in 0 .. count - 1 : count # Cap => RingSlot(head, k, Cap) # tail
  <1> USE CapAssumption DEF Slots, TypeOK, RingHoldsJobs
  <1>1. \A k \in 0 .. Cap : RingSlot(head, k, Cap) =
           IF head + k < Cap THEN head + k ELSE head + k - Cap
    BY RingSlotCases
  <1>2. count > 0 => RingSlot(head, 0, Cap) = head
    BY <1>1
  <1>3. QED
    BY <1>1, <1>2 DEF Queued

\* Every step keeps every variable in its range.
LEMMA TypeStep ==
  ASSUME TypeOK, RingHoldsJobs, HandsHoldJobs, [Next]_vars
  PROVE  TypeOK'
  <1> USE CapAssumption DEF ring, acct, life, waits, worker, client, history, Slots
  <1>0. count > 0 => tasks[head] \in Jobs
    BY QueuedFacts
  <1>n. RingNext(head, Cap) \in Slots /\ RingNext(tail, Cap) \in Slots
    BY RingNextCases DEF TypeOK
  <1>1. ASSUME NEW w \in Workers, WorkerStep(w)
        PROVE  TypeOK'
    <2>1. CASE WorkerWait(w)
      BY <2>1 DEF TypeOK, WorkerWait
    <2>2. CASE WorkerExit(w)
      BY <2>2 DEF TypeOK, WorkerExit
    <2>3. CASE WorkerTake(w)
      BY <2>3, <1>0, <1>n DEF TypeOK, WorkerTake, Signalled
    <2>4. CASE WorkerRun(w)
      BY <2>4 DEF TypeOK, WorkerRun, HandsHoldJobs, Busy
    <2>5. CASE WorkerReport(w)
      BY <2>5 DEF TypeOK, WorkerReport
    <2>6. QED
      BY <1>1, <2>1, <2>2, <2>3, <2>4, <2>5 DEF WorkerStep
  <1>2. ASSUME NEW c \in Clients, ClientStep(c)
        PROVE  TypeOK'
    <2>1. CASE SubmitWait(c)
      BY <2>1 DEF TypeOK, SubmitWait
    <2>2. CASE SubmitRefused(c)
      BY <2>2 DEF TypeOK, SubmitRefused
    <2>3. CASE SubmitAccepted(c)
      BY <2>3, <1>n DEF TypeOK, SubmitAccepted, Signalled, HandsHoldJobs
    <2>4. CASE JoinWait(c)
      BY <2>4 DEF TypeOK, JoinWait
    <2>5. CASE JoinReturn(c)
      BY <2>5 DEF TypeOK, JoinReturn
    <2>6. CASE ShutdownLocked(c)
      BY <2>6 DEF TypeOK, ShutdownLocked, AfterShutdown
    <2>7. CASE Reap(c)
      BY <2>7 DEF TypeOK, Reap, AfterShutdown
    <2>8. CASE Free(c)
      BY <2>8 DEF TypeOK, Free
    <2>9. QED
      BY <1>2, <2>1, <2>2, <2>3, <2>4, <2>5, <2>6, <2>7, <2>8 DEF ClientStep
  <1>3. ASSUME NEW c \in Clients, ClientCall(c)
        PROVE  TypeOK'
    <2>1. ASSUME NEW j \in Jobs, SubmitCall(c, j)
          PROVE  TypeOK'
      BY <2>1 DEF TypeOK, SubmitCall, Enters
    <2>2. CASE JoinCall(c)
      BY <2>2 DEF TypeOK, JoinCall, Enters
    <2>3. CASE ShutdownCall(c)
      BY <2>3 DEF TypeOK, ShutdownCall, Enters
    <2>4. CASE DestroyCall(c)
      BY <2>4 DEF TypeOK, DestroyCall, Enters
    <2>5. QED
      BY <1>3, <2>1, <2>2, <2>3, <2>4 DEF ClientCall
  <1>4. CASE SpuriousWakeup
    BY <1>4 DEF TypeOK, SpuriousWakeup
  <1>5. CASE UNCHANGED vars
    BY <1>5 DEF TypeOK, vars
  <1>6. QED
    BY <1>1, <1>2, <1>3, <1>4, <1>5 DEF Next
-----------------------------------------------------------------------------
(* The inductive step, one action at a time.                               *)

\* Who takes the front job owns it, and the others keep their places.
LEMMA TakeStep ==
  ASSUME PoolInv, NEW w \in Workers, WorkerTake(w), TypeOK'
  PROVE  PoolInv'
  <1> USE CapAssumption DEF Slots, acct, life, client, history
  <1>1. /\ head' = RingNext(head, Cap) /\ count' = count - 1
        /\ tasks' = tasks /\ tail' = tail /\ count \in 1 .. Cap /\ head \in Slots
    BY DEF PoolInv, TypeOK, WorkerTake
  <1>2. /\ wpc[w] = "loop" /\ wpc' = [wpc EXCEPT ![w] = "run"]
        /\ wjob' = [wjob EXCEPT ![w] = tasks[head]]
        /\ wpc \in [Workers -> {"off", "loop", "run", "report", "exited"}]
        /\ wjob \in [Workers -> Jobs \cup {NoJob}]
    BY DEF PoolInv, TypeOK, WorkerTake
  <1>3. /\ RingSlot(head, 0, Cap) = head
        /\ \A k \in 0 .. count - 1 :
             RingSlot(head', k, Cap) = RingSlot(head, k + 1, Cap)
    BY <1>1, RingAfterTake
  <1>4. tasks[head] \in Jobs
    BY <1>1, <1>3 DEF PoolInv, RingHoldsJobs
  <1>5. RingHoldsJobs'
    BY <1>1, <1>3 DEF PoolInv, RingHoldsJobs
  <1>6. Busy' = Busy \cup {w} /\ w \notin Busy
    BY <1>2 DEF Busy
  <1>7. HandsHoldJobs'
    BY <1>2, <1>4, <1>6 DEF PoolInv, HandsHoldJobs, WorkerTake, TypeOK
  <1>8. AcceptedAreSomewhere'
    <2>1. Running' = Running \cup {tasks[head]}
      BY <1>2 DEF Running
    <2>2. Queued = Queued' \cup {tasks[head]}
      <3>1. ASSUME NEW k \in 0 .. count - 1
            PROVE  tasks[RingSlot(head, k, Cap)] \in Queued' \cup {tasks[head]}
        <4>1. CASE k = 0
          BY <4>1, <1>3
        <4>2. CASE k # 0
          <5>1. k - 1 \in 0 .. count' - 1 /\ k - 1 \in 0 .. count - 1
            BY <4>2, <1>1
          <5>2. RingSlot(head', k - 1, Cap) = RingSlot(head, k, Cap)
            BY <5>1, <1>1, <1>3
          <5>3. QED
            BY <5>1, <5>2, <1>1 DEF Queued
        <4>3. QED
          BY <4>1, <4>2
      <3>2. tasks[head] \in Queued
        BY <1>1, <1>3 DEF Queued
      <3>3. ASSUME NEW k \in 0 .. count' - 1
            PROVE  tasks'[RingSlot(head', k, Cap)] \in Queued
        <4>1. k \in 0 .. count - 1 /\ k + 1 \in 0 .. count - 1
          BY <1>1
        <4>2. QED
          BY <4>1, <1>1, <1>3 DEF Queued
      <3>4. QED
        BY <3>1, <3>2, <3>3 DEF Queued
    <2>3. accepted' = accepted /\ done' = done
      BY DEF WorkerTake
    <2>4. QED
      BY <2>1, <2>2, <2>3 DEF PoolInv, AcceptedAreSomewhere
  <1>9. OutstandingCountsWork'
    <2>1. IsFiniteSet(Busy)
      BY WorkersAssumption, FS_Subset DEF Busy
    <2>2. Cardinality(Busy') = Cardinality(Busy) + 1 /\ Cardinality(Busy) \in Nat
      BY <2>1, <1>6, FS_AddElement, FS_CardinalityType
    <2>3. outstanding' = outstanding
      BY DEF WorkerTake
    <2>4. QED
      BY <2>2, <2>3, <1>1 DEF PoolInv, OutstandingCountsWork
  <1>10. ExitedMeansDrained'
    BY <1>1, <1>2 DEF PoolInv, ExitedMeansDrained, Fleet, WorkerTake
  <1>11. OwedWereAccepted'
    BY DEF PoolInv, OwedWereAccepted, WorkerTake
  <1>12. QED
    BY <1>5, <1>7, <1>8, <1>9, <1>10, <1>11 DEF PoolInv

\* A job moves from the worker's hands to the done ones.
LEMMA RunStep ==
  ASSUME PoolInv, NEW w \in Workers, WorkerRun(w), TypeOK'
  PROVE  PoolInv'
  <1> USE DEF ring, acct, life, waits, client, history
  <1>1. /\ wpc[w] = "run" /\ wpc' = [wpc EXCEPT ![w] = "report"] /\ wjob' = wjob
        /\ wpc \in [Workers -> {"off", "loop", "run", "report", "exited"}]
    BY DEF PoolInv, TypeOK, WorkerRun
  <1>2. Busy' = Busy
    BY <1>1 DEF Busy
  <1>3. RingHoldsJobs'
    BY DEF PoolInv, RingHoldsJobs, WorkerRun
  <1>4. HandsHoldJobs'
    BY <1>2, <1>1 DEF PoolInv, HandsHoldJobs, WorkerRun
  <1>5. AcceptedAreSomewhere'
    <2>1. Running \cup done = Running' \cup done'
      BY <1>1 DEF Running, WorkerRun
    <2>2. Queued' = Queued /\ accepted' = accepted
      BY DEF Queued, WorkerRun
    <2>3. QED
      BY <2>1, <2>2 DEF PoolInv, AcceptedAreSomewhere
  <1>6. OutstandingCountsWork'
    BY <1>2 DEF PoolInv, OutstandingCountsWork, WorkerRun
  <1>7. ExitedMeansDrained'
    BY <1>1 DEF PoolInv, ExitedMeansDrained, Fleet, WorkerRun
  <1>8. OwedWereAccepted'
    BY DEF PoolInv, OwedWereAccepted, WorkerRun
  <1>9. QED
    BY <1>3, <1>4, <1>5, <1>6, <1>7, <1>8 DEF PoolInv

\* A worker that has reported its job is no longer busy.
LEMMA ReportStep ==
  ASSUME PoolInv, NEW w \in Workers, WorkerReport(w), TypeOK'
  PROVE  PoolInv'
  <1> USE DEF ring, acct, life, waits, client, history
  <1>1. /\ wpc[w] = "report" /\ wpc' = [wpc EXCEPT ![w] = "loop"]
        /\ wjob' = [wjob EXCEPT ![w] = NoJob]
        /\ wpc \in [Workers -> {"off", "loop", "run", "report", "exited"}]
        /\ wjob \in [Workers -> Jobs \cup {NoJob}]
    BY DEF PoolInv, TypeOK, WorkerReport
  <1>2. Busy' = Busy \ {w} /\ w \in Busy
    BY <1>1 DEF Busy
  <1>3. RingHoldsJobs'
    BY DEF PoolInv, RingHoldsJobs, WorkerReport
  <1>4. HandsHoldJobs'
    BY <1>2, <1>1 DEF PoolInv, HandsHoldJobs, WorkerReport, Busy
  <1>5. AcceptedAreSomewhere'
    <2>1. Running' = Running
      BY <1>1 DEF Running
    <2>2. Queued' = Queued /\ accepted' = accepted /\ done' = done
      BY DEF Queued, WorkerReport
    <2>3. QED
      BY <2>1, <2>2 DEF PoolInv, AcceptedAreSomewhere
  <1>6. OutstandingCountsWork'
    <2>1. IsFiniteSet(Busy)
      BY WorkersAssumption, FS_Subset DEF Busy
    <2>2. Cardinality(Busy') = Cardinality(Busy) - 1 /\ Cardinality(Busy) \in Nat
      BY <2>1, <1>2, FS_RemoveElement, FS_CardinalityType
    <2>3. outstanding' = outstanding - 1 /\ count' = count /\ count \in Int
      BY CapAssumption DEF WorkerReport, PoolInv, TypeOK
    <2>4. QED
      BY <2>2, <2>3 DEF PoolInv, OutstandingCountsWork
  <1>7. ExitedMeansDrained'
    BY <1>1 DEF PoolInv, ExitedMeansDrained, Fleet, WorkerReport
  <1>8. OwedWereAccepted'
    BY DEF PoolInv, OwedWereAccepted, WorkerReport
  <1>9. QED
    BY <1>3, <1>4, <1>5, <1>6, <1>7, <1>8 DEF PoolInv

\* A new job takes the free slot behind the others and is counted.
LEMMA AcceptStep ==
  ASSUME PoolInv, NEW c \in Clients, SubmitAccepted(c), TypeOK'
  PROVE  PoolInv'
  <1> USE CapAssumption DEF Slots, life, worker
  <1>1. /\ head' = head /\ count' = count + 1 /\ tail' = RingNext(tail, Cap)
        /\ tasks' = [tasks EXCEPT ![tail] = cjob[c]]
        /\ tasks \in [Slots -> Jobs \cup {NoJob}]
        /\ head \in Slots /\ count \in 0 .. Cap - 1 /\ tail \in Slots
        /\ tail = RingSlot(head, count, Cap)
    BY DEF PoolInv, TypeOK, SubmitAccepted, RingHoldsJobs
  <1>2. cjob[c] \in Jobs /\ cpc[c] = "submit" /\ ~shutdown
    BY DEF PoolInv, HandsHoldJobs, SubmitAccepted
  <1>3. /\ tail' = RingSlot(head, count', Cap)
        /\ \A k \in 0 .. count - 1 : RingSlot(head, k, Cap) # tail
    BY <1>1, RingAfterAdd
  <1>4. \A k \in 0 .. count - 1 : RingSlot(head, k, Cap) \in Slots
    <2>1. \A k \in 0 .. Cap : RingSlot(head, k, Cap)
             = IF head + k < Cap THEN head + k ELSE head + k - Cap
      BY <1>1, RingSlotCases
    <2>2. QED
      BY <2>1, <1>1
  <1>5. /\ tasks'[tail] = cjob[c]
        /\ \A k \in 0 .. count - 1 :
             tasks'[RingSlot(head, k, Cap)] = tasks[RingSlot(head, k, Cap)]
    BY <1>1, <1>3, <1>4
  <1>6. RingHoldsJobs'
    BY <1>1, <1>2, <1>3, <1>5 DEF PoolInv, RingHoldsJobs
  <1>7. Busy' = Busy /\ Running' = Running
    BY DEF Busy, Running, SubmitAccepted
  <1>8. HandsHoldJobs'
    BY <1>7 DEF PoolInv, HandsHoldJobs, SubmitAccepted, TypeOK
  <1>9. accepted \subseteq accepted' /\ accepted' = accepted \cup {cjob[c]} /\ done' = done
    BY DEF SubmitAccepted
  <1>10. AcceptedAreSomewhere'
    <2>1. Queued' = Queued \cup {cjob[c]}
      <3>1. 0 .. count' - 1 = (0 .. count - 1) \cup {count}
        BY <1>1
      <3>2. QED
        BY <3>1, <1>1, <1>5 DEF Queued
    <2>2. QED
      BY <2>1, <1>7, <1>9 DEF PoolInv, AcceptedAreSomewhere
  <1>11. OutstandingCountsWork'
    <2>1. Cardinality(Busy) \in Nat
      BY WorkersAssumption, FS_Subset, FS_CardinalityType DEF Busy
    <2>2. QED
      BY <2>1, <1>7, <1>1 DEF PoolInv, OutstandingCountsWork, SubmitAccepted
  <1>12. ExitedMeansDrained'
    BY <1>2 DEF PoolInv, ExitedMeansDrained, Fleet, SubmitAccepted
  <1>13. OwedWereAccepted'
    BY <1>9 DEF PoolInv, OwedWereAccepted, SubmitAccepted
  <1>14. QED
    BY <1>6, <1>8, <1>10, <1>11, <1>12, <1>13 DEF PoolInv

\* A step that leaves the ring, the accounting and the workers alone disturbs
\* the invariant only through what a client holds, what it is owed, and
\* whether the pool is closed.
LEMMA CallStep ==
  ASSUME PoolInv, TypeOK', UNCHANGED <<ring, acct, worker, accepted, done>>,
         shutdown => shutdown',
         \A c \in Clients : cpc'[c] = "submit" => cjob'[c] \in Jobs,
         \A c \in Clients : owed'[c] \subseteq accepted
  PROVE  PoolInv'
  <1> USE DEF ring, acct, worker
  <1>1. Busy' = Busy /\ Running' = Running /\ Fleet' = Fleet /\ Queued' = Queued
    BY DEF Busy, Running, Fleet, Queued
  <1>2. RingHoldsJobs' /\ HandsHoldJobs'
    BY <1>1 DEF PoolInv, RingHoldsJobs, HandsHoldJobs
  <1>3. AcceptedAreSomewhere' /\ OutstandingCountsWork'
    BY <1>1 DEF PoolInv, AcceptedAreSomewhere, OutstandingCountsWork
  <1>4. ExitedMeansDrained' /\ OwedWereAccepted'
    BY <1>1 DEF PoolInv, ExitedMeansDrained, OwedWereAccepted
  <1>5. QED
    BY <1>2, <1>3, <1>4 DEF PoolInv

\* A worker that finds nothing to do sleeps, or ends once the pool is closed.
LEMMA IdleStep ==
  ASSUME PoolInv, NEW w \in Workers, WorkerWait(w) \/ WorkerExit(w), TypeOK'
  PROVE  PoolInv'
  <1> USE DEF ring, acct, life, worker, client, history
  <1>1. CASE WorkerWait(w)
    <2>1. UNCHANGED <<ring, acct, worker, client, accepted, done, owed, shutdown>>
      BY <1>1 DEF WorkerWait
    <2>2. QED
      BY <2>1, CallStep DEF PoolInv, HandsHoldJobs, OwedWereAccepted
  <1>2. CASE WorkerExit(w)
    <2>1. /\ wpc[w] = "loop" /\ wpc' = [wpc EXCEPT ![w] = "exited"] /\ wjob' = wjob
          /\ count = 0 /\ shutdown
          /\ wpc \in [Workers -> {"off", "loop", "run", "report", "exited"}]
      BY <1>2 DEF WorkerExit, PoolInv, TypeOK
    <2>2. Busy' = Busy /\ Running' = Running /\ Fleet' = Fleet /\ Queued' = Queued
      BY <1>2, <2>1 DEF Busy, Running, Fleet, Queued, WorkerExit
    <2>3. RingHoldsJobs' /\ HandsHoldJobs'
      BY <1>2, <2>2 DEF PoolInv, RingHoldsJobs, HandsHoldJobs, WorkerExit
    <2>4. AcceptedAreSomewhere' /\ OutstandingCountsWork'
      BY <1>2, <2>2 DEF PoolInv, AcceptedAreSomewhere, OutstandingCountsWork, WorkerExit
    <2>5. ExitedMeansDrained' /\ OwedWereAccepted'
      BY <1>2, <2>1, <2>2 DEF PoolInv, ExitedMeansDrained, OwedWereAccepted, WorkerExit
    <2>6. QED
      BY <2>3, <2>4, <2>5 DEF PoolInv
  <1>3. QED
    BY <1>1, <1>2
-----------------------------------------------------------------------------
(* The theorems.                                                           *)

\* A new pool keeps the invariant.
LEMMA InitEstablishes == Init => PoolInv
  <1> USE CapAssumption, WorkersAssumption DEF Slots
  <1> SUFFICES ASSUME Init PROVE PoolInv
    OBVIOUS
  <1>1. TypeOK
    <2>1. wpc \in [Workers -> {"off", "loop", "run", "report", "exited"}]
      BY DEF Init
    <2>2. /\ tasks \in [Slots -> Jobs \cup {NoJob}]
          /\ wjob \in [Workers -> Jobs \cup {NoJob}]
          /\ cjob \in [Clients -> Jobs \cup {NoJob}]
          /\ owed \in [Clients -> SUBSET Jobs]
      BY DEF Init
    <2>3. cpc \in [Clients -> {"idle", "submit", "join", "shutdown", "destroy",
                              "reap", "reapfree", "free"}]
      BY DEF Init
    <2>4. /\ head = 0 /\ tail = 0 /\ count = 0 /\ outstanding = 0 /\ completed = 0
          /\ shutdown = FALSE /\ joined = FALSE /\ freed = FALSE
          /\ waitWork = {} /\ waitSpace = {} /\ waitDone = {}
          /\ asked = {} /\ accepted = {} /\ done = {}
      BY DEF Init
    <2>5. /\ head \in Slots /\ tail \in Slots /\ count \in 0 .. Cap
          /\ outstanding \in Int /\ completed \in Int
      BY <2>4
    <2>6. /\ shutdown \in BOOLEAN /\ joined \in BOOLEAN /\ freed \in BOOLEAN
          /\ waitWork \subseteq Workers
          /\ waitSpace \subseteq Clients /\ waitDone \subseteq Clients
          /\ asked \subseteq Jobs /\ accepted \subseteq Jobs /\ done \subseteq Jobs
      BY <2>4
    <2> HIDE DEF Slots
    <2>7. QED
      BY <2>1, <2>2, <2>3, <2>5, <2>6, Zenon DEF TypeOK
  <1>2. RingSlot(head, 0, Cap) = 0
    BY RingSlotCases DEF Init
  <1>3. RingHoldsJobs
    BY <1>2 DEF Init, RingHoldsJobs
  <1>4. Busy = {} /\ Running = {} /\ Queued = {}
    BY DEF Init, Busy, Running, Queued
  <1>5. HandsHoldJobs /\ AcceptedAreSomewhere /\ OwedWereAccepted
    BY <1>4 DEF Init, HandsHoldJobs, AcceptedAreSomewhere, OwedWereAccepted
  <1>6. OutstandingCountsWork
    BY <1>4, FS_EmptySet DEF Init, OutstandingCountsWork
  <1>7. ExitedMeansDrained
    BY DEF Init, ExitedMeansDrained, Fleet
  <1>8. QED
    BY <1>1, <1>3, <1>5, <1>6, <1>7 DEF PoolInv

\* Every step of a client or a worker keeps the invariant of the pool.
LEMMA StepPreserves == PoolInv /\ [Next]_vars => PoolInv'
  <1> SUFFICES ASSUME PoolInv, [Next]_vars PROVE PoolInv'
    OBVIOUS
  <1> USE DEF ring, acct, life, waits, worker, client, history
  <1>t. TypeOK'
    BY TypeStep DEF PoolInv
  <1>1. ASSUME NEW w \in Workers, WorkerStep(w)
        PROVE  PoolInv'
    BY <1>1, <1>t, IdleStep, TakeStep, RunStep, ReportStep DEF WorkerStep
  <1>h. /\ \A c \in Clients : cpc[c] = "submit" => cjob[c] \in Jobs
        /\ \A c \in Clients : owed[c] \subseteq accepted
        /\ cpc \in [Clients -> {"idle", "submit", "join", "shutdown", "destroy",
                                "reap", "reapfree", "free"}]
        /\ cjob \in [Clients -> Jobs \cup {NoJob}]
        /\ owed \in [Clients -> SUBSET Jobs]
    BY DEF PoolInv, HandsHoldJobs, OwedWereAccepted, TypeOK
  <1>2. ASSUME NEW c \in Clients, ClientStep(c)
        PROVE  PoolInv'
    <2>1. CASE SubmitAccepted(c)
      BY <2>1, <1>t, AcceptStep
    <2>2. CASE SubmitWait(c) \/ JoinWait(c)
      BY <2>2, <1>t, <1>h, CallStep DEF SubmitWait, JoinWait
    <2>3. CASE SubmitRefused(c)
      BY <2>3, <1>t, <1>h, CallStep DEF SubmitRefused
    <2>4. CASE JoinReturn(c)
      BY <2>4, <1>t, <1>h, CallStep DEF JoinReturn
    <2>5. CASE ShutdownLocked(c)
      BY <2>5, <1>t, <1>h, CallStep DEF ShutdownLocked, AfterShutdown
    <2>6. CASE Reap(c)
      BY <2>6, <1>t, <1>h, CallStep DEF Reap, AfterShutdown
    <2>7. CASE Free(c)
      BY <2>7, <1>t, <1>h, CallStep DEF Free
    <2>8. QED
      BY <1>2, <2>1, <2>2, <2>3, <2>4, <2>5, <2>6, <2>7 DEF ClientStep
  <1>3. ASSUME NEW c \in Clients, ClientCall(c)
        PROVE  PoolInv'
    <2>1. ASSUME NEW j \in Jobs, SubmitCall(c, j)
          PROVE  PoolInv'
      BY <2>1, <1>t, <1>h, CallStep DEF SubmitCall, Enters
    <2>2. CASE JoinCall(c)
      BY <2>2, <1>t, <1>h, CallStep DEF JoinCall, Enters
    <2>3. CASE ShutdownCall(c)
      BY <2>3, <1>t, <1>h, CallStep DEF ShutdownCall, Enters
    <2>4. CASE DestroyCall(c)
      BY <2>4, <1>t, <1>h, CallStep DEF DestroyCall, Enters
    <2>5. QED
      BY <1>3, <2>1, <2>2, <2>3, <2>4 DEF ClientCall
  <1>4. CASE SpuriousWakeup
    BY <1>4, <1>t, <1>h, CallStep DEF SpuriousWakeup
  <1>5. CASE UNCHANGED vars
    BY <1>5, <1>t, <1>h, CallStep DEF vars
  <1>6. QED
    BY <1>1, <1>2, <1>3, <1>4, <1>5 DEF Next

\* The pool keeps its invariant, whatever its clients do.
THEOREM PoolInvariant == Spec => []PoolInv
  <1>1. QED
    BY InitEstablishes, StepPreserves, PTL DEF Spec

\* Every variable stays in its range; in particular the indices of the ring
\* stay inside the array and count never passes cap.
THEOREM TypeCorrect == Spec => []TypeOK
  <1>1. PoolInv => TypeOK
    BY DEF PoolInv
  <1>2. QED
    BY <1>1, PoolInvariant, PTL

\* xiom_workerpool_join is a completion point: when it returns, every job
\* accepted before the call has run.
THEOREM JoinCompletes == Spec => JoinIsCompletionPoint
  <1>1. ASSUME PoolInv, [Next]_vars, NEW c \in Clients,
               cpc[c] = "join", cpc'[c] = "idle"
        PROVE  owed[c] \subseteq done
    <2>1. outstanding <= 0
      <3> USE DEF ring, acct, life, waits, worker, client, history
      <3>1. cpc \in [Clients -> {"idle", "submit", "join", "shutdown", "destroy",
                                "reap", "reapfree", "free"}]
        BY <1>1 DEF PoolInv, TypeOK
      <3>2. ASSUME NEW w \in Workers, WorkerStep(w) PROVE cpc' = cpc
        BY <3>2 DEF WorkerStep, WorkerWait, WorkerExit, WorkerTake, WorkerRun, WorkerReport
      <3>3. ASSUME NEW d \in Clients, ClientCall(d) PROVE d # c
        BY <3>3, <1>1 DEF ClientCall, SubmitCall, JoinCall, ShutdownCall, DestroyCall, Enters
      <3>4. ASSUME NEW d \in Clients, d # c, ClientStep(d) \/ ClientCall(d)
            PROVE  cpc'[c] = cpc[c]
        BY <3>1, <3>4 DEF ClientStep, ClientCall, SubmitWait, SubmitRefused,
          SubmitAccepted, JoinWait, JoinReturn, ShutdownLocked, Reap, Free,
          SubmitCall, JoinCall, ShutdownCall, DestroyCall, Enters
      <3>5. ClientStep(c)
        BY <1>1, <3>2, <3>3, <3>4 DEF Next, SpuriousWakeup, vars
      <3>6. JoinReturn(c)
        BY <1>1, <3>5 DEF ClientStep, SubmitWait, SubmitRefused,
          SubmitAccepted, JoinWait, ShutdownLocked, Reap, Free
      <3>7. QED
        BY <3>6 DEF JoinReturn
    <2>2. IsFiniteSet(Busy) /\ Cardinality(Busy) \in Nat
      BY WorkersAssumption, FS_Subset, FS_CardinalityType DEF Busy
    <2>3. count \in Nat /\ outstanding = count + Cardinality(Busy)
      BY <1>1, CapAssumption DEF PoolInv, TypeOK, OutstandingCountsWork
    <2>4. count = 0 /\ Cardinality(Busy) = 0
      BY <2>1, <2>2, <2>3
    <2>5. Busy = {}
      BY <2>2, <2>4, FS_EmptySet
    <2>6. Queued = {} /\ Running = {}
      BY <2>4, <2>5 DEF Queued, Running, Busy
    <2>7. QED
      BY <1>1, <2>6 DEF PoolInv, AcceptedAreSomewhere, OwedWereAccepted
  <1>2. PoolInv /\ [Next]_vars =>
          [\A c \in Clients :
             cpc[c] = "join" /\ cpc'[c] = "idle" => owed[c] \subseteq done]_vars
    BY <1>1
  <1>3. QED
    BY <1>2, PoolInvariant, PTL DEF Spec, JoinIsCompletionPoint

\* Shutdown loses no job: when the last worker has ended, all accepted jobs
\* have run.
THEOREM ShutdownLosesNothing == Spec => []ShutdownDrains
  <1>1. PoolInv => ShutdownDrains
    <2> SUFFICES ASSUME PoolInv, \A w \in Fleet : wpc[w] = "exited"
                 PROVE  accepted = done
      BY DEF ShutdownDrains
    <2>1. count = 0
      BY DEF PoolInv, ExitedMeansDrained, Fleet
    <2>2. Queued = {} /\ Running = {}
      BY <2>1 DEF Queued, Running, Fleet
    <2>3. QED
      BY <2>2 DEF PoolInv, AcceptedAreSomewhere
  <1>2. QED
    BY <1>1, PoolInvariant, PTL
-----------------------------------------------------------------------------
(* Memory safety, for the clients the pool is meant for.                   *)

\* Every step keeps who may be in which part of a shutdown.
LEMMA ClosingStep ==
  ASSUME Exclusive, PoolInv, ClosingIsExclusive, [Next]_vars
  PROVE  ClosingIsExclusive'
  <1> USE DEF ring, acct, life, waits, worker, client, history, Closing,
              Destroying, ClosingIsExclusive
  <1>t. /\ cpc \in [Clients -> {"idle", "submit", "join", "shutdown", "destroy",
                                "reap", "reapfree", "free"}]
        /\ wpc \in [Workers -> {"off", "loop", "run", "report", "exited"}]
    BY DEF PoolInv, TypeOK
  <1>1. ASSUME NEW w \in Workers, WorkerStep(w)
        PROVE  ClosingIsExclusive'
    <2>1. UNCHANGED <<cpc, joined, freed>>
      BY <1>1 DEF WorkerStep, WorkerWait, WorkerExit, WorkerTake, WorkerRun, WorkerReport
    <2>2. /\ Fleet' = Fleet
          /\ \A v \in Workers : wpc[v] = "exited" => wpc'[v] = "exited"
      BY <1>1, <1>t DEF Fleet, WorkerStep, WorkerWait, WorkerExit, WorkerTake,
        WorkerRun, WorkerReport
    <2>3. QED
      BY <2>1, <2>2 DEF Fleet
  <1>2. ASSUME NEW c \in Clients, ClientStep(c)
        PROVE  ClosingIsExclusive'
    <2>1. CASE SubmitWait(c) \/ SubmitRefused(c) \/ SubmitAccepted(c)
      BY <2>1, <1>t DEF Fleet, SubmitWait, SubmitRefused, SubmitAccepted
    <2>2. CASE JoinWait(c) \/ JoinReturn(c)
      BY <2>2, <1>t DEF Fleet, JoinWait, JoinReturn
    <2>3. CASE ShutdownLocked(c)
      BY <2>3, <1>t DEF Fleet, ShutdownLocked, AfterShutdown
    <2>4. CASE Reap(c)
      BY <2>4, <1>t DEF Fleet, Reap, AfterShutdown
    <2>5. CASE Free(c)
      BY <2>5, <1>t DEF Fleet, Free
    <2>6. QED
      BY <1>2, <2>1, <2>2, <2>3, <2>4, <2>5 DEF ClientStep
  <1>3. ASSUME NEW c \in Clients, ClientCall(c)
        PROVE  ClosingIsExclusive'
    <2>1. CASE JoinCall(c) \/ \E j \in Jobs : SubmitCall(c, j)
      BY <2>1, <1>t DEF Fleet, JoinCall, SubmitCall, Enters
    <2>2. CASE ShutdownCall(c) \/ DestroyCall(c)
      BY <2>2, <1>t DEF Fleet, ShutdownCall, DestroyCall, Enters
    <2>3. QED
      BY <1>3, <2>1, <2>2 DEF ClientCall
  <1>4. CASE SpuriousWakeup
    BY <1>4 DEF Fleet, SpuriousWakeup
  <1>5. CASE UNCHANGED vars
    BY <1>5 DEF Fleet, vars
  <1>6. QED
    BY <1>1, <1>2, <1>3, <1>4, <1>5 DEF Next

\* When threads close the pool one at a time and nobody else is inside during
\* xiom_workerpool_destroy, the memory goes only after the last worker has
\* ended and with no client inside, whoever submitted, joined or shut down
\* before.
THEOREM FreedIsUnused ==
  ASSUME Exclusive
  PROVE  Spec => []NoUseAfterFree
  <1>1. Init => ClosingIsExclusive
    BY DEF Init, ClosingIsExclusive, Closing, Destroying
  <1>2. PoolInv /\ ClosingIsExclusive /\ [Next]_vars => ClosingIsExclusive'
    BY ClosingStep
  <1>3. ClosingIsExclusive => NoUseAfterFree
    BY DEF ClosingIsExclusive, NoUseAfterFree
  <1>4. QED
    BY <1>1, <1>2, <1>3, PoolInvariant, PTL DEF Spec

\* For the same clients, whoever comes back from xiom_workerpool_shutdown finds every
\* worker ended, and the memory goes after that.
THEOREM TeardownComesInOrder ==
  ASSUME Exclusive
  PROVE  Spec => TeardownIsOrdered
  <1>1. Init => ClosingIsExclusive
    BY DEF Init, ClosingIsExclusive, Closing, Destroying
  <1>2. PoolInv /\ ClosingIsExclusive /\ [Next]_vars => ClosingIsExclusive'
    BY ClosingStep
  <1>3. PoolInv /\ ClosingIsExclusive /\ [Next]_vars =>
          [\A c \in Clients :
             cpc[c] \in {"shutdown", "reap"} /\ cpc'[c] = "idle"
               => \A w \in Fleet : wpc[w] = "exited"]_vars
    <2> SUFFICES ASSUME PoolInv, ClosingIsExclusive, [Next]_vars, NEW c \in Clients,
                        cpc[c] \in {"shutdown", "reap"}, cpc'[c] = "idle"
                 PROVE  \A w \in Fleet : wpc[w] = "exited"
      OBVIOUS
    <2>1. cpc \in [Clients -> {"idle", "submit", "join", "shutdown", "destroy",
                               "reap", "reapfree", "free"}]
      BY DEF PoolInv, TypeOK
    <2>2. ASSUME NEW w \in Workers, WorkerStep(w) PROVE cpc' = cpc
      BY <2>2 DEF WorkerStep, WorkerWait, WorkerExit, WorkerTake, WorkerRun, WorkerReport, client
    <2>3. ASSUME NEW d \in Clients, ClientCall(d) PROVE cpc'[c] = cpc[c]
      BY <2>1, <2>3 DEF ClientCall, SubmitCall, JoinCall, ShutdownCall, DestroyCall, Enters
    <2>4. ASSUME NEW d \in Clients, d # c, ClientStep(d) PROVE cpc'[c] = cpc[c]
      BY <2>1, <2>4 DEF ClientStep, SubmitWait, SubmitRefused, SubmitAccepted, JoinWait,
        JoinReturn, ShutdownLocked, Reap, Free, client
    <2>5. ClientStep(c)
      BY <2>2, <2>3, <2>4 DEF Next, SpuriousWakeup, vars, client
    <2>6. CASE ShutdownLocked(c)
      <3>1. joined /\ cpc[c] = "shutdown"
        BY <2>1, <2>6 DEF ShutdownLocked, AfterShutdown
      <3>2. \A d \in Clients : cpc[d] \notin {"reap", "reapfree"}
        BY <3>1 DEF ClosingIsExclusive, Closing, Destroying
      <3>3. QED
        BY <3>1, <3>2 DEF ClosingIsExclusive
    <2>7. CASE Reap(c)
      BY <2>7 DEF Reap
    <2>8. QED
      BY <2>5, <2>6, <2>7 DEF ClientStep, SubmitWait, SubmitRefused, SubmitAccepted,
        JoinWait, JoinReturn, Free, client
  <1>4. ClosingIsExclusive => NoUseAfterFree
    BY DEF ClosingIsExclusive, NoUseAfterFree
  <1>5. QED
    BY <1>1, <1>2, <1>3, <1>4, PoolInvariant, PTL
       DEF Spec, TeardownIsOrdered, ShutdownJoinsTheThreads
-----------------------------------------------------------------------------
(* The pool implements the job queue. *)

\* A job on its way into the pool is a new one, and its submitter's own.
JobsAreNew ==
  /\ accepted \subseteq asked
  /\ \A c \in Clients :
       /\ cpc[c] # "submit" => cjob[c] = NoJob
       /\ cpc[c] = "submit" =>
            /\ cjob[c] \in asked \ accepted
            /\ \A d \in Clients \ {c} : cjob[d] # cjob[c]

\* Submissions differ, so the jobs under way do.
LEMMA NewJobsStep == ASSUME PoolInv, JobsAreNew, [Next]_vars  PROVE JobsAreNew'
  <1> USE DEF history
  <1>1. /\ cpc \in [Clients -> {"idle", "submit", "join", "shutdown", "destroy",
                                "reap", "reapfree", "free"}]
        /\ cjob \in [Clients -> Jobs \cup {NoJob}] /\ NoJob \notin Jobs
        /\ asked \subseteq Jobs
    BY NoJobAssumption DEF PoolInv, TypeOK
  <1>2. ASSUME NEW w \in Workers, WorkerStep(w) PROVE JobsAreNew'
    <2>1. UNCHANGED <<cpc, cjob, asked, accepted>>
      BY <1>2 DEF WorkerStep, WorkerWait, WorkerExit, WorkerTake, WorkerRun, WorkerReport, client
    <2>2. QED
      BY <2>1 DEF JobsAreNew
  <1>3. ASSUME NEW c \in Clients, ClientStep(c) PROVE JobsAreNew'
    <2>1. CASE SubmitAccepted(c)
      <3>1. /\ cpc[c] = "submit" /\ accepted' = accepted \cup {cjob[c]} /\ asked' = asked
            /\ \A d \in Clients : cpc'[d] = IF d = c THEN "idle" ELSE cpc[d]
            /\ \A d \in Clients : cjob'[d] = IF d = c THEN NoJob ELSE cjob[d]
        BY <2>1, <1>1 DEF SubmitAccepted
      <3>2. QED
        BY <3>1, <1>1 DEF JobsAreNew
    <2>2. CASE SubmitRefused(c)
      <3>1. /\ accepted' = accepted /\ asked' = asked
            /\ \A d \in Clients : cpc'[d] = IF d = c THEN "idle" ELSE cpc[d]
            /\ \A d \in Clients : cjob'[d] = IF d = c THEN NoJob ELSE cjob[d]
        BY <2>2, <1>1 DEF SubmitRefused
      <3>2. QED
        BY <3>1, <1>1 DEF JobsAreNew
    <2>3. CASE SubmitWait(c) \/ JoinWait(c)
      BY <2>3 DEF SubmitWait, JoinWait, client, JobsAreNew
    <2>4. CASE JoinReturn(c) \/ ShutdownLocked(c) \/ Reap(c) \/ Free(c)
      <3>1. /\ UNCHANGED <<cjob, asked, accepted>>
            /\ \A d \in Clients : cpc'[d] = "submit" <=> cpc[d] = "submit"
        BY <2>4, <1>1 DEF JoinReturn, ShutdownLocked, Reap, Free, AfterShutdown
      <3>2. QED
        BY <3>1 DEF JobsAreNew
    <2>5. QED
      BY <1>3, <2>1, <2>2, <2>3, <2>4 DEF ClientStep
  <1>4. ASSUME NEW c \in Clients, ClientCall(c) PROVE JobsAreNew'
    <2>1. ASSUME NEW j \in Jobs, SubmitCall(c, j) PROVE JobsAreNew'
      <3>1. /\ j \notin asked /\ asked' = asked \cup {j} /\ accepted' = accepted
            /\ \A d \in Clients : cpc'[d] = IF d = c THEN "submit" ELSE cpc[d]
            /\ \A d \in Clients : cjob'[d] = IF d = c THEN j ELSE cjob[d]
        BY <2>1, <1>1 DEF SubmitCall, Enters
      <3>2. QED
        BY <3>1, <1>1 DEF JobsAreNew
    <2>2. CASE JoinCall(c) \/ ShutdownCall(c) \/ DestroyCall(c)
      <3>1. /\ UNCHANGED <<cjob, asked, accepted>>
            /\ \A d \in Clients : cpc'[d] = "submit" <=> cpc[d] = "submit"
        BY <2>2, <1>1 DEF JoinCall, ShutdownCall, DestroyCall, Enters
      <3>2. QED
        BY <3>1 DEF JobsAreNew
    <2>3. QED
      BY <1>4, <2>1, <2>2 DEF ClientCall
  <1>5. CASE SpuriousWakeup \/ UNCHANGED vars
    BY <1>5 DEF SpuriousWakeup, vars, client, JobsAreNew
  <1>6. QED
    BY <1>2, <1>3, <1>4, <1>5 DEF Next

\* What the pool's queue and hands stand for in JobQueue.
Contents == RingContents(tasks, head, count, Cap)
InHand   == [w \in Workers |-> IF wpc[w] = "run" THEN wjob[w] ELSE NoJob]

\* The queue is a sequence of the count jobs that are queued.
LEMMA QueueFacts ==
  ASSUME PoolInv
  PROVE  /\ Contents \in Seq(Jobs) /\ Len(Contents) = count
         /\ {Contents[k] : k \in DOMAIN Contents} = Queued
         /\ {InHand[w] : w \in Workers} \subseteq Running \cup {NoJob}
         /\ RingHolds(tasks, head, count, Cap, Jobs)
         /\ head \in 0 .. Cap - 1 /\ count \in 0 .. Cap /\ tail \in 0 .. Cap - 1
         /\ tail = RingSlot(head, count, Cap)
         /\ tasks \in [0 .. Cap - 1 -> Jobs \cup {NoJob}]
  <1> USE CapAssumption
  <1>1. /\ RingHolds(tasks, head, count, Cap, Jobs)
        /\ head \in 0 .. Cap - 1 /\ count \in 0 .. Cap /\ tail \in 0 .. Cap - 1
        /\ tail = RingSlot(head, count, Cap)
        /\ tasks \in [0 .. Cap - 1 -> Jobs \cup {NoJob}]
    BY DEF PoolInv, TypeOK, Slots, RingHoldsJobs, RingHolds
  <1>2. /\ Contents \in Seq(Jobs) /\ Len(Contents) = count
        /\ \A k \in 1 .. count : Contents[k] = tasks[RingSlot(head, k - 1, Cap)]
    <2>1. RingContents(tasks, head, count, Cap) \in Seq(Jobs)
      BY <1>1, ContentsIsASequence
    <2>2. /\ Len(RingContents(tasks, head, count, Cap)) = count
          /\ \A k \in 1 .. count :
               RingContents(tasks, head, count, Cap)[k] = tasks[RingSlot(head, k - 1, Cap)]
      BY <1>1, <2>1, ContentsIsASequence
    <2>3. QED
      BY <2>1, <2>2 DEF Contents
  <1>3. {Contents[k] : k \in DOMAIN Contents} = Queued
    <2>1. DOMAIN Contents = 1 .. count
      BY <1>2
    <2>2. ASSUME NEW k \in 1 .. count PROVE Contents[k] \in Queued
      <3>1. k - 1 \in 0 .. count - 1 /\ Contents[k] = tasks[RingSlot(head, k - 1, Cap)]
        BY <1>1, <1>2
      <3> QED  BY <3>1 DEF Queued
    <2>3. \A k \in 0 .. count - 1 : tasks[RingSlot(head, k, Cap)] = Contents[k + 1]
                                    /\ k + 1 \in 1 .. count
      <3> SUFFICES ASSUME NEW k \in 0 .. count - 1
                   PROVE  /\ k + 1 \in 1 .. count
                          /\ tasks[RingSlot(head, k, Cap)] = Contents[k + 1]
        OBVIOUS
      <3>1. k + 1 \in 1 .. count /\ (k + 1) - 1 = k
        BY <1>1
      <3>2. QED
        BY <1>2, <3>1
    <2>4. QED
      BY <2>1, <2>2, <2>3 DEF Queued
  <1>4. {InHand[w] : w \in Workers} \subseteq Running \cup {NoJob}
    BY DEF InHand, Running
  <1>5. QED
    BY <1>1, <1>2, <1>3, <1>4

\* An accepted submission is JobQueue's Submit of a job it does not know.
LEMMA AcceptSubmits ==
  ASSUME PoolInv, JobsAreNew, NEW c \in Clients, SubmitAccepted(c)
  PROVE  \E j \in Jobs : Queue!Submit(j)
  <1> DEFINE j == cjob[c]
  <1> USE CapAssumption
  <1>1. /\ j \in Jobs /\ j \notin accepted /\ j # NoJob /\ ~shutdown /\ count < Cap
    <2>1. cpc[c] = "submit" /\ count # Cap /\ ~shutdown
      BY DEF SubmitAccepted
    <2>2. QED
      BY <2>1, NoJobAssumption, QueueFacts DEF PoolInv, HandsHoldJobs, JobsAreNew
  <1>2. j \notin Queue!Known
    <2>1. {Contents[k] : k \in DOMAIN Contents} \cup {InHand[w] : w \in Workers} \cup done
            \subseteq accepted \cup {NoJob}
      BY QueueFacts DEF PoolInv, AcceptedAreSomewhere
    <2>2. Queue!Known = {Contents[k] : k \in DOMAIN Contents}
                          \cup {InHand[w] : w \in Workers} \cup done
      BY Zenon DEF Queue!Known, Contents, InHand
    <2>3. QED
      BY <1>1, <2>1, <2>2
  <1>3. Contents' = Append(Contents, j)
    <2>1. /\ tasks' = [tasks EXCEPT ![tail] = j] /\ head' = head /\ count' = count + 1
      BY DEF SubmitAccepted
    <2>2. RingArray(tasks, Cap, Jobs \cup {NoJob})
      BY QueueFacts DEF RingArray
    <2>3. RingContents(RingStore(tasks, head, count, Cap, j), head, count + 1, Cap)
            = Append(RingContents(tasks, head, count, Cap), j)
      <3>1. /\ RingHolds(tasks, head, count, Cap, Jobs)
            /\ head \in 0 .. Cap - 1 /\ count \in 0 .. Cap - 1
        BY <1>1, QueueFacts
      <3>2. \A S, T : \A x \in S :
              RingHolds(tasks, head, count, Cap, S) /\ RingArray(tasks, Cap, T)
                => RingContents(RingStore(tasks, head, count, Cap, x), head, count + 1, Cap)
                     = Append(RingContents(tasks, head, count, Cap), x)
        BY <3>1, ContentsAfterAdd
      <3>3. QED
        BY <1>1, <2>2, <3>1, <3>2
    <2>4. QED
      BY <2>1, <2>3, QueueFacts DEF Contents, RingStore
  <1>4. /\ InHand' = InHand /\ done' = done /\ shutdown' = shutdown
    BY DEF SubmitAccepted, InHand, worker, life
  <1>5. Len(Contents) < Cap
    BY <1>1, QueueFacts
  <1>6. QED
    BY <1>1, <1>2, <1>3, <1>4, <1>5 DEF Queue!Submit, Contents, InHand

\* Taking the front job is JobQueue's Start.
LEMMA TakeStarts ==
  ASSUME PoolInv, NEW w \in Workers, WorkerTake(w)
  PROVE  Queue!Start(w)
  <1> USE CapAssumption
  <1>1. /\ wpc[w] = "loop" /\ count > 0 /\ tasks' = tasks /\ head' = RingNext(head, Cap)
        /\ count' = count - 1 /\ shutdown' = shutdown /\ done' = done
        /\ \A v \in Workers : wpc'[v] = IF v = w THEN "run" ELSE wpc[v]
        /\ \A v \in Workers : wjob'[v] = IF v = w THEN tasks[head] ELSE wjob[v]
    BY DEF WorkerTake, PoolInv, TypeOK, life, history
  <1>2. /\ Contents # <<>> /\ Head(Contents) = tasks[head] /\ Contents' = Tail(Contents)
    <2>1. count \in 1 .. Cap
      BY <1>1, QueueFacts
    <2>2. QED
      <3>1. RingHolds(tasks, head, count, Cap, Jobs) /\ head \in 0 .. Cap - 1
        BY QueueFacts
      <3>2. /\ RingContents(tasks, head, count, Cap) # <<>>
            /\ Head(RingContents(tasks, head, count, Cap)) = tasks[head]
            /\ RingContents(tasks, RingNext(head, Cap), count - 1, Cap)
                 = Tail(RingContents(tasks, head, count, Cap))
        BY <2>1, <3>1, ContentsAfterTake, Zenon
      <3>3. QED
        BY <1>1, <3>2 DEF Contents
  <1>3. InHand[w] = NoJob /\ InHand' = [InHand EXCEPT ![w] = Head(Contents)]
    BY <1>1, <1>2 DEF InHand
  <1>4. QED
    BY <1>1, <1>2, <1>3 DEF Queue!Start, Contents, InHand

\* Running a job to its end is JobQueue's Finish.
LEMMA RunFinishes ==
  ASSUME PoolInv, NEW w \in Workers, WorkerRun(w)
  PROVE  Queue!Finish(w)
  <1>1. /\ wpc[w] = "run" /\ UNCHANGED <<tasks, head, count, shutdown, wjob>>
        /\ done' = done \cup {wjob[w]}
        /\ \A v \in Workers : wpc'[v] = IF v = w THEN "report" ELSE wpc[v]
    BY DEF WorkerRun, PoolInv, TypeOK, ring, life
  <1>2. wjob[w] # NoJob
    BY <1>1, NoJobAssumption DEF PoolInv, HandsHoldJobs, Busy
  <1>3. InHand[w] = wjob[w] /\ InHand' = [InHand EXCEPT ![w] = NoJob]
    BY <1>1 DEF InHand
  <1>4. Contents' = Contents
    BY <1>1 DEF Contents
  <1>5. QED
    BY <1>1, <1>2, <1>3, <1>4 DEF Queue!Finish, Contents, InHand

\* Nothing else moves a job; the first shutdown closes the queue.
LEMMA OthersStutter ==
  ASSUME PoolInv,
         \/ \E w \in Workers : WorkerWait(w) \/ WorkerExit(w) \/ WorkerReport(w)
         \/ \E c \in Clients : \/ SubmitWait(c) \/ SubmitRefused(c)
                               \/ JoinWait(c) \/ JoinReturn(c)
                               \/ ShutdownLocked(c) \/ Reap(c) \/ Free(c)
                               \/ ClientCall(c)
         \/ SpuriousWakeup \/ UNCHANGED vars
  PROVE  [Queue!Close]_Queue!jobVars
  <1>1. /\ UNCHANGED <<tasks, head, count, done>>
        /\ \/ shutdown' = shutdown
           \/ shutdown' = TRUE
    <2>1. ASSUME NEW w \in Workers, WorkerWait(w) \/ WorkerExit(w) \/ WorkerReport(w)
          PROVE  UNCHANGED <<tasks, head, count, done, shutdown>>
      BY <2>1 DEF WorkerWait, WorkerExit, WorkerReport, ring, life, history
    <2>2. ASSUME NEW c \in Clients,
                 \/ SubmitWait(c) \/ SubmitRefused(c) \/ JoinWait(c) \/ JoinReturn(c)
                 \/ Reap(c) \/ Free(c) \/ ClientCall(c)
          PROVE  UNCHANGED <<tasks, head, count, done, shutdown>>
      BY <2>2 DEF SubmitWait, SubmitRefused, JoinWait, JoinReturn, Reap, Free, ClientCall,
        SubmitCall, JoinCall, ShutdownCall, DestroyCall, ring, life, history
    <2>3. ASSUME NEW c \in Clients, ShutdownLocked(c)
          PROVE  UNCHANGED <<tasks, head, count, done>> /\ shutdown' = TRUE
      BY <2>3 DEF ShutdownLocked, ring, history
    <2>4. CASE SpuriousWakeup \/ UNCHANGED vars
      BY <2>4 DEF SpuriousWakeup, vars, ring, life, history
    <2>5. QED
      BY <2>1, <2>2, <2>3, <2>4
  <1>2. InHand' = InHand
    <2>1. ASSUME NEW w \in Workers, WorkerExit(w) \/ WorkerReport(w)
          PROVE  \A v \in Workers : /\ wpc'[v] = "run" <=> wpc[v] = "run"
                                    /\ wpc[v] = "run" => wjob'[v] = wjob[v]
      BY <2>1 DEF WorkerExit, WorkerReport, PoolInv, TypeOK
    <2>2. \/ UNCHANGED worker
          \/ \E w \in Workers : WorkerExit(w) \/ WorkerReport(w)
      BY DEF WorkerWait, SubmitWait, SubmitRefused, JoinWait, JoinReturn, ShutdownLocked,
        Reap, Free, ClientCall, SubmitCall, JoinCall, ShutdownCall, DestroyCall,
        SpuriousWakeup, vars
    <2>3. QED
      BY <2>1, <2>2 DEF InHand, worker
  <1>3. Contents' = Contents
    BY <1>1 DEF Contents
  <1>4. CASE shutdown' = shutdown
    BY <1>1, <1>2, <1>3, <1>4 DEF Queue!jobVars, Contents, InHand
  <1>5. CASE shutdown' = TRUE /\ ~shutdown
    BY <1>1, <1>2, <1>3, <1>5 DEF Queue!Close, Contents, InHand
  <1>6. shutdown \in BOOLEAN
    BY DEF PoolInv, TypeOK
  <1>7. QED
    BY <1>1, <1>4, <1>5, <1>6

\* The pool is a bounded FIFO queue whose jobs run once: every step of it is a step of
\* JobQueue or none.
THEOREM PoolIsAJobQueue == Spec => ImplementsJobQueue
  <1>1. Init => Queue!Init /\ JobsAreNew
    <2> SUFFICES ASSUME Init PROVE Queue!Init /\ JobsAreNew
      OBVIOUS
    <2>1. Contents = <<>>
      BY DEF Init, Contents, RingContents
    <2>2. InHand = [w \in Workers |-> NoJob]
      <3>1. \A w \in Workers : wpc[w] # "run"
        BY DEF Init
      <3>2. QED
        BY <3>1 DEF InHand
    <2>3. done = {} /\ ~shutdown = TRUE /\ JobsAreNew
      BY DEF Init, JobsAreNew
    <2>4. QED
      BY <2>1, <2>2, <2>3 DEF Queue!Init, Contents, InHand
  <1>2. PoolInv /\ JobsAreNew /\ [Next]_vars => JobsAreNew'
    BY NewJobsStep
  <1>3. PoolInv /\ JobsAreNew /\ [Next]_vars => [Queue!Next]_Queue!jobVars
    <2> SUFFICES ASSUME PoolInv, JobsAreNew, [Next]_vars
                 PROVE  [Queue!Next]_Queue!jobVars
      OBVIOUS
    <2>1. ASSUME NEW c \in Clients, SubmitAccepted(c) PROVE Queue!Next
      BY <2>1, AcceptSubmits DEF Queue!Next
    <2>2. ASSUME NEW w \in Workers, WorkerTake(w) \/ WorkerRun(w) PROVE Queue!Next
      BY <2>2, TakeStarts, RunFinishes DEF Queue!Next
    <2>3. CASE \/ \E w \in Workers : WorkerWait(w) \/ WorkerExit(w) \/ WorkerReport(w)
               \/ \E c \in Clients : \/ SubmitWait(c) \/ SubmitRefused(c)
                                     \/ JoinWait(c) \/ JoinReturn(c)
                                     \/ ShutdownLocked(c) \/ Reap(c) \/ Free(c)
                                     \/ ClientCall(c)
               \/ SpuriousWakeup \/ UNCHANGED vars
      BY <2>3, OthersStutter DEF Queue!Next
    <2>4. QED
      BY <2>1, <2>2, <2>3 DEF Next, WorkerStep, ClientStep
  <1>4. QED
    BY <1>1, <1>2, <1>3, PoolInvariant, PTL DEF Spec, ImplementsJobQueue, Queue!Spec
=============================================================================
