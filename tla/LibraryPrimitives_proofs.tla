----------------------- MODULE LibraryPrimitives_proofs -----------------------
(***************************************************************************)
(* The primitives of the library that threads and tasks wait on: those of  *)
(* xiom.sync in one program, for every finite set of threads and any number*)
(* of rounds, and the executor of xiom.async with its timers and channel,  *)
(* for every set of tasks. The calls that keep no state: the quoting of a  *)
(* command line, the vector kernels, the 128-bit integers, the digests and *)
(* the soft floats, for every width, block and length.                     *)
(***************************************************************************)
EXTENDS SyncProgram, AsyncExecutor, LibraryCalls, SequenceLemmas, FiniteSetTheorems, TLAPS

\* The instances count with the Cardinality of this module.
LEMMA SameCardinality == \A S : Lock!Cardinality(S) = Cardinality(S) /\ Meet!Cardinality(S) = Cardinality(S)
  BY DEF Cardinality, Lock!Cardinality, Meet!Cardinality

Readers == Lock!Those("reading")
Writers == Lock!Those("writing")
-----------------------------------------------------------------------------
(* RwLock: the parts of LockIsSound are inductive together.                *)

\* A thread that changes its position leaves one set of threads and joins another.
LEMMA ThoseAfterMove ==
  ASSUME NEW t \in Threads, NEW to, Lock!TypeOK, Lock!Becomes(t, to)
  PROVE  /\ access' = [access EXCEPT ![t] = to]
         /\ \A at :
              /\ Lock!Those(at)' = IF at = to THEN Lock!Those(at) \cup {t}
                                  ELSE Lock!Those(at) \ {t}
              /\ t \in Lock!Those(at) <=> access[t] = at
  BY DEF Lock!Becomes, Lock!Those, Lock!TypeOK

\* There are finitely many threads in a position, so that they can be counted.
LEMMA ThoseAreFinite ==
  /\ IsFiniteSet(Readers) /\ Cardinality(Readers) \in Nat
  /\ IsFiniteSet(Writers) /\ Cardinality(Writers) \in Nat
  /\ Readers = {} <=> Cardinality(Readers) = 0
  /\ Writers = {} <=> Cardinality(Writers) = 0
<1>1. Readers \in SUBSET Threads /\ Writers \in SUBSET Threads
  BY DEF Readers, Writers, Lock!Those
<1> QED  BY <1>1, FS_Subset, FS_CardinalityType, FS_EmptySet, ThreadsAssumption

\* What the state word says, in terms of the two sets.
LEMMA StateWord ==
  ASSUME LockIsSound
  PROVE  /\ lockState \in Int /\ lockState >= -1
         /\ lockState = -1 <=> Writers # {}
         /\ lockState = 0 <=> Writers = {} /\ Readers = {}
         /\ lockState > 0 <=> Readers # {}
  BY ThoseAreFinite, SameCardinality DEF LockIsSound, Lock!ReadersOrWriter, Readers, Writers

\* Taking the lock: the state word counts the new holder.
LEMMA GrantKeepsLock ==
  ASSUME LockIsSound, NEW t \in Threads,
         \/ Lock!ReadGranted(t) \/ Lock!WriteGranted(t) \/ Lock!TryRead(t) \/ Lock!TryWrite(t)
  PROVE  LockIsSound'
<1>1. CASE Lock!ReadGranted(t) \/ Lock!TryRead(t)
  <2>1. /\ Lock!Becomes(t, "reading") /\ access[t] \in {"none", "read"}
        /\ lockState # -1 /\ lockState' = lockState + 1
        /\ UNCHANGED <<onRead, onWrite>> /\ t \notin onRead \cup onWrite
    BY <1>1 DEF Lock!ReadGranted, Lock!TryRead, LockIsSound, Lock!TypeOK, Lock!Those
  <2>2. Readers' = Readers \cup {t} /\ t \notin Readers /\ Writers' = Writers
    <3>1. Writers' = Writers \ {t} /\ t \notin Writers /\ t \notin Readers
      BY <2>1, ThoseAfterMove DEF LockIsSound, Readers, Writers
    <3>2. Readers' = Readers \cup {t}
      BY <2>1, ThoseAfterMove DEF LockIsSound, Readers
    <3> QED  BY <3>1, <3>2
  <2>3. Writers = {} /\ Cardinality(Readers') = Cardinality(Readers) + 1
    BY <2>1, <2>2, StateWord, ThoseAreFinite, FS_AddElement
  <2>4. Lock!TypeOK'
    BY <2>1, ThoseAfterMove, StateWord DEF LockIsSound, Lock!TypeOK
  <2>5. Lock!ReadersOrWriter'
    BY <2>1, <2>2, <2>3, SameCardinality
       DEF LockIsSound, Lock!ReadersOrWriter, Readers, Writers
  <2>6. Lock!NoSleeperIsForgotten'
    BY <2>1, ThoseAfterMove, StateWord DEF LockIsSound, Lock!NoSleeperIsForgotten
  <2> QED  BY <2>4, <2>5, <2>6 DEF LockIsSound
<1>2. CASE Lock!WriteGranted(t) \/ Lock!TryWrite(t)
  <2>1. /\ Lock!Becomes(t, "writing") /\ access[t] \in {"none", "write"}
        /\ lockState = 0 /\ lockState' = -1
        /\ UNCHANGED <<onRead, onWrite>> /\ t \notin onRead \cup onWrite
    BY <1>2 DEF Lock!WriteGranted, Lock!TryWrite, LockIsSound, Lock!TypeOK, Lock!Those
  <2>2. Writers' = Writers \cup {t} /\ Readers' = Readers \ {t}
    BY <2>1, ThoseAfterMove DEF LockIsSound, Readers, Writers
  <2>3. Readers' = {} /\ Writers' = {t} /\ Cardinality(Writers') = 1
    <3>1. Readers = {} /\ Writers = {}  BY <2>1, StateWord
    <3>2. Readers' = {} /\ Writers' = {t}  BY <2>2, <3>1
    <3> QED  BY <3>2, FS_Singleton
  <2>4. Lock!TypeOK'
    BY <2>1, ThoseAfterMove DEF LockIsSound, Lock!TypeOK
  <2>5. Lock!ReadersOrWriter'
    BY <2>1, <2>3, SameCardinality DEF LockIsSound, Lock!ReadersOrWriter, Readers, Writers
  <2>6. Lock!NoSleeperIsForgotten'
    BY <2>1, ThoseAfterMove DEF LockIsSound, Lock!NoSleeperIsForgotten
  <2> QED  BY <2>4, <2>5, <2>6 DEF LockIsSound
<1> QED  BY <1>1, <1>2

\* Giving the lock back: whoever is woken may find it free.
LEMMA DropKeepsLock ==
  ASSUME LockIsSound, NEW t \in Threads, Lock!ReadDrop(t) \/ Lock!WriteDrop(t)
  PROVE  LockIsSound'
<1>1. CASE Lock!ReadDrop(t)
  <2>1. /\ Lock!Becomes(t, "none") /\ access[t] = "reading"
        /\ lockState' = lockState - 1 /\ UNCHANGED onRead
        /\ IF lockState' = 0 THEN Lock!Signalled(onWrite, onWrite') ELSE UNCHANGED onWrite
    BY <1>1 DEF Lock!ReadDrop
  <2>2. Readers' = Readers \ {t} /\ t \in Readers /\ Writers' = Writers \ {t}
    BY <2>1, ThoseAfterMove DEF LockIsSound, Readers, Writers
  <2>3. Writers = {} /\ Cardinality(Readers') = Cardinality(Readers) - 1
    BY <2>2, StateWord, ThoseAreFinite, FS_RemoveElement
       DEF LockIsSound, Lock!ReadersOrWriter, Readers, Writers
  <2>4. Lock!TypeOK'
    BY <2>1, ThoseAfterMove, StateWord DEF LockIsSound, Lock!TypeOK, Lock!Signalled
  <2>5. Lock!ReadersOrWriter'
    BY <2>1, <2>2, <2>3, SameCardinality
       DEF LockIsSound, Lock!ReadersOrWriter, Readers, Writers
  <2>6. Lock!NoSleeperIsForgotten'
    BY <2>1, <2>2, ThoseAfterMove, StateWord
       DEF LockIsSound, Lock!TypeOK, Lock!NoSleeperIsForgotten, Lock!Signalled
  <2> QED  BY <2>4, <2>5, <2>6 DEF LockIsSound
<1>2. CASE Lock!WriteDrop(t)
  <2>1. /\ Lock!Becomes(t, "none") /\ access[t] = "writing" /\ lockState' = 0
        /\ onRead' = {} /\ Lock!Signalled(onWrite, onWrite')
    BY <1>2 DEF Lock!WriteDrop
  <2>2. Writers' = Writers \ {t} /\ t \in Writers /\ Readers' = Readers \ {t}
    BY <2>1, ThoseAfterMove DEF LockIsSound, Readers, Writers
  <2>3. Readers' = {} /\ Writers' = {}
    <3>1. Readers = {} /\ Cardinality(Writers) = 1
      BY <2>2, StateWord, ThoseAreFinite, SameCardinality
         DEF LockIsSound, Lock!ReadersOrWriter, Readers, Writers
    <3> QED  BY <2>2, <3>1, ThoseAreFinite, FS_Singleton
  <2>4. Lock!TypeOK'
    BY <2>1, ThoseAfterMove DEF LockIsSound, Lock!TypeOK, Lock!Signalled
  <2>5. Lock!ReadersOrWriter'
    BY <2>1, <2>3, SameCardinality, FS_EmptySet DEF Lock!ReadersOrWriter, Readers, Writers
  <2>6. Lock!NoSleeperIsForgotten'
    BY <2>1, ThoseAfterMove DEF LockIsSound, Lock!TypeOK, Lock!NoSleeperIsForgotten, Lock!Signalled
  <2> QED  BY <2>4, <2>5, <2>6 DEF LockIsSound
<1> QED  BY <1>1, <1>2

\* Asking and waiting: a thread sleeps only while there is somebody to wake it.
LEMMA WaitKeepsLock ==
  ASSUME LockIsSound, NEW t \in Threads,
         \/ Lock!Call(t, "read") \/ Lock!Call(t, "write")
         \/ Lock!ReadWait(t) \/ Lock!WriteWait(t) \/ Lock!SpuriousWakeup(t)
  PROVE  LockIsSound'
<1>1. CASE Lock!Call(t, "read") \/ Lock!Call(t, "write")
  <2>1. PICK kind \in {"read", "write"} : Lock!Call(t, kind)  BY <1>1
  <2>2. Readers' = Readers /\ Writers' = Writers
    BY <2>1, ThoseAfterMove DEF Lock!Call, LockIsSound, Readers, Writers
  <2>3. Lock!TypeOK'
    BY <2>1, ThoseAfterMove DEF Lock!Call, LockIsSound, Lock!TypeOK
  <2>4. Lock!NoSleeperIsForgotten'
    BY <2>1, ThoseAfterMove DEF Lock!Call, LockIsSound, Lock!TypeOK, Lock!NoSleeperIsForgotten
  <2> QED
    BY <2>1, <2>2, <2>3, <2>4 DEF Lock!Call, LockIsSound, Lock!ReadersOrWriter, Readers, Writers
<1>2. CASE Lock!ReadWait(t) \/ Lock!WriteWait(t) \/ Lock!SpuriousWakeup(t)
  <2>1. /\ UNCHANGED <<lockState, access>>
        /\ \/ access[t] = "read" /\ lockState = -1
              /\ onRead' = onRead \cup {t} /\ UNCHANGED onWrite
           \/ access[t] = "write" /\ lockState # 0
              /\ onWrite' = onWrite \cup {t} /\ UNCHANGED onRead
           \/ t \in onRead \cup onWrite
              /\ onRead' = onRead \ {t} /\ onWrite' = onWrite \ {t}
    BY <1>2 DEF Lock!ReadWait, Lock!WriteWait, Lock!SpuriousWakeup
  <2>2. \A at : Lock!Those(at)' = Lock!Those(at)  BY <2>1 DEF Lock!Those
  <2>3. Lock!TypeOK'
    BY <2>1, <2>2 DEF LockIsSound, Lock!TypeOK, Lock!Those
  <2>4. Lock!ReadersOrWriter'  BY <2>1, <2>2 DEF LockIsSound, Lock!ReadersOrWriter
  <2>5. Lock!NoSleeperIsForgotten'
    BY <2>1, <2>2 DEF LockIsSound, Lock!TypeOK, Lock!NoSleeperIsForgotten
  <2> QED  BY <2>3, <2>4, <2>5 DEF LockIsSound
<1> QED  BY <1>1, <1>2
-----------------------------------------------------------------------------
(* Barrier *)

\* Those who have come for the present generation and are still inside.
Here == {t \in Threads : inside[t] /\ gen[t] = generation}

\* How often a thread has come and gone follows from where it stands: before the
\* barrier, inside for the present generation, or inside though the last one is
\* complete.  Nobody can be further behind, as a generation needs everybody.
Account(t) ==
  IF t \in Here THEN arrived[t] = generation + 1 /\ passed[t] = generation
  ELSE IF inside[t] THEN arrived[t] = generation /\ passed[t] = generation - 1
  ELSE arrived[t] = generation /\ passed[t] = generation

BarrierInv ==
  /\ Meet!TypeOK /\ Meet!NobodyIsLeftBehind
  /\ waiting = Cardinality(Here)
  /\ \A t \in Threads : Account(t)
-----------------------------------------------------------------------------
\* The threads that have come to the barrier's round are finitely many.
LEMMA HereIsFinite == IsFiniteSet(Here) /\ Cardinality(Here) \in Nat
<1>1. Here \in SUBSET Threads  BY DEF Here
<1> QED  BY <1>1, FS_Subset, FS_CardinalityType, ThreadsAssumption

\* The number that wait compares with.
LEMMA CountIsPositive == Meet!count = Cardinality(Threads) /\ Meet!count \in Nat \ {0}
  BY SameCardinality, ThreadsAssumption, FS_CardinalityType, FS_EmptySet DEF Meet!count

\* Whoever has passed as often as a thread can, everybody has come that often.
LEMMA BarrierInvSuffices == BarrierInv => BarrierIsSound
<1> SUFFICES ASSUME BarrierInv PROVE BarrierIsSound  OBVIOUS
<1>1. \A t, u \in Threads : passed[t] <= arrived[u]
  <2>1. generation \in Nat  BY RoundsAssumption DEF BarrierInv, Meet!TypeOK
  <2>2. \A t \in Threads : passed[t] <= generation /\ generation <= arrived[t]
                          /\ passed[t] \in Nat /\ arrived[t] \in Nat
    BY <2>1, RoundsAssumption DEF BarrierInv, Account, Meet!TypeOK
  <2> QED  BY <2>1, <2>2
<1> QED  BY <1>1 DEF BarrierIsSound, BarrierInv, Meet!NobodyPassesEarly

\* Coming to the barrier, but not as the last.
LEMMA ArriveKeepsBarrier ==
  ASSUME BarrierInv, NEW t \in Threads, Meet!Arrive(t)  PROVE  BarrierInv'
<1> USE RoundsAssumption, CountIsPositive
<1>1. Here' = Here \cup {t} /\ t \notin Here
  BY DEF Here, Meet!Arrive, BarrierInv, Meet!TypeOK
<1>2. waiting' = Cardinality(Here')
  BY <1>1, HereIsFinite, FS_AddElement DEF BarrierInv, Meet!Arrive
<1>3. Meet!TypeOK'  BY DEF Meet!Arrive, BarrierInv, Meet!TypeOK
<1>4. Meet!NobodyIsLeftBehind'
  BY DEF Meet!Arrive, BarrierInv, Meet!TypeOK, Meet!NobodyIsLeftBehind
<1>5. ASSUME NEW u \in Threads PROVE Account(u)'
  <2>1. Account(u)  BY DEF BarrierInv
  <2> QED  BY <2>1, <1>1 DEF Account, Meet!Arrive, BarrierInv, Meet!TypeOK
<1> QED  BY <1>2, <1>3, <1>4, <1>5 DEF BarrierInv

\* The last to come finds all the others inside, for this generation.
LEMMA ArriveLastKeepsBarrier ==
  ASSUME BarrierInv, NEW t \in Threads, Meet!ArriveLast(t)  PROVE  BarrierInv'
<1> USE RoundsAssumption, CountIsPositive
<1>1. t \notin Here /\ Here \cup {t} = Threads
  <2>1. t \notin Here  BY DEF Here, Meet!ArriveLast
  <2>2. Cardinality(Here \cup {t}) = Cardinality(Threads)
    BY <2>1, HereIsFinite, FS_AddElement DEF BarrierInv, Meet!ArriveLast
  <2>3. Here \cup {t} \in SUBSET Threads  BY DEF Here
  <2> QED  BY <2>1, <2>2, <2>3, FS_Subset, ThreadsAssumption
<1>2. Here' = {}
  <2>1. generation \in Nat /\ generation' = generation + 1 /\ UNCHANGED <<inside, gen>>
    BY DEF BarrierInv, Meet!TypeOK, Meet!ArriveLast
  <2>2. ~inside[t]  BY DEF Meet!ArriveLast
  <2>3. \A u \in Threads : u # t => gen[u] = generation  BY <1>1 DEF Here
  <2> QED  BY <2>1, <2>2, <2>3 DEF Here
<1>3. waiting' = Cardinality(Here')  BY <1>2, FS_EmptySet DEF Meet!ArriveLast
<1>4. arrived[t] = generation /\ passed[t] = generation
  BY <1>1 DEF BarrierInv, Account, Meet!ArriveLast
<1>5. Meet!TypeOK'  BY <1>4 DEF Meet!ArriveLast, BarrierInv, Meet!TypeOK
<1>6. Meet!NobodyIsLeftBehind'  BY DEF Meet!ArriveLast, Meet!NobodyIsLeftBehind
<1>7. ASSUME NEW u \in Threads PROVE Account(u)'
  <2>1. Account(u) /\ Account(t)  BY DEF BarrierInv
  <2>2. u # t => u \in Here /\ inside[u]  BY <1>1 DEF Here
  <2> QED  BY <2>1, <2>2, <1>1, <1>2 DEF Account, Meet!ArriveLast, BarrierInv, Meet!TypeOK
<1> QED  BY <1>3, <1>5, <1>6, <1>7 DEF BarrierInv

\* Inside the barrier: waking, sleeping again, and leaving a generation that is
\* complete.
LEMMA InsideKeepsBarrier ==
  ASSUME BarrierInv, NEW t \in Threads, Meet!Step(t) \/ Meet!SpuriousWakeup(t)
  PROVE  BarrierInv'
<1> USE RoundsAssumption, CountIsPositive
<1>1. CASE Meet!Leave(t)
  <2>1. Here' = Here /\ t \notin Here
    BY <1>1 DEF Here, Meet!Leave, BarrierInv, Meet!TypeOK
  <2>2. Account(t)  BY DEF BarrierInv
  <2>3. passed[t] = generation - 1 /\ arrived[t] = generation
    BY <2>1, <2>2, <1>1 DEF Account, Meet!Leave
  <2>4. Meet!TypeOK'  BY <1>1, <2>3 DEF Meet!Leave, BarrierInv, Meet!TypeOK
  <2>5. Meet!NobodyIsLeftBehind'
    BY <1>1 DEF Meet!Leave, BarrierInv, Meet!NobodyIsLeftBehind
  <2>6. ASSUME NEW u \in Threads PROVE Account(u)'
    <3>1. Account(u)  BY DEF BarrierInv
    <3> QED  BY <3>1, <2>1, <2>3, <1>1 DEF Account, Meet!Leave, BarrierInv, Meet!TypeOK
  <2>7. waiting' = Cardinality(Here')  BY <2>1, <1>1 DEF Meet!Leave, BarrierInv
  <2> QED  BY <2>4, <2>5, <2>6, <2>7 DEF BarrierInv
<1>2. CASE Meet!SleepAgain(t) \/ Meet!SpuriousWakeup(t)
  <2>1. /\ UNCHANGED <<waiting, generation, inside, gen, arrived, passed>>
        /\ \/ inside[t] /\ generation = gen[t] /\ asleep' = asleep \cup {t}
           \/ asleep' = asleep \ {t}
    BY <1>2 DEF Meet!SleepAgain, Meet!SpuriousWakeup
  <2>2. Here' = Here  BY <2>1 DEF Here
  <2>3. Meet!TypeOK'  BY <2>1 DEF BarrierInv, Meet!TypeOK
  <2>4. Meet!NobodyIsLeftBehind'  BY <2>1 DEF BarrierInv, Meet!NobodyIsLeftBehind
  <2>5. \A u \in Threads : Account(u)'  BY <2>1, <2>2 DEF BarrierInv, Account
  <2> QED  BY <2>1, <2>2, <2>3, <2>4, <2>5 DEF BarrierInv
<1> QED  BY <1>1, <1>2 DEF Meet!Step
-----------------------------------------------------------------------------
(* Once, and the program.                                                  *)

\* The state word says done, or a thread is back from call_once, only after the
\* initialiser, and says nothing else then unless it runs once more; and whoever
\* asks for the lock is back from call_once.
OnceInv ==
  /\ Initialise!TypeOK /\ Initialise!DoneMeansRun
  /\ \A t \in Threads : position[t] = "after" => runs > 0
UsersAreReady == \A t \in Threads : access[t] # "none" => position[t] = "after"

ProgramInv == LockIsSound /\ BarrierInv /\ OnceInv /\ UsersAreReady
-----------------------------------------------------------------------------
\* At the start everything is free, nobody is inside and nothing has run.
LEMMA InitEstablishes == Init => ProgramInv
<1> SUFFICES ASSUME Init PROVE ProgramInv  OBVIOUS
<1> USE RoundsAssumption, CountIsPositive, SameCardinality
<1>1. LockIsSound
  <2>1. Readers = {} /\ Writers = {}  BY DEF Init, Lock!Init, Readers, Writers, Lock!Those
  <2>2. Lock!ReadersOrWriter
    BY <2>1, FS_EmptySet DEF Init, Lock!Init, Lock!ReadersOrWriter, Readers, Writers
  <2> QED
    BY <2>2 DEF Init, Lock!Init, LockIsSound, Lock!TypeOK, Lock!NoSleeperIsForgotten
<1>2. BarrierInv
  <2>1. Here = {}  BY DEF Init, Meet!Init, Here
  <2>2. waiting = Cardinality(Here)  BY <2>1, FS_EmptySet DEF Init, Meet!Init
  <2>3. Meet!TypeOK  BY DEF Init, Meet!Init, Meet!TypeOK
  <2> QED
    BY <2>1, <2>2, <2>3 DEF Init, Meet!Init, BarrierInv, Account, Meet!NobodyIsLeftBehind
<1>3. OnceInv
  BY DEF Init, Initialise!Init, OnceInv, Initialise!TypeOK, Initialise!DoneMeansRun
<1>4. UsersAreReady  BY DEF Init, Lock!Init, UsersAreReady
<1> QED  BY <1>1, <1>2, <1>3, <1>4 DEF ProgramInv

\* What a primitive's steps leave alone keeps its invariant.
LEMMA UnchangedParts ==
  /\ LockIsSound /\ UNCHANGED lock => LockIsSound'
  /\ BarrierInv /\ UNCHANGED barrier => BarrierInv'
  /\ OnceInv /\ UNCHANGED once => OnceInv'
  /\ UsersAreReady /\ UNCHANGED <<lock, once>> => UsersAreReady'
<1>1. LockIsSound /\ UNCHANGED lock => LockIsSound'
  BY DEF lock, LockIsSound, Lock!TypeOK, Lock!ReadersOrWriter, Lock!NoSleeperIsForgotten,
         Lock!Those
<1>2. BarrierInv /\ UNCHANGED barrier => BarrierInv'
  BY DEF barrier, BarrierInv, Meet!TypeOK, Meet!NobodyIsLeftBehind, Here, Account
<1>3. OnceInv /\ UNCHANGED once => OnceInv'
  BY DEF once, OnceInv, Initialise!TypeOK, Initialise!DoneMeansRun
<1>4. UsersAreReady /\ UNCHANGED <<lock, once>> => UsersAreReady'
  BY DEF lock, once, UsersAreReady
<1> QED  BY <1>1, <1>2, <1>3, <1>4

\* A step of call_once: the word becomes done after a run, which is never undone,
\* and is taken back to in progress only by a thread that runs the initialiser.
LEMMA OnceKeepsProgram ==
  ASSUME ProgramInv, NEW t \in Threads, OnceStep(t)  PROVE  ProgramInv'
<1>1. OnceInv /\ UsersAreReady  BY DEF ProgramInv
<1>2. /\ Initialise!TypeOK
      /\ onceState = 2 => runs > 0
      /\ runs > 0 /\ (\A u \in Threads : position[u] # "running") => onceState = 2
      /\ \A u \in Threads : position[u] = "after" => runs > 0
  BY <1>1 DEF OnceInv, Initialise!DoneMeansRun
<1>3. PICK place \in {"locking", "claiming", "running", "after"} :
        /\ position' = [position EXCEPT ![t] = place]
        /\ \/ UNCHANGED <<onceState, runs>> /\ position[t] # "running" /\ place # "running"
              /\ (place = "after" => onceState = 2)
           \/ place = "running" /\ onceState' = 1 /\ runs' = runs
           \/ place = "after" /\ onceState' = 2 /\ runs' = runs + 1
  BY DEF OnceStep, Initialise!Step, Initialise!Test, Initialise!Check, Initialise!Claim,
         Initialise!Finish, Initialise!Moves
<1>4. /\ position'[t] = place
      /\ \A u \in Threads \ {t} : position'[u] = position[u]
  BY <1>2, <1>3 DEF Initialise!TypeOK
<1>5. Initialise!TypeOK'  BY <1>2, <1>3 DEF Initialise!TypeOK
<1>6. onceState' = 2 => runs' > 0  BY <1>2, <1>3 DEF Initialise!TypeOK
<1>7. ASSUME runs' > 0, \A u \in Threads : position'[u] # "running"  PROVE onceState' = 2
  <2>1. place # "running"  BY <1>4, <1>7
  <2>2. ASSUME UNCHANGED <<onceState, runs>>, position[t] # "running"  PROVE onceState' = 2
    <3>1. \A u \in Threads : position[u] # "running"  BY <1>4, <1>7, <2>2
    <3> QED  BY <1>2, <1>7, <2>2, <3>1
  <2> QED  BY <1>3, <2>1, <2>2
<1>8. ASSUME NEW u \in Threads, position'[u] = "after"  PROVE runs' > 0
  <2>1. runs > 0 => runs' > 0  BY <1>2, <1>3 DEF Initialise!TypeOK
  <2>2. CASE u = t  BY <1>2, <1>3, <1>4, <1>8, <2>1, <2>2 DEF Initialise!TypeOK
  <2>3. CASE u # t  BY <1>2, <1>4, <1>8, <2>1, <2>3
  <2> QED  BY <2>2, <2>3
<1>9. OnceInv'
  BY <1>5, <1>6, <1>7, <1>8 DEF OnceInv, Initialise!DoneMeansRun
<1>10. UsersAreReady'
  <2>1. access' = access  BY DEF OnceStep, lock
  <2>2. position[t] # "after"
    BY DEF OnceStep, Initialise!Step, Initialise!Test, Initialise!Check, Initialise!Claim,
           Initialise!Finish
  <2> QED  BY <1>1, <1>4, <2>1, <2>2 DEF UsersAreReady
<1> QED  BY <1>9, <1>10, UnchangedParts DEF OnceStep, ProgramInv

\* A step at the lock.
LEMMA LockKeepsProgram ==
  ASSUME ProgramInv, NEW t \in Threads,
         \/ LockEnter(t) \/ LockStep(t)
         \/ Lock!SpuriousWakeup(t) /\ UNCHANGED <<barrier, once, worked>>
  PROVE  ProgramInv'
<1>1. /\ \/ Lock!Enter(t) /\ position[t] = "after"
         \/ Lock!Step(t) \/ Lock!SpuriousWakeup(t)
      /\ UNCHANGED <<barrier, once>>
  BY DEF LockEnter, LockStep, Ready
<1>2. LockIsSound'
  BY <1>1, GrantKeepsLock, DropKeepsLock, WaitKeepsLock DEF Lock!Enter, Lock!Step, ProgramInv
<1>3. ASSUME NEW u \in Threads, access'[u] # "none"  PROVE position'[u] = "after"
  <2>1. access[u] # "none" \/ (u = t /\ position[t] = "after")
    BY <1>1, <1>3 DEF Lock!Enter, Lock!Step, Lock!SpuriousWakeup, Lock!Call, Lock!TryRead,
      Lock!TryWrite, Lock!ReadWait, Lock!ReadGranted, Lock!WriteWait, Lock!WriteGranted,
      Lock!ReadDrop, Lock!WriteDrop, Lock!Becomes, ProgramInv, LockIsSound, Lock!TypeOK
  <2> QED  BY <2>1, <1>1 DEF ProgramInv, UsersAreReady, once
<1> QED  BY <1>1, <1>2, <1>3, UnchangedParts DEF ProgramInv, UsersAreReady

\* A step at the barrier.
LEMMA BarrierKeepsProgram ==
  ASSUME ProgramInv, NEW t \in Threads,
         \/ BarrierEnter(t) \/ BarrierStep(t)
         \/ Meet!SpuriousWakeup(t) /\ UNCHANGED <<lock, once, worked>>
  PROVE  ProgramInv'
<1>1. /\ Meet!Enter(t) \/ Meet!Step(t) \/ Meet!SpuriousWakeup(t)
      /\ UNCHANGED <<lock, once>>
  BY DEF BarrierEnter, BarrierStep
<1>2. BarrierInv'
  BY <1>1, ArriveKeepsBarrier, ArriveLastKeepsBarrier, InsideKeepsBarrier
     DEF Meet!Enter, ProgramInv
<1> QED  BY <1>1, <1>2, UnchangedParts DEF ProgramInv
-----------------------------------------------------------------------------
\* The inductive invariant of the program: each primitive's, and the order in which
\* a thread goes from one to the next.
THEOREM ProgramInvariant == Spec => []ProgramInv
<1>1. ProgramInv /\ [Next]_vars => ProgramInv'
  <2> SUFFICES ASSUME ProgramInv, [Next]_vars PROVE ProgramInv'  OBVIOUS
  <2>1. CASE UNCHANGED vars  BY <2>1, UnchangedParts DEF vars, ProgramInv
  <2>2. ASSUME NEW t \in Threads, ThreadStep(t)  PROVE ProgramInv'
    BY <2>2, OnceKeepsProgram, LockKeepsProgram, BarrierKeepsProgram DEF ThreadStep
  <2>3. ASSUME NEW t \in Threads, SpuriousWakeup(t)  PROVE ProgramInv'
    BY <2>3, LockKeepsProgram, BarrierKeepsProgram DEF SpuriousWakeup
  <2> QED  BY <2>1, <2>2, <2>3 DEF Next
<1> QED  BY InitEstablishes, <1>1, PTL DEF Spec

\* RwLock: one writer or any number of readers, the state word says which, and no
\* reader or writer sleeps through its turn, for every number of threads.
THEOREM LockExcludes == Spec => []LockIsSound
BY ProgramInvariant, PTL DEF ProgramInv

\* Barrier: nobody passes a generation that somebody has not reached, and nobody
\* sleeps through one that is complete, for every number of threads and rounds.
THEOREM BarrierHoldsAndReleases == Spec => []BarrierIsSound
<1>1. ProgramInv => BarrierIsSound  BY BarrierInvSuffices DEF ProgramInv
<1> QED  BY <1>1, ProgramInvariant, PTL

\* Once: nobody holds the lock before an initialiser has run to its end, and the
\* word that says done says so only then and again whenever no run is under way,
\* though a store of done may fall between another caller's test and its claim.
THEOREM NothingIsUsedBeforeItsTime == Spec => []InitialisedBeforeUse
<1>1. ProgramInv => InitialisedBeforeUse
  BY DEF ProgramInv, OnceInv, UsersAreReady, InitialisedBeforeUse, Holds
<1> QED  BY <1>1, ProgramInvariant, PTL
-----------------------------------------------------------------------------
(* xiom.async: where every task is.                                        *)

\* Where a task can be, and the types of the variables for it.
Moments == 0 .. MaxClock
Frames  == [who : Tasks \cup {Main}, doing : {"code", "run", "sleep", "send", "recv"},
            until : Moments]
Timers  == [deadline : Moments, task : Tasks]

AsyncTypes ==
  /\ clock \in Moments /\ ready \in Seq(Tasks) /\ timers \in Seq(Timers)
  /\ stack \in Seq(Frames) /\ done \subseteq Tasks

\* The tasks behind the timers, and who the frames are of.
Scheduled == [k \in 1 .. Len(timers) |-> timers[k].task]
Nested    == [k \in 1 .. Len(stack) |-> stack[k].who]

Distinct(s) == \A i, j \in 1 .. Len(s) : s[i] = s[j] => i = j
Apart(s, t) == \A i \in 1 .. Len(s), j \in 1 .. Len(t) : s[i] # t[j]
Outside(s, d) == \A i \in 1 .. Len(s) : s[i] \notin d

\* A task is in one place of one of three sequences, or it is done.
Once(r, t, s, d) ==
  /\ Distinct(r) /\ Distinct(t) /\ Distinct(s)
  /\ Apart(r, t) /\ Apart(r, s) /\ Apart(t, s)
  /\ Outside(r, d) /\ Outside(t, d) /\ Outside(s, d)

PlacesInv == AsyncTypes /\ Once(ready, Scheduled, Nested, done)

\* A frame that goes on at another place of the code is still of the same task.
LEMMA FrameGoes ==
  ASSUME AsyncTypes, stack # <<>>, NEW doing \in {"code", "run", "sleep", "send", "recv"},
         NEW until \in Moments, Goes(doing, until)
  PROVE  /\ stack' \in Seq(Frames) /\ Len(stack') = Len(stack) /\ Nested' = Nested
         /\ \A k \in 1 .. Len(stack) : stack'[k].doing = IF k = Len(stack) THEN doing ELSE stack[k].doing
<1>1. /\ Len(stack) \in Nat \ {0} /\ Top = stack[Len(stack)] /\ Top \in Frames
      /\ \A k \in 1 .. Len(stack) : stack[k] \in Frames
  BY LastAndFront, ElementOfSeq DEF AsyncTypes, Top
<1> DEFINE f == Frame(Top.who, doing, until)
<1>2. f \in Frames /\ f.who = Top.who /\ f.doing = doing  BY <1>1 DEF Frame, Frames
<1> HIDE DEF f
<1>3. stack' = [stack EXCEPT ![Len(stack)] = f]  BY DEF Goes, f
<1>4. Len(stack) \in 1 .. Len(stack)  BY <1>1
<1>5. /\ stack' \in Seq(Frames) /\ Len(stack') = Len(stack)
      /\ \A k \in 1 .. Len(stack) : stack'[k] = IF k = Len(stack) THEN f ELSE stack[k]
  BY <1>2, <1>3, <1>4, ExceptSeq DEF AsyncTypes
<1>6. \A k \in 1 .. Len(stack) : stack'[k].who = stack[k].who  BY <1>1, <1>2, <1>5
<1>7. Nested' = Nested  BY <1>5, <1>6 DEF Nested
<1> QED  BY <1>2, <1>5, <1>7

\* A step after which every task is where it was.
LEMMA PlacesStay ==
  ASSUME PlacesInv, clock' \in Moments, UNCHANGED <<exec, done>>, stack' \in Seq(Frames), Nested' = Nested
  PROVE  PlacesInv'
BY DEF PlacesInv, AsyncTypes, exec, Scheduled

\* The task that is run moves from the ready queue to the stack.
LEMMA RunKeepsPlaces == ASSUME PlacesInv, RunReady PROVE PlacesInv'
<1> DEFINE t == Last(ready)
           n == Len(ready)
           m == Len(stack)
<1>1. /\ n \in Nat \ {0} /\ t = ready[n] /\ t \in Tasks
      /\ ready' \in Seq(Tasks) /\ Len(ready') = n - 1
      /\ \A i \in 1 .. n - 1 : ready'[i] = ready[i]
  BY LastAndFront DEF PlacesInv, AsyncTypes, RunReady
<1>2. Frame(t, "code", 0) \in Frames /\ Frame(t, "code", 0).who = t
  BY <1>1, BoundAssumption DEF Frame, Frames, Moments
<1>3. /\ stack' \in Seq(Frames) /\ Len(stack') = m + 1 /\ m \in Nat
      /\ stack'[m + 1].who = t /\ \A k \in 1 .. m : stack'[k] = stack[k]
  BY <1>2, AppendProperties, LenProperties DEF PlacesInv, AsyncTypes, RunReady
<1> HIDE DEF t, n, m
<1>4. /\ Len(Nested') = m + 1 /\ Len(Nested) = m /\ Nested'[m + 1] = t
      /\ \A k \in 1 .. m : Nested'[k] = Nested[k]
  BY <1>3 DEF Nested, m
<1>5. Scheduled' = Scheduled /\ done' = done /\ timers' = timers /\ clock' = clock
  BY DEF RunReady, Scheduled
<1>6. /\ Distinct(ready') /\ Apart(ready', Scheduled) /\ Outside(ready', done)
      /\ \A i \in 1 .. n - 1 : ready[i] # t
      /\ \A j \in 1 .. Len(Scheduled) : Scheduled[j] # t
      /\ t \notin done /\ \A k \in 1 .. m : Nested[k] # t
  <2>1. n \in 1 .. n /\ \A i \in 1 .. n - 1 : i \in 1 .. n /\ i # n  BY <1>1
  <2>2. /\ Distinct(ready) /\ Apart(ready, Scheduled) /\ Apart(ready, Nested) /\ Outside(ready, done)
    BY DEF PlacesInv, Once
  <2>3. Distinct(ready')  BY <1>1, <2>1, <2>2 DEF Distinct, n
  <2>4. Apart(ready', Scheduled) /\ Outside(ready', done)  BY <1>1, <2>1, <2>2 DEF Apart, Outside, n
  <2>5. \A i \in 1 .. n - 1 : ready[i] # t  BY <1>1, <2>1, <2>2 DEF Distinct, n
  <2>6. /\ \A j \in 1 .. Len(Scheduled) : Scheduled[j] # t
        /\ t \notin done /\ \A k \in 1 .. m : Nested[k] # t
    BY <1>1, <1>4, <2>1, <2>2 DEF Apart, Outside, n
  <2> QED  BY <2>3, <2>4, <2>5, <2>6
<1>7. Distinct(Nested') /\ Apart(ready', Nested') /\ Apart(Scheduled, Nested') /\ Outside(Nested', done)
  <2>1. \A k \in 1 .. m + 1 : k = m + 1 \/ k \in 1 .. m  BY <1>3
  <2>2. /\ \A i, j \in 1 .. m : Nested[i] = Nested[j] => i = j
        /\ \A i \in 1 .. n, k \in 1 .. m : ready[i] # Nested[k]
        /\ \A j \in 1 .. Len(Scheduled), k \in 1 .. m : Scheduled[j] # Nested[k]
        /\ \A k \in 1 .. m : Nested[k] \notin done
    BY <1>4 DEF PlacesInv, Once, Distinct, Apart, Outside, n
  <2>3. Distinct(Nested')  BY <1>4, <1>6, <2>1, <2>2 DEF Distinct
  <2>4. \A i \in 1 .. n - 1 : i \in 1 .. n  BY <1>1
  <2>5. Apart(ready', Nested')  BY <1>1, <1>4, <1>6, <2>1, <2>2, <2>4 DEF Apart
  <2>6. Apart(Scheduled, Nested') /\ Outside(Nested', done)  BY <1>4, <1>6, <2>1, <2>2 DEF Apart, Outside
  <2> QED  BY <2>3, <2>5, <2>6
<1>8. Distinct(Scheduled) /\ Outside(Scheduled, done)  BY DEF PlacesInv, Once
<1>9. Once(ready', Scheduled', Nested', done')  BY <1>5, <1>6, <1>7, <1>8 DEF Once
<1> QED  BY <1>1, <1>3, <1>5, <1>9 DEF PlacesInv, AsyncTypes

\* z is s with e at its end.
Longer(z, s, e) ==
  /\ Len(s) \in Nat /\ Len(z) = Len(s) + 1 /\ z[Len(s) + 1] = e
  /\ \A k \in 1 .. Len(s) : z[k] = s[k]

\* A sequence with one more element at its end.
LEMMA OneMore ==
  ASSUME NEW s, NEW z, NEW e, NEW x, NEW d, Longer(z, s, e)
  PROVE  /\ Distinct(s) /\ Outside(s, {e}) => Distinct(z)
         /\ Apart(s, x) /\ Outside(x, {e}) => Apart(z, x)
         /\ Apart(x, s) /\ Outside(x, {e}) => Apart(x, z)
         /\ Outside(s, d) /\ e \notin d => Outside(z, d)
<1>1. /\ \A k \in 1 .. Len(z) : (k = Len(s) + 1 /\ z[k] = e) \/ (k \in 1 .. Len(s) /\ z[k] = s[k])
      /\ \A k \in 1 .. Len(s) : k # Len(s) + 1
  BY DEF Longer
<1>2. Distinct(s) /\ Outside(s, {e}) => Distinct(z)  BY <1>1 DEF Distinct, Outside
<1>3. Apart(s, x) /\ Outside(x, {e}) => Apart(z, x)  BY <1>1 DEF Apart, Outside
<1>4. Apart(x, s) /\ Outside(x, {e}) => Apart(x, z)  BY <1>1 DEF Apart, Outside
<1>5. Outside(s, d) /\ e \notin d => Outside(z, d)  BY <1>1 DEF Outside
<1> QED  BY <1>2, <1>3, <1>4, <1>5

\* z has elements of s from places in K, each from a place of its own.
Picks(at, z, s, K) ==
  /\ at \in [1 .. Len(z) -> 1 .. Len(s)]
  /\ \A i \in 1 .. Len(z) : at[i] \in K /\ z[i] = s[at[i]]
  /\ \A i, j \in 1 .. Len(z) : at[i] = at[j] => i = j

\* A sequence of elements of another, each from a place of its own.
LEMMA SomeOf ==
  ASSUME NEW s, NEW z, NEW x, NEW d, NEW at, NEW K, Picks(at, z, s, K)
  PROVE  /\ Distinct(s) => Distinct(z)
         /\ Apart(s, x) => Apart(z, x)
         /\ Apart(x, s) => Apart(x, z)
         /\ Outside(s, d) => Outside(z, d)
<1>1. Distinct(s) => Distinct(z)  BY DEF Distinct, Picks
<1>2. \A i \in 1 .. Len(z) : at[i] \in 1 .. Len(s) /\ z[i] = s[at[i]]  BY DEF Picks
<1>3. Apart(s, x) => Apart(z, x)  BY <1>2 DEF Apart
<1>4. Apart(x, s) => Apart(x, z)  BY <1>2 DEF Apart
<1>5. Outside(s, d) => Outside(z, d)  BY <1>2 DEF Outside
<1> QED  BY <1>1, <1>3, <1>4, <1>5

\* Some of the timers, in their order.
LEMMA SomeTimers ==
  ASSUME NEW K, timers \in Seq(Timers)
  PROVE  /\ Selected(timers, K) \in Seq(Timers)
         /\ \E at : Picks(at, Selected(timers, K), timers, K)
         /\ \A k \in 1 .. Len(timers) : k \in K =>
              \E i \in 1 .. Len(Selected(timers, K)) : Selected(timers, K)[i] = timers[k]
<1> DEFINE z == Selected(timers, K)
<1>1. z \in Seq(Timers)  BY SelectionKeeps
<1>2. PICK at \in [1 .. Len(z) -> 1 .. Len(timers)] :
        /\ \A i \in 1 .. Len(z) : at[i] \in K /\ z[i] = timers[at[i]]
        /\ \A i, j \in 1 .. Len(z) : i < j => at[i] < at[j]
        /\ \A k \in 1 .. Len(timers) : k \in K => \E i \in 1 .. Len(z) : at[i] = k
  BY SelectionKeeps
<1>3. Len(z) \in Nat /\ Len(timers) \in Nat  BY <1>1, LenProperties
<1> HIDE DEF z
<1>4. ASSUME NEW i \in 1 .. Len(z), NEW j \in 1 .. Len(z), at[i] = at[j] PROVE i = j
  <2>1. at[i] \in 1 .. Len(timers) /\ at[j] \in 1 .. Len(timers)  BY <1>2
  <2>2. ~ (i < j) /\ ~ (j < i)  BY <1>2, <1>3, <1>4, <2>1
  <2> QED  BY <1>3, <2>2
<1>5. Picks(at, z, timers, K)  BY <1>2, <1>4 DEF Picks
<1>6. \A k \in 1 .. Len(timers) : k \in K => \E i \in 1 .. Len(z) : z[i] = timers[k]  BY <1>2
<1> QED  BY <1>1, <1>5, <1>6 DEF z

\* The timers that are due become ready tasks, and the others stay.
LEMMA FiringKeepsPlaces == ASSUME PlacesInv, FireTimers PROVE PlacesInv'
<1> DEFINE due == {k \in DOMAIN timers : timers[k].deadline <= clock'}
           rest == DOMAIN timers \ due
           fired == Selected(timers, due)
<1>1. /\ clock \in Moments /\ timers \in Seq(Timers) /\ stack \in Seq(Frames) /\ done \subseteq Tasks
      /\ Distinct(Scheduled) /\ Distinct(Nested) /\ Apart(Scheduled, Nested)
      /\ Outside(Scheduled, done) /\ Outside(Nested, done)
  BY DEF PlacesInv, AsyncTypes, Once
<1>2. /\ clock' \in clock .. MaxClock /\ ready' = [k \in DOMAIN fired |-> fired[k].task]
      /\ timers' = Selected(timers, rest) /\ stack' = stack /\ done' = done
  BY DEF FireTimers
<1>3. clock' \in Moments  BY <1>1, <1>2, BoundAssumption DEF Moments
<1>4. DOMAIN timers = 1 .. Len(timers) /\ \A k \in 1 .. Len(timers) : timers[k].task \in Tasks
  <2>1. DOMAIN timers = 1 .. Len(timers) /\ \A k \in 1 .. Len(timers) : timers[k] \in Timers
    BY <1>1, LenProperties, ElementOfSeq
  <2>2. \A r \in Timers : r.task \in Tasks  BY DEF Timers
  <2> QED  BY <2>1, <2>2
<1>5. fired \in Seq(Timers) /\ timers' \in Seq(Timers)  BY <1>1, <1>2, SomeTimers
<1>6. DOMAIN fired = 1 .. Len(fired) /\ Len(fired) \in Nat  BY <1>5, LenProperties
<1>7. due \cap rest = {}  OBVIOUS
<1> HIDE DEF due, rest, fired
<1>8. (\E at : Picks(at, fired, timers, due)) /\ (\E at : Picks(at, timers', timers, rest))
  BY <1>1, <1>2, SomeTimers, Zenon DEF fired
<1>9. PICK at : Picks(at, fired, timers, due)  BY <1>8
<1>10. PICK to : Picks(to, timers', timers, rest)  BY <1>8
<1>11. \A i \in 1 .. Len(fired) : fired[i].task \in Tasks  BY <1>4, <1>9 DEF Picks
<1>12. ready' \in Seq(Tasks) /\ Len(ready') = Len(fired)  BY <1>2, <1>6, <1>11
<1>13. Len(Scheduled) = Len(timers) /\ Len(Scheduled') = Len(timers')
  BY <1>1, <1>5, LenProperties DEF Scheduled
<1>14. Picks(at, ready', Scheduled, due)
  <2>1. \A i \in 1 .. Len(ready') : ready'[i] = Scheduled[at[i]]
    BY <1>2, <1>6, <1>9, <1>12 DEF Scheduled, Picks
  <2> QED  BY <1>9, <1>12, <1>13, <2>1 DEF Picks
<1>15. Picks(to, Scheduled', Scheduled, rest)
  <2>1. \A i \in 1 .. Len(timers') : Scheduled'[i] = Scheduled[to[i]]  BY <1>10 DEF Scheduled, Picks
  <2> QED  BY <1>10, <1>13, <2>1 DEF Picks
<1>16. Distinct(ready') /\ Apart(ready', Nested) /\ Outside(ready', done)  BY <1>1, <1>14, SomeOf, Zenon
<1>17. Distinct(Scheduled') /\ Apart(Scheduled', Nested) /\ Outside(Scheduled', done)
  BY <1>1, <1>15, SomeOf, Zenon
<1>18. Apart(ready', Scheduled')
  <2>1. ASSUME NEW i \in 1 .. Len(ready'), NEW j \in 1 .. Len(Scheduled') PROVE ready'[i] # Scheduled'[j]
    <3>1. at[i] # to[j] /\ at[i] \in 1 .. Len(Scheduled) /\ to[j] \in 1 .. Len(Scheduled)
      BY <1>7, <1>14, <1>15 DEF Picks
    <3>2. ready'[i] = Scheduled[at[i]] /\ Scheduled'[j] = Scheduled[to[j]]  BY <1>14, <1>15 DEF Picks
    <3> QED  BY <1>1, <3>1, <3>2 DEF Distinct
  <2> QED  BY <2>1 DEF Apart
<1>19. Nested' = Nested  BY <1>2 DEF Nested
<1>20. Once(ready', Scheduled', Nested', done')  BY <1>1, <1>2, <1>16, <1>17, <1>18, <1>19 DEF Once
<1> QED  BY <1>1, <1>2, <1>3, <1>5, <1>12, <1>20 DEF PlacesInv, AsyncTypes

\* A task that is not used yet is in none of the places.
LEMMA UnusedIsNowhere ==
  ASSUME PlacesInv, NEW t \in Unused
  PROVE  /\ t \in Tasks /\ t \notin done
         /\ Outside(ready, {t}) /\ Outside(Scheduled, {t}) /\ Outside(Nested, {t})
<1>1. /\ DOMAIN ready = 1 .. Len(ready) /\ DOMAIN timers = 1 .. Len(timers) /\ DOMAIN stack = 1 .. Len(stack)
      /\ Len(timers) \in Nat /\ Len(stack) \in Nat
  BY LenProperties DEF PlacesInv, AsyncTypes
<1>2. t \in Tasks /\ t \notin done /\ t \notin ToSet(ready) /\ t \notin Begun
      /\ t \notin {timers[k].task : k \in DOMAIN timers}
  BY DEF Unused, Waiting
<1>3. Outside(ready, {t})  BY <1>1, <1>2 DEF Outside, ToSet
<1>4. Outside(Scheduled, {t})
  <2>1. Len(Scheduled) = Len(timers) /\ \A k \in 1 .. Len(timers) : Scheduled[k] = timers[k].task
    BY <1>1 DEF Scheduled
  <2> QED  BY <1>1, <1>2, <2>1 DEF Outside
<1>5. Outside(Nested, {t})
  <2>1. Len(Nested) = Len(stack) /\ \A k \in 1 .. Len(stack) : Nested[k] = stack[k].who
    BY <1>1 DEF Nested
  <2> QED  BY <1>1, <1>2, <2>1 DEF Outside, Begun
<1> QED  BY <1>2, <1>3, <1>4, <1>5

\* A task that is spawned was in no place.
LEMMA SpawningKeepsPlaces == ASSUME PlacesInv, NEW t \in Tasks, Spawn(t) PROVE PlacesInv'
<1>1. t \in Unused /\ ready' = Append(ready, t)
      /\ UNCHANGED <<clock, timers, stack, done>> /\ Scheduled' = Scheduled /\ Nested' = Nested
  BY DEF Spawn, Scheduled, Nested
<1>2. t \notin done /\ Outside(ready, {t}) /\ Outside(Scheduled, {t}) /\ Outside(Nested, {t})
  BY <1>1, UnusedIsNowhere
<1>3. ready' \in Seq(Tasks) /\ Longer(ready', ready, t)
  BY <1>1, AppendProperties, LenProperties DEF PlacesInv, AsyncTypes, Longer
<1>4. Once(ready, Scheduled, Nested, done)  BY DEF PlacesInv
<1>5. Distinct(ready') /\ Apart(ready', Scheduled) /\ Apart(ready', Nested) /\ Outside(ready', done)
  BY <1>2, <1>3, <1>4, OneMore, Zenon DEF Once
<1>6. Once(ready', Scheduled', Nested', done')  BY <1>1, <1>4, <1>5 DEF Once
<1> QED  BY <1>1, <1>3, <1>6 DEF PlacesInv, AsyncTypes

\* A task that is scheduled was in no place either.
LEMMA DelayingKeepsPlaces ==
  ASSUME PlacesInv, NEW t \in Tasks, NEW ms \in Delays, Delay(t, ms) PROVE PlacesInv'
<1> DEFINE e == [deadline |-> clock + ms, task |-> t]
<1>1. t \in Unused /\ timers' = Append(timers, e) /\ clock + ms <= MaxClock
      /\ UNCHANGED <<clock, ready, stack, done>> /\ Nested' = Nested
  BY DEF Delay, Nested
<1>2. t \notin done /\ Outside(ready, {t}) /\ Outside(Scheduled, {t}) /\ Outside(Nested, {t})
  BY <1>1, UnusedIsNowhere
<1>3. e \in Timers /\ e.task = t
  <2>1. clock + ms \in Moments  BY <1>1, BoundAssumption DEF Moments, PlacesInv, AsyncTypes
  <2> QED  BY <2>1 DEF Timers
<1> HIDE DEF e
<1>4. timers' \in Seq(Timers) /\ Longer(timers', timers, e)
  BY <1>1, <1>3, AppendProperties, LenProperties DEF PlacesInv, AsyncTypes, Longer
<1>5. Longer(Scheduled', Scheduled, t)  BY <1>3, <1>4 DEF Scheduled, Longer
<1>6. Once(ready, Scheduled, Nested, done)  BY DEF PlacesInv
<1>7. Distinct(Scheduled') /\ Apart(ready, Scheduled') /\ Apart(Scheduled', Nested) /\ Outside(Scheduled', done)
  BY <1>2, <1>5, <1>6, OneMore, Zenon DEF Once
<1>8. Once(ready', Scheduled', Nested', done')  BY <1>1, <1>6, <1>7 DEF Once
<1> QED  BY <1>1, <1>4, <1>8 DEF PlacesInv, AsyncTypes

\* A task that returns leaves the stack and is done.
LEMMA ReturningKeepsPlaces == ASSUME PlacesInv, Return PROVE PlacesInv'
<1> DEFINE m == Len(stack)
           out == IF Top.who = Main THEN {} ELSE {Top.who}
<1>1. /\ m \in Nat \ {0} /\ Top = stack[m] /\ Top \in Frames
      /\ stack' \in Seq(Frames) /\ Len(stack') = m - 1 /\ \A i \in 1 .. m - 1 : stack'[i] = stack[i]
  BY LastAndFront DEF PlacesInv, AsyncTypes, Return, Code, Top
<1>2. done' = done \cup out /\ UNCHANGED <<clock, exec>> /\ Scheduled' = Scheduled
  BY DEF Return, Scheduled, exec
<1>3. out \subseteq Tasks  BY <1>1 DEF Frames
<1>4. Once(ready, Scheduled, Nested, done)  BY DEF PlacesInv
<1> HIDE DEF out, m
<1>5. /\ Len(Nested) = m /\ Len(Nested') = m - 1 /\ m \in 1 .. m
      /\ Nested[m] = Top.who /\ \A i \in 1 .. m - 1 : Nested'[i] = Nested[i] /\ i \in 1 .. m /\ i # m
  BY <1>1 DEF Nested, m
<1>6. out \subseteq {Nested[m]}  BY <1>5 DEF out
<1>7. Outside(ready, done') /\ Outside(Scheduled, done')
  BY <1>2, <1>4, <1>5, <1>6 DEF Once, Apart, Outside
<1>8. Distinct(Nested') /\ Apart(ready, Nested') /\ Apart(Scheduled, Nested')
  BY <1>4, <1>5 DEF Once, Apart, Distinct
<1>9. Outside(Nested', done')
  BY <1>2, <1>4, <1>5, <1>6 DEF Once, Distinct, Outside
<1>10. Once(ready', Scheduled', Nested', done')  BY <1>2, <1>4, <1>7, <1>8, <1>9 DEF Once, exec
<1> QED  BY <1>1, <1>2, <1>3, <1>10 DEF PlacesInv, AsyncTypes, exec

-----------------------------------------------------------------------------
(* xiom.async: the messages of the channel.                                *)

\* The frames that wait for room in the channel.
Sending == {k \in 1 .. Len(stack) : stack[k].doing = "send"}

\* The messages taken and the messages in the channel are numbered through.
QueueInv ==
  /\ items \in Seq(Nat) /\ received \in Seq(Nat) /\ pushed = Len(received) + Len(items)
  /\ \A i \in 1 .. Len(received) : received[i] = i
  /\ \A i \in 1 .. Len(items) : items[i] = Len(received) + i
  /\ Len(items) <= Cap \/ Cap = 0

\* Every frame that is to send has a message of its own.
RoomInv == pushed + Cardinality(Sending) <= MaxSends

\* The first message is taken.
LEMMA TakingKeepsQueue == ASSUME QueueInv, Take PROVE QueueInv' /\ pushed' = pushed
<1> DEFINE n == Len(items)
           r == Len(received)
<1>1. /\ n \in Nat \ {0} /\ r \in Nat /\ items' = Tail(items) /\ received' = Append(received, Head(items))
      /\ pushed' = pushed
  BY EmptySeq, LenProperties DEF QueueInv, Take
<1>2. /\ items' \in Seq(Nat) /\ Len(items') = n - 1
      /\ \A i \in 1 .. Len(items') : items'[i] = items[i + 1]
  BY <1>1, HeadTailProperties DEF QueueInv
<1>3. Head(items) = r + 1 /\ Head(items) \in Nat
  <2>1. Head(items) = items[1] /\ 1 \in 1 .. n  BY <1>1, HeadTailProperties DEF QueueInv
  <2> QED  BY <1>1, <2>1 DEF QueueInv
<1>4. /\ received' \in Seq(Nat) /\ Len(received') = r + 1 /\ received'[r + 1] = r + 1
      /\ \A i \in 1 .. r : received'[i] = received[i]
  BY <1>1, <1>3, AppendProperties DEF QueueInv
<1>5. \A i \in 1 .. n : items[i] = r + i  BY DEF QueueInv
<1>6. pushed = r + n /\ (n <= Cap \/ Cap = 0)  BY DEF QueueInv
<1>7. \A i \in 1 .. r : received[i] = i  BY DEF QueueInv
<1> HIDE DEF n, r
<1>8. pushed' = Len(received') + Len(items') /\ (Len(items') <= Cap \/ Cap = 0)
  <2>1. /\ \A a, b \in Nat : a + b = (a + 1) + (b - 1)
        /\ \A a, b \in Nat : a <= b => a - 1 <= b
    OBVIOUS
  <2>2. r + n = (r + 1) + (n - 1) /\ (n <= Cap => n - 1 <= Cap)  BY <1>1, <2>1, CapAssumption
  <2> QED  BY <1>1, <1>2, <1>4, <1>6, <2>2
<1>9. \A i \in 1 .. Len(received') : received'[i] = i  BY <1>1, <1>4, <1>7
<1>10. \A i \in 1 .. Len(items') : items'[i] = Len(received') + i
  <2>1. ASSUME NEW i \in 1 .. Len(items') PROVE items'[i] = Len(received') + i
    <3>1. i \in Nat /\ i + 1 \in 1 .. n  BY <1>1, <1>2
    <3>2. items'[i] = r + (i + 1)  BY <1>2, <1>5, <3>1
    <3>3. r + (i + 1) = (r + 1) + i  BY <1>1, <3>1
    <3> QED  BY <1>4, <3>2, <3>3, Zenon
  <2> QED  BY <2>1
<1> QED  BY <1>1, <1>2, <1>4, <1>8, <1>9, <1>10 DEF QueueInv

\* A message is queued behind the others, when there is room.
LEMMA SendingKeepsQueue ==
  ASSUME QueueInv, ~ Full, items' = Append(items, pushed + 1), pushed' = pushed + 1, received' = received
  PROVE  QueueInv'
<1> DEFINE n == Len(items)
           r == Len(received)
<1>1. n \in Nat /\ r \in Nat /\ pushed = r + n  BY LenProperties DEF QueueInv
<1>2. /\ items' \in Seq(Nat) /\ Len(items') = n + 1 /\ items'[n + 1] = pushed + 1
      /\ \A i \in 1 .. n : items'[i] = items[i]
  BY <1>1, AppendProperties DEF QueueInv
<1>3. n + 1 <= Cap \/ Cap = 0  BY <1>1, CapAssumption DEF Full
<1>4. \A i \in 1 .. n : items[i] = r + i  BY DEF QueueInv
<1> HIDE DEF n, r
<1>5. \A i \in 1 .. n + 1 : items'[i] = r + i
  <2>1. r + (n + 1) = pushed + 1  BY <1>1
  <2>2. \A i \in 1 .. n + 1 : i = n + 1 \/ i \in 1 .. n  BY <1>1
  <2> QED  BY <1>2, <1>4, <2>1, <2>2
<1>6. pushed + 1 = r + (n + 1)  BY <1>1
<1> QED  BY <1>2, <1>3, <1>5, <1>6 DEF QueueInv, r

\* Received and queued messages, one after the other, are the messages in their order.
LEMMA QueueIsFifo == ASSUME QueueInv PROVE FirstInFirstOut
<1> DEFINE n == Len(items)
           r == Len(received)
<1>1. n \in Nat /\ r \in Nat /\ pushed = r + n  BY LenProperties DEF QueueInv
<1>2. /\ received \o items \in Seq(Nat) /\ Len(received \o items) = r + n
      /\ \A i \in 1 .. r + n : (received \o items)[i] = IF i <= r THEN received[i] ELSE items[i - r]
  BY ConcatProperties DEF QueueInv
<1>3. /\ \A i \in 1 .. r : received[i] = i
      /\ \A i \in 1 .. n : items[i] = r + i
  BY DEF QueueInv
<1> HIDE DEF n, r
<1>4. \A i \in 1 .. r + n : (IF i <= r THEN received[i] ELSE items[i - r]) = i
  BY <1>1, <1>3
<1>5. received \o items = [i \in 1 .. r + n |-> (received \o items)[i]]  BY <1>2, LenProperties
<1> QED  BY <1>1, <1>2, <1>4, <1>5 DEF FirstInFirstOut

\* A frame waits for room, or does no longer, as it goes on at another place.
LEMMA SendingAfterGoes ==
  ASSUME AsyncTypes, stack # <<>>, NEW doing \in {"code", "run", "sleep", "send", "recv"},
         NEW until \in Moments, Goes(doing, until)
  PROVE  /\ IsFiniteSet(Sending) /\ IsFiniteSet(Sending')
         /\ Top.doing = doing => Sending' = Sending
         /\ Top.doing # "send" /\ doing # "send" => Sending' = Sending
         /\ Top.doing = "send" /\ doing # "send" => Cardinality(Sending') = Cardinality(Sending) - 1
         /\ Top.doing # "send" /\ doing = "send" => Cardinality(Sending') = Cardinality(Sending) + 1
<1> DEFINE n == Len(stack)
<1>1. /\ n \in Nat \ {0} /\ Top = stack[n] /\ Len(stack') = n
      /\ \A k \in 1 .. n : stack'[k].doing = IF k = n THEN doing ELSE stack[k].doing
  BY FrameGoes, LastAndFront DEF AsyncTypes, Top
<1>2. Sending = {k \in 1 .. n : stack[k].doing = "send"} /\ Sending' = {k \in 1 .. n : stack'[k].doing = "send"}
  BY <1>1 DEF Sending
<1> HIDE DEF n
<1>3. IsFiniteSet(Sending) /\ IsFiniteSet(Sending')
  <2>1. n \in Int /\ 1 \in Int  BY <1>1
  <2>2. IsFiniteSet(1 .. n)  BY <2>1, FS_Interval
  <2>3. Sending \subseteq 1 .. n /\ Sending' \subseteq 1 .. n  BY <1>2
  <2> QED  BY <2>2, <2>3, FS_Subset
<1>4. Top.doing = doing => Sending' = Sending  BY <1>1, <1>2
<1>5. Top.doing # "send" /\ doing # "send" => Sending' = Sending  BY <1>1, <1>2
<1>6. Top.doing = "send" /\ doing # "send" => n \in Sending /\ Sending' = Sending \ {n}  BY <1>1, <1>2
<1>7. Top.doing # "send" /\ doing = "send" => n \notin Sending /\ Sending' = Sending \cup {n}  BY <1>1, <1>2
<1> QED  BY <1>3, <1>4, <1>5, <1>6, <1>7, FS_RemoveElement, FS_AddElement

\* The frames that wait for room are the same when a task is run on top of them, and when
\* one that does not wait returns.
LEMMA SendingStays ==
  ASSUME AsyncTypes, RunReady \/ Return
  PROVE  Sending' = Sending
<1>1. Len(stack) \in Nat  BY LenProperties DEF AsyncTypes
<1>2. CASE RunReady
  <2> DEFINE f == Frame(Last(ready), "code", 0)
  <2>1. stack' = Append(stack, f)  BY <1>2 DEF RunReady
  <2>2. f.doing = "code"  BY DEF Frame
  <2> HIDE DEF f
  <2>3. /\ Len(stack') = Len(stack) + 1 /\ stack'[Len(stack) + 1].doing = "code"
        /\ \A k \in 1 .. Len(stack) : stack'[k] = stack[k]
    <3>1. Last(ready) \in Tasks  BY <1>2, LastAndFront DEF AsyncTypes, RunReady
    <3>2. f \in Frames  BY <3>1, BoundAssumption DEF f, Frame, Frames, Moments
    <3> QED  BY <2>1, <2>2, <3>2, AppendProperties DEF AsyncTypes
  <2> QED  BY <1>1, <2>3 DEF Sending
<1>3. CASE Return
  <2>1. /\ Len(stack) \in Nat \ {0} /\ stack[Len(stack)].doing = "code" /\ Len(stack') = Len(stack) - 1
        /\ \A k \in 1 .. Len(stack) - 1 : stack'[k] = stack[k]
    BY <1>3, LastAndFront DEF AsyncTypes, Return, Code, Top
  <2> QED  BY <2>1 DEF Sending
<1> QED  BY <1>2, <1>3

-----------------------------------------------------------------------------
(* xiom.async: both together, in every run.                                *)

\* The inductive invariant.
AsyncInv == PlacesInv /\ QueueInv /\ RoomInv

\* In the first state the main program is alone.
LEMMA AsyncInitEstablishes == AsyncInit => AsyncInv
<1> SUFFICES ASSUME AsyncInit PROVE AsyncInv  OBVIOUS
<1> DEFINE f == Frame(Main, "code", 0)
<1>1. /\ clock = 0 /\ ready = <<>> /\ timers = <<>> /\ stack = <<f>> /\ items = <<>> /\ received = <<>>
      /\ pushed = 0 /\ done = {}
  BY DEF AsyncInit
<1>2. f \in Frames /\ f.doing = "code"  BY BoundAssumption DEF Frame, Frames, Moments
<1> HIDE DEF f
<1>3. AsyncTypes  BY <1>1, <1>2, BoundAssumption DEF AsyncTypes, Moments
<1>4. Len(ready) = 0 /\ Len(Scheduled) = 0 /\ Len(Nested) = 1 /\ Len(stack) = 1
  BY <1>1 DEF Scheduled, Nested
<1>5. Once(ready, Scheduled, Nested, done)
  BY <1>1, <1>4 DEF Once, Distinct, Apart, Outside
<1>6. QueueInv  BY <1>1, CapAssumption DEF QueueInv
<1>7. Sending = {}  BY <1>1, <1>2, <1>4 DEF Sending
<1>8. RoomInv  BY <1>1, <1>7, FS_EmptySet, BoundAssumption DEF RoomInv
<1> QED  BY <1>3, <1>5, <1>6, <1>8 DEF AsyncInv, PlacesInv

\* Pumping moves tasks and leaves the channel alone.
LEMMA PumpKeepsInv == ASSUME AsyncInv, Pump PROVE AsyncInv'
<1>1. PlacesInv /\ QueueInv /\ RoomInv /\ AsyncTypes  BY DEF AsyncInv, PlacesInv
<1>2. PlacesInv'  BY <1>1, RunKeepsPlaces, FiringKeepsPlaces DEF Pump
<1>3. UNCHANGED channel  BY DEF Pump, RunReady, FireTimers
<1>4. QueueInv'  BY <1>1, <1>3 DEF QueueInv, channel
<1>5. Sending' = Sending
  <2>1. CASE RunReady  BY <1>1, <2>1, SendingStays
  <2>2. CASE FireTimers  BY <2>2 DEF FireTimers, Sending
  <2> QED  BY <2>1, <2>2 DEF Pump
<1>6. RoomInv'  BY <1>1, <1>3, <1>5 DEF RoomInv, channel
<1> QED  BY <1>2, <1>4, <1>6 DEF AsyncInv

\* The steps by which the frame on top goes on at another place.
LEMMA GoingKeepsInv ==
  ASSUME AsyncInv, RunReturns \/ SleepReturns \/ SendDone \/ RecvDone \/ Run \/ Send \/ Recv
                   \/ \E ms \in Delays : Sleep(ms)
  PROVE  AsyncInv'
<1>1. /\ PlacesInv /\ QueueInv /\ RoomInv /\ AsyncTypes
      /\ pushed \in Nat /\ Cardinality(Sending) \in Nat
      /\ clock \in Nat /\ clock <= MaxClock /\ 0 \in Moments
  <2>1. Sending \subseteq 1 .. Len(stack) /\ Len(stack) \in Nat
    BY LenProperties DEF Sending, AsyncInv, PlacesInv, AsyncTypes
  <2>2. IsFiniteSet(1 .. Len(stack))  BY <2>1, FS_Interval
  <2>3. IsFiniteSet(Sending)  BY <2>1, <2>2, FS_Subset
  <2> QED  BY <2>3, FS_CardinalityType, LenProperties, BoundAssumption
           DEF AsyncInv, PlacesInv, QueueInv, AsyncTypes, Moments
<1>2. ASSUME NEW doing \in {"code", "run", "sleep", "send", "recv"}, NEW until \in Moments,
             stack # <<>>, Goes(doing, until), UNCHANGED <<clock, exec, done>>
      PROVE  PlacesInv'
  <2>1. stack' \in Seq(Frames) /\ Nested' = Nested  BY <1>1, <1>2, FrameGoes
  <2>2. clock' \in Moments  BY <1>1, <1>2 DEF AsyncTypes
  <2> QED  BY <1>1, <1>2, <2>1, <2>2, PlacesStay
<1>3. CASE RunReturns \/ SleepReturns \/ Run \/ Recv \/ \E ms \in Delays : Sleep(ms)
  <2>1. \E doing \in {"code", "run", "sleep", "recv"}, until \in Moments :
          Goes(doing, until) /\ stack # <<>> /\ Top.doing # "send" /\ UNCHANGED <<clock, exec, channel, done>>
    <3>1. CASE \E ms \in Delays : Sleep(ms)
      <4>1. PICK ms \in Delays : Sleep(ms)  BY <3>1
      <4>2. clock + ms \in Moments  BY <1>1, <4>1, BoundAssumption DEF Sleep, Moments
      <4> QED  BY <4>1, <4>2 DEF Sleep, Code
    <3> QED  BY <1>1, <1>3, <3>1 DEF RunReturns, SleepReturns, Run, Recv, In, Code
  <2>2. PICK doing \in {"code", "run", "sleep", "recv"}, until \in Moments :
          Goes(doing, until) /\ stack # <<>> /\ Top.doing # "send" /\ UNCHANGED <<clock, exec, channel, done>>
    BY <2>1
  <2>3. PlacesInv'  BY <1>2, <2>2
  <2>4. Sending' = Sending  BY <1>1, <2>2, SendingAfterGoes
  <2> QED  BY <1>1, <2>2, <2>3, <2>4 DEF AsyncInv, QueueInv, RoomInv, channel
<1>4. CASE RecvDone
  <2>1. Goes("code", 0) /\ stack # <<>> /\ Top.doing = "recv" /\ Take /\ UNCHANGED <<clock, exec, done>>
    BY <1>4 DEF RecvDone, In
  <2>2. PlacesInv'  BY <1>1, <1>2, <2>1
  <2>3. Sending' = Sending  BY <1>1, <2>1, SendingAfterGoes
  <2>4. QueueInv' /\ pushed' = pushed  BY <1>1, <2>1, TakingKeepsQueue
  <2> QED  BY <1>1, <2>2, <2>3, <2>4 DEF AsyncInv, RoomInv
<1>5. CASE Send
  <2>1. /\ Goes("send", 0) /\ stack # <<>> /\ Top.doing = "code" /\ UNCHANGED <<clock, exec, channel, done>>
        /\ pushed + Cardinality({k \in DOMAIN stack : stack[k].doing = "send"}) < MaxSends
    BY <1>5 DEF Send, Code
  <2>2. PlacesInv'  BY <1>1, <1>2, <2>1
  <2>3. Cardinality(Sending') = Cardinality(Sending) + 1  BY <1>1, <2>1, SendingAfterGoes
  <2>4. {k \in DOMAIN stack : stack[k].doing = "send"} = Sending
    BY <1>1, LenProperties DEF AsyncTypes, Sending
  <2>5. \A p, c \in Nat : p + c < MaxSends => p + (c + 1) <= MaxSends  BY BoundAssumption
  <2>6. pushed' = pushed /\ pushed + Cardinality(Sending) < MaxSends  BY <2>1, <2>4 DEF channel
  <2>7. RoomInv'  BY <1>1, <2>3, <2>5, <2>6 DEF RoomInv
  <2> QED  BY <1>1, <2>1, <2>2, <2>7 DEF AsyncInv, QueueInv, channel
<1>6. CASE SendDone
  <2>1. /\ Goes("code", 0) /\ stack # <<>> /\ Top.doing = "send" /\ UNCHANGED <<clock, exec, done>>
        /\ ~ Full /\ items' = Append(items, pushed + 1) /\ pushed' = pushed + 1 /\ received' = received
    BY <1>6 DEF SendDone, In
  <2>2. PlacesInv'  BY <1>1, <1>2, <2>1
  <2>3. QueueInv'  BY <1>1, <2>1, SendingKeepsQueue
  <2>4. Cardinality(Sending') = Cardinality(Sending) - 1  BY <1>1, <2>1, SendingAfterGoes
  <2>5. RoomInv'  BY <1>1, <2>1, <2>4, BoundAssumption DEF RoomInv
  <2> QED  BY <2>2, <2>3, <2>5 DEF AsyncInv
<1> QED  BY <1>3, <1>4, <1>5, <1>6

\* The steps that leave the stack alone, and no task anywhere else.
LEMMA StandingKeepsInv ==
  ASSUME AsyncInv, SleepIdle \/ Panic \/ TryRecv \/ Close \/ Tick \/ UNCHANGED asyncVars
  PROVE  AsyncInv'
<1>1. /\ PlacesInv /\ QueueInv /\ RoomInv /\ clock \in Moments /\ stack \in Seq(Frames)
  BY DEF AsyncInv, PlacesInv, AsyncTypes
<1>2. stack' = stack /\ UNCHANGED <<exec, done>>
  BY DEF SleepIdle, Panic, TryRecv, Close, Tick, asyncVars
<1>3. clock' \in Moments
  <2>1. CASE SleepIdle
    <3>1. clock' = Top.until /\ stack # <<>>  BY <2>1 DEF SleepIdle, In
    <3>2. Top \in Frames  BY <1>1, <3>1, LastAndFront DEF Top
    <3> QED  BY <3>1, <3>2 DEF Frames
  <2>2. CASE Tick  BY <1>1, <2>2, BoundAssumption DEF Tick, Moments
  <2>3. CASE Panic \/ TryRecv \/ Close \/ UNCHANGED asyncVars
    BY <1>1, <2>3 DEF Panic, TryRecv, Close, asyncVars
  <2> QED  BY <2>1, <2>2, <2>3
<1>4. PlacesInv'  BY <1>1, <1>2, <1>3, PlacesStay DEF Nested
<1>5. QueueInv' /\ pushed' = pushed
  <2>1. CASE TryRecv  BY <1>1, <2>1, TakingKeepsQueue DEF TryRecv
  <2>2. CASE SleepIdle \/ Panic \/ Close \/ Tick \/ UNCHANGED asyncVars
    BY <1>1, <2>2 DEF SleepIdle, Panic, Close, Tick, asyncVars, channel, QueueInv
  <2> QED  BY <2>1, <2>2
<1>6. RoomInv'  BY <1>1, <1>2, <1>5 DEF RoomInv, Sending
<1> QED  BY <1>4, <1>5, <1>6 DEF AsyncInv

\* A task begins its wait, or comes to its end.
LEMMA TaskStepKeepsInv ==
  ASSUME AsyncInv, \/ \E t \in Tasks : Spawn(t) \/ \E ms \in Delays : Delay(t, ms)
                   \/ Return
  PROVE  AsyncInv'
<1>1. PlacesInv /\ QueueInv /\ RoomInv /\ AsyncTypes  BY DEF AsyncInv, PlacesInv
<1>2. PlacesInv'  BY <1>1, SpawningKeepsPlaces, DelayingKeepsPlaces, ReturningKeepsPlaces
<1>3. UNCHANGED channel  BY DEF Spawn, Delay, Return
<1>4. Sending' = Sending
  <2>1. CASE Return  BY <1>1, <2>1, SendingStays
  <2>2. CASE \E t \in Tasks : Spawn(t) \/ \E ms \in Delays : Delay(t, ms)
    BY <2>2 DEF Spawn, Delay, Sending
  <2> QED  BY <2>1, <2>2
<1> QED  BY <1>1, <1>2, <1>3, <1>4 DEF AsyncInv, QueueInv, RoomInv, channel

\* Tasks are in their places, and messages in their order, in every run.
THEOREM ExecutorInvariant == AsyncSpec => []AsyncInv
<1>1. AsyncInit => AsyncInv  BY AsyncInitEstablishes
<1>2. ASSUME AsyncInv, [AsyncNext]_asyncVars PROVE AsyncInv'
  <2>1. CASE RunLoop \/ SleepLoop \/ SendLoop \/ RecvLoop
    BY <1>2, <2>1, PumpKeepsInv DEF RunLoop, SleepLoop, SendLoop, RecvLoop
  <2>2. CASE \/ RunReturns \/ SleepReturns \/ SendDone \/ RecvDone \/ Run \/ Send \/ Recv
             \/ \E ms \in Delays : Sleep(ms)
    BY <1>2, <2>2, GoingKeepsInv
  <2>3. CASE SleepIdle \/ Panic \/ TryRecv \/ Close \/ Tick \/ UNCHANGED asyncVars
    BY <1>2, <2>3, StandingKeepsInv
  <2>4. CASE (\E t \in Tasks : Spawn(t) \/ \E ms \in Delays : Delay(t, ms)) \/ Return
    BY <1>2, <2>4, TaskStepKeepsInv
  <2> QED  BY <1>2, <2>1, <2>2, <2>3, <2>4 DEF AsyncNext, Library, Program
<1> QED  BY <1>1, <1>2, PTL DEF AsyncSpec

\* Messages come out in the order in which they were queued, however deep their receivers
\* are nested.
THEOREM MessagesStayInOrder == AsyncSpec => []FirstInFirstOut
<1>1. AsyncInv => FirstInFirstOut  BY QueueIsFifo DEF AsyncInv
<1> QED  BY <1>1, ExecutorInvariant, PTL

\* With the places apart, the sequence of all of them has every task at most once.
LEMMA PlacesAreInjective ==
  ASSUME NEW R, NEW r \in Seq(R), NEW T, NEW t \in Seq(T), NEW S, NEW s \in Seq(S), NEW d, Once(r, t, s, d)
  PROVE  IsInjective(r \o t \o s) /\ ToSet(r \o t \o s) \cap d = {}
<1> DEFINE U == R \cup T \cup S
           a == Len(r)
           b == Len(t)
           c == Len(s)
           e == r \o t \o s
<1>1. a \in Nat /\ b \in Nat /\ c \in Nat  BY LenProperties
<1>2. r \in Seq(U) /\ t \in Seq(U) /\ s \in Seq(U)
  <2>1. \A i \in 1 .. a : r[i] \in U  BY ElementOfSeq
  <2>2. \A i \in 1 .. b : t[i] \in U  BY ElementOfSeq
  <2>3. \A i \in 1 .. c : s[i] \in U  BY ElementOfSeq
  <2>4. r = [i \in 1 .. a |-> r[i]] /\ t = [i \in 1 .. b |-> t[i]] /\ s = [i \in 1 .. c |-> s[i]]
    BY LenProperties
  <2> HIDE DEF U, a, b, c
  <2>5. /\ [i \in 1 .. a |-> r[i]] \in Seq(U) /\ [i \in 1 .. b |-> t[i]] \in Seq(U)
        /\ [i \in 1 .. c |-> s[i]] \in Seq(U)
    BY <1>1, <2>1, <2>2, <2>3
  <2> QED  BY <2>4, <2>5
<1>3. /\ r \o t \in Seq(U) /\ Len(r \o t) = a + b
      /\ \A i \in 1 .. a + b : (r \o t)[i] = IF i <= a THEN r[i] ELSE t[i - a]
  BY <1>2, ConcatProperties
<1>4. /\ e \in Seq(U) /\ Len(e) = a + b + c
      /\ \A i \in 1 .. a + b + c : e[i] = IF i <= a + b THEN (r \o t)[i] ELSE s[i - (a + b)]
  BY <1>2, <1>3, ConcatProperties
<1>5. DOMAIN e = 1 .. a + b + c  BY <1>4, LenProperties
<1> HIDE DEF a, b, c, e
<1>6. ASSUME NEW i \in 1 .. a + b + c
      PROVE  \/ i \in 1 .. a /\ e[i] = r[i]
             \/ i - a \in 1 .. b /\ e[i] = t[i - a]
             \/ i - (a + b) \in 1 .. c /\ e[i] = s[i - (a + b)]
  <2>1. CASE i <= a
    <3>1. i \in 1 .. a /\ i \in 1 .. a + b /\ i <= a + b  BY <1>1, <2>1
    <3>2. e[i] = r[i]  BY <1>3, <1>4, <2>1, <3>1
    <3> QED  BY <3>1, <3>2
  <2>2. CASE a < i /\ i <= a + b
    <3>1. i - a \in 1 .. b /\ i \in 1 .. a + b /\ ~ (i <= a)  BY <1>1, <2>2
    <3>2. e[i] = t[i - a]  BY <1>3, <1>4, <2>2, <3>1
    <3> QED  BY <3>1, <3>2
  <2>3. CASE a + b < i  BY <1>1, <1>4, <2>3
  <2> QED  BY <1>1, <2>1, <2>2, <2>3
<1>7. /\ \A i, j \in 1 .. a : r[i] = r[j] => i = j
      /\ \A i, j \in 1 .. b : t[i] = t[j] => i = j
      /\ \A i, j \in 1 .. c : s[i] = s[j] => i = j
      /\ \A i \in 1 .. a, j \in 1 .. b : r[i] # t[j]
      /\ \A i \in 1 .. a, j \in 1 .. c : r[i] # s[j]
      /\ \A i \in 1 .. b, j \in 1 .. c : t[i] # s[j]
  BY DEF Once, Distinct, Apart, a, b, c
<1>8. /\ \A i \in 1 .. a : r[i] \notin d
      /\ \A i \in 1 .. b : t[i] \notin d
      /\ \A i \in 1 .. c : s[i] \notin d
  BY DEF Once, Outside, a, b, c
<1>9. ASSUME NEW i \in 1 .. a + b + c, NEW j \in 1 .. a + b + c, e[i] = e[j] PROVE i = j
  <2>1. CASE i \in 1 .. a /\ e[i] = r[i]
    <3>1. j \in 1 .. a /\ e[j] = r[j]  BY <1>6, <1>7, <1>9, <2>1
    <3> QED  BY <1>7, <1>9, <2>1, <3>1
  <2>2. CASE i - a \in 1 .. b /\ e[i] = t[i - a]
    <3>1. j - a \in 1 .. b /\ e[j] = t[j - a]  BY <1>6, <1>7, <1>9, <2>2
    <3>2. i - a = j - a  BY <1>7, <1>9, <2>2, <3>1
    <3> QED  BY <1>1, <3>2
  <2>3. CASE i - (a + b) \in 1 .. c /\ e[i] = s[i - (a + b)]
    <3>1. j - (a + b) \in 1 .. c /\ e[j] = s[j - (a + b)]  BY <1>6, <1>7, <1>9, <2>3
    <3>2. i - (a + b) = j - (a + b)  BY <1>7, <1>9, <2>3, <3>1
    <3> QED  BY <1>1, <3>2
  <2> QED  BY <1>6, <2>1, <2>2, <2>3
<1>10. IsInjective(e)  BY <1>5, <1>9 DEF IsInjective
<1>11. ToSet(e) \cap d = {}  BY <1>5, <1>6, <1>8 DEF ToSet
<1> QED  BY <1>10, <1>11 DEF e

\* A task that was spawned or scheduled waits in one place, or is on the stack once, or has
\* run, and what the executor keeps stays in its bounds.
THEOREM NoTaskIsLostOrRunTwice == AsyncSpec => []TasksRunOnce
<1>1. ASSUME AsyncInv PROVE TypeOK
  <2>1. AsyncTypes /\ QueueInv /\ pushed + Cardinality(Sending) <= MaxSends  BY <1>1 DEF AsyncInv, PlacesInv, RoomInv
  <2>2. IsFiniteSet(Sending)
    <3>1. Sending \subseteq 1 .. Len(stack) /\ IsFiniteSet(1 .. Len(stack))
      BY <2>1, LenProperties, FS_Interval DEF AsyncTypes, Sending
    <3> QED  BY <3>1, FS_Subset
  <2>3. Len(items) \in Nat /\ Len(received) \in Nat /\ pushed = Len(received) + Len(items)
    BY <2>1, LenProperties DEF QueueInv
  <2>4. pushed <= MaxSends
    <3>1. Cardinality(Sending) \in Nat  BY <2>2, FS_CardinalityType
    <3>2. \A p, c \in Nat : p + c <= MaxSends => p <= MaxSends  BY BoundAssumption
    <3> QED  BY <2>1, <2>3, <3>1, <3>2
  <2>5. items \in Seq(1 .. MaxSends) /\ received \in Seq(1 .. MaxSends)
    <3>1. \A i \in 1 .. Len(items) : items[i] \in 1 .. MaxSends
      BY <2>1, <2>3, <2>4, BoundAssumption DEF QueueInv
    <3>2. \A i \in 1 .. Len(received) : received[i] \in 1 .. MaxSends
      BY <2>1, <2>3, <2>4, BoundAssumption DEF QueueInv
    <3>3. items = [i \in 1 .. Len(items) |-> items[i]] /\ received = [i \in 1 .. Len(received) |-> received[i]]
      BY <2>1, LenProperties DEF QueueInv
    <3>4. [i \in 1 .. Len(items) |-> items[i]] \in Seq(1 .. MaxSends)  BY <2>3, <3>1
    <3>5. [i \in 1 .. Len(received) |-> received[i]] \in Seq(1 .. MaxSends)  BY <2>3, <3>2
    <3> QED  BY <3>3, <3>4, <3>5
  <2>6. /\ \A k \in DOMAIN timers : timers[k] \in Timers
        /\ \A k \in DOMAIN stack : stack[k] \in Frames
    BY <2>1, LenProperties, ElementOfSeq DEF AsyncTypes
  <2> QED  BY <2>1, <2>5, <2>6 DEF TypeOK, AsyncTypes, Timers, Frames, Moments, QueueInv
<1>2. ASSUME AsyncInv PROVE TasksRunOnce
  <2>1. AsyncTypes /\ Once(ready, Scheduled, Nested, done)  BY <1>2 DEF AsyncInv, PlacesInv
  <2>2. DOMAIN timers = 1 .. Len(timers) /\ DOMAIN stack = 1 .. Len(stack)
        /\ Len(timers) \in Nat /\ Len(stack) \in Nat
    BY <2>1, LenProperties DEF AsyncTypes
  <2>3. /\ [k \in DOMAIN timers |-> timers[k].task] = Scheduled
        /\ [k \in DOMAIN stack |-> stack[k].who] = Nested
    BY <2>2 DEF Scheduled, Nested
  <2>4. Scheduled \in Seq(Tasks) /\ Nested \in Seq(Tasks \cup {Main})
    <3>1. \A k \in 1 .. Len(timers) : timers[k] \in Timers  BY <2>1, ElementOfSeq DEF AsyncTypes
    <3>2. \A k \in 1 .. Len(stack) : stack[k] \in Frames  BY <2>1, ElementOfSeq DEF AsyncTypes
    <3>3. \A k \in 1 .. Len(timers) : timers[k].task \in Tasks  BY <3>1 DEF Timers
    <3>4. \A k \in 1 .. Len(stack) : stack[k].who \in Tasks \cup {Main}  BY <3>2 DEF Frames
    <3> QED  BY <2>2, <3>3, <3>4 DEF Scheduled, Nested
  <2>5. /\ IsInjective(ready \o Scheduled \o Nested)
        /\ ToSet(ready \o Scheduled \o Nested) \cap done = {}
    BY <2>1, <2>4, PlacesAreInjective DEF AsyncTypes
  <2> QED  BY <1>1, <1>2, <2>3, <2>5 DEF TasksRunOnce
<1> QED  BY <1>2, ExecutorInvariant, PTL

\* A timer fires at its deadline or later, never before.
THEOREM TimersWait == AsyncSpec => TimersAreNotEarly
<1> DEFINE Fired == \A k \in DOMAIN timers :
                      (\A j \in DOMAIN timers' : timers'[j] # timers[k]) => timers[k].deadline <= clock'
<1>1. ASSUME AsyncInv, AsyncNext PROVE Fired
  <2>1. timers \in Seq(Timers) /\ DOMAIN timers = 1 .. Len(timers) /\ Len(timers) \in Nat
    BY <1>1, LenProperties DEF AsyncInv, PlacesInv, AsyncTypes
  <2>2. CASE timers' = timers  BY <2>2
  <2>3. CASE \E t \in Tasks, ms \in Delays : Delay(t, ms)
    <3>1. PICK e : timers' = Append(timers, e)  BY <2>3 DEF Delay
    <3>2. DOMAIN timers' = 1 .. Len(timers) + 1 /\ \A k \in 1 .. Len(timers) : timers'[k] = timers[k]
      BY <2>1, <3>1 
    <3> QED  BY <2>1, <3>2
  <2>4. CASE FireTimers
    <3> DEFINE due == {k \in DOMAIN timers : timers[k].deadline <= clock'}
               rest == DOMAIN timers \ due
    <3>1. timers' = Selected(timers, rest)  BY <2>4 DEF FireTimers
    <3>2. timers' \in Seq(Timers) /\ DOMAIN timers' = 1 .. Len(timers')
      BY <2>1, <3>1, SomeTimers, LenProperties
    <3>3. ASSUME NEW k \in DOMAIN timers, k \in rest PROVE \E j \in DOMAIN timers' : timers'[j] = timers[k]
      BY <2>1, <3>1, <3>2, <3>3, SomeTimers
    <3>4. \A k \in DOMAIN timers : k \in rest \/ timers[k].deadline <= clock'  OBVIOUS
    <3> HIDE DEF due, rest
    <3> QED  BY <3>3, <3>4
  <2>5. timers' = timers \/ (\E t \in Tasks, ms \in Delays : Delay(t, ms)) \/ FireTimers
    BY <1>1 DEF AsyncNext, Library, Program, RunLoop, RunReturns, SleepLoop, SleepIdle, SleepReturns, SendLoop,
                SendDone, RecvLoop, RecvDone, Panic, Pump, RunReady, Spawn, Run, Send, Recv, TryRecv, Close,
                Return, Sleep, Tick, exec
  <2> QED  BY <2>2, <2>3, <2>4, <2>5
<1>2. AsyncInv /\ [AsyncNext]_asyncVars => [Fired]_asyncVars  BY <1>1
<1>3. [][Fired]_asyncVars => TimersAreNotEarly  BY DEF TimersAreNotEarly
<1> QED  BY <1>2, <1>3, ExecutorInvariant, PTL DEF AsyncSpec
-----------------------------------------------------------------------------
(* The quoting of arguments: reading a text takes the child's parser from  *)
(* one state to another.                                                   *)

\* A state of the parser; a run of it over a text, and what a text takes it to.
ParserAt(argv, word, bs, quoted, open) ==
  [argv |-> argv, word |-> word, bs |-> bs, inside |-> quoted, open |-> open]

ParserStates == [argv : Seq(Seq(Chars)), word : Seq(Chars), bs : Nat, inside : BOOLEAN, open : BOOLEAN]

ReadBy(g, st, text) ==
  /\ g \in [0 .. Len(text) -> ParserStates] /\ g[0] = st
  /\ \A k \in 1 .. Len(text) : g[k] = ParseChar(g[k - 1], text[k])

Reads(st, text, end) == \E g : ReadBy(g, st, text) /\ g[Len(text)] = end

\* Backslashes are characters, and one more of them is one more.
LEMMA BackslashFacts ==
  ASSUME NEW n \in Nat
  PROVE  /\ Backslashes(n) \in Seq(Chars) /\ Len(Backslashes(n)) = n
         /\ \A k \in 1 .. n : Backslashes(n)[k] = "bs"
         /\ Backslashes(0) = <<>> /\ Backslashes(n + 1) = Append(Backslashes(n), "bs")
<1>1. ASSUME NEW m \in Nat
      PROVE  /\ Backslashes(m) \in Seq(Chars) /\ Len(Backslashes(m)) = m
             /\ \A k \in 1 .. m : Backslashes(m)[k] = "bs"
  <2>1. Backslashes(m) \in [1 .. m -> Chars]  BY DEF Backslashes, Chars
  <2> QED  BY <2>1 DEF Backslashes
<1>2. Backslashes(0) = <<>>
  <2>1. Backslashes(0) \in Seq(Chars) /\ Len(Backslashes(0)) = 0  BY <1>1
  <2> QED  BY <2>1, EmptySeq
<1>3. Backslashes(n + 1) = Append(Backslashes(n), "bs")
  <2> DEFINE s == Backslashes(n + 1)
             t == Append(Backslashes(n), "bs")
  <2>1. n + 1 \in Nat /\ "bs" \in Chars  BY DEF Chars
  <2>2. s \in Seq(Chars) /\ Len(s) = n + 1 /\ \A k \in 1 .. n + 1 : s[k] = "bs"  BY <1>1, <2>1
  <2>3. /\ t \in Seq(Chars) /\ Len(t) = n + 1 /\ t[n + 1] = "bs"
        /\ \A k \in 1 .. n : t[k] = "bs"
    BY <1>1, <2>1, AppendProperties
  <2> HIDE DEF s, t
  <2>4. \A k \in 1 .. n + 1 : s[k] = t[k]
    <3>1. \A k \in 1 .. n + 1 : k \in 1 .. n \/ k = n + 1  OBVIOUS
    <3> QED  BY <2>2, <2>3, <3>1
  <2>5. s = t  BY <2>2, <2>3, <2>4, SeqEqual
  <2> QED  BY <2>5 DEF s, t
<1> QED  BY <1>1, <1>2, <1>3

\* What the parser does with a character, state by state.
LEMMA ParserSteps ==
  ASSUME NEW A \in Seq(Seq(Chars)), NEW w \in Seq(Chars), NEW b \in Nat,
         NEW i \in BOOLEAN, NEW o \in BOOLEAN
  PROVE  /\ ParserAt(A, w, b, i, o) \in ParserStates
         /\ ParseChar(ParserAt(A, w, b, i, o), "bs") = ParserAt(A, w, b + 1, i, TRUE)
         /\ b % 2 = 1 => ParseChar(ParserAt(A, w, b, i, o), "quote")
                           = ParserAt(A, Append(w \o Backslashes(b \div 2), "quote"), 0, i, o)
         /\ b % 2 # 1 => ParseChar(ParserAt(A, w, b, i, o), "quote")
                           = ParserAt(A, w \o Backslashes(b \div 2), 0, ~ i, TRUE)
         /\ ParseChar(ParserAt(A, w, b, FALSE, TRUE), "blank")
              = Between(Append(A, w \o Backslashes(b)))
         /\ ParseChar(ParserAt(A, w, b, FALSE, FALSE), "blank") = Between(A)
         /\ ParseChar(ParserAt(A, w, b, TRUE, o), "blank")
              = ParserAt(A, Append(w \o Backslashes(b), "blank"), 0, TRUE, TRUE)
         /\ ParseChar(ParserAt(A, w, b, i, o), "letter")
              = ParserAt(A, Append(w \o Backslashes(b), "letter"), 0, i, TRUE)
  BY DEF ParserAt, ParserStates, ParseChar, Between

\* Reading keeps to the states.
LEMMA ParserStays ==
  ASSUME NEW st \in ParserStates, NEW c \in Chars PROVE ParseChar(st, c) \in ParserStates
<1>1. PICK A \in Seq(Seq(Chars)), w \in Seq(Chars), b \in Nat, i \in BOOLEAN, o \in BOOLEAN :
        st = ParserAt(A, w, b, i, o)
  <2>1. st = ParserAt(st.argv, st.word, st.bs, st.inside, st.open)  BY DEF ParserStates, ParserAt
  <2>2. /\ st.argv \in Seq(Seq(Chars)) /\ st.word \in Seq(Chars) /\ st.bs \in Nat
        /\ st.inside \in BOOLEAN /\ st.open \in BOOLEAN
    BY DEF ParserStates
  <2> QED  BY <2>1, <2>2, Zenon
<1>2. b \div 2 \in Nat /\ b + 1 \in Nat /\ 0 \in Nat /\ TRUE \in BOOLEAN  OBVIOUS
<1>3. w \o Backslashes(b) \in Seq(Chars) /\ w \o Backslashes(b \div 2) \in Seq(Chars)
  BY <1>2, BackslashFacts, ConcatProperties
<1>4. /\ Append(w \o Backslashes(b), c) \in Seq(Chars)
      /\ Append(w \o Backslashes(b \div 2), c) \in Seq(Chars)
      /\ Append(A, w \o Backslashes(b)) \in Seq(Seq(Chars)) /\ <<>> \in Seq(Chars)
  BY <1>3
<1>5. \A v \in Seq(Seq(Chars)) : Between(v) \in ParserStates  BY DEF Between, ParserStates
<1>6. CASE c = "bs"
  <2>1. ParseChar(st, c) = ParserAt(A, w, b + 1, i, TRUE)  BY <1>1, <1>6, ParserSteps
  <2> QED  BY <1>2, <2>1 DEF ParserAt, ParserStates
<1>7. CASE c = "letter"
  <2>1. ParseChar(st, c) = ParserAt(A, Append(w \o Backslashes(b), c), 0, i, TRUE)
    BY <1>1, <1>7, ParserSteps
  <2> QED  BY <1>2, <1>4, <2>1 DEF ParserAt, ParserStates
<1>8. CASE c = "blank"
  <2>1. CASE i = TRUE
    <3>1. ParseChar(st, c) = ParserAt(A, Append(w \o Backslashes(b), c), 0, TRUE, TRUE)
      BY <1>1, <1>8, <2>1, ParserSteps
    <3> QED  BY <1>2, <1>4, <3>1 DEF ParserAt, ParserStates
  <2>2. CASE i = FALSE /\ o = TRUE
    <3>1. ParseChar(st, c) = Between(Append(A, w \o Backslashes(b)))
      BY <1>1, <1>8, <2>2, ParserSteps
    <3> QED  BY <1>4, <1>5, <3>1
  <2>3. CASE i = FALSE /\ o = FALSE
    <3>1. ParseChar(st, c) = Between(A)  BY <1>1, <1>8, <2>3, ParserSteps
    <3> QED  BY <1>5, <3>1
  <2> QED  BY <2>1, <2>2, <2>3
<1>9. CASE c = "quote"
  <2>1. CASE b % 2 = 1
    <3>1. ParseChar(st, c) = ParserAt(A, Append(w \o Backslashes(b \div 2), c), 0, i, o)
      BY <1>1, <1>9, <2>1, ParserSteps
    <3> QED  BY <1>2, <1>4, <3>1 DEF ParserAt, ParserStates
  <2>2. CASE b % 2 # 1
    <3>1. ParseChar(st, c) = ParserAt(A, w \o Backslashes(b \div 2), 0, ~ i, TRUE)
      BY <1>1, <1>9, <2>2, ParserSteps
    <3> QED  BY <1>2, <1>3, <3>1 DEF ParserAt, ParserStates
  <2> QED  BY <2>1, <2>2
<1> QED  BY <1>6, <1>7, <1>8, <1>9 DEF Chars

\* Reading: nothing, one more character, and a text behind another.
LEMMA ReadsNothing ==
  ASSUME NEW st \in ParserStates PROVE Reads(st, <<>>, st)
<1> DEFINE g == [k \in 0 .. 0 |-> st]
<1>1. ReadBy(g, st, <<>>) /\ g[Len(<<>>)] = st  BY DEF ReadBy
<1> QED  BY <1>1 DEF Reads

\* A character more.
LEMMA ReadsOneMore ==
  ASSUME NEW st, NEW end, NEW text \in Seq(Chars), NEW c \in Chars, Reads(st, text, end)
  PROVE  end \in ParserStates /\ Reads(st, Append(text, c), ParseChar(end, c))
<1> DEFINE n == Len(text)
           t == Append(text, c)
<1>1. PICK g : ReadBy(g, st, text) /\ g[n] = end  BY DEF Reads
<1>2. n \in Nat  OBVIOUS
<1>3. end \in ParserStates  BY <1>1, <1>2 DEF ReadBy
<1>4. t \in Seq(Chars) /\ Len(t) = n + 1 /\ t[n + 1] = c /\ \A k \in 1 .. n : t[k] = text[k]
  BY AppendProperties
<1> DEFINE v == ParseChar(end, c)
           h == [k \in 0 .. n + 1 |-> IF k = n + 1 THEN v ELSE g[k]]
<1>5. v \in ParserStates  BY <1>3, ParserStays
<1> HIDE DEF n, t, v
<1>6. h \in [0 .. n + 1 -> ParserStates] /\ h[n + 1] = v /\ \A k \in 0 .. n : h[k] = g[k]
  BY <1>1, <1>2, <1>5 DEF ReadBy, n
<1>7. h[0] = st  BY <1>1, <1>2, <1>6 DEF ReadBy
<1> HIDE DEF h
<1>8. ASSUME NEW k \in 1 .. n + 1 PROVE h[k] = ParseChar(h[k - 1], t[k])
  <2>1. CASE k = n + 1
    <3>1. k - 1 = n /\ n \in 0 .. n  BY <1>2, <2>1
    <3> QED  BY <1>1, <1>4, <1>6, <2>1, <3>1 DEF v
  <2>2. CASE k # n + 1
    <3>1. k \in 1 .. n /\ k \in 0 .. n /\ k - 1 \in 0 .. n  BY <1>2, <2>2
    <3>2. g[k] = ParseChar(g[k - 1], text[k])  BY <1>1, <3>1 DEF ReadBy, n
    <3> QED  BY <1>4, <1>6, <3>1, <3>2
  <2> QED  BY <2>1, <2>2
<1>9. ReadBy(h, st, t)  BY <1>4, <1>6, <1>7, <1>8 DEF ReadBy
<1>10. Reads(st, t, v)  BY <1>4, <1>6, <1>9 DEF Reads
<1> QED  BY <1>3, <1>10 DEF t, v

\* One text after another.
LEMMA ReadsOn ==
  ASSUME NEW st, NEW mid, NEW end, NEW s \in Seq(Chars), NEW t \in Seq(Chars),
         Reads(st, s, mid), Reads(mid, t, end)
  PROVE  Reads(st, s \o t, end)
<1> DEFINE m == Len(s)
           n == Len(t)
           u == s \o t
<1>1. PICK f : ReadBy(f, st, s) /\ f[m] = mid  BY DEF Reads
<1>2. PICK g : ReadBy(g, mid, t) /\ g[n] = end  BY DEF Reads
<1>3. m \in Nat /\ n \in Nat  OBVIOUS
<1>4. /\ u \in Seq(Chars) /\ Len(u) = m + n
      /\ \A k \in 1 .. m + n : u[k] = IF k <= m THEN s[k] ELSE t[k - m]
  BY ConcatProperties
<1> DEFINE h == [k \in 0 .. m + n |-> IF k <= m THEN f[k] ELSE g[k - m]]
<1>5. /\ f \in [0 .. m -> ParserStates] /\ f[0] = st
      /\ \A k \in 1 .. m : f[k] = ParseChar(f[k - 1], s[k])
      /\ g \in [0 .. n -> ParserStates] /\ g[0] = mid
      /\ \A k \in 1 .. n : g[k] = ParseChar(g[k - 1], t[k])
  BY <1>1, <1>2 DEF ReadBy
<1> HIDE DEF m, n, u
<1>6. h \in [0 .. m + n -> ParserStates]
  <2>1. \A k \in 0 .. m + n : k <= m => k \in 0 .. m  BY <1>3
  <2>2. \A k \in 0 .. m + n : ~ (k <= m) => k - m \in 0 .. n  BY <1>3
  <2> QED  BY <1>5, <2>1, <2>2
<1>7. (\A k \in 0 .. m : h[k] = f[k]) /\ (\A k \in 0 .. n : h[m + k] = g[k])
  <2>1. \A k \in 0 .. m : h[k] = f[k]  BY <1>3
  <2>2. ASSUME NEW k \in 0 .. n PROVE h[m + k] = g[k]
    <3>1. CASE k = 0  BY <1>1, <1>3, <1>5, <2>1, <3>1
    <3>2. CASE k # 0
      <4>1. m + k \in 0 .. m + n /\ ~ (m + k <= m) /\ (m + k) - m = k  BY <1>3, <3>2
      <4> QED  BY <4>1
    <3> QED  BY <3>1, <3>2
  <2> QED  BY <2>1, <2>2
<1> HIDE DEF h
<1>8. ASSUME NEW k \in 1 .. m + n PROVE h[k] = ParseChar(h[k - 1], u[k])
  <2>1. CASE k <= m
    <3>1. k \in 1 .. m /\ k \in 0 .. m /\ k - 1 \in 0 .. m  BY <1>3, <2>1
    <3> QED  BY <1>4, <1>5, <1>7, <2>1, <3>1
  <2>2. CASE ~ (k <= m)
    <3>1. PICK j \in 1 .. n : j = k - m  BY <1>3, <2>2
    <3>2. k = m + j /\ k - 1 = m + (j - 1) /\ j \in 0 .. n /\ j - 1 \in 0 .. n  BY <1>3, <3>1
    <3>3. g[j] = ParseChar(g[j - 1], t[j])  BY <1>5
    <3>4. u[k] = t[j]  BY <1>4, <2>2, <3>1
    <3>5. h[k] = g[j] /\ h[k - 1] = g[j - 1]  BY <1>7, <3>2
    <3> QED  BY <3>3, <3>4, <3>5
  <2> QED  BY <2>1, <2>2
<1>9. h[0] = st /\ h[m + n] = end
  <2>1. 0 \in 0 .. m /\ n \in 0 .. n  BY <1>3
  <2> QED  BY <1>2, <1>5, <1>7, <2>1
<1>10. ReadBy(h, st, u)  BY <1>4, <1>6, <1>8, <1>9 DEF ReadBy
<1>11. Reads(st, u, end)  BY <1>4, <1>9, <1>10 DEF Reads
<1> QED  BY <1>11 DEF u

\* The state that is read is the one Parse computes.
LEMMA ParseIsRead ==
  ASSUME NEW line \in Seq(Chars), NEW v, NEW B, Reads(Between(<<>>), line, v),
         ParseChar(v, "blank") = Between(B)
  PROVE  Parse(line) = B
<1> DEFINE text == Append(line, "blank")
           n == Len(text)
           Body(f) == [k \in 0 .. n |-> IF k = 0 THEN Between(<<>>) ELSE ParseChar(f[k - 1], text[k])]
           acc == CHOOSE f : f = Body(f)
<1>1. Parse(line) = acc[n].argv  BY DEF Parse
<1>2. "blank" \in Chars  BY DEF Chars
<1>3. text \in Seq(Chars) /\ n \in Nat  BY <1>2
<1>4. PICK g : ReadBy(g, Between(<<>>), text) /\ g[n] = Between(B)
  <2>1. Reads(Between(<<>>), text, Between(B))  BY <1>2, ReadsOneMore
  <2> QED  BY <2>1 DEF Reads
<1> HIDE DEF text, n
<1>5. g = Body(g)
  <2>1. g \in [0 .. n -> ParserStates]  BY <1>4 DEF ReadBy, n
  <2>2. ASSUME NEW k \in 0 .. n
        PROVE  g[k] = IF k = 0 THEN Between(<<>>) ELSE ParseChar(g[k - 1], text[k])
    <3>1. k # 0 => k \in 1 .. n  BY <1>3
    <3> QED  BY <1>4, <3>1 DEF ReadBy, n
  <2> QED  BY <2>1, <2>2
<1>6. acc = Body(acc)
  <2> HIDE DEF Body
  <2> QED  BY <1>5, Zenon
<1> HIDE DEF acc
<1> DEFINE H == {k \in Nat : k <= n => acc[k] = g[k]}
<1>7. 0 \in H
  <2>1. 0 \in 0 .. n  BY <1>3
  <2>2. acc[0] = Between(<<>>) /\ g[0] = Between(<<>>)  BY <1>5, <1>6, <2>1
  <2> QED  BY <2>2
<1>8. ASSUME NEW k \in Nat, k \in H PROVE k + 1 \in H
  <2>1. SUFFICES ASSUME k + 1 <= n PROVE acc[k + 1] = g[k + 1]  OBVIOUS
  <2>2. k + 1 \in 0 .. n /\ k + 1 # 0 /\ (k + 1) - 1 = k /\ acc[k] = g[k]  BY <1>3, <1>8, <2>1
  <2>3. acc[k + 1] = ParseChar(acc[k], text[k + 1])  BY <1>6, <2>2
  <2>4. g[k + 1] = ParseChar(g[k], text[k + 1])  BY <1>5, <2>2
  <2> QED  BY <2>2, <2>3, <2>4
<1>9. n \in H
  <2> HIDE DEF H
  <2> QED  BY <1>3, <1>7, <1>8, NumbersFrom0
<1>10. acc[n] = Between(B)  BY <1>3, <1>4, <1>9
<1> QED  BY <1>1, <1>10 DEF Between

\* A run of backslashes between the quotes.
LEMMA ReadsBackslashes ==
  ASSUME NEW A \in Seq(Seq(Chars)), NEW w \in Seq(Chars), NEW i \in BOOLEAN, NEW n \in Nat
  PROVE  Reads(ParserAt(A, w, 0, i, TRUE), Backslashes(n), ParserAt(A, w, n, i, TRUE))
<1> DEFINE at(b) == ParserAt(A, w, b, i, TRUE)
           H == {m \in Nat : Reads(at(0), Backslashes(m), at(m))}
<1>1. ASSUME NEW b \in Nat PROVE at(b) \in ParserStates /\ ParseChar(at(b), "bs") = at(b + 1)
  BY DEF ParserAt, ParserStates, ParseChar
<1>2. 0 \in H
  <2>1. Backslashes(0) = <<>>  BY BackslashFacts
  <2>2. Reads(at(0), <<>>, at(0))  BY <1>1, ReadsNothing
  <2> QED  BY <2>1, <2>2
<1> HIDE DEF at
<1>3. ASSUME NEW m \in Nat, m \in H PROVE m + 1 \in H
  <2>1. Backslashes(m) \in Seq(Chars) /\ Backslashes(m + 1) = Append(Backslashes(m), "bs")
    BY BackslashFacts
  <2>2. "bs" \in Chars  BY DEF Chars
  <2>3. Reads(at(0), Append(Backslashes(m), "bs"), ParseChar(at(m), "bs"))
    BY <1>3, <2>1, <2>2, ReadsOneMore
  <2>4. ParseChar(at(m), "bs") = at(m + 1)  BY <1>1
  <2>5. Reads(at(0), Backslashes(m + 1), at(m + 1))  BY <2>1, <2>3, <2>4
  <2>6. m + 1 \in Nat  OBVIOUS
  <2> QED  BY <2>5, <2>6
<1>4. n \in H
  <2> HIDE DEF H
  <2> QED  BY <1>2, <1>3, NumbersFrom0
<1> QED  BY <1>4 DEF at

\* A prefix that is one longer.
LEMMA PrefixGrows ==
  ASSUME NEW S, NEW s \in Seq(S), NEW k \in Nat, k + 1 <= Len(s)
  PROVE  /\ s[k + 1] \in S /\ SubSeq(s, 1, k) \in Seq(S)
         /\ SubSeq(s, 1, k + 1) = Append(SubSeq(s, 1, k), s[k + 1])
<1>1. Len(s) \in Nat /\ \A j \in 1 .. Len(s) : s[j] \in S  BY LenProperties, ElementOfSeq
<1> DEFINE t == SubSeq(s, 1, k)
           u == SubSeq(s, 1, k + 1)
<1>2. \A j \in 1 .. k + 1 : j \in 1 .. Len(s) /\ s[j] \in S /\ 1 + j - 1 = j  BY <1>1
<1>3. \A j \in 1 .. k : j \in 1 .. k + 1  OBVIOUS
<1>4. t \in Seq(S) /\ Len(t) = k /\ \A j \in 1 .. k : t[j] = s[j]
  <2>1. k - 1 + 1 = k /\ (1 <= k => k - 1 + 1 = k) /\ (~ (1 <= k) => k = 0)  OBVIOUS
  <2> QED  BY <1>2, <1>3, <2>1, SubSeqProperties
<1>5. u \in Seq(S) /\ Len(u) = k + 1 /\ \A j \in 1 .. k + 1 : u[j] = s[j]
  <2>1. (k + 1) - 1 + 1 = k + 1 /\ 1 <= k + 1  OBVIOUS
  <2> QED  BY <1>2, <2>1, SubSeqProperties
<1>6. s[k + 1] \in S  BY <1>2
<1> HIDE DEF t, u
<1> DEFINE v == Append(t, s[k + 1])
<1>7. /\ v \in Seq(S) /\ Len(v) = k + 1 /\ v[k + 1] = s[k + 1]
      /\ \A j \in 1 .. k : v[j] = t[j]
  BY <1>4, <1>6, AppendProperties
<1> HIDE DEF v
<1>8. \A j \in 1 .. k + 1 : u[j] = v[j]
  <2>1. \A j \in 1 .. k + 1 : j \in 1 .. k \/ j = k + 1  OBVIOUS
  <2> QED  BY <1>4, <1>5, <1>7, <2>1
<1>9. u = v  BY <1>5, <1>7, <1>8, SeqEqual
<1> QED  BY <1>4, <1>6, <1>9 DEF t, u, v

\* What is appended to a sequence that is behind another.
LEMMA JoinAppends ==
  ASSUME NEW S, NEW s \in Seq(S), NEW t \in Seq(S), NEW x \in S
  PROVE  s \o Append(t, x) = Append(s \o t, x) /\ s \o <<>> = s
<1>1. <<x>> \in Seq(S) /\ s \o t \in Seq(S)  BY ConcatProperties
<1>2. Append(t, x) = t \o <<x>> /\ Append(s \o t, x) = (s \o t) \o <<x>>  BY <1>1, AppendIsConcat
<1>3. (s \o t) \o <<x>> = s \o (t \o <<x>>)  BY <1>1, ConcatAssociative
<1>4. s \o <<>> = s  BY ConcatEmptySeq
<1> QED  BY <1>2, <1>3, <1>4

\* An argument that needs no quotes is read as it is.
LEMMA PlainIsRead ==
  ASSUME NEW A \in Seq(Seq(Chars)), NEW arg \in Seq(Chars), arg # <<>>,
         \A k \in 1 .. Len(arg) : arg[k] \in {"bs", "letter"}
  PROVE  \E w \in Seq(Chars), b \in Nat :
           /\ Reads(Between(A), arg, ParserAt(A, w, b, FALSE, TRUE))
           /\ w \o Backslashes(b) = arg
<1> DEFINE n == Len(arg)
           pre(k) == SubSeq(arg, 1, k)
           Half(k, w, b, o) ==
             /\ w \in Seq(Chars) /\ b \in Nat /\ o \in BOOLEAN /\ (k # 0 => o = TRUE)
             /\ Reads(Between(A), pre(k), ParserAt(A, w, b, FALSE, o))
             /\ w \o Backslashes(b) = pre(k)
           H == {k \in Nat : k <= n => \E w, b, o : Half(k, w, b, o)}
<1>1. n \in Nat /\ n # 0  BY EmptySeq, LenProperties
<1>2. 0 \in H
  <2>1. Half(0, <<>>, 0, FALSE)
    <3>1. pre(0) = <<>>  BY SubSeqEmpty
    <3>2. Between(A) = ParserAt(A, <<>>, 0, FALSE, FALSE)  BY DEF Between, ParserAt
    <3>3. <<>> \in Seq(Chars) /\ <<>> \o Backslashes(0) = <<>>
      BY BackslashFacts, ConcatEmptySeq
    <3>4. Between(A) \in ParserStates  BY <3>3 DEF Between, ParserStates
    <3>5. Reads(Between(A), <<>>, Between(A))  BY <3>4, ReadsNothing
    <3> QED  BY <3>1, <3>2, <3>3, <3>5
  <2> HIDE DEF Half
  <2> QED  BY <2>1
<1>3. ASSUME NEW k \in Nat, k \in H PROVE k + 1 \in H
  <2>1. SUFFICES ASSUME k + 1 <= n PROVE \E w, b, o : Half(k + 1, w, b, o)
    <3> HIDE DEF Half
    <3> QED  OBVIOUS
  <2> DEFINE c == arg[k + 1]
  <2>2. PICK w, b, o : Half(k, w, b, o)
    <3> HIDE DEF Half
    <3> QED  BY <1>1, <1>3, <2>1
  <2>3. pre(k + 1) = Append(pre(k), c) /\ pre(k) \in Seq(Chars) /\ c \in Chars  BY <2>1, PrefixGrows
  <2>4. c \in {"bs", "letter"} /\ pre(k + 1) \in Seq(Chars)
    <3>1. c \in {"bs", "letter"}  BY <1>1, <2>1
    <3> HIDE DEF c, pre
    <3>2. Append(pre(k), c) \in Seq(Chars)  BY <2>3, AppendProperties
    <3> QED  BY <2>3, <3>1, <3>2
  <2> DEFINE st == ParserAt(A, w, b, FALSE, o)
  <2>5. Reads(Between(A), pre(k + 1), ParseChar(st, c))  BY <2>2, <2>3, ReadsOneMore
  <2> HIDE DEF c
  <2>6. CASE c = "bs"
    <3>1. ParseChar(st, c) = ParserAt(A, w, b + 1, FALSE, TRUE)  BY <2>2, <2>6, ParserSteps
    <3>2. w \o Backslashes(b + 1) = pre(k + 1)
      <4>1. Backslashes(b + 1) = Append(Backslashes(b), "bs") /\ Backslashes(b) \in Seq(Chars)
        BY <2>2, BackslashFacts
      <4>2. w \o Append(Backslashes(b), "bs") = Append(w \o Backslashes(b), "bs")
        <5>1. "bs" \in Chars /\ w \in Seq(Chars)  BY <2>2 DEF Chars
        <5> QED  BY <4>1, <5>1, JoinAppends
      <4> QED  BY <2>2, <2>3, <2>6, <4>1, <4>2
    <3>3. b + 1 \in Nat  BY <2>2
    <3>4. Reads(Between(A), pre(k + 1), ParserAt(A, w, b + 1, FALSE, TRUE))  BY <2>5, <3>1
    <3>5. w \in Seq(Chars) /\ TRUE \in BOOLEAN  BY <2>2
    <3>6. Half(k + 1, w, b + 1, TRUE)  BY <3>2, <3>3, <3>4, <3>5, Zenon
    <3> HIDE DEF Half
    <3> QED  BY <3>6
  <2>7. CASE c = "letter"
    <3> DEFINE v == Append(w \o Backslashes(b), "letter")
    <3>1. ParseChar(st, c) = ParserAt(A, v, 0, FALSE, TRUE)  BY <2>2, <2>7, ParserSteps
    <3>2. v = pre(k + 1)  BY <2>2, <2>3, <2>7
    <3>3. v \in Seq(Chars)  BY <2>4, <3>2
    <3>4. v \o Backslashes(0) = v
      <4>1. Backslashes(0) = <<>>  BY BackslashFacts
      <4> QED  BY <3>3, <4>1, ConcatEmptySeq
    <3> HIDE DEF v
    <3>5. Reads(Between(A), pre(k + 1), ParserAt(A, v, 0, FALSE, TRUE))  BY <2>5, <3>1
    <3>6. TRUE \in BOOLEAN /\ 0 \in Nat  OBVIOUS
    <3>7. Half(k + 1, v, 0, TRUE)  BY <3>2, <3>3, <3>4, <3>5, <3>6, Zenon
    <3> HIDE DEF Half
    <3> QED  BY <3>7
  <2> QED  BY <2>4, <2>6, <2>7
<1>4. n \in H
  <2> HIDE DEF H
  <2> QED  BY <1>1, <1>2, <1>3, NumbersFrom0
<1>5. PICK w, b, o : Half(n, w, b, o)
  <2> HIDE DEF Half
  <2> QED  BY <1>1, <1>4
<1>6. pre(n) = arg  BY SubSeqFull
<1> QED  BY <1>1, <1>5, <1>6

\* What the buffer may hold: a line, or nothing any more.
Lines == Seq(Chars) \cup {NoRoom}

\* A write that fits.
LEMMA PutFits ==
  ASSUME NEW out \in Lines, NEW text \in Seq(Chars)
  PROVE  /\ Put(out, text, 1) \in Lines
         /\ Put(out, text, 1) # NoRoom =>
              out \in Seq(Chars) /\ Put(out, text, 1) = out \o text /\ Len(out \o text) < LineCap
<1>1. CASE out = NoRoom  BY <1>1 DEF Put, Lines
<1>2. CASE out # NoRoom
  <2>1. out \in Seq(Chars)  BY <1>2 DEF Lines
  <2>2. out \o text \in Seq(Chars) /\ Len(out \o text) = Len(out) + Len(text)
        /\ Len(out) \in Nat /\ Len(text) \in Nat
    BY <2>1, ConcatProperties, LenProperties
  <2>3. LineCap \in Nat  BY LineAssumption
  <2>4. CASE Len(out) + Len(text) > LineCap - 1  BY <2>4 DEF Put, Lines
  <2>5. CASE ~ (Len(out) + Len(text) > LineCap - 1)
    <3>1. Put(out, text, 1) = out \o text  BY <1>2, <2>5 DEF Put
    <3>2. Len(out) + Len(text) < LineCap  BY <2>2, <2>3, <2>5
    <3> QED  BY <2>1, <2>2, <3>1, <3>2 DEF Lines
  <2> QED  BY <2>4, <2>5
<1> QED  BY <1>1, <1>2

\* What the quoting carries from one character to the next.
QuoteStates == [out : Lines, bs : Nat]

\* A single character as a text.
LEMMA OneCharacter ==
  ASSUME NEW c \in Chars
  PROVE  /\ <<c>> \in Seq(Chars) /\ Len(<<c>>) = 1
         /\ \A s \in Seq(Chars) : s \o <<c>> = Append(s, c)
<1>1. \A s \in Seq(Chars) : Append(s, c) = s \o <<c>>  BY AppendIsConcat
<1> QED  BY <1>1

\* The loop between the quotes keeps a line, or that there is no room.
LEMMA QuoteStays ==
  ASSUME NEW acc \in QuoteStates, NEW c \in Chars
  PROVE  /\ QuoteChar(acc, c) \in QuoteStates
         /\ c = "bs" => QuoteChar(acc, c) = [out |-> acc.out, bs |-> acc.bs + 1]
         /\ c = "quote" => QuoteChar(acc, c)
              = [out |-> Put(Put(acc.out, Backslashes(2 * acc.bs + 1), 1), <<c>>, 1), bs |-> 0]
         /\ c \in {"letter", "blank"} => QuoteChar(acc, c)
              = [out |-> Put(Put(acc.out, Backslashes(acc.bs), 1), <<c>>, 1), bs |-> 0]
<1>1. acc.out \in Lines /\ acc.bs \in Nat /\ acc.bs + 1 \in Nat /\ 2 * acc.bs + 1 \in Nat
  BY DEF QuoteStates
<1>2. <<c>> \in Seq(Chars)  BY OneCharacter
<1>3. Backslashes(acc.bs) \in Seq(Chars) /\ Backslashes(2 * acc.bs + 1) \in Seq(Chars)
  BY <1>1, BackslashFacts
<1> DEFINE single == Put(acc.out, Backslashes(acc.bs), 1)
           twice == Put(acc.out, Backslashes(2 * acc.bs + 1), 1)
<1>4. single \in Lines /\ twice \in Lines  BY <1>1, <1>3, PutFits
<1> HIDE DEF single, twice
<1>5. Put(single, <<c>>, 1) \in Lines /\ Put(twice, <<c>>, 1) \in Lines  BY <1>2, <1>4, PutFits
<1>6. CASE c = "bs"
  <2>1. QuoteChar(acc, c) = [out |-> acc.out, bs |-> acc.bs + 1]
    BY <1>6 DEF QuoteChar, QuoteStates
  <2> QED  BY <1>1, <1>6, <2>1 DEF QuoteStates
<1>7. CASE c = "quote"
  <2>1. QuoteChar(acc, c) = [out |-> Put(twice, <<c>>, 1), bs |-> 0]  BY <1>7 DEF QuoteChar, twice
  <2> QED  BY <1>5, <1>7, <2>1 DEF QuoteStates, twice
<1>8. CASE c \in {"letter", "blank"}
  <2>1. QuoteChar(acc, c) = [out |-> Put(single, <<c>>, 1), bs |-> 0]  BY <1>8 DEF QuoteChar, single
  <2> QED  BY <1>5, <1>8, <2>1 DEF QuoteStates, single
<1> QED  BY <1>6, <1>7, <1>8 DEF Chars

\* What the loop has after each character.
LEMMA QuoteRuns ==
  ASSUME NEW out \in Lines, NEW arg \in Seq(Chars)
  PROVE  \E body \in [0 .. Len(arg) -> QuoteStates] :
           /\ body[0] = [out |-> Put(out, <<"quote">>, 1), bs |-> 0]
           /\ \A k \in 1 .. Len(arg) : body[k] = QuoteChar(body[k - 1], arg[k])
           /\ Quoted(out, arg) = Put(Put(body[Len(arg)].out, Backslashes(2 * body[Len(arg)].bs), 1),
                                     <<"quote">>, 1)
<1> DEFINE n == Len(arg)
           start == [out |-> Put(out, <<"quote">>, 1), bs |-> 0]
           F == [p \in QuoteStates \X (1 .. n) |-> QuoteChar(p[1], arg[p[2]])]
           Body(f) == [k \in 0 .. n |-> IF k = 0 THEN start ELSE QuoteChar(f[k - 1], arg[k])]
           body == CHOOSE f : f = Body(f)
<1>1. n \in Nat /\ \A k \in 1 .. n : arg[k] \in Chars  BY LenProperties, ElementOfSeq
<1>2. start \in QuoteStates
  <2>1. <<"quote">> \in Seq(Chars)
    <3>1. "quote" \in Chars  BY DEF Chars
    <3> QED  BY <3>1, OneCharacter
  <2>2. Put(out, <<"quote">>, 1) \in Lines  BY <2>1, PutFits
  <2>3. 0 \in Nat  OBVIOUS
  <2> QED  BY <2>2, <2>3 DEF QuoteStates
<1>3. F \in [QuoteStates \X (1 .. n) -> QuoteStates]
  <2>1. \A p \in QuoteStates \X (1 .. n) : p[1] \in QuoteStates /\ arg[p[2]] \in Chars  BY <1>1
  <2>2. \A p \in QuoteStates \X (1 .. n) : QuoteChar(p[1], arg[p[2]]) \in QuoteStates
    BY <2>1, QuoteStays
  <2> QED  BY <2>2
<1> HIDE DEF start
<1>4. PICK g \in [0 .. n -> QuoteStates] : g[0] = start /\ \A k \in 1 .. n : g[k] = F[<<g[k - 1], k>>]
  <2> HIDE DEF n, F
  <2>1. Runnable(QuoteStates, start, n, F)  BY <1>1, <1>2, <1>3 DEF Runnable
  <2>2. PICK g : LoopOf(g, QuoteStates, start, n, F)  BY <2>1, LoopRuns
  <2> QED  BY <2>2 DEF LoopOf
<1>5. \A k \in 1 .. n : g[k] = QuoteChar(g[k - 1], arg[k])
  <2>1. ASSUME NEW k \in 1 .. n PROVE g[k] = QuoteChar(g[k - 1], arg[k])
    <3>1. k - 1 \in 0 .. n  BY <1>1
    <3>2. <<g[k - 1], k>> \in QuoteStates \X (1 .. n)  BY <3>1
    <3> QED  BY <1>4, <3>2
  <2> QED  BY <2>1
<1> HIDE DEF F
<1>6. g = Body(g)
  <2>1. \A k \in 0 .. n : k # 0 => k \in 1 .. n  BY <1>1
  <2> QED  BY <1>4, <1>5, <2>1
<1>7. body = Body(body)
  <2> HIDE DEF Body
  <2> QED  BY <1>6, Zenon
<1>8. Quoted(out, arg) = Put(Put(body[n].out, Backslashes(2 * body[n].bs), 1), <<"quote">>, 1)
  BY DEF Quoted, start
<1> HIDE DEF body
<1> DEFINE H == {k \in Nat : k <= n => body[k] = g[k]}
<1>9. 0 \in H
  <2>1. 0 \in 0 .. n  BY <1>1
  <2> QED  BY <1>6, <1>7, <2>1
<1>10. ASSUME NEW k \in Nat, k \in H PROVE k + 1 \in H
  <2>1. SUFFICES ASSUME k + 1 <= n PROVE body[k + 1] = g[k + 1]  OBVIOUS
  <2>2. k + 1 \in 0 .. n /\ k + 1 # 0 /\ (k + 1) - 1 = k /\ body[k] = g[k]  BY <1>1, <1>10, <2>1
  <2>3. body[k + 1] = QuoteChar(body[k], arg[k + 1])  BY <1>7, <2>2
  <2>4. g[k + 1] = QuoteChar(g[k], arg[k + 1])  BY <1>6, <2>2
  <2> QED  BY <2>2, <2>3, <2>4
<1>11. n \in H
  <2> HIDE DEF H
  <2> QED  BY <1>1, <1>9, <1>10, NumbersFrom0
<1>12. body[n] = g[n]  BY <1>1, <1>11
<1> QED  BY <1>4, <1>5, <1>8, <1>12 DEF start

\* Halves and parity.
LEMMA Doubled ==
  ASSUME NEW n \in Nat
  PROVE  /\ 2 * n \in Nat /\ (2 * n) % 2 = 0 /\ (2 * n) \div 2 = n
         /\ 2 * n + 1 \in Nat /\ (2 * n + 1) % 2 = 1 /\ (2 * n + 1) \div 2 = n
OBVIOUS

\* What is read when a character is put behind some backslashes.
LEMMA ReadsBehindBackslashes ==
  ASSUME NEW A \in Seq(Seq(Chars)), NEW w \in Seq(Chars), NEW n \in Nat, NEW c \in Chars,
         NEW out \in Lines, NEW st,
         out # NoRoom => Reads(st, out, ParserAt(A, w, 0, TRUE, TRUE)),
         Put(Put(out, Backslashes(n), 1), <<c>>, 1) # NoRoom
  PROVE  /\ Put(Put(out, Backslashes(n), 1), <<c>>, 1) \in Seq(Chars)
         /\ Len(Put(Put(out, Backslashes(n), 1), <<c>>, 1)) \in 1 .. LineCap - 1
         /\ Reads(st, Put(Put(out, Backslashes(n), 1), <<c>>, 1),
                  ParseChar(ParserAt(A, w, n, TRUE, TRUE), c))
<1> DEFINE b == Backslashes(n)
           mid == Put(out, b, 1)
           end == Put(mid, <<c>>, 1)
<1>1. b \in Seq(Chars)  BY BackslashFacts
<1>2. <<c>> \in Seq(Chars) /\ Len(<<c>>) = 1  BY OneCharacter
<1>3. Reads(ParserAt(A, w, 0, TRUE, TRUE), b, ParserAt(A, w, n, TRUE, TRUE))
  <2>1. TRUE \in BOOLEAN  OBVIOUS
  <2> QED  BY <2>1, ReadsBackslashes
<1> HIDE DEF b
<1>4. mid \in Lines  BY <1>1, PutFits
<1> HIDE DEF mid
<1>5. mid \in Seq(Chars) /\ end = mid \o <<c>> /\ Len(mid \o <<c>>) < LineCap  BY <1>2, <1>4, PutFits DEF mid, b
<1>6. mid # NoRoom
  <2>1. Put(NoRoom, <<c>>, 1) = NoRoom  BY DEF Put
  <2> QED  BY <2>1 DEF mid, b
<1>7. out \in Seq(Chars) /\ mid = out \o b  BY <1>1, <1>6, PutFits DEF mid
<1>8. out # NoRoom
  <2>1. Put(NoRoom, b, 1) = NoRoom  BY DEF Put
  <2> QED  BY <1>6, <2>1 DEF mid
<1>9. Reads(st, mid, ParserAt(A, w, n, TRUE, TRUE))  BY <1>1, <1>3, <1>7, <1>8, ReadsOn
<1>10. mid \o <<c>> = Append(mid, c)  BY <1>5, OneCharacter
<1>11. Reads(st, end, ParseChar(ParserAt(A, w, n, TRUE, TRUE), c))  BY <1>5, <1>9, <1>10, ReadsOneMore
<1>12. mid \o <<c>> \in Seq(Chars) /\ Len(mid \o <<c>>) = Len(mid) + 1 /\ Len(mid) \in Nat
  BY <1>2, <1>5, ConcatProperties, LenProperties
<1>13. LineCap \in Nat  BY LineAssumption
<1>14. Len(end) \in 1 .. LineCap - 1  BY <1>5, <1>12, <1>13
<1> QED  BY <1>5, <1>11, <1>12, <1>14 DEF mid, b

\* An argument between quotes is read as it was: before each character the parser is
\* between the quotes and misses the backslashes that are counted.
LEMMA QuotedIsRead ==
  ASSUME NEW A \in Seq(Seq(Chars)), NEW arg \in Seq(Chars), NEW out \in Lines, NEW st,
         out # NoRoom => Reads(st, out, Between(A)), Quoted(out, arg) # NoRoom
  PROVE  /\ Quoted(out, arg) \in Seq(Chars) /\ Len(Quoted(out, arg)) \in 1 .. LineCap - 1
         /\ Reads(st, Quoted(out, arg), ParserAt(A, arg, 0, FALSE, TRUE))
<1> DEFINE n == Len(arg)
           pre(k) == SubSeq(arg, 1, k)
<1>1. n \in Nat /\ "quote" \in Chars /\ "bs" \in Chars  BY LenProperties DEF Chars
<1>2. PICK body \in [0 .. n -> QuoteStates] :
        /\ body[0] = [out |-> Put(out, <<"quote">>, 1), bs |-> 0]
        /\ \A k \in 1 .. n : body[k] = QuoteChar(body[k - 1], arg[k])
        /\ Quoted(out, arg) = Put(Put(body[n].out, Backslashes(2 * body[n].bs), 1), <<"quote">>, 1)
  BY <1>1, QuoteRuns
<1> DEFINE Half(k, w) ==
             /\ w \in Seq(Chars) /\ w \o Backslashes(body[k].bs) = pre(k)
             /\ body[k].out # NoRoom => Reads(st, body[k].out, ParserAt(A, w, 0, TRUE, TRUE))
           H == {k \in Nat : k <= n => \E w : Half(k, w)}
<1>3. \A k \in 0 .. n : body[k].out \in Lines /\ body[k].bs \in Nat  BY <1>2 DEF QuoteStates
<1>4. 0 \in H
  <2> DEFINE q == Put(out, <<"quote">>, 1)
  <2>1. body[0].out = q /\ body[0].bs = 0  BY <1>2
  <2>2. <<>> \in Seq(Chars) /\ <<>> \o Backslashes(0) = <<>> /\ pre(0) = <<>>
    <3>1. Backslashes(0) = <<>>  BY BackslashFacts
    <3> QED  BY <3>1, ConcatEmptySeq, SubSeqEmpty
  <2>3. ASSUME q # NoRoom PROVE Reads(st, q, ParserAt(A, <<>>, 0, TRUE, TRUE))
    <3>1. out \in Seq(Chars) /\ q = out \o <<"quote">>  BY <1>1, <2>3, OneCharacter, PutFits
    <3>2. q = Append(out, "quote") /\ out # NoRoom
      <4>1. Put(NoRoom, <<"quote">>, 1) = NoRoom  BY DEF Put
      <4> QED  BY <1>1, <2>3, <3>1, <4>1, OneCharacter
    <3>3. Reads(st, Append(out, "quote"), ParseChar(Between(A), "quote"))
      BY <1>1, <3>1, <3>2, ReadsOneMore
    <3>4. ParseChar(Between(A), "quote") = ParserAt(A, <<>>, 0, TRUE, TRUE)
      <4>1. Between(A) = ParserAt(A, <<>>, 0, FALSE, FALSE)  BY DEF Between, ParserAt
      <4>2. 0 % 2 # 1 /\ 0 \div 2 = 0 /\ 0 \in Nat /\ FALSE \in BOOLEAN /\ (~ FALSE) = TRUE  OBVIOUS
      <4>3. ParseChar(ParserAt(A, <<>>, 0, FALSE, FALSE), "quote")
              = ParserAt(A, <<>> \o Backslashes(0 \div 2), 0, ~ FALSE, TRUE)
        BY <2>2, <4>2, ParserSteps
      <4>4. <<>> \o Backslashes(0 \div 2) = <<>>  BY <2>2, <4>2
      <4> QED  BY <4>1, <4>2, <4>3, <4>4
    <3> QED  BY <3>2, <3>3, <3>4
  <2> HIDE DEF q, pre
  <2>4. Half(0, <<>>)  BY <2>1, <2>2, <2>3
  <2> HIDE DEF Half
  <2> QED  BY <2>4
<1>5. ASSUME NEW k \in Nat, k \in H PROVE k + 1 \in H
  <2>1. SUFFICES ASSUME k + 1 <= n PROVE \E w : Half(k + 1, w)
    <3> HIDE DEF Half
    <3> QED  OBVIOUS
  <2>2. PICK w : Half(k, w)
    <3>1. k <= n  BY <1>1, <2>1
    <3> HIDE DEF Half
    <3> QED  BY <1>5, <3>1
  <2> DEFINE c == arg[k + 1]
             a == body[k]
             b == body[k + 1]
  <2>3. pre(k + 1) = Append(pre(k), c) /\ pre(k) \in Seq(Chars) /\ c \in Chars  BY <2>1, PrefixGrows
  <2>4. a \in QuoteStates /\ b = QuoteChar(a, c)
    <3>1. k \in 0 .. n /\ k + 1 \in 1 .. n /\ (k + 1) - 1 = k  BY <1>1, <2>1
    <3> QED  BY <1>2, <3>1
  <2>5. a.out \in Lines /\ a.bs \in Nat  BY <2>4 DEF QuoteStates
  <2>6. /\ w \in Seq(Chars) /\ w \o Backslashes(a.bs) = pre(k)
        /\ a.out # NoRoom => Reads(st, a.out, ParserAt(A, w, 0, TRUE, TRUE))
    BY <2>2
  <2> HIDE DEF a, c, pre
  <2>7. pre(k + 1) \in Seq(Chars) /\ pre(k + 1) \o Backslashes(0) = pre(k + 1)
    <3>1. Append(pre(k), c) \in Seq(Chars)  BY <2>3, AppendProperties
    <3>2. Backslashes(0) = <<>>  BY BackslashFacts
    <3> QED  BY <2>3, <3>1, <3>2, ConcatEmptySeq
  <2>8. CASE c = "bs"
    <3>1. b.out = a.out /\ b.bs = a.bs + 1
      <4>1. QuoteChar(a, c) = [out |-> a.out, bs |-> a.bs + 1]  BY <2>3, <2>4, <2>8, QuoteStays
      <4> HIDE DEF b
      <4> QED  BY <2>4, <4>1
    <3>2. w \o Backslashes(a.bs + 1) = pre(k + 1)
      <4>1. Backslashes(a.bs + 1) = Append(Backslashes(a.bs), "bs") /\ Backslashes(a.bs) \in Seq(Chars)
        BY <2>5, BackslashFacts
      <4>2. w \o Append(Backslashes(a.bs), "bs") = Append(w \o Backslashes(a.bs), "bs")
        BY <1>1, <2>6, <4>1, JoinAppends
      <4> QED  BY <2>3, <2>6, <2>8, <4>1, <4>2
    <3> HIDE DEF b
    <3>3. Half(k + 1, w)  BY <2>6, <3>1, <3>2 DEF b
    <3> HIDE DEF Half
    <3> QED  BY <3>3
  <2> DEFINE v == pre(k + 1)
  <2>9. ASSUME NEW m \in Nat, b.out = Put(Put(a.out, Backslashes(m), 1), <<c>>, 1), b.bs = 0,
               ParseChar(ParserAt(A, w, m, TRUE, TRUE), c) = ParserAt(A, v, 0, TRUE, TRUE)
        PROVE  Half(k + 1, v)
    <3>1. ASSUME b.out # NoRoom PROVE Reads(st, b.out, ParserAt(A, v, 0, TRUE, TRUE))
      <4> HIDE DEF b
      <4>1. Reads(st, b.out, ParseChar(ParserAt(A, w, m, TRUE, TRUE), c))
        BY <2>3, <2>5, <2>6, <2>9, <3>1, ReadsBehindBackslashes
      <4> QED  BY <2>9, <4>1
    <3> QED  BY <2>7, <2>9, <3>1
  <2>10. CASE c = "quote"
    <3> DEFINE m == 2 * a.bs + 1
    <3>1. b.out = Put(Put(a.out, Backslashes(m), 1), <<c>>, 1) /\ b.bs = 0  BY <2>3, <2>4, <2>10, QuoteStays
    <3>2. m \in Nat /\ m % 2 = 1 /\ m \div 2 = a.bs /\ TRUE \in BOOLEAN  BY <2>5, Doubled
    <3> HIDE DEF m
    <3>3. ParseChar(ParserAt(A, w, m, TRUE, TRUE), "quote")
            = ParserAt(A, Append(w \o Backslashes(m \div 2), "quote"), 0, TRUE, TRUE)
      BY <2>6, <3>2, ParserSteps
    <3>4. Append(w \o Backslashes(m \div 2), "quote") = v  BY <2>3, <2>6, <2>10, <3>2
    <3>5. ParseChar(ParserAt(A, w, m, TRUE, TRUE), c) = ParserAt(A, v, 0, TRUE, TRUE)
      BY <2>10, <3>3, <3>4
    <3> HIDE DEF b, v, Half
    <3>6. Half(k + 1, v)  BY <2>9, <3>1, <3>2, <3>5
    <3> QED  BY <3>6
  <2>11. CASE c \in {"letter", "blank"}
    <3>1. b.out = Put(Put(a.out, Backslashes(a.bs), 1), <<c>>, 1) /\ b.bs = 0  BY <2>3, <2>4, <2>11, QuoteStays
    <3>2. ParseChar(ParserAt(A, w, a.bs, TRUE, TRUE), c)
            = ParserAt(A, Append(w \o Backslashes(a.bs), c), 0, TRUE, TRUE)
      <4>1. TRUE \in BOOLEAN  OBVIOUS
      <4>2. CASE c = "letter"  BY <2>5, <2>6, <4>1, <4>2, ParserSteps
      <4>3. CASE c = "blank"  BY <2>5, <2>6, <4>1, <4>3, ParserSteps
      <4> QED  BY <2>11, <4>2, <4>3
    <3>3. Append(w \o Backslashes(a.bs), c) = v  BY <2>3, <2>6
    <3>4. ParseChar(ParserAt(A, w, a.bs, TRUE, TRUE), c) = ParserAt(A, v, 0, TRUE, TRUE)  BY <3>2, <3>3
    <3> HIDE DEF b, v, Half
    <3>5. Half(k + 1, v)  BY <2>5, <2>9, <3>1, <3>4
    <3> QED  BY <3>5
  <2> QED  BY <2>3, <2>8, <2>10, <2>11 DEF Chars
<1>6. n \in H
  <2> HIDE DEF H
  <2> QED  BY <1>1, <1>4, <1>5, NumbersFrom0
<1>7. PICK w : Half(n, w)
  <2> HIDE DEF Half
  <2> QED  BY <1>1, <1>6
<1> DEFINE a == body[n]
           m == 2 * a.bs
<1>8. a.out \in Lines /\ a.bs \in Nat
  <2>1. n \in 0 .. n  BY <1>1
  <2> QED  BY <1>3, <2>1
<1>9. m \in Nat /\ m % 2 # 1 /\ m \div 2 = a.bs /\ TRUE \in BOOLEAN /\ (~ TRUE) = FALSE
  <2> HIDE DEF a
  <2>1. m \in Nat /\ m % 2 = 0 /\ m \div 2 = a.bs  BY <1>8, Doubled
  <2> QED  BY <2>1
<1>10. pre(n) = arg  BY SubSeqFull
<1>11. /\ w \in Seq(Chars) /\ w \o Backslashes(a.bs) = arg
       /\ a.out # NoRoom => Reads(st, a.out, ParserAt(A, w, 0, TRUE, TRUE))
  BY <1>7, <1>10
<1>12. Quoted(out, arg) = Put(Put(a.out, Backslashes(m), 1), <<"quote">>, 1)  BY <1>2
<1> HIDE DEF a, m
<1>13. ParseChar(ParserAt(A, w, m, TRUE, TRUE), "quote") = ParserAt(A, w \o Backslashes(m \div 2), 0, ~ TRUE, TRUE)
  BY <1>9, <1>11, ParserSteps
<1>14. ParseChar(ParserAt(A, w, m, TRUE, TRUE), "quote") = ParserAt(A, arg, 0, FALSE, TRUE)
  BY <1>9, <1>11, <1>13
<1> DEFINE line == Put(Put(a.out, Backslashes(m), 1), <<"quote">>, 1)
<1>15. line # NoRoom  BY <1>12
<1>16. /\ line \in Seq(Chars) /\ Len(line) \in 1 .. LineCap - 1
       /\ Reads(st, line, ParseChar(ParserAt(A, w, m, TRUE, TRUE), "quote"))
  BY <1>1, <1>8, <1>9, <1>11, <1>15, ReadsBehindBackslashes
<1> HIDE DEF line
<1> QED  BY <1>12, <1>14, <1>16 DEF line

\* A line that the child reads as some arguments, once it gets to its end.
HoldsArguments(line, held) ==
  /\ line \in Seq(Chars) /\ Len(line) < LineCap /\ held \in Seq(Seq(Chars))
  /\ \/ line = <<>> /\ held = <<>>
     \/ /\ Len(line) > 0
        /\ \E A \in Seq(Seq(Chars)), w \in Seq(Chars), b \in Nat :
             /\ Reads(Between(<<>>), line, ParserAt(A, w, b, FALSE, TRUE))
             /\ held = Append(A, w \o Backslashes(b))

\* The child reads the arguments.
LEMMA LineIsParsed ==
  ASSUME NEW line, NEW held, HoldsArguments(line, held) PROVE Parse(line) = held
<1>1. line \in Seq(Chars) /\ Between(<<>>) \in ParserStates  BY DEF HoldsArguments, Between, ParserStates
<1>2. CASE line = <<>> /\ held = <<>>
  <2>1. Reads(Between(<<>>), <<>>, Between(<<>>))  BY <1>1, ReadsNothing
  <2>2. ParseChar(Between(<<>>), "blank") = Between(<<>>)  BY DEF ParseChar, Between
  <2> QED  BY <1>1, <1>2, <2>1, <2>2, ParseIsRead
<1>3. CASE Len(line) > 0
  <2>1. PICK A \in Seq(Seq(Chars)), w \in Seq(Chars), b \in Nat :
          /\ Reads(Between(<<>>), line, ParserAt(A, w, b, FALSE, TRUE))
          /\ held = Append(A, w \o Backslashes(b))
    <3>1. line # <<>>  BY <1>3
    <3> QED  BY <3>1 DEF HoldsArguments
  <2>2. ParseChar(ParserAt(A, w, b, FALSE, TRUE), "blank") = Between(held)
    BY <2>1, ParserSteps
  <2> QED  BY <1>1, <2>1, <2>2, ParseIsRead
<1> QED  BY <1>2, <1>3 DEF HoldsArguments

\* The next argument is written behind those that are there.
LEMMA QuoteArgHolds ==
  ASSUME NEW line, NEW held, HoldsArguments(line, held), NEW arg \in Seq(Chars),
         QuoteArg(line, arg) # NoRoom
  PROVE  HoldsArguments(QuoteArg(line, arg), Append(held, arg))
<1> DEFINE begun == IF Len(line) > 0 THEN Put(line, <<"blank">>, 1) ELSE line
           st == Between(<<>>)
           next == QuoteArg(line, arg)
<1>1. line \in Seq(Chars) /\ held \in Seq(Seq(Chars)) /\ line \in Lines /\ Len(line) \in Nat /\ "blank" \in Chars
      /\ st \in ParserStates
  BY LenProperties DEF HoldsArguments, Lines, Chars, Between, ParserStates
<1>2. Append(held, arg) \in Seq(Seq(Chars))  BY <1>1
<1>3. LineCap \in Nat  BY LineAssumption
<1>4. begun \in Lines  BY <1>1, OneCharacter, PutFits
<1>5. ASSUME begun # NoRoom PROVE begun \in Seq(Chars) /\ Reads(st, begun, Between(held))
  <2>1. CASE line = <<>> /\ held = <<>>
    <3>1. Reads(st, <<>>, st)  BY <1>1, ReadsNothing
    <3>2. ~ (Len(line) > 0)  BY <2>1
    <3> QED  BY <1>1, <2>1, <3>1, <3>2
  <2>2. CASE Len(line) > 0
    <3>1. PICK A \in Seq(Seq(Chars)), w \in Seq(Chars), b \in Nat :
            /\ Reads(st, line, ParserAt(A, w, b, FALSE, TRUE))
            /\ held = Append(A, w \o Backslashes(b))
      <4>1. line # <<>>  BY <2>2
      <4> QED  BY <4>1 DEF HoldsArguments
    <3>2. begun = line \o <<"blank">> /\ line \o <<"blank">> = Append(line, "blank")
      BY <1>1, <1>5, <2>2, OneCharacter, PutFits
    <3>3. ParseChar(ParserAt(A, w, b, FALSE, TRUE), "blank") = Between(held)
      BY <3>1, ParserSteps
    <3>4. Reads(st, Append(line, "blank"), ParseChar(ParserAt(A, w, b, FALSE, TRUE), "blank"))
      BY <1>1, <3>1, ReadsOneMore
    <3>5. Append(line, "blank") \in Seq(Chars)  BY <1>1, AppendProperties
    <3> HIDE DEF begun
    <3> QED  BY <3>2, <3>3, <3>4, <3>5
  <2> QED  BY <2>1, <2>2 DEF HoldsArguments
<1>6. line # NoRoom
  <2>1. QuoteArg(NoRoom, arg) = NoRoom  BY DEF QuoteArg
  <2> QED  BY <2>1
<1>7. CASE NeedsQuotes(arg)
  <2>1. next = Quoted(begun, arg)  BY <1>6, <1>7 DEF QuoteArg
  <2> HIDE DEF begun
  <2>2. /\ next \in Seq(Chars) /\ Len(next) \in 1 .. LineCap - 1
        /\ Reads(st, next, ParserAt(held, arg, 0, FALSE, TRUE))
    BY <1>1, <1>4, <1>5, <2>1, QuotedIsRead
  <2>3. arg \o Backslashes(0) = arg
    <3>1. Backslashes(0) = <<>>  BY BackslashFacts
    <3> QED  BY <3>1, ConcatEmptySeq
  <2>4. Len(next) > 0 /\ Len(next) < LineCap  BY <1>3, <2>2
  <2> HIDE DEF next, st
  <2>5. \E A \in Seq(Seq(Chars)), w \in Seq(Chars), b \in Nat :
          /\ Reads(st, next, ParserAt(A, w, b, FALSE, TRUE))
          /\ Append(held, arg) = Append(A, w \o Backslashes(b))
    <3>1. 0 \in Nat  OBVIOUS
    <3> QED  BY <1>1, <2>2, <2>3, <3>1
  <2> QED  BY <1>2, <2>2, <2>4, <2>5 DEF HoldsArguments, next, st
<1>8. CASE ~ NeedsQuotes(arg)
  <2>1. next = Put(begun, arg, 1)  BY <1>6, <1>8 DEF QuoteArg
  <2> HIDE DEF begun
  <2>2. next # NoRoom  OBVIOUS
  <2> HIDE DEF next
  <2>3. begun \in Seq(Chars) /\ next = begun \o arg /\ Len(next) < LineCap  BY <1>4, <2>1, <2>2, PutFits
  <2>4. begun # NoRoom
    <3>1. Put(NoRoom, arg, 1) = NoRoom  BY DEF Put
    <3> QED  BY <2>1, <2>2, <3>1
  <2>5. arg # <<>> /\ \A k \in 1 .. Len(arg) : arg[k] \in {"bs", "letter"}
    <3>1. \A k \in 1 .. Len(arg) : arg[k] \in Chars /\ k \in DOMAIN arg  BY ElementOfSeq
    <3>2. arg # <<>> /\ \A k \in DOMAIN arg : arg[k] \notin {"blank", "quote"}  BY <1>8 DEF NeedsQuotes
    <3> QED  BY <3>1, <3>2 DEF Chars
  <2>6. PICK w \in Seq(Chars), b \in Nat :
          /\ Reads(Between(held), arg, ParserAt(held, w, b, FALSE, TRUE))
          /\ w \o Backslashes(b) = arg
    BY <1>1, <2>5, PlainIsRead
  <2>7. Reads(st, next, ParserAt(held, w, b, FALSE, TRUE))
    <3>1. Reads(st, begun, Between(held))  BY <1>5, <2>4
    <3> HIDE DEF st
    <3> QED  BY <2>3, <2>6, <3>1, ReadsOn
  <2>8. next \in Seq(Chars) /\ Len(next) > 0
    <3>1. Len(arg) \in Nat /\ Len(arg) # 0  BY <2>5, EmptySeq, LenProperties
    <3>2. begun \o arg \in Seq(Chars) /\ Len(begun \o arg) = Len(begun) + Len(arg) /\ Len(begun) \in Nat
      BY <2>3, ConcatProperties, LenProperties
    <3> QED  BY <2>3, <3>1, <3>2
  <2> HIDE DEF st
  <2>9. \E A \in Seq(Seq(Chars)), v \in Seq(Chars), m \in Nat :
          /\ Reads(st, next, ParserAt(A, v, m, FALSE, TRUE))
          /\ Append(held, arg) = Append(A, v \o Backslashes(m))
    BY <1>1, <2>6, <2>7
  <2>10. HoldsArguments(next, Append(held, arg))  BY <1>2, <2>3, <2>8, <2>9 DEF HoldsArguments, st
  <2> QED  BY <2>10 DEF next
<1> QED  BY <1>7, <1>8

\* A line stays a line, or has no room.
LEMMA QuoteArgStays ==
  ASSUME NEW out \in Lines, NEW arg \in Seq(Chars) PROVE QuoteArg(out, arg) \in Lines
<1> DEFINE begun == IF Len(out) > 0 THEN Put(out, <<"blank">>, 1) ELSE out
<1>1. "blank" \in Chars /\ "quote" \in Chars  BY DEF Chars
<1>2. begun \in Lines  BY <1>1, OneCharacter, PutFits
<1> HIDE DEF begun
<1>3. Quoted(begun, arg) \in Lines
  <2> DEFINE n == Len(arg)
  <2>1. PICK body \in [0 .. n -> QuoteStates] :
          Quoted(begun, arg) = Put(Put(body[n].out, Backslashes(2 * body[n].bs), 1), <<"quote">>, 1)
    BY <1>2, QuoteRuns
  <2>2. n \in 0 .. n  BY LenProperties
  <2>3. body[n].out \in Lines /\ body[n].bs \in Nat  BY <2>1, <2>2 DEF QuoteStates
  <2>4. Backslashes(2 * body[n].bs) \in Seq(Chars)
    <3>1. 2 * body[n].bs \in Nat  BY <2>3
    <3> QED  BY <3>1, BackslashFacts
  <2>5. Put(body[n].out, Backslashes(2 * body[n].bs), 1) \in Lines  BY <2>3, <2>4, PutFits
  <2> QED  BY <1>1, <2>1, <2>5, OneCharacter, PutFits
<1>4. Put(begun, arg, 1) \in Lines  BY <1>2, PutFits
<1>5. NoRoom \in Lines  BY DEF Lines
<1> QED  BY <1>3, <1>4, <1>5 DEF QuoteArg, begun

\* A blob lists arguments.
LEMMA ListedArguments ==
  ASSUME NEW file \in Seq(Chars), NEW args \in Seq(Seq(Chars))
  PROVE  Listed(file, args) \in Seq(Seq(Chars))
<1> DEFINE all == args \o << <<>> >>
           I == {i \in 1 .. Len(all) : all[i] = <<>>}
           m == SelectInSeq(all, LAMBDA arg : arg = <<>>)
<1>1. <<>> \in Seq(Chars)  OBVIOUS
<1>2. all \in Seq(Seq(Chars)) /\ Len(all) = Len(args) + 1 /\ Len(args) \in Nat
  BY <1>1, ConcatProperties, LenProperties
<1>3. m = IF I # {} THEN Min(I) ELSE 0  BY DEF SelectInSeq
<1>4. I \subseteq 1 .. Len(args) + 1  BY <1>2
<1>5. m \in 0 .. Len(args) + 1
  <2> HIDE DEF all, I, m
  <2>1. CASE I # {}
    <3>1. I \subseteq Nat  BY <1>2, <1>4
    <3>2. PICK x \in I : \A k \in I : x <= k  BY <2>1, <3>1, LeastNumber
    <3>3. Min(I) \in I  BY <3>2 DEF Min
    <3>4. m = Min(I)  BY <1>3, <2>1
    <3>5. Min(I) \in 1 .. Len(args) + 1  BY <1>4, <3>3
    <3> QED  BY <1>2, <3>4, <3>5
  <2>2. CASE I = {}  BY <1>2, <1>3, <2>2
  <2> QED  BY <2>1, <2>2
<1>6. Blob(args) = SubSeq(args, 1, m - 1)  BY DEF Blob
<1> HIDE DEF m
<1>7. SubSeq(args, 1, m - 1) \in Seq(Seq(Chars))
  <2>1. \A i \in 1 .. m - 1 : i \in 1 .. Len(args) /\ args[i] \in Seq(Chars)
    <3>1. \A i \in 1 .. Len(args) : args[i] \in Seq(Chars)  BY ElementOfSeq
    <3> QED  BY <1>2, <1>5, <3>1
  <2> QED  BY <1>2, <1>5, <2>1, SubSeqProperties
<1>8. <<file>> \in Seq(Seq(Chars))  OBVIOUS
<1> QED  BY <1>6, <1>7, <1>8 DEF Listed

\* The line that is built holds the arguments, if it fits.
LEMMA CommandLineHolds ==
  ASSUME NEW file \in Seq(Chars), NEW args \in Seq(Seq(Chars)), CommandLine(file, args) # NoRoom
  PROVE  HoldsArguments(CommandLine(file, args), Listed(file, args))
<1> DEFINE list == Listed(file, args)
           n == Len(list)
           F == [p \in Lines \X (1 .. n) |-> QuoteArg(p[1], list[p[2]])]
           Body(f) == [k \in 0 .. n |-> IF k = 0 THEN <<>> ELSE QuoteArg(f[k - 1], list[k])]
           line == CHOOSE f : f = Body(f)
<1>1. CommandLine(file, args) = line[n]  BY DEF CommandLine
<1>2. list \in Seq(Seq(Chars))  BY ListedArguments
<1> HIDE DEF list
<1>3. n \in Nat /\ \A k \in 1 .. n : list[k] \in Seq(Chars)  BY <1>2, LenProperties, ElementOfSeq
<1>4. <<>> \in Lines  BY DEF Lines
<1>5. F \in [Lines \X (1 .. n) -> Lines]
  <2>1. \A p \in Lines \X (1 .. n) : p[1] \in Lines /\ list[p[2]] \in Seq(Chars)  BY <1>3
  <2>2. \A p \in Lines \X (1 .. n) : QuoteArg(p[1], list[p[2]]) \in Lines  BY <2>1, QuoteArgStays
  <2> QED  BY <2>2
<1>6. PICK g \in [0 .. n -> Lines] : g[0] = <<>> /\ \A k \in 1 .. n : g[k] = F[<<g[k - 1], k>>]
  <2> HIDE DEF n, F
  <2>1. Runnable(Lines, <<>>, n, F)  BY <1>3, <1>4, <1>5 DEF Runnable
  <2>2. PICK g : LoopOf(g, Lines, <<>>, n, F)  BY <2>1, LoopRuns
  <2> QED  BY <2>2 DEF LoopOf
<1>7. \A k \in 1 .. n : g[k] = QuoteArg(g[k - 1], list[k])
  <2>1. ASSUME NEW k \in 1 .. n PROVE g[k] = QuoteArg(g[k - 1], list[k])
    <3>1. k - 1 \in 0 .. n  BY <1>3
    <3>2. <<g[k - 1], k>> \in Lines \X (1 .. n)  BY <3>1
    <3> QED  BY <1>6, <3>2
  <2> QED  BY <2>1
<1> HIDE DEF F
<1>8. g = Body(g)
  <2>1. \A k \in 0 .. n : k # 0 => k \in 1 .. n  BY <1>3
  <2> QED  BY <1>6, <1>7, <2>1
<1>9. line = Body(line)
  <2> HIDE DEF Body
  <2> QED  BY <1>8, Zenon
<1> HIDE DEF line
<1> DEFINE H == {k \in Nat : k <= n /\ line[k] # NoRoom => HoldsArguments(line[k], SubSeq(list, 1, k))}
<1>10. 0 \in H
  <2>1. 0 \in 0 .. n  BY <1>3
  <2>2. line[0] = <<>>  BY <1>9, <2>1
  <2>3. SubSeq(list, 1, 0) = <<>>  BY SubSeqEmpty
  <2>4. HoldsArguments(<<>>, <<>>)  BY LineAssumption DEF HoldsArguments
  <2> QED  BY <2>2, <2>3, <2>4
<1>11. ASSUME NEW k \in Nat, k \in H PROVE k + 1 \in H
  <2>1. SUFFICES ASSUME k + 1 <= n, line[k + 1] # NoRoom
                 PROVE  HoldsArguments(line[k + 1], SubSeq(list, 1, k + 1))
    OBVIOUS
  <2>2. k + 1 \in 0 .. n /\ k + 1 # 0 /\ (k + 1) - 1 = k /\ k <= n /\ k + 1 \in 1 .. n  BY <1>3, <2>1
  <2>3. line[k + 1] = QuoteArg(line[k], list[k + 1])  BY <1>9, <2>2
  <2>4. line[k] # NoRoom
    <3>1. QuoteArg(NoRoom, list[k + 1]) = NoRoom  BY DEF QuoteArg
    <3> QED  BY <2>1, <2>3, <3>1
  <2>5. HoldsArguments(line[k], SubSeq(list, 1, k))  BY <1>11, <2>2, <2>4
  <2>6. SubSeq(list, 1, k + 1) = Append(SubSeq(list, 1, k), list[k + 1])  BY <1>2, <2>1, PrefixGrows
  <2>7. list[k + 1] \in Seq(Chars)  BY <1>3, <2>2
  <2>8. QuoteArg(line[k], list[k + 1]) # NoRoom  BY <2>1, <2>3
  <2> HIDE DEF n
  <2>9. HoldsArguments(QuoteArg(line[k], list[k + 1]), Append(SubSeq(list, 1, k), list[k + 1]))
    BY <2>5, <2>7, <2>8, QuoteArgHolds
  <2> QED  BY <2>3, <2>6, <2>9
<1>12. n \in H
  <2> HIDE DEF H
  <2> QED  BY <1>3, <1>10, <1>11, NumbersFrom0
<1>13. SubSeq(list, 1, n) = list  BY <1>2, SubSeqFull
<1>14. line[n] # NoRoom  BY <1>1
<1>15. HoldsArguments(line[n], list)  BY <1>3, <1>12, <1>13, <1>14
<1> QED  BY <1>1, <1>15 DEF list
-----------------------------------------------------------------------------
(* The vector kernels.                                                     *)

\* What a kernel does that reads all of its operands before it stores a lane.
Lanewise(lane, mem, out, n) ==
  [k \in DOMAIN mem |-> IF k - out \in 0 .. n - 1 THEN lane[k - out] ELSE mem[k]]

\* Operands in memory, and a result over one of them or apart from both.
OperandsAt(op, D, V, mem, a, b, out) ==
  /\ D \subseteq Int /\ mem \in [D -> V] /\ {a, b, out} \subseteq Int /\ Lanes(op) \in Nat
  /\ \A i \in 0 .. Lanes(op) - 1 : a + i \in D /\ b + i \in D
  /\ \A x \in {a, b} : out = x \/ Abs(out - x) >= Lanes(op)

\* The scalar loop stores lane after lane, but a lane that it has stored is not read any more.
LEMMA ScalarIsLanewise ==
  ASSUME NEW op, NEW D, NEW V, NEW mem, NEW a, NEW b, NEW out, OperandsAt(op, D, V, mem, a, b, out)
  PROVE  Scalar(op, mem, a, b, out)
           = Lanewise([i \in 0 .. Lanes(op) - 1 |-> ScalarLane(op, mem[a + i], mem[b + i])],
                      mem, out, Lanes(op))
<1>0. /\ D \subseteq Int /\ mem \in [D -> V] /\ a \in Int /\ b \in Int /\ out \in Int /\ Lanes(op) \in Nat
      /\ \A i \in 0 .. Lanes(op) - 1 : a + i \in D /\ b + i \in D
      /\ \A x \in {a, b} : out = x \/ Abs(out - x) >= Lanes(op)
  BY DEF OperandsAt
<1> DEFINE N == Lanes(op)
           lane == [i \in 0 .. N - 1 |-> ScalarLane(op, mem[a + i], mem[b + i])]
           g == [n \in 0 .. N |-> Lanewise(lane, mem, out, n)]
           Body(f) == [n \in 0 .. N |-> IF n = 0 THEN mem ELSE Stored(op, f[n - 1], a, b, out, n - 1)]
           stored == CHOOSE f : f = Body(f)
<1>1. Scalar(op, mem, a, b, out) = stored[N]  BY DEF Scalar
<1>2. \A i \in 0 .. N - 1 : lane[i] = ScalarLane(op, mem[a + i], mem[b + i])  OBVIOUS
<1> HIDE DEF lane
<1>3. Lanewise(lane, mem, out, 0) = mem  BY <1>0 DEF Lanewise
<1>4. \A n \in 1 .. N : Lanewise(lane, mem, out, n) = Stored(op, Lanewise(lane, mem, out, n - 1), a, b, out, n - 1)
  <2> TAKE n \in 1 .. N
  <2> DEFINE m == Lanewise(lane, mem, out, n - 1)
             p == Lanewise(lane, mem, out, n)
  <2>1. DOMAIN m = D /\ DOMAIN p = D  BY <1>0 DEF Lanewise
  <2>2. ASSUME NEW x \in {a, b} PROVE m[x + n - 1] = mem[x + n - 1]
    <3>1. x + n - 1 \in D /\ n - 1 \in 0 .. N - 1  BY <1>0
    <3>2. ~ ((x + n - 1) - out \in 0 .. (n - 1) - 1)
      <4>1. CASE out = x  BY <1>0, <4>1
      <4>2. CASE Abs(out - x) >= N  BY <1>0, <4>2 DEF Abs
      <4> QED  BY <1>0, <4>1, <4>2
    <3> QED  BY <1>0, <3>1, <3>2 DEF Lanewise
  <2>3. ScalarLane(op, m[a + n - 1], m[b + n - 1]) = lane[n - 1]
    <3>1. n - 1 \in 0 .. N - 1 /\ a + (n - 1) = a + n - 1 /\ b + (n - 1) = b + n - 1  BY <1>0
    <3> QED  BY <1>2, <2>2, <3>1
  <2>4. ASSUME NEW k \in D PROVE p[k] = IF k = out + (n - 1) THEN lane[n - 1] ELSE m[k]
    <3>1. CASE k = out + (n - 1)
      <4>1. k - out \in 0 .. n - 1 /\ k - out = n - 1  BY <1>0, <3>1
      <4> QED  BY <1>0, <3>1, <4>1 DEF Lanewise
    <3>2. CASE k # out + (n - 1)
      <4>1. k - out \in 0 .. n - 1 <=> k - out \in 0 .. (n - 1) - 1  BY <1>0, <3>2
      <4> QED  BY <1>0, <3>2, <4>1 DEF Lanewise
    <3> QED  BY <3>1, <3>2
  <2>5. Stored(op, m, a, b, out, n - 1) = [m EXCEPT ![out + (n - 1)] = lane[n - 1]]
    <3>1. a + (n - 1) = a + n - 1 /\ b + (n - 1) = b + n - 1  BY <1>0
    <3> HIDE DEF m
    <3> QED  BY <2>3, <3>1 DEF Stored
  <2>6. m = [k \in D |-> m[k]] /\ p = [k \in D |-> p[k]]  BY <2>1 DEF Lanewise
  <2> HIDE DEF m, p
  <2>7. [m EXCEPT ![out + (n - 1)] = lane[n - 1]] = [k \in D |-> IF k = out + (n - 1) THEN lane[n - 1] ELSE m[k]]
    BY <2>1, <2>6
  <2>8. p = [k \in D |-> IF k = out + (n - 1) THEN lane[n - 1] ELSE m[k]]  BY <2>4, <2>6
  <2> QED  BY <2>5, <2>7, <2>8 DEF m, p
<1>5. g = Body(g)
  <2>1. \A n \in 0 .. N : n # 0 => n \in 1 .. N /\ n - 1 \in 0 .. N  BY <1>0
  <2> QED  BY <1>3, <1>4, <2>1
<1>6. stored = Body(stored)
  <2> HIDE DEF Body
  <2> QED  BY <1>5, Zenon
<1> HIDE DEF stored
<1> DEFINE H == {n \in Nat : n <= N => stored[n] = Lanewise(lane, mem, out, n)}
<1>7. 0 \in H
  <2>1. 0 \in 0 .. N  BY <1>0
  <2> QED  BY <1>3, <1>6, <2>1
<1>8. ASSUME NEW n \in Nat, n \in H PROVE n + 1 \in H
  <2>1. SUFFICES ASSUME n + 1 <= N PROVE stored[n + 1] = Lanewise(lane, mem, out, n + 1)  OBVIOUS
  <2>2. n + 1 \in 0 .. N /\ n + 1 \in 1 .. N /\ n + 1 # 0 /\ (n + 1) - 1 = n /\ n <= N  BY <1>0, <2>1
  <2>3. stored[n + 1] = Stored(op, stored[n], a, b, out, n)  BY <1>6, <2>2
  <2>4. Lanewise(lane, mem, out, n + 1) = Stored(op, Lanewise(lane, mem, out, n), a, b, out, n)  BY <1>4, <2>2
  <2>5. stored[n] = Lanewise(lane, mem, out, n)  BY <1>8, <2>2
  <2> QED  BY <2>3, <2>4, <2>5
<1>9. N \in H
  <2> HIDE DEF H, N
  <2> QED  BY <1>0, <1>7, <1>8, NumbersFrom0 DEF N
<1> QED  BY <1>0, <1>1, <1>9 DEF lane

\* What a lane of the operands can be.
LaneValues == {Number(v) : v \in Int} \cup {NaNLane, NegZero}

\* On a lane the builds agree, but on the unusual ones.
LEMMA LanesAgree ==
  ASSUME NEW op \in LaneOps, NEW x \in LaneValues, NEW y \in LaneValues,
         op \in IntOps => x.kind = "number" /\ y.kind = "number",
         ~ Unusual(op, x, y)
  PROVE  X86Lane(op, x, y) = NeonLane(op, x, y) /\ X86Lane(op, x, y) = ScalarLane(op, x, y)
<1> DEFINE X == X86Lane(op, x, y)
           Y == NeonLane(op, x, y)
           Z == ScalarLane(op, x, y)
<1>1. CASE op \in FloatOps
  <2>1. X = Term(op, x, y) /\ Y = Term(op, x, y) /\ Z = Term(op, x, y)
    BY <1>1 DEF X86Lane, NeonLane, ScalarLane, IntOps, Moves, FloatOps, AvxOps
  <2> QED  BY <2>1
<1>2. CASE op \in Moves
  <2>1. X = x /\ Y = x /\ Z = x
    BY <1>2 DEF X86Lane, NeonLane, ScalarLane, IntOps, Moves, FloatOps, AvxOps
  <2> QED  BY <2>1
<1>3. CASE op \in IntOps
  <2> DEFINE e == Exact(op, x, y)
  <2>1. e \in Int
    <3>1. x.v \in Int /\ y.v \in Int  BY DEF LaneValues, Number, NaNLane, NegZero
    <3> HIDE DEF LaneValues
    <3>2. x.v + y.v \in Int /\ x.v - y.v \in Int /\ x.v * y.v \in Int  BY <3>1
    <3> QED  BY <1>3, <3>2 DEF Exact, IntOps
  <2>2. InRange(e)  BY <1>3 DEF Unusual
  <2>3. X = Number(Wrapped(e)) /\ Y = Number(Wrapped(e)) /\ Z = IF InRange(e) THEN Number(e) ELSE Undefined
    BY <1>3 DEF X86Lane, NeonLane, ScalarLane, IntOps, Moves, FloatOps, AvxOps
  <2> HIDE DEF e
  <2>4. Wrapped(e) = e
    <3>1. e + IntRange \in 0 .. 2 * IntRange - 1 /\ IntRange \in Nat \ {0}
      BY <2>1, <2>2, IntRangeAssumption DEF InRange
    <3>2. (e + IntRange) % (2 * IntRange) = e + IntRange  BY <2>1, <3>1
    <3> QED  BY <2>1, <3>1, <3>2 DEF Wrapped
  <2> QED  BY <2>2, <2>3, <2>4
<1>4. CASE op \in Extrema
  <2>1. Ordered(x, y) /\ ~ (x.v = 0 /\ y.v = 0)  BY <1>4 DEF Unusual
  <2>2. x.v \in Int /\ y.v \in Int  BY DEF LaneValues, Number, NaNLane, NegZero
  <2>3. (x = NegZero => x.v = 0) /\ (y = NegZero => y.v = 0)  BY DEF NegZero
  <2>4. (Less(x, y) <=> x.v < y.v) /\ (Less(y, x) <=> y.v < x.v)  BY <2>1 DEF Less, Ordered
  <2>5. x.v # 0 /\ y.v # 0 /\ x.v = y.v => x = y
    BY <2>1 DEF LaneValues, Number, NaNLane, NegZero, Ordered
  <2>6. CASE op = "f32x4_min"
    <3>1. /\ X = IF Less(x, y) THEN x ELSE y
          /\ Y = IF ~ Ordered(x, y) THEN NaNLane
                 ELSE IF Less(x, y) \/ (x = NegZero /\ ~ Less(y, x)) THEN x ELSE y
          /\ Z = IF Less(x, y) THEN x ELSE y
      BY <2>6 DEF X86Lane, NeonLane, ScalarLane, IntOps, Moves, FloatOps, AvxOps
    <3> QED  BY <2>1, <2>2, <2>3, <2>4, <3>1
  <2>7. CASE op = "f32x4_max"
    <3>1. /\ X = IF Less(y, x) THEN x ELSE y
          /\ Y = IF ~ Ordered(x, y) THEN NaNLane
                 ELSE IF Less(y, x) \/ (y = NegZero /\ ~ Less(x, y)) THEN x ELSE y
          /\ Z = IF Less(y, x) THEN x ELSE y
      BY <2>7 DEF X86Lane, NeonLane, ScalarLane, IntOps, Moves, FloatOps, AvxOps
    <3>2. y = NegZero /\ ~ Less(x, y) => Less(y, x) \/ x = y  BY <2>1, <2>2, <2>3, <2>4
    <3> QED  BY <2>1, <3>1, <3>2
  <2> QED  BY <1>4, <2>6, <2>7 DEF Extrema
<1>5. CASE op = "f32_to_i32"
  <2>1. x.kind # "nan" /\ InRange(x.v)  BY <1>5 DEF Unusual
  <2>2. X = Number(x.v) /\ Y = Number(x.v) /\ Z = Number(x.v)
    BY <1>5, <2>1 DEF X86Lane, NeonLane, ScalarLane, IntOps, Moves, FloatOps, AvxOps
  <2> QED  BY <2>2
<1> QED  BY <1>1, <1>2, <1>3, <1>4, <1>5 DEF LaneOps

\* The 256-bit kernels.
LEMMA WideLanesAgree ==
  ASSUME NEW op \in AvxOps, NEW x, NEW y PROVE X86Lane(op, x, y) = ScalarLane(op, x, y)
BY DEF X86Lane, ScalarLane, IntOps, Moves, FloatOps, AvxOps

\* The memory of a call.
Cells == 0 .. MemSize - 1

\* A call with operands at 0 and b whose result does not overlap them in part.
KernelCall(op, V, mem, b, out) ==
  /\ mem \in [Cells -> V] /\ b \in Cells /\ out \in Cells
  /\ Lanes(op) \in Nat /\ b + Lanes(op) <= MemSize /\ InPlaceOrApart(op, out, b)

\* What a call with operands at 0 and b leaves in a cell.
LEMMA CellsOfAKernel ==
  ASSUME NEW op, NEW V, NEW mem, NEW b, NEW out, KernelCall(op, V, mem, b, out)
  PROVE  /\ Scalar(op, mem, 0, b, out) = [k \in Cells |-> IF k - out \in 0 .. Lanes(op) - 1
              THEN ScalarLane(op, mem[k - out], mem[b + (k - out)]) ELSE mem[k]]
         /\ X86(op, mem, 0, b, out) = [k \in Cells |-> IF k - out \in 0 .. Lanes(op) - 1
              THEN X86Lane(op, mem[k - out], mem[b + (k - out)]) ELSE mem[k]]
         /\ Neon(op, mem, 0, b, out) = [k \in Cells |-> IF k - out \in 0 .. Lanes(op) - 1
              THEN NeonLane(op, mem[k - out], mem[b + (k - out)]) ELSE mem[k]]
<1> DEFINE N == Lanes(op)
           lane == [i \in 0 .. N - 1 |-> ScalarLane(op, mem[0 + i], mem[b + i])]
<1>0. mem \in [Cells -> V] /\ b \in Cells /\ out \in Cells /\ Lanes(op) \in Nat /\ b + Lanes(op) <= MemSize
  BY DEF KernelCall
<1>1. DOMAIN mem = Cells /\ Cells \in SUBSET Int /\ MemSize = 20 /\ b \in Int /\ out \in Int
  BY <1>0 DEF Cells, MemSize
<1>2. \A i \in 0 .. N - 1 : 0 + i \in Cells /\ b + i \in Cells  BY <1>0, <1>1 DEF Cells
<1>3. \A x \in {0, b} : out = x \/ Abs(out - x) >= N  BY DEF InPlaceOrApart, KernelCall
<1>4. Scalar(op, mem, 0, b, out) = Lanewise(lane, mem, out, N)
  <2>1. OperandsAt(op, Cells, V, mem, 0, b, out)  BY <1>0, <1>1, <1>2, <1>3 DEF OperandsAt
  <2> QED  BY <2>1, ScalarIsLanewise
<1>5. Lanewise(lane, mem, out, N) = [k \in Cells |-> IF k - out \in 0 .. N - 1
        THEN ScalarLane(op, mem[k - out], mem[b + (k - out)]) ELSE mem[k]]
  <2>1. \A k \in Cells : k - out \in 0 .. N - 1 => lane[k - out] = ScalarLane(op, mem[k - out], mem[b + (k - out)])
    <3>1. \A i \in 0 .. N - 1 : 0 + i = i  OBVIOUS
    <3> QED  BY <3>1
  <2> HIDE DEF lane
  <2> QED  BY <1>1, <2>1 DEF Lanewise
<1>6. \A k \in Cells : 0 + k - out = k - out /\ b + k - out = b + (k - out)  BY <1>1 DEF Cells
<1> QED  BY <1>1, <1>4, <1>5, <1>6 DEF X86, Neon

\* A memory holds lane values; all but one cell are ordinary.
LEMMA MemoryHoldsLanes ==
  ASSUME NEW place, NEW lane \in LaneValues
  PROVE  /\ Memory(place, lane) \in [Cells -> LaneValues]
         /\ lane.kind = "number" => \A k \in Cells : Memory(place, lane)[k].kind = "number"
<1>1. \A k \in Cells : Number(k % 3) \in LaneValues /\ Number(k % 3).kind = "number"
  <2>1. \A k \in Cells : k % 3 \in Int  BY DEF Cells, MemSize
  <2>2. \A v \in Int : Number(v) \in LaneValues /\ Number(v).kind = "number"  BY DEF LaneValues, Number
  <2> QED  BY <2>1, <2>2
<1> QED  BY <1>1 DEF Memory, Cells

\* The builds agree on a kernel of four lanes.
LEMMA VectorCallAgrees == CallVector => VectorBuildsAgree'
<1> SUFFICES ASSUME CallVector PROVE VectorBuildsAgree'  OBVIOUS
<1>1. PICK op \in LaneOps, place \in {1, 6}, b \in {0, 5}, out \in {0, 1, 4, 5, 10},
           lane \in {Number(v) : v \in Specials} \cup {NaNLane, NegZero} :
        /\ op \in IntOps => lane.kind = "number"
        /\ call' = [kind |-> "vector", op |-> op, mem |-> Memory(place, lane), b |-> b, out |-> out,
                    x86 |-> X86(op, Memory(place, lane), 0, b, out),
                    neon |-> Neon(op, Memory(place, lane), 0, b, out),
                    scalar |-> Scalar(op, Memory(place, lane), 0, b, out)]
  BY DEF CallVector
<1> DEFINE mem == Memory(place, lane)
           N == Lanes(op)
<1>2. lane \in LaneValues  BY CallsAssumption DEF LaneValues
<1>3. mem \in [Cells -> LaneValues] /\ (op \in IntOps => \A k \in Cells : mem[k].kind = "number")
  BY <1>1, <1>2, MemoryHoldsLanes
<1> HIDE DEF mem
<1>4. /\ call'.kind = "vector" /\ call'.op = op /\ call'.mem = mem /\ call'.b = b /\ call'.out = out
      /\ call'.x86 = X86(op, mem, 0, b, out) /\ call'.neon = Neon(op, mem, 0, b, out)
      /\ call'.scalar = Scalar(op, mem, 0, b, out)
  BY <1>1 DEF mem
<1>5. N = 4  BY DEF Lanes, LaneOps, FloatOps, IntOps, Extrema, Moves
<1> HIDE DEF N
<1>6. b \in Cells /\ out \in Cells /\ b + N <= MemSize /\ N \in Nat  BY <1>5 DEF Cells, MemSize
<1>7. ASSUME InPlaceOrApart(op, out, b), NEW k \in Cells
      PROVE  LET i == k - out
             IN \/ i \in 0 .. Lanes(op) - 1 /\ Unusual(op, mem[i], mem[b + i])
                \/ (call'.x86[k] = call'.neon[k] /\ call'.x86[k] = call'.scalar[k])
  <2> DEFINE i == k - out
  <2>1. /\ call'.scalar[k] = IF i \in 0 .. N - 1 THEN ScalarLane(op, mem[i], mem[b + i]) ELSE mem[k]
        /\ call'.x86[k] = IF i \in 0 .. N - 1 THEN X86Lane(op, mem[i], mem[b + i]) ELSE mem[k]
        /\ call'.neon[k] = IF i \in 0 .. N - 1 THEN NeonLane(op, mem[i], mem[b + i]) ELSE mem[k]
    <3>1. KernelCall(op, LaneValues, mem, b, out)  BY <1>3, <1>6, <1>7 DEF KernelCall, N
    <3>2. /\ Scalar(op, mem, 0, b, out) = [c \in Cells |-> IF c - out \in 0 .. N - 1
              THEN ScalarLane(op, mem[c - out], mem[b + (c - out)]) ELSE mem[c]]
          /\ X86(op, mem, 0, b, out) = [c \in Cells |-> IF c - out \in 0 .. N - 1
              THEN X86Lane(op, mem[c - out], mem[b + (c - out)]) ELSE mem[c]]
          /\ Neon(op, mem, 0, b, out) = [c \in Cells |-> IF c - out \in 0 .. N - 1
              THEN NeonLane(op, mem[c - out], mem[b + (c - out)]) ELSE mem[c]]
      BY <3>1, CellsOfAKernel DEF N
    <3> QED  BY <1>4, <1>7, <3>2
  <2>2. CASE ~ (i \in 0 .. N - 1)  BY <2>1, <2>2
  <2>3. CASE i \in 0 .. N - 1
    <3>1. i \in Cells /\ b + i \in Cells  BY <1>5, <1>6, <2>3 DEF Cells, MemSize
    <3>2. mem[i] \in LaneValues /\ mem[b + i] \in LaneValues  BY <1>3, <3>1
    <3>3. op \in IntOps => mem[i].kind = "number" /\ mem[b + i].kind = "number"  BY <1>3, <3>1
    <3> HIDE DEF i
    <3>4. ~ Unusual(op, mem[i], mem[b + i]) =>
             /\ X86Lane(op, mem[i], mem[b + i]) = NeonLane(op, mem[i], mem[b + i])
             /\ X86Lane(op, mem[i], mem[b + i]) = ScalarLane(op, mem[i], mem[b + i])
      BY <3>2, <3>3, LanesAgree
    <3> QED  BY <2>1, <2>3, <3>4 DEF i, N
  <2> QED  BY <2>2, <2>3
<1>8. DOMAIN call'.mem = Cells  BY <1>3, <1>4
<1> QED  BY <1>4, <1>7, <1>8 DEF VectorBuildsAgree

\* The builds agree on a 256-bit kernel.
LEMMA WideCallAgrees == CallWide => VectorBuildsAgree'
<1> SUFFICES ASSUME CallWide PROVE VectorBuildsAgree'  OBVIOUS
<1> DEFINE mem == Memory(0, NaNLane)
<1>1. PICK op \in AvxOps, out \in {0, 1, 10} :
        call' = [kind |-> "wide", op |-> op, mem |-> mem, b |-> 2, out |-> out,
                 x86 |-> X86(op, mem, 0, 2, out), scalar |-> Scalar(op, mem, 0, 2, out)]
  BY DEF CallWide
<1>2. mem \in [Cells -> LaneValues]
  <2>1. NaNLane \in LaneValues  BY DEF LaneValues
  <2> QED  BY <2>1, MemoryHoldsLanes
<1> HIDE DEF mem
<1>3. /\ call'.kind = "wide" /\ call'.op = op /\ call'.out = out /\ call'.b = 2
      /\ call'.x86 = X86(op, mem, 0, 2, out) /\ call'.scalar = Scalar(op, mem, 0, 2, out)
  BY <1>1
<1>4. Lanes(op) \in {4, 8}  BY DEF Lanes
<1>5. 2 \in Cells /\ out \in Cells /\ 2 + Lanes(op) <= MemSize /\ Lanes(op) \in Nat
  BY <1>4 DEF Cells, MemSize
<1>6. ASSUME InPlaceOrApart(op, out, 2) PROVE X86(op, mem, 0, 2, out) = Scalar(op, mem, 0, 2, out)
  <2>1. /\ Scalar(op, mem, 0, 2, out) = [k \in Cells |-> IF k - out \in 0 .. Lanes(op) - 1
              THEN ScalarLane(op, mem[k - out], mem[2 + (k - out)]) ELSE mem[k]]
        /\ X86(op, mem, 0, 2, out) = [k \in Cells |-> IF k - out \in 0 .. Lanes(op) - 1
              THEN X86Lane(op, mem[k - out], mem[2 + (k - out)]) ELSE mem[k]]
    <3>1. KernelCall(op, LaneValues, mem, 2, out)  BY <1>2, <1>5, <1>6 DEF KernelCall
    <3> QED  BY <3>1, CellsOfAKernel
  <2>2. \A k \in Cells : X86Lane(op, mem[k - out], mem[2 + (k - out)])
                           = ScalarLane(op, mem[k - out], mem[2 + (k - out)])
    BY WideLanesAgree
  <2> QED  BY <2>1, <2>2
<1> QED  BY <1>3, <1>6 DEF VectorBuildsAgree

\* The leaves of the three trees of an inner product.
LEMMA DotCallAgrees == CallDot => VectorBuildsAgree'
<1> SUFFICES ASSUME CallDot PROVE VectorBuildsAgree'  OBVIOUS
<1> DEFINE mem == [k \in 0 .. MemSize - 1 |-> Number(k)]
<1>1. PICK b \in {0, 5} :
        call' = [kind |-> "dot", mem |-> mem, b |-> b,
                 sums |-> {X86Dot(mem, 0, b), NeonDot(mem, 0, b), ScalarDot(mem, 0, b)}]
  BY DEF CallDot
<1> HIDE DEF mem
<1> DEFINE p(k) == Product(mem, 0, b, k)
           Leaf(t) == t.v[1] # "add"
<1>2. \A k : Leaf(p(k))  BY DEF Product, Term
<1>3. \A x, y : Sum(x, y).v[1] = "add" /\ Sum(x, y).v[2] = x /\ Sum(x, y).v[3] = y  BY DEF Sum, Term
<1> HIDE DEF p, Leaf
<1>4. \A x, y, T : Opened(T \cup {Sum(x, y)}) = Opened(T) \cup {x, y}  BY <1>3 DEF Opened
<1>5. \A x, T : Leaf(x) => Opened(T \cup {x}) = Opened(T) \cup {x}  BY DEF Opened, Leaf
<1>6. \A x, y : Opened({Sum(x, y)}) = {x, y}  BY <1>3 DEF Opened
<1>7. \A x, y : Leaf(x) /\ Leaf(y) => Opened({x, y}) = {x, y}  BY DEF Opened, Leaf
<1>8. X86Dot(mem, 0, b) = Sum(Sum(p(0), p(1)), Sum(p(2), p(3)))  BY DEF X86Dot, p
<1>9. NeonDot(mem, 0, b) = Sum(Sum(p(0), p(2)), Sum(p(1), p(3)))  BY DEF NeonDot, p
<1>10. ScalarDot(mem, 0, b) = Sum(Sum(Sum(p(0), p(1)), p(2)), p(3))  BY DEF ScalarDot, p
<1> DEFINE All == {p(0), p(1), p(2), p(3)}
<1>11. Opened(All) = All
  <2>1. Leaf(p(0)) /\ Leaf(p(1)) /\ Leaf(p(2)) /\ Leaf(p(3))  BY <1>2
  <2>2. \A t \in All : (IF t.v[1] = "add" THEN {t.v[2], t.v[3]} ELSE {t}) = {t}  BY <2>1 DEF Leaf
  <2> HIDE DEF All
  <2> QED  BY <2>2 DEF Opened
<1>12. \A x, y : Opened({x, y}) = Opened({x}) \cup Opened({y})  BY DEF Opened
<1>13. \A x : Leaf(x) => Opened({x}) = {x}  BY DEF Opened, Leaf
<1>14. Summands(Sum(Sum(p(0), p(1)), Sum(p(2), p(3)))) = All
  <2>1. Opened({Sum(Sum(p(0), p(1)), Sum(p(2), p(3)))}) = {Sum(p(0), p(1)), Sum(p(2), p(3))}  BY <1>6
  <2>2. Opened({Sum(p(0), p(1)), Sum(p(2), p(3))}) = {p(0), p(1)} \cup {p(2), p(3)}
    <3> DEFINE l == Sum(p(0), p(1))
               r == Sum(p(2), p(3))
    <3>1. Opened({l}) = {p(0), p(1)} /\ Opened({r}) = {p(2), p(3)}  BY <1>6
    <3> HIDE DEF l, r
    <3>2. Opened({l, r}) = Opened({l}) \cup Opened({r})  BY <1>12, Zenon
    <3>3. Opened({l, r}) = {p(0), p(1)} \cup {p(2), p(3)}  BY <3>1, <3>2, Zenon
    <3> QED  BY <3>3 DEF l, r
  <2>3. {p(0), p(1)} \cup {p(2), p(3)} = All  OBVIOUS
  <2> QED  BY <2>1, <2>2, <2>3, <1>11 DEF Summands
<1>15. Summands(Sum(Sum(p(0), p(2)), Sum(p(1), p(3)))) = All
  <2>1. Opened({Sum(Sum(p(0), p(2)), Sum(p(1), p(3)))}) = {Sum(p(0), p(2)), Sum(p(1), p(3))}  BY <1>6
  <2>2. Opened({Sum(p(0), p(2)), Sum(p(1), p(3))}) = {p(0), p(2)} \cup {p(1), p(3)}
    <3> DEFINE l == Sum(p(0), p(2))
               r == Sum(p(1), p(3))
    <3>1. Opened({l}) = {p(0), p(2)} /\ Opened({r}) = {p(1), p(3)}  BY <1>6
    <3> HIDE DEF l, r
    <3>2. Opened({l, r}) = Opened({l}) \cup Opened({r})  BY <1>12, Zenon
    <3>3. Opened({l, r}) = {p(0), p(2)} \cup {p(1), p(3)}  BY <3>1, <3>2, Zenon
    <3> QED  BY <3>3 DEF l, r
  <2>3. {p(0), p(2)} \cup {p(1), p(3)} = All  OBVIOUS
  <2> QED  BY <2>1, <2>2, <2>3, <1>11 DEF Summands
<1>16. Summands(Sum(Sum(Sum(p(0), p(1)), p(2)), p(3))) = All
  <2> DEFINE two == Sum(p(0), p(1))
             three == Sum(two, p(2))
  <2>1. Opened({Sum(three, p(3))}) = {three, p(3)}  BY <1>6
  <2>2. Opened({p(3)}) = {p(3)} /\ Opened({p(2)}) = {p(2)}  BY <1>2, <1>13
  <2>3. Opened({three}) = {two, p(2)} /\ Opened({two}) = {p(0), p(1)}  BY <1>6
  <2> HIDE DEF two, three
  <2>4. Opened({three, p(3)}) = {two, p(2)} \cup {p(3)}
    <3>1. Opened({three, p(3)}) = Opened({three}) \cup Opened({p(3)})  BY <1>12, Zenon
    <3> QED  BY <2>2, <2>3, <3>1, Zenon
  <2>5. {two, p(2)} \cup {p(3)} = {p(2), p(3)} \cup {two}  OBVIOUS
  <2>6. Opened({p(2), p(3)} \cup {two}) = Opened({p(2), p(3)}) \cup Opened({two})  BY DEF Opened
  <2>7. Opened({p(2), p(3)}) = {p(2), p(3)}
    <3>1. Opened({p(2), p(3)}) = Opened({p(2)}) \cup Opened({p(3)})  BY <1>12, Zenon
    <3>2. {p(2)} \cup {p(3)} = {p(2), p(3)}  OBVIOUS
    <3> QED  BY <2>2, <3>1, <3>2, Zenon
  <2>8. {p(2), p(3)} \cup {p(0), p(1)} = All  OBVIOUS
  <2>9. Opened(Opened(Opened({Sum(three, p(3))}))) = All  BY <2>1, <2>3, <2>4, <2>5, <2>6, <2>7, <2>8
  <2> QED  BY <2>9 DEF Summands, two, three
<1>17. All = {p(k) : k \in 0 .. 3}
  <2>1. 0 .. 3 = {0, 1, 2, 3}  OBVIOUS
  <2> QED  BY <2>1
<1>18. /\ call'.kind = "dot" /\ call'.mem = mem /\ call'.b = b
       /\ call'.sums = {X86Dot(mem, 0, b), NeonDot(mem, 0, b), ScalarDot(mem, 0, b)}
  BY <1>1 DEF mem
<1>19. \A t \in call'.sums : Summands(t) = {p(k) : k \in 0 .. 3}
  <2> HIDE DEF All
  <2> QED  BY <1>8, <1>9, <1>10, <1>14, <1>15, <1>16, <1>17, <1>18
<1> QED  BY <1>18, <1>19 DEF VectorBuildsAgree, p
-----------------------------------------------------------------------------
(* 128-bit division and bit scans: powers, words and quotients.              *)

\* Powers of two.
LEMMA PowerRuns ==
  Power[0] = 1 /\ \A k \in Nat : Power[k] \in Nat \ {0} /\ Power[k + 1] = 2 * Power[k]
<1>1. Power = PowerTable(2)  BY DEF Power, PowerTable, PowersOf
<1>2. LET p == PowerTable(2)
      IN p[0] = 1 /\ \A k \in Nat : p[k] \in Nat \ {0} /\ p[k + 1] = 2 * p[k]
  BY PowersRun
<1> QED  BY <1>1, <1>2

\* Places of a number in base `Radix`.
LEMMA PlaceRuns ==
  Place[0] = 1 /\ \A k \in Nat : Place[k] \in Nat \ {0} /\ Place[k + 1] = Radix * Place[k]
<1>1. Place = PowerTable(Radix) /\ Radix \in Nat \ {0}  BY DEF Place, PowerTable, PowersOf, Radix
<1>2. LET p == PowerTable(Radix)
      IN p[0] = 1 /\ \A k \in Nat : p[k] \in Nat \ {0} /\ p[k + 1] = Radix * p[k]
  BY <1>1, PowersRun
<1> QED  BY <1>1, <1>2

\* Powers multiply.
LEMMA PowersMultiply ==
  ASSUME NEW j \in Nat, NEW k \in Nat
  PROVE  Power[j + k] = Power[j] * Power[k]
<1> DEFINE H == {n \in Nat : Power[j + n] = Power[j] * Power[n]}
<1>1. 0 \in H  BY PowerRuns
<1>2. ASSUME NEW n \in Nat, n \in H PROVE n + 1 \in H
  <2>1. Power[j] \in Nat /\ Power[n] \in Nat /\ Power[j + n] \in Nat  BY PowerRuns
  <2>2. j + n \in Nat /\ j + (n + 1) = (j + n) + 1  OBVIOUS
  <2>3. Power[j + (n + 1)] = 2 * Power[j + n] /\ Power[n + 1] = 2 * Power[n]  BY <2>2, PowerRuns
  <2>4. Power[j] * (2 * Power[n]) = 2 * (Power[j] * Power[n])  BY <2>1
  <2> QED  BY <1>2, <2>3, <2>4
<1>3. k \in H
  <2> HIDE DEF H
  <2> QED  BY <1>1, <1>2, NumbersFrom0
<1> QED  BY <1>3

\* The bits of a number from the most significant one down.
LEMMA NextBit ==
  ASSUME NEW a \in Nat, NEW m \in Nat
  PROVE  /\ a \div Power[m] = 2 * (a \div Power[m + 1]) + Bit(a, m)
         /\ Bit(a, m) \in {0, 1} /\ a \div Power[m + 1] \in Int
<1> DEFINE d == Power[m]
           x == a \div d
           h == x \div 2
           r == a % d
<1>1. d \in Nat \ {0} /\ Power[m + 1] = 2 * d  BY PowerRuns
<1> HIDE DEF d
<1>2. x \in Int /\ r \in 0 .. d - 1 /\ a = x * d + r
  <2>1. a \in Int  OBVIOUS
  <2> QED  BY <1>1, <2>1
<1> HIDE DEF x, r
<1>3. h \in Int /\ x % 2 \in {0, 1} /\ x = h * 2 + (x % 2)  BY <1>2
<1> HIDE DEF h
<1>4. a \div (2 * d) = h
  <2>1. CASE x % 2 = 0
    <3>1. a = h * (2 * d) + r
      <4>1. x = h * 2  BY <1>3, <2>1
      <4>2. h * 2 * d = h * (2 * d)  BY <1>1, <1>3
      <4>3. x * d = h * (2 * d)  BY <4>1, <4>2
      <4> QED  BY <1>2, <4>3
    <3>2. r \in 0 .. 2 * d - 1  BY <1>1, <1>2
    <3>3. Division(a, 2 * d, h, r)  BY <1>1, <1>3, <3>1, <3>2 DEF Division
    <3> QED  BY <3>3, DividedOnce
  <2>2. CASE x % 2 = 1
    <3>1. a = h * (2 * d) + (d + r)
      <4>1. x = h * 2 + 1  BY <1>3, <2>2
      <4>2. (h * 2 + 1) * d = h * (2 * d) + d  BY <1>1, <1>3
      <4>3. x * d = h * (2 * d) + d  BY <4>1, <4>2
      <4>4. h * (2 * d) \in Int  BY <1>1, <1>3
      <4> QED  BY <1>1, <1>2, <4>3, <4>4
    <3>2. d + r \in 0 .. 2 * d - 1  BY <1>1, <1>2
    <3>3. Division(a, 2 * d, h, d + r)  BY <1>1, <1>3, <3>1, <3>2 DEF Division
    <3> QED  BY <3>3, DividedOnce
  <2> QED  BY <1>3, <2>1, <2>2
<1>5. Bit(a, m) = x % 2  BY DEF Bit, x, d
<1> QED  BY <1>1, <1>3, <1>4, <1>5 DEF x, d
-----------------------------------------------------------------------------
(* Words *)

\* The least negative number is half the number of words.
LEMMA WordSizes ==
  /\ Power[Width] \in Nat \ {0} /\ MinWord \in Nat \ {0} /\ Power[Width] = 2 * MinWord
  /\ Words = 0 .. Power[Width] - 1
<1>1. Width - 1 \in Nat /\ (Width - 1) + 1 = Width /\ Width \in Nat  BY WideAssumption
<1>2. \A k \in Nat : Power[k] \in Nat \ {0} /\ Power[k + 1] = 2 * Power[k]  BY PowerRuns
<1>3. Power[Width - 1] \in Nat \ {0} /\ Power[(Width - 1) + 1] = 2 * Power[Width - 1]  BY <1>1, <1>2
<1> QED  BY <1>1, <1>2, <1>3 DEF MinWord, Words

\* Words are numbers modulo their number.
LEMMA WordsAreModular ==
  /\ \A v \in Int : Word(v) \in Words
  /\ \A v \in Words : Word(v) = v
  /\ \A v \in Int, t \in Int : Word(v + t * Power[Width]) = Word(v)
<1> DEFINE M == Power[Width]
<1>1. M \in Nat \ {0} /\ Words = 0 .. M - 1  BY WordSizes
<1>2. \A v : Word(v) = v % M  BY DEF Word
<1> HIDE DEF M
<1>3. \A v \in Int : Word(v) \in Words  BY <1>1, <1>2
<1>4. ASSUME NEW v \in Words PROVE Word(v) = v
  <2>1. Division(v, M, 0, v)  BY <1>1 DEF Division
  <2> QED  BY <1>2, <2>1, DividedOnce
<1>5. ASSUME NEW v \in Int, NEW t \in Int PROVE Word(v + t * M) = Word(v)
  <2> DEFINE q == v \div M
             r == v % M
  <2>1. q \in Int /\ r \in 0 .. M - 1 /\ v = q * M + r  BY <1>1
  <2> HIDE DEF q, r
  <2>2. (q + t) * M = q * M + t * M  BY <1>1, <2>1
  <2>3. q * M \in Int /\ t * M \in Int  BY <1>1, <2>1
  <2>4. v + t * M = (q + t) * M + r  BY <2>1, <2>2, <2>3
  <2>5. Division(v + t * M, M, q + t, r)  BY <1>1, <2>1, <2>4 DEF Division
  <2>6. (v + t * M) % M = r  BY <2>5, DividedOnce
  <2> QED  BY <1>2, <2>6 DEF r
<1> QED  BY <1>3, <1>4, <1>5 DEF M

\* A step of the division keeps what it has of the dividend divided.
DivHolds(acc, a, b, m) ==
  /\ acc \in [r : Nat, q : Nat] /\ acc.r < b
  /\ \E p \in Nat : a \div Power[m] = p * b + acc.r /\ acc.q = p * Power[m]

\* What a step divides by and into.
Divisible(a, b, m) == a \in Words /\ b \in Words \ {0} /\ m \in 0 .. Width - 1

\* The accumulator remains a pair of numbers.
LEMMA DivStepStays ==
  ASSUME NEW a, NEW b, NEW m, Divisible(a, b, m), NEW acc \in [r : Nat, q : Nat]
  PROVE  DivStep(b, acc, m, a) \in [r : Nat, q : Nat]
<1>1. a \in Nat /\ b \in Nat /\ m \in Nat  BY WordSizes, WideAssumption DEF Divisible
<1>2. Bit(a, m) \in {0, 1} /\ Power[m] \in Nat  BY <1>1, NextBit, PowerRuns
<1> DEFINE r == Word(2 * acc.r) + Bit(a, m)
<1>3. \A v \in Int : Word(v) \in Nat  BY WordsAreModular, WordSizes
<1>4. 2 * acc.r \in Int /\ acc.r \in Nat /\ acc.q \in Nat  OBVIOUS
<1>5. r \in Nat  BY <1>2, <1>3, <1>4
<1>6. Word(r - b) \in Nat  BY <1>1, <1>3, <1>5
<1>7. acc.q + Power[m] \in Nat  BY <1>2, <1>4
<1> HIDE DEF r
<1>8. [acc EXCEPT !.r = r] \in [r : Nat, q : Nat]  BY <1>5
<1>9. [r |-> Word(r - b), q |-> acc.q + Power[m]] \in [r : Nat, q : Nat]  BY <1>6, <1>7
<1> QED  BY <1>8, <1>9 DEF DivStep, r

\* One more bit of the dividend is divided, the lost top bit of the remainder included.
LEMMA DivStepDivides ==
  ASSUME NEW a, NEW b, NEW m, Divisible(a, b, m), NEW acc, DivHolds(acc, a, b, m + 1)
  PROVE  DivHolds(DivStep(b, acc, m, a), a, b, m)
<1> DEFINE M == Power[Width]
           R == acc.r
           c == Bit(a, m)
           s == 2 * R + c
           w == Word(2 * R) + c
           end == DivStep(b, acc, m, a)
<1>1. /\ M \in Nat \ {0} /\ MinWord \in Nat \ {0} /\ M = 2 * MinWord
      /\ a \in Nat /\ b \in 1 .. M - 1 /\ m \in Nat
  BY WordSizes, WideAssumption DEF Divisible
<1>2. acc \in [r : Nat, q : Nat] /\ R \in 0 .. b - 1 /\ acc.q \in Nat  BY <1>1 DEF DivHolds
<1>3. PICK p \in Nat : a \div Power[m + 1] = p * b + R /\ acc.q = p * Power[m + 1]  BY DEF DivHolds
<1>4. Power[m] \in Nat \ {0} /\ Power[m + 1] = 2 * Power[m]  BY <1>1, PowerRuns
<1>5. c \in {0, 1} /\ a \div Power[m] = 2 * (a \div Power[m + 1]) + c  BY <1>1, NextBit
<1> HIDE DEF c, R
<1>6. a \div Power[m] = (2 * p) * b + s
  <2>1. 2 * (p * b + R) = (2 * p) * b + 2 * R  BY <1>1, <1>2
  <2>2. (2 * p) * b \in Int  BY <1>1
  <2> QED  BY <1>2, <1>3, <1>5, <2>1, <2>2
<1>7. acc.q = (2 * p) * Power[m]  BY <1>3, <1>4
<1>8. /\ R < MinWord => w = s /\ s < M /\ Bit(R, Width - 1) = 0
      /\ R >= MinWord => w = s - M /\ s >= M /\ Bit(R, Width - 1) = 1
  <2>1. CASE R < MinWord
    <3>1. 2 * R \in Words  BY <1>1, <1>2, <2>1, WordSizes
    <3>2. Division(R, MinWord, 0, R)  BY <1>1, <1>2, <2>1 DEF Division
    <3>3. R \div MinWord = 0  BY <3>2, DividedOnce
    <3>4. Bit(R, Width - 1) = 0  BY <3>3 DEF Bit, MinWord
    <3> QED  BY <1>1, <1>2, <1>5, <2>1, <3>1, <3>4, WordsAreModular
  <2>2. CASE R >= MinWord
    <3>1. 2 * R - M \in Words  BY <1>1, <1>2, <2>2, WordSizes
    <3>2. 2 * R = (2 * R - M) + 1 * M /\ 2 * R - M \in Int  BY <1>1, <1>2
    <3>3. Word(2 * R) = 2 * R - M  BY <3>1, <3>2, WordsAreModular
    <3>4. Division(R, MinWord, 1, R - MinWord)  BY <1>1, <1>2, <2>2 DEF Division
    <3>5. R \div MinWord = 1  BY <3>4, DividedOnce
    <3>6. Bit(R, Width - 1) = 1  BY <3>5 DEF Bit, MinWord
    <3> QED  BY <1>1, <1>2, <1>5, <2>2, <3>3, <3>6
  <2> QED  BY <1>1, <1>2, <2>1, <2>2
<1>9. /\ end = IF Bit(R, Width - 1) = 1 \/ w >= b
               THEN [r |-> Word(w - b), q |-> acc.q + Power[m]] ELSE [acc EXCEPT !.r = w]
  BY DEF DivStep, R, c
<1>10. s \in Nat /\ s <= 2 * b - 1  BY <1>1, <1>2, <1>5
<1>11. end = IF s >= b THEN [r |-> s - b, q |-> acc.q + Power[m]] ELSE [r |-> s, q |-> acc.q]
  <2>1. CASE s >= b
    <3>1. Bit(R, Width - 1) = 1 \/ w >= b  BY <1>1, <1>2, <1>8, <2>1
    <3>2. Word(w - b) = s - b
      <4>1. s - b \in Words /\ s - b \in Int  BY <1>1, <1>10, <2>1, WordSizes
      <4>2. CASE w = s  BY <4>1, <4>2, WordsAreModular
      <4>3. CASE w = s - M
        <5>1. w - b = (s - b) + (-1) * M  BY <1>1, <1>10, <4>3
        <5>2. Word((s - b) + (-1) * M) = Word(s - b)  BY <4>1, WordsAreModular
        <5> QED  BY <4>1, <5>1, <5>2, WordsAreModular
      <4> QED  BY <1>1, <1>2, <1>8, <4>2, <4>3
    <3> QED  BY <1>9, <2>1, <3>1, <3>2
  <2>2. CASE ~ (s >= b)
    <3>1. w = s /\ ~ (Bit(R, Width - 1) = 1) /\ ~ (w >= b)  BY <1>1, <1>2, <1>8, <1>10, <2>2
    <3>2. end = [acc EXCEPT !.r = s]  BY <1>9, <3>1
    <3>3. [acc EXCEPT !.r = s] = [r |-> s, q |-> acc.q]  BY <1>2
    <3> QED  BY <2>2, <3>2, <3>3
  <2> QED  BY <2>1, <2>2
<1> HIDE DEF s, w, end
<1>12. CASE s >= b
  <2>1. end.r = s - b /\ end.q = acc.q + Power[m] /\ end \in [r : Nat, q : Nat] /\ end.r < b
    BY <1>1, <1>2, <1>4, <1>10, <1>11, <1>12
  <2>2. (2 * p + 1) * b = (2 * p) * b + b /\ (2 * p + 1) * Power[m] = (2 * p) * Power[m] + Power[m]
    BY <1>1, <1>4
  <2>3. (2 * p) * b \in Int  BY <1>1
  <2>4. a \div Power[m] = (2 * p + 1) * b + end.r /\ end.q = (2 * p + 1) * Power[m] /\ 2 * p + 1 \in Nat
    BY <1>1, <1>6, <1>7, <1>10, <2>1, <2>2, <2>3
  <2> QED  BY <2>1, <2>4 DEF DivHolds, end
<1>13. CASE ~ (s >= b)
  <2>1. end.r = s /\ end.q = acc.q /\ end \in [r : Nat, q : Nat] /\ end.r < b
    BY <1>1, <1>2, <1>10, <1>11, <1>13
  <2>2. 2 * p \in Nat  OBVIOUS
  <2> QED  BY <1>6, <1>7, <2>1, <2>2 DEF DivHolds, end
<1> QED  BY <1>12, <1>13

\* The restoring division divides.
LEMMA UdivIsExact ==
  ASSUME NEW a \in Words, NEW b \in Words \ {0}
  PROVE  Udivti3(a, b) = a \div b
<1> DEFINE A == [r : Nat, q : Nat]
           base == [r |-> 0, q |-> 0]
           F == [x \in A \X (1 .. Width) |-> DivStep(b, x[1], Width - x[2], a)]
           Body(f) == [k \in 0 .. Width |-> IF k = 0 THEN base ELSE DivStep(b, f[k - 1], Width - k, a)]
           acc == CHOOSE f : f = Body(f)
<1>1. Udivti3(a, b) = acc[Width].q  BY DEF Udivti3
<1>2. Width \in Nat /\ \A k \in 1 .. Width : Divisible(a, b, Width - k)  BY WideAssumption DEF Divisible
<1>3. PICK g \in [0 .. Width -> A] :
        g[0] = base /\ \A k \in 1 .. Width : g[k] = DivStep(b, g[k - 1], Width - k, a)
  <2>1. \A x \in A \X (1 .. Width) : DivStep(b, x[1], Width - x[2], a) \in A
    <3> TAKE x \in A \X (1 .. Width)
    <3>1. x[1] \in A /\ Divisible(a, b, Width - x[2])  BY <1>2
    <3> QED  BY <3>1, DivStepStays
  <2>2. F \in [A \X (1 .. Width) -> A]
    <3> HIDE DEF A
    <3> QED  BY <2>1
  <2>3. base \in A  OBVIOUS
  <2>4. \A u \in A, k \in 1 .. Width : F[<<u, k>>] = DivStep(b, u, Width - k, a)
    <3> HIDE DEF A
    <3> QED  OBVIOUS
  <2> HIDE DEF F, A, base
  <2>5. Runnable(A, base, Width, F)  BY <1>2, <2>2, <2>3 DEF Runnable
  <2>6. PICK g : LoopOf(g, A, base, Width, F)  BY <2>5, LoopRuns
  <2>7. g \in [0 .. Width -> A] /\ g[0] = base /\ \A k \in 1 .. Width : g[k] = F[<<g[k - 1], k>>]
    BY <2>6 DEF LoopOf
  <2>8. \A k \in 1 .. Width : g[k - 1] \in A
    <3>1. \A k \in 1 .. Width : k - 1 \in 0 .. Width  BY <1>2
    <3> QED  BY <2>7, <3>1
  <2> QED  BY <2>4, <2>7, <2>8
<1> HIDE DEF F
<1>4. g = Body(g)
  <2>1. \A k \in 0 .. Width : k # 0 => k \in 1 .. Width  BY <1>2
  <2>2. \A k \in 0 .. Width : g[k] = IF k = 0 THEN base ELSE DivStep(b, g[k - 1], Width - k, a)
    BY <1>3, <2>1
  <2>3. g = [k \in 0 .. Width |-> g[k]]  BY <1>3
  <2> HIDE DEF base
  <2> QED  BY <2>2, <2>3
<1>5. acc = Body(acc)
  <2> HIDE DEF Body
  <2> QED  BY <1>4, Zenon
<1> HIDE DEF acc
<1> DEFINE H == {k \in Nat : k <= Width => DivHolds(acc[k], a, b, Width - k)}
<1>6. 0 \in H
  <2>1. acc[0] = base  BY <1>2, <1>5
  <2>2. a \in 0 .. Power[Width] - 1 /\ Power[Width] \in Nat \ {0} /\ b \in Nat \ {0}  BY WordSizes
  <2>3. Division(a, Power[Width], 0, a)  BY <2>2 DEF Division
  <2>4. a \div Power[Width] = 0  BY <2>3, DividedOnce
  <2>5. 0 = 0 * b + base.r /\ base.q = 0 * Power[Width] /\ base \in A /\ base.r < b  BY <2>2
  <2>6. DivHolds(base, a, b, Width)  BY <2>4, <2>5 DEF DivHolds
  <2>7. Width - 0 = Width  BY <1>2
  <2> QED  BY <2>1, <2>6, <2>7
<1>7. ASSUME NEW k \in Nat, k \in H PROVE k + 1 \in H
  <2>1. SUFFICES ASSUME k + 1 <= Width PROVE DivHolds(acc[k + 1], a, b, Width - (k + 1))  OBVIOUS
  <2> DEFINE m == Width - (k + 1)
  <2>2. k <= Width /\ k + 1 \in 0 .. Width /\ k + 1 \in 1 .. Width /\ k + 1 # 0 /\ (k + 1) - 1 = k
        /\ Width - k = m + 1
    BY <1>2, <2>1
  <2>3. DivHolds(acc[k], a, b, m + 1)  BY <1>7, <2>2
  <2>4. acc[k + 1] = DivStep(b, acc[k], m, a)  BY <1>5, <2>2
  <2>5. Divisible(a, b, m)  BY <1>2, <2>2
  <2> HIDE DEF m
  <2>6. DivHolds(DivStep(b, acc[k], m, a), a, b, m)  BY <2>3, <2>5, DivStepDivides
  <2> QED  BY <2>4, <2>6 DEF m
<1>8. DivHolds(acc[Width], a, b, 0)
  <2>1. Width \in H
    <3> HIDE DEF H
    <3> QED  BY <1>2, <1>6, <1>7, NumbersFrom0
  <2>2. Width - Width = 0 /\ Width <= Width  BY <1>2
  <2> QED  BY <1>2, <2>1, <2>2
<1> DEFINE r == acc[Width].r
           q == acc[Width].q
<1>9. PICK p \in Nat : a \div Power[0] = p * b + r /\ q = p * Power[0] /\ acc[Width] \in A /\ r < b
  BY <1>8 DEF DivHolds
<1>10. a \in Nat /\ b \in Nat \ {0} /\ Power[0] = 1  BY WordSizes, PowerRuns
<1>11. r \in Nat  BY <1>9
<1> HIDE DEF r, q
<1>12. a = p * b + r /\ q = p  BY <1>9, <1>10, <1>11
<1>13. Division(a, b, p, r)  BY <1>9, <1>10, <1>11, <1>12 DEF Division
<1> QED  BY <1>1, <1>12, <1>13, DividedOnce DEF q

\* A signed word and its magnitude.
LEMMA SignedWords ==
  ASSUME NEW a \in Words
  PROVE  /\ Signed(a) \in Int /\ \E i \in {0, 1} : a = Signed(a) + i * Power[Width]
         /\ Unsigned(a) = Abs(Signed(a)) /\ Abs(Signed(a)) \in Words /\ Abs(Signed(a)) <= MinWord
         /\ (Signed(a) = 0 <=> a = 0) /\ (a = MinWord => Signed(a) = -MinWord)
<1> DEFINE M == Power[Width]
<1>1. M \in Nat \ {0} /\ MinWord \in Nat \ {0} /\ M = 2 * MinWord /\ Words = 0 .. M - 1 /\ a \in 0 .. M - 1
  BY WordSizes
<1>2. CASE a >= MinWord
  <2>1. Signed(a) = a - M  BY <1>2 DEF Signed
  <2>2. a = Signed(a) + 1 * M  BY <1>1, <2>1
  <2>3. Abs(Signed(a)) = M - a /\ Signed(a) < 0  BY <1>1, <2>1 DEF Abs
  <2>4. -(Signed(a) + 1) \in Words /\ -(Signed(a) + 1) + 1 = M - a  BY <1>1, <1>2, <2>1
  <2>5. Unsigned(a) = Word(-(Signed(a) + 1)) + 1  BY <2>3 DEF Unsigned
  <2>6. Word(-(Signed(a) + 1)) = -(Signed(a) + 1)  BY <2>4, WordsAreModular
  <2>7. Unsigned(a) = M - a  BY <2>4, <2>5, <2>6
  <2>8. Signed(a) \in Int /\ M - a \in Words /\ M - a <= MinWord /\ a # 0 /\ (a = MinWord => a - M = -MinWord)
    BY <1>1, <1>2, <2>1
  <2> QED  BY <2>1, <2>2, <2>3, <2>7, <2>8
<1>3. CASE ~ (a >= MinWord)
  <2>1. Signed(a) = a /\ ~ (Signed(a) < 0)  BY <1>1, <1>3 DEF Signed
  <2>2. a = Signed(a) + 0 * M  BY <1>1, <2>1
  <2>3. Abs(Signed(a)) = a /\ Unsigned(a) = a  BY <2>1 DEF Abs, Unsigned
  <2>4. a \in Int /\ a <= MinWord /\ a # MinWord  BY <1>1, <1>3
  <2> QED  BY <2>1, <2>2, <2>3, <2>4
<1> QED  BY <1>2, <1>3

\* A quotient of numbers is not larger than the dividend.
LEMMA QuotientsAreSmall ==
  ASSUME NEW x \in Nat, NEW d \in Nat \ {0}
  PROVE  x \div d \in 0 .. x /\ (d = 1 => x \div d = x)
<1> DEFINE q == x \div d
           r == x % d
<1>1. q \in Int /\ r \in 0 .. d - 1 /\ x = q * d + r  BY Divided
<1> HIDE DEF q, r
<1>2. q >= 0
  <2>1. SUFFICES ASSUME q + 1 <= 0 PROVE FALSE  BY <1>1
  <2>2. (q + 1) * d <= 0 * d  BY <1>1, <2>1, ProductsGrow
  <2>3. (q + 1) * d = q * d + d /\ 0 * d = 0  BY <1>1
  <2> QED  BY <1>1, <2>2, <2>3
<1>3. q <= q * d
  <2>1. 1 * q <= d * q  BY <1>1, <1>2, ProductsGrow
  <2>2. 1 * q = q /\ d * q = q * d  BY <1>1
  <2> QED  BY <2>1, <2>2
<1>4. d = 1 => q * d = q /\ r = 0  BY <1>1
<1>5. q * d \in Int  BY <1>1
<1> QED  BY <1>1, <1>2, <1>3, <1>4, <1>5 DEF q

\* The signed quotient is truncated towards zero, but for the one that has no word.
LEMMA SignedQuotient ==
  ASSUME NEW a \in Words, NEW b \in Words \ {0}
  PROVE  TruncatedQuotient(Signed(a), Signed(b)) \in Int
         /\ Divti3(a, b) = Word(TruncatedQuotient(Signed(a), Signed(b)))
<1> DEFINE x == Signed(a)
           y == Signed(b)
           n == Abs(x) \div Abs(y)
<1>1. /\ x \in Int /\ Unsigned(a) = Abs(x) /\ Abs(x) \in Words /\ Abs(x) <= MinWord
      /\ (a = MinWord => x = -MinWord)
  BY SignedWords
<1>2. y \in Int /\ Unsigned(b) = Abs(y) /\ Abs(y) \in Words \ {0}
  <2>1. y \in Int /\ Unsigned(b) = Abs(y) /\ Abs(y) \in Words /\ y # 0  BY SignedWords
  <2> QED  BY <2>1 DEF Abs
<1>3. MinWord \in Nat \ {0} /\ Power[Width] = 2 * MinWord /\ Words = 0 .. Power[Width] - 1
  BY WordSizes
<1>4. Abs(x) \in Nat /\ Abs(y) \in Nat \ {0}  BY <1>1, <1>2, <1>3
<1>5. n \in 0 .. Abs(x) /\ (Abs(y) = 1 => n = Abs(x))  BY <1>4, QuotientsAreSmall
<1>6. Udivti3(Unsigned(a), Unsigned(b)) = n  BY <1>1, <1>2, UdivIsExact
<1>7. TruncatedQuotient(x, y) = IF (x < 0) # (y < 0) THEN -n ELSE n  BY DEF TruncatedQuotient
<1>8. Divti3(a, b) = IF y = -1 /\ a = MinWord THEN MinWord
                     ELSE IF (x < 0) # (y < 0) THEN Word(-n) ELSE n
  BY <1>6 DEF Divti3
<1> HIDE DEF x, y, n
<1>9. n \in Int /\ n \in Words /\ Word(n) = n
  <2>1. n \in Words  BY <1>1, <1>3, <1>4, <1>5
  <2> QED  BY <1>4, <1>5, <2>1, WordsAreModular
<1>10. CASE y = -1 /\ a = MinWord
  <2>1. Abs(y) = 1 /\ Abs(x) = MinWord /\ x < 0 /\ y < 0
    <3>1. x = -MinWord /\ y = -1  BY <1>1, <1>10
    <3>2. MinWord \in Int /\ MinWord > 0  BY <1>3
    <3>3. y < 0 /\ -y = 1
      <4>1. y + 1 = 0  BY <1>2, <3>1
      <4> QED  BY <1>2, <4>1
    <3>4. x < 0 /\ -x = MinWord  BY <1>1, <3>1, <3>2
    <3> QED  BY <3>3, <3>4 DEF Abs
  <2> QED  BY <1>5, <1>7, <1>8, <1>9, <1>10, <2>1 DEF x, y
<1>11. CASE ~ (y = -1 /\ a = MinWord)
  <2>1. CASE (x < 0) # (y < 0)  BY <1>7, <1>8, <1>9, <1>11, <2>1 DEF x, y
  <2>2. CASE ~ ((x < 0) # (y < 0))  BY <1>7, <1>8, <1>9, <1>11, <2>2 DEF x, y
  <2> QED  BY <2>1, <2>2
<1> QED  BY <1>10, <1>11

\* Products and remainders of words are those of the signed numbers.
LEMMA SignedRest ==
  ASSUME NEW a \in Words, NEW b \in Words, NEW q \in Int
  PROVE  /\ Word(a * b) = Word(Signed(a) * Signed(b))
         /\ Word(a - Word(q) * b) = Word(Signed(a) - q * Signed(b))
<1> DEFINE M == Power[Width]
           x == Signed(a)
           y == Signed(b)
<1>1. PICK i \in {0, 1} : a = x + i * M  BY SignedWords
<1>2. PICK j \in {0, 1} : b = y + j * M  BY SignedWords
<1>3. x \in Int /\ y \in Int  BY SignedWords
<1>4. M \in Nat \ {0}  BY WordSizes
<1>5. PICK k \in Int : Word(q) = q + k * M
  <2> DEFINE p == q \div M
             r == q % M
  <2>1. p \in Int /\ r \in 0 .. M - 1 /\ q = p * M + r  BY <1>4, Divided
  <2>2. Word(q) = r  BY DEF Word
  <2> HIDE DEF p, r, M
  <2>3. (-p) * M = -(p * M) /\ p * M \in Int  BY <1>4, <2>1
  <2>4. r = q + (-p) * M /\ -p \in Int  BY <2>1, <2>3
  <2> QED  BY <2>2, <2>4
<1> HIDE DEF M, x, y
<1>6. \A v \in Int, t \in Int : Word(v + t * M) = Word(v)  BY WordsAreModular DEF M
<1>7. Word(a * b) = Word(x * y)
  <2> DEFINE t == x * j + i * y + i * j * M
  <2>1. t \in Int /\ x * y \in Int  BY <1>3, <1>4
  <2>2. (x + i * M) * (y + j * M) = x * y + t * M  BY <1>3, <1>4
  <2> HIDE DEF t
  <2> QED  BY <1>1, <1>2, <1>6, <2>1, <2>2
<1>8. Word(a - Word(q) * b) = Word(x - q * y)
  <2> DEFINE t == i - (q * j + k * y + k * j * M)
  <2>1. t \in Int /\ x - q * y \in Int  BY <1>3, <1>4
  <2>2. (x + i * M) - (q + k * M) * (y + j * M) = (x - q * y) + t * M  BY <1>3, <1>4
  <2> HIDE DEF t
  <2> QED  BY <1>1, <1>2, <1>5, <1>6, <2>1, <2>2
<1> QED  BY <1>7, <1>8 DEF x, y

\* The libcalls of 128-bit integers.
LEMMA DivideCallIsExact == CallDivide => WideIntegersAreExact'
<1> SUFFICES ASSUME CallDivide PROVE WideIntegersAreExact'  OBVIOUS
<1>1. PICK a \in Words, b \in Words \ {0} :
        call' = [kind |-> "divide", a |-> a, b |-> b, uquot |-> Udivti3(a, b),
                 urem |-> Umodti3(a, b), quot |-> Divti3(a, b), rem |-> Modti3(a, b),
                 prod |-> Multi3(a, b)]
  BY DEF CallDivide
<1> DEFINE q == TruncatedQuotient(Signed(a), Signed(b))
<1>2. /\ call'.kind = "divide" /\ call'.a = a /\ call'.b = b
      /\ call'.uquot = Udivti3(a, b) /\ call'.urem = a - Udivti3(a, b) * b /\ call'.quot = Divti3(a, b)
      /\ call'.rem = Word(a - Divti3(a, b) * b) /\ call'.prod = Word(a * b)
  BY <1>1 DEF Umodti3, Modti3, Multi3
<1>3. Udivti3(a, b) = a \div b  BY UdivIsExact
<1>4. a - (a \div b) * b = a % b
  <2>1. a \in Int /\ b \in Nat \ {0}  BY WordSizes
  <2>2. a \div b \in Int /\ a % b \in 0 .. b - 1 /\ a = (a \div b) * b + (a % b)  BY <2>1, Divided
  <2>3. (a \div b) * b \in Int  BY <2>1, <2>2
  <2> QED  BY <2>1, <2>2, <2>3
<1>5. q \in Int /\ Divti3(a, b) = Word(q)  BY SignedQuotient
<1> HIDE DEF q
<1>6. /\ Word(a * b) = Word(Signed(a) * Signed(b))
      /\ Word(a - Word(q) * b) = Word(Signed(a) - q * Signed(b))
  BY <1>5, SignedRest
<1> QED  BY <1>2, <1>3, <1>4, <1>5, <1>6 DEF WideIntegersAreExact, q

\* The widths of the halves that a scan tries, the whole word first.
LEMMA ScanWidths ==
  ASSUME NEW k \in 1 .. ScanBits
  PROVE  /\ ScanWidth \in Nat /\ Power[ScanBits - k] \in Nat \ {0}
         /\ Power[ScanBits - (k - 1)] = 2 * Power[ScanBits - k]
         /\ 2 * Power[ScanBits - k] <= ScanWidth
<1> DEFINE j == ScanBits - k
           m == k - 1
<1>1. ScanBits \in Nat /\ j \in Nat /\ m \in Nat /\ ScanBits - (k - 1) = j + 1 /\ ScanBits = (j + 1) + m
  BY WideAssumption
<1> HIDE DEF j, m
<1>2. Power[j] \in Nat \ {0} /\ Power[j + 1] = 2 * Power[j] /\ Power[m] \in Nat \ {0}  BY <1>1, PowerRuns
<1>3. ScanWidth = Power[j + 1] * Power[m]
  <2>1. j + 1 \in Nat  BY <1>1
  <2>2. Power[(j + 1) + m] = Power[j + 1] * Power[m]  BY <1>1, <2>1, PowersMultiply
  <2> QED  BY <1>1, <2>2 DEF ScanWidth
<1>4. 1 * Power[j + 1] <= Power[m] * Power[j + 1]
  <2>1. Power[j + 1] \in Nat /\ 1 <= Power[m] /\ Power[m] \in Int  BY <1>2
  <2> QED  BY <2>1, ProductsGrow
<1>5. ScanWidth \in Nat /\ 1 * Power[j + 1] = Power[j + 1] /\ Power[m] * Power[j + 1] = ScanWidth
  BY <1>2, <1>3
<1> QED  BY <1>1, <1>2, <1>4, <1>5 DEF j

\* The part of the number that a scan from the left still looks at.
LeadHolds(acc, x, k) ==
  /\ acc \in [v : Nat, n : Nat] /\ acc.v = x * Power[acc.n] /\ acc.v < Power[ScanWidth]
  /\ Power[ScanWidth - Power[ScanBits - k]] <= acc.v
  /\ acc.n <= ScanWidth - Power[ScanBits - k]

\* A round either shifts zeros out or leaves the leading bit in the upper half.
LEMMA LeadingKeeps ==
  ASSUME NEW k \in 1 .. ScanBits, NEW x \in Nat, NEW acc, LeadHolds(acc, x, k - 1)
  PROVE  LeadHolds(LeadingStep(acc, Power[ScanBits - k]), x, k)
<1> DEFINE h == Power[ScanBits - k]
           S == ScanWidth
           v == acc.v
           n == acc.n
           P == Power[S - h]
           end == LeadingStep(acc, h)
<1>1. S \in Nat /\ h \in Nat \ {0} /\ Power[ScanBits - (k - 1)] = 2 * h /\ 2 * h <= S  BY ScanWidths
<1>2. /\ acc \in [v : Nat, n : Nat] /\ v = x * Power[n] /\ v < Power[S] /\ Power[S - 2 * h] <= v
      /\ n <= S - 2 * h /\ v \in Nat /\ n \in Nat
  BY <1>1 DEF LeadHolds
<1>3. end = IF v \div P = 0 THEN [v |-> (v * Power[h]) % Power[S], n |-> n + h] ELSE acc
  BY DEF LeadingStep
<1> HIDE DEF h, S, v, n, end
<1>4. /\ P \in Nat \ {0} /\ Power[h] \in Nat \ {0} /\ Power[S] \in Nat \ {0} /\ Power[n] \in Nat
      /\ Power[S - 2 * h] \in Nat
  <2>1. S - h \in Nat /\ S - 2 * h \in Nat  BY <1>1
  <2> QED  BY <1>1, <1>2, <2>1, PowerRuns
<1>5. P * Power[h] = Power[S] /\ Power[S - 2 * h] * Power[h] = P
  <2>1. /\ S - h \in Nat /\ S - 2 * h \in Nat /\ h \in Nat
        /\ (S - h) + h = S /\ (S - 2 * h) + h = S - h
    BY <1>1
  <2>2. Power[(S - h) + h] = Power[S - h] * Power[h]  BY <2>1, PowersMultiply
  <2>3. Power[(S - 2 * h) + h] = Power[S - 2 * h] * Power[h]  BY <2>1, PowersMultiply
  <2> QED  BY <2>1, <2>2, <2>3
<1> HIDE DEF P
<1>6. CASE v \div P = 0
  <2>1. v < P
    <3>1. v \div P \in Int /\ v % P \in 0 .. P - 1 /\ v = (v \div P) * P + (v % P)
      <4>1. v \in Int /\ P \in Nat \ {0}  BY <1>2, <1>4
      <4> QED  BY <4>1
    <3>2. 0 * P = 0  BY <1>4
    <3> QED  BY <1>4, <1>6, <3>1, <3>2
  <2>2. v * Power[h] < Power[S]
    <3>1. v + 1 <= P  BY <1>2, <1>4, <2>1
    <3>2. (v + 1) * Power[h] <= P * Power[h]
      <4>1. v + 1 \in Int /\ P \in Int /\ Power[h] \in Nat  BY <1>2, <1>4
      <4> QED  BY <3>1, <4>1, ProductsGrow
    <3>3. (v + 1) * Power[h] = v * Power[h] + Power[h]  BY <1>2, <1>4
    <3>4. v * Power[h] \in Int  BY <1>2, <1>4
    <3> QED  BY <1>4, <1>5, <3>2, <3>3, <3>4
  <2>3. v * Power[h] \in Nat  BY <1>2, <1>4
  <2>4. (v * Power[h]) % Power[S] = v * Power[h]
    <3>1. Division(v * Power[h], Power[S], 0, v * Power[h])  BY <1>4, <2>2, <2>3 DEF Division
    <3> QED  BY <3>1, DividedOnce
  <2>5. P <= v * Power[h]
    <3>1. Power[S - 2 * h] * Power[h] <= v * Power[h]  BY <1>2, <1>4, ProductsGrow
    <3> QED  BY <1>5, <3>1
  <2>6. v * Power[h] = x * Power[n + h]
    <3>1. Power[n + h] = Power[n] * Power[h]  BY <1>1, <1>2, PowersMultiply
    <3>2. (x * Power[n]) * Power[h] = x * (Power[n] * Power[h])  BY <1>4
    <3> QED  BY <1>2, <3>1, <3>2
  <2>7. end = [v |-> v * Power[h], n |-> n + h]  BY <1>3, <1>6, <2>4
  <2>8. n + h \in Nat /\ n + h <= S - h  BY <1>1, <1>2
  <2>9. end \in [v : Nat, n : Nat] /\ end.v = v * Power[h] /\ end.n = n + h  BY <2>3, <2>7, <2>8
  <2> QED  BY <2>2, <2>5, <2>6, <2>8, <2>9 DEF LeadHolds, h, S, P, end
<1>7. CASE ~ (v \div P = 0)
  <2>1. P <= v
    <3>1. SUFFICES ASSUME v < P PROVE FALSE  BY <1>2, <1>4
    <3>2. Division(v, P, 0, v)  BY <1>2, <1>4, <3>1 DEF Division
    <3> QED  BY <1>7, <3>2, DividedOnce
  <2>2. end = acc /\ n <= S - h  BY <1>1, <1>2, <1>3, <1>7
  <2> QED  BY <1>2, <2>1, <2>2 DEF LeadHolds, h, S, P, v, n, end
<1> QED  BY <1>6, <1>7

\* The part of the number that a scan from the right still looks at.
TrailHolds(acc, x, k) ==
  /\ acc \in [v : Nat, n : Nat] /\ x = acc.v * Power[acc.n]
  /\ acc.v % Power[Power[ScanBits - k]] # 0

\* A round either shifts zeros out or leaves the last bit in the lower half.
LEMMA TrailingKeeps ==
  ASSUME NEW k \in 1 .. ScanBits, NEW x \in Nat, NEW acc, TrailHolds(acc, x, k - 1)
  PROVE  TrailHolds(TrailingStep(acc, Power[ScanBits - k]), x, k)
<1> DEFINE h == Power[ScanBits - k]
           P == Power[h]
           v == acc.v
           n == acc.n
           w == v \div P
           end == TrailingStep(acc, h)
<1>1. h \in Nat \ {0} /\ Power[ScanBits - (k - 1)] = 2 * h  BY ScanWidths
<1>2. /\ acc \in [v : Nat, n : Nat] /\ x = v * Power[n] /\ v % Power[2 * h] # 0
      /\ v \in Nat /\ n \in Nat
  BY <1>1 DEF TrailHolds
<1>3. end = IF v % P = 0 THEN [v |-> w, n |-> n + h] ELSE acc  BY DEF TrailingStep
<1> HIDE DEF h, v, n, end
<1>4. P \in Nat \ {0} /\ Power[n] \in Nat /\ Power[2 * h] = P * P /\ Power[n + h] = Power[n] * P
  <2>1. h + h = 2 * h /\ h \in Nat /\ n \in Nat  BY <1>1, <1>2
  <2>2. Power[h + h] = Power[h] * Power[h]  BY <2>1, PowersMultiply
  <2>3. Power[n + h] = Power[n] * Power[h]  BY <2>1, PowersMultiply
  <2> QED  BY <2>1, <2>2, <2>3, PowerRuns
<1> HIDE DEF P
<1>5. w \in 0 .. v /\ v % P \in 0 .. P - 1 /\ v = w * P + (v % P)
  <2>1. v \div P \in 0 .. v  BY <1>2, <1>4, QuotientsAreSmall
  <2>2. v % P \in 0 .. P - 1 /\ v = (v \div P) * P + (v % P)  BY <1>2, <1>4
  <2> QED  BY <2>1, <2>2
<1> HIDE DEF w
<1>6. CASE v % P = 0
  <2>1. v = w * P /\ w \in Nat
    <3>1. w \in Nat  BY <1>2, <1>5
    <3>2. w * P \in Int  BY <1>4, <3>1
    <3> QED  BY <1>5, <1>6, <3>1, <3>2
  <2>2. w % P # 0
    <3>1. SUFFICES ASSUME w % P = 0 PROVE FALSE  OBVIOUS
    <3> DEFINE u == w \div P
    <3>2. u \in Int /\ w = u * P + (w % P)  BY <1>4, <2>1
    <3> HIDE DEF u
    <3>3. u * P \in Int  BY <1>4, <3>2
    <3>4. w = u * P  BY <3>1, <3>2, <3>3
    <3>5. v = u * (P * P)
      <4>1. u * P * P = u * (P * P)  BY <1>4, <3>2
      <4> QED  BY <2>1, <3>4, <4>1
    <3>6. P * P \in Nat \ {0}
      <4>1. 1 * P <= P * P  BY <1>4, ProductsGrow
      <4> QED  BY <1>4, <4>1
    <3>7. Division(v, P * P, u, 0)
      <4>1. u * (P * P) + 0 = u * (P * P)  BY <3>2, <3>6
      <4> QED  BY <3>2, <3>5, <3>6, <4>1 DEF Division
    <3>8. v % (P * P) = 0  BY <3>7, DividedOnce
    <3> QED  BY <1>2, <1>4, <3>8
  <2>3. x = w * Power[n + h]
    <3>1. w * P * Power[n] = w * (Power[n] * P)  BY <1>4, <2>1
    <3> QED  BY <1>2, <1>4, <2>1, <3>1
  <2>4. end = [v |-> w, n |-> n + h] /\ n + h \in Nat  BY <1>1, <1>2, <1>3, <1>6
  <2>5. end \in [v : Nat, n : Nat] /\ end.v = w /\ end.n = n + h  BY <2>1, <2>4
  <2> QED  BY <2>2, <2>3, <2>5 DEF TrailHolds, h, P, end
<1>7. CASE ~ (v % P = 0)
  <2>1. end = acc  BY <1>3, <1>7
  <2> QED  BY <1>2, <1>7, <2>1 DEF TrailHolds, h, P, v, n, end
<1> QED  BY <1>6, <1>7

\* The accumulator of a scan remains a pair of numbers.
LEMMA Clz64Stays ==
  ASSUME NEW u \in [v : Nat, n : Nat], NEW h \in Nat \ {0}
  PROVE  LeadingStep(u, h) \in [v : Nat, n : Nat]
<1>1. u.v \in Nat /\ u.n + h \in Nat /\ Power[h] \in Nat  BY PowerRuns
<1>2. Power[ScanWidth] \in Nat \ {0}
  <2>1. ScanWidth \in Nat  BY WideAssumption, PowerRuns DEF ScanWidth
  <2> QED  BY <2>1, PowerRuns
<1>3. u.v * Power[h] \in Int  BY <1>1
<1>4. (u.v * Power[h]) % Power[ScanWidth] \in Nat  BY <1>2, <1>3
<1>5. [v |-> (u.v * Power[h]) % Power[ScanWidth], n |-> u.n + h] \in [v : Nat, n : Nat]  BY <1>1, <1>4
<1> QED  BY <1>5 DEF LeadingStep

\* Likewise.
LEMMA Ctz64Stays ==
  ASSUME NEW u \in [v : Nat, n : Nat], NEW h \in Nat \ {0}
  PROVE  TrailingStep(u, h) \in [v : Nat, n : Nat]
<1>1. u.v \in Nat /\ u.n + h \in Nat /\ Power[h] \in Nat \ {0}  BY PowerRuns
<1>2. u.v \div Power[h] \in 0 .. u.v  BY <1>1, QuotientsAreSmall
<1>3. u.v \div Power[h] \in Nat  BY <1>1, <1>2
<1>4. [v |-> u.v \div Power[h], n |-> u.n + h] \in [v : Nat, n : Nat]  BY <1>1, <1>3
<1> QED  BY <1>4 DEF TrailingStep

\* The leading bit of a word is where the scan from the left says.
LEMMA LeadingBit ==
  ASSUME NEW x \in 1 .. Power[ScanWidth] - 1
  PROVE  /\ Power[ScanWidth - 1 - Clz64(x)] <= x
         /\ x < Power[ScanWidth - Clz64(x)]
<1>0. x \in Nat \ {0} /\ x < Power[ScanWidth] /\ ScanWidth \in Nat /\ Power[ScanWidth] \in Nat \ {0}
  <2>1. ScanWidth \in Nat  BY WideAssumption, PowerRuns DEF ScanWidth
  <2>2. Power[ScanWidth] \in Nat \ {0}  BY <2>1, PowerRuns
  <2> QED  BY <2>1, <2>2
<1> DEFINE A == [v : Nat, n : Nat]
           h(k) == Power[ScanBits - k]
           F == [p \in A \X (1 .. ScanBits) |-> LeadingStep(p[1], h(p[2]))]
           Body(f) == [k \in 0 .. ScanBits |-> IF k = 0 THEN ScanStart(x) ELSE LeadingStep(f[k - 1], h(k))]
           acc == CHOOSE f : f = Body(f)
<1>1. Clz64(x) = acc[ScanBits].n  BY DEF Clz64
<1>2. ScanBits \in Nat /\ \A k \in 1 .. ScanBits : h(k) \in Nat \ {0}  BY WideAssumption, ScanWidths
<1>3. ScanStart(x) \in A /\ \A u \in A, k \in 1 .. ScanBits : LeadingStep(u, h(k)) \in A
  <2>1. ASSUME NEW u \in A, NEW k \in 1 .. ScanBits PROVE LeadingStep(u, h(k)) \in A
    BY <1>2, Clz64Stays
  <2> QED  BY <2>1 DEF ScanStart
<1> HIDE DEF A
<1>4. PICK g \in [0 .. ScanBits -> A] :
        g[0] = ScanStart(x) /\ \A k \in 1 .. ScanBits : g[k] = LeadingStep(g[k - 1], h(k))
  <2>1. F \in [A \X (1 .. ScanBits) -> A]
    <3>1. \A p \in A \X (1 .. ScanBits) : LeadingStep(p[1], h(p[2])) \in A  BY <1>3
    <3> HIDE DEF h
    <3> QED  BY <3>1
  <2>2. \A u \in A, k \in 1 .. ScanBits : F[<<u, k>>] = LeadingStep(u, h(k))
    <3> HIDE DEF h
    <3> QED  OBVIOUS
  <2> HIDE DEF F
  <2>3. Runnable(A, ScanStart(x), ScanBits, F)  BY <1>2, <1>3, <2>1 DEF Runnable
  <2>4. PICK g : LoopOf(g, A, ScanStart(x), ScanBits, F)  BY <2>3, LoopRuns
  <2>5. /\ g \in [0 .. ScanBits -> A] /\ g[0] = ScanStart(x)
        /\ \A k \in 1 .. ScanBits : g[k] = F[<<g[k - 1], k>>]
    BY <2>4 DEF LoopOf
  <2>6. \A k \in 1 .. ScanBits : g[k - 1] \in A
    <3>1. \A k \in 1 .. ScanBits : k - 1 \in 0 .. ScanBits  BY <1>2
    <3> QED  BY <2>5, <3>1
  <2> QED  BY <2>2, <2>5, <2>6
<1> HIDE DEF F, h
<1>5. g = Body(g)
  <2>1. \A k \in 0 .. ScanBits : k # 0 => k \in 1 .. ScanBits  BY <1>2
  <2>2. \A k \in 0 .. ScanBits : g[k] = IF k = 0 THEN ScanStart(x) ELSE LeadingStep(g[k - 1], h(k))
    BY <1>4, <2>1
  <2>3. g = [k \in 0 .. ScanBits |-> g[k]]  BY <1>4
  <2> QED  BY <2>2, <2>3
<1>6. acc = Body(acc)
  <2> HIDE DEF Body
  <2> QED  BY <1>5, Zenon
<1> HIDE DEF acc
<1> DEFINE H == {k \in Nat : k <= ScanBits => LeadHolds(acc[k], x, k)}
<1>7. 0 \in H
  <2>1. acc[0] = ScanStart(x)  BY <1>2, <1>6
  <2>2. LeadHolds(ScanStart(x), x, 0)
    <3>1. ScanStart(x).v = x /\ ScanStart(x).n = 0 /\ ScanStart(x) \in [v : Nat, n : Nat]  BY <1>0 DEF ScanStart
    <3>2. ScanBits - 0 = ScanBits /\ ScanWidth - ScanWidth = 0  BY <1>0, <1>2
    <3>3. x * 1 = x /\ Power[0] = 1 /\ Power[ScanBits] = ScanWidth  BY <1>0, PowerRuns DEF ScanWidth
    <3> QED  BY <1>0, <3>1, <3>2, <3>3 DEF LeadHolds
  <2> QED  BY <2>1, <2>2
<1>8. ASSUME NEW k \in Nat, k \in H PROVE k + 1 \in H
  <2>1. SUFFICES ASSUME k + 1 <= ScanBits PROVE LeadHolds(acc[k + 1], x, k + 1)  OBVIOUS
  <2>2. /\ k <= ScanBits /\ k + 1 \in 0 .. ScanBits /\ k + 1 \in 1 .. ScanBits /\ k + 1 # 0
        /\ (k + 1) - 1 = k
    BY <1>2, <2>1
  <2>3. LeadHolds(acc[k], x, (k + 1) - 1)  BY <1>8, <2>2
  <2>4. acc[k + 1] = LeadingStep(acc[k], Power[ScanBits - (k + 1)])  BY <1>6, <2>2 DEF h
  <2>5. LeadHolds(LeadingStep(acc[k], Power[ScanBits - (k + 1)]), x, k + 1)
    BY <2>2, <2>3, LeadingKeeps, <1>0
  <2> QED  BY <2>4, <2>5
<1>9. LeadHolds(acc[ScanBits], x, ScanBits)
  <2>1. ScanBits \in H
    <3> HIDE DEF H
    <3> QED  BY <1>2, <1>7, <1>8, NumbersFrom0
  <2> QED  BY <1>2, <2>1
<1> DEFINE n == acc[ScanBits].n
           v == acc[ScanBits].v
<1>10. ScanBits - ScanBits = 0 /\ Power[0] = 1 /\ Power[1] = 2
  <2>1. \A k \in Nat : Power[k + 1] = 2 * Power[k]  BY PowerRuns
  <2>2. Power[0 + 1] = 2 * Power[0] /\ Power[0] = 1  BY <2>1, PowerRuns
  <2>3. ScanBits - ScanBits = 0 /\ 0 + 1 = 1  BY <1>2
  <2> QED  BY <2>2, <2>3
<1>11. /\ n \in Nat /\ v = x * Power[n] /\ v < Power[ScanWidth] /\ Power[ScanWidth - 1] <= v
       /\ n <= ScanWidth - 1
  BY <1>9, <1>10 DEF LeadHolds
<1> HIDE DEF n, v
<1> DEFINE S == ScanWidth
           P == Power[n]
           Q == Power[S - n]
           R == Power[S - 1 - n]
<1>12. /\ P \in Nat \ {0} /\ Q \in Nat /\ R \in Nat /\ Power[S] = Q * P /\ Power[S - 1] = R * P
  <2>1. n \in Nat /\ S - n \in Nat /\ S - 1 - n \in Nat /\ (S - n) + n = S /\ (S - 1 - n) + n = S - 1
    BY <1>0, <1>11
  <2>2. Power[(S - n) + n] = Power[S - n] * Power[n]  BY <2>1, PowersMultiply
  <2>3. Power[(S - 1 - n) + n] = Power[S - 1 - n] * Power[n]  BY <2>1, PowersMultiply
  <2> QED  BY <2>1, <2>2, <2>3, PowerRuns
<1>13. R <= x
  <2>1. SUFFICES ASSUME x + 1 <= R PROVE FALSE  BY <1>0, <1>12
  <2>2. x + 1 \in Int /\ R \in Int /\ P \in Nat  BY <1>0, <1>12
  <2>3. (x + 1) * P <= R * P  BY <2>1, <2>2, ProductsGrow
  <2>4. (x + 1) * P = x * P + P /\ x * P \in Int  BY <1>0, <1>12
  <2> QED  BY <1>11, <1>12, <2>3, <2>4
<1>14. x < Q
  <2>1. SUFFICES ASSUME Q <= x PROVE FALSE  BY <1>0, <1>12
  <2>2. x \in Int /\ Q \in Int /\ P \in Nat  BY <1>0, <1>12
  <2>3. Q * P <= x * P  BY <2>1, <2>2, ProductsGrow
  <2>4. x * P \in Int /\ Q * P \in Int  BY <1>0, <1>12
  <2> QED  BY <1>11, <1>12, <2>3, <2>4
<1> QED  BY <1>1, <1>13, <1>14 DEF n

\* The last bit of a word is where the scan from the right says.
LEMMA TrailingBit ==
  ASSUME NEW x \in 1 .. Power[ScanWidth] - 1
  PROVE  /\ x % Power[Ctz64(x)] = 0
         /\ (x \div Power[Ctz64(x)]) % 2 = 1
<1>0. x \in Nat \ {0} /\ x < Power[ScanWidth] /\ Power[ScanWidth] \in Nat \ {0}
  <2>1. ScanWidth \in Nat  BY WideAssumption, PowerRuns DEF ScanWidth
  <2>2. Power[ScanWidth] \in Nat \ {0}  BY <2>1, PowerRuns
  <2> QED  BY <2>1, <2>2
<1> DEFINE A == [v : Nat, n : Nat]
           h(k) == Power[ScanBits - k]
           F == [p \in A \X (1 .. ScanBits) |-> TrailingStep(p[1], h(p[2]))]
           Body(f) == [k \in 0 .. ScanBits |-> IF k = 0 THEN ScanStart(x) ELSE TrailingStep(f[k - 1], h(k))]
           acc == CHOOSE f : f = Body(f)
<1>1. Ctz64(x) = acc[ScanBits].n  BY DEF Ctz64
<1>2. ScanBits \in Nat /\ \A k \in 1 .. ScanBits : h(k) \in Nat \ {0}  BY WideAssumption, ScanWidths
<1>3. ScanStart(x) \in A /\ \A u \in A, k \in 1 .. ScanBits : TrailingStep(u, h(k)) \in A
  <2>1. ASSUME NEW u \in A, NEW k \in 1 .. ScanBits PROVE TrailingStep(u, h(k)) \in A
    BY <1>2, Ctz64Stays
  <2> QED  BY <2>1 DEF ScanStart
<1> HIDE DEF A
<1>4. PICK g \in [0 .. ScanBits -> A] :
        g[0] = ScanStart(x) /\ \A k \in 1 .. ScanBits : g[k] = TrailingStep(g[k - 1], h(k))
  <2>1. F \in [A \X (1 .. ScanBits) -> A]
    <3>1. \A p \in A \X (1 .. ScanBits) : TrailingStep(p[1], h(p[2])) \in A  BY <1>3
    <3> HIDE DEF h
    <3> QED  BY <3>1
  <2>2. \A u \in A, k \in 1 .. ScanBits : F[<<u, k>>] = TrailingStep(u, h(k))
    <3> HIDE DEF h
    <3> QED  OBVIOUS
  <2> HIDE DEF F
  <2>3. Runnable(A, ScanStart(x), ScanBits, F)  BY <1>2, <1>3, <2>1 DEF Runnable
  <2>4. PICK g : LoopOf(g, A, ScanStart(x), ScanBits, F)  BY <2>3, LoopRuns
  <2>5. /\ g \in [0 .. ScanBits -> A] /\ g[0] = ScanStart(x)
        /\ \A k \in 1 .. ScanBits : g[k] = F[<<g[k - 1], k>>]
    BY <2>4 DEF LoopOf
  <2>6. \A k \in 1 .. ScanBits : g[k - 1] \in A
    <3>1. \A k \in 1 .. ScanBits : k - 1 \in 0 .. ScanBits  BY <1>2
    <3> QED  BY <2>5, <3>1
  <2> QED  BY <2>2, <2>5, <2>6
<1> HIDE DEF F, h
<1>5. g = Body(g)
  <2>1. \A k \in 0 .. ScanBits : k # 0 => k \in 1 .. ScanBits  BY <1>2
  <2>2. \A k \in 0 .. ScanBits : g[k] = IF k = 0 THEN ScanStart(x) ELSE TrailingStep(g[k - 1], h(k))
    BY <1>4, <2>1
  <2>3. g = [k \in 0 .. ScanBits |-> g[k]]  BY <1>4
  <2> QED  BY <2>2, <2>3
<1>6. acc = Body(acc)
  <2> HIDE DEF Body
  <2> QED  BY <1>5, Zenon
<1> HIDE DEF acc
<1> DEFINE H == {k \in Nat : k <= ScanBits => TrailHolds(acc[k], x, k)}
<1>7. 0 \in H
  <2>1. acc[0] = ScanStart(x)  BY <1>2, <1>6
  <2>2. TrailHolds(ScanStart(x), x, 0)
    <3>1. ScanStart(x).v = x /\ ScanStart(x).n = 0 /\ ScanStart(x) \in [v : Nat, n : Nat]  BY <1>0 DEF ScanStart
    <3>2. ScanBits - 0 = ScanBits /\ x * 1 = x /\ Power[0] = 1 /\ Power[ScanBits] = ScanWidth
      BY <1>0, <1>2, PowerRuns DEF ScanWidth
    <3>3. Division(x, Power[ScanWidth], 0, x)  BY <1>0 DEF Division
    <3>4. x % Power[ScanWidth] = x  BY <3>3, DividedOnce
    <3> QED  BY <1>0, <3>1, <3>2, <3>4 DEF TrailHolds
  <2> QED  BY <2>1, <2>2
<1>8. ASSUME NEW k \in Nat, k \in H PROVE k + 1 \in H
  <2>1. SUFFICES ASSUME k + 1 <= ScanBits PROVE TrailHolds(acc[k + 1], x, k + 1)  OBVIOUS
  <2>2. /\ k <= ScanBits /\ k + 1 \in 0 .. ScanBits /\ k + 1 \in 1 .. ScanBits /\ k + 1 # 0
        /\ (k + 1) - 1 = k
    BY <1>2, <2>1
  <2>3. TrailHolds(acc[k], x, (k + 1) - 1)  BY <1>8, <2>2
  <2>4. acc[k + 1] = TrailingStep(acc[k], Power[ScanBits - (k + 1)])  BY <1>6, <2>2 DEF h
  <2>5. TrailHolds(TrailingStep(acc[k], Power[ScanBits - (k + 1)]), x, k + 1)
    BY <2>2, <2>3, TrailingKeeps, <1>0
  <2> QED  BY <2>4, <2>5
<1>9. TrailHolds(acc[ScanBits], x, ScanBits)
  <2>1. ScanBits \in H
    <3> HIDE DEF H
    <3> QED  BY <1>2, <1>7, <1>8, NumbersFrom0
  <2> QED  BY <1>2, <2>1
<1> DEFINE n == acc[ScanBits].n
           v == acc[ScanBits].v
<1>10. ScanBits - ScanBits = 0 /\ Power[0] = 1 /\ Power[1] = 2
  <2>1. \A k \in Nat : Power[k + 1] = 2 * Power[k]  BY PowerRuns
  <2>2. Power[0 + 1] = 2 * Power[0] /\ Power[0] = 1  BY <2>1, PowerRuns
  <2>3. ScanBits - ScanBits = 0 /\ 0 + 1 = 1  BY <1>2
  <2> QED  BY <2>2, <2>3
<1>11. n \in Nat /\ v \in Nat /\ x = v * Power[n] /\ v % 2 # 0
  BY <1>9, <1>10 DEF TrailHolds
<1> HIDE DEF n, v
<1>12. Power[n] \in Nat \ {0}  BY <1>11, PowerRuns
<1>13. Division(x, Power[n], v, 0)
  <2>1. v * Power[n] + 0 = v * Power[n]  BY <1>11, <1>12
  <2> QED  BY <1>11, <1>12, <2>1 DEF Division
<1>14. x \div Power[n] = v /\ x % Power[n] = 0  BY <1>13, DividedOnce
<1>15. v % 2 = 1  BY <1>11
<1> QED  BY <1>1, <1>14, <1>15 DEF n

\* The bit scans.
LEMMA ScanCallIsExact == CallScan => WideIntegersAreExact'
<1> SUFFICES ASSUME CallScan PROVE WideIntegersAreExact'  OBVIOUS
<1>1. PICK x \in 0 .. Power[ScanWidth] - 1 :
        call' = [kind |-> "scan", x |-> x, leading |-> Clz64(x), trailing |-> Ctz64(x)]
  BY DEF CallScan
<1>2. /\ call'.kind = "scan" /\ call'.x = x /\ call'.leading = Clz64(x) /\ call'.trailing = Ctz64(x)
  BY <1>1
<1>3. CASE x # 0
  <2>1. x \in 1 .. Power[ScanWidth] - 1  BY <1>3
  <2>2. Power[ScanWidth - 1 - Clz64(x)] <= x /\ x < Power[ScanWidth - Clz64(x)]  BY <2>1, LeadingBit
  <2>3. x % Power[Ctz64(x)] = 0 /\ (x \div Power[Ctz64(x)]) % 2 = 1  BY <2>1, TrailingBit
  <2> QED  BY <1>2, <2>2, <2>3 DEF WideIntegersAreExact
<1>4. CASE x = 0  BY <1>2, <1>4 DEF WideIntegersAreExact
<1> QED  BY <1>3, <1>4
-----------------------------------------------------------------------------
(* Digests: the blocks of the padded message.                              *)

\* The byte at a place of the padded message of some length.
TextAt(msg, field, len, j) ==
  IF j <= Len(msg) THEN msg[j]
  ELSE IF j = Len(msg) + 1 THEN Stop
  ELSE IF j <= len - field THEN 0 ELSE ((8 * Len(msg)) \div Place[len - j]) % Radix

\* A message of `full` blocks and `rest` bytes, and its blocks with the padding.
Cut(msg, block, field, full, rest) ==
  /\ block \in Nat /\ field \in Nat \ {0} /\ field < block
  /\ full \in Nat /\ rest \in 0 .. block - 1 /\ Len(msg) = full * block + rest

\* The blocks of the padded message: one more than the full ones, or two.
Padding(msg, block, field, full, rest) ==
  LET n == IF rest < block - field THEN full + 1 ELSE full + 2
  IN [k \in 1 .. n |-> [i \in 1 .. block |-> TextAt(msg, field, n * block, (k - 1) * block + i)]]

\* The places of a block in the text.
LEMMA PlacesOfABlock ==
  ASSUME NEW n \in Nat, NEW block \in Nat \ {0}, NEW k \in 1 .. n
  PROVE  /\ (k - 1) * block \in Nat /\ k * block \in Nat /\ n * block \in Nat
         /\ (k - 1) * block + block = k * block /\ k * block <= n * block
<1>1. k \in Int /\ n \in Int /\ k <= n /\ block \in Nat  OBVIOUS
<1>2. k * block <= n * block  BY <1>1, ProductsGrow
<1>3. (k - 1) * block + block = k * block /\ k * block \in Int /\ n * block \in Int  BY <1>1
<1>4. 0 * block <= (k - 1) * block
  <2>1. 0 <= k - 1 /\ k - 1 \in Int  BY <1>1
  <2> QED  BY <1>1, <2>1, ProductsGrow
<1> QED  BY <1>1, <1>2, <1>3, <1>4

\* The standard's count of zeros fills the last block.
LEMMA ZerosFill ==
  ASSUME NEW msg, NEW block, NEW field, NEW full, NEW rest, Cut(msg, block, field, full, rest)
  PROVE  LET n == IF rest < block - field THEN full + 1 ELSE full + 2
             z == CHOOSE z \in 0 .. block - 1 : (Len(msg) + 1 + z + field) % block = 0
         IN /\ n \in Nat /\ z \in 0 .. block - 1 /\ Len(msg) + 1 + z + field = n * block
<1> DEFINE n == IF rest < block - field THEN full + 1 ELSE full + 2
           L == Len(msg)
           Fills(z) == (L + 1 + z + field) % block = 0
           z == CHOOSE y \in 0 .. block - 1 : Fills(y)
           w == n * block - (L + 1 + field)
<1>1. /\ block \in Nat \ {0} /\ field \in Nat \ {0} /\ field < block /\ full \in Nat
      /\ rest \in 0 .. block - 1 /\ L = full * block + rest
  BY DEF Cut
<1>2. n \in Nat /\ (n = full + 1 \/ n = full + 2)  BY <1>1
<1>3. L \in Nat /\ full * block \in Nat
  <2>1. full \in 1 .. full \/ full = 0  BY <1>1
  <2>2. full * block \in Nat  BY <1>1, <2>1, PlacesOfABlock
  <2> QED  BY <1>1, <2>2
<1>4. n * block \in Int /\ (n = full + 1 => n * block = full * block + block)
      /\ (n = full + 2 => n * block = full * block + block + block)
  <2>1. (full + 1) * block = full * block + block /\ (full + 2) * block = full * block + block + block
    BY <1>1
  <2> QED  BY <1>1, <1>2, <1>3, <2>1
<1>5. w \in 0 .. block - 1
  <2>1. CASE rest < block - field
    <3>1. n * block = full * block + block  BY <1>4, <2>1
    <3>2. w = block - rest - 1 - field  BY <1>1, <1>3, <3>1
    <3> QED  BY <1>1, <2>1, <3>2
  <2>2. CASE ~ (rest < block - field)
    <3>1. n * block = full * block + block + block  BY <1>4, <2>2
    <3>2. w = 2 * block - rest - 1 - field  BY <1>1, <1>3, <3>1
    <3> QED  BY <1>1, <2>2, <3>2
  <2> QED  BY <2>1, <2>2
<1>6. L + 1 + w + field = n * block  BY <1>1, <1>3, <1>4
<1> HIDE DEF w, L, n
<1>7. Fills(w)
  <2>1. Division(n * block, block, n, 0)  BY <1>1, <1>2, <1>4 DEF Division
  <2>2. (n * block) % block = 0  BY <2>1, DividedOnce
  <2> QED  BY <1>6, <2>2
<1>8. z \in 0 .. block - 1 /\ Fills(z)
  <2> HIDE DEF Fills
  <2> QED  BY <1>5, <1>7
<1> HIDE DEF z
<1>9. z = w
  <2> DEFINE t == L + 1 + z + field
             m == t \div block
  <2>1. t \in Int /\ t = n * block + (z - w)  BY <1>1, <1>3, <1>4, <1>5, <1>6, <1>8
  <2>2. t % block = 0  BY <1>8
  <2> HIDE DEF t
  <2>3. m \in Int /\ t = m * block
    <3>1. m \in Int /\ t = m * block + (t % block)
      <4>1. t \in Int /\ block \in Nat \ {0}  BY <1>1, <2>1
      <4> HIDE DEF t
      <4> QED  BY <4>1
    <3> HIDE DEF m
    <3>2. m * block \in Int  BY <1>1, <3>1
    <3> QED  BY <2>2, <3>1, <3>2
  <2> HIDE DEF m
  <2>4. CASE z >= w
    <3>1. z - w \in 0 .. block - 1  BY <1>1, <1>5, <1>8, <2>4
    <3>2. Division(t, block, n, z - w)  BY <1>1, <1>2, <2>1, <3>1 DEF Division
    <3>3. t % block = z - w  BY <3>2, DividedOnce
    <3> QED  BY <1>1, <1>5, <1>8, <2>2, <3>3
  <2>5. CASE z < w
    <3>1. block + (z - w) \in 1 .. block - 1  BY <1>1, <1>5, <1>8, <2>5
    <3>2. (n - 1) * block = n * block - block  BY <1>1, <1>2
    <3>3. t = (n - 1) * block + (block + (z - w))  BY <1>1, <1>4, <1>5, <1>8, <2>1, <3>2
    <3>4. Division(t, block, n - 1, block + (z - w))  BY <1>1, <1>2, <3>1, <3>3 DEF Division
    <3>5. t % block = block + (z - w)  BY <3>4, DividedOnce
    <3> QED  BY <2>2, <3>1, <3>5
  <2> QED  BY <1>1, <1>5, <1>8, <2>4, <2>5
<1> QED  BY <1>2, <1>6, <1>8, <1>9 DEF n, z, L

\* The standard's blocks, one by one.
LEMMA StandardIsPadding ==
  ASSUME NEW V, NEW msg \in Seq(V), NEW block, NEW field, NEW full, NEW rest,
         Cut(msg, block, field, full, rest)
  PROVE  StandardChain(msg, block, field) = Padding(msg, block, field, full, rest)
<1> DEFINE n == IF rest < block - field THEN full + 1 ELSE full + 2
           L == Len(msg)
           z == CHOOSE y \in 0 .. block - 1 : (L + 1 + y + field) % block = 0
           T == n * block
           number(k) == ((8 * L) \div Place[field - k]) % Radix
           stop == <<Stop>>
           zeros == [k \in 1 .. z |-> 0]
           length == [k \in 1 .. field |-> number(k)]
           text == msg \o stop \o zeros \o length
           W == V \cup {Stop, 0} \cup {number(k) : k \in 1 .. field}
<1>1. /\ block \in Nat \ {0} /\ field \in Nat \ {0} /\ field < block /\ L \in Nat
  BY LenProperties DEF Cut
<1>2. n \in Nat /\ z \in 0 .. block - 1 /\ L + 1 + z + field = T  BY ZerosFill
<1>3. StandardChain(msg, block, field) = [k \in 1 .. Len(text) \div block |-> SubSeq(text, (k - 1) * block + 1, k * block)]
  BY DEF StandardChain
<1> HIDE DEF n, z
<1>4. msg \in Seq(W) /\ stop \in Seq(W) /\ zeros \in Seq(W) /\ length \in Seq(W)
  <2>1. V \subseteq W  OBVIOUS
  <2>2. msg \in Seq(W)
    <3> HIDE DEF W
    <3> QED  BY <2>1, SeqMonotonic
  <2>3. Stop \in W /\ 0 \in W /\ \A k \in 1 .. field : number(k) \in W  OBVIOUS
  <2> HIDE DEF W, number
  <2>4. z \in Nat  BY <1>1, <1>2
  <2> QED  BY <1>1, <2>2, <2>3, <2>4
<1>5. Len(stop) = 1 /\ stop[1] = Stop /\ Len(zeros) = z /\ Len(length) = field
  <2>1. z \in Nat  BY <1>1, <1>2
  <2> QED  BY <1>1, <2>1
<1>6. (\A k \in 1 .. z : zeros[k] = 0) /\ \A k \in 1 .. field : length[k] = number(k)  OBVIOUS
<1> HIDE DEF stop, zeros, length, W
<1>7. /\ msg \o stop \in Seq(W) /\ Len(msg \o stop) = L + 1
      /\ \A j \in 1 .. L + 1 : (msg \o stop)[j] = IF j <= L THEN msg[j] ELSE stop[j - L]
  <2>1. /\ msg \o stop \in Seq(W) /\ Len(msg \o stop) = Len(msg) + Len(stop)
        /\ \A j \in 1 .. Len(msg) + Len(stop) :
             (msg \o stop)[j] = IF j <= Len(msg) THEN msg[j] ELSE stop[j - Len(msg)]
    BY <1>4, ConcatProperties
  <2> QED  BY <1>1, <1>5, <2>1
<1> DEFINE front == msg \o stop
           most == front \o zeros
<1> HIDE DEF front
<1>8. /\ most \in Seq(W) /\ Len(most) = L + 1 + z
      /\ \A j \in 1 .. L + 1 + z : most[j] = IF j <= L + 1 THEN front[j] ELSE zeros[j - (L + 1)]
  <2>1. front \in Seq(W) /\ zeros \in Seq(W) /\ Len(front) = L + 1 /\ Len(zeros) = z
    BY <1>4, <1>5, <1>7 DEF front
  <2>2. /\ front \o zeros \in Seq(W) /\ Len(front \o zeros) = Len(front) + Len(zeros)
        /\ \A j \in 1 .. Len(front) + Len(zeros) :
             (front \o zeros)[j] = IF j <= Len(front) THEN front[j] ELSE zeros[j - Len(front)]
    BY <2>1, ConcatProperties
  <2> QED  BY <2>1, <2>2 DEF most
<1> HIDE DEF most
<1>9. text = most \o length  BY DEF most, front
<1> HIDE DEF text
<1>10. /\ text \in Seq(W) /\ Len(text) = T
       /\ \A j \in 1 .. T : text[j] = IF j <= L + 1 + z THEN most[j] ELSE length[j - (L + 1 + z)]
  <2>1. L + 1 + z \in Nat /\ (L + 1 + z) + field = T  BY <1>1, <1>2
  <2>2. most \in Seq(W) /\ length \in Seq(W) /\ Len(most) = L + 1 + z /\ Len(length) = field
    BY <1>4, <1>5, <1>8
  <2>3. /\ most \o length \in Seq(W) /\ Len(most \o length) = Len(most) + Len(length)
        /\ \A j \in 1 .. Len(most) + Len(length) :
             (most \o length)[j] = IF j <= Len(most) THEN most[j] ELSE length[j - Len(most)]
    BY <2>2, ConcatProperties
  <2> QED  BY <1>9, <2>1, <2>2, <2>3
<1>11. T \in Nat  BY <1>1, <1>2
<1>12. \A j \in 1 .. T : text[j] = TextAt(msg, field, T, j)
  <2> TAKE j \in 1 .. T
  <2> HIDE DEF T, number
  <2>1. CASE j <= L
    <3>1. j \in 1 .. L + 1 /\ j <= L + 1 /\ j \in 1 .. L + 1 + z /\ j <= L + 1 + z  BY <1>1, <1>2, <2>1
    <3>2. text[j] = msg[j]  BY <1>7, <1>8, <1>10, <2>1, <3>1 DEF front
    <3> QED  BY <2>1, <3>2 DEF TextAt
  <2>2. CASE j = L + 1
    <3>1. /\ j \in 1 .. L + 1 /\ j <= L + 1 /\ j \in 1 .. L + 1 + z /\ j <= L + 1 + z /\ ~ (j <= L)
          /\ j - L = 1
      BY <1>1, <1>2, <2>2
    <3>2. text[j] = Stop  BY <1>5, <1>7, <1>8, <1>10, <3>1 DEF front
    <3> QED  BY <2>2, <3>1, <3>2 DEF TextAt
  <2>3. CASE L + 1 < j /\ j <= L + 1 + z
    <3>1. /\ j \in 1 .. L + 1 + z /\ ~ (j <= L + 1) /\ j - (L + 1) \in 1 .. z /\ j # L + 1 /\ ~ (j <= L)
          /\ j <= T - field
      BY <1>1, <1>2, <1>11, <2>3
    <3>2. text[j] = 0  BY <1>6, <1>8, <1>10, <2>3, <3>1
    <3> QED  BY <3>1, <3>2 DEF TextAt
  <2>4. CASE L + 1 + z < j
    <3>1. /\ ~ (j <= L + 1 + z) /\ ~ (j <= L) /\ j # L + 1 /\ ~ (j <= T - field)
          /\ j - (L + 1 + z) \in 1 .. field /\ field - (j - (L + 1 + z)) = T - j
      BY <1>1, <1>2, <1>11, <2>4
    <3>2. text[j] = number(j - (L + 1 + z))  BY <1>6, <1>10, <3>1
    <3>3. number(j - (L + 1 + z)) = ((8 * L) \div Place[T - j]) % Radix  BY <3>1 DEF number
    <3> QED  BY <3>1, <3>2, <3>3 DEF TextAt
  <2> QED  BY <1>1, <1>2, <2>1, <2>2, <2>3, <2>4
<1>13. Len(text) \div block = n
  <2>1. Division(T, block, n, 0)  BY <1>1, <1>2, <1>11 DEF Division
  <2> QED  BY <1>10, <2>1, DividedOnce
<1>14. ASSUME NEW k \in 1 .. n
       PROVE  SubSeq(text, (k - 1) * block + 1, k * block) = [i \in 1 .. block |-> TextAt(msg, field, T, (k - 1) * block + i)]
  <2> DEFINE from == (k - 1) * block
             to == k * block
             s == SubSeq(text, from + 1, to)
             t == [i \in 1 .. block |-> TextAt(msg, field, T, from + i)]
  <2>1. from \in Nat /\ to \in Nat /\ from + block = to /\ to <= T  BY <1>1, <1>2, PlacesOfABlock
  <2> HIDE DEF from, to, T
  <2>2. \A i \in from + 1 .. to : i \in 1 .. T  BY <1>11, <2>1
  <2>3. \A i \in from + 1 .. to : text[i] \in W  BY <1>10, <2>2, ElementOfSeq
  <2>4. from + 1 \in Int /\ to \in Int /\ to - (from + 1) + 1 = block /\ from + 1 <= to  BY <1>1, <2>1
  <2>5. s \in Seq(W) /\ Len(s) = block /\ \A i \in 1 .. block : s[i] = text[(from + 1) + i - 1]
    BY <2>3, <2>4, SubSeqProperties
  <2> HIDE DEF s
  <2>6. \A i \in 1 .. block : s[i] = TextAt(msg, field, T, from + i)
    <3> TAKE i \in 1 .. block
    <3>1. (from + 1) + i - 1 = from + i /\ from + i \in 1 .. T  BY <1>1, <1>11, <2>1
    <3> QED  BY <1>12, <2>5, <3>1
  <2>7. DOMAIN s = 1 .. block /\ s = [i \in 1 .. block |-> s[i]]  BY <1>1, <2>5, LenProperties
  <2>8. s = t  BY <2>6, <2>7
  <2> QED  BY <2>8 DEF s, from, to
<1>15. StandardChain(msg, block, field) = [k \in 1 .. n |-> SubSeq(text, (k - 1) * block + 1, k * block)]
  BY <1>3, <1>13 DEF text, most, front, stop, zeros, length, z
<1> HIDE DEF T
<1>16. StandardChain(msg, block, field) = [k \in 1 .. n |-> [i \in 1 .. block |-> TextAt(msg, field, T, (k - 1) * block + i)]]
  BY <1>14, <1>15
<1> QED  BY <1>16 DEF Padding, n, T
-----------------------------------------------------------------------------
(* SHA-256: a context that has absorbed a part of the message.             *)

\* The contexts between two bytes, V being what a byte of a buffer may be.
Contexts(V) ==
  [iv : {"sha256", "sha224"}, chain : Seq([1 .. Block -> V]), data : [1 .. Block -> V],
   datalen : 0 .. Block - 1, bitlen : Nat]

\* The first l bytes of the message are in the chain and in the buffer.
Absorbed(ctx, msg, l, V) ==
  /\ ctx \in Contexts(V) /\ l = Len(ctx.chain) * Block + ctx.datalen
  /\ \A k \in 1 .. Len(ctx.chain) : ctx.chain[k] = [i \in 1 .. Block |-> msg[(k - 1) * Block + i]]
  /\ \A i \in 1 .. ctx.datalen : ctx.data[i] = msg[Len(ctx.chain) * Block + i]
  /\ ctx.bitlen = 8 * Block * Len(ctx.chain)

\* The buffer with a byte more, and the context it is left in: waiting for the
\* next byte, or compressed.
WithByte(ctx, x) == [i \in 1 .. Block |-> IF i = ctx.datalen + 1 THEN x ELSE ctx.data[i]]

Buffered(ctx, x) ==
  [iv |-> ctx.iv, chain |-> ctx.chain, data |-> WithByte(ctx, x), datalen |-> ctx.datalen + 1,
   bitlen |-> ctx.bitlen]

Compressed(ctx, x) ==
  [iv |-> ctx.iv, chain |-> Append(ctx.chain, WithByte(ctx, x)), data |-> WithByte(ctx, x),
   datalen |-> 0, bitlen |-> ctx.bitlen + 8 * Block]

\* A byte put into a context, and a block taken out of it, field by field.
AsContext(r, i, c, d, n, l) == r = [iv |-> i, chain |-> c, data |-> d, datalen |-> n, bitlen |-> l]

\* The byte.
LEMMA ByteIntoContext ==
  ASSUME NEW r, NEW i, NEW c, NEW d, NEW n, NEW l, NEW m, NEW x,
         AsContext(r, i, c, d, n, l), n + 1 = m
  PROVE  AsContext([r EXCEPT !.data[r.datalen + 1] = x, !.datalen = @ + 1], i, c, [d EXCEPT ![m] = x], m, l)
<1>1. r = [iv |-> i, chain |-> c, data |-> d, datalen |-> n, bitlen |-> l]  BY DEF AsContext
<1>2. r.datalen = n  BY ONLY <1>1
<1>3. r.datalen + 1 = m  BY ONLY <1>2, n + 1 = m
<1>4. [r EXCEPT !.data[r.datalen + 1] = x, !.datalen = @ + 1] = [r EXCEPT !.data[m] = x, !.datalen = m]
  BY ONLY <1>3, Zenon
<1> DEFINE w == [d EXCEPT ![m] = x]
<1>5. r.data = d  BY ONLY <1>1
<1>6. [r EXCEPT !.data[m] = x, !.datalen = m] = [r EXCEPT !.data = w, !.datalen = m]
  BY ONLY <1>5, Zenon
<1> HIDE DEF w
<1>7. [r EXCEPT !.data = w, !.datalen = m]
        = [iv |-> i, chain |-> c, data |-> w, datalen |-> m, bitlen |-> l]
  <2> DEFINE p == [r EXCEPT !.data = w]
  <2>1. p = [iv |-> i, chain |-> c, data |-> w, datalen |-> n, bitlen |-> l]  BY ONLY <1>1
  <2> HIDE DEF p
  <2>2. [p EXCEPT !.datalen = m] = [iv |-> i, chain |-> c, data |-> w, datalen |-> m, bitlen |-> l]
    BY ONLY <2>1
  <2> QED  BY ONLY <2>2 DEF p
<1> QED  BY <1>4, <1>6, <1>7 DEF AsContext, w

\* The block.
LEMMA BlockOutOfContext ==
  ASSUME NEW r, NEW i, NEW c, NEW d, NEW n, NEW l, NEW m, NEW t,
         AsContext(r, i, c, d, n, l), l + m = t
  PROVE  AsContext([Transform(r) EXCEPT !.bitlen = @ + m, !.datalen = 0], i, Append(c, d), d, 0, t)
<1> DEFINE q == Transform(r)
<1>1. r = [iv |-> i, chain |-> c, data |-> d, datalen |-> n, bitlen |-> l]  BY DEF AsContext
<1>2. q = [iv |-> i, chain |-> Append(c, d), data |-> d, datalen |-> n, bitlen |-> l]
  BY ONLY <1>1 DEF Transform
<1> HIDE DEF q
<1>3. q.bitlen = l  BY ONLY <1>2
<1>4. q.bitlen + m = t  BY ONLY <1>3, l + m = t
<1>5. [q EXCEPT !.bitlen = @ + m, !.datalen = 0] = [q EXCEPT !.bitlen = t, !.datalen = 0]
  BY ONLY <1>4, Zenon
<1>6. [q EXCEPT !.bitlen = t, !.datalen = 0]
        = [iv |-> i, chain |-> Append(c, d), data |-> d, datalen |-> 0, bitlen |-> t]
  <2> DEFINE e == Append(c, d)
  <2>1. q = [iv |-> i, chain |-> e, data |-> d, datalen |-> n, bitlen |-> l]  BY <1>2
  <2> DEFINE p == [q EXCEPT !.bitlen = t]
  <2> HIDE DEF e
  <2>2. p = [iv |-> i, chain |-> e, data |-> d, datalen |-> n, bitlen |-> t]  BY ONLY <2>1
  <2> HIDE DEF p
  <2>3. [p EXCEPT !.datalen = 0] = [iv |-> i, chain |-> e, data |-> d, datalen |-> 0, bitlen |-> t]
    BY ONLY <2>2
  <2> QED  BY ONLY <2>3 DEF e, p
<1> QED  BY <1>5, <1>6 DEF AsContext, q

\* A byte that does not fill the block waits in the buffer; the one that does is compressed with it.
LEMMA AbsorbCases ==
  ASSUME NEW V, NEW ctx \in Contexts(V), NEW x \in V
  PROVE  /\ WithByte(ctx, x) \in [1 .. Block -> V]
         /\ ctx.datalen + 1 < Block => Absorb(ctx, x) = Buffered(ctx, x)
         /\ ctx.datalen + 1 = Block => Absorb(ctx, x) = Compressed(ctx, x)
<1> DEFINE d == ctx.datalen
           data == WithByte(ctx, x)
           filled == [ctx EXCEPT !.data[ctx.datalen + 1] = x, !.datalen = @ + 1]
<1>1. /\ Block \in Nat \ {0} /\ d \in 0 .. Block - 1 /\ ctx.data \in [1 .. Block -> V]
      /\ d \in Int /\ ctx.bitlen \in Int
  BY BlockAssumption DEF Contexts
<1>2. ctx = [iv |-> ctx.iv, chain |-> ctx.chain, data |-> ctx.data, datalen |-> d, bitlen |-> ctx.bitlen]
  BY DEF Contexts
<1>3. data = [ctx.data EXCEPT ![d + 1] = x] /\ data \in [1 .. Block -> V]  BY <1>1 DEF WithByte
<1> DEFINE e == d + 1
           t == ctx.bitlen + 8 * Block
<1>4. filled = Buffered(ctx, x) /\ AsContext(filled, ctx.iv, ctx.chain, data, d + 1, ctx.bitlen)
  <2>1. AsContext(ctx, ctx.iv, ctx.chain, ctx.data, d, ctx.bitlen) /\ d + 1 = e  BY <1>2 DEF AsContext
  <2> HIDE DEF e, d
  <2>2. AsContext([ctx EXCEPT !.data[ctx.datalen + 1] = x, !.datalen = @ + 1], ctx.iv, ctx.chain,
                  [ctx.data EXCEPT ![e] = x], e, ctx.bitlen)
    BY <2>1, ByteIntoContext
  <2>3. [ctx.data EXCEPT ![e] = x] = data  BY <1>3 DEF e
  <2>4. AsContext(filled, ctx.iv, ctx.chain, data, d + 1, ctx.bitlen)  BY <2>2, <2>3 DEF e, filled
  <2> QED  BY <2>4 DEF Buffered, AsContext, d
<1>5. Absorb(ctx, x) = IF filled.datalen = Block
        THEN [Transform(filled) EXCEPT !.bitlen = @ + 8 * Block, !.datalen = 0] ELSE filled
  BY DEF Absorb
<1> HIDE DEF filled
<1>6. filled.datalen = d + 1  BY <1>4 DEF Buffered
<1>7. CASE d + 1 < Block
  <2>1. Absorb(ctx, x) = Buffered(ctx, x)  BY <1>1, <1>4, <1>5, <1>6, <1>7
  <2> QED  BY <1>1, <1>3, <1>7, <2>1
<1>8. CASE d + 1 = Block
  <2>1. Absorb(ctx, x) = [Transform(filled) EXCEPT !.bitlen = @ + 8 * Block, !.datalen = 0]
    BY <1>5, <1>6, <1>8
  <2>2. AsContext(filled, ctx.iv, ctx.chain, data, e, ctx.bitlen) /\ ctx.bitlen + 8 * Block = t
    BY <1>4
  <2> HIDE DEF e, t, data
  <2>3. AsContext([Transform(filled) EXCEPT !.bitlen = @ + 8 * Block, !.datalen = 0], ctx.iv,
                  Append(ctx.chain, data), data, 0, t)
    BY <2>2, BlockOutOfContext
  <2>4. Absorb(ctx, x) = Compressed(ctx, x)  BY <2>1, <2>3 DEF Compressed, AsContext, data, t
  <2> QED  BY <1>1, <1>3, <1>8, <2>4 DEF data
<1> QED  BY <1>1, <1>7, <1>8

\* The context stays one.
LEMMA AbsorbStays ==
  ASSUME NEW V, NEW ctx \in Contexts(V), NEW x \in V PROVE Absorb(ctx, x) \in Contexts(V)
<1> DEFINE d == ctx.datalen
           data == WithByte(ctx, x)
           B == [1 .. Block -> V]
<1>1. /\ data \in B
      /\ d + 1 < Block => Absorb(ctx, x) = Buffered(ctx, x)
      /\ d + 1 = Block => Absorb(ctx, x) = Compressed(ctx, x)
  BY AbsorbCases
<1>2. /\ Block \in Nat \ {0} /\ d \in 0 .. Block - 1 /\ ctx.iv \in {"sha256", "sha224"}
      /\ ctx.chain \in Seq(B) /\ ctx.bitlen \in Nat
  BY BlockAssumption DEF Contexts
<1> HIDE DEF data, B
<1>3. Append(ctx.chain, data) \in Seq(B)  BY <1>1, <1>2
<1>4. CASE d + 1 < Block
  <2>1. d + 1 \in 0 .. Block - 1  BY <1>2, <1>4
  <2>2. Absorb(ctx, x) = [iv |-> ctx.iv, chain |-> ctx.chain, data |-> data, datalen |-> d + 1, bitlen |-> ctx.bitlen]
    BY <1>1, <1>4 DEF Buffered, data
  <2> HIDE DEF d
  <2> QED  BY <1>1, <1>2, <2>1, <2>2 DEF Contexts, B
<1>5. CASE d + 1 = Block
  <2> DEFINE t == ctx.bitlen + 8 * Block
             next == Append(ctx.chain, data)
  <2>1. 0 \in 0 .. Block - 1 /\ t \in Nat  BY <1>2
  <2>2. Absorb(ctx, x) = [iv |-> ctx.iv, chain |-> next, data |-> data, datalen |-> 0, bitlen |-> t]
    BY <1>1, <1>5 DEF Compressed, data
  <2>3. next \in Seq(B)  BY <1>3
  <2> HIDE DEF t, next
  <2> QED  BY <1>1, <1>2, <2>1, <2>2, <2>3 DEF Contexts, B
<1> QED  BY <1>2, <1>4, <1>5

\* A byte more is absorbed.
LEMMA AbsorbsOneMore ==
  ASSUME NEW V, NEW ctx, NEW msg, NEW l \in Nat, Absorbed(ctx, msg, l, V), msg[l + 1] \in V
  PROVE  Absorbed(Absorb(ctx, msg[l + 1]), msg, l + 1, V)
<1> DEFINE x == msg[l + 1]
           d == ctx.datalen
           c == Len(ctx.chain)
           data == WithByte(ctx, x)
           end == Absorb(ctx, x)
<1>1. /\ ctx \in Contexts(V) /\ l = c * Block + d
      /\ \A k \in 1 .. c : ctx.chain[k] = [i \in 1 .. Block |-> msg[(k - 1) * Block + i]]
      /\ \A i \in 1 .. d : ctx.data[i] = msg[c * Block + i]
      /\ ctx.bitlen = 8 * Block * c
  BY DEF Absorbed
<1>2. /\ data \in [1 .. Block -> V]
      /\ d + 1 < Block => end = Buffered(ctx, x)
      /\ d + 1 = Block => end = Compressed(ctx, x)
  <2>1. ctx \in Contexts(V) /\ x \in V  BY <1>1
  <2> HIDE DEF x
  <2> QED  BY <2>1, AbsorbCases
<1>3. end \in Contexts(V)
  <2>1. ctx \in Contexts(V) /\ x \in V  BY <1>1
  <2> HIDE DEF x
  <2> QED  BY <2>1, AbsorbStays
<1>4. Block \in Nat \ {0} /\ d \in 0 .. Block - 1 /\ ctx.chain \in Seq([1 .. Block -> V]) /\ c \in Nat
  <2>1. Block \in Nat \ {0} /\ d \in 0 .. Block - 1 /\ ctx.chain \in Seq([1 .. Block -> V])
    BY <1>1, BlockAssumption DEF Contexts
  <2> QED  BY <2>1, LenProperties
<1>5. /\ c * Block \in Int /\ (c + 1) * Block = c * Block + Block
      /\ 8 * Block * (c + 1) = 8 * Block * c + 8 * Block /\ l = c * Block + d /\ l \in Nat
  <2>1. c \in Nat /\ Block \in Nat  BY <1>4
  <2>2. l = c * Block + d  BY <1>1
  <2> HIDE DEF c, d
  <2> QED  BY <2>1, <2>2
<1>6. \A i \in 1 .. d + 1 : data[i] = msg[c * Block + i]
  <2> TAKE i \in 1 .. d + 1
  <2>1. i \in 1 .. Block  BY <1>4
  <2>2. CASE i = d + 1
    <3>1. c * Block + i = l + 1
      <4> DEFINE m == c * Block
      <4>1. m \in Int /\ l = m + d /\ i = d + 1 /\ d \in Int  BY <1>4, <1>5, <2>2
      <4> HIDE DEF m, d
      <4>2. m + i = l + 1  BY <4>1
      <4> QED  BY <4>2 DEF m
    <3> QED  BY <2>1, <2>2, <3>1 DEF WithByte
  <2>3. CASE i # d + 1
    <3>1. i \in 1 .. d  BY <1>4, <2>3
    <3> QED  BY <1>1, <2>1, <2>3, <3>1 DEF WithByte
  <2> QED  BY <2>2, <2>3
<1> HIDE DEF data, end, x
<1>7. CASE d + 1 < Block
  <2>1. /\ end.chain = ctx.chain /\ end.data = data /\ end.datalen = d + 1 /\ end.bitlen = ctx.bitlen
    BY <1>2, <1>7 DEF Buffered, data, d
  <2>2. l + 1 = c * Block + (d + 1)  BY <1>1, <1>4, <1>5
  <2>3. Absorbed(end, msg, l + 1, V)
    <3> HIDE DEF d, c
    <3>1. /\ \A k \in 1 .. Len(end.chain) : end.chain[k] = [i \in 1 .. Block |-> msg[(k - 1) * Block + i]]
          /\ \A i \in 1 .. end.datalen : end.data[i] = msg[Len(end.chain) * Block + i]
          /\ end.bitlen = 8 * Block * Len(end.chain) /\ l + 1 = Len(end.chain) * Block + end.datalen
      BY <1>1, <1>6, <2>1, <2>2 DEF c
    <3> QED  BY <1>3, <3>1 DEF Absorbed
  <2> QED  BY <2>3 DEF end, x
<1>8. CASE d + 1 = Block
  <2> DEFINE next == Append(ctx.chain, data)
  <2>1. /\ end.chain = next /\ end.data = data /\ end.datalen = 0 /\ end.bitlen = ctx.bitlen + 8 * Block
    BY <1>2, <1>8 DEF Compressed, data, d
  <2>2. /\ Len(next) = c + 1 /\ next[c + 1] = data /\ \A k \in 1 .. c : next[k] = ctx.chain[k]
    <3> DEFINE B == [1 .. Block -> V]
    <3>1. ctx.chain \in Seq(B) /\ data \in B  BY <1>2, <1>4
    <3> HIDE DEF B
    <3> QED  BY <3>1, AppendProperties
  <2> HIDE DEF next
  <2>3. (c + 1) * Block = c * Block + Block /\ l + 1 = (c + 1) * Block + 0 /\ 8 * Block * (c + 1) = 8 * Block * c + 8 * Block
    <3> DEFINE m == c * Block
    <3>1. /\ m \in Int /\ l = m + d /\ d + 1 = Block /\ d \in Int /\ Block \in Int
          /\ (c + 1) * Block = m + Block
      BY <1>4, <1>5, <1>8
    <3> HIDE DEF m, d, c
    <3>2. (c + 1) * Block = m + Block /\ l + 1 = (c + 1) * Block + 0  BY <3>1
    <3> QED  BY <1>5, <3>2 DEF m
  <2>4. \A k \in 1 .. c + 1 : next[k] = [i \in 1 .. Block |-> msg[(k - 1) * Block + i]]
    <3> TAKE k \in 1 .. c + 1
    <3>1. CASE k = c + 1
      <4>1. (k - 1) * Block = c * Block  BY <1>4, <3>1
      <4>2. \A i \in 1 .. Block : data[i] = msg[(k - 1) * Block + i]  BY <1>6, <1>8, <4>1
      <4>3. data = [i \in 1 .. Block |-> data[i]]  BY <1>2
      <4> QED  BY <2>2, <3>1, <4>2, <4>3
    <3>2. CASE k # c + 1
      <4>1. k \in 1 .. c  BY <1>4, <3>2
      <4> QED  BY <1>1, <2>2, <4>1
    <3> QED  BY <3>1, <3>2
  <2>5. Absorbed(end, msg, l + 1, V)
    <3>1. /\ \A k \in 1 .. Len(end.chain) : end.chain[k] = [i \in 1 .. Block |-> msg[(k - 1) * Block + i]]
          /\ l + 1 = Len(end.chain) * Block + end.datalen
          /\ end.bitlen = 8 * Block * Len(end.chain)
      BY <1>1, <2>1, <2>2, <2>3, <2>4
    <3>2. \A i \in 1 .. end.datalen : end.data[i] = msg[Len(end.chain) * Block + i]  BY <2>1
    <3> QED  BY <1>3, <3>1, <3>2 DEF Absorbed
  <2> QED  BY <2>5 DEF end, x
<1> QED  BY <1>4, <1>7, <1>8

\* A piece of the message is absorbed byte by byte.
LEMMA UpdateAbsorbs ==
  ASSUME NEW V, NEW msg \in Seq(V), NEW i \in 0 .. Len(msg), NEW j \in i .. Len(msg), NEW ctx,
         Absorbed(ctx, msg, i, V)
  PROVE  Absorbed(Update(ctx, SubSeq(msg, i + 1, j)), msg, j, V)
<1> DEFINE A == Contexts(V)
           bytes == SubSeq(msg, i + 1, j)
           n == Len(bytes)
           F == [p \in A \X (1 .. n) |-> Absorb(p[1], bytes[p[2]])]
           Body(f) == [k \in 0 .. n |-> IF k = 0 THEN ctx ELSE Absorb(f[k - 1], bytes[k])]
           after == CHOOSE f : f = Body(f)
<1>1. Update(ctx, bytes) = after[n]  BY DEF Update
<1>2. Len(msg) \in Nat /\ i \in Nat /\ j \in Nat /\ \A k \in 1 .. Len(msg) : msg[k] \in V
  <2>1. Len(msg) \in Nat /\ \A k \in 1 .. Len(msg) : msg[k] \in V  BY LenProperties, ElementOfSeq
  <2> QED  BY <2>1
<1>3. n = j - i /\ n \in Nat /\ \A k \in 1 .. n : bytes[k] = msg[i + k] /\ bytes[k] \in V
  <2> DEFINE s == SubSeq(msg, i + 1, j)
  <2>1. i + 1 \in Int /\ j \in Int /\ \A k \in i + 1 .. j : msg[k] \in V  BY <1>2
  <2>2. /\ s \in Seq(V) /\ Len(s) = IF i + 1 <= j THEN j - (i + 1) + 1 ELSE 0
        /\ \A k \in 1 .. j - (i + 1) + 1 : s[k] = msg[(i + 1) + k - 1]
    BY <2>1, SubSeqProperties
  <2> HIDE DEF s
  <2>3. Len(s) = j - i  BY <1>2, <2>2
  <2>4. ASSUME NEW k \in 1 .. j - i PROVE s[k] = msg[i + k] /\ s[k] \in V
    <3>1. k \in 1 .. j - (i + 1) + 1 /\ (i + 1) + k - 1 = i + k /\ i + k \in 1 .. Len(msg)  BY <1>2
    <3> QED  BY <1>2, <2>2, <3>1
  <2>5. j - i \in Nat  BY <1>2
  <2> QED  BY <2>3, <2>4, <2>5 DEF s
<1>4. ctx \in A  BY DEF Absorbed
<1> HIDE DEF A, bytes, n
<1>5. PICK g \in [0 .. n -> A] : g[0] = ctx /\ \A k \in 1 .. n : g[k] = Absorb(g[k - 1], bytes[k])
  <2>1. F \in [A \X (1 .. n) -> A]
    <3>1. \A p \in A \X (1 .. n) : Absorb(p[1], bytes[p[2]]) \in A
      <4> TAKE p \in A \X (1 .. n)
      <4>1. p[1] \in Contexts(V) /\ bytes[p[2]] \in V  BY <1>3 DEF A
      <4> QED  BY <4>1, AbsorbStays DEF A
    <3> QED  BY <3>1
  <2>2. \A u \in A, k \in 1 .. n : F[<<u, k>>] = Absorb(u, bytes[k])  OBVIOUS
  <2> HIDE DEF F
  <2>3. Runnable(A, ctx, n, F)  BY <1>3, <1>4, <2>1 DEF Runnable
  <2>4. PICK g : LoopOf(g, A, ctx, n, F)  BY <2>3, LoopRuns
  <2>5. g \in [0 .. n -> A] /\ g[0] = ctx /\ \A k \in 1 .. n : g[k] = F[<<g[k - 1], k>>]
    BY <2>4 DEF LoopOf
  <2>6. \A k \in 1 .. n : g[k - 1] \in A
    <3>1. \A k \in 1 .. n : k - 1 \in 0 .. n  BY <1>3
    <3> QED  BY <2>5, <3>1
  <2> QED  BY <2>2, <2>5, <2>6
<1> HIDE DEF F
<1>6. g = Body(g)
  <2>1. \A k \in 0 .. n : k # 0 => k \in 1 .. n  BY <1>3
  <2>2. \A k \in 0 .. n : g[k] = IF k = 0 THEN ctx ELSE Absorb(g[k - 1], bytes[k])  BY <1>5, <2>1
  <2>3. g = [k \in 0 .. n |-> g[k]]  BY <1>5
  <2> QED  BY <2>2, <2>3
<1>7. after = Body(after)
  <2> HIDE DEF Body
  <2> QED  BY <1>6, Zenon
<1> HIDE DEF after
<1> DEFINE H == {k \in Nat : k <= n => Absorbed(after[k], msg, i + k, V)}
<1>8. 0 \in H
  <2>1. after[0] = ctx  BY <1>3, <1>7
  <2>2. i + 0 = i  BY <1>2
  <2> QED  BY <2>1, <2>2
<1>9. ASSUME NEW k \in Nat, k \in H PROVE k + 1 \in H
  <2>1. SUFFICES ASSUME k + 1 <= n PROVE Absorbed(after[k + 1], msg, i + (k + 1), V)  OBVIOUS
  <2>2. /\ k <= n /\ k + 1 \in 0 .. n /\ k + 1 \in 1 .. n /\ k + 1 # 0 /\ (k + 1) - 1 = k
        /\ i + k \in Nat /\ i + (k + 1) = (i + k) + 1
    BY <1>2, <1>3, <2>1
  <2>3. Absorbed(after[k], msg, i + k, V)  BY <1>9, <2>2
  <2>4. after[k + 1] = Absorb(after[k], bytes[k + 1])  BY <1>7, <2>2
  <2>5. bytes[k + 1] = msg[(i + k) + 1] /\ msg[(i + k) + 1] \in V  BY <1>3, <2>2
  <2> DEFINE l == i + k
  <2>6. l \in Nat /\ Absorbed(after[k], msg, l, V) /\ msg[l + 1] \in V  BY <2>2, <2>3, <2>5
  <2> HIDE DEF l
  <2>7. Absorbed(Absorb(after[k], msg[l + 1]), msg, l + 1, V)  BY <2>6, AbsorbsOneMore
  <2> QED  BY <2>2, <2>4, <2>5, <2>7 DEF l
<1>10. Absorbed(after[n], msg, i + n, V)
  <2>1. n \in H
    <3> HIDE DEF H
    <3> QED  BY <1>3, <1>8, <1>9, NumbersFrom0
  <2> QED  BY <1>3, <2>1
<1>11. i + n = j  BY <1>2, <1>3
<1> QED  BY <1>1, <1>10, <1>11 DEF bytes

\* What the last blocks hold: the rest of the message, the stop byte and zeros;
\* zeros in front; the length behind.
Filled(data, n, upto) ==
  [k \in 1 .. Block |-> IF k <= n \/ k > upto THEN data[k] ELSE IF k = n + 1 THEN Stop ELSE 0]
Cleared(data) == [k \in 1 .. Block |-> IF k <= Block - LengthField THEN 0 ELSE data[k]]
Measured(data, bits) ==
  [k \in 1 .. Block |-> IF k <= Block - LengthField THEN data[k] ELSE (bits \div Place[Block - k]) % Radix]

\* A context's buffer is replaced, or compressed.
LEMMA ContextSteps ==
  ASSUME NEW r, NEW i, NEW c, NEW d, NEW n, NEW l, NEW x, AsContext(r, i, c, d, n, l)
  PROVE  /\ AsContext([r EXCEPT !.data = x], i, c, x, n, l)
         /\ AsContext(Transform(r), i, Append(c, d), d, n, l)
         /\ r.chain = c /\ r.data = d /\ r.datalen = n /\ r.bitlen = l
<1>1. r = [iv |-> i, chain |-> c, data |-> d, datalen |-> n, bitlen |-> l]  BY DEF AsContext
<1>2. r.chain = c /\ r.data = d /\ r.datalen = n /\ r.bitlen = l  BY ONLY <1>1
<1>3. [r EXCEPT !.data = x] = [iv |-> i, chain |-> c, data |-> x, datalen |-> n, bitlen |-> l]
  BY ONLY <1>1
<1>4. Transform(r) = [iv |-> i, chain |-> Append(c, d), data |-> d, datalen |-> n, bitlen |-> l]
  BY ONLY <1>1 DEF Transform
<1> QED  BY <1>2, <1>3, <1>4 DEF AsContext

\* The blocks that sha256_final compresses: one when the length has room, and two when it has not.
LEMMA FinalBlocks ==
  ASSUME NEW ctx, NEW i, NEW c, NEW d, NEW n, NEW l, AsContext(ctx, i, c, d, n, l)
  PROVE  Final(ctx).chain =
           IF n < Block - LengthField
           THEN Append(c, Measured(Filled(d, n, Block - LengthField), l + 8 * n))
           ELSE Append(Append(c, Filled(d, n, Block)), Measured(Cleared(Filled(d, n, Block)), l + 8 * n))
<1> DEFINE room == Block - LengthField
           bits == ctx.bitlen + 8 * ctx.datalen
           two == [Transform(Padded(ctx, Block)) EXCEPT
                     !.data = [k \in 1 .. Block |-> IF k <= room THEN 0 ELSE @[k]]]
           pad == IF ctx.datalen < room THEN Padded(ctx, room) ELSE two
           end == [pad EXCEPT !.data = [k \in 1 .. Block |->
                  IF k <= room THEN @[k] ELSE (bits \div Place[Block - k]) % Radix]]
<1>1. Final(ctx) = Transform(end)  BY DEF Final
<1>2. ctx.chain = c /\ ctx.data = d /\ ctx.datalen = n /\ ctx.bitlen = l  BY ContextSteps
<1>3. \A upto : AsContext(Padded(ctx, upto), i, c, Filled(d, n, upto), n, l)
  <2> TAKE upto
  <2>1. Padded(ctx, upto) = [ctx EXCEPT !.data = Filled(ctx.data, ctx.datalen, upto)]
    BY DEF Padded, Filled
  <2>2. AsContext([ctx EXCEPT !.data = Filled(d, n, upto)], i, c, Filled(d, n, upto), n, l)
    BY ContextSteps
  <2> QED  BY <1>2, <2>1, <2>2
<1>4. ASSUME NEW x, NEW y, AsContext(pad, i, x, y, n, l)
      PROVE  Final(ctx).chain = Append(x, Measured(y, l + 8 * n))
  <2> DEFINE z == Measured(y, l + 8 * n)
  <2>1. bits = l + 8 * n  BY <1>2
  <2> HIDE DEF pad, bits
  <2>0. pad.data = y  BY <1>4, ContextSteps
  <2>2. end = [pad EXCEPT !.data = Measured(pad.data, bits)]  BY DEF Measured
  <2>3. end = [pad EXCEPT !.data = z]  BY <2>0, <2>1, <2>2
  <2> HIDE DEF z, end
  <2>4. AsContext([pad EXCEPT !.data = z], i, x, z, n, l)  BY <1>4, ContextSteps
  <2>5. AsContext(end, i, x, z, n, l)  BY <2>3, <2>4
  <2>6. AsContext(Transform(end), i, Append(x, z), z, n, l)  BY <2>5, ContextSteps
  <2>7. Transform(end).chain = Append(x, z)  BY <2>6, ContextSteps
  <2> QED  BY <1>1, <2>7 DEF z
<1>5. CASE n < room
  <2>1. pad = Padded(ctx, room)  BY <1>2, <1>5
  <2> HIDE DEF pad
  <2>2. AsContext(pad, i, c, Filled(d, n, room), n, l)  BY <1>3, <2>1
  <2>3. Final(ctx).chain = Append(c, Measured(Filled(d, n, room), l + 8 * n))  BY <1>4, <2>2
  <2> QED  BY <1>5, <2>3
<1>6. CASE ~ (n < room)
  <2> DEFINE p == Padded(ctx, Block)
             f == Filled(d, n, Block)
             q == Transform(p)
             e == Append(c, f)
  <2>1. pad = two  BY <1>2, <1>6
  <2>2. AsContext(p, i, c, f, n, l)  BY <1>3
  <2> HIDE DEF p, f
  <2>3. AsContext(q, i, e, f, n, l)  BY <2>2, ContextSteps
  <2> HIDE DEF q, e
  <2>4. q.data = f  BY <2>3, ContextSteps
  <2>5. two = [q EXCEPT !.data = Cleared(q.data)]  BY DEF Cleared, q, p
  <2>6. AsContext([q EXCEPT !.data = Cleared(f)], i, e, Cleared(f), n, l)  BY <2>3, ContextSteps
  <2>7. AsContext(pad, i, e, Cleared(f), n, l)  BY <2>1, <2>4, <2>5, <2>6
  <2> HIDE DEF pad
  <2>8. Final(ctx).chain = Append(e, Measured(Cleared(f), l + 8 * n))  BY <1>4, <2>7
  <2> QED  BY <1>6, <2>8 DEF e, f
<1> QED  BY <1>5, <1>6

\* What the last places of the padded message hold, seen from its last blocks.
Remains(msg, m, n, data) ==
  /\ m \in Nat /\ n \in 0 .. Block - 1 /\ Len(msg) = m + n
  /\ \A k \in 1 .. n : data[k] = msg[m + k]

\* The last block, and the last two, place by place.
LEMMA LastPlaces ==
  ASSUME NEW msg, NEW m, NEW n, NEW data, Remains(msg, m, n, data), NEW i \in 1 .. Block
  PROVE  /\ \A T \in Nat : m + Block <= T - LengthField =>
              TextAt(msg, LengthField, T, m + i) = Filled(data, n, Block)[i]
         /\ n < Block - LengthField => TextAt(msg, LengthField, m + Block, m + i)
              = Measured(Filled(data, n, Block - LengthField), 8 * Len(msg))[i]
         /\ TextAt(msg, LengthField, m + Block + Block, m + Block + i)
              = Measured(Cleared(Filled(data, n, Block)), 8 * Len(msg))[i]
<1> DEFINE L == Len(msg)
           room == Block - LengthField
<1>0. /\ m \in Nat /\ n \in 0 .. Block - 1 /\ Len(msg) = m + n
      /\ \A k \in 1 .. n : data[k] = msg[m + k]
  BY DEF Remains
<1>1. Block \in Nat /\ LengthField \in Nat \ {0} /\ room \in 1 .. Block - 1 /\ L \in Nat /\ L = m + n
      /\ i \in Nat /\ n \in Nat /\ m \in Nat /\ n \in 0 .. Block - 1
  BY <1>0, BlockAssumption
<1>2. ASSUME NEW T \in Nat, m + Block <= T - LengthField
      PROVE  TextAt(msg, LengthField, T, m + i) = Filled(data, n, Block)[i]
  <2>1. m + i <= T - LengthField  BY <1>1, <1>2
  <2>2. (m + i <= L <=> i <= n) /\ (m + i = L + 1 <=> i = n + 1) /\ ~ (i > Block)  BY <1>1
  <2>3. TextAt(msg, LengthField, T, m + i) = IF i <= n THEN msg[m + i] ELSE IF i = n + 1 THEN Stop ELSE 0
    BY <2>1, <2>2 DEF TextAt
  <2>4. Filled(data, n, Block)[i] = IF i <= n THEN data[i] ELSE IF i = n + 1 THEN Stop ELSE 0
    BY <2>2 DEF Filled
  <2>5. i <= n => data[i] = msg[m + i]  BY <1>0, <1>1
  <2> QED  BY <2>3, <2>4, <2>5
<1>3. ASSUME n < room
      PROVE  TextAt(msg, LengthField, m + Block, m + i) = Measured(Filled(data, n, room), 8 * L)[i]
  <2> DEFINE T == m + Block
             number == ((8 * L) \div Place[Block - i]) % Radix
  <2>1. /\ (m + i <= L <=> i <= n) /\ (m + i = L + 1 <=> i = n + 1) /\ (m + i <= T - LengthField <=> i <= room)
        /\ T - (m + i) = Block - i /\ (i <= n => i <= room) /\ (i = n + 1 => i <= room) /\ (i <= room => ~ (i > room))
    BY <1>1, <1>3
  <2> HIDE DEF T, room, L
  <2>2. TextAt(msg, LengthField, T, m + i) =
          IF i <= n THEN msg[m + i] ELSE IF i = n + 1 THEN Stop ELSE IF i <= room THEN 0 ELSE number
    BY <2>1 DEF TextAt, L
  <2> HIDE DEF number
  <2>3. i <= room => Filled(data, n, room)[i] = IF i <= n THEN data[i] ELSE IF i = n + 1 THEN Stop ELSE 0
    BY <2>1 DEF Filled
  <2>4. Measured(Filled(data, n, room), 8 * L)[i] = IF i <= room THEN Filled(data, n, room)[i] ELSE number
    BY DEF Measured, number, room
  <2>5. i <= n => data[i] = msg[m + i]  BY <1>0, <1>1
  <2> QED  BY <2>1, <2>2, <2>3, <2>4, <2>5 DEF T
<1> DEFINE full == Filled(data, n, Block)
<1> HIDE DEF full
<1>4. TextAt(msg, LengthField, m + Block + Block, m + Block + i) = Measured(Cleared(full), 8 * L)[i]
  <2> DEFINE T == m + Block + Block
             number == ((8 * L) \div Place[Block - i]) % Radix
  <2>1. /\ ~ (m + Block + i <= L) /\ m + Block + i # L + 1 /\ (m + Block + i <= T - LengthField <=> i <= room)
        /\ T - (m + Block + i) = Block - i
    BY <1>1
  <2> HIDE DEF T, room, L
  <2>2. TextAt(msg, LengthField, T, m + Block + i) = IF i <= room THEN 0 ELSE number
    BY <2>1 DEF TextAt, L
  <2>3. Measured(Cleared(full), 8 * L)[i] = IF i <= room THEN 0 ELSE number
    BY DEF Measured, Cleared, number, room
  <2> QED  BY <2>2, <2>3 DEF T
<1> QED  BY <1>2, <1>3, <1>4 DEF full

\* The places of an earlier block are the message's.
HoldsBlocks(msg, block, c) == block \in Nat \ {0} /\ c \in Nat /\ Len(msg) \in Nat /\ c * block <= Len(msg)

\* They do not depend on the padding.
LEMMA EarlierPlaces ==
  ASSUME NEW msg, NEW block, NEW c, HoldsBlocks(msg, block, c), NEW k \in 1 .. c, NEW i \in 1 .. block
  PROVE  /\ \A field, T : TextAt(msg, field, T, (k - 1) * block + i) = msg[(k - 1) * block + i]
         /\ (k - 1) * block + i \in 1 .. Len(msg)
<1>0. block \in Nat \ {0} /\ c \in Nat /\ Len(msg) \in Nat /\ c * block <= Len(msg)  BY DEF HoldsBlocks
<1>1. (k - 1) * block \in Nat /\ k * block \in Nat /\ (k - 1) * block + block = k * block /\ k * block <= c * block
  BY <1>0, PlacesOfABlock
<1> DEFINE p == (k - 1) * block
           q == k * block
           e == c * block
<1>2. c * block \in Nat
  <2>1. c \in 1 .. c \/ c = 0  BY <1>0
  <2> QED  BY <1>0, <2>1, PlacesOfABlock
<1>3. p \in Nat /\ q \in Nat /\ e \in Nat /\ p + block = q /\ q <= e /\ e <= Len(msg)  BY <1>0, <1>1, <1>2
<1> HIDE DEF p, q, e
<1>4. p + i <= Len(msg) /\ p + i \in 1 .. Len(msg)  BY <1>0, <1>3
<1> QED  BY <1>4 DEF TextAt, p

\* What sha256_final compresses are the standard's blocks.
LEMMA FinalIsPadding ==
  ASSUME NEW V, NEW msg \in Seq(V), NEW ctx, Absorbed(ctx, msg, Len(msg), V)
  PROVE  /\ Cut(msg, Block, LengthField, Len(ctx.chain), ctx.datalen)
         /\ Final(ctx).chain = Padding(msg, Block, LengthField, Len(ctx.chain), ctx.datalen)
<1> DEFINE chain == ctx.chain
           c == Len(chain)
           n == ctx.datalen
           data == ctx.data
           L == Len(msg)
           m == c * Block
           room == Block - LengthField
           X == Measured(Filled(data, n, room), 8 * L)
           F == Filled(data, n, Block)
           M == Measured(Cleared(F), 8 * L)
           B == [1 .. Block -> V]
           text(T, k) == [i \in 1 .. Block |-> TextAt(msg, LengthField, T, (k - 1) * Block + i)]
<1>1. /\ ctx \in Contexts(V) /\ L = m + n /\ ctx.bitlen = 8 * Block * c
      /\ \A k \in 1 .. c : chain[k] = [i \in 1 .. Block |-> msg[(k - 1) * Block + i]]
      /\ \A i \in 1 .. n : data[i] = msg[m + i]
  BY DEF Absorbed
<1>2. /\ Block \in Nat \ {0} /\ LengthField \in Nat \ {0} /\ LengthField < Block
      /\ n \in 0 .. Block - 1 /\ chain \in Seq(B)
      /\ ctx = [iv |-> ctx.iv, chain |-> chain, data |-> data, datalen |-> n, bitlen |-> ctx.bitlen]
  BY <1>1, BlockAssumption DEF Contexts
<1>3. c \in Nat /\ L \in Nat  BY <1>2, LenProperties
<1>4. m \in Nat
  <2>1. c \in 1 .. c \/ c = 0  BY <1>3
  <2> QED  BY <1>2, <1>3, <2>1, PlacesOfABlock
<1>5. ctx.bitlen + 8 * n = 8 * L
  <2>1. 8 * Block * c = 8 * m  BY <1>2, <1>3
  <2> HIDE DEF m, n, L
  <2> QED  BY <1>1, <1>2, <1>4, <2>1
<1>6. AsContext(ctx, ctx.iv, chain, data, n, ctx.bitlen)  BY <1>2 DEF AsContext
<1> HIDE DEF B
<1>7. Cut(msg, Block, LengthField, c, n)  BY <1>1, <1>2, <1>3 DEF Cut
<1>8. Final(ctx).chain = IF n < room THEN Append(chain, X) ELSE Append(Append(chain, F), M)
  BY <1>5, <1>6, FinalBlocks
<1> HIDE DEF X, F, M
<1>9. \A T : \A k \in 1 .. c : chain[k] = text(T, k)
  <2> TAKE T
  <2> TAKE k \in 1 .. c
  <2>1. m <= L  BY <1>1, <1>2, <1>4
  <2>2. \A i \in 1 .. Block : TextAt(msg, LengthField, T, (k - 1) * Block + i) = msg[(k - 1) * Block + i]
    <3> TAKE i \in 1 .. Block
    <3> HIDE DEF c, n, data, text
    <3>1. HoldsBlocks(msg, Block, c)  BY <1>2, <1>3, <2>1 DEF HoldsBlocks
    <3> QED  BY <3>1, EarlierPlaces
  <2> QED  BY <1>1, <2>2
<1> HIDE DEF c, n, data, L, room
<1>10. ASSUME NEW i \in 1 .. Block
       PROVE  /\ n < room => TextAt(msg, LengthField, m + Block, m + i) = X[i]
              /\ TextAt(msg, LengthField, m + Block + Block, m + i) = F[i]
              /\ TextAt(msg, LengthField, m + Block + Block, m + Block + i) = M[i]
  <2>1. Len(msg) = m + n /\ \A k \in 1 .. n : data[k] = msg[m + k]  BY <1>1 DEF L
  <2>2. Remains(msg, m, n, data)  BY <1>2, <1>4, <2>1 DEF Remains
  <2>3. m + Block + Block \in Nat /\ m + Block <= (m + Block + Block) - LengthField  BY <1>2, <1>4
  <2> HIDE DEF m
  <2>4. n < Block - LengthField => TextAt(msg, LengthField, m + Block, m + i)
              = Measured(Filled(data, n, Block - LengthField), 8 * Len(msg))[i]
    BY <2>2, LastPlaces
  <2>5. TextAt(msg, LengthField, m + Block + Block, m + Block + i)
          = Measured(Cleared(Filled(data, n, Block)), 8 * Len(msg))[i]
    BY <2>2, LastPlaces
  <2>6. \A T \in Nat : m + Block <= T - LengthField =>
          TextAt(msg, LengthField, T, m + i) = Filled(data, n, Block)[i]
    BY <2>2, LastPlaces
  <2> QED  BY <2>3, <2>4, <2>5, <2>6 DEF X, F, M, L, room
<1>11. ((c + 1) - 1) * Block = m /\ ((c + 2) - 1) * Block = m + Block /\ (c + 1) * Block = m + Block
       /\ (c + 2) * Block = m + Block + Block
  <2>1. c \in Nat /\ Block \in Nat  BY <1>2, <1>3
  <2>2. (c + 1) - 1 = c /\ (c + 2) - 1 = c + 1  BY <2>1
  <2>3. (c + 1) * Block = m + Block  BY <2>1
  <2>4. (c + 2) * Block = m + Block + Block  BY <2>1
  <2> QED  BY <2>2, <2>3, <2>4
<1>12. X = [i \in 1 .. Block |-> X[i]] /\ F = [i \in 1 .. Block |-> F[i]] /\ M = [i \in 1 .. Block |-> M[i]]
  BY DEF X, F, M, Measured, Filled
<1>13. /\ n < room => X = text((c + 1) * Block, c + 1)
       /\ F = text((c + 2) * Block, c + 1) /\ M = text((c + 2) * Block, c + 2)
  <2> HIDE DEF m
  <2>1. n < room => \A i \in 1 .. Block : X[i] = TextAt(msg, LengthField, (c + 1) * Block, ((c + 1) - 1) * Block + i)
    BY <1>10, <1>11
  <2>2. \A i \in 1 .. Block : F[i] = TextAt(msg, LengthField, (c + 2) * Block, ((c + 1) - 1) * Block + i)
    BY <1>10, <1>11
  <2>3. \A i \in 1 .. Block : M[i] = TextAt(msg, LengthField, (c + 2) * Block, ((c + 2) - 1) * Block + i)
    BY <1>10, <1>11
  <2> QED  BY <1>12, <2>1, <2>2, <2>3
<1> HIDE DEF text, m
<1>14. /\ Append(chain, X) = [k \in 1 .. c + 1 |-> IF k = c + 1 THEN X ELSE chain[k]]
       /\ Append(chain, F) \in Seq(B \cup {F}) /\ Len(Append(chain, F)) = c + 1
       /\ Append(chain, F) = [k \in 1 .. c + 1 |-> IF k = c + 1 THEN F ELSE chain[k]]
  BY <1>2, AppendedTo DEF c
<1>15. CASE n < room
  <2>1. \A k \in 1 .. c + 1 : (IF k = c + 1 THEN X ELSE chain[k]) = text((c + 1) * Block, k)
    <3>1. \A k \in 1 .. c + 1 : k = c + 1 \/ k \in 1 .. c  BY <1>3
    <3> QED  BY <1>9, <1>13, <1>15, <3>1
  <2>2. Append(chain, X) = [k \in 1 .. c + 1 |-> text((c + 1) * Block, k)]  BY <1>14, <2>1
  <2>3. Padding(msg, Block, LengthField, c, n) = [k \in 1 .. c + 1 |-> text((c + 1) * Block, k)]
    BY <1>15 DEF Padding, text, room
  <2> QED  BY <1>7, <1>8, <1>15, <2>2, <2>3 DEF c, n
<1>16. CASE ~ (n < room)
  <2> DEFINE two == Append(chain, F)
  <2>1. two \in Seq(B \cup {F}) /\ Len(two) = c + 1  BY <1>14
  <2>2. \A k \in 1 .. c + 1 : two[k] = text((c + 2) * Block, k)
    <3>1. \A k \in 1 .. c + 1 : k = c + 1 \/ k \in 1 .. c  BY <1>3
    <3> QED  BY <1>9, <1>13, <1>14, <3>1
  <2> HIDE DEF two
  <2>3. Append(two, M) = [k \in 1 .. (c + 1) + 1 |-> IF k = (c + 1) + 1 THEN M ELSE two[k]]
    <3>1. Append(two, M) = [k \in 1 .. Len(two) + 1 |-> IF k = Len(two) + 1 THEN M ELSE two[k]]
      BY <2>1, AppendedTo
    <3> QED  BY <2>1, <3>1
  <2>4. (c + 1) + 1 = c + 2 /\ \A k \in 1 .. c + 2 : k = c + 2 \/ k \in 1 .. c + 1  BY <1>3
  <2>5. \A k \in 1 .. c + 2 : (IF k = c + 2 THEN M ELSE two[k]) = text((c + 2) * Block, k)
    BY <1>13, <2>2, <2>4
  <2>6. Append(two, M) = [k \in 1 .. c + 2 |-> text((c + 2) * Block, k)]  BY <2>3, <2>4, <2>5
  <2>7. Padding(msg, Block, LengthField, c, n) = [k \in 1 .. c + 2 |-> text((c + 2) * Block, k)]
    BY <1>16 DEF Padding, text, room
  <2> QED  BY <1>7, <1>8, <1>16, <2>6, <2>7 DEF c, n, two
<1> QED  BY <1>15, <1>16

\* A context that has absorbed nothing.
LEMMA NothingAbsorbed ==
  ASSUME NEW V, NEW msg, NEW iv \in {"sha256", "sha224"}, Junk \in V
  PROVE  Absorbed(Init256(iv), msg, 0, V)
<1> DEFINE ctx == Init256(iv)
           data == [k \in 1 .. Block |-> Junk]
           B == [1 .. Block -> V]
<1>1. Block \in Nat \ {0}  BY BlockAssumption
<1>2. ctx = [iv |-> iv, chain |-> <<>>, data |-> data, datalen |-> 0, bitlen |-> 0]  BY DEF Init256
<1>3. data \in B  OBVIOUS
<1> HIDE DEF data, B
<1>4. <<>> \in Seq(B) /\ Len(<<>>) = 0  OBVIOUS
<1>5. ctx \in Contexts(V)
  <2>1. 0 \in 0 .. Block - 1 /\ 0 \in Nat  BY <1>1
  <2> HIDE DEF ctx
  <2> QED  BY <1>2, <1>3, <1>4, <2>1 DEF Contexts, B
<1>6. ctx.chain = <<>> /\ ctx.datalen = 0 /\ ctx.bitlen = 0  BY <1>2
<1> HIDE DEF ctx
<1>7. Len(ctx.chain) = 0 /\ 0 * Block + 0 = 0 /\ 8 * Block * 0 = 0  BY <1>1, <1>4, <1>6
<1> QED  BY <1>5, <1>6, <1>7 DEF Absorbed, ctx

\* A digest of 32 bytes or fewer, from a context that has absorbed the message.
LEMMA SmallIsStandard ==
  ASSUME NEW V, NEW msg \in Seq(V), NEW ctx, Absorbed(ctx, msg, Len(msg), V)
  PROVE  Final(ctx).chain = StandardChain(msg, Block, LengthField)
<1>1. /\ Cut(msg, Block, LengthField, Len(ctx.chain), ctx.datalen)
      /\ Final(ctx).chain = Padding(msg, Block, LengthField, Len(ctx.chain), ctx.datalen)
  BY FinalIsPadding
<1>2. StandardChain(msg, Block, LengthField) = Padding(msg, Block, LengthField, Len(ctx.chain), ctx.datalen)
  BY <1>1, StandardIsPadding
<1> QED  BY <1>1, <1>2

\* The whole message in one call.
LEMMA WholeIsStandard ==
  ASSUME NEW V, Junk \in V, NEW msg \in Seq(V), NEW iv \in {"sha256", "sha224"}
  PROVE  Final(Update(Init256(iv), msg)).chain = StandardChain(msg, Block, LengthField)
<1> DEFINE ctx == Init256(iv)
           L == Len(msg)
<1>1. L \in Nat /\ 0 \in 0 .. L /\ L \in 0 .. L  BY LenProperties
<1>2. SubSeq(msg, 0 + 1, L) = msg
  <2>1. SubSeq(msg, 1, Len(msg)) = msg  OBVIOUS
  <2> QED  BY <2>1
<1>3. Absorbed(ctx, msg, 0, V)  BY NothingAbsorbed
<1> HIDE DEF ctx
<1>4. Absorbed(Update(ctx, SubSeq(msg, 0 + 1, L)), msg, L, V)  BY <1>1, <1>3, UpdateAbsorbs
<1>5. Absorbed(Update(ctx, msg), msg, Len(msg), V)  BY <1>2, <1>4
<1> QED  BY <1>5, SmallIsStandard DEF ctx

\* The message in three pieces.
LEMMA PiecesAreStandard ==
  ASSUME NEW V, Junk \in V, NEW msg \in Seq(V), NEW i \in 0 .. Len(msg), NEW j \in i .. Len(msg)
  PROVE  Final(Update(Update(Update(Init256("sha256"), SubSeq(msg, 0 + 1, i)), SubSeq(msg, i + 1, j)),
                      SubSeq(msg, j + 1, Len(msg)))).chain = StandardChain(msg, Block, LengthField)
<1> DEFINE L == Len(msg)
           a == Init256("sha256")
           b == Update(a, SubSeq(msg, 0 + 1, i))
           c == Update(b, SubSeq(msg, i + 1, j))
           d == Update(c, SubSeq(msg, j + 1, L))
<1>1. L \in Nat /\ 0 \in 0 .. L /\ i \in 0 .. L /\ j \in i .. L /\ j \in 0 .. L /\ L \in j .. L
  BY LenProperties
<1>2. Absorbed(a, msg, 0, V)  BY NothingAbsorbed
<1> HIDE DEF a
<1>3. Absorbed(b, msg, i, V)  BY <1>1, <1>2, UpdateAbsorbs
<1> HIDE DEF b
<1>4. Absorbed(c, msg, j, V)  BY <1>1, <1>3, UpdateAbsorbs
<1> HIDE DEF c
<1>5. Absorbed(d, msg, L, V)  BY <1>1, <1>4, UpdateAbsorbs
<1> HIDE DEF d
<1>6. Final(d).chain = StandardChain(msg, Block, LengthField)  BY <1>5, SmallIsStandard
<1> QED  BY <1>6 DEF a, b, c, d
-----------------------------------------------------------------------------
(* SHA-512: the whole message at once.                                     *)

\* A number below a place has nothing in the places above it.
LEMMA NothingAbove ==
  ASSUME NEW f \in Nat, NEW x \in Nat, x < Place[f], NEW j \in Nat, f <= j
  PROVE  (x \div Place[j]) % Radix = 0
<1> DEFINE H == {k \in Nat : Place[f] <= Place[f + k]}
<1>1. 0 \in H
  <2>1. f + 0 = f /\ Place[f] \in Nat  BY PlaceRuns
  <2> QED  BY <2>1
<1>2. ASSUME NEW k \in Nat, k \in H PROVE k + 1 \in H
  <2>1. f + k \in Nat /\ f + (k + 1) = (f + k) + 1  OBVIOUS
  <2>2. /\ Place[(f + k) + 1] = Radix * Place[f + k] /\ Place[f + k] \in Nat \ {0} /\ Place[f] \in Nat
        /\ Place[f] <= Place[f + k]
    BY <1>2, <2>1, PlaceRuns
  <2> DEFINE p == Place[f + k]
             o == Place[f]
  <2> HIDE DEF p, o
  <2>3. o <= Radix * p  BY <2>2 DEF Radix, p, o
  <2> QED  BY <2>1, <2>2, <2>3 DEF p, o
<1>3. j - f \in Nat /\ f + (j - f) = j  OBVIOUS
<1>4. j - f \in H
  <2> HIDE DEF H
  <2> QED  BY <1>1, <1>2, <1>3, NumbersFrom0
<1>5. Place[j] \in Nat \ {0} /\ Place[f] \in Nat /\ Place[f] <= Place[j]  BY <1>3, <1>4, PlaceRuns
<1> DEFINE p == Place[j]
<1>6. p \in Nat \ {0} /\ x \in 0 .. p - 1 /\ x = 0 * p + x  BY <1>5
<1>7. Division(x, p, 0, x)  BY <1>6 DEF Division
<1>8. x \div p = 0  BY <1>7, DividedOnce
<1>9. 0 % Radix = 0  BY DEF Radix
<1> QED  BY <1>8, <1>9

\* A block of a text, place by place.
LEMMA BlockOfText ==
  ASSUME NEW W, NEW text \in Seq(W), NEW block, NEW c, HoldsBlocks(text, block, c), NEW k \in 1 .. c
  PROVE  SubSeq(text, (k - 1) * block + 1, k * block) = [i \in 1 .. block |-> text[(k - 1) * block + i]]
<1> DEFINE from == (k - 1) * block
           to == k * block
           s == SubSeq(text, from + 1, to)
<1>1. block \in Nat \ {0} /\ c \in Nat /\ Len(text) \in Nat  BY DEF HoldsBlocks
<1>2. from \in Nat /\ to \in Nat /\ from + block = to  BY <1>1, PlacesOfABlock
<1>3. \A i \in 1 .. block : from + i \in 1 .. Len(text)  BY EarlierPlaces
<1> HIDE DEF from, to
<1>4. \A i \in from + 1 .. to : text[i] \in W
  <2> TAKE i \in from + 1 .. to
  <2>1. i - from \in 1 .. block /\ from + (i - from) = i  BY <1>1, <1>2
  <2>2. i \in 1 .. Len(text)  BY <1>3, <2>1
  <2> QED  BY <2>2, ElementOfSeq
<1>5. from + 1 \in Int /\ to \in Int /\ to - (from + 1) + 1 = block /\ from + 1 <= to  BY <1>1, <1>2
<1>6. s \in Seq(W) /\ Len(s) = block /\ \A i \in 1 .. block : s[i] = text[(from + 1) + i - 1]
  BY <1>4, <1>5, SubSeqProperties
<1> HIDE DEF s
<1>7. \A i \in 1 .. block : s[i] = text[from + i]
  <2> TAKE i \in 1 .. block
  <2>1. (from + 1) + i - 1 = from + i  BY <1>1, <1>2
  <2> QED  BY <1>6, <2>1
<1>8. s = [i \in 1 .. block |-> s[i]]
  <2>1. DOMAIN s = 1 .. block /\ s = [i \in DOMAIN s |-> s[i]]  BY <1>6, LenProperties
  <2> QED  BY <2>1
<1> QED  BY <1>7, <1>8 DEF s, from, to

\* The last blocks of sha512_core, place by place, are the standard's.
Tail512(msg, m, n) ==
  [k \in 1 .. Block512 |-> IF k <= n THEN msg[m + k] ELSE IF k = n + 1 THEN Stop ELSE 0]
Ended512(last, bits) ==
  [k \in 1 .. Block512 |->
     IF k > Block512 - LengthField THEN (bits \div Place[Block512 - k]) % Radix ELSE last[k]]

\* What sha512_core has left when the full blocks are through.
Remains512(msg, m, n) ==
  m \in Nat /\ n \in 0 .. Block512 - 1 /\ Len(msg) = m + n /\ 8 * Len(msg) < Place[LengthField]

\* Its last block, or its last two.
LEMMA LastPlaces512 ==
  ASSUME NEW msg, NEW m, NEW n, Remains512(msg, m, n), NEW i \in 1 .. Block512
  PROVE  /\ n < Block512 - Length512 => TextAt(msg, Length512, m + Block512, m + i)
              = Ended512(Tail512(msg, m, n), 8 * Len(msg))[i]
         /\ TextAt(msg, Length512, m + Block512 + Block512, m + i) = Tail512(msg, m, n)[i]
         /\ TextAt(msg, Length512, m + Block512 + Block512, m + Block512 + i)
              = Ended512([k \in 1 .. Block512 |-> 0], 8 * Len(msg))[i]
<1> DEFINE L == Len(msg)
           N == Block512
           room == N - Length512
           number == ((8 * L) \div Place[N - i]) % Radix
           tail == Tail512(msg, m, n)
           zeros == [k \in 1 .. N |-> 0]
<1>1. m \in Nat /\ n \in 0 .. N - 1 /\ L = m + n /\ 8 * L < Place[LengthField]  BY DEF Remains512
<1>2. /\ N \in Nat /\ LengthField \in Nat \ {0} /\ room \in 1 .. N - 2 /\ room < N - LengthField
      /\ Length512 \in Nat /\ N - LengthField \in Nat
  BY BlockAssumption DEF Block512, Length512
<1>3. i \in 1 .. N /\ i \in Nat /\ n \in Nat /\ L \in Nat  BY <1>1, <1>2
<1>4. i <= N - LengthField => number = 0
  <2>1. SUFFICES ASSUME i <= N - LengthField PROVE number = 0  OBVIOUS
  <2>2. N - i \in Nat /\ LengthField <= N - i /\ LengthField \in Nat /\ 8 * L \in Nat  BY <1>2, <1>3, <2>1
  <2> DEFINE x == 8 * L
             j == N - i
  <2>3. j \in Nat /\ LengthField <= j /\ LengthField \in Nat /\ x \in Nat /\ x < Place[LengthField]
    BY <1>1, <2>2
  <2> HIDE DEF x, j
  <2>4. (x \div Place[j]) % Radix = 0  BY <2>3, NothingAbove
  <2> QED  BY <2>4 DEF x, j
<1>5. tail[i] = IF i <= n THEN msg[m + i] ELSE IF i = n + 1 THEN Stop ELSE 0  BY DEF Tail512
<1>6. \A last : Ended512(last, 8 * L)[i] = IF i > N - LengthField THEN number ELSE last[i]
  BY DEF Ended512
<1> HIDE DEF number, tail
<1>7. ASSUME n < room PROVE TextAt(msg, Length512, m + N, m + i) = Ended512(tail, 8 * L)[i]
  <2> DEFINE T == m + N
  <2>1. /\ (m + i <= L <=> i <= n) /\ (m + i = L + 1 <=> i = n + 1) /\ (m + i <= T - Length512 <=> i <= room)
        /\ T - (m + i) = N - i
        /\ (i > N - LengthField => ~ (i <= n) /\ i # n + 1 /\ ~ (i <= room))
        /\ (~ (i > N - LengthField) => i <= N - LengthField)
    BY <1>1, <1>2, <1>3, <1>7
  <2> HIDE DEF T, room, L, N
  <2>2. TextAt(msg, Length512, T, m + i) =
          IF i <= n THEN msg[m + i] ELSE IF i = n + 1 THEN Stop ELSE IF i <= room THEN 0 ELSE number
    BY <2>1 DEF TextAt, L, number
  <2>3. Ended512(tail, 8 * L)[i] = IF i > N - LengthField THEN number ELSE tail[i]  BY <1>6
  <2> QED  BY <1>4, <1>5, <2>1, <2>2, <2>3 DEF T
<1>8. TextAt(msg, Length512, m + N + N, m + i) = tail[i]
  <2>1. /\ (m + i <= L <=> i <= n) /\ (m + i = L + 1 <=> i = n + 1) /\ m + i <= (m + N + N) - Length512
    BY <1>1, <1>2, <1>3
  <2> HIDE DEF L, N
  <2> QED  BY <1>5, <2>1 DEF TextAt, L
<1>9. TextAt(msg, Length512, m + N + N, m + N + i) = Ended512(zeros, 8 * L)[i]
  <2> DEFINE T == m + N + N
  <2>1. /\ ~ (m + N + i <= L) /\ m + N + i # L + 1 /\ (m + N + i <= T - Length512 <=> i <= room)
        /\ T - (m + N + i) = N - i
        /\ (i > N - LengthField => ~ (i <= room)) /\ (~ (i > N - LengthField) => i <= N - LengthField)
    BY <1>1, <1>2, <1>3
  <2>2. zeros[i] = 0  OBVIOUS
  <2> HIDE DEF T, room, L, N, zeros
  <2>3. TextAt(msg, Length512, T, m + N + i) = IF i <= room THEN 0 ELSE number
    BY <2>1 DEF TextAt, L, number
  <2>4. Ended512(zeros, 8 * L)[i] = IF i > N - LengthField THEN number ELSE zeros[i]  BY <1>6
  <2> QED  BY <1>4, <2>1, <2>2, <2>3, <2>4 DEF T
<1> QED  BY <1>7, <1>8, <1>9 DEF tail

\* A digest of more than 32 bytes, for a message whose bits the low half of the length can count.
LEMMA LargeIsStandard ==
  ASSUME NEW V, NEW msg \in Seq(V), 8 * Len(msg) < Place[LengthField], NEW iv, NEW words
  PROVE  Sha512Core(iv, msg, words).chain = StandardChain(msg, Block512, Length512)
<1> DEFINE L == Len(msg)
           N == Block512
           G == Length512
           q == L \div N
           r == L % N
           m == q * N
           last512 == [k \in 1 .. N |-> IF k <= r THEN msg[m + k] ELSE IF k = r + 1 THEN Stop ELSE 0]
           split == r >= N - G
           zeros == [k \in 1 .. N |-> 0]
           last == IF split THEN zeros ELSE last512
           bits == 8 * L
           ended == [k \in 1 .. N |->
                       IF k > N - LengthField THEN (bits \div Place[N - k]) % Radix ELSE last[k]]
           whole == [k \in 1 .. q |-> SubSeq(msg, (k - 1) * N + 1, k * N)]
           tail == Tail512(msg, m, r)
           one == Ended512(tail, 8 * L)
           two == Ended512(zeros, 8 * L)
           chain == whole \o (IF split THEN <<last512, ended>> ELSE <<ended>>)
           text(T, k) == [i \in 1 .. N |-> TextAt(msg, G, T, (k - 1) * N + i)]
<1>1. Sha512Core(iv, msg, words).chain = chain  BY DEF Sha512Core, Digest
<1>2. last512 = tail /\ ended = Ended512(last, bits)  BY DEF Tail512, Ended512
<1>3. /\ N \in Nat \ {0} /\ G \in Nat \ {0} /\ G < N
  BY BlockAssumption DEF Block512, Length512
<1>4. L \in Nat  BY LenProperties
<1> HIDE DEF last512, ended, whole, tail, zeros
<1>5. q \in Nat /\ r \in 0 .. N - 1 /\ L = m + r /\ m \in Nat
  <2>1. L \in Int /\ N \in Nat \ {0}  BY <1>3, <1>4
  <2> HIDE DEF L, N
  <2>2. q \in Int /\ r \in 0 .. N - 1 /\ L = q * N + r  BY <2>1
  <2> HIDE DEF q, r
  <2>3. 0 <= q
    <3>1. SUFFICES ASSUME q + 1 <= 0 PROVE FALSE  BY <2>2
    <3>2. (q + 1) * N <= 0 * N  BY <2>1, <2>2, <3>1, ProductsGrow
    <3>3. (q + 1) * N = q * N + N /\ 0 * N = 0  BY <2>1, <2>2
    <3> DEFINE p == q * N
    <3>4. p \in Int  BY <2>1, <2>2
    <3> HIDE DEF p
    <3>5. p + N <= 0 /\ L = p + r /\ L \in Nat /\ r < N /\ r \in Int  BY <1>4, <2>1, <2>2, <3>2, <3>3 DEF p, L
    <3> QED  BY <2>1, <3>4, <3>5
  <2>4. q \in 1 .. q \/ q = 0  BY <2>2, <2>3
  <2>5. q * N \in Nat  BY <2>1, <2>2, <2>3, <2>4, PlacesOfABlock
  <2> QED  BY <2>2, <2>3, <2>5
<1> HIDE DEF L, N, G, q, r, m
<1>6. Cut(msg, N, G, q, r)  BY <1>3, <1>5 DEF Cut, L, m
<1>7. StandardChain(msg, N, G) = Padding(msg, N, G, q, r)  BY <1>6, StandardIsPadding
<1>8. Remains512(msg, m, r)  BY <1>3, <1>5 DEF Remains512, L, N
<1>9. \A T : \A k \in 1 .. q : whole[k] = text(T, k)
  <2> TAKE T
  <2> TAKE k \in 1 .. q
  <2>1. m <= L  BY <1>5
  <2>2. HoldsBlocks(msg, N, q)  BY <1>3, <1>4, <1>5, <2>1 DEF HoldsBlocks, L, m
  <2>3. \A i \in 1 .. N : TextAt(msg, G, T, (k - 1) * N + i) = msg[(k - 1) * N + i]
    <3> TAKE i \in 1 .. N
    <3> QED  BY <2>2, EarlierPlaces
  <2>4. SubSeq(msg, (k - 1) * N + 1, k * N) = [i \in 1 .. N |-> msg[(k - 1) * N + i]]
    BY <2>2, BlockOfText
  <2>5. whole[k] = SubSeq(msg, (k - 1) * N + 1, k * N)  BY DEF whole
  <2> QED  BY <2>3, <2>4, <2>5
<1>10. ASSUME NEW i \in 1 .. N
       PROVE  /\ r < N - G => TextAt(msg, G, m + N, m + i) = one[i]
              /\ TextAt(msg, G, m + N + N, m + i) = tail[i]
              /\ TextAt(msg, G, m + N + N, m + N + i) = two[i]
  BY <1>8, LastPlaces512 DEF N, G, L, tail, zeros
<1>11. ((q + 1) - 1) * N = m /\ ((q + 2) - 1) * N = m + N /\ (q + 1) * N = m + N /\ (q + 2) * N = m + N + N
  <2>1. q \in Nat /\ N \in Nat  BY <1>3, <1>5
  <2>2. (q + 1) - 1 = q /\ (q + 2) - 1 = q + 1  BY <2>1
  <2>3. (q + 1) * N = m + N  BY <2>1 DEF m
  <2>4. (q + 2) * N = m + N + N  BY <2>1 DEF m
  <2> QED  BY <2>2, <2>3, <2>4 DEF m
<1>12. one = [i \in 1 .. N |-> one[i]] /\ tail = [i \in 1 .. N |-> tail[i]] /\ two = [i \in 1 .. N |-> two[i]]
  BY DEF Ended512, Tail512, tail, N
<1> HIDE DEF one, two
<1>13. /\ r < N - G => one = text((q + 1) * N, q + 1)
       /\ tail = text((q + 2) * N, q + 1) /\ two = text((q + 2) * N, q + 2)
  <2>1. r < N - G => \A i \in 1 .. N : one[i] = TextAt(msg, G, (q + 1) * N, ((q + 1) - 1) * N + i)
    BY <1>10, <1>11
  <2>2. \A i \in 1 .. N : tail[i] = TextAt(msg, G, (q + 2) * N, ((q + 1) - 1) * N + i)
    BY <1>10, <1>11
  <2>3. \A i \in 1 .. N : two[i] = TextAt(msg, G, (q + 2) * N, ((q + 2) - 1) * N + i)
    BY <1>10, <1>11
  <2> QED  BY <1>12, <2>1, <2>2, <2>3
<1> HIDE DEF text
<1> DEFINE W == {whole[k] : k \in 1 .. q} \cup {one, two, tail}
<1>14. whole \in Seq(W) /\ Len(whole) = q
  <2>1. whole \in [1 .. q -> W]  BY DEF whole
  <2> HIDE DEF W
  <2> QED  BY <1>5, <2>1
<1>15. one \in W /\ two \in W /\ tail \in W  OBVIOUS
<1> HIDE DEF W
<1>16. CASE r < N - G
  <2>1. ~ split  BY <1>3, <1>5, <1>16
  <2>2. ended = one /\ chain = whole \o <<ended>>  BY <1>2, <2>1 DEF one, L
  <2>3. <<one>> \in Seq(W) /\ Len(<<one>>) = 1 /\ <<one>>[1] = one  BY <1>15
  <2> DEFINE rest == <<one>>
  <2> HIDE DEF rest
  <2>4. /\ whole \o rest \in Seq(W) /\ Len(whole \o rest) = Len(whole) + Len(rest)
        /\ \A k \in 1 .. Len(whole) + Len(rest) :
             (whole \o rest)[k] = IF k <= Len(whole) THEN whole[k] ELSE rest[k - Len(whole)]
    BY <1>14, <2>3, ConcatProperties DEF rest
  <2> DEFINE all == whole \o rest
  <2>5. all = [k \in 1 .. q + 1 |-> all[k]]
    <3>1. all \in Seq(W) /\ Len(all) = q + 1  BY <1>14, <2>3, <2>4 DEF rest
    <3> HIDE DEF all
    <3> QED  BY <3>1, LenProperties
  <2>6. \A k \in 1 .. q + 1 : all[k] = text((q + 1) * N, k)
    <3> TAKE k \in 1 .. q + 1
    <3>1. all[k] = IF k <= q THEN whole[k] ELSE rest[k - q]  BY <1>14, <2>3, <2>4 DEF rest
    <3>2. CASE k \in 1 .. q  BY <1>5, <1>9, <3>1, <3>2
    <3>3. CASE k = q + 1
      <4>1. ~ (k <= q) /\ k - q = 1  BY <1>5, <3>3
      <4> QED  BY <1>13, <1>16, <2>3, <3>1, <3>3, <4>1 DEF rest
    <3>4. k \in 1 .. q \/ k = q + 1  BY <1>5
    <3> QED  BY <3>2, <3>3, <3>4
  <2>7. Padding(msg, N, G, q, r) = [k \in 1 .. q + 1 |-> text((q + 1) * N, k)]
    BY <1>16 DEF Padding, text
  <2>8. chain = all  BY <2>2 DEF rest
  <2> HIDE DEF all, chain
  <2> QED  BY <1>1, <1>7, <2>5, <2>6, <2>7, <2>8 DEF N, G
<1>17. CASE ~ (r < N - G)
  <2>1. split  BY <1>3, <1>5, <1>17
  <2>2. ended = two /\ last512 = tail /\ chain = whole \o <<last512, ended>>
    BY <1>2, <2>1 DEF two, L
  <2>3. /\ <<tail, two>> \in Seq(W) /\ Len(<<tail, two>>) = 2 /\ <<tail, two>>[1] = tail
        /\ <<tail, two>>[2] = two
    BY <1>15
  <2> DEFINE rest == <<tail, two>>
  <2> HIDE DEF rest
  <2>4. /\ whole \o rest \in Seq(W) /\ Len(whole \o rest) = Len(whole) + Len(rest)
        /\ \A k \in 1 .. Len(whole) + Len(rest) :
             (whole \o rest)[k] = IF k <= Len(whole) THEN whole[k] ELSE rest[k - Len(whole)]
    BY <1>14, <2>3, ConcatProperties DEF rest
  <2> DEFINE all == whole \o rest
  <2>5. all = [k \in 1 .. q + 2 |-> all[k]]
    <3>1. all \in Seq(W) /\ Len(all) = q + 2  BY <1>14, <2>3, <2>4 DEF rest
    <3> HIDE DEF all
    <3> QED  BY <3>1, LenProperties
  <2>6. \A k \in 1 .. q + 2 : all[k] = text((q + 2) * N, k)
    <3> TAKE k \in 1 .. q + 2
    <3>1. all[k] = IF k <= q THEN whole[k] ELSE rest[k - q]  BY <1>14, <2>3, <2>4 DEF rest
    <3>2. CASE k \in 1 .. q  BY <1>5, <1>9, <3>1, <3>2
    <3>3. CASE k = q + 1
      <4>1. ~ (k <= q) /\ k - q = 1  BY <1>5, <3>3
      <4> QED  BY <1>13, <2>3, <3>1, <3>3, <4>1 DEF rest
    <3>4. CASE k = q + 2
      <4>1. ~ (k <= q) /\ k - q = 2  BY <1>5, <3>4
      <4> QED  BY <1>13, <2>3, <3>1, <3>4, <4>1 DEF rest
    <3>5. k \in 1 .. q \/ k = q + 1 \/ k = q + 2  BY <1>5
    <3> QED  BY <3>2, <3>3, <3>4, <3>5
  <2>7. Padding(msg, N, G, q, r) = [k \in 1 .. q + 2 |-> text((q + 2) * N, k)]
    BY <1>17 DEF Padding, text
  <2>8. chain = all  BY <2>2 DEF rest
  <2> HIDE DEF all, chain
  <2> QED  BY <1>1, <1>7, <2>5, <2>6, <2>7, <2>8 DEF N, G
<1> QED  BY <1>16, <1>17
-----------------------------------------------------------------------------
(* Float128: the widths, the length of a number and the significand.       *)

\* A greater exponent, a greater power.
LEMMA PowersGrow ==
  ASSUME NEW j \in Nat, NEW k \in Nat, j <= k
  PROVE  Power[j] <= Power[k] /\ (j < k => 2 * Power[j] <= Power[k])
<1>1. \A i, d \in Nat : Power[i] <= Power[i + d]
  <2> TAKE i, d \in Nat
  <2>1. Power[i] \in Nat /\ Power[d] \in Nat \ {0}  BY PowerRuns
  <2>2. 1 * Power[i] <= Power[d] * Power[i]  BY <2>1, ProductsGrow
  <2>3. Power[d] * Power[i] = Power[i] * Power[d]  BY <2>1
  <2>4. Power[i + d] = Power[i] * Power[d]  BY PowersMultiply
  <2> QED  BY <2>1, <2>2, <2>3, <2>4
<1>2. Power[j] <= Power[k]
  <2>1. k - j \in Nat /\ j + (k - j) = k  OBVIOUS
  <2> QED  BY <1>1, <2>1
<1>3. ASSUME j < k PROVE 2 * Power[j] <= Power[k]
  <2>1. j + 1 \in Nat /\ k - (j + 1) \in Nat /\ (j + 1) + (k - (j + 1)) = k  BY <1>3
  <2>2. Power[j + 1] <= Power[k]  BY <1>1, <2>1
  <2>3. Power[j + 1] = 2 * Power[j]  BY PowerRuns
  <2> QED  BY <2>2, <2>3
<1> QED  BY <1>2, <1>3

\* The least significand with its implicit bit.
Hidden == Power[MantBits]

\* The widths and what is made of them.
FloatWidths ==
  /\ MantBits \in Nat \ {0} /\ ExpBits \in Nat \ {0} /\ WordBits \in Nat /\ MantBits + 2 <= WordBits
  /\ DMantBits \in Nat \ {0} /\ DMantBits < MantBits
  /\ Hidden \in Nat \ {0} /\ Power[MantBits + 1] = 2 * Hidden /\ Power[MantBits + 2] = 4 * Hidden
  /\ Bias \in Nat /\ MantBits <= Bias /\ ExpMask = 2 * Bias + 1 /\ Power[ExpBits] = ExpMask + 1
  /\ DBias \in Nat /\ DBias <= Bias /\ DExpMask = 2 * DBias + 1

\* Every format that WidthAssumption allows has such widths.
LEMMA WidthsAreSound == FloatWidths
<1>1. /\ MantBits \in Nat \ {0} /\ ExpBits \in Nat \ {0} /\ WordBits \in Nat /\ MantBits + 2 <= WordBits
      /\ DMantBits \in Nat \ {0} /\ DMantBits < MantBits /\ DExpBits \in Nat \ {0} /\ DExpBits <= ExpBits
      /\ MantBits <= Bias
  BY WidthAssumption
<1>2. Hidden \in Nat \ {0} /\ Power[MantBits + 1] = 2 * Hidden  BY <1>1, PowerRuns DEF Hidden
<1>3. Power[MantBits + 2] = 4 * Hidden
  <2>1. MantBits + 1 \in Nat /\ (MantBits + 1) + 1 = MantBits + 2  BY <1>1
  <2>2. Power[MantBits + 2] = 2 * Power[MantBits + 1]  BY <2>1, PowerRuns
  <2> QED  BY <1>2, <2>2
<1>4. ASSUME NEW n \in Nat \ {0}
      PROVE  Power[n - 1] \in Nat \ {0} /\ Power[n] = 2 * Power[n - 1]
  <2>1. n - 1 \in Nat /\ (n - 1) + 1 = n  OBVIOUS
  <2> QED  BY <2>1, PowerRuns
<1>5. Bias \in Nat /\ ExpMask = 2 * Bias + 1 /\ Power[ExpBits] = ExpMask + 1
  <2>1. Power[ExpBits - 1] \in Nat \ {0} /\ Power[ExpBits] = 2 * Power[ExpBits - 1]  BY <1>1, <1>4
  <2> QED  BY <2>1 DEF Bias, ExpMask
<1>6. DBias \in Nat /\ DExpMask = 2 * DBias + 1
  <2>1. Power[DExpBits - 1] \in Nat \ {0} /\ Power[DExpBits] = 2 * Power[DExpBits - 1]  BY <1>1, <1>4
  <2> QED  BY <2>1 DEF DBias, DExpMask
<1>7. DBias <= Bias
  <2>1. DExpBits - 1 \in Nat /\ ExpBits - 1 \in Nat /\ DExpBits - 1 <= ExpBits - 1  BY <1>1
  <2>2. Power[DExpBits - 1] <= Power[ExpBits - 1]  BY <2>1, PowersGrow
  <2>3. Power[DExpBits - 1] \in Nat /\ Power[ExpBits - 1] \in Nat  BY <2>1, PowerRuns
  <2> QED  BY <2>2, <2>3 DEF DBias, Bias
<1> QED  BY <1>1, <1>2, <1>3, <1>5, <1>6, <1>7 DEF FloatWidths

\* The place of the leading bit is the one that bounds the number.
LEMMA LengthOfANumber ==
  ASSUME NEW n \in Nat, NEW k \in 1 .. 2 * WordBits, Power[k - 1] <= n, n < Power[k]
  PROVE  BitLength(n) = k
<1> DEFINE Bounds(b) == Power[b - 1] <= n /\ n < Power[b]
<1>0. WordBits \in Nat  BY WidthsAreSound DEF FloatWidths
<1>1. \A b, c \in 1 .. 2 * WordBits : Bounds(b) /\ Bounds(c) => ~ (b < c)
  <2> SUFFICES ASSUME NEW b \in 1 .. 2 * WordBits, NEW c \in 1 .. 2 * WordBits, Bounds(b), Bounds(c), b < c
               PROVE  FALSE
    OBVIOUS
  <2>1. b \in Nat /\ c - 1 \in Nat /\ b <= c - 1  BY <1>0
  <2>2. Power[b] <= Power[c - 1] /\ Power[b] \in Nat /\ Power[c - 1] \in Nat  BY <2>1, PowersGrow, PowerRuns
  <2> QED  BY <2>2
<1>2. Bounds(k)  OBVIOUS
<1> DEFINE l == CHOOSE b \in 1 .. 2 * WordBits : Bounds(b)
<1> HIDE DEF Bounds
<1>3. l \in 1 .. 2 * WordBits /\ Bounds(l)  BY <1>2
<1> HIDE DEF l
<1>4. l = k  BY <1>0, <1>1, <1>2, <1>3
<1> QED  BY <1>4 DEF BitLength, l, Bounds

\* A number that is bounded by a power has a leading bit below it.
LEMMA LengthsAreFound ==
  ASSUME NEW n \in Nat \ {0}, NEW m \in Nat, n < Power[m], m <= 2 * WordBits
  PROVE  BitLength(n) \in 1 .. m /\ Power[BitLength(n) - 1] <= n /\ n < Power[BitLength(n)]
<1>0. WordBits \in Nat  BY WidthsAreSound DEF FloatWidths
<1> DEFINE H == {k \in Nat : n < Power[k]}
<1>1. m \in H /\ H \subseteq Nat  OBVIOUS
<1>2. PICK k \in H : \A j \in H : k <= j
  <2> HIDE DEF H
  <2>1. H # {}  BY <1>1
  <2> QED  BY <1>1, <2>1, LeastNumber
<1>3. k \in Nat /\ n < Power[k] /\ k <= m  BY <1>1, <1>2
<1>4. k # 0  BY <1>3, PowerRuns
<1>5. k - 1 \in Nat /\ k - 1 \notin H
  <2>1. k - 1 \in Nat /\ ~ (k <= k - 1)  BY <1>3, <1>4
  <2> HIDE DEF H
  <2> QED  BY <1>2, <2>1
<1>6. Power[k - 1] <= n  BY <1>5, PowerRuns
<1>7. k \in 1 .. 2 * WordBits  BY <1>0, <1>3, <1>4
<1>8. BitLength(n) = k  BY <1>3, <1>6, <1>7, LengthOfANumber
<1> QED  BY <1>3, <1>4, <1>6, <1>8

\* A number of up to a bit more than a significand, shifted to the implicit bit.
LEMMA AlignedIsASignificand ==
  ASSUME NEW n \in Nat \ {0}, n < 4 * Hidden
  PROVE  LET b == BitLength(n)
         IN /\ b \in 1 .. MantBits + 2 /\ Exponent(n) = b - MantBits - 1
            /\ Aligned(n) \in Hidden .. 2 * Hidden - 1
            /\ n < 2 * Hidden => b <= MantBits + 1 /\ Aligned(n) = n * Power[MantBits + 1 - b]
            /\ Hidden <= n /\ n < 2 * Hidden => b = MantBits + 1 /\ Aligned(n) = n
            /\ 2 * Hidden <= n => b = MantBits + 2 /\ Aligned(n) = n \div 2
<1> DEFINE b == BitLength(n)
           M == MantBits
           P == Hidden
<1>0. /\ M \in Nat \ {0} /\ WordBits \in Nat /\ M + 2 <= WordBits /\ P \in Nat \ {0}
      /\ Power[M] = P /\ Power[M + 1] = 2 * P /\ Power[M + 2] = 4 * P /\ n < 4 * P
  BY WidthsAreSound DEF FloatWidths, Hidden
<1>1. b \in 1 .. M + 2 /\ Power[b - 1] <= n /\ n < Power[b]
  <2>1. n < Power[M + 2] /\ M + 2 \in Nat /\ M + 2 <= 2 * WordBits  BY <1>0
  <2> HIDE DEF M, P
  <2> QED  BY <2>1, LengthsAreFound
<1>2. ASSUME NEW k \in 1 .. M + 2, Power[k - 1] <= n, n < Power[k] PROVE b = k
  <2>1. k \in 1 .. 2 * WordBits  BY <1>0
  <2> QED  BY <1>2, <2>1, LengthOfANumber
<1>a. Aligned(n) = IF b > M THEN n \div Power[b - M - 1] ELSE n * Power[M + 1 - b]  BY DEF Aligned
<1> HIDE DEF b, M, P
<1>3. ASSUME P <= n, n < 2 * P PROVE b = M + 1 /\ Aligned(n) = n /\ n * Power[M + 1 - b] = n
  <2>1. M + 1 \in 1 .. M + 2 /\ (M + 1) - 1 = M  BY <1>0
  <2>2. b = M + 1  BY <1>0, <1>2, <1>3, <2>1
  <2>3. b > M /\ b - M - 1 = 0 /\ M + 1 - b = 0  BY <1>0, <2>2
  <2>4. Power[0] = 1  BY PowerRuns
  <2>5. n \div 1 = n /\ n * 1 = n  OBVIOUS
  <2> QED  BY <1>a, <2>2, <2>3, <2>4, <2>5
<1>4. ASSUME 2 * P <= n PROVE b = M + 2 /\ Aligned(n) = n \div 2 /\ n \div 2 \in P .. 2 * P - 1
  <2>1. M + 2 \in 1 .. M + 2 /\ (M + 2) - 1 = M + 1  BY <1>0
  <2>2. b = M + 2  BY <1>0, <1>2, <1>4, <2>1
  <2>3. b > M /\ b - M - 1 = 1  BY <1>0, <2>2
  <2>4. Power[1] = 2
    <3>1. Power[0] = 1 /\ Power[0 + 1] = 2 * Power[0]  BY PowerRuns
    <3> QED  BY <3>1
  <2>5. n \div 2 \in P .. 2 * P - 1  BY <1>0, <1>4
  <2> QED  BY <1>a, <2>2, <2>3, <2>4, <2>5
<1>5. ASSUME n < P PROVE b <= M /\ Aligned(n) = n * Power[M + 1 - b] /\ Aligned(n) \in P .. 2 * P - 1
  <2>1. b <= M
    <3>1. SUFFICES ASSUME M < b PROVE FALSE  BY <1>0, <1>1
    <3>2. M \in Nat /\ b - 1 \in Nat /\ M <= b - 1  BY <1>0, <1>1, <3>1
    <3>3. Power[M] <= Power[b - 1] /\ Power[b - 1] \in Nat  BY <3>2, PowersGrow, PowerRuns
    <3> QED  BY <1>0, <1>1, <1>5, <3>3
  <2>2. ~ (b > M)  BY <1>0, <1>1, <2>1
  <2> DEFINE i == b - 1
             j == M + 1 - b
             q == Power[j]
  <2>3. i \in Nat /\ j \in Nat /\ i + j = M /\ i + 1 = b /\ b + j = M + 1  BY <1>0, <1>1, <2>1
  <2>4. q \in Nat \ {0} /\ Power[i] \in Nat /\ Power[i] * q = P /\ Power[i + 1] = 2 * Power[i]
    <3> HIDE DEF i, j
    <3>1. Power[i + j] = Power[i] * Power[j]  BY <2>3, PowersMultiply
    <3>2. Power[i] \in Nat /\ Power[j] \in Nat \ {0} /\ Power[i + 1] = 2 * Power[i]  BY <2>3, PowerRuns
    <3>3. Power[i + j] = P  BY <1>0, <2>3
    <3> QED  BY <3>1, <3>2, <3>3
  <2>5. Power[i] <= n /\ n + 1 <= 2 * Power[i]  BY <1>1, <2>3, <2>4
  <2>6. Aligned(n) = n * q  BY <1>a, <2>2
  <2> HIDE DEF i, j, q
  <2>7. Power[i] * q <= n * q /\ (n + 1) * q <= (2 * Power[i]) * q  BY <2>4, <2>5, ProductsGrow
  <2>8. (n + 1) * q = n * q + q /\ (2 * Power[i]) * q = 2 * (Power[i] * q) /\ n * q \in Int  BY <2>4
  <2>9. n * q \in P .. 2 * P - 1  BY <1>0, <2>4, <2>7, <2>8
  <2> QED  BY <2>1, <2>6, <2>9 DEF q, j
<1>6. Exponent(n) = b - M - 1  BY DEF Exponent, b, M
<1>7. n < P \/ (P <= n /\ n < 2 * P) \/ 2 * P <= n  BY <1>0
<1>8. Aligned(n) \in P .. 2 * P - 1  BY <1>0, <1>3, <1>4, <1>5, <1>7
<1>9. n < 2 * P => b <= M + 1 /\ Aligned(n) = n * Power[M + 1 - b]
  BY <1>0, <1>1, <1>3, <1>5, <1>7
<1> QED  BY <1>0, <1>1, <1>3, <1>4, <1>6, <1>8, <1>9 DEF b, M, P

\* What fits is packed as it is.
LEMMA PackedFloat ==
  ASSUME NEW sign \in 0 .. 1, NEW e \in 0 .. ExpMask, NEW sig \in Hidden .. 2 * Hidden - 1
  PROVE  LET r == Pack(sign, e, sig)
         IN r.s = sign /\ r.e = e /\ r.m = sig - Hidden /\ Significand(r) = sig /\ r \in Floats
<1>0. Hidden \in Nat \ {0} /\ ExpMask \in Nat /\ Power[ExpBits] = ExpMask + 1
  BY WidthsAreSound DEF FloatWidths
<1>1. e % Power[ExpBits] = e  BY <1>0
<1>2. sig % Hidden = sig - Hidden
  <2>1. Division(sig, Hidden, 1, sig - Hidden)  BY <1>0 DEF Division
  <2> QED  BY <2>1, DividedOnce
<1>3. Pack(sign, e, sig) = [s |-> sign, e |-> e, m |-> sig - Hidden]  BY <1>1, <1>2 DEF Pack, Hidden
<1>4. Hidden + (sig - Hidden) = sig /\ sig - Hidden \in 0 .. Hidden - 1  BY <1>0
<1> DEFINE r == Pack(sign, e, sig)
<1>5. r.s = sign /\ r.e = e /\ r.m = sig - Hidden  BY <1>3
<1>6. Significand(r) = Hidden + r.m  BY DEF Significand, Hidden
<1>7. [s |-> sign, e |-> e, m |-> sig - Hidden] \in Floats  BY <1>4 DEF Floats, Hidden
<1> HIDE DEF r
<1> QED  BY <1>3, <1>4, <1>5, <1>6, <1>7 DEF r
-----------------------------------------------------------------------------
(* Float128: sums.                                                          *)

\* Two significands, the exponent of the greater operand and the gap to the other's.
Operands2(sign, A, B, e, g) ==
  /\ sign \in 0 .. 1 /\ A \in Hidden .. 2 * Hidden - 1 /\ B \in Hidden .. 2 * Hidden - 1
  /\ e \in 1 .. ExpMask - 1 /\ g \in 0 .. e - 1

\* What is left of the smaller one, y, and what is shifted out, t.
ShiftedOut(B, e, g, y, t) ==
  /\ y \in 0 .. 2 * Hidden - 1 /\ t \in 0 .. Power[e] - 1 /\ B * Power[e - g] = y * Power[e] + t
  /\ (g > 0 => y < Hidden) /\ (g = 0 => y = B /\ t = 0)

\* The bits that are shifted out are worth less than the last one that stays.
LEMMA SmallerIsShifted ==
  ASSUME NEW sign, NEW A, NEW B, NEW e, NEW g, Operands2(sign, A, B, e, g)
  PROVE  \E t : ShiftedOut(B, e, g, B \div Power[g], t)
<1> DEFINE P == Hidden
           G == Power[g]
           U == Power[e - g]
           y == B \div G
           c == B % G
<1>1. P \in Nat \ {0} /\ B \in P .. 2 * P - 1 /\ e \in Nat /\ g \in Nat /\ e - g \in Nat /\ (e - g) + g = e /\ ExpMask \in Nat
  BY WidthsAreSound DEF Operands2, FloatWidths
<1>2. G \in Nat \ {0} /\ U \in Nat \ {0} /\ Power[e] \in Nat \ {0} /\ Power[e] = U * G
  <2>1. Power[(e - g) + g] = Power[e - g] * Power[g]  BY <1>1, PowersMultiply
  <2> QED  BY <1>1, <2>1, PowerRuns
<1>3. g > 0 => 2 <= G
  <2>1. ASSUME g > 0 PROVE 2 * Power[0] <= Power[g]  BY <1>1, <2>1, PowersGrow
  <2> QED  BY <2>1, PowerRuns
<1>4. g = 0 => G = 1  BY PowerRuns
<1> HIDE DEF P, G, U
<1>5. y \in Int /\ c \in 0 .. G - 1 /\ B = y * G + c
  <2>1. B \in Int  BY <1>1
  <2> QED  BY <1>2, <2>1, Divided
<1> HIDE DEF y, c
<1>6. y \in 0 .. 2 * P - 1 /\ (g > 0 => y < P)
  <2>1. 0 <= y
    <3>1. SUFFICES ASSUME y + 1 <= 0 PROVE FALSE  BY <1>5
    <3>2. (y + 1) * G <= 0 * G  BY <1>2, <1>5, <3>1, ProductsGrow
    <3>3. (y + 1) * G = y * G + G /\ 0 * G = 0  BY <1>2, <1>5
    <3> QED  BY <1>1, <1>2, <1>5, <3>2, <3>3
  <2>2. ASSUME NEW h \in Nat, h <= G PROVE y * h <= B
    <3>1. h * y <= G * y  BY <1>2, <1>5, <2>1, <2>2, ProductsGrow
    <3>2. h * y = y * h /\ G * y = y * G /\ y * G \in Int /\ y * h \in Int  BY <1>2, <1>5
    <3> QED  BY <1>1, <1>2, <1>5, <3>1, <3>2
  <2>3. y * 1 <= B  BY <1>2, <2>2
  <2>4. g > 0 => y * 2 <= B  BY <1>2, <1>3, <2>2
  <2> QED  BY <1>1, <1>5, <2>1, <2>3, <2>4
<1>7. B * U = y * Power[e] + c * U
  <2>1. (y * G + c) * U = y * (U * G) + c * U  BY <1>2, <1>5
  <2> QED  BY <1>2, <1>5, <2>1
<1>8. c * U \in 0 .. Power[e] - 1
  <2>1. c \in Nat /\ c + 1 <= G  BY <1>2, <1>5
  <2>2. 0 * U <= c * U /\ (c + 1) * U <= G * U  BY <1>2, <2>1, ProductsGrow
  <2>3. 0 * U = 0 /\ (c + 1) * U = c * U + U /\ G * U = U * G /\ c * U \in Int  BY <1>2, <2>1
  <2> QED  BY <1>2, <2>2, <2>3
<1>9. g = 0 => y = B /\ c * U = 0
  <2>1. ASSUME g = 0 PROVE y = B /\ c * U = 0
    <3>1. G = 1  BY <1>4, <2>1
    <3>2. c = 0  BY <1>5, <3>1
    <3>3. y * 1 = y  BY <1>5
    <3>4. 0 * U = 0  BY <1>2
    <3> QED  BY <1>1, <1>5, <3>1, <3>2, <3>3, <3>4
  <2> QED  BY <2>1
<1>10. ShiftedOut(B, e, g, y, c * U)  BY <1>6, <1>7, <1>8, <1>9 DEF ShiftedOut, P, U
<1> QED  BY <1>10 DEF y, G

\* Same signs: what the sum loses is less than a unit of the result.
LEMMA SumOfMagnitudes ==
  ASSUME NEW sign, NEW A, NEW B, NEW e, NEW g, Operands2(sign, A, B, e, g),
         NEW X, X = A * Power[e] + B * Power[e - g], X < 2 * Hidden * Power[ExpMask - 1]
  PROVE  LET n == A + B \div Power[g]
             r == RoundPack(sign, e + Exponent(n), Aligned(n), 0)
         IN /\ r \in Floats /\ r.s = sign /\ r.e \in 1 .. ExpMask - 1
            /\ X - Significand(r) * Power[r.e] \in 0 .. Power[r.e] - 1
<1> DEFINE P == Hidden
           Q == Power[e]
           y == B \div Power[g]
           n == A + y
           r == RoundPack(sign, e + Exponent(n), Aligned(n), 0)
<1>1. /\ P \in Nat \ {0} /\ ExpMask \in Nat /\ sign \in 0 .. 1 /\ A \in P .. 2 * P - 1
      /\ e \in 1 .. ExpMask - 1 /\ e \in Nat /\ ExpMask - 1 \in Nat
  BY WidthsAreSound DEF Operands2, FloatWidths
<1>2. PICK t : ShiftedOut(B, e, g, y, t)  BY SmallerIsShifted
<1>3. Q \in Nat \ {0} /\ Power[e + 1] = 2 * Q  BY <1>1, PowerRuns
<1>4. y \in 0 .. 2 * P - 1 /\ t \in 0 .. Q - 1 /\ B * Power[e - g] = y * Q + t  BY <1>2 DEF ShiftedOut
<1>5. X < 2 * P * Power[ExpMask - 1] /\ X = A * Q + B * Power[e - g]  OBVIOUS
<1>6. r = Pack(sign, e + Exponent(n), Aligned(n))  BY DEF RoundPack
<1> HIDE DEF P, Q, y
<1>7. n \in Nat \ {0} /\ P <= n /\ n < 4 * P  BY <1>1, <1>4
<1>8. X = n * Q + t /\ n * Q \in Nat
  <2>1. (A + y) * Q = A * Q + y * Q /\ (A + y) * Q \in Int /\ A * Q \in Int /\ y * Q \in Int  BY <1>1, <1>3, <1>4
  <2>2. 0 * Q <= n * Q /\ 0 * Q = 0  BY <1>3, <1>7, ProductsGrow
  <2> QED  BY <1>3, <1>4, <1>5, <2>1, <2>2
<1>9. /\ Aligned(n) \in P .. 2 * P - 1
      /\ n < 2 * P => Exponent(n) = 0 /\ Aligned(n) = n
      /\ 2 * P <= n => Exponent(n) = 1 /\ Aligned(n) = n \div 2
  <2>1. MantBits \in Nat  BY WidthsAreSound DEF FloatWidths
  <2> HIDE DEF n
  <2>2. n \in Nat \ {0} /\ n < 4 * Hidden  BY <1>7 DEF P
  <2>3. LET b == BitLength(n)
        IN /\ b \in 1 .. MantBits + 2 /\ Exponent(n) = b - MantBits - 1
           /\ Aligned(n) \in Hidden .. 2 * Hidden - 1
           /\ Hidden <= n /\ n < 2 * Hidden => b = MantBits + 1 /\ Aligned(n) = n
           /\ 2 * Hidden <= n => b = MantBits + 2 /\ Aligned(n) = n \div 2
    BY <2>2, AlignedIsASignificand
  <2> QED  BY <1>7, <2>1, <2>3 DEF P
<1>10. ASSUME NEW f \in 0 .. ExpMask, NEW sig \in P .. 2 * P - 1, r = Pack(sign, f, sig)
       PROVE  r.s = sign /\ r.e = f /\ Significand(r) = sig /\ r \in Floats
  <2> HIDE DEF r
  <2>1. sig \in Hidden .. 2 * Hidden - 1  BY DEF P
  <2> QED  BY <1>1, <1>10, <2>1, PackedFloat
<1> HIDE DEF n, r
<1>11. CASE n < 2 * P
  <2>1. r = Pack(sign, e, n) /\ n \in P .. 2 * P - 1  BY <1>1, <1>6, <1>7, <1>9, <1>11
  <2>2. r.s = sign /\ r.e = e /\ Significand(r) = n /\ r \in Floats  BY <1>1, <1>10, <2>1
  <2>3. X - n * Q = t  BY <1>4, <1>8
  <2> QED  BY <1>1, <1>4, <2>2, <2>3 DEF Q, n, r, y
<1>12. CASE 2 * P <= n
  <2> DEFINE h == n \div 2
  <2>1. e + 1 \in 1 .. ExpMask - 1
    <3>1. SUFFICES ASSUME e = ExpMask - 1 PROVE FALSE  BY <1>1
    <3>2. (2 * P) * Q <= n * Q  BY <1>1, <1>3, <1>7, <1>12, ProductsGrow
    <3>3. X < (2 * P) * Q  BY <1>5, <3>1 DEF Q
    <3> QED  BY <1>1, <1>3, <1>4, <1>8, <3>2, <3>3
  <2>2. r = Pack(sign, e + 1, h) /\ h \in P .. 2 * P - 1  BY <1>6, <1>9, <1>12
  <2>3. r.s = sign /\ r.e = e + 1 /\ Significand(r) = h /\ r \in Floats  BY <1>1, <1>10, <2>1, <2>2
  <2>4. h \in Int /\ n - 2 * h \in {0, 1}  BY <1>7
  <2> HIDE DEF h
  <2>5. X - h * (2 * Q) \in 0 .. 2 * Q - 1
    <3>1. CASE n = 2 * h
      <4>1. (2 * h) * Q = h * (2 * Q) /\ h * (2 * Q) \in Int  BY <1>3, <2>4
      <4> QED  BY <1>3, <1>4, <1>8, <3>1, <4>1
    <3>2. CASE n = 2 * h + 1
      <4>1. (2 * h + 1) * Q = h * (2 * Q) + Q /\ h * (2 * Q) \in Int  BY <1>3, <2>4
      <4> QED  BY <1>3, <1>4, <1>8, <3>2, <4>1
    <3> QED  BY <1>7, <2>4, <3>1, <3>2
  <2>6. Power[r.e] = 2 * Q  BY <1>3, <2>3
  <2> QED  BY <2>1, <2>3, <2>5, <2>6 DEF n, r, y
<1> QED  BY <1>1, <1>7, <1>11, <1>12

\* Opposite signs: what is lost is less than a unit of the greater operand.
LEMMA DifferenceOfMagnitudes ==
  ASSUME NEW sign, NEW A, NEW B, NEW e, NEW g, Operands2(sign, A, B, e, g), g > 0 \/ B <= A,
         NEW X, X = A * Power[e] - B * Power[e - g], 2 * Hidden <= X
  PROVE  LET n == A - B \div Power[g]
             r == RoundPack(sign, e + Exponent(n), Aligned(n), 0)
         IN /\ n # 0 /\ r \in Floats /\ r.s = sign /\ r.e \in 1 .. ExpMask - 1
            /\ Significand(r) * Power[r.e] - X \in 0 .. Power[e] - 1
<1> DEFINE P == Hidden
           Q == Power[e]
           y == B \div Power[g]
           n == A - y
           b == BitLength(n)
           M == MantBits
           r == RoundPack(sign, e + Exponent(n), Aligned(n), 0)
<1>1. /\ P \in Nat \ {0} /\ ExpMask \in Nat /\ sign \in 0 .. 1 /\ A \in P .. 2 * P - 1 /\ M \in Nat
      /\ e \in 1 .. ExpMask - 1 /\ e \in Nat /\ g \in Nat /\ Power[M + 1] = 2 * P
  BY WidthsAreSound DEF Operands2, FloatWidths
<1>2. PICK t : ShiftedOut(B, e, g, y, t)  BY SmallerIsShifted
<1>3. Q \in Nat \ {0}  BY <1>1, PowerRuns
<1>4. /\ y \in 0 .. 2 * P - 1 /\ t \in 0 .. Q - 1 /\ B * Power[e - g] = y * Q + t
      /\ (g > 0 => y < P) /\ (g = 0 => y = B /\ t = 0)
  BY <1>2 DEF ShiftedOut
<1>5. 2 * P <= X /\ X = A * Q - B * Power[e - g] /\ (g > 0 \/ B <= A)  OBVIOUS
<1>6. r = Pack(sign, e + Exponent(n), Aligned(n))  BY DEF RoundPack
<1> HIDE DEF P, Q, y
<1>7. n \in Nat /\ n < 2 * P  BY <1>1, <1>4, <1>5
<1>8. X = n * Q - t /\ n * Q \in Int
  <2>1. (A - y) * Q = A * Q - y * Q /\ (A - y) * Q \in Int /\ A * Q \in Int /\ y * Q \in Int  BY <1>1, <1>3, <1>4
  <2> QED  BY <1>4, <1>5, <2>1
<1>9. n # 0
  <2>1. SUFFICES ASSUME n = 0 PROVE FALSE  OBVIOUS
  <2>2. n * Q = 0  BY <1>3, <2>1
  <2> QED  BY <1>1, <1>3, <1>4, <1>5, <1>8, <2>2
<1>10. /\ b \in 1 .. M + 1 /\ Exponent(n) = b - M - 1 /\ n < Power[b]
       /\ Aligned(n) \in P .. 2 * P - 1 /\ Aligned(n) = n * Power[M + 1 - b]
  <2>0. WordBits \in Nat /\ M + 1 \in Nat /\ M + 1 <= 2 * WordBits  BY WidthsAreSound DEF FloatWidths
  <2> HIDE DEF n
  <2>1. n \in Nat \ {0} /\ n < 4 * Hidden /\ n < 2 * Hidden /\ n < Power[M + 1]  BY <1>1, <1>7, <1>9 DEF P
  <2>2. LET c == BitLength(n)
        IN /\ c \in 1 .. MantBits + 2 /\ Exponent(n) = c - MantBits - 1
           /\ Aligned(n) \in Hidden .. 2 * Hidden - 1
           /\ n < 2 * Hidden => c <= MantBits + 1 /\ Aligned(n) = n * Power[MantBits + 1 - c]
    BY <2>1, AlignedIsASignificand
  <2>3. n < Power[BitLength(n)]  BY <2>0, <2>1, LengthsAreFound
  <2> QED  BY <1>1, <2>1, <2>2, <2>3 DEF P
<1> HIDE DEF n, b, M
<1> DEFINE f == e + (b - M - 1)
           i == M + 1 - b
<1>11. f \in 1 .. ExpMask - 1
  <2>1. f <= e /\ f \in Int  BY <1>1, <1>10
  <2>2. ~ (e + b <= M + 1)
    <3>1. SUFFICES ASSUME e + b <= M + 1 PROVE FALSE  OBVIOUS
    <3>2. Power[b + e] <= Power[M + 1]  BY <1>1, <1>10, <3>1, PowersGrow
    <3>3. Power[b + e] = Power[b] * Q  BY <1>1, <1>10, PowersMultiply DEF Q
    <3>4. Power[b] \in Nat  BY <1>10, PowerRuns
    <3>5. (n + 1) * Q <= Power[b] * Q  BY <1>3, <1>7, <1>10, <3>4, ProductsGrow
    <3>6. (n + 1) * Q = n * Q + Q  BY <1>3, <1>7
    <3>7. Power[b] * Q \in Int  BY <1>3, <3>4
    <3> QED  BY <1>1, <1>3, <1>4, <1>5, <1>8, <3>2, <3>3, <3>5, <3>6, <3>7
  <2> QED  BY <1>1, <1>10, <2>1, <2>2
<1>12. r.s = sign /\ r.e = f /\ Significand(r) = n * Power[i] /\ r \in Floats
  <2>1. r = Pack(sign, f, n * Power[i])  BY <1>6, <1>10 DEF f, i
  <2>2. n * Power[i] \in Hidden .. 2 * Hidden - 1  BY <1>10 DEF P
  <2>3. f \in 0 .. ExpMask  BY <1>1, <1>11
  <2> HIDE DEF r, f, i
  <2> QED  BY <1>1, <2>1, <2>2, <2>3, PackedFloat
<1>13. (n * Power[i]) * Power[f] = n * Q
  <2>1. i \in Nat /\ f \in Nat /\ i + f = e  BY <1>1, <1>10, <1>11
  <2> HIDE DEF i, f
  <2>2. Q = Power[i] * Power[f] /\ Power[i] \in Nat /\ Power[f] \in Nat  BY <2>1, PowersMultiply, PowerRuns DEF Q
  <2>3. (n * Power[i]) * Power[f] = n * (Power[i] * Power[f])  BY <1>7, <2>2
  <2> QED  BY <2>2, <2>3
<1> HIDE DEF f, i, r
<1>14. Significand(r) * Power[r.e] - X = t
  <2>1. Significand(r) * Power[r.e] = n * Q  BY <1>12, <1>13
  <2> QED  BY <1>4, <1>8, <2>1
<1> QED  BY <1>4, <1>9, <1>11, <1>12, <1>14 DEF n, r, Q, y

\* The operands of a difference are in order, and so are their values.
LEMMA GreaterOperand ==
  ASSUME NEW sign, NEW A, NEW B, NEW e, NEW g, Operands2(sign, A, B, e, g), g > 0 \/ B <= A
  PROVE  B * Power[e - g] <= A * Power[e]
<1> DEFINE Q == Power[e]
           y == B \div Power[g]
<1>1. PICK t : ShiftedOut(B, e, g, y, t)  BY SmallerIsShifted
<1>2. Hidden \in Nat \ {0} /\ A \in Hidden .. 2 * Hidden - 1 /\ e \in Nat /\ ExpMask \in Nat /\ g \in Nat
  BY WidthsAreSound DEF Operands2, FloatWidths
<1>3. Q \in Nat \ {0}  BY <1>2, PowerRuns
<1>4. /\ y \in 0 .. 2 * Hidden - 1 /\ t \in 0 .. Q - 1 /\ B * Power[e - g] = y * Q + t
      /\ (g > 0 => y < Hidden) /\ (g = 0 => y = B /\ t = 0)
  BY <1>1 DEF ShiftedOut
<1> HIDE DEF Q, y
<1>5. CASE g > 0
  <2>1. y + 1 <= A  BY <1>2, <1>4, <1>5
  <2>2. (y + 1) * Q <= A * Q  BY <1>2, <1>3, <1>4, <2>1, ProductsGrow
  <2>3. (y + 1) * Q = y * Q + Q /\ y * Q \in Int /\ A * Q \in Int  BY <1>2, <1>3, <1>4
  <2>4. y * Q + t <= A * Q  BY <1>3, <1>4, <2>2, <2>3
  <2> QED  BY <1>4, <2>4 DEF Q
<1>6. CASE g = 0
  <2>1. y <= A /\ t = 0  BY <1>2, <1>4, <1>6
  <2>2. y * Q <= A * Q  BY <1>2, <1>3, <1>4, <2>1, ProductsGrow
  <2>3. y * Q + t <= A * Q  BY <1>2, <1>3, <1>4, <2>1, <2>2
  <2> QED  BY <1>4, <2>3 DEF Q
<1> QED  BY <1>2, <1>5, <1>6

\* A value with its sign.
SignedBy(s, v) == IF s = 0 THEN v ELSE -v

\* The magnitude of a float that is not zero.
Worth(f) == Significand(f) * Power[f.e]

\* A normal float is none of the special ones.
LEMMA NormalFloats ==
  ASSUME NEW f \in Floats, Normal(f)
  PROVE  /\ f.s \in 0 .. 1 /\ f.e \in 1 .. ExpMask - 1 /\ f.e \in Nat /\ f.m \in 0 .. Hidden - 1
         /\ Significand(f) \in Hidden .. 2 * Hidden - 1 /\ Significand(f) = Hidden + f.m
         /\ ~ IsNan(f) /\ ~ IsInf(f) /\ ~ IsZero(f)
         /\ Worth(f) \in Nat /\ Value(f) = SignedBy(f.s, Worth(f))
<1>1. Hidden \in Nat \ {0} /\ ExpMask \in Nat  BY WidthsAreSound DEF FloatWidths
<1>2. f.s \in 0 .. 1 /\ f.e \in 1 .. ExpMask - 1 /\ f.m \in 0 .. Hidden - 1  BY DEF Floats, Normal, Hidden
<1>3. Significand(f) = Hidden + f.m  BY DEF Significand, Hidden
<1>4. Significand(f) \in Hidden .. 2 * Hidden - 1  BY <1>1, <1>2, <1>3
<1>5. ~ IsNan(f) /\ ~ IsInf(f) /\ ~ IsZero(f)  BY <1>1, <1>2 DEF IsNan, IsInf, IsZero
<1> DEFINE S == Significand(f)
           Q == Power[f.e]
<1>6. f.e \in Nat /\ Q \in Nat /\ S \in Nat  BY <1>1, <1>2, <1>4, PowerRuns
<1>7. Value(f) = (1 - 2 * f.s) * S * Q  BY <1>5 DEF Value, Ulp
<1> HIDE DEF S, Q
<1>8. S * Q \in Nat
  <2>1. 0 * Q <= S * Q  BY <1>6, ProductsGrow
  <2> QED  BY <1>6, <2>1
<1>9. CASE f.s = 0
  <2>1. 1 - 2 * f.s = 1  BY <1>9
  <2>2. 1 * S * Q = S * Q  BY <1>6
  <2> QED  BY <1>2, <1>3, <1>4, <1>5, <1>6, <1>7, <1>8, <1>9, <2>1, <2>2 DEF Worth, SignedBy, S, Q
<1>10. CASE f.s = 1
  <2>1. 1 - 2 * f.s = -1  BY <1>10
  <2>2. (-1) * S * Q = -(S * Q)  BY <1>6
  <2> QED  BY <1>2, <1>3, <1>4, <1>5, <1>6, <1>7, <1>8, <1>10, <2>1, <2>2 DEF Worth, SignedBy, S, Q
<1> QED  BY <1>2, <1>9, <1>10

\* The exponents are within a word of each other, so that no shift is undefined.
Near(a, b) ==
  a \in Floats /\ b \in Floats /\ Normal(a) /\ Normal(b) /\ Abs(a.e - b.e) < WordBits

\* What a sum is, whichever operand has the greater exponent.
LEMMA MagnitudesAdd ==
  ASSUME NEW a, NEW b, Near(a, b), NEW sign \in 0 .. 1, NEW r \in AddMagnitudes(sign, a, b),
         Worth(a) + Worth(b) < 2 * Hidden * Power[ExpMask - 1]
  PROVE  /\ r \in Floats /\ r.s = sign /\ Normal(r)
         /\ (Worth(a) + Worth(b)) - Worth(r) \in 0 .. Power[r.e] - 1
<1> DEFINE A == Significand(a)
           B == Significand(b)
           e == IF a.e > b.e THEN a.e ELSE b.e
<1>1. /\ a.e \in 1 .. ExpMask - 1 /\ A \in Hidden .. 2 * Hidden - 1
      /\ b.e \in 1 .. ExpMask - 1 /\ B \in Hidden .. 2 * Hidden - 1
      /\ Hidden \in Nat \ {0} /\ ExpMask \in Nat /\ WordBits \in Nat /\ Worth(a) \in Nat /\ Worth(b) \in Nat
  BY NormalFloats, WidthsAreSound DEF Near, FloatWidths
<1>2. PICK x \in Shifted(A, e - a.e), y \in Shifted(B, e - b.e) :
        r = RoundPack(sign, e + Exponent(x + y), Aligned(x + y), 0)
  BY DEF AddMagnitudes
<1>3. Abs(a.e - b.e) < WordBits  BY DEF Near
<1> HIDE DEF A, B
<1>4. e \in 1 .. ExpMask - 1 /\ e - a.e \in 0 .. e - 1 /\ e - b.e \in 0 .. e - 1 /\ e - a.e < WordBits /\ e - b.e < WordBits
  BY <1>1, <1>3 DEF Abs
<1>5. x = A \div Power[e - a.e] /\ y = B \div Power[e - b.e]
  <2> HIDE DEF e
  <2> QED  BY <1>2, <1>4 DEF Shifted
<1>6. \A n \in Int : n \div Power[0] = n
  <2>1. Power[0] = 1  BY PowerRuns
  <2> QED  BY <2>1
<1>7. CASE a.e > b.e
  <2> DEFINE g == a.e - b.e
  <2>1. e = a.e /\ e - a.e = 0 /\ e - b.e = g /\ a.e - g = b.e  BY <1>1, <1>7
  <2>2. Operands2(sign, A, B, a.e, g)  BY <1>1, <1>4, <2>1 DEF Operands2
  <2>3. x = A /\ y = B \div Power[g]  BY <1>1, <1>5, <1>6, <2>1
  <2>4. Worth(a) + Worth(b) = A * Power[a.e] + B * Power[a.e - g]  BY <2>1 DEF Worth, A, B
  <2>5. r = RoundPack(sign, a.e + Exponent(A + B \div Power[g]), Aligned(A + B \div Power[g]), 0)
    BY <1>2, <2>1, <2>3
  <2> HIDE DEF g, e, A, B
  <2>7. Worth(a) + Worth(b) < 2 * Hidden * Power[ExpMask - 1]  OBVIOUS
  <2>8. LET n == A + B \div Power[g]
            q == RoundPack(sign, a.e + Exponent(n), Aligned(n), 0)
        IN /\ q \in Floats /\ q.s = sign /\ q.e \in 1 .. ExpMask - 1
           /\ (Worth(a) + Worth(b)) - Significand(q) * Power[q.e] \in 0 .. Power[q.e] - 1
    BY <2>2, <2>4, <2>7, SumOfMagnitudes
  <2> QED  BY <2>5, <2>8 DEF Worth, Normal
<1>8. CASE ~ (a.e > b.e)
  <2> DEFINE g == b.e - a.e
  <2>1. e = b.e /\ e - b.e = 0 /\ e - a.e = g /\ b.e - g = a.e  BY <1>1, <1>8
  <2>2. Operands2(sign, B, A, b.e, g)  BY <1>1, <1>4, <2>1 DEF Operands2
  <2>3. x = A \div Power[g] /\ y = B  BY <1>1, <1>5, <1>6, <2>1
  <2>4. Worth(a) + Worth(b) = B * Power[b.e] + A * Power[b.e - g]
    BY <1>1, <2>1 DEF Worth, A, B
  <2>5. x + y = B + A \div Power[g]
    <3>1. Power[g] \in Nat \ {0}  BY <1>4, <2>1, PowerRuns
    <3>2. x \in Int  BY <1>1, <2>3, <3>1
    <3> QED  BY <1>1, <2>3, <3>2
  <2>6. r = RoundPack(sign, b.e + Exponent(B + A \div Power[g]), Aligned(B + A \div Power[g]), 0)
    BY <1>2, <2>1, <2>5
  <2> HIDE DEF g, e, A, B
  <2>7. Worth(a) + Worth(b) < 2 * Hidden * Power[ExpMask - 1]  OBVIOUS
  <2>8. LET n == B + A \div Power[g]
            q == RoundPack(sign, b.e + Exponent(n), Aligned(n), 0)
        IN /\ q \in Floats /\ q.s = sign /\ q.e \in 1 .. ExpMask - 1
           /\ (Worth(a) + Worth(b)) - Significand(q) * Power[q.e] \in 0 .. Power[q.e] - 1
    BY <2>2, <2>4, <2>7, SumOfMagnitudes
  <2> QED  BY <2>6, <2>8 DEF Worth, Normal
<1> QED  BY <1>7, <1>8

\* What a difference is, by which of the operands is greater.
LEMMA MagnitudesSubtract ==
  ASSUME NEW a, NEW b, Near(a, b), NEW sa \in 0 .. 1, NEW sb \in 0 .. 1,
         2 * Hidden <= Abs(Worth(a) - Worth(b))
  PROVE  LET r == SubMagnitudes(sa, sb, a, b)
         IN /\ r \in Floats /\ Normal(r)
            /\ \/ r.s = sb /\ Worth(r) - (Worth(b) - Worth(a)) \in 0 .. Power[b.e] - 1
               \/ r.s = sa /\ Worth(r) - (Worth(a) - Worth(b)) \in 0 .. Power[a.e] - 1
<1> DEFINE A == Significand(a)
           B == Significand(b)
           swap == a.e < b.e \/ (a.e = b.e /\ a.m < b.m)
           r == SubMagnitudes(sa, sb, a, b)
<1>1. /\ a.e \in 1 .. ExpMask - 1 /\ A \in Hidden .. 2 * Hidden - 1 /\ a.m \in 0 .. Hidden - 1 /\ A = Hidden + a.m
      /\ b.e \in 1 .. ExpMask - 1 /\ B \in Hidden .. 2 * Hidden - 1 /\ b.m \in 0 .. Hidden - 1 /\ B = Hidden + b.m
      /\ Hidden \in Nat \ {0} /\ ExpMask \in Nat /\ WordBits \in Nat /\ Worth(a) \in Nat /\ Worth(b) \in Nat
  BY NormalFloats, WidthsAreSound DEF Near, FloatWidths
<1>2. Abs(a.e - b.e) < WordBits  BY DEF Near
<1>3. CASE swap
  <2> DEFINE g == b.e - a.e
             n == B - A \div Power[g]
  <2>1. g \in 0 .. b.e - 1 /\ ~ (g >= WordBits) /\ b.e - g = a.e /\ (g > 0 \/ A <= B)
    BY <1>1, <1>2, <1>3 DEF Abs
  <2>2. r = IF n = 0 THEN Zero(0) ELSE RoundPack(sb, b.e + Exponent(n), Aligned(n), 0)
    BY <1>3, <2>1 DEF SubMagnitudes
  <2> HIDE DEF swap, g, r
  <2>3. Operands2(sb, B, A, b.e, g)  BY <1>1, <2>1 DEF Operands2
  <2>4. A * Power[b.e - g] <= B * Power[b.e]  BY <2>1, <2>3, GreaterOperand
  <2>5. Worth(b) = B * Power[b.e] /\ Worth(a) = A * Power[b.e - g]  BY <2>1 DEF Worth, A, B
  <2>6. 2 * Hidden <= Worth(b) - Worth(a)  BY <1>1, <2>4, <2>5 DEF Abs
  <2>7. Worth(b) - Worth(a) = B * Power[b.e] - A * Power[b.e - g]  BY <2>5
  <2> HIDE DEF A, B
  <2>8. LET q == RoundPack(sb, b.e + Exponent(n), Aligned(n), 0)
        IN /\ n # 0 /\ q \in Floats /\ q.s = sb /\ q.e \in 1 .. ExpMask - 1
           /\ Significand(q) * Power[q.e] - (Worth(b) - Worth(a)) \in 0 .. Power[b.e] - 1
    BY <2>1, <2>3, <2>6, <2>7, DifferenceOfMagnitudes
  <2> HIDE DEF n
  <2> QED  BY <2>2, <2>8 DEF Worth, Normal, r
<1>4. CASE ~ swap
  <2> DEFINE g == a.e - b.e
             n == A - B \div Power[g]
  <2>1. g \in 0 .. a.e - 1 /\ ~ (g >= WordBits) /\ a.e - g = b.e /\ (g > 0 \/ B <= A)
    BY <1>1, <1>2, <1>4 DEF Abs
  <2>2. r = IF n = 0 THEN Zero(0) ELSE RoundPack(sa, a.e + Exponent(n), Aligned(n), 0)
    BY <1>4, <2>1 DEF SubMagnitudes
  <2> HIDE DEF swap, g, r
  <2>3. Operands2(sa, A, B, a.e, g)  BY <1>1, <2>1 DEF Operands2
  <2>4. B * Power[a.e - g] <= A * Power[a.e]  BY <2>1, <2>3, GreaterOperand
  <2>5. Worth(a) = A * Power[a.e] /\ Worth(b) = B * Power[a.e - g]  BY <2>1 DEF Worth, A, B
  <2>6. 2 * Hidden <= Worth(a) - Worth(b)  BY <1>1, <2>4, <2>5 DEF Abs
  <2>7. Worth(a) - Worth(b) = A * Power[a.e] - B * Power[a.e - g]  BY <2>5
  <2> HIDE DEF A, B
  <2>8. LET q == RoundPack(sa, a.e + Exponent(n), Aligned(n), 0)
        IN /\ n # 0 /\ q \in Floats /\ q.s = sa /\ q.e \in 1 .. ExpMask - 1
           /\ Significand(q) * Power[q.e] - (Worth(a) - Worth(b)) \in 0 .. Power[a.e] - 1
    BY <2>1, <2>3, <2>6, <2>7, DifferenceOfMagnitudes
  <2> HIDE DEF n
  <2> QED  BY <2>2, <2>8 DEF Worth, Normal, r
<1> QED  BY <1>3, <1>4

\* Sum and difference, whatever the signs.
LEMMA SumsAreClose ==
  ASSUME NEW a \in Floats, NEW b \in Floats, Normal(a), Normal(b), NEW subtract \in 0 .. 1,
         NEW r \in AddSub(a, b, subtract)
  PROVE  SumIsClose(a, b, Value(a) + SignedBy(subtract, Value(b)), r)
<1> DEFINE exact == Value(a) + SignedBy(subtract, Value(b))
           sb == (b.s + subtract) % 2
           X == Worth(a)
           Y == Worth(b)
<1>1. /\ a.s \in 0 .. 1 /\ b.s \in 0 .. 1 /\ X \in Nat /\ Y \in Nat
      /\ Value(a) = SignedBy(a.s, X) /\ Value(b) = SignedBy(b.s, Y)
      /\ ~ IsNan(a) /\ ~ IsInf(a) /\ ~ IsZero(a) /\ ~ IsNan(b) /\ ~ IsInf(b) /\ ~ IsZero(b)
  BY NormalFloats
<1>2. AddSub(a, b, subtract) = IF a.s = sb THEN AddMagnitudes(a.s, a, b) ELSE {SubMagnitudes(a.s, sb, a, b)}
  BY <1>1 DEF AddSub
<1>3. sb \in 0 .. 1 /\ SignedBy(subtract, Value(b)) = SignedBy(sb, Y)  BY <1>1 DEF SignedBy
<1>4. SUFFICES ASSUME Representable(exact), Abs(a.e - b.e) < WordBits
               PROVE  \E x \in {a, b, r} : Abs(Value(r) - exact) < Ulp(x)
  BY DEF SumIsClose
<1>5. Near(a, b)  BY <1>4 DEF Near
<1>6. exact = SignedBy(a.s, X) + SignedBy(sb, Y)  BY <1>1, <1>3
<1>7. 2 * Hidden <= Abs(exact) /\ Abs(exact) < 2 * Hidden * Power[ExpMask - 1]
  BY <1>4, WidthsAreSound DEF Representable, FloatWidths
<1> HIDE DEF X, Y, exact, sb
<1>8. CASE a.s = sb
  <2>1. r \in AddMagnitudes(a.s, a, b)  BY <1>2, <1>8
  <2>2. Abs(exact) = X + Y /\ exact = SignedBy(a.s, X + Y)  BY <1>1, <1>6, <1>8 DEF Abs, SignedBy
  <2>3. /\ r \in Floats /\ r.s = a.s /\ Normal(r)
        /\ (X + Y) - Worth(r) \in 0 .. Power[r.e] - 1
    BY <1>1, <1>5, <1>7, <2>1, <2>2, MagnitudesAdd DEF X, Y
  <2>4. Value(r) = SignedBy(r.s, Worth(r)) /\ Worth(r) \in Nat /\ r.e \in Nat  BY <2>3, NormalFloats
  <2>5. Power[r.e] \in Nat  BY <2>4, PowerRuns
  <2>6. Abs(Value(r) - exact) < Ulp(r)  BY <1>1, <2>2, <2>3, <2>4, <2>5 DEF Abs, SignedBy, Ulp
  <2> QED  BY <2>6
<1>9. CASE a.s # sb
  <2>1. r = SubMagnitudes(a.s, sb, a, b)  BY <1>2, <1>9
  <2>2. Abs(exact) = Abs(X - Y) /\ exact = SignedBy(a.s, X - Y) /\ exact = SignedBy(sb, Y - X)
    BY <1>1, <1>3, <1>6, <1>9 DEF Abs, SignedBy
  <2>3. /\ r \in Floats /\ Normal(r)
        /\ \/ r.s = sb /\ Worth(r) - (Y - X) \in 0 .. Power[b.e] - 1
           \/ r.s = a.s /\ Worth(r) - (X - Y) \in 0 .. Power[a.e] - 1
    BY <1>1, <1>3, <1>5, <1>7, <2>1, <2>2, MagnitudesSubtract DEF X, Y
  <2>4. Value(r) = SignedBy(r.s, Worth(r)) /\ Worth(r) \in Nat  BY <2>3, NormalFloats
  <2>5. Power[a.e] \in Nat /\ Power[b.e] \in Nat  BY NormalFloats, PowerRuns
  <2>6. CASE r.s = sb /\ Worth(r) - (Y - X) \in 0 .. Power[b.e] - 1
    <3>1. Abs(Value(r) - exact) < Ulp(b)  BY <1>1, <1>3, <2>2, <2>4, <2>5, <2>6 DEF Abs, SignedBy, Ulp
    <3> QED  BY <3>1
  <2>7. CASE r.s = a.s /\ Worth(r) - (X - Y) \in 0 .. Power[a.e] - 1
    <3>1. Abs(Value(r) - exact) < Ulp(a)  BY <1>1, <2>2, <2>4, <2>5, <2>7 DEF Abs, SignedBy, Ulp
    <3> QED  BY <3>1
  <2> QED  BY <2>3, <2>6, <2>7
<1> QED  BY <1>8, <1>9
-----------------------------------------------------------------------------
(* Float128: products and quotients.                                        *)

\* The numbers with the implicit bit as their leading one.
Significands == Hidden .. 2 * Hidden - 1

\* The product of two significands has their lengths together, or a bit less.
LEMMA ProductOfSignificands ==
  ASSUME NEW A \in Significands, NEW B \in Significands
  PROVE  /\ A * B \in Nat
         /\ A * B >= Hidden * (2 * Hidden) =>
              /\ (A * B) \div (2 * Hidden) \in Significands
              /\ A * B - ((A * B) \div (2 * Hidden)) * (2 * Hidden) \in 0 .. 2 * Hidden - 1
         /\ ~ (A * B >= Hidden * (2 * Hidden)) =>
              /\ (A * B) \div Hidden \in Significands
              /\ A * B - ((A * B) \div Hidden) * Hidden \in 0 .. Hidden - 1
<1> DEFINE P == Hidden
           p == A * B
<1>1. P \in Nat \ {0} /\ A \in P .. 2 * P - 1 /\ B \in P .. 2 * P - 1
  BY WidthsAreSound DEF FloatWidths, Significands
<1> HIDE DEF P
<1>2. p \in Nat /\ P * P <= p /\ p < (2 * P) * (2 * P)
  <2>1. P * P <= A * P /\ P * A <= B * A  BY <1>1, ProductsGrow
  <2>2. A * P = P * A /\ B * A = A * B /\ P * P \in Nat /\ A * B \in Int /\ A * P \in Int  BY <1>1
  <2>3. A * B <= (2 * P) * B /\ (B + 1) * (2 * P) <= (2 * P) * (2 * P)  BY <1>1, ProductsGrow
  <2>4. (B + 1) * (2 * P) = (2 * P) * B + 2 * P /\ (2 * P) * B \in Int /\ (2 * P) * (2 * P) \in Int  BY <1>1
  <2> QED  BY <1>1, <2>1, <2>2, <2>3, <2>4
<1> HIDE DEF p
<1>3. ASSUME NEW d \in Nat \ {0}, P * d <= p, p < (2 * P) * d
      PROVE  p \div d \in P .. 2 * P - 1 /\ p - (p \div d) * d \in 0 .. d - 1
  <2> DEFINE q == p \div d
             c == p % d
  <2>1. q \in Int /\ c \in 0 .. d - 1 /\ p = q * d + c
    <3>1. p \in Int  BY <1>2
    <3> QED  BY <3>1, Divided
  <2> HIDE DEF q, c
  <2>2. q * d \in Int  BY <2>1
  <2>3. P <= q
    <3>1. SUFFICES ASSUME q + 1 <= P PROVE FALSE  BY <1>1, <2>1
    <3>2. (q + 1) * d <= P * d  BY <1>1, <2>1, <3>1, ProductsGrow
    <3>3. (q + 1) * d = q * d + d /\ P * d \in Int  BY <1>1, <2>1
    <3> QED  BY <1>2, <1>3, <2>1, <2>2, <3>2, <3>3
  <2>4. q < 2 * P
    <3>1. SUFFICES ASSUME 2 * P <= q PROVE FALSE  BY <1>1, <2>1
    <3>2. (2 * P) * d <= q * d  BY <1>1, <2>1, <3>1, ProductsGrow
    <3>3. (2 * P) * d \in Int  BY <1>1
    <3> QED  BY <1>2, <1>3, <2>1, <2>2, <3>2, <3>3
  <2>5. q \in P .. 2 * P - 1 /\ p - q * d \in 0 .. d - 1  BY <1>1, <2>1, <2>2, <2>3, <2>4
  <2> QED  BY <2>5 DEF q
<1>4. p >= P * (2 * P) => p \div (2 * P) \in P .. 2 * P - 1 /\ p - (p \div (2 * P)) * (2 * P) \in 0 .. 2 * P - 1
  <2>1. 2 * P \in Nat \ {0}  BY <1>1
  <2>2. P * (2 * P) \in Int  BY <1>1
  <2>3. p >= P * (2 * P) => P * (2 * P) <= p  BY <1>2, <2>2
  <2> QED  BY <1>2, <1>3, <2>1, <2>3
<1>5. ~ (p >= P * (2 * P)) => p \div P \in P .. 2 * P - 1 /\ p - (p \div P) * P \in 0 .. P - 1
  <2>1. P * (2 * P) = (2 * P) * P /\ (2 * P) * P \in Int  BY <1>1
  <2>2. ~ (p >= P * (2 * P)) => p < (2 * P) * P  BY <1>2, <2>1
  <2> QED  BY <1>1, <1>2, <1>3, <2>2
<1> QED  BY <1>2, <1>4, <1>5 DEF p, P, Significands

\* A product is truncated to a significand.
LEMMA ProductsAreTruncated ==
  ASSUME NEW a \in Floats, NEW b \in Floats, Normal(a), Normal(b)
  PROVE  ProductIsTruncated(a, b, Mul(a, b))
<1> DEFINE A == Significand(a)
           B == Significand(b)
           P == Hidden
           M == MantBits
           p == A * B
           e == a.e + b.e - Bias
           s == (a.s + b.s) % 2
           r == Mul(a, b)
<1>1. /\ A \in Significands /\ B \in Significands /\ a.e \in Nat /\ b.e \in Nat /\ s \in 0 .. 1
      /\ ~ IsNan(a) /\ ~ IsInf(a) /\ ~ IsZero(a) /\ ~ IsNan(b) /\ ~ IsInf(b) /\ ~ IsZero(b)
  <2>1. a.s \in 0 .. 1 /\ b.s \in 0 .. 1  BY NormalFloats
  <2>2. s \in 0 .. 1  BY <2>1
  <2> QED  BY <2>2, NormalFloats DEF Significands
<1>2. P \in Nat \ {0} /\ M \in Nat /\ Power[M + 1] = 2 * P /\ Power[M] = P /\ Bias \in Nat /\ ExpMask \in Nat
  BY WidthsAreSound DEF FloatWidths, Hidden
<1>3. Power[2 * M + 1] = P * (2 * P)
  <2> HIDE DEF M
  <2>1. M + 1 \in Nat /\ M + (M + 1) = 2 * M + 1  BY <1>2
  <2>2. Power[M + (M + 1)] = Power[M] * Power[M + 1]  BY <1>2, <2>1, PowersMultiply
  <2> QED  BY <1>2, <2>1, <2>2
<1>4. r = IF p >= P * (2 * P) THEN Pack(s, e + 1, p \div (2 * P)) ELSE Pack(s, e, p \div P)
  <2>1. r = IF p >= Power[2 * M + 1] THEN RoundPack(s, e + 1, p \div Power[M + 1], 0)
            ELSE RoundPack(s, e, p \div Power[M], 0)
    BY <1>1 DEF Mul
  <2>2. \A x, f, h : RoundPack(x, f, h, 0) = Pack(x, f, h)  BY DEF RoundPack
  <2> HIDE DEF p, e, s, r, P, M
  <2> QED  BY <1>2, <1>3, <2>1, <2>2
<1>5. SUFFICES ASSUME e \in 1 .. ExpMask - 2
               PROVE  /\ r.s = s /\ r.e \in {e, e + 1}
                      /\ p - Significand(r) * Power[M + (r.e - e)] \in 0 .. Power[M + (r.e - e)] - 1
  BY DEF ProductIsTruncated
<1> HIDE DEF A, B, e, s, r, M
<1>6. /\ p >= P * (2 * P) => p \div (2 * P) \in Significands /\ p - (p \div (2 * P)) * (2 * P) \in 0 .. 2 * P - 1
      /\ ~ (p >= P * (2 * P)) => p \div P \in Significands /\ p - (p \div P) * P \in 0 .. P - 1
  BY <1>1, ProductOfSignificands
<1> HIDE DEF p
<1>7. ASSUME NEW f \in 0 .. ExpMask, NEW h \in Significands, r = Pack(s, f, h)
      PROVE  r.s = s /\ r.e = f /\ Significand(r) = h
  BY <1>1, <1>7, PackedFloat DEF Significands
<1>8. CASE p >= P * (2 * P)
  <2>1. r.s = s /\ r.e = e + 1 /\ Significand(r) = p \div (2 * P)
    <3>1. e + 1 \in 0 .. ExpMask  BY <1>2, <1>5
    <3> QED  BY <1>4, <1>6, <1>7, <1>8, <3>1
  <2>2. M + (r.e - e) = M + 1  BY <1>2, <1>5, <2>1
  <2> QED  BY <1>2, <1>6, <1>8, <2>1, <2>2
<1>9. CASE ~ (p >= P * (2 * P))
  <2>1. r.s = s /\ r.e = e /\ Significand(r) = p \div P
    <3>1. e \in 0 .. ExpMask  BY <1>2, <1>5
    <3> QED  BY <1>4, <1>6, <1>7, <1>9, <3>1
  <2>2. M + (r.e - e) = M  BY <1>2, <1>5, <2>1
  <2> QED  BY <1>2, <1>6, <1>9, <2>1, <2>2
<1> QED  BY <1>8, <1>9

\* The dividend is halved until it is below the divisor, which is below twice it
\* unless both are the same odd number: the quotient has its leading bit.
LEMMA QuotientOfSignificands ==
  ASSUME NEW A \in Significands, NEW B \in Significands, ~ (A = B /\ A % 2 = 1)
  PROVE  LET D == IF A >= B THEN A \div 2 ELSE A
             Q == Udiv(D, B)
         IN /\ Q \in 2 * Hidden .. 4 * Hidden - 2
            /\ D * (4 * Hidden) - Q * B \in 0 .. B - 1
            /\ D \in Nat /\ (A >= B => A - 2 * D \in 0 .. 1)
<1> DEFINE P == Hidden
           D == IF A >= B THEN A \div 2 ELSE A
           X == D * (4 * P)
           Q == X \div B
           c == X % B
<1>1. P \in Nat \ {0} /\ A \in P .. 2 * P - 1 /\ B \in P .. 2 * P - 1 /\ Power[MantBits + 2] = 4 * P
  BY WidthsAreSound DEF FloatWidths, Significands
<1>2. Udiv(D, B) = Q  BY <1>1 DEF Udiv
<1> HIDE DEF P
<1>3. D \in 0 .. B - 1 /\ B <= 2 * D /\ (A >= B => A - 2 * D \in 0 .. 1)
  <2>1. CASE A >= B
    <3>1. D = A \div 2 /\ A = 2 * (A \div 2) + (A % 2) /\ A % 2 \in 0 .. 1  BY <1>1, <2>1
    <3> HIDE DEF D
    <3> QED  BY <1>1, <2>1, <3>1
  <2>2. CASE ~ (A >= B)
    <3>1. D = A  BY <2>2
    <3> HIDE DEF D
    <3> QED  BY <1>1, <2>2, <3>1
  <2> QED  BY <2>1, <2>2
<1> HIDE DEF D
<1>4. X \in Int /\ D * P \in Int /\ B * P \in Int  BY <1>1, <1>3
<1> HIDE DEF X
<1>5. Q \in Int /\ c \in 0 .. B - 1 /\ X = Q * B + c
  <2>1. B \in Nat \ {0}  BY <1>1
  <2> QED  BY <1>4, <2>1, Divided
<1> HIDE DEF Q, c
<1>6. Q * B \in Int /\ X - Q * B \in 0 .. B - 1
  <2>1. Q * B \in Int  BY <1>1, <1>5
  <2> QED  BY <1>1, <1>5, <2>1
<1>7. 2 * P <= Q
  <2>1. SUFFICES ASSUME Q + 1 <= 2 * P PROVE FALSE  BY <1>1, <1>5
  <2>2. (Q + 1) * B <= (2 * P) * B  BY <1>1, <1>5, <2>1, ProductsGrow
  <2>3. B * (2 * P) <= (2 * D) * (2 * P)  BY <1>1, <1>3, ProductsGrow
  <2>4. (Q + 1) * B = Q * B + B /\ (2 * P) * B = 2 * (B * P) /\ B * (2 * P) = 2 * (B * P)
    BY <1>1, <1>5
  <2>5. (2 * D) * (2 * P) = 4 * (D * P) /\ X = 4 * (D * P)  BY <1>1, <1>3 DEF X
  <2> QED  BY <1>1, <1>4, <1>6, <2>2, <2>3, <2>4, <2>5
<1>8. Q <= 4 * P - 2
  <2>1. SUFFICES ASSUME 4 * P - 1 <= Q PROVE FALSE  BY <1>1, <1>5
  <2>2. (4 * P - 1) * B <= Q * B  BY <1>1, <1>5, <2>1, ProductsGrow
  <2>3. D * (4 * P) <= (B - 1) * (4 * P)  BY <1>1, <1>3, ProductsGrow
  <2>4. (4 * P - 1) * B = 4 * (B * P) - B /\ (B - 1) * (4 * P) = 4 * (B * P) - 4 * P  BY <1>1
  <2> QED  BY <1>1, <1>4, <1>6, <2>2, <2>3, <2>4 DEF X
<1>9. Q \in 2 * P .. 4 * P - 2  BY <1>1, <1>5, <1>7, <1>8
<1> QED  BY <1>2, <1>3, <1>6, <1>9 DEF P, D, Q, X

\* A bit more than a significand is rounded to the nearest one, and never grows.
LEMMA RoundedToEven ==
  ASSUME NEW s, NEW e, NEW Q \in 2 * Hidden .. 4 * Hidden - 2
  PROVE  \E h \in Significands : RoundPack(s, e, Q, 1) = Pack(s, e, h) /\ 2 * h - Q \in -1 .. 1
<1> DEFINE P == Hidden
           k == Q \div 2
           h == IF Q % 2 = 1 /\ k % 2 = 1 THEN k + 1 ELSE k
<1>1. P \in Nat \ {0} /\ Power[MantBits + 1] = 2 * P /\ Q \in 2 * P .. 4 * P - 2
  BY WidthsAreSound DEF FloatWidths
<1>2. Power[0] = 1 /\ Power[1] = 2
  <2>1. Power[0] = 1 /\ Power[0 + 1] = 2 * Power[0]  BY PowerRuns
  <2> QED  BY <2>1
<1> HIDE DEF P
<1>3. Q \in Int /\ Q \div 1 = Q /\ Q % 1 = 0  BY <1>1
<1>4. RoundPack(s, e, Q, 1) =
        IF h = 0 THEN Zero(s) ELSE IF h >= 2 * P THEN Pack(s, e + 1, h \div 2) ELSE Pack(s, e, h)
  <2>1. Q \div Power[1] = k /\ Q \div Power[1 - 1] = Q /\ Q % Power[1 - 1] = 0  BY <1>2, <1>3
  <2>2. ~ (1 <= 0)  OBVIOUS
  <2> HIDE DEF k
  <2> QED  BY <1>1, <2>1, <2>2 DEF RoundPack
<1>5. h \in P .. 2 * P - 1 /\ 2 * h - Q \in -1 .. 1
  <2>1. k \in Int /\ Q = 2 * k + (Q % 2) /\ Q % 2 \in 0 .. 1  BY <1>1
  <2> HIDE DEF k
  <2> QED  BY <1>1, <2>1
<1> HIDE DEF h
<1>6. RoundPack(s, e, Q, 1) = Pack(s, e, h)  BY <1>1, <1>4, <1>5
<1> QED  BY <1>5, <1>6 DEF Significands, P

\* A quotient is off by less than two units, the bit that halving the dividend
\* loses included.
LEMMA QuotientsAreClose ==
  ASSUME NEW a \in Floats, NEW b \in Floats, Normal(a), Normal(b)
  PROVE  QuotientIsClose(a, b, Div(a, b))
<1> DEFINE A == Significand(a)
           B == Significand(b)
           P == Hidden
           e == a.e - b.e + Bias
           s == (a.s + b.s) % 2
           D == IF A >= B THEN A \div 2 ELSE A
           Q == Udiv(D, B)
           r == Div(a, b)
           F == Power[r.e - e + 1]
<1>1. /\ A \in Significands /\ B \in Significands /\ a.e \in Nat /\ b.e \in Nat /\ s \in 0 .. 1
      /\ a.m \in Nat /\ b.m \in Nat /\ A = P + a.m /\ B = P + b.m
      /\ ~ IsNan(a) /\ ~ IsInf(a) /\ ~ IsZero(a) /\ ~ IsNan(b) /\ ~ IsInf(b) /\ ~ IsZero(b)
  <2>1. a.s \in 0 .. 1 /\ b.s \in 0 .. 1 /\ a.m \in 0 .. P - 1 /\ b.m \in 0 .. P - 1  BY NormalFloats
  <2>2. s \in 0 .. 1  BY <2>1
  <2>3. P \in Nat  BY WidthsAreSound DEF FloatWidths
  <2>4. a.m \in Nat /\ b.m \in Nat  BY <2>1, <2>3
  <2> QED  BY <2>2, <2>4, NormalFloats DEF Significands
<1>2. P \in Nat \ {0} /\ Power[MantBits + 1] = 2 * P /\ Bias \in Nat /\ ExpMask \in Nat /\ P % 2 = 0
  <2>1. MantBits - 1 \in Nat /\ (MantBits - 1) + 1 = MantBits  BY WidthsAreSound DEF FloatWidths
  <2>2. P = 2 * Power[MantBits - 1] /\ Power[MantBits - 1] \in Nat  BY <2>1, PowerRuns DEF Hidden
  <2>3. P % 2 = 0  BY <2>2
  <2> QED  BY <2>3, WidthsAreSound DEF FloatWidths
<1>3. SUFFICES ASSUME e \in 2 .. ExpMask - 2, ~ (a.m = b.m /\ a.m % 2 = 1)
               PROVE  /\ r.s = s /\ r.e \in {e - 1, e}
                      /\ Abs(A * Power[MantBits + 1] - B * Significand(r) * F) <= 2 * B * F
  BY DEF QuotientIsClose
<1>4. A \in P .. 2 * P - 1 /\ B \in P .. 2 * P - 1  BY <1>1 DEF Significands
<1>5. r = RoundPack(s, IF A >= B THEN e ELSE e - 1, Q, 1)
  <2>1. r = RoundPack(s, IF A >= B THEN (a.e - b.e + Bias - 1) + 1 ELSE a.e - b.e + Bias - 1,
                      Quotient(a, b), 1)
    BY <1>1 DEF Div
  <2>2. Quotient(a, b) = Q  BY DEF Quotient, Dividend
  <2>3. (a.e - b.e + Bias - 1) + 1 = e /\ a.e - b.e + Bias - 1 = e - 1  BY <1>1, <1>2
  <2> HIDE DEF Q, r, s, e, A, B
  <2> QED  BY <2>1, <2>2, <2>3
<1> HIDE DEF A, B, P, e, s, r
<1>6. ~ (A = B /\ A % 2 = 1)  BY <1>1, <1>2, <1>3
<1>7. /\ Q \in 2 * P .. 4 * P - 2 /\ D * (4 * P) - Q * B \in 0 .. B - 1
      /\ D \in Nat /\ (A >= B => A - 2 * D \in 0 .. 1)
  BY <1>1, <1>6, QuotientOfSignificands DEF P
<1>d. ~ (A >= B) => D = A  OBVIOUS
<1> HIDE DEF D, Q
<1>8. PICK h \in Significands :
        r = Pack(s, IF A >= B THEN e ELSE e - 1, h) /\ 2 * h - Q \in -1 .. 1
  BY <1>5, <1>7, RoundedToEven DEF P
<1>9. h \in P .. 2 * P - 1  BY <1>8 DEF Significands, P
<1>10. r.s = s /\ r.e = (IF A >= B THEN e ELSE e - 1) /\ Significand(r) = h
  <2>1. (IF A >= B THEN e ELSE e - 1) \in 0 .. ExpMask  BY <1>2, <1>3
  <2> QED  BY <1>1, <1>8, <2>1, PackedFloat DEF Significands
<1> DEFINE x == 2 * h - Q
           c == D * (4 * P) - Q * B
<1>11. x \in -1 .. 1 /\ c \in 0 .. B - 1  BY <1>7, <1>8
<1>12. h * B \in Int /\ D * P \in Int /\ A * P \in Int  BY <1>2, <1>4, <1>7, <1>9
<1>13. 4 * (D * P) - 2 * (h * B) = c - x * B /\ x * B \in -B .. B
  <2>1. Q = 2 * h - x  BY <1>7, <1>9
  <2> HIDE DEF x
  <2>2. (2 * h - x) * B = 2 * (h * B) - x * B /\ x * B \in Int  BY <1>4, <1>9, <1>11
  <2>3. c = 4 * (D * P) - Q * B  BY <1>2, <1>4, <1>7
  <2>4. x = -1 \/ x = 0 \/ x = 1  BY <1>11
  <2>5. x * B \in -B .. B
    <3>1. B \in Int /\ 0 <= B /\ (-1) * B = -B /\ 0 * B = 0 /\ 1 * B = B  BY <1>2, <1>4
    <3> QED  BY <2>4, <3>1
  <2> HIDE DEF c
  <2> QED  BY <1>11, <1>12, <2>1, <2>2, <2>3, <2>5
<1> HIDE DEF c, x
<1>14. CASE A >= B
  <2>1. r.e - e + 1 = 1  BY <1>3, <1>10, <1>14
  <2>2. F = 2
    <3>1. Power[0] = 1 /\ Power[0 + 1] = 2 * Power[0]  BY PowerRuns
    <3> QED  BY <2>1, <3>1
  <2>3. A * P = 2 * (D * P) + (A - 2 * D) * P /\ (A - 2 * D) * P \in 0 .. P
    <3> DEFINE o == A - 2 * D
    <3>1. o \in 0 .. 1 /\ A = 2 * D + o  BY <1>4, <1>7, <1>14
    <3> HIDE DEF o
    <3>2. (2 * D + o) * P = 2 * (D * P) + o * P  BY <1>2, <1>7, <3>1
    <3>3. o * P \in 0 .. P
      <4>1. o = 0 \/ o = 1  BY <3>1
      <4> QED  BY <1>2, <4>1
    <3> QED  BY <3>1, <3>2, <3>3 DEF o
  <2>4. A * (2 * P) - B * h * 2 = 2 * (A * P) - 2 * (h * B)  BY <1>2, <1>4, <1>9
  <2> DEFINE t == (A - 2 * D) * P
  <2> HIDE DEF t
  <2>5. 2 * (A * P) - 2 * (h * B) \in -(4 * B) .. 4 * B
    <3>1. A * P = 2 * (D * P) + t /\ t \in 0 .. P  BY <2>3 DEF t
    <3> QED  BY <1>2, <1>4, <1>11, <1>12, <1>13, <3>1
  <2>6. Abs(A * (2 * P) - B * h * 2) <= 4 * B  BY <1>4, <1>12, <2>4, <2>5 DEF Abs
  <2>7. 2 * B * 2 = 4 * B  BY <1>4
  <2> HIDE DEF F
  <2> QED  BY <1>2, <1>10, <1>14, <2>2, <2>6, <2>7
<1>15. CASE ~ (A >= B)
  <2>1. r.e - e + 1 = 0  BY <1>3, <1>10, <1>15
  <2>2. F = 1  BY <2>1, PowerRuns
  <2>3. D = A  BY <1>15, <1>d
  <2>4. A * (2 * P) - B * h * 1 = 2 * (A * P) - h * B  BY <1>2, <1>4, <1>9
  <2>5. 2 * (A * P) - h * B \in -(2 * B) .. 2 * B  BY <1>2, <1>4, <1>11, <1>12, <1>13, <2>3
  <2>6. Abs(A * (2 * P) - B * h * 1) <= 2 * B  BY <1>4, <1>12, <2>4, <2>5 DEF Abs
  <2>7. 2 * B * 1 = 2 * B  BY <1>4
  <2> HIDE DEF F
  <2> QED  BY <1>2, <1>10, <1>15, <2>2, <2>6, <2>7
<1> QED  BY <1>14, <1>15

\* A negation has the opposite value.
LEMMA NegationsAreExact ==
  ASSUME NEW a \in Floats, Normal(a)
  PROVE  Value(Neg(a)) = -Value(a)
<1> DEFINE r == Neg(a)
<1>1. a.s \in 0 .. 1 /\ a.e \in 0 .. ExpMask /\ a.m \in 0 .. Power[MantBits] - 1
      /\ a = [s |-> a.s, e |-> a.e, m |-> a.m]
  BY DEF Floats
<1>2. r = [s |-> 1 - a.s, e |-> a.e, m |-> a.m]  BY <1>1 DEF Neg
<1>3. r.s = 1 - a.s /\ r.e = a.e /\ r.m = a.m  BY <1>2
<1>4. 1 - a.s \in 0 .. 1  BY <1>1
<1>5. r \in Floats  BY <1>1, <1>2, <1>4 DEF Floats
<1> HIDE DEF r
<1>6. Normal(r)  BY <1>3 DEF Normal
<1>7. Worth(r) = Worth(a)  BY <1>3 DEF Worth, Significand
<1>8. Value(r) = SignedBy(1 - a.s, Worth(a)) /\ Value(a) = SignedBy(a.s, Worth(a)) /\ Worth(a) \in Nat
  BY <1>3, <1>5, <1>6, <1>7, NormalFloats
<1> QED  BY <1>1, <1>4, <1>8 DEF SignedBy, r

\* An arithmetic call on normal operands is within a unit or two of the exact result.
LEMMA ArithCallIsClose ==
  ASSUME CallArith
  PROVE  ArithmeticIsClose'
<1>1. PICK op \in {"__addtf3", "__subtf3", "__multf3", "__divtf3", "__negtf2"},
           a \in Operands, b \in Operands :
        \E r \in Arith(op, a, b) :
          call' = [kind |-> "arith", op |-> op, a |-> a, b |-> b, result |-> r]
  BY DEF CallArith
<1>r. PICK r \in Arith(op, a, b) :
        call' = [kind |-> "arith", op |-> op, a |-> a, b |-> b, result |-> r]
  BY <1>1
<1>2. call'.op = op /\ call'.a = a /\ call'.b = b /\ call'.result = r  BY <1>r
<1>3. a \in Floats /\ b \in Floats  BY DEF Operands
<1>4. SUFFICES ASSUME Normal(a), Normal(b)
               PROVE  CASE op = "__addtf3" -> SumIsClose(a, b, Value(a) + Value(b), r)
                        [] op = "__subtf3" -> SumIsClose(a, b, Value(a) - Value(b), r)
                        [] op = "__multf3" -> ProductIsTruncated(a, b, r)
                        [] op = "__divtf3" -> QuotientIsClose(a, b, r)
                        [] op = "__negtf2" -> Value(r) = -Value(a)
  BY <1>2 DEF ArithmeticIsClose
<1>5. Value(a) \in Int /\ Value(b) \in Int  BY <1>3, <1>4, NormalFloats DEF SignedBy
<1>6. CASE op = "__addtf3"
  <2>1. r \in AddSub(a, b, 0)  BY <1>6 DEF Arith
  <2>2. SumIsClose(a, b, Value(a) + SignedBy(0, Value(b)), r)  BY <1>3, <1>4, <2>1, SumsAreClose
  <2>3. SignedBy(0, Value(b)) = Value(b)  BY DEF SignedBy
  <2> QED  BY <1>6, <2>2, <2>3
<1>7. CASE op = "__subtf3"
  <2>1. r \in AddSub(a, b, 1)  BY <1>7 DEF Arith
  <2>2. SumIsClose(a, b, Value(a) + SignedBy(1, Value(b)), r)  BY <1>3, <1>4, <2>1, SumsAreClose
  <2>3. Value(a) + SignedBy(1, Value(b)) = Value(a) - Value(b)  BY <1>5 DEF SignedBy
  <2> QED  BY <1>7, <2>2, <2>3
<1>8. CASE op = "__multf3"
  <2>1. r = Mul(a, b)  BY <1>8 DEF Arith
  <2> QED  BY <1>3, <1>4, <1>8, <2>1, ProductsAreTruncated
<1>9. CASE op = "__divtf3"
  <2>1. r = Div(a, b)  BY <1>9 DEF Arith
  <2> QED  BY <1>3, <1>4, <1>9, <2>1, QuotientsAreClose
<1>10. CASE op = "__negtf2"
  <2>1. r = Neg(a)  BY <1>10 DEF Arith
  <2> QED  BY <1>3, <1>4, <1>10, <2>1, NegationsAreExact
<1> QED  BY <1>6, <1>7, <1>8, <1>9, <1>10
-----------------------------------------------------------------------------
(* Float128: comparisons.                                                   *)

\* The bits of a magnitude are its exponent's and its fraction's: one number.
LEMMA MagnitudesDiffer ==
  ASSUME NEW a \in Floats, NEW b \in Floats
  PROVE  /\ Magnitude(a) \in Nat /\ (IsZero(a) <=> Magnitude(a) = 0)
         /\ a = b <=> a.s = b.s /\ Magnitude(a) = Magnitude(b)
<1> DEFINE P == Hidden
<1>1. P \in Nat \ {0} /\ ExpMask \in Nat  BY WidthsAreSound DEF FloatWidths
<1>2. \A f \in Floats :
        /\ f.s \in 0 .. 1 /\ f.e \in Nat /\ f.m \in 0 .. P - 1 /\ f = [s |-> f.s, e |-> f.e, m |-> f.m]
        /\ Magnitude(f) = f.e * P + f.m
  BY <1>1 DEF Floats, Hidden, Magnitude
<1> HIDE DEF P
<1>3. a.e * P \in Nat
  <2>1. 0 * P <= a.e * P  BY <1>1, <1>2, ProductsGrow
  <2> QED  BY <1>1, <1>2, <2>1
<1>4. IsZero(a) <=> Magnitude(a) = 0
  <2>1. a.e = 0 => a.e * P = 0  BY <1>1
  <2>2. a.e # 0 => P <= a.e * P
    <3>1. SUFFICES ASSUME a.e # 0 PROVE P <= a.e * P  OBVIOUS
    <3>2. 1 <= a.e  BY <1>2, <3>1
    <3>3. 1 * P <= a.e * P  BY <1>1, <1>2, <3>2, ProductsGrow
    <3> QED  BY <1>1, <3>3
  <2> QED  BY <1>1, <1>2, <1>3, <2>1, <2>2 DEF IsZero
<1>5. ASSUME Magnitude(a) = Magnitude(b) PROVE a.e = b.e /\ a.m = b.m
  <2>1. Division(Magnitude(a), P, a.e, a.m) /\ Division(Magnitude(b), P, b.e, b.m)
    BY <1>1, <1>2 DEF Division
  <2>2. Magnitude(a) \div P = a.e /\ Magnitude(a) % P = a.m  BY <2>1, DividedOnce
  <2>3. Magnitude(b) \div P = b.e /\ Magnitude(b) % P = b.m  BY <2>1, DividedOnce
  <2> QED  BY <1>5, <2>2, <2>3
<1>6. Magnitude(a) \in Nat  BY <1>1, <1>2, <1>3
<1> QED  BY <1>2, <1>4, <1>5, <1>6

\* The comparison's sign is that of the order, unless there is none or both are zeros.
LEMMA FloatsAreOrdered ==
  ASSUME NEW a \in Floats, NEW b \in Floats, ~ Unordered(a, b), ~ (IsZero(a) /\ IsZero(b))
  PROVE  /\ Cmp(a, b) \in {-1, 0, 1} /\ NumberOrder(a) \in Int /\ NumberOrder(b) \in Int
         /\ a = b <=> NumberOrder(a) = NumberOrder(b)
         /\ Cmp(a, b) = 0 <=> NumberOrder(a) = NumberOrder(b)
         /\ Cmp(a, b) = -1 <=> NumberOrder(a) < NumberOrder(b)
<1> DEFINE x == Magnitude(a)
           y == Magnitude(b)
<1>1. /\ x \in Nat /\ y \in Nat /\ ~ (x = 0 /\ y = 0) /\ (a = b <=> a.s = b.s /\ x = y)
      /\ a.s \in 0 .. 1 /\ b.s \in 0 .. 1
  <2>1. a.s \in 0 .. 1 /\ b.s \in 0 .. 1  BY DEF Floats
  <2> QED  BY <2>1, MagnitudesDiffer
<1>2. Cmp(a, b) = IF a = b THEN 0
                  ELSE IF a.s # b.s THEN IF a.s = 1 THEN -1 ELSE 1
                  ELSE IF (x < y) = (a.s = 0) THEN -1 ELSE 1
  BY DEF Cmp
<1>3. NumberOrder(a) = (1 - 2 * a.s) * x /\ NumberOrder(b) = (1 - 2 * b.s) * y  BY DEF NumberOrder
<1> HIDE DEF x, y
<1>4. /\ NumberOrder(a) = IF a.s = 0 THEN x ELSE -x
      /\ NumberOrder(b) = IF b.s = 0 THEN y ELSE -y
  <2>1. a.s = 0 \/ a.s = 1  BY <1>1
  <2>2. b.s = 0 \/ b.s = 1  BY <1>1
  <2>3. \A z \in Nat : (1 - 2 * 0) * z = z /\ (1 - 2 * 1) * z = -z  OBVIOUS
  <2> QED  BY <1>1, <1>3, <2>1, <2>2, <2>3
<1>5. Cmp(a, b) \in {-1, 0, 1}  BY <1>2
<1>6. CASE a.s = 0 /\ b.s = 0  BY <1>1, <1>2, <1>4, <1>5, <1>6
<1>7. CASE a.s = 0 /\ b.s = 1  BY <1>1, <1>2, <1>4, <1>5, <1>7
<1>8. CASE a.s = 1 /\ b.s = 0  BY <1>1, <1>2, <1>4, <1>5, <1>8
<1>9. CASE a.s = 1 /\ b.s = 1  BY <1>1, <1>2, <1>4, <1>5, <1>9
<1> QED  BY <1>1, <1>6, <1>7, <1>8, <1>9

\* All five comparison libcalls answer for the order.
LEMMA CompareCallFollows ==
  ASSUME CallCompare
  PROVE  ComparisonsFollowTheOrder'
<1>1. PICK a \in Operands, b \in Operands :
        call' = [kind |-> "compare", a |-> a, b |-> b, eq |-> CmpEq(a, b), ge |-> CmpGe(a, b),
                 gt |-> CmpGt(a, b), le |-> CmpLe(a, b), lt |-> CmpLt(a, b)]
  BY DEF CallCompare
<1>2. /\ call'.a = a /\ call'.b = b /\ call'.eq = CmpEq(a, b) /\ call'.ge = CmpGe(a, b)
      /\ call'.gt = CmpGt(a, b) /\ call'.le = CmpLe(a, b) /\ call'.lt = CmpLt(a, b)
  BY <1>1
<1> DEFINE m == NumberOrder(a)
           n == NumberOrder(b)
           c == Cmp(a, b)
<1>3. SUFFICES ASSUME ~ Unordered(a, b), ~ (IsZero(a) /\ IsZero(b))
               PROVE  /\ (CmpEq(a, b) = 0) <=> m = n
                      /\ (CmpLt(a, b) < 0) <=> m < n
                      /\ (CmpLe(a, b) <= 0) <=> m <= n
                      /\ (CmpGt(a, b) > 0) <=> m > n
                      /\ (CmpGe(a, b) >= 0) <=> m >= n
  BY <1>2 DEF ComparisonsFollowTheOrder
<1>4. a \in Floats /\ b \in Floats  BY DEF Operands
<1>5. /\ c \in {-1, 0, 1} /\ m \in Int /\ n \in Int /\ (a = b <=> m = n)
      /\ (c = 0 <=> m = n) /\ (c = -1 <=> m < n)
  BY <1>3, <1>4, FloatsAreOrdered
<1>6. CmpEq(a, b) = IF a = b THEN 0 ELSE 1  BY <1>3 DEF CmpEq
<1>7. /\ CmpGe(a, b) = (IF c = 1 THEN 0 ELSE c) /\ CmpGt(a, b) = (IF c > 0 THEN 1 ELSE 0)
      /\ CmpLe(a, b) = c /\ CmpLt(a, b) = (IF c < 0 THEN -1 ELSE 0)
  BY DEF CmpGe, CmpGt, CmpLe, CmpLt
<1> HIDE DEF m, n, c
<1>8. c = 1 <=> m > n  BY <1>5
<1> QED  BY <1>5, <1>6, <1>7, <1>8
-----------------------------------------------------------------------------
(* Float128: integers.                                                      *)

\* A number that has the width of a significand is a float's, and comes back.
LEMMA NumbersAreFloats ==
  ASSUME NEW sign \in 0 .. 1, NEW mag \in Nat \ {0}, mag < 2 * Hidden
  PROVE  LET f == Pack(sign, Bias + BitLength(mag) - 1, Aligned(mag))
         IN f.s = sign /\ Truncated(f) = mag
<1> DEFINE b == BitLength(mag)
           M == MantBits
           e == Bias + b - 1
           h == Aligned(mag)
           q == Power[M + 1 - b]
           f == Pack(sign, e, h)
<1>1. /\ M \in Nat \ {0} /\ WordBits \in Nat /\ M + 2 <= WordBits /\ Hidden \in Nat \ {0}
      /\ Bias \in Nat /\ M <= Bias /\ ExpMask = 2 * Bias + 1
  BY WidthsAreSound DEF FloatWidths
<1>2. b \in 1 .. M + 1 /\ h \in Hidden .. 2 * Hidden - 1 /\ h = mag * q
  <2>1. mag < 4 * Hidden  BY <1>1
  <2>2. /\ b \in 1 .. M + 2 /\ h \in Hidden .. 2 * Hidden - 1 /\ b <= M + 1
        /\ h = mag * q
    BY <2>1, AlignedIsASignificand
  <2> HIDE DEF b, M, h, q
  <2> QED  BY <1>1, <2>2
<1> HIDE DEF b, M, h
<1>3. e \in 1 .. ExpMask - 1 /\ M - (e - Bias) = M + 1 - b /\ M + 1 - b \in Nat /\ M + 1 - b < WordBits
  BY <1>1, <1>2
<1> HIDE DEF e, f
<1>4. f.s = sign /\ f.e = e /\ Significand(f) = h
  <2>1. e \in 0 .. ExpMask  BY <1>1, <1>3
  <2> QED  BY <1>2, <2>1, PackedFloat DEF f
<1>5. ~ IsNan(f) /\ ~ IsInf(f) /\ ~ IsZero(f)  BY <1>1, <1>3, <1>4 DEF IsNan, IsInf, IsZero
<1>6. Truncated(f) = h \div q
  <2>1. MantBits - (f.e - Bias) = M + 1 - b  BY <1>3, <1>4 DEF M
  <2>2. Truncated(f) = IF M + 1 - b < 0 \/ M + 1 - b >= WordBits THEN 0
                       ELSE Significand(f) \div Power[M + 1 - b]
    BY <1>5, <2>1 DEF Truncated
  <2> HIDE DEF q
  <2> QED  BY <1>1, <1>3, <1>4, <2>2 DEF q
<1>7. q \in Nat \ {0}  BY <1>3, PowerRuns
<1> HIDE DEF q
<1>8. h \div q = mag
  <2>1. Division(h, q, mag, 0)  BY <1>2, <1>7 DEF Division
  <2> QED  BY <2>1, DividedOnce
<1> QED  BY <1>4, <1>6, <1>8 DEF f, e, b, h

\* The word of a negative integer is what is missing to the next power.
LEMMA WordOfAnInteger ==
  ASSUME NEW W \in Nat \ {0}, NEW i \in Int, -(2 * W) < i, i < 2 * W
  PROVE  /\ i < 0 => ((2 * W) - (i % (2 * W))) % (2 * W) = -i
         /\ i >= 0 => i % (2 * W) = i
<1> DEFINE U == 2 * W
<1>1. U \in Nat \ {0} /\ -U < i /\ i < U  OBVIOUS
<1> HIDE DEF U
<1>2. ASSUME i < 0 PROVE (U - (i % U)) % U = -i
  <2>1. Division(i, U, -1, i + U)
    <3>1. (-1) * U = -U  BY <1>1
    <3> QED  BY <1>1, <1>2, <3>1 DEF Division
  <2>2. i % U = i + U  BY <2>1, DividedOnce
  <2>3. U - (i % U) = -i  BY <1>1, <2>2
  <2>4. Division(-i, U, 0, -i)
    <3>1. 0 * U = 0  BY <1>1
    <3> QED  BY <1>1, <1>2, <3>1 DEF Division
  <2> QED  BY <2>3, <2>4, DividedOnce
<1>3. ASSUME i >= 0 PROVE i % U = i  BY <1>1, <1>3
<1> QED  BY <1>2, <1>3 DEF U

\* The integer comes back, as a signed or an unsigned one.
IntegerComesBack(f, i, bits) ==
  i = IF i < Power[bits - 1] THEN ToSigned(f, bits) ELSE ToUnsigned(f, bits)

\* A float with the integer's sign and magnitude is converted to the integer.
LEMMA IntegersComeBack ==
  ASSUME NEW bits \in Nat \ {0}, NEW i \in -Power[bits - 1] .. Power[bits] - 1,
         NEW f, f.s = (IF i < 0 THEN 1 ELSE 0), Truncated(f) = Abs(i)
  PROVE  IntegerComesBack(f, i, bits)
<1> DEFINE H == Power[bits - 1]
<1>1. H \in Nat \ {0} /\ Power[bits] = 2 * H
  <2>1. bits - 1 \in Nat /\ (bits - 1) + 1 = bits  OBVIOUS
  <2> QED  BY <2>1, PowerRuns
<1>2. i \in -H .. 2 * H - 1  BY <1>1
<1>3. ToSigned(f, bits) = IF f.s = 1 THEN IF Abs(i) > H THEN 0 ELSE -Abs(i)
                          ELSE IF Abs(i) >= H THEN 0 ELSE Abs(i)
  BY DEF ToSigned
<1>4. ToUnsigned(f, bits) = IF f.s = 1 THEN 0 ELSE Abs(i) % (2 * H)  BY <1>1 DEF ToUnsigned
<1> HIDE DEF H
<1>5. CASE i < 0
  <2>1. Abs(i) = -i /\ f.s = 1 /\ i < H /\ ~ (Abs(i) > H)  BY <1>1, <1>2, <1>5 DEF Abs
  <2>2. ToSigned(f, bits) = i  BY <1>2, <1>3, <2>1
  <2> QED  BY <2>1, <2>2 DEF IntegerComesBack, H
<1>6. CASE i >= 0 /\ i < H
  <2>1. Abs(i) = i /\ f.s # 1 /\ ~ (Abs(i) >= H)  BY <1>1, <1>2, <1>6 DEF Abs
  <2>2. ToSigned(f, bits) = i  BY <1>2, <1>3, <2>1
  <2> QED  BY <1>6, <2>2 DEF IntegerComesBack, H
<1>7. CASE i >= H
  <2>1. Abs(i) = i /\ f.s # 1 /\ ~ (i < H)  BY <1>1, <1>2, <1>7 DEF Abs
  <2>2. i % (2 * H) = i  BY <1>1, <1>2, <1>7
  <2>3. ToUnsigned(f, bits) = i  BY <1>4, <2>1, <2>2
  <2> QED  BY <2>1, <2>3 DEF IntegerComesBack, H
<1> QED  BY <1>1, <1>2, <1>5, <1>6, <1>7

\* Both ways to a float have the integer's sign and magnitude.
LEMMA IntegerCallComesBack ==
  ASSUME CallFloatInt
  PROVE  call'.kind = "int" /\ (Abs(call'.i) < Power[MantBits + 1] => call'.back = call'.i)
<1> DEFINE Float(bits, i) == IF bits = WordBits THEN FromWide(i % Power[WordBits], IF i < 0 THEN 1 ELSE 0)
                             ELSE FromInt(i)
           Back(f, bits, i) == IF i < Power[bits - 1] THEN ToSigned(f, bits) ELSE ToUnsigned(f, bits)
<1>1. PICK bits \in {IntBits, WordBits} : \E i \in -Power[bits - 1] .. Power[bits] - 1 :
        call' = [kind |-> "int", bits |-> bits, i |-> i, back |-> Back(Float(bits, i), bits, i)]
  BY DEF CallFloatInt
<1>2. PICK i \in -Power[bits - 1] .. Power[bits] - 1 :
        call' = [kind |-> "int", bits |-> bits, i |-> i, back |-> Back(Float(bits, i), bits, i)]
  BY <1>1
<1>3. call'.kind = "int" /\ call'.i = i /\ call'.back = Back(Float(bits, i), bits, i)  BY <1>2
<1>4. Power[MantBits + 1] = 2 * Hidden /\ WordBits \in Nat \ {0} /\ Hidden \in Nat
  BY WidthsAreSound DEF FloatWidths
<1>5. bits \in Nat \ {0}  BY <1>4, CallsAssumption
<1>6. Power[bits - 1] \in Nat \ {0} /\ Power[bits] = 2 * Power[bits - 1]
  <2>1. bits - 1 \in Nat /\ (bits - 1) + 1 = bits  BY <1>5
  <2> QED  BY <2>1, PowerRuns
<1>7. i \in Int /\ -Power[bits] < i /\ i < Power[bits]  BY <1>6
<1>8. SUFFICES ASSUME Abs(i) < 2 * Hidden PROVE Back(Float(bits, i), bits, i) = i
  BY <1>3, <1>4
<1> DEFINE f == Float(bits, i)
           sign == IF i < 0 THEN 1 ELSE 0
<1>9. f = IF Abs(i) = 0 THEN Zero(sign) ELSE Pack(sign, Bias + BitLength(Abs(i)) - 1, Aligned(Abs(i)))
  <2>1. CASE bits # WordBits  BY <2>1 DEF FromInt, Abs
  <2>2. CASE bits = WordBits
    <3> DEFINE u == i % Power[bits]
               mag == IF sign = 1 THEN (Power[bits] - u) % Power[bits] ELSE u
    <3>1. f = FromWide(u, sign)  BY <2>2
    <3>2. FromWide(u, sign) = IF mag = 0 THEN Zero(sign)
                              ELSE Pack(sign, Bias + BitLength(mag) - 1, Aligned(mag))
      BY <2>2 DEF FromWide
    <3>3. mag = Abs(i)
      <4> DEFINE h == Power[bits - 1]
      <4>1. h \in Nat \ {0} /\ Power[bits] = 2 * h /\ -(2 * h) < i /\ i < 2 * h  BY <1>6, <1>7
      <4> HIDE DEF h
      <4>2. /\ i < 0 => ((2 * h) - (i % (2 * h))) % (2 * h) = -i
            /\ i >= 0 => i % (2 * h) = i
        BY <1>7, <4>1, WordOfAnInteger
      <4> QED  BY <1>7, <4>1, <4>2 DEF Abs
    <3> HIDE DEF f, mag, u, sign
    <3> QED  BY <3>1, <3>2, <3>3
  <2> QED  BY <2>1, <2>2
<1>10. Abs(i) \in Nat /\ sign \in 0 .. 1  BY <1>7 DEF Abs
<1> HIDE DEF f
<1>11. f.s = sign /\ Truncated(f) = Abs(i)
  <2>1. CASE Abs(i) = 0
    <3>1. f = Zero(sign)  BY <1>9, <2>1
    <3>2. f.s = sign /\ f.e = 0 /\ f.m = 0
      <4>1. Power[ExpBits] \in Nat \ {0} /\ Power[MantBits] \in Nat \ {0}
        BY WidthsAreSound, PowerRuns DEF FloatWidths
      <4>2. 0 % Power[ExpBits] = 0 /\ 0 % Power[MantBits] = 0  BY <4>1
      <4> QED  BY <3>1, <4>2 DEF Zero, Pack
    <3>3. Truncated(f) = 0  BY <3>2 DEF Truncated, IsZero
    <3> QED  BY <2>1, <3>2, <3>3
  <2>2. CASE Abs(i) # 0
    <3>1. f = Pack(sign, Bias + BitLength(Abs(i)) - 1, Aligned(Abs(i)))  BY <1>9, <2>2
    <3>2. Abs(i) \in Nat \ {0}  BY <1>10, <2>2
    <3> HIDE DEF sign
    <3> QED  BY <1>8, <1>10, <3>1, <3>2, NumbersAreFloats
  <2> QED  BY <2>1, <2>2
<1>12. IntegerComesBack(f, i, bits)  BY <1>5, <1>11, IntegersComeBack
<1> QED  BY <1>12 DEF IntegerComesBack, f
-----------------------------------------------------------------------------
(* Float128: doubles.                                                       *)

\* The least significand of a double.
DHidden == Power[DMantBits]

\* A unit of a double's last bit, in those of a float's.
Unit == Power[Dropped]

\* The widths of the double.
DoubleWidths ==
  /\ DHidden \in Nat \ {0} /\ DHidden % 2 = 0 /\ Power[DMantBits + 1] = 2 * DHidden
  /\ Power[DMantBits - 1] \in Nat \ {0} /\ DHidden = 2 * Power[DMantBits - 1]
  /\ Power[Dropped - 1] \in Nat \ {0} /\ Unit = 2 * Power[Dropped - 1]
  /\ Hidden = DHidden * Unit /\ 2 <= Hidden

\* A double's significand and what is dropped make up a float's.
LEMMA DoubleWidthsAreSound == DoubleWidths
<1>1. /\ MantBits \in Nat \ {0} /\ DMantBits \in Nat \ {0} /\ DMantBits < MantBits
  BY WidthsAreSound DEF FloatWidths
<1>2. Dropped \in Nat \ {0} /\ Dropped - 1 \in Nat /\ (Dropped - 1) + 1 = Dropped
      /\ DMantBits + Dropped = MantBits /\ DMantBits - 1 \in Nat /\ (DMantBits - 1) + 1 = DMantBits
  BY <1>1 DEF Dropped
<1>3. Power[Dropped - 1] \in Nat \ {0} /\ Unit = 2 * Power[Dropped - 1]
  BY <1>2, PowerRuns DEF Unit
<1>4. /\ Power[DMantBits - 1] \in Nat \ {0} /\ DHidden = 2 * Power[DMantBits - 1]
      /\ Power[DMantBits + 1] = 2 * DHidden
  BY <1>1, <1>2, PowerRuns DEF DHidden
<1>5. Power[DMantBits + Dropped] = Power[DMantBits] * Power[Dropped]  BY <1>1, <1>2, PowersMultiply
<1>6. Hidden = DHidden * Unit  BY <1>2, <1>5 DEF Hidden, DHidden, Unit
<1>7. DHidden \in Nat \ {0} /\ DHidden % 2 = 0  BY <1>4
<1>8. 2 <= Hidden
  <2>1. 1 * Unit <= DHidden * Unit  BY <1>3, <1>7, ProductsGrow
  <2> QED  BY <1>3, <1>6, <2>1
<1> QED  BY <1>3, <1>4, <1>6, <1>7, <1>8 DEF DoubleWidths

\* A normal double's significand is the float's, but for the bits that it lacks.
LEMMA DoubleAsFloat ==
  ASSUME NEW d \in Doubles, d.e \in 1 .. DExpMask - 1
  PROVE  LET f == FromDouble(d)
         IN /\ f \in Floats /\ f.s = d.s /\ f.e = d.e - DBias + Bias /\ Normal(f)
            /\ Significand(f) = (DHidden + d.m) * Unit
<1> DEFINE f == FromDouble(d)
           e == d.e - DBias + Bias
           h == (DHidden + d.m) * Unit
<1>1. /\ Hidden \in Nat \ {0} /\ Bias \in Nat /\ DBias \in Nat /\ DBias <= Bias
      /\ ExpMask = 2 * Bias + 1 /\ DExpMask = 2 * DBias + 1
  BY WidthsAreSound DEF FloatWidths
<1>2. DHidden \in Nat \ {0} /\ Unit \in Nat \ {0} /\ Hidden = DHidden * Unit
  <2>1. Power[Dropped - 1] \in Nat \ {0} /\ Unit = 2 * Power[Dropped - 1]  BY DoubleWidthsAreSound DEF DoubleWidths
  <2> QED  BY <2>1, DoubleWidthsAreSound DEF DoubleWidths
<1>3. d.s \in 0 .. 1 /\ d.m \in 0 .. DHidden - 1  BY DEF Doubles, DHidden
<1>4. e \in 1 .. ExpMask - 1  BY <1>1
<1>5. f = Pack(d.s, e, d.m * Unit)  BY <1>1 DEF FromDouble, Unit, Dropped
<1>6. h = Hidden + d.m * Unit /\ d.m * Unit \in 0 .. Hidden - 1
  <2>1. (DHidden + d.m) * Unit = DHidden * Unit + d.m * Unit /\ d.m * Unit \in Int  BY <1>2, <1>3
  <2>2. 0 * Unit <= d.m * Unit /\ (d.m + 1) * Unit <= DHidden * Unit  BY <1>2, <1>3, ProductsGrow
  <2>3. 0 * Unit = 0 /\ (d.m + 1) * Unit = d.m * Unit + Unit  BY <1>2, <1>3
  <2> QED  BY <1>1, <1>2, <2>1, <2>2, <2>3
<1> DEFINE low == d.m * Unit
<1>7. h = Hidden + low /\ low \in 0 .. Hidden - 1  BY <1>6
<1> HIDE DEF low, h, e
<1>8. Pack(d.s, e, low) = Pack(d.s, e, h)
  <2>1. Division(h, Hidden, 1, low)  BY <1>1, <1>7 DEF Division
  <2>2. Division(low, Hidden, 0, low)
    <3>1. 0 * Hidden = 0  BY <1>1
    <3> QED  BY <1>1, <1>7, <3>1 DEF Division
  <2>3. h % Hidden = low /\ low % Hidden = low  BY <2>1, <2>2, DividedOnce
  <2> QED  BY <2>3 DEF Pack, Hidden
<1>9. h \in Hidden .. 2 * Hidden - 1 /\ e \in 0 .. ExpMask  BY <1>1, <1>4, <1>7
<1>10. LET r == Pack(d.s, e, h)
       IN r.s = d.s /\ r.e = e /\ Significand(r) = h /\ r \in Floats
  BY <1>3, <1>9, PackedFloat
<1>11. f = Pack(d.s, e, h)  BY <1>5, <1>8 DEF low
<1> HIDE DEF f
<1>12. f \in Floats /\ f.s = d.s /\ f.e = e /\ Significand(f) = h  BY <1>10, <1>11
<1>13. Normal(f)  BY <1>4, <1>12 DEF Normal
<1> QED  BY <1>12, <1>13 DEF f, e, h

\* A float's significand rounded to a double's, as ToDouble does.
RoundedSignificand(sig) ==
  LET kept   == sig \div Power[Dropped]
      guard  == (sig \div Power[Dropped - 1]) % 2 = 1
      sticky == sig % Power[Dropped - 1] # 0
  IN IF guard /\ (sticky \/ kept % 2 = 1) THEN kept + 1 ELSE kept

\* What is kept of a number that is some units and a rest.
LEMMA KeptAndRest ==
  ASSUME NEW k \in Int, NEW c \in 0 .. Unit - 1, NEW sig, sig = k * Unit + c
  PROVE  LET half == Power[Dropped - 1]
         IN /\ RoundedSignificand(sig) = IF c > half \/ (c = half /\ k % 2 = 1) THEN k + 1 ELSE k
            /\ sig \div Unit = k
<1> DEFINE half == Power[Dropped - 1]
           g == IF c >= half THEN 1 ELSE 0
           low == c - g * half
<1>1. half \in Nat \ {0} /\ Unit = 2 * half  BY DoubleWidthsAreSound DEF DoubleWidths
<1>2. sig \div Unit = k
  <2>1. Division(sig, Unit, k, c)  BY <1>1 DEF Division
  <2> QED  BY <2>1, DividedOnce
<1> HIDE DEF half
<1>3. g \in 0 .. 1 /\ low \in 0 .. half - 1 /\ c = g * half + low /\ (g = 1 <=> c >= half) /\ (g = 1 => low = c - half)
      /\ (g = 0 => low = c)
  <2>1. 0 * half = 0 /\ 1 * half = half  BY <1>1
  <2>2. CASE c >= half  BY <1>1, <2>1, <2>2
  <2>3. CASE ~ (c >= half)  BY <1>1, <2>1, <2>3
  <2> QED  BY <2>2, <2>3
<1> HIDE DEF g, low
<1>4. sig \div half = 2 * k + g /\ sig % half = low
  <2>1. k * (2 * half) + (g * half + low) = (2 * k + g) * half + low  BY <1>1, <1>3
  <2>2. Division(sig, half, 2 * k + g, low)  BY <1>1, <1>3, <2>1 DEF Division
  <2> QED  BY <2>2, DividedOnce
<1>5. (2 * k + g) % 2 = g  BY <1>3
<1>6. RoundedSignificand(sig) = IF g = 1 /\ (low # 0 \/ k % 2 = 1) THEN k + 1 ELSE k
  <2>1. sig \div Power[Dropped] = k /\ (sig \div Power[Dropped - 1]) % 2 = g /\ sig % Power[Dropped - 1] = low
    BY <1>2, <1>4, <1>5 DEF Unit, half
  <2> QED  BY <2>1 DEF RoundedSignificand
<1>7. g = 1 /\ (low # 0 \/ k % 2 = 1) <=> c > half \/ (c = half /\ k % 2 = 1)
  BY <1>1, <1>3
<1> QED  BY <1>2, <1>6, <1>7 DEF half

\* The significand of a double that is nearest, the even one of two.
LEMMA SignificandIsNearest ==
  ASSUME NEW sig \in Significands
  PROVE  LET mant == RoundedSignificand(sig)
             off  == mant * Unit - sig
         IN /\ mant \in DHidden .. 2 * DHidden
            /\ off \in Int /\ 2 * Abs(off) <= Unit /\ (2 * Abs(off) = Unit => mant % 2 = 0)
<1> DEFINE half == Power[Dropped - 1]
           k == sig \div Unit
           c == sig % Unit
           mant == RoundedSignificand(sig)
<1>1. /\ half \in Nat \ {0} /\ Unit = 2 * half /\ Hidden = DHidden * Unit /\ DHidden \in Nat \ {0}
      /\ Hidden \in Nat \ {0} /\ sig \in Hidden .. 2 * Hidden - 1
  BY DoubleWidthsAreSound, WidthsAreSound DEF DoubleWidths, FloatWidths, Significands
<1>2. k \in Int /\ c \in 0 .. Unit - 1 /\ sig = k * Unit + c
  <2>1. sig \in Int /\ Unit \in Nat \ {0}  BY <1>1
  <2> QED  BY <2>1, Divided
<1> HIDE DEF k, c
<1>3. mant = IF c > half \/ (c = half /\ k % 2 = 1) THEN k + 1 ELSE k  BY <1>2, KeptAndRest
<1> HIDE DEF half, mant
<1>4. k * Unit \in Int /\ Unit \in Nat \ {0}  BY <1>1, <1>2
<1>5. DHidden <= k
  <2>1. SUFFICES ASSUME k + 1 <= DHidden PROVE FALSE  BY <1>1, <1>2
  <2>2. (k + 1) * Unit <= DHidden * Unit  BY <1>1, <1>2, <1>4, <2>1, ProductsGrow
  <2>3. (k + 1) * Unit = k * Unit + Unit  BY <1>2, <1>4
  <2> QED  BY <1>1, <1>2, <1>4, <2>2, <2>3
<1>6. k < 2 * DHidden
  <2>1. SUFFICES ASSUME 2 * DHidden <= k PROVE FALSE  BY <1>1, <1>2
  <2>2. (2 * DHidden) * Unit <= k * Unit  BY <1>1, <1>2, <1>4, <2>1, ProductsGrow
  <2>3. (2 * DHidden) * Unit = 2 * (DHidden * Unit)  BY <1>1, <1>4
  <2> QED  BY <1>1, <1>2, <1>4, <2>2, <2>3
<1>7. (k + 1) * Unit = k * Unit + Unit  BY <1>2, <1>4
<1>8. CASE c > half \/ (c = half /\ k % 2 = 1)
  <2>1. mant = k + 1  BY <1>3, <1>8
  <2>2. mant * Unit - sig = Unit - c  BY <1>2, <1>4, <1>7, <2>1
  <2>3. c = half => mant % 2 = 0
    <3>1. k % 2 = 1 => (k + 1) % 2 = 0  BY <1>2
    <3> QED  BY <1>1, <1>2, <1>8, <2>1, <3>1
  <2>4. Abs(Unit - c) = Unit - c  BY <1>2, <1>4 DEF Abs
  <2>5. 2 * (Unit - c) <= Unit /\ (2 * (Unit - c) = Unit => c = half)  BY <1>1, <1>2, <1>8
  <2>6. mant \in DHidden .. 2 * DHidden /\ Unit - c \in Int  BY <1>1, <1>2, <1>4, <1>5, <1>6, <2>1
  <2> QED  BY <2>2, <2>3, <2>4, <2>5, <2>6 DEF mant
<1>9. CASE ~ (c > half \/ (c = half /\ k % 2 = 1))
  <2>1. mant = k  BY <1>3, <1>9
  <2>2. mant * Unit - sig = -c  BY <1>2, <1>4, <2>1
  <2>3. c = half => mant % 2 = 0  BY <1>2, <1>9, <2>1
  <2>4. Abs(-c) = c  BY <1>2, <1>4 DEF Abs
  <2>5. 2 * c <= Unit /\ (2 * c = Unit => c = half)  BY <1>1, <1>2, <1>9
  <2>6. mant \in DHidden .. 2 * DHidden /\ -c \in Int  BY <1>1, <1>2, <1>4, <1>5, <1>6, <2>1
  <2> QED  BY <2>2, <2>3, <2>4, <2>5, <2>6 DEF mant
<1> QED  BY <1>8, <1>9

\* What a float in the range of the doubles is rounded to.
LEMMA FloatAsDouble ==
  ASSUME NEW f \in Floats, f.e - Bias + DBias \in 1 .. DExpMask - 1
  PROVE  LET mant == RoundedSignificand(Significand(f))
             e    == f.e - Bias + DBias
         IN /\ Normal(f) /\ mant \in DHidden .. 2 * DHidden
            /\ ToDouble(f) = IF mant = 2 * DHidden THEN [s |-> f.s, e |-> e + 1, m |-> 0]
                             ELSE [s |-> f.s, e |-> e, m |-> mant - DHidden]
<1> DEFINE mant == RoundedSignificand(Significand(f))
           e == f.e - Bias + DBias
           r == IF mant >= 2 * DHidden THEN mant \div 2 ELSE mant
<1>1. /\ Bias \in Nat /\ DBias \in Nat /\ DBias <= Bias /\ ExpMask = 2 * Bias + 1 /\ DExpMask = 2 * DBias + 1
      /\ DHidden \in Nat \ {0} /\ Power[DMantBits + 1] = 2 * DHidden
  BY WidthsAreSound, DoubleWidthsAreSound DEF FloatWidths, DoubleWidths
<1>2. f.e \in Nat  BY <1>1 DEF Floats
<1>3. Normal(f)  BY <1>1, <1>2 DEF Normal
<1>4. ~ IsNan(f) /\ ~ IsInf(f) /\ ~ IsZero(f) /\ Significand(f) \in Significands
  BY <1>3, NormalFloats DEF Significands
<1>5. mant \in DHidden .. 2 * DHidden  BY <1>4, SignificandIsNearest
<1>6. e \in 1 .. DExpMask - 1 /\ ~ (e >= DExpMask) /\ ~ (e <= 0)  BY <1>1, <1>2
<1>7. ToDouble(f) = [s |-> f.s, e |-> IF mant >= 2 * DHidden THEN e + 1 ELSE e, m |-> r % DHidden]
  BY <1>1, <1>4, <1>6 DEF ToDouble, RoundedSignificand, DHidden
<1> HIDE DEF mant, e
<1>8. CASE mant = 2 * DHidden
  <2>1. r = DHidden /\ mant >= 2 * DHidden  BY <1>1, <1>8
  <2>2. DHidden % DHidden = 0
    <3>1. Division(DHidden, DHidden, 1, 0)  BY <1>1 DEF Division
    <3> QED  BY <3>1, DividedOnce
  <2> HIDE DEF r
  <2> QED  BY <1>3, <1>5, <1>7, <1>8, <2>1, <2>2 DEF mant, e
<1>9. CASE mant # 2 * DHidden
  <2>1. r = mant /\ ~ (mant >= 2 * DHidden)  BY <1>1, <1>5, <1>9
  <2>2. mant % DHidden = mant - DHidden
    <3>1. Division(mant, DHidden, 1, mant - DHidden)  BY <1>1, <1>5, <1>9 DEF Division
    <3> QED  BY <3>1, DividedOnce
  <2> HIDE DEF r
  <2> QED  BY <1>3, <1>5, <1>7, <1>9, <2>1, <2>2 DEF mant, e
<1> QED  BY <1>8, <1>9

\* Without its sign, a float is worth its magnitude.
LEMMA PositiveValue ==
  ASSUME NEW f \in Floats, Normal(f)
  PROVE  Value(Positive(f)) = Worth(f)
<1> DEFINE r == Positive(f)
<1>1. /\ f.s \in 0 .. 1 /\ f.e \in 0 .. ExpMask /\ f.m \in 0 .. Power[MantBits] - 1
      /\ f = [s |-> f.s, e |-> f.e, m |-> f.m]
  BY DEF Floats
<1>2. r = [s |-> 0, e |-> f.e, m |-> f.m]  BY <1>1 DEF Positive
<1>3. r.s = 0 /\ r.e = f.e /\ r.m = f.m  BY <1>2
<1>4. r \in Floats  BY <1>1, <1>2 DEF Floats
<1> HIDE DEF r
<1>5. Normal(r)  BY <1>3 DEF Normal
<1>6. Worth(r) = Worth(f)  BY <1>3 DEF Worth, Significand
<1>7. Value(r) = SignedBy(0, Worth(f))  BY <1>3, <1>4, <1>5, <1>6, NormalFloats
<1> QED  BY <1>7 DEF SignedBy, r

\* Rounding a significand to the nearest one rounds the float, whose exponent
\* grows if the significand does.
LEMMA DoublesAreNearest ==
  ASSUME NEW f \in Floats, f.e - Bias + DBias \in 1 .. DExpMask - 1
  PROVE  NearestDouble(f, ToDouble(f))
<1> DEFINE sig == Significand(f)
           mant == RoundedSignificand(sig)
           e == f.e - Bias + DBias
           d == ToDouble(f)
           back == FromDouble(d)
           U == Power[f.e]
           off == mant * Unit - sig
<1>1. /\ Bias \in Nat /\ DBias \in Nat /\ DBias <= Bias /\ ExpMask = 2 * Bias + 1 /\ DExpMask = 2 * DBias + 1
      /\ DHidden \in Nat \ {0} /\ DHidden % 2 = 0 /\ Unit \in Nat \ {0} /\ Hidden \in Nat \ {0}
  <2>1. Unit \in Nat \ {0}  BY DoubleWidthsAreSound DEF DoubleWidths
  <2> QED  BY <2>1, WidthsAreSound, DoubleWidthsAreSound DEF FloatWidths, DoubleWidths
<1>2. /\ Normal(f) /\ mant \in DHidden .. 2 * DHidden
      /\ d = IF mant = 2 * DHidden THEN [s |-> f.s, e |-> e + 1, m |-> 0]
             ELSE [s |-> f.s, e |-> e, m |-> mant - DHidden]
  BY FloatAsDouble
<1>3. f.s \in 0 .. 1 /\ f.e \in Nat /\ sig \in Significands /\ sig \in Nat /\ U \in Nat \ {0} /\ Worth(f) = sig * U
  <2>1. sig \in Hidden .. 2 * Hidden - 1 /\ f.e \in Nat /\ f.s \in 0 .. 1  BY <1>2, NormalFloats
  <2>2. Worth(f) = sig * U  BY DEF Worth
  <2> HIDE DEF sig
  <2> QED  BY <1>1, <2>1, <2>2, PowerRuns DEF Significands
<1>4. off \in Int /\ 2 * Abs(off) <= Unit /\ (2 * Abs(off) = Unit => mant % 2 = 0)
  BY <1>3, SignificandIsNearest
<1> HIDE DEF U, e, mant, sig, d
<1>5. d.s = f.s /\ d.m \in 0 .. DHidden - 1 /\ (mant % 2 = 0 => d.m % 2 = 0)
      /\ d.e = (IF mant = 2 * DHidden THEN e + 1 ELSE e)
  <2>1. CASE mant = 2 * DHidden  BY <1>1, <1>2, <2>1
  <2>2. CASE mant # 2 * DHidden
    <3>1. d.s = f.s /\ d.m = mant - DHidden /\ d.e = e  BY <1>2, <2>2
    <3> QED  BY <1>1, <1>2, <2>2, <3>1
  <2> QED  BY <2>1, <2>2
<1>6. e \in 1 .. DExpMask - 1 /\ f.e = e - DBias + Bias  BY <1>1, <1>3 DEF e
<1>7. CASE d.e = DExpMask
  <2>1. mant = 2 * DHidden  BY <1>1, <1>5, <1>6, <1>7
  <2>2. d.m = 0  BY <1>2, <2>1
  <2>3. back = Infinity(d.s)  BY <1>7, <2>2 DEF FromDouble
  <2>4. IsInf(back)
    <3>1. Hidden \in Nat \ {0} /\ Power[ExpBits] = ExpMask + 1  BY WidthsAreSound DEF FloatWidths
    <3>2. 0 % Power[MantBits] = 0 /\ ExpMask % Power[ExpBits] = ExpMask  BY <1>1, <3>1 DEF Hidden
    <3> QED  BY <2>3, <3>2 DEF Infinity, Pack, IsInf
  <2> QED  BY <1>5, <2>4 DEF NearestDouble, d
<1>8. CASE d.e # DExpMask
  <2>1. d.e \in 1 .. DExpMask - 1  BY <1>1, <1>5, <1>6, <1>8
  <2>2. d \in Doubles
    <3>1. d = [s |-> d.s, e |-> d.e, m |-> d.m]  BY <1>2
    <3>2. d.s \in 0 .. 1 /\ d.e \in 0 .. DExpMask /\ d.m \in 0 .. Power[DMantBits] - 1
      BY <1>1, <1>3, <1>5, <2>1 DEF DHidden
    <3> QED  BY <3>1, <3>2 DEF Doubles
  <2>3. back \in Floats /\ back.e = d.e - DBias + Bias /\ Normal(back) /\ Significand(back) = (DHidden + d.m) * Unit
    BY <2>1, <2>2, DoubleAsFloat
  <2> HIDE DEF back
  <2>4. Worth(back) = (mant * Unit) * U
    <3>1. CASE mant = 2 * DHidden
      <4>1. d.m = 0 /\ DHidden + 0 = DHidden  BY <1>1, <1>2, <3>1
      <4>2. back.e = f.e + 1  BY <1>1, <1>3, <1>5, <1>6, <2>3, <3>1
      <4>3. Power[back.e] = 2 * U  BY <1>3, <4>2, PowerRuns DEF U
      <4>4. Worth(back) = (DHidden * Unit) * (2 * U)  BY <2>3, <4>1, <4>3 DEF Worth
      <4>5. (DHidden * Unit) * (2 * U) = ((2 * DHidden) * Unit) * U  BY <1>1, <1>3
      <4> QED  BY <3>1, <4>4, <4>5
    <3>2. CASE mant # 2 * DHidden
      <4>1. DHidden + d.m = mant
        <5>1. d.m = mant - DHidden  BY <1>2, <3>2
        <5> QED  BY <1>1, <1>2, <5>1
      <4>2. back.e = f.e  BY <1>1, <1>3, <1>5, <1>6, <2>3, <3>2
      <4> QED  BY <2>3, <4>1, <4>2 DEF Worth, U
    <3> QED  BY <3>1, <3>2
  <2>5. Value(Positive(back)) - Value(Positive(f)) = off * U
    <3>1. Value(Positive(back)) = Worth(back) /\ Value(Positive(f)) = Worth(f)  BY <1>2, <2>3, PositiveValue
    <3>2. mant * Unit \in Int  BY <1>1, <1>2
    <3>3. (mant * Unit) * U - sig * U = (mant * Unit - sig) * U  BY <1>3, <3>2
    <3> QED  BY <1>3, <2>4, <3>1, <3>3
  <2> HIDE DEF off
  <2>6. Abs(off * U) = Abs(off) * U /\ Abs(off) \in Nat
    <3>1. Abs(off) \in Nat /\ (off = Abs(off) \/ off = -Abs(off))  BY <1>4 DEF Abs
    <3>2. 0 * U <= Abs(off) * U  BY <1>3, <3>1, ProductsGrow
    <3>3. Abs(off) * U \in Nat /\ (-Abs(off)) * U = -(Abs(off) * U)  BY <1>3, <3>1, <3>2
    <3> DEFINE z == Abs(off)
               v == z * U
    <3>4. z \in Nat /\ (off = z \/ off = -z) /\ v \in Nat /\ (-z) * U = -v  BY <3>1, <3>3
    <3> HIDE DEF z
    <3>5. off * U = v \/ off * U = -v  BY <3>4
    <3> HIDE DEF v
    <3>6. Abs(off * U) = v  BY <3>4, <3>5 DEF Abs
    <3> QED  BY <3>1, <3>6 DEF v, z
  <2> DEFINE z == Abs(off)
  <2>7. z \in Nat /\ 2 * z <= Unit /\ (2 * z = Unit => mant % 2 = 0)  BY <1>4, <2>6
  <2> HIDE DEF z
  <2>8. 2 * (z * U) <= Unit * U /\ (2 * (z * U) = Unit * U => 2 * z = Unit)
    <3>1. (2 * z) * U = 2 * (z * U) /\ z * U \in Int /\ Unit * U \in Int  BY <1>1, <1>3, <2>7
    <3>2. (2 * z) * U <= Unit * U  BY <1>1, <1>3, <2>7, ProductsGrow
    <3>3. ASSUME 2 * z + 1 <= Unit PROVE 2 * (z * U) < Unit * U
      <4>1. (2 * z + 1) * U <= Unit * U  BY <1>1, <1>3, <2>7, <3>3, ProductsGrow
      <4>2. (2 * z + 1) * U = 2 * (z * U) + U  BY <1>3, <2>7
      <4> QED  BY <1>3, <3>1, <4>1, <4>2
    <3> QED  BY <1>1, <2>7, <3>1, <3>2, <3>3
  <2>9. /\ 2 * Abs(off * U) <= Unit * U
        /\ 2 * Abs(off * U) = Unit * U => d.m % 2 = 0
    <3>1. Abs(off * U) = z * U  BY <2>6 DEF z
    <3> QED  BY <1>5, <2>7, <2>8, <3>1
  <2> QED  BY <1>5, <2>5, <2>9 DEF NearestDouble, Unit, Ulp, U, back, d
<1> QED  BY <1>7, <1>8

\* A double comes back, unless it is subnormal; a NaN comes back as some NaN.
LEMMA DoublesComeBack ==
  ASSUME NEW d \in Doubles, ~ (d.e = 0 /\ d.m # 0)
  PROVE  LET back == ToDouble(FromDouble(d))
         IN IF d.e = DExpMask /\ d.m # 0 THEN back.e = DExpMask /\ back.m # 0 ELSE back = d
<1> DEFINE f == FromDouble(d)
           back == ToDouble(f)
<1>1. /\ Bias \in Nat /\ DBias \in Nat /\ DBias <= Bias /\ ExpMask = 2 * Bias + 1 /\ DExpMask = 2 * DBias + 1
      /\ DHidden \in Nat \ {0} /\ Hidden \in Nat /\ 2 <= Hidden /\ Power[ExpBits] = ExpMask + 1
      /\ Power[DMantBits - 1] \in Nat \ {0}
  BY WidthsAreSound, DoubleWidthsAreSound DEF FloatWidths, DoubleWidths
<1>2. d.s \in 0 .. 1 /\ d.e \in 0 .. DExpMask /\ d.m \in 0 .. DHidden - 1 /\ d = [s |-> d.s, e |-> d.e, m |-> d.m]
  BY DEF Doubles, DHidden
<1>3. ASSUME NEW e \in 0 .. ExpMask, NEW m \in 0 .. 1
      PROVE  Pack(d.s, e, m) = [s |-> d.s, e |-> e, m |-> m]
  <2>1. e % Power[ExpBits] = e  BY <1>1
  <2>2. m % Hidden = m  BY <1>1
  <2> QED  BY <2>1, <2>2 DEF Pack, Hidden
<1>e. ExpMask \in 0 .. ExpMask /\ 0 \in 0 .. ExpMask /\ 0 \in 0 .. 1 /\ 1 \in 0 .. 1 /\ ExpMask # 0  BY <1>1
<1>p. /\ Pack(d.s, ExpMask, 1) = [s |-> d.s, e |-> ExpMask, m |-> 1]
      /\ Pack(d.s, ExpMask, 0) = [s |-> d.s, e |-> ExpMask, m |-> 0]
      /\ Pack(d.s, 0, 0) = [s |-> d.s, e |-> 0, m |-> 0]
  <2>1. Pack(d.s, ExpMask, 1) = [s |-> d.s, e |-> ExpMask, m |-> 1]  BY <1>3, <1>e
  <2>2. Pack(d.s, ExpMask, 0) = [s |-> d.s, e |-> ExpMask, m |-> 0]  BY <1>3, <1>e
  <2>3. Pack(d.s, 0, 0) = [s |-> d.s, e |-> 0, m |-> 0]  BY <1>3, <1>e
  <2> QED  BY <2>1, <2>2, <2>3
<1>4. CASE d.e = DExpMask /\ d.m # 0
  <2>1. f = NaN(d.s)  BY <1>4 DEF FromDouble
  <2>2. f = [s |-> d.s, e |-> ExpMask, m |-> 1]  BY <1>p, <2>1 DEF NaN
  <2>3. IsNan(f)  BY <2>2 DEF IsNan
  <2> HIDE DEF f
  <2>4. back = [s |-> 0, e |-> DExpMask, m |-> Power[DMantBits - 1]]  BY <2>3 DEF ToDouble
  <2>5. back.e = DExpMask /\ back.m # 0  BY <1>1, <2>4
  <2> QED  BY <1>4, <2>5 DEF f
<1>5. CASE d.e = DExpMask /\ d.m = 0
  <2>1. f = Infinity(d.s)  BY <1>5 DEF FromDouble
  <2>2. f = [s |-> d.s, e |-> ExpMask, m |-> 0]  BY <1>p, <2>1 DEF Infinity
  <2>3. IsInf(f) /\ ~ IsNan(f) /\ ~ IsZero(f) /\ f.s = d.s  BY <1>1, <2>2 DEF IsInf, IsNan, IsZero
  <2> HIDE DEF f
  <2>4. back = [s |-> f.s, e |-> DExpMask, m |-> 0]  BY <2>3 DEF ToDouble
  <2>5. back = d  BY <1>2, <1>5, <2>3, <2>4
  <2> QED  BY <1>5, <2>5 DEF f
<1>6. CASE d.e = 0
  <2>0. d.m = 0 /\ d.e # DExpMask  BY <1>1, <1>6
  <2>1. f = Zero(d.s)  BY <1>6, <2>0 DEF FromDouble
  <2>2. f = [s |-> d.s, e |-> 0, m |-> 0]  BY <1>p, <2>1 DEF Zero
  <2>3. IsZero(f) /\ ~ IsNan(f) /\ f.s = d.s  BY <1>1, <2>2 DEF IsNan, IsZero
  <2> HIDE DEF f
  <2>4. back = [s |-> f.s, e |-> 0, m |-> 0]  BY <2>3 DEF ToDouble
  <2>5. back = d  BY <1>2, <1>6, <2>0, <2>3, <2>4
  <2> QED  BY <2>0, <2>5 DEF f
<1>7. CASE d.e # 0 /\ d.e # DExpMask
  <2>1. d.e \in 1 .. DExpMask - 1  BY <1>1, <1>2, <1>7
  <2>2. f \in Floats /\ f.s = d.s /\ f.e = d.e - DBias + Bias /\ Significand(f) = (DHidden + d.m) * Unit
    BY <2>1, DoubleAsFloat
  <2> HIDE DEF f
  <2>3. f.e - Bias + DBias = d.e  BY <1>1, <1>2, <2>2
  <2> DEFINE mant == RoundedSignificand(Significand(f))
  <2>4. back = IF mant = 2 * DHidden THEN [s |-> f.s, e |-> d.e + 1, m |-> 0]
               ELSE [s |-> f.s, e |-> d.e, m |-> mant - DHidden]
    BY <2>1, <2>2, <2>3, FloatAsDouble
  <2>5. mant = DHidden + d.m
    <3> DEFINE k == DHidden + d.m
               half == Power[Dropped - 1]
    <3>1. k \in Int  BY <1>1, <1>2
    <3>2. half \in Nat \ {0} /\ Unit = 2 * half  BY DoubleWidthsAreSound DEF DoubleWidths
    <3> HIDE DEF k, half
    <3>3. 0 \in 0 .. Unit - 1 /\ k * Unit + 0 = k * Unit /\ ~ (0 > half) /\ 0 # half  BY <3>1, <3>2
    <3>4. Significand(f) = k * Unit + 0  BY <2>2, <3>3 DEF k
    <3>5. mant = IF 0 > half \/ (0 = half /\ k % 2 = 1) THEN k + 1 ELSE k
      BY <3>1, <3>3, <3>4, KeptAndRest DEF half
    <3> QED  BY <3>3, <3>5 DEF k
  <2> HIDE DEF mant, back
  <2>6. mant # 2 * DHidden /\ mant - DHidden = d.m  BY <1>1, <1>2, <2>5
  <2>7. back = d  BY <1>2, <2>2, <2>4, <2>6
  <2> QED  BY <1>7, <2>7 DEF back, f
<1> QED  BY <1>2, <1>4, <1>5, <1>6, <1>7

\* Both conversions of a double.
LEMMA ExtendCallComesBack ==
  ASSUME CallExtend
  PROVE  /\ call'.kind = "extend"
         /\ ~ (call'.d.e = 0 /\ call'.d.m # 0) =>
              IF call'.d.e = DExpMask /\ call'.d.m # 0
              THEN call'.back.e = DExpMask /\ call'.back.m # 0 ELSE call'.back = call'.d
<1>1. PICK d \in Doubles : call' = [kind |-> "extend", d |-> d, back |-> ToDouble(FromDouble(d))]
  BY DEF CallExtend
<1>2. call'.kind = "extend" /\ call'.d = d /\ call'.back = ToDouble(FromDouble(d))  BY <1>1
<1> QED  BY <1>2, DoublesComeBack

\* The rounding of a float to a double.
LEMMA TruncateCallIsNearest ==
  ASSUME CallTruncate
  PROVE  /\ call'.kind = "truncate"
         /\ call'.f.e - Bias + DBias \in 1 .. DExpMask - 1 => NearestDouble(call'.f, call'.result)
<1>1. PICK f \in Floats : call' = [kind |-> "truncate", f |-> f, result |-> ToDouble(f)]
  BY DEF CallTruncate
<1>2. call'.kind = "truncate" /\ call'.f = f /\ call'.result = ToDouble(f)  BY <1>1
<1> QED  BY <1>2, DoublesAreNearest
-----------------------------------------------------------------------------
(* The library's calls.  Every state but the first is a call that has       *)
(* returned: what holds of every kind of call, and of none, holds always.   *)

\* The bytes of a message, the buffer's junk, and what the padding adds.
Bytes(len) == {Message(len)[k] : k \in 1 .. len} \cup {Junk}

\* A message is short enough for its length to be counted.
LEMMA MessagesAreCounted ==
  ASSUME NEW len \in 0 .. MaxMessage
  PROVE  /\ Message(len) \in Seq(Bytes(len)) /\ Len(Message(len)) = len
         /\ 8 * Len(Message(len)) < Place[LengthField] /\ Junk \in Bytes(len)
<1> DEFINE byte(k) == "m" \o ToString(k)
           msg == [k \in 1 .. len |-> byte(k)]
           V == Bytes(len)
<1>1. MaxMessage \in Nat /\ len \in Nat /\ len <= MaxMessage /\ 8 * MaxMessage < Place[LengthField]
  BY CallsAssumption
<1>2. Message(len) = msg  BY DEF Message
<1> HIDE DEF byte
<1>3. Junk \in V /\ \A k \in 1 .. len : msg[k] \in V  BY <1>2 DEF Bytes
<1> HIDE DEF V
<1>4. msg \in Seq(V) /\ Len(msg) = len  BY <1>1, <1>3
<1> HIDE DEF msg
<1>5. LengthField \in Nat /\ Place[LengthField] \in Nat  BY BlockAssumption, PlaceRuns
<1>6. 8 * len < Place[LengthField]  BY <1>1, <1>5
<1> QED  BY <1>2, <1>3, <1>4, <1>6 DEF V

\* A message in one call.
LEMMA DigestCallIsStandard == CallDigest => DigestsAreStandard'
<1> SUFFICES ASSUME CallDigest PROVE DigestsAreStandard'  OBVIOUS
<1>1. PICK len \in 0 .. MaxMessage :
        call' = [kind |-> "digest", msg |-> Message(len),
                 small |-> {Sha256Hash(Message(len)), Sha224Hash(Message(len))},
                 large |-> {Sha512Hash(Message(len)), Sha384Hash(Message(len))}]
  BY DEF CallDigest
<1> DEFINE msg == Message(len)
           V == Bytes(len)
           a == Sha256Hash(msg)
           b == Sha224Hash(msg)
           c == Sha512Hash(msg)
           d == Sha384Hash(msg)
<1>2. msg \in Seq(V) /\ 8 * Len(msg) < Place[LengthField] /\ Junk \in V  BY MessagesAreCounted
<1>3. call'.msg = msg /\ call'.small = {a, b} /\ call'.large = {c, d}  BY <1>1
<1> HIDE DEF msg, V
<1>4. a.chain = StandardChain(msg, Block, LengthField)
  <2>1. a.chain = Final(Update(Init256("sha256"), msg)).chain  BY DEF a, Sha256Hash, Digest
  <2>2. "sha256" \in {"sha256", "sha224"}  OBVIOUS
  <2> HIDE DEF a
  <2> QED  BY <1>2, <2>1, <2>2, WholeIsStandard
<1>5. b.chain = StandardChain(msg, Block, LengthField)
  <2>1. b.chain = Final(Update(Init256("sha224"), msg)).chain  BY DEF b, Sha224Hash, Digest
  <2>2. "sha224" \in {"sha256", "sha224"}  OBVIOUS
  <2> HIDE DEF b
  <2> QED  BY <1>2, <2>1, <2>2, WholeIsStandard
<1>6. c.chain = StandardChain(msg, Block512, Length512)
  <2>1. c = Sha512Core("sha512", msg, 8)  BY DEF c, Sha512Hash
  <2> HIDE DEF c
  <2> QED  BY <1>2, <2>1, LargeIsStandard
<1>7. d.chain = StandardChain(msg, Block512, Length512)
  <2>1. d = Sha512Core("sha384", msg, 6)  BY DEF d, Sha384Hash
  <2> HIDE DEF d
  <2> QED  BY <1>2, <2>1, LargeIsStandard
<1> HIDE DEF a, b, c, d
<1> QED  BY <1>3, <1>4, <1>5, <1>6, <1>7 DEF DigestsAreStandard

\* A message in three pieces.
LEMMA StreamCallIsStandard == CallStream => DigestsAreStandard'
<1> SUFFICES ASSUME CallStream PROVE DigestsAreStandard'  OBVIOUS
<1> DEFINE piece(n, from, to) == SubSeq(Message(n), from + 1, to)
           context(n, i, j) == Update(Update(Update(Init256("sha256"), piece(n, 0, i)), piece(n, i, j)),
                                      piece(n, j, n))
<1>1. PICK len \in 0 .. MaxMessage, i \in 0 .. MaxMessage, j \in 0 .. MaxMessage :
        /\ i <= j /\ j <= len
        /\ call' = [kind |-> "digest", msg |-> Message(len),
                    small |-> {Digest("sha256", Final(context(len, i, j)).chain, 8)}, large |-> {}]
  BY DEF CallStream
<1> DEFINE msg == Message(len)
           V == Bytes(len)
           ctx == context(len, i, j)
           d == Digest("sha256", Final(ctx).chain, 8)
<1>2. msg \in Seq(V) /\ Len(msg) = len /\ Junk \in V  BY MessagesAreCounted
<1>3. call'.msg = msg /\ call'.small = {d} /\ call'.large = {}  BY <1>1
<1>4. i \in 0 .. len /\ j \in i .. len
  <2>1. MaxMessage \in Nat  BY CallsAssumption
  <2> QED  BY <1>1, <2>1
<1>5. ctx = Update(Update(Update(Init256("sha256"), SubSeq(msg, 0 + 1, i)), SubSeq(msg, i + 1, j)),
                   SubSeq(msg, j + 1, Len(msg)))
  BY <1>2
<1> HIDE DEF msg, V, ctx
<1>6. Final(ctx).chain = StandardChain(msg, Block, LengthField)
  <2>1. i \in 0 .. Len(msg) /\ j \in i .. Len(msg)  BY <1>2, <1>4
  <2> QED  BY <1>2, <1>5, <2>1, PiecesAreStandard
<1>7. d.chain = Final(ctx).chain  BY DEF Digest
<1> HIDE DEF d
<1> QED  BY <1>3, <1>6, <1>7 DEF DigestsAreStandard

\* The arguments of a call are texts.
LEMMA ArgumentsAreTexts ==
  /\ File \in Seq(Chars)
  /\ \A args \in {<<x>> : x \in Args} \cup (Args \X Args) : args \in Seq(Seq(Chars))
<1>1. \A x \in Args : x \in Seq(Chars)
  <2>1. ASSUME NEW n \in 0 .. MaxArg, NEW x \in [1 .. n -> Chars] PROVE x \in Seq(Chars)
    <3>1. n \in Nat  BY CallsAssumption
    <3> QED  BY <3>1
  <2> QED  BY <2>1 DEF Args
<1>2. \A x \in Seq(Chars) : <<x>> \in Seq(Seq(Chars))  OBVIOUS
<1>3. \A x, y \in Seq(Chars) : <<x, y>> \in Seq(Seq(Chars))  OBVIOUS
<1>4. File \in Seq(Chars)  BY DEF File, Chars
<1> HIDE DEF Args
<1>5. \A p \in Args \X Args : p = <<p[1], p[2]>> /\ p[1] \in Args /\ p[2] \in Args  OBVIOUS
<1> QED  BY <1>1, <1>2, <1>3, <1>4, <1>5

\* A command line that fits survives the child's parser.
LEMMA SpawnArgsSurvive == CallSpawnArgs => ArgumentsSurvive'
<1> SUFFICES ASSUME CallSpawnArgs PROVE ArgumentsSurvive'  OBVIOUS
<1>1. PICK args \in {<<x>> : x \in Args} \cup (Args \X Args) :
        call' = [kind |-> "spawn", args |-> args, line |-> CommandLine(File, args)]
  BY DEF CallSpawnArgs
<1> DEFINE line == CommandLine(File, args)
<1>2. File \in Seq(Chars) /\ args \in Seq(Seq(Chars))  BY ArgumentsAreTexts
<1>3. line # NoRoom => HoldsArguments(line, Listed(File, args))  BY <1>2, CommandLineHolds
<1>4. call'.args = args /\ call'.line = line  BY <1>1
<1> HIDE DEF line
<1>5. line # NoRoom => Len(line) < LineCap /\ Parse(line) = Listed(File, args)
  BY <1>3, LineIsParsed DEF HoldsArguments
<1> QED  BY <1>4, <1>5 DEF ArgumentsSurvive, Listed

\* What kind of call each is.
LEMMA KindsOfCalls ==
  ASSUME CallsNext
  PROVE  \/ CallVector /\ call'.kind = "vector"
         \/ CallWide /\ call'.kind = "wide"
         \/ CallDot /\ call'.kind = "dot"
         \/ CallDivide /\ call'.kind = "divide"
         \/ CallScan /\ call'.kind = "scan"
         \/ CallDigest /\ call'.kind = "digest"
         \/ CallStream /\ call'.kind = "digest"
         \/ CallSpawnArgs /\ call'.kind = "spawn"
         \/ CallArith /\ call'.kind = "arith"
         \/ CallCompare /\ call'.kind = "compare"
         \/ CallFloatInt /\ call'.kind = "int"
         \/ CallExtend /\ call'.kind = "extend"
         \/ CallTruncate /\ call'.kind = "truncate"
         \/ call'.kind = "shim"
<1>1. CallArith => call'.kind = "arith"  BY DEF CallArith
<1>2. CallCompare => call'.kind = "compare"  BY DEF CallCompare
<1>3. CallFloatInt => call'.kind = "int"  BY DEF CallFloatInt
<1>4. CallExtend => call'.kind = "extend"  BY DEF CallExtend
<1>5. CallTruncate => call'.kind = "truncate"  BY DEF CallTruncate
<1>6. CallShim => call'.kind = "shim"  BY DEF CallShim
<1>7. CallDivide => call'.kind = "divide"  BY DEF CallDivide
<1>8. CallScan => call'.kind = "scan"  BY DEF CallScan
<1>9. CallVector => call'.kind = "vector"  BY DEF CallVector
<1>10. CallWide => call'.kind = "wide"  BY DEF CallWide
<1>11. CallDot => call'.kind = "dot"  BY DEF CallDot
<1>12. CallDigest => call'.kind = "digest"  BY DEF CallDigest
<1>13. CallStream => call'.kind = "digest"  BY DEF CallStream
<1>14. CallSpawnArgs => call'.kind = "spawn"  BY DEF CallSpawnArgs
<1> QED
  BY <1>1, <1>2, <1>3, <1>4, <1>5, <1>6, <1>7, <1>8, <1>9, <1>10, <1>11, <1>12, <1>13, <1>14
  DEF CallsNext

\* The three builds of every vector kernel, that of the SSE2 and AVX2 intrinsics,
\* that of NEON and the scalar loops of simd_runtime.c, give a program the same
\* lanes for every range of the integers and every number a lane may hold, in
\* place or apart, but for the operands that Unusual names: that the scalar build
\* stores lane after lane does not show.  Inner products add the same four terms.
THEOREM VectorBuilds == CallsSpec => []VectorBuildsAgree
<1>1. CallsInit => VectorBuildsAgree  BY DEF CallsInit, NoCall, VectorBuildsAgree
<1>2. CallsNext => VectorBuildsAgree'
  <2>1. SUFFICES ASSUME CallsNext PROVE VectorBuildsAgree'  OBVIOUS
  <2>2. call'.kind \notin {"vector", "wide", "dot"} => VectorBuildsAgree'  BY DEF VectorBuildsAgree
  <2> QED
    BY <2>1, <2>2, KindsOfCalls, VectorCallAgrees, WideCallAgrees, DotCallAgrees
<1>3. VectorBuildsAgree /\ UNCHANGED call => VectorBuildsAgree'  BY DEF VectorBuildsAgree
<1> QED  BY <1>1, <1>2, <1>3, PTL DEF CallsSpec

\* The child's parser gives back every argument list that the quoting of
\* xiom_process_spawn_args fits into its buffer, up to the first empty argument,
\* whatever quotes and backslashes they hold and however long they are.
THEOREM CommandLines == CallsSpec => []ArgumentsSurvive
<1>1. CallsInit => ArgumentsSurvive  BY DEF CallsInit, NoCall, ArgumentsSurvive
<1>2. CallsNext => ArgumentsSurvive'
  <2>1. SUFFICES ASSUME CallsNext PROVE ArgumentsSurvive'  OBVIOUS
  <2>2. call'.kind # "spawn" => ArgumentsSurvive'  BY DEF ArgumentsSurvive
  <2> QED  BY <2>1, <2>2, KindsOfCalls, SpawnArgsSurvive
<1>3. ArgumentsSurvive /\ UNCHANGED call => ArgumentsSurvive'  BY DEF ArgumentsSurvive
<1> QED  BY <1>1, <1>2, <1>3, PTL DEF CallsSpec

\* Division by shifting and subtracting, and the bit scans by halves, give the
\* quotient, the remainder and the places of the definition, for every width.
THEOREM WideIntegers == CallsSpec => []WideIntegersAreExact
<1>1. CallsInit => WideIntegersAreExact  BY DEF CallsInit, NoCall, WideIntegersAreExact
<1>2. CallsNext => WideIntegersAreExact'
  <2>1. SUFFICES ASSUME CallsNext PROVE WideIntegersAreExact'  OBVIOUS
  <2>2. call'.kind \notin {"divide", "scan"} => WideIntegersAreExact'  BY DEF WideIntegersAreExact
  <2> QED  BY <2>1, <2>2, KindsOfCalls, DivideCallIsExact, ScanCallIsExact
<1>3. WideIntegersAreExact /\ UNCHANGED call => WideIntegersAreExact'  BY DEF WideIntegersAreExact
<1> QED  BY <1>1, <1>2, <1>3, PTL DEF CallsSpec

\* sha256_update and sha256_final, fed in pieces or at once, and sha512_core
\* compress the blocks of the standard's padding, for messages of every length:
\* the places where the stop byte or the length starts another block are right,
\* and nothing of the buffer's old contents is compressed.
THEOREM Digests == CallsSpec => []DigestsAreStandard
<1>1. CallsInit => DigestsAreStandard  BY DEF CallsInit, NoCall, DigestsAreStandard
<1>2. CallsNext => DigestsAreStandard'
  <2>1. SUFFICES ASSUME CallsNext PROVE DigestsAreStandard'  OBVIOUS
  <2>2. call'.kind # "digest" => DigestsAreStandard'  BY DEF DigestsAreStandard
  <2> QED  BY <2>1, <2>2, KindsOfCalls, DigestCallIsStandard, StreamCallIsStandard
<1>3. DigestsAreStandard /\ UNCHANGED call => DigestsAreStandard'  BY DEF DigestsAreStandard
<1> QED  BY <1>1, <1>2, <1>3, PTL DEF CallsSpec

\* Sums, products and quotients of the soft floats of fp128_helpers.c are within
\* a unit or two of the exact result though they have no guard digits, the
\* comparisons answer for the order, and integers and doubles come back: for all
\* operands and all widths of fraction, exponent and word that the code's
\* algorithms fit, those of a 128-bit float and a 64-bit double among them.
THEOREM FloatArithmetic == CallsSpec => []FloatsAreSound
<1>1. CallsInit => FloatsAreSound
  BY DEF CallsInit, NoCall, FloatsAreSound, ArithmeticIsClose, ComparisonsFollowTheOrder, ConversionsComeBack
<1>2. CallsNext => FloatsAreSound'
  <2>1. SUFFICES ASSUME CallsNext PROVE FloatsAreSound'  OBVIOUS
  <2>2. call'.kind # "arith" => ArithmeticIsClose'  BY DEF ArithmeticIsClose
  <2>3. call'.kind # "compare" => ComparisonsFollowTheOrder'  BY DEF ComparisonsFollowTheOrder
  <2>4. call'.kind \notin {"int", "extend", "truncate"} => ConversionsComeBack'
    BY DEF ConversionsComeBack
  <2>5. ArithmeticIsClose'  BY <2>1, <2>2, KindsOfCalls, ArithCallIsClose
  <2>6. ComparisonsFollowTheOrder'  BY <2>1, <2>3, KindsOfCalls, CompareCallFollows
  <2>7. ConversionsComeBack'
    <3>1. CallFloatInt => ConversionsComeBack'  BY IntegerCallComesBack DEF ConversionsComeBack
    <3>2. CallExtend => ConversionsComeBack'  BY ExtendCallComesBack DEF ConversionsComeBack
    <3>3. CallTruncate => ConversionsComeBack'  BY TruncateCallIsNearest DEF ConversionsComeBack
    <3> QED  BY <2>1, <2>4, <3>1, <3>2, <3>3, KindsOfCalls
  <2> QED  BY <2>5, <2>6, <2>7 DEF FloatsAreSound
<1>3. FloatsAreSound /\ UNCHANGED call => FloatsAreSound'
  BY DEF FloatsAreSound, ArithmeticIsClose, ComparisonsFollowTheOrder, ConversionsComeBack
<1> QED  BY <1>1, <1>2, <1>3, PTL DEF CallsSpec
=============================================================================
