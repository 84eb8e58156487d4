----------------------------- MODULE SyncProgram ----------------------------
(***************************************************************************)
(* RwLock, Barrier and Once of xiom.sync in one program, as a phased       *)
(* computation uses them: each thread goes through call_once, and then in  *)
(* every round reads or writes under the lock and meets the others at the  *)
(* barrier.  Each primitive has a mutex of its own, which no call holds    *)
(* when it returns, so that their steps interleave freely; a thread is in  *)
(* one call at a time.                                                     *)
(***************************************************************************)
EXTENDS Naturals, FiniteSets

CONSTANTS
  Threads,
  Rounds     \* bound on the number of rounds

ASSUME ThreadsAssumption == IsFiniteSet(Threads) /\ Threads # {}
ASSUME RoundsAssumption  == Rounds \in Nat

VARIABLES
  lockState, access, onRead, onWrite,
  waiting, generation, inside, gen, asleep, arrived, passed,
  onceState, position, runs,
  worked     \* thread -> TRUE when its work of this round is done

Lock == INSTANCE RwLock WITH state <- lockState
Meet == INSTANCE Barrier
Initialise == INSTANCE Once WITH state <- onceState

lock    == <<lockState, access, onRead, onWrite>>
barrier == <<waiting, generation, inside, gen, asleep, arrived, passed>>
once    == <<onceState, position, runs>>
vars    == <<lock, barrier, once, worked>>

Init ==
  /\ Lock!Init /\ Meet!Init /\ Initialise!Init
  /\ worked = [t \in Threads |-> FALSE]

Ready(t) == position[t] = "after" /\ ~inside[t]
Holds(t) == access[t] \in {"reading", "writing"}

OnceStep(t) ==
  /\ Initialise!Step(t)
  /\ UNCHANGED <<lock, barrier, worked>>

\* One use of the lock in each round.
LockEnter(t) ==
  /\ Ready(t) /\ ~worked[t] /\ arrived[t] < Rounds
  /\ Lock!Enter(t)
  /\ worked' = [worked EXCEPT ![t] = TRUE]
  /\ UNCHANGED <<barrier, once>>

LockStep(t) ==
  /\ Lock!Step(t)
  /\ UNCHANGED <<barrier, once, worked>>

BarrierEnter(t) ==
  /\ Ready(t) /\ worked[t] /\ access[t] = "none"
  /\ Meet!Enter(t)
  /\ worked' = [worked EXCEPT ![t] = FALSE]
  /\ UNCHANGED <<lock, once>>

BarrierStep(t) ==
  /\ Meet!Step(t)
  /\ UNCHANGED <<lock, once, worked>>

SpuriousWakeup(t) ==
  \/ /\ Lock!SpuriousWakeup(t)
     /\ UNCHANGED <<barrier, once, worked>>
  \/ /\ Meet!SpuriousWakeup(t)
     /\ UNCHANGED <<lock, once, worked>>

ThreadStep(t) ==
  OnceStep(t) \/ LockEnter(t) \/ LockStep(t) \/ BarrierEnter(t) \/ BarrierStep(t)

Next == \E t \in Threads : ThreadStep(t) \/ SpuriousWakeup(t)

Spec == Init /\ [][Next]_vars

\* The OS runs every thread that can go on.
Fairness == \A t \in Threads : WF_vars(ThreadStep(t))

FairSpec == Spec /\ Fairness
-----------------------------------------------------------------------------
(* Properties *)

\* The lock excludes, and loses no wakeup.
LockIsSound == Lock!TypeOK /\ Lock!ReadersOrWriter /\ Lock!NoSleeperIsForgotten

\* The barrier holds everybody back and lets everybody go.
BarrierIsSound == Meet!TypeOK /\ Meet!NobodyPassesEarly /\ Meet!NobodyIsLeftBehind

\* No work is done before the initialiser has run to its end, and the state word
\* says done only then and, once all callers are through, says it for good.
InitialisedBeforeUse ==
  /\ Initialise!TypeOK /\ Initialise!DoneMeansRun
  /\ (\E t \in Threads : Holds(t)) => runs > 0

\* "Run `f` exactly once"
InitialiserRunsOnce == Initialise!RunsOnce

\* Every thread gets through all its rounds.
ProgramEnds == <>(\A t \in Threads : passed[t] = Rounds)
=============================================================================
