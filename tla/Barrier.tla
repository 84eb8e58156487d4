------------------------------ MODULE Barrier ------------------------------
(***************************************************************************)
(* Barrier of xiom.sync (Barrier.wait, barrier_wait): a count of arrivals  *)
(* and a generation number under a mutex, and a condition variable.  The   *)
(* last of the threads to arrive starts the next generation.               *)
(***************************************************************************)
EXTENDS Naturals, FiniteSets

CONSTANTS
  Threads,
  Rounds     \* bound on how often each thread comes to the barrier

VARIABLES
  waiting, generation, \* the two counters
  inside,              \* thread -> TRUE while it is in wait
  gen,                 \* thread -> the generation it read on arrival
  asleep,              \* threads blocked on the condition variable
  arrived, passed      \* history: how often each thread came and went

barrierVars == <<waiting, generation, inside, gen, asleep, arrived, passed>>

count == Cardinality(Threads)
-----------------------------------------------------------------------------
(* Faulty variants of the actions below, each a slip this code could have. *)
(* They are in no specification; the properties are tested against them.   *)

\* `if` for `while`: a woken thread does not look at the generation again.
FaultyLeave(t) ==
  /\ inside[t] /\ t \notin asleep
  /\ inside' = [inside EXCEPT ![t] = FALSE]
  /\ passed' = [passed EXCEPT ![t] = @ + 1]
  /\ UNCHANGED <<waiting, generation, gen, asleep, arrived>>

-----------------------------------------------------------------------------
\* Barrier.new
Init ==
  /\ waiting = 0 /\ generation = 0
  /\ inside = [t \in Threads |-> FALSE]
  /\ gen = [t \in Threads |-> 0]
  /\ asleep = {}
  /\ arrived = [t \in Threads |-> 0] /\ passed = [t \in Threads |-> 0]
-----------------------------------------------------------------------------
(* Barrier.wait *)

Arrive(t) ==
  /\ ~inside[t] /\ arrived[t] < Rounds
  /\ waiting + 1 # count
  /\ waiting' = waiting + 1
  /\ inside' = [inside EXCEPT ![t] = TRUE]
  /\ gen' = [gen EXCEPT ![t] = generation]
  /\ asleep' = asleep \cup {t}
  /\ arrived' = [arrived EXCEPT ![t] = @ + 1]
  /\ UNCHANGED <<generation, passed>>

\* The last to arrive opens the barrier and goes straight on.
ArriveLast(t) ==
  /\ ~inside[t] /\ arrived[t] < Rounds
  /\ waiting + 1 = count
  /\ waiting' = 0
  /\ generation' = generation + 1
  /\ asleep' = {}
  /\ arrived' = [arrived EXCEPT ![t] = @ + 1]
  /\ passed' = [passed EXCEPT ![t] = @ + 1]
  /\ UNCHANGED <<inside, gen>>

\* Woken, and the generation is still the same.
SleepAgain(t) ==
  /\ inside[t] /\ t \notin asleep
  /\ generation = gen[t]
  /\ asleep' = asleep \cup {t}
  /\ UNCHANGED <<waiting, generation, inside, gen, arrived, passed>>

Leave(t) ==
  /\ inside[t] /\ t \notin asleep
  /\ generation # gen[t]
  /\ inside' = [inside EXCEPT ![t] = FALSE]
  /\ passed' = [passed EXCEPT ![t] = @ + 1]
  /\ UNCHANGED <<waiting, generation, gen, asleep, arrived>>

SpuriousWakeup(t) ==
  /\ t \in asleep
  /\ asleep' = asleep \ {t}
  /\ UNCHANGED <<waiting, generation, inside, gen, arrived, passed>>

Enter(t) == Arrive(t) \/ ArriveLast(t)
Step(t)  == SleepAgain(t) \/ Leave(t)

Next == \E t \in Threads : Enter(t) \/ Step(t) \/ SpuriousWakeup(t)

Spec == Init /\ [][Next]_barrierVars
-----------------------------------------------------------------------------
(* Properties *)

TypeOK ==
  /\ waiting \in 0 .. count - 1 /\ generation \in 0 .. Rounds
  /\ inside \in [Threads -> BOOLEAN]
  /\ gen \in [Threads -> 0 .. Rounds]
  /\ asleep \subseteq {t \in Threads : inside[t]}
  /\ arrived \in [Threads -> 0 .. Rounds] /\ passed \in [Threads -> 0 .. Rounds]

\* "Block until n threads arrive": whoever has passed k times, everybody has
\* arrived k times.
NobodyPassesEarly == \A t, u \in Threads : passed[t] <= arrived[u]

\* "then release them together": nobody sleeps through a generation that is
\* complete, however soon the others come back for the next one.
NobodyIsLeftBehind == \A t \in asleep : gen[t] = generation
=============================================================================
