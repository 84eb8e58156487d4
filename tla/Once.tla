-------------------------------- MODULE Once --------------------------------
(***************************************************************************)
(* Once of xiom.sync: call_once tests an atomic state word (0 not run, 1   *)
(* in progress, 2 done), tests it again under the mutex, marks it in       *)
(* progress, gives the mutex up and runs the initialiser.  It is marked    *)
(* done without the mutex, at any moment of somebody else's call.          *)
(***************************************************************************)
EXTENDS Naturals

CONSTANT Threads

VARIABLES
  state,    \* the state word
  position, \* thread -> "before" call_once, "locking" the mutex, "claiming" with the
            \* mutex held, "running" the initialiser or "after" call_once
  runs      \* history: how often the initialiser has run to its end

onceVars == <<state, position, runs>>

Moves(t, place) == position' = [position EXCEPT ![t] = place]
-----------------------------------------------------------------------------
(* Faulty variants of the actions below, each a slip this code could have. *)
(* They are in no specification; the properties are tested against them.   *)

\* Done is announced before the initialiser runs.
FaultyClaim(t) ==
  /\ position[t] = "claiming"
  /\ state' = 2
  /\ Moves(t, "running")
  /\ UNCHANGED runs
-----------------------------------------------------------------------------
\* Once.new
Init ==
  /\ state = 0
  /\ position = [t \in Threads |-> "before"]
  /\ runs = 0

\* The test without the lock.
Test(t) ==
  /\ position[t] = "before"
  /\ Moves(t, IF state = 2 THEN "after" ELSE "locking")
  /\ UNCHANGED <<state, runs>>

\* The test under the mutex, which who finds it done gives up again.
Check(t) ==
  /\ position[t] = "locking" /\ \A u \in Threads : position[u] # "claiming"
  /\ Moves(t, IF state = 2 THEN "after" ELSE "claiming")
  /\ UNCHANGED <<state, runs>>

\* In progress, whatever the word has become since the test; the mutex is free.
Claim(t) ==
  /\ position[t] = "claiming"
  /\ state' = 1
  /\ Moves(t, "running")
  /\ UNCHANGED runs

\* f() returns and the state word becomes done, without the mutex.
Finish(t) ==
  /\ position[t] = "running"
  /\ runs' = runs + 1
  /\ state' = 2
  /\ Moves(t, "after")

Step(t) == Test(t) \/ Check(t) \/ Claim(t) \/ Finish(t)

Next == \E t \in Threads : Step(t)

Spec == Init /\ [][Next]_onceVars
-----------------------------------------------------------------------------
(* Properties *)

TypeOK ==
  /\ state \in 0 .. 2 /\ runs \in Nat
  /\ position \in [Threads -> {"before", "locking", "claiming", "running", "after"}]

\* "Run `f` exactly once"
RunsOnce == runs + (IF \E t \in Threads : position[t] = "running" THEN 1 ELSE 0) <= 1

\* "True when the initializer already ran": the word says done only after a run to
\* the end, and though a late claim may take a done one back to in progress, it is
\* done again whenever nobody runs the initialiser any more.
DoneMeansRun ==
  /\ state = 2 => runs > 0
  /\ runs > 0 /\ (\A t \in Threads : position[t] # "running") => state = 2
=============================================================================
