------------------------------ MODULE JobQueue ------------------------------
(***************************************************************************)
(* What a job pool promises, without locks, rings or wakeups: accepted     *)
(* jobs form a bounded FIFO queue, a free hand takes the front one, works  *)
(* on it once and is free again.  Closing the queue stops submissions and  *)
(* nothing else.                                                           *)
(***************************************************************************)
EXTENDS Naturals, Sequences

CONSTANTS Jobs, Hands, Bound, NoJob

VARIABLES queue, hand, finished, open

jobVars == <<queue, hand, finished, open>>

Known == {queue[k] : k \in DOMAIN queue} \cup {hand[h] : h \in Hands} \cup finished

Init ==
  /\ queue = <<>>
  /\ hand = [h \in Hands |-> NoJob]
  /\ finished = {}
  /\ open = TRUE

Submit(j) ==
  /\ open /\ Len(queue) < Bound
  /\ j \notin Known
  /\ queue' = Append(queue, j)
  /\ UNCHANGED <<hand, finished, open>>

Start(h) ==
  /\ queue # <<>> /\ hand[h] = NoJob
  /\ hand' = [hand EXCEPT ![h] = Head(queue)]
  /\ queue' = Tail(queue)
  /\ UNCHANGED <<finished, open>>

Finish(h) ==
  /\ hand[h] # NoJob
  /\ finished' = finished \cup {hand[h]}
  /\ hand' = [hand EXCEPT ![h] = NoJob]
  /\ UNCHANGED <<queue, open>>

Close ==
  /\ open
  /\ open' = FALSE
  /\ UNCHANGED <<queue, hand, finished>>

Next ==
  \/ \E j \in Jobs : Submit(j)
  \/ \E h \in Hands : Start(h) \/ Finish(h)
  \/ Close

Spec == Init /\ [][Next]_jobVars
=============================================================================
