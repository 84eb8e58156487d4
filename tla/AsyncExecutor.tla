--------------------------- MODULE AsyncExecutor ---------------------------
(***************************************************************************)
(* The cooperative executor of xiom.async with its timers and its channel. *)
(* There is one thread and tasks cannot be suspended: a task that waits    *)
(* (Channel.recv, Channel.send, sleep_ms) calls _pump, which runs another  *)
(* task on top of it.  The state is therefore the call stack, with one     *)
(* frame for the main program and one for each task that has begun; only   *)
(* the frame on top moves.  What tasks do is left open.                    *)
(***************************************************************************)
EXTENDS Selection, SequencesExt

CONSTANTS
  Tasks,     \* tasks, each spawned or scheduled once
  Cap,       \* capacity of the channel; 0 is unbounded
  Delays,    \* the arguments of delay and sleep_ms
  MaxClock,  \* bound on the clock
  MaxSends   \* bound on the number of messages

ASSUME CapAssumption   == Cap \in Nat
ASSUME BoundAssumption == MaxClock \in Nat /\ MaxSends \in Nat /\ Delays \subseteq Nat

VARIABLES
  clock,      \* xiom_async_now_ms
  ready,      \* the ready queue; pop takes the last element
  timers,     \* the pending timers, records [deadline, task]
  stack,      \* the frames, the running one last: records [who, doing, until]
  items, closed, \* the channel
  panicked,
  pushed, received, \* history: number of messages queued, messages taken
  done              \* history: the tasks that have run to their end

exec    == <<ready, timers>>
channel == <<items, closed, pushed, received>>
asyncVars    == <<clock, exec, stack, channel, panicked, done>>

Main == "main"
Top  == Last(stack)
Code == ~panicked /\ stack # <<>> /\ Top.doing = "code"
In(place) == ~panicked /\ stack # <<>> /\ Top.doing = place

Frame(who, doing, until) == [who |-> who, doing |-> doing, until |-> until]
Goes(doing, until) ==
  stack' = [stack EXCEPT ![Len(stack)] = Frame(Top.who, doing, until)]

Waiting  == ToSet(ready) \cup {timers[k].task : k \in DOMAIN timers}
Begun    == {stack[k].who : k \in DOMAIN stack}
Unused   == Tasks \ (Waiting \cup Begun \cup done)

Full == Cap > 0 /\ Len(items) >= Cap
-----------------------------------------------------------------------------
(* Faulty variants of the actions below, each a slip this code could have. *)
(* They are in no specification; the properties are tested against them.   *)

\* The last message is taken instead of the first.
FaultyTake ==
  /\ items # <<>>
  /\ received' = Append(received, Last(items))
  /\ items' = Front(items)
  /\ UNCHANGED <<closed, pushed>>

\* Timers are fired without waiting for the first deadline.
FaultyFireTimers ==
  /\ ready = <<>> /\ timers # <<>>
  /\ ready' = [k \in DOMAIN timers |-> timers[k].task]
  /\ timers' = <<>>
  /\ UNCHANGED <<clock, stack, channel, panicked, done>>

\* The task stays in the queue while it runs.
FaultyRunReady ==
  /\ ready # <<>>
  /\ stack' = Append(stack, Frame(Last(ready), "code", 0))
  /\ UNCHANGED <<clock, exec, channel, panicked, done>>

\* The scheduler is taken for idle while timers are pending.
FaultyIdle == ready = <<>>
-----------------------------------------------------------------------------
AsyncInit ==
  /\ clock = 0
  /\ ready = <<>> /\ timers = <<>>
  /\ stack = <<Frame(Main, "code", 0)>>
  /\ items = <<>> /\ closed = FALSE
  /\ panicked = FALSE
  /\ pushed = 0 /\ received = <<>> /\ done = {}

\* Code takes time.
Tick ==
  /\ stack # <<>> /\ clock < MaxClock
  /\ clock' = clock + 1
  /\ UNCHANGED <<exec, stack, channel, panicked, done>>
-----------------------------------------------------------------------------
(* The scheduler: one ready task, or the timers.                           *)

\* AsyncExecutor.step: the task runs on top of the frame that called it.
RunReady ==
  /\ ready # <<>>
  /\ ready' = Front(ready)
  /\ stack' = Append(stack, Frame(Last(ready), "code", 0))
  /\ UNCHANGED <<clock, timers, channel, panicked, done>>

\* AsyncExecutor.fire_due_timers: sleep until the earliest deadline, or a
\* little longer, and make every timer ready that is then due.
FireTimers ==
  LET earliest == CHOOSE d \in {timers[k].deadline : k \in DOMAIN timers} :
                    \A k \in DOMAIN timers : d <= timers[k].deadline
      due == {k \in DOMAIN timers : timers[k].deadline <= clock'}
      fired == Selected(timers, due)
  IN  /\ ready = <<>> /\ timers # <<>>
      /\ clock' \in clock .. MaxClock /\ clock' >= earliest
      /\ earliest > clock \/ clock' = clock
      /\ ready' = [k \in DOMAIN fired |-> fired[k].task]
      /\ timers' = Selected(timers, DOMAIN timers \ due)
      /\ UNCHANGED <<stack, channel, panicked, done>>

Idle == ready = <<>> /\ timers = <<>>

\* _pump
Pump == RunReady \/ FireTimers
-----------------------------------------------------------------------------
(* What running code may call.                                             *)

\* spawn, and block_on and async_spawn in their first half.
Spawn(t) ==
  /\ Code /\ t \in Unused
  /\ ready' = Append(ready, t)
  /\ UNCHANGED <<clock, timers, stack, channel, panicked, done>>

\* delay, async_spawn_delayed
Delay(t, ms) ==
  /\ Code /\ t \in Unused /\ clock + ms <= MaxClock
  /\ timers' = Append(timers, [deadline |-> clock + ms, task |-> t])
  /\ UNCHANGED <<clock, ready, stack, channel, panicked, done>>

\* run, and block_on in its second half; the main program drives.
Run ==
  /\ Code /\ Top.who = Main
  /\ Goes("run", 0)
  /\ UNCHANGED <<clock, exec, channel, panicked, done>>

\* It drains the ready queue, then the timers, until both are empty.
RunLoop == In("run") /\ Pump

RunReturns ==
  /\ In("run") /\ Idle
  /\ Goes("code", 0)
  /\ UNCHANGED <<clock, exec, channel, panicked, done>>

\* sleep_ms pumps until its deadline has passed; idle, it sleeps until then.
Sleep(ms) ==
  /\ Code /\ clock + ms <= MaxClock
  /\ Goes("sleep", clock + ms)
  /\ UNCHANGED <<clock, exec, channel, panicked, done>>

SleepLoop == In("sleep") /\ clock < Top.until /\ Pump

SleepIdle ==
  /\ In("sleep") /\ clock < Top.until /\ Idle
  /\ clock' = Top.until
  /\ UNCHANGED <<exec, stack, channel, panicked, done>>

SleepReturns ==
  /\ In("sleep") /\ clock >= Top.until
  /\ Goes("code", 0)
  /\ UNCHANGED <<clock, exec, channel, panicked, done>>

\* A task's code comes to its end, and so does the main program.
Return ==
  /\ Code
  /\ stack' = Front(stack)
  /\ done' = IF Top.who = Main THEN done ELSE done \cup {Top.who}
  /\ UNCHANGED <<clock, exec, channel, panicked>>
-----------------------------------------------------------------------------
(* Channel.send, recv, try_recv, close *)

\* On a closed channel send returns at once, and nothing changes.
Send ==
  /\ Code /\ ~closed
  /\ pushed + Cardinality({k \in DOMAIN stack : stack[k].doing = "send"}) < MaxSends
  /\ Goes("send", 0)
  /\ UNCHANGED <<clock, exec, channel, panicked, done>>

SendLoop == In("send") /\ Full /\ Pump

SendDone ==
  /\ In("send") /\ ~Full
  /\ items' = Append(items, pushed + 1) /\ pushed' = pushed + 1
  /\ Goes("code", 0)
  /\ UNCHANGED <<clock, exec, closed, received, panicked, done>>

Recv ==
  /\ Code
  /\ Goes("recv", 0)
  /\ UNCHANGED <<clock, exec, channel, panicked, done>>

RecvLoop == In("recv") /\ items = <<>> /\ Pump

\* The first message is taken and the others move up.
Take ==
  /\ items # <<>>
  /\ received' = Append(received, Head(items))
  /\ items' = Tail(items)
  /\ UNCHANGED <<closed, pushed>>

RecvDone ==
  /\ In("recv") /\ Take
  /\ Goes("code", 0)
  /\ UNCHANGED <<clock, exec, panicked, done>>

\* Without a message it changes nothing.
TryRecv ==
  /\ Code /\ Take
  /\ UNCHANGED <<clock, exec, stack, panicked, done>>

Close ==
  /\ Code /\ ~closed
  /\ closed' = TRUE
  /\ UNCHANGED <<clock, exec, stack, items, pushed, received, panicked, done>>

\* "deadlock -- channel empty (full) and scheduler idle"
Panic ==
  /\ Idle
  /\ (In("recv") /\ items = <<>>) \/ (In("send") /\ Full)
  /\ panicked' = TRUE
  /\ UNCHANGED <<clock, exec, stack, channel, done>>
-----------------------------------------------------------------------------
\* The steps of the library.
Library ==
  \/ RunLoop \/ RunReturns \/ SleepLoop \/ SleepIdle \/ SleepReturns
  \/ SendLoop \/ SendDone \/ RecvLoop \/ RecvDone \/ Panic

Program ==
  \/ \E t \in Tasks : Spawn(t) \/ \E ms \in Delays : Delay(t, ms)
  \/ Run \/ Send \/ Recv \/ TryRecv \/ Close \/ Return
  \/ \E ms \in Delays : Sleep(ms)

AsyncNext == Library \/ Program \/ Tick

AsyncSpec == AsyncInit /\ [][AsyncNext]_asyncVars

\* The library's code is executed, and tasks come to their end.
AsyncFairness == WF_asyncVars(Library) /\ WF_asyncVars(Return)

AsyncFairSpec == AsyncSpec /\ AsyncFairness
-----------------------------------------------------------------------------
(* Properties *)

\* With the declared invariant of Channel: items.len() <= cap || cap == 0.
TypeOK ==
  /\ clock \in 0 .. MaxClock
  /\ ready \in Seq(Tasks) /\ items \in Seq(1 .. MaxSends) /\ received \in Seq(1 .. MaxSends)
  /\ \A k \in DOMAIN timers : timers[k].deadline \in 0 .. MaxClock /\ timers[k].task \in Tasks
  /\ \A k \in DOMAIN stack :
       /\ stack[k].who \in Tasks \cup {Main} /\ stack[k].until \in 0 .. MaxClock
       /\ stack[k].doing \in {"code", "run", "sleep", "send", "recv"}
  /\ Len(items) <= Cap \/ Cap = 0
  /\ done \subseteq Tasks

\* A task that was spawned or scheduled waits in one place, or is on the
\* stack once, or has run: it is neither lost nor run twice.
TasksRunOnce ==
  TypeOK /\
  LET entries == ready \o [k \in DOMAIN timers |-> timers[k].task]
                       \o [k \in DOMAIN stack |-> stack[k].who]
  IN  IsInjective(entries) /\ ToSet(entries) \cap done = {}

\* "Schedule task to become ready after ms milliseconds": a timer fires at its
\* deadline or later, never before.
TimersAreNotEarly ==
  [][\A k \in DOMAIN timers :
       (\A j \in DOMAIN timers' : timers'[j] # timers[k]) => timers[k].deadline <= clock']_asyncVars

\* Messages come out in the order in which they were queued, however deep the
\* frames of their receivers are nested.
FirstInFirstOut == received \o items = [k \in 1 .. pushed |-> k]

\* "run: drive the scheduler until both the ready-queue and the timer set are
\* empty", and everything that waits is let in while the main program drives.
RunFinishesTheWork ==
  \A t \in Tasks :
    (t \in Waiting /\ stack # <<>> /\ stack[1].doing = "run") ~> (t \in done \/ panicked)
=============================================================================
