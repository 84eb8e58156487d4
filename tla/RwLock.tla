------------------------------- MODULE RwLock -------------------------------
(***************************************************************************)
(* RwLock of xiom.sync: a state word (0 free, n > 0 readers, -1 a writer)  *)
(* kept under a mutex, with one condition variable for readers and one for *)
(* writers.  The mutex is held inside one call only, so an action is one   *)
(* critical section, up to the unlock or to the wait that gives it up.     *)
(***************************************************************************)
EXTENDS Integers, FiniteSets

CONSTANT Threads

VARIABLES
  state,         \* the state word
  access,        \* each thread's position: "none", in read or write (asking),
                 \* or with a guard in hand
  onRead, onWrite \* threads blocked on rcond and on wcond

lockVars == <<state, access, onRead, onWrite>>

Those(position) == {t \in Threads : access[t] = position}

\* xiom_cond_signal: one of the waiters goes on, if there is one.
Signalled(S, T) == IF S = {} THEN T = S ELSE \E t \in S : T = S \ {t}

Becomes(t, position) == access' = [access EXCEPT ![t] = position]
-----------------------------------------------------------------------------
(* Faulty variants of the actions below, each a slip this code could have. *)
(* They are in no specification; the properties are tested against them.   *)

\* A writer only looks for another writer.
FaultyWriteGranted(t) ==
  /\ access[t] = "write" /\ t \notin onWrite
  /\ state # -1
  /\ state' = -1
  /\ Becomes(t, "writing")
  /\ UNCHANGED <<onRead, onWrite>>

\* The last reader wakes the readers, who are not waiting for it.
FaultyReadDrop(t) ==
  /\ access[t] = "reading"
  /\ state' = state - 1
  /\ onRead' = IF state = 1 THEN {} ELSE onRead
  /\ Becomes(t, "none")
  /\ UNCHANGED onWrite
-----------------------------------------------------------------------------
\* RwLock.new
Init ==
  /\ state = 0
  /\ access = [t \in Threads |-> "none"]
  /\ onRead = {} /\ onWrite = {}
-----------------------------------------------------------------------------
(* RwLock.read and RwLock.write *)

Call(t, kind) ==
  /\ access[t] = "none"
  /\ Becomes(t, kind)
  /\ UNCHANGED <<state, onRead, onWrite>>

ReadWait(t) ==
  /\ access[t] = "read" /\ t \notin onRead
  /\ state = -1
  /\ onRead' = onRead \cup {t}
  /\ UNCHANGED <<state, access, onWrite>>

ReadGranted(t) ==
  /\ access[t] = "read" /\ t \notin onRead
  /\ state # -1
  /\ state' = state + 1
  /\ Becomes(t, "reading")
  /\ UNCHANGED <<onRead, onWrite>>

WriteWait(t) ==
  /\ access[t] = "write" /\ t \notin onWrite
  /\ state # 0
  /\ onWrite' = onWrite \cup {t}
  /\ UNCHANGED <<state, access, onRead>>

WriteGranted(t) ==
  /\ access[t] = "write" /\ t \notin onWrite
  /\ state = 0
  /\ state' = -1
  /\ Becomes(t, "writing")
  /\ UNCHANGED <<onRead, onWrite>>
-----------------------------------------------------------------------------
(* RwLock.try_read and RwLock.try_write that get a guard; one that gets    *)
(* None changes nothing.                                                   *)

TryRead(t) ==
  /\ access[t] = "none" /\ state # -1
  /\ state' = state + 1
  /\ Becomes(t, "reading")
  /\ UNCHANGED <<onRead, onWrite>>

TryWrite(t) ==
  /\ access[t] = "none" /\ state = 0
  /\ state' = -1
  /\ Becomes(t, "writing")
  /\ UNCHANGED <<onRead, onWrite>>
-----------------------------------------------------------------------------
(* ReadGuard.drop and WriteGuard.drop *)

\* The last reader lets one writer go on.
ReadDrop(t) ==
  /\ access[t] = "reading"
  /\ state' = state - 1
  /\ IF state' = 0 THEN Signalled(onWrite, onWrite') ELSE UNCHANGED onWrite
  /\ Becomes(t, "none")
  /\ UNCHANGED onRead

\* A writer lets every reader and one writer go on.
WriteDrop(t) ==
  /\ access[t] = "writing"
  /\ state' = 0
  /\ onRead' = {}
  /\ Signalled(onWrite, onWrite')
  /\ Becomes(t, "none")
-----------------------------------------------------------------------------
\* POSIX and Win32 let a condition wait return without a signal.
SpuriousWakeup(t) ==
  /\ t \in onRead \cup onWrite
  /\ onRead' = onRead \ {t} /\ onWrite' = onWrite \ {t}
  /\ UNCHANGED <<state, access>>

\* The steps of a thread inside a call or with a guard to give back.
Step(t) ==
  \/ ReadWait(t) \/ ReadGranted(t) \/ WriteWait(t) \/ WriteGranted(t)
  \/ ReadDrop(t) \/ WriteDrop(t)

Enter(t) == Call(t, "read") \/ Call(t, "write") \/ TryRead(t) \/ TryWrite(t)

Next == \E t \in Threads : Enter(t) \/ Step(t) \/ SpuriousWakeup(t)

Spec == Init /\ [][Next]_lockVars
-----------------------------------------------------------------------------
(* Properties *)

TypeOK ==
  /\ state \in Int
  /\ access \in [Threads -> {"none", "read", "write", "reading", "writing"}]
  /\ onRead \subseteq Those("read") /\ onWrite \subseteq Those("write")

\* One writer or any number of readers, and the state word says which.
ReadersOrWriter ==
  /\ Cardinality(Those("writing")) <= 1
  /\ Those("writing") # {} => Those("reading") = {}
  /\ state = IF Those("writing") # {} THEN -1 ELSE Cardinality(Those("reading"))

\* No wakeup is lost: a reader sleeps only while there is a writer, and
\* writers sleep only while somebody holds the lock or is about to look.
NoSleeperIsForgotten ==
  /\ onRead # {} => state = -1
  /\ onWrite # {} => state # 0 \/ Those("write") \ onWrite # {}
=============================================================================
