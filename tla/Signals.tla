------------------------------ MODULE Signals ------------------------------
(***************************************************************************)
(* Signal delivery.  On Windows a console control handler latches a code   *)
(* and sets an auto-reset event; on POSIX a handler writes a byte into a   *)
(* pipe, on whatever thread the signal interrupts, and waits there while   *)
(* the pipe is full.  xiom_signal_wait answers one code for all that have  *)
(* arrived: "the last delivered byte wins".                                *)
(***************************************************************************)
EXTENDS Integers, SequencesExt

CONSTANTS
  Codes,        \* the signals' numbers
  Waiters,      \* threads that call xiom_signal_wait
  Bystanders,   \* the other threads a signal may interrupt
  PipeRoom,     \* bytes the pipe holds (65536)
  ReadSize,     \* bytes a wait reads (16)
  MaxSignals    \* bound on the signals delivered

ASSUME SignalAssumption == PipeRoom \in Nat \ {0} /\ ReadSize \in Nat \ {0}

VARIABLES
  platform,     \* "windows" or "posix"
  installed,    \* xiom_signal_event, xiom_signal_pipe: there or not
  handling,     \* the handlers are registered with the system
  pending,      \* xiom_signal_pending
  event,        \* the auto-reset event is set
  latched,      \* handlers between the store and SetEvent
  pipe,         \* the bytes in the pipe
  handlers,     \* each thread: the signals it is handling on POSIX, innermost last
  waiter,       \* each waiter: "out" or "woken"
  delivered,    \* history: signals the handlers saw
  newest,       \* history: the last code that was latched or written
  answer,       \* history: the last answer of a wait
  lost          \* history: the newest signal found no event yet

signalVars == <<platform, installed, handling, pending, event, latched, pipe, handlers, waiter,
                delivered, newest, answer, lost>>

NoSignal      == 0
SignalThreads == Waiters \cup Bystanders

SignalInit ==
  /\ platform \in {"windows", "posix"}
  /\ installed = FALSE /\ handling = FALSE
  /\ pending = NoSignal /\ event = FALSE /\ latched = 0 /\ pipe = <<>>
  /\ handlers = [t \in SignalThreads |-> <<>>]
  /\ waiter = [w \in Waiters |-> "out"]
  /\ delivered = 0 /\ newest = NoSignal /\ answer = NoSignal /\ lost = FALSE

\* xiom_signal_install.  When registering fails the event or pipe stays, and the
\* next call answers 0 without registering anything.
Install(works) ==
  /\ ~installed
  /\ installed' = TRUE /\ handling' = works
  /\ UNCHANGED <<platform, pending, event, latched, pipe, handlers, waiter, delivered, newest, answer, lost>>

\* xiom_signal_ctrl_handler, once registered, and xiom_signal_raise, at any time:
\* the code, then the event if there is one.
Latch(sig, raised) ==
  /\ platform = "windows" /\ (raised \/ handling) /\ delivered < MaxSignals
  /\ pending' = sig /\ newest' = sig /\ delivered' = delivered + 1 /\ latched' = latched + 1
  /\ lost' = FALSE
  /\ UNCHANGED <<platform, installed, handling, event, pipe, handlers, waiter, answer>>

SetTheEvent ==
  /\ latched > 0
  /\ event' = installed /\ lost' = (lost \/ ~installed) /\ latched' = latched - 1
  /\ UNCHANGED <<platform, installed, handling, pending, pipe, handlers, waiter, delivered, newest, answer>>

\* WaitForSingleObject resets the event; the code is read afterwards.
Wake(w) ==
  /\ platform = "windows" /\ event /\ waiter[w] = "out"
  /\ waiter' = [waiter EXCEPT ![w] = "woken"]
  /\ event' = FALSE
  /\ UNCHANGED <<platform, installed, handling, pending, latched, pipe, handlers, delivered, newest, answer, lost>>

AnswerPending(w) ==
  /\ platform = "windows" /\ waiter[w] = "woken"
  /\ answer' = pending /\ waiter' = [waiter EXCEPT ![w] = "out"]
  /\ UNCHANGED <<platform, installed, handling, pending, event, latched, pipe, handlers, delivered, newest, lost>>

\* On POSIX a signal interrupts any thread that is not handling it already, also
\* one that is handling another or is in xiom_signal_wait.  xiom_signal_raise
\* interrupts its caller.
EnterHandler(t, sig) ==
  /\ platform = "posix" /\ handling /\ delivered < MaxSignals
  /\ sig \notin ToSet(handlers[t])
  /\ handlers' = [handlers EXCEPT ![t] = Append(@, sig)] /\ delivered' = delivered + 1
  /\ UNCHANGED <<platform, installed, handling, pending, event, latched, pipe, waiter, newest, answer, lost>>

\* Faulty variant, in no action: "drop when the pipe is full".
FaultyWriteByte(t) ==
  /\ platform = "posix" /\ handlers[t] # <<>>
  /\ pipe' = IF Len(pipe) < PipeRoom THEN Append(pipe, Last(handlers[t])) ELSE pipe
  /\ newest' = Last(handlers[t])
  /\ handlers' = [handlers EXCEPT ![t] = Front(@)]
  /\ UNCHANGED <<platform, installed, handling, pending, event, latched, waiter, delivered, answer, lost>>

\* xiom_signal_handler writes its byte, once there is room: the pipe blocks.
WriteByte(t) ==
  /\ platform = "posix" /\ handlers[t] # <<>> /\ Len(pipe) < PipeRoom
  /\ pipe' = Append(pipe, Last(handlers[t])) /\ newest' = Last(handlers[t])
  /\ handlers' = [handlers EXCEPT ![t] = Front(@)]
  /\ UNCHANGED <<platform, installed, handling, pending, event, latched, waiter, delivered, answer, lost>>

\* poll finds the pipe readable ...
PollPipe(w) ==
  /\ platform = "posix" /\ pipe # <<>> /\ waiter[w] = "out" /\ handlers[w] = <<>>
  /\ waiter' = [waiter EXCEPT ![w] = "woken"]
  /\ UNCHANGED <<platform, installed, handling, pending, event, latched, pipe, handlers, delivered, newest, answer, lost>>

\* ... and read takes what is there by then, and waits while it is empty.
ReadPipe(w) ==
  LET n == IF Len(pipe) < ReadSize THEN Len(pipe) ELSE ReadSize
  IN /\ platform = "posix" /\ pipe # <<>> /\ waiter[w] = "woken" /\ handlers[w] = <<>>
     /\ answer' = pipe[n] /\ pipe' = SubSeq(pipe, n + 1, Len(pipe))
     /\ waiter' = [waiter EXCEPT ![w] = "out"]
     /\ UNCHANGED <<platform, installed, handling, pending, event, latched, handlers, delivered, newest, lost>>

SignalNext ==
  \/ \E works \in BOOLEAN : Install(works)
  \/ \E sig \in Codes, raised \in BOOLEAN : Latch(sig, raised)
  \/ SetTheEvent
  \/ \E t \in SignalThreads : WriteByte(t) \/ \E sig \in Codes : EnterHandler(t, sig)
  \/ \E w \in Waiters : Wake(w) \/ AnswerPending(w) \/ PollPipe(w) \/ ReadPipe(w)
-----------------------------------------------------------------------------
(* Properties *)

Woken == \E w \in Waiters : waiter[w] = "woken"

\* "The last delivered byte wins", and none is lost: once nothing is left to wake
\* a waiter and none is about to answer, the last answer was the newest signal that
\* was latched or written, however handlers, on any threads and inside each other,
\* and waits interleave, and however full the pipe was.  A signal raised on Windows
\* before the install is the exception.
TheNewestSignalIsAnswered ==
  /\ ~event /\ latched = 0 /\ pipe = <<>> /\ ~Woken /\ ~lost => answer = newest
=============================================================================
