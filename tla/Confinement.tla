---------------------------- MODULE Confinement ----------------------------
(***************************************************************************)
(* Fault containment for confined (unsafe) blocks, POSIX build: the        *)
(* trampoline with its signal handler and its single retry, the guard page *)
(* it takes for transient, the typed fault record and the exit status.     *)
(*                                                                         *)
(* The compiler (not in this repository) turns an unsafe block into a      *)
(* function, which arms the guard page when it begins and disarms it when  *)
(* it ends, calls it through xiom_trampoline_call, and calls               *)
(* xiom_fault_note when that reports a fault.  Around an inline block it   *)
(* calls xiom_trap_enter and xiom_trap_leave.  Everything is thread-local  *)
(* but the signal handler, the atexit list and the process itself.         *)
(***************************************************************************)
EXTENDS Naturals, Sequences, SequencesExt

CONSTANTS
  Threads,   \* the threads of the process
  Main,      \* the one that calls exit
  MaxDepth   \* bound on the nesting of confined blocks

ASSUME MainAssumption  == Main \in Threads
ASSUME DepthAssumption == MaxDepth \in Nat \ {0}

VARIABLES
  \* Of the process.
  handler,        \* who handles SIGSEGV, SIGILL and SIGFPE
  status,         \* running, or how it ended
  culprit,        \* history: the thread whose fault ended it
  \* Of each thread.
  stack,          \* its confined blocks, the running one last
  active, jump,   \* xiom_trampoline_active; the frame xiom_trampoline_jmp is of
  returned, thisReturned, retried,  \* xiom_trampoline_*
  installed,      \* the handlers this thread has installed
  trapping,       \* xiom_trap_active
  page, armed,    \* the guard page's protection, xiom_guard_page_armed
  record,         \* xiom_fault_record
  ended,          \* history: the last completed block executed a return
  owed            \* history: a fault was reported and not taken

process    == <<handler, status, culprit>>
trampoline == <<active, jump, returned, thisReturned, retried>>
guard      == <<page, armed>>
history    == <<ended, owed>>
vars == <<process, stack, trampoline, installed, trapping, guard, record, history>>

NoThread == "none"
Running  == status = "running"
Inside(t) == stack[t] # <<>>
Top(t)    == Last(stack[t])

\* What is left of a call stack when its upper frames are gone: the frame
\* below has seen a nested trampoline call come back.
Unwound(frames) ==
  IF frames = <<>> THEN frames
  ELSE Front(frames) \o <<[Last(frames) EXCEPT !.nested = TRUE]>>
-----------------------------------------------------------------------------
(* Faulty variants of the actions below, each a slip this code could have. *)
(* They are in no specification; the properties are tested against them.   *)

\* xiom_trampoline_active is set before the loop and not for the second run.
FaultyRetryInactive(t) ==
  /\ Running /\ Inside(t) /\ ~Top(t).returning /\ page[t] = "none"
  /\ handler = "trampoline" /\ active[t] /\ ~retried[t]
  /\ retried' = [retried EXCEPT ![t] = TRUE]
  /\ page' = [page EXCEPT ![t] = "rw"]
  /\ active' = [active EXCEPT ![t] = FALSE]
  /\ UNCHANGED <<process, stack, jump, returned, thisReturned, installed, trapping,
                 armed, record, history>>

\* Every fault is taken for transient.
FaultyRetryAll(t) ==
  /\ Running /\ Inside(t) /\ ~Top(t).returning
  /\ handler = "trampoline" /\ active[t] /\ ~retried[t]
  /\ retried' = [retried EXCEPT ![t] = TRUE]
  /\ stack' = [stack EXCEPT ![t] =
       Front(@) \o <<[Last(@) EXCEPT !.survived = Append(@, "wild")]>>]
  /\ UNCHANGED <<process, active, jump, returned, thisReturned, installed, trapping,
                 guard, record, history>>

\* The record of a fault that was taken is not opened again by the next one.
FaultyReport(t, kind) ==
  /\ Running /\ Inside(t) /\ active[t]
  /\ active' = [active EXCEPT ![t] = FALSE]
  /\ stack' = [stack EXCEPT ![t] = Unwound(Front(@))]
  /\ record' = [record EXCEPT ![t].active = TRUE, ![t].registered = TRUE]
  /\ owed' = [owed EXCEPT ![t] = TRUE]
  /\ UNCHANGED <<process, jump, returned, thisReturned, retried, installed, trapping,
                 guard, ended>>
-----------------------------------------------------------------------------
Init ==
  /\ handler = "default" /\ status = "running" /\ culprit = NoThread
  /\ stack = [t \in Threads |-> <<>>]
  /\ active = [t \in Threads |-> FALSE] /\ jump = [t \in Threads |-> 0]
  /\ returned = [t \in Threads |-> FALSE]
  /\ thisReturned = [t \in Threads |-> FALSE]
  /\ retried = [t \in Threads |-> FALSE]
  /\ installed = [t \in Threads |-> {}]
  /\ trapping = [t \in Threads |-> FALSE]
  /\ page = [t \in Threads |-> "unmapped"] /\ armed = [t \in Threads |-> FALSE]
  /\ record = [t \in Threads |-> [active |-> FALSE, taken |-> FALSE, registered |-> FALSE]]
  /\ ended = [t \in Threads |-> FALSE] /\ owed = [t \in Threads |-> FALSE]

\* Each thread installs a handler once, and it is the whole process's.
Install(t, who) ==
  /\ installed' = [installed EXCEPT ![t] = @ \cup {who}]
  /\ handler' = IF who \in installed[t] THEN handler ELSE who

\* xiom_guard_page_arm: the page is mapped without access the first time;
\* later calls only set the flag.
Arm(t) ==
  /\ page' = [page EXCEPT ![t] = IF @ = "unmapped" THEN "none" ELSE @]
  /\ armed' = [armed EXCEPT ![t] = TRUE]

\* xiom_guard_page_disarm leaves an armed page readable and writable.
Disarmed(t) == [page EXCEPT ![t] = IF armed[t] THEN "rw" ELSE @]
-----------------------------------------------------------------------------
(* xiom_trampoline_call *)

\* The call and the first run of the block.
Enter(t) ==
  /\ Running /\ Len(stack[t]) < MaxDepth
  /\ Inside(t) => ~Top(t).returning
  /\ Install(t, "trampoline")
  /\ stack' = [stack EXCEPT ![t] =
       Append(@, [saved |-> returned[t], survived |-> <<>>,
                  nested |-> FALSE, returning |-> FALSE])]
  /\ active' = [active EXCEPT ![t] = TRUE]
  /\ jump' = [jump EXCEPT ![t] = Len(stack[t]) + 1]
  /\ returned' = [returned EXCEPT ![t] = FALSE]
  /\ retried' = [retried EXCEPT ![t] = FALSE]
  /\ Arm(t)
  /\ UNCHANGED <<status, culprit, thisReturned, trapping, record, history>>

\* xiom_trampoline_set_returned, right before a `return` in the block.
SetReturned(t) ==
  /\ Running /\ Inside(t) /\ ~Top(t).returning
  /\ returned' = [returned EXCEPT ![t] = TRUE]
  /\ stack' = [stack EXCEPT ![t] = Front(@) \o <<[Last(@) EXCEPT !.returning = TRUE]>>]
  /\ UNCHANGED <<process, active, jump, thisReturned, retried, installed, trapping,
                 guard, record, history>>

\* The block completed: its result and its returned-flag are delivered.
Finish(t) ==
  /\ Running /\ Inside(t)
  /\ active' = [active EXCEPT ![t] = FALSE]
  /\ thisReturned' = [thisReturned EXCEPT ![t] = returned[t]]
  /\ returned' = [returned EXCEPT ![t] = Top(t).saved]
  /\ stack' = [stack EXCEPT ![t] = Unwound(Front(@))]
  /\ page' = Disarmed(t) /\ armed' = [armed EXCEPT ![t] = FALSE]
  /\ ended' = [ended EXCEPT ![t] = Top(t).returning]
  /\ UNCHANGED <<process, jump, retried, installed, trapping, record, owed>>
-----------------------------------------------------------------------------
(* A hardware fault in the running block: "touch" of the guard page while  *)
(* it is protected, or a "wild" one, which would happen again.             *)

Faults(t, kind) ==
  /\ Running /\ Inside(t) /\ ~Top(t).returning
  /\ kind = "touch" => page[t] = "none"

\* The frames that are left when the handler has jumped.
Landing(t) == SubSeq(stack[t], 1, jump[t])

\* A first touch of the guard page: the block is run a second time.
Retry(t) ==
  /\ Faults(t, "touch")
  /\ handler = "trampoline" /\ active[t]
  /\ ~retried[t]
  /\ retried' = [retried EXCEPT ![t] = TRUE]
  /\ page' = Disarmed(t) /\ armed' = [armed EXCEPT ![t] = TRUE]
  /\ active' = [active EXCEPT ![t] = TRUE]
  /\ returned' = [returned EXCEPT ![t] = FALSE]
  /\ stack' = [stack EXCEPT ![t] = Front(Landing(t)) \o
       <<[Last(Landing(t)) EXCEPT !.survived = Append(@, "touch"), !.nested = FALSE]>>]
  /\ UNCHANGED <<process, jump, thisReturned, installed, trapping, record, history>>

\* xiom_fault_note: the record is manifest, not yet taken, and looked at when
\* the process exits.
Noted == [active |-> TRUE, taken |-> FALSE, registered |-> TRUE]

\* A permanent fault: the trampoline reports it to its call site, which notes it.
Report(t, kind) ==
  /\ Faults(t, kind)
  /\ handler = "trampoline" /\ active[t]
  /\ kind = "touch" => retried[t]
  /\ active' = [active EXCEPT ![t] = FALSE]
  /\ returned' = [returned EXCEPT ![t] = Last(Landing(t)).saved]
  /\ stack' = [stack EXCEPT ![t] = Unwound(Front(Landing(t)))]
  /\ record' = [record EXCEPT ![t] = Noted]
  /\ owed' = [owed EXCEPT ![t] = TRUE]
  /\ UNCHANGED <<process, jump, thisReturned, retried, installed, trapping, guard, ended>>

\* The handler finds nowhere to go and lets the default action end the process.
Crash(t, kind) ==
  /\ Faults(t, kind)
  /\ \/ handler = "trampoline" /\ ~active[t]
     \/ handler = "trap" /\ ~trapping[t]
  /\ status' = "crashed" /\ culprit' = t
  /\ UNCHANGED <<handler, stack, trampoline, installed, trapping, guard, record, history>>

\* xiom_trap_handler jumps into the frame of xiom_trap_enter, which has
\* returned: anything may happen from here.
JumpNowhere(t, kind) ==
  /\ Faults(t, kind)
  /\ handler = "trap" /\ trapping[t]
  /\ status' = "undefined" /\ culprit' = t
  /\ UNCHANGED <<handler, stack, trampoline, installed, trapping, guard, record, history>>
-----------------------------------------------------------------------------
(* Inline blocks. *)

TrapEnter(t) ==
  /\ Running
  /\ Install(t, "trap")
  /\ trapping' = [trapping EXCEPT ![t] = TRUE]
  /\ UNCHANGED <<status, culprit, stack, trampoline, guard, record, history>>

TrapLeave(t) ==
  /\ Running
  /\ trapping' = [trapping EXCEPT ![t] = FALSE]
  /\ UNCHANGED <<process, stack, trampoline, installed, guard, record, history>>
-----------------------------------------------------------------------------
(* What the program does about faults. *)

\* xiom.error.take_fault
Take(t) ==
  /\ Running
  /\ record[t].active /\ ~record[t].taken
  /\ record' = [record EXCEPT ![t].taken = TRUE]
  /\ owed' = [owed EXCEPT ![t] = FALSE]
  /\ UNCHANGED <<process, stack, trampoline, installed, trapping, guard, ended>>

\* The program ends with status 0, unless xiom_fault_exit_handler, which runs in
\* the thread that exits, finds that thread's record manifest and not taken.
Exit ==
  /\ Running /\ ~Inside(Main)
  /\ status' = IF /\ \E t \in Threads : record[t].registered
                  /\ record[Main].active /\ ~record[Main].taken
               THEN "exit70" ELSE "exit0"
  /\ UNCHANGED <<handler, culprit, stack, trampoline, installed, trapping, guard,
                 record, history>>
-----------------------------------------------------------------------------
Step(t) ==
  \/ Enter(t) \/ SetReturned(t) \/ Finish(t)
  \/ Retry(t)
  \/ \E kind \in {"touch", "wild"} : Report(t, kind) \/ Crash(t, kind) \/ JumpNowhere(t, kind)
  \/ TrapEnter(t) \/ TrapLeave(t) \/ Take(t)

Next == Exit \/ \E t \in Threads : Step(t)

Spec == Init /\ [][Next]_vars
-----------------------------------------------------------------------------
(* Properties *)

TypeOK ==
  /\ handler \in {"default", "trampoline", "trap"}
  /\ status \in {"running", "crashed", "undefined", "exit0", "exit70"}
  /\ culprit \in Threads \cup {NoThread}
  /\ \A t \in Threads : \A k \in DOMAIN stack[t] :
       /\ stack[t][k].survived \in Seq({"touch", "wild"})
       /\ {stack[t][k].saved, stack[t][k].nested, stack[t][k].returning} \subseteq BOOLEAN
  /\ active \in [Threads -> BOOLEAN] /\ jump \in [Threads -> 0 .. MaxDepth]
  /\ returned \in [Threads -> BOOLEAN] /\ thisReturned \in [Threads -> BOOLEAN]
  /\ retried \in [Threads -> BOOLEAN] /\ trapping \in [Threads -> BOOLEAN]
  /\ installed \in [Threads -> SUBSET {"trampoline", "trap"}]
  /\ page \in [Threads -> {"unmapped", "none", "rw"}] /\ armed \in [Threads -> BOOLEAN]
  /\ record \in [Threads -> [active : BOOLEAN, taken : BOOLEAN, registered : BOOLEAN]]
  /\ ended \in [Threads -> BOOLEAN] /\ owed \in [Threads -> BOOLEAN]

\* "Unwind ONLY the trampoline's frame": a fault jumps to the block that is
\* running and never to one that has returned, however blocks are nested.
JumpStaysInTheBlock ==
  \A t \in Threads : active[t] => Inside(t) /\ jump[t] = Len(stack[t])

\* A fault in a confined block is contained.  There are two ways out of this: a
\* nested block that came back has cleared xiom_trampoline_active, or a thread's
\* first inline block took the handler away from the whole process.
FaultsAreContained ==
  status \in {"crashed", "undefined"} =>
    (Inside(culprit) /\ Top(culprit).nested) \/ handler = "trap"

\* Both, with every variable in its range.
BlocksAreContained == TypeOK /\ JumpStaysInTheBlock /\ FaultsAreContained

\* "A retry executed the faulting foreign call TWICE and duplicated its side
\* effects": a block is run again at most once, after a touch of the guard page
\* and after no other fault, whatever blocks run inside it.
NoReplay ==
  \A t \in Threads : \A k \in DOMAIN stack[t] :
    stack[t][k].survived \in {<<>>, <<"touch">>}

\* What a call site reads after a block is whether that block returned: nested
\* blocks "do not leak their returned-status", nor do faulted or repeated runs.
ReturnIsOwn == \A t \in Threads : thisReturned[t] <=> ended[t]

\* A program can tell a retried block from one that ran through by nothing else.
RetryIsInvisible == NoReplay /\ ReturnIsOwn

\* "take_fault() acknowledges the record, which is the ONLY way to keep exit 0",
\* for the faults of the thread that exits.
MainFaultsAreReported == status = "exit0" => ~owed[Main]
=============================================================================
