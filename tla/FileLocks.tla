---------------------------- MODULE FileLocks -----------------------------
(***************************************************************************)
(* Advisory locks on one file (xiom.os.lock) and the accesses by path that *)
(* the same processes make to it (xiom.io).  A POSIX lock belongs to the   *)
(* process and goes when the process closes any descriptor of the file; a  *)
(* Windows lock belongs to the handle.  The threads of a process act side  *)
(* by side.                                                                *)
(***************************************************************************)
EXTENDS Integers, FiniteSets

CONSTANTS
  Procs,          \* processes that share the file
  MaxOpen         \* bound: descriptors of the file a process has open at once

VARIABLES
  lockSystem,     \* "posix" or "windows"
  descriptors,    \* the open descriptors, records of a process and a number
  locked,         \* the descriptors through which the system holds the lock
  blocked,        \* descriptors whose opener waits in xiom_file_lock_wait
  fileLocks,      \* descriptors in a FileLock that a program holds
  access,         \* descriptors of an xiom_read_at, xiom_write_at, xiom_append_bytes
  closing,        \* descriptors about to be closed
  careless        \* history: holders that have closed another descriptor of the file

lockVars == <<lockSystem, descriptors, locked, blocked, fileLocks, access, closing, careless>>

Unopened(p) == {[proc |-> p, fd |-> n] : n \in 1 .. MaxOpen} \ descriptors

\* A lock of one's own process is no obstacle on POSIX: it is converted.
PosixConflict(d)   == \E l \in locked : l.proc # d.proc
WindowsConflict(d) == locked # {}
Conflict(d) == IF lockSystem = "posix" THEN PosixConflict(d) ELSE WindowsConflict(d)

\* What the system drops when a descriptor is unlocked or closed.
Dropped(d) == IF lockSystem = "posix" THEN {l \in locked : l.proc = d.proc} ELSE {d}

Holders(held) == {d.proc : d \in held}

LockInit ==
  /\ lockSystem \in {"posix", "windows"}
  /\ descriptors = {} /\ locked = {} /\ blocked = {} /\ fileLocks = {}
  /\ access = {} /\ closing = {} /\ careless = {}
-----------------------------------------------------------------------------
(* xiom.os.lock *)

\* file_lock_try, and its failure, which closes the descriptor in a later step.
LockTry(p) ==
  \E d \in Unopened(p) :
    /\ descriptors' = descriptors \cup {d}
    /\ IF Conflict(d)
       THEN closing' = closing \cup {d} /\ UNCHANGED <<locked, fileLocks>>
       ELSE /\ locked' = locked \cup {d} /\ fileLocks' = fileLocks \cup {d}
            /\ UNCHANGED closing
    /\ UNCHANGED <<lockSystem, blocked, access, careless>>

\* file_lock opens the file and waits.
LockWait(p) ==
  \E d \in Unopened(p) :
    /\ descriptors' = descriptors \cup {d} /\ blocked' = blocked \cup {d}
    /\ UNCHANGED <<lockSystem, locked, fileLocks, access, closing, careless>>

\* Faulty variant, in no action: a signal ends the wait like the lock does.
FaultyWaitEnds(d) == lockSystem = "posix" \/ ~Conflict(d)

\* The POSIX wait is taken up again when a signal interrupts it.
WaitEnds(d) == ~Conflict(d)

Granted(d) ==
  /\ d \in blocked /\ WaitEnds(d)
  /\ blocked' = blocked \ {d} /\ fileLocks' = fileLocks \cup {d}
  /\ locked' = IF Conflict(d) THEN locked ELSE locked \cup {d}
  /\ UNCHANGED <<lockSystem, descriptors, access, closing, careless>>

\* file_lock_release consumes the FileLock and unlocks; the close comes after.
ReleaseLock(d) ==
  /\ d \in fileLocks
  /\ fileLocks' = fileLocks \ {d} /\ closing' = closing \cup {d}
  /\ locked' = locked \ Dropped(d)
  /\ careless' = (IF lockSystem = "posix" THEN careless \cup {d.proc} ELSE careless)
                   \cap Holders(fileLocks')
  /\ UNCHANGED <<lockSystem, descriptors, blocked, access>>
-----------------------------------------------------------------------------
(* xiom.io: the file is opened by its path, transferred in pieces, closed. *)

Access(p) ==
  \E d \in Unopened(p) :
    /\ descriptors' = descriptors \cup {d} /\ access' = access \cup {d}
    /\ UNCHANGED <<lockSystem, locked, blocked, fileLocks, closing, careless>>

\* The last piece, or one that failed: on Windows, for a lock of another handle.
\* A read answers zeros for what it did not get, a write -1.
Transferred(d) ==
  /\ d \in access
  /\ access' = access \ {d} /\ closing' = closing \cup {d}
  /\ UNCHANGED <<lockSystem, descriptors, locked, blocked, fileLocks, careless>>

CloseFd(d) ==
  /\ d \in closing
  /\ closing' = closing \ {d} /\ descriptors' = descriptors \ {d}
  /\ locked' = locked \ Dropped(d)
  /\ careless' = (IF lockSystem = "posix" THEN careless \cup {d.proc} ELSE careless)
                   \cap Holders(fileLocks)
  /\ UNCHANGED <<lockSystem, blocked, fileLocks, access>>

\* The process dies, and may be started again: the system closes its descriptors.
Die(p) ==
  LET alive(set) == {d \in set : d.proc # p}
  IN /\ alive(descriptors) # descriptors
     /\ descriptors' = alive(descriptors) /\ locked' = alive(locked)
     /\ blocked' = alive(blocked) /\ fileLocks' = alive(fileLocks)
     /\ access' = alive(access) /\ closing' = alive(closing)
     /\ careless' = careless \ {p}
     /\ UNCHANGED lockSystem

LockNext ==
  \/ \E p \in Procs : LockTry(p) \/ LockWait(p) \/ Access(p) \/ Die(p)
  \/ \E d \in descriptors : Granted(d) \/ ReleaseLock(d) \/ Transferred(d) \/ CloseFd(d)
-----------------------------------------------------------------------------
\* Two processes never hold the lock at once, and a process that thinks it does
\* has it, whatever tries, waits, accesses and deaths overlap, unless the process
\* has on POSIX closed another descriptor of the file since: it looked at its own
\* file by path, or a thread of it tried for the lock, too.  On Windows no two
\* FileLocks are held at once, not even by one process.
LocksExclude ==
  /\ \A d \in fileLocks : d.proc \notin careless => d.proc \in Holders(locked)
  /\ \A c, d \in fileLocks :
       c # d => lockSystem = "posix" /\ (c.proc = d.proc \/ {c.proc, d.proc} \cap careless # {})
=============================================================================
