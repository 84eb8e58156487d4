---------------------------- MODULE ReadChanges ----------------------------
(***************************************************************************)
(* The directory watch on Windows: one overlapped read at a time into the  *)
(* slot's buffer, from which xiom_watch_poll returns one record per call;  *)
(* it arms the next read once the buffer is used up.  While no read waits  *)
(* the system keeps the changes, or drops them all when it has no room.    *)
(***************************************************************************)
EXTENDS Selection, SequencesExt

CONSTANTS
  SystemRoom,   \* changes the system keeps between two reads
  MaxRecords    \* bound on the changes under a watch, which are numbered

VARIABLES
  read,       \* the slot's read: "none" (not in use), "armed", "done", "off"
  signaled,   \* the slot's event, reset by hand
  batch,     \* the records the last read brought
  filled,     \* how many of them poll knows of
  position,   \* how many of them it has returned
  made,       \* changes since the watch was opened
  kept,       \* those the system keeps
  lossy,      \* it has dropped some, and will complete a read with no bytes
  reported,   \* history: what poll returned: changes, and 0 for an overflow
  dropped     \* history: changes dropped since the last overflow was reported

readVars == <<read, signaled, batch, filled, position, made, kept, lossy, reported, dropped>>

Overflow == 0

UsedUp(at, n) == at >= n
-----------------------------------------------------------------------------
Fresh ==
  /\ signaled' = FALSE /\ batch' = <<>> /\ filled' = 0 /\ position' = 0
  /\ made' = 0 /\ kept' = <<>> /\ lossy' = FALSE /\ reported' = <<>> /\ dropped' = {}

ReadInit ==
  /\ read = "none" /\ signaled = FALSE /\ batch = <<>> /\ filled = 0 /\ position = 0
  /\ made = 0 /\ kept = <<>> /\ lossy = FALSE /\ reported = <<>> /\ dropped = {}

\* xiom_watch_open takes a slot and arms its first read; xiom_watch_close cancels
\* and drains the read before it gives the slot up.
OpenSlot == read = "none" /\ read' = "armed" /\ Fresh
CloseSlot == read \in {"armed", "done"} /\ read' = "none" /\ Fresh

Change ==
  /\ read # "none" /\ made < MaxRecords /\ made' = made + 1
  /\ IF Len(kept) < SystemRoom /\ ~lossy
     THEN kept' = Append(kept, made') /\ UNCHANGED <<lossy, dropped>>
     ELSE kept' = <<>> /\ lossy' = TRUE /\ dropped' = dropped \cup ToSet(kept) \cup {made'}
  /\ UNCHANGED <<read, signaled, batch, filled, position, reported>>

\* The system ends the read that waits.
Complete ==
  /\ read = "armed" /\ (kept # <<>> \/ lossy)
  /\ read' = "done" /\ signaled' = TRUE /\ batch' = kept /\ kept' = <<>> /\ lossy' = FALSE
  /\ UNCHANGED <<filled, position, made, reported, dropped>>

\* A poll that has a record, or finds the event set.  Behind the last record, and
\* behind an overflow, the event is reset before the next read is armed.
PollChanges ==
  LET more == ~UsedUp(position, filled)
      n  == IF more THEN filled ELSE Len(batch)
      at == IF more THEN position ELSE 0
      last == UsedUp(at + 1, n)
  IN /\ read = "done" /\ (more \/ signaled)
     /\ reported' = Append(reported, IF n = 0 THEN Overflow ELSE batch[at + 1])
     /\ filled' = n /\ position' = IF last THEN n ELSE at + 1
     /\ signaled' = (signaled /\ ~last)
     /\ read' = IF last THEN "off" ELSE "done"
     /\ dropped' = IF n = 0 THEN {} ELSE dropped
     /\ UNCHANGED <<batch, made, kept, lossy>>

\* xiom_watch_arm, before that poll returns.
ArmNext ==
  /\ read = "off" /\ read' = "armed" /\ filled' = 0 /\ position' = 0
  /\ UNCHANGED <<signaled, batch, made, kept, lossy, reported, dropped>>

ReadNext == OpenSlot \/ CloseSlot \/ Change \/ Complete \/ PollChanges \/ ArmNext
-----------------------------------------------------------------------------
(* Properties *)

Unread == IF read = "done" THEN SubSeq(batch, position + 1, Len(batch)) ELSE <<>>
Told   == Selected(reported, {k \in DOMAIN reported : reported[k] # Overflow})

\* Every change is reported, in order and once, or an overflow says that some are
\* missing: behind what poll has returned comes what is left of the buffer, then
\* what the system keeps, and a change that is nowhere was dropped with an overflow
\* reported since or on its way.
NoChangeIsSkipped ==
  LET order == Told \o Unread \o kept
  IN /\ \A k \in 1 .. Len(order) - 1 : order[k] < order[k + 1]
     /\ Overflow \notin ToSet(reported) => ToSet(order) \cup dropped = 1 .. made
     /\ dropped # {} => lossy \/ (read = "done" /\ batch = <<>>)
     /\ read = "done" => signaled
=============================================================================
