---------------------------- MODULE ProcessTable ----------------------------
(***************************************************************************)
(* Child processes on Windows.  A pid is only the child's while a handle on*)
(* it is open, so that the runtime keeps the handle of every child it      *)
(* starts in a small table until somebody waits for the child.  Handles and*)
(* pids are given out again by the system once they are free.              *)
(***************************************************************************)
EXTENDS Integers, Sequences, SequencesExt

CONSTANTS
  Parents,       \* the threads that start children and ask for them
  Pids,          \* process ids
  Handles,       \* handle values
  TrackMax,      \* XIOM_PROC_TRACK_MAX, 16 in the code
  MaxChildren    \* bound on the children started

\* CreateProcess never gives out the null handle, which stands for none.
ASSUME TableAssumption == 0 \notin Handles

VARIABLES
  children,   \* the children so far: the pid, and whether it runs
  handles,    \* the child each handle is open on, 0 if closed
  track,      \* xiom_proc_track_pid and _handle, up to _count
  asking,     \* each thread's call in progress
  untracked,  \* history: children whose handle found no room
  waitedFor,  \* history: children whose handle a wait has taken
  mistaken    \* history: children a call meant while it acted on another process

processVars == <<children, handles, track, asking, untracked, waitedFor, mistaken>>

Closed      == 0
NoHandle    == [handle |-> Closed, tracked |-> FALSE]
NotAsking   == [op |-> "none", at |-> "out", child |-> 0, got |-> NoHandle]

\* A process object lives while the process runs or a handle on it is open.
ObjectOf(pid) ==
  {i \in DOMAIN children : /\ children[i].pid = pid
                           /\ children[i].runs \/ \E h \in Handles : handles[h] = i}

FreeHandle(h) == handles[h] = Closed
FreePid(pid)  == ObjectOf(pid) = {}

\* xiom_proc_track_take: the last entry fills the gap.
Taken(t, pid) ==
  LET i == SelectInSeq(t, LAMBDA e : e.pid = pid)
  IN IF i = 0 THEN t ELSE Front([t EXCEPT ![i] = Last(t)])

\* xiom_proc_track_peek
Tracked(pid) ==
  LET i == SelectInSeq(track, LAMBDA e : e.pid = pid)
  IN IF i = 0 THEN NoHandle ELSE [handle |-> track[i].handle, tracked |-> TRUE]
-----------------------------------------------------------------------------
ProcessInit ==
  /\ children = <<>> /\ handles = [h \in Handles |-> Closed] /\ track = <<>>
  /\ asking = [p \in Parents |-> NotAsking]
  /\ untracked = {} /\ waitedFor = {} /\ mistaken = {}

\* xiom_process_spawn_pipes and _spawn_args, with xiom_proc_track_add.
StartChild(pid, h) ==
  LET i == Len(children) + 1
      room == Len(track) < TrackMax
  IN /\ i <= MaxChildren /\ FreePid(pid) /\ FreeHandle(h)
     /\ children' = Append(children, [pid |-> pid, runs |-> TRUE])
     /\ handles' = IF room THEN [handles EXCEPT ![h] = i] ELSE handles
     /\ track' = IF room THEN Append(track, [pid |-> pid, handle |-> h]) ELSE track
     /\ untracked' = IF room THEN untracked ELSE untracked \cup {i}
     /\ UNCHANGED <<asking, waitedFor, mistaken>>

ChildExits(i) ==
  /\ children[i].runs
  /\ children' = [children EXCEPT ![i].runs = FALSE]
  /\ UNCHANGED <<handles, track, asking, untracked, waitedFor, mistaken>>

PidOf(p) == children[asking[p].child].pid

\* The table is looked up under its lock: a wait takes the entry out, kill and
\* running leave it, and act on the handle after the lock is given up.
LookUp(p, op, i) ==
  LET found == Tracked(children[i].pid)
  IN /\ asking[p].at = "out"
     /\ asking' = [asking EXCEPT ![p] = [op |-> op, at |-> "searched", child |-> i, got |-> found]]
     /\ IF op = "wait" THEN /\ track' = Taken(track, children[i].pid)
                            /\ waitedFor' = IF found = NoHandle THEN waitedFor
                                            ELSE waitedFor \cup {handles[found.handle]}
        ELSE UNCHANGED <<track, waitedFor>>
     /\ UNCHANGED <<children, handles, untracked, mistaken>>

\* OpenProcess, when the table has nothing: whoever has the pid now.
OpenByPid(p, h) ==
  LET who == ObjectOf(PidOf(p))
  IN /\ asking[p].at = "searched" /\ asking[p].got = NoHandle
     /\ IF who = {} THEN asking' = [asking EXCEPT ![p] = NotAsking] /\ UNCHANGED handles
        ELSE /\ FreeHandle(h)
             /\ handles' = [handles EXCEPT ![h] = CHOOSE i \in who : TRUE]
             /\ asking' = [asking EXCEPT ![p].got.handle = h]
     /\ UNCHANGED <<children, track, untracked, waitedFor, mistaken>>

\* The call acts on what the handle is open on by now, if anything.
Target(p) == handles[asking[p].got.handle]

Answered(p, closes) ==
  /\ asking' = [asking EXCEPT ![p] = NotAsking]
  /\ handles' = IF closes THEN [handles EXCEPT ![asking[p].got.handle] = Closed] ELSE handles
  /\ mistaken' = IF Target(p) \in {Closed, asking[p].child} THEN mistaken
                 ELSE mistaken \cup {asking[p].child}
  /\ UNCHANGED <<track, untracked, waitedFor>>

HasHandle(p, op) == asking[p].op = op /\ asking[p].got # NoHandle

\* TerminateProcess(h, 1)
Kill(p) ==
  /\ HasHandle(p, "kill")
  /\ LET i == Target(p)
     IN children' = IF i = Closed THEN children ELSE [children EXCEPT ![i].runs = FALSE]
  /\ Answered(p, ~asking[p].got.tracked)

\* xiom_process_wait_raw: the handle is the waiter's own.
Wait(p) ==
  /\ HasHandle(p, "wait")
  /\ Target(p) # Closed => ~children[Target(p)].runs
  /\ Answered(p, TRUE)
  /\ UNCHANGED children

\* xiom_process_running
AskRunning(p) ==
  /\ HasHandle(p, "running")
  /\ Answered(p, ~asking[p].got.tracked)
  /\ UNCHANGED children

ProcessNext ==
  \/ \E pid \in Pids, h \in Handles : StartChild(pid, h)
  \/ \E i \in DOMAIN children : ChildExits(i)
  \/ \E p \in Parents :
       \/ \E op \in {"kill", "wait", "running"}, i \in DOMAIN children : LookUp(p, op, i)
       \/ \E h \in Handles : OpenByPid(p, h)
       \/ Kill(p) \/ Wait(p) \/ AskRunning(p)
-----------------------------------------------------------------------------
(* Properties *)

\* The table owns its handles: an entry's handle is open on a child with the
\* entry's pid, and no pid and no handle is there twice.
TableOwnsItsHandles ==
  /\ \A e \in ToSet(track) : handles[e.handle] # Closed /\ children[handles[e.handle]].pid = e.pid
  /\ \A k, l \in DOMAIN track : k # l => track[k].pid # track[l].pid
                                         /\ track[k].handle # track[l].handle

\* "so the following wait cannot race": kill, wait and running act on the child
\* they were asked for, although the system gives pids and handles out again.
\* Only a child that found no room in the table, or that a wait has taken out of
\* it, can be confused with another, as a kill that has looked the handle up can
\* find it closed, and reused, by such a wait.
CallsMeetTheirChild == mistaken \subseteq untracked \cup waitedFor
=============================================================================
