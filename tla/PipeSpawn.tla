------------------------------ MODULE PipeSpawn ------------------------------
(***************************************************************************)
(* xiom_process_spawn_pipes on POSIX, by several threads: three pipes, a   *)
(* fork, and the closing and marking of the ends.  A child holds a copy of *)
(* every descriptor its parent has at the fork, and keeps those without    *)
(* FD_CLOEXEC over the exec.  Waiting, killing and asking go by pid.       *)
(***************************************************************************)
EXTENDS Integers, FiniteSets

CONSTANTS
  Spawners,     \* threads that start a child each
  Statuses      \* what a child exits with

VARIABLES
  spawning,   \* where each spawn is
  open,       \* descriptors the parent has open
  cloexec,    \* those of them marked FD_CLOEXEC
  held,       \* each child's copies of pipe ends
  state,      \* each child: none, forked, running, zombie, reaped
  status,     \* how it ended
  marked,     \* a child's copies that carried the mark at the fork
  around      \* history: the spawns that were between pipe and fcntl at the fork

pipeVars == <<spawning, open, cloexec, held, state, status, marked, around>>

\* A descriptor is named by its spawn, the pipe and the end.
Pipes  == {"in", "out", "err"}
End(s, pipe, end) == [spawn |-> s, pipe |-> pipe, end |-> end]
Ends(s, pipes) == {End(s, p, e) : p \in pipes, e \in {"read", "write"}}

ChildEnds(s)  == {End(s, "in", "read"), End(s, "out", "write"), End(s, "err", "write")}
ParentEnds(s) == Ends(s, Pipes) \ ChildEnds(s)

\* Spawns whose parent ends are open and not all marked yet.
Exposed == {s \in Spawners : spawning[s] \in {"in", "out", "err", "forked", "closed"}}

\* Faulty variant, in no action: one end is not marked.
FaultyToMark(s) == ParentEnds(s) \ {End(s, "err", "read")}
ToMark(s) == ParentEnds(s)

\* What is closed when making `pipe`, or the fork, fails.
ClosedOnFailure(s, pipe) == Ends(s, Pipes)
-----------------------------------------------------------------------------
PipeInit ==
  /\ spawning = [s \in Spawners |-> "out of call"]
  /\ open = {} /\ cloexec = {}
  /\ held = [s \in Spawners |-> {}] /\ marked = [s \in Spawners |-> {}]
  /\ state = [s \in Spawners |-> "none"] /\ status = [s \in Spawners |-> 0]
  /\ around = [s \in Spawners |-> {}]

At(s, from, to) == spawning[s] = from /\ spawning' = [spawning EXCEPT ![s] = to]

MakePipe(s, from, pipe) ==
  /\ At(s, from, pipe)
  /\ open' = open \cup Ends(s, {pipe})
  /\ UNCHANGED <<cloexec, held, state, status, marked, around>>

\* pipe() or fork() fails: -1, and the caller's out_fds stay -1.
PipeFails(s, from, pipe) ==
  /\ At(s, from, "failed")
  /\ open' = open \ ClosedOnFailure(s, pipe)
  /\ UNCHANGED <<cloexec, held, state, status, marked, around>>

Fork(s) ==
  /\ At(s, "err", "forked")
  /\ held' = [held EXCEPT ![s] = open]
  /\ marked' = [marked EXCEPT ![s] = cloexec]
  /\ around' = [around EXCEPT ![s] = Exposed]
  /\ state' = [state EXCEPT ![s] = "forked"]
  /\ UNCHANGED <<open, cloexec, status>>

\* The child's dup2 and close calls leave it its ends, as 0, 1 and 2; then exec.
Exec(s) ==
  /\ state[s] = "forked"
  /\ held' = [held EXCEPT ![s] = ((@ \ marked[s]) \ Ends(s, Pipes)) \cup ChildEnds(s)]
  /\ state' = [state EXCEPT ![s] = "running"]
  /\ UNCHANGED <<spawning, open, cloexec, status, marked, around>>

CloseChildEnds(s) ==
  /\ At(s, "forked", "closed")
  /\ open' = open \ ChildEnds(s)
  /\ UNCHANGED <<cloexec, held, state, status, marked, around>>

\* The three fcntl calls as one step: between them fewer ends are exposed.
MarkParentEnds(s) ==
  /\ At(s, "closed", "returned")
  /\ cloexec' = cloexec \cup ToMark(s)
  /\ UNCHANGED <<open, held, state, status, marked, around>>

\* The caller closes the end it writes to, so that the child sees the end of its input.
CloseStdin(s) ==
  /\ spawning[s] = "returned" /\ End(s, "in", "write") \in open
  /\ open' = open \ {End(s, "in", "write")} /\ cloexec' = cloexec \ {End(s, "in", "write")}
  /\ UNCHANGED <<spawning, held, state, status, marked, around>>

Ended(s, how) ==
  /\ held' = [held EXCEPT ![s] = {}]
  /\ state' = [state EXCEPT ![s] = "zombie"] /\ status' = [status EXCEPT ![s] = how]
  /\ UNCHANGED <<spawning, open, cloexec, marked, around>>

ExitWith(s, how) == state[s] = "running" /\ Ended(s, how)

\* kill(pid, SIGKILL): a zombie takes it and keeps its status.
KillPid(s) ==
  spawning[s] = "returned" /\ state[s] \in {"forked", "running"} /\ Ended(s, -1)

\* waitpid: blocks for the child to end, and takes it away.
WaitPid(s) ==
  /\ spawning[s] = "returned" /\ state[s] = "zombie"
  /\ state' = [state EXCEPT ![s] = "reaped"]
  /\ UNCHANGED <<spawning, open, cloexec, held, status, marked, around>>

PipeNext ==
  \E s \in Spawners :
    \/ MakePipe(s, "out of call", "in") \/ MakePipe(s, "in", "out") \/ MakePipe(s, "out", "err")
    \/ PipeFails(s, "out of call", "in") \/ PipeFails(s, "in", "out")
    \/ PipeFails(s, "out", "err") \/ PipeFails(s, "err", "fork")
    \/ Fork(s) \/ Exec(s) \/ CloseChildEnds(s) \/ MarkParentEnds(s) \/ CloseStdin(s)
    \/ \E how \in Statuses : ExitWith(s, how)
    \/ KillPid(s) \/ WaitPid(s)
-----------------------------------------------------------------------------
(* Properties *)

\* "so concurrent children do not hold each other's pipes open": a program that
\* runs as a child holds its own three ends and nobody else's, unless another
\* thread was between its pipe and its fcntl calls when the child was forked;
\* and a failed or finished spawn leaves no end open but those it handed out.
PipesBelongToTheirChild ==
  \A s \in Spawners :
    /\ state[s] = "running" =>
         \A d \in held[s] : d \in ChildEnds(s) \/ d.spawn \in around[s] \ {s}
    /\ spawning[s] = "failed" => \A d \in open : d.spawn # s
    /\ spawning[s] = "returned" => \A d \in open : d.spawn = s => d \in cloexec \cap ParentEnds(s)
=============================================================================
