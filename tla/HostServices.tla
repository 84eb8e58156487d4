---------------------------- MODULE HostServices ----------------------------
(***************************************************************************)
(* The services of the runtime that keep a state of their own: the guard   *)
(* heap, hot reload and its saved state, child processes, signals, file    *)
(* locks, watches and event loops.  They share no state, so that a property*)
(* of one holds in a program that uses several if it holds in one that     *)
(* uses it alone: a behaviour is that of the service chosen at its start.  *)
(***************************************************************************)
EXTENDS GuardHeap, HotReload, HotState, ProcessTable, PipeSpawn, Signals,
        FileLocks, DirectoryWatch, ReadChanges, EventLoop

VARIABLE service

Services == {"heap", "hot", "state", "process", "pipes", "signals", "locks", "watch",
             "reads", "loop"}

serviceVars == <<heapVars, hotVars, stateVars, processVars, pipeVars, signalVars, lockVars,
                 watchVars, readVars, loopVars>>

\* One initial state for those a behaviour is not about.
AtRest ==
  /\ service # "heap" => vector = OnMainHeap
  /\ service # "hot" => \A n \in FnNames : hash[n] = 0
  /\ service # "state" => file = NoFile
  /\ service # "signals" => platform = "posix"
  /\ service # "locks" => lockSystem = "posix"

Init ==
  /\ service \in Services
  /\ HeapInit /\ HotInit /\ StateInit /\ ProcessInit /\ PipeInit /\ SignalInit
  /\ LockInit /\ WatchInit /\ ReadInit /\ LoopInit
  /\ AtRest

Others(own) == UNCHANGED <<service, own>>

Next ==
  \/ /\ service = "heap" /\ HeapNext
     /\ Others(<<hotVars, stateVars, processVars, pipeVars, signalVars,
                 lockVars, watchVars, readVars, loopVars>>)
  \/ /\ service = "hot" /\ HotNext
     /\ Others(<<heapVars, stateVars, processVars, pipeVars, signalVars,
                 lockVars, watchVars, readVars, loopVars>>)
  \/ /\ service = "state" /\ StateNext
     /\ Others(<<heapVars, hotVars, processVars, pipeVars, signalVars,
                 lockVars, watchVars, readVars, loopVars>>)
  \/ /\ service = "process" /\ ProcessNext
     /\ Others(<<heapVars, hotVars, stateVars, pipeVars, signalVars,
                 lockVars, watchVars, readVars, loopVars>>)
  \/ /\ service = "pipes" /\ PipeNext
     /\ Others(<<heapVars, hotVars, stateVars, processVars, signalVars,
                 lockVars, watchVars, readVars, loopVars>>)
  \/ /\ service = "signals" /\ SignalNext
     /\ Others(<<heapVars, hotVars, stateVars, processVars, pipeVars,
                 lockVars, watchVars, readVars, loopVars>>)
  \/ /\ service = "locks" /\ LockNext
     /\ Others(<<heapVars, hotVars, stateVars, processVars, pipeVars,
                 signalVars, watchVars, readVars, loopVars>>)
  \/ /\ service = "watch" /\ WatchNext
     /\ Others(<<heapVars, hotVars, stateVars, processVars, pipeVars,
                 signalVars, lockVars, readVars, loopVars>>)
  \/ /\ service = "reads" /\ ReadNext
     /\ Others(<<heapVars, hotVars, stateVars, processVars, pipeVars,
                 signalVars, lockVars, watchVars, loopVars>>)
  \/ /\ service = "loop" /\ LoopNext
     /\ Others(<<heapVars, hotVars, stateVars, processVars, pipeVars,
                 signalVars, lockVars, watchVars, readVars>>)

Spec == Init /\ [][Next]_<<service, serviceVars>>
-----------------------------------------------------------------------------
(* The properties of the services that belong together. *)

\* The guard heap gives out whole blocks, discards them with the outermost block
\* and keeps what belongs to the program outside: the three parts are GuardHeap's.
GuardHeapIsSound == HeldBlocksAreIntact /\ ArenaEndsWithItsBlocks /\ OuterDataSurvives

\* Hot reload serves running calls, has one owner per slot, "don't swap pointers
\* while in-flight", and gives a saved state back whole or not at all.
HotReloadIsSound == SwapsSpareRunningCalls /\ SlotsHaveOneOwner /\ RestoreIsWhole

\* Calls act on the child they mean, through handles that the table owns, and its
\* pipes are those of that child.
ProcessesAreNotConfused ==
  TableOwnsItsHandles /\ CallsMeetTheirChild /\ PipesBelongToTheirChild

\* A recursive watch covers the tree as it changes, its map is the kernel's, and
\* the records of a batch are all reported, but for overflows that are reported.
WatchesMissNothing == MapFollowsTheKernel /\ EveryDirectoryIsWatched /\ NoChangeIsSkipped
=============================================================================
