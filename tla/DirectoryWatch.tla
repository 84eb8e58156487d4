--------------------------- MODULE DirectoryWatch ---------------------------
(***************************************************************************)
(* A recursive directory watch on Linux: one inotify descriptor and a map  *)
(* from its watches to the directories' paths, kept up from the records of *)
(* a tree that goes on changing.  A watch is named by the inode it is on.  *)
(* The tree and inotify are the system's.                                  *)
(***************************************************************************)
EXTENDS Selection, SequencesExt

CONSTANTS
  Names,       \* directory names
  MaxDirs,     \* XIOM_WATCH_MAX_DIRS, 256 in the code
  QueueRoom,   \* records inotify queues
  MaxInodes,   \* bound on the directories made
  MaxChanges   \* bound on the changes of the tree

ASSUME WatchAssumption == "/" \notin Names /\ MaxDirs \in Nat \ {0} /\ QueueRoom \in Nat

VARIABLES
  tree,        \* the directories under the root: name to inode and path
  inodes,      \* inodes given out
  changes,     \* changes made
  watches,     \* inotify's watches
  queue,       \* its records, those the runtime has read included
  maps,        \* xiom_watch_slot.maps
  scan,        \* directories xiom_watch_scan has attached and not read yet
  watching,        \* the watch is open
  overflowed,  \* history: a record was dropped, or the map was full
  missed,      \* history: directories that appeared where nobody watches
  stale        \* history: directories that moved with, or without, their watch

watchVars == <<tree, inodes, changes, watches, queue, maps, scan, watching, overflowed, missed, stale>>

Root == 0                               \* the root's inode
Dirs == DOMAIN tree
Path(d) == IF d = "/" THEN <<>> ELSE tree[d].path
Parent(d) == IF Len(Path(d)) = 1 THEN "/" ELSE Last(Front(Path(d)))
Inode(d) == IF d = "/" THEN Root ELSE tree[d].inode
Below(d) == {e \in Dirs : e # d /\ d \in ToSet(Path(e))}

\* The directory a path leads to, if any.
AtPath(path) == {d \in Dirs : Path(d) = path}

NoName == ""                            \* of a record about the watch itself

Record(mask, wd, name) == [mask |-> mask, wd |-> wd, name |-> name]

\* The records of watched inodes.
Seen(records) == Selected(records, {k \in DOMAIN records : records[k].wd \in watches})

\* They are queued, or one of the overflow.
Queued(records) ==
  LET seen == Seen(records)
  IN IF Len(queue) + Len(seen) <= QueueRoom THEN queue \o seen
     ELSE IF queue # <<>> /\ Last(queue).mask = "overflow" THEN queue
     ELSE Append(queue, Record("overflow", Root, NoName))

Overflows(records) == Len(queue) + Len(Seen(records)) > QueueRoom
-----------------------------------------------------------------------------
(* The map *)

MapOf(m, wd) == SelectInSeq(m, LAMBDA e : e.wd = wd)

\* Faulty variant, in no action: the last entry is lost where another goes.
FaultyWithout(m, wd) == IF MapOf(m, wd) = 0 THEN m ELSE Front(m)

\* xiom_watch_attach: of an inode that is watched already, the prefix is new.
Mapped(m, wd, prefix) ==
  IF MapOf(m, wd) > 0 THEN [m EXCEPT ![MapOf(m, wd)].prefix = prefix]
  ELSE Append(m, [wd |-> wd, prefix |-> prefix])

Without(m, wd) == IF MapOf(m, wd) = 0 THEN m ELSE Front([m EXCEPT ![MapOf(m, wd)] = Last(m)])

\* What is at the path by now is attached, if there is room.
Attach(m, path) ==
  IF AtPath(path) = {} \/ Len(m) >= MaxDirs THEN m
  ELSE Mapped(m, Inode(CHOOSE d \in AtPath(path) : TRUE), path)

AttachAll(m, paths) == FoldSet(LAMBDA path, acc : Attach(acc, path), m, paths)

WatchesOf(m) == {m[k].wd : k \in DOMAIN m}
-----------------------------------------------------------------------------
WatchInit ==
  /\ tree = [n \in {} |-> 0] /\ inodes = 0 /\ changes = 0
  /\ watches = {} /\ queue = <<>> /\ maps = <<>> /\ scan = {} /\ watching = FALSE
  /\ overflowed = FALSE /\ missed = {} /\ stale = {}

(* The tree changes. *)

Changed(records) ==
  /\ changes < MaxChanges /\ changes' = changes + 1
  /\ queue' = Queued(records) /\ overflowed' = (overflowed \/ Overflows(records))
  /\ UNCHANGED <<maps, scan, watching>>

\* What is put into p is seen by p's watch, or the scan under way gets to it.
Unseen(p) == /\ watching /\ Inode(p) \notin watches
             /\ \A prefix \in scan : ~IsStrictPrefix(prefix, Path(p))

MakeDir(d, p) ==
  /\ d \notin Dirs /\ p \in Dirs \cup {"/"} /\ inodes < MaxInodes
  /\ inodes' = inodes + 1
  /\ tree' = [n \in Dirs \cup {d} |-> IF n = d THEN [inode |-> inodes + 1, path |-> Append(Path(p), d)] ELSE tree[n]]
  /\ Changed(<<Record("create", Inode(p), d)>>)
  /\ missed' = IF Unseen(p) THEN missed \cup {inodes + 1} ELSE missed
  /\ UNCHANGED <<watches, stale>>

RemoveDir(d) ==
  /\ d \in Dirs /\ Below(d) = {}
  /\ tree' = [n \in Dirs \ {d} |-> tree[n]]
  /\ watches' = watches \ {Inode(d)}
  /\ Changed(<<Record("delete", Inode(Parent(d)), d), Record("ignored", Inode(d), NoName)>>)
  /\ UNCHANGED <<inodes, missed, stale>>

From(path, k) == SubSeq(path, k, Len(path))

\* The paths of everything below d change with it, and nobody is told of them.
MoveDir(d, p) ==
  /\ d \in Dirs /\ p \in (Dirs \cup {"/"}) \ (Below(d) \cup {d, Parent(d)})
  /\ tree' = [e \in Dirs |-> IF d \notin ToSet(Path(e)) THEN tree[e]
                            ELSE [tree[e] EXCEPT !.path = Path(p) \o From(Path(e), Len(Path(d)))]]
  /\ Changed(<<Record("moved_from", Inode(Parent(d)), d), Record("moved_to", Inode(p), d)>>)
  /\ stale' = stale \cup {Inode(e) : e \in Below(d)} \cup (IF Unseen(p) \/ scan # {} THEN {Inode(d)} ELSE {})
  /\ missed' = IF Unseen(p) THEN missed \cup {Inode(d)} ELSE missed
  /\ UNCHANGED <<inodes, watches>>

(* The runtime. *)

OpenWatch ==
  /\ ~watching /\ watching' = TRUE
  /\ watches' = {Root} /\ maps' = <<[wd |-> Root, prefix |-> <<>>]>> /\ scan' = {<<>>}
  /\ UNCHANGED <<tree, inodes, changes, queue, overflowed, missed, stale>>

Attached(m) ==
  /\ maps' = m
  /\ watches' = watches \cup (WatchesOf(m) \ WatchesOf(maps))
  /\ overflowed' = (overflowed \/ Len(m) >= MaxDirs)

\* xiom_watch_scan of one directory: what is in it is attached, and scanned in turn.
ScanDir(prefix) ==
  LET found == {Path(d) : d \in {e \in Dirs : Path(e) # <<>> /\ Front(Path(e)) = prefix}}
  IN /\ prefix \in scan
     /\ Attached(AttachAll(maps, found))
     /\ scan' = (scan \ {prefix}) \cup found
     /\ UNCHANGED <<tree, inodes, changes, queue, watching, missed, stale>>

\* One record of xiom_watch_poll.
PollRecord ==
  LET r  == Head(queue)
      at == MapOf(maps, r.wd)
      child == {Append(maps[at].prefix, r.name)}
  IN /\ watching /\ scan = {} /\ queue # <<>>
     /\ queue' = Tail(queue)
     /\ CASE r.mask = "ignored" -> maps' = Without(maps, r.wd) /\ UNCHANGED <<watches, overflowed>>
          [] r.mask \in {"create", "moved_to"} /\ at > 0 -> Attached(AttachAll(maps, child))
          [] OTHER -> UNCHANGED <<maps, watches, overflowed>>
     /\ UNCHANGED <<tree, inodes, changes, scan, watching, missed, stale>>

CloseWatch ==
  /\ watching /\ scan = {} /\ watching' = FALSE
  /\ watches' = {} /\ queue' = <<>> /\ maps' = <<>>
  /\ overflowed' = FALSE /\ missed' = {} /\ stale' = {}
  /\ UNCHANGED <<tree, inodes, changes, scan>>

WatchNext ==
  \/ \E d \in Names : RemoveDir(d) \/ \E p \in Names \cup {"/"} : MakeDir(d, p) \/ MoveDir(d, p)
  \/ OpenWatch \/ CloseWatch \/ PollRecord
  \/ \E prefix \in scan : ScanDir(prefix)
-----------------------------------------------------------------------------
(* Properties *)

Pending(masks, d) ==
  \E k \in DOMAIN queue : queue[k].mask \in masks /\ queue[k].name = d

\* The map follows inotify: each watch has one entry, and an entry without its
\* watch is about to be dropped, the record being queued.
MapFollowsTheKernel ==
  /\ \A k, l \in DOMAIN maps : k # l => maps[k].wd # maps[l].wd
  /\ watches \subseteq WatchesOf(maps)
  /\ \A wd \in WatchesOf(maps) \ watches :
       overflowed \/ \E k \in DOMAIN queue : queue[k] = Record("ignored", wd, NoName)

\* "Recursive mode pre-attaches every existing subdirectory and attaches new
\* directories as observations arrive": once the records are read every directory
\* is watched, and under the path it has.  A directory made in one that is not
\* attached yet is not, nor what is below a directory that moves.
EveryDirectoryIsWatched ==
  watching /\ scan = {} /\ ~overflowed =>
    \A d \in Dirs : Inode(d) \notin missed \cup stale =>
      \/ Pending({"create", "moved_to"}, d)
      \/ \E k \in DOMAIN maps : maps[k].wd = Inode(d) /\ maps[k].prefix = Path(d)
      \/ \E e \in ToSet(Path(d)) : Inode(e) \in missed \cup stale
=============================================================================
