----------------------------- MODULE EventLoop -----------------------------
(***************************************************************************)
(* The readiness API and its three builds, side by side on the same calls: *)
(* WSAPoll over tables of the runtime's own, epoll, and kqueue, whose      *)
(* kernel tables are external.  A handle names a loop; it is given out     *)
(* again once the loop is closed.                                          *)
(***************************************************************************)
EXTENDS Selection, FiniteSets, SequencesExt

CONSTANTS
  Loops,      \* handles: XIOM_WIN_LOOPS of them on Windows
  Fds,        \* file descriptors
  LoopFds,    \* XIOM_WIN_FDS, 1024 in the code
  EventCap    \* events one epoll_wait or kevent is asked for at most, 256 in the code

ASSUME LoopAssumption ==
  Loops \subseteq Nat /\ LoopFds \in Nat /\ EventCap \in Nat \ {0} /\ IsFiniteSet(Fds)

VARIABLES
  used,       \* the handles in use
  win,        \* the Windows tables: for each loop, entries in the order they poll
  epoll,      \* the kernel's interest, per loop and descriptor
  kqueue,     \* the kernel's filters, per loop
  answers,    \* what the builds answered to the last allowed change
  parted      \* history: loops changed in a way the builds differ in

loopVars == <<used, win, epoll, kqueue, answers, parted>>

Directions == {"read", "write"}
Unwatched  == [watched |-> FALSE, want |-> {}]
Watched(want) == [watched |-> TRUE, want |-> want]
Ok         == 0
Refused    == -1

\* The entry of a descriptor in a Windows table, 0 if it has none.
EntryOf(table, fd) == SelectInSeq(table, LAMBDA e : e.fd = fd)
-----------------------------------------------------------------------------
(* xiom_eventloop_ctl of each build: its new table and its answer *)

Answer(table, rc) == [table |-> table, rc |-> rc]

WinCtl(table, op, fd, want) ==
  LET i == EntryOf(table, fd)
  IN CASE op = "add" -> IF Len(table) >= LoopFds \/ i > 0 THEN Answer(table, Refused)
                        ELSE Answer(Append(table, [fd |-> fd, want |-> want]), Ok)
       [] op # "add" /\ i = 0 -> Answer(table, Refused)
       [] op = "mod" /\ i > 0 -> Answer([table EXCEPT ![i].want = want], Ok)
       [] op = "del" /\ i > 0 -> Answer(Front([table EXCEPT ![i] = Last(table)]), Ok)

\* epoll_ctl
EpollCtl(table, op, fd, want) ==
  IF (op = "add") = table[fd].watched THEN Answer(table, Refused)
  ELSE Answer([table EXCEPT ![fd] = IF op = "del" THEN Unwatched ELSE Watched(want)], Ok)

Filters(fd, want) == {<<fd, d>> : d \in want}

\* Faulty variant, in no action: the filters there are stay.
FaultyKqueueCtl(table, op, fd, want) ==
  IF op = "del" THEN Answer(table \ Filters(fd, Directions), Ok)
  ELSE IF want = {} THEN Answer(table, Refused)
  ELSE Answer(table \cup Filters(fd, want), Ok)

\* A change of filters: added to those there are, or in the place of all of them.
KqueueCtl(table, op, fd, want) ==
  LET kept == IF op = "add" THEN table ELSE table \ Filters(fd, Directions)
  IN IF op # "del" /\ want = {} THEN Answer(table, Refused)
     ELSE Answer(kept \cup IF op = "del" THEN {} ELSE Filters(fd, want), Ok)
-----------------------------------------------------------------------------
(* xiom_eventloop_wait: a descriptor is ready in some directions, or hung up *)

Flags(ready, hangup) ==
  (IF "read" \in ready THEN 1 ELSE 0) + (IF "write" \in ready THEN 2 ELSE 0)
  + (IF hangup THEN 4 ELSE 0)

AtHangup(ready, hangup) == IF hangup THEN Directions ELSE ready

\* Entries in table order, as many as fit.
WinWait(table, ready, hangup, max) ==
  LET entry(e) == [fd |-> e.fd, flags |-> Flags(AtHangup(ready[e.fd] \cap e.want, hangup[e.fd]),
                                                hangup[e.fd])]
      polled == [k \in DOMAIN table |-> entry(table[k])]
      found == Selected(polled, {k \in DOMAIN table : polled[k].flags # 0})
  IN SubSeq(found, 1, IF max < Len(found) THEN max ELSE Len(found))

\* epoll has one event per descriptor.
EpollEvents(table, ready, hangup) ==
  {r \in {[fd |-> fd, flags |-> Flags(AtHangup(ready[fd] \cap table[fd].want, hangup[fd]), hangup[fd])]
            : fd \in {f \in Fds : table[f].watched}} : r.flags # 0}

\* kqueue has one event per filter.
KqueueEvents(table, ready, hangup) == {p \in table : p[2] \in ready[p[1]] \/ hangup[p[1]]}

Room(max) == IF max > EventCap THEN EventCap ELSE max

\* What the system may return when it is asked for at most n of its events: which
\* ones is its own choice.
AtMost(n, events) ==
  kSubset(IF n < Cardinality(events) THEN n ELSE Cardinality(events), events)

\* The sets of entries that a wait of epoll may give.
EpollWait(table, ready, hangup, max) == AtMost(Room(max), EpollEvents(table, ready, hangup))

\* Those of kqueue: the room is for filters, and of the filters that came those of
\* a descriptor are put together afterwards.
KqueueWait(table, ready, hangup, max) ==
  {{[fd |-> fd, flags |-> Flags({d \in Directions : <<fd, d>> \in came}, hangup[fd])]
      : fd \in {p[1] : p \in came}}
    : came \in AtMost(Room(max), KqueueEvents(table, ready, hangup))}
-----------------------------------------------------------------------------
NoFilters == {}

LoopInit ==
  /\ used = {}
  /\ win = [l \in Loops |-> <<>>] /\ epoll = [l \in Loops |-> [fd \in Fds |-> Unwatched]]
  /\ kqueue = [l \in Loops |-> NoFilters]
  /\ answers = {} /\ parted = {}

\* The lowest free slot; its table is cleared.
Create ==
  /\ used # Loops
  /\ LET l == CHOOSE l \in Loops \ used : \A k \in Loops \ used : l <= k
     IN /\ used' = used \cup {l}
        /\ win' = [win EXCEPT ![l] = <<>>]
  /\ answers' = {}
  /\ UNCHANGED <<epoll, kqueue, parted>>

\* The calls that the builds' documents allow: a descriptor is added once, before
\* it is modified or removed, with an interest, and while there is room.
Allowed(l, op, fd, want) ==
  /\ (op = "add") = (EntryOf(win[l], fd) = 0)
  /\ op # "del" => want # {}
  /\ op = "add" => Len(win[l]) < LoopFds

\* Outside of them the builds part: kqueue takes a second add and a change of what
\* is not there, and no empty interest, and only Windows has a full table.
Ctl(l, op, fd, want) ==
  LET w == WinCtl(win[l], op, fd, want)
      e == EpollCtl(epoll[l], op, fd, want)
      k == KqueueCtl(kqueue[l], op, fd, want)
  IN /\ l \in used \ parted
     /\ win' = [win EXCEPT ![l] = w.table]
     /\ epoll' = [epoll EXCEPT ![l] = e.table]
     /\ kqueue' = [kqueue EXCEPT ![l] = k.table]
     /\ parted' = IF Allowed(l, op, fd, want) THEN parted ELSE parted \cup {l}
     /\ answers' = IF Allowed(l, op, fd, want) THEN {w.rc, e.rc, k.rc} ELSE {}
     /\ UNCHANGED used

Close(l) ==
  /\ l \in used /\ used' = used \ {l}
  /\ win' = [win EXCEPT ![l] = <<>>]
  /\ epoll' = [epoll EXCEPT ![l] = [fd \in Fds |-> Unwatched]]
  /\ kqueue' = [kqueue EXCEPT ![l] = NoFilters]
  /\ answers' = {} /\ parted' = parted \ {l}

LoopNext ==
  \/ Create
  \/ \E l \in Loops :
       \/ Close(l)
       \/ \E op \in {"add", "mod", "del"}, fd \in Fds, want \in SUBSET Directions :
            Ctl(l, op, fd, want)
-----------------------------------------------------------------------------
(* Properties *)

\* What an event tells; beyond the interest in it that is the system's choice.
Gist(r, want) ==
  [fd |-> r.fd, hangup |-> r.flags >= 4,
   ways |-> {d \in want : (r.flags \div (IF d = "read" THEN 1 ELSE 2)) % 2 = 1}]

Reports(rs, l) == {Gist(r, epoll[l][r.fd].want) : r \in rs}

\* One entry for each of at most max descriptors, none that tells of a descriptor
\* what all there is to report does not, and some if there is something to report.
IsReport(rs, l, all, max) ==
  /\ Cardinality(rs) <= max /\ (all # {} => rs # {})
  /\ \A r, s \in rs : r.fd = s.fd => r = s
  /\ \A r \in Reports(rs, l) : \E s \in all :
       r.fd = s.fd /\ r.hangup = s.hangup /\ r.ways \subseteq s.ways

\* A wait with room for max entries: Windows and epoll tell all of a descriptor or
\* nothing, and of all descriptors if there is room for each; kqueue may tell one
\* direction of two, and tells all if there is room for each of its filters.
WaitsAgree(l, ready, hangup, max) ==
  LET all     == Reports(ToSet(WinWait(win[l], ready, hangup, Len(win[l]))), l)
      fromWin == WinWait(win[l], ready, hangup, max)
  IN /\ Len(fromWin) = Cardinality(ToSet(fromWin))
     /\ IsReport(ToSet(fromWin), l, all, max) /\ Reports(ToSet(fromWin), l) \subseteq all
     /\ Len(win[l]) <= max => Reports(ToSet(fromWin), l) = all
     /\ \A rs \in EpollWait(epoll[l], ready, hangup, max) :
          /\ IsReport(rs, l, all, max) /\ Reports(rs, l) \subseteq all
          /\ Len(win[l]) <= Room(max) => Reports(rs, l) = all
     /\ \A rs \in KqueueWait(kqueue[l], ready, hangup, max) :
          /\ IsReport(rs, l, all, max)
          /\ Cardinality(kqueue[l]) <= Room(max) => Reports(rs, l) = all

\* "One readiness API": after the same calls the three builds wait on the same
\* descriptors, and with room enough report the same readiness of them, whatever is
\* ready and hung up; with less, each a part of it, which for kqueue may be a part
\* of what there is to tell of a descriptor.  The calls are answered alike.
LoopBuildsAgree ==
  /\ answers \subseteq {Ok}
  /\ \A l \in used \ parted, ready \in [Fds -> SUBSET Directions], hangup \in [Fds -> BOOLEAN] :
       \A max \in 1 .. LoopFds + EventCap : WaitsAgree(l, ready, hangup, max)
=============================================================================
