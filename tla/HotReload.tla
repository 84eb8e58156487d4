----------------------------- MODULE HotReload -----------------------------
(***************************************************************************)
(* The hot-reload pointer table: the host registers functions and swaps    *)
(* them for newer ones, while threads call through the table between       *)
(* xiom_hot_enter and xiom_hot_leave.  The counts and pointers are plain   *)
(* memory: an increment is a load and a store, and the swap's test of the  *)
(* count is a step of its own.                                             *)
(***************************************************************************)
EXTENDS Integers, FiniteSets

CONSTANTS
  Callers,    \* the threads that call
  FnNames,      \* the functions' names
  Slots,      \* XIOM_HOT_MAX_FUNCTIONS, 1024 in the code
  MaxCode     \* bound on the versions of code the host loads

ASSUME HotAssumption == IsFiniteSet(Callers) /\ Slots \in Nat \ {0}

VARIABLES
  ptr,        \* xiom_hot_ptr_table: the code in a slot, 0 for NULL
  inFlight,   \* slot_meta.in_flight
  version,    \* slot_meta.version
  count,      \* xiom_hot_ptr_count
  hash,       \* hot_name_hash, whatever it is
  ids,        \* history: the slots a name's registrations returned
  host,       \* the host's swap in progress
  caller,     \* each thread's call in progress
  code,       \* the last version of code loaded
  raced,      \* history: calls that read the pointer while it was being swapped
  overlapped  \* history: two updates of a count overlapped

hotTable == <<ptr, inFlight, version, count>>
hotVars  == <<hotTable, hash, ids, host, caller, code, raced, overlapped>>

Index    == 0 .. Slots - 1
NULL     == 0
HostIdle == [at |-> "idle", slot |-> 0]
Out      == [at |-> "out", slot |-> 0, loaded |-> 0, code |-> NULL]

Running(c) == caller[c].at \in {"running", "leaving"}
-----------------------------------------------------------------------------
\* Faulty variant, in no action: the in-flight count is not looked at.
FaultyTestInFlight(slot) ==
  /\ host.at = "idle"
  /\ host' = [at |-> "tested", slot |-> slot]
  /\ UNCHANGED <<hotTable, hash, ids, caller, code, raced, overlapped>>

-----------------------------------------------------------------------------
HotInit ==
  /\ ptr = [s \in Index |-> NULL] /\ inFlight = [s \in Index |-> 0]
  /\ version = [s \in Index |-> 0] /\ count = 0
  /\ hash \in [FnNames -> Index] /\ ids = [n \in FnNames |-> {}]
  /\ host = HostIdle /\ caller = [c \in Callers |-> Out] /\ code = 0
  /\ raced = {} /\ overlapped = FALSE

\* The first free slot from the name's own on.
Probe(name, slot) ==
  /\ ptr[slot] = NULL
  /\ \A i \in 0 .. ((slot - hash[name]) % Slots) - 1 : ptr[(hash[name] + i) % Slots] # NULL

\* xiom_hot_register: of a new name, or again of one that is there already.
Register(name, slot) ==
  /\ host.at = "idle" /\ code < MaxCode
  /\ Probe(name, slot)
  /\ code' = code + 1
  /\ ptr' = [ptr EXCEPT ![slot] = code + 1]
  /\ version' = [version EXCEPT ![slot] = 1]
  /\ count' = count + 1
  /\ ids' = [ids EXCEPT ![name] = @ \cup {slot}]
  /\ UNCHANGED <<inFlight, hash, host, caller, raced, overlapped>>

\* xiom_hot_set_ptr: the test, after which the caller may have to retry ...
TestInFlight(slot) ==
  /\ host.at = "idle"
  /\ inFlight[slot] <= 0
  /\ host' = [at |-> "tested", slot |-> slot]
  /\ UNCHANGED <<hotTable, hash, ids, caller, code, raced, overlapped>>

\* ... and the swap.  A slot nobody registered is filled, too.
Swap ==
  /\ host.at = "tested" /\ code < MaxCode
  /\ code' = code + 1
  /\ ptr' = [ptr EXCEPT ![host.slot] = code + 1]
  /\ version' = [version EXCEPT ![host.slot] = @ + 1]
  /\ count' = IF ptr[host.slot] = NULL THEN count + 1 ELSE count
  /\ host' = HostIdle
  /\ UNCHANGED <<inFlight, hash, ids, caller, raced, overlapped>>
-----------------------------------------------------------------------------
(* xiom_hot_enter *)

LoadCount(c, slot) ==
  /\ caller[c].at = "out"
  /\ caller' = [caller EXCEPT ![c] = [at |-> "entering", slot |-> slot,
                                      loaded |-> inFlight[slot], code |-> NULL]]
  /\ raced' = raced \ {c}
  /\ UNCHANGED <<hotTable, hash, ids, host, code, overlapped>>

StoreCount(c) ==
  LET me == caller[c]
  IN /\ me.at = "entering"
     /\ inFlight' = [inFlight EXCEPT ![me.slot] = me.loaded + 1]
     /\ overlapped' = (overlapped \/ inFlight[me.slot] # me.loaded)
     /\ caller' = [caller EXCEPT ![c].at = "counted"]
     /\ UNCHANGED <<ptr, version, count, hash, ids, host, code, raced>>

ReadPointer(c) ==
  /\ caller[c].at = "counted"
  /\ caller' = [caller EXCEPT ![c].at = "running", ![c].code = ptr[caller[c].slot]]
  /\ raced' = IF host = [at |-> "tested", slot |-> caller[c].slot] THEN raced \cup {c} ELSE raced
  /\ UNCHANGED <<hotTable, hash, ids, host, code, overlapped>>

(* xiom_hot_leave *)

LoadToLeave(c) ==
  /\ caller[c].at = "running"
  /\ caller' = [caller EXCEPT ![c].at = "leaving", ![c].loaded = inFlight[caller[c].slot]]
  /\ UNCHANGED <<hotTable, hash, ids, host, code, raced, overlapped>>

StoreToLeave(c) ==
  LET me == caller[c]
  IN /\ me.at = "leaving"
     /\ inFlight' = IF me.loaded > 0 THEN [inFlight EXCEPT ![me.slot] = me.loaded - 1]
                    ELSE inFlight
     /\ overlapped' = (overlapped \/ inFlight[me.slot] # me.loaded)
     /\ caller' = [caller EXCEPT ![c] = Out]
     /\ UNCHANGED <<ptr, version, count, hash, ids, host, code, raced>>
-----------------------------------------------------------------------------
Call(c) ==
  \/ \E n \in FnNames : \E slot \in ids[n] : LoadCount(c, slot)
  \/ StoreCount(c) \/ ReadPointer(c) \/ LoadToLeave(c) \/ StoreToLeave(c)

\* Once two updates overlapped a count means nothing, and a model ends.
HotNext ==
  /\ ~overlapped
  /\ \/ \E slot \in Index : TestInFlight(slot) \/ \E n \in FnNames : Register(n, slot)
     \/ Swap
     \/ \E c \in Callers : Call(c)
-----------------------------------------------------------------------------
(* Properties *)

\* "Don't swap pointers while in-flight": a thread that runs between enter and
\* leave runs what the table holds, so that the host may unload what it has
\* replaced.  Two races break it: a call that reads the pointer between a swap's
\* test and its store, and counts lost when two updates overlap.
SwapsSpareRunningCalls ==
  \A c \in Callers : Running(c) /\ c \notin raced /\ ~overlapped =>
    caller[c].code = ptr[caller[c].slot]

\* Two names never share a slot, however their hashes collide and the host
\* fills slots on its own, and xiom_hot_ptr_count counts the filled ones.
SlotsHaveOneOwner ==
  /\ \A m, n \in FnNames : m # n => ids[m] \cap ids[n] = {}
  /\ count = Cardinality({s \in Index : ptr[s] # NULL})
=============================================================================
