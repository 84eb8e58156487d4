------------------------- MODULE HostServices_proofs -------------------------
(***************************************************************************)
(* The services of the host: hot reload and its saved state, spawned       *)
(* children and their pipes, the table of handles, signals, file locks,    *)
(* the guard heap, event loops and directory watches.  Each is proved by   *)
(* itself, for every value of its constants, and the last section carries  *)
(* the results to a program that may use any of them.                      *)
(***************************************************************************)
EXTENDS HostServices, SequenceLemmas, FiniteSetTheorems, TLAPS

-----------------------------------------------------------------------------
(* The pointer table of hot reload *)

HotSpec == HotInit /\ [][HotNext]_hotVars

HotTypes ==
  /\ ptr \in [Index -> Nat] /\ inFlight \in [Index -> Int]
  /\ count \in Nat /\ code \in Nat
  /\ ids \in [FnNames -> SUBSET Index]
  /\ host \in [at : {"idle", "tested"}, slot : Nat]
  /\ host.at = "tested" => host.slot \in Index
  /\ caller \in [Callers -> [at : {"out", "entering", "counted", "running", "leaving"},
                             slot : Nat, loaded : Int, code : Nat]]
  /\ \A c \in Callers : caller[c].at # "out" => caller[c].slot \in Index
  /\ DOMAIN version = Index /\ raced \subseteq Callers /\ overlapped \in BOOLEAN

\* The threads a slot's count counts.
Inside(s) == {c \in Callers : caller[c].at \in {"counted", "running", "leaving"}
                              /\ caller[c].slot = s}

\* Unless two updates overlapped a count is the number of the threads inside.
CountsAreTrue == ~overlapped => \A s \in Index : inFlight[s] = Cardinality(Inside(s))

\* A slot that was registered, or is called through, is never empty again.
FilledSlots ==
  /\ \A n \in FnNames : \A s \in ids[n] : ptr[s] # NULL
  /\ \A c \in Callers : caller[c].at # "out" => ptr[caller[c].slot] # NULL

\* Between a swap's test and its write only calls that raced with it run there.
TestedSlotsAreQuiet ==
  host.at = "tested" /\ ~overlapped =>
    \A c \in Callers : Running(c) /\ caller[c].slot = host.slot => c \in raced

HotInv ==
  /\ HotTypes /\ CountsAreTrue /\ FilledSlots /\ TestedSlotsAreQuiet
  /\ SwapsSpareRunningCalls /\ SlotsHaveOneOwner
-----------------------------------------------------------------------------
\* The threads that a count counts are finitely many.
LEMMA InsideIsFinite == \A s : IsFiniteSet(Inside(s))
<1> SUFFICES ASSUME NEW s PROVE IsFiniteSet(Inside(s))  OBVIOUS
<1>1. Inside(s) \in SUBSET Callers  BY DEF Inside
<1> QED  BY <1>1, FS_Subset, HotAssumption

\* The number of filled slots is taken of a finite set.
LEMMA FilledIsFinite == IsFiniteSet({s \in Index : ptr[s] # NULL})
<1>1. IsFiniteSet(Index)  BY FS_Interval, HotAssumption DEF Index
<1>2. {s \in Index : ptr[s] # NULL} \in SUBSET Index  OBVIOUS
<1> QED  BY <1>1, <1>2, FS_Subset

\* Filling a slot: the count of filled slots, and nothing in another slot.
LEMMA FillSlot ==
  ASSUME NEW slot \in Index, NEW v \in Nat, v # NULL, HotTypes,
         ptr' = [ptr EXCEPT ![slot] = v]
  PROVE  /\ ptr' \in [Index -> Nat]
         /\ \A s \in Index : ptr[s] # NULL => ptr'[s] # NULL
         /\ Cardinality({s \in Index : ptr'[s] # NULL}) =
              IF ptr[slot] = NULL THEN Cardinality({s \in Index : ptr[s] # NULL}) + 1
              ELSE Cardinality({s \in Index : ptr[s] # NULL})
<1> DEFINE full == {s \in Index : ptr[s] # NULL}
<1>1. ptr' \in [Index -> Nat] /\ \A s \in Index : ptr[s] # NULL => ptr'[s] # NULL
  BY DEF HotTypes
<1>2. {s \in Index : ptr'[s] # NULL} = full \cup {slot}
  BY DEF HotTypes
<1>3. Cardinality(full \cup {slot}) = IF slot \in full THEN Cardinality(full)
                                        ELSE Cardinality(full) + 1
  BY FilledIsFinite, FS_AddElement
<1> QED  BY <1>1, <1>2, <1>3

\* The table starts empty, with nobody inside.
LEMMA HotInitial == HotInit => HotInv
<1> SUFFICES ASSUME HotInit PROVE HotInv  OBVIOUS
<1>1. HotTypes
  <2>1. Out \in [at : {"out", "entering", "counted", "running", "leaving"},
                slot : Nat, loaded : Int, code : Nat]
    BY DEF Out, NULL
  <2>2. ptr \in [Index -> Nat] /\ inFlight \in [Index -> Int] /\ DOMAIN version = Index
    BY DEF HotInit, NULL
  <2>3. count \in Nat /\ code \in Nat /\ ids \in [FnNames -> SUBSET Index]
    BY DEF HotInit
  <2>4. /\ host \in [at : {"idle", "tested"}, slot : Nat] /\ host.at # "tested"
        /\ raced \subseteq Callers /\ overlapped \in BOOLEAN
    BY DEF HotInit, HostIdle
  <2>5. /\ caller \in [Callers -> [at : {"out", "entering", "counted", "running", "leaving"},
                                  slot : Nat, loaded : Int, code : Nat]]
        /\ \A c \in Callers : caller[c].at = "out"
    BY <2>1 DEF HotInit, Out
  <2> QED  BY <2>2, <2>3, <2>4, <2>5 DEF HotTypes
<1>2. CountsAreTrue
  <2>1. \A s : Inside(s) = {}  BY DEF HotInit, Inside, Out
  <2> QED  BY <2>1, FS_EmptySet DEF HotInit, CountsAreTrue
<1>3. FilledSlots  BY DEF HotInit, FilledSlots, Out
<1>4. TestedSlotsAreQuiet /\ SwapsSpareRunningCalls
  BY DEF HotInit, TestedSlotsAreQuiet, SwapsSpareRunningCalls, HostIdle, Running, Out
<1>5. SlotsHaveOneOwner
  <2>1. {s \in Index : ptr[s] # NULL} = {}  BY DEF HotInit
  <2> QED  BY <2>1, FS_EmptySet DEF HotInit, SlotsHaveOneOwner
<1> QED  BY <1>1, <1>2, <1>3, <1>4, <1>5 DEF HotInv
-----------------------------------------------------------------------------
(* The steps of the host. *)

\* Registering takes a free slot, which no name owns and nobody runs in.
LEMMA RegisterKeepsHot ==
  ASSUME NEW name \in FnNames, NEW slot \in Index, HotInv, Register(name, slot)
  PROVE  HotInv'
<1> USE DEF HotInv
<1>1. ptr' = [ptr EXCEPT ![slot] = code + 1] /\ code + 1 \in Nat /\ code + 1 # NULL
  BY DEF Register, HotTypes, NULL
<1>2. ptr[slot] = NULL  BY DEF Register, Probe
<1>3. HotTypes'  BY <1>1, FillSlot DEF Register, HotTypes
<1>4. CountsAreTrue' /\ TestedSlotsAreQuiet'
  BY DEF Register, CountsAreTrue, TestedSlotsAreQuiet, Inside, Running
<1>5. FilledSlots'
  <2>1. \A n \in FnNames : \A s \in ids'[n] : ptr'[s] # NULL
    BY <1>1, FillSlot DEF Register, FilledSlots, HotTypes
  <2>2. \A c \in Callers : caller'[c].at # "out" => ptr'[caller'[c].slot] # NULL
    BY <1>1, FillSlot DEF Register, FilledSlots, HotTypes
  <2> QED  BY <2>1, <2>2 DEF FilledSlots
<1>6. SwapsSpareRunningCalls'
  <2> SUFFICES ASSUME NEW c \in Callers, Running(c), c \notin raced, ~overlapped
               PROVE caller[c].code = ptr'[caller[c].slot]
    BY DEF Register, SwapsSpareRunningCalls, Running
  <2>1. caller[c].slot \in Index /\ caller[c].slot # slot
    BY <1>2 DEF Running, HotTypes, FilledSlots
  <2> QED  BY <2>1, <1>1 DEF SwapsSpareRunningCalls, HotTypes
<1>7. SlotsHaveOneOwner'
  <2>1. \A m, n \in FnNames : m # n => ids'[m] \cap ids'[n] = {}
    BY <1>2 DEF Register, SlotsHaveOneOwner, FilledSlots, HotTypes
  <2>2. count' = Cardinality({s \in Index : ptr'[s] # NULL})
    BY <1>1, <1>2, FillSlot DEF Register, SlotsHaveOneOwner
  <2> QED  BY <2>1, <2>2 DEF SlotsHaveOneOwner
<1> QED  BY <1>3, <1>4, <1>5, <1>6, <1>7

\* A count of zero that is true means that nobody runs in the slot.
LEMMA TestKeepsHot ==
  ASSUME NEW slot \in Index, HotInv, TestInFlight(slot) PROVE HotInv'
<1> USE DEF HotInv
<1>1. HotTypes'
  <2>1. slot \in Nat  BY DEF Index
  <2> QED  BY <2>1 DEF TestInFlight, HotTypes, hotTable
<1>2. CountsAreTrue' /\ FilledSlots' /\ SwapsSpareRunningCalls' /\ SlotsHaveOneOwner'
  BY DEF TestInFlight, hotTable, CountsAreTrue, FilledSlots, SwapsSpareRunningCalls,
         SlotsHaveOneOwner, Inside, Running
<1>3. TestedSlotsAreQuiet'
  <2> SUFFICES ASSUME ~overlapped, NEW c \in Callers, Running(c), caller[c].slot = slot
               PROVE FALSE
    BY DEF TestInFlight, TestedSlotsAreQuiet, Running
  <2>1. c \in Inside(slot)  BY DEF Inside, Running
  <2>2. Cardinality(Inside(slot)) <= 0  BY DEF TestInFlight, CountsAreTrue
  <2>3. Cardinality(Inside(slot)) \in Nat  BY InsideIsFinite, FS_CardinalityType
  <2>4. Inside(slot) = {}  BY <2>2, <2>3, InsideIsFinite, FS_EmptySet
  <2> QED  BY <2>1, <2>4
<1> QED  BY <1>1, <1>2, <1>3

\* A swap writes into a slot where only racing calls run.
LEMMA SwapKeepsHot == ASSUME HotInv, Swap PROVE HotInv'
<1> USE DEF HotInv
<1> DEFINE slot == host.slot
<1>0. slot \in Index  BY DEF Swap, HotTypes
<1>1. ptr' = [ptr EXCEPT ![slot] = code + 1] /\ code + 1 \in Nat /\ code + 1 # NULL
  BY DEF Swap, HotTypes, NULL
<1>2. HotTypes'  BY <1>0, <1>1, FillSlot DEF Swap, HotTypes, HostIdle
<1>3. CountsAreTrue' /\ TestedSlotsAreQuiet'
  BY DEF Swap, CountsAreTrue, TestedSlotsAreQuiet, Inside, HostIdle
<1>4. FilledSlots'
  <2>1. \A n \in FnNames : \A s \in ids'[n] : ptr'[s] # NULL
    BY <1>0, <1>1, FillSlot DEF Swap, FilledSlots, HotTypes
  <2>2. \A c \in Callers : caller'[c].at # "out" => ptr'[caller'[c].slot] # NULL
    BY <1>0, <1>1, FillSlot DEF Swap, FilledSlots, HotTypes
  <2> QED  BY <2>1, <2>2 DEF FilledSlots
<1>5. SwapsSpareRunningCalls'
  <2> SUFFICES ASSUME NEW c \in Callers, Running(c), c \notin raced, ~overlapped
               PROVE caller[c].code = ptr'[caller[c].slot]
    BY DEF Swap, SwapsSpareRunningCalls, Running
  <2>1. caller[c].slot \in Index /\ caller[c].slot # slot
    BY DEF Swap, Running, HotTypes, TestedSlotsAreQuiet
  <2> QED  BY <2>1, <1>1 DEF SwapsSpareRunningCalls, HotTypes
<1>6. SlotsHaveOneOwner'
  BY <1>0, <1>1, FillSlot DEF Swap, SlotsHaveOneOwner
<1> QED  BY <1>2, <1>3, <1>4, <1>5, <1>6
-----------------------------------------------------------------------------
(* The steps of a call. *)

\* A step that moves one thread leaves the table's part alone.
LEMMA CallerKeepsTable ==
  ASSUME HotInv, UNCHANGED <<ptr, version, count, hash, ids, host, code>>
  PROVE  /\ SlotsHaveOneOwner'
         /\ \A n \in FnNames : \A s \in ids'[n] : ptr'[s] # NULL
BY DEF HotInv, SlotsHaveOneOwner, FilledSlots

\* xiom_hot_enter reads the count of a slot that was registered.
LEMMA LoadKeepsHot ==
  ASSUME NEW c \in Callers, NEW n \in FnNames, NEW slot \in ids[n], HotInv, LoadCount(c, slot)
  PROVE  HotInv'
<1> USE DEF HotInv
<1>0. slot \in Index /\ slot \in Nat /\ ptr[slot] # NULL  BY DEF HotTypes, FilledSlots, Index
<1>1. \A d \in Callers : caller'[d] = IF d = c
        THEN [at |-> "entering", slot |-> slot, loaded |-> inFlight[slot], code |-> NULL]
        ELSE caller[d]
  BY DEF LoadCount, HotTypes
<1>2. HotTypes'  BY <1>0 DEF LoadCount, HotTypes, hotTable, NULL
<1>3. CountsAreTrue'
  <2>1. \A s : Inside(s)' = Inside(s)  BY <1>1 DEF Inside, LoadCount
  <2> QED  BY <2>1 DEF CountsAreTrue, LoadCount, hotTable
<1>4. FilledSlots'
  BY <1>0, <1>1 DEF LoadCount, hotTable, FilledSlots
<1>5. TestedSlotsAreQuiet'  BY <1>1 DEF LoadCount, TestedSlotsAreQuiet, Running
<1>6. SwapsSpareRunningCalls'
  BY <1>1 DEF LoadCount, hotTable, SwapsSpareRunningCalls, Running
<1>7. SlotsHaveOneOwner'  BY CallerKeepsTable DEF LoadCount, hotTable
<1> QED  BY <1>2, <1>3, <1>4, <1>5, <1>6, <1>7

\* Entering adds one to the count, which is one thread more inside.
LEMMA StoreKeepsHot == ASSUME NEW c \in Callers, HotInv, StoreCount(c) PROVE HotInv'
<1> USE DEF HotInv
<1> DEFINE slot == caller[c].slot
<1>0. slot \in Index /\ caller[c].loaded \in Int  BY DEF StoreCount, HotTypes
<1>1. \A d \in Callers :
        caller'[d] = IF d = c THEN [caller[c] EXCEPT !.at = "counted"] ELSE caller[d]
  BY DEF StoreCount, HotTypes
<1>2. HotTypes'
  BY <1>0 DEF StoreCount, HotTypes
<1>3. CountsAreTrue'
  <2> SUFFICES ASSUME ~overlapped', NEW s \in Index PROVE inFlight'[s] = Cardinality(Inside(s)')
    BY DEF CountsAreTrue
  <2>1. ~overlapped /\ inFlight[slot] = caller[c].loaded  BY DEF StoreCount
  <2>2. inFlight' = [inFlight EXCEPT ![slot] = caller[c].loaded + 1]  BY DEF StoreCount
  <2>3. CASE s = slot
    <3>1. Inside(s)' = Inside(s) \cup {c} /\ c \notin Inside(s)
      BY <1>1, <2>3 DEF Inside, StoreCount, HotTypes
    <3>2. Cardinality(Inside(s)') = Cardinality(Inside(s)) + 1
      BY <3>1, InsideIsFinite, FS_AddElement
    <3> QED  BY <2>1, <2>2, <2>3, <3>2, <1>0 DEF CountsAreTrue, HotTypes
  <2>4. CASE s # slot
    <3>1. Inside(s)' = Inside(s)  BY <1>1, <2>4 DEF Inside, StoreCount, HotTypes
    <3> QED  BY <2>1, <2>2, <2>4, <3>1 DEF CountsAreTrue, HotTypes
  <2> QED  BY <2>3, <2>4
<1>4. FilledSlots'
  <2>1. caller[c].at # "out"  BY DEF StoreCount
  <2> QED  BY <1>1, <2>1 DEF StoreCount, FilledSlots, HotTypes
<1>5. TestedSlotsAreQuiet'  BY <1>1 DEF StoreCount, TestedSlotsAreQuiet, Running, HotTypes
<1>6. SwapsSpareRunningCalls'
  BY <1>1 DEF StoreCount, SwapsSpareRunningCalls, Running, HotTypes
<1>7. SlotsHaveOneOwner'  BY CallerKeepsTable DEF StoreCount
<1> QED  BY <1>2, <1>3, <1>4, <1>5, <1>6, <1>7

\* A call that reads the pointer runs it, and races if a swap has tested its slot.
LEMMA ReadKeepsHot == ASSUME NEW c \in Callers, HotInv, ReadPointer(c) PROVE HotInv'
<1> USE DEF HotInv
<1> DEFINE slot == caller[c].slot
<1>0. slot \in Index /\ ptr[slot] \in Nat  BY DEF ReadPointer, HotTypes
<1>1. \A d \in Callers : caller'[d] =
        IF d = c THEN [caller[c] EXCEPT !.at = "running", !.code = ptr[slot]] ELSE caller[d]
  BY DEF ReadPointer, HotTypes
<1>2. HotTypes'  BY <1>0 DEF ReadPointer, HotTypes, hotTable
<1>3. CountsAreTrue'
  <2>1. \A s : Inside(s)' = Inside(s)  BY <1>1 DEF Inside, ReadPointer, HotTypes
  <2> QED  BY <2>1 DEF CountsAreTrue, ReadPointer, hotTable
<1>4. FilledSlots'
  <2>1. caller[c].at # "out"  BY DEF ReadPointer
  <2> QED  BY <1>1, <2>1 DEF ReadPointer, hotTable, FilledSlots, HotTypes
<1>5. TestedSlotsAreQuiet'
  <2> SUFFICES ASSUME host.at = "tested", ~overlapped, NEW d \in Callers, Running(d)',
                      caller'[d].slot = host.slot
               PROVE d \in raced'
    BY DEF ReadPointer, TestedSlotsAreQuiet
  <2>1. CASE d = c
    <3>1. host = [at |-> "tested", slot |-> slot]  BY <2>1, <1>1 DEF HotTypes
    <3> QED  BY <2>1, <3>1 DEF ReadPointer
  <2>2. CASE d # c  BY <2>2, <1>1 DEF ReadPointer, TestedSlotsAreQuiet, Running
  <2> QED  BY <2>1, <2>2
<1>6. SwapsSpareRunningCalls'
  BY <1>1 DEF ReadPointer, hotTable, SwapsSpareRunningCalls, Running, HotTypes
<1>7. SlotsHaveOneOwner'  BY CallerKeepsTable DEF ReadPointer, hotTable
<1> QED  BY <1>2, <1>3, <1>4, <1>5, <1>6, <1>7

\* xiom_hot_leave reads the count while the thread is still inside.
LEMMA LoadToLeaveKeepsHot == ASSUME NEW c \in Callers, HotInv, LoadToLeave(c) PROVE HotInv'
<1> USE DEF HotInv
<1>0. caller[c].slot \in Index /\ inFlight[caller[c].slot] \in Int
  BY DEF LoadToLeave, HotTypes
<1>1. \A d \in Callers : caller'[d] =
        IF d = c THEN [caller[c] EXCEPT !.at = "leaving", !.loaded = inFlight[caller[c].slot]]
        ELSE caller[d]
  BY DEF LoadToLeave, HotTypes
<1>2. HotTypes'  BY <1>0 DEF LoadToLeave, HotTypes, hotTable
<1>3. CountsAreTrue'
  <2>1. \A s : Inside(s)' = Inside(s)  BY <1>1 DEF Inside, LoadToLeave, HotTypes
  <2> QED  BY <2>1 DEF CountsAreTrue, LoadToLeave, hotTable
<1>4. FilledSlots'
  <2>1. caller[c].at # "out"  BY DEF LoadToLeave
  <2> QED  BY <1>1, <2>1 DEF LoadToLeave, hotTable, FilledSlots, HotTypes
<1>5. TestedSlotsAreQuiet'  BY <1>1 DEF LoadToLeave, TestedSlotsAreQuiet, Running, HotTypes
<1>6. SwapsSpareRunningCalls'
  BY <1>1 DEF LoadToLeave, hotTable, SwapsSpareRunningCalls, Running, HotTypes
<1>7. SlotsHaveOneOwner'  BY CallerKeepsTable DEF LoadToLeave, hotTable
<1> QED  BY <1>2, <1>3, <1>4, <1>5, <1>6, <1>7

\* Leaving takes one from the count, which is positive: the thread was inside.
LEMMA StoreToLeaveKeepsHot == ASSUME NEW c \in Callers, HotInv, StoreToLeave(c) PROVE HotInv'
<1> USE DEF HotInv
<1> DEFINE slot == caller[c].slot
<1>0. slot \in Index /\ caller[c].loaded \in Int  BY DEF StoreToLeave, HotTypes
<1>1. \A d \in Callers : caller'[d] = IF d = c THEN Out ELSE caller[d]
  BY DEF StoreToLeave, HotTypes
<1>2. HotTypes'
  <2>1. inFlight' \in [Index -> Int]  BY <1>0 DEF StoreToLeave, HotTypes
  <2>2. caller' \in [Callers -> [at : {"out", "entering", "counted", "running", "leaving"},
                                 slot : Nat, loaded : Int, code : Nat]]
    BY DEF StoreToLeave, HotTypes, Out, NULL
  <2>3. \A d \in Callers : caller'[d].at # "out" => caller'[d].slot \in Index
    BY <1>1 DEF HotTypes, Out
  <2>4. overlapped' \in BOOLEAN  BY DEF StoreToLeave
  <2> QED  BY <2>1, <2>2, <2>3, <2>4 DEF StoreToLeave, HotTypes
<1>3. CountsAreTrue'
  <2> SUFFICES ASSUME ~overlapped', NEW s \in Index PROVE inFlight'[s] = Cardinality(Inside(s)')
    BY DEF CountsAreTrue
  <2>1. ~overlapped /\ inFlight[slot] = caller[c].loaded  BY DEF StoreToLeave
  <2>2. CASE s = slot
    <3>1. Inside(s)' = Inside(s) \ {c} /\ c \in Inside(s)
      BY <1>1, <2>2 DEF Inside, StoreToLeave, Out
    <3>2. Cardinality(Inside(s)') = Cardinality(Inside(s)) - 1
      BY <3>1, InsideIsFinite, FS_RemoveElement
    <3>3. Cardinality(Inside(s)) \in Nat /\ Cardinality(Inside(s)) # 0
      BY <3>1, InsideIsFinite, FS_CardinalityType, FS_EmptySet
    <3>4. inFlight[s] = Cardinality(Inside(s))  BY <2>1 DEF CountsAreTrue
    <3>5. inFlight' = [inFlight EXCEPT ![slot] = caller[c].loaded - 1]
      BY <2>1, <2>2, <3>3, <3>4 DEF StoreToLeave
    <3> QED  BY <2>1, <2>2, <3>2, <3>4, <3>5, <1>0 DEF HotTypes
  <2>3. CASE s # slot
    <3>1. Inside(s)' = Inside(s)  BY <1>1, <2>3 DEF Inside, Out
    <3>2. inFlight'[s] = inFlight[s]  BY <2>3 DEF StoreToLeave, HotTypes
    <3> QED  BY <2>1, <3>1, <3>2 DEF CountsAreTrue
  <2> QED  BY <2>2, <2>3
<1>4. FilledSlots'  BY <1>1 DEF StoreToLeave, FilledSlots, Out
<1>5. ASSUME NEW d \in Callers, Running(d)'  PROVE Running(d) /\ caller'[d] = caller[d]
  <2>1. d # c  BY <1>1, <1>5 DEF Running, Out
  <2> QED  BY <1>1, <1>5, <2>1 DEF Running
<1>6. (~overlapped' => ~overlapped) /\ host' = host /\ raced' = raced /\ ptr' = ptr
  BY DEF StoreToLeave
<1>8. TestedSlotsAreQuiet'  BY <1>5, <1>6 DEF TestedSlotsAreQuiet
<1>9. SwapsSpareRunningCalls'  BY <1>5, <1>6 DEF SwapsSpareRunningCalls
<1>7. SlotsHaveOneOwner'  BY CallerKeepsTable DEF StoreToLeave
<1> QED  BY <1>2, <1>3, <1>4, <1>7, <1>8, <1>9
-----------------------------------------------------------------------------
\* Every step keeps the invariant of hot reload.
LEMMA HotStep == HotInv /\ [HotNext]_hotVars => HotInv'
<1> SUFFICES ASSUME HotInv, [HotNext]_hotVars PROVE HotInv'  OBVIOUS
<1>1. CASE UNCHANGED hotVars
  BY <1>1 DEF hotVars, hotTable, HotInv, HotTypes, CountsAreTrue, Inside, FilledSlots,
              TestedSlotsAreQuiet, SwapsSpareRunningCalls, SlotsHaveOneOwner, Running
<1>2. ASSUME NEW slot \in Index, TestInFlight(slot) PROVE HotInv'  BY <1>2, TestKeepsHot
<1>3. ASSUME NEW slot \in Index, NEW n \in FnNames, Register(n, slot) PROVE HotInv'
  BY <1>3, RegisterKeepsHot
<1>4. CASE Swap  BY <1>4, SwapKeepsHot
<1>5. ASSUME NEW c \in Callers, Call(c) PROVE HotInv'
  BY <1>5, LoadKeepsHot, StoreKeepsHot, ReadKeepsHot, LoadToLeaveKeepsHot,
     StoreToLeaveKeepsHot DEF Call
<1> QED  BY <1>1, <1>2, <1>3, <1>4, <1>5 DEF HotNext

\* The inductive invariant of the table: as long as no two updates overlapped the
\* counts are those of the threads inside, and a slot whose count a swap has found
\* to be zero is entered by racing calls only.
THEOREM HotInvariant == HotSpec => []HotInv
BY HotInitial, HotStep, PTL DEF HotSpec

\* "Don't swap pointers while in-flight": for every number of threads, slots and
\* versions a running call runs what the table holds, but for the two races that
\* the property names.
THEOREM RunningCallsAreSpared == HotSpec => []SwapsSpareRunningCalls
BY HotInvariant, PTL DEF HotInv

\* No two names share a slot, whatever the hash function is.
THEOREM SlotsAreNotShared == HotSpec => []SlotsHaveOneOwner
BY HotInvariant, PTL DEF HotInv
-----------------------------------------------------------------------------
(* Spawning with pipes *)

PipeSpec == PipeInit /\ [][PipeNext]_pipeVars

Positions == {"out of call", "in", "out", "err", "forked", "closed", "returned", "failed"}
EveryEnd  == {End(s, p, e) : s \in Spawners, p \in Pipes, e \in {"read", "write"}}

PipeTypes ==
  /\ spawning \in [Spawners -> Positions]
  /\ open \subseteq EveryEnd /\ cloexec \subseteq EveryEnd
  /\ held \in [Spawners -> SUBSET EveryEnd] /\ marked \in [Spawners -> SUBSET EveryEnd]
  /\ around \in [Spawners -> SUBSET Spawners]
  /\ state \in [Spawners -> {"none", "forked", "running", "zombie", "reaped"}]
  /\ DOMAIN status = Spawners

\* An open end belongs to a spawn that has made it and still needs it; once a
\* spawn has returned its ends are marked.
OpenEnds ==
  \A d \in open :
    /\ spawning[d.spawn] \notin {"out of call", "failed"}
    /\ spawning[d.spawn] \in {"closed", "returned"} => d \in ParentEnds(d.spawn)
    /\ spawning[d.spawn] = "returned" => d \in cloexec

\* What a forked child holds is its own, marked, or of a spawn under way.
HeldEnds ==
  \A s \in Spawners :
    /\ state[s] = "forked" =>
         \A d \in held[s] : d.spawn = s \/ d \in marked[s] \/ d.spawn \in around[s]
    /\ state[s] = "running" =>
         \A d \in held[s] : d \in ChildEnds(s) \/ d.spawn \in around[s] \ {s}

PipeInv == PipeTypes /\ OpenEnds /\ HeldEnds
-----------------------------------------------------------------------------
\* An end is of the spawn it names.
LEMMA EndsOfASpawn ==
  /\ \A s \in Spawners : Ends(s, Pipes) = {d \in EveryEnd : d.spawn = s}
  /\ \A s \in Spawners : ChildEnds(s) \subseteq Ends(s, Pipes)
  /\ \A s \in Spawners, p \in Pipes : Ends(s, {p}) \subseteq Ends(s, Pipes)
  /\ \A d \in EveryEnd : d.spawn \in Spawners
<1>1. \A s \in Spawners : Ends(s, Pipes) = {d \in EveryEnd : d.spawn = s}
  BY DEF Ends, EveryEnd, End
<1>2. \A s \in Spawners : ChildEnds(s) \subseteq Ends(s, Pipes)
  BY DEF ChildEnds, Ends, End, Pipes
<1>3. \A s \in Spawners, p \in Pipes : Ends(s, {p}) \subseteq Ends(s, Pipes)
  BY DEF Ends
<1>4. \A d \in EveryEnd : d.spawn \in Spawners
  BY DEF EveryEnd, End
<1> QED  BY <1>1, <1>2, <1>3, <1>4

\* Nothing is open and nobody spawns.
LEMMA PipeInitial == PipeInit => PipeInv
BY DEF PipeInit, PipeInv, PipeTypes, OpenEnds, HeldEnds, Positions

\* The actions of the system and of the children leave the parent's ends alone.
LEMMA ExecKeepsPipes == ASSUME NEW s \in Spawners, PipeInv, Exec(s) PROVE PipeInv'
<1>1. PipeTypes'
  <2>1. ChildEnds(s) \subseteq EveryEnd  BY EndsOfASpawn
  <2>2. held' \in [Spawners -> SUBSET EveryEnd]  BY <2>1 DEF Exec, PipeInv, PipeTypes
  <2> QED  BY <2>2 DEF Exec, PipeInv, PipeTypes
<1>2. OpenEnds'  BY DEF Exec, PipeInv, OpenEnds, ParentEnds, ChildEnds
<1>3. ASSUME NEW d \in held'[s] PROVE d \in ChildEnds(s) \/ d.spawn \in around[s] \ {s}
  <2>1. CASE d \in ChildEnds(s)  BY <2>1
  <2>2. CASE d \in held[s] \ marked[s] /\ d \notin Ends(s, Pipes)
    <3>1. d \in EveryEnd  BY <2>2 DEF PipeInv, PipeTypes
    <3>2. d.spawn # s  BY <2>2, <3>1, EndsOfASpawn
    <3> QED  BY <2>2, <3>2 DEF Exec, PipeInv, HeldEnds
  <2> QED  BY <1>3, <2>1, <2>2 DEF Exec, PipeInv, PipeTypes
<1>4. HeldEnds'
  <2> SUFFICES ASSUME NEW t \in Spawners
               PROVE /\ state'[t] = "forked" => \A d \in held'[t] :
                            d.spawn = t \/ d \in marked'[t] \/ d.spawn \in around'[t]
                     /\ state'[t] = "running" => \A d \in held'[t] :
                            d \in ChildEnds(t) \/ d.spawn \in around'[t] \ {t}
    BY DEF HeldEnds
  <2>1. CASE t = s  BY <2>1, <1>3 DEF Exec, PipeInv, PipeTypes
  <2>2. CASE t # s  BY <2>2 DEF Exec, PipeInv, PipeTypes, HeldEnds
  <2> QED  BY <2>1, <2>2
<1> QED  BY <1>1, <1>2, <1>4 DEF PipeInv

\* A fork copies what is open: ends of this spawn, of others under way, and
\* marked ends of those that have returned.
LEMMA ForkKeepsPipes == ASSUME NEW s \in Spawners, PipeInv, Fork(s) PROVE PipeInv'
<1>1. PipeTypes'
  <2>1. Exposed \in SUBSET Spawners /\ open \in SUBSET EveryEnd /\ cloexec \in SUBSET EveryEnd
    BY DEF Exposed, PipeInv, PipeTypes
  <2>2. spawning' \in [Spawners -> Positions]  BY DEF Fork, At, PipeInv, PipeTypes, Positions
  <2> QED  BY <2>1, <2>2 DEF Fork, PipeInv, PipeTypes
<1>2. OpenEnds'
  <2> SUFFICES ASSUME NEW d \in open
               PROVE /\ spawning'[d.spawn] \notin {"out of call", "failed"}
                     /\ spawning'[d.spawn] \in {"closed", "returned"} => d \in ParentEnds(d.spawn)
                     /\ spawning'[d.spawn] = "returned" => d \in cloexec
    BY DEF OpenEnds, Fork
  <2>1. d.spawn \in Spawners  BY EndsOfASpawn DEF PipeInv, PipeTypes
  <2> QED  BY <2>1 DEF Fork, At, PipeInv, PipeTypes, OpenEnds
<1>3. ASSUME NEW d \in open PROVE d.spawn = s \/ d \in cloexec \/ d.spawn \in Exposed
  <2>1. d \in EveryEnd /\ d.spawn \in Spawners  BY EndsOfASpawn DEF PipeInv, PipeTypes
  <2>2. spawning[d.spawn] \in Positions \ {"out of call", "failed"}
    BY <2>1 DEF PipeInv, PipeTypes, OpenEnds
  <2>3. CASE spawning[d.spawn] = "returned"  BY <2>3 DEF PipeInv, OpenEnds
  <2>4. CASE spawning[d.spawn] # "returned"  BY <2>1, <2>2, <2>4 DEF Exposed, Positions
  <2> QED  BY <2>3, <2>4
<1>4. HeldEnds'
  <2> SUFFICES ASSUME NEW t \in Spawners
               PROVE /\ state'[t] = "forked" => \A d \in held'[t] :
                            d.spawn = t \/ d \in marked'[t] \/ d.spawn \in around'[t]
                     /\ state'[t] = "running" => \A d \in held'[t] :
                            d \in ChildEnds(t) \/ d.spawn \in around'[t] \ {t}
    BY DEF HeldEnds
  <2>1. CASE t = s  BY <2>1, <1>3 DEF Fork, PipeInv, PipeTypes
  <2>2. CASE t # s  BY <2>2 DEF Fork, PipeInv, PipeTypes, HeldEnds
  <2> QED  BY <2>1, <2>2
<1> QED  BY <1>1, <1>2, <1>4 DEF PipeInv

\* The end of a child drops all it holds.
LEMMA EndedKeepsPipes ==
  ASSUME NEW s \in Spawners, NEW how, PipeInv, Ended(s, how) PROVE PipeInv'
<1>1. PipeTypes'  BY DEF Ended, PipeInv, PipeTypes
<1>2. OpenEnds'  BY DEF Ended, PipeInv, OpenEnds
<1>3. HeldEnds'  BY DEF Ended, PipeInv, PipeTypes, HeldEnds
<1> QED  BY <1>1, <1>2, <1>3 DEF PipeInv

\* waitpid takes a zombie from the table and no descriptor with it.
LEMMA WaitKeepsPipes == ASSUME NEW s \in Spawners, PipeInv, WaitPid(s) PROVE PipeInv'
<1>1. PipeTypes'  BY DEF WaitPid, PipeInv, PipeTypes
<1>2. OpenEnds'  BY DEF WaitPid, PipeInv, OpenEnds
<1>3. HeldEnds'  BY DEF WaitPid, PipeInv, PipeTypes, HeldEnds
<1> QED  BY <1>1, <1>2, <1>3 DEF PipeInv

\* The steps of the parent touch no child.
LEMMA ParentKeepsHeldEnds == ASSUME PipeInv, UNCHANGED <<held, state, marked, around>>
                             PROVE HeldEnds'
BY DEF PipeInv, HeldEnds

\* A new pipe's two ends are of the spawn that makes it, and unmarked.
LEMMA MakeKeepsPipes ==
  ASSUME NEW s \in Spawners, NEW from \in {"out of call", "in", "out"}, NEW which \in Pipes,
         PipeInv, MakePipe(s, from, which)
  PROVE PipeInv'
<1>1. Ends(s, {which}) \subseteq EveryEnd /\ \A d \in Ends(s, {which}) : d.spawn = s
  BY EndsOfASpawn
<1>2. PipeTypes'  BY <1>1 DEF MakePipe, At, PipeInv, PipeTypes, Positions, Pipes
<1>3. OpenEnds'
  <2> SUFFICES ASSUME NEW d \in open'
               PROVE /\ spawning'[d.spawn] \notin {"out of call", "failed"}
                     /\ spawning'[d.spawn] \in {"closed", "returned"} => d \in ParentEnds(d.spawn)
                     /\ spawning'[d.spawn] = "returned" => d \in cloexec'
    BY DEF OpenEnds
  <2>1. CASE d.spawn = s  BY <2>1 DEF MakePipe, At, PipeInv, PipeTypes, Pipes
  <2>2. CASE d.spawn # s
    <3>1. d \in open /\ d.spawn \in Spawners
      BY <2>2, <1>1, EndsOfASpawn DEF MakePipe, PipeInv, PipeTypes
    <3> QED  BY <2>2, <3>1 DEF MakePipe, At, PipeInv, PipeTypes, OpenEnds
  <2> QED  BY <2>1, <2>2
<1>4. HeldEnds'  BY ParentKeepsHeldEnds DEF MakePipe
<1> QED  BY <1>2, <1>3, <1>4 DEF PipeInv

\* A spawn that fails closes every end it has made so far.
LEMMA FailureKeepsPipes ==
  ASSUME NEW s \in Spawners, NEW from, NEW which, PipeInv, PipeFails(s, from, which)
  PROVE PipeInv'
<1>1. PipeTypes'  BY DEF PipeFails, At, PipeInv, PipeTypes, Positions
<1>2. OpenEnds'
  <2> SUFFICES ASSUME NEW d \in open'
               PROVE /\ spawning'[d.spawn] \notin {"out of call", "failed"}
                     /\ spawning'[d.spawn] \in {"closed", "returned"} => d \in ParentEnds(d.spawn)
                     /\ spawning'[d.spawn] = "returned" => d \in cloexec'
    BY DEF OpenEnds
  <2>1. d \in open /\ d \notin Ends(s, Pipes)  BY DEF PipeFails, ClosedOnFailure
  <2>2. d.spawn \in Spawners \ {s}  BY <2>1, EndsOfASpawn DEF PipeInv, PipeTypes
  <2> QED  BY <2>1, <2>2 DEF PipeFails, At, PipeInv, PipeTypes, OpenEnds
<1>3. HeldEnds'  BY ParentKeepsHeldEnds DEF PipeFails
<1> QED  BY <1>1, <1>2, <1>3 DEF PipeInv

\* After the fork the parent gives up the child's ends and keeps its own.
LEMMA CloseKeepsPipes == ASSUME NEW s \in Spawners, PipeInv, CloseChildEnds(s) PROVE PipeInv'
<1>1. PipeTypes'  BY DEF CloseChildEnds, At, PipeInv, PipeTypes, Positions
<1>2. OpenEnds'
  <2> SUFFICES ASSUME NEW d \in open, d \notin ChildEnds(s)
               PROVE /\ spawning'[d.spawn] \notin {"out of call", "failed"}
                     /\ spawning'[d.spawn] \in {"closed", "returned"} => d \in ParentEnds(d.spawn)
                     /\ spawning'[d.spawn] = "returned" => d \in cloexec
    BY DEF OpenEnds, CloseChildEnds
  <2>1. d \in EveryEnd /\ d.spawn \in Spawners  BY EndsOfASpawn DEF PipeInv, PipeTypes
  <2>2. CASE d.spawn = s
    <3>1. d \in ParentEnds(s)  BY <2>1, <2>2, EndsOfASpawn DEF ParentEnds
    <3> QED  BY <2>2, <3>1 DEF CloseChildEnds, At, PipeInv, PipeTypes
  <2>3. CASE d.spawn # s
    BY <2>1, <2>3 DEF CloseChildEnds, At, PipeInv, PipeTypes, OpenEnds
  <2> QED  BY <2>2, <2>3
<1>3. HeldEnds'  BY ParentKeepsHeldEnds DEF CloseChildEnds
<1> QED  BY <1>1, <1>2, <1>3 DEF PipeInv

\* Marking the parent's ends is what makes a later child of another spawn drop them.
LEMMA MarkKeepsPipes == ASSUME NEW s \in Spawners, PipeInv, MarkParentEnds(s) PROVE PipeInv'
<1>1. PipeTypes'
  <2>1. ParentEnds(s) \subseteq EveryEnd  BY EndsOfASpawn DEF ParentEnds
  <2> QED  BY <2>1 DEF MarkParentEnds, At, ToMark, PipeInv, PipeTypes, Positions
<1>2. OpenEnds'
  <2> SUFFICES ASSUME NEW d \in open
               PROVE /\ spawning'[d.spawn] \notin {"out of call", "failed"}
                     /\ spawning'[d.spawn] \in {"closed", "returned"} => d \in ParentEnds(d.spawn)
                     /\ spawning'[d.spawn] = "returned" => d \in cloexec'
    BY DEF OpenEnds, MarkParentEnds
  <2>1. d.spawn \in Spawners  BY EndsOfASpawn DEF PipeInv, PipeTypes
  <2>2. CASE d.spawn = s
    BY <2>2 DEF MarkParentEnds, ToMark, At, PipeInv, PipeTypes, OpenEnds
  <2>3. CASE d.spawn # s
    BY <2>1, <2>3 DEF MarkParentEnds, At, PipeInv, PipeTypes, OpenEnds
  <2> QED  BY <2>2, <2>3
<1>3. HeldEnds'  BY ParentKeepsHeldEnds DEF MarkParentEnds
<1> QED  BY <1>1, <1>2, <1>3 DEF PipeInv

\* Closing the child's input only removes an end.
LEMMA StdinKeepsPipes == ASSUME NEW s \in Spawners, PipeInv, CloseStdin(s) PROVE PipeInv'
<1>1. PipeTypes'  BY DEF CloseStdin, PipeInv, PipeTypes
<1>2. OpenEnds'  BY DEF CloseStdin, PipeInv, OpenEnds
<1>3. HeldEnds'  BY ParentKeepsHeldEnds DEF CloseStdin
<1> QED  BY <1>1, <1>2, <1>3 DEF PipeInv
-----------------------------------------------------------------------------
\* Every step keeps the invariant of the spawns.
LEMMA PipeStep == PipeInv /\ [PipeNext]_pipeVars => PipeInv'
<1> SUFFICES ASSUME PipeInv, [PipeNext]_pipeVars PROVE PipeInv'  OBVIOUS
<1>1. CASE UNCHANGED pipeVars
  BY <1>1 DEF pipeVars, PipeInv, PipeTypes, OpenEnds, HeldEnds
<1>2. ASSUME NEW s \in Spawners,
             \/ MakePipe(s, "out of call", "in") \/ MakePipe(s, "in", "out")
             \/ MakePipe(s, "out", "err")
      PROVE PipeInv'
  BY <1>2, MakeKeepsPipes DEF Pipes
<1>3. ASSUME NEW s \in Spawners,
             \/ PipeFails(s, "out of call", "in") \/ PipeFails(s, "in", "out")
             \/ PipeFails(s, "out", "err") \/ PipeFails(s, "err", "fork")
      PROVE PipeInv'
  BY <1>3, FailureKeepsPipes
<1>4. ASSUME NEW s \in Spawners, Fork(s) PROVE PipeInv'  BY <1>4, ForkKeepsPipes
<1>5. ASSUME NEW s \in Spawners, Exec(s) PROVE PipeInv'  BY <1>5, ExecKeepsPipes
<1>6. ASSUME NEW s \in Spawners, CloseChildEnds(s) PROVE PipeInv'
  BY <1>6, CloseKeepsPipes
<1>7. ASSUME NEW s \in Spawners, MarkParentEnds(s) PROVE PipeInv'
  BY <1>7, MarkKeepsPipes
<1>8. ASSUME NEW s \in Spawners, CloseStdin(s) PROVE PipeInv'  BY <1>8, StdinKeepsPipes
<1>9. ASSUME NEW s \in Spawners, \E how \in Statuses : ExitWith(s, how) PROVE PipeInv'
  BY <1>9, EndedKeepsPipes DEF ExitWith
<1>10. ASSUME NEW s \in Spawners, KillPid(s) PROVE PipeInv'
  BY <1>10, EndedKeepsPipes DEF KillPid
<1>11. ASSUME NEW s \in Spawners, WaitPid(s) PROVE PipeInv'  BY <1>11, WaitKeepsPipes
<1> QED
  BY <1>1, <1>2, <1>3, <1>4, <1>5, <1>6, <1>7, <1>8, <1>9, <1>10, <1>11 DEF PipeNext

\* The inductive invariant of the spawns: what is open is needed, and what a child
\* holds at its fork is its own, marked, or of a spawn under way.
THEOREM PipeInvariant == PipeSpec => []PipeInv
BY PipeInitial, PipeStep, PTL DEF PipeSpec

\* What the ends say of a running child and of a spawn that is over.
LEMMA PipesAreTheirs == PipeInv => PipesBelongToTheirChild
<1> SUFFICES ASSUME PipeInv, NEW s \in Spawners
             PROVE /\ state[s] = "running" =>
                        \A d \in held[s] : d \in ChildEnds(s) \/ d.spawn \in around[s] \ {s}
                   /\ spawning[s] = "failed" => \A d \in open : d.spawn # s
                   /\ spawning[s] = "returned" =>
                        \A d \in open : d.spawn = s => d \in cloexec \cap ParentEnds(s)
  BY DEF PipesBelongToTheirChild
<1> QED  BY DEF PipeInv, OpenEnds, HeldEnds

\* "so concurrent children do not hold each other's pipes open", for every number
\* of threads that spawn at once, with the forks in between as the only exception.
THEOREM ChildrenHoldTheirOwnPipes == PipeSpec => []PipesBelongToTheirChild
BY PipeInvariant, PipesAreTheirs, PTL
-----------------------------------------------------------------------------
(* Signals *)

SignalSpec == SignalInit /\ [][SignalNext]_signalVars

SignalTypes ==
  /\ platform \in {"windows", "posix"} /\ latched \in Nat
  /\ event \in BOOLEAN /\ installed \in BOOLEAN /\ lost \in BOOLEAN
  /\ pipe \in Seq(Codes) /\ Len(pipe) <= PipeRoom
  /\ handlers \in [SignalThreads -> Seq(Codes)]
  /\ waiter \in [Waiters -> {"out", "woken"}]

\* Windows: the newest code is the latched one, and until it is answered the event,
\* a handler about to set it or a woken waiter stands for it.
NewestIsLatched ==
  platform = "windows" =>
    /\ pipe = <<>> /\ pending = newest
    /\ event \/ latched > 0 \/ Woken \/ lost \/ answer = newest

\* POSIX: the newest byte is the last of the pipe, or was when it was read.
NewestIsWritten ==
  platform = "posix" =>
    /\ event = FALSE /\ latched = 0
    /\ ~lost => newest = IF pipe = <<>> THEN answer ELSE pipe[Len(pipe)]

SignalInv == SignalTypes /\ NewestIsLatched /\ NewestIsWritten

\* Nothing is pending before the first signal.
LEMMA SignalInitial == SignalInit => SignalInv
<1> SUFFICES ASSUME SignalInit PROVE SignalInv  OBVIOUS
<1>1. pipe \in Seq(Codes) /\ Len(pipe) = 0  BY DEF SignalInit
<1>2. SignalTypes
  <2>1. Len(pipe) <= PipeRoom  BY <1>1, SignalAssumption
  <2>2. waiter \in [Waiters -> {"out", "woken"}]  BY DEF SignalInit
  <2>3. /\ platform \in {"windows", "posix"} /\ latched \in Nat
        /\ event \in BOOLEAN /\ installed \in BOOLEAN /\ lost \in BOOLEAN
    BY DEF SignalInit
  <2>4. handlers \in [SignalThreads -> Seq(Codes)]  BY DEF SignalInit
  <2> QED  BY <1>1, <2>1, <2>2, <2>3, <2>4 DEF SignalTypes
<1>3. NewestIsLatched /\ NewestIsWritten
  BY DEF SignalInit, NewestIsLatched, NewestIsWritten, NoSignal
<1> QED  BY <1>2, <1>3 DEF SignalInv

\* The Windows handler latches its code before it sets the event.
LEMMA HandlerKeepsSignals ==
  ASSUME SignalInv,
         SetTheEvent \/ \E sig \in Codes, raised \in BOOLEAN : Latch(sig, raised)
  PROVE  SignalInv'
<1>1. CASE SetTheEvent
  <2>1. /\ event' = installed /\ lost' = (lost \/ ~installed) /\ latched' = latched - 1
        /\ latched > 0 /\ UNCHANGED <<platform, installed, pending, pipe, handlers, waiter, newest, answer>>
    BY <1>1 DEF SetTheEvent
  <2>2. SignalTypes'
    <3>1. event' \in BOOLEAN /\ installed' \in BOOLEAN /\ lost' \in BOOLEAN
      BY <2>1 DEF SignalInv, SignalTypes
    <3>2. latched' \in Nat  BY <2>1 DEF SignalInv, SignalTypes
    <3> QED  BY <2>1, <3>1, <3>2 DEF SignalInv, SignalTypes
  <2>3. event' \/ lost'  BY <2>1 DEF SignalInv, SignalTypes
  <2>4. platform # "posix"  BY <2>1 DEF SignalInv, SignalTypes, NewestIsWritten
  <2> QED  BY <2>1, <2>2, <2>3, <2>4 DEF SignalInv, NewestIsLatched, NewestIsWritten
<1>2. ASSUME NEW sig \in Codes, NEW raised \in BOOLEAN, Latch(sig, raised) PROVE SignalInv'
  <2>1. latched' = latched + 1 /\ lost' = FALSE
    BY <1>2 DEF Latch
  <2>2. latched' > 0 /\ latched' \in Nat  BY <2>1 DEF SignalInv, SignalTypes
  <2>3. SignalTypes'  BY <1>2, <2>1, <2>2 DEF Latch, SignalInv, SignalTypes
  <2> QED  BY <1>2, <2>2, <2>3 DEF Latch, SignalInv, NewestIsLatched, NewestIsWritten
<1> QED  BY <1>1, <1>2

\* A Windows waiter reads the code after it has taken the event.
LEMMA WindowsWaitKeepsSignals ==
  ASSUME SignalInv, NEW w \in Waiters, Wake(w) \/ AnswerPending(w) PROVE SignalInv'
<1>1. CASE Wake(w)
  <2>1. Woken' /\ SignalTypes'  BY <1>1 DEF Wake, Woken, SignalInv, SignalTypes
  <2> QED  BY <1>1, <2>1 DEF Wake, SignalInv, NewestIsLatched, NewestIsWritten
<1>2. CASE AnswerPending(w)
  BY <1>2 DEF SignalInv, SignalTypes, NewestIsLatched, NewestIsWritten, AnswerPending
<1> QED  BY <1>1, <1>2

\* A signal interrupts a thread: what it is handling stays as it was underneath.
LEMMA EnterKeepsSignals ==
  ASSUME SignalInv, NEW t \in SignalThreads, NEW sig \in Codes, EnterHandler(t, sig)
  PROVE  SignalInv'
<1>1. handlers \in [SignalThreads -> Seq(Codes)]  BY DEF SignalInv, SignalTypes
<1>2. Append(handlers[t], sig) \in Seq(Codes)  BY <1>1
<1>3. handlers' \in [SignalThreads -> Seq(Codes)]  BY <1>1, <1>2 DEF EnterHandler
<1>4. UNCHANGED <<platform, installed, pending, event, latched, pipe, waiter, newest, answer, lost>>
  BY DEF EnterHandler
<1> QED
  BY <1>3, <1>4 DEF SignalInv, SignalTypes, NewestIsLatched, NewestIsWritten, Woken

\* The POSIX handler appends its byte, once there is room for it.
LEMMA WriteKeepsSignals ==
  ASSUME SignalInv, NEW t \in SignalThreads, WriteByte(t) PROVE SignalInv'
<1> DEFINE sig == Last(handlers[t])
<1>1. /\ handlers \in [SignalThreads -> Seq(Codes)] /\ handlers[t] \in Seq(Codes)
      /\ handlers[t] # <<>>
  BY DEF WriteByte, SignalInv, SignalTypes
<1>2. sig \in Codes /\ Front(handlers[t]) \in Seq(Codes)
  <2>1. Len(handlers[t]) \in Nat \ {0}  BY <1>1
  <2>2. handlers[t][Len(handlers[t])] \in Codes  BY <1>1, <2>1
  <2>3. SubSeq(handlers[t], 1, Len(handlers[t]) - 1) \in Seq(Codes)  BY <1>1, <2>1
  <2> QED  BY <2>2, <2>3 DEF Last, Front
<1> HIDE DEF sig
<1>3. /\ pipe' = Append(pipe, sig) /\ newest' = sig /\ platform = "posix" /\ Len(pipe) < PipeRoom
      /\ handlers' = [handlers EXCEPT ![t] = Front(handlers[t])]
      /\ UNCHANGED <<platform, installed, event, latched, waiter, lost>>
  BY DEF WriteByte, sig
<1>4. handlers' \in [SignalThreads -> Seq(Codes)]  BY <1>1, <1>2, <1>3
<1>5. /\ pipe' \in Seq(Codes) /\ Len(pipe') = Len(pipe) + 1 /\ pipe'[Len(pipe')] = sig
  BY <1>2, <1>3 DEF SignalInv, SignalTypes
<1>6. pipe' # <<>> /\ Len(pipe') <= PipeRoom
  BY <1>3, <1>5, SignalAssumption DEF SignalInv, SignalTypes
<1>7. SignalTypes'  BY <1>3, <1>4, <1>5, <1>6 DEF SignalInv, SignalTypes
<1>8. NewestIsLatched'  BY <1>3 DEF NewestIsLatched
<1>9. NewestIsWritten'  BY <1>3, <1>5, <1>6 DEF SignalInv, NewestIsWritten
<1> QED  BY <1>7, <1>8, <1>9 DEF SignalInv

\* What n bytes read from a pipe leave in it.
LEMMA RestOfThePipe ==
  ASSUME NEW S, NEW s \in Seq(S), NEW n \in 1 .. Len(s)
  PROVE  LET rest == SubSeq(s, n + 1, Len(s))
         IN /\ rest \in Seq(S) /\ Len(rest) = Len(s) - n
            /\ n = Len(s) => rest = <<>>
            /\ n < Len(s) => rest # <<>> /\ rest[Len(rest)] = s[Len(s)]
<1> DEFINE rest == SubSeq(s, n + 1, Len(s))
<1>2. rest \in Seq(S) /\ Len(rest) = Len(s) - n  OBVIOUS
<1>3. n = Len(s) => rest = <<>>  BY <1>2
<1>4. ASSUME n < Len(s) PROVE rest # <<>> /\ rest[Len(rest)] = s[Len(s)]
  <2>0. Len(s) \in Nat  OBVIOUS
  <2>1. Len(s) - n \in 1 .. Len(s) - n /\ n + (Len(s) - n) = Len(s)  BY <2>0, <1>4
  <2>2. \A i \in 1 .. Len(s) - n : rest[i] = s[n + i]  BY <2>0
  <2>3. rest[Len(s) - n] = s[n + (Len(s) - n)]  BY <2>1, <2>2
  <2>4. Len(rest) # 0  BY <1>2, <2>0, <1>4
  <2> HIDE DEF rest
  <2>5. rest # <<>>  BY <2>4
  <2>6. rest[Len(rest)] = s[Len(s)]  BY <1>2, <2>1, <2>3
  <2> QED  BY <2>5, <2>6
<1> QED  BY <1>2, <1>3, <1>4

\* A POSIX waiter answers the last byte it reads; what it leaves ends as before.
LEMMA ReadKeepsSignals ==
  ASSUME SignalInv, NEW w \in Waiters, ReadPipe(w) PROVE SignalInv'
<1>1. /\ pipe \in Seq(Codes) /\ Len(pipe) <= PipeRoom /\ pipe # <<>>
      /\ Len(pipe) \in Nat \ {0} /\ platform = "posix"
  BY DEF ReadPipe, SignalInv, SignalTypes
<1>2. PICK n \in 1 .. Len(pipe) : /\ answer' = pipe[n]
                                 /\ pipe' = SubSeq(pipe, n + 1, Len(pipe))
  <2> DEFINE n == IF Len(pipe) < ReadSize THEN Len(pipe) ELSE ReadSize
  <2>1. n \in 1 .. Len(pipe)  BY <1>1, SignalAssumption
  <2>2. answer' = pipe[n] /\ pipe' = SubSeq(pipe, n + 1, Len(pipe))
    BY DEF ReadPipe
  <2> QED  BY <2>1, <2>2
<1>3. /\ answer' = pipe[n] /\ pipe' \in Seq(Codes) /\ Len(pipe') = Len(pipe) - n
      /\ n = Len(pipe) => pipe' = <<>>
      /\ n < Len(pipe) => pipe' # <<>> /\ pipe'[Len(pipe')] = pipe[Len(pipe)]
  BY <1>1, <1>2, RestOfThePipe
<1>4. ~lost => newest = pipe[Len(pipe)]
  BY <1>1 DEF SignalInv, NewestIsWritten
<1>5. UNCHANGED <<platform, installed, event, latched, handlers, newest, lost>>  BY DEF ReadPipe
<1>6. SignalTypes'
  <2>1. Len(pipe') <= PipeRoom  BY <1>1, <1>2, <1>3, SignalAssumption
  <2>2. waiter' \in [Waiters -> {"out", "woken"}]  BY DEF ReadPipe, SignalInv, SignalTypes
  <2> QED  BY <1>3, <1>5, <2>1, <2>2 DEF SignalInv, SignalTypes
<1>7. NewestIsWritten'
  <2>1. CASE n < Len(pipe)  BY <2>1, <1>3, <1>4, <1>5 DEF SignalInv, NewestIsWritten
  <2>2. CASE n = Len(pipe)  BY <2>2, <1>3, <1>4, <1>5 DEF SignalInv, NewestIsWritten
  <2> QED  BY <2>1, <2>2, <1>1
<1>8. NewestIsLatched'  BY <1>1, <1>5 DEF NewestIsLatched
<1> QED  BY <1>6, <1>7, <1>8 DEF SignalInv

\* Every step of the signals keeps the newest one in sight.
LEMMA SignalStep == SignalInv /\ [SignalNext]_signalVars => SignalInv'
<1> SUFFICES ASSUME SignalInv, [SignalNext]_signalVars PROVE SignalInv'  OBVIOUS
<1>1. ASSUME NEW works \in BOOLEAN, Install(works) PROVE SignalInv'
  BY <1>1 DEF Install, SignalInv, SignalTypes, NewestIsLatched, NewestIsWritten, Woken
<1>2. ASSUME NEW w \in Waiters, PollPipe(w) PROVE SignalInv'
  BY <1>2 DEF PollPipe, SignalInv, SignalTypes, NewestIsLatched, NewestIsWritten, Woken
<1>3. CASE UNCHANGED signalVars
  BY <1>3 DEF signalVars, SignalInv, SignalTypes, NewestIsLatched, NewestIsWritten, Woken
<1> QED  BY <1>1, <1>2, <1>3, HandlerKeepsSignals, WindowsWaitKeepsSignals, EnterKeepsSignals,
            WriteKeepsSignals, ReadKeepsSignals DEF SignalNext

\* The inductive invariant of the signals.
THEOREM SignalInvariant == SignalSpec => []SignalInv
BY SignalInitial, SignalStep, PTL DEF SignalSpec

\* Once nothing is pending the last answer is the newest signal, for every number
\* of waiters and every size of the pipe and of a read.
LEMMA NewestIsAnswered == SignalInv => TheNewestSignalIsAnswered
BY DEF SignalInv, SignalTypes, NewestIsLatched, NewestIsWritten, TheNewestSignalIsAnswered
-----------------------------------------------------------------------------
(* File locks *)

LockSpec == LockInit /\ [][LockNext]_lockVars

\* A descriptor is in one call at most, or in a FileLock.
DescriptorsAreUsedOnce ==
  /\ fileLocks \cup blocked \cup access \cup closing \subseteq descriptors
  /\ fileLocks \cap (blocked \cup access \cup closing) = {}
  /\ blocked \cap (access \cup closing) = {} /\ access \cap closing = {}

\* What the system has locked, a FileLock of one process stands for.
SystemLocksAreHeld ==
  /\ lockSystem \in {"posix", "windows"}
  /\ locked \subseteq fileLocks
  /\ \A c, d \in locked : c.proc = d.proc /\ (lockSystem = "windows" => c = d)

\* A FileLock without a lock is of a process that has dropped it, on POSIX only.
HoldersHaveTheLock ==
  /\ lockSystem = "windows" => fileLocks \subseteq locked /\ careless = {}
  /\ \A d \in fileLocks : d.proc \notin careless => d.proc \in Holders(locked)

LockInv == DescriptorsAreUsedOnce /\ SystemLocksAreHeld /\ HoldersHaveTheLock

\* Nothing is open at first.
LEMMA LockInitial == LockInit => LockInv
BY DEF LockInit, LockInv, DescriptorsAreUsedOnce, SystemLocksAreHeld, HoldersHaveTheLock, Holders

\* A new descriptor is in no call and no lock.
LEMMA OpenKeepsLocks ==
  ASSUME LockInv, NEW p \in Procs, LockTry(p) \/ LockWait(p) \/ Access(p) PROVE LockInv'
<1>1. CASE LockTry(p)
  <2>1. PICK d \in Unopened(p) : LockTry(p)!(d)  BY <1>1 DEF LockTry
  <2>2. d \notin descriptors  BY DEF Unopened
  <2>3. CASE Conflict(d)
    BY <2>1, <2>2, <2>3 DEF LockInv, DescriptorsAreUsedOnce, SystemLocksAreHeld,
       HoldersHaveTheLock, Holders
  <2>4. CASE ~Conflict(d)
    <3>1. DescriptorsAreUsedOnce'
      BY <2>1, <2>2, <2>4 DEF LockInv, DescriptorsAreUsedOnce
    <3>2. SystemLocksAreHeld'
      BY <2>1, <2>4 DEF LockInv, SystemLocksAreHeld, Conflict, PosixConflict, WindowsConflict
    <3>3. HoldersHaveTheLock'
      BY <2>1, <2>4 DEF LockInv, SystemLocksAreHeld, HoldersHaveTheLock, Holders
    <3> QED  BY <3>1, <3>2, <3>3 DEF LockInv
  <2> QED  BY <2>3, <2>4
<1>2. CASE LockWait(p) \/ Access(p)
  BY <1>2 DEF LockWait, Access, Unopened, LockInv, DescriptorsAreUsedOnce, SystemLocksAreHeld,
     HoldersHaveTheLock, Holders
<1> QED  BY <1>1, <1>2

\* The wait for a lock ends with the lock.
LEMMA GrantKeepsLocks == ASSUME LockInv, NEW d \in descriptors, Granted(d) PROVE LockInv'
<1>0. ~Conflict(d) /\ locked' = locked \cup {d}  BY DEF Granted, WaitEnds
<1>1. DescriptorsAreUsedOnce'  BY DEF Granted, LockInv, DescriptorsAreUsedOnce
<1>2. SystemLocksAreHeld'
  BY <1>0 DEF Granted, LockInv, SystemLocksAreHeld, Conflict, PosixConflict, WindowsConflict
<1>3. HoldersHaveTheLock'
  BY <1>0 DEF Granted, LockInv, SystemLocksAreHeld, HoldersHaveTheLock, Holders
<1> QED  BY <1>1, <1>2, <1>3 DEF LockInv

\* Unlocking or closing a descriptor drops the lock of its process on POSIX.
LEMMA DropKeepsLocks ==
  ASSUME LockInv, NEW d \in descriptors, ReleaseLock(d) \/ Transferred(d) \/ CloseFd(d)
  PROVE  LockInv'
<1>1. CASE ReleaseLock(d)
  <2>1. DescriptorsAreUsedOnce'  BY <1>1 DEF ReleaseLock, LockInv, DescriptorsAreUsedOnce
  <2>2. SystemLocksAreHeld'
    BY <1>1 DEF ReleaseLock, LockInv, SystemLocksAreHeld, Dropped
  <2>3. HoldersHaveTheLock'
    BY <1>1 DEF ReleaseLock, LockInv, SystemLocksAreHeld, HoldersHaveTheLock, Dropped, Holders
  <2> QED  BY <2>1, <2>2, <2>3 DEF LockInv
<1>2. CASE Transferred(d)
  BY <1>2 DEF Transferred, LockInv, DescriptorsAreUsedOnce, SystemLocksAreHeld,
     HoldersHaveTheLock, Holders
<1>3. CASE CloseFd(d)
  <2>1. DescriptorsAreUsedOnce'  BY <1>3 DEF CloseFd, LockInv, DescriptorsAreUsedOnce
  <2>2. SystemLocksAreHeld'
    BY <1>3 DEF CloseFd, LockInv, SystemLocksAreHeld, DescriptorsAreUsedOnce, Dropped
  <2>3. HoldersHaveTheLock'
    BY <1>3 DEF CloseFd, LockInv, SystemLocksAreHeld, HoldersHaveTheLock,
       DescriptorsAreUsedOnce, Dropped, Holders
  <2> QED  BY <2>1, <2>2, <2>3 DEF LockInv
<1> QED  BY <1>1, <1>2, <1>3

\* A process that dies takes its descriptors and locks, and nobody else's.
LEMMA DeathKeepsLocks == ASSUME LockInv, NEW p \in Procs, Die(p) PROVE LockInv'
<1>1. DescriptorsAreUsedOnce'  BY DEF Die, LockInv, DescriptorsAreUsedOnce
<1>2. SystemLocksAreHeld'  BY DEF Die, LockInv, SystemLocksAreHeld
<1>3. HoldersHaveTheLock'  BY DEF Die, LockInv, HoldersHaveTheLock, Holders
<1> QED  BY <1>1, <1>2, <1>3 DEF LockInv

\* Every step of the locks.
LEMMA LockStep == LockInv /\ [LockNext]_lockVars => LockInv'
<1> SUFFICES ASSUME LockInv, [LockNext]_lockVars PROVE LockInv'  OBVIOUS
<1>1. CASE UNCHANGED lockVars
  BY <1>1 DEF lockVars, LockInv, DescriptorsAreUsedOnce, SystemLocksAreHeld, HoldersHaveTheLock,
     Holders
<1> QED  BY <1>1, OpenKeepsLocks, GrantKeepsLocks, DropKeepsLocks, DeathKeepsLocks DEF LockNext

\* The inductive invariant of the file locks.
THEOREM LockInvariant == LockSpec => []LockInv
BY LockInitial, LockStep, PTL DEF LockSpec

\* Locks that are held exclude each other, for every number of processes.
LEMMA HeldLocksExclude == LockInv => LocksExclude
BY DEF LockInv, SystemLocksAreHeld, HoldersHaveTheLock, LocksExclude, Holders
-----------------------------------------------------------------------------
(* The saved state of hot reload *)

StateSpec == StateInit /\ [][StateNext]_stateVars

StateUnits == [kind : {"part", "header", "data", "untouched"}, save : Nat, index : Nat]

Saves == [layout : Layouts \cup {"legacy"}, version : Versions, size : Nat]

\* The file holds the first part of a save, its header at least.
HoldsSave(k) ==
  /\ k \in DOMAIN saves /\ Len(file) \in 1 .. saves[k].size + 1
  /\ file[1] = HeaderOf(k) /\ \A i \in 1 .. Len(file) - 1 : file[i + 1] = DataOf(k, i)

\* What a program that died in a save, or an older program, leaves is no save.
FileHasItsShape ==
  /\ saves \in Seq(Saves) /\ saving \in 0 .. Len(saves)
  /\ file \in Seq(StateUnits)
  /\ \/ file = NoFile
     \/ file # NoFile /\ file[1].kind \in {"part", "data"}
     \/ \E k \in DOMAIN saves : HoldsSave(k)

StateInv == FileHasItsShape /\ RestoreIsWhole

\* A function on 1 .. n is a sequence of length n.
LEMMA BuiltSequence ==
  ASSUME NEW S, NEW n \in Nat, NEW s \in [1 .. n -> S] PROVE s \in Seq(S) /\ Len(s) = n
<1>1. s \in Seq(S)  BY SeqDef
<1>2. Len(s) \in Nat /\ 1 .. Len(s) = 1 .. n  BY <1>1, LenProperties
<1> QED  BY <1>1, <1>2

\* A program that starts finds no file, or one of an older program.
LEMMA StateInitial == StateInit => StateInv
<1> SUFFICES ASSUME StateInit PROVE StateInv  OBVIOUS
<1>0. saves = <<>> /\ saving = 0 /\ asked.layout = "none"  BY DEF StateInit, NotAsked
<1>1. saves \in Seq(Saves) /\ saving \in 0 .. Len(saves)  BY <1>0, EmptySeq
<1>2. RestoreIsWhole  BY <1>0, StateAssumption DEF RestoreIsWhole
<1>3. CASE file = NoFile
  <2>1. file \in Seq(StateUnits)  BY <1>3 DEF NoFile
  <2> QED  BY <1>1, <1>2, <1>3, <2>1 DEF StateInv, FileHasItsShape
<1>4. ASSUME NEW n \in DataSizes, file = [i \in 1 .. n |-> Old(i)] PROVE StateInv
  <2>1. n \in Nat /\ \A i \in 1 .. n : Old(i) \in StateUnits /\ Old(i).kind = "data"
    BY StateAssumption DEF Old, DataOf, StateUnits
  <2>2. file \in [1 .. n -> StateUnits]  BY <1>4, <2>1
  <2>3. file \in Seq(StateUnits) /\ Len(file) = n  BY <2>1, <2>2, BuiltSequence
  <2>4. file # NoFile => file[1].kind = "data"
    <3>1. file # <<>> => 1 \in 1 .. n  BY <2>3, EmptySeq
    <3> QED  BY <1>4, <2>1, <3>1 DEF NoFile
  <2> QED  BY <1>1, <1>2, <2>3, <2>4 DEF StateInv, FileHasItsShape
<1> QED  BY <1>3, <1>4 DEF StateInit

\* A whole save is its header and then its data.
LEMMA WholeSave ==
  ASSUME NEW k \in DOMAIN saves, saves \in Seq(Saves)
  PROVE  /\ Whole(k) \in Seq(StateUnits) /\ Len(Whole(k)) = saves[k].size + 1
         /\ Whole(k)[1] = HeaderOf(k)
         /\ \A i \in 1 .. saves[k].size : Whole(k)[i + 1] = DataOf(k, i)
<1>1. k \in 1 .. Len(saves) /\ saves[k] \in Saves  BY LenProperties, ElementOfSeq
<1>2. saves[k].size \in Nat /\ k \in Nat  BY <1>1, LenProperties, StateAssumption DEF Saves
<1>3. PICK size \in Nat : size = saves[k].size  BY <1>2
<1>4. PICK data : data = [i \in 1 .. size |-> DataOf(k, i)]  OBVIOUS
<1>5. data \in [1 .. size -> StateUnits]  BY <1>2, <1>4 DEF DataOf, StateUnits
<1>6. data \in Seq(StateUnits) /\ Len(data) = size  BY <1>5, BuiltSequence
<1>7. PICK head : head = <<HeaderOf(k)>>  OBVIOUS
<1>8. head \in Seq(StateUnits) /\ Len(head) = 1 /\ head[1] = HeaderOf(k)
  <2>1. HeaderOf(k) \in StateUnits  BY <1>2 DEF HeaderOf, StateUnits
  <2> QED  BY <1>7, <2>1
<1>9. Whole(k) = head \o data  BY <1>3, <1>4, <1>7 DEF Whole
<1>10. /\ head \o data \in Seq(StateUnits) /\ Len(head \o data) = 1 + size
       /\ \A i \in 1 .. 1 + size : (head \o data)[i] = IF i <= 1 THEN head[i] ELSE data[i - 1]
  <2>1. /\ head \o data \in Seq(StateUnits)
        /\ Len(head \o data) = Len(head) + Len(data)
        /\ \A i \in 1 .. Len(head) + Len(data) :
             (head \o data)[i] = IF i <= Len(head) THEN head[i] ELSE data[i - Len(head)]
    BY <1>6, <1>8, ConcatProperties, Zenon
  <2> QED  BY <1>6, <1>8, <2>1
<1>11. (head \o data)[1] = HeaderOf(k)  BY <1>8, <1>10
<1>12. ASSUME NEW i \in 1 .. size PROVE (head \o data)[i + 1] = DataOf(k, i)
  <2>1. i + 1 \in 1 .. 1 + size /\ ~(i + 1 <= 1) /\ (i + 1) - 1 = i  OBVIOUS
  <2>2. data[i] = DataOf(k, i)  BY <1>4
  <2> QED  BY <1>10, <2>1, <2>2
<1> QED  BY <1>3, <1>9, <1>10, <1>11, <1>12

\* A save that finishes leaves its whole, one that dies a part of it.
LEMMA SavingKeepsState ==
  ASSUME StateInv, FinishSave \/ DieInSave PROVE StateInv'
<1>1. saving \in DOMAIN saves /\ saves \in Seq(Saves) /\ saves[saving].size \in Nat
  <2>1. saves \in Seq(Saves) /\ saving \in 0 .. Len(saves) /\ saving > 0
    BY DEF FinishSave, DieInSave, StateInv, FileHasItsShape
  <2>2. saving \in 1 .. Len(saves)  BY <2>1, LenProperties
  <2>3. saves[saving] \in Saves /\ saving \in DOMAIN saves  BY <2>1, <2>2, LenProperties, ElementOfSeq
  <2> QED  BY <2>1, <2>3, StateAssumption DEF Saves
<1>2. PICK k \in DOMAIN saves, size \in Nat : k = saving /\ size = saves[k].size  BY <1>1
<1>3. UNCHANGED <<saves, asked, rc, restored>> /\ saving' = 0
  BY DEF FinishSave, DieInSave
<1>4. RestoreIsWhole'  BY <1>3 DEF StateInv, RestoreIsWhole
<1>5. PICK whole : whole = Whole(k)  OBVIOUS
<1>6. /\ whole \in Seq(StateUnits) /\ Len(whole) = size + 1 /\ whole[1] = HeaderOf(k)
      /\ \A i \in 1 .. size : whole[i + 1] = DataOf(k, i)
  BY <1>1, <1>2, <1>5, WholeSave
<1>7. saving' \in 0 .. Len(saves')  BY <1>1, <1>3, LenProperties
<1>8. ASSUME file' \in Seq(StateUnits),
             file' = NoFile \/ (file' # NoFile /\ file'[1].kind = "part") \/ HoldsSave(k)'
      PROVE  StateInv'
  BY <1>1, <1>3, <1>4, <1>7, <1>8 DEF StateInv, FileHasItsShape
<1>9. ASSUME NEW n \in 1 .. size + 1, Len(file') = n, \A i \in 1 .. n : file'[i] = whole[i]
      PROVE  HoldsSave(k)'
  <2>1. 1 \in 1 .. n /\ file'[1] = HeaderOf(k)  BY <1>6, <1>9
  <2>2. ASSUME NEW i \in 1 .. n - 1 PROVE file'[i + 1] = DataOf(k, i)
    BY <1>6, <1>9, <2>2
  <2> QED  BY <1>1, <1>2, <1>3, <1>9, <2>1, <2>2 DEF HoldsSave
<1>10. CASE FinishSave
  <2>1. file' = whole  BY <1>2, <1>5, <1>10 DEF FinishSave
  <2> QED  BY <1>6, <1>8, <1>9, <2>1
<1>11. ASSUME NEW n \in 0 .. size, file' = SubSeq(whole, 1, n) PROVE StateInv'
  <2>1. \A i \in 1 .. n : whole[i] \in StateUnits  BY <1>6, ElementOfSeq
  <2>2. /\ file' \in Seq(StateUnits) /\ Len(file') = IF 1 <= n THEN n - 1 + 1 ELSE 0
        /\ \A i \in 1 .. n - 1 + 1 : file'[i] = whole[1 + i - 1]
    BY <1>11, <2>1, SubSeqProperties, Z3
  <2>3. CASE n = 0
    <3>1. file' = <<>>  BY <2>2, <2>3, EmptySeq
    <3> QED  BY <1>8, <2>2, <3>1 DEF NoFile
  <2>4. CASE n > 0
    <3>1. Len(file') = n /\ n \in 1 .. size + 1  BY <2>2, <2>4
    <3>2. \A i \in 1 .. n : file'[i] = whole[i]  BY <2>2, <2>4
    <3> QED  BY <1>8, <1>9, <2>2, <3>1, <3>2
  <2> QED  BY <2>3, <2>4
<1>12. CASE file' = <<Short>>
  <2>1. Short \in StateUnits /\ Short.kind = "part"  BY DEF Short, StateUnits
  <2>2. file' \in Seq(StateUnits) /\ file' # NoFile /\ file'[1].kind = "part"
    BY <1>12, <2>1 DEF NoFile
  <2> QED  BY <1>8, <2>2
<1>13. CASE DieInSave
  BY <1>2, <1>5, <1>11, <1>12, <1>13 DEF DieInSave
<1> QED  BY <1>10, <1>13

\* fopen truncates the file: what was in it is gone.
LEMMA BeginKeepsState ==
  ASSUME StateInv, NEW layout \in Layouts \cup {"legacy"}, NEW ver \in Versions, NEW size \in DataSizes,
         BeginSave(layout, ver, size)
  PROVE  StateInv'
<1> DEFINE new == [layout |-> layout, version |-> ver, size |-> size]
<1>1. new \in Saves  BY StateAssumption DEF Saves
<1>2. /\ saves \in Seq(Saves) /\ saves' = Append(saves, new) /\ saving' = Len(saves) + 1
      /\ file' = NoFile /\ UNCHANGED <<asked, rc, restored>>
  BY DEF BeginSave, StateInv, FileHasItsShape
<1>3. /\ saves' \in Seq(Saves) /\ Len(saves') = Len(saves) + 1
      /\ \A k \in DOMAIN saves : k \in DOMAIN saves' /\ saves'[k] = saves[k]
  BY <1>1, <1>2
<1>4. FileHasItsShape'  BY <1>2, <1>3 DEF FileHasItsShape, NoFile
<1>5. RestoreIsWhole'  BY <1>2, <1>3 DEF StateInv, RestoreIsWhole
<1> QED  BY <1>4, <1>5 DEF StateInv

\* Copying n units over a blank buffer.
LEMMA IntoABlank ==
  ASSUME NEW s, NEW n \in Nat, NEW size \in Nat, Len(s) \in Nat, n <= Len(s)
  PROVE  /\ DOMAIN Into(s, n, Blank(size)) = 1 .. size
         /\ \A i \in 1 .. size :
              Into(s, n, Blank(size))[i] = IF i <= n THEN s[i] ELSE Untouched
<1>1. PICK b : b = Blank(size)  OBVIOUS
<1>2. DOMAIN b = 1 .. size /\ \A i \in 1 .. size : b[i] = Untouched  BY <1>1 DEF Blank
<1>3. Smaller(n, Len(s)) = n  BY DEF Smaller
<1> QED  BY <1>1, <1>2, <1>3 DEF Into

\* What a restore of the current form gives back: all the data or nothing.
LEMMA RestoreGivesTheWhole ==
  ASSUME FileHasItsShape, NEW who, who.size \in Nat,
         NEW r, r = Restore(who, Blank(who.size))
  PROVE  /\ r.rc \in {-2, -3, -4} => r.restored = Blank(who.size)
         /\ r.rc = 0 => \E k \in DOMAIN saves :
              /\ saves[k].layout = who.layout /\ saves[k].version = who.version
              /\ \A i \in DOMAIN r.restored :
                   r.restored[i] = IF i <= saves[k].size THEN DataOf(k, i) ELSE Untouched
<1>1. PICK b : b = Blank(who.size)  OBVIOUS
<1>2. Len(b) = who.size
  <2>1. b \in [1 .. who.size -> {Untouched}]  BY <1>1 DEF Blank
  <2> QED  BY <2>1, BuiltSequence
<1>3. CASE file = NoFile \/ file[1].kind # "header"
  BY <1>3 DEF Restore, Restored
<1>4. CASE file # NoFile /\ file[1].kind = "header"
  <2>1. PICK k \in DOMAIN saves : HoldsSave(k)  BY <1>4 DEF FileHasItsShape
  <2>2. file[1].save = k  BY <2>1 DEF HoldsSave, HeaderOf
  <2>3. /\ saves[k].size \in Nat /\ file \in Seq(StateUnits) /\ file # <<>>
        /\ Len(file) \in Nat \ {0}
    <3>1. k \in 1 .. Len(saves) /\ saves[k] \in Saves
      BY LenProperties, ElementOfSeq DEF FileHasItsShape
    <3> QED  BY <1>4, <3>1, EmptySeq, StateAssumption DEF FileHasItsShape, Saves, NoFile
  <2>4. PICK n : n = Smaller(saves[k].size, Len(b))  OBVIOUS
  <2>5. n \in Nat /\ n <= who.size /\ (n = who.size \/ n = saves[k].size) /\ n <= saves[k].size
    BY <1>2, <2>3, <2>4 DEF Smaller
  <2>6. CASE saves[k].version # who.version \/ saves[k].layout # who.layout
    BY <1>4, <2>2, <2>6 DEF Restore, Restored
  <2>7. CASE saves[k].version = who.version /\ saves[k].layout = who.layout
    <3>1. r = [rc |-> IF Len(file) - 1 < n THEN -1 ELSE 0, restored |-> Into(Tail(file), n, b)]
      BY <1>1, <1>4, <2>2, <2>4, <2>7 DEF Restore, Restored
    <3>2. r.rc \in {-1, 0} /\ r.restored = Into(Tail(file), n, b)
          /\ (r.rc = 0 => Len(file) - 1 >= n)
      BY <2>3, <2>5, <3>1
    <3>3. Len(Tail(file)) = Len(file) - 1
          /\ \A j \in 1 .. Len(file) - 1 : Tail(file)[j] = file[j + 1]
      BY <2>3, HeadTailProperties
    <3>4. ASSUME r.rc = 0, NEW i \in DOMAIN r.restored
          PROVE  r.restored[i] = IF i <= saves[k].size THEN DataOf(k, i) ELSE Untouched
      <4>1. Len(Tail(file)) \in Nat /\ Len(Tail(file)) >= n  BY <2>3, <3>2, <3>3, <3>4
      <4>2. i \in 1 .. who.size
            /\ r.restored[i] = IF i <= n THEN Tail(file)[i] ELSE Untouched
        <5>1. PICK tail : tail = Tail(file)  OBVIOUS
        <5>2. Len(tail) \in Nat /\ Len(tail) >= n  BY <4>1, <5>1
        <5>3. /\ DOMAIN Into(tail, n, Blank(who.size)) = 1 .. who.size
              /\ \A j \in 1 .. who.size :
                   Into(tail, n, Blank(who.size))[j] = IF j <= n THEN tail[j] ELSE Untouched
          <6>1. n \in Nat /\ who.size \in Nat /\ n <= Len(tail)  BY <2>5, <5>2
          <6> QED  BY <5>2, <6>1, IntoABlank
        <5>4. r.restored = Into(tail, n, Blank(who.size))  BY <1>1, <3>2, <5>1
        <5> QED  BY <3>4, <5>1, <5>3, <5>4
      <4>3. i <= n => Tail(file)[i] = DataOf(k, i)
        BY <2>1, <2>3, <2>5, <3>2, <3>3, <3>4, <4>2 DEF HoldsSave
      <4>4. i <= n <=> i <= saves[k].size  BY <2>3, <2>5, <4>2
      <4> QED  BY <4>2, <4>3, <4>4
    <3> QED  BY <2>7, <3>2, <3>4
  <2> QED  BY <2>6, <2>7
<1> QED  BY <1>3, <1>4

\* Every step of the saved state.
LEMMA StateStep == StateInv /\ [StateNext]_stateVars => StateInv'
<1> SUFFICES ASSUME StateInv, [StateNext]_stateVars PROVE StateInv'  OBVIOUS
<1>1. ASSUME NEW layout \in Layouts, NEW ver \in Versions, NEW size \in DataSizes,
             RestoreState([layout |-> layout, version |-> ver, size |-> size])
      PROVE  StateInv'
  <2> DEFINE who == [layout |-> layout, version |-> ver, size |-> size]
             r == Restore(who, Blank(who.size))
  <2>1. asked' = who /\ rc' = r.rc /\ restored' = r.restored /\ UNCHANGED <<saves, saving, file>>
    BY <1>1 DEF RestoreState
  <2>2. FileHasItsShape /\ FileHasItsShape'
    BY <2>1 DEF StateInv, FileHasItsShape, HoldsSave
  <2>3. who.size \in Nat  BY StateAssumption
  <2>4. /\ r.rc \in {-2, -3, -4} => r.restored = Blank(who.size)
        /\ r.rc = 0 => \E k \in DOMAIN saves :
              /\ saves[k].layout = who.layout /\ saves[k].version = who.version
              /\ \A i \in DOMAIN r.restored :
                   r.restored[i] = IF i <= saves[k].size THEN DataOf(k, i) ELSE Untouched
    <3> HIDE DEF who
    <3> QED  BY <2>2, <2>3, RestoreGivesTheWhole
  <2> HIDE DEF who, r
  <2>5. RestoreIsWhole'  BY <2>1, <2>4 DEF RestoreIsWhole
  <2> QED  BY <2>2, <2>5 DEF StateInv
<1>2. ASSUME NEW ver \in Versions, NEW size \in DataSizes, RestoreLegacy(ver, size)
      PROVE  StateInv'
  <2>1. asked'.layout = "legacy" /\ UNCHANGED <<saves, saving, file>>  BY <1>2 DEF RestoreLegacy
  <2>2. RestoreIsWhole'  BY <2>1, StateAssumption DEF RestoreIsWhole
  <2> QED  BY <2>1, <2>2 DEF StateInv, FileHasItsShape, HoldsSave
<1>3. CASE UNCHANGED stateVars
  BY <1>3 DEF stateVars, StateInv, FileHasItsShape, HoldsSave, RestoreIsWhole
<1> QED  BY <1>1, <1>2, <1>3, BeginKeepsState, SavingKeepsState DEF StateNext

\* The inductive invariant of the saved state.
THEOREM StateInvariant == StateSpec => []StateInv
BY StateInitial, StateStep, PTL DEF StateSpec
-----------------------------------------------------------------------------
(* The table of process handles *)

ProcessSpec == ProcessInit /\ [][ProcessNext]_processVars

Entries == [pid : Pids, handle : Handles]
Child   == [pid : Pids, runs : BOOLEAN]
Ops     == {"none", "kill", "wait", "running"}

TableTypes ==
  /\ children \in Seq(Child)
  /\ handles \in [Handles -> 0 .. Len(children)]
  /\ track \in Seq(Entries)
  /\ asking \in [Parents -> [op : Ops, at : {"out", "searched"}, child : Nat,
                             got : [handle : Handles, tracked : BOOLEAN] \cup {NoHandle}]]
  /\ \A p \in Parents :
       IF asking[p].at = "searched" THEN asking[p].child \in 1 .. Len(children)
       ELSE asking[p].got = NoHandle

\* The call closes its handle when it is done.
Owns(p) == asking[p].got # NoHandle /\ (asking[p].op = "wait" \/ ~asking[p].got.tracked)

\* A handle is the table's, or one call's.
HandlesHaveOneOwner ==
  /\ \A p \in Parents : Owns(p) =>
       /\ handles[asking[p].got.handle] # Closed
       /\ \A k \in 1 .. Len(track) : track[k].handle # asking[p].got.handle
  /\ \A p, q \in Parents : p # q /\ Owns(p) /\ Owns(q) =>
       asking[p].got.handle # asking[q].got.handle

\* What is known of the table: its entries' handles are open on their pids.
EntriesAreOpen ==
  /\ \A k \in 1 .. Len(track) :
       /\ handles[track[k].handle] # Closed
       /\ children[handles[track[k].handle]].pid = track[k].pid
  /\ \A k, l \in 1 .. Len(track) :
       k # l => track[k].pid # track[l].pid /\ track[k].handle # track[l].handle

Confusable == untracked \cup waitedFor

\* The entry of a child.
IsEntryOf(k, i) == track[k].pid = children[i].pid /\ handles[track[k].handle] = i

\* A child is in the table until somebody waits for it, unless it had no room.
ChildrenAreTracked ==
  \A i \in 1 .. Len(children) : i \notin Confusable =>
    \E k \in 1 .. Len(track) : IsEntryOf(k, i)

\* A call about such a child has the table's handle on it, and leaves it there.
CallsHoldTheirChild ==
  \A p \in Parents : asking[p].at = "searched" /\ asking[p].child \notin Confusable =>
    /\ asking[p].got # NoHandle /\ ~Owns(p)
    /\ \E k \in 1 .. Len(track) :
         IsEntryOf(k, asking[p].child) /\ track[k].handle = asking[p].got.handle

ProcessInv ==
  /\ TableTypes /\ HandlesHaveOneOwner /\ EntriesAreOpen /\ ChildrenAreTracked
  /\ CallsHoldTheirChild /\ CallsMeetTheirChild

\* The types of the parts.
LEMMA TableParts ==
  ASSUME TableTypes
  PROVE  /\ Len(track) \in Nat /\ Len(children) \in Nat
         /\ DOMAIN track = 1 .. Len(track) /\ DOMAIN children = 1 .. Len(children)
         /\ \A k \in 1 .. Len(track) :
              /\ track[k] \in Entries /\ track[k].pid \in Pids /\ track[k].handle \in Handles
              /\ handles[track[k].handle] \in 0 .. Len(children)
         /\ \A i \in 1 .. Len(children) : children[i] \in Child
<1>1. track \in Seq(Entries) /\ children \in Seq(Child)
  BY DEF TableTypes
<1>2. /\ Len(track) \in Nat /\ Len(children) \in Nat
      /\ DOMAIN track = 1 .. Len(track) /\ DOMAIN children = 1 .. Len(children)
  BY <1>1, LenProperties
<1>3. \A k \in 1 .. Len(track) : track[k] \in Entries  BY <1>1, ElementOfSeq
<1>4. \A i \in 1 .. Len(children) : children[i] \in Child
  BY <1>1, ElementOfSeq
<1>5. \A k \in 1 .. Len(track) : track[k].pid \in Pids /\ track[k].handle \in Handles
  BY <1>3 DEF Entries
<1>6. \A k \in 1 .. Len(track) : handles[track[k].handle] \in 0 .. Len(children)
  BY <1>5 DEF TableTypes
<1> QED  BY <1>2, <1>3, <1>4, <1>5, <1>6

\* Where the entry of a pid is.
EntryAt(pid) == SelectInSeq(track, LAMBDA e : e.pid = pid)

\* The table has one entry of a pid at most, and the search finds it.
LEMMA EntryIsFound ==
  ASSUME TableTypes, EntriesAreOpen, NEW pid
  PROVE  \E at \in 0 .. Len(track) :
           /\ at = EntryAt(pid)
           /\ at = 0 => \A k \in 1 .. Len(track) : track[k].pid # pid
           /\ at # 0 => track[at].pid = pid
                        /\ \A k \in 1 .. Len(track) : k # at => track[k].pid # pid
<1> DEFINE I == {i \in 1 .. Len(track) : track[i].pid = pid}
<1>1. EntryAt(pid) = IF I # {} THEN CHOOSE x \in I : \A y \in I : x <= y ELSE 0
  BY DEF EntryAt, SelectInSeq, Min
<1>2. Len(track) \in Nat  BY TableParts
<1>3. CASE I = {}
  <2>1. EntryAt(pid) = 0  BY <1>1, <1>3
  <2>2. \A k \in 1 .. Len(track) : track[k].pid # pid  BY <1>3
  <2> QED  BY <1>2, <2>1, <2>2
<1>4. ASSUME NEW k \in 1 .. Len(track), track[k].pid = pid
      PROVE  EntryAt(pid) = k /\ \A y \in 1 .. Len(track) : y # k => track[y].pid # pid
  <2>1. \A y \in 1 .. Len(track) : y # k => track[y].pid # pid  BY <1>4 DEF EntriesAreOpen
  <2>2. I = {k}  BY <1>4, <2>1
  <2>3. (CHOOSE x \in {k} : \A y \in {k} : x <= y) = k  BY <1>2
  <2>4. EntryAt(pid) = IF {k} # {} THEN CHOOSE x \in {k} : \A y \in {k} : x <= y ELSE 0
    BY <1>1, <2>2
  <2> QED  BY <2>1, <2>3, <2>4
<1>5. CASE I # {}
  <2>1. PICK k \in 1 .. Len(track) : track[k].pid = pid  BY <1>5
  <2>2. k # 0 /\ k \in 0 .. Len(track)  BY <1>2
  <2>3. EntryAt(pid) = k /\ \A y \in 1 .. Len(track) : y # k => track[y].pid # pid
    BY <1>4, <2>1
  <2> HIDE DEF I
  <2> QED  BY <2>1, <2>2, <2>3
<1> QED  BY <1>3, <1>5

\* The table is searched by pid.
LEMMA TrackedFinds ==
  ASSUME TableTypes, EntriesAreOpen, NEW pid
  PROVE  \/ /\ Tracked(pid) = NoHandle
            /\ \A k \in 1 .. Len(track) : track[k].pid # pid
         \/ \E k \in 1 .. Len(track) :
              track[k].pid = pid /\ Tracked(pid) = [handle |-> track[k].handle, tracked |-> TRUE]
<1>1. Tracked(pid) = IF EntryAt(pid) = 0 THEN NoHandle
                     ELSE [handle |-> track[EntryAt(pid)].handle, tracked |-> TRUE]
  BY DEF Tracked, EntryAt, SelectInSeq, Min
<1>2. PICK at \in 0 .. Len(track) :
        /\ at = EntryAt(pid)
        /\ at = 0 => \A k \in 1 .. Len(track) : track[k].pid # pid
        /\ at # 0 => track[at].pid = pid
  BY EntryIsFound
<1>3. Len(track) \in Nat  BY TableParts
<1>4. CASE at = 0  BY <1>1, <1>2, <1>4
<1>5. CASE at # 0
  <2>1. at \in 1 .. Len(track)  BY <1>3, <1>5
  <2> QED  BY <1>1, <1>2, <1>5, <2>1
<1> QED  BY <1>4, <1>5

\* Taking a pid out leaves the other entries, each once.
LEMMA TakenKeepsTheOthers ==
  ASSUME TableTypes, EntriesAreOpen, NEW pid
  PROVE  \E t \in Seq(Entries) :
            /\ t = Taken(track, pid)
            /\ \A k \in 1 .. Len(t) : \E l \in 1 .. Len(track) :
                 t[k] = track[l] /\ track[l].pid # pid
            /\ \A k, l \in 1 .. Len(t) : k # l => t[k].pid # t[l].pid /\ t[k].handle # t[l].handle
            /\ \A l \in 1 .. Len(track) : track[l].pid # pid =>
                 \E k \in 1 .. Len(t) : t[k] = track[l]
<1>1. Taken(track, pid) =
        IF EntryAt(pid) = 0 THEN track
        ELSE SubSeq([track EXCEPT ![EntryAt(pid)] = track[Len(track)]], 1,
                    Len([track EXCEPT ![EntryAt(pid)] = track[Len(track)]]) - 1)
  BY DEF Taken, EntryAt, SelectInSeq, Min, Front, Last
<1>2. PICK n \in Nat : n = Len(track)  BY TableParts
<1>3. track \in Seq(Entries)  BY DEF TableTypes
<1>4. PICK j \in 0 .. n :
        /\ j = EntryAt(pid)
        /\ j = 0 => \A k \in 1 .. n : track[k].pid # pid
        /\ j # 0 => track[j].pid = pid /\ \A k \in 1 .. n : k # j => track[k].pid # pid
  BY <1>2, EntryIsFound
<1>5. CASE j = 0
  <2>1. Taken(track, pid) = track  BY <1>1, <1>4, <1>5
  <2>2. \A k, l \in 1 .. Len(track) :
          k # l => track[k].pid # track[l].pid /\ track[k].handle # track[l].handle
    BY DEF EntriesAreOpen
  <2> QED  BY <1>2, <1>3, <1>4, <1>5, <2>1, <2>2
<1>6. CASE j # 0
  <2>1. j \in 1 .. n /\ n \in 1 .. n  BY <1>4, <1>6
  <2>2. track[n] \in Entries  BY <1>2, <1>3, <2>1, ElementOfSeq
  <2>3. PICK u : u = [track EXCEPT ![j] = track[n]]  OBVIOUS
  <2>4. /\ u \in Seq(Entries) /\ Len(u) = n
        /\ \A k \in 1 .. n : u[k] = IF k = j THEN track[n] ELSE track[k]
    BY <1>2, <1>3, <2>1, <2>2, <2>3, ExceptSeq
  <2>5. PICK t : t = SubSeq(u, 1, n - 1)  OBVIOUS
  <2>6. Taken(track, pid) = t  BY <1>1, <1>2, <1>4, <1>6, <2>3, <2>4, <2>5
  <2>7. t \in Seq(Entries) /\ Len(t) = n - 1 /\ \A k \in 1 .. n - 1 : t[k] = u[k]
    <3>1. \A i \in 1 .. n - 1 : u[i] \in Entries
      <4>1. \A i \in 1 .. Len(u) : u[i] \in Entries  BY <2>4, ElementOfSeq
      <4> QED  BY <2>4, <4>1
    <3>2. /\ t \in Seq(Entries) /\ Len(t) = IF 1 <= n - 1 THEN (n - 1) - 1 + 1 ELSE 0
          /\ \A i \in 1 .. (n - 1) - 1 + 1 : t[i] = u[1 + i - 1]
      <4>1. 1 \in Int /\ n - 1 \in Int  OBVIOUS
      <4> QED  BY <2>5, <3>1, <4>1, SubSeqProperties
    <3>3. Len(t) = n - 1  BY <2>1, <3>2
    <3>4. ASSUME NEW k \in 1 .. n - 1 PROVE t[k] = u[k]
      <4>1. k \in 1 .. (n - 1) - 1 + 1 /\ 1 + k - 1 = k  OBVIOUS
      <4>2. t[k] = u[1 + k - 1]  BY <3>2, <4>1
      <4> QED  BY <4>1, <4>2
    <3> QED  BY <3>2, <3>3, <3>4
  <2>8. \A k \in 1 .. n - 1 : k \in 1 .. n /\ t[k] = IF k = j THEN track[n] ELSE track[k]
    BY <2>4, <2>7
  <2>9. ASSUME NEW k \in 1 .. n - 1 PROVE \E l \in 1 .. n : t[k] = track[l] /\ track[l].pid # pid
    <3>1. CASE k = j
      <4>1. n # j  BY <3>1
      <4> QED  BY <1>4, <1>6, <2>1, <2>8, <3>1, <4>1
    <3>2. CASE k # j  BY <1>4, <1>6, <2>8, <3>2
    <3> QED  BY <3>1, <3>2
  <2>10. ASSUME NEW k \in 1 .. n - 1, NEW l \in 1 .. n - 1, k # l
         PROVE  t[k].pid # t[l].pid /\ t[k].handle # t[l].handle
    <3>1. n # k /\ n # l  OBVIOUS
    <3>2. PICK k1 \in 1 .. n : t[k] = track[k1] /\ k1 = IF k = j THEN n ELSE k
      BY <2>1, <2>8
    <3>3. PICK l1 \in 1 .. n : t[l] = track[l1] /\ l1 = IF l = j THEN n ELSE l
      BY <2>1, <2>8
    <3>4. k1 # l1  BY <2>10, <3>1, <3>2, <3>3
    <3> QED  BY <1>2, <3>2, <3>3, <3>4 DEF EntriesAreOpen
  <2>11. ASSUME NEW l \in 1 .. n, track[l].pid # pid PROVE \E k \in 1 .. n - 1 : t[k] = track[l]
    <3>1. l # j  BY <1>4, <1>6, <2>11
    <3>2. CASE l = n
      <4>1. j \in 1 .. n - 1  BY <2>1, <3>1, <3>2
      <4> QED  BY <2>8, <3>2, <4>1
    <3>3. CASE l # n
      <4>1. l \in 1 .. n - 1  BY <3>3
      <4> QED  BY <2>8, <3>1, <4>1
    <3> QED  BY <3>2, <3>3
  <2>12. /\ \A k \in 1 .. Len(t) : \E l \in 1 .. Len(track) :
              t[k] = track[l] /\ track[l].pid # pid
         /\ \A l \in 1 .. Len(track) : track[l].pid # pid => \E k \in 1 .. Len(t) : t[k] = track[l]
    BY <1>2, <2>7, <2>9, <2>11
  <2>13. \A k, l \in 1 .. Len(t) : k # l => t[k].pid # t[l].pid /\ t[k].handle # t[l].handle
    BY <2>7, <2>10
  <2> QED  BY <2>6, <2>7, <2>12, <2>13
<1> QED  BY <1>5, <1>6

\* No child, no handle, no call at first.
LEMMA ProcessInitial == ProcessInit => ProcessInv
<1> SUFFICES ASSUME ProcessInit PROVE ProcessInv  OBVIOUS
<1>1. /\ children = <<>> /\ track = <<>> /\ Len(children) = 0 /\ Len(track) = 0
      /\ handles = [h \in Handles |-> 0] /\ asking = [p \in Parents |-> NotAsking] /\ mistaken = {}
  BY DEF ProcessInit, Closed
<1>2. children \in Seq(Child) /\ track \in Seq(Entries)
  BY <1>1
<1>3. handles \in [Handles -> 0 .. Len(children)]  BY <1>1
<1>4. \A p \in Parents : asking[p].at = "out" /\ asking[p].got = NoHandle
  BY <1>1 DEF NotAsking
<1>5. asking \in [Parents -> [op : Ops, at : {"out", "searched"}, child : Nat,
                              got : [handle : Handles, tracked : BOOLEAN] \cup {NoHandle}]]
  BY <1>1 DEF NotAsking, Ops
<1>6. TableTypes  BY <1>2, <1>3, <1>4, <1>5 DEF TableTypes
<1>7. HandlesHaveOneOwner  BY <1>4 DEF HandlesHaveOneOwner, Owns
<1>8. EntriesAreOpen /\ ChildrenAreTracked  BY <1>1 DEF EntriesAreOpen, ChildrenAreTracked
<1>9. CallsHoldTheirChild /\ CallsMeetTheirChild
  BY <1>1, <1>4 DEF CallsHoldTheirChild, CallsMeetTheirChild
<1> QED  BY <1>6, <1>7, <1>8, <1>9 DEF ProcessInv

\* A child that ends keeps its pid, as long as a handle is open on it.
LEMMA EndingKeepsPids ==
  ASSUME ProcessInv, NEW i \in 1 .. Len(children), children' = [children EXCEPT ![i].runs = FALSE]
  PROVE  /\ children' \in Seq(Child) /\ Len(children') = Len(children)
         /\ \A j \in 1 .. Len(children) : children'[j].pid = children[j].pid
<1>1. children \in Seq(Child)  BY DEF ProcessInv, TableTypes
<1>2. PICK c \in Child : c = children[i]  BY <1>1, ElementOfSeq
<1>3. PICK e : e = [c EXCEPT !.runs = FALSE]  OBVIOUS
<1>4. e \in Child /\ e.pid = children[i].pid  BY <1>2, <1>3 DEF Child
<1>5. PICK u : u = [children EXCEPT ![i] = e]  OBVIOUS
<1>6. /\ u \in Seq(Child) /\ Len(u) = Len(children)
      /\ \A j \in 1 .. Len(children) : u[j] = IF j = i THEN e ELSE children[j]
  BY <1>1, <1>4, <1>5, ExceptSeq
<1>7. u = children'  BY <1>2, <1>3, <1>5
<1>8. /\ children' \in Seq(Child) /\ Len(children') = Len(children)
      /\ \A j \in 1 .. Len(children) : children'[j] = IF j = i THEN e ELSE children[j]
  BY <1>6, <1>7
<1> QED  BY <1>4, <1>8

\* The table's part of the invariant does not know which children run.
LEMMA EndingKeepsTable ==
  ASSUME ProcessInv, NEW i \in DOMAIN children, ChildExits(i) PROVE ProcessInv'
<1>1. i \in 1 .. Len(children)  BY TableParts DEF ProcessInv
<1>2. /\ children' = [children EXCEPT ![i].runs = FALSE]
      /\ UNCHANGED <<handles, track, asking, untracked, waitedFor, mistaken>>
  BY DEF ChildExits
<1>3. /\ children' \in Seq(Child) /\ Len(children') = Len(children)
      /\ \A j \in 1 .. Len(children) : children'[j].pid = children[j].pid
  BY <1>1, <1>2, EndingKeepsPids
<1>4. TableTypes'  BY <1>2, <1>3 DEF ProcessInv, TableTypes
<1>5. HandlesHaveOneOwner'  BY <1>2 DEF ProcessInv, HandlesHaveOneOwner, Owns
<1>6. \A k \in 1 .. Len(track) : \A j \in 1 .. Len(children) : IsEntryOf(k, j) =>
        track'[k].pid = children'[j].pid /\ handles'[track'[k].handle] = j
  BY <1>2, <1>3 DEF IsEntryOf
<1>7. EntriesAreOpen'
  <2>1. \A k \in 1 .. Len(track) : handles[track[k].handle] \in 1 .. Len(children)
    BY TableParts DEF ProcessInv, EntriesAreOpen, Closed
  <2> QED  BY <1>2, <1>3, <2>1 DEF ProcessInv, EntriesAreOpen
<1>8. ChildrenAreTracked'
  BY <1>2, <1>3, <1>6 DEF ProcessInv, ChildrenAreTracked, Confusable, IsEntryOf
<1>9. CallsHoldTheirChild'
  <2> SUFFICES ASSUME NEW p \in Parents, asking[p].at = "searched", asking[p].child \notin Confusable
               PROVE  /\ asking[p].got # NoHandle /\ ~Owns(p)
                      /\ \E k \in 1 .. Len(track) :
                           /\ track'[k].pid = children'[asking[p].child].pid
                           /\ handles'[track'[k].handle] = asking[p].child
                           /\ track[k].handle = asking[p].got.handle
    BY <1>2 DEF CallsHoldTheirChild, Confusable, Owns, IsEntryOf
  <2>1. asking[p].child \in 1 .. Len(children)  BY DEF ProcessInv, TableTypes
  <2>2. /\ asking[p].got # NoHandle /\ ~Owns(p)
        /\ \E k \in 1 .. Len(track) :
             IsEntryOf(k, asking[p].child) /\ track[k].handle = asking[p].got.handle
    BY DEF ProcessInv, CallsHoldTheirChild
  <2> QED  BY <1>6, <2>1, <2>2
<1>10. CallsMeetTheirChild'  BY <1>2 DEF ProcessInv, CallsMeetTheirChild
<1> QED  BY <1>4, <1>5, <1>7, <1>8, <1>9, <1>10 DEF ProcessInv

\* Starting a child: a new pid, and a new handle if the table has room.
LEMMA StartKeepsTable ==
  ASSUME ProcessInv, NEW pid \in Pids, NEW h \in Handles, StartChild(pid, h) PROVE ProcessInv'
<1> USE DEF ProcessInv
<1>1. PICK n \in Nat : n = Len(children)  BY TableParts
<1>2. PICK new : new = [pid |-> pid, runs |-> TRUE]  OBVIOUS
<1>2a. new \in Child /\ new.pid = pid  BY <1>2 DEF Child
<1>3. /\ children' = Append(children, new) /\ FreePid(pid) /\ handles[h] = Closed
      /\ UNCHANGED <<asking, waitedFor, mistaken>>
  BY <1>2 DEF StartChild, FreeHandle
<1>4. /\ children' \in Seq(Child) /\ Len(children') = n + 1
      /\ \A j \in 1 .. n : children'[j] = children[j]
      /\ children'[n + 1].pid = pid
  BY <1>1, <1>2a, <1>3 DEF TableTypes
<1>5. \A k \in 1 .. Len(track) : /\ handles[track[k].handle] \in 1 .. n /\ track[k].handle \in Handles
                                 /\ track[k].handle # h
  BY <1>1, <1>3, TableParts DEF EntriesAreOpen, Closed
<1>6. \A k \in 1 .. Len(track) : track[k].pid # pid
  <2> SUFFICES ASSUME NEW k \in 1 .. Len(track), track[k].pid = pid PROVE FALSE  OBVIOUS
  <2>1. PICK i \in 1 .. n : i = handles[track[k].handle] /\ i \in DOMAIN children
    BY <1>1, <1>5, TableParts
  <2>2. children[i].pid = pid  BY <2>1 DEF EntriesAreOpen
  <2>3. i \in ObjectOf(pid)  BY <1>5, <2>1, <2>2 DEF ObjectOf
  <2> QED  BY <1>3, <2>3 DEF FreePid
<1>7. CASE ~(Len(track) < TrackMax)
  <2>1. UNCHANGED <<handles, track>> /\ untracked' = untracked \cup {n + 1}
    BY <1>1, <1>7 DEF StartChild
  <2>2. TableTypes'  BY <1>1, <1>3, <1>4, <2>1 DEF TableTypes
  <2>3. HandlesHaveOneOwner'  BY <1>3, <2>1 DEF HandlesHaveOneOwner, Owns
  <2>4. EntriesAreOpen'
    <3>1. ASSUME NEW k \in 1 .. Len(track)
          PROVE  /\ handles[track[k].handle] # Closed
                 /\ children'[handles[track[k].handle]].pid = track[k].pid
      BY <1>4, <1>5, <3>1 DEF EntriesAreOpen
    <3> QED  BY <2>1, <3>1 DEF EntriesAreOpen
  <2>5. ChildrenAreTracked'
    <3> SUFFICES ASSUME NEW i \in 1 .. n + 1, i \notin Confusable' PROVE \E k \in 1 .. Len(track) :
                          track[k].pid = children'[i].pid /\ handles[track[k].handle] = i
      BY <1>4, <2>1 DEF ChildrenAreTracked, IsEntryOf
    <3>1. i \in 1 .. n /\ i \notin Confusable  BY <1>3, <2>1 DEF Confusable
    <3> QED  BY <1>1, <1>4, <3>1 DEF ChildrenAreTracked, IsEntryOf
  <2>6. CallsHoldTheirChild'
    <3> SUFFICES ASSUME NEW p \in Parents, asking[p].at = "searched", asking[p].child \notin Confusable'
                 PROVE  /\ asking[p].got # NoHandle /\ ~Owns(p)
                        /\ \E k \in 1 .. Len(track) :
                             /\ track[k].pid = children'[asking[p].child].pid
                             /\ handles[track[k].handle] = asking[p].child
                             /\ track[k].handle = asking[p].got.handle
      BY <1>3, <2>1 DEF CallsHoldTheirChild, Owns, IsEntryOf
    <3>1. asking[p].child \in 1 .. n  BY <1>1 DEF TableTypes
    <3>2. asking[p].child \notin Confusable  BY <1>3, <2>1 DEF Confusable
    <3> QED  BY <1>4, <3>1, <3>2 DEF CallsHoldTheirChild, IsEntryOf
  <2>7. CallsMeetTheirChild'  BY <1>3, <2>1 DEF CallsMeetTheirChild
  <2> QED  BY <2>2, <2>3, <2>4, <2>5, <2>6, <2>7
<1>8. CASE Len(track) < TrackMax
  <2>1. PICK m \in Nat : m = Len(track)  BY TableParts
  <2>2a. PICK e : e = [pid |-> pid, handle |-> h]  OBVIOUS
  <2>2. e \in Entries /\ e.pid = pid /\ e.handle = h  BY <2>2a DEF Entries
  <2>3. /\ handles' = [handles EXCEPT ![h] = n + 1] /\ track' = Append(track, e)
        /\ UNCHANGED untracked
    BY <1>1, <1>8, <2>2a DEF StartChild
  <2>4. /\ track' \in Seq(Entries) /\ Len(track') = m + 1 /\ track'[m + 1] = e
        /\ \A k \in 1 .. m : track'[k] = track[k]
    <3>1. track \in Seq(Entries)  BY DEF TableTypes
    <3> QED  BY <2>1, <2>2, <2>3, <3>1
  <2>5. /\ handles' \in [Handles -> 0 .. n + 1] /\ handles'[h] = n + 1
        /\ \A g \in Handles : g # h => handles'[g] = handles[g]
    BY <1>1, <2>3 DEF TableTypes
  <2>6. TableTypes'  BY <1>1, <1>3, <1>4, <2>4, <2>5 DEF TableTypes
  <2>7. ASSUME NEW k \in 1 .. m
        PROVE  /\ track'[k] = track[k] /\ handles'[track'[k].handle] = handles[track[k].handle]
               /\ handles[track[k].handle] \in 1 .. n /\ track[k].handle # h /\ track[k].pid # pid
    BY <1>5, <1>6, <2>1, <2>4, <2>5
  <2>8. HandlesHaveOneOwner'
    <3>1. \A p \in Parents : Owns(p) => asking[p].got.handle \in Handles \ {h}
      BY <1>3 DEF Owns, TableTypes, HandlesHaveOneOwner
    <3>2. ASSUME NEW p \in Parents, Owns(p)
          PROVE  /\ handles'[asking[p].got.handle] # Closed
                 /\ \A k \in 1 .. m + 1 : track'[k].handle # asking[p].got.handle
      <4>1. \A k \in 1 .. m : track'[k].handle # asking[p].got.handle
        BY <2>1, <2>4, <3>2 DEF HandlesHaveOneOwner
      <4>2. track'[m + 1].handle # asking[p].got.handle  BY <2>2, <2>4, <3>1, <3>2
      <4>3. handles'[asking[p].got.handle] # Closed
        BY <2>5, <3>1, <3>2 DEF HandlesHaveOneOwner
      <4> QED  BY <4>1, <4>2, <4>3
    <3> QED  BY <1>3, <2>4, <3>2 DEF HandlesHaveOneOwner, Owns
  <2>9. EntriesAreOpen'
    <3>1. ASSUME NEW k \in 1 .. m + 1
          PROVE  /\ handles'[track'[k].handle] # Closed
                 /\ children'[handles'[track'[k].handle]].pid = track'[k].pid
      <4>1. CASE k = m + 1  BY <1>4, <2>2, <2>4, <2>5, <4>1 DEF Closed
      <4>2. CASE k \in 1 .. m  BY <1>4, <2>1, <2>7, <4>2 DEF EntriesAreOpen, Closed
      <4> QED  BY <4>1, <4>2
    <3>2. ASSUME NEW k \in 1 .. m + 1, NEW l \in 1 .. m + 1, k # l
          PROVE  track'[k].pid # track'[l].pid /\ track'[k].handle # track'[l].handle
      <4>1. CASE k \in 1 .. m /\ l \in 1 .. m  BY <2>1, <2>7, <3>2, <4>1 DEF EntriesAreOpen
      <4>2. CASE k \in 1 .. m /\ l = m + 1  BY <2>2, <2>4, <2>7, <4>2
      <4>3. CASE k = m + 1 /\ l \in 1 .. m  BY <2>2, <2>4, <2>7, <4>3
      <4> QED  BY <3>2, <4>1, <4>2, <4>3
    <3> QED  BY <2>4, <3>1, <3>2 DEF EntriesAreOpen
  <2>10. ASSUME NEW k \in 1 .. m, NEW i \in 1 .. n, IsEntryOf(k, i)
         PROVE  track'[k].pid = children'[i].pid /\ handles'[track'[k].handle] = i
    BY <1>4, <2>7, <2>10 DEF IsEntryOf
  <2>11. ChildrenAreTracked'
    <3> SUFFICES ASSUME NEW i \in 1 .. n + 1, i \notin Confusable PROVE \E k \in 1 .. m + 1 :
                          track'[k].pid = children'[i].pid /\ handles'[track'[k].handle] = i
      BY <1>3, <1>4, <2>3, <2>4 DEF ChildrenAreTracked, IsEntryOf, Confusable
    <3>1. CASE i = n + 1  BY <1>4, <2>2, <2>4, <2>5, <3>1
    <3>2. CASE i \in 1 .. n
      <4>1. PICK k \in 1 .. m : IsEntryOf(k, i)  BY <1>1, <2>1, <3>2 DEF ChildrenAreTracked
      <4>2. k \in 1 .. m + 1  OBVIOUS
      <4> QED  BY <2>10, <3>2, <4>1, <4>2
    <3> QED  BY <3>1, <3>2
  <2>12. CallsHoldTheirChild'
    <3> SUFFICES ASSUME NEW p \in Parents, asking[p].at = "searched", asking[p].child \notin Confusable
                 PROVE  /\ asking[p].got # NoHandle /\ ~Owns(p)
                        /\ \E k \in 1 .. m + 1 :
                             /\ track'[k].pid = children'[asking[p].child].pid
                             /\ handles'[track'[k].handle] = asking[p].child
                             /\ track'[k].handle = asking[p].got.handle
      <4>1. asking' = asking /\ Confusable' = Confusable /\ Len(track') = m + 1
        BY <1>3, <2>3, <2>4 DEF Confusable
      <4>2. \A p \in Parents : Owns(p)' = Owns(p)  BY <4>1 DEF Owns
      <4> QED  BY <4>1, <4>2 DEF CallsHoldTheirChild, IsEntryOf
    <3>1. asking[p].child \in 1 .. n  BY <1>1 DEF TableTypes
    <3>2. /\ asking[p].got # NoHandle /\ ~Owns(p)
          /\ \E k \in 1 .. m :
               IsEntryOf(k, asking[p].child) /\ track[k].handle = asking[p].got.handle
      BY <2>1 DEF CallsHoldTheirChild
    <3>3. PICK k \in 1 .. m : IsEntryOf(k, asking[p].child) /\ track[k].handle = asking[p].got.handle
      BY <3>2
    <3>4. k \in 1 .. m + 1  OBVIOUS
    <3> QED  BY <2>7, <2>10, <3>1, <3>2, <3>3, <3>4
  <2>13. CallsMeetTheirChild'  BY <1>3, <2>3 DEF CallsMeetTheirChild
  <2> QED  BY <2>6, <2>8, <2>9, <2>11, <2>12, <2>13
<1> QED  BY <1>7, <1>8

CallRecords == [op : Ops, at : {"out", "searched"}, child : Nat,
                got : [handle : Handles, tracked : BOOLEAN] \cup {NoHandle}]

\* What a call that has no handle is about can be confused, or it has not begun.
LEMMA UnfoundIsConfusable ==
  ASSUME ProcessInv, NEW p \in Parents, asking[p].at = "searched", asking[p].got = NoHandle
  PROVE  asking[p].child \in Confusable
BY DEF ProcessInv, CallsHoldTheirChild

\* A lookup: a wait takes the entry and its handle, other calls leave both.
LEMMA LookUpKeepsTable ==
  ASSUME ProcessInv, NEW p \in Parents, NEW op \in {"kill", "wait", "running"},
         NEW i \in DOMAIN children, LookUp(p, op, i)
  PROVE  ProcessInv'
<1> USE DEF ProcessInv
<1>1. PICK n \in Nat, m \in Nat : n = Len(children) /\ m = Len(track) /\ i \in 1 .. n
  BY TableParts
<1>2. PICK pid, found : pid = children[i].pid /\ found = Tracked(pid)  OBVIOUS
<1>3. PICK call : call = [op |-> op, at |-> "searched", child |-> i, got |-> found]  OBVIOUS
<1>4. /\ asking' = [asking EXCEPT ![p] = call] /\ UNCHANGED <<children, handles, untracked, mistaken>>
      /\ IF op = "wait" THEN /\ track' = Taken(track, pid)
                             /\ waitedFor' = IF found = NoHandle THEN waitedFor
                                             ELSE waitedFor \cup {handles[found.handle]}
         ELSE UNCHANGED <<track, waitedFor>>
  BY <1>2, <1>3 DEF LookUp
<1>5. \/ found = NoHandle /\ \A k \in 1 .. m : track[k].pid # pid
      \/ \E k \in 1 .. m : track[k].pid = pid /\ found = [handle |-> track[k].handle, tracked |-> TRUE]
  BY <1>1, <1>2, TrackedFinds
<1>6. found \in [handle : Handles, tracked : BOOLEAN] \cup {NoHandle}
  <2>1. CASE found = NoHandle  BY <2>1
  <2>2. CASE \E k \in 1 .. m :
          track[k].pid = pid /\ found = [handle |-> track[k].handle, tracked |-> TRUE]
    <3>1. PICK k \in 1 .. m : found = [handle |-> track[k].handle, tracked |-> TRUE]  BY <2>2
    <3>2. track[k].handle \in Handles  BY <1>1, TableParts
    <3>3. found \in [handle : Handles, tracked : BOOLEAN]  BY <3>1, <3>2
    <3> QED  BY <3>3
  <2> QED  BY <1>5, <2>1, <2>2
<1>7. /\ track' \in Seq(Entries)
      /\ \A k \in 1 .. Len(track') : \E l \in 1 .. m :
           track'[k] = track[l] /\ (op = "wait" => track[l].pid # pid)
      /\ \A k, l \in 1 .. Len(track') :
           k # l => track'[k].pid # track'[l].pid /\ track'[k].handle # track'[l].handle
      /\ \A l \in 1 .. m : op # "wait" \/ track[l].pid # pid =>
           \E k \in 1 .. Len(track') : track'[k] = track[l]
  <2>1. CASE op = "wait"
    <3>1. PICK t \in Seq(Entries) :
            /\ t = Taken(track, pid)
            /\ \A k \in 1 .. Len(t) : \E l \in 1 .. Len(track) :
                 t[k] = track[l] /\ track[l].pid # pid
            /\ \A k, l \in 1 .. Len(t) : k # l => t[k].pid # t[l].pid /\ t[k].handle # t[l].handle
            /\ \A l \in 1 .. Len(track) : track[l].pid # pid =>
                 \E k \in 1 .. Len(t) : t[k] = track[l]
      <4>1. TableTypes /\ EntriesAreOpen  OBVIOUS
      <4> HIDE DEF ProcessInv
      <4> QED  BY <4>1, TakenKeepsTheOthers
    <3>2. track' = t  BY <1>4, <2>1, <3>1
    <3> QED  BY <1>1, <2>1, <3>1, <3>2
  <2>2. CASE op # "wait"  BY <1>1, <1>4, <2>2 DEF TableTypes, EntriesAreOpen
  <2> QED  BY <2>1, <2>2
<1>8. asking' \in [Parents -> CallRecords] /\ call \in CallRecords /\ call.at = "searched"
      /\ call.child = i /\ call.got = found /\ call.op = op
  <2>1. call \in CallRecords /\ call.at = "searched" /\ call.child = i /\ call.got = found
        /\ call.op = op
    BY <1>1, <1>3, <1>6 DEF CallRecords, Ops
  <2> QED  BY <1>4, <2>1 DEF TableTypes, CallRecords
<1>9. \A q \in Parents : asking'[q] = IF q = p THEN call ELSE asking[q]  BY <1>4 DEF TableTypes
<1>10. Confusable \subseteq Confusable'  BY <1>4 DEF Confusable
<1>11. TableTypes'  BY <1>1, <1>4, <1>7, <1>8, <1>9 DEF TableTypes, CallRecords
<1>12. EntriesAreOpen'
  <2>1. ASSUME NEW k \in 1 .. Len(track')
        PROVE  /\ handles[track'[k].handle] # Closed
               /\ children[handles[track'[k].handle]].pid = track'[k].pid
    <3>1. PICK l \in 1 .. m : track'[k] = track[l]  BY <1>7
    <3> QED  BY <1>1, <3>1 DEF EntriesAreOpen
  <2> QED  BY <1>4, <1>7, <2>1 DEF EntriesAreOpen
<1>13. \A q \in Parents : q # p => (Owns(q)' <=> Owns(q))  BY <1>9 DEF Owns
<1>14. ASSUME Owns(p)'
       PROVE  op = "wait" /\ \E k \in 1 .. m : track[k].pid = pid /\ found.handle = track[k].handle
  <2>1. asking'[p] = call  BY <1>9
  <2>2. found # NoHandle /\ (op = "wait" \/ ~found.tracked)  BY <1>8, <1>14, <2>1 DEF Owns
  <2>3. PICK k \in 1 .. m : track[k].pid = pid /\ found = [handle |-> track[k].handle, tracked |-> TRUE]
    BY <1>5, <2>2
  <2>4. found.handle = track[k].handle /\ found.tracked  BY <2>3
  <2> QED  BY <2>2, <2>3, <2>4
<1>15. HandlesHaveOneOwner'
  <2>1. ASSUME NEW q \in Parents, Owns(q)'
        PROVE  /\ handles[asking'[q].got.handle] # Closed
               /\ \A k \in 1 .. Len(track') : track'[k].handle # asking'[q].got.handle
    <3>1. CASE q = p
      <4>1. PICK l \in 1 .. m : track[l].pid = pid /\ found.handle = track[l].handle
        BY <1>14, <2>1, <3>1
      <4>2. asking'[q].got.handle = track[l].handle  BY <1>8, <1>9, <3>1, <4>1
      <4>3. ASSUME NEW k \in 1 .. Len(track') PROVE track'[k].handle # track[l].handle
        <5>1. PICK j \in 1 .. m : track'[k] = track[j] /\ track[j].pid # pid
          BY <1>7, <1>14, <2>1, <3>1
        <5> QED  BY <1>1, <4>1, <5>1 DEF EntriesAreOpen
      <4> QED  BY <1>1, <4>1, <4>2, <4>3 DEF EntriesAreOpen
    <3>2. CASE q # p
      <4>1. Owns(q) /\ asking'[q] = asking[q]  BY <1>9, <1>13, <2>1, <3>2
      <4>2. \A l \in 1 .. m : track[l].handle # asking[q].got.handle
        BY <1>1, <4>1 DEF HandlesHaveOneOwner
      <4>3. handles[asking[q].got.handle] # Closed  BY <4>1 DEF HandlesHaveOneOwner
      <4>4. ASSUME NEW k \in 1 .. Len(track') PROVE track'[k].handle # asking[q].got.handle
        <5>1. PICK l \in 1 .. m : track'[k] = track[l]  BY <1>7
        <5> QED  BY <4>2, <5>1
      <4> QED  BY <4>1, <4>3, <4>4
    <3> QED  BY <3>1, <3>2
  <2>2. ASSUME NEW q \in Parents, q # p, Owns(p)', Owns(q)'
        PROVE  asking'[p].got.handle # asking'[q].got.handle
    <3>1. PICK l \in 1 .. m : track[l].pid = pid /\ found.handle = track[l].handle
      BY <1>14, <2>2
    <3>2. Owns(q) /\ asking'[q] = asking[q]  BY <1>9, <1>13, <2>2
    <3> QED  BY <1>1, <1>8, <1>9, <3>1, <3>2 DEF HandlesHaveOneOwner
  <2>3. ASSUME NEW q \in Parents, NEW r \in Parents, q # r, q # p, r # p, Owns(q)', Owns(r)'
        PROVE  asking'[q].got.handle # asking'[r].got.handle
    BY <1>9, <1>13, <2>3 DEF HandlesHaveOneOwner
  <2> QED  BY <1>4, <2>1, <2>2, <2>3 DEF HandlesHaveOneOwner
<1>16. ASSUME NEW j \in 1 .. n, j \notin Confusable', NEW l \in 1 .. m, IsEntryOf(l, j)
       PROVE  \E k \in 1 .. Len(track') : track'[k] = track[l]
  <2>1. CASE op = "wait" /\ track[l].pid = pid
    <3>1. found # NoHandle /\ found.handle = track[l].handle
      BY <1>1, <1>5, <2>1 DEF EntriesAreOpen, NoHandle
    <3>2. j \in waitedFor'  BY <1>4, <1>16, <2>1, <3>1 DEF IsEntryOf
    <3> QED  BY <1>16, <3>2 DEF Confusable
  <2>2. CASE ~(op = "wait" /\ track[l].pid = pid)  BY <1>7, <2>2
  <2> QED  BY <2>1, <2>2
<1>17. ChildrenAreTracked'
  <2> SUFFICES ASSUME NEW j \in 1 .. n, j \notin Confusable'
               PROVE  \E k \in 1 .. Len(track') :
                        track'[k].pid = children[j].pid /\ handles[track'[k].handle] = j
    BY <1>1, <1>4 DEF ChildrenAreTracked, IsEntryOf
  <2>1. PICK l \in 1 .. m : IsEntryOf(l, j)  BY <1>1, <1>10 DEF ChildrenAreTracked
  <2>2. PICK k \in 1 .. Len(track') : track'[k] = track[l]  BY <1>16, <2>1
  <2> QED  BY <2>1, <2>2 DEF IsEntryOf
<1>18. CallsHoldTheirChild'
  <2> SUFFICES ASSUME NEW q \in Parents, asking'[q].at = "searched", asking'[q].child \notin Confusable'
               PROVE  /\ asking'[q].got # NoHandle /\ ~Owns(q)'
                      /\ \E k \in 1 .. Len(track') :
                           /\ track'[k].pid = children[asking'[q].child].pid
                           /\ handles[track'[k].handle] = asking'[q].child
                           /\ track'[k].handle = asking'[q].got.handle
    BY <1>4 DEF CallsHoldTheirChild, IsEntryOf
  <2>1. CASE q # p
    <3>1. asking'[q] = asking[q]  BY <1>9, <2>1
    <3>2. asking[q].child \in 1 .. n /\ asking[q].child \notin Confusable
      BY <1>1, <1>10, <3>1 DEF TableTypes
    <3>3. PICK l \in 1 .. m : IsEntryOf(l, asking[q].child) /\ track[l].handle = asking[q].got.handle
      BY <1>1, <3>1, <3>2 DEF CallsHoldTheirChild
    <3>4. PICK k \in 1 .. Len(track') : track'[k] = track[l]  BY <1>16, <3>1, <3>2, <3>3
    <3>5. asking[q].got # NoHandle /\ ~Owns(q)  BY <3>1, <3>2 DEF CallsHoldTheirChild
    <3> QED  BY <1>13, <2>1, <3>1, <3>3, <3>4, <3>5 DEF IsEntryOf
  <2>2. CASE q = p
    <3>1. asking'[q].child = i /\ i \notin Confusable /\ i \notin Confusable'
      BY <1>8, <1>9, <1>10, <2>2
    <3>2. PICK l \in 1 .. m : IsEntryOf(l, i)  BY <1>1, <3>1 DEF ChildrenAreTracked
    <3>3. track[l].pid = pid /\ handles[track[l].handle] = i  BY <1>2, <3>2 DEF IsEntryOf
    <3>4. found # NoHandle /\ found.handle = track[l].handle /\ found.tracked
      BY <1>1, <1>5, <3>3 DEF EntriesAreOpen, NoHandle
    <3>5. op # "wait"
      <4> SUFFICES ASSUME op = "wait" PROVE FALSE  OBVIOUS
      <4>1. i \in waitedFor'  BY <1>4, <3>3, <3>4
      <4> QED  BY <3>1, <4>1 DEF Confusable
    <3>6. ~Owns(q)'  BY <1>8, <1>9, <2>2, <3>4, <3>5 DEF Owns
    <3>7. PICK k \in 1 .. Len(track') : track'[k] = track[l]  BY <1>7, <3>5
    <3> QED  BY <1>2, <1>8, <1>9, <2>2, <3>3, <3>4, <3>6, <3>7
  <2> QED  BY <2>1, <2>2
<1>19. CallsMeetTheirChild'  BY <1>4, <1>10 DEF CallsMeetTheirChild, Confusable
<1> QED  BY <1>11, <1>12, <1>15, <1>17, <1>18, <1>19

\* A step of one call, which leaves the table and may open or close one handle,
\* that is neither an entry's nor another call's.
LEMMA CallKeepsTable ==
  ASSUME ProcessInv, NEW p \in Parents, NEW g, NEW call \in CallRecords,
         asking' = [asking EXCEPT ![p] = call],
         children' \in Seq(Child), Len(children') = Len(children),
         \A j \in 1 .. Len(children) : children'[j].pid = children[j].pid,
         UNCHANGED <<track, untracked, waitedFor>>, mistaken' \subseteq Confusable,
         handles' \in [Handles -> 0 .. Len(children)],
         \A x \in Handles : x # g => handles'[x] = handles[x],
         \A k \in 1 .. Len(track) : track[k].handle # g,
         \A q \in Parents : q # p /\ Owns(q) => asking[q].got.handle # g,
         \/ call.at = "out" /\ call.got = NoHandle
         \/ /\ call.at = "searched" /\ call.child \in 1 .. Len(children) /\ call.child \in Confusable
            /\ call.got # NoHandle /\ call.got.handle = g /\ handles'[g] # Closed
  PROVE  ProcessInv'
<1> USE DEF ProcessInv
<1>1. PICK n \in Nat, m \in Nat : n = Len(children) /\ m = Len(track)  BY TableParts
<1>2. Confusable' = Confusable  BY DEF Confusable
<1>3. \A q \in Parents : asking'[q] = IF q = p THEN call ELSE asking[q]  BY DEF TableTypes
<1>4. ASSUME NEW k \in 1 .. m
      PROVE  /\ track'[k] = track[k] /\ handles'[track[k].handle] = handles[track[k].handle]
             /\ handles[track[k].handle] \in 1 .. n
             /\ children'[handles[track[k].handle]].pid = children[handles[track[k].handle]].pid
  <2>1. track[k].handle \in Handles /\ handles[track[k].handle] \in 0 .. n  BY <1>1, TableParts
  <2>2. handles[track[k].handle] # 0  BY <1>1 DEF EntriesAreOpen, Closed
  <2> QED  BY <1>1, <2>1, <2>2
<1>5. TableTypes'
  <2>1. asking' \in [Parents -> CallRecords]  BY DEF TableTypes, CallRecords
  <2>2. \A q \in Parents : IF asking'[q].at = "searched" THEN asking'[q].child \in 1 .. n
                           ELSE asking'[q].got = NoHandle
    BY <1>1, <1>3 DEF TableTypes
  <2> QED  BY <1>1, <2>1, <2>2 DEF TableTypes, CallRecords
<1>6. EntriesAreOpen'
  <2>1. ASSUME NEW k \in 1 .. m
        PROVE  /\ handles'[track[k].handle] # Closed
               /\ children'[handles'[track[k].handle]].pid = track[k].pid
    BY <1>1, <1>4 DEF EntriesAreOpen, Closed
  <2> QED  BY <1>1, <2>1 DEF EntriesAreOpen
<1>7. \A q \in Parents : q # p => (Owns(q)' <=> Owns(q)) /\ asking'[q] = asking[q]
  BY <1>3 DEF Owns
<1>8. ASSUME Owns(p)' PROVE asking'[p].got.handle = g /\ handles'[g] # Closed
  <2>1. asking'[p] = call  BY <1>3
  <2>2. call.got # NoHandle  BY <1>8, <2>1 DEF Owns
  <2> QED  BY <2>1, <2>2
<1>9. ASSUME NEW q \in Parents, q # p, Owns(q)
      PROVE  asking[q].got.handle # g /\ handles'[asking[q].got.handle] # Closed
  <2>1. asking[q].got.handle \in Handles  BY <1>9 DEF TableTypes, Owns
  <2>2. handles[asking[q].got.handle] # Closed  BY <1>9 DEF HandlesHaveOneOwner
  <2> QED  BY <1>9, <2>1, <2>2
<1>10. HandlesHaveOneOwner'
  <2>1. ASSUME NEW q \in Parents, Owns(q)'
        PROVE  /\ handles'[asking'[q].got.handle] # Closed
               /\ \A k \in 1 .. Len(track) : track[k].handle # asking'[q].got.handle
    <3>1. CASE q = p  BY <1>8, <2>1, <3>1
    <3>2. CASE q # p  BY <1>7, <1>9, <2>1, <3>2 DEF HandlesHaveOneOwner
    <3> QED  BY <3>1, <3>2
  <2>2. ASSUME NEW q \in Parents, q # p, Owns(p)', Owns(q)'
        PROVE  asking'[p].got.handle # asking'[q].got.handle
    BY <1>7, <1>8, <1>9, <2>2
  <2>3. ASSUME NEW q \in Parents, NEW r \in Parents, q # r, q # p, r # p, Owns(q)', Owns(r)'
        PROVE  asking'[q].got.handle # asking'[r].got.handle
    BY <1>7, <2>3 DEF HandlesHaveOneOwner
  <2> QED  BY <2>1, <2>2, <2>3 DEF HandlesHaveOneOwner
<1>11. ASSUME NEW k \in 1 .. m, NEW j \in 1 .. n, IsEntryOf(k, j)
       PROVE  track[k].pid = children'[j].pid /\ handles'[track[k].handle] = j
  BY <1>1, <1>4, <1>11 DEF IsEntryOf
<1>12. ChildrenAreTracked'
  BY <1>1, <1>2, <1>11 DEF ChildrenAreTracked, IsEntryOf
<1>13. CallsHoldTheirChild'
  <2> SUFFICES ASSUME NEW q \in Parents, asking'[q].at = "searched", asking'[q].child \notin Confusable
               PROVE  /\ asking'[q].got # NoHandle /\ ~Owns(q)'
                      /\ \E k \in 1 .. m :
                           /\ track[k].pid = children'[asking'[q].child].pid
                           /\ handles'[track[k].handle] = asking'[q].child
                           /\ track[k].handle = asking'[q].got.handle
    BY <1>1, <1>2 DEF CallsHoldTheirChild, IsEntryOf
  <2>1. q # p  BY <1>3
  <2>2. asking'[q] = asking[q] /\ asking[q].child \in 1 .. n  BY <1>1, <1>7, <2>1 DEF TableTypes
  <2>3. PICK k \in 1 .. m : IsEntryOf(k, asking[q].child) /\ track[k].handle = asking[q].got.handle
    BY <1>1, <2>2 DEF CallsHoldTheirChild
  <2>4. asking[q].got # NoHandle /\ ~Owns(q)  BY <2>2 DEF CallsHoldTheirChild
  <2> QED  BY <1>7, <1>11, <2>1, <2>2, <2>3, <2>4
<1>14. CallsMeetTheirChild'  BY <1>2 DEF CallsMeetTheirChild, Confusable
<1> QED  BY <1>5, <1>6, <1>10, <1>12, <1>13, <1>14

\* No entry and no call has the null handle, nor one that is free.
LEMMA NobodyHasAFreeHandle ==
  ASSUME ProcessInv, NEW g, g \in Handles => FreeHandle(g)
  PROVE  /\ \A k \in 1 .. Len(track) : track[k].handle # g
         /\ \A q \in Parents : Owns(q) => asking[q].got.handle # g
<1> USE DEF ProcessInv
<1>1. ASSUME NEW k \in 1 .. Len(track) PROVE track[k].handle # g
  <2>1. track[k].handle \in Handles  BY TableParts
  <2>2. handles[track[k].handle] # Closed  BY DEF EntriesAreOpen
  <2> QED  BY <2>1, <2>2 DEF FreeHandle
<1>2. ASSUME NEW q \in Parents, Owns(q) PROVE asking[q].got.handle # g
  <2>1. asking[q].got.handle \in Handles  BY <1>2 DEF TableTypes, Owns
  <2>2. handles[asking[q].got.handle] # Closed  BY <1>2 DEF HandlesHaveOneOwner
  <2> QED  BY <2>1, <2>2 DEF FreeHandle
<1> QED  BY <1>1, <1>2

\* A call without a handle opens the pid: its child is not in the table.
LEMMA OpenKeepsTable ==
  ASSUME ProcessInv, NEW p \in Parents, NEW h \in Handles, OpenByPid(p, h) PROVE ProcessInv'
<1> USE DEF ProcessInv
<1>1. /\ asking[p].at = "searched" /\ asking[p].got = NoHandle
      /\ UNCHANGED <<children, track, untracked, waitedFor, mistaken>>
  BY DEF OpenByPid
<1>2. /\ children \in Seq(Child) /\ handles \in [Handles -> 0 .. Len(children)]
      /\ asking \in [Parents -> CallRecords] /\ Len(children) \in Nat
      /\ DOMAIN children = 1 .. Len(children)
  BY TableParts DEF TableTypes, CallRecords
<1>3. asking[p].child \in 1 .. Len(children) /\ asking[p].child \in Confusable
  BY <1>1, UnfoundIsConfusable DEF TableTypes
<1>4. mistaken' \subseteq Confusable  BY <1>1 DEF CallsMeetTheirChild, Confusable
<1>5. CASE ObjectOf(PidOf(p)) = {}
  <2>1. asking' = [asking EXCEPT ![p] = NotAsking] /\ handles' = handles  BY <1>5 DEF OpenByPid
  <2>2. NotAsking \in CallRecords /\ NotAsking.at = "out" /\ NotAsking.got = NoHandle
    BY DEF NotAsking, CallRecords, Ops
  <2>3. /\ \A k \in 1 .. Len(track) : track[k].handle # 0
        /\ \A q \in Parents : Owns(q) => asking[q].got.handle # 0
    BY NobodyHasAFreeHandle, TableAssumption
  <2> QED  BY <1>1, <1>2, <1>4, <2>1, <2>2, <2>3, CallKeepsTable
<1>6. CASE ObjectOf(PidOf(p)) # {}
  <2>1. PICK c : c = CHOOSE i \in ObjectOf(PidOf(p)) : TRUE  OBVIOUS
  <2>2. c \in 1 .. Len(children) /\ c # 0
    <3>1. c \in ObjectOf(PidOf(p))  BY <1>6, <2>1
    <3>2. c \in DOMAIN children  BY <3>1 DEF ObjectOf
    <3> QED  BY <1>2, <3>2
  <2>3. /\ FreeHandle(h) /\ handles' = [handles EXCEPT ![h] = c]
        /\ asking' = [asking EXCEPT ![p].got.handle = h]
    BY <1>6, <2>1 DEF OpenByPid
  <2>4. PICK call : call = [asking[p] EXCEPT !.got.handle = h]  OBVIOUS
  <2>5. /\ call \in CallRecords /\ call.at = "searched" /\ call.child = asking[p].child
        /\ call.got = [handle |-> h, tracked |-> FALSE]
    <3>1. asking[p] \in CallRecords  BY <1>2
    <3>2. PICK got : got = [NoHandle EXCEPT !.handle = h]  OBVIOUS
    <3>3. got = [handle |-> h, tracked |-> FALSE]  BY <3>2 DEF NoHandle
    <3>4. call = [asking[p] EXCEPT !.got = got]  BY <1>1, <2>4, <3>2
    <3>5. [handle |-> h, tracked |-> FALSE] \in [handle : Handles, tracked : BOOLEAN]  OBVIOUS
    <3>6. /\ call.at = asking[p].at /\ call.child = asking[p].child /\ call.got = got
          /\ got \in [handle : Handles, tracked : BOOLEAN] \cup {NoHandle} => call \in CallRecords
      BY <3>1, <3>4 DEF CallRecords
    <3> QED  BY <1>1, <3>3, <3>5, <3>6
  <2>6. call.got # NoHandle /\ call.got.handle = h
    <3>1. call.got.handle = h  BY <2>5
    <3>2. NoHandle.handle = 0  BY DEF NoHandle, Closed
    <3> QED  BY <3>1, <3>2, TableAssumption
  <2>7. asking' = [asking EXCEPT ![p] = call]  BY <2>3, <2>4
  <2>8. /\ handles' \in [Handles -> 0 .. Len(children)] /\ handles'[h] # Closed
        /\ \A x \in Handles : x # h => handles'[x] = handles[x]
    BY <1>2, <2>2, <2>3 DEF Closed
  <2>9. /\ \A k \in 1 .. Len(track) : track[k].handle # h
        /\ \A q \in Parents : Owns(q) => asking[q].got.handle # h
    BY <2>3, NobodyHasAFreeHandle
  <2>10. /\ children' \in Seq(Child) /\ Len(children') = Len(children)
         /\ \A j \in 1 .. Len(children) : children'[j].pid = children[j].pid
    BY <1>1, <1>2
  <2>11. call.child \in 1 .. Len(children) /\ call.child \in Confusable  BY <1>3, <2>5
  <2>12. \/ call.at = "out" /\ call.got = NoHandle
         \/ /\ call.at = "searched" /\ call.child \in 1 .. Len(children) /\ call.child \in Confusable
            /\ call.got # NoHandle /\ call.got.handle = h /\ handles'[h] # Closed
    BY <2>5, <2>6, <2>8, <2>11
  <2>13. UNCHANGED <<track, untracked, waitedFor>>  BY <1>1
  <2>14. \A q \in Parents : q # p /\ Owns(q) => asking[q].got.handle # h  BY <2>9
  <2>15. call \in CallRecords  BY <2>5
  <2> HIDE DEF ProcessInv
  <2> QED  BY <1>4, <2>7, <2>8, <2>9, <2>10, <2>12, <2>13, <2>14, <2>15, CallKeepsTable
<1> QED  BY <1>5, <1>6

\* A call that has its handle acts on it, and closes it if it owns it.
LEMMA AnswerKeepsTable ==
  ASSUME ProcessInv, NEW p \in Parents, NEW closes \in BOOLEAN, Answered(p, closes),
         asking[p].got # NoHandle, closes <=> Owns(p),
         children' \in Seq(Child), Len(children') = Len(children),
         \A j \in 1 .. Len(children) : children'[j].pid = children[j].pid
  PROVE  ProcessInv'
<1> USE DEF ProcessInv
<1>1. /\ asking' = [asking EXCEPT ![p] = NotAsking]
      /\ handles' = IF closes THEN [handles EXCEPT ![asking[p].got.handle] = Closed] ELSE handles
      /\ mistaken' = IF Target(p) \in {Closed, asking[p].child} THEN mistaken
                     ELSE mistaken \cup {asking[p].child}
      /\ UNCHANGED <<track, untracked, waitedFor>>
  BY DEF Answered
<1>2. /\ handles \in [Handles -> 0 .. Len(children)] /\ Len(children) \in Nat
      /\ asking[p].got.handle \in Handles
  BY TableParts DEF TableTypes
<1>3. NotAsking \in CallRecords /\ NotAsking.at = "out" /\ NotAsking.got = NoHandle
  BY DEF NotAsking, CallRecords, Ops
<1>4. mistaken' \subseteq Confusable
  <2>1. asking[p].child \notin Confusable => Target(p) = asking[p].child
    <3>1. asking[p].at = "searched"  BY DEF TableTypes
    <3> QED  BY <3>1 DEF CallsHoldTheirChild, IsEntryOf, Target
  <2> QED  BY <1>1, <2>1 DEF CallsMeetTheirChild, Confusable
<1>5. CASE closes
  <2>1. PICK g \in Handles : g = asking[p].got.handle  BY <1>2
  <2>2. handles' = [handles EXCEPT ![g] = Closed]  BY <1>1, <1>5, <2>1
  <2>3. /\ handles' \in [Handles -> 0 .. Len(children)]
        /\ \A x \in Handles : x # g => handles'[x] = handles[x]
    BY <1>2, <2>2 DEF Closed
  <2>4. /\ \A k \in 1 .. Len(track) : track[k].handle # g
        /\ \A q \in Parents : q # p /\ Owns(q) => asking[q].got.handle # g
    BY <1>5, <2>1 DEF HandlesHaveOneOwner
  <2> QED  BY <1>1, <1>3, <1>4, <2>3, <2>4, CallKeepsTable
<1>6. CASE ~closes
  <2>1. handles' = handles  BY <1>1, <1>6
  <2>2. /\ \A k \in 1 .. Len(track) : track[k].handle # 0
        /\ \A q \in Parents : Owns(q) => asking[q].got.handle # 0
    BY NobodyHasAFreeHandle, TableAssumption
  <2> QED  BY <1>1, <1>2, <1>3, <1>4, <2>1, <2>2, CallKeepsTable
<1> QED  BY <1>5, <1>6

\* Kill, wait and running have their answer.
LEMMA AnswersKeepTable ==
  ASSUME ProcessInv, NEW p \in Parents, Kill(p) \/ Wait(p) \/ AskRunning(p) PROVE ProcessInv'
<1>1. children \in Seq(Child) /\ asking[p].got.tracked \in BOOLEAN
  <2>1. asking[p].got \in [handle : Handles, tracked : BOOLEAN] \cup {NoHandle}
    BY DEF ProcessInv, TableTypes
  <2>2. NoHandle.tracked \in BOOLEAN  BY DEF NoHandle
  <2> QED  BY <2>1, <2>2 DEF ProcessInv, TableTypes
<1>2. CASE Kill(p)
  <2>1. PICK i : i = Target(p)  OBVIOUS
  <2>2. /\ asking[p].op = "kill" /\ asking[p].got # NoHandle /\ Answered(p, ~asking[p].got.tracked)
        /\ children' = IF i = Closed THEN children ELSE [children EXCEPT ![i].runs = FALSE]
    BY <1>2, <2>1 DEF Kill, HasHandle
  <2>3. i \in 0 .. Len(children) /\ Len(children) \in Nat
    <3>1. asking[p].got.handle \in Handles  BY <2>2 DEF ProcessInv, TableTypes
    <3> QED  BY <2>1, <3>1, TableParts DEF ProcessInv, TableTypes, Target
  <2>4. /\ children' \in Seq(Child) /\ Len(children') = Len(children)
        /\ \A j \in 1 .. Len(children) : children'[j].pid = children[j].pid
    <3>1. CASE i = 0  BY <1>1, <2>2, <3>1 DEF Closed
    <3>2. CASE i # 0
      <4>1. i \in 1 .. Len(children) /\ children' = [children EXCEPT ![i].runs = FALSE]
        BY <2>2, <2>3, <3>2 DEF Closed
      <4> QED  BY <4>1, EndingKeepsPids
    <3> QED  BY <3>1, <3>2
  <2>5. ~asking[p].got.tracked <=> Owns(p)  BY <2>2 DEF Owns
  <2> QED  BY <1>1, <2>2, <2>4, <2>5, AnswerKeepsTable
<1>3. CASE Wait(p)
  <2>1. /\ asking[p].op = "wait" /\ asking[p].got # NoHandle /\ Answered(p, TRUE)
        /\ children' = children
    BY <1>3 DEF Wait, HasHandle
  <2>2. Owns(p)  BY <2>1 DEF Owns
  <2> QED  BY <1>1, <2>1, <2>2, AnswerKeepsTable
<1>4. CASE AskRunning(p)
  <2>1. /\ asking[p].op = "running" /\ asking[p].got # NoHandle
        /\ Answered(p, ~asking[p].got.tracked) /\ children' = children
    BY <1>4 DEF AskRunning, HasHandle
  <2>2. ~asking[p].got.tracked <=> Owns(p)  BY <2>1 DEF Owns
  <2> QED  BY <1>1, <2>1, <2>2, AnswerKeepsTable
<1> QED  BY <1>2, <1>3, <1>4

\* Every step keeps the invariant of the table.
LEMMA ProcessStep == ProcessInv /\ [ProcessNext]_processVars => ProcessInv'
<1> SUFFICES ASSUME ProcessInv, [ProcessNext]_processVars PROVE ProcessInv'  OBVIOUS
<1>1. ASSUME NEW pid \in Pids, NEW h \in Handles, StartChild(pid, h) PROVE ProcessInv'
  BY <1>1, StartKeepsTable
<1>2. ASSUME NEW i \in DOMAIN children, ChildExits(i) PROVE ProcessInv'
  BY <1>2, EndingKeepsTable
<1>3. ASSUME NEW p \in Parents, NEW op \in {"kill", "wait", "running"},
             NEW i \in DOMAIN children, LookUp(p, op, i)
      PROVE  ProcessInv'
  BY <1>3, LookUpKeepsTable
<1>4. ASSUME NEW p \in Parents, NEW h \in Handles, OpenByPid(p, h) PROVE ProcessInv'
  BY <1>4, OpenKeepsTable
<1>5. ASSUME NEW p \in Parents, Kill(p) \/ Wait(p) \/ AskRunning(p) PROVE ProcessInv'
  BY <1>5, AnswersKeepTable
<1>6. CASE UNCHANGED processVars
  BY <1>6 DEF processVars, ProcessInv, TableTypes, HandlesHaveOneOwner, EntriesAreOpen,
     ChildrenAreTracked, CallsHoldTheirChild, CallsMeetTheirChild, Owns, IsEntryOf, Confusable
<1> QED  BY <1>1, <1>2, <1>3, <1>4, <1>5, <1>6 DEF ProcessNext

\* The invariant of the table of child handles.
THEOREM ProcessInvariant == ProcessSpec => []ProcessInv
<1> QED  BY ProcessInitial, ProcessStep, PTL DEF ProcessSpec

\* The table's own entries, as the property says them.
LEMMA TableOwns == ProcessInv => TableOwnsItsHandles
<1> SUFFICES ASSUME ProcessInv PROVE TableOwnsItsHandles  OBVIOUS
<1>1. DOMAIN track = 1 .. Len(track)  BY TableParts DEF ProcessInv
<1>2. \A e \in ToSet(track) : handles[e.handle] # Closed /\ children[handles[e.handle]].pid = e.pid
  BY <1>1 DEF ProcessInv, EntriesAreOpen, ToSet
<1>3. \A k, l \in DOMAIN track : k # l => track[k].pid # track[l].pid
                                         /\ track[k].handle # track[l].handle
  BY <1>1 DEF ProcessInv, EntriesAreOpen
<1> QED  BY <1>2, <1>3 DEF TableOwnsItsHandles
-----------------------------------------------------------------------------
(* The guard heap *)

Units  == [kind : {"zero", "header", "retired", "data"}, v : Nat]
Places == Nat \X Nat

ArenaTypes(a) ==
  /\ a \in [slabs : Seq(Seq(Units)), cur : Nat, off : Nat, active : Nat,
            lists : [1 .. LargeUnits -> Seq(Places)]]
  /\ a.cur <= Len(a.slabs)
  /\ \A s \in 1 .. Len(a.slabs) : Len(a.slabs[s]) >= SlabUnits

\* A unit of the arena.
InArena(a, p) == p \in Places /\ p[1] \in 1 .. Len(a.slabs) /\ p[2] \in 1 .. Len(a.slabs[p[1]])

\* The n units from p are in their slab.
Fits(a, p, n) ==
  /\ p \in Places /\ n \in Nat \ {0} /\ p[2] # 0
  /\ p[1] \in 1 .. Len(a.slabs) /\ p[2] + n - 1 <= Len(a.slabs[p[1]])

\* In the current slab they are below the next allocation, if there is one to come.
Allotted(a, p, n) == p[1] = a.cur => a.off >= SlabUnits \/ p[2] + n - 1 <= a.off

\* The n units from p and the m from q do not meet.
Apart(p, n, q, m) == p[1] # q[1] \/ p[2] + n <= q[2] \/ q[2] + m <= p[2]

\* The arena c has the units of a but for n of them from p, and allocates behind
\* where a does, or in a slab of its own.
Rewrites(a, c, p, n) ==
  /\ Len(c.slabs) >= Len(a.slabs)
  /\ \A s \in 1 .. Len(a.slabs) : Len(c.slabs[s]) = Len(a.slabs[s])
  /\ \A q : InArena(a, q) /\ Apart(p, n, q, 1) => UnitAt(c, q) = UnitAt(a, q)
  /\ \/ c.cur = a.cur /\ c.off >= a.off
     \/ c.cur > Len(a.slabs)

\* Writing changes the units it is asked to change.
LEMMA FillChanges ==
  ASSUME NEW a, NEW s, NEW u, NEW n, NEW value, NEW c, ArenaTypes(a),
         s \in 1 .. Len(a.slabs), u \in Nat, n \in Nat, value \in Units,
         c = Fill(a, s, u, n, value)
  PROVE  /\ ArenaTypes(c)
         /\ c.cur = a.cur /\ c.off = a.off /\ c.active = a.active /\ c.lists = a.lists
         /\ Rewrites(a, c, <<s, u>>, n)
         /\ \A k \in u .. u + n - 1 :
              k \in 1 .. Len(a.slabs[s]) => UnitAt(c, <<s, k>>) = value
<1> DEFINE slab == [k \in DOMAIN a.slabs[s] |-> IF k \in u .. u + n - 1 THEN value ELSE a.slabs[s][k]]
           slabs == [a.slabs EXCEPT ![s] = slab]
<1>1. c = [a EXCEPT !.slabs = slabs]  BY DEF Fill
<1>2. /\ a.slabs \in Seq(Seq(Units)) /\ Len(a.slabs) \in Nat
      /\ a.slabs[s] \in Seq(Units) /\ Len(a.slabs[s]) \in Nat
      /\ DOMAIN a.slabs[s] = 1 .. Len(a.slabs[s])
      /\ \A k \in 1 .. Len(a.slabs[s]) : a.slabs[s][k] \in Units
  BY LenProperties, ElementOfSeq DEF ArenaTypes
<1>3. slab \in Seq(Units) /\ Len(slab) = Len(a.slabs[s])
  <2>1. slab \in [1 .. Len(a.slabs[s]) -> Units]  BY <1>2
  <2> QED  BY <1>2, <2>1, SeqDef
<1>4. /\ slabs \in Seq(Seq(Units)) /\ Len(slabs) = Len(a.slabs)
      /\ \A j \in 1 .. Len(a.slabs) : slabs[j] = IF j = s THEN slab ELSE a.slabs[j]
  BY <1>2, <1>3, ExceptSeq
<1>5. /\ c.slabs = slabs /\ c.cur = a.cur /\ c.off = a.off /\ c.active = a.active
      /\ c.lists = a.lists
      /\ c \in [slabs : Seq(Seq(Units)), cur : Nat, off : Nat, active : Nat,
                lists : [1 .. LargeUnits -> Seq(Places)]]
  BY <1>1, <1>4 DEF ArenaTypes
<1>6. \A j \in 1 .. Len(a.slabs) : Len(slabs[j]) = Len(a.slabs[j])  BY <1>3, <1>4
<1>7. \A k \in 1 .. Len(a.slabs[s]) :
        slab[k] = IF k \in u .. u + n - 1 THEN value ELSE a.slabs[s][k]
  BY <1>2
<1> HIDE DEF slabs, slab
<1>8. ArenaTypes(c)  BY <1>4, <1>5, <1>6 DEF ArenaTypes
<1>9. ASSUME NEW q, InArena(a, q), Apart(<<s, u>>, n, q, 1)
      PROVE  UnitAt(c, q) = UnitAt(a, q)
  <2>1. q[1] \in 1 .. Len(a.slabs) /\ q[2] \in 1 .. Len(a.slabs[q[1]])  BY <1>9 DEF InArena
  <2>2. CASE q[1] # s  BY <1>4, <1>5, <2>1, <2>2 DEF UnitAt
  <2>3. CASE q[1] = s
    <3>1. q[2] \in 1 .. Len(a.slabs[s]) /\ q[2] \notin u .. u + n - 1
      BY <1>2, <1>9, <2>1, <2>3 DEF Apart
    <3> QED  BY <1>4, <1>5, <1>7, <2>3, <3>1 DEF UnitAt
  <2> QED  BY <2>2, <2>3
<1>10. ASSUME NEW k \in u .. u + n - 1, k \in 1 .. Len(a.slabs[s])
       PROVE  UnitAt(c, <<s, k>>) = value
  BY <1>4, <1>5, <1>7, <1>10 DEF UnitAt
<1>11. Len(c.slabs) >= Len(a.slabs) /\ c.off >= a.off  BY <1>2, <1>4, <1>5 DEF ArenaTypes
<1>12. Rewrites(a, c, <<s, u>>, n)  BY <1>4, <1>5, <1>6, <1>9, <1>11 DEF Rewrites
<1> QED  BY <1>5, <1>8, <1>10, <1>12

\* A block that the program holds is there, with what the program wrote.
Held == [at : Places, size : Nat \ {0}, tag : Nat, depth : Nat]

IsWhole(a, b) ==
  /\ Fits(a, b.at, b.size + 1) /\ Allotted(a, b.at, b.size + 1)
  /\ UnitAt(a, b.at) = Header(b.size + 1)
  /\ \A k \in 1 .. b.size : UnitAt(a, <<b.at[1], b.at[2] + k>>) = Data(b.tag)

\* A freed one keeps its size in its header, and waits to be taken again.
Waits(a, p) ==
  /\ UnitAt(a, p).kind = "retired"
  /\ Fits(a, p, UnitAt(a, p).v) /\ Allotted(a, p, UnitAt(a, p).v)

\* Blocks that are held or freed do not overlap.
BlocksAreApart(a, L, F) ==
  /\ \A b, c \in L : b # c => Apart(b.at, b.size + 1, c.at, c.size + 1)
  /\ \A b \in L, p \in F : Apart(b.at, b.size + 1, p, UnitAt(a, p).v)
  /\ \A p, q \in F : p # q => Apart(p, UnitAt(a, p).v, q, UnitAt(a, q).v)

\* The lists are of freed blocks, each once and in the list of its size.
ListsHold(a, lists, F) ==
  \A n \in 1 .. LargeUnits :
    /\ \A k \in 1 .. Len(lists[n]) :
         lists[n][k] \in F /\ Bucket(UnitAt(a, lists[n][k]).v) = n
    /\ \A k, l \in 1 .. Len(lists[n]) : k # l => lists[n][k] # lists[n][l]

\* The arena with L held and F freed.
ArenaInv(a, L, F) ==
  /\ ArenaTypes(a) /\ L \subseteq Held /\ F \subseteq Places
  /\ \A b \in L : IsWhole(a, b)
  /\ \A p \in F : Waits(a, p)
  /\ BlocksAreApart(a, L, F) /\ ListsHold(a, a.lists, F)

\* Changes one after the other.
LEMMA RewritesTwice ==
  ASSUME NEW a, NEW b, NEW c, NEW p, NEW n, ArenaTypes(a), ArenaTypes(b), ArenaTypes(c),
         Rewrites(a, b, p, n), Rewrites(b, c, p, n)
  PROVE  Rewrites(a, c, p, n)
<1>1. /\ Len(a.slabs) \in Nat /\ Len(b.slabs) \in Nat /\ Len(c.slabs) \in Nat
      /\ a.cur \in Nat /\ b.cur \in Nat /\ c.cur \in Nat
      /\ a.off \in Nat /\ b.off \in Nat /\ c.off \in Nat
  BY LenProperties DEF ArenaTypes
<1>2. \A s \in 1 .. Len(a.slabs) : s \in 1 .. Len(b.slabs) /\ Len(c.slabs[s]) = Len(a.slabs[s])
  BY <1>1 DEF Rewrites
<1>3. \A q : InArena(a, q) => InArena(b, q)  BY <1>2 DEF InArena, Rewrites
<1>4. \A q : InArena(a, q) /\ Apart(p, n, q, 1) => UnitAt(c, q) = UnitAt(a, q)
  BY <1>3 DEF Rewrites
<1>5. Len(c.slabs) >= Len(a.slabs)  BY <1>1 DEF Rewrites
<1>6. (c.cur = a.cur /\ c.off >= a.off) \/ c.cur > Len(a.slabs)  BY <1>1 DEF Rewrites
<1> QED  BY <1>2, <1>4, <1>5, <1>6 DEF Rewrites

\* Changes within a block are changes of the block.
LEMMA RewritesWithin ==
  ASSUME NEW a, NEW c, NEW p, NEW n, NEW u, NEW m,
         p \in Places, n \in Nat, u \in Nat, m \in Nat, p[2] <= u, u + m <= p[2] + n, Rewrites(a, c, <<p[1], u>>, m)
  PROVE  Rewrites(a, c, p, n)
<1>1. \A q : InArena(a, q) /\ Apart(p, n, q, 1) => Apart(<<p[1], u>>, m, q, 1)
  BY DEF Apart, InArena, Places
<1> QED  BY <1>1 DEF Rewrites

\* The n units from p are of no block of L and of none of F.
Spares(a, L, F, p, n) ==
  /\ \A b \in L : Apart(p, n, b.at, b.size + 1)
  /\ \A q \in F : Apart(p, n, q, UnitAt(a, q).v)

\* The arena c is a with such n units from p rewritten, and its lists are of F.
LeavesAlone(a, c, p, n, L, F) ==
  /\ ArenaTypes(c) /\ p \in Places /\ n \in Nat /\ Rewrites(a, c, p, n)
  /\ Spares(a, L, F, p, n) /\ ListsHold(a, c.lists, F)

\* What is apart from the change is as it was.
LEMMA OthersStay ==
  ASSUME NEW a, NEW L, NEW F, NEW M, NEW G, NEW c, NEW p, NEW n,
         ArenaInv(a, L, F), M \subseteq L, G \subseteq F, LeavesAlone(a, c, p, n, M, G)
  PROVE  ArenaInv(c, M, G) /\ \A q \in G : UnitAt(c, q) = UnitAt(a, q)
<1> USE DEF LeavesAlone
<1>1. /\ Len(a.slabs) \in Nat /\ Len(c.slabs) \in Nat
      /\ a.cur \in Nat /\ c.cur \in Nat /\ a.off \in Nat /\ c.off \in Nat
      /\ \A s \in 1 .. Len(a.slabs) : Len(a.slabs[s]) \in Nat
  BY LenProperties, ElementOfSeq DEF ArenaInv, ArenaTypes
<1>2. SlabUnits \in Nat  BY HeapAssumption
<1>3. ASSUME NEW q, NEW m, Fits(a, q, m), Allotted(a, q, m), Apart(p, n, q, m)
      PROVE  /\ Fits(c, q, m) /\ Allotted(c, q, m)
             /\ \A k \in 0 .. m - 1 : UnitAt(c, <<q[1], q[2] + k>>) = UnitAt(a, <<q[1], q[2] + k>>)
  <2>1. /\ q \in Places /\ q[1] \in Nat /\ q[2] \in Nat \ {0} /\ m \in Nat \ {0}
        /\ p[1] \in Nat /\ p[2] \in Nat
        /\ q[1] \in 1 .. Len(a.slabs) /\ q[2] + m - 1 <= Len(a.slabs[q[1]])
    BY <1>3 DEF Fits, Places
  <2>2. q[1] \in 1 .. Len(c.slabs) /\ Len(c.slabs[q[1]]) = Len(a.slabs[q[1]])
    <3>1. /\ Len(c.slabs) >= Len(a.slabs)
          /\ \A s \in 1 .. Len(a.slabs) : Len(c.slabs[s]) = Len(a.slabs[s])
      BY DEF Rewrites
    <3>2. PICK s \in 1 .. Len(a.slabs) : s = q[1]  BY <2>1
    <3>3. s \in 1 .. Len(c.slabs)  BY <1>1, <3>1
    <3> QED  BY <3>1, <3>2, <3>3
  <2>3. Fits(c, q, m)  BY <2>1, <2>2 DEF Fits
  <2>4. Allotted(c, q, m)
    <3>1. CASE c.cur = a.cur /\ c.off >= a.off
      BY <1>1, <1>2, <1>3, <2>1, <3>1 DEF Allotted
    <3>2. CASE c.cur > Len(a.slabs)  BY <1>1, <2>1, <3>2 DEF Allotted
    <3> QED  BY <3>1, <3>2 DEF Rewrites
  <2>5. ASSUME NEW k \in 0 .. m - 1
        PROVE  UnitAt(c, <<q[1], q[2] + k>>) = UnitAt(a, <<q[1], q[2] + k>>)
    <3> DEFINE r == <<q[1], q[2] + k>>
    <3>1. r \in Places /\ r[1] = q[1] /\ r[2] = q[2] + k  BY <2>1 DEF Places
    <3>2. r[2] \in 1 .. Len(a.slabs[q[1]])
      <4>1. PICK s \in 1 .. Len(a.slabs) : s = q[1]  BY <2>1
      <4>2. Len(a.slabs[s]) \in Nat /\ q[2] + m - 1 <= Len(a.slabs[s])  BY <1>1, <2>1, <4>1
      <4>3. \A x, y, z \in Nat : x # 0 /\ x + m - 1 <= y => x + k \in 1 .. y  BY <2>1
      <4>4. q[2] + k \in 1 .. Len(a.slabs[s])  BY <2>1, <4>2, <4>3
      <4> QED  BY <3>1, <4>1, <4>4
    <3>3. InArena(a, r)  BY <2>1, <3>1, <3>2 DEF InArena
    <3>4. Apart(p, n, r, 1)
      <4>1. k \in Nat /\ k + 1 <= m  BY <2>1
      <4>2. p[1] # q[1] \/ p[2] + n <= q[2] \/ q[2] + m <= p[2]  BY <1>3 DEF Apart
      <4>3. p[1] # q[1] \/ p[2] + n <= q[2] + k \/ q[2] + k + 1 <= p[2]
        BY <2>1, <4>1, <4>2
      <4> QED  BY <3>1, <4>3 DEF Apart
    <3> HIDE DEF r
    <3> QED  BY <3>3, <3>4 DEF Rewrites, r
  <2> QED  BY <2>3, <2>4, <2>5
<1>4. ASSUME NEW q \in G PROVE UnitAt(c, q) = UnitAt(a, q) /\ Waits(c, q)
  <2>1. /\ q \in Places /\ q = <<q[1], q[2] + 0>>
        /\ Fits(a, q, UnitAt(a, q).v) /\ Allotted(a, q, UnitAt(a, q).v)
        /\ UnitAt(a, q).v \in Nat \ {0} /\ UnitAt(a, q).kind = "retired"
    BY <1>4 DEF ArenaInv, Waits, Fits, Places
  <2>2. 0 \in 0 .. UnitAt(a, q).v - 1  BY <2>1
  <2>3. /\ UnitAt(c, q) = UnitAt(a, q)
        /\ Fits(c, q, UnitAt(a, q).v) /\ Allotted(c, q, UnitAt(a, q).v)
    BY <1>3, <1>4, <2>1, <2>2 DEF Spares
  <2> QED  BY <2>1, <2>3 DEF Waits
<1>5. ASSUME NEW b \in M PROVE IsWhole(c, b)
  <2>1. /\ b \in Held /\ b.at \in Places /\ b.size \in Nat /\ b.at = <<b.at[1], b.at[2] + 0>>
        /\ IsWhole(a, b)
    BY <1>5 DEF ArenaInv, Held, Places
  <2>2. 0 \in 0 .. (b.size + 1) - 1 /\ \A k \in 1 .. b.size : k \in 0 .. (b.size + 1) - 1
    BY <2>1
  <2>3. /\ Fits(c, b.at, b.size + 1) /\ Allotted(c, b.at, b.size + 1)
        /\ \A k \in 0 .. (b.size + 1) - 1 :
             UnitAt(c, <<b.at[1], b.at[2] + k>>) = UnitAt(a, <<b.at[1], b.at[2] + k>>)
    BY <1>3, <1>5, <2>1 DEF IsWhole, Spares
  <2>4. UnitAt(c, b.at) = UnitAt(a, b.at)  BY <2>1, <2>2, <2>3
  <2> QED  BY <2>1, <2>2, <2>3, <2>4 DEF IsWhole
<1>6. BlocksAreApart(c, M, G)  BY <1>4 DEF ArenaInv, BlocksAreApart
<1>7. ListsHold(c, c.lists, G)  BY <1>4 DEF ListsHold
<1> QED  BY <1>4, <1>5, <1>6, <1>7 DEF ArenaInv

\* A block is made where there is room for it.
LEMMA FormattedBlock ==
  ASSUME NEW a, ArenaTypes(a), NEW p, NEW total \in Nat, total > 1, Fits(a, p, total)
  PROVE  LET c == Formatted(a, p, total)
         IN /\ ArenaTypes(c)
            /\ c.cur = a.cur /\ c.off = a.off /\ c.active = a.active /\ c.lists = a.lists
            /\ Rewrites(a, c, p, total) /\ Fits(c, p, total) /\ UnitAt(c, p) = Header(total)
<1>1. PICK s \in 1 .. Len(a.slabs), u \in Nat :
        /\ p = <<s, u>> /\ p[1] = s /\ p[2] = u /\ p \in Places /\ u # 0 /\ s \in Nat
        /\ u + total - 1 <= Len(a.slabs[s]) /\ Len(a.slabs[s]) \in Nat
  <2>1. PICK s \in 1 .. Len(a.slabs), u \in Nat : s = p[1] /\ u = p[2]  BY DEF Fits, Places
  <2>2. Len(a.slabs[s]) \in Nat  BY LenProperties, ElementOfSeq DEF ArenaTypes
  <2> QED  BY <2>1, <2>2 DEF Fits, Places
<1> DEFINE h == Fill(a, s, u, 1, Header(total))
           c == Fill(h, s, u + 1, total - 1, Empty)
<1>2. Header(total) \in Units /\ Empty \in Units  BY DEF Header, Empty, Unit, Units
<1>3. Formatted(a, p, total) = c  BY <1>1 DEF Formatted
<1>4. h = Fill(a, s, u, 1, Header(total)) /\ c = Fill(h, s, u + 1, total - 1, Empty)  OBVIOUS
<1> HIDE DEF h, c
<1>5. /\ ArenaTypes(h)
      /\ h.cur = a.cur /\ h.off = a.off /\ h.active = a.active /\ h.lists = a.lists
      /\ Rewrites(a, h, <<s, u>>, 1)
      /\ \A k \in u .. u + 1 - 1 :
           k \in 1 .. Len(a.slabs[s]) => UnitAt(h, <<s, k>>) = Header(total)
  <2>1. 1 \in Nat  OBVIOUS
  <2> QED  BY <1>2, <1>4, <2>1, FillChanges
<1>6. u \in u .. u + 1 - 1 /\ u \in 1 .. Len(a.slabs[s])  BY <1>1
<1>7. UnitAt(h, p) = Header(total)  BY <1>1, <1>5, <1>6
<1>8. s \in 1 .. Len(h.slabs) /\ Len(h.slabs[s]) = Len(a.slabs[s])
  <2>1. Len(h.slabs) >= Len(a.slabs) /\ Len(h.slabs) \in Nat /\ Len(a.slabs) \in Nat
        /\ \A j \in 1 .. Len(a.slabs) : Len(h.slabs[j]) = Len(a.slabs[j])
    BY <1>5, LenProperties DEF Rewrites, ArenaTypes
  <2> QED  BY <2>1
<1>9. PICK v \in Nat, n \in Nat : v = u + 1 /\ n = total - 1  BY <1>1
<1>10. /\ ArenaTypes(c)
       /\ c.cur = h.cur /\ c.off = h.off /\ c.active = h.active /\ c.lists = h.lists
       /\ Rewrites(h, c, <<s, v>>, n)
  <2>1. c = Fill(h, s, v, n, Empty)  BY <1>4, <1>9
  <2>2. ArenaTypes(h) /\ s \in 1 .. Len(h.slabs) /\ Empty \in Units  BY <1>2, <1>5, <1>8
  <2> QED  BY <2>1, <2>2, FillChanges
<1>11. Rewrites(a, h, p, total)
  <2>1. 1 \in Nat /\ p[2] <= u /\ u + 1 <= p[2] + total /\ Rewrites(a, h, <<p[1], u>>, 1)
    BY <1>1, <1>5
  <2> QED  BY <1>1, <2>1, RewritesWithin
<1>12. Rewrites(h, c, p, total)
  <2>1. p[2] <= v /\ v + n <= p[2] + total /\ Rewrites(h, c, <<p[1], v>>, n)  BY <1>1, <1>9, <1>10
  <2> QED  BY <1>1, <2>1, RewritesWithin
<1>13. Rewrites(a, c, p, total)  BY <1>5, <1>10, <1>11, <1>12, RewritesTwice
<1>14. UnitAt(c, p) = Header(total)
  <2>1. InArena(h, p)  BY <1>1, <1>6, <1>8 DEF InArena
  <2>2. Apart(<<s, v>>, n, p, 1)  BY <1>1, <1>9 DEF Apart
  <2> QED  BY <1>7, <1>10, <2>1, <2>2 DEF Rewrites
<1>15. Fits(c, p, total)
  <2>1. Len(c.slabs) >= Len(a.slabs) /\ Len(c.slabs) \in Nat /\ Len(a.slabs) \in Nat
        /\ \A j \in 1 .. Len(a.slabs) : Len(c.slabs[j]) = Len(a.slabs[j])
    BY <1>10, <1>13, LenProperties DEF Rewrites, ArenaTypes
  <2>2. s \in 1 .. Len(c.slabs) /\ Len(c.slabs[s]) = Len(a.slabs[s])  BY <2>1
  <2> QED  BY <1>1, <2>2 DEF Fits
<1> QED  BY <1>3, <1>5, <1>10, <1>13, <1>14, <1>15

\* A held block more.
LEMMA BlockIsHeld ==
  ASSUME NEW a, NEW L, NEW F, NEW b, ArenaInv(a, L, F), b \in Held, IsWhole(a, b),
         \A c \in L : Apart(b.at, b.size + 1, c.at, c.size + 1),
         \A q \in F : Apart(b.at, b.size + 1, q, UnitAt(a, q).v)
  PROVE  ArenaInv(a, L \cup {b}, F)
<1>1. \A x, y \in Places : \A n, m : Apart(x, n, y, m) => Apart(y, m, x, n)  BY DEF Apart
<1>2. \A c \in L \cup {b} : c \in Held /\ c.at \in Places  BY DEF ArenaInv, Held
<1>3. \A c, d \in L \cup {b} : c # d => Apart(c.at, c.size + 1, d.at, d.size + 1)
  BY <1>1, <1>2 DEF ArenaInv, BlocksAreApart
<1>4. \A c \in L \cup {b}, q \in F : Apart(c.at, c.size + 1, q, UnitAt(a, q).v)
  BY DEF ArenaInv, BlocksAreApart
<1>5. BlocksAreApart(a, L \cup {b}, F)  BY <1>3, <1>4 DEF ArenaInv, BlocksAreApart
<1> QED  BY <1>2, <1>5 DEF ArenaInv

\* A freed block more, at the front of its list.
LEMMA BlockIsListed ==
  ASSUME NEW a, NEW L, NEW F, ArenaInv(a, L, F), NEW p \in Places, Waits(a, p),
         \A b \in L : Apart(b.at, b.size + 1, p, UnitAt(a, p).v),
         \A q \in F : Apart(p, UnitAt(a, p).v, q, UnitAt(a, q).v)
  PROVE  ArenaInv([a EXCEPT !.lists[Bucket(UnitAt(a, p).v)] = <<p>> \o @], L, F \cup {p})
<1> DEFINE n == Bucket(UnitAt(a, p).v)
           lists == [a.lists EXCEPT ![n] = <<p>> \o a.lists[n]]
           c == [a EXCEPT !.lists = lists]
<1>1. c = [a EXCEPT !.lists[n] = <<p>> \o @]  OBVIOUS
<1>2. /\ LargeUnits \in Nat \ {0} /\ UnitAt(a, p).v \in Nat \ {0} /\ n \in 1 .. LargeUnits
  <2>1. UnitAt(a, p).v \in Nat \ {0} /\ LargeUnits \in Nat \ {0}  BY HeapAssumption DEF Waits, Fits
  <2> QED  BY <2>1 DEF Bucket
<1>3. \A m \in 1 .. LargeUnits : a.lists[m] \in Seq(Places) /\ Len(a.lists[m]) \in Nat
  BY LenProperties DEF ArenaInv, ArenaTypes
<1>4. /\ <<p>> \o a.lists[n] \in Seq(Places)
      /\ Len(<<p>> \o a.lists[n]) = Len(a.lists[n]) + 1
      /\ \A k \in 1 .. Len(a.lists[n]) + 1 :
           (<<p>> \o a.lists[n])[k] = IF k = 1 THEN p ELSE a.lists[n][k - 1]
  <2>1. <<p>> \in Seq(Places) /\ Len(<<p>>) = 1 /\ <<p>>[1] = p  OBVIOUS
  <2>2. /\ <<p>> \o a.lists[n] \in Seq(Places)
        /\ Len(<<p>> \o a.lists[n]) = 1 + Len(a.lists[n])
        /\ \A k \in 1 .. 1 + Len(a.lists[n]) :
             (<<p>> \o a.lists[n])[k] = IF k <= 1 THEN <<p>>[k] ELSE a.lists[n][k - 1]
    BY <1>2, <1>3, <2>1, ConcatProperties
  <2>3. \A k \in 1 .. Len(a.lists[n]) + 1 : k \in 1 .. 1 + Len(a.lists[n]) /\ (k <= 1 <=> k = 1)
    BY <1>2, <1>3
  <2> QED  BY <1>2, <1>3, <2>1, <2>2, <2>3
<1>5. /\ c.slabs = a.slabs /\ c.cur = a.cur /\ c.off = a.off /\ c.lists = lists
      /\ \A m \in 1 .. LargeUnits : lists[m] = IF m = n THEN <<p>> \o a.lists[n] ELSE a.lists[m]
      /\ ArenaTypes(c)
  BY <1>2, <1>4 DEF ArenaInv, ArenaTypes
<1> HIDE DEF c, lists
<1>6. /\ \A q : UnitAt(c, q) = UnitAt(a, q)
      /\ \A q, m : (Fits(c, q, m) <=> Fits(a, q, m)) /\ (Allotted(c, q, m) <=> Allotted(a, q, m))
  BY <1>5 DEF UnitAt, Fits, Allotted
<1>7. \A q \in F \cup {p} : Waits(c, q)  BY <1>6 DEF ArenaInv, Waits
<1>8. \A b \in L : IsWhole(c, b)  BY <1>6 DEF ArenaInv, IsWhole
<1>9. p \notin F
  <2>1. SUFFICES ASSUME p \in F PROVE FALSE  OBVIOUS
  <2>2. Apart(p, UnitAt(a, p).v, p, UnitAt(a, p).v)  BY <2>1
  <2> QED  BY <1>2, <2>2 DEF Apart, Places
<1>10. BlocksAreApart(c, L, F \cup {p})
  <2>1. \A x, y \in Places : \A k, m : Apart(x, k, y, m) => Apart(y, m, x, k)  BY DEF Apart
  <2>2. \A q, r \in F \cup {p} : q # r => Apart(q, UnitAt(a, q).v, r, UnitAt(a, r).v)
    BY <2>1 DEF ArenaInv, BlocksAreApart
  <2> QED  BY <1>6, <2>2 DEF ArenaInv, BlocksAreApart
<1>11. ASSUME NEW m \in 1 .. LargeUnits
       PROVE  /\ \A k \in 1 .. Len(lists[m]) :
                   lists[m][k] \in F \cup {p} /\ Bucket(UnitAt(a, lists[m][k]).v) = m
              /\ \A k, l \in 1 .. Len(lists[m]) : k # l => lists[m][k] # lists[m][l]
  <2>1. /\ \A k \in 1 .. Len(a.lists[m]) :
             a.lists[m][k] \in F /\ Bucket(UnitAt(a, a.lists[m][k]).v) = m
        /\ \A k, l \in 1 .. Len(a.lists[m]) : k # l => a.lists[m][k] # a.lists[m][l]
    BY DEF ArenaInv, ListsHold
  <2>2. CASE m # n  BY <1>5, <2>1, <2>2
  <2>3. CASE m = n
    <3>1. /\ Len(lists[m]) = Len(a.lists[m]) + 1 /\ Len(a.lists[m]) \in Nat
          /\ \A k \in 1 .. Len(a.lists[m]) + 1 :
               lists[m][k] = IF k = 1 THEN p ELSE a.lists[m][k - 1]
      BY <1>3, <1>4, <1>5, <2>3
    <3>2. \A k \in 1 .. Len(a.lists[m]) + 1 : k # 1 => k - 1 \in 1 .. Len(a.lists[m])  BY <3>1
    <3>3. ASSUME NEW k \in 1 .. Len(lists[m])
          PROVE  lists[m][k] \in F \cup {p} /\ Bucket(UnitAt(a, lists[m][k]).v) = m
      <4>1. k \in 1 .. Len(a.lists[m]) + 1  BY <3>1
      <4>2. CASE k = 1  BY <2>3, <3>1, <4>1, <4>2
      <4>3. CASE k # 1
        <5>1. PICK j \in 1 .. Len(a.lists[m]) : j = k - 1  BY <3>2, <4>1, <4>3
        <5>2. lists[m][k] = a.lists[m][j]  BY <3>1, <4>1, <4>3, <5>1
        <5> QED  BY <2>1, <5>2
      <4> QED  BY <4>2, <4>3
    <3>4. ASSUME NEW k \in 1 .. Len(lists[m]), NEW l \in 1 .. Len(lists[m]), k # l
          PROVE  lists[m][k] # lists[m][l]
      <4>1. k \in 1 .. Len(a.lists[m]) + 1 /\ l \in 1 .. Len(a.lists[m]) + 1  BY <3>1
      <4>2. \A j \in 1 .. Len(a.lists[m]) : a.lists[m][j] # p  BY <1>9, <2>1
      <4>3. CASE k = 1
        <5>1. PICK j \in 1 .. Len(a.lists[m]) : j = l - 1  BY <3>2, <3>4, <4>1, <4>3
        <5> QED  BY <3>1, <3>4, <4>1, <4>2, <4>3, <5>1
      <4>4. CASE l = 1
        <5>1. PICK j \in 1 .. Len(a.lists[m]) : j = k - 1  BY <3>2, <3>4, <4>1, <4>4
        <5> QED  BY <3>1, <3>4, <4>1, <4>2, <4>4, <5>1
      <4>5. CASE k # 1 /\ l # 1
        <5>1. PICK i \in 1 .. Len(a.lists[m]) : i = k - 1  BY <3>2, <4>1, <4>5
        <5>2. PICK j \in 1 .. Len(a.lists[m]) : j = l - 1  BY <3>2, <4>1, <4>5
        <5>3. i # j  BY <3>4, <4>1, <5>1, <5>2
        <5>4. lists[m][k] = a.lists[m][i] /\ lists[m][l] = a.lists[m][j]
          BY <3>1, <4>1, <4>5, <5>1, <5>2
        <5> QED  BY <2>1, <5>3, <5>4
      <4> QED  BY <4>3, <4>4, <4>5
    <3> QED  BY <3>3, <3>4
  <2> QED  BY <2>2, <2>3
<1>12. ListsHold(c, c.lists, F \cup {p})  BY <1>5, <1>6, <1>11 DEF ListsHold
<1>13. ArenaInv(c, L, F \cup {p})
  BY <1>5, <1>7, <1>8, <1>10, <1>12 DEF ArenaInv
<1> QED  BY <1>1, <1>13

\* p is a block of c that a has no other use for.
Grants(a, L, F, c, p, total) ==
  /\ c.active = a.active /\ LeavesAlone(a, c, p, total, L, F \ {p})
  /\ Fits(c, p, total) /\ Allotted(c, p, total) /\ UnitAt(c, p) = Header(total)

\* A slab more has no block yet.
LEMMA SlabIsAdded ==
  ASSUME NEW a, ArenaTypes(a), NEW units \in Nat, units >= SlabUnits,
         NEW c, c = MoreSlab(a, units)
  PROVE  /\ ArenaTypes(c) /\ c.active = a.active /\ c.lists = a.lists
         /\ Rewrites(a, c, NoBlock, 0)
         /\ c # a => /\ c.cur > 0 /\ c.off = 0 /\ Len(c.slabs[c.cur]) = units
<1> DEFINE slab == [k \in 1 .. units |-> Empty]
<1>1. /\ a.slabs \in Seq(Seq(Units)) /\ Len(a.slabs) \in Nat
      /\ \A s \in 1 .. Len(a.slabs) : Len(a.slabs[s]) \in Nat
      /\ a.cur \in Nat /\ a.off \in Nat /\ SlabUnits \in Nat
  BY LenProperties, ElementOfSeq, HeapAssumption DEF ArenaTypes
<1>2. CASE c = a
  <2>1. Rewrites(a, a, NoBlock, 0)  BY <1>1 DEF Rewrites
  <2> QED  BY <1>2, <2>1
<1>3. CASE c # a
  <2>1. slab \in Seq(Units) /\ Len(slab) = units
    <3>1. slab \in [1 .. units -> Units]  BY DEF Empty, Unit, Units
    <3> QED  BY <3>1, SeqDef
  <2> HIDE DEF slab
  <2>2. c = [a EXCEPT !.slabs = Append(a.slabs, slab), !.cur = Len(a.slabs) + 1, !.off = 0]
    BY <1>3 DEF MoreSlab, slab
  <2>3. /\ Append(a.slabs, slab) \in Seq(Seq(Units))
        /\ Len(Append(a.slabs, slab)) = Len(a.slabs) + 1
        /\ \A s \in 1 .. Len(a.slabs) : Append(a.slabs, slab)[s] = a.slabs[s]
        /\ Append(a.slabs, slab)[Len(a.slabs) + 1] = slab
    BY <1>1, <2>1, AppendProperties
  <2>4. /\ c \in [slabs : Seq(Seq(Units)), cur : Nat, off : Nat, active : Nat,
                  lists : [1 .. LargeUnits -> Seq(Places)]]
        /\ c.slabs = Append(a.slabs, slab) /\ c.cur = Len(a.slabs) + 1 /\ c.off = 0
        /\ c.active = a.active /\ c.lists = a.lists
    <3>1. PICK slabs \in Seq(Seq(Units)), cur \in Nat, off \in Nat :
            slabs = Append(a.slabs, slab) /\ cur = Len(a.slabs) + 1 /\ off = 0
      <4>1. Append(a.slabs, slab) \in Seq(Seq(Units)) /\ Len(a.slabs) + 1 \in Nat /\ 0 \in Nat
        BY <1>1, <2>3
      <4> QED  BY <4>1, Zenon
    <3>2. c = [a EXCEPT !.slabs = slabs, !.cur = cur, !.off = off]  BY <2>2, <3>1
    <3>3. /\ c \in [slabs : Seq(Seq(Units)), cur : Nat, off : Nat, active : Nat,
                    lists : [1 .. LargeUnits -> Seq(Places)]]
          /\ c.slabs = slabs /\ c.cur = cur /\ c.off = off
          /\ c.active = a.active /\ c.lists = a.lists
      BY <3>2 DEF ArenaTypes
    <3> QED  BY <3>1, <3>3
  <2>5. /\ Len(c.slabs) = Len(a.slabs) + 1
        /\ \A s \in 1 .. Len(a.slabs) : c.slabs[s] = a.slabs[s]
        /\ c.slabs[Len(a.slabs) + 1] = slab
    BY <2>3, <2>4
  <2>6. \A s \in 1 .. Len(c.slabs) : s \in 1 .. Len(a.slabs) \/ s = Len(a.slabs) + 1
    BY <1>1, <2>5
  <2>7. ArenaTypes(c)  BY <1>1, <2>1, <2>4, <2>5, <2>6 DEF ArenaTypes
  <2>8. \A q : InArena(a, q) => UnitAt(c, q) = UnitAt(a, q)  BY <2>5 DEF InArena, UnitAt
  <2>9. Len(c.slabs) >= Len(a.slabs) /\ c.cur > Len(a.slabs) /\ c.cur > 0  BY <1>1, <2>4, <2>5
  <2>10. Rewrites(a, c, NoBlock, 0)  BY <2>5, <2>8, <2>9 DEF Rewrites
  <2> QED  BY <2>1, <2>4, <2>5, <2>7, <2>9, <2>10
<1> QED  BY <1>2, <1>3

\* No block is at NoBlock.
LEMMA NothingIsThere ==
  ASSUME NEW a, NEW L, NEW F, ArenaInv(a, L, F)
  PROVE  /\ NoBlock \in Places /\ NoBlock \notin F
         /\ Spares(a, L, F, NoBlock, 0)
         /\ \A q : InArena(a, q) => Apart(NoBlock, 0, q, 1)
<1>1. NoBlock \in Places /\ NoBlock[1] = 0 /\ NoBlock[2] = 0  BY DEF NoBlock, Places
<1>2. \A b \in L : b.at[1] # 0
  BY DEF ArenaInv, IsWhole, Fits
<1>3. \A q \in F : q[1] # 0 /\ q[2] # 0  BY DEF ArenaInv, Waits, Fits
<1> QED  BY <1>1, <1>2, <1>3 DEF Apart, InArena, Spares

\* What a slab more grants could be granted without looking at it.
LEMMA GrantedBehindSlab ==
  ASSUME NEW a, NEW L, NEW F, NEW b, ArenaInv(a, L, F), ArenaTypes(b),
         Rewrites(a, b, NoBlock, 0), b.active = a.active, b.lists = a.lists
  PROVE  /\ ArenaInv(b, L, F)
         /\ \A c, p, total : Grants(b, L, F, c, p, total) => Grants(a, L, F, c, p, total)
<1>1. ArenaInv(b, L, F) /\ \A q \in F : UnitAt(b, q) = UnitAt(a, q)
  <2>1. 0 \in Nat /\ ListsHold(a, b.lists, F)  BY DEF ArenaInv
  <2>2. NoBlock \in Places /\ Spares(a, L, F, NoBlock, 0)  BY NothingIsThere
  <2>3. LeavesAlone(a, b, NoBlock, 0, L, F)  BY <2>1, <2>2 DEF LeavesAlone
  <2>4. L \subseteq L /\ F \subseteq F  OBVIOUS
  <2> QED  BY <2>3, <2>4, OthersStay
<1>2. ASSUME NEW c, NEW p, NEW total, Grants(b, L, F, c, p, total)
      PROVE  Grants(a, L, F, c, p, total)
  <2>1. Rewrites(a, b, p, total)  BY NothingIsThere DEF Rewrites
  <2>2. Rewrites(a, c, p, total)
    BY <1>2, <2>1, RewritesTwice DEF Grants, LeavesAlone, Spares, ArenaInv
  <2>3. ListsHold(a, c.lists, F \ {p})  BY <1>1, <1>2 DEF Grants, LeavesAlone, Spares, ListsHold
  <2> QED  BY <1>1, <1>2, <2>2, <2>3 DEF Grants, LeavesAlone, Spares
<1> QED  BY <1>1, <1>2

\* Behind the last block of the current slab nothing is in use.
LEMMA EndIsGranted ==
  ASSUME NEW a, NEW L, NEW F, ArenaInv(a, L, F), NEW total \in Nat, total > 1,
         a.cur > 0, a.off < SlabUnits, a.off + total <= Len(a.slabs[a.cur]),
         NEW off \in Nat, off >= a.off, off >= SlabUnits \/ off >= a.off + total,
         NEW p, p = <<a.cur, a.off + 1>>
  PROVE  Grants(a, L, F, [Formatted(a, p, total) EXCEPT !.off = off], p, total)
<1> DEFINE f == Formatted(a, p, total)
           c == [f EXCEPT !.off = off]
<1>1. /\ ArenaTypes(a) /\ a.cur \in Nat /\ a.off \in Nat /\ SlabUnits \in Nat
      /\ Len(a.slabs) \in Nat /\ a.cur \in 1 .. Len(a.slabs)
      /\ Len(a.slabs[a.cur]) \in Nat
  <2>1. /\ ArenaTypes(a) /\ a.cur \in Nat /\ a.off \in Nat /\ SlabUnits \in Nat
        /\ Len(a.slabs) \in Nat /\ a.cur <= Len(a.slabs)
    BY LenProperties, HeapAssumption DEF ArenaInv, ArenaTypes
  <2>2. a.cur \in 1 .. Len(a.slabs)  BY <2>1
  <2> QED  BY <2>1, <2>2, LenProperties, ElementOfSeq DEF ArenaTypes
<1>2. p \in Places /\ p[1] = a.cur /\ p[2] = a.off + 1 /\ p[2] # 0 /\ p[2] \in Nat
  BY <1>1 DEF Places
<1>3. Fits(a, p, total)
  <2>1. total # 0 /\ (a.off + 1) + total - 1 <= Len(a.slabs[a.cur])  BY <1>1
  <2> QED  BY <1>1, <1>2, <2>1 DEF Fits
<1>4. /\ ArenaTypes(f) /\ f.cur = a.cur /\ f.off = a.off /\ f.active = a.active
      /\ f.lists = a.lists
      /\ Rewrites(a, f, p, total) /\ Fits(f, p, total) /\ UnitAt(f, p) = Header(total)
  BY <1>1, <1>3, FormattedBlock
<1> HIDE DEF f
<1>5. /\ ArenaTypes(c) /\ c.slabs = f.slabs /\ c.cur = a.cur /\ c.off = off
      /\ c.active = a.active /\ c.lists = a.lists
  BY <1>4 DEF ArenaTypes
<1> HIDE DEF c
<1>6. Rewrites(a, c, p, total)  BY <1>4, <1>5 DEF Rewrites, UnitAt
<1>7. Fits(c, p, total) /\ UnitAt(c, p) = Header(total)  BY <1>4, <1>5 DEF Fits, UnitAt
<1>8. Allotted(c, p, total)
  <2>1. off >= SlabUnits \/ (a.off + 1) + total - 1 <= off  BY <1>1
  <2> QED  BY <1>2, <1>5, <2>1 DEF Allotted
<1>9. ASSUME NEW q \in Places, NEW n \in Nat, Allotted(a, q, n)  PROVE Apart(p, total, q, n)
  <2>1. CASE q[1] = a.cur
    <3>1. q[2] \in Nat /\ q[2] + n - 1 <= a.off  BY <1>1, <1>9, <2>1 DEF Allotted, Places
    <3>2. q[2] + n <= a.off + 1  BY <1>1, <3>1
    <3> QED  BY <1>2, <3>2 DEF Apart
  <2>2. CASE q[1] # a.cur  BY <1>2, <2>2 DEF Apart
  <2> QED  BY <2>1, <2>2
<1>10. ASSUME NEW b \in L PROVE Apart(p, total, b.at, b.size + 1)
  <2>1. b.at \in Places /\ b.size + 1 \in Nat /\ Allotted(a, b.at, b.size + 1)
    BY DEF ArenaInv, Held, IsWhole
  <2> QED  BY <1>9, <2>1
<1>11. ASSUME NEW q \in F PROVE Apart(p, total, q, UnitAt(a, q).v) /\ q # p
  <2>1. /\ q \in Places /\ UnitAt(a, q).v \in Nat \ {0} /\ Allotted(a, q, UnitAt(a, q).v)
    BY DEF ArenaInv, Waits, Fits
  <2>2. Apart(p, total, q, UnitAt(a, q).v)  BY <1>9, <2>1
  <2>3. q # p  BY <1>2, <2>1, <2>2 DEF Apart
  <2> QED  BY <2>2, <2>3
<1>12. F \ {p} = F  BY <1>11
<1>13. ListsHold(a, c.lists, F \ {p})  BY <1>5, <1>12 DEF ArenaInv
<1>14. Grants(a, L, F, c, p, total)
  BY <1>2, <1>5, <1>6, <1>7, <1>8, <1>10, <1>11, <1>13 DEF Grants, LeavesAlone, Spares
<1> QED  BY <1>14 DEF c, f

\* From the current slab, from a new one, or from nowhere.
LEMMA SlabGrants ==
  ASSUME NEW a, NEW L, NEW F, NEW total, NEW r, ArenaInv(a, L, F),
         total \in Nat, total > 1, r = FromSlab(a, total)
  PROVE  \/ r.at = NoBlock /\ r.heap = a
         \/ Grants(a, L, F, r.heap, r.at, total)
<1>1. /\ ArenaTypes(a) /\ a.cur \in Nat /\ a.off \in Nat /\ SlabUnits \in Nat \ {0}
      /\ Len(a.slabs) \in Nat /\ a.cur <= Len(a.slabs)
      /\ \A s \in 1 .. Len(a.slabs) : Len(a.slabs[s]) \in Nat /\ Len(a.slabs[s]) >= SlabUnits
  BY LenProperties, ElementOfSeq, HeapAssumption DEF ArenaInv, ArenaTypes
<1>2. PICK units \in Nat :
        units = (IF total > SlabUnits THEN total ELSE SlabUnits) /\ units >= SlabUnits
  BY <1>1
<1>3. PICK larger : larger = MoreSlab(a, units)  OBVIOUS
<1>4. r = IF a.cur > 0 /\ a.off + total <= SlabUnits THEN Bump(a, total)
          ELSE IF larger = a THEN [heap |-> a, at |-> NoBlock]
          ELSE IF total > SlabUnits
            THEN [heap |-> [Formatted(larger, <<larger.cur, 1>>, total) EXCEPT !.off = SlabUnits],
                  at |-> <<larger.cur, 1>>]
          ELSE Bump(larger, total)
  BY <1>2, <1>3 DEF FromSlab
<1>5. /\ ArenaTypes(larger) /\ larger.active = a.active /\ larger.lists = a.lists
      /\ Rewrites(a, larger, NoBlock, 0)
      /\ larger # a => /\ larger.cur > 0 /\ larger.off = 0
                       /\ Len(larger.slabs[larger.cur]) = units
  BY <1>1, <1>2, <1>3, SlabIsAdded
<1>6. /\ ArenaInv(larger, L, F)
      /\ \A c, p : Grants(larger, L, F, c, p, total) => Grants(a, L, F, c, p, total)
  BY <1>5, GrantedBehindSlab
<1>7. ASSUME NEW h, ArenaInv(h, L, F), h.cur > 0, h.off < SlabUnits, h.off \in Nat,
             h.off + total <= Len(h.slabs[h.cur]), r = Bump(h, total)
      PROVE  Grants(h, L, F, r.heap, r.at, total)
  <2>1. PICK p, off : /\ p = <<h.cur, h.off + 1>> /\ off = h.off + total
                      /\ off \in Nat /\ off >= h.off
    <3>1. h.off + total \in Nat /\ h.off + total >= h.off  BY <1>7
    <3> QED  BY <3>1, Zenon
  <2>2. r.at = p /\ r.heap = [Formatted(h, p, total) EXCEPT !.off = @ + total]
    BY <1>7, <2>1 DEF Bump
  <2>3. Formatted(h, p, total).off = h.off  BY DEF Formatted, Fill
  <2>4. r.heap = [Formatted(h, p, total) EXCEPT !.off = off]  BY <2>1, <2>2, <2>3
  <2>5. Grants(h, L, F, [Formatted(h, p, total) EXCEPT !.off = off], p, total)
    BY <1>7, <2>1, EndIsGranted
  <2> QED  BY <2>2, <2>4, <2>5
<1>8. CASE a.cur > 0 /\ a.off + total <= SlabUnits
  <2>1. a.off < SlabUnits  BY <1>1, <1>8
  <2>2. a.cur \in 1 .. Len(a.slabs)  BY <1>1, <1>8
  <2>3. a.off + total <= Len(a.slabs[a.cur])  BY <1>1, <1>8, <2>2
  <2> QED  BY <1>1, <1>4, <1>7, <1>8, <2>1, <2>3
<1>9. CASE ~ (a.cur > 0 /\ a.off + total <= SlabUnits) /\ larger = a  BY <1>4, <1>9
<1>10. CASE /\ ~ (a.cur > 0 /\ a.off + total <= SlabUnits) /\ larger # a
            /\ total > SlabUnits
  <2>1. PICK p, off : /\ p = <<larger.cur, 1>> /\ off = SlabUnits /\ off \in Nat
                      /\ p = <<larger.cur, larger.off + 1>>
    <3>1. larger.off + 1 = 1 /\ SlabUnits \in Nat  BY <1>1, <1>5, <1>10
    <3> QED  BY <3>1, Zenon
  <2>2. r.at = p /\ r.heap = [Formatted(larger, p, total) EXCEPT !.off = off]
    BY <1>4, <1>10, <2>1
  <2>3. larger.off < SlabUnits /\ larger.off + total <= Len(larger.slabs[larger.cur])
        /\ off >= larger.off /\ off >= SlabUnits /\ larger.cur > 0
    BY <1>1, <1>2, <1>5, <1>10, <2>1
  <2>4. Grants(larger, L, F, [Formatted(larger, p, total) EXCEPT !.off = off], p, total)
    BY <1>6, <2>1, <2>3, EndIsGranted
  <2> QED  BY <1>6, <2>2, <2>4
<1>11. CASE /\ ~ (a.cur > 0 /\ a.off + total <= SlabUnits) /\ larger # a
            /\ ~ (total > SlabUnits)
  <2>1. larger.off < SlabUnits /\ larger.off + total <= Len(larger.slabs[larger.cur])
        /\ larger.off \in Nat
    BY <1>1, <1>2, <1>5, <1>11
  <2>2. r = Bump(larger, total)  BY <1>4, <1>11
  <2> QED  BY <1>5, <1>6, <1>7, <1>11, <2>1, <2>2
<1> QED  BY <1>8, <1>9, <1>10, <1>11

\* The search of a list finds a block of exactly the size that is asked for.
LEMMA RecyclableFits ==
  ASSUME NEW a, NEW L, NEW F, ArenaInv(a, L, F), NEW total \in Nat, total > 1,
         Recyclable(a, total) > 0
  PROVE  \E n \in 1 .. LargeUnits : \E k \in 1 .. Len(a.lists[n]) :
           /\ n = Bucket(total) /\ k = Recyclable(a, total)
           /\ UnitAt(a, a.lists[n][k]).v = total
<1>1. PICK n \in 1 .. LargeUnits : n = Bucket(total)  BY HeapAssumption DEF Bucket
<1> DEFINE I == {i \in 1 .. Len(a.lists[n]) :
                   n < LargeUnits \/ UnitAt(a, a.lists[n][i]).v = total}
<1>2. Recyclable(a, total) = IF I # {} THEN CHOOSE x \in I : \A y \in I : x <= y ELSE 0
  BY <1>1 DEF Recyclable, SelectInSeq, Min
<1>3. I # {} /\ I \subseteq Nat
  <2>1. I \subseteq Nat  BY LenProperties DEF ArenaInv, ArenaTypes
  <2> QED  BY <1>2, <2>1
<1>4. PICK k \in I : k = Recyclable(a, total)
  <2>1. PICK m \in I : \A y \in I : m <= y  BY <1>3, LeastNumber
  <2> HIDE DEF I
  <2> QED  BY <1>2, <1>3, <2>1
<1>5. k \in 1 .. Len(a.lists[n]) /\ (n < LargeUnits \/ UnitAt(a, a.lists[n][k]).v = total)
  OBVIOUS
<1>6. PICK v : v = UnitAt(a, a.lists[n][k]).v  OBVIOUS
<1>7. v \in Nat /\ Bucket(v) = n
  <2>1. a.lists[n][k] \in F /\ Bucket(v) = n  BY <1>5, <1>6 DEF ArenaInv, ListsHold
  <2> QED  BY <1>6, <2>1 DEF ArenaInv, Waits, Fits
<1>8. v = total  BY <1>1, <1>5, <1>6, <1>7, HeapAssumption DEF Bucket
<1> QED  BY <1>1, <1>4, <1>5, <1>6, <1>8

\* A sequence without one of its elements.
LEMMA RemovedAt ==
  ASSUME NEW S, NEW s \in Seq(S), NEW k \in 1 .. Len(s)
  PROVE  /\ RemoveAt(s, k) \in Seq(S) /\ Len(RemoveAt(s, k)) = Len(s) - 1
         /\ \A i \in 1 .. Len(s) - 1 : RemoveAt(s, k)[i] = IF i < k THEN s[i] ELSE s[i + 1]
<1> DEFINE u == SubSeq(s, 1, k - 1)
           v == SubSeq(s, k + 1, Len(s))
<1>1. Len(s) \in Nat /\ \A i \in 1 .. Len(s) : s[i] \in S  BY LenProperties, ElementOfSeq
<1>2. /\ u \in Seq(S) /\ Len(u) = k - 1 /\ \A i \in 1 .. k - 1 : u[i] = s[i]
  <2>1. 1 \in Int /\ k - 1 \in Int /\ \A i \in 1 .. k - 1 : s[i] \in S  BY <1>1
  <2>2. /\ u \in Seq(S) /\ Len(u) = IF 1 <= k - 1 THEN (k - 1) - 1 + 1 ELSE 0
        /\ \A i \in 1 .. (k - 1) - 1 + 1 : u[i] = s[1 + i - 1]
    BY <2>1, SubSeqProperties
  <2>3. \A i \in 1 .. k - 1 : i \in 1 .. (k - 1) - 1 + 1 /\ 1 + i - 1 = i  BY <1>1
  <2>4. Len(u) = k - 1  BY <1>1, <2>2
  <2> QED  BY <2>2, <2>3, <2>4
<1>3. /\ v \in Seq(S) /\ Len(v) = Len(s) - k /\ \A i \in 1 .. Len(s) - k : v[i] = s[k + i]
  <2>1. k + 1 \in Int /\ Len(s) \in Int /\ \A i \in k + 1 .. Len(s) : s[i] \in S  BY <1>1
  <2>2. /\ v \in Seq(S) /\ Len(v) = IF k + 1 <= Len(s) THEN Len(s) - (k + 1) + 1 ELSE 0
        /\ \A i \in 1 .. Len(s) - (k + 1) + 1 : v[i] = s[(k + 1) + i - 1]
    BY <2>1, SubSeqProperties
  <2>3. \A i \in 1 .. Len(s) - k : i \in 1 .. Len(s) - (k + 1) + 1 /\ (k + 1) + i - 1 = k + i
    BY <1>1
  <2>4. Len(v) = Len(s) - k  BY <1>1, <2>2
  <2> QED  BY <2>2, <2>3, <2>4
<1>4. RemoveAt(s, k) = u \o v  BY DEF RemoveAt
<1> HIDE DEF u, v
<1>5. /\ u \o v \in Seq(S) /\ Len(u \o v) = (k - 1) + (Len(s) - k)
      /\ \A i \in 1 .. (k - 1) + (Len(s) - k) :
           (u \o v)[i] = IF i <= k - 1 THEN u[i] ELSE v[i - (k - 1)]
  <2>1. /\ u \o v \in Seq(S) /\ Len(u \o v) = Len(u) + Len(v)
        /\ \A i \in 1 .. Len(u) + Len(v) :
             (u \o v)[i] = IF i <= Len(u) THEN u[i] ELSE v[i - Len(u)]
    BY <1>2, <1>3, ConcatProperties
  <2>2. Len(u) = k - 1 /\ Len(v) = Len(s) - k  BY <1>2, <1>3
  <2> QED  BY <2>1, <2>2
<1>6. ASSUME NEW i \in 1 .. Len(s) - 1
      PROVE  (u \o v)[i] = IF i < k THEN s[i] ELSE s[i + 1]
  <2>1. i \in 1 .. (k - 1) + (Len(s) - k) /\ (i <= k - 1 <=> i < k)  BY <1>1
  <2>2. CASE i < k
    <3>1. i \in 1 .. k - 1  BY <1>1, <2>2
    <3> QED  BY <1>2, <1>5, <2>1, <2>2, <3>1
  <2>3. CASE ~ (i < k)
    <3>1. PICK j \in 1 .. Len(s) - k : j = i - (k - 1) /\ k + j = i + 1  BY <1>1, <2>3
    <3> QED  BY <1>3, <1>5, <2>1, <2>3, <3>1
  <2> QED  BY <2>2, <2>3
<1>7. Len(u \o v) = Len(s) - 1  BY <1>1, <1>5
<1> QED  BY <1>4, <1>5, <1>6, <1>7

\* A freed block is taken out of its list and made anew.
LEMMA FreeIsGranted ==
  ASSUME NEW a, NEW L, NEW F, NEW total, NEW r, ArenaInv(a, L, F),
         total \in Nat, total > 1, Recyclable(a, total) > 0, r = TakeFree(a, total)
  PROVE  Grants(a, L, F, r.heap, r.at, total)
<1>1. PICK n \in 1 .. LargeUnits : \E k \in 1 .. Len(a.lists[n]) :
        n = Bucket(total) /\ k = Recyclable(a, total) /\ UnitAt(a, a.lists[n][k]).v = total
  BY RecyclableFits
<1>2. PICK k \in 1 .. Len(a.lists[n]) :
        n = Bucket(total) /\ k = Recyclable(a, total) /\ UnitAt(a, a.lists[n][k]).v = total
  BY <1>1
<1>3. /\ ArenaTypes(a) /\ a.lists[n] \in Seq(Places) /\ Len(a.lists[n]) \in Nat
      /\ a.cur \in Nat /\ a.off \in Nat /\ Len(a.slabs) \in Nat
  BY LenProperties DEF ArenaInv, ArenaTypes
<1>4. PICK p : p = a.lists[n][k]  OBVIOUS
<1> DEFINE rest == RemoveAt(a.lists[n], k)
           lists == [a.lists EXCEPT ![n] = rest]
           b == [a EXCEPT !.lists = lists]
           c == Formatted(b, p, total)
<1>5. r.at = p /\ r.heap = c  BY <1>2, <1>4 DEF TakeFree
<1>6. /\ rest \in Seq(Places) /\ Len(rest) = Len(a.lists[n]) - 1
      /\ \A i \in 1 .. Len(a.lists[n]) - 1 :
           rest[i] = IF i < k THEN a.lists[n][i] ELSE a.lists[n][i + 1]
  BY <1>3, RemovedAt
<1> HIDE DEF rest
<1>7. /\ ArenaTypes(b) /\ b.slabs = a.slabs /\ b.cur = a.cur /\ b.off = a.off
      /\ b.active = a.active /\ b.lists = lists
      /\ \A m \in 1 .. LargeUnits : lists[m] = IF m = n THEN rest ELSE a.lists[m]
  BY <1>6 DEF ArenaInv, ArenaTypes
<1> HIDE DEF b, lists
<1>8. p \in F /\ p \in Places /\ Waits(a, p) /\ UnitAt(a, p).v = total
  BY <1>2, <1>4 DEF ArenaInv, ListsHold
<1>9. Fits(b, p, total) /\ Allotted(a, p, total)  BY <1>7, <1>8 DEF Waits, Fits
<1>10. /\ ArenaTypes(c) /\ c.cur = b.cur /\ c.off = b.off /\ c.active = b.active
       /\ c.lists = b.lists
       /\ Rewrites(b, c, p, total) /\ Fits(c, p, total) /\ UnitAt(c, p) = Header(total)
  BY <1>7, <1>9, FormattedBlock
<1> HIDE DEF c
<1>11. Rewrites(a, c, p, total)
  <2>1. Rewrites(a, b, p, total)  BY <1>3, <1>7 DEF Rewrites, UnitAt
  <2> QED  BY <1>3, <1>7, <1>10, <2>1, RewritesTwice
<1>12. Allotted(c, p, total)  BY <1>7, <1>9, <1>10 DEF Allotted
<1>13. ASSUME NEW d \in L PROVE Apart(p, total, d.at, d.size + 1)
  <2>1. Apart(d.at, d.size + 1, p, total)  BY <1>8 DEF ArenaInv, BlocksAreApart
  <2> QED  BY <2>1 DEF Apart
<1>14. \A q \in F \ {p} : Apart(p, total, q, UnitAt(a, q).v)
  BY <1>8 DEF ArenaInv, BlocksAreApart
<1>15. ASSUME NEW m \in 1 .. LargeUnits
       PROVE  /\ \A i \in 1 .. Len(lists[m]) :
                   lists[m][i] \in F \ {p} /\ Bucket(UnitAt(a, lists[m][i]).v) = m
              /\ \A i, j \in 1 .. Len(lists[m]) : i # j => lists[m][i] # lists[m][j]
  <2>1. /\ \A i \in 1 .. Len(a.lists[m]) :
             a.lists[m][i] \in F /\ Bucket(UnitAt(a, a.lists[m][i]).v) = m
        /\ \A i, j \in 1 .. Len(a.lists[m]) : i # j => a.lists[m][i] # a.lists[m][j]
    BY DEF ArenaInv, ListsHold
  <2>2. CASE m # n
    <3>1. lists[m] = a.lists[m]  BY <1>7, <2>2
    <3>2. \A i \in 1 .. Len(a.lists[m]) : a.lists[m][i] # p  BY <1>2, <1>8, <2>1, <2>2
    <3> QED  BY <2>1, <3>1, <3>2
  <2>3. CASE m = n
    <3>1. lists[m] = rest /\ Len(rest) = Len(a.lists[n]) - 1  BY <1>6, <1>7, <2>3
    <3>2. ASSUME NEW i \in 1 .. Len(rest)
          PROVE  \E x \in 1 .. Len(a.lists[n]) :
                   x # k /\ rest[i] = a.lists[n][x] /\ x = IF i < k THEN i ELSE i + 1
      <4>1. i \in 1 .. Len(a.lists[n]) - 1  BY <3>1
      <4>2. CASE i < k
        <5>1. i \in 1 .. Len(a.lists[n]) /\ i # k  BY <1>3, <4>1, <4>2
        <5> QED  BY <1>6, <4>1, <4>2, <5>1
      <4>3. CASE ~ (i < k)
        <5>1. i + 1 \in 1 .. Len(a.lists[n]) /\ i + 1 # k  BY <1>3, <4>1, <4>3
        <5> QED  BY <1>6, <4>1, <4>3, <5>1
      <4> QED  BY <4>2, <4>3
    <3>3. ASSUME NEW i \in 1 .. Len(rest)
          PROVE  rest[i] \in F \ {p} /\ Bucket(UnitAt(a, rest[i]).v) = m
      <4>1. PICK x \in 1 .. Len(a.lists[n]) : x # k /\ rest[i] = a.lists[n][x]  BY <3>2
      <4> QED  BY <1>4, <2>1, <2>3, <4>1
    <3>4. ASSUME NEW i \in 1 .. Len(rest), NEW j \in 1 .. Len(rest), i # j
          PROVE  rest[i] # rest[j]
      <4>1. PICK x \in 1 .. Len(a.lists[n]) :
              x # k /\ rest[i] = a.lists[n][x] /\ x = IF i < k THEN i ELSE i + 1
        BY <3>2
      <4>2. PICK y \in 1 .. Len(a.lists[n]) :
              y # k /\ rest[j] = a.lists[n][y] /\ y = IF j < k THEN j ELSE j + 1
        BY <3>2
      <4>3. i \in Nat /\ j \in Nat /\ k \in Nat  BY <1>3, <3>1
      <4>4. x # y  BY <3>4, <4>1, <4>2, <4>3
      <4> QED  BY <2>1, <2>3, <4>1, <4>2, <4>4
    <3> QED  BY <3>1, <3>3, <3>4
  <2> QED  BY <2>2, <2>3
<1>16. ListsHold(a, c.lists, F \ {p})  BY <1>7, <1>10, <1>15 DEF ListsHold
<1>17. Grants(a, L, F, c, p, total)
  BY <1>7, <1>8, <1>10, <1>11, <1>12, <1>13, <1>14, <1>16 DEF Grants, LeavesAlone, Spares
<1> QED  BY <1>5, <1>17

\* xiom_guard_alloc: a block of its own, or none.
LEMMA AllocationIsGranted ==
  ASSUME NEW a, NEW L, NEW F, NEW size, NEW r,
         ArenaInv(a, L, F), size \in Nat \ {0}, r = Allocate(a, size)
  PROVE  \/ /\ r.at = NoBlock /\ ArenaInv(r.heap, L, F) /\ r.heap.active = a.active
         \/ Grants(a, L, F, r.heap, r.at, size + 1)
<1>1. PICK total \in Nat : total = size + 1 /\ total > 1
  <2>1. size + 1 \in Nat /\ size + 1 > 1  OBVIOUS
  <2> QED  BY <2>1, Zenon
<1>2. CASE Recyclable(a, total) > 0
  <2>1. r = TakeFree(a, total)  BY <1>1, <1>2 DEF Allocate
  <2> QED  BY <1>1, <1>2, <2>1, FreeIsGranted
<1>3. CASE ~ (Recyclable(a, total) > 0)
  <2>1. PICK b : b = EnsureSlab(a)  OBVIOUS
  <2>2. r = FromSlab(b, total)  BY <1>1, <1>3, <2>1 DEF Allocate
  <2>3. /\ ArenaInv(b, L, F) /\ b.active = a.active
        /\ \A c, p : Grants(b, L, F, c, p, total) => Grants(a, L, F, c, p, total)
    <3>1. CASE b = a  BY <3>1
    <3>2. CASE b = MoreSlab(a, SlabUnits)
      <4>1. SlabUnits \in Nat /\ SlabUnits >= SlabUnits /\ ArenaTypes(a)
        BY HeapAssumption DEF ArenaInv
      <4>2. /\ ArenaTypes(b) /\ b.active = a.active /\ b.lists = a.lists
            /\ Rewrites(a, b, NoBlock, 0)
        BY <3>2, <4>1, SlabIsAdded
      <4> QED  BY <4>2, GrantedBehindSlab
    <3> QED  BY <2>1, <3>1, <3>2 DEF EnsureSlab
  <2>4. \/ r.at = NoBlock /\ r.heap = b
        \/ Grants(b, L, F, r.heap, r.at, total)
    BY <1>1, <2>2, <2>3, SlabGrants
  <2> QED  BY <1>1, <2>3, <2>4
<1> QED  BY <1>2, <1>3

\* A granted block that nobody holds.
LEMMA GrantIsKept ==
  ASSUME NEW a, NEW L, NEW F, NEW c, NEW p, NEW total,
         ArenaInv(a, L, F), Grants(a, L, F, c, p, total)
  PROVE  ArenaInv(c, L, F \ {p})
<1>1. LeavesAlone(a, c, p, total, L, F \ {p})  BY DEF Grants
<1>2. L \subseteq L /\ F \ {p} \subseteq F  OBVIOUS
<1> QED  BY <1>1, <1>2, OthersStay

\* A block of total units at p, with its header.
Stands(c, p, total) ==
  /\ p \in Places /\ total \in Nat /\ total > 1
  /\ Fits(c, p, total) /\ Allotted(c, p, total) /\ UnitAt(c, p) = Header(total)

\* What the arena is once that block is filled.
IsFilled(a, w, p, total, tag, M, G) ==
  /\ ArenaInv(w, M, G) /\ w.active = a.active
  /\ LeavesAlone(a, w, p, total, M, G) /\ \A q \in G : UnitAt(w, q) = UnitAt(a, q)
  /\ Stands(w, p, total)
  /\ \A k \in 1 .. total - 1 : UnitAt(w, <<p[1], p[2] + k>>) = Data(tag)

\* A granted block that the program fills.
LEMMA GrantIsFilled ==
  ASSUME NEW a, NEW L, NEW F, NEW c, NEW p, NEW total, NEW tag, NEW G, NEW M,
         tag \in Nat, ArenaInv(a, L, F), G \subseteq F, M \subseteq L,
         LeavesAlone(a, c, p, total, L, G), c.active = a.active, Stands(c, p, total)
  PROVE  IsFilled(a, Written(c, p, total, tag), p, total, tag, M, G)
<1>0. /\ p \in Places /\ total \in Nat /\ total > 1
      /\ Fits(c, p, total) /\ Allotted(c, p, total) /\ UnitAt(c, p) = Header(total)
  BY DEF Stands
<1>1. /\ ArenaTypes(a) /\ ArenaTypes(c) /\ Rewrites(a, c, p, total)
      /\ Spares(a, L, G, p, total) /\ ListsHold(a, c.lists, G)
  BY DEF ArenaInv, LeavesAlone
<1>2. PICK s \in 1 .. Len(c.slabs), u \in Nat :
        /\ p = <<s, u>> /\ p[1] = s /\ p[2] = u /\ u # 0
        /\ u + total - 1 <= Len(c.slabs[s]) /\ Len(c.slabs[s]) \in Nat
  <2>1. PICK s \in 1 .. Len(c.slabs), u \in Nat : s = p[1] /\ u = p[2]  BY <1>0 DEF Fits, Places
  <2>2. Len(c.slabs[s]) \in Nat  BY <1>1, LenProperties, ElementOfSeq DEF ArenaTypes
  <2> QED  BY <1>0, <2>1, <2>2 DEF Fits, Places
<1>3. PICK v, n \in Nat : v = u + 1 /\ n = total - 1
  <2>1. total \in Nat /\ total > 1  BY <1>0, Zenon
  <2>2. u + 1 \in Nat /\ total - 1 \in Nat  BY <2>1
  <2> QED  BY <2>2, Zenon
<1>4. PICK x : x = Written(c, p, total, tag)  OBVIOUS
<1>5. x = Fill(c, s, v, n, Data(tag)) /\ Data(tag) \in Units
  <2>1. Data(tag) \in Units  BY DEF Data, Unit, Units
  <2>2. x = Fill(c, p[1], p[2] + 1, total - 1, Data(tag))  BY <1>4, Zenon DEF Written
  <2>3. p[1] = s /\ p[2] + 1 = v /\ total - 1 = n  BY <1>2, <1>3
  <2> QED  BY <2>1, <2>2, <2>3, Zenon
<1>6. /\ ArenaTypes(x)
      /\ x.cur = c.cur /\ x.off = c.off /\ x.active = c.active /\ x.lists = c.lists
      /\ Rewrites(c, x, <<s, v>>, n)
      /\ \A k \in v .. v + n - 1 :
           k \in 1 .. Len(c.slabs[s]) => UnitAt(x, <<s, k>>) = Data(tag)
  <2>1. ArenaTypes(c) /\ Data(tag) \in Units /\ x = Fill(c, s, v, n, Data(tag))
    BY <1>1, <1>5
  <2> QED  BY <2>1, FillChanges
<1>7. Rewrites(a, x, p, total)
  <2>1. p[2] <= v /\ v + n <= p[2] + total /\ Rewrites(c, x, <<p[1], v>>, n)
    BY <1>0, <1>2, <1>3, <1>6
  <2>2. Rewrites(c, x, p, total)  BY <1>0, <1>3, <2>1, RewritesWithin
  <2> QED  BY <1>0, <1>1, <1>6, <2>2, RewritesTwice
<1>8. LeavesAlone(a, x, p, total, M, G)  BY <1>0, <1>1, <1>6, <1>7 DEF LeavesAlone, Spares
<1>9. ArenaInv(x, M, G) /\ \A q \in G : UnitAt(x, q) = UnitAt(a, q)  BY <1>8, OthersStay
<1>10. Fits(x, p, total) /\ Allotted(x, p, total) /\ UnitAt(x, p) = Header(total)
  <2>1. /\ Len(x.slabs) >= Len(c.slabs) /\ Len(x.slabs) \in Nat /\ Len(c.slabs) \in Nat
        /\ \A j \in 1 .. Len(c.slabs) : Len(x.slabs[j]) = Len(c.slabs[j])
    BY <1>1, <1>6, LenProperties DEF Rewrites, ArenaTypes
  <2>2. s \in 1 .. Len(x.slabs) /\ Len(x.slabs[s]) = Len(c.slabs[s])  BY <2>1
  <2>3. Fits(x, p, total)  BY <1>0, <1>2, <2>2 DEF Fits
  <2>4. u \in 1 .. Len(c.slabs[s])  BY <1>0, <1>2
  <2>5. InArena(c, p) /\ Apart(<<s, v>>, n, p, 1)
    BY <1>0, <1>2, <1>3, <2>4 DEF InArena, Apart
  <2>6. UnitAt(x, p) = UnitAt(c, p)  BY <1>6, <2>5 DEF Rewrites
  <2> QED  BY <1>0, <1>6, <2>3, <2>6 DEF Allotted
<1>11. ASSUME NEW k \in 1 .. total - 1 PROVE UnitAt(x, <<p[1], p[2] + k>>) = Data(tag)
  <2>1. PICK i : i = u + k  OBVIOUS
  <2>2. i \in v .. v + n - 1 /\ i \in 1 .. Len(c.slabs[s])
    BY <1>0, <1>2, <1>3, <2>1
  <2> QED  BY <1>2, <1>6, <2>1, <2>2
<1>12. IsFilled(a, x, p, total, tag, M, G)
  BY <1>0, <1>6, <1>8, <1>9, <1>10, <1>11 DEF IsFilled, Stands
<1> QED  BY <1>4, <1>12, Zenon

\* What the program notes of the block it gets.
Notes(b, p, total, tag) ==
  b \in Held /\ b.at = p /\ b.size + 1 = total /\ b.tag = tag

\* The arena with N held and G freed, nested as before.
Becomes(a, w, N, G) == ArenaInv(w, N, G) /\ w.active = a.active

\* It is held from then on, whatever the program gives up for it.
LEMMA GrantIsHeld ==
  ASSUME NEW a, NEW L, NEW F, NEW c, NEW p, NEW total, NEW b, NEW tag, NEW M,
         ArenaInv(a, L, F), Grants(a, L, F, c, p, total), Notes(b, p, total, tag),
         M \subseteq L
  PROVE  Becomes(a, Written(c, p, total, tag), M \cup {b}, F \ {p})
<1>1. PICK size \in Nat \ {0} :
        /\ b \in Held /\ p = b.at /\ size = b.size /\ total = size + 1 /\ tag = b.tag
        /\ p \in Places /\ tag \in Nat
  BY DEF Notes, Held
<1>2. total \in Nat /\ total > 1  BY <1>1
<1>3. PICK G : G = F \ {p}  OBVIOUS
<1>4. PICK w : w = Written(c, p, total, tag)  OBVIOUS
<1>5. G \subseteq F /\ tag \in Nat  BY <1>1, <1>3
<1>6. LeavesAlone(a, c, p, total, L, G) /\ c.active = a.active
  BY <1>3, Zenon DEF Grants
<1>7. Stands(c, p, total)
  <2>1. Fits(c, p, total) /\ Allotted(c, p, total) /\ UnitAt(c, p) = Header(total)
    BY DEF Grants
  <2> QED  BY <1>1, <1>2, <2>1, Zenon DEF Stands
<1>8. IsFilled(a, w, p, total, tag, M, G)
  <2>1. IsFilled(a, Written(c, p, total, tag), p, total, tag, M, G)
    BY <1>5, <1>6, <1>7, GrantIsFilled, Zenon
  <2> QED  BY <1>4, <2>1, Zenon
<1>9. IsWhole(w, b)
  <2>1. \A k \in 1 .. size : k \in 1 .. total - 1  BY <1>1
  <2> QED  BY <1>1, <1>2, <1>8, <2>1 DEF IsWhole, IsFilled, Stands
<1>10. /\ \A d \in M : Apart(b.at, b.size + 1, d.at, d.size + 1)
       /\ \A q \in G : Apart(b.at, b.size + 1, q, UnitAt(w, q).v)
  BY <1>1, <1>2, <1>8 DEF IsFilled, LeavesAlone, Spares
<1>11. ArenaInv(w, M \cup {b}, G)
  <2>1. ArenaInv(w, M, G)  BY <1>8 DEF IsFilled
  <2> QED  BY <1>1, <1>9, <1>10, <2>1, BlockIsHeld
<1>12. Becomes(a, w, M \cup {b}, G)  BY <1>8, <1>11 DEF Becomes, IsFilled
<1> QED  BY <1>3, <1>4, <1>12, Zenon

\* xiom_guard_free of a held block.
LEMMA ReleaseKeeps ==
  ASSUME NEW a, NEW L, NEW F, ArenaInv(a, L, F), NEW b \in L
  PROVE  /\ ArenaInv(Release(a, b.at), L \ {b}, F \cup {b.at})
         /\ Release(a, b.at).active = a.active
<1>1. /\ b \in Held /\ IsWhole(a, b) /\ ArenaTypes(a)  BY DEF ArenaInv
<1>2. PICK p \in Places, total \in Nat : p = b.at /\ total = b.size + 1 /\ total > 1
  <2>1. b.at \in Places /\ b.size + 1 \in Nat /\ b.size + 1 > 1  BY <1>1 DEF Held
  <2> QED  BY <2>1, Zenon
<1>3. Fits(a, p, total) /\ Allotted(a, p, total) /\ UnitAt(a, p) = Header(total)
  BY <1>1, <1>2 DEF IsWhole
<1>4. PICK s \in 1 .. Len(a.slabs), u \in Nat :
        /\ p = <<s, u>> /\ p[1] = s /\ p[2] = u /\ u # 0
        /\ u + total - 1 <= Len(a.slabs[s]) /\ Len(a.slabs[s]) \in Nat
  <2>1. PICK s \in 1 .. Len(a.slabs), u \in Nat : s = p[1] /\ u = p[2]
    BY <1>3 DEF Fits, Places
  <2>2. Len(a.slabs[s]) \in Nat  BY <1>1, LenProperties, ElementOfSeq DEF ArenaTypes
  <2> QED  BY <1>3, <2>1, <2>2 DEF Fits, Places
<1>5. PICK c : c = Fill(a, s, u, 1, Retired(total))  OBVIOUS
<1>6. Release(a, b.at) = [c EXCEPT !.lists[Bucket(total)] = <<p>> \o @]
  BY <1>2, <1>3, <1>4, <1>5 DEF Release, Header, Unit
<1>7. /\ ArenaTypes(c)
      /\ c.cur = a.cur /\ c.off = a.off /\ c.active = a.active /\ c.lists = a.lists
      /\ Rewrites(a, c, <<s, u>>, 1)
      /\ \A k \in u .. u + 1 - 1 :
           k \in 1 .. Len(a.slabs[s]) => UnitAt(c, <<s, k>>) = Retired(total)
  <2>1. ArenaTypes(a) /\ Retired(total) \in Units /\ 1 \in Nat
    BY <1>1 DEF Retired, Unit, Units
  <2> QED  BY <1>5, <2>1, FillChanges
<1>8. UnitAt(c, p) = Retired(total)
  <2>1. u \in u .. u + 1 - 1 /\ u \in 1 .. Len(a.slabs[s])  BY <1>2, <1>4
  <2> QED  BY <1>4, <1>7, <2>1
<1>9. UnitAt(c, p).v = total /\ UnitAt(c, p).kind = "retired"  BY <1>8 DEF Retired, Unit
<1>10. /\ \A d \in L \ {b} : Apart(p, total, d.at, d.size + 1)
       /\ \A q \in F : Apart(p, total, q, UnitAt(a, q).v)
  BY <1>2 DEF ArenaInv, BlocksAreApart
<1>11. ASSUME NEW q \in Places, NEW n \in Nat, Apart(p, total, q, n)
       PROVE  Apart(p, 1, q, n)
  <2>1. p[2] \in Nat /\ q[2] \in Nat  BY DEF Places
  <2> QED  BY <1>2, <1>11, <2>1 DEF Apart
<1>12. /\ ArenaInv(c, L \ {b}, F) /\ \A q \in F : UnitAt(c, q) = UnitAt(a, q)
  <2>1. Spares(a, L \ {b}, F, p, 1)
    <3>1. \A d \in L : d.at \in Places /\ d.size + 1 \in Nat  BY DEF ArenaInv, Held
    <3>2. \A q \in F : q \in Places /\ UnitAt(a, q).v \in Nat  BY DEF ArenaInv, Waits, Fits
    <3> QED  BY <1>10, <1>11, <3>1, <3>2 DEF Spares
  <2>2. ArenaTypes(c) /\ Rewrites(a, c, p, 1) /\ 1 \in Nat  BY <1>4, <1>7
  <2>3. ListsHold(a, c.lists, F) /\ L \ {b} \in SUBSET L /\ F \in SUBSET F
    BY <1>7 DEF ArenaInv
  <2>4. LeavesAlone(a, c, p, 1, L \ {b}, F)  BY <2>1, <2>2, <2>3 DEF LeavesAlone
  <2>5. L \ {b} \subseteq L /\ F \subseteq F  OBVIOUS
  <2> QED  BY <2>4, <2>5, OthersStay
<1>13. Waits(c, p)
  <2>1. /\ Len(c.slabs) >= Len(a.slabs) /\ Len(c.slabs) \in Nat /\ Len(a.slabs) \in Nat
        /\ \A j \in 1 .. Len(a.slabs) : Len(c.slabs[j]) = Len(a.slabs[j])
    BY <1>1, <1>7, LenProperties DEF Rewrites, ArenaTypes
  <2>2. s \in 1 .. Len(c.slabs) /\ Len(c.slabs[s]) = Len(a.slabs[s])  BY <2>1
  <2> QED  BY <1>2, <1>3, <1>4, <1>7, <1>9, <2>2 DEF Waits, Fits, Allotted
<1>14. /\ \A d \in L \ {b} : Apart(d.at, d.size + 1, p, total)
       /\ \A q \in F : Apart(p, total, q, UnitAt(c, q).v)
  BY <1>2, <1>10, <1>12 DEF ArenaInv, BlocksAreApart
<1>15. ArenaInv([c EXCEPT !.lists[Bucket(total)] = <<p>> \o @], L \ {b}, F \cup {p})
  BY <1>9, <1>12, <1>13, <1>14, BlockIsListed
<1> QED  BY <1>2, <1>6, <1>7, <1>15

\* Without a slab there is no block.
LEMMA NoSlabNoBlock ==
  ASSUME NEW a, NEW L, NEW F, ArenaInv(a, L, F), a.slabs = <<>>
  PROVE  L = {} /\ F = {}
<1>1. \A p, n : ~ Fits(a, p, n)  BY DEF Fits
<1>2. \A b \in L : FALSE  BY <1>1 DEF ArenaInv, IsWhole
<1>3. \A p \in F : FALSE  BY <1>1 DEF ArenaInv, Waits
<1> QED  BY <1>2, <1>3

\* The nesting count and the blocks that end do not matter to the others.
LEMMA NestingKeeps ==
  ASSUME NEW a, NEW L, NEW F, NEW n, NEW M, NEW c,
         ArenaInv(a, L, F), n \in Nat, M \subseteq L, c = [a EXCEPT !.active = n]
  PROVE  ArenaInv(c, M, F)
<1>1. /\ c.slabs = a.slabs /\ c.cur = a.cur /\ c.off = a.off /\ c.lists = a.lists
      /\ ArenaTypes(c)
  BY DEF ArenaInv, ArenaTypes
<1>2. /\ \A q : UnitAt(c, q) = UnitAt(a, q)
      /\ \A q, m : (Fits(c, q, m) <=> Fits(a, q, m)) /\ (Allotted(c, q, m) <=> Allotted(a, q, m))
  BY <1>1 DEF UnitAt, Fits, Allotted
<1>3. \A q \in F : Waits(c, q)  BY <1>2 DEF ArenaInv, Waits
<1>4. \A b \in M : IsWhole(c, b)  BY <1>2 DEF ArenaInv, IsWhole
<1>5. BlocksAreApart(c, M, F)  BY <1>2 DEF ArenaInv, BlocksAreApart
<1>6. ListsHold(c, c.lists, F)  BY <1>1, <1>2 DEF ArenaInv, ListsHold
<1>7. M \subseteq Held /\ F \subseteq Places  BY DEF ArenaInv
<1> QED  BY <1>1, <1>3, <1>4, <1>5, <1>6, <1>7 DEF ArenaInv

\* The discarded arena.
LEMMA NoArenaIsSound == ArenaInv(NoArena, {}, {}) /\ NoArena.active = 0 /\ NoArena.slabs = <<>>
<1>1. /\ NoArena.slabs = <<>> /\ NoArena.cur = 0 /\ NoArena.off = 0 /\ NoArena.active = 0
      /\ NoArena.lists = [b \in 1 .. LargeUnits |-> <<>>]
  BY DEF NoArena
<1>2. \A b \in 1 .. LargeUnits : NoArena.lists[b] = <<>>  BY <1>1
<1>3. ArenaTypes(NoArena)
  <2>1. <<>> \in Seq(Seq(Units)) /\ <<>> \in Seq(Places) /\ Len(<<>>) = 0  OBVIOUS
  <2>2. NoArena \in [slabs : Seq(Seq(Units)), cur : Nat, off : Nat, active : Nat,
                     lists : [1 .. LargeUnits -> Seq(Places)]]
    BY <2>1 DEF NoArena
  <2> QED  BY <1>1, <2>1, <2>2 DEF ArenaTypes
<1>4. ListsHold(NoArena, NoArena.lists, {})  BY <1>2 DEF ListsHold
<1>5. BlocksAreApart(NoArena, {}, {})  BY DEF BlocksAreApart
<1> QED  BY <1>1, <1>3, <1>4, <1>5 DEF ArenaInv

HeapSpec == HeapInit /\ [][HeapNext]_heapVars

\* A buffer that the vector had from the start never comes from the arena.
OuterBuffer ==
  /\ vector.where = "main" => vector.at = NoBlock
  /\ vector.filled => vector.where = "main"

\* The inductive invariant of the guard heap: every unit of a slab is of one
\* block, held or freed, or of the room behind the last.
HeapInv ==
  /\ ArenaInv(arena, live, freed)
  /\ depth \in Nat /\ allocs \in Nat
  /\ vector \in [where : {"none", "main", "arena"}, at : Places, filled : BOOLEAN]
  /\ ArenaEndsWithItsBlocks /\ OuterBuffer

\* No block at first.
LEMMA HeapInitial == HeapInit => HeapInv
<1> SUFFICES ASSUME HeapInit PROVE HeapInv  OBVIOUS
<1>1. arena = NoArena /\ live = {} /\ freed = {} /\ depth = 0 /\ allocs = 0  BY DEF HeapInit
<1>2. /\ vector \in [where : {"none", "main", "arena"}, at : Places, filled : BOOLEAN]
      /\ OuterBuffer
  <2>1. NoBlock \in Places  BY DEF NoBlock, Places
  <2>2. \/ vector = [where |-> "none", at |-> NoBlock, filled |-> FALSE]
        \/ vector = [where |-> "main", at |-> NoBlock, filled |-> TRUE]
    BY DEF HeapInit, OnMainHeap
  <2>3. CASE vector = [where |-> "none", at |-> NoBlock, filled |-> FALSE]
    BY <2>1, <2>3 DEF OuterBuffer
  <2>4. CASE vector = [where |-> "main", at |-> NoBlock, filled |-> TRUE]
    BY <2>1, <2>4 DEF OuterBuffer
  <2> QED  BY <2>2, <2>3, <2>4
<1>3. ArenaEndsWithItsBlocks  BY <1>1, NoArenaIsSound DEF ArenaEndsWithItsBlocks
<1> QED  BY <1>1, <1>2, <1>3, NoArenaIsSound DEF HeapInv

\* What the program does to the blocks of a running unsafe block.
LEMMA BlocksKeepHeap ==
  ASSUME HeapInv, depth > 0, ArenaInv(arena', live', freed'), arena'.active = arena.active,
         depth' = depth, allocs' \in Nat, vector' = vector
  PROVE  HeapInv'
<1>1. ArenaEndsWithItsBlocks'  BY DEF HeapInv, ArenaEndsWithItsBlocks
<1>2. OuterBuffer'  BY DEF HeapInv, OuterBuffer
<1> QED  BY <1>1, <1>2 DEF HeapInv

\* The block that an allocation gives.
LEMMA AllocKeepsHeap ==
  ASSUME NEW size \in Sizes, NEW M, M \subseteq live,
         HeapInv, ~spoiled, depth > 0,
         LET r == Allocate(arena, size)
         IN IF r.at = NoBlock THEN arena' = r.heap /\ UNCHANGED <<live, freed>>
            ELSE /\ arena' = Written(r.heap, r.at, size + 1, allocs + 1)
                 /\ live' = M \cup {Hold(r.at, size)}
                 /\ freed' = freed \ {r.at},
         allocs' = allocs + 1, UNCHANGED <<vector, depth, spoiled>>
  PROVE  HeapInv'
<1>1. PICK r : r = Allocate(arena, size)  OBVIOUS
<1>2. /\ ArenaInv(arena, live, freed) /\ size \in Nat \ {0} /\ allocs \in Nat /\ depth \in Nat
      /\ allocs' \in Nat /\ allocs + 1 \in Nat
  BY HeapAssumption DEF HeapInv
<1>3. \/ r.at = NoBlock /\ ArenaInv(r.heap, live, freed) /\ r.heap.active = arena.active
      \/ Grants(arena, live, freed, r.heap, r.at, size + 1)
  BY <1>1, <1>2, AllocationIsGranted
<1>4. Grants(arena, live, freed, r.heap, r.at, size + 1) => r.at # NoBlock
  BY DEF Grants, LeavesAlone, Spares, Fits, NoBlock
<1>5. CASE r.at = NoBlock
  <2>1. arena' = r.heap /\ live' = live /\ freed' = freed  BY <1>1, <1>5
  <2> QED  BY <1>2, <1>3, <1>4, <1>5, <2>1, BlocksKeepHeap
<1>6. CASE r.at # NoBlock
  <2>1. PICK c, p, total, tag, b :
          /\ c = r.heap /\ p = r.at /\ total = size + 1 /\ tag = allocs + 1 /\ b = Hold(p, size)
    OBVIOUS
  <2>2. Grants(arena, live, freed, c, p, total)  BY <1>3, <1>6, <2>1, Zenon
  <2>3. Notes(b, p, total, tag)
    <3>1. p \in Places  BY <2>2 DEF Grants, LeavesAlone
    <3>2. b.at = p /\ b.size = size /\ b.tag = tag  BY <2>1 DEF Hold
    <3>3. b \in Held  BY <1>2, <2>1, <3>1 DEF Hold, Held
    <3> QED  BY <2>1, <3>2, <3>3 DEF Notes
  <2>4. Becomes(arena, Written(c, p, total, tag), M \cup {b}, freed \ {p})
    BY <1>2, <2>2, <2>3, GrantIsHeld, Zenon
  <2>5. /\ arena' = Written(c, p, total, tag) /\ live' = M \cup {b} /\ freed' = freed \ {p}
    BY <1>1, <1>6, <2>1, Zenon
  <2>6. ArenaInv(arena', live', freed') /\ arena'.active = arena.active
    BY <2>4, <2>5, Zenon DEF Becomes
  <2> QED  BY <1>2, <2>6, BlocksKeepHeap
<1> QED  BY <1>5, <1>6

\* The outer vector's buffer is granted like a block, and stays with the arena.
LEMMA GrowKeepsHeap == ASSUME HeapInv, NEW size \in Sizes, GrowBuffer(size) PROVE HeapInv'
<1>1. PICK r : r = Allocate(arena, size)  OBVIOUS
<1>2. /\ ArenaInv(arena, live, freed) /\ size \in Nat \ {0} /\ allocs \in Nat
      /\ depth \in Nat /\ allocs' \in Nat /\ depth > 0 /\ depth' = depth /\ live' = live
  BY HeapAssumption DEF HeapInv, GrowBuffer
<1>3. \/ r.at = NoBlock /\ ArenaInv(r.heap, live, freed) /\ r.heap.active = arena.active
      \/ Grants(arena, live, freed, r.heap, r.at, size + 1)
  BY <1>1, <1>2, AllocationIsGranted
<1>4. CASE StaysOutside(arena, vector)
  <2>1. arena' = arena /\ vector' = vector /\ freed' = freed  BY <1>4 DEF GrowBuffer
  <2> QED  BY <1>2, <2>1, BlocksKeepHeap
<1>5. CASE ~ StaysOutside(arena, vector)
  <2>1. /\ arena' = r.heap /\ freed' = freed \ {r.at}
        /\ vector' = IF r.at = NoBlock THEN vector
                     ELSE [vector EXCEPT !.where = "arena", !.at = r.at]
    BY <1>1, <1>5 DEF GrowBuffer
  <2>2. vector.where # "main" /\ ~ vector.filled
    <3>1. ~ ArenaContains(arena, NoBlock)
      BY <1>2, LenProperties DEF ArenaInv, ArenaTypes, ArenaContains, NoBlock
    <3>2. vector.where # "main"  BY <1>5, <3>1 DEF HeapInv, OuterBuffer, StaysOutside
    <3> QED  BY <3>2 DEF HeapInv, OuterBuffer
  <2>3. /\ ArenaInv(arena', live', freed') /\ arena'.active = arena.active
        /\ r.at # NoBlock => r.at \in Places
    <3>1. CASE Grants(arena, live, freed, r.heap, r.at, size + 1)
      <4>1. ArenaInv(r.heap, live, freed \ {r.at})  BY <1>2, <3>1, GrantIsKept
      <4> QED  BY <1>2, <2>1, <3>1, <4>1 DEF Grants, LeavesAlone, Spares
    <3>2. CASE r.at = NoBlock /\ ArenaInv(r.heap, live, freed) /\ r.heap.active = arena.active
      <4>1. r.at \notin freed  BY <3>2 DEF ArenaInv, Waits, Fits, NoBlock
      <4>2. freed' = freed  BY <2>1, <4>1
      <4> QED  BY <1>2, <2>1, <3>2, <4>2
    <3> QED  BY <1>3, <3>1, <3>2
  <2> QED
    <3>1. /\ vector' \in [where : {"none", "main", "arena"}, at : Places, filled : BOOLEAN]
          /\ OuterBuffer'
      BY <2>1, <2>2, <2>3 DEF HeapInv, OuterBuffer
    <3>2. ArenaEndsWithItsBlocks'  BY <1>2, <2>3 DEF HeapInv, ArenaEndsWithItsBlocks
    <3> QED  BY <1>2, <2>3, <3>1, <3>2 DEF HeapInv
<1> QED  BY <1>4, <1>5

\* The arena when a block begins.
LEMMA EntryKeepsArena ==
  ASSUME NEW a, NEW L, NEW F, ArenaInv(a, L, F)
  PROVE  ArenaInv(HeapEnter(a), L, F) /\ HeapEnter(a).active = a.active + 1
<1>1. a.active \in Nat  BY DEF ArenaInv, ArenaTypes
<1>2. HeapEnter(a) = [a EXCEPT !.active = a.active + 1]  BY DEF HeapEnter
<1>3. PICK n \in Nat : n = a.active + 1  BY <1>1
<1>4. ArenaInv(HeapEnter(a), L, F)  BY <1>2, <1>3, NestingKeeps
<1> QED  BY <1>2, <1>4 DEF ArenaInv, ArenaTypes

\* The arena when a block ends: what is left of its blocks, or nothing of the arena.
LEMMA LeavingKeepsArena ==
  ASSUME HeapInv, depth > 0, NEW a, a = HeapExit(arena)
  PROVE  /\ ArenaInv(a, Survivors(a), IF a.slabs = <<>> THEN {} ELSE freed)
         /\ a.active = depth - 1 /\ (depth = 1 => a = NoArena)
<1>1. /\ ArenaInv(arena, live, freed) /\ depth \in Nat /\ arena.active = depth
      /\ Survivors(a) \subseteq live /\ (a.slabs = <<>> => Survivors(a) = {})
  BY DEF HeapInv, ArenaEndsWithItsBlocks, Survivors
<1>2. CASE arena.active > 1
  <2>1. PICK n \in Nat : n = depth - 1  BY <1>1
  <2>2. a = [arena EXCEPT !.active = n]  BY <1>1, <1>2, <2>1 DEF HeapExit
  <2>3. ArenaInv(a, Survivors(a), freed)  BY <1>1, <2>2, NestingKeeps
  <2>4. a.slabs = <<>> => freed = {}  BY <2>3, NoSlabNoBlock
  <2>5. a.active = depth - 1 /\ depth # 1
    BY <1>1, <1>2, <2>1, <2>2 DEF ArenaInv, ArenaTypes
  <2> QED  BY <2>3, <2>4, <2>5
<1>3. CASE ~ (arena.active > 1)
  <2>1. a = NoArena /\ depth = 1  BY <1>1, <1>3 DEF HeapExit
  <2>2. a.slabs = <<>> /\ a.active = 0 /\ ArenaInv(a, {}, {})  BY <2>1, NoArenaIsSound
  <2>3. Survivors(a) = {} /\ (IF a.slabs = <<>> THEN {} ELSE freed) = {}  BY <1>1, <2>2
  <2>4. ArenaInv(a, Survivors(a), IF a.slabs = <<>> THEN {} ELSE freed)  BY <2>2, <2>3
  <2> QED  BY <2>1, <2>2, <2>4
<1> QED  BY <1>2, <1>3

\* A block begins.
LEMMA EnterKeepsHeap == ASSUME HeapInv, EnterBlock PROVE HeapInv'
<1>1. /\ ArenaInv(arena, live, freed) /\ arena.active = depth /\ depth \in Nat /\ allocs \in Nat
      /\ arena' = HeapEnter(arena) /\ depth' = depth + 1
      /\ live' = live /\ freed' = freed /\ vector' = vector /\ allocs' = allocs
  BY DEF HeapInv, ArenaEndsWithItsBlocks, EnterBlock
<1>2. ArenaInv(arena', live', freed') /\ arena'.active = depth + 1  BY <1>1, EntryKeepsArena
<1>3. ArenaEndsWithItsBlocks'  BY <1>1, <1>2 DEF ArenaEndsWithItsBlocks
<1>4. OuterBuffer'  BY <1>1 DEF HeapInv, OuterBuffer
<1> QED  BY <1>1, <1>2, <1>3, <1>4 DEF HeapInv

\* A block ends, and the buffer that is in its arena moves out.
LEMMA ExitKeepsHeap == ASSUME HeapInv, ExitBlock PROVE HeapInv'
<1>1. PICK a : a = HeapExit(arena)  OBVIOUS
<1>2. /\ depth > 0 /\ depth' = depth - 1 /\ allocs' = allocs /\ depth \in Nat /\ allocs \in Nat
      /\ arena' = a /\ live' = Survivors(a)
      /\ freed' = IF a.slabs = <<>> THEN {} ELSE freed
  BY <1>1 DEF HeapInv, ExitBlock, Leave
<1>3. ArenaInv(arena', live', freed') /\ arena'.active = depth' /\ (depth' = 0 => arena' = NoArena)
  BY <1>1, <1>2, LeavingKeepsArena
<1>4. /\ vector' \in [where : {"none", "main", "arena"}, at : Places, filled : BOOLEAN]
      /\ OuterBuffer'
  BY DEF HeapInv, ExitBlock, OnMainHeap, NoBlock, Places, OuterBuffer
<1>5. ArenaEndsWithItsBlocks'  BY <1>3 DEF ArenaEndsWithItsBlocks
<1> QED  BY <1>2, <1>3, <1>4, <1>5 DEF HeapInv

\* A fault ends the run of a block, which may run again.
LEMMA FaultKeepsHeap == ASSUME HeapInv, NEW again \in BOOLEAN, FaultInBlock(again) PROVE HeapInv'
<1>1. PICK a : a = HeapExit(arena)  OBVIOUS
<1>2. /\ ArenaInv(a, Survivors(a), IF a.slabs = <<>> THEN {} ELSE freed)
      /\ a.active = depth - 1 /\ (depth = 1 => a = NoArena)
      /\ depth > 0 /\ depth \in Nat /\ allocs \in Nat /\ allocs' = allocs /\ vector' = vector
  BY <1>1, LeavingKeepsArena DEF HeapInv, FaultInBlock
<1>3. CASE again
  <2>1. PICK c : c = HeapEnter(a)  OBVIOUS
  <2>2. c.slabs = a.slabs  BY <1>2, <2>1 DEF HeapEnter, ArenaInv, ArenaTypes
  <2>3. Survivors(c) = Survivors(a)  BY <2>2 DEF Survivors
  <2>4. /\ arena' = c /\ live' = Survivors(a) /\ depth' = depth
        /\ freed' = IF a.slabs = <<>> THEN {} ELSE freed
    BY <1>1, <1>3, <2>1, <2>2, <2>3 DEF FaultInBlock, Leave
  <2>5. ArenaInv(arena', live', freed') /\ arena'.active = depth
    BY <1>2, <2>1, <2>4, EntryKeepsArena
  <2>6. ArenaEndsWithItsBlocks'  BY <1>2, <2>4, <2>5 DEF ArenaEndsWithItsBlocks
  <2>7. OuterBuffer'  BY <1>2 DEF HeapInv, OuterBuffer
  <2> QED  BY <1>2, <2>4, <2>5, <2>6, <2>7 DEF HeapInv
<1>4. CASE ~ again
  <2>1. /\ arena' = a /\ live' = Survivors(a) /\ depth' = depth - 1
        /\ freed' = IF a.slabs = <<>> THEN {} ELSE freed
    BY <1>1, <1>4 DEF FaultInBlock, Leave
  <2>2. ArenaEndsWithItsBlocks'  BY <1>2, <2>1 DEF ArenaEndsWithItsBlocks
  <2>3. OuterBuffer'  BY <1>2 DEF HeapInv, OuterBuffer
  <2> QED  BY <1>2, <2>1, <2>2, <2>3 DEF HeapInv
<1> QED  BY <1>3, <1>4

\* One step per action of the heap.
LEMMA HeapStep == HeapInv /\ [HeapNext]_heapVars => HeapInv'
<1> SUFFICES ASSUME HeapInv, [HeapNext]_heapVars PROVE HeapInv'  OBVIOUS
<1>1. CASE EnterBlock  BY <1>1, EnterKeepsHeap
<1>2. CASE ExitBlock  BY <1>2, ExitKeepsHeap
<1>3. ASSUME NEW size \in Sizes, Alloc(size) PROVE HeapInv'
  <2>1. live \subseteq live  OBVIOUS
  <2> QED  BY <1>3, <2>1, AllocKeepsHeap DEF Alloc
<1>4. ASSUME NEW size \in Sizes, GrowBuffer(size) PROVE HeapInv'  BY <1>4, GrowKeepsHeap
<1>5. ASSUME NEW b \in live, Free(b) PROVE HeapInv'
  <2>1. /\ ArenaInv(arena, live, freed) /\ allocs \in Nat /\ depth > 0
        /\ arena' = Release(arena, b.at) /\ live' = live \ {b} /\ freed' = freed \cup {b.at}
        /\ depth' = depth /\ allocs' = allocs /\ vector' = vector
    BY <1>5 DEF HeapInv, Free
  <2>2. ArenaInv(arena', live', freed') /\ arena'.active = arena.active  BY <2>1, ReleaseKeeps
  <2> QED  BY <2>1, <2>2, BlocksKeepHeap
<1>6. ASSUME NEW b \in live, NEW size \in Sizes, Realloc(b, size) PROVE HeapInv'
  <2>1. live \ {b} \subseteq live  OBVIOUS
  <2> QED  BY <1>6, <2>1, AllocKeepsHeap DEF Realloc
<1>7. ASSUME NEW p \in freed, FreeAgain(p) PROVE HeapInv'
  <2>1. UnitAt(arena, p).kind # "header"  BY DEF HeapInv, ArenaInv, Waits
  <2>2. arena' = arena  BY <1>7, <2>1 DEF FreeAgain, Release
  <2>3. live' = live /\ freed' = freed /\ depth' = depth /\ allocs' = allocs /\ vector' = vector
        /\ depth > 0
    BY <1>7 DEF FreeAgain
  <2> QED  BY <2>2, <2>3, BlocksKeepHeap DEF HeapInv
<1>8. ASSUME NEW again \in BOOLEAN, FaultInBlock(again) PROVE HeapInv'  BY <1>8, FaultKeepsHeap
<1>9. CASE UNCHANGED heapVars
  BY <1>9 DEF heapVars, HeapInv, ArenaEndsWithItsBlocks, OuterBuffer
<1> QED  BY <1>1, <1>2, <1>3, <1>4, <1>5, <1>6, <1>7, <1>8, <1>9 DEF HeapNext

\* The guard heap keeps its inductive invariant.
THEOREM HeapInvariant == HeapSpec => []HeapInv
<1> QED  BY HeapInitial, HeapStep, PTL DEF HeapSpec

\* A block that is held is whole and in no list.
LEMMA HeldAreIntact == HeapInv => HeldBlocksAreIntact
<1> SUFFICES ASSUME HeapInv, NEW b \in live
             PROVE  /\ ArenaContains(arena, b.at) /\ UnitAt(arena, b.at) = Header(b.size + 1)
                    /\ \A k \in 1 .. b.size : UnitAt(arena, <<b.at[1], b.at[2] + k>>) = Data(b.tag)
                    /\ \A n \in DOMAIN arena.lists : \A k \in DOMAIN arena.lists[n] :
                         arena.lists[n][k] # b.at
  BY DEF HeldBlocksAreIntact
<1>1. /\ ArenaInv(arena, live, freed) /\ ArenaTypes(arena) /\ IsWhole(arena, b) /\ b \in Held
  BY DEF HeapInv, ArenaInv
<1>2. PICK p \in Places, total \in Nat : p = b.at /\ total = b.size + 1 /\ total > 1
  <2>1. b.at \in Places /\ b.size + 1 \in Nat /\ b.size + 1 > 1  BY <1>1 DEF Held
  <2> QED  BY <2>1, Zenon
<1>3. ArenaContains(arena, p)
  <2>1. PICK s \in 1 .. Len(arena.slabs), u \in Nat : s = p[1] /\ u = p[2]
    BY <1>1, <1>2 DEF IsWhole, Fits, Places
  <2>2. /\ DOMAIN arena.slabs = 1 .. Len(arena.slabs)
        /\ DOMAIN arena.slabs[s] = 1 .. Len(arena.slabs[s]) /\ Len(arena.slabs[s]) \in Nat
    BY <1>1, LenProperties, ElementOfSeq DEF ArenaTypes
  <2>3. u # 0 /\ u + total - 1 <= Len(arena.slabs[s])  BY <1>1, <1>2, <2>1 DEF IsWhole, Fits
  <2>4. u \in 1 .. Len(arena.slabs[s])  BY <1>2, <2>2, <2>3
  <2> QED  BY <2>1, <2>2, <2>4 DEF ArenaContains
<1>4. p \notin freed
  <2>1. SUFFICES ASSUME p \in freed PROVE FALSE  OBVIOUS
  <2>2. Apart(p, total, p, UnitAt(arena, p).v) /\ UnitAt(arena, p).v \in Nat \ {0}
    BY <1>1, <1>2, <2>1 DEF ArenaInv, BlocksAreApart, Waits, Fits
  <2>3. p[2] \in Nat  BY DEF Places
  <2> QED  BY <1>2, <2>2, <2>3 DEF Apart
<1>5. ASSUME NEW n \in DOMAIN arena.lists, NEW k \in DOMAIN arena.lists[n]
      PROVE  arena.lists[n][k] # p
  <2>1. n \in 1 .. LargeUnits /\ arena.lists[n] \in Seq(Places)  BY <1>1 DEF ArenaTypes
  <2>2. k \in 1 .. Len(arena.lists[n])  BY <2>1, LenProperties
  <2>3. arena.lists[n][k] \in freed  BY <1>1, <2>1, <2>2 DEF ArenaInv, ListsHold
  <2> QED  BY <1>4, <2>3
<1> QED  BY <1>1, <1>2, <1>3, <1>5 DEF IsWhole

\* The guard heap is sound.
LEMMA HeapIsSound == HeapInv => GuardHeapIsSound
<1> SUFFICES ASSUME HeapInv PROVE GuardHeapIsSound  OBVIOUS
<1>1. ArenaEndsWithItsBlocks  BY DEF HeapInv
<1>2. OuterDataSurvives  BY DEF HeapInv, OuterBuffer, OuterDataSurvives
<1> QED  BY <1>1, <1>2, HeldAreIntact DEF GuardHeapIsSound
-----------------------------------------------------------------------------
(* The event loop *)

LoopSpec == LoopInit /\ [][LoopNext]_loopVars

LoopEntries == [fd : Fds, want : SUBSET Directions]

\* The tables of the three builds stand for the same watches, each with an interest.
InStep(w, e, k) ==
  /\ w \in Seq(LoopEntries) /\ Len(w) <= LoopFds
  /\ \A i, j \in 1 .. Len(w) : w[i].fd = w[j].fd => i = j
  /\ e \in [Fds -> [watched : BOOLEAN, want : SUBSET Directions]]
  /\ \A fd \in Fds : e[fd].watched <=> \E i \in 1 .. Len(w) : w[i].fd = fd
  /\ \A i \in 1 .. Len(w) : w[i].want # {} /\ e[w[i].fd] = Watched(w[i].want)
  /\ k = {p \in Fds \X Directions : e[p[1]].watched /\ p[2] \in e[p[1]].want}

LoopInv ==
  /\ used \subseteq Loops /\ answers \subseteq {Ok}
  /\ win = [l \in Loops |-> win[l]] /\ epoll = [l \in Loops |-> epoll[l]]
  /\ kqueue = [l \in Loops |-> kqueue[l]]
  /\ \A l \in used \ parted : InStep(win[l], epoll[l], kqueue[l])
  /\ \A l \in Loops \ used : epoll[l] = [fd \in Fds |-> Unwatched] /\ kqueue[l] = {}

\* The search of a table finds the entry of a descriptor, or there is none.
LEMMA LoopEntryIsFound ==
  ASSUME NEW w \in Seq(LoopEntries), NEW fd
  PROVE  \/ EntryOf(w, fd) = 0 /\ \A i \in 1 .. Len(w) : w[i].fd # fd
         \/ EntryOf(w, fd) \in 1 .. Len(w) /\ w[EntryOf(w, fd)].fd = fd
<1> DEFINE I == {i \in 1 .. Len(w) : w[i].fd = fd}
<1>1. EntryOf(w, fd) = IF I # {} THEN Min(I) ELSE 0  BY DEF EntryOf, SelectInSeq
<1>2. I \subseteq Nat /\ Len(w) \in Nat  BY LenProperties
<1>3. CASE I # {}
  <2>1. PICK m \in I : \A k \in I : m <= k  BY <1>2, <1>3, LeastNumber
  <2>2. Min(I) \in I  BY <2>1 DEF Min
  <2> QED  BY <1>1, <1>3, <2>2
<1>4. CASE I = {}  BY <1>1, <1>4
<1> QED  BY <1>3, <1>4

\* Nothing is watched by an empty table.
LEMMA EmptyInStep == InStep(<<>>, [fd \in Fds |-> Unwatched], {})
<1> DEFINE e == [fd \in Fds |-> Unwatched]
<1>1. \A fd \in Fds : e[fd] = Unwatched /\ ~ e[fd].watched  BY DEF Unwatched
<1>2. Unwatched \in [watched : BOOLEAN, want : SUBSET Directions]  BY DEF Unwatched
<1>3. e \in [Fds -> [watched : BOOLEAN, want : SUBSET Directions]]  BY <1>2
<1>4. Len(<<>>) = 0 /\ <<>> \in Seq(LoopEntries) /\ 0 <= LoopFds  BY LoopAssumption
<1> HIDE DEF e
<1>5. {} = {p \in Fds \X Directions : e[p[1]].watched /\ p[2] \in e[p[1]].want}  BY <1>1
<1> QED  BY <1>1, <1>3, <1>4, <1>5 DEF InStep, e

\* The three builds take a change, and stay in step.
Agreed(a, b, c) == InStep(a.table, b.table, c.table) /\ a.rc = Ok /\ b.rc = Ok /\ c.rc = Ok

\* It is seen from their tables.
LEMMA AgreedOnTables ==
  ASSUME NEW w, NEW e, NEW k, InStep(w, e, k)
  PROVE  Agreed(Answer(w, Ok), Answer(e, Ok), Answer(k, Ok))
<1>1. \A t : Answer(t, Ok).table = t /\ Answer(t, Ok).rc = Ok  BY DEF Answer
<1> QED  BY <1>1 DEF Agreed

\* An allowed change leaves the tables in step.  First, an added descriptor.
LEMMA AddStaysInStep ==
  ASSUME NEW w, NEW e, NEW k, InStep(w, e, k), NEW fd \in Fds, NEW want \in SUBSET Directions,
         EntryOf(w, fd) = 0, want # {}, Len(w) < LoopFds
  PROVE  Agreed(WinCtl(w, "add", fd, want), EpollCtl(e, "add", fd, want), KqueueCtl(k, "add", fd, want))
<1> DEFINE x == [fd |-> fd, want |-> want]
           w2 == Append(w, x)
           e2 == [e EXCEPT ![fd] = Watched(want)]
           k2 == k \cup Filters(fd, want)
<1>1. w \in Seq(LoopEntries) /\ Len(w) \in Nat /\ \A i \in 1 .. Len(w) : w[i].fd # fd
  BY LoopEntryIsFound, LenProperties DEF InStep
<1>2. ~ e[fd].watched  BY <1>1 DEF InStep
<1>3. WinCtl(w, "add", fd, want) = Answer(w2, Ok)
  <2>1. ~ (Len(w) >= LoopFds \/ EntryOf(w, fd) > 0)  BY <1>1, LoopAssumption
  <2> QED  BY <2>1 DEF WinCtl
<1>4. EpollCtl(e, "add", fd, want) = Answer(e2, Ok)  BY <1>2 DEF EpollCtl, InStep
<1>5. KqueueCtl(k, "add", fd, want) = Answer(k2, Ok)  BY DEF KqueueCtl
<1>6. x \in LoopEntries /\ x.fd = fd /\ x.want = want  BY DEF LoopEntries
<1> HIDE DEF x
<1>7. /\ w2 \in Seq(LoopEntries) /\ Len(w2) = Len(w) + 1 /\ w2[Len(w) + 1] = x
      /\ \A i \in 1 .. Len(w) : w2[i] = w[i]
  BY <1>1, <1>6, AppendProperties
<1>8. /\ Watched(want).watched /\ Watched(want).want = want
      /\ Watched(want) \in [watched : BOOLEAN, want : SUBSET Directions]
  BY DEF Watched
<1>9. /\ e2 \in [Fds -> [watched : BOOLEAN, want : SUBSET Directions]]
      /\ \A f \in Fds : e2[f] = IF f = fd THEN Watched(want) ELSE e[f]
  BY <1>8 DEF InStep
<1> HIDE DEF w2, e2
<1>10. \A i \in 1 .. Len(w2) : (i = Len(w) + 1 /\ w2[i] = x) \/ (i \in 1 .. Len(w) /\ w2[i] = w[i])
  BY <1>1, <1>7
<1>11. \A i \in 1 .. Len(w) : i \in 1 .. Len(w2) /\ w[i].fd \in Fds
  <2>1. \A i \in 1 .. Len(w) : w[i] \in LoopEntries  BY <1>1, ElementOfSeq
  <2> QED  BY <1>1, <1>7, <2>1 DEF LoopEntries
<1>12. \A i, j \in 1 .. Len(w2) : w2[i].fd = w2[j].fd => i = j
  BY <1>1, <1>6, <1>10 DEF InStep
<1>13. \A f \in Fds : e2[f].watched <=> \E i \in 1 .. Len(w2) : w2[i].fd = f
  <2>1. ASSUME NEW f \in Fds, f # fd PROVE e2[f].watched <=> \E i \in 1 .. Len(w2) : w2[i].fd = f
    <3>1. e2[f].watched <=> \E i \in 1 .. Len(w) : w[i].fd = f  BY <1>9, <2>1 DEF InStep
    <3>2. ASSUME NEW i \in 1 .. Len(w), w[i].fd = f PROVE \E j \in 1 .. Len(w2) : w2[j].fd = f
      <4>1. i \in 1 .. Len(w2) /\ w2[i] = w[i]  BY <1>7, <1>11
      <4> QED  BY <3>2, <4>1
    <3>3. ASSUME NEW i \in 1 .. Len(w2), w2[i].fd = f PROVE \E j \in 1 .. Len(w) : w[j].fd = f
      <4>1. w2[i] # x  BY <1>6, <2>1, <3>3
      <4>2. i \in 1 .. Len(w) /\ w2[i] = w[i]  BY <1>10, <4>1
      <4> QED  BY <3>3, <4>2
    <3> QED  BY <3>1, <3>2, <3>3
  <2>2. e2[fd].watched /\ Len(w) + 1 \in 1 .. Len(w2)  BY <1>1, <1>7, <1>8, <1>9
  <2> QED  BY <1>6, <1>7, <2>1, <2>2
<1>14. \A i \in 1 .. Len(w2) : w2[i].want # {} /\ e2[w2[i].fd] = Watched(w2[i].want)
  BY <1>1, <1>6, <1>9, <1>10, <1>11 DEF InStep
<1>15. k2 = {p \in Fds \X Directions : e2[p[1]].watched /\ p[2] \in e2[p[1]].want}
  <2>1. ASSUME NEW p \in Fds \X Directions
        PROVE  p \in k2 <=> e2[p[1]].watched /\ p[2] \in e2[p[1]].want
    <3>1. p \in k <=> e[p[1]].watched /\ p[2] \in e[p[1]].want  BY DEF InStep
    <3>2. p \in Filters(fd, want) <=> p[1] = fd /\ p[2] \in want  BY DEF Filters
    <3> QED  BY <1>2, <1>8, <1>9, <3>1, <3>2
  <2>2. k2 \subseteq Fds \X Directions  BY DEF InStep, Filters
  <2> HIDE DEF k2
  <2> QED  BY <2>1, <2>2
<1>16. Len(w2) <= LoopFds  BY <1>1, <1>7, LoopAssumption
<1>17. InStep(w2, e2, k2)  BY <1>7, <1>9, <1>12, <1>13, <1>14, <1>15, <1>16 DEF InStep
<1> HIDE DEF k2
<1> QED  BY <1>3, <1>4, <1>5, <1>17, AgreedOnTables

\* A change of an interest.
LEMMA ModStaysInStep ==
  ASSUME NEW w, NEW e, NEW k, InStep(w, e, k), NEW fd \in Fds, NEW want \in SUBSET Directions,
         EntryOf(w, fd) # 0, want # {}
  PROVE  Agreed(WinCtl(w, "mod", fd, want), EpollCtl(e, "mod", fd, want), KqueueCtl(k, "mod", fd, want))
<1> DEFINE i == EntryOf(w, fd)
           w2 == [w EXCEPT ![i].want = want]
           e2 == [e EXCEPT ![fd] = Watched(want)]
           k2 == (k \ Filters(fd, Directions)) \cup Filters(fd, want)
<1>1. w \in Seq(LoopEntries) /\ Len(w) \in Nat /\ i \in 1 .. Len(w) /\ w[i].fd = fd
  BY LoopEntryIsFound, LenProperties DEF InStep
<1>2. e[fd].watched  BY <1>1 DEF InStep
<1>3. WinCtl(w, "mod", fd, want) = Answer(w2, Ok)
  <2>1. i > 0 /\ i # 0  BY <1>1
  <2> QED  BY <2>1 DEF WinCtl
<1>4. EpollCtl(e, "mod", fd, want) = Answer(e2, Ok)  BY <1>2 DEF EpollCtl, InStep
<1>5. KqueueCtl(k, "mod", fd, want) = Answer(k2, Ok)  BY DEF KqueueCtl
<1> DEFINE x == [w[i] EXCEPT !.want = want]
<1>6. w[i] \in LoopEntries  BY <1>1, ElementOfSeq
<1>7. x \in LoopEntries /\ x.fd = fd /\ x.want = want  BY <1>1, <1>6 DEF LoopEntries
<1>8. w2 = [w EXCEPT ![i] = x]  OBVIOUS
<1> HIDE DEF x, w2, i
<1>9. /\ w2 \in Seq(LoopEntries) /\ Len(w2) = Len(w)
      /\ \A j \in 1 .. Len(w) : w2[j] = IF j = i THEN x ELSE w[j]
  BY <1>1, <1>7, <1>8, ExceptSeq
<1>10. \A j \in 1 .. Len(w) : w2[j].fd = w[j].fd /\ w[j].fd \in Fds
  <2>1. \A j \in 1 .. Len(w) : w[j] \in LoopEntries  BY <1>1, ElementOfSeq
  <2> QED  BY <1>1, <1>7, <1>9, <2>1 DEF LoopEntries
<1>11. /\ Watched(want).watched /\ Watched(want).want = want
       /\ Watched(want) \in [watched : BOOLEAN, want : SUBSET Directions]
  BY DEF Watched
<1>12. /\ e2 \in [Fds -> [watched : BOOLEAN, want : SUBSET Directions]]
       /\ \A f \in Fds : e2[f] = IF f = fd THEN Watched(want) ELSE e[f]
  BY <1>11 DEF InStep
<1> HIDE DEF e2
<1>13. \A j \in 1 .. Len(w) : w[j].fd = fd => j = i  BY <1>1 DEF InStep
<1>14. \A f \in Fds : e2[f].watched <=> \E j \in 1 .. Len(w2) : w2[j].fd = f
  <2>1. \A f \in Fds : e2[f].watched <=> e[f].watched  BY <1>2, <1>11, <1>12
  <2> QED  BY <1>9, <1>10, <2>1 DEF InStep
<1>15. \A j \in 1 .. Len(w2) : w2[j].want # {} /\ e2[w2[j].fd] = Watched(w2[j].want)
  BY <1>1, <1>7, <1>9, <1>10, <1>12, <1>13 DEF InStep
<1>16. k2 = {p \in Fds \X Directions : e2[p[1]].watched /\ p[2] \in e2[p[1]].want}
  <2>1. ASSUME NEW p \in Fds \X Directions
        PROVE  p \in k2 <=> e2[p[1]].watched /\ p[2] \in e2[p[1]].want
    <3>1. p \in k <=> e[p[1]].watched /\ p[2] \in e[p[1]].want  BY DEF InStep
    <3>2. /\ p \in Filters(fd, want) <=> p[1] = fd /\ p[2] \in want
          /\ p \in Filters(fd, Directions) <=> p[1] = fd
      BY DEF Filters
    <3> QED  BY <1>2, <1>11, <1>12, <3>1, <3>2
  <2>2. k2 \subseteq Fds \X Directions  BY DEF InStep, Filters
  <2> HIDE DEF k2
  <2> QED  BY <2>1, <2>2
<1>17. InStep(w2, e2, k2)  BY <1>9, <1>10, <1>12, <1>14, <1>15, <1>16 DEF InStep
<1> HIDE DEF k2
<1> QED  BY <1>3, <1>4, <1>5, <1>17, AgreedOnTables

\* A removal: the last entry goes where the removed one was.
LEMMA DelStaysInStep ==
  ASSUME NEW w, NEW e, NEW k, InStep(w, e, k), NEW fd \in Fds, NEW want \in SUBSET Directions,
         EntryOf(w, fd) # 0
  PROVE  Agreed(WinCtl(w, "del", fd, want), EpollCtl(e, "del", fd, want), KqueueCtl(k, "del", fd, want))
<1> DEFINE i == EntryOf(w, fd)
           n == Len(w)
           w1 == [w EXCEPT ![i] = Last(w)]
           w2 == Front(w1)
           e2 == [e EXCEPT ![fd] = Unwatched]
           k2 == k \ Filters(fd, Directions)
<1>1. w \in Seq(LoopEntries) /\ n \in Nat /\ i \in 1 .. n /\ w[i].fd = fd
  BY LoopEntryIsFound, LenProperties DEF InStep
<1>2. e[fd].watched  BY <1>1 DEF InStep
<1>3. WinCtl(w, "del", fd, want) = Answer(w2, Ok)
  <2>1. i > 0 /\ i # 0  BY <1>1
  <2> QED  BY <2>1 DEF WinCtl
<1>4. EpollCtl(e, "del", fd, want) = Answer(e2, Ok)  BY <1>2 DEF EpollCtl, InStep
<1>5. KqueueCtl(k, "del", fd, want) = Answer(k2, Ok)
  <2>1. KqueueCtl(k, "del", fd, want) = Answer(k2 \cup {}, Ok)  BY DEF KqueueCtl
  <2>2. k2 \cup {} = k2  OBVIOUS
  <2> QED  BY <2>1, <2>2
<1> HIDE DEF i
<1>6. w # <<>> /\ n \in 1 .. n /\ Last(w) = w[n] /\ Last(w) \in LoopEntries
  BY <1>1, LastAndFront
<1>7. /\ w1 \in Seq(LoopEntries) /\ Len(w1) = n
      /\ \A j \in 1 .. n : w1[j] = IF j = i THEN w[n] ELSE w[j]
  BY <1>1, <1>6, ExceptSeq
<1> HIDE DEF w1, n
<1>8. /\ w2 \in Seq(LoopEntries) /\ Len(w2) = n - 1
      /\ \A j \in 1 .. n - 1 : w2[j] = IF j = i THEN w[n] ELSE w[j]
  <2>1. w1 # <<>>  BY <1>1, <1>7
  <2>2. w2 \in Seq(LoopEntries) /\ Len(w2) = n - 1 /\ \A j \in 1 .. n - 1 : w2[j] = w1[j]
    BY <1>7, <2>1, LastAndFront
  <2> QED  BY <1>1, <1>7, <2>2
<1> HIDE DEF w2
<1> DEFINE o == [j \in 1 .. n - 1 |-> IF j = i THEN n ELSE j]
<1>9. \A j \in 1 .. n - 1 : o[j] \in 1 .. n /\ o[j] # i /\ w2[j] = w[o[j]]  BY <1>1, <1>6, <1>8
<1>10. \A j, l \in 1 .. n - 1 : o[j] = o[l] => j = l  BY <1>1
<1>11. \A l \in 1 .. n : l # i => \E j \in 1 .. n - 1 : o[j] = l
  <2>1. ASSUME NEW l \in 1 .. n, l # i PROVE \E j \in 1 .. n - 1 : o[j] = l
    <3>1. CASE l = n  BY <1>1, <2>1, <3>1
    <3>2. CASE l # n  BY <1>1, <2>1, <3>2
    <3> QED  BY <3>1, <3>2
  <2> QED  BY <2>1
<1> HIDE DEF o
<1>12. \A j \in 1 .. n : w[j].fd \in Fds
  <2>1. \A j \in 1 .. n : w[j] \in LoopEntries  BY <1>1, ElementOfSeq DEF n
  <2> QED  BY <2>1 DEF LoopEntries
<1>13. /\ \A j, l \in 1 .. n : w[j].fd = w[l].fd => j = l
       /\ \A f \in Fds : e[f].watched <=> \E j \in 1 .. n : w[j].fd = f
       /\ \A j \in 1 .. n : w[j].want # {} /\ e[w[j].fd] = Watched(w[j].want)
       /\ n <= LoopFds /\ e \in [Fds -> [watched : BOOLEAN, want : SUBSET Directions]]
  BY DEF InStep, n
<1>14. Unwatched \in [watched : BOOLEAN, want : SUBSET Directions] /\ ~ Unwatched.watched  BY DEF Unwatched
<1>15. /\ e2 \in [Fds -> [watched : BOOLEAN, want : SUBSET Directions]]
       /\ \A f \in Fds : e2[f] = IF f = fd THEN Unwatched ELSE e[f]
  BY <1>13, <1>14
<1> HIDE DEF e2
<1>16. \A j, l \in 1 .. Len(w2) : w2[j].fd = w2[l].fd => j = l  BY <1>8, <1>9, <1>10, <1>13
<1>17. \A j \in 1 .. Len(w2) : w2[j].fd # fd  BY <1>1, <1>8, <1>9, <1>13
<1>18. \A f \in Fds : e2[f].watched <=> \E j \in 1 .. Len(w2) : w2[j].fd = f
  <2>1. ASSUME NEW f \in Fds, f # fd PROVE e[f].watched <=> \E j \in 1 .. Len(w2) : w2[j].fd = f
    <3>1. ASSUME e[f].watched PROVE \E j \in 1 .. Len(w2) : w2[j].fd = f
      <4>1. PICK l \in 1 .. n : w[l].fd = f  BY <1>13, <3>1
      <4>2. l # i  BY <1>1, <2>1, <4>1
      <4>3. PICK j \in 1 .. n - 1 : o[j] = l  BY <1>11, <4>2
      <4> QED  BY <1>8, <1>9, <4>1, <4>3
    <3>2. ASSUME NEW j \in 1 .. Len(w2), w2[j].fd = f PROVE e[f].watched
      <4>1. o[j] \in 1 .. n /\ w[o[j]].fd = f  BY <1>8, <1>9, <3>2
      <4> QED  BY <1>13, <4>1
    <3> QED  BY <3>1, <3>2
  <2> QED  BY <1>14, <1>15, <1>17, <2>1
<1>19. \A j \in 1 .. Len(w2) : w2[j].want # {} /\ e2[w2[j].fd] = Watched(w2[j].want)
  BY <1>8, <1>9, <1>12, <1>13, <1>15, <1>17
<1>20. k2 = {p \in Fds \X Directions : e2[p[1]].watched /\ p[2] \in e2[p[1]].want}
  <2>1. ASSUME NEW p \in Fds \X Directions
        PROVE  p \in k2 <=> e2[p[1]].watched /\ p[2] \in e2[p[1]].want
    <3>1. p \in k <=> e[p[1]].watched /\ p[2] \in e[p[1]].want  BY DEF InStep
    <3>2. p \in Filters(fd, Directions) <=> p[1] = fd  BY DEF Filters
    <3> QED  BY <1>14, <1>15, <3>1, <3>2
  <2>2. k2 \subseteq Fds \X Directions  BY DEF InStep
  <2> HIDE DEF k2
  <2> QED  BY <2>1, <2>2
<1>21. Len(w2) <= LoopFds  BY <1>1, <1>8, <1>13, LoopAssumption
<1>22. InStep(w2, e2, k2)  BY <1>8, <1>15, <1>16, <1>18, <1>19, <1>20, <1>21 DEF InStep
<1> HIDE DEF k2
<1> QED  BY <1>3, <1>4, <1>5, <1>22, AgreedOnTables

\* What the bits of an event say.
LEMMA FlagBits ==
  ASSUME NEW s \in SUBSET Directions, NEW h \in BOOLEAN
  PROVE  /\ (Flags(s, h) \div 1) % 2 = 1 <=> "read" \in s
         /\ (Flags(s, h) \div 2) % 2 = 1 <=> "write" \in s
         /\ Flags(s, h) >= 4 <=> h
         /\ Flags(s, h) = 0 <=> s = {} /\ ~ h
<1>1. s = {} <=> "read" \notin s /\ "write" \notin s  BY DEF Directions
<1>2. CASE "read" \in s /\ "write" \in s  BY <1>1, <1>2 DEF Flags
<1>3. CASE "read" \in s /\ "write" \notin s  BY <1>1, <1>3 DEF Flags
<1>4. CASE "read" \notin s /\ "write" \in s  BY <1>1, <1>4 DEF Flags
<1>5. CASE "read" \notin s /\ "write" \notin s  BY <1>1, <1>5 DEF Flags
<1> QED  BY <1>2, <1>3, <1>4, <1>5

\* What an event tells within an interest, of which it has the directions in c.
Left(fd, h, c) == [fd |-> fd, hangup |-> h, ways |-> c]

\* The flags beyond the interest go.
LEMMA WithinInterest ==
  ASSUME NEW fd, NEW s \in SUBSET Directions, NEW h \in BOOLEAN, NEW want \in SUBSET Directions
  PROVE  Gist([fd |-> fd, flags |-> Flags(s, h)], want) = Left(fd, h, s \cap want)
<1> DEFINE r == [fd |-> fd, flags |-> Flags(s, h)]
<1>0. r.fd = fd /\ r.flags = Flags(s, h)  OBVIOUS
<1> HIDE DEF r
<1> DEFINE told == {d \in want : (r.flags \div (IF d = "read" THEN 1 ELSE 2)) % 2 = 1}
<1>1. told = s \cap want
  <2>1. ASSUME NEW d \in want
        PROVE  (r.flags \div (IF d = "read" THEN 1 ELSE 2)) % 2 = 1 <=> d \in s
    <3>1. d = "read" \/ d = "write"  BY DEF Directions
    <3>2. CASE d = "read"
      <4>1. (IF d = "read" THEN 1 ELSE 2) = 1  BY <3>2
      <4> QED  BY <1>0, <3>2, <4>1, FlagBits
    <3>3. CASE d = "write"
      <4>1. (IF d = "read" THEN 1 ELSE 2) = 2  BY <3>3
      <4> QED  BY <1>0, <3>3, <4>1, FlagBits
    <3> QED  BY <3>1, <3>2, <3>3
  <2> QED  BY <2>1
<1> HIDE DEF told
<1>2. (r.flags >= 4) = h
  <2>1. r.flags >= 4 <=> h  BY <1>0, FlagBits
  <2> QED  BY <2>1
<1>3. Gist(r, want) = [fd |-> r.fd, hangup |-> (r.flags >= 4), ways |-> told]
  BY DEF Gist, told
<1> QED  BY <1>0, <1>1, <1>2, <1>3 DEF Left, r

\* A sequence without repetitions is as long as the set of its elements is large.
LEMMA LengthOfDistinct ==
  ASSUME NEW S, NEW s \in Seq(S), \A i, j \in 1 .. Len(s) : s[i] = s[j] => i = j
  PROVE  Cardinality(ToSet(s)) = Len(s)
<1>1. s \in [1 .. Len(s) -> ToSet(s)] /\ Len(s) \in Nat /\ DOMAIN s = 1 .. Len(s)
  BY LenProperties DEF ToSet
<1>2. ToSet(s) = {s[i] : i \in 1 .. Len(s)}  BY <1>1 DEF ToSet
<1>3. s \in Bijection(1 .. Len(s), ToSet(s))
  BY <1>1, <1>2 DEF Bijection, Injection, Surjection, IsInjective
<1>4. ExistsBijection(1 .. Len(s), ToSet(s))  BY <1>3 DEF ExistsBijection
<1> QED  BY <1>1, <1>4, FS_CountingElements

\* What the wait of each build tells of a descriptor.
Event(e, ready, hangup, fd) ==
  [fd |-> fd, flags |-> Flags(AtHangup(ready[fd] \cap e[fd].want, hangup[fd]), hangup[fd])]

\* What epoll can report.
LEMMA EventsOfEpoll ==
  ASSUME NEW e, NEW ready, NEW hangup
  PROVE  /\ EpollEvents(e, ready, hangup)
              = {r \in {Event(e, ready, hangup, fd) : fd \in {f \in Fds : e[f].watched}} : r.flags # 0}
         /\ IsFiniteSet(EpollEvents(e, ready, hangup))
<1> DEFINE given == [fd \in Fds |-> Event(e, ready, hangup, fd)]
           E == {given[fd] : fd \in Fds}
<1>1. EpollEvents(e, ready, hangup)
        = {r \in {Event(e, ready, hangup, fd) : fd \in {f \in Fds : e[f].watched}} : r.flags # 0}
  BY DEF EpollEvents, Event
<1>2. given \in Surjection(Fds, E)  BY DEF Surjection
<1>3. IsFiniteSet(E)  BY <1>2, FS_Surjection, LoopAssumption
<1>4. EpollEvents(e, ready, hangup) \in SUBSET E  BY <1>1
<1> QED  BY <1>1, <1>3, <1>4, FS_Subset

\* The Windows wait reports entries with an given, each once, as many as there is room
\* for.
LEMMA WinReports ==
  ASSUME NEW w, NEW e, NEW k, InStep(w, e, k), NEW ready, NEW hangup, NEW max \in Nat
  PROVE  LET found == WinWait(w, ready, hangup, max)
         IN  /\ Len(found) = Cardinality(ToSet(found)) /\ Cardinality(ToSet(found)) <= max
             /\ ToSet(found) \subseteq EpollEvents(e, ready, hangup)
             /\ max # 0 /\ EpollEvents(e, ready, hangup) # {} => ToSet(found) # {}
             /\ Len(w) <= max => ToSet(found) = EpollEvents(e, ready, hangup)
<1> DEFINE entry(x) == [fd |-> x.fd, flags |-> Flags(AtHangup(ready[x.fd] \cap x.want, hangup[x.fd]),
                                                     hangup[x.fd])]
           polled == [i \in DOMAIN w |-> entry(w[i])]
           some == {i \in DOMAIN w : polled[i].flags # 0}
           all == Selected(polled, some)
           m == IF max < Len(all) THEN max ELSE Len(all)
           found == SubSeq(all, 1, m)
           events == EpollEvents(e, ready, hangup)
           E == {Event(e, ready, hangup, fd) : fd \in Fds}
<1>1. WinWait(w, ready, hangup, max) = found  BY DEF WinWait
<1>2. w \in Seq(LoopEntries) /\ Len(w) \in Nat /\ DOMAIN w = 1 .. Len(w) /\ Len(w) <= LoopFds
      /\ \A i \in 1 .. Len(w) : w[i].fd \in Fds
  <2>1. \A i \in 1 .. Len(w) : w[i] \in LoopEntries  BY ElementOfSeq DEF InStep
  <2> QED  BY <2>1, LenProperties DEF InStep, LoopEntries
<1>3. \A i \in 1 .. Len(w) : polled[i] = Event(e, ready, hangup, w[i].fd)
  <2>1. \A i \in 1 .. Len(w) : e[w[i].fd].want = w[i].want
    <3>1. \A i \in 1 .. Len(w) : e[w[i].fd] = Watched(w[i].want)  BY DEF InStep
    <3>2. \A x : Watched(x).want = x  BY DEF Watched
    <3> QED  BY <3>1, <3>2
  <2> QED  BY <1>2, <2>1 DEF Event
<1>4. polled \in Seq(E) /\ Len(polled) = Len(w)
  <2>1. \A i \in 1 .. Len(w) : polled[i] \in E  BY <1>2, <1>3
  <2>2. polled = [i \in 1 .. Len(w) |-> polled[i]]  BY <1>2
  <2> HIDE DEF polled, E
  <2>3. [i \in 1 .. Len(w) |-> polled[i]] \in Seq(E) /\ Len([i \in 1 .. Len(w) |-> polled[i]]) = Len(w)
    BY <1>2, <2>1
  <2> QED  BY <2>2, <2>3
<1>5. some = {i \in 1 .. Len(w) : polled[i].flags # 0}  BY <1>2
<1> HIDE DEF polled, some, E
<1>6. all \in Seq(E) /\ Len(all) <= Len(w) /\ Len(all) \in Nat
  BY <1>4, SelectionKeeps, LenProperties
<1>7. PICK at \in [1 .. Len(all) -> 1 .. Len(w)] :
        /\ \A i \in 1 .. Len(all) : at[i] \in some /\ all[i] = polled[at[i]]
        /\ \A i, j \in 1 .. Len(all) : i < j => at[i] < at[j]
        /\ \A l \in 1 .. Len(w) : l \in some => \E i \in 1 .. Len(all) : at[i] = l
  BY <1>4, SelectionKeeps
<1> HIDE DEF all
<1>8. /\ found \in Seq(E) /\ Len(found) = m /\ m \in Nat /\ m <= Len(all) /\ m <= max
      /\ \A i \in 1 .. m : found[i] = all[i]
  <2>1. m \in Nat /\ m <= Len(all) /\ m <= max  BY <1>6
  <2>2. \A i \in 1 .. m : all[i] \in E  BY <1>6, <2>1, ElementOfSeq
  <2> HIDE DEF m
  <2>3. /\ SubSeq(all, 1, m) \in Seq(E)
        /\ Len(SubSeq(all, 1, m)) = IF 1 <= m THEN m - 1 + 1 ELSE 0
        /\ \A i \in 1 .. m - 1 + 1 : SubSeq(all, 1, m)[i] = all[1 + i - 1]
    BY <1>6, <2>1, <2>2, SubSeqProperties
  <2>4. \A n \in Nat : (IF 1 <= n THEN n - 1 + 1 ELSE 0) = n /\ n - 1 + 1 = n  OBVIOUS
  <2>5. \A i \in 1 .. m : 1 + i - 1 = i  BY <2>1
  <2> QED  BY <1>6, <2>1, <2>3, <2>4, <2>5
<1> HIDE DEF found
<1>9. \A i \in 1 .. Len(found) : /\ found[i] = Event(e, ready, hangup, w[at[i]].fd)
                                 /\ at[i] \in 1 .. Len(w) /\ i \in 1 .. Len(all)
  <2>1. \A i \in 1 .. Len(found) : i \in 1 .. Len(all)  BY <1>6, <1>8
  <2> QED  BY <1>3, <1>7, <1>8, <2>1
<1>10. Cardinality(ToSet(found)) = Len(found)
  <2>1. ASSUME NEW i \in 1 .. Len(found), NEW j \in 1 .. Len(found), found[i] = found[j] PROVE i = j
    <3>1. w[at[i]].fd = w[at[j]].fd
      <4>1. \A fd : Event(e, ready, hangup, fd).fd = fd  BY DEF Event
      <4>2. Event(e, ready, hangup, w[at[i]].fd) = Event(e, ready, hangup, w[at[j]].fd)  BY <1>9, <2>1
      <4> QED  BY <4>1, <4>2
    <3>2. at[i] = at[j] /\ at[i] \in Nat /\ at[j] \in Nat  BY <1>9, <3>1 DEF InStep
    <3>3. ~ (i < j) /\ ~ (j < i)  BY <1>7, <1>9, <3>2
    <3> QED  BY <1>6, <1>8, <3>3
  <2> QED  BY <1>8, <2>1, LengthOfDistinct
<1>11. ToSet(found) = {found[i] : i \in 1 .. Len(found)}  BY <1>8, LenProperties DEF ToSet
<1>12. events = {r \in {Event(e, ready, hangup, fd) : fd \in {f \in Fds : e[f].watched}} : r.flags # 0}
  BY EventsOfEpoll
<1> HIDE DEF events, m
<1>13. ASSUME NEW i \in 1 .. Len(found) PROVE found[i] \in events
  <2>1. w[at[i]].fd \in Fds /\ e[w[at[i]].fd].watched  BY <1>2, <1>9 DEF InStep
  <2>2. found[i].flags # 0
    <3>1. found[i] = all[i] /\ i \in 1 .. Len(all)  BY <1>8, <1>9
    <3>2. all[i] = polled[at[i]] /\ at[i] \in some  BY <1>7, <3>1
    <3> QED  BY <1>5, <3>1, <3>2
  <2> QED  BY <1>9, <1>12, <2>1, <2>2
<1>14. ASSUME NEW r \in events PROVE \E i \in 1 .. Len(all) : all[i] = r
  <2>1. PICK fd \in Fds : e[fd].watched /\ r = Event(e, ready, hangup, fd) /\ r.flags # 0  BY <1>12
  <2>2. PICK l \in 1 .. Len(w) : w[l].fd = fd  BY <2>1 DEF InStep
  <2>3. l \in some  BY <1>3, <1>5, <2>1, <2>2
  <2>4. PICK i \in 1 .. Len(all) : at[i] = l  BY <1>7, <2>3
  <2> QED  BY <1>3, <1>7, <2>1, <2>2, <2>4
<1>15. max # 0 /\ events # {} => ToSet(found) # {}
  <2> SUFFICES ASSUME max # 0, events # {} PROVE 1 \in 1 .. Len(found)  BY <1>11
  <2>1. 1 <= Len(all)  BY <1>6, <1>14
  <2> QED  BY <1>6, <1>8, <2>1 DEF m
<1>16. Len(w) <= max => ToSet(found) = events
  <2> SUFFICES ASSUME Len(w) <= max PROVE \A r \in events : \E i \in 1 .. Len(found) : found[i] = r
    BY <1>11, <1>13
  <2>1. Len(found) = Len(all)  BY <1>2, <1>6, <1>8 DEF m
  <2> QED  BY <1>8, <1>14, <2>1
<1>17. Len(found) <= max /\ ToSet(found) \subseteq events  BY <1>8, <1>11, <1>13
<1> QED  BY <1>1, <1>10, <1>15, <1>16, <1>17 DEF events

\* What events tell, each in terms of its descriptor's interest.
InTerms(rs, e) == {Gist(r, e[r.fd].want) : r \in rs}

\* A report is one of some descriptors, within what there is to tell of them.
GoodReport(rs, e, all, max) ==
  /\ Cardinality(rs) <= max /\ (all # {} => rs # {})
  /\ \A r, s \in rs : r.fd = s.fd => r = s
  /\ \A r \in InTerms(rs, e) : \E s \in all :
       r.fd = s.fd /\ r.hangup = s.hangup /\ r.ways \subseteq s.ways

\* Some of epoll's events are a report.
LEMMA PartsOfEvents ==
  ASSUME NEW e, NEW ready, NEW hangup, NEW max, NEW rs,
         rs \subseteq EpollEvents(e, ready, hangup), Cardinality(rs) <= max,
         EpollEvents(e, ready, hangup) # {} => rs # {}
  PROVE  LET all == InTerms(EpollEvents(e, ready, hangup), e)
         IN  GoodReport(rs, e, all, max) /\ InTerms(rs, e) \subseteq all
<1> DEFINE events == EpollEvents(e, ready, hangup)
           all == InTerms(events, e)
<1>1. \A r \in events : \E fd : r = Event(e, ready, hangup, fd)  BY EventsOfEpoll
<1>2. \A fd : Event(e, ready, hangup, fd).fd = fd  BY DEF Event
<1> HIDE DEF events
<1>3. rs \subseteq events  BY DEF events
<1>4. ASSUME NEW r \in rs, NEW s \in rs, r.fd = s.fd PROVE r = s
  <2>1. PICK f : r = Event(e, ready, hangup, f)  BY <1>1, <1>3
  <2>2. PICK g : s = Event(e, ready, hangup, g)  BY <1>1, <1>3
  <2> QED  BY <1>2, <1>4, <2>1, <2>2
<1>5. InTerms(rs, e) \subseteq all  BY <1>3 DEF InTerms
<1>6. all # {} => rs # {}  BY DEF InTerms, events
<1> HIDE DEF all
<1>7. GoodReport(rs, e, all, max)  BY <1>4, <1>5, <1>6 DEF GoodReport
<1> QED  BY <1>5, <1>7 DEF all, events

\* What a system that returns at most n events may return.
LEMMA ChosenEvents ==
  ASSUME NEW S, IsFiniteSet(S), NEW n \in Nat, NEW T \in AtMost(n, S)
  PROVE  /\ T \subseteq S /\ IsFiniteSet(T) /\ Cardinality(T) \in Nat /\ Cardinality(T) <= n
         /\ n # 0 /\ S # {} => T # {}
         /\ Cardinality(S) <= n => T = S
<1> DEFINE c == IF n < Cardinality(S) THEN n ELSE Cardinality(S)
<1>1. T \in SUBSET S /\ Cardinality(T) = c  BY DEF AtMost, kSubset
<1>2. Cardinality(S) \in Nat  BY FS_CardinalityType
<1>3. IsFiniteSet(T)  BY <1>1, FS_Subset
<1>4. n # 0 /\ S # {} => T # {}
  <2>1. S # {} => Cardinality(S) # 0  BY FS_EmptySet
  <2>2. T = {} => Cardinality(T) = 0  BY FS_EmptySet
  <2> QED  BY <1>1, <1>2, <2>1, <2>2
<1>5. ASSUME Cardinality(S) <= n PROVE T = S
  <2>1. Cardinality(T) = Cardinality(S)  BY <1>1, <1>2, <1>5
  <2> QED  BY <1>1, <2>1, FS_Subset
<1> QED  BY <1>1, <1>2, <1>3, <1>4, <1>5

\* The room of a wait is for one event at least, and for no more than was asked for.
LEMMA RoomIsLess == ASSUME NEW max \in Nat \ {0} PROVE Room(max) \in Nat \ {0} /\ Room(max) <= max
BY LoopAssumption DEF Room

\* What a wait of epoll gives is a report, and all there is if there is room.
LEMMA EpollReports ==
  ASSUME NEW w, NEW e, NEW k, InStep(w, e, k), NEW ready, NEW hangup, NEW max \in Nat \ {0},
         NEW rs \in EpollWait(e, ready, hangup, max)
  PROVE  LET all == InTerms(EpollEvents(e, ready, hangup), e)
         IN  /\ GoodReport(rs, e, all, max) /\ InTerms(rs, e) \subseteq all
             /\ Len(w) <= Room(max) => InTerms(rs, e) = all
<1> DEFINE events == EpollEvents(e, ready, hangup)
<1>1. Room(max) \in Nat \ {0} /\ Room(max) <= max  BY RoomIsLess
<1>2. IsFiniteSet(events) /\ rs \in AtMost(Room(max), events)  BY EventsOfEpoll DEF EpollWait
<1>3. Len(w) \in Nat  BY LenProperties DEF InStep
<1>4. Cardinality(events) <= Len(w) /\ Cardinality(events) \in Nat
  <2>1. ToSet(WinWait(w, ready, hangup, Len(w))) = events
        /\ Cardinality(ToSet(WinWait(w, ready, hangup, Len(w)))) <= Len(w)
    BY <1>3, WinReports
  <2> QED  BY <1>2, <2>1, FS_CardinalityType
<1> HIDE DEF events
<1>5. /\ rs \subseteq events /\ Cardinality(rs) \in Nat /\ Cardinality(rs) <= Room(max)
      /\ events # {} => rs # {}
      /\ Cardinality(events) <= Room(max) => rs = events
  BY <1>1, <1>2, ChosenEvents
<1>6. Cardinality(rs) <= max  BY <1>1, <1>5
<1>7. Len(w) <= Room(max) => rs = events  BY <1>1, <1>3, <1>4, <1>5
<1> QED  BY <1>5, <1>6, <1>7, PartsOfEvents DEF events

\* The directions that fire of a descriptor.
FiredOf(k, ready, hangup, fd) == {d \in Directions : <<fd, d>> \in KqueueEvents(k, ready, hangup)}

\* What fires of a descriptor is what epoll has to tell of it; a part of it tells that.
GistAlike(e, ready, hangup, fd, fired) ==
  /\ Event(e, ready, hangup, fd).flags # 0 <=> fired # {}
  /\ Gist(Event(e, ready, hangup, fd), e[fd].want) = Left(fd, hangup[fd], fired)
  /\ \A some \in SUBSET fired :
       Gist([fd |-> fd, flags |-> Flags(some, hangup[fd])], e[fd].want) = Left(fd, hangup[fd], some)

\* Of the directions that fire of a descriptor kqueue tells what epoll tells.
LEMMA EventOfFilters ==
  ASSUME NEW w, NEW e, NEW k, InStep(w, e, k),
         NEW ready \in [Fds -> SUBSET Directions], NEW hangup \in [Fds -> BOOLEAN],
         NEW fd \in Fds, e[fd].watched
  PROVE  GistAlike(e, ready, hangup, fd, FiredOf(k, ready, hangup, fd))
<1> DEFINE fired == FiredOf(k, ready, hangup, fd)
           given == Event(e, ready, hangup, fd)
           want == e[fd].want
           h == hangup[fd]
           s == AtHangup(ready[fd] \cap want, h)
<1>1. want \in SUBSET Directions /\ want # {} /\ h \in BOOLEAN /\ ready[fd] \in SUBSET Directions
  <2>1. PICK i \in 1 .. Len(w) : w[i].fd = fd  BY DEF InStep
  <2>2. e[fd] = Watched(w[i].want) /\ w[i].want # {}  BY <2>1 DEF InStep
  <2>3. want = w[i].want  BY <2>2 DEF Watched
  <2> QED  BY <2>2, <2>3 DEF InStep
<1>2. s \in SUBSET Directions /\ (s = {} /\ ~ h <=> ready[fd] \cap want = {} /\ ~ h)
  BY <1>1 DEF AtHangup
<1>3. fired = IF h THEN want ELSE ready[fd] \cap want
  <2>1. \A d \in Directions : <<fd, d>> \in k <=> d \in want  BY DEF InStep
  <2>2. fired = {d \in Directions : <<fd, d>> \in k /\ (d \in ready[fd] \/ h)}  BY DEF KqueueEvents, FiredOf
  <2> HIDE DEF fired
  <2> QED  BY <1>1, <2>1, <2>2
<1>4. given = [fd |-> fd, flags |-> Flags(s, h)]  BY DEF Event
<1> HIDE DEF s, h, want, given, fired
<1>5. s \cap want = fired
  <2>1. CASE h = TRUE  BY <1>1, <1>3, <2>1 DEF AtHangup, s
  <2>2. CASE h = FALSE  BY <1>1, <1>3, <2>2 DEF AtHangup, s
  <2> QED  BY <1>1, <2>1, <2>2
<1>6. given.flags # 0 <=> fired # {}
  <2>1. Flags(s, h) = 0 <=> s = {} /\ ~ h  BY <1>1, <1>2, FlagBits
  <2>2. given.flags = Flags(s, h)  BY <1>4
  <2> QED  BY <1>1, <1>2, <1>3, <2>1, <2>2
<1>7. Gist(given, want) = Left(fd, h, fired)
  <2>1. Gist([fd |-> fd, flags |-> Flags(s, h)], want) = Left(fd, h, s \cap want)
    BY <1>1, <1>2, WithinInterest
  <2> QED  BY <1>4, <1>5, <2>1
<1>8. ASSUME NEW some \in SUBSET fired
      PROVE  Gist([fd |-> fd, flags |-> Flags(some, h)], want) = Left(fd, h, some)
  <2>1. some \in SUBSET Directions /\ some \cap want = some  BY <1>1, <1>3
  <2> QED  BY <1>1, <2>1, WithinInterest
<1> QED  BY <1>6, <1>7, <1>8 DEF given, h, want, fired, GistAlike

\* The filters that came, put together, are a report, and all there is if there was
\* room for every filter.
LEMMA KqueueReports ==
  ASSUME NEW w, NEW e, NEW k, InStep(w, e, k),
         NEW ready \in [Fds -> SUBSET Directions], NEW hangup \in [Fds -> BOOLEAN],
         NEW max \in Nat \ {0}, NEW rs \in KqueueWait(k, ready, hangup, max)
  PROVE  LET all == InTerms(EpollEvents(e, ready, hangup), e)
         IN  /\ GoodReport(rs, e, all, max)
             /\ Cardinality(k) <= Room(max) => InTerms(rs, e) = all
<1> DEFINE events == EpollEvents(e, ready, hangup)
           all == InTerms(events, e)
           filters == KqueueEvents(k, ready, hangup)
           fired(fd) == {d \in Directions : <<fd, d>> \in filters}
           given(fd) == Event(e, ready, hangup, fd)
<1>1. PICK came \in AtMost(Room(max), filters) :
        rs = {[fd |-> fd, flags |-> Flags({d \in Directions : <<fd, d>> \in came}, hangup[fd])]
                : fd \in {p[1] : p \in came}}
  BY DEF KqueueWait
<1> DEFINE some(fd) == {d \in Directions : <<fd, d>> \in came}
           entry(fd) == [fd |-> fd, flags |-> Flags(some(fd), hangup[fd])]
           G == {p[1] : p \in came}
<1>2. rs = {entry(fd) : fd \in G}  BY <1>1
<1>3. k \subseteq Fds \X Directions /\ filters \subseteq k  BY DEF InStep, KqueueEvents
<1>4. IsFiniteSet(k) /\ IsFiniteSet(filters) /\ Cardinality(filters) <= Cardinality(k)
      /\ Cardinality(k) \in Nat /\ Cardinality(filters) \in Nat
  <2>1. IsFiniteSet(Directions)
    <3>1. IsFiniteSet({"read"} \cup {"write"})  BY FS_Singleton, FS_Union
    <3>2. Directions = {"read"} \cup {"write"}  BY DEF Directions
    <3> QED  BY <3>1, <3>2
  <2>2. IsFiniteSet(Fds \X Directions)  BY <2>1, FS_Product, LoopAssumption
  <2>3. IsFiniteSet(k)  BY <1>3, <2>2, FS_Subset
  <2>4. IsFiniteSet(filters) /\ Cardinality(filters) <= Cardinality(k)  BY <1>3, <2>3, FS_Subset
  <2> QED  BY <2>3, <2>4, FS_CardinalityType
<1>5. Room(max) \in Nat \ {0} /\ Room(max) <= max  BY RoomIsLess
<1> HIDE DEF filters
<1>6. /\ came \subseteq filters /\ IsFiniteSet(came) /\ Cardinality(came) \in Nat
      /\ Cardinality(came) <= Room(max) /\ (filters # {} => came # {})
      /\ Cardinality(filters) <= Room(max) => came = filters
  BY <1>4, <1>5, ChosenEvents
<1>7. \A p \in filters : p = <<p[1], p[2]>> /\ p[1] \in Fds /\ p[2] \in Directions /\ e[p[1]].watched
  BY <1>3 DEF InStep
<1>8. \A fd \in G : /\ fd \in Fds /\ e[fd].watched
                     /\ some(fd) \in SUBSET fired(fd) /\ some(fd) # {}
  <2> SUFFICES ASSUME NEW p \in came
      PROVE  /\ p[1] \in Fds /\ e[p[1]].watched
             /\ some(p[1]) \in SUBSET fired(p[1]) /\ some(p[1]) # {}
    OBVIOUS
  <2>1. p \in filters /\ p = <<p[1], p[2]>> /\ p[2] \in Directions  BY <1>6, <1>7
  <2>2. p[2] \in some(p[1])  BY <2>1
  <2> QED  BY <1>6, <1>7, <2>1, <2>2
<1>9. \A fd : entry(fd).fd = fd  OBVIOUS
<1>10. Cardinality(rs) <= max
  <2> DEFINE f == [p \in came |-> entry(p[1])]
  <2>1. rs = {f[p] : p \in came}  BY <1>2
  <2>2. f \in Surjection(came, rs)  BY <2>1 DEF Surjection
  <2>3. IsFiniteSet(rs) /\ Cardinality(rs) <= Cardinality(came)  BY <1>6, <2>2, FS_Surjection
  <2>4. Cardinality(rs) \in Nat  BY <2>3, FS_CardinalityType
  <2> HIDE DEF f
  <2> QED  BY <1>5, <1>6, <2>3, <2>4
<1>11. ASSUME NEW fd \in Fds, e[fd].watched
       PROVE  /\ given(fd).flags # 0 <=> fired(fd) # {}
              /\ Gist(given(fd), e[fd].want) = Left(fd, hangup[fd], fired(fd))
              /\ \A s \in SUBSET fired(fd) :
                   Gist([fd |-> fd, flags |-> Flags(s, hangup[fd])], e[fd].want) = Left(fd, hangup[fd], s)
  <2>1. GistAlike(e, ready, hangup, fd, FiredOf(k, ready, hangup, fd))  BY <1>11, EventOfFilters
  <2>2. fired(fd) = FiredOf(k, ready, hangup, fd)  BY DEF filters, FiredOf
  <2> HIDE DEF fired
  <2> QED  BY <2>1, <2>2 DEF GistAlike
<1>12. \A fd \in G : Gist(entry(fd), e[fd].want) = Left(fd, hangup[fd], some(fd))  BY <1>8, <1>11
<1>13. /\ events = {r \in {given(fd) : fd \in {f \in Fds : e[f].watched}} : r.flags # 0}
       /\ \A fd : given(fd).fd = fd
  BY EventsOfEpoll DEF Event
<1> HIDE DEF events, fired, given, some, entry, G
<1>14. \A fd \in Fds : e[fd].watched /\ fired(fd) # {} => Left(fd, hangup[fd], fired(fd)) \in all
  <2> SUFFICES ASSUME NEW fd \in Fds, e[fd].watched, fired(fd) # {}
      PROVE  Left(fd, hangup[fd], fired(fd)) \in all
    OBVIOUS
  <2>1. given(fd) \in events  BY <1>11, <1>13
  <2>2. Gist(given(fd), e[given(fd).fd].want) \in all  BY <2>1 DEF InTerms
  <2> QED  BY <1>11, <1>13, <2>2
<1>15. InTerms(rs, e) = {Left(fd, hangup[fd], some(fd)) : fd \in G}
  <2>1. \A fd \in G : Gist(entry(fd), e[entry(fd).fd].want) = Left(fd, hangup[fd], some(fd))
    BY <1>9, <1>12
  <2>2. InTerms(rs, e) = {Gist(entry(fd), e[entry(fd).fd].want) : fd \in G}  BY <1>2 DEF InTerms
  <2> QED  BY <2>1, <2>2
<1>16. \A r \in InTerms(rs, e) : \E s \in all :
         r.fd = s.fd /\ r.hangup = s.hangup /\ r.ways \subseteq s.ways
  <2> SUFFICES ASSUME NEW fd \in G
      PROVE  LET r == Left(fd, hangup[fd], some(fd))
             IN  \E s \in all : r.fd = s.fd /\ r.hangup = s.hangup /\ r.ways \subseteq s.ways
    BY <1>15
  <2>1. Left(fd, hangup[fd], fired(fd)) \in all  BY <1>8, <1>14
  <2> QED  BY <1>8, <2>1 DEF Left
<1>17. \A r, s \in rs : r.fd = s.fd => r = s  BY <1>2, <1>9
<1>18. all # {} => rs # {}
  <2> SUFFICES ASSUME all # {} PROVE rs # {}  OBVIOUS
  <2>1. events # {}  BY DEF InTerms
  <2>2. PICK fd \in Fds : e[fd].watched /\ given(fd).flags # 0  BY <1>13, <2>1
  <2>3. fired(fd) # {}  BY <1>11, <2>2
  <2>4. came # {}  BY <1>6, <2>3 DEF fired
  <2>5. G # {}  BY <2>4 DEF G
  <2> QED  BY <1>2, <2>5
<1>19. ASSUME Cardinality(k) <= Room(max) PROVE all \subseteq InTerms(rs, e)
  <2>1. came = filters  BY <1>4, <1>5, <1>6, <1>19
  <2>2. \A fd : some(fd) = fired(fd)  BY <2>1 DEF some, fired
  <2> SUFFICES ASSUME NEW r \in events PROVE Gist(r, e[r.fd].want) \in InTerms(rs, e)
    BY DEF InTerms
  <2>3. PICK fd \in Fds : e[fd].watched /\ r = given(fd) /\ given(fd).flags # 0  BY <1>13
  <2>4. Gist(r, e[r.fd].want) = Left(fd, hangup[fd], fired(fd)) /\ fired(fd) # {}  BY <1>11, <1>13, <2>3
  <2>5. PICK d \in Directions : <<fd, d>> \in came  BY <2>1, <2>4 DEF fired
  <2>6. fd \in G  BY <2>5 DEF G
  <2> QED  BY <1>15, <2>2, <2>4, <2>6
<1>20. ASSUME Cardinality(k) <= Room(max) PROVE InTerms(rs, e) \subseteq all
  <2>1. came = filters  BY <1>4, <1>5, <1>6, <1>20
  <2>2. \A fd : some(fd) = fired(fd)  BY <2>1 DEF some, fired
  <2>3. \A fd \in G : Left(fd, hangup[fd], fired(fd)) \in all  BY <1>8, <1>14, <2>2
  <2> QED  BY <1>15, <2>2, <2>3
<1> HIDE DEF all
<1>21. GoodReport(rs, e, all, max)  BY <1>10, <1>16, <1>17, <1>18 DEF GoodReport
<1>22. Cardinality(k) <= Room(max) => InTerms(rs, e) = all  BY <1>19, <1>20
<1> QED  BY <1>21, <1>22 DEF all, events

\* It holds at the start.
LEMMA LoopInitial == LoopInit => LoopInv
BY DEF LoopInit, LoopInv, NoFilters

\* A new loop starts with empty tables, whatever was in them.
LEMMA CreateKeepsLoops == ASSUME LoopInv, Create PROVE LoopInv'
<1> DEFINE free == Loops \ used
           l == CHOOSE l \in Loops \ used : \A k \in Loops \ used : l <= k
<1>1. free \subseteq Nat /\ free # {} /\ used \subseteq Loops  BY LoopAssumption DEF Create, LoopInv
<1>2. l \in free
  <2>1. PICK m \in free : \A k \in free : m <= k  BY <1>1, LeastNumber
  <2> QED  BY <2>1
<1>3. /\ used' = used \cup {l} /\ win' = [win EXCEPT ![l] = <<>>] /\ answers' = {}
      /\ UNCHANGED <<epoll, kqueue, parted>>
  BY DEF Create
<1> HIDE DEF l
<1>4. /\ win = [k \in Loops |-> win[k]] /\ epoll = [k \in Loops |-> epoll[k]]
      /\ kqueue = [k \in Loops |-> kqueue[k]]
  BY DEF LoopInv
<1> DEFINE w2 == [win EXCEPT ![l] = <<>>]
<1>5. w2 = [k \in Loops |-> w2[k]] /\ \A k \in Loops : w2[k] = IF k = l THEN <<>> ELSE win[k]
  BY <1>1, <1>2, <1>4
<1>6. epoll[l] = [fd \in Fds |-> Unwatched] /\ kqueue[l] = {}  BY <1>2 DEF LoopInv
<1>7. InStep(<<>>, epoll[l], kqueue[l])  BY <1>6, EmptyInStep
<1> HIDE DEF w2
<1>8. ASSUME NEW k \in used' \ parted' PROVE InStep(win'[k], epoll'[k], kqueue'[k])
  <2>1. CASE k = l  BY <1>1, <1>2, <1>3, <1>5, <1>7, <2>1 DEF w2
  <2>2. CASE k # l
    <3>1. k \in used \ parted /\ win'[k] = win[k]  BY <1>1, <1>3, <1>5, <1>8, <2>2 DEF w2
    <3> QED  BY <1>3, <3>1 DEF LoopInv
  <2> QED  BY <2>1, <2>2
<1>9. used' \subseteq Loops /\ Loops \ used' \subseteq Loops \ used  BY <1>1, <1>2, <1>3
<1> QED  BY <1>3, <1>4, <1>5, <1>8, <1>9 DEF LoopInv, w2

\* A change of one loop leaves it in step, or says that the builds part.
LEMMA CtlKeepsLoops ==
  ASSUME LoopInv, NEW l \in Loops, NEW op \in {"add", "mod", "del"}, NEW fd \in Fds,
         NEW want \in SUBSET Directions, Ctl(l, op, fd, want)
  PROVE  LoopInv'
<1> DEFINE w == WinCtl(win[l], op, fd, want)
           e == EpollCtl(epoll[l], op, fd, want)
           k == KqueueCtl(kqueue[l], op, fd, want)
           allowed == Allowed(l, op, fd, want)
<1>1. /\ l \in used \ parted /\ used' = used
      /\ win' = [win EXCEPT ![l] = w.table] /\ epoll' = [epoll EXCEPT ![l] = e.table]
      /\ kqueue' = [kqueue EXCEPT ![l] = k.table]
      /\ parted' = IF allowed THEN parted ELSE parted \cup {l}
      /\ answers' = IF allowed THEN {w.rc, e.rc, k.rc} ELSE {}
  BY DEF Ctl
<1>2. InStep(win[l], epoll[l], kqueue[l])  BY <1>1 DEF LoopInv
<1>3. allowed => Agreed(w, e, k)
  <2>1. CASE op = "add"
    <3>1. allowed => EntryOf(win[l], fd) = 0 /\ want # {} /\ Len(win[l]) < LoopFds
      BY <2>1 DEF Allowed
    <3> QED  BY <1>2, <2>1, <3>1, AddStaysInStep
  <2>2. CASE op = "mod"
    <3>1. allowed => EntryOf(win[l], fd) # 0 /\ want # {}  BY <2>2 DEF Allowed
    <3> QED  BY <1>2, <2>2, <3>1, ModStaysInStep
  <2>3. CASE op = "del"
    <3>1. allowed => EntryOf(win[l], fd) # 0  BY <2>3 DEF Allowed
    <3> QED  BY <1>2, <2>3, <3>1, DelStaysInStep
  <2> QED  BY <2>1, <2>2, <2>3
<1> HIDE DEF w, e, k, allowed
<1>4. /\ win = [j \in Loops |-> win[j]] /\ epoll = [j \in Loops |-> epoll[j]]
      /\ kqueue = [j \in Loops |-> kqueue[j]]
  BY DEF LoopInv
<1>5. /\ win' = [j \in Loops |-> win'[j]] /\ epoll' = [j \in Loops |-> epoll'[j]]
      /\ kqueue' = [j \in Loops |-> kqueue'[j]]
      /\ win'[l] = w.table /\ epoll'[l] = e.table /\ kqueue'[l] = k.table
      /\ \A j \in Loops \ {l} : win'[j] = win[j] /\ epoll'[j] = epoll[j] /\ kqueue'[j] = kqueue[j]
  BY <1>1, <1>4
<1>6. used \subseteq Loops  BY DEF LoopInv
<1>7. ASSUME NEW j \in used' \ parted' PROVE InStep(win'[j], epoll'[j], kqueue'[j])
  <2>1. CASE j = l
    <3>1. allowed  BY <1>1, <1>7, <2>1
    <3> QED  BY <1>3, <1>5, <2>1, <3>1 DEF Agreed
  <2>2. CASE j # l
    <3>1. j \in used \ parted /\ j \in Loops \ {l}  BY <1>1, <1>6, <1>7, <2>2
    <3> QED  BY <1>5, <3>1 DEF LoopInv
  <2> QED  BY <2>1, <2>2
<1>8. answers' \subseteq {Ok}  BY <1>1, <1>3 DEF Agreed
<1>9. \A j \in Loops \ used' : j \in Loops \ used /\ j \in Loops \ {l}  BY <1>1
<1>10. \A j \in Loops \ used' : epoll'[j] = [f \in Fds |-> Unwatched] /\ kqueue'[j] = {}
  BY <1>5, <1>9 DEF LoopInv
<1>11. used' \subseteq Loops  BY <1>1, <1>6
<1> QED  BY <1>5, <1>7, <1>8, <1>10, <1>11 DEF LoopInv

\* A closed loop has nothing in the kernel.
LEMMA CloseKeepsLoops == ASSUME LoopInv, NEW l \in Loops, Close(l) PROVE LoopInv'
<1>1. /\ used' = used \ {l} /\ answers' = {} /\ parted' = parted \ {l}
      /\ win' = [win EXCEPT ![l] = <<>>] /\ kqueue' = [kqueue EXCEPT ![l] = {}]
      /\ epoll' = [epoll EXCEPT ![l] = [fd \in Fds |-> Unwatched]]
  BY DEF Close, NoFilters
<1>2. /\ win = [j \in Loops |-> win[j]] /\ epoll = [j \in Loops |-> epoll[j]]
      /\ kqueue = [j \in Loops |-> kqueue[j]]
  BY DEF LoopInv
<1>3. /\ win' = [j \in Loops |-> win'[j]] /\ epoll' = [j \in Loops |-> epoll'[j]]
      /\ kqueue' = [j \in Loops |-> kqueue'[j]]
      /\ epoll'[l] = [fd \in Fds |-> Unwatched] /\ kqueue'[l] = {}
      /\ \A j \in Loops \ {l} : win'[j] = win[j] /\ epoll'[j] = epoll[j] /\ kqueue'[j] = kqueue[j]
  BY <1>1, <1>2
<1>4. used \subseteq Loops  BY DEF LoopInv
<1>5. ASSUME NEW j \in used' \ parted' PROVE InStep(win'[j], epoll'[j], kqueue'[j])
  <2>1. j \in used \ parted /\ j \in Loops \ {l}  BY <1>1, <1>4, <1>5
  <2> QED  BY <1>3, <2>1 DEF LoopInv
<1>6. ASSUME NEW j \in Loops \ used' PROVE epoll'[j] = [fd \in Fds |-> Unwatched] /\ kqueue'[j] = {}
  <2>1. CASE j = l  BY <1>3, <2>1
  <2>2. CASE j # l
    <3>1. j \in Loops \ used /\ j \in Loops \ {l}  BY <1>1, <1>6, <2>2
    <3> QED  BY <1>3, <3>1 DEF LoopInv
  <2> QED  BY <2>1, <2>2
<1>7. used' \subseteq Loops  BY <1>1, <1>4
<1> QED  BY <1>1, <1>3, <1>5, <1>6, <1>7 DEF LoopInv

\* Every step keeps it.
LEMMA LoopStep == LoopInv /\ [LoopNext]_loopVars => LoopInv'
<1> SUFFICES ASSUME LoopInv, [LoopNext]_loopVars PROVE LoopInv'  OBVIOUS
<1>1. CASE Create  BY <1>1, CreateKeepsLoops
<1>2. ASSUME NEW l \in Loops, Close(l) PROVE LoopInv'  BY <1>2, CloseKeepsLoops
<1>3. ASSUME NEW l \in Loops, NEW op \in {"add", "mod", "del"}, NEW fd \in Fds,
             NEW want \in SUBSET Directions, Ctl(l, op, fd, want)
      PROVE  LoopInv'
  BY <1>3, CtlKeepsLoops
<1>4. CASE UNCHANGED loopVars  BY <1>4 DEF LoopInv, loopVars
<1> QED  BY <1>1, <1>2, <1>3, <1>4 DEF LoopNext

\* Tables in step are waited on with results that agree.
LEMMA WaitsOfTablesAgree ==
  ASSUME NEW l, InStep(win[l], epoll[l], kqueue[l]), NEW max \in Nat \ {0},
         NEW ready \in [Fds -> SUBSET Directions], NEW hangup \in [Fds -> BOOLEAN]
  PROVE  WaitsAgree(l, ready, hangup, max)
<1> DEFINE w == win[l]
           e == epoll[l]
           k == kqueue[l]
           all == InTerms(EpollEvents(e, ready, hangup), e)
           fromWin == ToSet(WinWait(w, ready, hangup, max))
<1>1. Len(w) \in Nat  BY LenProperties DEF InStep
<1>2. InTerms(ToSet(WinWait(w, ready, hangup, Len(w))), e) = all  BY <1>1, WinReports
<1>3. /\ Len(WinWait(w, ready, hangup, max)) = Cardinality(fromWin)
      /\ GoodReport(fromWin, e, all, max) /\ InTerms(fromWin, e) \subseteq all
      /\ Len(w) <= max => InTerms(fromWin, e) = all
  <2>1. /\ Len(WinWait(w, ready, hangup, max)) = Cardinality(fromWin) /\ Cardinality(fromWin) <= max
        /\ fromWin \subseteq EpollEvents(e, ready, hangup)
        /\ EpollEvents(e, ready, hangup) # {} => fromWin # {}
        /\ Len(w) <= max => fromWin = EpollEvents(e, ready, hangup)
    BY WinReports
  <2> HIDE DEF fromWin, w, e
  <2> QED  BY <2>1, PartsOfEvents
<1>4. ASSUME NEW rs \in EpollWait(e, ready, hangup, max)
      PROVE  /\ GoodReport(rs, e, all, max) /\ InTerms(rs, e) \subseteq all
             /\ Len(w) <= Room(max) => InTerms(rs, e) = all
  BY EpollReports
<1>5. ASSUME NEW rs \in KqueueWait(k, ready, hangup, max)
      PROVE  /\ GoodReport(rs, e, all, max)
             /\ Cardinality(k) <= Room(max) => InTerms(rs, e) = all
  BY KqueueReports
<1>6. \A rs : Reports(rs, l) = InTerms(rs, e)  BY DEF Reports, InTerms
<1>7. \A rs : IsReport(rs, l, all, max) <=> GoodReport(rs, e, all, max)
  BY <1>6 DEF IsReport, GoodReport
<1> HIDE DEF all
<1>8. Reports(ToSet(WinWait(w, ready, hangup, Len(w))), l) = all  BY <1>2, <1>6
<1>9. /\ Len(WinWait(w, ready, hangup, max)) = Cardinality(fromWin)
      /\ IsReport(fromWin, l, all, max) /\ Reports(fromWin, l) \subseteq all
      /\ Len(w) <= max => Reports(fromWin, l) = all
  BY <1>3, <1>6, <1>7
<1>10. \A rs \in EpollWait(e, ready, hangup, max) :
         /\ IsReport(rs, l, all, max) /\ Reports(rs, l) \subseteq all
         /\ Len(w) <= Room(max) => Reports(rs, l) = all
  BY <1>4, <1>6, <1>7
<1>11. \A rs \in KqueueWait(k, ready, hangup, max) :
         /\ IsReport(rs, l, all, max)
         /\ Cardinality(k) <= Room(max) => Reports(rs, l) = all
  BY <1>5, <1>6, <1>7
<1> QED  BY <1>8, <1>9, <1>10, <1>11, Zenon DEF WaitsAgree

\* Tables in step answer alike and are waited on with results that agree.
LEMMA LoopsReportAlike == LoopInv => LoopBuildsAgree
<1> SUFFICES ASSUME LoopInv PROVE LoopBuildsAgree  OBVIOUS
<1>1. answers \subseteq {Ok}  BY DEF LoopInv
<1>2. ASSUME NEW l \in used \ parted, NEW ready \in [Fds -> SUBSET Directions],
             NEW hangup \in [Fds -> BOOLEAN], NEW max \in 1 .. LoopFds + EventCap
      PROVE  WaitsAgree(l, ready, hangup, max)
  <2>1. InStep(win[l], epoll[l], kqueue[l])  BY DEF LoopInv
  <2>2. max \in Nat \ {0}  BY LoopAssumption
  <2> QED  BY <2>1, <2>2, WaitsOfTablesAgree
<1> QED  BY <1>1, <1>2, Zenon DEF LoopBuildsAgree

\* The tables of the three builds stay in step.
THEOREM LoopInvariant == LoopSpec => []LoopInv
BY LoopInitial, LoopStep, PTL DEF LoopSpec
-----------------------------------------------------------------------------
(* The directory watch of Linux *)

Watching == WatchInit /\ [][WatchNext]_watchVars

WatchEntries == [wd : Nat, prefix : Seq(Names)]
Records == [mask : {"create", "delete", "moved_from", "moved_to", "ignored", "overflow"}, wd : Nat,
            name : Names \cup {NoName}]

\* Every directory on the path of one is a directory, and its path leads to it.
TreeInv ==
  /\ inodes \in Nat /\ IsFiniteSet(Dirs) /\ Dirs \subseteq Names
  /\ tree \in [Dirs -> [inode : Nat, path : Seq(Names)]]
  /\ \A d \in Dirs : Inode(d) \in 1 .. inodes
  /\ \A d, e \in Dirs : Inode(d) = Inode(e) => d = e
  /\ \A d \in Dirs : Len(Path(d)) > 0 /\ Path(d)[Len(Path(d))] = d
  /\ \A d \in Dirs : \A i \in 1 .. Len(Path(d)) :
       \E c \in Dirs : c = Path(d)[i] /\ Len(Path(c)) = i /\ \A j \in 1 .. i : Path(c)[j] = Path(d)[j]

\* The directories there are.
Live == {Root} \cup {Inode(d) : d \in Dirs}

OneEntryEach(m) == \A k, l \in DOMAIN m : m[k].wd = m[l].wd => k = l

\* A record of a live directory is of one that is watched, and one that is ignored is
\* gone for good.
RecordsInv ==
  /\ queue \in Seq(Records)
  /\ \A k \in DOMAIN queue : /\ queue[k].wd \in 0 .. inodes
                             /\ queue[k].mask = "ignored" => queue[k].wd \notin Live
                             /\ queue[k].wd \in Live => queue[k].wd \in watches

EntryFor(d) == [wd |-> Inode(d), prefix |-> Path(d)]

MapInv ==
  /\ maps \in Seq(WatchEntries) /\ OneEntryEach(maps)
  /\ watches \subseteq WatchesOf(maps) /\ watches \subseteq Live
  /\ overflowed \in BOOLEAN /\ watching \in BOOLEAN
  /\ scan \subseteq Seq(Names)
  /\ ~ watching => watches = {} /\ maps = <<>> /\ queue = <<>> /\ scan = {}
  /\ watching => Root \in watches /\ EntryFor("/") \in ToSet(maps)
  /\ \A wd \in WatchesOf(maps) \ watches :
       overflowed \/ \E k \in DOMAIN queue : queue[k] = Record("ignored", wd, NoName)

\* A directory whose appearance the watch has to tell of.
Known(d) == \A e \in ToSet(Path(d)) : Inode(e) \notin missed \cup stale

\* The k-th record says that d appeared where it is.
Announces(k, d) ==
  /\ queue[k].mask \in {"create", "moved_to"} /\ queue[k].name = d
  /\ \E p \in Dirs \cup {"/"} : p = Parent(d) /\ queue[k].wd = Inode(p)

\* d is in the map, will be scanned, or is announced behind the first k records.
Reached(d, k) ==
  \/ EntryFor(d) \in ToSet(maps)
  \/ \E prefix \in scan : IsStrictPrefix(prefix, Path(d))
  \/ \E l \in k + 1 .. Len(queue) : Announces(l, d)

\* A directory is reached, and behind the records that say that its parent appeared.
BehindItsParent(d) ==
  \A q \in Dirs : q = Parent(d) => \A k \in DOMAIN queue : Announces(k, q) => Reached(d, k)

ReachInv ==
  watching /\ ~ overflowed =>
    \A d \in Dirs : Known(d) => Reached(d, 0) /\ BehindItsParent(d)

WatchInv == TreeInv /\ RecordsInv /\ MapInv /\ ReachInv

\* The search of the map finds the entry of a watch, or there is none.
LEMMA WatchIsFound ==
  ASSUME NEW m \in Seq(WatchEntries), NEW wd
  PROVE  \/ MapOf(m, wd) = 0 /\ \A i \in 1 .. Len(m) : m[i].wd # wd
         \/ MapOf(m, wd) \in 1 .. Len(m) /\ m[MapOf(m, wd)].wd = wd
<1> DEFINE I == {i \in 1 .. Len(m) : m[i].wd = wd}
<1>1. MapOf(m, wd) = IF I # {} THEN Min(I) ELSE 0  BY DEF MapOf, SelectInSeq
<1>2. I \subseteq Nat /\ Len(m) \in Nat  BY LenProperties
<1>3. CASE I # {}
  <2>1. PICK k \in I : \A j \in I : k <= j  BY <1>2, <1>3, LeastNumber
  <2>2. Min(I) \in I  BY <2>1 DEF Min
  <2> QED  BY <1>1, <1>3, <2>2
<1>4. CASE I = {}  BY <1>1, <1>4
<1> QED  BY <1>3, <1>4

\* A map whose watches have one entry each.
Map(m) == m \in Seq(WatchEntries) /\ OneEntryEach(m)

\* Its entries, and the watches they are of.
LEMMA EntriesOfMap ==
  ASSUME NEW m, Map(m)
  PROVE  /\ ToSet(m) \subseteq WatchEntries /\ WatchesOf(m) = {x.wd : x \in ToSet(m)}
         /\ \A x, y \in ToSet(m) : x.wd = y.wd => x = y
<1>1. DOMAIN m = 1 .. Len(m) /\ \A k \in 1 .. Len(m) : m[k] \in WatchEntries
  BY LenProperties, ElementOfSeq DEF Map
<1>2. ToSet(m) = {m[k] : k \in DOMAIN m}  BY DEF ToSet
<1>3. WatchesOf(m) = {x.wd : x \in ToSet(m)}  BY <1>2 DEF WatchesOf
<1> QED  BY <1>1, <1>2, <1>3 DEF Map, OneEntryEach

\* What an attached watch does to the entries: no other is lost.
LEMMA MappedEntries ==
  ASSUME NEW m, Map(m), NEW wd \in Nat, NEW prefix \in Seq(Names)
  PROVE  /\ Map(Mapped(m, wd, prefix)) /\ Len(Mapped(m, wd, prefix)) >= Len(m)
         /\ ToSet(Mapped(m, wd, prefix))
              = {x \in ToSet(m) : x.wd # wd} \cup {[wd |-> wd, prefix |-> prefix]}
<1> DEFINE i == MapOf(m, wd)
           n == Len(m)
           y == [wd |-> wd, prefix |-> prefix]
           r == Mapped(m, wd, prefix)
<1>1. /\ m \in Seq(WatchEntries) /\ n \in Nat /\ DOMAIN m = 1 .. n
      /\ \A k \in 1 .. n : m[k] \in WatchEntries
      /\ \A k, l \in 1 .. n : m[k].wd = m[l].wd => k = l
  BY LenProperties, ElementOfSeq DEF Map, OneEntryEach
<1>2. y \in WatchEntries /\ y.wd = wd /\ y.prefix = prefix  BY DEF WatchEntries
<1> HIDE DEF y
<1>3. ToSet(m) = {m[k] : k \in 1 .. n}  BY <1>1 DEF ToSet
<1>4. CASE i > 0
  <2>1. i \in 1 .. n /\ m[i].wd = wd  BY <1>1, <1>4, WatchIsFound
  <2>2. r = [m EXCEPT ![i] = y]
    <3>1. \A x \in WatchEntries : [x EXCEPT !.prefix = prefix] = [wd |-> x.wd, prefix |-> prefix]
      BY DEF WatchEntries
    <3>2. [m[i] EXCEPT !.prefix = prefix] = y  BY <1>1, <2>1, <3>1 DEF y
    <3>3. r = [m EXCEPT ![i] = [m[i] EXCEPT !.prefix = prefix]]  BY <1>4 DEF Mapped
    <3> QED  BY <3>2, <3>3
  <2>3. /\ r \in Seq(WatchEntries) /\ Len(r) = n
        /\ \A k \in 1 .. n : r[k] = IF k = i THEN y ELSE m[k]
    <3> HIDE DEF i, n
    <3> QED  BY <1>1, <1>2, <2>1, <2>2, ExceptSeq DEF n
  <2> HIDE DEF i, n, r
  <2>4. DOMAIN r = 1 .. n  BY <2>3, LenProperties
  <2>5. OneEntryEach(r)  BY <1>1, <1>2, <2>1, <2>3, <2>4 DEF OneEntryEach
  <2>6. ToSet(r) = {x \in ToSet(m) : x.wd # wd} \cup {y}
    <3>1. ToSet(r) = {r[k] : k \in 1 .. n}  BY <2>4 DEF ToSet
    <3>2. \A k \in 1 .. n : k # i => m[k].wd # wd  BY <1>1, <2>1
    <3> QED  BY <1>3, <2>1, <2>3, <3>1, <3>2
  <2>7. Map(r) /\ Len(r) >= n  BY <1>1, <2>3, <2>5 DEF Map
  <2> QED  BY <2>6, <2>7 DEF r, y, n
<1>5. CASE ~ (i > 0)
  <2>1. \A k \in 1 .. n : m[k].wd # wd  BY <1>1, <1>5, WatchIsFound
  <2>2. r = Append(m, y)  BY <1>5 DEF Mapped, y
  <2>3. /\ r \in Seq(WatchEntries) /\ Len(r) = n + 1 /\ r[n + 1] = y
        /\ \A k \in 1 .. n : r[k] = m[k]
    BY <1>1, <1>2, <2>2, AppendProperties
  <2> HIDE DEF i, n, r
  <2>4. DOMAIN r = 1 .. n + 1  BY <2>3, LenProperties
  <2>5. \A k \in 1 .. n + 1 : k = n + 1 \/ k \in 1 .. n  BY <1>1
  <2>6. OneEntryEach(r)  BY <1>1, <1>2, <2>1, <2>3, <2>4, <2>5 DEF OneEntryEach
  <2>7. ToSet(r) = {x \in ToSet(m) : x.wd # wd} \cup {y}
    <3>1. ToSet(r) = {r[k] : k \in 1 .. n + 1}  BY <2>4 DEF ToSet
    <3>2. n + 1 \in 1 .. n + 1 /\ \A k \in 1 .. n : k \in 1 .. n + 1  BY <1>1
    <3> QED  BY <1>3, <2>1, <2>3, <2>5, <3>1, <3>2
  <2>8. Map(r) /\ Len(r) >= n  BY <1>1, <2>3, <2>6 DEF Map
  <2> QED  BY <2>7, <2>8 DEF r, y, n
<1> QED  BY <1>4, <1>5

\* What is left of the entries when one is dropped: the last takes its place.
LEMMA WithoutEntries ==
  ASSUME NEW m, Map(m), NEW wd
  PROVE  Map(Without(m, wd)) /\ ToSet(Without(m, wd)) = {x \in ToSet(m) : x.wd # wd}
<1> DEFINE i == MapOf(m, wd)
           n == Len(m)
           m1 == [m EXCEPT ![i] = Last(m)]
           r == Front(m1)
<1>1. /\ m \in Seq(WatchEntries) /\ n \in Nat /\ DOMAIN m = 1 .. n
      /\ \A k \in 1 .. n : m[k] \in WatchEntries
      /\ \A k, l \in 1 .. n : m[k].wd = m[l].wd => k = l
  BY LenProperties, ElementOfSeq DEF Map, OneEntryEach
<1>2. ToSet(m) = {m[k] : k \in 1 .. n}  BY <1>1 DEF ToSet
<1>3. CASE i = 0
  <2>1. \A k \in 1 .. n : m[k].wd # wd  BY <1>1, <1>3, WatchIsFound
  <2>2. Without(m, wd) = m  BY <1>3 DEF Without
  <2>3. ToSet(m) = {x \in ToSet(m) : x.wd # wd}  BY <1>2, <2>1
  <2> QED  BY <2>2, <2>3
<1>4. CASE i # 0
  <2>1. i \in 1 .. n /\ m[i].wd = wd  BY <1>1, <1>4, WatchIsFound
  <2>2. Without(m, wd) = r  BY <1>4 DEF Without
  <2> HIDE DEF i
  <2>3. m # <<>> /\ n \in 1 .. n /\ Last(m) = m[n] /\ Last(m) \in WatchEntries
    <3>1. m # <<>>  BY <1>1, <2>1, EmptySeq
    <3>2. Last(m) = m[Len(m)] /\ Last(m) \in WatchEntries
      <4>1. m \in Seq(WatchEntries)  BY DEF Map
      <4> QED  BY <3>1, <4>1, LastAndFront
    <3>3. n \in 1 .. n  BY <1>1, <2>1
    <3> QED  BY <3>1, <3>2, <3>3
  <2>4. /\ m1 \in Seq(WatchEntries) /\ Len(m1) = n
        /\ \A k \in 1 .. n : m1[k] = IF k = i THEN m[n] ELSE m[k]
    BY <1>1, <2>1, <2>3, ExceptSeq
  <2> HIDE DEF m1, n
  <2>5. /\ r \in Seq(WatchEntries) /\ Len(r) = n - 1
        /\ \A k \in 1 .. n - 1 : r[k] = IF k = i THEN m[n] ELSE m[k]
    <3>1. m1 # <<>>  BY <2>1, <2>4, EmptySeq
    <3>2. r \in Seq(WatchEntries) /\ Len(r) = n - 1 /\ \A k \in 1 .. n - 1 : r[k] = m1[k]
      BY <2>4, <3>1, LastAndFront
    <3> QED  BY <1>1, <2>4, <3>2
  <2> HIDE DEF r
  <2> DEFINE o == [k \in 1 .. n - 1 |-> IF k = i THEN n ELSE k]
  <2>6. \A k \in 1 .. n - 1 : o[k] \in 1 .. n /\ o[k] # i /\ r[k] = m[o[k]]  BY <1>1, <2>1, <2>3, <2>5
  <2>7. \A k, l \in 1 .. n - 1 : o[k] = o[l] => k = l  BY <1>1
  <2>8. ASSUME NEW l \in 1 .. n, l # i PROVE \E k \in 1 .. n - 1 : o[k] = l
    <3>1. CASE l = n  BY <1>1, <2>1, <2>8, <3>1
    <3>2. CASE l # n  BY <1>1, <2>1, <2>8, <3>2
    <3> QED  BY <3>1, <3>2
  <2> HIDE DEF o
  <2>9. DOMAIN r = 1 .. n - 1  BY <2>5, LenProperties
  <2>10. OneEntryEach(r)  BY <1>1, <2>6, <2>7, <2>9 DEF OneEntryEach
  <2>11. ToSet(r) = {r[k] : k \in 1 .. n - 1}  BY <2>9 DEF ToSet
  <2>12. ASSUME NEW k \in 1 .. n - 1 PROVE r[k] \in {x \in ToSet(m) : x.wd # wd}
    BY <1>1, <1>2, <2>1, <2>6
  <2>13. ASSUME NEW x \in ToSet(m), x.wd # wd PROVE x \in ToSet(r)
    <3>1. PICK l \in 1 .. n : x = m[l]  BY <1>2
    <3>2. PICK k \in 1 .. n - 1 : o[k] = l  BY <2>1, <2>8, <2>13, <3>1
    <3> QED  BY <2>6, <2>11, <3>1, <3>2
  <2>14. ToSet(r) = {x \in ToSet(m) : x.wd # wd}  BY <2>11, <2>12, <2>13
  <2> QED  BY <2>2, <2>5, <2>10, <2>14 DEF Map
<1> QED  BY <1>3, <1>4

\* What attaching what is at the paths of T makes of a map m.
AttachedTo(m, r, T) ==
  /\ Map(r) /\ Len(r) >= Len(m)
  /\ WatchesOf(m) \subseteq WatchesOf(r) /\ WatchesOf(r) \subseteq WatchesOf(m) \cup Live
  /\ \A x \in ToSet(m) : x \in ToSet(r) \/ \E d \in Dirs : x.wd = Inode(d) /\ EntryFor(d) \in ToSet(r)
  /\ Len(r) < MaxDirs => \A d \in Dirs : Path(d) \in T => EntryFor(d) \in ToSet(r)

\* What a tree consists of.
LEMMA TreeFacts ==
  ASSUME TreeInv
  PROVE  /\ \A d \in Dirs : /\ Inode(d) = tree[d].inode /\ Path(d) = tree[d].path /\ d # "/"
                           /\ Inode(d) \in Nat \ {0} /\ Path(d) \in Seq(Names)
                           /\ Len(Path(d)) \in Nat \ {0}
         /\ \A d, e \in Dirs : Path(d) = Path(e) => d = e
<1>1. \A d \in Dirs : /\ Inode(d) = tree[d].inode /\ Path(d) = tree[d].path /\ d # "/"
                     /\ Path(d) \in Seq(Names)
  BY WatchAssumption DEF TreeInv, Inode, Path
<1>2. \A d \in Dirs : Len(Path(d)) \in Nat \ {0}
  <2>1. \A d \in Dirs : Len(Path(d)) \in Nat  BY <1>1, LenProperties
  <2> QED  BY <2>1 DEF TreeInv
<1>3. \A d \in Dirs : Inode(d) \in Nat \ {0}
  <2>1. inodes \in Nat /\ \A d \in Dirs : Inode(d) \in 1 .. inodes  BY DEF TreeInv
  <2> QED  BY <2>1
<1>4. \A d \in Dirs : Path(d)[Len(Path(d))] = d  BY DEF TreeInv
<1> QED  BY <1>1, <1>2, <1>3, <1>4

\* One path.
LEMMA AttachOne ==
  ASSUME TreeInv, NEW m, Map(m), NEW r, NEW T, AttachedTo(m, r, T), NEW p
  PROVE  AttachedTo(m, Attach(r, p), T \cup {p})
<1> DEFINE q == Attach(r, p)
<1>1. /\ Map(r) /\ Len(r) >= Len(m) /\ WatchesOf(m) \subseteq WatchesOf(r)
      /\ WatchesOf(r) \subseteq WatchesOf(m) \cup Live
      /\ \A x \in ToSet(m) : x \in ToSet(r) \/ \E d \in Dirs : x.wd = Inode(d) /\ EntryFor(d) \in ToSet(r)
      /\ Len(r) < MaxDirs => \A d \in Dirs : Path(d) \in T => EntryFor(d) \in ToSet(r)
  BY DEF AttachedTo
<1>2. Len(r) \in Nat /\ Len(m) \in Nat /\ MaxDirs \in Nat  BY <1>1, LenProperties, WatchAssumption DEF Map
<1>3. \A d \in Dirs : Path(d) = p <=> d \in AtPath(p)  BY DEF AtPath
<1>4. CASE AtPath(p) = {} \/ Len(r) >= MaxDirs
  <2>1. q = r  BY <1>4 DEF Attach
  <2>2. Len(r) < MaxDirs => \A d \in Dirs : Path(d) # p  BY <1>2, <1>3, <1>4
  <2>3. Len(r) < MaxDirs => \A d \in Dirs : Path(d) \in T \cup {p} => EntryFor(d) \in ToSet(r)
    BY <1>1, <2>2
  <2> HIDE DEF q
  <2> QED  BY <1>1, <2>1, <2>3 DEF AttachedTo, q
<1>5. CASE ~ (AtPath(p) = {} \/ Len(r) >= MaxDirs)
  <2> DEFINE d == CHOOSE d \in AtPath(p) : TRUE
  <2>1. d \in Dirs /\ Path(d) = p  BY <1>3, <1>5 DEF AtPath
  <2>2. q = Mapped(r, Inode(d), Path(d))  BY <1>5, <2>1 DEF Attach
  <2> HIDE DEF d, q
  <2>3. Inode(d) \in Nat /\ Path(d) \in Seq(Names)  BY <2>1, TreeFacts
  <2>4. /\ Map(q) /\ Len(q) >= Len(r)
        /\ ToSet(q) = {x \in ToSet(r) : x.wd # Inode(d)} \cup {EntryFor(d)}
    BY <1>1, <2>2, <2>3, MappedEntries DEF EntryFor
  <2>5. EntryFor(d).wd = Inode(d) /\ \A e : EntryFor(e).wd = Inode(e)  BY DEF EntryFor
  <2>6. Len(q) \in Nat /\ Len(q) >= Len(m)  BY <1>1, <1>2, <2>4, LenProperties DEF Map
  <2>7. WatchesOf(q) = WatchesOf(r) \cup {Inode(d)}
    <3>1. WatchesOf(q) = {x.wd : x \in ToSet(q)} /\ WatchesOf(r) = {x.wd : x \in ToSet(r)}
      BY <1>1, <2>4, EntriesOfMap
    <3> QED  BY <2>4, <2>5, <3>1
  <2>8. Inode(d) \in Live  BY <2>1 DEF Live
  <2>9. ASSUME NEW x \in ToSet(m)
        PROVE  x \in ToSet(q) \/ \E e \in Dirs : x.wd = Inode(e) /\ EntryFor(e) \in ToSet(q)
    <3>1. CASE x \in ToSet(r)  BY <2>1, <2>4, <3>1
    <3>2. ASSUME NEW e \in Dirs, x.wd = Inode(e), EntryFor(e) \in ToSet(r)
          PROVE  \E f \in Dirs : x.wd = Inode(f) /\ EntryFor(f) \in ToSet(q)
      BY <2>1, <2>4, <2>5, <3>2
    <3> QED  BY <1>1, <3>1, <3>2
  <2>10. ASSUME NEW e \in Dirs, Path(e) \in T \cup {p}, Len(q) < MaxDirs PROVE EntryFor(e) \in ToSet(q)
    <3>1. CASE e = d  BY <2>4, <3>1
    <3>2. CASE e # d
      <4>1. Path(e) # p  BY <2>1, <3>2, TreeFacts
      <4>2. Inode(e) # Inode(d)  BY <2>1, <3>2 DEF TreeInv
      <4>3. EntryFor(e) \in ToSet(r)  BY <1>1, <1>2, <2>4, <2>6, <2>10, <4>1
      <4> QED  BY <2>4, <2>5, <4>2, <4>3
    <3> QED  BY <3>1, <3>2
  <2> QED  BY <1>1, <2>4, <2>6, <2>7, <2>8, <2>9, <2>10 DEF AttachedTo, q
<1> QED  BY <1>4, <1>5

\* Attaching a finite set of paths.
LEMMA AttachSet ==
  ASSUME TreeInv, NEW m, Map(m), NEW paths, IsFiniteSet(paths)
  PROVE  AttachedTo(m, AttachAll(m, paths), paths)
<1> DEFINE pick(T) == CHOOSE p \in T : TRUE
           Next1(f, T) == IF T = {} THEN m ELSE Attach(f[T \ {pick(T)}], pick(T))
           UpTo(n) == {T \in SUBSET paths : Cardinality(T) <= n}
           Body(f, n) == [T \in UpTo(n) |-> Next1(f, T)]
           All(f) == [T \in SUBSET paths |-> Next1(f, T)]
           attached == CHOOSE f : f = All(f)
           H == {n \in Nat : \E f : f = Body(f, n)}
           K == {n \in Nat : \A T \in UpTo(n) : AttachedTo(m, attached[T], T)}
<1>1. AttachAll(m, paths) = attached[paths]
  BY DEF AttachAll, FoldSet, MapThenFoldSet
<1>2. \A T : T # {} => pick(T) \in T  OBVIOUS
<1> HIDE DEF pick
<1>3. \A T \in SUBSET paths : IsFiniteSet(T) /\ Cardinality(T) \in Nat /\ (Cardinality(T) = 0 <=> T = {})
  BY FS_Subset, FS_CardinalityType, FS_EmptySet
<1>4. ASSUME NEW n \in Nat, NEW T \in UpTo(n + 1), T # {}
      PROVE  T \ {pick(T)} \in UpTo(n) /\ T = (T \ {pick(T)}) \cup {pick(T)}
  <2>1. pick(T) \in T /\ T \in SUBSET paths /\ Cardinality(T) <= n + 1  BY <1>2, <1>4
  <2>2. Cardinality(T \ {pick(T)}) = Cardinality(T) - 1  BY <1>3, <2>1, FS_RemoveElement
  <2>3. Cardinality(T) \in Nat  BY <1>3, <2>1
  <2>4. Cardinality(T \ {pick(T)}) <= n  BY <2>1, <2>2, <2>3
  <2> QED  BY <2>1, <2>4
<1>5. \A n \in Nat : UpTo(n) \subseteq UpTo(n + 1)
  <2>1. ASSUME NEW n \in Nat, NEW T \in UpTo(n) PROVE T \in UpTo(n + 1)
    <3>1. T \in SUBSET paths /\ Cardinality(T) \in Nat /\ Cardinality(T) <= n  BY <1>3
    <3>2. Cardinality(T) <= n + 1  BY <3>1
    <3> QED  BY <3>1, <3>2
  <2> QED  BY <2>1
<1>6. {} \in UpTo(0) /\ \A T \in UpTo(0) : T = {}
  <2>1. Cardinality({}) = 0  BY FS_EmptySet
  <2>2. \A T \in UpTo(0) : Cardinality(T) = 0  BY <1>3
  <2> QED  BY <1>3, <2>1, <2>2
<1>7. UpTo(Cardinality(paths)) = SUBSET paths /\ Cardinality(paths) \in Nat
  <2>1. \A T \in SUBSET paths : Cardinality(T) <= Cardinality(paths)  BY FS_Subset
  <2> QED  BY <1>3, <2>1
<1> HIDE DEF UpTo
<1>8. 0 \in H
  <2> DEFINE f == [T \in UpTo(0) |-> m]
  <2>1. \A T \in UpTo(0) : Next1(f, T) = m  BY <1>6
  <2>2. f = Body(f, 0)  BY <2>1
  <2> QED  BY <2>2
<1>9. ASSUME NEW n \in Nat, n \in H PROVE n + 1 \in H
  <2>1. PICK f : f = Body(f, n)  BY <1>9
  <2> DEFINE g == [T \in UpTo(n + 1) |-> Next1(f, T)]
  <2>2. \A T \in UpTo(n) : g[T] = f[T]
    <3>1. \A T \in UpTo(n) : f[T] = Next1(f, T)  BY <2>1
    <3>2. \A T \in UpTo(n) : g[T] = Next1(f, T)  BY <1>5
    <3> QED  BY <3>1, <3>2
  <2>3. ASSUME NEW T \in UpTo(n + 1) PROVE Next1(f, T) = Next1(g, T)
    <3>1. CASE T = {}  BY <3>1
    <3>2. CASE T # {}
      <4>1. T \ {pick(T)} \in UpTo(n)  BY <1>4, <3>2
      <4>2. g[T \ {pick(T)}] = f[T \ {pick(T)}]  BY <2>2, <4>1
      <4> HIDE DEF g
      <4> QED  BY <3>2, <4>2
    <3> QED  BY <3>1, <3>2
  <2>4. g = Body(g, n + 1)
    <3> DEFINE step(T) == Next1(f, T)
               after(T) == Next1(g, T)
    <3>1. \A T \in UpTo(n + 1) : step(T) = after(T)  BY <2>3
    <3>2. g = [T \in UpTo(n + 1) |-> step(T)] /\ Body(g, n + 1) = [T \in UpTo(n + 1) |-> after(T)]
      OBVIOUS
    <3> HIDE DEF step, after, g, Body
    <3> QED  BY <3>1, <3>2
  <2>5. n + 1 \in Nat  OBVIOUS
  <2> HIDE DEF Body, g
  <2> QED  BY <2>4, <2>5
<1>10. attached = All(attached)
  <2>1. Cardinality(paths) \in H
    <3> HIDE DEF H
    <3> QED  BY <1>7, <1>8, <1>9, NumbersFrom0
  <2>2. \E f : f = All(f)
    <3>1. PICK f : f = Body(f, Cardinality(paths))  BY <2>1
    <3>2. f = All(f)  BY <1>7, <3>1
    <3> QED  BY <3>2
  <2> HIDE DEF All
  <2> QED  BY <2>2, Zenon
<1>11. \A T \in SUBSET paths :
         attached[T] = IF T = {} THEN m ELSE Attach(attached[T \ {pick(T)}], pick(T))
  <2> HIDE DEF attached
  <2> QED  BY <1>10
<1> HIDE DEF attached
<1>12. \A n \in Nat : UpTo(n) \subseteq SUBSET paths  BY DEF UpTo
<1>13. 0 \in K
  <2>1. attached[{}] = m  BY <1>11
  <2>2. AttachedTo(m, m, {})  BY DEF AttachedTo
  <2>3. \A T \in UpTo(0) : AttachedTo(m, attached[T], T)  BY <1>6, <2>1, <2>2
  <2> QED  BY <2>3
<1>14. ASSUME NEW n \in Nat, n \in K PROVE n + 1 \in K
  <2>1. ASSUME NEW T \in UpTo(n + 1) PROVE AttachedTo(m, attached[T], T)
    <3>1. CASE T = {}
      <4>1. T \in UpTo(n)
        <5>1. {} \in UpTo(n)  BY <1>3, FS_EmptySet DEF UpTo
        <5> QED  BY <3>1, <5>1
      <4> QED  BY <1>14, <4>1
    <3>2. CASE T # {}
      <4> DEFINE p == pick(T)
                 S == T \ {p}
      <4>1. S \in UpTo(n) /\ T = S \cup {p}  BY <1>4, <3>2
      <4>2. attached[T] = Attach(attached[S], p)
        <5>1. T \in SUBSET paths  BY <1>12
        <5> QED  BY <1>11, <3>2, <5>1
      <4>3. AttachedTo(m, attached[S], S)  BY <1>14, <4>1
      <4> HIDE DEF p, S
      <4>4. AttachedTo(m, Attach(attached[S], p), S \cup {p})  BY <4>3, AttachOne
      <4> QED  BY <4>1, <4>2, <4>4
    <3> QED  BY <3>1, <3>2
  <2>2. n + 1 \in Nat  OBVIOUS
  <2> QED  BY <2>1, <2>2
<1>15. Cardinality(paths) \in K
  <2> HIDE DEF K
  <2> QED  BY <1>7, <1>13, <1>14, NumbersFrom0
<1>16. paths \in UpTo(Cardinality(paths))  BY <1>7
<1> QED  BY <1>1, <1>15, <1>16

\* A strict prefix, element by element.
LEMMA PrefixByElements ==
  ASSUME NEW S, NEW s \in Seq(S), NEW t \in Seq(S)
  PROVE  IsStrictPrefix(s, t) <=> Len(s) < Len(t) /\ \A i \in 1 .. Len(s) : s[i] = t[i]
<1> DEFINE n == Len(s)
           u == SubSeq(t, 1, n)
<1>1. n \in Nat /\ Len(t) \in Nat  BY LenProperties
<1>2. SubSeq(s, 1, n) = s  BY SubSeqFull
<1>3. IsStrictPrefix(s, t) <=> n <= Len(t) /\ s = u /\ s # t
  BY <1>2 DEF IsStrictPrefix, IsPrefix
<1>4. n <= Len(t) => u \in Seq(S) /\ Len(u) = n /\ \A i \in 1 .. n : u[i] = t[i]
  <2>1. SUFFICES ASSUME n <= Len(t) PROVE u \in Seq(S) /\ Len(u) = n /\ \A i \in 1 .. n : u[i] = t[i]
    OBVIOUS
  <2>2. \A i \in 1 .. n : t[i] \in S
    <3>1. \A i \in 1 .. n : i \in 1 .. Len(t)  BY <1>1, <2>1
    <3> QED  BY <3>1, ElementOfSeq
  <2>3. /\ u \in Seq(S) /\ Len(u) = IF 1 <= n THEN n - 1 + 1 ELSE 0
        /\ \A i \in 1 .. n - 1 + 1 : u[i] = t[1 + i - 1]
    BY <1>1, <2>2, SubSeqProperties
  <2>4. (IF 1 <= n THEN n - 1 + 1 ELSE 0) = n /\ n - 1 + 1 = n /\ \A i \in 1 .. n : 1 + i - 1 = i
    BY <1>1
  <2> QED  BY <2>3, <2>4
<1> HIDE DEF u
<1>5. n <= Len(t) => (s = u <=> \A i \in 1 .. n : s[i] = t[i])
  <2>1. SUFFICES ASSUME n <= Len(t), \A i \in 1 .. n : s[i] = t[i] PROVE s = u  BY <1>4
  <2> QED  BY <1>4, <2>1, SeqEqual
<1>6. n = Len(t) => (s = t <=> \A i \in 1 .. n : s[i] = t[i])
  <2>1. SUFFICES ASSUME n = Len(t), \A i \in 1 .. n : s[i] = t[i] PROVE s = t  OBVIOUS
  <2> QED  BY <2>1, SeqEqual
<1>7. n # Len(t) => s # t  OBVIOUS
<1> HIDE DEF n
<1> QED  BY <1>1, <1>3, <1>5, <1>6, <1>7 DEF n

\* A path leads to its directory from the one above it.
LEMMA AboveADirectory ==
  ASSUME TreeInv, NEW d \in Dirs
  PROVE  /\ Parent(d) \in Dirs \cup {"/"} /\ Parent(d) # d
         /\ Path(Parent(d)) \in Seq(Names) /\ Path(d) = Append(Path(Parent(d)), d)
         /\ ToSet(Path(Parent(d))) \subseteq ToSet(Path(d))
<1> DEFINE s == Path(d)
           n == Len(s)
           q == Parent(d)
<1>1. s \in Seq(Names) /\ n \in Nat \ {0} /\ d # "/" /\ d \in Names /\ DOMAIN s = 1 .. n /\ s[n] = d
  BY TreeFacts, LenProperties DEF TreeInv
<1>2. \A i \in 1 .. n : /\ s[i] \in Dirs /\ Len(Path(s[i])) = i
                       /\ \A j \in 1 .. i : Path(s[i])[j] = s[j]
  BY DEF TreeInv
<1>3. q = IF n = 1 THEN "/" ELSE Last(Front(s))  BY DEF Parent
<1> HIDE DEF q, s, n
<1>4. /\ q \in Dirs \cup {"/"} /\ Path(q) \in Seq(Names) /\ Len(Path(q)) = n - 1
      /\ \A j \in 1 .. n - 1 : Path(q)[j] = s[j]
  <2>1. CASE n = 1
    <3>1. q = "/" /\ Path(q) = <<>>  BY <1>3, <2>1 DEF Path
    <3>2. Path(q) \in Seq(Names) /\ Len(Path(q)) = 0  BY <3>1, EmptySeq
    <3>3. n - 1 = 0 /\ \A j \in 1 .. n - 1 : Path(q)[j] = s[j]  BY <2>1
    <3> QED  BY <3>1, <3>2, <3>3
  <2>2. CASE n # 1
    <3>1. n - 1 \in 1 .. n /\ n - 1 \in 1 .. n - 1  BY <1>1, <2>2
    <3>2. Front(s) \in Seq(Names) /\ Len(Front(s)) = n - 1 /\ \A i \in 1 .. n - 1 : Front(s)[i] = s[i]
      <4>1. s # <<>>  BY <1>1, EmptySeq DEF n
      <4> QED  BY <1>1, <4>1, LastAndFront DEF n
    <3>3. Front(s) # <<>>  BY <3>1, <3>2, EmptySeq
    <3>4. Last(Front(s)) = Front(s)[n - 1]  BY <3>2, <3>3, LastAndFront
    <3>5. q = s[n - 1]  BY <1>3, <2>2, <3>1, <3>2, <3>4
    <3> QED  BY <1>2, <3>1, <3>5, TreeFacts
  <2> QED  BY <2>1, <2>2
<1>5. q # d  BY <1>1, <1>4 DEF n, s
<1>6. s = Append(Path(q), d)
  <2>1. /\ Append(Path(q), d) \in Seq(Names) /\ Len(Append(Path(q), d)) = n - 1 + 1
        /\ \A j \in 1 .. n - 1 : Append(Path(q), d)[j] = Path(q)[j]
        /\ Append(Path(q), d)[n - 1 + 1] = d
    BY <1>1, <1>4, AppendProperties
  <2> DEFINE t == Append(Path(q), d)
  <2> HIDE DEF t
  <2>2. n - 1 + 1 = n /\ \A j \in 1 .. n : j = n \/ j \in 1 .. n - 1  BY <1>1
  <2>3. t \in Seq(Names) /\ Len(t) = n /\ \A j \in 1 .. n : t[j] = s[j]
    BY <1>1, <1>4, <2>1, <2>2 DEF t
  <2>4. Len(s) = n  BY DEF n
  <2>5. s = t  BY <1>1, <2>3, <2>4, SeqEqual
  <2> QED  BY <2>5 DEF t
<1>7. ToSet(Path(q)) \subseteq ToSet(s)
  <2>1. DOMAIN Path(q) = 1 .. n - 1  BY <1>4, LenProperties
  <2>2. \A j \in 1 .. n - 1 : j \in 1 .. n  BY <1>1
  <2> QED  BY <1>1, <1>4, <2>1, <2>2 DEF ToSet
<1> QED  BY <1>4, <1>5, <1>6, <1>7 DEF q, s

\* What is on the path of a directory on a path is on it too.
LEMMA PathsNest ==
  ASSUME TreeInv, NEW d \in Dirs
  PROVE  /\ ToSet(Path(d)) \subseteq Dirs /\ d \in ToSet(Path(d))
         /\ \A e \in ToSet(Path(d)) : ToSet(Path(e)) \subseteq ToSet(Path(d))
<1>1. DOMAIN Path(d) = 1 .. Len(Path(d)) /\ Len(Path(d)) \in Nat \ {0}  BY TreeFacts, LenProperties
<1>2. ToSet(Path(d)) = {Path(d)[i] : i \in 1 .. Len(Path(d))}  BY <1>1 DEF ToSet
<1>3. /\ Path(d)[Len(Path(d))] = d
      /\ \A i \in 1 .. Len(Path(d)) : /\ Path(d)[i] \in Dirs /\ Len(Path(Path(d)[i])) = i
                                     /\ \A j \in 1 .. i : Path(Path(d)[i])[j] = Path(d)[j]
  BY DEF TreeInv
<1>4. ASSUME NEW i \in 1 .. Len(Path(d)) PROVE ToSet(Path(Path(d)[i])) \subseteq ToSet(Path(d))
  <2> DEFINE e == Path(d)[i]
  <2>1. e \in Dirs /\ Len(Path(e)) = i /\ \A j \in 1 .. i : Path(e)[j] = Path(d)[j]  BY <1>3
  <2> HIDE DEF e
  <2>2. DOMAIN Path(e) = 1 .. i  BY <2>1, TreeFacts, LenProperties
  <2>3. \A j \in 1 .. i : j \in 1 .. Len(Path(d))  BY <1>1
  <2>4. ToSet(Path(e)) \subseteq ToSet(Path(d))  BY <1>2, <2>1, <2>2, <2>3 DEF ToSet
  <2> QED  BY <2>4 DEF e
<1>5. Len(Path(d)) \in 1 .. Len(Path(d))  BY <1>1
<1> QED  BY <1>2, <1>3, <1>4, <1>5

\* What the records of a change do to the queue: those of watched directories come
\* last, or one of an overflow.
QueueGrows(records) ==
  /\ queue' \in Seq(Records) /\ Len(queue) \in Nat /\ Len(queue') \in Nat /\ Len(queue) <= Len(queue')
  /\ \A k \in 1 .. Len(queue) : queue'[k] = queue[k]
  /\ \A k \in Len(queue) + 1 .. Len(queue') :
       \/ queue'[k] = Record("overflow", Root, NoName) /\ watching
       \/ \E i \in DOMAIN records : queue'[k] = records[i] /\ records[i].wd \in watches
  /\ ~ Overflows(records) => \A i \in DOMAIN records : records[i].wd \in watches =>
       \E k \in Len(queue) + 1 .. Len(queue') : queue'[k] = records[i]

\* They do.
LEMMA QueuedRecords ==
  ASSUME RecordsInv, MapInv, NEW records \in Seq(Records), queue' = Queued(records)
  PROVE  QueueGrows(records)
<1> DEFINE seen == Seen(records)
           n == Len(queue)
           K == {k \in DOMAIN records : records[k].wd \in watches}
<1>1. queue \in Seq(Records) /\ n \in Nat  BY LenProperties DEF RecordsInv
<1>2. DOMAIN records = 1 .. Len(records) /\ Len(records) \in Nat  BY LenProperties
<1>3. seen = Selected(records, K)  BY DEF Seen
<1> HIDE DEF K, seen
<1>4. seen \in Seq(Records) /\ Len(seen) \in Nat  BY <1>3, SelectionKeeps, LenProperties
<1>5. PICK at \in [1 .. Len(seen) -> 1 .. Len(records)] :
        /\ \A i \in 1 .. Len(seen) : at[i] \in K /\ seen[i] = records[at[i]]
        /\ \A k \in 1 .. Len(records) : k \in K => \E i \in 1 .. Len(seen) : at[i] = k
  BY <1>3, SelectionKeeps
<1>6. \A i \in 1 .. Len(seen) : \E k \in DOMAIN records : seen[i] = records[k] /\ records[k].wd \in watches
  BY <1>2, <1>5 DEF K
<1>7. \A k \in DOMAIN records : records[k].wd \in watches => \E i \in 1 .. Len(seen) : seen[i] = records[k]
  BY <1>2, <1>5 DEF K
<1>8. Overflows(records) <=> ~ (n + Len(seen) <= QueueRoom)
  BY <1>1, <1>4, WatchAssumption DEF Overflows, seen
<1> DEFINE over == Record("overflow", Root, NoName)
<1>9. over \in Records  BY DEF Record, Records, Root
<1>10. Queued(records) = IF n + Len(seen) <= QueueRoom THEN queue \o seen
                         ELSE IF queue # <<>> /\ Last(queue).mask = "overflow" THEN queue
                         ELSE Append(queue, over)
  BY DEF Queued, seen
<1> HIDE DEF over
<1>11. CASE n + Len(seen) <= QueueRoom
  <2>1. queue' = queue \o seen /\ ~ Overflows(records)  BY <1>8, <1>10, <1>11
  <2>2. /\ queue' \in Seq(Records) /\ Len(queue') = n + Len(seen)
        /\ \A k \in 1 .. n + Len(seen) : queue'[k] = IF k <= n THEN queue[k] ELSE seen[k - n]
    BY <1>1, <1>4, <2>1, ConcatProperties
  <2>3. \A k \in 1 .. n : k \in 1 .. n + Len(seen) /\ k <= n  BY <1>1, <1>4
  <2>4. \A k \in n + 1 .. n + Len(seen) : k \in 1 .. n + Len(seen) /\ ~ (k <= n) /\ k - n \in 1 .. Len(seen)
    BY <1>1, <1>4
  <2>5. \A i \in 1 .. Len(seen) : i + n \in n + 1 .. n + Len(seen) /\ (i + n) - n = i  BY <1>1, <1>4
  <2>6. \A i \in 1 .. Len(seen) : queue'[i + n] = seen[i]  BY <2>2, <2>4, <2>5
  <2>7. ASSUME NEW k \in n + 1 .. Len(queue')
        PROVE  \E i \in DOMAIN records : queue'[k] = records[i] /\ records[i].wd \in watches
    <3>1. k - n \in 1 .. Len(seen) /\ queue'[k] = seen[k - n]  BY <2>2, <2>4
    <3> QED  BY <1>6, <3>1
  <2>8. ASSUME NEW i \in DOMAIN records, records[i].wd \in watches
        PROVE  \E k \in n + 1 .. Len(queue') : queue'[k] = records[i]
    <3>1. PICK j \in 1 .. Len(seen) : seen[j] = records[i]  BY <1>7, <2>8
    <3>2. j + n \in n + 1 .. Len(queue') /\ queue'[j + n] = records[i]  BY <2>2, <2>5, <2>6, <3>1
    <3> QED  BY <3>2
  <2>9. Len(queue') \in Nat /\ n <= Len(queue') /\ \A k \in 1 .. n : queue'[k] = queue[k]
    BY <1>1, <1>4, <2>2, <2>3
  <2> QED  BY <1>1, <2>2, <2>7, <2>8, <2>9 DEF QueueGrows
<1>12. CASE ~ (n + Len(seen) <= QueueRoom)
  <2>1. Overflows(records)  BY <1>8, <1>12
  <2>2. watching
    <3>1. SUFFICES ASSUME ~ watching PROVE FALSE  BY DEF MapInv
    <3>2. watches = {} /\ queue = <<>>  BY <3>1 DEF MapInv
    <3>3. \A i \in 1 .. Len(seen) : FALSE  BY <1>6, <3>2
    <3>4. Len(seen) = 0  BY <1>4, <3>3
    <3>5. n = 0  BY <3>2
    <3> QED  BY <1>12, <3>4, <3>5, WatchAssumption
  <2>3. CASE queue' = queue
    <3>1. n + 1 .. n = {} /\ n <= n  BY <1>1
    <3> QED  BY <1>1, <2>1, <2>3, <3>1 DEF QueueGrows
  <2>4. CASE queue' = Append(queue, over)
    <3>1. /\ queue' \in Seq(Records) /\ Len(queue') = n + 1 /\ queue'[n + 1] = over
          /\ \A k \in 1 .. n : queue'[k] = queue[k]
      BY <1>1, <1>9, <2>4, AppendProperties
    <3>2. n + 1 .. n + 1 = {n + 1} /\ n <= n + 1 /\ n + 1 \in Nat  BY <1>1
    <3>3. \A k \in n + 1 .. Len(queue') : queue'[k] = over /\ watching  BY <2>2, <3>1, <3>2
    <3>4. Len(queue') \in Nat /\ n <= Len(queue')  BY <3>1, <3>2
    <3> HIDE DEF n
    <3> QED  BY <1>1, <2>1, <3>1, <3>3, <3>4 DEF QueueGrows, over, n
  <2> QED  BY <1>10, <1>12, <2>3, <2>4
<1> QED  BY <1>11, <1>12

\* The places of a queue that has grown from n records to m.
LEMMA PlacesOfGrowth ==
  ASSUME NEW n \in Nat, NEW m \in Nat, n <= m
  PROVE  /\ \A k \in 1 .. m : k \in 1 .. n \/ k \in n + 1 .. m
         /\ \A k \in 1 .. n : k \in 1 .. m
         /\ \A k \in n + 1 .. m : k \in 1 .. m
         /\ \A k \in 0 .. n : \A l \in k + 1 .. n : l \in k + 1 .. m /\ l \in 1 .. n
         /\ \A k \in 0 .. n : \A l \in n + 1 .. m : l \in k + 1 .. m
         /\ (\A k \in n + 1 .. m : FALSE) => m = n
<1>1. (\A k \in n + 1 .. m : FALSE) => m = n
  <2>1. m # n => m \in n + 1 .. m  OBVIOUS
  <2> QED  BY <2>1
<1> QED  BY <1>1

\* What the records of a change are.
LEMMA FieldsOfRecord ==
  \A mask, wd, name : /\ Record(mask, wd, name).mask = mask /\ Record(mask, wd, name).wd = wd
                      /\ Record(mask, wd, name).name = name
BY DEF Record

\* A change takes watches away with their directories, and says so in its records.
TakesWatches(records) ==
  /\ inodes' \in Nat /\ inodes <= inodes' /\ watches' \subseteq watches /\ watches' \subseteq Live'
  /\ Live' \cap 0 .. inodes \subseteq Live /\ watches \cap Live' \subseteq watches'
  /\ \A i \in DOMAIN records : records[i].mask = "ignored" => records[i].wd \notin Live'
  /\ \A wd \in watches \ watches' : \E i \in DOMAIN records : records[i] = Record("ignored", wd, NoName)

\* The map goes on following the kernel.
LEMMA ChangeKeepsMap ==
  ASSUME TreeInv, RecordsInv, MapInv, NEW records \in Seq(Records), Changed(records), TakesWatches(records)
  PROVE  RecordsInv' /\ MapInv'
<1>1. /\ queue' = Queued(records) /\ overflowed' = (overflowed \/ Overflows(records))
      /\ maps' = maps /\ scan' = scan /\ watching' = watching
  BY DEF Changed
<1> DEFINE n == Len(queue)
<1>2. QueueGrows(records)  BY <1>1, QueuedRecords
<1>3. /\ queue' \in Seq(Records) /\ n \in Nat /\ Len(queue') \in Nat /\ n <= Len(queue')
      /\ \A k \in 1 .. n : queue'[k] = queue[k]
      /\ \A k \in n + 1 .. Len(queue') :
           \/ queue'[k] = Record("overflow", Root, NoName) /\ watching
           \/ \E i \in DOMAIN records : queue'[k] = records[i] /\ records[i].wd \in watches
      /\ ~ Overflows(records) => \A i \in DOMAIN records : records[i].wd \in watches =>
           \E k \in n + 1 .. Len(queue') : queue'[k] = records[i]
  BY <1>2 DEF QueueGrows
<1>4. DOMAIN queue = 1 .. n /\ DOMAIN queue' = 1 .. Len(queue')
  BY <1>3, LenProperties DEF RecordsInv
<1> HIDE DEF n
<1>5. \A k \in 1 .. Len(queue') : k \in 1 .. n \/ k \in n + 1 .. Len(queue')  BY <1>3, PlacesOfGrowth
<1>6. (\A k \in 1 .. n : k \in 1 .. Len(queue')) /\ \A k \in n + 1 .. Len(queue') : k \in 1 .. Len(queue')
  BY <1>3, PlacesOfGrowth
<1>17. /\ inodes' \in Nat /\ inodes <= inodes' /\ watches' \subseteq watches /\ watches' \subseteq Live'
       /\ Live' \cap 0 .. inodes \subseteq Live /\ watches \cap Live' \subseteq watches'
  BY DEF TakesWatches
<1>7. Live \subseteq 0 .. inodes /\ Root \in Live /\ Root \in Live' /\ 0 .. inodes \subseteq 0 .. inodes'
      /\ Root \in 0 .. inodes' /\ watches \subseteq 0 .. inodes
  <2>1. inodes \in Nat /\ \A d \in Dirs : Inode(d) \in 1 .. inodes  BY DEF TreeInv
  <2>2. \A i, j \in Nat : i <= j => 0 \in 0 .. i /\ 1 .. i \subseteq 0 .. i /\ 0 .. i \subseteq 0 .. j
    OBVIOUS
  <2>3. Root \in 0 .. inodes /\ 1 .. inodes \subseteq 0 .. inodes /\ 0 .. inodes \subseteq 0 .. inodes'
    BY <1>17, <2>1, <2>2 DEF Root
  <2> QED  BY <2>1, <2>3 DEF Live, MapInv
<1>8. watching => Root \in watches'  BY <1>7, <1>17 DEF MapInv
<1>9. ASSUME NEW k \in DOMAIN queue'
      PROVE  /\ queue'[k].wd \in 0 .. inodes'
             /\ queue'[k].mask = "ignored" => queue'[k].wd \notin Live'
             /\ queue'[k].wd \in Live' => queue'[k].wd \in watches'
  <2>1. CASE k \in 1 .. n
    <3>1. /\ queue[k].wd \in 0 .. inodes
          /\ queue[k].mask = "ignored" => queue[k].wd \notin Live
          /\ queue[k].wd \in Live => queue[k].wd \in watches
      BY <1>4, <2>1 DEF RecordsInv
    <3>2. queue'[k] = queue[k]  BY <1>3, <2>1
    <3>3. queue[k].wd \in Live' => queue[k].wd \in Live  BY <1>17, <3>1
    <3> QED  BY <1>7, <1>17, <3>1, <3>2, <3>3
  <2>2. CASE k \in n + 1 .. Len(queue')
    <3>1. CASE queue'[k] = Record("overflow", Root, NoName) /\ watching
      <4>1. queue'[k].wd = Root /\ queue'[k].mask = "overflow"  BY <3>1, FieldsOfRecord
      <4> QED  BY <1>7, <1>8, <3>1, <4>1
    <3>2. ASSUME NEW i \in DOMAIN records, queue'[k] = records[i], records[i].wd \in watches
          PROVE  /\ queue'[k].wd \in 0 .. inodes'
                 /\ queue'[k].mask = "ignored" => queue'[k].wd \notin Live'
                 /\ queue'[k].wd \in Live' => queue'[k].wd \in watches'
      BY <1>7, <1>17, <3>2 DEF TakesWatches
    <3> QED  BY <1>3, <2>2, <3>1, <3>2
  <2> QED  BY <1>4, <1>5, <2>1, <2>2
<1>10. RecordsInv'  BY <1>3, <1>9 DEF RecordsInv
<1>11. ~ watching => queue' = <<>>
  <2>1. SUFFICES ASSUME ~ watching PROVE queue' = <<>>  OBVIOUS
  <2>2. watches = {} /\ queue = <<>>  BY <2>1 DEF MapInv
  <2>3. n = 0  BY <2>2 DEF n
  <2>4. \A k \in n + 1 .. Len(queue') : FALSE  BY <1>3, <2>1, <2>2
  <2>5. Len(queue') = 0  BY <1>3, <2>3, <2>4, PlacesOfGrowth
  <2> QED  BY <1>3, <2>5, EmptySeq
<1>12. ASSUME NEW wd \in WatchesOf(maps) \ watches'
       PROVE  overflowed' \/ \E k \in DOMAIN queue' : queue'[k] = Record("ignored", wd, NoName)
  <2>1. CASE wd \in watches
    <3>1. PICK i \in DOMAIN records : records[i] = Record("ignored", wd, NoName)  BY <1>12, <2>1 DEF TakesWatches
    <3>2. records[i].wd = wd  BY <3>1, FieldsOfRecord
    <3>3. ~ Overflows(records) => \E k \in n + 1 .. Len(queue') : queue'[k] = records[i]
      BY <1>3, <2>1, <3>2
    <3> QED  BY <1>1, <1>4, <1>6, <3>1, <3>3
  <2>2. CASE wd \notin watches
    <3>1. overflowed \/ \E k \in DOMAIN queue : queue[k] = Record("ignored", wd, NoName)
      BY <1>12, <2>2 DEF MapInv
    <3> QED  BY <1>1, <1>3, <1>4, <1>6, <3>1
  <2> QED  BY <2>1, <2>2
<1>13. WatchesOf(maps)' = WatchesOf(maps) /\ EntryFor("/")' = EntryFor("/") /\ OneEntryEach(maps)' = OneEntryEach(maps)
  BY <1>1 DEF WatchesOf, EntryFor, Inode, Path, OneEntryEach
<1>14. overflowed' \in BOOLEAN  BY <1>1 DEF MapInv, Overflows
<1>15. /\ maps \in Seq(WatchEntries) /\ OneEntryEach(maps) /\ watches' \subseteq WatchesOf(maps)
       /\ watching \in BOOLEAN /\ scan \subseteq Seq(Names)
       /\ ~ watching => watches' = {} /\ maps = <<>> /\ scan = {}
       /\ watching => EntryFor("/") \in ToSet(maps)
  BY <1>17 DEF MapInv
<1>16. MapInv'
  BY <1>1, <1>8, <1>11, <1>12, <1>13, <1>14, <1>15, <1>17 DEF MapInv
<1> QED  BY <1>10, <1>16

\* A directory that stays where it is, and what is above it.
Stays(d) == d \in Dirs' /\ Path(d)' = Path(d) /\ Inode(d)' = Inode(d)

PathStays(x) == \A e \in ToSet(Path(x)) : Stays(e)

\* None of the records says that d appeared.
SaysNothingOf(records, d) ==
  \A i \in DOMAIN records : records[i].mask \in {"create", "moved_to"} => records[i].name # d

\* It stays reached when the tree changes, if no parent of it is said to appear.
LEMMA ChangeReaches ==
  ASSUME TreeInv, TreeInv', RecordsInv, MapInv, ReachInv, NEW records \in Seq(Records), Changed(records),
         missed \subseteq missed', stale \subseteq stale', NEW x \in Dirs, PathStays(x),
         SaysNothingOf(records, Parent(x)), watching', ~ overflowed', Known(x)'
  PROVE  Reached(x, 0)' /\ BehindItsParent(x)'
<1>1. /\ queue' = Queued(records) /\ overflowed' = (overflowed \/ Overflows(records))
      /\ maps' = maps /\ scan' = scan /\ watching' = watching
  BY DEF Changed
<1> DEFINE n == Len(queue)
<1>2. QueueGrows(records)  BY <1>1, QueuedRecords
<1>3. /\ queue' \in Seq(Records) /\ n \in Nat /\ Len(queue') \in Nat /\ n <= Len(queue')
      /\ \A k \in 1 .. n : queue'[k] = queue[k]
      /\ \A k \in n + 1 .. Len(queue') :
           \/ queue'[k] = Record("overflow", Root, NoName) /\ watching
           \/ \E i \in DOMAIN records : queue'[k] = records[i] /\ records[i].wd \in watches
  BY <1>2 DEF QueueGrows
<1>4. DOMAIN queue = 1 .. n /\ DOMAIN queue' = 1 .. Len(queue')
  BY <1>3, LenProperties DEF RecordsInv
<1> HIDE DEF n
<1>5. /\ \A k \in 1 .. Len(queue') : k \in 1 .. n \/ k \in n + 1 .. Len(queue')
      /\ \A k \in 0 .. n : \A l \in k + 1 .. n : l \in k + 1 .. Len(queue') /\ l \in 1 .. n
  BY <1>3, PlacesOfGrowth
<1>6. PICK q : q = Parent(x)  OBVIOUS
<1>7. /\ q \in Dirs \cup {"/"} /\ ToSet(Path(q)) \subseteq ToSet(Path(x))
      /\ x \in ToSet(Path(x)) /\ ToSet(Path(x)) \subseteq Dirs
  BY <1>6, AboveADirectory, PathsNest
<1>8. /\ \A e \in ToSet(Path(x)) : Stays(e)
      /\ Path("/")' = Path("/") /\ Inode("/")' = Inode("/") /\ "/" \notin Dirs /\ "/" \notin Dirs'
  BY WatchAssumption DEF Path, Inode, TreeInv, PathStays
<1>9. q \in Dirs => q \in ToSet(Path(x)) /\ Stays(q)
  BY <1>7, <1>8, PathsNest
<1>10. Parent(x)' = q /\ Inode(q)' = Inode(q) /\ x \in Dirs' /\ q \in Dirs' \cup {"/"}
       /\ Inode(x)' = Inode(x) /\ Path(x)' = Path(x)
  BY <1>6, <1>7, <1>8, <1>9 DEF Stays, Parent
<1>11. ASSUME NEW k \in 0 .. n, Reached(x, k) PROVE Reached(x, k)'
  <2>1. EntryFor(x)' = EntryFor(x)  BY <1>10 DEF EntryFor
  <2>2. CASE EntryFor(x) \in ToSet(maps)  BY <1>1, <2>1, <2>2 DEF Reached
  <2>3. CASE \E prefix \in scan : IsStrictPrefix(prefix, Path(x))  BY <1>1, <1>10, <2>3 DEF Reached
  <2>4. ASSUME NEW l \in k + 1 .. n, Announces(l, x) PROVE Reached(x, k)'
    <3>1. l \in k + 1 .. Len(queue') /\ queue'[l] = queue[l]  BY <1>3, <1>5
    <3>2. queue[l].mask \in {"create", "moved_to"} /\ queue[l].name = x /\ queue[l].wd = Inode(q)
      BY <1>6, <2>4 DEF Announces
    <3>3. Announces(l, x)'  BY <1>10, <3>1, <3>2 DEF Announces
    <3> QED  BY <3>1, <3>3 DEF Reached
  <2> QED  BY <1>11, <2>2, <2>3, <2>4 DEF Reached, n
<1>12. Known(x)
  <2>1. \A e \in ToSet(Path(x)) : Inode(e)' = Inode(e)  BY <1>8 DEF Stays
  <2>2. \A e \in ToSet(Path(x)) : Inode(e)' \notin missed' \cup stale'  BY <1>10 DEF Known
  <2> QED  BY <2>1, <2>2 DEF Known
<1>13. Reached(x, 0) /\ BehindItsParent(x)  BY <1>1, <1>12 DEF ReachInv
<1>14. Reached(x, 0)'
  <2>1. \A i \in Nat : 0 \in 0 .. i  OBVIOUS
  <2>2. 0 \in 0 .. n  BY <1>3, <2>1
  <2> QED  BY <1>11, <1>13, <2>2
<1>15. ASSUME q \in Dirs', NEW k \in DOMAIN queue', Announces(k, q)' PROVE Reached(x, k)'
  <2>1. queue'[k].mask \in {"create", "moved_to"} /\ queue'[k].name = q  BY <1>15 DEF Announces
  <2>2. CASE k \in 1 .. n
    <3>1. q \in Dirs /\ q \in ToSet(Path(x)) /\ Stays(q)  BY <1>7, <1>8, <1>9, <1>15
    <3>2. PICK p : p = Parent(q)  OBVIOUS
    <3>3. p \in Dirs \cup {"/"} /\ ToSet(Path(p)) \subseteq ToSet(Path(q))  BY <3>1, <3>2, AboveADirectory
    <3>4. p \in Dirs => p \in ToSet(Path(x)) /\ Stays(p)  BY <1>8, <3>1, <3>3, PathsNest
    <3>5. Parent(q)' = p /\ Inode(p)' = Inode(p)  BY <1>8, <3>1, <3>2, <3>3, <3>4 DEF Stays, Parent
    <3>6. queue'[k].wd = Inode(p)  BY <1>15, <3>5 DEF Announces
    <3>7. Announces(k, q)  BY <1>3, <2>1, <2>2, <3>2, <3>3, <3>6 DEF Announces
    <3>8. Reached(x, k)  BY <1>4, <1>6, <1>13, <2>2, <3>1, <3>7 DEF BehindItsParent
    <3>9. k \in 0 .. n  BY <1>3, <2>2
    <3> QED  BY <1>11, <3>8, <3>9
  <2>3. CASE k \in n + 1 .. Len(queue')
    <3>1. CASE queue'[k] = Record("overflow", Root, NoName)
      <4>1. queue'[k].mask = "overflow"  BY <3>1, FieldsOfRecord
      <4> QED  BY <2>1, <4>1
    <3>2. ASSUME NEW i \in DOMAIN records, queue'[k] = records[i] PROVE FALSE
      BY <1>6, <2>1, <3>2 DEF SaysNothingOf
    <3> QED  BY <1>3, <2>3, <3>1, <3>2
  <2> QED  BY <1>4, <1>5, <1>15, <2>2, <2>3
<1>16. BehindItsParent(x)'  BY <1>10, <1>15 DEF BehindItsParent
<1> QED  BY <1>14, <1>16

\* A directory whose appearance in p is queued is reached behind the records of p.
LEMMA ChangeAnnounces ==
  ASSUME RecordsInv, MapInv, NEW records \in Seq(Records), Changed(records),
         NEW x \in Dirs', NEW p \in Dirs' \cup {"/"}, Parent(x)' = p,
         NEW i \in DOMAIN records, records[i].mask \in {"create", "moved_to"}, records[i].name = x,
         records[i].wd = Inode(p)', records[i].wd \in watches,
         SaysNothingOf(records, p), ~ overflowed'
  PROVE  Reached(x, 0)' /\ BehindItsParent(x)'
<1>1. queue' = Queued(records) /\ ~ Overflows(records)  BY DEF Changed
<1> DEFINE n == Len(queue)
<1>2. QueueGrows(records)  BY <1>1, QueuedRecords
<1>3. /\ n \in Nat /\ Len(queue') \in Nat /\ n <= Len(queue') /\ queue' \in Seq(Records)
      /\ \A k \in n + 1 .. Len(queue') :
           \/ queue'[k] = Record("overflow", Root, NoName) /\ watching
           \/ \E j \in DOMAIN records : queue'[k] = records[j] /\ records[j].wd \in watches
      /\ \E k \in n + 1 .. Len(queue') : queue'[k] = records[i]
  BY <1>1, <1>2 DEF QueueGrows
<1>4. DOMAIN queue' = 1 .. Len(queue')  BY <1>3, LenProperties
<1> HIDE DEF n
<1>5. PICK l \in n + 1 .. Len(queue') : queue'[l] = records[i]  BY <1>3
<1>6. Announces(l, x)'  BY <1>5 DEF Announces
<1>7. \A k \in 0 .. n : l \in k + 1 .. Len(queue')  BY <1>3, <1>5
<1>8. \A k \in 0 .. n : Reached(x, k)'  BY <1>6, <1>7 DEF Reached
<1>9. 0 \in 0 .. n /\ \A k \in 1 .. Len(queue') : k \in 0 .. n \/ k \in n + 1 .. Len(queue')  BY <1>3
<1>10. ASSUME NEW k \in DOMAIN queue', Announces(k, p)' PROVE Reached(x, k)'
  <2>1. queue'[k].mask \in {"create", "moved_to"} /\ queue'[k].name = p  BY <1>10 DEF Announces
  <2>2. CASE k \in 0 .. n  BY <1>8, <2>2
  <2>3. CASE k \in n + 1 .. Len(queue')
    <3>1. CASE queue'[k] = Record("overflow", Root, NoName)
      <4>1. queue'[k].mask = "overflow"  BY <3>1, FieldsOfRecord
      <4> QED  BY <2>1, <4>1
    <3>2. ASSUME NEW j \in DOMAIN records, queue'[k] = records[j] PROVE FALSE
      BY <2>1, <3>2 DEF SaysNothingOf
    <3> QED  BY <1>3, <2>3, <3>1, <3>2
  <2> QED  BY <1>4, <1>9, <1>10, <2>2, <2>3
<1>11. BehindItsParent(x)'  BY <1>10 DEF BehindItsParent
<1> QED  BY <1>8, <1>9, <1>11

\* A place directories can be in: its path, and the paths on it.
LEMMA PlaceInTree ==
  ASSUME TreeInv, NEW p \in Dirs \cup {"/"}
  PROVE  /\ Path(p) \in Seq(Names) /\ Len(Path(p)) \in Nat /\ DOMAIN Path(p) = 1 .. Len(Path(p))
         /\ Inode(p) \in 0 .. inodes /\ Inode(p) \in Live
         /\ p = "/" <=> Len(Path(p)) = 0
         /\ p # "/" => Path(p)[Len(Path(p))] = p
         /\ \A i \in 1 .. Len(Path(p)) :
              /\ Path(p)[i] \in Dirs /\ Path(p)[i] \in ToSet(Path(p)) /\ Len(Path(Path(p)[i])) = i
              /\ \A j \in 1 .. i : Path(Path(p)[i])[j] = Path(p)[j]
<1>1. inodes \in Nat /\ \A i \in Nat : 0 \in 0 .. i /\ \A k \in 1 .. i : k \in 0 .. i
  BY DEF TreeInv
<1>2. CASE p = "/"
  <2>1. Path(p) = <<>> /\ Inode(p) = 0  BY <1>2 DEF Path, Inode, Root
  <2>2. Path(p) \in Seq(Names) /\ Len(Path(p)) = 0 /\ DOMAIN Path(p) = 1 .. 0  BY <2>1, EmptySeq, LenProperties
  <2>3. Inode(p) \in Live  BY <2>1 DEF Live, Root
  <2> QED  BY <1>1, <1>2, <2>1, <2>2, <2>3
<1>3. CASE p \in Dirs
  <2>1. /\ Path(p) \in Seq(Names) /\ Len(Path(p)) \in Nat \ {0} /\ p # "/"
        /\ DOMAIN Path(p) = 1 .. Len(Path(p))
    BY <1>3, TreeFacts, LenProperties
  <2>2. Inode(p) \in 1 .. inodes /\ Inode(p) \in Live  BY <1>3 DEF TreeInv, Live
  <2>3. /\ Path(p)[Len(Path(p))] = p
        /\ \A i \in 1 .. Len(Path(p)) :
              /\ Path(p)[i] \in Dirs /\ Len(Path(Path(p)[i])) = i
              /\ \A j \in 1 .. i : Path(Path(p)[i])[j] = Path(p)[j]
    BY <1>3 DEF TreeInv
  <2>4. \A i \in 1 .. Len(Path(p)) : Path(p)[i] \in ToSet(Path(p))  BY <2>1 DEF ToSet
  <2> QED  BY <1>1, <2>1, <2>2, <2>3, <2>4
<1> QED  BY <1>2, <1>3

\* The directory above the last one of a path.
LEMMA LastButOne ==
  ASSUME NEW s \in Seq(Names), NEW m \in Nat, Len(s) = m + 1, NEW p,
         m = 0 => p = "/", m # 0 => s[m] = p
  PROVE  (IF Len(s) = 1 THEN "/" ELSE Last(Front(s))) = p
<1>1. CASE m = 0  BY <1>1
<1>2. CASE m # 0
  <2>1. m \in 1 .. (m + 1) - 1 /\ m + 1 # 1 /\ m + 1 # 0 /\ m # 0 /\ (m + 1) - 1 = m  BY <1>2
  <2>2. s # <<>>  BY <2>1, EmptySeq
  <2>3. Front(s) \in Seq(Names) /\ Len(Front(s)) = m /\ Front(s)[m] = s[m]  BY <2>1, <2>2, LastAndFront
  <2>4. Front(s) # <<>>  BY <2>1, <2>3, EmptySeq
  <2>5. Last(Front(s)) = s[m]  BY <2>3, <2>4, LastAndFront
  <2> QED  BY <1>2, <2>1, <2>5
<1> QED  BY <1>1, <1>2

\* A directory that is made.
LEMMA MakeDirKeepsTree ==
  ASSUME TreeInv, NEW d \in Names, NEW p \in Names \cup {"/"}, MakeDir(d, p)
  PROVE  /\ TreeInv' /\ Dirs' = Dirs \cup {d} /\ Inode(d)' = inodes + 1
         /\ Path(d)' = Append(Path(p), d) /\ Parent(d)' = p
         /\ \A e \in Dirs : Stays(e)
<1>1. /\ d \notin Dirs /\ p \in Dirs \cup {"/"} /\ inodes' = inodes + 1 /\ d # "/"
      /\ tree' = [n \in Dirs \cup {d} |-> IF n = d THEN [inode |-> inodes + 1, path |-> Append(Path(p), d)]
                                         ELSE tree[n]]
  BY WatchAssumption DEF MakeDir
<1> DEFINE m == Len(Path(p))
           s == Append(Path(p), d)
<1>2. Path(p) \in Seq(Names) /\ m \in Nat /\ (p = "/" <=> m = 0) /\ (p # "/" => Path(p)[m] = p)
  BY <1>1, PlaceInTree
<1>3. \A i \in 1 .. m : /\ Path(p)[i] \in Dirs /\ Len(Path(Path(p)[i])) = i
                       /\ \A j \in 1 .. i : Path(Path(p)[i])[j] = Path(p)[j]
  BY <1>1, PlaceInTree
<1>4. s \in Seq(Names) /\ Len(s) = m + 1 /\ s[m + 1] = d /\ \A i \in 1 .. m : s[i] = Path(p)[i]
  BY <1>2, AppendProperties
<1>5. Dirs' = Dirs \cup {d}  BY <1>1 DEF Dirs
<1>6. Inode(d)' = inodes + 1 /\ Path(d)' = s
  <2>1. tree'[d] = [inode |-> inodes + 1, path |-> s]  BY <1>1
  <2> HIDE DEF s
  <2> QED  BY <1>1, <2>1 DEF Inode, Path
<1>7. \A e \in Dirs : tree'[e] = tree[e] /\ e # d /\ e # "/"
  <2>1. \A e \in Dirs : e # "/"  BY TreeFacts
  <2>2. \A e \in Dirs : e # d /\ e \in Dirs \cup {d}  BY <1>1
  <2>3. \A e \in Dirs : tree'[e] = tree[e]  BY <1>1, <2>2
  <2> QED  BY <2>1, <2>2, <2>3
<1>8. \A e \in Dirs : Stays(e)  BY <1>5, <1>7 DEF Stays, Inode, Path
<1>9. /\ inodes \in Nat /\ IsFiniteSet(Dirs) /\ Dirs \subseteq Names
      /\ tree \in [Dirs -> [inode : Nat, path : Seq(Names)]]
      /\ \A e \in Dirs : Inode(e) \in 1 .. inodes
      /\ \A e, f \in Dirs : Inode(e) = Inode(f) => e = f
      /\ \A e \in Dirs : Len(Path(e)) > 0 /\ Path(e)[Len(Path(e))] = e
      /\ \A e \in Dirs : \A i \in 1 .. Len(Path(e)) :
           /\ Path(e)[i] \in Dirs /\ Len(Path(Path(e)[i])) = i
           /\ \A j \in 1 .. i : Path(Path(e)[i])[j] = Path(e)[j]
  <2> HIDE DEF s, m
  <2>1. /\ inodes \in Nat /\ IsFiniteSet(Dirs) /\ Dirs \subseteq Names
        /\ tree \in [Dirs -> [inode : Nat, path : Seq(Names)]]
        /\ \A e \in Dirs : Inode(e) \in 1 .. inodes
        /\ \A e, f \in Dirs : Inode(e) = Inode(f) => e = f
        /\ \A e \in Dirs : Len(Path(e)) > 0 /\ Path(e)[Len(Path(e))] = e
        /\ \A e \in Dirs : \A i \in 1 .. Len(Path(e)) :
             \E c \in Dirs : /\ c = Path(e)[i] /\ Len(Path(c)) = i
                            /\ \A j \in 1 .. i : Path(c)[j] = Path(e)[j]
    BY Zenon DEF TreeInv
  <2>2. ASSUME NEW e \in Dirs, NEW i \in 1 .. Len(Path(e))
        PROVE  /\ Path(e)[i] \in Dirs /\ Len(Path(Path(e)[i])) = i
               /\ \A j \in 1 .. i : Path(Path(e)[i])[j] = Path(e)[j]
    <3>1. PICK c \in Dirs : /\ c = Path(e)[i] /\ Len(Path(c)) = i
                           /\ \A j \in 1 .. i : Path(c)[j] = Path(e)[j]
      BY <2>1, Zenon
    <3> QED  BY <3>1, Zenon
  <2> QED  BY <2>1, <2>2, Zenon
<1> HIDE DEF s, m
<1>10. inodes' \in Nat /\ IsFiniteSet(Dirs') /\ Dirs' \subseteq Names
  <2>1. IsFiniteSet(Dirs \cup {d})  BY <1>9, FS_AddElement
  <2> QED  BY <1>1, <1>5, <1>9, <2>1
<1>11. tree' \in [Dirs' -> [inode : Nat, path : Seq(Names)]]
  <2>1. [inode |-> inodes + 1, path |-> s] \in [inode : Nat, path : Seq(Names)]  BY <1>4, <1>9
  <2>2. \A e \in Dirs : tree[e] \in [inode : Nat, path : Seq(Names)]  BY <1>9
  <2>3. tree' = [n \in Dirs' |-> IF n = d THEN [inode |-> inodes + 1, path |-> s] ELSE tree[n]]
    BY <1>1, <1>5 DEF s
  <2> QED  BY <1>5, <2>1, <2>2, <2>3
<1>12. \A i \in Nat : i + 1 \in 1 .. i + 1 /\ i + 1 \notin 1 .. i /\ \A k \in 1 .. i : k \in 1 .. i + 1
  OBVIOUS
<1>13. \A e \in Dirs' : Inode(e)' \in 1 .. inodes'
  BY <1>1, <1>5, <1>6, <1>8, <1>9, <1>12 DEF Stays
<1>14. \A e, f \in Dirs' : Inode(e)' = Inode(f)' => e = f
  <2>1. \A e \in Dirs : Inode(e)' # inodes + 1 /\ Inode(e)' = Inode(e)  BY <1>8, <1>9, <1>12 DEF Stays
  <2> QED  BY <1>5, <1>6, <1>9, <2>1
<1>15. \A i \in 1 .. m + 1 : i \in 1 .. m \/ i = m + 1  BY <1>2
<1>16. \A i \in 1 .. m : \A j \in 1 .. i : j \in 1 .. m  BY <1>2
<1>17. ASSUME NEW e \in Dirs'
       PROVE  /\ Len(Path(e)') > 0 /\ Path(e)'[Len(Path(e)')] = e
              /\ \A i \in 1 .. Len(Path(e)') :
                   \E c \in Dirs' : /\ c = Path(e)'[i] /\ Len(Path(c)') = i
                                     /\ \A j \in 1 .. i : Path(c)'[j] = Path(e)'[j]
  <2>1. CASE e \in Dirs
    <3>1. Path(e)' = Path(e)  BY <1>8, <2>1 DEF Stays
    <3>2. ASSUME NEW i \in 1 .. Len(Path(e)), NEW c, c = Path(e)[i]
          PROVE  c \in Dirs' /\ Len(Path(c)') = i /\ \A j \in 1 .. i : Path(c)'[j] = Path(e)[j]
      <4>1. c \in Dirs /\ Len(Path(c)) = i /\ \A j \in 1 .. i : Path(c)[j] = Path(e)[j]
        BY <1>9, <2>1, <3>2
      <4>2. Path(c)' = Path(c) /\ c \in Dirs'  BY <1>8, <4>1 DEF Stays
      <4> QED  BY <4>1, <4>2
    <3> QED  BY <1>9, <2>1, <3>1, <3>2
  <2>2. CASE e = d
    <3>1. Path(e)' = s  BY <1>6, <2>2
    <3>2. m + 1 > 0  BY <1>2
    <3>3. ASSUME NEW i \in 1 .. m + 1, NEW c, c = s[i]
          PROVE  c \in Dirs' /\ Len(Path(c)') = i /\ \A j \in 1 .. i : Path(c)'[j] = s[j]
      <4>1. CASE i = m + 1  BY <1>4, <1>5, <1>6, <3>3, <4>1
      <4>2. CASE i \in 1 .. m
        <5>1. c \in Dirs /\ Len(Path(c)) = i /\ \A j \in 1 .. i : Path(c)[j] = Path(p)[j]
          BY <1>3, <1>4, <3>3, <4>2
        <5>2. Path(c)' = Path(c) /\ c \in Dirs'  BY <1>8, <5>1 DEF Stays
        <5> QED  BY <1>4, <1>16, <4>2, <5>1, <5>2
      <4> QED  BY <1>15, <3>3, <4>1, <4>2
    <3> QED  BY <1>4, <2>2, <3>1, <3>2, <3>3
  <2> QED  BY <1>5, <2>1, <2>2
<1>18. TreeInv'  BY <1>10, <1>11, <1>13, <1>14, <1>17 DEF TreeInv
<1>19. Parent(d)' = p
  <2>1. m # 0 => s[m] = p
    <3>1. m # 0 => m \in 1 .. m  BY <1>2
    <3> QED  BY <1>2, <1>4, <3>1
  <2>2. (IF Len(s) = 1 THEN "/" ELSE Last(Front(s))) = p  BY <1>2, <1>4, <2>1, LastButOne
  <2> QED  BY <1>6, <2>2 DEF Parent
<1> QED  BY <1>5, <1>6, <1>8, <1>18, <1>19 DEF s

\* A directory that is removed: it is on no other path.
LEMMA RemoveDirKeepsTree ==
  ASSUME TreeInv, NEW d \in Names, RemoveDir(d)
  PROVE  TreeInv' /\ Dirs' = Dirs \ {d} /\ \A e \in Dirs \ {d} : PathStays(e)
<1>1. /\ d \in Dirs /\ Below(d) = {} /\ inodes' = inodes /\ tree' = [n \in Dirs \ {d} |-> tree[n]]
  BY DEF RemoveDir
<1>2. Dirs' = Dirs \ {d}  BY <1>1 DEF Dirs
<1>3. \A e \in Dirs : e # "/"  BY TreeFacts
<1>4. \A e \in Dirs \ {d} : tree'[e] = tree[e]  BY <1>1
<1>5. \A e \in Dirs \ {d} : Stays(e)  BY <1>2, <1>3, <1>4 DEF Stays, Inode, Path
<1>6. ASSUME NEW e \in Dirs \ {d} PROVE \A c \in ToSet(Path(e)) : c \in Dirs \ {d}
  <2>1. e \notin Below(d)  BY <1>1
  <2>2. d \notin ToSet(Path(e))  BY <1>6, <2>1 DEF Below
  <2>3. ToSet(Path(e)) \subseteq Dirs  BY <1>6, PathsNest
  <2> QED  BY <2>2, <2>3
<1>7. \A e \in Dirs \ {d} : PathStays(e)  BY <1>5, <1>6 DEF PathStays
<1>8. /\ inodes \in Nat /\ IsFiniteSet(Dirs) /\ Dirs \subseteq Names
      /\ tree \in [Dirs -> [inode : Nat, path : Seq(Names)]]
      /\ \A e \in Dirs : Inode(e) \in 1 .. inodes
      /\ \A e, f \in Dirs : Inode(e) = Inode(f) => e = f
      /\ \A e \in Dirs : Len(Path(e)) > 0 /\ Path(e)[Len(Path(e))] = e
  BY DEF TreeInv
<1>9. inodes' \in Nat /\ IsFiniteSet(Dirs') /\ Dirs' \subseteq Names
  <2>1. IsFiniteSet(Dirs \ {d})  BY <1>8, FS_RemoveElement
  <2> QED  BY <1>1, <1>2, <1>8, <2>1
<1>10. tree' \in [Dirs' -> [inode : Nat, path : Seq(Names)]]
  <2>1. \A e \in Dirs : tree[e] \in [inode : Nat, path : Seq(Names)]  BY <1>8
  <2>2. tree' = [n \in Dirs' |-> tree[n]]  BY <1>1, <1>2
  <2> QED  BY <1>2, <2>1, <2>2
<1>11. \A e \in Dirs' : Inode(e)' \in 1 .. inodes'  BY <1>1, <1>2, <1>5, <1>8 DEF Stays
<1>12. \A e, f \in Dirs' : Inode(e)' = Inode(f)' => e = f  BY <1>2, <1>5, <1>8 DEF Stays
<1>13. ASSUME NEW e \in Dirs'
       PROVE  /\ Len(Path(e)') > 0 /\ Path(e)'[Len(Path(e)')] = e
              /\ \A i \in 1 .. Len(Path(e)') :
                   \E c \in Dirs' : /\ c = Path(e)'[i] /\ Len(Path(c)') = i
                                     /\ \A j \in 1 .. i : Path(c)'[j] = Path(e)'[j]
  <2>1. Path(e)' = Path(e)  BY <1>2, <1>5 DEF Stays
  <2>2. ASSUME NEW i \in 1 .. Len(Path(e)), NEW c, c = Path(e)[i]
        PROVE  c \in Dirs' /\ Len(Path(c)') = i /\ \A j \in 1 .. i : Path(c)'[j] = Path(e)[j]
    <3>1. /\ c \in Dirs /\ Len(Path(c)) = i /\ c \in ToSet(Path(e))
          /\ \A j \in 1 .. i : Path(c)[j] = Path(e)[j]
      BY <1>2, <2>2, PlaceInTree
    <3>2. Stays(c)  BY <1>2, <1>5, <1>6, <3>1
    <3> QED  BY <3>1, <3>2 DEF Stays
  <2> QED  BY <1>2, <1>8, <2>1, <2>2
<1>14. TreeInv'  BY <1>9, <1>10, <1>11, <1>12, <1>13 DEF TreeInv
<1> QED  BY <1>2, <1>7, <1>14

\* The path behind the m elements of another one, from the l-th of its own on.
LEMMA MovedPath ==
  ASSUME NEW s \in Seq(Names), NEW t \in Seq(Names), NEW l \in 1 .. Len(t)
  PROVE  LET m == Len(s)
             n == Len(s) + (Len(t) - l) + 1
             u == s \o From(t, l)
         IN /\ m \in Nat /\ n \in Nat /\ m < n
            /\ u \in Seq(Names) /\ Len(u) = n
            /\ \A i \in 1 .. n : u[i] = IF i <= m THEN s[i] ELSE t[(l - 1) + (i - m)]
<1> DEFINE m == Len(s)
           k == Len(t)
           f == From(t, l)
           u == s \o f
<1>1. m \in Nat /\ k \in Nat /\ l \in 1 .. k  BY LenProperties
<1>2. f = SubSeq(t, l, k)  BY DEF From
<1>3. l \in Int /\ k \in Int /\ \A i \in l .. k : t[i] \in Names
  <2>1. \A i \in l .. k : i \in 1 .. k  BY <1>1
  <2> QED  BY <1>1, <2>1, ElementOfSeq
<1> HIDE DEF f, m, k
<1>4. /\ f \in Seq(Names) /\ Len(f) = (IF l <= k THEN (k - l) + 1 ELSE 0)
      /\ \A i \in 1 .. (k - l) + 1 : f[i] = t[l + i - 1]
  <2>1. /\ f \in Seq(Names) /\ Len(f) = (IF l <= k THEN k - l + 1 ELSE 0)
        /\ \A i \in 1 .. k - l + 1 : f[i] = t[l + i - 1]
    BY <1>2, <1>3, SubSeqProperties
  <2> QED  BY <2>1
<1>5. Len(f) = (k - l) + 1  BY <1>1, <1>4
<1>6. /\ u \in Seq(Names) /\ Len(u) = m + Len(f)
      /\ \A i \in 1 .. m + Len(f) : u[i] = IF i <= m THEN s[i] ELSE f[i - m]
  BY <1>4, ConcatProperties DEF m
<1>7. m + Len(f) = m + (k - l) + 1 /\ m + (k - l) + 1 \in Nat /\ m < m + (k - l) + 1  BY <1>1, <1>5
<1> HIDE DEF u
<1>8. \A i \in 1 .. m + (k - l) + 1 :
        ~ (i <= m) => i - m \in 1 .. (k - l) + 1 /\ l + (i - m) - 1 = (l - 1) + (i - m)
  BY <1>1
<1>9. \A i \in 1 .. m + (k - l) + 1 : u[i] = IF i <= m THEN s[i] ELSE t[(l - 1) + (i - m)]
  BY <1>4, <1>6, <1>7, <1>8
<1> QED  BY <1>1, <1>6, <1>7, <1>9 DEF u, f, m, k

\* A directory that moves: what is below it goes with it, and all others stay.
LEMMA MoveDirPaths ==
  ASSUME TreeInv, NEW d \in Names, NEW p \in Names \cup {"/"}, MoveDir(d, p)
  PROVE  /\ d \in Dirs /\ p \in Dirs \cup {"/"} /\ p # d /\ d \notin ToSet(Path(p))
         /\ Dirs' = Dirs /\ inodes' = inodes /\ \A e \in Dirs : Inode(e)' = Inode(e)
         /\ DOMAIN tree' = Dirs
         /\ \A e \in Dirs : tree'[e] \in [inode : Nat, path : Seq(Names)]
         /\ \A e \in Dirs : d \notin ToSet(Path(e)) => Path(e)' = Path(e)
         /\ \A e \in Dirs : d \in ToSet(Path(e)) =>
              LET m == Len(Path(p))
                  l == Len(Path(d))
                  n == m + (Len(Path(e)) - l) + 1
              IN /\ l \in 1 .. Len(Path(e)) /\ Path(e)[l] = d
                 /\ m \in Nat /\ n \in Nat /\ m < n /\ Path(e)' \in Seq(Names) /\ Len(Path(e)') = n
                 /\ \A i \in 1 .. n :
                      Path(e)'[i] = IF i <= m THEN Path(p)[i] ELSE Path(e)[(l - 1) + (i - m)]
<1> DEFINE moved(e) == [tree[e] EXCEPT !.path = Path(p) \o From(Path(e), Len(Path(d)))]
<1>1. /\ d \in Dirs /\ p \in Dirs \cup {"/"} /\ p # d /\ p \notin Below(d) /\ inodes' = inodes
      /\ tree' = [e \in Dirs |-> IF d \notin ToSet(Path(e)) THEN tree[e] ELSE moved(e)]
  BY DEF MoveDir
<1>2. d \notin ToSet(Path(p))
  <2>1. CASE p \in Dirs  BY <1>1, <2>1 DEF Below
  <2>2. CASE p = "/"
    <3>1. Path(p) = <<>>  BY <2>2 DEF Path
    <3> QED  BY <3>1 DEF ToSet
  <2> QED  BY <1>1, <2>1, <2>2
<1>3. Dirs' = Dirs /\ DOMAIN tree' = Dirs  BY <1>1 DEF Dirs
<1>4. Path(p) \in Seq(Names)  BY <1>1, PlaceInTree
<1>5. ASSUME NEW e \in Dirs, d \notin ToSet(Path(e))
      PROVE  /\ tree'[e] \in [inode : Nat, path : Seq(Names)]
             /\ Inode(e)' = Inode(e) /\ Path(e)' = Path(e)
  <2>1. tree'[e] = tree[e]  BY <1>1, <1>5
  <2>2. tree[e] \in [inode : Nat, path : Seq(Names)]  BY DEF TreeInv
  <2> QED  BY <2>1, <2>2 DEF Inode, Path
<1>6. ASSUME NEW e \in Dirs, d \in ToSet(Path(e))
      PROVE  /\ tree'[e] \in [inode : Nat, path : Seq(Names)] /\ Inode(e)' = Inode(e)
             /\ Len(Path(d)) \in 1 .. Len(Path(e)) /\ Path(e)[Len(Path(d))] = d
             /\ Path(e)' = Path(p) \o From(Path(e), Len(Path(d)))
  <2> DEFINE l == Len(Path(d))
             u == Path(p) \o From(Path(e), l)
  <2>1. PICK i \in 1 .. Len(Path(e)) : d = Path(e)[i]
    <3>1. DOMAIN Path(e) = 1 .. Len(Path(e))  BY PlaceInTree
    <3> QED  BY <1>6, <3>1 DEF ToSet
  <2>2. l = i  BY <2>1, PlaceInTree
  <2>3. Path(e) \in Seq(Names) /\ e # "/"  BY TreeFacts
  <2>4. u \in Seq(Names)  BY <1>4, <2>1, <2>2, <2>3, MovedPath
  <2>5. tree[e] \in [inode : Nat, path : Seq(Names)] /\ tree[e].inode = Inode(e)
    BY <2>3 DEF TreeInv, Inode
  <2>6. tree'[e] = moved(e)  BY <1>1, <1>6
  <2>7. tree'[e] = [tree[e] EXCEPT !.path = u]  BY <2>6
  <2> HIDE DEF u, l
  <2>8. tree'[e] = [inode |-> tree[e].inode, path |-> u]
    <3>1. \A r \in [inode : Nat, path : Seq(Names)] : [r EXCEPT !.path = u] = [inode |-> r.inode, path |-> u]
      OBVIOUS
    <3> QED  BY <2>5, <2>7, <3>1
  <2>9. tree'[e] \in [inode : Nat, path : Seq(Names)] /\ tree'[e].inode = Inode(e) /\ tree'[e].path = u
    BY <2>4, <2>5, <2>8
  <2>10. Inode(e)' = Inode(e) /\ Path(e)' = u  BY <2>3, <2>9 DEF Inode, Path
  <2> QED  BY <2>1, <2>2, <2>9, <2>10 DEF u, l
<1>7. \A e \in Dirs : Inode(e)' = Inode(e) /\ tree'[e] \in [inode : Nat, path : Seq(Names)]
  BY <1>5, <1>6
<1>8. ASSUME NEW e \in Dirs, d \in ToSet(Path(e))
      PROVE  LET m == Len(Path(p))
                 l == Len(Path(d))
                 n == m + (Len(Path(e)) - l) + 1
             IN /\ l \in 1 .. Len(Path(e)) /\ Path(e)[l] = d
                /\ m \in Nat /\ n \in Nat /\ m < n /\ Path(e)' \in Seq(Names) /\ Len(Path(e)') = n
                /\ \A i \in 1 .. n :
                     Path(e)'[i] = IF i <= m THEN Path(p)[i] ELSE Path(e)[(l - 1) + (i - m)]
  <2>1. Path(e) \in Seq(Names)  BY TreeFacts
  <2>2. /\ Len(Path(d)) \in 1 .. Len(Path(e)) /\ Path(e)[Len(Path(d))] = d
        /\ Path(e)' = Path(p) \o From(Path(e), Len(Path(d)))
    BY <1>6, <1>8
  <2>3. PICK u : u = Path(p) \o From(Path(e), Len(Path(d)))  OBVIOUS
  <2>4. LET m == Len(Path(p))
            l == Len(Path(d))
            n == m + (Len(Path(e)) - l) + 1
        IN /\ m \in Nat /\ n \in Nat /\ m < n /\ u \in Seq(Names) /\ Len(u) = n
           /\ \A i \in 1 .. n : u[i] = IF i <= m THEN Path(p)[i] ELSE Path(e)[(l - 1) + (i - m)]
    BY <1>4, <2>1, <2>2, <2>3, MovedPath
  <2>5. Path(e)' = u  BY <2>2, <2>3
  <2> QED  BY <2>2, <2>4, <2>5
<1> QED  BY <1>1, <1>2, <1>3, <1>5, <1>7, <1>8

\* Its tree is one again.
LEMMA MoveDirKeepsTree ==
  ASSUME TreeInv, NEW d \in Names, NEW p \in Names \cup {"/"}, MoveDir(d, p)
  PROVE  TreeInv' /\ Parent(d)' = p /\ \A e \in Dirs : d \notin ToSet(Path(e)) => PathStays(e)
<1> DEFINE m == Len(Path(p))
           l == Len(Path(d))
<1>1. /\ d \in Dirs /\ p \in Dirs \cup {"/"} /\ p # d /\ d \notin ToSet(Path(p))
      /\ Dirs' = Dirs /\ inodes' = inodes /\ \A e \in Dirs : Inode(e)' = Inode(e)
      /\ DOMAIN tree' = Dirs
      /\ \A e \in Dirs : tree'[e] \in [inode : Nat, path : Seq(Names)]
      /\ \A e \in Dirs : d \notin ToSet(Path(e)) => Path(e)' = Path(e)
  BY MoveDirPaths
<1>2. \A e \in Dirs : d \in ToSet(Path(e)) =>
        /\ l \in 1 .. Len(Path(e)) /\ Path(e)[l] = d
        /\ m \in Nat /\ m < m + (Len(Path(e)) - l) + 1
        /\ Path(e)' \in Seq(Names) /\ Len(Path(e)') = m + (Len(Path(e)) - l) + 1
        /\ \A i \in 1 .. m + (Len(Path(e)) - l) + 1 :
             Path(e)'[i] = IF i <= m THEN Path(p)[i] ELSE Path(e)[(l - 1) + (i - m)]
  BY MoveDirPaths
<1>3. /\ m \in Nat /\ l \in Nat \ {0} /\ (p = "/" <=> m = 0) /\ (p # "/" => Path(p)[m] = p)
      /\ \A e \in Dirs : Len(Path(e)) \in Nat \ {0}
  BY <1>1, PlaceInTree, TreeFacts
<1> HIDE DEF m, l
<1>4. \A e \in Dirs : d \notin ToSet(Path(e)) => PathStays(e)
  <2>1. SUFFICES ASSUME NEW e \in Dirs, d \notin ToSet(Path(e)), NEW c \in ToSet(Path(e)) PROVE Stays(c)
    BY DEF PathStays
  <2>2. c \in Dirs /\ d \notin ToSet(Path(c))  BY <2>1, PathsNest
  <2> QED  BY <1>1, <2>2 DEF Stays
<1>5. /\ inodes \in Nat /\ IsFiniteSet(Dirs) /\ Dirs \subseteq Names
      /\ tree \in [Dirs -> [inode : Nat, path : Seq(Names)]]
      /\ \A e \in Dirs : Inode(e) \in 1 .. inodes
      /\ \A e, f \in Dirs : Inode(e) = Inode(f) => e = f
      /\ \A e \in Dirs : Len(Path(e)) > 0 /\ Path(e)[Len(Path(e))] = e
  BY DEF TreeInv
<1>6. tree' \in [Dirs' -> [inode : Nat, path : Seq(Names)]]
  <2>1. tree' = [e \in Dirs |-> tree'[e]]
    <3>1. tree' = [e \in Dirs |-> IF d \notin ToSet(Path(e)) THEN tree[e]
                     ELSE [tree[e] EXCEPT !.path = Path(p) \o From(Path(e), Len(Path(d)))]]
      BY DEF MoveDir
    <3> QED  BY <3>1
  <2> QED  BY <1>1, <2>1
<1>7. ASSUME NEW e \in Dirs
      PROVE  /\ Len(Path(e)') > 0 /\ Path(e)'[Len(Path(e)')] = e
             /\ \A i \in 1 .. Len(Path(e)') :
                  \E c \in Dirs : /\ c = Path(e)'[i] /\ Len(Path(c)') = i
                                  /\ \A j \in 1 .. i : Path(c)'[j] = Path(e)'[j]
  <2>1. CASE d \notin ToSet(Path(e))
    <3>1. Path(e)' = Path(e)  BY <1>1, <2>1
    <3>2. ASSUME NEW i \in 1 .. Len(Path(e)), NEW c, c = Path(e)[i]
          PROVE  c \in Dirs /\ Len(Path(c)') = i /\ \A j \in 1 .. i : Path(c)'[j] = Path(e)[j]
      <4>1. /\ c \in Dirs /\ Len(Path(c)) = i /\ c \in ToSet(Path(e))
            /\ \A j \in 1 .. i : Path(c)[j] = Path(e)[j]
        BY <3>2, PlaceInTree
      <4>2. Stays(c)  BY <1>4, <2>1, <4>1 DEF PathStays
      <4> QED  BY <4>1, <4>2 DEF Stays
    <3> QED  BY <1>5, <3>1, <3>2
  <2>2. CASE d \in ToSet(Path(e))
    <3> DEFINE k == Len(Path(e))
               n == m + (k - l) + 1
    <3>1. /\ l \in 1 .. k /\ Path(e)[l] = d /\ k \in Nat /\ Len(Path(e)') = n
          /\ \A i \in 1 .. n : Path(e)'[i] = IF i <= m THEN Path(p)[i] ELSE Path(e)[(l - 1) + (i - m)]
      BY <1>2, <1>3, <2>2
    <3> HIDE DEF k
    <3>2. n \in 1 .. n /\ ~ (n <= m) /\ (l - 1) + (n - m) = k /\ n > 0  BY <1>3, <3>1
    <3>3. Path(e)'[n] = Path(e)[k]  BY <3>1, <3>2
    <3>4. Path(e)[k] = e  BY <1>5 DEF k
    <3>5. ASSUME NEW i \in 1 .. n, i <= m, NEW c, c = Path(e)'[i]
          PROVE  c \in Dirs /\ Len(Path(c)') = i /\ \A j \in 1 .. i : Path(c)'[j] = Path(e)'[j]
      <4>1. i \in 1 .. m /\ m # 0 /\ \A j \in 1 .. i : j \in 1 .. n /\ j <= m  BY <1>3, <3>1, <3>5
      <4>2. c = Path(p)[i] /\ p \in Dirs  BY <1>1, <1>3, <3>1, <3>5, <4>1
      <4>3. /\ c \in Dirs /\ Len(Path(c)) = i /\ c \in ToSet(Path(p))
            /\ \A j \in 1 .. i : Path(c)[j] = Path(p)[j]
        BY <4>1, <4>2, PlaceInTree DEF m
      <4>4. d \notin ToSet(Path(c))  BY <1>1, <4>2, <4>3, PathsNest
      <4>5. Path(c)' = Path(c)  BY <1>1, <4>3, <4>4
      <4>6. \A j \in 1 .. i : Path(e)'[j] = Path(p)[j]  BY <3>1, <4>1
      <4> QED  BY <4>3, <4>5, <4>6
    <3>6. ASSUME NEW i \in 1 .. n, ~ (i <= m), NEW c, c = Path(e)'[i]
          PROVE  c \in Dirs /\ Len(Path(c)') = i /\ \A j \in 1 .. i : Path(c)'[j] = Path(e)'[j]
      <4> DEFINE h == (l - 1) + (i - m)
      <4>1. h \in 1 .. k /\ l \in 1 .. h /\ m + (h - l) + 1 = i  BY <1>3, <3>1, <3>6
      <4>2. c = Path(e)[h]  BY <3>1, <3>6
      <4> HIDE DEF h
      <4>3. /\ c \in Dirs /\ Len(Path(c)) = h /\ \A j \in 1 .. h : Path(c)[j] = Path(e)[j]
        BY <4>1, <4>2, PlaceInTree DEF k
      <4>4. d \in ToSet(Path(c))
        <5>1. Path(c)[l] = d /\ DOMAIN Path(c) = 1 .. h  BY <3>1, <4>1, <4>3, PlaceInTree
        <5> QED  BY <4>1, <5>1 DEF ToSet
      <4>5. /\ Len(Path(c)') = i
            /\ \A j \in 1 .. i : Path(c)'[j] = IF j <= m THEN Path(p)[j] ELSE Path(c)[(l - 1) + (j - m)]
        BY <1>2, <4>1, <4>3, <4>4
      <4>6. h = (l - 1) + (i - m) /\ i \in Nat /\ h \in Nat /\ \A j \in 1 .. i : j \in 1 .. n
        <5>1. h = (l - 1) + (i - m)  BY DEF h
        <5>2. n \in Nat  BY <1>3, <3>1
        <5>3. \A u \in Nat : \A g \in 1 .. u : g \in Nat /\ \A j \in 1 .. g : j \in 1 .. u
          OBVIOUS
        <5>4. i \in Nat /\ \A j \in 1 .. i : j \in 1 .. n
          <6> HIDE DEF n
          <6> QED  BY <3>6, <5>2, <5>3
        <5>5. h \in Nat  BY <3>1, <4>1
        <5> QED  BY <5>1, <5>4, <5>5
      <4>7. ASSUME NEW j \in 1 .. i PROVE Path(c)'[j] = Path(e)'[j]
        <5>1. CASE j <= m  BY <3>1, <4>5, <4>6, <5>1
        <5>2. CASE ~ (j <= m)
          <6>1. PICK g \in 1 .. h : g = (l - 1) + (j - m)
            <7>1. (l - 1) + (j - m) \in 1 .. h  BY <1>3, <4>6, <5>2
            <7> QED  BY <7>1
          <6>2. g \in 1 .. h  OBVIOUS
          <6>3. Path(c)[g] = Path(e)[g]  BY <4>3, <6>2
          <6>4. Path(c)'[j] = Path(c)[g]  BY <4>5, <5>2, <6>1
          <6>5. Path(e)'[j] = Path(e)[g]  BY <3>1, <4>6, <5>2, <6>1
          <6> QED  BY <6>3, <6>4, <6>5
        <5> QED  BY <5>1, <5>2
      <4> QED  BY <4>3, <4>5, <4>7
    <3> HIDE DEF n
    <3> QED  BY <3>1, <3>2, <3>3, <3>4, <3>5, <3>6
  <2> QED  BY <2>1, <2>2
<1>8. TreeInv'  BY <1>1, <1>5, <1>6, <1>7 DEF TreeInv
<1>9. Parent(d)' = p
  <2>1. d \in ToSet(Path(d))  BY <1>1, PathsNest
  <2>2. /\ Path(d)' \in Seq(Names) /\ Len(Path(d)') = m + (l - l) + 1
        /\ \A i \in 1 .. m + (l - l) + 1 :
             Path(d)'[i] = IF i <= m THEN Path(p)[i] ELSE Path(d)[(l - 1) + (i - m)]
    BY <1>1, <1>2, <2>1 DEF l
  <2>3. m + (l - l) + 1 = m + 1 /\ (m # 0 => m \in 1 .. m + 1 /\ m <= m)  BY <1>3
  <2>4. Len(Path(d)') = m + 1 /\ (m # 0 => Path(d)'[m] = Path(p)[m])  BY <2>2, <2>3
  <2>5. (IF Len(Path(d)') = 1 THEN "/" ELSE Last(Front(Path(d)'))) = p
    BY <1>3, <2>2, <2>4, LastButOne
  <2> QED  BY <2>5 DEF Parent
<1> QED  BY <1>4, <1>8, <1>9

\* The records of a change are a sequence of records.
LEMMA RecordsOfAChange ==
  /\ \A r \in Records : /\ <<r>> \in Seq(Records) /\ DOMAIN <<r>> = {1} /\ <<r>>[1] = r
  /\ \A r, s \in Records : /\ <<r, s>> \in Seq(Records) /\ DOMAIN <<r, s>> = {1, 2}
                           /\ <<r, s>>[1] = r /\ <<r, s>>[2] = s
<1>1. 1 .. 1 = {1} /\ 1 .. 2 = {1, 2}  OBVIOUS
<1>2. \A r : Len(<<r>>) = 1 /\ DOMAIN <<r>> = 1 .. 1  OBVIOUS
<1>3. \A r, s : Len(<<r, s>>) = 2 /\ DOMAIN <<r, s>> = 1 .. 2  OBVIOUS
<1> QED  BY <1>1, <1>2, <1>3

\* A directory is made: its parent's watch tells of it, or the scan will come by.
LEMMA MakeDirKeepsWatch ==
  ASSUME WatchInv, NEW d \in Names, NEW p \in Names \cup {"/"}, MakeDir(d, p)
  PROVE  WatchInv'
<1> DEFINE r == Record("create", Inode(p), d)
<1>1. TreeInv /\ RecordsInv /\ MapInv /\ ReachInv  BY DEF WatchInv
<1>2. /\ d \notin Dirs /\ p \in Dirs \cup {"/"} /\ inodes' = inodes + 1 /\ watches' = watches
      /\ stale' = stale /\ missed' = IF Unseen(p) THEN missed \cup {inodes + 1} ELSE missed
      /\ Changed(<<r>>)
  BY DEF MakeDir
<1>3. /\ TreeInv' /\ Dirs' = Dirs \cup {d} /\ Inode(d)' = inodes + 1
      /\ Path(d)' = Append(Path(p), d) /\ Parent(d)' = p /\ \A e \in Dirs : Stays(e)
  BY <1>1, MakeDirKeepsTree
<1>4. inodes \in Nat /\ \A e \in Dirs : Inode(e) \in 1 .. inodes /\ Inode(e)' = Inode(e)
  BY <1>1, <1>3 DEF TreeInv, Stays
<1>5. Inode(p) \in 0 .. inodes /\ Path(p) \in Seq(Names) /\ Inode(p)' = Inode(p)
  <2>1. Inode("/")' = Inode("/")  BY DEF Inode
  <2> QED  BY <1>1, <1>2, <1>4, <2>1, PlaceInTree
<1>6. r \in Records /\ r.mask = "create" /\ r.wd = Inode(p) /\ r.name = d
  <2>1. Inode(p) \in Nat  BY <1>4, <1>5
  <2> QED  BY <2>1 DEF Record, Records
<1> HIDE DEF r
<1>7. <<r>> \in Seq(Records) /\ DOMAIN <<r>> = {1} /\ <<r>>[1] = r  BY <1>6, RecordsOfAChange
<1> DEFINE rs == <<r>>
<1> HIDE DEF rs
<1>8. rs \in Seq(Records) /\ DOMAIN rs = {1} /\ rs[1] = r /\ Changed(rs)  BY <1>2, <1>7 DEF rs
<1>9. TakesWatches(rs)
  <2>1. Live' = Live \cup {inodes + 1}
    <3>1. {Inode(e)' : e \in Dirs'} = {Inode(e) : e \in Dirs} \cup {inodes + 1}  BY <1>3, <1>4
    <3> QED  BY <3>1 DEF Live
  <2>2. \A i \in Nat : i + 1 \notin 0 .. i /\ i <= i + 1 /\ i + 1 \in Nat  OBVIOUS
  <2>3. watches \subseteq Live  BY <1>1 DEF MapInv
  <2>4. Live' \cap 0 .. inodes \subseteq Live  BY <1>4, <2>1, <2>2
  <2> QED  BY <1>2, <1>4, <1>6, <1>8, <2>1, <2>2, <2>3, <2>4 DEF TakesWatches
<1>10. RecordsInv' /\ MapInv'  BY <1>1, <1>8, <1>9, ChangeKeepsMap
<1>11. SUFFICES ASSUME watching', ~ overflowed', NEW x \in Dirs', Known(x)'
                PROVE  Reached(x, 0)' /\ BehindItsParent(x)'
  BY <1>3, <1>10 DEF WatchInv, ReachInv
<1>12. CASE x \in Dirs
  <2>1. PathStays(x)
    <3>1. ToSet(Path(x)) \subseteq Dirs  BY <1>1, <1>12, PathsNest
    <3> QED  BY <1>3, <3>1 DEF PathStays
  <2>2. SaysNothingOf(rs, Parent(x))
    <3>1. Parent(x) \in Dirs \cup {"/"}  BY <1>1, <1>12, AboveADirectory
    <3>2. Parent(x) # d  BY <1>2, <3>1, WatchAssumption
    <3> QED  BY <1>6, <1>8, <3>2 DEF SaysNothingOf
  <2>3. missed \subseteq missed' /\ stale \subseteq stale'  BY <1>2
  <2> QED  BY <1>1, <1>3, <1>8, <1>11, <1>12, <2>1, <2>2, <2>3, ChangeReaches
<1>13. CASE x = d
  <2>1. inodes + 1 \notin missed'
    <3>1. d \in Dirs' /\ Len(Path(p)) \in Nat  BY <1>3, <1>5, LenProperties
    <3>2. d \in ToSet(Path(d)')
      <4>1. /\ Append(Path(p), d) \in Seq(Names) /\ Len(Append(Path(p), d)) = Len(Path(p)) + 1
            /\ Append(Path(p), d)[Len(Path(p)) + 1] = d
        BY <1>5, AppendProperties
      <4>2. Len(Path(p)) + 1 \in 1 .. Len(Path(p)) + 1  BY <3>1
      <4> QED  BY <1>3, <4>1, <4>2, LenProperties DEF ToSet
    <3>3. Inode(d)' \notin missed'  BY <1>11, <1>13, <3>2 DEF Known
    <3> QED  BY <1>3, <3>3
  <2>2. ~ Unseen(p) /\ watching /\ scan' = scan  BY <1>2, <1>11, <2>1 DEF Changed
  <2>3. CASE \E prefix \in scan : IsStrictPrefix(prefix, Path(p))
    <3>1. PICK prefix \in scan : IsStrictPrefix(prefix, Path(p))  BY <2>3
    <3>2. prefix \in Seq(Names)  BY <1>1 DEF MapInv
    <3>3. IsStrictPrefix(prefix, Append(Path(p), d))
      <4>1. Len(prefix) \in Nat /\ Len(Path(p)) \in Nat  BY <1>5, <3>2, LenProperties
      <4>2. Len(prefix) < Len(Path(p)) /\ \A i \in 1 .. Len(prefix) : prefix[i] = Path(p)[i]
        BY <1>5, <3>1, <3>2, PrefixByElements
      <4>3. /\ Append(Path(p), d) \in Seq(Names) /\ Len(Append(Path(p), d)) = Len(Path(p)) + 1
            /\ \A i \in 1 .. Len(Path(p)) : Append(Path(p), d)[i] = Path(p)[i]
        BY <1>5, AppendProperties
      <4>4. \A i \in 1 .. Len(prefix) : i \in 1 .. Len(Path(p))  BY <4>1, <4>2
      <4>5. Len(prefix) < Len(Path(p)) + 1  BY <4>1, <4>2
      <4> HIDE DEF rs
      <4> QED  BY <3>2, <4>2, <4>3, <4>4, <4>5, PrefixByElements
    <3>4. \A k : Reached(d, k)'  BY <1>3, <2>2, <3>3 DEF Reached
    <3> QED  BY <1>13, <3>4 DEF BehindItsParent
  <2>4. CASE Inode(p) \in watches
    <3>1. SaysNothingOf(rs, p)  BY <1>2, <1>6, <1>8, WatchAssumption DEF SaysNothingOf
    <3>2. d \in Dirs' /\ p \in Dirs' \cup {"/"} /\ Parent(d)' = p  BY <1>2, <1>3
    <3>3. /\ 1 \in DOMAIN rs /\ rs[1].mask \in {"create", "moved_to"} /\ rs[1].name = d
          /\ rs[1].wd = Inode(p)' /\ rs[1].wd \in watches
      BY <1>5, <1>6, <1>8, <2>4
    <3> QED  BY <1>1, <1>8, <1>11, <1>13, <3>1, <3>2, <3>3, ChangeAnnounces
  <2> QED  BY <2>2, <2>3, <2>4 DEF Unseen
<1> QED  BY <1>3, <1>12, <1>13

\* A directory is removed, and its watch with it.
LEMMA RemoveDirKeepsWatch ==
  ASSUME WatchInv, NEW d \in Names, RemoveDir(d)
  PROVE  WatchInv'
<1> DEFINE r == Record("delete", Inode(Parent(d)), d)
           s == Record("ignored", Inode(d), NoName)
<1>1. TreeInv /\ RecordsInv /\ MapInv /\ ReachInv  BY DEF WatchInv
<1>2. /\ d \in Dirs /\ inodes' = inodes /\ watches' = watches \ {Inode(d)}
      /\ stale' = stale /\ missed' = missed /\ Changed(<<r, s>>)
  BY DEF RemoveDir
<1>3. TreeInv' /\ Dirs' = Dirs \ {d} /\ \A e \in Dirs \ {d} : PathStays(e)
  BY <1>1, RemoveDirKeepsTree
<1>4. /\ inodes \in Nat /\ \A e \in Dirs : Inode(e) \in 1 .. inodes
      /\ \A e, f \in Dirs : Inode(e) = Inode(f) => e = f
  BY <1>1 DEF TreeInv
<1>5. \A e \in Dirs \ {d} : Inode(e)' = Inode(e)
  <2>1. \A e \in Dirs \ {d} : e \in ToSet(Path(e))  BY <1>1, PathsNest
  <2> QED  BY <1>3, <2>1 DEF PathStays, Stays
<1>6. /\ r \in Records /\ s \in Records /\ r.mask = "delete" /\ s.mask = "ignored"
      /\ s = Record("ignored", Inode(d), NoName) /\ s.wd = Inode(d)
  <2>1. Parent(d) \in Dirs \cup {"/"}  BY <1>1, <1>2, AboveADirectory
  <2>2. Inode(Parent(d)) \in 0 .. inodes /\ Inode(d) \in 0 .. inodes  BY <1>1, <1>2, <2>1, PlaceInTree
  <2>3. Inode(Parent(d)) \in Nat /\ Inode(d) \in Nat  BY <1>4, <2>2
  <2>4. \A wd \in Nat : \A mask \in {"delete", "ignored"} : \A name \in Names \cup {NoName} :
          Record(mask, wd, name) \in Records
    BY DEF Record, Records
  <2> QED  BY <2>3, <2>4, FieldsOfRecord
<1> HIDE DEF r, s
<1>7. <<r, s>> \in Seq(Records) /\ DOMAIN <<r, s>> = {1, 2} /\ <<r, s>>[1] = r /\ <<r, s>>[2] = s
  BY <1>6, RecordsOfAChange
<1> DEFINE rs == <<r, s>>
<1> HIDE DEF rs
<1>8. rs \in Seq(Records) /\ DOMAIN rs = {1, 2} /\ rs[1] = r /\ rs[2] = s /\ Changed(rs)
  BY <1>2, <1>7 DEF rs
<1>9. TakesWatches(rs)
  <2>1. {Inode(e)' : e \in Dirs'} = {Inode(e) : e \in Dirs} \ {Inode(d)}
    BY <1>2, <1>3, <1>4, <1>5
  <2>2. Inode(d) # Root /\ inodes <= inodes
    <3>1. \A i \in Nat : i <= i /\ 0 \notin 1 .. i  OBVIOUS
    <3> QED  BY <1>2, <1>4, <3>1 DEF Root
  <2>3. Live' = Live \ {Inode(d)}  BY <2>1, <2>2 DEF Live
  <2>4. watches \subseteq Live  BY <1>1 DEF MapInv
  <2>5. 1 \in {1, 2} /\ 2 \in {1, 2}  OBVIOUS
  <2>6. \A wd \in watches \ watches' : wd = Inode(d)  BY <1>2
  <2>7. \A i \in DOMAIN rs : rs[i].mask = "ignored" => rs[i].wd \notin Live'  BY <1>6, <1>8, <2>3
  <2>8. \A wd \in watches \ watches' : \E i \in DOMAIN rs : rs[i] = Record("ignored", wd, NoName)
    BY <1>6, <1>8, <2>5, <2>6
  <2> QED  BY <1>2, <1>4, <2>2, <2>3, <2>4, <2>7, <2>8 DEF TakesWatches
<1>10. RecordsInv' /\ MapInv'  BY <1>1, <1>8, <1>9, ChangeKeepsMap
<1>11. SUFFICES ASSUME watching', ~ overflowed', NEW x \in Dirs', Known(x)'
                PROVE  Reached(x, 0)' /\ BehindItsParent(x)'
  BY <1>3, <1>10 DEF WatchInv, ReachInv
<1>12. x \in Dirs /\ PathStays(x)  BY <1>3
<1>13. SaysNothingOf(rs, Parent(x))  BY <1>6, <1>8 DEF SaysNothingOf
<1>14. missed \subseteq missed' /\ stale \subseteq stale'  BY <1>2
<1> QED  BY <1>1, <1>3, <1>8, <1>11, <1>12, <1>13, <1>14, ChangeReaches

\* A directory moves: it is told of where it goes, and what is below it is stale.
LEMMA MoveDirKeepsWatch ==
  ASSUME WatchInv, NEW d \in Names, NEW p \in Names \cup {"/"}, MoveDir(d, p)
  PROVE  WatchInv'
<1> DEFINE r == Record("moved_from", Inode(Parent(d)), d)
           s == Record("moved_to", Inode(p), d)
<1>1. TreeInv /\ RecordsInv /\ MapInv /\ ReachInv  BY DEF WatchInv
<1>2. /\ watches' = watches /\ Changed(<<r, s>>)
      /\ stale' = stale \cup {Inode(e) : e \in Below(d)}
                    \cup (IF Unseen(p) \/ scan # {} THEN {Inode(d)} ELSE {})
      /\ missed' = IF Unseen(p) THEN missed \cup {Inode(d)} ELSE missed
  BY DEF MoveDir
<1>3. /\ TreeInv' /\ Parent(d)' = p /\ \A e \in Dirs : d \notin ToSet(Path(e)) => PathStays(e)
  BY <1>1, MoveDirKeepsTree
<1>4. /\ d \in Dirs /\ p \in Dirs \cup {"/"} /\ p # d
      /\ Dirs' = Dirs /\ inodes' = inodes /\ \A e \in Dirs : Inode(e)' = Inode(e)
  BY <1>1, MoveDirPaths
<1>5. inodes \in Nat  BY <1>1 DEF TreeInv
<1>6. /\ r \in Records /\ s \in Records /\ r.mask = "moved_from" /\ s.mask = "moved_to"
      /\ s.wd = Inode(p) /\ s.name = d
  <2>1. Parent(d) \in Dirs \cup {"/"}  BY <1>1, <1>4, AboveADirectory
  <2>2. Inode(Parent(d)) \in 0 .. inodes /\ Inode(p) \in 0 .. inodes  BY <1>1, <1>4, <2>1, PlaceInTree
  <2>3. Inode(Parent(d)) \in Nat /\ Inode(p) \in Nat  BY <1>5, <2>2
  <2>4. \A wd \in Nat : \A mask \in {"moved_from", "moved_to"} : Record(mask, wd, d) \in Records
    BY DEF Record, Records
  <2> QED  BY <2>3, <2>4, FieldsOfRecord
<1> HIDE DEF r, s
<1>7. <<r, s>> \in Seq(Records) /\ DOMAIN <<r, s>> = {1, 2} /\ <<r, s>>[1] = r /\ <<r, s>>[2] = s
  BY <1>6, RecordsOfAChange
<1> DEFINE rs == <<r, s>>
<1> HIDE DEF rs
<1>8. rs \in Seq(Records) /\ DOMAIN rs = {1, 2} /\ rs[1] = r /\ rs[2] = s /\ Changed(rs)
  BY <1>2, <1>7 DEF rs
<1>9. TakesWatches(rs)
  <2>1. {Inode(e)' : e \in Dirs'} = {Inode(e) : e \in Dirs}  BY <1>4
  <2>2. Live' = Live /\ inodes <= inodes  BY <1>5, <2>1 DEF Live
  <2>3. watches \subseteq Live  BY <1>1 DEF MapInv
  <2>4. \A i \in DOMAIN rs : rs[i].mask # "ignored"  BY <1>6, <1>8
  <2> QED  BY <1>2, <1>4, <1>5, <2>2, <2>3, <2>4 DEF TakesWatches
<1>10. RecordsInv' /\ MapInv'  BY <1>1, <1>8, <1>9, ChangeKeepsMap
<1>11. SUFFICES ASSUME watching', ~ overflowed', NEW x \in Dirs', Known(x)'
                PROVE  Reached(x, 0)' /\ BehindItsParent(x)'
  BY <1>3, <1>10 DEF WatchInv, ReachInv
<1>12. x \in Dirs /\ Inode(x) \notin missed' \cup stale'
  <2>1. x \in ToSet(Path(x)')
    <3>1. Len(Path(x)') > 0 /\ Path(x)'[Len(Path(x)')] = x /\ Path(x)' = tree'[x].path
      <4>1. x # "/"  BY <1>4, <1>1, TreeFacts
      <4> QED  BY <1>3, <1>11, <4>1 DEF TreeInv, Path
    <3>2. Path(x)' \in Seq(Names)  BY <1>3, <1>11, <3>1 DEF TreeInv
    <3>3. Len(Path(x)') \in 1 .. Len(Path(x)')  BY <3>1, <3>2, LenProperties
    <3> QED  BY <3>1, <3>2, <3>3, LenProperties DEF ToSet
  <2>2. Inode(x)' \notin missed' \cup stale'  BY <1>11, <2>1 DEF Known
  <2> QED  BY <1>4, <2>2
<1>13. SaysNothingOf(rs, p)  BY <1>4, <1>6, <1>8 DEF SaysNothingOf
<1>14. CASE d \notin ToSet(Path(x))
  <2>1. PathStays(x)  BY <1>3, <1>12, <1>14
  <2>2. SaysNothingOf(rs, Parent(x))
    <3>1. Parent(x) \in Dirs \cup {"/"} /\ ToSet(Path(Parent(x))) \subseteq ToSet(Path(x))
      BY <1>1, <1>12, AboveADirectory
    <3>2. Parent(x) # d
      <4>1. Parent(x) \in Dirs => Parent(x) \in ToSet(Path(x))  BY <1>1, <3>1, PathsNest
      <4> QED  BY <1>4, <1>14, <4>1
    <3> QED  BY <1>6, <1>8, <3>2 DEF SaysNothingOf
  <2>3. missed \subseteq missed' /\ stale \subseteq stale'  BY <1>2
  <2> QED  BY <1>1, <1>3, <1>8, <1>11, <1>12, <2>1, <2>2, <2>3, ChangeReaches
<1>15. CASE x = d
  <2>1. ~ Unseen(p) /\ scan = {}  BY <1>2, <1>12, <1>15
  <2>2. watching  BY <1>2, <1>11 DEF Changed
  <2>3. Inode(p) \in watches  BY <2>1, <2>2 DEF Unseen
  <2>4. Inode(p)' = Inode(p)
    <3>1. Inode("/")' = Inode("/")  BY DEF Inode
    <3> QED  BY <1>4, <3>1
  <2>5. /\ 2 \in DOMAIN rs /\ rs[2].mask \in {"create", "moved_to"} /\ rs[2].name = d
        /\ rs[2].wd = Inode(p)' /\ rs[2].wd \in watches
    BY <1>6, <1>8, <2>3, <2>4
  <2>6. d \in Dirs' /\ p \in Dirs' \cup {"/"} /\ Parent(d)' = p  BY <1>3, <1>4
  <2> QED  BY <1>1, <1>8, <1>11, <1>13, <1>15, <2>5, <2>6, ChangeAnnounces
<1>16. CASE d \in ToSet(Path(x)) /\ x # d
  <2>1. x \in Below(d)  BY <1>12, <1>16 DEF Below
  <2> QED  BY <1>2, <1>12, <2>1
<1> QED  BY <1>14, <1>15, <1>16

\* The watch is opened: all there is will be scanned.
LEMMA OpenWatchKeepsWatch ==
  ASSUME WatchInv, OpenWatch
  PROVE  WatchInv'
<1> DEFINE y == [wd |-> Root, prefix |-> <<>>]
<1>1. TreeInv /\ RecordsInv /\ MapInv  BY DEF WatchInv
<1>2. /\ watching' = TRUE /\ watches' = {Root} /\ maps' = <<y>> /\ scan' = {<<>>}
      /\ tree' = tree /\ inodes' = inodes /\ queue' = queue /\ overflowed' = overflowed
      /\ missed' = missed /\ stale' = stale /\ ~ watching
  BY DEF OpenWatch
<1>3. queue = <<>>  BY <1>1, <1>2 DEF MapInv
<1>4. TreeInv'  BY <1>1, <1>2 DEF TreeInv, Dirs, Inode, Path
<1>5. RecordsInv'
  <2>1. queue' \in Seq(Records) /\ DOMAIN queue' = {}  BY <1>2, <1>3, EmptySeq
  <2> QED  BY <2>1 DEF RecordsInv
<1>6. y \in WatchEntries /\ y = EntryFor("/") /\ y = EntryFor("/")' /\ y.wd = Root
  <2>1. <<>> \in Seq(Names)  BY EmptySeq
  <2> QED  BY <2>1 DEF WatchEntries, EntryFor, Inode, Path, Root
<1> HIDE DEF y
<1>7. maps' \in Seq(WatchEntries) /\ DOMAIN maps' = {1} /\ maps'[1] = y
  <2>1. <<y>> \in Seq(WatchEntries) /\ Len(<<y>>) = 1 /\ <<y>>[1] = y  BY <1>6
  <2>2. DOMAIN <<y>> = 1 .. 1 /\ 1 .. 1 = {1}  OBVIOUS
  <2> QED  BY <1>2, <2>1, <2>2
<1>8. WatchesOf(maps)' = {Root} /\ OneEntryEach(maps)' /\ EntryFor("/")' \in ToSet(maps')
  BY <1>6, <1>7 DEF WatchesOf, OneEntryEach, ToSet
<1>9. MapInv'
  <2>1. <<>> \in Seq(Names)  BY EmptySeq
  <2>2. overflowed' \in BOOLEAN /\ watching'  BY <1>1, <1>2 DEF MapInv
  <2>3. Root \in Live'  BY DEF Live
  <2>4. scan' \subseteq Seq(Names) /\ watching' \in BOOLEAN  BY <1>2, <2>1
  <2>5. watches' \subseteq Live' /\ Root \in watches' /\ watches' \subseteq WatchesOf(maps)'  BY <1>2, <1>8, <2>3
  <2>6. \A wd \in WatchesOf(maps)' \ watches' : FALSE  BY <1>2, <1>8
  <2> QED  BY <1>7, <1>8, <2>2, <2>4, <2>5, <2>6 DEF MapInv
<1>10. ASSUME NEW x \in Dirs', NEW k PROVE Reached(x, k)'
  <2>1. x \in Dirs /\ Path(x)' = Path(x)  BY <1>2 DEF Dirs, Path
  <2>2. Path(x) \in Seq(Names) /\ Len(Path(x)) \in Nat \ {0}  BY <1>1, <2>1, TreeFacts
  <2>3. <<>> \in Seq(Names) /\ Len(<<>>) = 0  BY EmptySeq
  <2>4. Len(<<>>) < Len(Path(x)) /\ \A i \in 1 .. Len(<<>>) : FALSE  BY <2>2, <2>3
  <2>5. IsStrictPrefix(<<>>, Path(x))  BY <2>2, <2>3, <2>4, PrefixByElements
  <2> QED  BY <1>2, <2>1, <2>5 DEF Reached
<1>11. ReachInv'  BY <1>10 DEF ReachInv, BehindItsParent
<1> QED  BY <1>4, <1>5, <1>9, <1>11 DEF WatchInv

\* It is closed: nothing is left.
LEMMA CloseWatchKeepsWatch ==
  ASSUME WatchInv, CloseWatch
  PROVE  WatchInv'
<1>1. TreeInv /\ RecordsInv /\ MapInv  BY DEF WatchInv
<1>2. /\ watching' = FALSE /\ watches' = {} /\ maps' = <<>> /\ scan' = scan /\ scan = {} /\ queue' = <<>>
      /\ tree' = tree /\ inodes' = inodes /\ overflowed' = FALSE
  BY DEF CloseWatch
<1>3. TreeInv'  BY <1>1, <1>2 DEF TreeInv, Dirs, Inode, Path
<1>4. queue' \in Seq(Records) /\ DOMAIN queue' = {} /\ maps' \in Seq(WatchEntries) /\ DOMAIN maps' = {}
  BY <1>2, EmptySeq
<1>5. RecordsInv'  BY <1>4 DEF RecordsInv
<1>6. MapInv'
  <2>1. WatchesOf(maps)' = {} /\ OneEntryEach(maps)'  BY <1>4 DEF WatchesOf, OneEntryEach
  <2> QED  BY <1>2, <1>4, <2>1 DEF MapInv
<1>7. ReachInv'  BY <1>2 DEF ReachInv
<1> QED  BY <1>3, <1>5, <1>6, <1>7 DEF WatchInv

\* What attaching leaves of the map's invariant and of the entries.
LEMMA AttachKeepsMap ==
  ASSUME TreeInv, MapInv, watching, NEW T, NEW m, AttachedTo(maps, m, T), Attached(m)
  PROVE  /\ m \in Seq(WatchEntries) /\ OneEntryEach(m) /\ maps' = m
         /\ watches \subseteq watches' /\ watches' \subseteq WatchesOf(m) /\ watches' \subseteq Live
         /\ WatchesOf(m) \ watches' \subseteq WatchesOf(maps) \ watches
         /\ EntryFor("/") \in ToSet(m) /\ overflowed' \in BOOLEAN
         /\ \A x \in Dirs : EntryFor(x) \in ToSet(maps) => EntryFor(x) \in ToSet(m)
         /\ ~ overflowed' => ~ overflowed /\ \A d \in Dirs : Path(d) \in T => EntryFor(d) \in ToSet(m)
<1>1. /\ Map(m) /\ WatchesOf(maps) \subseteq WatchesOf(m)
      /\ WatchesOf(m) \subseteq WatchesOf(maps) \cup Live
      /\ \A x \in ToSet(maps) : x \in ToSet(m) \/ \E d \in Dirs : x.wd = Inode(d) /\ EntryFor(d) \in ToSet(m)
      /\ Len(m) < MaxDirs => \A d \in Dirs : Path(d) \in T => EntryFor(d) \in ToSet(m)
  BY DEF AttachedTo
<1>2. /\ maps' = m /\ watches' = watches \cup (WatchesOf(m) \ WatchesOf(maps))
      /\ overflowed' = (overflowed \/ Len(m) >= MaxDirs)
  BY DEF Attached
<1>3. m \in Seq(WatchEntries) /\ OneEntryEach(m) /\ Len(m) \in Nat  BY <1>1, LenProperties DEF Map
<1>4. /\ watches \subseteq WatchesOf(maps) /\ watches \subseteq Live /\ EntryFor("/") \in ToSet(maps)
      /\ overflowed \in BOOLEAN
  BY DEF MapInv
<1>5. \A d : EntryFor(d).wd = Inode(d)  BY DEF EntryFor
<1>6. EntryFor("/") \in ToSet(m)
  <2>1. \A d \in Dirs : EntryFor("/").wd # Inode(d)
    <3>1. EntryFor("/").wd = 0  BY DEF EntryFor, Inode, Root
    <3>2. \A d \in Dirs : Inode(d) \in Nat \ {0}  BY TreeFacts
    <3> QED  BY <3>1, <3>2
  <2> QED  BY <1>1, <1>4, <2>1
<1>7. \A x \in Dirs : EntryFor(x) \in ToSet(maps) => EntryFor(x) \in ToSet(m)
  <2>1. SUFFICES ASSUME NEW x \in Dirs, EntryFor(x) \in ToSet(maps) PROVE EntryFor(x) \in ToSet(m)
    OBVIOUS
  <2>2. \A d \in Dirs : Inode(x) = Inode(d) => x = d  BY DEF TreeInv
  <2> QED  BY <1>1, <1>5, <2>1, <2>2
<1>8. ~ overflowed' => ~ overflowed /\ Len(m) < MaxDirs
  <2>1. MaxDirs \in Nat  BY WatchAssumption
  <2>2. ~ overflowed' => ~ (overflowed \/ Len(m) >= MaxDirs)  BY <1>2
  <2>3. ~ (Len(m) >= MaxDirs) => Len(m) < MaxDirs  BY <1>3, <2>1
  <2> QED  BY <2>2, <2>3
<1>9. /\ watches \subseteq watches' /\ watches' \subseteq WatchesOf(m) /\ watches' \subseteq Live
      /\ WatchesOf(m) \ watches' \subseteq WatchesOf(maps) \ watches
  BY <1>1, <1>2, <1>4
<1>10. overflowed' \in BOOLEAN  BY <1>2
<1> QED  BY <1>1, <1>2, <1>3, <1>6, <1>7, <1>8, <1>9, <1>10

\* A tree that does not change.
TreeRests == tree' = tree /\ inodes' = inodes /\ missed' = missed /\ stale' = stale

\* Where the tree does not change nothing about its directories does.
LEMMA RestingTree ==
  ASSUME TreeRests
  PROVE  /\ Dirs' = Dirs /\ Live' = Live /\ (TreeInv => TreeInv')
         /\ \A d : /\ Path(d)' = Path(d) /\ Inode(d)' = Inode(d) /\ EntryFor(d)' = EntryFor(d)
                   /\ Known(d)' = Known(d) /\ Parent(d)' = Parent(d)
<1>1. tree' = tree /\ inodes' = inodes /\ missed' = missed /\ stale' = stale  BY DEF TreeRests
<1>2. Dirs' = Dirs /\ Live' = Live /\ (TreeInv => TreeInv')
  BY <1>1 DEF Dirs, Live, TreeInv, Inode, Path
<1>3. \A d : Path(d)' = Path(d) /\ Inode(d)' = Inode(d)  BY <1>1 DEF Path, Inode
<1>4. \A d : EntryFor(d)' = EntryFor(d) /\ Parent(d)' = Parent(d)  BY <1>1 DEF EntryFor, Parent, Path, Inode
<1>5. \A d : Known(d)' = Known(d)  BY <1>1 DEF Known, Path, Inode
<1> QED  BY <1>2, <1>3, <1>4, <1>5

\* A directory of the scan is read: what is in it has its entry, and is scanned in turn.
LEMMA ScanDirKeepsWatch ==
  ASSUME WatchInv, NEW prefix \in scan, ScanDir(prefix)
  PROVE  WatchInv'
<1> DEFINE Found == {Path(d) : d \in {e \in Dirs : Path(e) # <<>> /\ Front(Path(e)) = prefix}}
<1>1. TreeInv /\ RecordsInv /\ MapInv /\ ReachInv  BY DEF WatchInv
<1>2. /\ Attached(AttachAll(maps, Found)) /\ scan' = (scan \ {prefix}) \cup Found
      /\ queue' = queue /\ watching' = watching /\ TreeRests
  BY DEF ScanDir, TreeRests
<1>3. watching /\ prefix \in Seq(Names)  BY <1>1 DEF MapInv
<1>4. IsFiniteSet(Found)
  <2> DEFINE E == {e \in Dirs : Path(e) # <<>> /\ Front(Path(e)) = prefix}
             f == [d \in E |-> Path(d)]
  <2>1. IsFiniteSet(E)
    <3>1. IsFiniteSet(Dirs) /\ E \subseteq Dirs  BY <1>1 DEF TreeInv
    <3> QED  BY <3>1, FS_Subset
  <2>2. f \in Surjection(E, Found)
    <3>1. \A y \in Found : \E d \in E : f[d] = y  OBVIOUS
    <3>2. f \in [E -> Found]  OBVIOUS
    <3> QED  BY <3>1, <3>2 DEF Surjection
  <2> HIDE DEF E, f, Found
  <2> QED  BY <2>1, <2>2, FS_Surjection
<1>5. Map(maps)  BY <1>1 DEF MapInv, Map
<1>6. \A y \in Found : y \in Seq(Names)
  <2>1. \A d \in Dirs : Path(d) \in Seq(Names)  BY <1>1, TreeFacts
  <2> QED  BY <2>1
<1>7. \A d \in Dirs : Path(d) # <<>> /\ Front(Path(d)) = prefix => Path(d) \in Found  OBVIOUS
<1> HIDE DEF Found
<1>8. PICK m : m = AttachAll(maps, Found)  OBVIOUS
<1>9. AttachedTo(maps, m, Found) /\ Attached(m)  BY <1>1, <1>2, <1>4, <1>5, <1>8, AttachSet
<1>10. /\ m \in Seq(WatchEntries) /\ OneEntryEach(m) /\ maps' = m
       /\ watches \subseteq watches' /\ watches' \subseteq WatchesOf(m) /\ watches' \subseteq Live
       /\ WatchesOf(m) \ watches' \subseteq WatchesOf(maps) \ watches
       /\ EntryFor("/") \in ToSet(m) /\ overflowed' \in BOOLEAN
       /\ \A x \in Dirs : EntryFor(x) \in ToSet(maps) => EntryFor(x) \in ToSet(m)
       /\ ~ overflowed' => ~ overflowed /\ \A d \in Dirs : Path(d) \in Found => EntryFor(d) \in ToSet(m)
  BY <1>1, <1>3, <1>9, AttachKeepsMap
<1>11. /\ Dirs' = Dirs /\ Live' = Live /\ TreeInv'
       /\ \A d : /\ Path(d)' = Path(d) /\ Inode(d)' = Inode(d) /\ EntryFor(d)' = EntryFor(d)
                 /\ Known(d)' = Known(d) /\ Parent(d)' = Parent(d)
  BY <1>1, <1>2, RestingTree
<1>12. RecordsInv'
  <2>1. /\ queue \in Seq(Records)
        /\ \A k \in DOMAIN queue : /\ queue[k].wd \in 0 .. inodes
                                   /\ queue[k].mask = "ignored" => queue[k].wd \notin Live
                                   /\ queue[k].wd \in Live => queue[k].wd \in watches
    BY <1>1 DEF RecordsInv
  <2>2. inodes' = inodes  BY <1>2 DEF TreeRests
  <2> QED  BY <1>2, <1>10, <1>11, <2>1, <2>2 DEF RecordsInv
<1>13. MapInv'
  <2>1. Root \in watches /\ scan \subseteq Seq(Names)  BY <1>1, <1>3 DEF MapInv
  <2>2. scan' \subseteq Seq(Names)  BY <1>2, <1>6, <2>1
  <2>3. WatchesOf(maps)' = WatchesOf(m) /\ OneEntryEach(maps)' = OneEntryEach(m)
    BY <1>10 DEF WatchesOf, OneEntryEach
  <2>4. ASSUME NEW wd \in WatchesOf(m) \ watches'
        PROVE  overflowed' \/ \E k \in DOMAIN queue : queue[k] = Record("ignored", wd, NoName)
    <3>1. overflowed \/ \E k \in DOMAIN queue : queue[k] = Record("ignored", wd, NoName)
      BY <1>1, <1>10 DEF MapInv
    <3> QED  BY <1>10, <3>1
  <2> QED  BY <1>2, <1>3, <1>10, <1>11, <2>1, <2>2, <2>3, <2>4 DEF MapInv
<1>14. SUFFICES ASSUME ~ overflowed', NEW x \in Dirs, Known(x)
                PROVE  Reached(x, 0)' /\ BehindItsParent(x)'
  BY <1>11, <1>12, <1>13 DEF WatchInv, ReachInv
<1>15. Reached(x, 0) /\ BehindItsParent(x)  BY <1>1, <1>3, <1>10, <1>14 DEF ReachInv
<1>17. \A k, d : Announces(k, d)' <=> Announces(k, d)  BY <1>2, <1>11 DEF Announces
<1>18. ASSUME NEW k, Reached(x, k) PROVE Reached(x, k)'
  <2>1. CASE EntryFor(x) \in ToSet(maps)  BY <1>10, <1>11, <2>1 DEF Reached
  <2>2. CASE \E l \in k + 1 .. Len(queue) : Announces(l, x)  BY <1>2, <1>17, <2>2 DEF Reached
  <2>3. ASSUME NEW q \in scan, IsStrictPrefix(q, Path(x)) PROVE Reached(x, k)'
    <3>1. CASE q # prefix  BY <1>2, <1>11, <2>3, <3>1 DEF Reached
    <3>2. CASE q = prefix
      <4> DEFINE n == Len(prefix)
      <4>1. /\ Path(x) \in Seq(Names) /\ Len(Path(x)) \in Nat /\ n \in Nat /\ n < Len(Path(x))
            /\ \A i \in 1 .. n : prefix[i] = Path(x)[i]
        BY <1>1, <1>3, <1>14, <2>3, <3>2, PrefixByElements, TreeFacts
      <4>2. n + 1 \in 1 .. Len(Path(x)) /\ \A i \in 1 .. n : i \in 1 .. n + 1
        <5> HIDE DEF n
        <5> QED  BY <4>1
      <4>3. PICK c \in Dirs : /\ c = Path(x)[n + 1] /\ Len(Path(c)) = n + 1
                              /\ \A j \in 1 .. n + 1 : Path(c)[j] = Path(x)[j]
        BY <1>1, <1>14, <4>2, PlaceInTree
      <4>4. Path(c) \in Seq(Names) /\ Path(c) # <<>>
        <5>1. Path(c) \in Seq(Names) /\ Len(Path(c)) # 0  BY <1>1, <4>3, TreeFacts
        <5> QED  BY <5>1, EmptySeq
      <4>5. Front(Path(c)) = prefix
        <5>1. /\ Front(Path(c)) \in Seq(Names) /\ Len(Front(Path(c))) = (n + 1) - 1
              /\ \A i \in 1 .. (n + 1) - 1 : Front(Path(c))[i] = Path(c)[i]
          BY <4>3, <4>4, LastAndFront
        <5>2. (n + 1) - 1 = n  BY <4>1
        <5>3. \A i \in 1 .. n : Front(Path(c))[i] = prefix[i]  BY <4>1, <4>2, <4>3, <5>1, <5>2
        <5>4. Len(Front(Path(c))) = Len(prefix)  BY <5>1, <5>2
        <5> QED  BY <1>3, <5>1, <5>3, <5>4, SeqEqual
      <4>6. Path(c) \in Found  BY <1>7, <4>4, <4>5
      <4>7. CASE n + 1 = Len(Path(x))
        <5>1. Path(x) = Path(c)  BY <4>1, <4>3, <4>4, <4>7, SeqEqual
        <5>2. EntryFor(x) \in ToSet(m)  BY <1>10, <1>14, <4>6, <5>1
        <5> QED  BY <1>10, <1>11, <5>2 DEF Reached
      <4>8. CASE n + 1 # Len(Path(x))
        <5>1. n + 1 < Len(Path(x))  BY <4>1, <4>8
        <5>2. IsStrictPrefix(Path(c), Path(x))  BY <4>1, <4>3, <4>4, <5>1, PrefixByElements
        <5>3. Path(c) \in scan'  BY <1>2, <4>6
        <5> QED  BY <1>11, <5>2, <5>3 DEF Reached
      <4> QED  BY <4>7, <4>8
    <3> QED  BY <3>1, <3>2
  <2> QED  BY <1>18, <2>1, <2>2, <2>3 DEF Reached
<1>19. BehindItsParent(x)'
  <2>1. ASSUME NEW q \in Dirs, q = Parent(x), NEW k \in DOMAIN queue, Announces(k, q) PROVE Reached(x, k)'
    BY <1>15, <1>18, <2>1 DEF BehindItsParent
  <2> QED  BY <1>2, <1>11, <1>17, <2>1 DEF BehindItsParent
<1> QED  BY <1>15, <1>18, <1>19

\* The first record is taken from the queue.
LEMMA QueueShifts ==
  ASSUME NEW q \in Seq(Records), q # <<>>, NEW r, r = Tail(q)
  PROVE  /\ Len(q) \in Nat \ {0} /\ Head(q) = q[1] /\ q[1] \in Records /\ DOMAIN q = 1 .. Len(q)
         /\ r \in Seq(Records) /\ Len(r) = Len(q) - 1 /\ DOMAIN r = 1 .. Len(q) - 1
         /\ \A k \in 1 .. Len(q) - 1 : r[k] = q[k + 1]
         /\ \A k \in 1 .. Len(q) : k = 1 \/ k - 1 \in 1 .. Len(q) - 1
         /\ \A k \in 1 .. Len(q) - 1 : k + 1 \in 1 .. Len(q) /\ (k + 1) - 1 = k
         /\ \A k \in 0 .. Len(q) : \A l \in (k + 1) + 1 .. Len(q) : l \in 1 .. Len(q) /\ l - 1 \in k + 1 .. Len(q) - 1
<1> DEFINE n == Len(q)
<1>1. n \in Nat \ {0} /\ DOMAIN q = 1 .. n /\ Head(q) = q[1]  BY EmptySeq, LenProperties
<1>2. 1 \in 1 .. n  BY <1>1
<1>3. q[1] \in Records  BY <1>2, ElementOfSeq
<1>4. r \in Seq(Records) /\ Len(r) = n - 1 /\ \A k \in 1 .. n - 1 : r[k] = q[k + 1]
  BY HeadTailProperties
<1>5. DOMAIN r = 1 .. n - 1  BY <1>4, LenProperties
<1> HIDE DEF n
<1>6. /\ \A k \in 1 .. n : k = 1 \/ k - 1 \in 1 .. n - 1
      /\ \A k \in 1 .. n - 1 : k + 1 \in 1 .. n /\ (k + 1) - 1 = k
      /\ \A k \in 0 .. n : \A l \in (k + 1) + 1 .. n : l \in 1 .. n /\ l - 1 \in k + 1 .. n - 1
  BY <1>1
<1> QED  BY <1>1, <1>3, <1>4, <1>5, <1>6 DEF n

\* The first record says that x appeared: its parent is in the map, or x is reached
\* without it.
LEMMA HeadAnnounces ==
  ASSUME TreeInv, MapInv, ReachInv, watching, ~ overflowed, scan = {}, queue \in Seq(Records),
         NEW x \in Dirs, Known(x)
  PROVE  EntryFor(Parent(x)) \in ToSet(maps) \/ Reached(x, 1)
<1>1. PICK p : p = Parent(x)  OBVIOUS
<1>2. p \in Dirs \cup {"/"} /\ ToSet(Path(p)) \subseteq ToSet(Path(x))  BY <1>1, AboveADirectory
<1>3. CASE p = "/"  BY <1>1, <1>3 DEF MapInv
<1>4. CASE p \in Dirs
  <2>1. Known(p)  BY <1>2 DEF Known
  <2>2. Reached(p, 0) /\ BehindItsParent(x)  BY <1>4, <2>1 DEF ReachInv
  <2>3. ASSUME NEW l \in 0 + 1 .. Len(queue), Announces(l, p) PROVE Reached(x, 1)
    <3>1. l \in DOMAIN queue /\ Len(queue) \in Nat
      <4>1. Len(queue) \in Nat /\ DOMAIN queue = 1 .. Len(queue)  BY LenProperties
      <4>2. l \in 1 .. Len(queue)  BY <4>1
      <4> QED  BY <4>1, <4>2
    <3>2. Reached(x, l)  BY <1>1, <1>4, <2>2, <2>3, <3>1 DEF BehindItsParent
    <3>3. \A k \in l + 1 .. Len(queue) : k \in 1 + 1 .. Len(queue)  BY <3>1
    <3> QED  BY <3>2, <3>3 DEF Reached
  <2> QED  BY <1>1, <2>2, <2>3 DEF Reached
<1> QED  BY <1>2, <1>3, <1>4

\* What a record does to the map: nothing in it is lost but what is ignored.
HeadGoesInto(m) ==
  /\ m \in Seq(WatchEntries) /\ OneEntryEach(m) /\ EntryFor("/") \in ToSet(m)
  /\ watches \subseteq watches' /\ watches' \subseteq WatchesOf(m) /\ watches' \subseteq Live
  /\ overflowed' \in BOOLEAN /\ (~ overflowed' => ~ overflowed)
  /\ \A wd \in WatchesOf(m) \ watches' :
       wd \in WatchesOf(maps) \ watches /\ Head(queue) # Record("ignored", wd, NoName)
  /\ \A x \in Dirs : EntryFor(x) \in ToSet(maps) => EntryFor(x) \in ToSet(m)
  /\ ~ overflowed' => \A x \in Dirs :
       Known(x) /\ Announces(1, x) => EntryFor(x) \in ToSet(m) \/ Reached(x, 1)

\* An ignored watch's entry is dropped.
LEMMA IgnoredGoesInto ==
  ASSUME WatchInv, watching, queue # <<>>, Head(queue).mask = "ignored",
         watches' = watches, overflowed' = overflowed
  PROVE  HeadGoesInto(Without(maps, Head(queue).wd))
<1>1. TreeInv /\ RecordsInv /\ MapInv  BY DEF WatchInv
<1>2. /\ queue \in Seq(Records)
      /\ \A k \in DOMAIN queue : queue[k].mask = "ignored" => queue[k].wd \notin Live
  BY <1>1 DEF RecordsInv
<1>3. Head(queue) = queue[1] /\ 1 \in DOMAIN queue
  <2>1. Len(queue) \in Nat \ {0} /\ Head(queue) = queue[1] /\ DOMAIN queue = 1 .. Len(queue)
    BY <1>2, QueueShifts
  <2>2. 1 \in 1 .. Len(queue)  BY <2>1
  <2> QED  BY <2>1, <2>2
<1>4. PICK w : w = Head(queue).wd  OBVIOUS
<1>5. w \notin Live  BY <1>2, <1>3, <1>4
<1>6. PICK m : m = Without(maps, w)  OBVIOUS
<1>7. Map(maps)  BY <1>1 DEF MapInv, Map
<1>8. Map(m) /\ ToSet(m) = {x \in ToSet(maps) : x.wd # w}  BY <1>6, <1>7, WithoutEntries
<1>9. WatchesOf(m) = {x.wd : x \in ToSet(m)} /\ WatchesOf(maps) = {x.wd : x \in ToSet(maps)}
  BY <1>7, <1>8, EntriesOfMap
<1>10. WatchesOf(m) = WatchesOf(maps) \ {w}  BY <1>8, <1>9
<1>11. m \in Seq(WatchEntries) /\ OneEntryEach(m)  BY <1>8 DEF Map
<1>12. /\ watches \subseteq WatchesOf(maps) /\ watches \subseteq Live /\ EntryFor("/") \in ToSet(maps)
       /\ overflowed \in BOOLEAN
  BY <1>1 DEF MapInv
<1>13. \A d : EntryFor(d).wd = Inode(d)  BY DEF EntryFor
<1>14. Inode("/") \in Live /\ \A d \in Dirs : Inode(d) \in Live  BY DEF Live, Inode
<1>15. EntryFor("/") \in ToSet(m) /\ \A x \in Dirs : EntryFor(x) \in ToSet(maps) => EntryFor(x) \in ToSet(m)
  BY <1>5, <1>8, <1>12, <1>13, <1>14
<1>16. watches \subseteq WatchesOf(m)  BY <1>5, <1>10, <1>12
<1>17. ASSUME NEW wd \in WatchesOf(m) \ watches
       PROVE  wd \in WatchesOf(maps) \ watches /\ Head(queue) # Record("ignored", wd, NoName)
  <2>1. wd # w  BY <1>10
  <2>2. Record("ignored", wd, NoName).wd = wd  BY FieldsOfRecord
  <2> QED  BY <1>4, <1>10, <2>1, <2>2
<1>18. \A x : ~ Announces(1, x)  BY <1>3 DEF Announces
<1>19. HeadGoesInto(m)
  BY <1>11, <1>12, <1>15, <1>16, <1>17, <1>18 DEF HeadGoesInto
<1> QED  BY <1>4, <1>6, <1>19

\* A record of another kind, or of a watch that has no entry, does nothing.
LEMMA OtherGoesInto ==
  ASSUME WatchInv, watching, scan = {}, queue # <<>>, Head(queue).mask # "ignored",
         ~ (Head(queue).mask \in {"create", "moved_to"} /\ MapOf(maps, Head(queue).wd) > 0),
         watches' = watches, overflowed' = overflowed
  PROVE  HeadGoesInto(maps)
<1>1. TreeInv /\ RecordsInv /\ MapInv /\ ReachInv  BY DEF WatchInv
<1>2. queue \in Seq(Records) /\ Head(queue) = queue[1]
  <2>1. queue \in Seq(Records)  BY <1>1 DEF RecordsInv
  <2> QED  BY <2>1, QueueShifts
<1>3. /\ maps \in Seq(WatchEntries) /\ OneEntryEach(maps) /\ EntryFor("/") \in ToSet(maps)
      /\ watches \subseteq WatchesOf(maps) /\ watches \subseteq Live /\ overflowed \in BOOLEAN
  BY <1>1 DEF MapInv
<1>4. \A wd : Head(queue) # Record("ignored", wd, NoName)
  <2>1. \A wd : Record("ignored", wd, NoName).mask = "ignored"  BY FieldsOfRecord
  <2> QED  BY <2>1
<1>5. ASSUME ~ overflowed, NEW x \in Dirs, Known(x), Announces(1, x) PROVE Reached(x, 1)
  <2>1. SUFFICES ASSUME EntryFor(Parent(x)) \in ToSet(maps) PROVE FALSE
    BY <1>1, <1>2, <1>5, HeadAnnounces
  <2>2. queue[1].mask \in {"create", "moved_to"} /\ queue[1].wd = Inode(Parent(x))  BY <1>5 DEF Announces
  <2>3. EntryFor(Parent(x)).wd = Inode(Parent(x))  BY DEF EntryFor
  <2>4. DOMAIN maps = 1 .. Len(maps) /\ Len(maps) \in Nat  BY <1>3, LenProperties
  <2>5. PICK i \in 1 .. Len(maps) : maps[i] = EntryFor(Parent(x))  BY <2>1, <2>4 DEF ToSet
  <2>6. MapOf(maps, queue[1].wd) \in 1 .. Len(maps)  BY <1>3, <2>2, <2>3, <2>5, WatchIsFound
  <2>7. MapOf(maps, queue[1].wd) > 0  BY <2>4, <2>6
  <2> QED  BY <1>2, <2>2, <2>7
<1> QED  BY <1>3, <1>4, <1>5 DEF HeadGoesInto

\* The map with what the first record names attached below its watch's entry.
AttachesItsChild(m) ==
  \E at : /\ at = MapOf(maps, Head(queue).wd) /\ at > 0
          /\ m = AttachAll(maps, {Append(maps[at].prefix, Head(queue).name)})

\* What appeared in a directory of the map is attached, if it is still there.
LEMMA ChildGoesInto ==
  ASSUME WatchInv, watching, scan = {}, queue # <<>>, Head(queue).mask \in {"create", "moved_to"},
         NEW m, AttachesItsChild(m), Attached(m)
  PROVE  HeadGoesInto(m)
<1>0. PICK at : /\ at = MapOf(maps, Head(queue).wd) /\ at > 0
                /\ m = AttachAll(maps, {Append(maps[at].prefix, Head(queue).name)})
  BY DEF AttachesItsChild
<1> DEFINE child == Append(maps[at].prefix, Head(queue).name)
<1>1. TreeInv /\ RecordsInv /\ MapInv /\ ReachInv  BY DEF WatchInv
<1>2. queue \in Seq(Records) /\ Head(queue) = queue[1]
  <2>1. queue \in Seq(Records)  BY <1>1 DEF RecordsInv
  <2> QED  BY <2>1, QueueShifts
<1>3. Map(maps) /\ maps \in Seq(WatchEntries)  BY <1>1 DEF MapInv, Map
<1>4. IsFiniteSet({child})  BY FS_Singleton
<1>5. AttachedTo(maps, m, {child})  BY <1>0, <1>1, <1>3, <1>4, AttachSet
<1> HIDE DEF child
<1>6. /\ m \in Seq(WatchEntries) /\ OneEntryEach(m)
      /\ watches \subseteq watches' /\ watches' \subseteq WatchesOf(m) /\ watches' \subseteq Live
      /\ WatchesOf(m) \ watches' \subseteq WatchesOf(maps) \ watches
      /\ EntryFor("/") \in ToSet(m) /\ overflowed' \in BOOLEAN
      /\ \A x \in Dirs : EntryFor(x) \in ToSet(maps) => EntryFor(x) \in ToSet(m)
      /\ ~ overflowed' => ~ overflowed /\ \A d \in Dirs : Path(d) \in {child} => EntryFor(d) \in ToSet(m)
  BY <1>1, <1>5, AttachKeepsMap
<1>7. \A wd : Head(queue) # Record("ignored", wd, NoName)
  <2>1. \A wd : Record("ignored", wd, NoName).mask = "ignored"  BY FieldsOfRecord
  <2> QED  BY <2>1
<1>8. ASSUME ~ overflowed', NEW x \in Dirs, Known(x), Announces(1, x), ~ Reached(x, 1)
      PROVE  EntryFor(x) \in ToSet(m)
  <2>1. PICK p : p = Parent(x)  OBVIOUS
  <2>2. EntryFor(p) \in ToSet(maps)  BY <1>1, <1>2, <1>6, <1>8, <2>1, HeadAnnounces
  <2>3. queue[1].name = x /\ queue[1].wd = Inode(p)  BY <1>8, <2>1 DEF Announces
  <2>4. at \in 1 .. Len(maps) /\ maps[at].wd = Inode(p)
    <3>1. at # 0  BY <1>0
    <3> QED  BY <1>0, <1>2, <1>3, <2>3, <3>1, WatchIsFound
  <2>5. maps[at] \in ToSet(maps)
    <3>1. DOMAIN maps = 1 .. Len(maps)  BY <1>3, LenProperties
    <3> QED  BY <2>4, <3>1 DEF ToSet
  <2>6. EntryFor(p).wd = Inode(p) /\ EntryFor(p).prefix = Path(p)  BY DEF EntryFor
  <2>7. maps[at] = EntryFor(p)  BY <1>3, <2>2, <2>4, <2>5, <2>6, EntriesOfMap
  <2>8. child = Append(Path(p), x)  BY <1>2, <2>3, <2>6, <2>7 DEF child
  <2>9. Path(x) = Append(Path(p), x)  BY <1>1, <2>1, AboveADirectory
  <2> QED  BY <1>6, <1>8, <2>8, <2>9
<1>9. ~ overflowed' => \A x \in Dirs : Known(x) /\ Announces(1, x) => EntryFor(x) \in ToSet(m) \/ Reached(x, 1)
  BY <1>8
<1>10. \A wd \in WatchesOf(m) \ watches' :
         wd \in WatchesOf(maps) \ watches /\ Head(queue) # Record("ignored", wd, NoName)
  BY <1>6, <1>7
<1>11. ~ overflowed' => ~ overflowed  BY <1>6
<1> QED  BY <1>6, <1>9, <1>10, <1>11 DEF HeadGoesInto

\* A record is read.
LEMMA PollRecordKeepsWatch ==
  ASSUME WatchInv, PollRecord
  PROVE  WatchInv'
<1> DEFINE r == Head(queue)
           at == MapOf(maps, r.wd)
           child == Append(maps[at].prefix, r.name)
<1>1. TreeInv /\ RecordsInv /\ MapInv /\ ReachInv  BY DEF WatchInv
<1>2. /\ watching /\ scan = {} /\ queue # <<>> /\ queue' = Tail(queue)
      /\ scan' = scan /\ watching' = watching /\ TreeRests
  BY DEF PollRecord, TreeRests
<1>3. /\ r.mask = "ignored" => maps' = Without(maps, r.wd) /\ UNCHANGED <<watches, overflowed>>
      /\ r.mask # "ignored" /\ r.mask \in {"create", "moved_to"} /\ at > 0 =>
           Attached(AttachAll(maps, {child}))
      /\ r.mask # "ignored" /\ ~ (r.mask \in {"create", "moved_to"} /\ at > 0) =>
           UNCHANGED <<maps, watches, overflowed>>
  BY DEF PollRecord
<1> HIDE DEF child, at
<1>4. /\ queue \in Seq(Records)
      /\ \A k \in DOMAIN queue : /\ queue[k].wd \in 0 .. inodes
                                 /\ queue[k].mask = "ignored" => queue[k].wd \notin Live
                                 /\ queue[k].wd \in Live => queue[k].wd \in watches
  BY <1>1 DEF RecordsInv
<1>5. HeadGoesInto(maps')
  <2>1. CASE r.mask = "ignored"
    <3>1. maps' = Without(maps, r.wd) /\ watches' = watches /\ overflowed' = overflowed
      BY <1>3, <2>1
    <3> QED  BY <1>2, <2>1, <3>1, IgnoredGoesInto
  <2>2. CASE r.mask \in {"create", "moved_to"} /\ at > 0
    <3>1. r.mask # "ignored"  BY <2>2
    <3>2. PICK m : m = AttachAll(maps, {child})  OBVIOUS
    <3>3. Attached(m)  BY <1>3, <2>2, <3>1, <3>2
    <3>4. maps' = m  BY <3>3 DEF Attached
    <3>5. m = AttachAll(maps, {Append(maps[at].prefix, r.name)})  BY <3>2 DEF child
    <3>6. at = MapOf(maps, r.wd)  BY DEF at
    <3>7. AttachesItsChild(m)  BY <2>2, <3>5, <3>6 DEF AttachesItsChild
    <3>8. HeadGoesInto(m)  BY <1>2, <2>2, <3>3, <3>7, ChildGoesInto
    <3> QED  BY <3>4, <3>8
  <2>3. CASE r.mask # "ignored" /\ ~ (r.mask \in {"create", "moved_to"} /\ at > 0)
    <3>1. maps' = maps /\ watches' = watches /\ overflowed' = overflowed  BY <1>3, <2>3
    <3>2. ~ (r.mask \in {"create", "moved_to"} /\ MapOf(maps, r.wd) > 0)  BY <2>3 DEF at
    <3>3. HeadGoesInto(maps)  BY <1>2, <2>3, <3>1, <3>2, OtherGoesInto
    <3> QED  BY <3>1, <3>3
  <2> QED  BY <2>1, <2>2, <2>3
<1>6. PICK m : m = maps'  OBVIOUS
<1>7. /\ m \in Seq(WatchEntries) /\ OneEntryEach(m) /\ EntryFor("/") \in ToSet(m)
      /\ watches \subseteq watches' /\ watches' \subseteq WatchesOf(m) /\ watches' \subseteq Live
      /\ overflowed' \in BOOLEAN /\ (~ overflowed' => ~ overflowed)
      /\ \A wd \in WatchesOf(m) \ watches' :
           wd \in WatchesOf(maps) \ watches /\ r # Record("ignored", wd, NoName)
      /\ \A x \in Dirs : EntryFor(x) \in ToSet(maps) => EntryFor(x) \in ToSet(m)
      /\ ~ overflowed' => \A x \in Dirs :
           Known(x) /\ Announces(1, x) => EntryFor(x) \in ToSet(m) \/ Reached(x, 1)
  <2>1. HeadGoesInto(m)  BY <1>5, <1>6
  <2> QED  BY <2>1 DEF HeadGoesInto
<1> DEFINE n == Len(queue)
<1>8. /\ n \in Nat \ {0} /\ r = queue[1] /\ DOMAIN queue = 1 .. n
      /\ queue' \in Seq(Records) /\ Len(queue') = n - 1 /\ DOMAIN queue' = 1 .. n - 1
      /\ \A k \in 1 .. n - 1 : queue'[k] = queue[k + 1]
      /\ \A k \in 1 .. n : k = 1 \/ k - 1 \in 1 .. n - 1
      /\ \A k \in 1 .. n - 1 : k + 1 \in 1 .. n /\ (k + 1) - 1 = k
      /\ \A k \in 0 .. n : \A l \in (k + 1) + 1 .. n : l \in 1 .. n /\ l - 1 \in k + 1 .. n - 1
  BY <1>2, <1>4, QueueShifts
<1> HIDE DEF n, r
<1>9. \A k \in 1 .. n : k # 1 => k - 1 \in 1 .. n - 1 /\ queue'[k - 1] = queue[k]
  <2>1. \A k \in Nat : (k - 1) + 1 = k  OBVIOUS
  <2>2. 1 .. n \subseteq Nat  BY <1>8
  <2> QED  BY <1>8, <2>1, <2>2
<1>10. /\ Dirs' = Dirs /\ Live' = Live /\ TreeInv' /\ inodes' = inodes
       /\ \A d : /\ Path(d)' = Path(d) /\ Inode(d)' = Inode(d) /\ EntryFor(d)' = EntryFor(d)
                 /\ Known(d)' = Known(d) /\ Parent(d)' = Parent(d)
  BY <1>1, <1>2, RestingTree DEF TreeRests
<1>11. RecordsInv'
  <2>1. ASSUME NEW k \in DOMAIN queue'
        PROVE  /\ queue'[k].wd \in 0 .. inodes
               /\ queue'[k].mask = "ignored" => queue'[k].wd \notin Live
               /\ queue'[k].wd \in Live => queue'[k].wd \in watches'
    <3>1. k + 1 \in DOMAIN queue /\ queue'[k] = queue[k + 1]  BY <1>8, <2>1
    <3> QED  BY <1>4, <1>7, <3>1
  <2> QED  BY <1>8, <1>10, <2>1 DEF RecordsInv
<1>12. MapInv'
  <2>1. Root \in watches /\ scan \subseteq Seq(Names)  BY <1>1, <1>2 DEF MapInv
  <2>2. WatchesOf(maps)' = WatchesOf(m) /\ OneEntryEach(maps)' = OneEntryEach(m)
    BY <1>6 DEF WatchesOf, OneEntryEach
  <2>3. ASSUME NEW wd \in WatchesOf(m) \ watches'
        PROVE  overflowed' \/ \E k \in DOMAIN queue' : queue'[k] = Record("ignored", wd, NoName)
    <3>1. wd \in WatchesOf(maps) \ watches /\ r # Record("ignored", wd, NoName)  BY <1>7
    <3>2. overflowed \/ \E k \in DOMAIN queue : queue[k] = Record("ignored", wd, NoName)
      BY <1>1, <3>1 DEF MapInv
    <3>3. ASSUME NEW k \in DOMAIN queue, queue[k] = Record("ignored", wd, NoName)
          PROVE  \E l \in DOMAIN queue' : queue'[l] = Record("ignored", wd, NoName)
      <4>1. k # 1  BY <1>8, <3>1, <3>3
      <4>2. k - 1 \in DOMAIN queue' /\ queue'[k - 1] = queue[k]  BY <1>8, <1>9, <4>1
      <4> QED  BY <3>3, <4>2
    <3> QED  BY <1>7, <3>2, <3>3
  <2>4. EntryFor("/")' \in ToSet(m)  BY <1>7, <1>10
  <2> QED  BY <1>2, <1>6, <1>7, <1>10, <2>1, <2>2, <2>3, <2>4 DEF MapInv
<1>13. SUFFICES ASSUME ~ overflowed', NEW x \in Dirs, Known(x)
                PROVE  Reached(x, 0)' /\ BehindItsParent(x)'
  BY <1>10, <1>11, <1>12 DEF WatchInv, ReachInv
<1>14. Reached(x, 0) /\ BehindItsParent(x)  BY <1>1, <1>2, <1>7, <1>13 DEF ReachInv
<1>15. \A d : \A k \in 1 .. n - 1 : Announces(k, d)' <=> Announces(k + 1, d)
  BY <1>8, <1>10 DEF Announces
<1>16. EntryFor(x) \in ToSet(m) => \A k : Reached(x, k)'
  <2>1. EntryFor(x)' = EntryFor(x)  BY <1>10
  <2> QED  BY <1>6, <2>1 DEF Reached
<1>17. ASSUME NEW k \in 0 .. n, Reached(x, k + 1) PROVE Reached(x, k)'
  <2>1. CASE EntryFor(x) \in ToSet(maps)  BY <1>7, <1>16, <2>1
  <2>2. ASSUME NEW l \in (k + 1) + 1 .. n, Announces(l, x) PROVE Reached(x, k)'
    <3>1. l \in 1 .. n /\ l - 1 \in k + 1 .. n - 1  BY <1>8
    <3>2. l # 1 /\ (l - 1) + 1 = l  BY <1>8, <3>1
    <3>3. l - 1 \in 1 .. n - 1  BY <1>9, <3>1, <3>2
    <3>4. Announces(l - 1, x)'  BY <1>15, <2>2, <3>2, <3>3
    <3> QED  BY <1>8, <3>1, <3>4 DEF Reached
  <2> QED  BY <1>2, <1>17, <2>1, <2>2 DEF Reached, n
<1>18. Reached(x, 0)'
  <2>1. 0 \in 0 .. n /\ 0 + 1 = 1  BY <1>8
  <2>2. CASE Reached(x, 1)  BY <1>17, <2>1, <2>2
  <2>3. CASE ~ Reached(x, 1)
    <3>1. EntryFor(x) \in ToSet(maps) => EntryFor(x) \in ToSet(m)  BY <1>7
    <3>2. ASSUME NEW l \in 0 + 1 .. n, Announces(l, x) PROVE EntryFor(x) \in ToSet(m)
      <4>1. l = 1 \/ l \in 1 + 1 .. n  BY <1>8
      <4>2. CASE l = 1  BY <1>7, <1>13, <2>3, <3>2, <4>2
      <4>3. CASE l \in 1 + 1 .. n  BY <2>3, <3>2, <4>3 DEF Reached, n
      <4> QED  BY <4>1, <4>2, <4>3
    <3>3. EntryFor(x) \in ToSet(m)  BY <1>2, <1>14, <3>1, <3>2 DEF Reached, n
    <3> QED  BY <1>16, <3>3
  <2> QED  BY <2>2, <2>3
<1>19. BehindItsParent(x)'
  <2>1. ASSUME NEW q \in Dirs, q = Parent(x), NEW k \in 1 .. n - 1, Announces(k, q)' PROVE Reached(x, k)'
    <3>1. k + 1 \in DOMAIN queue /\ Announces(k + 1, q)  BY <1>8, <1>15, <2>1
    <3>2. Reached(x, k + 1)  BY <1>14, <2>1, <3>1 DEF BehindItsParent
    <3>3. k \in 0 .. n  BY <1>8
    <3> QED  BY <1>17, <3>2, <3>3
  <2> QED  BY <1>8, <1>10, <2>1 DEF BehindItsParent
<1> QED  BY <1>18, <1>19

\* No watch is open.
LEMMA WatchInitial == WatchInit => WatchInv
<1>1. SUFFICES ASSUME WatchInit PROVE WatchInv  OBVIOUS
<1>2. /\ tree = [n \in {} |-> 0] /\ inodes = 0 /\ watches = {} /\ queue = <<>> /\ maps = <<>> /\ scan = {}
      /\ watching = FALSE /\ overflowed = FALSE
  BY <1>1 DEF WatchInit
<1>3. Dirs = {}  BY <1>2 DEF Dirs
<1>4. TreeInv
  <2>1. IsFiniteSet({})  BY FS_EmptySet
  <2>2. tree \in [{} -> [inode : Nat, path : Seq(Names)]]  BY <1>2
  <2> QED  BY <1>2, <1>3, <2>1, <2>2 DEF TreeInv
<1>5. queue \in Seq(Records) /\ DOMAIN queue = {} /\ maps \in Seq(WatchEntries) /\ DOMAIN maps = {}
  BY <1>2, EmptySeq
<1>6. RecordsInv  BY <1>5 DEF RecordsInv
<1>7. MapInv
  <2>1. WatchesOf(maps) = {} /\ OneEntryEach(maps)  BY <1>5 DEF WatchesOf, OneEntryEach
  <2> QED  BY <1>2, <1>5, <2>1 DEF MapInv
<1>8. ReachInv  BY <1>2 DEF ReachInv
<1> QED  BY <1>4, <1>6, <1>7, <1>8 DEF WatchInv

\* Every step of the tree and of the watch keeps it.
LEMMA WatchStep == WatchInv /\ [WatchNext]_watchVars => WatchInv'
<1>1. SUFFICES ASSUME WatchInv, [WatchNext]_watchVars PROVE WatchInv'  OBVIOUS
<1>2. ASSUME NEW d \in Names, RemoveDir(d) PROVE WatchInv'  BY <1>1, <1>2, RemoveDirKeepsWatch
<1>3. ASSUME NEW d \in Names, NEW p \in Names \cup {"/"}, MakeDir(d, p) PROVE WatchInv'
  BY <1>1, <1>3, MakeDirKeepsWatch
<1>4. ASSUME NEW d \in Names, NEW p \in Names \cup {"/"}, MoveDir(d, p) PROVE WatchInv'
  BY <1>1, <1>4, MoveDirKeepsWatch
<1>5. CASE OpenWatch  BY <1>1, <1>5, OpenWatchKeepsWatch
<1>6. CASE CloseWatch  BY <1>1, <1>6, CloseWatchKeepsWatch
<1>7. CASE PollRecord  BY <1>1, <1>7, PollRecordKeepsWatch
<1>8. ASSUME NEW prefix \in scan, ScanDir(prefix) PROVE WatchInv'  BY <1>1, <1>8, ScanDirKeepsWatch
<1>9. CASE UNCHANGED watchVars
  <2>1. TreeInv /\ RecordsInv /\ MapInv /\ ReachInv  BY <1>1 DEF WatchInv
  <2>2. TreeRests /\ UNCHANGED <<watches, queue, maps, scan, watching, overflowed>>
    BY <1>9 DEF watchVars, TreeRests
  <2>3. /\ Dirs' = Dirs /\ Live' = Live /\ TreeInv' /\ inodes' = inodes
        /\ \A d : /\ Path(d)' = Path(d) /\ Inode(d)' = Inode(d) /\ EntryFor(d)' = EntryFor(d)
                  /\ Known(d)' = Known(d) /\ Parent(d)' = Parent(d)
    BY <2>1, <2>2, RestingTree DEF TreeRests
  <2>4. RecordsInv'  BY <2>1, <2>2, <2>3 DEF RecordsInv
  <2>5. MapInv'  BY <2>1, <2>2, <2>3 DEF MapInv, WatchesOf, OneEntryEach
  <2>6. \A k, d : Announces(k, d)' = Announces(k, d)  BY <2>2, <2>3 DEF Announces
  <2>7. \A k, d : Reached(d, k)' = Reached(d, k)  BY <2>2, <2>3, <2>6 DEF Reached
  <2>8. \A d : BehindItsParent(d)' = BehindItsParent(d)  BY <2>2, <2>3, <2>6, <2>7 DEF BehindItsParent
  <2>9. ReachInv'  BY <2>1, <2>2, <2>3, <2>7, <2>8 DEF ReachInv
  <2> QED  BY <2>3, <2>4, <2>5, <2>9 DEF WatchInv
<1> QED  BY <1>1, <1>2, <1>3, <1>4, <1>5, <1>6, <1>7, <1>8, <1>9 DEF WatchNext

\* Once the records are read, what is reached is in the map.
LEMMA WatchCovers == WatchInv => MapFollowsTheKernel /\ EveryDirectoryIsWatched
<1>1. SUFFICES ASSUME WatchInv PROVE MapFollowsTheKernel /\ EveryDirectoryIsWatched  OBVIOUS
<1>2. MapInv /\ ReachInv  BY <1>1 DEF WatchInv
<1>3. MapFollowsTheKernel  BY <1>2 DEF MapFollowsTheKernel, MapInv, OneEntryEach
<1>4. EveryDirectoryIsWatched
  <2>1. SUFFICES ASSUME watching, scan = {}, ~ overflowed, NEW d \in Dirs, Known(d)
                 PROVE  \/ Pending({"create", "moved_to"}, d)
                        \/ \E k \in DOMAIN maps : maps[k].wd = Inode(d) /\ maps[k].prefix = Path(d)
    BY DEF EveryDirectoryIsWatched, Known
  <2>2. Reached(d, 0)  BY <1>2, <2>1 DEF ReachInv
  <2>3. CASE EntryFor(d) \in ToSet(maps)
    <3>1. PICK k \in DOMAIN maps : maps[k] = EntryFor(d)  BY <2>3 DEF ToSet
    <3> QED  BY <3>1 DEF EntryFor
  <2>4. ASSUME NEW l \in 0 + 1 .. Len(queue), Announces(l, d) PROVE Pending({"create", "moved_to"}, d)
    <3>1. l \in DOMAIN queue
      <4>1. queue \in Seq(Records)  BY <1>1 DEF WatchInv, RecordsInv
      <4>2. Len(queue) \in Nat /\ DOMAIN queue = 1 .. Len(queue)  BY <4>1, LenProperties
      <4> QED  BY <4>2
    <3> QED  BY <2>4, <3>1 DEF Pending, Announces
  <2> QED  BY <2>1, <2>2, <2>3, <2>4 DEF Reached
<1> QED  BY <1>3, <1>4

\* The inductive invariant of the watch of Linux: what is not in the map under the
\* path it has is announced by a record behind those of its parent.
THEOREM WatchInvariant == Watching => []WatchInv
BY WatchInitial, WatchStep, PTL DEF Watching
-----------------------------------------------------------------------------
(* Windows' directory watch *)

Reading == ReadInit /\ [][ReadNext]_readVars

Changes == Nat \ {0}

\* Of n changes, some, in the order they were made.
InOrder(o, n) == o \in Seq(1 .. n) /\ \A k \in 1 .. Len(o) - 1 : o[k] < o[k + 1]

\* What poll has returned, what it will return of the buffer, and what the system keeps.
Order == Told \o Unread \o kept

\* Where poll is in the buffer: it has not looked at it, or it is within it.
BufferInv ==
  /\ read \in {"none", "armed", "done", "off"} /\ signaled \in BOOLEAN
  /\ batch \in Seq(Changes) /\ filled \in Nat /\ position \in Nat
  /\ read \in {"none", "armed"} => filled = 0 /\ position = 0
  /\ read = "done" => /\ signaled
                      /\ \/ filled = 0 /\ position = 0
                         \/ filled = Len(batch) /\ position \in 1 .. Len(batch) - 1

ReadInv ==
  /\ BufferInv
  /\ made \in Nat /\ kept \in Seq(Changes) /\ reported \in Seq(Nat) /\ lossy \in BOOLEAN
  /\ lossy => kept = <<>>
  /\ dropped # {} => lossy \/ (read = "done" /\ batch = <<>>)
  /\ InOrder(Order, made)
  /\ Overflow \notin ToSet(reported) => ToSet(Order) \cup dropped = 1 .. made

\* A change that is made last comes last.
LEMMA NewestComesLast ==
  ASSUME NEW n \in Nat, NEW o, InOrder(o, n)
  PROVE  InOrder(Append(o, n + 1), n + 1) /\ ToSet(Append(o, n + 1)) = ToSet(o) \cup {n + 1}
<1> DEFINE p == Append(o, n + 1)
<1>1. o \in Seq(1 .. n + 1) /\ n + 1 \in 1 .. n + 1
  <2>1. 1 .. n \subseteq 1 .. n + 1  OBVIOUS
  <2> QED  BY <2>1, SeqMonotonic DEF InOrder
<1>2. Len(o) \in Nat /\ DOMAIN o = 1 .. Len(o) /\ \A k \in 1 .. Len(o) : o[k] \in 1 .. n
  BY LenProperties, ElementOfSeq DEF InOrder
<1>3. /\ p \in Seq(1 .. n + 1) /\ Len(p) = Len(o) + 1 /\ p[Len(o) + 1] = n + 1
      /\ \A k \in 1 .. Len(o) : p[k] = o[k]
  BY <1>1, AppendProperties
<1> HIDE DEF p
<1>4. DOMAIN p = 1 .. Len(o) + 1  BY <1>3, LenProperties
<1>5. ASSUME NEW k \in 1 .. Len(p) - 1 PROVE p[k] < p[k + 1]
  <2>1. k \in 1 .. Len(o)  BY <1>2, <1>3
  <2>2. CASE k = Len(o)  BY <1>2, <1>3, <2>1, <2>2
  <2>3. CASE k # Len(o)
    <3>1. \A m \in Nat : \A i \in 1 .. m : i # m => i \in 1 .. m - 1 /\ i + 1 \in 1 .. m  OBVIOUS
    <3>2. k \in 1 .. Len(o) - 1 /\ k + 1 \in 1 .. Len(o)  BY <1>2, <2>1, <2>3, <3>1
    <3> QED  BY <1>3, <2>1, <3>2 DEF InOrder
  <2> QED  BY <2>2, <2>3
<1>6. \A k \in 1 .. Len(o) + 1 : k = Len(o) + 1 \/ k \in 1 .. Len(o)  BY <1>2
<1>7. Len(o) + 1 \in 1 .. Len(o) + 1 /\ \A k \in 1 .. Len(o) : k \in 1 .. Len(o) + 1  BY <1>2
<1>8. ToSet(p) = ToSet(o) \cup {n + 1}
  <2>1. ToSet(p) = {p[k] : k \in 1 .. Len(o) + 1} /\ ToSet(o) = {o[k] : k \in 1 .. Len(o)}
    BY <1>2, <1>4 DEF ToSet
  <2> QED  BY <1>3, <1>6, <1>7, <2>1
<1> QED  BY <1>3, <1>5, <1>8 DEF InOrder, p

\* Without its end an order is one, and what is left is what it was.
LEMMA CutInOrder ==
  ASSUME NEW n \in Nat, NEW a \in Seq(Nat), NEW b \in Seq(Nat), InOrder(a \o b, n)
  PROVE  InOrder(a, n) /\ InOrder(a, n + 1) /\ ToSet(a \o b) = ToSet(a) \cup ToSet(b)
<1> DEFINE o == a \o b
<1>1. /\ Len(a) \in Nat /\ Len(b) \in Nat /\ DOMAIN a = 1 .. Len(a) /\ DOMAIN b = 1 .. Len(b)
      /\ a \in [1 .. Len(a) -> Nat]
  BY LenProperties
<1>2. /\ o \in Seq(Nat) /\ Len(o) = Len(a) + Len(b)
      /\ \A k \in 1 .. Len(a) + Len(b) : o[k] = IF k <= Len(a) THEN a[k] ELSE b[k - Len(a)]
  BY ConcatProperties
<1>3. o \in Seq(1 .. n) /\ \A k \in 1 .. Len(o) - 1 : o[k] < o[k + 1]  BY DEF InOrder
<1> HIDE DEF o
<1>4. DOMAIN o = 1 .. Len(a) + Len(b) /\ \A k \in 1 .. Len(o) : o[k] \in 1 .. n
  BY <1>2, <1>3, LenProperties, ElementOfSeq
<1>5. \A k \in 1 .. Len(a) : k \in 1 .. Len(a) + Len(b) /\ k <= Len(a) /\ a[k] = o[k]
  BY <1>1, <1>2
<1>6. \A k \in 1 .. Len(a) : a[k] \in 1 .. n  BY <1>2, <1>4, <1>5
<1>7. a \in Seq(1 .. n) /\ a \in Seq(1 .. n + 1)
  <2>1. a \in [1 .. Len(a) -> 1 .. n] /\ a \in [1 .. Len(a) -> 1 .. n + 1]  BY <1>1, <1>6
  <2>2. \A S : a \in [1 .. Len(a) -> S] => a \in Seq(S)  BY <1>1, SeqDef
  <2> QED  BY <2>1, <2>2
<1>8. \A k \in 1 .. Len(a) - 1 : a[k] < a[k + 1]
  <2>1. \A k \in 1 .. Len(a) - 1 : k \in 1 .. Len(o) - 1 /\ k \in 1 .. Len(a) /\ k + 1 \in 1 .. Len(a)
    BY <1>1, <1>2
  <2> QED  BY <1>3, <1>5, <2>1
<1>9. ToSet(o) = ToSet(a) \cup ToSet(b)
  <2>1. /\ ToSet(o) = {o[k] : k \in 1 .. Len(a) + Len(b)} /\ ToSet(a) = {a[k] : k \in 1 .. Len(a)}
        /\ ToSet(b) = {b[k] : k \in 1 .. Len(b)}
    BY <1>1, <1>4 DEF ToSet
  <2>2. ASSUME NEW k \in 1 .. Len(a) + Len(b) PROVE o[k] \in ToSet(a) \cup ToSet(b)
    <3>1. CASE k <= Len(a)
      <4>1. k \in 1 .. Len(a) /\ o[k] = a[k]  BY <1>1, <1>2, <3>1
      <4> QED  BY <2>1, <4>1
    <3>2. CASE ~ (k <= Len(a))
      <4>1. k - Len(a) \in 1 .. Len(b) /\ o[k] = b[k - Len(a)]  BY <1>1, <1>2, <3>2
      <4> QED  BY <2>1, <4>1
    <3> QED  BY <3>1, <3>2
  <2>3. ASSUME NEW k \in 1 .. Len(b) PROVE b[k] \in ToSet(o)
    <3>1. Len(a) + k \in 1 .. Len(a) + Len(b) /\ ~ (Len(a) + k <= Len(a)) /\ (Len(a) + k) - Len(a) = k
      BY <1>1
    <3>2. o[Len(a) + k] = b[k]  BY <1>2, <3>1
    <3> QED  BY <2>1, <3>1, <3>2
  <2>4. ToSet(a) \subseteq ToSet(o)  BY <1>5, <2>1
  <2> QED  BY <2>1, <2>2, <2>3, <2>4
<1> QED  BY <1>7, <1>8, <1>9 DEF InOrder, o

\* The records poll has told of, and what it tells of next.
LEMMA ToldGrows ==
  ASSUME NEW rep \in Seq(Nat), NEW x \in Nat,
         NEW told, told = Selected(rep, {k \in DOMAIN rep : rep[k] # Overflow}),
         NEW told2, told2 = Selected(Append(rep, x), {k \in DOMAIN Append(rep, x) : Append(rep, x)[k] # Overflow})
  PROVE  told \in Seq(Nat) /\ told2 = IF x = Overflow THEN told ELSE Append(told, x)
<1> DEFINE more == Append(rep, x)
           K == {k \in DOMAIN rep : rep[k] # Overflow}
           L == {k \in DOMAIN more : more[k] # Overflow}
<1>1. /\ Len(rep) \in Nat /\ DOMAIN rep = 1 .. Len(rep) /\ more \in Seq(Nat)
      /\ Len(more) = Len(rep) + 1 /\ more[Len(rep) + 1] = x
      /\ \A k \in 1 .. Len(rep) : more[k] = rep[k]
  BY LenProperties, AppendProperties
<1> HIDE DEF more
<1>2. DOMAIN more = 1 .. Len(rep) + 1  BY <1>1, LenProperties
<1>3. \A k \in 1 .. Len(rep) : k \in K <=> k \in L  BY <1>1, <1>2
<1>4. Len(rep) + 1 \in L <=> x # Overflow  BY <1>1, <1>2
<1> HIDE DEF K, L
<1>5. Selected(more, L) = IF Len(rep) + 1 \in L THEN Append(Selected(rep, K), x) ELSE Selected(rep, K)
  BY <1>3, SelectionExtends DEF more
<1>6. Selected(rep, K) \in Seq(Nat)  BY SelectionKeeps
<1>7. told = Selected(rep, K) /\ told2 = Selected(more, L)  BY DEF K, L, more
<1> QED  BY <1>4, <1>5, <1>6, <1>7

\* A record moves from the buffer to what poll has told.
LEMMA RecordMoves ==
  ASSUME NEW told \in Seq(Nat), NEW b \in Seq(Nat), NEW at \in 0 .. Len(b) - 1
  PROVE  Append(told, b[at + 1]) \o SubSeq(b, at + 2, Len(b)) = told \o SubSeq(b, at + 1, Len(b))
<1> DEFINE x == b[at + 1]
           rest == SubSeq(b, at + 2, Len(b))
<1>1. Len(b) \in Nat /\ at + 1 \in 1 .. Len(b) /\ Len(b) \in at + 1 .. Len(b) /\ (at + 1) + 1 = at + 2
  BY LenProperties
<1>2. x \in Nat  BY <1>1, ElementOfSeq
<1>3. SubSeq(b, at + 1, Len(b)) = <<x>> \o rest
  <2>1. SubSeq(b, at + 1, Len(b)) = <<b[at + 1]>> \o SubSeq(b, (at + 1) + 1, Len(b))
    BY <1>1, SubSeqRecursiveFirst
  <2> QED  BY <1>1, <2>1
<1>4. rest \in Seq(Nat)
  <2>1. \A i \in at + 2 .. Len(b) : i \in 1 .. Len(b)  BY <1>1
  <2>2. \A i \in at + 2 .. Len(b) : b[i] \in Nat  BY <2>1, ElementOfSeq
  <2> QED  BY <1>1, <2>2, SubSeqProperties
<1> HIDE DEF x, rest
<1> DEFINE one == <<x>>
<1>5. one \in Seq(Nat)
  <2>1. Append(<<>>, x) \in Seq(Nat) /\ Append(<<>>, x) = <<>> \o <<x>>
    BY <1>2, EmptySeq, AppendProperties, AppendIsConcat
  <2> QED  BY <1>2, <2>1
<1>6. Append(told, x) = told \o one  BY <1>2, AppendIsConcat
<1> HIDE DEF one
<1>7. JoinAlike(told, one, rest)  BY <1>4, <1>5, JoinsAssociate
<1> QED  BY <1>3, <1>6, <1>7 DEF JoinAlike, x, rest, one

\* What poll has told of is a sequence, and what waits behind it too.
LEMMA OrderIsASequence ==
  ASSUME ReadInv
  PROVE  Told \in Seq(Nat) /\ Unread \in Seq(Nat) /\ kept \in Seq(Nat)
<1>1. Told \in Seq(Nat)  BY SelectionKeeps DEF ReadInv, Told
<1>2. batch \in Seq(Nat) /\ kept \in Seq(Nat)
  <2>1. Changes \subseteq Nat  BY DEF Changes
  <2> QED  BY <2>1, SeqMonotonic DEF ReadInv, BufferInv
<1>3. Len(batch) \in Nat /\ position \in Nat /\ position + 1 \in Int  BY <1>2, LenProperties DEF ReadInv, BufferInv
<1>4. \A i \in position + 1 .. Len(batch) : batch[i] \in Nat
  <2>1. \A i \in position + 1 .. Len(batch) : i \in 1 .. Len(batch)  BY <1>3
  <2> QED  BY <1>2, <2>1, ElementOfSeq
<1>5. SubSeq(batch, position + 1, Len(batch)) \in Seq(Nat)  BY <1>3, <1>4, SubSeqProperties
<1>6. <<>> \in Seq(Nat)  BY EmptySeq
<1> QED  BY <1>1, <1>2, <1>5, <1>6 DEF Unread

\* An empty slot has nothing to tell of.
LEMMA FreshReads ==
  ASSUME Fresh, read' \in {"none", "armed"} PROVE ReadInv'
<1>1. /\ batch' = <<>> /\ filled' = 0 /\ position' = 0 /\ made' = 0 /\ kept' = <<>>
      /\ signaled' = FALSE /\ lossy' = FALSE /\ reported' = <<>> /\ dropped' = {}
  BY DEF Fresh
<1>2. <<>> \in Seq(Changes) /\ <<>> \in Seq(Nat) /\ <<>> \in Seq(1 .. 0) /\ Len(<<>>) = 0  BY EmptySeq
<1>3. Told' = <<>>
  <2>1. \A K : Selected(<<>>, K) \in Seq(Nat) /\ Len(Selected(<<>>, K)) <= 0
    BY <1>2, SelectionKeeps
  <2>2. \A s \in Seq(Nat) : Len(s) <= 0 => s = <<>>  BY EmptySeq
  <2> QED  BY <1>1, <2>1, <2>2 DEF Told
<1>4. Unread' = <<>>  BY DEF Unread
<1>5. Order' = <<>>
  <2>1. <<>> \o <<>> = <<>>  BY <1>2, ConcatEmptySeq
  <2> QED  BY <1>1, <1>3, <1>4, <2>1 DEF Order
<1>6. InOrder(<<>>, 0)  BY <1>2 DEF InOrder
<1>7. ToSet(<<>>) = {}  BY DEF ToSet
<1>8. 1 .. 0 = {} /\ 0 \in Nat  OBVIOUS
<1>9. BufferInv'  BY <1>1, <1>2 DEF BufferInv
<1> QED  BY <1>1, <1>2, <1>5, <1>6, <1>7, <1>8, <1>9 DEF ReadInv

\* A change is the newest of those kept, or takes them with it.
LEMMA ChangeKeepsReads == ASSUME ReadInv, Change PROVE ReadInv'
<1>1. /\ read # "none" /\ made' = made + 1 /\ made \in Nat /\ made' \in Changes
      /\ UNCHANGED <<read, signaled, batch, filled, position, reported>>
  BY DEF ReadInv, Change, Changes
<1>2. Told' = Told /\ Unread' = Unread /\ BufferInv'
  <2>1. BufferInv'  BY <1>1 DEF ReadInv, BufferInv
  <2> QED  BY <1>1, <2>1 DEF Told, Unread
<1>3. Told \in Seq(Nat) /\ Unread \in Seq(Nat) /\ kept \in Seq(Nat)  BY OrderIsASequence
<1> DEFINE front == Told \o Unread
<1>4. front \in Seq(Nat)  BY <1>3, ConcatProperties
<1>5. InOrder(front \o kept, made) /\ Order = front \o kept  BY DEF ReadInv, Order
<1>6. CASE Len(kept) < SystemRoom /\ ~ lossy
  <2>1. kept' = Append(kept, made + 1) /\ lossy' = lossy /\ dropped' = dropped
    BY <1>1, <1>6 DEF Change
  <2>2. kept' \in Seq(Changes)  BY <1>1, <2>1, AppendProperties DEF ReadInv
  <2> HIDE DEF front
  <2>3. Order' = front \o kept'  BY <1>2 DEF Order, front
  <2>4. Order' = Append(Order, made + 1)
    <3> DEFINE x == made + 1
               one == <<x>>
    <3>1. x \in Nat  BY <1>1
    <3> HIDE DEF x
    <3>2. Append(kept, x) = kept \o one /\ Append(<<>>, x) \in Seq(Nat) /\ Append(<<>>, x) = one
      BY <1>3, <3>1, AppendIsConcat, AppendProperties, EmptySeq
    <3> HIDE DEF one
    <3>3. one \in Seq(Nat) /\ front \o kept \in Seq(Nat)  BY <1>3, <1>4, <3>2, ConcatProperties
    <3>4. Append(front \o kept, x) = (front \o kept) \o one
      BY <3>1, <3>3, AppendIsConcat DEF one
    <3>5. JoinAlike(front, kept, one)  BY <1>3, <1>4, <3>3, JoinsAssociate
    <3> QED  BY <1>5, <2>1, <2>3, <3>2, <3>4, <3>5 DEF JoinAlike, x
  <2>5. InOrder(Order', made') /\ ToSet(Order') = ToSet(Order) \cup {made + 1}
    BY <1>1, <1>5, <2>4, NewestComesLast
  <2>6. made \in Nat => 1 .. made + 1 = (1 .. made) \cup {made + 1}  OBVIOUS
  <2>7. Overflow \notin ToSet(reported') => ToSet(Order') \cup dropped' = 1 .. made'
    BY <1>1, <2>1, <2>5, <2>6 DEF ReadInv
  <2>8. dropped' # {} => lossy' \/ (read' = "done" /\ batch' = <<>>)
    BY <1>1, <2>1 DEF ReadInv
  <2>9. (lossy' => kept' = <<>>) /\ lossy' \in BOOLEAN  BY <1>6, <2>1 DEF ReadInv
  <2>10. made' \in Nat /\ reported' \in Seq(Nat)  BY <1>1 DEF ReadInv
  <2> QED  BY <1>2, <2>2, <2>5, <2>7, <2>8, <2>9, <2>10 DEF ReadInv
<1>7. CASE ~ (Len(kept) < SystemRoom /\ ~ lossy)
  <2>1. /\ kept' = <<>> /\ lossy' = TRUE
        /\ dropped' = dropped \cup ToSet(kept) \cup {made + 1}
    BY <1>1, <1>7 DEF Change
  <2>2. <<>> \in Seq(Changes)  BY EmptySeq
  <2>3. Order' = front
    <3>1. front \o <<>> = front  BY <1>4, ConcatEmptySeq
    <3> QED  BY <1>2, <2>1, <3>1 DEF Order
  <2> HIDE DEF front
  <2>4. InOrder(front, made + 1) /\ ToSet(front \o kept) = ToSet(front) \cup ToSet(kept)
    BY <1>1, <1>3, <1>4, <1>5, CutInOrder
  <2>5. made \in Nat => 1 .. made + 1 = (1 .. made) \cup {made + 1}  OBVIOUS
  <2>6. Overflow \notin ToSet(reported') => ToSet(Order') \cup dropped' = 1 .. made'
    <3>1. Overflow \notin ToSet(reported') => ToSet(Order) \cup dropped = 1 .. made
      BY <1>1 DEF ReadInv
    <3> QED  BY <1>1, <1>5, <2>1, <2>3, <2>4, <2>5, <3>1
  <2>7. made' \in Nat /\ reported' \in Seq(Nat)  BY <1>1 DEF ReadInv
  <2> QED  BY <1>1, <1>2, <2>1, <2>2, <2>3, <2>4, <2>6, <2>7 DEF ReadInv
<1> QED  BY <1>6, <1>7

\* What the system kept becomes the buffer.
LEMMA CompleteKeepsReads == ASSUME ReadInv, Complete PROVE ReadInv'
<1>1. /\ read = "armed" /\ read' = "done" /\ signaled' = TRUE /\ batch' = kept /\ kept' = <<>>
      /\ lossy' = FALSE /\ (kept # <<>> \/ lossy)
      /\ UNCHANGED <<filled, position, made, reported, dropped>>
  BY DEF Complete
<1>2. filled = 0 /\ position = 0  BY <1>1 DEF ReadInv, BufferInv
<1>3. Told \in Seq(Nat) /\ kept \in Seq(Nat) /\ Unread = <<>>
  BY <1>1, OrderIsASequence DEF Unread
<1>4. Told' = Told  BY <1>1 DEF Told
<1>5. Unread' = kept
  <2>1. Unread' = SubSeq(kept, 0 + 1, Len(kept))  BY <1>1, <1>2 DEF Unread
  <2>2. SubSeq(kept, 1, Len(kept)) = kept  BY <1>3, SubSeqFull
  <2> QED  BY <2>1, <2>2
<1>6. Order = Told \o kept  BY <1>3, ConcatEmptySeq DEF Order
<1>7. Order' = Told \o kept
  <2>1. Told \o kept \in Seq(Nat)  BY <1>3, ConcatProperties
  <2>2. (Told \o kept) \o <<>> = Told \o kept  BY <2>1, ConcatEmptySeq
  <2> QED  BY <1>1, <1>4, <1>5, <2>2 DEF Order
<1>8. BufferInv'  BY <1>1, <1>2 DEF ReadInv, BufferInv
<1>9. <<>> \in Seq(Changes)  BY EmptySeq
<1>10. dropped' # {} => read' = "done" /\ batch' = <<>>
  <2>1. dropped # {} => kept = <<>>  BY <1>1 DEF ReadInv
  <2> QED  BY <1>1, <2>1
<1>11. InOrder(Order', made')  BY <1>1, <1>6, <1>7 DEF ReadInv
<1>12. Overflow \notin ToSet(reported') => ToSet(Order') \cup dropped' = 1 .. made'
  BY <1>1, <1>6, <1>7 DEF ReadInv
<1>13. made' \in Nat /\ reported' \in Seq(Nat)  BY <1>1 DEF ReadInv
<1> QED  BY <1>1, <1>8, <1>9, <1>10, <1>11, <1>12, <1>13 DEF ReadInv

\* A poll tells of the next record of the buffer, or of an overflow.
LEMMA PollKeepsReads == ASSUME ReadInv, PollChanges PROVE ReadInv'
<1> DEFINE more == ~ UsedUp(position, filled)
           n == IF more THEN filled ELSE Len(batch)
           at == IF more THEN position ELSE 0
           last == UsedUp(at + 1, n)
           x == IF n = 0 THEN Overflow ELSE batch[at + 1]
<1>1. /\ read = "done" /\ reported' = Append(reported, x)
      /\ filled' = n /\ position' = IF last THEN n ELSE at + 1
      /\ signaled' = (signaled /\ ~ last) /\ read' = IF last THEN "off" ELSE "done"
      /\ dropped' = IF n = 0 THEN {} ELSE dropped
      /\ UNCHANGED <<batch, made, kept, lossy>>
  BY DEF PollChanges
<1>2. /\ signaled /\ batch \in Seq(Changes) /\ Len(batch) \in Nat
      /\ filled \in Nat /\ position \in Nat
      /\ \/ filled = 0 /\ position = 0
         \/ filled = Len(batch) /\ position \in 1 .. Len(batch) - 1
  BY <1>1, LenProperties DEF ReadInv, BufferInv
<1>3. n = Len(batch) /\ at = position  BY <1>2 DEF UsedUp
<1>4. at \in 0 .. Len(batch) /\ (n # 0 => at \in 0 .. Len(batch) - 1)  BY <1>2, <1>3
<1>5. last <=> at + 1 >= Len(batch)  BY <1>3 DEF UsedUp
<1>6. n # 0 => batch[at + 1] \in Changes
  <2>1. n # 0 => at + 1 \in 1 .. Len(batch)  BY <1>2, <1>4
  <2> QED  BY <1>2, <2>1, ElementOfSeq
<1>7. /\ x \in Nat /\ (n = 0 => x = Overflow)
      /\ n # 0 => x # Overflow /\ x = batch[at + 1]
  BY <1>6 DEF Overflow, Changes
<1> HIDE DEF more, n, at, last, x
<1>8. Told \in Seq(Nat) /\ Unread \in Seq(Nat) /\ kept \in Seq(Nat)  BY OrderIsASequence
<1>9. Told' = IF x = Overflow THEN Told ELSE Append(Told, x)
  <2>1. reported \in Seq(Nat)  BY DEF ReadInv
  <2>2. Told' = Selected(Append(reported, x),
                         {k \in DOMAIN Append(reported, x) : Append(reported, x)[k] # Overflow})
    BY <1>1 DEF Told
  <2> QED  BY <1>7, <2>1, <2>2, ToldGrows DEF Told
<1>10. Unread = SubSeq(batch, at + 1, Len(batch))  BY <1>1, <1>3 DEF Unread
<1>11. Order' = Order
  <2>1. CASE n = 0
    <3>1. Told' = Told  BY <1>7, <1>9, <2>1
    <3>2. Unread = <<>>
      <4>1. at + 1 \in Int /\ Len(batch) \in Int /\ Len(batch) < at + 1
        BY <1>2, <1>3, <1>4, <2>1
      <4> QED  BY <1>10, <4>1, SubSeqEmpty
    <3>3. Unread' = <<>>  BY <1>1, <1>3, <1>4, <1>5, <2>1 DEF Unread
    <3> QED  BY <1>1, <3>1, <3>2, <3>3 DEF Order
  <2>2. CASE n # 0
    <3>1. Told' = Append(Told, batch[at + 1])  BY <1>7, <1>9, <2>2
    <3>2. Unread' = SubSeq(batch, at + 2, Len(batch))
      <4>1. CASE last
        <5>1. at + 2 \in Int /\ Len(batch) \in Int /\ Len(batch) < at + 2
          BY <1>2, <1>4, <1>5, <4>1
        <5>2. SubSeq(batch, at + 2, Len(batch)) = <<>>  BY <5>1, SubSeqEmpty
        <5> QED  BY <1>1, <4>1, <5>2 DEF Unread
      <4>2. CASE ~ last
        <5>1. position' + 1 = at + 2  BY <1>1, <1>4, <4>2
        <5> QED  BY <1>1, <4>2, <5>1 DEF Unread
      <4> QED  BY <4>1, <4>2
    <3>3. batch \in Seq(Nat)
      <4>1. Changes \subseteq Nat  BY DEF Changes
      <4> QED  BY <1>2, <4>1, SeqMonotonic
    <3>4. Append(Told, batch[at + 1]) \o SubSeq(batch, at + 2, Len(batch))
            = Told \o SubSeq(batch, at + 1, Len(batch))
      BY <1>4, <1>8, <2>2, <3>3, RecordMoves
    <3> QED  BY <1>1, <1>10, <3>1, <3>2, <3>4 DEF Order
  <2> QED  BY <2>1, <2>2
<1>12. BufferInv'
  <2>1. CASE last  BY <1>1, <1>2, <1>3, <2>1 DEF ReadInv, BufferInv
  <2>2. CASE ~ last
    <3>1. at + 1 \in 1 .. Len(batch) - 1  BY <1>2, <1>4, <1>5, <2>2
    <3>2. signaled' = TRUE /\ read' = "done"  BY <1>1, <1>2, <2>2
    <3>3. filled' = Len(batch) /\ position' \in 1 .. Len(batch) - 1 /\ batch' = batch
      BY <1>1, <1>3, <2>2, <3>1
    <3>4. position' \in Nat /\ filled' \in Nat  BY <1>2, <3>3
    <3> QED  BY <1>2, <3>2, <3>3, <3>4 DEF BufferInv
  <2> QED  BY <2>1, <2>2
<1>13. reported' \in Seq(Nat)  BY <1>1, <1>7, AppendProperties DEF ReadInv
<1>14. dropped' # {} => lossy'
  <2>1. batch = <<>> => n = 0  BY <1>3, EmptySeq
  <2> QED  BY <1>1, <2>1 DEF ReadInv
<1>15. Overflow \notin ToSet(reported') => ToSet(Order') \cup dropped' = 1 .. made'
  <2>1. SUFFICES ASSUME Overflow \notin ToSet(reported') PROVE ToSet(Order) \cup dropped = 1 .. made /\ n # 0
    BY <1>1, <1>11
  <2>2. /\ Len(reported) \in Nat /\ DOMAIN reported = 1 .. Len(reported)
        /\ DOMAIN reported' = 1 .. Len(reported) + 1 /\ reported'[Len(reported) + 1] = x
        /\ \A k \in 1 .. Len(reported) : reported'[k] = reported[k]
    BY <1>1, <1>7, <1>13, LenProperties, AppendProperties DEF ReadInv
  <2>3. \A k \in 1 .. Len(reported) + 1 : reported'[k] # Overflow  BY <2>1, <2>2 DEF ToSet
  <2>4. x # Overflow
    <3>1. Len(reported) + 1 \in 1 .. Len(reported) + 1  BY <2>2
    <3> QED  BY <2>2, <2>3, <3>1
  <2>5. Overflow \notin ToSet(reported)
    <3>1. \A k \in 1 .. Len(reported) : k \in 1 .. Len(reported) + 1  BY <2>2
    <3> QED  BY <2>2, <2>3, <3>1 DEF ToSet
  <2> QED  BY <1>7, <2>4, <2>5 DEF ReadInv
<1>16. InOrder(Order', made') /\ made' \in Nat /\ kept' \in Seq(Changes) /\ lossy' \in BOOLEAN
       /\ (lossy' => kept' = <<>>)
  BY <1>1, <1>11 DEF ReadInv
<1> QED  BY <1>12, <1>13, <1>14, <1>15, <1>16 DEF ReadInv

\* The next read begins with an empty buffer.
LEMMA ArmKeepsReads == ASSUME ReadInv, ArmNext PROVE ReadInv'
<1>1. /\ read = "off" /\ read' = "armed" /\ filled' = 0 /\ position' = 0
      /\ UNCHANGED <<signaled, batch, made, kept, lossy, reported, dropped>>
  BY DEF ArmNext
<1>2. BufferInv'  BY <1>1 DEF ReadInv, BufferInv
<1>3. Told' = Told /\ Unread' = Unread /\ Order' = Order  BY <1>1 DEF Told, Unread, Order
<1> QED  BY <1>1, <1>2, <1>3 DEF ReadInv

\* It holds at the start.
LEMMA ReadInitial == ReadInit => ReadInv
<1> SUFFICES ASSUME ReadInit PROVE ReadInv  OBVIOUS
<1>1. <<>> \in Seq(Changes) /\ <<>> \in Seq(Nat) /\ <<>> \in Seq(1 .. 0) /\ Len(<<>>) = 0  BY EmptySeq
<1>2. Told = <<>>
  <2>1. \A K : Selected(<<>>, K) \in Seq(Nat) /\ Len(Selected(<<>>, K)) <= 0
    BY <1>1, SelectionKeeps
  <2>2. \A s \in Seq(Nat) : Len(s) <= 0 => s = <<>>  BY EmptySeq
  <2> QED  BY <2>1, <2>2 DEF ReadInit, Told
<1>3. Order = <<>>
  <2>1. Unread = <<>>  BY DEF ReadInit, Unread
  <2>2. <<>> \o <<>> = <<>>  BY <1>1, ConcatEmptySeq
  <2> QED  BY <1>2, <2>1, <2>2 DEF ReadInit, Order
<1>4. InOrder(<<>>, 0)  BY <1>1 DEF InOrder
<1>5. ToSet(<<>>) = {} /\ 1 .. 0 = {}  BY DEF ToSet
<1>6. BufferInv  BY <1>1 DEF ReadInit, BufferInv
<1> QED  BY <1>1, <1>3, <1>4, <1>5, <1>6 DEF ReadInit, ReadInv

\* Every step keeps it.
LEMMA ReadStep == ReadInv /\ [ReadNext]_readVars => ReadInv'
<1> SUFFICES ASSUME ReadInv, [ReadNext]_readVars PROVE ReadInv'  OBVIOUS
<1>1. CASE OpenSlot  BY <1>1, FreshReads DEF OpenSlot
<1>2. CASE CloseSlot  BY <1>2, FreshReads DEF CloseSlot
<1>3. CASE Change  BY <1>3, ChangeKeepsReads
<1>4. CASE Complete  BY <1>4, CompleteKeepsReads
<1>5. CASE PollChanges  BY <1>5, PollKeepsReads
<1>6. CASE ArmNext  BY <1>6, ArmKeepsReads
<1>7. CASE UNCHANGED readVars
  BY <1>7 DEF readVars, ReadInv, BufferInv, Order, Told, Unread
<1> QED  BY <1>1, <1>2, <1>3, <1>4, <1>5, <1>6, <1>7 DEF ReadNext

\* Then nothing is skipped.
LEMMA NothingIsSkipped == ReadInv => NoChangeIsSkipped
BY DEF ReadInv, BufferInv, InOrder, Order, NoChangeIsSkipped

\* The records of a watch are reported in order and none is skipped unnoticed.
THEOREM ReadInvariant == Reading => []ReadInv
BY ReadInitial, ReadStep, PTL DEF Reading
-----------------------------------------------------------------------------
(* The services in one program *)

ServicesInv ==
  /\ HeapInv /\ HotInv /\ StateInv /\ ProcessInv /\ PipeInv /\ SignalInv /\ LockInv
  /\ WatchInv /\ ReadInv /\ LoopInv

\* A step of a program that uses the services is a step of one of them.
LEMMA StepOfAService ==
  ASSUME [Next]_<<service, serviceVars>>
  PROVE  /\ [HeapNext]_heapVars
         /\ [HotNext]_hotVars /\ [StateNext]_stateVars /\ [ProcessNext]_processVars
         /\ [PipeNext]_pipeVars /\ [SignalNext]_signalVars /\ [LockNext]_lockVars
         /\ [WatchNext]_watchVars /\ [ReadNext]_readVars /\ [LoopNext]_loopVars
<1>1. CASE UNCHANGED <<service, serviceVars>>  BY <1>1 DEF serviceVars
<1>2. CASE Next  BY <1>2 DEF Next, Others
<1> QED  BY <1>1, <1>2

\* The services keep their invariants next to each other.
THEOREM ServicesInvariant == Spec => []ServicesInv
<1>1. Init => ServicesInv
  BY HeapInitial, HotInitial, StateInitial, ProcessInitial, PipeInitial, SignalInitial,
     LockInitial, WatchInitial, ReadInitial, LoopInitial
     DEF Init, ServicesInv
<1>2. ServicesInv /\ [Next]_<<service, serviceVars>> => ServicesInv'
  BY StepOfAService, HeapStep, HotStep, StateStep, ProcessStep, PipeStep, SignalStep, LockStep,
     WatchStep, ReadStep, LoopStep
     DEF ServicesInv
<1> QED  BY <1>1, <1>2, PTL DEF Spec

\* The blocks a program holds are whole and nobody else's, the arena lasts as long as
\* the outermost block, and what was on the main heap stays there, for every size of
\* slab, list and allocation, whatever is freed, freed twice, grown, and faulted.
THEOREM BlocksOfTheHeapAreWhole == Spec => []GuardHeapIsSound
<1>1. ServicesInv => GuardHeapIsSound  BY HeapIsSound DEF ServicesInv
<1> QED  BY <1>1, ServicesInvariant, PTL

\* A swap spares the calls that run, but for the two races the property names, no two
\* names share a slot, and a saved state is restored whole or not at all, for every
\* number of threads, slots and versions, hash function and size of a state.
THEOREM HotReloadSparesTheRunning == Spec => []HotReloadIsSound
<1>1. ServicesInv => HotReloadIsSound  BY DEF ServicesInv, HotInv, StateInv, HotReloadIsSound
<1> QED  BY <1>1, ServicesInvariant, PTL

\* Kill, wait and running act on the child they are asked for unless it found no room
\* in the table or a wait took it out, and a child's pipes are its own, in whatever
\* order the system gives pids, handles and descriptors out again.
THEOREM ChildrenAreNotConfused == Spec => []ProcessesAreNotConfused
<1>1. ServicesInv => ProcessesAreNotConfused
  BY TableOwns, PipesAreTheirs DEF ServicesInv, ProcessInv, ProcessesAreNotConfused
<1> QED  BY <1>1, ServicesInvariant, PTL

\* "The last delivered byte wins": when nothing is left to wake a waiter the last
\* answer was the newest signal, for every number of waiters, room of the pipe and
\* size of a read.
THEOREM SignalsAreAnswered == Spec => []TheNewestSignalIsAnswered
<1>1. ServicesInv => TheNewestSignalIsAnswered  BY NewestIsAnswered DEF ServicesInv
<1> QED  BY <1>1, ServicesInvariant, PTL

\* Two processes never both hold a file lock, on either system and whichever of them
\* die, unless one closed another descriptor of the file on POSIX.
THEOREM FileLocksExclude == Spec => []LocksExclude
<1>1. ServicesInv => LocksExclude  BY HeldLocksExclude DEF ServicesInv
<1> QED  BY <1>1, ServicesInvariant, PTL

\* A recursive watch covers the tree once the records are read, its map has one entry for
\* each watch of the kernel, and on Windows no record is skipped unnoticed, for every
\* tree, room in the queue and in the map, and whatever is made, moved and removed at
\* whatever time, but for the directories the histories name.
THEOREM WatchesMissNoChange == Spec => []WatchesMissNothing
<1>1. ServicesInv => WatchesMissNothing
  BY WatchCovers, NothingIsSkipped DEF ServicesInv, WatchesMissNothing
<1> QED  BY <1>1, ServicesInvariant, PTL

\* The poll tables of Windows, epoll and kqueue answer the same changes alike and watch
\* the same, for every number of loops and descriptors, every room in a table and for
\* events, as long as the changes stay within what the builds agree on: with room enough
\* their waits report the same, and with less room parts of it, whole entries on Windows
\* and with epoll, and some of the directions of a descriptor with kqueue.
THEOREM EventLoopsAgree == Spec => []LoopBuildsAgree
<1>1. ServicesInv => LoopBuildsAgree  BY LoopsReportAlike DEF ServicesInv
<1> QED  BY <1>1, ServicesInvariant, PTL
=============================================================================
