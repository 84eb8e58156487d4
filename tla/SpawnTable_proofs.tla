-------------------------- MODULE SpawnTable_proofs --------------------------
(***************************************************************************)
(* The handle table, for every number of slots and any set of tasks, once  *)
(* the first spawn makes it alone (Solo): two first spawns at once may     *)
(* break it, which is why the theorems have that hypothesis.               *)
(***************************************************************************)
EXTENDS SpawnTable, FiniteSetTheorems, TLAPS

Making     == {"init-lock", "init-clear", "init-flag"}
InSpawn    == {"init", "lock", "found"} \cup Making
Holding    == {"found", "join-found", "detach-found"}
Registered == {"held", "join-found", "detach-found"}
Ended      == {"joined", "detached", "failed"}

Types ==
  /\ slots \in [Slots -> Tasks \cup {Free}] /\ lockedBy \in Tasks \cup {Free}
  /\ initialized \in BOOLEAN
  /\ pc \in [Tasks -> {"idle", "join-wait"} \cup InSpawn \cup Registered \cup Ended]
  /\ found \in [Tasks -> Slots \cup {NoSlot}] /\ handle \in [Tasks -> BOOLEAN]
  /\ worker \in [Tasks -> {"none", "started", "running", "exited"}]
  /\ reaped \in [Tasks -> Nat]
  /\ payload \in [Tasks -> {"none", "live", "freed"}]
  /\ buffer \in [Tasks -> {"none", "live", "freed"}]

\* The table is made by the one task there is, before any handle.
MadeAlone ==
  /\ ~initialized =>
       /\ \A t, u \in Tasks : pc[t] # "idle" /\ pc[u] # "idle" => t = u
       /\ \A t \in Tasks : ~handle[t] /\ pc[t] \notin {"lock", "join-wait"} \cup Holding
       /\ \A i \in Slots : slots[i] = Free
  /\ initialized => \A t \in Tasks : pc[t] \notin Making

LockIsHeld == \A t \in Tasks : lockedBy = t <=> pc[t] \in Holding

\* What the search under the lock found is still there.
SearchHolds ==
  \A t \in Tasks :
    /\ pc[t] = "found" /\ found[t] # NoSlot => slots[found[t]] = Free
    /\ pc[t] \in {"join-found", "detach-found"} =>
         found[t] \in Slots /\ slots[found[t]] = t

\* Slots and handles are two views of one thing.
SlotsAreHandles ==
  /\ \A t \in Tasks : handle[t] /\ pc[t] \in Registered => \E i \in Slots : slots[i] = t
  /\ \A i, k \in Slots : slots[i] # Free /\ slots[i] = slots[k] => i = k
  /\ \A i \in Slots :
       slots[i] # Free => handle[slots[i]] /\ pc[slots[i]] \in Registered

\* A handle is given at the end of spawn, and used up by join or detach.
HandleIsHeld ==
  \A t \in Tasks :
    /\ handle[t] => pc[t] \in Registered \cup {"join-wait", "joined", "detached"}
    /\ pc[t] \in {"join-found", "detach-found", "join-wait"} => handle[t]

TableInv ==
  /\ Types /\ MadeAlone /\ LockIsHeld /\ SearchHolds /\ SlotsAreHandles /\ HandleIsHeld

\* The thread is given back by join, by detach, or by spawn when there is no slot.
ReapedWhenGone ==
  \A t \in Tasks :
    /\ pc[t] = "idle" => worker[t] = "none"
    /\ pc[t] \in InSpawn \/ handle[t] => worker[t] # "none"
    /\ reaped[t] = IF /\ worker[t] # "none"
                      /\ pc[t] \in Ended \/ (pc[t] = "held" /\ ~handle[t])
                   THEN 1 ELSE 0

\* As long as there is a handle, or will be, the blocks are not freed before their time.
BlocksAreKept ==
  \A t \in Tasks :
    pc[t] \in InSpawn \/ handle[t] =>
      /\ payload[t] = "live"
      /\ \/ buffer[t] = "live"
         \/ pc[t] = "joined"
         \/ pc[t] = "detached" /\ t \in ByThread
      /\ pc[t] = "joined" => worker[t] = "exited"

SpawnInv == TableInv /\ ReapedWhenGone /\ BlocksAreKept
-----------------------------------------------------------------------------
\* The for loops find a slot that holds x, if there is one.
LEMMA FirstSlotFinds ==
  ASSUME Types, NEW x
  PROVE  /\ FirstSlot(x) \in Slots \cup {NoSlot} /\ NoSlot \notin Slots
         /\ FirstSlot(x) # NoSlot => slots[FirstSlot(x)] = x
         /\ FirstSlot(x) = NoSlot => \A i \in Slots : slots[i] # x
<1> DEFINE A == {i \in Slots : slots[i] = x}
           T == {0 .. i : i \in A}
<1> USE TableSizeAssumption
<1>1. NoSlot \notin Slots  BY DEF NoSlot, Slots
<1>2. CASE A = {}
  <2>1. x \notin {slots[i] : i \in Slots}  BY <1>2
  <2> QED  BY <2>1, <1>1, <1>2 DEF FirstSlot
<1>3. CASE A # {}
  <2>1. IsFiniteSet(Slots)  BY FS_Interval DEF Slots
  <2>2. T \subseteq FiniteSubsetsOf(Slots)
    <3>1. \A i \in A : 0 .. i \subseteq Slots  BY DEF Slots
    <3> QED  BY <3>1, <2>1, FS_Subset DEF FiniteSubsetsOf
  <2>3. T # {}  BY <1>3
  <2>4. IsWellFoundedOn(StrictSubsetOrdering(Slots), FiniteSubsetsOf(Slots))
    BY <2>1, FS_StrictSubsetOrderingWellFounded
  <2>5. PICK X \in T : \A Y \in T : ~(<<Y, X>> \in StrictSubsetOrdering(Slots))
    <3> HIDE DEF T
    <3> QED  BY <2>2, <2>3, <2>4, WFMin
  <2>6. PICK m \in A : X = 0 .. m  OBVIOUS
  <2>7. \A k \in 0 .. m - 1 : slots[k] # x
    <3> SUFFICES ASSUME NEW k \in 0 .. m - 1, slots[k] = x PROVE FALSE  OBVIOUS
    <3>1. m \in Slots /\ k \in Slots /\ k \in A  BY DEF Slots
    <3>2. 0 .. k \in T  BY <3>1
    <3>3. 0 .. k \subseteq 0 .. m /\ m \in 0 .. m /\ m \notin 0 .. k  BY <3>1 DEF Slots
    <3>4. 0 .. k \subseteq Slots /\ 0 .. m \subseteq Slots  BY <3>1 DEF Slots
    <3>5. <<0 .. k, 0 .. m>> \in StrictSubsetOrdering(Slots)
      BY <3>3, <3>4 DEF StrictSubsetOrdering
    <3> QED  BY <3>2, <3>5, <2>5, <2>6
  <2>8. \E i \in Slots : slots[i] = x /\ \A k \in 0 .. i - 1 : slots[k] # x  BY <2>7
  <2>9. FirstSlot(x) = CHOOSE i \in Slots : slots[i] = x /\ \A k \in 0 .. i - 1 : slots[k] # x
    <3>1. x \in {slots[i] : i \in Slots}  BY <1>3
    <3> QED  BY <3>1 DEF FirstSlot
  <2> QED  BY <2>8, <2>9, <1>1
<1> QED  BY <1>2, <1>3
-----------------------------------------------------------------------------
(* spawn *)

\* A task that begins has nothing to do with the table yet.
LEMMA BeginKeeps ==
  ASSUME Solo, SpawnInv, NEW t \in Tasks, Spawn(t) \/ SpawnFails(t)  PROVE SpawnInv'
<1> USE DEF Making, InSpawn, Holding, Registered, Ended
<1>1. Types /\ pc[t] = "idle" /\ worker[t] = "none" /\ ~handle[t] /\ reaped[t] = 0
  BY DEF SpawnInv, TableInv, Types, HandleIsHeld, ReapedWhenGone, Spawn, SpawnFails, MayBegin
<1>2. /\ \A u \in Tasks : u # t => /\ pc'[u] = pc[u] /\ worker'[u] = worker[u]
                                   /\ payload'[u] = payload[u] /\ buffer'[u] = buffer[u]
      /\ \/ pc'[t] = "init" /\ worker'[t] # "none" /\ payload'[t] = "live" /\ buffer'[t] = "live"
         \/ pc'[t] = "held" /\ worker'[t] = "none"
      /\ UNCHANGED <<slots, initialized, lockedBy, found, handle, reaped>>
  BY <1>1 DEF Types, Spawn, SpawnFails, Goes, table
<1>3. Types'  BY <1>1 DEF Types, Spawn, SpawnFails, Goes, table
<1>4. MadeAlone'
  BY <1>1, <1>2 DEF MayBegin, Spawn, SpawnFails, SpawnInv, TableInv, MadeAlone
<1>5. LockIsHeld' /\ SearchHolds'
  BY <1>1, <1>2 DEF SpawnInv, TableInv, LockIsHeld, SearchHolds
<1>6. SlotsAreHandles'
  <2>1. \A i \in Slots : slots[i] # t  BY <1>1, FreeAssumption DEF SpawnInv, TableInv, SlotsAreHandles
  <2> QED  BY <1>1, <1>2, <2>1 DEF Types, SpawnInv, TableInv, SlotsAreHandles
<1>7. HandleIsHeld'  BY <1>1, <1>2 DEF SpawnInv, TableInv, HandleIsHeld
<1>8. ReapedWhenGone'  BY <1>1, <1>2 DEF SpawnInv, ReapedWhenGone
<1>9. BlocksAreKept'  BY <1>1, <1>2 DEF SpawnInv, BlocksAreKept
<1> QED  BY <1>3, <1>4, <1>5, <1>6, <1>7, <1>8, <1>9 DEF SpawnInv, TableInv

\* The table is made by the only task there is.
LEMMA MakeKeeps ==
  ASSUME SpawnInv, NEW t \in Tasks,
         InitTest(t) \/ InitLock(t) \/ InitClear(t) \/ InitFlag(t)
  PROVE  SpawnInv'
<1> USE DEF Making, InSpawn, Holding, Registered, Ended
<1>1. Types /\ pc[t] \in {"init"} \cup Making
  BY DEF SpawnInv, TableInv, InitTest, InitLock, InitClear, InitFlag
<1>2. /\ \A u \in Tasks : u # t => pc'[u] = pc[u]
      /\ pc'[t] \in {"lock"} \cup Making
      /\ UNCHANGED <<found, handle, worker, reaped, payload, buffer>>
  BY <1>1 DEF Types, InitTest, InitLock, InitClear, InitFlag, Goes, blocks
<1>3. slots' = slots /\ lockedBy' = lockedBy
  <2>1. CASE pc[t] = "init"  BY <2>1 DEF InitTest, InitLock, InitClear, InitFlag, table
  <2>2. CASE pc[t] \in Making
    <3>1. /\ \A u \in Tasks : u # t => pc[u] = "idle"
          /\ \A i \in Slots : slots[i] = Free
          /\ \A u \in Tasks : pc[u] \notin Holding
      BY <1>1, <2>2 DEF Types, SpawnInv, TableInv, MadeAlone
    <3>2. lockedBy = Free  BY <3>1 DEF Types, SpawnInv, TableInv, LockIsHeld
    <3>3. slots = [i \in Slots |-> Free]  BY <1>1, <3>1 DEF Types
    <3> QED  BY <2>2, <3>2, <3>3 DEF InitTest, InitLock, InitClear, InitFlag, table
  <2> QED  BY <1>1, <2>1, <2>2
<1>4. Types'
  BY <1>1, <1>3 DEF Types, InitTest, InitLock, InitClear, InitFlag, Goes, blocks, table
<1>5. MadeAlone'
  <2>1. CASE initialized
    <3>1. initialized' /\ pc'[t] = "lock"
      BY <2>1, <1>1 DEF Types, SpawnInv, TableInv, MadeAlone, InitTest, InitLock, InitClear,
                        InitFlag, Goes, table
    <3> QED  BY <2>1, <3>1, <1>2 DEF SpawnInv, TableInv, MadeAlone
  <2>2. CASE ~initialized
    <3>1. \A u \in Tasks : u # t => pc[u] = "idle"
      BY <1>1, <2>2 DEF SpawnInv, TableInv, MadeAlone
    <3>2. \/ initialized' /\ pc'[t] = "lock"
          \/ ~initialized' /\ pc'[t] \in Making
      BY <2>2, <1>1 DEF Types, InitTest, InitLock, InitClear, InitFlag, Goes, table
    <3> QED  BY <2>2, <3>1, <3>2, <1>2, <1>3 DEF SpawnInv, TableInv, MadeAlone
  <2> QED  BY <2>1, <2>2
<1>6. LockIsHeld' /\ SearchHolds' /\ HandleIsHeld'
  BY <1>1, <1>2, <1>3 DEF SpawnInv, TableInv, LockIsHeld, SearchHolds, HandleIsHeld
<1>7. SlotsAreHandles'
  <2>1. \A i \in Slots : slots[i] # t
    BY <1>1, FreeAssumption DEF SpawnInv, TableInv, SlotsAreHandles
  <2>2. ~handle[t]  BY <1>1 DEF SpawnInv, TableInv, HandleIsHeld
  <2> QED  BY <1>1, <1>2, <1>3, <2>1, <2>2 DEF Types, SpawnInv, TableInv, SlotsAreHandles
<1>8. ReapedWhenGone' /\ BlocksAreKept'
  BY <1>1, <1>2 DEF SpawnInv, ReapedWhenGone, BlocksAreKept
<1> QED  BY <1>4, <1>5, <1>6, <1>7, <1>8 DEF SpawnInv, TableInv

\* Under the lock a caller looks for a free slot, or for its handle's.
LEMMA SearchKeeps ==
  ASSUME SpawnInv, NEW t \in Tasks,
         Search(t) \/ Lookup(t, "join-found") \/ Lookup(t, "detach-found")
  PROVE  SpawnInv'
<1> USE DEF Making, InSpawn, Holding, Registered, Ended
<1>1. /\ Types /\ lockedBy = Free /\ lockedBy' = t /\ t # Free
      /\ UNCHANGED <<slots, initialized, handle, worker, reaped, payload, buffer>>
      /\ \A u \in Tasks : u # t => pc'[u] = pc[u] /\ found'[u] = found[u]
      /\ \/ /\ pc[t] = "lock" /\ pc'[t] = "found" /\ found'[t] = FirstSlot(Free)
         \/ /\ pc[t] = "held" /\ handle[t] /\ pc'[t] \in {"join-found", "detach-found"}
            /\ found'[t] = FirstSlot(t)
  BY FreeAssumption DEF SpawnInv, TableInv, Types, Search, Lookup, Goes, blocks
<1>2. /\ FirstSlot(Free) \in Slots \cup {NoSlot} /\ FirstSlot(t) \in Slots \cup {NoSlot}
      /\ FirstSlot(Free) # NoSlot => slots[FirstSlot(Free)] = Free
      /\ FirstSlot(t) # NoSlot => slots[FirstSlot(t)] = t
      /\ FirstSlot(t) = NoSlot => \A i \in Slots : slots[i] # t
  BY <1>1, FirstSlotFinds
<1>3. Types'
  <2>1. pc' \in [Tasks -> {"idle", "join-wait"} \cup InSpawn \cup Registered \cup Ended]
    BY <1>1 DEF Types, Search, Lookup, Goes
  <2>2. found' \in [Tasks -> Slots \cup {NoSlot}]  BY <1>1, <1>2 DEF Types, Search, Lookup
  <2> QED  BY <2>1, <2>2, <1>1 DEF Types
<1>4. initialized  BY <1>1 DEF SpawnInv, TableInv, MadeAlone
<1>5. MadeAlone'  BY <1>1, <1>4 DEF SpawnInv, TableInv, MadeAlone
<1>6. LockIsHeld'
  <2>1. \A u \in Tasks : pc[u] \notin Holding
    BY <1>1, FreeAssumption DEF SpawnInv, TableInv, LockIsHeld
  <2> QED  BY <2>1, <1>1 DEF LockIsHeld
<1>7. SearchHolds'
  <2>1. pc'[t] # "found" => FirstSlot(t) # NoSlot
    BY <1>1, <1>2 DEF SpawnInv, TableInv, SlotsAreHandles
  <2> QED  BY <2>1, <1>1, <1>2 DEF SpawnInv, TableInv, SearchHolds
<1>8. SlotsAreHandles'
  <2>1. \A u \in Tasks : handle[u] => (pc'[u] \in Registered <=> pc[u] \in Registered)
    BY <1>1 DEF SpawnInv, TableInv, HandleIsHeld
  <2>2. \A i \in Slots : slots[i] # Free => slots[i] \in Tasks  BY <1>1 DEF Types
  <2> QED  BY <2>1, <2>2, <1>1 DEF SpawnInv, TableInv, SlotsAreHandles
<1>9. HandleIsHeld'  BY <1>1 DEF SpawnInv, TableInv, HandleIsHeld
<1>10. ReapedWhenGone'  BY <1>1 DEF SpawnInv, ReapedWhenGone
<1>11. BlocksAreKept'  BY <1>1 DEF SpawnInv, BlocksAreKept
<1> QED  BY <1>3, <1>5, <1>6, <1>7, <1>8, <1>9, <1>10, <1>11 DEF SpawnInv, TableInv

\* A handle is registered in the free slot that was found.
LEMMA RegisterKeeps == ASSUME SpawnInv, NEW t \in Tasks, Register(t)  PROVE SpawnInv'
<1> USE DEF Making, InSpawn, Holding, Registered, Ended
<1> DEFINE f == found[t]
<1>1. /\ Types /\ pc[t] = "found" /\ pc'[t] = "held" /\ lockedBy' = Free /\ lockedBy = t
      /\ f \in Slots /\ slots[f] = Free /\ t # Free /\ handle'[t] /\ ~handle[t]
      /\ \A i \in Slots : slots'[i] = IF i = f THEN t ELSE slots[i]
      /\ \A u \in Tasks : u # t => pc'[u] = pc[u] /\ handle'[u] = handle[u]
      /\ UNCHANGED <<initialized, found, worker, reaped, payload, buffer>>
  BY FreeAssumption
     DEF SpawnInv, TableInv, Types, Register, Goes, blocks, SearchHolds, HandleIsHeld, LockIsHeld
<1>2. Types'  BY <1>1 DEF Types, Register, Goes, blocks
<1>3. MadeAlone'  BY <1>1 DEF SpawnInv, TableInv, MadeAlone
<1>4. \A u \in Tasks : u # t => pc[u] \notin Holding  BY <1>1 DEF SpawnInv, TableInv, LockIsHeld
<1>5. LockIsHeld'  BY <1>1, <1>4, FreeAssumption DEF LockIsHeld
<1>6. SearchHolds'  BY <1>1, <1>4 DEF SearchHolds
<1>7. SlotsAreHandles'
  <2>1. \A i \in Slots : slots[i] # t  BY <1>1 DEF SpawnInv, TableInv, SlotsAreHandles
  <2>2. \A u \in Tasks : handle'[u] /\ pc'[u] \in Registered => \E i \in Slots : slots'[i] = u
    <3> SUFFICES ASSUME NEW u \in Tasks, handle'[u], pc'[u] \in Registered
                 PROVE  \E i \in Slots : slots'[i] = u
      OBVIOUS
    <3>1. CASE u = t  BY <3>1, <1>1
    <3>2. CASE u # t
      <4>1. PICK i \in Slots : slots[i] = u
        BY <3>2, <1>1 DEF SpawnInv, TableInv, SlotsAreHandles
      <4>2. i # f  BY <4>1, <1>1, FreeAssumption
      <4> QED  BY <4>1, <4>2, <1>1
    <3> QED  BY <3>1, <3>2
  <2>3. \A i, k \in Slots : slots'[i] # Free /\ slots'[i] = slots'[k] => i = k
    BY <1>1, <2>1 DEF SpawnInv, TableInv, SlotsAreHandles
  <2>4. \A i \in Slots :
          slots'[i] # Free => handle'[slots'[i]] /\ pc'[slots'[i]] \in Registered
    BY <1>1, <2>1 DEF Types, SpawnInv, TableInv, SlotsAreHandles
  <2> QED  BY <2>2, <2>3, <2>4 DEF SlotsAreHandles
<1>8. HandleIsHeld'  BY <1>1 DEF SpawnInv, TableInv, HandleIsHeld
<1>9. ReapedWhenGone' /\ BlocksAreKept'
  BY <1>1 DEF SpawnInv, ReapedWhenGone, BlocksAreKept
<1> QED  BY <1>2, <1>3, <1>5, <1>6, <1>7, <1>8, <1>9 DEF SpawnInv, TableInv

\* With no free slot the thread is given back, and there is no handle.
LEMMA TableFullKeeps == ASSUME SpawnInv, NEW t \in Tasks, TableFull(t)  PROVE SpawnInv'
<1> USE DEF Making, InSpawn, Holding, Registered, Ended
<1>1. /\ Types /\ pc[t] = "found" /\ pc'[t] = "held" /\ lockedBy' = Free /\ lockedBy = t
      /\ ~handle[t] /\ worker[t] # "none" /\ reaped[t] = 0 /\ reaped'[t] = 1
      /\ \A u \in Tasks : u # t => /\ pc'[u] = pc[u] /\ reaped'[u] = reaped[u]
                                   /\ payload'[u] = payload[u] /\ buffer'[u] = buffer[u]
      /\ UNCHANGED <<slots, initialized, found, handle, worker>>
  BY DEF SpawnInv, TableInv, Types, TableFull, Goes, HandleIsHeld, LockIsHeld, ReapedWhenGone
<1>2. Types'  BY <1>1 DEF Types, TableFull, Goes
<1>3. MadeAlone'  BY <1>1 DEF SpawnInv, TableInv, MadeAlone
<1>4. \A u \in Tasks : u # t => pc[u] \notin Holding  BY <1>1 DEF SpawnInv, TableInv, LockIsHeld
<1>5. LockIsHeld'  BY <1>1, <1>4, FreeAssumption DEF LockIsHeld
<1>6. SearchHolds'  BY <1>1, <1>4 DEF SearchHolds
<1>7. SlotsAreHandles'
  <2>1. \A i \in Slots : slots[i] # Free => slots[i] \in Tasks /\ slots[i] # t
    BY <1>1 DEF Types, SpawnInv, TableInv, SlotsAreHandles
  <2> QED  BY <1>1, <2>1 DEF SpawnInv, TableInv, SlotsAreHandles
<1>8. HandleIsHeld'  BY <1>1 DEF SpawnInv, TableInv, HandleIsHeld
<1>9. ReapedWhenGone' /\ BlocksAreKept'
  BY <1>1 DEF SpawnInv, ReapedWhenGone, BlocksAreKept
<1> QED  BY <1>2, <1>3, <1>5, <1>6, <1>7, <1>8, <1>9 DEF SpawnInv, TableInv
-----------------------------------------------------------------------------
(* join and detach *)

\* Without a handle there is nothing in the table, and nothing left to give back.
LEMMA NoThreadKeeps ==
  ASSUME SpawnInv, NEW t \in Tasks, JoinNoThread(t) \/ DetachNoThread(t)  PROVE SpawnInv'
<1> USE DEF Making, InSpawn, Holding, Registered, Ended
<1>1. /\ Types /\ pc[t] = "held" /\ pc'[t] \in Ended /\ ~handle[t]
      /\ \A u \in Tasks : u # t => pc'[u] = pc[u] /\ buffer'[u] = buffer[u]
      /\ UNCHANGED <<slots, initialized, lockedBy, found, handle, worker, reaped, payload>>
  BY DEF SpawnInv, TableInv, Types, JoinNoThread, DetachNoThread, Goes, table, blocks
<1>2. Types'
  BY <1>1 DEF Types, JoinNoThread, DetachNoThread, Goes, blocks
<1>3. MadeAlone' /\ LockIsHeld' /\ SearchHolds' /\ HandleIsHeld'
  BY <1>1 DEF SpawnInv, TableInv, MadeAlone, LockIsHeld, SearchHolds, HandleIsHeld
<1>4. SlotsAreHandles'
  <2>1. \A i \in Slots : slots[i] # Free => slots[i] \in Tasks /\ slots[i] # t
    BY <1>1 DEF Types, SpawnInv, TableInv, SlotsAreHandles
  <2> QED  BY <1>1, <2>1 DEF SpawnInv, TableInv, SlotsAreHandles
<1>5. ReapedWhenGone' /\ BlocksAreKept'
  BY <1>1 DEF SpawnInv, ReapedWhenGone, BlocksAreKept
<1> QED  BY <1>2, <1>3, <1>4, <1>5 DEF SpawnInv, TableInv

\* A handle that is used up gives its slot back; detach also the thread.
LEMMA GiveBackKeeps ==
  ASSUME SpawnInv, NEW t \in Tasks, JoinFound(t) \/ DetachFound(t)  PROVE SpawnInv'
<1> USE DEF Making, InSpawn, Holding, Registered, Ended
<1> DEFINE f == found[t]
<1>1. /\ Types /\ pc[t] \in {"join-found", "detach-found"} /\ handle[t]
      /\ f \in Slots /\ slots[f] = t /\ f # NoSlot /\ t # Free
      /\ lockedBy = t /\ lockedBy' = Free
  BY FirstSlotFinds, FreeAssumption
     DEF SpawnInv, TableInv, SearchHolds, HandleIsHeld, LockIsHeld, JoinFound, DetachFound
<1>2. /\ \A i \in Slots : slots'[i] = IF i = f THEN Free ELSE slots[i]
      /\ \A u \in Tasks : u # t => /\ pc'[u] = pc[u] /\ reaped'[u] = reaped[u]
                                   /\ buffer'[u] = buffer[u]
      /\ UNCHANGED <<initialized, found, handle, worker, payload>>
      /\ \/ pc'[t] = "join-wait" /\ UNCHANGED <<reaped, buffer>>
         \/ /\ pc'[t] = "detached" /\ reaped'[t] = reaped[t] + 1
            /\ t \notin ByThread => buffer'[t] = buffer[t]
  BY <1>1 DEF Types, JoinFound, DetachFound, Goes, blocks
<1>3. Types'
  BY <1>1 DEF Types, JoinFound, DetachFound, Goes, blocks
<1>4. initialized /\ MadeAlone'  BY <1>1, <1>2 DEF SpawnInv, TableInv, MadeAlone
<1>5. \A u \in Tasks : u # t => pc[u] \notin Holding  BY <1>1 DEF SpawnInv, TableInv, LockIsHeld
<1>6. LockIsHeld' /\ SearchHolds'
  BY <1>1, <1>2, <1>5, FreeAssumption DEF LockIsHeld, SearchHolds
<1>7. SlotsAreHandles'
  <2>1. \A i \in Slots : i # f => slots[i] # t
    BY <1>1 DEF SpawnInv, TableInv, SlotsAreHandles
  <2>2. \A u \in Tasks : handle'[u] /\ pc'[u] \in Registered => \E i \in Slots : slots'[i] = u
    <3> SUFFICES ASSUME NEW u \in Tasks, handle'[u], pc'[u] \in Registered
                 PROVE  \E i \in Slots : slots'[i] = u
      OBVIOUS
    <3>1. u # t  BY <1>2
    <3>2. PICK i \in Slots : slots[i] = u
      BY <3>1, <1>2 DEF SpawnInv, TableInv, SlotsAreHandles
    <3> QED  BY <3>1, <3>2, <1>1, <1>2
  <2>3. \A i, k \in Slots : slots'[i] # Free /\ slots'[i] = slots'[k] => i = k
    BY <1>2 DEF SpawnInv, TableInv, SlotsAreHandles
  <2>4. \A i \in Slots :
          slots'[i] # Free => handle'[slots'[i]] /\ pc'[slots'[i]] \in Registered
    BY <1>1, <1>2, <2>1 DEF Types, SpawnInv, TableInv, SlotsAreHandles
  <2> QED  BY <2>2, <2>3, <2>4 DEF SlotsAreHandles
<1>8. HandleIsHeld'  BY <1>1, <1>2 DEF SpawnInv, TableInv, HandleIsHeld
<1>9. worker[t] # "none"
  BY <1>1 DEF SpawnInv, BlocksAreKept, ReapedWhenGone
<1>10. ReapedWhenGone'  BY <1>1, <1>2, <1>9 DEF SpawnInv, ReapedWhenGone
<1>11. BlocksAreKept'  BY <1>1, <1>2 DEF SpawnInv, BlocksAreKept
<1> QED  BY <1>3, <1>4, <1>6, <1>7, <1>8, <1>10, <1>11 DEF SpawnInv, TableInv

\* join ends when the thread has, and frees the buffer.
LEMMA JoinReturnsKeeps == ASSUME SpawnInv, NEW t \in Tasks, JoinReturns(t)  PROVE SpawnInv'
<1> USE DEF Making, InSpawn, Holding, Registered, Ended
<1>1. /\ Types /\ pc[t] = "join-wait" /\ pc'[t] = "joined" /\ handle[t] /\ worker[t] = "exited"
      /\ reaped'[t] = reaped[t] + 1
      /\ \A u \in Tasks : u # t => /\ pc'[u] = pc[u] /\ reaped'[u] = reaped[u]
                                   /\ buffer'[u] = buffer[u]
      /\ UNCHANGED <<slots, initialized, lockedBy, found, handle, worker, payload>>
  BY DEF SpawnInv, TableInv, Types, HandleIsHeld, JoinReturns, Goes, table
<1>2. Types'  BY <1>1 DEF Types, JoinReturns, Goes
<1>3. MadeAlone' /\ LockIsHeld' /\ SearchHolds' /\ HandleIsHeld'
  BY <1>1 DEF SpawnInv, TableInv, MadeAlone, LockIsHeld, SearchHolds, HandleIsHeld
<1>4. SlotsAreHandles'
  <2>1. \A i \in Slots : slots[i] # Free => slots[i] \in Tasks /\ slots[i] # t
    BY <1>1 DEF Types, SpawnInv, TableInv, SlotsAreHandles
  <2> QED  BY <1>1, <2>1 DEF SpawnInv, TableInv, SlotsAreHandles
<1>5. ReapedWhenGone' /\ BlocksAreKept'
  BY <1>1 DEF SpawnInv, ReapedWhenGone, BlocksAreKept
<1> QED  BY <1>2, <1>3, <1>4, <1>5 DEF SpawnInv, TableInv

\* The OS thread touches no variable of the table.
LEMMA WorkerKeeps == ASSUME SpawnInv, NEW t \in Tasks, WorkerStep(t)  PROVE SpawnInv'
<1>1. /\ Types /\ worker[t] \in {"started", "running"} /\ worker'[t] \in {"running", "exited"}
      /\ \A u \in Tasks : u # t => worker'[u] = worker[u]
      /\ UNCHANGED <<table, caller, reaped, blocks>>
  BY DEF SpawnInv, TableInv, Types, WorkerStep, WorkerReads, WorkerWrites
<1>2. Types'
  BY <1>1 DEF Types, WorkerStep, WorkerReads, WorkerWrites, table, caller, blocks
<1>3. TableInv'
  BY <1>1, <1>2 DEF table, caller, SpawnInv, TableInv, MadeAlone, LockIsHeld, SearchHolds,
                    SlotsAreHandles, HandleIsHeld
<1>4. ReapedWhenGone'  BY <1>1 DEF caller, SpawnInv, ReapedWhenGone
<1>5. BlocksAreKept'  BY <1>1 DEF caller, blocks, SpawnInv, BlocksAreKept
<1> QED  BY <1>3, <1>4, <1>5 DEF SpawnInv
-----------------------------------------------------------------------------
\* Before the first spawn.
LEMMA InitEstablishes == Init => SpawnInv
<1> SUFFICES ASSUME Init PROVE SpawnInv  OBVIOUS
<1> USE FreeAssumption DEF Making, InSpawn, Holding, Registered, Ended
<1>1. Types  BY DEF Init, Types
<1>2. TableInv
  BY <1>1 DEF Init, TableInv, MadeAlone, LockIsHeld, SearchHolds, SlotsAreHandles, HandleIsHeld
<1>3. ReapedWhenGone /\ BlocksAreKept  BY DEF Init, ReapedWhenGone, BlocksAreKept
<1> QED  BY <1>2, <1>3 DEF SpawnInv

\* The inductive invariant: the table is made alone, the lock is held by whoever
\* searches, slots and handles are two views of one thing, and threads and blocks are
\* given back when their time has come.
THEOREM SpawnInvariant == ASSUME Solo  PROVE Spec => []SpawnInv
<1>1. SpawnInv /\ [Next]_vars => SpawnInv'
  <2> SUFFICES ASSUME SpawnInv, [Next]_vars PROVE SpawnInv'  OBVIOUS
  <2>1. CASE UNCHANGED vars
    BY <2>1 DEF vars, table, caller, blocks, SpawnInv, TableInv, Types, MadeAlone, LockIsHeld,
                SearchHolds, SlotsAreHandles, HandleIsHeld, ReapedWhenGone, BlocksAreKept
  <2>2. ASSUME NEW t \in Tasks, Spawn(t) \/ SpawnFails(t) \/ CallerStep(t) \/ WorkerStep(t)
        PROVE  SpawnInv'
    BY <2>2, BeginKeeps, MakeKeeps, SearchKeeps, RegisterKeeps, TableFullKeeps, NoThreadKeeps,
       GiveBackKeeps, JoinReturnsKeeps, WorkerKeeps DEF CallerStep
  <2> QED  BY <2>1, <2>2 DEF Next
<1> QED  BY InitEstablishes, <1>1, PTL DEF Spec

\* Handles, slots and threads stay in step: a live handle stands in exactly one slot,
\* a taken slot for a live handle, and each thread is joined or detached exactly once.
THEOREM HandlesStayInStep == ASSUME Solo  PROVE Spec => []HandlesMatchTheirThreads
<1>1. SpawnInv => HandlesMatchTheirThreads
  <2> SUFFICES ASSUME SpawnInv PROVE HandleIsRegistered /\ EachThreadIsReapedOnce
    BY DEF HandlesMatchTheirThreads
  <2>1. ASSUME NEW t \in Tasks, handle[t], pc[t] \in Registered
        PROVE  Cardinality({i \in Slots : slots[i] = t}) = 1
    <3>1. PICK k \in Slots : slots[k] = t  BY <2>1 DEF SpawnInv, TableInv, SlotsAreHandles
    <3>2. t # Free  BY FreeAssumption
    <3>3. {i \in Slots : slots[i] = t} = {k}
      BY <3>1, <3>2 DEF SpawnInv, TableInv, SlotsAreHandles
    <3> QED  BY <3>3, FS_Singleton
  <2>2. \A i \in Slots : slots[i] # Free => pc[slots[i]] \in Registered
    BY DEF SpawnInv, TableInv, SlotsAreHandles
  <2>3. HandleIsRegistered  BY <2>1, <2>2 DEF HandleIsRegistered, Registered
  <2>4. EachThreadIsReapedOnce
    BY DEF SpawnInv, ReapedWhenGone, EachThreadIsReapedOnce, Ended
  <2> QED  BY <2>3, <2>4
<1> QED  BY <1>1, SpawnInvariant, PTL

\* What a thread needs is there as long as its handle is, and join returns after it.
THEOREM HandlesKeepTheirPromise == ASSUME Solo  PROVE Spec => []HandleKeepsItsPromise
<1>1. SpawnInv => HandleKeepsItsPromise
  BY DEF SpawnInv, TableInv, Types, HandleIsHeld, BlocksAreKept, HandleKeepsItsPromise,
         BlocksOutlive, JoinWaits, Threads, InSpawn, Making, Registered, Ended
<1> QED  BY <1>1, SpawnInvariant, PTL
=============================================================================
