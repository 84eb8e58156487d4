----------------------------- MODULE GuardHeap -----------------------------
(***************************************************************************)
(* The guard heap of one thread: the arena that allocations inside unsafe  *)
(* blocks come from, and that is discarded as a whole when the outermost   *)
(* block ends.  Memory is counted in units of 16 bytes, one of which is the*)
(* header of a block; an address is a slab and the unit of its header.     *)
(*                                                                         *)
(* The program side is what the compiler emits around and inside a block.  *)
(***************************************************************************)
EXTENDS Integers, Sequences, SequencesExt

CONSTANTS
  SlabUnits,    \* units of an ordinary slab (4096)
  LargeUnits,   \* blocks of this many units and more share one list (64)
  Sizes,        \* payload units the program asks for
  MaxSlabs,     \* slabs the system grants
  MaxAllocs,    \* bound on the allocations of a behaviour
  MaxNesting    \* bound on the nesting of blocks

ASSUME HeapAssumption ==
  /\ {SlabUnits, LargeUnits, MaxSlabs, MaxAllocs, MaxNesting} \subseteq Nat \ {0}
  /\ Sizes \subseteq Nat \ {0}

VARIABLES
  arena,   \* XiomGuardArena
  live,    \* the arena blocks the program holds
  freed,   \* headers of blocks it has freed and may free again
  vector,  \* where the buffer of a vector made outside the blocks is
  depth,   \* unsafe blocks running
  allocs,  \* history: allocations made
  spoiled  \* history: a fault discarded the arena under that buffer

heapVars == <<arena, live, freed, vector, depth, allocs, spoiled>>

Unit(kind, v)  == [kind |-> kind, v |-> v]
Empty          == Unit("zero", 0)
Header(size)   == Unit("header", size)   \* the magic number is there
Retired(size)  == Unit("retired", size)
Data(tag)      == Unit("data", tag)

NoArena == [slabs |-> <<>>, cur |-> 0, off |-> 0, active |-> 0,
            lists |-> [b \in 1 .. LargeUnits |-> <<>>]]
NoBlock == <<0, 0>>

OnMainHeap == [where |-> "main", at |-> NoBlock, filled |-> TRUE]

UnitAt(a, p) == a.slabs[p[1]][p[2]]

\* Write `value` to n units from unit u of a slab.
Fill(a, s, u, n, value) ==
  [a EXCEPT !.slabs[s] = [k \in DOMAIN @ |-> IF k \in u .. u + n - 1 THEN value ELSE @[k]]]

\* Faulty variant, in no action: the payload is zeroed with the block's length.
FaultyFormatted(a, p, total) ==
  Fill(Fill(a, p[1], p[2], 1, Header(total)), p[1], p[2] + 1, total, Empty)

\* Make a block of `total` units at p: header, zeroed payload.
Formatted(a, p, total) ==
  Fill(Fill(a, p[1], p[2], 1, Header(total)), p[1], p[2] + 1, total - 1, Empty)
-----------------------------------------------------------------------------
(* xiom_guard_alloc and xiom_guard_free *)

Bucket(total) == IF total < LargeUnits THEN total ELSE LargeUnits

\* Where in its list a freed block of exactly this size is, 0 if nowhere.
Recyclable(a, total) ==
  SelectInSeq(a.lists[Bucket(total)],
              LAMBDA p : Bucket(total) < LargeUnits \/ UnitAt(a, p).v = total)

TakeFree(a, total) ==
  LET k == Recyclable(a, total)
      p == a.lists[Bucket(total)][k]
  IN [heap |-> Formatted([a EXCEPT !.lists[Bucket(total)] = RemoveAt(@, k)], p, total), at |-> p]

\* A new slab is the current one, or the system has none.
MoreSlab(a, units) ==
  IF Len(a.slabs) >= MaxSlabs THEN a
  ELSE [a EXCEPT !.slabs = Append(@, [k \in 1 .. units |-> Empty]),
                 !.cur = Len(a.slabs) + 1, !.off = 0]

EnsureSlab(a) == IF a.cur > 0 /\ a.off < SlabUnits THEN a ELSE MoreSlab(a, SlabUnits)

\* Behind the last block of the current slab.
Bump(a, total) ==
  [heap |-> [Formatted(a, <<a.cur, a.off + 1>>, total) EXCEPT !.off = @ + total],
   at |-> <<a.cur, a.off + 1>>]

\* A block larger than a slab has one of its own, and the next starts another.
FromSlab(a, total) ==
  LET larger == MoreSlab(a, IF total > SlabUnits THEN total ELSE SlabUnits)
  IN IF a.cur > 0 /\ a.off + total <= SlabUnits THEN Bump(a, total)
     ELSE IF larger = a THEN [heap |-> a, at |-> NoBlock]
     ELSE IF total > SlabUnits
       THEN [heap |-> [Formatted(larger, <<larger.cur, 1>>, total) EXCEPT !.off = SlabUnits],
             at |-> <<larger.cur, 1>>]
     ELSE Bump(larger, total)

Allocate(a, size) ==
  IF Recyclable(a, size + 1) > 0 THEN TakeFree(a, size + 1)
  ELSE FromSlab(EnsureSlab(a), size + 1)

\* Only a header with the magic number is a block's: a second free does nothing.
Release(a, p) ==
  LET total == UnitAt(a, p).v
  IN IF UnitAt(a, p).kind # "header" THEN a
     ELSE [Fill(a, p[1], p[2], 1, Retired(total)) EXCEPT
            !.lists[Bucket(total)] = <<p>> \o @]

HeapEnter(a) == [a EXCEPT !.active = @ + 1]

\* The last block to leave discards every slab and every list.
HeapExit(a) == IF a.active > 1 THEN [a EXCEPT !.active = @ - 1] ELSE NoArena

\* xiom_guard_arena_contains
ArenaContains(a, p) == p[1] \in DOMAIN a.slabs /\ p[2] \in DOMAIN a.slabs[p[1]]
-----------------------------------------------------------------------------
(* What a block does. *)

HeapInit ==
  /\ arena = NoArena /\ live = {} /\ freed = {} /\ depth = 0 /\ allocs = 0
  /\ vector \in {[where |-> "none", at |-> NoBlock, filled |-> FALSE], OnMainHeap}
  /\ spoiled = FALSE

EnterBlock ==
  /\ ~spoiled /\ depth < MaxNesting
  /\ arena' = HeapEnter(arena) /\ depth' = depth + 1
  /\ UNCHANGED <<live, freed, vector, allocs, spoiled>>

\* The program fills what it gets with a tag of its own.
Written(a, p, total, tag) == Fill(a, p[1], p[2] + 1, total - 1, Data(tag))

Hold(p, size) == [at |-> p, size |-> size, tag |-> allocs + 1, depth |-> depth]

Alloc(size) ==
  /\ ~spoiled /\ depth > 0 /\ allocs < MaxAllocs
  /\ LET r == Allocate(arena, size)
     IN IF r.at = NoBlock THEN arena' = r.heap /\ UNCHANGED <<live, freed>>
        ELSE /\ arena' = Written(r.heap, r.at, size + 1, allocs + 1)
             /\ live' = live \cup {Hold(r.at, size)}
             /\ freed' = freed \ {r.at}
  /\ allocs' = allocs + 1
  /\ UNCHANGED <<vector, depth, spoiled>>

Free(b) ==
  /\ ~spoiled /\ depth > 0
  /\ arena' = Release(arena, b.at) /\ live' = live \ {b} /\ freed' = freed \cup {b.at}
  /\ UNCHANGED <<vector, depth, allocs, spoiled>>

FreeAgain(p) ==
  /\ ~spoiled /\ depth > 0
  /\ arena' = Release(arena, p)
  /\ UNCHANGED <<live, freed, vector, depth, allocs, spoiled>>

\* xiom_guard_realloc of a block of the arena: a copy; the old one is forgotten.
Realloc(b, size) ==
  /\ ~spoiled /\ depth > 0 /\ allocs < MaxAllocs
  /\ LET r == Allocate(arena, size)
     IN IF r.at = NoBlock THEN arena' = r.heap /\ UNCHANGED <<live, freed>>
        ELSE /\ arena' = Written(r.heap, r.at, size + 1, allocs + 1)
             /\ live' = (live \ {b}) \cup {Hold(r.at, size)}
             /\ freed' = freed \ {r.at}
  /\ allocs' = allocs + 1
  /\ UNCHANGED <<vector, depth, spoiled>>

\* Main-heap data stays there: "the data outlives the block".
StaysOutside(a, b) == b.where = "main" /\ ~ArenaContains(a, b.at)

\* xiom_guard_realloc of the outer vector's buffer, grown to `size`.
GrowBuffer(size) ==
  /\ ~spoiled /\ depth > 0 /\ allocs < MaxAllocs
  /\ LET r == Allocate(arena, size)
     IN IF StaysOutside(arena, vector) THEN UNCHANGED <<arena, vector, freed>>
        ELSE /\ arena' = r.heap
             /\ freed' = freed \ {r.at}
             /\ vector' = IF r.at = NoBlock THEN vector
                          ELSE [vector EXCEPT !.where = "arena", !.at = r.at]
  /\ allocs' = allocs + 1
  /\ UNCHANGED <<live, depth, spoiled>>

\* What the blocks that are left still hold, once the arena is `a`.
Survivors(a) == {b \in live : a.slabs # <<>> /\ b.depth < depth}

Leave(a) ==
  /\ arena' = a /\ live' = Survivors(a)
  /\ freed' = IF a.slabs = <<>> THEN {} ELSE freed

\* The end of a block: xiom_guard_copy_out_if_arena moves the buffer out.
ExitBlock ==
  /\ ~spoiled /\ depth > 0
  /\ vector' = IF vector.where = "arena" /\ ArenaContains(arena, vector.at)
               THEN OnMainHeap ELSE vector
  /\ Leave(HeapExit(arena))
  /\ depth' = depth - 1
  /\ UNCHANGED <<allocs, spoiled>>

\* A fault ends the run of the block: the trampoline leaves the heap when it is
\* going to run the block again, which enters it anew; else its call site does.
FaultInBlock(again) ==
  /\ ~spoiled /\ depth > 0
  /\ Leave(IF again THEN HeapEnter(HeapExit(arena)) ELSE HeapExit(arena))
  /\ depth' = IF again THEN depth ELSE depth - 1
  /\ spoiled' = (vector.where = "arena" /\ ~ArenaContains(HeapExit(arena), vector.at))
  /\ UNCHANGED <<vector, allocs>>

HeapNext ==
  \/ EnterBlock \/ ExitBlock
  \/ \E size \in Sizes : Alloc(size) \/ GrowBuffer(size)
  \/ \E b \in live : Free(b) \/ \E size \in Sizes : Realloc(b, size)
  \/ \E p \in freed : FreeAgain(p)
  \/ \E again \in BOOLEAN : FaultInBlock(again)
-----------------------------------------------------------------------------
(* Properties *)

\* A block the program holds is whole: its header has its size and its payload
\* what the program wrote, whatever was allocated, freed, freed twice, recycled
\* or re-allocated around it; and no free list gives it to somebody else.
HeldBlocksAreIntact ==
  \A b \in live :
    /\ ArenaContains(arena, b.at) /\ UnitAt(arena, b.at) = Header(b.size + 1)
    /\ \A k \in 1 .. b.size : UnitAt(arena, <<b.at[1], b.at[2] + k>>) = Data(b.tag)
    /\ \A n \in DOMAIN arena.lists : \A k \in DOMAIN arena.lists[n] : arena.lists[n][k] # b.at

\* "The ENTIRE arena is discarded" with the outermost block and not before: the
\* nesting count is that of the running blocks after every exit, fault and
\* retry, and without one no slab is left.
ArenaEndsWithItsBlocks ==
  /\ arena.active = depth
  /\ depth = 0 => arena = NoArena

\* The vector made outside the blocks never points into a discarded arena: it
\* stays on the main heap, or is moved there before the block ends.  A vector that
\* was empty is the exception: when a fault follows its first growth, its buffer
\* goes with the arena.
OuterDataSurvives ==
  vector.where = "arena" /\ vector.filled => ArenaContains(arena, vector.at)
=============================================================================
