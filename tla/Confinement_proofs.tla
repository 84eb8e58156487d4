------------------------- MODULE Confinement_proofs -------------------------
(***************************************************************************)
(* Fault containment for every number of threads and every depth of nested *)
(* blocks: where a fault jumps to, what is run again, what a call site     *)
(* reads after its block and what the exit status says.                    *)
(***************************************************************************)
EXTENDS Confinement, SequenceTheorems, TLAPS

\* A confined block on a thread's stack.
Survivals == {<<>>, <<"touch">>}
Blocks == [saved : BOOLEAN, survived : Survivals, nested : BOOLEAN, returning : BOOLEAN]

Stacks == stack \in [Threads -> Seq(Blocks)]

\* While the trampoline is active it is of the running block, which has not been
\* repeated unless the flag says so.
JumpIsOfTheTop(t) ==
  active[t] => /\ Inside(t) /\ jump[t] = Len(stack[t])
               /\ ~retried[t] => Top(t).survived = <<>>

\* It is cleared under a running block only by a nested one that came back.
ClearedByNested(t) == Inside(t) => active[t] \/ Top(t).nested

\* The flag of `return` is the running block's, and each block has saved the flag
\* of the one it is nested in.
FlagsAreSaved(t) ==
  /\ Inside(t) => returned[t] = Top(t).returning
  /\ \A k \in 1 .. Len(stack[t]) : k # 1 => stack[t][k].saved = stack[t][k - 1].returning

\* A fault that was reported and not taken is in the record.
OwedIsNoted(t) == owed[t] => record[t] = Noted

ThreadInv(t) ==
  /\ JumpIsOfTheTop(t) /\ ClearedByNested(t) /\ FlagsAreSaved(t) /\ OwedIsNoted(t)
  /\ thisReturned[t] = ended[t]

\* The types of all but the stacks.
Flags ==
  /\ handler \in {"default", "trampoline", "trap"}
  /\ status \in {"running", "crashed", "undefined", "exit0", "exit70"}
  /\ culprit \in Threads \cup {NoThread}
  /\ active \in [Threads -> BOOLEAN] /\ jump \in [Threads -> 0 .. MaxDepth]
  /\ returned \in [Threads -> BOOLEAN] /\ thisReturned \in [Threads -> BOOLEAN]
  /\ retried \in [Threads -> BOOLEAN] /\ trapping \in [Threads -> BOOLEAN]
  /\ installed \in [Threads -> SUBSET {"trampoline", "trap"}]
  /\ page \in [Threads -> {"unmapped", "none", "rw"}] /\ armed \in [Threads -> BOOLEAN]
  /\ record \in [Threads -> [active : BOOLEAN, taken : BOOLEAN, registered : BOOLEAN]]
  /\ ended \in [Threads -> BOOLEAN] /\ owed \in [Threads -> BOOLEAN]

ConfinementInv ==
  /\ Flags /\ Stacks /\ \A t \in Threads : ThreadInv(t)
  /\ FaultsAreContained /\ MainFaultsAreReported
-----------------------------------------------------------------------------
\* A sequence that is not empty: its last element, and what is below.
LEMMA LastAndFront ==
  ASSUME NEW S, NEW s \in Seq(S), s # <<>>
  PROVE  /\ Len(s) \in Nat \ {0} /\ Last(s) = s[Len(s)] /\ Last(s) \in S
         /\ Front(s) \in Seq(S) /\ Len(Front(s)) = Len(s) - 1
         /\ \A k \in 1 .. Len(s) - 1 : Front(s)[k] = s[k]
<1>1. PICK n \in Nat : n = Len(s)  BY LenProperties
<1>2. n # 0  BY <1>1, EmptySeq
<1>3. n \in 1 .. n /\ \A k \in 1 .. n : s[k] \in S  BY <1>1, <1>2, ElementOfSeq
<1>4. PICK f : f = SubSeq(s, 1, n - 1)  OBVIOUS
<1>5. f = Front(s)  BY <1>1, <1>4 DEF Front
<1>6. /\ f \in Seq(S) /\ Len(f) = IF 1 <= n - 1 THEN (n - 1) - 1 + 1 ELSE 0
      /\ \A i \in 1 .. (n - 1) - 1 + 1 : f[i] = s[1 + i - 1]
  <2>1. 1 \in Int /\ n - 1 \in Int /\ \A i \in 1 .. n - 1 : s[i] \in S  BY <1>3
  <2> QED  BY <1>4, <2>1, SubSeqProperties
<1>7. Len(f) = n - 1  BY <1>2, <1>6
<1>8. ASSUME NEW k \in 1 .. n - 1 PROVE f[k] = s[k]
  <2>1. k \in 1 .. (n - 1) - 1 + 1 /\ 1 + k - 1 = k  OBVIOUS
  <2>2. f[k] = s[1 + k - 1]  BY <1>6, <2>1
  <2> QED  BY <2>1, <2>2
<1>9. Last(s) = s[n]  BY <1>1 DEF Last
<1> QED  BY <1>1, <1>2, <1>3, <1>5, <1>6, <1>7, <1>8, <1>9

WithTop(s, e) == Front(s) \o <<e>>

\* The sequence u is s but for e in the place of its last element.
TopIs(s, e, u) ==
  /\ Len(u) = Len(s) /\ u # <<>> /\ Last(u) = e /\ u[Len(s)] = e
  /\ \A k \in 1 .. Len(s) - 1 : u[k] = s[k]

\* The last element is replaced, and nothing else.
LEMMA NewTop ==
  ASSUME NEW s \in Seq(Blocks), s # <<>>, NEW e \in Blocks
  PROVE  \E u \in Seq(Blocks) : u = WithTop(s, e) /\ TopIs(s, e, u)
<1>1. PICK n \in Nat, f \in Seq(Blocks) :
        n = Len(s) /\ n # 0 /\ f = Front(s) /\ Len(f) = n - 1 /\ \A k \in 1 .. n - 1 : f[k] = s[k]
  BY LastAndFront
<1>2. PICK g : g \in Seq(Blocks) /\ g = <<e>> /\ Len(g) = 1 /\ g[1] = e
  <2>1. PICK g : g = <<e>>  OBVIOUS
  <2>2. g \in Seq(Blocks) /\ Len(g) = 1 /\ g[1] = e  BY <2>1
  <2> QED  BY <2>1, <2>2
<1>3. PICK u : u = f \o g  OBVIOUS
<1>4. u = WithTop(s, e)  BY <1>1, <1>2, <1>3 DEF WithTop
<1>5. /\ u \in Seq(Blocks) /\ Len(u) = (n - 1) + 1
      /\ \A i \in 1 .. (n - 1) + 1 : u[i] = IF i <= n - 1 THEN f[i] ELSE g[i - (n - 1)]
  BY <1>1, <1>2, <1>3, ConcatProperties
<1>6. Len(u) = n /\ u[n] = e /\ \A k \in 1 .. n - 1 : u[k] = f[k]
  <2>1. Len(u) = n  BY <1>1, <1>5
  <2>2. n \in 1 .. (n - 1) + 1 /\ ~(n <= n - 1) /\ n - (n - 1) = 1  BY <1>1
  <2>3. u[n] = e  BY <1>2, <1>5, <2>2
  <2>4. \A k \in 1 .. n - 1 : k \in 1 .. (n - 1) + 1 /\ k <= n - 1  OBVIOUS
  <2> QED  BY <1>5, <2>1, <2>3, <2>4
<1>7. u # <<>> /\ Last(u) = e  BY <1>1, <1>5, <1>6, EmptySeq DEF Last
<1> QED  BY <1>1, <1>4, <1>5, <1>6, <1>7 DEF TopIs

\* A trampoline call that comes back marks the block below, and nothing else.
LEMMA UnwoundBlocks ==
  ASSUME NEW s \in Seq(Blocks)
  PROVE  \E u \in Seq(Blocks) :
           /\ u = Unwound(s) /\ Len(u) = Len(s) /\ (u = <<>> <=> s = <<>>)
           /\ \A k \in 1 .. Len(s) :
                u[k].saved = s[k].saved /\ u[k].returning = s[k].returning
           /\ s # <<>> => Last(u).nested /\ Last(u) = u[Len(s)]
<1>1. CASE s = <<>>
  <2>1. Len(s) = 0  BY <1>1
  <2> QED  BY <1>1, <2>1 DEF Unwound
<1>2. CASE s # <<>>
  <2>1. Len(s) \in Nat \ {0} /\ Last(s) = s[Len(s)] /\ Last(s) \in Blocks
    BY <1>2, LastAndFront
  <2>2. PICK e : e = [Last(s) EXCEPT !.nested = TRUE]  OBVIOUS
  <2>3. e \in Blocks /\ e.nested = TRUE /\ e.saved = Last(s).saved /\ e.returning = Last(s).returning
    BY <2>1, <2>2 DEF Blocks
  <2>4. PICK u \in Seq(Blocks) : u = WithTop(s, e) /\ TopIs(s, e, u)  BY <1>2, <2>3, NewTop
  <2>5. /\ Len(u) = Len(s) /\ u # <<>> /\ Last(u) = e /\ u[Len(s)] = e
        /\ \A k \in 1 .. Len(s) - 1 : u[k] = s[k]
    BY <2>4 DEF TopIs
  <2>6. u = Unwound(s)  BY <1>2, <2>2, <2>4 DEF Unwound, WithTop
  <2>7. ASSUME NEW k \in 1 .. Len(s)
        PROVE  u[k].saved = s[k].saved /\ u[k].returning = s[k].returning
    <3>1. CASE k = Len(s)  BY <2>1, <2>3, <2>5, <3>1
    <3>2. CASE k # Len(s)
      <4>1. k \in 1 .. Len(s) - 1  BY <2>1, <3>2
      <4> QED  BY <2>5, <4>1
    <3> QED  BY <3>1, <3>2
  <2> QED  BY <1>2, <2>3, <2>5, <2>6, <2>7
<1> QED  BY <1>1, <1>2

\* The blocks of a thread, and the running one.
LEMMA BlocksOf ==
  ASSUME Stacks, NEW t \in Threads
  PROVE  /\ stack[t] \in Seq(Blocks) /\ Len(stack[t]) \in Nat
         /\ DOMAIN stack[t] = 1 .. Len(stack[t])
         /\ \A k \in 1 .. Len(stack[t]) : stack[t][k] \in Blocks
         /\ Inside(t) => /\ Len(stack[t]) # 0 /\ Top(t) = stack[t][Len(stack[t])]
                         /\ Top(t) \in Blocks
<1>1. stack[t] \in Seq(Blocks)  BY DEF Stacks
<1>2. /\ Len(stack[t]) \in Nat /\ DOMAIN stack[t] = 1 .. Len(stack[t])
      /\ \A k \in 1 .. Len(stack[t]) : stack[t][k] \in Blocks
  BY <1>1, LenProperties, ElementOfSeq
<1>3. Inside(t) => /\ Len(stack[t]) # 0 /\ Top(t) = stack[t][Len(stack[t])] /\ Top(t) \in Blocks
  BY <1>1, LastAndFront DEF Inside, Top
<1> QED  BY <1>1, <1>2, <1>3-----------------------------------------------------------------------------
\* What belongs to thread u is as it was.
Untouched(u) ==
  /\ active'[u] = active[u] /\ jump'[u] = jump[u] /\ retried'[u] = retried[u]
  /\ returned'[u] = returned[u] /\ thisReturned'[u] = thisReturned[u] /\ ended'[u] = ended[u]
  /\ owed'[u] = owed[u] /\ record'[u] = record[u]

\* A step of thread t, which leaves the others alone and the process running.
LEMMA StepOfThread ==
  ASSUME ConfinementInv, Running, UNCHANGED status, NEW t \in Threads, NEW s \in Seq(Blocks),
         stack' = [stack EXCEPT ![t] = s], Flags', ThreadInv(t)',
         \A u \in Threads : u # t => Untouched(u)
  PROVE  ConfinementInv'
<1>1. Stacks' /\ \A u \in Threads : u # t => stack'[u] = stack[u]
  BY DEF ConfinementInv, Stacks
<1>2. ASSUME NEW u \in Threads, u # t PROVE ThreadInv(u)'
  <2>1. ThreadInv(u) /\ Untouched(u) /\ stack'[u] = stack[u]  BY <1>1, <1>2 DEF ConfinementInv
  <2> QED
    BY <2>1 DEF Untouched, ThreadInv, JumpIsOfTheTop, ClearedByNested, FlagsAreSaved, OwedIsNoted,
                Inside, Top, Noted
<1>3. status' = "running"  BY DEF Running
<1>4. FaultsAreContained' /\ MainFaultsAreReported'
  BY <1>3 DEF FaultsAreContained, MainFaultsAreReported
<1> QED  BY <1>1, <1>2, <1>4 DEF ConfinementInv

\* A block begins.
LEMMA EnterKeeps == ASSUME ConfinementInv, NEW t \in Threads, Enter(t) PROVE ConfinementInv'
<1> USE DEF ConfinementInv
<1>1. PICK n \in Nat : n = Len(stack[t])  BY BlocksOf
<1>2. PICK b : b = [saved |-> returned[t], survived |-> <<>>, nested |-> FALSE, returning |-> FALSE]
  OBVIOUS
<1>3. b \in Blocks /\ b.saved = returned[t] /\ b.survived = <<>> /\ b.returning = FALSE
  BY <1>2 DEF Blocks, Survivals, Flags
<1>4. PICK s : s = Append(stack[t], b)  OBVIOUS
<1>5. /\ s \in Seq(Blocks) /\ Len(s) = n + 1 /\ s[n + 1] = b /\ s # <<>> /\ Last(s) = b
      /\ \A k \in 1 .. n : s[k] = stack[t][k]
  <2>1. /\ s \in Seq(Blocks) /\ Len(s) = n + 1 /\ s[n + 1] = b
        /\ \A k \in 1 .. n : s[k] = stack[t][k]
    <3>1. stack[t] \in Seq(Blocks)  BY BlocksOf
    <3> QED  BY <1>1, <1>3, <1>4, <3>1, AppendProperties
  <2>2. s # <<>>  BY <1>1, <2>1, EmptySeq
  <2> QED  BY <2>1, <2>2 DEF Last
<1>6. /\ Running /\ n < MaxDepth /\ (Inside(t) => ~Top(t).returning) /\ Install(t, "trampoline")
      /\ stack' = [stack EXCEPT ![t] = s]
      /\ active' = [active EXCEPT ![t] = TRUE] /\ jump' = [jump EXCEPT ![t] = n + 1]
      /\ returned' = [returned EXCEPT ![t] = FALSE] /\ retried' = [retried EXCEPT ![t] = FALSE]
      /\ Arm(t) /\ UNCHANGED <<status, culprit, thisReturned, trapping, record, history>>
  BY <1>1, <1>2, <1>4 DEF Enter
<1>7. jump' \in [Threads -> 0 .. MaxDepth]  BY <1>1, <1>6, DepthAssumption DEF Flags
<1>8. handler' \in {"default", "trampoline", "trap"}
      /\ installed' \in [Threads -> SUBSET {"trampoline", "trap"}]
  BY <1>6 DEF Flags, Install
<1>9. page' \in [Threads -> {"unmapped", "none", "rw"}] /\ armed' \in [Threads -> BOOLEAN]
  BY <1>6 DEF Flags, Arm
<1>10. Flags'  BY <1>6, <1>7, <1>8, <1>9 DEF Flags, history
<1>11. \A u \in Threads : u # t => Untouched(u)  BY <1>6 DEF Flags, Untouched, history
<1>12. ThreadInv(t)'
  <2>1. stack'[t] = s  BY <1>6 DEF Stacks
  <2>2. active'[t] = TRUE /\ jump'[t] = n + 1 /\ returned'[t] = FALSE /\ retried'[t] = FALSE
    BY <1>6 DEF Flags
  <2>3. JumpIsOfTheTop(t)' /\ ClearedByNested(t)'
    BY <1>3, <1>5, <2>1, <2>2 DEF JumpIsOfTheTop, ClearedByNested, Inside, Top
  <2>4. FlagsAreSaved(t)'
    <3>1. ASSUME NEW k \in 1 .. n + 1, k # 1 PROVE s[k].saved = s[k - 1].returning
      <4>1. CASE k \in 1 .. n
        <5>1. k - 1 \in 1 .. n  BY <3>1, <4>1
        <5> QED  BY <1>1, <1>5, <3>1, <4>1, <5>1 DEF ThreadInv, FlagsAreSaved
      <4>2. CASE k = n + 1
        <5>1. n \in 1 .. n /\ k - 1 = n  BY <3>1, <4>2
        <5>2. Inside(t) /\ Top(t) = stack[t][n]
          <6>1. stack[t] # <<>>  BY <1>1, <5>1
          <6> QED  BY <1>1, <6>1, BlocksOf DEF Inside
        <5>3. returned[t] = Top(t).returning  BY <5>2 DEF ThreadInv, FlagsAreSaved
        <5> QED  BY <1>3, <1>5, <4>2, <5>1, <5>2, <5>3
      <4> QED  BY <4>1, <4>2
    <3> QED  BY <1>3, <1>5, <2>1, <2>2, <3>1 DEF FlagsAreSaved, Inside, Top
  <2>5. OwedIsNoted(t)' /\ (thisReturned[t] = ended[t])'
    BY <1>6 DEF ThreadInv, OwedIsNoted, history, Noted
  <2> QED  BY <2>3, <2>4, <2>5 DEF ThreadInv
<1> QED  BY <1>5, <1>6, <1>10, <1>11, <1>12, StepOfThread
\* A block is about to return.
LEMMA SetReturnedKeeps ==
  ASSUME ConfinementInv, NEW t \in Threads, SetReturned(t) PROVE ConfinementInv'
<1> USE DEF ConfinementInv
<1>1. PICK n \in Nat : n = Len(stack[t])  BY BlocksOf
<1>2. /\ Running /\ Inside(t) /\ returned' = [returned EXCEPT ![t] = TRUE]
      /\ UNCHANGED <<process, active, jump, thisReturned, retried, installed, trapping,
                     guard, record, history>>
  BY DEF SetReturned
<1>3. n # 0 /\ Top(t) = stack[t][n] /\ Top(t) \in Blocks /\ stack[t] \in Seq(Blocks)
      /\ Last(stack[t]) = Top(t)
  BY <1>1, <1>2, BlocksOf DEF Top
<1>4. PICK b : b = [Top(t) EXCEPT !.returning = TRUE]  OBVIOUS
<1>5. /\ b \in Blocks /\ b.returning = TRUE /\ b.saved = Top(t).saved
      /\ b.survived = Top(t).survived /\ b.nested = Top(t).nested
  BY <1>3, <1>4 DEF Blocks
<1>6. PICK s \in Seq(Blocks) : s = WithTop(stack[t], b) /\ TopIs(stack[t], b, s)
  BY <1>2, <1>3, <1>5, NewTop DEF Inside
<1>7. stack' = [stack EXCEPT ![t] = s]  BY <1>4, <1>6 DEF SetReturned, WithTop, Top
<1>8. Flags'  BY <1>2 DEF Flags, process, guard, history
<1>9. \A u \in Threads : u # t => Untouched(u)  BY <1>2 DEF Flags, Untouched, history
<1>10. ThreadInv(t)'
  <2>1. stack'[t] = s /\ returned'[t] = TRUE  BY <1>2, <1>7 DEF Stacks, Flags
  <2>2. JumpIsOfTheTop(t)' /\ ClearedByNested(t)'
    BY <1>1, <1>2, <1>5, <1>6, <2>1
       DEF ThreadInv, JumpIsOfTheTop, ClearedByNested, Inside, Top, TopIs
  <2>3. ASSUME NEW k \in 1 .. n, k # 1 PROVE s[k].saved = s[k - 1].returning
    <3>1. stack[t][k].saved = stack[t][k - 1].returning
      BY <1>1, <2>3 DEF ThreadInv, FlagsAreSaved
    <3>2. k - 1 \in 1 .. n - 1  BY <2>3
    <3>3. s[k].saved = stack[t][k].saved
      <4>1. CASE k = n  BY <1>1, <1>3, <1>5, <1>6, <4>1 DEF TopIs
      <4>2. CASE k # n
        <5>1. k \in 1 .. n - 1  BY <4>2
        <5> QED  BY <1>1, <1>6, <5>1 DEF TopIs
      <4> QED  BY <4>1, <4>2
    <3> QED  BY <1>1, <1>6, <3>1, <3>2, <3>3 DEF TopIs
  <2>4. FlagsAreSaved(t)'
    BY <1>1, <1>5, <1>6, <2>1, <2>3 DEF FlagsAreSaved, Inside, Top, TopIs
  <2>5. OwedIsNoted(t)' /\ (thisReturned[t] = ended[t])'
    BY <1>2 DEF ThreadInv, OwedIsNoted, history, Noted
  <2> QED  BY <2>2, <2>4, <2>5 DEF ThreadInv
<1>11. UNCHANGED status  BY <1>2 DEF process
<1> QED  BY <1>2, <1>6, <1>7, <1>8, <1>9, <1>10, <1>11, StepOfThread

\* What is left below a block that is over.
LEMMA BlockIsOver ==
  ASSUME ConfinementInv, NEW t \in Threads, Inside(t)
  PROVE  \E s \in Seq(Blocks) :
           /\ s = Unwound(Front(stack[t]))
           /\ s # <<>> => Last(s).nested /\ Last(s).returning = Top(t).saved
           /\ \A k \in 1 .. Len(s) : k # 1 => s[k].saved = s[k - 1].returning
<1> USE DEF ConfinementInv
<1>1. PICK n \in Nat : n = Len(stack[t]) /\ n # 0 /\ Top(t) = stack[t][n]  BY BlocksOf
<1>2. PICK f \in Seq(Blocks) :
        f = Front(stack[t]) /\ Len(f) = n - 1 /\ \A k \in 1 .. n - 1 : f[k] = stack[t][k]
  BY <1>1, BlocksOf, LastAndFront DEF Inside
<1>3. PICK s \in Seq(Blocks) :
        /\ s = Unwound(f) /\ Len(s) = n - 1 /\ (s = <<>> <=> f = <<>>)
        /\ \A k \in 1 .. n - 1 : s[k].saved = f[k].saved /\ s[k].returning = f[k].returning
        /\ f # <<>> => Last(s).nested /\ Last(s) = s[n - 1]
  BY <1>2, UnwoundBlocks
<1>4. \A k \in 1 .. n : k # 1 => stack[t][k].saved = stack[t][k - 1].returning
  BY <1>1 DEF ThreadInv, FlagsAreSaved
<1>5. ASSUME NEW k \in 1 .. n - 1, k # 1 PROVE s[k].saved = s[k - 1].returning
  <2> HIDE DEF ConfinementInv
  <2>1. k - 1 \in 1 .. n - 1 /\ k \in 1 .. n  BY <1>5
  <2>2. s[k].saved = f[k].saved /\ s[k - 1].returning = f[k - 1].returning  BY <1>3, <1>5, <2>1
  <2>3. f[k] = stack[t][k] /\ f[k - 1] = stack[t][k - 1]  BY <1>2, <1>5, <2>1
  <2>4. stack[t][k].saved = stack[t][k - 1].returning  BY <1>4, <1>5, <2>1
  <2> QED  BY <2>2, <2>3, <2>4
<1>6. ASSUME s # <<>> PROVE Last(s).nested /\ Last(s).returning = Top(t).saved
  <2>1. Len(s) # 0  BY <1>6, EmptySeq
  <2>2. n - 1 # 0 /\ n # 0 /\ n \in Nat  BY <1>1, <1>3, <2>1
  <2> HIDE DEF ConfinementInv
  <2>3. n - 1 \in 1 .. n - 1 /\ n \in 1 .. n /\ n # 1  BY <2>2
  <2>4. f # <<>> /\ Last(s).nested /\ Last(s) = s[n - 1]  BY <1>3, <1>6
  <2>5. s[n - 1].returning = stack[t][n - 1].returning  BY <1>2, <1>3, <2>3
  <2>6. stack[t][n].saved = stack[t][n - 1].returning  BY <1>4, <2>3
  <2> QED  BY <1>1, <2>4, <2>5, <2>6
<1> QED  BY <1>2, <1>3, <1>5, <1>6

\* A block is completed.
LEMMA FinishKeeps == ASSUME ConfinementInv, NEW t \in Threads, Finish(t) PROVE ConfinementInv'
<1> USE DEF ConfinementInv
<1>1. /\ Running /\ Inside(t)
      /\ active' = [active EXCEPT ![t] = FALSE]
      /\ thisReturned' = [thisReturned EXCEPT ![t] = returned[t]]
      /\ returned' = [returned EXCEPT ![t] = Top(t).saved]
      /\ stack' = [stack EXCEPT ![t] = Unwound(Front(stack[t]))]
      /\ page' = Disarmed(t) /\ armed' = [armed EXCEPT ![t] = FALSE]
      /\ ended' = [ended EXCEPT ![t] = Top(t).returning]
      /\ UNCHANGED <<process, jump, retried, installed, trapping, record, owed>>
  BY DEF Finish
<1>2. PICK s \in Seq(Blocks) :
        /\ s = Unwound(Front(stack[t]))
        /\ s # <<>> => Last(s).nested /\ Last(s).returning = Top(t).saved
        /\ \A k \in 1 .. Len(s) : k # 1 => s[k].saved = s[k - 1].returning
  BY <1>1, BlockIsOver
<1>3. stack' = [stack EXCEPT ![t] = s]  BY <1>1, <1>2
<1>4. Top(t).saved \in BOOLEAN /\ Top(t).returning \in BOOLEAN  BY <1>1, BlocksOf DEF Blocks
<1>5. page' \in [Threads -> {"unmapped", "none", "rw"}]  BY <1>1 DEF Flags, Disarmed
<1>6. Flags'  BY <1>1, <1>4, <1>5 DEF Flags, process
<1>7. \A u \in Threads : u # t => Untouched(u)  BY <1>1 DEF Flags, Untouched
<1>8. ThreadInv(t)'
  <2>1. /\ stack'[t] = s /\ active'[t] = FALSE /\ returned'[t] = Top(t).saved
        /\ thisReturned'[t] = returned[t] /\ ended'[t] = Top(t).returning
    BY <1>1, <1>3 DEF Stacks, Flags
  <2>2. returned[t] = Top(t).returning  BY <1>1 DEF ThreadInv, FlagsAreSaved
  <2>3. JumpIsOfTheTop(t)' /\ ClearedByNested(t)' /\ FlagsAreSaved(t)'
    BY <1>2, <2>1 DEF JumpIsOfTheTop, ClearedByNested, FlagsAreSaved, Inside, Top
  <2>4. OwedIsNoted(t)'  BY <1>1 DEF ThreadInv, OwedIsNoted, Noted
  <2> QED  BY <2>1, <2>2, <2>3, <2>4 DEF ThreadInv
<1>9. UNCHANGED status  BY <1>1 DEF process
<1> QED  BY <1>1, <1>3, <1>6, <1>7, <1>8, <1>9, StepOfThread

\* While the trampoline is active the handler jumps to the running block.
LEMMA LandsOnTop ==
  ASSUME ConfinementInv, NEW t \in Threads, active[t] PROVE Inside(t) /\ Landing(t) = stack[t]
<1>1. Inside(t) /\ jump[t] = Len(stack[t])
  BY DEF ConfinementInv, ThreadInv, JumpIsOfTheTop
<1>2. stack[t] \in Seq(Blocks)  BY BlocksOf DEF ConfinementInv
<1>3. SubSeq(stack[t], 1, Len(stack[t])) = stack[t]  BY <1>2, SubSeqFull
<1> QED  BY <1>1, <1>3 DEF Landing

\* The block is run again: a touch is all it has survived.
LEMMA RetryKeeps == ASSUME ConfinementInv, NEW t \in Threads, Retry(t) PROVE ConfinementInv'
<1> USE DEF ConfinementInv
<1>1. PICK n \in Nat : n = Len(stack[t])  BY BlocksOf
<1>2. /\ Running /\ active[t] /\ ~retried[t] /\ ~Top(t).returning
      /\ retried' = [retried EXCEPT ![t] = TRUE]
      /\ page' = Disarmed(t) /\ armed' = [armed EXCEPT ![t] = TRUE]
      /\ active' = [active EXCEPT ![t] = TRUE] /\ returned' = [returned EXCEPT ![t] = FALSE]
      /\ UNCHANGED <<process, jump, thisReturned, installed, trapping, record, history>>
  BY DEF Retry, Faults
<1>3. Inside(t) /\ Landing(t) = stack[t]  BY <1>2, LandsOnTop
<1>4. n # 0 /\ Top(t) = stack[t][n] /\ Top(t) \in Blocks /\ stack[t] \in Seq(Blocks)
      /\ Last(stack[t]) = Top(t)
  BY <1>1, <1>3, BlocksOf DEF Top
<1>5. PICK b : b = [Top(t) EXCEPT !.survived = Append(@, "touch"), !.nested = FALSE]  OBVIOUS
<1>6. b \in Blocks /\ b.saved = Top(t).saved /\ b.returning = FALSE
  <2>1. Top(t).survived = <<>>  BY <1>2 DEF ThreadInv, JumpIsOfTheTop
  <2>2. PICK v : v = Append(Top(t).survived, "touch")  OBVIOUS
  <2>3. v = <<"touch">>  BY <2>1, <2>2
  <2>4. b = [Top(t) EXCEPT !.survived = v, !.nested = FALSE]  BY <1>5, <2>2
  <2>5. v \in Survivals  BY <2>3 DEF Survivals
  <2>6. Top(t).returning = FALSE  BY <1>2, <1>4 DEF Blocks
  <2> QED  BY <1>4, <2>4, <2>5, <2>6 DEF Blocks
<1>7. PICK s \in Seq(Blocks) : s = WithTop(stack[t], b) /\ TopIs(stack[t], b, s)
  BY <1>3, <1>4, <1>6, NewTop DEF Inside
<1>8. stack' = [stack EXCEPT ![t] = s]  BY <1>3, <1>4, <1>5, <1>7 DEF Retry, WithTop
<1>9. page' \in [Threads -> {"unmapped", "none", "rw"}]  BY <1>2 DEF Flags, Disarmed
<1>10. Flags'  BY <1>2, <1>9 DEF Flags, process, history
<1>11. \A u \in Threads : u # t => Untouched(u)  BY <1>2 DEF Flags, Untouched, history
<1>12. ThreadInv(t)'
  <2>1. /\ stack'[t] = s /\ active'[t] = TRUE /\ returned'[t] = FALSE /\ retried'[t] = TRUE
        /\ jump'[t] = jump[t] /\ jump[t] = n
    BY <1>1, <1>2, <1>8 DEF Stacks, Flags, ThreadInv, JumpIsOfTheTop
  <2>2. JumpIsOfTheTop(t)' /\ ClearedByNested(t)'
    BY <1>1, <1>7, <2>1 DEF JumpIsOfTheTop, ClearedByNested, Inside, Top, TopIs
  <2>3. ASSUME NEW k \in 1 .. n, k # 1 PROVE s[k].saved = s[k - 1].returning
    <3>1. stack[t][k].saved = stack[t][k - 1].returning
      BY <1>1, <2>3 DEF ThreadInv, FlagsAreSaved
    <3>2. k - 1 \in 1 .. n - 1  BY <2>3
    <3>3. s[k].saved = stack[t][k].saved
      <4>1. CASE k = n  BY <1>1, <1>4, <1>6, <1>7, <4>1 DEF TopIs
      <4>2. CASE k # n
        <5>1. k \in 1 .. n - 1  BY <4>2
        <5> QED  BY <1>1, <1>7, <5>1 DEF TopIs
      <4> QED  BY <4>1, <4>2
    <3> QED  BY <1>1, <1>7, <3>1, <3>2, <3>3 DEF TopIs
  <2>4. FlagsAreSaved(t)'
    BY <1>1, <1>6, <1>7, <2>1, <2>3 DEF FlagsAreSaved, Inside, Top, TopIs
  <2>5. OwedIsNoted(t)' /\ (thisReturned[t] = ended[t])'
    BY <1>2 DEF ThreadInv, OwedIsNoted, history, Noted
  <2> QED  BY <2>2, <2>4, <2>5 DEF ThreadInv
<1>13. UNCHANGED status  BY <1>2 DEF process
<1> QED  BY <1>2, <1>7, <1>8, <1>10, <1>11, <1>12, <1>13, StepOfThread

\* A fault is reported: the blocks above the running one's frame are gone, and so
\* is that block.
LEMMA ReportKeeps ==
  ASSUME ConfinementInv, NEW t \in Threads, NEW kind \in {"touch", "wild"}, Report(t, kind)
  PROVE  ConfinementInv'
<1> USE DEF ConfinementInv
<1>1. /\ Running /\ active[t]
      /\ active' = [active EXCEPT ![t] = FALSE]
      /\ record' = [record EXCEPT ![t] = Noted] /\ owed' = [owed EXCEPT ![t] = TRUE]
      /\ UNCHANGED <<process, jump, thisReturned, retried, installed, trapping, guard, ended>>
  BY DEF Report, Faults
<1>2. Inside(t) /\ Landing(t) = stack[t] /\ Top(t) \in Blocks  BY <1>1, LandsOnTop, BlocksOf
<1>3. /\ returned' = [returned EXCEPT ![t] = Top(t).saved]
      /\ stack' = [stack EXCEPT ![t] = Unwound(Front(stack[t]))]
  BY <1>2 DEF Report, Top
<1>4. PICK s \in Seq(Blocks) :
        /\ s = Unwound(Front(stack[t]))
        /\ s # <<>> => Last(s).nested /\ Last(s).returning = Top(t).saved
        /\ \A k \in 1 .. Len(s) : k # 1 => s[k].saved = s[k - 1].returning
  BY <1>2, BlockIsOver
<1>5. stack' = [stack EXCEPT ![t] = s]  BY <1>3, <1>4
<1>6. Top(t).saved \in BOOLEAN  BY <1>2 DEF Blocks
<1>7. Flags'
  <2>1. Noted \in [active : BOOLEAN, taken : BOOLEAN, registered : BOOLEAN]  BY DEF Noted
  <2> QED  BY <1>1, <1>3, <1>6, <2>1 DEF Flags, process, guard
<1>8. \A u \in Threads : u # t => Untouched(u)  BY <1>1, <1>3 DEF Flags, Untouched
<1>9. ThreadInv(t)'
  <2>1. stack'[t] = s /\ active'[t] = FALSE /\ returned'[t] = Top(t).saved /\ record'[t] = Noted
    BY <1>1, <1>3, <1>5 DEF Stacks, Flags
  <2>2. JumpIsOfTheTop(t)' /\ ClearedByNested(t)' /\ FlagsAreSaved(t)'
    BY <1>4, <2>1 DEF JumpIsOfTheTop, ClearedByNested, FlagsAreSaved, Inside, Top
  <2>3. OwedIsNoted(t)' /\ (thisReturned[t] = ended[t])'
    BY <1>1, <2>1 DEF ThreadInv, OwedIsNoted, Noted
  <2> QED  BY <2>2, <2>3 DEF ThreadInv
<1>10. UNCHANGED status  BY <1>1 DEF process
<1> QED  BY <1>1, <1>5, <1>7, <1>8, <1>9, <1>10, StepOfThread

\* The handler ends the process: no block was active, or the handler was another's.
LEMMA FatalKeeps ==
  ASSUME ConfinementInv, NEW t \in Threads, NEW kind \in {"touch", "wild"},
         Crash(t, kind) \/ JumpNowhere(t, kind)
  PROVE  ConfinementInv'
<1> USE DEF ConfinementInv
<1>1. /\ Inside(t) /\ status' \in {"crashed", "undefined"} /\ culprit' = t
      /\ handler = "trap" \/ (handler = "trampoline" /\ ~active[t])
      /\ UNCHANGED <<handler, stack, trampoline, installed, trapping, guard, record, history>>
  BY DEF Crash, JumpNowhere, Faults
<1>2. Flags' /\ Stacks' /\ \A u \in Threads : ThreadInv(u)'
  BY <1>1 DEF Flags, Stacks, trampoline, guard, history, ThreadInv, JumpIsOfTheTop,
     ClearedByNested, FlagsAreSaved, OwedIsNoted, Inside, Top, Noted
<1>3. FaultsAreContained'
  <2>1. handler = "trap" \/ Top(t).nested  BY <1>1 DEF ThreadInv, ClearedByNested
  <2> QED  BY <1>1, <2>1 DEF FaultsAreContained, Inside, Top
<1>4. MainFaultsAreReported'  BY <1>1 DEF MainFaultsAreReported
<1> QED  BY <1>2, <1>3, <1>4

\* The steps that leave the stack and the trampoline alone.
LEMMA PlainStepsKeep ==
  ASSUME ConfinementInv, NEW t \in Threads, TrapEnter(t) \/ TrapLeave(t) \/ Take(t)
  PROVE  ConfinementInv'
<1> USE DEF ConfinementInv
<1>1. /\ Running /\ UNCHANGED <<status, culprit, stack, trampoline, guard, ended>>
      /\ \/ record' = record /\ owed' = owed
         \/ record' = [record EXCEPT ![t].taken = TRUE] /\ owed' = [owed EXCEPT ![t] = FALSE]
  BY DEF TrapEnter, TrapLeave, Take, process, history
<1>2. handler' \in {"default", "trampoline", "trap"}
      /\ installed' \in [Threads -> SUBSET {"trampoline", "trap"}]
      /\ trapping' \in [Threads -> BOOLEAN]
  <2>1. CASE TrapEnter(t)
    <3>1. /\ installed' = [installed EXCEPT ![t] = installed[t] \cup {"trap"}]
          /\ handler' = IF "trap" \in installed[t] THEN handler ELSE "trap"
          /\ trapping' = [trapping EXCEPT ![t] = TRUE]
      BY <2>1 DEF TrapEnter, Install
    <3> QED  BY <3>1 DEF Flags
  <2>2. CASE TrapLeave(t) \/ Take(t)
    <3>1. /\ UNCHANGED <<handler, installed>>
          /\ trapping' = trapping \/ trapping' = [trapping EXCEPT ![t] = FALSE]
      BY <2>2 DEF TrapLeave, Take, process
    <3> QED  BY <3>1 DEF Flags
  <2> QED  BY <2>1, <2>2
<1>3. record' \in [Threads -> [active : BOOLEAN, taken : BOOLEAN, registered : BOOLEAN]]
      /\ owed' \in [Threads -> BOOLEAN]
  <2>1. CASE record' = record /\ owed' = owed  BY <2>1 DEF Flags
  <2>2. CASE record' = [record EXCEPT ![t].taken = TRUE] /\ owed' = [owed EXCEPT ![t] = FALSE]
    <3>1. PICK r : r = [record[t] EXCEPT !.taken = TRUE]  OBVIOUS
    <3>2. r \in [active : BOOLEAN, taken : BOOLEAN, registered : BOOLEAN]  BY <3>1 DEF Flags
    <3>3. record' = [record EXCEPT ![t] = r]  BY <2>2, <3>1
    <3>4. /\ record \in [Threads -> [active : BOOLEAN, taken : BOOLEAN, registered : BOOLEAN]]
          /\ owed \in [Threads -> BOOLEAN]
      BY DEF Flags
    <3> HIDE DEF ConfinementInv
    <3>5. record' \in [Threads -> [active : BOOLEAN, taken : BOOLEAN, registered : BOOLEAN]]
      BY <3>2, <3>3, <3>4
    <3>6. owed' \in [Threads -> BOOLEAN]  BY <2>2, <3>4
    <3> QED  BY <3>5, <3>6
  <2> QED  BY <1>1, <2>1, <2>2
<1>4. Flags'  BY <1>1, <1>2, <1>3 DEF Flags, trampoline, guard
<1>5. PICK s \in Seq(Blocks) : s = stack[t]  BY BlocksOf
<1>6. stack' = [stack EXCEPT ![t] = s]  BY <1>1, <1>5 DEF Stacks
<1>7. \A u \in Threads : u # t => Untouched(u)  BY <1>1 DEF Flags, Untouched, trampoline
<1>8. ThreadInv(t)'
  <2>1. OwedIsNoted(t)'
    <3>1. CASE record' = record /\ owed' = owed  BY <3>1 DEF ThreadInv, OwedIsNoted, Noted
    <3>2. CASE owed' = [owed EXCEPT ![t] = FALSE]  BY <3>2 DEF Flags, OwedIsNoted
    <3> QED  BY <1>1, <3>1, <3>2
  <2>2. JumpIsOfTheTop(t)' /\ ClearedByNested(t)' /\ FlagsAreSaved(t)'
    BY <1>1 DEF trampoline, ThreadInv, JumpIsOfTheTop, ClearedByNested, FlagsAreSaved, Inside, Top
  <2>3. (thisReturned[t] = ended[t])'  BY <1>1 DEF trampoline, ThreadInv
  <2> QED  BY <2>1, <2>2, <2>3 DEF ThreadInv
<1> QED  BY <1>1, <1>4, <1>5, <1>6, <1>7, <1>8, StepOfThread

\* The program ends: a fault that is owed makes the status 70.
LEMMA ExitKeeps == ASSUME ConfinementInv, Exit PROVE ConfinementInv'
<1> USE DEF ConfinementInv
<1>1. /\ status' = IF /\ \E t \in Threads : record[t].registered
                      /\ record[Main].active /\ ~record[Main].taken
                   THEN "exit70" ELSE "exit0"
      /\ UNCHANGED <<handler, culprit, stack, trampoline, installed, trapping, guard,
                     record, history>>
  BY DEF Exit
<1>2. Flags' /\ Stacks' /\ \A u \in Threads : ThreadInv(u)'
  BY <1>1 DEF Flags, Stacks, trampoline, guard, history, ThreadInv, JumpIsOfTheTop,
     ClearedByNested, FlagsAreSaved, OwedIsNoted, Inside, Top, Noted
<1>3. FaultsAreContained'  BY <1>1 DEF FaultsAreContained
<1>4. MainFaultsAreReported'
  <2>1. owed[Main] => record[Main] = Noted  BY MainAssumption DEF ThreadInv, OwedIsNoted
  <2>2. owed[Main] => status' = "exit70"  BY <1>1, <2>1, MainAssumption DEF Noted
  <2> QED  BY <1>1, <2>2 DEF MainFaultsAreReported, history
<1> QED  BY <1>2, <1>3, <1>4
-----------------------------------------------------------------------------
\* No thread has a block at first.
LEMMA ConfinementInitial == Init => ConfinementInv
<1> SUFFICES ASSUME Init PROVE ConfinementInv  OBVIOUS
<1>1. stack = [t \in Threads |-> <<>>] /\ status = "running"  BY DEF Init
<1>2. Flags  BY DepthAssumption DEF Init, Flags
<1>3. Stacks  BY <1>1 DEF Stacks
<1>4. \A t \in Threads : stack[t] = <<>> /\ Len(stack[t]) = 0  BY <1>1
<1>5. ASSUME NEW t \in Threads PROVE ThreadInv(t)
  BY <1>4 DEF Init, ThreadInv, JumpIsOfTheTop, ClearedByNested, FlagsAreSaved, OwedIsNoted, Inside
<1>6. FaultsAreContained /\ MainFaultsAreReported
  BY <1>1 DEF FaultsAreContained, MainFaultsAreReported
<1> QED  BY <1>2, <1>3, <1>5, <1>6 DEF ConfinementInv

\* Every step keeps the invariant.
LEMMA ConfinementStep == ConfinementInv /\ [Next]_vars => ConfinementInv'
<1> SUFFICES ASSUME ConfinementInv, [Next]_vars PROVE ConfinementInv'  OBVIOUS
<1>1. CASE Exit  BY <1>1, ExitKeeps
<1>2. ASSUME NEW t \in Threads, Enter(t) \/ SetReturned(t) \/ Finish(t) \/ Retry(t)
      PROVE  ConfinementInv'
  BY <1>2, EnterKeeps, SetReturnedKeeps, FinishKeeps, RetryKeeps
<1>3. ASSUME NEW t \in Threads, NEW kind \in {"touch", "wild"}, Report(t, kind)
      PROVE  ConfinementInv'
  BY <1>3, ReportKeeps
<1>4. ASSUME NEW t \in Threads, NEW kind \in {"touch", "wild"},
             Crash(t, kind) \/ JumpNowhere(t, kind)
      PROVE  ConfinementInv'
  BY <1>4, FatalKeeps
<1>5. ASSUME NEW t \in Threads, TrapEnter(t) \/ TrapLeave(t) \/ Take(t) PROVE ConfinementInv'
  BY <1>5, PlainStepsKeep
<1>6. CASE UNCHANGED vars
  BY <1>6 DEF vars, process, trampoline, guard, history, ConfinementInv, Flags, Stacks, ThreadInv,
     JumpIsOfTheTop, ClearedByNested, FlagsAreSaved, OwedIsNoted, Inside, Top, Noted,
     FaultsAreContained, MainFaultsAreReported
<1> QED  BY <1>1, <1>2, <1>3, <1>4, <1>5, <1>6 DEF Next, Step

\* The inductive invariant of the trampoline, its flags and the fault record.
THEOREM ConfinementInvariant == Spec => []ConfinementInv
BY ConfinementInitial, ConfinementStep, PTL DEF Spec

\* "Unwind ONLY the trampoline's frame": a fault lands in the running block, and ends
\* the process only where a nested block cleared the flag or the handler is another's,
\* for every number of threads and every depth.
THEOREM FaultsStayInTheirBlock == Spec => []BlocksAreContained
<1>1. ConfinementInv => BlocksAreContained
  <2> SUFFICES ASSUME ConfinementInv PROVE BlocksAreContained  OBVIOUS
  <2>1. ASSUME NEW t \in Threads, NEW k \in DOMAIN stack[t]
        PROVE  /\ stack[t][k].survived \in Seq({"touch", "wild"})
               /\ {stack[t][k].saved, stack[t][k].nested, stack[t][k].returning} \subseteq BOOLEAN
    <3>1. stack[t][k] \in Blocks  BY BlocksOf DEF ConfinementInv
    <3>2. stack[t][k].survived \in Survivals  BY <3>1 DEF Blocks
    <3>3. <<>> \in Seq({"touch", "wild"}) /\ <<"touch">> \in Seq({"touch", "wild"})  OBVIOUS
    <3> QED  BY <3>1, <3>2, <3>3 DEF Blocks, Survivals
  <2>2. TypeOK  BY <2>1 DEF ConfinementInv, Flags, TypeOK
  <2>3. JumpStaysInTheBlock
    BY DEF ConfinementInv, ThreadInv, JumpIsOfTheTop, JumpStaysInTheBlock
  <2> QED  BY <2>2, <2>3 DEF ConfinementInv, BlocksAreContained
<1> QED  BY <1>1, ConfinementInvariant, PTL

\* A block is run again only after a touch of the guard page, once, and its call site
\* reads whether that block returned, however blocks nest, fault and repeat.
THEOREM RetriesLeaveNoTrace == Spec => []RetryIsInvisible
<1>1. ConfinementInv => RetryIsInvisible
  <2> SUFFICES ASSUME ConfinementInv PROVE RetryIsInvisible  OBVIOUS
  <2>1. NoReplay
    <3>1. ASSUME NEW t \in Threads, NEW k \in DOMAIN stack[t]
          PROVE  stack[t][k].survived \in {<<>>, <<"touch">>}
      <4>1. stack[t][k] \in Blocks  BY BlocksOf DEF ConfinementInv
      <4> QED  BY <4>1 DEF Blocks, Survivals
    <3> QED  BY <3>1 DEF NoReplay
  <2>2. ReturnIsOwn  BY DEF ConfinementInv, ThreadInv, ReturnIsOwn
  <2> QED  BY <2>1, <2>2 DEF RetryIsInvisible
<1> QED  BY <1>1, ConfinementInvariant, PTL

\* A fault of the exiting thread that nobody took keeps the exit status from 0.
THEOREM UntakenFaultsShow == Spec => []MainFaultsAreReported
BY ConfinementInvariant, PTL DEF ConfinementInv
=============================================================================
