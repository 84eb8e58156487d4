--------------------------- MODULE SequenceLemmas ---------------------------
(***************************************************************************)
(* Lemmas about the operators on sequences that the modules are built      *)
(* from: rings, the queue a ring stands for before and after an item is    *)
(* added or taken, and the selection of some of the elements of a sequence;*)
(* about loops, which is what a recursive function is, and about division. *)
(***************************************************************************)
EXTENDS RingOps, Selection, SequencesExt, SequenceTheorems, WellFoundedInduction, TLAPS

(***************************************************************************)
(* Ring arithmetic: the two cases of an index modulo cap.                  *)
(***************************************************************************)

\* Indices advance by one and wrap to 0 at the end of the array.
LEMMA RingNextCases ==
  ASSUME NEW cap \in Nat \ {0}, NEW i \in 0 .. cap - 1
  PROVE  RingNext(i, cap) = IF i + 1 = cap THEN 0 ELSE i + 1
  BY DEF RingNext

\* The slot `off` places behind the front, without the modulus.
LEMMA RingSlotCases ==
  ASSUME NEW cap \in Nat \ {0}, NEW i \in 0 .. cap - 1, NEW off \in 0 .. cap
  PROVE  RingSlot(i, off, cap) = IF i + off < cap THEN i + off ELSE i + off - cap
  BY DEF RingSlot
-----------------------------------------------------------------------------
(* The ring after taking the front job and after adding one at the back.   *)

\* Taking renumbers the slots behind the front; the tail stays put.
LEMMA RingAfterTake ==
  ASSUME NEW cap \in Nat \ {0}, NEW i \in 0 .. cap - 1, NEW n \in 1 .. cap
  PROVE  /\ RingNext(i, cap) \in 0 .. cap - 1
         /\ RingSlot(i, 0, cap) = i
         /\ \A k \in 0 .. n - 1 :
              RingSlot(RingNext(i, cap), k, cap) = RingSlot(i, k + 1, cap)
  <1> DEFINE h == RingNext(i, cap)
  <1>1. h = IF i + 1 = cap THEN 0 ELSE i + 1
    BY RingNextCases
  <1>2. h \in 0 .. cap - 1
    BY <1>1
  <1> HIDE DEF h
  <1>3. ASSUME NEW k \in 0 .. n - 1
        PROVE  RingSlot(h, k, cap) = RingSlot(i, k + 1, cap)
    <2>1. RingSlot(h, k, cap) = IF h + k < cap THEN h + k ELSE h + k - cap
      BY <1>2, RingSlotCases
    <2>2. RingSlot(i, k + 1, cap)
            = IF i + (k + 1) < cap THEN i + (k + 1) ELSE i + (k + 1) - cap
      BY RingSlotCases
    <2>3. QED
      BY <1>1, <2>1, <2>2
  <1>4. RingSlot(i, 0, cap) = i
    BY RingSlotCases
  <1>5. QED
    BY <1>2, <1>3, <1>4 DEF h

\* The slot behind the last one is free and comes next.
LEMMA RingAfterAdd ==
  ASSUME NEW cap \in Nat \ {0}, NEW i \in 0 .. cap - 1, NEW n \in 0 .. cap - 1
  PROVE  /\ RingNext(RingSlot(i, n, cap), cap) = RingSlot(i, n + 1, cap)
         /\ \A k \in 0 .. n - 1 : RingSlot(i, k, cap) # RingSlot(i, n, cap)
  <1>1. \A k \in 0 .. cap : RingSlot(i, k, cap)
           = IF i + k < cap THEN i + k ELSE i + k - cap
    BY RingSlotCases
  <1>2. RingSlot(i, n, cap) \in 0 .. cap - 1
    BY <1>1
  <1>3. RingNext(RingSlot(i, n, cap), cap)
          = IF RingSlot(i, n, cap) + 1 = cap THEN 0 ELSE RingSlot(i, n, cap) + 1
    BY <1>2, RingNextCases
  <1>4. QED
    BY <1>1, <1>3
-----------------------------------------------------------------------------
(* The queue a ring stands for.                                            *)

\* The n slots from i on hold elements of S.
RingHolds(buf, i, n, cap, S) ==
  \A k \in 0 .. n - 1 : buf[RingSlot(i, k, cap)] \in S

\* Its items are those of the slots, in order.
LEMMA ContentsIsASequence ==
  ASSUME NEW S, NEW cap \in Nat \ {0}, NEW i \in 0 .. cap - 1, NEW n \in 0 .. cap,
         NEW buf, RingHolds(buf, i, n, cap, S)
  PROVE  /\ RingContents(buf, i, n, cap) \in Seq(S)
         /\ Len(RingContents(buf, i, n, cap)) = n
         /\ \A k \in 1 .. n :
              RingContents(buf, i, n, cap)[k] = buf[RingSlot(i, k - 1, cap)]
  <1>1. \A k \in 1 .. n : buf[RingSlot(i, k - 1, cap)] \in S
    BY DEF RingHolds
  <1>2. RingContents(buf, i, n, cap) \in [1 .. n -> S]
    BY <1>1 DEF RingContents
  <1>3. QED
    BY <1>2 DEF RingContents

\* Storing an item in the slot behind the last one appends it.
RingArray(buf, cap, T) == buf \in [0 .. cap - 1 -> T]
RingStore(buf, i, n, cap, x) == [buf EXCEPT ![RingSlot(i, n, cap)] = x]

\* What is put at the tail comes at the end of the contents.
LEMMA ContentsAfterAdd ==
  ASSUME NEW S, NEW cap \in Nat \ {0}, NEW i \in 0 .. cap - 1, NEW n \in 0 .. cap - 1,
         NEW T, NEW buf, NEW x \in S, RingArray(buf, cap, T),
         RingHolds(buf, i, n, cap, S)
  PROVE  RingContents(RingStore(buf, i, n, cap, x), i, n + 1, cap)
           = Append(RingContents(buf, i, n, cap), x)
  <1> DEFINE new == RingStore(buf, i, n, cap, x)
             before == RingContents(buf, i, n, cap)
             after == RingContents(new, i, n + 1, cap)
  <1>1. /\ before \in Seq(S) /\ Len(before) = n
        /\ \A k \in 1 .. n : before[k] = buf[RingSlot(i, k - 1, cap)]
    <2>1. n \in 0 .. cap
      OBVIOUS
    <2>2. QED
      BY <2>1, ContentsIsASequence
  <1>2. \A k \in 0 .. cap : RingSlot(i, k, cap)
           = IF i + k < cap THEN i + k ELSE i + k - cap
    BY RingSlotCases
  <1>3. \A k \in 0 .. n : RingSlot(i, k, cap) \in 0 .. cap - 1
    BY <1>2
  <1>4. \A k \in 0 .. n - 1 : RingSlot(i, k, cap) # RingSlot(i, n, cap)
    BY RingAfterAdd
  <1>5. /\ new[RingSlot(i, n, cap)] = x
        /\ \A k \in 0 .. n - 1 : new[RingSlot(i, k, cap)] = buf[RingSlot(i, k, cap)]
    BY <1>3, <1>4 DEF RingStore, RingArray
  <1>6. RingHolds(new, i, n + 1, cap, S)
    BY <1>5 DEF RingHolds
  <1>7. /\ after \in Seq(S) /\ Len(after) = n + 1
        /\ \A k \in 1 .. n + 1 : after[k] = new[RingSlot(i, k - 1, cap)]
    <2>1. n + 1 \in 0 .. cap
      OBVIOUS
    <2> HIDE DEF new
    <2>2. QED
      BY <2>1, <1>6, ContentsIsASequence
  <1> HIDE DEF new, before, after
  <1>8. /\ Append(before, x) \in Seq(S) /\ Len(Append(before, x)) = n + 1
    BY <1>1
  <1>9. ASSUME NEW k \in 1 .. n + 1
        PROVE  after[k] = Append(before, x)[k]
    <2>1. CASE k = n + 1
      <3>1. k - 1 = n /\ n + 1 \in 1 .. n + 1
        BY <2>1
      <3>2. after[k] = x
        BY <3>1, <1>5, <1>7
      <3>3. Append(before, x)[n + 1] = x
        BY <1>1
      <3>4. QED
        BY <2>1, <3>2, <3>3
    <2>2. CASE k # n + 1
      <3>1. k \in 1 .. n /\ k - 1 \in 0 .. n - 1
        BY <2>2
      <3>2. after[k] = buf[RingSlot(i, k - 1, cap)]
        BY <3>1, <1>5, <1>7
      <3>3. Append(before, x)[k] = before[k]
        BY <3>1, <1>1
      <3>4. QED
        BY <3>1, <3>2, <3>3, <1>1
    <2>3. QED
      BY <2>1, <2>2
  <1>10. after = Append(before, x)
    BY <1>7, <1>8, <1>9
  <1>11. QED
    BY <1>10 DEF new, before, after

\* Advancing the front index takes the front item off.
LEMMA ContentsAfterTake ==
  ASSUME NEW S, NEW cap \in Nat \ {0}, NEW i \in 0 .. cap - 1, NEW n \in 1 .. cap,
         NEW buf, RingHolds(buf, i, n, cap, S)
  PROVE  /\ RingContents(buf, i, n, cap) # <<>>
         /\ Head(RingContents(buf, i, n, cap)) = buf[i]
         /\ RingContents(buf, RingNext(i, cap), n - 1, cap)
              = Tail(RingContents(buf, i, n, cap))
  <1> DEFINE before == RingContents(buf, i, n, cap)
             after == RingContents(buf, RingNext(i, cap), n - 1, cap)
  <1>1. /\ before \in Seq(S) /\ Len(before) = n
        /\ \A k \in 1 .. n : before[k] = buf[RingSlot(i, k - 1, cap)]
    <2>1. n \in 0 .. cap
      OBVIOUS
    <2>2. QED
      BY <2>1, ContentsIsASequence
  <1>2. /\ RingNext(i, cap) \in 0 .. cap - 1
        /\ RingSlot(i, 0, cap) = i
        /\ \A k \in 0 .. n - 1 :
             RingSlot(RingNext(i, cap), k, cap) = RingSlot(i, k + 1, cap)
    BY RingAfterTake
  <1>3. RingHolds(buf, RingNext(i, cap), n - 1, cap, S)
    <2> SUFFICES ASSUME NEW k \in 0 .. (n - 1) - 1
                 PROVE  buf[RingSlot(RingNext(i, cap), k, cap)] \in S
      BY DEF RingHolds
    <2>1. k \in 0 .. n - 1 /\ k + 1 \in 0 .. n - 1
      OBVIOUS
    <2>2. QED
      BY <2>1, <1>2 DEF RingHolds
  <1>4. /\ after \in Seq(S) /\ Len(after) = n - 1
        /\ \A k \in 1 .. n - 1 :
             after[k] = buf[RingSlot(RingNext(i, cap), k - 1, cap)]
    <2> DEFINE h == RingNext(i, cap)
               m == n - 1
    <2>1. m \in 0 .. cap /\ h \in 0 .. cap - 1 /\ RingHolds(buf, h, m, cap, S)
      BY <1>2, <1>3
    <2> HIDE DEF h, m
    <2>2. /\ RingContents(buf, h, m, cap) \in Seq(S)
          /\ Len(RingContents(buf, h, m, cap)) = m
          /\ \A k \in 1 .. m :
               RingContents(buf, h, m, cap)[k] = buf[RingSlot(h, k - 1, cap)]
      BY <2>1, ContentsIsASequence
    <2>3. QED
      BY <2>2 DEF h, m
  <1> HIDE DEF before, after
  <1>5. ASSUME NEW k \in 1 .. n - 1
        PROVE  after[k] = before[k + 1]
    <2>1. k - 1 \in 0 .. n - 1 /\ k + 1 \in 1 .. n
      OBVIOUS
    <2>2. RingSlot(RingNext(i, cap), k - 1, cap) = RingSlot(i, (k - 1) + 1, cap)
      BY <2>1, <1>2
    <2>3. (k - 1) + 1 = k /\ (k + 1) - 1 = k
      OBVIOUS
    <2>4. after[k] = buf[RingSlot(RingNext(i, cap), k - 1, cap)]
      BY <1>4
    <2>5. before[k + 1] = buf[RingSlot(i, (k + 1) - 1, cap)]
      BY <2>1, <1>1
    <2>6. QED
      BY <2>2, <2>3, <2>4, <2>5
  <1>6. before # <<>> /\ Head(before) = before[1]
    BY <1>1
  <1>7. /\ Tail(before) \in Seq(S) /\ Len(Tail(before)) = n - 1
        /\ \A k \in 1 .. n - 1 : Tail(before)[k] = before[k + 1]
    BY <1>1, <1>6
  <1>8. after = Tail(before)
    BY <1>4, <1>5, <1>7
  <1>9. before[1] = buf[i]
    BY <1>1, <1>2
  <1>10. QED
    BY <1>6, <1>8, <1>9 DEF before, after
-----------------------------------------------------------------------------
(* The last element, and the selection of some.                            *)

\* The last element of a sequence and those before it.
LEMMA LastAndFront ==
  ASSUME NEW S, NEW s \in Seq(S), s # <<>>
  PROVE  /\ Len(s) \in Nat \ {0} /\ Last(s) = s[Len(s)] /\ Last(s) \in S
         /\ Front(s) \in Seq(S) /\ Len(Front(s)) = Len(s) - 1
         /\ \A i \in 1 .. Len(s) - 1 : Front(s)[i] = s[i]
<1>1. Len(s) \in Nat \ {0}  BY EmptySeq
<1>2. \A i \in 1 .. Len(s) : s[i] \in S  BY ElementOfSeq
<1>3. 1 \in Int /\ Len(s) - 1 \in Int /\ \A i \in 1 .. Len(s) - 1 : s[i] \in S  BY <1>1, <1>2
<1>4. /\ SubSeq(s, 1, Len(s) - 1) \in Seq(S)
      /\ Len(SubSeq(s, 1, Len(s) - 1)) = IF 1 <= Len(s) - 1 THEN (Len(s) - 1) - 1 + 1 ELSE 0
      /\ \A i \in 1 .. (Len(s) - 1) - 1 + 1 : SubSeq(s, 1, Len(s) - 1)[i] = s[1 + i - 1]
  BY <1>3, SubSeqProperties
<1>5. \A i \in 1 .. Len(s) - 1 : i \in 1 .. (Len(s) - 1) - 1 + 1 /\ 1 + i - 1 = i  BY <1>1
<1>6. Len(SubSeq(s, 1, Len(s) - 1)) = Len(s) - 1
  <2>1. \A n \in Nat \ {0} : (IF 1 <= n - 1 THEN (n - 1) - 1 + 1 ELSE 0) = n - 1  OBVIOUS
  <2> QED  BY <1>1, <1>4, <2>1
<1> QED  BY <1>1, <1>2, <1>4, <1>5, <1>6 DEF Last, Front

\* A set of numbers that is not empty has a least one.
LEMMA LeastNumber ==
  ASSUME NEW I, I \subseteq Nat, I # {}
  PROVE  \E m \in I : \A k \in I : m <= k
<1> DEFINE R == OpToRel(<, Nat)
<1>1. IsWellFoundedOn(R, Nat)  BY NatLessThanWellFounded
<1>2. \A k, l \in Nat : k < l => <<k, l>> \in R  BY DEF OpToRel
<1> HIDE DEF R
<1>3. PICK m \in I : \A k \in I : ~ (<<k, m>> \in R)  BY <1>1, WFMin
<1>4. ASSUME NEW k \in I PROVE m <= k
  <2>1. k \in Nat /\ m \in Nat  OBVIOUS
  <2>2. ~ (k < m)  BY <1>2, <1>3, <2>1, Zenon
  <2> QED  BY <2>1, <2>2
<1> QED  BY <1>4

\* What holds of 0 and of the successor of each number it holds of holds of all: the set
\* of those it does not hold of has no least element.
LEMMA NumbersFrom0 ==
  ASSUME NEW H, 0 \in H, \A n \in Nat : n \in H => n + 1 \in H
  PROVE  Nat \subseteq H
<1> DEFINE I == Nat \ H
<1>1. SUFFICES ASSUME I # {} PROVE FALSE  OBVIOUS
<1>2. I \subseteq Nat  OBVIOUS
<1>3. PICK m \in I : \A k \in I : m <= k  BY <1>1, <1>2, LeastNumber
<1>4. m \in Nat /\ m \notin H /\ m # 0  OBVIOUS
<1>5. m - 1 \in Nat /\ m - 1 \notin I  BY <1>3, <1>4
<1>6. m - 1 \in H  BY <1>5
<1>7. (m - 1) + 1 \in H  BY <1>5, <1>6
<1> QED  BY <1>4, <1>7

\* A loop of n rounds over values in A, F being its body, and what it has after each.
Runnable(A, base, n, F) == base \in A /\ n \in Nat /\ F \in [A \X (1 .. n) -> A]
LoopOf(g, A, base, n, F) ==
  g \in [0 .. n -> A] /\ g[0] = base /\ \A k \in 1 .. n : g[k] = F[<<g[k - 1], k>>]

\* Every such loop can be run.
LEMMA LoopRuns ==
  ASSUME NEW A, NEW base, NEW n, NEW F, Runnable(A, base, n, F)
  PROVE  \E g : LoopOf(g, A, base, n, F)
<1>0. base \in A /\ n \in Nat /\ F \in [A \X (1 .. n) -> A]  BY DEF Runnable
<1> DEFINE Runs(m, g) == /\ g \in [0 .. m -> A] /\ g[0] = base
                         /\ \A k \in 1 .. m : g[k] = F[<<g[k - 1], k>>]
           H == {m \in Nat : m <= n => \E g : Runs(m, g)}
<1>1. 0 \in H
  <2> DEFINE f == [k \in 0 .. 0 |-> base]
  <2>1. Runs(0, f)  BY <1>0
  <2> QED  BY <2>1
<1>2. ASSUME NEW m \in Nat, m \in H PROVE m + 1 \in H
  <2>1. SUFFICES ASSUME m + 1 <= n PROVE \E g : Runs(m + 1, g)  OBVIOUS
  <2>2. PICK f : Runs(m, f)
    <3>1. m <= n  BY <1>0, <2>1
    <3> HIDE DEF Runs
    <3> QED  BY <1>2, <3>1
  <2> DEFINE v == F[<<f[m], m + 1>>]
             g == [k \in 0 .. m + 1 |-> IF k = m + 1 THEN v ELSE f[k]]
  <2>3. v \in A
    <3>1. f[m] \in A /\ m + 1 \in 1 .. n  BY <1>0, <2>1, <2>2
    <3> QED  BY <1>0, <3>1
  <2>4. g \in [0 .. m + 1 -> A] /\ g[m + 1] = v /\ \A k \in 0 .. m : g[k] = f[k]  BY <2>2, <2>3
  <2> HIDE DEF g
  <2>5. ASSUME NEW k \in 1 .. m + 1 PROVE g[k] = F[<<g[k - 1], k>>]
    <3>1. CASE k = m + 1
      <4>1. k - 1 = m /\ m \in 0 .. m  BY <3>1
      <4> QED  BY <2>4, <3>1, <4>1
    <3>2. CASE k # m + 1
      <4>1. k \in 1 .. m /\ k \in 0 .. m /\ k - 1 \in 0 .. m  BY <3>2
      <4>2. f[k] = F[<<f[k - 1], k>>]  BY <2>2, <4>1
      <4> QED  BY <2>4, <4>1, <4>2
    <3> QED  BY <3>1, <3>2
  <2>6. g[0] = base  BY <2>2, <2>4
  <2>7. Runs(m + 1, g)  BY <2>4, <2>5, <2>6
  <2> QED  BY <2>7
<1>3. n \in H
  <2> HIDE DEF H
  <2> QED  BY <1>0, <1>1, <1>2, NumbersFrom0
<1>4. PICK g : Runs(n, g)  BY <1>0, <1>3
<1> QED  BY <1>4 DEF LoopOf

\* What the loop has kept after each element.
KeptAfterEach(kept, s, K) ==
  /\ kept[0] = <<>> /\ Selected(s, K) = kept[Len(s)]
  /\ \A k \in 1 .. Len(s) : kept[k] = IF k \in K THEN Append(kept[k - 1], s[k]) ELSE kept[k - 1]

\* The loop is defined, for every sequence.
LEMMA SelectionRuns ==
  ASSUME NEW s, NEW K, Len(s) \in Nat
  PROVE  \E kept : KeptAfterEach(kept, s, K)
<1> DEFINE Body(f, n) ==
             [k \in 0 .. n |->
                IF k = 0 THEN <<>> ELSE IF k \in K THEN Append(f[k - 1], s[k]) ELSE f[k - 1]]
           H == {n \in Nat : \E f : f = Body(f, n)}
<1>1. 0 \in H
  <2> DEFINE f == [k \in 0 .. 0 |-> <<>>]
  <2>1. f = Body(f, 0)  OBVIOUS
  <2> QED  BY <2>1
<1>2. ASSUME NEW n \in Nat, n \in H PROVE n + 1 \in H
  <2>1. PICK f : f = Body(f, n)  BY <1>2
  <2> DEFINE v == IF n + 1 \in K THEN Append(f[n], s[n + 1]) ELSE f[n]
             g == [k \in 0 .. n + 1 |-> IF k = n + 1 THEN v ELSE f[k]]
  <2>2. \A k \in 0 .. n : f[k] = IF k = 0 THEN <<>> ELSE IF k \in K THEN Append(f[k - 1], s[k]) ELSE f[k - 1]
    BY <2>1
  <2>3. \A k \in 0 .. n : g[k] = f[k]  OBVIOUS
  <2>4. g[n + 1] = v  OBVIOUS
  <2> HIDE DEF g
  <2>5. ASSUME NEW k \in 0 .. n + 1
        PROVE  g[k] = IF k = 0 THEN <<>> ELSE IF k \in K THEN Append(g[k - 1], s[k]) ELSE g[k - 1]
    <3>1. CASE k = n + 1
      <4>1. g[k - 1] = f[n] /\ k - 1 = n /\ k # 0  BY <2>3, <3>1
      <4> QED  BY <2>4, <3>1, <4>1
    <3>2. CASE k = 0  BY <2>2, <2>3, <3>2
    <3>3. CASE k # n + 1 /\ k # 0
      <4>1. k \in 0 .. n /\ k - 1 \in 0 .. n  BY <3>3
      <4> QED  BY <2>2, <2>3, <3>3, <4>1
    <3> QED  BY <3>1, <3>2, <3>3
  <2>6. g = [k \in 0 .. n + 1 |-> g[k]]  BY DEF g
  <2>7. g = Body(g, n + 1)
    <3>1. \A k \in 0 .. n + 1 : g[k] = Body(g, n + 1)[k]  BY <2>5
    <3>2. Body(g, n + 1) = [k \in 0 .. n + 1 |-> Body(g, n + 1)[k]]  OBVIOUS
    <3> HIDE DEF Body
    <3> QED  BY <2>6, <3>1, <3>2
  <2>8. n + 1 \in Nat  OBVIOUS
  <2> HIDE DEF Body
  <2> QED  BY <2>7, <2>8
<1>3. Len(s) \in H
  <2> HIDE DEF H
  <2> QED  BY <1>1, <1>2, NumbersFrom0
<1>4. PICK kept : kept = Body(kept, Len(s)) /\ Selected(s, K) = kept[Len(s)]
  <2> DEFINE kept == CHOOSE f : f = Body(f, Len(s))
  <2>1. \E f : f = Body(f, Len(s))  BY <1>3
  <2>2. kept = Body(kept, Len(s))  BY <2>1, Zenon
  <2>3. Selected(s, K) = kept[Len(s)]  BY DEF Selected
  <2> QED  BY <2>2, <2>3
<1>5. \A k \in 0 .. Len(s) :
        kept[k] = IF k = 0 THEN <<>> ELSE IF k \in K THEN Append(kept[k - 1], s[k]) ELSE kept[k - 1]
  BY <1>4
<1>6. 0 \in 0 .. Len(s) /\ \A k \in 1 .. Len(s) : k \in 0 .. Len(s) /\ k # 0  OBVIOUS
<1>7. /\ kept[0] = <<>>
      /\ \A k \in 1 .. Len(s) :
           kept[k] = IF k \in K THEN Append(kept[k - 1], s[k]) ELSE kept[k - 1]
  BY <1>5, <1>6, Zenon
<1> QED  BY <1>4, <1>7, Zenon DEF KeptAfterEach

\* What it keeps: the elements of s at the places of K, each once and in their order.
\* at says where they were.
LEMMA SelectionKeeps ==
  ASSUME NEW S, NEW s \in Seq(S), NEW K
  PROVE  /\ Selected(s, K) \in Seq(S) /\ Len(Selected(s, K)) <= Len(s)
         /\ \E at \in [1 .. Len(Selected(s, K)) -> 1 .. Len(s)] :
              /\ \A i \in 1 .. Len(Selected(s, K)) : at[i] \in K /\ Selected(s, K)[i] = s[at[i]]
              /\ \A i, j \in 1 .. Len(Selected(s, K)) : i < j => at[i] < at[j]
              /\ \A k \in 1 .. Len(s) : k \in K => \E i \in 1 .. Len(Selected(s, K)) : at[i] = k
<1>1. Len(s) \in Nat /\ \A k \in 1 .. Len(s) : s[k] \in S  BY LenProperties, ElementOfSeq
<1>2. PICK kept : /\ kept[0] = <<>> /\ Selected(s, K) = kept[Len(s)]
                  /\ \A k \in 1 .. Len(s) :
                       kept[k] = IF k \in K THEN Append(kept[k - 1], s[k]) ELSE kept[k - 1]
  <2>1. PICK kept : KeptAfterEach(kept, s, K)  BY <1>1, SelectionRuns, Zenon
  <2> QED  BY <2>1, Zenon DEF KeptAfterEach
<1> DEFINE Places(r, at, n) ==
             /\ r \in Seq(S) /\ Len(r) <= n /\ at \in [1 .. Len(r) -> 1 .. n]
             /\ \A i \in 1 .. Len(r) : at[i] \in K /\ r[i] = s[at[i]]
             /\ \A i, j \in 1 .. Len(r) : i < j => at[i] < at[j]
             /\ \A k \in 1 .. n : k \in K => \E i \in 1 .. Len(r) : at[i] = k
           Placed(n) == \E at : Places(kept[n], at, n)
           H == {n \in Nat : n <= Len(s) => Placed(n)}
<1> HIDE DEF Places
<1>3. 0 \in H
  <2> DEFINE at == [i \in 1 .. 0 |-> 1]
  <2>1. <<>> \in Seq(S) /\ Len(<<>>) = 0 /\ at \in [1 .. 0 -> 1 .. 0]  OBVIOUS
  <2>2. Places(<<>>, at, 0)  BY <2>1 DEF Places
  <2> HIDE DEF at
  <2>3. Placed(0)  BY <1>2, <2>2
  <2> QED  BY <2>3
<1>4. ASSUME NEW n \in Nat, n \in H PROVE n + 1 \in H
  <2>1. SUFFICES ASSUME n + 1 <= Len(s) PROVE Placed(n + 1)
    <3>1. n + 1 \in Nat  OBVIOUS
    <3> HIDE DEF Placed
    <3> QED  BY <3>1
  <2>2. PICK r, at : r = kept[n] /\ Places(r, at, n)
    <3>1. n <= Len(s)  BY <1>1, <2>1
    <3> QED  BY <1>4, <3>1
  <2>3. n + 1 \in 1 .. Len(s) /\ (n + 1) - 1 = n /\ Len(r) \in Nat
    BY <1>1, <2>1, <2>2, LenProperties DEF Places
  <2>4. kept[n + 1] = IF n + 1 \in K THEN Append(r, s[n + 1]) ELSE r
    <3>1. kept[n + 1] = IF n + 1 \in K THEN Append(kept[(n + 1) - 1], s[n + 1]) ELSE kept[(n + 1) - 1]
      BY <1>2, <2>3, Zenon
    <3> QED  BY <2>2, <2>3, <3>1, Zenon
  <2>5. CASE n + 1 \in K
    <3> DEFINE q == Append(r, s[n + 1])
               to == [i \in 1 .. Len(r) + 1 |-> IF i = Len(r) + 1 THEN n + 1 ELSE at[i]]
    <3>1. /\ q \in Seq(S) /\ Len(q) = Len(r) + 1 /\ q[Len(r) + 1] = s[n + 1]
          /\ \A i \in 1 .. Len(r) : q[i] = r[i]
      BY <1>1, <2>2, <2>3, AppendProperties DEF Places
    <3>2. /\ to[Len(r) + 1] = n + 1 /\ \A i \in 1 .. Len(r) : to[i] = at[i]
          /\ to \in [1 .. Len(r) + 1 -> 1 .. n + 1] /\ Len(r) + 1 <= n + 1
      BY <2>2, <2>3 DEF Places
    <3> HIDE DEF q, to
    <3>3. Places(q, to, n + 1)
      <4>1. ASSUME NEW i \in 1 .. Len(r) + 1 PROVE to[i] \in K /\ q[i] = s[to[i]]
        <5>1. CASE i = Len(r) + 1  BY <2>5, <3>1, <3>2, <5>1
        <5>2. CASE i \in 1 .. Len(r)  BY <2>2, <3>1, <3>2, <5>2 DEF Places
        <5> QED  BY <2>3, <5>1, <5>2
      <4>2. ASSUME NEW i \in 1 .. Len(r) + 1, NEW j \in 1 .. Len(r) + 1, i < j
            PROVE  to[i] < to[j]
        <5>1. i \in 1 .. Len(r)  BY <2>3, <4>2
        <5>2. to[i] = at[i] /\ at[i] \in 1 .. n  BY <2>2, <3>2, <5>1 DEF Places
        <5>3. CASE j = Len(r) + 1  BY <3>2, <5>2, <5>3
        <5>4. CASE j \in 1 .. Len(r)  BY <2>2, <3>2, <4>2, <5>1, <5>4 DEF Places
        <5> QED  BY <2>3, <5>3, <5>4
      <4>3. ASSUME NEW k \in 1 .. n + 1, k \in K PROVE \E i \in 1 .. Len(r) + 1 : to[i] = k
        <5>1. CASE k = n + 1  BY <2>3, <3>2, <5>1
        <5>2. CASE k \in 1 .. n
          <6>1. PICK i \in 1 .. Len(r) : at[i] = k  BY <2>2, <4>3, <5>2 DEF Places
          <6> QED  BY <2>3, <3>2, <6>1
        <5> QED  BY <5>1, <5>2
      <4> QED  BY <3>1, <3>2, <4>1, <4>2, <4>3 DEF Places
    <3> QED  BY <2>4, <2>5, <3>3 DEF q
  <2>6. CASE n + 1 \notin K
    <3>1. at \in [1 .. Len(r) -> 1 .. n + 1] /\ Len(r) <= n + 1  BY <2>2, <2>3 DEF Places
    <3>2. Places(r, at, n + 1)
      <4>1. ASSUME NEW k \in 1 .. n + 1, k \in K PROVE k \in 1 .. n  BY <2>6, <4>1
      <4> QED  BY <2>2, <3>1, <4>1 DEF Places
    <3> QED  BY <2>4, <2>6, <3>2
  <2> QED  BY <2>5, <2>6
<1>5. Len(s) \in H
  <2> HIDE DEF H
  <2> QED  BY <1>1, <1>3, <1>4, NumbersFrom0
<1>6. PICK at : Places(Selected(s, K), at, Len(s))
  <2>1. Placed(Len(s))  BY <1>1, <1>5
  <2> QED  BY <1>2, <2>1
<1> QED  BY <1>6 DEF Places

\* A longer sequence: what was kept is kept, and then its new element may be.
LEMMA SelectionExtends ==
  ASSUME NEW S, NEW s \in Seq(S), NEW x \in S, NEW K, NEW L,
         \A k \in 1 .. Len(s) : k \in K <=> k \in L
  PROVE  Selected(Append(s, x), L)
           = IF Len(s) + 1 \in L THEN Append(Selected(s, K), x) ELSE Selected(s, K)
<1> DEFINE t == Append(s, x)
           n == Len(s)
<1>1. n \in Nat /\ Len(t) = n + 1 /\ t[n + 1] = x /\ \A k \in 1 .. n : t[k] = s[k]
  BY LenProperties, AppendProperties
<1> HIDE DEF t
<1>2. PICK f : KeptAfterEach(f, s, K)  BY <1>1, SelectionRuns, Zenon
<1>3. PICK g : KeptAfterEach(g, t, L)
  <2>1. Len(t) \in Nat  BY <1>1
  <2> QED  BY <2>1, SelectionRuns, Zenon
<1>4. /\ f[0] = <<>> /\ Selected(s, K) = f[n]
      /\ \A k \in 1 .. n : f[k] = IF k \in K THEN Append(f[k - 1], s[k]) ELSE f[k - 1]
  BY <1>2, Zenon DEF KeptAfterEach
<1>5. /\ g[0] = <<>> /\ Selected(t, L) = g[n + 1]
      /\ \A k \in 1 .. n + 1 : g[k] = IF k \in L THEN Append(g[k - 1], t[k]) ELSE g[k - 1]
  BY <1>1, <1>3 DEF KeptAfterEach
<1> DEFINE H == {k \in Nat : k <= n => f[k] = g[k]}
<1>6. 0 \in H  BY <1>4, <1>5
<1>7. ASSUME NEW k \in Nat, k \in H PROVE k + 1 \in H
  <2>1. SUFFICES ASSUME k + 1 <= n PROVE f[k + 1] = g[k + 1]  OBVIOUS
  <2>2. f[k] = g[k] /\ (k + 1) - 1 = k /\ k + 1 \in 1 .. n /\ k + 1 \in 1 .. n + 1
    BY <1>1, <1>7, <2>1
  <2>3. f[k + 1] = IF k + 1 \in K THEN Append(f[(k + 1) - 1], s[k + 1]) ELSE f[(k + 1) - 1]
    BY <1>4, <2>2, Zenon
  <2>4. g[k + 1] = IF k + 1 \in L THEN Append(g[(k + 1) - 1], t[k + 1]) ELSE g[(k + 1) - 1]
    BY <1>5, <2>2, Zenon
  <2>5. t[k + 1] = s[k + 1] /\ (k + 1 \in K <=> k + 1 \in L)  BY <1>1, <2>2
  <2> QED  BY <2>2, <2>3, <2>4, <2>5, Zenon
<1>8. n \in H
  <2> HIDE DEF H
  <2> QED  BY <1>1, <1>6, <1>7, NumbersFrom0
<1>9. f[n] = g[n]  BY <1>8
<1>10. (n + 1) - 1 = n /\ n + 1 \in 1 .. n + 1  BY <1>1
<1>11. g[n + 1] = IF n + 1 \in L THEN Append(g[(n + 1) - 1], t[n + 1]) ELSE g[(n + 1) - 1]
  BY <1>5, <1>10, Zenon
<1> QED  BY <1>1, <1>4, <1>5, <1>9, <1>10, <1>11 DEF t

\* Three sequences join to one, whichever two are joined first.
JoinAlike(s, t, u) == (s \o t) \o u = s \o (t \o u)

\* It is associative.
LEMMA JoinsAssociate ==
  ASSUME NEW S, NEW s \in Seq(S), NEW t \in Seq(S), NEW u \in Seq(S) PROVE JoinAlike(s, t, u)
BY ConcatAssociative DEF JoinAlike

\* A sequence with an element more, as a function.
LEMMA AppendedTo ==
  ASSUME NEW S, NEW s \in Seq(S), NEW x
  PROVE  /\ Append(s, x) \in Seq(S \cup {x}) /\ Len(Append(s, x)) = Len(s) + 1
         /\ Append(s, x) = [k \in 1 .. Len(s) + 1 |-> IF k = Len(s) + 1 THEN x ELSE s[k]]
<1> DEFINE W == S \cup {x}
           t == Append(s, x)
<1>1. s \in Seq(W) /\ x \in W
  <2>1. S \subseteq W /\ x \in W  OBVIOUS
  <2> HIDE DEF W
  <2> QED  BY <2>1, SeqMonotonic
<1> HIDE DEF W
<1>2. t \in Seq(W) /\ Len(t) = Len(s) + 1 /\ t[Len(s) + 1] = x /\ \A k \in 1 .. Len(s) : t[k] = s[k]
  BY <1>1, AppendProperties
<1> HIDE DEF t
<1>3. DOMAIN t = 1 .. Len(s) + 1 /\ t = [k \in 1 .. Len(s) + 1 |-> t[k]] /\ Len(s) \in Nat
  BY <1>1, <1>2, LenProperties
<1>4. \A k \in 1 .. Len(s) + 1 : t[k] = IF k = Len(s) + 1 THEN x ELSE s[k]
  <2> TAKE k \in 1 .. Len(s) + 1
  <2>1. k = Len(s) + 1 \/ k \in 1 .. Len(s)  BY <1>3
  <2>2. k \in 1 .. Len(s) => k # Len(s) + 1  BY <1>3
  <2> QED  BY <1>2, <2>1, <2>2
<1> QED  BY <1>2, <1>3, <1>4 DEF t, W
-----------------------------------------------------------------------------
(* Iteration, for every number of rounds.                                  *)

\* The first m rounds of an iteration.
IteratesTo(g, A, base, F, m) ==
  g \in [0 .. m -> A] /\ g[0] = base /\ \A k \in Nat : k < m => g[k + 1] = F[g[k]]

\* Any number of rounds can be done.
LEMMA IteratesForLong ==
  ASSUME NEW A, NEW base \in A, NEW F \in [A -> A], NEW m \in Nat
  PROVE  \E g : IteratesTo(g, A, base, F, m)
<1> DEFINE H == {n \in Nat : \E g : IteratesTo(g, A, base, F, n)}
<1>1. 0 \in H
  <2> DEFINE f == [k \in 0 .. 0 |-> base]
  <2>1. IteratesTo(f, A, base, F, 0)  BY DEF IteratesTo
  <2> QED  BY <2>1
<1>2. ASSUME NEW n \in Nat, n \in H PROVE n + 1 \in H
  <2>1. PICK f : IteratesTo(f, A, base, F, n)  BY <1>2
  <2>2. f \in [0 .. n -> A] /\ f[0] = base /\ \A k \in Nat : k < n => f[k + 1] = F[f[k]]
    BY <2>1 DEF IteratesTo
  <2> DEFINE g == [k \in 0 .. n + 1 |-> IF k = n + 1 THEN F[f[n]] ELSE f[k]]
  <2>3. g \in [0 .. n + 1 -> A] /\ g[n + 1] = F[f[n]] /\ \A k \in 0 .. n : g[k] = f[k]
    <3>1. F[f[n]] \in A  BY <2>2
    <3> QED  BY <2>2, <3>1
  <2> HIDE DEF g
  <2>4. ASSUME NEW k \in Nat, k < n + 1 PROVE g[k + 1] = F[g[k]]
    <3>1. CASE k = n  BY <2>3, <3>1
    <3>2. CASE k # n
      <4>1. k < n /\ k \in 0 .. n /\ k + 1 \in 0 .. n  BY <2>4, <3>2
      <4> QED  BY <2>2, <2>3, <4>1
    <3> QED  BY <3>1, <3>2
  <2>5. g[0] = base  BY <2>2, <2>3
  <2>6. IteratesTo(g, A, base, F, n + 1)  BY <2>3, <2>4, <2>5 DEF IteratesTo
  <2> QED  BY <2>6
<1>3. m \in H
  <2> HIDE DEF H
  <2> QED  BY <1>1, <1>2, NumbersFrom0
<1> QED  BY <1>3

\* There is no other way to do them.
LEMMA IteratesOneWay ==
  ASSUME NEW A, NEW base, NEW F, NEW m \in Nat, NEW n \in Nat, m <= n, NEW f, NEW g,
         IteratesTo(f, A, base, F, m), IteratesTo(g, A, base, F, n)
  PROVE  f[m] = g[m]
<1> DEFINE H == {k \in Nat : k <= m => f[k] = g[k]}
<1>1. 0 \in H  BY DEF IteratesTo
<1>2. ASSUME NEW k \in Nat, k \in H PROVE k + 1 \in H
  <2>1. SUFFICES ASSUME k + 1 <= m PROVE f[k + 1] = g[k + 1]  OBVIOUS
  <2>2. k < m /\ k < n /\ k <= m  BY <2>1
  <2>3. f[k + 1] = F[f[k]] /\ g[k + 1] = F[g[k]]  BY <2>2 DEF IteratesTo
  <2> QED  BY <1>2, <2>2, <2>3
<1>3. m \in H
  <2> HIDE DEF H
  <2> QED  BY <1>1, <1>2, NumbersFrom0
<1> QED  BY <1>3

\* All the rounds of an iteration that can be done.
Iterable(A, base, F) == base \in A /\ F \in [A -> A]
Iteration(g, A, base, F) ==
  g \in [Nat -> A] /\ g[0] = base /\ \A k \in Nat : g[k + 1] = F[g[k]]

\* One function has the values of all rounds.
LEMMA IteratesForEver ==
  ASSUME NEW A, NEW base, NEW F, Iterable(A, base, F)
  PROVE  \E g : Iteration(g, A, base, F)
<1> DEFINE run(m) == CHOOSE f : IteratesTo(f, A, base, F, m)
           g == [m \in Nat |-> run(m)[m]]
<1>0. base \in A /\ F \in [A -> A]  BY DEF Iterable
<1>1. \A m \in Nat : IteratesTo(run(m), A, base, F, m)  BY <1>0, IteratesForLong
<1> HIDE DEF run
<1>2. \A m \in Nat : run(m) \in [0 .. m -> A] /\ run(m)[0] = base
                       /\ \A k \in Nat : k < m => run(m)[k + 1] = F[run(m)[k]]
  BY <1>1 DEF IteratesTo
<1>3. g \in [Nat -> A]
  <2>1. \A m \in Nat : m \in 0 .. m  OBVIOUS
  <2> QED  BY <1>2, <2>1
<1>4. g[0] = base  BY <1>2
<1>5. ASSUME NEW k \in Nat PROVE g[k + 1] = F[g[k]]
  <2>1. run(k + 1)[k + 1] = F[run(k + 1)[k]]  BY <1>2
  <2>2. run(k)[k] = run(k + 1)[k]
    <3>1. IteratesTo(run(k), A, base, F, k) /\ IteratesTo(run(k + 1), A, base, F, k + 1)  BY <1>1
    <3> QED  BY <3>1, IteratesOneWay
  <2> QED  BY <2>1, <2>2
<1> HIDE DEF g
<1>6. Iteration(g, A, base, F)  BY <1>3, <1>4, <1>5 DEF Iteration
<1> QED  BY <1>6

-----------------------------------------------------------------------------
(* Numbers *)

\* A product grows with its factor.
LEMMA ProductsGrow ==
  ASSUME NEW a \in Int, NEW b \in Int, NEW d \in Nat, a <= b
  PROVE  a * d <= b * d
<1> DEFINE H == {n \in Nat : a * n <= b * n}
<1>1. 0 \in H  OBVIOUS
<1>2. ASSUME NEW n \in Nat, n \in H PROVE n + 1 \in H
  <2>1. a * (n + 1) = a * n + a /\ b * (n + 1) = b * n + b  OBVIOUS
  <2> QED  BY <1>2, <2>1
<1>3. d \in H
  <2> HIDE DEF H
  <2> QED  BY <1>1, <1>2, NumbersFrom0
<1> QED  BY <1>3

\* The powers of a number, defined by recursion, are what the recursion says.
PowersOf(b, f) == [k \in Nat |-> IF k = 0 THEN 1 ELSE b * f[k - 1]]
PowerTable(b)  == CHOOSE f : f = PowersOf(b, f)

\* The first is 1, and each is the number times the one before.
LEMMA PowersRun ==
  ASSUME NEW b \in Nat \ {0}
  PROVE  LET p == PowerTable(b)
         IN p[0] = 1 /\ \A k \in Nat : p[k] \in Nat \ {0} /\ p[k + 1] = b * p[k]
<1> DEFINE F == [n \in Nat \ {0} |-> b * n]
           p == PowerTable(b)
<1>1. F \in [Nat \ {0} -> Nat \ {0}] /\ \A n \in Nat \ {0} : F[n] = b * n
  <2>1. \A n \in Nat \ {0} : b * n \in Nat \ {0}
    <3> TAKE n \in Nat \ {0}
    <3>1. 1 * n <= b * n  BY ProductsGrow
    <3> QED  BY <3>1
  <2> QED  BY <2>1
<1> HIDE DEF F
<1>2. PICK g \in [Nat -> Nat \ {0}] : g[0] = 1 /\ \A k \in Nat : g[k + 1] = F[g[k]]
  <2>1. Iterable(Nat \ {0}, 1, F)  BY <1>1 DEF Iterable
  <2>2. PICK g : Iteration(g, Nat \ {0}, 1, F)  BY <2>1, IteratesForEver
  <2> QED  BY <2>2 DEF Iteration
<1>3. g = PowersOf(b, g)
  <2>1. ASSUME NEW k \in Nat, k # 0 PROVE g[k] = b * g[k - 1]
    <3>1. k - 1 \in Nat /\ (k - 1) + 1 = k  BY <2>1
    <3>2. g[k] = F[g[k - 1]] /\ g[k - 1] \in Nat \ {0}  BY <1>2, <3>1
    <3> QED  BY <1>1, <3>2
  <2>2. \A k \in Nat : g[k] = IF k = 0 THEN 1 ELSE b * g[k - 1]  BY <1>2, <2>1
  <2>3. g = [k \in Nat |-> g[k]]  BY <1>2
  <2> QED  BY <2>2, <2>3 DEF PowersOf
<1>4. p = PowersOf(b, p)  BY <1>3, Zenon DEF PowerTable
<1> HIDE DEF p
<1> DEFINE H == {k \in Nat : p[k] \in Nat \ {0}}
<1>5. p[0] = 1  BY <1>4 DEF PowersOf
<1>6. \A k \in Nat : p[k + 1] = b * p[k]
  <2>1. \A k \in Nat : k + 1 \in Nat /\ k + 1 # 0 /\ (k + 1) - 1 = k  OBVIOUS
  <2> QED  BY <1>4, <2>1 DEF PowersOf
<1>7. \A k \in Nat : k \in H => k + 1 \in H
  <2> TAKE k \in Nat
  <2>1. SUFFICES ASSUME p[k] \in Nat \ {0} PROVE p[k + 1] \in Nat \ {0}  OBVIOUS
  <2>2. F[p[k]] = p[k + 1]  BY <1>1, <1>6, <2>1
  <2> QED  BY <1>1, <2>1, <2>2
<1>8. Nat \subseteq H
  <2>1. 0 \in H  BY <1>5
  <2> HIDE DEF H
  <2> QED  BY <1>7, <2>1, NumbersFrom0
<1> QED  BY <1>5, <1>6, <1>8 DEF p

\* Quotient and remainder put the dividend together.
LEMMA Divided ==
  ASSUME NEW x \in Int, NEW d \in Nat \ {0}
  PROVE  x \div d \in Int /\ x % d \in 0 .. d - 1 /\ x = (x \div d) * d + (x % d)
OBVIOUS

\* A number in terms of a divisor.
Division(x, d, q, r) == d \in Nat \ {0} /\ q \in Int /\ r \in 0 .. d - 1 /\ x = q * d + r

\* There is one way to divide.
LEMMA DividedOnce ==
  ASSUME NEW x, NEW d, NEW q, NEW r, Division(x, d, q, r)
  PROVE  x \div d = q /\ x % d = r
<1>0. d \in Nat \ {0} /\ q \in Int /\ r \in 0 .. d - 1 /\ x = q * d + r /\ x \in Int /\ r \in Int
  BY DEF Division
<1> DEFINE p == x \div d
           s == x % d
<1>1. p \in Int /\ s \in 0 .. d - 1 /\ x = p * d + s
  <2>1. x \div d \in Int /\ x % d \in 0 .. d - 1 /\ x = (x \div d) * d + (x % d)  BY <1>0
  <2> QED  BY <2>1
<1> HIDE DEF p, s
<1>2. ~ (p + 1 <= q)
  <2>1. SUFFICES ASSUME p + 1 <= q PROVE FALSE  OBVIOUS
  <2>2. (p + 1) * d <= q * d  BY <1>0, <1>1, <2>1, ProductsGrow
  <2>3. (p + 1) * d = p * d + d  BY <1>0, <1>1
  <2> QED  BY <1>0, <1>1, <2>2, <2>3
<1>3. ~ (q + 1 <= p)
  <2>1. SUFFICES ASSUME q + 1 <= p PROVE FALSE  OBVIOUS
  <2>2. (q + 1) * d <= p * d  BY <1>0, <1>1, <2>1, ProductsGrow
  <2>3. (q + 1) * d = q * d + d  BY <1>0
  <2> QED  BY <1>0, <1>1, <2>2, <2>3
<1>4. p = q  BY <1>0, <1>1, <1>2, <1>3
<1> QED  BY <1>0, <1>1, <1>4 DEF p, s
=============================================================================
