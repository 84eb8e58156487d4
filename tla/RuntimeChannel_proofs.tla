------------------------ MODULE RuntimeChannel_proofs ------------------------
(***************************************************************************)
(* Theorems about RuntimeChannel, for every capacity and any number of     *)
(* senders and receivers.                                                  *)
(***************************************************************************)
EXTENDS RuntimeChannel, SequenceLemmas, FiniteSetTheorems, TLAPS

\* The ring holds count messages between head and tail.
ChannelInv ==
  /\ TypeOK
  /\ tail = RingSlot(head, count, Cap)
  /\ RingHolds(data, head, count, Cap, Messages)
-----------------------------------------------------------------------------
\* Accepting a message appends it to the contents of the ring.
LEMMA AcceptStep ==
  ASSUME ChannelInv, NEW s \in Senders, SendAccepted(s)
  PROVE  /\ ChannelInv'
         /\ sending[s] \in Messages
         /\ Contents' = Append(Contents, sending[s])
  <1> USE CapAssumption DEF Slots, Contents
  <1>1. /\ data \in [0 .. Cap - 1 -> Messages \cup {NoMessage}]
        /\ head \in 0 .. Cap - 1 /\ count \in 0 .. Cap - 1
        /\ tail = RingSlot(head, count, Cap) /\ tail \in 0 .. Cap - 1
        /\ RingHolds(data, head, count, Cap, Messages)
        /\ sending[s] \in Messages
    BY DEF ChannelInv, TypeOK, SendAccepted
  <1>2. /\ data' = [data EXCEPT ![RingSlot(head, count, Cap)] = sending[s]]
        /\ head' = head /\ count' = count + 1 /\ tail' = RingNext(tail, Cap)
    BY <1>1 DEF SendAccepted
  <1>3. Contents' = Append(Contents, sending[s])
    <2>1. RingContents(RingStore(data, head, count, Cap, sending[s]),
                       head, count + 1, Cap)
            = Append(RingContents(data, head, count, Cap), sending[s])
      <3>1. RingArray(data, Cap, Messages \cup {NoMessage})
        BY <1>1 DEF RingArray
      <3>2. QED
        BY <3>1, <1>1, ContentsAfterAdd
    <2>2. QED
      BY <2>1, <1>2 DEF RingStore
  <1>4. /\ tail' = RingSlot(head, count + 1, Cap)
        /\ \A k \in 0 .. count - 1 :
             RingSlot(head, k, Cap) # RingSlot(head, count, Cap)
    BY <1>1, <1>2, RingAfterAdd
  <1>5. RingHolds(data', head', count', Cap, Messages)
    <2> SUFFICES ASSUME NEW k \in 0 .. count
                 PROVE  data'[RingSlot(head, k, Cap)] \in Messages
      BY <1>1, <1>2 DEF RingHolds
    <2>1. RingSlot(head, k, Cap) \in 0 .. Cap - 1
      <3>1. k \in 0 .. Cap
        BY <1>1
      <3>2. RingSlot(head, k, Cap)
              = IF head + k < Cap THEN head + k ELSE head + k - Cap
        BY <3>1, <1>1, RingSlotCases
      <3>3. QED
        BY <3>1, <3>2, <1>1
    <2>2. CASE k = count
      BY <2>1, <2>2, <1>1, <1>2
    <2>3. CASE k # count
      <3>1. k \in 0 .. count - 1
        BY <2>3, <1>1
      <3>2. QED
        BY <3>1, <2>1, <1>1, <1>2, <1>4 DEF RingHolds
    <2>4. QED
      BY <2>2, <2>3
  <1>6. TypeOK'
    <2>1. tail' \in 0 .. Cap - 1
      BY <1>1, <1>2, RingNextCases
    <2>2. sent' \in Seq(Messages)
      BY <1>1 DEF ChannelInv, TypeOK, SendAccepted
    <2>3. QED
      BY <2>1, <2>2, <1>1, <1>2 DEF ChannelInv, TypeOK, SendAccepted, Signalled
  <1>7. QED
    BY <1>1, <1>2, <1>3, <1>4, <1>5, <1>6 DEF ChannelInv

\* Taking a message takes the front of the contents of the ring.
LEMMA TakeStep ==
  ASSUME ChannelInv, TakeFront, receiving' \subseteq receiving
  PROVE  /\ ChannelInv'
         /\ Contents # <<>>
         /\ delivered' = Append(delivered, Head(Contents))
         /\ Contents' = Tail(Contents)
  <1> USE CapAssumption DEF Slots, Contents
  <1>1. /\ head \in 0 .. Cap - 1 /\ count \in 1 .. Cap
        /\ RingHolds(data, head, count, Cap, Messages)
    BY DEF ChannelInv, TypeOK, TakeFront
  <1>2. /\ data' = data /\ tail' = tail
        /\ head' = RingNext(head, Cap) /\ count' = count - 1
        /\ delivered' = Append(delivered, data[head])
    BY DEF TakeFront
  <1>3. /\ Contents # <<>> /\ Head(Contents) = data[head]
        /\ Contents' = Tail(Contents)
    <2>1. /\ RingContents(data, head, count, Cap) # <<>>
          /\ Head(RingContents(data, head, count, Cap)) = data[head]
          /\ RingContents(data, RingNext(head, Cap), count - 1, Cap)
               = Tail(RingContents(data, head, count, Cap))
      BY <1>1, ContentsAfterTake
    <2>2. QED
      BY <2>1, <1>2
  <1>4. /\ head' \in 0 .. Cap - 1 /\ RingSlot(head, 0, Cap) = head
        /\ \A k \in 0 .. count - 1 :
             RingSlot(head', k, Cap) = RingSlot(head, k + 1, Cap)
    BY <1>1, <1>2, RingAfterTake
  <1>5. data[head] \in Messages
    BY <1>1, <1>4 DEF RingHolds
  <1>6. TypeOK'
    <2>1. delivered' \in Seq(Messages)
      BY <1>2, <1>5 DEF ChannelInv, TypeOK
    <2>2. QED
      BY <2>1, <1>1, <1>2, <1>4 DEF ChannelInv, TypeOK, TakeFront, Signalled
  <1>7. tail' = RingSlot(head', count', Cap)
    <2>1. count - 1 \in 0 .. count - 1 /\ (count - 1) + 1 = count
      BY <1>1
    <2>2. QED
      BY <2>1, <1>2, <1>4 DEF ChannelInv
  <1>8. RingHolds(data', head', count', Cap, Messages)
    <2> SUFFICES ASSUME NEW k \in 0 .. (count - 1) - 1
                 PROVE  data[RingSlot(head', k, Cap)] \in Messages
      BY <1>2 DEF RingHolds
    <2>1. k \in 0 .. count - 1 /\ k + 1 \in 0 .. count - 1
      BY <1>1
    <2>2. QED
      BY <2>1, <1>1, <1>4 DEF RingHolds
  <1>9. QED
    BY <1>2, <1>3, <1>6, <1>7, <1>8 DEF ChannelInv

\* The other steps touch neither the ring nor what was sent and delivered.
LEMMA OtherStep ==
  ASSUME ChannelInv,
         \/ \E s \in Senders : SendWait(s) \/ \E m \in Messages : SendCall(s, m)
         \/ \E r \in Receivers : RecvWait(r) \/ RecvCall(r)
         \/ SpuriousWakeup \/ UNCHANGED vars
  PROVE  ChannelInv' /\ UNCHANGED <<Contents, sent, delivered>>
  <1> USE DEF ring, waits, history
  <1>1. CASE \E s \in Senders : SendWait(s) \/ \E m \in Messages : SendCall(s, m)
    BY <1>1 DEF ChannelInv, TypeOK, Contents, SendWait, SendCall
  <1>2. CASE \E r \in Receivers : RecvWait(r) \/ RecvCall(r)
    BY <1>2 DEF ChannelInv, TypeOK, Contents, RecvWait, RecvCall
  <1>3. CASE SpuriousWakeup
    BY <1>3 DEF ChannelInv, TypeOK, Contents, SpuriousWakeup
  <1>4. CASE UNCHANGED vars
    BY <1>4 DEF ChannelInv, TypeOK, Contents, vars
  <1>5. QED
    BY <1>1, <1>2, <1>3, <1>4

\* Every step of the channel accepts a message, takes one, or does neither.
LEMMA StepCases ==
  ASSUME ChannelInv, [Next]_vars
  PROVE  /\ ChannelInv'
         /\ \/ \E s \in Senders : /\ sending[s] \in Messages
                                  /\ Contents' = Append(Contents, sending[s])
                                  /\ sent' = Append(sent, sending[s])
                                  /\ delivered' = delivered
                                  /\ count < Cap
            \/ /\ Contents # <<>> /\ Contents' = Tail(Contents)
               /\ delivered' = Append(delivered, Head(Contents))
               /\ sent' = sent
            \/ UNCHANGED <<Contents, sent, delivered>>
  <1>1. ASSUME NEW s \in Senders, SendAccepted(s)
        PROVE  /\ ChannelInv' /\ sending[s] \in Messages
               /\ Contents' = Append(Contents, sending[s])
               /\ sent' = Append(sent, sending[s]) /\ delivered' = delivered
               /\ count < Cap
    BY <1>1, AcceptStep DEF SendAccepted
  <1>2. CASE TryRecv \/ \E r \in Receivers : RecvTaken(r)
    <2>1. TakeFront /\ receiving' \subseteq receiving
      BY <1>2 DEF TryRecv, RecvTaken
    <2>2. sent' = sent
      BY <2>1 DEF TakeFront
    <2>3. QED
      BY <2>1, <2>2, TakeStep
  <1>3. CASE \/ \E s \in Senders : SendWait(s) \/ \E m \in Messages : SendCall(s, m)
             \/ \E r \in Receivers : RecvWait(r) \/ RecvCall(r)
             \/ SpuriousWakeup \/ UNCHANGED vars
    BY <1>3, OtherStep
  <1>4. QED
    BY <1>1, <1>2, <1>3 DEF Next, SenderStep, ReceiverStep

\* A new channel is empty.
LEMMA InitEstablishes == Init => ChannelInv /\ Contents = <<>>
  <1> SUFFICES ASSUME Init PROVE ChannelInv /\ Contents = <<>>
    OBVIOUS
  <1> USE CapAssumption DEF Init, Slots
  <1>1. RingSlot(head, count, Cap) = 0
    BY RingSlotCases
  <1>2. RingHolds(data, head, count, Cap, Messages)
    BY DEF RingHolds
  <1>3. TypeOK
    BY DEF TypeOK
  <1>4. Contents = <<>>
    BY DEF Contents, RingContents
  <1>5. QED
    BY <1>1, <1>2, <1>3, <1>4 DEF ChannelInv
-----------------------------------------------------------------------------
\* The invariant of the ring holds throughout.
THEOREM ChannelInvariant == Spec => []ChannelInv
  <1>1. ChannelInv /\ [Next]_vars => ChannelInv'
    BY StepCases
  <1>2. QED
    BY <1>1, InitEstablishes, PTL DEF Spec

\* The indices of the ring stay inside the array, the count never passes the
\* capacity, and every variable stays in its range.
THEOREM TypeCorrect == Spec => []TypeOK
  <1>1. ChannelInv => TypeOK
    BY DEF ChannelInv
  <1>2. QED
    BY <1>1, ChannelInvariant, PTL

\* The channel is a bounded FIFO: the refinement, step by step.
THEOREM ChannelIsAFifo == Spec => ImplementsFifo
  <1>1. Init => Fifo!Init
    BY InitEstablishes DEF Init, Fifo!Init
  <1>2. ChannelInv /\ [Next]_vars => [Fifo!Next]_Fifo!fifoVars
    <2> SUFFICES ASSUME ChannelInv, [Next]_vars
                 PROVE  [Fifo!Next]_Fifo!fifoVars
      OBVIOUS
    <2>1. Len(Contents) = count
      BY ContentsIsASequence, CapAssumption DEF ChannelInv, TypeOK, Contents, Slots
    <2>2. QED
      BY <2>1, StepCases
         DEF Fifo!Next, Fifo!Send, Fifo!Receive, Fifo!fifoVars
  <1>3. QED
    BY <1>1, <1>2, ChannelInvariant, PTL DEF Spec, ImplementsFifo, Fifo!Spec

\* What was sent is what was delivered followed by what still waits: no
\* message is lost, duplicated or overtaken.
THEOREM ChannelKeepsOrder == Spec => []FirstInFirstOut
  <1>1. Init => FirstInFirstOut
    BY InitEstablishes DEF Init, FirstInFirstOut
  <1>2. ChannelInv /\ FirstInFirstOut /\ [Next]_vars => FirstInFirstOut'
    <2> SUFFICES ASSUME ChannelInv, FirstInFirstOut, [Next]_vars
                 PROVE  FirstInFirstOut'
      OBVIOUS
    <2>1. /\ Contents \in Seq(Messages) /\ delivered \in Seq(Messages)
          /\ sent = delivered \o Contents
      BY ContentsIsASequence, CapAssumption
         DEF ChannelInv, TypeOK, Contents, Slots, FirstInFirstOut
    <2>2. \A m \in Messages : Append(delivered \o Contents, m)
                                = delivered \o Append(Contents, m)
      <3> TAKE m \in Messages
      <3>1. /\ delivered \o Contents \in Seq(Messages) /\ <<m>> \in Seq(Messages)
            /\ Append(delivered \o Contents, m) = (delivered \o Contents) \o <<m>>
            /\ Append(Contents, m) = Contents \o <<m>>
        BY <2>1, ConcatProperties, AppendIsConcat
      <3>2. (delivered \o Contents) \o <<m>> = delivered \o (Contents \o <<m>>)
        BY <2>1, <3>1, ConcatAssociative
      <3>3. QED
        BY <3>1, <3>2
    <2>3. Contents # <<>> => Append(delivered, Head(Contents)) \o Tail(Contents)
                               = delivered \o Contents
      BY <2>1
    <2>4. QED
      BY <2>1, <2>2, <2>3, StepCases DEF FirstInFirstOut
  <1>3. QED
    BY <1>1, <1>2, ChannelInvariant, PTL DEF Spec
-----------------------------------------------------------------------------
(* Sleepers *)

Asking == {s \in Senders : sending[s] # NoMessage}

\* Only a thread inside a call sleeps.
WakeInv ==
  /\ ChannelInv
  /\ waitRecv \subseteq receiving /\ waitSend \subseteq Asking
  /\ NoWakeupIsLost

\* How many are awake when someone enters, falls asleep, is woken or leaves.
LEMMA AwakeCount ==
  ASSUME NEW S, NEW T, IsFiniteSet(S), T \subseteq S
  PROVE  /\ Awake(S, T) \in Nat
         /\ \A x : IsFiniteSet(S \cup {x}) /\ (x \notin S => Awake(S \cup {x}, T) >= Awake(S, T))
         /\ \A x \in T : Awake(S, T \ {x}) = Awake(S, T) + 1
         /\ \A x \in S \ T : Awake(S \ {x}, T) = Awake(S, T) - 1
<1>1. IsFiniteSet(S \ T) /\ Cardinality(S \ T) \in Nat  BY FS_Subset, FS_CardinalityType
<1>2. ASSUME NEW x
      PROVE  IsFiniteSet(S \cup {x}) /\ (x \notin S => Awake(S \cup {x}, T) >= Awake(S, T))
  <2>1. IsFiniteSet(S \cup {x})  BY FS_AddElement
  <2>2. ASSUME x \notin S PROVE Awake(S \cup {x}, T) >= Awake(S, T)
    <3>1. (S \cup {x}) \ T = (S \ T) \cup {x}  BY <2>2
    <3>2. Cardinality((S \ T) \cup {x}) = Cardinality(S \ T) + 1  BY <2>2, <1>1, FS_AddElement
    <3>3. Cardinality((S \cup {x}) \ T) = Cardinality(S \ T) + 1  BY <3>1, <3>2
    <3>4. Awake(S \cup {x}, T) = Awake(S, T) + 1  BY <3>3 DEF Awake
    <3>5. Awake(S, T) \in Nat  BY <1>1 DEF Awake
    <3> QED  BY <3>4, <3>5
  <2> QED  BY <2>1, <2>2
<1>3. ASSUME NEW x \in T PROVE Awake(S, T \ {x}) = Awake(S, T) + 1
  <2>1. S \ (T \ {x}) = (S \ T) \cup {x}  OBVIOUS
  <2>2. Cardinality((S \ T) \cup {x}) = Cardinality(S \ T) + 1  BY <1>1, FS_AddElement
  <2> QED  BY <2>1, <2>2 DEF Awake
<1>4. ASSUME NEW x \in S \ T PROVE Awake(S \ {x}, T) = Awake(S, T) - 1
  <2>1. (S \ {x}) \ T = (S \ T) \ {x}  OBVIOUS
  <2>2. Cardinality((S \ T) \ {x}) = Cardinality(S \ T) - 1  BY <1>1, FS_RemoveElement
  <2> QED  BY <2>1, <2>2 DEF Awake
<1> QED  BY <1>1, <1>2, <1>3, <1>4 DEF Awake

\* Both groups of threads are finite.
LEMMA ThreadsAreFinite ==
  ASSUME ChannelInv
  PROVE  /\ IsFiniteSet(receiving) /\ IsFiniteSet(Asking)
         /\ count \in Nat /\ Cap \in Nat /\ count <= Cap
<1>1. receiving \subseteq Receivers /\ Asking \subseteq Senders /\ count \in 0 .. Cap
  BY DEF ChannelInv, TypeOK, Asking
<1> QED  BY <1>1, CapAssumption, ThreadsAssumption, FS_Subset

\* A signal on a condition variable raises the number of those awake by one, unless
\* nobody sleeps.
LEMMA SignalWakesOne ==
  ASSUME NEW S, NEW T, NEW U, IsFiniteSet(S), T \subseteq S, Signalled(T, U)
  PROVE  /\ U \subseteq T
         /\ U # {} => T # {} /\ Awake(S, U) = Awake(S, T) + 1
<1>1. CASE T = {}  BY <1>1 DEF Signalled
<1>2. CASE T # {}
  <2>1. PICK t \in T : U = T \ {t}  BY <1>2 DEF Signalled
  <2> QED  BY <2>1, <1>2, AwakeCount
<1> QED  BY <1>1, <1>2

\* The two halves of the invariant, for receivers and messages and for senders and
\* free slots.
ReceiversAreWoken == waitRecv # {} => Awake(receiving, waitRecv) >= count
SendersAreWoken   == waitSend # {} => Awake(Asking, waitSend) >= Cap - count

\* Accepting a message takes a sender and a free slot away, adds a message and wakes
\* a receiver.
LEMMA AcceptWakes ==
  ASSUME WakeInv, NEW s \in Senders, SendAccepted(s)  PROVE WakeInv'
<1>1. /\ ChannelInv /\ ChannelInv' /\ ReceiversAreWoken /\ SendersAreWoken
      /\ IsFiniteSet(receiving) /\ IsFiniteSet(Asking)
      /\ waitRecv \subseteq receiving /\ waitSend \subseteq Asking
      /\ count \in Nat /\ Cap \in Nat
  BY AcceptStep, ThreadsAreFinite
     DEF WakeInv, NoWakeupIsLost, ReceiversAreWoken, SendersAreWoken, Asking
<1>2. /\ Signalled(waitRecv, waitRecv') /\ s \in Asking \ waitSend
      /\ count' = count + 1 /\ UNCHANGED <<waitSend, receiving>>
  BY DEF SendAccepted, Asking
<1>3. Asking' = Asking \ {s}
  <2>1. sending \in [Senders -> Messages \cup {NoMessage}]  BY <1>1 DEF ChannelInv, TypeOK
  <2> QED  BY <2>1 DEF SendAccepted, Asking
<1>4. waitRecv' \subseteq receiving' /\ waitSend' \subseteq Asking'
  BY <1>1, <1>2, <1>3, SignalWakesOne
<1>5. ReceiversAreWoken'
  <2> SUFFICES ASSUME waitRecv' # {} PROVE Awake(receiving, waitRecv') >= count + 1
    BY <1>2 DEF ReceiversAreWoken, Awake
  <2>1. waitRecv # {} /\ Awake(receiving, waitRecv') = Awake(receiving, waitRecv) + 1
    BY <1>1, <1>2, SignalWakesOne
  <2>2. Awake(receiving, waitRecv) \in Nat  BY <1>1, AwakeCount
  <2> QED  BY <2>1, <2>2, <1>1 DEF ReceiversAreWoken
<1>6. SendersAreWoken'
  <2>1. Awake(Asking \ {s}, waitSend) = Awake(Asking, waitSend) - 1
        /\ Awake(Asking, waitSend) \in Nat
    BY <1>1, <1>2, AwakeCount
  <2>2. Awake(Asking', waitSend') = Awake(Asking, waitSend) - 1
    BY <2>1, <1>2, <1>3 DEF Awake
  <2> QED  BY <2>1, <2>2, <1>1, <1>2 DEF SendersAreWoken, Awake
<1> QED  BY <1>1, <1>4, <1>5, <1>6 DEF WakeInv, NoWakeupIsLost, ReceiversAreWoken,
                                       SendersAreWoken, Asking

\* Taking one takes a message away, perhaps with its receiver, adds a free slot and
\* wakes a sender.
LEMMA TakeWakes ==
  ASSUME WakeInv, TryRecv \/ \E r \in Receivers : RecvTaken(r)  PROVE WakeInv'
<1>1. /\ ChannelInv /\ ReceiversAreWoken /\ SendersAreWoken
      /\ IsFiniteSet(receiving) /\ IsFiniteSet(Asking)
      /\ waitRecv \subseteq receiving /\ waitSend \subseteq Asking
      /\ count \in Nat /\ Cap \in Nat
  BY ThreadsAreFinite DEF WakeInv, NoWakeupIsLost, ReceiversAreWoken, SendersAreWoken, Asking
<1>2. /\ Signalled(waitSend, waitSend') /\ count' = count - 1
      /\ UNCHANGED <<waitRecv, sending>>
      /\ \/ receiving' = receiving
         \/ \E r \in receiving \ waitRecv : receiving' = receiving \ {r}
  BY DEF TryRecv, RecvTaken, TakeFront
<1>3. ChannelInv'
  BY <1>1, <1>2, TakeStep DEF TryRecv, RecvTaken
<1>4. Asking' = Asking  BY <1>2 DEF Asking
<1>5. waitRecv' \subseteq receiving' /\ waitSend' \subseteq Asking'
  BY <1>1, <1>2, <1>4, SignalWakesOne
<1>6. ReceiversAreWoken'
  <2>1. Awake(receiving, waitRecv) \in Nat  BY <1>1, AwakeCount
  <2>2. Awake(receiving', waitRecv) >= Awake(receiving, waitRecv) - 1
    <3>1. CASE receiving' = receiving  BY <3>1, <2>1 DEF Awake
    <3>2. CASE \E r \in receiving \ waitRecv : receiving' = receiving \ {r}
      <4>1. PICK r \in receiving \ waitRecv : receiving' = receiving \ {r}  BY <3>2
      <4>2. Awake(receiving \ {r}, waitRecv) = Awake(receiving, waitRecv) - 1
        BY <1>1, AwakeCount
      <4> QED  BY <4>1, <4>2, <2>1
    <3> QED  BY <1>2, <3>1, <3>2
  <2>3. Awake(receiving', waitRecv) \in Nat
    <3>1. IsFiniteSet(receiving')  BY <1>1, <1>2, FS_Subset
    <3> QED  BY <3>1, <1>2, <1>5, AwakeCount
  <2> QED  BY <2>1, <2>2, <2>3, <1>1, <1>2 DEF ReceiversAreWoken, Awake
<1>7. SendersAreWoken'
  <2> SUFFICES ASSUME waitSend' # {} PROVE Awake(Asking, waitSend') >= Cap - (count - 1)
    BY <1>2, <1>4 DEF SendersAreWoken, Awake
  <2>1. waitSend # {} /\ Awake(Asking, waitSend') = Awake(Asking, waitSend) + 1
    BY <1>1, <1>2, SignalWakesOne
  <2>2. Awake(Asking, waitSend) \in Nat  BY <1>1, AwakeCount
  <2> QED  BY <2>1, <2>2, <1>1 DEF SendersAreWoken
<1> QED  BY <1>3, <1>5, <1>6, <1>7 DEF WakeInv, NoWakeupIsLost, ReceiversAreWoken,
                                       SendersAreWoken, Asking

\* Entering a call and waking without a signal only add to those awake, and nobody
\* goes to sleep while there is something to do.
LEMMA OthersWake ==
  ASSUME WakeInv,
         \/ \E s \in Senders : SendWait(s) \/ \E m \in Messages : SendCall(s, m)
         \/ \E r \in Receivers : RecvWait(r) \/ RecvCall(r)
         \/ SpuriousWakeup \/ UNCHANGED vars
  PROVE  WakeInv'
<1>1. /\ ChannelInv /\ ReceiversAreWoken /\ SendersAreWoken
      /\ IsFiniteSet(receiving) /\ IsFiniteSet(Asking)
      /\ waitRecv \subseteq receiving /\ waitSend \subseteq Asking
      /\ count \in Nat /\ Cap \in Nat
  BY ThreadsAreFinite DEF WakeInv, NoWakeupIsLost, ReceiversAreWoken, SendersAreWoken, Asking
<1>2. ChannelInv' /\ count' = count
  BY <1>1, OtherStep DEF SendWait, SendCall, RecvWait, RecvCall, SpuriousWakeup, ring, vars
<1>3. /\ Awake(receiving, waitRecv) \in Nat /\ Awake(Asking, waitSend) \in Nat
      /\ \A x : Awake(receiving \cup {x}, waitRecv) \in Nat
                /\ (x \notin receiving =>
                      Awake(receiving \cup {x}, waitRecv) >= Awake(receiving, waitRecv))
      /\ \A x : Awake(Asking \cup {x}, waitSend) \in Nat
                /\ (x \notin Asking =>
                      Awake(Asking \cup {x}, waitSend) >= Awake(Asking, waitSend))
      /\ \A x \in waitRecv : Awake(receiving, waitRecv \ {x}) = Awake(receiving, waitRecv) + 1
      /\ \A x \in waitSend : Awake(Asking, waitSend \ {x}) = Awake(Asking, waitSend) + 1
  <2>1. \A x : /\ IsFiniteSet(receiving \cup {x}) /\ waitRecv \subseteq receiving \cup {x}
               /\ IsFiniteSet(Asking \cup {x}) /\ waitSend \subseteq Asking \cup {x}
    BY <1>1, AwakeCount
  <2>2. \A x : /\ Awake(receiving \cup {x}, waitRecv) \in Nat
               /\ Awake(Asking \cup {x}, waitSend) \in Nat
    BY <2>1, AwakeCount
  <2> QED  BY <1>1, <2>2, AwakeCount
<1>4. \/ /\ UNCHANGED <<sending, waitSend>>
         /\ \/ \E r \in receiving : count = 0 /\ waitRecv' = waitRecv \cup {r} /\ receiving' = receiving
            \/ \E r : r \notin receiving /\ receiving' = receiving \cup {r} /\ waitRecv' = waitRecv
            \/ \E r \in waitRecv : waitRecv' = waitRecv \ {r} /\ receiving' = receiving
            \/ UNCHANGED <<receiving, waitRecv>>
      \/ /\ UNCHANGED <<receiving, waitRecv>>
         /\ \/ \E s \in Asking : count >= Cap /\ waitSend' = waitSend \cup {s} /\ Asking' = Asking
            \/ \E s : s \notin Asking /\ Asking' = Asking \cup {s} /\ waitSend' = waitSend
            \/ \E s \in waitSend : waitSend' = waitSend \ {s} /\ Asking' = Asking
  <2>1. ASSUME NEW s \in Senders, SendWait(s)
        PROVE  /\ UNCHANGED <<receiving, waitRecv>> /\ s \in Asking /\ count >= Cap
               /\ waitSend' = waitSend \cup {s} /\ Asking' = Asking
    BY <2>1 DEF SendWait, Asking
  <2>2. ASSUME NEW s \in Senders, NEW m \in Messages, SendCall(s, m)
        PROVE  /\ UNCHANGED <<receiving, waitRecv>> /\ s \notin Asking
               /\ waitSend' = waitSend /\ Asking' = Asking \cup {s}
    <3>1. \A x \in Senders : sending'[x] = IF x = s THEN m ELSE sending[x]
      BY <2>2, <1>1 DEF SendCall, ChannelInv, TypeOK
    <3>2. m # NoMessage  BY NoMessageAssumption
    <3> QED  BY <2>2, <3>1, <3>2 DEF SendCall, Asking, waits
  <2>3. ASSUME NEW r \in Receivers, RecvWait(r) \/ RecvCall(r)
        PROVE  /\ UNCHANGED <<sending, waitSend>>
               /\ \/ r \in receiving /\ count = 0 /\ waitRecv' = waitRecv \cup {r} /\ receiving' = receiving
                  \/ r \notin receiving /\ receiving' = receiving \cup {r} /\ waitRecv' = waitRecv
    BY <2>3 DEF RecvWait, RecvCall, waits
  <2>4. CASE SpuriousWakeup  BY <2>4 DEF SpuriousWakeup, Asking
  <2>5. CASE UNCHANGED vars  BY <2>5 DEF vars, waits
  <2> QED  BY <2>1, <2>2, <2>3, <2>4, <2>5
<1>5. waitRecv' \subseteq receiving' /\ waitSend' \subseteq Asking'
  BY <1>1, <1>4 DEF Asking
<1>6. ReceiversAreWoken' /\ SendersAreWoken'
  <2>1. CASE /\ UNCHANGED <<sending, waitSend>>
             /\ \/ \E r \in receiving : count = 0 /\ waitRecv' = waitRecv \cup {r} /\ receiving' = receiving
                \/ \E r : r \notin receiving /\ receiving' = receiving \cup {r} /\ waitRecv' = waitRecv
                \/ \E r \in waitRecv : waitRecv' = waitRecv \ {r} /\ receiving' = receiving
                \/ UNCHANGED <<receiving, waitRecv>>
    <3>1. SendersAreWoken'  BY <2>1, <1>1, <1>2 DEF SendersAreWoken, Asking, Awake
    <3>2. ASSUME count = 0 PROVE ReceiversAreWoken'
      <4>1. IsFiniteSet(receiving')
        <5>1. ChannelInv' => receiving' \subseteq Receivers  BY DEF ChannelInv, TypeOK
        <5> QED  BY <5>1, <1>2, ThreadsAssumption, FS_Subset
      <4>2. Awake(receiving', waitRecv') \in Nat  BY <4>1, <1>5, AwakeCount
      <4> QED  BY <3>2, <4>2, <1>2 DEF ReceiversAreWoken, Awake
    <3>3. ASSUME NEW r, r \notin receiving, receiving' = receiving \cup {r}, waitRecv' = waitRecv
          PROVE  ReceiversAreWoken'
      <4>1. Awake(receiving', waitRecv') = Awake(receiving \cup {r}, waitRecv)
        BY <3>3
      <4> QED  BY <4>1, <3>3, <1>1, <1>2, <1>3 DEF ReceiversAreWoken
    <3>4. ASSUME NEW r \in waitRecv, waitRecv' = waitRecv \ {r}, receiving' = receiving
          PROVE  ReceiversAreWoken'
      <4>1. Awake(receiving', waitRecv') = Awake(receiving, waitRecv \ {r})
        BY <3>4
      <4> QED  BY <4>1, <3>4, <1>1, <1>2, <1>3 DEF ReceiversAreWoken
    <3>5. CASE UNCHANGED <<receiving, waitRecv>>
      BY <3>1, <3>5, <1>1, <1>2 DEF ReceiversAreWoken, Awake
    <3> QED  BY <2>1, <3>1, <3>2, <3>3, <3>4, <3>5
  <2>2. CASE /\ UNCHANGED <<receiving, waitRecv>>
             /\ \/ \E s \in Asking : count >= Cap /\ waitSend' = waitSend \cup {s} /\ Asking' = Asking
                \/ \E s : s \notin Asking /\ Asking' = Asking \cup {s} /\ waitSend' = waitSend
                \/ \E s \in waitSend : waitSend' = waitSend \ {s} /\ Asking' = Asking
    <3>1. ReceiversAreWoken'  BY <2>2, <1>1, <1>2 DEF ReceiversAreWoken, Awake
    <3>2. ASSUME count >= Cap, Asking' = Asking PROVE SendersAreWoken'
      <4>1. Awake(Asking', waitSend') \in Nat
        <5>1. IsFiniteSet(Asking')  BY <3>2, <1>1
        <5> QED  BY <5>1, <1>5, AwakeCount
      <4> QED  BY <3>2, <4>1, <1>1, <1>2 DEF SendersAreWoken
    <3>3. ASSUME NEW s, s \notin Asking, Asking' = Asking \cup {s}, waitSend' = waitSend
          PROVE  SendersAreWoken'
      <4>1. Awake(Asking', waitSend') = Awake(Asking \cup {s}, waitSend)
        BY <3>3
      <4> QED  BY <4>1, <3>3, <1>1, <1>2, <1>3 DEF SendersAreWoken
    <3>4. ASSUME NEW s \in waitSend, waitSend' = waitSend \ {s}, Asking' = Asking
          PROVE  SendersAreWoken'
      <4>1. Awake(Asking', waitSend') = Awake(Asking, waitSend \ {s})
        BY <3>4
      <4> QED  BY <4>1, <3>4, <1>1, <1>2, <1>3 DEF SendersAreWoken
    <3> QED  BY <2>2, <3>1, <3>2, <3>3, <3>4
  <2> QED  BY <1>4, <2>1, <2>2
<1> QED  BY <1>2, <1>5, <1>6 DEF WakeInv, NoWakeupIsLost, ReceiversAreWoken,
                                 SendersAreWoken, Asking

\* No wakeup of the channel is lost, for every capacity and any finite number of
\* senders and receivers.
THEOREM ChannelLosesNoWakeup == Spec => []NoWakeupIsLost
<1>1. Init => WakeInv
  <2> SUFFICES ASSUME Init PROVE WakeInv  OBVIOUS
  <2>1. ChannelInv  BY InitEstablishes
  <2> QED  BY <2>1 DEF Init, WakeInv, NoWakeupIsLost
<1>2. WakeInv /\ [Next]_vars => WakeInv'
  BY AcceptWakes, TakeWakes, OthersWake DEF Next, SenderStep, ReceiverStep
<1>3. WakeInv => NoWakeupIsLost  BY DEF WakeInv
<1> QED  BY <1>1, <1>2, <1>3, PTL DEF Spec
=============================================================================
