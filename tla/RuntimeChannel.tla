--------------------------- MODULE RuntimeChannel ---------------------------
(***************************************************************************)
(* The MPSC channel of the C runtime (xiom_channel_create, _send, _recv,   *)
(* _try_recv): a ring of Cap slots under one mutex, with one condition     *)
(* variable for senders and one for receivers.  An action is one critical  *)
(* section, up to the unlock or to the wait that gives the mutex up.       *)
(*                                                                         *)
(* Nothing in the runtime sets ch->closed after the memset that clears it, *)
(* so its tests are always false and are left out.                         *)
(***************************************************************************)
EXTENDS RingOps, FiniteSets

CONSTANTS
  Senders, Receivers,
  Messages,   \* the values sent; each is sent at most once
  Cap,        \* XIOM_CHANNEL_CAP, 64 in C
  NoMessage   \* an empty slot, and the value of a sender that sends nothing

ASSUME CapAssumption       == Cap \in Nat \ {0}
ASSUME ThreadsAssumption   == IsFiniteSet(Senders) /\ IsFiniteSet(Receivers)
ASSUME NoMessageAssumption == NoMessage \notin Messages

VARIABLES
  data, head, tail, count,  \* the ring
  waitSend, waitRecv,       \* threads blocked on cond_send and on cond_recv
  sending,                  \* the message of a sender inside send, or NoMessage
  receiving,                \* the receivers inside recv
  asked, sent, delivered    \* history: messages given to send, in the order
                            \* accepted, in the order taken

ring    == <<data, head, tail, count>>
waits   == <<waitSend, waitRecv>>
history == <<asked, sent, delivered>>
vars    == <<ring, waits, sending, receiving, history>>

Slots    == 0 .. Cap - 1
Contents == RingContents(data, head, count, Cap)

\* xiom_cond_signal: one of the waiters goes on, if there is one.
Signalled(S, T) == IF S = {} THEN T = S ELSE \E t \in S : T = S \ {t}
-----------------------------------------------------------------------------
(* Faulty variants of the actions below, each a slip this code could have. *)
(* They are in no specification; the properties are tested against them.   *)

\* `if` for `while`: a woken sender does not look at the count again.
FaultySendUnchecked(s) ==
  /\ sending[s] # NoMessage /\ s \notin waitSend
  /\ data' = [data EXCEPT ![tail] = sending[s]]
  /\ tail' = RingNext(tail, Cap)
  /\ count' = count + 1
  /\ Signalled(waitRecv, waitRecv')
  /\ sending' = [sending EXCEPT ![s] = NoMessage]
  /\ sent' = Append(sent, sending[s])
  /\ UNCHANGED <<head, waitSend, receiving, asked, delivered>>

\* The new message is announced only when the ring was empty.
FaultySendSignalsFirst(s) ==
  /\ sending[s] # NoMessage /\ s \notin waitSend
  /\ count < Cap
  /\ data' = [data EXCEPT ![tail] = sending[s]]
  /\ tail' = RingNext(tail, Cap)
  /\ count' = count + 1
  /\ IF count = 0 THEN Signalled(waitRecv, waitRecv') ELSE UNCHANGED waitRecv
  /\ sending' = [sending EXCEPT ![s] = NoMessage]
  /\ sent' = Append(sent, sending[s])
  /\ UNCHANGED <<head, waitSend, receiving, asked, delivered>>

\* A message polled with try_recv frees a slot without telling a sender.
FaultyTryRecv ==
  /\ count > 0
  /\ delivered' = Append(delivered, data[head])
  /\ head' = RingNext(head, Cap)
  /\ count' = count - 1
  /\ UNCHANGED <<data, tail, waits, sending, receiving, asked, sent>>

\* The read position does not wrap.
FaultyRecvNoWrap(r) ==
  /\ r \in receiving /\ r \notin waitRecv
  /\ count > 0
  /\ delivered' = Append(delivered, data[head])
  /\ head' = IF head + 1 < Cap THEN head + 1 ELSE head
  /\ count' = count - 1
  /\ receiving' = receiving \ {r}
  /\ Signalled(waitSend, waitSend')
  /\ UNCHANGED <<data, tail, waitRecv, sending, asked, sent>>
-----------------------------------------------------------------------------
\* xiom_channel_create
Init ==
  /\ data = [i \in Slots |-> NoMessage]
  /\ head = 0 /\ tail = 0 /\ count = 0
  /\ waitSend = {} /\ waitRecv = {}
  /\ sending = [s \in Senders |-> NoMessage]
  /\ receiving = {}
  /\ asked = {} /\ sent = <<>> /\ delivered = <<>>
-----------------------------------------------------------------------------
(* xiom_channel_send *)

SendCall(s, m) ==
  /\ sending[s] = NoMessage
  /\ m \notin asked
  /\ sending' = [sending EXCEPT ![s] = m]
  /\ asked' = asked \cup {m}
  /\ UNCHANGED <<ring, waits, receiving, sent, delivered>>

SendWait(s) ==
  /\ sending[s] # NoMessage /\ s \notin waitSend
  /\ count >= Cap
  /\ waitSend' = waitSend \cup {s}
  /\ UNCHANGED <<ring, waitRecv, sending, receiving, history>>

SendAccepted(s) ==
  /\ sending[s] # NoMessage /\ s \notin waitSend
  /\ count < Cap
  /\ data' = [data EXCEPT ![tail] = sending[s]]
  /\ tail' = RingNext(tail, Cap)
  /\ count' = count + 1
  /\ Signalled(waitRecv, waitRecv')
  /\ sending' = [sending EXCEPT ![s] = NoMessage]
  /\ sent' = Append(sent, sending[s])
  /\ UNCHANGED <<head, waitSend, receiving, asked, delivered>>
-----------------------------------------------------------------------------
(* xiom_channel_recv and xiom_channel_try_recv *)

RecvCall(r) ==
  /\ r \notin receiving
  /\ receiving' = receiving \cup {r}
  /\ UNCHANGED <<ring, waits, sending, history>>

RecvWait(r) ==
  /\ r \in receiving /\ r \notin waitRecv
  /\ count = 0
  /\ waitRecv' = waitRecv \cup {r}
  /\ UNCHANGED <<ring, waitSend, sending, receiving, history>>

\* Take the front message and tell one blocked sender.
TakeFront ==
  /\ count > 0
  /\ delivered' = Append(delivered, data[head])
  /\ head' = RingNext(head, Cap)
  /\ count' = count - 1
  /\ Signalled(waitSend, waitSend')
  /\ UNCHANGED <<data, tail, waitRecv, sending, asked, sent>>

RecvTaken(r) ==
  /\ r \in receiving /\ r \notin waitRecv
  /\ receiving' = receiving \ {r}
  /\ TakeFront

\* It never waits; without a message it changes nothing.
TryRecv == TakeFront /\ UNCHANGED receiving
-----------------------------------------------------------------------------
\* POSIX and Win32 let a condition wait return without a signal.
SpuriousWakeup ==
  /\ \/ /\ \E s \in waitSend : waitSend' = waitSend \ {s}
        /\ UNCHANGED waitRecv
     \/ /\ \E r \in waitRecv : waitRecv' = waitRecv \ {r}
        /\ UNCHANGED waitSend
  /\ UNCHANGED <<ring, sending, receiving, history>>

SenderStep(s)   == SendWait(s) \/ SendAccepted(s)
ReceiverStep(r) == RecvWait(r) \/ RecvTaken(r)

Next ==
  \/ \E s \in Senders : SenderStep(s) \/ \E m \in Messages : SendCall(s, m)
  \/ \E r \in Receivers : ReceiverStep(r) \/ RecvCall(r)
  \/ TryRecv
  \/ SpuriousWakeup

Spec == Init /\ [][Next]_vars

\* Threads inside a call are scheduled and get the mutex in turn, and the
\* consumers come back for more, as the channel's users do.
Fairness ==
  /\ \A s \in Senders : WF_vars(SenderStep(s))
  /\ \A r \in Receivers : WF_vars(ReceiverStep(r) \/ RecvCall(r))

FairSpec == Spec /\ Fairness
-----------------------------------------------------------------------------
(* Properties *)

TypeOK ==
  /\ data \in [Slots -> Messages \cup {NoMessage}]
  /\ head \in Slots /\ tail \in Slots /\ count \in 0 .. Cap
  /\ waitSend \subseteq Senders /\ waitRecv \subseteq Receivers
  /\ sending \in [Senders -> Messages \cup {NoMessage}]
  /\ receiving \subseteq Receivers
  /\ asked \subseteq Messages
  /\ sent \in Seq(Messages) /\ delivered \in Seq(Messages)

\* Every accepted message was delivered or waits in the ring, in the order in
\* which the sends were accepted.
FirstInFirstOut == sent = delivered \o Contents

\* No wakeup is lost: while a receiver sleeps, as many others are awake in
\* recv as there are messages, and the same for senders and free slots.
Awake(S, T) == Cardinality(S \ T)
NoWakeupIsLost ==
  /\ waitRecv # {} => Awake(receiving, waitRecv) >= count
  /\ waitSend # {} =>
       Awake({s \in Senders : sending[s] # NoMessage}, waitSend) >= Cap - count

\* What users may rely on is a bounded FIFO.
Fifo == INSTANCE BoundedFifo WITH Bound <- Cap, items <- Contents
ImplementsFifo == Fifo!Spec

\* With consumers that keep receiving, a message given to send arrives: no
\* sender and no receiver sleeps on for ever.
Arrived == {delivered[k] : k \in DOMAIN delivered}
EveryMessageArrives == \A m \in Messages : m \in asked ~> m \in Arrived
=============================================================================
