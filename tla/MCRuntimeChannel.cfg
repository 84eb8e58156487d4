SPECIFICATION FairSpec
CONSTANTS
  Senders = {s1, s2, s3}
  Receivers = {r1, r2}
  Messages = {m1, m2, m3, m4}
  Cap = 2
  NoMessage = NoMessage
INVARIANTS
  TypeOK
  NoWakeupIsLost
PROPERTIES
  ImplementsFifo
  EveryMessageArrives
CHECK_DEADLOCK FALSE
