----------------------------- MODULE SenderProofs -----------------------------
(***************************************************************************)
(* Theorems about the Sender for every queue limit and every number of     *)
(* packets: its safety invariants, and that each of its steps is a step of *)
(* the abstract channel PacketFifo.                                        *)
(***************************************************************************)
EXTENDS Sender, SequenceTheorems, TLAPS

------------------------------------------------------------------------------
(* The inductive invariant.  FifoOrder and NoLostWakeup need to know what  *)
(* each location of sendLoop implies about the queue; AtMostOneAfterStop   *)
(* needs the flag to follow the owner, and the loop to be back at its test *)
(* of the flag once it used up the one packet it may still send.           *)

LocationsKnowTheQueue ==
  /\ loop = "send" => sendQueue # <<>>
  /\ loop \in {"empty", "asleep"} => sendQueue = <<>>

FlagFollowsOwner ==
  /\ owner = "constructed" => loop = "none" /\ sendQueue = <<>>
                               /\ accepted = <<>> /\ sent = <<>>
  /\ owner = "running" => sending
  /\ owner \in {"joining", "destroyed"} => ~sending

StopAllowance ==
  owner \in {"joining", "destroyed"} =>
    \/ Len(sent) = sentAtStop
    \/ Len(sent) = sentAtStop + 1 /\ loop \in {"check", "exited"}

IInv ==
  /\ TypeOK
  /\ FifoOrder
  /\ LocationsKnowTheQueue
  /\ FlagFollowsOwner
  /\ StopAllowance

------------------------------------------------------------------------------
(* Taking the first packet off the queue and appending it to what was sent *)
(* leaves the concatenation of the two as it was.                          *)
LEMMA MoveHead ==
  ASSUME NEW S, NEW s \in Seq(S), NEW q \in Seq(S), q # <<>>
  PROVE  /\ Append(s, Head(q)) \in Seq(S)
         /\ Tail(q) \in Seq(S)
         /\ Len(Tail(q)) = Len(q) - 1
         /\ Append(s, Head(q)) \o Tail(q) = s \o q
<1>1. Head(q) \in S /\ Tail(q) \in Seq(S) /\ Len(Tail(q)) = Len(q) - 1
  BY HeadTailProperties
<1>2. Append(s, Head(q)) = s \o <<Head(q)>> /\ q = <<Head(q)>> \o Tail(q)
  BY <1>1, AppendIsConcat, HeadTailProperties, ConcatProperties, SMTT(30)
<1>3. (s \o <<Head(q)>>) \o Tail(q) = s \o (<<Head(q)>> \o Tail(q))
  BY <1>1, ConcatAssociative, SMTT(30)
<1> QED
  BY <1>1, <1>2, <1>3

------------------------------------------------------------------------------
LEMMA InitIInv == Init => IInv
  BY QueueLimitAssumption, MaxPacketsAssumption
  DEF Init, IInv, TypeOK, FifoOrder, LocationsKnowTheQueue, FlagFollowsOwner,
      StopAllowance, LoopLocations, Packets

(* The steps that move only the loop or the owner. *)
LEMMA OwnerStepIInv ==
  IInv /\ (SenderInit \/ DestructorStop \/ DestructorJoin) => IInv'
<1> USE DEF IInv, TypeOK, FifoOrder, LocationsKnowTheQueue, FlagFollowsOwner,
            StopAllowance, LoopLocations
<1>1. IInv /\ SenderInit => IInv'
  BY DEF SenderInit
<1>2. ASSUME IInv, DestructorStop PROVE IInv'
  <2>1. Len(sent) \in Nat /\ Len(sent)' = Len(sent)
    BY <1>2 DEF DestructorStop
  <2>2. TypeOK'
    BY <1>2, <2>1 DEF DestructorStop
  <2>3. FifoOrder' /\ LocationsKnowTheQueue' /\ FlagFollowsOwner'
    BY <1>2 DEF DestructorStop
  <2>4. StopAllowance'
    BY <1>2, <2>1 DEF DestructorStop
  <2> QED
    BY <2>2, <2>3, <2>4
<1>3. IInv /\ DestructorJoin => IInv'
  BY DEF DestructorJoin
<1> QED
  BY <1>1, <1>2, <1>3

LEMMA LoopStepIInv ==
  IInv /\ (SpuriousWakeup \/ LoopCheck \/ LoopLock \/ LoopWait \/ LoopWake)
  => IInv'
<1> USE DEF LoopStep, IInv, TypeOK, FifoOrder, LocationsKnowTheQueue,
            FlagFollowsOwner, StopAllowance, LoopLocations
<1>1. IInv /\ SpuriousWakeup => IInv'
  BY DEF SpuriousWakeup
<1>5. IInv /\ LoopWait => IInv'
  BY DEF LoopWait
<1>2. IInv /\ LoopCheck => IInv'
  BY DEF LoopCheck, KeepLooping
<1>3. IInv /\ LoopLock => IInv'
  BY DEF LoopLock
<1>4. IInv /\ LoopWake => IInv'
  BY DEF LoopWake
<1> QED
  BY <1>1, <1>2, <1>3, <1>4, <1>5

LEMMA ReceiveIInv == IInv /\ ReceiveRtpPacket => IInv'
<1> SUFFICES ASSUME IInv, ReceiveRtpPacket PROVE IInv'
  OBVIOUS
<1> USE DEF IInv, TypeOK, ReceiveRtpPacket, NotifyOne, Full, LoopHasLock
<1>1. offered' \in 0 .. MaxPackets /\ offered + 1 \in Packets
  BY MaxPacketsAssumption DEF Packets
<1>2. CASE ReceiveWhileStopped
  BY <1>1, <1>2 DEF ReceiveWhileStopped, FifoOrder, LocationsKnowTheQueue,
                    FlagFollowsOwner, StopAllowance, LoopLocations
<1>3. CASE ReceiveWhenFull
  BY <1>1, <1>3 DEF ReceiveWhenFull, FifoOrder, LocationsKnowTheQueue,
                    FlagFollowsOwner, StopAllowance, LoopLocations
<1>4. CASE ReceiveAndQueue
  <2> USE <1>4 DEF ReceiveAndQueue
  <2>1. /\ sendQueue' \in Seq(Packets)
        /\ Len(sendQueue') = Len(sendQueue) + 1
        /\ sendQueue' # <<>>
        /\ accepted' \in Seq(Packets)
        /\ accepted' = sent \o sendQueue'
    <3>1. PICK p \in Packets : /\ sendQueue' = Append(sendQueue, p)
                               /\ accepted' = Append(sent \o sendQueue, p)
      BY <1>1 DEF FifoOrder
    <3>2. sent \in Seq(Packets) /\ sendQueue \in Seq(Packets)
      OBVIOUS
    <3>3. /\ Append(sendQueue, p) \in Seq(Packets)
          /\ Len(Append(sendQueue, p)) = Len(sendQueue) + 1
          /\ Append(sent \o sendQueue, p) = sent \o Append(sendQueue, p)
      BY ONLY p \in Packets, <3>2, SMTT(30)
    <3>4. sent \o sendQueue \in Seq(Packets)
      BY <3>2, ConcatProperties
    <3>5. accepted' \in Seq(Packets)
      BY ONLY p \in Packets, <3>1, <3>4
    <3>6. Append(sendQueue, p) # <<>>
      BY ONLY <3>2, p \in Packets
    <3> QED
      BY ONLY <3>1, <3>3, <3>5, <3>6
  <2>2. Len(sendQueue') <= QueueLimit
    BY <2>1, QueueLimitAssumption
  <2>3. FifoOrder'
    BY <2>1 DEF FifoOrder
  <2>4. TypeOK'
    BY <1>1, <2>1, <2>2 DEF LoopLocations
  <2>5. LocationsKnowTheQueue' /\ FlagFollowsOwner' /\ StopAllowance'
    BY <2>1 DEF LocationsKnowTheQueue, FlagFollowsOwner, StopAllowance
  <2> QED
    BY <2>3, <2>4, <2>5
<1> QED
  BY <1>2, <1>3, <1>4

LEMMA SendIInv == IInv /\ LoopSend => IInv'
<1> SUFFICES ASSUME IInv, LoopSend PROVE IInv'
  OBVIOUS
<1> USE DEF IInv, TypeOK, LoopSend, FrontPacket
<1>1. sendQueue # <<>>
  BY DEF LocationsKnowTheQueue
<1>2. /\ sent' \in Seq(Packets)
      /\ sendQueue' \in Seq(Packets)
      /\ Len(sendQueue') = Len(sendQueue) - 1
      /\ sent' \o sendQueue' = sent \o sendQueue
  BY <1>1, MoveHead
<1>3. Len(sent') = Len(sent) + 1
  OBVIOUS
<1>4. TypeOK'
  BY <1>2, QueueLimitAssumption DEF LoopLocations
<1>5. FifoOrder'
  BY <1>2 DEF FifoOrder
<1>6. LocationsKnowTheQueue' /\ FlagFollowsOwner'
  BY DEF LocationsKnowTheQueue, FlagFollowsOwner
<1>7. StopAllowance'
  BY <1>3 DEF StopAllowance
<1> QED
  BY <1>4, <1>5, <1>6, <1>7

LEMMA StepIInv == IInv /\ [Next]_vars => IInv'
<1> SUFFICES ASSUME IInv, [Next]_vars PROVE IInv'
  OBVIOUS
<1>1. CASE UNCHANGED vars
  BY <1>1 DEF vars, IInv, TypeOK, FifoOrder, LocationsKnowTheQueue,
              FlagFollowsOwner, StopAllowance
<1>2. CASE Next
  BY <1>2, OwnerStepIInv, LoopStepIInv, ReceiveIInv, SendIInv DEF Next, LoopNext
<1> QED
  BY <1>1, <1>2

LEMMA InductiveInvariant == Spec => []IInv
  BY InitIInv, StepIInv, PTL DEF Spec

------------------------------------------------------------------------------
(* The Sender's variables keep their types; the queue never exceeds the    *)
(* limit receiveRtpPacket tests.                                           *)
THEOREM TypeCorrect == Spec => []TypeOK
<1>1. IInv => TypeOK
  BY DEF IInv
<1> QED
  BY <1>1, InductiveInvariant, PTL

(* sendLoop neither loses nor reorders a packet the queue took. *)
THEOREM SendsInOrder == Spec => []FifoOrder
<1>1. IInv => FifoOrder
  BY DEF IInv
<1> QED
  BY <1>1, InductiveInvariant, PTL

(* The loop is never asleep on cond_ while the queue holds a packet. *)
THEOREM NoWakeupIsLost == Spec => []NoLostWakeup
<1>1. IInv => NoLostWakeup
  BY DEF IInv, LocationsKnowTheQueue, NoLostWakeup
<1> QED
  BY <1>1, InductiveInvariant, PTL

(* At most one packet leaves after ~Sender cleared sending_. *)
THEOREM StopsWithinOnePacket == Spec => []AtMostOneAfterStop
<1>1. IInv => AtMostOneAfterStop
  BY DEF IInv, TypeOK, StopAllowance, AtMostOneAfterStop
<1> QED
  BY <1>1, InductiveInvariant, PTL

------------------------------------------------------------------------------
(* The n-th accepted packet, while n - 1 have been sent, is the front one. *)
LEMMA FrontIsNextAccepted ==
  ASSUME IInv, sendQueue # <<>>
  PROVE  /\ Len(sent) < Len(accepted)
         /\ accepted[Len(sent) + 1] = Head(sendQueue)
  BY SMTT(30) DEF IInv, TypeOK, FifoOrder

LEMMA QueueLengthIsDifference ==
  IInv => Len(accepted) - Len(sent) = Len(sendQueue)
  BY SMTT(30) DEF IInv, TypeOK, FifoOrder

LEMMA StepImplementsFifo == IInv /\ [Next]_vars => [Fifo!Next]_(Fifo!vars)
<1> SUFFICES ASSUME IInv, [Next]_vars PROVE [Fifo!Next]_(Fifo!vars)
  OBVIOUS
<1> USE DEF Fifo!vars, Fifo!Next
<1>1. CASE UNCHANGED vars
  BY <1>1 DEF vars
<1>2. CASE SenderInit \/ DestructorJoin \/ SpuriousWakeup \/ LoopCheck
           \/ LoopLock \/ LoopWait \/ LoopWake
  BY <1>2 DEF SenderInit, DestructorJoin, SpuriousWakeup, LoopCheck, LoopLock,
              LoopWait, LoopWake, LoopStep
<1>3. CASE DestructorStop
  <2>1. Fifo!Close
    BY <1>3 DEF DestructorStop, Fifo!Close
  <2> QED
    BY <2>1
<1>4. CASE ReceiveRtpPacket
  <2>1. CASE ReceiveWhileStopped \/ ReceiveWhenFull
    BY <1>4, <2>1 DEF ReceiveRtpPacket, ReceiveWhileStopped, ReceiveWhenFull
  <2>2. CASE ReceiveAndQueue
    <3>1. Len(accepted) - Len(sent) < QueueLimit
      BY <2>2, QueueLengthIsDifference, QueueLimitAssumption
      DEF ReceiveAndQueue, Full, IInv, TypeOK
    <3>2. offered + 1 \in Packets
      BY <1>4, MaxPacketsAssumption DEF ReceiveRtpPacket, IInv, TypeOK, Packets
    <3>3. owner \in {"constructed", "running"}
      BY <1>4, <2>2 DEF ReceiveRtpPacket, ReceiveAndQueue, IInv, FlagFollowsOwner
    <3>4. Fifo!Accept(offered + 1)
      BY <1>4, <2>2, <3>1, <3>3
      DEF ReceiveRtpPacket, ReceiveAndQueue, Fifo!Accept
    <3> QED
      BY <3>2, <3>4
  <2> QED
    BY <1>4, <2>1, <2>2 DEF ReceiveRtpPacket
<1>5. CASE LoopSend
  <2>1. sendQueue # <<>>
    BY <1>5 DEF LoopSend, IInv, LocationsKnowTheQueue
  <2>2. owner \in {"constructed", "running"} \/ Len(sent) = sentAtStop
    BY <1>5 DEF LoopSend, IInv, TypeOK, StopAllowance
  <2>3. Fifo!Deliver
    BY <1>5, <2>1, <2>2, FrontIsNextAccepted
    DEF LoopSend, FrontPacket, Fifo!Deliver
  <2> QED
    BY <2>3
<1> QED
  BY <1>1, <1>2, <1>3, <1>4, <1>5 DEF Next, LoopNext

(* The safety part of ImplementsFifo: started in a state of the channel,   *)
(* every step of the Sender is a step of the channel or invisible in it.   *)
THEOREM ImplementsFifoSafety == Spec => Fifo!Init /\ [][Fifo!Next]_(Fifo!vars)
<1>1. Init => Fifo!Init
  BY DEF Init, Fifo!Init
<1> QED
  BY <1>1, InductiveInvariant, StepImplementsFifo, PTL DEF Spec
=============================================================================
