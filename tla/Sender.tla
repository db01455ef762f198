-------------------------------- MODULE Sender --------------------------------
(***************************************************************************)
(* libs/Sender.cpp: the queue between the media pipeline, which hands over *)
(* RTP packets with receiveRtpPacket, and the thread running sendLoop,     *)
(* which takes them out and writes them to the UDP socket.                 *)
(*                                                                         *)
(* queueMutex_ is held by the loop exactly at the locations LoopHasLock;   *)
(* receiveRtpPacket runs wholly under the mutex and reads sending_ once,   *)
(* so it is one step.  The destructor writes sending_ without the mutex:   *)
(* that write may fall between any two steps of the loop.                  *)
(***************************************************************************)
EXTENDS Naturals, Sequences

CONSTANTS QueueLimit,  \* the 1000 of receiveRtpPacket
          MaxPackets   \* bound: how many packets the pipeline hands over

ASSUME QueueLimitAssumption == QueueLimit \in Nat \ {0}
ASSUME MaxPacketsAssumption == MaxPackets \in Nat

VARIABLES
  sending,    \* sending_
  sendQueue,  \* sendQueue_
  loop,       \* where send_Thread_ is in sendLoop
  owner,      \* what the owner of the Sender has done with it
  offered,    \* receiveRtpPacket calls so far; the n-th carries packet n
  accepted,   \* the packets pushed on the queue, in order
  sent,       \* the packets written to the socket, in order
  sentAtStop  \* Len(sent) when ~Sender cleared sending_

vars == <<sending, sendQueue, loop, owner, offered, accepted, sent, sentAtStop>>

Packets == 1 .. MaxPackets

LoopLocations ==
  {"none", "check", "lock", "empty", "asleep", "woken", "send", "exited"}

LoopHasLock == loop \in {"empty", "send"}

Init ==
  /\ sending \in BOOLEAN   \* the constructor leaves sending_ uninitialised
  /\ sendQueue = <<>>
  /\ loop = "none"
  /\ owner = "constructed"
  /\ offered = 0
  /\ accepted = <<>>
  /\ sent = <<>>
  /\ sentAtStop = 0

------------------------------------------------------------------------------
(* Bugs a change to Sender.cpp could bring in, one for each property to find. *)

BugFullOneLate == Len(sendQueue) > QueueLimit
BugNoNotify == UNCHANGED loop
BugNewestFirst == sendQueue[Len(sendQueue)]
BugLoopForever == TRUE

------------------------------------------------------------------------------
(* The owner.  StartStreaming calls init before the first packet can come. *)

SenderInit ==
  /\ owner = "constructed"
  /\ owner' = "running"
  /\ sending' = TRUE
  /\ loop' = "check"
  /\ UNCHANGED <<sendQueue, offered, accepted, sent, sentAtStop>>

DestructorStop ==
  /\ owner = "running"
  /\ owner' = "joining"
  /\ sending' = FALSE
  /\ sentAtStop' = Len(sent)
  /\ UNCHANGED <<sendQueue, loop, offered, accepted, sent>>

DestructorJoin ==
  /\ owner = "joining"
  /\ loop = "exited"
  /\ owner' = "destroyed"
  /\ UNCHANGED <<sending, sendQueue, loop, offered, accepted, sent, sentAtStop>>

------------------------------------------------------------------------------
(* The pipeline. *)

Full == Len(sendQueue) >= QueueLimit

NotifyOne == loop' = IF loop = "asleep" THEN "woken" ELSE loop

ReceiveWhileStopped ==
  /\ ~sending
  /\ UNCHANGED <<loop, sendQueue, accepted>>

ReceiveAndQueue ==
  /\ sending
  /\ ~Full
  /\ sendQueue' = Append(sendQueue, offered + 1)
  /\ accepted' = Append(accepted, offered + 1)
  /\ NotifyOne

ReceiveWhenFull ==
  /\ sending
  /\ Full
  /\ NotifyOne
  /\ UNCHANGED <<sendQueue, accepted>>

ReceiveRtpPacket ==
  /\ owner \in {"running", "joining"}
  /\ offered < MaxPackets
  /\ ~LoopHasLock
  /\ offered' = offered + 1
  /\ ReceiveWhileStopped \/ ReceiveAndQueue \/ ReceiveWhenFull
  /\ UNCHANGED <<sending, owner, sent, sentAtStop>>

------------------------------------------------------------------------------
(* send_Thread_. *)

LoopStep(from, to) ==
  /\ loop = from
  /\ loop' = to
  /\ UNCHANGED <<sending, sendQueue, owner, offered, accepted, sent, sentAtStop>>

KeepLooping == sending

LoopCheck == LoopStep("check", IF KeepLooping THEN "lock" ELSE "exited")

LoopLock == LoopStep("lock", IF sendQueue = <<>> THEN "empty" ELSE "send")

LoopWait == LoopStep("empty", "asleep")

SpuriousWakeup == LoopStep("asleep", "woken")

LoopWake ==
  LoopStep("woken", IF ~sending THEN "exited"
                    ELSE IF sendQueue = <<>> THEN "empty" ELSE "send")

FrontPacket == Head(sendQueue)

LoopSend ==
  /\ loop = "send"
  /\ sent' = Append(sent, FrontPacket)
  /\ sendQueue' = Tail(sendQueue)
  /\ loop' = "check"
  /\ UNCHANGED <<sending, owner, offered, accepted, sentAtStop>>

------------------------------------------------------------------------------
LoopNext == LoopCheck \/ LoopLock \/ LoopWait \/ LoopWake \/ LoopSend

Next ==
  \/ SenderInit
  \/ DestructorStop
  \/ DestructorJoin
  \/ ReceiveRtpPacket
  \/ SpuriousWakeup
  \/ LoopNext

\* A thread that can run does; nobody must call into the Sender, and the
\* condition variable need not wake the loop without a notification.
Spec == Init /\ [][Next]_vars /\ WF_vars(LoopNext) /\ WF_vars(DestructorJoin)

------------------------------------------------------------------------------
TypeOK ==
  /\ sending \in BOOLEAN
  /\ sendQueue \in Seq(Packets) /\ Len(sendQueue) <= QueueLimit
  /\ loop \in LoopLocations
  /\ owner \in {"constructed", "running", "joining", "destroyed"}
  /\ offered \in 0 .. MaxPackets
  /\ accepted \in Seq(Packets)
  /\ sent \in Seq(Packets)
  /\ sentAtStop \in Nat

\* Every packet the queue took is either on the wire or still queued, in the
\* order receiveRtpPacket was called: sendLoop loses and reorders none.
FifoOrder == accepted = sent \o sendQueue

\* The loop never sleeps on cond_ while a packet is queued: the test of the
\* queue and the wait are one critical section, and every push notifies.
NoLostWakeup == loop = "asleep" => sendQueue = <<>>

\* Once ~Sender cleared sending_ (without the mutex), at most the one packet
\* the loop had already decided to send still goes out.
AtMostOneAfterStop ==
  owner \in {"joining", "destroyed"} => Len(sent) <= sentAtStop + 1

\* A sleeping loop that missed the stop flag can be left behind, but a queue
\* that holds a packet when ~Sender runs is never the reason join() hangs:
\* the loop then runs its test of sending_ and ends.
StopWithBacklogTerminates ==
  (owner = "joining" /\ sendQueue # <<>>) ~> (loop = "exited")

\* While nobody destroys the Sender, each accepted packet is sent.
AcceptedIsSent ==
  \A n \in Packets :
    (Len(accepted) >= n) ~> (Len(sent) >= n \/ owner # "running")

\* The Sender is a bounded FIFO channel for the Packager in front of it.
Fifo == INSTANCE PacketFifo WITH
          Capacity <- QueueLimit, delivered <- sent,
          open <- owner \in {"constructed", "running"}, last <- sentAtStop

ImplementsFifo == Fifo!Spec
=============================================================================
