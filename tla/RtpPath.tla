------------------------------- MODULE RtpPath --------------------------------
(***************************************************************************)
(* The way of a video frame from Packager to Unpackager: RtpFragmenter     *)
(* cuts it up, Packager puts an RTP header before each fragment and hands  *)
(* it to the Sender, whose thread writes it to a UDP socket; the network   *)
(* may lose, duplicate and reorder; Receiver hands what arrives to         *)
(* Unpackager, which collects payloads until a packet carries the marker.  *)
(* The Sender is the bounded queue that Sender.tla implements.             *)
(***************************************************************************)
EXTENDS Integers, SequencesExt

CONSTANTS
  FrameKinds,    \* the frames the pipeline produces: records [size, dts]
  Clock,         \* what the clock, in milliseconds, may read
  ChunkSize,     \* the MAX_SIZE - 1 of RtpFragmenter
  QueueLimit,    \* the 1000 of Sender
  TicksPerMs,    \* the 90000 / 1000 of an RTP video clock
  TsModulus,     \* the 2^32 of an RTP timestamp
  MaxFrames,     \* bound: frames produced
  MaxFaults      \* bound: packets the network loses, duplicates or reorders

\* The encoder makes no empty frame: for one, Packager's loop would never end.
\* A frame's size is an int, so one is the largest.
ASSUME RtpAssumption ==
  /\ FrameKinds \subseteq [size : Nat \ {0}, dts : Int]
  /\ \E largest \in FrameKinds : \A kind \in FrameKinds : kind.size <= largest.size
  /\ Clock \subseteq Nat
  /\ {ChunkSize, QueueLimit, TicksPerMs, TsModulus} \subseteq Nat \ {0}
  /\ {MaxFrames, MaxFaults} \subseteq Nat

VARIABLES
  frames,                  \* history: the frames Packager received
  fragmentQueue,           \* fragmentQueue_ of the frame it sends, if any
  stamp,                   \* the RTP timestamp of that frame
  videoSeqNum,             \* videoSeqNum_; the header takes it modulo 2^16,
                           \* which Unpackager does not read
  sendQueue,               \* sendQueue_ of the Sender
  network,                 \* the datagrams under way
  receiving,               \* async_receive_from is pending
  unpackaged,              \* the packets in unpackagedBuffer_
  first_video_timestamp,
  output,                  \* history: the units handed to Unpackager's sink
  dropped,                 \* packets a full sendQueue_ refused
  lost,                    \* packets the network lost
  shuffled                 \* packets the network duplicated or reordered

packager == <<frames, fragmentQueue, stamp, videoSeqNum>>
unpackager == <<unpackaged, first_video_timestamp, output>>
faults == <<dropped, lost, shuffled>>
vars == <<packager, sendQueue, network, receiving, unpackager, faults>>

\* An RTP header, as far as it is read, and the payload behind it.  Both ends
\* convert to and from network order, so a field is what was put in.
Packets ==
  [marker : BOOLEAN, timestamp : 0 .. TsModulus - 1, seq : Nat,
   frame : 1 .. MaxFrames, fragment : [position : Nat, size : 1 .. ChunkSize]]

Init ==
  /\ frames = <<>> /\ fragmentQueue = <<>> /\ stamp = 0 /\ videoSeqNum = 0
  /\ sendQueue = <<>>
  /\ network = <<>>
  /\ receiving = TRUE
  /\ unpackaged = <<>> /\ first_video_timestamp = -1 /\ output = <<>>
  /\ dropped = 0 /\ lost = 0 /\ shuffled = 0

------------------------------------------------------------------------------
(* Packager and RtpFragmenter *)

BugLimitLate(remaining) ==   \* a byte more than fits is not split off
  IF remaining > ChunkSize + 1 THEN ChunkSize ELSE remaining

FragmentSize(remaining) ==
  IF remaining > ChunkSize THEN ChunkSize ELSE remaining

\* calculatePackets
Fragments(length) ==
  LET cut[remaining \in 0 .. length] ==
        IF remaining = 0 THEN <<>>
        ELSE LET size == FragmentSize(remaining) IN
             <<[position |-> length - remaining, size |-> size]>>
               \o cut[remaining - size]
  IN cut[length]

BugUnscaled(ms) == ms % TsModulus   \* milliseconds instead of clock ticks

\* setTimestamp(av_rescale(ms, 90000, 1000))
Timestamp(ms) == (ms * TicksPerMs) % TsModulus

\* A frame without a dts gets the time of the clock.
ReceivePacket ==
  /\ fragmentQueue = <<>>
  /\ Len(frames) < MaxFrames
  /\ \E frame \in FrameKinds :
       /\ frames' = Append(frames, frame)
       /\ fragmentQueue' = Fragments(frame.size)
       /\ IF frame.dts = 0
          THEN \E millis \in Clock : stamp' = Timestamp(millis)
          ELSE stamp' = Timestamp(frame.dts)
  /\ UNCHANGED <<videoSeqNum, sendQueue, network, receiving, unpackager, faults>>

BugMarkerFirst == Head(fragmentQueue).position = 0   \* the first, not the last

BugNoMarker == FALSE

LastPacket == Len(fragmentQueue) = 1

Packet ==
  [marker |-> LastPacket, timestamp |-> stamp, seq |-> videoSeqNum,
   frame |-> Len(frames), fragment |-> Head(fragmentQueue)]

\* One turn of Packager's loop: getPacket, the header, and receiveRtpPacket of
\* the Sender, which drops the packet if its queue is full.
SendFragment ==
  /\ fragmentQueue # <<>>
  /\ IF Len(sendQueue) < QueueLimit
     THEN sendQueue' = Append(sendQueue, Packet) /\ UNCHANGED dropped
     ELSE dropped' = dropped + 1 /\ UNCHANGED sendQueue
  /\ fragmentQueue' = Tail(fragmentQueue)
  /\ videoSeqNum' = videoSeqNum + 1
  /\ UNCHANGED <<frames, stamp, network, receiving, unpackager, lost, shuffled>>

------------------------------------------------------------------------------
(* The Sender's thread and the network *)

BugFromBack(queue) == Front(queue)   \* pops the newest packet

Pop(queue) == Tail(queue)

SendLoop ==
  /\ sendQueue # <<>>
  /\ network' = Append(network, Head(sendQueue))
  /\ sendQueue' = Pop(sendQueue)
  /\ UNCHANGED <<packager, receiving, unpackager, faults>>

Lose ==
  /\ lost + shuffled < MaxFaults
  /\ \E i \in DOMAIN network : network' = RemoveAt(network, i)
  /\ lost' = lost + 1
  /\ UNCHANGED <<packager, sendQueue, receiving, unpackager, dropped, shuffled>>

Duplicate ==
  /\ lost + shuffled < MaxFaults
  /\ \E i \in DOMAIN network : network' = Append(network, network[i])
  /\ shuffled' = shuffled + 1
  /\ UNCHANGED <<packager, sendQueue, receiving, unpackager, dropped, lost>>

Reorder ==
  /\ lost + shuffled < MaxFaults
  /\ \E i \in DOMAIN network :
       network' = Append(RemoveAt(network, i), network[i])
  /\ network' # network
  /\ shuffled' = shuffled + 1
  /\ UNCHANGED <<packager, sendQueue, receiving, unpackager, dropped, lost>>

------------------------------------------------------------------------------
(* Receiver and Unpackager *)

\* C++ division, towards zero
Quotient(a, b) == IF a >= 0 THEN a \div b ELSE -((-a) \div b)

FirstTimestamp(packet) ==
  IF first_video_timestamp = -1 THEN packet.timestamp ELSE first_video_timestamp

BugKeepsBuffer(packet) == Append(unpackaged, packet)   \* upackagedSize_ not reset

\* What is left in the buffer after a packet.
Remainder(packet) ==
  IF packet.marker THEN <<>> ELSE Append(unpackaged, packet)

\* handleReceive with data: receiveRtpPacket, then the next async_receive_from.
HandleReceive ==
  /\ receiving
  /\ network # <<>>
  /\ LET packet == Head(network) first == FirstTimestamp(packet) IN
     /\ unpackaged' = Remainder(packet)
     /\ IF packet.marker
        THEN /\ first_video_timestamp' = first
             /\ output' = Append(output,
                  [packets |-> Append(unpackaged, packet),
                   dts |-> Quotient(packet.timestamp - first, TicksPerMs)])
        ELSE UNCHANGED <<first_video_timestamp, output>>
  /\ network' = Tail(network)
  /\ UNCHANGED <<packager, sendQueue, receiving, faults>>

\* handleReceive without data, on an error or an empty datagram from anywhere:
\* nothing is received any more.
HandleNothing ==
  /\ receiving
  /\ receiving' = FALSE
  /\ UNCHANGED <<packager, sendQueue, network, unpackager, faults>>

------------------------------------------------------------------------------
Next ==
  \/ ReceivePacket \/ SendFragment \/ SendLoop
  \/ Lose \/ Duplicate \/ Reorder
  \/ HandleReceive \/ HandleNothing

\* The three threads run when they can; no frame need come, no fault happen.
Spec ==
  /\ Init /\ [][Next]_vars
  /\ WF_vars(SendFragment) /\ WF_vars(SendLoop) /\ WF_vars(HandleReceive)

------------------------------------------------------------------------------
(* Properties *)

\* Every variable holds a value of the program's.
TypeOK ==
  /\ frames \in Seq(FrameKinds) /\ Len(frames) <= MaxFrames
  /\ fragmentQueue \in Seq([position : Nat, size : 1 .. ChunkSize])
  /\ stamp \in 0 .. TsModulus - 1
  /\ videoSeqNum \in Nat
  /\ sendQueue \in Seq(Packets) /\ Len(sendQueue) <= QueueLimit
  /\ network \in Seq(Packets)
  /\ receiving \in BOOLEAN
  /\ unpackaged \in Seq(Packets)
  /\ \A i \in DOMAIN unpackaged : ~unpackaged[i].marker
  /\ first_video_timestamp \in -1 .. TsModulus - 1
  /\ output \in Seq([packets : Seq(Packets), dts : Int])
  /\ {dropped, lost, shuffled} \subseteq Nat

\* The packets, wherever they are now, in the order they come out or would.
Arrivals ==
  [k \in DOMAIN output |-> output[k].packets] \o <<unpackaged, network, sendQueue>>

\* While the network keeps the order of what it does not lose, no packet is used
\* twice or after a later one, wherever packets are dropped.
ArrivalOrderKept ==
  shuffled = 0 =>
    \A j, k \in DOMAIN Arrivals :
      \A a \in DOMAIN Arrivals[j], b \in DOMAIN Arrivals[k] :
        j < k \/ (j = k /\ a < b) => Arrivals[j][a].seq < Arrivals[k][b].seq

\* The packets of the kth unit are all there were since the unit before it.
Gapless(k) ==
  LET packets == output[k].packets
      before == IF k = 1 THEN -1 ELSE Last(output[k - 1].packets).seq
  IN \A i \in DOMAIN packets : packets[i].seq = before + i

\* The bytes of packets are those of frame n, in order.
IsFrame(packets, n) ==
  /\ \A i \in DOMAIN packets : packets[i].frame = n
  /\ packets[1].fragment.position = 0
  /\ \A i \in 1 .. Len(packets) - 1 :
       packets[i + 1].fragment.position =
         packets[i].fragment.position + packets[i].fragment.size
  /\ LET end == Last(packets).fragment IN end.position + end.size = frames[n].size

\* Whatever else was lost, repeated or reordered, a unit made of all the packets
\* sent since the one before it is one whole frame.
GaplessUnitIsFrame ==
  \A k \in DOMAIN output :
    Gapless(k) => IsFrame(output[k].packets, output[k].packets[1].frame)

\* The bytes of the payloads of packets.
Bytes(packets) ==
  LET upTo[n \in 0 .. Len(packets)] ==
        IF n = 0 THEN 0 ELSE upTo[n - 1] + packets[n].fragment.size
  IN upTo[Len(packets)]

LargestFrame == Max({kind.size : kind \in FrameKinds})

\* The Unpackager copies into its buffer without a test of its size.  What it
\* holds, with the packet it handles next, is at most a frame, and another one for
\* each packet that was dropped, lost, repeated or out of order since the start: a
\* buffer of one frame is enough while the path is intact, and need not be otherwise.
CollectsOneFramePerFault ==
  LET arriving == IF network = <<>> THEN <<>> ELSE <<Head(network)>>
  IN Bytes(unpackaged \o arriving) <= (1 + dropped + lost + shuffled) * LargestFrame

\* The dts the Unpackager writes keep the distances of those the Packager got,
\* unless the clock stood in for one of them or the RTP timestamp wrapped.
DtsDistancesKept ==
  \A j, k \in DOMAIN output :
    LET first == frames[Last(output[1].packets).frame].dts
        dts(u) == frames[Last(output[u].packets).frame].dts
        Plain(d) == d > 0 /\ d * TicksPerMs < TsModulus
    IN Plain(first) /\ Plain(dts(j)) /\ Plain(dts(k)) =>
         output[k].dts - output[j].dts = dts(k) - dts(j)

Intact == receiving /\ dropped + lost + shuffled = 0

\* On an intact path every frame comes out.
IntactPathDelivers ==
  [](Intact) =>
    \A n \in 1 .. MaxFrames : (Len(frames) >= n) ~> (Len(output) >= n)

\* The frame a unit consists of, 0 if it is none.
UnitFrame(unit) ==
  LET n == unit.packets[1].frame IN IF IsFrame(unit.packets, n) THEN n ELSE 0

Channel == INSTANCE FrameChannel WITH
  in <- [n \in DOMAIN frames |-> n],
  out <- [k \in DOMAIN output |-> UnitFrame(output[k])],
  intact <- Intact

\* Packager, Sender, Receiver and Unpackager together are a channel for frames.
ImplementsChannel == Channel!Spec
=============================================================================
