---------------------------- MODULE RtpPathProofs -----------------------------
(***************************************************************************)
(* Theorems about the way of the frames from Packager to Unpackager, for   *)
(* frames of every size, every limit of the queue, and every loss,         *)
(* repetition and reordering on the network.                               *)
(***************************************************************************)
EXTENDS RtpPath, DataFacts

------------------------------------------------------------------------------
(* The inductive invariant.                                                *)

\* The packets that are somewhere on the way or were used.
Around ==
  ToSet(sendQueue) \cup ToSet(network) \cup ToSet(unpackaged)
    \cup UNION {ToSet(output[k].packets) : k \in DOMAIN output}

\* The fragments join up and end with byte number end.
Join(fragments, end) ==
  /\ \A i \in 1 .. Len(fragments) - 1 :
       fragments[i + 1].position = fragments[i].position + fragments[i].size
  /\ fragments # <<>> =>
       fragments[Len(fragments)].position + fragments[Len(fragments)].size = end

\* What Packager still has to send is the end of the frame it received last.
FragmentsFollow ==
  fragmentQueue # <<>> =>
    /\ frames # <<>>
    /\ Join(fragmentQueue, frames[Len(frames)].size)
    /\ frames[Len(frames)].dts # 0 => stamp = Timestamp(frames[Len(frames)].dts)
    /\ videoSeqNum = 0 => Len(frames) = 1 /\ Head(fragmentQueue).position = 0

\* What packet q is, if it is the next after p.
Follows(p, q) ==
  IF p.marker
  THEN q.frame = p.frame + 1 /\ q.fragment.position = 0
  ELSE /\ q.frame = p.frame
       /\ q.fragment.position = p.fragment.position + p.fragment.size

\* A packet's number tells what it is, so no two packets with one number differ in
\* what follows them.
PacketsFollow ==
  /\ \A p \in Around :
       /\ p.seq < videoSeqNum /\ p.frame <= Len(frames)
       /\ p.seq = 0 => p.frame = 1 /\ p.fragment.position = 0
       /\ p.marker => p.fragment.position + p.fragment.size = frames[p.frame].size
       /\ frames[p.frame].dts # 0 => p.timestamp = Timestamp(frames[p.frame].dts)
       /\ p.seq + 1 = videoSeqNum =>
            IF fragmentQueue = <<>> THEN p.marker /\ p.frame = Len(frames)
                                    ELSE Follows(p, Packet)
       /\ \A q \in Around : q.seq = p.seq + 1 => Follows(p, q)
  /\ videoSeqNum = 0 /\ fragmentQueue = <<>> => frames = <<>>

End(k) == output[k].packets[Len(output[k].packets)]

\* A unit ends with its only marker, and its dts is counted from the first unit.
UnitsFollow ==
  /\ \A k \in DOMAIN output :
       /\ output[k].packets # <<>>
       /\ \A i \in DOMAIN output[k].packets :
            output[k].packets[i].marker <=> i = Len(output[k].packets)
       /\ output[k].dts = Quotient(End(k).timestamp - End(1).timestamp, TicksPerMs)
  /\ first_video_timestamp = IF output = <<>> THEN -1 ELSE End(1).timestamp

\* The number of the packet that is used next if none is missing.
Due == IF output = <<>> THEN 0 ELSE End(Len(output)).seq + 1

\* The packets are numbered from n on.
NumberedFrom(packets, n) == \A i \in DOMAIN packets : packets[i].seq = n + i - 1

\* While no packet was dropped, lost, repeated or reordered, they come out as they
\* were numbered, and unit k is frame k.
NothingMissing ==
  dropped + lost + shuffled = 0 =>
    /\ \A k \in DOMAIN output :
         output[k].packets[1].frame = k /\ IsFrame(output[k].packets, k) /\ k <= Len(frames)
    /\ NumberedFrom(unpackaged, Due)
    /\ NumberedFrom(network, Due + Len(unpackaged))
    /\ NumberedFrom(sendQueue, Due + Len(unpackaged) + Len(network))
    /\ videoSeqNum = Due + Len(unpackaged) + Len(network) + Len(sendQueue)

Ascending(packets) ==
  \A a, b \in DOMAIN packets : a < b => packets[a].seq < packets[b].seq

Before(s, t) == \A p \in ToSet(s), q \in ToSet(t) : p.seq < q.seq

\* ArrivalOrderKept, piece by piece.
PiecesInOrder ==
  shuffled = 0 =>
    /\ Ascending(unpackaged) /\ Ascending(network) /\ Ascending(sendQueue)
    /\ Before(unpackaged, network) /\ Before(unpackaged, sendQueue)
    /\ Before(network, sendQueue)
    /\ \A k \in DOMAIN output :
         /\ Ascending(output[k].packets)
         /\ Before(output[k].packets, unpackaged) /\ Before(output[k].packets, network)
         /\ Before(output[k].packets, sendQueue)
         /\ \A j \in DOMAIN output : j < k => Before(output[j].packets, output[k].packets)

IInv ==
  /\ TypeOK
  /\ FragmentsFollow /\ PacketsFollow /\ UnitsFollow
  /\ PiecesInOrder
  /\ NothingMissing

------------------------------------------------------------------------------
(* The fragments of a frame.                                               *)

FragmentType == [position : Nat, size : 1 .. ChunkSize]

\* One turn of the loop of calculatePackets: what is left of a frame of the given
\* length is cut off first, and after it what c says.
CutOnce(length, remaining, c) ==
  IF remaining = 0 THEN <<>>
  ELSE LET size == FragmentSize(remaining) IN
       <<[position |-> length - remaining, size |-> size]>> \o c[remaining - size]

LEMMA SizeInRange ==
  ASSUME NEW remaining \in Nat \ {0}
  PROVE  FragmentSize(remaining) \in 1 .. ChunkSize /\ FragmentSize(remaining) <= remaining
BY RtpAssumption DEF FragmentSize

\* The recursion ends, so there is a function that cuts up the frame.
LEMMA CutExists ==
  ASSUME NEW length \in Nat
  PROVE  \E c : c = [remaining \in 0 .. length |-> CutOnce(length, remaining, c)]
<1> DEFINE Cuts(n) == \E c : c = [r \in 0 .. n |-> CutOnce(length, r, c)]
           S == {n \in Nat : Cuts(n)}
<1>1. Cuts(0)
  <2> DEFINE c == [r \in 0 .. 0 |-> <<>>]
  <2>1. \A r \in 0 .. 0 : CutOnce(length, r, c) = <<>>
    BY DEF CutOnce
  <2>2. c = [r \in 0 .. 0 |-> CutOnce(length, r, c)]
    BY <2>1
  <2> QED
    BY <2>2
<1>2. ASSUME NEW n \in Nat, Cuts(n) PROVE Cuts(n + 1)
  <2>1. PICK c : c = [r \in 0 .. n |-> CutOnce(length, r, c)]
    BY <1>2
  <2> DEFINE d == [r \in 0 .. n + 1 |-> IF r = n + 1 THEN CutOnce(length, r, c) ELSE c[r]]
  <2>2. ASSUME NEW r \in 0 .. n + 1 PROVE d[r] = CutOnce(length, r, d)
    <3>1. d[r] = CutOnce(length, r, c)
      BY <2>1
    <3>2. CutOnce(length, r, c) = CutOnce(length, r, d)
      <4>1. CASE r = 0
        BY <4>1 DEF CutOnce
      <4>2. CASE r # 0
        <5>1. r - FragmentSize(r) \in 0 .. n
          BY <4>2, SizeInRange
        <5>2. c[r - FragmentSize(r)] = d[r - FragmentSize(r)]
          BY <5>1
        <5> HIDE DEF d
        <5> QED
          BY <4>2, <5>2 DEF CutOnce
      <4> QED
        BY <4>1, <4>2
    <3> QED
      BY <3>1, <3>2
  <2>3. d = [r \in 0 .. n + 1 |-> d[r]]
    OBVIOUS
  <2> HIDE DEF d
  <2>4. d = [r \in 0 .. n + 1 |-> CutOnce(length, r, d)]
    BY <2>2, <2>3
  <2> QED
    BY <2>4
<1> HIDE DEF Cuts
<1>3. 0 \in S /\ \A n \in Nat : n \in S => n + 1 \in S
  BY <1>1, <1>2
<1>4. Nat \subseteq S
  <2> HIDE DEF S
  <2> QED
    BY <1>3, SetInduction
<1> QED
  BY <1>4 DEF Cuts

\* The fragments of a frame make it up from its first byte to its last.
LEMMA FragmentsJoin ==
  ASSUME NEW length \in Nat \ {0}
  PROVE  /\ Fragments(length) \in Seq(FragmentType) /\ Fragments(length) # <<>>
         /\ Fragments(length)[1].position = 0
         /\ Join(Fragments(length), length)
<1> DEFINE cut[remaining \in 0 .. length] ==
             IF remaining = 0 THEN <<>>
             ELSE LET size == FragmentSize(remaining) IN
                  <<[position |-> length - remaining, size |-> size]>> \o cut[remaining - size]
<1>1. Fragments(length) = cut[length]
  BY DEF Fragments
<1>2. cut = [remaining \in 0 .. length |-> CutOnce(length, remaining, cut)]
  BY CutExists DEF CutOnce
<1> HIDE DEF cut
<1> DEFINE Rest(r) == /\ cut[r] \in Seq(FragmentType) /\ cut[r] # <<>>
                      /\ cut[r][1].position = length - r
                      /\ Join(cut[r], length)
           Wrong == {r \in 1 .. length : ~Rest(r)}
<1>3. ASSUME NEW r \in 1 .. length, \A x \in 1 .. r - 1 : Rest(x)
      PROVE  Rest(r)
  <2> DEFINE size == FragmentSize(r)
             first == [position |-> length - r, size |-> size]
             c == cut[r - size]
  <2>1. size \in 1 .. ChunkSize /\ size <= r /\ size \in Nat \ {0}
    BY SizeInRange, RtpAssumption
  <2>2. first \in FragmentType
    BY <2>1 DEF FragmentType
  <2>3. cut[r] = <<first>> \o c
    <3>1. r \in 0 .. length /\ r # 0
      OBVIOUS
    <3>2. cut[r] = CutOnce(length, r, cut)
      BY <1>2, <3>1
    <3> QED
      BY <3>1, <3>2 DEF CutOnce
  <2>4. CASE size = r
    <3>1. c = <<>>
      <4>1. r - size = 0 /\ 0 \in 0 .. length
        BY <2>1, <2>4
      <4>2. cut[0] = CutOnce(length, 0, cut)
        BY <1>2, <4>1
      <4> HIDE DEF size
      <4> QED
        BY <4>1, <4>2 DEF CutOnce
    <3> HIDE DEF c
    <3>2. cut[r] = <<first>>
      BY <2>3, <3>1
    <3>3. first.position = length - r /\ first.position + first.size = length
      BY <2>1, <2>4
    <3> HIDE DEF first
    <3> QED
      BY <2>2, <3>2, <3>3 DEF Join
  <2>5. CASE size # r
    <3>1. r - size \in 1 .. r - 1
      BY <2>1, <2>5
    <3>2. /\ c \in Seq(FragmentType) /\ c # <<>>
          /\ c[1].position = length - (r - size)
          /\ Join(c, length)
      BY <1>3, <3>1
    <3>3. /\ first.position = length - r
          /\ first.position + first.size = length - (r - size)
      BY <2>1
    <3> HIDE DEF first, c, size
    <3>4. /\ cut[r] \in Seq(FragmentType) /\ Len(c) \in Nat \ {0}
          /\ Len(cut[r]) = Len(c) + 1 /\ cut[r][1] = first
          /\ \A i \in 1 .. Len(c) : cut[r][i + 1] = c[i]
      BY <2>2, <2>3, <3>2
    <3>5. ASSUME NEW i \in 1 .. Len(cut[r]) - 1
          PROVE  cut[r][i + 1].position = cut[r][i].position + cut[r][i].size
      <4>1. CASE i = 1
        BY <3>2, <3>3, <3>4, <4>1
      <4>2. CASE i # 1
        <5>1. PICK j \in 1 .. Len(c) - 1 : i = j + 1
          BY <3>4, <4>2
        <5>2. cut[r][i + 1] = c[j + 1] /\ cut[r][i] = c[j]
          BY <3>4, <5>1
        <5> QED
          BY <3>2, <5>2 DEF Join
      <4> QED
        BY <4>1, <4>2
    <3>6. cut[r][Len(cut[r])] = c[Len(c)]
      BY <3>4
    <3>7. cut[r] # <<>>
      BY <3>4
    <3> QED
      BY <3>2, <3>3, <3>4, <3>5, <3>6, <3>7 DEF Join
  <2> QED
    BY <2>4, <2>5
<1> HIDE DEF Rest
<1>4. Wrong = {}
  <2> SUFFICES ASSUME Wrong # {} PROVE FALSE
    OBVIOUS
  <2>1. Wrong \in SUBSET Nat
    OBVIOUS
  <2>2. PICK m \in Wrong : \A x \in Wrong : m <= x
    <3> HIDE DEF Wrong
    <3> QED
      BY <2>1, LeastExists
  <2>3. \A x \in 1 .. m - 1 : Rest(x)
    BY <2>2
  <2> QED
    BY <1>3, <2>3
<1>5. Rest(length)
  BY <1>4
<1> QED
  BY <1>1, <1>5 DEF Rest

------------------------------------------------------------------------------
(* What all steps need.                                                    *)

LEMMA InitIInv == Init => IInv
<1> SUFFICES ASSUME Init PROVE IInv
  OBVIOUS
<1> USE DEF Init
<1>1. TypeOK
  <2>1. stamp \in 0 .. TsModulus - 1 /\ first_video_timestamp \in -1 .. TsModulus - 1
    BY RtpAssumption
  <2>2. Len(sendQueue) <= QueueLimit /\ Len(frames) <= MaxFrames
    BY RtpAssumption
  <2> QED
    BY <2>1, <2>2 DEF TypeOK
<1>2. Around = {}
  BY DEF Around, ToSet
<1>3. FragmentsFollow /\ PacketsFollow /\ UnitsFollow
  BY <1>2 DEF FragmentsFollow, PacketsFollow, UnitsFollow
<1>4. PiecesInOrder /\ NothingMissing
  BY DEF PiecesInOrder, NothingMissing, Ascending, Before, ToSet, Due, NumberedFrom
<1> QED
  BY <1>1, <1>3, <1>4 DEF IInv

LEMMA AroundArePackets ==
  ASSUME TypeOK
  PROVE  Around \subseteq Packets
<1>1. /\ sendQueue \in Seq(Packets) /\ network \in Seq(Packets) /\ unpackaged \in Seq(Packets)
      /\ output \in Seq([packets : Seq(Packets), dts : Int])
  BY DEF TypeOK
<1>2. \A k \in DOMAIN output : ToSet(output[k].packets) \subseteq Packets
  <2> SUFFICES ASSUME NEW k \in DOMAIN output PROVE ToSet(output[k].packets) \subseteq Packets
    OBVIOUS
  <2>1. output[k] \in [packets : Seq(Packets), dts : Int]
    BY <1>1, ElementType
  <2>2. output[k].packets \in Seq(Packets)
    BY <2>1
  <2> QED
    BY <2>2, ElementsOf
<1>3. ToSet(sendQueue) \subseteq Packets /\ ToSet(network) \subseteq Packets
      /\ ToSet(unpackaged) \subseteq Packets
  BY <1>1, ElementsOf
<1> QED
  BY <1>2, <1>3 DEF Around

LEMMA PacketFields ==
  ASSUME NEW p \in Packets
  PROVE  /\ p.marker \in BOOLEAN /\ p.timestamp \in 0 .. TsModulus - 1 /\ p.seq \in Nat
         /\ p.frame \in 1 .. MaxFrames /\ p.fragment \in FragmentType
         /\ p.fragment.position \in Nat /\ p.fragment.size \in 1 .. ChunkSize
         /\ p.fragment.size \in Nat \ {0}
<1>1. /\ p.marker \in BOOLEAN /\ p.timestamp \in 0 .. TsModulus - 1 /\ p.seq \in Nat
      /\ p.frame \in 1 .. MaxFrames /\ p.fragment \in FragmentType
  BY DEF Packets, FragmentType
<1>2. p.fragment.position \in Nat /\ p.fragment.size \in 1 .. ChunkSize
  BY <1>1 DEF FragmentType
<1> QED
  BY <1>1, <1>2, RtpAssumption

LEMMA TimestampInRange ==
  ASSUME NEW ms \in Int
  PROVE  Timestamp(ms) \in 0 .. TsModulus - 1
<1>1. ms * TicksPerMs \in Int /\ TsModulus \in Nat \ {0}
  BY RtpAssumption
<1> QED
  BY <1>1 DEF Timestamp

\* A step of the Sender's thread, the network or the far end leaves the frames
\* alone and makes no packet.
LEMMA PacketsMove ==
  ASSUME FragmentsFollow, PacketsFollow, UNCHANGED packager, Around' \subseteq Around
  PROVE  FragmentsFollow' /\ PacketsFollow'
<1>1. /\ frames' = frames /\ fragmentQueue' = fragmentQueue
      /\ stamp' = stamp /\ videoSeqNum' = videoSeqNum /\ Packet' = Packet
  BY DEF packager, Packet, LastPacket
<1>2. FragmentsFollow'
  BY <1>1 DEF FragmentsFollow, Join
<1>3. PacketsFollow'
  <2>1. \A p, q : Follows(p, q)' <=> Follows(p, q)
    BY DEF Follows
  <2>2. \A p : Follows(p, Packet)' <=> Follows(p, Packet)
    BY <1>1 DEF Follows
  <2>3. \A p \in Around' : p \in Around
    OBVIOUS
  <2>4. ASSUME NEW p \in Around
        PROVE  /\ p.seq < videoSeqNum' /\ p.frame <= Len(frames')
               /\ p.seq = 0 => p.frame = 1 /\ p.fragment.position = 0
               /\ p.marker => p.fragment.position + p.fragment.size = frames'[p.frame].size
               /\ frames'[p.frame].dts # 0 => p.timestamp = Timestamp(frames'[p.frame].dts)
               /\ p.seq + 1 = videoSeqNum' =>
                    IF fragmentQueue' = <<>> THEN p.marker /\ p.frame = Len(frames')
                                             ELSE Follows(p, Packet)'
               /\ \A q \in Around : q.seq = p.seq + 1 => Follows(p, q)
    BY <1>1, <2>2 DEF PacketsFollow
  <2>5. videoSeqNum' = 0 /\ fragmentQueue' = <<>> => frames' = <<>>
    BY <1>1 DEF PacketsFollow
  <2> QED
    BY <2>1, <2>3, <2>4, <2>5 DEF PacketsFollow, Timestamp
<1> QED
  BY <1>2, <1>3

\* Packets that are all there make up a whole frame if a unit ended before them.
LEMMA WholeFrame ==
  ASSUME TypeOK, PacketsFollow, NEW u \in Seq(Packets), u # <<>>, ToSet(u) \subseteq Around,
         \A i \in DOMAIN u : u[i].marker <=> i = Len(u),
         NEW n \in Nat, NumberedFrom(u, n),
         n # 0 => \E p \in Around : p.marker /\ p.seq = n - 1
  PROVE  /\ IsFrame(u, u[1].frame) /\ u[1].frame <= Len(frames)
         /\ n = 0 => u[1].frame = 1
         /\ \A p \in Around : p.marker /\ p.seq = n - 1 => u[1].frame = p.frame + 1
<1>1. /\ Len(u) \in Nat \ {0} /\ DOMAIN u = 1 .. Len(u)
      /\ \A i \in 1 .. Len(u) : u[i] \in Around /\ u[i] \in Packets /\ u[i].seq = n + i - 1
  BY DEF ToSet, NumberedFrom
<1>2. u[1].fragment.position = 0
  <2>1. u[1].seq = n /\ u[1] \in Around
    BY <1>1
  <2>2. CASE n = 0
    BY <2>1, <2>2 DEF PacketsFollow
  <2>3. CASE n # 0
    <3>1. PICK p \in Around : p.marker /\ p.seq = n - 1
      BY <2>3
    <3>2. u[1].seq = p.seq + 1
      BY <2>1, <3>1
    <3>3. Follows(p, u[1])
      BY <2>1, <3>2 DEF PacketsFollow
    <3> QED
      BY <3>1, <3>3 DEF Follows
  <2> QED
    BY <2>2, <2>3
<1>3. /\ n = 0 => u[1].frame = 1
      /\ \A p \in Around : p.marker /\ p.seq = n - 1 => u[1].frame = p.frame + 1
  <2>1. u[1].seq = n /\ u[1] \in Around
    BY <1>1
  <2>2. ASSUME NEW p \in Around, p.marker, p.seq = n - 1 PROVE u[1].frame = p.frame + 1
    <3>1. u[1].seq = p.seq + 1
      BY <2>1, <2>2
    <3> QED
      BY <2>1, <2>2, <3>1 DEF PacketsFollow, Follows
  <2> QED
    BY <2>1, <2>2 DEF PacketsFollow
<1>4. ASSUME NEW i \in 1 .. Len(u) - 1
      PROVE  /\ u[i + 1].frame = u[i].frame
             /\ u[i + 1].fragment.position = u[i].fragment.position + u[i].fragment.size
  <2>1. i \in 1 .. Len(u) /\ i + 1 \in 1 .. Len(u) /\ i # Len(u)
    BY <1>1
  <2>2. u[i] \in Around /\ u[i + 1] \in Around /\ ~u[i].marker /\ u[i + 1].seq = u[i].seq + 1
    <3>1. u[i] \in Around /\ u[i + 1] \in Around
      BY <1>1, <2>1
    <3>2. u[i].seq = n + i - 1 /\ u[i + 1].seq = n + (i + 1) - 1
      BY <1>1, <2>1
    <3>3. ~u[i].marker
      BY <1>1, <2>1
    <3> QED
      BY <3>1, <3>2, <3>3
  <2>3. Follows(u[i], u[i + 1])
    BY <2>2 DEF PacketsFollow
  <2> QED
    BY <2>2, <2>3 DEF Follows
<1>5. \A i \in 1 .. Len(u) : u[i].frame = u[1].frame
  <2> DEFINE W == {i \in 1 .. Len(u) : u[i].frame # u[1].frame}
  <2> SUFFICES ASSUME W # {} PROVE FALSE
    OBVIOUS
  <2>1. PICK m \in W : \A i \in W : m <= i
    <3>1. W \in SUBSET Nat
      OBVIOUS
    <3> HIDE DEF W
    <3> QED
      BY <3>1, LeastExists
  <2>2. m \in 1 .. Len(u) /\ m # 1 /\ m - 1 \in 1 .. Len(u) - 1 /\ m - 1 \notin W
    BY <1>1, <2>1
  <2>3. u[m - 1].frame = u[1].frame /\ u[m].frame = u[m - 1].frame
    <3>1. PICK j \in 1 .. Len(u) - 1 : j = m - 1
      BY <2>2
    <3>2. u[j + 1].frame = u[j].frame /\ j + 1 = m /\ j \in 1 .. Len(u)
      BY <1>1, <1>4, <2>2, <3>1
    <3> QED
      BY <2>2, <3>1, <3>2
  <2> QED
    BY <2>1, <2>3
<1>6. u[Len(u)] \in Around /\ u[Len(u)].marker
  BY <1>1
<1>7. u[Len(u)].fragment.position + u[Len(u)].fragment.size = frames[u[1].frame].size
  <2> DEFINE last == u[Len(u)]
  <2>1. last.frame = u[1].frame
    <3>1. Len(u) \in 1 .. Len(u)
      BY <1>1
    <3> QED
      BY <1>5, <3>1
  <2>2. last \in Around /\ last.marker
    BY <1>6
  <2> HIDE DEF last
  <2>3. last.fragment.position + last.fragment.size = frames[last.frame].size
    BY <2>2 DEF PacketsFollow
  <2> QED
    BY <2>1, <2>3 DEF last
<1>8. u[1].frame <= Len(frames)
  BY <1>1 DEF PacketsFollow
<1>9. IsFrame(u, u[1].frame)
  BY <1>1, <1>2, <1>4, <1>5, <1>7 DEF IsFrame, Last
<1> QED
  BY <1>3, <1>8, <1>9

------------------------------------------------------------------------------
(* Packager's steps.                                                       *)

LEMMA ReceivePacketIInv == IInv /\ ReceivePacket => IInv'
<1> SUFFICES ASSUME IInv, ReceivePacket PROVE IInv'
  OBVIOUS
<1>1. PICK frame \in FrameKinds :
        /\ frames' = Append(frames, frame)
        /\ fragmentQueue' = Fragments(frame.size)
        /\ IF frame.dts = 0
           THEN \E millis \in Clock : stamp' = Timestamp(millis)
           ELSE stamp' = Timestamp(frame.dts)
  BY DEF ReceivePacket
<1>2. /\ UNCHANGED <<videoSeqNum, sendQueue, network, receiving, unpackager, faults>>
      /\ fragmentQueue = <<>> /\ Len(frames) < MaxFrames
  BY DEF ReceivePacket
<1> DEFINE n == Len(frames) + 1
<1>3. /\ frame.size \in Nat \ {0} /\ frame.dts \in Int /\ frames \in Seq(FrameKinds)
      /\ n \in Nat \ {0} /\ n \in 1 .. MaxFrames
  <2>1. frame \in [size : Nat \ {0}, dts : Int] /\ MaxFrames \in Nat
    BY RtpAssumption
  <2>2. frame.size \in Nat \ {0} /\ frame.dts \in Int
    BY <2>1
  <2>3. frames \in Seq(FrameKinds)
    BY DEF IInv, TypeOK
  <2>4. Len(frames) \in Nat
    BY <2>3
  <2> QED
    BY <1>2, <2>1, <2>2, <2>3, <2>4
<1>4. /\ frames' \in Seq(FrameKinds) /\ Len(frames') = n /\ frames'[n] = frame /\ frames' # <<>>
      /\ \A i \in 1 .. Len(frames) : frames'[i] = frames[i]
  <2>1. frames' # <<>>
    BY <1>1, <1>3
  <2> QED
    BY <1>1, <1>3, <2>1, AppendElements
<1>5. /\ fragmentQueue' \in Seq(FragmentType) /\ fragmentQueue' # <<>>
      /\ Head(fragmentQueue') = fragmentQueue'[1] /\ fragmentQueue'[1].position = 0
      /\ Join(fragmentQueue', frame.size)
  <2>1. fragmentQueue' \in Seq(FragmentType) /\ fragmentQueue' # <<>>
        /\ fragmentQueue'[1].position = 0 /\ Join(fragmentQueue', frame.size)
    BY <1>1, <1>3, FragmentsJoin
  <2> QED
    BY <2>1, FirstElement
<1>6. stamp' \in 0 .. TsModulus - 1 /\ (frame.dts # 0 => stamp' = Timestamp(frame.dts))
  <2>1. \A millis \in Clock : millis \in Int
    BY RtpAssumption
  <2> QED
    BY <1>1, <1>3, <2>1, TimestampInRange
<1>7. TypeOK'
  <2>1. Len(frames') <= MaxFrames
    BY <1>3, <1>4
  <2> QED
    BY <1>2, <1>4, <1>5, <1>6, <2>1 DEF IInv, TypeOK, unpackager, faults, FragmentType
<1>8. FragmentsFollow'
  <2>1. videoSeqNum = 0 => n = 1
    BY <1>2 DEF IInv, PacketsFollow
  <2> QED
    BY <1>2, <1>4, <1>5, <1>6, <2>1 DEF FragmentsFollow, Timestamp, Join
<1>9. Around' = Around /\ \A p \in Around : p.frame \in 1 .. Len(frames) /\ frames'[p.frame] = frames[p.frame]
  <2>1. \A p \in Around : p.frame \in 1 .. MaxFrames /\ p.frame <= Len(frames)
    BY AroundArePackets, PacketFields DEF IInv, PacketsFollow
  <2> QED
    BY <1>2, <1>3, <1>4, <2>1 DEF Around, unpackager
<1>10. PacketsFollow'
  <2>1. Packet'.frame = n /\ Packet'.fragment.position = 0
    BY <1>4, <1>5 DEF Packet
  <2>2. ASSUME NEW p \in Around
        PROVE  /\ p.seq < videoSeqNum' /\ p.frame <= Len(frames')
               /\ p.seq = 0 => p.frame = 1 /\ p.fragment.position = 0
               /\ p.marker => p.fragment.position + p.fragment.size = frames'[p.frame].size
               /\ frames'[p.frame].dts # 0 => p.timestamp = Timestamp(frames'[p.frame].dts)
               /\ p.seq + 1 = videoSeqNum' => Follows(p, Packet')
               /\ \A q \in Around : q.seq = p.seq + 1 => Follows(p, q)
    <3>1. p.seq + 1 = videoSeqNum => p.marker /\ p.frame = Len(frames)
      BY <1>2 DEF IInv, PacketsFollow
    <3>2. p.seq + 1 = videoSeqNum => Follows(p, Packet')
      BY <2>1, <3>1 DEF Follows
    <3>3. p.frame <= Len(frames')
      BY <1>3, <1>4, <1>9
    <3> QED
      BY <1>2, <1>9, <3>2, <3>3 DEF IInv, PacketsFollow
  <2>3. \A p, q : Follows(p, q)' <=> Follows(p, q)
    BY DEF Follows
  <2>4. \A p : Follows(p, Packet)' <=> Follows(p, Packet')
    BY DEF Follows
  <2> QED
    BY <1>5, <1>9, <2>2, <2>3, <2>4 DEF PacketsFollow, Timestamp
<1>11. UnitsFollow' /\ PiecesInOrder'
  BY <1>2 DEF IInv, UnitsFollow, End, PiecesInOrder, unpackager, faults, Quotient, Ascending, Before
<1>12. NothingMissing'
  <2>1. ASSUME dropped + lost + shuffled = 0, NEW k \in DOMAIN output
        PROVE  IsFrame(output[k].packets, k)' /\ k <= Len(frames')
    <3>1. IsFrame(output[k].packets, k) /\ k <= Len(frames) /\ k \in Nat \ {0}
      BY <2>1 DEF IInv, NothingMissing, TypeOK
    <3>2. frames'[k] = frames[k] /\ k <= Len(frames')
      BY <1>3, <1>4, <3>1
    <3> QED
      BY <1>2, <3>1, <3>2 DEF IsFrame, unpackager
  <2> QED
    BY <1>2, <2>1 DEF IInv, NothingMissing, NumberedFrom, Due, End, unpackager, faults
<1> QED
  BY <1>7, <1>8, <1>10, <1>11, <1>12 DEF IInv

\* A unit is not empty, and ends with a packet.
LEMMA EndIsAround ==
  ASSUME TypeOK, UnitsFollow, NEW k \in DOMAIN output
  PROVE  /\ output[k].packets \in Seq(Packets) /\ output[k].packets # <<>>
         /\ End(k) \in Around /\ End(k) \in Packets /\ End(k).marker
         /\ Len(output[k].packets) \in DOMAIN output[k].packets
<1>1. output[k].packets \in Seq(Packets)
  <2>1. output \in Seq([packets : Seq(Packets), dts : Int])
    BY DEF TypeOK
  <2>2. output[k] \in [packets : Seq(Packets), dts : Int]
    BY <2>1, ElementType
  <2> QED
    BY <2>2
<1>2. output[k].packets # <<>>
  BY DEF UnitsFollow
<1> DEFINE u == output[k].packets
<1>3. Len(u) \in DOMAIN u /\ u[Len(u)] \in Packets
  BY <1>1, <1>2
<1>4. u[Len(u)] \in Around
  BY <1>3 DEF Around, ToSet
<1>5. u[Len(u)].marker
  BY <1>3 DEF UnitsFollow
<1> QED
  BY <1>1, <1>2, <1>3, <1>4, <1>5 DEF End

\* The last unit is there once there is one.
LEMMA LastUnit ==
  ASSUME TypeOK, output # <<>>
  PROVE  Len(output) \in DOMAIN output /\ 1 \in DOMAIN output
BY DEF TypeOK

LEMMA DueIsNat ==
  ASSUME TypeOK, UnitsFollow
  PROVE  Due \in Nat
<1>1. CASE output = <<>>
  BY <1>1 DEF Due
<1>2. CASE output # <<>>
  <2>1. End(Len(output)) \in Packets
    BY <1>2, EndIsAround, LastUnit
  <2>2. End(Len(output)).seq \in Nat
    BY <2>1, PacketFields
  <2> QED
    BY <1>2, <2>2 DEF Due
<1> QED
  BY <1>1, <1>2

LEMMA SendFragmentIInv == IInv /\ SendFragment => IInv'
<1> SUFFICES ASSUME IInv, SendFragment PROVE IInv'
  OBVIOUS
<1> DEFINE fq == fragmentQueue
<1>1. /\ fq # <<>> /\ fragmentQueue' = Tail(fq) /\ videoSeqNum' = videoSeqNum + 1
      /\ UNCHANGED <<frames, stamp, network, receiving, unpackager, lost, shuffled>>
      /\ \/ /\ Len(sendQueue) < QueueLimit
            /\ sendQueue' = Append(sendQueue, Packet) /\ dropped' = dropped
         \/ dropped' = dropped + 1 /\ sendQueue' = sendQueue
  BY DEF SendFragment
<1>2. /\ fq \in Seq(FragmentType) /\ frames \in Seq(FrameKinds) /\ videoSeqNum \in Nat
      /\ stamp \in 0 .. TsModulus - 1 /\ sendQueue \in Seq(Packets) /\ dropped \in Nat
      /\ lost \in Nat /\ shuffled \in Nat
  BY DEF IInv, TypeOK, FragmentType
<1>3. /\ frames # <<>> /\ Join(fq, frames[Len(frames)].size)
      /\ frames[Len(frames)].dts # 0 => stamp = Timestamp(frames[Len(frames)].dts)
      /\ videoSeqNum = 0 => Len(frames) = 1 /\ Head(fq).position = 0
  BY <1>1 DEF IInv, FragmentsFollow
<1>4. /\ Len(fq) \in Nat \ {0} /\ DOMAIN fq = 1 .. Len(fq)
      /\ Tail(fq) \in Seq(FragmentType) /\ Len(Tail(fq)) = Len(fq) - 1
      /\ \A i \in 1 .. Len(fq) - 1 : Tail(fq)[i] = fq[i + 1]
      /\ Head(fq) = fq[1] /\ Head(fq) \in FragmentType
  BY <1>1, <1>2, TailElements
<1>5. /\ frames' = frames /\ stamp' = stamp /\ network' = network
      /\ unpackaged' = unpackaged /\ output' = output
      /\ first_video_timestamp' = first_video_timestamp
      /\ lost' = lost /\ shuffled' = shuffled /\ receiving' = receiving
  BY <1>1 DEF unpackager
<1> DEFINE l == Len(frames)
<1>6. /\ l \in 1 .. MaxFrames /\ l \in Nat \ {0}
      /\ l <= Len(frames)
  <2>1. l \in Nat \ {0} /\ l <= MaxFrames
    BY <1>2, <1>3 DEF IInv, TypeOK
  <2> QED
    BY <2>1, RtpAssumption
<1>7. /\ Packet.marker = (Len(fq) = 1) /\ Packet.timestamp = stamp
      /\ Packet.seq = videoSeqNum /\ Packet.frame = l /\ Packet.fragment = Head(fq)
      /\ Packet \in Packets
  <2>1. Head(fq) \in [position : Nat, size : 1 .. ChunkSize] /\ LastPacket = (Len(fq) = 1)
    BY <1>4 DEF FragmentType, LastPacket
  <2> QED
    BY <1>2, <1>6, <2>1 DEF Packet, Packets
<1>8. /\ sendQueue' \in Seq(Packets) /\ Len(sendQueue') <= QueueLimit
      /\ dropped' \in Nat
      /\ ToSet(sendQueue') \subseteq ToSet(sendQueue) \cup {Packet}
  <2>1. CASE sendQueue' = Append(sendQueue, Packet) /\ Len(sendQueue) < QueueLimit
             /\ dropped' = dropped
    <3>1. Len(sendQueue) + 1 <= QueueLimit
      BY <1>2, <2>1, RtpAssumption
    <3> QED
      BY <1>2, <1>7, <2>1, <3>1, AppendElements
  <2>2. CASE dropped' = dropped + 1 /\ sendQueue' = sendQueue
    BY <1>2, <2>2 DEF IInv, TypeOK
  <2> QED
    BY <1>1, <2>1, <2>2
<1>9. Around' \subseteq Around \cup {Packet}
  BY <1>5, <1>8 DEF Around
<1>10. TypeOK'
  BY <1>1, <1>2, <1>4, <1>5, <1>8 DEF IInv, TypeOK, FragmentType
<1>11. FragmentsFollow'
  <2>1. ASSUME Tail(fq) # <<>> PROVE Join(Tail(fq), frames[l].size)
    <3> DEFINE t == Tail(fq)
    <3>1. /\ Len(t) = Len(fq) - 1 /\ Len(t) \in Nat \ {0}
          /\ \A i \in 1 .. Len(fq) - 1 : t[i] = fq[i + 1]
      BY <1>4, <2>1
    <3>2. \A i \in 1 .. Len(fq) - 1 : fq[i + 1].position = fq[i].position + fq[i].size
      BY <1>3 DEF Join
    <3>3. fq[Len(fq)].position + fq[Len(fq)].size = frames[l].size
      BY <1>1, <1>3 DEF Join
    <3>4. t[Len(t)] = fq[Len(fq)]
      BY <3>1
    <3>5. ASSUME NEW i \in 1 .. Len(t) - 1
          PROVE  t[i + 1].position = t[i].position + t[i].size
      <4>1. PICK j \in 1 .. Len(fq) - 1 : j = i + 1 /\ i \in 1 .. Len(fq) - 1
        BY <3>1
      <4>2. t[i] = fq[j] /\ t[i + 1] = fq[j + 1]
        BY <3>1, <4>1
      <4> QED
        BY <3>2, <4>2
    <3> HIDE DEF t
    <3> QED
      BY <3>1, <3>3, <3>4, <3>5 DEF Join, t
  <2>2. videoSeqNum' # 0
    BY <1>1, <1>2
  <2> QED
    BY <1>1, <1>3, <1>5, <2>1, <2>2 DEF FragmentsFollow, Join, Timestamp
<1>12. \A p \in Around : p.seq < videoSeqNum /\ p.seq \in Nat
  BY AroundArePackets, PacketFields DEF IInv, PacketsFollow
<1>13. ASSUME Tail(fq) # <<>> PROVE Follows(Packet, Packet')
  <2>1. Len(fq) # 1 /\ 1 \in 1 .. Len(fq) - 1
    BY <1>4, <1>13
  <2>2. fq[2].position = fq[1].position + fq[1].size
    BY <1>3, <2>1 DEF Join
  <2>3. Head(Tail(fq)) = fq[2]
    BY <1>4, <1>13, <2>1
  <2>4. Packet'.frame = l /\ Packet'.fragment = Head(Tail(fq))
    BY <1>1, <1>5 DEF Packet
  <2>5. ~Packet.marker
    BY <1>7, <2>1
  <2> QED
    BY <1>4, <1>7, <2>2, <2>3, <2>4, <2>5 DEF Follows
<1>14. PacketsFollow'
  <2>1. ASSUME NEW p \in Around \cup {Packet}
        PROVE  /\ p.seq < videoSeqNum + 1 /\ p.frame <= Len(frames)
               /\ p.seq = 0 => p.frame = 1 /\ p.fragment.position = 0
               /\ p.marker => p.fragment.position + p.fragment.size = frames[p.frame].size
               /\ frames[p.frame].dts # 0 => p.timestamp = Timestamp(frames[p.frame].dts)
               /\ p.seq + 1 = videoSeqNum + 1 =>
                    IF Tail(fq) = <<>> THEN p.marker /\ p.frame = Len(frames)
                                       ELSE Follows(p, Packet')
               /\ \A q \in Around \cup {Packet} : q.seq = p.seq + 1 => Follows(p, q)
    <3>1. CASE p = Packet
      <4>1. Packet.seq < videoSeqNum + 1 /\ Packet.frame <= Len(frames)
        BY <1>2, <1>6, <1>7
      <4>2. Packet.seq = 0 => Packet.frame = 1 /\ Packet.fragment.position = 0
        BY <1>3, <1>7
      <4>3. Packet.marker =>
              Packet.fragment.position + Packet.fragment.size = frames[Packet.frame].size
        BY <1>1, <1>3, <1>4, <1>7 DEF Join
      <4>4. frames[Packet.frame].dts # 0 =>
              Packet.timestamp = Timestamp(frames[Packet.frame].dts)
        BY <1>3, <1>7
      <4>5. IF Tail(fq) = <<>> THEN Packet.marker /\ Packet.frame = Len(frames)
                               ELSE Follows(Packet, Packet')
        <5>1. Tail(fq) = <<>> => Len(fq) = 1
          BY <1>4
        <5> QED
          BY <1>7, <1>13, <5>1
      <4>6. \A q \in Around \cup {Packet} : q.seq # Packet.seq + 1
        BY <1>2, <1>7, <1>12
      <4> QED
        BY <3>1, <4>1, <4>2, <4>3, <4>4, <4>5, <4>6
    <3>2. CASE p \in Around
      <4>1. p.seq < videoSeqNum + 1 /\ p.seq + 1 # videoSeqNum + 1
        BY <1>2, <1>12, <3>2
      <4>2. Packet.seq = p.seq + 1 => Follows(p, Packet)
        BY <1>1, <1>7, <3>2 DEF IInv, PacketsFollow
      <4> QED
        BY <3>2, <4>1, <4>2 DEF IInv, PacketsFollow
    <3> QED
      BY <3>1, <3>2
  <2>2. \A p, q : Follows(p, q)' <=> Follows(p, q)
    BY DEF Follows
  <2>3. \A p : Follows(p, Packet)' <=> Follows(p, Packet')
    BY DEF Follows
  <2>4. videoSeqNum' # 0
    BY <1>1, <1>2
  <2>5. \A p \in Around' : p \in Around \cup {Packet}
    BY <1>9
  <2>6. frames' = frames /\ videoSeqNum' = videoSeqNum + 1 /\ fragmentQueue' = Tail(fq)
    BY <1>1, <1>5
  <2> QED
    BY <2>1, <2>2, <2>3, <2>4, <2>5, <2>6 DEF PacketsFollow, Timestamp
<1>15. UnitsFollow'
  BY <1>5 DEF IInv, UnitsFollow, End, Quotient
<1>16. PiecesInOrder'
  <2> SUFFICES ASSUME shuffled = 0 PROVE PiecesInOrder'
    BY <1>5 DEF PiecesInOrder
  <2>1. Ascending(sendQueue')
    <3>1. CASE sendQueue' = Append(sendQueue, Packet)
      <4>1. /\ DOMAIN sendQueue' = 1 .. Len(sendQueue) + 1 /\ Len(sendQueue) \in Nat
            /\ DOMAIN sendQueue = 1 .. Len(sendQueue)
            /\ sendQueue'[Len(sendQueue) + 1] = Packet
            /\ \A i \in 1 .. Len(sendQueue) : sendQueue'[i] = sendQueue[i]
        BY <1>2, <1>7, <3>1, AppendElements
      <4>2. \A i \in 1 .. Len(sendQueue) : sendQueue[i].seq < videoSeqNum
        BY <1>12, <4>1 DEF Around, ToSet
      <4>3. \A a, b \in 1 .. Len(sendQueue) + 1 : a < b => a \in 1 .. Len(sendQueue)
              /\ (b \in 1 .. Len(sendQueue) \/ b = Len(sendQueue) + 1)
        BY <4>1
      <4> QED
        BY <1>7, <4>1, <4>2, <4>3 DEF IInv, PiecesInOrder, Ascending
    <3>2. CASE sendQueue' = sendQueue
      BY <3>2 DEF IInv, PiecesInOrder
    <3> QED
      BY <1>1, <3>1, <3>2
  <2>2. ASSUME NEW s, ToSet(s) \subseteq Around, Before(s, sendQueue)
        PROVE  Before(s, sendQueue')
    BY <1>7, <1>8, <1>12, <2>2 DEF Before
  <2>3. ToSet(unpackaged) \subseteq Around /\ ToSet(network) \subseteq Around
        /\ \A k \in DOMAIN output : ToSet(output[k].packets) \subseteq Around
    BY DEF Around
  <2> QED
    BY <1>5, <2>1, <2>2, <2>3 DEF IInv, PiecesInOrder, Ascending, Before
<1>17. NothingMissing'
  <2> SUFFICES ASSUME dropped' + lost + shuffled = 0 PROVE NothingMissing'
    BY <1>5 DEF NothingMissing
  <2>1. /\ dropped = 0 /\ dropped + lost + shuffled = 0
        /\ sendQueue' = Append(sendQueue, Packet)
    <3>1. dropped \in Nat /\ dropped' \in Nat /\ lost \in Nat /\ shuffled \in Nat
      BY <1>2, <1>8
    <3>2. dropped' = 0 /\ lost = 0 /\ shuffled = 0
      BY <3>1, SumIsZero
    <3>3. dropped' # dropped + 1
      BY <3>1, <3>2
    <3>4. sendQueue' = Append(sendQueue, Packet) /\ dropped' = dropped
      BY <1>1, <3>3
    <3> QED
      BY <3>1, <3>2, <3>4
  <2> DEFINE base == Due + Len(unpackaged) + Len(network)
  <2>2. /\ DOMAIN sendQueue' = 1 .. Len(sendQueue) + 1 /\ Len(sendQueue) \in Nat
        /\ DOMAIN sendQueue = 1 .. Len(sendQueue)
        /\ Len(sendQueue') = Len(sendQueue) + 1
        /\ sendQueue'[Len(sendQueue) + 1] = Packet
        /\ \A i \in 1 .. Len(sendQueue) : sendQueue'[i] = sendQueue[i]
    BY <1>2, <1>7, <2>1, AppendElements
  <2>3. /\ NumberedFrom(sendQueue, base) /\ videoSeqNum = base + Len(sendQueue)
        /\ NumberedFrom(unpackaged, Due)
        /\ NumberedFrom(network, Due + Len(unpackaged))
        /\ \A k \in DOMAIN output : output[k].packets[1].frame = k
              /\ IsFrame(output[k].packets, k) /\ k <= Len(frames)
    BY <2>1 DEF IInv, NothingMissing
  <2>4. base \in Int
    <3>1. Due \in Int
      BY DueIsNat DEF IInv
    <3>2. Len(unpackaged) \in Nat /\ Len(network) \in Nat
      BY DEF IInv, TypeOK
    <3> HIDE DEF Due
    <3> QED
      BY <3>1, <3>2
  <2> HIDE DEF base
  <2>5. ASSUME NEW i \in DOMAIN sendQueue' PROVE sendQueue'[i].seq = base + i - 1
    <3>1. CASE i \in 1 .. Len(sendQueue)
      BY <2>2, <2>3, <3>1 DEF NumberedFrom
    <3>2. CASE i = Len(sendQueue) + 1
      BY <1>7, <2>2, <2>3, <2>4, <3>2
    <3> QED
      BY <2>2, <3>1, <3>2
  <2>6. videoSeqNum + 1 = base + Len(sendQueue')
    BY <2>2, <2>3, <2>4
  <2>7. Due' = Due /\ (base = Due + Len(unpackaged) + Len(network))
    BY <1>5 DEF Due, End, base
  <2>8. \A k \in DOMAIN output : IsFrame(output[k].packets, k)'
    BY <1>5, <2>3 DEF IsFrame
  <2> HIDE DEF Due
  <2> QED
    BY <1>1, <1>5, <2>3, <2>5, <2>6, <2>7, <2>8 DEF NothingMissing, NumberedFrom
<1> QED
  BY <1>10, <1>11, <1>14, <1>15, <1>16, <1>17 DEF IInv

------------------------------------------------------------------------------
(* The steps of the Sender's thread and of the network.                    *)

LEMMA SendLoopIInv == IInv /\ SendLoop => IInv'
<1> SUFFICES ASSUME IInv, SendLoop PROVE IInv'
  OBVIOUS
<1> DEFINE p == Head(sendQueue)
           nl == Len(network)
           sl == Len(sendQueue)
<1>1. /\ sendQueue # <<>> /\ network' = Append(network, p) /\ sendQueue' = Tail(sendQueue)
      /\ UNCHANGED packager /\ receiving' = receiving /\ unpackaged' = unpackaged
      /\ first_video_timestamp' = first_video_timestamp /\ output' = output
      /\ dropped' = dropped /\ lost' = lost /\ shuffled' = shuffled
  BY DEF SendLoop, Pop, unpackager, faults
<1>2. /\ sl \in Nat \ {0} /\ DOMAIN sendQueue = 1 .. sl
      /\ Tail(sendQueue) \in Seq(Packets) /\ Len(Tail(sendQueue)) = sl - 1
      /\ DOMAIN Tail(sendQueue) = 1 .. sl - 1
      /\ \A i \in 1 .. sl - 1 : Tail(sendQueue)[i] = sendQueue[i + 1]
      /\ p = sendQueue[1] /\ p \in ToSet(sendQueue) /\ p \in Packets
      /\ ToSet(Tail(sendQueue)) \subseteq ToSet(sendQueue)
  BY <1>1, TailElements DEF IInv, TypeOK
<1>3. /\ network' \in Seq(Packets) /\ Len(network') = nl + 1 /\ nl \in Nat
      /\ DOMAIN network' = 1 .. nl + 1 /\ DOMAIN network = 1 .. nl
      /\ \A i \in 1 .. nl : network'[i] = network[i]
      /\ network'[nl + 1] = p
      /\ ToSet(network') = ToSet(network) \cup {p}
  BY <1>1, <1>2, AppendElements DEF IInv, TypeOK
<1>4. TypeOK'
  <2>1. sl - 1 <= QueueLimit
    BY <1>2, RtpAssumption DEF IInv, TypeOK
  <2> QED
    BY <1>1, <1>2, <1>3, <2>1 DEF IInv, TypeOK, packager
<1>5. Around' \subseteq Around
  BY <1>1, <1>2, <1>3 DEF Around
<1>6. FragmentsFollow' /\ PacketsFollow'
  BY <1>1, <1>5, PacketsMove DEF IInv
<1>7. UnitsFollow'
  BY <1>1 DEF IInv, UnitsFollow, End, Quotient
<1>8. PiecesInOrder'
  <2> SUFFICES ASSUME shuffled = 0 PROVE PiecesInOrder'
    BY <1>1 DEF PiecesInOrder
  <2>1. /\ Ascending(unpackaged) /\ Ascending(network) /\ Ascending(sendQueue)
        /\ Before(unpackaged, network) /\ Before(unpackaged, sendQueue)
        /\ Before(network, sendQueue)
        /\ \A k \in DOMAIN output :
             /\ Ascending(output[k].packets)
             /\ Before(output[k].packets, unpackaged) /\ Before(output[k].packets, network)
             /\ Before(output[k].packets, sendQueue)
             /\ \A j \in DOMAIN output : j < k => Before(output[j].packets, output[k].packets)
    BY DEF IInv, PiecesInOrder
  <2>2. Ascending(network')
    <3>1. \A i \in 1 .. nl : network[i].seq < p.seq
      BY <1>2, <1>3, <2>1 DEF Before, ToSet
    <3>2. \A a, b \in 1 .. nl + 1 : a < b => a \in 1 .. nl /\ (b \in 1 .. nl \/ b = nl + 1)
      BY <1>3
    <3> QED
      BY <1>3, <2>1, <3>1, <3>2 DEF Ascending
  <2>3. Ascending(Tail(sendQueue)) /\ \A q \in ToSet(Tail(sendQueue)) : p.seq < q.seq
    <3>1. \A i \in 1 .. sl - 1 : i + 1 \in 1 .. sl /\ 1 \in 1 .. sl /\ 1 < i + 1
      BY <1>2
    <3>2. \A i \in 1 .. sl - 1 : p.seq < Tail(sendQueue)[i].seq
      BY <1>2, <2>1, <3>1 DEF Ascending
    <3>3. \A a, b \in 1 .. sl - 1 : a < b => a + 1 < b + 1
      BY <1>2
    <3>4. \A a, b \in 1 .. sl - 1 : a < b => Tail(sendQueue)[a].seq < Tail(sendQueue)[b].seq
      BY <1>2, <2>1, <3>1, <3>3 DEF Ascending
    <3> QED
      BY <1>2, <3>2, <3>4 DEF Ascending, ToSet
  <2>4. Before(network', Tail(sendQueue))
    BY <1>2, <1>3, <2>1, <2>3 DEF Before
  <2>5. \A s : Before(s, network) /\ Before(s, sendQueue)
                 => Before(s, network') /\ Before(s, Tail(sendQueue))
    BY <1>2, <1>3 DEF Before
  <2> QED
    BY <1>1, <2>1, <2>2, <2>3, <2>4, <2>5 DEF PiecesInOrder, Ascending, Before
<1>9. NothingMissing'
  <2> SUFFICES ASSUME dropped + lost + shuffled = 0 PROVE NothingMissing'
    BY <1>1 DEF NothingMissing
  <2> DEFINE base == Due + Len(unpackaged)
  <2>1. /\ NumberedFrom(unpackaged, Due) /\ NumberedFrom(network, base)
        /\ NumberedFrom(sendQueue, base + nl)
        /\ videoSeqNum = base + nl + sl
        /\ \A k \in DOMAIN output : output[k].packets[1].frame = k
              /\ IsFrame(output[k].packets, k) /\ k <= Len(frames)
    BY DEF IInv, NothingMissing
  <2>2. base \in Int
    BY DueIsNat DEF IInv, TypeOK
  <2>3. base = Due + Len(unpackaged) /\ Due' = Due
    BY <1>1 DEF Due, End
  <2> HIDE DEF base
  <2>4. p.seq = base + nl
    BY <1>2, <1>3, <2>1, <2>2 DEF NumberedFrom
  <2>5. NumberedFrom(network', base)
    <3>1. \A i \in 1 .. nl + 1 : i \in 1 .. nl \/ i = nl + 1
      BY <1>3
    <3>2. p.seq = base + (nl + 1) - 1
      BY <1>3, <2>2, <2>4
    <3> QED
      BY <1>3, <2>1, <3>1, <3>2 DEF NumberedFrom
  <2>6. NumberedFrom(Tail(sendQueue), base + (nl + 1))
    <3> SUFFICES ASSUME NEW i \in 1 .. sl - 1
                 PROVE  Tail(sendQueue)[i].seq = base + (nl + 1) + i - 1
      BY <1>2 DEF NumberedFrom
    <3>1. PICK j \in 1 .. sl : j = i + 1
      BY <1>2
    <3>2. Tail(sendQueue)[i] = sendQueue[j] /\ sendQueue[j].seq = base + nl + j - 1
      BY <1>2, <2>1, <3>1 DEF NumberedFrom
    <3> QED
      BY <1>2, <1>3, <2>2, <3>1, <3>2
  <2>7. videoSeqNum = base + (nl + 1) + (sl - 1)
    BY <1>2, <1>3, <2>1, <2>2
  <2>8. \A k \in DOMAIN output : IsFrame(output[k].packets, k)'
    BY <1>1, <2>1 DEF IsFrame, packager
  <2> HIDE DEF Due
  <2> QED
    BY <1>1, <1>2, <1>3, <2>1, <2>3, <2>5, <2>6, <2>7, <2>8
       DEF NothingMissing, NumberedFrom, packager
<1> QED
  BY <1>4, <1>6, <1>7, <1>8, <1>9 DEF IInv

\* What the network loses keeps the rest in order; what it repeats or reorders is
\* counted.
LEMMA NetworkIInv == IInv /\ (Lose \/ Duplicate \/ Reorder) => IInv'
<1> SUFFICES ASSUME IInv, Lose \/ Duplicate \/ Reorder PROVE IInv'
  OBVIOUS
<1>1. PICK i \in DOMAIN network :
        \/ /\ network' = RemoveAt(network, i)
           /\ lost' = lost + 1 /\ shuffled' = shuffled
        \/ /\ network' \in {Append(network, network[i]),
                            Append(RemoveAt(network, i), network[i])}
           /\ lost' = lost /\ shuffled' = shuffled + 1
  BY DEF Lose, Duplicate, Reorder
<1>2. /\ UNCHANGED packager /\ sendQueue' = sendQueue /\ receiving' = receiving
      /\ unpackaged' = unpackaged /\ output' = output
      /\ first_video_timestamp' = first_video_timestamp /\ dropped' = dropped
  BY DEF Lose, Duplicate, Reorder, unpackager
<1>3. network \in Seq(Packets) /\ dropped \in Nat /\ lost \in Nat /\ shuffled \in Nat
  BY DEF IInv, TypeOK
<1>4. network[i] \in Packets /\ network[i] \in ToSet(network) /\ Len(network) \in Nat
  BY <1>3, ElementType DEF ToSet
<1>5. /\ RemoveAt(network, i) \in Seq(Packets)
      /\ DOMAIN RemoveAt(network, i) = 1 .. Len(network) - 1
      /\ \A a \in 1 .. Len(network) - 1 :
           RemoveAt(network, i)[a] = IF a < i THEN network[a] ELSE network[a + 1]
      /\ ToSet(RemoveAt(network, i)) \subseteq ToSet(network)
  BY <1>3, RemoveElements
<1>6. network' \in Seq(Packets) /\ ToSet(network') \subseteq ToSet(network)
  <2> DEFINE r == RemoveAt(network, i)
             x == network[i]
  <2> HIDE DEF r, x
  <2>1. r \in Seq(Packets) /\ ToSet(r) \subseteq ToSet(network)
        /\ x \in Packets /\ x \in ToSet(network)
    BY <1>4, <1>5 DEF r, x
  <2>2. /\ Append(r, x) \in Seq(Packets) /\ ToSet(Append(r, x)) = ToSet(r) \cup {x}
        /\ Append(network, x) \in Seq(Packets)
        /\ ToSet(Append(network, x)) = ToSet(network) \cup {x}
    BY <1>3, <2>1, AppendElements
  <2>3. network' \in {r, Append(network, x), Append(r, x)}
    BY <1>1 DEF r, x
  <2> QED
    BY <2>1, <2>2, <2>3
<1>7. TypeOK'
  <2>1. lost' \in Nat /\ shuffled' \in Nat
    BY <1>1, <1>3
  <2> QED
    BY <1>2, <1>6, <2>1 DEF IInv, TypeOK, packager
<1>8. Around' \subseteq Around
  BY <1>2, <1>6 DEF Around
<1>9. FragmentsFollow' /\ PacketsFollow'
  BY <1>2, <1>8, PacketsMove DEF IInv
<1>10. UnitsFollow'
  BY <1>2 DEF IInv, UnitsFollow, End, Quotient
<1>11. NothingMissing'
  <2>1. lost' \in Nat /\ shuffled' \in Nat /\ ~ (lost' = 0 /\ shuffled' = 0)
    BY <1>1, <1>3
  <2>2. dropped' \in Nat
    BY <1>2, <1>3
  <2>3. ~ (dropped' + lost' + shuffled' = 0)
    BY <2>1, <2>2, SumIsZero
  <2> QED
    BY <2>3 DEF NothingMissing
<1>12. PiecesInOrder'
  <2> SUFFICES ASSUME shuffled' = 0 PROVE PiecesInOrder'
    BY DEF PiecesInOrder
  <2>1. shuffled = 0 /\ network' = RemoveAt(network, i)
    BY <1>1, <1>3
  <2>2. Ascending(network')
    <3> SUFFICES ASSUME NEW a \in 1 .. Len(network) - 1, NEW b \in 1 .. Len(network) - 1, a < b
                 PROVE  network'[a].seq < network'[b].seq
      BY <1>5, <2>1 DEF Ascending
    <3>1. DOMAIN network = 1 .. Len(network) /\ i \in Nat
      BY <1>3
    <3>2. Ascending(network)
      BY <2>1 DEF IInv, PiecesInOrder
    <3> DEFINE x == IF a < i THEN a ELSE a + 1
               y == IF b < i THEN b ELSE b + 1
    <3>3. x \in DOMAIN network /\ y \in DOMAIN network /\ x < y
      BY <1>4, <3>1
    <3>4. network'[a] = network[x] /\ network'[b] = network[y]
      BY <1>5, <2>1
    <3> QED
      BY <3>2, <3>3, <3>4 DEF Ascending
  <2>3. \A s : /\ Before(s, network) => Before(s, network')
               /\ Before(network, s) => Before(network', s)
    BY <1>6 DEF Before
  <2>4. PiecesInOrder
    BY DEF IInv
  <2> QED
    BY <1>2, <2>1, <2>2, <2>3, <2>4 DEF PiecesInOrder, Ascending, Before
<1> QED
  BY <1>7, <1>9, <1>10, <1>11, <1>12 DEF IInv

------------------------------------------------------------------------------
(* The steps of the far end.                                               *)

\* What is in the buffer once the next packet is received.
Collected == Append(unpackaged, Head(network))

\* The next packet leaves the network and comes last in the buffer.
LEMMA NextPacket ==
  ASSUME TypeOK, network # <<>>
  PROVE  /\ Len(network) \in Nat \ {0} /\ DOMAIN network = 1 .. Len(network)
         /\ Tail(network) \in Seq(Packets) /\ Len(Tail(network)) = Len(network) - 1
         /\ DOMAIN Tail(network) = 1 .. Len(network) - 1
         /\ \A i \in 1 .. Len(network) - 1 : Tail(network)[i] = network[i + 1]
         /\ Head(network) = network[1] /\ Head(network) \in ToSet(network)
         /\ Head(network) \in Packets
         /\ ToSet(Tail(network)) \subseteq ToSet(network)
         /\ Len(unpackaged) \in Nat /\ DOMAIN unpackaged = 1 .. Len(unpackaged)
         /\ Collected \in Seq(Packets) /\ Len(Collected) = Len(unpackaged) + 1
         /\ DOMAIN Collected = 1 .. Len(unpackaged) + 1 /\ Collected # <<>>
         /\ \A i \in 1 .. Len(unpackaged) : Collected[i] = unpackaged[i]
         /\ Collected[Len(unpackaged) + 1] = Head(network)
         /\ ToSet(Collected) = ToSet(unpackaged) \cup {Head(network)}
         /\ \A i \in 1 .. Len(unpackaged) : ~Collected[i].marker
<1>1. network \in Seq(Packets) /\ unpackaged \in Seq(Packets)
      /\ \A i \in DOMAIN unpackaged : ~unpackaged[i].marker
  BY DEF TypeOK
<1>2. /\ Len(network) \in Nat \ {0} /\ DOMAIN network = 1 .. Len(network)
      /\ Tail(network) \in Seq(Packets) /\ Len(Tail(network)) = Len(network) - 1
      /\ DOMAIN Tail(network) = 1 .. Len(network) - 1
      /\ \A i \in 1 .. Len(network) - 1 : Tail(network)[i] = network[i + 1]
      /\ Head(network) = network[1] /\ Head(network) \in ToSet(network)
      /\ Head(network) \in Packets
      /\ ToSet(Tail(network)) \subseteq ToSet(network)
  BY <1>1, TailElements
<1>3. /\ Collected \in Seq(Packets) /\ Len(Collected) = Len(unpackaged) + 1
      /\ DOMAIN Collected = 1 .. Len(unpackaged) + 1
      /\ \A i \in 1 .. Len(unpackaged) : Collected[i] = unpackaged[i]
      /\ Collected[Len(unpackaged) + 1] = Head(network)
      /\ ToSet(Collected) = ToSet(unpackaged) \cup {Head(network)}
  BY <1>1, <1>2, AppendElements DEF Collected
<1>4. Len(unpackaged) \in Nat /\ DOMAIN unpackaged = 1 .. Len(unpackaged)
  BY <1>1
<1>5. Collected # <<>>
  BY <1>3, <1>4
<1> QED
  BY <1>1, <1>2, <1>3, <1>4, <1>5

\* The buffer and the network stay in order.
LEMMA ReceivedInOrder ==
  ASSUME TypeOK, PiecesInOrder, shuffled = 0, network # <<>>
  PROVE  /\ Ascending(Collected) /\ Ascending(Tail(network))
         /\ Before(Collected, Tail(network)) /\ Before(Collected, sendQueue)
         /\ Before(Tail(network), sendQueue)
         /\ \A k \in DOMAIN output : /\ Before(output[k].packets, Collected)
                                     /\ Before(output[k].packets, Tail(network))
<1> DEFINE p == Head(network)
           t == Tail(network)
           u == Collected
           nl == Len(network)
           ul == Len(unpackaged)
<1>1. /\ Ascending(unpackaged) /\ Ascending(network)
      /\ Before(unpackaged, network) /\ Before(unpackaged, sendQueue)
      /\ Before(network, sendQueue)
      /\ \A k \in DOMAIN output :
           Before(output[k].packets, unpackaged) /\ Before(output[k].packets, network)
  BY DEF PiecesInOrder
<1>2. /\ nl \in Nat \ {0} /\ DOMAIN network = 1 .. nl
      /\ DOMAIN t = 1 .. nl - 1 /\ \A i \in 1 .. nl - 1 : t[i] = network[i + 1]
      /\ p = network[1] /\ p \in ToSet(network)
      /\ ToSet(t) \subseteq ToSet(network)
  BY NextPacket
<1>3. /\ ul \in Nat /\ DOMAIN unpackaged = 1 .. ul
      /\ DOMAIN u = 1 .. ul + 1
      /\ \A i \in 1 .. ul : u[i] = unpackaged[i]
      /\ u[ul + 1] = p
      /\ ToSet(u) = ToSet(unpackaged) \cup {p}
  BY NextPacket
<1> HIDE DEF p, t, u, nl, ul
<1>4. Ascending(u)
  <2>1. \A i \in 1 .. ul : unpackaged[i].seq < p.seq
    BY <1>1, <1>2, <1>3 DEF Before, ToSet
  <2>2. \A a, b \in 1 .. ul + 1 : a < b => a \in 1 .. ul /\ (b \in 1 .. ul \/ b = ul + 1)
    BY <1>3
  <2> QED
    BY <1>1, <1>3, <2>1, <2>2 DEF Ascending
<1>5. Ascending(t) /\ \A q \in ToSet(t) : p.seq < q.seq
  <2>1. \A i \in 1 .. nl - 1 : i + 1 \in 1 .. nl /\ 1 \in 1 .. nl /\ 1 < i + 1
    BY <1>2
  <2>2. \A i \in 1 .. nl - 1 : p.seq < t[i].seq
    BY <1>1, <1>2, <2>1 DEF Ascending
  <2>3. \A a, b \in 1 .. nl - 1 : a < b => a + 1 < b + 1
    BY <1>2
  <2>4. \A a, b \in 1 .. nl - 1 : a < b => t[a].seq < t[b].seq
    BY <1>1, <1>2, <2>1, <2>3 DEF Ascending
  <2> QED
    BY <1>2, <2>2, <2>4 DEF Ascending, ToSet
<1>6. Before(u, t) /\ Before(u, sendQueue) /\ Before(t, sendQueue)
  BY <1>1, <1>2, <1>3, <1>5 DEF Before
<1>7. \A k \in DOMAIN output : Before(output[k].packets, u) /\ Before(output[k].packets, t)
  BY <1>1, <1>2, <1>3 DEF Before
<1> QED
  BY <1>4, <1>5, <1>6, <1>7 DEF u, t

\* While nothing is missing, the buffer ends with the number before the network's
\* first.
LEMMA ReceivedNumbered ==
  ASSUME TypeOK, UnitsFollow, NothingMissing, dropped + lost + shuffled = 0, network # <<>>
  PROVE  /\ NumberedFrom(Collected, Due)
         /\ NumberedFrom(Tail(network), Due + Len(Collected))
         /\ NumberedFrom(sendQueue, Due + Len(Collected) + Len(Tail(network)))
         /\ videoSeqNum = Due + Len(Collected) + Len(Tail(network)) + Len(sendQueue)
         /\ Head(network).seq = Due + Len(unpackaged)
<1> DEFINE p == Head(network)
           t == Tail(network)
           u == Collected
           nl == Len(network)
           ul == Len(unpackaged)
<1>1. PICK d \in Nat : d = Due
  BY DueIsNat
<1>2. /\ NumberedFrom(unpackaged, d) /\ NumberedFrom(network, d + ul)
      /\ NumberedFrom(sendQueue, d + ul + nl)
      /\ videoSeqNum = d + ul + nl + Len(sendQueue)
  BY <1>1 DEF NothingMissing
<1>3. /\ nl \in Nat \ {0} /\ DOMAIN network = 1 .. nl
      /\ Len(t) = nl - 1 /\ DOMAIN t = 1 .. nl - 1
      /\ \A i \in 1 .. nl - 1 : t[i] = network[i + 1]
      /\ p = network[1]
  BY NextPacket
<1>4. /\ ul \in Nat /\ DOMAIN unpackaged = 1 .. ul
      /\ Len(u) = ul + 1 /\ DOMAIN u = 1 .. ul + 1
      /\ \A i \in 1 .. ul : u[i] = unpackaged[i]
      /\ u[ul + 1] = p
  BY NextPacket
<1>5. Len(sendQueue) \in Nat
  BY DEF TypeOK
<1> HIDE DEF p, t, u, nl, ul
<1>6. p.seq = d + ul
  <2>1. 1 \in 1 .. nl /\ network[1].seq = d + ul + 1 - 1
    BY <1>2, <1>3 DEF NumberedFrom
  <2> QED
    BY <1>3, <1>4, <2>1
<1>7. NumberedFrom(u, d)
  <2> SUFFICES ASSUME NEW i \in 1 .. ul + 1 PROVE u[i].seq = d + i - 1
    BY <1>4 DEF NumberedFrom
  <2>1. CASE i \in 1 .. ul
    BY <1>2, <1>4, <2>1 DEF NumberedFrom
  <2>2. CASE i = ul + 1
    BY <1>4, <1>6, <2>2
  <2> QED
    BY <1>4, <2>1, <2>2
<1>8. NumberedFrom(t, d + (ul + 1))
  <2> SUFFICES ASSUME NEW i \in 1 .. nl - 1 PROVE t[i].seq = d + (ul + 1) + i - 1
    BY <1>3 DEF NumberedFrom
  <2>1. PICK j \in 1 .. nl : j = i + 1
    BY <1>3
  <2>2. t[i] = network[j] /\ network[j].seq = d + ul + j - 1
    BY <1>2, <1>3, <2>1 DEF NumberedFrom
  <2> QED
    BY <1>4, <2>1, <2>2
<1>9. d + (ul + 1) + (nl - 1) = d + ul + nl
  BY <1>3, <1>4
<1>10. videoSeqNum = d + (ul + 1) + (nl - 1) + Len(sendQueue)
  BY <1>2, <1>9
<1> QED
  BY <1>1, <1>2, <1>3, <1>4, <1>6, <1>7, <1>8, <1>9, <1>10 DEF u, t, p, ul

\* While nothing is missing, the marker completes the next frame.
LEMMA UnitMade ==
  ASSUME IInv, dropped + lost + shuffled = 0, network # <<>>, Head(network).marker
  PROVE  /\ Collected[1].frame = Len(output) + 1
         /\ IsFrame(Collected, Len(output) + 1)
         /\ Len(output) + 1 <= Len(frames)
<1> DEFINE ol == Len(output)
<1>1. TypeOK /\ PacketsFollow /\ UnitsFollow
  BY DEF IInv
<1>2. PICK u : u = Collected
  OBVIOUS
<1>3. /\ u \in Seq(Packets) /\ u # <<>> /\ Len(u) = Len(unpackaged) + 1
      /\ DOMAIN u = 1 .. Len(unpackaged) + 1 /\ Len(unpackaged) \in Nat
      /\ u[Len(unpackaged) + 1] = Head(network)
      /\ ToSet(u) = ToSet(unpackaged) \cup {Head(network)}
      /\ Head(network) \in ToSet(network)
      /\ \A i \in 1 .. Len(unpackaged) : ~u[i].marker
  BY <1>1, <1>2, NextPacket
<1>4. ToSet(u) \subseteq Around
  BY <1>3 DEF Around
<1>5. \A i \in DOMAIN u : u[i].marker <=> i = Len(u)
  <2>1. \A i \in 1 .. Len(unpackaged) + 1 :
          (i \in 1 .. Len(unpackaged) /\ i # Len(unpackaged) + 1) \/ i = Len(unpackaged) + 1
    BY <1>3
  <2> QED
    BY <1>3, <2>1
<1>6. PICK n \in Nat : n = Due
  BY <1>1, DueIsNat
<1>7. NumberedFrom(u, n)
  BY <1>1, <1>2, <1>6, ReceivedNumbered DEF IInv
<1>8. CASE output = <<>>
  <2>1. n = 0 /\ ol = 0
    BY <1>6, <1>8 DEF Due
  <2>2. /\ IsFrame(u, u[1].frame) /\ u[1].frame <= Len(frames) /\ u[1].frame = 1
    BY <1>1, <1>3, <1>4, <1>5, <1>7, <2>1, WholeFrame
  <2> QED
    BY <1>2, <2>1, <2>2
<1>9. CASE output # <<>>
  <2>1. PICK p : p = End(ol)
    OBVIOUS
  <2>2. ol \in DOMAIN output /\ ol \in Nat
    BY <1>1, <1>9, LastUnit DEF TypeOK
  <2>3. p \in Around /\ p \in Packets /\ p.marker
    BY <1>1, <2>1, <2>2, EndIsAround
  <2>4. p.seq \in Nat /\ n = p.seq + 1
    BY <1>6, <1>9, <2>1, <2>3, PacketFields DEF Due
  <2>5. p.frame = ol
    <3>1. Len(output[ol].packets) \in DOMAIN output[ol].packets
      BY <1>1, <2>2, EndIsAround
    <3>2. IsFrame(output[ol].packets, ol)
      BY <2>2 DEF IInv, NothingMissing
    <3> QED
      BY <2>1, <3>1, <3>2 DEF IsFrame, End
  <2>6. p.seq = n - 1
    BY <2>4
  <2>7. /\ IsFrame(u, u[1].frame) /\ u[1].frame <= Len(frames) /\ u[1].frame = p.frame + 1
    BY <1>1, <1>3, <1>4, <1>5, <1>7, <2>3, <2>6, WholeFrame
  <2> QED
    BY <1>2, <2>5, <2>7
<1> QED
  BY <1>8, <1>9

\* A packet without a marker joins the buffer.
LEMMA CollectIInv == IInv /\ HandleReceive /\ ~Head(network).marker => IInv'
<1> SUFFICES ASSUME IInv, HandleReceive, ~Head(network).marker PROVE IInv'
  OBVIOUS
<1>1. /\ network # <<>> /\ network' = Tail(network)
      /\ UNCHANGED packager /\ sendQueue' = sendQueue /\ receiving' = receiving
      /\ dropped' = dropped /\ lost' = lost /\ shuffled' = shuffled
      /\ unpackaged' = Collected /\ output' = output
      /\ first_video_timestamp' = first_video_timestamp
  BY DEF HandleReceive, faults, Remainder, Collected
<1>2. /\ Tail(network) \in Seq(Packets) /\ Head(network) \in ToSet(network)
      /\ ToSet(Tail(network)) \subseteq ToSet(network)
      /\ Len(unpackaged) \in Nat
      /\ Collected \in Seq(Packets) /\ DOMAIN Collected = 1 .. Len(unpackaged) + 1
      /\ Collected[Len(unpackaged) + 1] = Head(network)
      /\ ToSet(Collected) = ToSet(unpackaged) \cup {Head(network)}
      /\ \A i \in 1 .. Len(unpackaged) : ~Collected[i].marker
  BY <1>1, NextPacket DEF IInv
<1> HIDE DEF Collected
<1>3. TypeOK'
  <2>1. \A i \in 1 .. Len(unpackaged) + 1 : i \in 1 .. Len(unpackaged) \/ i = Len(unpackaged) + 1
    BY <1>2
  <2>2. \A i \in DOMAIN Collected : ~Collected[i].marker
    BY <1>2, <2>1
  <2> QED
    BY <1>1, <1>2, <2>2 DEF IInv, TypeOK, packager
<1>4. Around' \subseteq Around
  BY <1>1, <1>2 DEF Around
<1>5. FragmentsFollow' /\ PacketsFollow'
  BY <1>1, <1>4, PacketsMove DEF IInv
<1>6. UnitsFollow'
  BY <1>1 DEF IInv, UnitsFollow, End, Quotient
<1>7. PiecesInOrder'
  <2> SUFFICES ASSUME shuffled = 0 PROVE PiecesInOrder'
    BY <1>1 DEF PiecesInOrder
  <2>1. /\ Ascending(Collected) /\ Ascending(Tail(network))
        /\ Before(Collected, Tail(network)) /\ Before(Collected, sendQueue)
        /\ Before(Tail(network), sendQueue)
        /\ \A k \in DOMAIN output : /\ Before(output[k].packets, Collected)
                                    /\ Before(output[k].packets, Tail(network))
    BY <1>1, ReceivedInOrder DEF IInv
  <2>2. PiecesInOrder
    BY DEF IInv
  <2> QED
    BY <1>1, <2>1, <2>2 DEF PiecesInOrder, Ascending, Before
<1>8. NothingMissing'
  <2> SUFFICES ASSUME dropped + lost + shuffled = 0 PROVE NothingMissing'
    BY <1>1 DEF NothingMissing
  <2>1. PICK d : d = Due /\ d = Due'
    BY <1>1 DEF Due, End
  <2>2. /\ NumberedFrom(Collected, d)
        /\ NumberedFrom(Tail(network), d + Len(Collected))
        /\ NumberedFrom(sendQueue, d + Len(Collected) + Len(Tail(network)))
        /\ videoSeqNum = d + Len(Collected) + Len(Tail(network)) + Len(sendQueue)
    BY <1>1, <2>1, ReceivedNumbered DEF IInv
  <2>3. \A k \in DOMAIN output : output[k].packets[1].frame = k
          /\ IsFrame(output[k].packets, k)' /\ k <= Len(frames)
    BY <1>1 DEF IInv, NothingMissing, IsFrame, packager
  <2> QED
    BY <1>1, <2>1, <2>2, <2>3 DEF NothingMissing, NumberedFrom, packager
<1> QED
  BY <1>3, <1>5, <1>6, <1>7, <1>8 DEF IInv

\* A packet with the marker completes a unit, and the buffer is empty.
LEMMA WriteIInv == IInv /\ HandleReceive /\ Head(network).marker => IInv'
<1> SUFFICES ASSUME IInv, HandleReceive, Head(network).marker PROVE IInv'
  OBVIOUS
<1>0. PICK p, first, m :
        p = Head(network) /\ first = FirstTimestamp(Head(network)) /\ m = Len(output) + 1
  OBVIOUS
<1>1. PICK v : v = [packets |-> Collected, dts |-> Quotient(p.timestamp - first, TicksPerMs)]
  OBVIOUS
<1>2. /\ network # <<>> /\ network' = Tail(network)
      /\ UNCHANGED packager /\ sendQueue' = sendQueue /\ receiving' = receiving
      /\ dropped' = dropped /\ lost' = lost /\ shuffled' = shuffled
      /\ unpackaged' = <<>> /\ output' = Append(output, v)
      /\ first_video_timestamp' = first
  BY <1>0, <1>1 DEF HandleReceive, faults, Remainder, Collected
<1>3. /\ Tail(network) \in Seq(Packets) /\ p \in ToSet(network) /\ p \in Packets
      /\ ToSet(Tail(network)) \subseteq ToSet(network)
      /\ Len(unpackaged) \in Nat /\ Len(Collected) = Len(unpackaged) + 1
      /\ Collected \in Seq(Packets) /\ DOMAIN Collected = 1 .. Len(unpackaged) + 1
      /\ Collected # <<>>
      /\ Collected[Len(unpackaged) + 1] = p
      /\ ToSet(Collected) = ToSet(unpackaged) \cup {p}
      /\ \A i \in 1 .. Len(unpackaged) : ~Collected[i].marker
  BY <1>0, <1>2, NextPacket DEF IInv
<1>4. /\ p.timestamp \in 0 .. TsModulus - 1 /\ first \in 0 .. TsModulus - 1
      /\ Quotient(p.timestamp - first, TicksPerMs) \in Int
  <2>1. p.timestamp \in 0 .. TsModulus - 1
    BY <1>3, PacketFields
  <2>2. first_video_timestamp \in -1 .. TsModulus - 1 /\ TsModulus \in Nat
    BY RtpAssumption DEF IInv, TypeOK
  <2>3. first \in 0 .. TsModulus - 1
    BY <1>0, <2>1, <2>2 DEF FirstTimestamp
  <2>4. \A a \in Int : Quotient(a, TicksPerMs) \in Int
    BY RtpAssumption DEF Quotient
  <2>5. p.timestamp - first \in Int
    BY <2>1, <2>2, <2>3
  <2> QED
    BY <2>1, <2>3, <2>4, <2>5
<1>5. /\ v \in [packets : Seq(Packets), dts : Int] /\ v.packets = Collected
      /\ v.dts = Quotient(p.timestamp - first, TicksPerMs)
  BY <1>1, <1>3, <1>4
<1>6. /\ output \in Seq([packets : Seq(Packets), dts : Int])
      /\ Len(output) \in Nat /\ DOMAIN output = 1 .. Len(output) /\ m \in Nat \ {0}
      /\ output' \in Seq([packets : Seq(Packets), dts : Int])
      /\ Len(output') = m /\ DOMAIN output' = 1 .. m /\ output'[m] = v
      /\ \A k \in 1 .. Len(output) : output'[k] = output[k]
      /\ \A k \in 1 .. m : k \in 1 .. Len(output) \/ k = m
      /\ output' # <<>>
  <2>1. output \in Seq([packets : Seq(Packets), dts : Int])
    BY DEF IInv, TypeOK
  <2>2. Len(output) \in Nat /\ DOMAIN output = 1 .. Len(output)
    BY <2>1
  <2>3. /\ output' \in Seq([packets : Seq(Packets), dts : Int])
        /\ Len(output') = m /\ DOMAIN output' = 1 .. m /\ output'[m] = v
        /\ \A k \in 1 .. Len(output) : output'[k] = output[k]
    BY <1>0, <1>2, <1>5, <2>1, AppendElements
  <2>4. output' # <<>>
    BY <1>0, <2>2, <2>3
  <2> QED
    BY <1>0, <2>1, <2>2, <2>3, <2>4
<1>7. TypeOK'
  <2>1. \A i \in DOMAIN <<>> : FALSE
    OBVIOUS
  <2>2. first_video_timestamp' \in -1 .. TsModulus - 1
    BY <1>2, <1>4, RtpAssumption
  <2> QED
    BY <1>2, <1>3, <1>6, <2>1, <2>2 DEF IInv, TypeOK, packager
<1>8. Around' \subseteq Around
  <2>1. ToSet(output'[m].packets) \subseteq Around
    BY <1>2, <1>3, <1>5, <1>6 DEF Around
  <2>2. \A k \in 1 .. Len(output) : ToSet(output'[k].packets) \subseteq Around
    BY <1>6 DEF Around
  <2>3. ToSet(sendQueue') \cup ToSet(network') \subseteq Around
    BY <1>2, <1>3 DEF Around
  <2>4. ToSet(unpackaged') = {}
    BY <1>2 DEF ToSet
  <2>5. \A k \in DOMAIN output' : ToSet(output'[k].packets) \subseteq Around
    BY <1>6, <2>1, <2>2
  <2> QED
    BY <2>3, <2>4, <2>5 DEF Around
<1>9. FragmentsFollow' /\ PacketsFollow'
  BY <1>2, <1>8, PacketsMove DEF IInv
<1>10. \A i \in DOMAIN Collected : Collected[i].marker <=> i = Len(Collected)
  <2>1. \A i \in 1 .. Len(unpackaged) + 1 :
          (i \in 1 .. Len(unpackaged) /\ i # Len(unpackaged) + 1) \/ i = Len(unpackaged) + 1
    BY <1>3
  <2>2. p.marker
    BY <1>0
  <2> QED
    BY <1>3, <2>1, <2>2
<1>11. End(m)' = p /\ \A k \in 1 .. Len(output) : End(k)' = End(k)
  BY <1>3, <1>5, <1>6 DEF End
<1>12. UnitsFollow'
  <2>1. first = End(1)'.timestamp
    <3>1. CASE output = <<>>
      <4>1. m = 1 /\ first_video_timestamp = -1
        BY <1>0, <1>6, <3>1 DEF IInv, UnitsFollow
      <4> QED
        BY <1>0, <1>11, <4>1 DEF FirstTimestamp
    <3>2. CASE output # <<>>
      <4>1. first_video_timestamp = End(1).timestamp /\ 1 \in 1 .. Len(output)
        BY <1>6, <3>2 DEF IInv, UnitsFollow
      <4>2. End(1).timestamp \in 0 .. TsModulus - 1
        <5>1. End(1) \in Packets
          BY <1>6, <4>1, EndIsAround DEF IInv
        <5> QED
          BY <5>1, PacketFields
      <4>3. first = first_video_timestamp
        BY <1>0, <4>1, <4>2, RtpAssumption DEF FirstTimestamp
      <4> QED
        BY <1>11, <4>1, <4>3
    <3> QED
      BY <3>1, <3>2
  <2>2. ASSUME NEW k \in 1 .. m
        PROVE  /\ output'[k].packets # <<>>
               /\ \A i \in DOMAIN output'[k].packets :
                    output'[k].packets[i].marker <=> i = Len(output'[k].packets)
               /\ output'[k].dts = Quotient(End(k)'.timestamp - first, TicksPerMs)
    <3>1. CASE k = m
      BY <1>3, <1>5, <1>6, <1>10, <1>11, <3>1
    <3>2. CASE k \in 1 .. Len(output)
      <4>1. output # <<>> /\ 1 \in 1 .. Len(output)
        BY <1>6, <3>2
      <4>2. first = End(1).timestamp
        BY <1>11, <2>1, <4>1
      <4>3. /\ output[k].packets # <<>>
            /\ \A i \in DOMAIN output[k].packets :
                 output[k].packets[i].marker <=> i = Len(output[k].packets)
            /\ output[k].dts = Quotient(End(k).timestamp - End(1).timestamp, TicksPerMs)
        BY <1>6, <3>2 DEF IInv, UnitsFollow
      <4>4. output'[k] = output[k] /\ End(k)' = End(k)
        BY <1>6, <1>11, <3>2
      <4> QED
        BY <4>2, <4>3, <4>4
    <3> QED
      BY <1>6, <3>1, <3>2
  <2> QED
    BY <1>2, <1>6, <2>1, <2>2 DEF UnitsFollow, Quotient
<1>13. PiecesInOrder'
  <2> SUFFICES ASSUME shuffled = 0 PROVE PiecesInOrder'
    BY <1>2 DEF PiecesInOrder
  <2>1. /\ Ascending(Collected) /\ Ascending(Tail(network))
        /\ Before(Collected, Tail(network)) /\ Before(Collected, sendQueue)
        /\ Before(Tail(network), sendQueue)
        /\ \A k \in DOMAIN output : /\ Before(output[k].packets, Collected)
                                    /\ Before(output[k].packets, Tail(network))
    BY <1>2, ReceivedInOrder DEF IInv
  <2>2. /\ Ascending(sendQueue)
        /\ \A k \in DOMAIN output :
             /\ Ascending(output[k].packets) /\ Before(output[k].packets, sendQueue)
             /\ \A j \in DOMAIN output : j < k => Before(output[j].packets, output[k].packets)
    BY DEF IInv, PiecesInOrder
  <2>3. /\ Ascending(<<>>)
        /\ \A s : Before(s, <<>>) /\ Before(<<>>, s)
    BY DEF Ascending, Before, ToSet
  <2>4. ASSUME NEW k \in 1 .. m
        PROVE  /\ Ascending(output'[k].packets)
               /\ Before(output'[k].packets, Tail(network))
               /\ Before(output'[k].packets, sendQueue)
               /\ \A j \in 1 .. m : j < k => Before(output'[j].packets, output'[k].packets)
    <3>1. CASE k = m
      <4>1. \A j \in 1 .. m : j < k => j \in 1 .. Len(output)
        BY <1>0, <1>6, <3>1
      <4> QED
        BY <1>5, <1>6, <2>1, <3>1, <4>1
    <3>2. CASE k \in 1 .. Len(output)
      <4>1. \A j \in 1 .. m : j < k => j \in 1 .. Len(output)
        BY <1>0, <1>6, <3>2
      <4> QED
        BY <1>6, <2>1, <2>2, <3>2, <4>1
    <3> QED
      BY <1>6, <3>1, <3>2
  <2>5. /\ Ascending(unpackaged') /\ Ascending(network') /\ Ascending(sendQueue')
        /\ Before(unpackaged', network') /\ Before(unpackaged', sendQueue')
        /\ Before(network', sendQueue')
    BY <1>2, <2>1, <2>2, <2>3
  <2>6. \A k \in DOMAIN output' :
          /\ Ascending(output'[k].packets)
          /\ Before(output'[k].packets, unpackaged') /\ Before(output'[k].packets, network')
          /\ Before(output'[k].packets, sendQueue')
          /\ \A j \in DOMAIN output' : j < k => Before(output'[j].packets, output'[k].packets)
    BY <1>2, <1>6, <2>3, <2>4
  <2>7. /\ Ascending(unpackaged)' /\ Ascending(network)' /\ Ascending(sendQueue)'
        /\ Before(unpackaged, network)' /\ Before(unpackaged, sendQueue)'
        /\ Before(network, sendQueue)'
    BY <2>5 DEF Ascending, Before
  <2>8. \A k \in DOMAIN output' :
          /\ Ascending(output[k].packets)'
          /\ Before(output[k].packets, unpackaged)' /\ Before(output[k].packets, network)'
          /\ Before(output[k].packets, sendQueue)'
          /\ \A j \in DOMAIN output' : j < k => Before(output[j].packets, output[k].packets)'
    BY <2>6 DEF Ascending, Before
  <2> QED
    BY <2>7, <2>8 DEF PiecesInOrder
<1>14. NothingMissing'
  <2> SUFFICES ASSUME dropped + lost + shuffled = 0 PROVE NothingMissing'
    BY <1>2 DEF NothingMissing
  <2>1. PICK d \in Nat : d = Due
    BY DueIsNat DEF IInv
  <2>2. /\ NumberedFrom(Tail(network), d + Len(Collected))
        /\ NumberedFrom(sendQueue, d + Len(Collected) + Len(Tail(network)))
        /\ videoSeqNum = d + Len(Collected) + Len(Tail(network)) + Len(sendQueue)
        /\ p.seq = d + Len(unpackaged)
    BY <1>0, <1>2, <2>1, ReceivedNumbered DEF IInv
  <2>3. PICK e : e = Due' /\ e = d + Len(Collected) /\ e + 0 = e
    <3>1. Due' = p.seq + 1
      BY <1>6, <1>11 DEF Due
    <3>2. d + Len(unpackaged) + 1 = d + Len(Collected)
      BY <1>3, <2>1
    <3> QED
      BY <1>3, <2>1, <2>2, <3>1, <3>2
  <2>4. ASSUME NEW k \in 1 .. m
        PROVE  /\ output'[k].packets[1].frame = k
               /\ IsFrame(output'[k].packets, k) /\ k <= Len(frames)
    <3>1. CASE k = m
      BY <1>0, <1>2, <1>5, <1>6, <3>1, UnitMade
    <3>2. CASE k \in 1 .. Len(output)
      BY <1>6, <3>2 DEF IInv, NothingMissing
    <3> QED
      BY <1>6, <3>1, <3>2
  <2>5. \A k \in 1 .. m : IsFrame(output[k].packets, k)' <=> IsFrame(output'[k].packets, k)
    BY <1>2 DEF IsFrame, packager
  <2>6. NumberedFrom(<<>>, e) /\ Len(<<>>) = 0
    BY DEF NumberedFrom
  <2> QED
    BY <1>2, <1>6, <2>2, <2>3, <2>4, <2>5, <2>6 DEF NothingMissing, NumberedFrom, packager
<1> QED
  BY <1>7, <1>9, <1>12, <1>13, <1>14 DEF IInv

\* Nothing the invariant speaks of changes when the receiver stops, or nothing does.
LEMMA RestIInv == IInv /\ (HandleNothing \/ UNCHANGED vars) => IInv'
<1> SUFFICES ASSUME IInv, HandleNothing \/ UNCHANGED vars PROVE IInv'
  OBVIOUS
<1>1. /\ UNCHANGED packager /\ sendQueue' = sendQueue /\ network' = network
      /\ receiving' \in BOOLEAN
      /\ unpackaged' = unpackaged /\ output' = output
      /\ first_video_timestamp' = first_video_timestamp
      /\ dropped' = dropped /\ lost' = lost /\ shuffled' = shuffled
  BY DEF HandleNothing, vars, unpackager, faults, IInv, TypeOK
<1>2. TypeOK'
  BY <1>1 DEF IInv, TypeOK, packager
<1>3. FragmentsFollow' /\ PacketsFollow'
  <2>1. Around' \subseteq Around
    BY <1>1 DEF Around
  <2> QED
    BY <1>1, <2>1, PacketsMove DEF IInv
<1>4. UnitsFollow'
  BY <1>1 DEF IInv, UnitsFollow, End, Quotient
<1>5. PiecesInOrder'
  BY <1>1 DEF IInv, PiecesInOrder, Ascending, Before
<1>6. NothingMissing'
  BY <1>1 DEF IInv, NothingMissing, NumberedFrom, IsFrame, Due, End, packager
<1> QED
  BY <1>2, <1>3, <1>4, <1>5, <1>6 DEF IInv

\* The invariant holds whenever the program is between two steps.
THEOREM Inductive == Spec => []IInv
<1>1. IInv /\ [Next]_vars => IInv'
  <2> SUFFICES ASSUME IInv, [Next]_vars PROVE IInv'
    OBVIOUS
  <2>1. CASE ReceivePacket
    BY <2>1, ReceivePacketIInv
  <2>2. CASE SendFragment
    BY <2>2, SendFragmentIInv
  <2>3. CASE SendLoop
    BY <2>3, SendLoopIInv
  <2>4. CASE Lose \/ Duplicate \/ Reorder
    BY <2>4, NetworkIInv
  <2>5. CASE HandleReceive
    BY <2>5, CollectIInv, WriteIInv
  <2>6. CASE HandleNothing \/ UNCHANGED vars
    BY <2>6, RestIInv
  <2> QED
    BY <2>1, <2>2, <2>3, <2>4, <2>5, <2>6 DEF Next
<1> QED
  BY <1>1, InitIInv, PTL DEF Spec

------------------------------------------------------------------------------
(* What the invariant implies.                                             *)

\* Every variable holds a value of the program's, the queue of the Sender never
\* more than its limit.
THEOREM TypeCorrect == Spec => []TypeOK
<1>1. IInv => TypeOK
  BY DEF IInv
<1> QED
  BY <1>1, Inductive, PTL

\* The stations of the way, in the order of Arrivals.
LEMMA Stations ==
  ASSUME TypeOK
  PROVE  /\ Len(output) \in Nat /\ DOMAIN output = 1 .. Len(output)
         /\ DOMAIN Arrivals = 1 .. Len(output) + 3
         /\ \A k \in 1 .. Len(output) : Arrivals[k] = output[k].packets
         /\ Arrivals[Len(output) + 1] = unpackaged
         /\ Arrivals[Len(output) + 2] = network
         /\ Arrivals[Len(output) + 3] = sendQueue
<1> DEFINE units == [k \in DOMAIN output |-> output[k].packets]
           rest == <<unpackaged, network, sendQueue>>
<1>1. Len(output) \in Nat /\ DOMAIN output = 1 .. Len(output)
  BY DEF TypeOK
<1>2. PICK n \in Nat : n = Len(output)
  BY <1>1
<1>3. PICK S : /\ \A k \in 1 .. n : output[k].packets \in S
               /\ {unpackaged, network, sendQueue} \subseteq S
  <2> DEFINE All == {output[k].packets : k \in 1 .. n} \cup {unpackaged, network, sendQueue}
  <2>1. /\ \A k \in 1 .. n : output[k].packets \in All
        /\ {unpackaged, network, sendQueue} \subseteq All
    OBVIOUS
  <2> QED
    BY <2>1
<1>4. units \in Seq(S) /\ Len(units) = n /\ \A k \in 1 .. n : units[k] = output[k].packets
  BY <1>1, <1>2, <1>3
<1>5. rest \in Seq(S) /\ Len(rest) = 3
      /\ rest[1] = unpackaged /\ rest[2] = network /\ rest[3] = sendQueue
  BY <1>3
<1>6. Arrivals = units \o rest
  BY DEF Arrivals
<1> HIDE DEF units, rest
<1>7. Len(Arrivals) = n + 3 /\ Arrivals \in Seq(S)
  <2>1. Arrivals \in Seq(S) /\ Len(Arrivals) = Len(units) + Len(rest)
    BY <1>4, <1>5, <1>6, ConcatProperties
  <2> QED
    BY <1>4, <1>5, <2>1
<1>8. /\ DOMAIN Arrivals = 1 .. n + 3
      /\ \A k \in 1 .. n : Arrivals[k] = units[k]
      /\ Arrivals[n + 1] = rest[1] /\ Arrivals[n + 2] = rest[2] /\ Arrivals[n + 3] = rest[3]
  BY <1>4, <1>5, <1>6, <1>7, ConcatProperties
<1> QED
  BY <1>1, <1>2, <1>4, <1>5, <1>8

\* Whatever a full queue drops and the network loses, no packet is used twice or
\* after a later one as long as the network neither repeats nor reorders.
THEOREM NoneTwiceNoneLate == Spec => []ArrivalOrderKept
<1>1. IInv => ArrivalOrderKept
  <2> SUFFICES ASSUME IInv, shuffled = 0,
                      NEW j \in DOMAIN Arrivals, NEW k \in DOMAIN Arrivals,
                      NEW a \in DOMAIN Arrivals[j], NEW b \in DOMAIN Arrivals[k],
                      j < k \/ (j = k /\ a < b)
               PROVE  Arrivals[j][a].seq < Arrivals[k][b].seq
    BY DEF ArrivalOrderKept
  <2>1. PICK n \in Nat : n = Len(output)
    BY Stations DEF IInv
  <2>2. /\ DOMAIN output = 1 .. n
        /\ DOMAIN Arrivals = 1 .. n + 3
        /\ \A i \in 1 .. n : Arrivals[i] = output[i].packets
        /\ Arrivals[n + 1] = unpackaged /\ Arrivals[n + 2] = network
        /\ Arrivals[n + 3] = sendQueue
    BY <2>1, Stations DEF IInv
  <2>3. /\ Ascending(unpackaged) /\ Ascending(network) /\ Ascending(sendQueue)
        /\ Before(unpackaged, network) /\ Before(unpackaged, sendQueue)
        /\ Before(network, sendQueue)
        /\ \A i \in 1 .. n :
             /\ Ascending(output[i].packets)
             /\ Before(output[i].packets, unpackaged) /\ Before(output[i].packets, network)
             /\ Before(output[i].packets, sendQueue)
             /\ \A l \in 1 .. n : l < i => Before(output[l].packets, output[i].packets)
    BY <2>2 DEF IInv, PiecesInOrder
  <2>4. \A i \in 1 .. n + 3 : i \in 1 .. n \/ i = n + 1 \/ i = n + 2 \/ i = n + 3
    OBVIOUS
  <2>5. \A i \in 1 .. n + 3 : Ascending(Arrivals[i])
    BY <2>2, <2>3, <2>4
  <2>6. j < k => Before(Arrivals[j], Arrivals[k])
    <3>1. CASE k \in 1 .. n
      <4>1. j < k => j \in 1 .. n
        BY <2>2, <3>1
      <4> QED
        BY <2>2, <2>3, <3>1, <4>1
    <3>2. CASE k = n + 1
      <4>1. j < k => j \in 1 .. n
        BY <2>2, <3>2
      <4> QED
        BY <2>2, <2>3, <3>2, <4>1
    <3>3. CASE k = n + 2
      <4>1. j < k => j \in 1 .. n \/ j = n + 1
        BY <2>2, <3>3
      <4> QED
        BY <2>2, <2>3, <3>3, <4>1
    <3>4. CASE k = n + 3
      <4>1. j < k => j \in 1 .. n \/ j = n + 1 \/ j = n + 2
        BY <2>2, <3>4
      <4> QED
        BY <2>2, <2>3, <3>4, <4>1
    <3> QED
      BY <2>2, <2>4, <3>1, <3>2, <3>3, <3>4
  <2>7. CASE j < k
    <3>1. Arrivals[j][a] \in ToSet(Arrivals[j]) /\ Arrivals[k][b] \in ToSet(Arrivals[k])
      BY DEF ToSet
    <3> QED
      BY <2>6, <2>7, <3>1 DEF Before
  <2>8. CASE j = k /\ a < b
    BY <2>2, <2>5, <2>8 DEF Ascending
  <2> QED
    BY <2>7, <2>8
<1> QED
  BY <1>1, Inductive, PTL

\* Whatever was lost, repeated or reordered before, a unit of packets numbered
\* without a gap since the unit before is one whole frame.
THEOREM NoGapNoMixture == Spec => []GaplessUnitIsFrame
<1>1. IInv => GaplessUnitIsFrame
  <2> SUFFICES ASSUME IInv, NEW k \in DOMAIN output, Gapless(k)
               PROVE  IsFrame(output[k].packets, output[k].packets[1].frame)
    BY DEF GaplessUnitIsFrame
  <2>1. TypeOK /\ PacketsFollow /\ UnitsFollow
    BY DEF IInv
  <2>2. PICK u : u = output[k].packets
    OBVIOUS
  <2>3. /\ u \in Seq(Packets) /\ u # <<>>
        /\ \A i \in DOMAIN u : u[i].marker <=> i = Len(u)
        /\ ToSet(u) \subseteq Around
    <3>1. u \in Seq(Packets) /\ u # <<>>
      BY <2>1, <2>2, EndIsAround
    <3>2. \A i \in DOMAIN u : u[i].marker <=> i = Len(u)
      BY <2>1, <2>2 DEF UnitsFollow
    <3> QED
      BY <2>2, <3>1, <3>2 DEF Around
  <2>4. DOMAIN u = 1 .. Len(u)
    BY <2>3
  <2>5. CASE k = 1
    <3>1. \A i \in DOMAIN u : u[i].seq = -1 + i
      BY <2>2, <2>5 DEF Gapless
    <3>2. NumberedFrom(u, 0)
      BY <2>4, <3>1 DEF NumberedFrom
    <3> QED
      BY <2>1, <2>2, <2>3, <3>2, WholeFrame
  <2>6. CASE k # 1
    <3>1. k - 1 \in DOMAIN output
      BY <2>1, <2>6 DEF TypeOK
    <3>2. PICK j \in DOMAIN output : j = k - 1
      BY <3>1
    <3>3. PICK p : p = End(j)
      OBVIOUS
    <3>4. p \in Around /\ p \in Packets /\ p.marker
      BY <2>1, <3>3, EndIsAround
    <3>5. p.seq \in Nat
      BY <3>4, PacketFields
    <3>6. \A i \in DOMAIN u : u[i].seq = p.seq + i
      BY <2>2, <2>6, <3>2, <3>3 DEF Gapless, Last, End
    <3>7. PICK n \in Nat \ {0} : p.seq = n - 1
      BY <3>5
    <3>8. NumberedFrom(u, n)
      BY <2>4, <3>6, <3>7 DEF NumberedFrom
    <3> QED
      BY <2>1, <2>2, <2>3, <3>4, <3>7, <3>8, WholeFrame
  <2> QED
    BY <2>5, <2>6
<1> QED
  BY <1>1, Inductive, PTL

\* What the Unpackager divides by is what the Packager multiplied with.
LEMMA ExactQuotient ==
  ASSUME NEW x \in Int, NEW y \in Int, NEW t \in Nat \ {0}
  PROVE  Quotient(x * t - y * t, t) = x - y
<1>1. PICK z \in Int : z = x - y
  OBVIOUS
<1>2. x * t - y * t = z * t
  BY <1>1
<1>3. \A n \in Nat : (n * t) \div t = n
  OBVIOUS
<1>4. CASE z >= 0
  <2>1. z \in Nat /\ z * t >= 0
    BY <1>4
  <2> QED
    BY <1>1, <1>2, <1>3, <2>1 DEF Quotient
<1>5. CASE z < 0
  <2>1. PICK n \in Nat \ {0} : n = -z
    BY <1>5
  <2>2. -(z * t) = n * t /\ ~ (z * t >= 0)
    BY <2>1
  <2>3. (-(z * t)) \div t = n
    BY <1>3, <2>2
  <2> QED
    BY <1>1, <1>2, <2>1, <2>2, <2>3 DEF Quotient
<1> QED
  BY <1>4, <1>5

\* A time that fits into an RTP timestamp is put there without a wrap.
LEMMA PlainTimestamp ==
  ASSUME NEW d \in Int, d > 0, d * TicksPerMs < TsModulus
  PROVE  Timestamp(d) = d * TicksPerMs
<1>1. d * TicksPerMs \in Nat /\ TsModulus \in Nat \ {0}
  BY RtpAssumption
<1> QED
  BY <1>1 DEF Timestamp

\* The dts of two units differ as those of their frames, unless the clock stood in
\* for one or a timestamp wrapped.
THEOREM DistancesSurvive == Spec => []DtsDistancesKept
<1>1. ASSUME IInv, NEW k \in DOMAIN output,
             frames[End(1).frame].dts > 0,
             frames[End(1).frame].dts * TicksPerMs < TsModulus,
             frames[End(k).frame].dts > 0,
             frames[End(k).frame].dts * TicksPerMs < TsModulus
      PROVE  /\ output[k].dts = frames[End(k).frame].dts - frames[End(1).frame].dts
             /\ frames[End(k).frame].dts \in Int /\ frames[End(1).frame].dts \in Int
  <2>1. 1 \in DOMAIN output
    BY <1>1 DEF IInv, TypeOK
  <2>2. ASSUME NEW i \in DOMAIN output,
               frames[End(i).frame].dts > 0,
               frames[End(i).frame].dts * TicksPerMs < TsModulus
        PROVE  /\ frames[End(i).frame].dts \in Int
               /\ End(i).timestamp = frames[End(i).frame].dts * TicksPerMs
    <3>1. PICK p : p = End(i)
      OBVIOUS
    <3>2. p \in Around /\ p \in Packets
      BY <1>1, <3>1, EndIsAround DEF IInv
    <3>3. p.frame \in DOMAIN frames
      <4>1. frames \in Seq(FrameKinds) /\ p.frame <= Len(frames)
        BY <1>1, <3>2 DEF IInv, TypeOK, PacketsFollow
      <4>2. p.frame \in Nat \ {0}
        BY <3>2, PacketFields, RtpAssumption
      <4> QED
        BY <4>1, <4>2
    <3>4. frames[p.frame].dts \in Int
      <4>1. frames[p.frame] \in FrameKinds
        BY <1>1, <3>3, ElementType DEF IInv, TypeOK
      <4>2. frames[p.frame] \in [size : Nat \ {0}, dts : Int]
        BY <4>1, RtpAssumption
      <4> QED
        BY <4>2
    <3>5. p.timestamp = Timestamp(frames[p.frame].dts)
      <4>1. frames[p.frame].dts # 0
        BY <2>2, <3>1, <3>4
      <4> QED
        BY <1>1, <3>2, <4>1 DEF IInv, PacketsFollow
    <3> QED
      BY <2>2, <3>1, <3>4, <3>5, PlainTimestamp
  <2>3. output[k].dts = Quotient(End(k).timestamp - End(1).timestamp, TicksPerMs)
    BY <1>1 DEF IInv, UnitsFollow
  <2>4. PICK x, y : x = frames[End(k).frame].dts /\ y = frames[End(1).frame].dts
    OBVIOUS
  <2>5. /\ x \in Int /\ y \in Int
        /\ End(k).timestamp = x * TicksPerMs /\ End(1).timestamp = y * TicksPerMs
    BY <1>1, <2>1, <2>2, <2>4
  <2>6. Quotient(x * TicksPerMs - y * TicksPerMs, TicksPerMs) = x - y
    BY <2>5, RtpAssumption, ExactQuotient
  <2> QED
    BY <2>3, <2>4, <2>5, <2>6
<1>2. IInv => DtsDistancesKept
  <2> SUFFICES ASSUME IInv, NEW j \in DOMAIN output, NEW k \in DOMAIN output,
                      frames[End(1).frame].dts > 0,
                      frames[End(1).frame].dts * TicksPerMs < TsModulus,
                      frames[End(j).frame].dts > 0,
                      frames[End(j).frame].dts * TicksPerMs < TsModulus,
                      frames[End(k).frame].dts > 0,
                      frames[End(k).frame].dts * TicksPerMs < TsModulus
               PROVE  output[k].dts - output[j].dts
                        = frames[End(k).frame].dts - frames[End(j).frame].dts
    BY DEF DtsDistancesKept, End, Last
  <2>1. /\ output[k].dts = frames[End(k).frame].dts - frames[End(1).frame].dts
        /\ output[j].dts = frames[End(j).frame].dts - frames[End(1).frame].dts
        /\ frames[End(k).frame].dts \in Int /\ frames[End(j).frame].dts \in Int
        /\ frames[End(1).frame].dts \in Int
    BY <1>1
  <2> QED
    BY <2>1
<1> QED
  BY <1>2, Inductive, PTL

------------------------------------------------------------------------------
(* The path implements a channel.                                          *)

\* What the channel takes for its variables in and out.
In == [n \in DOMAIN frames |-> n]
Out == [k \in DOMAIN output |-> UnitFrame(output[k])]

LEMMA InAndOut ==
  ASSUME TypeOK
  PROVE  /\ Len(frames) \in Nat /\ In = [n \in 1 .. Len(frames) |-> n]
         /\ In \in Seq(Nat) /\ Len(In) = Len(frames)
         /\ Len(output) \in Nat /\ Out = [k \in 1 .. Len(output) |-> UnitFrame(output[k])]
         /\ Len(Out) = Len(output)
<1>1. /\ Len(frames) \in Nat /\ DOMAIN frames = 1 .. Len(frames)
      /\ Len(output) \in Nat /\ DOMAIN output = 1 .. Len(output)
  BY DEF TypeOK
<1>2. In = [n \in 1 .. Len(frames) |-> n]
  BY <1>1 DEF In
<1>3. Out = [k \in 1 .. Len(output) |-> UnitFrame(output[k])]
  BY <1>1 DEF Out
<1>4. In \in Seq(Nat) /\ Len(In) = Len(frames)
  BY <1>1, <1>2
<1>5. Len(Out) = Len(output)
  BY <1>1, <1>3
<1> QED
  BY <1>1, <1>2, <1>3, <1>4, <1>5

\* The frames sent stay sent.
LEMMA InGrows ==
  ASSUME TypeOK, TypeOK', Len(frames) <= Len(frames')
  PROVE  Channel!IsPrefix(In, In')
<1>1. PICK n \in Nat : n = Len(frames)
  BY InAndOut
<1>2. PICK m \in Nat : m = Len(frames') /\ n <= m
  BY <1>1 DEF TypeOK
<1>3. In = [i \in 1 .. n |-> i]
  BY <1>1, InAndOut
<1>4. In' = [i \in 1 .. m |-> i]
  BY <1>2 DEF In, TypeOK
<1>5. \A l \in Nat : [i \in 1 .. l |-> i] \in Seq(Nat) /\ Len([i \in 1 .. l |-> i]) = l
  OBVIOUS
<1>6. SubSeq(In, 1, n) = [i \in 1 .. n |-> i]
  BY <1>3
<1>7. SubSeq(In', 1, n) = [i \in 1 .. n |-> i]
  BY <1>2, <1>4
<1> QED
  BY <1>1, <1>2, <1>3, <1>4, <1>5, <1>6, <1>7 DEF Channel!IsPrefix

\* What went wrong stays wrong.
LEMMA FaultsStay ==
  ASSUME IInv, [Next]_vars, ~Intact
  PROVE  ~Intact'
<1>1. dropped \in Nat /\ lost \in Nat /\ shuffled \in Nat /\ receiving \in BOOLEAN
  BY DEF IInv, TypeOK
<1>2. ~receiving \/ ~ (dropped + lost + shuffled = 0)
  BY DEF Intact
<1>3. /\ ~receiving => ~receiving'
      /\ dropped' \in {dropped, dropped + 1} /\ lost' \in {lost, lost + 1}
      /\ shuffled' \in {shuffled, shuffled + 1}
  BY DEF Next, vars, ReceivePacket, SendFragment, SendLoop, Lose, Duplicate, Reorder,
         HandleReceive, HandleNothing, faults
<1>4. ~ (dropped + lost + shuffled = 0) => ~ (dropped' + lost' + shuffled' = 0)
  <2>1. /\ dropped' \in Nat /\ lost' \in Nat /\ shuffled' \in Nat
        /\ dropped' = 0 => dropped = 0
        /\ lost' = 0 => lost = 0
        /\ shuffled' = 0 => shuffled = 0
    BY <1>1, <1>3
  <2>2. dropped + lost + shuffled = 0 <=> dropped = 0 /\ lost = 0 /\ shuffled = 0
    BY <1>1, SumIsZero
  <2>3. dropped' + lost' + shuffled' = 0 <=> dropped' = 0 /\ lost' = 0 /\ shuffled' = 0
    BY <2>1, SumIsZero
  <2> QED
    BY <2>1, <2>2, <2>3
<1> QED
  BY <1>2, <1>3, <1>4 DEF Intact

\* On an intact path unit k is frame k.
LEMMA UnitsAreFrames ==
  ASSUME IInv, Intact, NEW k \in DOMAIN output
  PROVE  UnitFrame(output[k]) = k
BY DEF IInv, Intact, NothingMissing, UnitFrame

\* A step the channel does not notice.
LEMMA Unnoticed ==
  ASSUME frames' = frames, output' = output, Intact' = Intact
  PROVE  UNCHANGED Channel!chan
BY DEF Channel!chan, UnitFrame, IsFrame

\* A step that breaks the path.
LEMMA Breaks ==
  ASSUME Intact, ~Intact', frames' = frames, output' = output
  PROVE  Channel!Break
BY DEF Channel!Break, UnitFrame, IsFrame

\* Every step of the path is one of the channel, or the channel does not notice it.
LEMMA StepImplementsChannel ==
  ASSUME IInv, IInv', [Next]_vars
  PROVE  [Channel!Next]_(Channel!chan)
<1>1. TypeOK /\ TypeOK'
  BY DEF IInv
<1>2. /\ dropped \in Nat /\ lost \in Nat /\ shuffled \in Nat
      /\ dropped' \in Nat /\ lost' \in Nat /\ shuffled' \in Nat
  BY <1>1 DEF TypeOK
<1>3. CASE ~Intact
  <2>1. ~Intact'
    BY <1>3, FaultsStay
  <2>2. Len(frames) <= Len(frames')
    <3>1. CASE ReceivePacket
      <4>1. PICK frame \in FrameKinds : frames' = Append(frames, frame)
        BY <3>1 DEF ReceivePacket
      <4> QED
        BY <1>1, <4>1 DEF TypeOK
    <3>2. CASE frames' = frames
      BY <1>1, <3>2 DEF TypeOK
    <3> QED
      BY <3>1, <3>2 DEF Next, vars, packager, SendFragment, SendLoop, Lose, Duplicate, Reorder,
                        HandleReceive, HandleNothing
  <2>3. Channel!Broken
    BY <1>1, <1>3, <2>1, <2>2, InGrows DEF Channel!Broken, In
  <2> QED
    BY <2>3 DEF Channel!Next
<1>4. CASE Intact
  <2>1. dropped = 0 /\ lost = 0 /\ shuffled = 0 /\ receiving
    BY <1>2, <1>4, SumIsZero DEF Intact
  <2>2. CASE ReceivePacket
    <3>1. PICK frame \in FrameKinds : frames' = Append(frames, frame)
      BY <2>2 DEF ReceivePacket
    <3>2. output' = output /\ Intact'
      BY <1>4, <2>2 DEF ReceivePacket, unpackager, faults, Intact
    <3>3. Len(frames') = Len(frames) + 1 /\ Len(frames) \in Nat
      BY <1>1, <3>1 DEF TypeOK
    <3>4. Len(In') = Len(In) + 1 /\ Channel!IsPrefix(In, In')
      <4>1. Len(In) = Len(frames)
        BY <1>1, InAndOut
      <4>2. Len(In') = Len(frames')
        <5>1. PICK m \in Nat : m = Len(frames') /\ DOMAIN frames' = 1 .. m
          BY <1>1 DEF TypeOK
        <5>2. In' = [i \in 1 .. m |-> i]
          BY <5>1 DEF In
        <5> QED
          BY <5>1, <5>2
      <4> QED
        BY <1>1, <3>3, <4>1, <4>2, InGrows
    <3>5. Out' = Out
      <4>1. \A k \in DOMAIN output : UnitFrame(output[k]) = k
        BY <1>4, UnitsAreFrames
      <4>2. \A k \in DOMAIN output' : UnitFrame(output[k])' = k
        BY <3>2 DEF IInv, Intact, NothingMissing, UnitFrame
      <4> QED
        BY <3>2, <4>1, <4>2 DEF Out
    <3>6. Channel!Put
      BY <1>4, <3>2, <3>4, <3>5 DEF Channel!Put, In, Out
    <3> QED
      BY <3>6 DEF Channel!Next
  <2>3. CASE SendFragment \/ Lose \/ Duplicate \/ Reorder \/ HandleNothing
    <3>1. /\ frames' = frames /\ output' = output
          /\ \/ UNCHANGED <<receiving, faults>>
             \/ dropped' = dropped + 1 \/ lost' = lost + 1 \/ shuffled' = shuffled + 1
             \/ ~receiving'
      BY <2>3 DEF SendFragment, Lose, Duplicate, Reorder, HandleNothing, packager,
                  unpackager, faults
    <3>2. CASE UNCHANGED <<receiving, faults>>
      BY <3>1, <3>2, Unnoticed DEF Intact, faults
    <3>3. CASE dropped' = dropped + 1 \/ lost' = lost + 1 \/ shuffled' = shuffled + 1
               \/ ~receiving'
      <4>1. ~ (dropped' = 0 /\ lost' = 0 /\ shuffled' = 0) \/ ~receiving'
        BY <2>1, <3>3
      <4>2. ~ (dropped' + lost' + shuffled' = 0) \/ ~receiving'
        BY <1>2, <4>1, SumIsZero
      <4>3. ~Intact'
        BY <4>2 DEF Intact
      <4> QED
        BY <1>4, <3>1, <4>3, Breaks DEF Channel!Next
    <3> QED
      BY <3>1, <3>2, <3>3
  <2>4. CASE SendLoop \/ UNCHANGED vars
    BY <2>4, Unnoticed DEF SendLoop, vars, packager, unpackager, faults, Intact
  <2>5. CASE HandleReceive
    <3>1. frames' = frames /\ Intact' /\ Intact' = Intact
      BY <1>4, <2>5 DEF HandleReceive, packager, faults, Intact
    <3>2. CASE ~Head(network).marker
      <4>1. output' = output
        BY <2>5, <3>2 DEF HandleReceive
      <4> QED
        BY <3>1, <4>1, Unnoticed
    <3>3. CASE Head(network).marker
      <4>1. PICK v : output' = Append(output, v)
        BY <2>5, <3>3 DEF HandleReceive
      <4>2. PICK n \in Nat : n = Len(output) /\ DOMAIN output = 1 .. n
        BY <1>1 DEF TypeOK
      <4>3. /\ Len(output') = n + 1 /\ DOMAIN output' = 1 .. n + 1
            /\ n + 1 \in DOMAIN output'
        BY <1>1, <4>1, <4>2 DEF TypeOK
      <4>4. Out = [k \in 1 .. n |-> k]
        BY <1>4, <4>2, UnitsAreFrames DEF Out
      <4>5. Out' = [k \in 1 .. n + 1 |-> k]
        <5>1. \A k \in DOMAIN output' : UnitFrame(output[k])' = k
          BY <3>1 DEF IInv, Intact, NothingMissing, UnitFrame
        <5> QED
          BY <4>3, <5>1 DEF Out
      <4>6. n + 1 <= Len(frames)
        <5>1. (n + 1 <= Len(frames))'
          BY <3>1, <4>3 DEF IInv, NothingMissing, Intact
        <5> QED
          BY <3>1, <5>1
      <4>7. Len(Out) = n /\ Len(Out) < Len(In) /\ In[Len(Out) + 1] = n + 1
        <5>1. /\ Len(Out) = n /\ Len(In) = Len(frames) /\ Len(frames) \in Nat
              /\ In = [i \in 1 .. Len(frames) |-> i]
          BY <1>1, <4>2, InAndOut
        <5>2. n + 1 \in 1 .. Len(frames)
          BY <4>6, <5>1
        <5>3. In[n + 1] = n + 1
          BY <5>1, <5>2
        <5> QED
          BY <4>6, <5>1, <5>3
      <4>8. Out' = Append(Out, n + 1)
        BY <4>4, <4>5
      <4>9. In' = In
        BY <3>1 DEF In
      <4>10. Channel!Get
        BY <1>4, <3>1, <4>7, <4>8, <4>9 DEF Channel!Get, In, Out
      <4> QED
        BY <4>10 DEF Channel!Next
    <3> QED
      BY <3>2, <3>3
  <2> QED
    BY <2>2, <2>3, <2>4, <2>5 DEF Next
<1> QED
  BY <1>3, <1>4

\* As long as no queue overflows, the network loses, repeats and reorders nothing
\* and the receiver runs, the frames the Packager got come out of the Unpackager as
\* they are, in order, none missing and none twice.
THEOREM PathIsChannel == Spec => ImplementsChannel
<1>1. Init => Channel!Init
  BY DEF Init, Channel!Init, Intact
<1>2. IInv /\ IInv' /\ [Next]_vars => [Channel!Next]_(Channel!chan)
  BY StepImplementsChannel
<1> QED
  BY <1>1, <1>2, Inductive, PTL DEF Spec, ImplementsChannel, Channel!Spec

------------------------------------------------------------------------------
(* What the Unpackager collects.                                           *)

\* A packet as far as the bytes collected depend on it.
Loads == [size : 0 .. LargestFrame, marker : BOOLEAN]

\* What a packet adds to the bytes collected, when a marker pays for a frame.
Weight(load) == load.size - IF load.marker THEN LargestFrame ELSE 0

\* A frame ends at place b of the n loads s.
Closed(s, n, b) == b = n \/ (b > 0 /\ s[b].marker)

\* The weights of the n loads s up to each place.
Balance(s, n, sum) ==
  /\ sum \in [0 .. n -> Int] /\ sum[0] = 0
  /\ \A k \in 1 .. n : sum[k] = sum[k - 1] + Weight(s[k])

\* Wherever one begins to collect, the loads up to the end of a frame exceed what
\* the markers pay for by at most debt, and up to another place by a frame more.
Bounded(s, n, debt) ==
  /\ s \in [1 .. n -> Loads]
  /\ \E sum : /\ Balance(s, n, sum)
              /\ \A b \in 0 .. n : \A a \in 0 .. b :
                   sum[b] - sum[a] <= IF Closed(s, n, b) THEN debt ELSE debt + LargestFrame

\* The largest frame is one of them, and no frame is larger.
LEMMA LargestIsOne ==
  /\ LargestFrame \in Nat \ {0}
  /\ \A kind \in FrameKinds : kind.size \in 1 .. LargestFrame
<1> DEFINE S == {kind.size : kind \in FrameKinds}
<1>1. \E m \in S : \A x \in S : m >= x
  <2>1. PICK largest \in FrameKinds : \A kind \in FrameKinds : kind.size <= largest.size
    BY RtpAssumption
  <2>2. largest.size \in S /\ \A x \in S : x <= largest.size /\ x \in Nat /\ largest.size \in Nat
    BY <2>1, RtpAssumption
  <2> QED
    BY <2>2
<1>2. Max(S) \in S /\ \A x \in S : Max(S) >= x
  BY <1>1, Zenon DEF Max
<1>3. LargestFrame = Max(S)
  BY DEF LargestFrame
<1> HIDE DEF S
<1>4. \A x \in S : x \in Nat \ {0}
  BY RtpAssumption DEF S
<1>5. \A kind \in FrameKinds : kind.size \in S
  BY DEF S
<1> QED
  BY <1>2, <1>3, <1>4, <1>5

\* The weight of a load lies between those of a marker and of a whole frame.
LEMMA WeightRange ==
  ASSUME NEW load \in Loads
  PROVE  /\ Weight(load) \in Int
         /\ -LargestFrame <= Weight(load) /\ Weight(load) <= LargestFrame
         /\ load.marker => Weight(load) <= 0
         /\ load.marker \in BOOLEAN /\ load.size \in Nat /\ load.size <= LargestFrame
         /\ Weight(load) = load.size - IF load.marker THEN LargestFrame ELSE 0
BY LargestIsOne DEF Loads, Weight

\* A load is taken out: if it was a marker, a frame more may come together.
LEMMA LoadRemoved ==
  ASSUME NEW n \in Nat \ {0}, NEW s, NEW c \in Nat, Bounded(s, n, c), NEW i \in 1 .. n,
         NEW t, t = [k \in 1 .. n - 1 |-> IF k < i THEN s[k] ELSE s[k + 1]]
  PROVE  Bounded(t, n - 1, c + LargestFrame)
<1> DEFINE L == LargestFrame
<1>0. L \in Nat /\ n - 1 \in Nat
  BY LargestIsOne
<1>1. PICK sum : /\ Balance(s, n, sum)
                 /\ \A b \in 0 .. n : \A a \in 0 .. b :
                      sum[b] - sum[a] <= IF Closed(s, n, b) THEN c ELSE c + L
  BY DEF Bounded
<1>2. s \in [1 .. n -> Loads]
  BY DEF Bounded
<1>3. PICK w \in Int : w = Weight(s[i]) /\ -L <= w
  BY <1>2, WeightRange
<1>4. /\ \A k \in 0 .. n : sum[k] \in Int
      /\ sum[0] = 0
      /\ \A k \in 1 .. n : sum[k] = sum[k - 1] + Weight(s[k])
  BY <1>1 DEF Balance
<1> DEFINE u == [k \in 0 .. n - 1 |-> IF k < i THEN sum[k] ELSE sum[k + 1] - w]
<1> HIDE DEF L
<1>5. /\ \A k \in 0 .. n - 1 : u[k] \in Int
      /\ \A k \in 0 .. n - 1 : k < i => u[k] = sum[k]
      /\ \A k \in 0 .. n - 1 : i <= k => u[k] = sum[k + 1] - w
      /\ u[i - 1] = sum[i] - w
      /\ \A k \in 1 .. n - 1 : k < i => t[k] = s[k]
      /\ \A k \in 1 .. n - 1 : i <= k => t[k] = s[k + 1]
  BY <1>3, <1>4
<1>6. t \in [1 .. n - 1 -> Loads]
  BY <1>2
<1>7. Balance(t, n - 1, u)
  <2>1. u \in [0 .. n - 1 -> Int] /\ u[0] = 0
    BY <1>4, <1>5
  <2>2. ASSUME NEW k \in 1 .. n - 1 PROVE u[k] = u[k - 1] + Weight(t[k])
    <3>1. CASE k < i
      <4>1. u[k] = sum[k] /\ u[k - 1] = sum[k - 1] /\ t[k] = s[k]
        BY <1>5, <3>1
      <4> QED
        BY <1>4, <4>1
    <3>2. CASE i <= k
      <4>1. u[k] = sum[k + 1] - w /\ u[k - 1] = sum[k] - w /\ t[k] = s[k + 1]
        BY <1>5, <3>2
      <4>2. sum[k + 1] = sum[k] + Weight(s[k + 1])
        <5>1. k + 1 \in 1 .. n /\ k + 1 - 1 = k
          OBVIOUS
        <5> QED
          BY <1>4, <5>1
      <4>3. Weight(s[k + 1]) \in Int /\ sum[k] \in Int
        BY <1>2, <1>4, WeightRange
      <4> QED
        BY <4>1, <4>2, <4>3
    <3> QED
      BY <3>1, <3>2
  <2> QED
    BY <2>1, <2>2 DEF Balance
<1> HIDE DEF u
<1>8. ASSUME NEW b \in 0 .. n - 1, NEW a \in 0 .. b
      PROVE  u[b] - u[a] <= IF Closed(t, n - 1, b) THEN c + L ELSE c + L + L
  <2>1. CASE b < i
    <3>1. u[b] = sum[b] /\ u[a] = sum[a]
      BY <1>5, <2>1
    <3>2. sum[b] - sum[a] <= c + L /\ sum[b] \in Int /\ sum[a] \in Int
      <4>1. sum[b] - sum[a] <= IF Closed(s, n, b) THEN c ELSE c + L
        BY <1>1
      <4> QED
        BY <1>0, <1>4, <4>1
    <3> QED
      BY <1>0, <3>1, <3>2
  <2>2. CASE i <= b
    <3>1. u[b] = sum[b + 1] - w /\ b + 1 \in 0 .. n /\ b + 1 > 0
      BY <1>5, <2>2
    <3>2. Closed(t, n - 1, b) <=> Closed(s, n, b + 1)
      <4>1. t[b] = s[b + 1] /\ b > 0
        BY <1>5, <2>2
      <4> QED
        BY <3>1, <4>1 DEF Closed
    <3>3. CASE a < i
      <4>1. u[a] = sum[a] /\ a \in 0 .. b + 1
        BY <1>5, <3>3
      <4>2. sum[b + 1] - sum[a] <= IF Closed(s, n, b + 1) THEN c ELSE c + L
        BY <1>1, <3>1, <4>1
      <4>3. sum[b + 1] \in Int /\ sum[a] \in Int
        BY <1>4, <3>1, <4>1
      <4>4. PICK e \in Int : e = sum[b + 1] - sum[a] /\ u[b] - u[a] = e - w
        BY <1>3, <3>1, <4>1, <4>3
      <4> QED
        BY <1>0, <1>3, <3>2, <4>2, <4>4
    <3>4. CASE i <= a
      <4>1. u[a] = sum[a + 1] - w /\ a + 1 \in 0 .. b + 1
        BY <1>5, <3>4
      <4>2. sum[b + 1] - sum[a + 1] <= IF Closed(s, n, b + 1) THEN c ELSE c + L
        BY <1>1, <3>1, <4>1
      <4>3. sum[b + 1] \in Int /\ sum[a + 1] \in Int
        BY <1>4, <3>1, <4>1
      <4>4. u[b] - u[a] = sum[b + 1] - sum[a + 1] /\ sum[b + 1] - sum[a + 1] \in Int
        BY <1>3, <3>1, <4>1, <4>3
      <4> QED
        BY <1>0, <3>2, <4>2, <4>4
    <3> QED
      BY <3>3, <3>4
  <2> QED
    BY <2>1, <2>2
<1> QED
  BY <1>6, <1>7, <1>8 DEF Bounded, L

\* A load is put in at place j.
LEMMA LoadInserted ==
  ASSUME NEW n \in Nat, NEW s, NEW c \in Nat, Bounded(s, n, c),
         NEW j \in 1 .. n + 1, NEW x \in Loads,
         NEW t, t = [k \in 1 .. n + 1 |-> IF k < j THEN s[k] ELSE IF k = j THEN x ELSE s[k - 1]]
  PROVE  Bounded(t, n + 1, c + LargestFrame)
<1> DEFINE L == LargestFrame
<1>0. L \in Nat
  BY LargestIsOne
<1>1. PICK sum : /\ Balance(s, n, sum)
                 /\ \A b \in 0 .. n : \A a \in 0 .. b :
                      sum[b] - sum[a] <= IF Closed(s, n, b) THEN c ELSE c + L
  BY DEF Bounded
<1>2. s \in [1 .. n -> Loads]
  BY DEF Bounded
<1>3. PICK w \in Int : w = Weight(x) /\ w <= L /\ (x.marker => w <= 0) /\ x.marker \in BOOLEAN
  BY WeightRange
<1>4. /\ \A k \in 0 .. n : sum[k] \in Int
      /\ sum[0] = 0
      /\ \A k \in 1 .. n : sum[k] = sum[k - 1] + Weight(s[k])
  BY <1>1 DEF Balance
<1> DEFINE u == [k \in 0 .. n + 1 |-> IF k < j THEN sum[k] ELSE sum[k - 1] + w]
<1> HIDE DEF L
<1>5. /\ \A k \in 0 .. n + 1 : u[k] \in Int
      /\ \A k \in 0 .. n + 1 : k < j => u[k] = sum[k]
      /\ \A k \in 0 .. n + 1 : j <= k => u[k] = sum[k - 1] + w
      /\ \A k \in 1 .. n + 1 : k < j => t[k] = s[k]
      /\ \A k \in 1 .. n + 1 : j < k => t[k] = s[k - 1]
      /\ t[j] = x
  BY <1>3, <1>4
<1>6. t \in [1 .. n + 1 -> Loads]
  BY <1>2
<1>7. Balance(t, n + 1, u)
  <2>1. u \in [0 .. n + 1 -> Int] /\ u[0] = 0
    BY <1>4, <1>5
  <2>2. ASSUME NEW k \in 1 .. n + 1 PROVE u[k] = u[k - 1] + Weight(t[k])
    <3>1. CASE k < j
      <4>1. u[k] = sum[k] /\ u[k - 1] = sum[k - 1] /\ t[k] = s[k]
        BY <1>5, <3>1
      <4> QED
        BY <1>4, <3>1, <4>1
    <3>2. CASE k = j
      <4>1. u[k] = sum[k - 1] + w /\ u[k - 1] = sum[k - 1] /\ t[k] = x
        BY <1>5, <3>2
      <4> QED
        BY <1>3, <4>1
    <3>3. CASE j < k
      <4>1. u[k] = sum[k - 1] + w /\ u[k - 1] = sum[k - 2] + w /\ t[k] = s[k - 1]
        <5>1. k - 1 \in 0 .. n + 1 /\ (k - 1) - 1 = k - 2 /\ j <= k - 1
          BY <3>3
        <5> QED
          BY <1>5, <3>3, <5>1
      <4>2. sum[k - 1] = sum[k - 2] + Weight(s[k - 1])
        <5>1. k - 1 \in 1 .. n /\ (k - 1) - 1 = k - 2
          BY <3>3
        <5> QED
          BY <1>4, <5>1
      <4>3. Weight(s[k - 1]) \in Int /\ sum[k - 2] \in Int
        BY <1>2, <1>4, <3>3, WeightRange
      <4> QED
        BY <4>1, <4>2, <4>3
    <3> QED
      BY <3>1, <3>2, <3>3
  <2> QED
    BY <2>1, <2>2 DEF Balance
<1> HIDE DEF u
<1>8. ASSUME NEW b \in 0 .. n + 1, NEW a \in 0 .. b
      PROVE  u[b] - u[a] <= IF Closed(t, n + 1, b) THEN c + L ELSE c + L + L
  <2>1. CASE b < j
    <3>1. u[b] = sum[b] /\ u[a] = sum[a] /\ b \in 0 .. n /\ a \in 0 .. b
      BY <1>5, <2>1
    <3>2. sum[b] - sum[a] <= c + L /\ sum[b] \in Int /\ sum[a] \in Int
      <4>1. sum[b] - sum[a] <= IF Closed(s, n, b) THEN c ELSE c + L
        BY <1>1, <3>1
      <4> QED
        BY <1>0, <1>4, <3>1, <4>1
    <3> QED
      BY <1>0, <3>1, <3>2
  <2>2. CASE j <= b /\ a < j
    <3>1. /\ u[b] = sum[b - 1] + w /\ u[a] = sum[a] /\ b - 1 \in 0 .. n /\ a \in 0 .. b - 1
          /\ sum[b - 1] \in Int /\ sum[a] \in Int
      BY <1>4, <1>5, <2>2
    <3>2. PICK e \in Int : /\ e = sum[b - 1] - sum[a] /\ u[b] - u[a] = e + w
                           /\ e <= IF Closed(s, n, b - 1) THEN c ELSE c + L
      <4>1. sum[b - 1] - sum[a] <= IF Closed(s, n, b - 1) THEN c ELSE c + L
        BY <1>1, <3>1
      <4>2. u[b] - u[a] = (sum[b - 1] - sum[a]) + w /\ sum[b - 1] - sum[a] \in Int
        BY <1>3, <3>1
      <4> QED
        BY <4>1, <4>2
    <3>3. CASE b = j
      <4>1. CASE x.marker
        BY <1>0, <1>3, <3>2, <4>1
      <4>2. CASE ~x.marker /\ b = n + 1
        <5>1. Closed(s, n, b - 1)
          BY <4>2 DEF Closed
        <5> QED
          BY <1>0, <1>3, <3>2, <5>1
      <4>3. CASE ~x.marker /\ b # n + 1
        <5>1. ~Closed(t, n + 1, b)
          BY <1>5, <3>3, <4>3 DEF Closed
        <5> QED
          BY <1>0, <1>3, <3>2, <5>1
      <4> QED
        BY <1>3, <4>1, <4>2, <4>3
    <3>4. CASE j < b
      <4>1. Closed(t, n + 1, b) <=> Closed(s, n, b - 1)
        <5>1. t[b] = s[b - 1] /\ b > 0 /\ b - 1 > 0
          BY <1>5, <3>4
        <5> QED
          BY <5>1 DEF Closed
      <4> QED
        BY <1>0, <1>3, <3>2, <4>1
    <3> QED
      BY <2>2, <3>3, <3>4
  <2>3. CASE j <= a
    <3>1. /\ u[b] = sum[b - 1] + w /\ u[a] = sum[a - 1] + w
          /\ b - 1 \in 0 .. n /\ a - 1 \in 0 .. b - 1
          /\ sum[b - 1] \in Int /\ sum[a - 1] \in Int
      BY <1>4, <1>5, <2>3
    <3>2. sum[b - 1] - sum[a - 1] <= IF Closed(s, n, b - 1) THEN c ELSE c + L
      BY <1>1, <3>1
    <3>3. CASE b = a
      BY <1>0, <3>1, <3>3
    <3>4. CASE a < b
      <4>1. Closed(t, n + 1, b) <=> Closed(s, n, b - 1)
        <5>1. t[b] = s[b - 1] /\ b > 0 /\ b - 1 > 0
          BY <1>5, <2>3, <3>4
        <5> QED
          BY <5>1 DEF Closed
      <4>2. u[b] - u[a] = sum[b - 1] - sum[a - 1] /\ sum[b - 1] - sum[a - 1] \in Int
        BY <1>3, <3>1
      <4> QED
        BY <1>0, <3>2, <4>1, <4>2
    <3> QED
      BY <3>3, <3>4
  <2> QED
    BY <2>1, <2>2, <2>3
<1> QED
  BY <1>6, <1>7, <1>8 DEF Bounded, L

\* The n loads s with the one at place i moved back to place j.
Moved(s, n, i, j) ==
  [k \in 1 .. n |-> IF k < i \/ j < k THEN s[k] ELSE IF k = j THEN s[i] ELSE s[k + 1]]

\* A load that moves back counts like one more frame.
LEMMA LoadMoved ==
  ASSUME NEW n \in Nat, NEW s, NEW c \in Nat, Bounded(s, n, c),
         NEW i \in 1 .. n, NEW j \in i .. n, NEW t, t = Moved(s, n, i, j)
  PROVE  Bounded(t, n, c + LargestFrame)
<1> DEFINE L == LargestFrame
           x == s[i]
<1>0. L \in Nat /\ j \in 1 .. n
  BY LargestIsOne
<1>1. PICK sum : /\ Balance(s, n, sum)
                 /\ \A b \in 0 .. n : \A a \in 0 .. b :
                      sum[b] - sum[a] <= IF Closed(s, n, b) THEN c ELSE c + L
  BY DEF Bounded
<1>2. s \in [1 .. n -> Loads] /\ x \in Loads
  BY DEF Bounded
<1> HIDE DEF x
<1>3. PICK w \in Int : w = Weight(x) /\ -L <= w /\ w <= L /\ (x.marker => w <= 0)
                       /\ x.marker \in BOOLEAN
  BY <1>2, WeightRange
<1>4. /\ \A k \in 0 .. n : sum[k] \in Int
      /\ sum[0] = 0
      /\ \A k \in 1 .. n : sum[k] = sum[k - 1] + Weight(s[k])
  BY <1>1 DEF Balance
<1> DEFINE u == [k \in 0 .. n |-> IF k < i \/ j <= k THEN sum[k] ELSE sum[k + 1] - w]
<1> HIDE DEF L
<1>5. /\ \A k \in 0 .. n : u[k] \in Int
      /\ \A k \in 0 .. n : k < i \/ j <= k => u[k] = sum[k]
      /\ \A k \in 0 .. n : i <= k /\ k < j => u[k] = sum[k + 1] - w
      /\ \A k \in 1 .. n : k < i \/ j < k => t[k] = s[k]
      /\ \A k \in 1 .. n : i <= k /\ k < j => t[k] = s[k + 1]
      /\ t[j] = x
  <2>1. \A k \in 0 .. n : i <= k /\ k < j => k + 1 \in 0 .. n
    BY <1>0
  <2>2. \A k \in 0 .. n : u[k] \in Int
    BY <1>3, <1>4, <2>1
  <2>3. /\ \A k \in 0 .. n : k < i \/ j <= k => u[k] = sum[k]
        /\ \A k \in 0 .. n : i <= k /\ k < j => u[k] = sum[k + 1] - w
    OBVIOUS
  <2>4. /\ \A k \in 1 .. n : k < i \/ j < k => t[k] = s[k]
        /\ \A k \in 1 .. n : i <= k /\ k < j => t[k] = s[k + 1]
        /\ t[j] = x
    BY <1>0 DEF x, Moved
  <2> QED
    BY <2>2, <2>3, <2>4
<1>6. t \in [1 .. n -> Loads]
  BY <1>2 DEF x, Moved
<1>7. sum[i] = sum[i - 1] + w /\ i - 1 \in 0 .. n
  BY <1>3, <1>4 DEF x
<1>8. Balance(t, n, u)
  <2>1. u \in [0 .. n -> Int] /\ u[0] = 0
    BY <1>4, <1>5
  <2>2. ASSUME NEW k \in 1 .. n PROVE u[k] = u[k - 1] + Weight(t[k])
    <3>1. CASE k < i \/ j < k
      <4>1. u[k] = sum[k] /\ u[k - 1] = sum[k - 1] /\ t[k] = s[k]
        BY <1>5, <3>1
      <4> QED
        BY <1>4, <4>1
    <3>2. CASE i <= k /\ k < j
      <4>1. u[k] = sum[k + 1] - w /\ t[k] = s[k + 1] /\ k + 1 \in 1 .. n /\ (k + 1) - 1 = k
        BY <1>5, <3>2
      <4>2. sum[k + 1] = sum[k] + Weight(s[k + 1])
        BY <1>4, <4>1
      <4>3. Weight(s[k + 1]) \in Int /\ sum[k] \in Int /\ sum[k - 1] \in Int
        <5>1. s[k + 1] \in Loads
          BY <1>2, <4>1
        <5>2. Weight(s[k + 1]) \in Int
          BY <5>1, WeightRange
        <5>3. k \in 0 .. n /\ k - 1 \in 0 .. n
          OBVIOUS
        <5> QED
          BY <1>4, <5>2, <5>3
      <4>4. u[k - 1] = sum[k] - w
        <5>1. CASE k = i
          <6>1. u[k - 1] = sum[k - 1]
            BY <1>5, <5>1
          <6> QED
            BY <1>3, <1>7, <4>3, <5>1, <6>1
        <5>2. CASE i < k
          <6>1. k - 1 \in 0 .. n /\ i <= k - 1 /\ k - 1 < j /\ (k - 1) + 1 = k
            BY <3>2, <5>2
          <6> QED
            BY <1>5, <6>1
        <5> QED
          BY <3>2, <5>1, <5>2
      <4> QED
        BY <1>3, <4>1, <4>2, <4>3, <4>4
    <3>3. CASE k = j
      <4>1. u[k] = sum[k] /\ t[k] = x
        BY <1>5, <3>3
      <4>2. u[k - 1] = sum[k] - w
        <5>1. CASE i = j
          <6>1. u[k - 1] = sum[k - 1]
            BY <1>5, <3>3, <5>1
          <6> QED
            BY <1>3, <1>4, <1>7, <3>3, <5>1, <6>1
        <5>2. CASE i < j
          <6>1. k - 1 \in 0 .. n /\ i <= k - 1 /\ k - 1 < j /\ (k - 1) + 1 = k
            BY <3>3, <5>2
          <6> QED
            BY <1>5, <6>1
        <5> QED
          BY <5>1, <5>2
      <4> QED
        BY <1>3, <1>4, <4>1, <4>2
    <3> QED
      BY <3>1, <3>2, <3>3
  <2> QED
    BY <2>1, <2>2 DEF Balance
<1> HIDE DEF u
<1>9. ASSUME NEW b \in 0 .. n, NEW a \in 0 .. b
      PROVE  u[b] - u[a] <= IF Closed(t, n, b) THEN c + L ELSE c + L + L
  <2>1. CASE b < i
    <3>1. u[b] = sum[b] /\ u[a] = sum[a] /\ (Closed(t, n, b) <=> Closed(s, n, b))
      BY <1>5, <2>1 DEF Closed
    <3>2. sum[b] - sum[a] <= IF Closed(s, n, b) THEN c ELSE c + L
      BY <1>1
    <3> QED
      BY <1>0, <1>4, <3>1, <3>2
  <2>2. CASE i <= b /\ b < j
    <3>1. u[b] = sum[b + 1] - w /\ b + 1 \in 1 .. n /\ t[b] = s[b + 1] /\ sum[b + 1] \in Int
      BY <1>4, <1>5, <2>2
    <3>2. Closed(t, n, b) => Closed(s, n, b + 1)
      BY <2>2, <3>1 DEF Closed
    <3>3. CASE a < i
      <4>1. u[a] = sum[a] /\ a \in 0 .. b + 1 /\ sum[a] \in Int
        BY <1>4, <1>5, <3>3
      <4>2. sum[b + 1] - sum[a] <= IF Closed(s, n, b + 1) THEN c ELSE c + L
        BY <1>1, <3>1, <4>1
      <4>3. /\ u[b] - u[a] = (sum[b + 1] - sum[a]) - w /\ sum[b + 1] - sum[a] \in Int
            /\ sum[b + 1] - sum[a] <= IF Closed(t, n, b) THEN c ELSE c + L
        BY <1>0, <1>3, <3>1, <3>2, <4>1, <4>2
      <4> QED
        BY <1>0, <1>3, <4>3
    <3>4. CASE i <= a
      <4>1. u[a] = sum[a + 1] - w /\ a + 1 \in 0 .. b + 1 /\ sum[a + 1] \in Int
        BY <1>4, <1>5, <2>2, <3>4
      <4>2. sum[b + 1] - sum[a + 1] <= IF Closed(s, n, b + 1) THEN c ELSE c + L
        BY <1>1, <3>1, <4>1
      <4>3. u[b] - u[a] = sum[b + 1] - sum[a + 1] /\ sum[b + 1] - sum[a + 1] \in Int
        BY <1>3, <3>1, <4>1
      <4> QED
        BY <1>0, <3>2, <4>2, <4>3
    <3> QED
      BY <3>3, <3>4
  <2>3. CASE j <= b
    <3>1. u[b] = sum[b] /\ sum[b] \in Int
      BY <1>4, <1>5, <2>3
    <3>2. j < b => (Closed(t, n, b) <=> Closed(s, n, b))
      BY <1>5 DEF Closed
    <3>3. CASE a < i \/ j <= a
      <4>1. u[a] = sum[a] /\ sum[a] \in Int
        BY <1>4, <1>5, <3>3
      <4>2. sum[b] - sum[a] <= IF Closed(s, n, b) THEN c ELSE c + L
        BY <1>1
      <4> QED
        BY <1>0, <3>1, <4>1, <4>2
    <3>4. CASE i <= a /\ a < j
      <4>1. u[a] = sum[a + 1] - w /\ a + 1 \in 0 .. b /\ sum[a + 1] \in Int
        BY <1>4, <1>5, <2>3, <3>4
      <4>2. sum[b] - sum[a + 1] <= IF Closed(s, n, b) THEN c ELSE c + L
        BY <1>1, <4>1
      <4>3. CASE j < b
        BY <1>0, <1>3, <3>1, <3>2, <4>1, <4>2, <4>3
      <4>4. CASE j = b /\ x.marker
        BY <1>0, <1>3, <3>1, <4>1, <4>2, <4>4
      <4>5. CASE j = b /\ ~x.marker /\ b = n
        <5>1. Closed(s, n, b)
          BY <4>5 DEF Closed
        <5> QED
          BY <1>0, <1>3, <3>1, <4>1, <4>2, <5>1
      <4>6. CASE j = b /\ ~x.marker /\ b # n
        <5>1. ~Closed(t, n, b)
          BY <1>5, <4>6 DEF Closed
        <5> QED
          BY <1>0, <1>3, <3>1, <4>1, <4>2, <5>1
      <4> QED
        BY <1>3, <2>3, <4>3, <4>4, <4>5, <4>6
    <3> QED
      BY <3>3, <3>4
  <2> QED
    BY <2>1, <2>2, <2>3
<1> QED
  BY <1>6, <1>8, <1>9 DEF Bounded, L

\* The n loads s without the first m.
Later(s, n, m) == [k \in 1 .. n - m |-> s[k + m]]

\* Without the loads at the front the rest is bounded as before.
LEMMA FrontTaken ==
  ASSUME NEW n \in Nat, NEW s, NEW c \in Nat, Bounded(s, n, c), NEW m \in 0 .. n
  PROVE  Bounded(Later(s, n, m), n - m, c)
<1> DEFINE L == LargestFrame
           t == Later(s, n, m)
<1>0. L \in Nat
  BY LargestIsOne
<1>1. PICK sum : /\ Balance(s, n, sum)
                 /\ \A b \in 0 .. n : \A a \in 0 .. b :
                      sum[b] - sum[a] <= IF Closed(s, n, b) THEN c ELSE c + L
  BY DEF Bounded
<1>2. s \in [1 .. n -> Loads]
  BY DEF Bounded
<1>3. /\ \A k \in 0 .. n : sum[k] \in Int
      /\ \A k \in 1 .. n : sum[k] = sum[k - 1] + Weight(s[k])
  BY <1>1 DEF Balance
<1>4. PICK z \in Int : z = sum[m]
  BY <1>3
<1> DEFINE u == [k \in 0 .. n - m |-> sum[k + m] - z]
<1> HIDE DEF L, t
<1>5. ASSUME NEW k \in 0 .. n - m
      PROVE  k + m \in 0 .. n /\ sum[k + m] \in Int /\ u[k] = sum[k + m] - z /\ u[k] \in Int
  <2>1. k + m \in 0 .. n
    OBVIOUS
  <2>2. sum[k + m] \in Int
    BY <1>3, <2>1
  <2>3. u[k] = sum[k + m] - z
    OBVIOUS
  <2> QED
    BY <2>1, <2>2, <2>3
<1>6. t \in [1 .. n - m -> Loads] /\ \A k \in 1 .. n - m : t[k] = s[k + m]
  BY <1>2 DEF t, Later
<1>7. u = [k \in 0 .. n - m |-> u[k]]
  OBVIOUS
<1> HIDE DEF u
<1>8. Balance(t, n - m, u)
  <2>1. u \in [0 .. n - m -> Int]
    BY <1>5, <1>7
  <2>2. u[0] = 0
    <3>1. 0 \in 0 .. n - m /\ 0 + m = m
      OBVIOUS
    <3>2. u[0] = sum[0 + m] - z
      BY <1>5, <3>1
    <3> QED
      BY <1>4, <3>1, <3>2
  <2>3. ASSUME NEW k \in 1 .. n - m PROVE u[k] = u[k - 1] + Weight(t[k])
    <3>1. PICK j \in 1 .. n : j = k + m /\ j - 1 = (k - 1) + m
      OBVIOUS
    <3>2. sum[j] = sum[j - 1] + Weight(s[j]) /\ Weight(s[j]) \in Int /\ sum[j - 1] \in Int
      BY <1>2, <1>3, WeightRange
    <3>3. u[k] = sum[j] - z /\ u[k - 1] = sum[j - 1] - z /\ t[k] = s[j]
      <4>1. k \in 0 .. n - m /\ k - 1 \in 0 .. n - m
        OBVIOUS
      <4> QED
        BY <1>5, <1>6, <3>1, <4>1
    <3> QED
      BY <3>2, <3>3
  <2> QED
    BY <2>1, <2>2, <2>3 DEF Balance
<1>9. ASSUME NEW b \in 0 .. n - m, NEW a \in 0 .. b
      PROVE  u[b] - u[a] <= IF Closed(t, n - m, b) THEN c ELSE c + L
  <2>1. PICK y, x : y \in 0 .. n /\ x \in 0 .. y /\ y = b + m /\ x = a + m
    OBVIOUS
  <2>2. u[b] = sum[y] - z /\ u[a] = sum[x] - z /\ sum[y] \in Int /\ sum[x] \in Int
    <3>1. a \in 0 .. n - m
      OBVIOUS
    <3> QED
      BY <1>5, <2>1, <3>1
  <2>3. u[b] - u[a] = sum[y] - sum[x] /\ sum[y] - sum[x] \in Int
    BY <2>2
  <2>4. sum[y] - sum[x] <= IF Closed(s, n, y) THEN c ELSE c + L
    BY <1>1, <2>1
  <2>5. CASE a = b
    <3>1. u[b] - u[a] = 0
      BY <2>2, <2>5
    <3> QED
      BY <1>0, <3>1
  <2>6. CASE a < b
    <3>1. t[b] = s[y] /\ b > 0 /\ y > 0 /\ (b = n - m <=> y = n)
      BY <1>6, <2>1, <2>6
    <3>2. Closed(t, n - m, b) <=> Closed(s, n, y)
      BY <3>1 DEF Closed
    <3> QED
      BY <1>0, <2>3, <2>4, <3>2
  <2> QED
    BY <2>5, <2>6
<1> QED
  BY <1>6, <1>8, <1>9 DEF Bounded, L, t

\* The n loads s followed by the m loads f.
Joined(s, n, f, m) == [k \in 1 .. n + m |-> IF k <= n THEN s[k] ELSE f[k - n]]

\* The m loads f are those of one whole frame, with end bytes up to each of them.
WholeLoads(f, m, end) ==
  /\ f \in [1 .. m -> Loads]
  /\ end \in [0 .. m -> 0 .. LargestFrame] /\ end[0] = 0
  /\ \A k \in 1 .. m : f[k].size = end[k] - end[k - 1] /\ (f[k].marker <=> k = m)

\* A whole frame adds nothing to the debt.
LEMMA FrameAdded ==
  ASSUME NEW n \in Nat, NEW s, NEW c \in Nat, Bounded(s, n, c),
         NEW m \in Nat \ {0}, NEW f, NEW end, WholeLoads(f, m, end)
  PROVE  Bounded(Joined(s, n, f, m), n + m, c)
<1> DEFINE L == LargestFrame
           t == Joined(s, n, f, m)
<1>1. L \in Nat
  BY LargestIsOne
<1>2. PICK sum : /\ Balance(s, n, sum)
                 /\ \A b \in 0 .. n : \A a \in 0 .. b :
                      sum[b] - sum[a] <= IF Closed(s, n, b) THEN c ELSE c + L
  BY DEF Bounded
<1>3. s \in [1 .. n -> Loads]
  BY DEF Bounded
<1>4. /\ \A k \in 0 .. n : sum[k] \in Int
      /\ sum[0] = 0
      /\ \A k \in 1 .. n : sum[k] = sum[k - 1] + Weight(s[k])
  BY <1>2 DEF Balance
<1>5. PICK z \in Int : z = sum[n]
  BY <1>4
<1> DEFINE u == [k \in 0 .. n + m |->
                   IF k <= n THEN sum[k] ELSE IF k < n + m THEN z + end[k - n]
                                         ELSE z + end[m] - L]
<1>6. /\ \A k \in 0 .. m : end[k] \in Int /\ 0 <= end[k] /\ end[k] <= L
      /\ end[0] = 0
      /\ \A k \in 1 .. m : /\ Weight(f[k]) = (end[k] - end[k - 1]) - IF k = m THEN L ELSE 0
                           /\ f[k].marker <=> k = m
      /\ \A k \in 1 .. m : f[k] \in Loads
  <2>1. \A k \in 0 .. m : end[k] \in Int /\ 0 <= end[k] /\ end[k] <= L
    BY <1>1 DEF WholeLoads
  <2> QED
    BY <2>1 DEF WholeLoads, Weight
<1> HIDE DEF L, t
<1>7. \A k \in 0 .. n : u[k] = sum[k]
  OBVIOUS
<1>8. ASSUME NEW k \in 0 .. m - 1 PROVE u[n + k] = z + end[k]
  <2>1. n + k \in 0 .. n + m /\ n + k < n + m /\ (n + k) - n = k
    OBVIOUS
  <2>2. CASE k = 0
    BY <1>5, <1>6, <1>7, <2>2
  <2>3. CASE k > 0
    BY <2>1, <2>3
  <2> QED
    BY <2>2, <2>3
<1>9. u[n + m] = z + end[m] - L
  OBVIOUS
<1>10. u = [k \in 0 .. n + m |-> u[k]]
  OBVIOUS
<1>11. /\ \A k \in 1 .. n : t[k] = s[k]
       /\ \A k \in 1 .. n + m : k > n => t[k] = f[k - n]
  BY DEF t, Joined
<1>12. t \in [1 .. n + m -> Loads]
  <2>1. ASSUME NEW k \in 1 .. n + m PROVE t[k] \in Loads
    <3>1. CASE k <= n
      BY <1>3, <1>11, <3>1
    <3>2. CASE n < k
      <4>1. k - n \in 1 .. m
        BY <3>2
      <4> QED
        BY <1>6, <1>11, <3>2, <4>1
    <3> QED
      BY <3>1, <3>2
  <2>2. t = [k \in 1 .. n + m |-> t[k]]
    BY DEF t, Joined
  <2> QED
    BY <2>1, <2>2
<1> HIDE DEF u
<1>13. Balance(t, n + m, u)
  <2>1. ASSUME NEW k \in 0 .. n + m PROVE u[k] \in Int
    <3>1. CASE k <= n
      BY <1>4, <1>7, <3>1
    <3>2. CASE n < k /\ k < n + m
      <4>1. PICK j \in 0 .. m - 1 : k = n + j
        <5>1. k - n \in 0 .. m - 1 /\ k = n + (k - n)
          BY <3>2
        <5> QED
          BY <5>1
      <4>2. u[k] = z + end[j] /\ end[j] \in Int
        BY <1>6, <1>8, <4>1
      <4> QED
        BY <4>2
    <3>3. CASE k = n + m
      <4>1. u[k] = z + end[m] - L /\ end[m] \in Int
        BY <1>6, <1>9, <3>3
      <4> QED
        BY <1>1, <4>1 DEF L
    <3> QED
      BY <3>1, <3>2, <3>3
  <2>2. u[0] = 0 /\ u \in [0 .. n + m -> Int]
    <3>1. 0 \in 0 .. n
      OBVIOUS
    <3> QED
      BY <1>4, <1>7, <1>10, <2>1, <3>1
  <2>3. ASSUME NEW k \in 1 .. n + m PROVE u[k] = u[k - 1] + Weight(t[k])
    <3>1. CASE k <= n
      <4>1. k \in 1 .. n /\ k \in 0 .. n /\ k - 1 \in 0 .. n
        BY <3>1
      <4>2. u[k] = sum[k] /\ u[k - 1] = sum[k - 1] /\ t[k] = s[k]
        BY <1>7, <1>11, <4>1
      <4> QED
        BY <1>4, <4>1, <4>2
    <3>2. CASE n < k
      <4>1. PICK j \in 1 .. m : /\ k = n + j /\ k - 1 = n + (j - 1) /\ j - 1 \in 0 .. m - 1
                                /\ k - n = j
        <5>1. k - n \in 1 .. m /\ k = n + (k - n) /\ k - 1 = n + ((k - n) - 1)
          BY <3>2
        <5> QED
          BY <5>1
      <4>2. u[k - 1] = z + end[j - 1] /\ end[j - 1] \in Int /\ end[j] \in Int
        BY <1>6, <1>8, <4>1
      <4>3. Weight(t[k]) = (end[j] - end[j - 1]) - IF j = m THEN L ELSE 0
        BY <1>6, <1>11, <3>2, <4>1
      <4>4. CASE j = m
        BY <1>1, <1>9, <4>1, <4>2, <4>3, <4>4 DEF L
      <4>5. CASE j # m
        <5>1. j \in 0 .. m - 1
          BY <4>5
        <5>2. u[k] = z + end[j]
          BY <1>8, <4>1, <5>1
        <5> QED
          BY <4>2, <4>3, <4>5, <5>2
      <4> QED
        BY <4>4, <4>5
    <3> QED
      BY <3>1, <3>2
  <2> QED
    BY <2>2, <2>3 DEF Balance
<1>14. ASSUME NEW b \in 0 .. n + m, NEW a \in 0 .. b
       PROVE  u[b] - u[a] <= IF Closed(t, n + m, b) THEN c ELSE c + L
  <2>1. CASE b <= n
    <3>1. u[b] = sum[b] /\ u[a] = sum[a] /\ sum[b] \in Int /\ sum[a] \in Int
      BY <1>4, <1>7, <2>1
    <3>2. sum[b] - sum[a] <= IF Closed(s, n, b) THEN c ELSE c + L
      BY <1>2, <2>1
    <3>3. Closed(t, n + m, b) => Closed(s, n, b)
      BY <1>11, <2>1 DEF Closed
    <3> QED
      BY <1>1, <3>1, <3>2, <3>3 DEF L
  <2>2. CASE n < b
    <3>1. PICK j \in 1 .. m : b = n + j /\ b - n = j
      <4>1. b - n \in 1 .. m /\ b = n + (b - n)
        BY <2>2
      <4> QED
        BY <4>1
    <3>2. end[j] \in Int /\ 0 <= end[j] /\ end[j] <= L
      BY <1>6
    <3>3. /\ j = m => u[b] = z + end[j] - L
          /\ j # m => u[b] = z + end[j] /\ ~Closed(t, n + m, b)
      <4>1. CASE j = m
        BY <1>9, <3>1, <4>1
      <4>2. CASE j # m
        <5>1. j \in 0 .. m - 1 /\ b # n + m
          BY <3>1, <4>2
        <5>2. u[b] = z + end[j]
          BY <1>8, <3>1, <5>1
        <5>3. ~t[b].marker
          BY <1>6, <1>11, <2>2, <3>1, <4>2
        <5> QED
          BY <4>2, <5>1, <5>2, <5>3 DEF Closed
      <4> QED
        BY <4>1, <4>2
    <3>4. CASE a <= n
      <4>1. u[a] = sum[a] /\ sum[a] \in Int /\ a \in 0 .. n /\ n \in 0 .. n
        BY <1>4, <1>7, <3>4
      <4>2. z - sum[a] <= c
        <5>1. Closed(s, n, n)
          BY DEF Closed
        <5> QED
          BY <1>2, <1>5, <4>1, <5>1
      <4> QED
        BY <1>1, <3>2, <3>3, <4>1, <4>2 DEF L
    <3>5. CASE n < a
      <4>1. PICK i \in 1 .. j : a = n + i
        <5>1. a - n \in 1 .. j /\ a = n + (a - n)
          BY <3>1, <3>5
        <5> QED
          BY <5>1
      <4>2. CASE i = j
        <5>1. u[b] - u[a] = 0
          BY <1>1, <3>1, <3>2, <3>3, <4>1, <4>2 DEF L
        <5> QED
          BY <1>1, <5>1 DEF L
      <4>3. CASE i < j
        <5>1. i \in 0 .. m - 1
          BY <4>3
        <5>2. u[a] = z + end[i] /\ end[i] \in Int /\ 0 <= end[i]
          BY <1>6, <1>8, <4>1, <5>1
        <5> QED
          BY <1>1, <3>2, <3>3, <5>2 DEF L
      <4> QED
        BY <4>2, <4>3
    <3> QED
      BY <3>4, <3>5
  <2> QED
    BY <2>1, <2>2
<1> QED
  BY <1>12, <1>13, <1>14 DEF Bounded, L, t

\* Markers pay for the loads s but for debt.
Paid(s, debt) == Bounded(s, Len(s), debt)

\* A load between a and c is lost.
LEMMA LoadLost ==
  ASSUME NEW a \in Seq(Loads), NEW x \in Loads, NEW c \in Seq(Loads), NEW debt \in Nat,
         Paid(a \o (<<x>> \o c), debt)
  PROVE  Paid(a \o c, debt + LargestFrame)
<1>1. PICK s, t, n, i : s = a \o (<<x>> \o c) /\ t = a \o c /\ n = Len(s) /\ i = Len(a) + 1
  OBVIOUS
<1>2. PICK la, lc : la = Len(a) /\ lc = Len(c)
  OBVIOUS
<1>3. /\ la \in Nat /\ lc \in Nat /\ i = la + 1 /\ n = la + 1 + lc
      /\ Len(t) = la + lc /\ t \in Seq(Loads)
      /\ \A k \in 1 .. la : s[k] = a[k] /\ t[k] = a[k]
      /\ \A k \in 1 .. n : k > la + 1 => s[k] = c[k - 1 - la]
      /\ \A k \in 1 .. la + lc : k > la => t[k] = c[k - la]
  BY <1>1, <1>2, Places, PlacesAround
<1>4. ASSUME NEW k \in 1 .. n - 1 PROVE t[k] = IF k < i THEN s[k] ELSE s[k + 1]
  <2>1. CASE k < i
    BY <1>3, <2>1
  <2>2. CASE i <= k
    <3>1. k + 1 \in 1 .. n /\ k + 1 > la + 1 /\ (k + 1) - 1 - la = k - la /\ k > la
          /\ k \in 1 .. la + lc
      BY <1>3, <2>2
    <3> QED
      BY <1>3, <2>2, <3>1
  <2> QED
    BY <1>3, <2>1, <2>2
<1>5. t = [k \in 1 .. n - 1 |-> IF k < i THEN s[k] ELSE s[k + 1]]
  <2>1. t = [k \in 1 .. la + lc |-> t[k]] /\ la + lc = n - 1
    BY <1>3
  <2> QED
    BY <1>4, <2>1
<1>6. n \in Nat \ {0} /\ i \in 1 .. n /\ Bounded(s, n, debt) /\ Len(t) = n - 1
  BY <1>1, <1>3 DEF Paid
<1>7. Bounded(t, n - 1, debt + LargestFrame)
  BY <1>5, <1>6, LoadRemoved
<1> QED
  BY <1>1, <1>6, <1>7 DEF Paid

\* A load comes in between a and c a second time.
LEMMA LoadRepeated ==
  ASSUME NEW a \in Seq(Loads), NEW x \in Loads, NEW c \in Seq(Loads), NEW debt \in Nat,
         Paid(a \o c, debt)
  PROVE  Paid(a \o (<<x>> \o c), debt + LargestFrame)
<1>1. PICK s, t, n, j : t = a \o (<<x>> \o c) /\ s = a \o c /\ n = Len(s) /\ j = Len(a) + 1
  OBVIOUS
<1>2. PICK la, lc : la = Len(a) /\ lc = Len(c)
  OBVIOUS
<1>3. /\ la \in Nat /\ lc \in Nat /\ j = la + 1 /\ n = la + lc
      /\ Len(t) = la + 1 + lc /\ t \in Seq(Loads)
      /\ \A k \in 1 .. la : s[k] = a[k] /\ t[k] = a[k]
      /\ t[j] = x
      /\ \A k \in 1 .. la + 1 + lc : k > la + 1 => t[k] = c[k - 1 - la]
      /\ \A k \in 1 .. la + lc : k > la => s[k] = c[k - la]
  BY <1>1, <1>2, Places, PlacesAround
<1>4. ASSUME NEW k \in 1 .. n + 1
      PROVE  t[k] = IF k < j THEN s[k] ELSE IF k = j THEN x ELSE s[k - 1]
  <2>1. CASE k < j
    BY <1>3, <2>1
  <2>2. CASE k = j
    BY <1>3, <2>2
  <2>3. CASE j < k
    <3>1. /\ k - 1 \in 1 .. la + lc /\ k - 1 > la /\ (k - 1) - la = k - 1 - la /\ k > la + 1
          /\ k \in 1 .. la + 1 + lc
      BY <1>3, <2>3
    <3> QED
      BY <1>3, <2>3, <3>1
  <2> QED
    BY <1>3, <2>1, <2>2, <2>3
<1>5. t = [k \in 1 .. n + 1 |-> IF k < j THEN s[k] ELSE IF k = j THEN x ELSE s[k - 1]]
  <2>1. t = [k \in 1 .. la + 1 + lc |-> t[k]] /\ la + 1 + lc = n + 1
    BY <1>3
  <2> QED
    BY <1>4, <2>1
<1>6. n \in Nat /\ j \in 1 .. n + 1 /\ Bounded(s, n, debt) /\ Len(t) = n + 1
  BY <1>1, <1>3 DEF Paid
<1>7. Bounded(t, n + 1, debt + LargestFrame)
  BY <1>5, <1>6, LoadInserted
<1> QED
  BY <1>1, <1>6, <1>7 DEF Paid

\* A load between a and d goes to the end of d.
LEMMA LoadDelayed ==
  ASSUME NEW a \in Seq(Loads), NEW x \in Loads, NEW d \in Seq(Loads), NEW c \in Seq(Loads),
         NEW debt \in Nat, Paid(a \o (<<x>> \o (d \o c)), debt)
  PROVE  Paid(a \o (d \o (<<x>> \o c)), debt + LargestFrame)
<1>1. PICK dc, dxc : dc = d \o c /\ dxc = d \o (<<x>> \o c)
  OBVIOUS
<1>2. PICK la, ld, lc : la = Len(a) /\ ld = Len(d) /\ lc = Len(c)
  OBVIOUS
<1>3. /\ la \in Nat /\ lc \in Nat /\ ld \in Nat
      /\ dc \in Seq(Loads) /\ Len(dc) = ld + lc
      /\ \A k \in 1 .. ld : dc[k] = d[k]
      /\ \A k \in 1 .. ld + lc : k > ld => dc[k] = c[k - ld]
  BY <1>1, <1>2, Places
<1>4. /\ dxc \in Seq(Loads) /\ Len(dxc) = ld + 1 + lc
      /\ \A k \in 1 .. ld : dxc[k] = d[k]
      /\ dxc[ld + 1] = x
      /\ \A k \in 1 .. ld + 1 + lc : k > ld + 1 => dxc[k] = c[k - 1 - ld]
  BY <1>1, <1>2, PlacesAround
<1>12. PICK s, t, n, i, j :
         /\ s = a \o (<<x>> \o dc) /\ t = a \o dxc /\ n = Len(s)
         /\ i = la + 1 /\ j = la + 1 + ld
  OBVIOUS
<1>5. /\ n = la + 1 + (ld + lc)
      /\ \A k \in 1 .. la : s[k] = a[k]
      /\ s[la + 1] = x
      /\ \A k \in 1 .. n : k > la + 1 => s[k] = dc[k - 1 - la]
  <2>1. dc \in Seq(Loads) /\ Len(dc) = ld + lc
    BY <1>3
  <2>2. ASSUME NEW e \in Seq(Loads)
        PROVE  LET r == a \o (<<x>> \o e) IN
               /\ Len(r) = Len(a) + 1 + Len(e)
               /\ \A k \in 1 .. Len(a) : r[k] = a[k]
               /\ r[Len(a) + 1] = x
               /\ \A k \in 1 .. Len(r) : k > Len(a) + 1 => r[k] = e[k - 1 - Len(a)]
    BY PlacesAround
  <2> QED
    BY <1>2, <1>12, <2>1, <2>2
<1>6. /\ t \in Seq(Loads) /\ Len(t) = la + (ld + 1 + lc)
      /\ \A k \in 1 .. la : t[k] = a[k]
      /\ \A k \in 1 .. la + (ld + 1 + lc) : k > la => t[k] = dxc[k - la]
  <2>1. dxc \in Seq(Loads) /\ Len(dxc) = ld + 1 + lc
    BY <1>4
  <2>2. LET r == a \o dxc IN
        /\ r \in Seq(Loads) /\ Len(r) = Len(a) + Len(dxc)
        /\ \A k \in 1 .. Len(a) : r[k] = a[k]
        /\ \A k \in 1 .. Len(a) + Len(dxc) : k > Len(a) => r[k] = dxc[k - Len(a)]
    BY <2>1, Places
  <2> QED
    BY <1>2, <1>12, <2>1, <2>2
<1>7. /\ i = la + 1 /\ j = la + 1 + ld /\ n \in Nat /\ i \in 1 .. n /\ j \in i .. n
      /\ Len(t) = n
  BY <1>3, <1>5, <1>6, <1>12
<1>8. ASSUME NEW k \in 1 .. n
      PROVE  t[k] = IF k < i \/ j < k THEN s[k] ELSE IF k = j THEN s[i] ELSE s[k + 1]
  <2>1. CASE k < i
    <3>1. k \in 1 .. la
      BY <1>3, <1>7, <2>1
    <3> QED
      BY <1>5, <1>6, <2>1, <3>1
  <2>2. CASE i <= k
    <3>1. PICK m \in 1 .. ld + 1 + lc : m = k - la /\ k > la
      <4>0. /\ la \in Nat /\ ld \in Nat /\ lc \in Nat /\ k \in 1 .. la + 1 + (ld + lc)
            /\ la + 1 <= k
        BY <1>3, <1>5, <1>7, <2>2
      <4>1. k - la \in 1 .. ld + 1 + lc /\ k > la
        BY <4>0
      <4> QED
        BY <4>1
    <3>2. t[k] = dxc[m]
      <4>1. k \in 1 .. la + (ld + 1 + lc)
        BY <1>3, <1>5
      <4> QED
        BY <1>6, <3>1, <4>1
    <3>3. CASE m <= ld
      <4>1. /\ k + 1 \in 1 .. n /\ k + 1 > la + 1 /\ (k + 1) - 1 - la = m /\ m \in 1 .. ld
            /\ ~(j < k) /\ k # j
        BY <1>3, <1>5, <1>7, <3>1, <3>3
      <4>2. t[k] = d[m] /\ s[k + 1] = d[m]
        BY <1>3, <1>4, <1>5, <3>2, <4>1
      <4> QED
        BY <2>2, <1>7, <4>1, <4>2
    <3>4. CASE m = ld + 1
      <4>1. k = j
        BY <1>3, <1>7, <3>1, <3>4
      <4> QED
        BY <1>4, <1>5, <1>7, <3>2, <3>4, <4>1
    <3>5. CASE m > ld + 1
      <4>1. /\ j < k /\ k > la + 1 /\ k - 1 - la = m - 1 /\ m - 1 \in 1 .. ld + lc /\ m - 1 > ld
            /\ (m - 1) - ld = m - 1 - ld
        BY <1>3, <1>7, <3>1, <3>5
      <4>2. t[k] = c[m - 1 - ld] /\ s[k] = dc[m - 1]
        BY <1>4, <1>5, <3>2, <3>5, <4>1
      <4>3. dc[m - 1] = c[m - 1 - ld]
        BY <1>3, <4>1
      <4> QED
        BY <4>1, <4>2, <4>3
    <3> QED
      BY <1>3, <3>3, <3>4, <3>5
  <2> QED
    BY <1>7, <2>1, <2>2
<1>9. t = Moved(s, n, i, j)
  <2>1. t = [k \in 1 .. n |-> t[k]]
    BY <1>6, <1>7
  <2> QED
    BY <1>8, <2>1 DEF Moved
<1>10. Bounded(s, n, debt)
  BY <1>1, <1>12 DEF Paid
<1>11. Bounded(t, n, debt + LargestFrame)
  BY <1>7, <1>9, <1>10, LoadMoved
<1> QED
  BY <1>1, <1>7, <1>11, <1>12 DEF Paid

\* The loads a are used up.
LEMMA LoadsUsed ==
  ASSUME NEW a \in Seq(Loads), NEW c \in Seq(Loads), NEW debt \in Nat, Paid(a \o c, debt)
  PROVE  Paid(c, debt)
<1>1. PICK s, n, la, lc : s = a \o c /\ n = Len(s) /\ la = Len(a) /\ lc = Len(c)
  OBVIOUS
<1>2. /\ la \in Nat /\ lc \in Nat /\ n = la + lc
      /\ \A k \in 1 .. la + lc : k > la => s[k] = c[k - la]
      /\ c = [k \in 1 .. lc |-> c[k]]
  BY <1>1, Places
<1>3. c = Later(s, n, la)
  <2>1. ASSUME NEW k \in 1 .. lc PROVE c[k] = s[k + la]
    <3>1. k + la \in 1 .. la + lc /\ k + la > la /\ (k + la) - la = k
      BY <1>2
    <3> QED
      BY <1>2, <3>1
  <2>2. n - la = lc
    BY <1>2
  <2> QED
    BY <1>2, <2>1, <2>2 DEF Later
<1>4. Bounded(s, n, debt)
  BY <1>1 DEF Paid
<1>5. n \in Nat /\ la \in 0 .. n /\ n - la = lc
  BY <1>2
<1>6. Bounded(c, n - la, debt)
  BY <1>3, <1>4, <1>5, FrontTaken
<1> QED
  BY <1>1, <1>5, <1>6 DEF Paid

\* The loads f of a whole frame follow the loads a.
LEMMA FrameFollows ==
  ASSUME NEW a \in Seq(Loads), NEW f \in Seq(Loads), f # <<>>, NEW debt \in Nat, Paid(a, debt),
         NEW end, WholeLoads(f, Len(f), end)
  PROVE  Paid(a \o f, debt)
<1>1. PICK t, la, lf : t = a \o f /\ la = Len(a) /\ lf = Len(f)
  OBVIOUS
<1>2. /\ la \in Nat /\ lf \in Nat \ {0}
      /\ t = [k \in 1 .. la + lf |-> t[k]]
      /\ \A k \in 1 .. la : t[k] = a[k]
      /\ \A k \in 1 .. la + lf : k > la => t[k] = f[k - la]
      /\ Len(t) = la + lf
  <2>1. la \in Nat /\ lf \in Nat \ {0}
    BY <1>1
  <2>2. /\ t \in Seq(Loads) /\ Len(t) = la + lf
        /\ \A k \in 1 .. la : t[k] = a[k]
        /\ \A k \in 1 .. la + lf : k > la => t[k] = f[k - la]
    BY <1>1, Places
  <2> QED
    BY <2>1, <2>2
<1>3. t = Joined(a, la, f, lf)
  <2>1. ASSUME NEW k \in 1 .. la + lf PROVE t[k] = IF k <= la THEN a[k] ELSE f[k - la]
    <3>1. CASE k <= la
      <4>1. k \in 1 .. la
        BY <1>2, <3>1
      <4> QED
        BY <1>2, <3>1, <4>1
    <3>2. CASE k > la
      <4>1. t[k] = f[k - la] /\ ~(k <= la)
        BY <1>2, <3>2
      <4> QED
        BY <4>1
    <3> QED
      BY <1>2, <3>1, <3>2
  <2> QED
    BY <1>2, <2>1 DEF Joined
<1>4. Bounded(a, la, debt) /\ WholeLoads(f, lf, end)
  BY <1>1 DEF Paid
<1>5. Bounded(t, la + lf, debt)
  BY <1>2, <1>3, <1>4, FrameAdded
<1> QED
  BY <1>1, <1>2, <1>5 DEF Paid

------------------------------------------------------------------------------
(* The loads on the way.                                                   *)

Load(packet) == [size |-> packet.fragment.size, marker |-> packet.marker]

LoadsOf(packets) == [i \in DOMAIN packets |-> Load(packets[i])]

\* The fragments still to be sent, the last of them with the marker.
ToCome(fragments) ==
  [i \in DOMAIN fragments |-> [size |-> fragments[i].size, marker |-> i = Len(fragments)]]

Way ==
  LoadsOf(unpackaged) \o (LoadsOf(network) \o (LoadsOf(sendQueue) \o ToCome(fragmentQueue)))

\* No packet carries more than the largest frame, and the markers on the way pay for
\* what is on it but for a frame for each fault there was.
FaultsPay ==
  /\ LoadsOf(unpackaged) \in Seq(Loads) /\ LoadsOf(network) \in Seq(Loads)
  /\ LoadsOf(sendQueue) \in Seq(Loads) /\ ToCome(fragmentQueue) \in Seq(Loads)
  /\ Paid(Way, (dropped + lost + shuffled) * LargestFrame)

\* Three pieces of the way, in whatever groups.
LEMMA Regrouped ==
  ASSUME NEW a \in Seq(Loads), NEW b \in Seq(Loads), NEW c \in Seq(Loads)
  PROVE  /\ a \o b \in Seq(Loads) /\ b \o c \in Seq(Loads)
         /\ (a \o b) \o c = a \o (b \o c)
BY ConcatAssociative

\* Four pieces, in the groups that are needed.
Regroup(a, b, c, d) ==
  /\ a \o (b \o (c \o d)) = (a \o (b \o c)) \o d
  /\ a \o ((b \o c) \o d) = (a \o b) \o (c \o d)

\* The way may be put together in any of these groups.
LEMMA FourRegrouped ==
  ASSUME NEW a \in Seq(Loads), NEW b \in Seq(Loads), NEW c \in Seq(Loads), NEW d \in Seq(Loads)
  PROVE  Regroup(a, b, c, d)
<1>1. /\ b \o c \in Seq(Loads) /\ c \o d \in Seq(Loads)
      /\ (b \o c) \o d = b \o (c \o d)
  BY Regrouped
<1>2. (a \o (b \o c)) \o d = a \o ((b \o c) \o d)
  <2>1. PICK bc \in Seq(Loads) : bc = b \o c
    BY <1>1
  <2>2. (a \o bc) \o d = a \o (bc \o d)
    BY Regrouped
  <2> QED
    BY <2>1, <2>2
<1>3. (a \o b) \o (c \o d) = a \o (b \o (c \o d))
  <2>1. PICK cd \in Seq(Loads) : cd = c \o d
    BY <1>1
  <2>2. (a \o b) \o cd = a \o (b \o cd)
    BY Regrouped
  <2> QED
    BY <2>1, <2>2
<1> QED
  BY <1>1, <1>2, <1>3 DEF Regroup

\* A load put between two pieces of the way.
LEMMA LoadInBetween ==
  ASSUME NEW a \in Seq(Loads), NEW x \in Loads, NEW c \in Seq(Loads)
  PROVE  /\ Append(a, x) \in Seq(Loads) /\ <<x>> \o c \in Seq(Loads)
         /\ Append(a, x) \o c = a \o (<<x>> \o c)
<1>1. Append(a, x) \in Seq(Loads) /\ <<x>> \in Seq(Loads)
  OBVIOUS
<1> QED
  BY <1>1, Regrouped, AppendInBetween

\* The loads of packets, one by one.
LEMMA LoadsAt ==
  ASSUME NEW S, NEW s \in Seq(S)
  PROVE  /\ Len(s) \in Nat /\ LoadsOf(s) = [i \in 1 .. Len(s) |-> Load(s[i])]
         /\ DOMAIN s = 1 .. Len(s) /\ Len(LoadsOf(s)) = Len(s)
BY DEF LoadsOf

\* A packet more is a load more.
LEMMA LoadsAppend ==
  ASSUME NEW s \in Seq(Packets), NEW p \in Packets
  PROVE  LoadsOf(Append(s, p)) = Append(LoadsOf(s), Load(p))
<1> DEFINE t == Append(s, p)
           S == {Load(q) : q \in Packets}
<1>1. /\ t \in Seq(Packets) /\ Len(t) = Len(s) + 1 /\ Len(s) \in Nat
      /\ \A i \in 1 .. Len(s) : t[i] = s[i]
      /\ t[Len(s) + 1] = p
  OBVIOUS
<1> HIDE DEF t
<1>2. LoadsOf(t) = [i \in 1 .. Len(s) + 1 |-> Load(t[i])]
  BY <1>1, LoadsAt
<1>3. LoadsOf(s) = [i \in 1 .. Len(s) |-> Load(s[i])]
  BY LoadsAt
<1>4. LoadsOf(s) \in Seq(S) /\ Load(p) \in S /\ Len(LoadsOf(s)) = Len(s)
  <2>1. \A i \in 1 .. Len(s) : Load(s[i]) \in S
    OBVIOUS
  <2>2. Load(p) \in S
    OBVIOUS
  <2> HIDE DEF S
  <2> QED
    BY <1>1, <1>3, <2>1, <2>2
<1> HIDE DEF S
<1> DEFINE r == Append(LoadsOf(s), Load(p))
<1>5. /\ r \in Seq(S) /\ Len(r) = Len(s) + 1
      /\ \A i \in 1 .. Len(s) : r[i] = LoadsOf(s)[i]
      /\ r[Len(s) + 1] = Load(p)
  BY <1>4, AppendElements
<1> HIDE DEF r
<1>6. r = [i \in 1 .. Len(s) + 1 |-> r[i]]
  BY <1>5
<1>7. ASSUME NEW i \in 1 .. Len(s) + 1 PROVE r[i] = Load(t[i])
  BY <1>1, <1>3, <1>5
<1> QED
  BY <1>2, <1>6, <1>7 DEF r, t

\* The load of the first packet, and those of the others.
LEMMA LoadsFirst ==
  ASSUME NEW s \in Seq(Packets), s # <<>>, LoadsOf(s) \in Seq(Loads)
  PROVE  /\ Load(Head(s)) \in Loads /\ LoadsOf(Tail(s)) \in Seq(Loads)
         /\ LoadsOf(s) = <<Load(Head(s))>> \o LoadsOf(Tail(s))
<1>1. /\ Tail(s) \in Seq(Packets) /\ Len(Tail(s)) = Len(s) - 1 /\ Len(s) \in Nat \ {0}
      /\ \A i \in 1 .. Len(s) - 1 : Tail(s)[i] = s[i + 1]
      /\ Head(s) = s[1]
  BY TailElements
<1>2. LoadsOf(s) = [i \in 1 .. Len(s) |-> Load(s[i])] /\ Len(LoadsOf(s)) = Len(s)
  BY LoadsAt
<1>3. LoadsOf(Tail(s)) = [i \in 1 .. Len(s) - 1 |-> Load(Tail(s)[i])]
  BY <1>1, LoadsAt
<1>4. PICK r, t : r = LoadsOf(s) /\ t = LoadsOf(Tail(s))
  OBVIOUS
<1>5. /\ r \in Seq(Loads) /\ r # <<>> /\ Len(r) = Len(s)
      /\ \A i \in 1 .. Len(s) : r[i] = Load(s[i])
  BY <1>1, <1>2, <1>4
<1>6. /\ r = <<Head(r)>> \o Tail(r) /\ Head(r) = r[1] /\ Head(r) \in Loads
      /\ Tail(r) \in Seq(Loads) /\ Len(Tail(r)) = Len(r) - 1
      /\ \A i \in 1 .. Len(r) - 1 : Tail(r)[i] = r[i + 1]
  BY <1>5
<1>7. Tail(r) = t
  <2>1. Tail(r) = [i \in 1 .. Len(s) - 1 |-> Tail(r)[i]]
    <3>1. Len(Tail(r)) = Len(s) - 1 /\ Tail(r) \in Seq(Loads)
      BY <1>5, <1>6
    <3> QED
      BY <3>1, ItsPlaces
  <2>2. ASSUME NEW i \in 1 .. Len(s) - 1 PROVE Tail(r)[i] = Load(Tail(s)[i])
    <3>1. i + 1 \in 1 .. Len(s)
      BY <1>1
    <3> QED
      BY <1>1, <1>5, <1>6, <3>1
  <2> QED
    BY <1>3, <1>4, <2>1, <2>2
<1>8. Head(r) = Load(Head(s))
  BY <1>1, <1>5, <1>6
<1> QED
  BY <1>4, <1>6, <1>7, <1>8

\* The load of one packet, and those around it that are left without it.
LEMMA LoadsAround ==
  ASSUME NEW s \in Seq(Packets), NEW i \in DOMAIN s, LoadsOf(s) \in Seq(Loads)
  PROVE  /\ Load(s[i]) \in Loads
         /\ \E a, c \in Seq(Loads) :
              /\ LoadsOf(s) = a \o (<<Load(s[i])>> \o c)
              /\ LoadsOf(RemoveAt(s, i)) = a \o c
<1>1. PICK r, n : r = LoadsOf(s) /\ n = Len(s)
  OBVIOUS
<1>2. /\ n \in Nat /\ i \in 1 .. n /\ r \in Seq(Loads) /\ Len(r) = n
      /\ \A k \in 1 .. n : r[k] = Load(s[k])
  BY <1>1, LoadsAt
<1>3. r[i] = Load(s[i]) /\ r[i] \in Loads
  BY <1>2
<1>4. PICK a, c \in Seq(Loads) :
        /\ Len(a) = i - 1 /\ \A k \in 1 .. i - 1 : a[k] = r[k]
        /\ Len(c) = n - i /\ \A k \in 1 .. n - i : c[k] = r[k + i]
  <2> DEFINE b == [k \in 1 .. i - 1 |-> r[k]]
             d == [k \in 1 .. n - i |-> r[k + i]]
  <2>1. \A k \in 1 .. i - 1 : r[k] \in Loads
    BY <1>2
  <2>2. \A k \in 1 .. n - i : r[k + i] \in Loads
    <3>1. \A k \in 1 .. n - i : k + i \in 1 .. n
      BY <1>2
    <3> QED
      BY <1>2, <3>1
  <2>3. b \in Seq(Loads) /\ Len(b) = i - 1
    <3>1. b \in [1 .. i - 1 -> Loads] /\ i - 1 \in Nat
      BY <1>2, <2>1
    <3> QED
      BY <3>1, FromPlaces
  <2>4. d \in Seq(Loads) /\ Len(d) = n - i
    <3>1. d \in [1 .. n - i -> Loads] /\ n - i \in Nat
      BY <1>2, <2>2
    <3> QED
      BY <3>1, FromPlaces
  <2>5. /\ \A k \in 1 .. i - 1 : b[k] = r[k]
        /\ \A k \in 1 .. n - i : d[k] = r[k + i]
    OBVIOUS
  <2> HIDE DEF b, d
  <2> QED
    BY <2>3, <2>4, <2>5
<1>5. r = a \o (<<r[i]>> \o c)
  <2>1. PICK t : t = a \o (<<r[i]>> \o c)
    OBVIOUS
  <2>2. /\ t \in Seq(Loads) /\ Len(t) = (i - 1) + 1 + (n - i)
        /\ \A k \in 1 .. i - 1 : t[k] = a[k]
        /\ t[(i - 1) + 1] = r[i]
        /\ \A k \in 1 .. Len(t) : k > (i - 1) + 1 => t[k] = c[k - 1 - (i - 1)]
    <3>1. ASSUME NEW x \in Loads
          PROVE  LET e == a \o (<<x>> \o c) IN
                 /\ e \in Seq(Loads) /\ Len(e) = Len(a) + 1 + Len(c)
                 /\ \A k \in 1 .. Len(a) : e[k] = a[k]
                 /\ e[Len(a) + 1] = x
                 /\ \A k \in 1 .. Len(e) : k > Len(a) + 1 => e[k] = c[k - 1 - Len(a)]
      BY PlacesAround
    <3>2. PICK x \in Loads : x = r[i]
      BY <1>3
    <3>3. t = a \o (<<x>> \o c) /\ Len(a) = i - 1 /\ Len(c) = n - i
      BY <1>4, <2>1, <3>2
    <3>4. /\ t \in Seq(Loads) /\ Len(t) = Len(a) + 1 + Len(c)
          /\ \A k \in 1 .. Len(a) : t[k] = a[k]
          /\ t[Len(a) + 1] = x
          /\ \A k \in 1 .. Len(t) : k > Len(a) + 1 => t[k] = c[k - 1 - Len(a)]
      BY <3>1, <3>3, Zenon
    <3> HIDE <3>1
    <3> QED
      BY <3>2, <3>3, <3>4
  <2>3. Len(t) = n /\ (i - 1) + 1 = i
    BY <1>2, <2>2
  <2>4. ASSUME NEW k \in 1 .. n PROVE t[k] = r[k]
    <3>1. CASE k < i
      <4>1. k \in 1 .. i - 1
        BY <1>2, <3>1
      <4> QED
        BY <1>4, <2>2, <4>1
    <3>2. CASE k = i
      BY <2>2, <2>3, <3>2
    <3>3. CASE i < k
      <4>1. k - 1 - (i - 1) \in 1 .. n - i /\ (k - 1 - (i - 1)) + i = k /\ k > (i - 1) + 1
        BY <1>2, <3>3
      <4>2. t[k] = c[k - 1 - (i - 1)]
        BY <2>2, <2>3, <4>1
      <4> QED
        BY <1>4, <4>1, <4>2
    <3> QED
      BY <1>2, <3>1, <3>2, <3>3
  <2>5. t = [k \in 1 .. n |-> t[k]] /\ r = [k \in 1 .. n |-> r[k]]
    BY <1>2, <2>2, <2>3
  <2> QED
    BY <2>1, <2>4, <2>5
<1>6. LoadsOf(RemoveAt(s, i)) = a \o c
  <2>1. PICK t, u : t = a \o c /\ u = RemoveAt(s, i)
    OBVIOUS
  <2>2. /\ u \in Seq(Packets) /\ Len(u) = n - 1
        /\ \A k \in 1 .. n - 1 : u[k] = IF k < i THEN s[k] ELSE s[k + 1]
    BY <1>1, <2>1, RemoveElements
  <2>3. LoadsOf(u) = [k \in 1 .. n - 1 |-> Load(u[k])]
    BY <2>2, LoadsAt
  <2>4. /\ t \in Seq(Loads) /\ Len(t) = (i - 1) + (n - i)
        /\ \A k \in 1 .. i - 1 : t[k] = a[k]
        /\ \A k \in 1 .. (i - 1) + (n - i) : k > i - 1 => t[k] = c[k - (i - 1)]
    BY <1>4, <2>1, Places
  <2>5. (i - 1) + (n - i) = n - 1
    BY <1>2
  <2>6. ASSUME NEW k \in 1 .. n - 1 PROVE t[k] = Load(u[k])
    <3>1. CASE k < i
      <4>1. k \in 1 .. i - 1 /\ k \in 1 .. n
        BY <1>2, <3>1
      <4>2. t[k] = Load(s[k])
        BY <1>2, <1>4, <2>4, <4>1
      <4> QED
        BY <2>2, <3>1, <4>2
    <3>2. CASE i <= k
      <4>1. /\ k - (i - 1) \in 1 .. n - i /\ (k - (i - 1)) + i = k + 1 /\ k > i - 1
            /\ k + 1 \in 1 .. n
        BY <1>2, <3>2
      <4>2. t[k] = c[k - (i - 1)]
        BY <2>4, <2>5, <4>1
      <4>3. t[k] = Load(s[k + 1])
        BY <1>2, <1>4, <4>1, <4>2
      <4>4. ~(k < i)
        BY <1>2, <3>2
      <4> QED
        BY <2>2, <4>3, <4>4
    <3> QED
      BY <1>2, <3>1, <3>2
  <2>7. t = [k \in 1 .. n - 1 |-> t[k]]
    BY <2>4, <2>5
  <2> QED
    BY <2>1, <2>3, <2>6, <2>7
<1> QED
  BY <1>1, <1>3, <1>5, <1>6

\* The load of the first fragment, and those of the others.
LEMMA FirstToCome ==
  ASSUME NEW f \in Seq(FragmentType), f # <<>>, ToCome(f) \in Seq(Loads)
  PROVE  LET x == [size |-> Head(f).size, marker |-> Len(f) = 1] IN
         /\ x \in Loads /\ ToCome(Tail(f)) \in Seq(Loads)
         /\ ToCome(f) = <<x>> \o ToCome(Tail(f))
<1> DEFINE x == [size |-> Head(f).size, marker |-> Len(f) = 1]
<1>1. /\ Tail(f) \in Seq(FragmentType) /\ Len(Tail(f)) = Len(f) - 1 /\ Len(f) \in Nat \ {0}
      /\ \A i \in 1 .. Len(f) - 1 : Tail(f)[i] = f[i + 1]
      /\ Head(f) = f[1] /\ DOMAIN f = 1 .. Len(f) /\ DOMAIN Tail(f) = 1 .. Len(f) - 1
  BY TailElements
<1>2. PICK r, t, n : r = ToCome(f) /\ t = ToCome(Tail(f)) /\ n = Len(f)
  OBVIOUS
<1>3. /\ r = [i \in 1 .. n |-> [size |-> f[i].size, marker |-> i = n]]
      /\ t = [i \in 1 .. n - 1 |-> [size |-> Tail(f)[i].size, marker |-> i = n - 1]]
  BY <1>1, <1>2 DEF ToCome
<1>4. r \in Seq(Loads) /\ Len(r) = n /\ r # <<>> /\ n \in Nat \ {0}
  <2>1. n \in Nat \ {0} /\ r \in Seq(Loads) /\ DOMAIN r = 1 .. n
    BY <1>1, <1>2, <1>3
  <2>2. Len(r) = n
    BY <2>1
  <2> QED
    BY <2>1, <2>2
<1>5. /\ r = <<Head(r)>> \o Tail(r) /\ Head(r) = r[1] /\ Head(r) \in Loads
      /\ Tail(r) \in Seq(Loads) /\ Len(Tail(r)) = n - 1
      /\ \A i \in 1 .. n - 1 : Tail(r)[i] = r[i + 1]
  BY <1>4
<1>6. Tail(r) = t
  <2>1. Tail(r) = [i \in 1 .. n - 1 |-> Tail(r)[i]]
    BY <1>5, ItsPlaces
  <2>2. ASSUME NEW i \in 1 .. n - 1
        PROVE  Tail(r)[i] = [size |-> Tail(f)[i].size, marker |-> i = n - 1]
    <3>1. i + 1 \in 1 .. n /\ (i + 1 = n <=> i = n - 1)
      BY <1>4
    <3>2. r[i + 1] = [size |-> f[i + 1].size, marker |-> i + 1 = n]
      BY <1>3, <3>1
    <3>3. Tail(f)[i] = f[i + 1]
      BY <1>1, <1>2
    <3> QED
      BY <1>5, <3>1, <3>2, <3>3
  <2> QED
    BY <1>3, <2>1, <2>2
<1>7. Head(r) = x
  <2>1. 1 \in 1 .. n /\ (1 = n <=> Len(f) = 1)
    BY <1>2, <1>4
  <2>2. r[1] = [size |-> f[1].size, marker |-> 1 = n]
    BY <1>3, <2>1
  <2> QED
    BY <1>1, <1>5, <2>1, <2>2
<1> QED
  BY <1>2, <1>5, <1>6, <1>7

\* One fault more is one frame more of debt.
LEMMA OneFrameMore ==
  ASSUME NEW F \in Nat
  PROVE  /\ LargestFrame \in Nat \ {0} /\ F * LargestFrame \in Nat
         /\ (F + 1) * LargestFrame = F * LargestFrame + LargestFrame
<1>1. PICK l \in Nat \ {0} : l = LargestFrame
  BY LargestIsOne
<1>2. F * l \in Nat /\ (F + 1) * l = F * l + l
  OBVIOUS
<1> QED
  BY <1>1, <1>2

\* At the start nothing is on the way.
LEMMA InitFaultsPay == Init => FaultsPay
<1> SUFFICES ASSUME Init PROVE FaultsPay
  OBVIOUS
<1>1. LoadsOf(<<>>) = <<>> /\ ToCome(<<>>) = <<>>
  BY DEF LoadsOf, ToCome
<1>2. /\ LoadsOf(unpackaged) = <<>> /\ LoadsOf(network) = <<>> /\ LoadsOf(sendQueue) = <<>>
      /\ ToCome(fragmentQueue) = <<>>
  BY <1>1 DEF Init
<1>3. PICK e : e = <<>>
  OBVIOUS
<1>7. e \in Seq(Loads) /\ e \o e = e /\ Len(e) = 0
  BY <1>3, ConcatEmptySeq
<1>8. e \in [1 .. 0 -> Loads]
  BY <1>7, LenProperties
<1>4. Way = e
  BY <1>2, <1>3, <1>7 DEF Way
<1>5. Bounded(e, 0, 0)
  <2> DEFINE sum == [k \in 0 .. 0 |-> 0]
  <2>1. Balance(e, 0, sum)
    BY DEF Balance
  <2>2. \A b \in 0 .. 0 : \A a \in 0 .. b :
          sum[b] - sum[a] <= IF Closed(e, 0, b) THEN 0 ELSE 0 + LargestFrame
    <3>1. Closed(e, 0, 0) /\ sum[0] = 0
      BY DEF Closed
    <3> QED
      BY <3>1
  <2> HIDE DEF sum
  <2> QED
    BY <1>8, <2>1, <2>2 DEF Bounded
<1>6. (dropped + lost + shuffled) * LargestFrame = 0
  BY LargestIsOne DEF Init
<1> QED
  BY <1>2, <1>3, <1>4, <1>5, <1>6, <1>7 DEF FaultsPay, Paid

\* The fragments of a frame are loads that make up one whole frame.
LEMMA FrameIsWhole ==
  ASSUME NEW length \in 1 .. LargestFrame
  PROVE  LET f == ToCome(Fragments(length)) IN
         f \in Seq(Loads) /\ f # <<>> /\ \E end : WholeLoads(f, Len(f), end)
<1>0. length \in Nat \ {0} /\ LargestFrame \in Nat
  BY LargestIsOne
<1>1. PICK g : /\ g = Fragments(length) /\ g \in Seq(FragmentType) /\ g # <<>>
               /\ g[1].position = 0 /\ Join(g, length)
  BY <1>0, FragmentsJoin
<1>2. PICK n \in Nat \ {0} : n = Len(g) /\ DOMAIN g = 1 .. n
  BY <1>1
<1>3. \A i \in 1 .. n : g[i].position \in Nat /\ g[i].size \in Nat \ {0}
  <2>1. \A i \in 1 .. n : g[i] \in FragmentType
    BY <1>1, <1>2
  <2>2. ChunkSize \in Nat
    BY RtpAssumption
  <2> QED
    BY <2>1, <2>2 DEF FragmentType
<1>4. /\ \A i \in 1 .. n - 1 : g[i + 1].position = g[i].position + g[i].size
      /\ g[n].position + g[n].size = length
  BY <1>1, <1>2 DEF Join
<1>5. \A i \in 1 .. n : g[i].position + g[i].size <= length
  <2> DEFINE Beyond == {k \in Nat : k \in 0 .. n - 1 /\ ~(g[n - k].position + g[n - k].size <= length)}
  <2>1. Beyond = {}
    <3> SUFFICES ASSUME Beyond # {} PROVE FALSE
      OBVIOUS
    <3>1. PICK k \in Beyond : \A j \in Beyond : k <= j
      <4>1. Beyond \in SUBSET Nat
        OBVIOUS
      <4> HIDE DEF Beyond
      <4> QED
        BY <4>1, LeastExists
    <3>2. k \in 0 .. n - 1 /\ ~(g[n - k].position + g[n - k].size <= length)
      OBVIOUS
    <3>3. CASE k = 0
      <4>1. n - k = n
        BY <3>3
      <4>2. g[n].position + g[n].size \in Nat
        BY <1>3
      <4> QED
        BY <1>0, <1>4, <3>2, <4>1, <4>2
    <3>4. CASE k # 0
      <4>1. PICK i : i = n - k /\ i \in 1 .. n - 1 /\ n - (k - 1) = i + 1 /\ k - 1 \in 0 .. n - 1
        BY <3>2, <3>4
      <4>2. ~(k - 1 \in Beyond)
        BY <3>1, <3>2
      <4>3. g[i + 1].position + g[i + 1].size <= length
        BY <4>1, <4>2
      <4>4. g[i + 1].position = g[i].position + g[i].size
        BY <1>4, <4>1
      <4>5. /\ i \in 1 .. n /\ i + 1 \in 1 .. n
        BY <4>1
      <4>6. /\ g[i].position \in Nat /\ g[i].size \in Nat
            /\ g[i + 1].position \in Nat /\ g[i + 1].size \in Nat
        BY <1>3, <4>5
      <4>7. ~(g[i].position + g[i].size <= length)
        BY <3>2, <4>1
      <4> HIDE DEF Beyond
      <4> QED
        BY <1>0, <4>3, <4>4, <4>6, <4>7
    <3> QED
      BY <3>3, <3>4
  <2>2. ASSUME NEW i \in 1 .. n PROVE g[i].position + g[i].size <= length
    <3>1. n - i \in Nat /\ n - i \in 0 .. n - 1 /\ n - (n - i) = i
      OBVIOUS
    <3>2. ~(n - i \in Beyond)
      BY <2>1
    <3>3. ~(~(g[n - (n - i)].position + g[n - (n - i)].size <= length))
      BY <3>1, <3>2
    <3> QED
      BY <3>1, <3>3
  <2> QED
    BY <2>2
<1>6. PICK f : f = ToCome(g)
  OBVIOUS
<1>7. /\ f = [i \in 1 .. n |-> [size |-> g[i].size, marker |-> i = n]]
  BY <1>2, <1>6 DEF ToCome
<1>8. ASSUME NEW i \in 1 .. n
      PROVE  f[i] \in Loads /\ f[i].size = g[i].size /\ (f[i].marker <=> i = n)
  <2>1. f[i] = [size |-> g[i].size, marker |-> i = n]
    BY <1>7
  <2>2. g[i].size \in 0 .. LargestFrame
    <3>1. g[i].position \in Nat /\ g[i].size \in Nat /\ g[i].position + g[i].size <= length
      BY <1>3, <1>5
    <3> QED
      BY <1>0, <3>1
  <2>3. (i = n) \in BOOLEAN
    OBVIOUS
  <2> QED
    <3>1. [size |-> g[i].size, marker |-> i = n] \in [size : 0 .. LargestFrame, marker : BOOLEAN]
      BY <2>2, <2>3
    <3>2. CASE i = n
      <4>1. f[i] = [size |-> g[i].size, marker |-> TRUE]
        BY <2>1, <3>2
      <4> QED
        BY <2>1, <3>1, <3>2, <4>1 DEF Loads
    <3>3. CASE i # n
      <4>1. f[i] = [size |-> g[i].size, marker |-> FALSE]
        BY <2>1, <3>3
      <4> QED
        BY <2>1, <3>1, <3>3, <4>1 DEF Loads
    <3> QED
      BY <3>2, <3>3
<1>9. f \in Seq(Loads) /\ Len(f) = n /\ f \in [1 .. n -> Loads] /\ f # <<>>
  <2>1. f \in [1 .. n -> Loads]
    BY <1>7, <1>8
  <2>2. f \in Seq(Loads) /\ Len(f) = n
    BY <2>1, FromPlaces
  <2> QED
    BY <2>1, <2>2
<1> DEFINE end == [k \in 0 .. n |-> IF k = 0 THEN 0 ELSE g[k].position + g[k].size]
<1>10. /\ end[0] = 0 /\ \A k \in 1 .. n : end[k] = g[k].position + g[k].size
  OBVIOUS
<1>11. end \in [0 .. n -> 0 .. LargestFrame]
  <2>1. ASSUME NEW k \in 1 .. n PROVE g[k].position + g[k].size \in 0 .. LargestFrame
    <3>1. g[k].position \in Nat /\ g[k].size \in Nat /\ g[k].position + g[k].size <= length
      BY <1>3, <1>5
    <3> QED
      BY <1>0, <3>1
  <2> QED
    BY <1>0, <2>1
<1> HIDE DEF end
<1>12. ASSUME NEW k \in 1 .. n
       PROVE  f[k].size = end[k] - end[k - 1] /\ (f[k].marker <=> k = n)
  <2>1. g[k].position \in Nat /\ g[k].size \in Nat
    BY <1>3
  <2>2. end[k - 1] = g[k].position
    <3>1. CASE k = 1
      BY <1>1, <1>10, <3>1
    <3>2. CASE k # 1
      <4>1. PICK i \in 1 .. n - 1 : i = k - 1 /\ i + 1 = k
        <5>1. k - 1 \in 1 .. n - 1 /\ (k - 1) + 1 = k
          BY <3>2
        <5> QED
          BY <5>1
      <4>2. i \in 1 .. n
        OBVIOUS
      <4> QED
        BY <1>4, <1>10, <4>1, <4>2
    <3> QED
      BY <3>1, <3>2
  <2> QED
    BY <1>8, <1>10, <2>1, <2>2
<1>13. WholeLoads(f, n, end)
  BY <1>9, <1>10, <1>11, <1>12 DEF WholeLoads
<1> QED
  BY <1>1, <1>6, <1>9, <1>13

\* A frame that comes in adds its fragments, which its marker pays for.
LEMMA ReceivePacketPays == TypeOK /\ FaultsPay /\ ReceivePacket => FaultsPay'
<1> SUFFICES ASSUME TypeOK, FaultsPay, ReceivePacket PROVE FaultsPay'
  OBVIOUS
<1>1. PICK kind \in FrameKinds : fragmentQueue' = Fragments(kind.size)
  BY DEF ReceivePacket
<1>2. PICK A, B, C, E, F :
        /\ A = LoadsOf(unpackaged) /\ B = LoadsOf(network) /\ C = LoadsOf(sendQueue)
        /\ E = ToCome(Fragments(kind.size)) /\ F = dropped + lost + shuffled
  OBVIOUS
<1>3. fragmentQueue = <<>> /\ ToCome(fragmentQueue) = <<>>
  BY DEF ReceivePacket, ToCome
<1>4. /\ A \in Seq(Loads) /\ B \in Seq(Loads) /\ C \in Seq(Loads) /\ F \in Nat
      /\ Paid(A \o (B \o (C \o <<>>)), F * LargestFrame)
  <2>1. F \in Nat
    BY <1>2 DEF TypeOK
  <2> QED
    BY <1>2, <1>3, <2>1 DEF FaultsPay, Way
<1>5. /\ LoadsOf(unpackaged') = A /\ LoadsOf(network') = B /\ LoadsOf(sendQueue') = C
      /\ ToCome(fragmentQueue') = E /\ dropped' + lost' + shuffled' = F
  BY <1>1, <1>2 DEF ReceivePacket, unpackager, faults
<1>6. E \in Seq(Loads) /\ E # <<>> /\ \E end : WholeLoads(E, Len(E), end)
  <2>1. kind.size \in 1 .. LargestFrame
    BY LargestIsOne
  <2> QED
    BY <1>2, <2>1, FrameIsWhole
<1>7. PICK BC : BC = B \o C
  OBVIOUS
<1>8. PICK ABC : ABC = A \o BC
  OBVIOUS
<1>9. BC \in Seq(Loads) /\ ABC \in Seq(Loads) /\ C \o <<>> = C
  BY <1>4, <1>7, <1>8, ConcatEmptySeq
<1>10. Paid(ABC, F * LargestFrame) /\ F * LargestFrame \in Nat
  BY <1>4, <1>7, <1>8, <1>9, OneFrameMore
<1>11. Paid(ABC \o E, F * LargestFrame)
  BY <1>6, <1>9, <1>10, FrameFollows
<1>12. ABC \o E = A \o (B \o (C \o E))
  <2>1. ABC \o E = A \o (BC \o E)
    BY <1>4, <1>6, <1>8, <1>9, Regrouped
  <2>2. BC \o E = B \o (C \o E)
    BY <1>4, <1>6, <1>7, Regrouped
  <2> QED
    BY <2>1, <2>2
<1> QED
  BY <1>4, <1>5, <1>6, <1>11, <1>12 DEF FaultsPay, Way

\* What Packager makes of a fragment is a packet.
LEMMA SentPacket == IInv /\ fragmentQueue # <<>> => Packet \in Packets
<1> SUFFICES ASSUME IInv, fragmentQueue # <<>> PROVE Packet \in Packets
  OBVIOUS
<1>1. /\ frames \in Seq(FrameKinds) /\ Len(frames) <= MaxFrames /\ frames # <<>>
      /\ fragmentQueue \in Seq(FragmentType)
      /\ stamp \in 0 .. TsModulus - 1 /\ videoSeqNum \in Nat
  BY DEF IInv, TypeOK, FragmentsFollow, FragmentType
<1>2. Len(frames) \in 1 .. MaxFrames
  <2>1. Len(frames) \in Nat \ {0} /\ MaxFrames \in Nat
    BY <1>1, RtpAssumption
  <2> QED
    BY <1>1, <2>1
<1>3. Head(fragmentQueue) \in [position : Nat, size : 1 .. ChunkSize]
  BY <1>1, FirstElement DEF FragmentType
<1>4. LastPacket \in BOOLEAN
  BY DEF LastPacket
<1> QED
  BY <1>1, <1>2, <1>3, <1>4 DEF Packet, Packets

\* What is handed to the Sender stays on the way; what its queue refuses is a fault.
LEMMA SendFragmentPays == IInv /\ FaultsPay /\ SendFragment => FaultsPay'
<1> SUFFICES ASSUME IInv, FaultsPay, SendFragment PROVE FaultsPay'
  OBVIOUS
<1>1. /\ fragmentQueue \in Seq(FragmentType) /\ fragmentQueue # <<>>
      /\ sendQueue \in Seq(Packets)
  BY DEF IInv, TypeOK, FragmentType, SendFragment
<1>2. PICK A, B, C, E, x, F :
        /\ A = LoadsOf(unpackaged) /\ B = LoadsOf(network) /\ C = LoadsOf(sendQueue)
        /\ E = ToCome(Tail(fragmentQueue)) /\ F = dropped + lost + shuffled
        /\ x = [size |-> Head(fragmentQueue).size, marker |-> Len(fragmentQueue) = 1]
  OBVIOUS
<1>3. A \in Seq(Loads) /\ B \in Seq(Loads) /\ C \in Seq(Loads)
      /\ ToCome(fragmentQueue) \in Seq(Loads)
  BY <1>2 DEF FaultsPay
<1>4. E \in Seq(Loads) /\ x \in Loads /\ ToCome(fragmentQueue) = <<x>> \o E
  BY <1>1, <1>2, <1>3, FirstToCome
<1>5. F \in Nat /\ dropped \in Nat /\ lost \in Nat /\ shuffled \in Nat
  BY <1>2 DEF IInv, TypeOK
<1>6. Paid(A \o (B \o (C \o (<<x>> \o E))), F * LargestFrame)
  BY <1>2, <1>4 DEF FaultsPay, Way
<1>7. /\ LoadsOf(unpackaged') = A /\ LoadsOf(network') = B /\ ToCome(fragmentQueue') = E
  BY <1>2 DEF SendFragment, unpackager
<1>8. CASE Len(sendQueue) < QueueLimit
  <2>1. sendQueue' = Append(sendQueue, Packet) /\ dropped' + lost' + shuffled' = F
    BY <1>2, <1>8 DEF SendFragment
  <2>2. Packet \in Packets /\ Load(Packet) = x
    <3>1. Load(Packet) = x
      BY <1>2 DEF Load, Packet, LastPacket
    <3>2. Packet \in Packets
      BY <1>1, SentPacket
    <3> QED
      BY <3>1, <3>2
  <2>3. LoadsOf(sendQueue') = Append(C, x)
    BY <1>1, <1>2, <2>1, <2>2, LoadsAppend
  <2>4. Append(C, x) \o E = C \o (<<x>> \o E) /\ Append(C, x) \in Seq(Loads)
    BY <1>3, <1>4, LoadInBetween, AppendElements
  <2> QED
    BY <1>3, <1>4, <1>6, <1>7, <2>1, <2>3, <2>4 DEF FaultsPay, Way
<1>9. CASE ~(Len(sendQueue) < QueueLimit)
  <2>1. sendQueue' = sendQueue /\ dropped' + lost' + shuffled' = F + 1
    BY <1>2, <1>5, <1>9 DEF SendFragment
  <2>2. LoadsOf(sendQueue') = C
    BY <1>2, <2>1
  <2>3. PICK BC : BC = B \o C
    OBVIOUS
  <2>4. PICK ABC : ABC = A \o BC
    OBVIOUS
  <2>5. BC \in Seq(Loads) /\ ABC \in Seq(Loads)
    BY <1>3, <2>3, <2>4
  <2>6. \A y \in Seq(Loads) : A \o (B \o (C \o y)) = ABC \o y
    <3> SUFFICES ASSUME NEW y \in Seq(Loads) PROVE A \o (B \o (C \o y)) = ABC \o y
      OBVIOUS
    <3>1. Regroup(A, B, C, y)
      BY <1>3, FourRegrouped
    <3> QED
      BY <2>3, <2>4, <3>1 DEF Regroup
  <2>7. <<x>> \o E \in Seq(Loads)
    BY <1>4
  <2>8. Paid(ABC \o (<<x>> \o E), F * LargestFrame)
    BY <1>6, <2>6, <2>7
  <2>9. Paid(ABC \o E, F * LargestFrame + LargestFrame)
    BY <1>4, <1>5, <2>5, <2>8, OneFrameMore, LoadLost
  <2>10. Paid(A \o (B \o (C \o E)), (F + 1) * LargestFrame)
    BY <1>4, <1>5, <2>6, <2>9, OneFrameMore
  <2> QED
    BY <1>3, <1>4, <1>7, <2>1, <2>2, <2>10 DEF FaultsPay, Way
<1> QED
  BY <1>8, <1>9

\* What the Sender writes to its socket stays on the way.
LEMMA SendLoopPays == TypeOK /\ FaultsPay /\ SendLoop => FaultsPay'
<1> SUFFICES ASSUME TypeOK, FaultsPay, SendLoop PROVE FaultsPay'
  OBVIOUS
<1>1. /\ sendQueue \in Seq(Packets) /\ sendQueue # <<>> /\ network \in Seq(Packets)
      /\ Head(sendQueue) \in Packets
  BY DEF TypeOK, SendLoop
<1>2. PICK A, B, C, D, x, F :
        /\ A = LoadsOf(unpackaged) /\ B = LoadsOf(network) /\ C = LoadsOf(Tail(sendQueue))
        /\ D = ToCome(fragmentQueue) /\ F = dropped + lost + shuffled
        /\ x = Load(Head(sendQueue))
  OBVIOUS
<1>3. /\ A \in Seq(Loads) /\ B \in Seq(Loads) /\ D \in Seq(Loads)
      /\ LoadsOf(sendQueue) \in Seq(Loads)
  BY <1>2 DEF FaultsPay
<1>4. C \in Seq(Loads) /\ x \in Loads /\ LoadsOf(sendQueue) = <<x>> \o C
  BY <1>1, <1>2, <1>3, LoadsFirst
<1>5. Paid(A \o (B \o ((<<x>> \o C) \o D)), F * LargestFrame)
  BY <1>2, <1>4 DEF FaultsPay, Way
<1>6. /\ LoadsOf(unpackaged') = A /\ LoadsOf(sendQueue') = C /\ ToCome(fragmentQueue') = D
      /\ network' = Append(network, Head(sendQueue)) /\ dropped' + lost' + shuffled' = F
  BY <1>2 DEF SendLoop, unpackager, packager, faults, Pop
<1>7. LoadsOf(network') = Append(B, x) /\ Append(B, x) \in Seq(Loads)
  BY <1>1, <1>2, <1>3, <1>4, <1>6, LoadsAppend, AppendElements
<1>8. B \o ((<<x>> \o C) \o D) = Append(B, x) \o (C \o D)
  <2>1. <<x>> \in Seq(Loads) /\ C \o D \in Seq(Loads)
    BY <1>3, <1>4
  <2>2. (<<x>> \o C) \o D = <<x>> \o (C \o D)
    BY <1>3, <1>4, <2>1, Regrouped
  <2>3. Append(B, x) \o (C \o D) = B \o (<<x>> \o (C \o D))
    BY <1>3, <1>4, <2>1, LoadInBetween
  <2> QED
    BY <2>2, <2>3
<1> QED
  BY <1>3, <1>4, <1>5, <1>6, <1>7, <1>8 DEF FaultsPay, Way

\* Each packet the network loses, repeats or reorders is a fault.
LEMMA NetworkPays == TypeOK /\ FaultsPay /\ (Lose \/ Duplicate \/ Reorder) => FaultsPay'
<1> SUFFICES ASSUME TypeOK, FaultsPay, Lose \/ Duplicate \/ Reorder PROVE FaultsPay'
  OBVIOUS
<1>1. PICK i \in DOMAIN network :
        network' \in {RemoveAt(network, i), Append(network, network[i]),
                      Append(RemoveAt(network, i), network[i])}
  BY DEF Lose, Duplicate, Reorder
<1>2. /\ network \in Seq(Packets) /\ network[i] \in Packets
      /\ RemoveAt(network, i) \in Seq(Packets)
  BY RemoveElements DEF TypeOK
<1>3. PICK A, B, E, x, F :
        /\ A = LoadsOf(unpackaged) /\ B = LoadsOf(network)
        /\ E = LoadsOf(sendQueue) \o ToCome(fragmentQueue)
        /\ x = Load(network[i]) /\ F = dropped + lost + shuffled
  OBVIOUS
<1>4. /\ A \in Seq(Loads) /\ B \in Seq(Loads) /\ E \in Seq(Loads)
      /\ Paid(A \o (B \o E), F * LargestFrame)
  BY <1>3 DEF FaultsPay, Way
<1>5. /\ LoadsOf(unpackaged') = A /\ LoadsOf(sendQueue') = LoadsOf(sendQueue)
      /\ ToCome(fragmentQueue') = ToCome(fragmentQueue)
      /\ E = LoadsOf(sendQueue') \o ToCome(fragmentQueue')
  BY <1>3 DEF Lose, Duplicate, Reorder, unpackager, packager
<1>6. F \in Nat /\ dropped' + lost' + shuffled' = F + 1
  <2>1. dropped \in Nat /\ lost \in Nat /\ shuffled \in Nat
    BY DEF TypeOK
  <2>2. /\ dropped' = dropped
        /\ \/ lost' = lost + 1 /\ shuffled' = shuffled
           \/ lost' = lost /\ shuffled' = shuffled + 1
    BY DEF Lose, Duplicate, Reorder
  <2>3. CASE lost' = lost + 1 /\ shuffled' = shuffled
    BY <1>3, <2>1, <2>2, <2>3
  <2>4. CASE lost' = lost /\ shuffled' = shuffled + 1
    BY <1>3, <2>1, <2>2, <2>4
  <2> QED
    BY <2>2, <2>3, <2>4
<1>7. F * LargestFrame \in Nat
      /\ (F + 1) * LargestFrame = F * LargestFrame + LargestFrame
  BY <1>6, OneFrameMore
<1>8. PICK a, c : /\ a \in Seq(Loads) /\ c \in Seq(Loads)
                  /\ B = a \o (<<x>> \o c) /\ LoadsOf(RemoveAt(network, i)) = a \o c
  <2>1. LoadsOf(network) \in Seq(Loads)
    BY <1>3, <1>4
  <2>2. \E a, c \in Seq(Loads) :
          /\ LoadsOf(network) = a \o (<<Load(network[i])>> \o c)
          /\ LoadsOf(RemoveAt(network, i)) = a \o c
    BY <1>2, <2>1, LoadsAround
  <2> QED
    BY <1>3, <2>2
<1>9. x \in Loads
  BY <1>2, <1>3, <1>4, LoadsAround
<1>10. PICK Aa, cE : Aa = A \o a /\ cE = c \o E
  OBVIOUS
<1>11. Aa \in Seq(Loads) /\ cE \in Seq(Loads) /\ a \o c \in Seq(Loads)
  BY <1>4, <1>8, <1>10
<1>12. ASSUME NEW y \in Seq(Loads), NEW z \in Seq(Loads)
       PROVE  A \o ((a \o y) \o z) = Aa \o (y \o z)
  <2>1. Regroup(A, a, y, z)
    BY <1>4, <1>8, FourRegrouped
  <2> QED
    BY <1>10, <2>1 DEF Regroup
<1>13. Paid(Aa \o (<<x>> \o cE), F * LargestFrame)
  <2>1. <<x>> \o c \in Seq(Loads) /\ <<x>> \in Seq(Loads)
    BY <1>8, <1>9
  <2>2. A \o (B \o E) = Aa \o ((<<x>> \o c) \o E)
    BY <1>4, <1>8, <1>12, <2>1
  <2>3. (<<x>> \o c) \o E = <<x>> \o cE
    BY <1>4, <1>8, <1>10, <2>1, Regrouped
  <2> QED
    BY <1>4, <2>2, <2>3
<1>14. CASE network' = RemoveAt(network, i)
  <2>1. Paid(Aa \o cE, F * LargestFrame + LargestFrame)
    BY <1>7, <1>9, <1>11, <1>13, LoadLost
  <2>2. A \o ((a \o c) \o E) = Aa \o cE
    BY <1>4, <1>8, <1>10, <1>12
  <2>3. LoadsOf(network') = a \o c
    BY <1>8, <1>14
  <2> QED
    BY <1>4, <1>5, <1>6, <1>7, <1>11, <2>1, <2>2, <2>3 DEF FaultsPay, Way
<1>15. CASE network' = Append(network, network[i])
  <2>1. PICK AB : AB = A \o B /\ AB \in Seq(Loads) /\ AB \o E = A \o (B \o E)
    <3>1. A \o B \in Seq(Loads) /\ (A \o B) \o E = A \o (B \o E)
      BY <1>4, Regrouped
    <3> QED
      BY <3>1
  <2>2. Paid(AB \o (<<x>> \o E), F * LargestFrame + LargestFrame)
    BY <1>4, <1>7, <1>9, <2>1, LoadRepeated
  <2>3. LoadsOf(network') = Append(B, x) /\ Append(B, x) \in Seq(Loads)
    BY <1>2, <1>3, <1>4, <1>9, <1>15, LoadsAppend, AppendElements
  <2>4. A \o (Append(B, x) \o E) = AB \o (<<x>> \o E)
    <3>1. Append(B, x) \o E = B \o (<<x>> \o E) /\ <<x>> \o E \in Seq(Loads)
      BY <1>4, <1>9, LoadInBetween
    <3>2. (A \o B) \o (<<x>> \o E) = A \o (B \o (<<x>> \o E))
      BY <1>4, <3>1, Regrouped
    <3> QED
      BY <2>1, <3>1, <3>2
  <2> QED
    BY <1>4, <1>5, <1>6, <1>7, <2>2, <2>3, <2>4 DEF FaultsPay, Way
<1>16. CASE network' = Append(RemoveAt(network, i), network[i])
  <2>1. PICK r : r = a \o c /\ r \in Seq(Loads)
    BY <1>11
  <2>2. LoadsOf(network') = Append(r, x) /\ Append(r, x) \in Seq(Loads)
    BY <1>2, <1>3, <1>8, <1>9, <1>16, <2>1, LoadsAppend, AppendElements
  <2>3. Paid(Aa \o (c \o (<<x>> \o E)), F * LargestFrame + LargestFrame)
    BY <1>4, <1>7, <1>8, <1>9, <1>10, <1>11, <1>13, LoadDelayed
  <2>4. A \o (Append(r, x) \o E) = Aa \o (c \o (<<x>> \o E))
    <3>1. Append(r, x) \o E = r \o (<<x>> \o E)
      BY <1>4, <1>9, <2>1, LoadInBetween
    <3>2. <<x>> \o E \in Seq(Loads)
      BY <1>4, <1>9
    <3> QED
      BY <1>8, <1>12, <2>1, <3>1, <3>2
  <2> QED
    BY <1>4, <1>5, <1>6, <1>7, <2>2, <2>3, <2>4 DEF FaultsPay, Way
<1> QED
  BY <1>1, <1>14, <1>15, <1>16

\* A packet that is collected stays on the way; with a marker, all collected leave it.
LEMMA HandleReceivePays == TypeOK /\ FaultsPay /\ HandleReceive => FaultsPay'
<1> SUFFICES ASSUME TypeOK, FaultsPay, HandleReceive PROVE FaultsPay'
  OBVIOUS
<1>1. /\ network \in Seq(Packets) /\ network # <<>> /\ unpackaged \in Seq(Packets)
      /\ Head(network) \in Packets
  BY DEF TypeOK, HandleReceive
<1>2. PICK A, B, E, x, F :
        /\ A = LoadsOf(unpackaged) /\ B = LoadsOf(Tail(network))
        /\ E = LoadsOf(sendQueue) \o ToCome(fragmentQueue)
        /\ x = Load(Head(network)) /\ F = dropped + lost + shuffled
  OBVIOUS
<1>3. /\ A \in Seq(Loads) /\ E \in Seq(Loads) /\ LoadsOf(network) \in Seq(Loads)
      /\ LoadsOf(sendQueue) \in Seq(Loads) /\ ToCome(fragmentQueue) \in Seq(Loads)
  BY <1>2 DEF FaultsPay
<1>4. B \in Seq(Loads) /\ x \in Loads /\ LoadsOf(network) = <<x>> \o B
  BY <1>1, <1>2, <1>3, LoadsFirst
<1>5. Paid(A \o ((<<x>> \o B) \o E), F * LargestFrame)
  BY <1>2, <1>4 DEF FaultsPay, Way
<1>6. /\ network' = Tail(network) /\ LoadsOf(network') = B
      /\ LoadsOf(sendQueue') = LoadsOf(sendQueue)
      /\ ToCome(fragmentQueue') = ToCome(fragmentQueue)
      /\ E = LoadsOf(sendQueue') \o ToCome(fragmentQueue')
      /\ dropped' + lost' + shuffled' = F /\ unpackaged' = Remainder(Head(network))
  BY <1>2 DEF HandleReceive, packager, faults
<1>7. /\ B \o E \in Seq(Loads) /\ Append(A, x) \in Seq(Loads)
      /\ A \o ((<<x>> \o B) \o E) = Append(A, x) \o (B \o E)
  <2>1. <<x>> \in Seq(Loads) /\ B \o E \in Seq(Loads) /\ Append(A, x) \in Seq(Loads)
    BY <1>3, <1>4
  <2>2. (<<x>> \o B) \o E = <<x>> \o (B \o E)
    BY <1>3, <1>4, <2>1, Regrouped
  <2>3. Append(A, x) \o (B \o E) = A \o (<<x>> \o (B \o E))
    BY <1>3, <1>4, <2>1, LoadInBetween
  <2> QED
    BY <2>1, <2>2, <2>3
<1>8. CASE Head(network).marker
  <2>1. LoadsOf(unpackaged') = <<>>
    BY <1>6, <1>8 DEF Remainder, LoadsOf
  <2>2. F * LargestFrame \in Nat
    <3>1. F \in Nat
      BY <1>2 DEF TypeOK
    <3> QED
      BY <3>1, OneFrameMore
  <2>3. Paid(B \o E, F * LargestFrame)
    BY <1>5, <1>7, <2>2, LoadsUsed
  <2>4. <<>> \o (B \o E) = B \o E /\ <<>> \in Seq(Loads)
    BY <1>7, ConcatEmptySeq
  <2> QED
    BY <1>3, <1>4, <1>6, <2>1, <2>3, <2>4 DEF FaultsPay, Way
<1>9. CASE ~Head(network).marker
  <2>1. LoadsOf(unpackaged') = Append(A, x)
    BY <1>1, <1>2, <1>6, <1>9, LoadsAppend DEF Remainder
  <2> QED
    BY <1>3, <1>4, <1>5, <1>6, <1>7, <2>1 DEF FaultsPay, Way
<1> QED
  BY <1>8, <1>9

\* The rest leaves the way as it is.
LEMMA RestPays == FaultsPay /\ (HandleNothing \/ UNCHANGED vars) => FaultsPay'
<1> SUFFICES ASSUME FaultsPay, HandleNothing \/ UNCHANGED vars PROVE FaultsPay'
  OBVIOUS
<1>1. /\ unpackaged' = unpackaged /\ network' = network /\ sendQueue' = sendQueue
      /\ fragmentQueue' = fragmentQueue
      /\ dropped' = dropped /\ lost' = lost /\ shuffled' = shuffled
  BY DEF HandleNothing, vars, packager, unpackager, faults
<1> QED
  BY <1>1 DEF FaultsPay, Way

\* The markers pay whenever the program is between two steps.
THEOREM MarkersPay == Spec => []FaultsPay
<1>1. IInv /\ FaultsPay /\ [Next]_vars => FaultsPay'
  <2> SUFFICES ASSUME IInv, FaultsPay, [Next]_vars PROVE FaultsPay'
    OBVIOUS
  <2>1. TypeOK
    BY DEF IInv
  <2> QED
    BY <2>1, ReceivePacketPays, SendFragmentPays, SendLoopPays, NetworkPays,
       HandleReceivePays, RestPays DEF Next
<1> QED
  BY <1>1, InitFaultsPay, Inductive, PTL DEF Spec

\* The bytes up to packet n, of packets s, when u tells those up to the ones before.
BytesUpTo(s, n, u) == IF n = 0 THEN 0 ELSE u[n - 1] + s[n].fragment.size

\* The packets at the front of the way, of which only the last can have the marker,
\* have a frame more of bytes than the debt, at most.
LEMMA FrontBytes ==
  ASSUME NEW s \in Seq(Packets), \A i \in 1 .. Len(s) - 1 : ~s[i].marker,
         LoadsOf(s) \in Seq(Loads), NEW c \in Seq(Loads), NEW debt \in Nat,
         Paid(LoadsOf(s) \o c, debt)
  PROVE  Bytes(s) <= debt + LargestFrame
<1> DEFINE L == LargestFrame
<1>1. PICK n, a, w, N : n = Len(s) /\ a = LoadsOf(s) /\ w = a \o c /\ N = Len(w)
  OBVIOUS
<1>2. /\ n \in Nat /\ N \in Nat /\ n <= N /\ L \in Nat
      /\ \A k \in 1 .. n : a[k] = Load(s[k]) /\ a[k] \in Loads /\ w[k] = a[k]
  <2>1. n \in Nat /\ Len(a) = n /\ a = [i \in 1 .. n |-> Load(s[i])] /\ a \in Seq(Loads)
    BY <1>1, LoadsAt
  <2>2. N = n + Len(c) /\ Len(c) \in Nat /\ \A k \in 1 .. n : w[k] = a[k]
    BY <1>1, <2>1, Places
  <2> QED
    BY <2>1, <2>2, LargestIsOne
<1>3. PICK sum : /\ Balance(w, N, sum)
                 /\ \A y \in 0 .. N : \A x \in 0 .. y :
                      sum[y] - sum[x] <= IF Closed(w, N, y) THEN debt ELSE debt + L
  BY <1>1 DEF Paid, Bounded
<1>4. /\ \A k \in 0 .. n : sum[k] \in Int
      /\ sum[0] = 0
      /\ \A k \in 1 .. n : sum[k] = sum[k - 1] + Weight(a[k])
  <2>1. /\ \A k \in 0 .. N : sum[k] \in Int
        /\ sum[0] = 0
        /\ \A k \in 1 .. N : sum[k] = sum[k - 1] + Weight(w[k])
    BY <1>3 DEF Balance
  <2>2. (\A k \in 0 .. n : k \in 0 .. N) /\ (\A k \in 1 .. n : k \in 1 .. N /\ w[k] = a[k])
    BY <1>2
  <2> QED
    BY <2>1, <2>2
<1>5. ASSUME NEW k \in 1 .. n
      PROVE  /\ a[k].size = s[k].fragment.size /\ a[k].marker = s[k].marker
             /\ a[k].size \in Nat /\ Weight(a[k]) \in Int
             /\ Weight(a[k]) = a[k].size - IF a[k].marker THEN L ELSE 0
  <2>1. a[k] = Load(s[k]) /\ a[k] \in Loads
    BY <1>2
  <2>2. a[k].size = s[k].fragment.size /\ a[k].marker = s[k].marker
    BY <2>1 DEF Load
  <2> QED
    BY <2>1, <2>2, WeightRange
<1>6. \A k \in 1 .. n - 1 : Weight(a[k]) = s[k].fragment.size
  <2> SUFFICES ASSUME NEW k \in 1 .. n - 1 PROVE Weight(a[k]) = s[k].fragment.size
    OBVIOUS
  <2>1. k \in 1 .. n /\ ~s[k].marker
    BY <1>1, <1>2
  <2> QED
    BY <1>5, <2>1
<1> HIDE DEF L
<1> DEFINE upTo[k \in 0 .. n] == IF k = 0 THEN 0 ELSE upTo[k - 1] + s[k].fragment.size
<1>7. Bytes(s) = upTo[n]
  BY <1>1 DEF Bytes
<1>8. upTo = [k \in 0 .. n |-> BytesUpTo(s, k, upTo)]
  <2>1. \E u : u = [k \in 0 .. n |-> BytesUpTo(s, k, u)]
    <3> DEFINE u == [k \in 0 .. n |-> IF k = n /\ n > 0 THEN sum[n - 1] + s[n].fragment.size
                                      ELSE sum[k]]
    <3>1. ASSUME NEW k \in 0 .. n PROVE u[k] = BytesUpTo(s, k, u)
      <4>1. CASE k = 0
        BY <1>2, <1>4, <4>1 DEF BytesUpTo
      <4>2. CASE k # 0
        <5>1. k - 1 \in 0 .. n /\ k - 1 # n /\ k \in 1 .. n
          BY <1>2, <4>2
        <5>2. u[k - 1] = sum[k - 1]
          BY <5>1
        <5>3. u[k] = sum[k - 1] + s[k].fragment.size
          <6>1. CASE k = n
            BY <1>2, <4>2, <6>1
          <6>2. CASE k # n
            <7>1. u[k] = sum[k] /\ k \in 1 .. n - 1
              BY <1>2, <5>1, <6>2
            <7> QED
              BY <1>4, <1>6, <5>1, <7>1
          <6> QED
            BY <6>1, <6>2
        <5> QED
          BY <4>2, <5>2, <5>3 DEF BytesUpTo
      <4> QED
        BY <4>1, <4>2
    <3>2. u = [k \in 0 .. n |-> u[k]]
      OBVIOUS
    <3>3. u = [k \in 0 .. n |-> BytesUpTo(s, k, u)]
      BY <3>1, <3>2
    <3> QED
      BY <3>3
  <2> QED
    BY <2>1 DEF BytesUpTo
<1> HIDE DEF upTo
<1>9. \A k \in 0 .. n : upTo[k] = BytesUpTo(s, k, upTo)
  BY <1>8
<1>10. ASSUME n > 0 PROVE upTo[n - 1] = sum[n - 1]
  <2> DEFINE Same == {k \in Nat : k <= n - 1 => upTo[k] = sum[k]}
  <2>1. 0 \in Same
    <3>1. upTo[0] = 0
      BY <1>2, <1>9 DEF BytesUpTo
    <3> QED
      BY <1>4, <3>1
  <2>2. ASSUME NEW k \in Nat, k \in Same PROVE k + 1 \in Same
    <3> SUFFICES ASSUME k + 1 <= n - 1 PROVE upTo[k + 1] = sum[k + 1]
      OBVIOUS
    <3>1. k + 1 \in 1 .. n - 1 /\ k + 1 \in 1 .. n /\ k + 1 \in 0 .. n /\ (k + 1) - 1 = k
          /\ k <= n - 1
      BY <1>2
    <3>2. upTo[k] = sum[k]
      BY <2>2, <3>1
    <3>3. upTo[k + 1] = upTo[k] + s[k + 1].fragment.size
      BY <1>9, <3>1 DEF BytesUpTo
    <3>4. sum[k + 1] = sum[k] + Weight(a[k + 1])
      BY <1>4, <3>1
    <3> QED
      BY <1>6, <3>1, <3>2, <3>3, <3>4
  <2>3. n - 1 \in Same
    <3>1. n - 1 \in Nat
      BY <1>2, <1>10
    <3> HIDE DEF Same
    <3> QED
      BY <2>1, <2>2, <3>1, SetInduction
  <2> QED
    BY <1>2, <1>10, <2>3
<1>11. CASE n = 0
  <2>1. upTo[n] = 0
    BY <1>2, <1>9, <1>11 DEF BytesUpTo
  <2> QED
    BY <1>2, <1>7, <2>1 DEF L
<1>12. CASE n > 0
  <2>1. n \in 1 .. n /\ n \in 0 .. n /\ n \in 0 .. N /\ 0 \in 0 .. n /\ n - 1 \in 0 .. n
    BY <1>2, <1>12
  <2>2. upTo[n] = sum[n - 1] + a[n].size
    BY <1>5, <1>9, <1>10, <1>12, <2>1 DEF BytesUpTo
  <2>3. sum[n] = sum[n - 1] + Weight(a[n]) /\ sum[n - 1] \in Int /\ sum[n] \in Int
    BY <1>4, <2>1
  <2>4. sum[n] - sum[0] <= IF Closed(w, N, n) THEN debt ELSE debt + L
    BY <1>3, <2>1
  <2>5. a[n].size \in Nat /\ Weight(a[n]) = a[n].size - IF a[n].marker THEN L ELSE 0
    BY <1>5, <2>1
  <2>6. CASE a[n].marker
    <3>1. Closed(w, N, n)
      BY <1>2, <1>12, <2>1, <2>6 DEF Closed
    <3>2. upTo[n] = sum[n] + L
      BY <1>2, <2>2, <2>3, <2>5, <2>6
    <3> QED
      BY <1>2, <1>4, <1>7, <2>3, <2>4, <3>1, <3>2 DEF L
  <2>7. CASE ~a[n].marker
    <3>1. upTo[n] = sum[n]
      BY <2>2, <2>3, <2>5, <2>7
    <3>2. sum[n] <= debt + L
      BY <1>2, <1>4, <2>3, <2>4
    <3> QED
      BY <1>7, <3>1, <3>2 DEF L
  <2> QED
    BY <2>6, <2>7
<1> QED
  BY <1>2, <1>11, <1>12

\* A packet more comes last.
LEMMA PacketsAppend ==
  ASSUME NEW s \in Seq(Packets), NEW p \in Packets
  PROVE  /\ Append(s, p) \in Seq(Packets) /\ Len(Append(s, p)) = Len(s) + 1
         /\ \A i \in 1 .. Len(s) : Append(s, p)[i] = s[i]
BY AppendElements

\* What the Unpackager holds, with the packet it handles next, is at most a frame and
\* one more for each fault there was: of a buffer of one frame an intact path never
\* writes past the end.
THEOREM CollectsAtMostFaults == Spec => []CollectsOneFramePerFault
<1>1. TypeOK /\ FaultsPay => CollectsOneFramePerFault
  <2> SUFFICES ASSUME TypeOK, FaultsPay PROVE CollectsOneFramePerFault
    OBVIOUS
  <2>1. PICK U, A, E, F :
          /\ U = unpackaged /\ A = LoadsOf(unpackaged) /\ F = dropped + lost + shuffled
          /\ E = LoadsOf(sendQueue) \o ToCome(fragmentQueue)
    OBVIOUS
  <2>2. /\ U \in Seq(Packets) /\ F \in Nat /\ \A i \in 1 .. Len(U) : ~U[i].marker
    <3>1. DOMAIN unpackaged = 1 .. Len(unpackaged) /\ unpackaged \in Seq(Packets)
      BY DEF TypeOK
    <3>2. \A i \in DOMAIN unpackaged : ~unpackaged[i].marker
      BY DEF TypeOK
    <3>3. F \in Nat
      BY <2>1 DEF TypeOK
    <3> QED
      BY <2>1, <3>1, <3>2, <3>3
  <2>3. /\ A \in Seq(Loads) /\ E \in Seq(Loads) /\ LoadsOf(network) \in Seq(Loads)
        /\ Paid(A \o (LoadsOf(network) \o E), F * LargestFrame)
    BY <2>1 DEF FaultsPay, Way
  <2>4. F * LargestFrame \in Nat /\ LargestFrame \in Nat
        /\ (F + 1) * LargestFrame = F * LargestFrame + LargestFrame
    BY <2>2, OneFrameMore
  <2>5. (1 + dropped + lost + shuffled) * LargestFrame = F * LargestFrame + LargestFrame
    <3>1. 1 + dropped + lost + shuffled = F + 1
      BY <2>1 DEF TypeOK
    <3> QED
      BY <2>4, <3>1
  <2>6. CASE network = <<>>
    <3>1. LoadsOf(network) \o E \in Seq(Loads)
      BY <2>3, Regrouped
    <3>2. Bytes(U) <= F * LargestFrame + LargestFrame
      <4>1. \A i \in 1 .. Len(U) - 1 : ~U[i].marker
        BY <2>2
      <4> QED
        BY <2>1, <2>2, <2>3, <2>4, <3>1, <4>1, FrontBytes
    <3>3. U \o <<>> = U
      BY <2>2, ConcatEmptySeq
    <3> QED
      BY <2>1, <2>5, <2>6, <3>2, <3>3 DEF CollectsOneFramePerFault
  <2>7. CASE network # <<>>
    <3>1. network \in Seq(Packets) /\ Head(network) \in Packets
      BY <2>7 DEF TypeOK
    <3>2. PICK h, x, B : h = Head(network) /\ x = Load(h) /\ B = LoadsOf(Tail(network))
      OBVIOUS
    <3>3. h \in Packets /\ x \in Loads /\ B \in Seq(Loads) /\ LoadsOf(network) = <<x>> \o B
      BY <2>3, <2>7, <3>1, <3>2, LoadsFirst
    <3>4. PICK V : /\ V = Append(U, h) /\ V = U \o <<h>> /\ V \in Seq(Packets)
                   /\ Len(V) = Len(U) + 1 /\ \A i \in 1 .. Len(U) : V[i] = U[i]
      <4>1. Append(U, h) = U \o <<h>>
        BY <2>2, <3>3, AppendIsConcat
      <4>2. /\ Append(U, h) \in Seq(Packets) /\ Len(Append(U, h)) = Len(U) + 1
            /\ \A i \in 1 .. Len(U) : Append(U, h)[i] = U[i]
        BY <2>2, <3>3, PacketsAppend
      <4> QED
        BY <4>1, <4>2
    <3>5. LoadsOf(V) = Append(A, x) /\ Append(A, x) \in Seq(Loads)
      BY <2>1, <2>2, <2>3, <3>2, <3>3, <3>4, LoadsAppend, AppendElements
    <3>6. B \o E \in Seq(Loads) /\ A \o ((<<x>> \o B) \o E) = Append(A, x) \o (B \o E)
      <4>1. <<x>> \in Seq(Loads) /\ B \o E \in Seq(Loads)
        BY <2>3, <3>3
      <4>2. (<<x>> \o B) \o E = <<x>> \o (B \o E)
        BY <2>3, <3>3, <4>1, Regrouped
      <4>3. Append(A, x) \o (B \o E) = A \o (<<x>> \o (B \o E))
        BY <2>3, <3>3, <4>1, LoadInBetween
      <4> QED
        BY <4>1, <4>2, <4>3
    <3>7. Paid(LoadsOf(V) \o (B \o E), F * LargestFrame)
      BY <2>3, <3>3, <3>5, <3>6
    <3>8. \A i \in 1 .. Len(V) - 1 : ~V[i].marker
      <4>1. Len(U) \in Nat
        BY <2>2
      <4> QED
        BY <2>2, <3>4, <4>1
    <3>9. Bytes(V) <= F * LargestFrame + LargestFrame
      BY <2>4, <3>4, <3>5, <3>6, <3>7, <3>8, FrontBytes
    <3>10. V = unpackaged \o <<Head(network)>>
      BY <2>1, <3>2, <3>4
    <3> QED
      BY <2>5, <2>7, <3>9, <3>10 DEF CollectsOneFramePerFault
  <2> QED
    BY <2>6, <2>7
<1> QED
  BY <1>1, TypeCorrect, MarkersPay, PTL
=============================================================================
