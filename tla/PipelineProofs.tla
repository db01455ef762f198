---------------------------- MODULE PipelineProofs ----------------------------
(***************************************************************************)
(* Theorems about the media chain for every delay of the codecs and every  *)
(* number of packets and pipelines.                                        *)
(***************************************************************************)
EXTENDS Pipeline, FiniteSetTheorems, TLAPS

------------------------------------------------------------------------------
(* The inductive invariant.                                                *)

Running == {"reading", "decode", "frame", "drain"}

\* No frame is in a codec before the reader reads, so init may replace it.
StartsEmpty ==
  at \in {"encoder", "decoder", "source"} =>
    decoder.held = {} /\ encoder.held = {} /\ encoder.ready = {}

\* A packet is decoded once it was read, and only the stream encodes.
Located ==
  /\ at = "decode" => read # 0
  /\ at = "drain" => program = "stream"

TypeInv == TypeOK /\ StartsEmpty /\ Located

\* A codec that is to be used and is not open was left so by its init.
InitIsRemembered ==
  /\ at \in Running \/ (program = "stream" /\ at = "source") =>
       decoder.context = "open" \/ "decoder" \in unready
  /\ program = "stream" /\ at \in Running \cup {"decoder", "source"} =>
       encoder.context = "open" \/ "encoder" \in unready

NullNeedsFailedInit == at = "frame" /\ frame = 0 => "decoder" \in unready

\* The frame under way from the decoder to its sink.
Pending == IF at = "frame" THEN {frame} \ {0} ELSE {}

\* What one, the file and what is in it tell about each other.
WriterFollows ==
  program = "record" =>
    \/ writer.one = 0 /\ ~writer.file /\ delivered = {} /\ decoded = Pending
    \/ writer.one = 1 /\ writer.file /\ decoded = delivered \cup Pending
    \/ writer.one = 1 /\ ~writer.file /\ delivered = {}

Packet == IF at = "decode" THEN {read} ELSE {}

DelaysKept ==
  /\ Cardinality(decoder.held) <= DecoderDelay
  /\ Cardinality(encoder.held) <= EncoderDelay

Healthy == unready = {} /\ errors = {}

\* Without errors, what went into a codec is still in it or came out, and the
\* encoder was drained before the next frame comes.
NothingVanishes ==
  Healthy =>
    /\ video \subseteq decoded \cup decoder.held \cup Packet
    /\ program = "stream" =>
         decoded \subseteq delivered \cup encoder.held \cup encoder.ready \cup Pending
    /\ at # "drain" => encoder.ready = {}

IInv ==
  /\ TypeInv
  /\ InitIsRemembered /\ NullNeedsFailedInit /\ CrashNeedsFailedInit
  /\ WriterFollows
  /\ DelaysKept
  /\ NothingVanishes
------------------------------------------------------------------------------
(* Cardinalities.                                                          *)

LEMMA FramesFinite ==
  ASSUME NEW S \in SUBSET Frames
  PROVE  IsFiniteSet(S) /\ Cardinality(S) \in Nat
<1>1. MaxPackets \in Nat /\ 1 \in Int /\ MaxPackets \in Int
  BY PipelineAssumption
<1>2. IsFiniteSet(1 .. MaxPackets)
  BY <1>1, FS_Interval
<1>3. IsFiniteSet(S)
  BY <1>2, FS_Subset DEF Frames
<1> QED
  BY <1>3, FS_CardinalityType

\* A codec that takes a frame and gives one out holds no more than before.
LEMMA Exchange ==
  ASSUME NEW S \in SUBSET Frames, NEW x \in Frames, NEW f \in S \cup {x}
  PROVE  Cardinality((S \cup {x}) \ {f}) <= Cardinality(S)
<1>1. IsFiniteSet(S) /\ Cardinality(S) \in Nat
  BY FramesFinite
<1>2. /\ IsFiniteSet(S \cup {x})
      /\ Cardinality(S \cup {x}) = IF x \in S THEN Cardinality(S) ELSE Cardinality(S) + 1
  BY <1>1, FS_AddElement
<1>3. /\ IsFiniteSet((S \cup {x}) \ {f})
      /\ Cardinality((S \cup {x}) \ {f}) = Cardinality(S \cup {x}) - 1
  BY <1>2, FS_RemoveElement
<1> QED
  BY <1>1, <1>2, <1>3

\* A codec that takes a frame and gives none holds at most one more.
LEMMA Insertion ==
  ASSUME NEW S \in SUBSET Frames, NEW x \in Frames
  PROVE  Cardinality(S \cup {x}) <= Cardinality(S) + 1
  BY FramesFinite, FS_AddElement

\* What lies in two codecs is no more than what each holds.
LEMMA Together ==
  ASSUME NEW S \in SUBSET Frames, NEW T \in SUBSET Frames,
         NEW U \in SUBSET (S \cup T)
  PROVE  Cardinality(U) <= Cardinality(S) + Cardinality(T)
<1>1. /\ IsFiniteSet(S) /\ IsFiniteSet(T) /\ IsFiniteSet(S \cap T)
      /\ Cardinality(S) \in Nat /\ Cardinality(T) \in Nat
      /\ Cardinality(S \cap T) \in Nat
  BY FramesFinite
<1>2. /\ IsFiniteSet(S \cup T)
      /\ Cardinality(S \cup T) = Cardinality(S) + Cardinality(T) - Cardinality(S \cap T)
  BY <1>1, FS_Union
<1>3. Cardinality(U) <= Cardinality(S \cup T)
  BY <1>2, FS_Subset
<1>4. Cardinality(U) \in Nat /\ Cardinality(S \cup T) \in Nat
  BY FramesFinite
<1> QED
  BY <1>1, <1>2, <1>3, <1>4

------------------------------------------------------------------------------
(* Type correctness.                                                       *)

LEMMA InitTypeInv == Init => TypeInv
<1> SUFFICES ASSUME Init PROVE TypeInv
  OBVIOUS
<1>1. writer \in [one : {0, 1}, file : BOOLEAN]
  <2>1. PICK b \in {0, 1} : writer = [one |-> b, file |-> FALSE]
    BY Zenon DEF Init
  <2> QED
    BY <2>1, Zenon
<1>2. decoder \in [context : Contexts, held : SUBSET Frames]
  BY DEF Init, Contexts
<1>3. encoder \in [context : Contexts, held : SUBSET Frames, ready : SUBSET Frames]
  BY DEF Init, Contexts
<1>4. /\ at \in {"encoder", "source"}
      /\ streams \in 1 .. MaxStreams /\ read \in 0 .. MaxPackets /\ frame \in 0 .. MaxPackets
  BY PipelineAssumption DEF Init, FirstInit
<1>5. decoder.held = {} /\ encoder.held = {} /\ encoder.ready = {}
  BY DEF Init
<1> QED
  BY <1>1, <1>2, <1>3, <1>4, <1>5 DEF Init, TypeInv, TypeOK, StartsEmpty, Located

LEMMA StartTypeInv ==
  TypeInv /\ (EncoderInit \/ DecoderWebInit \/ InputReaderInit
             \/ RtspReaderInit \/ DecoderInit) => TypeInv'
<1> USE DEF TypeInv, TypeOK, StartsEmpty, Located, history, codecs
<1>1. TypeInv /\ EncoderInit => TypeInv'
  BY DEF EncoderInit, Unready, Contexts
<1>2. TypeInv /\ DecoderWebInit => TypeInv'
  BY DEF DecoderWebInit, OpenDecoder, Unready, Contexts
<1>3. TypeInv /\ InputReaderInit => TypeInv'
  BY DEF InputReaderInit
<1>4. TypeInv /\ RtspReaderInit => TypeInv'
  BY DEF RtspReaderInit
<1>5. TypeInv /\ DecoderInit => TypeInv'
  BY DEF DecoderInit, OpenDecoder, Unready, Contexts
<1> QED
  BY <1>1, <1>2, <1>3, <1>4, <1>5

LEMMA ReadTypeInv ==
  TypeInv /\ (ReadVideo \/ ReadOther \/ SourceEnds \/ Restart) => TypeInv'
<1> USE PipelineAssumption DEF TypeInv, TypeOK, StartsEmpty, Located, history, codecs, Frames
<1>1. TypeInv /\ ReadVideo => TypeInv'
  BY DEF ReadVideo
<1>2. TypeInv /\ ReadOther => TypeInv'
  BY DEF ReadOther
<1>3. TypeInv /\ SourceEnds => TypeInv'
  BY DEF SourceEnds
<1>4. TypeInv /\ Restart => TypeInv'
  BY DEF Restart, FirstInit, Contexts
<1> QED
  BY <1>1, <1>2, <1>3, <1>4

LEMMA DecodeTypeInv ==
  TypeInv /\ (DecodeUnready \/ DecodeHolds \/ DecodeFails \/ DecodeFrame) => TypeInv'
<1> USE PipelineAssumption DEF TypeInv, TypeOK, StartsEmpty, Located, history, codecs, Frames
<1>1. TypeInv /\ DecodeUnready => TypeInv'
  BY DEF DecodeUnready, HandOn
<1>2. TypeInv /\ DecodeHolds => TypeInv'
  BY DEF DecodeHolds, NotFinished
<1>3. TypeInv /\ DecodeFails => TypeInv'
  BY DEF DecodeFails, NotFinished
<1>4. TypeInv /\ DecodeFrame => TypeInv'
  BY DEF DecodeFrame, HandOn
<1> QED
  BY <1>1, <1>2, <1>3, <1>4

LEMMA EncodeTypeInv ==
  TypeInv /\ (EncodeUnready \/ EncoderBusy \/ SendFails \/ SendFrame \/ ReceivePacket
              \/ EncodeFails \/ EncoderDrained) => TypeInv'
<1> USE DEF TypeInv, TypeOK, StartsEmpty, Located, history, codecs, Frames, Encoding
<1>1. TypeInv /\ EncodeUnready => TypeInv'
  BY DEF EncodeUnready
<1>2. TypeInv /\ EncoderBusy => TypeInv'
  BY DEF EncoderBusy
<1>3. TypeInv /\ SendFails => TypeInv'
  BY DEF SendFails
<1>4. ASSUME TypeInv, SendFrame PROVE TypeInv'
  <2>1. frame \in Frames
    BY <1>4 DEF SendFrame
  <2>2. PICK held \in SUBSET (encoder.held \cup {frame}) :
          encoder' = [encoder EXCEPT !.held = held,
                                     !.ready = (encoder.held \cup {frame}) \ held]
    BY <1>4 DEF SendFrame
  <2>3. /\ encoder' \in [context : Contexts, held : SUBSET Frames, ready : SUBSET Frames]
        /\ encoder'.context = "open"
    BY <1>4, <2>1, <2>2 DEF SendFrame
  <2> QED
    BY <1>4, <2>3 DEF SendFrame
<1>5. TypeInv /\ ReceivePacket => TypeInv'
  BY DEF ReceivePacket, AfterPacket
<1>6. TypeInv /\ EncodeFails => TypeInv'
  BY DEF EncodeFails
<1>7. TypeInv /\ EncoderDrained => TypeInv'
  BY DEF EncoderDrained
<1> QED
  BY <1>1, <1>2, <1>3, <1>4, <1>5, <1>6, <1>7

LEMMA WriteTypeInv ==
  TypeInv /\ (WriterCrashes \/ WriteFirst \/ WriteNext) => TypeInv'
<1> USE DEF TypeInv, TypeOK, StartsEmpty, Located, history, codecs, Frames
<1>1. TypeInv /\ WriterCrashes => TypeInv'
  BY DEF WriterCrashes
<1>2. TypeInv /\ WriteFirst => TypeInv'
  BY DEF WriteFirst, AfterFrame
<1>3. TypeInv /\ WriteNext => TypeInv'
  BY DEF WriteNext, AfterFrame
<1> QED
  BY <1>1, <1>2, <1>3

LEMMA StepTypeInv == TypeInv /\ [Next]_vars => TypeInv'
<1>1. TypeInv /\ UNCHANGED vars => TypeInv'
  BY DEF TypeInv, TypeOK, StartsEmpty, Located, vars, codecs, history
<1> QED
  BY <1>1, StartTypeInv, ReadTypeInv, DecodeTypeInv, EncodeTypeInv, WriteTypeInv DEF Next

------------------------------------------------------------------------------
(* The crash.                                                              *)

CrashInv == InitIsRemembered /\ NullNeedsFailedInit /\ CrashNeedsFailedInit

LEMMA InitCrashInv == Init => CrashInv
  BY DEF Init, FirstInit, CrashInv, InitIsRemembered, NullNeedsFailedInit,
         CrashNeedsFailedInit, Running

LEMMA StepCrashInv == TypeInv /\ CrashInv /\ [Next]_vars => CrashInv'
<1> SUFFICES ASSUME TypeInv, CrashInv, [Next]_vars PROVE CrashInv'
  OBVIOUS
<1> USE DEF TypeInv, TypeOK, Located, CrashInv, InitIsRemembered, NullNeedsFailedInit,
            CrashNeedsFailedInit, Running, history, codecs
<1>1. CASE EncoderInit
  BY <1>1 DEF EncoderInit, Unready
<1>2. CASE DecoderWebInit \/ DecoderInit
  BY <1>2 DEF DecoderWebInit, DecoderInit, OpenDecoder, Unready
<1>3. CASE InputReaderInit \/ RtspReaderInit
  BY <1>3 DEF InputReaderInit, RtspReaderInit
<1>4. CASE ReadVideo \/ ReadOther \/ SourceEnds
  BY <1>4 DEF ReadVideo, ReadOther, SourceEnds
<1>5. CASE Restart
  BY <1>5 DEF Restart, FirstInit
<1>6. CASE DecodeUnready
  BY <1>6 DEF DecodeUnready, HandOn
<1>7. CASE DecodeHolds \/ DecodeFails
  BY <1>7 DEF DecodeHolds, DecodeFails, NotFinished
<1>8. CASE DecodeFrame
  BY <1>8, PipelineAssumption DEF DecodeFrame, HandOn, Frames
<1>9. CASE EncodeUnready
  BY <1>9 DEF EncodeUnready
<1>10. CASE SendFails \/ EncoderBusy \/ SendFrame
  BY <1>10 DEF SendFails, EncoderBusy, SendFrame
<1>11. CASE ReceivePacket \/ EncodeFails \/ EncoderDrained
  BY <1>11 DEF ReceivePacket, AfterPacket, EncodeFails, EncoderDrained
<1>12. CASE WriterCrashes
  BY <1>12 DEF WriterCrashes
<1>13. CASE WriteFirst \/ WriteNext
  BY <1>13 DEF WriteFirst, WriteNext
<1>14. CASE UNCHANGED vars
  BY <1>14 DEF vars
<1> QED
  BY <1>1, <1>2, <1>3, <1>4, <1>5, <1>6, <1>7, <1>8, <1>9, <1>10, <1>11, <1>12,
     <1>13, <1>14 DEF Next

------------------------------------------------------------------------------
(* The recording.                                                          *)

LEMMA InitWriterFollows == Init => WriterFollows
  BY DEF Init, FirstInit, WriterFollows, Pending

LEMMA StepWriterFollows == TypeInv /\ WriterFollows /\ [Next]_vars => WriterFollows'
<1> SUFFICES ASSUME TypeInv, WriterFollows, [Next]_vars PROVE WriterFollows'
  OBVIOUS
<1> USE DEF TypeInv, TypeOK, Located, WriterFollows, Pending, history, codecs
<1>1. CASE EncoderInit
  BY <1>1 DEF EncoderInit
<1>2. CASE DecoderWebInit \/ DecoderInit
  BY <1>2 DEF DecoderWebInit, DecoderInit, OpenDecoder
<1>3. CASE InputReaderInit \/ RtspReaderInit
  BY <1>3 DEF InputReaderInit, RtspReaderInit
<1>4. CASE ReadVideo \/ ReadOther \/ SourceEnds
  BY <1>4 DEF ReadVideo, ReadOther, SourceEnds
<1>5. CASE Restart
  BY <1>5 DEF Restart
<1>6. CASE DecodeUnready
  BY <1>6 DEF DecodeUnready, HandOn
<1>7. CASE DecodeHolds \/ DecodeFails
  BY <1>7 DEF DecodeHolds, DecodeFails, NotFinished
<1>8. CASE DecodeFrame
  BY <1>8 DEF DecodeFrame, HandOn
<1>9. CASE EncodeUnready \/ SendFails \/ EncoderBusy \/ SendFrame
  BY <1>9 DEF EncodeUnready, SendFails, EncoderBusy, SendFrame, Encoding
<1>10. CASE ReceivePacket \/ EncodeFails \/ EncoderDrained
  BY <1>10 DEF ReceivePacket, EncodeFails, EncoderDrained
<1>11. CASE WriterCrashes
  BY <1>11 DEF WriterCrashes
<1>12. CASE WriteFirst
  BY <1>12 DEF WriteFirst, AfterFrame
<1>13. CASE WriteNext
  BY <1>13 DEF WriteNext, AfterFrame
<1>14. CASE UNCHANGED vars
  BY <1>14 DEF vars
<1> QED
  BY <1>1, <1>2, <1>3, <1>4, <1>5, <1>6, <1>7, <1>8, <1>9, <1>10, <1>11, <1>12,
     <1>13, <1>14 DEF Next

------------------------------------------------------------------------------
(* What the codecs hold back.                                              *)

LEMMA InitDelaysKept == Init => DelaysKept
  BY FS_EmptySet, PipelineAssumption DEF Init, DelaysKept

LEMMA StepDelaysKept == TypeInv /\ DelaysKept /\ [Next]_vars => DelaysKept'
<1> SUFFICES ASSUME TypeInv, DelaysKept, [Next]_vars PROVE DelaysKept'
  OBVIOUS
<1> USE DEF DelaysKept, codecs
<1>1. CASE EncoderInit \/ DecoderWebInit \/ DecoderInit
  <2>1. decoder'.held = decoder.held /\ encoder'.held = encoder.held
    BY <1>1 DEF EncoderInit, DecoderWebInit, DecoderInit, OpenDecoder, TypeInv, TypeOK
  <2> QED
    BY <2>1
<1>2. CASE InputReaderInit \/ RtspReaderInit \/ ReadVideo \/ ReadOther \/ SourceEnds
  BY <1>2 DEF InputReaderInit, RtspReaderInit, ReadVideo, ReadOther, SourceEnds
<1>3. CASE Restart
  BY <1>3, FS_EmptySet, PipelineAssumption DEF Restart
<1>4. CASE DecodeUnready \/ DecodeFails
  BY <1>4 DEF DecodeUnready, DecodeFails
<1>5. ASSUME at = "decode", TypeInv
      PROVE  /\ decoder.held \in SUBSET Frames /\ read \in Frames
             /\ Cardinality(decoder.held) \in Nat
  <2>1. decoder.held \in SUBSET Frames /\ read \in Frames
    BY <1>5, PipelineAssumption DEF TypeInv, TypeOK, Located, Frames
  <2> QED
    BY <2>1, FramesFinite
<1>6. CASE DecodeHolds
  <2>1. decoder'.held = decoder.held \cup {read} /\ encoder' = encoder
    BY <1>6 DEF DecodeHolds, TypeInv, TypeOK
  <2>2. Cardinality(decoder'.held) <= Cardinality(decoder.held) + 1
    BY <1>5, <1>6, <2>1, Insertion DEF DecodeHolds
  <2>3. Cardinality(decoder'.held) \in Nat
    BY <1>5, <1>6, <2>1, FramesFinite DEF DecodeHolds
  <2> QED
    BY <1>5, <1>6, <2>1, <2>2, <2>3, PipelineAssumption DEF DecodeHolds
<1>7. CASE DecodeFrame
  <2>1. PICK f \in decoder.held \cup {read} :
          decoder' = [decoder EXCEPT !.held = (@ \cup {read}) \ {f}]
    BY <1>7 DEF DecodeFrame
  <2>2. decoder'.held = (decoder.held \cup {read}) \ {f} /\ encoder' = encoder
    BY <1>7, <2>1 DEF DecodeFrame, TypeInv, TypeOK
  <2>3. Cardinality(decoder'.held) <= Cardinality(decoder.held)
    BY <1>5, <1>7, <2>2, Exchange DEF DecodeFrame
  <2>4. Cardinality(decoder'.held) \in Nat
    BY <1>5, <1>7, <2>2, FramesFinite DEF DecodeFrame
  <2> QED
    BY <1>5, <1>7, <2>2, <2>3, <2>4, PipelineAssumption DEF DecodeFrame
<1>8. CASE EncodeUnready \/ EncoderBusy \/ SendFails \/ EncoderDrained
  BY <1>8 DEF EncodeUnready, EncoderBusy, SendFails, EncoderDrained
<1>9. CASE SendFrame
  <2>1. PICK held \in SUBSET (encoder.held \cup {frame}) :
          /\ Cardinality(held) <= EncoderDelay
          /\ encoder' = [encoder EXCEPT !.held = held,
                                        !.ready = (encoder.held \cup {frame}) \ held]
    BY <1>9 DEF SendFrame
  <2>2. encoder'.held = held /\ decoder' = decoder
    BY <1>9, <2>1 DEF SendFrame, TypeInv, TypeOK
  <2> QED
    BY <2>1, <2>2
<1>10. CASE ReceivePacket \/ EncodeFails
  <2>1. encoder'.held = encoder.held /\ decoder' = decoder
    BY <1>10 DEF ReceivePacket, EncodeFails, TypeInv, TypeOK
  <2> QED
    BY <2>1
<1>11. CASE WriterCrashes \/ WriteFirst \/ WriteNext
  BY <1>11 DEF WriterCrashes, WriteFirst, WriteNext
<1>12. CASE UNCHANGED vars
  BY <1>12 DEF vars
<1> QED
  BY <1>1, <1>2, <1>3, <1>4, <1>6, <1>7, <1>8, <1>9, <1>10, <1>11, <1>12 DEF Next

------------------------------------------------------------------------------
(* Where the frames are.                                                   *)

LEMMA InitNothingVanishes == Init => NothingVanishes
  BY DEF Init, NothingVanishes

LEMMA StepNothingVanishes ==
  TypeInv /\ CrashInv /\ NothingVanishes /\ [Next]_vars => NothingVanishes'
<1> SUFFICES ASSUME TypeInv, CrashInv, NothingVanishes, [Next]_vars
             PROVE  NothingVanishes'
  OBVIOUS
<1> USE DEF TypeInv, TypeOK, StartsEmpty, Located, NothingVanishes, Healthy, Packet,
            Pending, history, codecs
<1>1. CASE EncoderInit \/ DecoderWebInit \/ DecoderInit
  BY <1>1 DEF EncoderInit, DecoderWebInit, DecoderInit, OpenDecoder, Unready
<1>2. CASE InputReaderInit \/ RtspReaderInit
  BY <1>2 DEF InputReaderInit, RtspReaderInit
<1>3. CASE ReadVideo
  BY <1>3 DEF ReadVideo
<1>4. CASE ReadOther \/ SourceEnds
  BY <1>4 DEF ReadOther, SourceEnds
<1>5. CASE Restart
  BY <1>5 DEF Restart, FirstInit
<1>6. CASE DecodeUnready
  BY <1>6 DEF DecodeUnready, CrashInv, InitIsRemembered, Running
<1>7. CASE DecodeHolds
  BY <1>7 DEF DecodeHolds, NotFinished
<1>8. CASE DecodeFails
  BY <1>8 DEF DecodeFails
<1>9. CASE DecodeFrame
  BY <1>9, PipelineAssumption DEF DecodeFrame, HandOn, Frames
<1>10. CASE EncodeUnready
  BY <1>10 DEF EncodeUnready, CrashInv, InitIsRemembered, NullNeedsFailedInit, Running
<1>11. CASE EncoderBusy \/ SendFails
  BY <1>11 DEF EncoderBusy, SendFails
<1>12. CASE SendFrame
  BY <1>12 DEF SendFrame, Encoding
<1>13. CASE ReceivePacket
  BY <1>13 DEF ReceivePacket, AfterPacket
<1>14. CASE EncodeFails
  BY <1>14 DEF EncodeFails
<1>15. CASE EncoderDrained
  BY <1>15 DEF EncoderDrained
<1>16. CASE WriterCrashes
  BY <1>16 DEF WriterCrashes
<1>17. CASE WriteFirst \/ WriteNext
  BY <1>17 DEF WriteFirst, WriteNext
<1>18. CASE UNCHANGED vars
  BY <1>18 DEF vars
<1> QED
  BY <1>1, <1>2, <1>3, <1>4, <1>5, <1>6, <1>7, <1>8, <1>9, <1>10, <1>11, <1>12,
     <1>13, <1>14, <1>15, <1>16, <1>17, <1>18 DEF Next

------------------------------------------------------------------------------
(* The theorems.                                                           *)

LEMMA Inductive == Spec => []IInv
<1>1. Init => IInv
  BY InitTypeInv, InitCrashInv, InitWriterFollows, InitDelaysKept, InitNothingVanishes
  DEF IInv, CrashInv
<1>2. IInv /\ [Next]_vars => IInv'
  BY StepTypeInv, StepCrashInv, StepWriterFollows, StepDelaysKept, StepNothingVanishes
  DEF IInv, CrashInv
<1> QED
  BY <1>1, <1>2, PTL DEF Spec

\* The variables of the chain keep their types.
THEOREM TypeCorrect == Spec => []TypeOK
<1>1. IInv => TypeOK
  BY DEF IInv, TypeInv
<1> QED
  BY <1>1, Inductive, PTL

\* The process crashes only after the init of a codec that did not open it,
\* whatever the codecs do and though no stage tests what it is given.
THEOREM CrashesOnlyUnready == Spec => []CrashNeedsFailedInit
<1>1. IInv => CrashNeedsFailedInit
  BY DEF IInv
<1> QED
  BY <1>1, Inductive, PTL

\* A recording has every decoded frame or none.
THEOREM RecordsAllOrNone == Spec => []RecordsAllOrNothing
<1>1. IInv => RecordsAllOrNothing
  BY DEF IInv, WriterFollows, Pending, RecordsAllOrNothing
<1> QED
  BY <1>1, Inductive, PTL

\* Without errors only what the codecs hold back is missing at the end.
THEOREM LosesOnlyTheDelay == Spec => []AtMostDelayLost
<1>1. ASSUME IInv, at \in {"reading", "ended"}, Healthy,
             program = "stream" \/ writer.file
      PROVE  Cardinality(video \ delivered) <= Delay
  <2>1. /\ decoder.held \in SUBSET Frames /\ encoder.held \in SUBSET Frames
        /\ video \in SUBSET Frames
    BY <1>1 DEF IInv, TypeInv, TypeOK
  <2>2. /\ Cardinality(decoder.held) \in Nat /\ Cardinality(encoder.held) \in Nat
        /\ IsFiniteSet(decoder.held) /\ Cardinality(video \ delivered) \in Nat
    BY <2>1, FramesFinite
  <2>3. video \subseteq decoded \cup decoder.held
    BY <1>1 DEF IInv, NothingVanishes, Packet
  <2>4. CASE program = "stream"
    <3>1. decoded \subseteq delivered \cup encoder.held
      BY <1>1, <2>4 DEF IInv, NothingVanishes, Pending
    <3>2. video \ delivered \in SUBSET (decoder.held \cup encoder.held)
      BY <2>3, <3>1
    <3>3. Cardinality(video \ delivered)
            <= Cardinality(decoder.held) + Cardinality(encoder.held)
      BY <2>1, <3>2, Together
    <3> QED
      BY <1>1, <2>2, <2>4, <3>3, PipelineAssumption DEF IInv, DelaysKept, Delay
  <2>5. CASE program = "record"
    <3>1. decoded = delivered
      BY <1>1, <2>5 DEF IInv, WriterFollows, Pending
    <3>2. video \ delivered \in SUBSET decoder.held
      BY <2>3, <3>1
    <3>3. Cardinality(video \ delivered) <= Cardinality(decoder.held)
      BY <2>2, <3>2, FS_Subset
    <3> QED
      BY <1>1, <2>2, <2>5, <3>3, PipelineAssumption DEF IInv, DelaysKept, Delay
  <2> QED
    BY <1>1, <2>4, <2>5 DEF IInv, TypeInv, TypeOK
<1>2. IInv => AtMostDelayLost
  BY <1>1 DEF AtMostDelayLost, Healthy
<1> QED
  BY <1>2, Inductive, PTL
=============================================================================
