------------------------------- MODULE Pipeline -------------------------------
(***************************************************************************)
(* The media chain in the two programs whose main fits the library.  When  *)
(* the RTSP server streams: InputReader, DecoderWeb, Encoder, Packager;    *)
(* prototype4_rec_rtsp: RtspReader, Decoder, OutputWriter.  Each stage     *)
(* calls the next one, so one thread goes down the chain and back for each *)
(* packet.  Nobody looks at what the stages' init returned.  FFmpeg's      *)
(* codecs are external: they hold back some frames, may fail, and give out *)
(* what is ready in any order.  Memory does not run out.                   *)
(***************************************************************************)
EXTENDS Integers, FiniteSets

CONSTANTS
  DecoderDelay,   \* frames an open decoder may hold back
  EncoderDelay,   \* frames an open encoder may hold back: max_b_frames, lookahead
  MaxPackets,     \* bound: packets a source gives
  MaxStreams      \* bound: pipelines the server builds

ASSUME PipelineAssumption ==
  /\ {DecoderDelay, EncoderDelay, MaxPackets} \subseteq Nat
  /\ MaxStreams \in Nat \ {0}

VARIABLES
  program,     \* "stream" or "record"
  at,          \* what the thread does next
  streams,     \* pipelines built
  read,        \* packets read from the source
  decoder,     \* vDecoderContext_ and the frames the codec holds
  encoder,     \* vEncoderContext_, the frames the codec holds and those ready
  writer,      \* one, and whether output has a file
  frame,       \* the frame handed to the sink; 0 is a NULL frame
  unready,     \* history: the stages whose init left them without open codec
  video,       \* history: the video packets the decoder was given
  decoded,     \* history: the frames the decoder handed on
  errors,      \* history: the frames an open codec reported an error for
  delivered    \* history: the frames handed to Packager, or in the file

codecs == <<decoder, encoder, unready>>
history == <<video, decoded, errors, delivered>>
vars == <<program, at, streams, read, codecs, writer, frame, history>>

\* avcodec_find fails: no context.  avcodec_open2 fails: an unopened one.
Contexts == {"none", "unopened", "open"}

\* Frames and the packets they come from have the same number.
Frames == 1 .. MaxPackets

BugReaderFirst == "source"   \* reader->init before the codecs' init

\* The order of the calls in StartStreaming.
FirstInit == "encoder"

\* The recorder goes straight to the reader: its writer->init does nothing, and
\* one is not initialized.
Init ==
  /\ program \in {"stream", "record"}
  /\ at = IF program = "stream" THEN FirstInit ELSE "source"
  /\ streams = 1
  /\ read = 0 /\ frame = 0
  /\ decoder = [context |-> "none", held |-> {}]
  /\ encoder = [context |-> "none", held |-> {}, ready |-> {}]
  /\ writer \in [one : {0, 1}, file : {FALSE}]
  /\ unready = {} /\ video = {} /\ decoded = {} /\ errors = {} /\ delivered = {}

------------------------------------------------------------------------------
(* Starting *)

Unready(stage, context) == IF context = "open" THEN {} ELSE {stage}

EncoderInit ==
  /\ at = "encoder"
  /\ \E context \in Contexts :
       /\ encoder' = [encoder EXCEPT !.context = context]
       /\ unready' = unready \cup Unready("encoder", context)
  /\ at' = "decoder"
  /\ UNCHANGED <<program, streams, read, decoder, writer, frame, history>>

OpenDecoder ==
  /\ at = "decoder"
  /\ \E context \in Contexts :
       /\ decoder' = [decoder EXCEPT !.context = context]
       /\ unready' = unready \cup Unready("decoder", context)
  /\ UNCHANGED <<program, streams, read, encoder, writer, frame, history>>

DecoderWebInit == program = "stream" /\ OpenDecoder /\ at' = "source"

\* A source that cannot be opened or has no stream info is not read.
InputReaderInit ==
  /\ program = "stream" /\ at = "source"
  /\ at' \in {"reading", "ended"}
  /\ UNCHANGED <<program, streams, read, codecs, writer, frame, history>>

\* RtspReader also gives up without a video stream.  startReading first
\* initializes its sink with the stream's codec.
RtspReaderInit ==
  /\ program = "record" /\ at = "source"
  /\ at' \in {"decoder", "ended"}
  /\ UNCHANGED <<program, streams, read, codecs, writer, frame, history>>

\* A stream of unknown codec leaves no context, and init returns true.
DecoderInit == program = "record" /\ OpenDecoder /\ at' = "reading"

------------------------------------------------------------------------------
(* The readers *)

ReadVideo ==
  /\ at = "reading" /\ read < MaxPackets
  /\ read' = read + 1
  /\ video' = video \cup {read'}
  /\ at' = "decode"
  /\ UNCHANGED <<program, streams, codecs, writer, frame, decoded, errors, delivered>>

\* No audio decoder was asked for: its packets, and those of unknown type, end
\* in receivePacket.
ReadOther ==
  /\ at = "reading" /\ read < MaxPackets
  /\ read' = read + 1
  /\ UNCHANGED <<program, at, streams, codecs, writer, frame, history>>

\* av_read_frame fails.  Nobody flushes the codecs.
SourceEnds ==
  /\ at = "reading"
  /\ at' = "ended"
  /\ UNCHANGED <<program, streams, read, codecs, writer, frame, history>>

\* StreamingStarted is still set: the session's next tick builds new stages.
Restart ==
  /\ program = "stream" /\ at = "ended"
  /\ streams < MaxStreams
  /\ streams' = streams + 1
  /\ at' = FirstInit
  /\ read' = 0 /\ frame' = 0
  /\ decoder' = [context |-> "none", held |-> {}]
  /\ encoder' = [context |-> "none", held |-> {}, ready |-> {}]
  /\ unready' = {} /\ video' = {} /\ decoded' = {} /\ errors' = {} /\ delivered' = {}
  /\ UNCHANGED <<program, writer>>

------------------------------------------------------------------------------
(* Decoder and DecoderWeb: receivePacket *)

HandOn(f) ==
  /\ at' = "frame"
  /\ frame' = f
  /\ decoded' = decoded \cup ({f} \ {0})

\* avcodec_decode_video2 dereferences a NULL context.  For an unopened one it
\* crashes or fails, by its version, and need not write frameFinished, which
\* is uninitialized; vFrame_ was not allocated.
DecodeUnready ==
  /\ at = "decode" /\ decoder.context # "open"
  /\ \/ at' = "crashed" /\ UNCHANGED <<frame, decoded>>
     \/ /\ decoder.context = "unopened"
        /\ \/ at' = "reading" /\ UNCHANGED <<frame, decoded>>
           \/ HandOn(0)
  /\ UNCHANGED <<program, streams, read, codecs, writer, video, errors, delivered>>

BugPassedUnfinished == HandOn(0)   \* frameFinished is not looked at

NotFinished == at' = "reading" /\ UNCHANGED <<frame, decoded>>

DecodeHolds ==
  /\ at = "decode" /\ decoder.context = "open"
  /\ Cardinality(decoder.held) < DecoderDelay
  /\ decoder' = [decoder EXCEPT !.held = @ \cup {read}]
  /\ NotFinished
  /\ UNCHANGED <<program, streams, read, encoder, unready, writer, video, errors, delivered>>

DecodeFails ==
  /\ at = "decode" /\ decoder.context = "open"
  /\ errors' = errors \cup {read}
  /\ NotFinished
  /\ UNCHANGED <<program, streams, read, codecs, writer, video, delivered>>

DecodeFrame ==
  /\ at = "decode" /\ decoder.context = "open"
  /\ \E f \in decoder.held \cup {read} :
       /\ decoder' = [decoder EXCEPT !.held = (@ \cup {read}) \ {f}]
       /\ HandOn(f)
  /\ UNCHANGED <<program, streams, read, encoder, unready, writer, video, errors, delivered>>

------------------------------------------------------------------------------
(* Encoder: receiveFrame *)

\* avcodec_send_frame dereferences a NULL context and refuses an unopened one.
\* A NULL frame is dereferenced by the log if that is on; else it ends an open
\* encoder, which has had no frame before it.
EncodeUnready ==
  /\ program = "stream" /\ at = "frame"
  /\ encoder.context # "open" \/ frame = 0
  /\ \/ (encoder.context = "none" \/ frame = 0) /\ at' = "crashed"
     \/ encoder.context # "none" /\ at' = "reading"
  /\ UNCHANGED <<program, streams, read, codecs, writer, frame, history>>

Encoding == program = "stream" /\ encoder.context = "open" /\ frame # 0

\* EAGAIN: a codec whose packets were not all taken refuses the frame.
EncoderBusy ==
  /\ at = "frame" /\ Encoding /\ encoder.ready # {}
  /\ at' = "reading"
  /\ UNCHANGED <<program, streams, read, codecs, writer, frame, history>>

SendFails ==
  /\ at = "frame" /\ Encoding /\ encoder.ready = {}
  /\ errors' = errors \cup {frame}
  /\ at' = "reading"
  /\ UNCHANGED <<program, streams, read, codecs, writer, frame, video, decoded, delivered>>

SendFrame ==
  /\ at = "frame" /\ Encoding /\ encoder.ready = {}
  /\ \E held \in SUBSET (encoder.held \cup {frame}) :
       /\ Cardinality(held) <= EncoderDelay
       /\ encoder' = [encoder EXCEPT !.held = held,
                                     !.ready = (encoder.held \cup {frame}) \ held]
  /\ at' = "drain"
  /\ UNCHANGED <<program, streams, read, decoder, unready, writer, frame, history>>

BugTakesOne == "reading"   \* one avcodec_receive_packet for each frame

AfterPacket == "drain"

ReceivePacket ==
  /\ at = "drain"
  /\ \E f \in encoder.ready :
       /\ encoder' = [encoder EXCEPT !.ready = @ \ {f}]
       /\ delivered' = delivered \cup {f}
  /\ at' = AfterPacket
  /\ UNCHANGED <<program, streams, read, decoder, unready, writer, frame,
                 video, decoded, errors>>

\* An error ends the loop; what else is ready stays in the encoder.
EncodeFails ==
  /\ at = "drain"
  /\ \E f \in encoder.ready :
       /\ encoder' = [encoder EXCEPT !.ready = @ \ {f}]
       /\ errors' = errors \cup {f}
  /\ at' = "reading"
  /\ UNCHANGED <<program, streams, read, decoder, unready, writer, frame,
                 video, decoded, delivered>>

EncoderDrained ==
  /\ at = "drain" /\ encoder.ready = {}
  /\ at' = "reading"
  /\ UNCHANGED <<program, streams, read, codecs, writer, frame, history>>

------------------------------------------------------------------------------
(* OutputWriter: receiveFrame *)

WriterCrashes ==
  /\ program = "record" /\ at = "frame" /\ frame = 0
  /\ at' = "crashed"
  /\ UNCHANGED <<program, streams, read, codecs, writer, frame, history>>

BugStaysZero(one) == one   \* one++ is missing

BugCountsFrames(one) == one + 1   \* one++ behind the if, not in it

AfterFrame(one) == IF one = 0 THEN one + 1 ELSE one

\* The file, opened with the first frame if one says so, starts empty.
WriteFirst ==
  /\ program = "record" /\ at = "frame" /\ frame # 0
  /\ writer.one = 0
  /\ \E opened \in BOOLEAN :
       /\ writer' = [one |-> AfterFrame(writer.one), file |-> opened]
       /\ delivered' = IF opened THEN {frame} ELSE {}
  /\ at' = "reading"
  /\ UNCHANGED <<program, streams, read, codecs, frame, video, decoded, errors>>

\* Writing to a VideoWriter without a file does nothing.
WriteNext ==
  /\ program = "record" /\ at = "frame" /\ frame # 0
  /\ writer.one # 0
  /\ writer' = [writer EXCEPT !.one = AfterFrame(@)]
  /\ delivered' = IF writer.file THEN delivered \cup {frame} ELSE delivered
  /\ at' = "reading"
  /\ UNCHANGED <<program, streams, read, codecs, frame, video, decoded, errors>>

------------------------------------------------------------------------------
Next ==
  \/ EncoderInit \/ DecoderWebInit \/ InputReaderInit
  \/ RtspReaderInit \/ DecoderInit
  \/ ReadVideo \/ ReadOther \/ SourceEnds \/ Restart
  \/ DecodeUnready \/ DecodeHolds \/ DecodeFails \/ DecodeFrame
  \/ EncodeUnready \/ SendFails \/ EncoderBusy \/ SendFrame
  \/ ReceivePacket \/ EncodeFails \/ EncoderDrained
  \/ WriterCrashes \/ WriteFirst \/ WriteNext

Spec == Init /\ [][Next]_vars

------------------------------------------------------------------------------
(* Properties *)

\* Every variable holds a value of the program's, and a stage holds frames only
\* while its codec is open.
TypeOK ==
  /\ program \in {"stream", "record"}
  /\ at \in {"encoder", "decoder", "source", "reading", "decode", "frame",
             "drain", "ended", "crashed"}
  /\ streams \in 1 .. MaxStreams
  /\ read \in 0 .. MaxPackets /\ frame \in 0 .. MaxPackets
  /\ decoder \in [context : Contexts, held : SUBSET Frames]
  /\ encoder \in [context : Contexts, held : SUBSET Frames, ready : SUBSET Frames]
  /\ decoder.held # {} => decoder.context = "open"
  /\ encoder.held \cup encoder.ready # {} => encoder.context = "open"
  /\ writer \in [one : {0, 1}, file : BOOLEAN]
  /\ unready \subseteq {"encoder", "decoder"}
  /\ {video, decoded, errors, delivered} \subseteq SUBSET Frames

\* Though no stage tests what it was given, the process crashes only if the init
\* of a codec did not open it: no frame reaches a stage before its init, and no
\* open decoder hands on a frame without a picture.
CrashNeedsFailedInit == at = "crashed" => unready # {}

Delay ==
  IF program = "stream" THEN DecoderDelay + EncoderDelay ELSE DecoderDelay

\* While no codec reports an error, all the video that was read is sent, or in
\* the file, but for what the codecs hold back: that much and no more is lost
\* when the source ends, as nobody flushes them.
AtMostDelayLost ==
  (/\ at \in {"reading", "ended"}
   /\ unready = {} /\ errors = {}
   /\ program = "stream" \/ writer.file)
  => Cardinality(video \ delivered) <= Delay

\* The recording has every frame the decoder gave out, or none: the file is not
\* opened late, and not again.
RecordsAllOrNothing ==
  program = "record" /\ at \in {"reading", "ended"} =>
    delivered \in {{}, decoded}
=============================================================================
