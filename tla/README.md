# Verification of payloader

payloader is a set of C++ programs that read video (a file, a camera, an RTSP
source), transcode it with FFmpeg, cut it into RTP packets and send them over
UDP, or do the reverse. `prototype4_send_rtsp` is an RTSP server that streams
the machine's camera. This directory holds TLA+ models of the parts of it that
have state, threads or a protocol, the TLC runs that check them and the TLAPS
proofs about them. Paths below are relative to `src/src/libs/`.

## The system

| Part | State | Operations | Talks to |
|---|---|---|---|
| Events (`pevents.cpp`) | per event: mutex, condition variable, `State`, deque of registered waits; per wait: a reference counted record | `CreateEvent`, `SetEvent`, `ResetEvent`, `WaitForEvent`, `WaitForMultipleEvents`, `DestroyEvent` | called by the session's three threads |
| RTSP session (`TcpServer.cpp`, `TcpConnection.cpp`) | per client: two events, `StreamingStarted`, the parsed request, the last command type | session thread, watcher of the socket, timer; parser and five handlers | client by TCP; Events; Streamer |
| Accept loop (`TcpServer::start_accept`) | one `ClientSocket` | accept, start a session thread | RTSP session |
| Streamer (`Streamer.cpp`) | sockets and ports | `InitTransport`, `StartStreaming` | called by the session; builds the pipeline |
| Media chain (`InputReader`, `RtspReader`, `Decoder`, `DecoderWeb`, `Encoder`, `OutputWriter`) | FFmpeg contexts | one synchronous call per frame | next stage |
| `Packager`, `rtp/RtpFragmenter` | sequence number, fragments of the frame at hand | `receivePacket` | Sender |
| Sender (`Sender.cpp`) | queue of at most 1000 packets, `sending_`, a thread | `init`, `receiveRtpPacket`, `sendLoop`, destructor | Packager; UDP socket |
| `Receiver`, `Unpackager` | pending receive; buffer of the frame being collected, first timestamp | `handleReceive`, `receiveRtpPacket` | UDP socket; Decoder |

What is hard in it:

* Events: two lock orders (event before record in `SetEvent`, record before
  event in `WaitForMultipleEvents`), records shared and deleted by whoever
  drops the last reference, signals sent after unlocking, timeouts that race
  with signals.
* Session: the watcher signals the same data again until it is read, the
  session then blocks in `recv`, `StartStreaming` occupies its thread, and the
  parser keeps values of earlier requests and of the requests behind the first.
* Sender: a stop flag written without the mutex, a bounded queue that drops.
* Media chain: no stage tests whether the one before it, or its own codec, was
  initialised; codecs hold frames back, and nobody flushes them.
* RTP path: fragments cross two threads and a network; the far end goes by the
  marker bit alone.

What makes each part correct: an event's signal reaches exactly one wait or
stays; no wakeup is lost; the session reads what is sent, answers each request
at most once and in order, and streams only after PLAY; the Sender is a FIFO;
the RTP path gives back whole frames; the media chain loses no more than its
codecs hold back, and fails only when a codec could not be opened.

## Modules

| Module | Models | Checked by | Proved in |
|---|---|---|---|
| `PacketFifo` | abstract bounded FIFO channel with a stop | | |
| `Sender` | `Sender.cpp` | `MCSender` | `SenderProofs` |
| `EventPromise` | abstract events: a signal goes to a wait or stays | `MCEvents` | `EventPromiseProofs` |
| `Events` | `pevents.cpp`, one step per critical section | `MCEvents` | `EventsProofs` |
| `RtspSession` | one client with session, watcher and timer threads | `MCRtspSession` | `RtspSessionProofs` |
| `Server` | accept loop, sessions' descriptors, `Streamer` | `MCServer` | `ServerProofs` |
| `FrameChannel` | abstract channel for frames that may break | | |
| `Pipeline` | the media chain when streaming and when recording | `MCPipeline` | `PipelineProofs` |
| `RtpPath` | Packager, queue, network, Receiver, Unpackager | `MCRtpPath` | `RtpPathProofs` |
| `DataFacts` | facts about numbers and sequences that the proofs share | | `DataFacts` |

Composition: `Events` implements `EventPromise` (property `KeepsPromise`), and
`RtspSession` uses its two events in the form `EventPromise` gives them, with
the session as the only waiter. `Sender` implements `PacketFifo`, and `RtpPath`
uses it as that queue: append when there is room, drop otherwise, leave from
the front. `Server` has any number of sessions and keeps of each only what opens
and closes files; `RtspSession` has one and keeps the rest. What `Pipeline`
delivers when it streams are the frames that enter `RtpPath`; how often it is
built is decided in `RtspSession`, whose ticks are its `Restart`.

Each module has its bugs, operators named `Bug...`, next to the definition
they stand in for: each is a small mistake one could make in the code, and each
property is known to fail when one of them is put in.

### Sender

`sendQueue`, `sending` and `loop` are `sendQueue_`, `sending_` and the program
counter of `send_Thread_`; the loop's locations are the points where it can be
interrupted. `receiveRtpPacket` runs wholly under `queueMutex_` and is one
step. The destructor's write of `sending_` takes no mutex and may fall between
any two steps of the loop. `owner`, `offered`, `accepted`, `sent` and
`sentAtStop` are history. A packet is its number.

### Events

Each thread has a program counter `pc`, the call it is in, and the locals of
that call. A step is what happens between two points where another thread can
be let in: a mutex is taken and kept (`SetLock`, `RegisterLock`, `LockWaiter`),
or a short critical section is one step. `wfmo` holds the records; a record
with `Live = FALSE` is deleted memory, and creation may reuse it, so a signal
sent to a deleted record wakes whoever lives there now. `trylock` in
`RemoveExpiredWaitHelper` may find the mutex busy while another thread holds it
or is about to. `FiredEvent` and `EventsLeft` share `Status`, as they share a
union. Timeouts are three: zero, finite (may pass at any time), infinite.

### RtspSession

`up` is the set of signalled events, 0 for the timer's tick and 1 for data.
`SetEvent` hands an event to the session if it sleeps and leaves it up if not.
The session's turn is scan, fired, then tick or reset, recv, handle. A request
is a record of what the parser can tell apart: its first word, whether it has a
CSeq header, whether it asks for TCP, whether its URL is known. `unread` is
what lies in the socket; `recv` takes all of it, and only the first request in
the buffer is handled, though the CSeq and the transport may be found in a
later one. The same goes for the port and the transport: `Found` lists what the
searches for `client_port` and `RTP/AVP/TCP` can yield. A request with the
former hides all that comes behind it; a buffer without one lets the searches
run on into the uninitialised rest of `CurRequest`, which may hold any earlier
request. A port is written as the number of the SETUP that named it, and
`m_RtpClientPort` is -1 until the Streamer's is written. Every request has a request line with URL and version
and arrives in one piece; its parsing byte by byte is left out.

### Server

`table` is the process's open files, each with the session that opened it, or
for which its client was accepted. A session's record holds the variables of
`thread_function01` and of its `Streamer`; `at` is the system call it makes
next. `given` is history: what `accept` returned for the session, while `Client`
is what it found in `ClientSocket` when it ran. A system call that opens a file
returns any free descriptor, and fails when none is free: then `accept`'s error
is handed to a thread like a descriptor, and a search goes on to the next pair.
`paired` says whether the last search found a pair. The watcher and the timer,
which outlive a session, open and close nothing. SETUP for TCP transport opens
nothing either, and is left out.

### Pipeline

`program` tells which chain runs: that of `Streamer::StartStreaming` or that of
`prototype4_rec_rtsp`. A chain is sequential: a stage calls its sink, so `at` is
one program counter that goes through the init calls, then for each packet from
the reader down to the last stage and back. A frame is the number of the packet
it came from; frame 0 is the NULL pointer a decoder hands on when it never
allocated its frame. The contexts of the codecs are absent, allocated but
unopened, or open. FFmpeg is external: an open codec may fail, hold back up to
its delay and give out what is ready in any order (B-frames); a NULL context
crashes; an unopened one fails, or crashes, by FFmpeg's version, and need not
write `frameFinished`. An encoder whose packets were not all taken refuses the
next frame. `writer.one` starts as whatever the memory held. `Decoder` and
`DecoderWeb` have the same `receivePacket` and share its actions. `unready`,
`video`, `decoded`, `errors` and `delivered` are history.

### RtpPath

A fragment is its position and size, a packet its marker, timestamp, number and
fragment. `Fragments` is the loop of `calculatePackets`. `unpackaged` is the
content of `unpackagedBuffer_`; `output` what the sink was handed. `receiving`
becomes false when `handleReceive` gets no data, as it then asks for no more.

## Runs

| Run | Shows | Bounds |
|---|---|---|
| `sender` | FIFO, lost wakeups, stop, delivery, `PacketFifo` | queue of 2, 5 packets: it fills, overflows, drains, fills again |
| `events_many` | reference counts, registration, status, deadlock, `EventPromise` | 4 threads, 2 events (one auto-reset, one manual-reset), 3 records; calls repeat without limit |
| `events_one` | single waits beside a wait for two; liveness of fired waits | as above |
| `events_dead_target` | violation: signal on a deleted record | one waiter for all, two setters |
| `events_all_acquired` | violation: all acquired, timeout reported | as above |
| `rtsp_session` | order and identity of answers, the port of the stream, streaming only after PLAY, requests are read | 3 requests of 8 kinds, 2 in the socket at a time: enough for coalescing, stale type, port and transport |
| `rtsp_play` | violation: PLAY that never streams | 1 request |
| `rtsp_type` | violation: type of an earlier request | 2 requests |
| `server` | announced pairs are held, no half pair is left, files are closed by their owner, while each session serves its client | 2 sessions with any number of SETUPs and streams, 5 descriptors, so that they run out, 3 pairs of ports of which one is half taken |
| `server_accept` | violation: a session takes the client of the next | 2 sessions |
| `rtp_path` | whole frames, order, timestamps, delivery, `FrameChannel` | 3 frames of 1 or 2 fragments, queue of 2, 2 network faults, 4-bit timestamps so that they wrap |
| `pipeline` | when the process may crash, which frames are missing when the source ends, what the recording holds | delays of 1 and 2 frames, 5 packets, so that both codecs fill and go on, 2 pipelines after each other |

The properties of `server` hold while `ServesItsClient` does, and need that: two
sessions that serve the same client both close its descriptor, the second one
when it may be somebody else's. `MaxSessions` bounds the clients.

`Waits` bounds the records that exist at a time, as expired ones can pile up; a
call that needs one more waits. `MaxRequests`, `MaxUnread`, `MaxPackets`,
`MaxFrames`, `MaxFaults` and `MaxStreams` bound the environment. `sender`,
`rtp_path`, `pipeline` and `server` turn off the deadlock check, since a destroyed Sender and an
environment that has used its bound stop, and so do a chain whose source ended and a server all of whose
clients are gone. Symmetry is used for the records in `events_many` and the
descriptors in `server`, which have no liveness property.

Fairness. A thread that can take a step takes one: the operating system's
scheduler. Nothing is assumed of callers, clients, the camera, deadlines,
spurious wakeups or the network. In `RtspSession` the end of the timer's second
has strong fairness, because a sleep ends wherever the session is then, and the
tick comes at most once per turn of the session's loop, because a turn takes
far less than a second. The mutexes are assumed to be given to a waiting thread
only in the sense of weak fairness of its step.

### What the code does and its comments do not say

The five violation runs are listed under `findings` in `PROJECT.json` with the
lines they contradict. The one a user meets is `rtsp_play`: the watcher's
`select` still sees a request while the session is about to read it, so event 1
is usually signalled again; the session then blocks in `recv` and the ticks
that would start the stream wait until the client sends something more.
`server_accept` needs two clients that connect at about the same time: one is
served by two threads and the other by none.

A SETUP for TCP transport gets no response, nor does one that names no port and
is taken for it. `OthersAreAnswered`, which holds, names these and the other
requests that get none: those without CSeq, those before any known command,
and TEARDOWN.

`StreamsToLastSetup` says that other requests do not redirect a stream, and
needs its premise: a request that is no command is handled as the SETUP before
it, and can then take over a port that was left in memory.

In `Pipeline` the crash is reached, but only with a codec that did not open:
`CrashNeedsFailedInit` is what the missing tests come down to. `AtMostDelayLost`
is stated for codecs that report no error, and needs that: after an error in
the encoder's loop the packets that are still ready stay there, and every later
frame is refused. A recording whose `one` happened not to be zero has no frame
at all, which `RecordsAllOrNothing` allows.

`CollectsOneFramePerFault` says how much the Unpackager, which never tests the
size of its buffer, may have to hold: one frame, and another one for every
packet that the queue dropped or the network lost, repeated or reordered. It
counts the packet that is handled next, as the code copies the payload before it
looks at the marker.

## Proofs

`SenderProofs` proves for every queue limit and number of packets that `Sender`
keeps its types, sends in order, loses no wakeup, lets at most one packet out
after the stop, and takes only steps of `PacketFifo`. `FifoOrder` and the others
are not inductive alone. The invariant `IInv` adds what the loop knows of the
queue at each of its locations (at `empty` and `asleep` it is empty, at `send`
it is not), what the stop flag says about the owner, and how many packets the
loop may still send from where it is after the stop (`StopAllowance`): one
lemma per action shows that it is kept. From the assumptions on the constants
only.

`PipelineProofs` proves all four invariants of `Pipeline` for every delay, every
number of packets and every number of pipelines. Its `IInv` adds that a codec
in use that is not open is one whose init failed (`InitIsRemembered`), and that a
NULL frame only comes from such a decoder: so the crash needs one. For the
frames it says where they are (`NothingVanishes`): each packet read is decoded or
in the decoder, each decoded frame is delivered, in the encoder or on the way,
and the encoder was drained when the next frame comes. With the sizes of what
the codecs hold (`DelaysKept`; lemmas `Exchange`, `Insertion`, `Together` on
cardinalities) that bounds what is missing. `WriterFollows` relates `one`, the
file and its content. The only assumptions are those on the constants; what the
codecs do is part of the model, not assumed in the proof.

`ServerProofs` proves the three properties of `Server` and its types for every
number of sessions, descriptors and ports. The invariant `IInv` is all under
`ServesItsClient`, as the properties are: the accepted client's file is open, and
for each session its client's file is (`ClientIsOpen`), the sockets it is about to
bind or close are its own (`SocketsInHand`), an announced pair is bound to the two
ports (`PairInUse`), and of its sockets that are in no use each one's partner is
there too (`IdleArePaired`). While a search runs its variables name what it opened
itself, so closing a half pair hits the right file.

`RtspSessionProofs` proves the six invariants of `RtspSession` for every number of
requests and every set of kinds of request. They are not inductive because they
speak of what was answered, and a step of the parser looks at what is in memory.
`BuffersInOrder` says that what was handled, what is in the buffer and what is in
the socket are requests in the order they were sent, `TypeFollows` that the kept
type is that of the last command, `AnswersFollow` that each answer belongs to a
buffer that was handled and carries its first CSeq, `StreamingFollows` that
`StreamingStarted` stems from a PLAY. The lemmas say what one more buffer does to
the last command (`NewCommand`, `CommandKept`), to the searches (`FoundInBuffer`)
and to the SETUPs handled (`NewSetups`).

`RtpPathProofs` proves the five invariants of `RtpPath`, and that every
behaviour is one of `FrameChannel`, for frames of every size, every chunk size,
queue limit, clock and number of faults. `PacketsFollow` is the centre of its
invariant: the number of a packet, anywhere on the way, determines what comes in
the packet numbered next (`Follows`), so a unit without a gap that begins after a
marker is a whole frame (`WholeFrame`). `FragmentsFollow` and `UnitsFollow` tie
the two ends to that; `PiecesInOrder` is `ArrivalOrderKept` split up by station;
`NothingMissing` says how the stations are numbered while the path is intact, and
that unit k is frame k, which is what the refinement needs. That the recursive
function in `Fragments` cuts a frame up from its first byte to its last is proved
too (`CutExists`, `FragmentsJoin`), by induction over the length: `DataFacts`
states induction for sets of numbers, as `SetInduction` and `LeastExists`.

`CollectsOneFramePerFault` needs an invariant of its own, `FaultsPay`, as it says
nothing of what is still under way. It looks at the buffer, the network, the queue
and the fragments to come as one sequence of loads (`Way`), each the size of a
packet and whether it has the marker, and counts for each its size less, if it has
the marker, the size of the largest frame: the marker pays for the frame. `Paid`
says that between any place and the end of any frame behind it the counts add up
to at most the debt, one largest frame per fault, and up to any other place to one
frame more. It has to speak of every place to begin at, since a marker that is used
empties the buffer, and of every end, since the prefix that is collected next may
be any. Packets that only move from one station to the next leave the way as it is,
a used marker takes its front away (`LoadsUsed`), a whole frame appended adds no
debt (`FrameFollows`, with `FragmentsJoin`), and a packet that is dropped or lost
(`LoadLost`), repeated (`LoadRepeated`) or delayed behind others (`LoadDelayed`)
costs at most one frame. That the sum the property is stated with is the one the
invariant bounds is `FrontBytes`. The proof needs that there is a largest frame:
`RtpAssumption` says so, as the size of a frame is an `int`. On the instance of
`rtp_path` TLC finds no state that violates `FaultsPay`, with the sums computed.

`EventsProofs` proves the seven invariants of `Events` for any number of threads
(even infinitely many), events and records and every order of their steps. Its
`IInv` has four parts beside the properties. `Base` says what a thread at each
location has in hand (`InCall`), that exactly the threads at certain locations hold
the mutexes (`EventMutexHeld`, `WaiterMutexHeld`), that calls do not share records
(`OwnersDiffer`) nor deques repeat a wait (`OnceEach`), and that the entries of a
running wait carry the indices of events it has scanned (`EntriesFollow`): without
the last two, erasing an entry would not give back exactly one reference and
`RefCountExact` would not be kept. `SignalsFollow` says that a signalled event with a
wait in its deque has a SetEvent at work that holds its mutex; the mutex invariant
needs it, as a SetEvent that found an auto-reset event consumed would return
without unlocking. `SleepersFollow` strengthens `SleeperIsSignalled` to events whose
mutex is held. `StatusFits` adds to `StatusExact` that the index obtained is one of
the array's.

`NoDeadlock` follows from `Base`: who is blocked is so on a thread that runs, but
for a SetEvent that waits for a record's mutex while the record's owner registers
with an event later in the order of the arrays (`Blockers`). A circle would so
contain a registering thread for which the fewest events come after the one it
wants, and another for which still fewer do (`FewerAfter`). The order of the arrays
(`MenuAssumption`) and that the events are finite is all it needs; without the
order a circle exists.

`EventPromiseProofs` proves that `Events` implements `EventPromise`
(`KeepsPromise`), under the mapping at the end of `Events`: an event is up when it
is signalled and no wait is left to be told first (`UpEvents`), and what a wait
has obtained is read off the deques for a wait for all and off `Status` for a wait
for any (`Obtained`). Setting an event maps to `Hand` for each wait it serves and
to `Raise` when the last is passed, a scan that finds an event signalled to `Take`,
the unlock of a wait to `Return` or `TakeAndReturn`; purging, sleeping, waking,
registering and the timeout are not seen. `ServedWait` is the lemma the rest leans on:
the front entry of a deque belongs to a wait that still lacks this event, since
entries carry the indices of the arrays (`EntriesFollow`) and no array names an
event twice, and erasing it gives that wait this event and nothing else
(`OthersObtained`). For `Return`, `StatusFits` says that the index is the obtained
event's. To the invariant of `EventsProofs` it adds `CallFits`: the location tells
what kind of call runs, and a success about to be returned has its condition.

The assumptions of all these theorems are those on the constants.

Model-checked only: the liveness properties (`FiredWaitReturns`,
`RequestsAreRead`, `IntactPathDelivers` and those of the Sender) and the fairness
part of `ImplementsFifo`, which are outside TLAPS. All 29 invariants of the passing
runs are proved.

## Not modelled

`DestroyEvent` (never called) and `PulseEvent` (not compiled); logging, codec
tables. `RtspReader_fromDisk`, `RtspReader::socketWriter`, the remuxing half of
`OutputWriter` (`receivePacket`, `init(AVCodecContext*)`) and the audio branches
behind an open audio codec are called by no program. The prototypes other than
the two `rtsp` ones do not fit the library any more: they call `Decoder::init`,
or the constructors of `InputReader` or `Sender`, with arguments these no longer
take, and the pure virtual functions `Unpackager` inherits have no definition,
so nothing can create one; `RtpPath` has it as its code says. Left out of
`Pipeline`: the packets, frames and pictures that are never freed, memory running
out, and the recording's file being left open at the end, as nothing deletes the
writer. Empty frames, on which Packager's loop would not end, are outside
`RtpPath`.

## Plan

1. `Sender`, `Events`, `RtspSession`, `RtpPath`, `Server`, `Pipeline` with their
   runs and the proofs of their invariants: done.
2. That `Events` implements `EventPromise`, from the invariant of `EventsProofs`: done.
3. `CollectsOneFramePerFault` of `RtpPath`, by an invariant of what is under way: done.
4. `RtspSession` as a refinement of one session of `Server`, and an abstract
   specification of the server: each client is served by one session: open.
