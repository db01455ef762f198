----------------------------- MODULE RtspSession ------------------------------
(***************************************************************************)
(* One RTSP client and the three threads that serve it: the session thread *)
(* (thread_function01 in libs/TcpServer.cpp) with its TcpConnection, the   *)
(* watcher that waits for data on the client's socket (thread_function02)  *)
(* and the timer (timer_start).  Watcher and timer wake the session        *)
(* through the auto-reset events 1 and 0.  The events are those of         *)
(* EventPromise with the session as their only waiter: a set event is      *)
(* handed to the session if it sleeps, and stays up otherwise.             *)
(***************************************************************************)
EXTENDS Integers, SequencesExt

CONSTANTS
  Requests,     \* the kinds of request a client sends
  MaxRequests,  \* bound: how many it sends
  MaxUnread     \* bound: how many of them wait in the socket at a time

Commands == {"OPTIONS", "DESCRIBE", "SETUP", "PLAY", "PAUSE", "TEARDOWN"}

\* The first word of a request: a command, another word that begins with one of
\* the letters O, D, S, P and T, or a word that does not.
Words == Commands \cup {"other", "ignored"}

\* A request has a URL the server knows or not, may have a CSeq header, and may
\* ask for RTP over TCP.  A SETUP that does not names the client_port for UDP.
Kinds == [word : Words, known : BOOLEAN, numbered : BOOLEAN, tcp : BOOLEAN]

ASSUME RequestsAssumption ==
  /\ Requests \subseteq Kinds
  /\ MaxRequests \in Nat
  /\ MaxUnread \in Nat \ {0}

VARIABLES
  requests,          \* the requests sent; the nth one carries CSeq n, if any
  unread,            \* the numbers of those waiting in the server's socket
  hungUp,            \* the client closed its end
  up,                \* which of the events 0 and 1 are signalled
  watcher,           \* where thread_function02 is
  timer,             \* where the timer's thread is
  session,           \* where thread_function01 is
  index,             \* the event that ended its wait
  RecvBuf,           \* the requests the last recv read, as numbers
  StreamingStarted,
  m_RtspCmdType,
  m_CSeq,
  m_TcpTransport,
  m_ClientRTPPort,   \* the number of the request that named it; 0 for none
  m_RtpClientPort,   \* that of the Streamer; -1 until it is written
  handled,           \* history: the buffers given to Handle_RtspRequest
  answers            \* the responses sent, each with the buffer it answers

socket == <<requests, unread, hungUp>>
threads == <<watcher, timer, session>>
ports == <<m_ClientRTPPort, m_RtpClientPort>>
connection == <<m_RtspCmdType, m_CSeq, m_TcpTransport, ports, handled, answers>>
vars == <<socket, up, threads, index, RecvBuf, StreamingStarted, connection>>

Init ==
  /\ requests = <<>> /\ unread = <<>> /\ hungUp = FALSE
  /\ up = {}
  /\ watcher = "select" /\ timer = "due" /\ session = "scan"
  /\ index = -1
  /\ RecvBuf = <<>>
  /\ StreamingStarted = FALSE
  /\ m_RtspCmdType = "UNKNOWN" /\ m_CSeq = 0 /\ m_TcpTransport = FALSE
  /\ m_ClientRTPPort = 0 /\ m_RtpClientPort = -1
  /\ handled = <<>> /\ answers = <<>>

------------------------------------------------------------------------------
(* The client. *)

ClientSends ==
  /\ ~hungUp
  /\ Len(requests) < MaxRequests
  /\ Len(unread) < MaxUnread
  /\ \E kind \in Requests : requests' = Append(requests, kind)
  /\ unread' = Append(unread, Len(requests) + 1)
  /\ UNCHANGED <<hungUp, up, threads, index, RecvBuf, StreamingStarted, connection>>

ClientHangsUp ==
  /\ ~hungUp
  /\ hungUp' = TRUE
  /\ UNCHANGED <<requests, unread, up, threads, index, RecvBuf,
                 StreamingStarted, connection>>

------------------------------------------------------------------------------
(* SetEvent(events[i]). *)

BugNoWakeup(i) == up' = up \cup {i} /\ UNCHANGED <<session, index>>

SetEvent(i) ==
  IF session = "asleep"
  THEN session' = "fired" /\ index' = i /\ UNCHANGED up
  ELSE up' = up \cup {i} /\ UNCHANGED <<session, index>>

(* The watcher.  select returns when there is something to read, at the end *)
(* of the stream, and with an error, its set unchanged, on a closed socket. *)

Readable == unread # <<>> \/ hungUp

WatcherSelects ==
  /\ watcher = "select"
  /\ Readable \/ session = "closed"
  /\ watcher' = "set"
  /\ UNCHANGED <<socket, up, timer, session, index, RecvBuf,
                 StreamingStarted, connection>>

WatcherSets ==
  /\ watcher = "set"
  /\ SetEvent(1)
  /\ watcher' = "select"
  /\ UNCHANGED <<socket, timer, RecvBuf, StreamingStarted, connection>>

(* The timer.  One turn of the session's loop takes far less than its       *)
(* second, so it comes at most once between two times the session sleeps,   *)
(* streams, or reads the socket.                                            *)

TimerElapses ==
  /\ timer = "sleeping"
  /\ session \in {"asleep", "recv", "streaming", "closed"}
  /\ timer' = "due"
  /\ UNCHANGED <<socket, up, watcher, session, index, RecvBuf,
                 StreamingStarted, connection>>

TimerSets ==
  /\ timer = "due"
  /\ SetEvent(0)
  /\ timer' = "sleeping"
  /\ UNCHANGED <<socket, watcher, RecvBuf, StreamingStarted, connection>>

------------------------------------------------------------------------------
(* The session. *)

BugLastFirst(S) == Max(S)   \* the events tried from the last to the first

\* WaitForMultipleEvents tries the events in order, then sleeps.
FirstUp(S) == Min(S)

SessionScans ==
  /\ session = "scan"
  /\ IF up = {}
     THEN session' = "asleep" /\ UNCHANGED <<up, index>>
     ELSE LET i == FirstUp(up) IN
          session' = "fired" /\ index' = i /\ up' = up \ {i}
  /\ UNCHANGED <<socket, watcher, timer, RecvBuf, StreamingStarted, connection>>

SessionResets ==
  /\ session = "fired" /\ index = 1
  /\ up' = up \ {1}
  /\ session' = "recv"
  /\ UNCHANGED <<socket, watcher, timer, index, RecvBuf, StreamingStarted, connection>>

SessionTicks ==
  /\ session = "fired" /\ index = 0
  /\ session' = IF StreamingStarted THEN "streaming" ELSE "scan"
  /\ UNCHANGED <<socket, up, watcher, timer, index, RecvBuf,
                 StreamingStarted, connection>>

\* recv takes all that has arrived, however many requests that is.
SessionReceives ==
  /\ session = "recv"
  /\ Readable
  /\ RecvBuf' = unread
  /\ unread' = <<>>
  /\ session' = IF unread # <<>> /\ requests[Head(unread)].word # "ignored"
                THEN "handle" ELSE "scan"
  /\ UNCHANGED <<requests, hungUp, up, watcher, timer, index,
                 StreamingStarted, connection>>

BugTypeUnchecked(kind) == kind.word   \* the word itself becomes the type

BugTypeOfAnswer(kind) ==   \* a request not understood repeats the last answer
  IF kind.word \in Commands THEN kind.word
  ELSE IF answers = <<>> THEN m_RtspCmdType ELSE Last(answers).type

\* ParseRtspRequest.  An unknown word leaves the type of an earlier request.
ParsedType(kind) ==
  IF kind.word \in Commands THEN kind.word ELSE m_RtspCmdType

BugLastNumber(buffer) ==   \* the CSeq that ends the buffer
  LET N == {i \in DOMAIN buffer : requests[buffer[i]].numbered} IN
  IF N = {} THEN 0 ELSE buffer[Max(N)]

\* The first CSeq in the buffer, whichever request it belongs to; 0 if none.
ParsedCSeq(buffer) ==
  LET N == {i \in DOMAIN buffer : requests[buffer[i]].numbered} IN
  IF N = {} THEN 0 ELSE buffer[Min(N)]

NamesPort(n) == requests[n].word = "SETUP" /\ ~requests[n].tcp

AsksTcp(ns) == \E n \in ns : requests[n].tcp

BugLastPort(S) == Max(S)   \* the client_port that ends the buffer

FirstPort(S) == Min(S)

\* What ParseRtspRequest finds of client_port and RTP/AVP/TCP, whatever the type
\* of the request.  The text is cut off behind the first client_port, before TCP
\* is looked for.  Without one the search runs past the requests, through
\* CurRequest's uninitialized tail, where earlier ones may be left.
Found(buffer) ==
  LET named == {n \in ToSet(buffer) : NamesPort(n)}
      left == UNION {ToSet(handled[h]) : h \in DOMAIN handled}
      port == FirstPort(named)
  IN IF named # {}
     THEN {[port |-> port, tcp |-> AsksTcp({n \in ToSet(buffer) : n < port})]}
     ELSE [port : {0} \cup {n \in left : NamesPort(n)},
           tcp : {AsksTcp(ToSet(buffer)), AsksTcp(ToSet(buffer) \cup left)}]

\* The types Handle_RtspRequest has no handler for.
Unhandled == {"TEARDOWN", "UNKNOWN"}

\* DESCRIBE is the only command whose handler looks at the URL.
Code(n, type) == IF type = "DESCRIBE" /\ ~requests[n].known THEN 404 ELSE 200

BugTcpOnly(type) ==   \* the response of SETUP sent in the wrong branch
  type \notin Unhandled /\ (type = "SETUP" => m_TcpTransport')

\* Every handler sends its response, but that of SETUP not for TCP transport.
Responds(type) == type \notin Unhandled /\ ~(type = "SETUP" /\ m_TcpTransport')

Answer(n, type, cseq) ==
  [CSeq |-> cseq, type |-> type, of |-> Len(handled) + 1, code |-> Code(n, type)]

BugStarts(type) == type \in {"SETUP", "PLAY"}   \* streams without a PLAY

Starts(type) == type = "PLAY"

\* Handle_RtspRequest, and what thread_function01 does with the type it
\* returns, whether or not the request could be parsed.  Only the first request
\* in the buffer counts.
SessionHandles ==
  LET n == Head(RecvBuf)
      type == ParsedType(requests[n])
      cseq == ParsedCSeq(RecvBuf)
  IN
  /\ session = "handle"
  /\ m_RtspCmdType' = type
  /\ \E found \in Found(RecvBuf) :
       /\ m_TcpTransport' = IF type = "SETUP" THEN found.tcp ELSE m_TcpTransport
       /\ m_ClientRTPPort' = IF found.port = 0 THEN m_ClientRTPPort ELSE found.port
  /\ m_RtpClientPort' = IF cseq # 0 /\ type = "SETUP" THEN m_ClientRTPPort'
                                                    ELSE m_RtpClientPort
  /\ m_CSeq' = IF cseq = 0 THEN m_CSeq ELSE cseq
  /\ answers' = IF cseq # 0 /\ Responds(type)
                THEN Append(answers, Answer(n, type, m_CSeq'))
                ELSE answers
  /\ handled' = Append(handled, RecvBuf)
  /\ StreamingStarted' = (StreamingStarted \/ Starts(type))
  /\ session' = IF type = "TEARDOWN" THEN "closed" ELSE "scan"
  /\ UNCHANGED <<socket, up, watcher, timer, index, RecvBuf>>

\* StartStreaming returns when the camera gives no more frames, if ever.
StreamingEnds ==
  /\ session = "streaming"
  /\ session' = "scan"
  /\ UNCHANGED <<socket, up, watcher, timer, index, RecvBuf,
                 StreamingStarted, connection>>

------------------------------------------------------------------------------
SessionNext ==
  \/ SessionScans \/ SessionResets \/ SessionTicks
  \/ SessionReceives \/ SessionHandles

WatcherNext == WatcherSelects \/ WatcherSets

TimerNext == TimerElapses \/ TimerSets

Next ==
  \/ ClientSends \/ ClientHangsUp
  \/ WatcherNext \/ TimerNext
  \/ SessionNext \/ StreamingEnds

\* The three threads run when they can, and the timer's second ends wherever
\* the session is at that time.  The client need not send, nor the camera stop.
Spec ==
  /\ Init /\ [][Next]_vars
  /\ WF_vars(SessionNext) /\ WF_vars(WatcherNext)
  /\ WF_vars(TimerSets) /\ SF_vars(TimerElapses)

------------------------------------------------------------------------------
(* Properties *)

\* Every variable holds a value of the program's.
TypeOK ==
  /\ requests \in Seq(Requests) /\ Len(requests) <= MaxRequests
  /\ unread \in Seq(1 .. MaxRequests) /\ Len(unread) <= MaxUnread
  /\ RecvBuf \in Seq(1 .. MaxRequests)
  /\ hungUp \in BOOLEAN /\ StreamingStarted \in BOOLEAN
  /\ up \subseteq {0, 1} /\ index \in {-1, 0, 1}
  /\ watcher \in {"select", "set"} /\ timer \in {"due", "sleeping"}
  /\ session \in {"scan", "asleep", "fired", "recv", "handle", "streaming", "closed"}
  /\ m_RtspCmdType \in Commands \cup {"UNKNOWN"}
  /\ m_CSeq \in 0 .. MaxRequests /\ m_TcpTransport \in BOOLEAN
  /\ m_ClientRTPPort \in 0 .. MaxRequests /\ m_RtpClientPort \in -1 .. MaxRequests
  /\ handled \in Seq(Seq(1 .. MaxRequests))
  /\ answers \in Seq([CSeq : 1 .. MaxRequests, type : Commands \ Unhandled,
                      of : 1 .. MaxRequests, code : {200, 404}])

\* The responses carry ascending CSeqs, each of a request that the buffer it
\* answers holds, so a client can match them: no request is answered twice, late
\* or in the name of another recv.
AnswersInOrder ==
  /\ \A i, j \in DOMAIN answers : i < j => answers[i].CSeq < answers[j].CSeq
  /\ \A i \in DOMAIN answers :
       /\ answers[i].CSeq \in ToSet(handled[answers[i].of])
       /\ \A n \in ToSet(handled[answers[i].of]) :
            requests[n].numbered => answers[i].CSeq <= n

WordHandled(h) == requests[Head(handled[h])].word

\* The last command among the first h buffers.
CommandBy(h) ==
  WordHandled(Max({g \in 1 .. h : WordHandled(g) \in Commands}))

\* A response is that of the command its buffer begins with or, if it begins with
\* no command, of the last command before it, answered or not.
AnswersLastCommand ==
  \A i \in DOMAIN answers : answers[i].type = CommandBy(answers[i].of)

\* What the hth buffer begins with is not to be answered: no request in it has a
\* CSeq, or its command is none or TEARDOWN, or a SETUP that names no
\* port and that it or an earlier buffer lets pass for one with TCP transport.
MayStayUnanswered(h) ==
  \/ \A n \in ToSet(handled[h]) : ~requests[n].numbered
  \/ \A g \in 1 .. h : WordHandled(g) \notin Commands
  \/ CommandBy(h) = "TEARDOWN"
  \/ /\ CommandBy(h) = "SETUP" /\ ~NamesPort(Head(handled[h]))
     /\ \E g \in 1 .. h : AsksTcp(ToSet(handled[g]))

\* No other request goes without a response, whatever was parsed before it.
OthersAreAnswered ==
  \A h \in DOMAIN handled :
    MayStayUnanswered(h) \/ \E i \in DOMAIN answers : answers[i].of = h

\* The SETUPs for UDP that began a buffer with a CSeq.
SetupsHandled ==
  {Head(handled[h]) : h \in {g \in DOMAIN handled :
     /\ NamesPort(Head(handled[g]))
     /\ \E n \in ToSet(handled[g]) : requests[n].numbered}}

\* While all that the client sends first are commands, and its SETUPs for UDP, the
\* stream goes to the port the last SETUP named: requests that came in the same
\* recv, and what earlier ones left in memory, do not redirect it.  A PLAY without
\* a SETUP streams to a port nobody wrote.
StreamsToLastSetup ==
  (\A h \in DOMAIN handled :
     /\ WordHandled(h) \in Commands
     /\ WordHandled(h) = "SETUP" => NamesPort(Head(handled[h])))
  => m_RtpClientPort = IF SetupsHandled = {} THEN -1 ELSE Max(SetupsHandled)

\* The camera is only streamed to a client that sent a PLAY at the head of what
\* one recv read, and not once it sent a TEARDOWN there.
StreamsOnlyAfterPlay ==
  session = "streaming" =>
    LET words == {WordHandled(h) : h \in DOMAIN handled} IN
    "PLAY" \in words /\ "TEARDOWN" \notin words

\* What a client sends is read, unless the session is streaming or over: neither
\* a lost wakeup nor the ticks of the timer keep the session from its socket.
RequestsAreRead ==
  unread # <<>> ~> unread = <<>> \/ session \in {"streaming", "closed"}

BlockedInRecv == session = "recv" /\ ~Readable

\* Once PLAY was understood the camera is streamed, unless the session ends or
\* blocks in recv on a socket with nothing to read.
PlayStreamsUnlessBlocked ==
  StreamingStarted ~> session \in {"streaming", "closed"} \/ BlockedInRecv

------------------------------------------------------------------------------
(* What the comments of the code say and the code does not do              *)

\* "Espera a que suceda algun evento, recivir por el socket o la comprobacion
\* periodica" (TcpServer.cpp:79): the session waits for either, so the periodic
\* check finds StreamingStarted after a PLAY and streams.
PlayStreams == StreamingStarted ~> session \in {"streaming", "closed"}

\* "command type (if any) of the current request" (TcpConnection.h:76): no other
\* request's type is kept.
TypeIsCurrent ==
  handled # <<>> /\ session # "handle" =>
    LET word == WordHandled(Len(handled)) IN
    m_RtspCmdType = IF word \in Commands THEN word ELSE "UNKNOWN"
=============================================================================
