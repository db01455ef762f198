-------------------------- MODULE RtspSessionProofs ---------------------------
(***************************************************************************)
(* Theorems about the RTSP session for every number and mix of requests    *)
(* and every way they arrive.                                              *)
(***************************************************************************)
EXTENDS RtspSession, DataFacts

------------------------------------------------------------------------------
(* The inductive invariant.                                                *)

\* A buffer holds requests that were sent, in the order they were.
Buffer(s) ==
  /\ s \in Seq(1 .. MaxRequests)
  /\ \A i \in DOMAIN s : s[i] \in 1 .. Len(requests)
  /\ \A i, j \in DOMAIN s : i < j => s[i] < s[j]

Below(s, t) == \A i \in DOMAIN s, j \in DOMAIN t : s[i] < t[j]

\* What the socket holds came after what was read from it, and every buffer
\* that was handled came after the one before.
BuffersInOrder ==
  /\ Buffer(unread)
  /\ session = "handle" =>
       Buffer(RecvBuf) /\ RecvBuf # <<>> /\ Below(RecvBuf, unread)
  /\ \A h \in DOMAIN handled :
       /\ Buffer(handled[h]) /\ handled[h] # <<>>
       /\ Below(handled[h], unread)
       /\ session = "handle" => Below(handled[h], RecvBuf)
       /\ \A g \in DOMAIN handled : g < h => Below(handled[g], handled[h])
       /\ handled[h][1] >= h

\* The type kept for the next request is that of the last command.
TypeFollows ==
  IF \E h \in DOMAIN handled : WordHandled(h) \in Commands
  THEN m_RtspCmdType = CommandBy(Len(handled))
  ELSE m_RtspCmdType = "UNKNOWN"

\* A buffer has one answer at most, with the first CSeq in it, and none before a
\* command was read.
AnswersFollow ==
  \A i \in DOMAIN answers :
    /\ answers[i].of \in DOMAIN handled
    /\ \E g \in 1 .. answers[i].of : WordHandled(g) \in Commands
    /\ \A j \in DOMAIN answers : i < j => answers[i].of < answers[j].of
    /\ answers[i].CSeq \in ToSet(handled[answers[i].of])
    /\ \A n \in ToSet(handled[answers[i].of]) :
         requests[n].numbered => answers[i].CSeq <= n

\* Streaming starts with a PLAY, and a TEARDOWN ends the session.
StreamingFollows ==
  /\ session = "streaming" => StreamingStarted
  /\ StreamingStarted => \E h \in DOMAIN handled : WordHandled(h) = "PLAY"
  /\ (\E h \in DOMAIN handled : WordHandled(h) = "TEARDOWN") => session = "closed"

IInv ==
  /\ TypeOK
  /\ BuffersInOrder
  /\ TypeFollows
  /\ AnswersFollow /\ AnswersLastCommand /\ OthersAreAnswered
  /\ StreamsToLastSetup
  /\ StreamingFollows

------------------------------------------------------------------------------
(* Steps that handle no request.                                           *)

LEMMA InitIInv == Init => IInv
<1> SUFFICES ASSUME Init PROVE IInv
  OBVIOUS
<1>1. TypeOK
  <2>1. /\ requests = <<>> /\ unread = <<>> /\ RecvBuf = <<>> /\ handled = <<>>
        /\ answers = <<>>
    BY DEF Init
  <2>2. /\ requests \in Seq(Requests) /\ Len(requests) <= MaxRequests
        /\ unread \in Seq(1 .. MaxRequests) /\ Len(unread) <= MaxUnread
        /\ RecvBuf \in Seq(1 .. MaxRequests)
    BY <2>1, RequestsAssumption
  <2>3. /\ handled \in Seq(Seq(1 .. MaxRequests))
        /\ answers \in Seq([CSeq : 1 .. MaxRequests, type : Commands \ Unhandled,
                            of : 1 .. MaxRequests, code : {200, 404}])
    BY <2>1
  <2>4. /\ m_CSeq \in 0 .. MaxRequests /\ m_ClientRTPPort \in 0 .. MaxRequests
        /\ m_RtpClientPort \in -1 .. MaxRequests
    BY RequestsAssumption DEF Init
  <2>5. up \subseteq {0, 1} /\ index \in {-1, 0, 1}
    BY DEF Init
  <2>6. /\ hungUp \in BOOLEAN /\ StreamingStarted \in BOOLEAN /\ m_TcpTransport \in BOOLEAN
        /\ watcher = "select" /\ timer = "due" /\ session = "scan"
        /\ m_RtspCmdType = "UNKNOWN"
    BY DEF Init
  <2> QED
    BY <2>2, <2>3, <2>4, <2>5, <2>6 DEF TypeOK
<1>2. BuffersInOrder
  BY DEF Init, BuffersInOrder, Buffer
<1>3. TypeFollows /\ AnswersFollow /\ AnswersLastCommand /\ OthersAreAnswered
  BY DEF Init, TypeFollows, AnswersFollow, AnswersLastCommand, OthersAreAnswered
<1>4. StreamsToLastSetup /\ StreamingFollows
  <2>1. SetupsHandled = {}
    BY DEF Init, SetupsHandled
  <2> QED
    BY <2>1 DEF Init, StreamsToLastSetup, StreamingFollows
<1> QED
  BY <1>1, <1>2, <1>3, <1>4 DEF IInv

\* The requests sent and the buffers handled are history: what is said about the
\* latter does not change.
Kept ==
  /\ \A n \in 1 .. Len(requests) : requests'[n] = requests[n]
  /\ \A h \in DOMAIN handled : h \in DOMAIN handled' /\ handled'[h] = handled[h]

LEMMA HistoryKept ==
  ASSUME TypeOK, BuffersInOrder, Kept, NEW h \in DOMAIN handled
  PROVE  /\ \A n \in ToSet(handled[h]) : n \in 1 .. Len(requests) /\ requests'[n] = requests[n]
         /\ handled[h] # <<>> /\ Head(handled[h]) = handled[h][1]
         /\ Head(handled[h]) \in ToSet(handled[h])
         /\ WordHandled(h)' = WordHandled(h)
         /\ NamesPort(Head(handled[h]))' <=> NamesPort(Head(handled[h]))
         /\ AsksTcp(ToSet(handled[h]))' <=> AsksTcp(ToSet(handled[h]))
         /\ (\E n \in ToSet(handled[h])' : requests'[n].numbered)
              <=> \E n \in ToSet(handled[h]) : requests[n].numbered
<1>1. /\ handled[h] \in Seq(1 .. MaxRequests) /\ handled[h] # <<>>
      /\ \A i \in DOMAIN handled[h] : handled[h][i] \in 1 .. Len(requests)
  BY DEF BuffersInOrder, Buffer
<1>2. \A n \in ToSet(handled[h]) : n \in 1 .. Len(requests) /\ requests'[n] = requests[n]
  BY <1>1 DEF ToSet, Kept
<1>3. Head(handled[h]) = handled[h][1] /\ Head(handled[h]) \in ToSet(handled[h])
  BY <1>1 DEF ToSet
<1>4. handled'[h] = handled[h]
  BY DEF Kept
<1> QED
  BY <1>1, <1>2, <1>3, <1>4 DEF WordHandled, NamesPort, AsksTcp

\* The last command among the first h buffers, if there is one.
LEMMA LastCommand ==
  ASSUME NEW h \in Nat, \E g \in 1 .. h : WordHandled(g) \in Commands
  PROVE  \E m \in 1 .. h : /\ CommandBy(h) = WordHandled(m) /\ WordHandled(m) \in Commands
                           /\ \A g \in m + 1 .. h : WordHandled(g) \notin Commands
<1> DEFINE S == {g \in 1 .. h : WordHandled(g) \in Commands}
<1>1. S # {} /\ S \in SUBSET (0 .. h)
  OBVIOUS
<1>2. Max(S) \in S /\ \A x \in S : x <= Max(S)
  <2> HIDE DEF S
  <2> QED
    BY <1>1, MaxIsGreatest
<1>3. CommandBy(h) = WordHandled(Max(S))
  BY DEF CommandBy
<1>4. \A g \in Max(S) + 1 .. h : WordHandled(g) \notin Commands
  <2> SUFFICES ASSUME NEW g \in Max(S) + 1 .. h, WordHandled(g) \in Commands PROVE FALSE
    OBVIOUS
  <2>1. Max(S) \in 1 .. h
    BY <1>2
  <2>2. g \in S
    BY <2>1
  <2> QED
    BY <1>2, <2>1, <2>2
<1> QED
  BY <1>2, <1>3, <1>4

LEMMA CommandKept ==
  ASSUME TypeOK, BuffersInOrder, Kept, NEW h \in DOMAIN handled,
         \E g \in 1 .. h : WordHandled(g) \in Commands
  PROVE  CommandBy(h)' = CommandBy(h)
<1> DEFINE S == {g \in 1 .. h : WordHandled(g) \in Commands}
<1>1. h \in Nat /\ \A g \in 1 .. h : g \in DOMAIN handled
  BY DEF TypeOK
<1>2. \A g \in 1 .. h : WordHandled(g)' = WordHandled(g)
  BY <1>1, HistoryKept
<1>3. S' = S
  BY <1>2
<1>4. S # {} /\ S \in SUBSET (0 .. h)
  OBVIOUS
<1>5. Max(S) \in 1 .. h
  <2>1. Max(S) \in S
    <3> HIDE DEF S
    <3> QED
      BY <1>1, <1>4, MaxIsGreatest
  <2> QED
    BY <2>1
<1>6. CommandBy(h) = WordHandled(Max(S)) /\ CommandBy(h)' = WordHandled(Max(S))'
  BY <1>3 DEF CommandBy
<1> QED
  BY <1>2, <1>3, <1>5, <1>6

LEMMA MayStayKept ==
  ASSUME TypeOK, BuffersInOrder, Kept, NEW h \in DOMAIN handled
  PROVE  MayStayUnanswered(h)' <=> MayStayUnanswered(h)
<1>1. h \in Nat /\ h \in 1 .. h /\ \A g \in 1 .. h : g \in DOMAIN handled
  BY DEF TypeOK
<1>2. \A g \in 1 .. h : /\ WordHandled(g)' = WordHandled(g)
                        /\ AsksTcp(ToSet(handled[g]))' <=> AsksTcp(ToSet(handled[g]))
  BY <1>1, HistoryKept
<1>3. NamesPort(Head(handled[h]))' <=> NamesPort(Head(handled[h]))
  BY HistoryKept
<1>4. (\A n \in ToSet(handled[h])' : ~requests'[n].numbered)
        <=> \A n \in ToSet(handled[h]) : ~requests[n].numbered
  BY HistoryKept
<1>5. CASE \A g \in 1 .. h : WordHandled(g) \notin Commands
  BY <1>2, <1>5 DEF MayStayUnanswered
<1>6. CASE \E g \in 1 .. h : WordHandled(g) \in Commands
  <2>1. CommandBy(h)' = CommandBy(h)
    BY <1>6, CommandKept
  <2> QED
    BY <1>2, <1>3, <1>4, <1>6, <2>1 DEF MayStayUnanswered
<1> QED
  BY <1>5, <1>6

\* What is said of the buffers and answers stays true while none is added.
LEMMA NothingHandled ==
  ASSUME IInv, Kept, UNCHANGED <<StreamingStarted, connection>>,
         TypeOK', BuffersInOrder',
         session' = "streaming" => StreamingStarted,
         session = "closed" => session' = "closed"
  PROVE  IInv'
<1> USE DEF IInv
<1>1. /\ handled' = handled /\ answers' = answers
      /\ m_RtspCmdType' = m_RtspCmdType /\ m_RtpClientPort' = m_RtpClientPort
  BY DEF connection, ports
<1>2. \A h \in DOMAIN handled : WordHandled(h)' = WordHandled(h)
  BY HistoryKept
<1>3. TypeFollows'
  <2>1. CASE \E h \in DOMAIN handled : WordHandled(h) \in Commands
    <3>1. Len(handled) \in DOMAIN handled /\ \E g \in 1 .. Len(handled) : WordHandled(g) \in Commands
      <4>1. handled \in Seq(Seq(1 .. MaxRequests))
        BY DEF TypeOK
      <4> QED
        BY <2>1, <4>1
    <3>2. CommandBy(Len(handled))' = CommandBy(Len(handled))
      BY <1>1, <3>1, CommandKept
    <3> QED
      BY <1>1, <1>2, <2>1, <3>2 DEF TypeFollows
  <2>2. CASE ~ \E h \in DOMAIN handled : WordHandled(h) \in Commands
    BY <1>1, <1>2, <2>2 DEF TypeFollows
  <2> QED
    BY <2>1, <2>2
<1>4. AnswersFollow'
  <2>1. \A i \in DOMAIN answers : \A n \in ToSet(handled[answers[i].of]) :
          requests'[n].numbered = requests[n].numbered
    BY HistoryKept DEF AnswersFollow
  <2>2. \A i \in DOMAIN answers : \A g \in 1 .. answers[i].of : g \in DOMAIN handled
    <3>1. handled \in Seq(Seq(1 .. MaxRequests))
      BY DEF TypeOK
    <3> QED
      BY <3>1 DEF AnswersFollow
  <2> QED
    BY <1>1, <1>2, <2>1, <2>2 DEF AnswersFollow
<1>5. AnswersLastCommand'
  <2>1. \A h \in DOMAIN handled :
          (\E g \in 1 .. h : WordHandled(g) \in Commands) => CommandBy(h)' = CommandBy(h)
    BY CommandKept
  <2> SUFFICES ASSUME NEW i \in DOMAIN answers'
               PROVE  answers'[i].type = CommandBy(answers[i].of)'
    BY DEF AnswersLastCommand
  <2>2. PICK h \in DOMAIN handled : h = answers[i].of
    BY <1>1 DEF AnswersFollow
  <2>3. h = answers'[i].of
    BY <1>1, <2>2
  <2>4. answers'[i].type = CommandBy(h)'
    BY <1>1, <2>1, <2>2 DEF AnswersFollow, AnswersLastCommand
  <2> QED
    BY <2>3, <2>4, Zenon
<1>6. OthersAreAnswered'
  BY <1>1, MayStayKept DEF OthersAreAnswered
<1>7. StreamsToLastSetup'
  <2>1. \A h \in DOMAIN handled :
          /\ NamesPort(Head(handled[h]))' <=> NamesPort(Head(handled[h]))
          /\ (\E n \in ToSet(handled[h])' : requests'[n].numbered)
               <=> \E n \in ToSet(handled[h]) : requests[n].numbered
    BY HistoryKept
  <2>2. SetupsHandled' = SetupsHandled
    BY <1>1, <2>1 DEF SetupsHandled
  <2> QED
    BY <1>1, <1>2, <2>1, <2>2 DEF StreamsToLastSetup
<1>8. StreamingFollows'
  BY <1>1, <1>2 DEF StreamingFollows
<1> QED
  BY <1>3, <1>4, <1>5, <1>6, <1>7, <1>8

\* All but the sending, the receiving and the handling of a request.
QuietStep ==
  \/ ClientHangsUp \/ WatcherNext \/ TimerNext
  \/ SessionScans \/ SessionResets \/ SessionTicks \/ StreamingEnds

LEMMA QuietStepIInv == IInv /\ (QuietStep \/ UNCHANGED vars) => IInv'
<1> SUFFICES ASSUME IInv, QuietStep \/ UNCHANGED vars PROVE IInv'
  OBVIOUS
<1>1. UNCHANGED <<requests, unread, RecvBuf, StreamingStarted, connection>>
  BY DEF QuietStep, ClientHangsUp, WatcherNext, WatcherSelects, WatcherSets, TimerNext,
         TimerElapses, TimerSets, SessionScans, SessionResets, SessionTicks,
         StreamingEnds, vars, socket
<1>2. /\ up' \subseteq {0, 1} /\ index' \in {-1, 0, 1}
      /\ hungUp' \in BOOLEAN
      /\ watcher' \in {"select", "set"} /\ timer' \in {"due", "sleeping"}
      /\ session' \in {"scan", "asleep", "fired", "recv", "handle", "streaming", "closed"}
      /\ session' = "handle" => session = "handle"
      /\ session' = "streaming" => session = "streaming" \/ StreamingStarted
      /\ session = "closed" => session' = "closed"
  <2>1. /\ up \subseteq {0, 1} /\ index \in {-1, 0, 1}
        /\ hungUp \in BOOLEAN
        /\ watcher \in {"select", "set"} /\ timer \in {"due", "sleeping"}
        /\ session \in {"scan", "asleep", "fired", "recv", "handle", "streaming", "closed"}
    BY DEF IInv, TypeOK
  <2>2. CASE ClientHangsUp \/ UNCHANGED vars
    BY <2>1, <2>2 DEF ClientHangsUp, threads, vars, socket
  <2>3. CASE WatcherSelects \/ TimerElapses
    BY <2>1, <2>3 DEF WatcherSelects, TimerElapses, socket
  <2>4. CASE WatcherSets \/ TimerSets
    <3>1. PICK i \in {0, 1} : SetEvent(i)
      BY <2>4 DEF WatcherSets, TimerSets
    <3>2. CASE session = "asleep"
      BY <2>1, <2>4, <3>1, <3>2 DEF WatcherSets, TimerSets, SetEvent, socket
    <3>3. CASE session # "asleep"
      BY <2>1, <2>4, <3>1, <3>3 DEF WatcherSets, TimerSets, SetEvent, socket
    <3> QED
      BY <3>2, <3>3
  <2>5. CASE SessionScans
    <3>1. CASE up = {}
      BY <2>1, <2>5, <3>1 DEF SessionScans, socket
    <3>2. CASE up # {}
      <4>1. up \in SUBSET Nat
        BY <2>1
      <4>2. FirstUp(up) \in up
        BY <3>2, <4>1, MinIsLeast DEF FirstUp
      <4> QED
        BY <2>1, <2>5, <3>2, <4>2 DEF SessionScans, socket
    <3> QED
      BY <3>1, <3>2
  <2>6. CASE SessionResets
    BY <2>1, <2>6 DEF SessionResets, socket
  <2>7. CASE SessionTicks \/ StreamingEnds
    BY <2>1, <2>7 DEF SessionTicks, StreamingEnds, socket
  <2> QED
    BY <2>2, <2>3, <2>4, <2>5, <2>6, <2>7 DEF QuietStep, WatcherNext, TimerNext
<1>3. TypeOK'
  BY <1>1, <1>2 DEF IInv, TypeOK, connection, ports
<1>4. BuffersInOrder'
  BY <1>1, <1>2 DEF IInv, BuffersInOrder, Buffer, Below, connection
<1>5. Kept
  BY <1>1 DEF Kept, connection
<1>6. session' = "streaming" => StreamingStarted
  BY <1>2 DEF IInv, StreamingFollows
<1> QED
  BY <1>1, <1>2, <1>3, <1>4, <1>5, <1>6, NothingHandled

LEMMA ClientSendsIInv == IInv /\ ClientSends => IInv'
<1> SUFFICES ASSUME IInv, ClientSends PROVE IInv'
  OBVIOUS
<1>1. PICK kind \in Requests : requests' = Append(requests, kind)
  BY DEF ClientSends
<1> DEFINE n == Len(requests) + 1
<1>2. /\ requests \in Seq(Requests) /\ unread \in Seq(1 .. MaxRequests)
      /\ unread' = Append(unread, n) /\ n \in 1 .. MaxRequests
      /\ Len(unread) < MaxUnread
  BY RequestsAssumption DEF ClientSends, IInv, TypeOK
<1>3. /\ requests' \in Seq(Requests) /\ Len(requests') = n
      /\ \A i \in 1 .. Len(requests) : requests'[i] = requests[i]
  BY <1>1, <1>2
<1>4. /\ unread' \in Seq(1 .. MaxRequests) /\ Len(unread') = Len(unread) + 1
      /\ Len(unread') <= MaxUnread
      /\ \A i \in DOMAIN unread : unread'[i] = unread[i]
      /\ unread'[Len(unread')] = n
      /\ DOMAIN unread' = (DOMAIN unread) \cup {Len(unread) + 1}
  BY <1>2, RequestsAssumption
<1>5. UNCHANGED <<hungUp, up, threads, index, RecvBuf, StreamingStarted, connection>>
  BY DEF ClientSends
<1>6. TypeOK'
  BY <1>2, <1>3, <1>4, <1>5 DEF IInv, TypeOK, threads, connection, ports
<1>7. ASSUME NEW s, Buffer(s)
      PROVE  Buffer(s)'
  <2>1. \A i \in 1 .. Len(requests) : i \in 1 .. Len(requests')
    BY <1>2, <1>3
  <2> QED
    BY <1>7, <2>1 DEF Buffer
<1>8. ASSUME NEW s, Buffer(s), Below(s, unread) PROVE Below(s, unread')
  <2> SUFFICES ASSUME NEW i \in DOMAIN s, NEW j \in DOMAIN unread'
               PROVE  s[i] < unread'[j]
    BY DEF Below
  <2>1. CASE j \in DOMAIN unread
    BY <1>4, <1>8, <2>1 DEF Below
  <2>2. CASE j = Len(unread) + 1
    BY <1>2, <1>4, <1>8, <2>2 DEF Buffer
  <2> QED
    BY <1>4, <2>1, <2>2
<1>9. Buffer(unread)'
  <2>1. Buffer(unread)
    BY DEF IInv, BuffersInOrder
  <2>2. unread' \in Seq(1 .. MaxRequests)
    BY <1>4
  <2>3. ASSUME NEW i \in DOMAIN unread' PROVE unread'[i] \in 1 .. Len(requests')
    BY <1>2, <1>3, <1>4, <2>1, <2>3 DEF Buffer
  <2>4. ASSUME NEW i \in DOMAIN unread', NEW j \in DOMAIN unread', i < j
        PROVE  unread'[i] < unread'[j]
    <3>1. i \in DOMAIN unread
      BY <1>2, <1>4, <2>4
    <3>2. unread'[i] = unread[i] /\ unread[i] \in 1 .. Len(requests)
      BY <1>4, <2>1, <3>1 DEF Buffer
    <3>3. CASE j \in DOMAIN unread
      BY <1>4, <2>1, <2>4, <3>1, <3>3 DEF Buffer
    <3>4. CASE j = Len(unread) + 1
      BY <1>2, <1>4, <3>2, <3>4
    <3> QED
      BY <1>4, <3>3, <3>4
  <2> QED
    BY <2>2, <2>3, <2>4 DEF Buffer
<1>10. BuffersInOrder'
  <2>1. session' = session /\ RecvBuf' = RecvBuf /\ handled' = handled
    BY <1>5 DEF threads, connection
  <2>2. session = "handle" => Buffer(RecvBuf)' /\ RecvBuf # <<>> /\ Below(RecvBuf, unread')
    BY <1>7, <1>8, <2>1 DEF IInv, BuffersInOrder, Buffer
  <2>3. ASSUME NEW h \in DOMAIN handled
        PROVE  /\ Buffer(handled[h])' /\ handled[h] # <<>>
               /\ Below(handled[h], unread')
               /\ session = "handle" => Below(handled[h], RecvBuf)
               /\ \A g \in DOMAIN handled : g < h => Below(handled[g], handled[h])
               /\ handled[h][1] >= h
    BY <1>7, <1>8, <2>1 DEF IInv, BuffersInOrder, Buffer
  <2> QED
    BY <1>9, <2>1, <2>2, <2>3 DEF BuffersInOrder, Buffer, Below
<1>11. Kept
  BY <1>3, <1>5 DEF Kept, connection
<1>12. session' = session
  BY <1>5 DEF threads
<1> QED
  BY <1>5, <1>6, <1>10, <1>11, <1>12, NothingHandled DEF IInv, StreamingFollows

LEMMA SessionReceivesIInv == IInv /\ SessionReceives => IInv'
<1> SUFFICES ASSUME IInv, SessionReceives PROVE IInv'
  OBVIOUS
<1>1. /\ RecvBuf' = unread /\ unread' = <<>>
      /\ UNCHANGED <<requests, hungUp, up, watcher, timer, index, StreamingStarted, connection>>
      /\ session = "recv" /\ session' \in {"handle", "scan"}
      /\ session' = "handle" => unread # <<>>
  BY DEF SessionReceives
<1>2. TypeOK'
  <2>1. unread \in Seq(1 .. MaxRequests) /\ Len(<<>>) <= MaxUnread
        /\ <<>> \in Seq(1 .. MaxRequests)
    BY RequestsAssumption DEF IInv, TypeOK
  <2> QED
    BY <1>1, <2>1 DEF IInv, TypeOK, connection, ports
<1>3. handled' = handled /\ requests' = requests
  BY <1>1 DEF connection
<1>4. BuffersInOrder'
  <2>1. Buffer(unread) /\ Buffer(<<>>)
    BY DEF IInv, BuffersInOrder, Buffer
  <2>2. \A s : Below(s, <<>>)
    BY DEF Below
  <2>3. \A h \in DOMAIN handled :
          /\ Buffer(handled[h]) /\ handled[h] # <<>> /\ Below(handled[h], unread)
          /\ \A g \in DOMAIN handled : g < h => Below(handled[g], handled[h])
          /\ handled[h][1] >= h
    BY DEF IInv, BuffersInOrder
  <2> QED
    BY <1>1, <1>3, <2>1, <2>2, <2>3 DEF BuffersInOrder, Buffer, Below
<1>5. Kept
  BY <1>3 DEF Kept
<1> QED
  BY <1>1, <1>2, <1>4, <1>5, NothingHandled

------------------------------------------------------------------------------
(* What ParseRtspRequest finds in a buffer.                                *)

\* The first request in a buffer is the earliest.
LEMMA HeadIsFirst ==
  ASSUME NEW s, Buffer(s), s # <<>>
  PROVE  /\ Head(s) = s[1] /\ Head(s) \in ToSet(s)
         /\ ToSet(s) \subseteq 1 .. Len(requests)
         /\ \A n \in ToSet(s) : Head(s) <= n
<1>1. s \in Seq(1 .. MaxRequests) /\ 1 \in DOMAIN s /\ Head(s) = s[1]
  BY DEF Buffer
<1>2. \A i \in DOMAIN s : s[i] \in 1 .. Len(requests) /\ (i # 1 => s[1] < s[i])
  BY <1>1 DEF Buffer
<1> QED
  BY <1>1, <1>2 DEF ToSet, Buffer

LEMMA FirstCSeq ==
  ASSUME NEW s, Buffer(s)
  PROVE  IF \E n \in ToSet(s) : requests[n].numbered
         THEN /\ ParsedCSeq(s) \in ToSet(s) /\ ParsedCSeq(s) \in 1 .. Len(requests)
              /\ \A n \in ToSet(s) : requests[n].numbered => ParsedCSeq(s) <= n
         ELSE ParsedCSeq(s) = 0
<1> DEFINE N == {i \in DOMAIN s : requests[s[i]].numbered}
<1>1. s \in Seq(1 .. MaxRequests) /\ N \in SUBSET Nat
  BY DEF Buffer
<1>2. CASE N = {}
  BY <1>2 DEF ParsedCSeq, ToSet
<1>3. CASE N # {}
  <2>1. Min(N) \in N /\ \A i \in N : Min(N) <= i
    <3> HIDE DEF N
    <3> QED
      BY <1>1, <1>3, MinIsLeast
  <2>2. ParsedCSeq(s) = s[Min(N)]
    BY <1>3 DEF ParsedCSeq
  <2>3. \A i \in N : i = Min(N) \/ s[Min(N)] < s[i]
    <3>1. \A i \in N : i = Min(N) \/ Min(N) < i
      BY <1>1, <2>1
    <3> QED
      BY <2>1, <3>1 DEF Buffer
  <2>4. \A i \in DOMAIN s : s[i] \in 1 .. Len(requests)
    BY DEF Buffer
  <2>5. \A i \in N : s[Min(N)] <= s[i]
    BY <2>1, <2>3, <2>4
  <2>6. \A n \in ToSet(s) : requests[n].numbered => \E i \in N : n = s[i]
    BY DEF ToSet
  <2>7. Min(N) \in DOMAIN s /\ requests[s[Min(N)]].numbered
    BY <2>1
  <2>8. s[Min(N)] \in ToSet(s) /\ s[Min(N)] \in 1 .. Len(requests)
    BY <2>4, <2>7 DEF ToSet
  <2> HIDE DEF N
  <2>9. \A n \in ToSet(s) : requests[n].numbered => s[Min(N)] <= n
    BY <2>5, <2>6
  <2> QED
    BY <2>2, <2>7, <2>8, <2>9
<1> QED
  BY <1>2, <1>3

\* A SETUP for UDP at the head of a buffer gets its own port and no TCP; TCP is
\* only found where some request asked for it.
LEMMA FoundInBuffer ==
  ASSUME TypeOK, BuffersInOrder, NEW s, Buffer(s), s # <<>>, NEW found \in Found(s)
  PROVE  /\ found.port \in 0 .. MaxRequests /\ found.tcp \in BOOLEAN
         /\ NamesPort(Head(s)) => found.port = Head(s) /\ ~found.tcp
         /\ ~AsksTcp(ToSet(s)) /\ (\A h \in DOMAIN handled : ~AsksTcp(ToSet(handled[h])))
              => ~found.tcp
<1> DEFINE named == {n \in ToSet(s) : NamesPort(n)}
           left == UNION {ToSet(handled[h]) : h \in DOMAIN handled}
<1>1. ToSet(s) \subseteq 1 .. MaxRequests
  <2>1. s \in Seq(1 .. MaxRequests)
    BY DEF Buffer
  <2> QED
    BY <2>1, ElementsOf
<1>2. left \subseteq 1 .. MaxRequests
  <2>1. \A h \in DOMAIN handled : handled[h] \in Seq(1 .. MaxRequests)
    BY DEF BuffersInOrder, Buffer
  <2>2. \A h \in DOMAIN handled : ToSet(handled[h]) \subseteq 1 .. MaxRequests
    BY <2>1, ElementsOf
  <2> QED
    BY <2>2
<1>3. \A S : AsksTcp(S) \in BOOLEAN
  BY DEF AsksTcp
<1>4. CASE named # {}
  <2>1. FirstPort(named) \in named /\ \A n \in named : FirstPort(named) <= n
    <3>1. named \in SUBSET Nat
      BY <1>1
    <3> HIDE DEF named
    <3> QED
      BY <1>4, <3>1, MinIsLeast DEF FirstPort
  <2>2. found = [port |-> FirstPort(named),
                 tcp |-> AsksTcp({n \in ToSet(s) : n < FirstPort(named)})]
    BY <1>4 DEF Found
  <2>3. ASSUME NamesPort(Head(s))
        PROVE  FirstPort(named) = Head(s) /\ {n \in ToSet(s) : n < FirstPort(named)} = {}
    <3>1. Head(s) \in named /\ \A n \in ToSet(s) : Head(s) <= n
      BY <2>3, HeadIsFirst
    <3>2. FirstPort(named) \in ToSet(s)
      BY <2>1
    <3>3. Head(s) <= FirstPort(named) /\ FirstPort(named) <= Head(s)
      BY <2>1, <3>1, <3>2
    <3>4. Head(s) \in Nat /\ FirstPort(named) \in Nat
      <4>1. Head(s) \in ToSet(s)
        BY <3>1
      <4> HIDE DEF named
      <4> QED
        BY <1>1, <3>2, <4>1
    <3> HIDE DEF named
    <3>5. FirstPort(named) = Head(s)
      BY <3>3, <3>4
    <3>6. \A n \in ToSet(s) : ~ (n < FirstPort(named))
      BY <1>1, <3>1, <3>4, <3>5
    <3> QED
      BY <3>5, <3>6
  <2>4. FirstPort(named) \in 1 .. MaxRequests
    BY <1>1, <2>1
  <2> DEFINE before == {n \in ToSet(s) : n < FirstPort(named)}
  <2>5. ~AsksTcp(ToSet(s)) \/ before = {} => ~AsksTcp(before)
    BY DEF AsksTcp
  <2> HIDE DEF named, before
  <2>6. found.port = FirstPort(named) /\ found.tcp = AsksTcp(before)
    BY <2>2 DEF before
  <2>7. found.port \in 0 .. MaxRequests
    BY <2>4, <2>6, RequestsAssumption
  <2> QED
    BY <1>3, <2>3, <2>5, <2>6, <2>7 DEF before
<1>5. CASE named = {}
  <2>1. found \in [port : {0} \cup {n \in left : NamesPort(n)},
                   tcp : {AsksTcp(ToSet(s)), AsksTcp(ToSet(s) \cup left)}]
    BY <1>5 DEF Found
  <2>2. ~NamesPort(Head(s))
    BY <1>5, HeadIsFirst
  <2>3. ASSUME ~AsksTcp(ToSet(s)), \A h \in DOMAIN handled : ~AsksTcp(ToSet(handled[h]))
        PROVE  ~AsksTcp(ToSet(s) \cup left)
    BY <2>3 DEF AsksTcp
  <2>4. found.tcp \in {AsksTcp(ToSet(s)), AsksTcp(ToSet(s) \cup left)}
    BY <2>1
  <2>5. found.port \in 0 .. MaxRequests
    <3>1. found.port = 0 \/ found.port \in left
      BY <2>1
    <3>2. MaxRequests \in Nat
      BY RequestsAssumption
    <3>3. \A n \in left : n \in 0 .. MaxRequests
      <4> HIDE DEF left
      <4>1. \A n \in left : n \in 1 .. MaxRequests
        BY <1>2
      <4> QED
        BY <3>2, <4>1
    <3> QED
      BY <3>1, <3>2, <3>3
  <2> HIDE DEF left
  <2> QED
    BY <1>3, <2>2, <2>3, <2>4, <2>5
<1> QED
  BY <1>4, <1>5

------------------------------------------------------------------------------
(* The step that handles a buffer, the kth.                                *)

KthHandled(k) ==
  /\ k \in 1 .. MaxRequests
  /\ DOMAIN handled = 1 .. k - 1 /\ Len(handled) = k - 1
  /\ handled' \in Seq(Seq(1 .. MaxRequests)) /\ DOMAIN handled' = 1 .. k /\ Len(handled') = k
  /\ handled'[k] = RecvBuf
  /\ Buffer(RecvBuf) /\ RecvBuf # <<>> /\ RecvBuf[1] >= k
  /\ requests' = requests
  /\ Kept

\* The buffers are numbered no higher than the requests they begin with.
LEMMA BufferIsKth ==
  ASSUME IInv, SessionHandles
  PROVE  \E k : KthHandled(k)
<1> DEFINE k == Len(handled) + 1
<1>1. /\ Buffer(RecvBuf) /\ RecvBuf # <<>>
      /\ handled' = Append(handled, RecvBuf) /\ requests' = requests
  BY DEF SessionHandles, IInv, BuffersInOrder, socket
<1>2. handled \in Seq(Seq(1 .. MaxRequests)) /\ RecvBuf \in Seq(1 .. MaxRequests)
  BY DEF IInv, TypeOK
<1>3. /\ k \in Nat \ {0} /\ DOMAIN handled = 1 .. k - 1 /\ Len(handled) = k - 1
      /\ handled' \in Seq(Seq(1 .. MaxRequests)) /\ DOMAIN handled' = 1 .. k /\ Len(handled') = k
      /\ handled'[k] = RecvBuf
      /\ \A h \in 1 .. k - 1 : handled'[h] = handled[h]
  <2> DEFINE B == Seq(1 .. MaxRequests)
  <2>1. handled \in Seq(B) /\ RecvBuf \in B /\ handled' = Append(handled, RecvBuf)
    BY <1>1, <1>2
  <2> HIDE DEF B
  <2>2. handled' \in Seq(B)
    BY <2>1
  <2>3. /\ k \in Nat \ {0} /\ DOMAIN handled = 1 .. k - 1 /\ Len(handled) = k - 1
        /\ Len(handled') = k /\ DOMAIN handled' = 1 .. k
    BY <2>1, <2>2
  <2>4. handled'[k] = RecvBuf /\ \A h \in 1 .. k - 1 : handled'[h] = handled[h]
    BY <2>1, <2>3
  <2> QED
    BY <2>2, <2>3, <2>4 DEF B
<1>4. 1 \in DOMAIN RecvBuf /\ RecvBuf[1] \in 1 .. MaxRequests
  BY <1>1, <1>2, FirstElement
<1>5. RecvBuf[1] >= k
  <2>1. CASE k = 1
    BY <1>4, <2>1
  <2>2. CASE k # 1
    <3>1. PICK g \in DOMAIN handled : g = k - 1
      BY <1>3, <2>2
    <3>2. handled[g] \in Seq(1 .. MaxRequests) /\ handled[g] # <<>> /\ handled[g][1] >= g
      BY DEF IInv, BuffersInOrder, Buffer
    <3>3. Below(handled[g], RecvBuf)
      BY DEF SessionHandles, IInv, BuffersInOrder
    <3>4. 1 \in DOMAIN handled[g] /\ handled[g][1] \in 1 .. MaxRequests
      BY <3>2, FirstElement
    <3>5. handled[g][1] < RecvBuf[1]
      BY <1>4, <3>3, <3>4 DEF Below
    <3> QED
      BY <1>3, <1>4, <3>1, <3>2, <3>4, <3>5
  <2> QED
    BY <2>1, <2>2
<1>6. k \in 1 .. MaxRequests
  BY <1>3, <1>4, <1>5, RequestsAssumption
<1>7. Kept
  BY <1>1, <1>3 DEF Kept
<1> QED
  BY <1>1, <1>3, <1>5, <1>6, <1>7 DEF KthHandled

\* What the kth buffer begins with, and what it asks for.
LEMMA KthRequest ==
  ASSUME NEW k, KthHandled(k)
  PROVE  /\ k \in DOMAIN handled' /\ k \notin DOMAIN handled
         /\ Head(RecvBuf) \in ToSet(RecvBuf) /\ Head(RecvBuf) \in 1 .. Len(requests)
         /\ WordHandled(k)' = requests[Head(RecvBuf)].word
         /\ NamesPort(Head(handled[k]))' <=> NamesPort(Head(RecvBuf))
         /\ AsksTcp(ToSet(handled[k]))' <=> AsksTcp(ToSet(RecvBuf))
         /\ (\E n \in ToSet(handled[k])' : requests'[n].numbered)
              <=> \E n \in ToSet(RecvBuf) : requests[n].numbered
<1>1. /\ k \in 1 .. MaxRequests /\ DOMAIN handled = 1 .. k - 1 /\ DOMAIN handled' = 1 .. k
      /\ handled'[k] = RecvBuf /\ requests' = requests
      /\ Buffer(RecvBuf) /\ RecvBuf # <<>>
  BY DEF KthHandled
<1>2. Head(RecvBuf) \in ToSet(RecvBuf) /\ Head(RecvBuf) \in 1 .. Len(requests)
  BY <1>1, HeadIsFirst
<1> QED
  BY <1>1, <1>2 DEF WordHandled, NamesPort, AsksTcp

\* A command at the head of the kth buffer is the last one; without it the last
\* one before stays the last.
LEMMA NewCommand ==
  ASSUME TypeOK, BuffersInOrder, NEW k, KthHandled(k)
  PROVE  /\ WordHandled(k)' \in Commands => CommandBy(k)' = WordHandled(k)'
         /\ WordHandled(k)' \notin Commands /\ (\E g \in 1 .. k - 1 : WordHandled(g) \in Commands)
              => CommandBy(k)' = CommandBy(k - 1)
<1>1. k \in 1 .. MaxRequests /\ DOMAIN handled = 1 .. k - 1 /\ Kept
  BY DEF KthHandled
<1>2. \A g \in 1 .. k - 1 : WordHandled(g)' = WordHandled(g)
  BY <1>1, HistoryKept
<1> DEFINE S == {g \in 1 .. k : WordHandled(g)' \in Commands}
           T == {g \in 1 .. k - 1 : WordHandled(g) \in Commands}
<1>3. PICK m : m = Max(S) /\ CommandBy(k)' = WordHandled(m)'
  BY DEF CommandBy, WordHandled
<1>4. ASSUME WordHandled(k)' \in Commands
      PROVE  CommandBy(k)' = WordHandled(k)'
  <2>1. k \in S /\ S \in SUBSET (0 .. k) /\ k \in Nat
    BY <1>1, <1>4
  <2>2. Max(S) \in S /\ k <= Max(S) /\ Max(S) \in 0 .. k
    <3> HIDE DEF S
    <3>1. Max(S) \in S /\ \A x \in S : x <= Max(S)
      BY <2>1, MaxIsGreatest
    <3> QED
      BY <2>1, <3>1
  <2>3. m = k
    BY <1>3, <2>1, <2>2
  <2> QED
    BY <1>3, <2>3
<1>5. ASSUME WordHandled(k)' \notin Commands, \E g \in 1 .. k - 1 : WordHandled(g) \in Commands
      PROVE  CommandBy(k)' = CommandBy(k - 1)
  <2>1. S = T
    <3>1. \A g : g \in 1 .. k <=> g \in 1 .. k - 1 \/ g = k
      BY <1>1
    <3> QED
      BY <1>2, <1>5, <3>1
  <2>2. T # {} /\ T \in SUBSET (0 .. k) /\ k \in Nat
    BY <1>1, <1>5
  <2>3. Max(T) \in 1 .. k - 1
    <3>1. Max(T) \in T
      <4> HIDE DEF T
      <4> QED
        BY <2>2, MaxIsGreatest
    <3> QED
      BY <3>1
  <2>4. m = Max(T) /\ CommandBy(k - 1) = WordHandled(Max(T))
    BY <1>3, <2>1 DEF CommandBy
  <2> QED
    BY <1>2, <1>3, <2>3, <2>4
<1> QED
  BY <1>4, <1>5

\* The type of the kth request is that of the last command up to it.
LEMMA NewType ==
  ASSUME IInv, SessionHandles, NEW k, KthHandled(k)
  PROVE  IF \E g \in 1 .. k : WordHandled(g)' \in Commands
         THEN /\ m_RtspCmdType' = CommandBy(k)'
              /\ m_RtspCmdType' \in Commands
              /\ \E g \in 1 .. k : m_RtspCmdType' = WordHandled(g)'
         ELSE m_RtspCmdType' = "UNKNOWN"
<1>1. k \in 1 .. MaxRequests /\ DOMAIN handled = 1 .. k - 1 /\ Len(handled) = k - 1 /\ Kept
  BY DEF KthHandled
<1>2. \A g \in 1 .. k - 1 : WordHandled(g)' = WordHandled(g)
  BY <1>1, HistoryKept DEF IInv
<1>3. m_RtspCmdType' = IF WordHandled(k)' \in Commands THEN WordHandled(k)' ELSE m_RtspCmdType
  BY KthRequest DEF SessionHandles, ParsedType
<1>4. \A g : g \in 1 .. k <=> g \in 1 .. k - 1 \/ g = k
  BY <1>1
<1>5. CASE WordHandled(k)' \in Commands
  BY <1>3, <1>4, <1>5, NewCommand DEF IInv
<1>6. CASE WordHandled(k)' \notin Commands /\ \E g \in 1 .. k - 1 : WordHandled(g) \in Commands
  <2>1. m_RtspCmdType' = CommandBy(k - 1)
    BY <1>1, <1>3, <1>6 DEF IInv, TypeFollows
  <2>2. CommandBy(k)' = CommandBy(k - 1)
    BY <1>6, NewCommand DEF IInv
  <2>3. PICK m \in 1 .. k - 1 : CommandBy(k - 1) = WordHandled(m) /\ WordHandled(m) \in Commands
    <3>1. k - 1 \in Nat
      BY <1>1
    <3> QED
      BY <1>6, <3>1, LastCommand
  <2> QED
    BY <1>2, <1>4, <2>1, <2>2, <2>3
<1>7. CASE WordHandled(k)' \notin Commands /\ ~ \E g \in 1 .. k - 1 : WordHandled(g) \in Commands
  BY <1>1, <1>2, <1>3, <1>4, <1>7 DEF IInv, TypeFollows
<1> QED
  BY <1>5, <1>6, <1>7

\* The CSeq of the kth request and the answer it may get.
LEMMA NewAnswer ==
  ASSUME IInv, SessionHandles, NEW k, KthHandled(k)
  PROVE  LET cseq == ParsedCSeq(RecvBuf)
             type == m_RtspCmdType'
             a == [CSeq |-> cseq, type |-> type, of |-> k, code |-> Code(Head(RecvBuf), type)]
         IN /\ m_CSeq' = IF cseq = 0 THEN m_CSeq ELSE cseq
            /\ answers' = IF cseq # 0 /\ Responds(type) THEN Append(answers, a) ELSE answers
            /\ cseq # 0 => /\ cseq \in ToSet(RecvBuf) /\ cseq \in 1 .. MaxRequests
                           /\ \A n \in ToSet(RecvBuf) : requests[n].numbered => cseq <= n
            /\ cseq = 0 <=> \A n \in ToSet(RecvBuf) : ~requests[n].numbered
<1>1. k \in 1 .. MaxRequests /\ Len(handled) = k - 1 /\ Buffer(RecvBuf) /\ Len(handled) + 1 = k
  BY DEF KthHandled
<1>2. ToSet(RecvBuf) \subseteq 1 .. MaxRequests
  BY <1>1, ElementsOf DEF Buffer
<1>3. IF \E n \in ToSet(RecvBuf) : requests[n].numbered
      THEN /\ ParsedCSeq(RecvBuf) \in ToSet(RecvBuf) /\ ParsedCSeq(RecvBuf) \in 1 .. Len(requests)
           /\ \A n \in ToSet(RecvBuf) : requests[n].numbered => ParsedCSeq(RecvBuf) <= n
      ELSE ParsedCSeq(RecvBuf) = 0
  BY <1>1, FirstCSeq
<1>4. /\ m_CSeq' = IF ParsedCSeq(RecvBuf) = 0 THEN m_CSeq ELSE ParsedCSeq(RecvBuf)
      /\ answers' = IF ParsedCSeq(RecvBuf) # 0 /\ Responds(m_RtspCmdType')
                    THEN Append(answers, Answer(Head(RecvBuf), m_RtspCmdType', m_CSeq'))
                    ELSE answers
  BY DEF SessionHandles
<1>5. ParsedCSeq(RecvBuf) # 0 =>
        Answer(Head(RecvBuf), m_RtspCmdType', m_CSeq')
          = [CSeq |-> ParsedCSeq(RecvBuf), type |-> m_RtspCmdType', of |-> k,
             code |-> Code(Head(RecvBuf), m_RtspCmdType')]
  BY <1>1, <1>4 DEF Answer
<1>6. ParsedCSeq(RecvBuf) = 0 <=> \A n \in ToSet(RecvBuf) : ~requests[n].numbered
  BY <1>3
<1> QED
  BY <1>2, <1>3, <1>4, <1>5, <1>6

\* An answer that is sent is the last one and for the kth buffer.
LEMMA AnswersBefore ==
  ASSUME IInv, SessionHandles, NEW k, KthHandled(k)
  PROVE  /\ answers' \in Seq([CSeq : 1 .. MaxRequests, type : Commands \ Unhandled,
                              of : 1 .. MaxRequests, code : {200, 404}])
         /\ \A i \in DOMAIN answers : i \in DOMAIN answers' /\ answers'[i] = answers[i]
         /\ \A i \in DOMAIN answers' :
              \/ i \in DOMAIN answers
              \/ /\ \A j \in DOMAIN answers : j < i
                 /\ \A j \in DOMAIN answers' : j <= i
                 /\ answers'[i].CSeq = ParsedCSeq(RecvBuf) /\ ParsedCSeq(RecvBuf) # 0
                 /\ answers'[i].of = k
                 /\ answers'[i].type = m_RtspCmdType' /\ Responds(m_RtspCmdType')
         /\ ParsedCSeq(RecvBuf) # 0 /\ Responds(m_RtspCmdType')
              => \E i \in DOMAIN answers' : answers'[i].of = k
<1> DEFINE A == [CSeq : 1 .. MaxRequests, type : Commands \ Unhandled,
                 of : 1 .. MaxRequests, code : {200, 404}]
           sent == ParsedCSeq(RecvBuf) # 0 /\ Responds(m_RtspCmdType')
           a == [CSeq |-> ParsedCSeq(RecvBuf), type |-> m_RtspCmdType', of |-> k,
                 code |-> Code(Head(RecvBuf), m_RtspCmdType')]
<1>1. answers \in Seq(A)
  BY DEF IInv, TypeOK
<1>2. answers' = IF sent THEN Append(answers, a) ELSE answers
  BY NewAnswer
<1>3. sent => a \in A
  <2>1. ParsedCSeq(RecvBuf) # 0 => ParsedCSeq(RecvBuf) \in 1 .. MaxRequests
    BY NewAnswer
  <2>2. Responds(m_RtspCmdType') => m_RtspCmdType' \in Commands \ Unhandled
    BY NewType DEF Responds, Unhandled
  <2>3. k \in 1 .. MaxRequests
    BY DEF KthHandled
  <2>4. Code(Head(RecvBuf), m_RtspCmdType') \in {200, 404}
    BY DEF Code
  <2> QED
    BY <2>1, <2>2, <2>3, <2>4
<1>4. a.CSeq = ParsedCSeq(RecvBuf) /\ a.of = k /\ a.type = m_RtspCmdType'
  OBVIOUS
<1>5. sent => ParsedCSeq(RecvBuf) # 0 /\ Responds(m_RtspCmdType')
  OBVIOUS
<1>6. ParsedCSeq(RecvBuf) # 0 /\ Responds(m_RtspCmdType') => sent
  OBVIOUS
<1> HIDE DEF A, a, sent
<1>7. CASE ~sent
  BY <1>1, <1>2, <1>6, <1>7 DEF A
<1>8. CASE sent
  <2>1. answers' = Append(answers, a) /\ a \in A
    BY <1>2, <1>3, <1>8
  <2>2. /\ answers' \in Seq(A) /\ Len(answers) \in Nat /\ DOMAIN answers = 1 .. Len(answers)
        /\ DOMAIN answers' = 1 .. Len(answers) + 1
        /\ answers'[Len(answers) + 1] = a
        /\ \A i \in 1 .. Len(answers) : answers'[i] = answers[i]
    BY <1>1, <2>1
  <2>3. \A i \in DOMAIN answers' : i \in DOMAIN answers \/ i = Len(answers) + 1
    BY <2>2
  <2>4. Len(answers) + 1 \in DOMAIN answers' /\ \A j \in DOMAIN answers : j < Len(answers) + 1
        /\ j \in DOMAIN answers'
    BY <2>2
  <2>5. \A j \in DOMAIN answers' : j <= Len(answers) + 1
    BY <2>2
  <2> QED
    BY <1>4, <1>5, <1>8, <2>2, <2>3, <2>4, <2>5 DEF A
<1> QED
  BY <1>7, <1>8

LEMMA HandlesTypeOK ==
  ASSUME IInv, SessionHandles, NEW k, KthHandled(k)
  PROVE  TypeOK'
<1>1. /\ UNCHANGED <<socket, up, watcher, timer, index, RecvBuf>>
      /\ session' \in {"closed", "scan"}
      /\ StreamingStarted' = (StreamingStarted \/ Starts(m_RtspCmdType'))
  BY DEF SessionHandles
<1>2. /\ handled' \in Seq(Seq(1 .. MaxRequests))
      /\ answers' \in Seq([CSeq : 1 .. MaxRequests, type : Commands \ Unhandled,
                           of : 1 .. MaxRequests, code : {200, 404}])
  BY AnswersBefore DEF KthHandled
<1>3. m_RtspCmdType' \in Commands \cup {"UNKNOWN"}
  BY NewType
<1>4. m_CSeq' \in 0 .. MaxRequests
  <2>1. m_CSeq \in 0 .. MaxRequests
    BY DEF IInv, TypeOK
  <2>2. /\ m_CSeq' \in {m_CSeq, ParsedCSeq(RecvBuf)}
        /\ ParsedCSeq(RecvBuf) = 0 \/ ParsedCSeq(RecvBuf) \in 1 .. MaxRequests
    BY NewAnswer
  <2> QED
    BY <2>1, <2>2, RequestsAssumption
<1>5. /\ m_TcpTransport' \in BOOLEAN
      /\ m_ClientRTPPort' \in 0 .. MaxRequests /\ m_RtpClientPort' \in -1 .. MaxRequests
  <2>1. PICK found \in Found(RecvBuf) :
          /\ m_TcpTransport' = IF m_RtspCmdType' = "SETUP" THEN found.tcp ELSE m_TcpTransport
          /\ m_ClientRTPPort' = IF found.port = 0 THEN m_ClientRTPPort ELSE found.port
    BY DEF SessionHandles
  <2>2. found.port \in 0 .. MaxRequests /\ found.tcp \in BOOLEAN
    BY FoundInBuffer DEF IInv, KthHandled
  <2>3. /\ m_TcpTransport \in BOOLEAN
        /\ m_ClientRTPPort \in 0 .. MaxRequests /\ m_RtpClientPort \in -1 .. MaxRequests
    BY DEF IInv, TypeOK
  <2>4. m_RtpClientPort' \in {m_ClientRTPPort', m_RtpClientPort}
    BY DEF SessionHandles
  <2>5. m_TcpTransport' \in BOOLEAN /\ m_ClientRTPPort' \in 0 .. MaxRequests
    BY <2>1, <2>2, <2>3
  <2> QED
    BY <2>3, <2>4, <2>5, RequestsAssumption
<1>6. /\ requests \in Seq(Requests) /\ Len(requests) <= MaxRequests
      /\ unread \in Seq(1 .. MaxRequests) /\ Len(unread) <= MaxUnread
      /\ RecvBuf \in Seq(1 .. MaxRequests)
      /\ hungUp \in BOOLEAN /\ StreamingStarted \in BOOLEAN
      /\ up \subseteq {0, 1} /\ index \in {-1, 0, 1}
      /\ watcher \in {"select", "set"} /\ timer \in {"due", "sleeping"}
  BY DEF IInv, TypeOK
<1>7. StreamingStarted' \in BOOLEAN
  BY <1>1, <1>6 DEF Starts
<1> QED
  BY <1>1, <1>2, <1>3, <1>4, <1>5, <1>6, <1>7 DEF TypeOK, socket

LEMMA HandlesBuffersInOrder ==
  ASSUME IInv, SessionHandles, NEW k, KthHandled(k)
  PROVE  BuffersInOrder'
<1>1. /\ DOMAIN handled = 1 .. k - 1 /\ DOMAIN handled' = 1 .. k /\ k \in 1 .. MaxRequests
      /\ handled'[k] = RecvBuf /\ Buffer(RecvBuf) /\ RecvBuf # <<>> /\ RecvBuf[1] >= k
      /\ requests' = requests /\ \A h \in DOMAIN handled : handled'[h] = handled[h]
  BY DEF KthHandled, Kept
<1>2. unread' = unread /\ RecvBuf' = RecvBuf /\ session = "handle" /\ session' # "handle"
  BY DEF SessionHandles, socket
<1>3. Buffer(unread) /\ Below(RecvBuf, unread)
  BY <1>2 DEF IInv, BuffersInOrder
<1>4. ASSUME NEW h \in DOMAIN handled
      PROVE  /\ Buffer(handled[h]) /\ handled[h] # <<>>
             /\ Below(handled[h], unread) /\ Below(handled[h], RecvBuf)
             /\ \A g \in DOMAIN handled : g < h => Below(handled[g], handled[h])
             /\ handled[h][1] >= h
  BY <1>2 DEF IInv, BuffersInOrder
<1>6. ASSUME NEW h \in DOMAIN handled'
      PROVE  /\ Buffer(handled'[h]) /\ handled'[h] # <<>>
             /\ Below(handled'[h], unread')
             /\ \A g \in DOMAIN handled' : g < h => Below(handled'[g], handled'[h])
             /\ handled'[h][1] >= h
  <2>1. CASE h = k
    <3>1. \A g \in DOMAIN handled' : g < h => g \in DOMAIN handled
      BY <1>1, <2>1
    <3>2. \A g \in DOMAIN handled' : g < h => Below(handled'[g], handled'[h])
      BY <1>1, <1>4, <2>1, <3>1
    <3> QED
      BY <1>1, <1>2, <1>3, <2>1, <3>2
  <2>2. CASE h # k
    <3>1. h \in DOMAIN handled /\ \A g \in DOMAIN handled' : g < h => g \in DOMAIN handled
      BY <1>1, <2>2
    <3>2. handled'[h] = handled[h] /\ \A g \in DOMAIN handled' : g < h => handled'[g] = handled[g]
      BY <1>1, <3>1
    <3>3. \A g \in DOMAIN handled' : g < h => Below(handled'[g], handled'[h])
      BY <1>4, <3>1, <3>2
    <3> QED
      BY <1>2, <1>4, <3>1, <3>2, <3>3
  <2> QED
    BY <2>1, <2>2
<1>7. Buffer(unread)'
  BY <1>1, <1>2, <1>3 DEF Buffer
<1>8. \A h \in DOMAIN handled' :
        /\ Buffer(handled[h])' /\ handled'[h] # <<>>
        /\ Below(handled[h], unread)'
        /\ \A g \in DOMAIN handled' : g < h => Below(handled[g], handled[h])'
        /\ handled'[h][1] >= h
  BY <1>1, <1>6 DEF Buffer, Below
<1> QED
  BY <1>2, <1>7, <1>8 DEF BuffersInOrder

LEMMA HandlesAnswers ==
  ASSUME IInv, SessionHandles, NEW k, KthHandled(k)
  PROVE  AnswersFollow' /\ AnswersLastCommand' /\ OthersAreAnswered' /\ TypeFollows'
<1>1. /\ DOMAIN handled = 1 .. k - 1 /\ DOMAIN handled' = 1 .. k /\ k \in 1 .. MaxRequests
      /\ Len(handled') = k /\ handled'[k] = RecvBuf
      /\ requests' = requests /\ \A h \in DOMAIN handled : handled'[h] = handled[h]
      /\ Kept
  BY DEF KthHandled, Kept
<1>2. \A h \in DOMAIN handled : WordHandled(h)' = WordHandled(h)
  BY <1>1, HistoryKept DEF IInv
<1>3. IF \E g \in 1 .. k : WordHandled(g)' \in Commands
      THEN m_RtspCmdType' = CommandBy(k)' /\ m_RtspCmdType' \in Commands
      ELSE m_RtspCmdType' = "UNKNOWN"
  BY NewType
<1>4. /\ \A i \in DOMAIN answers : i \in DOMAIN answers' /\ answers'[i] = answers[i]
      /\ \A i \in DOMAIN answers' :
           \/ i \in DOMAIN answers
           \/ /\ \A j \in DOMAIN answers : j < i
              /\ \A j \in DOMAIN answers' : j <= i
              /\ answers'[i].CSeq = ParsedCSeq(RecvBuf) /\ ParsedCSeq(RecvBuf) # 0
              /\ answers'[i].of = k
              /\ answers'[i].type = m_RtspCmdType' /\ Responds(m_RtspCmdType')
      /\ ParsedCSeq(RecvBuf) # 0 /\ Responds(m_RtspCmdType')
           => \E i \in DOMAIN answers' : answers'[i].of = k
  BY AnswersBefore
<1>5. /\ ParsedCSeq(RecvBuf) # 0 =>
           /\ ParsedCSeq(RecvBuf) \in ToSet(RecvBuf)
           /\ \A n \in ToSet(RecvBuf) : requests[n].numbered => ParsedCSeq(RecvBuf) <= n
      /\ ParsedCSeq(RecvBuf) = 0 <=> \A n \in ToSet(RecvBuf) : ~requests[n].numbered
  BY NewAnswer
<1>6. \A i \in DOMAIN answers :
        /\ answers[i].of \in 1 .. k - 1
        /\ \E g \in 1 .. answers[i].of : WordHandled(g) \in Commands
  BY <1>1 DEF IInv, AnswersFollow
<1>7. Responds(m_RtspCmdType') =>
        /\ \E g \in 1 .. k : WordHandled(g)' \in Commands
        /\ m_RtspCmdType' = CommandBy(k)'
  BY <1>3 DEF Responds, Unhandled
<1>8. AnswersFollow'
  <2>0. DOMAIN answers' \subseteq Int /\ DOMAIN answers \subseteq Int
    <3> DEFINE A == [CSeq : 1 .. MaxRequests, type : Commands \ Unhandled,
                     of : 1 .. MaxRequests, code : {200, 404}]
    <3>1. answers \in Seq(A) /\ answers' \in Seq(A)
      BY AnswersBefore DEF IInv, TypeOK
    <3> HIDE DEF A
    <3> QED
      BY <3>1
  <2> SUFFICES ASSUME NEW i \in DOMAIN answers'
               PROVE  /\ answers'[i].of \in DOMAIN handled'
                      /\ \E g \in 1 .. answers'[i].of : WordHandled(g)' \in Commands
                      /\ \A j \in DOMAIN answers' : i < j => answers'[i].of < answers'[j].of
                      /\ answers'[i].CSeq \in ToSet(handled'[answers'[i].of])
                      /\ \A n \in ToSet(handled'[answers'[i].of]) :
                           requests'[n].numbered => answers'[i].CSeq <= n
    BY DEF AnswersFollow, ToSet
  <2>1. CASE i \in DOMAIN answers
    <3>1. PICK h \in 1 .. k - 1 : h = answers[i].of
      BY <1>6, <2>1
    <3>2. answers'[i] = answers[i] /\ handled'[h] = handled[h] /\ h \in 1 .. k
      BY <1>1, <1>4, <2>1
    <3>3. \E g \in 1 .. h : WordHandled(g)' \in Commands
      <4>1. \A g \in 1 .. h : g \in DOMAIN handled
        BY <1>1
      <4> QED
        BY <1>2, <1>6, <2>1, <3>1, <4>1
    <3>4. ASSUME NEW j \in DOMAIN answers', i < j PROVE h < answers'[j].of
      <4>1. CASE j \in DOMAIN answers
        BY <1>4, <2>1, <3>1, <3>4, <4>1 DEF IInv, AnswersFollow
      <4>2. CASE j \notin DOMAIN answers
        BY <1>1, <1>4, <3>1, <4>2
      <4> QED
        BY <4>1, <4>2
    <3>5. /\ answers[i].CSeq \in ToSet(handled[h])
          /\ \A n \in ToSet(handled[h]) : requests[n].numbered => answers[i].CSeq <= n
      BY <2>1, <3>1 DEF IInv, AnswersFollow
    <3> QED
      BY <1>1, <3>1, <3>2, <3>3, <3>4, <3>5
  <2>2. CASE i \notin DOMAIN answers
    <3>1. \A j \in DOMAIN answers' : ~ (i < j)
      <4>1. \A j \in DOMAIN answers' : j <= i
        BY <1>4, <2>2
      <4> QED
        BY <2>0, <4>1
    <3>2. answers'[i].of = k /\ k \in 1 .. k /\ Responds(m_RtspCmdType')
          /\ answers'[i].CSeq = ParsedCSeq(RecvBuf) /\ ParsedCSeq(RecvBuf) # 0
      BY <1>1, <1>4, <2>2
    <3> QED
      BY <1>1, <1>5, <1>7, <3>1, <3>2
  <2> QED
    BY <2>1, <2>2
<1>9. AnswersLastCommand'
  <2> SUFFICES ASSUME NEW i \in DOMAIN answers'
               PROVE  answers'[i].type = CommandBy(answers[i].of)'
    BY DEF AnswersLastCommand
  <2>1. CASE i \in DOMAIN answers
    <3>1. PICK h \in DOMAIN handled : h = answers[i].of /\ h = answers'[i].of
      BY <1>1, <1>4, <1>6, <2>1
    <3>2. CommandBy(h)' = CommandBy(h)
      BY <1>1, <1>6, <2>1, <3>1, CommandKept DEF IInv
    <3>3. answers'[i].type = CommandBy(h)'
      BY <1>4, <2>1, <3>1, <3>2 DEF IInv, AnswersLastCommand
    <3> QED
      BY <3>1, <3>3, Zenon
  <2>2. CASE i \notin DOMAIN answers
    <3>1. answers'[i].type = CommandBy(k)' /\ k = answers'[i].of
      BY <1>4, <1>7, <2>2
    <3> QED
      BY <3>1, Zenon
  <2> QED
    BY <2>1, <2>2
<1>10. TypeFollows'
  <2> DEFINE l == Len(handled')
  <2>1. l = k
    BY <1>1
  <2> QED
    BY <1>1, <1>3, <2>1 DEF TypeFollows, CommandBy, WordHandled
<1>11. OthersAreAnswered'
  <2>1. ASSUME NEW h \in DOMAIN handled, ~MayStayUnanswered(h)'
        PROVE  \E i \in DOMAIN answers' : answers'[i].of = h
    <3>1. ~MayStayUnanswered(h)
      BY <1>1, <2>1, MayStayKept DEF IInv
    <3>2. PICK i \in DOMAIN answers : answers[i].of = h
      BY <3>1 DEF IInv, OthersAreAnswered
    <3> QED
      BY <1>4, <3>2
  <2>2. MayStayUnanswered(k)' \/ \E i \in DOMAIN answers' : answers'[i].of = k
    <3>1. CASE ParsedCSeq(RecvBuf) = 0
      BY <1>1, <1>5, <3>1 DEF MayStayUnanswered, ToSet
    <3>2. CASE m_RtspCmdType' \in Unhandled
      BY <1>3, <3>2 DEF MayStayUnanswered, Unhandled, Commands
    <3>3. CASE m_RtspCmdType' = "SETUP" /\ m_TcpTransport'
      <4>1. PICK found \in Found(RecvBuf) : found.tcp
        BY <3>3 DEF SessionHandles
      <4>2. /\ ~NamesPort(Head(RecvBuf))
            /\ \/ AsksTcp(ToSet(RecvBuf))
               \/ \E h \in DOMAIN handled : AsksTcp(ToSet(handled[h]))
        BY <4>1, FoundInBuffer DEF IInv, KthHandled
      <4>3. \E g \in 1 .. k : AsksTcp(ToSet(handled[g]))'
        <5>1. \A h \in DOMAIN handled : h \in 1 .. k
                /\ (AsksTcp(ToSet(handled[h]))' <=> AsksTcp(ToSet(handled[h])))
          BY <1>1, HistoryKept DEF IInv
        <5>2. k \in 1 .. k /\ (AsksTcp(ToSet(handled[k]))' <=> AsksTcp(ToSet(RecvBuf)))
          BY <1>1, KthRequest
        <5> QED
          BY <4>2, <5>1, <5>2
      <4>4. ~NamesPort(Head(handled[k]))' /\ CommandBy(k)' = "SETUP"
        BY <1>3, <3>3, <4>2, KthRequest
      <4> QED
        BY <4>3, <4>4 DEF MayStayUnanswered
    <3>4. CASE ParsedCSeq(RecvBuf) # 0 /\ Responds(m_RtspCmdType')
      BY <1>4, <3>4
    <3> QED
      BY <3>1, <3>2, <3>3, <3>4 DEF Responds
  <2>3. \A h \in DOMAIN handled' : h \in DOMAIN handled \/ h = k
    BY <1>1
  <2> QED
    BY <2>1, <2>2, <2>3 DEF OthersAreAnswered
<1> QED
  BY <1>8, <1>9, <1>10, <1>11

\* The kth request is one of the SETUPs or leaves them as they were.
LEMMA NewSetups ==
  ASSUME IInv, SessionHandles, NEW k, KthHandled(k)
  PROVE  /\ SetupsHandled \subseteq 1 .. MaxRequests
         /\ \A n \in SetupsHandled : n < Head(RecvBuf)
         /\ SetupsHandled' = IF NamesPort(Head(RecvBuf)) /\ ParsedCSeq(RecvBuf) # 0
                             THEN SetupsHandled \cup {Head(RecvBuf)} ELSE SetupsHandled
<1>1. /\ DOMAIN handled = 1 .. k - 1 /\ DOMAIN handled' = 1 .. k /\ k \in 1 .. MaxRequests
      /\ handled'[k] = RecvBuf /\ Buffer(RecvBuf) /\ RecvBuf # <<>>
      /\ \A h \in DOMAIN handled : handled'[h] = handled[h]
      /\ Kept
  BY DEF KthHandled, Kept
<1>2. ASSUME NEW h \in DOMAIN handled
      PROVE  Head(handled[h]) \in 1 .. MaxRequests /\ Head(handled[h]) < Head(RecvBuf)
  <2>1. /\ handled[h] \in Seq(1 .. MaxRequests) /\ handled[h] # <<>>
        /\ RecvBuf \in Seq(1 .. MaxRequests) /\ RecvBuf # <<>>
        /\ Below(handled[h], RecvBuf)
    BY <1>1 DEF SessionHandles, IInv, BuffersInOrder, Buffer
  <2>2. /\ 1 \in DOMAIN handled[h] /\ handled[h][1] \in 1 .. MaxRequests
        /\ Head(handled[h]) = handled[h][1]
    BY <2>1, FirstElement
  <2>3. 1 \in DOMAIN RecvBuf /\ Head(RecvBuf) = RecvBuf[1]
    BY <2>1, FirstElement
  <2> QED
    BY <2>1, <2>2, <2>3 DEF Below
<1> DEFINE Sets(h) == /\ NamesPort(Head(handled[h]))
                      /\ \E n \in ToSet(handled[h]) : requests[n].numbered
<1>3. SetupsHandled = {Head(handled[h]) : h \in {g \in DOMAIN handled : Sets(g)}}
  BY DEF SetupsHandled
<1>4. \A h \in DOMAIN handled : Sets(h)' <=> Sets(h)
  BY <1>1, HistoryKept DEF IInv
<1>5. Sets(k)' <=> NamesPort(Head(RecvBuf)) /\ ParsedCSeq(RecvBuf) # 0
  BY KthRequest, NewAnswer
<1>6. SetupsHandled' = {Head(handled'[h]) : h \in {g \in DOMAIN handled' : Sets(g)'}}
  BY DEF SetupsHandled
<1> HIDE DEF Sets
<1>7. \A g : g \in DOMAIN handled' <=> g \in DOMAIN handled \/ g = k
  BY <1>1
<1>8. \A x : x \in SetupsHandled'
               <=> x \in SetupsHandled \/ (Sets(k)' /\ x = Head(RecvBuf))
  BY <1>1, <1>3, <1>4, <1>6, <1>7
<1> QED
  BY <1>2, <1>3, <1>5, <1>8

LEMMA HandlesStreamsToLastSetup ==
  ASSUME IInv, SessionHandles, NEW k, KthHandled(k)
  PROVE  StreamsToLastSetup'
<1>1. /\ DOMAIN handled = 1 .. k - 1 /\ DOMAIN handled' = 1 .. k /\ k \in 1 .. MaxRequests
      /\ Buffer(RecvBuf) /\ RecvBuf # <<>> /\ Kept
  BY DEF KthHandled
<1> SUFFICES ASSUME \A h \in DOMAIN handled' :
                      /\ WordHandled(h)' \in Commands
                      /\ WordHandled(h)' = "SETUP" => NamesPort(Head(handled[h]))'
             PROVE  m_RtpClientPort' = IF SetupsHandled' = {} THEN -1 ELSE Max(SetupsHandled)'
  BY DEF StreamsToLastSetup
<1>2. m_RtpClientPort = IF SetupsHandled = {} THEN -1 ELSE Max(SetupsHandled)
  <2>1. \A h \in DOMAIN handled :
          /\ h \in DOMAIN handled' /\ WordHandled(h)' = WordHandled(h)
          /\ NamesPort(Head(handled[h]))' <=> NamesPort(Head(handled[h]))
    BY <1>1, HistoryKept DEF IInv
  <2> QED
    BY <2>1 DEF IInv, StreamsToLastSetup
<1>3. /\ WordHandled(k)' \in Commands /\ m_RtspCmdType' = requests[Head(RecvBuf)].word
      /\ requests[Head(RecvBuf)].word = "SETUP" <=> NamesPort(Head(RecvBuf))
  <2>1. k \in DOMAIN handled'
    BY <1>1
  <2>2. requests[Head(RecvBuf)].word = WordHandled(k)'
        /\ (NamesPort(Head(handled[k]))' <=> NamesPort(Head(RecvBuf)))
    BY KthRequest
  <2> QED
    BY <2>1, <2>2 DEF SessionHandles, ParsedType, NamesPort
<1>4. CASE NamesPort(Head(RecvBuf)) /\ ParsedCSeq(RecvBuf) # 0
  <2> DEFINE n == Head(RecvBuf)
             S == SetupsHandled \cup {n}
  <2>1. PICK found \in Found(RecvBuf) :
          m_ClientRTPPort' = IF found.port = 0 THEN m_ClientRTPPort ELSE found.port
    BY DEF SessionHandles
  <2>2. n \in 1 .. MaxRequests
    <3>1. RecvBuf \in Seq(1 .. MaxRequests)
      BY <1>1 DEF Buffer
    <3> QED
      BY <1>1, <3>1, FirstElement
  <2>3. found.port = n
    BY <1>1, <1>4, FoundInBuffer DEF IInv
  <2>4. m_RtpClientPort' = n
    BY <1>3, <1>4, <2>1, <2>2, <2>3 DEF SessionHandles
  <2>5. SetupsHandled' = S
    BY <1>4, NewSetups
  <2>6. SetupsHandled \subseteq 1 .. MaxRequests /\ \A x \in SetupsHandled : x < n
    BY NewSetups
  <2> HIDE DEF n
  <2>7. S \in SUBSET (0 .. MaxRequests) /\ n \in S /\ MaxRequests \in Nat
    BY <2>2, <2>6, RequestsAssumption
  <2>8. Max(S) \in S /\ n <= Max(S)
    <3>1. S # {}
      BY <2>7
    <3> HIDE DEF S
    <3> QED
      BY <2>7, <3>1, MaxIsGreatest
  <2>9. Max(S) = n
    <3>1. \A x \in S : x = n \/ x < n
      BY <2>6
    <3>2. Max(S) = n \/ Max(S) < n
      BY <2>8, <3>1
    <3>3. n \in Nat /\ Max(S) \in Nat
      BY <2>2, <2>7, <2>8
    <3> HIDE DEF S
    <3> QED
      BY <2>8, <3>2, <3>3
  <2> QED
    BY <2>4, <2>5, <2>7, <2>9
<1>5. CASE ~ (NamesPort(Head(RecvBuf)) /\ ParsedCSeq(RecvBuf) # 0)
  <2>1. SetupsHandled' = SetupsHandled
    BY <1>5, NewSetups
  <2>2. m_RtpClientPort' = m_RtpClientPort
    BY <1>3, <1>5 DEF SessionHandles
  <2> QED
    BY <1>2, <2>1, <2>2
<1> QED
  BY <1>4, <1>5

LEMMA HandlesStreaming ==
  ASSUME IInv, SessionHandles, NEW k, KthHandled(k)
  PROVE  StreamingFollows'
<1>1. /\ DOMAIN handled = 1 .. k - 1 /\ DOMAIN handled' = 1 .. k /\ k \in 1 .. MaxRequests
      /\ Kept
  BY DEF KthHandled
<1>2. \A h \in DOMAIN handled : h \in DOMAIN handled' /\ WordHandled(h)' = WordHandled(h)
  BY <1>1, HistoryKept DEF IInv
<1>3. /\ session = "handle"
      /\ session' = IF m_RtspCmdType' = "TEARDOWN" THEN "closed" ELSE "scan"
      /\ StreamingStarted' = (StreamingStarted \/ m_RtspCmdType' = "PLAY")
  BY DEF SessionHandles, Starts
<1>4. StreamingStarted' => \E h \in DOMAIN handled' : WordHandled(h)' = "PLAY"
  <2>1. m_RtspCmdType' = "PLAY" => \E h \in 1 .. k : WordHandled(h)' = "PLAY"
    BY NewType
  <2> QED
    BY <1>1, <1>2, <1>3, <2>1 DEF IInv, StreamingFollows
<1>5. (\E h \in DOMAIN handled' : WordHandled(h)' = "TEARDOWN") => session' = "closed"
  <2>1. \A h \in DOMAIN handled : WordHandled(h) # "TEARDOWN"
    BY <1>3 DEF IInv, StreamingFollows
  <2>2. WordHandled(k)' = "TEARDOWN" => m_RtspCmdType' = "TEARDOWN"
    BY KthRequest DEF SessionHandles, ParsedType, Commands
  <2>3. \A h \in DOMAIN handled' : h \in DOMAIN handled \/ h = k
    BY <1>1
  <2> QED
    BY <1>2, <1>3, <2>1, <2>2, <2>3
<1> QED
  BY <1>3, <1>4, <1>5 DEF StreamingFollows

LEMMA SessionHandlesIInv == IInv /\ SessionHandles => IInv'
<1> SUFFICES ASSUME IInv, SessionHandles PROVE IInv'
  OBVIOUS
<1>1. PICK k : KthHandled(k)
  BY BufferIsKth
<1>2. TypeOK'
  BY <1>1, HandlesTypeOK
<1>3. BuffersInOrder'
  BY <1>1, HandlesBuffersInOrder
<1>4. AnswersFollow' /\ AnswersLastCommand' /\ OthersAreAnswered' /\ TypeFollows'
  BY <1>1, HandlesAnswers
<1>5. StreamsToLastSetup' /\ StreamingFollows'
  BY <1>1, HandlesStreamsToLastSetup, HandlesStreaming
<1> QED
  BY <1>2, <1>3, <1>4, <1>5 DEF IInv

------------------------------------------------------------------------------
(* The theorems.                                                           *)

\* Whatever clients, watcher, timer and session do, and in whatever order, the
\* invariant holds.
THEOREM Inductive == Spec => []IInv
<1>1. Init => IInv
  BY InitIInv
<1>2. IInv /\ [Next]_vars => IInv'
  <2> SUFFICES ASSUME IInv, [Next]_vars PROVE IInv'
    OBVIOUS
  <2>1. CASE ClientSends
    BY <2>1, ClientSendsIInv
  <2>2. CASE SessionReceives
    BY <2>2, SessionReceivesIInv
  <2>3. CASE SessionHandles
    BY <2>3, SessionHandlesIInv
  <2>4. CASE QuietStep \/ UNCHANGED vars
    BY <2>4, QuietStepIInv
  <2> QED
    BY <2>1, <2>2, <2>3, <2>4 DEF Next, SessionNext, QuietStep
<1> QED
  BY <1>1, <1>2, PTL DEF Spec

\* Every variable of the session keeps a value of the program's.
THEOREM TypeCorrect == Spec => []TypeOK
<1>1. IInv => TypeOK
  BY DEF IInv
<1> QED
  BY <1>1, Inductive, PTL

\* The responses thread_function01 sends carry ascending CSeqs, each the first in
\* the buffer it answers.
THEOREM CSeqsAscend == Spec => []AnswersInOrder
<1>1. IInv => AnswersInOrder
  <2> SUFFICES ASSUME IInv PROVE AnswersInOrder
    OBVIOUS
  <2>1. \A i \in DOMAIN answers :
          /\ answers[i].of \in DOMAIN handled
          /\ answers[i].CSeq \in ToSet(handled[answers[i].of])
    BY DEF IInv, AnswersFollow
  <2>2. ASSUME NEW i \in DOMAIN answers, NEW j \in DOMAIN answers, i < j
        PROVE  answers[i].CSeq < answers[j].CSeq
    <3>1. PICK g \in DOMAIN handled : g = answers[i].of
      BY <2>1
    <3>2. PICK h \in DOMAIN handled : h = answers[j].of
      BY <2>1
    <3>3. g < h
      BY <2>2, <3>1, <3>2 DEF IInv, AnswersFollow
    <3>4. Below(handled[g], handled[h])
      BY <3>3 DEF IInv, BuffersInOrder
    <3>5. answers[i].CSeq \in ToSet(handled[g]) /\ answers[j].CSeq \in ToSet(handled[h])
      BY <2>1, <3>1, <3>2
    <3> QED
      BY <3>4, <3>5 DEF Below, ToSet
  <2> QED
    BY <2>2 DEF IInv, AnswersFollow, AnswersInOrder
<1> QED
  BY <1>1, Inductive, PTL

\* A response is that of the last command read: ParseRtspRequest, which keeps the
\* type of an earlier request, never lets an older command answer.
THEOREM LastCommandAnswers == Spec => []AnswersLastCommand
<1>1. IInv => AnswersLastCommand
  BY DEF IInv
<1> QED
  BY <1>1, Inductive, PTL

\* Handle_RtspRequest leaves only those buffers without a response that have no
\* CSeq, no command that is answered, or a SETUP taken for one of TCP transport.
THEOREM NoOtherSilence == Spec => []OthersAreAnswered
<1>1. IInv => OthersAreAnswered
  BY DEF IInv
<1> QED
  BY <1>1, Inductive, PTL

\* The Streamer's port is that of the last SETUP, although the search for it runs
\* on through the rest of the buffer and memory left by earlier requests.
THEOREM LastSetupGetsStream == Spec => []StreamsToLastSetup
<1>1. IInv => StreamsToLastSetup
  BY DEF IInv
<1> QED
  BY <1>1, Inductive, PTL

\* StartStreaming is only called after a PLAY, and not after a TEARDOWN.
THEOREM PlayComesFirst == Spec => []StreamsOnlyAfterPlay
<1>1. IInv => StreamsOnlyAfterPlay
  <2> SUFFICES ASSUME IInv, session = "streaming"
               PROVE  /\ \E h \in DOMAIN handled : WordHandled(h) = "PLAY"
                      /\ \A h \in DOMAIN handled : WordHandled(h) # "TEARDOWN"
    BY DEF StreamsOnlyAfterPlay
  <2> QED
    BY DEF IInv, StreamingFollows
<1> QED
  BY <1>1, Inductive, PTL
=============================================================================
