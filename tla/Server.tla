-------------------------------- MODULE Server --------------------------------
(***************************************************************************)
(* The descriptors of the RTSP server: TcpServer::start_accept opens one   *)
(* for each client, thread_function01 closes it when its session ends, and *)
(* Streamer opens two UDP sockets for each SETUP and a camera for each     *)
(* stream.  The accept loop hands each session the address of its own      *)
(* ClientSocket, so which client a session serves depends on when it       *)
(* looks.  A step is one system call, or one access of ClientSocket.       *)
(***************************************************************************)
EXTENDS Integers, FiniteSets

CONSTANTS
  Descriptors,  \* those the process may have open, beside the listening one
  MaxSessions,  \* bound: how many sessions are created
  FirstPort,    \* 6970
  LastPort,     \* 0xFFFE
  Taken         \* the UDP ports other processes hold

\* What accept and socket return for an error.
NoSocket == -1

ASSUME ServerAssumption ==
  /\ NoSocket \notin Descriptors
  /\ MaxSessions \in Nat
  /\ FirstPort \in Nat \ {0} /\ LastPort \in Nat
  /\ FirstPort <= LastPort /\ (LastPort - FirstPort) % 2 = 0
  /\ Taken \subseteq Nat \ {0}

Sessions == 1 .. MaxSessions   \* numbered as they are accepted

VARIABLES
  ClientSocket,  \* the variable of start_accept
  accepted,      \* how many times accept returned
  created,       \* how many threads were created
  table,         \* [Descriptors -> Files]: the process's open files
  session        \* [Sessions -> the variables of the thread and its Streamer]

vars == <<ClientSocket, accepted, created, table, session>>

\* A file has the session that opened it, or for which its client was accepted.
Files == [kind : {"client", "udp", "camera"}, of : Sessions, port : Nat]
Closed == [kind |-> "closed", of |-> 0, port |-> 0]

Locations == {"none", "starting", "serving", "streaming", "closing", "ended",
              "openRtp", "bindRtp", "closeRtp",
              "openRtcp", "bindRtcp", "closeBoth", "closeRtcp"}

\* A thread before it runs.  Streamer's constructor sets none of the sockets and
\* ports; what memory held is never used once the search found a pair.
NewSession ==
  [at |-> "none", given |-> NoSocket, Client |-> NoSocket,
   StreamingStarted |-> FALSE, P |-> FirstPort, paired |-> FALSE,
   m_RtpSocket |-> NoSocket, m_RtcpSocket |-> NoSocket,
   m_RtpServerPort |-> 0, m_RtcpServerPort |-> 0]

Init ==
  /\ ClientSocket = NoSocket
  /\ accepted = 0 /\ created = 0
  /\ table = [d \in Descriptors |-> Closed]
  /\ session = [s \in Sessions |-> NewSession]

------------------------------------------------------------------------------
(* The operating system. *)

File(kind, s) == [kind |-> kind, of |-> s, port |-> 0]

Free == {d \in Descriptors : table[d] = Closed}

\* What a call that opens a file may return.
Returned == IF Free = {} THEN {NoSocket} ELSE Free

Opened(d, file) == IF d = NoSocket THEN table ELSE [table EXCEPT ![d] = file]

CloseOf(d) == table' = IF d = NoSocket THEN table ELSE [table EXCEPT ![d] = Closed]

\* bind gives an unbound UDP socket a port that no socket has.
CanBind(d, port) ==
  /\ d # NoSocket
  /\ table[d].kind = "udp" /\ table[d].port = 0
  /\ port \notin Taken \cup {table[e].port : e \in Descriptors}

Bind(d, port) == table' = [table EXCEPT ![d].port = port]

------------------------------------------------------------------------------
(* start_accept.  Without a free descriptor accept fails, and a thread is  *)
(* created all the same.                                                   *)

Accept ==
  /\ accepted = created /\ accepted < MaxSessions
  /\ \E d \in Returned :
       /\ ClientSocket' = d
       /\ table' = Opened(d, File("client", accepted + 1))
  /\ accepted' = accepted + 1
  /\ UNCHANGED <<created, session>>

CreateThread ==
  /\ created < accepted
  /\ created' = accepted
  /\ session' = [session EXCEPT ![accepted].at = "starting",
                                ![accepted].given = ClientSocket]
  /\ UNCHANGED <<ClientSocket, accepted, table>>

------------------------------------------------------------------------------
(* thread_function01: only what opens or closes a file. *)

Goto(s, location) == session' = [session EXCEPT ![s].at = location]

ReadClientSocket(s) ==
  /\ session[s].at = "starting"
  /\ session' = [session EXCEPT ![s].at = "serving", ![s].Client = ClientSocket]
  /\ UNCHANGED <<ClientSocket, accepted, created, table>>

\* A request can be read while the session's descriptor is that of a client.
CanReceive(s) ==
  /\ session[s].at = "serving"
  /\ session[s].Client # NoSocket
  /\ table[session[s].Client].kind = "client"

\* Handle_RtspSETUP for UDP transport, up to the loop of InitTransport.
Setup(s) ==
  /\ CanReceive(s)
  /\ session' = [session EXCEPT ![s].at = "openRtp", ![s].P = FirstPort,
                                ![s].paired = FALSE]
  /\ UNCHANGED <<ClientSocket, accepted, created, table>>

Play(s) ==
  /\ CanReceive(s)
  /\ session' = [session EXCEPT ![s].StreamingStarted = TRUE]
  /\ UNCHANGED <<ClientSocket, accepted, created, table>>

Teardown(s) ==
  /\ CanReceive(s)
  /\ Goto(s, "closing")
  /\ UNCHANGED <<ClientSocket, accepted, created, table>>

BugClosesShared(s) == ClientSocket   \* the accept loop's variable

ToClose(s) == session[s].Client

CloseClient(s) ==
  /\ session[s].at = "closing"
  /\ CloseOf(ToClose(s))
  /\ Goto(s, "ended")
  /\ UNCHANGED <<ClientSocket, accepted, created>>

\* Every tick after a PLAY: StreamingStarted stays TRUE.  The InputReader that
\* opens the camera is never deleted; one that cannot open it returns at once.
StartStreaming(s) ==
  /\ session[s].at = "serving" /\ session[s].StreamingStarted
  /\ \E d \in Free : table' = Opened(d, File("camera", s))
  /\ Goto(s, "streaming")
  /\ UNCHANGED <<ClientSocket, accepted, created>>

StreamingEnds(s) ==
  /\ session[s].at = "streaming"
  /\ Goto(s, "serving")
  /\ UNCHANGED <<ClientSocket, accepted, created, table>>

------------------------------------------------------------------------------
(* The loop of Streamer::InitTransport. *)

BugPastTheEnd(P) == P <= LastPort   \* one pair too many

InRange(P) == P < LastPort

OpenRtp(s) ==
  /\ session[s].at = "openRtp"
  /\ InRange(session[s].P)
  /\ \E d \in Returned :
       /\ table' = Opened(d, File("udp", s))
       /\ session' = [session EXCEPT ![s].at = "bindRtp", ![s].m_RtpSocket = d]
  /\ UNCHANGED <<ClientSocket, accepted, created>>

\* The response names the ports the last search that found a pair left.
GiveUp(s) ==
  /\ session[s].at = "openRtp"
  /\ ~InRange(session[s].P)
  /\ Goto(s, "serving")
  /\ UNCHANGED <<ClientSocket, accepted, created, table>>

BindRtp(s) ==
  LET d == session[s].m_RtpSocket P == session[s].P IN
  /\ session[s].at = "bindRtp"
  /\ \/ CanBind(d, P) /\ Bind(d, P) /\ Goto(s, "openRtcp")
     \/ ~CanBind(d, P) /\ Goto(s, "closeRtp") /\ UNCHANGED table
  /\ UNCHANGED <<ClientSocket, accepted, created>>

OpenRtcp(s) ==
  /\ session[s].at = "openRtcp"
  /\ \E d \in Returned :
       /\ table' = Opened(d, File("udp", s))
       /\ session' = [session EXCEPT ![s].at = "bindRtcp", ![s].m_RtcpSocket = d]
  /\ UNCHANGED <<ClientSocket, accepted, created>>

BindRtcp(s) ==
  LET d == session[s].m_RtcpSocket P == session[s].P IN
  /\ session[s].at = "bindRtcp"
  /\ \/ /\ CanBind(d, P + 1) /\ Bind(d, P + 1)
        /\ session' = [session EXCEPT ![s].at = "serving", ![s].paired = TRUE,
                                      ![s].m_RtpServerPort = P,
                                      ![s].m_RtcpServerPort = P + 1]
     \/ ~CanBind(d, P + 1) /\ Goto(s, "closeBoth") /\ UNCHANGED table
  /\ UNCHANGED <<ClientSocket, accepted, created>>

NextPair(s) ==
  session' = [session EXCEPT ![s].at = "openRtp", ![s].P = @ + 2]

CloseRtp(s) ==
  /\ session[s].at = "closeRtp"
  /\ CloseOf(session[s].m_RtpSocket)
  /\ NextPair(s)
  /\ UNCHANGED <<ClientSocket, accepted, created>>

CloseBoth(s) ==
  /\ session[s].at = "closeBoth"
  /\ CloseOf(session[s].m_RtpSocket)
  /\ Goto(s, "closeRtcp")
  /\ UNCHANGED <<ClientSocket, accepted, created>>

BugSameSocket(s) == session[s].m_RtpSocket   \* closed a second time instead

SecondToClose(s) == session[s].m_RtcpSocket

CloseRtcp(s) ==
  /\ session[s].at = "closeRtcp"
  /\ CloseOf(SecondToClose(s))
  /\ NextPair(s)
  /\ UNCHANGED <<ClientSocket, accepted, created>>

------------------------------------------------------------------------------
InitTransport(s) ==
  \/ OpenRtp(s) \/ GiveUp(s) \/ BindRtp(s) \/ OpenRtcp(s) \/ BindRtcp(s)
  \/ CloseRtp(s) \/ CloseBoth(s) \/ CloseRtcp(s)

SessionNext(s) ==
  \/ ReadClientSocket(s)
  \/ Setup(s) \/ Play(s) \/ Teardown(s) \/ CloseClient(s)
  \/ StartStreaming(s) \/ StreamingEnds(s)
  \/ InitTransport(s)

Next == Accept \/ CreateThread \/ \E s \in Sessions : SessionNext(s)

Spec == Init /\ [][Next]_vars

------------------------------------------------------------------------------
(* Properties *)

\* Every variable holds a value of the program's, and a search never leaves the
\* range of ports it may announce.
TypeOK ==
  /\ ClientSocket \in Descriptors \cup {NoSocket}
  /\ accepted \in 0 .. MaxSessions /\ created \in {accepted, accepted - 1}
  /\ table \in [Descriptors -> Files \cup {Closed}]
  /\ session \in
       [Sessions ->
          [at : Locations, given : Descriptors \cup {NoSocket},
           Client : Descriptors \cup {NoSocket}, StreamingStarted : BOOLEAN,
           P : FirstPort .. LastPort, paired : BOOLEAN,
           m_RtpSocket : Descriptors \cup {NoSocket},
           m_RtcpSocket : Descriptors \cup {NoSocket},
           m_RtpServerPort : {0} \cup FirstPort .. LastPort - 2,
           m_RtcpServerPort : {0} \cup FirstPort + 1 .. LastPort - 1]]

\* Each session that runs serves the client it was created for: what
\* "RTSP socket to handle an client" and "our threads RTSP session"
\* (TcpServer.cpp:129 and 58) say of ClientSocket and of the session.
ServesItsClient ==
  \A s \in Sessions :
    session[s].at \notin {"none", "starting"} => session[s].Client = session[s].given

\* A session that is not in the middle of a SETUP.
Settled(s) == session[s].at \in {"serving", "streaming", "closing", "ended"}

\* While no session got the wrong client, a pair that SETUP announced stays the
\* session's: both sockets are open and have the ports the client was told,
\* whatever the other sessions open and close.
PairIsHeld ==
  ServesItsClient =>
    \A s \in Sessions :
      Settled(s) /\ session[s].paired =>
        /\ table[session[s].m_RtpSocket] =
             [kind |-> "udp", of |-> s, port |-> session[s].m_RtpServerPort]
        /\ table[session[s].m_RtcpSocket] =
             [kind |-> "udp", of |-> s, port |-> session[s].m_RtcpServerPort]

\* The UDP ports of a session.
PortsOf(s) ==
  {table[d].port : d \in {e \in Descriptors : table[e].kind = "udp" /\ table[e].of = s}}

\* While no session got the wrong client, searches leave no half pair and no
\* unbound socket behind, however they end and however many there were.
SearchLeavesPairs ==
  ServesItsClient =>
    \A s \in Sessions :
      Settled(s) =>
        \A port \in PortsOf(s) :
          IF (port - FirstPort) % 2 = 0 THEN port + 1 \in PortsOf(s)
                                        ELSE port - 1 \in PortsOf(s)

\* While no session got the wrong client, a file is closed by the session it
\* belongs to, though descriptors are used again as soon as they are free.
ClosesItsOwn ==
  [][ServesItsClient' =>
       \A d \in Descriptors :
         table[d] # Closed /\ table'[d] = Closed =>
           session'[table[d].of] # session[table[d].of]]_vars
=============================================================================
