----------------------------- MODULE ServerProofs -----------------------------
(***************************************************************************)
(* Theorems about the server's descriptors and ports, for every number of  *)
(* sessions and descriptors and every range of ports.                      *)
(***************************************************************************)
EXTENDS Server, TLAPS

------------------------------------------------------------------------------
(* The inductive invariant.                                                *)

Binding == {"bindRtp", "closeRtp", "openRtcp", "bindRtcp", "closeBoth", "closeRtcp"}

\* A search visits the even distances from FirstPort, and opens none past the end.
SearchInRange ==
  \A s \in Sessions :
    /\ (session[s].P - FirstPort) % 2 = 0
    /\ session[s].at \in Binding => session[s].P < LastPort

\* Sessions are created in the order of their numbers.
Numbered ==
  /\ created \in Nat
  /\ \A s \in Sessions : s > created => session[s] = NewSession

TypeInv == TypeOK /\ SearchInRange /\ Numbered

\* Until its session has one, the descriptor of a client is open for it.
AcceptedIsOpen ==
  created < accepted /\ ClientSocket # NoSocket =>
    table[ClientSocket] = File("client", accepted)

\* The descriptor a session was created for is open until the session closes it.
ClientIsOpen(s) ==
  session[s].at \notin {"none", "ended"} /\ session[s].given # NoSocket =>
    table[session[s].given] = File("client", s)

Udp(s, port) == [kind |-> "udp", of |-> s, port |-> port]

\* The sockets a search has in hand.
InHand(s) ==
  (IF session[s].at \in {"bindRtp", "closeRtp", "openRtcp", "bindRtcp", "closeBoth"}
   THEN {session[s].m_RtpSocket} ELSE {})
  \cup (IF session[s].at \in {"bindRtcp", "closeBoth", "closeRtcp"}
        THEN {session[s].m_RtcpSocket} ELSE {})

\* They are open, the first one bound once the second is looked for.
SocketsInHand(s) ==
  /\ session[s].at \in {"bindRtp", "closeRtp"} /\ session[s].m_RtpSocket # NoSocket =>
       table[session[s].m_RtpSocket] = Udp(s, 0)
  /\ session[s].at \in {"openRtcp", "bindRtcp", "closeBoth"} =>
       /\ session[s].m_RtpSocket # NoSocket
       /\ table[session[s].m_RtpSocket] = Udp(s, session[s].P)
  /\ session[s].at \in {"bindRtcp", "closeBoth", "closeRtcp"} /\ session[s].m_RtcpSocket # NoSocket =>
       table[session[s].m_RtcpSocket] = Udp(s, 0)

\* A pair that was found is held until the next search.
PairInUse(s) ==
  session[s].paired =>
    /\ Settled(s)
    /\ session[s].m_RtpSocket # NoSocket /\ session[s].m_RtcpSocket # NoSocket
    /\ table[session[s].m_RtpSocket] = Udp(s, session[s].m_RtpServerPort)
    /\ table[session[s].m_RtcpSocket] = Udp(s, session[s].m_RtcpServerPort)

Partner(port) == IF (port - FirstPort) % 2 = 0 THEN port + 1 ELSE port - 1

\* The UDP sockets of a session that no search has in hand.
Idle(s) ==
  {d \in Descriptors : table[d].kind = "udp" /\ table[d].of = s /\ d \notin InHand(s)}

IdleArePaired(s) ==
  \A d \in Idle(s) : \E e \in Idle(s) : table[e].port = Partner(table[d].port)

HoldsItsFiles(s) ==
  ClientIsOpen(s) /\ SocketsInHand(s) /\ PairInUse(s) /\ IdleArePaired(s)

IInv ==
  /\ TypeInv
  /\ ServesItsClient => AcceptedIsOpen /\ \A s \in Sessions : HoldsItsFiles(s)

------------------------------------------------------------------------------
(* Types.                                                                  *)

Sockets == Descriptors \cup {NoSocket}

SessionRecords ==
  [at : Locations, given : Sockets, Client : Sockets, StreamingStarted : BOOLEAN,
   P : FirstPort .. LastPort, paired : BOOLEAN,
   m_RtpSocket : Sockets, m_RtcpSocket : Sockets,
   m_RtpServerPort : {0} \cup FirstPort .. LastPort - 2,
   m_RtcpServerPort : {0} \cup FirstPort + 1 .. LastPort - 1]

\* What opens, binds and closes files keeps a table of files.
LEMMA TableTypes ==
  ASSUME table \in [Descriptors -> Files \cup {Closed}]
  PROVE  /\ \A d \in Sockets, s \in Sessions, kind \in {"client", "udp", "camera"} :
              Opened(d, File(kind, s)) \in [Descriptors -> Files \cup {Closed}]
         /\ \A d \in Sockets :
              CloseOf(d) => table' \in [Descriptors -> Files \cup {Closed}]
         /\ \A d \in Sockets, port \in Nat :
              CanBind(d, port) /\ Bind(d, port) =>
                table' \in [Descriptors -> Files \cup {Closed}]
<1>1. ASSUME NEW d \in Sockets, NEW s \in Sessions,
             NEW kind \in {"client", "udp", "camera"}
      PROVE  Opened(d, File(kind, s)) \in [Descriptors -> Files \cup {Closed}]
  BY DEF Opened, File, Files, Sockets
<1>2. ASSUME NEW d \in Sockets, CloseOf(d)
      PROVE  table' \in [Descriptors -> Files \cup {Closed}]
  BY <1>2 DEF CloseOf, Sockets
<1>3. ASSUME NEW d \in Sockets, NEW port \in Nat, CanBind(d, port), Bind(d, port)
      PROVE  table' \in [Descriptors -> Files \cup {Closed}]
  <2>1. d \in Descriptors /\ table[d] \in Files
    BY <1>3 DEF CanBind, Sockets, Closed
  <2>2. [table[d] EXCEPT !.port = port] \in Files
    BY <2>1 DEF Files
  <2> QED
    BY <1>3, <2>1, <2>2 DEF Bind
<1> QED
  BY <1>1, <1>2, <1>3

LEMMA InitTypeInv == Init => TypeInv
  BY ServerAssumption
  DEF Init, TypeInv, TypeOK, SearchInRange, Numbered, NewSession, Locations,
      Binding, Closed

\* A session changes its own record only, which keeps its type, its place in the
\* range of ports and its number.
OwnRecord(s) ==
  /\ session' = [session EXCEPT ![s] = session'[s]]
  /\ session'[s] \in SessionRecords
  /\ (session'[s].P - FirstPort) % 2 = 0
  /\ session'[s].at \in Binding => session'[s].P < LastPort
  /\ s <= created

LEMMA OneRecordTypeInv ==
  ASSUME TypeInv, NEW s \in Sessions, OwnRecord(s),
         table' \in [Descriptors -> Files \cup {Closed}],
         UNCHANGED <<ClientSocket, accepted, created>>
  PROVE  TypeInv'
<1>1. session \in [Sessions -> SessionRecords]
  BY DEF TypeInv, TypeOK, SessionRecords, Sockets
<1>2. session' \in [Sessions -> SessionRecords]
  BY <1>1 DEF OwnRecord
<1>3. TypeOK'
  BY <1>2 DEF TypeInv, TypeOK, SessionRecords, Sockets
<1>4. SearchInRange'
  BY <1>1 DEF TypeInv, SearchInRange, OwnRecord
<1>5. Numbered'
  <2> SUFFICES ASSUME NEW t \in Sessions, t > created' PROVE session'[t] = NewSession
    BY DEF TypeInv, Numbered
  <2>1. t # s
    BY ServerAssumption DEF OwnRecord, TypeInv, Numbered, Sessions
  <2> QED
    BY <1>1, <2>1 DEF OwnRecord, TypeInv, Numbered
<1> QED
  BY <1>3, <1>4, <1>5 DEF TypeInv

LEMMA SessionStepType ==
  ASSUME TypeInv, NEW s \in Sessions, SessionNext(s)
  PROVE  /\ OwnRecord(s)
         /\ table' \in [Descriptors -> Files \cup {Closed}]
         /\ UNCHANGED <<ClientSocket, accepted, created>>
<1> USE DEF SessionRecords, OwnRecord
<1>1. /\ session \in [Sessions -> SessionRecords] /\ session[s] \in SessionRecords
      /\ table \in [Descriptors -> Files \cup {Closed}]
      /\ ClientSocket \in Sockets
      /\ (session[s].P - FirstPort) % 2 = 0
      /\ session[s].at \in Binding => session[s].P < LastPort
  BY DEF TypeInv, TypeOK, SearchInRange, Sockets
<1>2. session[s].at # "none" => s <= created
  BY ServerAssumption DEF TypeInv, TypeOK, Numbered, Sessions, NewSession
<1>3. Returned \subseteq Sockets /\ Free \subseteq Sockets
  BY DEF Returned, Free, Sockets
<1> USE ServerAssumption, <1>1, <1>2, <1>3
<1>4. CASE ReadClientSocket(s)
  BY <1>4 DEF ReadClientSocket, Locations, Binding
<1>15. CASE Play(s)
  BY <1>15 DEF Play, CanReceive, Locations, Binding
<1>5. CASE Setup(s)
  <2> DEFINE searching == [session[s] EXCEPT !.at = "openRtp", !.P = FirstPort, !.paired = FALSE]
  <2>1. session' = [session EXCEPT ![s] = searching]
    BY <1>5 DEF Setup
  <2>2. FirstPort \in FirstPort .. LastPort /\ (FirstPort - FirstPort) % 2 = 0
    OBVIOUS
  <2>3. searching \in SessionRecords /\ searching.P = FirstPort /\ searching.at = "openRtp"
    BY <2>2 DEF Locations
  <2> QED
    BY <1>5, <2>1, <2>2, <2>3 DEF Setup, CanReceive, Binding
<1>6. CASE Teardown(s) \/ StreamingEnds(s) \/ GiveUp(s)
  BY <1>6 DEF Teardown, StreamingEnds, GiveUp, Goto, CanReceive, Locations, Binding
<1>7. CASE CloseClient(s)
  BY <1>7, TableTypes DEF CloseClient, ToClose, Goto, Locations, Binding
<1>8. CASE StartStreaming(s)
  <2>1. table' \in [Descriptors -> Files \cup {Closed}]
    BY <1>8, TableTypes DEF StartStreaming
  <2> QED
    BY <1>8, <2>1 DEF StartStreaming, Goto, Locations, Binding
<1>9. CASE OpenRtp(s)
  <2>1. PICK d \in Returned :
          /\ table' = Opened(d, File("udp", s))
          /\ session' = [session EXCEPT ![s].at = "bindRtp", ![s].m_RtpSocket = d]
    BY <1>9 DEF OpenRtp
  <2>2. session' = [session EXCEPT ![s] = [session[s] EXCEPT !.at = "bindRtp", !.m_RtpSocket = d]]
    BY <2>1
  <2>3. [session[s] EXCEPT !.at = "bindRtp", !.m_RtpSocket = d] \in SessionRecords
    BY DEF Locations
  <2>4. table' \in [Descriptors -> Files \cup {Closed}]
    BY <2>1, TableTypes
  <2> QED
    BY <1>9, <2>2, <2>3, <2>4 DEF OpenRtp, InRange, Binding
<1>10. CASE BindRtp(s)
  <2>1. session[s].m_RtpSocket \in Sockets /\ session[s].P \in Nat
    OBVIOUS
  <2>2. table' \in [Descriptors -> Files \cup {Closed}]
    BY <1>10, <2>1, TableTypes DEF BindRtp
  <2> QED
    <3>1. PICK location \in {"openRtcp", "closeRtp"} : Goto(s, location)
      BY <1>10 DEF BindRtp
    <3> QED
      BY <1>10, <2>2, <3>1 DEF BindRtp, Goto, Locations, Binding
<1>11. CASE OpenRtcp(s)
  <2>1. PICK d \in Returned :
          /\ table' = Opened(d, File("udp", s))
          /\ session' = [session EXCEPT ![s].at = "bindRtcp", ![s].m_RtcpSocket = d]
    BY <1>11 DEF OpenRtcp
  <2>2. session' = [session EXCEPT ![s] = [session[s] EXCEPT !.at = "bindRtcp", !.m_RtcpSocket = d]]
    BY <2>1
  <2>3. [session[s] EXCEPT !.at = "bindRtcp", !.m_RtcpSocket = d] \in SessionRecords
    BY DEF Locations
  <2>4. table' \in [Descriptors -> Files \cup {Closed}]
    BY <2>1, TableTypes
  <2> QED
    BY <1>11, <2>2, <2>3, <2>4 DEF OpenRtcp, Binding
<1>12. CASE BindRtcp(s)
  <2>1. session[s].m_RtcpSocket \in Sockets /\ session[s].P + 1 \in Nat
    OBVIOUS
  <2>2. table' \in [Descriptors -> Files \cup {Closed}]
    BY <1>12, <2>1, TableTypes DEF BindRtcp
  <2>3. session[s].P \in FirstPort .. LastPort - 2
    BY <1>12 DEF BindRtcp, Binding
  <2> QED
    <3> DEFINE found == [session[s] EXCEPT
                           !.at = "serving", !.paired = TRUE,
                           !.m_RtpServerPort = session[s].P,
                           !.m_RtcpServerPort = session[s].P + 1]
    <3>1. CASE session' = [session EXCEPT ![s] = found]
      <4>1. found \in SessionRecords /\ found.P = session[s].P /\ found.at = "serving"
        <5>1. session[s].P + 1 \in FirstPort + 1 .. LastPort - 1
          BY <2>3
        <5> QED
          BY <2>3, <5>1 DEF Locations
      <4> QED
        BY <1>12, <2>2, <3>1, <4>1 DEF BindRtcp, Binding
    <3>2. CASE Goto(s, "closeBoth")
      BY <1>12, <2>2, <3>2 DEF BindRtcp, Goto, Locations, Binding
    <3> QED
      BY <1>12, <3>1, <3>2 DEF BindRtcp
<1>13. CASE CloseRtp(s) \/ CloseRtcp(s)
  <2>1. session[s].P \in FirstPort .. LastPort - 2
    BY <1>13 DEF CloseRtp, CloseRtcp, Binding
  <2>2. session[s].P + 2 \in FirstPort .. LastPort /\ (session[s].P + 2 - FirstPort) % 2 = 0
    BY <2>1
  <2>3. table' \in [Descriptors -> Files \cup {Closed}]
    BY <1>13, TableTypes DEF CloseRtp, CloseRtcp, SecondToClose
  <2> QED
    BY <1>13, <2>2, <2>3 DEF CloseRtp, CloseRtcp, NextPair, Locations, Binding
<1>14. CASE CloseBoth(s)
  BY <1>14, TableTypes DEF CloseBoth, Goto, Locations, Binding
<1> QED
  BY <1>4, <1>5, <1>6, <1>7, <1>8, <1>9, <1>10, <1>11, <1>12, <1>13, <1>14, <1>15
  DEF SessionNext, InitTransport

LEMMA NextTypeInv == TypeInv /\ [Next]_vars => TypeInv'
<1> SUFFICES ASSUME TypeInv, [Next]_vars PROVE TypeInv'
  OBVIOUS
<1> USE ServerAssumption
<1>1. CASE Accept
  <2>1. accepted + 1 \in Sessions /\ Returned \subseteq Sockets
    BY <1>1 DEF Accept, Sessions, Returned, Free, Sockets, TypeInv, TypeOK, Numbered
  <2>2. /\ table' \in [Descriptors -> Files \cup {Closed}]
        /\ ClientSocket' \in Sockets
    BY <1>1, <2>1, TableTypes DEF Accept, TypeInv, TypeOK
  <2> QED
    BY <1>1, <2>2 DEF Accept, TypeInv, TypeOK, SearchInRange, Numbered, Sockets
<1>2. CASE CreateThread
  <2>1. session' \in [Sessions -> SessionRecords]
    <3>1. accepted \in Sessions /\ session \in [Sessions -> SessionRecords]
      BY <1>2 DEF CreateThread, TypeInv, TypeOK, Numbered, SessionRecords, Sockets, Sessions
    <3>2. session' = [session EXCEPT ![accepted] =
                        [session[accepted] EXCEPT !.at = "starting", !.given = ClientSocket]]
      BY <1>2, <3>1 DEF CreateThread
    <3>3. [session[accepted] EXCEPT !.at = "starting", !.given = ClientSocket] \in SessionRecords
      BY <3>1 DEF TypeInv, TypeOK, SessionRecords, Sockets, Locations
    <3> QED
      BY <3>1, <3>2, <3>3
  <2>2. TypeOK' /\ SearchInRange'
    BY <1>2, <2>1
    DEF CreateThread, TypeInv, TypeOK, SessionRecords, Sockets, SearchInRange, Binding
  <2>3. Numbered'
    BY <1>2 DEF CreateThread, TypeInv, TypeOK, Numbered, Sessions
  <2> QED
    BY <2>2, <2>3 DEF TypeInv
<1>3. ASSUME NEW s \in Sessions, SessionNext(s) PROVE TypeInv'
  BY <1>3, SessionStepType, OneRecordTypeInv
<1>4. CASE UNCHANGED vars
  BY <1>4 DEF vars, TypeInv, TypeOK, SearchInRange, Numbered
<1> QED
  BY <1>1, <1>2, <1>3, <1>4 DEF Next

------------------------------------------------------------------------------
(* What a step of a session leaves alone.                                  *)

\* A session keeps the client it was created for, and the one it found.
LEMMA ClientIsKept ==
  ASSUME TypeInv, NEW s \in Sessions, SessionNext(s)
  PROVE  /\ session'[s].given = session[s].given
         /\ session[s].at # "starting" => session'[s].Client = session[s].Client
         /\ session[s].at # "none" /\ session'[s].at \notin {"none", "starting"}
<1>1. session \in [Sessions -> SessionRecords]
  BY DEF TypeInv, TypeOK, SessionRecords, Sockets
<1> USE <1>1 DEF SessionRecords
<1>2. CASE ReadClientSocket(s)
  BY <1>2 DEF ReadClientSocket
<1>3. CASE Setup(s) \/ Play(s) \/ Teardown(s) \/ CloseClient(s)
  BY <1>3 DEF Setup, Play, Teardown, CloseClient, CanReceive, Goto
<1>4. CASE StartStreaming(s) \/ StreamingEnds(s) \/ GiveUp(s)
  BY <1>4 DEF StartStreaming, StreamingEnds, GiveUp, Goto
<1>5. CASE OpenRtp(s) \/ OpenRtcp(s)
  BY <1>5 DEF OpenRtp, OpenRtcp
<1>6. CASE BindRtp(s) \/ BindRtcp(s)
  BY <1>6 DEF BindRtp, BindRtcp, Goto
<1>7. CASE CloseRtp(s) \/ CloseBoth(s) \/ CloseRtcp(s)
  BY <1>7 DEF CloseRtp, CloseBoth, CloseRtcp, NextPair, Goto
<1> QED
  BY <1>2, <1>3, <1>4, <1>5, <1>6, <1>7 DEF SessionNext, InitTransport

\* A session that serves the wrong client does so for ever.
LEMMA WrongClientStays == TypeInv /\ [Next]_vars /\ ServesItsClient' => ServesItsClient
<1> SUFFICES ASSUME TypeInv, [Next]_vars, ServesItsClient',
                    NEW s \in Sessions, session[s].at \notin {"none", "starting"}
             PROVE  session[s].Client = session[s].given
  BY DEF ServesItsClient
<1>1. session \in [Sessions -> SessionRecords]
  BY DEF TypeInv, TypeOK, SessionRecords, Sockets
<1>2. CASE UNCHANGED session
  BY <1>2 DEF ServesItsClient
<1>3. CASE CreateThread
  <2>1. s # accepted
    BY <1>3, ServerAssumption
    DEF CreateThread, TypeInv, Numbered, NewSession, TypeOK, Sessions
  <2>2. session'[s] = session[s]
    BY <1>1, <1>3, <2>1 DEF CreateThread
  <2> QED
    BY <2>2 DEF ServesItsClient
<1>4. ASSUME NEW t \in Sessions, SessionNext(t)
      PROVE  session[s].Client = session[s].given
  <2>1. CASE t = s
    BY <1>4, <2>1, ClientIsKept DEF ServesItsClient
  <2>2. CASE t # s
    <3>1. session'[s] = session[s]
      BY <1>1, <1>4, <2>2, SessionStepType DEF OwnRecord
    <3> QED
      BY <3>1 DEF ServesItsClient
  <2> QED
    BY <2>1, <2>2
<1> QED
  BY <1>2, <1>3, <1>4 DEF Next, vars, Accept

\* The files a session holds depend on its own record and its own files only.
LEMMA HoldsWhatNoOneTouches ==
  ASSUME TypeInv, NEW s \in Sessions, HoldsItsFiles(s), session'[s] = session[s],
         \A d \in Descriptors :
           table[d].of = s \/ table'[d].of = s => table'[d] = table[d]
  PROVE  HoldsItsFiles(s)'
<1>1. session[s] \in SessionRecords /\ NoSocket \notin Descriptors
  BY ServerAssumption DEF TypeInv, TypeOK, SessionRecords, Sockets
<1>2. \A d \in Sockets : d # NoSocket => d \in Descriptors
  BY DEF Sockets
<1>3. ASSUME NEW d \in Descriptors, table[d].of = s
      PROVE  table'[d] = table[d]
  BY <1>3
<1>4. ClientIsOpen(s)'
  BY <1>1, <1>2, <1>3 DEF HoldsItsFiles, ClientIsOpen, File, SessionRecords
<1>5. SocketsInHand(s)'
  <2> USE <1>1, <1>2, <1>3 DEF HoldsItsFiles, SocketsInHand, Udp, SessionRecords
  <2>1. session[s].at \in {"bindRtp", "closeRtp"} /\ session[s].m_RtpSocket # NoSocket =>
          table'[session[s].m_RtpSocket] = table[session[s].m_RtpSocket]
    OBVIOUS
  <2>2. session[s].at \in {"openRtcp", "bindRtcp", "closeBoth"} =>
          table'[session[s].m_RtpSocket] = table[session[s].m_RtpSocket]
    OBVIOUS
  <2>3. session[s].at \in {"bindRtcp", "closeBoth", "closeRtcp"}
          /\ session[s].m_RtcpSocket # NoSocket =>
          table'[session[s].m_RtcpSocket] = table[session[s].m_RtcpSocket]
    OBVIOUS
  <2> QED
    BY <2>1, <2>2, <2>3
<1>6. PairInUse(s)'
  <2> USE <1>1, <1>2, <1>3 DEF HoldsItsFiles, PairInUse, Udp, SessionRecords, Settled
  <2>1. session[s].paired =>
          /\ table'[session[s].m_RtpSocket] = table[session[s].m_RtpSocket]
          /\ table'[session[s].m_RtcpSocket] = table[session[s].m_RtcpSocket]
    OBVIOUS
  <2> QED
    BY <2>1
<1>7. IdleArePaired(s)'
  <2>1. InHand(s)' = InHand(s)
    BY DEF InHand
  <2>2. \A d \in Descriptors : (d \in Idle(s)' <=> d \in Idle(s))
                               /\ (d \in Idle(s) => table'[d] = table[d])
    BY <2>1 DEF Idle
  <2>3. Idle(s)' = Idle(s)
    BY <2>2 DEF Idle
  <2> QED
    BY <2>2, <2>3 DEF HoldsItsFiles, IdleArePaired, Partner, Idle
<1> QED
  BY <1>4, <1>5, <1>6, <1>7 DEF HoldsItsFiles

------------------------------------------------------------------------------
(* What a step of a session does to the files.                             *)

\* A file that appears or changes is the session's before and after.
LEMMA OwnFilesOnly ==
  ASSUME TypeInv, NEW s \in Sessions, SessionNext(s),
         ServesItsClient, HoldsItsFiles(s)
  PROVE  \A d \in Descriptors :
           \/ table'[d] = table[d]
           \/ (table[d] = Closed \/ table[d].of = s) /\ (table'[d] = Closed \/ table'[d].of = s)
<1>1. /\ table \in [Descriptors -> Files \cup {Closed}]
      /\ session \in [Sessions -> SessionRecords]
      /\ NoSocket \notin Descriptors
      /\ session[s].at \in Binding => session[s].P < LastPort
  BY ServerAssumption DEF TypeInv, TypeOK, SessionRecords, Sockets, SearchInRange
<1>2. ASSUME NEW d \in Free, NEW kind \in {"camera", "udp"}, table' = Opened(d, File(kind, s))
      PROVE  \A e \in Descriptors : table'[e] = table[e] \/ (table[e] = Closed /\ table'[e].of = s)
  BY <1>1, <1>2 DEF Opened, Free, File
<1>3. ASSUME NEW d \in Sockets, d # NoSocket => table[d].of = s, CloseOf(d)
      PROVE  \A e \in Descriptors : table'[e] = table[e] \/ (table[e].of = s /\ table'[e] = Closed)
  BY <1>1, <1>3 DEF CloseOf, Sockets
<1>4. ASSUME NEW d \in Descriptors, table[d] = Udp(s, 0), NEW port \in Nat, Bind(d, port)
      PROVE  \A e \in Descriptors : table'[e] = table[e] \/ (table[e].of = s /\ table'[e].of = s)
  <2>1. table' = [table EXCEPT ![d] = [table[d] EXCEPT !.port = port]]
    BY <1>1, <1>4 DEF Bind
  <2>2. [table[d] EXCEPT !.port = port] = Udp(s, port)
    BY <1>4 DEF Udp
  <2> QED
    BY <1>1, <1>4, <2>1, <2>2 DEF Udp
<1>5. session[s] \in SessionRecords
  BY <1>1
<1>6. CASE UNCHANGED table
  BY <1>6
<1>7. CASE CloseClient(s)
  <2>1. ToClose(s) \in Sockets /\ (ToClose(s) # NoSocket => table[ToClose(s)].of = s)
    BY <1>5, <1>7
    DEF CloseClient, ToClose, ServesItsClient, HoldsItsFiles, ClientIsOpen, File, SessionRecords
  <2> QED
    BY <1>3, <1>7, <2>1 DEF CloseClient
<1>8. CASE StartStreaming(s)
  BY <1>2, <1>8 DEF StartStreaming
<1>9. CASE OpenRtp(s) \/ OpenRtcp(s)
  <2>1. PICK d \in Returned : table' = Opened(d, File("udp", s))
    BY <1>9 DEF OpenRtp, OpenRtcp
  <2>2. CASE d \in Free
    BY <1>2, <2>1, <2>2
  <2>3. CASE d = NoSocket
    BY <2>1, <2>3 DEF Opened
  <2> QED
    BY <2>2, <2>3 DEF Returned
<1>10. CASE BindRtp(s)
  <2>1. CASE UNCHANGED table
    BY <2>1
  <2>2. CASE CanBind(session[s].m_RtpSocket, session[s].P)
             /\ Bind(session[s].m_RtpSocket, session[s].P)
    <3>1. /\ session[s].m_RtpSocket \in Descriptors /\ session[s].P \in Nat
          /\ table[session[s].m_RtpSocket] = Udp(s, 0)
      BY <1>5, <1>10, <2>2, ServerAssumption
      DEF BindRtp, CanBind, HoldsItsFiles, SocketsInHand, SessionRecords, Sockets
    <3> QED
      BY <1>4, <2>2, <3>1
  <2> QED
    BY <1>10, <2>1, <2>2 DEF BindRtp
<1>11. CASE BindRtcp(s)
  <2>1. CASE UNCHANGED table
    BY <2>1
  <2>2. CASE CanBind(session[s].m_RtcpSocket, session[s].P + 1)
             /\ Bind(session[s].m_RtcpSocket, session[s].P + 1)
    <3>1. /\ session[s].m_RtcpSocket \in Descriptors /\ session[s].P + 1 \in Nat
          /\ table[session[s].m_RtcpSocket] = Udp(s, 0)
      BY <1>5, <1>11, <2>2, ServerAssumption
      DEF BindRtcp, CanBind, HoldsItsFiles, SocketsInHand, SessionRecords, Sockets
    <3> QED
      BY <1>4, <2>2, <3>1
  <2> QED
    BY <1>11, <2>1, <2>2 DEF BindRtcp
<1>12. CASE CloseRtp(s)
  <2>1. session[s].m_RtpSocket \in Sockets
        /\ (session[s].m_RtpSocket # NoSocket => table[session[s].m_RtpSocket].of = s)
    BY <1>5, <1>12 DEF CloseRtp, HoldsItsFiles, SocketsInHand, Udp, SessionRecords
  <2> QED
    BY <1>3, <1>12, <2>1 DEF CloseRtp
<1>13. CASE CloseBoth(s)
  <2>1. session[s].m_RtpSocket \in Sockets /\ table[session[s].m_RtpSocket].of = s
    BY <1>5, <1>13 DEF CloseBoth, HoldsItsFiles, SocketsInHand, Udp, SessionRecords
  <2> QED
    BY <1>3, <1>13, <2>1 DEF CloseBoth
<1>14. CASE CloseRtcp(s)
  <2>1. session[s].m_RtcpSocket \in Sockets
        /\ (session[s].m_RtcpSocket # NoSocket => table[session[s].m_RtcpSocket].of = s)
    BY <1>5, <1>14 DEF CloseRtcp, HoldsItsFiles, SocketsInHand, Udp, SessionRecords
  <2> QED
    BY <1>3, <1>14, <2>1 DEF CloseRtcp, SecondToClose
<1> QED
  BY <1>6, <1>7, <1>8, <1>9, <1>10, <1>11, <1>12, <1>13, <1>14
  DEF SessionNext, InitTransport, ReadClientSocket, Setup, Play, Teardown, StreamingEnds, GiveUp

------------------------------------------------------------------------------
(* A session's own steps keep what it holds.                               *)

\* The ones between two searches.
LEMMA ServingHolds ==
  ASSUME TypeInv, NEW s \in Sessions, ServesItsClient, HoldsItsFiles(s),
         \/ ReadClientSocket(s) \/ Setup(s) \/ Play(s) \/ Teardown(s)
         \/ CloseClient(s) \/ StartStreaming(s) \/ StreamingEnds(s) \/ GiveUp(s)
  PROVE  HoldsItsFiles(s)'
<1>1. /\ table \in [Descriptors -> Files \cup {Closed}]
      /\ session \in [Sessions -> SessionRecords] /\ session[s] \in SessionRecords
      /\ NoSocket \notin Descriptors
  BY ServerAssumption DEF TypeInv, TypeOK, SessionRecords, Sockets
<1>2. /\ session[s].at \in {"starting", "serving", "streaming", "closing", "openRtp"}
      /\ session'[s].at \in {"serving", "streaming", "closing", "openRtp", "ended"}
      /\ session'[s].given = session[s].given
      /\ session'[s].paired => session[s].paired /\ session'[s].at # "openRtp"
      /\ session'[s].m_RtpSocket = session[s].m_RtpSocket
      /\ session'[s].m_RtcpSocket = session[s].m_RtcpSocket
      /\ session'[s].m_RtpServerPort = session[s].m_RtpServerPort
      /\ session'[s].m_RtcpServerPort = session[s].m_RtcpServerPort
  BY <1>1 DEF ReadClientSocket, Setup, Play, Teardown, CloseClient, StartStreaming,
              StreamingEnds, GiveUp, CanReceive, Goto, SessionRecords, HoldsItsFiles,
              PairInUse, Settled
<1>3. \A d \in Descriptors :
        \/ table'[d] = table[d]
        \/ table[d] = Closed /\ table'[d] = File("camera", s)
        \/ table[d] = File("client", s) /\ session'[s].at = "ended"
             /\ table'[d] = Closed
  <2>1. CASE UNCHANGED table
    BY <2>1
  <2>2. CASE StartStreaming(s)
    BY <1>1, <2>2 DEF StartStreaming, Opened, Free
  <2>3. CASE CloseClient(s)
    BY <1>1, <2>3
    DEF CloseClient, CloseOf, Goto, ToClose, ServesItsClient, HoldsItsFiles,
        ClientIsOpen, SessionRecords, Sockets
  <2> QED
    BY <2>1, <2>2, <2>3
    DEF ReadClientSocket, Setup, Play, Teardown, StreamingEnds, GiveUp
<1>4. \A d \in Descriptors : table[d].kind = "udp" \/ table'[d].kind = "udp" =>
                               table'[d] = table[d]
  BY <1>3 DEF File, Closed
<1>5. \A d \in Descriptors : table[d] = File("client", s) /\ session'[s].at # "ended" =>
                               table'[d] = table[d]
  BY <1>3 DEF File, Closed
<1>6. ClientIsOpen(s)'
  BY <1>1, <1>2, <1>5 DEF HoldsItsFiles, ClientIsOpen, SessionRecords, Sockets, File
<1>7. SocketsInHand(s)'
  BY <1>2 DEF SocketsInHand
<1>8. PairInUse(s)'
  <2> SUFFICES ASSUME session'[s].paired PROVE PairInUse(s)'
    BY DEF PairInUse
  <2>1. /\ Settled(s)' /\ PairInUse(s) /\ session[s].paired
        /\ session[s].m_RtpSocket \in Descriptors /\ session[s].m_RtcpSocket \in Descriptors
    BY <1>1, <1>2 DEF HoldsItsFiles, PairInUse, Settled, SessionRecords, Sockets
  <2>2. /\ table'[session[s].m_RtpSocket] = table[session[s].m_RtpSocket]
        /\ table'[session[s].m_RtcpSocket] = table[session[s].m_RtcpSocket]
    BY <1>4, <2>1 DEF PairInUse, Udp
  <2> QED
    BY <1>2, <2>1, <2>2 DEF PairInUse, Udp
<1>9. IdleArePaired(s)'
  <2>1. InHand(s) = {} /\ InHand(s)' = {}
    BY <1>2 DEF InHand
  <2>2. Idle(s)' = Idle(s) /\ \A d \in Idle(s) : table'[d] = table[d]
    BY <1>4, <2>1 DEF Idle
  <2> QED
    BY <2>2 DEF HoldsItsFiles, IdleArePaired, Partner
<1> QED
  BY <1>6, <1>7, <1>8, <1>9 DEF HoldsItsFiles

\* The steps of a search.  Only its last one changes the idle sockets.
LEMMA IdleUnchanged ==
  ASSUME NEW s \in Sessions, IdleArePaired(s),
         \A d \in Descriptors : d \in Idle(s)' <=> d \in Idle(s),
         \A d \in Idle(s) : table'[d] = table[d]
  PROVE  IdleArePaired(s)'
<1>1. Idle(s)' = Idle(s)
  BY DEF Idle
<1> QED
  BY <1>1 DEF IdleArePaired, Partner

SearchStep(s) ==
  \/ OpenRtp(s) \/ BindRtp(s) \/ OpenRtcp(s) \/ BindRtcp(s)
  \/ CloseRtp(s) \/ CloseBoth(s) \/ CloseRtcp(s)

LEMMA SearchKeepsClient ==
  ASSUME TypeInv, NEW s \in Sessions, SearchStep(s), ServesItsClient, HoldsItsFiles(s)
  PROVE  ClientIsOpen(s)' /\ ~session[s].paired
<1>1. /\ table \in [Descriptors -> Files \cup {Closed}]
      /\ session \in [Sessions -> SessionRecords] /\ session[s] \in SessionRecords
      /\ NoSocket \notin Descriptors
  BY ServerAssumption DEF TypeInv, TypeOK, SessionRecords, Sockets
<1>2. session[s].at \in {"openRtp"} \cup Binding
  BY DEF SearchStep, OpenRtp, BindRtp, OpenRtcp, BindRtcp, CloseRtp, CloseBoth,
         CloseRtcp, Binding
<1>3. ~session[s].paired
  BY <1>2 DEF HoldsItsFiles, PairInUse, Settled, Binding
<1>4. SessionNext(s)
  BY DEF SearchStep, SessionNext, InitTransport
<1>5. session'[s].given = session[s].given /\ session'[s].at \notin {"none", "ended"}
  BY <1>1, <1>4, ClientIsKept
  DEF SearchStep, OpenRtp, BindRtp, OpenRtcp, BindRtcp, CloseRtp, CloseBoth,
      CloseRtcp, NextPair, Goto, SessionRecords
<1>6. \A d \in Descriptors : table[d] = File("client", s) => table'[d] = table[d]
  <2>1. CASE OpenRtp(s) \/ OpenRtcp(s)
    BY <1>1, <2>1 DEF OpenRtp, OpenRtcp, Opened, Returned, Free, File, Closed
  <2>2. CASE BindRtp(s) \/ BindRtcp(s)
    BY <1>1, <2>2 DEF BindRtp, BindRtcp, CanBind, Bind, File
  <2>3. CASE CloseRtp(s) \/ CloseBoth(s) \/ CloseRtcp(s)
    BY <1>1, <2>3
    DEF CloseRtp, CloseBoth, CloseRtcp, SecondToClose, CloseOf, HoldsItsFiles,
        SocketsInHand, Udp, File
  <2> QED
    BY <2>1, <2>2, <2>3 DEF SearchStep
<1> QED
  BY <1>1, <1>2, <1>3, <1>5, <1>6
  DEF HoldsItsFiles, ClientIsOpen, SessionRecords, Sockets, File, Binding

LEMMA OpenHolds ==
  ASSUME TypeInv, NEW s \in Sessions, ServesItsClient, HoldsItsFiles(s),
         OpenRtp(s) \/ OpenRtcp(s)
  PROVE  HoldsItsFiles(s)'
<1>1. /\ table \in [Descriptors -> Files \cup {Closed}]
      /\ session \in [Sessions -> SessionRecords] /\ session[s] \in SessionRecords
      /\ NoSocket \notin Descriptors
  BY ServerAssumption DEF TypeInv, TypeOK, SessionRecords, Sockets
<1>2. ClientIsOpen(s)' /\ ~session[s].paired
  BY SearchKeepsClient DEF SearchStep
<1>3. PICK d \in Returned : table' = Opened(d, File("udp", s))
                            /\ (OpenRtp(s) => session'[s].m_RtpSocket = d)
                            /\ (OpenRtcp(s) => session'[s].m_RtcpSocket = d)
  BY <1>1 DEF OpenRtp, OpenRtcp, SessionRecords
<1>4. d \in Sockets /\ (d # NoSocket => table[d] = Closed /\ table'[d] = Udp(s, 0))
      /\ \A e \in Descriptors \ {d} : table'[e] = table[e]
  BY <1>1, <1>3 DEF Returned, Free, Opened, Udp, File, Sockets
<1>5. /\ OpenRtp(s) => session[s].at = "openRtp" /\ session'[s].at = "bindRtp"
      /\ OpenRtcp(s) => session[s].at = "openRtcp" /\ session'[s].at = "bindRtcp"
                          /\ session'[s].m_RtpSocket = session[s].m_RtpSocket
      /\ session'[s].P = session[s].P
      /\ session'[s].paired = session[s].paired
  BY <1>1 DEF OpenRtp, OpenRtcp, SessionRecords
<1>6. SocketsInHand(s)'
  <2>1. CASE OpenRtp(s)
    BY <1>3, <1>4, <1>5, <2>1 DEF SocketsInHand, Udp
  <2>2. CASE OpenRtcp(s)
    <3>1. session[s].m_RtpSocket \in Descriptors
          /\ table[session[s].m_RtpSocket] = Udp(s, session[s].P)
      BY <1>1, <1>5, <2>2 DEF HoldsItsFiles, SocketsInHand, SessionRecords, Sockets
    <3>2. table'[session[s].m_RtpSocket] = table[session[s].m_RtpSocket]
      BY <1>1, <1>4, <3>1 DEF Udp, Closed
    <3> QED
      <4>1. session'[s].at = "bindRtcp" /\ session'[s].m_RtcpSocket = d
            /\ session'[s].m_RtpSocket = session[s].m_RtpSocket /\ session'[s].P = session[s].P
        BY <1>3, <1>5, <2>2
      <4>2. session[s].m_RtpSocket # NoSocket /\ (d # NoSocket => table'[d] = Udp(s, 0))
        BY <1>1, <1>4, <3>1
      <4> QED
        BY <3>1, <3>2, <4>1, <4>2 DEF SocketsInHand, Udp
  <2> QED
    BY <2>1, <2>2
<1>7. PairInUse(s)'
  BY <1>2, <1>5 DEF PairInUse
<1>8. IdleArePaired(s)'
  <2>1. InHand(s)' = InHand(s) \cup {d}
    BY <1>3, <1>5 DEF InHand
  <2>4. \A e \in Idle(s) : e # d
    BY <1>1, <1>4 DEF Idle, Closed
  <2>3. \A e \in Idle(s) : table'[e] = table[e]
    BY <1>4, <2>4 DEF Idle
  <2>2. ASSUME NEW e \in Descriptors PROVE e \in Idle(s)' <=> e \in Idle(s)
    <3>1. CASE e = d
      BY <2>1, <2>4, <3>1 DEF Idle
    <3>2. CASE e # d
      BY <1>4, <2>1, <3>2 DEF Idle
    <3> QED
      BY <3>1, <3>2
  <2> QED
    BY <2>2, <2>3, IdleUnchanged DEF HoldsItsFiles
<1> QED
  BY <1>2, <1>6, <1>7, <1>8 DEF HoldsItsFiles

LEMMA BindRtpHolds ==
  ASSUME TypeInv, NEW s \in Sessions, ServesItsClient, HoldsItsFiles(s), BindRtp(s)
  PROVE  HoldsItsFiles(s)'
<1>1. /\ table \in [Descriptors -> Files \cup {Closed}]
      /\ session \in [Sessions -> SessionRecords] /\ session[s] \in SessionRecords
      /\ NoSocket \notin Descriptors
  BY ServerAssumption DEF TypeInv, TypeOK, SessionRecords, Sockets
<1>2. ClientIsOpen(s)' /\ ~session[s].paired
  BY SearchKeepsClient DEF SearchStep
<1> DEFINE d == session[s].m_RtpSocket
<1>3. /\ session[s].at = "bindRtp" /\ d \in Sockets
      /\ session'[s].paired = session[s].paired
      /\ session'[s].m_RtpSocket = d
      /\ session'[s].P = session[s].P
  BY <1>1 DEF BindRtp, Goto, SessionRecords
<1>4. PairInUse(s)'
  BY <1>2, <1>3 DEF PairInUse
<1>5. CASE CanBind(d, session[s].P) /\ Bind(d, session[s].P) /\ Goto(s, "openRtcp")
  <2>1. session'[s].at = "openRtcp" /\ d \in Descriptors /\ table[d] = Udp(s, 0)
    BY <1>1, <1>3, <1>5 DEF CanBind, Goto, HoldsItsFiles, SocketsInHand, SessionRecords, Sockets
  <2>2. table' = [table EXCEPT ![d] = [table[d] EXCEPT !.port = session[s].P]]
    BY <1>1, <1>5, <2>1 DEF Bind
  <2>3. table'[d] = Udp(s, session[s].P) /\ \A e \in Descriptors \ {d} : table'[e] = table[e]
    BY <1>1, <2>1, <2>2 DEF Udp
  <2>4. SocketsInHand(s)'
    BY <1>1, <1>3, <2>1, <2>3 DEF SocketsInHand, Udp
  <2>5. InHand(s) = {d} /\ InHand(s)' = {d}
    BY <1>3, <2>1 DEF InHand
  <2>6. \A e \in Descriptors : e \in Idle(s)' <=> e \in Idle(s)
    BY <2>3, <2>5 DEF Idle
  <2>7. \A e \in Idle(s) : table'[e] = table[e]
    BY <2>3, <2>5 DEF Idle
  <2>8. IdleArePaired(s)'
    BY <2>6, <2>7, IdleUnchanged DEF HoldsItsFiles
  <2> QED
    BY <1>2, <1>4, <2>4, <2>8 DEF HoldsItsFiles
<1>6. CASE Goto(s, "closeRtp") /\ UNCHANGED table
  <2>1. session'[s].at = "closeRtp"
    BY <1>1, <1>6 DEF Goto, SessionRecords
  <2>2. SocketsInHand(s)'
    BY <1>3, <1>6, <2>1 DEF SocketsInHand, HoldsItsFiles, Udp
  <2>3. InHand(s) = {d} /\ InHand(s)' = {d}
    BY <1>3, <2>1 DEF InHand
  <2>4. IdleArePaired(s)'
    BY <1>6, <2>3, IdleUnchanged DEF HoldsItsFiles, Idle
  <2> QED
    BY <1>2, <1>4, <2>2, <2>4 DEF HoldsItsFiles
<1> QED
  BY <1>5, <1>6 DEF BindRtp

LEMMA BindRtcpHolds ==
  ASSUME TypeInv, NEW s \in Sessions, ServesItsClient, HoldsItsFiles(s), BindRtcp(s)
  PROVE  HoldsItsFiles(s)'
<1>1. /\ table \in [Descriptors -> Files \cup {Closed}]
      /\ session \in [Sessions -> SessionRecords] /\ session[s] \in SessionRecords
      /\ NoSocket \notin Descriptors
      /\ FirstPort \in Nat \ {0}
      /\ session[s].P \in Nat \ {0} /\ (session[s].P - FirstPort) % 2 = 0
  BY ServerAssumption
  DEF TypeInv, TypeOK, SearchInRange, SessionRecords, Sockets
<1>2. ClientIsOpen(s)' /\ ~session[s].paired
  BY SearchKeepsClient DEF SearchStep
<1> DEFINE d == session[s].m_RtpSocket
           e == session[s].m_RtcpSocket
           P == session[s].P
<1>3. /\ session[s].at = "bindRtcp" /\ d \in Descriptors /\ e \in Sockets
      /\ table[d] = Udp(s, P) /\ (e # NoSocket => table[e] = Udp(s, 0))
      /\ session'[s].m_RtpSocket = d /\ session'[s].m_RtcpSocket = e
      /\ session'[s].P = P
  BY <1>1 DEF BindRtcp, Goto, HoldsItsFiles, SocketsInHand, SessionRecords, Sockets
<1>4. d # e /\ InHand(s) = {d, e}
  BY <1>1, <1>3 DEF Udp, InHand
<1>5. CASE /\ CanBind(e, P + 1) /\ Bind(e, P + 1)
           /\ session' = [session EXCEPT ![s].at = "serving", ![s].paired = TRUE,
                                         ![s].m_RtpServerPort = P,
                                         ![s].m_RtcpServerPort = P + 1]
  <2>1. session'[s] = [session[s] EXCEPT !.at = "serving", !.paired = TRUE,
                         !.m_RtpServerPort = P, !.m_RtcpServerPort = P + 1]
    BY <1>1, <1>5
  <2>2. /\ session'[s].at = "serving"
        /\ session'[s].m_RtpServerPort = P /\ session'[s].m_RtcpServerPort = P + 1
    BY <1>1, <2>1 DEF SessionRecords
  <2>3. e \in Descriptors
    BY <1>3, <1>5 DEF CanBind, Sockets
  <2>4. table' = [table EXCEPT ![e] = [table[e] EXCEPT !.port = P + 1]]
    BY <1>1, <1>5, <2>3 DEF Bind
  <2>5. /\ table'[e] = Udp(s, P + 1) /\ table'[d] = Udp(s, P)
        /\ \A f \in Descriptors \ {e} : table'[f] = table[f]
    BY <1>1, <1>3, <1>4, <2>3, <2>4 DEF Udp
  <2>6. SocketsInHand(s)'
    BY <2>2 DEF SocketsInHand
  <2>7. PairInUse(s)'
    BY <1>1, <1>3, <2>2, <2>3, <2>5 DEF PairInUse, Settled, Udp
  <2>8. InHand(s)' = {}
    BY <2>2 DEF InHand
  <2>9. Idle(s)' = Idle(s) \cup {d, e}
    BY <1>3, <1>4, <2>3, <2>5, <2>8 DEF Idle, Udp
  <2>10. \A f \in Idle(s) : table'[f] = table[f]
    BY <1>4, <2>5 DEF Idle
  <2>11. Partner(P) = P + 1 /\ Partner(P + 1) = P
    <3>1. (P + 1 - FirstPort) % 2 # 0
      BY <1>1
    <3> QED
      BY <1>1, <3>1 DEF Partner
  <2>12. IdleArePaired(s)'
    <3> SUFFICES ASSUME NEW f \in Idle(s)'
                 PROVE  \E g \in Idle(s)' : table'[g].port = Partner(table'[f].port)
      BY DEF IdleArePaired, Partner
    <3>1. CASE f \in Idle(s)
      <4>1. PICK g \in Idle(s) : table[g].port = Partner(table[f].port)
        BY <3>1 DEF HoldsItsFiles, IdleArePaired
      <4> QED
        BY <2>9, <2>10, <3>1, <4>1
    <3>2. CASE f = d
      BY <2>5, <2>9, <2>11, <3>2 DEF Udp
    <3>3. CASE f = e
      BY <2>5, <2>9, <2>11, <3>3 DEF Udp
    <3> QED
      BY <2>9, <3>1, <3>2, <3>3
  <2> QED
    BY <1>2, <2>6, <2>7, <2>12 DEF HoldsItsFiles
<1>6. CASE Goto(s, "closeBoth") /\ UNCHANGED table
  <2>1. session'[s].at = "closeBoth" /\ session'[s].paired = session[s].paired
    BY <1>1, <1>6 DEF Goto, SessionRecords
  <2>2. SocketsInHand(s)'
    BY <1>1, <1>3, <1>6, <2>1 DEF SocketsInHand, Udp
  <2>3. InHand(s)' = {d, e}
    BY <1>3, <2>1 DEF InHand
  <2>4. IdleArePaired(s)'
    BY <1>4, <1>6, <2>3, IdleUnchanged DEF HoldsItsFiles, Idle
  <2>5. PairInUse(s)'
    BY <1>2, <2>1 DEF PairInUse
  <2> QED
    BY <1>2, <2>2, <2>4, <2>5 DEF HoldsItsFiles
<1> QED
  BY <1>5, <1>6 DEF BindRtcp

\* The steps that undo half a pair close sockets in hand only.
LEMMA CloseHolds ==
  ASSUME TypeInv, NEW s \in Sessions, ServesItsClient, HoldsItsFiles(s),
         CloseRtp(s) \/ CloseBoth(s) \/ CloseRtcp(s)
  PROVE  HoldsItsFiles(s)'
<1>1. /\ table \in [Descriptors -> Files \cup {Closed}]
      /\ session \in [Sessions -> SessionRecords] /\ session[s] \in SessionRecords
      /\ NoSocket \notin Descriptors
      /\ session[s].P \in Nat \ {0}
  BY ServerAssumption DEF TypeInv, TypeOK, SessionRecords, Sockets
<1>2. ClientIsOpen(s)' /\ ~session[s].paired
  BY SearchKeepsClient DEF SearchStep
<1>3. /\ session'[s].paired = session[s].paired
      /\ session'[s].m_RtpSocket = session[s].m_RtpSocket
      /\ session'[s].m_RtcpSocket = session[s].m_RtcpSocket
      /\ CloseRtp(s) => session[s].at = "closeRtp" /\ session'[s].at = "openRtp"
      /\ CloseBoth(s) => session[s].at = "closeBoth" /\ session'[s].at = "closeRtcp"
      /\ CloseRtcp(s) => session[s].at = "closeRtcp" /\ session'[s].at = "openRtp"
  BY <1>1 DEF CloseRtp, CloseBoth, CloseRtcp, NextPair, Goto, SessionRecords
<1> DEFINE d == IF session[s].at = "closeRtcp" THEN session[s].m_RtcpSocket
                                               ELSE session[s].m_RtpSocket
<1>4. d \in Sockets /\ CloseOf(d)
  BY <1>1, <1>3 DEF CloseRtp, CloseBoth, CloseRtcp, SecondToClose, SessionRecords
<1>5. /\ d # NoSocket => table'[d] = Closed
      /\ \A e \in Descriptors \ {d} : table'[e] = table[e]
  BY <1>1, <1>4 DEF CloseOf, Sockets
<1>6. PairInUse(s)'
  BY <1>2, <1>3 DEF PairInUse
<1>7. SocketsInHand(s)'
  <2>1. CASE CloseRtp(s) \/ CloseRtcp(s)
    BY <1>3, <2>1 DEF SocketsInHand
  <2>2. CASE CloseBoth(s)
    <3>1. ASSUME session[s].m_RtcpSocket # NoSocket
          PROVE  table'[session[s].m_RtcpSocket] = Udp(s, 0)
      <4>1. table[session[s].m_RtcpSocket] = Udp(s, 0) /\ session[s].m_RtcpSocket \in Descriptors
        BY <1>1, <1>3, <2>2, <3>1 DEF HoldsItsFiles, SocketsInHand, SessionRecords, Sockets
      <4>2. table[d] = Udp(s, session[s].P)
        BY <1>3, <2>2 DEF HoldsItsFiles, SocketsInHand
      <4>3. d # session[s].m_RtcpSocket
        BY <1>1, <4>1, <4>2 DEF Udp
      <4> QED
        BY <1>5, <4>1, <4>3
    <3> QED
      BY <1>3, <2>2, <3>1 DEF SocketsInHand, Udp
  <2> QED
    BY <2>1, <2>2
<1>8. IdleArePaired(s)'
  <2>1. d \in InHand(s) /\ InHand(s) \subseteq InHand(s)' \cup {d}
        /\ InHand(s)' \subseteq InHand(s)
    BY <1>3 DEF InHand
  <2>2. \A e \in Idle(s) : table'[e] = table[e]
    BY <1>5, <2>1 DEF Idle
  <2>3. ASSUME NEW e \in Descriptors PROVE e \in Idle(s)' <=> e \in Idle(s)
    <3>1. CASE e = d
      BY <1>1, <1>5, <2>1, <3>1 DEF Idle, Closed
    <3>2. CASE e # d
      BY <1>5, <2>1, <3>2 DEF Idle
    <3> QED
      BY <3>1, <3>2
  <2> QED
    BY <2>2, <2>3, IdleUnchanged DEF HoldsItsFiles
<1> QED
  BY <1>2, <1>6, <1>7, <1>8 DEF HoldsItsFiles

LEMMA OwnStepHolds ==
  ASSUME TypeInv, NEW s \in Sessions, ServesItsClient, HoldsItsFiles(s), SessionNext(s)
  PROVE  HoldsItsFiles(s)'
BY ServingHolds, OpenHolds, BindRtpHolds, BindRtcpHolds, CloseHolds
DEF SessionNext, InitTransport

------------------------------------------------------------------------------
(* The invariant is inductive.                                             *)

LEMMA InitIInv == Init => IInv
<1> SUFFICES ASSUME Init PROVE IInv
  OBVIOUS
<1>1. TypeInv
  BY InitTypeInv
<1>2. ASSUME NEW s \in Sessions PROVE HoldsItsFiles(s)
  <2>1. session[s] = NewSession /\ \A d \in Descriptors : table[d] = Closed
    BY DEF Init
  <2> QED
    BY <2>1 DEF NewSession, Closed, HoldsItsFiles, ClientIsOpen, SocketsInHand,
                PairInUse, IdleArePaired, Idle
<1>3. AcceptedIsOpen
  BY DEF Init, AcceptedIsOpen
<1> QED
  BY <1>1, <1>2, <1>3 DEF IInv

LEMMA AcceptHolds ==
  ASSUME TypeInv, Accept, ServesItsClient, \A s \in Sessions : HoldsItsFiles(s)
  PROVE  AcceptedIsOpen' /\ \A s \in Sessions : HoldsItsFiles(s)'
<1>1. /\ table \in [Descriptors -> Files \cup {Closed}]
      /\ NoSocket \notin Descriptors
      /\ accepted \in Nat /\ accepted + 1 \in Sessions
  BY ServerAssumption DEF Accept, TypeInv, TypeOK, Numbered, Sessions
<1>2. PICK d \in Returned : /\ ClientSocket' = d
                            /\ table' = Opened(d, File("client", accepted + 1))
  BY DEF Accept
<1>3. \A e \in Descriptors :
        \/ table'[e] = table[e]
        \/ e = d /\ table[e] = Closed /\ table'[e] = File("client", accepted + 1)
  BY <1>1, <1>2 DEF Opened, Returned, Free
<1>4. AcceptedIsOpen'
  BY <1>1, <1>2 DEF Accept, AcceptedIsOpen, Opened, Returned, Free, File
<1>5. ASSUME NEW s \in Sessions PROVE HoldsItsFiles(s)'
  <2>1. CASE s # accepted + 1
    <3>1. \A e \in Descriptors :
            table[e].of = s \/ table'[e].of = s => table'[e] = table[e]
      BY <1>3, <2>1, ServerAssumption DEF File, Closed, Sessions
    <3> QED
      BY <3>1, HoldsWhatNoOneTouches DEF Accept
  <2>2. CASE s = accepted + 1
    <3>1. session[s] = NewSession /\ session'[s] = NewSession
      BY <1>1, <2>2 DEF Accept, TypeInv, Numbered, TypeOK, Sessions
    <3>2. ClientIsOpen(s)' /\ SocketsInHand(s)' /\ PairInUse(s)'
      BY <3>1 DEF NewSession, ClientIsOpen, SocketsInHand, PairInUse
    <3>3. InHand(s) = {} /\ InHand(s)' = {}
      BY <3>1 DEF NewSession, InHand
    <3>4. \A e \in Descriptors : e \in Idle(s)' <=> e \in Idle(s)
      BY <1>3, <3>3 DEF Idle, File, Closed
    <3>5. \A e \in Idle(s) : table'[e] = table[e]
      BY <1>3 DEF Idle, Closed
    <3> QED
      BY <3>2, <3>4, <3>5, IdleUnchanged DEF HoldsItsFiles
  <2> QED
    BY <2>1, <2>2
<1> QED
  BY <1>4, <1>5

LEMMA CreateHolds ==
  ASSUME TypeInv, CreateThread, AcceptedIsOpen, \A s \in Sessions : HoldsItsFiles(s)
  PROVE  AcceptedIsOpen' /\ \A s \in Sessions : HoldsItsFiles(s)'
<1>1. /\ table \in [Descriptors -> Files \cup {Closed}]
      /\ session \in [Sessions -> SessionRecords]
      /\ NoSocket \notin Descriptors
      /\ accepted \in Nat /\ created \in Nat /\ accepted \in Sessions
  BY ServerAssumption
  DEF CreateThread, TypeInv, TypeOK, Numbered, Sessions, SessionRecords, Sockets
<1>2. AcceptedIsOpen'
  BY <1>1 DEF CreateThread, AcceptedIsOpen
<1>3. ASSUME NEW s \in Sessions PROVE HoldsItsFiles(s)'
  <2>1. CASE s # accepted
    <3>1. session'[s] = session[s] /\ table' = table
      BY <1>1, <2>1 DEF CreateThread
    <3> QED
      BY <3>1, HoldsWhatNoOneTouches
  <2>2. CASE s = accepted
    <3>1. session[s] = NewSession
      BY <1>1, <2>2 DEF CreateThread, TypeInv, Numbered
    <3>2. /\ session'[s].at = "starting" /\ session'[s].given = ClientSocket
          /\ session'[s].paired = FALSE
      BY <1>1, <2>2, <3>1 DEF CreateThread, NewSession
    <3>3. ClientIsOpen(s)'
      BY <2>2, <3>2 DEF ClientIsOpen, CreateThread, AcceptedIsOpen, File
    <3>4. SocketsInHand(s)' /\ PairInUse(s)'
      BY <3>2 DEF SocketsInHand, PairInUse
    <3>5. InHand(s) = {} /\ InHand(s)' = {}
      BY <3>1, <3>2 DEF NewSession, InHand
    <3>6. \A e \in Descriptors : e \in Idle(s)' <=> e \in Idle(s)
      BY <3>5 DEF Idle, CreateThread
    <3>7. \A e \in Idle(s) : table'[e] = table[e]
      BY DEF CreateThread
    <3> QED
      BY <3>3, <3>4, <3>6, <3>7, IdleUnchanged DEF HoldsItsFiles
  <2> QED
    BY <2>1, <2>2
<1> QED
  BY <1>2, <1>3

LEMMA NextIInv == IInv /\ [Next]_vars => IInv'
<1> SUFFICES ASSUME IInv, [Next]_vars, ServesItsClient'
             PROVE  AcceptedIsOpen' /\ \A s \in Sessions : HoldsItsFiles(s)'
  BY NextTypeInv DEF IInv
<1>1. /\ TypeInv /\ ServesItsClient
      /\ AcceptedIsOpen /\ \A s \in Sessions : HoldsItsFiles(s)
  BY WrongClientStays DEF IInv
<1>2. CASE Accept
  BY <1>1, <1>2, AcceptHolds
<1>3. CASE CreateThread
  BY <1>1, <1>3, CreateHolds
<1>4. ASSUME NEW t \in Sessions, SessionNext(t)
      PROVE  AcceptedIsOpen' /\ \A s \in Sessions : HoldsItsFiles(s)'
  <2>1. /\ session \in [Sessions -> SessionRecords]
        /\ OwnRecord(t)
        /\ UNCHANGED <<ClientSocket, accepted, created>>
    BY <1>1, <1>4, SessionStepType DEF TypeInv, TypeOK, SessionRecords, Sockets
  <2>2. \A d \in Descriptors :
          \/ table'[d] = table[d]
          \/ (table[d] = Closed \/ table[d].of = t) /\ (table'[d] = Closed \/ table'[d].of = t)
    BY <1>1, <1>4, OwnFilesOnly
  <2>3. AcceptedIsOpen'
    <3> SUFFICES ASSUME created < accepted, ClientSocket # NoSocket
                 PROVE  table'[ClientSocket] = File("client", accepted)
      BY <2>1 DEF AcceptedIsOpen, File
    <3>1. /\ ClientSocket \in Descriptors
          /\ table[ClientSocket] = File("client", accepted)
      BY <1>1 DEF AcceptedIsOpen, TypeInv, TypeOK
    <3>2. t <= created /\ t \in Nat /\ created \in Nat /\ accepted \in Nat
      BY <1>1, <2>1, ServerAssumption DEF OwnRecord, TypeInv, TypeOK, Numbered, Sessions
    <3> QED
      BY <2>2, <3>1, <3>2 DEF File, Closed
  <2>4. ASSUME NEW s \in Sessions PROVE HoldsItsFiles(s)'
    <3>1. CASE s = t
      BY <1>1, <1>4, <3>1, OwnStepHolds
    <3>2. CASE s # t
      <4>1. session'[s] = session[s]
        BY <2>1, <3>2 DEF OwnRecord
      <4>2. \A d \in Descriptors :
              table[d].of = s \/ table'[d].of = s => table'[d] = table[d]
        BY <2>2, <3>2, ServerAssumption DEF Closed, Sessions
      <4> QED
        BY <1>1, <4>1, <4>2, HoldsWhatNoOneTouches
    <3> QED
      BY <3>1, <3>2
  <2> QED
    BY <2>3, <2>4
<1>5. CASE UNCHANGED vars
  <2>1. UNCHANGED <<ClientSocket, accepted, created, table, session>>
    BY <1>5 DEF vars
  <2>2. AcceptedIsOpen'
    BY <1>1, <2>1 DEF AcceptedIsOpen, File
  <2>3. \A s \in Sessions : HoldsItsFiles(s)'
    BY <1>1, <2>1, HoldsWhatNoOneTouches
  <2> QED
    BY <2>2, <2>3
<1> QED
  BY <1>2, <1>3, <1>4, <1>5 DEF Next

THEOREM Inductive == Spec => []IInv
<1> QED
  BY InitIInv, NextIInv, PTL DEF Spec

------------------------------------------------------------------------------
(* What follows from it.                                                   *)

\* TypeOK: every descriptor, port and location of the sessions is one the program
\* can have, and a search stays in its range of ports.
THEOREM TypeCorrect == Spec => []TypeOK
<1>1. IInv => TypeOK
  BY DEF IInv, TypeInv
<1> QED
  BY <1>1, Inductive, PTL

\* PairIsHeld: while each session serves its client, a pair of ports announced in
\* the response to SETUP stays that session's until its next SETUP.
THEOREM AnnouncedPairIsHeld == Spec => []PairIsHeld
<1>1. IInv => PairIsHeld
  BY DEF IInv, PairIsHeld, HoldsItsFiles, PairInUse, Udp
<1> QED
  BY <1>1, Inductive, PTL

\* SearchLeavesPairs: while each session serves its client, the search of
\* Streamer::InitTransport leaves no half pair and no unbound socket open.
THEOREM NoHalfPairIsLeft == Spec => []SearchLeavesPairs
<1>1. ASSUME IInv PROVE SearchLeavesPairs
  <2> SUFFICES ASSUME ServesItsClient, NEW s \in Sessions, Settled(s),
                      NEW port \in PortsOf(s)
               PROVE  Partner(port) \in PortsOf(s)
    BY DEF SearchLeavesPairs, Partner
  <2>1. IdleArePaired(s) /\ InHand(s) = {}
    BY <1>1 DEF IInv, HoldsItsFiles, Settled, InHand
  <2>2. PICK d \in Idle(s) : table[d].port = port
    BY <2>1 DEF PortsOf, Idle
  <2>3. PICK e \in Idle(s) : table[e].port = Partner(port)
    BY <2>1, <2>2 DEF IdleArePaired
  <2> QED
    BY <2>3 DEF PortsOf, Idle
<1> QED
  BY <1>1, Inductive, PTL

\* ClosesItsOwn: while each session serves its client, no close in TcpServer.cpp
\* or Streamer.cpp hits a descriptor that was reused for another session.
THEOREM ClosesOnlyItsOwn == Spec => ClosesItsOwn
<1> DEFINE OwnClose == ServesItsClient' =>
             \A d \in Descriptors :
               table[d] # Closed /\ table'[d] = Closed =>
                 session'[table[d].of] # session[table[d].of]
<1>1. ASSUME IInv, [Next]_vars PROVE [OwnClose]_vars
  <2> SUFFICES ASSUME Next, ServesItsClient', NEW d \in Descriptors,
                      table[d] # Closed, table'[d] = Closed
               PROVE  session'[table[d].of] # session[table[d].of]
    BY <1>1
  <2>1. /\ TypeInv /\ ServesItsClient /\ \A s \in Sessions : HoldsItsFiles(s)
        /\ table \in [Descriptors -> Files \cup {Closed}]
        /\ session \in [Sessions -> SessionRecords]
    BY <1>1, WrongClientStays DEF IInv, TypeInv, TypeOK, SessionRecords, Sockets
  <2>2. CASE Accept
    BY <2>1, <2>2 DEF Accept, Returned, Free, Opened, File, Closed
  <2>3. CASE CreateThread
    BY <2>3 DEF CreateThread
  <2>4. ASSUME NEW s \in Sessions, SessionNext(s)
        PROVE  session'[table[d].of] # session[table[d].of]
    <3>1. table[d].of = s
      BY <2>1, <2>4, OwnFilesOnly
    <3>2. session'[s].at # session[s].at
      <4>1. CASE StartStreaming(s) \/ CloseClient(s)
        BY <2>1, <4>1 DEF StartStreaming, CloseClient, Goto, SessionRecords
      <4>2. CASE OpenRtp(s) \/ OpenRtcp(s)
        BY <2>1, <4>2 DEF OpenRtp, OpenRtcp, SessionRecords
      <4>3. CASE BindRtp(s) \/ BindRtcp(s)
        BY <2>1, <4>3 DEF BindRtp, BindRtcp, Goto, SessionRecords
      <4>4. CASE CloseRtp(s) \/ CloseBoth(s) \/ CloseRtcp(s)
        BY <2>1, <4>4 DEF CloseRtp, CloseBoth, CloseRtcp, NextPair, Goto, SessionRecords
      <4>5. table' # table
        OBVIOUS
      <4> QED
        BY <2>4, <4>1, <4>2, <4>3, <4>4, <4>5
        DEF SessionNext, InitTransport, ReadClientSocket, Setup, Play, Teardown,
            StreamingEnds, GiveUp
    <3> QED
      BY <3>1, <3>2
  <2> QED
    BY <2>2, <2>3, <2>4 DEF Next
<1> QED
  BY <1>1, Inductive, PTL DEF Spec, ClosesItsOwn
=============================================================================
