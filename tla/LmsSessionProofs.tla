--------------------------- MODULE LmsSessionProofs ---------------------------
(***************************************************************************)
(* Proofs about LmsSession, for any number of connections, launches, LMSs  *)
(* and kernel sessions.  The inductive invariant ties the globals of each  *)
(* process and the cookie jar to the launch they come from.                *)
(***************************************************************************)
EXTENDS LmsSession, TLAPS

\* The cookies are those of one launch, or there are none.
JarIsOfOneLaunch ==
  \/ jar = [info |-> None, server |-> None]
  \/ jar.info \in Launch /\ jar.server = LmsOf[jar.info]

\* Only a process that has not answered a launch yet remembers one: the one
\* that the browser waits for, with its own LMS.
InfoIsOfTheRequest ==
  \A c \in Conn : SessionInfo[c] # None =>
    /\ request[c].kind \in {"launch", "gone"}
    /\ request[c].kind = "launch" =>
         /\ SessionInfo[c] = request[c].launch
         /\ Server[c] = LmsOf[request[c].launch]

\* A session that was asked for with cookies is reported to the server that
\* the process remembers from then on.
SessionIsReported ==
  \A c \in Conn : request[c].kind \in {"session", "websocket"} /\ request[c].cookie =>
    Server[c] # None /\ <<Server[c], request[c].session>> \in posts

\* Only a process without cookies is killed.
CrashIsWithoutCookie ==
  \A c \in Conn : request[c].kind = "crashed" => ~request[c].cookie

IInv ==
  /\ TypeOK
  /\ JarIsOfOneLaunch
  /\ InfoIsOfTheRequest
  /\ SessionIsReported
  /\ CrashIsWithoutCookie
  /\ InstanceIsOfTheLms

\* The inductive invariant holds in the initial state.
LEMMA InitIInv == Init => IInv
  BY NoneAssumption DEF Init, IInv, TypeOK, JarIsOfOneLaunch, InfoIsOfTheRequest,
     SessionIsReported, CrashIsWithoutCookie, InstanceIsOfTheLms, Doing, NoReport, Request

\* A browser that asks for nothing.
LEMMA DoingFields ==
  ASSUME NEW k \in {"gone", "idle"}
  PROVE  Doing(k) \in Request /\ Doing(k).kind = k /\ ~Doing(k).cookie
<1> DEFINE no == FALSE
<1>1. no \in BOOLEAN /\ ~no
  OBVIOUS
<1>2. Doing(k) = [kind |-> k, launch |-> None, session |-> None, cookie |-> no]
  BY Zenon DEF Doing
<1> HIDE DEF no
<1>3. QED
  BY <1>1, <1>2 DEF Request

\* Every step of the proxy and of the browser preserves it.
LEMMA NextIInv == IInv /\ [Next]_vars => IInv'
<1> SUFFICES ASSUME IInv, [Next]_vars PROVE IInv'
  OBVIOUS
<1> USE LmsOfAssumption, NoneAssumption
<1>0. TypeOK
  BY DEF IInv
<1>1. ASSUME NEW c \in Conn, NEW l \in Launch, RelayLaunch(c, l) PROVE IInv'
  <2>1. /\ request[c].kind = "idle"
        /\ request' = [request EXCEPT ![c].kind = "launch", ![c].launch = l]
        /\ UNCHANGED <<jar, posts, report>>
    BY <1>1 DEF RelayLaunch
  <2>2. SessionInfo[c] = None
    BY <2>1 DEF IInv, InfoIsOfTheRequest
  <2>3. /\ SessionInfo' = [SessionInfo EXCEPT ![c] = l]
        /\ Server' = [Server EXCEPT ![c] = LmsOf[l]]
    BY <1>1, <2>2 DEF RelayLaunch
  <2>4. /\ request' \in [Conn -> Request]
        /\ request'[c].kind = "launch" /\ request'[c].launch = l
        /\ \A d \in Conn : d # c => request'[d] = request[d]
    <3> DEFINE asked == [request[c] EXCEPT !.kind = "launch", !.launch = l]
    <3>1. asked \in Request /\ asked.kind = "launch" /\ asked.launch = l
      <4> DEFINE first == [request[c] EXCEPT !.kind = "launch"]
      <4>1. first \in Request /\ first.kind = "launch"
        BY <1>0 DEF TypeOK, Request
      <4>2. asked = [first EXCEPT !.launch = l]
        BY <1>0 DEF TypeOK, Request
      <4> HIDE DEF first, asked
      <4>3. QED
        BY <4>1, <4>2 DEF Request
    <3>2. request' = [request EXCEPT ![c] = asked]
      BY <2>1, Zenon
    <3> HIDE DEF asked
    <3>3. QED
      BY <1>0, <3>1, <3>2 DEF TypeOK
  <2>5. /\ SessionInfo' \in [Conn -> Launch \cup {None}]
        /\ Server' \in [Conn -> Lms \cup {None}]
        /\ SessionInfo'[c] = l /\ Server'[c] = LmsOf[l]
        /\ \A d \in Conn : d # c => SessionInfo'[d] = SessionInfo[d] /\ Server'[d] = Server[d]
    BY <1>0, <2>3 DEF TypeOK
  <2>6. InfoIsOfTheRequest' /\ CrashIsWithoutCookie'
    BY <2>4, <2>5 DEF IInv, InfoIsOfTheRequest, CrashIsWithoutCookie
  <2>7. SessionIsReported'
    BY <2>1, <2>4, <2>5 DEF IInv, SessionIsReported
  <2>8. QED
    BY <1>0, <2>1, <2>4, <2>5, <2>6, <2>7 DEF IInv, TypeOK, JarIsOfOneLaunch, InstanceIsOfTheLms
<1>2. ASSUME NEW c \in Conn, NEW s \in Session, RelaySession(c, s) PROVE IInv'
  <2> DEFINE cookie == jar.info # None
             asked  == [kind |-> "session", launch |-> None, session |-> s, cookie |-> cookie]
  <2>1. /\ request[c].kind = "idle"
        /\ request' = [request EXCEPT ![c] = asked]
        /\ UNCHANGED <<SessionInfo, jar>>
    BY <1>2 DEF RelaySession
  <2>2. cookie \in BOOLEAN /\ (cookie <=> jar.info # None)
    OBVIOUS
  <2> HIDE DEF cookie
  <2>3. /\ request' \in [Conn -> Request]
        /\ request'[c].kind = "session" /\ request'[c].session = s
        /\ request'[c].cookie = cookie
        /\ \A d \in Conn : d # c => request'[d] = request[d]
    <3>1. /\ asked \in Request
          /\ asked.kind = "session" /\ asked.session = s /\ asked.cookie = cookie
      BY <2>2 DEF Request
    <3> HIDE DEF asked
    <3>2. QED
      BY <1>0, <2>1, <3>1 DEF TypeOK
  <2> HIDE DEF asked
  <2>4. InfoIsOfTheRequest' /\ CrashIsWithoutCookie'
    <3>1. SessionInfo'[c] = None
      BY <2>1 DEF IInv, InfoIsOfTheRequest
    <3>2. request'[c].kind # "crashed" /\ \A d \in Conn : d # c => request'[d] = request[d]
      BY <2>3
    <3>3. InfoIsOfTheRequest'
      <4> SUFFICES ASSUME NEW d \in Conn, SessionInfo'[d] # None
                   PROVE  /\ request'[d].kind \in {"launch", "gone"}
                          /\ request'[d].kind = "launch" =>
                               /\ SessionInfo'[d] = request'[d].launch
                               /\ Server'[d] = LmsOf[request'[d].launch]
        BY Zenon DEF InfoIsOfTheRequest
      <4>1. d # c /\ request'[d] = request[d] /\ SessionInfo'[d] = SessionInfo[d]
        BY <2>1, <3>1, <3>2
      <4>2. Server'[d] = Server[d]
        BY <1>0, <1>2, <4>1 DEF RelaySession, TypeOK
      <4>3. QED
        BY <4>1, <4>2, Zenon DEF IInv, InfoIsOfTheRequest
    <3>4. CrashIsWithoutCookie'
      BY <3>2, Zenon DEF IInv, CrashIsWithoutCookie
    <3>5. QED
      BY <3>3, <3>4
  <2>5. CASE jar.info = None
    <3>1. UNCHANGED <<Server, posts, report>>
      BY <1>2, <2>5 DEF RelaySession
    <3>2. SessionIsReported'
      BY <2>2, <2>3, <2>5, <3>1 DEF IInv, SessionIsReported
    <3>3. QED
      BY <1>0, <2>1, <2>3, <2>4, <3>1, <3>2 DEF IInv, TypeOK, JarIsOfOneLaunch, InstanceIsOfTheLms
  <2>6. CASE jar.info # None
    <3>1. /\ Server' = [Server EXCEPT ![c] = jar.server]
          /\ report' = [kind |-> "session", host |-> jar.server, inst |-> jar.info,
                        session |-> s]
          /\ posts' = posts \cup {<<jar.server, s>>}
      BY <1>2, <2>6 DEF RelaySession, ServerFromCookie, Call
    <3>2. jar.info \in Launch /\ jar.server = LmsOf[jar.info] /\ jar.server \in Lms
      BY <2>6 DEF IInv, JarIsOfOneLaunch
    <3>3. /\ Server' \in [Conn -> Lms \cup {None}]
          /\ Server'[c] = jar.server
          /\ \A d \in Conn : d # c => Server'[d] = Server[d]
      BY <1>0, <3>1, <3>2 DEF TypeOK
    <3>4. posts' \in SUBSET (Lms \X Session) /\ InstanceIsOfTheLms'
      BY <1>0, <3>1, <3>2 DEF TypeOK, InstanceIsOfTheLms
    <3>5. SessionIsReported'
      BY <2>3, <3>1, <3>2, <3>3 DEF IInv, SessionIsReported
    <3>6. TypeOK'
      BY <1>0, <2>1, <2>3, <3>1, <3>2, <3>3, <3>4 DEF TypeOK
    <3>7. QED
      BY <2>1, <2>4, <3>4, <3>5, <3>6 DEF IInv, JarIsOfOneLaunch
  <2>7. QED
    BY <2>5, <2>6
<1>3. ASSUME NEW c \in Conn, NEW kind \in {"client", "server"},
             request[c].kind = "websocket", PostCell(c, kind) PROVE IInv'
  <2>1. UNCHANGED <<SessionInfo, Server, jar, posts>>
    BY <1>3 DEF PostCell
  <2>2. CASE Server[c] = None
    <3>1. request' = [request EXCEPT ![c].kind = "crashed"] /\ UNCHANGED report
      BY <1>3, <2>2 DEF PostCell
    <3>2. ~request[c].cookie
      BY <1>3, <2>2 DEF IInv, SessionIsReported
    <3>3. TypeOK'
      <4>1. [request[c] EXCEPT !.kind = "crashed"] \in Request
        BY <1>0 DEF TypeOK, Request
      <4>2. QED
        BY <1>0, <2>1, <3>1, <4>1 DEF TypeOK
    <3>4. \A d \in Conn : d # c => request'[d] = request[d]
      BY <1>0, <3>1 DEF TypeOK
    <3>5. request'[c].kind = "crashed" /\ ~request'[c].cookie
      BY <1>0, <3>1, <3>2 DEF TypeOK, Request
    <3>6. InfoIsOfTheRequest'
      BY <1>3, <2>1, <3>4 DEF IInv, InfoIsOfTheRequest
    <3>7. SessionIsReported' /\ CrashIsWithoutCookie'
      BY <2>1, <3>4, <3>5 DEF IInv, SessionIsReported, CrashIsWithoutCookie
    <3>8. QED
      BY <2>1, <3>1, <3>3, <3>6, <3>7 DEF IInv, JarIsOfOneLaunch, InstanceIsOfTheLms
  <2>3. CASE Server[c] # None
    <3>1. /\ UNCHANGED request
          /\ report' = [kind |-> kind, host |-> Server[c], inst |-> None,
                        session |-> request[c].session]
      BY <1>3, <2>3 DEF PostCell, Call
    <3>2. request[c].session \in Session \cup {None} /\ Server[c] \in Lms \cup {None}
      BY <1>0 DEF TypeOK, Request
    <3>3. TypeOK' /\ InstanceIsOfTheLms'
      BY <1>0, <1>3, <2>1, <3>1, <3>2 DEF TypeOK, InstanceIsOfTheLms
    <3>4. QED
      BY <2>1, <3>1, <3>3 DEF IInv, JarIsOfOneLaunch, InfoIsOfTheRequest,
         SessionIsReported, CrashIsWithoutCookie
  <2>4. QED
    BY <2>2, <2>3
<1>4. ASSUME NEW c \in Conn, RelayAnswer(c) PROVE IInv'
  <2>1. /\ request[c].kind \in {"launch", "session"}
        /\ UNCHANGED <<posts, report>>
    BY <1>4 DEF RelayAnswer
  <2>2. request' \in [Conn -> Request] /\ \A d \in Conn : d # c => request'[d] = request[d]
    BY <1>0, <1>4, DoingFields DEF RelayAnswer, TypeOK, Request
  <2>3. \/ request'[c].kind = "idle" /\ ~request'[c].cookie
        \/ /\ request[c].kind = "session" /\ request'[c].kind = "websocket"
           /\ request'[c].cookie = request[c].cookie
           /\ request'[c].session = request[c].session
    BY <1>0, <1>4, DoingFields DEF RelayAnswer, TypeOK, Request
  <2>4. SessionInfo[c] # None => /\ SessionInfo[c] \in Launch
                                /\ Server[c] = LmsOf[SessionInfo[c]]
    BY <1>0, <2>1 DEF IInv, TypeOK, InfoIsOfTheRequest
  <2>5. JarIsOfOneLaunch'
    BY <1>4, <2>4 DEF IInv, JarIsOfOneLaunch, RelayAnswer
  <2>6. /\ SessionInfo' \in [Conn -> Launch \cup {None}]
        /\ Server' \in [Conn -> Lms \cup {None}]
        /\ SessionInfo'[c] = None
        /\ \A d \in Conn : d # c => SessionInfo'[d] = SessionInfo[d] /\ Server'[d] = Server[d]
        /\ SessionInfo[c] = None => Server'[c] = Server[c]
    BY <1>0, <1>4 DEF RelayAnswer, ForgetLaunch, TypeOK
  <2>7. jar' \in [info : Launch \cup {None}, server : Lms \cup {None}]
    BY <1>0, <1>4 DEF RelayAnswer, TypeOK
  <2>8. request[c].kind = "session" => SessionInfo[c] = None
    BY DEF IInv, InfoIsOfTheRequest
  <2>9. InfoIsOfTheRequest'
    BY <2>2, <2>6 DEF IInv, InfoIsOfTheRequest
  <2>10. SessionIsReported'
    BY <2>1, <2>2, <2>3, <2>6, <2>8 DEF IInv, SessionIsReported
  <2>11. CrashIsWithoutCookie'
    BY <2>2, <2>3 DEF IInv, CrashIsWithoutCookie
  <2>12. QED
    BY <1>0, <2>1, <2>2, <2>5, <2>6, <2>7, <2>9, <2>10, <2>11
       DEF IInv, TypeOK, InstanceIsOfTheLms
<1>5. ASSUME NEW c \in Conn, Connect(c) PROVE IInv'
  BY <1>5, DoingFields DEF Connect, IInv, TypeOK, JarIsOfOneLaunch, InfoIsOfTheRequest,
     SessionIsReported, CrashIsWithoutCookie, InstanceIsOfTheLms, Request
<1>6. ASSUME NEW c \in Conn, Leave(c) PROVE IInv'
  BY <1>6, DoingFields DEF Leave, IInv, TypeOK, JarIsOfOneLaunch, InfoIsOfTheRequest,
     SessionIsReported, CrashIsWithoutCookie, InstanceIsOfTheLms, Request
<1>7. CASE DeleteCookies
  BY <1>7 DEF DeleteCookies, IInv, TypeOK, JarIsOfOneLaunch, InfoIsOfTheRequest,
     SessionIsReported, CrashIsWithoutCookie, InstanceIsOfTheLms
<1>8. CASE UNCHANGED vars
  BY <1>8 DEF vars, IInv, TypeOK, JarIsOfOneLaunch, InfoIsOfTheRequest,
     SessionIsReported, CrashIsWithoutCookie, InstanceIsOfTheLms
<1>9. QED
  BY <1>1, <1>2, <1>3, <1>4, <1>5, <1>6, <1>7, <1>8 DEF Next, RelayExecute, RelayReply

\* The inductive invariant holds in every reachable state.
THEOREM Invariance == Spec => []IInv
  BY InitIInv, NextIInv, PTL DEF Spec

\* Type correctness.
THEOREM TypeCorrect == Spec => []TypeOK
<1>1. IInv => TypeOK
  BY DEF IInv
<1>2. QED
  BY <1>1, Invariance, PTL

\* A session is reported to the LMS of its instance, whatever launches share
\* the browser's cookies and the process.
THEOREM ReportsGoHome == Spec => []InstanceIsOfTheLms
<1>1. IInv => InstanceIsOfTheLms
  BY DEF IInv
<1>2. QED
  BY <1>1, Invariance, PTL

\* Cells go to the LMS that knows their session, and no process is killed in a
\* session opened with cookies.
THEOREM ReportsAreLinked == Spec => []ReportIsLinked
<1>1. IInv => ReportIsLinked
  BY DEF IInv, ReportIsLinked, SessionIsReported, CrashIsWithoutCookie
<1>2. QED
  BY <1>1, Invariance, PTL

\* Cookies that reach the browser are those of the launch it waits for.
THEOREM CookiesFollowLaunch == Spec => CookiesAreOfTheLaunch
<1> DEFINE Set == jar' # jar /\ jar'.info # None =>
       \E c \in Conn :
         /\ request[c].kind = "launch"
         /\ jar' = [info |-> request[c].launch, server |-> LmsOf[request[c].launch]]
<1>1. ASSUME IInv, Next PROVE Set
  <2>1. ASSUME NEW c \in Conn, RelayAnswer(c), jar' # jar PROVE Set
    <3>1. /\ SessionInfo[c] # None
          /\ request[c].kind \in {"launch", "session"}
          /\ jar' = [info |-> SessionInfo[c], server |-> Server[c]]
      BY <2>1 DEF RelayAnswer
    <3>2. /\ request[c].kind = "launch"
          /\ SessionInfo[c] = request[c].launch
          /\ Server[c] = LmsOf[request[c].launch]
      BY <1>1, <3>1 DEF IInv, InfoIsOfTheRequest
    <3>3. QED
      BY <3>1, <3>2
  <2>2. CASE DeleteCookies
    BY <2>2 DEF DeleteCookies
  <2>3. CASE UNCHANGED jar
    BY <2>3
  <2>4. QED
    BY <1>1, <2>1, <2>2, <2>3 DEF Next, RelayLaunch, RelaySession, RelayExecute, RelayReply,
       PostCell, Connect, Leave
<1>2. ASSUME IInv, [Next]_vars PROVE [Set]_vars
  BY <1>1, <1>2
<1>3. QED
  BY <1>2, Invariance, PTL DEF Spec, CookiesAreOfTheLaunch
===============================================================================
