------------------------------- MODULE LmsSession -------------------------------
(***************************************************************************)
(* ltictr_relay and ltictr_xmlrpc: how the proxy tells the LMS what its    *)
(* students do.  The LTI launch that the browser posts names the instance  *)
(* in the LMS (SessionInfo) and how to reach that LMS (ServerURL,          *)
(* ServerPath, ServerToken, here one value); the answer to the launch      *)
(* takes them to the browser as cookies.  When the browser opens a kernel  *)
(* session, any proxy process reads the cookies and reports the session to *)
(* the LMS, and then every cell that is executed in it.                    *)
(*                                                                         *)
(* SessionInfo and the others are globals of each receipt_proxy process.   *)
(* The browser and the servers are the environment: on one connection the  *)
(* browser sends a request only when the one before has been answered.     *)
(***************************************************************************)
EXTENDS Naturals, FiniteSets

CONSTANTS
  Conn,     \* connections, each with its receipt_proxy process
  Launch,   \* LTI launches, that is lms_sessioninfo values
  Lms,      \* learning management systems
  LmsOf,    \* LmsOf[l]: the LMS that launch l comes from
  Session,  \* kernel sessions
  None      \* an absent value: NULL, or no cookie

ASSUME LmsOfAssumption == LmsOf \in [Launch -> Lms]

ASSUME NoneAssumption == None \notin Launch \cup Lms \cup Session

VARIABLES
  SessionInfo, \* per process: the launch whose answer is to set the cookies
  Server,      \* per process: ServerURL, ServerPath and ServerToken
  jar,         \* the browser's cookies: lms_sessioninfo, and the other three
  request,     \* per connection: what the browser is doing
  posts,       \* the pairs <<LMS, session>> of the sessions reported
  report       \* the XML-RPC call made last

vars == <<SessionInfo, Server, jar, request, posts, report>>

\* request[c].kind: the browser is not connected, connected, waits for the
\* answer to a launch or to a request with a session_id, or uses the websocket
\* of a session.  cookie: it had cookies when it asked for the session.
Request == [kind : {"gone", "idle", "launch", "session", "websocket", "crashed"},
            launch : Launch \cup {None}, session : Session \cup {None}, cookie : BOOLEAN]

Doing(k) == [kind |-> k, launch |-> None, session |-> None, cookie |-> FALSE]

NoReport == [kind |-> "none", host |-> None, inst |-> None, session |-> None]

Init ==
  /\ SessionInfo = [c \in Conn |-> None]
  /\ Server = [c \in Conn |-> None]
  /\ jar = [info |-> None, server |-> None]
  /\ request = [c \in Conn |-> Doing("gone")]
  /\ posts = {}
  /\ report = NoReport

-------------------------------------------------------------------------------
(* post_xmlrpc_server *)

\* The call goes to the LMS in Server.  The LMS may be down: nobody notices.
Call(kind, server, inst, s) ==
  report' = [kind |-> kind, host |-> server, inst |-> inst, session |-> s]

\* A cell of c's session is reported; the process is killed by *path when
\* there is no ServerPath.
PostCell(c, kind) ==
  /\ IF Server[c] = None
       THEN request' = [request EXCEPT ![c].kind = "crashed"] /\ UNCHANGED report
       ELSE Call(kind, Server[c], None, request[c].session) /\ UNCHANGED request
  /\ UNCHANGED <<SessionInfo, Server, jar, posts>>

-------------------------------------------------------------------------------
(* relay_to_server *)

\* A POST with LTI data is remembered unless another one still is.
RelayLaunch(c, l) ==
  /\ request[c].kind = "idle"
  /\ request' = [request EXCEPT ![c].kind = "launch", ![c].launch = l]
  /\ IF SessionInfo[c] = None
       THEN /\ SessionInfo' = [SessionInfo EXCEPT ![c] = l]
            /\ Server' = [Server EXCEPT ![c] = LmsOf[l]]
       ELSE UNCHANGED <<SessionInfo, Server>>
  /\ UNCHANGED <<jar, posts, report>>

\* Mutant: the LMS is not taken from the cookies when one is known already.
ServerFromCookieOnce(c) == IF Server[c] = None THEN jar.server ELSE Server[c]

\* Mutant: the value of lms_sessioninfo is taken for the server's.
ServerFromOtherCookie(c) == jar.info

\* freenull and get_info_from_cookie.
ServerFromCookie(c) == jar.server

\* A GET with a session_id reports the session if the browser sends cookies.
RelaySession(c, s) ==
  LET server == ServerFromCookie(c) IN
  /\ request[c].kind = "idle"
  /\ request' = [request EXCEPT ![c] =
       [kind |-> "session", launch |-> None, session |-> s, cookie |-> jar.info # None]]
  /\ IF jar.info = None
       THEN UNCHANGED <<Server, posts, report>>
       ELSE /\ Server' = [Server EXCEPT ![c] = server]
            /\ Call("session", server, jar.info, s)
            /\ posts' = posts \cup {<<server, s>>}
  /\ UNCHANGED <<SessionInfo, jar>>

\* A frame that executes a cell.
RelayExecute(c) ==
  /\ request[c].kind = "websocket"
  /\ PostCell(c, "client")

-------------------------------------------------------------------------------
(* relay_to_client *)

\* Mutant: SessionInfo is kept.
KeepInfo(c) ==
  /\ Server' = IF SessionInfo[c] = None THEN Server ELSE [Server EXCEPT ![c] = None]
  /\ UNCHANGED SessionInfo

\* Mutant: the server is forgotten with every answer.
ForgetAlways(c) ==
  /\ SessionInfo' = [SessionInfo EXCEPT ![c] = None]
  /\ Server' = [Server EXCEPT ![c] = None]

\* freenull
ForgetLaunch(c) ==
  IF SessionInfo[c] = None
    THEN UNCHANGED <<SessionInfo, Server>>
    ELSE /\ SessionInfo' = [SessionInfo EXCEPT ![c] = None]
         /\ Server' = [Server EXCEPT ![c] = None]

\* An HTTP answer takes the launch to the browser.  The cookies are put behind
\* a "Set-Cookie" or "Host" header: an answer without either loses them.
RelayAnswer(c) ==
  /\ request[c].kind \in {"launch", "session"}
  /\ \/ request' = [request EXCEPT ![c] = Doing("idle")]
     \/ request[c].kind = "session" /\ request' = [request EXCEPT ![c].kind = "websocket"]
  /\ \/ UNCHANGED jar
     \/ /\ SessionInfo[c] # None
        /\ jar' = [info |-> SessionInfo[c], server |-> Server[c]]
  /\ ForgetLaunch(c)
  /\ UNCHANGED <<posts, report>>

\* A frame with the result of a cell.
RelayReply(c) ==
  /\ request[c].kind = "websocket"
  /\ PostCell(c, "server")

-------------------------------------------------------------------------------
(* The browser connects, leaves, and deletes its cookies. *)

Connect(c) ==
  /\ request[c].kind \in {"gone", "crashed"}
  /\ request' = [request EXCEPT ![c] = Doing("idle")]
  /\ SessionInfo' = [SessionInfo EXCEPT ![c] = None]
  /\ Server' = [Server EXCEPT ![c] = None]
  /\ UNCHANGED <<jar, posts, report>>

Leave(c) ==
  /\ request[c].kind \notin {"gone", "crashed"}
  /\ request' = [request EXCEPT ![c] = Doing("gone")]
  /\ UNCHANGED <<SessionInfo, Server, jar, posts, report>>

DeleteCookies ==
  /\ jar' = [info |-> None, server |-> None]
  /\ UNCHANGED <<SessionInfo, Server, request, posts, report>>

Next ==
  \/ \E c \in Conn :
       \/ \E l \in Launch : RelayLaunch(c, l)
       \/ \E s \in Session : RelaySession(c, s)
       \/ RelayExecute(c)
       \/ RelayAnswer(c)
       \/ RelayReply(c)
       \/ Connect(c)
       \/ Leave(c)
  \/ DeleteCookies

Spec == Init /\ [][Next]_vars

-------------------------------------------------------------------------------
(* Properties. *)

\* Every variable has its type.
TypeOK ==
  /\ SessionInfo \in [Conn -> Launch \cup {None}]
  /\ Server \in [Conn -> Lms \cup {None}]
  /\ jar \in [info : Launch \cup {None}, server : Lms \cup {None}]
  /\ request \in [Conn -> Request]
  /\ posts \in SUBSET (Lms \X Session)
  /\ report \in [kind : {"none", "session", "client", "server"}, host : Lms \cup {None},
                 inst : Launch \cup {None}, session : Session \cup {None}]

\* The cookies that reach the browser are those of the very launch it waits
\* for, all from one LMS: none is left over in the process from an earlier
\* launch on the connection, none is overwritten from old cookies.
CookiesAreOfTheLaunch ==
  [][jar' # jar /\ jar'.info # None =>
       \E c \in Conn :
         /\ request[c].kind = "launch"
         /\ jar' = [info |-> request[c].launch, server |-> LmsOf[request[c].launch]]]_vars

\* A session is reported to the LMS that the instance it is reported for
\* belongs to, although launches from several LMSs use the same cookies and
\* the same globals.
InstanceIsOfTheLms ==
  report.kind = "session" => report.host = LmsOf[report.inst]

\* A session the browser opened with cookies was reported to the LMS that its
\* cells will be reported to, and executing them does not kill the process:
\* ServerPath is NULL only for a session opened without cookies.
ReportIsLinked ==
  \A c \in Conn :
    /\ request[c].kind = "websocket" /\ request[c].cookie =>
         <<Server[c], request[c].session>> \in posts
    /\ request[c].kind = "crashed" => ~request[c].cookie
===============================================================================
