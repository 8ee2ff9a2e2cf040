------------------------------- MODULE ApiServer -------------------------------
(***************************************************************************)
(* ltictr_api_server: one process that accepts connections one after the   *)
(* other and serves exactly one request on each.  The routes are kept in   *)
(* lproxy, a linked list in registration order whose nodes are compared    *)
(* with strcasecmp() (strncasecmp_tList with length 0).  Everything a      *)
(* client is told depends on the order of that list, which the abstract    *)
(* RouteTable does not have.                                               *)
(***************************************************************************)
EXTENDS Naturals, SequencesExt

CONSTANTS
  Name,      \* user names as they are spelled in requests
  Root,      \* the name "/", which stands for the hub itself
  Fold,      \* Fold[n]: the spelling strcasecmp() identifies n with
  Target,    \* addresses of hub and user servers
  Client,    \* connections to the API port
  None,      \* an absent client, user or target
  Https,     \* whether the API port speaks TLS (APIPortCTX is set up)
  MaxBacklog \* connections the kernel queues for accept()

ASSUME NameAssumption ==
  /\ Root \in Name
  /\ Fold \in [Name -> Name]
  /\ \A n \in Name : Fold[Fold[n]] = Fold[n]
  /\ \A n \in Name : Fold[n] = Fold[Root] <=> n = Root

Route == [user : Name, target : Target]

ASSUME NoneAssumption == None \notin Name \cup Target \cup Client \cup Route

ASSUME BacklogAssumption == MaxBacklog \in Nat

ASSUME HttpsAssumption == Https \in BOOLEAN

VARIABLES
  lproxy,    \* the route list, oldest registration first
  backlog,   \* connections waiting for accept(), in order of arrival
  Aofd,      \* the connection being served, or None
  shaking,   \* whether the process is inside ssl_server_socket(Aofd)
  reply      \* the answer given last

vars == <<lproxy, backlog, Aofd, shaking, reply>>

-------------------------------------------------------------------------------
(* The list operations. *)

SameUser(a, b) == Fold[a] = Fold[b]

\* strncasecmp_tList(lproxy, uname, 0, 1): the positions of matching nodes.
Matches(list, u) == {i \in 1 .. Len(list) : SameUser(list[i].user, u)}

First(list, u) == Min(Matches(list, u))

\* api_get_user: the routes that are put into the answer, in this order.
api_get_user(list, u) ==
  IF u = Root THEN list
  ELSE IF Matches(list, u) = {} THEN <<>>
  ELSE <<list[First(list, u)]>>

api_del_user(list, u) ==
  IF Matches(list, u) = {} THEN list ELSE RemoveAt(list, First(list, u))

\* Mutant: the old route is not deleted.
AddAnother(list, u, t) == Append(list, [user |-> u, target |-> t])

api_add_user(list, u, t) ==
  Append(api_del_user(list, u), [user |-> u, target |-> t])

-------------------------------------------------------------------------------
(* Requests. *)

Method == {"UNKNOWN", "GET", "POST", "DELETE", "OTHER"}

\* The body of a POST: the "user" and "target" of a JSON object (None when
\* the key is missing), or something that is not JSON.
Body == [json : BOOLEAN, user : Name \cup {None}, target : Target \cup {None}]

\* Mutant: the path is looked at before the token.
PathBeforeToken(m, token, u) ==
  IF m = "UNKNOWN" THEN 400
  ELSE IF u = None THEN 404
  ELSE IF ~token THEN 401
  ELSE IF m = "OTHER" THEN 405
  ELSE 0

\* The order in which api_main_process rejects a request: an unknown method,
\* a wrong token, a path that names no route, a method it does not serve.
\* 0 is not rejected.
Refusal(m, token, u) ==
  IF m = "UNKNOWN" THEN 400
  ELSE IF ~token THEN 401
  ELSE IF u = None THEN 404
  ELSE IF m = "OTHER" THEN 405
  ELSE 0

\* The rejections a request can meet, each with the outcome of the token check.
Refusals ==
  {<<token, Refusal(m, token, u)>> :
     m \in Method, token \in BOOLEAN, u \in Name \cup {None}} \ {<<TRUE, 0>>}

\* Mutant: a body without a target is taken.
AcceptableWithoutTarget(u) == {body \in Body : body.json /\ (u # Root => body.user = u)}

\* The bodies api_add_user takes for user u; it looks at nothing else of them
\* before it touches the list.
Acceptable(u) ==
  {body \in Body : /\ body.json
                   /\ u # Root => body.user = u
                   /\ body.target # None}

-------------------------------------------------------------------------------
NoReply == [client |-> None, authorised |-> FALSE, code |-> 0, routes |-> <<>>]

Init ==
  /\ lproxy = <<>>
  /\ backlog = <<>>
  /\ Aofd = None
  /\ shaking = FALSE
  /\ reply = NoReply

Waiting == ToSet(backlog) \cup ({Aofd} \ {None})

\* A client opens a connection; the kernel queues it.
Connect(c) ==
  /\ c \notin Waiting
  /\ Len(backlog) < MaxBacklog
  /\ backlog' = Append(backlog, c)
  /\ UNCHANGED <<lproxy, Aofd, shaking, reply>>

\* accept_intr() in the main loop, and the call of ssl_server_socket().
Accept ==
  /\ Aofd = None
  /\ backlog # <<>>
  /\ Aofd' = Head(backlog)
  /\ shaking' = Https
  /\ backlog' = Tail(backlog)
  /\ UNCHANGED <<lproxy, reply>>

\* The client does its part of the TLS handshake, or breaks it off.  Nothing
\* in the code ends the wait for a client that does neither.
Handshake ==
  /\ shaking
  /\ shaking' = FALSE
  /\ UNCHANGED <<lproxy, backlog, Aofd, reply>>

\* send_http_response or send_http_error, and close(Aofd) in the main loop.
Respond(ok, n, routes) ==
  /\ Aofd # None
  /\ ~shaking
  /\ reply' = [client |-> Aofd, authorised |-> ok, code |-> n, routes |-> routes]
  /\ Aofd' = None
  /\ UNCHANGED <<backlog, shaking>>

\* recv_https_Buffer fails: nothing is sent when the client has closed the
\* connection (0), 400 is sent after an error or HTTP_TIMEOUT (negative).
Unreadable ==
  /\ \E n \in {0, 400} : Respond(FALSE, n, <<>>)
  /\ UNCHANGED lproxy

Refused ==
  /\ \E r \in Refusals : Respond(r[1], r[2], <<>>)
  /\ UNCHANGED lproxy

Get(u) ==
  /\ Respond(TRUE, 200, api_get_user(lproxy, u))
  /\ UNCHANGED lproxy

Post(u) ==
  /\ \E t \in {body.target : body \in Acceptable(u)} :
       lproxy' = api_add_user(lproxy, u, t)
  /\ Respond(TRUE, 201, <<>>)

PostRefused(u) ==
  /\ Body \ Acceptable(u) # {}
  /\ Respond(TRUE, 400, <<>>)
  /\ UNCHANGED lproxy

Delete(u) ==
  /\ Matches(lproxy, u) # {}
  /\ lproxy' = api_del_user(lproxy, u)
  /\ Respond(TRUE, 204, <<>>)

DeleteMissing(u) ==
  /\ Matches(lproxy, u) = {}
  /\ Respond(TRUE, 404, <<>>)
  /\ UNCHANGED lproxy

\* sig_term or sig_segmen: the process ends and its successor starts with an
\* empty list; every open connection is reset.
Restart ==
  /\ lproxy' = <<>>
  /\ backlog' = <<>>
  /\ Aofd' = None
  /\ shaking' = FALSE
  /\ reply' = NoReply

\* api_main_process on the accepted connection.
Serve ==
  \/ Unreadable
  \/ Refused
  \/ \E u \in Name :
       \/ Get(u)
       \/ Post(u)
       \/ PostRefused(u)
       \/ Delete(u)
       \/ DeleteMissing(u)

Next ==
  \/ \E c \in Client : Connect(c)
  \/ Accept
  \/ Handshake
  \/ Serve
  \/ Restart

\* No step is obliged to happen: a client that is silent in the handshake holds
\* the process, and everyone behind it, for as long as it likes.
Spec == Init /\ [][Next]_vars

-------------------------------------------------------------------------------
(* Properties. *)

\* Every variable has its type.
TypeOK ==
  /\ lproxy \in Seq(Route)
  /\ backlog \in Seq(Client)
  /\ Aofd \in Client \cup {None}
  /\ shaking \in BOOLEAN
  /\ reply \in [client : Client \cup {None}, authorised : BOOLEAN,
                code : {0, 200, 201, 204, 400, 401, 404, 405}, routes : Seq(Route)]

\* No two nodes of the list belong to the same user, however the names are
\* spelled: api_add_user and api_del_user delete only the FIRST match, so a
\* second one would outlive every DELETE and come back as that user's route.
DistinctUsers(list) ==
  \A i, j \in 1 .. Len(list) : SameUser(list[i].user, list[j].user) => i = j

OneRoutePerUser == DistinctUsers(lproxy)

\* The list implements the table: the route of a key is the first node whose
\* user folds to it.
RouteOf(list, k) == IF Matches(list, k) = {} THEN None ELSE list[First(list, k)]

Table ==
  INSTANCE RouteTable WITH
    NoRoute <- None,
    table <- [k \in {Fold[n] : n \in Name} |-> RouteOf(lproxy, k)],
    answer <- [reply EXCEPT !.routes = ToSet(@)]

\* Every step of the server is a step of RouteTable or changes nothing there.
ImplementsRouteTable == Table!Spec
===============================================================================
