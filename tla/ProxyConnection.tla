---------------------------- MODULE ProxyConnection ----------------------------
(***************************************************************************)
(* receipt_proxy: the process that ltictr_proxy_server forks for one       *)
(* client connection.  It asks the API server for the target of a user it  *)
(* has not met yet, remembers the answer in its own copy of ProxyList, and *)
(* relays between the client and the servers until the client leaves, a    *)
(* relay fails, or nothing arrives for too long.                           *)
(*                                                                         *)
(* The hub, which edits the routes of the API server meanwhile, the client *)
(* and the servers are the environment.  The client sends its requests one *)
(* after the other, and frames once a server has upgraded the connection   *)
(* to a websocket.                                                         *)
(***************************************************************************)
EXTENDS Naturals, SequencesExt

CONSTANTS
  Name, Root, Fold, Target, \* as in ApiServer
  None,
  HostUrl,      \* target of "/" given with -h, or None
  MaxMessages,  \* bound: messages of the client
  MaxRoutes     \* bound: routes the hub has registered at the same time

ASSUME BoundsAssumption == MaxMessages \in Nat /\ MaxRoutes \in Nat

ASSUME HostUrlAssumption == HostUrl \in Target \cup {None}

ASSUME NameAssumption ==
  /\ Root \in Name /\ Fold \in [Name -> Name]
  /\ \A n \in Name : Fold[n] = Fold[Root] <=> n = Root

VARIABLES
  routes,    \* the list of ApiServer
  changed,   \* history: the users whose route the hub has edited since this
             \* process entered them into lproxy, by their folded names
  lproxy,    \* this process's list, the entry added last first
  pc,        \* where the main loop is
  ready,     \* the client was readable in the last select()
  mask,      \* the positions in lproxy of the servers that were
  inbox,     \* what the client has sent and receipt_proxy has not read
  client,    \* what the client is doing
  messages,  \* messages the client has sent
  relayed    \* the last message relayed to a server

envVars == <<routes, changed>>
vars == <<routes, changed, lproxy, pc, ready, mask, inbox, client, messages, relayed>>

\* The list operations of the API server.
Api ==
  INSTANCE ApiServer WITH
    Client <- {}, Https <- FALSE, MaxBacklog <- 0,
    lproxy <- routes, backlog <- <<>>, Aofd <- None, shaking <- FALSE, reply <- None

\* A message: a request for a path below /user/<name>, for another path (Root)
\* or without a path (None), or a frame; or the end of the connection.
Request(u) == [kind |-> "request", user |-> u]
Frame == [kind |-> "frame", user |-> None]
Eof == [kind |-> "eof", user |-> None]

Message == {Request(u) : u \in Name \cup {None}} \cup {Frame, Eof}

\* What was relayed last: the message, and the entry it went to.
Relayed == [msg : Message, user : Name, target : Target]

ASSUME NoneAssumption == None \notin Message \cup Relayed

\* An entry of lproxy.  open: ldat.id is a socket.  ctrl: it is a websocket.
\* owed: the server has a request to answer.  up: what can be read from it.
Entry == [user : Name, target : Target, open : BOOLEAN, ctrl : BOOLEAN,
          owed : BOOLEAN, up : {"nothing", "answer", "upgrade", "frame", "eof"}]

NewEntry(u, t) == [user |-> u, target |-> t, open |-> FALSE, ctrl |-> FALSE,
                   owed |-> FALSE, up |-> "nothing"]

\* Mutant: ctrl is not reset.
ClosedWebsocket(e) == [NewEntry(e.user, e.target) EXCEPT !.ctrl = e.ctrl]

\* close(csock), ldat.id = 0, ctrl = 0.
Closed(e) == NewEntry(e.user, e.target)

Entries == 1 .. Len(lproxy)

Init ==
  /\ routes = <<>>
  /\ lproxy = IF HostUrl = None THEN <<>> ELSE <<NewEntry(Root, HostUrl)>>
  /\ changed = {}
  /\ pc = "select"
  /\ ready = FALSE
  /\ mask = {}
  /\ inbox = None
  /\ client = "idle"
  /\ messages = 0
  /\ relayed = None

-------------------------------------------------------------------------------
(* The end of the process: every socket is closed. *)

Terminate ==
  /\ pc' = "done"
  /\ lproxy' = [i \in Entries |-> Closed(lproxy[i])]
  /\ client' = "closed"
  /\ mask' = {}

-------------------------------------------------------------------------------
(* Client -> server. *)

\* The entry a message finds in lproxy: the first websocket for a frame, the
\* first entry of the user otherwise.
Peers == {i \in Entries : lproxy[i].ctrl}
OfUser(u) == {i \in Entries : Api!SameUser(lproxy[i].user, u)}

Found(msg) ==
  IF msg.kind = "frame" THEN Peers
  ELSE IF msg.user = None THEN {}
  ELSE OfUser(msg.user)

\* Mutant: the spelling of the answer is not compared.
TargetsAnySpelling(msg) ==
  IF msg.kind = "frame" \/ msg.user = None THEN {None}
  ELSE LET answer == Api!api_get_user(routes, msg.user)
       IN  {None} \cup {answer[i].target : i \in {1} \cap DOMAIN answer}

\* get_proxy_target: the targets the API server's answer can yield.  For "/"
\* the answer lists every route and the first "target" is taken, for a user
\* the answer must be spelled like the request.  "@" is no user's name, and
\* None is a failure to ask.
Targets(msg) ==
  IF msg.kind = "frame" \/ msg.user = None THEN {None}
  ELSE LET answer == Api!api_get_user(routes, msg.user)
       IN  {None} \cup {answer[i].target : i \in
              {j \in {1} \cap DOMAIN answer :
                 msg.user = Root \/ answer[j].user = msg.user}}

\* Mutant: an answer without a target is entered too.
RoutedUnchecked(msg) ==
  IF Found(msg) # {} THEN {[list |-> lproxy, at |-> Min(Found(msg))]}
  ELSE {[list |-> <<NewEntry(msg.user, t)>> \o lproxy, at |-> 1] : t \in Targets(msg)}

\* The list and the position in it that routing ends with; position 0: no
\* entry, not even one for "/".
Routed(msg) ==
  LET fallback == [list |-> lproxy,
                   at |-> IF OfUser(Root) = {} THEN 0 ELSE Min(OfUser(Root))]
  IN
  IF Found(msg) # {} THEN {[list |-> lproxy, at |-> Min(Found(msg))]}
  ELSE {IF t = None THEN fallback
        ELSE [list |-> <<NewEntry(msg.user, t)>> \o lproxy, at |-> 1] : t \in Targets(msg)}

\* The message is sent: a socket is opened unless there is one, and a server
\* that has closed its end meanwhile does not answer.  To a server that never
\* agreed to a websocket a frame is just another request.
Relay(msg, r) ==
  LET e == r.list[r.at] IN
  /\ r.at # 0
  /\ lproxy' = [r.list EXCEPT ![r.at].open = TRUE,
                              ![r.at].owed = e.up # "eof" /\ (e.owed \/ ~e.ctrl)]
  /\ relayed' = [msg |-> msg, user |-> e.user, target |-> e.target]
  /\ pc' = "middle"
  /\ UNCHANGED <<client, mask>>

\* The loop body reads from the client if select() said so.  It ends when the
\* client has left, nothing is found, or the server cannot be reached.
ReadClient ==
  /\ pc = "client"
  /\ IF ~ready
       THEN /\ pc' = "middle"
            /\ UNCHANGED <<lproxy, inbox, client, mask, relayed>>
       ELSE /\ inbox' = None
            /\ \/ inbox # Eof /\ \E r \in Routed(inbox) : Relay(inbox, r)
               \/ Terminate /\ UNCHANGED relayed
  /\ UNCHANGED <<envVars, ready, messages>>

-------------------------------------------------------------------------------
(* The select() calls: at the start and at the end of the loop body, where a *)
(* timeout ends the loop, and in the middle, where it does not.              *)

Readable == {i \in Entries : lproxy[i].open /\ lproxy[i].up # "nothing"}

\* Mutant: a timeout does not end the loop.
SelectForever ==
  /\ pc = "select"
  /\ ready' = (inbox # None)
  /\ pc' = "client"
  /\ UNCHANGED <<lproxy, client, mask>>
  /\ UNCHANGED <<envVars, inbox, messages, relayed>>

Select ==
  /\ pc = "select"
  /\ ready' = (inbox # None)
  /\ IF inbox # None \/ Readable # {}
       THEN pc' = "client" /\ UNCHANGED <<lproxy, client, mask>>
       ELSE Terminate
  /\ UNCHANGED <<envVars, inbox, messages, relayed>>

SelectMiddle ==
  /\ pc = "middle"
  /\ mask' = Readable
  /\ pc' = "server"
  /\ UNCHANGED <<envVars, lproxy, ready, inbox, client, messages, relayed>>

-------------------------------------------------------------------------------
(* Server -> client: the entries in the order of the list. *)

\* An answer ends the use of the server's socket ("Connection: close").
ReadAnswer ==
  /\ pc = "server"
  /\ mask # {}
  /\ LET i == Min(mask) IN
     /\ lproxy[i].up = "answer"
     /\ lproxy' = [lproxy EXCEPT ![i] = Closed(@)]
     /\ mask' = mask \ {i}
     /\ client' = IF client = "waiting" THEN "idle" ELSE client
  /\ UNCHANGED <<envVars, pc, ready, inbox, messages, relayed>>

\* An upgrade marks the entry as a websocket; a frame is passed on.  The socket
\* stays open unless the client cannot be written to.
ReadWebsocket ==
  /\ pc = "server"
  /\ mask # {}
  /\ LET i == Min(mask) IN
     /\ lproxy[i].up \in {"upgrade", "frame"}
     /\ \/ /\ lproxy' = [lproxy EXCEPT ![i].ctrl = @ \/ lproxy[i].up = "upgrade",
                                       ![i].up = "nothing"]
           /\ client' = IF client = "waiting" THEN "websocket" ELSE client
        \/ /\ client = "closed"
           /\ lproxy' = [lproxy EXCEPT ![i] = Closed(@)]
           /\ UNCHANGED client
     /\ mask' = mask \ {i}
  /\ UNCHANGED <<envVars, pc, ready, inbox, messages, relayed>>

\* The server has closed: the entry is closed and the rest of the list skipped.
ReadEof ==
  /\ pc = "server"
  /\ mask # {}
  /\ LET i == Min(mask) IN
     /\ lproxy[i].up = "eof"
     /\ lproxy' = [lproxy EXCEPT ![i] = Closed(@)]
     /\ mask' = {}
  /\ UNCHANGED <<envVars, pc, ready, inbox, client, messages, relayed>>

ServersRead ==
  /\ pc = "server"
  /\ mask = {}
  /\ pc' = "select"
  /\ UNCHANGED <<envVars, lproxy, ready, mask, inbox, client, messages, relayed>>

-------------------------------------------------------------------------------
(* The environment. *)

\* The client sends the next message, or leaves.
ClientSends ==
  /\ inbox = None
  /\ messages < MaxMessages
  /\ messages' = messages + 1
  /\ \/ /\ client = "idle"
        /\ \E u \in Name \cup {None} : inbox' = Request(u)
        /\ client' = "waiting"
     \/ /\ client = "websocket"
        /\ inbox' = Frame
        /\ UNCHANGED client
  /\ UNCHANGED <<envVars, lproxy, pc, ready, mask, relayed>>

ClientLeaves ==
  /\ client # "closed"
  /\ inbox' = Eof
  /\ client' = "closed"
  /\ UNCHANGED <<envVars, lproxy, pc, ready, mask, messages, relayed>>

\* A server answers what it owes, accepts the upgrade, sends a frame on a
\* websocket, or closes.
ServerSends ==
  \E i \in Entries :
    /\ lproxy[i].open
    /\ lproxy[i].up = "nothing"
    /\ \/ /\ lproxy[i].owed
          /\ \E s \in {"answer"} \cup (IF relayed.msg # Frame THEN {"upgrade"} ELSE {}) :
               lproxy' = [lproxy EXCEPT ![i].up = s, ![i].owed = FALSE]
       \/ /\ lproxy[i].ctrl
          /\ lproxy' = [lproxy EXCEPT ![i].up = "frame"]
       \/ lproxy' = [lproxy EXCEPT ![i].up = "eof", ![i].owed = FALSE]
    /\ UNCHANGED <<envVars, pc, ready, mask, inbox, client, messages, relayed>>

\* The hub registers and removes routes, as often as it likes.
Edited(u) == IF OfUser(u) = {} THEN changed ELSE changed \cup {Fold[u]}

HubPosts(u, t) ==
  /\ routes' = Api!api_add_user(routes, u, t)
  /\ Len(routes') <= MaxRoutes
  /\ changed' = Edited(u)
  /\ UNCHANGED <<lproxy, pc, ready, mask, inbox, client, messages, relayed>>

HubDeletes(u) ==
  /\ Api!Matches(routes, u) # {}
  /\ routes' = Api!api_del_user(routes, u)
  /\ changed' = Edited(u)
  /\ UNCHANGED <<lproxy, pc, ready, mask, inbox, client, messages, relayed>>

ProxyStep ==
  \/ Select \/ ReadClient \/ SelectMiddle
  \/ ReadAnswer \/ ReadWebsocket \/ ReadEof \/ ServersRead

Next ==
  \/ ProxyStep
  \/ ClientSends \/ ClientLeaves
  \/ ServerSends
  \/ \E u \in Name : HubDeletes(u) \/ \E t \in Target : HubPosts(u, t)

\* The process runs, and its select() calls time out; client, servers and hub
\* are not obliged to anything.
Fairness == WF_vars(ProxyStep)

Spec == Init /\ [][Next]_vars /\ Fairness

-------------------------------------------------------------------------------
(* Properties. *)

\* Every variable has its type.
TypeOK ==
  /\ routes \in Seq(Api!Route)
  /\ changed \in SUBSET {Fold[u] : u \in Name}
  /\ lproxy \in Seq(Entry)
  /\ pc \in {"select", "client", "middle", "server", "done"}
  /\ ready \in BOOLEAN
  /\ mask \in SUBSET Entries
  /\ inbox \in Message \cup {None}
  /\ client \in {"idle", "waiting", "websocket", "closed"}
  /\ messages \in 0 .. MaxMessages
  /\ relayed \in Relayed \cup {None}

\* The route the API server has for the user of an entry is the entry's, or the
\* hub has edited that route since the entry was made.
Current(e) ==
  [user |-> e.user, target |-> e.target] \in ToSet(routes) \/ Fold[e.user] \in changed

\* A request for one user's server never reaches another user's: it goes to the
\* target the API server has for its user, or had when this connection asked
\* for that user first, if the hub has edited the route since; or it goes where
\* "/" leads to, which is the hub when the hub is given with -h.
RequestReachesItsUser ==
  [][\A u \in Name \ {Root} :
       pc = "client" /\ pc' = "middle" /\ ready /\ inbox = Request(u) =>
         \/ relayed'.user = Root /\ HostUrl \in {None, relayed'.target}
         \/ Api!SameUser(relayed'.user, u) /\ Current(relayed')]_vars

\* A frame carries no address: it goes to the first entry marked as a websocket.
\* So the mark must be unique, however often the client was upgraded before,
\* and it must not outlive the server's socket.
WebsocketIsUnique ==
  \A i, j \in Peers : i = j /\ lproxy[i].open

\* No client waits for ever: it is answered, or told that nobody will answer
\* by the end of its connection, whatever the servers, the API server and the
\* timeouts do.
RequestIsResolved == client = "waiting" ~> client # "waiting"

\* api_get_user answers "the query for user uname": the entry for "/" leads to
\* the target that is registered for "/", or was when it was asked for.
HubRouteIsTheHubs == \A i \in Entries : lproxy[i].user = Root => Current(lproxy[i])
===============================================================================
