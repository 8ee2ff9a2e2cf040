------------------------------ MODULE RouteTable ------------------------------
(***************************************************************************)
(* What the routing API of ltictr_api_server promises to its clients (the  *)
(* JupyterHub and the per-connection children of ltictr_proxy_server): a   *)
(* finite map from user names, compared without regard to case, to the     *)
(* target of that user's server.  Every request is answered from, and      *)
(* applied to, the map in one step; a request that is refused, for         *)
(* whatever reason, changes nothing and reveals nothing.                   *)
(***************************************************************************)

CONSTANTS
  Name,      \* user names as they are spelled in requests
  Root,      \* the name "/", which stands for the hub itself
  Fold,      \* Fold[n]: the spelling strcasecmp() identifies n with
  Target,    \* addresses of hub and user servers
  Client,    \* connections to the API port
  NoRoute    \* the table's entry for a user without a server

Route == [user : Name, target : Target]

Key == {Fold[n] : n \in Name}

VARIABLES
  table,     \* the route of every key, as it was registered last
  answer     \* the answer given last

NoAnswer == [client |-> NoRoute, authorised |-> FALSE, code |-> 0, routes |-> {}]

TypeOK ==
  /\ table \in [Key -> Route \cup {NoRoute}]
  /\ answer = NoAnswer \/ answer.client \in Client

Init ==
  /\ table = [k \in Key |-> NoRoute]
  /\ answer = NoAnswer

Answer(c, ok, n, routes) ==
  answer' = [client |-> c, authorised |-> ok, code |-> n, routes |-> routes]

Registered == {table[k] : k \in Key} \ {NoRoute}

Register(c, u, t) ==
  /\ table' = [table EXCEPT ![Fold[u]] = [user |-> u, target |-> t]]
  /\ Answer(c, TRUE, 201, {})

Unregister(c, u) ==
  /\ table[Fold[u]] # NoRoute
  /\ table' = [table EXCEPT ![Fold[u]] = NoRoute]
  /\ Answer(c, TRUE, 204, {})

Lookup(c, u) ==
  /\ u # Root
  /\ Answer(c, TRUE, 200, {table[Fold[u]]} \ {NoRoute})
  /\ UNCHANGED table

LookupAll(c) ==
  /\ Answer(c, TRUE, 200, Registered)
  /\ UNCHANGED table

\* Code 0 stands for a connection closed without an answer.
Refuse(c) ==
  /\ \E ok \in BOOLEAN, n \in {0, 400, 401, 404, 405} :
       /\ n = 404 => ok
       /\ Answer(c, ok, n, {})
  /\ UNCHANGED table

\* The table lives in the memory of one process and dies with it.
Reset ==
  /\ table' = [k \in Key |-> NoRoute]
  /\ answer' = NoAnswer

Next ==
  \/ \E c \in Client, u \in Name :
       \/ \E t \in Target : Register(c, u, t)
       \/ Unregister(c, u)
       \/ Lookup(c, u)
  \/ \E c \in Client : LookupAll(c) \/ Refuse(c)
  \/ Reset

vars == <<table, answer>>

Spec == Init /\ [][Next]_vars
===============================================================================
