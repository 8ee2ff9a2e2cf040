------------------------- MODULE ProxyConnectionProofs -------------------------
(***************************************************************************)
(* Proofs about ProxyConnection, for any number of users, targets, routes  *)
(* and messages: its types, that a request reaches no other user's server, *)
(* and that no two entries are marked as a websocket.                      *)
(***************************************************************************)
EXTENDS ProxyConnection, SequenceTheorems, WellFoundedInduction, TLAPS

\* An entry of a user is as good as the API server's, unless the hub has edited
\* the user's route since; the entry that -h makes for "/" stays the only one.
Good(e) == IF e.user = Root THEN HostUrl \in {None, e.target} ELSE Current(e)
Known ==
  /\ \A i \in Entries : Good(lproxy[i])
  /\ HostUrl # None => \E i \in Entries : lproxy[i].user = Root

\* An entry in use has a socket, and only a websocket sends frames.
Sound(e) ==
  /\ e.ctrl \/ e.owed \/ e.up # "nothing" => e.open
  /\ e.up = "frame" => e.ctrl
AllSound == \A i \in Entries : Sound(lproxy[i])

\* An entry that is a websocket or may become one: its server can still answer
\* a request with an upgrade.  What is asked by a frame is never upgraded.
FrameSent == relayed # None /\ relayed.msg = Frame
Pending(e) ==
  e.ctrl \/ e.up = "upgrade" \/ ((e.owed \/ e.up = "answer") /\ ~FrameSent)
OnePending == \A i, j \in Entries : Pending(lproxy[i]) /\ Pending(lproxy[j]) => i = j
NonePending == \A i \in Entries : ~Pending(lproxy[i])

\* The client takes turns with the servers until it has a websocket.
Dialog ==
  /\ client \in {"idle", "waiting"} => ~FrameSent
  /\ client = "idle" => inbox = None /\ NonePending
  /\ client = "waiting" /\ inbox # None => inbox.kind = "request" /\ NonePending
  /\ client = "websocket" => inbox \in {None, Frame}
  /\ client = "closed" => pc = "done" \/ inbox = Eof
  /\ pc = "client" /\ ready => inbox # None

IInv == TypeOK /\ Known /\ AllSound /\ OnePending /\ Dialog

-------------------------------------------------------------------------------
(* Lists. *)

LEMMA MinIsMember ==
  ASSUME NEW S, S \subseteq Nat, S # {}
  PROVE  Min(S) \in S
  <1>1. PICK m \in S : \A n \in S : <<n, m>> \notin OpToRel(<, Nat)
    BY NatLessThanWellFounded, WFMin, Zenon
  <1>2. OpToRel(<, Nat) = {ss \in Nat \X Nat : ss[1] < ss[2]}
    BY Zenon DEF OpToRel
  <1>3. ASSUME NEW n \in S PROVE m <= n
    <2>1. <<n, m>> \notin {ss \in Nat \X Nat : ss[1] < ss[2]}
      BY <1>1, <1>2, Zenon
    <2> QED BY <2>1
  <1> QED BY <1>3 DEF Min

LEMMA ReplaceOne ==
  ASSUME NEW S, NEW list \in Seq(S), NEW k \in 1 .. Len(list), NEW e \in S
  PROVE  LET new == [list EXCEPT ![k] = e]
         IN  /\ new \in Seq(S) /\ Len(new) = Len(list)
             /\ new[k] = e
             /\ \A i \in 1 .. Len(list) : i # k => new[i] = list[i]
  BY ExceptSeq

LEMMA PrependOne ==
  ASSUME NEW S, NEW list \in Seq(S), NEW e \in S
  PROVE  LET new == <<e>> \o list
         IN  /\ new \in Seq(S) /\ Len(new) = Len(list) + 1
             /\ new[1] = e
             /\ \A i \in 2 .. Len(list) + 1 : new[i] = list[i - 1]
  BY ConcatProperties

\* A list of the API server without one of its nodes has no others.
LEMMA RemoveOne ==
  ASSUME NEW S, NEW list \in Seq(S), NEW k \in 1 .. Len(list)
  PROVE  /\ RemoveAt(list, k) \in Seq(S)
         /\ \A i \in 1 .. Len(RemoveAt(list, k)) :
              \E j \in 1 .. Len(list) : RemoveAt(list, k)[i] = list[j]
         /\ \A j \in 1 .. Len(list) : j # k =>
              \E i \in 1 .. Len(RemoveAt(list, k)) : RemoveAt(list, k)[i] = list[j]
  <1> DEFINE a == SubSeq(list, 1, k - 1)
             b == SubSeq(list, k + 1, Len(list))
  <1>1. Len(list) \in Nat /\ \A i \in 1 .. Len(list) : list[i] \in S
    BY LenProperties
  <1>2. /\ a \in Seq(S) /\ Len(a) = k - 1
        /\ \A i \in 1 .. k - 1 : a[i] = list[i]
    <2>1. /\ a \in Seq(S)
          /\ Len(a) = IF 1 <= k - 1 THEN (k - 1) - 1 + 1 ELSE 0
          /\ \A i \in 1 .. (k - 1) - 1 + 1 : a[i] = list[1 + i - 1]
      BY <1>1, SubSeqProperties
    <2> QED BY <1>1, <2>1
  <1>3. /\ b \in Seq(S) /\ Len(b) = Len(list) - k
        /\ \A i \in 1 .. Len(list) - k : b[i] = list[k + i]
    <2>1. /\ b \in Seq(S)
          /\ Len(b) = IF k + 1 <= Len(list) THEN Len(list) - (k + 1) + 1 ELSE 0
          /\ \A i \in 1 .. Len(list) - (k + 1) + 1 : b[i] = list[(k + 1) + i - 1]
      BY <1>1, SubSeqProperties
    <2> QED BY <1>1, <2>1
  <1>4. RemoveAt(list, k) = a \o b
    BY DEF RemoveAt
  <1> HIDE DEF a, b
  <1> DEFINE c == a \o b
  <1>5. /\ a \o b \in Seq(S) /\ Len(a \o b) = Len(a) + Len(b)
        /\ \A i \in 1 .. Len(a) + Len(b) :
             (a \o b)[i] = IF i <= Len(a) THEN a[i] ELSE b[i - Len(a)]
    BY <1>2, <1>3, ConcatProperties
  <1>6. ASSUME NEW i \in 1 .. Len(list) - 1
        PROVE  \E j \in 1 .. Len(list) : (a \o b)[i] = list[j]
    <2>1. CASE i < k
      BY <2>1, <1>1, <1>2, <1>3, <1>5
    <2>2. CASE ~(i < k)
      <3>1. i - (k - 1) \in 1 .. Len(list) - k /\ k + (i - (k - 1)) = i + 1
        BY <2>2, <1>1
      <3>2. (a \o b)[i] = b[i - (k - 1)]
        BY <2>2, <1>1, <1>2, <1>3, <1>5
      <3> QED BY <3>1, <3>2, <1>1, <1>3
    <2> QED BY <2>1, <2>2
  <1>7. ASSUME NEW j \in 1 .. Len(list), j # k
        PROVE  \E i \in 1 .. Len(list) - 1 : (a \o b)[i] = list[j]
    <2>1. CASE j < k
      <3>1. j \in 1 .. Len(list) - 1 /\ (a \o b)[j] = list[j]
        BY <2>1, <1>1, <1>2, <1>3, <1>5
      <3> QED BY <3>1
    <2>2. CASE j > k
      <3>1. j - 1 \in 1 .. Len(list) - 1 /\ j - k \in 1 .. Len(list) - k /\ k + (j - k) = j
        BY <2>2, <1>1
      <3>2. (a \o b)[j - 1] = b[j - k]
        BY <2>2, <3>1, <1>1, <1>2, <1>3, <1>5
      <3> QED BY <3>1, <3>2, <1>3
    <2>3. j < k \/ j > k
      BY <1>1, <1>7
    <2> QED BY <2>1, <2>2, <2>3
  <1>8. Len(c) = Len(list) - 1
    BY <1>1, <1>2, <1>3, <1>5
  <1>9. /\ c \in Seq(S)
        /\ \A i \in 1 .. Len(c) : \E j \in 1 .. Len(list) : c[i] = list[j]
        /\ \A j \in 1 .. Len(list) : j # k => \E i \in 1 .. Len(c) : c[i] = list[j]
    BY <1>5, <1>6, <1>7, <1>8
  <1> HIDE DEF c
  <1> QED BY <1>4, <1>9 DEF c

\* The API server's operations keep the routes of the other users.
LEMMA DeleteKeeps ==
  ASSUME NEW list \in Seq(Api!Route), NEW u
  PROVE  LET new == Api!api_del_user(list, u)
         IN  /\ new \in Seq(Api!Route)
             /\ \A j \in 1 .. Len(list) : ~Api!SameUser(list[j].user, u) =>
                  \E i \in 1 .. Len(new) : new[i] = list[j]
  <1> DEFINE M == Api!Matches(list, u)
  <1>1. CASE M = {}
    BY <1>1 DEF Api!api_del_user
  <1>2. CASE M # {}
    <2>1. M \subseteq 1 .. Len(list) /\ M \subseteq Nat
      BY LenProperties DEF Api!Matches
    <2>2. Min(M) \in 1 .. Len(list)
      BY <1>2, <2>1, MinIsMember
    <2>3. Api!api_del_user(list, u) = RemoveAt(list, Min(M))
      BY <1>2 DEF Api!api_del_user, Api!First, Api!Min, Min, Api!RemoveAt, RemoveAt
    <2>4. Min(M) \in M
      BY <1>2, <2>1, MinIsMember
    <2>5. Api!SameUser(list[Min(M)].user, u)
      BY <2>4 DEF Api!Matches
    <2> HIDE DEF M
    <2> QED BY <2>2, <2>3, <2>5, RemoveOne
  <1> QED BY <1>1, <1>2

LEMMA AddKeeps ==
  ASSUME NEW list \in Seq(Api!Route), NEW u \in Name, NEW t \in Target
  PROVE  LET new == Api!api_add_user(list, u, t)
         IN  /\ new \in Seq(Api!Route)
             /\ \A j \in 1 .. Len(list) : ~Api!SameUser(list[j].user, u) =>
                  \E i \in 1 .. Len(new) : new[i] = list[j]
  <1> DEFINE rest == Api!api_del_user(list, u)
             r == [user |-> u, target |-> t]
  <1>1. /\ rest \in Seq(Api!Route)
        /\ \A j \in 1 .. Len(list) : ~Api!SameUser(list[j].user, u) =>
             \E i \in 1 .. Len(rest) : rest[i] = list[j]
    BY DeleteKeeps
  <1>2. r \in Api!Route
    BY DEF Api!Route
  <1>3. Api!api_add_user(list, u, t) = Append(rest, r)
    BY DEF Api!api_add_user
  <1> HIDE DEF rest, r
  <1> QED BY <1>1, <1>2, <1>3, AppendProperties, LenProperties

\* api_get_user answers with nodes of the list.
LEMMA GetKeeps ==
  ASSUME NEW list \in Seq(Api!Route), NEW u, NEW i \in DOMAIN Api!api_get_user(list, u)
  PROVE  \E j \in 1 .. Len(list) : Api!api_get_user(list, u)[i] = list[j]
  <1> DEFINE M == Api!Matches(list, u)
  <1>1. CASE u = Root
    BY <1>1 DEF Api!api_get_user
  <1>2. CASE u # Root /\ M = {}
    BY <1>2 DEF Api!api_get_user
  <1>3. CASE u # Root /\ M # {}
    <2>1. M \subseteq 1 .. Len(list) /\ M \subseteq Nat
      BY LenProperties DEF Api!Matches
    <2>2. Min(M) \in 1 .. Len(list)
      BY <1>3, <2>1, MinIsMember
    <2>3. Api!api_get_user(list, u) = <<list[Min(M)]>>
      BY <1>3 DEF Api!api_get_user, Api!First, Api!Min, Min
    <2> QED BY <2>2, <2>3
  <1> QED BY <1>1, <1>2, <1>3

-------------------------------------------------------------------------------
(* The first state. *)

LEMMA InitInv == Init => IInv
  <1> SUFFICES ASSUME Init PROVE IInv
    OBVIOUS
  <1>0. /\ routes = <<>> /\ changed = {} /\ pc = "select" /\ ready \in BOOLEAN /\ mask = {}
        /\ inbox = None /\ client = "idle" /\ messages = 0 /\ relayed = None
    BY DEF Init
  <1>1. CASE HostUrl = None
    <2>1. lproxy = <<>> /\ Entries = {} /\ ToSet(lproxy) = {}
      BY <1>1 DEF Init, Entries, ToSet
    <2>2. TypeOK
      BY <1>0, <2>1, BoundsAssumption DEF TypeOK
    <2> QED BY <1>1, <2>1, <2>2 DEF Init, IInv, Known, AllSound, OnePending, NonePending,
                               Dialog, FrameSent
  <1>2. CASE HostUrl # None
    <2> DEFINE e == NewEntry(Root, HostUrl)
    <2>1. e \in Entry /\ e.user = Root /\ Good(e) /\ Sound(e) /\ ~Pending(e)
      BY <1>2, NameAssumption, HostUrlAssumption DEF NewEntry, Entry, Good, Sound, Pending
    <2>2. lproxy = <<e>>
      BY <1>2 DEF Init
    <2> HIDE DEF e
    <2>3. lproxy \in Seq(Entry) /\ Entries = {1} /\ ToSet(lproxy) = {e}
      BY <2>1, <2>2 DEF Entries, ToSet
    <2>4. TypeOK
      BY <1>0, <2>3, BoundsAssumption DEF TypeOK
    <2> QED BY <2>1, <2>2, <2>3, <2>4
            DEF Init, IInv, Known, AllSound, OnePending, NonePending, Dialog, FrameSent
  <1> QED BY <1>1, <1>2

-------------------------------------------------------------------------------
(* Routing. *)

LEMMA Kinds ==
  /\ \A m \in Message : /\ m # None /\ m.user \in Name \cup {None}
                        /\ m.kind \in {"request", "frame", "eof"}
                        /\ m.kind # "request" => m.user = None
                        /\ m.kind = "frame" <=> m = Frame
                        /\ m.kind = "eof" <=> m = Eof
  /\ Frame \in Message /\ Eof \in Message /\ \A u \in Name \cup {None} : Request(u) \in Message
  /\ \A u : Request(u).kind = "request"
  BY NoneAssumption DEF Message, Request, Frame, Eof

\* Lists that routing may end with: as good as lproxy, and a longer one only
\* after a request.
Fit(list, msg) ==
  /\ list \in Seq(Entry) /\ Entries \subseteq 1 .. Len(list)
  /\ \A i \in 1 .. Len(list) : Sound(list[i]) /\ Good(list[i])
  /\ HostUrl # None => \E i \in 1 .. Len(list) : list[i].user = Root
  /\ \A i, j \in 1 .. Len(list) : Pending(list[i]) /\ Pending(list[j]) => i = j
  /\ NonePending => \A i \in 1 .. Len(list) : ~Pending(list[i])
  /\ list = lproxy \/ msg.kind = "request"

LEMMA SameFits == ASSUME IInv, NEW msg PROVE Fit(lproxy, msg)
  BY DEF IInv, TypeOK, Known, AllSound, OnePending, NonePending, Fit, Entries

LEMMA LongerFits ==
  ASSUME IInv, NEW msg \in Message, msg.kind = "request", msg.user \in Name, NEW t \in Target,
         Good(NewEntry(msg.user, t))
  PROVE  /\ Fit(<<NewEntry(msg.user, t)>> \o lproxy, msg)
         /\ Len(<<NewEntry(msg.user, t)>> \o lproxy) >= 1
         /\ (<<NewEntry(msg.user, t)>> \o lproxy)[1] = NewEntry(msg.user, t)
  <1> DEFINE e == NewEntry(msg.user, t)
             list == <<e>> \o lproxy
  <1>1. e \in Entry /\ Sound(e) /\ ~Pending(e) /\ Good(e)
    BY DEF NewEntry, Entry, Sound, Pending
  <1> HIDE DEF e
  <1>2. /\ list \in Seq(Entry) /\ Len(list) = Len(lproxy) + 1 /\ Len(lproxy) \in Nat
        /\ list[1] = e
        /\ \A i \in 2 .. Len(list) : list[i] = lproxy[i - 1]
    BY <1>1, PrependOne, LenProperties DEF IInv, TypeOK
  <1> HIDE DEF list
  <1>3. \A i \in 2 .. Len(list) : i - 1 \in Entries
    BY <1>2 DEF Entries
  <1>4. \A i \in 1 .. Len(list) : i = 1 \/ i \in 2 .. Len(list)
    BY <1>2
  <1>5. \A i \in 1 .. Len(list) : Sound(list[i]) /\ Good(list[i])
    BY <1>1, <1>2, <1>3, <1>4 DEF IInv, Known, AllSound
  <1>h. HostUrl # None => \E i \in 1 .. Len(list) : list[i].user = Root
    <2> SUFFICES ASSUME HostUrl # None PROVE \E i \in 1 .. Len(list) : list[i].user = Root
      OBVIOUS
    <2>1. PICK i \in Entries : lproxy[i].user = Root
      BY DEF IInv, Known
    <2>2. i + 1 \in 2 .. Len(list) /\ (i + 1) - 1 = i
      BY <1>2 DEF Entries
    <2>3. list[i + 1] = lproxy[i] /\ i + 1 \in 1 .. Len(list)
      BY <1>2, <2>2
    <2> QED BY <2>1, <2>3
  <1>6. \A i, j \in 1 .. Len(list) : Pending(list[i]) /\ Pending(list[j]) => i = j
    <2> SUFFICES ASSUME NEW i \in 1 .. Len(list), NEW j \in 1 .. Len(list),
                        Pending(list[i]), Pending(list[j])
                 PROVE  i = j
      OBVIOUS
    <2>1. i \in 2 .. Len(list) /\ j \in 2 .. Len(list)
      BY <1>1, <1>2, <1>4
    <2>2. i - 1 = j - 1
      BY <2>1, <1>2, <1>3 DEF IInv, OnePending
    <2> QED BY <2>1, <2>2
  <1>7. NonePending => \A i \in 1 .. Len(list) : ~Pending(list[i])
    BY <1>1, <1>2, <1>3, <1>4 DEF NonePending
  <1>8. Fit(list, msg)
    <2>1. Entries \subseteq 1 .. Len(list)
      BY <1>2 DEF Entries
    <2> QED BY <2>1, <1>2, <1>5, <1>h, <1>6, <1>7 DEF Fit
  <1> QED BY <1>2, <1>8 DEF list, e

LEMMA RoutedTo ==
  ASSUME IInv, NEW msg \in Message, NEW r \in Routed(msg), r.at # 0
  PROVE  /\ Fit(r.list, msg) /\ r.at \in 1 .. Len(r.list)
         /\ msg.kind = "request" /\ msg.user # Root =>
              \/ r.list[r.at].user = Root
              \/ Api!SameUser(r.list[r.at].user, msg.user)
  <1>1. Peers \subseteq Nat /\ Peers \subseteq Entries
        /\ \A u : OfUser(u) \subseteq Nat /\ OfUser(u) \subseteq Entries
    BY DEF Peers, OfUser, Entries
  <1>2. \A u : OfUser(u) # {} => Min(OfUser(u)) \in OfUser(u)
    BY <1>1, MinIsMember
  <1>3. ASSUME NEW i \in OfUser(Root) PROVE lproxy[i].user = Root
    <2>1. lproxy[i] \in Entry /\ Fold[lproxy[i].user] = Fold[Root]
      BY DEF OfUser, Api!SameUser, IInv, TypeOK, Entries
    <2>2. lproxy[i].user \in Name
      BY <2>1 DEF Entry
    <2> QED BY <2>1, <2>2, NameAssumption
  <1>4. CASE Found(msg) # {}
    <2>1. r.list = lproxy /\ r.at = Min(Found(msg))
      BY <1>4 DEF Routed
    <2>2. CASE msg.kind = "frame"
      <3>1. Found(msg) = Peers
        BY <2>2, Kinds DEF Found
      <3>2. r.at \in 1 .. Len(lproxy)
        BY <1>1, <1>4, <2>1, <3>1, MinIsMember DEF Entries
      <3> QED BY <2>1, <2>2, <3>2, SameFits
    <2>3. CASE msg.kind # "frame"
      <3>1. Found(msg) = OfUser(msg.user)
        BY <1>4, <2>3 DEF Found
      <3>2. r.at \in OfUser(msg.user)
        BY <1>2, <1>4, <2>1, <3>1
      <3>3. r.at \in 1 .. Len(lproxy) /\ Api!SameUser(lproxy[r.at].user, msg.user)
        BY <3>2 DEF OfUser, Entries
      <3> QED BY <2>1, <3>3, SameFits
    <2> QED BY <2>2, <2>3
  <1>5. CASE Found(msg) = {}
    <2>1. PICK t \in Targets(msg) :
            r = IF t = None THEN [list |-> lproxy,
                                  at |-> IF OfUser(Root) = {} THEN 0 ELSE Min(OfUser(Root))]
                ELSE [list |-> <<NewEntry(msg.user, t)>> \o lproxy, at |-> 1]
      BY <1>5 DEF Routed
    <2>2. CASE t = None
      <3>1. r.list = lproxy /\ r.at = IF OfUser(Root) = {} THEN 0 ELSE Min(OfUser(Root))
        BY <2>1, <2>2
      <3>2. r.at \in OfUser(Root)
        BY <1>2, <3>1
      <3> QED BY <1>3, <3>1, <3>2, SameFits DEF OfUser, Entries
    <2>3. CASE t # None
      <3> DEFINE answer == Api!api_get_user(routes, msg.user)
      <3>1. /\ msg.kind # "frame" /\ msg.user # None
            /\ 1 \in DOMAIN answer /\ t = answer[1].target
            /\ msg.user = Root \/ answer[1].user = msg.user
        BY <2>3 DEF Targets
      <3>2. msg.kind = "request" /\ msg.user \in Name
        BY <3>1, Kinds
      <3>3. PICK j \in 1 .. Len(routes) : answer[1] = routes[j]
        BY <3>1, GetKeeps DEF IInv, TypeOK
      <3>4. routes[j] \in Api!Route /\ routes[j] \in ToSet(routes)
        BY DEF IInv, TypeOK, ToSet
      <3>5. t \in Target /\ Good(NewEntry(msg.user, t))
        <4>1. t \in Target
          BY <3>1, <3>3, <3>4 DEF Api!Route
        <4>2. CASE msg.user = Root
          <5>1. HostUrl = None
            BY <1>5, <3>1, <4>2 DEF IInv, Known, Found, OfUser, Api!SameUser
          <5> QED BY <4>1, <4>2, <5>1 DEF Good, NewEntry
        <4>3. CASE msg.user # Root
          <5>1. routes[j] = [user |-> msg.user, target |-> t]
            BY <3>1, <3>3, <3>4, <4>3 DEF Api!Route
          <5> QED BY <3>4, <4>1, <4>3, <5>1 DEF Good, Current, NewEntry
        <4> QED BY <4>2, <4>3
      <3>6. r.list = <<NewEntry(msg.user, t)>> \o lproxy /\ r.at = 1
        BY <2>1, <2>3
      <3>7. r.list[r.at].user = msg.user /\ Fit(r.list, msg) /\ Len(r.list) >= 1
        BY <3>2, <3>5, <3>6, LongerFits DEF NewEntry
      <3>8. r.at \in 1 .. Len(r.list)
        BY <3>6, <3>7, LenProperties DEF Fit
      <3> QED BY <3>7, <3>8 DEF Api!SameUser
    <2> QED BY <2>2, <2>3
  <1> QED BY <1>4, <1>5

-------------------------------------------------------------------------------
(* Steps that change one entry of lproxy, or close them all. *)

LEMMA Replaced ==
  ASSUME IInv, NEW k \in Entries, NEW e \in Entry, lproxy' = [lproxy EXCEPT ![k] = e],
         Sound(e), e.user = lproxy[k].user, e.target = lproxy[k].target,
         Pending(e) => Pending(lproxy[k]), UNCHANGED <<routes, changed, relayed>>
  PROVE  /\ lproxy' \in Seq(Entry) /\ Entries' = Entries
         /\ Known' /\ AllSound' /\ OnePending'
         /\ NonePending \/ (~Pending(e) /\ Pending(lproxy[k])) => NonePending'
  <1>1. /\ lproxy' \in Seq(Entry) /\ Len(lproxy') = Len(lproxy) /\ lproxy'[k] = e
        /\ \A i \in Entries : i # k => lproxy'[i] = lproxy[i]
    BY ReplaceOne DEF IInv, TypeOK, Entries
  <1>2. Entries' = Entries
    BY <1>1 DEF Entries
  <1>3. \A x : /\ Pending(x)' <=> Pending(x)
               /\ Sound(x)' <=> Sound(x)
    BY DEF Pending, FrameSent, Sound
  <1>4. Known'
    <2>1. \A i \in Entries : /\ lproxy'[i].user = lproxy[i].user
                             /\ lproxy'[i].target = lproxy[i].target
      BY <1>1
    <2> QED BY <1>2, <2>1 DEF IInv, Known, Good, Current
  <1>5. AllSound'
    BY <1>1, <1>2 DEF IInv, AllSound, Sound
  <1>6. \A i \in Entries : Pending(lproxy'[i]) => Pending(lproxy[i])
    BY <1>1
  <1>7. OnePending'
    BY <1>2, <1>3, <1>6 DEF IInv, OnePending, Pending, FrameSent
  <1>8. NonePending => NonePending'
    BY <1>2, <1>6 DEF NonePending, Pending, FrameSent
  <1>9. ~Pending(e) /\ Pending(lproxy[k]) => NonePending'
    BY <1>1, <1>2 DEF IInv, OnePending, NonePending, Pending, FrameSent
  <1> QED BY <1>1, <1>2, <1>4, <1>5, <1>7, <1>8, <1>9

LEMMA ClosedEntry ==
  ASSUME NEW e \in Entry
  PROVE  /\ Closed(e) \in Entry /\ Sound(Closed(e)) /\ ~Pending(Closed(e))
         /\ Closed(e).user = e.user /\ Closed(e).target = e.target
         /\ ~Closed(e).ctrl /\ ~Closed(e).owed /\ Closed(e).up = "nothing"
  BY DEF Closed, NewEntry, Entry, Sound, Pending

LEMMA TerminateKeeps ==
  ASSUME IInv, Terminate, UNCHANGED <<routes, changed>>
  PROVE  /\ lproxy' \in Seq(Entry) /\ mask' \in SUBSET Entries'
         /\ Known' /\ AllSound' /\ OnePending' /\ NonePending'
  <1>1. \A i \in Entries : lproxy[i] \in Entry
    BY DEF IInv, TypeOK, Entries
  <1>2. lproxy' = [i \in Entries |-> Closed(lproxy[i])] /\ mask' = {}
    BY DEF Terminate
  <1>3. lproxy' \in Seq(Entry) /\ Len(lproxy') = Len(lproxy)
    BY <1>1, <1>2, ClosedEntry, LenProperties DEF IInv, TypeOK, Entries
  <1>4. Entries' = Entries /\ \A i \in Entries : lproxy'[i] = Closed(lproxy[i])
    BY <1>2, <1>3 DEF Entries
  <1>5. Known'
    BY <1>1, <1>4, ClosedEntry DEF IInv, Known, Good, Current
  <1>6. AllSound'
    BY <1>1, <1>4, ClosedEntry DEF AllSound, Sound
  <1>7. NonePending'
    <2>1. \A i \in Entries : ~lproxy'[i].ctrl /\ ~lproxy'[i].owed /\ lproxy'[i].up = "nothing"
      BY <1>1, <1>4, ClosedEntry
    <2> QED BY <1>4, <2>1 DEF NonePending, Pending
  <1>8. OnePending'
    BY <1>7 DEF NonePending, OnePending
  <1> QED BY <1>2, <1>3, <1>5, <1>6, <1>7, <1>8

LEMMA SelectInv == ASSUME IInv, Select PROVE IInv'
  <1>0. UNCHANGED <<routes, changed, inbox, messages, relayed>>
    BY DEF Select, envVars
  <1>r. ready' \in BOOLEAN
    BY DEF Select
  <1>1. CASE inbox # None \/ Readable # {}
    <2>1. UNCHANGED <<lproxy, client, mask>> /\ pc' = "client" /\ (ready' => inbox # None)
      BY <1>1 DEF Select
    <2>2. TypeOK'
      BY <1>0, <1>r, <2>1 DEF IInv, TypeOK, Entries
    <2>3. Known' /\ AllSound' /\ OnePending'
      BY <1>0, <2>1 DEF IInv, Known, AllSound, OnePending, Good, Current, Sound, Pending, FrameSent, Entries
    <2>4. Dialog'
      BY <1>0, <2>1 DEF IInv, Dialog, NonePending, Pending, FrameSent, Entries, Select
    <2> QED BY <1>0, <2>2, <2>3, <2>4 DEF IInv
  <1>2. CASE ~(inbox # None \/ Readable # {})
    <2>1. Terminate
      BY <1>2 DEF Select
    <2>2. pc' = "done" /\ client' = "closed"
      BY <2>1 DEF Terminate
    <2>3. TypeOK' /\ Known' /\ AllSound' /\ OnePending'
      BY <1>0, <1>r, <2>1, <2>2, TerminateKeeps DEF IInv, TypeOK
    <2>4. Dialog'
      BY <2>2 DEF Dialog
    <2> QED BY <1>0, <2>3, <2>4 DEF IInv
  <1> QED BY <1>1, <1>2

LEMMA ReadClientInv == ASSUME IInv, ReadClient PROVE IInv'
  <1>0. UNCHANGED <<routes, changed, ready, messages>> /\ pc = "client"
    BY DEF ReadClient, envVars
  <1>1. CASE ~ready
    <2>1. UNCHANGED <<lproxy, inbox, client, mask, relayed>> /\ pc' = "middle"
      BY <1>1 DEF ReadClient
    <2>2. TypeOK'
      BY <1>0, <2>1 DEF IInv, TypeOK, Entries
    <2>3. Known' /\ AllSound' /\ OnePending'
      BY <1>0, <2>1 DEF IInv, Known, AllSound, OnePending, Good, Current, Sound, Pending, FrameSent, Entries
    <2>4. Dialog'
      BY <1>0, <2>1 DEF IInv, Dialog, NonePending, Pending, FrameSent, Entries
    <2> QED BY <2>2, <2>3, <2>4 DEF IInv
  <1>2. CASE ready /\ Terminate /\ UNCHANGED relayed
    <2>1. pc' = "done" /\ client' = "closed" /\ inbox' = None
      BY <1>2 DEF Terminate, ReadClient
    <2>2. TypeOK' /\ Known' /\ AllSound' /\ OnePending'
      BY <1>0, <1>2, <2>1, TerminateKeeps DEF IInv, TypeOK
    <2>3. Dialog'
      BY <2>1 DEF Dialog
    <2> QED BY <1>0, <1>2, <2>2, <2>3 DEF IInv
  <1>3. ASSUME ready, inbox # Eof, inbox' = None, NEW r \in Routed(inbox), Relay(inbox, r)
        PROVE  IInv'
    <2> DEFINE msg == inbox
               e == r.list[r.at]
               w == e.up # "eof" /\ (e.owed \/ ~e.ctrl)
               n == [e EXCEPT !.open = TRUE, !.owed = w]
    <2>1. msg \in Message /\ msg # None /\ r.at # 0
      BY <1>0, <1>3 DEF IInv, TypeOK, Dialog, Relay
    <2>2. /\ Fit(r.list, msg) /\ r.at \in 1 .. Len(r.list)
      BY <2>1, RoutedTo
    <2>3. e \in Entry /\ Sound(e) /\ Good(e)
      BY <2>2 DEF Fit
    <2>4. w \in BOOLEAN
      OBVIOUS
    <2>5. /\ lproxy' = [r.list EXCEPT ![r.at] = n]
          /\ relayed' = [msg |-> msg, user |-> e.user, target |-> e.target]
          /\ pc' = "middle" /\ UNCHANGED <<client, mask>>
      BY <1>3, <2>2 DEF Relay, Fit
    <2>6. /\ n \in Entry /\ n.open /\ n.ctrl = e.ctrl /\ n.up = e.up
          /\ n.user = e.user /\ n.target = e.target
      <3> HIDE DEF e, w
      <3> QED BY <2>3, <2>4 DEF Entry
    <2> HIDE DEF n, w
    <2>7. /\ lproxy' \in Seq(Entry) /\ Len(lproxy') = Len(r.list) /\ lproxy'[r.at] = n
          /\ \A i \in 1 .. Len(r.list) : i # r.at => lproxy'[i] = r.list[i]
      BY <2>2, <2>5, <2>6, ReplaceOne DEF Fit
    <2>8. relayed' \in Relayed /\ relayed' # None /\ relayed'.msg = msg
          /\ relayed'.user = e.user /\ relayed'.target = e.target
      <3>1. e.user \in Name /\ e.target \in Target
        BY <2>3 DEF Entry
      <3> QED BY <2>1, <2>5, <3>1, NoneAssumption DEF Relayed
    <2>9. Entries' = 1 .. Len(r.list)
      BY <2>7 DEF Entries
    <2> HIDE DEF e
    <2>10. TypeOK'
      <3>1. mask' \in SUBSET Entries'
        BY <2>2, <2>5, <2>9 DEF Fit, IInv, TypeOK
      <3> QED BY <1>0, <1>3, <2>5, <2>7, <2>8, <3>1 DEF IInv, TypeOK
    <2>11. Known'
      <3>1. Good(n)
        BY <2>3, <2>6 DEF Good, Current
      <3>2. \A i \in 1 .. Len(r.list) : lproxy'[i].user = r.list[i].user
        BY <2>6, <2>7 DEF e
      <3>3. \A x : Good(x)' <=> Good(x)
        BY <1>0 DEF Good, Current
      <3>4. \A i \in Entries' : Good(lproxy'[i])
        BY <2>2, <2>7, <2>9, <3>1 DEF Fit
      <3>5. HostUrl # None => \E i \in Entries' : lproxy'[i].user = Root
        BY <2>2, <2>9, <3>2 DEF Fit
      <3> QED BY <3>3, <3>4, <3>5 DEF Known
    <2>12. AllSound'
      <3>1. Sound(n)
        BY <2>3, <2>6 DEF Sound
      <3> QED BY <2>2, <2>7, <2>9, <3>1 DEF AllSound, Fit, Sound
    <2>13. \/ client = "waiting" /\ msg.kind = "request" /\ NonePending /\ ~FrameSent
           \/ client = "websocket" /\ msg = Frame
      BY <1>0, <1>3, <2>1, Kinds DEF IInv, TypeOK, Dialog
    <2>14. OnePending'
      <3>1. CASE client = "waiting" /\ msg.kind = "request" /\ NonePending /\ ~FrameSent
        <4>1. \A i \in 1 .. Len(r.list) : i # r.at => ~Pending(lproxy'[i])
          BY <2>2, <2>7, <3>1 DEF Fit
        <4>2. ~FrameSent'
          BY <2>8, <3>1 DEF FrameSent, Frame
        <4>3. \A x : Pending(x)' <=> Pending(x)
          BY <3>1, <4>2 DEF Pending
        <4>4. \A i \in Entries' : Pending(lproxy[i])' => i = r.at
          BY <2>9, <4>1, <4>3
        <4> QED BY <4>4 DEF OnePending
      <3>2. CASE client = "websocket" /\ msg = Frame
        <4>1. \A x : Pending(x)' <=> x.ctrl \/ x.up = "upgrade"
          BY <2>8, <3>2 DEF Pending, FrameSent, Frame
        <4>2. \A x : Pending(x)' => Pending(x)
          BY <4>1 DEF Pending
        <4>3. Pending(n)' => Pending(e)
          BY <2>6, <4>1 DEF Pending
        <4>4. \A i \in Entries' : Pending(lproxy[i])' => Pending(r.list[i])
          BY <2>7, <2>9, <4>2, <4>3 DEF e
        <4>5. \A i, j \in Entries' : Pending(lproxy[i])' /\ Pending(lproxy[j])' => i = j
          BY <2>2, <2>9, <4>4 DEF Fit
        <4> QED BY <4>5 DEF OnePending
      <3> QED BY <2>13, <3>1, <3>2
    <2>15. Dialog'
      BY <1>3, <2>5, <2>8, <2>13 DEF Dialog, FrameSent, Frame
    <2> QED BY <2>10, <2>11, <2>12, <2>14, <2>15 DEF IInv
  <1> QED BY <1>1, <1>2, <1>3 DEF ReadClient

LEMMA MaskedEntry ==
  ASSUME IInv, mask # {}
  PROVE  Min(mask) \in mask /\ Min(mask) \in Entries /\ lproxy[Min(mask)] \in Entry
  <1>1. mask \subseteq Entries /\ Entries \subseteq Nat
    BY DEF IInv, TypeOK, Entries
  <1>2. Min(mask) \in mask
    BY <1>1, MinIsMember
  <1>3. \A i \in Entries : lproxy[i] \in Entry
    BY DEF IInv, TypeOK, Entries
  <1> QED BY <1>1, <1>2, <1>3

LEMMA ReadAnswerInv == ASSUME IInv, ReadAnswer PROVE IInv'
  <1> DEFINE i == Min(mask)
             e == Closed(lproxy[i])
  <1>1. /\ i \in Entries /\ lproxy[i] \in Entry /\ lproxy[i].up = "answer"
        /\ lproxy' = [lproxy EXCEPT ![i] = e] /\ mask' = mask \ {i}
        /\ client' = (IF client = "waiting" THEN "idle" ELSE client)
        /\ UNCHANGED <<routes, changed, pc, ready, inbox, messages, relayed>>
    BY MaskedEntry DEF ReadAnswer, envVars
  <1> HIDE DEF i
  <1>2. e \in Entry /\ Sound(e) /\ ~Pending(e) /\ e.user = lproxy[i].user /\ e.target = lproxy[i].target
    BY <1>1, ClosedEntry
  <1> HIDE DEF e
  <1>3. /\ lproxy' \in Seq(Entry) /\ Entries' = Entries /\ Known' /\ AllSound' /\ OnePending'
        /\ NonePending \/ Pending(lproxy[i]) => NonePending'
    BY <1>1, <1>2, Replaced
  <1>4. TypeOK'
    BY <1>1, <1>3 DEF IInv, TypeOK
  <1>5. Dialog'
    <2>1. client = "waiting" => Pending(lproxy[i]) /\ inbox = None
      BY <1>1 DEF IInv, Dialog, Pending, NonePending, TypeOK
    <2>2. FrameSent' <=> FrameSent
      BY <1>1 DEF FrameSent
    <2> QED BY <1>1, <1>3, <2>1, <2>2 DEF IInv, Dialog
  <1> QED BY <1>1, <1>3, <1>4, <1>5 DEF IInv

LEMMA ReadEofInv == ASSUME IInv, ReadEof PROVE IInv'
  <1> DEFINE i == Min(mask)
             e == Closed(lproxy[i])
  <1>1. /\ i \in Entries /\ lproxy[i] \in Entry
        /\ lproxy' = [lproxy EXCEPT ![i] = e] /\ mask' = {}
        /\ UNCHANGED <<routes, changed, pc, ready, inbox, client, messages, relayed>>
    BY MaskedEntry DEF ReadEof, envVars
  <1> HIDE DEF i
  <1>2. e \in Entry /\ Sound(e) /\ ~Pending(e) /\ e.user = lproxy[i].user /\ e.target = lproxy[i].target
    BY <1>1, ClosedEntry
  <1> HIDE DEF e
  <1>3. /\ lproxy' \in Seq(Entry) /\ Entries' = Entries /\ Known' /\ AllSound' /\ OnePending'
        /\ NonePending => NonePending'
    BY <1>1, <1>2, Replaced
  <1>4. TypeOK'
    BY <1>1, <1>3 DEF IInv, TypeOK
  <1>5. Dialog'
    <2>1. FrameSent' <=> FrameSent
      BY <1>1 DEF FrameSent
    <2> QED BY <1>1, <1>3, <2>1 DEF IInv, Dialog
  <1> QED BY <1>1, <1>3, <1>4, <1>5 DEF IInv

LEMMA ReadWebsocketInv == ASSUME IInv, ReadWebsocket PROVE IInv'
  <1> DEFINE i == Min(mask)
             old == lproxy[i]
             b == old.ctrl \/ old.up = "upgrade"
             n == [old EXCEPT !.ctrl = b, !.up = "nothing"]
  <1>1. /\ i \in Entries /\ old \in Entry /\ Sound(old) /\ old.up \in {"upgrade", "frame"}
        /\ mask' = mask \ {i} /\ UNCHANGED <<routes, changed, pc, ready, inbox, messages, relayed>>
    BY MaskedEntry DEF ReadWebsocket, envVars, IInv, AllSound
  <1>2. Pending(old)
    BY <1>1 DEF Sound, Pending
  <1>3. ASSUME NEW e \in Entry, Sound(e), e.user = old.user, e.target = old.target,
               lproxy' = [lproxy EXCEPT ![i] = e],
               client' \in {client, IF client = "waiting" THEN "websocket" ELSE client}
        PROVE  IInv'
    <2> HIDE DEF i
    <2>1. /\ lproxy' \in Seq(Entry) /\ Entries' = Entries /\ Known' /\ AllSound' /\ OnePending'
      BY <1>1, <1>2, <1>3, Replaced
    <2>2. TypeOK'
      BY <1>1, <1>3, <2>1 DEF IInv, TypeOK
    <2>3. Dialog'
      <3>1. client # "idle" /\ (client = "waiting" => inbox = None)
        BY <1>1, <1>2 DEF IInv, Dialog, NonePending
      <3>2. FrameSent' <=> FrameSent
        BY <1>1 DEF FrameSent
      <3> QED BY <1>1, <1>3, <3>1, <3>2 DEF IInv, Dialog
    <2> QED BY <1>1, <2>1, <2>2, <2>3 DEF IInv
  <1>4. CASE /\ lproxy' = [lproxy EXCEPT ![i].ctrl = @ \/ lproxy[i].up = "upgrade",
                                         ![i].up = "nothing"]
             /\ client' = IF client = "waiting" THEN "websocket" ELSE client
    <2>1. lproxy' = [lproxy EXCEPT ![i] = n]
      BY <1>1, <1>4 DEF IInv, TypeOK, Entries
    <2>2. b \in BOOLEAN
      OBVIOUS
    <2>3. n \in Entry /\ n.user = old.user /\ n.target = old.target /\ n.open = old.open /\ n.up = "nothing"
      <3> HIDE DEF old, b
      <3> QED BY <1>1, <2>2 DEF Entry
    <2> HIDE DEF b, n
    <2>4. Sound(n)
      BY <1>1, <2>3 DEF Sound
    <2> QED BY <1>3, <1>4, <2>1, <2>3, <2>4
  <1>5. CASE lproxy' = [lproxy EXCEPT ![i] = Closed(@)] /\ UNCHANGED client
    <2>1. lproxy' = [lproxy EXCEPT ![i] = Closed(old)]
      BY <1>1, <1>5
    <2> QED BY <1>1, <1>3, <1>5, <2>1, ClosedEntry
  <1> QED BY <1>4, <1>5 DEF ReadWebsocket

-------------------------------------------------------------------------------
(* Steps of the environment, and the ones that change no entry. *)

LEMMA ServerSendsInv == ASSUME IInv, ServerSends PROVE IInv'
  <1>1. PICK i \in Entries :
          /\ lproxy[i].open /\ lproxy[i].up = "nothing"
          /\ \/ /\ lproxy[i].owed
                /\ \E s \in {"answer"} \cup (IF relayed.msg # Frame THEN {"upgrade"} ELSE {}) :
                     lproxy' = [lproxy EXCEPT ![i].up = s, ![i].owed = FALSE]
             \/ lproxy[i].ctrl /\ lproxy' = [lproxy EXCEPT ![i].up = "frame"]
             \/ lproxy' = [lproxy EXCEPT ![i].up = "eof", ![i].owed = FALSE]
          /\ UNCHANGED <<routes, changed, pc, ready, mask, inbox, client, messages, relayed>>
    BY DEF ServerSends, envVars
  <1> DEFINE old == lproxy[i]
             no == FALSE
  <1>2. old \in Entry
    BY DEF IInv, TypeOK, Entries
  <1>3. ASSUME NEW e \in Entry, e.open, e.ctrl = old.ctrl, e.user = old.user, e.target = old.target,
               e.up = "frame" => e.ctrl, Pending(e) => Pending(old),
               lproxy' = [lproxy EXCEPT ![i] = e]
        PROVE  IInv'
    <2>1. Sound(e)
      BY <1>3 DEF Sound
    <2>2. /\ lproxy' \in Seq(Entry) /\ Entries' = Entries /\ Known' /\ AllSound' /\ OnePending'
          /\ NonePending => NonePending'
      BY <1>1, <1>3, <2>1, Replaced
    <2>3. TypeOK'
      BY <1>1, <2>2 DEF IInv, TypeOK
    <2>4. Dialog'
      <3>1. FrameSent' <=> FrameSent
        BY <1>1 DEF FrameSent
      <3> QED BY <1>1, <2>2, <3>1 DEF IInv, Dialog
    <2> QED BY <1>1, <2>2, <2>3, <2>4 DEF IInv
  <1>4. \A s \in {"answer", "upgrade", "eof"} :
          LET e == [old EXCEPT !.up = s, !.owed = no]
          IN  /\ e \in Entry /\ e.open = old.open /\ e.ctrl = old.ctrl /\ e.up = s /\ ~e.owed
              /\ e.user = old.user /\ e.target = old.target
    <2>1. no \in BOOLEAN /\ ~no
      OBVIOUS
    <2> HIDE DEF old, no
    <2> QED BY <1>2, <2>1 DEF Entry
  <1>5. ASSUME old.owed, NEW s \in {"answer", "upgrade"}, s = "upgrade" => ~FrameSent,
               lproxy' = [lproxy EXCEPT ![i].up = s, ![i].owed = FALSE]
        PROVE  IInv'
    <2> DEFINE e == [old EXCEPT !.up = s, !.owed = no]
    <2>1. lproxy' = [lproxy EXCEPT ![i] = e]
      BY <1>5 DEF IInv, TypeOK, Entries
    <2>2. /\ e \in Entry /\ e.open = old.open /\ e.ctrl = old.ctrl /\ e.up = s /\ ~e.owed
          /\ e.user = old.user /\ e.target = old.target
      BY <1>4
    <2> HIDE DEF e
    <2>3. Pending(e) => Pending(old)
      BY <1>5, <2>2 DEF Pending
    <2> QED BY <1>1, <1>3, <2>1, <2>2, <2>3
  <1>6. ASSUME lproxy' = [lproxy EXCEPT ![i].up = "eof", ![i].owed = FALSE]
        PROVE  IInv'
    <2> DEFINE e == [old EXCEPT !.up = "eof", !.owed = no]
    <2>1. lproxy' = [lproxy EXCEPT ![i] = e]
      BY <1>6 DEF IInv, TypeOK, Entries
    <2>2. /\ e \in Entry /\ e.open = old.open /\ e.ctrl = old.ctrl /\ e.up = "eof" /\ ~e.owed
          /\ e.user = old.user /\ e.target = old.target
      BY <1>4
    <2> HIDE DEF e
    <2>3. Pending(e) => Pending(old)
      BY <2>2 DEF Pending
    <2> QED BY <1>1, <1>3, <2>1, <2>2, <2>3
  <1>7. ASSUME old.ctrl, lproxy' = [lproxy EXCEPT ![i].up = "frame"]
        PROVE  IInv'
    <2> DEFINE e == [old EXCEPT !.up = "frame"]
    <2>1. lproxy' = [lproxy EXCEPT ![i] = e]
      BY <1>7 DEF IInv, TypeOK, Entries
    <2>2. /\ e \in Entry /\ e.open = old.open /\ e.ctrl = old.ctrl
          /\ e.user = old.user /\ e.target = old.target
      BY <1>2 DEF Entry
    <2> HIDE DEF e
    <2>3. Pending(old)
      BY <1>7 DEF Pending
    <2> QED BY <1>1, <1>3, <1>7, <2>1, <2>2, <2>3
  <1>8. relayed.msg # Frame => ~FrameSent
    BY DEF FrameSent
  <1> QED BY <1>1, <1>5, <1>6, <1>7, <1>8

\* A step that leaves the lists and what was relayed alone.
LEMMA SameLists ==
  ASSUME IInv, UNCHANGED <<routes, changed, lproxy, relayed>>
  PROVE  /\ Known' /\ AllSound' /\ OnePending' /\ Entries' = Entries
         /\ NonePending' <=> NonePending
         /\ FrameSent' <=> FrameSent
  <1> USE DEF IInv, Entries, Good, Current, Sound, Pending, FrameSent
  <1>1. Known' BY DEF Known
  <1>2. AllSound' BY DEF AllSound
  <1>3. OnePending' BY DEF OnePending
  <1>4. NonePending' <=> NonePending BY DEF NonePending
  <1> QED BY <1>1, <1>2, <1>3, <1>4

LEMMA OtherProxyInv == ASSUME IInv, SelectMiddle \/ ServersRead PROVE IInv'
  <1>1. UNCHANGED <<routes, changed, lproxy, ready, inbox, client, messages, relayed>>
    BY DEF SelectMiddle, ServersRead, envVars
  <1>2. pc' \in {"server", "select"} /\ pc # "done" /\ mask' \in SUBSET Entries
    BY DEF SelectMiddle, ServersRead, IInv, TypeOK, Readable
  <1>3. TypeOK'
    BY <1>1, <1>2, SameLists DEF IInv, TypeOK
  <1>4. Dialog'
    BY <1>1, <1>2, SameLists DEF IInv, Dialog
  <1> QED BY <1>1, <1>3, <1>4, SameLists DEF IInv

LEMMA ClientInv == ASSUME IInv, ClientSends \/ ClientLeaves PROVE IInv'
  <1>1. UNCHANGED <<routes, changed, lproxy, pc, ready, mask, relayed>>
    BY DEF ClientSends, ClientLeaves, envVars
  <1>2. /\ inbox' \in Message /\ messages' \in 0 .. MaxMessages
        /\ \/ client = "idle" /\ client' = "waiting" /\ inbox'.kind = "request"
           \/ client = "websocket" /\ client' = "websocket" /\ inbox' = Frame
           \/ client' = "closed" /\ inbox' = Eof
    BY Kinds, BoundsAssumption DEF ClientSends, ClientLeaves, IInv, TypeOK
  <1>3. TypeOK'
    BY <1>1, <1>2, SameLists DEF IInv, TypeOK
  <1>4. Dialog'
    BY <1>1, <1>2, SameLists, Kinds DEF IInv, Dialog
  <1> QED BY <1>1, <1>3, <1>4, SameLists DEF IInv

\* The hub's edits touch the routes of one user; an entry of that user is from
\* then on one whose route has changed.
LEMMA HubInv ==
  ASSUME IInv, NEW u \in Name, HubDeletes(u) \/ \E t \in Target : HubPosts(u, t)
  PROVE  IInv'
  <1>1. UNCHANGED <<lproxy, pc, ready, mask, inbox, client, messages, relayed>>
    BY DEF HubPosts, HubDeletes
  <1>2. /\ changed' = Edited(u)
        /\ routes' \in Seq(Api!Route)
        /\ \A j \in 1 .. Len(routes) : ~Api!SameUser(routes[j].user, u) =>
             \E i \in 1 .. Len(routes') : routes'[i] = routes[j]
    <2>1. CASE HubDeletes(u)
      BY <2>1, DeleteKeeps DEF HubDeletes, IInv, TypeOK
    <2>2. ASSUME NEW t \in Target, HubPosts(u, t)
          PROVE  <1>2!1 /\ <1>2!2 /\ <1>2!3
      BY <2>2, AddKeeps DEF HubPosts, IInv, TypeOK
    <2> QED BY <2>1, <2>2
  <1>3. TypeOK'
    <2>1. changed' \in SUBSET {Fold[n] : n \in Name}
      BY <1>2 DEF IInv, TypeOK, Edited
    <2> QED BY <1>1, <1>2, <2>1 DEF IInv, TypeOK, Entries
  <1>4. ASSUME NEW i \in Entries, Current(lproxy[i])
        PROVE  Current(lproxy[i])'
    <2> DEFINE e == lproxy[i]
               route == [user |-> e.user, target |-> e.target]
    <2>1. CASE Api!SameUser(e.user, u)
      <3>1. i \in OfUser(u) /\ Fold[e.user] = Fold[u]
        BY <2>1 DEF OfUser, Api!SameUser
      <3>2. Fold[e.user] \in changed'
        BY <1>2, <3>1 DEF Edited
      <3> QED BY <1>1, <3>2 DEF Current
    <2>2. CASE ~Api!SameUser(e.user, u) /\ Fold[e.user] \in changed
      <3>1. Fold[e.user] \in changed'
        BY <1>2, <2>2 DEF Edited
      <3> QED BY <1>1, <3>1 DEF Current
    <2>3. CASE ~Api!SameUser(e.user, u) /\ route \in ToSet(routes)
      <3>1. PICK j \in 1 .. Len(routes) : routes[j] = route
        BY <2>3, LenProperties DEF ToSet, IInv, TypeOK
      <3>2. PICK k \in 1 .. Len(routes') : routes'[k] = route
        BY <1>2, <2>3, <3>1
      <3>3. route \in ToSet(routes')
        BY <1>2, <3>2, LenProperties DEF ToSet
      <3> QED BY <1>1, <3>3 DEF Current
    <2> QED BY <1>4, <2>1, <2>2, <2>3 DEF Current
  <1>5. Known'
    BY <1>1, <1>4 DEF IInv, Known, Good, Entries
  <1>6. AllSound' /\ OnePending'
    BY <1>1 DEF IInv, AllSound, OnePending, Sound, Pending, FrameSent, Entries
  <1>7. Dialog'
    BY <1>1 DEF IInv, Dialog, NonePending, Pending, FrameSent, Entries
  <1> QED BY <1>3, <1>5, <1>6, <1>7 DEF IInv

-------------------------------------------------------------------------------
(* The theorems. *)

LEMMA StepInv == IInv /\ [Next]_vars => IInv'
  <1> SUFFICES ASSUME IInv, [Next]_vars PROVE IInv'
    OBVIOUS
  <1>1. CASE Select
    BY <1>1, SelectInv
  <1>2. CASE ReadClient
    BY <1>2, ReadClientInv
  <1>3. CASE SelectMiddle \/ ServersRead
    BY <1>3, OtherProxyInv
  <1>4. CASE ReadAnswer
    BY <1>4, ReadAnswerInv
  <1>5. CASE ReadWebsocket
    BY <1>5, ReadWebsocketInv
  <1>6. CASE ReadEof
    BY <1>6, ReadEofInv
  <1>7. CASE ClientSends \/ ClientLeaves
    BY <1>7, ClientInv
  <1>8. CASE ServerSends
    BY <1>8, ServerSendsInv
  <1>9. CASE \E u \in Name : HubDeletes(u) \/ \E t \in Target : HubPosts(u, t)
    BY <1>9, HubInv
  <1>10. CASE UNCHANGED vars
    <2>1. UNCHANGED <<routes, changed, lproxy, pc, ready, mask, inbox, client, messages, relayed>>
      BY <1>10 DEF vars
    <2>2. TypeOK' /\ Dialog'
      BY <2>1, SameLists DEF IInv, TypeOK, Dialog
    <2> QED BY <2>1, <2>2, SameLists DEF IInv
  <1> QED BY <1>1, <1>2, <1>3, <1>4, <1>5, <1>6, <1>7, <1>8, <1>9, <1>10 DEF Next, ProxyStep

LEMMA InvHolds == Spec => []IInv
  BY InitInv, StepInv, PTL DEF Spec

\* The variables of receipt_proxy and of its environment keep their types.
THEOREM TypeCorrect == Spec => []TypeOK
  BY InvHolds, PTL DEF IInv

\* However the hub changes the routes while a connection lasts, and whatever
\* spellings are asked for, a request goes to the target its user's route has,
\* unless the hub has edited that route since this connection first asked for
\* it, or to where "/" leads: the hub, when the hub is given with -h.
THEOREM RequestsStayHome == Spec => RequestReachesItsUser
  <1> DEFINE Reaches ==
        \A u \in Name \ {Root} :
          pc = "client" /\ pc' = "middle" /\ ready /\ inbox = Request(u) =>
            \/ relayed'.user = Root /\ HostUrl \in {None, relayed'.target}
            \/ Api!SameUser(relayed'.user, u) /\ Current(relayed')
  <1>1. IInv /\ [Next]_vars => [Reaches]_vars
    <2> SUFFICES ASSUME IInv, Next, NEW u \in Name \ {Root}, pc = "client", pc' = "middle",
                        ready, inbox = Request(u)
                 PROVE  \/ relayed'.user = Root /\ HostUrl \in {None, relayed'.target}
                        \/ Api!SameUser(relayed'.user, u) /\ Current(relayed')
      OBVIOUS
    <2>1. ReadClient
      BY DEF Next, ProxyStep, Select, SelectMiddle, ReadAnswer, ReadWebsocket, ReadEof, ServersRead,
             ClientSends, ClientLeaves, ServerSends, HubPosts, HubDeletes
    <2>2. PICK r \in Routed(inbox) : Relay(inbox, r)
      BY <2>1 DEF ReadClient, Terminate
    <2> DEFINE e == r.list[r.at]
    <2>3. inbox \in Message /\ inbox.user = u /\ inbox.kind = "request"
      BY Kinds DEF Request
    <2>4. /\ r.at # 0 /\ relayed'.user = e.user /\ relayed'.target = e.target
      BY <2>2 DEF Relay
    <2>5. /\ Fit(r.list, inbox) /\ r.at \in 1 .. Len(r.list)
          /\ e.user = Root \/ Api!SameUser(e.user, u)
      BY <2>3, <2>4, RoutedTo
    <2>6. Good(e)
      BY <2>5 DEF Fit
    <2> HIDE DEF e
    <2> QED BY <2>4, <2>5, <2>6 DEF Good, Current, Api!SameUser
  <1> QED BY <1>1, InvHolds, PTL DEF Spec, RequestReachesItsUser

\* At most one entry is marked as a websocket, and it has a socket: a frame has
\* one way to go.
THEOREM OneWebsocket == Spec => []WebsocketIsUnique
  <1>1. IInv => WebsocketIsUnique
    BY DEF IInv, OnePending, Pending, AllSound, Sound, WebsocketIsUnique, Peers
  <1> QED BY <1>1, InvHolds, PTL
================================================================================
