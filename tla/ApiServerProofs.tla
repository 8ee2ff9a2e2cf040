---------------------------- MODULE ApiServerProofs ----------------------------
(***************************************************************************)
(* Proofs about ApiServer: its types, that no user ever has two routes,    *)
(* and that it implements RouteTable, for all names, targets and clients.  *)
(***************************************************************************)
EXTENDS ApiServer, SequenceTheorems, TLAPS

-------------------------------------------------------------------------------
(* The list operations. *)

\* The list without its k-th node (RemoveAt of SequencesExt), node by node.
LEMMA RemoveAtProperties ==
  ASSUME NEW S, NEW list \in Seq(S), NEW k \in 1 .. Len(list)
  PROVE  /\ RemoveAt(list, k) \in Seq(S)
         /\ Len(RemoveAt(list, k)) = Len(list) - 1
         /\ \A i \in 1 .. Len(list) - 1 :
              RemoveAt(list, k)[i] = IF i < k THEN list[i] ELSE list[i + 1]
<1> DEFINE a == SubSeq(list, 1, k - 1)
           b == SubSeq(list, k + 1, Len(list))
<1>1. Len(list) \in Nat /\ k \in Nat /\ \A i \in 1 .. Len(list) : list[i] \in S
  BY LenProperties
<1>2. /\ a \in Seq(S)
      /\ Len(a) = k - 1
      /\ \A i \in 1 .. k - 1 : a[i] = list[i]
  <2>1. \A i \in 1 .. k - 1 : list[i] \in S
    BY <1>1
  <2>2. /\ a \in Seq(S)
        /\ Len(a) = IF 1 <= k - 1 THEN (k - 1) - 1 + 1 ELSE 0
        /\ \A i \in 1 .. (k - 1) - 1 + 1 : a[i] = list[1 + i - 1]
    BY <1>1, <2>1, SubSeqProperties
  <2>3. QED
    BY <1>1, <2>2
<1>3. /\ b \in Seq(S)
      /\ Len(b) = Len(list) - k
      /\ \A i \in 1 .. Len(list) - k : b[i] = list[k + i]
  <2>1. \A i \in k + 1 .. Len(list) : list[i] \in S
    BY <1>1
  <2>2. /\ b \in Seq(S)
        /\ Len(b) = IF k + 1 <= Len(list) THEN Len(list) - (k + 1) + 1 ELSE 0
        /\ \A i \in 1 .. Len(list) - (k + 1) + 1 : b[i] = list[(k + 1) + i - 1]
    BY <1>1, <2>1, SubSeqProperties
  <2>3. QED
    BY <1>1, <2>2
<1>4. RemoveAt(list, k) = a \o b
  BY DEF RemoveAt
<1>5. /\ a \o b \in Seq(S)
      /\ Len(a \o b) = Len(a) + Len(b)
      /\ \A i \in 1 .. Len(a) + Len(b) :
           (a \o b)[i] = IF i <= Len(a) THEN a[i] ELSE b[i - Len(a)]
  BY <1>2, <1>3, ConcatProperties
<1> HIDE DEF a, b
<1>6. ASSUME NEW i \in 1 .. Len(list) - 1
      PROVE  (a \o b)[i] = IF i < k THEN list[i] ELSE list[i + 1]
  <2>1. CASE i < k
    BY <2>1, <1>1, <1>2, <1>3, <1>5
  <2>2. CASE ~(i < k)
    <3>1. (a \o b)[i] = b[i - (k - 1)]
      BY <2>2, <1>1, <1>2, <1>3, <1>5
    <3>2. i - (k - 1) \in 1 .. Len(list) - k /\ k + (i - (k - 1)) = i + 1
      BY <2>2, <1>1
    <3>3. QED
      BY <2>2, <3>1, <3>2, <1>3
  <2>3. QED
    BY <2>1, <2>2
<1>7. QED
  BY <1>1, <1>2, <1>3, <1>4, <1>5, <1>6

\* In a list of distinct users the search stops at the only match there is.
LEMMA FirstIsTheMatch ==
  ASSUME NEW list \in Seq(Route), DistinctUsers(list), NEW u,
         NEW i \in Matches(list, u)
  PROVE  First(list, u) = i
<1>1. \A j \in Matches(list, u) : j = i
  BY DEF DistinctUsers, Matches, SameUser
<1>2. i \in Nat
  BY LenProperties DEF Matches
<1>3. \E x \in Matches(list, u) : \A y \in Matches(list, u) : x <= y
  BY <1>1, <1>2
<1>4. QED
  BY <1>1, <1>3 DEF First, Min

\* api_del_user keeps the list well formed, and leaves exactly the nodes of
\* the other users, in their order.
LEMMA DeleteProperties ==
  ASSUME NEW list \in Seq(Route), DistinctUsers(list), NEW u \in Name
  PROVE  /\ api_del_user(list, u) \in Seq(Route)
         /\ DistinctUsers(api_del_user(list, u))
         /\ Matches(api_del_user(list, u), u) = {}
<1>1. CASE Matches(list, u) = {}
  BY <1>1 DEF api_del_user
<1>2. CASE Matches(list, u) # {}
  <2>1. PICK k \in Matches(list, u) : TRUE
    BY <1>2
  <2> DEFINE rest == RemoveAt(list, k)
  <2>2. k \in 1 .. Len(list) /\ Len(list) \in Nat
    BY <2>1, LenProperties DEF Matches
  <2>3. api_del_user(list, u) = rest
    BY <1>2, <2>1, FirstIsTheMatch DEF api_del_user
  <2>4. /\ rest \in Seq(Route)
        /\ Len(rest) = Len(list) - 1
        /\ \A i \in 1 .. Len(list) - 1 :
             rest[i] = IF i < k THEN list[i] ELSE list[i + 1]
    BY <2>2, RemoveAtProperties
  <2> HIDE DEF rest
  <2>5. DistinctUsers(rest)
    <3> SUFFICES ASSUME NEW i \in 1 .. Len(rest), NEW j \in 1 .. Len(rest),
                        SameUser(rest[i].user, rest[j].user)
                 PROVE  i = j
      BY DEF DistinctUsers
    <3> DEFINE old(n) == IF n < k THEN n ELSE n + 1
    <3>1. old(i) \in 1 .. Len(list) /\ old(j) \in 1 .. Len(list)
      BY <2>2, <2>4
    <3>2. rest[i] = list[old(i)] /\ rest[j] = list[old(j)]
      BY <2>2, <2>4
    <3>3. old(i) = old(j)
      BY <3>1, <3>2 DEF DistinctUsers
    <3>4. QED
      BY <2>2, <2>4, <3>3
  <2>6. Matches(rest, u) = {}
    <3> SUFFICES ASSUME NEW i \in 1 .. Len(rest), SameUser(rest[i].user, u)
                 PROVE  FALSE
      BY DEF Matches
    <3> DEFINE o == IF i < k THEN i ELSE i + 1
    <3>1. o \in 1 .. Len(list) /\ o # k
      BY <2>2, <2>4
    <3>2. rest[i] = list[o]
      BY <2>2, <2>4
    <3>3. SameUser(list[o].user, list[k].user)
      BY <2>1, <3>2 DEF Matches, SameUser
    <3>4. QED
      BY <2>2, <3>1, <3>3 DEF DistinctUsers
  <2>7. QED
    BY <2>3, <2>4, <2>5, <2>6
<1>3. QED
  BY <1>1, <1>2

\* api_add_user keeps the list well formed: deleting before appending is what
\* keeps the users distinct.
LEMMA AddProperties ==
  ASSUME NEW list \in Seq(Route), DistinctUsers(list),
         NEW u \in Name, NEW t \in Target
  PROVE  /\ api_add_user(list, u, t) \in Seq(Route)
         /\ DistinctUsers(api_add_user(list, u, t))
<1> DEFINE rest == api_del_user(list, u)
           r == [user |-> u, target |-> t]
           new == Append(rest, r)
<1>1. /\ rest \in Seq(Route)
      /\ DistinctUsers(rest)
      /\ Matches(rest, u) = {}
  BY DeleteProperties
<1>2. r \in Route
  BY DEF Route
<1> HIDE DEF rest
<1>3. /\ new \in Seq(Route)
      /\ Len(new) = Len(rest) + 1
      /\ \A i \in 1 .. Len(rest) : new[i] = rest[i]
      /\ new[Len(rest) + 1] = r
  BY <1>1, <1>2, AppendProperties
<1>4. Len(rest) \in Nat
  BY <1>1, LenProperties
<1>5. \A i \in 1 .. Len(rest) :
        ~SameUser(rest[i].user, u) /\ ~SameUser(u, rest[i].user)
  BY <1>1 DEF Matches, SameUser
<1>6. DistinctUsers(new)
  <2> SUFFICES ASSUME NEW i \in 1 .. Len(new), NEW j \in 1 .. Len(new),
                      SameUser(new[i].user, new[j].user)
               PROVE  i = j
    BY DEF DistinctUsers
  <2>1. i \in 1 .. Len(rest) \/ i = Len(rest) + 1
    BY <1>3, <1>4
  <2>2. j \in 1 .. Len(rest) \/ j = Len(rest) + 1
    BY <1>3, <1>4
  <2>3. CASE i \in 1 .. Len(rest) /\ j \in 1 .. Len(rest)
    BY <2>3, <1>1, <1>3 DEF DistinctUsers
  <2>4. CASE i \in 1 .. Len(rest) /\ j = Len(rest) + 1
    BY <2>4, <1>3, <1>5
  <2>5. CASE i = Len(rest) + 1 /\ j \in 1 .. Len(rest)
    BY <2>5, <1>3, <1>5
  <2>6. QED
    BY <2>1, <2>2, <2>3, <2>4, <2>5
<1>7. QED
  BY <1>3, <1>6 DEF api_add_user, rest

-------------------------------------------------------------------------------
(* The invariant. *)

Inv == TypeOK /\ OneRoutePerUser

LEMMA InitInv == Init => Inv
<1>1. Init => shaking \in BOOLEAN
  BY Zenon DEF Init
<1>2. QED
  BY <1>1, NameAssumption
     DEF Init, Inv, TypeOK, OneRoutePerUser, DistinctUsers, NoReply

\* api_get_user answers with a sequence of routes.
LEMMA GetProperties ==
  ASSUME NEW list \in Seq(Route), DistinctUsers(list), NEW u \in Name
  PROVE  api_get_user(list, u) \in Seq(Route)
<1>1. CASE u = Root \/ Matches(list, u) = {}
  BY <1>1 DEF api_get_user
<1>2. CASE u # Root /\ Matches(list, u) # {}
  <2>1. PICK i \in Matches(list, u) : TRUE
    BY <1>2
  <2>2. list[First(list, u)] \in Route
    BY <2>1, FirstIsTheMatch, LenProperties DEF Matches
  <2>3. QED
    BY <1>2, <2>2 DEF api_get_user
<1>3. QED
  BY <1>1, <1>2

LEMMA NextInv == Inv /\ [Next]_vars => Inv'
<1> SUFFICES ASSUME Inv, [Next]_vars PROVE Inv'
  OBVIOUS
<1> USE DEF Inv, TypeOK
<1>1. ASSUME NEW c \in Client, Connect(c) PROVE Inv'
  BY <1>1, AppendProperties DEF Connect, OneRoutePerUser
<1>2. CASE Accept
  <2>1. Head(backlog) \in Client /\ Tail(backlog) \in Seq(Client)
    BY <1>2, HeadTailProperties DEF Accept
  <2>2. QED
    BY <1>2, <2>1, HttpsAssumption DEF Accept, OneRoutePerUser
<1>3. CASE Unreadable
  BY <1>3 DEF Unreadable, Respond, OneRoutePerUser
<1>4. CASE Refused
  <2>1. \A r \in Refusals : r[1] \in BOOLEAN /\ r[2] \in {0, 400, 401, 404, 405}
    BY DEF Refusals, Refusal
  <2>2. QED
    BY <1>4, <2>1 DEF Refused, Respond, OneRoutePerUser
<1>5. ASSUME NEW u \in Name, Get(u) PROVE Inv'
  BY <1>5, GetProperties DEF Get, Respond, OneRoutePerUser
<1>6. ASSUME NEW u \in Name, Post(u) PROVE Inv'
  <2>1. PICK t \in Target : lproxy' = api_add_user(lproxy, u, t)
    BY <1>6 DEF Post, Acceptable, Body
  <2>2. lproxy' \in Seq(Route) /\ DistinctUsers(lproxy')
    BY <2>1, AddProperties DEF OneRoutePerUser
  <2>3. QED
    BY <1>6, <2>2 DEF Post, Respond, OneRoutePerUser
<1>7. ASSUME NEW u \in Name, PostRefused(u) PROVE Inv'
  BY <1>7 DEF PostRefused, Respond, OneRoutePerUser
<1>8. ASSUME NEW u \in Name, Delete(u) PROVE Inv'
  BY <1>8, DeleteProperties DEF Delete, Respond, OneRoutePerUser
<1>9. ASSUME NEW u \in Name, DeleteMissing(u) PROVE Inv'
  BY <1>9 DEF DeleteMissing, Respond, OneRoutePerUser
<1>10. CASE Restart
  <2>1. shaking' \in BOOLEAN
    BY <1>10, Zenon DEF Restart
  <2>2. QED
    BY <1>10, <2>1 DEF Restart, NoReply, OneRoutePerUser, DistinctUsers
<1>11. CASE Handshake
  BY <1>11 DEF Handshake, OneRoutePerUser
<1>12. CASE UNCHANGED vars
  BY <1>12 DEF vars, OneRoutePerUser
<1>13. QED
  BY <1>1, <1>2, <1>3, <1>4, <1>5, <1>6, <1>7, <1>8, <1>9, <1>10, <1>11, <1>12
     DEF Next, Serve

\* The server's variables keep their types.
THEOREM TypeCorrect == Spec => []TypeOK
BY InitInv, NextInv, PTL DEF Spec, Inv

\* No user ever has two routes, in whatever case its name is spelled.
THEOREM RoutesAreUnique == Spec => []OneRoutePerUser
BY InitInv, NextInv, PTL DEF Spec, Inv

-------------------------------------------------------------------------------
(* The list implements the table. *)

\* The node of a user is that user's route.
LEMMA RouteOfNode ==
  ASSUME NEW list \in Seq(Route), DistinctUsers(list),
         NEW i \in 1 .. Len(list), NEW k, SameUser(list[i].user, k)
  PROVE  RouteOf(list, k) = list[i]
<1>1. i \in Matches(list, k)
  BY DEF Matches
<1>2. QED
  BY <1>1, FirstIsTheMatch DEF RouteOf

\* A well-formed list has a route for a user or no node of that user.
LEMMA RouteOfCases ==
  ASSUME NEW list \in Seq(Route), DistinctUsers(list), NEW k
  PROVE  \/ /\ Matches(list, k) = {}
            /\ RouteOf(list, k) = None
         \/ \E i \in 1 .. Len(list) : /\ SameUser(list[i].user, k)
                                      /\ RouteOf(list, k) = list[i]
                                      /\ list[i] \in Route
<1>1. CASE Matches(list, k) = {}
  BY <1>1 DEF RouteOf
<1>2. CASE Matches(list, k) # {}
  <2>1. PICK i \in 1 .. Len(list) : SameUser(list[i].user, k)
    BY <1>2 DEF Matches
  <2>2. RouteOf(list, k) = list[i] /\ list[i] \in Route
    BY <2>1, RouteOfNode, LenProperties
  <2>3. QED
    BY <2>1, <2>2
<1>3. QED
  BY <1>1, <1>2

\* Deleting a user takes that user's route away and no other.
LEMMA RouteOfDelete ==
  ASSUME NEW list \in Seq(Route), DistinctUsers(list),
         NEW u \in Name, NEW k \in Name
  PROVE  RouteOf(api_del_user(list, u), k) =
           IF SameUser(u, k) THEN None ELSE RouteOf(list, k)
<1> DEFINE rest == api_del_user(list, u)
<1>1. rest \in Seq(Route) /\ DistinctUsers(rest) /\ Matches(rest, u) = {}
  BY DeleteProperties
<1>2. CASE SameUser(u, k)
  <2>1. Matches(rest, k) = Matches(rest, u)
    BY <1>2 DEF Matches, SameUser
  <2>2. QED
    BY <1>1, <1>2, <2>1 DEF RouteOf
<1>3. CASE ~SameUser(u, k)
  <2>1. CASE Matches(list, u) = {}
    BY <1>3, <2>1 DEF api_del_user
  <2>2. CASE Matches(list, u) # {}
    <3>1. PICK d \in Matches(list, u) : TRUE
      BY <2>2
    <3>2. d \in 1 .. Len(list) /\ Len(list) \in Nat /\ SameUser(list[d].user, u)
      BY <3>1, LenProperties DEF Matches
    <3>3. rest = RemoveAt(list, d)
      BY <2>2, <3>1, FirstIsTheMatch DEF api_del_user
    <3>4. /\ Len(rest) = Len(list) - 1
          /\ \A i \in 1 .. Len(list) - 1 :
               rest[i] = IF i < d THEN list[i] ELSE list[i + 1]
      BY <3>2, <3>3, RemoveAtProperties
    <3> HIDE DEF rest
    <3>5. CASE Matches(list, k) = {}
      <4>1. ASSUME NEW i \in 1 .. Len(rest), SameUser(rest[i].user, k) PROVE FALSE
        <5> DEFINE o == IF i < d THEN i ELSE i + 1
        <5>1. o \in 1 .. Len(list) /\ rest[i] = list[o]
          BY <3>2, <3>4
        <5>2. o \in Matches(list, k)
          BY <4>1, <5>1 DEF Matches
        <5>3. QED
          BY <3>5, <5>2
      <4>2. Matches(rest, k) = {}
        BY <4>1 DEF Matches
      <4>3. QED
        BY <1>3, <3>5, <4>2 DEF RouteOf, rest
    <3>6. CASE Matches(list, k) # {}
      <4>1. PICK n \in 1 .. Len(list) : SameUser(list[n].user, k)
        BY <3>6 DEF Matches
      <4>2. n # d
        BY <1>3, <3>2, <4>1 DEF SameUser
      <4> DEFINE m == IF n < d THEN n ELSE n - 1
      <4>3. m \in 1 .. Len(rest) /\ rest[m] = list[n]
        BY <3>2, <3>4, <4>2
      <4>4. RouteOf(rest, k) = rest[m]
        BY <1>1, <4>1, <4>3, RouteOfNode
      <4>5. RouteOf(list, k) = list[n]
        BY <4>1, RouteOfNode
      <4>6. QED
        BY <1>3, <4>3, <4>4, <4>5 DEF rest
    <3>7. QED
      BY <3>5, <3>6
  <2>3. QED
    BY <2>1, <2>2
<1>4. QED
  BY <1>2, <1>3

\* Registering a user sets that user's route and no other.
LEMMA RouteOfAdd ==
  ASSUME NEW list \in Seq(Route), DistinctUsers(list),
         NEW u \in Name, NEW t \in Target, NEW k \in Name
  PROVE  RouteOf(api_add_user(list, u, t), k) =
           IF SameUser(u, k) THEN [user |-> u, target |-> t] ELSE RouteOf(list, k)
<1> DEFINE rest == api_del_user(list, u)
           r == [user |-> u, target |-> t]
           new == Append(rest, r)
<1>1. rest \in Seq(Route) /\ DistinctUsers(rest) /\ Matches(rest, u) = {}
  BY DeleteProperties
<1>2. new \in Seq(Route) /\ DistinctUsers(new)
  BY AddProperties DEF api_add_user
<1>3. RouteOf(rest, k) = IF SameUser(u, k) THEN None ELSE RouteOf(list, k)
  BY RouteOfDelete
<1>4. r \in Route
  BY DEF Route
<1> HIDE DEF rest
<1>5. /\ Len(new) = Len(rest) + 1
      /\ \A i \in 1 .. Len(rest) : new[i] = rest[i]
      /\ new[Len(rest) + 1] = r
      /\ Len(rest) \in Nat
  BY <1>1, <1>4, AppendProperties, LenProperties
<1> HIDE DEF new
<1>6. CASE SameUser(u, k)
  <2>1. Len(rest) + 1 \in 1 .. Len(new) /\ SameUser(new[Len(rest) + 1].user, k)
    BY <1>5, <1>6
  <2>2. RouteOf(new, k) = r
    BY <1>2, <1>5, <2>1, RouteOfNode
  <2>3. QED
    BY <1>6, <2>2 DEF api_add_user, new, rest
<1>7. CASE ~SameUser(u, k)
  <2>1. CASE Matches(rest, k) = {}
    <3>1. ASSUME NEW i \in 1 .. Len(new), SameUser(new[i].user, k) PROVE FALSE
      <4>1. CASE i = Len(rest) + 1
        BY <1>5, <1>7, <3>1, <4>1 DEF SameUser
      <4>2. CASE i \in 1 .. Len(rest)
        BY <1>5, <2>1, <3>1, <4>2 DEF Matches
      <4>3. QED
        BY <1>5, <4>1, <4>2
    <3>2. Matches(new, k) = {}
      BY <3>1 DEF Matches
    <3>3. RouteOf(new, k) = RouteOf(rest, k)
      BY <2>1, <3>2 DEF RouteOf
    <3>4. QED
      BY <1>3, <1>7, <3>3 DEF api_add_user, new, rest
  <2>2. CASE Matches(rest, k) # {}
    <3>1. PICK n \in 1 .. Len(rest) : SameUser(rest[n].user, k)
      BY <2>2 DEF Matches
    <3>2. n \in 1 .. Len(new) /\ new[n] = rest[n]
      BY <1>5
    <3>3. RouteOf(new, k) = new[n]
      BY <1>2, <3>1, <3>2, RouteOfNode
    <3>4. RouteOf(rest, k) = rest[n]
      BY <1>1, <3>1, RouteOfNode
    <3>5. QED
      BY <1>3, <1>7, <3>2, <3>3, <3>4 DEF api_add_user, new, rest
  <2>3. QED
    BY <2>1, <2>2
<1>8. QED
  BY <1>6, <1>7

\* The routes in the table are the nodes of the list.
LEMMA RegisteredIsList ==
  ASSUME NEW list \in Seq(Route), DistinctUsers(list)
  PROVE  {RouteOf(list, k) : k \in {Fold[n] : n \in Name}} \ {None} = ToSet(list)
<1>1. ToSet(list) = {list[i] : i \in 1 .. Len(list)}
  BY LenProperties DEF ToSet
<1>2. ASSUME NEW i \in 1 .. Len(list)
      PROVE  list[i] \in {RouteOf(list, k) : k \in {Fold[n] : n \in Name}} \ {None}
  <2>1. list[i] \in Route
    BY LenProperties
  <2> HIDE DEF Route
  <2>a. list[i].user \in Name
    BY <2>1 DEF Route
  <2> DEFINE key == Fold[list[i].user]
  <2>2. key \in {Fold[n] : n \in Name} /\ SameUser(list[i].user, key)
    BY <2>a, NameAssumption DEF SameUser
  <2>3. RouteOf(list, key) = list[i]
    BY <2>2, RouteOfNode
  <2>4. QED
    BY <2>1, <2>2, <2>3, NoneAssumption
<1>3. ASSUME NEW k \in {Fold[n] : n \in Name}, RouteOf(list, k) # None
      PROVE  RouteOf(list, k) \in ToSet(list)
  BY <1>1, <1>3, RouteOfCases
<1>4. QED
  BY <1>1, <1>2, <1>3

Keys == {Fold[n] : n \in Name}

\* A key is its own spelling.
LEMMA KeyFacts ==
  /\ \A u \in Name : Fold[u] \in Keys
  /\ \A k \in Keys : k \in Name /\ Fold[k] = k
  /\ \A u \in Name, k \in Keys : SameUser(u, k) <=> k = Fold[u]
BY NameAssumption DEF Keys, SameUser

LEMMA ToSetEmpty == ToSet(<<>>) = {}
BY DEF ToSet

LEMMA NoReplyRefines ==
  [NoReply EXCEPT !.routes = ToSet(@)] = Table!NoAnswer
<1> DEFINE no == FALSE
           Record(r) == [client |-> None, authorised |-> no, code |-> 0, routes |-> r]
<1>1. [Record(<<>>) EXCEPT !.routes = ToSet(<<>>)] = Record(ToSet(<<>>))
  <2> HIDE DEF no
  <2> QED OBVIOUS
<1>2. [Record(<<>>) EXCEPT !.routes = ToSet(<<>>)] = Record({})
  BY <1>1, ToSetEmpty, Zenon
<1>3. NoReply = Record(<<>>) /\ Table!NoAnswer = Record({})
  BY Zenon DEF NoReply, Table!NoAnswer
<1>4. NoReply.routes = <<>>
  BY DEF NoReply
<1>5. QED
  <2> HIDE DEF Record
  <2> QED BY <1>2, <1>3, <1>4, Zenon

\* The initial list is the empty table.
LEMMA InitRefines == Init => Table!Init
<1> SUFFICES ASSUME Init PROVE Table!Init
  OBVIOUS
<1>1. \A k \in Keys : RouteOf(lproxy, k) = None
  BY DEF Init, RouteOf, Matches
<1>2. [reply EXCEPT !.routes = ToSet(@)] = Table!NoAnswer
  BY NoReplyRefines DEF Init
<1>3. QED
  BY <1>1, <1>2 DEF Table!Init, Table!Key, Keys

\* An answer of the server is an answer of the table.
LEMMA RespondRefines ==
  ASSUME NEW ok, NEW n, NEW routes, Respond(ok, n, routes), TypeOK
  PROVE  Aofd \in Client /\ Table!Answer(Aofd, ok, n, ToSet(routes))
BY DEF Respond, Table!Answer, TypeOK

LEMMA NextRefines == Inv /\ [Next]_vars => [Table!Next]_(Table!vars)
<1> SUFFICES ASSUME Inv, [Next]_vars PROVE [Table!Next]_(Table!vars)
  OBVIOUS
<1> DEFINE table == [k \in Keys |-> RouteOf(lproxy, k)]
<1>0. TypeOK /\ lproxy \in Seq(Route) /\ DistinctUsers(lproxy)
  BY DEF Inv, TypeOK, OneRoutePerUser
<1>1. ASSUME NEW c \in Client, Connect(c) PROVE UNCHANGED Table!vars
  BY <1>1 DEF Connect, Table!vars, RouteOf, Matches, First
<1>2. CASE Accept
  BY <1>2 DEF Accept, Table!vars, RouteOf, Matches, First
<1>3. CASE Unreadable
  <2>1. PICK ok \in BOOLEAN, n \in {0, 400} : Respond(ok, n, <<>>)
    BY <1>3 DEF Unreadable
  <2>2. Aofd \in Client /\ Table!Answer(Aofd, ok, n, {})
    BY <1>0, <2>1, RespondRefines, ToSetEmpty
  <2>3. UNCHANGED table
    BY <1>3 DEF Unreadable
  <2>4. Table!Refuse(Aofd)
    <3>1. n \in {0, 400, 401, 404, 405} /\ (n = 404 => ok)
      OBVIOUS
    <3>2. QED
      BY <2>2, <2>3, <3>1 DEF Table!Refuse, Keys
  <2>5. QED
    BY <2>2, <2>4 DEF Table!Next
<1>4. CASE Refused
  <2>1. PICK r \in Refusals : Respond(r[1], r[2], <<>>)
    BY <1>4 DEF Refused
  <2>2. /\ r[1] \in BOOLEAN
        /\ r[2] \in {0, 400, 401, 404, 405}
        /\ r[2] = 404 => r[1]
    BY <2>1 DEF Refusals, Refusal
  <2>3. Aofd \in Client /\ Table!Answer(Aofd, r[1], r[2], {})
    BY <1>0, <2>1, RespondRefines, ToSetEmpty
  <2>4. UNCHANGED table
    BY <1>4 DEF Refused
  <2>5. Table!Refuse(Aofd)
    BY <2>2, <2>3, <2>4 DEF Table!Refuse, Keys
  <2>6. QED
    BY <2>3, <2>5 DEF Table!Next
<1>5. ASSUME NEW u \in Name, Get(u) PROVE Table!Next
  <2>1. /\ Aofd \in Client
        /\ Table!Answer(Aofd, TRUE, 200, ToSet(api_get_user(lproxy, u)))
    BY <1>0, <1>5, RespondRefines DEF Get
  <2>2. UNCHANGED table
    BY <1>5 DEF Get
  <2>3. CASE u = Root
    <3>1. ToSet(api_get_user(lproxy, u)) = {table[k] : k \in Keys} \ {None}
      BY <1>0, <2>3, RegisteredIsList DEF api_get_user, Keys
    <3>2. Table!LookupAll(Aofd)
      BY <2>1, <2>2, <3>1
         DEF Table!LookupAll, Table!Registered, Table!Key, Keys
    <3>3. QED
      BY <2>1, <3>2 DEF Table!Next
  <2>4. CASE u # Root
    <3>1. RouteOf(lproxy, Fold[u]) = RouteOf(lproxy, u)
      BY NameAssumption DEF RouteOf, First, Matches, SameUser
    <3>2. ToSet(api_get_user(lproxy, u)) = {RouteOf(lproxy, u)} \ {None}
      <4>1. CASE Matches(lproxy, u) = {}
        BY <2>4, <4>1, ToSetEmpty DEF api_get_user, RouteOf
      <4>2. CASE Matches(lproxy, u) # {}
        <5>1. api_get_user(lproxy, u) = <<RouteOf(lproxy, u)>>
          BY <2>4, <4>2 DEF api_get_user, RouteOf
        <5>2. RouteOf(lproxy, u) # None
          BY <1>0, <4>2, RouteOfCases, NoneAssumption
        <5>3. QED
          BY <5>1, <5>2 DEF ToSet
      <4>3. QED
        BY <4>1, <4>2
    <3>3. table[Fold[u]] = RouteOf(lproxy, u)
      BY <3>1, KeyFacts
    <3>4. Table!Lookup(Aofd, u)
      BY <2>1, <2>2, <2>4, <3>2, <3>3 DEF Table!Lookup, Keys
    <3>5. QED
      BY <2>1, <3>4 DEF Table!Next
  <2>5. QED
    BY <2>3, <2>4
<1>6. ASSUME NEW u \in Name, Post(u) PROVE Table!Next
  <2>1. PICK t \in Target : lproxy' = api_add_user(lproxy, u, t)
    BY <1>6 DEF Post, Acceptable, Body
  <2>2. Aofd \in Client /\ Table!Answer(Aofd, TRUE, 201, {})
    BY <1>0, <1>6, RespondRefines, ToSetEmpty DEF Post
  <2>3. table' = [table EXCEPT ![Fold[u]] = [user |-> u, target |-> t]]
    <3>1. ASSUME NEW k \in Keys
          PROVE  RouteOf(lproxy', k) = IF k = Fold[u]
                                         THEN [user |-> u, target |-> t]
                                         ELSE RouteOf(lproxy, k)
      BY <1>0, <2>1, RouteOfAdd, KeyFacts
    <3>2. QED
      BY <3>1
  <2>4. Table!Register(Aofd, u, t)
    BY <2>2, <2>3 DEF Table!Register, Keys
  <2>5. QED
    BY <2>2, <2>4 DEF Table!Next
<1>7. ASSUME NEW u \in Name, PostRefused(u) PROVE Table!Next
  <2>1. Aofd \in Client /\ Table!Answer(Aofd, TRUE, 400, {})
    BY <1>0, <1>7, RespondRefines, ToSetEmpty DEF PostRefused
  <2>2. UNCHANGED table
    BY <1>7 DEF PostRefused
  <2>3. Table!Refuse(Aofd)
    BY <2>1, <2>2 DEF Table!Refuse, Keys
  <2>4. QED
    BY <2>1, <2>3 DEF Table!Next
<1>8. ASSUME NEW u \in Name, Delete(u) PROVE Table!Next
  <2>1. lproxy' = api_del_user(lproxy, u) /\ Matches(lproxy, u) # {}
    BY <1>8 DEF Delete
  <2>2. Aofd \in Client /\ Table!Answer(Aofd, TRUE, 204, {})
    BY <1>0, <1>8, RespondRefines, ToSetEmpty DEF Delete
  <2>3. table' = [table EXCEPT ![Fold[u]] = None]
    <3>1. ASSUME NEW k \in Keys
          PROVE  RouteOf(lproxy', k) = IF k = Fold[u] THEN None
                                       ELSE RouteOf(lproxy, k)
      BY <1>0, <2>1, RouteOfDelete, KeyFacts
    <3>2. QED
      BY <3>1
  <2>4. table[Fold[u]] # None
    <3>1. Matches(lproxy, Fold[u]) = Matches(lproxy, u)
      BY NameAssumption DEF Matches, SameUser
    <3>2. RouteOf(lproxy, Fold[u]) # None
      BY <1>0, <2>1, <3>1, RouteOfCases, NoneAssumption
    <3>3. QED
      BY <3>2, KeyFacts
  <2>5. Table!Unregister(Aofd, u)
    BY <2>2, <2>3, <2>4 DEF Table!Unregister, Keys
  <2>6. QED
    BY <2>2, <2>5 DEF Table!Next
<1>9. ASSUME NEW u \in Name, DeleteMissing(u) PROVE Table!Next
  <2>1. Aofd \in Client /\ Table!Answer(Aofd, TRUE, 404, {})
    BY <1>0, <1>9, RespondRefines, ToSetEmpty DEF DeleteMissing
  <2>2. UNCHANGED table
    BY <1>9 DEF DeleteMissing
  <2>3. Table!Refuse(Aofd)
    BY <2>1, <2>2 DEF Table!Refuse, Keys
  <2>4. QED
    BY <2>1, <2>3 DEF Table!Next
<1>10. CASE Restart
  <2>1. table' = [k \in Keys |-> None]
    BY <1>10 DEF Restart, RouteOf, Matches
  <2>2. [reply EXCEPT !.routes = ToSet(@)]' = Table!NoAnswer
    BY <1>10, NoReplyRefines DEF Restart
  <2>3. Table!Reset
    BY <2>1, <2>2 DEF Table!Reset, Table!Key, Keys
  <2>4. QED
    BY <2>3 DEF Table!Next
<1>11. CASE Handshake
  BY <1>11 DEF Handshake, Table!vars, RouteOf, Matches, First
<1>12. CASE UNCHANGED vars
  BY <1>12 DEF vars, Table!vars, RouteOf, Matches, First
<1>13. QED
  BY <1>1, <1>2, <1>3, <1>4, <1>5, <1>6, <1>7, <1>8, <1>9, <1>10, <1>11, <1>12
     DEF Next, Serve

\* The server implements the route table: what its clients are told about the
\* ordered list of nodes is what they would be told about a map.
THEOREM ImplementationCorrect == Spec => ImplementsRouteTable
BY InitInv, NextInv, InitRefines, NextRefines, PTL
   DEF Spec, ImplementsRouteTable, Table!Spec

===============================================================================
