--------------------------- MODULE PodmanSpawnerProofs ---------------------------
(***************************************************************************)
(* The safety of PodmanSpawner for any number of users, containers, ports  *)
(* and launches.  The invariant says which of the two places that hold a   *)
(* container's id, the object and the database, is right at which point.   *)
(***************************************************************************)
EXTENDS PodmanSpawner, TLAPS

\* While the hub is down there are no objects; a user without an entry has an
\* empty state, and an object that is not idle has an entry.
NoObjects == hub = "down" => \A u \in User : sp[u].pc = "idle" /\ sp[u].cid = NoId
EntryFirst ==
  \A u \in User :
    /\ ~saved[u].server => saved[u].cid = NoId
    /\ hub = "up" /\ sp[u].pc = "idle" => ~saved[u].server
    /\ hub = "up" /\ sp[u].pc # "idle" => saved[u].server

\* Object and database name the same container, but between "podman run" and
\* the saving of its id; before "podman run" they name none.
SameId ==
  hub = "up" => \A u \in User :
    /\ sp[u].pc # "save" => sp[u].cid = saved[u].cid
    /\ sp[u].pc \in {"start", "save"} => saved[u].cid = NoId
    /\ sp[u].pc \in {"save", "podman_stop"} => sp[u].cid \in Id

\* A container bears its user's name, and has the user's home.
NameIsOwn ==
  \A i \in Id : Live(i) =>
    box[i].user \in User /\ box[i].name[1] = box[i].user /\ box[i].home[2] = box[i].user

IInv == TypeOK /\ NoObjects /\ EntryFirst /\ SameId /\ NameIsOwn /\ LiveIsKnown

-------------------------------------------------------------------------------
(* What the operators of LaunchSettings return: the lemmas of              *)
(* DockerSpawnerProofs again, which extends the other spawner.              *)

\* What the fields of Settings hold.
LEMMA SettingsFields ==
  ASSUME NEW s \in Settings
  PROVE  /\ s.lms_user_id \in Int /\ s.ext_user_id \in Int /\ s.ext_group_id \in Int
         /\ s.course_id \in Course /\ s.host_name \in Host /\ s.lti_id \in Nat
         /\ s.ext_grp_name \in Group \cup {Blank}
         /\ s.volumes \in Assoc /\ s.submits \in Assoc /\ s.prsnals \in Assoc
         /\ s.options \in Text \cup {Blank}
  BY DEF Settings

\* init_parameters leaves an object in a legal state.
LEMMA InitialSettings == init_parameters \in Settings
  <1>1. NoVolumes \in Assoc
    <2>1. NoVolumes \in [{} -> [show : Show, users : Users]]
      BY DEF NoVolumes
    <2>2. {} \in SUBSET Volume
      OBVIOUS
    <2> QED BY <2>1, <2>2 DEF Assoc
  <1>2. /\ NoCourse \in Course /\ Localhost \in Host /\ {} \in Users
        /\ NoAmount \in Text /\ LabPage \in Text
    BY SettingsAssumption, DefaultsAssumption DEF Users
  <1> QED BY <1>1, <1>2 DEF init_parameters, Settings

\* The ids that the container gets are numbers, and its group has a name.
LEMMA IdsAreNumbers ==
  ASSUME NEW u \in User, NEW s \in Settings
  PROVE  /\ get_userid(u, s) \in Int
         /\ group_id(u, s) \in Nat
         /\ get_groupname(u, s) \in Group
  <1>1. get_userid(u, s) \in Int
    BY SettingsAssumption, SettingsFields DEF get_userid, get_lms_userinfo
  <1>2. group_id(u, s) \in Nat
    BY SettingsAssumption, SettingsFields DEF group_id, get_lms_userinfo
  <1>3. get_groupname(u, s) \in Group
    BY <1>2, SettingsAssumption, SettingsFields DEF get_groupname, get_lms_userinfo
  <1> QED BY <1>1, <1>2, <1>3

\* A volume of the list is a directory of this course and this LMS.
LEMMA VolumesOfTheCourse ==
  ASSUME NEW u \in User, NEW s \in Settings, NEW kind \in Kind, NEW assoc \in Assoc
  PROVE  \A e \in get_volumes_info(u, s, kind, assoc) :
           e \in Entry /\ e.dir.kind = kind /\ e.dir.host = s.host_name /\ e.show.name \in Name
  <1>1. PICK V \in SUBSET Volume : assoc \in [V -> [show : Show, users : Users]]
    BY DEF Assoc
  <1> SUFFICES ASSUME NEW v \in DOMAIN assoc, assoc[v].show.name # Blank
               PROVE  LET e == [dir |-> VolumeDir(s, kind, v), show |-> assoc[v].show]
                      IN  e \in Entry /\ e.dir.kind = kind /\ e.dir.host = s.host_name /\ e.show.name \in Name
    BY DEF get_volumes_info
  <1>2. v \in Volume /\ assoc[v].show \in Show
    BY <1>1
  <1>3. assoc[v].show.name \in Name
    BY <1>2 DEF Show
  <1> QED BY <1>2, <1>3, SettingsFields DEF VolumeDir, Entry, Dir

\* The three lists of a launch.
LEMMA Lists ==
  ASSUME NEW u \in User, NEW s \in Settings
  PROVE  /\ \A e \in get_env(u, s).NB_VOLUMES :
              e \in Entry /\ e.dir.kind = "lms_vol_" /\ e.dir.host = s.host_name /\ e.show.name \in Name
         /\ \A e \in get_env(u, s).NB_SUBMITS :
              e \in Entry /\ e.dir.kind = "lms_sub_" /\ e.dir.host = s.host_name /\ e.show.name \in Name
         /\ \A e \in get_env(u, s).NB_PRSNALS : e \in Entry /\ e.show.name \in Name
  BY VolumesOfTheCourse, SettingsFields DEF get_env, Kind

\* get_env fills every variable of the start script.
LEMMA EnvType ==
  ASSUME NEW u \in User, NEW s \in Settings
  PROVE  get_env(u, s) \in Env
  <1>1. /\ get_volumes_info(u, s, "lms_vol_", s.volumes) \in SUBSET Entry
        /\ get_volumes_info(u, s, "lms_sub_", s.submits) \in SUBSET Entry
        /\ get_volumes_info(u, s, "lms_prs_", s.prsnals) \in SUBSET Entry
    BY VolumesOfTheCourse, SettingsFields DEF Kind
  <1>2. IsTeacher(u, s) \in BOOLEAN
    BY DEF IsTeacher
  <1> QED BY <1>1, <1>2, IdsAreNumbers, SettingsFields DEF get_env, Env

\* What is mounted is what the two lists say.
LEMMA MountsOfLists ==
  ASSUME NEW u, NEW s
  PROVE  Mounts(u, s) = {e.dir : e \in get_env(u, s).NB_VOLUMES \cup get_env(u, s).NB_SUBMITS}
  BY DEF Mounts, get_env

LEMMA MountsType ==
  ASSUME NEW u \in User, NEW s \in Settings
  PROVE  Mounts(u, s) \in SUBSET Dir
  BY MountsOfLists, Lists DEF Entry

LEMMA TraitsType ==
  ASSUME NEW s \in Settings
  PROVE  TraitsOf(s) \in [Traits -> Text \cup {Blank, Bad}]
  <1>1. ASSUME NEW tr \in Traits
        PROVE  s[tr] \in Text \cup {Blank, Bad}
    <2>1. /\ s.image \in Text \cup {Blank} /\ s.default_url \in Text \cup {Blank}
          /\ s.cpu \in Text \cup {Blank, Bad} /\ s.mem \in Text \cup {Blank}
      BY DEF Settings
    <2> QED BY <2>1 DEF Traits
  <1>2. \A tr \in Traits : SiteTraits[tr] \in Text \cup {Blank, Bad}
    BY DefaultsAssumption
  <1> QED BY <1>1, <1>2 DEF TraitsOf

-------------------------------------------------------------------------------
LEMMA NewSpawnerType == NewSpawner \in Spawner
  BY InitialSettings DEF NewSpawner, Spawner

LEMMA LoadedType ==
  ASSUME TypeOK, NEW u \in User, NEW pc \in {"listed", "check"}
  PROVE  Loaded(u, pc) \in Spawner /\ Loaded(u, pc).cid = saved[u].cid /\ Loaded(u, pc).pc = pc
  <1>1. saved[u] \in Saved
    BY DEF TypeOK
  <1> QED BY <1>1, InitialSettings DEF Loaded, NewSpawner, Spawner, Saved

LEMMA SpawnerFields ==
  ASSUME TypeOK, NEW u \in User
  PROVE  /\ sp[u] \in Spawner /\ saved[u] \in Saved
         /\ sp[u].set \in Settings /\ sp[u].cid \in Id \cup {NoId} /\ sp[u].port \in Port \cup {NoId}
         /\ saved[u].cid \in Id \cup {NoId}
  BY DEF TypeOK, Spawner, Saved

LEMMA InitInv == Init => IInv
  <1> SUFFICES ASSUME Init PROVE IInv
    OBVIOUS
  <1> USE DEF Init
  <1>1. TypeOK
    <2>1. Nothing \in Saved
      BY DEF Nothing, Saved
    <2>2. NoBox \in Box
      BY DefaultsAssumption DEF NoBox, Box
    <2> QED BY <2>1, <2>2, NewSpawnerType DEF TypeOK
  <1>2. \A i \in Id : ~Live(i)
    BY DEF Live, NoBox
  <1>3. NoObjects /\ EntryFirst /\ SameId
    BY DEF NoObjects, EntryFirst, SameId, NewSpawner, Nothing
  <1> QED BY <1>1, <1>2, <1>3 DEF IInv, NameIsOwn, LiveIsKnown

-------------------------------------------------------------------------------
(* A step of one object that changes its pc alone, or the object and entry   *)
(* together, is the common case.                                             *)

\* The pc moves on between the stages in which both places agree.
LEMMA MoveOn ==
  ASSUME IInv, NEW u \in User, hub = "up",
         NEW pc \in {"wait", "ready", "stop", "podman_stop"},
         sp[u].pc \notin {"idle", "start", "save"},
         pc = "podman_stop" => sp[u].cid \in Id,
         sp' = [sp EXCEPT ![u].pc = pc],
         UNCHANGED <<hub, saved, box, lost>>
  PROVE  IInv'
  <1>1. TypeOK'
    <2>1. sp' \in [User -> Spawner]
      BY DEF IInv, TypeOK, Spawner
    <2> QED BY <2>1 DEF IInv, TypeOK
  <1>2. \A v \in User : sp'[v].cid = sp[v].cid /\ sp'[v].pc = (IF v = u THEN pc ELSE sp[v].pc)
    BY DEF IInv, TypeOK, Spawner
  <1>3. NoObjects' /\ EntryFirst' /\ SameId'
    BY <1>2 DEF IInv, NoObjects, EntryFirst, SameId
  <1>4. NameIsOwn'
    BY DEF IInv, NameIsOwn, Live
  <1>5. LiveIsKnown'
    BY <1>2 DEF IInv, NameIsOwn, LiveIsKnown, Live, Knows
  <1> QED BY <1>1, <1>3, <1>4, <1>5 DEF IInv

\* The server of u is forgotten; its container must not be live, or is lost.
LEMMA Forget ==
  ASSUME IInv, NEW u \in User, hub = "up", hub' = hub, Cleared(u),
         sp[u].pc \in {"stop", "podman_stop"},
         box' \in [Id -> Box], lost' \in SUBSET Id,
         \A i \in Id : Live(i)' => Live(i) /\ box'[i] = box[i],
         \A i \in Id : Live(i)' /\ i \in lost => i \in lost',
         \A i \in Id : i = sp[u].cid => ~Live(i)' \/ i \in lost'
  PROVE  IInv'
  <1>1. /\ sp' = [sp EXCEPT ![u] = NewSpawner]
        /\ saved' = [saved EXCEPT ![u] = Nothing]
    BY DEF Cleared
  <1>2. TypeOK'
    <2>1. Nothing \in Saved
      BY DEF Nothing, Saved
    <2> QED BY <1>1, <2>1, NewSpawnerType DEF IInv, TypeOK
  <1>3. /\ \A v \in User : v # u => sp'[v] = sp[v] /\ saved'[v] = saved[v]
        /\ sp'[u].pc = "idle" /\ sp'[u].cid = NoId
        /\ ~saved'[u].server /\ saved'[u].cid = NoId
    BY <1>1 DEF IInv, TypeOK, NewSpawner, Nothing
  <1>4. NoObjects'
    BY DEF NoObjects
  <1>5. EntryFirst' /\ SameId'
    BY <1>3 DEF IInv, EntryFirst, SameId
  <1>6. NameIsOwn'
    BY DEF IInv, NameIsOwn
  <1>7. LiveIsKnown'
    <2> SUFFICES ASSUME NEW i \in Id, Live(i)', i \notin lost'
                 PROVE  Knows(box[i].user, i)'
      BY DEF LiveIsKnown
    <2>1. Live(i) /\ i \notin lost /\ box'[i] = box[i] /\ i # sp[u].cid
      OBVIOUS
    <2>2. Knows(box[i].user, i) /\ box[i].user \in User
      BY <2>1 DEF IInv, LiveIsKnown, NameIsOwn
    <2>3. sp[u].cid = saved[u].cid
      BY DEF IInv, SameId
    <2> QED BY <1>3, <2>1, <2>2, <2>3 DEF Knows
  <1> QED BY <1>2, <1>4, <1>5, <1>6, <1>7 DEF IInv

\* An error of stop: the entry may stay.
LEMMA Fail ==
  ASSUME IInv, NEW u \in User, hub = "up", Failed(u), sp[u].pc \in {"stop", "podman_stop"},
         UNCHANGED <<hub, box>>
  PROVE  IInv'
  <1>1. CASE Cleared(u) /\ lost' = lost \cup {i \in Id : i = sp[u].cid /\ Live(i)}
    <2>1. box' \in [Id -> Box] /\ lost' \in SUBSET Id
      BY <1>1 DEF IInv, TypeOK
    <2>2. \A i \in Id : Live(i)' = Live(i)
      BY DEF Live
    <2>3. /\ \A i \in Id : Live(i)' => Live(i) /\ box'[i] = box[i]
          /\ \A i \in Id : Live(i)' /\ i \in lost => i \in lost'
          /\ \A i \in Id : i = sp[u].cid => ~Live(i)' \/ i \in lost'
      BY <1>1, <2>2
    <2> QED BY <1>1, <2>1, <2>3, Forget
  <1>2. CASE sp' = [sp EXCEPT ![u] = Loaded(u, "listed")] /\ UNCHANGED <<saved, lost>>
    <2>1. Loaded(u, "listed") \in Spawner /\ Loaded(u, "listed").cid = saved[u].cid
          /\ Loaded(u, "listed").pc = "listed"
      BY LoadedType DEF IInv
    <2>2. /\ \A v \in User : v # u => sp'[v] = sp[v]
          /\ sp'[u] = Loaded(u, "listed")
      BY <1>2 DEF IInv, TypeOK
    <2>3. TypeOK'
      BY <1>2, <2>1 DEF IInv, TypeOK
    <2>4. sp[u].cid = saved[u].cid
      BY DEF IInv, SameId
    <2>5. NoObjects' /\ EntryFirst' /\ SameId'
      BY <1>2, <2>1, <2>2 DEF IInv, NoObjects, EntryFirst, SameId
    <2>6. NameIsOwn'
      BY DEF IInv, NameIsOwn, Live
    <2>7. LiveIsKnown'
      BY <1>2, <2>1, <2>2, <2>4 DEF IInv, NameIsOwn, LiveIsKnown, Live, Knows
    <2> QED BY <2>3, <2>5, <2>6, <2>7 DEF IInv
  <1> QED BY <1>1, <1>2 DEF Failed

-------------------------------------------------------------------------------
\* A container comes to its end, by itself or by --rm.
LEMMA Ends ==
  ASSUME IInv, NEW i \in Id, NEW b \in Box,
         ~(b.st \in {"boot", "serve"}) \/ (Live(i) /\ b.user = box[i].user /\ b.name = box[i].name /\ b.home = box[i].home),
         box' = [box EXCEPT ![i] = b], lost' \in SUBSET Id,
         \A j \in Id : j # i /\ j \in lost => j \in lost',
         b.st \in {"boot", "serve"} /\ i \in lost => i \in lost',
         UNCHANGED <<hub, sp, saved>>
  PROVE  IInv'
  <1>1. TypeOK'
    BY DEF IInv, TypeOK
  <1>2. box'[i] = b /\ \A j \in Id : j # i => box'[j] = box[j]
    BY DEF IInv, TypeOK
  <1>3. NoObjects' /\ EntryFirst' /\ SameId'
    BY DEF IInv, NoObjects, EntryFirst, SameId
  <1>4. NameIsOwn'
    BY <1>2 DEF IInv, NameIsOwn, Live
  <1>5. LiveIsKnown'
    BY <1>2 DEF IInv, LiveIsKnown, Live, Knows
  <1> QED BY <1>1, <1>3, <1>4, <1>5 DEF IInv

LEMMA BoxFields ==
  ASSUME TypeOK, NEW i \in Id
  PROVE  box[i] \in Box /\ Gone \in Box /\ Gone.st = "gone"
         /\ \A st \in {"boot", "serve", "exited"} :
              LET b == [box[i] EXCEPT !.st = st]
              IN  b \in Box /\ b.st = st /\ b.user = box[i].user /\ b.name = box[i].name /\ b.home = box[i].home
  <1>1. box[i] \in Box
    BY DEF TypeOK
  <1>2. Gone \in Box /\ Gone.st = "gone"
    BY DefaultsAssumption DEF Gone, NoBox, Box
  <1> QED BY <1>1, <1>2 DEF Box

\* podman run makes a container of the user, with everything start() found out.
LEMMA RunType ==
  ASSUME NEW u \in User, NEW s \in Settings, NEW p \in Port
  PROVE  /\ podman_run(u, s, p) \in Box
         /\ podman_run(u, s, p).user = u /\ podman_run(u, s, p).name[1] = u
         /\ podman_run(u, s, p).home[2] = u
  <1>1. ContainerName(u, s) \in Names /\ ContainerName(u, s)[1] = u
    BY SettingsFields DEF ContainerName, Names
  <1>2. hosthome(u, s) \in Group \X User /\ hosthome(u, s)[2] = u
    BY IdsAreNumbers DEF hosthome, homedir
  <1>3. Told(u, s) \subseteq Env
    BY EnvType DEF Told
  <1> QED BY <1>1, <1>2, <1>3, MountsType, TraitsType DEF podman_run, Box

-------------------------------------------------------------------------------
LEMMA StepInv == IInv /\ [Next]_vars => IInv'
  <1> SUFFICES ASSUME IInv, [Next]_vars PROVE IInv'
    OBVIOUS
  <1>0. TypeOK
    BY DEF IInv
  <1>1. ASSUME NEW u \in User, Launch(u) PROVE IInv'
    <2>1. PICK l \in Posts[u] :
            ~HookRaises(l) /\ sp' = [sp EXCEPT ![u] = Hooked(l)]
      BY <1>1 DEF Launch
    <2>2. userdata_hook(l) \in Settings
      BY <2>1, PodmanAssumption DEF Launchable
    <2>3. Hooked(l) \in Spawner /\ Hooked(l).cid = NoId /\ Hooked(l).pc = "start"
      BY <2>2 DEF Hooked, NewSpawner, Spawner
    <2>4. /\ hub = "up" /\ sp[u].pc = "idle" /\ ~saved[u].server
          /\ saved' = [saved EXCEPT ![u].server = TRUE]
          /\ UNCHANGED <<hub, box, lost>>
      BY <1>1 DEF Launch
    <2>5. saved' \in [User -> Saved] /\ \A v \in User : saved'[v].cid = saved[v].cid /\ (v # u => saved'[v] = saved[v])
      BY <2>4, <1>0 DEF TypeOK, Saved
    <2>5a. saved'[u].server
      BY <2>4, <1>0 DEF TypeOK, Saved
    <2>6. sp'[u] = Hooked(l) /\ \A v \in User : v # u => sp'[v] = sp[v]
      BY <2>1, <1>0 DEF TypeOK
    <2>7. TypeOK'
      BY <2>1, <2>3, <2>4, <2>5, <1>0 DEF TypeOK
    <2>8. sp[u].cid = NoId /\ saved[u].cid = NoId
      BY <2>4 DEF IInv, SameId, EntryFirst
    <2>9. NoObjects' /\ EntryFirst' /\ SameId'
      BY <2>3, <2>4, <2>5, <2>5a, <2>6, <2>8 DEF IInv, NoObjects, EntryFirst, SameId
    <2>10. NameIsOwn' /\ LiveIsKnown'
      BY <2>3, <2>4, <2>5, <2>6, <2>8 DEF IInv, NameIsOwn, LiveIsKnown, Live, Knows
    <2> QED BY <2>7, <2>9, <2>10 DEF IInv
  <1>2. ASSUME NEW u \in User, Start(u) PROVE IInv'
    <2>1. PICK i \in Id, p \in random_port :
            /\ Fresh(i)
            /\ box' = [box EXCEPT ![i] = podman_run(u, sp[u].set, p)]
            /\ sp' = [sp EXCEPT ![u] = [NewSpawner EXCEPT !.pc = "save", !.cid = i, !.port = p]]
      BY <1>2 DEF Start
    <2> DEFINE o == [NewSpawner EXCEPT !.pc = "save", !.cid = i, !.port = p]
    <2>2. hub = "up" /\ sp[u].pc = "start" /\ UNCHANGED <<hub, saved, lost>>
      BY <1>2 DEF Start
    <2>3. p \in Port
      BY DEF random_port
    <2>4. o \in Spawner /\ o.pc = "save" /\ o.cid = i
      BY <2>3, InitialSettings DEF NewSpawner, Spawner
    <2> HIDE DEF o
    <2>5. /\ podman_run(u, sp[u].set, p) \in Box
          /\ podman_run(u, sp[u].set, p).user = u /\ podman_run(u, sp[u].set, p).name[1] = u
          /\ podman_run(u, sp[u].set, p).home[2] = u
      BY <2>3, <1>0, RunType, SpawnerFields
    <2>6. /\ sp' = [sp EXCEPT ![u] = o]
          /\ sp'[u] = o /\ \A v \in User : v # u => sp'[v] = sp[v]
      BY <2>1, <1>0 DEF TypeOK, o
    <2>7. box'[i] = podman_run(u, sp[u].set, p) /\ \A j \in Id : j # i => box'[j] = box[j]
      BY <2>1, <1>0 DEF TypeOK
    <2>8. TypeOK'
      BY <2>1, <2>2, <2>4, <2>5, <2>6, <1>0 DEF TypeOK
    <2>9. sp[u].cid = NoId /\ saved[u].cid = NoId
      BY <2>2 DEF IInv, SameId
    <2>10. NoObjects' /\ EntryFirst' /\ SameId'
      BY <2>2, <2>4, <2>6, <2>9 DEF IInv, NoObjects, EntryFirst, SameId
    <2>11. NameIsOwn'
      BY <2>5, <2>7 DEF IInv, NameIsOwn, Live
    <2>12. LiveIsKnown'
      BY <2>2, <2>4, <2>5, <2>6, <2>7, <2>9, PodmanAssumption DEF IInv, NameIsOwn, LiveIsKnown, Live, Knows
    <2> QED BY <2>8, <2>10, <2>11, <2>12 DEF IInv
  <1>3. ASSUME NEW u \in User, StartFails(u) PROVE IInv'
    <2> DEFINE o == [NewSpawner EXCEPT !.pc = "stop"]
    <2>1. /\ hub = "up" /\ sp[u].pc = "start" /\ UNCHANGED <<hub, saved, box, lost>>
          /\ sp' = [sp EXCEPT ![u] = o]
      BY <1>3 DEF StartFails
    <2>2. o \in Spawner /\ o.pc = "stop" /\ o.cid = NoId
      BY InitialSettings DEF NewSpawner, Spawner
    <2> HIDE DEF o
    <2>3. sp'[u] = o /\ \A v \in User : v # u => sp'[v] = sp[v]
      BY <2>1, <1>0 DEF TypeOK
    <2>4. TypeOK'
      BY <2>1, <2>2, <1>0 DEF TypeOK
    <2>5. sp[u].cid = NoId /\ saved[u].cid = NoId
      BY <2>1 DEF IInv, SameId
    <2>6. NoObjects' /\ EntryFirst' /\ SameId'
      BY <2>1, <2>2, <2>3, <2>5 DEF IInv, NoObjects, EntryFirst, SameId
    <2>7. NameIsOwn' /\ LiveIsKnown'
      BY <2>1, <2>2, <2>3, <2>5 DEF IInv, NameIsOwn, LiveIsKnown, Live, Knows
    <2> QED BY <2>4, <2>6, <2>7 DEF IInv
  <1>4. ASSUME NEW u \in User, Save(u) PROVE IInv'
    <2>1. /\ hub = "up" /\ sp[u].pc = "save" /\ UNCHANGED <<hub, box, lost>>
          /\ saved' = [saved EXCEPT ![u].cid = get_state(sp[u]), ![u].port = sp[u].port]
          /\ sp' = [sp EXCEPT ![u].pc = "wait"]
      BY <1>4 DEF Save
    <2>2. /\ sp' \in [User -> Spawner]
          /\ \A v \in User : sp'[v].cid = sp[v].cid /\ sp'[v].pc = (IF v = u THEN "wait" ELSE sp[v].pc)
      BY <2>1, <1>0 DEF TypeOK, Spawner
    <2>3. /\ saved' \in [User -> Saved]
          /\ \A v \in User : saved'[v].cid = (IF v = u THEN sp[v].cid ELSE saved[v].cid)
      BY <2>1, <1>0, SpawnerFields DEF TypeOK, Saved, get_state
    <2>3a. \A v \in User : saved'[v].server = saved[v].server
      BY <2>1, <1>0 DEF TypeOK, Saved
    <2>4. TypeOK'
      BY <2>1, <2>2, <2>3, <1>0 DEF TypeOK
    <2>5. saved[u].cid = NoId
      BY <2>1 DEF IInv, SameId
    <2>5a. saved[u].server
      BY <2>1 DEF IInv, EntryFirst
    <2>6. NoObjects' /\ EntryFirst' /\ SameId'
      BY <2>1, <2>2, <2>3, <2>3a, <2>5, <2>5a DEF IInv, NoObjects, EntryFirst, SameId
    <2>7. NameIsOwn' /\ LiveIsKnown'
      BY <2>1, <2>2, <2>3, <2>5, PodmanAssumption DEF IInv, NameIsOwn, LiveIsKnown, Live, Knows
    <2> QED BY <2>4, <2>6, <2>7 DEF IInv
  <1>5. ASSUME NEW u \in User, WaitUp(u) \/ WaitTimeout(u) \/ Poll(u) \/ Stop(u) PROVE IInv'
    <2>1. /\ hub = "up" /\ sp[u].pc \in {"wait", "ready", "listed"}
          /\ UNCHANGED <<hub, saved, box, lost>>
          /\ \E pc \in {"ready", "stop"} : sp' = [sp EXCEPT ![u].pc = pc]
      BY <1>5 DEF WaitUp, WaitTimeout, Poll, Stop
    <2> QED BY <2>1, MoveOn
  <1>6. ASSUME NEW u \in User, Check(u) PROVE IInv'
    <2>1. /\ hub = "up" /\ sp[u].pc = "check" /\ UNCHANGED <<hub, saved, box, lost>>
          /\ \E pc \in {"wait", "stop"} : sp' = [sp EXCEPT ![u].pc = pc]
      BY <1>6 DEF Check
    <2> QED BY <2>1, MoveOn
  <1>7. ASSUME NEW u \in User, PollToStop(u) PROVE IInv'
    <2>1. hub = "up" /\ sp[u].pc = "stop" /\ UNCHANGED <<hub, box>>
      BY <1>7 DEF PollToStop
    <2>2. sp[u].cid \in Id \cup {NoId}
      BY <1>0, SpawnerFields
    <2>3. CASE /\ "None" \in poll(sp[u].cid) /\ sp' = [sp EXCEPT ![u].pc = "podman_stop"]
               /\ UNCHANGED <<saved, lost>>
      <3>1. sp[u].cid \in Id
        BY <2>2, <2>3 DEF poll
      <3> QED BY <2>1, <2>3, <3>1, MoveOn
    <2>4. CASE "code" \in poll(sp[u].cid) /\ Cleared(u) /\ UNCHANGED lost
      <3>1. \A i \in Id : i = sp[u].cid => ~Live(i)
        BY <2>4 DEF poll
      <3>2. box' \in [Id -> Box] /\ lost' \in SUBSET Id
        BY <1>0, <2>1, <2>4 DEF TypeOK
      <3>3. \A i \in Id : Live(i)' = Live(i) /\ box'[i] = box[i]
        BY <2>1 DEF Live
      <3> QED BY <2>1, <2>4, <3>1, <3>2, <3>3, Forget
    <2>5. CASE Failed(u)
      BY <2>1, <2>5, Fail
    <2> QED BY <1>7, <2>3, <2>4, <2>5 DEF PollToStop
  <1>8. ASSUME NEW u \in User, PodmanStop(u) PROVE IInv'
    <2>1. hub = "up" /\ sp[u].pc = "podman_stop" /\ hub' = hub
      BY <1>8 DEF PodmanStop
    <2>2. sp[u].cid \in Id
      BY <2>1 DEF IInv, SameId
    <2>3. ASSUME NEW b \in {Gone, [box[sp[u].cid] EXCEPT !.st = "exited"]},
                 box' = [box EXCEPT ![sp[u].cid] = b], Cleared(u), UNCHANGED lost
          PROVE  IInv'
      <3>1. b \in Box /\ b.st \in {"gone", "exited"}
        BY <2>2, <1>0, BoxFields
      <3>2. box' \in [Id -> Box] /\ lost' \in SUBSET Id
        BY <2>3, <2>2, <1>0, <3>1 DEF TypeOK
      <3>3. \A i \in Id : i = sp[u].cid => ~Live(i)'
        BY <2>3, <2>2, <1>0, <3>1 DEF TypeOK, Live
      <3>4. \A i \in Id : i # sp[u].cid => box'[i] = box[i]
        BY <2>3, <1>0 DEF TypeOK
      <3>5. \A i \in Id : Live(i)' => Live(i) /\ box'[i] = box[i]
        BY <3>3, <3>4 DEF Live
      <3>6. sp[u].pc \in {"stop", "podman_stop"}
        BY <2>1
      <3> HIDE DEF IInv
      <3> QED BY <2>1, <2>3, <3>2, <3>3, <3>5, <3>6, Forget
    <2>4. CASE Failed(u) /\ UNCHANGED box
      BY <2>1, <2>4, Fail
    <2> QED BY <1>8, <2>3, <2>4 DEF PodmanStop
  <1>9. CASE HubCrash
    <2>1. /\ hub = "up" /\ hub' = "down" /\ UNCHANGED <<saved, box>>
          /\ lost' = lost \cup Unsaved
          /\ sp' = [u \in User |-> NewSpawner]
      BY <1>9 DEF HubCrash
    <2>2. lost' \in SUBSET Id
      <3> SUFFICES ASSUME NEW u \in User, sp[u].pc = "save" PROVE sp[u].cid \in Id
        BY <2>1, <1>0 DEF TypeOK, Unsaved
      <3> QED BY <2>1 DEF IInv, SameId
    <2>3. \A u \in User : sp'[u].pc = "idle" /\ sp'[u].cid = NoId
      BY <2>1 DEF NewSpawner
    <2>4. TypeOK'
      BY <2>1, <2>2, <1>0, NewSpawnerType DEF TypeOK
    <2>5. NoObjects' /\ EntryFirst' /\ SameId'
      BY <2>1, <2>3 DEF IInv, NoObjects, EntryFirst, SameId
    <2>6. NameIsOwn'
      BY <2>1 DEF IInv, NameIsOwn, Live
    <2>7. LiveIsKnown'
      BY <2>1, <2>3 DEF IInv, NameIsOwn, SameId, LiveIsKnown, Live, Knows, Unsaved
    <2> QED BY <2>4, <2>5, <2>6, <2>7 DEF IInv
  <1>10. CASE HubRestart
    <2>1. /\ hub = "down" /\ hub' = "up" /\ UNCHANGED <<saved, box, lost>>
          /\ sp' = [u \in User |-> IF saved[u].server THEN Loaded(u, "check") ELSE NewSpawner]
      BY <1>10 DEF HubRestart
    <2>2. \A u \in User : /\ Loaded(u, "check") \in Spawner /\ Loaded(u, "check").cid = saved[u].cid
                          /\ Loaded(u, "check").pc = "check"
      BY <1>0, LoadedType
    <2>3. \A u \in User : /\ saved[u].server => sp'[u].pc = "check" /\ sp'[u].cid = saved[u].cid
                          /\ ~saved[u].server => sp'[u].pc = "idle" /\ sp'[u].cid = NoId
      BY <2>1, <2>2 DEF NewSpawner
    <2>4. TypeOK'
      BY <2>1, <2>2, <1>0, NewSpawnerType DEF TypeOK
    <2>5. \A u \in User : sp'[u].cid = saved[u].cid
      BY <2>3 DEF IInv, EntryFirst
    <2>6. NoObjects' /\ EntryFirst' /\ SameId'
      BY <2>1, <2>3, <2>5 DEF IInv, NoObjects, EntryFirst, SameId
    <2>7. NameIsOwn'
      BY <2>1 DEF IInv, NameIsOwn, Live
    <2>8. LiveIsKnown'
      BY <2>1, <2>5, PodmanAssumption DEF IInv, NameIsOwn, NoObjects, LiveIsKnown, Live, Knows
    <2> QED BY <2>4, <2>6, <2>7, <2>8 DEF IInv
  <1>11. ASSUME NEW i \in Id, Boot(i) \/ Exit(i) \/ Remove(i) PROVE IInv'
    <2>1. CASE Boot(i)
      <3>1. /\ Live(i) /\ UNCHANGED <<hub, sp, saved, lost>>
            /\ \E st \in {"serve", "exited"} : box' = [box EXCEPT ![i].st = st]
        BY <2>1 DEF Boot, Live
      <3>2. PICK st \in {"serve", "exited"} : box' = [box EXCEPT ![i].st = st]
        BY <3>1
      <3> DEFINE b == [box[i] EXCEPT !.st = st]
      <3>3. b \in Box /\ b.user = box[i].user /\ b.name = box[i].name /\ b.home = box[i].home
        BY <1>0, BoxFields
      <3>4. box' = [box EXCEPT ![i] = b] /\ lost' \in SUBSET Id
        BY <3>1, <3>2, <1>0 DEF TypeOK
      <3> HIDE DEF b
      <3> QED BY <3>1, <3>3, <3>4, Ends
    <2>2. CASE Exit(i)
      <3>1. Live(i) /\ UNCHANGED <<hub, sp, saved, lost>> /\ box' = [box EXCEPT ![i].st = "exited"]
        BY <2>2 DEF Exit
      <3> DEFINE b == [box[i] EXCEPT !.st = "exited"]
      <3>2. b \in Box /\ b.user = box[i].user /\ b.name = box[i].name /\ b.home = box[i].home
        BY <1>0, BoxFields
      <3>3. box' = [box EXCEPT ![i] = b] /\ lost' \in SUBSET Id
        BY <3>1, <1>0 DEF TypeOK
      <3> HIDE DEF b
      <3> QED BY <3>1, <3>2, <3>3, Ends
    <2>3. CASE Remove(i)
      <3>1. UNCHANGED <<hub, sp, saved>> /\ box' = [box EXCEPT ![i] = Gone] /\ lost' = lost \ {i}
        BY <2>3 DEF Remove
      <3>2. Gone \in Box /\ Gone.st = "gone"
        BY <1>0, BoxFields
      <3>3. lost' \in SUBSET Id
        BY <3>1, <1>0 DEF TypeOK
      <3> QED BY <3>1, <3>2, <3>3, Ends
    <2> QED BY <1>11, <2>1, <2>2, <2>3
  <1>12. CASE UNCHANGED vars
    <2>1. TypeOK' /\ NoObjects' /\ EntryFirst' /\ SameId'
      BY <1>12 DEF IInv, TypeOK, NoObjects, EntryFirst, SameId, vars
    <2>2. NameIsOwn' /\ LiveIsKnown'
      BY <1>12 DEF IInv, NameIsOwn, LiveIsKnown, Live, Knows, vars
    <2> QED BY <2>1, <2>2 DEF IInv
  <1> QED BY <1>1, <1>2, <1>3, <1>4, <1>5, <1>6, <1>7, <1>8, <1>9, <1>10, <1>11, <1>12 DEF Next, HubStep

LEMMA InvHolds == Spec => []IInv
  BY InitInv, StepInv, PTL DEF Spec

\* Type correctness, for any numbers of users, containers and ports.
THEOREM TypeCorrect == Spec => []TypeOK
  <1>1. IInv => TypeOK
    BY DEF IInv
  <1> QED BY <1>1, InvHolds, PTL

\* The hub loses track of a running container only by a crash between "podman
\* run" and the saving of its id (podman_start), or by an error of a podman
\* command after which JupyterHub drops the entry.
THEOREM NoneIsForgotten == Spec => []LiveIsKnown
  <1>1. IInv => LiveIsKnown
    BY DEF IInv
  <1> QED BY <1>1, InvHolds, PTL

\* The home of the server that start() is about to run, and its name, are free
\* but for a lost container.
THEOREM HomesAreFree == Spec => []HomeIsFree
  <1>1. IInv => HomeIsFree
    <2> SUFFICES ASSUME IInv, NEW u \in User, sp[u].pc = "start", NEW i \in Id \ lost, Live(i),
                        box[i].home = hosthome(u, sp[u].set) \/ box[i].name = NameOf(u)
                 PROVE  FALSE
      BY DEF HomeIsFree
    <2>1. box[i].user = u
      BY DEF IInv, NameIsOwn, NameOf, ContainerName, hosthome, homedir
    <2>2. sp[u].cid = i \/ saved[u].cid = i
      BY <2>1 DEF IInv, LiveIsKnown, Knows
    <2>3. hub = "up"
      BY DEF IInv, TypeOK, NoObjects
    <2> QED BY <2>2, <2>3, PodmanAssumption DEF IInv, SameId
  <1> QED BY <1>1, InvHolds, PTL

\* When the entry of a server goes without an error of podman, its container does
\* not run any more.
THEOREM StopIsComplete == Spec => StopEndsContainer
  <1>1. IInv /\ IInv' /\ [Next]_vars =>
          [\A u \in User : saved[u].server /\ ~saved'[u].server =>
             \A i \in Id \ lost' : box[i].user = u => ~Live(i)']_vars
    <2> SUFFICES ASSUME IInv, IInv', Next, NEW u \in User, saved[u].server, ~saved'[u].server,
                        NEW i \in Id \ lost', box[i].user = u, Live(i)'
                 PROVE  FALSE
      OBVIOUS
    <2>1. saved'[u].cid = NoId
      BY DEF IInv, EntryFirst
    <2>2. PICK w \in User : PollToStop(w) \/ PodmanStop(w)
      <3>1. ~HubCrash /\ ~HubRestart /\ ~(\E j \in Id : Boot(j) \/ Exit(j) \/ Remove(j))
        BY DEF HubCrash, HubRestart, Boot, Exit, Remove
      <3>2. ASSUME NEW w \in User, Launch(w) \/ Save(w) PROVE FALSE
        BY <3>2 DEF Launch, Save, IInv, TypeOK, Saved
      <3>3. ASSUME NEW w \in User,
                   Start(w) \/ StartFails(w) \/ WaitUp(w) \/ WaitTimeout(w) \/ Poll(w) \/ Check(w) \/ Stop(w)
            PROVE FALSE
        BY <3>3 DEF Start, StartFails, WaitUp, WaitTimeout, Poll, Check, Stop
      <3> QED BY <3>1, <3>2, <3>3 DEF Next, HubStep
    <2>3. hub' = "up"
      BY <2>2 DEF PollToStop, PodmanStop
    <2>4. box'[i].user = u
      <3>1. CASE UNCHANGED box
        BY <3>1
      <3>2. CASE \E b \in {Gone, [box[sp[w].cid] EXCEPT !.st = "exited"]} :
                   box' = [box EXCEPT ![sp[w].cid] = b]
        <4>1. i # sp[w].cid
          <5>1. PICK b \in {Gone, [box[sp[w].cid] EXCEPT !.st = "exited"]} :
                  box' = [box EXCEPT ![sp[w].cid] = b]
            BY <3>2
          <5>2. ASSUME i = sp[w].cid PROVE FALSE
            <6>1. TypeOK /\ i \in Id
              BY DEF IInv
            <6>2. b.st \in {"gone", "exited"}
              <7>1. b = Gone \/ b = [box[i] EXCEPT !.st = "exited"]
                BY <5>1, <5>2
              <7>2. Gone.st = "gone" /\ [box[i] EXCEPT !.st = "exited"].st = "exited"
                BY <6>1, BoxFields
              <7> QED BY <7>1, <7>2
            <6>3. box'[i] = b
              BY <5>1, <5>2, <6>1 DEF TypeOK
            <6> QED BY <6>2, <6>3 DEF Live
          <5> QED BY <5>2
        <4> QED BY <3>2, <4>1 DEF IInv, TypeOK
      <3> QED BY <2>2, <3>1, <3>2 DEF PollToStop, PodmanStop
    <2>5. sp'[u].cid = i \/ saved'[u].cid = i
      BY <2>3, <2>4 DEF IInv, LiveIsKnown, Knows
    <2>6. saved'[u].cid = NoId /\ sp'[u].pc = "idle"
      BY <2>1, <2>3 DEF IInv, EntryFirst
    <2> QED BY <2>3, <2>5, <2>6, PodmanAssumption DEF IInv, SameId
  <1> QED BY <1>1, InvHolds, PTL DEF StopEndsContainer, Spec
===============================================================================
