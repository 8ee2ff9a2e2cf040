--------------------------- MODULE DockerSpawnerProofs ---------------------------
(***************************************************************************)
(* The safety of DockerSpawner and the start script for any number of      *)
(* users, courses, LMSs and volumes.  Base says where the script is in its *)
(* lists, and that a container is what a launch of its user made it; on it *)
(* rest the invariants of homes, links and volumes, which do not need each *)
(* other.                                                                  *)
(***************************************************************************)
EXTENDS DockerSpawner, TLAPS

\* start() works for a user who has no container, on one of these.
Phases ==
  \A u \in User : spawner[u].pc \in {"start", "mkdir", "chown", "create"} =>
    ctr[u].pc = "none" /\ spawner[u].set \in Hooks(u)

\* A container is what one of them asks for.
Launched ==
  \A u \in User : ctr[u].pc # "none" =>
    \E s \in Hooks(u) : ctr[u].env = get_env(u, s) /\ ctr[u].mounts = Mounts(u, s)

\* The script works through the list of the round.
Rounds ==
  \A u \in User :
    /\ ctr[u].pc \in {"task", "task_open"} => ctr[u].todo \subseteq ctr[u].env.NB_VOLUMES
    /\ ctr[u].pc \in {"submit", "submit_open"} => ctr[u].todo \subseteq ctr[u].env.NB_SUBMITS
    /\ ctr[u].pc = "personal" => ctr[u].todo \subseteq ctr[u].env.NB_PRSNALS
    /\ ctr[u].pc = "task_open" => ctr[u].cur \in ctr[u].env.NB_VOLUMES
    /\ ctr[u].pc = "submit_open" => ctr[u].cur \in ctr[u].env.NB_SUBMITS

Base == TypeOK /\ Phases /\ Launched /\ Rounds

-------------------------------------------------------------------------------
(* What the operators of LaunchSettings return. *)

\* What the fields of Settings hold.
LEMMA SettingsFields ==
  ASSUME NEW s \in Settings
  PROVE  /\ s.lms_user_id \in Int /\ s.ext_user_id \in Int /\ s.ext_group_id \in Int
         /\ s.course_id \in Course /\ s.host_name \in Host /\ s.lti_id \in Nat
         /\ s.ext_grp_name \in Group \cup {Blank}
         /\ s.volumes \in Assoc /\ s.submits \in Assoc /\ s.prsnals \in Assoc
         /\ s.options \in Text \cup {Blank}
  BY DEF Settings

\* init_parameters leaves an object in a legal state.
LEMMA InitialSettings == init_parameters \in Settings
  <1>1. NoVolumes \in Assoc
    <2>1. NoVolumes \in [{} -> [show : Show, users : Users]]
      BY DEF NoVolumes
    <2>2. {} \in SUBSET Volume
      OBVIOUS
    <2> QED BY <2>1, <2>2 DEF Assoc
  <1>2. /\ NoCourse \in Course /\ Localhost \in Host /\ {} \in Users
        /\ NoAmount \in Text /\ LabPage \in Text
    BY SettingsAssumption, DefaultsAssumption DEF Users
  <1> QED BY <1>1, <1>2 DEF init_parameters, Settings

\* The ids that the container gets are numbers, and its group has a name.
LEMMA IdsAreNumbers ==
  ASSUME NEW u \in User, NEW s \in Settings
  PROVE  /\ get_userid(u, s) \in Int
         /\ group_id(u, s) \in Nat
         /\ get_groupname(u, s) \in Group
  <1>1. get_userid(u, s) \in Int
    BY SettingsAssumption, SettingsFields DEF get_userid, get_lms_userinfo
  <1>2. group_id(u, s) \in Nat
    BY SettingsAssumption, SettingsFields DEF group_id, get_lms_userinfo
  <1>3. get_groupname(u, s) \in Group
    BY <1>2, SettingsAssumption, SettingsFields DEF get_groupname, get_lms_userinfo
  <1> QED BY <1>1, <1>2, <1>3

\* A volume of the list is a directory of this course and this LMS.
LEMMA VolumesOfTheCourse ==
  ASSUME NEW u \in User, NEW s \in Settings, NEW kind \in Kind, NEW assoc \in Assoc
  PROVE  \A e \in get_volumes_info(u, s, kind, assoc) :
           e \in Entry /\ e.dir.kind = kind /\ e.dir.host = s.host_name /\ e.show.name \in Name
  <1>1. PICK V \in SUBSET Volume : assoc \in [V -> [show : Show, users : Users]]
    BY DEF Assoc
  <1> SUFFICES ASSUME NEW v \in DOMAIN assoc, assoc[v].show.name # Blank
               PROVE  LET e == [dir |-> VolumeDir(s, kind, v), show |-> assoc[v].show]
                      IN  e \in Entry /\ e.dir.kind = kind /\ e.dir.host = s.host_name /\ e.show.name \in Name
    BY DEF get_volumes_info
  <1>2. v \in Volume /\ assoc[v].show \in Show
    BY <1>1
  <1>3. assoc[v].show.name \in Name
    BY <1>2 DEF Show
  <1> QED BY <1>2, <1>3, SettingsFields DEF VolumeDir, Entry, Dir

\* The three lists of a launch.
LEMMA Lists ==
  ASSUME NEW u \in User, NEW s \in Settings
  PROVE  /\ \A e \in get_env(u, s).NB_VOLUMES :
              e \in Entry /\ e.dir.kind = "lms_vol_" /\ e.dir.host = s.host_name /\ e.show.name \in Name
         /\ \A e \in get_env(u, s).NB_SUBMITS :
              e \in Entry /\ e.dir.kind = "lms_sub_" /\ e.dir.host = s.host_name /\ e.show.name \in Name
         /\ \A e \in get_env(u, s).NB_PRSNALS : e \in Entry /\ e.show.name \in Name
  BY VolumesOfTheCourse, SettingsFields DEF get_env, Kind

\* get_env fills every variable of the start script.
LEMMA EnvType ==
  ASSUME NEW u \in User, NEW s \in Settings
  PROVE  get_env(u, s) \in Env
  <1>1. /\ get_volumes_info(u, s, "lms_vol_", s.volumes) \in SUBSET Entry
        /\ get_volumes_info(u, s, "lms_sub_", s.submits) \in SUBSET Entry
        /\ get_volumes_info(u, s, "lms_prs_", s.prsnals) \in SUBSET Entry
    BY VolumesOfTheCourse, SettingsFields DEF Kind
  <1>2. IsTeacher(u, s) \in BOOLEAN
    BY DEF IsTeacher
  <1> QED BY <1>1, <1>2, IdsAreNumbers, SettingsFields DEF get_env, Env

\* What is mounted is what the two lists say.
LEMMA MountsOfLists ==
  ASSUME NEW u, NEW s
  PROVE  Mounts(u, s) = {e.dir : e \in get_env(u, s).NB_VOLUMES \cup get_env(u, s).NB_SUBMITS}
  BY DEF Mounts, get_env

LEMMA MountsType ==
  ASSUME NEW u \in User, NEW s \in Settings
  PROVE  Mounts(u, s) \in SUBSET Dir
  BY MountsOfLists, Lists DEF Entry

LEMMA TraitsType ==
  ASSUME NEW s \in Settings
  PROVE  TraitsOf(s) \in [Traits -> Text \cup {Blank, Bad}]
  <1>1. ASSUME NEW tr \in Traits
        PROVE  s[tr] \in Text \cup {Blank, Bad}
    <2>1. /\ s.image \in Text \cup {Blank} /\ s.default_url \in Text \cup {Blank}
          /\ s.cpu \in Text \cup {Blank, Bad} /\ s.mem \in Text \cup {Blank}
      BY DEF Settings
    <2> QED BY <2>1 DEF Traits
  <1>2. \A tr \in Traits : SiteTraits[tr] \in Text \cup {Blank, Bad}
    BY DefaultsAssumption
  <1> QED BY <1>1, <1>2 DEF TraitsOf

-------------------------------------------------------------------------------
LEMMA HooksAreSettings == \A u \in User : Hooks(u) \subseteq Settings
  BY PostsAssumption DEF Hooks, Launchable

LEMMA NewSpawnerType == NewSpawner \in Spawner /\ NewSpawner.pc = "idle" /\ Up \in Spawner /\ Up.pc = "up"
  BY InitialSettings DEF NewSpawner, Up, Spawner, HomeDirs

LEMMA NoContainerType == NoContainer \in Container /\ NoContainer.pc = "none"
  <1>1. NoEnv \in Env
    BY SettingsAssumption DEF NoEnv, Env, Root
  <1>2. \A tr \in Traits : SiteTraits[tr] \in Text \cup {Blank, Bad}
    BY DefaultsAssumption
  <1>3. SiteTraits \in [Traits -> Text \cup {Blank, Bad}]
    BY <1>2, DefaultsAssumption
  <1> QED BY <1>1, <1>3 DEF NoContainer, Container, Steps

\* The container that start() makes.
LEMMA NewContainerType ==
  ASSUME NEW u \in User, NEW s \in Settings
  PROVE  /\ NewContainer(u, s) \in Container /\ NewContainer(u, s).pc = "setup"
         /\ NewContainer(u, s).env = get_env(u, s) /\ NewContainer(u, s).mounts = Mounts(u, s)
  <1>1. Framer(s) \in SUBSET Host
    BY SettingsFields DEF Framer
  <1>2. "setup" \in Steps
    BY DEF Steps
  <1> QED BY <1>1, <1>2, NoContainerType, EnvType, MountsType, TraitsType DEF NewContainer, NoContainer, Container

LEMMA Fields ==
  ASSUME TypeOK, NEW u \in User
  PROVE  /\ ctr[u] \in Container /\ ctr[u].pc \in Steps /\ ctr[u].todo \in SUBSET Entry
         /\ ctr[u].cur \in Entry \cup {NoEntry} /\ ctr[u].mounts \in SUBSET Dir
         /\ ctr[u].env \in Env /\ ctr[u].env.NB_UID \in Int /\ ctr[u].env.NB_GROUP \in Group
         /\ ctr[u].env.NB_GID \in Nat /\ ctr[u].env.NB_TEACHER \in BOOLEAN
         /\ ctr[u].env.NB_VOLUMES \in SUBSET Entry /\ ctr[u].env.NB_SUBMITS \in SUBSET Entry
         /\ ctr[u].env.NB_PRSNALS \in SUBSET Entry
         /\ HomeOf(u) \in Home
         /\ spawner[u] \in Spawner /\ spawner[u].set \in Settings /\ spawner[u].dir \in HomeDirs
  <1>1. ctr[u] \in Container /\ spawner[u] \in Spawner
    BY DEF TypeOK
  <1>2. ctr[u].env \in Env
    BY <1>1 DEF Container
  <1>3. ctr[u].env.NB_GROUP \in Group
    BY <1>2 DEF Env
  <1>4. HomeOf(u) \in Home
    BY <1>3 DEF HomeOf, Home
  <1>5. /\ ctr[u].env.NB_UID \in Int /\ ctr[u].env.NB_GID \in Nat /\ ctr[u].env.NB_TEACHER \in BOOLEAN
        /\ ctr[u].env.NB_VOLUMES \in SUBSET Entry /\ ctr[u].env.NB_SUBMITS \in SUBSET Entry
        /\ ctr[u].env.NB_PRSNALS \in SUBSET Entry
    BY <1>2 DEF Env
  <1> QED BY <1>1, <1>2, <1>3, <1>4, <1>5 DEF Container, Spawner

\* The lists of a container: kinds, and names to link them under.
LEMMA ListsOf ==
  ASSUME Base, NEW u \in User, ctr[u].pc # "none"
  PROVE  /\ \A e \in ctr[u].env.NB_VOLUMES :
              e \in Entry /\ e.dir \in Dir /\ e.dir.kind = "lms_vol_" /\ e.show.name \in Name /\ e.dir \in ctr[u].mounts
         /\ \A e \in ctr[u].env.NB_SUBMITS :
              e \in Entry /\ e.dir \in Dir /\ e.dir.kind = "lms_sub_" /\ e.show.name \in Name /\ e.dir \in ctr[u].mounts
         /\ \A e \in ctr[u].env.NB_PRSNALS : e \in Entry /\ e.dir \in Dir /\ e.show.name \in Name
  <1>1. PICK s \in Hooks(u) : ctr[u].env = get_env(u, s) /\ ctr[u].mounts = Mounts(u, s)
    BY DEF Base, Launched
  <1>2. s \in Settings
    BY HooksAreSettings
  <1>3. \A e \in Entry : e.dir \in Dir
    BY DEF Entry
  <1> QED BY <1>1, <1>2, <1>3, Lists, MountsOfLists

-------------------------------------------------------------------------------
(* The effect of a step of the script on the container. *)
Moved(u, pc, todo, cur) ==
  /\ ctr' \in [User -> Container]
  /\ \A v \in User : v # u => ctr'[v] = ctr[v]
  /\ ctr'[u].pc = pc /\ ctr'[u].todo = todo /\ ctr'[u].cur = cur
  /\ ctr'[u].env = ctr[u].env /\ ctr'[u].mounts = ctr[u].mounts

LEMMA Moves ==
  ASSUME TypeOK, NEW u \in User, NEW pc \in Steps
  PROVE  /\ \A todo \in SUBSET Entry :
              ctr' = [ctr EXCEPT ![u].pc = pc, ![u].todo = todo] => Moved(u, pc, todo, ctr[u].cur)
         /\ \A e \in Entry :
              /\ Begin(u, e, pc) => Moved(u, pc, ctr[u].todo \ {e}, e)
              /\ Finish(u, e) => Moved(u, ctr[u].pc, ctr[u].todo \ {e}, ctr[u].cur)
         /\ Back(u, pc) => Moved(u, pc, ctr[u].todo, NoEntry)
         /\ ctr' = [ctr EXCEPT ![u].pc = pc] => Moved(u, pc, ctr[u].todo, ctr[u].cur)
  <1>0. ctr \in [User -> Container] /\ ctr[u] \in Container
    BY DEF TypeOK
  <1>1. ASSUME NEW todo \in SUBSET Entry, ctr' = [ctr EXCEPT ![u].pc = pc, ![u].todo = todo]
        PROVE  Moved(u, pc, todo, ctr[u].cur)
    BY <1>0, <1>1 DEF Container, Moved
  <1>2. ASSUME NEW e \in Entry, Begin(u, e, pc)
        PROVE  Moved(u, pc, ctr[u].todo \ {e}, e)
    BY <1>0, <1>2 DEF Container, Moved, Begin
  <1>3. ASSUME NEW e \in Entry, Finish(u, e)
        PROVE  Moved(u, ctr[u].pc, ctr[u].todo \ {e}, ctr[u].cur)
    BY <1>0, <1>3 DEF Container, Moved, Finish
  <1>4. ASSUME Back(u, pc) PROVE Moved(u, pc, ctr[u].todo, NoEntry)
    BY <1>0, <1>4 DEF Container, Moved, Back
  <1>5. ASSUME ctr' = [ctr EXCEPT ![u].pc = pc] PROVE Moved(u, pc, ctr[u].todo, ctr[u].cur)
    BY <1>0, <1>5 DEF Container, Moved
  <1> QED BY <1>1, <1>2, <1>3, <1>4, <1>5

\* The types of the directories and of the history.
DirsOK ==
  /\ owner \in [Home -> [HomeDirs -> Int]]
  /\ links \in [Home -> SUBSET ((Name \cup Dir) \X Dir)]
  /\ strays \subseteq Dir \X Dir
  /\ files \in [Home -> SUBSET Show]
  /\ personal \in [Home -> SUBSET Dir]
  /\ vol \in [Dir -> VolState]
  /\ cut \subseteq Dir

\* Rounds for one container.
RoundOK(env, pc, todo, cur) ==
  /\ pc \in {"task", "task_open"} => todo \subseteq env.NB_VOLUMES
  /\ pc \in {"submit", "submit_open"} => todo \subseteq env.NB_SUBMITS
  /\ pc = "personal" => todo \subseteq env.NB_PRSNALS
  /\ pc = "task_open" => cur \in env.NB_VOLUMES
  /\ pc = "submit_open" => cur \in env.NB_SUBMITS

\* A step of a script, as far as Base is concerned.
LEMMA ScriptBase ==
  ASSUME Base, NEW u \in User, NEW pc \in Steps, NEW todo, NEW cur, Moved(u, pc, todo, cur),
         ctr[u].pc # "none", RoundOK(ctr[u].env, pc, todo, cur), DirsOK', spawner' = spawner
  PROVE  Base'
  <1>1. TypeOK'
    BY DEF Base, TypeOK, DirsOK, Moved
  <1>2. Phases'
    BY DEF Base, Phases, Moved
  <1>3. Launched'
    BY DEF Base, Launched, Moved
  <1>4. Rounds'
    BY DEF Base, Rounds, RoundOK, Moved
  <1> QED BY <1>1, <1>2, <1>3, <1>4 DEF Base

LEMMA LinkType ==
  ASSUME TypeOK, NEW u \in User, NEW e, e.dir \in Dir, e.show.name \in Name, Link(u, e)
  PROVE  links' \in [Home -> SUBSET ((Name \cup Dir) \X Dir)] /\ strays' \subseteq Dir \X Dir
  <1>1. HomeOf(u) \in Home /\ links[HomeOf(u)] \in SUBSET ((Name \cup Dir) \X Dir)
    BY Fields DEF TypeOK
  <1>2. LinkName(e) \in Name \cup Dir
    BY DEF LinkName
  <1>3. Linked(HomeOf(u), e, ctr[u].env) \in SUBSET ((Name \cup Dir) \X Dir)
    BY <1>1, <1>2 DEF Linked
  <1>4. \A l \in links[HomeOf(u)] : l[2] \in Dir
    BY <1>1
  <1>5. Inside(HomeOf(u), e, ctr[u].env, ctr[u].mounts) \subseteq Dir \X Dir
    BY <1>4 DEF Inside
  <1> QED BY <1>1, <1>3, <1>5 DEF TypeOK, Link

LEMMA VolTypes ==
  ASSUME TypeOK, NEW u \in User, NEW d \in Dir
  PROVE  /\ TakenOver(u, d) \in VolState
         /\ [TakenOver(u, d) EXCEPT !.mode = "closed"] \in VolState
         /\ ChmodTask(vol[d]) \in VolState /\ ChmodSubmit(vol[d]) \in VolState
  <1>1. vol[d] \in VolState
    BY DEF TypeOK
  <1>2. EGID(ctr[u].env) \in Nat
    BY Fields, SettingsAssumption DEF EGID
  <1>3. TakenOver(u, d) \in VolState
    BY <1>1, <1>2, Fields DEF TakenOver, VolState
  <1> QED BY <1>1, <1>3 DEF ChmodTask, ChmodSubmit, VolState

LEMMA SetupTypes ==
  ASSUME TypeOK, NEW u \in User, NEW old \in [HomeDirs -> Int], NEW uid \in Int
  PROVE  /\ TakeHome(old, uid) \in [HomeDirs -> Int]
         /\ MakeWork(old, uid) \in [HomeDirs -> Int]
         /\ \A d \in HomeDirs : MakeWork(TakeHome(old, uid), uid)[d] = uid
  <1>1. TakeHome(old, uid) \in [HomeDirs -> Int] /\ TakeHome(old, uid)["home"] = uid
    BY DEF TakeHome, HomeDirs
  <1> QED BY <1>1 DEF MakeWork, HomeDirs

-------------------------------------------------------------------------------
(* What each step of the script does, in terms of Moved. *)

LEMMA ScriptSteps ==
  ASSUME Base, NEW u \in User
  PROVE  /\ Setup(u) => Moved(u, "task", ctr[u].env.NB_VOLUMES, ctr[u].cur)
         /\ TaskVolume(u) => \E e \in ctr[u].todo :
              Moved(u, "task_open", ctr[u].todo \ {e}, e)
              /\ vol' = [vol EXCEPT ![e.dir] = [TakenOver(u, e.dir) EXCEPT !.mode = "closed"]]
         /\ TaskOpen(u) => Moved(u, "task", ctr[u].todo, NoEntry)
         /\ TasksDone(u) => Moved(u, "submit", ctr[u].env.NB_SUBMITS, ctr[u].cur) /\ ctr[u].todo = {}
         /\ SubmitVolume(u) => \E e \in ctr[u].todo :
              Takes(u, e.dir) /\ Moved(u, "submit_open", ctr[u].todo \ {e}, e)
              /\ vol' = [vol EXCEPT ![e.dir] = TakenOver(u, e.dir)]
         /\ SubmitOpen(u) => Moved(u, "submit", ctr[u].todo, NoEntry)
         /\ SubmitAsItIs(u) => \E e \in ctr[u].todo :
              Moved(u, "submit", ctr[u].todo \ {e}, ctr[u].cur) /\ Link(u, e)
         /\ SubmitsDone(u) => Moved(u, "personal", ctr[u].env.NB_PRSNALS, ctr[u].cur) /\ ctr[u].todo = {}
         /\ PersonalVolume(u) => \E e \in ctr[u].todo :
              Moved(u, "personal", ctr[u].todo \ {e}, ctr[u].cur) /\ Link(u, e)
              /\ personal' = [personal EXCEPT ![HomeOf(u)] = @ \cup {e.dir}]
         /\ PersonalsDone(u) => Moved(u, "ready", {}, ctr[u].cur) /\ ctr[u].todo = {}
         /\ Exec(u) => Moved(u, "run", ctr[u].todo, ctr[u].cur)
  <1>1. TypeOK
    BY DEF Base
  <1>2. /\ ctr[u].todo \in SUBSET Entry /\ ctr[u].env.NB_VOLUMES \in SUBSET Entry
        /\ ctr[u].env.NB_SUBMITS \in SUBSET Entry /\ ctr[u].env.NB_PRSNALS \in SUBSET Entry
    BY <1>1, Fields
  <1>3. {"task", "task_open", "submit", "submit_open", "personal", "ready", "run"} \subseteq Steps
    BY DEF Steps
  <1>4. Setup(u) => Moved(u, "task", ctr[u].env.NB_VOLUMES, ctr[u].cur)
    BY <1>1, <1>2, <1>3, Moves DEF Setup
  <1>5. TaskVolume(u) => \E e \in ctr[u].todo :
          Moved(u, "task_open", ctr[u].todo \ {e}, e)
          /\ vol' = [vol EXCEPT ![e.dir] = [TakenOver(u, e.dir) EXCEPT !.mode = "closed"]]
    BY <1>1, <1>2, <1>3, Moves DEF TaskVolume
  <1>6. TaskOpen(u) => Moved(u, "task", ctr[u].todo, NoEntry)
    BY <1>1, <1>3, Moves DEF TaskOpen
  <1>7. TasksDone(u) => Moved(u, "submit", ctr[u].env.NB_SUBMITS, ctr[u].cur) /\ ctr[u].todo = {}
    BY <1>1, <1>2, <1>3, Moves DEF TasksDone, RoundDone
  <1>8. SubmitVolume(u) => \E e \in ctr[u].todo :
          Takes(u, e.dir) /\ Moved(u, "submit_open", ctr[u].todo \ {e}, e)
          /\ vol' = [vol EXCEPT ![e.dir] = TakenOver(u, e.dir)]
    BY <1>1, <1>2, <1>3, Moves DEF SubmitVolume
  <1>9. SubmitOpen(u) => Moved(u, "submit", ctr[u].todo, NoEntry)
    BY <1>1, <1>3, Moves DEF SubmitOpen
  <1>10. SubmitAsItIs(u) => \E e \in ctr[u].todo :
          Moved(u, "submit", ctr[u].todo \ {e}, ctr[u].cur) /\ Link(u, e)
    BY <1>1, <1>2, <1>3, Moves DEF SubmitAsItIs
  <1>11. SubmitsDone(u) => Moved(u, "personal", ctr[u].env.NB_PRSNALS, ctr[u].cur) /\ ctr[u].todo = {}
    BY <1>1, <1>2, <1>3, Moves DEF SubmitsDone, RoundDone
  <1>12. PersonalVolume(u) => \E e \in ctr[u].todo :
          Moved(u, "personal", ctr[u].todo \ {e}, ctr[u].cur) /\ Link(u, e)
          /\ personal' = [personal EXCEPT ![HomeOf(u)] = @ \cup {e.dir}]
    BY <1>1, <1>2, <1>3, Moves DEF PersonalVolume
  <1>13. PersonalsDone(u) => Moved(u, "ready", {}, ctr[u].cur) /\ ctr[u].todo = {}
    BY <1>1, <1>2, <1>3, Moves DEF PersonalsDone, RoundDone
  <1>14. Exec(u) => Moved(u, "run", ctr[u].todo, ctr[u].cur)
    BY <1>1, <1>3, Moves DEF Exec
  <1> QED BY <1>4, <1>5, <1>6, <1>7, <1>8, <1>9, <1>10, <1>11, <1>12, <1>13, <1>14

-------------------------------------------------------------------------------
(* Base is inductive. *)

LEMMA InitBase == Init => Base
  <1> SUFFICES ASSUME Init PROVE Base
    OBVIOUS
  <1>1. TypeOK
    <2>1. spawner \in [User -> Spawner]
      BY NewSpawnerType DEF Init
    <2>2. ctr \in [User -> Container]
      BY NoContainerType DEF Init, ShInit
    <2>3. DirsOK
      BY DEF Init, ShInit, DirsOK, Absentees, Absent, Made, Root, VolState
    <2> QED BY <2>1, <2>2, <2>3 DEF TypeOK, DirsOK
  <1>2. Phases
    BY NewSpawnerType DEF Init, Phases
  <1>3. Launched /\ Rounds
    BY NoContainerType DEF Init, ShInit, Launched, Rounds
  <1> QED BY <1>1, <1>2, <1>3 DEF Base

\* A spawner object moves and no container does.
LEMMA SpawnerBase ==
  ASSUME Base, UNCHANGED ctr, DirsOK', spawner' \in [User -> Spawner],
         \A v \in User : spawner'[v].pc \in {"start", "mkdir", "chown", "create"} =>
           ctr[v].pc = "none" /\ spawner'[v].set \in Hooks(v)
  PROVE  Base'
  <1>1. TypeOK'
    BY DEF Base, TypeOK, DirsOK
  <1>2. Phases'
    BY DEF Phases
  <1>3. Launched' /\ Rounds'
    BY DEF Base, Launched, Rounds
  <1> QED BY <1>1, <1>2, <1>3 DEF Base

\* One spawner object moves.
LEMMA OneSpawner ==
  ASSUME Base, UNCHANGED ctr, DirsOK', NEW u \in User, NEW sp \in Spawner,
         spawner' = [spawner EXCEPT ![u] = sp],
         sp.pc \in {"start", "mkdir", "chown", "create"} => ctr[u].pc = "none" /\ sp.set \in Hooks(u)
  PROVE  Base'
  <1>1. spawner \in [User -> Spawner]
    BY DEF Base, TypeOK
  <1>2. spawner' \in [User -> Spawner] /\ spawner'[u] = sp /\ \A v \in User : v # u => spawner'[v] = spawner[v]
    BY <1>1
  <1>3. ASSUME NEW v \in User, spawner'[v].pc \in {"start", "mkdir", "chown", "create"}
        PROVE  ctr[v].pc = "none" /\ spawner'[v].set \in Hooks(v)
    BY <1>2, <1>3 DEF Base, Phases
  <1> QED BY <1>2, <1>3, SpawnerBase

LEMMA DirsUnchanged == Base /\ UNCHANGED <<owner, links, strays, files, personal, vol, cut>> => DirsOK'
  BY DEF Base, TypeOK, DirsOK

LEMMA LaunchBase == ASSUME Base, NEW u \in User, Launch(u) PROVE Base'
  <1>1. PICK l \in Posts[u] : spawner' = [spawner EXCEPT ![u] = Hooked(l)]
    BY DEF Launch
  <1>2. ctr[u].pc = "none" /\ UNCHANGED ctr /\ DirsOK'
    BY DirsUnchanged DEF Launch, shVars
  <1>3. CASE HookRaises(l)
    <2>1. Hooked(l) = NewSpawner
      BY <1>3 DEF Hooked
    <2> QED BY <1>1, <1>2, <2>1, NewSpawnerType, OneSpawner
  <1>4. CASE ~HookRaises(l)
    <2>1. userdata_hook(l) \in Hooks(u)
      BY <1>4 DEF Hooks
    <2>2. userdata_hook(l) \in Settings
      BY <2>1, HooksAreSettings
    <2>3. Hooked(l) \in Spawner /\ Hooked(l).pc = "start" /\ Hooked(l).set = userdata_hook(l)
      BY <1>4, <2>2, NewSpawnerType DEF Hooked, Spawner
    <2> QED BY <1>1, <1>2, <2>1, <2>3, OneSpawner
  <1> QED BY <1>3, <1>4

LEMMA HubBase == ASSUME Base, NEW u \in User, HubStep(u) PROVE Base'
  <1>0. TypeOK
    BY DEF Base
  <1>1. spawner[u] \in Spawner /\ spawner[u].set \in Settings /\ spawner[u].dir \in HomeDirs
    BY <1>0, Fields
  <1>2. /\ spawner[u].pc \in {"start", "mkdir", "chown", "create"} =>
             ctr[u].pc = "none" /\ spawner[u].set \in Hooks(u)
        /\ HostHome(u) \in Home
    BY <1>1, IdsAreNumbers DEF Base, Phases, HostHome, homedir, Home
  <1>3. CASE Start(u)
    <2>1. /\ [spawner[u] EXCEPT !.pc = "mkdir"] \in Spawner
          /\ [spawner[u] EXCEPT !.pc = "mkdir"].set = spawner[u].set
      BY <1>1 DEF Spawner
    <2>2. Started(spawner[u]) \in Spawner
          /\ (Started(spawner[u]) = NewSpawner \/ Started(spawner[u]).set = spawner[u].set)
      BY <2>1, NewSpawnerType DEF Started
    <2> QED BY <1>2, <1>3, <2>2, NewSpawnerType, DirsUnchanged, OneSpawner DEF Start, shVars
  <1>4. CASE MakeDir(u) /\ Missing(HostHome(u)) # {}
    <2> DEFINE d == First(Missing(HostHome(u)))
    <2>1. d \in HomeDirs
      BY DEF First, HomeDirs
    <2>2. owner' = [owner EXCEPT ![HostHome(u)][d] = Root]
      BY <1>4 DEF MakeDir
    <2>3. owner' \in [Home -> [HomeDirs -> Int]]
      BY <1>0, <1>2, <2>1, <2>2 DEF TypeOK, Root
    <2>4. DirsOK'
      BY <1>0, <1>4, <2>3 DEF TypeOK, DirsOK, MakeDir
    <2> DEFINE sp == [spawner[u] EXCEPT !.pc = "chown", !.dir = d]
    <2>5. sp \in Spawner /\ sp.set = spawner[u].set
      BY <1>1, <2>1 DEF Spawner
    <2>6. spawner' = [spawner EXCEPT ![u] = sp]
      BY <1>0, <1>4 DEF MakeDir, TypeOK
    <2>7. spawner[u].pc = "mkdir" /\ UNCHANGED ctr
      BY <1>4 DEF MakeDir
    <2> QED BY <1>2, <2>4, <2>5, <2>6, <2>7, OneSpawner
  <1>5. CASE MakeDir(u) /\ Missing(HostHome(u)) = {}
    <2> DEFINE sp == [spawner[u] EXCEPT !.pc = "create"]
    <2>1. sp \in Spawner /\ sp.set = spawner[u].set
      BY <1>1 DEF Spawner
    <2>2. spawner' = [spawner EXCEPT ![u] = sp]
      BY <1>0, <1>5 DEF MakeDir, TypeOK
    <2>3. spawner[u].pc = "mkdir" /\ UNCHANGED <<ctr, owner, links, strays, files, personal, vol, cut>>
      BY <1>5 DEF MakeDir
    <2> QED BY <1>2, <2>1, <2>2, <2>3, DirsUnchanged, OneSpawner
  <1>6. CASE ChownDir(u)
    <2> DEFINE sp == [spawner[u] EXCEPT !.pc = "mkdir", !.dir = "home"]
    <2>1. sp \in Spawner /\ sp.set = spawner[u].set
      BY <1>1 DEF Spawner, HomeDirs
    <2>2. spawner' = [spawner EXCEPT ![u] = sp]
      BY <1>0, <1>6 DEF ChownDir, TypeOK
    <2>3. owner[HostHome(u)][spawner[u].dir] \in Int
      BY <1>0, <1>1, <1>2 DEF TypeOK
    <2>4. Chowned(owner[HostHome(u)][spawner[u].dir], user_id) \in Int
      BY <2>3 DEF Chowned, user_id
    <2>5. owner' \in [Home -> [HomeDirs -> Int]]
      BY <1>0, <1>1, <1>2, <1>6, <2>4 DEF ChownDir, TypeOK
    <2>6. DirsOK'
      BY <1>0, <1>6, <2>5 DEF TypeOK, DirsOK, ChownDir
    <2>7. spawner[u].pc = "chown" /\ UNCHANGED ctr
      BY <1>6 DEF ChownDir
    <2> QED BY <1>2, <2>1, <2>2, <2>6, <2>7, OneSpawner
  <1>7. CASE Create(u) /\ NameRefused(spawner[u].set)
    <2>1. spawner' = [spawner EXCEPT ![u] = NewSpawner]
          /\ UNCHANGED <<ctr, owner, links, strays, files, personal, vol, cut>>
      BY <1>7 DEF Create
    <2> QED BY <2>1, NewSpawnerType, DirsUnchanged, OneSpawner
  <1>8. CASE Create(u) /\ ~NameRefused(spawner[u].set)
    <2> DEFINE c == NewContainer(u, spawner[u].set)
    <2>1. c \in Container /\ c.pc = "setup" /\ c.env = get_env(u, spawner[u].set)
          /\ c.mounts = Mounts(u, spawner[u].set)
      BY <1>1, NewContainerType
    <2> HIDE DEF c
    <2>2. spawner' = [spawner EXCEPT ![u] = Up] /\ ctr' = [ctr EXCEPT ![u] = c]
      BY <1>8 DEF Create, c
    <2>3. spawner[u].pc = "create" /\ UNCHANGED <<owner, links, strays, files, personal, vol, cut>>
      BY <1>8 DEF Create
    <2>4. /\ ctr' \in [User -> Container] /\ ctr'[u] = c /\ \A v \in User : v # u => ctr'[v] = ctr[v]
          /\ spawner' \in [User -> Spawner] /\ spawner'[u].pc = "up"
          /\ \A v \in User : v # u => spawner'[v] = spawner[v]
      BY <1>0, <2>1, <2>2, NewSpawnerType DEF TypeOK
    <2>5. TypeOK'
      BY <2>3, <2>4, DirsUnchanged DEF TypeOK, DirsOK
    <2>6. Phases'
      BY <2>4 DEF Base, Phases
    <2>7. Launched'
      BY <1>2, <2>1, <2>3, <2>4 DEF Base, Launched
    <2>8. Rounds'
      BY <2>1, <2>4 DEF Base, Rounds
    <2> QED BY <2>5, <2>6, <2>7, <2>8 DEF Base
  <1>9. CASE Notice(u)
    BY <1>9, NewSpawnerType, DirsUnchanged, OneSpawner DEF Notice, shVars
  <1> QED BY <1>3, <1>4, <1>5, <1>6, <1>7, <1>8, <1>9 DEF HubStep, Create

LEMMA CrashBase == ASSUME Base, HubCrash PROVE Base'
  <1>1. spawner' \in [User -> Spawner]
    BY NewSpawnerType DEF HubCrash, AfterCrash
  <1>2. \A v \in User : spawner'[v].pc \in {"idle", "up"}
    BY NewSpawnerType DEF HubCrash, AfterCrash
  <1> QED BY <1>1, <1>2, DirsUnchanged, SpawnerBase DEF HubCrash, shVars

\* The script.
LEMMA ScriptKeepsBase == ASSUME Base, NEW u \in User, Script(u), UNCHANGED spawner PROVE Base'
  <1>0. TypeOK /\ ctr[u].pc \in Steps /\ NoEntry = NoEntry
    BY Fields DEF Base
  <1>a. /\ {"task", "task_open", "submit", "submit_open", "personal", "ready", "run"} \subseteq Steps
        /\ HomeOf(u) \in Home /\ ctr[u].env.NB_UID \in Int
    BY <1>0, Fields DEF Steps
  <1>b. /\ ctr[u].pc \in {"task", "task_open"} => ctr[u].todo \subseteq ctr[u].env.NB_VOLUMES
        /\ ctr[u].pc \in {"submit", "submit_open"} => ctr[u].todo \subseteq ctr[u].env.NB_SUBMITS
        /\ ctr[u].pc = "personal" => ctr[u].todo \subseteq ctr[u].env.NB_PRSNALS
        /\ ctr[u].pc = "task_open" => ctr[u].cur \in ctr[u].env.NB_VOLUMES
        /\ ctr[u].pc = "submit_open" => ctr[u].cur \in ctr[u].env.NB_SUBMITS
    BY DEF Base, Rounds
  <1>c. ctr[u].pc # "none" =>
          /\ \A e \in ctr[u].env.NB_VOLUMES : e.dir \in Dir /\ e.show.name \in Name
          /\ \A e \in ctr[u].env.NB_SUBMITS : e.dir \in Dir /\ e.show.name \in Name
          /\ \A e \in ctr[u].env.NB_PRSNALS : e.dir \in Dir /\ e.show.name \in Name
    BY ListsOf
  <1>1. CASE Setup(u)
    <2>1. owner[HomeOf(u)] \in [HomeDirs -> Int]
      BY <1>0, <1>a DEF TypeOK
    <2>2. MakeWork(TakeHome(owner[HomeOf(u)], ctr[u].env.NB_UID), ctr[u].env.NB_UID) \in [HomeDirs -> Int]
      BY <1>0, <1>a, <2>1, SetupTypes
    <2>3. owner' \in [Home -> [HomeDirs -> Int]] /\ links' \in [Home -> SUBSET ((Name \cup Dir) \X Dir)]
      BY <1>0, <1>1, <2>2 DEF Setup, TypeOK, Cleaned
    <2>4. DirsOK'
      BY <1>0, <1>1, <2>3 DEF Setup, TypeOK, DirsOK
    <2>5. RoundOK(ctr[u].env, "task", ctr[u].env.NB_VOLUMES, ctr[u].cur)
      BY DEF RoundOK
    <2>6. Moved(u, "task", ctr[u].env.NB_VOLUMES, ctr[u].cur) /\ ctr[u].pc # "none"
      BY <1>1, ScriptSteps DEF Setup
    <2> QED BY <1>a, <2>4, <2>5, <2>6, ScriptBase
  <1>2. CASE TaskVolume(u)
    <2>1. PICK e \in ctr[u].todo :
            /\ Moved(u, "task_open", ctr[u].todo \ {e}, e)
            /\ vol' = [vol EXCEPT ![e.dir] = [TakenOver(u, e.dir) EXCEPT !.mode = "closed"]]
      BY <1>2, ScriptSteps
    <2>2. ctr[u].pc = "task" /\ UNCHANGED <<owner, links, strays, files, personal, cut>>
      BY <1>2 DEF TaskVolume
    <2>3. e \in ctr[u].env.NB_VOLUMES /\ e.dir \in Dir /\ RoundOK(ctr[u].env, "task_open", ctr[u].todo \ {e}, e)
      BY <1>b, <1>c, <2>2 DEF RoundOK
    <2>4. vol' \in [Dir -> VolState]
      BY <1>0, <2>1, <2>3, VolTypes DEF TypeOK
    <2>5. DirsOK'
      BY <1>0, <2>2, <2>4 DEF TypeOK, DirsOK
    <2> QED BY <1>a, <2>1, <2>2, <2>3, <2>5, ScriptBase
  <1>3. CASE TaskOpen(u)
    <2>1. ctr[u].pc = "task_open" /\ UNCHANGED <<owner, files, personal>> /\ Link(u, ctr[u].cur)
      BY <1>3 DEF TaskOpen
    <2>2. /\ ctr[u].cur.dir \in Dir /\ ctr[u].cur.show.name \in Name
          /\ RoundOK(ctr[u].env, "task", ctr[u].todo, NoEntry)
      BY <1>b, <1>c, <2>1 DEF RoundOK
    <2>3. vol' \in [Dir -> VolState] /\ cut' \subseteq Dir
      BY <1>0, <1>3, <2>2, VolTypes DEF TypeOK, TaskOpen
    <2>4. links' \in [Home -> SUBSET ((Name \cup Dir) \X Dir)] /\ strays' \subseteq Dir \X Dir
      BY <1>0, <2>1, <2>2, LinkType
    <2>5. DirsOK'
      BY <1>0, <2>1, <2>3, <2>4 DEF TypeOK, DirsOK
    <2>6. Moved(u, "task", ctr[u].todo, NoEntry)
      BY <1>3, ScriptSteps
    <2> QED BY <1>a, <2>1, <2>2, <2>5, <2>6, ScriptBase
  <1>4. CASE TasksDone(u)
    <2>1. ctr[u].pc = "task" /\ DirsOK'
      BY <1>4, DirsUnchanged DEF TasksDone
    <2>2. RoundOK(ctr[u].env, "submit", ctr[u].env.NB_SUBMITS, ctr[u].cur)
      BY DEF RoundOK
    <2> QED BY <1>a, <1>4, <2>1, <2>2, ScriptSteps, ScriptBase
  <1>5. CASE SubmitVolume(u)
    <2>1. PICK e \in ctr[u].todo :
            /\ Moved(u, "submit_open", ctr[u].todo \ {e}, e)
            /\ vol' = [vol EXCEPT ![e.dir] = TakenOver(u, e.dir)]
      BY <1>5, ScriptSteps
    <2>2. ctr[u].pc = "submit" /\ UNCHANGED <<owner, links, strays, files, personal, cut>>
      BY <1>5 DEF SubmitVolume
    <2>3. e \in ctr[u].env.NB_SUBMITS /\ e.dir \in Dir /\ RoundOK(ctr[u].env, "submit_open", ctr[u].todo \ {e}, e)
      BY <1>b, <1>c, <2>2 DEF RoundOK
    <2>4. vol' \in [Dir -> VolState]
      BY <1>0, <2>1, <2>3, VolTypes DEF TypeOK
    <2>5. DirsOK'
      BY <1>0, <2>2, <2>4 DEF TypeOK, DirsOK
    <2> QED BY <1>a, <2>1, <2>2, <2>3, <2>5, ScriptBase
  <1>6. CASE SubmitOpen(u)
    <2>1. ctr[u].pc = "submit_open" /\ UNCHANGED <<owner, files, personal, cut>> /\ Link(u, ctr[u].cur)
      BY <1>6 DEF SubmitOpen
    <2>2. /\ ctr[u].cur.dir \in Dir /\ ctr[u].cur.show.name \in Name
          /\ RoundOK(ctr[u].env, "submit", ctr[u].todo, NoEntry)
      BY <1>b, <1>c, <2>1 DEF RoundOK
    <2>3. vol' \in [Dir -> VolState]
      BY <1>0, <1>6, <2>2, VolTypes DEF TypeOK, SubmitOpen
    <2>4. links' \in [Home -> SUBSET ((Name \cup Dir) \X Dir)] /\ strays' \subseteq Dir \X Dir
      BY <1>0, <2>1, <2>2, LinkType
    <2>5. DirsOK'
      BY <1>0, <2>1, <2>3, <2>4 DEF TypeOK, DirsOK
    <2>6. Moved(u, "submit", ctr[u].todo, NoEntry)
      BY <1>6, ScriptSteps
    <2> QED BY <1>a, <2>1, <2>2, <2>5, <2>6, ScriptBase
  <1>7. CASE SubmitAsItIs(u)
    <2>1. PICK e \in ctr[u].todo : Moved(u, "submit", ctr[u].todo \ {e}, ctr[u].cur) /\ Link(u, e)
      BY <1>7, ScriptSteps
    <2>2. ctr[u].pc = "submit" /\ UNCHANGED <<owner, files, personal, vol, cut>>
      BY <1>7 DEF SubmitAsItIs
    <2>3. /\ e.dir \in Dir /\ e.show.name \in Name
          /\ RoundOK(ctr[u].env, "submit", ctr[u].todo \ {e}, ctr[u].cur)
      BY <1>b, <1>c, <2>2 DEF RoundOK
    <2>4. links' \in [Home -> SUBSET ((Name \cup Dir) \X Dir)] /\ strays' \subseteq Dir \X Dir
      BY <1>0, <2>1, <2>3, LinkType
    <2>5. DirsOK'
      BY <1>0, <2>2, <2>4 DEF TypeOK, DirsOK
    <2> QED BY <1>a, <2>1, <2>2, <2>3, <2>5, ScriptBase
  <1>8. CASE SubmitsDone(u)
    <2>1. ctr[u].pc = "submit" /\ DirsOK'
      BY <1>8, DirsUnchanged DEF SubmitsDone
    <2>2. RoundOK(ctr[u].env, "personal", ctr[u].env.NB_PRSNALS, ctr[u].cur)
      BY DEF RoundOK
    <2> QED BY <1>a, <1>8, <2>1, <2>2, ScriptSteps, ScriptBase
  <1>9. CASE PersonalVolume(u)
    <2>1. PICK e \in ctr[u].todo :
            /\ Moved(u, "personal", ctr[u].todo \ {e}, ctr[u].cur) /\ Link(u, e)
            /\ personal' = [personal EXCEPT ![HomeOf(u)] = @ \cup {e.dir}]
      BY <1>9, ScriptSteps
    <2>2. ctr[u].pc = "personal" /\ UNCHANGED <<owner, files, vol, cut>>
      BY <1>9 DEF PersonalVolume
    <2>3. /\ e.dir \in Dir /\ e.show.name \in Name
          /\ RoundOK(ctr[u].env, "personal", ctr[u].todo \ {e}, ctr[u].cur)
      BY <1>b, <1>c, <2>2 DEF RoundOK
    <2>4. links' \in [Home -> SUBSET ((Name \cup Dir) \X Dir)] /\ strays' \subseteq Dir \X Dir
      BY <1>0, <2>1, <2>3, LinkType
    <2>5. personal' \in [Home -> SUBSET Dir]
      BY <1>0, <1>a, <2>1, <2>3 DEF TypeOK
    <2>6. DirsOK'
      BY <1>0, <2>2, <2>4, <2>5 DEF TypeOK, DirsOK
    <2> QED BY <1>a, <2>1, <2>2, <2>3, <2>6, ScriptBase
  <1>10. CASE PersonalsDone(u)
    <2>1. ctr[u].pc = "personal" /\ DirsOK'
      BY <1>10, DirsUnchanged DEF PersonalsDone
    <2>2. RoundOK(ctr[u].env, "ready", {}, ctr[u].cur)
      BY DEF RoundOK
    <2> QED BY <1>a, <1>10, <2>1, <2>2, ScriptSteps, ScriptBase
  <1>11. CASE Exec(u)
    <2>1. ctr[u].pc = "ready" /\ DirsOK'
      BY <1>11, DirsUnchanged DEF Exec
    <2>2. RoundOK(ctr[u].env, "run", ctr[u].todo, ctr[u].cur)
      BY DEF RoundOK
    <2> QED BY <1>a, <1>11, <2>1, <2>2, ScriptSteps, ScriptBase
  <1> QED BY <1>1, <1>2, <1>3, <1>4, <1>5, <1>6, <1>7, <1>8, <1>9, <1>10, <1>11 DEF Script

LEMMA EndBase == ASSUME Base, NEW u \in User, End(u), UNCHANGED spawner PROVE Base'
  <1>1. /\ ctr' \in [User -> Container] /\ ctr'[u].pc = "none"
        /\ \A v \in User : v # u => ctr'[v] = ctr[v]
    BY NoContainerType DEF Base, TypeOK, End
  <1>2. CutOff(u) \subseteq Dir
    BY ListsOf DEF Base, Rounds, CutOff
  <1>3. TypeOK'
    BY <1>1, <1>2 DEF Base, TypeOK, End
  <1>4. Phases' /\ Launched' /\ Rounds'
    BY <1>1 DEF Base, Phases, Launched, Rounds
  <1> QED BY <1>3, <1>4 DEF Base

LEMMA FileBase == ASSUME Base, NEW u \in User, NEW n \in FileName[u], UserFile(u, n), UNCHANGED spawner PROVE Base'
  <1>0. n \in Show
    BY FileNameAssumption
  <1>1. HomeOf(u) \in Home
    BY Fields DEF Base
  <1>2. files[HomeOf(u)] \in SUBSET Show
    BY <1>1 DEF Base, TypeOK
  <1>3. PICK fs \in SUBSET Show : files' = [files EXCEPT ![HomeOf(u)] = fs]
    <2>1. CASE files' = [files EXCEPT ![HomeOf(u)] = @ \cup {n}]
      <3>1. files[HomeOf(u)] \cup {n} \in SUBSET Show
        BY <1>0, <1>2
      <3> QED BY <2>1, <3>1
    <2>2. CASE files' = [files EXCEPT ![HomeOf(u)] = @ \ {n}]
      <3>1. files[HomeOf(u)] \ {n} \in SUBSET Show
        BY <1>2
      <3> QED BY <2>2, <3>1
    <2> QED BY <2>1, <2>2 DEF UserFile
  <1>4. files' \in [Home -> SUBSET Show]
    BY <1>3 DEF Base, TypeOK
  <1>5. TypeOK'
    BY <1>4 DEF Base, TypeOK, UserFile
  <1>6. Phases' /\ Launched' /\ Rounds'
    BY DEF Base, Phases, Launched, Rounds, UserFile
  <1> QED BY <1>5, <1>6 DEF Base

LEMMA StepBase == Base /\ [Next]_vars => Base'
  <1> SUFFICES ASSUME Base, [Next]_vars PROVE Base'
    OBVIOUS
  <1>1. CASE UNCHANGED vars
    BY <1>1 DEF vars, shVars, Base, TypeOK, Phases, Launched, Rounds, HomeOf
  <1>2. CASE HubCrash
    BY <1>2, CrashBase
  <1>3. ASSUME NEW u \in User,
               \/ Launch(u) \/ HubStep(u)
               \/ Script(u) /\ UNCHANGED spawner
               \/ End(u) /\ UNCHANGED spawner
               \/ \E n \in FileName[u] : UserFile(u, n) /\ UNCHANGED spawner
        PROVE  Base'
    BY <1>3, LaunchBase, HubBase, ScriptKeepsBase, EndBase, FileBase
  <1> QED BY <1>1, <1>2, <1>3 DEF Next, Progress

LEMMA AlwaysBase == Spec => []Base
  BY InitBase, StepBase, PTL DEF Spec

\* Every variable keeps to its type.
THEOREM TypesAreKept == Spec => []TypeOK
  <1>1. Base => TypeOK
    BY DEF Base
  <1> QED BY <1>1, AlwaysBase, PTL

-------------------------------------------------------------------------------
(* A step is one of a script, the end of a container, the user's, or one   *)
(* that the volumes and the running containers do not notice.              *)

Quiet ==
  /\ \A v \in User : ctr'[v] = ctr[v] \/ (ctr[v].pc = "none" /\ ctr'[v].pc = "setup")
  /\ \A v \in User : ctr[v].pc # "none" => owner'[HomeOf(v)] = owner[HomeOf(v)]
  /\ UNCHANGED <<links, strays, files, personal, vol, cut>>

LEMMA HubIsQuiet == ASSUME Base, NEW u \in User, Launch(u) \/ HubStep(u) PROVE Quiet
  <1>1. CASE Launch(u) \/ Start(u) \/ Notice(u)
    BY <1>1 DEF Launch, Start, Notice, shVars, Quiet
  <1>2. CASE MakeDir(u) \/ ChownDir(u)
    <2>1. ctr[u].pc = "none" /\ UNCHANGED <<ctr, links, strays, files, personal, vol, cut>>
      BY <1>2 DEF Base, Phases, MakeDir, ChownDir
    <2>2. \A h \in Home : h # HostHome(u) => owner'[h] = owner[h]
      BY <1>2 DEF Base, TypeOK, MakeDir, ChownDir
    <2>3. ASSUME NEW v \in User, ctr[v].pc # "none" PROVE owner'[HomeOf(v)] = owner[HomeOf(v)]
      <3>1. v # u /\ HomeOf(v) \in Home
        BY <2>1, <2>3, Fields DEF Base
      <3>2. HomeOf(v) # HostHome(u)
        BY <3>1 DEF HomeOf, HostHome, homedir
      <3> QED BY <2>2, <3>1, <3>2
    <2> QED BY <2>1, <2>3 DEF Quiet
  <1>3. CASE Create(u)
    <2>1. ctr[u].pc = "none" /\ spawner[u].set \in Settings
          /\ UNCHANGED <<owner, links, strays, files, personal, vol, cut>>
      BY <1>3, Fields DEF Base, Phases, Create
    <2>2. NewContainer(u, spawner[u].set).pc = "setup"
      BY <2>1, NewContainerType
    <2>3. \A v \in User : ctr'[v] = ctr[v] \/ (ctr[v].pc = "none" /\ ctr'[v].pc = "setup")
      BY <1>3, <2>1, <2>2 DEF Base, TypeOK, Create
    <2> QED BY <2>1, <2>3 DEF Quiet
  <1> QED BY <1>1, <1>2, <1>3 DEF HubStep

LEMMA Kinds ==
  Base /\ [Next]_vars =>
    Quiet \/ \E u \in User : Script(u) \/ End(u) \/ \E n \in FileName[u] : UserFile(u, n)
  <1> SUFFICES ASSUME Base, [Next]_vars
               PROVE  Quiet \/ \E u \in User : Script(u) \/ End(u) \/ \E n \in FileName[u] : UserFile(u, n)
    OBVIOUS
  <1>1. HubCrash \/ UNCHANGED vars => Quiet
    BY DEF HubCrash, vars, shVars, Quiet
  <1> QED BY <1>1, HubIsQuiet DEF Next, Progress

\* The user's steps do not touch containers and volumes.
LEMMA UserFileVols ==
  ASSUME NEW u \in User, NEW n \in FileName[u], UserFile(u, n)
  PROVE  UNCHANGED <<ctr, owner, links, strays, personal, vol, cut>> /\ ctr[u].pc = "run"
  BY DEF UserFile

LEMMA EndSteps ==
  ASSUME Base, NEW u \in User, End(u)
  PROVE  /\ ctr'[u].pc = "none" /\ \A v \in User : v # u => ctr'[v] = ctr[v]
         /\ cut' = cut \cup CutOff(u) /\ UNCHANGED <<owner, links, strays, files, personal, vol>>
  BY NoContainerType DEF Base, TypeOK, End

\* The steps of the script that leave the volumes alone.
LEMMA Bystanders ==
  ASSUME Base, NEW u \in User,
         \/ Setup(u) \/ TasksDone(u) \/ SubmitAsItIs(u) \/ SubmitsDone(u)
         \/ PersonalVolume(u) \/ PersonalsDone(u) \/ Exec(u)
  PROVE  /\ UNCHANGED <<vol, cut>> /\ ctr[u].pc \notin {"none", "task_open", "submit_open"}
         /\ \E pc \in Steps, todo \in SUBSET Entry : Moved(u, pc, todo, ctr[u].cur)
  <1>1. UNCHANGED <<vol, cut>> /\ ctr[u].pc \notin {"none", "task_open", "submit_open"}
    BY DEF Setup, TasksDone, SubmitAsItIs, SubmitsDone, PersonalVolume, PersonalsDone, Exec
  <1>2. /\ {"task", "submit", "personal", "ready", "run"} \subseteq Steps
        /\ ctr[u].todo \in SUBSET Entry /\ ctr[u].env.NB_VOLUMES \in SUBSET Entry
        /\ ctr[u].env.NB_SUBMITS \in SUBSET Entry /\ ctr[u].env.NB_PRSNALS \in SUBSET Entry
    BY Fields DEF Base, Steps
  <1>3. \A e : ctr[u].todo \ {e} \in SUBSET Entry
    BY <1>2
  <1> QED BY <1>1, <1>2, <1>3, ScriptSteps

\* A script at another volume stays there.
LEMMA StaysInBetween ==
  ASSUME NEW u \in User, NEW pc, NEW todo, NEW cur, Moved(u, pc, todo, cur),
         NEW q, ctr[u].pc # q, NEW d, InBetween(d, q)
  PROVE  InBetween(d, q)'
  BY DEF Moved, InBetween

-------------------------------------------------------------------------------
(* The modes of the volumes. *)

LEMMA ClosedStep == Base /\ ClosedOnlyInBetween /\ [Next]_vars => ClosedOnlyInBetween'
  <1> SUFFICES ASSUME Base, ClosedOnlyInBetween, [Next]_vars, NEW d \in Dir, vol'[d].mode = "closed"
               PROVE  InBetween(d, "task_open")' \/ d \in cut'
    BY DEF ClosedOnlyInBetween
  <1>0. vol \in [Dir -> VolState]
    BY DEF Base, TypeOK
  <1>1. CASE Quiet
    BY <1>1 DEF ClosedOnlyInBetween, InBetween, Quiet
  <1>2. ASSUME NEW u \in User, NEW n \in FileName[u], UserFile(u, n)
        PROVE  InBetween(d, "task_open")' \/ d \in cut'
    BY <1>2, UserFileVols DEF ClosedOnlyInBetween, InBetween
  <1>3. ASSUME NEW u \in User, End(u)
        PROVE  InBetween(d, "task_open")' \/ d \in cut'
    BY <1>3, EndSteps DEF ClosedOnlyInBetween, InBetween, CutOff
  <1>4. ASSUME NEW u \in User, Script(u)
        PROVE  InBetween(d, "task_open")' \/ d \in cut'
    <2>1. CASE \/ Setup(u) \/ TasksDone(u) \/ SubmitAsItIs(u) \/ SubmitsDone(u)
               \/ PersonalVolume(u) \/ PersonalsDone(u) \/ Exec(u)
      BY <2>1, Bystanders, StaysInBetween DEF ClosedOnlyInBetween
    <2>2. CASE TaskVolume(u)
      <3>1. PICK e \in ctr[u].todo :
              /\ Moved(u, "task_open", ctr[u].todo \ {e}, e)
              /\ vol' = [vol EXCEPT ![e.dir] = [TakenOver(u, e.dir) EXCEPT !.mode = "closed"]]
        BY <2>2, ScriptSteps
      <3>2. ctr[u].pc # "task_open" /\ UNCHANGED cut
        BY <2>2 DEF TaskVolume
      <3>3. CASE d = e.dir
        BY <3>1, <3>3 DEF Moved, InBetween
      <3>4. CASE d # e.dir
        <4>1. vol[d].mode = "closed"
          BY <1>0, <3>1, <3>4
        <4> QED BY <3>1, <3>2, <4>1, StaysInBetween DEF ClosedOnlyInBetween
      <3> QED BY <3>3, <3>4
    <2>3. CASE TaskOpen(u)
      <3> DEFINE o == ctr[u].cur.dir
      <3>1. vol' = [vol EXCEPT ![o] = [vol[o] EXCEPT !.mode = "open"]] /\ cut' = cut \ {o}
        BY <2>3 DEF TaskOpen, ChmodTask
      <3>2. d # o
        <4>1. d = o => vol'[d] = [vol[o] EXCEPT !.mode = "open"]
          BY <1>0, <3>1
        <4>2. vol[d] \in VolState
          BY <1>0
        <4> QED BY <4>1, <4>2 DEF VolState
      <3>3. vol[d].mode = "closed"
        BY <1>0, <3>1, <3>2
      <3>4. \A v \in User : v # u => ctr'[v] = ctr[v]
        BY <2>3, ScriptSteps DEF Moved
      <3>5. InBetween(d, "task_open") => InBetween(d, "task_open")'
        BY <3>2, <3>4 DEF InBetween
      <3> QED BY <3>1, <3>2, <3>3, <3>5 DEF ClosedOnlyInBetween
    <2>4. CASE SubmitVolume(u)
      <3>1. PICK e \in ctr[u].todo :
              /\ Moved(u, "submit_open", ctr[u].todo \ {e}, e)
              /\ vol' = [vol EXCEPT ![e.dir] = TakenOver(u, e.dir)]
        BY <2>4, ScriptSteps
      <3>2. ctr[u].pc # "task_open" /\ UNCHANGED cut
        BY <2>4 DEF SubmitVolume
      <3>3. TakenOver(u, d).mode = vol[d].mode
        BY <1>0 DEF TakenOver, VolState
      <3>4. vol[d].mode = "closed"
        BY <1>0, <3>1, <3>3
      <3> QED BY <3>1, <3>2, <3>4, StaysInBetween DEF ClosedOnlyInBetween
    <2>5. CASE SubmitOpen(u)
      <3> DEFINE o == ctr[u].cur.dir
      <3>1. vol' = [vol EXCEPT ![o] = [vol[o] EXCEPT !.mode = "open"]] /\ UNCHANGED cut /\ ctr[u].pc # "task_open"
        BY <2>5 DEF SubmitOpen, ChmodSubmit
      <3>2. [vol[d] EXCEPT !.mode = "open"].mode = "open"
        BY <1>0 DEF VolState
      <3>3. vol[d].mode = "closed"
        BY <1>0, <3>1, <3>2
      <3>4. Moved(u, "submit", ctr[u].todo, NoEntry)
        BY <2>5, ScriptSteps
      <3> QED BY <3>1, <3>3, <3>4, StaysInBetween DEF ClosedOnlyInBetween
    <2> QED BY <1>4, <2>1, <2>2, <2>3, <2>4, <2>5 DEF Script
  <1> QED BY <1>1, <1>2, <1>3, <1>4, Kinds

\* A task volume without search permission is one that some script is about to
\* open, or whose script was killed: chmod -R 0664 and 2775 of any number of
\* containers do not leave it closed.
THEOREM ClosedIsTemporary == Spec => []ClosedOnlyInBetween
  <1>1. Init => ClosedOnlyInBetween
    BY DEF Init, ShInit, Made, ClosedOnlyInBetween
  <1>2. Base /\ ClosedOnlyInBetween /\ [Next]_vars => ClosedOnlyInBetween'
    BY ClosedStep
  <1> QED BY <1>1, <1>2, AlwaysBase, PTL DEF Spec

LEMMA SubmitStep == Base /\ SubmitIsOpen /\ [Next]_vars => SubmitIsOpen'
  <1> SUFFICES ASSUME Base, SubmitIsOpen, [Next]_vars,
                      NEW d \in Dir, d.kind = "lms_sub_", vol'[d].uid # Root, vol'[d].mode # "open"
               PROVE  InBetween(d, "submit_open")' \/ d \in cut'
    BY DEF SubmitIsOpen
  <1>0. vol \in [Dir -> VolState]
    BY DEF Base, TypeOK
  <1>1. CASE Quiet
    BY <1>1 DEF SubmitIsOpen, InBetween, Quiet
  <1>2. ASSUME NEW u \in User, NEW n \in FileName[u], UserFile(u, n)
        PROVE  InBetween(d, "submit_open")' \/ d \in cut'
    BY <1>2, UserFileVols DEF SubmitIsOpen, InBetween
  <1>3. ASSUME NEW u \in User, End(u)
        PROVE  InBetween(d, "submit_open")' \/ d \in cut'
    BY <1>3, EndSteps DEF SubmitIsOpen, InBetween, CutOff
  <1>4. ASSUME NEW u \in User, Script(u)
        PROVE  InBetween(d, "submit_open")' \/ d \in cut'
    <2>1. CASE \/ Setup(u) \/ TasksDone(u) \/ SubmitAsItIs(u) \/ SubmitsDone(u)
               \/ PersonalVolume(u) \/ PersonalsDone(u) \/ Exec(u)
      BY <2>1, Bystanders, StaysInBetween DEF SubmitIsOpen
    <2>2. CASE TaskVolume(u)
      <3>1. PICK e \in ctr[u].todo :
              /\ Moved(u, "task_open", ctr[u].todo \ {e}, e)
              /\ vol' = [vol EXCEPT ![e.dir] = [TakenOver(u, e.dir) EXCEPT !.mode = "closed"]]
        BY <2>2, ScriptSteps
      <3>2. ctr[u].pc = "task" /\ UNCHANGED cut
        BY <2>2 DEF TaskVolume
      <3>3. e.dir # d
        BY <3>2, ListsOf DEF Base, Rounds
      <3>4. vol'[d] = vol[d]
        BY <1>0, <3>1, <3>3
      <3> QED BY <3>1, <3>2, <3>4, StaysInBetween DEF SubmitIsOpen
    <2>3. CASE TaskOpen(u)
      <3> DEFINE o == ctr[u].cur.dir
      <3>1. ctr[u].pc = "task_open" /\ vol' = [vol EXCEPT ![o] = ChmodTask(vol[o])] /\ cut' = cut \ {o}
        BY <2>3 DEF TaskOpen
      <3>2. o # d
        BY <3>1, ListsOf DEF Base, Rounds
      <3>3. vol'[d] = vol[d] /\ (d \in cut => d \in cut')
        BY <1>0, <3>1, <3>2
      <3>4. Moved(u, "task", ctr[u].todo, NoEntry)
        BY <2>3, ScriptSteps
      <3> QED BY <3>1, <3>3, <3>4, StaysInBetween DEF SubmitIsOpen
    <2>4. CASE SubmitVolume(u)
      <3>1. PICK e \in ctr[u].todo :
              /\ Moved(u, "submit_open", ctr[u].todo \ {e}, e)
              /\ vol' = [vol EXCEPT ![e.dir] = TakenOver(u, e.dir)]
        BY <2>4, ScriptSteps
      <3>2. ctr[u].pc # "submit_open" /\ UNCHANGED cut
        BY <2>4 DEF SubmitVolume
      <3>3. CASE d = e.dir
        BY <3>1, <3>3 DEF Moved, InBetween
      <3>4. CASE d # e.dir
        <4>1. vol'[d] = vol[d]
          BY <1>0, <3>1, <3>4
        <4> QED BY <3>1, <3>2, <4>1, StaysInBetween DEF SubmitIsOpen
      <3> QED BY <3>3, <3>4
    <2>5. CASE SubmitOpen(u)
      <3> DEFINE o == ctr[u].cur.dir
      <3>1. vol' = [vol EXCEPT ![o] = [vol[o] EXCEPT !.mode = "open"]] /\ UNCHANGED cut
        BY <2>5 DEF SubmitOpen, ChmodSubmit
      <3>2. [vol[d] EXCEPT !.mode = "open"].mode = "open"
        BY <1>0 DEF VolState
      <3>3. d # o /\ vol'[d] = vol[d]
        BY <1>0, <3>1, <3>2
      <3>4. \A v \in User : v # u => ctr'[v] = ctr[v]
        BY <2>5, ScriptSteps DEF Moved
      <3>5. InBetween(d, "submit_open") => InBetween(d, "submit_open")'
        BY <3>3, <3>4 DEF InBetween
      <3> QED BY <3>1, <3>3, <3>5 DEF SubmitIsOpen
    <2> QED BY <1>4, <2>1, <2>2, <2>3, <2>4, <2>5 DEF Script
  <1> QED BY <1>1, <1>2, <1>3, <1>4, Kinds

\* A submit volume that a teacher has is open to the students, but for the
\* moment before its chmod, which lasts if the script is killed in it.
THEOREM SubmitOpensUp == Spec => []SubmitIsOpen
  <1>1. Init => SubmitIsOpen
    BY DEF Init, ShInit, Made, SubmitIsOpen
  <1>2. Base /\ SubmitIsOpen /\ [Next]_vars => SubmitIsOpen'
    BY SubmitStep
  <1> QED BY <1>1, <1>2, AlwaysBase, PTL DEF Spec

-------------------------------------------------------------------------------
(* The groups of the volumes. *)

\* Who owns a volume has given it to the teachers' group.
OwnedIsShared == \A d \in Dir : vol[d].uid # Root => vol[d].gid = teacher_gid

\* What a teacher's script has been at is the teachers'.
TasksAreShared ==
  \A u \in User : ctr[u].env.NB_TEACHER /\ ctr[u].pc \notin {"none", "setup"} =>
    \A e \in ctr[u].env.NB_VOLUMES :
      vol[e.dir].gid = teacher_gid \/ (ctr[u].pc \in {"task", "task_open"} /\ e \in ctr[u].todo)

\* A volume changes hands once, from root to a teacher.
LEMMA Hands ==
  ASSUME Base, [Next]_vars, NEW d \in Dir
  PROVE  \/ vol'[d].uid = vol[d].uid /\ vol'[d].gid = vol[d].gid
         \/ vol'[d].gid = teacher_gid
  <1>0. vol \in [Dir -> VolState]
    BY DEF Base, TypeOK
  <1>1. CASE UNCHANGED vol
    BY <1>1
  <1>2. ASSUME NEW u \in User
        PROVE  /\ TakenOver(u, d) \in VolState
               /\ \/ TakenOver(u, d).uid = vol[d].uid /\ TakenOver(u, d).gid = vol[d].gid
                  \/ TakenOver(u, d).gid = teacher_gid
    <2>1. TakenOver(u, d) \in VolState
      BY VolTypes DEF Base
    <2> QED BY <1>0, <2>1 DEF TakenOver, Takes, EGID, VolState
  <1>3. ASSUME NEW u \in User, Script(u)
        PROVE  \/ vol'[d].uid = vol[d].uid /\ vol'[d].gid = vol[d].gid
               \/ vol'[d].gid = teacher_gid
    <2>1. CASE \/ Setup(u) \/ TasksDone(u) \/ SubmitAsItIs(u) \/ SubmitsDone(u)
               \/ PersonalVolume(u) \/ PersonalsDone(u) \/ Exec(u)
      BY <1>1, <2>1, Bystanders
    <2>2. CASE TaskVolume(u)
      <3>1. PICK e \in ctr[u].todo : vol' = [vol EXCEPT ![e.dir] = [TakenOver(u, e.dir) EXCEPT !.mode = "closed"]]
        BY <2>2, ScriptSteps
      <3>2. /\ [TakenOver(u, d) EXCEPT !.mode = "closed"].uid = TakenOver(u, d).uid
            /\ [TakenOver(u, d) EXCEPT !.mode = "closed"].gid = TakenOver(u, d).gid
        BY <1>2 DEF VolState
      <3>3. vol'[d] = [TakenOver(u, d) EXCEPT !.mode = "closed"] \/ vol'[d] = vol[d]
        BY <1>0, <3>1
      <3> QED BY <1>2, <3>2, <3>3
    <2>3. CASE TaskOpen(u) \/ SubmitOpen(u)
      <3>1. vol' = [vol EXCEPT ![ctr[u].cur.dir] = [@ EXCEPT !.mode = "open"]]
        BY <2>3 DEF TaskOpen, SubmitOpen, ChmodTask, ChmodSubmit
      <3>2. vol'[d] = vol[d] \/ vol'[d] = [vol[d] EXCEPT !.mode = "open"]
        BY <1>0, <3>1
      <3> QED BY <1>0, <3>2 DEF VolState
    <2>4. CASE SubmitVolume(u)
      <3>1. PICK e \in ctr[u].todo : vol' = [vol EXCEPT ![e.dir] = TakenOver(u, e.dir)]
        BY <2>4, ScriptSteps
      <3>2. vol'[d] = TakenOver(u, d) \/ vol'[d] = vol[d]
        BY <1>0, <3>1
      <3> QED BY <1>2, <3>2
    <2> QED BY <1>3, <2>1, <2>2, <2>3, <2>4 DEF Script
  <1> QED BY <1>1, <1>3, Kinds, UserFileVols, EndSteps DEF Quiet

LEMMA OwnedStep == Base /\ OwnedIsShared /\ [Next]_vars => OwnedIsShared'
  BY Hands DEF OwnedIsShared

LEMMA SharedStep == Base /\ OwnedIsShared /\ TasksAreShared /\ [Next]_vars => TasksAreShared'
  <1> SUFFICES ASSUME Base, OwnedIsShared, TasksAreShared, [Next]_vars,
                      NEW v \in User, ctr'[v].env.NB_TEACHER, ctr'[v].pc \notin {"none", "setup"},
                      NEW e \in ctr'[v].env.NB_VOLUMES
               PROVE  \/ vol'[e.dir].gid = teacher_gid
                      \/ ctr'[v].pc \in {"task", "task_open"} /\ e \in ctr'[v].todo
    BY DEF TasksAreShared
  <1>0. vol \in [Dir -> VolState]
    BY DEF Base, TypeOK
  <1>1. CASE ctr'[v] = ctr[v]
    <2>1. e.dir \in Dir
      BY <1>1, ListsOf
    <2> QED BY <1>1, <2>1, Hands DEF TasksAreShared
  <1>2. CASE Script(v)
    <2>0. ctr'[v].env = ctr[v].env /\ ctr[v].pc # "none"
      BY <1>2, ScriptSteps DEF Script, Moved, Setup, TaskVolume, TaskOpen, TasksDone, SubmitVolume, SubmitOpen,
         SubmitAsItIs, SubmitsDone, PersonalVolume, PersonalsDone, Exec
    <2>1. e \in ctr[v].env.NB_VOLUMES /\ e.dir \in Dir
      BY <2>0, ListsOf
    <2>2. CASE Setup(v)
      BY <2>0, <2>1, <2>2, ScriptSteps DEF Moved
    <2>3. CASE TaskVolume(v)
      <3>1. PICK f \in ctr[v].todo :
              /\ Moved(v, "task_open", ctr[v].todo \ {f}, f)
              /\ vol' = [vol EXCEPT ![f.dir] = [TakenOver(v, f.dir) EXCEPT !.mode = "closed"]]
        BY <2>3, ScriptSteps
      <3>2. CASE e = f
        <4>1. TakenOver(v, e.dir).gid = teacher_gid /\ TakenOver(v, e.dir) \in VolState
          <5>1. TakenOver(v, e.dir) \in VolState /\ vol[e.dir] \in VolState
            BY <1>0, <2>1, VolTypes DEF Base
          <5>2. CASE Takes(v, e.dir)
            BY <2>0, <5>1, <5>2 DEF TakenOver, EGID, VolState
          <5>3. CASE ~Takes(v, e.dir)
            BY <2>0, <2>1, <5>1, <5>3 DEF TakenOver, Takes, OwnedIsShared
          <5> QED BY <5>2, <5>3
        <4>2. vol'[e.dir] = [TakenOver(v, e.dir) EXCEPT !.mode = "closed"]
          BY <1>0, <2>1, <3>1, <3>2
        <4>3. vol'[e.dir].gid = TakenOver(v, e.dir).gid
          BY <4>1, <4>2 DEF VolState
        <4> QED BY <4>1, <4>3
      <3>3. CASE e # f
        <4>1. vol[e.dir].gid = teacher_gid \/ e \in ctr[v].todo
          BY <2>0, <2>1, <2>3 DEF TasksAreShared, TaskVolume
        <4> QED BY <2>1, <3>1, <3>3, <4>1, Hands DEF Moved
      <3> QED BY <3>2, <3>3
    <2>4. CASE TaskOpen(v)
      BY <2>0, <2>1, <2>4, ScriptSteps, Hands DEF Moved, TaskOpen, TasksAreShared
    <2>5. CASE TasksDone(v)
      BY <2>0, <2>1, <2>5, ScriptSteps, Hands DEF TasksDone, TasksAreShared
    <2>6. CASE \/ SubmitVolume(v) \/ SubmitOpen(v) \/ SubmitAsItIs(v) \/ SubmitsDone(v)
               \/ PersonalVolume(v) \/ PersonalsDone(v) \/ Exec(v)
      <3>1. ctr[v].pc \notin {"none", "setup", "task", "task_open"}
        BY <2>6 DEF SubmitVolume, SubmitOpen, SubmitAsItIs, SubmitsDone, PersonalVolume, PersonalsDone, Exec
      <3>2. vol[e.dir].gid = teacher_gid
        BY <2>0, <2>1, <3>1 DEF TasksAreShared
      <3> QED BY <2>1, <3>2, Hands
    <2> QED BY <1>2, <2>2, <2>3, <2>4, <2>5, <2>6 DEF Script
  <1>3. ASSUME NEW u \in User, Script(u), u # v PROVE ctr'[v] = ctr[v]
    BY <1>3, ScriptSteps DEF Script, Moved
  <1>4. ASSUME NEW u \in User, End(u) PROVE ctr'[v] = ctr[v]
    BY <1>4, EndSteps
  <1> QED BY <1>1, <1>2, <1>3, <1>4, Kinds, UserFileVols DEF Quiet

\* When a teacher's script is done, all task volumes are of the teachers'
\* group, whoever of the teachers came first and in whatever order they went.
THEOREM TeachersMeet == Spec => []TeachersShareTask
  <1> DEFINE Inv == OwnedIsShared /\ TasksAreShared
  <1>1. Init => Inv
    BY NoContainerType DEF Init, ShInit, Made, OwnedIsShared, TasksAreShared
  <1>2. Base /\ Inv /\ [Next]_vars => Inv'
    BY OwnedStep, SharedStep
  <1>3. Inv => TeachersShareTask
    BY DEF TasksAreShared, TeachersShareTask
  <1> HIDE DEF Inv
  <1> QED BY <1>1, <1>2, <1>3, AlwaysBase, PTL DEF Spec

-------------------------------------------------------------------------------
(* The home of each user. *)

\* From the setup on, the home is the user's.
HomesAreUsers ==
  \A u \in User : ctr[u].pc \notin {"none", "setup"} =>
    \A d \in HomeDirs : owner[HomeOf(u)][d] = ctr[u].env.NB_UID

\* From the setup on, the links that ls lists lead into the container's volumes.
LinksAreFresh ==
  \A u \in User : ctr[u].pc \notin {"none", "setup"} =>
    \A l \in links[HomeOf(u)] : l[1] \in Dotted \/ l[2] \in ctr[u].mounts \cup personal[HomeOf(u)]

\* From the setup on, what the script has been at has its name in the work
\* directory taken, by its own link or otherwise.
Unfinished(u) ==
  CASE ctr[u].pc = "task" -> ctr[u].todo \cup ctr[u].env.NB_SUBMITS
    [] ctr[u].pc = "task_open" -> ctr[u].todo \cup {ctr[u].cur} \cup ctr[u].env.NB_SUBMITS
    [] ctr[u].pc = "submit" -> ctr[u].todo
    [] ctr[u].pc = "submit_open" -> ctr[u].todo \cup {ctr[u].cur}
    [] OTHER -> {}

Settled(h, e) == e.show \in files[h] \/ Taken(h, LinkName(e))

NamesAreTaken ==
  \A u \in User : ctr[u].pc \notin {"none", "setup", "run"} =>
    \A e \in ctr[u].env.NB_VOLUMES \cup ctr[u].env.NB_SUBMITS :
      Shown(e, ctr[u].env) /\ e \notin Unfinished(u) => Settled(HomeOf(u), e)

\* A script works in its own home.
LEMMA OwnHome ==
  ASSUME Base, NEW u \in User, Script(u)
  PROVE  /\ ctr[u].pc \notin {"none", "run"} /\ UNCHANGED files
         /\ ctr'[u].env = ctr[u].env /\ ctr'[u].mounts = ctr[u].mounts
         /\ \A h \in Home : h # HomeOf(u) =>
              owner'[h] = owner[h] /\ links'[h] = links[h] /\ personal'[h] = personal[h]
         /\ \A v \in User : v # u => ctr'[v] = ctr[v] /\ HomeOf(v) # HomeOf(u) /\ HomeOf(v) \in Home
  <1>0. /\ owner \in [Home -> [HomeDirs -> Int]] /\ links \in [Home -> SUBSET ((Name \cup Dir) \X Dir)]
        /\ personal \in [Home -> SUBSET Dir]
    BY DEF Base, TypeOK
  <1>1. ctr[u].pc \notin {"none", "run"} /\ UNCHANGED files
    BY DEF Script, Setup, TaskVolume, TaskOpen, TasksDone, SubmitVolume, SubmitOpen, SubmitAsItIs,
           SubmitsDone, PersonalVolume, PersonalsDone, Exec
  <1>2. /\ ctr'[u].env = ctr[u].env /\ ctr'[u].mounts = ctr[u].mounts
        /\ \A v \in User : v # u => ctr'[v] = ctr[v]
    BY ScriptSteps DEF Script, Moved
  <1>3. \A v \in User : v # u => HomeOf(v) # HomeOf(u) /\ HomeOf(v) \in Home
    BY Fields DEF Base, HomeOf
  <1>4. ASSUME NEW h \in Home, h # HomeOf(u)
        PROVE  owner'[h] = owner[h] /\ links'[h] = links[h] /\ personal'[h] = personal[h]
    <2>1. owner'[h] = owner[h]
      BY <1>0, <1>4 DEF Script, Setup, TaskVolume, TaskOpen, TasksDone, SubmitVolume, SubmitOpen, SubmitAsItIs,
           SubmitsDone, PersonalVolume, PersonalsDone, Exec
    <2>2. links'[h] = links[h]
      BY <1>0, <1>4 DEF Script, Setup, TaskVolume, TaskOpen, TasksDone, SubmitVolume, SubmitOpen, SubmitAsItIs,
           SubmitsDone, PersonalVolume, PersonalsDone, Exec, Link
    <2>3. personal'[h] = personal[h]
      BY <1>0, <1>4 DEF Script, Setup, TaskVolume, TaskOpen, TasksDone, SubmitVolume, SubmitOpen, SubmitAsItIs,
           SubmitsDone, PersonalVolume, PersonalsDone, Exec
    <2> QED BY <2>1, <2>2, <2>3
  <1> QED BY <1>1, <1>2, <1>3, <1>4

\* What a step that is not of v's script does to v.
LEMMA Undisturbed ==
  ASSUME Base, [Next]_vars, NEW v \in User, ~Script(v), ctr'[v].pc \notin {"none", "setup"}
  PROVE  /\ ctr'[v] = ctr[v] /\ HomeOf(v)' = HomeOf(v)
         /\ owner'[HomeOf(v)] = owner[HomeOf(v)] /\ links'[HomeOf(v)] = links[HomeOf(v)]
         /\ personal'[HomeOf(v)] = personal[HomeOf(v)]
         /\ ctr[v].pc # "run" => files'[HomeOf(v)] = files[HomeOf(v)]
  <1>1. CASE Quiet
    BY <1>1 DEF Quiet, HomeOf
  <1>2. ASSUME NEW u \in User, End(u)
        PROVE  ctr'[v] = ctr[v] /\ UNCHANGED <<owner, links, strays, files, personal>>
    BY <1>2, EndSteps
  <1>3. ASSUME NEW u \in User, Script(u)
        PROVE  /\ ctr'[v] = ctr[v] /\ owner'[HomeOf(v)] = owner[HomeOf(v)] /\ links'[HomeOf(v)] = links[HomeOf(v)]
               /\ personal'[HomeOf(v)] = personal[HomeOf(v)] /\ UNCHANGED files
    BY <1>3, OwnHome
  <1>4. ASSUME NEW u \in User, NEW n \in FileName[u], UserFile(u, n)
        PROVE  /\ UNCHANGED <<ctr, owner, links, personal>>
               /\ ctr[v].pc # "run" => files'[HomeOf(v)] = files[HomeOf(v)]
    <2>1. UNCHANGED <<ctr, owner, links, personal>> /\ ctr[u].pc = "run"
      BY <1>4, UserFileVols
    <2>2. ASSUME ctr[v].pc # "run" PROVE files'[HomeOf(v)] = files[HomeOf(v)]
      <3>1. HomeOf(u) # HomeOf(v) /\ HomeOf(v) \in Home
        BY <2>1, <2>2, Fields DEF Base, HomeOf
      <3> QED BY <1>4, <3>1 DEF UserFile, Base, TypeOK
    <2> QED BY <2>1, <2>2
  <1>5. ctr'[v] = ctr[v] => HomeOf(v)' = HomeOf(v)
    BY DEF HomeOf
  <1> QED BY <1>1, <1>2, <1>3, <1>4, <1>5, Kinds

LEMMA HomesStep == Base /\ HomesAreUsers /\ [Next]_vars => HomesAreUsers'
  <1> SUFFICES ASSUME Base, HomesAreUsers, [Next]_vars, NEW v \in User, ctr'[v].pc \notin {"none", "setup"},
                      NEW d \in HomeDirs
               PROVE  owner'[HomeOf(v)'][d] = ctr'[v].env.NB_UID
    BY DEF HomesAreUsers
  <1>1. CASE ~Script(v)
    BY <1>1, Undisturbed DEF HomesAreUsers
  <1>2. CASE Script(v)
    <2>1. ctr'[v].env = ctr[v].env /\ HomeOf(v)' = HomeOf(v) /\ ctr[v].pc # "none"
      BY <1>2, OwnHome DEF HomeOf
    <2>2. CASE Setup(v)
      <3>1. HomeOf(v) \in Home /\ ctr[v].env.NB_UID \in Int /\ owner \in [Home -> [HomeDirs -> Int]]
        BY Fields DEF Base, TypeOK
      <3>2. owner[HomeOf(v)] \in [HomeDirs -> Int]
        BY <3>1
      <3>3. MakeWork(TakeHome(owner[HomeOf(v)], ctr[v].env.NB_UID), ctr[v].env.NB_UID)[d] = ctr[v].env.NB_UID
        BY <3>1, <3>2, SetupTypes DEF Base
      <3>4. owner'[HomeOf(v)] = MakeWork(TakeHome(owner[HomeOf(v)], ctr[v].env.NB_UID), ctr[v].env.NB_UID)
        BY <2>2, <3>1 DEF Setup
      <3> QED BY <2>1, <3>3, <3>4
    <2>3. CASE ~Setup(v)
      <3>1. UNCHANGED owner /\ ctr[v].pc # "setup"
        BY <1>2, <2>3 DEF Script, TaskVolume, TaskOpen, TasksDone, SubmitVolume, SubmitOpen, SubmitAsItIs,
           SubmitsDone, PersonalVolume, PersonalsDone, Exec
      <3> QED BY <2>1, <3>1 DEF HomesAreUsers
    <2> QED BY <2>2, <2>3
  <1> QED BY <1>1, <1>2

\* A running notebook server owns its home, its project and its work directory.
THEOREM HomesBelong == Spec => []HomeIsUsers
  <1>1. Init => HomesAreUsers
    BY NoContainerType DEF Init, ShInit, HomesAreUsers
  <1>2. Base /\ HomesAreUsers /\ [Next]_vars => HomesAreUsers'
    BY HomesStep
  <1>3. HomesAreUsers => HomeIsUsers
    BY DEF HomesAreUsers, HomeIsUsers
  <1> QED BY <1>1, <1>2, <1>3, AlwaysBase, PTL DEF Spec

\* The links of a step of the script.
LEMMA LinkSteps ==
  ASSUME Base, NEW v \in User, Script(v), ~Setup(v)
  PROVE  /\ ctr[v].pc # "setup" /\ personal[HomeOf(v)] \subseteq personal'[HomeOf(v)]
         /\ \/ links'[HomeOf(v)] = links[HomeOf(v)]
            \/ \E e : /\ links'[HomeOf(v)] \subseteq links[HomeOf(v)] \cup {<<LinkName(e), e.dir>>}
                      /\ links[HomeOf(v)] \subseteq links'[HomeOf(v)]
                      /\ e.dir \in ctr[v].mounts \cup personal'[HomeOf(v)]
  <1>0. /\ HomeOf(v) \in Home /\ links \in [Home -> SUBSET ((Name \cup Dir) \X Dir)]
        /\ personal \in [Home -> SUBSET Dir]
        /\ ctr[v].pc # "none"
    BY Fields, OwnHome DEF Base, TypeOK
  <1>1. ASSUME NEW e, Link(v, e)
        PROVE  /\ links'[HomeOf(v)] \subseteq links[HomeOf(v)] \cup {<<LinkName(e), e.dir>>}
               /\ links[HomeOf(v)] \subseteq links'[HomeOf(v)]
    BY <1>0, <1>1 DEF Link, Linked
  <1>2. CASE TaskOpen(v) \/ SubmitOpen(v)
    <2>1. Link(v, ctr[v].cur) /\ UNCHANGED personal /\ ctr[v].pc \in {"task_open", "submit_open"}
      BY <1>2 DEF TaskOpen, SubmitOpen
    <2>2. ctr[v].cur.dir \in ctr[v].mounts
      BY <2>1, ListsOf DEF Base, Rounds
    <2> QED BY <1>1, <2>1, <2>2
  <1>3. CASE SubmitAsItIs(v)
    <2>1. PICK e \in ctr[v].todo : Link(v, e)
      BY <1>3, ScriptSteps
    <2>2. UNCHANGED personal /\ ctr[v].pc = "submit"
      BY <1>3 DEF SubmitAsItIs
    <2>3. e.dir \in ctr[v].mounts
      BY <2>2, ListsOf DEF Base, Rounds
    <2> QED BY <1>1, <2>1, <2>2, <2>3
  <1>4. CASE PersonalVolume(v)
    <2>1. PICK e \in ctr[v].todo :
            Link(v, e) /\ personal' = [personal EXCEPT ![HomeOf(v)] = @ \cup {e.dir}]
      BY <1>4, ScriptSteps
    <2>2. personal'[HomeOf(v)] = personal[HomeOf(v)] \cup {e.dir}
      BY <1>0, <2>1
    <2> QED BY <1>1, <1>4, <2>1, <2>2 DEF PersonalVolume
  <1>5. CASE \/ TaskVolume(v) \/ TasksDone(v) \/ SubmitVolume(v) \/ SubmitsDone(v)
             \/ PersonalsDone(v) \/ Exec(v)
    BY <1>5 DEF TaskVolume, TasksDone, SubmitVolume, SubmitsDone, PersonalsDone, Exec
  <1> QED BY <1>2, <1>3, <1>4, <1>5 DEF Script

LEMMA LinksStep == Base /\ LinksAreFresh /\ [Next]_vars => LinksAreFresh'
  <1> SUFFICES ASSUME Base, LinksAreFresh, [Next]_vars, NEW v \in User, ctr'[v].pc \notin {"none", "setup"},
                      NEW l \in links'[HomeOf(v)']
               PROVE  l[1] \in Dotted \/ l[2] \in ctr'[v].mounts \cup personal'[HomeOf(v)']
    BY DEF LinksAreFresh
  <1>1. CASE ~Script(v)
    BY <1>1, Undisturbed DEF LinksAreFresh
  <1>2. CASE Script(v)
    <2>1. ctr'[v].mounts = ctr[v].mounts /\ HomeOf(v)' = HomeOf(v) /\ ctr[v].pc # "none"
      BY <1>2, OwnHome DEF HomeOf
    <2>2. CASE Setup(v)
      <3>1. HomeOf(v) \in Home /\ links \in [Home -> SUBSET ((Name \cup Dir) \X Dir)]
        BY Fields DEF Base, TypeOK
      <3>2. links'[HomeOf(v)] = Cleaned(HomeOf(v))
        BY <2>2, <3>1 DEF Setup
      <3> QED BY <2>1, <3>2 DEF Cleaned
    <2>3. CASE ~Setup(v)
      BY <1>2, <2>1, <2>3, LinkSteps DEF LinksAreFresh
    <2> QED BY <2>2, <2>3
  <1> QED BY <1>1, <1>2

\* The work directory of a running server shows no volume of another launch, but
\* for links that ls does not list.
THEOREM LinksAreMounted == Spec => []LinksLeadToMounts
  <1>1. Init => LinksAreFresh
    BY NoContainerType DEF Init, ShInit, LinksAreFresh
  <1>2. Base /\ LinksAreFresh /\ [Next]_vars => LinksAreFresh'
    BY LinksStep
  <1>3. LinksAreFresh => LinksLeadToMounts
    BY DEF LinksAreFresh, LinksLeadToMounts
  <1> QED BY <1>1, <1>2, <1>3, AlwaysBase, PTL DEF Spec

LEMMA LinkTakes ==
  ASSUME Base, NEW v \in User, NEW e \in Entry, Link(v, e), Shown(e, ctr[v].env), UNCHANGED files,
         HomeOf(v)' = HomeOf(v)
  PROVE  Settled(HomeOf(v), e)'
  <1> DEFINE h == HomeOf(v)
  <1>1. h \in Home /\ links \in [Home -> SUBSET ((Name \cup Dir) \X Dir)]
    BY Fields DEF Base, TypeOK
  <1>2. links'[h] = Linked(h, e, ctr[v].env)
    BY <1>1 DEF Link
  <1>3. Taken(h, LinkName(e)) => Settled(h, e)'
    BY <1>2 DEF Linked, Taken, Settled
  <1>4. CASE LinkRuns(h, e, ctr[v].env) /\ ~Taken(h, LinkName(e))
    <2>1. <<LinkName(e), e.dir>> \in links'[h]
      BY <1>2, <1>4 DEF Linked
    <2> QED BY <2>1 DEF Taken, Settled
  <1>5. CASE ~LinkRuns(h, e, ctr[v].env)
    <2>1. e.show \in Show
      BY DEF Entry
    <2>2. Tested(h, e.show) /\ e.show # [name |-> Here, hidden |-> FALSE]
      BY <1>5 DEF LinkRuns
    <2>3. CASE e.show \in files[h]
      BY <2>3 DEF Settled
    <2>4. CASE ~e.show.hidden /\ Taken(h, e.show.name)
      <3>1. e.show.name # Here
        BY <2>1, <2>2, <2>4 DEF Show
      <3> QED BY <1>3, <2>4, <3>1 DEF LinkName
    <2> QED BY <2>2, <2>3, <2>4 DEF Tested
  <1> QED BY <1>3, <1>4, <1>5

LEMMA NamesStep == Base /\ NamesAreTaken /\ [Next]_vars => NamesAreTaken'
  <1> SUFFICES ASSUME Base, NamesAreTaken, [Next]_vars, NEW v \in User, ctr'[v].pc \notin {"none", "setup", "run"},
                      NEW e \in ctr'[v].env.NB_VOLUMES \cup ctr'[v].env.NB_SUBMITS,
                      Shown(e, ctr'[v].env), e \notin Unfinished(v)'
               PROVE  Settled(HomeOf(v), e)'
    BY DEF NamesAreTaken
  <1>1. CASE ~Script(v)
    <2>1. /\ ctr'[v] = ctr[v] /\ HomeOf(v)' = HomeOf(v)
          /\ links'[HomeOf(v)] = links[HomeOf(v)] /\ files'[HomeOf(v)] = files[HomeOf(v)]
      BY <1>1, Undisturbed
    <2>2. e \notin Unfinished(v)
      BY <2>1 DEF Unfinished
    <2> QED BY <2>1, <2>2 DEF NamesAreTaken, Settled, Taken
  <1>2. CASE Script(v)
    <2>1. /\ ctr'[v].env = ctr[v].env /\ HomeOf(v)' = HomeOf(v) /\ ctr[v].pc \notin {"none", "run"} /\ UNCHANGED files
          /\ e \in Entry
      BY <1>2, OwnHome, ListsOf DEF HomeOf
    <2>2. ASSUME ~Setup(v), e \notin Unfinished(v)
          PROVE  Settled(HomeOf(v), e)'
      <3>1. ctr[v].pc # "setup" /\ links[HomeOf(v)] \subseteq links'[HomeOf(v)]
        BY <1>2, <2>2, LinkSteps
      <3> QED BY <2>1, <2>2, <3>1 DEF NamesAreTaken, Settled, Taken
    <2>3. CASE Setup(v)
      <3>1. ctr'[v].pc = "task" /\ ctr'[v].todo = ctr[v].env.NB_VOLUMES
        BY <2>3, ScriptSteps DEF Moved
      <3> QED BY <2>1, <3>1 DEF Unfinished
    <2>4. CASE TaskVolume(v)
      <3>1. ctr[v].pc = "task" /\ \E f \in ctr[v].todo : Moved(v, "task_open", ctr[v].todo \ {f}, f)
        BY <2>4, ScriptSteps DEF TaskVolume
      <3>2. e \notin Unfinished(v)
        BY <3>1 DEF Moved, Unfinished
      <3>3. ~Setup(v)
        BY <3>1 DEF Setup
      <3> QED BY <2>1, <2>2, <3>2, <3>3
    <2>5. CASE TaskOpen(v) \/ SubmitOpen(v)
      <3>1. /\ ctr[v].pc \in {"task_open", "submit_open"} /\ Link(v, ctr[v].cur)
            /\ ctr[v].pc = "task_open" => Moved(v, "task", ctr[v].todo, NoEntry)
            /\ ctr[v].pc = "submit_open" => Moved(v, "submit", ctr[v].todo, NoEntry)
        BY <2>5, ScriptSteps DEF TaskOpen, SubmitOpen
      <3>2. e = ctr[v].cur \/ e \notin Unfinished(v)
        BY <3>1 DEF Moved, Unfinished
      <3>3. ~Setup(v)
        BY <3>1 DEF Setup
      <3> QED BY <2>1, <2>2, <3>1, <3>2, <3>3, LinkTakes
    <2>6. CASE TasksDone(v)
      <3>1. ctr[v].pc = "task" /\ ctr[v].todo = {} /\ Moved(v, "submit", ctr[v].env.NB_SUBMITS, ctr[v].cur)
        BY <2>6, ScriptSteps DEF TasksDone
      <3>2. e \notin Unfinished(v)
        BY <3>1 DEF Moved, Unfinished
      <3>3. ~Setup(v)
        BY <3>1 DEF Setup
      <3> QED BY <2>1, <2>2, <3>2, <3>3
    <2>7. CASE SubmitVolume(v)
      <3>1. ctr[v].pc = "submit" /\ \E f \in ctr[v].todo : Moved(v, "submit_open", ctr[v].todo \ {f}, f)
        BY <2>7, ScriptSteps DEF SubmitVolume
      <3>2. e \notin Unfinished(v)
        BY <3>1 DEF Moved, Unfinished
      <3>3. ~Setup(v)
        BY <3>1 DEF Setup
      <3> QED BY <2>1, <2>2, <3>2, <3>3
    <2>8. CASE SubmitAsItIs(v)
      <3>1. PICK f \in ctr[v].todo : Moved(v, "submit", ctr[v].todo \ {f}, ctr[v].cur) /\ Link(v, f)
        BY <2>8, ScriptSteps
      <3>2. ctr[v].pc = "submit"
        BY <2>8 DEF SubmitAsItIs
      <3>3. e = f \/ e \notin Unfinished(v)
        BY <3>1, <3>2 DEF Moved, Unfinished
      <3>4. ~Setup(v)
        BY <3>2 DEF Setup
      <3> QED BY <2>1, <2>2, <3>1, <3>3, <3>4, LinkTakes
    <2>9. CASE SubmitsDone(v)
      <3>1. ctr[v].pc = "submit" /\ ctr[v].todo = {}
        BY <2>9, ScriptSteps DEF SubmitsDone
      <3>2. e \notin Unfinished(v) /\ ~Setup(v)
        BY <3>1 DEF Unfinished, Setup
      <3> QED BY <2>1, <2>2, <3>2
    <2>10. CASE PersonalVolume(v) \/ PersonalsDone(v) \/ Exec(v)
      <3>1. ctr[v].pc \in {"personal", "ready"}
        BY <2>10 DEF PersonalVolume, PersonalsDone, Exec
      <3>2. e \notin Unfinished(v) /\ ~Setup(v)
        BY <3>1 DEF Unfinished, Setup
      <3> QED BY <2>1, <2>2, <3>2
    <2> QED BY <1>2, <2>3, <2>4, <2>5, <2>6, <2>7, <2>8, <2>9, <2>10 DEF Script
  <1> QED BY <1>1, <1>2

\* When a container starts its server, every volume that the launch gave to the
\* user is mounted, and linked unless its name, or that with the mark of a
\* hidden volume, belongs to something else.
THEOREM VolumesAreThere == Spec => []MountsAreLinked
  <1>1. Init => NamesAreTaken
    BY NoContainerType DEF Init, ShInit, NamesAreTaken
  <1>2. Base /\ NamesAreTaken /\ [Next]_vars => NamesAreTaken'
    BY NamesStep
  <1>3. Base /\ NamesAreTaken => MountsAreLinked
    <2> SUFFICES ASSUME Base, NamesAreTaken, NEW u \in User, ctr[u].pc = "ready",
                        NEW e \in ctr[u].env.NB_VOLUMES \cup ctr[u].env.NB_SUBMITS, Shown(e, ctr[u].env)
                 PROVE  /\ e.dir \in ctr[u].mounts
                        /\ \/ <<LinkName(e), e.dir>> \in links[HomeOf(u)]
                           \/ {e.show, [name |-> LinkName(e), hidden |-> FALSE]} \cap files[HomeOf(u)] # {}
                           \/ \E l \in links[HomeOf(u)] : l[1] = LinkName(e) /\ l[2] # e.dir
      BY DEF MountsAreLinked
    <2>1. e.dir \in ctr[u].mounts
      BY ListsOf
    <2>2. Settled(HomeOf(u), e)
      BY DEF NamesAreTaken, Unfinished
    <2>3. \A l \in links[HomeOf(u)] : l = <<l[1], l[2]>>
      <3>1. HomeOf(u) \in Home /\ links \in [Home -> SUBSET ((Name \cup Dir) \X Dir)]
        BY Fields DEF Base, TypeOK
      <3>2. links[HomeOf(u)] \subseteq (Name \cup Dir) \X Dir
        BY <3>1
      <3> QED BY <3>2
    <2> QED BY <2>1, <2>2, <2>3 DEF Settled, Taken
  <1> QED BY <1>1, <1>2, <1>3, AlwaysBase, PTL DEF Spec

\* The links inside volumes.  No link is called ".", so that only the test for the
\* mark of a hidden volume lets ln -s run onto a link.
NoneIsHere == \A h \in Home : \A l \in links[h] : l[1] # Here

\* What a step of a script does to the links of all homes and volumes.
LEMMA LinksOfStep ==
  ASSUME Base, NEW u \in User, Script(u)
  PROVE  \/ /\ UNCHANGED strays
            /\ \A h \in Home : links'[h] \subseteq links[h]
         \/ \E e \in ctr[u].env.NB_VOLUMES \cup ctr[u].env.NB_SUBMITS \cup ctr[u].env.NB_PRSNALS :
              /\ strays' = strays \cup Inside(HomeOf(u), e, ctr[u].env, ctr[u].mounts)
              /\ \A h \in Home : links'[h] \subseteq links[h] \cup {<<LinkName(e), e.dir>>}
  <1>1. links \in [Home -> SUBSET ((Name \cup Dir) \X Dir)] /\ HomeOf(u) \in Home /\ ctr[u].pc # "none"
    BY Fields, OwnHome DEF Base, TypeOK
  <1>2. ASSUME NEW e, Link(u, e)
        PROVE  /\ strays' = strays \cup Inside(HomeOf(u), e, ctr[u].env, ctr[u].mounts)
               /\ \A h \in Home : links'[h] \subseteq links[h] \cup {<<LinkName(e), e.dir>>}
    BY <1>1, <1>2 DEF Link, Linked
  <1>3. CASE Setup(u)
    <2>1. links' = [links EXCEPT ![HomeOf(u)] = Cleaned(HomeOf(u))] /\ UNCHANGED strays
      BY <1>3 DEF Setup
    <2> QED BY <1>1, <2>1 DEF Cleaned
  <1>4. CASE TaskOpen(u) \/ SubmitOpen(u)
    BY <1>2, <1>4 DEF Base, Rounds, TaskOpen, SubmitOpen
  <1>5. CASE SubmitAsItIs(u) \/ PersonalVolume(u)
    BY <1>2, <1>5 DEF Base, Rounds, SubmitAsItIs, PersonalVolume
  <1>6. CASE \/ TaskVolume(u) \/ TasksDone(u) \/ SubmitVolume(u) \/ SubmitsDone(u)
             \/ PersonalsDone(u) \/ Exec(u)
    BY <1>6 DEF TaskVolume, TasksDone, SubmitVolume, SubmitsDone, PersonalsDone, Exec
  <1> QED BY <1>3, <1>4, <1>5, <1>6 DEF Script

LEMMA StraysStep == Base /\ NoneIsHere /\ StraysAreHidden /\ [Next]_vars => (NoneIsHere /\ StraysAreHidden)'
  <1> SUFFICES ASSUME Base, NoneIsHere, StraysAreHidden, [Next]_vars PROVE (NoneIsHere /\ StraysAreHidden)'
    OBVIOUS
  <1>1. CASE UNCHANGED <<links, strays>>
    BY <1>1 DEF NoneIsHere, StraysAreHidden
  <1>2. ASSUME NEW u \in User, Script(u) PROVE (NoneIsHere /\ StraysAreHidden)'
    <2>1. CASE UNCHANGED strays /\ \A h \in Home : links'[h] \subseteq links[h]
      BY <2>1 DEF NoneIsHere, StraysAreHidden
    <2>2. ASSUME NEW e \in ctr[u].env.NB_VOLUMES \cup ctr[u].env.NB_SUBMITS \cup ctr[u].env.NB_PRSNALS,
                 strays' = strays \cup Inside(HomeOf(u), e, ctr[u].env, ctr[u].mounts),
                 \A h \in Home : links'[h] \subseteq links[h] \cup {<<LinkName(e), e.dir>>}
          PROVE  (NoneIsHere /\ StraysAreHidden)'
      <3>1. ctr[u].pc # "none" /\ HomeOf(u) \in Home
        BY <1>2, OwnHome, Fields DEF Base
      <3>2. e \in Entry /\ e.dir \in Dir /\ e.show \in Show
        BY <3>1, ListsOf DEF Entry
      <3>3. NoneIsHere'
        <4>1. LinkName(e) # Here
          BY <3>2, FileNameAssumption DEF LinkName
        <4> QED BY <2>2, <4>1 DEF NoneIsHere
      <3>4. PICK s \in Hooks(u) : ctr[u].env = get_env(u, s) /\ ctr[u].mounts = Mounts(u, s)
        BY <3>1 DEF Base, Launched
      <3>5. ASSUME NEW p \in Inside(HomeOf(u), e, ctr[u].env, ctr[u].mounts)
            PROVE  p[1] \in ctr[u].mounts /\ p[2] = e.dir /\ e.show.hidden /\ ctr[u].env.NB_TEACHER
        <4>1. PICK l \in links[HomeOf(u)] :
                /\ p = <<l[2], e.dir>> /\ l[2] \in ctr[u].mounts
                /\ l[1] = e.show.name /\ LinkRuns(HomeOf(u), e, ctr[u].env)
          BY <3>5 DEF Inside
        <4>2. Taken(HomeOf(u), e.show.name) /\ e.show.name # Here
          BY <3>1, <4>1 DEF Taken, NoneIsHere
        <4>3. e.show.hidden
          BY <3>2, <4>1, <4>2 DEF LinkRuns, Tested, Show
        <4> QED BY <4>1, <4>3 DEF LinkRuns, Shown
      <3>6. IsTeacher(u, s) <=> ctr[u].env.NB_TEACHER
        <4>1. IsTeacher(u, s) \in BOOLEAN
          BY DEF IsTeacher
        <4> QED BY <3>4, <4>1 DEF get_env
      <3>7. StraysAreHidden'
        BY <2>2, <3>4, <3>5, <3>6 DEF StraysAreHidden
      <3> QED BY <3>3, <3>7
    <2> QED BY <1>2, <2>1, <2>2, LinksOfStep
  <1> QED BY <1>1, <1>2, Kinds, UserFileVols, EndSteps DEF Quiet

\* Only a launch that hides a volume from the students, and only the script of one
\* of its teachers, leaves a link inside a volume that others share.
THEOREM StraysAreTeachers == Spec => []StraysAreHidden
  <1>1. Init => NoneIsHere /\ StraysAreHidden
    BY DEF Init, ShInit, NoneIsHere, StraysAreHidden
  <1>2. Base /\ NoneIsHere /\ StraysAreHidden /\ [Next]_vars => (NoneIsHere /\ StraysAreHidden)'
    BY StraysStep
  <1> QED BY <1>1, <1>2, AlwaysBase, PTL DEF Spec

\* Where the LMSs give different users different ids, the members of a course
\* who share a directory have different ids on the host.
THEOREM SharersAreDistinct == ASSUME DistinctIds PROVE Spec => []SharersDiffer
  <1>1. Base => SharersDiffer
    <2> SUFFICES ASSUME Base, NEW u \in User, NEW v \in User, u # v, FromHost(u), FromHost(v),
                        NEW d \in ctr[u].mounts \cap ctr[v].mounts
                 PROVE  ctr[u].env.NB_UID # ctr[v].env.NB_UID
      BY DEF SharersDiffer
    <2>1. PICK s \in Hooks(u) : ctr[u].env = get_env(u, s) /\ ctr[u].mounts = Mounts(u, s)
      BY DEF Base, Launched, FromHost
    <2>2. PICK r \in Hooks(v) : ctr[v].env = get_env(v, r) /\ ctr[v].mounts = Mounts(v, r)
      BY DEF Base, Launched, FromHost
    <2>3. d.host = s.host_name /\ d.host = r.host_name
      BY <2>1, <2>2 DEF Mounts, get_volumes_info, VolumeDir
    <2>4. get_userid(u, s) # get_userid(v, r)
      BY <2>3 DEF DistinctIds
    <2> QED BY <2>1, <2>2, <2>4 DEF get_env
  <1> QED BY <1>1, AlwaysBase, PTL
================================================================================
