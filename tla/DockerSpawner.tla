------------------------------ MODULE DockerSpawner ------------------------------
(***************************************************************************)
(* LTIDockerSpawner at work: the hub's spawner object of each user, from   *)
(* the launch to the container, composed with the start scripts of the     *)
(* containers (StartSh).  An LMS posts a launch; the hub calls             *)
(* userdata_hook and start(), which makes the directories of the home on   *)
(* the host and leaves the rest to DockerSpawner.  The hub may crash in    *)
(* between; a container may end at any point.                              *)
(*                                                                         *)
(* A user has one server, and the hub makes a new spawner object for it.   *)
(***************************************************************************)
EXTENDS StartSh

CONSTANT Posts  \* Posts[u]: the launches that LMSs may post for user u

ASSUME PostsAssumption ==
  /\ DOMAIN Posts = User
  /\ \A u \in User : \A l \in Posts[u] : Launchable(l)

VARIABLE spawner  \* per user: the spawner object

vars == <<spawner, shVars>>

\* pc: what the hub does with it; dir: the directory it makes.
Spawner == [pc : {"idle", "start", "mkdir", "chown", "create", "up"}, dir : HomeDirs, set : Settings]

NewSpawner == [pc |-> "idle", dir |-> "home", set |-> init_parameters]
Up == [NewSpawner EXCEPT !.pc = "up"]

Init == ShInit /\ spawner = [u \in User |-> NewSpawner]

-------------------------------------------------------------------------------
(* The hub *)

\* auth_state_hook.  A launch that makes it raise starts nothing.
Hooked(l) == IF HookRaises(l) THEN NewSpawner ELSE [NewSpawner EXCEPT !.set = userdata_hook(l), !.pc = "start"]

Launch(u) ==
  /\ spawner[u].pc = "idle" /\ ctr[u].pc = "none"
  /\ \E l \in Posts[u] : spawner' = [spawner EXCEPT ![u] = Hooked(l)]
  /\ UNCHANGED shVars

\* Mutant: the error of float() is swallowed.
StartedOrNot(sp) == IF StartRaises(sp.set) THEN sp ELSE [sp EXCEPT !.pc = "mkdir"]

\* start(), up to the directories.
Started(sp) == IF StartRaises(sp.set) THEN NewSpawner ELSE [sp EXCEPT !.pc = "mkdir"]

Start(u) ==
  /\ spawner[u].pc = "start"
  /\ spawner' = [spawner EXCEPT ![u] = Started(spawner[u])]
  /\ UNCHANGED shVars

HostHome(u) == homedir(u, spawner[u].set)

Missing(h) == {d \in HomeDirs : owner[h][d] = Absent}
First(ds) == IF "home" \in ds THEN "home" ELSE IF "projects" \in ds THEN "projects" ELSE "works"

\* create_dir, for one directory after the other, from the outermost: it leaves
\* a directory that is there as it is.
MakeDir(u) ==
  /\ spawner[u].pc = "mkdir"
  /\ IF Missing(HostHome(u)) # {}
     THEN /\ owner' = [owner EXCEPT ![HostHome(u)][First(Missing(HostHome(u)))] = Root]
          /\ spawner' = [spawner EXCEPT ![u].pc = "chown", ![u].dir = First(Missing(HostHome(u)))]
     ELSE /\ spawner' = [spawner EXCEPT ![u].pc = "create"]
          /\ UNCHANGED owner
  /\ UNCHANGED <<ctr, links, strays, files, personal, vol, cut>>

\* os.chown(dir, self.user_id, ...): start() has not called get_userid, which
\* sets the attribute, and for chown an id of -1 means: as it is.
user_id == -1
Chowned(old, uid) == IF uid = -1 THEN old ELSE uid

ChownDir(u) ==
  /\ spawner[u].pc = "chown"
  /\ owner' = [owner EXCEPT ![HostHome(u)][spawner[u].dir] = Chowned(@, user_id)]
  /\ spawner' = [spawner EXCEPT ![u].pc = "mkdir", ![u].dir = "home"]
  /\ UNCHANGED <<ctr, links, strays, files, personal, vol, cut>>

\* DockerSpawner.start(): get_env, and a container that the engine may refuse.
\* What the object keeps of the launch is not read again.
Create(u) ==
  LET set == spawner[u].set
  IN  /\ spawner[u].pc = "create"
      /\ IF NameRefused(set)
         THEN spawner' = [spawner EXCEPT ![u] = NewSpawner] /\ UNCHANGED ctr
         ELSE /\ spawner' = [spawner EXCEPT ![u] = Up]
              /\ ctr' = [ctr EXCEPT ![u] = NewContainer(u, set)]
      /\ UNCHANGED <<owner, links, strays, files, personal, vol, cut>>

\* DockerSpawner.poll() and stop().
Notice(u) ==
  /\ spawner[u].pc = "up" /\ ctr[u].pc = "none"
  /\ spawner' = [spawner EXCEPT ![u] = NewSpawner]
  /\ UNCHANGED shVars

\* The spawner objects are new, and what was under way is forgotten.
AfterCrash(sp) == IF sp.pc = "up" THEN Up ELSE NewSpawner

HubCrash ==
  /\ spawner' = [u \in User |-> AfterCrash(spawner[u])]
  /\ UNCHANGED shVars

-------------------------------------------------------------------------------
HubStep(u) == Start(u) \/ MakeDir(u) \/ ChownDir(u) \/ Create(u) \/ Notice(u)

\* The hub works for the user until the container is there, the script after that.
Progress(u) == HubStep(u) \/ (Script(u) /\ UNCHANGED spawner)

Next ==
  \/ \E u \in User :
       \/ Launch(u) \/ Progress(u)
       \/ End(u) /\ UNCHANGED spawner
       \/ \E n \in FileName[u] : UserFile(u, n) /\ UNCHANGED spawner
  \/ HubCrash

\* Hub and scripts run; nobody is obliged to launch, to end, or to crash.
Fairness == \A u \in User : WF_vars(Progress(u))

Spec == Init /\ [][Next]_vars /\ Fairness

-------------------------------------------------------------------------------
(* Properties *)

TypeOK ==
  /\ spawner \in [User -> Spawner]
  /\ ctr \in [User -> Container]
  /\ owner \in [Home -> [HomeDirs -> Int]]
  /\ links \in [Home -> SUBSET ((Name \cup Dir) \X Dir)]
  /\ strays \subseteq Dir \X Dir
  /\ files \in [Home -> SUBSET Show]
  /\ personal \in [Home -> SUBSET Dir]
  /\ vol \in [Dir -> VolState]
  /\ cut \subseteq Dir

\* The notebook server finds its home, project and work directory its own,
\* although start() makes them as root and the ids of a user differ between
\* LMSs: start.sh has the last word.
HomeIsUsers ==
  \A u \in User : ctr[u].pc = "run" =>
    \A d \in HomeDirs : owner[HomeOf(u)][d] = ctr[u].env.NB_UID

\* What the hook makes of the launches that LMSs may post for u; and that an LMS,
\* with the accounts of the host, gives different ids to different users.
Hooks(u) == {userdata_hook(l) : l \in {k \in Posts[u] : ~HookRaises(k)}}
DistinctIds ==
  \A u, v \in User : \A s \in Hooks(u), r \in Hooks(v) :
    u # v /\ s.host_name = r.host_name => get_userid(u, s) # get_userid(v, r)

\* Submissions lie side by side in a directory with the sticky bit: students
\* who meet there must have different ids.  They are made from the ids in the
\* LMS, which two LMSs may both use; but the directory carries the LMS's name.
FromHost(u) == ctr[u].pc # "none"
SharersDiffer ==
  \A u, v \in User :
    u # v /\ FromHost(u) /\ FromHost(v) /\ ctr[u].mounts \cap ctr[v].mounts # {}
      => ctr[u].env.NB_UID # ctr[v].env.NB_UID

\* What the work directory shows is there: no link of an earlier launch
\* survives to lead into a volume that this container does not have, unless its
\* name begins with ".".
LinksLeadToMounts ==
  \A u \in User : ctr[u].pc = "run" =>
    \A l \in links[HomeOf(u)] : l[1] \in Dotted \/ l[2] \in ctr[u].mounts \cup personal[HomeOf(u)]

\* Every volume of the container that its user may see has a link of its own
\* when the script is done, unless its name, or the name with the mark of a
\* hidden volume, belongs to something else.
MountsAreLinked ==
  \A u \in User : ctr[u].pc = "ready" =>
    \A e \in ctr[u].env.NB_VOLUMES \cup ctr[u].env.NB_SUBMITS :
      Shown(e, ctr[u].env) =>
        /\ e.dir \in ctr[u].mounts
        /\ \/ <<LinkName(e), e.dir>> \in links[HomeOf(u)]
           \/ {e.show, [name |-> LinkName(e), hidden |-> FALSE]} \cap files[HomeOf(u)] # {}
           \/ \E l \in links[HomeOf(u)] : l[1] = LinkName(e) /\ l[2] # e.dir

\* What two volumes by one name put into the volume itself, which all share, is
\* the doing of its teachers: a link inside a volume leads to a volume that some
\* teacher's launch hides, and no script of a student makes one.
StraysAreHidden ==
  \A p \in strays : \E u \in User : \E s \in Hooks(u) :
    /\ IsTeacher(u, s) /\ p[1] \in Mounts(u, s)
    /\ \E e \in get_env(u, s).NB_VOLUMES \cup get_env(u, s).NB_SUBMITS \cup get_env(u, s).NB_PRSNALS :
         e.dir = p[2] /\ e.show.hidden

\* A task volume is unsearchable only while a script is between its two chmod
\* commands, or if one was killed there.
InBetween(d, pc) == \E u \in User : ctr[u].pc = pc /\ ctr[u].cur.dir = d
ClosedOnlyInBetween ==
  \A d \in Dir : vol[d].mode = "closed" => InBetween(d, "task_open") \/ d \in cut

\* A submit volume that belongs to a teacher is open to the students, unless
\* the script that took it over is at work or was killed before the chmod.
SubmitIsOpen ==
  \A d \in Dir : d.kind = "lms_sub_" /\ vol[d].uid # Root =>
    vol[d].mode = "open" \/ InBetween(d, "submit_open") \/ d \in cut

\* Whoever of the teachers came first: when a teacher's script is done, all
\* task volumes are of the teachers' group.
TeachersShareTask ==
  \A u \in User : ctr[u].pc = "run" /\ ctr[u].env.NB_TEACHER =>
    \A e \in ctr[u].env.NB_VOLUMES : vol[e.dir].gid = teacher_gid

\* A launch leads to a running notebook or back to an idle spawner.
StartIsAnswered ==
  \A u \in User : (spawner[u].pc = "start") ~> (ctr[u].pc = "run" \/ spawner[u].pc = "idle")
===============================================================================
