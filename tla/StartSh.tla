--------------------------------- MODULE StartSh ---------------------------------
(***************************************************************************)
(* bin/start.sh, the entry point of the notebook containers.  It runs as   *)
(* root, on directories that outlive the container: the user's home, which *)
(* comes from the host, and volumes shared by the members of a course.     *)
(* Several containers run it at the same time, and any of them may be      *)
(* killed between two of its commands.                                     *)
(*                                                                         *)
(* What the script does inside its container only (accounts, sudo) is left *)
(* out: it dies with it.  "chown ... || true" never fails for root.        *)
(***************************************************************************)
EXTENDS LaunchSettings

CONSTANTS
  Here,     \* the name ".", which stands for the volume's own
  Dotted,   \* the names that begin with ".", which ls does not list
  FileName  \* FileName[u]: names that the user gives to own files (a bound)

\* A name may have the mark of a hidden volume, "-", in front.
ASSUME FileNameAssumption ==
  Here \in Dotted \ Dir /\ Dotted \subseteq Name /\ FileName \in [User -> SUBSET Show]

VARIABLES
  ctr,      \* per user: the container
  owner,    \* per home: who owns it, its project directory and its work directory
  links,    \* per home: the links <<name, directory>> in the work directory
  strays,   \* the links <<volume, directory>> inside volumes
  files,    \* per home: the names of other files of the user in the work directory
  personal, \* per home: the personal volumes, which are directories of the home
  vol,      \* per volume: owner, group and mode
  cut       \* history: volumes at which a script was killed between two commands

shVars == <<ctr, owner, links, strays, files, personal, vol, cut>>

Root == 0
Absent == -2  \* no such directory

Home == Group \X User
HomeDirs == {"home", "projects", "works"}
Absentees == [d \in HomeDirs |-> Absent]

\* A volume that the engine has made belongs to root and only root may write.
\* A task volume is searchable, or "closed" while its mode is 0664.
VolState == [uid : Int, gid : Nat, mode : {"made", "closed", "open"}]
Made == [uid |-> Root, gid |-> Root, mode |-> "made"]

\* pc: where the script is; todo: the volumes of this round still to do; cur:
\* the one it works on; env, mounts, framers and traits as start() sets them.
Steps == {"none", "setup", "task", "task_open", "submit", "submit_open", "personal", "ready", "run"}

NoEntry == [dir |-> [kind |-> "lms_vol_", vol |-> Blank, course |-> NoCourse, host |-> Localhost],
            show |-> [name |-> Blank, hidden |-> FALSE]]

NoEnv == [NB_UID |-> Root, NB_GID |-> Root, NB_GROUP |-> default_group, NB_TEACHER |-> FALSE,
          NB_OPTION |-> Blank, NB_VOLUMES |-> {}, NB_SUBMITS |-> {}, NB_PRSNALS |-> {}]

NoContainer == [pc |-> "none", env |-> NoEnv, mounts |-> {}, todo |-> {}, cur |-> NoEntry,
                framers |-> {}, traits |-> SiteTraits]

Container == [pc : Steps, env : Env, mounts : SUBSET Dir, todo : SUBSET Entry, cur : Entry \cup {NoEntry},
              framers : SUBSET Host, traits : [Traits -> Text \cup {Blank, Bad}]]

NewContainer(u, s) ==
  [NoContainer EXCEPT !.pc = "setup", !.env = get_env(u, s), !.mounts = Mounts(u, s),
                      !.framers = Framer(s), !.traits = TraitsOf(s)]

HomeOf(u) == <<ctr[u].env.NB_GROUP, u>>

\* Mutant: the group of the user.
EGIDOfUser(e) == e.NB_GID

\* The group that shares the task volumes: that of the teachers, made in the
\* teachers' containers.
EGID(e) == IF e.NB_TEACHER THEN teacher_gid ELSE e.NB_GID

ShInit ==
  /\ ctr = [u \in User |-> NoContainer]
  /\ owner = [h \in Home |-> Absentees]
  /\ links = [h \in Home |-> {}]
  /\ strays = {}
  /\ files = [h \in Home |-> {}]
  /\ personal = [h \in Home |-> {}]
  /\ vol = [d \in Dir |-> Made]
  /\ cut = {}

-------------------------------------------------------------------------------
(* The script, for the container of user u *)

\* The next of the volumes.
Back(u, pc) == ctr' = [ctr EXCEPT ![u].pc = pc, ![u].cur = NoEntry]

\* The home is made, or given to the user together with what lies in it.  chown
\* by name: the home of another id of the same user is taken over as well.
TakeHome(old, uid) ==
  IF old["home"] = uid THEN old
  ELSE [d \in HomeDirs |-> IF d = "home" \/ (d = "projects" /\ old[d] # Absent) THEN uid ELSE old[d]]

\* Mutant: chown only after mkdir.
MakeWorkOnce(old, uid) ==
  [d \in HomeDirs |-> IF d = "home" \/ old["works"] # Absent THEN old[d] ELSE uid]

\* mkdir -p as root, then chown of the project and the work directory.
MakeWork(old, uid) == [d \in HomeDirs |-> IF d = "home" THEN old[d] ELSE uid]

\* Mutant: the links stay.
Uncleaned(h) == links[h]

\* The symbolic links in the work directory go that "ls -l" lists.
Cleaned(h) == {l \in links[h] : l[1] \in Dotted}

\* Lines 84-154: the home, the directories in it, and the links of earlier
\* launches, which go.  Nobody else works there, and a script that is killed in
\* the middle is repeated from the beginning by the next one: one step.
Setup(u) ==
  /\ ctr[u].pc = "setup"
  /\ owner' = [owner EXCEPT ![HomeOf(u)] = MakeWork(TakeHome(@, ctr[u].env.NB_UID), ctr[u].env.NB_UID)]
  /\ links' = [links EXCEPT ![HomeOf(u)] = Cleaned(HomeOf(u))]
  /\ ctr' = [ctr EXCEPT ![u].pc = "task", ![u].todo = ctr[u].env.NB_VOLUMES]
  /\ UNCHANGED <<strays, files, personal, vol, cut>>

\* A volume of the round that takes two commands, one that takes one, and the
\* next round.
Begin(u, entry, to) == ctr' = [ctr EXCEPT ![u].pc = to, ![u].cur = entry, ![u].todo = @ \ {entry}]
Finish(u, entry) == ctr' = [ctr EXCEPT ![u].todo = @ \ {entry}]

RoundDone(u, to, todo) ==
  /\ ctr[u].todo = {}
  /\ ctr' = [ctr EXCEPT ![u].pc = to, ![u].todo = todo]

\* A name in the work directory: that of a link, or of a file of the user.
Taken(h, n) == (\E l \in links[h] : l[1] = n) \/ [name |-> n, hidden |-> FALSE] \in files[h]

\* [[ -e "$LK" ]], where $LK is what is shown, with the mark of a hidden volume.
Tested(h, show) == show \in files[h] \/ (~show.hidden /\ Taken(h, show.name))

Shown(e, env) == ~e.show.hidden \/ env.NB_TEACHER

\* Mutant: the name is not tested.
LinkAlways(h, e, env) == Shown(e, env)

\* Whether "ln -s" runs, and the name that the link gets in the work directory.
LinkRuns(h, e, env) ==
  /\ Shown(e, env)
  /\ ~Tested(h, e.show) \/ e.show = [name |-> Here, hidden |-> FALSE]

LinkName(e) == IF e.show.name = Here THEN e.dir ELSE e.show.name

\* It fails on a name that is taken; but where the name is a link to a directory,
\* it makes the new link inside that.
Linked(h, e, env) ==
  links[h] \cup {<<LinkName(e), d>> : d \in {f \in {e.dir} : LinkRuns(h, e, env) /\ ~Taken(h, LinkName(e))}}

Inside(h, e, env, mounts) ==
  {<<l[2], e.dir>> : l \in {k \in links[h] : LinkRuns(h, e, env) /\ k[1] = e.show.name /\ k[2] \in mounts}}

Link(u, e) ==
  /\ links' = [links EXCEPT ![HomeOf(u)] = Linked(HomeOf(u), e, ctr[u].env)]
  /\ strays' = strays \cup Inside(HomeOf(u), e, ctr[u].env, ctr[u].mounts)

\* A volume of root is taken over by the first teacher who starts with it.
Takes(u, d) == vol[d].uid = Root /\ ctr[u].env.NB_TEACHER
TakenOver(u, d) == IF Takes(u, d) THEN [vol[d] EXCEPT !.uid = ctr[u].env.NB_UID, !.gid = EGID(ctr[u].env)] ELSE vol[d]

\* Mutant: only what has been taken over is opened.
ChmodTaken(v) == IF v.uid = Root THEN v ELSE [v EXCEPT !.mode = "open"]

\* chmod -R 2775
ChmodTask(v) == [v EXCEPT !.mode = "open"]

\* Mutant: the directory stays as it is.
ChmodInside(v) == v

\* chmod 3777
ChmodSubmit(v) == [v EXCEPT !.mode = "open"]

\* chmod -R 0664 takes the directories' search permission...
TaskVolume(u) ==
  /\ ctr[u].pc = "task"
  /\ \E e \in ctr[u].todo :
       /\ Begin(u, e, "task_open")
       /\ vol' = [vol EXCEPT ![e.dir] = [TakenOver(u, e.dir) EXCEPT !.mode = "closed"]]
  /\ UNCHANGED <<owner, links, strays, files, personal, cut>>

\* ...and chmod -R 2775 gives it back.
TaskOpen(u) ==
  /\ ctr[u].pc = "task_open"
  /\ vol' = [vol EXCEPT ![ctr[u].cur.dir] = ChmodTask(@)]
  /\ cut' = cut \ {ctr[u].cur.dir}
  /\ Link(u, ctr[u].cur)
  /\ Back(u, "task")
  /\ UNCHANGED <<owner, files, personal>>

TasksDone(u) ==
  /\ ctr[u].pc = "task"
  /\ RoundDone(u, "submit", ctr[u].env.NB_SUBMITS)
  /\ UNCHANGED <<owner, links, strays, files, personal, vol, cut>>

\* Only a volume of root is set up: chown here, chmod 3777 as the next command.
SubmitVolume(u) ==
  /\ ctr[u].pc = "submit"
  /\ \E e \in ctr[u].todo :
       /\ Takes(u, e.dir)
       /\ Begin(u, e, "submit_open")
       /\ vol' = [vol EXCEPT ![e.dir] = TakenOver(u, e.dir)]
  /\ UNCHANGED <<owner, links, strays, files, personal, cut>>

SubmitOpen(u) ==
  /\ ctr[u].pc = "submit_open"
  /\ vol' = [vol EXCEPT ![ctr[u].cur.dir] = ChmodSubmit(@)]
  /\ Link(u, ctr[u].cur)
  /\ Back(u, "submit")
  /\ UNCHANGED <<owner, files, personal, cut>>

SubmitAsItIs(u) ==
  /\ ctr[u].pc = "submit"
  /\ \E e \in ctr[u].todo :
       /\ ~Takes(u, e.dir)
       /\ Finish(u, e)
       /\ Link(u, e)
  /\ UNCHANGED <<owner, files, personal, vol, cut>>

SubmitsDone(u) ==
  /\ ctr[u].pc = "submit"
  /\ RoundDone(u, "personal", ctr[u].env.NB_PRSNALS)
  /\ UNCHANGED <<owner, links, strays, files, personal, vol, cut>>

\* The directory is made for the user, linked, and filled from the task volume
\* of the same name without overwriting anything.
PersonalVolume(u) ==
  /\ ctr[u].pc = "personal"
  /\ \E e \in ctr[u].todo :
       /\ Finish(u, e)
       /\ personal' = [personal EXCEPT ![HomeOf(u)] = @ \cup {e.dir}]
       /\ Link(u, e)
  /\ UNCHANGED <<owner, files, vol, cut>>

PersonalsDone(u) ==
  /\ ctr[u].pc = "personal"
  /\ RoundDone(u, "ready", {})
  /\ UNCHANGED <<owner, links, strays, files, personal, vol, cut>>

\* exec of the notebook server as the user.
Exec(u) ==
  /\ ctr[u].pc = "ready"
  /\ ctr' = [ctr EXCEPT ![u].pc = "run"]
  /\ UNCHANGED <<owner, links, strays, files, personal, vol, cut>>

Script(u) ==
  \/ Setup(u) \/ TaskVolume(u) \/ TaskOpen(u) \/ TasksDone(u)
  \/ SubmitVolume(u) \/ SubmitOpen(u) \/ SubmitAsItIs(u) \/ SubmitsDone(u)
  \/ PersonalVolume(u) \/ PersonalsDone(u) \/ Exec(u)

\* The user's own work: files come and go in the work directory.
UserFile(u, n) ==
  /\ ctr[u].pc = "run"
  /\ \/ ~Tested(HomeOf(u), n) /\ files' = [files EXCEPT ![HomeOf(u)] = @ \cup {n}]
     \/ n \in files[HomeOf(u)] /\ files' = [files EXCEPT ![HomeOf(u)] = @ \ {n}]
  /\ UNCHANGED <<ctr, owner, links, strays, personal, vol, cut>>

\* The container ends at any point: the server exits, is stopped or killed, or
\* the host goes down.
CutOff(u) == IF ctr[u].pc \in {"task_open", "submit_open"} THEN {ctr[u].cur.dir} ELSE {}

End(u) ==
  /\ ctr[u].pc # "none"
  /\ ctr' = [ctr EXCEPT ![u] = NoContainer]
  /\ cut' = cut \cup CutOff(u)
  /\ UNCHANGED <<owner, links, strays, files, personal, vol>>
===============================================================================
