----------------------------- MODULE LaunchSettings -----------------------------
(***************************************************************************)
(* What LTIDockerSpawner and LTIPodmanSpawner make of an LTI launch: who   *)
(* the user is on the host, which volumes the container gets, and what its *)
(* start script is told.  The two classes share this code line by line.    *)
(*                                                                         *)
(* A launch is the dictionary auth_state: a function whose domain are the  *)
(* settings it names, with the texts as they are after re.sub().  Its      *)
(* order shows only when a value makes userdata_hook raise, and then       *)
(* nothing is started and the next launch begins with init_parameters.     *)
(***************************************************************************)
EXTENDS Integers, FiniteSets

CONSTANTS
  User,         \* JupyterHub's users
  Everyone,     \* "*" in a list of users
  Host,         \* host names of LMSs
  Localhost,    \* the host of a launch without lis_outcome_service_url
  PortHost,     \* those hosts whose URL names a port, which netloc keeps
  Course,       \* context_id
  NoCourse,     \* course_id '0'
  Volume,       \* the names behind lms_vol_, lms_sub_ and lms_prs_
  Name,         \* names of links in the work directory
  Text,         \* images, start pages and amounts that a launch can name
  Blank,        \* ''
  Bad,          \* a text that int() or float() rejects, or split() finds too short
  Account,      \* pwd: users with an account on the host -> [uid, gid]
  HostGroup,    \* grp: ids of groups of the host -> their names
  Group,        \* names of groups
  default_group, default_gid, \* the group of the others; its id on the host, or base_id
  base_id,      \* the ids of the others begin here
  teacher_gid

ASSUME SettingsAssumption ==
  /\ Localhost \in Host /\ PortHost \subseteq Host /\ NoCourse \in Course
  /\ Everyone \notin User /\ Blank \notin Name \cup Text \cup Group /\ Bad \notin Text /\ Bad # Blank
  /\ DOMAIN Account \subseteq User
  /\ \A u \in DOMAIN Account : Account[u] \in [uid : Nat, gid : Nat]
  /\ DOMAIN HostGroup \subseteq Nat /\ \A g \in DOMAIN HostGroup : HostGroup[g] \in Group
  /\ default_group \in Group /\ default_gid \in Nat /\ base_id \in Nat \ {0} /\ teacher_gid \in Nat

\* What get_volumes_info says of a volume: where it is mounted, and the name
\* under which the start script links it (for teachers only, if it is hidden).
Kind == {"lms_vol_", "lms_sub_", "lms_prs_"}
Dir == [kind : Kind, vol : Volume, course : Course, host : Host]
Show == [name : Name \cup {Blank}, hidden : BOOLEAN]
Entry == [dir : Dir, show : Show]

\* A list of volumes: partial, from names to "display name : users".
Users == SUBSET (User \cup {Everyone})
Assoc == UNION {[V -> [show : Show, users : Users]] : V \in SUBSET Volume}

Traits == {"image", "default_url", "cpu", "mem"}

\* The attributes that userdata_hook sets.
Settings ==
  [lms_user_id : Int, course_id : Course, host_name : Host,
   ext_user_id : Int, ext_group_id : Int, ext_grp_name : Group \cup {Blank},
   users : Users, teachers : Users, volumes : Assoc, submits : Assoc, prsnals : Assoc,
   iframe : BOOLEAN, lti_id : Nat, options : Text \cup {Blank},
   image : Text \cup {Blank}, default_url : Text \cup {Blank},
   cpu : Text \cup {Blank, Bad}, mem : Text \cup {Blank}]

NoVolumes == [v \in {} |-> [show |-> [name |-> Blank, hidden |-> FALSE], users |-> {}]]

CONSTANTS
  NoAmount, LabPage,  \* '0' and '/lab', the texts in place of absent ones
  SiteTraits          \* image, start page, cpu and memory in the hub's configuration

ASSUME DefaultsAssumption ==
  NoAmount \in Text /\ LabPage \in Text /\ SiteTraits \in [Traits -> Text \cup {Blank}]

init_parameters ==
  [lms_user_id |-> -1, course_id |-> NoCourse, host_name |-> Localhost,
   ext_user_id |-> -1, ext_group_id |-> -1, ext_grp_name |-> Blank,
   users |-> {}, teachers |-> {}, volumes |-> NoVolumes, submits |-> NoVolumes,
   prsnals |-> NoVolumes, iframe |-> FALSE, lti_id |-> 0, options |-> Blank,
   image |-> Blank, default_url |-> LabPage, cpu |-> NoAmount, mem |-> NoAmount]

\* int(value) of user_id, and the two words of lms_sessioninfo.
HookRaises(l) == \E k \in {"lms_user_id", "lti_id"} \cap DOMAIN l : l[k] = Bad

userdata_hook(l) ==
  [k \in DOMAIN init_parameters |-> IF k \in DOMAIN l THEN l[k] ELSE init_parameters[k]]

\* What the LMSs may post: launches with settings of the right type, but for
\* the texts that make the hook raise.
Launchable(l) == HookRaises(l) \/ userdata_hook(l) \in Settings

-------------------------------------------------------------------------------
(* Who the user is on the host: an account there, the ids that the LMS sends *)
(* with the launch, or an id made from that of the user in the LMS.          *)

get_lms_userinfo(s) == [uid |-> base_id + s.lms_user_id, gid |-> default_gid, gname |-> default_group]

get_userid(u, s) ==
  IF u \in DOMAIN Account THEN Account[u].uid
  ELSE IF s.ext_user_id >= 0 THEN s.ext_user_id ELSE get_lms_userinfo(s).uid

group_id(u, s) ==
  IF u \in DOMAIN Account THEN Account[u].gid
  ELSE IF s.ext_group_id >= 0 THEN s.ext_group_id ELSE get_lms_userinfo(s).gid

get_groupname(u, s) ==
  IF group_id(u, s) \in DOMAIN HostGroup THEN HostGroup[group_id(u, s)]
  ELSE IF s.ext_grp_name # Blank THEN s.ext_grp_name ELSE get_lms_userinfo(s).gname

\* /home/{groupname}/{username}
homedir(u, s) == <<get_groupname(u, s), u>>

-------------------------------------------------------------------------------
(* Which volumes the user gets, and what the container is told. *)

\* The list of users behind the display name decides alone; without one, the
\* users of the launch and its teachers get the volume.
Allowed(u, s, users) ==
  IF users # {} THEN Everyone \in users \/ u \in users
  ELSE Everyone \in s.users \/ u \in s.users \/ u \in s.teachers

VolumeDir(s, kind, v) == [kind |-> kind, vol |-> v, course |-> s.course_id, host |-> s.host_name]

\* Mutant: a volume without a display name is mounted as well.
AlsoUnnamed(u, s, kind, assoc) ==
  {[dir |-> VolumeDir(s, kind, v), show |-> assoc[v].show] :
     v \in {w \in DOMAIN assoc : Allowed(u, s, assoc[w].users)}}

\* Mutant: the directory does not have the LMS's name.
WithoutHost(u, s, kind, assoc) ==
  {[dir |-> [VolumeDir(s, kind, v) EXCEPT !.host = Localhost], show |-> assoc[v].show] :
     v \in {w \in DOMAIN assoc : assoc[w].show.name # Blank /\ Allowed(u, s, assoc[w].users)}}

get_volumes_info(u, s, kind, assoc) ==
  {[dir |-> VolumeDir(s, kind, v), show |-> assoc[v].show] :
     v \in {w \in DOMAIN assoc : assoc[w].show.name # Blank /\ Allowed(u, s, assoc[w].users)}}

IsTeacher(u, s) == u \in s.teachers

Env == [NB_UID : Int, NB_GID : Nat, NB_GROUP : Group, NB_TEACHER : BOOLEAN, NB_OPTION : Text \cup {Blank},
        NB_VOLUMES : SUBSET Entry, NB_SUBMITS : SUBSET Entry, NB_PRSNALS : SUBSET Entry]

get_env(u, s) ==
  [NB_UID |-> get_userid(u, s), NB_GID |-> group_id(u, s), NB_GROUP |-> get_groupname(u, s),
   NB_TEACHER |-> IsTeacher(u, s), NB_OPTION |-> s.options,
   NB_VOLUMES |-> get_volumes_info(u, s, "lms_vol_", s.volumes),
   NB_SUBMITS |-> get_volumes_info(u, s, "lms_sub_", s.submits),
   NB_PRSNALS |-> get_volumes_info(u, s, "lms_prs_", s.prsnals)]

\* Mutant: the submit volumes are forgotten.
MountsTasks(u, s) == {e.dir : e \in get_volumes_info(u, s, "lms_vol_", s.volumes)}

\* The volumes that start() mounts; personal ones are directories of the home.
Mounts(u, s) ==
  {e.dir : e \in get_volumes_info(u, s, "lms_vol_", s.volumes)}
    \cup {e.dir : e \in get_volumes_info(u, s, "lms_sub_", s.submits)}

\* The page of the LMS that may show the notebook in a frame.
Framer(s) == IF s.iframe THEN {s.host_name} ELSE {}

\* The traits keep the site's value where the launch says ''.
TraitsOf(s) == [t \in Traits |-> IF s[t] # Blank THEN s[t] ELSE SiteTraits[t]]

\* float() in start.
StartRaises(s) == s.cpu = Bad

\* jupyterhub-user-course-lti-host.  Docker and Podman refuse a name with ":".
ContainerName(u, s) == <<u, s.course_id, s.lti_id, s.host_name>>
NameRefused(s) == s.host_name \in PortHost
===============================================================================
