------------------------------ MODULE PodmanSpawner ------------------------------
(***************************************************************************)
(* LTIPodmanSpawner: the hub starts, polls and stops one podman container  *)
(* per user.  The hub is one thread, and start(), poll() and stop() wait   *)
(* for the podman commands without giving it up: each is a step.  The      *)
(* containers go on by themselves, and vanish when they end (--rm); the    *)
(* hub may crash between any two steps, and knows again what it saved.  A   *)
(* podman command may fail for any reason, whatever the container does.    *)
(*                                                                         *)
(* JupyterHub calls the three methods.  What it does with an error is the  *)
(* library's: a poll that raises is logged; a stop that raises leaves the  *)
(* server's entry in the database, or removes it, by its version.          *)
(***************************************************************************)
EXTENDS LaunchSettings

CONSTANTS
  Posts,  \* Posts[u]: the launches that LMSs may post for user u
  Port,   \* ports of the host, which the containers share (--net host)
  Id,     \* ids of containers, each used once (a bound): a set of numbers
  NoId    \* None

ASSUME PodmanAssumption ==
  /\ DOMAIN Posts = User
  /\ \A u \in User : \A l \in Posts[u] : Launchable(l)
  /\ Id \subseteq Nat /\ NoId \notin Id

VARIABLES
  hub,    \* whether the hub runs
  sp,     \* per user: the spawner object
  saved,  \* per user: the hub's database: an entry for the server, and the state
  box,    \* per id: the container
  lost    \* history: containers, not yet removed, whose id was not saved at a
          \* crash, or whose entry went with an error of podman while they ran

vars == <<hub, sp, saved, box, lost>>

\* pc: what the hub does with the object.  In "listed" there is an entry for a
\* server that nobody polls.
Spawner == [pc : {"idle", "start", "save", "wait", "ready", "listed", "check", "stop", "podman_stop"},
            set : Settings, cid : Id \cup {NoId}, port : Port \cup {NoId}]
NewSpawner == [pc |-> "idle", set |-> init_parameters, cid |-> NoId, port |-> NoId]

Saved == [server : BOOLEAN, cid : Id \cup {NoId}, port : Port \cup {NoId}]
Nothing == [server |-> FALSE, cid |-> NoId, port |-> NoId]

\* A container boots, serves at its port, has exited, and is removed.
Names == User \X Course \X Nat \X Host
Box == [st : {"none", "boot", "serve", "exited", "gone"}, user : User \cup {NoId},
        name : Names \cup {NoId}, port : Port \cup {NoId}, home : (Group \X User) \cup {NoId},
        told : SUBSET Env, mounts : SUBSET Dir, traits : [Traits -> Text \cup {Blank, Bad}]]
NoBox == [st |-> "none", user |-> NoId, name |-> NoId, port |-> NoId, home |-> NoId,
          told |-> {}, mounts |-> {}, traits |-> SiteTraits]
Gone == [NoBox EXCEPT !.st = "gone"]

Live(i) == box[i].st \in {"boot", "serve"}
Exists(i) == box[i].st \in {"boot", "serve", "exited"}

Init ==
  /\ hub = "up"
  /\ sp = [u \in User |-> NewSpawner]
  /\ saved = [u \in User |-> Nothing]
  /\ box = [i \in Id |-> NoBox]
  /\ lost = {}

-------------------------------------------------------------------------------
(* Launch and start *)

\* auth_state_hook
Hooked(l) == [NewSpawner EXCEPT !.pc = "start", !.set = userdata_hook(l)]

\* The hub notes that the user has a server, and clears the object's state.
Launch(u) ==
  /\ hub = "up" /\ sp[u].pc = "idle" /\ ~saved[u].server
  /\ \E l \in Posts[u] :
       /\ ~HookRaises(l)
       /\ sp' = [sp EXCEPT ![u] = Hooked(l)]
  /\ saved' = [saved EXCEPT ![u].server = TRUE]
  /\ UNCHANGED <<hub, box, lost>>

NameOf(u) == ContainerName(u, sp[u].set)
NameTaken(n) == \E i \in Id : Exists(i) /\ box[i].name = n

\* random_port: nobody listens there now.
Served(p) == \E i \in Id : box[i].st = "serve" /\ box[i].port = p
random_port == {p \in Port : ~Served(p)}

Fresh(i) == box[i].st = "none" /\ \A j \in Id : j < i => box[j].st # "none"

\* The home on the host, which the container has as its own.
hosthome(u, s) == homedir(u, s)

\* What the container is told.  podman itself runs in the environment of root.
Told(u, s) == {get_env(u, s)}

\* The command: name, home, volumes, environment, limits, image and port.
podman_run(u, s, p) ==
  [st |-> "boot", user |-> u, name |-> ContainerName(u, s), port |-> p, home |-> hosthome(u, s),
   told |-> Told(u, s), mounts |-> Mounts(u, s), traits |-> TraitsOf(s)]

\* What start(), or podman for the name, does not accept.
Refused(u) == StartRaises(sp[u].set) \/ NameRefused(sp[u].set) \/ NameTaken(NameOf(u))

\* start() and podman_start(), up to the answer of "podman run".  What the
\* object keeps of the launch is not read again.
Start(u) ==
  /\ hub = "up" /\ sp[u].pc = "start"
  /\ ~Refused(u)
  /\ \E i \in Id, p \in random_port :
       /\ Fresh(i)
       /\ box' = [box EXCEPT ![i] = podman_run(u, sp[u].set, p)]
       /\ sp' = [sp EXCEPT ![u] = [NewSpawner EXCEPT !.pc = "save", !.cid = i, !.port = p]]
  /\ UNCHANGED <<hub, saved, lost>>

\* float() raises, or "podman run" fails: the name is refused or taken, or for
\* any other reason.  The hub stops the user's server.
StartFails(u) ==
  /\ hub = "up" /\ sp[u].pc = "start"
  /\ sp' = [sp EXCEPT ![u] = [NewSpawner EXCEPT !.pc = "stop"]]
  /\ UNCHANGED <<hub, saved, box, lost>>

\* Mutant: the port is saved for the id.
PortForId(s) == s.port

\* Mutant: the id is not saved.
Forgotten(s) == NoId

\* get_state: the id is saved after start() has returned.
get_state(s) == s.cid

Save(u) ==
  /\ hub = "up" /\ sp[u].pc = "save"
  /\ saved' = [saved EXCEPT ![u].cid = get_state(sp[u]), ![u].port = sp[u].port]
  /\ sp' = [sp EXCEPT ![u].pc = "wait"]
  /\ UNCHANGED <<hub, box, lost>>

\* The hub asks at the port until somebody answers, or for http_timeout.
WaitUp(u) ==
  /\ hub = "up" /\ sp[u].pc = "wait" /\ Served(sp[u].port)
  /\ sp' = [sp EXCEPT ![u].pc = "ready"]
  /\ UNCHANGED <<hub, saved, box, lost>>

\* Mutant: without http_timeout.
WaitForever(u) == FALSE /\ UNCHANGED vars

WaitTimeout(u) ==
  /\ hub = "up" /\ sp[u].pc = "wait" /\ ~Served(sp[u].port)
  /\ sp' = [sp EXCEPT ![u].pc = "stop"]
  /\ UNCHANGED <<hub, saved, box, lost>>

-------------------------------------------------------------------------------
(* Poll and stop *)

\* Mutant: a container that does not serve yet is taken for one that has ended.
PollServing(i) ==
  {"raises"} \cup
  {IF box[j].st = "serve" THEN "None" ELSE "code" : j \in {k \in Id : k = i /\ Exists(k)}}

\* poll(): None while the container runs, or its exit code; or a RuntimeError,
\* where "podman container inspect" finds nothing or fails for another reason.
poll(i) ==
  {"raises"} \cup
  {IF Live(j) THEN "None" ELSE "code" : j \in {k \in Id : k = i /\ Exists(k)}}

\* Every poll_interval.
Poll(u) ==
  /\ hub = "up" /\ sp[u].pc = "ready" /\ "code" \in poll(sp[u].cid)
  /\ sp' = [sp EXCEPT ![u].pc = "stop"]
  /\ UNCHANGED <<hub, saved, box, lost>>

\* The user, the culler, or a logout.
Stop(u) ==
  /\ hub = "up" /\ sp[u].pc \in {"ready", "listed"}
  /\ sp' = [sp EXCEPT ![u].pc = "stop"]
  /\ UNCHANGED <<hub, saved, box, lost>>

\* clear_state, and the entry goes.
Cleared(u) ==
  /\ sp' = [sp EXCEPT ![u] = NewSpawner]
  /\ saved' = [saved EXCEPT ![u] = Nothing]

\* After an error the object goes, and the entry stays or goes; load_state
\* gives the next object the saved id.
Loaded(u, pc) == [NewSpawner EXCEPT !.pc = pc, !.cid = saved[u].cid, !.port = saved[u].port]

Failed(u) ==
  \/ Cleared(u) /\ lost' = lost \cup {i \in Id : i = sp[u].cid /\ Live(i)}
  \/ sp' = [sp EXCEPT ![u] = Loaded(u, "listed")] /\ UNCHANGED <<saved, lost>>

\* The hub polls before it stops.
PollToStop(u) ==
  /\ hub = "up" /\ sp[u].pc = "stop"
  /\ \/ /\ "None" \in poll(sp[u].cid)
        /\ sp' = [sp EXCEPT ![u].pc = "podman_stop"]
        /\ UNCHANGED <<saved, lost>>
     \/ "code" \in poll(sp[u].cid) /\ Cleared(u) /\ UNCHANGED lost
     \/ "raises" \in poll(sp[u].cid) /\ Failed(u)
  /\ UNCHANGED <<hub, box>>

\* Mutant: the status of "podman stop" is not looked at.
StopUnchecked(u) ==
  /\ hub = "up" /\ sp[u].pc = "podman_stop"
  /\ \/ Exists(sp[u].cid) /\ box' = [box EXCEPT ![sp[u].cid] = Gone]
     \/ UNCHANGED box
  /\ Cleared(u)
  /\ UNCHANGED <<hub, lost>>

\* stop(): "podman stop", which fails when the container is gone by now, or for
\* another reason; and "podman rm", whose failure is only logged, and which may
\* come before or after the removal by --rm.
PodmanStop(u) ==
  /\ hub = "up" /\ sp[u].pc = "podman_stop"
  /\ \/ /\ Exists(sp[u].cid)
        /\ \E b \in {Gone, [box[sp[u].cid] EXCEPT !.st = "exited"]} :
             box' = [box EXCEPT ![sp[u].cid] = b]
        /\ Cleared(u) /\ UNCHANGED lost
     \/ Failed(u) /\ UNCHANGED box
  /\ UNCHANGED hub

-------------------------------------------------------------------------------
(* The hub's crash and restart *)

Unsaved == {sp[u].cid : u \in {v \in User : sp[v].pc = "save"}}

HubCrash ==
  /\ hub = "up"
  /\ hub' = "down"
  /\ lost' = lost \cup Unsaved
  /\ sp' = [u \in User |-> NewSpawner]
  /\ UNCHANGED <<saved, box>>

HubRestart ==
  /\ hub = "down"
  /\ hub' = "up"
  /\ sp' = [u \in User |-> IF saved[u].server THEN Loaded(u, "check") ELSE NewSpawner]
  /\ UNCHANGED <<saved, box, lost>>

\* A server that does not run, or cannot be polled, is stopped.
Check(u) ==
  /\ hub = "up" /\ sp[u].pc = "check"
  /\ \E answer \in poll(sp[u].cid) :
       sp' = [sp EXCEPT ![u].pc = IF answer = "None" THEN "wait" ELSE "stop"]
  /\ UNCHANGED <<hub, saved, box, lost>>

-------------------------------------------------------------------------------
(* The containers *)

\* The notebook server binds its port; it ends if another one has done so.
Boot(i) ==
  /\ box[i].st = "boot"
  /\ box' = [box EXCEPT ![i].st = IF Served(box[i].port) THEN "exited" ELSE "serve"]
  /\ UNCHANGED <<hub, sp, saved, lost>>

Exit(i) ==
  /\ Live(i)
  /\ box' = [box EXCEPT ![i].st = "exited"]
  /\ UNCHANGED <<hub, sp, saved, lost>>

\* --rm
Remove(i) ==
  /\ box[i].st = "exited"
  /\ box' = [box EXCEPT ![i] = Gone]
  /\ lost' = lost \ {i}
  /\ UNCHANGED <<hub, sp, saved>>

-------------------------------------------------------------------------------
HubStep(u) ==
  \/ Start(u) \/ StartFails(u) \/ Save(u) \/ WaitUp(u) \/ WaitTimeout(u)
  \/ Poll(u) \/ PollToStop(u) \/ PodmanStop(u) \/ Check(u)

Next ==
  \/ \E u \in User : Launch(u) \/ HubStep(u) \/ Stop(u)
  \/ HubCrash \/ HubRestart
  \/ \E i \in Id : Boot(i) \/ Exit(i) \/ Remove(i)

Fairness ==
  /\ \A u \in User : WF_vars(HubStep(u))
  /\ WF_vars(HubRestart)
  /\ \A i \in Id : WF_vars(Remove(i))

Spec == Init /\ [][Next]_vars /\ Fairness

-------------------------------------------------------------------------------
(* Properties *)

TypeOK ==
  /\ hub \in {"up", "down"}
  /\ sp \in [User -> Spawner]
  /\ saved \in [User -> Saved]
  /\ box \in [Id -> Box]
  /\ lost \subseteq Id

\* The hub knows the id of every container that runs, in its object or in the
\* database, unless it crashed before it could save it, or gave the container up
\* when podman failed.
Knows(u, i) == sp[u].cid = i \/ saved[u].cid = i
LiveIsKnown ==
  \A i \in Id : Live(i) => i \in lost \/ Knows(box[i].user, i)

\* When start() runs "podman run", no other notebook server works in the user's
\* home, whatever course or LMS it was started for, and none that runs has the
\* name; unless an earlier container was lost.
HomeIsFree ==
  \A u \in User : sp[u].pc = "start" =>
    \A i \in Id \ lost :
      Live(i) => box[i].home # hosthome(u, sp[u].set) /\ box[i].name # NameOf(u)

\* The entry of a server goes only when its container does not run any more, or
\* with an error of a podman command about a container that does: what podman
\* says of a container is believed, and no failure is taken for the end of it.
StopEndsContainer ==
  [][\A u \in User : saved[u].server /\ ~saved'[u].server =>
       \A i \in Id \ lost' : box[i].user = u => ~Live(i)']_vars

\* A start is answered, by a server or without one, unless the hub crashes.
StartIsAnswered ==
  \A u \in User : sp[u].pc = "start" ~> (sp[u].pc \in {"ready", "idle", "listed"} \/ hub = "down")

\* src/etc/jupyterhub_ltictr_config.py:2515: the hub polls every server, and
\* "if it isn't running, then JupyterHub modifies its own state accordingly".
DeadServerIsNoticed ==
  \A u \in User :
    (sp[u].pc = "ready" /\ ~Live(sp[u].cid)) ~> (sp[u].pc # "ready" \/ hub = "down")
===============================================================================
