------------------------------ MODULE ProxyServer ------------------------------
(***************************************************************************)
(* ltictr_proxy_server: the root process.  It forks ltictr_api_server and  *)
(* then one child per accepted connection, keeps their pids in PIDList,    *)
(* reaps them in the SIGCHLD handler sig_child and forwards SIGTERM to     *)
(* them in sig_term.  The handlers interrupt the main loop, and one        *)
(* another, between any two steps:                                         *)
(*                                                                         *)
(*   "main"  the main loop, including the sig_child() it calls itself      *)
(*   "term"  sig_term as the SIGTERM handler: its sa_mask is empty, so     *)
(*           SIGCHLD may interrupt it                                      *)
(*   "chld"  sig_child as the SIGCHLD handler: SIGTERM is in the sa_mask   *)
(*           that set_sigterm_child() installs, so nothing interrupts it   *)
(*                                                                         *)
(* Processes are numbered in the order they are forked, the API server     *)
(* being process 1.  add_tList_node_int appends at the end of PIDList, so  *)
(* the list is its set of nodes in increasing order; a node is named by    *)
(* the process it was added for.                                           *)
(***************************************************************************)
EXTENDS Integers, FiniteSetsExt

CONSTANT MaxForks  \* bound: calls of fork() that are modelled

ASSUME ForksAssumption == MaxForks \in Nat \ {0}

Proc == 1 .. MaxForks

\* The API server is the first process that is forked.
Api == 1

VARIABLES
  proc,           \* the processes, as the kernel sees them
  forks,          \* calls of fork() so far
  signalled,      \* processes the root has sent SIGTERM
  PIDList,        \* the nodes of the list
  stale,          \* the next pointer left behind in a node that was freed
  APIChildPID,    \* 0 until fork_api_server stores it
  NoSigchld,      \* sig_child must not touch the list
  PendingSigchld, \* sig_child was called while it must not
  sigchld,        \* SIGCHLD is pending in the kernel
  sigterm,        \* SIGTERM is pending in the kernel
  main,           \* where the main loop is
  frame,          \* where sig_child or sig_term is in each context
  status          \* exit status of the root, or Running

vars == <<proc, forks, signalled, PIDList, stale, APIChildPID, NoSigchld,
          PendingSigchld, sigchld, sigterm, main, frame, status>>

Running == -1
SIGCHLD == 17

Context == {"main", "term", "chld"}

\* at: "idle" not in a signal function, "wait" before waitpid(), "search" in
\*     search_id_tList, "delete" before del_tList_node, "kill" at the head of
\*     term_main's loop, "next" before it follows the next pointer
\* pid: the process waitpid() returned
\* lpid: the node the search or term_main's loop is at, 0 at the end of the list
\* code: what exit() will be called with
Frame == [at   : {"idle", "wait", "search", "delete", "kill", "next"},
          pid  : Proc \cup {0},
          lpid : Proc \cup {0},
          code : {0, 1, SIGCHLD}]

Idle == [at |-> "idle", pid |-> 0, lpid |-> 0, code |-> 0]

\* The list in order: its first node, and the node after n.
FirstNode(list) == IF list = {} THEN 0 ELSE Min(list)
NextNode(list, n) == FirstNode({m \in list : m > n})

\* Mutants: lpid++; a walk ends at a freed node; it never leaves one.
NextNumber(n) == n + 1
NextOrEnd(n) == IF n \in PIDList THEN NextNode(PIDList, n) ELSE 0
NextOrStay(n) == IF n \in PIDList THEN NextNode(PIDList, n) ELSE n

\* The next pointer of n, in whatever memory n is in by now.
Successor(n) == IF n \in PIDList THEN NextNode(PIDList, n) ELSE stale[n]

\* The context that executes: the innermost handler.
Executing(f) ==
  /\ status = Running
  /\ f = "chld" \/ frame["chld"].at = "idle"
  /\ f = "main" => frame["term"].at = "idle"

Init ==
  /\ proc = [n \in Proc |-> "unborn"]
  /\ forks = 0
  /\ signalled = {}
  /\ PIDList = {}
  /\ stale = [n \in Proc |-> 0]
  /\ APIChildPID = 0
  /\ NoSigchld = FALSE
  /\ PendingSigchld = FALSE
  /\ sigchld = FALSE
  /\ sigterm = FALSE
  /\ main = "forkApi"
  /\ frame = [f \in Context |-> Idle]
  /\ status = Running

-------------------------------------------------------------------------------
(* The main loop.  It runs when no handler is active. *)

At(pc) ==
  /\ Executing("main")
  /\ frame["main"].at = "idle"
  /\ main = pc

\* fork(): a new process, or -1 when it fails.
Fork ==
  /\ forks < MaxForks
  /\ forks' = forks + 1
  /\ \E s \in {"run", "failed"} : proc' = [proc EXCEPT ![forks + 1] = s]

\* fork_api_server calls fork().
ForkApi ==
  /\ At("forkApi")
  /\ Fork
  /\ main' = "recordApi"
  /\ UNCHANGED <<signalled, PIDList, stale, APIChildPID, NoSigchld,
                 PendingSigchld, sigchld, sigterm, frame, status>>

\* ... and stores what it returned.
RecordApi ==
  /\ At("recordApi")
  /\ APIChildPID' = forks
  /\ main' = "addApi"
  /\ UNCHANGED <<proc, forks, signalled, PIDList, stale, NoSigchld,
                 PendingSigchld, sigchld, sigterm, frame, status>>

\* add_tList_node_int(PIDList, ...) without NoSigchld.
AddApi ==
  /\ At("addApi")
  /\ PIDList' = PIDList \cup {forks}
  /\ main' = "accept"
  /\ UNCHANGED <<proc, forks, signalled, stale, APIChildPID, NoSigchld,
                 PendingSigchld, sigchld, sigterm, frame, status>>

\* accept_intr() returns a connection and the main loop forks its child.
AcceptAndFork ==
  /\ At("accept")
  /\ Fork
  /\ main' = "forked"
  /\ UNCHANGED <<signalled, PIDList, stale, APIChildPID, NoSigchld,
                 PendingSigchld, sigchld, sigterm, frame, status>>

\* accept_intr() fails: sig_term(-1).
AcceptFails ==
  /\ At("accept")
  /\ frame' = [frame EXCEPT !["main"] =
                 [at |-> "kill", pid |-> 0, lpid |-> FirstNode(PIDList), code |-> 1]]
  /\ UNCHANGED <<proc, forks, signalled, PIDList, stale, APIChildPID, NoSigchld,
                 PendingSigchld, sigchld, sigterm, main, status>>

\* close(Sofd) and NoSigchld = ON.
Guard ==
  /\ At("forked")
  /\ NoSigchld' = TRUE
  /\ main' = "guarded"
  /\ UNCHANGED <<proc, forks, signalled, PIDList, stale, APIChildPID,
                 PendingSigchld, sigchld, sigterm, frame, status>>

\* Mutant: a pid is not added while a SIGCHLD is pending.
AddPidUnlessPending ==
  /\ At("guarded")
  /\ PIDList' = IF PendingSigchld THEN PIDList ELSE PIDList \cup {forks}
  /\ main' = "added"
  /\ UNCHANGED <<proc, forks, signalled, stale, APIChildPID, NoSigchld,
                 PendingSigchld, sigchld, sigterm, frame, status>>

\* The new pid goes to the end of the list.
AddPid ==
  /\ At("guarded")
  /\ PIDList' = PIDList \cup {forks}
  /\ main' = "added"
  /\ UNCHANGED <<proc, forks, signalled, stale, APIChildPID, NoSigchld,
                 PendingSigchld, sigchld, sigterm, frame, status>>

\* NoSigchld = OFF.
Unguard ==
  /\ At("added")
  /\ NoSigchld' = FALSE
  /\ main' = "check"
  /\ UNCHANGED <<proc, forks, signalled, PIDList, stale, APIChildPID,
                 PendingSigchld, sigchld, sigterm, frame, status>>

\* Mutant: PendingSigchld is ignored.
SkipPending ==
  /\ At("check")
  /\ main' = "accept"
  /\ UNCHANGED <<proc, forks, signalled, PIDList, stale, APIChildPID, NoSigchld,
                 PendingSigchld, sigchld, sigterm, frame, status>>

\* if (PendingSigchld>0) sig_child(PendingSigchld): no signal is blocked here.
CheckPending ==
  /\ At("check")
  /\ IF PendingSigchld
       THEN /\ main' = "clear"
            /\ frame' = [frame EXCEPT !["main"].at = "wait"]
       ELSE /\ main' = "accept"
            /\ UNCHANGED frame
  /\ UNCHANGED <<proc, forks, signalled, PIDList, stale, APIChildPID, NoSigchld,
                 PendingSigchld, sigchld, sigterm, status>>

\* ... PendingSigchld = 0 after sig_child() has returned.
ClearPending ==
  /\ At("clear")
  /\ PendingSigchld' = FALSE
  /\ main' = "accept"
  /\ UNCHANGED <<proc, forks, signalled, PIDList, stale, APIChildPID, NoSigchld,
                 sigchld, sigterm, frame, status>>

-------------------------------------------------------------------------------
(* sig_child, in the context that called it. *)

Zombies == {n \in Proc : proc[n] = "zombie"}

\* waitpid(-1, &ret, WNOHANG) returns one of the exited children, and the
\* search for it begins at the first node ...
Reap(f) ==
  /\ Executing(f)
  /\ frame[f].at = "wait"
  /\ \E n \in Zombies :
       /\ proc' = [proc EXCEPT ![n] = "reaped"]
       /\ frame' = [frame EXCEPT ![f].at = "search", ![f].pid = n,
                                 ![f].lpid = FirstNode(PIDList)]
  /\ UNCHANGED <<forks, signalled, PIDList, stale, APIChildPID, NoSigchld,
                 PendingSigchld, sigchld, sigterm, main, status>>

\* ... or none, and sig_child returns.
ReapNone(f) ==
  /\ Executing(f)
  /\ frame[f].at = "wait"
  /\ Zombies = {}
  /\ frame' = [frame EXCEPT ![f] = Idle]
  /\ UNCHANGED <<proc, forks, signalled, PIDList, stale, APIChildPID, NoSigchld,
                 PendingSigchld, sigchld, sigterm, main, status>>

\* Mutants: the deletion leaves the first node; waitpid() is called once; the
\* API server is a child like any other.
WithoutButFirst(list, n) == IF n = FirstNode(list) THEN list ELSE list \ {n}
WaitOnce(n, rest) ==
  IF n = APIChildPID
    THEN [at |-> "kill", pid |-> 0, lpid |-> FirstNode(rest), code |-> SIGCHLD]
    ELSE Idle
NeverTerm(n, rest) == [Idle EXCEPT !.at = "wait"]

\* del_tList_node.
Without(list, n) == list \ {n}

\* sig_term(signal) if process n was the API server, waitpid() again if not.
AfterDelete(n, rest) ==
  IF n = APIChildPID
    THEN [at |-> "kill", pid |-> 0, lpid |-> FirstNode(rest), code |-> SIGCHLD]
    ELSE [Idle EXCEPT !.at = "wait"]

Searching(f) ==
  /\ Executing(f)
  /\ frame[f].at = "search"
  /\ UNCHANGED <<proc, forks, signalled, PIDList, stale, APIChildPID, NoSigchld,
                 PendingSigchld, sigchld, sigterm, main, status>>

\* search_id_tList goes on to the next node.  In the sig_child() the main loop
\* calls, the handler may have freed the node the search is at.
SearchOn(f) ==
  /\ Searching(f)
  /\ frame[f].lpid \notin {0, frame[f].pid}
  /\ frame' = [frame EXCEPT ![f].lpid = Successor(@)]

\* ... returns the node of the pid ...
Found(f) ==
  /\ Searching(f)
  /\ frame[f].lpid = frame[f].pid
  /\ frame' = [frame EXCEPT ![f].at = "delete"]

\* ... or NULL at the end of the list: there is nothing to delete.
NotFound(f) ==
  /\ Searching(f)
  /\ frame[f].lpid = 0
  /\ frame' = [frame EXCEPT ![f] = AfterDelete(frame[f].pid, PIDList)]

\* The node is taken off the list.  It is freed and keeps its next pointer.
Unlist(f) ==
  LET n == frame[f].pid
  IN
  /\ Executing(f)
  /\ frame[f].at = "delete"
  /\ PIDList' = Without(PIDList, n)
  /\ stale' = IF n \in PIDList THEN [stale EXCEPT ![n] = NextNode(PIDList, n)] ELSE stale
  /\ frame' = [frame EXCEPT ![f] = AfterDelete(n, Without(PIDList, n))]
  /\ UNCHANGED <<proc, forks, signalled, APIChildPID, NoSigchld,
                 PendingSigchld, sigchld, sigterm, main, status>>

-------------------------------------------------------------------------------
(* sig_term and the loop of term_main, in the context that called it. *)

\* kill(lpid->ldat.id, SIGTERM) if the id is a pid.  Only a process that
\* still runs notices; the id of a node that was freed meanwhile is garbage.
KillNode(f) ==
  LET n == frame[f].lpid
  IN
  /\ Executing(f)
  /\ frame[f].at = "kill"
  /\ n # 0
  /\ signalled' = IF n \in PIDList /\ proc[n] = "run" THEN signalled \cup {n} ELSE signalled
  /\ frame' = [frame EXCEPT ![f].at = "next"]
  /\ UNCHANGED <<proc, forks, PIDList, stale, APIChildPID, NoSigchld,
                 PendingSigchld, sigchld, sigterm, main, status>>

\* lpid->next.
NextPid(f) ==
  /\ Executing(f)
  /\ frame[f].at = "next"
  /\ frame' = [frame EXCEPT ![f].at = "kill", ![f].lpid = Successor(frame[f].lpid)]
  /\ UNCHANGED <<proc, forks, signalled, PIDList, stale, APIChildPID, NoSigchld,
                 PendingSigchld, sigchld, sigterm, main, status>>

\* exit(): the end of the root process.
Exit(f) ==
  /\ Executing(f)
  /\ frame[f].at = "kill"
  /\ frame[f].lpid = 0
  /\ status' = frame[f].code
  /\ UNCHANGED <<proc, forks, signalled, PIDList, stale, APIChildPID, NoSigchld,
                 PendingSigchld, sigchld, sigterm, main, frame>>

-------------------------------------------------------------------------------
(* The kernel, the children and systemd. *)

\* SIGCHLD is delivered; while NoSigchld is set the handler only takes note.
DeliverSigchld ==
  /\ status = Running
  /\ sigchld
  /\ frame["chld"].at = "idle"
  /\ sigchld' = FALSE
  /\ IF NoSigchld
       THEN /\ PendingSigchld' = TRUE
            /\ UNCHANGED frame
       ELSE /\ frame' = [frame EXCEPT !["chld"].at = "wait"]
            /\ UNCHANGED PendingSigchld
  /\ UNCHANGED <<proc, forks, signalled, PIDList, stale, APIChildPID, NoSigchld,
                 sigterm, main, status>>

\* SIGTERM is delivered; its handler never returns.
DeliverSigterm ==
  /\ status = Running
  /\ sigterm
  /\ frame["chld"].at = "idle"
  /\ frame["term"].at = "idle"
  /\ sigterm' = FALSE
  /\ frame' = [frame EXCEPT !["term"] =
                 [at |-> "kill", pid |-> 0, lpid |-> FirstNode(PIDList), code |-> 0]]
  /\ UNCHANGED <<proc, forks, signalled, PIDList, stale, APIChildPID, NoSigchld,
                 PendingSigchld, sigchld, main, status>>

\* A child ends: receipt_proxy is done, it crashes, or it obeys SIGTERM.
ChildExits(n) ==
  /\ proc[n] = "run"
  /\ IF status = Running
       THEN /\ proc' = [proc EXCEPT ![n] = "zombie"]
            /\ sigchld' = TRUE
       ELSE /\ proc' = [proc EXCEPT ![n] = "reaped"]
            /\ UNCHANGED sigchld
  /\ UNCHANGED <<forks, signalled, PIDList, stale, APIChildPID, NoSigchld,
                 PendingSigchld, sigterm, main, frame, status>>

\* systemctl stop.
Stop ==
  /\ status = Running
  /\ ~sigterm
  /\ frame["term"].at = "idle"
  /\ sigterm' = TRUE
  /\ UNCHANGED <<proc, forks, signalled, PIDList, stale, APIChildPID, NoSigchld,
                 PendingSigchld, sigchld, main, frame, status>>

\* What the program does without waiting for anybody.
RootStep ==
  \/ ForkApi \/ RecordApi \/ AddApi
  \/ Guard \/ AddPid \/ Unguard \/ CheckPending \/ ClearPending
  \/ \E f \in Context :
       \/ Reap(f) \/ ReapNone(f)
       \/ SearchOn(f) \/ Found(f) \/ NotFound(f) \/ Unlist(f)
       \/ KillNode(f) \/ NextPid(f) \/ Exit(f)

Next ==
  \/ RootStep
  \/ AcceptAndFork
  \/ AcceptFails
  \/ DeliverSigchld
  \/ DeliverSigterm
  \/ \E n \in Proc : ChildExits(n)
  \/ Stop

\* The scheduler runs the root and the kernel delivers what is not blocked.
\* Connections, exits of children and systemctl are not obliged to happen.
Fairness ==
  /\ WF_vars(RootStep)
  /\ WF_vars(DeliverSigchld)
  /\ WF_vars(DeliverSigterm)

Spec == Init /\ [][Next]_vars /\ Fairness

-------------------------------------------------------------------------------
(* Properties. *)

\* Every variable has its type.
TypeOK ==
  /\ proc \in [Proc -> {"unborn", "run", "zombie", "reaped", "failed"}]
  /\ forks \in 0 .. MaxForks
  /\ signalled \in SUBSET Proc
  /\ PIDList \in SUBSET Proc
  /\ stale \in [Proc -> Proc \cup {0}]
  /\ APIChildPID \in {0, Api}
  /\ NoSigchld \in BOOLEAN
  /\ PendingSigchld \in BOOLEAN
  /\ sigchld \in BOOLEAN
  /\ sigterm \in BOOLEAN
  /\ main \in {"forkApi", "recordApi", "addApi", "accept", "forked", "guarded",
               "added", "check", "clear"}
  /\ frame \in [Context -> Frame]
  /\ status \in {Running, 0, 1, SIGCHLD}

\* The last process forked is not in the list yet.
ForkWindow == main \in {"recordApi", "addApi", "forked", "guarded"}

\* The root knows every child it has not reaped, but for the one it is just
\* about to enter into the list: sig_child takes no pid off the list that
\* waitpid() has not returned, in whatever order children exit.
LiveChildIsListed ==
  \A n \in Proc : proc[n] \in {"run", "zombie"} =>
    n \in PIDList \/ (ForkWindow /\ n = forks)

\* No exited child is forgotten.  SIGCHLD is not queued, and it is thrown away
\* while NoSigchld is set; still, as long as a zombie exists, a signal is
\* pending, or PendingSigchld is set and will be looked at, or some context is
\* inside sig_child, or the root is shutting down.
ZombieIsAnnounced ==
  status = Running /\ Zombies # {} =>
    \/ sigchld
    \/ PendingSigchld /\ main \in {"guarded", "added", "check"}
    \/ \E f \in Context : frame[f].at # "idle"

\* A pid is stale when it stays in the list although its process was reaped
\* and no context is looking for it or about to delete it.  term_main signals it nevertheless.
StalePid(n) ==
  /\ status = Running
  /\ n \in PIDList
  /\ proc[n] = "reaped"
  /\ ~\E f \in Context : frame[f].at \in {"search", "delete"} /\ frame[f].pid = n

\* A pid becomes stale in one way only: its process exits and is reaped
\* between fork() and the moment the main loop enters it into the list.
StaleOnlyByLateEntry ==
  [][\A n \in Proc : StalePid(n)' /\ ~StalePid(n) =>
       /\ n = forks
       /\ proc[n] = "reaped"
       /\ main \in {"addApi", "guarded"}]_vars

\* When the root is gone, every child that still runs has been sent SIGTERM,
\* but for one that was just being forked.  The loop of term_main keeps this
\* although SIGCHLD frees nodes under it and sig_term may be entered again
\* from sig_child in the middle of the loop.
NoOrphan ==
  status # Running =>
    \A n \in Proc : proc[n] = "run" =>
      n \in signalled \/ (ForkWindow /\ n = forks)

\* Every exited child is reaped, unless the root exits first: a SIGCHLD that
\* came while NoSigchld was set does not wait for the next connection.
ZombieIsReaped ==
  \A n \in Proc : proc[n] = "zombie" ~> (proc[n] = "reaped" \/ status # Running)

\* The proxy does not outlive the API server, provided the API server did not
\* exit before fork_api_server had stored its pid.
ApiDeathStopsProxy ==
  (APIChildPID = Api /\ proc[Api] = "zombie") ~> status # Running

\* systemctl stop ends the root.
StopTerminates == sigterm ~> status # Running

\* sig_term: "if (signal==SIGTERM) signal = 0; // by systemctl stop ....": a
\* root that was stopped by SIGTERM, and whose API server lived until the root
\* sent it SIGTERM too, exits with status 0.
StopIsClean ==
  status # Running /\ frame["term"].at # "idle" /\ Api \in signalled => status = 0
===============================================================================
