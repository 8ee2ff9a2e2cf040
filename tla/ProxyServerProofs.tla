--------------------------- MODULE ProxyServerProofs ---------------------------
(***************************************************************************)
(* Proofs about ProxyServer, for any number of forks: its types, that the  *)
(* root never loses a live child, that no exited child is forgotten, and   *)
(* the only way in which a pid becomes stale.                              *)
(***************************************************************************)
EXTENDS ProxyServer, WellFoundedInduction, TLAPS

-------------------------------------------------------------------------------
(* The list. *)

\* A nonempty list has a first node.
LEMMA FirstNodeProperties ==
  ASSUME NEW list \in SUBSET Proc
  PROVE  /\ list = {} => FirstNode(list) = 0
         /\ list # {} => /\ FirstNode(list) \in list
                         /\ \A n \in list : FirstNode(list) <= n
<1>1. CASE list = {}
  BY <1>1 DEF FirstNode
<1>2. CASE list # {}
  <2>1. list \subseteq Nat
    BY ForksAssumption DEF Proc
  <2>2. PICK x \in list : \A y \in list : <<y, x>> \notin OpToRel(<, Nat)
    BY <1>2, <2>1, NatLessThanWellFounded, WFMin, Zenon
  <2>3. OpToRel(<, Nat) = {ss \in Nat \X Nat : ss[1] < ss[2]}
    BY Zenon DEF OpToRel
  <2>4. ASSUME NEW y \in list PROVE x <= y
    <3>1. <<y, x>> \notin {ss \in Nat \X Nat : ss[1] < ss[2]}
      BY <2>2, <2>3, Zenon
    <3>2. QED
      BY <2>1, <3>1
  <2>5. QED
    BY <1>2, <2>4 DEF FirstNode, Min
<1>3. QED
  BY <1>1, <1>2

LEMMA NodeTypes ==
  ASSUME NEW list \in SUBSET Proc, NEW n
  PROVE  /\ FirstNode(list) \in Proc \cup {0}
         /\ NextNode(list, n) \in Proc \cup {0}
BY FirstNodeProperties DEF NextNode

-------------------------------------------------------------------------------
(* The inductive invariant. *)

\* Processes are numbered in the order of the calls of fork().
ForksInOrder ==
  /\ \A n \in Proc : n > forks => proc[n] = "unborn"
  /\ forks = 0 <=> main = "forkApi"
  /\ main \in {"recordApi", "addApi"} => forks = 1

\* The signal functions work on pids that waitpid() returned, and on nodes.
FramesAreSound ==
  \A f \in Context :
    /\ frame[f].at \in {"search", "delete"} =>
         frame[f].pid \in Proc /\ proc[frame[f].pid] = "reaped"
    /\ frame[f].at = "next" => frame[f].lpid \in Proc

\* The flag is up while the main loop enters a pid into the list.
GuardedEntry == NoSigchld <=> main \in {"guarded", "added"}

Inv ==
  /\ TypeOK
  /\ ForksInOrder
  /\ FramesAreSound
  /\ GuardedEntry
  /\ LiveChildIsListed
  /\ ZombieIsAnnounced

LEMMA InitInv == Init => Inv
<1> SUFFICES ASSUME Init PROVE Inv
  OBVIOUS
<1>1. TypeOK
  <2>1. Idle \in Frame
    BY DEF Idle, Frame
  <2>2. frame \in [Context -> Frame]
    BY <2>1 DEF Init
  <2>3. 0 \in 0 .. MaxForks
    BY ForksAssumption
  <2>4. QED
    BY <2>2, <2>3 DEF Init, TypeOK
<1>2. \A n \in Proc : proc[n] = "unborn"
  BY DEF Init
<1>3. \A f \in Context : frame[f].at = "idle"
  BY DEF Init, Idle
<1>4. ForksInOrder /\ GuardedEntry
  BY <1>2 DEF Init, ForksInOrder, GuardedEntry
<1>5. QED
  BY <1>1, <1>2, <1>3, <1>4
     DEF Inv, FramesAreSound, LiveChildIsListed, ZombieIsAnnounced, Zombies

\* What it means to give one context another frame.
LEMMA FrameChange ==
  ASSUME TypeOK, NEW f \in Context, NEW r \in Frame,
         frame' = [frame EXCEPT ![f] = r]
  PROVE  /\ frame' \in [Context -> Frame]
         /\ frame'[f] = r
         /\ \A g \in Context : g # f => frame'[g] = frame[g]
BY DEF TypeOK

\* A step that does nothing to the processes, the list and the flags.
Quiet ==
  /\ signalled' \in SUBSET Proc
  /\ sigterm' \in BOOLEAN
  /\ sigchld' \in BOOLEAN
  /\ main' = main \/ (main = "check" /\ main' = "clear")
  /\ UNCHANGED <<proc, forks, PIDList, stale, APIChildPID, NoSigchld,
                 PendingSigchld, status>>

\* If it gives a context a frame that is not idle, and one that works on a
\* reaped pid if it works on any, it keeps the invariant.
LEMMA FrameStep ==
  ASSUME Inv, Quiet, NEW f \in Context, NEW r \in Frame,
         frame' = [frame EXCEPT ![f] = r],
         r.at \in {"wait", "search", "delete", "kill", "next"},
         r.at \in {"search", "delete"} => r.pid \in Proc /\ proc[r.pid] = "reaped",
         r.at = "next" => r.lpid \in Proc
  PROVE  Inv'
<1>1. /\ frame' \in [Context -> Frame]
      /\ frame'[f] = r
      /\ \A g \in Context : g # f => frame'[g] = frame[g]
  BY FrameChange DEF Inv
<1>2. TypeOK'
  BY <1>1 DEF Quiet, Inv, TypeOK
<1>3. ForksInOrder' /\ GuardedEntry'
  BY DEF Quiet, Inv, TypeOK, ForksInOrder, GuardedEntry
<1>4. FramesAreSound'
  BY <1>1 DEF Quiet, Inv, FramesAreSound
<1>5. LiveChildIsListed'
  BY DEF Quiet, Inv, LiveChildIsListed, ForkWindow
<1>6. ZombieIsAnnounced'
  BY <1>1 DEF ZombieIsAnnounced
<1>7. QED
  BY <1>2, <1>3, <1>4, <1>5, <1>6 DEF Inv

LEMMA NextInv == Inv /\ [Next]_vars => Inv'
<1> SUFFICES ASSUME Inv, [Next]_vars PROVE Inv'
  OBVIOUS
<1>1. CASE ForkApi
  BY <1>1, ForksAssumption
     DEF Inv, TypeOK, ForksInOrder, FramesAreSound, GuardedEntry, LiveChildIsListed,
         ZombieIsAnnounced, ForkWindow, Zombies, Proc, At, Executing, Context,
         Running, Api, ForkApi, Fork
<1>2. CASE RecordApi
  BY <1>2, ForksAssumption
     DEF Inv, TypeOK, ForksInOrder, FramesAreSound, GuardedEntry, LiveChildIsListed,
         ZombieIsAnnounced, ForkWindow, Zombies, Proc, At, Executing, Context,
         Running, Api, RecordApi
<1>3. CASE AddApi
  BY <1>3, ForksAssumption
     DEF Inv, TypeOK, ForksInOrder, FramesAreSound, GuardedEntry, LiveChildIsListed,
         ZombieIsAnnounced, ForkWindow, Zombies, Proc, At, Executing, Context,
         Running, Api, AddApi
<1>4. CASE AcceptAndFork
  BY <1>4, ForksAssumption
     DEF Inv, TypeOK, ForksInOrder, FramesAreSound, GuardedEntry, LiveChildIsListed,
         ZombieIsAnnounced, ForkWindow, Zombies, Proc, At, Executing, Context,
         Running, Api, AcceptAndFork, Fork
<1>5. CASE AcceptFails
  <2> DEFINE r == [at |-> "kill", pid |-> 0, lpid |-> FirstNode(PIDList), code |-> 1]
  <2>1. r \in Frame /\ r.at = "kill"
    BY NodeTypes DEF Inv, TypeOK, Frame
  <2>2. frame' = [frame EXCEPT !["main"] = r]
    BY <1>5 DEF AcceptFails
  <2> HIDE DEF r
  <2>3. "main" \in Context
    BY DEF Context
  <2>4. Quiet
    BY <1>5 DEF AcceptFails, Quiet, Inv, TypeOK
  <2>5. QED
    BY <2>1, <2>2, <2>3, <2>4, FrameStep
<1>6. CASE Guard
  BY <1>6, ForksAssumption
     DEF Inv, TypeOK, ForksInOrder, FramesAreSound, GuardedEntry, LiveChildIsListed,
         ZombieIsAnnounced, ForkWindow, Zombies, Proc, At, Executing, Context,
         Running, Api, Guard
<1>7. CASE AddPid
  BY <1>7, ForksAssumption
     DEF Inv, TypeOK, ForksInOrder, FramesAreSound, GuardedEntry, LiveChildIsListed,
         ZombieIsAnnounced, ForkWindow, Zombies, Proc, At, Executing, Context,
         Running, Api, AddPid
<1>8. CASE Unguard
  BY <1>8, ForksAssumption
     DEF Inv, TypeOK, ForksInOrder, FramesAreSound, GuardedEntry, LiveChildIsListed,
         ZombieIsAnnounced, ForkWindow, Zombies, Proc, At, Executing, Context,
         Running, Api, Unguard
<1>9. CASE CheckPending
  <2>1. CASE PendingSigchld
    <3> DEFINE r == [frame["main"] EXCEPT !.at = "wait"]
    <3>1. "main" \in Context
      BY DEF Context
    <3>2. r \in Frame /\ r.at = "wait"
      BY <3>1 DEF Inv, TypeOK, Frame
    <3>3. frame' = [frame EXCEPT !["main"] = r]
      BY <1>9, <2>1 DEF CheckPending
    <3> HIDE DEF r
    <3>4. Quiet
      BY <1>9, <2>1 DEF CheckPending, At, Quiet, Inv, TypeOK
    <3>5. QED
      BY <3>1, <3>2, <3>3, <3>4, FrameStep
  <2>2. CASE ~PendingSigchld
    BY <1>9, <2>2, ForksAssumption
       DEF Inv, TypeOK, ForksInOrder, FramesAreSound, GuardedEntry, LiveChildIsListed,
           ZombieIsAnnounced, ForkWindow, Zombies, Proc, At, Executing, Context,
           Running, Api, CheckPending
  <2>3. QED
    BY <2>1, <2>2
<1>10. CASE ClearPending
  BY <1>10, ForksAssumption
     DEF Inv, TypeOK, ForksInOrder, FramesAreSound, GuardedEntry, LiveChildIsListed,
         ZombieIsAnnounced, ForkWindow, Zombies, Proc, At, Executing, Context,
         Running, Api, ClearPending
<1>11. CASE DeliverSigchld
  <2>1. CASE NoSigchld
    BY <1>11, <2>1, ForksAssumption
       DEF Inv, TypeOK, ForksInOrder, FramesAreSound, GuardedEntry, LiveChildIsListed,
           ZombieIsAnnounced, ForkWindow, Zombies, Proc, At, Executing, Context,
           Running, Api, DeliverSigchld
  <2>2. CASE ~NoSigchld
    <3> DEFINE r == [frame["chld"] EXCEPT !.at = "wait"]
    <3>1. "chld" \in Context
      BY DEF Context
    <3>2. r \in Frame /\ r.at = "wait"
      BY <3>1 DEF Inv, TypeOK, Frame
    <3>3. frame' = [frame EXCEPT !["chld"] = r]
      BY <1>11, <2>2 DEF DeliverSigchld
    <3> HIDE DEF r
    <3>4. Quiet
      BY <1>11, <2>2 DEF DeliverSigchld, Quiet, Inv, TypeOK
    <3>5. QED
      BY <3>1, <3>2, <3>3, <3>4, FrameStep
  <2>3. QED
    BY <2>1, <2>2
<1>12. CASE DeliverSigterm
  <2> DEFINE r == [at |-> "kill", pid |-> 0, lpid |-> FirstNode(PIDList), code |-> 0]
  <2>1. r \in Frame /\ r.at = "kill"
    BY NodeTypes DEF Inv, TypeOK, Frame
  <2>2. frame' = [frame EXCEPT !["term"] = r]
    BY <1>12 DEF DeliverSigterm
  <2> HIDE DEF r
  <2>3. "term" \in Context
    BY DEF Context
  <2>4. Quiet
    BY <1>12 DEF DeliverSigterm, Quiet, Inv, TypeOK
  <2>5. QED
    BY <2>1, <2>2, <2>3, <2>4, FrameStep
<1>13. CASE Stop
  BY <1>13, ForksAssumption
     DEF Inv, TypeOK, ForksInOrder, FramesAreSound, GuardedEntry, LiveChildIsListed,
         ZombieIsAnnounced, ForkWindow, Zombies, Proc, At, Executing, Context,
         Running, Api, Stop
<1>14. ASSUME NEW f \in Context, Reap(f) PROVE Inv'
  <2>1. PICK n \in Zombies :
          /\ proc' = [proc EXCEPT ![n] = "reaped"]
          /\ frame' = [frame EXCEPT ![f].at = "search", ![f].pid = n,
                                    ![f].lpid = FirstNode(PIDList)]
    BY <1>14 DEF Reap
  <2> DEFINE r == [frame[f] EXCEPT !.at = "search", !.pid = n, !.lpid = FirstNode(PIDList)]
  <2>2. r \in Frame /\ r.at = "search" /\ r.pid = n
    <3>1. FirstNode(PIDList) \in Proc \cup {0}
      BY NodeTypes DEF Inv, TypeOK
    <3>2. QED
      BY <2>1, <3>1 DEF Inv, TypeOK, Frame, Zombies
  <2>3. frame' = [frame EXCEPT ![f] = r]
    BY <2>1 DEF Inv, TypeOK, Frame
  <2> HIDE DEF r
  <2>4. /\ frame' \in [Context -> Frame]
        /\ frame'[f] = r
        /\ \A g \in Context : g # f => frame'[g] = frame[g]
    BY <2>2, <2>3, FrameChange DEF Inv
  <2>5. n \in Proc /\ proc[n] = "zombie" /\ proc'[n] = "reaped"
    BY <2>1 DEF Zombies, Inv, TypeOK
  <2>6. \A m \in Proc : m # n => proc'[m] = proc[m]
    BY <2>1 DEF Inv, TypeOK
  <2>7. TypeOK'
    BY <1>14, <2>1, <2>4, <2>5 DEF Reap, Inv, TypeOK
  <2>8. ForksInOrder' /\ GuardedEntry'
    BY <1>14, <2>5, <2>6 DEF Reap, Inv, ForksInOrder, GuardedEntry
  <2>9. FramesAreSound'
    BY <2>2, <2>4, <2>5, <2>6 DEF Inv, FramesAreSound
  <2>10. LiveChildIsListed'
    BY <1>14, <2>5, <2>6 DEF Reap, Inv, LiveChildIsListed, ForkWindow
  <2>11. ZombieIsAnnounced'
    BY <2>2, <2>4 DEF ZombieIsAnnounced
  <2>12. QED
    BY <2>7, <2>8, <2>9, <2>10, <2>11 DEF Inv
<1>15. ASSUME NEW f \in Context, ReapNone(f) PROVE Inv'
  <2>1. Idle \in Frame /\ Idle.at = "idle"
    BY DEF Idle, Frame
  <2>2. /\ frame' \in [Context -> Frame]
        /\ frame'[f] = Idle
        /\ \A g \in Context : g # f => frame'[g] = frame[g]
    BY <1>15, <2>1, FrameChange DEF Inv, ReapNone
  <2>3. TypeOK'
    BY <1>15, <2>2 DEF ReapNone, Inv, TypeOK
  <2>4. ForksInOrder' /\ GuardedEntry'
    BY <1>15 DEF ReapNone, Inv, ForksInOrder, GuardedEntry
  <2>5. FramesAreSound'
    BY <1>15, <2>1, <2>2 DEF ReapNone, Inv, FramesAreSound
  <2>6. LiveChildIsListed'
    BY <1>15 DEF ReapNone, Inv, LiveChildIsListed, ForkWindow
  <2>7. ZombieIsAnnounced'
    BY <1>15 DEF ReapNone, ZombieIsAnnounced, Zombies
  <2>8. QED
    BY <2>3, <2>4, <2>5, <2>6, <2>7 DEF Inv
<1>16. ASSUME NEW f \in Context, Unlist(f) PROVE Inv'
  <2> DEFINE n == frame[f].pid
             rest == PIDList \ {n}
             r == IF n = APIChildPID
                    THEN [at |-> "kill", pid |-> 0, lpid |-> FirstNode(rest), code |-> SIGCHLD]
                    ELSE [Idle EXCEPT !.at = "wait"]
  <2>1. n \in Proc /\ proc[n] = "reaped"
    BY <1>16 DEF Unlist, Without, AfterDelete, Inv, FramesAreSound
  <2>2. r \in Frame /\ r.at \in {"wait", "kill"}
    <3>1. FirstNode(rest) \in Proc \cup {0}
      BY NodeTypes DEF Inv, TypeOK
    <3>2. QED
      BY <3>1 DEF Frame, Idle
  <2>3. /\ frame' = [frame EXCEPT ![f] = r]
        /\ PIDList' = rest
        /\ stale' = IF n \in PIDList THEN [stale EXCEPT ![n] = NextNode(PIDList, n)] ELSE stale
        /\ UNCHANGED <<proc, forks, signalled, APIChildPID, NoSigchld,
                       PendingSigchld, sigchld, sigterm, main, status>>
    BY <1>16 DEF Unlist, Without, AfterDelete
  <2> HIDE DEF r
  <2>4. /\ frame' \in [Context -> Frame]
        /\ frame'[f] = r
        /\ \A g \in Context : g # f => frame'[g] = frame[g]
    BY <2>2, <2>3, FrameChange DEF Inv
  <2>5. stale' \in [Proc -> Proc \cup {0}]
    BY <2>1, <2>3, NodeTypes DEF Inv, TypeOK
  <2>6. TypeOK'
    BY <2>3, <2>4, <2>5 DEF Inv, TypeOK
  <2>7. ForksInOrder' /\ GuardedEntry'
    BY <2>3 DEF Inv, ForksInOrder, GuardedEntry
  <2>8. FramesAreSound'
    BY <2>2, <2>3, <2>4 DEF Inv, FramesAreSound
  <2>9. LiveChildIsListed'
    BY <2>1, <2>3 DEF Inv, LiveChildIsListed, ForkWindow
  <2>10. ZombieIsAnnounced'
    BY <2>2, <2>3, <2>4 DEF ZombieIsAnnounced
  <2>11. QED
    BY <2>6, <2>7, <2>8, <2>9, <2>10 DEF Inv
<1>17. ASSUME NEW f \in Context, KillNode(f) PROVE Inv'
  <2> DEFINE r == [frame[f] EXCEPT !.at = "next"]
  <2>1. frame[f] \in Frame /\ frame[f].lpid # 0
    BY <1>17 DEF KillNode, Inv, TypeOK
  <2>2. r \in Frame /\ r.at = "next" /\ r.lpid \in Proc
    BY <2>1 DEF Frame
  <2>3. /\ frame' = [frame EXCEPT ![f] = r]
        /\ signalled' \in SUBSET Proc
    <3>1. frame[f].lpid \in Proc
      BY <2>1 DEF Frame
    <3>2. QED
      BY <1>17, <3>1 DEF KillNode, Inv, TypeOK
  <2> HIDE DEF r
  <2>4. Quiet
    BY <1>17, <2>3 DEF KillNode, Quiet, Inv, TypeOK
  <2>5. QED
    BY <2>2, <2>3, <2>4, FrameStep
<1>18. ASSUME NEW f \in Context, NextPid(f) PROVE Inv'
  <2> DEFINE n == frame[f].lpid
             m == IF n \in PIDList THEN NextNode(PIDList, n) ELSE stale[n]
             r == [frame[f] EXCEPT !.at = "kill", !.lpid = m]
  <2>1. frame[f] \in Frame /\ n \in Proc
    BY <1>18 DEF NextPid, Successor, Inv, TypeOK, FramesAreSound
  <2>2. m \in Proc \cup {0}
    BY <2>1, NodeTypes DEF Inv, TypeOK
  <2>3. frame' = [frame EXCEPT ![f].at = "kill", ![f].lpid = m]
    BY <1>18 DEF NextPid, Successor
  <2> HIDE DEF m
  <2>4. frame' = [frame EXCEPT ![f] = r]
    BY <2>1, <2>3 DEF Inv, TypeOK, Frame
  <2>5. r \in Frame /\ r.at = "kill"
    BY <2>1, <2>2 DEF Frame
  <2> HIDE DEF r
  <2>6. Quiet
    BY <1>18 DEF NextPid, Successor, Quiet, Inv, TypeOK
  <2>7. QED
    BY <2>4, <2>5, <2>6, FrameStep
<1>19. ASSUME NEW f \in Context, Exit(f) PROVE Inv'
  <2>1. status' \in {0, 1, SIGCHLD}
    BY <1>19 DEF Exit, Inv, TypeOK, Frame
  <2>2. QED
    BY <1>19, <2>1 DEF Exit, Inv, TypeOK, ForksInOrder, FramesAreSound, GuardedEntry,
       LiveChildIsListed, ZombieIsAnnounced, ForkWindow, Running, SIGCHLD
<1>20. ASSUME NEW n \in Proc, ChildExits(n) PROVE Inv'
  <2>1. /\ proc[n] = "run"
        /\ proc'[n] \in {"zombie", "reaped"}
        /\ \A m \in Proc : m # n => proc'[m] = proc[m]
        /\ proc' \in [Proc -> {"unborn", "run", "zombie", "reaped", "failed"}]
    BY <1>20 DEF ChildExits, Inv, TypeOK
  <2>2. TypeOK'
    BY <1>20, <2>1 DEF ChildExits, Inv, TypeOK
  <2>3. ForksInOrder' /\ GuardedEntry'
    BY <1>20, <2>1 DEF ChildExits, Inv, ForksInOrder, GuardedEntry
  <2>4. FramesAreSound'
    BY <1>20, <2>1 DEF ChildExits, Inv, FramesAreSound
  <2>5. LiveChildIsListed'
    BY <1>20, <2>1 DEF ChildExits, Inv, LiveChildIsListed, ForkWindow
  <2>6. ZombieIsAnnounced'
    BY <1>20 DEF ChildExits, ZombieIsAnnounced
  <2>7. QED
    BY <2>2, <2>3, <2>4, <2>5, <2>6 DEF Inv
<1>21. ASSUME NEW f \in Context, SearchOn(f) PROVE Inv'
  <2> DEFINE n == frame[f].lpid
             m == IF n \in PIDList THEN NextNode(PIDList, n) ELSE stale[n]
             r == [frame[f] EXCEPT !.lpid = m]
  <2>1. frame[f] \in Frame /\ frame[f].at = "search" /\ n \in Proc
    BY <1>21 DEF SearchOn, Searching, Inv, TypeOK, Frame
  <2>2. m \in Proc \cup {0}
    BY <2>1, NodeTypes DEF Inv, TypeOK
  <2>3. frame' = [frame EXCEPT ![f].lpid = m]
    BY <1>21 DEF SearchOn, Successor
  <2> HIDE DEF m
  <2>4. frame' = [frame EXCEPT ![f] = r]
    BY <2>1, <2>3 DEF Inv, TypeOK, Frame
  <2>5. r \in Frame /\ r.at = "search" /\ r.pid = frame[f].pid
    BY <2>1, <2>2 DEF Frame
  <2>6. r.pid \in Proc /\ proc[r.pid] = "reaped"
    BY <2>1, <2>5 DEF Inv, FramesAreSound
  <2> HIDE DEF r
  <2>7. Quiet
    BY <1>21 DEF SearchOn, Searching, Quiet, Inv, TypeOK
  <2>8. QED
    BY <2>4, <2>5, <2>6, <2>7, FrameStep
<1>22. ASSUME NEW f \in Context, Found(f) PROVE Inv'
  <2> DEFINE r == [frame[f] EXCEPT !.at = "delete"]
  <2>1. frame[f] \in Frame /\ frame[f].at = "search"
    BY <1>22 DEF Found, Searching, Inv, TypeOK
  <2>2. r \in Frame /\ r.at = "delete" /\ r.pid = frame[f].pid
    BY <2>1 DEF Frame
  <2>3. r.pid \in Proc /\ proc[r.pid] = "reaped"
    BY <2>1, <2>2 DEF Inv, FramesAreSound
  <2>4. frame' = [frame EXCEPT ![f] = r]
    BY <1>22 DEF Found
  <2> HIDE DEF r
  <2>5. Quiet
    BY <1>22 DEF Found, Searching, Quiet, Inv, TypeOK
  <2>6. QED
    BY <2>2, <2>3, <2>4, <2>5, FrameStep
<1>23. ASSUME NEW f \in Context, NotFound(f) PROVE Inv'
  <2> DEFINE r == IF frame[f].pid = APIChildPID
                    THEN [at |-> "kill", pid |-> 0, lpid |-> FirstNode(PIDList), code |-> SIGCHLD]
                    ELSE [Idle EXCEPT !.at = "wait"]
  <2>1. r \in Frame /\ r.at \in {"wait", "kill"}
    <3>1. FirstNode(PIDList) \in Proc \cup {0}
      BY NodeTypes DEF Inv, TypeOK
    <3>2. QED
      BY <3>1 DEF Frame, Idle
  <2>2. frame' = [frame EXCEPT ![f] = r]
    BY <1>23 DEF NotFound, AfterDelete
  <2> HIDE DEF r
  <2>3. Quiet
    BY <1>23 DEF NotFound, Searching, Quiet, Inv, TypeOK
  <2>4. QED
    BY <2>1, <2>2, <2>3, FrameStep
<1>24. CASE UNCHANGED vars
  BY <1>24 DEF vars, Inv, TypeOK, ForksInOrder, FramesAreSound, GuardedEntry,
     LiveChildIsListed, ZombieIsAnnounced, ForkWindow, Zombies
<1>25. QED
  BY <1>1, <1>2, <1>3, <1>4, <1>5, <1>6, <1>7, <1>8, <1>9, <1>10, <1>11, <1>12,
     <1>13, <1>14, <1>15, <1>16, <1>17, <1>18, <1>19, <1>20, <1>21, <1>22, <1>23,
     <1>24
     DEF Next, RootStep

\* Every variable has its type.
THEOREM TypeCorrect == Spec => []TypeOK
BY InitInv, NextInv, PTL DEF Spec, Inv

\* No child the root has not reaped is missing from PIDList, but for the one
\* that is just being entered.
THEOREM ChildrenAreListed == Spec => []LiveChildIsListed
BY InitInv, NextInv, PTL DEF Spec, Inv

\* No exited child is forgotten, although SIGCHLD is not queued and thrown
\* away while NoSigchld is set.
THEOREM ZombiesAreAnnounced == Spec => []ZombieIsAnnounced
BY InitInv, NextInv, PTL DEF Spec, Inv

-------------------------------------------------------------------------------
(* Walks through the list.  The loop of term_main, and the search of the        *)
(* sig_child() that the main loop calls, walk a list that the handler shrinks   *)
(* under them, through nodes that are freed already.  What keeps them on course *)
(* is that the nodes freed since they started still lead back into the list,    *)
(* and that nobody extends the list as long as there is a walk.                 *)

\* G: nodes that were freed while a walk was under way.
FreedNodesLeadOn(G) ==
  \A m \in G :
    /\ m \notin PIDList
    /\ stale[m] \in G \cup PIDList \cup {0}
    /\ \A n \in PIDList : n > m => stale[m] # 0 /\ stale[m] <= n

InLoop(f) == frame[f].at \in {"kill", "next"}

Ahead(f, n) ==
  IF frame[f].at = "kill" THEN frame[f].lpid # 0 /\ frame[f].lpid <= n
                          ELSE frame[f].lpid < n

LoopsReachAll(G) ==
  \A f \in Context : InLoop(f) =>
    /\ frame[f].lpid \in G \cup PIDList \cup {0}
    /\ \A n \in PIDList : proc[n] = "run" => n \in signalled \/ Ahead(f, n)

\* A search for a pid that is in the list has not passed its node.
SearchesReach(G) ==
  \A f \in Context : frame[f].at = "search" =>
    /\ frame[f].lpid \in G \cup PIDList \cup {0}
    /\ frame[f].pid \in PIDList => frame[f].lpid # 0 /\ frame[f].lpid <= frame[f].pid

LoopInv ==
  \E G \in SUBSET Proc : FreedNodesLeadOn(G) /\ LoopsReachAll(G) /\ SearchesReach(G)

Walking(f) == InLoop(f) \/ frame[f].at = "search"

\* As long as no context walks there is nothing to show.
LEMMA NoLoop == (\A f \in Context : ~Walking(f)) => LoopInv
<1>1. FreedNodesLeadOn({})
  BY DEF FreedNodesLeadOn
<1>2. {} \in SUBSET Proc
  OBVIOUS
<1>3. QED
  BY <1>1, <1>2 DEF LoopInv, LoopsReachAll, SearchesReach, Walking

\* The next pointer of a node, freed or not, misses no node of the list.
LEMMA SuccessorLeadsOn ==
  ASSUME Inv, NEW G \in SUBSET Proc, FreedNodesLeadOn(G), NEW m \in G \cup PIDList
  PROVE  /\ Successor(m) \in G \cup PIDList \cup {0}
         /\ \A n \in PIDList : m < n => Successor(m) # 0 /\ Successor(m) <= n
<1> DEFINE k == IF m \in PIDList THEN NextNode(PIDList, m) ELSE stale[m]
<1>a. /\ PIDList \in SUBSET Proc /\ Proc \subseteq Nat /\ 0 \notin Proc
      /\ m \in Nat
  BY ForksAssumption DEF Inv, TypeOK, Proc
<1>1. CASE m \in PIDList
  <2> DEFINE later == {n \in PIDList : n > m}
  <2>1. later \in SUBSET Proc
    BY <1>a
  <2>2. /\ later = {} => FirstNode(later) = 0
        /\ later # {} => /\ FirstNode(later) \in later
                         /\ \A n \in later : FirstNode(later) <= n
    BY <2>1, FirstNodeProperties
  <2>3. k = FirstNode(later) /\ 0 \notin later
    BY <1>a, <1>1, <2>1 DEF NextNode
  <2>4. \A n \in PIDList : m < n => n \in later
    BY <1>a
  <2>5. later \subseteq PIDList
    OBVIOUS
  <2>6. Successor(m) = k
    BY DEF Successor
  <2> HIDE DEF later, k
  <2>7. QED
    BY <2>2, <2>3, <2>4, <2>5, <2>6
<1>2. CASE m \notin PIDList
  <2>1. m \in G
    BY <1>2
  <2>2. /\ stale[m] \in G \cup PIDList \cup {0}
        /\ \A n \in PIDList : n > m => stale[m] # 0 /\ stale[m] <= n
    BY <2>1 DEF FreedNodesLeadOn
  <2>3. \A n \in PIDList : m < n => n > m
    BY <1>a
  <2>4. QED
    BY <1>2, <2>2, <2>3 DEF Successor
<1>3. QED
  BY <1>1, <1>2

\* A step that leaves the list alone, ends children and gives one context at
\* most another frame, whose walk reaches what it has to reach.
LEMMA LoopStep ==
  ASSUME Inv, Inv', NEW G \in SUBSET Proc,
         FreedNodesLeadOn(G), LoopsReachAll(G), SearchesReach(G),
         UNCHANGED <<PIDList, stale>>, signalled \subseteq signalled',
         \A n \in PIDList : proc'[n] = "run" => proc[n] = "run",
         NEW f \in Context,
         \A g \in Context : g # f => frame'[g] = frame[g],
         InLoop(f)' =>
           /\ frame'[f].lpid \in G \cup PIDList \cup {0}
           /\ \A n \in PIDList : proc[n] = "run" => n \in signalled' \/ Ahead(f, n)',
         frame'[f].at = "search" =>
           /\ frame'[f].lpid \in G \cup PIDList \cup {0}
           /\ frame'[f].pid \in PIDList =>
                frame'[f].lpid # 0 /\ frame'[f].lpid <= frame'[f].pid
  PROVE  LoopInv'
<1>1. FreedNodesLeadOn(G)'
  BY DEF FreedNodesLeadOn
<1>2. LoopsReachAll(G)'
  BY DEF LoopsReachAll, InLoop, Ahead
<1>3. SearchesReach(G)'
  BY DEF SearchesReach
<1>4. QED
  BY <1>1, <1>2, <1>3 DEF LoopInv

LEMMA LoopNext == Inv /\ Inv' /\ LoopInv /\ Next => LoopInv'
<1> SUFFICES ASSUME Inv, Inv', LoopInv, Next PROVE LoopInv'
  OBVIOUS
<1> PICK G \in SUBSET Proc : FreedNodesLeadOn(G) /\ LoopsReachAll(G) /\ SearchesReach(G)
  BY DEF LoopInv
<1>0. /\ frame \in [Context -> Frame] /\ frame' \in [Context -> Frame]
      /\ proc \in [Proc -> {"unborn", "run", "zombie", "reaped", "failed"}]
  BY DEF Inv, TypeOK
<1>a. PIDList \in SUBSET Proc /\ Proc \subseteq Nat /\ 0 \notin Proc
  BY ForksAssumption DEF Inv, TypeOK, Proc
<1>b. \A n \in G \cup PIDList : n \in Proc /\ n \in Nat /\ n # 0
  BY <1>a
\* The main loop executes only when no context walks.
<1>1. ASSUME NEW pc, At(pc), frame' = frame PROVE LoopInv'
  <2>1. \A f \in Context : ~Walking(f)
    BY <1>1 DEF At, Executing, Context, InLoop, Walking
  <2>2. \A f \in Context : ~Walking(f)'
    BY <1>1, <2>1 DEF InLoop, Walking
  <2>3. (\A f \in Context : ~Walking(f))' => LoopInv'
    BY NoLoop, PTL
  <2>4. QED
    BY <2>2, <2>3
<1>2. CASE \/ ForkApi \/ RecordApi \/ AddApi \/ AcceptAndFork \/ Guard \/ AddPid
           \/ Unguard \/ ClearPending
  BY <1>1, <1>2 DEF ForkApi, RecordApi, AddApi, AcceptAndFork, Guard, AddPid, Unguard,
     ClearPending
\* A context enters sig_term: its loop has the whole list ahead of it.
<1>3. ASSUME NEW f \in Context, NEW code,
             frame' = [frame EXCEPT ![f] = [at |-> "kill", pid |-> 0,
                                            lpid |-> FirstNode(PIDList), code |-> code]],
             UNCHANGED <<PIDList, stale, signalled, proc>>
      PROVE  LoopInv'
  <2>1. frame'[f].at = "kill" /\ frame'[f].lpid = FirstNode(PIDList)
    BY <1>0, <1>3
  <2>2. \A g \in Context : g # f => frame'[g] = frame[g]
    BY <1>0, <1>3
  <2>3. FirstNode(PIDList) \in PIDList \cup {0}
    BY <1>a, FirstNodeProperties
  <2>4. ASSUME NEW n \in PIDList PROVE Ahead(f, n)'
    <3>1. FirstNode(PIDList) \in PIDList /\ FirstNode(PIDList) <= n
      BY <1>a, FirstNodeProperties
    <3>2. FirstNode(PIDList) # 0
      BY <1>b, <3>1
    <3>3. QED
      BY <2>1, <3>1, <3>2 DEF Ahead
  <2>5. QED
    BY <1>3, <2>1, <2>2, <2>3, <2>4, LoopStep
<1>4. CASE AcceptFails
  BY <1>3, <1>4 DEF AcceptFails, Context
<1>5. CASE DeliverSigterm
  BY <1>3, <1>5 DEF DeliverSigterm, Context
\* Steps that start, continue or end sig_child.
<1>6. ASSUME NEW f \in Context, ~Walking(f)',
             \A g \in Context : g # f => frame'[g] = frame[g],
             \A n \in PIDList : proc'[n] = "run" => proc[n] = "run",
             UNCHANGED <<PIDList, stale, signalled>>
      PROVE  LoopInv'
  BY <1>6, LoopStep DEF Walking
<1>7. CASE CheckPending
  <2>1. CASE PendingSigchld
    <3>1. "main" \in Context /\ frame'["main"].at = "wait"
      BY <1>0, <1>7, <2>1 DEF CheckPending, Context, Frame
    <3>2. /\ UNCHANGED <<PIDList, stale, signalled, proc>>
          /\ \A g \in Context : g # "main" => frame'[g] = frame[g]
      BY <1>0, <1>7, <2>1 DEF CheckPending
    <3>3. QED
      BY <1>6, <3>1, <3>2 DEF InLoop, Walking
  <2>2. CASE ~PendingSigchld
    BY <1>1, <1>7, <2>2 DEF CheckPending
  <2>3. QED
    BY <2>1, <2>2
<1>8. ASSUME frame' = frame,
             \A n \in PIDList : proc'[n] = "run" => proc[n] = "run",
             UNCHANGED <<PIDList, stale, signalled>>
      PROVE  LoopInv'
  <2>1. FreedNodesLeadOn(G)' /\ LoopsReachAll(G)' /\ SearchesReach(G)'
    BY <1>8 DEF FreedNodesLeadOn, LoopsReachAll, SearchesReach, InLoop, Ahead
  <2>2. QED
    BY <2>1 DEF LoopInv
<1>9. CASE DeliverSigchld
  <2>1. CASE NoSigchld
    BY <1>8, <1>9, <2>1 DEF DeliverSigchld
  <2>2. CASE ~NoSigchld
    <3>1. "chld" \in Context /\ frame'["chld"].at = "wait"
      BY <1>0, <1>9, <2>2 DEF DeliverSigchld, Context, Frame
    <3>2. /\ UNCHANGED <<PIDList, stale, signalled, proc>>
          /\ \A g \in Context : g # "chld" => frame'[g] = frame[g]
      BY <1>0, <1>9, <2>2 DEF DeliverSigchld
    <3>3. QED
      BY <1>6, <3>1, <3>2 DEF InLoop, Walking
  <2>3. QED
    BY <2>1, <2>2
<1>10. CASE Stop
  BY <1>8, <1>10 DEF Stop
<1>11. ASSUME NEW n \in Proc, ChildExits(n) PROVE LoopInv'
  <2>1. \A m \in PIDList : proc'[m] = "run" => proc[m] = "run"
    BY <1>0, <1>b, <1>11 DEF ChildExits
  <2>2. QED
    BY <1>8, <1>11, <2>1 DEF ChildExits
<1>12. ASSUME NEW f \in Context, Exit(f) PROVE LoopInv'
  BY <1>8, <1>12 DEF Exit
<1>13. ASSUME NEW f \in Context, Reap(f) PROVE LoopInv'
  <2>1. PICK z \in Zombies :
          /\ proc' = [proc EXCEPT ![z] = "reaped"]
          /\ frame' = [frame EXCEPT ![f].at = "search", ![f].pid = z,
                                    ![f].lpid = FirstNode(PIDList)]
    BY <1>13 DEF Reap
  <2>2. /\ frame'[f].at = "search" /\ frame'[f].pid = z
        /\ frame'[f].lpid = FirstNode(PIDList)
        /\ \A g \in Context : g # f => frame'[g] = frame[g]
    BY <1>0, <2>1 DEF Frame
  <2>3. \A n \in PIDList : proc'[n] = "run" => proc[n] = "run"
    BY <1>0, <2>1 DEF Zombies
  <2>4. /\ FirstNode(PIDList) \in PIDList \cup {0}
        /\ z \in PIDList => FirstNode(PIDList) # 0 /\ FirstNode(PIDList) <= z
    BY <1>a, FirstNodeProperties
  <2>5. UNCHANGED <<PIDList, stale, signalled>>
    BY <1>13 DEF Reap
  <2>6. QED
    BY <2>2, <2>3, <2>4, <2>5, LoopStep DEF InLoop
<1>14. ASSUME NEW f \in Context, ReapNone(f) PROVE LoopInv'
  <2>1. frame'[f].at = "idle" /\ \A g \in Context : g # f => frame'[g] = frame[g]
    BY <1>0, <1>14 DEF ReapNone, Idle
  <2>2. QED
    BY <1>6, <1>14, <2>1 DEF ReapNone, InLoop, Walking
\* A node is freed: it leads to the node that followed it.
<1>15. ASSUME NEW f \in Context, Unlist(f) PROVE LoopInv'
  <2>1. PICK d \in Proc : d = frame[f].pid /\ frame[f].at = "delete"
    BY <1>15 DEF Unlist, Without, AfterDelete, Inv, FramesAreSound
  <2>h. PICK H \in SUBSET Proc : H = G \cup ({d} \cap PIDList)
    BY <1>a
  <2> DEFINE rest == PIDList \ {d}
  <2>2. PIDList' = rest /\ UNCHANGED <<proc, signalled>>
    BY <1>15, <2>1 DEF Unlist, Without, AfterDelete
  <2>3. \A g \in Context : g # f => frame'[g] = frame[g]
    BY <1>0, <1>15 DEF Unlist, Without, AfterDelete
  <2>4. InLoop(f)' => frame'[f].at = "kill" /\ frame'[f].lpid = FirstNode(rest)
    BY <1>0, <1>15, <2>1 DEF Unlist, Without, AfterDelete, InLoop, Idle
  <2>5. \A m \in Proc : m # d \/ d \notin PIDList => stale'[m] = stale[m]
    BY <1>15, <2>1 DEF Unlist, Without, AfterDelete, Inv, TypeOK
  <2>6. d \in PIDList => stale'[d] = NextNode(PIDList, d)
    BY <1>15, <2>1 DEF Unlist, Without, AfterDelete, Inv, TypeOK
  <2>7. /\ NextNode(PIDList, d) \in rest \cup {0}
        /\ \A n \in rest : n > d => NextNode(PIDList, d) # 0 /\ NextNode(PIDList, d) <= n
    <3> DEFINE later == {m \in PIDList : m > d}
    <3>1. later \in SUBSET Proc /\ later \subseteq rest
      <4>1. d \in Nat /\ ~(d > d)
        BY <1>a
      <4>2. QED
        BY <1>b, <4>1
    <3>2. /\ later = {} => FirstNode(later) = 0
          /\ later # {} => /\ FirstNode(later) \in later
                           /\ \A n \in later : FirstNode(later) <= n
      BY <3>1, FirstNodeProperties
    <3>3. \A n \in rest : n > d => n \in later
      OBVIOUS
    <3>4. 0 \notin later
      BY <3>1, ForksAssumption DEF Proc
    <3> HIDE DEF later
    <3>5. FirstNode(later) \in rest \cup {0}
      BY <3>1, <3>2
    <3>6. QED
      BY <3>2, <3>3, <3>4, <3>5 DEF NextNode, later
  <2>8. FreedNodesLeadOn(H)'
    <3> SUFFICES ASSUME NEW m \in H
                 PROVE  /\ m \notin rest
                        /\ stale'[m] \in H \cup rest \cup {0}
                        /\ \A n \in rest : n > m => stale'[m] # 0 /\ stale'[m] <= n
      BY <2>2 DEF FreedNodesLeadOn
    <3>1. CASE m = d /\ d \in PIDList
      BY <2>6, <2>7, <2>h, <3>1
    <3>2. CASE m \in G
      <4>1. m \notin PIDList /\ m \in Proc
        BY <3>2 DEF FreedNodesLeadOn
      <4>2. stale'[m] = stale[m]
        BY <2>5, <4>1
      <4>3. /\ stale[m] \in G \cup PIDList \cup {0}
            /\ \A n \in PIDList : n > m => stale[m] # 0 /\ stale[m] <= n
        BY <3>2 DEF FreedNodesLeadOn
      <4>4. QED
        BY <2>h, <4>1, <4>2, <4>3
    <3>3. QED
      BY <2>h, <3>1, <3>2
  <2>9. LoopsReachAll(H)'
    <3> SUFFICES ASSUME NEW g \in Context, InLoop(g)'
                 PROVE  /\ frame'[g].lpid \in H \cup rest \cup {0}
                        /\ \A n \in rest : proc[n] = "run" =>
                              n \in signalled \/ Ahead(g, n)'
      BY <2>2 DEF LoopsReachAll
    <3>1. CASE g = f
      <4>1. rest \in SUBSET Proc /\ 0 \notin rest
        BY <1>a
      <4>2. FirstNode(rest) \in rest \cup {0} /\ \A n \in rest : FirstNode(rest) # 0 /\ FirstNode(rest) <= n
        BY <4>1, FirstNodeProperties
      <4>3. QED
        BY <2>4, <3>1, <4>2 DEF Ahead
    <3>2. CASE g # f
      <4>1. frame'[g] = frame[g] /\ InLoop(g)
        BY <2>3, <3>2 DEF InLoop
      <4>2. /\ frame[g].lpid \in G \cup PIDList \cup {0}
            /\ \A n \in PIDList : proc[n] = "run" => n \in signalled \/ Ahead(g, n)
        BY <4>1 DEF LoopsReachAll
      <4>3. QED
        BY <2>h, <4>1, <4>2 DEF Ahead
    <3>3. QED
      BY <3>1, <3>2
  <2>10. SearchesReach(H)'
    <3> SUFFICES ASSUME NEW g \in Context, frame'[g].at = "search"
                 PROVE  /\ frame'[g].lpid \in H \cup rest \cup {0}
                        /\ frame'[g].pid \in rest =>
                             frame'[g].lpid # 0 /\ frame'[g].lpid <= frame'[g].pid
      BY <2>2 DEF SearchesReach
    <3>1. g # f
      BY <1>0, <1>15 DEF Unlist, Without, AfterDelete, Idle
    <3>2. frame'[g] = frame[g]
      BY <2>3, <3>1
    <3>3. /\ frame[g].lpid \in G \cup PIDList \cup {0}
          /\ frame[g].pid \in PIDList => frame[g].lpid # 0 /\ frame[g].lpid <= frame[g].pid
      BY <3>2 DEF SearchesReach
    <3>4. QED
      BY <2>h, <3>2, <3>3
  <2>11. QED
    BY <2>8, <2>9, <2>10 DEF LoopInv
\* The loop takes a step.
<1>16. ASSUME NEW f \in Context, KillNode(f) PROVE LoopInv'
  <2> DEFINE m == frame[f].lpid
  <2>1. frame'[f].at = "next" /\ frame'[f].lpid = m /\ frame[f].at = "kill" /\ m # 0
    BY <1>0, <1>16 DEF KillNode, Frame
  <2>2. \A g \in Context : g # f => frame'[g] = frame[g]
    BY <1>0, <1>16 DEF KillNode
  <2>3. /\ UNCHANGED <<PIDList, stale, proc>>
        /\ signalled \subseteq signalled'
        /\ m \in PIDList /\ proc[m] = "run" => m \in signalled'
    BY <1>16 DEF KillNode
  <2>4. /\ m \in G \cup PIDList \cup {0}
        /\ \A n \in PIDList : proc[n] = "run" => n \in signalled \/ Ahead(f, n)
    BY <2>1 DEF LoopsReachAll, InLoop
  <2>5. ASSUME NEW n \in PIDList, proc[n] = "run"
        PROVE  n \in signalled' \/ Ahead(f, n)'
    <3>1. CASE n = m
      BY <2>3, <2>5, <3>1
    <3>2. CASE n # m /\ n \notin signalled
      <4>1. m <= n
        BY <2>1, <2>4, <2>5, <3>2 DEF Ahead
      <4>2. m \in Nat /\ n \in Nat
        BY <1>b, <2>4
      <4>3. QED
        BY <2>1, <3>2, <4>1, <4>2 DEF Ahead
    <3>3. QED
      BY <2>3, <3>1, <3>2
  <2>6. QED
    BY <2>1, <2>2, <2>3, <2>4, <2>5, LoopStep
<1>17. ASSUME NEW f \in Context, NextPid(f) PROVE LoopInv'
  <2> DEFINE m == frame[f].lpid
             k == IF m \in PIDList THEN NextNode(PIDList, m) ELSE stale[m]
  <2>1. frame'[f].at = "kill" /\ frame'[f].lpid = k /\ frame[f].at = "next" /\ m \in Proc
    BY <1>0, <1>17 DEF NextPid, Successor, Frame, Inv, FramesAreSound
  <2>2. \A g \in Context : g # f => frame'[g] = frame[g]
    BY <1>0, <1>17 DEF NextPid, Successor
  <2>3. UNCHANGED <<PIDList, stale, proc, signalled>>
    BY <1>17 DEF NextPid, Successor
  <2>4. /\ m \in G \cup PIDList \cup {0}
        /\ \A n \in PIDList : proc[n] = "run" => n \in signalled \/ Ahead(f, n)
    BY <2>1 DEF LoopsReachAll, InLoop
  <2>5. /\ k \in G \cup PIDList \cup {0}
        /\ \A n \in PIDList : m < n => k # 0 /\ k <= n
    <3>1. m \in G \cup PIDList
      BY <1>a, <2>1, <2>4
    <3>2. QED
      BY <3>1, SuccessorLeadsOn DEF Successor
  <2>6. ASSUME NEW n \in PIDList, proc[n] = "run"
        PROVE  n \in signalled' \/ Ahead(f, n)'
    <3>1. n \in signalled \/ m < n
      BY <2>1, <2>4, <2>6 DEF Ahead
    <3> HIDE DEF k
    <3>2. QED
      BY <2>1, <2>3, <2>5, <3>1 DEF Ahead
  <2> HIDE DEF k
  <2>7. QED
    BY <2>1, <2>2, <2>3, <2>5, <2>6, LoopStep
\* The search takes a step: it does not miss the node it looks for.
<1>18. ASSUME NEW f \in Context, SearchOn(f) PROVE LoopInv'
  <2> DEFINE m == frame[f].lpid
             p == frame[f].pid
             k == Successor(m)
  <2>1. /\ frame'[f].at = "search" /\ frame'[f].lpid = k /\ frame'[f].pid = p
        /\ frame[f].at = "search" /\ m # 0 /\ m # p
    BY <1>0, <1>18 DEF SearchOn, Searching, Frame
  <2>2. \A g \in Context : g # f => frame'[g] = frame[g]
    BY <1>0, <1>18 DEF SearchOn
  <2>3. UNCHANGED <<PIDList, stale, proc, signalled>>
    BY <1>18 DEF SearchOn, Searching
  <2>4. /\ m \in G \cup PIDList
        /\ p \in PIDList => m <= p
    BY <2>1 DEF SearchesReach
  <2>5. p \in PIDList => m < p
    BY <1>b, <2>1, <2>4
  <2>6. /\ k \in G \cup PIDList \cup {0}
        /\ p \in PIDList => k # 0 /\ k <= p
    BY <2>4, <2>5, SuccessorLeadsOn
  <2> HIDE DEF k
  <2>7. QED
    BY <2>1, <2>2, <2>3, <2>6, LoopStep DEF InLoop
<1>19. ASSUME NEW f \in Context, Found(f) PROVE LoopInv'
  <2>1. /\ frame'[f].at = "delete"
        /\ \A g \in Context : g # f => frame'[g] = frame[g]
    BY <1>0, <1>19 DEF Found, Searching, Frame
  <2>2. UNCHANGED <<PIDList, stale, signalled, proc>>
    BY <1>19 DEF Found, Searching
  <2>3. QED
    BY <1>6, <2>1, <2>2 DEF InLoop, Walking
<1>20. ASSUME NEW f \in Context, NotFound(f) PROVE LoopInv'
  <2>1. UNCHANGED <<PIDList, stale, signalled, proc>>
    BY <1>20 DEF NotFound, Searching
  <2>2. CASE frame[f].pid = APIChildPID
    BY <1>3, <1>20, <2>1, <2>2 DEF NotFound, AfterDelete
  <2>3. CASE frame[f].pid # APIChildPID
    <3>1. /\ frame'[f].at = "wait"
          /\ \A g \in Context : g # f => frame'[g] = frame[g]
      BY <1>0, <1>20, <2>3 DEF NotFound, AfterDelete, Idle
    <3>2. QED
      BY <1>6, <2>1, <3>1 DEF InLoop, Walking
  <2>4. QED
    BY <2>2, <2>3
<1>21. QED
  BY <1>2, <1>4, <1>5, <1>7, <1>9, <1>10, <1>11, <1>12, <1>13, <1>14, <1>15, <1>16,
     <1>17, <1>18, <1>19, <1>20
     DEF Next, RootStep

LEMMA InitLoop == Init => LoopInv
<1> SUFFICES ASSUME Init PROVE LoopInv
  OBVIOUS
<1>1. \A f \in Context : ~Walking(f)
  BY DEF Init, Idle, InLoop, Walking
<1>2. QED
  BY <1>1, NoLoop

LEMMA StutterLoop == LoopInv /\ UNCHANGED vars => LoopInv'
BY DEF LoopInv, FreedNodesLeadOn, LoopsReachAll, SearchesReach, InLoop, Ahead, vars

-------------------------------------------------------------------------------
(* Stale pids. *)

\* A pid becomes stale only by being entered after its process was reaped.
LEMMA StaleStep ==
  ASSUME Inv, LoopInv, Next, NEW n \in Proc, StalePid(n)', ~StalePid(n)
  PROVE  /\ n = forks
         /\ proc[n] = "reaped"
         /\ main \in {"addApi", "guarded"}
<1>0. status' = Running /\ n \in PIDList' /\ proc'[n] = "reaped"
  BY DEF StalePid
<1>1. ASSUME NEW f \in Context, Reap(f) PROVE FALSE
  <2>1. PICK z \in Zombies :
          /\ proc' = [proc EXCEPT ![z] = "reaped"]
          /\ frame' = [frame EXCEPT ![f].at = "search", ![f].pid = z,
                                    ![f].lpid = FirstNode(PIDList)]
    BY <1>1 DEF Reap
  <2>2. z \in Proc /\ proc[z] = "zombie" /\ frame[f].at = "wait"
    BY <1>1, <2>1 DEF Zombies, Reap
  <2>3. frame'[f].at = "search" /\ frame'[f].pid = z
    BY <2>1 DEF Inv, TypeOK, Frame
  <2>4. n # z
    BY <2>3 DEF StalePid
  <2>5. proc[n] = "reaped"
    BY <1>0, <2>1, <2>4 DEF Inv, TypeOK
  <2>6. PICK g \in Context : frame[g].at \in {"search", "delete"} /\ frame[g].pid = n
    BY <1>0, <1>1, <2>5 DEF StalePid, Reap
  <2>7. frame'[g] = frame[g]
    BY <2>1, <2>2, <2>6 DEF Inv, TypeOK
  <2>8. QED
    BY <2>6, <2>7 DEF StalePid
<1>2. ASSUME NEW f \in Context, Unlist(f) PROVE FALSE
  <2>1. n \in PIDList /\ n # frame[f].pid /\ proc[n] = "reaped" /\ status = Running
    BY <1>0, <1>2 DEF Unlist, Without, AfterDelete
  <2>2. PICK g \in Context : frame[g].at \in {"search", "delete"} /\ frame[g].pid = n
    BY <2>1 DEF StalePid
  <2>3. frame'[g] = frame[g]
    BY <1>2, <2>1, <2>2 DEF Unlist, Without, AfterDelete, Inv, TypeOK
  <2>4. QED
    BY <2>2, <2>3 DEF StalePid
\* Every other step that touches the list or a process.
<1>3. ASSUME NEW m \in Proc, ChildExits(m) PROVE FALSE
  <2>1. status = Running /\ frame' = frame /\ PIDList' = PIDList
    BY <1>0, <1>3 DEF ChildExits
  <2>2. proc' = [proc EXCEPT ![m] = "zombie"]
    BY <1>3, <2>1 DEF ChildExits
  <2>3. proc[n] = "reaped"
    BY <1>0, <2>2 DEF Inv, TypeOK
  <2>4. QED
    BY <1>0, <2>1, <2>3 DEF StalePid
<1>4. CASE AddApi \/ AddPid
  <2>1. proc' = proc /\ frame' = frame /\ status' = status /\ PIDList' = PIDList \cup {forks}
    BY <1>4 DEF AddApi, AddPid
  <2>2. n \notin PIDList
    BY <1>0, <2>1 DEF StalePid
  <2>3. QED
    BY <1>0, <1>4, <2>1, <2>2 DEF AddApi, AddPid, At
<1>5. CASE ForkApi \/ AcceptAndFork
  <2>1. frame' = frame /\ PIDList' = PIDList /\ status' = status
    BY <1>5 DEF ForkApi, AcceptAndFork
  <2>2. \E s \in {"run", "failed"} : proc' = [proc EXCEPT ![forks + 1] = s]
    BY <1>5 DEF ForkApi, AcceptAndFork, Fork
  <2>3. proc[n] = "reaped"
    BY <1>0, <2>2 DEF Inv, TypeOK
  <2>4. QED
    BY <1>0, <2>1, <2>3 DEF StalePid
\* The steps that change frames only: none of them leaves the pid alone.
<1>6. ASSUME proc' = proc, PIDList' = PIDList, status' = status \/ status = Running,
             \A g \in Context : frame[g].at \in {"search", "delete"} /\ frame[g].pid = n =>
               frame'[g].at \in {"search", "delete"} /\ frame'[g].pid = n
      PROVE  FALSE
  <2>1. status = Running
    BY <1>0, <1>6
  <2>2. PICK g \in Context : frame[g].at \in {"search", "delete"} /\ frame[g].pid = n
    BY <1>0, <1>6, <2>1 DEF StalePid
  <2>3. frame'[g].at \in {"search", "delete"} /\ frame'[g].pid = n
    BY <1>6, <2>2
  <2>4. QED
    BY <2>3 DEF StalePid
<1>7. CASE RecordApi \/ Guard \/ Unguard \/ ClearPending \/ Stop
  BY <1>6, <1>7 DEF RecordApi, Guard, Unguard, ClearPending, Stop
<1>8. CASE AcceptFails \/ CheckPending
  <2>1. frame["main"].at = "idle" /\ \A g \in Context : g # "main" => frame'[g] = frame[g]
    BY <1>8 DEF AcceptFails, CheckPending, At, Inv, TypeOK
  <2>2. proc' = proc /\ PIDList' = PIDList /\ status' = status
    BY <1>8 DEF AcceptFails, CheckPending
  <2>3. QED
    BY <1>6, <2>1, <2>2
<1>9. CASE DeliverSigchld \/ DeliverSigterm
  <2>1. PICK f \in Context : /\ frame[f].at = "idle"
                            /\ \A g \in Context : g # f => frame'[g] = frame[g]
    BY <1>9 DEF DeliverSigchld, DeliverSigterm, Inv, TypeOK, Context
  <2>2. proc' = proc /\ PIDList' = PIDList /\ status' = status
    BY <1>9 DEF DeliverSigchld, DeliverSigterm
  <2>3. QED
    BY <1>6, <2>1, <2>2
<1>10. ASSUME NEW f \in Context, ReapNone(f) \/ KillNode(f) \/ NextPid(f) PROVE FALSE
  <2>1. frame[f].at \notin {"search", "delete"} /\ \A g \in Context : g # f => frame'[g] = frame[g]
    BY <1>10 DEF ReapNone, KillNode, NextPid, Successor, Inv, TypeOK
  <2>2. proc' = proc /\ PIDList' = PIDList /\ status' = status
    BY <1>10 DEF ReapNone, KillNode, NextPid, Successor
  <2>3. QED
    BY <1>6, <2>1, <2>2
<1>11. ASSUME NEW f \in Context, Exit(f) PROVE FALSE
  BY <1>6, <1>11 DEF Exit, Executing
<1>12. ASSUME NEW f \in Context, SearchOn(f) \/ Found(f) PROVE FALSE
  <2>1. /\ frame[f].at = "search"
        /\ proc' = proc /\ PIDList' = PIDList /\ status' = status
    BY <1>12 DEF SearchOn, Found, Searching
  <2>2. /\ frame'[f].at \in {"search", "delete"} /\ frame'[f].pid = frame[f].pid
        /\ \A g \in Context : g # f => frame'[g] = frame[g]
    BY <1>12, <2>1 DEF SearchOn, Found, Inv, TypeOK, Frame
  <2>3. QED
    BY <1>6, <2>1, <2>2
\* A search ends without a node only when the pid is not in the list.
<1>13. ASSUME NEW f \in Context, NotFound(f) PROVE FALSE
  <2>1. /\ frame[f].at = "search" /\ frame[f].lpid = 0
        /\ proc' = proc /\ PIDList' = PIDList /\ status' = status
        /\ \A g \in Context : g # f => frame'[g] = frame[g]
    BY <1>13 DEF NotFound, Searching, Inv, TypeOK
  <2>2. frame[f].pid \notin PIDList
    BY <2>1 DEF LoopInv, SearchesReach
  <2>3. frame[f].pid # n
    BY <1>0, <2>1, <2>2
  <2>4. QED
    BY <1>6, <2>1, <2>3
<1>14. QED
  BY <1>1, <1>2, <1>3, <1>4, <1>5, <1>7, <1>8, <1>9, <1>10, <1>11, <1>12, <1>13
     DEF Next, RootStep

\* The list holds a pid of a reaped process only when that process was reaped
\* between fork() and the entry into the list.
THEOREM StalenessIsLateEntry == Spec => StaleOnlyByLateEntry
<1>1. Inv /\ LoopInv /\ [Next]_vars =>
        [\A n \in Proc : StalePid(n)' /\ ~StalePid(n) =>
           /\ n = forks
           /\ proc[n] = "reaped"
           /\ main \in {"addApi", "guarded"}]_vars
  BY StaleStep
<1>2. Inv /\ LoopInv /\ [Next]_vars => LoopInv'
  BY NextInv, LoopNext, StutterLoop
<1>3. QED
  BY <1>1, <1>2, InitInv, NextInv, InitLoop, PTL DEF Spec, StaleOnlyByLateEntry

-------------------------------------------------------------------------------
(* No orphans. *)

OrphanInv == Inv /\ LoopInv /\ NoOrphan

LEMMA InitOrphan == Init => OrphanInv
BY InitInv, InitLoop DEF OrphanInv, NoOrphan, Init

LEMMA NextOrphan == OrphanInv /\ [Next]_vars => OrphanInv'
<1> SUFFICES ASSUME OrphanInv, [Next]_vars PROVE OrphanInv'
  OBVIOUS
<1>1. Inv /\ Inv'
  BY NextInv DEF OrphanInv
<1>2. CASE Next
  <2>1. LoopInv'
    BY <1>1, <1>2, LoopNext DEF OrphanInv
  <2>2. ASSUME NEW f \in Context, Exit(f) PROVE NoOrphan'
    <3>1. frame[f].at = "kill" /\ frame[f].lpid = 0
      BY <2>2 DEF Exit
    <3>2. PICK G \in SUBSET Proc : LoopsReachAll(G)
      BY DEF OrphanInv, LoopInv
    <3>3. \A n \in PIDList : proc[n] = "run" => n \in signalled
      BY <3>1, <3>2 DEF LoopsReachAll, InLoop, Ahead
    <3>4. QED
      BY <1>1, <2>2, <3>3 DEF NoOrphan, Exit, Inv, LiveChildIsListed, ForkWindow
  <2>3. ASSUME NEW n \in Proc, ChildExits(n) PROVE NoOrphan'
    <3>1. \A m \in Proc : proc'[m] = "run" => proc[m] = "run"
      BY <1>1, <2>3 DEF ChildExits, Inv, TypeOK
    <3>2. QED
      BY <2>3, <3>1 DEF ChildExits, OrphanInv, NoOrphan, ForkWindow
  <2>4. ASSUME status = Running, status' = status PROVE NoOrphan'
    BY <2>4 DEF NoOrphan
  <2>5. QED
    BY <1>1, <1>2, <2>1, <2>2, <2>3, <2>4
       DEF OrphanInv, Next, RootStep, ForkApi, RecordApi, AddApi, AcceptAndFork, AcceptFails,
           Guard, AddPid, Unguard, CheckPending, ClearPending, At, Reap, ReapNone,
           SearchOn, Found, NotFound, Searching, Unlist, Without, AfterDelete, KillNode, NextPid, Successor,
           Executing, DeliverSigchld, DeliverSigterm, Stop
<1>3. CASE UNCHANGED vars
  <2>1. LoopInv'
    BY <1>3, StutterLoop DEF OrphanInv
  <2>2. NoOrphan'
    BY <1>3 DEF OrphanInv, NoOrphan, ForkWindow, vars
  <2>3. QED
    BY <1>1, <2>1, <2>2 DEF OrphanInv
<1>4. QED
  BY <1>2, <1>3

\* When the root has exited, every child that is left has been sent SIGTERM,
\* but for the one that was being forked, whatever was freed under the loop.
THEOREM NoOrphanIsLeft == Spec => []NoOrphan
BY InitOrphan, NextOrphan, PTL DEF Spec, OrphanInv
===============================================================================
