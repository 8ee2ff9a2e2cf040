----------------------------- MODULE MCPodmanSpawner -----------------------------
(* Two users; the teacher has two courses, the student one. *)
EXTENDS PodmanSpawner, TLC

CONSTANTS t, s, hA, hP, c1, c2, v, x, others

Page(id, c) ==
  [lms_user_id |-> id, course_id |-> c, host_name |-> hA, users |-> {Everyone}, teachers |-> {t},
   volumes |-> (v :> [show |-> [name |-> x, hidden |-> FALSE], users |-> {}]), lti_id |-> 7]

\* Launches that "podman run" or start() refuses.
BadName == [lms_user_id |-> 2, host_name |-> hP]

MCPosts == (t :> {Page(1, c1), Page(1, c2)}) @@ (s :> {Page(2, c1), BadName})
MCAccount == [u \in {} |-> [uid |-> 0, gid |-> 0]]
MCHostGroup == (100 :> others)
MCSiteTraits == [tr \in Traits |-> IF tr = "default_url" THEN LabPage ELSE NoAmount]
===============================================================================
