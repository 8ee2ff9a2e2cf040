----------------------------- MODULE MCDockerSpawner -----------------------------
(* Two users who both teach a course of LMS hB; the second is a student in a *)
(* course of LMS hA, with the id that the first has in hB.                   *)
EXTENDS DockerSpawner, TLC

CONSTANTS t, s, hA, hB, hP, c1, v, y, dot, here, others, image

Shows(n, h) == [name |-> n, hidden |-> h]
For(n, h, us) == [show |-> Shows(n, h), users |-> us]

\* The course of hA: a task volume whose name begins with ".", a submission without
\* a name, and a personal volume shown as ".".
PageA(id) ==
  [lms_user_id |-> id, course_id |-> c1, host_name |-> hA, users |-> {Everyone},
   volumes |-> (v :> For(dot, FALSE, {})), submits |-> (v :> For(Blank, FALSE, {})),
   prsnals |-> (v :> For(here, FALSE, {s})), image |-> image, lti_id |-> 7, iframe |-> TRUE]

\* The course of hB: a task, and a hidden submission by the same name.
PageB(id) ==
  [lms_user_id |-> id, course_id |-> c1, host_name |-> hB, users |-> {s}, teachers |-> {s, t},
   volumes |-> (v :> For(y, FALSE, {})), submits |-> (v :> For(y, TRUE, {}))]

\* Launches that come to nothing: a user_id that is no number, a CPU limit that
\* is none, and an LMS whose URL names a port.
BadId == [lms_user_id |-> Bad]
BadCpu == [lms_user_id |-> 2, cpu |-> Bad]
BadName == [lms_user_id |-> 2, host_name |-> hP]

MCPosts == (t :> {PageB(2)}) @@ (s :> {PageA(2), PageB(1), BadId, BadCpu, BadName})

MCAccount == [u \in {} |-> [uid |-> 0, gid |-> 0]]
MCHostGroup == (100 :> others)
MCFileName == (t :> {}) @@ (s :> {Shows(y, TRUE)})
MCSiteTraits == [tr \in Traits |-> IF tr = "default_url" THEN LabPage ELSE NoAmount]

ASSUME DistinctIds
===============================================================================
