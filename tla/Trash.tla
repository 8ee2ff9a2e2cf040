---------------------------------- MODULE Trash ----------------------------------
(***************************************************************************)
(* dockerfile/vhtec/plat_other.py, which the image of Dockerfile.vhtec_    *)
(* jupyter installs over send2trash: the notebook servers call it when a   *)
(* user deletes a file or a folder.  It moves with shutil.move where the   *)
(* original renames: home and volumes are mounts of one device, so they    *)
(* look alike to get_dev(), but rename() does not cross mounts, and the    *)
(* move becomes a copy, file by file, and an unlink, file by file.         *)
(* Members of a course delete in shared volumes at the same time, each of  *)
(* these steps may fail, and a container may end at any point.             *)
(*                                                                         *)
(* A process stands for its user's id and home: a user has one notebook    *)
(* server, so nobody else uses the same trash.                             *)
(***************************************************************************)
EXTENDS Integers

CONSTANTS
  Proc,              \* notebook servers, one per user
  Path, Folder,      \* where users have files, and folders of files
  inside,            \* per folder: its paths
  Base,              \* the names of files and folders
  Mount, Dev,        \* mount points, and the devices behind them
  basename, mount,   \* of a file or folder
  dev,               \* of a mount
  home,              \* per process: the mount of its user's home
  writable,          \* per process: the files and folders that os.access() lets it write
  sticky,            \* per process: mounts with a sticky .Trash that takes its directory
  open,              \* per process: mounts that take its .Trash-uid
  MaxNew, MaxCount,  \* bounds: how often a file is made, per path; names tried, per name
  None, Partial      \* no file, and one that is not copied completely

\* What a user deletes, and the files that go with it.
Item == Path \cup Folder
Files(i) == IF i \in Folder THEN inside[i] ELSE {i}

ASSUME TrashAssumption ==
  /\ Path \cap Folder = {} /\ inside \in [Folder -> SUBSET Path]
  /\ basename \in [Item -> Base] /\ mount \in [Item -> Mount]
  /\ dev \in [Mount -> Dev] /\ home \in [Proc -> Mount]
  /\ writable \in [Proc -> SUBSET Item]
  /\ sticky \in [Proc -> SUBSET Mount] /\ open \in [Proc -> SUBSET Mount]
  /\ MaxNew \in [Path -> Nat] /\ MaxCount \in [Base -> Nat]
  /\ \A f \in Path : \A k \in 1 .. MaxNew[f] : <<f, k>> \notin {None, Partial}

VARIABLES
  made,   \* per path: how often a file was made there
  at,     \* per path: the file that is there
  files,  \* <<trash, name, path, file>>: the directories "files"
  info,   \* <<trash, name, item>>: the directories "info"
  proc,   \* per process: where it is in trash_move
  late    \* history: files made where a move was to remove without a look

vars == <<made, at, files, info, proc, late>>

\* A file is known by where, and as the how-manieth there, it was made.
File == UNION {{f} \X (1 .. MaxNew[f]) : f \in Path}

\* "a.txt", "a 1.txt", "a 2.txt", ..., by the number.
Plain(i) == <<basename[i], 0>>
NextName(n) == <<n[1], n[2] + 1>>

Idle == [pc |-> "idle"]

Init ==
  /\ made = [f \in Path |-> 0]
  /\ at = [f \in Path |-> None]
  /\ files = {} /\ info = {}
  /\ proc = [p \in Proc |-> Idle]
  /\ late = {}

-------------------------------------------------------------------------------
(* Where the trash is *)

\* A user's trash is known by its place: in the home, in .Trash, or .Trash-uid.
\* Files of the home's device go to the home, also those of other mounts.
HomeTrash(p) == [of |-> p, mount |-> home[p], kind |-> "home"]

\* find_ext_volume_global_trash, and find_ext_volume_fallback_trash otherwise.
find_ext_volume_trash(p, m) ==
  [of |-> p, mount |-> m, kind |-> IF m \in sticky[p] THEN ".Trash" ELSE ".Trash-uid"]

dest_trash(p, i) ==
  IF dev[mount[i]] = dev[home[p]] THEN HomeTrash(p) ELSE find_ext_volume_trash(p, mount[i])

\* No permission for the item, or for a trash on its mount.
Refused(p, i) ==
  i \notin writable[p] \/ (dest_trash(p, i).kind = ".Trash-uid" /\ mount[i] \notin open[p])

-------------------------------------------------------------------------------
(* send2trash and trash_move *)

Within(S, t, n) == \E e \in S : e[1] = t /\ e[2] = n

\* What has a name is replaced.
Replace(S, t, n, T) == {e \in S : e[1] # t \/ e[2] # n} \cup T
Store(t, n, f, c) == {e \in files : <<e[1], e[2], e[3]>> # <<t, n, f>>} \cup {<<t, n, f, c>>}

There(i) == {f \in Files(i) : at[f] # None}

\* Mutant: the name of the file will do.
NeverTaken(t, n) == FALSE

\* A name is given again when neither directory has it.
Taken(t, n) == Within(files, t, n) \/ Within(info, t, n)

\* What the server refuses, or does not find, changes nothing.
send2trash(p, i) ==
  /\ proc[p].pc = "idle" /\ There(i) # {} /\ ~Refused(p, i)
  /\ ~Taken(dest_trash(p, i), <<basename[i], MaxCount[basename[i]]>>)
  /\ proc' = [proc EXCEPT ![p] = [pc |-> "name", item |-> i, name |-> Plain(i), trash |-> dest_trash(p, i),
                                   todo |-> {}, file |-> None, ok |-> TRUE]]
  /\ UNCHANGED <<made, at, files, info, late>>

ChooseName(p) ==
  /\ proc[p].pc = "name"
  /\ proc' = IF Taken(proc[p].trash, proc[p].name)
             THEN [proc EXCEPT ![p].name = NextName(@)]
             ELSE [proc EXCEPT ![p].pc = "info"]
  /\ UNCHANGED <<made, at, files, info, late>>

\* Mutant: it is written under the file's own name.
InfoOfPath(r) == Plain(r.item)
InfoName(r) == r.name

\* The two directories are made, and what is to be moved is noted.
WriteInfo(p) ==
  /\ proc[p].pc = "info"
  /\ info' = Replace(info, proc[p].trash, InfoName(proc[p]),
                     {<<proc[p].trash, InfoName(proc[p]), proc[p].item>>})
  /\ proc' = [proc EXCEPT ![p].pc = "move"]
  /\ UNCHANGED <<made, at, files, late>>

\* shutil.move: rename(), which somebody else may have made fail by moving the
\* item before, and where it fails otherwise, as it does between mounts or where
\* a sticky directory has files of others, a copy.  It begins with what is there.
Move(p) ==
  LET r == proc[p]
  IN  /\ r.pc = "move"
      /\ \/ /\ There(r.item) = {}
            /\ proc' = [proc EXCEPT ![p] = Idle]
            /\ UNCHANGED <<at, files>>
         \/ /\ There(r.item) # {} /\ mount[r.item] = r.trash.mount
            /\ files' = Replace(files, r.trash, r.name, {<<r.trash, r.name, f, at[f]>> : f \in There(r.item)})
            /\ at' = [f \in Path |-> IF f \in Files(r.item) THEN None ELSE at[f]]
            /\ proc' = [proc EXCEPT ![p] = Idle]
         \/ /\ There(r.item) # {}
            /\ files' = Replace(files, r.trash, r.name, {})
            /\ proc' = [proc EXCEPT ![p].pc = "copy", ![p].todo = There(r.item)]
            /\ UNCHANGED at
      /\ UNCHANGED <<made, info, late>>

CopyFile(p) ==
  LET r == proc[p]
  IN  /\ r.pc = "copy"
      /\ \E f \in r.todo :
           /\ at[f] # None
           /\ files' = Store(r.trash, r.name, f, Partial)
           /\ proc' = [proc EXCEPT ![p].pc = "copying", ![p].todo = @ \ {f}, ![p].file = at[f]]
      /\ UNCHANGED <<made, at, info, late>>

Copied(p) ==
  LET r == proc[p]
  IN  /\ r.pc = "copying"
      /\ files' = Store(r.trash, r.name, r.file[1], r.file)
      /\ proc' = [proc EXCEPT ![p].pc = "copy"]
      /\ UNCHANGED <<made, at, info, late>>

\* copytree goes on after an error, and raises at its end: nothing is unlinked.
CopyFails(p) ==
  /\ \/ /\ proc[p].pc = "copying"
        /\ proc' = [proc EXCEPT ![p].pc = "copy", ![p].ok = FALSE]
     \/ /\ proc[p].pc = "copy"
        /\ \E f \in proc[p].todo :
             at[f] = None /\ proc' = [proc EXCEPT ![p].todo = @ \ {f}, ![p].ok = FALSE]
  /\ UNCHANGED <<made, at, files, info, late>>

\* rmtree lists the folder again.
ToUnlink(i) == IF i \in Folder THEN There(i) ELSE {i}

AllDone(p) ==
  LET r == proc[p]
  IN  /\ r.pc = "copy" /\ r.todo = {}
      /\ proc' = IF r.ok /\ ToUnlink(r.item) # {}
                 THEN [proc EXCEPT ![p].pc = "unlink", ![p].todo = ToUnlink(r.item)]
                 ELSE [proc EXCEPT ![p] = Idle]
      /\ UNCHANGED <<made, at, files, info, late>>

\* What is at the path goes, whatever it is by now.  An error, for the file of
\* another user in a sticky directory or for one that is gone, is the end.
Unlink(p) ==
  /\ proc[p].pc = "unlink"
  /\ \/ \E f \in proc[p].todo :
          /\ at' = [at EXCEPT ![f] = None]
          /\ proc' = IF proc[p].todo = {f} THEN [proc EXCEPT ![p] = Idle]
                     ELSE [proc EXCEPT ![p].todo = @ \ {f}]
     \/ proc' = [proc EXCEPT ![p] = Idle] /\ UNCHANGED at
  /\ UNCHANGED <<made, files, info, late>>

-------------------------------------------------------------------------------
(* The users, and the end of a container *)

\* What a move will unlink without a look: what it has copied, or did not find.
Doomed(p) ==
  CASE proc[p].pc \in {"copy", "copying"} /\ proc[p].ok -> Files(proc[p].item) \ proc[p].todo
    [] proc[p].pc = "unlink" -> proc[p].todo
    [] OTHER -> {}

Unlinking(f) == \E p \in Proc : f \in Doomed(p)

Create(f) ==
  /\ at[f] = None /\ made[f] < MaxNew[f]
  /\ made' = [made EXCEPT ![f] = @ + 1]
  /\ at' = [at EXCEPT ![f] = <<f, made[f] + 1>>]
  /\ late' = IF Unlinking(f) THEN late \cup {<<f, made[f] + 1>>} ELSE late
  /\ UNCHANGED <<files, info, proc>>

End(p) ==
  /\ proc[p].pc # "idle"
  /\ proc' = [proc EXCEPT ![p] = Idle]
  /\ UNCHANGED <<made, at, files, info, late>>

-------------------------------------------------------------------------------
Next ==
  \/ \E f \in Path : Create(f)
  \/ \E p \in Proc :
       \/ \E i \in Item : send2trash(p, i)
       \/ ChooseName(p) \/ WriteInfo(p) \/ Move(p) \/ CopyFile(p) \/ Copied(p) \/ CopyFails(p)
       \/ AllDone(p) \/ Unlink(p) \/ End(p)

Spec == Init /\ [][Next]_vars

-------------------------------------------------------------------------------
(* Properties *)

\* Whole files of a trash.
Kept(c) == \E e \in files : e[4] = c

\* No file is lost: neither by a name that the trash has already, nor because
\* the container ends in the middle of a copy or a file of a folder cannot be
\* copied, nor because two users delete the same file, or one the folder and the
\* other a file in it.  There is one way to lose one: it was made where a move
\* had already copied, or looked, and still had to unlink.
NothingIsLost ==
  \A f \in Path : \A k \in 1 .. made[f] :
    at[f] = <<f, k>> \/ Kept(<<f, k>>) \/ <<f, k>> \in late

\* Every whole file of a trash can be put back: its info tells where it was.
InfoTellsOrigin ==
  \A e \in files : e[4] # Partial => \E i \in Item : <<e[1], e[2], i>> \in info /\ e[4][1] \in Files(i)
==================================================================================
