------------------------------- MODULE TrashProofs -------------------------------
(***************************************************************************)
(* The two properties of Trash for any number of users, paths, folders,    *)
(* mounts and devices.  A user's trash is changed by one process only, and *)
(* what that process is at in it has a name of its own (ProperName); what  *)
(* it will unlink without a look is in the trash, or late (Covered); and a *)
(* process that does not move is not disturbed (Bystander).                *)
(***************************************************************************)
EXTENDS Trash, TLAPS

TrashDir == [of : Proc, mount : Mount, kind : {"home", ".Trash", ".Trash-uid"}]
Busy == [pc : {"name", "info", "move", "copy", "copying", "unlink"}, item : Item, name : Base \X Nat,
         trash : TrashDir, todo : SUBSET Path, file : File \cup {None}, ok : BOOLEAN]

Entries == TrashDir \X (Base \X Nat) \X Path \X (File \cup {Partial})
Infos == TrashDir \X (Base \X Nat) \X Item

Types ==
  /\ made \in [Path -> Nat] /\ \A f \in Path : made[f] <= MaxNew[f]
  /\ at \in [Path -> File \cup {None}]
  /\ files \subseteq Entries
  /\ info \subseteq Infos
  /\ proc \in [Proc -> {Idle} \cup Busy]
  /\ late \subseteq File

\* What is at a path is the last that was made there.
Latest == \A f \in Path : at[f] # None => made[f] \in 1 .. MaxNew[f] /\ at[f] = <<f, made[f]>>

\* A process works in its own trash, at a name that holds nothing of another move.
ProperName(r) ==
  /\ r.pc \in {"info", "move"} => ~Within(files, r.trash, r.name)
  /\ r.pc = "info" => ~Within(info, r.trash, r.name)
  /\ r.pc \in {"move", "copy", "copying", "unlink"} => <<r.trash, r.name, r.item>> \in info

\* What is yet to be copied is not in the trash, and what is being copied only in
\* part.
ProperCopy(r) ==
  /\ r.pc \in {"copy", "copying", "unlink"} => r.todo \subseteq Files(r.item)
  /\ r.pc \in {"copy", "copying"} => \A e \in files : e[1] = r.trash /\ e[2] = r.name => e[3] \notin r.todo
  /\ r.pc = "copying" =>
       /\ r.file \in File /\ r.file[1] \in Files(r.item) \ r.todo
       /\ \A e \in files : e[1] = r.trash /\ e[2] = r.name /\ e[3] = r.file[1] => e[4] = Partial

\* Nothing is unlinked that is not in the trash, or about to be, or late.
Covered(r, D) ==
  \A f \in D : \/ at[f] \in {None} \cup late
               \/ <<r.trash, r.name, f, at[f]>> \in files
               \/ r.pc = "copying" /\ at[f] = r.file

Proper(p) ==
  proc[p].pc # "idle" =>
    proc[p].trash.of = p /\ ProperName(proc[p]) /\ ProperCopy(proc[p]) /\ Covered(proc[p], Doomed(p))

IInv == Types /\ Latest /\ (\A p \in Proc : Proper(p)) /\ NothingIsLost /\ InfoTellsOrigin

-------------------------------------------------------------------------------
(* The definitions that the steps rest on. *)

LEMMA FileType ==
  /\ \A f \in Path : \A k \in 1 .. MaxNew[f] : <<f, k>> \in File
  /\ \A c \in File : /\ c # None /\ c # Partial /\ c[1] \in Path /\ c[2] \in 1 .. MaxNew[c[1]]
                     /\ c = <<c[1], c[2]>>
  BY TrashAssumption DEF File

LEMMA BusyFields ==
  ASSUME Types, NEW p \in Proc, proc[p].pc # "idle"
  PROVE  proc[p] \in Busy
  BY DEF Types, Idle

LEMMA FilesOf ==
  \A i \in Item : Files(i) \subseteq Path /\ There(i) \subseteq Files(i) /\ ToUnlink(i) \subseteq Files(i)
  BY TrashAssumption DEF Files, There, ToUnlink, Item

\* What a process may unlink are paths of its item.
LEMMA DoomedType ==
  ASSUME IInv, NEW p \in Proc
  PROVE  Doomed(p) \subseteq Path
  <1>1. CASE proc[p].pc = "idle"
    BY <1>1 DEF Doomed
  <1>2. CASE proc[p].pc # "idle"
    <2>1. proc[p].item \in Item /\ proc[p].todo \subseteq Path
      BY <1>2, BusyFields DEF IInv, Busy
    <2> QED BY <2>1, FilesOf DEF Doomed
  <1> QED BY <1>1, <1>2

LEMMA DestType ==
  ASSUME NEW p \in Proc, NEW i \in Item
  PROVE  dest_trash(p, i) \in TrashDir /\ dest_trash(p, i).of = p
  <1>1. HomeTrash(p) \in TrashDir /\ HomeTrash(p).of = p
    BY TrashAssumption DEF HomeTrash, TrashDir
  <1>2. find_ext_volume_trash(p, mount[i]) \in TrashDir /\ find_ext_volume_trash(p, mount[i]).of = p
    BY TrashAssumption DEF find_ext_volume_trash, TrashDir
  <1> QED BY <1>1, <1>2 DEF dest_trash

LEMMA StoreMembers ==
  ASSUME NEW t, NEW n, NEW f, NEW c, NEW e
  PROVE  e \in Store(t, n, f, c) <=> (e \in files /\ (e[1] # t \/ e[2] # n \/ e[3] # f)) \/ e = <<t, n, f, c>>
  BY DEF Store

\* The trash of a process is untouched, and where it will unlink at most a late
\* file has appeared: nothing changes for it.
Untouched(q) ==
  /\ proc'[q] = proc[q] /\ late \subseteq late'
  /\ \A e : e[1].of = q => (e \in files' <=> e \in files) /\ (e \in info' <=> e \in info)
  /\ \A f \in Doomed(q) : at'[f] \in {None, at[f]} \cup late'

LEMMA Bystander ==
  ASSUME NEW q \in Proc, Proper(q), Untouched(q), Doomed(q)' = Doomed(q)
  PROVE  Proper(q)'
  <1> SUFFICES ASSUME proc[q].pc # "idle"
               PROVE  /\ proc[q].trash.of = q /\ ProperName(proc[q])' /\ ProperCopy(proc[q])'
                      /\ Covered(proc[q], Doomed(q))'
    BY DEF Proper, Untouched, ProperName, ProperCopy, Covered
  <1> DEFINE r == proc[q]
  <1>1. r.trash.of = q /\ ProperName(r) /\ ProperCopy(r) /\ Covered(r, Doomed(q))
    BY DEF Proper
  <1>2. \A n : /\ Within(files, r.trash, n)' <=> Within(files, r.trash, n)
               /\ Within(info, r.trash, n)' <=> Within(info, r.trash, n)
    BY <1>1 DEF Within, Untouched
  <1>3. /\ \A n, x : <<r.trash, n, x>> \in info' <=> <<r.trash, n, x>> \in info
        /\ \A n, f, c : <<r.trash, n, f, c>> \in files' <=> <<r.trash, n, f, c>> \in files
    BY <1>1 DEF Untouched
  <1>4. \A e \in files' : e[1] = r.trash => e \in files
    BY <1>1 DEF Untouched
  <1>5. ProperName(r)'
    BY <1>1, <1>2, <1>3 DEF ProperName, Untouched
  <1>6. ProperCopy(r)'
    BY <1>1, <1>3, <1>4 DEF ProperCopy, Untouched, Files
  <1>7. Covered(r, Doomed(q))'
    <2>1. proc'[q] = r /\ late \subseteq late' /\ \A f \in Doomed(q) : at'[f] \in {None, at[f]} \cup late'
      BY DEF Untouched
    <2> QED BY <1>1, <1>3, <2>1 DEF Covered
  <1> QED BY <1>1, <1>5, <1>6, <1>7

\* What a process will unlink depends on where it is, and on nothing else.
LEMMA SameDoom ==
  ASSUME NEW q \in Proc, proc'[q] = proc[q]
  PROVE  Doomed(q)' = Doomed(q)
  BY DEF Doomed, Files

\* A step of one process, by what is left to show of it.
OfOthers(p, S, T) == \A e : e[1].of # p => (e \in T <=> e \in S)

LEMMA StepOf ==
  ASSUME IInv, NEW p \in Proc,
         proc' = [proc EXCEPT ![p] = proc'[p]], proc'[p] \in {Idle} \cup Busy, Proper(p)',
         UNCHANGED <<made, late>>,
         at' \in [Path -> File \cup {None}], \A f \in Path : at'[f] \in {None, at[f]},
         files' \subseteq Entries, OfOthers(p, files, files'),
         info' \subseteq Infos, OfOthers(p, info, info'),
         NothingIsLost', InfoTellsOrigin'
  PROVE  IInv'
  <1>1. Types'
    BY DEF IInv, Types
  <1>2. Latest'
    BY DEF IInv, Types, Latest
  <1>3. ASSUME NEW q \in Proc PROVE Proper(q)'
    <2>1. CASE q = p
      BY <2>1
    <2>2. CASE q # p
      <3>1. proc'[q] = proc[q]
        BY <2>2 DEF IInv, Types
      <3>2. Untouched(q)
        BY <2>2, <3>1, DoomedType DEF Untouched, OfOthers
      <3> QED BY <3>1, <3>2, Bystander, SameDoom DEF IInv
    <2> QED BY <2>1, <2>2
  <1> QED BY <1>1, <1>2, <1>3 DEF IInv

\* A step that changes nothing but where its process is.
LEMMA Still ==
  ASSUME IInv, NEW p \in Proc,
         proc' = [proc EXCEPT ![p] = proc'[p]], proc'[p] \in {Idle} \cup Busy,
         UNCHANGED <<made, at, files, info, late>>, Proper(p)'
  PROVE  IInv'
  <1>1. NothingIsLost' /\ InfoTellsOrigin'
    BY DEF IInv, NothingIsLost, InfoTellsOrigin, Kept
  <1>2. at' \in [Path -> File \cup {None}] /\ \A f \in Path : at'[f] \in {None, at[f]}
    BY DEF IInv, Types
  <1>3. OfOthers(p, files, files') /\ OfOthers(p, info, info')
    BY DEF OfOthers
  <1> QED BY <1>1, <1>2, <1>3, StepOf DEF IInv, Types

-------------------------------------------------------------------------------
LEMMA InitInv == Init => IInv
  <1> SUFFICES ASSUME Init PROVE IInv
    OBVIOUS
  <1>1. Types
    BY TrashAssumption DEF Init, Types
  <1>2. Latest /\ \A p \in Proc : Proper(p)
    BY DEF Init, Latest, Proper, Idle
  <1>3. NothingIsLost /\ InfoTellsOrigin
    BY DEF Init, NothingIsLost, InfoTellsOrigin
  <1> QED BY <1>1, <1>2, <1>3 DEF IInv

LEMMA SendInv == ASSUME IInv, NEW p \in Proc, NEW i \in Item, send2trash(p, i) PROVE IInv'
  <1>1. /\ proc'[p] = [pc |-> "name", item |-> i, name |-> Plain(i), trash |-> dest_trash(p, i),
                       todo |-> {}, file |-> None, ok |-> TRUE]
        /\ proc' = [proc EXCEPT ![p] = proc'[p]]
    BY DEF send2trash, IInv, Types
  <1>2. Plain(i) \in Base \X Nat
    BY TrashAssumption DEF Plain
  <1>3. proc'[p] \in Busy
    BY <1>1, <1>2, DestType DEF Busy
  <1>4. Proper(p)'
    BY <1>1, DestType DEF Proper, ProperName, ProperCopy, Covered, Doomed
  <1> QED BY <1>1, <1>3, <1>4, Still DEF send2trash

LEMMA ChooseInv == ASSUME IInv, NEW p \in Proc, ChooseName(p) PROVE IInv'
  <1> DEFINE r == proc[p]
  <1>1. r \in Busy /\ r.pc = "name"
    BY BusyFields DEF ChooseName, IInv
  <1>2. CASE Taken(r.trash, r.name)
    <2>1. proc'[p] = [r EXCEPT !.name = NextName(@)] /\ proc' = [proc EXCEPT ![p] = proc'[p]]
      BY <1>2 DEF ChooseName, IInv, Types
    <2>2. NextName(r.name) \in Base \X Nat
      BY <1>1 DEF NextName, Busy
    <2>3. proc'[p] \in Busy /\ proc'[p].pc = "name" /\ proc'[p].trash = r.trash
      BY <1>1, <2>1, <2>2 DEF Busy
    <2>4. Proper(p)'
      BY <1>1, <2>3 DEF IInv, Proper, ProperName, ProperCopy, Covered, Doomed
    <2> QED BY <2>1, <2>3, <2>4, Still DEF ChooseName
  <1>3. CASE ~Taken(r.trash, r.name)
    <2>1. proc'[p] = [r EXCEPT !.pc = "info"] /\ proc' = [proc EXCEPT ![p] = proc'[p]]
      BY <1>3 DEF ChooseName, IInv, Types
    <2>2. proc'[p] \in Busy /\ proc'[p].pc = "info" /\ proc'[p].trash = r.trash /\ proc'[p].name = r.name
      BY <1>1, <2>1 DEF Busy
    <2>3. ~Within(files, r.trash, r.name)' /\ ~Within(info, r.trash, r.name)'
      BY <1>3, <2>2 DEF Taken, Within, ChooseName
    <2>4. Proper(p)'
      BY <1>1, <1>3, <2>2 DEF IInv, Proper, ProperName, ProperCopy, Covered, Doomed, Taken, Within, ChooseName
    <2> QED BY <2>1, <2>2, <2>4, Still DEF ChooseName
  <1> QED BY <1>2, <1>3

LEMMA EndInv == ASSUME IInv, NEW p \in Proc, End(p) PROVE IInv'
  <1>1. proc'[p] = Idle /\ proc' = [proc EXCEPT ![p] = proc'[p]]
    BY DEF End, IInv, Types
  <1>2. Proper(p)'
    BY <1>1 DEF Proper, Idle
  <1> QED BY <1>1, <1>2, Still DEF End

-------------------------------------------------------------------------------
(* The steps that change the trash. *)

\* What a process puts into its own trash leaves the others alone, and has the
\* type of an entry.
LEMMA OwnTrash ==
  ASSUME IInv, NEW p \in Proc, proc[p].pc # "idle"
  PROVE  /\ proc[p].trash \in TrashDir /\ proc[p].name \in Base \X Nat /\ proc[p].trash.of = p
         /\ proc[p].item \in Item /\ Files(proc[p].item) \subseteq Path
  BY BusyFields, FilesOf DEF IInv, Proper, Busy

LEMMA OwnEntry ==
  ASSUME IInv, NEW p \in Proc, proc[p].pc # "idle", NEW f \in Path, NEW c \in File \cup {Partial}
  PROVE  /\ Store(proc[p].trash, proc[p].name, f, c) \subseteq Entries
         /\ OfOthers(p, files, Store(proc[p].trash, proc[p].name, f, c))
  <1>1. proc[p].trash \in TrashDir /\ proc[p].name \in Base \X Nat /\ proc[p].trash.of = p
    BY OwnTrash
  <1>2. files \subseteq Entries
    BY DEF IInv, Types
  <1>3. <<proc[p].trash, proc[p].name, f, c>> \in Entries
    BY <1>1 DEF Entries
  <1> QED BY <1>1, <1>2, <1>3 DEF Store, OfOthers

LEMMA OwnReplace ==
  ASSUME IInv, NEW p \in Proc, proc[p].pc # "idle", NEW S, NEW T, NEW X, S \subseteq X, T \subseteq X,
         \A e \in T : e[1] = proc[p].trash
  PROVE  LET R == Replace(S, proc[p].trash, proc[p].name, T) IN R \subseteq X /\ OfOthers(p, S, R)
  <1>1. proc[p].trash.of = p
    BY OwnTrash
  <1> QED BY <1>1 DEF Replace, OfOthers

\* Files, once they are whole, stay where they are.
Stays == \A e \in files : e[4] # Partial => e \in files'

LEMMA KeptStays ==
  ASSUME Stays, NEW c \in File, Kept(c)
  PROVE  Kept(c)'
  BY FileType DEF Stays, Kept

LEMMA NotLost ==
  ASSUME IInv, Stays, UNCHANGED <<made, late>>,
         \A f \in Path : at[f] # None => at'[f] = at[f] \/ at[f] \in late \/ \E e \in files' : e[4] = at[f]
  PROVE  NothingIsLost'
  <1> SUFFICES ASSUME NEW f \in Path, NEW k \in 1 .. made[f]
               PROVE  at'[f] = <<f, k>> \/ Kept(<<f, k>>)' \/ <<f, k>> \in late
    BY DEF NothingIsLost, Kept
  <1>1. <<f, k>> \in File
    BY TrashAssumption, FileType DEF IInv, Types
  <1>2. at[f] = <<f, k>> \/ Kept(<<f, k>>) \/ <<f, k>> \in late
    BY DEF IInv, NothingIsLost
  <1>3. CASE Kept(<<f, k>>)
    BY <1>1, <1>3, KeptStays
  <1>4. CASE at[f] = <<f, k>>
    BY <1>1, <1>4, FileType DEF Kept
  <1> QED BY <1>2, <1>3, <1>4

LEMMA WriteInv == ASSUME IInv, NEW p \in Proc, WriteInfo(p) PROVE IInv'
  <1> DEFINE r == proc[p]
             line == <<r.trash, r.name, r.item>>
  <1>1. r \in Busy /\ r.pc = "info" /\ ProperName(r) /\ r.trash.of = p
    BY BusyFields DEF WriteInfo, IInv, Proper
  <1>2. proc'[p] = [r EXCEPT !.pc = "move"] /\ proc' = [proc EXCEPT ![p] = proc'[p]]
    BY DEF WriteInfo, IInv, Types
  <1>3. /\ proc'[p] \in Busy /\ proc'[p].pc = "move"
        /\ proc'[p].trash = r.trash /\ proc'[p].name = r.name /\ proc'[p].item = r.item
    BY <1>1, <1>2 DEF Busy
  <1>4. info' = Replace(info, r.trash, r.name, {line}) /\ UNCHANGED <<made, at, files, late>>
    BY DEF WriteInfo, InfoName
  <1>5. info' \subseteq Infos /\ OfOthers(p, info, info')
    <2>1. {line} \subseteq Infos /\ info \subseteq Infos /\ \A e \in {line} : e[1] = r.trash
      BY <1>1 DEF Infos, Busy, IInv, Types
    <2>2. r.pc # "idle"
      BY <1>1
    <2> HIDE DEF line
    <2>3. /\ Replace(info, r.trash, r.name, {line}) \subseteq Infos
          /\ OfOthers(p, info, Replace(info, r.trash, r.name, {line}))
      BY <2>1, <2>2, OwnReplace
    <2> QED BY <1>4, <2>3
  <1>6. line \in info'
    BY <1>4 DEF Replace
  <1>7. Proper(p)'
    <2>1. ~Within(files, r.trash, r.name)'
      BY <1>1, <1>3, <1>4 DEF ProperName, Within
    <2> QED BY <1>1, <1>3, <1>6, <2>1 DEF Proper, ProperName, ProperCopy, Covered, Doomed, Within
  <1>8. InfoTellsOrigin'
    <2> SUFFICES ASSUME NEW e \in files, e[4] # Partial
                 PROVE  \E i \in Item : <<e[1], e[2], i>> \in info' /\ e[4][1] \in Files(i)
      BY <1>4 DEF InfoTellsOrigin, Files
    <2>1. \E i \in Item : <<e[1], e[2], i>> \in info /\ e[4][1] \in Files(i)
      BY DEF IInv, InfoTellsOrigin
    <2>2. e[1] # r.trash \/ e[2] # r.name
      BY <1>1 DEF ProperName, Within
    <2> QED BY <1>4, <2>1, <2>2 DEF Replace
  <1>9. NothingIsLost'
    BY <1>4 DEF IInv, NothingIsLost, Kept
  <1>10. OfOthers(p, files, files') /\ \A f \in Path : at'[f] \in {None, at[f]}
    BY <1>4 DEF OfOthers
  <1> QED BY <1>2, <1>3, <1>4, <1>5, <1>7, <1>8, <1>9, <1>10, StepOf DEF IInv, Types

\* A move that is over.
LEMMA OverInv ==
  ASSUME IInv, NEW p \in Proc, proc' = [proc EXCEPT ![p] = Idle],
         UNCHANGED <<made, at, files, info, late>>
  PROVE  IInv'
  <1>1. proc'[p] = Idle /\ proc' = [proc EXCEPT ![p] = proc'[p]]
    BY DEF IInv, Types
  <1>2. Proper(p)'
    BY <1>1 DEF Proper, Idle
  <1> QED BY <1>1, <1>2, Still

LEMMA RenameInv ==
  ASSUME IInv, NEW p \in Proc, proc[p].pc = "move",
         files' = Replace(files, proc[p].trash, proc[p].name,
                          {<<proc[p].trash, proc[p].name, f, at[f]>> : f \in There(proc[p].item)}),
         at' = [f \in Path |-> IF f \in Files(proc[p].item) THEN None ELSE at[f]],
         proc' = [proc EXCEPT ![p] = Idle], UNCHANGED <<made, info, late>>
  PROVE  IInv'
  <1> DEFINE r == proc[p]
             T == {<<r.trash, r.name, f, at[f]>> : f \in There(r.item)}
  <1>1. /\ r.trash \in TrashDir /\ r.name \in Base \X Nat /\ r.item \in Item /\ Files(r.item) \subseteq Path
        /\ ProperName(r)
    BY OwnTrash DEF IInv, Proper
  <1>2. \A f \in There(r.item) : f \in Path /\ f \in Files(r.item) /\ at[f] \in File /\ at[f][1] = f
    BY <1>1 DEF IInv, Types, Latest, There
  <1>3. proc'[p] = Idle /\ proc' = [proc EXCEPT ![p] = proc'[p]] /\ Proper(p)'
    BY DEF IInv, Types, Proper, Idle
  <1>4. files' \subseteq Entries /\ OfOthers(p, files, files')
    <2>1. T \subseteq Entries /\ files \subseteq Entries
      BY <1>1, <1>2 DEF IInv, Types, Entries
    <2>2. \A e \in T : e[1] = r.trash
      OBVIOUS
    <2> QED BY <2>1, <2>2, OwnReplace
  <1>5. /\ at' \in [Path -> File \cup {None}] /\ \A f \in Path : at'[f] \in {None, at[f]}
        /\ \A f \in Path : f \notin Files(r.item) => at'[f] = at[f]
    BY DEF IInv, Types
  <1>6. Stays
    BY <1>1 DEF Stays, ProperName, Within, Replace
  <1>7. \A f \in There(r.item) : <<r.trash, r.name, f, at[f]>> \in files'
    BY DEF Replace
  <1>8. NothingIsLost'
    <2>1. ASSUME NEW f \in Path, at[f] # None
          PROVE  at'[f] = at[f] \/ \E e \in files' : e[4] = at[f]
      <3>1. CASE f \in Files(r.item)
        <4>1. f \in There(r.item)
          BY <2>1, <3>1 DEF There
        <4> QED BY <1>7, <4>1
      <3>2. CASE f \notin Files(r.item)
        BY <1>5, <3>2
      <3> QED BY <3>1, <3>2
    <2> QED BY <1>6, <2>1, NotLost
  <1>9. InfoTellsOrigin'
    <2> SUFFICES ASSUME NEW e \in files', e[4] # Partial
                 PROVE  \E i \in Item : <<e[1], e[2], i>> \in info /\ e[4][1] \in Files(i)
      BY DEF InfoTellsOrigin, Files
    <2>1. CASE e \in files
      BY <2>1 DEF IInv, InfoTellsOrigin
    <2>2. CASE e \in T
      <3>1. PICK f \in There(r.item) : e = <<r.trash, r.name, f, at[f]>>
        BY <2>2
      <3>2. <<r.trash, r.name, r.item>> \in info
        BY <1>1 DEF ProperName
      <3> QED BY <1>1, <1>2, <3>1, <3>2
    <2> QED BY <2>1, <2>2 DEF Replace
  <1>10. info' \subseteq Infos /\ OfOthers(p, info, info')
    BY DEF IInv, Types, OfOthers
  <1> QED BY <1>3, <1>4, <1>5, <1>8, <1>9, <1>10, StepOf

\* The fields of a process that changes some of them.
SameMove(n, b) == n.item = b.item /\ n.trash = b.trash /\ n.name = b.name

LEMMA TodoRecord ==
  ASSUME NEW b \in Busy, NEW pc \in {"copy", "copying", "unlink"}, NEW todo \in SUBSET Path
  PROVE  LET n == [b EXCEPT !.pc = pc, !.todo = todo]
         IN  n \in Busy /\ n.pc = pc /\ n.todo = todo /\ SameMove(n, b)
  BY DEF Busy, SameMove

LEMMA FileRecord ==
  ASSUME NEW b \in Busy, NEW todo \in SUBSET Path, NEW c \in File
  PROVE  LET n == [b EXCEPT !.pc = "copying", !.todo = todo, !.file = c]
         IN  n \in Busy /\ n.pc = "copying" /\ n.todo = todo /\ n.file = c /\ n.ok = b.ok /\ SameMove(n, b)
  BY DEF Busy, SameMove

LEMMA FailedRecord ==
  ASSUME NEW b \in Busy, NEW todo \in SUBSET Path
  PROVE  LET n == [b EXCEPT !.todo = todo, !.ok = FALSE]
         IN  n \in Busy /\ n.pc = b.pc /\ n.todo = todo /\ ~n.ok /\ SameMove(n, b)
  BY DEF Busy, SameMove

\* What a step of a copy leaves of the rest of the state.
LEMMA CopyStep ==
  ASSUME IInv, NEW p \in Proc, proc' = [proc EXCEPT ![p] = proc'[p]], proc'[p] \in Busy, Proper(p)',
         UNCHANGED <<made, at, info, late>>,
         files' \subseteq Entries, OfOthers(p, files, files'), Stays,
         \A e \in files' : \/ e \in files \/ e[4] = Partial
                           \/ \E i \in Item : <<e[1], e[2], i>> \in info /\ e[4][1] \in Files(i)
  PROVE  IInv'
  <1>1. NothingIsLost'
    BY NotLost
  <1>2. InfoTellsOrigin'
    BY DEF IInv, InfoTellsOrigin, Files
  <1>3. info' \subseteq Infos /\ OfOthers(p, info, info')
    BY DEF IInv, Types, OfOthers
  <1>4. at' \in [Path -> File \cup {None}] /\ \A f \in Path : at'[f] \in {None, at[f]}
    BY DEF IInv, Types
  <1> QED BY <1>1, <1>2, <1>3, <1>4, StepOf

LEMMA BeginInv ==
  ASSUME IInv, NEW p \in Proc, proc[p].pc = "move",
         files' = Replace(files, proc[p].trash, proc[p].name, {}),
         proc' = [proc EXCEPT ![p].pc = "copy", ![p].todo = There(proc[p].item)],
         UNCHANGED <<made, at, info, late>>
  PROVE  IInv'
  <1> DEFINE r == proc[p]
             T == There(r.item)
  <1>1. r \in Busy /\ r.item \in Item /\ T \subseteq Files(r.item) /\ T \in SUBSET Path
        /\ r.trash.of = p /\ ProperName(r)
    BY BusyFields, OwnTrash, FilesOf DEF IInv, Proper
  <1>2. proc'[p] = [r EXCEPT !.pc = "copy", !.todo = T] /\ proc' = [proc EXCEPT ![p] = proc'[p]]
    BY DEF IInv, Types
  <1>3. proc'[p] \in Busy /\ proc'[p].pc = "copy" /\ proc'[p].todo = T /\ SameMove(proc'[p], r)
    <2> DEFINE n == [r EXCEPT !.pc = "copy", !.todo = T]
    <2>1. r \in Busy /\ T \in SUBSET Path /\ proc'[p] = n
      BY <1>1, <1>2
    <2>2. n \in Busy /\ n.pc = "copy" /\ n.todo = T /\ SameMove(n, r)
      <3> HIDE DEF r, T
      <3> QED BY <2>1, TodoRecord
    <2> HIDE DEF n
    <2> QED BY <2>1, <2>2
  <1>4. /\ proc'[p].pc = "copy" /\ proc'[p].todo = T /\ proc'[p].item = r.item
        /\ proc'[p].trash = r.trash /\ proc'[p].name = r.name
    BY <1>3 DEF SameMove
  <1>5. files' \subseteq Entries /\ OfOthers(p, files, files')
    BY OwnReplace DEF IInv, Types
  <1>6. \A e \in files' : e \in files /\ ~(e[1] = r.trash /\ e[2] = r.name)
    BY DEF Replace
  <1>7. Stays
    BY <1>1 DEF Stays, ProperName, Within, Replace
  <1>8. Proper(p)'
    <2>1. ProperName(proc[p])'
      <3>1. <<r.trash, r.name, r.item>> \in info'
        BY <1>1 DEF ProperName
      <3> QED BY <1>4, <3>1 DEF ProperName
    <2>2. ProperCopy(proc[p])'
      BY <1>1, <1>4, <1>6 DEF ProperCopy, Files
    <2>3. Covered(proc[p], Doomed(p))'
      <3> SUFFICES ASSUME NEW f \in Files(r.item) \ T PROVE at[f] = None
        BY <1>4 DEF Covered, Doomed, Files
      <3> QED BY DEF There
    <2> QED BY <1>1, <1>4, <2>1, <2>2, <2>3 DEF Proper
  <1> QED BY <1>2, <1>3, <1>5, <1>6, <1>7, <1>8, CopyStep

LEMMA MoveInv == ASSUME IInv, NEW p \in Proc, Move(p) PROVE IInv'
  BY OverInv, RenameInv, BeginInv DEF Move

LEMMA CopyInv == ASSUME IInv, NEW p \in Proc, CopyFile(p) PROVE IInv'
  <1> DEFINE r == proc[p]
  <1>1. /\ r \in Busy /\ r.pc = "copy" /\ ProperName(r) /\ ProperCopy(r) /\ Covered(r, Doomed(p)) /\ r.trash.of = p
        /\ UNCHANGED <<made, at, info, late>>
    BY BusyFields DEF CopyFile, IInv, Proper
  <1>2. PICK f \in r.todo : /\ at[f] # None /\ files' = Store(r.trash, r.name, f, Partial)
                            /\ proc' = [proc EXCEPT ![p].pc = "copying", ![p].todo = @ \ {f}, ![p].file = at[f]]
    BY DEF CopyFile
  <1> DEFINE D == r.todo \ {f}
             c == at[f]
  <1>3. f \in Path /\ f \in Files(r.item) /\ c \in File /\ c[1] = f /\ D \in SUBSET Path
    BY <1>1, <1>2 DEF IInv, Types, Latest, Busy, ProperCopy
  <1>4. proc'[p] = [r EXCEPT !.pc = "copying", !.todo = D, !.file = c] /\ proc' = [proc EXCEPT ![p] = proc'[p]]
    BY <1>2 DEF IInv, Types
  <1>5. /\ proc'[p] \in Busy /\ proc'[p].pc = "copying" /\ proc'[p].todo = D /\ proc'[p].file = c
        /\ proc'[p].ok = r.ok /\ SameMove(proc'[p], r)
    <2> DEFINE n == [r EXCEPT !.pc = "copying", !.todo = D, !.file = c]
    <2>1. r \in Busy /\ D \in SUBSET Path /\ c \in File /\ proc'[p] = n
      BY <1>1, <1>3, <1>4
    <2>2. n \in Busy /\ n.pc = "copying" /\ n.todo = D /\ n.file = c /\ n.ok = r.ok /\ SameMove(n, r)
      <3> HIDE DEF r, D, c
      <3> QED BY <2>1, FileRecord
    <2> HIDE DEF n
    <2> QED BY <2>1, <2>2
  <1>6. /\ proc'[p].pc = "copying" /\ proc'[p].todo = D /\ proc'[p].file = c /\ proc'[p].item = r.item
        /\ proc'[p].trash = r.trash /\ proc'[p].name = r.name /\ proc'[p].ok = r.ok
    BY <1>5 DEF SameMove
  <1>7. files' \subseteq Entries /\ OfOthers(p, files, files')
    BY <1>1, <1>2, <1>3, OwnEntry
  <1>8. \A e \in files' : e \in files \/ e = <<r.trash, r.name, f, Partial>>
    BY <1>2, StoreMembers
  <1>9. \A e \in files : ~(e[1] = r.trash /\ e[2] = r.name /\ e[3] = f)
    BY <1>1, <1>2 DEF ProperCopy
  <1>10. files \subseteq files'
    BY <1>2, <1>9, StoreMembers
  <1>11. Proper(p)'
    <2>1. ProperName(proc[p])'
      BY <1>1, <1>6 DEF ProperName
    <2>2. ProperCopy(proc[p])'
      BY <1>1, <1>3, <1>6, <1>8, <1>9 DEF ProperCopy, Files
    <2>3. Covered(proc[p], Doomed(p))'
      <3> SUFFICES ASSUME r.ok, NEW g \in Files(r.item) \ D
                   PROVE  \/ at[g] \in {None} \cup late
                          \/ <<r.trash, r.name, g, at[g]>> \in files'
                          \/ at[g] = c
        BY <1>1, <1>6 DEF Covered, Doomed, Files
      <3>1. CASE g = f
        BY <3>1
      <3>2. CASE g # f
        <4>1. g \in Doomed(p)
          BY <1>1, <3>2 DEF Doomed
        <4> QED BY <1>1, <1>10, <4>1 DEF Covered
      <3> QED BY <3>1, <3>2
    <2> QED BY <1>1, <1>6, <2>1, <2>2, <2>3 DEF Proper
  <1>12. Stays /\ \A e \in files' : e \in files \/ e[4] = Partial
    BY <1>8, <1>10 DEF Stays
  <1> QED BY <1>1, <1>4, <1>5, <1>7, <1>11, <1>12, CopyStep

LEMMA CopiedInv == ASSUME IInv, NEW p \in Proc, Copied(p) PROVE IInv'
  <1> DEFINE r == proc[p]
             f == r.file[1]
  <1>1. /\ r \in Busy /\ r.pc = "copying" /\ ProperName(r) /\ ProperCopy(r) /\ Covered(r, Doomed(p)) /\ r.trash.of = p
        /\ UNCHANGED <<made, at, info, late>> /\ files' = Store(r.trash, r.name, f, r.file)
    BY BusyFields DEF Copied, IInv, Proper
  <1>2. proc'[p] = [r EXCEPT !.pc = "copy"] /\ proc' = [proc EXCEPT ![p] = proc'[p]]
    BY DEF Copied, IInv, Types
  <1>3. /\ proc'[p] \in Busy /\ proc'[p].pc = "copy" /\ proc'[p].todo = r.todo /\ proc'[p].item = r.item
        /\ proc'[p].trash = r.trash /\ proc'[p].name = r.name /\ proc'[p].ok = r.ok
    BY <1>1, <1>2 DEF Busy
  <1>4. r.file \in File /\ f \in Path /\ f \in Files(r.item) \ r.todo /\ r.file # Partial
    BY <1>1, FileType DEF ProperCopy
  <1>5. files' \subseteq Entries /\ OfOthers(p, files, files')
    BY <1>1, <1>4, OwnEntry
  <1>6. \A e \in files' : e \in files \/ e = <<r.trash, r.name, f, r.file>>
    BY <1>1, StoreMembers
  <1>7. Stays
    BY <1>1, StoreMembers DEF Stays, ProperCopy
  <1>8. <<r.trash, r.name, r.item>> \in info /\ r.item \in Item
    BY <1>1 DEF ProperName, Busy
  <1>9. Proper(p)'
    <2>1. ProperName(proc[p])'
      BY <1>1, <1>3 DEF ProperName
    <2>2. ProperCopy(proc[p])'
      BY <1>1, <1>3, <1>4, <1>6 DEF ProperCopy, Files
    <2>3. Covered(proc[p], Doomed(p))'
      <3> SUFFICES ASSUME r.ok, NEW g \in Files(r.item) \ r.todo
                   PROVE  at[g] \in {None} \cup late \/ <<r.trash, r.name, g, at[g]>> \in files'
        BY <1>1, <1>3 DEF Covered, Doomed, Files
      <3>0. g \in Doomed(p) /\ g \in Path
        BY <1>1, <1>8, FilesOf DEF Doomed
      <3>1. CASE at[g] = r.file
        <4>1. g = f
          BY <1>4, <3>0, <3>1, FileType DEF IInv, Latest
        <4> QED BY <1>1, <3>1, <4>1, StoreMembers
      <3>2. CASE at[g] # None /\ <<r.trash, r.name, g, at[g]>> \in files
        <4>1. at[g] \in File
          BY <3>0, <3>2 DEF IInv, Types
        <4> QED BY <1>7, <3>2, <4>1, FileType DEF Stays
      <3> QED BY <1>1, <3>0, <3>1, <3>2 DEF Covered
    <2> QED BY <1>1, <1>3, <2>1, <2>2, <2>3 DEF Proper
  <1>10. \A e \in files' : e \in files \/ \E i \in Item : <<e[1], e[2], i>> \in info /\ e[4][1] \in Files(i)
    BY <1>4, <1>6, <1>8
  <1> QED BY <1>1, <1>2, <1>3, <1>5, <1>7, <1>9, <1>10, CopyStep

LEMMA FailInv == ASSUME IInv, NEW p \in Proc, CopyFails(p) PROVE IInv'
  <1> DEFINE r == proc[p]
  <1>1. /\ r \in Busy /\ r.pc \in {"copy", "copying"} /\ ProperName(r) /\ ProperCopy(r) /\ r.trash.of = p
        /\ UNCHANGED <<made, at, files, info, late>>
    BY BusyFields DEF CopyFails, IInv, Proper
  <1>2. \E todo \in SUBSET r.todo :
          /\ proc'[p] \in Busy /\ proc'[p].pc = "copy" /\ proc'[p].todo = todo /\ proc'[p].item = r.item
          /\ proc'[p].trash = r.trash /\ proc'[p].name = r.name /\ ~proc'[p].ok
          /\ proc' = [proc EXCEPT ![p] = proc'[p]]
    <2>1. CASE r.pc = "copying" /\ proc' = [proc EXCEPT ![p].pc = "copy", ![p].ok = FALSE]
      <3>1. proc'[p] = [r EXCEPT !.pc = "copy", !.ok = FALSE] /\ proc' = [proc EXCEPT ![p] = proc'[p]]
        BY <2>1 DEF IInv, Types
      <3> QED BY <1>1, <3>1 DEF Busy
    <2>2. ASSUME r.pc = "copy", NEW f \in r.todo, proc' = [proc EXCEPT ![p].todo = @ \ {f}, ![p].ok = FALSE]
          PROVE  \E todo \in SUBSET r.todo :
                   /\ proc'[p] \in Busy /\ proc'[p].pc = "copy" /\ proc'[p].todo = todo /\ proc'[p].item = r.item
                   /\ proc'[p].trash = r.trash /\ proc'[p].name = r.name /\ ~proc'[p].ok
                   /\ proc' = [proc EXCEPT ![p] = proc'[p]]
      <3> DEFINE D == r.todo \ {f}
      <3>1. proc'[p] = [r EXCEPT !.todo = D, !.ok = FALSE] /\ proc' = [proc EXCEPT ![p] = proc'[p]]
        BY <2>2 DEF IInv, Types
      <3>2. D \in SUBSET Path /\ D \in SUBSET r.todo
        BY <1>1 DEF Busy
      <3>3. proc'[p] \in Busy /\ proc'[p].pc = r.pc /\ proc'[p].todo = D /\ ~proc'[p].ok /\ SameMove(proc'[p], r)
        <4> DEFINE n == [r EXCEPT !.todo = D, !.ok = FALSE]
        <4>1. r \in Busy /\ D \in SUBSET Path /\ proc'[p] = n
          BY <1>1, <3>1, <3>2
        <4>2. n \in Busy /\ n.pc = r.pc /\ n.todo = D /\ ~n.ok /\ SameMove(n, r)
          <5> HIDE DEF r, D
          <5> QED BY <4>1, FailedRecord
        <4> HIDE DEF n
        <4> QED BY <4>1, <4>2
      <3>4. /\ proc'[p].pc = "copy" /\ proc'[p].item = r.item
            /\ proc'[p].trash = r.trash /\ proc'[p].name = r.name
        BY <2>2, <3>3 DEF SameMove
      <3> QED BY <3>1, <3>2, <3>3, <3>4
    <2> QED BY <2>1, <2>2 DEF CopyFails
  <1>3. Proper(p)'
    <2>1. ProperName(proc[p])'
      BY <1>1, <1>2 DEF ProperName
    <2>2. ProperCopy(proc[p])'
      BY <1>1, <1>2 DEF ProperCopy, Files
    <2>3. Covered(proc[p], Doomed(p))'
      BY <1>2 DEF Covered, Doomed
    <2> QED BY <1>1, <1>2, <2>1, <2>2, <2>3 DEF Proper
  <1> QED BY <1>1, <1>2, <1>3, Still

LEMMA AllDoneInv == ASSUME IInv, NEW p \in Proc, AllDone(p) PROVE IInv'
  <1> DEFINE r == proc[p]
             D == ToUnlink(r.item)
  <1>1. /\ r \in Busy /\ r.pc = "copy" /\ r.todo = {} /\ ProperName(r) /\ Covered(r, Doomed(p)) /\ r.trash.of = p
        /\ UNCHANGED <<made, at, files, info, late>> /\ r.item \in Item
    BY BusyFields, OwnTrash DEF AllDone, IInv, Proper
  <1>2. CASE ~(r.ok /\ D # {})
    BY <1>1, <1>2, OverInv DEF AllDone
  <1>3. CASE r.ok /\ D # {}
    <2>1. proc'[p] = [r EXCEPT !.pc = "unlink", !.todo = D] /\ proc' = [proc EXCEPT ![p] = proc'[p]]
      BY <1>3 DEF AllDone, IInv, Types
    <2>2. D \subseteq Files(r.item) /\ D \in SUBSET Path
      BY <1>1, FilesOf
    <2>3. proc'[p] \in Busy /\ proc'[p].pc = "unlink" /\ proc'[p].todo = D /\ SameMove(proc'[p], r)
      <3> DEFINE n == [r EXCEPT !.pc = "unlink", !.todo = D]
      <3>1. r \in Busy /\ D \in SUBSET Path /\ proc'[p] = n
        BY <1>1, <2>1, <2>2
      <3>2. n \in Busy /\ n.pc = "unlink" /\ n.todo = D /\ SameMove(n, r)
        <4> HIDE DEF r, D
        <4> QED BY <3>1, TodoRecord
      <3> HIDE DEF n
      <3> QED BY <3>1, <3>2
    <2>4. /\ proc'[p].pc = "unlink" /\ proc'[p].todo = D /\ proc'[p].item = r.item
          /\ proc'[p].trash = r.trash /\ proc'[p].name = r.name
      BY <2>3 DEF SameMove
    <2>5. ProperName(proc[p])' /\ ProperCopy(proc[p])'
      BY <1>1, <2>2, <2>4 DEF ProperName, ProperCopy, Files
    <2>6. Covered(proc[p], Doomed(p))'
      <3>1. D \subseteq Doomed(p) /\ Doomed(p)' = D
        BY <1>1, <1>3, <2>2, <2>4 DEF Doomed
      <3> QED BY <1>1, <2>4, <3>1 DEF Covered
    <2>7. Proper(p)'
      BY <1>1, <2>4, <2>5, <2>6 DEF Proper
    <2> QED BY <1>1, <2>1, <2>3, <2>7, Still
  <1> QED BY <1>2, <1>3

LEMMA UnlinkInv == ASSUME IInv, NEW p \in Proc, Unlink(p) PROVE IInv'
  <1> DEFINE r == proc[p]
  <1>1. /\ r \in Busy /\ r.pc = "unlink" /\ ProperName(r) /\ ProperCopy(r) /\ Covered(r, Doomed(p)) /\ r.trash.of = p
        /\ UNCHANGED <<made, files, info, late>> /\ r.todo \subseteq Path /\ Doomed(p) = r.todo
    BY BusyFields DEF Unlink, IInv, Proper, Busy, Doomed
  <1>2. CASE proc' = [proc EXCEPT ![p] = Idle] /\ UNCHANGED at
    BY <1>1, <1>2, OverInv
  <1>3. ASSUME NEW f \in r.todo, at' = [at EXCEPT ![f] = None],
               proc' = IF r.todo = {f} THEN [proc EXCEPT ![p] = Idle] ELSE [proc EXCEPT ![p].todo = @ \ {f}]
        PROVE  IInv'
    <2> DEFINE D == r.todo \ {f}
    <2>1. /\ at' \in [Path -> File \cup {None}] /\ \A g \in Path : at'[g] \in {None, at[g]}
          /\ \A g \in Path : g # f => at'[g] = at[g]
          /\ at'[f] = None
      BY <1>1, <1>3 DEF IInv, Types
    <2>2. proc' = [proc EXCEPT ![p] = proc'[p]] /\ proc'[p] \in {Idle} \cup Busy /\ Proper(p)'
      <3>1. CASE r.todo = {f}
        BY <1>3, <3>1 DEF IInv, Types, Proper, Idle
      <3>2. CASE r.todo # {f}
        <4>1. proc'[p] = [r EXCEPT !.todo = D] /\ proc' = [proc EXCEPT ![p] = proc'[p]]
          BY <1>3, <3>2 DEF IInv, Types
        <4>2. proc'[p] \in Busy
          <5>1. D \in SUBSET Path
            BY <1>1
          <5> HIDE DEF r, D
          <5> QED BY <1>1, <4>1, <5>1 DEF Busy
        <4>3. /\ proc'[p].pc = "unlink" /\ proc'[p].todo = D /\ proc'[p].item = r.item
              /\ proc'[p].trash = r.trash /\ proc'[p].name = r.name
          BY <1>1, <4>1 DEF Busy
        <4>4. ProperName(proc[p])' /\ ProperCopy(proc[p])'
          BY <1>1, <4>3 DEF ProperName, ProperCopy, Files
        <4>5. Covered(proc[p], Doomed(p))'
          <5>1. Doomed(p)' = D
            BY <4>3 DEF Doomed
          <5> QED BY <1>1, <2>1, <4>3, <5>1 DEF Covered
        <4> QED BY <1>1, <4>1, <4>2, <4>3, <4>4, <4>5 DEF Proper
      <3> QED BY <3>1, <3>2
    <2>3. NothingIsLost'
      <3>1. at[f] # None => at[f] \in late \/ \E e \in files' : e[4] = at[f]
        <4>1. at[f] \in {None} \cup late \/ <<r.trash, r.name, f, at[f]>> \in files
          BY <1>1, <1>3 DEF Covered
        <4> QED BY <1>1, <4>1
      <3>2. Stays
        BY <1>1 DEF Stays
      <3> QED BY <1>1, <2>1, <3>1, <3>2, NotLost
    <2>4. InfoTellsOrigin'
      BY <1>1 DEF IInv, InfoTellsOrigin, Files
    <2>5. /\ info' \subseteq Infos /\ OfOthers(p, info, info')
          /\ files' \subseteq Entries /\ OfOthers(p, files, files')
      BY <1>1 DEF IInv, Types, OfOthers
    <2> QED BY <1>1, <2>1, <2>2, <2>3, <2>4, <2>5, StepOf
  <1> QED BY <1>2, <1>3 DEF Unlink

LEMMA CreateInv == ASSUME IInv, NEW f \in Path, Create(f) PROVE IInv'
  <1> DEFINE c == <<f, made[f] + 1>>
  <1>1. /\ made' = [made EXCEPT ![f] = @ + 1] /\ at' = [at EXCEPT ![f] = c]
        /\ at[f] = None /\ UNCHANGED <<files, info, proc>>
        /\ late' = IF Unlinking(f) THEN late \cup {c} ELSE late
    BY DEF Create
  <1>2. c \in File /\ made[f] + 1 \in 1 .. MaxNew[f]
    <2>1. made[f] \in Nat /\ MaxNew[f] \in Nat
      BY TrashAssumption DEF IInv, Types
    <2>2. made[f] < MaxNew[f]
      BY DEF Create
    <2>3. made[f] + 1 \in 1 .. MaxNew[f]
      BY <2>1, <2>2
    <2> QED BY <2>3, FileType
  <1>3. Types' /\ Latest'
    BY <1>1, <1>2, TrashAssumption DEF IInv, Types, Latest
  <1>4. ASSUME NEW q \in Proc PROVE Proper(q)'
    <2>1. \A g \in Doomed(q) : at'[g] \in {None, at[g]} \cup late'
      <3> SUFFICES ASSUME NEW g \in Doomed(q) PROVE at'[g] \in {None, at[g]} \cup late'
        OBVIOUS
      <3>1. g \in Path
        BY DoomedType
      <3>2. g = f => c \in late'
        BY <1>1 DEF Unlinking
      <3> QED BY <1>1, <3>1, <3>2 DEF IInv, Types
    <2>2. Untouched(q)
      BY <1>1, <2>1 DEF Untouched
    <2> QED BY <1>1, <2>2, Bystander, SameDoom DEF IInv
  <1>5. NothingIsLost'
    <2> SUFFICES ASSUME NEW g \in Path, NEW k \in 1 .. made'[g]
                 PROVE  at'[g] = <<g, k>> \/ Kept(<<g, k>>)' \/ <<g, k>> \in late'
      BY DEF NothingIsLost, Kept
    <2>1. CASE k \in 1 .. made[g]
      <3>1. at[g] = <<g, k>> \/ Kept(<<g, k>>) \/ <<g, k>> \in late
        BY <2>1 DEF IInv, NothingIsLost
      <3>2. at[g] = <<g, k>> => at'[g] = <<g, k>>
        <4>1. <<g, k>> # None
          BY <2>1, FileType, TrashAssumption DEF IInv, Types
        <4> QED BY <1>1, <4>1 DEF IInv, Types
      <3> QED BY <1>1, <3>1, <3>2 DEF Kept
    <2>2. CASE k \notin 1 .. made[g]
      <3>1. g = f /\ k = made[f] + 1
        BY <1>1, <2>2 DEF IInv, Types
      <3> QED BY <1>1, <3>1 DEF IInv, Types
    <2> QED BY <2>1, <2>2
  <1>6. InfoTellsOrigin'
    BY <1>1 DEF IInv, InfoTellsOrigin
  <1> QED BY <1>3, <1>4, <1>5, <1>6 DEF IInv

-------------------------------------------------------------------------------
LEMMA StepInv == IInv /\ [Next]_vars => IInv'
  <1> SUFFICES ASSUME IInv, [Next]_vars PROVE IInv'
    OBVIOUS
  <1>1. ASSUME NEW f \in Path, Create(f) PROVE IInv'
    BY <1>1, CreateInv
  <1>2. ASSUME NEW p \in Proc, NEW i \in Item, send2trash(p, i) PROVE IInv'
    BY <1>2, SendInv
  <1>3. ASSUME NEW p \in Proc, ChooseName(p) \/ WriteInfo(p) \/ Move(p) PROVE IInv'
    BY <1>3, ChooseInv, WriteInv, MoveInv
  <1>4. ASSUME NEW p \in Proc, CopyFile(p) \/ Copied(p) \/ CopyFails(p) \/ AllDone(p) PROVE IInv'
    BY <1>4, CopyInv, CopiedInv, FailInv, AllDoneInv
  <1>5. ASSUME NEW p \in Proc, Unlink(p) \/ End(p) PROVE IInv'
    BY <1>5, UnlinkInv, EndInv
  <1>6. CASE UNCHANGED vars
    <2>1. UNCHANGED <<made, at, files, info, proc, late>>
      BY <1>6 DEF vars
    <2>2. ASSUME NEW q \in Proc PROVE Proper(q)'
      <3>1. Untouched(q)
        BY <2>1 DEF Untouched
      <3> QED BY <2>1, <3>1, Bystander, SameDoom DEF IInv
    <2>3. Types' /\ Latest'
      BY <2>1 DEF IInv, Types, Latest
    <2>4. NothingIsLost' /\ InfoTellsOrigin'
      BY <2>1 DEF IInv, NothingIsLost, InfoTellsOrigin, Kept, Files
    <2> QED BY <2>2, <2>3, <2>4 DEF IInv
  <1> QED BY <1>1, <1>2, <1>3, <1>4, <1>5, <1>6 DEF Next

LEMMA InvHolds == Spec => []IInv
  BY InitInv, StepInv, PTL DEF Spec

\* However many users delete files and folders of the same volumes, wherever the
\* copies and unlinks fail and their containers end, shutil.move in place of
\* rename loses no file but a late one (made where another user's move had already
\* copied, or looked, and still had to unlink).
THEOREM FilesAreKept == Spec => []NothingIsLost
  <1>1. IInv => NothingIsLost
    BY DEF IInv
  <1> QED BY <1>1, InvHolds, PTL

\* What is whole in a trash has an info file that tells where it was.
THEOREM OriginsAreTold == Spec => []InfoTellsOrigin
  <1>1. IInv => InfoTellsOrigin
    BY DEF IInv
  <1> QED BY <1>1, InvHolds, PTL
=================================================================================
