-------------------------- MODULE NamespaceProofs --------------------------
(***************************************************************************)
(* For every table size and every set of names and arguments: the          *)
(* directory table stays duplicate free with "/" first, and no file is     *)
(* left in a directory that is not in the table.  NInv is inductive.       *)
(***************************************************************************)
EXTENDS Namespace, TLAPS, WellFoundedInduction, SequenceTheorems

\* A non-empty set of slots has a least element.
LEMMA LeastSlot ==
  ASSUME NEW S, S \subseteq Nat, S # {}
  PROVE  \E x \in S : \A y \in S : x <= y
<1> DEFINE Less == OpToRel(<, Nat)
<1>1. PICK x \in S : \A y \in S : ~(<<y, x>> \in Less)
  BY NatLessThanWellFounded, WFMin
<1>2. ASSUME NEW y \in S, y < x
      PROVE  <<y, x>> \in Less
  <2>1. <<y, x>> \in Nat \X Nat
    OBVIOUS
  <2>. QED  BY <2>1, <1>2 DEF OpToRel
<1> HIDE DEF Less
<1>3. \A y \in S : ~(y < x)
  BY <1>1, <1>2
<1>4. \A y \in S : x <= y
  BY <1>3
<1>. QED  BY <1>4

\* find_dir returns an entry of the table that holds the path, or DIR_MAX if
\* there is none.
LEMMA FindDir ==
  ASSUME NEW path
  PROVE  \/ find_dir(path) \in Known /\ dirs[find_dir(path)] = path
         \/ find_dir(path) = DIR_MAX /\ \A i \in Known : dirs[i] # path
<1> DEFINE S == {i \in Known : dirs[i] = path}
<1>1. CASE S = {}
  BY <1>1 DEF find_dir
<1>2. CASE S # {}
  <2>1. S \subseteq Nat
    BY DirAssumption DEF Known, DirSlot
  <2>2. \E i \in S : \A j \in S : i <= j
    BY <1>2, <2>1, LeastSlot
  <2>3. \E i \in Known : dirs[i] = path /\ \A j \in Known : dirs[j] = path => i <= j
    BY <2>2
  <2>. QED  BY <2>3 DEF find_dir
<1>. QED  BY <1>1, <1>2

\* DIR_MAX, the "not found" of find_dir, is not a slot.
LEMMA SlotFacts ==
  /\ DIR_MAX \notin DirSlot /\ 0 \in DirSlot
  /\ \A i \in DirSlot : i \in Nat /\ i < DIR_MAX
BY DirAssumption DEF DirSlot

\* "/" and the empty entry are paths.
LEMMA ConstantPaths == Root \in Path /\ Unused \in Path
<1>1. ASSUME NEW S, NEW x \in S PROVE <<x>> \in Seq(S)
  OBVIOUS
<1>2. ASSUME NEW S PROVE <<>> \in Seq(S)
  OBVIOUS
<1>3. "" \in Component
  BY DEF Component
<1>4. Root \in Path
  BY <1>1, <1>3 DEF Root, Path
<1>5. Unused \in Path
  BY <1>2 DEF Unused, Path
<1>. QED  BY <1>4, <1>5

\* What build_path and the table hold are paths.
LEMMA BuildPathType ==
  ASSUME TypeOK, NEW arg \in Args
  PROVE  build_path(arg) \in Path
<1>1. PICK p : p = arg.path
  OBVIOUS
<1>2. p \in Path
  BY <1>1, DirAssumption
<1>3. dir_getcwd \in Path
  BY DEF TypeOK, Known, dir_getcwd
<1>4. IsSlashed(p) => ButLast(p) \in Path
  <2>1. p \in Seq(Component) /\ Len(p) \in Nat
    BY <1>2 DEF Path
  <2>2. Len(p) > 1 => SubSeq(p, 1, Len(p) - 1) \in Seq(Component)
    BY <2>1, SubSeqProperties
  <2>. QED  BY <2>2 DEF IsSlashed, ButLast, Path
<1>5. dir_getcwd \o p \in Path
  BY <1>2, <1>3 DEF Path
<1>. QED  BY <1>1, <1>2, <1>4, <1>5 DEF build_path

\* dir_init and an empty store establish the invariant.
LEMMA InitInvariant == Init => NInv
<1> SUFFICES ASSUME Init PROVE NInv
  OBVIOUS
<1>1. /\ dirs = [i \in DirSlot |-> IF i = 0 THEN Root ELSE Unused]
      /\ dir_count = 1 /\ cwd_idx = 0 /\ asking = DIR_MAX
      /\ cmd = "none" /\ DOMAIN store = {}
  BY DEF Init, FS!Init
<1>3. TypeOK
  BY <1>1, ConstantPaths, SlotFacts, DirAssumption DEF TypeOK, Known
<1>4. TableOK
  BY <1>1, SlotFacts DEF TableOK, Known
<1>5. NoOrphanFiles /\ RunningOK
  BY <1>1, DirAssumption DEF NoOrphanFiles, RunningOK
<1>. QED  BY <1>3, <1>4, <1>5 DEF NInv

\* A command that only prints.
LEMMA QuietInvariant ==
  ASSUME NInv, UNCHANGED <<dirs, dir_count, cwd_idx, asking, store, cmd, key>>
  PROVE  NInv'
BY DEF NInv, TypeOK, TableOK, NoOrphanFiles, RunningOK, Known, dir_getcwd, fs_dir_empty

\* A directory command that prints an error and returns.
LEMMA RefuseInvariant ==
  ASSUME NInv, UNCHANGED fsVars, NEW c, NEW m, Refuse(c, m)
  PROVE  NInv'
BY QuietInvariant DEF Refuse, fsVars

\* mkdir adds a path that find_dir did not find, behind the others.
LEMMA MkdirInvariant ==
  ASSUME NInv, AtPrompt, UNCHANGED fsVars, NEW arg \in Args, dir_mkdir(arg)
  PROVE  NInv'
<1>0. PICK newpath : newpath = build_path(arg)
  OBVIOUS
<1>1. CASE (\E m : Refuse("mkdir", m))
  BY <1>1, RefuseInvariant
<1>2. CASE ~(\E m : Refuse("mkdir", m))
  <2>1. /\ dir_count < DIR_MAX /\ find_dir(newpath) = DIR_MAX
        /\ dirs' = [dirs EXCEPT ![dir_count] = newpath]
        /\ dir_count' = dir_count + 1
        /\ UNCHANGED <<cwd_idx, asking, store, cmd, key>>
    BY <1>0, <1>2 DEF dir_mkdir, fsVars
  <2>2. newpath \in Path /\ \A i \in Known : dirs[i] # newpath
    BY <1>0, <2>1, FindDir, BuildPathType, SlotFacts DEF NInv, Known
  <2>3. /\ dir_count \in DirSlot /\ dir_count \notin Known /\ dir_count # 0
        /\ dirs'[dir_count] = newpath
        /\ \A i \in DirSlot : i # dir_count => dirs'[i] = dirs[i]
        /\ Known' = Known \cup {dir_count}
    BY <2>1, DirAssumption DEF NInv, TypeOK, Known, DirSlot
  <2>4. cwd_idx \in Known /\ asking = DIR_MAX /\ cmd = "none" /\ Known \subseteq DirSlot
    BY DEF NInv, TypeOK, AtPrompt, Known
  <2>5. TypeOK'
    <3>1. dirs' \in [DirSlot -> Path]
      BY <2>1, <2>2 DEF NInv, TypeOK
    <3>2. dir_count' \in 1 .. DIR_MAX
      BY <2>1, DirAssumption DEF NInv, TypeOK
    <3>. QED  BY <2>1, <2>3, <2>4, <3>1, <3>2 DEF TypeOK
  <2>6. TableOK'
    BY <2>2, <2>3, <2>4, SlotFacts DEF NInv, TableOK
  <2>7. NoOrphanFiles'
    BY <2>1, <2>3, <2>4 DEF NInv, NoOrphanFiles
  <2>8. RunningOK'
    BY <2>1, <2>4, DirAssumption DEF RunningOK
  <2>. QED  BY <2>5, <2>6, <2>7, <2>8 DEF NInv
<1>. QED  BY <1>1, <1>2

\* cd selects an entry of the table.
LEMMA CdInvariant ==
  ASSUME NInv, AtPrompt, UNCHANGED fsVars, NEW arg \in Args, dir_cd(arg)
  PROVE  NInv'
<1>0. PICK to : to = IF arg = Up THEN parent_path(dir_getcwd) ELSE build_path(arg)
  OBVIOUS
<1>1. CASE (\E c, m : Refuse(c, m))
  BY <1>1, RefuseInvariant
<1>2. CASE ~(\E c, m : Refuse(c, m))
  <2>1. /\ find_dir(to) < DIR_MAX /\ cwd_idx' = find_dir(to)
        /\ UNCHANGED <<dirs, dir_count, asking, store, cmd, key>>
    BY <1>0, <1>2 DEF dir_cd, fsVars
  <2>2. cwd_idx' \in Known
    BY <2>1, FindDir, DirAssumption
  <2>3. asking = DIR_MAX /\ cmd = "none"
    BY DEF AtPrompt
  <2>4. TypeOK' /\ TableOK' /\ NoOrphanFiles'
    BY <2>1, <2>2 DEF NInv, TypeOK, TableOK, NoOrphanFiles, Known
  <2>5. RunningOK'
    BY <2>1, <2>3, DirAssumption DEF RunningOK
  <2>. QED  BY <2>4, <2>5 DEF NInv
<1>. QED  BY <1>1, <1>2

\* rmdir asks about an entry it has found empty, not "/" and not current.
LEMMA RmdirInvariant ==
  ASSUME NInv, AtPrompt, UNCHANGED fsVars, NEW arg \in Args, dir_rmdir(arg)
  PROVE  NInv'
<1>0. PICK target : target = build_path(arg)
  OBVIOUS
<1>1. CASE (\E m : Refuse("rmdir", m))
  BY <1>1, RefuseInvariant
<1>2. CASE ~(\E m : Refuse("rmdir", m))
  <2>1. /\ target # Root /\ find_dir(target) < DIR_MAX /\ find_dir(target) # cwd_idx
        /\ fs_dir_empty(target) /\ asking' = find_dir(target)
        /\ UNCHANGED <<dirs, dir_count, cwd_idx, store, cmd, key>>
    BY <1>0, <1>2 DEF dir_rmdir, fsVars
  <2>2. asking' \in Known /\ dirs[asking'] = target
    BY <2>1, FindDir, DirAssumption
  <2>3. asking' # 0 /\ cmd = "none"
    BY <2>1, <2>2 DEF NInv, TableOK, AtPrompt
  <2>4. TypeOK' /\ TableOK' /\ NoOrphanFiles'
    BY <2>1, <2>2 DEF NInv, TypeOK, TableOK, NoOrphanFiles, Known
  <2>5. RunningOK'
    BY <2>1, <2>2, <2>3 DEF RunningOK, fs_dir_empty
  <2>. QED  BY <2>4, <2>5 DEF NInv
<1>. QED  BY <1>1, <1>2

\* The compaction keeps every path but the removed one, and cwd_idx follows
\* the current directory.
LEMMA RemoveInvariant ==
  ASSUME NInv, asking < DIR_MAX, Remove, asking' = DIR_MAX, UNCHANGED fsVars
  PROVE  NInv' /\ dir_getcwd' = dir_getcwd
<1>1. /\ asking \in Known /\ asking # 0 /\ asking # cwd_idx /\ cwd_idx \in Known
      /\ dir_count \in 1 .. DIR_MAX /\ cmd = "none" /\ fs_dir_empty(dirs[asking])
  BY DirAssumption DEF NInv, TypeOK, RunningOK
<1>2. asking \in Nat /\ cwd_idx \in Nat /\ asking < dir_count /\ cwd_idx < dir_count
  BY <1>1, SlotFacts DEF Known
<1>3. /\ dir_count' = dir_count - 1 /\ UNCHANGED <<store, cmd, key>>
      /\ cwd_idx' = IF cwd_idx > asking THEN cwd_idx - 1 ELSE cwd_idx
      /\ dirs' = [i \in DirSlot |->
                CASE i = dir_count - 1 -> Unused
                  [] asking <= i /\ i < dir_count - 1 -> dirs[i + 1]
                  [] OTHER -> dirs[i]]
  BY DEF Remove, fsVars
<1>4. Known' = {i \in DirSlot : i < dir_count - 1}
  BY <1>3 DEF Known
\* The entry of the old table that an entry of the new one comes from.
<1> DEFINE From(i) == IF i < asking THEN i ELSE i + 1
<1>5. \A i \in Known' : /\ dirs'[i] = dirs[From(i)]
                        /\ From(i) \in Known /\ From(i) # asking
  BY <1>1, <1>2, <1>3, <1>4, DirAssumption DEF Known, DirSlot
<1>6. \A j \in Known : j # asking => \E i \in Known' : From(i) = j
  <2> SUFFICES ASSUME NEW j \in Known, j # asking PROVE \E i \in Known' : From(i) = j
    OBVIOUS
  <2>1. CASE j < asking
    BY <1>1, <1>2, <1>4, <2>1, DirAssumption DEF Known, DirSlot
  <2>2. CASE j > asking
    <3>1. j - 1 \in Known' /\ From(j - 1) = j
      BY <1>1, <1>2, <1>4, <2>2, DirAssumption DEF Known, DirSlot
    <3>. QED  BY <3>1
  <2>. QED  BY <1>2, <2>1, <2>2, SlotFacts DEF Known
<1>7. \A i, j \in Known' : From(i) = From(j) => i = j
  BY <1>2, <1>4, SlotFacts
<1>8. cwd_idx' \in Known' /\ From(cwd_idx') = cwd_idx
  BY <1>1, <1>2, <1>3, <1>4, DirAssumption DEF Known, DirSlot
<1>9. 0 \in Known' /\ From(0) = 0
  BY <1>1, <1>2, <1>4, SlotFacts
<1> HIDE DEF From
<1>10. TypeOK'
  <2>1. dirs' \in [DirSlot -> Path]
    <3>1. \A i \in DirSlot : dirs'[i] \in Path
      <4> SUFFICES ASSUME NEW i \in DirSlot PROVE dirs'[i] \in Path
        OBVIOUS
      <4>1. CASE i = dir_count - 1
        <5>1. dirs'[i] = Unused
          BY <1>1, <1>2, <1>3, <4>1, SlotFacts
        <5>. QED  BY <5>1, ConstantPaths
      <4>2. CASE i < dir_count - 1
        BY <1>4, <1>5, <4>2 DEF NInv, TypeOK, Known
      <4>3. CASE i > dir_count - 1
        <5>1. dirs'[i] = dirs[i]
          BY <1>1, <1>2, <1>3, <4>3, SlotFacts
        <5>. QED  BY <5>1 DEF NInv, TypeOK
      <4>. QED  BY <1>1, <4>1, <4>2, <4>3, SlotFacts
    <3>. QED  BY <1>3, <3>1
  <2>2. dir_count' \in 1 .. DIR_MAX
    BY <1>1, <1>2, <1>3, DirAssumption, SlotFacts DEF Known
  <2>. QED  BY <1>8, <2>1, <2>2 DEF TypeOK
<1>11. TableOK'
  BY <1>5, <1>7, <1>9 DEF NInv, TableOK
<1>12. NoOrphanFiles'
  BY <1>1, <1>3, <1>5, <1>6 DEF NInv, NoOrphanFiles, fs_dir_empty
<1>13. RunningOK'
  BY <1>1, <1>3, DirAssumption DEF RunningOK
<1>14. dir_getcwd' = dir_getcwd
  BY <1>5, <1>8 DEF dir_getcwd
<1>. QED  BY <1>10, <1>11, <1>12, <1>13, <1>14 DEF NInv

\* The compaction of rmdir removes that entry alone: root stays first, the
\* current directory stays itself, and no file loses its directory.
LEMMA AnswerInvariant ==
  ASSUME NInv, NEW yes \in BOOLEAN, Answer(yes), UNCHANGED fsVars
  PROVE  NInv'
<1>1. asking < DIR_MAX /\ asking' = DIR_MAX /\ UNCHANGED <<store, cmd, key>>
  BY DEF Answer, fsVars
<1>2. CASE Remove
  BY <1>1, <1>2, RemoveInvariant
<1>3. CASE UNCHANGED <<dirs, dir_count, cwd_idx>>
  <2>1. cmd = "none"
    BY <1>1, DirAssumption DEF NInv, RunningOK
  <2>2. TypeOK' /\ TableOK' /\ NoOrphanFiles'
    BY <1>1, <1>3 DEF NInv, TypeOK, TableOK, NoOrphanFiles, Known
  <2>3. RunningOK'
    BY <1>1, <2>1, DirAssumption DEF RunningOK
  <2>. QED  BY <2>2, <2>3 DEF NInv
<1>. QED  BY <1>2, <1>3 DEF Answer

\* A file command adds files in the current directory only.
LEMMA FileInvariant ==
  ASSUME NInv, UNCHANGED dirVars, asking = DIR_MAX,
         \A k \in DOMAIN store' : k \in DOMAIN store \/ k[2] = dir_getcwd,
         cmd' # "none" => key'[2] = dir_getcwd
  PROVE  NInv'
<1>1. UNCHANGED <<dirs, dir_count, cwd_idx, asking>>
  BY DEF dirVars
<1>2. TypeOK' /\ TableOK' /\ dir_getcwd' = dir_getcwd
  BY <1>1 DEF NInv, TypeOK, TableOK, Known, dir_getcwd
<1>3. NoOrphanFiles'
  BY <1>1 DEF NInv, TypeOK, NoOrphanFiles, Known, dir_getcwd
<1>4. RunningOK'
  BY <1>1, <1>2, DirAssumption DEF RunningOK
<1>. QED  BY <1>2, <1>3, <1>4 DEF NInv

\* A file command begins in the current directory, which is in the table.
LEMMA FileCommandInvariant == ASSUME NInv, FileCommand PROVE NInv'
<1>1. PICK n \in Names, m \in Names :
        LET k == <<n, dir_getcwd>>
        IN \/ FS!Write(k) \/ FS!Edit(k) \/ FS!Read(k) \/ FS!Delete(k)
           \/ FS!Copy(k, <<m, dir_getcwd>>) \/ FS!Rename(k, <<m, dir_getcwd>>)
  BY DEF FileCommand
<1>2. asking = DIR_MAX /\ cmd = "none" /\ UNCHANGED dirVars
  BY DEF FileCommand, AtPrompt
<1>3. PICK k, to : k = <<n, dir_getcwd>> /\ to = <<m, dir_getcwd>>
  OBVIOUS
<1>4. \/ FS!Write(k) \/ FS!Edit(k) \/ FS!Read(k) \/ FS!Delete(k)
      \/ FS!Copy(k, to) \/ FS!Rename(k, to)
  BY <1>1, <1>3
<1>5. k[2] = dir_getcwd /\ to[2] = dir_getcwd
  BY <1>3
<1>6. \A j \in DOMAIN store' : j \in DOMAIN store \/ j = k \/ j = to
  <2>1. \A t : DOMAIN FS!Put(k, t) = DOMAIN store \cup {k}
    BY DEF FS!Put
  <2>2. CASE FS!Write(k)
    BY <2>1, <2>2 DEF FS!Write, FS!Refused
  <2>3. CASE FS!Edit(k) \/ FS!Read(k) \/ FS!Delete(k) \/ FS!Copy(k, to)
    BY <2>3 DEF FS!Edit, FS!Read, FS!Delete, FS!Copy, FS!Refused
  <2>4. CASE FS!Rename(k, to)
    BY <2>4 DEF FS!Rename, FS!Refused
  <2>. QED  BY <1>4, <2>2, <2>3, <2>4
<1>7. cmd' = cmd \/ key' = k \/ key' = to
  BY <1>4 DEF FS!Write, FS!Edit, FS!Read, FS!Delete, FS!Copy, FS!Rename, FS!Start, FS!Refused
<1>. QED  BY <1>2, <1>5, <1>6, <1>7, FileInvariant

\* A later step of a file command stores under the key it began with.
LEMMA FileStepInvariant == ASSUME NInv, FileStep PROVE NInv'
<1>1. UNCHANGED dirVars
  BY DEF FileStep
<1>2. cmd # "none"
  BY DEF FileStep, FS!Line, FS!Stored, FS!OutOfSpace, FS!Shown, FS!Confirmed, FS!Deleted, FS!Cancelled
<1>3. asking = DIR_MAX /\ key[2] = dir_getcwd
  BY <1>2 DEF NInv, RunningOK
<1>4. \A k \in DOMAIN store' : k \in DOMAIN store \/ k = key
  <2>1. /\ \A t : DOMAIN FS!Put(key, t) = DOMAIN store \cup {key}
        /\ DOMAIN FS!Drop(key) = DOMAIN store \ {key}
    BY DEF FS!Put, FS!Drop
  <2>2. \/ UNCHANGED store \/ store' = FS!Drop(key) \/ \E t : store' = FS!Put(key, t)
    <3>1. CASE FS!Stored
      BY <3>1 DEF FS!Stored
    <3>2. CASE FS!OutOfSpace
      BY <3>2 DEF FS!OutOfSpace
    <3>3. CASE \/ \E line \in Lines : FS!Line(line)
               \/ FS!Shown \/ FS!Confirmed \/ FS!Deleted \/ FS!Cancelled
      BY <3>3 DEF FS!Line, FS!Shown, FS!Confirmed, FS!Deleted, FS!Cancelled
    <3>. QED  BY <3>1, <3>2, <3>3 DEF FileStep
  <2>. QED  BY <2>1, <2>2
<1>5. cmd' = "none" \/ key' = key
  BY DEF FileStep, FS!Line, FS!Stored, FS!OutOfSpace, FS!Shown, FS!Confirmed, FS!Deleted,
         FS!Cancelled, FS!Finish
<1>. QED  BY <1>1, <1>3, <1>4, <1>5, FileInvariant

\* Every step of the shell keeps the invariant.
LEMMA NextInvariant == ASSUME NInv, [Next]_vars PROVE NInv'
<1>1. CASE UNCHANGED vars
  BY <1>1, QuietInvariant DEF vars, dirVars, fsVars
<1>2. CASE DirCommand
  <2>1. AtPrompt /\ UNCHANGED fsVars
    BY <1>2 DEF DirCommand
  <2>2. CASE dir_ls
    BY <2>1, <2>2, QuietInvariant DEF dir_ls, fsVars
  <2>3. CASE Usage
    BY <2>1, <2>3, RefuseInvariant DEF Usage
  <2>4. CASE \E arg \in Args : dir_mkdir(arg) \/ dir_cd(arg) \/ dir_rmdir(arg)
    BY <2>1, <2>4, MkdirInvariant, CdInvariant, RmdirInvariant
  <2>. QED  BY <1>2, <2>2, <2>3, <2>4 DEF DirCommand
<1>3. CASE (\E yes \in BOOLEAN : Answer(yes)) /\ UNCHANGED fsVars
  BY <1>3, AnswerInvariant
<1>4. CASE FileCommand \/ FileStep
  BY <1>4, FileCommandInvariant, FileStepInvariant
<1>. QED  BY <1>1, <1>2, <1>3, <1>4 DEF Next

\* NInv holds whatever directory and file commands are typed.
THEOREM NamespaceInvariant == Spec => []NInv
BY InitInvariant, NextInvariant, PTL DEF Spec

\* rmdir never leaves a file in a directory that no longer exists, although
\* the test (fs_dir_empty), the answer and the compaction are separate steps.
THEOREM FilesHaveDirectories == Spec => []NoOrphanFiles
<1>1. NInv => NoOrphanFiles
  BY DEF NInv
<1>. QED  BY <1>1, NamespaceInvariant, PTL

\* mkdir and the compaction in rmdir keep dirs[] duplicate free, "/" first.
THEOREM TableStaysASet == Spec => []TableOK
<1>1. NInv => TableOK
  BY DEF NInv
<1>. QED  BY <1>1, NamespaceInvariant, PTL

\* A step that changes the current directory is a cd.
LEMMA CwdStep ==
  ASSUME NInv, [Next]_vars
  PROVE  dir_getcwd' # dir_getcwd => said'.cmd \in {"cd", "cd .."}
<1> SUFFICES ASSUME dir_getcwd' # dir_getcwd PROVE said'.cmd \in {"cd", "cd .."}
  OBVIOUS
<1>1. ~(UNCHANGED <<dirs, cwd_idx>>)
  BY DEF dir_getcwd
<1>2. ~(UNCHANGED dirVars)
  BY <1>1 DEF dirVars
<1>3. PICK arg \in Args : dir_mkdir(arg) \/ dir_cd(arg)
  <2>1. CASE \E yes \in BOOLEAN : Answer(yes) /\ UNCHANGED fsVars
    BY <1>1, <2>1, RemoveInvariant DEF Answer
  <2>2. CASE DirCommand
    BY <1>1, <2>2 DEF DirCommand, dir_ls, Usage, Refuse, dir_rmdir
  <2>. QED  BY <1>2, <2>1, <2>2 DEF Next, FileCommand, FileStep, vars
<1>4. ~dir_mkdir(arg)
  <2> SUFFICES ASSUME dir_mkdir(arg) PROVE FALSE
    OBVIOUS
  <2>1. /\ dirs' = [dirs EXCEPT ![dir_count] = build_path(arg)]
        /\ UNCHANGED cwd_idx
    BY <1>1 DEF dir_mkdir, Refuse
  <2>2. cwd_idx \in DirSlot /\ cwd_idx # dir_count /\ dirs \in [DirSlot -> Path]
    BY SlotFacts DEF NInv, TypeOK, Known
  <2>. QED  BY <2>1, <2>2 DEF dir_getcwd
<1>5. \E c \in {"cd", "cd .."} : Say(c, "ok")
  BY <1>1, <1>3, <1>4 DEF dir_cd, Refuse
<1>6. PICK c \in {"cd", "cd .."} : said' = [cmd |-> c, msg |-> "ok"]
  BY <1>5 DEF Say
<1>7. said'.cmd = c
  BY <1>6
<1>. QED  BY <1>6, <1>7

\* No command but cd changes the directory the prompt shows and the file
\* commands use, although rmdir moves the entries of dirs[].
THEOREM CwdMovesByCd == Spec => OnlyCdMoves
<1>1. NInv /\ [Next]_vars => [dir_getcwd' # dir_getcwd => said'.cmd \in {"cd", "cd .."}]_vars
  BY CwdStep
<1>. QED  BY <1>1, NamespaceInvariant, PTL DEF Spec, OnlyCdMoves

\* cwd_idx and the index rmdir asks about stay below dir_count, which stays in
\* dirs[], across the compaction.
THEOREM IndicesInTable == Spec => []TypeOK
<1>1. NInv => TypeOK
  BY DEF NInv
<1>. QED  BY <1>1, NamespaceInvariant, PTL

\* What ls shows in a directory has that directory as its parent: the string
\* walk of is_immediate_child agrees with the one of parent_path.
THEOREM LsShowsChildren == Spec => []LsAgreesWithCdUp
<1>1. TypeOK => LsAgreesWithCdUp
  <2>. SUFFICES ASSUME TypeOK, NEW i \in Known, NEW j \in Known,
                       is_immediate_child(dirs[j], dirs[i])
                PROVE  parent_path(dirs[j]) = dirs[i]
    BY DEF LsAgreesWithCdUp, Subdirs
  <2>1. dirs[j] \in Path /\ Len(Root) = 1
    BY DEF TypeOK, Known, Root
  <2>2. CASE dirs[i] = Root
    BY <2>1, <2>2 DEF is_immediate_child, parent_path
  <2>3. CASE dirs[i] # Root
    <3>1. Len(dirs[j]) > 1 /\ ButLast(dirs[j]) = dirs[i]
      BY <2>3, Zenon DEF is_immediate_child
    <3>2. Len(dirs[j]) # 1
      <4>1. Len(dirs[j]) \in Nat
        BY <2>1 DEF Path
      <4>2. PICK m \in Nat : m = Len(dirs[j])
        BY <4>1
      <4>3. m > 1
        BY <3>1, <4>2, Zenon
      <4>4. m # 1
        BY <4>3
      <4>. QED  BY <4>2, <4>4, Zenon
    <3>3. dirs[j] # Root
      BY <2>1, <3>2, Zenon
    <3>. QED  BY <3>1, <3>2, <3>3, Zenon DEF parent_path
  <2>. QED  BY <2>2, <2>3
<1>. QED  BY <1>1, IndicesInTable, PTL
=============================================================================
