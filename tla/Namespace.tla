----------------------------- MODULE Namespace -----------------------------
(***************************************************************************)
(* The directory table of src/dir.c together with the file commands, as    *)
(* shell_dispatch runs them: every fs_* call gets dir_getcwd() as its      *)
(* directory.  The files are those of FileStore, which FatFs implements.   *)
(*                                                                         *)
(* A path string is the sequence of its components: "/" is <<"">>, "/a/b"  *)
(* is <<"a","b">> and "/a/" is <<"a","">>.  An argument is absolute or     *)
(* relative; relative "a/" is <<"a","">>.  Paths are taken to fit in       *)
(* DIR_NAME_LEN bytes, here MaxDepth components.                           *)
(***************************************************************************)
EXTENDS Naturals, Sequences

CONSTANTS DIR_MAX, MaxDepth,
          Components,          \* non-empty strings without '/'
          Args,                \* arguments a user may type: [abs, path]
          Names, Lines, MaxFiles, MaxText, Newline

Component == Components \cup {""}
Path == Seq(Component)
Root == <<"">>
Unused == <<>>                 \* an entry whose first byte is '\0'
Up == [abs |-> FALSE, path |-> <<"..">>]
DirSlot == 0 .. (DIR_MAX - 1)

ASSUME DirAssumption ==
  /\ DIR_MAX \in Nat \ {0} /\ MaxDepth \in Nat \ {0}
  /\ Args \subseteq [abs : BOOLEAN, path : Path]

VARIABLES
  dirs, dir_count, cwd_idx,        \* the state of dir.c
  asking,                          \* the idx rmdir asks about, or DIR_MAX
  said,                            \* what the last directory command printed
  store, cmd, key, buf, result     \* FileStore

fsVars == <<store, cmd, key, buf, result>>
dirVars == <<dirs, dir_count, cwd_idx, asking, said>>
vars == <<dirVars, fsVars>>

dir_getcwd == dirs[cwd_idx]

\* dir is always the current directory, a path.
FS == INSTANCE FileStore WITH Dirs <- Path

(***************************************************************************)
(* Helpers of dir.c                                                        *)
(***************************************************************************)
Known == {i \in DirSlot : i < dir_count}

find_dir(path) ==
  IF \E i \in Known : dirs[i] = path
    THEN CHOOSE i \in Known : dirs[i] = path /\ \A j \in Known : dirs[j] = path => i <= j
    ELSE DIR_MAX

IsSlashed(path) == Len(path) > 1 /\ path[Len(path)] = ""
ButLast(path) == SubSeq(path, 1, Len(path) - 1)

\* Mutant: a trailing slash of an absolute path is kept.
BuildUnstripped(arg) ==
  IF arg.abs \/ dir_getcwd = Root THEN arg.path ELSE dir_getcwd \o arg.path

build_path(arg) ==
  CASE arg.abs -> IF IsSlashed(arg.path) THEN ButLast(arg.path) ELSE arg.path
    [] ~arg.abs /\ dir_getcwd = Root -> arg.path
    [] OTHER -> dir_getcwd \o arg.path

parent_path(path) == IF path = Root \/ Len(path) = 1 THEN Root ELSE ButLast(path)

\* Mutant: components after the first one below the parent are not looked at.
IsDescendant(child, parent) ==
  IF parent = Root THEN child # Root
    ELSE Len(child) > Len(parent) /\ SubSeq(child, 1, Len(parent)) = parent

is_immediate_child(child, parent) ==
  IF parent = Root THEN Len(child) = 1 /\ child # Root
    ELSE Len(child) > 1 /\ ButLast(child) = parent /\ child[Len(child)] # ""

fs_dir_empty(path) == \A k \in DOMAIN store : k[2] # path

(***************************************************************************)
(* The commands of dir.c                                                   *)
(***************************************************************************)
Say(c, msg) == said' = [cmd |-> c, msg |-> msg]

Refuse(c, msg) == Say(c, msg) /\ UNCHANGED <<dirs, dir_count, cwd_idx, asking>>

Init ==
  /\ dirs = [i \in DirSlot |-> IF i = 0 THEN Root ELSE Unused]
  /\ dir_count = 1 /\ cwd_idx = 0 /\ asking = DIR_MAX
  /\ said = [cmd |-> "none", msg |-> "none"]
  /\ FS!Init

\* Mutant: mkdir does not look for the path it is about to add.
MkdirUnchecked(arg) ==
  /\ dir_count < DIR_MAX
  /\ dirs' = [dirs EXCEPT ![dir_count] = build_path(arg)]
  /\ dir_count' = dir_count + 1
  /\ Say("mkdir", "ok")
  /\ UNCHANGED <<cwd_idx, asking>>

dir_mkdir(arg) ==
  LET newpath == build_path(arg)
  IN \/ dir_count >= DIR_MAX /\ Refuse("mkdir", "full")
     \/ dir_count < DIR_MAX /\ find_dir(newpath) < DIR_MAX /\ Refuse("mkdir", "exists")
     \/ /\ dir_count < DIR_MAX /\ find_dir(newpath) = DIR_MAX
        /\ dirs' = [dirs EXCEPT ![dir_count] = newpath]
        /\ dir_count' = dir_count + 1
        /\ Say("mkdir", "ok")
        /\ UNCHANGED <<cwd_idx, asking>>

\* "/" needs no case of its own: build_path returns Root for it.
dir_cd(arg) ==
  LET idx == find_dir(IF arg = Up THEN parent_path(dir_getcwd) ELSE build_path(arg))
      c == IF arg = Up THEN "cd .." ELSE "cd"
  IN \/ idx = DIR_MAX /\ Refuse(c, "not found")
     \/ /\ idx < DIR_MAX
        /\ cwd_idx' = idx
        /\ Say(c, "ok")
        /\ UNCHANGED <<dirs, dir_count, asking>>

\* Mutant: rmdir does not look for files.
RmdirUnchecked(arg) ==
  LET idx == find_dir(build_path(arg))
  IN /\ build_path(arg) # Root /\ idx < DIR_MAX /\ idx # cwd_idx
     /\ asking' = idx
     /\ Say("rmdir", "ask")
     /\ UNCHANGED <<dirs, dir_count, cwd_idx>>

\* Up to the prompt "Delete directory ...? (y/n)".
dir_rmdir(arg) ==
  LET target == build_path(arg)
      idx == find_dir(target)
  IN \/ target = Root /\ Refuse("rmdir", "root")
     \/ target # Root /\ idx = DIR_MAX /\ Refuse("rmdir", "not found")
     \/ target # Root /\ idx < DIR_MAX /\ idx = cwd_idx /\ Refuse("rmdir", "cwd")
     \/ /\ target # Root /\ idx < DIR_MAX /\ idx # cwd_idx /\ ~fs_dir_empty(target)
        /\ Refuse("rmdir", "not empty")
     \/ /\ target # Root /\ idx < DIR_MAX /\ idx # cwd_idx /\ fs_dir_empty(target)
        /\ asking' = idx
        /\ Say("rmdir", "ask")
        /\ UNCHANGED <<dirs, dir_count, cwd_idx>>

\* Mutant: cwd_idx is not adjusted when the table is compacted.
RemoveKeepsIndex ==
  /\ dirs' = [i \in DirSlot |->
                CASE i = dir_count - 1 -> Unused
                  [] asking <= i /\ i < dir_count - 1 -> dirs[i + 1]
                  [] OTHER -> dirs[i]]
  /\ dir_count' = dir_count - 1
  /\ UNCHANGED cwd_idx

\* Compaction: the entries after the removed one move down by one.
Remove ==
  /\ dirs' = [i \in DirSlot |->
                CASE i = dir_count - 1 -> Unused
                  [] asking <= i /\ i < dir_count - 1 -> dirs[i + 1]
                  [] OTHER -> dirs[i]]
  /\ dir_count' = dir_count - 1
  /\ cwd_idx' = IF cwd_idx > asking THEN cwd_idx - 1 ELSE cwd_idx

Answer(yes) ==
  /\ asking < DIR_MAX /\ asking' = DIR_MAX
  /\ \/ yes /\ Remove /\ Say("rmdir", "ok")
     \/ ~yes /\ Say("rmdir", "cancelled") /\ UNCHANGED <<dirs, dir_count, cwd_idx>>

\* What dir_ls prints in a directory: its subdirectories, then fs_list's files.
Subdirs(path) == {dirs[i] : i \in {j \in Known : is_immediate_child(dirs[j], path)}}
fs_list(path) == {k[1] : k \in {f \in DOMAIN store : f[2] = path}}

dir_ls ==
  /\ said' = [cmd |-> "ls", msg |-> IF Subdirs(dir_getcwd) = {} /\ fs_list(dir_getcwd) = {}
                                      THEN "empty" ELSE "ok"]
  /\ UNCHANGED <<dirs, dir_count, cwd_idx, asking>>

\* A missing or empty argument.
Usage == Refuse("none", "usage")

(***************************************************************************)
(* shell_dispatch                                                          *)
(***************************************************************************)
Fits(arg) == Len(build_path(arg)) <= MaxDepth
AtPrompt == asking = DIR_MAX /\ cmd = "none"

DirCommand ==
  /\ AtPrompt
  /\ \/ dir_ls \/ Usage
     \/ \E arg \in Args :
          \/ Fits(arg) /\ (dir_mkdir(arg) \/ dir_rmdir(arg))
          \/ (arg = Up \/ Fits(arg)) /\ dir_cd(arg)
  /\ UNCHANGED fsVars

\* The shell passes cwd; the file commands change no directory.
FileCommand ==
  /\ AtPrompt
  /\ \E n \in Names : LET k == <<n, dir_getcwd>> IN
       \/ FS!Write(k) \/ FS!Edit(k) \/ FS!Read(k) \/ FS!Delete(k)
       \/ \E m \in Names : FS!Copy(k, <<m, dir_getcwd>>) \/ FS!Rename(k, <<m, dir_getcwd>>)
  /\ UNCHANGED dirVars

FileStep ==
  /\ \/ \E line \in Lines : FS!Line(line)
     \/ FS!Stored \/ FS!OutOfSpace \/ FS!Shown
     \/ FS!Confirmed \/ FS!Deleted \/ FS!Cancelled
  /\ UNCHANGED dirVars

Next ==
  \/ DirCommand
  \/ (\E yes \in BOOLEAN : Answer(yes)) /\ UNCHANGED fsVars
  \/ FileCommand
  \/ FileStep

Spec == Init /\ [][Next]_vars

(***************************************************************************)
(* Properties                                                              *)
(***************************************************************************)
\* The indices stay in dirs[] and the entries up to dir_count hold paths.
TypeOK ==
  /\ dir_count \in 1 .. DIR_MAX
  /\ dirs \in [DirSlot -> Path]
  /\ cwd_idx \in Known /\ asking \in Known \cup {DIR_MAX}

\* dirs[0] is always "/" (dir.c, above dirs[]), and no path is in the table
\* twice, so find_dir names one directory.
TableOK ==
  /\ dirs[0] = Root
  /\ \A i, j \in Known : dirs[i] = dirs[j] => i = j

\* No file is ever left in a directory that rmdir has removed: a file no
\* command could reach any more would keep its slot and its blocks.
NoOrphanFiles == \A k \in DOMAIN store : \E i \in Known : dirs[i] = k[2]

\* The running file command works in the current directory, and the directory
\* rmdir asks about has no files and is neither "/" nor the current one.
RunningOK ==
  /\ cmd # "none" => key[2] = dir_getcwd /\ asking = DIR_MAX
  /\ asking < DIR_MAX => /\ asking # 0 /\ asking # cwd_idx
                         /\ fs_dir_empty(dirs[asking])

NInv == TypeOK /\ TableOK /\ NoOrphanFiles /\ RunningOK

\* The prompt's directory changes by cd alone: mkdir does not move it and the
\* compaction in rmdir adjusts cwd_idx to keep naming the same path.
OnlyCdMoves == [][dir_getcwd' # dir_getcwd => said'.cmd \in {"cd", "cd .."}]_vars

\* A directory ls shows is one from which "cd .." leads back here: the two
\* string walks, is_immediate_child and parent_path, agree.
LsAgreesWithCdUp ==
  \A i \in Known : \A p \in Subdirs(dirs[i]) : parent_path(p) = dirs[i]

\* dir.c: "No trailing slash except for root itself."
NoTrailingSlash == \A i \in Known : ~IsSlashed(dirs[i])

\* dir.h on dir_cd: ".." goes to the parent directory.
CdUpReachesParent == said # [cmd |-> "cd ..", msg |-> "not found"]
=============================================================================
