----------------------------- MODULE ByteNames -----------------------------
(***************************************************************************)
(* Names and paths as char arrays: the tables of src/dir.c and the name    *)
(* and dir fields of src/fs.c, with string.c's functions on them.  The     *)
(* text of the files is left to FatFs.                                     *)
(*                                                                         *)
(* A string is a sequence of characters without its '\0'.  Every array     *)
(* here is filled by kstrncpy, which pads with '\0': it is the sequence of *)
(* its characters, at most LEN of them, and one with LEN characters has no *)
(* '\0', so that a reader runs on into what follows it in memory.          *)
(***************************************************************************)
EXTENDS Integers, Sequences, FiniteSets

CONSTANTS LEN,              \* FS_NAME_LEN, FS_DIR_LEN and DIR_NAME_LEN, all 64
          DIR_MAX, FS_MAX_FILES,
          Chars,            \* the characters a name, a path or stray memory holds
          Names, Args,      \* what a user types as a file or directory argument
          Words             \* a component's characters, as Namespace writes it

ASSUME ByteAssumption ==
  /\ LEN \in Nat \ {0, 1} /\ DIR_MAX \in Nat \ {0} /\ FS_MAX_FILES \in Nat
  /\ {"/", "?"} \subseteq Chars
  /\ Names \subseteq Seq(Chars) \ {<<>>} /\ Args \subseteq Seq(Chars) \ {<<>>}

VARIABLES
  dirs, dir_count, cwd_idx, asking,   \* dir.c; the idx rmdir asks about
  files,                              \* fs.c
  key,                                \* history: the name typed for a slot
  halted,                             \* a write has run over all of memory
  noise                               \* the byte after a local array, after dirs[]

dirVars == <<dirs, dir_count, cwd_idx, asking>>
fileVars == <<files, key>>
vars == <<dirVars, fileVars, halted, noise>>

Slash == <<"/">>
DirSlot == 0 .. (DIR_MAX - 1)
FileSlot == 0 .. (FS_MAX_FILES - 1)

\* '\0', or another byte and then '\0'.
Bytes == {<<>>, <<"?">>}
Noise == [stack : Bytes, bss : Bytes]

(***************************************************************************)
(* string.c: kstrlen is Len and kstrcmp is equality of what is read        *)
(***************************************************************************)
kstrncpy(s, n) == SubSeq(s, 1, IF Len(s) < n THEN Len(s) ELSE n)
kstrncmp(a, b, n) == kstrncpy(a, n) = kstrncpy(b, n)

Read(array, next) == IF Len(array) < LEN THEN array ELSE array \o next
Local(array) == Read(array, noise.stack)

\* The string that begins at row i: whole rows up to the first with a '\0', or
\* up to the byte after dirs[].
Behind(i) ==
  LET end == CHOOSE k \in i .. DIR_MAX :
               /\ k = DIR_MAX \/ Len(dirs[k]) < LEN
               /\ \A j \in i .. (k - 1) : Len(dirs[j]) >= LEN
      whole == (end - i) * LEN
      last == IF end = DIR_MAX THEN noise.bss ELSE dirs[end]
  IN [m \in 1 .. (whole + Len(last)) |->
        IF m <= whole THEN dirs[i + (m - 1) \div LEN][((m - 1) % LEN) + 1] ELSE last[m - whole]]

\* dirs[i], read as a string.
Row == [i \in DirSlot |-> Read(dirs[i], Behind(i + 1))]

\* dir follows name in struct file_entry, and first_block follows dir.
DirOf(f) == Read(f.dir, f.block)
NameOf(f) == Read(f.name, DirOf(f))

(***************************************************************************)
(* Helpers of dir.c                                                        *)
(***************************************************************************)
Known == {i \in DirSlot : i < dir_count}
dir_getcwd == Row[cwd_idx]

find_dir(path) ==
  IF \E i \in Known : Row[i] = path
    THEN CHOOSE i \in Known : Row[i] = path /\ \A j \in Known : Row[j] = path => i <= j
    ELSE DIR_MAX

\* Mutant: no room is left for the separator's own '\0'.
PrefixTight ==
  LET out == kstrncpy(dir_getcwd, LEN)
  IN IF dir_getcwd # Slash /\ Len(Local(out)) < LEN THEN out \o Slash ELSE out

\* out with cwd and the separator.  Without room for it there is none.
Prefix ==
  LET out == kstrncpy(dir_getcwd, LEN)
  IN IF dir_getcwd # Slash /\ Len(Local(out)) < LEN - 2 THEN out \o Slash ELSE out

\* The size given to kstrncpy is negative, and as a size_t covers all memory.
Overruns(name) == name[1] # "/" /\ Len(Local(Prefix)) > LEN

\* Mutant: a trailing slash of an absolute path is kept.
BuildUnstripped(name) ==
  IF name[1] = "/" THEN kstrncpy(name, LEN) ELSE Prefix \o kstrncpy(name, LEN - Len(Prefix))

build_path(name) ==
  IF name[1] = "/"
    THEN LET out == kstrncpy(name, LEN)
             len == Len(Local(out))
         IN IF len > 1 /\ Local(out)[len] = "/" THEN SubSeq(out, 1, len - 1) ELSE out
    ELSE Prefix \o kstrncpy(name, LEN - Len(Prefix))

parent_path(path) ==
  LET out == Local(kstrncpy(path, LEN))
      slashes == {k \in DOMAIN out : out[k] = "/"}
      last == CHOOSE k \in slashes : \A j \in slashes : j <= k
  IN IF path = Slash \/ slashes \subseteq {1} THEN Slash ELSE SubSeq(out, 1, last - 1)

Rest(child, plen) == SubSeq(child, plen + 2, Len(child))
IsComponent(s) == s # <<>> /\ \A k \in DOMAIN s : s[k] # "/"

\* Mutant: the byte after the common prefix is not looked at.
ChildByPrefix(child, parent) ==
  IF parent = Slash THEN kstrncmp(child, Slash, 1) /\ IsComponent(Rest(child, 0))
    ELSE kstrncmp(child, parent, Len(parent)) /\ IsComponent(Rest(child, Len(parent)))

is_immediate_child(child, parent) ==
  IF parent = Slash THEN kstrncmp(child, Slash, 1) /\ IsComponent(Rest(child, 0))
    ELSE /\ kstrncmp(child, parent, Len(parent))
         /\ Len(child) > Len(parent) /\ child[Len(parent) + 1] = "/"
         /\ IsComponent(Rest(child, Len(parent)))

fs_dir_empty(path) == \A i \in FileSlot : ~(files[i].used /\ DirOf(files[i]) = path)

(***************************************************************************)
(* The commands of dir.c                                                   *)
(***************************************************************************)
\* The fields of a free slot are not read again.
Unused == [name |-> <<>>, dir |-> <<>>, block |-> <<>>, used |-> FALSE]

Init ==
  /\ dirs = [i \in DirSlot |-> IF i = 0 THEN Slash ELSE <<>>]
  /\ dir_count = 1 /\ cwd_idx = 0 /\ asking = DIR_MAX
  /\ files = [i \in FileSlot |-> Unused]
  /\ key = [i \in FileSlot |-> <<>>]
  /\ halted = FALSE /\ noise \in Noise

\* Mutant: mkdir does not look for the path it is about to add.
MkdirUnchecked(name) ==
  /\ dir_count < DIR_MAX
  /\ dirs' = [dirs EXCEPT ![dir_count] = kstrncpy(Local(build_path(name)), LEN)]
  /\ dir_count' = dir_count + 1
  /\ UNCHANGED <<cwd_idx, asking>>

\* A command that is refused prints a message and changes nothing.
dir_mkdir(name) ==
  LET newpath == Local(build_path(name))
  IN /\ dir_count < DIR_MAX /\ find_dir(newpath) = DIR_MAX
     /\ dirs' = [dirs EXCEPT ![dir_count] = kstrncpy(newpath, LEN)]
     /\ dir_count' = dir_count + 1
     /\ UNCHANGED <<cwd_idx, asking>>

Up == <<".", ".">>

dir_cd(target) ==
  LET newpath == CASE target = Up -> parent_path(dir_getcwd)
                   [] target = Slash -> Slash
                   [] OTHER -> build_path(target)
      idx == find_dir(Local(newpath))
  IN /\ idx < DIR_MAX
     /\ cwd_idx' = idx
     /\ UNCHANGED <<dirs, dir_count, asking>>

dir_rmdir(name) ==
  LET target == Local(build_path(name))
      idx == find_dir(target)
  IN /\ target # Slash /\ idx < DIR_MAX /\ idx # cwd_idx /\ fs_dir_empty(target)
     /\ asking' = idx
     /\ UNCHANGED <<dirs, dir_count, cwd_idx>>

\* Mutant: cwd_idx is not adjusted to the rows that move.
RemoveKeepsIndex ==
  /\ dirs' = [i \in DirSlot |->
                CASE i = dir_count - 1 -> <<>>
                  [] asking <= i /\ i < dir_count - 1 -> kstrncpy(Row[i + 1], LEN)
                  [] OTHER -> dirs[i]]
  /\ dir_count' = dir_count - 1
  /\ UNCHANGED cwd_idx

\* Each row is copied by kstrncpy from the one above it, read as a string.
Remove ==
  /\ dirs' = [i \in DirSlot |->
                CASE i = dir_count - 1 -> <<>>
                  [] asking <= i /\ i < dir_count - 1 -> kstrncpy(Row[i + 1], LEN)
                  [] OTHER -> dirs[i]]
  /\ dir_count' = dir_count - 1
  /\ cwd_idx' = IF cwd_idx > asking THEN cwd_idx - 1 ELSE cwd_idx

Answer(yes) ==
  /\ asking < DIR_MAX /\ asking' = DIR_MAX
  /\ \/ yes /\ Remove
     \/ ~yes /\ UNCHANGED <<dirs, dir_count, cwd_idx>>

(***************************************************************************)
(* The commands of fs.c, as far as they touch names                        *)
(***************************************************************************)
Matches(i, name) == files[i].used /\ NameOf(files[i]) = name /\ DirOf(files[i]) = dir_getcwd

\* Mutant: names are compared over the length of the one asked for.
FindByPrefix(name) ==
  LET Hit(i) == /\ files[i].used /\ kstrncmp(NameOf(files[i]), name, Len(name))
                /\ DirOf(files[i]) = dir_getcwd
  IN IF \E i \in FileSlot : Hit(i)
       THEN CHOOSE i \in FileSlot : Hit(i) /\ \A j \in FileSlot : Hit(j) => i <= j
       ELSE FS_MAX_FILES

find_file(name) ==
  IF \E i \in FileSlot : Matches(i, name)
    THEN CHOOSE i \in FileSlot : Matches(i, name) /\ \A j \in FileSlot : Matches(j, name) => i <= j
    ELSE FS_MAX_FILES

find_free_slot ==
  IF \E i \in FileSlot : ~files[i].used
    THEN CHOOSE i \in FileSlot : ~files[i].used /\ \A j \in FileSlot : ~files[j].used => i <= j
    ELSE FS_MAX_FILES

\* The low byte of first_block, '\0' for block 0; read only after a full dir.
Blocks(dir) == IF Len(dir) < LEN THEN {<<>>} ELSE Bytes

Enter(i, name) ==
  /\ \E b \in Blocks(dir_getcwd) :
       files' = [files EXCEPT ![i] = [name |-> kstrncpy(name, LEN), dir |-> kstrncpy(dir_getcwd, LEN),
                                      block |-> b, used |-> TRUE]]
  /\ key' = [key EXCEPT ![i] = name]

\* The text moves to other blocks.
Rewrite(i) == \E b \in Blocks(files[i].dir) : files' = [files EXCEPT ![i].block = b] /\ UNCHANGED key

Free(i) == files' = [files EXCEPT ![i] = Unused] /\ key' = [key EXCEPT ![i] = <<>>]

\* fwrite and its disk-full path, fedit, fdel.
fs_write(name) ==
  \/ find_file(name) < FS_MAX_FILES /\ (Rewrite(find_file(name)) \/ Free(find_file(name)))
  \/ /\ find_file(name) = FS_MAX_FILES /\ find_free_slot < FS_MAX_FILES
     /\ Enter(find_free_slot, name)

fs_edit(name) == find_file(name) < FS_MAX_FILES /\ Rewrite(find_file(name))
fs_delete(name) == find_file(name) < FS_MAX_FILES /\ Free(find_file(name))

fs_rename(name, new) ==
  LET i == find_file(name)
  IN /\ i < FS_MAX_FILES /\ find_file(new) = FS_MAX_FILES
     /\ files' = [files EXCEPT ![i].name = kstrncpy(new, LEN)]
     /\ key' = [key EXCEPT ![i] = new]

fs_copy(name, dst) ==
  /\ find_file(name) < FS_MAX_FILES /\ find_file(dst) = FS_MAX_FILES
  /\ find_free_slot < FS_MAX_FILES
  /\ Enter(find_free_slot, dst)

(***************************************************************************)
(* shell_dispatch                                                          *)
(***************************************************************************)
AtPrompt == ~halted /\ asking = DIR_MAX

\* A command that calls build_path with a name it overruns on.
Crash(name) ==
  /\ Overruns(name) /\ halted' = TRUE
  /\ UNCHANGED dirVars

DirCommand ==
  /\ AtPrompt
  /\ \E a \in Args :
       \/ Crash(a)
       \/ ~Overruns(a) /\ (dir_mkdir(a) \/ dir_rmdir(a)) /\ UNCHANGED halted
       \/ (~Overruns(a) \/ a = Up) /\ dir_cd(a) /\ UNCHANGED halted
  /\ UNCHANGED fileVars

FileCommand ==
  /\ AtPrompt
  /\ \E n \in Names : \/ fs_write(n) \/ fs_edit(n) \/ fs_delete(n)
                      \/ \E m \in Names : fs_rename(n, m) \/ fs_copy(n, m)
  /\ UNCHANGED <<dirVars, halted>>

Next ==
  /\ \/ DirCommand
     \/ (\E yes \in BOOLEAN : Answer(yes)) /\ UNCHANGED <<fileVars, halted>>
     \/ FileCommand
  /\ noise' \in Noise

Spec == Init /\ [][Next]_vars

(***************************************************************************)
(* Properties                                                              *)
(***************************************************************************)
Terminated(array) == Len(array) < LEN

\* Every array holds at most its length, and the indices stay in dirs[].
Array == {s \in Seq(Chars) : Len(s) <= LEN}
TypeOK ==
  /\ dir_count \in 1 .. DIR_MAX /\ cwd_idx \in Known /\ asking \in Known \cup {DIR_MAX}
  /\ dirs \in [DirSlot -> Array]
  /\ files \in [FileSlot -> [name : Array, dir : Array, block : Bytes, used : BOOLEAN]]
  /\ key \in [FileSlot -> Seq(Chars)] /\ halted \in BOOLEAN /\ noise \in Noise

\* A file whose name and path fit is found, in its own slot, by what was typed
\* for it, whatever longer names the table holds next to it.
ShortNamesFound ==
  \A i \in FileSlot :
    files[i].used /\ Len(key[i]) < LEN /\ files[i].dir = dir_getcwd /\ Terminated(files[i].dir) =>
      find_file(key[i]) = i

\* A directory whose path fits is found in its own row, though the row before
\* it may run into it.
ShortPathsFound == \A i \in Known : Terminated(dirs[i]) => find_dir(Row[i]) = i

\* build_path's write past its array needs a current directory whose path has
\* no room for its '\0'.
HaltsOnlyInFullCwd == halted => ~Terminated(dirs[cwd_idx])

\* dir.c on components: Namespace's directory table, from this one.
Parse(s) ==
  LET at == {k \in DOMAIN s : s[k] = "/"}
      Nth(n) == CHOOSE k \in at : Cardinality({j \in at : j <= k}) = n
      End(n) == IF n = Cardinality(at) THEN Len(s) ELSE Nth(n + 1) - 1
  IN [n \in 1 .. Cardinality(at) |-> Words[SubSeq(s, Nth(n) + 1, End(n))]]
Arg(a) == [abs |-> a[1] = "/", path |-> Parse(IF a[1] = "/" THEN a ELSE Slash \o a)]

N == INSTANCE Namespace WITH
       dirs <- [i \in DirSlot |-> Parse(dirs[i])],
       store <- [k \in {<<key[i], Parse(files[i].dir)>> : i \in {j \in FileSlot : files[j].used}}
                   |-> <<>>],
       said <- [cmd |-> "none", msg |-> "none"], cmd <- "none", key <- <<>>, buf <- <<>>, result <- <<>>,
       MaxDepth <- LEN, Components <- {Words[w] : w \in DOMAIN Words} \ {""},
       Args <- {Arg(a) : a \in Args},
       Lines <- {}, MaxFiles <- FS_MAX_FILES, MaxText <- 0, Newline <- ""

AllTerminated == \A i \in Known : Terminated(dirs[i])
Fits(a) == IF a[1] = "/" THEN Len(a) < LEN
           ELSE Len(dir_getcwd) + Len(a) + (IF dir_getcwd = Slash THEN 0 ELSE 1) < LEN

\* On paths that fit, the string code of dir.c resolves every argument to the
\* directory that Namespace resolves it to on components.
ResolvesAsNamespace ==
  AllTerminated =>
    /\ Parse(parent_path(dir_getcwd)) = N!parent_path(N!dir_getcwd)
    /\ \A a \in Args : Fits(a) =>
         LET path == Local(build_path(a))
         IN /\ Parse(path) = N!build_path(Arg(a))
            /\ find_dir(path) = N!find_dir(N!build_path(Arg(a)))
            /\ fs_dir_empty(path) <=> N!fs_dir_empty(N!build_path(Arg(a)))

\* Likewise for the listing of every directory, not only of the current one.
ListingsAgree ==
  AllTerminated => \A i, j \in Known :
    is_immediate_child(Row[i], Row[j]) <=> N!is_immediate_child(Parse(Row[i]), Parse(Row[j]))

\* fs.h on struct file_entry: name is a "null-terminated file name", dir a
\* "null-terminated directory path", which find_file's kstrcmp relies on.
EntriesTerminated ==
  \A i \in FileSlot : files[i].used => Terminated(files[i].name) /\ Terminated(files[i].dir)
=============================================================================
