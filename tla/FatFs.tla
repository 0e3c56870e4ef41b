------------------------------- MODULE FatFs -------------------------------
(***************************************************************************)
(* The RAM file system of the kernel (src/fs.c): the File Allocation Table *)
(* fat[], the data blocks, the flat table files[], and every fs_* command. *)
(*                                                                         *)
(* The kernel is single threaded and only the keyboard interrupt runs      *)
(* beside it, so at most one command is in progress.  Each turn of a loop  *)
(* of the code (free_chain, write_to_blocks, the copy loops, the loop that *)
(* collects typed lines) is one step; pc says which loop the command is in *)
(* and the other variables below are that command's C locals.              *)
(***************************************************************************)
EXTENDS Naturals, Sequences, FiniteSetsExt

CONSTANTS FS_N_BLOCKS, FS_BLOCK_SIZE, FS_MAX_FILES,
          Names,        \* file names a command line may hold
          Dirs,         \* directory paths passed as dir (dir_getcwd())
          Chars,        \* characters of a typed line
          Lines         \* trimmed lines a user may type, other than "."

FAT_FREE == 0
FAT_END == 65535

ASSUME SizeAssumption ==
  /\ FS_N_BLOCKS \in Nat \ {0} /\ FS_N_BLOCKS < FAT_END
  /\ FS_BLOCK_SIZE \in Nat \ {0}
  /\ FS_MAX_FILES \in Nat \ {0}

ASSUME InputAssumption ==
  /\ Lines \subseteq Seq(Chars)
  /\ "" \notin Names

Block == 0 .. (FS_N_BLOCKS - 1)
Link == Block \cup {FAT_END}
Slot == 0 .. (FS_MAX_FILES - 1)
Capacity == FS_N_BLOCKS * FS_BLOCK_SIZE     \* sizeof(tmp)

NL == "\n"
NUL == "NUL"
Byte == Chars \cup {NL, NUL}

VARIABLES
  fat, blocks, files,   \* the three arrays of fs.c
  pc,                   \* the loop the running command is in, or "shell"
  op,                   \* the running command
  idx,                  \* its slot in files[] (sidx in fs_copy)
  dst,                  \* fs_copy: didx and the new entry's name and dir
  start,                \* cursor of free_chain and of the copy loops
  tmp,                  \* tmp[0 .. total-1]
  first, prev, written, \* locals of write_to_blocks
  reply                 \* the outcome the command prints

chainVars == <<first, prev, written>>
vars == <<fat, blocks, files, pc, op, idx, dst, start, tmp, chainVars, reply>>

(***************************************************************************)
(* Helpers of fs.c                                                         *)
(***************************************************************************)
FirstOr(S, none) == IF S = {} THEN none ELSE Min(S)

\* Mutant: the scan for a free block runs from the end of the FAT.
AllocLastFit ==
  LET free == {b \in Block : fat[b] = FAT_FREE} IN IF free = {} THEN FS_N_BLOCKS ELSE Max(free)

alloc_block == FirstOr({b \in Block : fat[b] = FAT_FREE}, FS_N_BLOCKS)

find_file(name, dir) ==
  FirstOr({i \in Slot : files[i].used = 1 /\ files[i].name = name /\ files[i].dir = dir},
          FS_MAX_FILES)

find_free_slot == FirstOr({i \in Slot : files[i].used = 0}, FS_MAX_FILES)

\* A command without its arguments, an existing file, a name that is not taken
\* or a slot prints an error and returns.
Refuse(msg) ==
  /\ reply' = [msg |-> msg, text |-> <<>>]
  /\ UNCHANGED <<fat, blocks, files, pc, op, idx, dst, start, tmp, chainVars>>

Begin(o, i, loop) ==
  /\ op' = o /\ idx' = i /\ pc' = loop
  /\ tmp' = <<>>
  /\ reply' = [msg |-> "none", text |-> <<>>]

\* The command returns to the shell; its locals die.
Return(msg, text) ==
  /\ pc' = "shell" /\ op' = "none" /\ idx' = 0
  /\ dst' = [slot |-> 0, name |-> "", dir |-> ""]
  /\ start' = FAT_END /\ tmp' = <<>>
  /\ first' = FAT_END /\ prev' = FAT_END /\ written' = 0
  /\ reply' = [msg |-> msg, text |-> text]

Clean == [used |-> 0, name |-> "", dir |-> "", first_block |-> FAT_END, size |-> 0]

\* fs_init; the arrays are in BSS, zeroed at boot.
Init ==
  /\ fat = [b \in Block |-> FAT_FREE]
  /\ blocks = [b \in Block |-> [j \in 0 .. (FS_BLOCK_SIZE - 1) |-> NUL]]
  /\ files = [i \in Slot |-> Clean]
  /\ pc = "shell" /\ op = "none" /\ idx = 0
  /\ dst = [slot |-> 0, name |-> "", dir |-> ""]
  /\ start = FAT_END /\ tmp = <<>>
  /\ first = FAT_END /\ prev = FAT_END /\ written = 0
  /\ reply = [msg |-> "none", text |-> <<>>]

(***************************************************************************)
(* The commands, up to their first loop                                    *)
(***************************************************************************)
\* An existing file is truncated (after free_chain), a new one claims a slot.
fs_write(name, dir) ==
  /\ pc = "shell"
  /\ LET i == find_file(name, dir)
         new == find_free_slot
     IN \/ /\ i < FS_MAX_FILES
           /\ Begin("write", i, "free")
           /\ start' = files[i].first_block
           /\ UNCHANGED <<fat, blocks, files, dst, chainVars>>
        \/ /\ i = FS_MAX_FILES /\ new < FS_MAX_FILES
           /\ files' = [files EXCEPT ![new].name = name, ![new].dir = dir,
                                     ![new].used = 1]
           /\ Begin("write", new, "lines")
           /\ UNCHANGED <<fat, blocks, dst, start, chainVars>>
        \/ /\ i = FS_MAX_FILES /\ new = FS_MAX_FILES
           /\ Refuse("directory full")

fs_read(name, dir) ==
  /\ pc = "shell"
  /\ LET i == find_file(name, dir)
     IN \/ /\ i < FS_MAX_FILES
           /\ Begin("read", i, "gather")
           /\ start' = files[i].first_block
           /\ UNCHANGED <<fat, blocks, files, dst, chainVars>>
        \/ i = FS_MAX_FILES /\ Refuse("not found")

fs_edit(name, dir) ==
  /\ pc = "shell"
  /\ LET i == find_file(name, dir)
     IN \/ /\ i < FS_MAX_FILES
           /\ Begin("edit", i, "gather")
           /\ start' = files[i].first_block
           /\ UNCHANGED <<fat, blocks, files, dst, chainVars>>
        \/ i = FS_MAX_FILES /\ Refuse("not found")

fs_delete(name, dir) ==
  /\ pc = "shell"
  /\ LET i == find_file(name, dir)
     IN \/ /\ i < FS_MAX_FILES
           /\ Begin("delete", i, "confirm")
           /\ UNCHANGED <<fat, blocks, files, dst, start, chainVars>>
        \/ i = FS_MAX_FILES /\ Refuse("not found")

\* Mutant: rename does not check that the new name is free.
RenameUnchecked(oldname, newname, dir) ==
  /\ pc = "shell"
  /\ find_file(oldname, dir) < FS_MAX_FILES
  /\ files' = [files EXCEPT ![find_file(oldname, dir)].name = newname]
  /\ reply' = [msg |-> "ok", text |-> <<>>]
  /\ UNCHANGED <<fat, blocks, pc, op, idx, dst, start, tmp, chainVars>>

fs_rename(oldname, newname, dir) ==
  /\ pc = "shell"
  /\ LET i == find_file(oldname, dir)
         taken == find_file(newname, dir) < FS_MAX_FILES
     IN \/ /\ i < FS_MAX_FILES /\ ~taken
           /\ files' = [files EXCEPT ![i].name = newname]
           /\ reply' = [msg |-> "ok", text |-> <<>>]
           /\ UNCHANGED <<fat, blocks, pc, op, idx, dst, start, tmp, chainVars>>
        \/ i = FS_MAX_FILES /\ Refuse("not found")
        \/ i < FS_MAX_FILES /\ taken /\ Refuse("exists")

fs_copy(src, name, dir) ==
  /\ pc = "shell"
  /\ LET i == find_file(src, dir)
         taken == find_file(name, dir) < FS_MAX_FILES
         new == find_free_slot
     IN \/ /\ i < FS_MAX_FILES /\ ~taken /\ new < FS_MAX_FILES
           /\ Begin("copy", i, "gather")
           /\ dst' = [slot |-> new, name |-> name, dir |-> dir]
           /\ start' = files[i].first_block
           /\ UNCHANGED <<fat, blocks, files, chainVars>>
        \/ i = FS_MAX_FILES /\ Refuse("not found")
        \/ i < FS_MAX_FILES /\ taken /\ Refuse("exists")
        \/ /\ i < FS_MAX_FILES /\ ~taken /\ new = FS_MAX_FILES
           /\ Refuse("directory full")

\* Every command first refuses a missing or empty name.
Usage == pc = "shell" /\ Refuse("usage")

(***************************************************************************)
(* The loops                                                               *)
(***************************************************************************)
\* The copy loops of fs_read, fs_edit and fs_copy:
\* while (blk < FS_N_BLOCKS && left > 0).
Gathering == start < FS_N_BLOCKS /\ Len(tmp) < files[idx].size

Chunk(left) == IF left < FS_BLOCK_SIZE THEN left ELSE FS_BLOCK_SIZE

GatherBlock ==
  /\ pc = "gather" /\ Gathering
  /\ tmp' = tmp \o [j \in 1 .. Chunk(files[idx].size - Len(tmp)) |-> blocks[start][j - 1]]
  /\ start' = fat[start]
  /\ UNCHANGED <<fat, blocks, files, pc, op, idx, dst, chainVars, reply>>

\* The end of the copy loop: fs_read has printed what it read; fs_edit and
\* fs_copy go on with total = size bytes.  ChainMatchesSize (FatFsStore) shows
\* that the loop has filled them all; NUL stands for what tmp held before.
Gathered ==
  /\ pc = "gather" /\ ~Gathering
  /\ \/ /\ op = "read"
        /\ Return("read", tmp)
     \/ /\ op # "read"
        /\ tmp' = [j \in 1 .. files[idx].size |-> IF j <= Len(tmp) THEN tmp[j] ELSE NUL]
        /\ pc' = IF op = "edit" THEN "lines" ELSE "alloc"
        /\ start' = FAT_END
        /\ UNCHANGED <<op, idx, dst, chainVars, reply>>
  /\ UNCHANGED <<fat, blocks, files>>

\* A typed line and its newline are appended, or dropped when tmp is full.
TypeLine(line) ==
  /\ pc = "lines"
  /\ tmp' = IF Len(tmp) + Len(line) + 1 <= Capacity
              THEN tmp \o Append(line, NL) ELSE tmp
  /\ UNCHANGED <<fat, blocks, files, pc, op, idx, dst, start, chainVars, reply>>

\* The line "." ends the input.
EndInput ==
  /\ pc = "lines"
  /\ \/ op = "write" /\ pc' = "alloc" /\ UNCHANGED start
     \/ op = "edit" /\ pc' = "free" /\ start' = files[idx].first_block
  /\ UNCHANGED <<fat, blocks, files, op, idx, dst, tmp, chainVars, reply>>

Answer(yes) ==
  /\ pc = "confirm"
  /\ \/ /\ yes
        /\ pc' = "free" /\ start' = files[idx].first_block
        /\ UNCHANGED <<op, idx, dst, tmp, chainVars, reply>>
     \/ ~yes /\ Return("cancelled", <<>>)
  /\ UNCHANGED <<fat, blocks, files>>

\* free_chain: while (start < FS_N_BLOCKS && start != FAT_END && start != FAT_FREE)
Freeing == start < FS_N_BLOCKS /\ start # FAT_END /\ start # FAT_FREE

\* Mutant: free_chain reads the next link after clearing it.
FreeThenFollow ==
  /\ pc = "free" /\ Freeing
  /\ fat' = [fat EXCEPT ![start] = FAT_FREE]
  /\ start' = fat'[start]
  /\ UNCHANGED <<blocks, files, pc, op, idx, dst, tmp, chainVars, reply>>

FreeBlock ==
  /\ pc = "free" /\ Freeing
  /\ fat' = [fat EXCEPT ![start] = FAT_FREE]
  /\ start' = fat[start]
  /\ UNCHANGED <<blocks, files, pc, op, idx, dst, tmp, chainVars, reply>>

\* Mutant: fs_write does not reset first_block of the file it overwrites.
FreedWriteKeepsHead ==
  /\ pc = "free" /\ ~Freeing /\ op = "write"
  /\ files' = [files EXCEPT ![idx].size = 0]
  /\ pc' = "lines" /\ start' = FAT_END
  /\ UNCHANGED <<fat, blocks, op, idx, dst, tmp, chainVars, reply>>

\* What each command does when free_chain returns.
FreedWrite ==
  /\ pc = "free" /\ ~Freeing /\ op = "write"
  /\ files' = [files EXCEPT ![idx].first_block = FAT_END, ![idx].size = 0]
  /\ pc' = "lines" /\ start' = FAT_END
  /\ UNCHANGED <<fat, blocks, op, idx, dst, tmp, chainVars, reply>>

FreedEdit ==
  /\ pc = "free" /\ ~Freeing /\ op = "edit"
  /\ pc' = "alloc" /\ start' = FAT_END
  /\ UNCHANGED <<fat, blocks, files, op, idx, dst, tmp, chainVars, reply>>

FreedDelete ==
  /\ pc = "free" /\ ~Freeing /\ op = "delete"
  /\ files' = [files EXCEPT ![idx] = [@ EXCEPT !.used = 0, !.size = 0,
                                               !.first_block = FAT_END, !.name = ""]]
  /\ Return("deleted", <<>>)
  /\ UNCHANGED <<fat, blocks>>

\* Mutant: every chunk is copied from the start of data, not data + written.
WriteBlockFromStart ==
  /\ pc = "alloc" /\ written < Len(tmp)
  /\ LET blk == alloc_block
         chunk == Chunk(Len(tmp) - written)
     IN /\ blk # FS_N_BLOCKS
        /\ fat' = [b \in Block |-> IF b = blk THEN FAT_END
                                   ELSE IF b = prev THEN blk ELSE fat[b]]
        /\ blocks' = [blocks EXCEPT ![blk] =
                        [j \in 0 .. (FS_BLOCK_SIZE - 1) |->
                           IF j < chunk THEN tmp[j + 1] ELSE @[j]]]
        /\ first' = IF first = FAT_END THEN blk ELSE first
        /\ prev' = blk
        /\ written' = written + chunk
  /\ UNCHANGED <<files, pc, op, idx, dst, start, tmp, reply>>

\* One turn of write_to_blocks with a free block.
WriteBlock ==
  /\ pc = "alloc" /\ written < Len(tmp)
  /\ LET blk == alloc_block
         chunk == Chunk(Len(tmp) - written)
     IN /\ blk # FS_N_BLOCKS
        /\ fat' = [b \in Block |-> IF b = blk THEN FAT_END
                                   ELSE IF b = prev THEN blk ELSE fat[b]]
        /\ blocks' = [blocks EXCEPT ![blk] =
                        [j \in 0 .. (FS_BLOCK_SIZE - 1) |->
                           IF j < chunk THEN tmp[written + j + 1] ELSE @[j]]]
        /\ first' = IF first = FAT_END THEN blk ELSE first
        /\ prev' = blk
        /\ written' = written + chunk
  /\ UNCHANGED <<files, pc, op, idx, dst, start, tmp, reply>>

\* Mutant: fs_edit does not reset the entry when the new chain does not fit.
DiskFullKeepsEntry ==
  /\ pc = "alloc" /\ written < Len(tmp)
  /\ alloc_block = FS_N_BLOCKS
  /\ IF op = "write" THEN files' = [files EXCEPT ![idx].used = 0] ELSE UNCHANGED files
  /\ Return("disk full", <<>>)
  /\ UNCHANGED <<fat, blocks>>

\* alloc_block found nothing: write_to_blocks returns FS_N_BLOCKS at once.
DiskFull ==
  /\ pc = "alloc" /\ written < Len(tmp)
  /\ alloc_block = FS_N_BLOCKS
  /\ \/ op = "write" /\ files' = [files EXCEPT ![idx].used = 0]
     \/ op = "edit" /\ files' = [files EXCEPT ![idx].first_block = FAT_END, ![idx].size = 0]
     \/ op = "copy" /\ UNCHANGED files
  /\ Return("disk full", <<>>)
  /\ UNCHANGED <<fat, blocks>>

\* Mutant: the result of write_to_blocks is stored without the disk-full test.
CommitUnchecked ==
  /\ pc = "alloc" /\ (written >= Len(tmp) \/ alloc_block = FS_N_BLOCKS)
  /\ LET head == IF written >= Len(tmp) THEN first ELSE FS_N_BLOCKS
     IN IF op = "copy"
          THEN files' = [files EXCEPT ![dst.slot] =
                           [used |-> 1, name |-> dst.name, dir |-> dst.dir,
                            first_block |-> head, size |-> Len(tmp)]]
          ELSE files' = [files EXCEPT ![idx].first_block = head, ![idx].size = Len(tmp)]
  /\ Return("ok", <<>>)
  /\ UNCHANGED <<fat, blocks>>

\* write_to_blocks returned the head of the new chain (FAT_END if total is 0).
Commit ==
  /\ pc = "alloc" /\ written >= Len(tmp)
  /\ \/ /\ op = "copy"
        /\ files' = [files EXCEPT ![dst.slot] =
                       [used |-> 1, name |-> dst.name, dir |-> dst.dir,
                        first_block |-> first, size |-> Len(tmp)]]
     \/ /\ op # "copy"
        /\ files' = [files EXCEPT ![idx].first_block = first, ![idx].size = Len(tmp)]
  /\ Return("ok", <<>>)
  /\ UNCHANGED <<fat, blocks>>

Command ==
  \/ Usage
  \/ \E name \in Names, dir \in Dirs :
       \/ fs_write(name, dir) \/ fs_read(name, dir)
       \/ fs_edit(name, dir) \/ fs_delete(name, dir)
       \/ \E other \in Names : fs_rename(name, other, dir) \/ fs_copy(name, other, dir)

Loop ==
  \/ GatherBlock \/ Gathered
  \/ FreeBlock \/ FreedWrite \/ FreedEdit \/ FreedDelete
  \/ WriteBlock \/ DiskFull \/ Commit

Typing == (\E line \in Lines : TypeLine(line)) \/ EndInput \/ (\E yes \in BOOLEAN : Answer(yes))

Next == Command \/ Typing \/ Loop

Spec == Init /\ [][Next]_vars

(***************************************************************************)
(* Properties                                                              *)
(***************************************************************************)
Messages == {"none", "ok", "read", "deleted", "cancelled", "usage", "not found", "exists",
             "directory full", "disk full"}
Entry == [used : {0, 1}, name : Names \cup {""}, dir : Dirs \cup {""},
          first_block : Link, size : Nat]

ArraysOK ==
  /\ fat \in [Block -> Link]
  /\ blocks \in [Block -> [0 .. (FS_BLOCK_SIZE - 1) -> Byte]]
  /\ files \in [Slot -> Entry]

\* Which command can be in which loop.
ControlOK ==
  \/ pc = "shell" /\ op = "none"
  \/ pc = "gather" /\ op \in {"read", "edit", "copy"}
  \/ pc = "lines" /\ op \in {"write", "edit"}
  \/ pc = "confirm" /\ op = "delete"
  \/ pc = "free" /\ op \in {"write", "edit", "delete"}
  \/ pc = "alloc" /\ op \in {"write", "edit", "copy"}

LocalsOK ==
  /\ idx \in Slot
  /\ dst \in [slot : Slot, name : Names \cup {""}, dir : Dirs \cup {""}]
  /\ start \in Link /\ first \in Link /\ prev \in Link
  /\ tmp \in Seq(Byte) /\ written \in Nat
  /\ reply \in [msg : Messages, text : Seq(Byte)]

\* The types of the arrays and locals of fs.c, and which loop a command is in.
TypeOK == ArraysOK /\ ControlOK /\ LocalsOK

\* The entry of the running command keeps the head of its old chain while
\* free_chain runs and, in fs_edit, until the new chain is complete.
Stale(i) == i = idx /\ (pc = "free" \/ (pc = "alloc" /\ op = "edit"))
Live(i) == files[i].used = 1 /\ ~Stale(i)
HeadOf(i) == files[i].first_block

Allocated(b) == fat[b] # FAT_FREE
\* Block 0 cannot be a link: fat[b] = 0 reads as FAT_FREE.
IsLink(b) == fat[b] \in Block \ {FAT_FREE}

LinksAllocated == \A b \in Block : IsLink(b) => Allocated(fat[b])
LinksInjective == \A b, c \in Block : IsLink(b) /\ fat[b] = fat[c] => b = c

\* A block that begins a chain: allocated, and no block links to it.
IsRoot(h) == Allocated(h) /\ \A b \in Block : IsLink(b) => fat[b] # h

HeadsAreRoots == \A i \in Slot : Live(i) /\ HeadOf(i) \in Block => IsRoot(HeadOf(i))
HeadsDistinct ==
  \A i, j \in Slot : Live(i) /\ Live(j) /\ HeadOf(i) \in Block /\ HeadOf(i) = HeadOf(j) => i = j

\* An unused slot is clean, so a slot fs_write claims holds no old chain.
FreeSlotsClean == \A i \in Slot : files[i].used = 0 => HeadOf(i) = FAT_END /\ files[i].size = 0

\* The chain write_to_blocks is building: rooted at first, ending at prev,
\* owned by no file.  Block 0 is taken, because alloc_block is first-fit.
BuildingOK ==
  IF pc = "alloc" /\ first \in Block
    THEN /\ IsRoot(first) /\ \A i \in Slot : Live(i) => HeadOf(i) # first
         /\ prev \in Block /\ fat[prev] = FAT_END
         /\ Allocated(0)
    ELSE first = FAT_END /\ prev = FAT_END

\* The rest of the chain free_chain is walking is owned by no file.
FreeingOK ==
  pc = "free" /\ start \in Block /\ start # FAT_FREE
    => IsRoot(start) /\ \A i \in Slot : Live(i) => HeadOf(i) # start

\* The running command works on a used slot, which fs_write has truncated
\* before it reads a line, and fs_copy fills an unused one.
SlotsOK ==
  /\ op # "none" => files[idx].used = 1
  /\ op = "write" /\ pc # "free" => HeadOf(idx) = FAT_END /\ files[idx].size = 0
  /\ op = "copy" =>
       /\ files[dst.slot].used = 0
       /\ \A i \in Slot : files[i].used = 1 => <<files[i].name, files[i].dir>> # <<dst.name, dst.dir>>

\* No two used entries have the same name and directory (the table is a map).
UniqueNames ==
  \A i, j \in Slot :
    /\ files[i].used = 1 /\ files[j].used = 1
    /\ files[i].name = files[j].name /\ files[i].dir = files[j].dir
    => i = j

\* The FAT is a set of disjoint chains: what a file's head reaches is allocated,
\* no two blocks link to the same block, no file's head is inside another
\* chain, and no two files share a head.
ChainsDisjoint == LinksAllocated /\ LinksInjective /\ HeadsAreRoots /\ HeadsDistinct

\* The inductive invariant.
IInv ==
  /\ TypeOK /\ ChainsDisjoint /\ FreeSlotsClean
  /\ BuildingOK /\ FreeingOK /\ SlotsOK /\ UniqueNames
=============================================================================
