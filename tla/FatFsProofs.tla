---------------------------- MODULE FatFsProofs ----------------------------
(***************************************************************************)
(* For every number and size of blocks and every number of file slots, the *)
(* FAT stays a set of disjoint chains and the file table a map.  IInv is   *)
(* inductive; the proof has one lemma per action.                          *)
(***************************************************************************)
EXTENDS FatFs, TLAPS, WellFoundedInduction, SequenceTheorems

(***************************************************************************)
(* The table scans                                                         *)
(***************************************************************************)
\* Min, on which the three scans of fs.c are built, is the least element.
LEMMA MinIsLeast ==
  ASSUME NEW S, S \subseteq Nat, S # {}
  PROVE  Min(S) \in S /\ \A y \in S : Min(S) <= y
<1> DEFINE Less == OpToRel(<, Nat)
<1>1. PICK x \in S : \A y \in S : ~(<<y, x>> \in Less)
  BY NatLessThanWellFounded, WFMin
<1>2. ASSUME NEW y \in S, y < x
      PROVE  <<y, x>> \in Less
  <2>1. <<y, x>> \in Nat \X Nat
    OBVIOUS
  <2>. QED  BY <2>1, <1>2 DEF OpToRel
<1> HIDE DEF Less
<1>3. \A y \in S : ~(y < x)
  BY <1>1, <1>2
<1>4. \A y \in S : x <= y
  BY <1>3
<1>. QED  BY <1>4 DEF Min

\* alloc_block returns the lowest free block, or FS_N_BLOCKS if there is none.
LEMMA AllocBlock ==
  ASSUME TypeOK
  PROVE  \/ /\ alloc_block \in Block /\ fat[alloc_block] = FAT_FREE
            /\ \A b \in Block : fat[b] = FAT_FREE => alloc_block <= b
         \/ alloc_block = FS_N_BLOCKS
<1> DEFINE S == {b \in Block : fat[b] = FAT_FREE}
<1>1. S \subseteq Nat
  BY SizeAssumption DEF Block
<1>2. CASE S = {}
  BY <1>2 DEF alloc_block, FirstOr
<1>3. CASE S # {}
  <2>1. Min(S) \in S /\ \A y \in S : Min(S) <= y
    BY <1>1, <1>3, MinIsLeast
  <2>2. alloc_block = Min(S)
    BY <1>3 DEF alloc_block, FirstOr
  <2>. QED  BY <2>1, <2>2
<1>. QED  BY <1>2, <1>3

\* find_file returns a used slot with that name and directory, or FS_MAX_FILES
\* if no used slot has them.
LEMMA FindFile ==
  ASSUME NEW n, NEW d
  PROVE  \/ /\ find_file(n, d) \in Slot
            /\ files[find_file(n, d)].used = 1
            /\ files[find_file(n, d)].name = n /\ files[find_file(n, d)].dir = d
         \/ /\ find_file(n, d) = FS_MAX_FILES
            /\ \A i \in Slot : files[i].used = 1 => ~(files[i].name = n /\ files[i].dir = d)
<1> DEFINE S == {i \in Slot : files[i].used = 1 /\ files[i].name = n /\ files[i].dir = d}
<1>1. S \subseteq Nat
  BY SizeAssumption DEF Slot
<1>2. CASE S = {}
  BY <1>2 DEF find_file, FirstOr
<1>3. CASE S # {}
  <2>1. Min(S) \in S
    BY <1>1, <1>3, MinIsLeast
  <2>2. find_file(n, d) = Min(S)
    BY <1>3 DEF find_file, FirstOr
  <2>. QED  BY <2>1, <2>2
<1>. QED  BY <1>2, <1>3

\* find_free_slot returns an unused slot or FS_MAX_FILES.
LEMMA FindFreeSlot ==
  \/ find_free_slot \in Slot /\ files[find_free_slot].used = 0
  \/ find_free_slot = FS_MAX_FILES
<1> DEFINE S == {i \in Slot : files[i].used = 0}
<1>1. S \subseteq Nat
  BY SizeAssumption DEF Slot
<1>2. CASE S = {}
  BY <1>2 DEF find_free_slot, FirstOr
<1>3. CASE S # {}
  <2>1. Min(S) \in S
    BY <1>1, <1>3, MinIsLeast
  <2>2. find_free_slot = Min(S)
    BY <1>3 DEF find_free_slot, FirstOr
  <2>. QED  BY <2>1, <2>2
<1>. QED  BY <1>2, <1>3

(***************************************************************************)
(* Facts about the constants                                               *)
(***************************************************************************)
\* FAT_FREE is also the number of a block; FAT_END and FS_N_BLOCKS are not.
LEMMA BlockFacts ==
  /\ FAT_FREE = 0 /\ FAT_FREE \in Block /\ FAT_END \notin Block /\ FAT_END # FAT_FREE
  /\ FS_N_BLOCKS \notin Block /\ FS_N_BLOCKS # FAT_END /\ FAT_END \in Link
  /\ \A l \in Link : l \in Block <=> l < FS_N_BLOCKS
  /\ \A l \in Link : l \in Block \/ l = FAT_END
<1>1. FAT_END \in Nat
  BY DEF FAT_END
<1>. QED  BY <1>1, SizeAssumption DEF Block, Link, FAT_FREE

\* FS_MAX_FILES, the "not found" of the scans, is not a slot.
LEMMA SlotFacts ==
  /\ FS_MAX_FILES \notin Slot /\ 0 \in Slot
  /\ \A i \in Slot \cup {FS_MAX_FILES} : i \in Slot <=> i < FS_MAX_FILES
BY SizeAssumption DEF Slot

\* What a command prints when it has no text to show.
LEMMA ReplyFacts ==
  /\ <<>> \in Seq(Byte)
  /\ \A m \in Messages : [msg |-> m, text |-> <<>>] \in [msg : Messages, text : Seq(Byte)]
OBVIOUS

(***************************************************************************)
(* The initial state                                                       *)
(***************************************************************************)
\* fs_init establishes the invariant.
LEMMA InitInvariant == Init => IInv
<1> SUFFICES ASSUME Init PROVE IInv
  OBVIOUS
<1>1. /\ fat = [b \in Block |-> FAT_FREE] /\ files = [i \in Slot |-> Clean]
      /\ blocks = [b \in Block |-> [j \in 0 .. (FS_BLOCK_SIZE - 1) |-> NUL]]
  BY DEF Init
<1>2. /\ pc = "shell" /\ op = "none" /\ idx = 0 /\ start = FAT_END
      /\ first = FAT_END /\ prev = FAT_END /\ written = 0
  BY DEF Init
<1>3. ArraysOK
  BY <1>1, BlockFacts DEF ArraysOK, Link, Entry, Clean, Byte
<1>4. ControlOK /\ LocalsOK
  <2>1. dst \in [slot : Slot, name : Names \cup {""}, dir : Dirs \cup {""}]
    <3>1. dst = [slot |-> 0, name |-> "", dir |-> ""]
      BY DEF Init
    <3>. QED  BY <3>1, SlotFacts
  <2>2. reply \in [msg : Messages, text : Seq(Byte)]
    <3>1. reply = [msg |-> "none", text |-> <<>>]
      BY DEF Init
    <3>. QED  BY <3>1 DEF Messages
  <2>3. tmp \in Seq(Byte)
    <3>1. tmp = <<>>
      BY DEF Init
    <3>. QED  BY <3>1
  <2>4. start \in Link /\ first \in Link /\ prev \in Link /\ written \in Nat /\ idx \in Slot
    BY <1>2, BlockFacts, SlotFacts
  <2>. QED  BY <1>2, <2>1, <2>2, <2>3, <2>4 DEF ControlOK, LocalsOK
<1>5. \A i \in Slot : files[i].used = 0 /\ HeadOf(i) = FAT_END /\ files[i].size = 0
  BY <1>1 DEF Clean, HeadOf
<1>6. \A b \in Block : fat[b] = FAT_FREE
  BY <1>1
<1>7. ChainsDisjoint
  BY <1>5, <1>6 DEF ChainsDisjoint, LinksAllocated, LinksInjective, HeadsAreRoots,
                    HeadsDistinct, IsLink, Live
<1>8. FreeSlotsClean /\ UniqueNames
  BY <1>5 DEF FreeSlotsClean, UniqueNames
<1>9. BuildingOK /\ FreeingOK /\ SlotsOK
  BY <1>2 DEF BuildingOK, FreeingOK, SlotsOK
<1>. QED  BY <1>3, <1>4, <1>7, <1>8, <1>9 DEF IInv, TypeOK

(***************************************************************************)
(* The commands                                                            *)
(***************************************************************************)
\* A command that prints an error and returns changes nothing but reply.
LEMMA RefuseInvariant ==
  ASSUME IInv, NEW m \in Messages, Refuse(m)
  PROVE  IInv'
<1>1. /\ reply' = [msg |-> m, text |-> <<>>]
      /\ UNCHANGED <<fat, blocks, files, pc, op, idx, dst, start, tmp, first, prev, written>>
  BY DEF Refuse, chainVars
<1>2. ArraysOK' /\ ControlOK'
  BY <1>1 DEF IInv, TypeOK, ArraysOK, ControlOK
<1>3. reply' \in [msg : Messages, text : Seq(Byte)]
  BY <1>1
<1>4. LocalsOK'
  BY <1>1, <1>3 DEF IInv, TypeOK, LocalsOK
<1>5. ChainsDisjoint'
  BY <1>1 DEF IInv, ChainsDisjoint, LinksAllocated, LinksInjective, HeadsAreRoots,
              HeadsDistinct, IsRoot, IsLink, Allocated, Live, Stale, HeadOf
<1>6. (FreeSlotsClean /\ BuildingOK /\ FreeingOK /\ SlotsOK /\ UniqueNames)'
  BY <1>1 DEF IInv, FreeSlotsClean, BuildingOK, FreeingOK, SlotsOK, UniqueNames,
              HeadOf, Live, Stale, IsRoot, IsLink, Allocated
<1>. QED  BY <1>2, <1>4, <1>5, <1>6 DEF IInv, TypeOK

\* A command that starts a loop on the used slot i, files[] unchanged: the
\* chain handed to free_chain is i's, and i no longer counts as its owner.
LEMMA BeginInvariant ==
  ASSUME IInv, pc = "shell",
         NEW o, NEW loop, NEW i \in Slot, files[i].used = 1, Begin(o, i, loop),
         UNCHANGED <<fat, blocks, files, chainVars>>,
         \/ loop = "gather" /\ o \in {"read", "edit", "copy"}
         \/ loop = "confirm" /\ o = "delete"
         \/ loop = "free" /\ o = "write" /\ start' = HeadOf(i),
         start' \in Link,
         dst' \in [slot : Slot, name : Names \cup {""}, dir : Dirs \cup {""}],
         o = "copy" =>
           /\ files[dst'.slot].used = 0
           /\ \A j \in Slot : files[j].used = 1 =>
                <<files[j].name, files[j].dir>> # <<dst'.name, dst'.dir>>
  PROVE  IInv'
<1>1. /\ op' = o /\ idx' = i /\ pc' = loop /\ tmp' = <<>>
      /\ reply' = [msg |-> "none", text |-> <<>>]
      /\ UNCHANGED <<fat, blocks, files, first, prev, written>>
  BY DEF Begin, chainVars
<1>2. ArraysOK' /\ ControlOK'
  BY <1>1 DEF IInv, TypeOK, ArraysOK, ControlOK
<1>3. reply' \in [msg : Messages, text : Seq(Byte)] /\ tmp' \in Seq(Byte)
  <2>1. "none" \in Messages
    BY DEF Messages
  <2>. QED  BY <1>1, <2>1, ReplyFacts
<1>4. LocalsOK'
  BY <1>1, <1>3 DEF IInv, TypeOK, LocalsOK
<1>5. \A j \in Slot : /\ HeadOf(j)' = HeadOf(j)
                      /\ Live(j)' => Live(j) /\ (loop = "free" => j # i)
  BY <1>1 DEF HeadOf, Live, Stale
<1>6. Live(i)
  BY DEF Live, Stale
<1>7. \A h : IsRoot(h)' <=> IsRoot(h)
  BY <1>1 DEF IsRoot, IsLink, Allocated
<1>8. ChainsDisjoint'
  <2>1. LinksAllocated' /\ LinksInjective'
    BY <1>1 DEF IInv, ChainsDisjoint, LinksAllocated, LinksInjective, IsLink, Allocated
  <2>2. HeadsAreRoots' /\ HeadsDistinct'
    BY <1>5, <1>7 DEF IInv, ChainsDisjoint, HeadsAreRoots, HeadsDistinct
  <2>. QED  BY <2>1, <2>2 DEF ChainsDisjoint
<1>9. FreeSlotsClean' /\ UniqueNames'
  <2>1. FreeSlotsClean'
    BY <1>1 DEF IInv, FreeSlotsClean, HeadOf
  <2>2. UniqueNames'
    BY <1>1, ZenonT(60) DEF IInv, UniqueNames
  <2>. QED  BY <2>1, <2>2
<1>10. BuildingOK'
  BY <1>1 DEF IInv, BuildingOK
<1>11. FreeingOK'
  BY <1>1, <1>5, <1>6, <1>7 DEF IInv, FreeingOK, ChainsDisjoint, HeadsAreRoots, HeadsDistinct
<1>12. SlotsOK'
  BY <1>1 DEF SlotsOK
<1>. QED  BY <1>2, <1>4, <1>8, <1>9, <1>10, <1>11, <1>12 DEF IInv, TypeOK

\* fs_write on a new name claims an unused slot, which FreeSlotsClean says
\* holds no old chain.
LEMMA ClaimInvariant ==
  ASSUME IInv, pc = "shell", NEW n \in Names, NEW d \in Dirs, NEW i \in Slot,
         files[i].used = 0,
         \A j \in Slot : files[j].used = 1 => ~(files[j].name = n /\ files[j].dir = d),
         files' = [files EXCEPT ![i].name = n, ![i].dir = d, ![i].used = 1],
         Begin("write", i, "lines"),
         UNCHANGED <<fat, blocks, dst, start, chainVars>>
  PROVE  IInv'
<1>1. /\ op' = "write" /\ idx' = i /\ pc' = "lines" /\ tmp' = <<>>
      /\ reply' = [msg |-> "none", text |-> <<>>]
      /\ UNCHANGED <<fat, blocks, dst, start, first, prev, written>>
  BY DEF Begin, chainVars
<1>2. /\ files' \in [Slot -> Entry]
      /\ files'[i].used = 1 /\ files'[i].name = n /\ files'[i].dir = d
      /\ \A j \in Slot : j # i => files'[j] = files[j]
      /\ \A j \in Slot : files'[j].first_block = files[j].first_block /\ files'[j].size = files[j].size
  BY ZenonT(60) DEF IInv, TypeOK, ArraysOK, Entry
<1>3. ArraysOK' /\ ControlOK'
  BY <1>1, <1>2 DEF IInv, TypeOK, ArraysOK, ControlOK
<1>4. reply' \in [msg : Messages, text : Seq(Byte)] /\ tmp' \in Seq(Byte)
  <2>1. "none" \in Messages
    BY DEF Messages
  <2>. QED  BY <1>1, <2>1, ReplyFacts
<1>5. LocalsOK'
  BY <1>1, <1>4 DEF IInv, TypeOK, LocalsOK
<1>6. /\ \A j \in Slot : HeadOf(j)' = HeadOf(j) /\ (Live(j)' => Live(j) \/ j = i)
      /\ HeadOf(i)' = FAT_END
  BY <1>1, <1>2 DEF HeadOf, Live, Stale, IInv, FreeSlotsClean
<1>7. \A h : IsRoot(h)' <=> IsRoot(h)
  BY <1>1 DEF IsRoot, IsLink, Allocated
<1>8. ChainsDisjoint'
  <2>1. LinksAllocated' /\ LinksInjective'
    BY <1>1 DEF IInv, ChainsDisjoint, LinksAllocated, LinksInjective, IsLink, Allocated
  <2>2. HeadsAreRoots' /\ HeadsDistinct'
    BY <1>6, <1>7, BlockFacts DEF IInv, ChainsDisjoint, HeadsAreRoots, HeadsDistinct
  <2>. QED  BY <2>1, <2>2 DEF ChainsDisjoint
<1>9. FreeSlotsClean'
  BY <1>2 DEF IInv, FreeSlotsClean, HeadOf
<1>10. UniqueNames'
  BY <1>2 DEF IInv, UniqueNames
<1>11. BuildingOK' /\ FreeingOK'
  BY <1>1 DEF IInv, BuildingOK, FreeingOK
<1>12. SlotsOK'
  BY <1>1, <1>2, <1>6 DEF SlotsOK, IInv, FreeSlotsClean
<1>. QED  BY <1>3, <1>5, <1>8, <1>9, <1>10, <1>11, <1>12 DEF IInv, TypeOK

\* fs_write, up to free_chain or its first line, keeps the invariant.
LEMMA WriteInvariant ==
  ASSUME IInv, NEW n \in Names, NEW d \in Dirs, fs_write(n, d)
  PROVE  IInv'
<1> DEFINE i == find_file(n, d)
<1>1. i \in Slot \cup {FS_MAX_FILES} /\ find_free_slot \in Slot \cup {FS_MAX_FILES}
  BY FindFile, FindFreeSlot
<1>2. pc = "shell"
  BY DEF fs_write
<1>3. CASE /\ i < FS_MAX_FILES /\ Begin("write", i, "free")
           /\ start' = files[i].first_block
           /\ UNCHANGED <<fat, blocks, files, dst, chainVars>>
  <2>1. i \in Slot /\ files[i].used = 1
    BY <1>1, <1>3, FindFile, SlotFacts
  <2> HIDE DEF i
  <2>2. start' \in Link /\ start' = HeadOf(i)
    BY <1>3, <2>1 DEF IInv, TypeOK, ArraysOK, Entry, HeadOf
  <2>3. dst' \in [slot : Slot, name : Names \cup {""}, dir : Dirs \cup {""}]
    BY <1>3 DEF IInv, TypeOK, LocalsOK
  <2>. QED  BY <1>2, <1>3, <2>1, <2>2, <2>3, BeginInvariant
<1>4. CASE /\ i = FS_MAX_FILES /\ find_free_slot < FS_MAX_FILES
           /\ files' = [files EXCEPT ![find_free_slot].name = n, ![find_free_slot].dir = d,
                                     ![find_free_slot].used = 1]
           /\ Begin("write", find_free_slot, "lines")
           /\ UNCHANGED <<fat, blocks, dst, start, chainVars>>
  <2>1. find_free_slot \in Slot /\ files[find_free_slot].used = 0
    BY <1>1, <1>4, FindFreeSlot, SlotFacts
  <2>2. \A j \in Slot : files[j].used = 1 => ~(files[j].name = n /\ files[j].dir = d)
    BY <1>4, FindFile, SlotFacts
  <2>. QED  BY <1>2, <1>4, <2>1, <2>2, ClaimInvariant, ZenonT(60)
<1>5. CASE Refuse("directory full")
  BY <1>5, RefuseInvariant DEF Messages
<1>. QED  BY <1>3, <1>4, <1>5 DEF fs_write

\* So do fs_read, fs_edit and fs_delete, up to their first loop.
LEMMA ReadInvariant ==
  ASSUME IInv, NEW n \in Names, NEW d \in Dirs,
         fs_read(n, d) \/ fs_edit(n, d) \/ fs_delete(n, d)
  PROVE  IInv'
<1> DEFINE i == find_file(n, d)
<1>1. i \in Slot \cup {FS_MAX_FILES}
  BY FindFile
<1>2. pc = "shell"
  BY DEF fs_read, fs_edit, fs_delete
<1>3. ASSUME i < FS_MAX_FILES, NEW o, NEW loop, Begin(o, i, loop),
             \/ loop = "gather" /\ o \in {"read", "edit"} /\ start' = files[i].first_block
             \/ loop = "confirm" /\ o = "delete" /\ UNCHANGED start,
             UNCHANGED <<fat, blocks, files, dst, chainVars>>
      PROVE  IInv'
  <2>1. i \in Slot /\ files[i].used = 1
    BY <1>1, <1>3, FindFile, SlotFacts
  <2> HIDE DEF i
  <2>2. start' \in Link
    <3>1. files[i].first_block \in Link
      BY <2>1 DEF IInv, TypeOK, ArraysOK, Entry
    <3>2. start \in Link
      BY DEF IInv, TypeOK, LocalsOK
    <3>. QED  BY <1>3, <3>1, <3>2
  <2>3. dst' \in [slot : Slot, name : Names \cup {""}, dir : Dirs \cup {""}]
    BY <1>3 DEF IInv, TypeOK, LocalsOK
  <2>4. o # "copy"
    BY <1>3
  <2>. QED  BY <1>2, <1>3, <2>1, <2>2, <2>3, <2>4, BeginInvariant
<1>4. CASE Refuse("not found")
  BY <1>4, RefuseInvariant DEF Messages
<1>. QED  BY <1>3, <1>4 DEF fs_read, fs_edit, fs_delete

\* fs_copy begins with an unused slot and a name nobody has.
LEMMA CopyInvariant ==
  ASSUME IInv, NEW n \in Names, NEW m \in Names, NEW d \in Dirs, fs_copy(n, m, d)
  PROVE  IInv'
<1> DEFINE i == find_file(n, d)
<1>1. i \in Slot \cup {FS_MAX_FILES} /\ find_free_slot \in Slot \cup {FS_MAX_FILES}
      /\ find_file(m, d) \in Slot \cup {FS_MAX_FILES}
  BY FindFile, FindFreeSlot
<1>2. pc = "shell"
  BY DEF fs_copy
<1>3. CASE /\ i < FS_MAX_FILES /\ ~(find_file(m, d) < FS_MAX_FILES)
           /\ find_free_slot < FS_MAX_FILES
           /\ Begin("copy", i, "gather")
           /\ dst' = [slot |-> find_free_slot, name |-> m, dir |-> d]
           /\ start' = files[i].first_block
           /\ UNCHANGED <<fat, blocks, files, chainVars>>
  <2>1. i \in Slot /\ files[i].used = 1
    BY <1>1, <1>3, FindFile, SlotFacts
  <2>2. find_free_slot \in Slot /\ files[find_free_slot].used = 0
    BY <1>1, <1>3, FindFreeSlot, SlotFacts
  <2>3. \A j \in Slot : files[j].used = 1 => ~(files[j].name = m /\ files[j].dir = d)
    <3>1. find_file(m, d) \notin Slot
      BY <1>1, <1>3, SlotFacts
    <3>. QED  BY <3>1, FindFile
  <2> HIDE DEF i
  <2>4. start' \in Link
    BY <1>3, <2>1 DEF IInv, TypeOK, ArraysOK, Entry
  <2>5. dst' \in [slot : Slot, name : Names \cup {""}, dir : Dirs \cup {""}]
    BY <1>3, <2>2
  <2>6. /\ files[dst'.slot].used = 0
        /\ \A j \in Slot : files[j].used = 1 =>
             <<files[j].name, files[j].dir>> # <<dst'.name, dst'.dir>>
    BY <1>3, <2>2, <2>3
  <2>. QED  BY <1>2, <1>3, <2>1, <2>4, <2>5, <2>6, BeginInvariant
<1>4. CASE Refuse("not found") \/ Refuse("exists") \/ Refuse("directory full")
  BY <1>4, RefuseInvariant DEF Messages
<1>. QED  BY <1>3, <1>4 DEF fs_copy

\* fs_rename looks the new name up first, so it takes no used entry's name.
LEMMA RenameInvariant ==
  ASSUME IInv, NEW n \in Names, NEW m \in Names, NEW d \in Dirs, fs_rename(n, m, d)
  PROVE  IInv'
<1> DEFINE i == find_file(n, d)
<1>1. i \in Slot \cup {FS_MAX_FILES} /\ find_file(m, d) \in Slot \cup {FS_MAX_FILES}
  BY FindFile
<1>2. CASE /\ i < FS_MAX_FILES /\ ~(find_file(m, d) < FS_MAX_FILES)
           /\ files' = [files EXCEPT ![i].name = m]
           /\ reply' = [msg |-> "ok", text |-> <<>>]
           /\ UNCHANGED <<fat, blocks, pc, op, idx, dst, start, tmp, chainVars>>
  <2>1. i \in Slot /\ files[i].used = 1 /\ files[i].dir = d
    BY <1>1, <1>2, FindFile, SlotFacts
  <2>2. \A j \in Slot : files[j].used = 1 => ~(files[j].name = m /\ files[j].dir = d)
    <3>1. find_file(m, d) \notin Slot
      BY <1>1, <1>2, SlotFacts
    <3>. QED  BY <3>1, FindFile
  <2> HIDE DEF i
  <2>3. /\ files' \in [Slot -> Entry]
        /\ files'[i].name = m /\ files'[i].dir = d
        /\ \A j \in Slot : j # i => files'[j] = files[j]
        /\ \A j \in Slot : /\ files'[j].first_block = files[j].first_block
                            /\ files'[j].size = files[j].size
                            /\ files'[j].used = files[j].used
    BY <1>2, <2>1 DEF IInv, TypeOK, ArraysOK, Entry
  <2>4. UNCHANGED <<fat, blocks, pc, op, idx, dst, start, tmp, first, prev, written>>
    BY <1>2 DEF chainVars
  <2>5. pc = "shell" /\ op = "none"
    BY DEF fs_rename, IInv, TypeOK, ControlOK
  <2>6. ArraysOK' /\ ControlOK'
    BY <2>3, <2>4 DEF IInv, TypeOK, ArraysOK, ControlOK
  <2>7. reply' \in [msg : Messages, text : Seq(Byte)]
    <3>1. "ok" \in Messages
      BY DEF Messages
    <3>. QED  BY <1>2, <3>1, ReplyFacts
  <2>8. LocalsOK'
    BY <2>4, <2>7 DEF IInv, TypeOK, LocalsOK
  <2>9. ChainsDisjoint'
    BY <2>3, <2>4 DEF IInv, ChainsDisjoint, LinksAllocated, LinksInjective, HeadsAreRoots,
                      HeadsDistinct, IsRoot, IsLink, Allocated, Live, Stale, HeadOf
  <2>10. FreeSlotsClean'
    BY <2>3 DEF IInv, FreeSlotsClean, HeadOf
  <2>11. UniqueNames'
    BY <2>2, <2>3 DEF IInv, UniqueNames
  <2>12. (BuildingOK /\ FreeingOK /\ SlotsOK)'
    BY <2>4, <2>5 DEF IInv, BuildingOK, FreeingOK, SlotsOK
  <2>. QED  BY <2>6, <2>8, <2>9, <2>10, <2>11, <2>12 DEF IInv, TypeOK
<1>3. CASE Refuse("not found") \/ Refuse("exists")
  BY <1>3, RefuseInvariant DEF Messages
<1>. QED  BY <1>2, <1>3 DEF fs_rename

(***************************************************************************)
(* The loops                                                               *)
(***************************************************************************)
\* Back in the shell no command holds a chain, and every used entry is live.
LEMMA ReturnFacts ==
  ASSUME NEW m \in Messages, NEW t \in Seq(Byte), Return(m, t)
  PROVE  /\ ControlOK' /\ LocalsOK' /\ BuildingOK' /\ FreeingOK' /\ SlotsOK'
         /\ \A i \in Slot : Live(i)' <=> files'[i].used = 1
<1>1. /\ pc' = "shell" /\ op' = "none" /\ idx' = 0 /\ start' = FAT_END
      /\ first' = FAT_END /\ prev' = FAT_END /\ written' = 0
  BY DEF Return
<1>2. dst' \in [slot : Slot, name : Names \cup {""}, dir : Dirs \cup {""}]
  <2>1. dst' = [slot |-> 0, name |-> "", dir |-> ""]
    BY DEF Return
  <2>. QED  BY <2>1, SlotFacts
<1>3. reply' \in [msg : Messages, text : Seq(Byte)]
  <2>1. reply' = [msg |-> m, text |-> t]
    BY DEF Return
  <2>. QED  BY <2>1
<1>4. tmp' \in Seq(Byte)
  <2>1. tmp' = <<>>
    BY DEF Return
  <2>. QED  BY <2>1
<1>5. ControlOK'
  BY <1>1 DEF ControlOK
<1>6. LocalsOK'
  BY <1>1, <1>2, <1>3, <1>4, BlockFacts, SlotFacts DEF LocalsOK
<1>7. (BuildingOK /\ FreeingOK /\ SlotsOK)'
  BY <1>1 DEF BuildingOK, FreeingOK, SlotsOK
<1>8. \A i \in Slot : Live(i)' <=> files'[i].used = 1
  BY <1>1 DEF Live, Stale
<1>. QED  BY <1>5, <1>6, <1>7, <1>8

\* A command may return with fat[] and files[] as they are if no entry holds a
\* stale head.
LEMMA ReturnInvariant ==
  ASSUME IInv, NEW m \in Messages, NEW t \in Seq(Byte), Return(m, t),
         UNCHANGED <<fat, blocks, files>>, \A i \in Slot : ~Stale(i)
  PROVE  IInv'
<1>1. \A i \in Slot : HeadOf(i)' = HeadOf(i) /\ (Live(i)' <=> Live(i))
  BY ReturnFacts DEF Live, HeadOf
<1>2. \A h : IsRoot(h)' <=> IsRoot(h)
  BY DEF IsRoot, IsLink, Allocated
<1>3. ArraysOK'
  BY DEF IInv, TypeOK, ArraysOK
<1>4. LinksAllocated' /\ LinksInjective'
  BY DEF IInv, ChainsDisjoint, LinksAllocated, LinksInjective, IsLink, Allocated
<1>5. HeadsAreRoots' /\ HeadsDistinct'
  BY <1>1, <1>2 DEF IInv, ChainsDisjoint, HeadsAreRoots, HeadsDistinct
<1>6. FreeSlotsClean' /\ UniqueNames'
  BY DEF IInv, FreeSlotsClean, UniqueNames, HeadOf
<1>. QED  BY <1>3, <1>4, <1>5, <1>6, ReturnFacts DEF IInv, TypeOK, ChainsDisjoint

\* A step that changes neither fat[] nor files[] and leaves no entry, loop or
\* chain with more than it had.
LEMMA QuietInvariant ==
  ASSUME IInv, ControlOK', LocalsOK',
         UNCHANGED <<fat, blocks, files, op, idx, dst, first, prev>>,
         \A i \in Slot : Live(i)' => Live(i),
         pc' = "free" =>
           /\ start' = HeadOf(idx) /\ Live(idx) /\ ~Live(idx)',
         pc' = "alloc" => first = FAT_END,
         pc = "alloc" => pc' = "alloc",
         op = "write" /\ pc = "free" => pc' = "free"
  PROVE  IInv'
<1>1. \A i \in Slot : HeadOf(i)' = HeadOf(i)
  BY DEF HeadOf
<1>2. \A h : IsRoot(h)' <=> IsRoot(h)
  BY DEF IsRoot, IsLink, Allocated
<1>3. ArraysOK' /\ idx \in Slot
  BY DEF IInv, TypeOK, ArraysOK, LocalsOK
<1>4. LinksAllocated' /\ LinksInjective'
  BY DEF IInv, ChainsDisjoint, LinksAllocated, LinksInjective, IsLink, Allocated
<1>5. HeadsAreRoots' /\ HeadsDistinct'
  BY <1>1, <1>2 DEF IInv, ChainsDisjoint, HeadsAreRoots, HeadsDistinct
<1>6. FreeSlotsClean' /\ UniqueNames' /\ SlotsOK'
  BY DEF IInv, FreeSlotsClean, UniqueNames, SlotsOK, HeadOf
<1>7. BuildingOK'
  BY BlockFacts DEF IInv, BuildingOK
<1>8. FreeingOK'
  BY <1>1, <1>2, <1>3 DEF IInv, FreeingOK, ChainsDisjoint, HeadsAreRoots, HeadsDistinct
<1>. QED  BY <1>3, <1>4, <1>5, <1>6, <1>7, <1>8 DEF IInv, TypeOK, ChainsDisjoint

\* A turn of a copy loop only extends tmp and follows a link.
LEMMA GatherBlockInvariant == ASSUME IInv, GatherBlock PROVE IInv'
<1> DEFINE n == Chunk(files[idx].size - Len(tmp))
           part == [j \in 1 .. n |-> blocks[start][j - 1]]
<1>1. /\ pc = "gather" /\ Gathering /\ tmp' = tmp \o part /\ start' = fat[start]
      /\ UNCHANGED <<fat, blocks, files, pc, op, idx, dst, first, prev, written, reply>>
  BY DEF GatherBlock, chainVars
<1>2. /\ start \in Block /\ idx \in Slot /\ files[idx].size \in Nat
      /\ tmp \in Seq(Byte) /\ Len(tmp) \in Nat
  <2>1. idx \in Slot /\ start \in Link /\ tmp \in Seq(Byte)
    BY DEF IInv, TypeOK, LocalsOK
  <2>2. start \in Block
    BY <1>1, <2>1, BlockFacts DEF Gathering
  <2>3. files[idx].size \in Nat
    BY <2>1 DEF IInv, TypeOK, ArraysOK, Entry
  <2>. QED  BY <2>1, <2>2, <2>3
<1>3. part \in Seq(Byte)
  <2>1. n \in Nat /\ n <= FS_BLOCK_SIZE
    BY <1>1, <1>2, SizeAssumption DEF Chunk, Gathering
  <2> HIDE DEF n
  <2>2. \A j \in 1 .. n : blocks[start][j - 1] \in Byte
    BY <1>2, <2>1, SizeAssumption DEF IInv, TypeOK, ArraysOK
  <2>. QED  BY <2>1, <2>2
<1> HIDE DEF part
<1>4. tmp' \in Seq(Byte)
  BY <1>1, <1>2, <1>3
<1>5. start' \in Link
  BY <1>1, <1>2 DEF IInv, TypeOK, ArraysOK
<1>6. ControlOK' /\ LocalsOK'
  BY <1>1, <1>4, <1>5 DEF IInv, TypeOK, ControlOK, LocalsOK
<1>7. \A i \in Slot : Live(i)' => Live(i)
  BY <1>1 DEF Live, Stale
<1>. QED  BY <1>1, <1>6, <1>7, QuietInvariant

\* The end of a copy loop hands tmp to the next loop or to the screen.
LEMMA GatheredInvariant == ASSUME IInv, Gathered PROVE IInv'
<1>1. /\ pc = "gather" /\ UNCHANGED <<fat, blocks, files>>
      /\ idx \in Slot /\ tmp \in Seq(Byte)
  BY DEF Gathered, IInv, TypeOK, LocalsOK
<1>2. CASE Return("read", tmp)
  <2>1. \A i \in Slot : ~Stale(i)
    BY <1>1 DEF Stale
  <2>2. "read" \in Messages
    BY DEF Messages
  <2>. QED  BY <1>1, <1>2, <2>1, <2>2, ReturnInvariant
<1>3. CASE op # "read" /\ ~Return("read", tmp)
  <2> DEFINE filled == [j \in 1 .. files[idx].size |-> IF j <= Len(tmp) THEN tmp[j] ELSE NUL]
  <2>1. /\ tmp' = filled /\ start' = FAT_END
        /\ pc' = IF op = "edit" THEN "lines" ELSE "alloc"
        /\ UNCHANGED <<op, idx, dst, first, prev, written, reply>>
    BY <1>3 DEF Gathered, chainVars
  <2>2. filled \in Seq(Byte)
    <3>1. files[idx].size \in Nat
      BY <1>1 DEF IInv, TypeOK, ArraysOK, Entry
    <3>2. Len(tmp) \in Nat /\ NUL \in Byte
      BY <1>1 DEF Byte
    <3>3. \A j \in 1 .. files[idx].size : j <= Len(tmp) => tmp[j] \in Byte
      BY <1>1, <3>1, <3>2
    <3>. QED  BY <3>1, <3>2, <3>3
  <2> HIDE DEF filled
  <2>3. ControlOK'
    BY <1>1, <1>3, <2>1 DEF IInv, TypeOK, ControlOK
  <2>4. tmp' \in Seq(Byte) /\ start' \in Link
    BY <2>1, <2>2, BlockFacts
  <2>5. LocalsOK'
    BY <2>1, <2>4 DEF IInv, TypeOK, LocalsOK
  <2>6. \A i \in Slot : Live(i)' => Live(i)
    BY <1>1 DEF Live, Stale
  <2>7. first = FAT_END
    BY <1>1 DEF IInv, BuildingOK
  <2>. QED  BY <1>1, <2>1, <2>3, <2>5, <2>6, <2>7, QuietInvariant
<1>. QED  BY <1>2, <1>3 DEF Gathered

\* A typed line only extends tmp.
LEMMA TypeLineInvariant == ASSUME IInv, NEW line \in Lines, TypeLine(line) PROVE IInv'
<1>1. /\ pc = "lines"
      /\ UNCHANGED <<fat, blocks, files, pc, op, idx, dst, start, first, prev, written, reply>>
  BY DEF TypeLine, chainVars
<1>2. tmp' \in Seq(Byte)
  <2>1. line \in Seq(Byte) /\ NL \in Byte
    <3>1. line \in Seq(Chars) /\ Chars \subseteq Byte /\ NL \in Byte
      BY InputAssumption DEF Byte
    <3>2. \A j \in 1 .. Len(line) : line[j] \in Byte
      BY <3>1
    <3>3. Len(line) \in Nat /\ line = [j \in 1 .. Len(line) |-> line[j]]
      BY <3>1
    <3>. QED  BY <3>1, <3>2, <3>3
  <2>2. Append(line, NL) \in Seq(Byte)
    BY <2>1
  <2>3. tmp \in Seq(Byte)
    BY DEF IInv, TypeOK, LocalsOK
  <2>4. tmp \o Append(line, NL) \in Seq(Byte)
    BY <2>2, <2>3
  <2>. QED  BY <2>3, <2>4 DEF TypeLine
<1>3. ControlOK' /\ LocalsOK'
  BY <1>1, <1>2 DEF IInv, TypeOK, ControlOK, LocalsOK
<1>4. \A i \in Slot : Live(i)' => Live(i)
  BY <1>1 DEF Live, Stale
<1>. QED  BY <1>1, <1>3, <1>4, QuietInvariant

\* The chain a loop is about to free belongs to the command's own entry.
LEMMA StartFreeing ==
  ASSUME IInv, pc \in {"lines", "confirm"}, pc' = "free", op # "none",
         start' = files[idx].first_block, op \in {"edit", "delete"},
         UNCHANGED <<fat, blocks, files, op, idx, dst, tmp, chainVars, reply>>
  PROVE  IInv'
<1>1. UNCHANGED <<first, prev, written>>
  BY DEF chainVars
<1>2. idx \in Slot /\ start' = HeadOf(idx) /\ start' \in Link
  <2>1. idx \in Slot
    BY DEF IInv, TypeOK, LocalsOK
  <2>. QED  BY <2>1 DEF IInv, TypeOK, ArraysOK, Entry, HeadOf
<1>3. ControlOK' /\ LocalsOK'
  BY <1>1, <1>2 DEF IInv, TypeOK, ControlOK, LocalsOK
<1>4. \A i \in Slot : Live(i)' => Live(i)
  BY DEF Live, Stale
<1>5. Live(idx) /\ ~Live(idx)'
  BY DEF Live, Stale, IInv, SlotsOK
<1>. QED  BY <1>1, <1>2, <1>3, <1>4, <1>5, QuietInvariant

\* "." starts write_to_blocks, or free_chain on the chain fs_edit replaces.
LEMMA EndInputInvariant == ASSUME IInv, EndInput PROVE IInv'
<1>1. /\ pc = "lines"
      /\ UNCHANGED <<fat, blocks, files, op, idx, dst, tmp, chainVars, first, prev, written, reply>>
  BY DEF EndInput, chainVars
<1>2. CASE op = "write" /\ pc' = "alloc" /\ UNCHANGED start
  <2>1. ControlOK' /\ LocalsOK'
    BY <1>1, <1>2 DEF IInv, TypeOK, ControlOK, LocalsOK
  <2>2. \A i \in Slot : Live(i)' => Live(i)
    BY <1>1, <1>2 DEF Live, Stale
  <2>3. first = FAT_END
    BY <1>1 DEF IInv, BuildingOK
  <2>. QED  BY <1>1, <1>2, <2>1, <2>2, <2>3, QuietInvariant
<1>3. CASE op = "edit" /\ pc' = "free" /\ start' = files[idx].first_block
  BY <1>1, <1>3, StartFreeing
<1>. QED  BY <1>2, <1>3 DEF EndInput

\* The answer to fs_delete starts free_chain or returns.
LEMMA AnswerInvariant == ASSUME IInv, NEW yes \in BOOLEAN, Answer(yes) PROVE IInv'
<1>1. pc = "confirm" /\ op = "delete" /\ UNCHANGED <<fat, blocks, files>>
  BY DEF Answer, IInv, TypeOK, ControlOK
<1>2. CASE /\ pc' = "free" /\ start' = files[idx].first_block
           /\ UNCHANGED <<op, idx, dst, tmp, chainVars, reply>>
  BY <1>1, <1>2, StartFreeing
<1>3. CASE Return("cancelled", <<>>)
  <2>1. \A i \in Slot : ~Stale(i)
    BY <1>1 DEF Stale
  <2>2. "cancelled" \in Messages
    BY DEF Messages
  <2>. QED  BY <1>1, <1>3, <2>1, <2>2, ReplyFacts, ReturnInvariant
<1>. QED  BY <1>2, <1>3 DEF Answer

\* A turn of free_chain frees a root nobody owns; its successor becomes one.
LEMMA FreeBlockInvariant == ASSUME IInv, FreeBlock PROVE IInv'
<1>1. /\ pc = "free" /\ Freeing /\ fat' = [fat EXCEPT ![start] = FAT_FREE]
      /\ start' = fat[start]
      /\ UNCHANGED <<blocks, files, pc, op, idx, dst, tmp, first, prev, written, reply>>
  BY DEF FreeBlock, chainVars
<1>2. /\ fat \in [Block -> Link] /\ start \in Block /\ start # FAT_FREE
      /\ start' \in Link
  <2>1. fat \in [Block -> Link] /\ start \in Link
    BY DEF IInv, TypeOK, ArraysOK, LocalsOK
  <2>2. start \in Block /\ start # FAT_FREE
    BY <1>1, <2>1, BlockFacts DEF Freeing
  <2>. QED  BY <1>1, <2>1, <2>2
<1>3. /\ fat' \in [Block -> Link] /\ fat'[start] = FAT_FREE
      /\ \A b \in Block : b # start => fat'[b] = fat[b]
  BY <1>1, <1>2, BlockFacts DEF Link
<1>4. ArraysOK' /\ ControlOK' /\ LocalsOK'
  BY <1>1, <1>2, <1>3 DEF IInv, TypeOK, ArraysOK, ControlOK, LocalsOK
<1>5. IsRoot(start) /\ \A i \in Slot : Live(i) => HeadOf(i) # start
  BY <1>1, <1>2 DEF IInv, FreeingOK
<1>6. \A b \in Block : IsLink(b)' => IsLink(b) /\ fat'[b] = fat[b] /\ b # start /\ fat[b] # start
  BY <1>3, <1>5, BlockFacts DEF IsLink, IsRoot
<1>7. \A h \in Block : h # start /\ IsRoot(h) => IsRoot(h)'
  BY <1>3, <1>6 DEF IsRoot, Allocated
<1>8. LinksAllocated' /\ LinksInjective'
  <2>1. LinksAllocated'
    BY <1>3, <1>6 DEF IInv, ChainsDisjoint, LinksAllocated, Allocated, IsLink
  <2>2. LinksInjective'
    BY <1>3, <1>6 DEF IInv, ChainsDisjoint, LinksInjective, IsLink
  <2>. QED  BY <2>1, <2>2
<1>9. \A i \in Slot : HeadOf(i)' = HeadOf(i) /\ (Live(i)' <=> Live(i))
  BY <1>1 DEF HeadOf, Live, Stale
<1>10. HeadsAreRoots' /\ HeadsDistinct'
  BY <1>5, <1>7, <1>9 DEF IInv, ChainsDisjoint, HeadsAreRoots, HeadsDistinct
<1>11. FreeingOK'
  <2> SUFFICES ASSUME start' \in Block, start' # FAT_FREE
               PROVE  IsRoot(start)' /\ \A i \in Slot : Live(i)' => HeadOf(i)' # start'
    BY DEF FreeingOK
  <2>1. IsLink(start) /\ start' # start
    BY <1>1, <1>2, <1>5 DEF IsLink, IsRoot
  <2>2. Allocated(start)'
    BY <1>1, <1>2, <1>3, <2>1 DEF IInv, ChainsDisjoint, LinksAllocated, Allocated
  <2>3. \A b \in Block : IsLink(b)' => fat'[b] # start'
    BY <1>1, <1>2, <1>6 DEF IInv, ChainsDisjoint, LinksInjective
  <2>4. \A i \in Slot : Live(i) => HeadOf(i) # start'
    BY <1>1, <1>2, <2>1 DEF IInv, ChainsDisjoint, HeadsAreRoots, IsRoot
  <2>. QED  BY <1>9, <2>2, <2>3, <2>4 DEF IsRoot
<1>12. (FreeSlotsClean /\ BuildingOK /\ SlotsOK /\ UniqueNames)'
  BY <1>1 DEF IInv, FreeSlotsClean, BuildingOK, SlotsOK, UniqueNames, HeadOf
<1>. QED  BY <1>4, <1>8, <1>10, <1>11, <1>12 DEF IInv, TypeOK, ChainsDisjoint

\* After free_chain fs_write makes its entry empty, so live again.
LEMMA FreedWriteInvariant == ASSUME IInv, FreedWrite PROVE IInv'
<1>1. /\ pc = "free" /\ op = "write" /\ pc' = "lines" /\ start' = FAT_END
      /\ files' = [files EXCEPT ![idx].first_block = FAT_END, ![idx].size = 0]
      /\ UNCHANGED <<fat, blocks, op, idx, dst, tmp, first, prev, written, reply>>
  BY DEF FreedWrite, chainVars
<1>2. idx \in Slot /\ files \in [Slot -> Entry]
  BY DEF IInv, TypeOK, ArraysOK, LocalsOK
<1>3. /\ files' \in [Slot -> Entry]
      /\ files'[idx].first_block = FAT_END /\ files'[idx].size = 0
      /\ \A i \in Slot : i # idx => files'[i] = files[i]
      /\ \A i \in Slot : /\ files'[i].used = files[i].used /\ files'[i].name = files[i].name
                         /\ files'[i].dir = files[i].dir
  BY <1>1, <1>2, BlockFacts DEF Entry
<1>4. ArraysOK' /\ ControlOK' /\ LocalsOK'
  BY <1>1, <1>3, BlockFacts DEF IInv, TypeOK, ArraysOK, ControlOK, LocalsOK
<1>5. \A i \in Slot : Live(i)' => HeadOf(i)' = FAT_END \/ (Live(i) /\ HeadOf(i)' = HeadOf(i))
  BY <1>1, <1>2, <1>3 DEF Live, Stale, HeadOf
<1>6. \A i, j \in Slot : Live(i)' /\ Live(j)' /\ HeadOf(i)' \in Block /\ HeadOf(i)' = HeadOf(j)' => i = j
  BY <1>5, BlockFacts DEF IInv, ChainsDisjoint, HeadsDistinct
<1>7. \A h : IsRoot(h)' <=> IsRoot(h)
  BY <1>1 DEF IsRoot, IsLink, Allocated
<1>8. ChainsDisjoint'
  <2>1. LinksAllocated' /\ LinksInjective'
    BY <1>1 DEF IInv, ChainsDisjoint, LinksAllocated, LinksInjective, IsLink, Allocated
  <2>2. HeadsAreRoots' /\ HeadsDistinct'
    BY <1>5, <1>6, <1>7, BlockFacts DEF IInv, ChainsDisjoint, HeadsAreRoots, HeadsDistinct
  <2>. QED  BY <2>1, <2>2 DEF ChainsDisjoint
<1>9. FreeSlotsClean' /\ UniqueNames'
  BY <1>2, <1>3 DEF IInv, FreeSlotsClean, UniqueNames, HeadOf
<1>10. BuildingOK' /\ FreeingOK'
  BY <1>1 DEF IInv, BuildingOK, FreeingOK
<1>11. SlotsOK'
  BY <1>1, <1>2, <1>3 DEF IInv, SlotsOK, HeadOf
<1>. QED  BY <1>4, <1>8, <1>9, <1>10, <1>11 DEF IInv, TypeOK

\* After free_chain fs_edit keeps its entry stale and starts a new chain.
LEMMA FreedEditInvariant == ASSUME IInv, FreedEdit PROVE IInv'
<1>1. /\ pc = "free" /\ op = "edit" /\ pc' = "alloc" /\ start' = FAT_END
      /\ UNCHANGED <<fat, blocks, files, op, idx, dst, tmp, first, prev, written, reply>>
  BY DEF FreedEdit, chainVars
<1>2. ControlOK' /\ LocalsOK'
  BY <1>1, BlockFacts DEF IInv, TypeOK, ControlOK, LocalsOK
<1>3. \A i \in Slot : Live(i)' => Live(i)
  BY <1>1 DEF Live, Stale
<1>4. first = FAT_END
  BY <1>1 DEF IInv, BuildingOK
<1>. QED  BY <1>1, <1>2, <1>3, <1>4, QuietInvariant

\* A command that returns after changing one entry k: k is clean if unused, and
\* otherwise owns a chain no other live entry owns and a name of its own.
LEMMA SettleInvariant ==
  ASSUME IInv, NEW m \in Messages, NEW t \in Seq(Byte), Return(m, t),
         UNCHANGED <<fat, blocks>>, NEW k \in Slot, files' \in [Slot -> Entry],
         \A j \in Slot : j # k => files'[j] = files[j] /\ ~Stale(j),
         files'[k].used = 0 => files'[k].first_block = FAT_END /\ files'[k].size = 0,
         files'[k].used = 1 /\ files'[k].first_block \in Block =>
           /\ IsRoot(files'[k].first_block)
           /\ \A j \in Slot : j # k /\ Live(j) => HeadOf(j) # files'[k].first_block,
         files'[k].used = 1 =>
           \A j \in Slot : j # k /\ files[j].used = 1 =>
             ~(files[j].name = files'[k].name /\ files[j].dir = files'[k].dir)
  PROVE  IInv'
<1>1. ArraysOK'
  BY DEF IInv, TypeOK, ArraysOK
<1>2. \A j \in Slot : j # k => HeadOf(j)' = HeadOf(j) /\ (Live(j)' => Live(j))
  BY ReturnFacts DEF Live, HeadOf
<1>3. HeadOf(k)' = files'[k].first_block /\ (Live(k)' => files'[k].used = 1)
  BY DEF Live, HeadOf
<1>4. \A h : IsRoot(h)' <=> IsRoot(h)
  BY DEF IsRoot, IsLink, Allocated
<1>5. LinksAllocated' /\ LinksInjective'
  BY DEF IInv, ChainsDisjoint, LinksAllocated, LinksInjective, IsLink, Allocated
<1>6. HeadsAreRoots'
  BY <1>2, <1>3, <1>4 DEF IInv, ChainsDisjoint, HeadsAreRoots
<1>7. HeadsDistinct'
  BY <1>2, <1>3, ZenonT(60) DEF IInv, ChainsDisjoint, HeadsDistinct
<1>8. FreeSlotsClean'
  BY DEF IInv, FreeSlotsClean, HeadOf
<1>9. UniqueNames'
  BY ZenonT(60) DEF IInv, UniqueNames
<1>. QED  BY <1>1, <1>5, <1>6, <1>7, <1>8, <1>9, ReturnFacts DEF IInv, TypeOK, ChainsDisjoint

\* After free_chain fs_delete leaves a clean unused slot.
LEMMA FreedDeleteInvariant == ASSUME IInv, FreedDelete PROVE IInv'
<1>1. files' = [files EXCEPT ![idx] = [@ EXCEPT !.used = 0, !.size = 0,
                                                !.first_block = FAT_END, !.name = ""]]
  BY DEF FreedDelete
<1>2. Return("deleted", <<>>) /\ UNCHANGED <<fat, blocks>>
  BY DEF FreedDelete
<1>3. idx \in Slot /\ files \in [Slot -> Entry]
  BY DEF IInv, TypeOK, ArraysOK, LocalsOK
<1>4. /\ files' \in [Slot -> Entry]
      /\ \A i \in Slot : i # idx => files'[i] = files[i]
  <2>1. PICK e : e = [files[idx] EXCEPT !.used = 0, !.size = 0,
                                        !.first_block = FAT_END, !.name = ""]
    OBVIOUS
  <2>2. files' = [files EXCEPT ![idx] = e]
    BY <1>1, <1>3, <2>1
  <2>3. e \in Entry
    BY <1>3, <2>1, BlockFacts DEF Entry
  <2>. QED  BY <1>3, <2>2, <2>3
<1>5. files'[idx].used = 0 /\ files'[idx].first_block = FAT_END /\ files'[idx].size = 0
  BY <1>1, <1>3, BlockFacts DEF Entry
<1>6. \A j \in Slot : j # idx => files'[j] = files[j] /\ ~Stale(j)
  BY <1>4 DEF Stale
<1>7. "deleted" \in Messages
  BY DEF Messages
<1>8. files'[idx].used # 1
  BY <1>5
<1>. QED  BY <1>2, <1>3, <1>4, <1>5, <1>6, <1>7, <1>8, ReplyFacts, SettleInvariant

\* A turn of write_to_blocks appends a free block to the chain being built;
\* the block is not 0 unless it is the first, since block 0 is then taken.
LEMMA WriteBlockInvariant == ASSUME IInv, WriteBlock PROVE IInv'
<1> DEFINE chunk == Chunk(Len(tmp) - written)
<1>0. PICK blk : blk = alloc_block
  OBVIOUS
<1>1. /\ pc = "alloc" /\ written < Len(tmp) /\ blk # FS_N_BLOCKS
      /\ fat' = [b \in Block |-> IF b = blk THEN FAT_END ELSE IF b = prev THEN blk ELSE fat[b]]
      /\ blocks' = [blocks EXCEPT ![blk] =
                      [j \in 0 .. (FS_BLOCK_SIZE - 1) |->
                         IF j < chunk THEN tmp[written + j + 1] ELSE @[j]]]
      /\ first' = IF first = FAT_END THEN blk ELSE first
      /\ prev' = blk /\ written' = written + chunk
      /\ UNCHANGED <<files, pc, op, idx, dst, start, tmp, reply>>
  BY <1>0 DEF WriteBlock
<1>2. /\ blk \in Block /\ fat[blk] = FAT_FREE
      /\ \A b \in Block : fat[b] = FAT_FREE => blk <= b
  BY <1>0, <1>1, AllocBlock DEF IInv
<1>3. /\ fat \in [Block -> Link] /\ tmp \in Seq(Byte) /\ Len(tmp) \in Nat /\ written \in Nat
      /\ first \in Link /\ prev \in Link
  <2>1. tmp \in Seq(Byte)
    BY DEF IInv, TypeOK, LocalsOK
  <2>2. Len(tmp) \in Nat
    BY <2>1
  <2>. QED  BY <2>1, <2>2 DEF IInv, TypeOK, ArraysOK, LocalsOK
<1>4. chunk \in Nat /\ written + chunk <= Len(tmp)
  BY <1>1, <1>3, SizeAssumption DEF Chunk
<1> HIDE DEF chunk
<1>5. blocks' \in [Block -> [0 .. (FS_BLOCK_SIZE - 1) -> Byte]]
  <2>1. blocks \in [Block -> [0 .. (FS_BLOCK_SIZE - 1) -> Byte]]
    BY DEF IInv, TypeOK, ArraysOK
  <2>2. \A j \in 0 .. (FS_BLOCK_SIZE - 1) : j < chunk => tmp[written + j + 1] \in Byte
    <3> SUFFICES ASSUME NEW j \in 0 .. (FS_BLOCK_SIZE - 1), j < chunk
                 PROVE  tmp[written + j + 1] \in Byte
      OBVIOUS
    <3>1. written + j + 1 \in 1 .. Len(tmp)
      BY <1>3, <1>4, SizeAssumption
    <3>. QED  BY <1>3, <3>1
  <2>. QED  BY <1>1, <1>2, <2>1, <2>2
<1>6. fat' \in [Block -> Link] /\ ArraysOK'
  BY <1>1, <1>2, <1>3, <1>5, BlockFacts DEF IInv, TypeOK, ArraysOK, Link
<1>7. ControlOK' /\ LocalsOK'
  <2>1. first' \in Link /\ prev' \in Link /\ written' \in Nat
    BY <1>1, <1>2, <1>3, <1>4 DEF Link
  <2>. QED  BY <1>1, <2>1 DEF IInv, TypeOK, ControlOK, LocalsOK
<1>8. /\ first \in Block => /\ IsRoot(first) /\ \A i \in Slot : Live(i) => HeadOf(i) # first
                            /\ prev \in Block /\ fat[prev] = FAT_END /\ Allocated(0)
      /\ first \notin Block => first = FAT_END /\ prev = FAT_END
  BY <1>1 DEF IInv, BuildingOK
\* What the two assignments to fat[] do to links, allocation and roots.
<1>9. /\ \A b \in Block : Allocated(b) => b # blk
      /\ \A b \in Block : Allocated(b)' <=> Allocated(b) \/ b = blk
  BY <1>1, <1>2, <1>3, <1>8, BlockFacts DEF Allocated
<1>10. /\ \A b \in Block : IsLink(b)' => \/ IsLink(b) /\ b # prev /\ fat'[b] = fat[b] /\ fat[b] # blk
                                         \/ b = prev /\ fat'[b] = blk /\ first \in Block
  BY <1>1, <1>2, <1>3, <1>8, <1>9, BlockFacts
     DEF IInv, ChainsDisjoint, LinksAllocated, IsLink
<1>11. \A h \in Block : IsRoot(h) => IsRoot(h)' /\ h # blk
  BY <1>9, <1>10 DEF IsRoot
<1>12. LinksAllocated'
  <2> SUFFICES ASSUME NEW b \in Block, IsLink(b)' PROVE Allocated(fat[b])'
    BY DEF LinksAllocated
  <2>1. fat'[b] \in Block
    BY DEF IsLink
  <2>. QED  BY <1>2, <1>9, <1>10, <2>1 DEF IInv, ChainsDisjoint, LinksAllocated
<1>13. LinksInjective'
  <2> SUFFICES ASSUME NEW b \in Block, NEW c \in Block, IsLink(b)', fat'[b] = fat'[c]
               PROVE  b = c
    BY DEF LinksInjective
  <2>1. IsLink(c)'
    BY DEF IsLink
  <2>. QED  BY <1>10, <2>1 DEF IInv, ChainsDisjoint, LinksInjective
<1>14. \A i \in Slot : HeadOf(i)' = HeadOf(i) /\ (Live(i)' <=> Live(i))
  BY <1>1 DEF HeadOf, Live, Stale
<1>15. HeadsAreRoots' /\ HeadsDistinct'
  BY <1>11, <1>14 DEF IInv, ChainsDisjoint, HeadsAreRoots, HeadsDistinct
<1>16. BuildingOK'
  <2>1. /\ pc' = "alloc" /\ first' \in Block /\ prev' \in Block /\ fat'[prev'] = FAT_END
    BY <1>1, <1>2, <1>3, <1>8, BlockFacts
  <2>2. Allocated(0)'
    BY <1>2, <1>8, <1>9, BlockFacts, SizeAssumption DEF Allocated, Block
  <2>3. CASE first \in Block
    BY <1>1, <1>8, <1>11, <1>14, <2>1, <2>2, <2>3, BlockFacts DEF BuildingOK
  <2>4. CASE first = FAT_END
    <3>1. first' = blk
      BY <1>1, <2>4
    <3>2. IsRoot(blk)'
      BY <1>2, <1>8, <1>9, <1>10, <2>4, BlockFacts DEF IsRoot
    <3>3. \A i \in Slot : Live(i) => HeadOf(i) # blk
      BY <1>2, <1>11 DEF IInv, ChainsDisjoint, HeadsAreRoots
    <3>. QED  BY <1>14, <2>1, <2>2, <3>1, <3>2, <3>3 DEF BuildingOK, IsRoot
  <2>. QED  BY <1>3, <2>3, <2>4, BlockFacts
<1>17. (FreeSlotsClean /\ FreeingOK /\ SlotsOK /\ UniqueNames)'
  BY <1>1 DEF IInv, FreeSlotsClean, FreeingOK, SlotsOK, UniqueNames, HeadOf
<1>. QED  BY <1>6, <1>7, <1>12, <1>13, <1>15, <1>16, <1>17 DEF IInv, TypeOK, ChainsDisjoint

\* When no block is free no entry keeps a stale head: the partial chain is
\* abandoned, rooted and owned by nobody.
LEMMA DiskFullInvariant == ASSUME IInv, DiskFull PROVE IInv'
<1>1. pc = "alloc" /\ Return("disk full", <<>>) /\ UNCHANGED <<fat, blocks>>
  BY DEF DiskFull
<1>2. idx \in Slot /\ files \in [Slot -> Entry]
  BY DEF IInv, TypeOK, ArraysOK, LocalsOK
<1>3. "disk full" \in Messages
  BY DEF Messages
<1>4. \A j \in Slot : j # idx => ~Stale(j)
  BY DEF Stale
<1>5. CASE op = "write" /\ files' = [files EXCEPT ![idx].used = 0]
  <2>1. /\ files' \in [Slot -> Entry] /\ \A j \in Slot : j # idx => files'[j] = files[j]
        /\ files'[idx].used = 0 /\ files'[idx].size = files[idx].size
        /\ files'[idx].first_block = files[idx].first_block
    BY <1>2, <1>5 DEF Entry
  <2>2. files[idx].first_block = FAT_END /\ files[idx].size = 0
    BY <1>1, <1>5 DEF IInv, SlotsOK, HeadOf
  <2>3. files'[idx].used # 1
    BY <2>1
  <2>. QED  BY <1>1, <1>2, <1>3, <1>4, <2>1, <2>2, <2>3, ReplyFacts, SettleInvariant
<1>6. CASE op = "edit" /\ files' = [files EXCEPT ![idx].first_block = FAT_END, ![idx].size = 0]
  <2>1. /\ files' \in [Slot -> Entry] /\ \A j \in Slot : j # idx => files'[j] = files[j]
        /\ files'[idx].used = files[idx].used /\ files'[idx].size = 0
        /\ files'[idx].first_block = FAT_END
        /\ files'[idx].name = files[idx].name /\ files'[idx].dir = files[idx].dir
    BY <1>2, <1>6, BlockFacts DEF Entry
  <2>2. \A j \in Slot : j # idx /\ files'[idx].used = 1 /\ files[j].used = 1 =>
          ~(files[j].name = files'[idx].name /\ files[j].dir = files'[idx].dir)
    BY <1>2, <2>1 DEF IInv, UniqueNames
  <2>3. files'[idx].first_block \notin Block
    BY <2>1, BlockFacts
  <2>. QED  BY <1>1, <1>2, <1>3, <1>4, <2>1, <2>2, <2>3, ReplyFacts, SettleInvariant
<1>7. CASE op = "copy" /\ UNCHANGED files
  <2>1. \A j \in Slot : ~Stale(j)
    BY <1>1, <1>7 DEF Stale
  <2>. QED  BY <1>1, <1>3, <1>7, <2>1, ReplyFacts, ReturnInvariant
<1>. QED  BY <1>5, <1>6, <1>7 DEF DiskFull

\* The finished chain gets exactly one owner.
LEMMA CommitInvariant == ASSUME IInv, Commit PROVE IInv'
<1>1. pc = "alloc" /\ Return("ok", <<>>) /\ UNCHANGED <<fat, blocks>>
  BY DEF Commit
<1>2. /\ idx \in Slot /\ files \in [Slot -> Entry] /\ first \in Link
      /\ dst \in [slot : Slot, name : Names \cup {""}, dir : Dirs \cup {""}]
  BY DEF IInv, TypeOK, ArraysOK, LocalsOK
<1>3. Len(tmp) \in Nat
  <2>1. tmp \in Seq(Byte)
    BY DEF IInv, TypeOK, LocalsOK
  <2>. QED  BY <2>1
<1>4. "ok" \in Messages
  BY DEF Messages
<1>5. first \in Block => IsRoot(first) /\ \A j \in Slot : Live(j) => HeadOf(j) # first
  BY <1>1 DEF IInv, BuildingOK
<1>6. PICK total : total = Len(tmp)
  OBVIOUS
<1>7. CASE /\ op = "copy"
           /\ files' = [files EXCEPT ![dst.slot] =
                         [used |-> 1, name |-> dst.name, dir |-> dst.dir,
                          first_block |-> first, size |-> total]]
  <2>1. PICK k \in Slot : k = dst.slot
    BY <1>2
  <2>2. PICK e : e = [used |-> 1, name |-> dst.name, dir |-> dst.dir,
                      first_block |-> first, size |-> total]
    OBVIOUS
  <2>3. e \in Entry
    BY <1>2, <1>3, <1>6, <2>2 DEF Entry
  <2>4. /\ files' \in [Slot -> Entry] /\ files'[k] = e
        /\ \A j \in Slot : j # k => files'[j] = files[j]
    BY <1>2, <1>7, <2>1, <2>2, <2>3
  <2>5. files'[k].used = 1 /\ files'[k].first_block = first
    <3>1. e.used = 1 /\ e.first_block = first
      BY <2>2
    <3>. QED  BY <2>4, <3>1
  <2>6. \A j \in Slot : ~Stale(j)
    BY <1>1, <1>7 DEF Stale
  <2>7. \A j \in Slot : files[j].used = 1 =>
          ~(files[j].name = files'[k].name /\ files[j].dir = files'[k].dir)
    BY <1>7, <2>2, <2>4 DEF IInv, SlotsOK
  <2>8. files'[k].used # 0
    BY <2>5
  <2>9. files'[k].first_block \in Block =>
          /\ IsRoot(files'[k].first_block)
          /\ \A j \in Slot : Live(j) => HeadOf(j) # files'[k].first_block
    BY <1>5, <2>5
  <2>. QED  BY <1>1, <1>4, <2>4, <2>6, <2>7, <2>8, <2>9, ReplyFacts, SettleInvariant
<1>8. CASE /\ op # "copy"
           /\ files' = [files EXCEPT ![idx].first_block = first, ![idx].size = total]
  <2>1. /\ files' \in [Slot -> Entry] /\ \A j \in Slot : j # idx => files'[j] = files[j]
        /\ files'[idx].used = files[idx].used /\ files'[idx].first_block = first
        /\ files'[idx].name = files[idx].name /\ files'[idx].dir = files[idx].dir
    <3>1. total \in Nat /\ files[idx] \in Entry
      BY <1>2, <1>3, <1>6
    <3>2. PICK e : e = [files[idx] EXCEPT !.first_block = first, !.size = total]
      OBVIOUS
    <3>3. /\ e \in Entry /\ e.used = files[idx].used /\ e.first_block = first
          /\ e.name = files[idx].name /\ e.dir = files[idx].dir
      BY <1>2, <3>1, <3>2 DEF Entry
    <3>4. files' = [files EXCEPT ![idx] = e]
      BY <1>2, <1>8, <3>2
    <3>. QED  BY <1>2, <3>3, <3>4
  <2>2. files'[idx].used = 1
    BY <1>1, <2>1 DEF IInv, TypeOK, ControlOK, SlotsOK
  <2>3. \A j \in Slot : j # idx /\ files[j].used = 1 =>
          ~(files[j].name = files'[idx].name /\ files[j].dir = files'[idx].dir)
    BY <1>2, <2>1, <2>2 DEF IInv, UniqueNames
  <2>4. \A j \in Slot : j # idx => ~Stale(j)
    BY DEF Stale
  <2>5. files'[idx].used # 0
    BY <2>2
  <2>6. files'[idx].first_block \in Block =>
          /\ IsRoot(files'[idx].first_block)
          /\ \A j \in Slot : Live(j) => HeadOf(j) # files'[idx].first_block
    BY <1>5, <2>1
  <2>. QED  BY <1>1, <1>2, <1>4, <2>1, <2>3, <2>4, <2>5, <2>6, ReplyFacts, SettleInvariant
<1>. QED  BY <1>6, <1>7, <1>8 DEF Commit

(***************************************************************************)
(* The theorems                                                            *)
(***************************************************************************)
\* Every step of the file system keeps the invariant.
LEMMA NextInvariant == ASSUME IInv, [Next]_vars PROVE IInv'
<1>1. CASE UNCHANGED vars
  <2>1. UNCHANGED <<fat, blocks, files, pc, op, idx, dst, start, tmp, first, prev, written, reply>>
    BY <1>1 DEF vars, chainVars
  <2>2. ControlOK' /\ LocalsOK'
    BY <2>1 DEF IInv, TypeOK, ControlOK, LocalsOK
  <2>3. (ArraysOK /\ ChainsDisjoint)'
    BY <2>1 DEF IInv, TypeOK, ArraysOK, ChainsDisjoint, LinksAllocated, LinksInjective,
                HeadsAreRoots, HeadsDistinct, IsRoot, IsLink, Allocated, Live, Stale, HeadOf
  <2>4. (FreeSlotsClean /\ BuildingOK /\ FreeingOK /\ SlotsOK /\ UniqueNames)'
    BY <2>1 DEF IInv, FreeSlotsClean, BuildingOK, FreeingOK, SlotsOK, UniqueNames,
                HeadOf, Live, Stale, IsRoot, IsLink, Allocated
  <2>. QED  BY <2>2, <2>3, <2>4 DEF IInv, TypeOK
<1>2. CASE Command
  <2>1. Usage => IInv'
    BY RefuseInvariant DEF Usage, Messages
  <2>. QED  BY <1>2, <2>1, WriteInvariant, ReadInvariant, RenameInvariant, CopyInvariant DEF Command
<1>3. CASE Typing
  BY <1>3, TypeLineInvariant, EndInputInvariant, AnswerInvariant DEF Typing
<1>4. CASE Loop
  BY <1>4, GatherBlockInvariant, GatheredInvariant, FreeBlockInvariant, FreedWriteInvariant,
     FreedEditInvariant, FreedDeleteInvariant, WriteBlockInvariant, DiskFullInvariant,
     CommitInvariant DEF Loop
<1>. QED  BY <1>1, <1>2, <1>3, <1>4 DEF Next

\* IInv holds in every reachable state of fs.c, for every size of the arrays.
THEOREM InductiveInvariant == Spec => []IInv
BY InitInvariant, NextInvariant, PTL DEF Spec

\* Every fs_* command leaves fat[], blocks[] and files[] within their C types
\* and bounds: links and first_block are blocks of the disk or FAT_END.
THEOREM TypeCorrectness == Spec => []TypeOK
<1>1. IInv => TypeOK
  BY DEF IInv
<1>. QED  BY <1>1, InductiveInvariant, PTL

\* Whatever sequence of write, edit, copy, rename and delete runs, including
\* those that end in disk full, no two files ever share a block: links are
\* injective, and heads are distinct roots.
THEOREM DisjointChains == Spec => []ChainsDisjoint
<1>1. IInv => ChainsDisjoint
  BY DEF IInv
<1>. QED  BY <1>1, InductiveInvariant, PTL

\* find_file is a function: files[] never holds a name twice in a directory.
THEOREM NamesUnique == Spec => []UniqueNames
<1>1. IInv => UniqueNames
  BY DEF IInv
<1>. QED  BY <1>1, InductiveInvariant, PTL
=============================================================================
