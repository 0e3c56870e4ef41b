----------------------------- MODULE FatFsStore -----------------------------
(***************************************************************************)
(* FatFs implements FileStore: the text of a file is what its chain holds. *)
(* The chain walks here are recursive functions, for TLC only.             *)
(***************************************************************************)
EXTENDS FatFs

\* The blocks fs_read visits from h, in order, and the bytes it prints.
ChainFrom(h) ==
  LET walk[b \in Link, fuel \in 0 .. FS_N_BLOCKS] ==
        IF b \in Block /\ fuel > 0 THEN {b} \cup (IF IsLink(b) THEN walk[fat[b], fuel - 1] ELSE {})
        ELSE {}
  IN walk[h, FS_N_BLOCKS]

TextFrom(h, size) ==
  LET walk[b \in Link, left \in 0 .. size] ==
        IF b \in Block /\ left > 0
          THEN [j \in 1 .. Chunk(left) |-> blocks[b][j - 1]] \o walk[fat[b], left - Chunk(left)]
          ELSE <<>>
  IN walk[h, size]

(***************************************************************************)
(* The refinement mapping                                                  *)
(***************************************************************************)
KeyOf(i) == <<files[i].name, files[i].dir>>

\* A file being overwritten is empty from the start of fs_write; one being
\* edited has its old text, the front of tmp, until the new one is committed.
TextOf(i) ==
  CASE i = idx /\ op = "write" -> <<>>
    [] i = idx /\ op = "edit" /\ pc # "gather" -> SubSeq(tmp, 1, files[i].size)
    [] OTHER -> TextFrom(HeadOf(i), files[i].size)

\* A confirmed fs_delete has removed the file.
Visible == {i \in Slot : files[i].used = 1 /\ ~(i = idx /\ op = "delete" /\ pc = "free")}

Store == INSTANCE FileStore WITH
  MaxFiles <- FS_MAX_FILES, MaxText <- Capacity, Newline <- NL,
  store <- [k \in {KeyOf(i) : i \in Visible} |->
              TextOf(CHOOSE i \in Visible : KeyOf(i) = k)],
  cmd <- op,
  key <- CASE op = "none" -> <<"", "">>
           [] op = "copy" -> <<dst.name, dst.dir>>
           [] OTHER -> KeyOf(idx),
  buf <- IF pc = "gather" THEN TextOf(idx) ELSE tmp,
  result <- reply

\* Every file command does what FileStore promises: fread prints exactly the
\* lines fwrite and fedit accepted or copy copied, and no command changes the
\* text of a file it does not name, whatever blocks were reused in between.
ImplementsStore == Store!Spec

(***************************************************************************)
(* Accounting of blocks                                                    *)
(***************************************************************************)
\* A file's chain has exactly the blocks its size needs, so the copy loops of
\* fs_read, fs_edit and fs_copy never run off the chain.
ChainMatchesSize ==
  \A i \in Slot : Live(i) =>
    LET room == FS_BLOCK_SIZE * Cardinality(ChainFrom(HeadOf(i)))
    IN files[i].size <= room /\ room < files[i].size + FS_BLOCK_SIZE

Owned ==
  UNION {ChainFrom(HeadOf(i)) : i \in {j \in Slot : Live(j)}}
    \cup (IF pc = "alloc" THEN ChainFrom(first) ELSE {})
    \cup (IF pc = "free" THEN ChainFrom(start) ELSE {})

\* Allocated blocks that no file and no running command can reach.
Leaked == {b \in Block : Allocated(b)} \ Owned

\* Blocks are lost in two ways only, and lost for good: free_chain does nothing
\* for a chain that begins at block 0, and write_to_blocks abandons the chain
\* it has built when the disk is full.
LeaksOnlyAtBlockZeroOrDiskFull ==
  [][/\ Leaked \subseteq Leaked'
     /\ Leaked' # Leaked =>
          \/ pc = "free" /\ start = 0 /\ pc' # "free"
          \/ reply'.msg = "disk full"]_vars

\* fs.h on fs_delete: "On 'y', frees all FAT blocks and clears the directory
\* slot."  When free_chain returns to fs_delete the file's head is free.
DeleteFreesChain ==
  pc = "free" /\ op = "delete" /\ ~Freeing /\ HeadOf(idx) \in Block => ~Allocated(HeadOf(idx))
=============================================================================
