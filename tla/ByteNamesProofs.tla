-------------------------- MODULE ByteNamesProofs --------------------------
(***************************************************************************)
(* For every length of the arrays, every table size and every set of names *)
(* and arguments: strings that fit their array are found again whatever    *)
(* unterminated ones stand beside them, and build_path overruns only in a  *)
(* current directory whose path fills its row.                             *)
(***************************************************************************)
EXTENDS ByteNames, TLAPS, WellFoundedInduction, SequenceTheorems

(***************************************************************************)
(* Strings and arrays                                                      *)
(***************************************************************************)
String == Seq(Chars)

\* kstrncpy copies what fits; a string that fits is copied whole.
LEMMA Copied ==
  ASSUME NEW s \in String, NEW n \in Nat
  PROVE  /\ kstrncpy(s, n) \in String
         /\ Len(kstrncpy(s, n)) = IF Len(s) < n THEN Len(s) ELSE n
         /\ Len(s) <= n => kstrncpy(s, n) = s
<1> DEFINE m == IF Len(s) < n THEN Len(s) ELSE n
<1>1. m \in Nat /\ m <= Len(s) /\ \A i \in 1 .. m : s[i] \in Chars
  BY DEF String
<1> HIDE DEF m
<1>2. SubSeq(s, 1, m) \in Seq(Chars) /\ Len(SubSeq(s, 1, m)) = m
  BY <1>1, SubSeqProperties
<1>3. Len(s) <= n => SubSeq(s, 1, m) = s
  BY SubSeqFull DEF String, m
<1> QED
  BY <1>2, <1>3 DEF kstrncpy, m, String

\* Constants of the code as strings.
LEMMA Constants ==
  /\ Slash \in String /\ Len(Slash) = 1
  /\ \A b \in Bytes : b \in String /\ Len(b) <= 1
<1>1. "/" \in Chars /\ "?" \in Chars
  BY ByteAssumption
<1>2. <<"/">> \in Seq(Chars) /\ Len(<<"/">>) = 1
  BY <1>1
<1>3. <<"?">> \in Seq(Chars) /\ Len(<<"?">>) = 1
  BY <1>1
<1>4. <<>> \in Seq(Chars) /\ Len(<<>>) = 0
  BY EmptySeq
<1> QED
  BY <1>2, <1>3, <1>4 DEF Slash, Bytes, String

\* What is read from an array is a string; an array with its '\0' is read as
\* it is, and one without reads at least as long as the array, and begins with
\* what the array holds.
LEMMA ReadArray ==
  ASSUME NEW a \in Array, NEW next \in String
  PROVE  /\ Read(a, next) \in String
         /\ Len(a) < LEN => Read(a, next) = a
         /\ ~(Len(a) < LEN) => Len(Read(a, next)) >= LEN
         /\ kstrncpy(Read(a, next), LEN) = a
<1>1. LEN \in Nat /\ a \in Seq(Chars) /\ Len(a) \in Nat /\ Len(a) <= LEN /\ next \in Seq(Chars) /\ Len(next) \in Nat
  BY ByteAssumption DEF Array, String
<1>2. CASE Len(a) < LEN
  <2>1. kstrncpy(a, LEN) = a
    BY <1>1, Copied DEF String
  <2> QED
    BY <1>1, <1>2, <2>1 DEF Read, String
<1>3. CASE ~(Len(a) < LEN)
  <2>1. Len(a) = LEN
    BY <1>1, <1>3
  <2>2. a \o next \in Seq(Chars) /\ Len(a \o next) = Len(a) + Len(next)
    BY <1>1, ConcatProperties
  <2>3. SubSeq(a \o next, 1, LEN) = a
    <3>1. SubSeq(a \o next, 1, Len(a)) = SubSeq(a, 1, Len(a))
      BY <1>1, SubSeqOfConcat1
    <3> QED
      BY <3>1, <1>1, <2>1, SubSeqFull
  <2>4. kstrncpy(a \o next, LEN) = a
    BY <1>1, <2>1, <2>2, <2>3 DEF kstrncpy
  <2> QED
    BY <1>1, <1>3, <2>1, <2>2, <2>4 DEF Read, String
<1> QED
  BY <1>2, <1>3

\* A position in q whole rows of L characters lies in one of them.
LEMMA Division ==
  ASSUME NEW a \in Nat, NEW L \in Nat \ {0}, NEW q \in Nat, a < q * L
  PROVE  a \div L \in 0 .. (q - 1) /\ a % L \in 0 .. (L - 1)
<1>1. a % L \in 0 .. (L - 1)
  OBVIOUS
<1>2. a \div L \in Nat /\ (a \div L) * L <= a
  OBVIOUS
<1>3. PICK d \in Nat : d = a \div L /\ d * L <= a
  BY <1>2
<1>4. ~(d >= q)
  <2>1. SUFFICES ASSUME d >= q PROVE FALSE
    OBVIOUS
  <2>2. d * L >= q * L
    BY <2>1
  <2> QED
    BY <2>2, <1>3
<1> QED
  BY <1>1, <1>3, <1>4

\* A non-empty set of indices has a least element.
LEMMA Least ==
  ASSUME NEW S, S \subseteq Nat, S # {}
  PROVE  \E x \in S : \A y \in S : x <= y
<1> DEFINE Less == OpToRel(<, Nat)
<1>1. PICK x \in S : \A y \in S : ~(<<y, x>> \in Less)
  BY NatLessThanWellFounded, WFMin
<1>2. ASSUME NEW y \in S, y < x
      PROVE  <<y, x>> \in Less
  <2>1. <<y, x>> \in Nat \X Nat
    OBVIOUS
  <2> QED
    BY <2>1, <1>2 DEF OpToRel
<1> HIDE DEF Less
<1>3. \A y \in S : ~(y < x)
  BY <1>1, <1>2
<1> QED
  BY <1>3

\* The memory from any row on is a string: whole rows up to the first one that
\* has its '\0', or up to the byte after the table.
LEMMA BehindIsString ==
  ASSUME TypeOK, NEW i \in 1 .. DIR_MAX
  PROVE  Behind(i) \in String
<1> DEFINE Stop(k) == /\ k = DIR_MAX \/ Len(dirs[k]) < LEN
                      /\ \A j \in i .. (k - 1) : Len(dirs[j]) >= LEN
           end == CHOOSE k \in i .. DIR_MAX : Stop(k)
           whole == (end - i) * LEN
           last == IF end = DIR_MAX THEN noise.bss ELSE dirs[end]
           Char(m) == IF m <= whole THEN dirs[i + (m - 1) \div LEN][((m - 1) % LEN) + 1]
                                    ELSE last[m - whole]
<1>1. LEN \in Nat \ {0} /\ DIR_MAX \in Nat /\ i \in Nat /\ i <= DIR_MAX
  BY ByteAssumption
<1>2. \A k \in DirSlot : dirs[k] \in Seq(Chars) /\ Len(dirs[k]) \in Nat /\ Len(dirs[k]) <= LEN
  BY DEF TypeOK, Array
<1>3. \E k \in i .. DIR_MAX : Stop(k)
  <2> DEFINE S == {k \in i .. DIR_MAX : k = DIR_MAX \/ Len(dirs[k]) < LEN}
  <2>1. S \subseteq Nat /\ DIR_MAX \in S
    BY <1>1
  <2>2. PICK k \in S : \A j \in S : k <= j
    BY <2>1, Least
  <2>3. ASSUME NEW j \in i .. (k - 1) PROVE Len(dirs[j]) >= LEN
    <3>1. j \in i .. DIR_MAX /\ j < k /\ j \in DirSlot
      BY <1>1, <2>1 DEF DirSlot
    <3>2. j \notin S
      BY <2>2, <3>1, <2>1
    <3> QED
      BY <3>1, <3>2, <1>1, <1>2
  <2> QED
    BY <2>2, <2>3
<1>4. end \in i .. DIR_MAX /\ Stop(end)
  BY <1>3
<1> HIDE DEF end
<1>5. whole \in Nat
  <2>1. end - i \in Nat
    BY <1>1, <1>4
  <2> QED
    BY <2>1, <1>1
<1>6. last \in Seq(Chars) /\ Len(last) \in Nat
  <2>1. noise.bss \in Seq(Chars)
    BY Constants DEF TypeOK, Noise, String
  <2>2. end # DIR_MAX => end \in DirSlot
    BY <1>1, <1>4 DEF DirSlot
  <2> QED
    BY <2>1, <2>2, <1>2
<1> HIDE DEF last
<1>7. ASSUME NEW m \in 1 .. (whole + Len(last)) PROVE Char(m) \in Chars
  <2>1. CASE m <= whole
    <3>1. PICK d, r : d = (m - 1) \div LEN /\ r = (m - 1) % LEN
      OBVIOUS
    <3>2. m - 1 \in Nat /\ m - 1 < (end - i) * LEN /\ end - i \in Nat
      BY <2>1, <1>1, <1>4, <1>5
    <3>3. d \in 0 .. (end - i - 1) /\ r \in 0 .. (LEN - 1)
      BY <3>1, <3>2, <1>1, Division
    <3>4. i + d \in i .. (end - 1) /\ i + d \in DirSlot
      BY <3>3, <1>1, <1>4 DEF DirSlot
    <3>5. Len(dirs[i + d]) = LEN /\ dirs[i + d] \in Seq(Chars)
      BY <3>4, <1>4, <1>2, <1>1
    <3>6. r + 1 \in 1 .. LEN
      BY <3>3, <1>1
    <3>7. dirs[i + d][r + 1] \in Chars
      BY <3>5, <3>6
    <3> QED
      BY <3>7, <3>1, <2>1
  <2>2. CASE ~(m <= whole)
    <3>1. m - whole \in 1 .. Len(last)
      BY <2>2, <1>5, <1>6
    <3> QED
      BY <3>1, <1>6, <2>2
  <2> QED
    BY <2>1, <2>2
<1>8. Behind(i) = [m \in 1 .. (whole + Len(last)) |-> Char(m)]
  BY DEF Behind, end, last
<1>9. whole + Len(last) \in Nat
  BY <1>5, <1>6
<1> HIDE DEF whole, Char
<1>10. [m \in 1 .. (whole + Len(last)) |-> Char(m)] \in Seq(Chars)
  BY <1>7, <1>9
<1> QED
  BY <1>8, <1>10 DEF String

\* A row that has its '\0' is read as it is, one without reads longer than any
\* path that fits, and copying a row to another copies the array.
LEMMA RowOf ==
  ASSUME TypeOK, NEW i \in DirSlot
  PROVE  /\ Row[i] \in String /\ Len(Row[i]) \in Nat
         /\ Terminated(dirs[i]) => Row[i] = dirs[i]
         /\ ~Terminated(dirs[i]) => Len(Row[i]) >= LEN
         /\ kstrncpy(Row[i], LEN) = dirs[i]
<1>1. i + 1 \in 1 .. DIR_MAX
  BY ByteAssumption DEF DirSlot
<1>2. Behind(i + 1) \in String
  BY <1>1, BehindIsString
<1>3. dirs[i] \in Array
  BY DEF TypeOK
<1>4. Row[i] = Read(dirs[i], Behind(i + 1))
  BY DEF Row
<1> HIDE DEF Row
<1>5. /\ Row[i] \in String
      /\ Terminated(dirs[i]) => Row[i] = dirs[i]
      /\ ~Terminated(dirs[i]) => Len(Row[i]) >= LEN
      /\ kstrncpy(Row[i], LEN) = dirs[i]
  BY <1>2, <1>3, <1>4, ReadArray DEF Terminated
<1> QED
  BY <1>5, LenProperties DEF String

\* A local array that has its '\0' is read as it is.
LEMMA LocalOf ==
  ASSUME TypeOK, NEW a \in Array
  PROVE  /\ Local(a) \in String
         /\ Terminated(a) => Local(a) = a
         /\ ~Terminated(a) => Len(Local(a)) >= LEN
         /\ kstrncpy(Local(a), LEN) = a
<1>1. noise.stack \in String
  BY Constants DEF TypeOK, Noise
<1> QED
  BY <1>1, ReadArray DEF Local, Terminated

\* The fields of an entry, read as strings.
LEMMA FieldsOf ==
  ASSUME TypeOK, NEW i \in FileSlot
  PROVE  /\ Terminated(files[i].dir) => DirOf(files[i]) = files[i].dir
         /\ ~Terminated(files[i].dir) => Len(DirOf(files[i])) >= LEN
         /\ Terminated(files[i].name) => NameOf(files[i]) = files[i].name
         /\ ~Terminated(files[i].name) => Len(NameOf(files[i])) >= LEN
<1>1. files[i].name \in Array /\ files[i].dir \in Array /\ files[i].block \in Bytes
  BY DEF TypeOK
<1>2. files[i].block \in String
  BY <1>1, Constants
<1>3. /\ DirOf(files[i]) \in String
      /\ Terminated(files[i].dir) => DirOf(files[i]) = files[i].dir
      /\ ~Terminated(files[i].dir) => Len(DirOf(files[i])) >= LEN
  BY <1>1, <1>2, ReadArray DEF DirOf, Terminated
<1>4. /\ Terminated(files[i].name) => NameOf(files[i]) = files[i].name
      /\ ~Terminated(files[i].name) => Len(NameOf(files[i])) >= LEN
  BY <1>1, <1>3, ReadArray DEF NameOf, Terminated
<1> QED
  BY <1>3, <1>4

\* What build_path has written before it appends the name fits its array, and
\* in a directory whose path has its '\0' so does the array.
LEMMA PrefixFits ==
  ASSUME TypeOK
  PROVE  /\ Prefix \in Array
         /\ Terminated(dirs[cwd_idx]) => Terminated(Prefix)
<1>1. LEN \in Nat /\ cwd_idx \in DirSlot
  BY ByteAssumption DEF TypeOK, Known
<1>2. PICK out : out = kstrncpy(dir_getcwd, LEN)
  OBVIOUS
<1>3. out = dirs[cwd_idx]
  BY <1>1, <1>2, RowOf DEF dir_getcwd
<1>4. out \in Array /\ out \in Seq(Chars) /\ Len(out) \in Nat /\ Len(out) <= LEN
  BY <1>1, <1>3 DEF TypeOK, Array
<1>5. CASE dir_getcwd # Slash /\ Len(Local(out)) < LEN - 2
  <2>1. Terminated(out) /\ Local(out) = out
    <3>1. Local(out) \in Seq(Chars) /\ Len(Local(out)) \in Nat
      BY <1>4, LocalOf, LenProperties DEF String
    <3> QED
      BY <3>1, <1>1, <1>4, <1>5, LocalOf
  <2>2. out \o Slash \in Seq(Chars) /\ Len(out \o Slash) = Len(out) + 1
    BY <1>4, Constants, ConcatProperties DEF String
  <2>3. Len(out \o Slash) < LEN
    BY <2>1, <2>2, <1>1, <1>4, <1>5
  <2>4. Prefix = out \o Slash
    BY <1>2, <1>5 DEF Prefix
  <2> QED
    BY <2>2, <2>3, <2>4, <1>1 DEF Array, Terminated
<1>6. CASE ~(dir_getcwd # Slash /\ Len(Local(out)) < LEN - 2)
  <2>1. Prefix = out
    BY <1>2, <1>6 DEF Prefix
  <2> QED
    BY <2>1, <1>3, <1>4
<1> QED
  BY <1>5, <1>6

\* build_path's result is a string that fits the array, when its size does not
\* underflow.
LEMMA BuildPath ==
  ASSUME TypeOK, NEW name \in String
  PROVE  build_path(name) \in Array
<1>1. LEN \in Nat
  BY ByteAssumption
<1>2. CASE name[1] = "/"
  <2>1. PICK out : out = kstrncpy(name, LEN)
    OBVIOUS
  <2>2. out \in Array
    BY <2>1, <1>1, Copied DEF Array, String
  <2>3. PICK len : len = Len(Local(out))
    OBVIOUS
  <2>4. build_path(name) = IF len > 1 /\ Local(out)[len] = "/" THEN SubSeq(out, 1, len - 1) ELSE out
    BY <2>1, <2>3, <1>2 DEF build_path
  <2>5. len \in Nat /\ len <= Len(out) + 1
    <3>1. noise.stack \in String /\ Len(noise.stack) <= 1 /\ Len(noise.stack) \in Nat
      BY Constants, LenProperties DEF TypeOK, Noise, String
    <3>2. out \in Seq(Chars) /\ Len(out) \in Nat
      BY <2>2 DEF Array
    <3>3. Len(out \o noise.stack) = Len(out) + Len(noise.stack)
      BY <3>1, <3>2, ConcatProperties DEF String
    <3> QED
      BY <3>1, <3>2, <3>3, <2>3 DEF Local, Read
  <2>6. CASE len > 1
    <3>1. len - 1 \in Nat /\ len - 1 <= Len(out) /\ Len(out) \in Nat /\ out \in Seq(Chars) /\ Len(out) <= LEN
      BY <2>2, <2>5, <2>6 DEF Array
    <3>2. SubSeq(out, 1, len - 1) \in Seq(Chars) /\ Len(SubSeq(out, 1, len - 1)) = len - 1
      BY <3>1, SubSeqProperties
    <3> QED
      BY <3>1, <3>2, <2>2, <2>4, <1>1 DEF Array
  <2>7. CASE ~(len > 1)
    BY <2>2, <2>4, <2>7
  <2> QED
    BY <2>6, <2>7
<1>3. CASE name[1] # "/"
  <2>1. PICK p : p = Prefix
    OBVIOUS
  <2>2. p \in Seq(Chars) /\ Len(p) \in Nat /\ Len(p) <= LEN
    BY <2>1, PrefixFits DEF Array
  <2>3. PICK n \in Nat : n = LEN - Len(p)
    BY <2>2, <1>1
  <2>4. PICK rest : rest = kstrncpy(name, n)
    OBVIOUS
  <2>5. rest \in Seq(Chars) /\ Len(rest) \in Nat /\ Len(rest) <= n
    BY <2>3, <2>4, Copied DEF String
  <2>6. p \o rest \in Seq(Chars) /\ Len(p \o rest) = Len(p) + Len(rest)
    BY <2>2, <2>5, ConcatProperties
  <2>7. Len(p \o rest) <= LEN
    BY <2>2, <2>3, <2>5, <2>6, <1>1
  <2>8. build_path(name) = p \o rest
    BY <2>1, <2>3, <2>4, <1>3 DEF build_path
  <2> QED
    BY <2>6, <2>7, <2>8 DEF Array
<1> QED
  BY <1>2, <1>3

(***************************************************************************)
(* The inductive invariant                                                 *)
(***************************************************************************)
\* Two rows hold the same array only if it has no '\0'.
DirsDistinct == \A i, j \in Known : i # j /\ dirs[i] = dirs[j] => ~Terminated(dirs[i])

\* An entry's name is what fits of the name that was typed for it, and two
\* entries of one directory were typed differently, if name and path fit.
NamesDistinct ==
  /\ \A i \in FileSlot : files[i].used => files[i].name = kstrncpy(key[i], LEN)
  /\ \A i, j \in FileSlot :
       /\ i # j /\ files[i].used /\ files[j].used /\ Len(key[i]) < LEN
       /\ Terminated(files[i].dir) /\ files[i].dir = files[j].dir
       => key[i] # key[j]

\* rmdir asks about another directory than the current one, and nothing is
\* asked after build_path has overrun.
BInv ==
  /\ TypeOK
  /\ asking # cwd_idx /\ (halted => asking = DIR_MAX)
  /\ HaltsOnlyInFullCwd /\ DirsDistinct /\ NamesDistinct

\* find_dir returns a row that reads like the path, or DIR_MAX if none does.
LEMMA FindDir ==
  ASSUME NEW path
  PROVE  \/ find_dir(path) \in Known /\ Row[find_dir(path)] = path
         \/ find_dir(path) = DIR_MAX /\ \A i \in Known : Row[i] # path
<1> DEFINE S == {i \in Known : Row[i] = path}
<1> HIDE DEF Row
<1>1. CASE S = {}
  BY <1>1 DEF find_dir
<1>2. CASE S # {}
  <2>1. S \subseteq Nat
    BY ByteAssumption DEF Known, DirSlot
  <2>2. \E i \in S : \A j \in S : i <= j
    BY <1>2, <2>1, Least
  <2>3. \E i \in Known : Row[i] = path /\ \A j \in Known : Row[j] = path => i <= j
    BY <2>2
  <2> QED
    BY <2>3 DEF find_dir
<1> QED
  BY <1>1, <1>2

\* find_file returns an entry that matches, or FS_MAX_FILES if none does.
LEMMA FindFile ==
  ASSUME NEW name
  PROVE  \/ find_file(name) \in FileSlot /\ Matches(find_file(name), name)
         \/ find_file(name) = FS_MAX_FILES /\ \A i \in FileSlot : ~Matches(i, name)
<1> DEFINE S == {i \in FileSlot : Matches(i, name)}
<1>1. CASE S = {}
  BY <1>1 DEF find_file
<1>2. CASE S # {}
  <2>1. S \subseteq Nat
    BY ByteAssumption DEF FileSlot
  <2>2. \E i \in S : \A j \in S : i <= j
    BY <1>2, <2>1, Least
  <2>3. \E i \in FileSlot : Matches(i, name) /\ \A j \in FileSlot : Matches(j, name) => i <= j
    BY <2>2
  <2> QED
    BY <2>3 DEF find_file
<1> QED
  BY <1>1, <1>2

\* find_free_slot returns a free slot, or FS_MAX_FILES if there is none.
LEMMA FreeSlot ==
  \/ find_free_slot \in FileSlot /\ ~files[find_free_slot].used
  \/ find_free_slot = FS_MAX_FILES
<1> DEFINE S == {i \in FileSlot : ~files[i].used}
<1>1. CASE S = {}
  BY <1>1 DEF find_free_slot
<1>2. CASE S # {}
  <2>1. S \subseteq Nat
    BY ByteAssumption DEF FileSlot
  <2>2. \E i \in S : \A j \in S : i <= j
    BY <1>2, <2>1, Least
  <2>3. \E i \in FileSlot : ~files[i].used /\ \A j \in FileSlot : ~files[j].used => i <= j
    BY <2>2
  <2> QED
    BY <2>3 DEF find_free_slot
<1> QED
  BY <1>1, <1>2

\* DIR_MAX and FS_MAX_FILES are not slots.
LEMMA SlotFacts ==
  /\ DIR_MAX \notin Known /\ \A i \in Known : i \in DirSlot /\ i \in Nat /\ i < DIR_MAX
  /\ FS_MAX_FILES \notin FileSlot
BY ByteAssumption DEF Known, DirSlot, FileSlot

\* A path that fits is read only from the row that holds it.
LEMMA RowHolds ==
  ASSUME TypeOK, NEW i \in Known, NEW path, Row[i] = path, Len(path) \in Nat, Len(path) < LEN
  PROVE  Terminated(dirs[i]) /\ dirs[i] = path
<1>1. i \in DirSlot /\ LEN \in Nat
  BY SlotFacts, ByteAssumption
<1> HIDE DEF Row
<1>2. Terminated(dirs[i])
  BY <1>1, RowOf
<1> QED
  BY <1>1, <1>2, RowOf

\* The invariant suffices for find_dir: no other row reads like a path that fits.
LEMMA PathsFound == BInv => ShortPathsFound
<1> SUFFICES ASSUME BInv, NEW i \in Known, Terminated(dirs[i])
             PROVE  find_dir(Row[i]) = i
  BY DEF ShortPathsFound
<1> HIDE DEF Row
<1>1. TypeOK /\ DirsDistinct
  BY DEF BInv
<1>2. Row[i] = dirs[i] /\ Len(Row[i]) \in Nat /\ Len(Row[i]) < LEN
  BY <1>1, RowOf, SlotFacts DEF Terminated
<1>3. find_dir(Row[i]) \in Known /\ Row[find_dir(Row[i])] = Row[i]
  BY FindDir
<1>4. PICK k \in Known : k = find_dir(Row[i]) /\ Row[k] = Row[i]
  BY <1>3
<1>5. dirs[k] = dirs[i]
  BY <1>1, <1>2, <1>4, RowHolds
<1> QED
  BY <1>1, <1>4, <1>5 DEF DirsDistinct

\* An entry whose name and path read like strings that fit holds them.
LEMMA EntryHolds ==
  ASSUME BInv, NEW i \in FileSlot, NEW name, Matches(i, name), Len(name) < LEN,
         Len(dir_getcwd) < LEN
  PROVE  /\ files[i].used /\ key[i] = name
         /\ files[i].dir = dir_getcwd /\ Terminated(files[i].dir)
<1>1. TypeOK /\ NamesDistinct /\ LEN \in Nat
  BY ByteAssumption DEF BInv
<1>2. files[i].used /\ NameOf(files[i]) = name /\ DirOf(files[i]) = dir_getcwd
  BY DEF Matches
<1>3. files[i].name \in Array /\ files[i].dir \in Array /\ key[i] \in String
  BY <1>1 DEF TypeOK, String
<1>4. Terminated(files[i].dir) /\ Terminated(files[i].name)
  <2>1. ~Terminated(files[i].dir) => Len(dir_getcwd) >= LEN
    BY <1>1, <1>2, FieldsOf
  <2>2. ~Terminated(files[i].name) => Len(name) >= LEN
    BY <1>1, <1>2, FieldsOf
  <2>3. Len(name) \in Nat /\ Len(dir_getcwd) \in Nat
    <3>1. Len(name) \in Nat
      BY <1>1, <1>2, FieldsOf, LenProperties
    <3>2. Len(dir_getcwd) \in Nat
      BY <1>1, RowOf, SlotFacts DEF dir_getcwd, TypeOK
    <3> QED
      BY <3>1, <3>2
  <2> QED
    BY <2>1, <2>2, <2>3, <1>1
<1>5. files[i].dir = dir_getcwd /\ files[i].name = name
  BY <1>1, <1>2, <1>4, FieldsOf
<1>6. name = kstrncpy(key[i], LEN)
  BY <1>1, <1>2, <1>5 DEF NamesDistinct
<1>7. Len(key[i]) \in Nat /\ Len(key[i]) < LEN
  BY <1>6, <1>1, <1>3, Copied, LenProperties DEF String
<1>8. kstrncpy(key[i], LEN) = key[i]
  BY <1>1, <1>3, <1>7, Copied
<1> QED
  BY <1>2, <1>4, <1>5, <1>6, <1>8

\* The invariant suffices for find_file: no other entry reads like a name that
\* fits, in a directory whose path fits.
LEMMA NamesFound == BInv => ShortNamesFound
<1> SUFFICES ASSUME BInv, NEW i \in FileSlot, files[i].used, Len(key[i]) < LEN,
                    files[i].dir = dir_getcwd, Terminated(files[i].dir)
             PROVE  find_file(key[i]) = i
  BY DEF ShortNamesFound
<1>1. TypeOK /\ NamesDistinct /\ LEN \in Nat
  BY ByteAssumption DEF BInv
<1>2. files[i].name \in Array /\ key[i] \in String /\ Len(key[i]) \in Nat
  BY <1>1, LenProperties DEF TypeOK, String
<1>3. files[i].name = key[i] /\ Terminated(files[i].name)
  BY <1>1, <1>2, Copied DEF NamesDistinct, Terminated
<1>4. Matches(i, key[i])
  BY <1>1, <1>3, FieldsOf DEF Matches
<1>5. PICK k \in FileSlot : k = find_file(key[i]) /\ Matches(k, key[i])
  BY <1>4, FindFile
<1>6. key[k] = key[i] /\ files[k].dir = files[i].dir /\ files[k].used
  BY <1>5, EntryHolds DEF Terminated
<1> QED
  BY <1>1, <1>5, <1>6 DEF NamesDistinct

\* dir_init and fs_init establish the invariant.
LEMMA InitB == Init => BInv
<1> SUFFICES ASSUME Init PROVE BInv
  OBVIOUS
<1> USE ByteAssumption
<1>1. Slash \in Array /\ <<>> \in Array /\ <<>> \in Seq(Chars)
  <2>1. <<>> \in Seq(Chars) /\ Len(<<>>) = 0
    BY EmptySeq
  <2>2. <<>> \in Array
    BY <2>1 DEF Array
  <2>3. Slash \in Array
    <3>1. Slash \in Seq(Chars) /\ Len(Slash) = 1
      BY Constants DEF String
    <3>2. 1 <= LEN
      OBVIOUS
    <3> HIDE ByteAssumption
    <3> QED
      BY <3>1, <3>2 DEF Array
  <2> QED
    BY <2>1, <2>2, <2>3
<1>2. 0 \in DirSlot /\ Known = {0} /\ DIR_MAX # 0
  BY DEF Init, Known, DirSlot
<1>3. TypeOK
  <2>1. dirs \in [DirSlot -> Array]
    BY <1>1 DEF Init
  <2>2. Unused \in [name : Array, dir : Array, block : Bytes, used : BOOLEAN]
    BY <1>1 DEF Unused, Bytes
  <2>3. files \in [FileSlot -> [name : Array, dir : Array, block : Bytes, used : BOOLEAN]]
    BY <2>2 DEF Init
  <2>4. key \in [FileSlot -> Seq(Chars)]
    BY <1>1 DEF Init
  <2>5. dir_count \in 1 .. DIR_MAX /\ cwd_idx \in Known /\ asking \in Known \cup {DIR_MAX}
    BY <1>2 DEF Init
  <2> QED
    BY <2>1, <2>3, <2>4, <2>5 DEF TypeOK, Init
<1>4. \A i \in FileSlot : ~files[i].used
  BY DEF Init, Unused
<1> QED
  BY <1>2, <1>3, <1>4 DEF BInv, Init, HaltsOnlyInFullCwd, DirsDistinct, NamesDistinct

(***************************************************************************)
(* The commands of dir.c                                                   *)
(***************************************************************************)
\* mkdir adds a path that no row reads like.
LEMMA MkdirInvariant ==
  ASSUME BInv, AtPrompt, NEW a \in Args, dir_mkdir(a), UNCHANGED <<fileVars, halted>>, noise' \in Noise
  PROVE  BInv'
<1> USE ByteAssumption
<1>1. TypeOK /\ DirsDistinct /\ NamesDistinct /\ ~halted /\ asking = DIR_MAX
  BY DEF BInv, AtPrompt
<1>2. PICK path : path = Local(build_path(a))
  OBVIOUS
<1>3. PICK new : new = kstrncpy(path, LEN)
  OBVIOUS
<1>4. a \in String
  BY DEF String
<1>5. build_path(a) \in Array
  BY <1>1, <1>4, BuildPath
<1>6. path \in String /\ new \in Array /\ new = build_path(a) /\ (Terminated(new) => path = new)
  BY <1>1, <1>2, <1>3, <1>5, LocalOf
<1>7. \A i \in Known : Row[i] # path
  BY <1>2, FindDir, SlotFacts DEF dir_mkdir
<1>8. ASSUME NEW i \in Known, Terminated(new), dirs[i] = new PROVE FALSE
  BY <1>1, <1>6, <1>7, <1>8, RowOf, SlotFacts
<1>9. /\ dir_count < DIR_MAX /\ dir_count \in Nat
      /\ dirs' = [dirs EXCEPT ![dir_count] = new]
      /\ dir_count' = dir_count + 1 /\ cwd_idx' = cwd_idx /\ asking' = asking
  BY <1>1, <1>2, <1>3 DEF dir_mkdir, TypeOK
<1>10. Known' = Known \cup {dir_count} /\ dir_count \in DirSlot /\ dir_count \notin Known
  BY <1>9 DEF Known, DirSlot
<1>11. TypeOK'
  BY <1>1, <1>6, <1>9, <1>10 DEF TypeOK, fileVars
<1>12. DirsDistinct'
  BY <1>1, <1>8, <1>9, <1>10 DEF DirsDistinct, TypeOK, Terminated, Known
<1>13. NamesDistinct'
  BY <1>1 DEF NamesDistinct, fileVars, Terminated
<1> QED
  BY <1>1, <1>9, <1>11, <1>12, <1>13 DEF BInv, HaltsOnlyInFullCwd

\* cd moves to a row of the table.
LEMMA CdInvariant ==
  ASSUME BInv, AtPrompt, NEW a \in Args, dir_cd(a), UNCHANGED <<fileVars, halted>>, noise' \in Noise
  PROVE  BInv'
<1>1. TypeOK /\ DirsDistinct /\ NamesDistinct /\ ~halted /\ asking = DIR_MAX
  BY DEF BInv, AtPrompt
<1>2. PICK path : cwd_idx' = find_dir(path) /\ find_dir(path) < DIR_MAX
  BY DEF dir_cd
<1>3. cwd_idx' \in Known
  BY <1>2, FindDir, ByteAssumption
<1>4. dirs' = dirs /\ dir_count' = dir_count /\ asking' = asking /\ Known' = Known
  BY DEF dir_cd, Known
<1>5. TypeOK'
  BY <1>1, <1>3, <1>4 DEF TypeOK, fileVars
<1>6. asking' # cwd_idx'
  BY <1>1, <1>3, <1>4, SlotFacts
<1> QED
  BY <1>1, <1>4, <1>5, <1>6 DEF BInv, HaltsOnlyInFullCwd, DirsDistinct, NamesDistinct, fileVars, Terminated

\* rmdir asks about a row of the table that is not the current one.
LEMMA RmdirInvariant ==
  ASSUME BInv, AtPrompt, NEW a \in Args, dir_rmdir(a), UNCHANGED <<fileVars, halted>>, noise' \in Noise
  PROVE  BInv'
<1>1. TypeOK /\ DirsDistinct /\ NamesDistinct /\ ~halted
  BY DEF BInv, AtPrompt
<1>2. PICK path : asking' = find_dir(path) /\ find_dir(path) < DIR_MAX /\ find_dir(path) # cwd_idx
  BY DEF dir_rmdir
<1>3. asking' \in Known
  BY <1>2, FindDir, ByteAssumption
<1>4. dirs' = dirs /\ dir_count' = dir_count /\ cwd_idx' = cwd_idx /\ Known' = Known
  BY DEF dir_rmdir, Known
<1>5. TypeOK'
  BY <1>1, <1>3, <1>4 DEF TypeOK, fileVars
<1> QED
  BY <1>1, <1>2, <1>4, <1>5 DEF BInv, HaltsOnlyInFullCwd, DirsDistinct, NamesDistinct, fileVars, Terminated

\* build_path overruns only where the current path fills its row.
LEMMA CrashInvariant ==
  ASSUME BInv, AtPrompt, NEW a \in Args, Crash(a), UNCHANGED fileVars, noise' \in Noise
  PROVE  BInv'
<1>1. TypeOK /\ DirsDistinct /\ NamesDistinct /\ asking = DIR_MAX /\ asking # cwd_idx /\ LEN \in Nat
  BY ByteAssumption DEF BInv, AtPrompt
<1>2. ~Terminated(dirs[cwd_idx])
  <2>1. SUFFICES ASSUME Terminated(dirs[cwd_idx]) PROVE FALSE
    OBVIOUS
  <2>2. PICK p : p = Prefix
    OBVIOUS
  <2>3. p \in Array /\ Terminated(p)
    BY <1>1, <2>1, <2>2, PrefixFits
  <2>4. Local(p) = p /\ Len(p) \in Nat /\ Len(p) < LEN
    BY <1>1, <2>3, LocalOf DEF Terminated, Array
  <2>5. Len(Local(p)) > LEN
    BY <2>2 DEF Crash, Overruns
  <2> QED
    BY <2>4, <2>5, <1>1
<1>3. dirs' = dirs /\ dir_count' = dir_count /\ cwd_idx' = cwd_idx /\ asking' = asking /\ halted' = TRUE
  BY DEF Crash, dirVars
<1>4. TypeOK'
  BY <1>1, <1>3 DEF TypeOK, fileVars, Known
<1> QED
  BY <1>1, <1>2, <1>3, <1>4 DEF BInv, HaltsOnlyInFullCwd, DirsDistinct, NamesDistinct, fileVars, Terminated, Known

\* Remove moves every row above the removed one down by one, whether it has its
\* '\0' or not, and the current directory with them.
LEMMA RemoveInvariant ==
  ASSUME BInv, asking < DIR_MAX, asking' = DIR_MAX, Remove, UNCHANGED <<fileVars, halted>>, noise' \in Noise
  PROVE  BInv'
<1> DEFINE From(i) == IF i < asking THEN i ELSE i + 1
<1>1. TypeOK /\ DirsDistinct /\ NamesDistinct /\ asking # cwd_idx /\ (halted => asking = DIR_MAX)
  BY DEF BInv
<1>2. /\ DIR_MAX \in Nat /\ dir_count \in Nat /\ dir_count <= DIR_MAX
      /\ asking \in Nat /\ asking < dir_count /\ cwd_idx \in Nat /\ cwd_idx < dir_count
  BY <1>1, ByteAssumption DEF TypeOK, Known, DirSlot
<1>3. ~halted
  BY <1>1, <1>2
<1>4. /\ dirs' = [i \in DirSlot |->
                    CASE i = dir_count - 1 -> <<>>
                      [] asking <= i /\ i < dir_count - 1 -> dirs[i + 1]
                      [] OTHER -> dirs[i]]
      /\ dir_count' = dir_count - 1
      /\ cwd_idx' = IF cwd_idx > asking THEN cwd_idx - 1 ELSE cwd_idx
  <2>1. ASSUME NEW i \in DirSlot, asking <= i, i < dir_count - 1
        PROVE  kstrncpy(Row[i + 1], LEN) = dirs[i + 1]
    <3>1. i + 1 \in DirSlot
      BY <2>1, <1>2 DEF DirSlot
    <3> QED
      BY <3>1, <1>1, RowOf
  <2> HIDE DEF Row
  <2> QED
    BY <2>1 DEF Remove
<1>5. dir_count' \in 1 .. DIR_MAX /\ cwd_idx' \in Known' /\ Known' \subseteq DirSlot
  BY <1>1, <1>2, <1>4 DEF Known, DirSlot
<1>6. \A i \in Known' : From(i) \in Known /\ dirs'[i] = dirs[From(i)]
  BY <1>2, <1>4 DEF Known, DirSlot
<1>7. dirs' \in [DirSlot -> Array]
  <2>1. <<>> \in Array
    BY ByteAssumption, EmptySeq DEF Array
  <2>2. \A i \in DirSlot : dirs[i] \in Array
    BY <1>1 DEF TypeOK
  <2>3. \A i \in DirSlot : i < dir_count - 1 => i + 1 \in DirSlot
    BY <1>2 DEF DirSlot
  <2> QED
    BY <2>1, <2>2, <2>3, <1>4
<1>8. TypeOK'
  BY <1>1, <1>5, <1>7 DEF TypeOK, fileVars
<1>9. \A i, j \in Known' : i # j => From(i) # From(j)
  BY <1>2, <1>5 DEF Known, DirSlot
<1>10. DirsDistinct'
  BY <1>1, <1>6, <1>9 DEF DirsDistinct, Terminated
<1>11. asking' # cwd_idx'
  BY <1>2, <1>4
<1>12. NamesDistinct' /\ HaltsOnlyInFullCwd'
  BY <1>1, <1>3 DEF NamesDistinct, HaltsOnlyInFullCwd, fileVars, Terminated
<1> QED
  BY <1>8, <1>10, <1>11, <1>12 DEF BInv

(***************************************************************************)
(* The commands of fs.c                                                    *)
(***************************************************************************)
Entry == [name : Array, dir : Array, block : Bytes, used : BOOLEAN]

\* A name that find_file does not find was not typed for an entry of the
\* current directory, if name and path fit.
LEMMA NotTyped ==
  ASSUME BInv, NEW name \in String, Len(name) < LEN, \A j \in FileSlot : ~Matches(j, name),
         NEW j \in FileSlot, files[j].used, Terminated(files[j].dir), files[j].dir = dir_getcwd
  PROVE  key[j] # name
<1> SUFFICES ASSUME key[j] = name PROVE FALSE
  OBVIOUS
<1>1. TypeOK /\ NamesDistinct /\ LEN \in Nat /\ Len(name) \in Nat
  BY ByteAssumption, LenProperties DEF BInv, String
<1>2. files[j].name = name
  BY <1>1, Copied DEF NamesDistinct
<1>3. NameOf(files[j]) = name /\ DirOf(files[j]) = dir_getcwd
  BY <1>1, <1>2, FieldsOf DEF Terminated
<1> QED
  BY <1>3 DEF Matches

\* A step that changes entries only, and keeps NamesDistinct.
LEMMA EntryStep ==
  ASSUME BInv, AtPrompt, UNCHANGED <<dirVars, halted>>, noise' \in Noise,
         NEW i \in FileSlot, NEW e \in Entry, NEW k \in String,
         files' = [files EXCEPT ![i] = e], key' = [key EXCEPT ![i] = k],
         e.used => e.name = kstrncpy(k, LEN),
         \A j \in FileSlot : j # i /\ e.used /\ files[j].used /\ Len(k) < LEN
                             /\ Terminated(e.dir) /\ e.dir = files[j].dir => key[j] # k
  PROVE  BInv'
<1>1. TypeOK /\ NamesDistinct /\ DirsDistinct /\ ~halted /\ asking # cwd_idx
  BY DEF BInv, AtPrompt
<1>2. files \in [FileSlot -> Entry] /\ key \in [FileSlot -> String]
  BY <1>1 DEF TypeOK, Entry, String
<1>3. files' \in [FileSlot -> Entry] /\ key' \in [FileSlot -> String]
  BY <1>2
<1>4. TypeOK'
  BY <1>1, <1>3 DEF TypeOK, dirVars, Known, Entry, String
<1>5. \A j \in FileSlot : files'[j] = (IF j = i THEN e ELSE files[j]) /\ key'[j] = (IF j = i THEN k ELSE key[j])
  BY <1>2
<1>6. NamesDistinct'
  <2>1. ASSUME NEW j \in FileSlot, files'[j].used PROVE files'[j].name = kstrncpy(key'[j], LEN)
    BY <1>1, <1>5, <2>1 DEF NamesDistinct
  <2>2. ASSUME NEW j \in FileSlot, NEW m \in FileSlot, j # m, files'[j].used, files'[m].used,
               Len(key'[j]) < LEN, Terminated(files'[j].dir), files'[j].dir = files'[m].dir
        PROVE  key'[j] # key'[m]
    <3>1. CASE j = i
      BY <1>5, <2>2, <3>1
    <3>2. CASE m = i
      BY <1>5, <2>2, <3>2
    <3>3. CASE j # i /\ m # i
      BY <1>1, <1>5, <2>2, <3>3 DEF NamesDistinct
    <3> QED
      BY <3>1, <3>2, <3>3
  <2> QED
    BY <2>1, <2>2 DEF NamesDistinct, Terminated
<1> QED
  BY <1>1, <1>4, <1>6 DEF BInv, dirVars, HaltsOnlyInFullCwd, DirsDistinct, Terminated, Known

\* Enter fills a free slot with a name that is not in the current directory.
LEMMA EnterInvariant ==
  ASSUME BInv, AtPrompt, UNCHANGED <<dirVars, halted>>, noise' \in Noise,
         NEW name \in Names, find_file(name) = FS_MAX_FILES, find_free_slot < FS_MAX_FILES,
         Enter(find_free_slot, name)
  PROVE  BInv'
<1>1. TypeOK /\ LEN \in Nat /\ name \in String /\ cwd_idx \in DirSlot
  BY ByteAssumption, SlotFacts DEF BInv, String, TypeOK
<1>2. PICK i \in FileSlot : i = find_free_slot
  BY FreeSlot, ByteAssumption
<1>3. PICK d : d = kstrncpy(dir_getcwd, LEN)
  OBVIOUS
<1>4. d \in Array /\ (Terminated(d) => d = dir_getcwd)
  <2> HIDE DEF Row
  <2>1. d = dirs[cwd_idx]
    BY <1>1, <1>3, RowOf DEF dir_getcwd
  <2> QED
    BY <2>1, <1>1, RowOf DEF dir_getcwd, TypeOK
<1>5. kstrncpy(name, LEN) \in Array
  BY <1>1, Copied DEF Array, String
<1>6. PICK b \in Bytes :
        files' = [files EXCEPT ![i] = [name |-> kstrncpy(name, LEN), dir |-> d, block |-> b, used |-> TRUE]]
  <2>1. Blocks(dir_getcwd) \subseteq Bytes
    BY DEF Blocks, Bytes
  <2> QED
    BY <1>2, <1>3, <2>1 DEF Enter
<1>7. PICK e : e = [name |-> kstrncpy(name, LEN), dir |-> d, block |-> b, used |-> TRUE]
  OBVIOUS
<1>8. e \in Entry /\ e.used /\ e.dir = d /\ e.name = kstrncpy(name, LEN)
  BY <1>4, <1>5, <1>7 DEF Entry
<1>9. key' = [key EXCEPT ![i] = name] /\ files' = [files EXCEPT ![i] = e]
  BY <1>2, <1>6, <1>7 DEF Enter
<1>10. \A j \in FileSlot : ~Matches(j, name)
  BY FindFile, SlotFacts
<1>11. ASSUME NEW j \in FileSlot, files[j].used, Len(name) < LEN, Terminated(d), d = files[j].dir
       PROVE  key[j] # name
  BY <1>1, <1>4, <1>10, <1>11, NotTyped
<1>12. \A j \in FileSlot : j # i /\ e.used /\ files[j].used /\ Len(name) < LEN
                           /\ Terminated(e.dir) /\ e.dir = files[j].dir => key[j] # name
  BY <1>8, <1>11
<1> QED
  BY <1>1, <1>8, <1>9, <1>12, EntryStep

\* Rewriting a file's text leaves its name and its directory.
LEMMA RewriteInvariant ==
  ASSUME BInv, AtPrompt, UNCHANGED <<dirVars, halted>>, noise' \in Noise,
         NEW i \in FileSlot, Rewrite(i)
  PROVE  BInv'
<1>1. TypeOK /\ NamesDistinct
  BY DEF BInv
<1>2. files \in [FileSlot -> Entry] /\ key \in [FileSlot -> String]
  BY <1>1 DEF TypeOK, Entry, String
<1>3. PICK b \in Bytes : files' = [files EXCEPT ![i].block = b] /\ key' = key
  BY DEF Rewrite, Blocks, Bytes
<1>4. PICK e : e = [files[i] EXCEPT !.block = b]
  OBVIOUS
<1>5. e \in Entry /\ e.used = files[i].used /\ e.dir = files[i].dir /\ e.name = files[i].name
  BY <1>2, <1>4 DEF Entry
<1>6. files' = [files EXCEPT ![i] = e] /\ key' = [key EXCEPT ![i] = key[i]]
  BY <1>2, <1>3, <1>4
<1>7. key[i] \in String
  BY <1>2
<1>8. \A j \in FileSlot : j # i /\ e.used /\ files[j].used /\ Len(key[i]) < LEN
                          /\ Terminated(e.dir) /\ e.dir = files[j].dir => key[j] # key[i]
  BY <1>1, <1>5 DEF NamesDistinct
<1>9. e.used => e.name = kstrncpy(key[i], LEN)
  BY <1>1, <1>5 DEF NamesDistinct
<1> QED
  BY <1>5, <1>6, <1>7, <1>8, <1>9, EntryStep

\* A freed slot has no name.
LEMMA FreeInvariant ==
  ASSUME BInv, AtPrompt, UNCHANGED <<dirVars, halted>>, noise' \in Noise,
         NEW i \in FileSlot, Free(i)
  PROVE  BInv'
<1>1. <<>> \in Array /\ <<>> \in String
  BY ByteAssumption, EmptySeq DEF Array, String
<1>2. Unused \in Entry /\ ~Unused.used
  BY <1>1 DEF Unused, Entry, Bytes
<1> QED
  BY <1>1, <1>2, EntryStep DEF Free

\* Rename gives an entry of the current directory a name that is not in it.
LEMMA RenameInvariant ==
  ASSUME BInv, AtPrompt, UNCHANGED <<dirVars, halted>>, noise' \in Noise,
         NEW name \in Names, NEW new \in Names, fs_rename(name, new)
  PROVE  BInv'
<1>1. TypeOK /\ LEN \in Nat /\ new \in String
  BY ByteAssumption DEF BInv, String
<1>2. files \in [FileSlot -> Entry] /\ key \in [FileSlot -> String]
  BY <1>1 DEF TypeOK, Entry, String
<1>3. PICK i \in FileSlot : i = find_file(name) /\ Matches(i, name)
  BY FindFile, ByteAssumption DEF fs_rename
<1>4. kstrncpy(new, LEN) \in Array
  BY <1>1, Copied DEF Array, String
<1>5. PICK e : e = [files[i] EXCEPT !.name = kstrncpy(new, LEN)]
  OBVIOUS
<1>6. e \in Entry /\ e.dir = files[i].dir /\ e.name = kstrncpy(new, LEN)
  BY <1>2, <1>4, <1>5 DEF Entry
<1>7. files' = [files EXCEPT ![i] = e] /\ key' = [key EXCEPT ![i] = new]
  BY <1>2, <1>3, <1>5 DEF fs_rename
<1>8. \A j \in FileSlot : ~Matches(j, new)
  BY FindFile, SlotFacts DEF fs_rename
<1>9. Terminated(files[i].dir) => files[i].dir = dir_getcwd
  BY <1>1, <1>3, FieldsOf DEF Matches
<1>10. ASSUME NEW j \in FileSlot, files[j].used, Len(new) < LEN, Terminated(e.dir), e.dir = files[j].dir
       PROVE  key[j] # new
  BY <1>1, <1>6, <1>8, <1>9, <1>10, NotTyped
<1>11. \A j \in FileSlot : j # i /\ e.used /\ files[j].used /\ Len(new) < LEN
                           /\ Terminated(e.dir) /\ e.dir = files[j].dir => key[j] # new
  BY <1>10
<1> QED
  BY <1>1, <1>6, <1>7, <1>11, EntryStep

\* Every command of fs.c keeps the invariant.
LEMMA FileInvariant ==
  ASSUME BInv, FileCommand, noise' \in Noise
  PROVE  BInv'
<1>1. AtPrompt /\ UNCHANGED <<dirVars, halted>>
  BY DEF FileCommand
<1>2. PICK n \in Names : \/ fs_write(n) \/ fs_edit(n) \/ fs_delete(n)
                         \/ \E m \in Names : fs_rename(n, m) \/ fs_copy(n, m)
  BY DEF FileCommand
<1>3. find_file(n) < FS_MAX_FILES => find_file(n) \in FileSlot
  BY FindFile, ByteAssumption
<1>4. CASE fs_write(n)
  BY <1>1, <1>3, <1>4, EnterInvariant, RewriteInvariant, FreeInvariant DEF fs_write
<1>5. CASE fs_edit(n)
  BY <1>1, <1>3, <1>5, RewriteInvariant DEF fs_edit
<1>6. CASE fs_delete(n)
  BY <1>1, <1>3, <1>6, FreeInvariant DEF fs_delete
<1>7. ASSUME NEW m \in Names, fs_rename(n, m) PROVE BInv'
  BY <1>1, <1>7, RenameInvariant
<1>8. ASSUME NEW m \in Names, fs_copy(n, m) PROVE BInv'
  BY <1>1, <1>8, EnterInvariant DEF fs_copy
<1> QED
  BY <1>2, <1>4, <1>5, <1>6, <1>7, <1>8

\* Every step keeps the invariant, whatever stray bytes memory holds after it.
LEMMA NextB == BInv /\ [Next]_vars => BInv'
<1> SUFFICES ASSUME BInv, [Next]_vars PROVE BInv'
  OBVIOUS
<1>1. CASE Next
  <2>1. noise' \in Noise
    BY <1>1 DEF Next
  <2>2. CASE DirCommand
    <3>1. AtPrompt /\ UNCHANGED fileVars
      BY <2>2 DEF DirCommand
    <3>2. PICK a \in Args : \/ Crash(a)
                            \/ (dir_mkdir(a) \/ dir_rmdir(a)) /\ UNCHANGED halted
                            \/ dir_cd(a) /\ UNCHANGED halted
      BY <2>2 DEF DirCommand
    <3> QED
      BY <2>1, <3>1, <3>2, CrashInvariant, MkdirInvariant, RmdirInvariant, CdInvariant
  <2>3. ASSUME NEW yes \in BOOLEAN, Answer(yes), UNCHANGED <<fileVars, halted>> PROVE BInv'
    <3>1. CASE Remove
      BY <2>1, <2>3, <3>1, RemoveInvariant DEF Answer
    <3>2. CASE UNCHANGED <<dirs, dir_count, cwd_idx>>
      <4>1. TypeOK'
        BY <2>1, <2>3, <3>2 DEF Answer, BInv, TypeOK, Known, fileVars
      <4>2. asking' # cwd_idx'
        BY <2>3, <3>2, SlotFacts DEF Answer, BInv, TypeOK
      <4>3. asking' = DIR_MAX
        BY <2>3 DEF Answer
      <4> QED
        BY <2>3, <3>2, <4>1, <4>2, <4>3
        DEF BInv, HaltsOnlyInFullCwd, DirsDistinct, NamesDistinct, fileVars, Terminated, Known
    <3> QED
      BY <2>3, <3>1, <3>2 DEF Answer
  <2>4. CASE FileCommand
    BY <2>1, <2>4, FileInvariant
  <2> QED
    BY <1>1, <2>2, <2>3, <2>4 DEF Next
<1>2. CASE UNCHANGED vars
  BY <1>2 DEF vars, dirVars, fileVars, BInv, TypeOK, HaltsOnlyInFullCwd, DirsDistinct, NamesDistinct,
              Terminated, Known
<1> QED
  BY <1>1, <1>2

(***************************************************************************)
(* Theorems                                                                *)
(***************************************************************************)
\* The tables of dir.c and fs.c always satisfy the invariant.
THEOREM BytesInvariant == Spec => []BInv
  BY InitB, NextB, PTL DEF Spec

\* No array of dir.c and fs.c holds more than its length, and the indices into
\* dirs[] stay inside the part in use, for every length of the arrays.
THEOREM BytesTyped == Spec => []TypeOK
<1>1. BInv => TypeOK
  BY DEF BInv
<1> QED
  BY <1>1, BytesInvariant, PTL

\* find_file finds a file whose name and path fit, in its own slot, whatever
\* unterminated names and paths the table holds beside it.
THEOREM FoundByName == Spec => []ShortNamesFound
  BY BytesInvariant, NamesFound, PTL

\* find_dir finds a directory whose path fits, in its own row, though reading
\* another row may run on through this one.
THEOREM FoundByPath == Spec => []ShortPathsFound
  BY BytesInvariant, PathsFound, PTL

\* build_path's size underflows only in a current directory whose path fills
\* its row.
THEOREM OverrunNeedsFullCwd == Spec => []HaltsOnlyInFullCwd
<1>1. BInv => HaltsOnlyInFullCwd
  BY DEF BInv
<1> QED
  BY <1>1, BytesInvariant, PTL
=============================================================================
