-------------------------- MODULE KeyboardProofs --------------------------
(***************************************************************************)
(* For every size of the ring buffer, every key map and every number of    *)
(* pending scan codes: the two unlocked indices make a bounded FIFO queue, *)
(* kbd_getchar is not disturbed by kbd_isr, and shift_held does not stick. *)
(***************************************************************************)
EXTENDS Keyboard, Integers, TLAPS

(***************************************************************************)
(* The inductive invariant                                                 *)
(***************************************************************************)
Code == [key : Keys, release : BOOLEAN]

\* TypeOK with the types of the sequences it leaves open.
Typed ==
  /\ TypeOK
  /\ out \in Seq(Char \cup {NoChar}) /\ pending \in Seq(Code)

ShiftPress(sc) == sc.key \in Shifts /\ ~sc.release
ShiftRelease(sc) == sc.key \in Shifts /\ sc.release

\* With no Shift key held, whatever sets shift_held is followed by a release
\* among the codes not yet read.
Settling ==
  down = {} =>
    /\ shift_held = 1 => \E j \in 1 .. Len(pending) : ShiftRelease(pending[j])
    /\ \A i \in 1 .. Len(pending) : ShiftPress(pending[i]) =>
         \E j \in 1 .. Len(pending) : i < j /\ ShiftRelease(pending[j])

KInv == Typed /\ ReaderUndisturbed /\ Settling

(***************************************************************************)
(* Arithmetic of the ring                                                  *)
(***************************************************************************)
\* A sum of two indices wraps at most once.
LEMMA Wrap ==
  ASSUME NEW n \in Nat \ {0}, NEW a \in 0 .. (2 * n - 1)
  PROVE  a % n = IF a < n THEN a ELSE a - n
<1>1. CASE a < n
  BY <1>1
<1>2. CASE ~(a < n)
  BY <1>2
<1> QED
  BY <1>1, <1>2

\* The index behind an index, for kbd_head and kbd_tail.
LEMMA NextIndex ==
  ASSUME NEW i \in Index
  PROVE  /\ (i + 1) % KBD_BUF_SIZE = IF i + 1 = KBD_BUF_SIZE THEN 0 ELSE i + 1
         /\ (i + 1) % KBD_BUF_SIZE \in Index
<1>1. /\ KBD_BUF_SIZE \in Nat \ {0} /\ KBD_BUF_SIZE \in Int
      /\ i \in Int /\ 0 <= i /\ i < KBD_BUF_SIZE
  BY SizeAssumption DEF Index
<1>2. CASE i + 1 < KBD_BUF_SIZE
  <2>1. (i + 1) % KBD_BUF_SIZE = i + 1
    BY <1>1, <1>2
  <2> QED
    BY <1>1, <1>2, <2>1 DEF Index
<1>3. CASE i + 1 = KBD_BUF_SIZE
  <2>1. KBD_BUF_SIZE % KBD_BUF_SIZE = 0
    BY <1>1
  <2> QED
    BY <1>1, <1>3, <2>1 DEF Index
<1> QED
  BY <1>1, <1>2, <1>3

\* A character is what kbd_isr hands to kbd_put.
LEMMA TranslateType ==
  ASSUME Typed, NEW k \in Letters \cup Symbols \cup Same, k \notin Silent
  PROVE  Translate(k) \in Char
<1>1. shift_held \in {0, 1} /\ caps_lock_on \in {0, 1}
  BY DEF Typed, TypeOK
<1>2. scancode(k, shift_held) \in Char
  BY <1>1 DEF scancode, Char
<1>3. ASSUME NEW t \in Char PROVE [t EXCEPT !.up = 1 - @] \in Char
  BY <1>3 DEF Char
<1> QED
  BY <1>2, <1>3 DEF Translate

(***************************************************************************)
(* Initial states and steps                                                *)
(***************************************************************************)
\* Empty buffer, no key held, shell not reading.
LEMMA InitKInv == Init => KInv
<1> SUFFICES ASSUME Init PROVE KInv
  OBVIOUS
<1>1. Typed
  BY SizeAssumption DEF Init, Typed, TypeOK, Index
<1>2. ReaderUndisturbed /\ Settling
  BY DEF Init, ReaderUndisturbed, Settling
<1> QED
  BY <1>1, <1>2 DEF KInv

\* kbd_put fills a slot the reader is not at, and never empties the buffer.
LEMMA PutLemma ==
  ASSUME Typed, ReaderUndisturbed, NEW ch \in Char, kbd_put(ch)
  PROVE  /\ kbd_head' \in Index /\ kbd_buf' \in [Index -> Char \cup {NoChar}]
         /\ kbd_has_char => kbd_head' # kbd_tail /\ kbd_buf'[kbd_tail] = kbd_buf[kbd_tail]
<1>1. kbd_head \in Index /\ kbd_tail \in Index /\ kbd_buf \in [Index -> Char \cup {NoChar}]
  BY DEF Typed, TypeOK
<1>2. (kbd_head + 1) % KBD_BUF_SIZE \in Index
  BY <1>1, NextIndex
<1> QED
  BY <1>1, <1>2 DEF kbd_put, kbd_has_char, ringVars

\* A key goes down or up: only the keyboard's side changes.
LEMMA KeyLemma ==
  ASSUME KInv, NEW k \in Keys, Press(k) \/ Release(k)
  PROVE  KInv'
<1> USE DEF KInv
<1>1. PICK r \in BOOLEAN : /\ pending' = Append(pending, [key |-> k, release |-> r])
                          /\ down' = IF r THEN down \ {k} ELSE down \cup ({k} \cap Shifts)
  BY DEF Press, Release
<1>2. UNCHANGED <<ringVars, modVars, readVars>>
  BY DEF Press, Release
<1>3. [key |-> k, release |-> r] \in Code
  BY DEF Code
<1>4. Typed'
  BY <1>1, <1>2, <1>3 DEF Typed, TypeOK, ringVars, modVars, readVars
<1>5. ReaderUndisturbed'
  BY <1>2 DEF ReaderUndisturbed, kbd_has_char, ringVars, readVars
<1>6. Settling'
  <2> SUFFICES ASSUME down' = {}
               PROVE  /\ shift_held' = 1 => \E j \in 1 .. Len(pending') : ShiftRelease(pending'[j])
                      /\ \A i \in 1 .. Len(pending') : ShiftPress(pending'[i]) =>
                           \E j \in 1 .. Len(pending') : i < j /\ ShiftRelease(pending'[j])
    BY DEF Settling
  <2>1. /\ Len(pending') = Len(pending) + 1 /\ Len(pending) \in Nat
        /\ pending'[Len(pending) + 1] = [key |-> k, release |-> r]
        /\ \A i \in 1 .. Len(pending) : pending'[i] = pending[i]
    BY <1>1, <1>3 DEF Typed
  <2>2. ~ShiftPress([key |-> k, release |-> r])
    BY <1>1 DEF ShiftPress
  <2>3. CASE down = {}
    BY <1>2, <2>1, <2>2, <2>3 DEF Settling, modVars
  <2>4. CASE down # {}
    <3>1. ShiftRelease([key |-> k, release |-> r])
      BY <1>1, <2>4 DEF Typed, TypeOK, ShiftRelease
    <3> QED
      BY <2>1, <2>2, <3>1
  <2> QED
    BY <2>3, <2>4
<1> QED
  BY <1>4, <1>5, <1>6

\* kbd_isr takes one code: a character goes to the ring, a Shift to the flag.
LEMMA IsrLemma ==
  ASSUME KInv, kbd_isr
  PROVE  KInv'
<1> USE DEF KInv
<1> DEFINE sc == Head(pending)
<1>1. sc \in Code /\ pending' \in Seq(Code) /\ pending # <<>>
  BY DEF kbd_isr, Typed
<1>2. /\ Len(pending') = Len(pending) - 1 /\ Len(pending) \in Nat \ {0}
      /\ \A i \in 1 .. Len(pending') : pending'[i] = pending[i + 1]
      /\ pending[1] = sc
  BY DEF kbd_isr, Typed
<1>3. /\ IF sc.release THEN BreakCode(sc.key) ELSE MakeCode(sc.key)
      /\ UNCHANGED <<kbd_tail, c, out, down>>
      /\ pc' = IF pc = "halted" THEN "check" ELSE pc
  BY DEF kbd_isr, Wake
<1>4. /\ UNCHANGED ringVars \/ \E ch \in Char : kbd_put(ch)
      /\ shift_held' \in {0, 1} /\ caps_lock_on' \in {0, 1}
      /\ shift_held' = IF ShiftPress(sc) THEN 1 ELSE IF ShiftRelease(sc) THEN 0 ELSE shift_held
  <2>1. shift_held \in {0, 1} /\ caps_lock_on \in {0, 1}
    BY DEF Typed, TypeOK
  <2>2. CASE sc.release
    BY <1>1, <1>3, <2>1, <2>2 DEF BreakCode, ShiftPress, ShiftRelease, Code
  <2>3. CASE ~sc.release /\ sc.key \in Shifts
    <3>1. sc.key \notin {"CapsLock"} \cup Silent
      BY <2>3, KeyAssumption DEF Shifts
    <3> QED
      BY <1>1, <1>3, <2>1, <2>3, <3>1 DEF MakeCode, ShiftPress, ShiftRelease, modVars
  <2>4. CASE ~sc.release /\ sc.key \notin Shifts
    <3>1. CASE sc.key \in {"CapsLock"} \cup Silent
      BY <1>1, <1>3, <2>1, <2>4, <3>1 DEF MakeCode, ShiftPress, ShiftRelease, modVars
    <3>2. CASE sc.key \notin {"CapsLock"} \cup Silent
      <4>1. Translate(sc.key) \in Char
        BY <1>1, <2>4, <3>2, TranslateType DEF Code, Keys
      <4> QED
        BY <1>3, <2>1, <2>4, <3>2, <4>1 DEF MakeCode, ShiftPress, ShiftRelease, modVars
    <3> QED
      BY <3>1, <3>2
  <2> QED
    BY <2>2, <2>3, <2>4
<1>5. /\ kbd_head' \in Index /\ kbd_buf' \in [Index -> Char \cup {NoChar}]
      /\ kbd_has_char => kbd_head' # kbd_tail /\ kbd_buf'[kbd_tail] = kbd_buf[kbd_tail]
  BY <1>4, PutLemma DEF ringVars, Typed, TypeOK, kbd_has_char
<1>6. Typed'
  BY <1>1, <1>3, <1>4, <1>5 DEF Typed, TypeOK
<1>7. ReaderUndisturbed'
  BY <1>3, <1>5 DEF ReaderUndisturbed, kbd_has_char
<1>8. Settling'
  <2> HIDE DEF sc
  <2> SUFFICES ASSUME down' = {}
               PROVE  /\ shift_held' = 1 => \E j \in 1 .. Len(pending') : ShiftRelease(pending'[j])
                      /\ \A i \in 1 .. Len(pending') : ShiftPress(pending'[i]) =>
                           \E j \in 1 .. Len(pending') : i < j /\ ShiftRelease(pending'[j])
    BY DEF Settling
  <2>1. /\ shift_held = 1 => \E j \in 1 .. Len(pending) : ShiftRelease(pending[j])
        /\ \A i \in 1 .. Len(pending) : ShiftPress(pending[i]) =>
             \E j \in 1 .. Len(pending) : i < j /\ ShiftRelease(pending[j])
    BY <1>3 DEF Settling
  <2>2. ASSUME NEW j \in 1 .. Len(pending), 1 < j
        PROVE  j - 1 \in 1 .. Len(pending') /\ pending'[j - 1] = pending[j]
    BY <1>2, <2>2
  <2>3. ASSUME shift_held' = 1 PROVE \E j \in 1 .. Len(pending') : ShiftRelease(pending'[j])
    <3>1. PICK j \in 1 .. Len(pending) : 1 < j /\ ShiftRelease(pending[j])
      <4>1. CASE ShiftPress(sc)
        BY <1>2, <2>1, <4>1
      <4>2. CASE ~ShiftPress(sc)
        <5>1. shift_held = 1 /\ ~ShiftRelease(sc)
          BY <1>4, <2>3, <4>2
        <5>2. PICK j \in 1 .. Len(pending) : ShiftRelease(pending[j])
          BY <2>1, <5>1
        <5> QED
          BY <1>2, <5>1, <5>2
      <4> QED
        BY <4>1, <4>2
    <3> QED
      BY <2>2, <3>1
  <2>4. ASSUME NEW i \in 1 .. Len(pending'), ShiftPress(pending'[i])
        PROVE  \E j \in 1 .. Len(pending') : i < j /\ ShiftRelease(pending'[j])
    <3>1. i + 1 \in 1 .. Len(pending) /\ ShiftPress(pending[i + 1])
      BY <1>2, <2>4
    <3>2. PICK j \in 1 .. Len(pending) : i + 1 < j /\ ShiftRelease(pending[j])
      BY <2>1, <3>1
    <3>3. 1 < j /\ i < j - 1
      BY <3>2
    <3> QED
      BY <2>2, <3>2, <3>3
  <2> QED
    BY <2>3, <2>4
<1> QED
  BY <1>6, <1>7, <1>8

\* The reader's own steps, and the timer that ends its hlt.
LEMMA ReaderLemma ==
  ASSUME KInv, Timer \/ kbd_getchar
  PROVE  KInv'
<1> USE DEF KInv
<1>1. UNCHANGED <<ringVars, modVars, down, pending>>
  BY DEF Timer, kbd_getchar, Call, CheckEmpty, CheckFound, Halt, ReadChar, Advance, Step
<1>2. Settling'
  BY <1>1 DEF Settling, modVars
<1>3. CASE Timer \/ Call \/ CheckEmpty \/ CheckFound \/ Halt
  <2>1. UNCHANGED <<kbd_tail, c, out>>
    BY <1>3 DEF Timer, Call, CheckEmpty, CheckFound, Halt
  <2>2. pc' \in {"away", "check", "hlt", "halted", "read", "advance"}
    BY <1>3 DEF Timer, Wake, Call, CheckEmpty, CheckFound, Halt, Step, Typed, TypeOK
  <2>3. Typed'
    BY <1>1, <2>1, <2>2 DEF Typed, TypeOK, ringVars, modVars
  <2>4. /\ pc' = "advance" => pc = "advance"
        /\ pc' = "read" => pc = "read" \/ kbd_has_char
    BY <1>3 DEF Timer, Wake, Call, CheckEmpty, CheckFound, Halt, Step
  <2>5. ReaderUndisturbed'
    BY <1>1, <2>1, <2>4 DEF ReaderUndisturbed, kbd_has_char, ringVars
  <2> QED
    BY <1>2, <2>3, <2>5
<1>4. CASE ReadChar
  <2>1. Typed'
    BY <1>1, <1>4 DEF ReadChar, Step, Typed, TypeOK, ringVars, modVars
  <2>2. ReaderUndisturbed'
    BY <1>1, <1>4 DEF ReadChar, Step, ReaderUndisturbed, kbd_has_char, ringVars
  <2> QED
    BY <1>2, <2>1, <2>2
<1>5. CASE Advance
  <2>1. kbd_tail' \in Index
    BY <1>5, NextIndex DEF Advance, Typed, TypeOK
  <2>2. Typed'
    BY <1>1, <1>5, <2>1 DEF Advance, Step, Typed, TypeOK, ringVars, modVars
  <2>3. ReaderUndisturbed'
    BY <1>5 DEF Advance, Step, ReaderUndisturbed
  <2> QED
    BY <1>2, <2>2, <2>3
<1> QED
  BY <1>3, <1>4, <1>5 DEF kbd_getchar

\* The driver's invariant, for every ring size, key map and interleaving of
\* kbd_isr with kbd_getchar.
THEOREM KeyboardInvariant == Spec => []KInv
<1>1. KInv /\ [Next]_vars => KInv'
  <2> SUFFICES ASSUME KInv, [Next]_vars PROVE KInv'
    OBVIOUS
  <2>1. CASE \E k \in Keys : Press(k) \/ Release(k)
    BY <2>1, KeyLemma
  <2>2. CASE kbd_isr
    BY <2>2, IsrLemma
  <2>3. CASE Timer \/ kbd_getchar
    BY <2>3, ReaderLemma
  <2>4. CASE UNCHANGED vars
    BY <2>4 DEF vars, ringVars, modVars, readVars, KInv, Typed, TypeOK, ReaderUndisturbed,
                kbd_has_char, Settling
  <2> QED
    BY <2>1, <2>2, <2>3, <2>4 DEF Next
<1> QED
  BY <1>1, InitKInv, PTL DEF Spec

\* kbd_head and kbd_tail stay in kbd_buf[], which holds characters only.
THEOREM IndicesInBuffer == Spec => []TypeOK
BY KeyboardInvariant, PTL DEF KInv, Typed

\* kbd_getchar takes the character it saw: whatever kbd_isr does between the
\* test, the read and the store to kbd_tail, the slot stays filled and intact.
THEOREM ReaderIsUndisturbed == Spec => []ReaderUndisturbed
BY KeyboardInvariant, PTL DEF KInv

\* shift_held is clear once every code is handled and no Shift key is held.
THEOREM ShiftIsReleased == Spec => []ShiftNeverSticks
<1>1. KInv => ShiftNeverSticks
  <2> SUFFICES ASSUME KInv, pending = <<>>, down \cap Shifts = {} PROVE shift_held = 0
    BY DEF ShiftNeverSticks
  <2>1. down = {} /\ shift_held \in {0, 1} /\ Len(pending) = 0
    BY DEF KInv, Typed, TypeOK
  <2> QED
    BY <2>1 DEF KInv, Settling
<1> QED
  BY <1>1, KeyboardInvariant, PTL

(***************************************************************************)
(* The ring implements the queue                                           *)
(***************************************************************************)
\* The number of characters between two indices.
LEMMA CountOf ==
  ASSUME NEW h \in Index, NEW t \in Index
  PROVE  (h + KBD_BUF_SIZE - t) % KBD_BUF_SIZE
           = IF t <= h THEN h - t ELSE h + KBD_BUF_SIZE - t
<1>1. /\ KBD_BUF_SIZE \in Int /\ h \in Int /\ 0 <= h /\ h < KBD_BUF_SIZE
      /\ t \in Int /\ 0 <= t /\ t < KBD_BUF_SIZE
  BY SizeAssumption DEF Index
<1>2. PICK a \in Int : a = h + KBD_BUF_SIZE - t
  BY <1>1
<1>3. a % KBD_BUF_SIZE = IF a < KBD_BUF_SIZE THEN a ELSE a - KBD_BUF_SIZE
  <2>1. KBD_BUF_SIZE \in Nat \ {0} /\ a \in 0 .. (2 * KBD_BUF_SIZE - 1)
    BY <1>1, <1>2
  <2> QED
    BY <2>1, Wrap, Zenon
<1>4. a % KBD_BUF_SIZE = IF t <= h THEN h - t ELSE h + KBD_BUF_SIZE - t
  BY <1>1, <1>2, <1>3
<1> QED
  BY <1>2, <1>4, Zenon

\* The slot of the i-th character from an index.
LEMMA SlotOf ==
  ASSUME NEW t \in Index, NEW i \in 1 .. KBD_BUF_SIZE
  PROVE  (t + i - 1) % KBD_BUF_SIZE
           = IF t + i - 1 < KBD_BUF_SIZE THEN t + i - 1 ELSE t + i - 1 - KBD_BUF_SIZE
<1>1. /\ KBD_BUF_SIZE \in Int /\ t \in Int /\ 0 <= t /\ t < KBD_BUF_SIZE
      /\ i \in Int /\ 1 <= i /\ i <= KBD_BUF_SIZE
  BY SizeAssumption DEF Index
<1>2. PICK a \in Int : a = t + i - 1
  BY <1>1
<1>3. a % KBD_BUF_SIZE = IF a < KBD_BUF_SIZE THEN a ELSE a - KBD_BUF_SIZE
  <2>1. KBD_BUF_SIZE \in Nat \ {0} /\ a \in 0 .. (2 * KBD_BUF_SIZE - 1)
    BY <1>1, <1>2
  <2> QED
    BY <2>1, Wrap, Zenon
<1>4. a % KBD_BUF_SIZE = IF t + i - 1 < KBD_BUF_SIZE THEN t + i - 1 ELSE t + i - 1 - KBD_BUF_SIZE
  BY <1>1, <1>2, <1>3
<1> QED
  BY <1>2, <1>4, Zenon

\* The length of the queue the ring holds.
LEMMA ContentsLength ==
  ASSUME NEW h \in Index, NEW t \in Index
  PROVE  (h + KBD_BUF_SIZE - t) % KBD_BUF_SIZE \in 0 .. (KBD_BUF_SIZE - 1)
<1>1. /\ KBD_BUF_SIZE \in Int /\ h \in Int /\ 0 <= h /\ h < KBD_BUF_SIZE
      /\ t \in Int /\ 0 <= t /\ t < KBD_BUF_SIZE
  BY SizeAssumption DEF Index
<1> QED
  BY <1>1, CountOf

\* kbd_put appends to the queue, or drops the character when it is full.
LEMMA PutRefines ==
  ASSUME Typed, NEW ch \in Char, kbd_put(ch), UNCHANGED <<kbd_tail, out>>
  PROVE  Queue!Put(ch) \/ UNCHANGED <<Contents, out>>
<1> DEFINE K == KBD_BUF_SIZE
           h == kbd_head
           t == kbd_tail
<1>1. h \in Index /\ t \in Index /\ kbd_buf \in [Index -> Char \cup {NoChar}]
  BY DEF Typed, TypeOK
<1>2. /\ K \in Int /\ h \in Int /\ 0 <= h /\ h < K /\ t \in Int /\ 0 <= t /\ t < K
  BY <1>1, SizeAssumption DEF Index
<1>3. Count \in 0 .. (K - 1) /\ Count = IF t <= h THEN h - t ELSE h + K - t
  BY <1>1, CountOf, ContentsLength DEF Count
<1>4. CASE UNCHANGED ringVars
  BY <1>4 DEF ringVars, Contents, Count
<1>5. CASE /\ (h + 1) % K # t
           /\ kbd_buf' = [kbd_buf EXCEPT ![h] = ch]
           /\ kbd_head' = (h + 1) % K
  <2>1. kbd_head' \in Index /\ kbd_head' # t /\ kbd_head' = IF h + 1 = K THEN 0 ELSE h + 1
    BY <1>1, <1>5, NextIndex
  <2>2. Count' = IF t <= kbd_head' THEN kbd_head' - t ELSE kbd_head' + K - t
    BY <1>1, <2>1, CountOf DEF Count
  <2>3. Count' = Count + 1 /\ Count < K - 1
    BY <1>2, <1>3, <2>1, <2>2
  <2>4. ASSUME NEW i \in 1 .. Count
        PROVE  kbd_buf'[(t + i - 1) % K] = kbd_buf[(t + i - 1) % K]
    <3>1. i \in 1 .. K /\ i \in Int /\ 1 <= i /\ i <= Count
      BY <1>2, <1>3
    <3>2. (t + i - 1) % K = IF t + i - 1 < K THEN t + i - 1 ELSE t + i - 1 - K
      BY <1>1, <3>1, SlotOf
    <3>3. (t + i - 1) % K # h
      BY <1>2, <1>3, <3>1, <3>2
    <3> QED
      BY <1>1, <1>5, <3>3
  <2>5. kbd_buf'[(t + (Count + 1) - 1) % K] = ch
    <3>1. PICK i \in 1 .. K : i = Count + 1
      BY <1>2, <1>3, <2>3
    <3>2. (t + i - 1) % K = IF t + i - 1 < K THEN t + i - 1 ELSE t + i - 1 - K
      BY <1>1, SlotOf
    <3>3. (t + i - 1) % K = h
      BY <1>2, <1>3, <2>3, <3>1, <3>2
    <3>4. (t + (Count + 1) - 1) % K = h
      BY <3>1, <3>3, Zenon
    <3> QED
      BY <1>1, <1>5, <3>4
  <2>6. Contents' = [i \in 1 .. Count + 1 |-> kbd_buf'[(t + i - 1) % K]]
    BY <2>3 DEF Contents
  <2>7. Contents' = Append(Contents, ch)
    <3> DEFINE f == [i \in 1 .. Count |-> kbd_buf[(t + i - 1) % K]]
               g == [i \in 1 .. Count + 1 |-> kbd_buf'[(t + i - 1) % K]]
    <3>1. Append(f, ch) = g
      BY <1>3, <2>4, <2>5
    <3> QED
      BY <2>6, <3>1 DEF Contents
  <2>8. Len(Contents) = Count
    BY <1>3 DEF Contents
  <2> QED
    BY <2>3, <2>7, <2>8 DEF Queue!Put
<1> QED
  BY <1>4, <1>5 DEF kbd_put

\* The store to kbd_tail takes the first character off the queue.
LEMMA AdvanceRefines ==
  ASSUME Typed, ReaderUndisturbed, Advance
  PROVE  Queue!Get
<1> DEFINE K == KBD_BUF_SIZE
           h == kbd_head
           t == kbd_tail
<1>1. h \in Index /\ t \in Index
  BY DEF Typed, TypeOK
<1>2. /\ K \in Int /\ h \in Int /\ 0 <= h /\ h < K /\ t \in Int /\ 0 <= t /\ t < K
  BY <1>1, SizeAssumption DEF Index
<1>3. Count \in 0 .. (K - 1) /\ Count = IF t <= h THEN h - t ELSE h + K - t
  BY <1>1, CountOf, ContentsLength DEF Count
<1>4. h # t /\ kbd_buf[t] = c /\ out' = <<c>> /\ kbd_head' = h /\ kbd_buf' = kbd_buf
  BY DEF Advance, Step, ReaderUndisturbed, kbd_has_char, ringVars
<1>5. kbd_tail' \in Index /\ kbd_tail' = IF t + 1 = K THEN 0 ELSE t + 1
  BY <1>1, NextIndex DEF Advance
<1>6. Count' = Count - 1 /\ 0 < Count
  <2>1. Count' = IF kbd_tail' <= h THEN h - kbd_tail' ELSE h + K - kbd_tail'
    BY <1>1, <1>4, <1>5, CountOf DEF Count
  <2> QED
    BY <1>2, <1>3, <1>4, <1>5, <2>1
<1>7. ASSUME NEW i \in 1 .. (Count - 1)
      PROVE  (kbd_tail' + i - 1) % K = (t + (i + 1) - 1) % K
  <2>1. PICK j \in 1 .. K : j = i + 1
    BY <1>2, <1>3
  <2>2. i \in 1 .. K /\ i \in Int
    BY <1>2, <1>3
  <2>3. (kbd_tail' + i - 1) % K = IF kbd_tail' + i - 1 < K THEN kbd_tail' + i - 1 ELSE kbd_tail' + i - 1 - K
    BY <1>5, <2>2, SlotOf
  <2>4. (t + j - 1) % K = IF t + j - 1 < K THEN t + j - 1 ELSE t + j - 1 - K
    BY <1>1, SlotOf
  <2>5. (kbd_tail' + i - 1) % K = (t + j - 1) % K
    BY <1>2, <1>3, <1>5, <2>1, <2>2, <2>3, <2>4
  <2> QED
    BY <2>1, <2>5, Zenon
<1>8. (t + 1 - 1) % K = t
  <2>1. t + 1 - 1 = t /\ t % K = t
    BY <1>2
  <2> QED
    BY <2>1
<1>9. Contents # <<>> /\ Head(Contents) = c
  <2>1. Len(Contents) = Count /\ Contents[1] = kbd_buf[(t + 1 - 1) % K]
    BY <1>3, <1>6 DEF Contents
  <2> QED
    BY <1>4, <1>6, <1>8, <2>1
<1>10. Contents' = Tail(Contents)
  <2>1. Contents' = [i \in 1 .. (Count - 1) |-> kbd_buf[(kbd_tail' + i - 1) % K]]
    BY <1>4, <1>6 DEF Contents
  <2>2. Tail(Contents) = [i \in 1 .. (Count - 1) |-> kbd_buf[(t + (i + 1) - 1) % K]]
    BY <1>3, <1>6 DEF Contents
  <2> QED
    BY <1>7, <2>1, <2>2
<1> QED
  BY <1>4, <1>9, <1>10 DEF Queue!Get

\* Every step of the driver is a step of the queue or leaves it alone.
LEMMA StepRefines ==
  ASSUME KInv, [Next]_vars
  PROVE  [Queue!Next]_<<Contents, out>>
<1> USE DEF KInv
<1>1. CASE UNCHANGED <<ringVars, kbd_tail, out>>
  BY <1>1 DEF ringVars, Contents, Count
<1>2. CASE kbd_isr
  <2>1. UNCHANGED ringVars \/ \E ch \in Char : kbd_put(ch)
    <3> DEFINE k == Head(pending).key
    <3>1. k \in Keys
      <4>1. Head(pending) \in Code
        BY <1>2 DEF kbd_isr, Typed
      <4> QED
        BY <4>1 DEF Code
    <3>2. k \notin Shifts \cup {"CapsLock"} \cup Silent => Translate(k) \in Char
      BY <3>1, TranslateType DEF Keys
    <3> QED
      BY <1>2, <3>2 DEF kbd_isr, BreakCode, MakeCode
  <2>2. UNCHANGED <<kbd_tail, out>>
    BY <1>2 DEF kbd_isr
  <2> QED
    BY <1>1, <2>1, <2>2, PutRefines DEF Queue!Next
<1>3. CASE Advance
  BY <1>3, AdvanceRefines DEF Queue!Next
<1>4. CASE Timer \/ Call \/ CheckEmpty \/ CheckFound \/ Halt \/ ReadChar
  BY <1>1, <1>4 DEF Timer, Call, CheckEmpty, CheckFound, Halt, ReadChar, Step
<1>5. CASE UNCHANGED vars \/ \E k \in Keys : Press(k) \/ Release(k)
  BY <1>1, <1>5 DEF vars, readVars, Press, Release
<1> QED
  BY <1>2, <1>3, <1>4, <1>5 DEF Next, kbd_getchar

\* The ring buffer, written by kbd_isr and read by kbd_getchar without a lock,
\* is a bounded first-in first-out queue of KBD_BUF_SIZE - 1 characters.
THEOREM RingIsQueue == Spec => Queue!Spec
<1>1. Init => Queue!Init
  <2> SUFFICES ASSUME Init PROVE Contents = <<>> /\ out = <<>>
    BY DEF Queue!Init
  <2>1. (0 + KBD_BUF_SIZE - 0) % KBD_BUF_SIZE = 0
    BY CountOf, SizeAssumption DEF Index
  <2>2. Count = 0
    BY <2>1 DEF Count, Init
  <2> QED
    BY <2>2 DEF Contents, Init
<1>2. KInv /\ [Next]_vars => [Queue!Next]_<<Contents, out>>
  BY StepRefines
<1> QED
  BY <1>1, <1>2, KeyboardInvariant, PTL DEF Spec, Queue!Spec, Queue!vars
=============================================================================
