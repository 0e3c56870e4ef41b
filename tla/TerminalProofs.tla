--------------------------- MODULE TerminalProofs ---------------------------
(***************************************************************************)
(* For every screen and every buffer size: the cursor stays on the screen, *)
(* the screen is empty from the cursor on, and while a line is read its    *)
(* characters stand right before the cursor.                               *)
(***************************************************************************)
EXTENDS Terminal, TLAPS

USE DEF Cells, Cell

\* A cell's number from its row and column, as VGA_MEM[row * VGA_WIDTH + col].
At(r, c) == r * VGA_WIDTH + c

\* Row-major numbering: in range, one row apart, and the last row's cells.
LEMMA Geometry ==
  ASSUME NEW r \in 0 .. (VGA_HEIGHT - 1), NEW c \in 0 .. (VGA_WIDTH - 1)
  PROVE  /\ At(r, c) \in Cell
         /\ At(r + 1, 0) = At(r, VGA_WIDTH - 1) + 1
         /\ At(r, c) = At(r, 0) + c
         /\ At(VGA_HEIGHT - 1, 0) = Cells - VGA_WIDTH
         /\ r > 0 => At(r - 1, VGA_WIDTH - 1) = At(r, 0) - 1
         /\ r + 1 < VGA_HEIGHT => At(r + 1, 0) <= Cells - VGA_WIDTH
         /\ VGA_WIDTH <= Cells
PROOF
<1> DEFINE W == VGA_WIDTH
           H == VGA_HEIGHT
<1>1. W \in Nat /\ W > 0 /\ H \in Nat /\ H > 0
  BY TerminalAssumption
<1>2. PICK h \in Nat : H = r + 1 + h
  BY <1>1
<1>3. W * H = r * W + W + h * W /\ h * W \in Nat /\ r * W \in Nat
  BY <1>1, <1>2
<1>4. (H - 1) * W = W * H - W
  BY <1>1
<1>5. (r + 1) * W = r * W + W
  BY <1>1
<1>6. r > 0 => (r - 1) * W = r * W - W
  BY <1>1
<1>7. r + 1 < H => h * W >= W
  BY <1>1, <1>2
<1> QED
  BY <1>1, <1>3, <1>4, <1>5, <1>6, <1>7 DEF At

\* What vga.c keeps between two calls.
ScreenOK ==
  /\ VGA_MEM \in [Cell -> Char]
  /\ row \in 0 .. (VGA_HEIGHT - 1) /\ col \in 0 .. (VGA_WIDTH - 1)
  /\ BlankAfterCursor

\* The new screen is `mem` with `up` cells scrolled away, up to the cursor; a
\* scroll leaves the cursor at the start of the last row.
Moved(mem, up) ==
  /\ up = 0 \/ Cursor' = Cells - VGA_WIDTH
  /\ \A i \in Cell : i < Cursor' => i + up \in Cell /\ VGA_MEM'[i] = mem[i + up]

\* row++ and scroll_if_needed, on a screen that is empty below this row.
LEMMA NextRowLemma ==
  ASSUME ScreenOK, NEW mem \in [Cell -> Char], NextRow(mem), col' = 0,
         \A i \in Cell : i >= At(row + 1, 0) => mem[i] = Space
  PROVE  /\ ScreenOK'
         /\ \E up \in {0, VGA_WIDTH} : Cursor' = At(row + 1, 0) - up /\ Moved(mem, up)
PROOF
<1>1. VGA_WIDTH \in Nat \ {0} /\ VGA_HEIGHT \in Nat \ {0} /\ Space \in Char
  BY TerminalAssumption DEF Char
<1>2. /\ row \in 0 .. (VGA_HEIGHT - 1) /\ At(row + 1, 0) \in Nat
      /\ At(VGA_HEIGHT - 1, 0) = Cells - VGA_WIDTH /\ Cells \in Nat /\ VGA_WIDTH <= Cells
  BY <1>1, Geometry DEF ScreenOK, At
<1>3. Cursor' = At(row', col')
  BY DEF Cursor, At
<1>4. CASE row + 1 < VGA_HEIGHT
  <2>1. row' = row + 1 /\ VGA_MEM' = mem
    BY <1>4 DEF NextRow
  <2>2. Cursor' = At(row + 1, 0)
    BY <2>1, <1>3
  <2>3. ScreenOK'
    BY <1>1, <1>2, <1>4, <2>1, <2>2 DEF ScreenOK, BlankAfterCursor
  <2>4. Cursor' = At(row + 1, 0) - 0 /\ Moved(mem, 0)
    BY <1>2, <2>1, <2>2 DEF Moved
  <2> QED
    BY <2>3, <2>4
<1>5. CASE ~(row + 1 < VGA_HEIGHT)
  <2>1. row' = VGA_HEIGHT - 1 /\ VGA_MEM' = Scrolled(mem) /\ row + 1 = VGA_HEIGHT
    BY <1>1, <1>2, <1>5 DEF NextRow
  <2>2. Cursor' = Cells - VGA_WIDTH
    BY <2>1, <1>2, <1>3
  <2>3. At(row + 1, 0) = Cells
    BY <1>1, <2>1 DEF At
  <2>4. VGA_MEM' \in [Cell -> Char]
    BY <1>1, <1>2, <2>1 DEF Scrolled
  <2>5. BlankAfterCursor'
    BY <1>1, <1>2, <2>1, <2>2 DEF BlankAfterCursor, Scrolled
  <2>6. Moved(mem, VGA_WIDTH)
    BY <1>1, <1>2, <2>1, <2>2 DEF Moved, Scrolled
  <2> QED
    BY <1>1, <1>2, <2>1, <2>2, <2>3, <2>4, <2>5, <2>6 DEF ScreenOK
<1> QED
  BY <1>4, <1>5

\* A printed character moves the cursor by one, over the end of a row too.
LEMMA GlyphLemma ==
  ASSUME ScreenOK, NEW c \in Char, Glyph(c)
  PROVE  /\ ScreenOK'
         /\ \E up \in {0, VGA_WIDTH} :
              Cursor' = Cursor + 1 - up /\ Moved([VGA_MEM EXCEPT ![Cursor] = c], up)
PROOF
<1> DEFINE mem == [VGA_MEM EXCEPT ![Cursor] = c]
<1>1. VGA_WIDTH \in Nat \ {0} /\ VGA_HEIGHT \in Nat \ {0}
  BY TerminalAssumption
<1>2. /\ row \in 0 .. (VGA_HEIGHT - 1) /\ col \in 0 .. (VGA_WIDTH - 1)
      /\ Cursor = At(row, 0) + col /\ Cursor \in Cell /\ Cells \in Nat
      /\ At(row + 1, 0) = At(row, 0) + VGA_WIDTH /\ At(row, 0) \in Nat
  BY <1>1, Geometry DEF ScreenOK, Cursor, At
<1>3. mem \in [Cell -> Char] /\ \A i \in Cell : i > Cursor => mem[i] = Space
  BY <1>2 DEF ScreenOK, BlankAfterCursor
<1>4. CASE col + 1 >= VGA_WIDTH
  <2>1. col' = 0 /\ NextRow(mem) /\ At(row + 1, 0) = Cursor + 1
    BY <1>1, <1>2, <1>4 DEF Glyph
  <2>2. \A i \in Cell : i >= At(row + 1, 0) => mem[i] = Space
    BY <1>2, <1>3, <2>1
  <2> HIDE DEF mem
  <2>3. /\ ScreenOK'
        /\ \E up \in {0, VGA_WIDTH} : Cursor' = At(row + 1, 0) - up /\ Moved(mem, up)
    BY <1>3, <2>1, <2>2, NextRowLemma
  <2>4. PICK up \in {0, VGA_WIDTH} : Cursor' = At(row + 1, 0) - up /\ Moved(mem, up)
    BY <2>3
  <2>5. Cursor' = Cursor + 1 - up
    BY <1>1, <1>2, <2>1, <2>4
  <2>6. Moved([VGA_MEM EXCEPT ![Cursor] = c], up)
    BY <2>4 DEF mem
  <2> QED
    BY <2>3, <2>5, <2>6
<1>5. CASE ~(col + 1 >= VGA_WIDTH)
  <2>1. col' = col + 1 /\ row' = row /\ VGA_MEM' = mem
    BY <1>5 DEF Glyph
  <2>2. Cursor' = Cursor + 1
    BY <1>1, <1>2, <2>1 DEF Cursor
  <2>3. ScreenOK'
    BY <1>1, <1>2, <1>3, <1>5, <2>1, <2>2 DEF ScreenOK, BlankAfterCursor
  <2>4. Cursor' = Cursor + 1 - 0 /\ Moved(mem, 0)
    BY <1>2, <2>1, <2>2 DEF Moved
  <2> QED
    BY <2>3, <2>4
<1> QED
  BY <1>4, <1>5

\* '\n' keeps the screen empty from the cursor on.
LEMMA NewlineLemma ==
  ASSUME ScreenOK, Newline
  PROVE  ScreenOK'
PROOF
<1>1. VGA_WIDTH \in Nat \ {0} /\ VGA_HEIGHT \in Nat \ {0}
  BY TerminalAssumption
<1>2. /\ VGA_MEM \in [Cell -> Char] /\ col \in 0 .. (VGA_WIDTH - 1)
      /\ Cursor = At(row, 0) + col /\ At(row, 0) \in Nat
      /\ At(row + 1, 0) = At(row, 0) + VGA_WIDTH /\ Cells \in Nat
  BY <1>1, Geometry DEF ScreenOK, Cursor, At
<1>3. \A i \in Cell : i >= At(row + 1, 0) => VGA_MEM[i] = Space
  BY <1>1, <1>2 DEF ScreenOK, BlankAfterCursor
<1>4. col' = 0 /\ NextRow(VGA_MEM)
  BY DEF Newline
<1> QED
  BY <1>2, <1>3, <1>4, NextRowLemma

\* '\b' behind the first cell steps back by one cell, which it empties.
LEMMA BackspaceLemma ==
  ASSUME ScreenOK, Cursor > 0, Backspace
  PROVE  ScreenOK' /\ Cursor' = Cursor - 1 /\ Moved(VGA_MEM, 0)
PROOF
<1>1. VGA_WIDTH \in Nat \ {0} /\ VGA_HEIGHT \in Nat \ {0} /\ Space \in Char
  BY TerminalAssumption DEF Char
<1>2. /\ row \in 0 .. (VGA_HEIGHT - 1) /\ col \in 0 .. (VGA_WIDTH - 1)
      /\ Cursor = At(row, 0) + col /\ Cursor \in Cell /\ Cells \in Nat
      /\ row > 0 => At(row - 1, VGA_WIDTH - 1) = At(row, 0) - 1
      /\ At(row, 0) \in Nat
  BY <1>1, Geometry DEF ScreenOK, Cursor, At
<1>3. /\ row' \in 0 .. (VGA_HEIGHT - 1) /\ col' \in 0 .. (VGA_WIDTH - 1)
      /\ Cursor' = Cursor - 1
  <2>1. CASE col > 0 /\ col' = col - 1 /\ row' = row
    BY <1>1, <1>2, <2>1 DEF Cursor
  <2>2. CASE col = 0 /\ row > 0 /\ col' = VGA_WIDTH - 1 /\ row' = row - 1
    <3>1. Cursor' = At(row - 1, VGA_WIDTH - 1)
      BY <2>2 DEF Cursor, At
    <3> QED
      BY <1>1, <1>2, <2>2, <3>1
  <2>3. CASE col = 0 /\ row = 0
    BY <1>1, <2>3 DEF Cursor
  <2> QED
    BY <2>1, <2>2, <2>3 DEF Backspace
<1>4. VGA_MEM' = [VGA_MEM EXCEPT ![Cursor'] = Space]
  BY DEF Backspace, Cursor
<1> QED
  BY <1>1, <1>2, <1>3, <1>4 DEF ScreenOK, BlankAfterCursor, Moved

\* cls.
LEMMA ClearLemma ==
  ASSUME vga_clear
  PROVE  ScreenOK'
PROOF
<1>1. VGA_WIDTH \in Nat \ {0} /\ VGA_HEIGHT \in Nat \ {0} /\ Space \in Char
  BY TerminalAssumption DEF Char
<1> QED
  BY <1>1 DEF vga_clear, Blanks, ScreenOK, BlankAfterCursor

(***************************************************************************)
(* The inductive invariant                                                 *)
(***************************************************************************)
\* The buffers, apart from the screen.
ReaderOK ==
  /\ color \in Colors /\ code \in Seq(Calls)
  /\ pc \in {"run", "read", "parse"} /\ who \in Readers /\ n \in 0 .. (Size(who) - 1)
  /\ text = [r \in Readers |-> text[r]]
  /\ \A r \in Readers : text[r] \in [0 .. (Size(r) - 1) -> Char]

\* TInv in the parts the lemmas on the screen and on the readers use.
LEMMA InvariantParts == TInv <=> ScreenOK /\ ReaderOK /\ EchoMatchesLine
  BY DEF TInv, TypeOK, ScreenOK, ReaderOK

\* Every reader's buffer has room for the terminator and is no longer than
\* the screen without its last row.
LEMMA SizeFact ==
  ASSUME NEW r \in Readers
  PROVE  Size(r) \in Nat \ {0} /\ Size(r) - 1 <= Cells - VGA_WIDTH
PROOF
<1>1. VGA_WIDTH \in Nat \ {0} /\ VGA_HEIGHT \in Nat \ {0}
  BY TerminalAssumption
<1>2. VGA_WIDTH * (VGA_HEIGHT - 1) = Cells - VGA_WIDTH
  BY <1>1
<1>3. Size(r) \in Nat \ {0} /\ Size(r) <= VGA_WIDTH * (VGA_HEIGHT - 1) + 1
  BY TerminalAssumption
<1> HIDE DEF Cells
<1>4. Cells \in Nat
  BY <1>1 DEF Cells
<1> QED
  BY <1>1, <1>2, <1>3, <1>4

\* Everything the shell and its commands print is a sequence of calls.
LEMMA CodeFact ==
  /\ Hint \in Seq(Calls) /\ Prompt \in Seq(Calls)
  /\ Report \in Seq(Calls) /\ writeln \in Seq(Calls) /\ Ask("line") \in Seq(Calls)
  /\ \A c \in Commands : c \o <<Put(NL)>> \in Seq(Calls)
PROOF
<1>1. /\ Put("#") \in Calls /\ Put(NL) \in Calls /\ <<"clear", "">> \in Calls
      /\ \A fg \in Colors : Color(fg) \in Calls
      /\ \A r \in Readers : Read(r) \in Calls
  BY DEF Put, Color, Read, Calls, Char
<1>2. \A a \in Calls : <<a>> \in Seq(Calls)
  OBVIOUS
<1>3. \A a, b \in Calls : <<a, b>> \in Seq(Calls)
  OBVIOUS
<1>4. \A s, t \in Seq(Calls) : s \o t \in Seq(Calls)
  OBVIOUS
<1>5. writeln \in Seq(Calls)
  BY <1>1, <1>3 DEF writeln
<1>6. \A fg \in Colors : Colored(fg) \in Seq(Calls)
  <2> TAKE fg \in Colors
  <2>1. <<Color(fg)>> \in Seq(Calls) /\ <<Color("white")>> \in Seq(Calls)
    BY <1>1, <1>2 DEF Colors
  <2> QED
    BY <1>4, <1>5, <2>1 DEF Colored
<1>7. Error \in Seq(Calls) /\ Report \in Seq(Calls) /\ Colored("cyan") \in Seq(Calls)
  BY <1>6 DEF Error, Report, Colors
<1>8. Listing \in Seq(Calls)
  BY <1>4, <1>5, <1>7 DEF Listing
<1>9. \A r \in Readers : Ask(r) \in Seq(Calls)
  BY <1>1, <1>3 DEF Ask
<1>10. <<Put(NL)>> \in Seq(Calls) /\ <<<<"clear", "">>>> \in Seq(Calls)
  BY <1>1, <1>2
<1>11. Hint \in Seq(Calls)
  BY <1>4, <1>7, <1>10 DEF Hint
<1>12. Prompt \in Seq(Calls)
  <2>1. /\ Color("green") \in Calls /\ Put("#") \in Calls
        /\ Color("white") \in Calls /\ Read("shell") \in Calls
    BY <1>1 DEF Colors, Readers
  <2> HIDE DEF Calls
  <2> QED
    BY <2>1 DEF Prompt
<1>13. Ask("line") \in Seq(Calls) /\ Ask("ans") \in Seq(Calls)
  BY <1>9 DEF Readers
<1>14. /\ writeln \o Ask("line") \o Report \in Seq(Calls)
       /\ writeln \o Ask("line") \o Error \in Seq(Calls)
  BY <1>4, <1>5, <1>7, <1>13
<1>15. \A c \in Commands : c \in Seq(Calls)
  BY <1>5, <1>7, <1>8, <1>10, <1>13, <1>14, Zenon DEF Commands
<1> QED
  BY <1>4, <1>5, <1>7, <1>10, <1>11, <1>12, <1>13, <1>15

\* A character of the line: stored and shown, or dropped.  What stands before
\* the line is kept, or scrolled by one row.
LEMMA StoreLemma ==
  ASSUME TInv, NEW c \in Keys, Store(c)
  PROVE  TInv' /\ (pc' = "read" => \E up \in {0, VGA_WIDTH} :
                     /\ Cursor' - n' = Cursor - n - up
                     /\ \A i \in 0 .. (Cursor' - n' - 1) : VGA_MEM'[i] = VGA_MEM[i + up])
PROOF
<1>1. VGA_WIDTH \in Nat \ {0} /\ Cells \in Nat /\ c \in Char /\ c # NL /\ c # BS
  BY TerminalAssumption DEF Char
<1> HIDE DEF Cells
<1>2. ScreenOK /\ ReaderOK /\ EchoMatchesLine /\ pc = "read"
  BY InvariantParts DEF Store
<1>3. /\ who \in Readers /\ Size(who) \in Nat \ {0} /\ Size(who) - 1 <= Cells - VGA_WIDTH
      /\ n \in 0 .. (Size(who) - 1) /\ n <= Cursor
      /\ \A i \in 0 .. (n - 1) : VGA_MEM[Cursor - n + i] = text[who][i]
  BY <1>2, SizeFact DEF ReaderOK, EchoMatchesLine
<1>4. Cursor \in Cell /\ VGA_MEM \in [Cell -> Char]
  BY <1>2, Geometry DEF ScreenOK, Cursor, At
<1>5. CASE Accepts(c)
  <2>1. /\ n' = n + 1 /\ text' = [text EXCEPT ![who][n] = c] /\ Glyph(c)
        /\ UNCHANGED <<who, pc, code, color>>
    BY <1>1, <1>5 DEF Store, vga_putchar
  <2>2. n' \in 0 .. (Size(who) - 1)
    BY <1>3, <1>5, <2>1 DEF Accepts
  <2>3. ReaderOK'
    BY <1>1, <1>2, <1>3, <2>1, <2>2 DEF ReaderOK
  <2>4. ScreenOK'
    BY <1>1, <1>2, <2>1, GlyphLemma
  <2> DEFINE mem == [VGA_MEM EXCEPT ![Cursor] = c]
  <2>5. PICK up \in {0, VGA_WIDTH} : Cursor' = Cursor + 1 - up /\ Moved(mem, up)
    BY <1>1, <1>2, <2>1, GlyphLemma
  <2>6. \A i \in Cell : mem[i] = IF i = Cursor THEN c ELSE VGA_MEM[i]
    BY <1>4
  <2> HIDE DEF mem
  <2>7. Cursor' \in Int /\ n' <= Cursor' /\ Cursor' - n' = Cursor - n - up
    <3>1. up \in Nat /\ Cursor \in Int /\ n \in Int
      BY <1>1, <1>3, <1>4
    <3>2. Cursor' \in Int /\ Cursor' - n' = Cursor - n - up
      BY <2>1, <2>5, <3>1
    <3>3. CASE up = 0
      BY <1>3, <2>1, <2>5, <3>1, <3>2, <3>3
    <3>4. CASE up # 0
      <4>1. Cursor' = Cells - VGA_WIDTH
        BY <2>5, <3>4 DEF Moved
      <4> QED
        BY <1>1, <1>3, <2>2, <3>2, <4>1
    <3> QED
      BY <3>2, <3>3, <3>4
  <2>8. \A i \in 0 .. (Cursor' - 1) : i + up \in Cell /\ VGA_MEM'[i] = mem[i + up]
    BY <1>1, <1>4, <2>5 DEF Moved
  <2>9. \A i \in 0 .. (Cursor' - n' - 1) : VGA_MEM'[i] = VGA_MEM[i + up]
    <3>1. up \in Nat /\ n \in Nat /\ n' \in Nat /\ Cursor \in Nat
      BY <1>1, <1>3, <1>4, <2>1
    <3>2. PICK cur \in Int, m \in Nat : cur = Cursor' /\ m = n'
      BY <2>7, <3>1
    <3>3. cur - m = Cursor - n - up
      BY <2>7, <3>2
    <3>4. \A i \in 0 .. (cur - m - 1) : i \in 0 .. (cur - 1) /\ i + up # Cursor
      BY <3>1, <3>3
    <3>5. \A i \in 0 .. (cur - m - 1) : VGA_MEM'[i] = VGA_MEM[i + up]
      BY <2>6, <2>8, <3>2, <3>4
    <3> QED
      BY <3>2, <3>5
  <2>10. \A i \in 0 .. (n' - 1) : VGA_MEM'[Cursor' - n' + i] = text'[who][i]
    <3> TAKE i \in 0 .. (n' - 1)
    <3>1. i \in 0 .. n /\ Cursor' - n' + i \in 0 .. (Cursor' - 1)
      BY <1>3, <2>1, <2>2, <2>7
    <3>2. VGA_MEM'[Cursor' - n' + i] = mem[Cursor - n + i] /\ Cursor - n + i \in Cell
      <4>1. up \in Int /\ Cursor \in Int /\ n \in Int /\ n' \in Int /\ i \in Int
        BY <1>1, <1>3, <1>4, <2>1
      <4>2. PICK cur \in Int, m \in Int : cur = Cursor' /\ m = n'
        BY <2>7, <4>1
      <4>3. PICK a \in Int : a = Cursor - n
        BY <4>1
      <4>4. cur - m = a - up
        BY <2>7, <4>2, <4>3
      <4>5. (cur - m + i) + up = a + i
        BY <4>1, <4>4
      <4> QED
        BY <2>8, <3>1, <4>2, <4>3, <4>5
    <3>3. text'[who][i] = IF i = n THEN c ELSE text[who][i]
      BY <1>2, <1>3, <2>1, <3>1 DEF ReaderOK
    <3>4. CASE i = n
      BY <1>3, <1>4, <2>6, <3>2, <3>3, <3>4
    <3>5. CASE i # n
      <4>1. i \in 0 .. (n - 1) /\ Cursor - n + i # Cursor
        BY <1>3, <1>4, <3>1, <3>5
      <4> QED
        BY <1>3, <2>6, <3>2, <3>3, <3>5, <4>1
    <3> QED
      BY <3>4, <3>5
  <2>11. EchoMatchesLine'
    BY <2>1, <2>7, <2>10 DEF EchoMatchesLine
  <2>12. TInv'
    BY <2>3, <2>4, <2>11 DEF TInv, TypeOK, ScreenOK, ReaderOK
  <2> QED
    BY <2>7, <2>9, <2>12
<1>6. CASE ~Accepts(c)
  <2>1. UNCHANGED vars
    BY <1>6 DEF Store
  <2>2. TInv'
    BY <2>1 DEF vars, screen, reader, parser, TInv, TypeOK, BlankAfterCursor, EchoMatchesLine, Cursor
  <2>3. Cursor' = Cursor /\ n' = n /\ VGA_MEM' = VGA_MEM
    BY <2>1 DEF vars, screen, reader, Cursor
  <2>4. Cursor' - n' = Cursor - n - 0
    BY <1>1, <1>3, <1>4, <2>3
  <2>5. \A i \in 0 .. (Cursor' - n' - 1) : VGA_MEM'[i] = VGA_MEM[i + 0]
    BY <2>3
  <2> QED
    BY <2>2, <2>4, <2>5
<1> QED
  BY <1>5, <1>6

\* A step that changes nothing of the screen and the line.
LEMMA QuietLemma ==
  ASSUME TInv, UNCHANGED <<VGA_MEM, row, col, color, who, n, text>>,
         pc' \in {"run", "read", "parse"}, code' \in Seq(Calls), pc' = "read" => pc = "read"
  PROVE  TInv'
  BY DEF TInv, TypeOK, BlankAfterCursor, EchoMatchesLine, Cursor

\* Backspace: the last character leaves the line and the screen.
LEMMA EraseLemma ==
  ASSUME TInv, Erase
  PROVE  /\ TInv'
         /\ Cursor' - n' = Cursor - n
         /\ \A i \in 0 .. (Cursor' - n' - 1) : VGA_MEM'[i] = VGA_MEM[i]
PROOF
<1>1. VGA_WIDTH \in Nat \ {0} /\ Cells \in Nat
  BY TerminalAssumption
<1> HIDE DEF Cells
<1>2. ScreenOK /\ ReaderOK /\ EchoMatchesLine /\ pc = "read"
  BY InvariantParts DEF Erase
<1>3. /\ who \in Readers /\ Size(who) \in Nat \ {0}
      /\ n \in 0 .. (Size(who) - 1) /\ n <= Cursor
      /\ \A i \in 0 .. (n - 1) : VGA_MEM[Cursor - n + i] = text[who][i]
  BY <1>2, SizeFact DEF ReaderOK, EchoMatchesLine
<1>4. Cursor \in Cell /\ VGA_MEM \in [Cell -> Char]
  BY <1>2, Geometry DEF ScreenOK, Cursor, At
<1>5. CASE n > 0
  <2>1. n' = n - 1 /\ Backspace /\ UNCHANGED <<who, text, pc, code, color>> /\ Cursor > 0
    BY <1>3, <1>4, <1>5 DEF Erase, vga_putchar, NL, BS
  <2>2. ScreenOK' /\ Cursor' = Cursor - 1 /\ Moved(VGA_MEM, 0)
    BY <1>2, <2>1, BackspaceLemma
  <2>3. ReaderOK'
    BY <1>2, <1>3, <1>5, <2>1 DEF ReaderOK
  <2>4. \A i \in 0 .. (Cursor - 2) : VGA_MEM'[i] = VGA_MEM[i]
    BY <1>1, <1>4, <2>2 DEF Moved
  <2>5. n' <= Cursor' /\ Cursor' - n' = Cursor - n
    BY <1>3, <1>4, <2>1, <2>2
  <2>6. \A i \in 0 .. (n - 2) : VGA_MEM'[Cursor - n + i] = text[who][i]
    <3>1. \A i \in 0 .. (n - 2) : /\ Cursor - n + i \in 0 .. (Cursor - 2)
                                 /\ i \in 0 .. (n - 1)
      BY <1>3, <1>4, <1>5
    <3> QED
      BY <1>3, <2>4, <3>1
  <2>7. EchoMatchesLine'
    <3>1. \A i \in 0 .. (n' - 1) : VGA_MEM'[Cursor' - n' + i] = text'[who'][i]
      <4>1. n' - 1 = n - 2
        BY <1>3, <2>1
      <4> QED
        BY <2>1, <2>5, <2>6, <4>1
    <3> QED
      BY <2>5, <3>1 DEF EchoMatchesLine
  <2>8. TInv'
    BY <2>2, <2>3, <2>7 DEF TInv, TypeOK, ScreenOK, ReaderOK
  <2>9. \A i \in 0 .. (Cursor - n - 1) : VGA_MEM'[i] = VGA_MEM[i]
    BY <1>3, <1>4, <1>5, <2>4
  <2> QED
    BY <2>5, <2>8, <2>9
<1>6. CASE n = 0
  <2>1. UNCHANGED vars
    BY <1>6 DEF Erase
  <2>2. TInv'
    BY <1>2, <2>1, QuietLemma DEF vars, screen, reader, ReaderOK
  <2> QED
    BY <2>1, <2>2 DEF vars, screen, reader, Cursor
<1> QED
  BY <1>3, <1>5, <1>6

\* Enter: outside readline nothing is claimed of the line.
LEMMA EnterLemma ==
  ASSUME TInv, Enter
  PROVE  TInv'
PROOF
<1>1. ScreenOK /\ ReaderOK /\ Newline /\ color' = color
  BY InvariantParts DEF Enter, vga_putchar, NL, BS
<1>2. ScreenOK'
  BY <1>1, NewlineLemma
<1>3. /\ n' = 0 /\ who' = who /\ pc' \in {"run", "parse"}
      /\ who \in Readers /\ \A r \in Readers : Size(r) \in Nat \ {0}
  BY <1>1, SizeFact DEF Enter, ReaderOK
<1>4. code' \in Seq(Calls)
  <2>1. /\ code \in Seq(Calls) /\ <<>> \in Seq(Calls) /\ Ask("line") \in Seq(Calls)
        /\ Report \in Seq(Calls) /\ writeln \in Seq(Calls)
    BY <1>1, CodeFact DEF ReaderOK
  <2> HIDE DEF Calls
  <2>2. \A s \in Seq(Calls) : s \o code \in Seq(Calls)
    BY <2>1
  <2>3. \/ code' = code
        \/ \E s \in {<<>>, Ask("line"), Report, writeln} : code' = s \o code
    BY DEF Enter
  <2> QED
    BY <2>1, <2>2, <2>3
<1>5. /\ text' = [r \in Readers |-> text'[r]]
      /\ \A r \in Readers : text'[r] \in [0 .. (Size(r) - 1) -> Char]
  <2>1. /\ text = [r \in Readers |-> text[r]]
        /\ \A r \in Readers : text[r] \in [0 .. (Size(r) - 1) -> Char]
    BY <1>1 DEF ReaderOK
  <2>2. /\ [text[who] EXCEPT ![n] = NUL] \in [0 .. (Size(who) - 1) -> Char]
        /\ Fresh(who) \in [0 .. (Size(who) - 1) -> Char]
    BY <1>3, <2>1 DEF Char, Fresh
  <2>3. \E a \in [0 .. (Size(who) - 1) -> Char] : text' = [text EXCEPT ![who] = a]
    BY <2>2 DEF Enter
  <2> QED
    BY <1>3, <2>1, <2>3
<1>6. ReaderOK'
  BY <1>1, <1>3, <1>4, <1>5 DEF ReaderOK
<1>7. EchoMatchesLine'
  BY <1>3 DEF EchoMatchesLine
<1> QED
  BY <1>2, <1>6, <1>7 DEF TInv, TypeOK, ScreenOK, ReaderOK

\* The argument of a call belongs to its kind.
LEMMA CallArgument ==
  ASSUME NEW x \in Calls
  PROVE  /\ x[1] = "put" => x[2] \in Char \cup {NL}
         /\ x[1] = "color" => x[2] \in Colors
         /\ x[1] = "read" => x[2] \in Readers
PROOF
<1> HIDE DEF Char, Colors, Readers, NL
<1>1. CASE x \in {"put"} \X (Char \cup {NL})
  BY <1>1
<1>2. CASE x \in {"color"} \X Colors
  BY <1>2
<1>3. CASE x \in {"read"} \X Readers
  BY <1>3
<1>4. CASE x = <<"clear", "">>
  BY <1>4
<1> QED
  BY <1>1, <1>2, <1>3, <1>4 DEF Calls

\* One call of vga.c, or the entry into readline with an empty line.
LEMMA CallLemma ==
  ASSUME TInv, Call
  PROVE  TInv'
PROOF
<1>1. ScreenOK /\ ReaderOK /\ pc = "run" /\ code \in Seq(Calls) /\ code # <<>>
  BY InvariantParts DEF Call, ReaderOK
<1>2. Head(code) \in Calls /\ code' = Tail(code) /\ code' \in Seq(Calls)
  <2> HIDE DEF Calls
  <2> QED
    BY <1>1 DEF Call
<1>3. CASE Head(code)[1] = "put" /\ vga_putchar(Head(code)[2]) /\ UNCHANGED <<pc, reader>>
  <2>1. Head(code)[2] \in Char \cup {NL}
    BY <1>2, <1>3, CallArgument
  <2>4. BS \notin Char
    BY TerminalAssumption DEF Char, BS, NUL
  <2>2. ScreenOK' /\ color' = color
    <3>1. CASE Head(code)[2] = NL
      BY <1>1, <1>3, <3>1, NewlineLemma DEF vga_putchar, NL, BS
    <3>2. CASE Head(code)[2] # NL
      <4>1. Head(code)[2] \in Char /\ Head(code)[2] # BS /\ Glyph(Head(code)[2])
        BY <1>3, <2>1, <2>4, <3>2 DEF vga_putchar, NL
      <4> QED
        BY <1>1, <1>3, <4>1, GlyphLemma DEF vga_putchar
    <3> QED
      BY <3>1, <3>2
  <2>3. ReaderOK' /\ EchoMatchesLine'
    BY <1>1, <1>2, <1>3, <2>2 DEF ReaderOK, EchoMatchesLine, reader
  <2> QED
    BY <2>2, <2>3 DEF TInv, TypeOK, ScreenOK, ReaderOK
<1>4. CASE Head(code)[1] = "color" /\ vga_set_color(Head(code)[2]) /\ UNCHANGED <<pc, reader>>
  <2>1. color' \in Colors /\ UNCHANGED <<VGA_MEM, row, col, pc, who, n, text>>
    BY <1>2, <1>4, CallArgument DEF vga_set_color, reader
  <2> QED
    BY <1>1, <1>2, <2>1
    DEF TInv, TypeOK, ScreenOK, ReaderOK, BlankAfterCursor, EchoMatchesLine, Cursor
<1>5. CASE Head(code)[1] = "clear" /\ vga_clear /\ UNCHANGED <<pc, reader>>
  <2>1. ScreenOK' /\ color' = color
    BY <1>5, ClearLemma DEF vga_clear
  <2>2. ReaderOK' /\ EchoMatchesLine'
    BY <1>1, <1>2, <1>5, <2>1 DEF ReaderOK, EchoMatchesLine, reader
  <2> QED
    BY <2>1, <2>2 DEF TInv, TypeOK, ScreenOK, ReaderOK
<1>6. CASE /\ Head(code)[1] = "read" /\ pc' = "read" /\ who' = Head(code)[2] /\ n' = 0
           /\ UNCHANGED <<text, screen>>
  <2>1. /\ who' \in Readers /\ n' = 0 /\ pc' = "read"
        /\ UNCHANGED <<VGA_MEM, row, col, color, text>>
    BY <1>2, <1>6, CallArgument DEF screen
  <2>2. n' \in 0 .. (Size(who') - 1)
    BY <2>1, SizeFact
  <2>3. Cursor \in Nat /\ Cursor' = Cursor
    BY <1>1, <2>1, Geometry DEF ScreenOK, Cursor, At
  <2>4. EchoMatchesLine'
    BY <2>1, <2>3 DEF EchoMatchesLine
  <2>5. ScreenOK' /\ ReaderOK'
    BY <1>1, <1>2, <2>1, <2>2, <2>3 DEF ScreenOK, ReaderOK, BlankAfterCursor
  <2> QED
    BY <2>4, <2>5 DEF TInv, TypeOK, ScreenOK, ReaderOK
<1> QED
  BY <1>3, <1>4, <1>5, <1>6 DEF Call

\* The turn of shell_run's loop, and parse_cmd with dispatch, print nothing.
LEMMA ShellLemma ==
  ASSUME TInv, ShellLoop \/ Token \/ Dispatch
  PROVE  TInv'
PROOF
<1>1. CASE ShellLoop
  BY <1>1, CodeFact, QuietLemma DEF ShellLoop, screen, reader, TInv, TypeOK
<1>2. CASE Token
  <2>1. UNCHANGED <<VGA_MEM, row, col, color, code, pc, who, n>> /\ pc = "parse"
    BY <1>2 DEF Token, screen
  <2>2. /\ text' = [r \in Readers |-> text'[r]]
        /\ \A r \in Readers : text'[r] \in [0 .. (Size(r) - 1) -> Char]
    <3>1. text' = [text EXCEPT !["shell"] = [@ EXCEPT ![TokenEnd] = NUL]]
      BY <1>2 DEF Token
    <3>2. [text["shell"] EXCEPT ![TokenEnd] = NUL] \in [0 .. (Size("shell") - 1) -> Char]
      BY DEF TInv, TypeOK, Char, Readers
    <3> QED
      BY <3>1, <3>2 DEF TInv, TypeOK, Readers
  <2> QED
    BY <2>1, <2>2 DEF TInv, TypeOK, BlankAfterCursor, EchoMatchesLine, Cursor
<1>3. CASE Dispatch
  <2>1. code' \in Seq(Calls)
    BY <1>3, CodeFact DEF Dispatch, TInv
  <2> QED
    BY <1>3, <2>1, QuietLemma DEF Dispatch, screen, reader
<1> QED
  BY <1>1, <1>2, <1>3

\* For every screen and buffer size that satisfies the assumption, which
\* 80 x 25 and buffers of 256 do, the screen and the line agree at every step.
THEOREM TerminalInvariant == Spec => []TInv
PROOF
<1>1. Init => TInv
  <2> SUFFICES ASSUME Init PROVE TInv
    OBVIOUS
  <2>1. \A r \in Readers : Size(r) \in Nat \ {0}
    BY SizeFact
  <2>2. ScreenOK
    <3>1. VGA_WIDTH \in Nat \ {0} /\ VGA_HEIGHT \in Nat \ {0} /\ Space \in Char
      BY TerminalAssumption DEF Char
    <3> QED
      BY <3>1 DEF Init, Blanks, ScreenOK, BlankAfterCursor
  <2>3. text = [r \in Readers |-> text[r]] /\ \A r \in Readers : text[r] = Fresh(r)
    BY DEF Init
  <2>4. ReaderOK
    BY <2>1, <2>3, CodeFact DEF Init, ReaderOK, Colors, Readers, Fresh, Char
  <2>5. EchoMatchesLine
    BY DEF Init, EchoMatchesLine
  <2> QED
    BY <2>2, <2>4, <2>5, InvariantParts
<1>2. TInv /\ [Next]_vars => TInv'
  <2> SUFFICES ASSUME TInv, [Next]_vars PROVE TInv'
    OBVIOUS
  <2>1. CASE UNCHANGED vars
    BY <2>1, QuietLemma DEF vars, screen, reader, TInv, TypeOK
  <2>2. CASE Next
    BY <2>2, CallLemma, ShellLemma, StoreLemma, EraseLemma, EnterLemma DEF Next
  <2> QED
    BY <2>1, <2>2
<1> QED
  BY <1>1, <1>2, PTL DEF Spec

\* The cursor never leaves the screen and no line its buffer (vga_putchar,
\* readline).
THEOREM CursorOnScreen == Spec => []TypeOK
PROOF
<1>1. TInv => TypeOK
  BY DEF TInv
<1> QED
  BY <1>1, TerminalInvariant, PTL

\* Nothing stands at or behind the cursor (scroll_if_needed, vga_putchar).
THEOREM EmptyBehindCursor == Spec => []BlankAfterCursor
PROOF
<1>1. TInv => BlankAfterCursor
  BY DEF TInv
<1> QED
  BY <1>1, TerminalInvariant, PTL

\* What the user sees of the line is what readline returns.
THEOREM EchoIsLine == Spec => []EchoMatchesLine
PROOF
<1>1. TInv => EchoMatchesLine
  BY DEF TInv
<1> QED
  BY <1>1, TerminalInvariant, PTL

\* What readline's steps do to the screen before the line: nothing, but for
\* the row a scroll takes away.
THEOREM PromptStays == Spec => PromptKept
PROOF
<1> DEFINE up == (Cursor - n) - (Cursor' - n')
           Kept == pc = "read" /\ pc' = "read" =>
                     /\ up \in {0, VGA_WIDTH}
                     /\ \A i \in 0 .. (Cursor' - n' - 1) : VGA_MEM'[i] = VGA_MEM[i + up]
<1>1. TInv /\ TInv' /\ [Next]_vars => [Kept]_vars
  <2> SUFFICES ASSUME TInv, TInv', Next, pc = "read", pc' = "read"
               PROVE  /\ up \in {0, VGA_WIDTH}
                      /\ \A i \in 0 .. (Cursor' - n' - 1) : VGA_MEM'[i] = VGA_MEM[i + up]
    OBVIOUS
  <2>1. VGA_WIDTH \in Nat \ {0} /\ Cells \in Nat
    BY TerminalAssumption
  <2>2. Cursor \in Nat /\ n \in Nat /\ Cursor' \in Nat /\ n' \in Nat
    <3>1. /\ row \in 0 .. (VGA_HEIGHT - 1) /\ col \in 0 .. (VGA_WIDTH - 1)
          /\ row' \in 0 .. (VGA_HEIGHT - 1) /\ col' \in 0 .. (VGA_WIDTH - 1)
          /\ who \in Readers /\ n \in 0 .. (Size(who) - 1)
          /\ who' \in Readers /\ n' \in 0 .. (Size(who') - 1)
      BY DEF TInv, TypeOK
    <3>2. At(row, col) \in Cell /\ At(row', col') \in Cell
      BY <3>1, Geometry
    <3>3. \A r \in Readers : Size(r) \in Nat \ {0}
      BY SizeFact
    <3>4. Cursor = At(row, col) /\ Cursor' = At(row', col')
      BY DEF Cursor, At
    <3> HIDE DEF Cells
    <3> QED
      BY <2>1, <3>1, <3>2, <3>3, <3>4
  <2> HIDE DEF Cells
  <2>6. PICK cur \in Nat, m \in Nat : cur = Cursor' /\ m = n'
    BY <2>2
  <2>3. \E d \in {0, VGA_WIDTH} :
          /\ Cursor' - n' = Cursor - n - d
          /\ \A i \in 0 .. (Cursor' - n' - 1) : VGA_MEM'[i] = VGA_MEM[i + d]
    <3>1. CASE \E c \in Keys : Store(c)
      BY <3>1, StoreLemma
    <3>2. CASE Erase
      <4>1. /\ Cursor' - n' = Cursor - n
            /\ \A i \in 0 .. (Cursor' - n' - 1) : VGA_MEM'[i] = VGA_MEM[i]
        BY <3>2, EraseLemma
      <4>2. cur - m = Cursor - n /\ \A i \in 0 .. (cur - m - 1) : VGA_MEM'[i] = VGA_MEM[i]
        BY <2>6, <4>1, Zenon
      <4>3. Cursor - n = Cursor - n - 0 /\ \A i \in Int : i + 0 = i
        BY <2>2
      <4>4. /\ cur - m = Cursor - n - 0
            /\ \A i \in 0 .. (cur - m - 1) : VGA_MEM'[i] = VGA_MEM[i + 0]
        BY <4>2, <4>3
      <4> QED
        BY <2>6, <4>4
    <3> QED
      BY <3>1, <3>2 DEF Next, Call, ShellLoop, Enter, Token, Dispatch
  <2>4. PICK d \in {0, VGA_WIDTH} :
          /\ Cursor' - n' = Cursor - n - d
          /\ \A i \in 0 .. (Cursor' - n' - 1) : VGA_MEM'[i] = VGA_MEM[i + d]
    BY <2>3
  <2>5. up = d
    <3>1. cur - m = Cursor - n - d
      BY <2>4, <2>6
    <3>2. (Cursor - n) - (cur - m) = d
      BY <2>1, <2>2, <2>4, <3>1
    <3> QED
      BY <2>6, <3>2
  <2> QED
    BY <2>4, <2>5
<1>2. Spec => [][Kept]_vars
  BY <1>1, TerminalInvariant, PTL DEF Spec
<1> QED
  BY <1>2 DEF PromptKept
=============================================================================
