------------------------------ MODULE Terminal ------------------------------
(***************************************************************************)
(* The shell's terminal: the screen of src/vga.c, the readline functions   *)
(* of shell.c, fs.c and dir.c, parse_cmd and the loop of shell_run.        *)
(*                                                                         *)
(* What a command prints is a sequence of calls of vga.c, held in `code`   *)
(* and executed one call at a time.  Messages are reduced to one character *)
(* each.  Colours are the foregrounds given to vga_set_color; a cell is    *)
(* its character, without the attribute.                                   *)
(***************************************************************************)
EXTENDS Integers, Sequences, FiniteSets

CONSTANTS VGA_WIDTH, VGA_HEIGHT,
          CMD_LEN, LINE_LEN, ANS_LEN,  \* sizes of buf, line[] and ans[]
          MAX_ARGS,
          Keys,                        \* what kbd_getchar returns but NL and BS
          Printable                    \* those in 0x20 .. 0x7E

NL == "\n"
BS == "BS"
NUL == "NUL"
Space == " "
Tab == "\t"
Blank == {Space, Tab}
Char == Keys \cup {NUL, "#"}
Colors == {"grey", "white", "red", "green", "cyan"}
Cells == VGA_WIDTH * VGA_HEIGHT
Cell == 0 .. (Cells - 1)

\* The readers: shell_run, the input loops of fs.c, and the y/n prompts.
Readers == {"shell", "line", "ans"}
Size(r) == CASE r = "shell" -> CMD_LEN [] r = "line" -> LINE_LEN [] OTHER -> ANS_LEN

ASSUME TerminalAssumption ==
  /\ VGA_WIDTH \in Nat \ {0} /\ VGA_HEIGHT \in Nat \ {0} /\ MAX_ARGS \in Nat \ {0}
  /\ \A r \in Readers : Size(r) \in Nat \ {0} /\ Size(r) <= VGA_WIDTH * (VGA_HEIGHT - 1) + 1
  /\ {NL, BS, NUL} \cap Keys = {} /\ Space \in Keys /\ Printable \subseteq Keys

VARIABLES
  VGA_MEM, row, col, color,   \* vga.c
  code,                       \* the calls the running command has yet to make
  pc, who, n, text,           \* readline: its caller, n, and each caller's buf
  p, argv,                    \* parse_cmd: p and the starts of the tokens
  typed                       \* history: the shell's line as it was entered

screen == <<VGA_MEM, row, col, color>>
reader == <<who, n, text>>
parser == <<p, argv, typed>>
vars == <<screen, code, pc, reader, parser>>

(***************************************************************************)
(* vga.c                                                                   *)
(***************************************************************************)
Cursor == row * VGA_WIDTH + col
Blanks == [i \in Cell |-> Space]

\* Mutant: the last row is not cleared.
ScrollKeepsLast(mem) ==
  [i \in Cell |-> IF i + VGA_WIDTH < Cells THEN mem[i + VGA_WIDTH] ELSE mem[i]]

Scrolled(mem) ==
  [i \in Cell |-> IF i + VGA_WIDTH < Cells THEN mem[i + VGA_WIDTH] ELSE Space]

\* row++ and scroll_if_needed, with the screen as it is by then.
NextRow(mem) ==
  IF row + 1 < VGA_HEIGHT
    THEN row' = row + 1 /\ VGA_MEM' = mem
    ELSE row' = VGA_HEIGHT - 1 /\ VGA_MEM' = Scrolled(mem)

Newline == col' = 0 /\ NextRow(VGA_MEM)

Backspace ==
  /\ \/ col > 0 /\ col' = col - 1 /\ row' = row
     \/ col = 0 /\ row > 0 /\ col' = VGA_WIDTH - 1 /\ row' = row - 1
     \/ col = 0 /\ row = 0 /\ col' = 0 /\ row' = 0
  /\ VGA_MEM' = [VGA_MEM EXCEPT ![row' * VGA_WIDTH + col'] = Space]

\* Mutant: the cursor may rest one column past the last.
GlyphLateWrap(c) ==
  LET mem == [VGA_MEM EXCEPT ![Cursor] = c]
  IN IF col + 1 > VGA_WIDTH THEN col' = 0 /\ NextRow(mem)
                            ELSE col' = col + 1 /\ row' = row /\ VGA_MEM' = mem

\* Mutant: the character that would fill a row is lost in the wrap.
GlyphLostAtWrap(c) ==
  IF col + 1 >= VGA_WIDTH
    THEN col' = 0 /\ NextRow(VGA_MEM)
    ELSE col' = col + 1 /\ row' = row /\ VGA_MEM' = [VGA_MEM EXCEPT ![Cursor] = c]

Glyph(c) ==
  LET mem == [VGA_MEM EXCEPT ![Cursor] = c]
  IN IF col + 1 >= VGA_WIDTH THEN col' = 0 /\ NextRow(mem)
                             ELSE col' = col + 1 /\ row' = row /\ VGA_MEM' = mem

vga_putchar(c) ==
  /\ CASE c = NL -> Newline [] c = BS -> Backspace [] OTHER -> Glyph(c)
  /\ UNCHANGED color

vga_clear == VGA_MEM' = Blanks /\ row' = 0 /\ col' = 0 /\ UNCHANGED color
vga_set_color(fg) == color' = fg /\ UNCHANGED <<VGA_MEM, row, col>>

(***************************************************************************)
(* What the shell and its commands print, as calls                         *)
(***************************************************************************)
Put(c) == <<"put", c>>
Color(fg) == <<"color", fg>>
Read(r) == <<"read", r>>
writeln == <<Put("#"), Put(NL)>>        \* vga_writeln of a message

Colored(fg) == <<Color(fg)>> \o writeln \o <<Color("white")>>
Error == Colored("red")
Report == Colored("green")
Listing == Colored("cyan") \o writeln \o Colored("cyan")
Ask(r) == <<Put("#"), Read(r)>>          \* a prompt, then readline

Hint == <<Put(NL)>> \o Report \o <<Put(NL)>>

\* Mutant: the prompt's colour is not reset.
PromptStaysGreen == <<Color("green"), Put("#"), Read("shell")>>

Prompt == <<Color("green"), Put("#"), Color("white"), Read("shell")>>

\* The shapes of the commands' output: errors; reports; help, ls and fread;
\* pwd and whoami; cls; fwrite and fedit; fdel and rmdir.
Commands ==
  {Error, Report, Listing, writeln, <<<<"clear", "">>>>,
   writeln \o Ask("line") \o Report, writeln \o Ask("line") \o Error,
   Ask("ans")}

\* An array before its first use; dead locals are put back to this.
Fresh(r) == [i \in 0 .. (Size(r) - 1) |-> NUL]

Init ==
  /\ VGA_MEM = Blanks /\ row = 0 /\ col = 0 /\ color = "grey"   \* after vga_init
  /\ code = Hint /\ pc = "run"
  /\ who = "shell" /\ n = 0 /\ text = [r \in Readers |-> Fresh(r)]
  /\ p = 0 /\ argv = <<>> /\ typed = <<>>

\* The next call of the running command, or the next turn of shell_run's loop.
Call ==
  /\ pc = "run" /\ code # <<>>
  /\ code' = Tail(code)
  /\ LET op == Head(code)[1]
         arg == Head(code)[2]
     IN \/ op = "put" /\ vga_putchar(arg) /\ UNCHANGED <<pc, reader>>
        \/ op = "color" /\ vga_set_color(arg) /\ UNCHANGED <<pc, reader>>
        \/ op = "clear" /\ vga_clear /\ UNCHANGED <<pc, reader>>
        \/ op = "read" /\ pc' = "read" /\ who' = arg /\ n' = 0 /\ UNCHANGED <<text, screen>>
  /\ UNCHANGED parser

ShellLoop ==
  /\ pc = "run" /\ code = <<>>
  /\ code' = Prompt
  /\ UNCHANGED <<screen, pc, reader, parser>>

(***************************************************************************)
(* readline                                                                *)
(***************************************************************************)
\* Only shell.c filters what it stores.
Accepts(c) == (who = "shell" => c \in Printable) /\ n < Size(who) - 1

Store(c) ==
  /\ pc = "read"
  /\ \/ /\ Accepts(c)
        /\ n' = n + 1 /\ text' = [text EXCEPT ![who][n] = c]
        /\ vga_putchar(c)
        /\ UNCHANGED <<who, pc, code, parser>>
     \/ ~Accepts(c) /\ UNCHANGED vars

\* Mutant: backspace reaches the screen even when the line is empty.
EraseUnchecked ==
  /\ pc = "read" /\ vga_putchar(BS)
  /\ n' = IF n > 0 THEN n - 1 ELSE 0
  /\ UNCHANGED <<who, text, pc, code, parser>>

Erase ==
  /\ pc = "read"
  /\ \/ n > 0 /\ n' = n - 1 /\ vga_putchar(BS) /\ UNCHANGED <<who, text, pc, code, parser>>
     \/ n = 0 /\ UNCHANGED vars

\* The bytes from s up to the terminator: what a char * to it means.
kstrlen(s) == CHOOSE k \in DOMAIN s : s[k] = NUL /\ \A j \in 0 .. (k - 1) : s[j] # NUL
Str(s) == [k \in 1 .. kstrlen(s) |-> s[k - 1]]

\* trim_line stops at the last character that is not a blank.
trim_line(s) ==
  [k \in DOMAIN s |-> IF k < kstrlen(s) /\ \A j \in k .. (kstrlen(s) - 1) : s[j] \in Blank
                        THEN NUL ELSE s[k]]

\* Enter.  shell_run ignores an empty line; the input loops of fs.c go on
\* until a line that trims to "."; a y/n prompt reports or is cancelled.
Enter ==
  LET line == [text[who] EXCEPT ![n] = NUL]
  IN /\ pc = "read" /\ vga_putchar(NL)
     /\ \/ /\ who = "shell" /\ text' = [text EXCEPT ![who] = line]
           /\ p' = 0 /\ argv' = <<>> /\ typed' = Str(line)
           /\ pc' = (IF n = 0 THEN "run" ELSE "parse") /\ UNCHANGED code
        \/ /\ who = "line" /\ text' = [text EXCEPT ![who] = Fresh(who)]
           /\ pc' = "run"
           /\ code' = (IF Str(trim_line(line)) = <<".">> THEN <<>> ELSE Ask("line")) \o code
           /\ UNCHANGED parser
        \/ /\ who = "ans" /\ text' = [text EXCEPT ![who] = Fresh(who)]
           /\ pc' = "run"
           /\ code' = (IF line[0] \in {"y", "Y"} THEN Report ELSE writeln) \o code
           /\ UNCHANGED parser
     /\ n' = 0 /\ UNCHANGED who

(***************************************************************************)
(* parse_cmd, one token at a time, and dispatch                            *)
(***************************************************************************)
buf == text["shell"]
FirstFrom(i, S) == CHOOSE k \in i .. (CMD_LEN - 1) : k \in S /\ \A j \in i .. (k - 1) : j \notin S
TokenStart == FirstFrom(p, {k \in DOMAIN buf : buf[k] \notin Blank})
TokenEnd == FirstFrom(TokenStart, {k \in DOMAIN buf : buf[k] \in Blank \cup {NUL}})
AtEnd == buf[p] = NUL \/ Len(argv) = MAX_ARGS \/ buf[TokenStart] = NUL

\* Mutant: p steps over the terminator of the line as over a separator.
TokenPastEnd ==
  /\ pc = "parse" /\ ~AtEnd
  /\ argv' = Append(argv, TokenStart)
  /\ text' = [text EXCEPT !["shell"][TokenEnd] = NUL]
  /\ p' = IF TokenEnd + 1 < CMD_LEN THEN TokenEnd + 1 ELSE TokenEnd
  /\ UNCHANGED <<screen, code, pc, who, n, typed>>

Token ==
  /\ pc = "parse" /\ ~AtEnd
  /\ argv' = Append(argv, TokenStart)
  /\ text' = [text EXCEPT !["shell"][TokenEnd] = NUL]
  /\ p' = IF buf[TokenEnd] = NUL THEN TokenEnd ELSE TokenEnd + 1
  /\ UNCHANGED <<screen, code, pc, who, n, typed>>

\* shell_dispatch runs some command and ends its output with an empty line;
\* a line of blanks runs none.
Dispatch ==
  /\ pc = "parse" /\ AtEnd
  /\ pc' = "run"
  /\ IF argv = <<>> THEN UNCHANGED code
                    ELSE \E c \in Commands : code' = c \o <<Put(NL)>>
  /\ p' = 0 /\ argv' = <<>> /\ typed' = <<>>
  /\ UNCHANGED <<screen, reader>>

Next == Call \/ ShellLoop \/ (\E c \in Keys : Store(c)) \/ Erase \/ Enter \/ Token \/ Dispatch

Spec == Init /\ [][Next]_vars

(***************************************************************************)
(* Properties                                                              *)
(***************************************************************************)
\* The cursor stays on the screen, so every cell written is in VGA memory,
\* and readline's index stays in its buffer with room for the terminator.
TypeOK ==
  /\ VGA_MEM \in [Cell -> Char]
  /\ row \in 0 .. (VGA_HEIGHT - 1) /\ col \in 0 .. (VGA_WIDTH - 1)
  /\ color \in Colors
  /\ pc \in {"run", "read", "parse"} /\ who \in Readers /\ n \in 0 .. (Size(who) - 1)
  /\ text = [r \in Readers |-> text[r]]
  /\ \A r \in Readers : text[r] \in [0 .. (Size(r) - 1) -> Char]

\* From the cursor on the screen is empty: wrapping, scrolling, erasing and
\* clearing leave no remains that new text would be mixed with.
BlankAfterCursor == \A i \in Cell : i >= Cursor => VGA_MEM[i] = Space

\* What stands before the cursor while readline runs is what the caller will
\* get, over wrapped rows, scrolling and backspaces across a row's start.
EchoMatchesLine ==
  pc = "read" => /\ n <= Cursor
                 /\ \A i \in 0 .. (n - 1) : VGA_MEM[Cursor - n + i] = text[who][i]

\* The calls still to be made print characters, not backspaces: only readline
\* moves the cursor back.
Calls == ({"put"} \X (Char \cup {NL})) \cup ({"color"} \X Colors)
           \cup ({"read"} \X Readers) \cup {<<"clear", "">>}
TInv == TypeOK /\ code \in Seq(Calls) /\ BlankAfterCursor /\ EchoMatchesLine

\* A step inside readline keeps everything before the line, the prompt above
\* all, but for the row that scrolling takes away.
PromptKept ==
  [][pc = "read" /\ pc' = "read" =>
       LET up == (Cursor - n) - (Cursor' - n')
       IN /\ up \in {0, VGA_WIDTH}
          /\ \A i \in 0 .. (Cursor' - n' - 1) : VGA_MEM'[i] = VGA_MEM[i + up]]_vars

\* Every path through a command resets the colour it has set: all input is
\* echoed in white.
InputIsWhite == pc = "read" => color = "white"

\* The arguments shell_dispatch gets are the first MAX_ARGS maximal runs of
\* non-blank characters of the line, whatever older lines left in buf.
TokenStarts == {i \in DOMAIN typed : typed[i] \notin Blank /\ (i = 1 \/ typed[i - 1] \in Blank)}
Before(i) == {j \in TokenStarts : j < i}
Minimum(a, b) == IF a < b THEN a ELSE b
ArgvAreTokens ==
  pc = "parse" /\ AtEnd =>
    /\ Len(argv) = Minimum(MAX_ARGS, Cardinality(TokenStarts))
    /\ \A k \in DOMAIN argv :
         LET i == argv[k] + 1
             j == FirstFrom(argv[k], {e \in DOMAIN buf : buf[e] = NUL})
         IN /\ i \in TokenStarts /\ Cardinality(Before(i)) = k - 1
            /\ \A e \in argv[k] .. (j - 1) : buf[e] = typed[e + 1] /\ buf[e] \notin Blank
            /\ j = Len(typed) \/ typed[j + 1] \in Blank
=============================================================================
