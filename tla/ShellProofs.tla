---------------------------- MODULE ShellProofs ----------------------------
(***************************************************************************)
(* What the shell reads, for every screen and every buffer size: every     *)
(* character is echoed in white, whatever command ran before, and a        *)
(* command gets the words of its line, whatever older lines left in buf.   *)
(***************************************************************************)
EXTENDS TerminalProofs, SequenceTheorems, FiniteSetTheorems, WellFoundedInduction

(***************************************************************************)
(* The colour in force                                                     *)
(***************************************************************************)
IsColor(op) == op[1] = "color"

\* After the first k calls of s, begun with the colour fg, the colour is white.
WhiteAfter(s, k, fg) ==
  \/ \E j \in 1 .. k : s[j] = Color("white") /\ \A m \in (j + 1) .. k : ~IsColor(s[m])
  \/ fg = "white" /\ \A m \in 1 .. k : ~IsColor(s[m])

\* s calls readline only in white.
ReadsWhite(s, fg) == \A k \in 1 .. Len(s) : s[k][1] = "read" => WhiteAfter(s, k - 1, fg)

\* Begun in white, s reads in white and ends in white.
Tidy(s) == s \in Seq(Calls) /\ ReadsWhite(s, "white") /\ WhiteAfter(s, Len(s), "white")

\* A white start is kept over a tidy sequence.
LEMMA TidyThen ==
  ASSUME NEW s, NEW t, Tidy(s), t \in Seq(Calls), NEW k \in 0 .. Len(t), WhiteAfter(t, k, "white"),
         NEW e \in Int, e = Len(s) + k
  PROVE  WhiteAfter(s \o t, e, "white")
<1> DEFINE u == s \o t
           a == Len(s)
<1>1. /\ s \in Seq(Calls) /\ a \in Nat /\ Len(t) \in Nat /\ k \in Nat /\ e = a + k
      /\ \A i \in 1 .. a : u[i] = s[i]
      /\ \A i \in 1 .. Len(t) : u[a + i] = t[i]
  BY ConcatProperties DEF Tidy
<1>2. WhiteAfter(s, a, "white")
  BY DEF Tidy
<1>3. SUFFICES WhiteAfter(u, e, "white")
  OBVIOUS
<1> HIDE DEF u, a
<1>4. \A m \in (a + 1) .. e : m - a \in 1 .. k /\ u[m] = t[m - a]
  BY <1>1
<1>5. CASE \E j \in 1 .. k : t[j] = Color("white") /\ \A m \in (j + 1) .. k : ~IsColor(t[m])
  <2>1. PICK j \in 1 .. k : t[j] = Color("white") /\ \A m \in (j + 1) .. k : ~IsColor(t[m])
    BY <1>5
  <2>2. PICK q \in Int : q = a + j
    BY <1>1
  <2>3. q \in 1 .. e /\ u[q] = Color("white")
    <3>1. q \in 1 .. e /\ j \in 1 .. Len(t)
      BY <1>1, <2>1, <2>2
    <3>2. u[a + j] = t[j]
      BY <1>1, <3>1
    <3> QED
      BY <2>1, <2>2, <3>1, <3>2
  <2>4. ASSUME NEW m \in (q + 1) .. e PROVE ~IsColor(u[m])
    <3>1. PICK d \in Int : d = m - a
      BY <1>1, <2>4
    <3>2. d \in (j + 1) .. k /\ m \in (a + 1) .. e
      BY <3>1, <2>4, <2>2, <1>1
    <3>3. u[m] = t[d]
      BY <3>1, <3>2, <1>4
    <3> QED
      BY <3>2, <3>3, <2>1
  <2> QED
    BY <2>3, <2>4 DEF WhiteAfter
<1>6. CASE \A m \in 1 .. k : ~IsColor(t[m])
  <2>1. \A m \in (a + 1) .. e : ~IsColor(u[m])
    BY <1>4, <1>6
  <2>2. CASE \E j \in 1 .. a : s[j] = Color("white") /\ \A m \in (j + 1) .. a : ~IsColor(s[m])
    <3>1. PICK j \in 1 .. a : s[j] = Color("white") /\ \A m \in (j + 1) .. a : ~IsColor(s[m])
      BY <2>2
    <3>2. j \in 1 .. e /\ u[j] = Color("white")
      BY <1>1, <3>1
    <3>3. ASSUME NEW m \in (j + 1) .. e PROVE ~IsColor(u[m])
      <4>1. CASE m <= a
        <5>1. m \in (j + 1) .. a /\ m \in 1 .. a
          BY <1>1, <4>1
        <5> QED
          BY <5>1, <1>1, <3>1
      <4>2. CASE ~(m <= a)
        <5>1. m \in (a + 1) .. e
          BY <1>1, <4>2
        <5> QED
          BY <5>1, <2>1
      <4> QED
        BY <4>1, <4>2
    <3> QED
      BY <3>2, <3>3 DEF WhiteAfter
  <2>3. CASE \A m \in 1 .. a : ~IsColor(s[m])
    <3>1. ASSUME NEW m \in 1 .. e PROVE ~IsColor(u[m])
      <4>1. m \in 1 .. a \/ m \in (a + 1) .. e
        BY <1>1
      <4> QED
        BY <4>1, <1>1, <2>1, <2>3
    <3> QED
      BY <3>1 DEF WhiteAfter
  <2> QED
    BY <1>2, <2>2, <2>3 DEF WhiteAfter
<1> QED
  BY <1>5, <1>6 DEF WhiteAfter

\* Tidy sequences compose, and so does a tidy one with one that reads in white.
LEMMA Compose ==
  ASSUME NEW s, NEW t, Tidy(s), t \in Seq(Calls), ReadsWhite(t, "white")
  PROVE  /\ s \o t \in Seq(Calls) /\ ReadsWhite(s \o t, "white")
         /\ Tidy(t) => Tidy(s \o t)
<1> DEFINE u == s \o t
           a == Len(s)
<1>1. /\ s \in Seq(Calls) /\ a \in Nat /\ Len(t) \in Nat
      /\ u \in Seq(Calls) /\ Len(u) = a + Len(t)
      /\ \A i \in 1 .. a : u[i] = s[i]
      /\ \A i \in 1 .. Len(t) : u[a + i] = t[i]
  BY ConcatProperties DEF Tidy
<1>2. \A k \in 0 .. Len(t) : \A e \in Int :
         WhiteAfter(t, k, "white") /\ e = a + k => WhiteAfter(u, e, "white")
  BY TidyThen
<1> HIDE DEF u, a
<1>3. ASSUME NEW k \in 1 .. Len(u), u[k][1] = "read" PROVE WhiteAfter(u, k - 1, "white")
  <2>1. PICK e \in Int : e = k - 1
    OBVIOUS
  <2>2. CASE k \in 1 .. a
    <3>1. WhiteAfter(s, e, "white")
      BY <1>1, <1>3, <2>1, <2>2 DEF Tidy, ReadsWhite, a
    <3>2. \A m \in 1 .. e : u[m] = s[m]
      BY <1>1, <2>1, <2>2
    <3>3. ASSUME NEW j \in 1 .. e PROVE \A m \in (j + 1) .. e : u[m] = s[m]
      BY <1>1, <2>1, <2>2
    <3>4. WhiteAfter(u, e, "white")
      BY <3>1, <3>2, <3>3 DEF WhiteAfter
    <3> QED
      BY <2>1, <3>4
  <2>3. CASE k \notin 1 .. a
    <3>1. PICK d \in Int : d = k - a
      BY <1>1
    <3>2. d \in 1 .. Len(t) /\ k = a + d /\ d - 1 \in 0 .. Len(t) /\ e = a + (d - 1)
      BY <1>1, <2>1, <2>3, <3>1
    <3>3. t[d][1] = "read"
      BY <1>1, <1>3, <3>2
    <3>4. WhiteAfter(t, d - 1, "white")
      BY <3>2, <3>3 DEF ReadsWhite
    <3>5. WhiteAfter(u, e, "white")
      BY <1>2, <3>2, <3>4
    <3> QED
      BY <2>1, <3>5
  <2> QED
    BY <2>2, <2>3
<1>4. Tidy(t) => WhiteAfter(u, Len(u), "white")
  <2>1. Len(t) \in 0 .. Len(t) /\ Len(u) \in Int
    BY <1>1
  <2> QED
    BY <1>1, <1>2, <2>1 DEF Tidy
<1> QED
  BY <1>1, <1>3, <1>4 DEF Tidy, ReadsWhite, u

\* The pieces every command's output is made of are tidy.
LEMMA TidyPieces ==
  /\ \A op \in Calls : op[1] # "color" => Tidy(<<op>>)
  /\ \A s \in Seq(Calls) : (Tidy(s) => ReadsWhite(s, "white"))
  /\ \A fg \in Colors : Tidy(Colored(fg))
<1>1. ASSUME NEW op \in Calls, op[1] # "color" PROVE Tidy(<<op>>)
  <2>1. <<op>> \in Seq(Calls) /\ Len(<<op>>) = 1 /\ <<op>>[1] = op
    OBVIOUS
  <2>2. PICK s : s = <<op>>
    OBVIOUS
  <2>3. s \in Seq(Calls) /\ Len(s) = 1 /\ ~IsColor(s[1])
    BY <2>1, <2>2, <1>1 DEF IsColor
  <2>4. WhiteAfter(s, 0, "white") /\ WhiteAfter(s, 1, "white")
    BY <2>3 DEF WhiteAfter
  <2>5. ReadsWhite(s, "white")
    BY <2>3, <2>4 DEF ReadsWhite
  <2> QED
    BY <2>2, <2>3, <2>4, <2>5 DEF Tidy
<1>2. ASSUME NEW fg \in Colors PROVE Tidy(Colored(fg))
  <2>1. /\ Color(fg) \in Calls /\ Color("white") \in Calls /\ Put("#") \in Calls /\ Put(NL) \in Calls
    BY DEF Color, Put, Calls, Colors, Char
  <2>2. PICK a, b, c, d : a = Color(fg) /\ b = Put("#") /\ c = Put(NL) /\ d = Color("white")
    OBVIOUS
  <2>3. PICK s : s = <<a>> \o <<b, c>> \o <<d>>
    OBVIOUS
  <2>4. Colored(fg) = s
    BY <2>2, <2>3 DEF Colored, writeln
  <2> HIDE DEF Calls
  <2>5. s \in Seq(Calls) /\ Len(s) = 4 /\ s[1] = a /\ s[2] = b /\ s[3] = c /\ s[4] = d
    BY <2>1, <2>2, <2>3
  <2>6. a[1] = "color" /\ b[1] = "put" /\ c[1] = "put" /\ d[1] = "color"
    BY <2>2 DEF Color, Put
  <2>7. WhiteAfter(s, 4, "white")
    <3>1. s[4] = Color("white") /\ 4 \in 1 .. 4 /\ \A m \in (4 + 1) .. 4 : ~IsColor(s[m])
      BY <2>2, <2>5
    <3> QED
      BY <3>1 DEF WhiteAfter
  <2>8. ReadsWhite(s, "white")
    <3>1. ASSUME NEW k \in 1 .. 4 PROVE s[k][1] # "read"
      <4>1. k = 1 \/ k = 2 \/ k = 3 \/ k = 4
        OBVIOUS
      <4> QED
        BY <4>1, <2>5, <2>6
    <3> QED
      BY <3>1, <2>5 DEF ReadsWhite
  <2> QED
    BY <2>4, <2>5, <2>7, <2>8 DEF Tidy
<1> QED
  BY <1>1, <1>2 DEF Tidy

\* Every command, with the empty line that follows it, is tidy.
LEMMA CommandsTidy ==
  /\ Tidy(Report) /\ Tidy(writeln) /\ Tidy(Ask("line"))
  /\ \A c \in Commands : Tidy(c \o <<Put(NL)>>)
<1>1. /\ Put("#") \in Calls /\ Put(NL) \in Calls /\ <<"clear", "">> \in Calls
      /\ Read("line") \in Calls /\ Read("ans") \in Calls
  BY DEF Put, Read, Calls, Char, Readers
<1>2. /\ Tidy(<<Put("#")>>) /\ Tidy(<<Put(NL)>>) /\ Tidy(<<<<"clear", "">>>>)
      /\ Tidy(<<Read("line")>>) /\ Tidy(<<Read("ans")>>)
  <2>1. /\ Put("#")[1] = "put" /\ Put(NL)[1] = "put" /\ <<"clear", "">>[1] = "clear"
        /\ Read("line")[1] = "read" /\ Read("ans")[1] = "read"
    BY DEF Put, Read
  <2> QED
    BY <1>1, <2>1, TidyPieces
<1>3. \A s, t : Tidy(s) /\ Tidy(t) => Tidy(s \o t)
  BY Compose DEF Tidy
<1>4. Tidy(writeln) /\ Tidy(Ask("line")) /\ Tidy(Ask("ans"))
  <2>1. /\ writeln = <<Put("#")>> \o <<Put(NL)>>
        /\ Ask("line") = <<Put("#")>> \o <<Read("line")>>
        /\ Ask("ans") = <<Put("#")>> \o <<Read("ans")>>
    BY DEF writeln, Ask
  <2> QED
    BY <1>2, <1>3, <2>1
<1>5. Tidy(Report) /\ Tidy(Error) /\ Tidy(Colored("cyan"))
  BY TidyPieces DEF Report, Error, Colors
<1>6. Tidy(Listing)
  BY <1>3, <1>4, <1>5 DEF Listing
<1>7. /\ Tidy(writeln \o Ask("line") \o Report)
      /\ Tidy(writeln \o Ask("line") \o Error)
  BY <1>3, <1>4, <1>5
<1>8. \A c \in Commands : Tidy(c)
  BY <1>2, <1>4, <1>5, <1>6, <1>7, Zenon DEF Commands
<1> QED
  BY <1>2, <1>3, <1>4, <1>5, <1>8

\* The hint reads nothing, and the prompt sets the colour itself.
LEMMA HintAndPrompt ==
  ASSUME NEW fg
  PROVE  ReadsWhite(Hint, fg) /\ ReadsWhite(Prompt, fg)
<1>1. PICK a, b, c, d, r :
        a = Color("green") /\ b = Put("#") /\ c = Put(NL) /\ d = Color("white") /\ r = Read("shell")
  OBVIOUS
<1>2. a[1] = "color" /\ b[1] = "put" /\ c[1] = "put" /\ d[1] = "color"
  BY <1>1 DEF Color, Put
<1>3. ReadsWhite(Hint, fg)
  <2> DEFINE Mute(s) == s \in Seq(Calls) /\ \A k \in 1 .. Len(s) : s[k][1] # "read"
  <2>1. a \in Calls /\ b \in Calls /\ c \in Calls /\ d \in Calls
    BY <1>1 DEF Color, Put, Calls, Colors, Char
  <2>2. ASSUME NEW s, NEW t, Mute(s), Mute(t) PROVE Mute(s \o t)
    <3>1. PICK z : z = s \o t
      OBVIOUS
    <3>2. PICK m \in Nat, e \in Nat : m = Len(s) /\ e = Len(t)
      BY <2>2
    <3>3. /\ z \in Seq(Calls) /\ Len(z) = m + e
          /\ \A i \in 1 .. m : z[i] = s[i] /\ s[i][1] # "read"
          /\ \A i \in 1 .. e : z[m + i] = t[i] /\ t[i][1] # "read"
      BY <2>2, <3>1, <3>2, ConcatProperties
    <3>4. ASSUME NEW k \in 1 .. (m + e) PROVE z[k][1] # "read"
      <4>1. CASE k \in 1 .. m
        BY <3>3, <4>1
      <4>2. CASE k \notin 1 .. m
        <5>1. PICK i \in Int : i = k - m
          OBVIOUS
        <5>2. i \in 1 .. e /\ k = m + i
          BY <4>2, <5>1
        <5> QED
          BY <3>3, <5>2
      <4> QED
        BY <4>1, <4>2
    <3> QED
      BY <3>1, <3>3, <3>4
  <2>3. ASSUME NEW x \in Calls, x[1] # "read" PROVE Mute(<<x>>)
    BY <2>3
  <2>4. ASSUME NEW x \in Calls, NEW y \in Calls, x[1] # "read", y[1] # "read" PROVE Mute(<<x, y>>)
    BY <2>4
  <2> HIDE DEF Mute
  <2>5. Mute(<<a>>) /\ Mute(<<b, c>>) /\ Mute(<<c>>) /\ Mute(<<d>>)
    BY <1>2, <2>1, <2>3, <2>4
  <2>6. Hint = <<c>> \o (<<a>> \o <<b, c>> \o <<d>>) \o <<c>>
    BY <1>1 DEF Hint, Report, Colored, writeln
  <2>7. Mute(Hint)
    BY <2>2, <2>5, <2>6
  <2> QED
    BY <2>7 DEF Mute, ReadsWhite
<1>4. ReadsWhite(Prompt, fg)
  <2>1. PICK s : s = <<a, b, d, r>>
    OBVIOUS
  <2>2. Prompt = s
    BY <1>1, <2>1 DEF Prompt
  <2>3. Len(s) = 4 /\ s[1] = a /\ s[2] = b /\ s[3] = d /\ s[4] = r
    BY <2>1
  <2>4. WhiteAfter(s, 3, fg)
    <3>1. s[3] = Color("white") /\ 3 \in 1 .. 3 /\ \A m \in (3 + 1) .. 3 : ~IsColor(s[m])
      BY <1>1, <2>3
    <3> QED
      BY <3>1 DEF WhiteAfter
  <2>5. ASSUME NEW k \in 1 .. 4, s[k][1] = "read" PROVE k - 1 = 3
    <3>1. k = 1 \/ k = 2 \/ k = 3 \/ k = 4
      OBVIOUS
    <3> QED
      BY <1>2, <2>3, <2>5, <3>1
  <2> QED
    BY <2>2, <2>3, <2>4, <2>5 DEF ReadsWhite
<1> QED
  BY <1>3, <1>4

\* Making the first call of a sequence, which sets the colour or does not.
LEMMA FirstCall ==
  ASSUME NEW s \in Seq(Calls), s # <<>>, NEW fg, NEW new, ReadsWhite(s, fg),
         IF IsColor(s[1]) THEN s[1] = Color(new) ELSE new = fg
  PROVE  /\ ReadsWhite(Tail(s), new)
         /\ s[1][1] = "read" => fg = "white"
<1>1. PICK t : t = Tail(s)
  OBVIOUS
<1>2. t \in Seq(Calls) /\ Len(s) \in Nat /\ Len(t) = Len(s) - 1 /\ Len(s) >= 1
      /\ \A k \in 1 .. Len(t) : t[k] = s[k + 1]
  BY <1>1, HeadTailProperties, LenProperties, EmptySeq
<1>3. ASSUME NEW k \in 1 .. Len(t), t[k][1] = "read" PROVE WhiteAfter(t, k - 1, new)
  <2>1. PICK e \in Int : e = k - 1
    OBVIOUS
  <2>2. k + 1 \in 1 .. Len(s) /\ s[k + 1][1] = "read" /\ (k + 1) - 1 = k
    BY <1>2, <1>3
  <2>3. WhiteAfter(s, k, fg)
    BY <2>2 DEF ReadsWhite
  <2>4. e <= Len(t) /\ \A m \in 1 .. e : t[m] = s[m + 1]
    BY <1>2, <2>1
  <2>5. CASE \E j \in 1 .. k : s[j] = Color("white") /\ \A m \in (j + 1) .. k : ~IsColor(s[m])
    <3>1. PICK j \in 1 .. k : s[j] = Color("white") /\ \A m \in (j + 1) .. k : ~IsColor(s[m])
      BY <2>5
    <3>2. CASE j = 1
      <4>1. IsColor(s[1]) /\ new = "white"
        BY <3>1, <3>2 DEF IsColor, Color
      <4>2. ASSUME NEW m \in 1 .. e PROVE ~IsColor(t[m])
        <5>1. m + 1 \in (j + 1) .. k
          BY <3>2, <2>1
        <5> QED
          BY <5>1, <3>1, <2>4
      <4>3. WhiteAfter(t, e, new)
        BY <4>1, <4>2 DEF WhiteAfter
      <4> QED
        BY <4>3, <2>1
    <3>3. CASE j # 1
      <4>1. PICK q \in Int : q = j - 1
        OBVIOUS
      <4>2. q \in 1 .. e /\ q + 1 = j
        BY <4>1, <3>3, <2>1
      <4>3. t[q] = Color("white")
        BY <4>2, <3>1, <2>4
      <4>4. ASSUME NEW m \in (q + 1) .. e PROVE ~IsColor(t[m])
        <5>1. m + 1 \in (j + 1) .. k /\ m \in 1 .. e
          BY <4>2, <2>1
        <5> QED
          BY <5>1, <3>1, <2>4
      <4>5. WhiteAfter(t, e, new)
        BY <4>2, <4>3, <4>4 DEF WhiteAfter
      <4> QED
        BY <4>5, <2>1
    <3> QED
      BY <3>2, <3>3
  <2>6. CASE fg = "white" /\ \A m \in 1 .. k : ~IsColor(s[m])
    <3>1. new = "white"
      <4>1. 1 \in 1 .. k
        BY <1>2
      <4> QED
        BY <4>1, <2>6
    <3>2. ASSUME NEW m \in 1 .. e PROVE ~IsColor(t[m])
      <4>1. m + 1 \in 1 .. k
        BY <2>1
      <4> QED
        BY <4>1, <2>4, <2>6
    <3>3. WhiteAfter(t, e, new)
      BY <3>1, <3>2 DEF WhiteAfter
    <3> QED
      BY <3>3, <2>1
  <2> QED
    BY <2>3, <2>5, <2>6 DEF WhiteAfter
<1>4. ASSUME s[1][1] = "read" PROVE fg = "white"
  <2>1. 1 \in 1 .. Len(s) /\ 1 - 1 = 0
    BY <1>2
  <2>2. WhiteAfter(s, 0, fg)
    BY <1>4, <2>1 DEF ReadsWhite
  <2> QED
    BY <2>2 DEF WhiteAfter
<1> QED
  BY <1>1, <1>3, <1>4 DEF ReadsWhite

\* While a line is read or parsed the colour is white, and what is still to be
\* printed reads the next line in white.
WInv ==
  /\ pc \in {"read", "parse"} => color = "white"
  /\ ReadsWhite(code, color)

\* A call that sets the colour is a pair.
LEMMA ColorCall ==
  ASSUME NEW x \in Calls, x[1] = "color"
  PROVE  x = <<"color", x[2]>>
<1>1. CASE x \in {"put"} \X (Char \cup {NL})
  BY <1>1
<1>2. CASE x \in {"color"} \X Colors
  BY <1>2
<1>3. CASE x \in {"read"} \X Readers
  BY <1>3
<1>4. CASE x = <<"clear", "">>
  BY <1>4
<1> QED
  BY <1>1, <1>2, <1>3, <1>4 DEF Calls

\* Init and every step keep the colour of what is typed white.
LEMMA WhiteInvariant ==
  /\ Init => WInv
  /\ TInv /\ WInv /\ [Next]_vars => WInv'
<1>1. Init => WInv
  BY HintAndPrompt DEF Init, WInv
<1>2. ASSUME TInv, WInv, [Next]_vars PROVE WInv'
  <2>1. code \in Seq(Calls) /\ pc \in {"run", "read", "parse"}
    BY <1>2 DEF TInv, TypeOK
  <2>2. CASE Call
    <3>1. code # <<>> /\ code' = Tail(code) /\ pc = "run" /\ Head(code) = code[1] /\ code[1] \in Calls
      BY <2>1, <2>2, HeadTailProperties DEF Call
    <3>2. CASE code[1][1] = "put" /\ vga_putchar(code[1][2]) /\ UNCHANGED pc
      BY <1>2, <2>1, <3>1, <3>2, FirstCall DEF vga_putchar, WInv, IsColor
    <3>3. CASE code[1][1] = "color" /\ vga_set_color(code[1][2]) /\ UNCHANGED pc
      <4>1. code[1] = Color(color')
        BY <3>1, <3>3, ColorCall DEF vga_set_color, Color
      <4> QED
        BY <1>2, <2>1, <3>1, <3>3, <4>1, FirstCall DEF WInv, IsColor
    <3>4. CASE code[1][1] = "clear" /\ vga_clear /\ UNCHANGED pc
      BY <1>2, <2>1, <3>1, <3>4, FirstCall DEF vga_clear, WInv, IsColor
    <3>5. CASE code[1][1] = "read" /\ pc' = "read" /\ UNCHANGED screen
      BY <1>2, <2>1, <3>1, <3>5, FirstCall DEF screen, WInv, IsColor
    <3> QED
      BY <2>2, <3>1, <3>2, <3>3, <3>4, <3>5 DEF Call
  <2>3. CASE ShellLoop
    BY <1>2, <2>3, HintAndPrompt DEF ShellLoop, WInv, screen
  <2>4. ASSUME NEW c \in Keys, Store(c) PROVE WInv'
    BY <1>2, <2>4 DEF Store, WInv, vga_putchar, vars, screen
  <2>5. CASE Erase
    BY <1>2, <2>5 DEF Erase, WInv, vga_putchar, vars, screen
  <2>6. CASE Enter
    <3>1. pc = "read" /\ color = "white" /\ color' = color /\ ReadsWhite(code, "white")
      BY <1>2, <2>6 DEF Enter, vga_putchar, WInv
    <3>2. Tidy(<<>>)
      <4>1. <<>> \in Seq(Calls) /\ Len(<<>>) = 0
        BY EmptySeq
      <4> QED
        BY <4>1 DEF Tidy, ReadsWhite, WhiteAfter
    <3>3. code' = code \/ \E x : Tidy(x) /\ code' = x \o code
      BY <2>6, <3>2, CommandsTidy DEF Enter
    <3> QED
      BY <2>1, <3>1, <3>3, Compose DEF WInv
  <2>7. CASE Token
    BY <1>2, <2>7 DEF Token, WInv, screen
  <2>8. CASE Dispatch
    <3>1. color = "white" /\ color' = "white" /\ pc' = "run"
      BY <1>2, <2>8 DEF Dispatch, WInv, screen
    <3>2. CASE UNCHANGED code
      BY <1>2, <3>1, <3>2 DEF WInv
    <3>3. CASE \E c \in Commands : code' = c \o <<Put(NL)>>
      BY <3>1, <3>3, CommandsTidy DEF WInv, Tidy
    <3> QED
      BY <2>8, <3>2, <3>3 DEF Dispatch
  <2>9. CASE UNCHANGED vars
    BY <1>2, <2>9 DEF vars, screen, WInv
  <2> QED
    BY <1>2, <2>2, <2>3, <2>4, <2>5, <2>6, <2>7, <2>8, <2>9 DEF Next
<1> QED
  BY <1>1, <1>2

\* Every line, of the shell and of the commands that read one, is typed in
\* white: no command leaves the colour it printed in (shell_run, fs.c, dir.c).
THEOREM LinesAreWhite == Spec => []InputIsWhite
<1>1. WInv => InputIsWhite
  BY DEF WInv, InputIsWhite
<1> QED
  BY <1>1, WhiteInvariant, TerminalInvariant, PTL DEF Spec

(***************************************************************************)
(* parse_cmd                                                               *)
(***************************************************************************)
\* Token k of argv ends, in buf, at the '\0' that parse_cmd or readline wrote.
Parsed(k) ==
  \E j \in 1 .. Len(typed) :
    /\ argv[k] < j /\ j <= p /\ buf[j] = NUL
    /\ j = Len(typed) \/ typed[j + 1] \in Blank
    /\ \A e \in argv[k] .. (j - 1) : buf[e] = typed[e + 1] /\ buf[e] \notin Blank \cup {NUL}

\* From p on buf is still the line, p follows a blank or ends the line, and
\* argv holds the tokens that begin before p.
PInv ==
  pc = "parse" =>
    /\ typed \in Seq(Char \ {NUL}) /\ Len(typed) < CMD_LEN /\ p \in 0 .. Len(typed)
    /\ buf[Len(typed)] = NUL /\ \A e \in p .. (Len(typed) - 1) : buf[e] = typed[e + 1]
    /\ p = 0 \/ p = Len(typed) \/ typed[p] \in Blank
    /\ argv \in Seq(Nat) /\ Len(argv) <= MAX_ARGS /\ Len(argv) = Cardinality(Before(p + 1))
    /\ \A k \in 1 .. Len(argv) :
         /\ argv[k] + 1 \in TokenStarts /\ argv[k] < p
         /\ Cardinality(Before(argv[k] + 1)) = k - 1 /\ Parsed(k)

\* A non-empty set of indices has a least element.
LEMMA Least ==
  ASSUME NEW S, S \subseteq Nat, S # {}
  PROVE  \E x \in S : \A y \in S : x <= y
<1> DEFINE Less == OpToRel(<, Nat)
<1>1. PICK x \in S : \A y \in S : ~(<<y, x>> \in Less)
  BY NatLessThanWellFounded, WFMin
<1>2. ASSUME NEW y \in S, y < x
      PROVE  <<y, x>> \in Less
  <2>1. <<y, x>> \in Nat \X Nat
    OBVIOUS
  <2> QED
    BY <2>1, <1>2 DEF OpToRel
<1> HIDE DEF Less
<1>3. \A y \in S : ~(y < x)
  BY <1>1, <1>2
<1> QED
  BY <1>3

\* The loops of parse_cmd stop at the first position of a kind.
LEMMA FirstStop ==
  ASSUME NEW i \in Nat, NEW S, NEW l \in i .. (CMD_LEN - 1), l \in S
  PROVE  /\ FirstFrom(i, S) \in i .. l /\ FirstFrom(i, S) \in S
         /\ \A j \in i .. (FirstFrom(i, S) - 1) : j \notin S
<1> DEFINE Stop(k) == k \in S /\ \A j \in i .. (k - 1) : j \notin S
           T == {k \in i .. (CMD_LEN - 1) : k \in S}
<1>1. CMD_LEN \in Nat
  BY SizeFact DEF Readers, Size
<1>2. T \subseteq Nat /\ T # {}
  BY <1>1
<1>3. PICK x \in T : \A y \in T : x <= y
  BY <1>2, Least
<1>4. ASSUME NEW j \in i .. (x - 1) PROVE j \notin S
  <2>1. j \in i .. (CMD_LEN - 1) /\ ~(x <= j)
    BY <1>1, <1>2
  <2> QED
    BY <1>3, <2>1
<1>5. \E k \in i .. (CMD_LEN - 1) : Stop(k)
  BY <1>3, <1>4
<1>6. PICK y : y = FirstFrom(i, S)
  OBVIOUS
<1>7. y \in i .. (CMD_LEN - 1) /\ Stop(y)
  BY <1>5, <1>6 DEF FirstFrom
<1>8. y <= l
  BY <1>1, <1>7
<1> QED
  BY <1>1, <1>6, <1>7, <1>8

\* The buffer and the line while parse_cmd runs.
LEMMA LineFacts ==
  ASSUME TInv, PInv, pc = "parse"
  PROVE  /\ CMD_LEN \in Nat /\ Len(typed) \in Nat /\ Len(typed) < CMD_LEN
         /\ p \in Nat /\ p <= Len(typed) /\ DOMAIN buf = 0 .. (CMD_LEN - 1)
         /\ DOMAIN typed = 1 .. Len(typed) /\ \A i \in 1 .. Len(typed) : typed[i] # NUL
         /\ NUL \notin Blank /\ buf[Len(typed)] = NUL
         /\ \A e \in p .. (Len(typed) - 1) : buf[e] = typed[e + 1] /\ e + 1 \in 1 .. Len(typed)
<1>1. CMD_LEN \in Nat /\ Size("shell") = CMD_LEN /\ "shell" \in Readers
  BY SizeFact DEF Readers, Size
<1>2. DOMAIN buf = 0 .. (CMD_LEN - 1)
  BY <1>1 DEF TInv, TypeOK, buf
<1>3. NUL \notin Blank
  BY DEF NUL, Blank, Space, Tab
<1>4. typed \in Seq(Char \ {NUL}) /\ Len(typed) < CMD_LEN /\ p \in 0 .. Len(typed)
  BY DEF PInv
<1>5. Len(typed) \in Nat /\ DOMAIN typed = 1 .. Len(typed) /\ \A i \in 1 .. Len(typed) : typed[i] # NUL
  BY <1>4, LenProperties
<1>6. p \in Nat /\ p <= Len(typed)
  BY <1>4, <1>5
<1>7. buf[Len(typed)] = NUL /\ \A e \in p .. (Len(typed) - 1) : buf[e] = typed[e + 1]
  BY DEF PInv
<1>8. \A e \in p .. (Len(typed) - 1) : e + 1 \in 1 .. Len(typed)
  BY <1>5, <1>6
<1> QED
  BY <1>1, <1>2, <1>3, <1>4, <1>5, <1>6, <1>7, <1>8

\* Skipping blanks from p leads to a character of the line or to its end, over
\* no token's start.
LEMMA StartFacts ==
  ASSUME TInv, PInv, pc = "parse"
  PROVE  /\ TokenStart \in p .. Len(typed) /\ buf[TokenStart] \notin Blank
         /\ \A e \in p .. (TokenStart - 1) : buf[e] \in Blank
         /\ \A i \in TokenStarts : ~(p < i /\ i <= TokenStart)
         /\ buf[TokenStart] = NUL <=> TokenStart = Len(typed)
<1> DEFINE S == {k \in DOMAIN buf : buf[k] \notin Blank}
<1>1. PICK L, b : L \in Nat /\ L = Len(typed) /\ b = buf
  BY LineFacts
<1> L \in Nat
  BY <1>1
<1>2. /\ CMD_LEN \in Nat /\ L < CMD_LEN /\ p \in Nat /\ p <= L /\ DOMAIN b = 0 .. (CMD_LEN - 1)
      /\ \A i \in 1 .. L : typed[i] # NUL
      /\ NUL \notin Blank /\ b[L] = NUL
      /\ \A e \in p .. (L - 1) : b[e] = typed[e + 1] /\ e + 1 \in 1 .. L
  BY <1>1, LineFacts
<1>3. L \in p .. (CMD_LEN - 1) /\ L \in S
  BY <1>1, <1>2
<1>4. PICK a : a = TokenStart
  OBVIOUS
<1>5. a = FirstFrom(p, S)
  BY <1>4 DEF TokenStart
<1> HIDE DEF S
<1>6. a \in p .. L /\ a \in S /\ \A j \in p .. (a - 1) : j \notin S
  BY <1>2, <1>3, <1>5, FirstStop
<1>7. b[a] \notin Blank
  BY <1>1, <1>6 DEF S
<1>8. \A e \in p .. (a - 1) : b[e] \in Blank
  <2> TAKE e \in p .. (a - 1)
  <2>1. e \in 0 .. (CMD_LEN - 1) /\ e \notin S
    BY <1>2, <1>6
  <2> QED
    BY <1>1, <1>2, <2>1 DEF S
<1>9. ASSUME NEW i \in TokenStarts, p < i, i <= a PROVE FALSE
  <2>1. i \in 1 .. L /\ typed[i] \notin Blank
    BY <1>1, LineFacts DEF TokenStarts
  <2>2. PICK e \in Int : e = i - 1
    BY <2>1
  <2>3. e \in p .. (a - 1) /\ e \in p .. (L - 1) /\ i = e + 1
    BY <1>2, <1>6, <1>9, <2>1, <2>2
  <2> QED
    BY <1>2, <1>8, <2>1, <2>3
<1>10. b[a] = NUL <=> a = L
  <2>1. CASE a = L
    BY <1>2, <2>1
  <2>2. CASE a # L
    <3>1. a \in p .. (L - 1)
      BY <1>2, <1>6, <2>2
    <3> QED
      BY <1>2, <2>2, <3>1
  <2> QED
    BY <2>1, <2>2
<1> QED
  BY <1>1, <1>4, <1>6, <1>7, <1>8, <1>9, <1>10

\* The token found runs up to the first blank or the end of the line.
LEMMA EndFacts ==
  ASSUME TInv, PInv, pc = "parse", buf[TokenStart] # NUL
  PROVE  /\ TokenEnd \in (TokenStart + 1) .. Len(typed)
         /\ \A e \in TokenStart .. (TokenEnd - 1) : buf[e] \notin Blank \cup {NUL}
         /\ buf[TokenEnd] = NUL <=> TokenEnd = Len(typed)
         /\ buf[TokenEnd] \in Blank \cup {NUL}
<1> DEFINE S == {k \in DOMAIN buf : buf[k] \in Blank \cup {NUL}}
<1>1. PICK L, b, a : L \in Nat /\ L = Len(typed) /\ b = buf /\ a = TokenStart
  BY LineFacts
<1> L \in Nat
  BY <1>1
<1>2. /\ CMD_LEN \in Nat /\ L < CMD_LEN /\ p \in Nat /\ p <= L /\ DOMAIN b = 0 .. (CMD_LEN - 1)
      /\ \A i \in 1 .. L : typed[i] # NUL
      /\ NUL \notin Blank /\ b[L] = NUL
      /\ \A e \in p .. (L - 1) : b[e] = typed[e + 1] /\ e + 1 \in 1 .. L
  BY <1>1, LineFacts
<1>3. a \in p .. L /\ b[a] \notin Blank /\ b[a] # NUL /\ a # L
  BY <1>1, StartFacts
<1>4. a \in Nat /\ L \in a .. (CMD_LEN - 1) /\ L \in S
  BY <1>1, <1>2, <1>3
<1>5. PICK z : z = TokenEnd
  OBVIOUS
<1>6. z = FirstFrom(a, S)
  BY <1>1, <1>5 DEF TokenEnd
<1> HIDE DEF S
<1>7. z \in a .. L /\ z \in S /\ \A j \in a .. (z - 1) : j \notin S
  BY <1>4, <1>6, FirstStop
<1>8. b[z] \in Blank \cup {NUL}
  BY <1>1, <1>7 DEF S
<1>9. z \in (a + 1) .. L
  <2>1. z # a
    BY <1>3, <1>8
  <2> QED
    BY <1>4, <1>7, <2>1
<1>10. ASSUME NEW e \in a .. (z - 1) PROVE b[e] \notin Blank \cup {NUL}
  <2>1. e \in 0 .. (CMD_LEN - 1) /\ e \notin S
    BY <1>2, <1>4, <1>7
  <2> QED
    BY <1>1, <1>2, <2>1 DEF S
<1>11. b[z] = NUL <=> z = L
  <2>1. CASE z = L
    BY <1>2, <2>1
  <2>2. CASE z # L
    <3>1. z \in p .. (L - 1)
      BY <1>2, <1>3, <1>7, <2>2
    <3> QED
      BY <1>2, <2>2, <3>1
  <2> QED
    BY <2>1, <2>2
<1> QED
  BY <1>1, <1>5, <1>8, <1>9, <1>10, <1>11

\* Before(i) is finite, and counts no more tokens than the line has.
LEMMA BeforeFinite ==
  ASSUME TInv, PInv, pc = "parse", NEW i
  PROVE  /\ IsFiniteSet(TokenStarts) /\ Cardinality(TokenStarts) \in Nat
         /\ IsFiniteSet(Before(i)) /\ Cardinality(Before(i)) \in Nat
         /\ Cardinality(Before(i)) <= Cardinality(TokenStarts)
<1>1. TokenStarts \in SUBSET (1 .. Len(typed)) /\ 1 \in Int /\ Len(typed) \in Int
  BY LineFacts DEF TokenStarts
<1>2. IsFiniteSet(1 .. Len(typed))
  BY <1>1, FS_Interval
<1>3. IsFiniteSet(TokenStarts)
  BY <1>1, <1>2, FS_Subset
<1>4. Before(i) \in SUBSET TokenStarts
  BY DEF Before
<1>5. IsFiniteSet(Before(i)) /\ Cardinality(Before(i)) <= Cardinality(TokenStarts)
  BY <1>3, <1>4, FS_Subset
<1> QED
  BY <1>3, <1>5, FS_CardinalityType

\* One turn of parse_cmd's loop adds the next token of the line to argv.
LEMMA TokenParses ==
  ASSUME TInv, PInv, Token
  PROVE  PInv'
<1>1. pc = "parse" /\ ~AtEnd /\ buf[TokenStart] # NUL /\ Len(argv) # MAX_ARGS
  BY DEF Token, AtEnd
<1>2. PICK L, b, a, z : L \in Nat /\ L = Len(typed) /\ b = buf /\ a = TokenStart /\ z = TokenEnd
  BY <1>1, LineFacts
<1> L \in Nat
  BY <1>2
<1>3. /\ CMD_LEN \in Nat /\ L < CMD_LEN /\ p \in Nat /\ p <= L /\ DOMAIN b = 0 .. (CMD_LEN - 1)
      /\ DOMAIN typed = 1 .. L /\ \A i \in 1 .. L : typed[i] # NUL
      /\ NUL \notin Blank /\ b[L] = NUL
      /\ \A e \in p .. (L - 1) : b[e] = typed[e + 1] /\ e + 1 \in 1 .. L
  BY <1>1, <1>2, LineFacts
<1>4. /\ a \in p .. L /\ b[a] \notin Blank /\ b[a] # NUL /\ a # L
      /\ \A e \in p .. (a - 1) : b[e] \in Blank
      /\ \A i \in TokenStarts : ~(p < i /\ i <= a)
  BY <1>1, <1>2, StartFacts
<1>5. /\ z \in (a + 1) .. L /\ \A e \in a .. (z - 1) : b[e] \notin Blank \cup {NUL}
      /\ b[z] = NUL <=> z = L
      /\ b[z] \in Blank \cup {NUL}
  BY <1>1, <1>2, EndFacts
<1>6. a \in Nat /\ z \in Nat /\ p <= a /\ a < z /\ z <= L
  BY <1>3, <1>4, <1>5
<1>7. PICK q : q = IF z = L THEN z ELSE z + 1
  OBVIOUS
<1>8. q \in Nat /\ q <= L /\ z <= q /\ (q = L \/ typed[q] \in Blank)
  <2>1. CASE z = L
    BY <1>6, <1>7, <2>1
  <2>2. CASE z # L
    <3>1. z \in p .. (L - 1) /\ q = z + 1
      BY <1>3, <1>6, <1>7, <2>2
    <3>2. typed[q] = b[z] /\ b[z] \in Blank
      BY <1>3, <1>5, <2>2, <3>1
    <3> QED
      BY <1>6, <3>1, <3>2
  <2> QED
    BY <2>1, <2>2
<1>9. /\ p' = q /\ argv' = Append(argv, a) /\ typed' = typed /\ pc' = "parse"
      /\ buf' = [b EXCEPT ![z] = NUL]
  <2>1. /\ p' = q /\ argv' = Append(argv, a) /\ typed' = typed /\ pc' = "parse"
    BY <1>1, <1>2, <1>5, <1>7 DEF Token
  <2>2. text' = [text EXCEPT !["shell"] = [@ EXCEPT ![z] = NUL]]
    BY <1>2 DEF Token
  <2>3. "shell" \in DOMAIN text
    BY DEF TInv, TypeOK, Readers
  <2> QED
    BY <1>2, <2>1, <2>2, <2>3 DEF buf
<1>10. \A e \in 0 .. (CMD_LEN - 1) : buf'[e] = IF e = z THEN NUL ELSE b[e]
  BY <1>3, <1>9
<1>11. a + 1 \in TokenStarts
  <2>1. a \in p .. (L - 1) /\ a + 1 \in 1 .. L /\ typed[a + 1] \notin Blank
    BY <1>3, <1>4, <1>6
  <2>2. CASE a = p
    <3>1. p = 0 \/ p = L \/ typed[p] \in Blank
      BY <1>1, <1>2 DEF PInv
    <3>2. a + 1 = 1 \/ typed[(a + 1) - 1] \in Blank
      BY <1>4, <1>6, <2>2, <3>1
    <3> QED
      BY <1>3, <2>1, <3>2 DEF TokenStarts
  <2>3. CASE a # p
    <3>1. a - 1 \in p .. (a - 1) /\ a - 1 \in p .. (L - 1) /\ (a - 1) + 1 = a /\ (a + 1) - 1 = a
      BY <1>3, <1>6, <2>3
    <3>2. typed[a] \in Blank
      BY <1>3, <1>4, <3>1
    <3> QED
      BY <1>3, <2>1, <3>1, <3>2 DEF TokenStarts
  <2> QED
    BY <2>2, <2>3
<1>12. ASSUME NEW i \in TokenStarts, p < i, i <= q PROVE i = a + 1
  <2>1. i \in 1 .. L /\ typed[i] \notin Blank /\ (i = 1 \/ typed[i - 1] \in Blank)
    BY <1>3 DEF TokenStarts
  <2>2. ~(i <= a)
    BY <1>4, <1>12
  <2>3. SUFFICES ASSUME i # a + 1 PROVE FALSE
    OBVIOUS
  <2>4. PICK e \in Int : e = i - 2
    BY <2>1
  <2>5. e >= a /\ i - 1 = e + 1 /\ i # 1
    BY <1>6, <2>1, <2>2, <2>3, <2>4
  <2>6. CASE e < z
    <3>1. e \in a .. (z - 1) /\ e \in p .. (L - 1)
      BY <1>3, <1>6, <2>5, <2>6
    <3> QED
      BY <1>3, <1>5, <2>1, <2>5, <3>1
  <2>7. CASE ~(e < z)
    BY <1>6, <1>7, <1>12, <2>1, <2>4, <2>7
  <2> QED
    BY <2>6, <2>7
<1>13. Before(q + 1) = Before(p + 1) \cup {a + 1} /\ a + 1 \notin Before(p + 1)
  <2>1. TokenStarts \subseteq Int
    BY <1>3 DEF TokenStarts
  <2>2. a + 1 < q + 1 /\ ~(a + 1 < p + 1) /\ p <= q
    BY <1>3, <1>6, <1>8
  <2>3. ASSUME NEW i \in TokenStarts PROVE i < q + 1 <=> i < p + 1 \/ i = a + 1
    <3>1. i \in Int /\ p \in Int /\ q \in Int /\ a \in Int
      BY <1>3, <1>6, <1>8, <2>1
    <3>2. p < i /\ i <= q => i = a + 1
      BY <1>12
    <3> QED
      BY <2>2, <3>1, <3>2
  <2> QED
    BY <1>11, <2>2, <2>3 DEF Before
<1>14. Before(a + 1) = Before(p + 1)
  <2>1. TokenStarts \subseteq Int
    BY <1>3 DEF TokenStarts
  <2>2. ASSUME NEW i \in TokenStarts PROVE i < a + 1 <=> i < p + 1
    BY <1>3, <1>4, <1>6, <2>1
  <2> QED
    BY <2>2 DEF Before
<1>15. /\ argv \in Seq(Nat) /\ Len(argv) \in Nat /\ Len(argv) <= MAX_ARGS
       /\ Len(argv) = Cardinality(Before(p + 1)) /\ MAX_ARGS \in Nat
  BY <1>1, TerminalAssumption, LenProperties DEF PInv
<1>16. Cardinality(Before(q + 1)) = Len(argv) + 1 /\ Cardinality(Before(a + 1)) = Len(argv)
  BY <1>1, <1>13, <1>14, <1>15, BeforeFinite, FS_AddElement
<1>17. /\ argv' \in Seq(Nat) /\ Len(argv') = Len(argv) + 1
       /\ \A k \in 1 .. Len(argv) : argv'[k] = argv[k]
       /\ argv'[Len(argv) + 1] = a
  BY <1>6, <1>9, <1>15, AppendProperties
<1>18. ASSUME NEW k \in 1 .. Len(argv')
       PROVE  /\ argv'[k] + 1 \in TokenStarts /\ argv'[k] < q
              /\ Cardinality(Before(argv'[k] + 1)) = k - 1
              /\ \E j \in 1 .. L :
                   /\ argv'[k] < j /\ j <= q /\ buf'[j] = NUL
                   /\ j = L \/ typed[j + 1] \in Blank
                   /\ \A e \in argv'[k] .. (j - 1) :
                        buf'[e] = typed[e + 1] /\ buf'[e] \notin Blank \cup {NUL}
  <2>1. CASE k \in 1 .. Len(argv)
    <3>1. PICK c \in Nat : c = argv[k] /\ c = argv'[k]
      BY <1>15, <1>17, <2>1
    <3>2. c + 1 \in TokenStarts /\ c < p /\ Cardinality(Before(c + 1)) = k - 1 /\ Parsed(k)
      BY <1>1, <2>1, <3>1 DEF PInv
    <3>3. PICK j \in 1 .. L :
            /\ c < j /\ j <= p /\ b[j] = NUL
            /\ j = L \/ typed[j + 1] \in Blank
            /\ \A e \in c .. (j - 1) : b[e] = typed[e + 1] /\ b[e] \notin Blank \cup {NUL}
      BY <1>2, <3>1, <3>2 DEF Parsed
    <3>4. c < q /\ j <= q
      BY <1>3, <1>6, <1>8, <3>2, <3>3
    <3>5. buf'[j] = NUL
      BY <1>3, <1>10, <3>3
    <3>6. ASSUME NEW e \in c .. (j - 1) PROVE buf'[e] = b[e]
      <4>1. e \in 0 .. (CMD_LEN - 1) /\ e # z
        BY <1>3, <1>6, <3>3
      <4> QED
        BY <1>10, <4>1
    <3> QED
      BY <3>1, <3>2, <3>3, <3>4, <3>5, <3>6
  <2>2. CASE k \notin 1 .. Len(argv)
    <3>1. k = Len(argv) + 1 /\ argv'[k] = a /\ k - 1 = Len(argv)
      BY <1>15, <1>17, <2>2
    <3>2. z \in 1 .. L /\ a < z /\ z <= q /\ a < q
      BY <1>6, <1>8
    <3>3. buf'[z] = NUL /\ (z = L \/ typed[z + 1] \in Blank)
      <4>1. z \in 0 .. (CMD_LEN - 1)
        BY <1>3, <1>6
      <4>2. buf'[z] = NUL
        BY <1>10, <4>1
      <4>3. z # L => z \in p .. (L - 1)
        BY <1>3, <1>6
      <4>4. z # L => typed[z + 1] \in Blank
        BY <1>3, <1>5, <4>3
      <4> QED
        BY <4>2, <4>4
    <3>4. ASSUME NEW e \in a .. (z - 1)
          PROVE  buf'[e] = typed[e + 1] /\ buf'[e] \notin Blank \cup {NUL}
      <4>1. e \in 0 .. (CMD_LEN - 1) /\ e # z /\ e \in p .. (L - 1)
        BY <1>3, <1>6
      <4> QED
        BY <1>3, <1>5, <1>10, <4>1
    <3> QED
      BY <1>11, <1>16, <3>1, <3>2, <3>3, <3>4
  <2> QED
    BY <2>1, <2>2
<1>19. /\ buf'[L] = NUL
       /\ \A e \in q .. (L - 1) : buf'[e] = typed[e + 1]
  <2>1. L \in 0 .. (CMD_LEN - 1)
    BY <1>3
  <2>2. ASSUME NEW e \in q .. (L - 1) PROVE buf'[e] = typed[e + 1]
    <3>1. e \in p .. (L - 1) /\ e \in 0 .. (CMD_LEN - 1) /\ e # z
      BY <1>3, <1>6, <1>7, <1>8
    <3> QED
      BY <1>3, <1>10, <3>1
  <2> QED
    BY <1>3, <1>10, <2>1, <2>2
<1>20. TokenStarts' = TokenStarts /\ \A i : Before(i)' = Before(i)
  BY <1>9 DEF TokenStarts, Before
<1>21. Len(argv') <= MAX_ARGS
  BY <1>1, <1>15, <1>17
<1>22. typed \in Seq(Char \ {NUL})
  BY <1>1 DEF PInv
<1>23. ASSUME NEW k \in 1 .. Len(argv')
       PROVE  /\ (argv[k] + 1 \in TokenStarts)' /\ (argv[k] < p)'
              /\ Cardinality(Before(argv[k] + 1)') = k - 1 /\ Parsed(k)'
  <2>1. Before(argv[k] + 1)' = {i \in TokenStarts : i < argv'[k] + 1}
    BY <1>20 DEF Before
  <2>2. Before(argv'[k] + 1) = {i \in TokenStarts : i < argv'[k] + 1}
    BY DEF Before
  <2>3. (argv[k] + 1 \in TokenStarts)' /\ (argv[k] < p)'
    BY <1>9, <1>18, <1>20
  <2>4. Parsed(k)'
    <3>1. L = Len(typed') /\ p' = q /\ typed' = typed
      BY <1>2, <1>9
    <3>2. PICK c, y : c = argv'[k] /\ y = buf'
      OBVIOUS
    <3>3. \E j \in 1 .. L :
            /\ c < j /\ j <= q /\ y[j] = NUL
            /\ j = L \/ typed[j + 1] \in Blank
            /\ \A e \in c .. (j - 1) : y[e] = typed[e + 1] /\ y[e] \notin Blank \cup {NUL}
      BY <1>18, <3>2
    <3> QED
      BY <3>1, <3>2, <3>3 DEF Parsed
  <2>5. Cardinality(Before(argv'[k] + 1)) = k - 1
    BY <1>18
  <2> QED
    BY <2>1, <2>2, <2>3, <2>4, <2>5
<1>24. Len(argv') = Cardinality(Before(p + 1)')
  <2>1. Before(p + 1)' = Before(q + 1)
    BY <1>9, <1>20 DEF Before
  <2> QED
    BY <1>16, <1>17, <2>1
<1>25. /\ (p \in 0 .. Len(typed))' /\ (p = 0 \/ p = Len(typed) \/ typed[p] \in Blank)'
       /\ (typed \in Seq(Char \ {NUL}))' /\ (Len(typed) < CMD_LEN)'
  BY <1>2, <1>3, <1>8, <1>9, <1>22
<1>26. (buf[Len(typed)] = NUL)' /\ (\A e \in p .. (Len(typed) - 1) : buf[e] = typed[e + 1])'
  BY <1>2, <1>9, <1>19
<1> QED
  BY <1>17, <1>21, <1>23, <1>24, <1>25, <1>26 DEF PInv

\* Enter hands parse_cmd the buffer with the line and its '\0'.
LEMMA EnterParses ==
  ASSUME TInv, Enter, pc' = "parse"
  PROVE  PInv'
<1>1. CMD_LEN \in Nat \ {0} /\ Size("shell") = CMD_LEN /\ "shell" \in Readers
  BY SizeFact DEF Readers, Size
<1>2. who = "shell" /\ p' = 0 /\ argv' = <<>>
  BY DEF Enter
<1>3. PICK l : l = [text["shell"] EXCEPT ![n] = NUL]
  OBVIOUS
<1>4. text' = [text EXCEPT !["shell"] = l] /\ typed' = Str(l)
  BY <1>2, <1>3 DEF Enter
<1>5. text["shell"] \in [0 .. (CMD_LEN - 1) -> Char] /\ n \in 0 .. (CMD_LEN - 1) /\ "shell" \in DOMAIN text
  BY <1>1, <1>2 DEF TInv, TypeOK
<1>6. l \in [0 .. (CMD_LEN - 1) -> Char] /\ l[n] = NUL
  BY <1>3, <1>5 DEF Char
<1>7. buf' = l
  BY <1>4, <1>5 DEF buf
<1> DEFINE End(k) == l[k] = NUL /\ \A j \in 0 .. (k - 1) : l[j] # NUL
<1>8. \E k \in DOMAIN l : End(k)
  <2> DEFINE T == {k \in 0 .. (CMD_LEN - 1) : l[k] = NUL}
  <2>1. T \subseteq Nat /\ n \in T
    BY <1>1, <1>5, <1>6
  <2>2. PICK x \in T : \A y \in T : x <= y
    BY <2>1, Least
  <2>3. ASSUME NEW j \in 0 .. (x - 1) PROVE l[j] # NUL
    <3>1. j \in 0 .. (CMD_LEN - 1) /\ ~(x <= j)
      BY <1>1, <2>1
    <3> QED
      BY <2>2, <3>1
  <2> QED
    BY <1>6, <2>2, <2>3
<1>9. PICK L : L = kstrlen(l)
  OBVIOUS
<1>10. L \in 0 .. (CMD_LEN - 1) /\ End(L)
  BY <1>6, <1>8, <1>9 DEF kstrlen
<1>11. typed' = [k \in 1 .. L |-> l[k - 1]]
  BY <1>4, <1>9 DEF Str
<1>12. typed' \in Seq(Char \ {NUL}) /\ Len(typed') = L
  <2>1. L \in Nat /\ L < CMD_LEN
    BY <1>1, <1>10
  <2>2. ASSUME NEW k \in 1 .. L PROVE l[k - 1] \in Char \ {NUL}
    <3>1. k - 1 \in 0 .. (CMD_LEN - 1) /\ k - 1 \in 0 .. (L - 1)
      BY <1>1, <2>1
    <3> QED
      BY <1>6, <1>10, <3>1
  <2>3. PICK t : t = [k \in 1 .. L |-> l[k - 1]]
    OBVIOUS
  <2>4. t \in [1 .. L -> Char \ {NUL}]
    BY <2>2, <2>3
  <2>5. t \in Seq(Char \ {NUL}) /\ Len(t) = L
    BY <2>1, <2>4
  <2> QED
    BY <1>11, <2>3, <2>5
<1>13. \A e \in 0 .. (L - 1) : l[e] = typed'[e + 1]
  <2> TAKE e \in 0 .. (L - 1)
  <2>1. e + 1 \in 1 .. L /\ (e + 1) - 1 = e
    BY <1>1, <1>10
  <2> QED
    BY <1>11, <2>1
<1>14. Cardinality(Before(p + 1)') = 0
  <2>1. \A i \in DOMAIN typed' : i \in Nat /\ i >= 1
    BY <1>10, <1>11
  <2>2. Before(p + 1)' = {}
    BY <1>2, <2>1 DEF Before, TokenStarts
  <2> QED
    BY <2>2, FS_EmptySet
<1>15. argv' \in Seq(Nat) /\ Len(argv') = 0 /\ MAX_ARGS \in Nat
  BY <1>2, TerminalAssumption, EmptySeq
<1> QED
  BY <1>1, <1>2, <1>7, <1>10, <1>12, <1>13, <1>14, <1>15 DEF PInv

\* When parse_cmd ends, argv holds the tokens of the line.
LEMMA ParsedLine ==
  ASSUME TInv, PInv
  PROVE  ArgvAreTokens
<1> SUFFICES ASSUME pc = "parse", AtEnd
             PROVE  /\ Len(argv) = Minimum(MAX_ARGS, Cardinality(TokenStarts))
                    /\ \A k \in DOMAIN argv :
                         LET i == argv[k] + 1
                             j == FirstFrom(argv[k], {e \in DOMAIN buf : buf[e] = NUL})
                         IN /\ i \in TokenStarts /\ Cardinality(Before(i)) = k - 1
                            /\ \A e \in argv[k] .. (j - 1) : buf[e] = typed[e + 1] /\ buf[e] \notin Blank
                            /\ j = Len(typed) \/ typed[j + 1] \in Blank
  BY DEF ArgvAreTokens
<1>1. PICK L, b : L \in Nat /\ L = Len(typed) /\ b = buf
  BY LineFacts
<1> L \in Nat
  BY <1>1
<1>2. /\ CMD_LEN \in Nat /\ L < CMD_LEN /\ p \in Nat /\ p <= L /\ DOMAIN b = 0 .. (CMD_LEN - 1)
      /\ DOMAIN typed = 1 .. L /\ \A i \in 1 .. L : typed[i] # NUL
      /\ \A e \in p .. (L - 1) : b[e] = typed[e + 1] /\ e + 1 \in 1 .. L
  BY <1>1, LineFacts
<1>3. /\ argv \in Seq(Nat) /\ Len(argv) \in Nat /\ Len(argv) <= MAX_ARGS
      /\ Len(argv) = Cardinality(Before(p + 1)) /\ MAX_ARGS \in Nat /\ DOMAIN argv = 1 .. Len(argv)
  BY TerminalAssumption, LenProperties DEF PInv
<1>4. Len(argv) # MAX_ARGS => Before(p + 1) = TokenStarts
  <2> SUFFICES ASSUME Len(argv) # MAX_ARGS, NEW i \in TokenStarts PROVE i < p + 1
    BY DEF Before
  <2>1. i \in 1 .. L
    BY <1>2 DEF TokenStarts
  <2>2. CASE b[p] = NUL
    <3>1. ~(p \in p .. (L - 1))
      BY <1>2, <2>2
    <3> QED
      BY <1>2, <2>1, <3>1
  <2>3. CASE buf[TokenStart] = NUL
    <3>1. TokenStart = L /\ ~(p < i /\ i <= TokenStart)
      BY <1>1, <2>3, StartFacts
    <3> QED
      BY <1>2, <2>1, <3>1
  <2> QED
    BY <1>1, <2>2, <2>3 DEF AtEnd
<1>5. Len(argv) = Minimum(MAX_ARGS, Cardinality(TokenStarts))
  <2>1. PICK c \in Nat : c = Cardinality(TokenStarts)
    BY BeforeFinite
  <2>2. Len(argv) <= c
    BY <1>3, <2>1, BeforeFinite
  <2>3. Len(argv) # MAX_ARGS => Len(argv) = c
    BY <1>3, <1>4, <2>1
  <2> QED
    BY <1>3, <2>1, <2>2, <2>3 DEF Minimum
<1>6. ASSUME NEW k \in DOMAIN argv, NEW j, j = FirstFrom(argv[k], {e \in DOMAIN buf : buf[e] = NUL})
      PROVE  /\ argv[k] + 1 \in TokenStarts /\ Cardinality(Before(argv[k] + 1)) = k - 1
             /\ \A e \in argv[k] .. (j - 1) : buf[e] = typed[e + 1] /\ buf[e] \notin Blank
             /\ j = Len(typed) \/ typed[j + 1] \in Blank
  <2>1. k \in 1 .. Len(argv)
    BY <1>3
  <2>2. PICK c \in Nat : c = argv[k]
    BY <1>3
  <2>3. c + 1 \in TokenStarts /\ Cardinality(Before(c + 1)) = k - 1 /\ Parsed(k)
    BY <2>1, <2>2 DEF PInv
  <2>4. PICK z \in 1 .. L :
          /\ c < z /\ b[z] = NUL /\ (z = L \/ typed[z + 1] \in Blank)
          /\ \A e \in c .. (z - 1) : b[e] = typed[e + 1] /\ b[e] \notin Blank \cup {NUL}
    BY <1>1, <2>2, <2>3 DEF Parsed
  <2>5. PICK S : S = {e \in DOMAIN b : b[e] = NUL}
    OBVIOUS
  <2>6. z \in c .. (CMD_LEN - 1) /\ z \in S
    BY <1>2, <2>4, <2>5
  <2>7. j \in c .. z /\ j \in S
    <3>1. j = FirstFrom(c, S)
      BY <1>1, <1>6, <2>2, <2>5
    <3> QED
      BY <2>6, <3>1, FirstStop
  <2>8. j = z
    <3>1. b[j] = NUL
      BY <2>5, <2>7
    <3>2. ~(j \in c .. (z - 1))
      BY <2>4, <3>1
    <3> QED
      BY <2>4, <2>7, <3>2
  <2> QED
    BY <1>1, <2>2, <2>3, <2>4, <2>8
<1> QED
  BY <1>5, <1>6

\* Init and every step keep what parse_cmd has done so far.
LEMMA ParseInvariant ==
  /\ Init => PInv
  /\ TInv /\ PInv /\ [Next]_vars => PInv'
<1>1. Init => PInv
  BY DEF Init, PInv
<1>2. ASSUME TInv, PInv, [Next]_vars PROVE PInv'
  <2>1. ASSUME pc' # "parse" PROVE PInv'
    BY <2>1 DEF PInv
  <2>2. CASE Call
    <3>1. pc' # "parse"
      BY <2>2 DEF Call
    <3> QED
      BY <2>1, <3>1
  <2>3. CASE ShellLoop \/ Dispatch
    <3>1. pc' # "parse"
      BY <2>3 DEF ShellLoop, Dispatch
    <3> QED
      BY <2>1, <3>1
  <2>4. ASSUME NEW c \in Keys, Store(c) PROVE PInv'
    <3>1. pc' # "parse"
      BY <2>4 DEF Store, vars
    <3> QED
      BY <2>1, <3>1
  <2>5. CASE Erase
    <3>1. pc' # "parse"
      BY <2>5 DEF Erase, vars
    <3> QED
      BY <2>1, <3>1
  <2>6. CASE Enter
    BY <1>2, <2>1, <2>6, EnterParses
  <2>7. CASE Token
    BY <1>2, <2>7, TokenParses
  <2>8. CASE UNCHANGED vars
    <3>1. typed' = typed /\ buf' = buf /\ p' = p /\ argv' = argv /\ pc' = pc
      BY <2>8 DEF vars, parser, reader, buf
    <3>2. TokenStarts' = TokenStarts /\ \A i : Before(i)' = Before(i)
      BY <3>1 DEF TokenStarts, Before
    <3>3. \A k : Parsed(k)' <=> Parsed(k)
      BY <3>1 DEF Parsed
    <3> QED
      BY <1>2, <3>1, <3>2, <3>3 DEF PInv
  <2> QED
    BY <1>2, <2>2, <2>3, <2>4, <2>5, <2>6, <2>7, <2>8 DEF Next
<1> QED
  BY <1>1, <1>2

\* parse_cmd gives a command the first MAX_ARGS words of the line and no others,
\* each ended by a '\0', for every line and every length of buf.
THEOREM WordsOfTheLine == Spec => []ArgvAreTokens
<1>1. TInv /\ PInv => ArgvAreTokens
  BY ParsedLine
<1> QED
  BY <1>1, ParseInvariant, TerminalInvariant, PTL DEF Spec
=============================================================================
