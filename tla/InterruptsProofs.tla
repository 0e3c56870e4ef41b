-------------------------- MODULE InterruptsProofs --------------------------
(***************************************************************************)
(* For every set of devices and every mask the BIOS left: the boot order   *)
(* of kmain lets no interrupt through before it can be served, the stub    *)
(* that runs is the one of the line in service, every line is acknowledged *)
(* and none can fire once pic_restore has masked them.                     *)
(***************************************************************************)
EXTENDS Interrupts, TLAPS, WellFoundedInduction, SequenceTheorems

(***************************************************************************)
(* The inductive invariant                                                 *)
(***************************************************************************)
\* Where the two PICs are after k of the eight writes of ICWs.
Icw1(k) == IF k < 1 \/ k > 6 THEN 0 ELSE IF k < 3 THEN 1 ELSE IF k < 5 THEN 2 ELSE 3
Icw2(k) == IF k < 2 \/ k > 7 THEN 0 ELSE IF k < 4 THEN 1 ELSE IF k < 6 THEN 2 ELSE 3
Programmed(k, offset1, offset2) ==
  /\ pic[1].icw = Icw1(k) /\ pic[2].icw = Icw2(k)
  /\ k >= 3 => pic[1].base = offset1
  /\ k >= 4 => pic[2].base = offset2

Idle == irq = None /\ step = "none"
NoneInService == pic[1].isr = {} /\ pic[2].isr = {}

\* The lines in service while the stub of line irq runs, before its EOIs.
InService1 == pic[1].isr = {IF irq < 8 THEN irq ELSE Cascade}
InService2 == pic[2].isr = IF irq < 8 THEN {} ELSE {irq - 8}

Running ==
  /\ irq \in 0 .. 15
  /\ \/ step = "handler" /\ InService1 /\ InService2
     \/ step = "eoi_slave" /\ irq >= 8 /\ InService1 /\ InService2
     \/ step = "eoi_master" /\ InService1 /\ pic[2].isr = {}
     \/ step = "iret" /\ NoneInService

\* The kernel with its interrupts on: it waits, or an IRQ stub runs.
Serving ==
  /\ idt_loaded /\ Programmed(8, {5}, {3, 5})
  /\ \/ Idle /\ iflag = 1 /\ NoneInService
     \/ Running /\ iflag = 0

InBoot ==
  /\ ip \in 1 .. 15 /\ iflag = 0 /\ Idle /\ NoneInService
  /\ ip > 1 => idt_loaded
  /\ Programmed(ip - 3, {5}, {3, 5})

\* From the first ICW1 on no stub runs: the master is being initialised, or
\* what it raises faults, or it is masked.
InShutdown ==
  \/ ip = 1 /\ Serving
  \/ /\ ip \in 2 .. 12 /\ Idle /\ NoneInService
     /\ Programmed(ip - 1, {3}, {4, 5, 6})
     /\ ip > 9 => pic[1].imr = Bits
     /\ ip = 12 => iflag = 0

IInv ==
  /\ TypeOK /\ Cascade \notin pic[1].irr
  /\ code = "boot" => InBoot
  /\ code = "shell" => Serving
  /\ code = "shutdown" => InShutdown
  /\ code = "off" => Idle /\ iflag = 0 /\ NoneInService /\ pic[1].imr = Bits
  /\ code = "halted" => Idle /\ iflag = 0
  /\ fault \in {"none", "shutdown"}

(***************************************************************************)
(* The chips and the programs                                              *)
(***************************************************************************)
\* The least line of a set, as the priority resolver of the 8259A picks it.
LEMMA LeastLine ==
  ASSUME NEW S, S \subseteq Nat, S # {}
  PROVE  Min(S) \in S
<1> DEFINE Less == OpToRel(<, Nat)
<1>1. PICK x \in S : \A y \in S : ~(<<y, x>> \in Less)
  BY NatLessThanWellFounded, WFMin
<1>2. ASSUME NEW y \in S, y < x
      PROVE  <<y, x>> \in Less
  <2>1. <<y, x>> \in Nat \X Nat
    OBVIOUS
  <2> QED
    BY <2>1, <1>2 DEF OpToRel
<1> HIDE DEF Less
<1>3. \A y \in S : ~(y < x)
  BY <1>1, <1>2
<1>4. \A y \in S : x <= y
  BY <1>3
<1> QED
  BY <1>4 DEF Min

Chip == [base : SUBSET Bits, imr : SUBSET Bits, irr : SUBSET Bits, isr : SUBSET Bits, icw : 0 .. 3]

\* Only the initialisation state of a chip changes.
LEMMA SetIcw ==
  ASSUME NEW c \in Chip, NEW v \in 0 .. 3, NEW d, d = [c EXCEPT !.icw = v]
  PROVE  /\ d \in Chip /\ d.icw = v /\ d.base = c.base
         /\ d.imr = c.imr /\ d.irr = c.irr /\ d.isr = c.isr
BY DEF Chip

\* ICW1 clears the chip; an EOI changes only what is in service.
LEMMA CommandFacts ==
  ASSUME NEW c \in Chip, NEW byte, NEW d, d = Command(c, byte)
  PROVE  /\ d \in Chip /\ d.base = c.base
         /\ 4 \in byte => d.icw = 1 /\ d.irr = {} /\ d.isr = {} /\ d.imr = {}
         /\ 4 \notin byte => d.icw = c.icw /\ d.irr = c.irr /\ d.imr = c.imr
<1>1. CASE 4 \in byte
  <2>1. PICK d1, d2, d3, d4 :
          /\ d1 = [c EXCEPT !.imr = {}] /\ d2 = [d1 EXCEPT !.irr = {}]
          /\ d3 = [d2 EXCEPT !.isr = {}] /\ d4 = [d3 EXCEPT !.icw = 1]
    OBVIOUS
  <2>2. Command(c, byte) = d4
    BY <1>1, <2>1 DEF Command
  <2>3. d1 \in Chip /\ d1.base = c.base /\ d1.imr = {}
    BY <2>1 DEF Chip
  <2>4. d2 \in Chip /\ d2.base = c.base /\ d2.imr = {} /\ d2.irr = {}
    BY <2>1, <2>3 DEF Chip
  <2>5. d3 \in Chip /\ d3.base = c.base /\ d3.imr = {} /\ d3.irr = {} /\ d3.isr = {}
    BY <2>1, <2>4 DEF Chip
  <2>6. /\ d4 \in Chip /\ d4.base = c.base /\ d4.imr = {} /\ d4.irr = {} /\ d4.isr = {}
        /\ d4.icw = 1
    <3>1. PICK v \in 0 .. 3 : v = 1
      OBVIOUS
    <3>2. d4 = [d3 EXCEPT !.icw = v] /\ d3 \in Chip
      BY <2>1, <2>5, <3>1
    <3>3. d4 \in Chip /\ d4.icw = v /\ d4.base = d3.base /\ d4.imr = d3.imr
            /\ d4.irr = d3.irr /\ d4.isr = d3.isr
      BY <3>2, SetIcw
    <3> QED
      BY <2>5, <3>1, <3>3
  <2> QED
    BY <1>1, <2>2, <2>6
<1>2. CASE 4 \notin byte
  <2>1. PICK S : S = IF c.isr = {} THEN c.isr ELSE c.isr \ {Min(c.isr)}
    OBVIOUS
  <2>2. Command(c, byte) = [c EXCEPT !.isr = S]
    BY <1>2, <2>1 DEF Command
  <2>3. S \subseteq Bits
    BY <2>1 DEF Chip
  <2> QED
    BY <1>2, <2>2, <2>3 DEF Chip
<1> QED
  BY <1>1, <1>2

\* An EOI takes the one line in service out of it.
LEMMA EoiClears ==
  ASSUME NEW c \in Chip, NEW byte, 4 \notin byte, NEW x, c.isr = {x}, NEW d, d = Command(c, byte)
  PROVE  d.isr = {}
<1>1. x \in Bits
  BY DEF Chip
<1>2. {x} \subseteq Nat /\ {x} # {}
  BY <1>1 DEF Bits
<1>3. Min({x}) = x
  BY <1>2, LeastLine
<1>4. PICK S : S = c.isr \ {Min(c.isr)}
  OBVIOUS
<1>5. S = {} /\ c.isr # {}
  BY <1>3, <1>4
<1>6. d = [c EXCEPT !.isr = S]
  BY <1>4, <1>5 DEF Command
<1> QED
  BY <1>5, <1>6 DEF Chip

\* A data byte is the next ICW, or the mask.
LEMMA DataFacts ==
  ASSUME NEW c \in Chip, NEW byte \in SUBSET Bits, NEW d, d = Data(c, byte)
  PROVE  /\ d \in Chip /\ d.irr = c.irr /\ d.isr = c.isr
         /\ c.icw = 0 => d.imr = byte /\ d.icw = 0 /\ d.base = c.base
         /\ c.icw = 1 => d.imr = c.imr /\ d.icw = 2 /\ d.base = byte
         /\ c.icw = 2 => d.imr = c.imr /\ d.icw = 3 /\ d.base = c.base
         /\ c.icw = 3 => d.imr = c.imr /\ d.icw = 0 /\ d.base = c.base
<1>1. CASE c.icw = 0
  BY <1>1 DEF Data, Chip
<1>2. CASE c.icw = 1
  <2>1. PICK d1, d2 : d1 = [c EXCEPT !.base = byte] /\ d2 = [d1 EXCEPT !.icw = 2]
    OBVIOUS
  <2>2. Data(c, byte) = d2
    BY <1>2, <2>1 DEF Data
  <2>3. d1 \in Chip /\ d1.base = byte /\ d1.irr = c.irr /\ d1.isr = c.isr /\ d1.imr = c.imr
    BY <2>1 DEF Chip
  <2>4. /\ d2 \in Chip /\ d2.base = byte /\ d2.irr = c.irr /\ d2.isr = c.isr /\ d2.imr = c.imr
        /\ d2.icw = 2
    <3>1. PICK v \in 0 .. 3 : v = 2
      OBVIOUS
    <3>2. d2 = [d1 EXCEPT !.icw = v] /\ d1 \in Chip
      BY <2>1, <2>3, <3>1
    <3>3. d2 \in Chip /\ d2.icw = v /\ d2.base = d1.base /\ d2.imr = d1.imr
            /\ d2.irr = d1.irr /\ d2.isr = d1.isr
      BY <3>2, SetIcw
    <3> QED
      BY <2>3, <3>1, <3>3
  <2> QED
    BY <1>2, <2>2, <2>4
<1>3. CASE c.icw = 2
  BY <1>3 DEF Data, Chip
<1>4. CASE c.icw = 3
  BY <1>4 DEF Data, Chip
<1> QED
  BY <1>1, <1>2, <1>3, <1>4 DEF Chip

\* The vectors of the two PICs, remapped and restored.
LEMMA Vectors ==
  Value({5}) = 32 /\ Value({3, 5}) = 40 /\ Value({3}) = 8 /\ Value({4, 5, 6}) = 112
BY DEF Value, Bit

Instr == [op : {"idt_flush", "save_masks", "cmd", "data", "irq_register", "pic_unmask", "sti",
                "cli", "power_off"},
          chip : 0 .. 2, byte : SUBSET Bits]

\* The eight writes of ICWs, one after the other.
LEMMA IcwText ==
  ASSUME NEW o1 \in SUBSET Bits, NEW o2 \in SUBSET Bits
  PROVE  /\ ICWs(o1, o2) \in Seq(Instr) /\ Len(ICWs(o1, o2)) = 8
         /\ ICWs(o1, o2)[1] = outb("cmd", 1, {0, 4}) /\ ICWs(o1, o2)[2] = outb("cmd", 2, {0, 4})
         /\ ICWs(o1, o2)[3] = outb("data", 1, o1) /\ ICWs(o1, o2)[4] = outb("data", 2, o2)
         /\ ICWs(o1, o2)[5] = outb("data", 1, {2}) /\ ICWs(o1, o2)[6] = outb("data", 2, {1})
         /\ ICWs(o1, o2)[7] = outb("data", 1, {0}) /\ ICWs(o1, o2)[8] = outb("data", 2, {0})
<1>0. PICK s : s = ICWs(o1, o2)
  OBVIOUS
<1>1. PICK a1, a2, a3, a4, a5, a6, a7, a8 :
        /\ a1 = outb("cmd", 1, {0, 4}) /\ a2 = outb("cmd", 2, {0, 4})
        /\ a3 = outb("data", 1, o1) /\ a4 = outb("data", 2, o2)
        /\ a5 = outb("data", 1, {2}) /\ a6 = outb("data", 2, {1})
        /\ a7 = outb("data", 1, {0}) /\ a8 = outb("data", 2, {0})
  OBVIOUS
<1>2. {0, 4} \in SUBSET Bits /\ {2} \in SUBSET Bits /\ {1} \in SUBSET Bits /\ {0} \in SUBSET Bits
  BY DEF Bits
<1>3. /\ a1 \in Instr /\ a2 \in Instr /\ a3 \in Instr /\ a4 \in Instr
      /\ a5 \in Instr /\ a6 \in Instr /\ a7 \in Instr /\ a8 \in Instr
  BY <1>1, <1>2 DEF outb, Instr
<1>4. s = <<a1, a2, a3, a4, a5, a6, a7, a8>>
  BY <1>0, <1>1 DEF ICWs
<1>5. /\ s \in Seq(Instr) /\ Len(s) = 8 /\ s[1] = a1 /\ s[2] = a2 /\ s[3] = a3 /\ s[4] = a4
      /\ s[5] = a5 /\ s[6] = a6 /\ s[7] = a7 /\ s[8] = a8
  BY <1>3, <1>4
<1> QED
  BY <1>0, <1>1, <1>5

\* The instructions are records of the set Instr.
LEMMA InstrSet ==
  ASSUME NEW what \in {"idt_flush", "save_masks", "cmd", "data", "irq_register", "pic_unmask",
                       "sti", "cli", "power_off"},
         NEW n \in 0 .. 2, NEW byte \in SUBSET Bits
  PROVE  Do(what) \in Instr /\ outb(what, n, byte) \in Instr
<1>1. PICK z \in 0 .. 2, e \in SUBSET Bits : z = 0 /\ e = {}
  <2>1. 0 \in 0 .. 2 /\ {} \in SUBSET Bits
    OBVIOUS
  <2> QED
    BY <2>1, Zenon
<1>2. [op |-> what, chip |-> z, byte |-> e] \in Instr /\ [op |-> what, chip |-> n, byte |-> byte] \in Instr
  BY DEF Instr
<1> QED
  BY <1>1, <1>2 DEF Do, outb

\* Two parts of a program, one after the other.
LEMMA Joined ==
  ASSUME NEW s \in Seq(Instr), NEW t \in Seq(Instr)
  PROVE  /\ s \o t \in Seq(Instr) /\ Len(s \o t) = Len(s) + Len(t)
         /\ \A i \in 1 .. Len(s) : (s \o t)[i] = s[i]
         /\ \A i \in 1 .. Len(t) : (s \o t)[Len(s) + i] = t[i]
<1>1. PICK q : q = s \o t
  OBVIOUS
<1>2. PICK m \in Nat, n \in Nat : m = Len(s) /\ n = Len(t)
  OBVIOUS
<1>3. /\ q \in Seq(Instr) /\ Len(q) = m + n
      /\ \A i \in 1 .. m + n : q[i] = IF i <= m THEN s[i] ELSE t[i - m]
  BY <1>1, <1>2, ConcatProperties, Zenon
<1>4. \A i \in 1 .. m : q[i] = s[i]
  BY <1>3
<1>5. ASSUME NEW i \in 1 .. n PROVE q[m + i] = t[i]
  <2>1. m + i \in 1 .. m + n /\ ~(m + i <= m) /\ (m + i) - m = i
    OBVIOUS
  <2> QED
    BY <1>3, <2>1
<1> QED
  BY <1>1, <1>2, <1>3, <1>4, <1>5

\* The parts of kmain, around eight instructions s.
LEMMA BootParts ==
  ASSUME saved \in [1 .. 2 -> SUBSET Bits], NEW s \in Seq(Instr), Len(s) = 8, NEW p,
         p = <<Do("idt_flush")>> \o (<<Do("save_masks")>> \o s
               \o <<outb("data", 1, saved[1]), outb("data", 2, saved[2])>>)
               \o <<Do("irq_register"), Do("pic_unmask"), Do("sti")>>
  PROVE  /\ Len(p) = 15
         /\ p[1] = Do("idt_flush") /\ p[2] = Do("save_masks")
         /\ \A k \in 1 .. 8 : p[k + 2] = s[k]
         /\ p[11] = outb("data", 1, saved[1]) /\ p[12] = outb("data", 2, saved[2])
         /\ p[13] = Do("irq_register") /\ p[14] = Do("pic_unmask") /\ p[15] = Do("sti")
<1>2. s \in Seq(Instr) /\ Len(s) = 8
  OBVIOUS
<1>1. 0 \in 0 .. 2 /\ 1 \in 0 .. 2 /\ 2 \in 0 .. 2 /\ {} \in SUBSET Bits
  OBVIOUS
<1>3. PICK a1, a2, b1, b2, c1, c2, c3 :
        /\ a1 = Do("idt_flush") /\ a2 = Do("save_masks")
        /\ b1 = outb("data", 1, saved[1]) /\ b2 = outb("data", 2, saved[2])
        /\ c1 = Do("irq_register") /\ c2 = Do("pic_unmask") /\ c3 = Do("sti")
  OBVIOUS
<1>4. a1 \in Instr /\ a2 \in Instr /\ c1 \in Instr /\ c2 \in Instr /\ c3 \in Instr
  BY <1>1, <1>3, InstrSet
<1>5. b1 \in Instr /\ b2 \in Instr
  <2>1. saved[1] \in SUBSET Bits /\ saved[2] \in SUBSET Bits
    OBVIOUS
  <2> QED
    BY <1>3, <2>1, InstrSet
<1>6. PICK u1, u2, u3, u4 : u1 = <<a1>> /\ u2 = <<a2>> /\ u3 = <<b1, b2>> /\ u4 = <<c1, c2, c3>>
  OBVIOUS
<1>7. /\ u1 \in Seq(Instr) /\ Len(u1) = 1 /\ u1[1] = a1
      /\ u2 \in Seq(Instr) /\ Len(u2) = 1 /\ u2[1] = a2
      /\ u3 \in Seq(Instr) /\ Len(u3) = 2 /\ u3[1] = b1 /\ u3[2] = b2
      /\ u4 \in Seq(Instr) /\ Len(u4) = 3 /\ u4[1] = c1 /\ u4[2] = c2 /\ u4[3] = c3
  BY <1>4, <1>5, <1>6
<1>8. PICK q1, q2, q3, q4 : q1 = u2 \o s /\ q2 = q1 \o u3 /\ q3 = u1 \o q2 /\ q4 = q3 \o u4
  OBVIOUS
<1>9. p = q4
  BY <1>3, <1>6, <1>8
<1>10. /\ q1 \in Seq(Instr) /\ Len(q1) = 1 + 8 /\ q1[1] = a2
       /\ \A k \in 1 .. 8 : q1[1 + k] = s[k]
  <2>1. /\ q1 \in Seq(Instr) /\ Len(q1) = Len(u2) + Len(s)
        /\ \A i \in 1 .. Len(u2) : q1[i] = u2[i]
        /\ \A i \in 1 .. Len(s) : q1[Len(u2) + i] = s[i]
    <3>1. q1 = u2 \o s /\ u2 \in Seq(Instr) /\ s \in Seq(Instr)
      BY <1>2, <1>7, <1>8
    <3> QED
      BY <3>1, Joined, Zenon
  <2>2. Len(q1) = 1 + 8 /\ q1[1] = a2
    BY <2>1, <1>2, <1>7
  <2>3. ASSUME NEW k \in 1 .. 8 PROVE q1[1 + k] = s[k]
    <3>1. k \in 1 .. Len(s) /\ Len(u2) = 1
      BY <1>2, <1>7
    <3> QED
      BY <2>1, <3>1
  <2> QED
    BY <2>1, <2>2, <2>3
<1>11. /\ q2 \in Seq(Instr) /\ Len(q2) = 9 + 2
       /\ \A k \in 1 .. 9 : q2[k] = q1[k]
       /\ q2[9 + 1] = b1 /\ q2[9 + 2] = b2
  <2>1. /\ q2 \in Seq(Instr) /\ Len(q2) = Len(q1) + Len(u3)
        /\ \A i \in 1 .. Len(q1) : q2[i] = q1[i]
        /\ \A i \in 1 .. Len(u3) : q2[Len(q1) + i] = u3[i]
    <3>1. q2 = q1 \o u3 /\ q1 \in Seq(Instr) /\ u3 \in Seq(Instr)
      BY <1>7, <1>8, <1>10
    <3> QED
      BY <3>1, Joined, Zenon
  <2> QED
    BY <2>1, <1>7, <1>10
<1>12. /\ q3 \in Seq(Instr) /\ Len(q3) = 1 + 11 /\ q3[1] = a1
       /\ \A k \in 1 .. 11 : q3[1 + k] = q2[k]
  <2>1. /\ q3 \in Seq(Instr) /\ Len(q3) = Len(u1) + Len(q2)
        /\ \A i \in 1 .. Len(u1) : q3[i] = u1[i]
        /\ \A i \in 1 .. Len(q2) : q3[Len(u1) + i] = q2[i]
    <3>1. q3 = u1 \o q2 /\ u1 \in Seq(Instr) /\ q2 \in Seq(Instr)
      BY <1>7, <1>8, <1>11
    <3> QED
      BY <3>1, Joined, Zenon
  <2> QED
    BY <2>1, <1>7, <1>11
<1>13. /\ Len(q4) = 12 + 3
       /\ \A i \in 1 .. 12 : q4[i] = q3[i]
       /\ q4[12 + 1] = c1 /\ q4[12 + 2] = c2 /\ q4[12 + 3] = c3
  <2>1. /\ q4 \in Seq(Instr) /\ Len(q4) = Len(q3) + Len(u4)
        /\ \A i \in 1 .. Len(q3) : q4[i] = q3[i]
        /\ \A i \in 1 .. Len(u4) : q4[Len(q3) + i] = u4[i]
    <3>1. q4 = q3 \o u4 /\ q3 \in Seq(Instr) /\ u4 \in Seq(Instr)
      BY <1>7, <1>8, <1>12
    <3> QED
      BY <3>1, Joined, Zenon
  <2> QED
    BY <2>1, <1>7, <1>12
<1>14. ASSUME NEW k \in 1 .. 8 PROVE q4[k + 2] = s[k]
  <2>1. q1[1 + k] = s[k]
    BY <1>10
  <2>2. q2[1 + k] = q1[1 + k]
    BY <1>11
  <2>3. q3[1 + (1 + k)] = q2[1 + k]
    BY <1>12
  <2>4. q4[1 + (1 + k)] = q3[1 + (1 + k)]
    BY <1>13
  <2> QED
    BY <2>1, <2>2, <2>3, <2>4
<1>15. /\ q4[1] = a1 /\ q4[2] = a2 /\ q4[11] = b1 /\ q4[12] = b2
       /\ q4[13] = c1 /\ q4[14] = c2 /\ q4[15] = c3 /\ Len(q4) = 15
  <2>1. q3[1 + 1] = q2[1] /\ q3[1 + 10] = q2[10] /\ q3[1 + 11] = q2[11] /\ q2[1] = q1[1]
    BY <1>11, <1>12
  <2> QED
    BY <2>1, <1>10, <1>11, <1>12, <1>13
<1> QED
  BY <1>3, <1>9, <1>14, <1>15

\* kmain: 15 instructions, the ICWs from the third to the tenth.
LEMMA BootText ==
  ASSUME saved \in [1 .. 2 -> SUBSET Bits], code = "boot"
  PROVE  /\ Len(Program) = 15
         /\ Program[1] = Do("idt_flush") /\ Program[2] = Do("save_masks")
         /\ \A k \in 1 .. 8 : Program[k + 2] = ICWs({5}, {3, 5})[k]
         /\ Program[11] = outb("data", 1, saved[1]) /\ Program[12] = outb("data", 2, saved[2])
         /\ Program[13] = Do("irq_register") /\ Program[14] = Do("pic_unmask")
         /\ Program[15] = Do("sti")
<1>1. PICK o1 \in SUBSET Bits, o2 \in SUBSET Bits : o1 = {5} /\ o2 = {3, 5}
  <2>1. {5} \in SUBSET Bits /\ {3, 5} \in SUBSET Bits
    BY DEF Bits
  <2> QED
    BY <2>1
<1>2. ICWs(o1, o2) \in Seq(Instr) /\ Len(ICWs(o1, o2)) = 8
  BY IcwText
<1>3. PICK s \in Seq(Instr) : s = ICWs(o1, o2) /\ Len(s) = 8
  BY <1>2
<1>4. PICK p : p = Program
  OBVIOUS
<1>5. p = <<Do("idt_flush")>> \o (<<Do("save_masks")>> \o s
               \o <<outb("data", 1, saved[1]), outb("data", 2, saved[2])>>)
               \o <<Do("irq_register"), Do("pic_unmask"), Do("sti")>>
  BY <1>1, <1>3, <1>4 DEF Program, kmain, pic_init
<1>6. /\ Len(p) = 15
      /\ p[1] = Do("idt_flush") /\ p[2] = Do("save_masks")
      /\ \A k \in 1 .. 8 : p[k + 2] = s[k]
      /\ p[11] = outb("data", 1, saved[1]) /\ p[12] = outb("data", 2, saved[2])
      /\ p[13] = Do("irq_register") /\ p[14] = Do("pic_unmask") /\ p[15] = Do("sti")
  BY <1>3, <1>5, BootParts
<1>7. s = ICWs({5}, {3, 5})
  BY <1>1, <1>3
<1> QED
  BY <1>4, <1>6, <1>7

\* The parts of cmd_shutdown, behind eight instructions s.
LEMMA ShutdownParts ==
  ASSUME NEW s \in Seq(Instr), Len(s) = 8, NEW p,
         p = (s \o <<outb("data", 1, Bits), outb("data", 2, Bits)>>) \o <<Do("cli"), Do("power_off")>>
  PROVE  /\ Len(p) = 12
         /\ \A k \in 1 .. 8 : p[k] = s[k]
         /\ p[9] = outb("data", 1, Bits) /\ p[10] = outb("data", 2, Bits)
         /\ p[11] = Do("cli") /\ p[12] = Do("power_off")
<1>1. 1 \in 0 .. 2 /\ 2 \in 0 .. 2 /\ Bits \in SUBSET Bits
  OBVIOUS
<1>2. s \in Seq(Instr) /\ Len(s) = 8
  OBVIOUS
<1>3. PICK b1, b2, c1, c2 :
        /\ b1 = outb("data", 1, Bits) /\ b2 = outb("data", 2, Bits)
        /\ c1 = Do("cli") /\ c2 = Do("power_off")
  OBVIOUS
<1>4. b1 \in Instr /\ b2 \in Instr /\ c1 \in Instr /\ c2 \in Instr
  BY <1>1, <1>3, InstrSet
<1>5. PICK u1, u2, q1, q2 : u1 = <<b1, b2>> /\ u2 = <<c1, c2>> /\ q1 = s \o u1 /\ q2 = q1 \o u2
  OBVIOUS
<1>6. p = q2
  BY <1>3, <1>5
<1>7. /\ u1 \in Seq(Instr) /\ Len(u1) = 2 /\ u1[1] = b1 /\ u1[2] = b2
      /\ u2 \in Seq(Instr) /\ Len(u2) = 2 /\ u2[1] = c1 /\ u2[2] = c2
  BY <1>4, <1>5
<1>8. /\ q1 \in Seq(Instr) /\ Len(q1) = 8 + 2
      /\ \A i \in 1 .. 8 : q1[i] = s[i]
      /\ q1[8 + 1] = b1 /\ q1[8 + 2] = b2
  <2>1. /\ q1 \in Seq(Instr) /\ Len(q1) = Len(s) + Len(u1)
        /\ \A i \in 1 .. Len(s) : q1[i] = s[i]
        /\ \A i \in 1 .. Len(u1) : q1[Len(s) + i] = u1[i]
    <3>1. q1 = s \o u1 /\ s \in Seq(Instr) /\ u1 \in Seq(Instr)
      BY <1>2, <1>5, <1>7
    <3> QED
      BY <3>1, Joined, Zenon
  <2>2. Len(q1) = 8 + 2 /\ q1[8 + 1] = b1 /\ q1[8 + 2] = b2
    BY <2>1, <1>2, <1>7
  <2>3. ASSUME NEW i \in 1 .. 8 PROVE q1[i] = s[i]
    BY <2>1, <1>2
  <2> QED
    BY <2>1, <2>2, <2>3
<1>9. /\ Len(q2) = 10 + 2
      /\ \A i \in 1 .. 10 : q2[i] = q1[i]
      /\ q2[10 + 1] = c1 /\ q2[10 + 2] = c2
  <2>1. /\ q2 \in Seq(Instr) /\ Len(q2) = Len(q1) + Len(u2)
        /\ \A i \in 1 .. Len(q1) : q2[i] = q1[i]
        /\ \A i \in 1 .. Len(u2) : q2[Len(q1) + i] = u2[i]
    <3>1. q2 = q1 \o u2 /\ q1 \in Seq(Instr) /\ u2 \in Seq(Instr)
      BY <1>5, <1>7, <1>8
    <3> QED
      BY <3>1, Joined, Zenon
  <2> QED
    BY <2>1, <1>7, <1>8
<1>10. \A k \in 1 .. 8 : q2[k] = s[k]
  BY <1>8, <1>9
<1>11. q2[9] = b1 /\ q2[10] = b2 /\ q2[11] = c1 /\ q2[12] = c2 /\ Len(q2) = 12
  BY <1>8, <1>9
<1> QED
  BY <1>3, <1>6, <1>10, <1>11

\* cmd_shutdown: 12 instructions, the ICWs of pic_restore first.
LEMMA ShutdownText ==
  ASSUME code = "shutdown"
  PROVE  /\ Len(Program) = 12
         /\ \A k \in 1 .. 8 : Program[k] = ICWs({3}, {4, 5, 6})[k]
         /\ Program[9] = outb("data", 1, Bits) /\ Program[10] = outb("data", 2, Bits)
         /\ Program[11] = Do("cli") /\ Program[12] = Do("power_off")
<1>1. PICK o1 \in SUBSET Bits, o2 \in SUBSET Bits : o1 = {3} /\ o2 = {4, 5, 6}
  <2>1. {3} \in SUBSET Bits /\ {4, 5, 6} \in SUBSET Bits
    BY DEF Bits
  <2> QED
    BY <2>1
<1>2. ICWs(o1, o2) \in Seq(Instr) /\ Len(ICWs(o1, o2)) = 8
  BY IcwText
<1>3. PICK s \in Seq(Instr) : s = ICWs(o1, o2) /\ Len(s) = 8
  BY <1>2
<1>4. PICK p : p = Program
  OBVIOUS
<1>5. p = (s \o <<outb("data", 1, Bits), outb("data", 2, Bits)>>) \o <<Do("cli"), Do("power_off")>>
  BY <1>1, <1>3, <1>4 DEF Program, cmd_shutdown, pic_restore
<1>6. /\ Len(p) = 12
      /\ \A k \in 1 .. 8 : p[k] = s[k]
      /\ p[9] = outb("data", 1, Bits) /\ p[10] = outb("data", 2, Bits)
      /\ p[11] = Do("cli") /\ p[12] = Do("power_off")
  BY <1>3, <1>5, ShutdownParts
<1>7. s = ICWs({3}, {4, 5, 6})
  BY <1>1, <1>3
<1> QED
  BY <1>4, <1>6, <1>7

(***************************************************************************)
(* Writing to the ports                                                    *)
(***************************************************************************)
\* An ICW1 written to one chip.
LEMMA CommandWrite ==
  ASSUME pic \in [1 .. 2 -> Chip], NEW n \in 1 .. 2,
         pic' = [pic EXCEPT ![n] = Command(@, {0, 4})]
  PROVE  /\ pic' \in [1 .. 2 -> Chip]
         /\ \A m \in 1 .. 2 : m # n => pic'[m] = pic[m]
         /\ pic'[n].base = pic[n].base /\ pic'[n].icw = 1
         /\ pic'[n].irr = {} /\ pic'[n].isr = {}
<1>1. PICK b : b = {0, 4} /\ 4 \in b
  OBVIOUS
<1>2. PICK c, d : c \in Chip /\ c = pic[n] /\ d = Command(c, b)
  OBVIOUS
<1> c \in Chip
  BY <1>2
<1>3. d \in Chip /\ d.base = c.base /\ d.icw = 1 /\ d.irr = {} /\ d.isr = {}
  BY <1>1, <1>2, CommandFacts
<1>4. pic' = [pic EXCEPT ![n] = d]
  BY <1>1, <1>2
<1> QED
  BY <1>2, <1>3, <1>4

\* An EOI written to one chip.
LEMMA EoiWrite ==
  ASSUME pic \in [1 .. 2 -> Chip], NEW n \in 1 .. 2,
         pic' = [pic EXCEPT ![n] = Command(@, {5})]
  PROVE  /\ pic' \in [1 .. 2 -> Chip]
         /\ \A m \in 1 .. 2 : m # n => pic'[m] = pic[m]
         /\ pic'[n].base = pic[n].base /\ pic'[n].icw = pic[n].icw
         /\ pic'[n].irr = pic[n].irr
         /\ (\E x : pic[n].isr = {x}) => pic'[n].isr = {}
<1>1. PICK b : b = {5} /\ 4 \notin b
  OBVIOUS
<1>2. PICK c, d : c \in Chip /\ c = pic[n] /\ d = Command(c, b)
  OBVIOUS
<1> c \in Chip
  BY <1>2
<1>3. /\ d \in Chip /\ d.base = c.base /\ d.icw = c.icw /\ d.irr = c.irr
      /\ (\E x : c.isr = {x}) => d.isr = {}
  <2>1. d \in Chip /\ d.base = c.base /\ d.icw = c.icw /\ d.irr = c.irr
    BY <1>1, <1>2, CommandFacts
  <2>2. ASSUME NEW x, c.isr = {x} PROVE d.isr = {}
    BY <1>1, <1>2, <2>2, EoiClears
  <2> QED
    BY <2>1, <2>2
<1>4. pic' = [pic EXCEPT ![n] = d]
  BY <1>1, <1>2
<1> QED
  BY <1>2, <1>3, <1>4

\* A data byte written to one chip.
LEMMA DataWrite ==
  ASSUME pic \in [1 .. 2 -> Chip], NEW n \in 1 .. 2, NEW byte \in SUBSET Bits,
         pic' = [pic EXCEPT ![n] = Data(@, byte)]
  PROVE  /\ pic' \in [1 .. 2 -> Chip]
         /\ \A m \in 1 .. 2 : m # n => pic'[m] = pic[m]
         /\ pic'[n].irr = pic[n].irr /\ pic'[n].isr = pic[n].isr
         /\ pic[n].icw = 0 => pic'[n].imr = byte /\ pic'[n].icw = 0 /\ pic'[n].base = pic[n].base
         /\ pic[n].icw = 1 => pic'[n].icw = 2 /\ pic'[n].base = byte
         /\ pic[n].icw = 2 => pic'[n].icw = 3 /\ pic'[n].base = pic[n].base
         /\ pic[n].icw = 3 => pic'[n].icw = 0 /\ pic'[n].base = pic[n].base
<1>1. PICK c, d : c \in Chip /\ c = pic[n] /\ d = Data(c, byte)
  OBVIOUS
<1> c \in Chip
  BY <1>1
<1>2. /\ d \in Chip /\ d.irr = c.irr /\ d.isr = c.isr
      /\ c.icw = 0 => d.imr = byte /\ d.icw = 0 /\ d.base = c.base
      /\ c.icw = 1 => d.icw = 2 /\ d.base = byte
      /\ c.icw = 2 => d.icw = 3 /\ d.base = c.base
      /\ c.icw = 3 => d.icw = 0 /\ d.base = c.base
  BY <1>1, DataFacts
<1>3. pic' = [pic EXCEPT ![n] = d]
  BY <1>1
<1> QED
  BY <1>1, <1>2, <1>3

\* The k-th write of ICWs takes both chips one step on.
LEMMA IcwStep ==
  ASSUME pic \in [1 .. 2 -> Chip], NoneInService, Cascade \notin pic[1].irr,
         NEW k \in 0 .. 7, NEW o1 \in SUBSET Bits, NEW o2 \in SUBSET Bits,
         Programmed(k, o1, o2), NEW i, i = ICWs(o1, o2)[k + 1],
         \/ i.op = "cmd" /\ pic' = [pic EXCEPT ![i.chip] = Command(@, i.byte)]
         \/ i.op = "data" /\ pic' = [pic EXCEPT ![i.chip] = Data(@, i.byte)]
  PROVE  /\ pic' \in [1 .. 2 -> Chip] /\ NoneInService' /\ Cascade \notin pic'[1].irr
         /\ Programmed(k + 1, o1, o2)'
<1> USE DEF NoneInService, Programmed, Icw1, Icw2
<1>0. PICK b0, b1, b2, b4 : b0 = {0} /\ b1 = {1} /\ b2 = {2} /\ b4 = {0, 4}
  OBVIOUS
<1>a. b0 \in SUBSET Bits /\ b1 \in SUBSET Bits /\ b2 \in SUBSET Bits
  BY <1>0 DEF Bits
<1>b. PICK s : s = ICWs(o1, o2)
  OBVIOUS
<1>c. /\ s[1] = outb("cmd", 1, b4) /\ s[2] = outb("cmd", 2, b4)
      /\ s[3] = outb("data", 1, o1) /\ s[4] = outb("data", 2, o2)
      /\ s[5] = outb("data", 1, b2) /\ s[6] = outb("data", 2, b1)
      /\ s[7] = outb("data", 1, b0) /\ s[8] = outb("data", 2, b0)
  BY <1>0, <1>b, IcwText
<1>d. i = s[k + 1]
  BY <1>b
<1>1. CASE k = 0 \/ k = 1
  <2>1. PICK n \in 1 .. 2 : n = k + 1 /\ i = outb("cmd", n, b4)
    BY <1>1, <1>c, <1>d
  <2>2. pic' = [pic EXCEPT ![n] = Command(@, {0, 4})]
    BY <1>0, <2>1 DEF outb
  <2>3. /\ pic' \in [1 .. 2 -> Chip]
        /\ \A m \in 1 .. 2 : m # n => pic'[m] = pic[m]
        /\ pic'[n].base = pic[n].base /\ pic'[n].icw = 1
        /\ pic'[n].irr = {} /\ pic'[n].isr = {}
    BY <2>2, CommandWrite
  <2>4. CASE k = 0
    BY <2>1, <2>3, <2>4
  <2>5. CASE k = 1
    BY <2>1, <2>3, <2>5
  <2> QED
    BY <1>1, <2>4, <2>5
<1>2. ASSUME NEW n \in 1 .. 2, NEW byte \in SUBSET Bits, i = outb("data", n, byte)
      PROVE  /\ pic' \in [1 .. 2 -> Chip]
             /\ \A m \in 1 .. 2 : m # n => pic'[m] = pic[m]
             /\ pic'[n].irr = pic[n].irr /\ pic'[n].isr = pic[n].isr
             /\ pic[n].icw = 1 => pic'[n].icw = 2 /\ pic'[n].base = byte
             /\ pic[n].icw = 2 => pic'[n].icw = 3 /\ pic'[n].base = pic[n].base
             /\ pic[n].icw = 3 => pic'[n].icw = 0 /\ pic'[n].base = pic[n].base
  <2>1. pic' = [pic EXCEPT ![n] = Data(@, byte)]
    BY <1>2 DEF outb
  <2> QED
    BY <2>1, DataWrite
<1>4. CASE k = 2
  <2>1. i = outb("data", 1, o1)
    BY <1>4, <1>c, <1>d
  <2> QED
    BY <1>2, <1>4, <2>1
<1>5. CASE k = 3
  <2>1. i = outb("data", 2, o2)
    BY <1>5, <1>c, <1>d
  <2> QED
    BY <1>2, <1>5, <2>1
<1>6. CASE k = 4
  <2>1. i = outb("data", 1, b2)
    BY <1>6, <1>c, <1>d
  <2> QED
    BY <1>2, <1>a, <1>6, <2>1
<1>7. CASE k = 5
  <2>1. i = outb("data", 2, b1)
    BY <1>7, <1>c, <1>d
  <2> QED
    BY <1>2, <1>a, <1>7, <2>1
<1>8. CASE k = 6
  <2>1. i = outb("data", 1, b0)
    BY <1>8, <1>c, <1>d
  <2> QED
    BY <1>2, <1>a, <1>8, <2>1
<1>9. CASE k = 7
  <2>1. i = outb("data", 2, b0)
    BY <1>9, <1>c, <1>d
  <2> QED
    BY <1>2, <1>a, <1>9, <2>1
<1> HIDE DEF NoneInService, Programmed, Icw1, Icw2
<1>e. k = 0 \/ k = 1 \/ k = 2 \/ k = 3 \/ k = 4 \/ k = 5 \/ k = 6 \/ k = 7
  OBVIOUS
<1> QED
  BY <1>e, <1>1, <1>4, <1>5, <1>6, <1>7, <1>8, <1>9

(***************************************************************************)
(* Which instruction is where                                              *)
(***************************************************************************)
\* The ICWs are port writes.
LEMMA IcwOps ==
  ASSUME NEW o1 \in SUBSET Bits, NEW o2 \in SUBSET Bits, NEW k \in 1 .. 8
  PROVE  ICWs(o1, o2)[k].op \in {"cmd", "data"}
<1>1. PICK s : s = ICWs(o1, o2)
  OBVIOUS
<1>2. PICK b0, b1, b2, b4 : b0 = {0} /\ b1 = {1} /\ b2 = {2} /\ b4 = {0, 4}
  OBVIOUS
<1>3. /\ s[1] = outb("cmd", 1, b4) /\ s[2] = outb("cmd", 2, b4)
      /\ s[3] = outb("data", 1, o1) /\ s[4] = outb("data", 2, o2)
      /\ s[5] = outb("data", 1, b2) /\ s[6] = outb("data", 2, b1)
      /\ s[7] = outb("data", 1, b0) /\ s[8] = outb("data", 2, b0)
  BY <1>1, <1>2, IcwText
<1>4. k = 1 \/ k = 2 \/ k = 3 \/ k = 4 \/ k = 5 \/ k = 6 \/ k = 7 \/ k = 8
  OBVIOUS
<1>5. s[k].op \in {"cmd", "data"}
  BY <1>3, <1>4 DEF outb
<1> QED
  BY <1>1, <1>5

\* The order of kmain.
LEMMA BootOps ==
  ASSUME saved \in [1 .. 2 -> SUBSET Bits], code = "boot", NEW j \in 1 .. 15
  PROVE  /\ Program[j].op = "idt_flush" => j = 1
         /\ Program[j].op = "save_masks" => j = 2
         /\ Program[j].op \in {"cmd", "data"} => j \in 3 .. 12
         /\ Program[j].op = "irq_register" => j = 13
         /\ Program[j].op = "pic_unmask" => j = 14
         /\ Program[j].op = "sti" => j = 15
         /\ Program[j].op # "cli" /\ Program[j].op # "power_off"
<1>1. PICK p : p = Program
  OBVIOUS
<1>2. PICK o1 \in SUBSET Bits, o2 \in SUBSET Bits : o1 = {5} /\ o2 = {3, 5}
  <2>1. {5} \in SUBSET Bits /\ {3, 5} \in SUBSET Bits
    BY DEF Bits
  <2> QED
    BY <2>1
<1>3. \A k \in 1 .. 8 : p[k + 2] = ICWs(o1, o2)[k]
  BY <1>1, <1>2, BootText
<1>4. /\ p[1].op = "idt_flush" /\ p[2].op = "save_masks" /\ p[11].op = "data" /\ p[12].op = "data"
      /\ p[13].op = "irq_register" /\ p[14].op = "pic_unmask" /\ p[15].op = "sti"
  BY <1>1, BootText DEF Do, outb
<1>5. CASE j \in 3 .. 10
  <2>1. PICK k \in 1 .. 8 : j = k + 2
    BY <1>5
  <2>2. p[j].op \in {"cmd", "data"}
    BY <1>3, <2>1, IcwOps
  <2> QED
    BY <1>1, <1>5, <2>2
<1>6. CASE j \in {1, 2, 11, 12, 13, 14, 15}
  BY <1>1, <1>4, <1>6
<1> QED
  BY <1>5, <1>6

\* The order of cmd_shutdown.
LEMMA ShutdownOps ==
  ASSUME code = "shutdown", NEW j \in 1 .. 12
  PROVE  /\ Program[j].op \in {"cmd", "data"} => j \in 1 .. 10
         /\ Program[j].op = "cli" <=> j = 11
         /\ Program[j].op = "power_off" => j = 12
         /\ Program[j].op \notin {"idt_flush", "save_masks", "irq_register", "pic_unmask", "sti"}
<1>1. PICK p : p = Program
  OBVIOUS
<1>2. PICK o1 \in SUBSET Bits, o2 \in SUBSET Bits : o1 = {3} /\ o2 = {4, 5, 6}
  <2>1. {3} \in SUBSET Bits /\ {4, 5, 6} \in SUBSET Bits
    BY DEF Bits
  <2> QED
    BY <2>1
<1>3. \A k \in 1 .. 8 : p[k] = ICWs(o1, o2)[k]
  BY <1>1, <1>2, ShutdownText
<1>4. p[9].op = "data" /\ p[10].op = "data" /\ p[11].op = "cli" /\ p[12].op = "power_off"
  BY <1>1, ShutdownText DEF Do, outb
<1>5. CASE j \in 1 .. 8
  <2>1. p[j].op \in {"cmd", "data"}
    BY <1>3, <1>5, IcwOps
  <2> QED
    BY <1>1, <1>5, <2>1
<1>6. CASE j \in {9, 10, 11, 12}
  BY <1>1, <1>4, <1>6
<1> QED
  BY <1>5, <1>6

(***************************************************************************)
(* The invariant holds initially                                           *)
(***************************************************************************)
\* At power-on nothing is in service and the PICs are not being programmed.
LEMMA InitInv == Init => IInv
<1> SUFFICES ASSUME Init PROVE IInv
  OBVIOUS
<1>1. PICK m \in [1 .. 2 -> SUBSET Bits] :
        pic = [n \in 1 .. 2 |-> [base |-> IF n = 1 THEN {3} ELSE {4, 5, 6},
                                 imr |-> m[n], irr |-> {}, isr |-> {}, icw |-> 0]]
  BY DeviceAssumption DEF Init
<1>2. PICK o1 \in SUBSET Bits, o2 \in SUBSET Bits : o1 = {3} /\ o2 = {4, 5, 6}
  <2>1. {3} \in SUBSET Bits /\ {4, 5, 6} \in SUBSET Bits
    BY DEF Bits
  <2> QED
    BY <2>1
<1>3. PICK e \in SUBSET Bits, z \in 0 .. 3 : e = {} /\ z = 0
  <2>1. {} \in SUBSET Bits /\ 0 \in 0 .. 3
    OBVIOUS
  <2> QED
    BY <2>1
<1>4. pic = [n \in 1 .. 2 |-> [base |-> IF n = 1 THEN o1 ELSE o2,
                               imr |-> m[n], irr |-> e, isr |-> e, icw |-> z]]
  BY <1>1, <1>2, <1>3
<1>5. \A n \in 1 .. 2 : [base |-> IF n = 1 THEN o1 ELSE o2,
                         imr |-> m[n], irr |-> e, isr |-> e, icw |-> z] \in Chip
  BY DEF Chip
<1>6. pic \in [1 .. 2 -> Chip]
  BY <1>4, <1>5
<1>7. \A n \in 1 .. 2 : pic[n].irr = {} /\ pic[n].isr = {} /\ pic[n].icw = 0
  BY <1>3, <1>4
<1>8. /\ idt_loaded = FALSE /\ iflag = 0 /\ irq_handlers = {}
      /\ code = "boot" /\ ip = 1 /\ irq = None /\ step = "none"
      /\ key_waiting = FALSE /\ raises = 0 /\ fault = "none"
  BY DEF Init
<1>9. saved \in [1 .. 2 -> SUBSET Bits]
  <2>1. saved = [n \in 1 .. 2 |-> e]
    BY <1>3 DEF Init
  <2> QED
    BY <2>1
<1>10. TypeOK
  <2>1. /\ ip \in 1 .. 20 /\ irq \in 0 .. None /\ raises \in 0 .. MaxRaises
    BY <1>8, DeviceAssumption DEF None
  <2> QED
    BY <1>6, <1>8, <1>9, <2>1 DEF TypeOK, Chip
<1>11. InBoot
  <2>1. Programmed(ip - 3, {5}, {3, 5})
    BY <1>7, <1>8 DEF Programmed, Icw1, Icw2
  <2> QED
    BY <1>7, <1>8, <2>1 DEF InBoot, Idle, NoneInService
<1> QED
  BY <1>7, <1>8, <1>10, <1>11 DEF IInv

(***************************************************************************)
(* The steps of the programs                                               *)
(***************************************************************************)
\* No stub runs when the kernel fetches an instruction of a program.
LEMMA Fetched ==
  ASSUME IInv, NEW what, Fetch(what)
  PROVE  /\ Program[ip].op = what /\ Idle /\ NoneInService
         /\ UNCHANGED <<irq, step, key_waiting, raises, fault>>
         /\ \/ /\ code = "boot" /\ ip \in 1 .. 15 /\ InBoot
               /\ ip < 15 => ip' = ip + 1 /\ code' = "boot"
               /\ ip = 15 => ip' = 1 /\ code' = "shell"
            \/ /\ code = "shutdown" /\ ip \in 1 .. 12
               /\ Programmed(ip - 1, {3}, {4, 5, 6})
               /\ ip > 9 => pic[1].imr = Bits
               /\ ip = 12 => iflag = 0
               /\ ip < 12 => ip' = ip + 1 /\ code' = "shutdown"
               /\ ip = 12 => ip' = 1 /\ code' = "off"
<1>1. /\ Program[ip].op = what /\ irq = None /\ code \in {"boot", "shutdown"}
      /\ UNCHANGED <<irq, step, key_waiting, raises, fault>>
  BY DEF Fetch, stubVars
<1>2. CASE code = "boot"
  <2>1. InBoot /\ ip \in 1 .. 15
    BY <1>2 DEF IInv, InBoot
  <2>2. Len(Program) = 15
    BY <1>2, BootText DEF IInv, TypeOK
  <2>3. /\ ip < 15 => ip' = ip + 1 /\ code' = "boot"
        /\ ip = 15 => ip' = 1 /\ code' = "shell"
    BY <1>2, <2>1, <2>2 DEF Fetch
  <2> QED
    BY <1>1, <1>2, <2>1, <2>3 DEF InBoot
<1>3. CASE code = "shutdown"
  <2>1. InShutdown
    BY <1>3 DEF IInv
  <2>2. /\ ip \in 1 .. 12 /\ Idle /\ NoneInService
        /\ Programmed(ip - 1, {3}, {4, 5, 6})
        /\ ip > 9 => pic[1].imr = Bits
        /\ ip = 12 => iflag = 0
    <3>1. CASE ip = 1 /\ Serving
      <4>1. Idle /\ NoneInService /\ Programmed(8, {5}, {3, 5})
        BY <1>1, <3>1 DEF Serving, Running, None
      <4>2. Programmed(0, {3}, {4, 5, 6})
        BY <4>1 DEF Programmed, Icw1, Icw2
      <4> QED
        BY <3>1, <4>1, <4>2
    <3>2. CASE ~(ip = 1 /\ Serving)
      BY <2>1, <3>2 DEF InShutdown
    <3> QED
      BY <3>1, <3>2
  <2>3. Len(Program) = 12
    BY <1>3, ShutdownText
  <2>4. /\ ip < 12 => ip' = ip + 1 /\ code' = "shutdown"
        /\ ip = 12 => ip' = 1 /\ code' = "off"
    BY <1>3, <2>2, <2>3 DEF Fetch
  <2> QED
    BY <1>1, <1>3, <2>2, <2>4
<1> QED
  BY <1>1, <1>2, <1>3

\* The type of everything but the chips.
RestTyped ==
  /\ idt_loaded \in BOOLEAN /\ iflag \in {0, 1} /\ irq_handlers \subseteq {Keyboard}
  /\ code \in {"boot", "shell", "shutdown", "off", "halted"}
  /\ ip \in 1 .. 20 /\ saved \in [1 .. 2 -> SUBSET Bits]
  /\ irq \in 0 .. None /\ step \in {"none", "handler", "eoi_slave", "eoi_master", "iret"}
  /\ key_waiting \in BOOLEAN /\ raises \in 0 .. MaxRaises
  /\ fault \in {"none", "boot", "shell", "shutdown", "off"}

\* The registers of both chips are bytes.
LEMMA PicTyped ==
  /\ TypeOK <=> pic \in [1 .. 2 -> Chip] /\ RestTyped
  /\ TypeOK' <=> pic' \in [1 .. 2 -> Chip] /\ RestTyped'
BY Zenon DEF TypeOK, Chip, RestTyped

\* lidt: the second instruction of kmain finds the table loaded.
LEMMA IdtFlushKeeps == IInv /\ idt_flush => IInv'
<1> SUFFICES ASSUME IInv, idt_flush PROVE IInv'
  OBVIOUS
<1>1. Fetch("idt_flush") /\ idt_loaded' = TRUE /\ UNCHANGED <<pic, iflag, irq_handlers, saved>>
  BY DEF idt_flush
<1>2. /\ code = "boot" /\ ip = 1 /\ InBoot /\ ip' = 2 /\ code' = "boot"
      /\ UNCHANGED <<irq, step, key_waiting, raises, fault>>
  <2>1. saved \in [1 .. 2 -> SUBSET Bits]
    BY DEF IInv, TypeOK
  <2>2. CASE code = "boot"
    BY <1>1, <2>1, <2>2, Fetched, BootOps
  <2>3. CASE code = "shutdown"
    BY <1>1, <2>3, Fetched, ShutdownOps
  <2> QED
    BY <1>1, <2>2, <2>3, Fetched
<1>3. TypeOK'
  BY <1>1, <1>2 DEF IInv, TypeOK
<1>4. Programmed(ip - 3, {5}, {3, 5})'
  BY <1>1, <1>2 DEF InBoot, Programmed, Icw1, Icw2
<1>5. InBoot'
  BY <1>1, <1>2, <1>4 DEF InBoot, Idle, NoneInService
<1> QED
  BY <1>1, <1>2, <1>3, <1>5 DEF IInv

\* pic_init reads the masks it will write back.
LEMMA SaveMasksKeeps == IInv /\ SaveMasks => IInv'
<1> SUFFICES ASSUME IInv, SaveMasks PROVE IInv'
  OBVIOUS
<1>1. /\ Fetch("save_masks") /\ saved' = [n \in 1 .. 2 |-> pic[n].imr]
      /\ UNCHANGED <<pic, idt_loaded, iflag, irq_handlers>>
  BY DEF SaveMasks
<1>2. /\ code = "boot" /\ ip = 2 /\ InBoot /\ ip' = 3 /\ code' = "boot"
      /\ UNCHANGED <<irq, step, key_waiting, raises, fault>>
  <2>1. saved \in [1 .. 2 -> SUBSET Bits]
    BY DEF IInv, TypeOK
  <2>2. CASE code = "boot"
    BY <1>1, <2>1, <2>2, Fetched, BootOps
  <2>3. CASE code = "shutdown"
    BY <1>1, <2>3, Fetched, ShutdownOps
  <2> QED
    BY <1>1, <2>2, <2>3, Fetched
<1>3. saved' \in [1 .. 2 -> SUBSET Bits]
  <2>1. \A n \in 1 .. 2 : pic[n].imr \in SUBSET Bits
    BY DEF IInv, TypeOK
  <2> QED
    BY <1>1, <2>1
<1>4. TypeOK'
  BY <1>1, <1>2, <1>3 DEF IInv, TypeOK
<1>5. Programmed(ip - 3, {5}, {3, 5})'
  BY <1>1, <1>2 DEF InBoot, Programmed, Icw1, Icw2
<1>6. InBoot'
  BY <1>1, <1>2, <1>5 DEF InBoot, Idle, NoneInService
<1> QED
  BY <1>1, <1>2, <1>4, <1>6 DEF IInv

\* kbd_init registers the handler of line 1.
LEMMA RegisterKeeps == IInv /\ irq_register => IInv'
<1> SUFFICES ASSUME IInv, irq_register PROVE IInv'
  OBVIOUS
<1>1. /\ Fetch("irq_register") /\ irq_handlers' = irq_handlers \cup {Keyboard}
      /\ UNCHANGED <<pic, idt_loaded, iflag, saved>>
  BY DEF irq_register
<1>2. /\ code = "boot" /\ ip = 13 /\ InBoot /\ ip' = 14 /\ code' = "boot"
      /\ UNCHANGED <<irq, step, key_waiting, raises, fault>>
  <2>1. saved \in [1 .. 2 -> SUBSET Bits]
    BY DEF IInv, TypeOK
  <2>2. CASE code = "boot"
    BY <1>1, <2>1, <2>2, Fetched, BootOps
  <2>3. CASE code = "shutdown"
    BY <1>1, <2>3, Fetched, ShutdownOps
  <2> QED
    BY <1>1, <2>2, <2>3, Fetched
<1>3. TypeOK'
  BY <1>1, <1>2 DEF IInv, TypeOK
<1>4. Programmed(ip - 3, {5}, {3, 5})'
  BY <1>1, <1>2 DEF InBoot, Programmed, Icw1, Icw2
<1>5. InBoot'
  BY <1>1, <1>2, <1>4 DEF InBoot, Idle, NoneInService
<1> QED
  BY <1>1, <1>2, <1>3, <1>5 DEF IInv

\* kbd_init clears the mask of line 1: the chips are in service again.
LEMMA UnmaskKeeps == IInv /\ pic_unmask => IInv'
<1> SUFFICES ASSUME IInv, pic_unmask PROVE IInv'
  OBVIOUS
<1>1. /\ Fetch("pic_unmask") /\ pic' = [pic EXCEPT ![1] = Data(@, @.imr \ {Keyboard})]
      /\ UNCHANGED <<idt_loaded, iflag, irq_handlers, saved>>
  BY DEF pic_unmask
<1>2. /\ code = "boot" /\ ip = 14 /\ InBoot /\ ip' = 15 /\ code' = "boot"
      /\ UNCHANGED <<irq, step, key_waiting, raises, fault>>
  <2>1. saved \in [1 .. 2 -> SUBSET Bits]
    BY DEF IInv, TypeOK
  <2>2. CASE code = "boot"
    BY <1>1, <2>1, <2>2, Fetched, BootOps
  <2>3. CASE code = "shutdown"
    BY <1>1, <2>3, Fetched, ShutdownOps
  <2> QED
    BY <1>1, <2>2, <2>3, Fetched
<1>3. pic \in [1 .. 2 -> Chip]
  BY PicTyped DEF IInv
<1>4. PICK b \in SUBSET Bits : b = pic[1].imr \ {Keyboard}
  <2>1. pic[1].imr \in SUBSET Bits
    BY <1>3 DEF Chip
  <2>2. pic[1].imr \ {Keyboard} \in SUBSET Bits
    BY <2>1
  <2> QED
    BY <2>2
<1>5. pic' = [pic EXCEPT ![1] = Data(@, b)]
  BY <1>1, <1>4
<1>6. Programmed(11, {5}, {3, 5})
  BY <1>2 DEF InBoot
<1>7. pic[1].icw = 0 /\ pic[2].icw = 0 /\ pic[1].base = {5} /\ pic[2].base = {3, 5}
  BY <1>6 DEF Programmed, Icw1, Icw2
<1>8. /\ pic' \in [1 .. 2 -> Chip] /\ pic'[2] = pic[2]
      /\ pic'[1].irr = pic[1].irr /\ pic'[1].isr = pic[1].isr
      /\ pic'[1].icw = 0 /\ pic'[1].base = pic[1].base
  <2>1. 1 \in 1 .. 2 /\ 2 \in 1 .. 2 /\ 1 # 2
    OBVIOUS
  <2> QED
    BY <1>3, <1>5, <1>7, <2>1, DataWrite
<1>9. TypeOK'
  <2>1. RestTyped
    BY PicTyped DEF IInv
  <2>2. RestTyped'
    BY <1>1, <1>2, <2>1 DEF RestTyped
  <2> QED
    BY <1>8, <2>2, PicTyped
<1>10. Programmed(ip - 3, {5}, {3, 5})'
  BY <1>2, <1>7, <1>8 DEF Programmed, Icw1, Icw2
<1>11. InBoot'
  BY <1>1, <1>2, <1>8, <1>10 DEF InBoot, Idle, NoneInService
<1> QED
  BY <1>1, <1>2, <1>8, <1>9, <1>11 DEF IInv

\* The end of kmain: IF is set only when the table is loaded, both chips are
\* remapped and their initialisation is over.
LEMMA StiKeeps == IInv /\ Sti => IInv'
<1> SUFFICES ASSUME IInv, Sti PROVE IInv'
  OBVIOUS
<1>1. Fetch("sti") /\ iflag' = 1 /\ UNCHANGED <<pic, idt_loaded, irq_handlers, saved>>
  BY DEF Sti
<1>2. /\ code = "boot" /\ ip = 15 /\ InBoot /\ ip' = 1 /\ code' = "shell"
      /\ UNCHANGED <<irq, step, key_waiting, raises, fault>>
  <2>1. saved \in [1 .. 2 -> SUBSET Bits]
    BY DEF IInv, TypeOK
  <2>2. CASE code = "boot"
    BY <1>1, <2>1, <2>2, Fetched, BootOps
  <2>3. CASE code = "shutdown"
    BY <1>1, <2>3, Fetched, ShutdownOps
  <2> QED
    BY <1>1, <2>2, <2>3, Fetched
<1>3. TypeOK'
  BY <1>1, <1>2 DEF IInv, TypeOK
<1>4. Programmed(12, {5}, {3, 5})
  BY <1>2 DEF InBoot
<1>5. Programmed(8, {5}, {3, 5})'
  BY <1>1, <1>4 DEF Programmed, Icw1, Icw2
<1>6. Serving'
  BY <1>1, <1>2, <1>5 DEF InBoot, Serving, Idle, NoneInService
<1> QED
  BY <1>1, <1>2, <1>3, <1>6 DEF IInv

\* cli behind pic_restore.
LEMMA CliKeeps == IInv /\ Cli => IInv'
<1> SUFFICES ASSUME IInv, Cli PROVE IInv'
  OBVIOUS
<1>1. Fetch("cli") /\ iflag' = 0 /\ UNCHANGED <<pic, idt_loaded, irq_handlers, saved>>
  BY DEF Cli
<1>2. /\ code = "shutdown" /\ ip = 11 /\ ip' = 12 /\ code' = "shutdown"
      /\ Idle /\ NoneInService /\ pic[1].imr = Bits
      /\ UNCHANGED <<irq, step, key_waiting, raises, fault>>
  <2>1. saved \in [1 .. 2 -> SUBSET Bits]
    BY DEF IInv, TypeOK
  <2>2. CASE code = "boot"
    BY <1>1, <2>1, <2>2, Fetched, BootOps
  <2>3. CASE code = "shutdown"
    BY <1>1, <2>3, Fetched, ShutdownOps
  <2> QED
    BY <1>1, <2>2, <2>3, Fetched
<1>3. Programmed(10, {3}, {4, 5, 6})
  BY <1>1, <1>2, Fetched
<1>4. TypeOK'
  BY <1>1, <1>2 DEF IInv, TypeOK
<1>5. Programmed(ip - 1, {3}, {4, 5, 6})'
  BY <1>1, <1>2, <1>3 DEF Programmed, Icw1, Icw2
<1>6. InShutdown'
  BY <1>1, <1>2, <1>5 DEF InShutdown, Idle, NoneInService
<1> QED
  BY <1>1, <1>2, <1>4, <1>6 DEF IInv

\* The power is cut, or the kernel halts with IF clear.
LEMMA PowerOffKeeps == IInv /\ PowerOff => IInv'
<1> SUFFICES ASSUME IInv, PowerOff PROVE IInv'
  OBVIOUS
<1>1. Fetch("power_off") /\ UNCHANGED <<pic, idt_loaded, iflag, irq_handlers, saved>>
  BY DEF PowerOff
<1>2. /\ code = "shutdown" /\ ip = 12 /\ ip' = 1 /\ code' = "off"
      /\ Idle /\ NoneInService /\ pic[1].imr = Bits /\ iflag = 0
      /\ UNCHANGED <<irq, step, key_waiting, raises, fault>>
  <2>1. saved \in [1 .. 2 -> SUBSET Bits]
    BY DEF IInv, TypeOK
  <2>2. CASE code = "boot"
    BY <1>1, <2>1, <2>2, Fetched, BootOps
  <2>3. CASE code = "shutdown"
    BY <1>1, <2>3, Fetched, ShutdownOps
  <2> QED
    BY <1>1, <2>2, <2>3, Fetched
<1>3. TypeOK'
  BY <1>1, <1>2 DEF IInv, TypeOK
<1> QED
  BY <1>1, <1>2, <1>3 DEF IInv, Idle, NoneInService

\* A port write of kmain: the next ICW, or a mask of pic_init.
LEMMA BootOut ==
  ASSUME IInv, Out, code = "boot"
  PROVE  IInv'
<1>1. PICK i : i = Program[ip]
  OBVIOUS
<1>2. /\ \/ Fetch("cmd") /\ pic' = [pic EXCEPT ![i.chip] = Command(@, i.byte)]
         \/ Fetch("data") /\ pic' = [pic EXCEPT ![i.chip] = Data(@, i.byte)]
      /\ UNCHANGED <<idt_loaded, iflag, irq_handlers, saved>>
  BY <1>1 DEF Out
<1>3. PICK what \in {"cmd", "data"} : Fetch(what)
  BY <1>2
<1>4. /\ ip \in 3 .. 12 /\ ip' = ip + 1 /\ code' = "boot" /\ InBoot
      /\ UNCHANGED <<irq, step, key_waiting, raises, fault>>
  BY <1>3, Fetched, BootOps DEF IInv, TypeOK
<1>5. pic \in [1 .. 2 -> Chip] /\ RestTyped
  BY PicTyped DEF IInv
<1>6. RestTyped'
  BY <1>2, <1>4, <1>5 DEF RestTyped
<1>7. /\ pic' \in [1 .. 2 -> Chip] /\ NoneInService' /\ Cascade \notin pic'[1].irr
      /\ Programmed(ip - 3, {5}, {3, 5})'
  <2>1. Programmed(ip - 3, {5}, {3, 5}) /\ NoneInService /\ Cascade \notin pic[1].irr
    BY <1>4 DEF InBoot, IInv
  <2>2. \/ i.op = "cmd" /\ pic' = [pic EXCEPT ![i.chip] = Command(@, i.byte)]
        \/ i.op = "data" /\ pic' = [pic EXCEPT ![i.chip] = Data(@, i.byte)]
    BY <1>1, <1>2, Fetched
  <2>3. CASE ip \in 3 .. 10
    <3>1. PICK k \in 0 .. 7 : k = ip - 3
      BY <2>3
    <3>2. PICK o1 \in SUBSET Bits, o2 \in SUBSET Bits : o1 = {5} /\ o2 = {3, 5}
      <4>1. {5} \in SUBSET Bits /\ {3, 5} \in SUBSET Bits
        BY DEF Bits
      <4> QED
        BY <4>1
    <3>3. i = ICWs(o1, o2)[k + 1]
      <4>1. PICK j \in 1 .. 8 : j = k + 1 /\ ip = j + 2
        BY <2>3, <3>1
      <4>2. Program[j + 2] = ICWs({5}, {3, 5})[j]
        BY <1>5, BootText DEF RestTyped
      <4> QED
        BY <1>1, <3>2, <4>1, <4>2
    <3>4. Programmed(k, o1, o2)
      BY <2>1, <3>1, <3>2
    <3>5. /\ pic' \in [1 .. 2 -> Chip] /\ NoneInService' /\ Cascade \notin pic'[1].irr
          /\ Programmed(k + 1, o1, o2)'
      BY <1>5, <2>1, <2>2, <3>3, <3>4, IcwStep
    <3>6. ip' - 3 = k + 1
      BY <1>4, <2>3, <3>1
    <3> QED
      BY <3>2, <3>5, <3>6 DEF Programmed
  <2>4. CASE ip \in 11 .. 12
    <3>1. PICK n \in 1 .. 2, b \in SUBSET Bits : i = outb("data", n, b)
      <4>1. ip = 11 \/ ip = 12
        BY <2>4
      <4>2. saved[1] \in SUBSET Bits /\ saved[2] \in SUBSET Bits
        BY <1>5 DEF RestTyped
      <4> QED
        BY <1>1, <1>5, <4>1, <4>2, BootText DEF RestTyped
    <3>2. pic' = [pic EXCEPT ![n] = Data(@, b)]
      BY <2>2, <3>1 DEF outb
    <3>3. pic[1].icw = 0 /\ pic[2].icw = 0 /\ pic[1].base = {5} /\ pic[2].base = {3, 5}
      BY <2>1, <2>4 DEF Programmed, Icw1, Icw2
    <3>4. /\ pic' \in [1 .. 2 -> Chip]
          /\ \A m \in 1 .. 2 : m # n => pic'[m] = pic[m]
          /\ pic'[n].irr = pic[n].irr /\ pic'[n].isr = pic[n].isr
          /\ pic[n].icw = 0 => pic'[n].icw = 0 /\ pic'[n].base = pic[n].base
      BY <1>5, <3>2, DataWrite
    <3>5. \A m \in 1 .. 2 : /\ pic'[m].irr = pic[m].irr /\ pic'[m].isr = pic[m].isr
                            /\ pic'[m].icw = 0 /\ pic'[m].base = pic[m].base
      BY <3>3, <3>4
    <3>6. Programmed(ip - 3, {5}, {3, 5})'
      BY <1>4, <2>4, <3>3, <3>5 DEF Programmed, Icw1, Icw2
    <3> QED
      BY <2>1, <3>4, <3>5, <3>6 DEF NoneInService
  <2> QED
    BY <1>4, <2>3, <2>4
<1>8. InBoot'
  <2>1. ip \in 3 .. 12 /\ idt_loaded /\ iflag = 0 /\ irq = None /\ step = "none"
    BY <1>4 DEF InBoot, Idle
  <2>2. ip' \in 1 .. 15 /\ iflag' = 0 /\ Idle' /\ idt_loaded'
    BY <1>2, <1>4, <2>1 DEF Idle
  <2> QED
    BY <1>7, <2>2 DEF InBoot
<1> QED
  BY <1>4, <1>6, <1>7, <1>8, PicTyped DEF IInv

\* A port write of pic_restore: the next ICW, or the mask of every line.
LEMMA ShutdownOut ==
  ASSUME IInv, Out, code = "shutdown"
  PROVE  IInv'
<1>1. PICK i : i = Program[ip]
  OBVIOUS
<1>2. /\ \/ Fetch("cmd") /\ pic' = [pic EXCEPT ![i.chip] = Command(@, i.byte)]
         \/ Fetch("data") /\ pic' = [pic EXCEPT ![i.chip] = Data(@, i.byte)]
      /\ UNCHANGED <<idt_loaded, iflag, irq_handlers, saved>>
  BY <1>1 DEF Out
<1>3. PICK what \in {"cmd", "data"} : Fetch(what)
  BY <1>2
<1>4. /\ ip \in 1 .. 10 /\ ip' = ip + 1 /\ code' = "shutdown" /\ Idle /\ NoneInService
      /\ Programmed(ip - 1, {3}, {4, 5, 6})
      /\ ip > 9 => pic[1].imr = Bits
      /\ UNCHANGED <<irq, step, key_waiting, raises, fault>>
  BY <1>3, Fetched, ShutdownOps
<1>5. pic \in [1 .. 2 -> Chip] /\ RestTyped
  BY PicTyped DEF IInv
<1>6. RestTyped'
  BY <1>2, <1>4, <1>5 DEF RestTyped
<1>7. /\ pic' \in [1 .. 2 -> Chip] /\ NoneInService' /\ Cascade \notin pic'[1].irr
      /\ Programmed(ip - 1, {3}, {4, 5, 6})'
      /\ ip' > 9 => pic'[1].imr = Bits
  <2>1. Cascade \notin pic[1].irr
    BY DEF IInv
  <2>2. \/ i.op = "cmd" /\ pic' = [pic EXCEPT ![i.chip] = Command(@, i.byte)]
        \/ i.op = "data" /\ pic' = [pic EXCEPT ![i.chip] = Data(@, i.byte)]
    BY <1>1, <1>2, Fetched
  <2>3. CASE ip \in 1 .. 8
    <3>1. PICK k \in 0 .. 7 : k = ip - 1
      BY <2>3
    <3>2. PICK o1 \in SUBSET Bits, o2 \in SUBSET Bits : o1 = {3} /\ o2 = {4, 5, 6}
      <4>1. {3} \in SUBSET Bits /\ {4, 5, 6} \in SUBSET Bits
        BY DEF Bits
      <4> QED
        BY <4>1
    <3>3. i = ICWs(o1, o2)[k + 1]
      <4>1. ip = k + 1
        BY <2>3, <3>1
      <4>2. Program[ip] = ICWs({3}, {4, 5, 6})[ip]
        BY <2>3, ShutdownText
      <4> QED
        BY <1>1, <3>2, <4>1, <4>2
    <3>4. Programmed(k, o1, o2)
      BY <1>4, <3>1, <3>2
    <3>5. /\ pic' \in [1 .. 2 -> Chip] /\ NoneInService' /\ Cascade \notin pic'[1].irr
          /\ Programmed(k + 1, o1, o2)'
      BY <1>4, <1>5, <2>1, <2>2, <3>3, <3>4, IcwStep
    <3>6. ip' - 1 = k + 1 /\ ~(ip' > 9)
      BY <1>4, <2>3, <3>1
    <3> QED
      BY <3>2, <3>5, <3>6 DEF Programmed
  <2>4. CASE ip \in 9 .. 10
    <3>1. PICK n \in 1 .. 2 : n = ip - 8 /\ i = outb("data", n, Bits)
      <4>1. ip = 9 \/ ip = 10
        BY <2>4
      <4> QED
        BY <1>1, <4>1, ShutdownText
    <3>2. pic' = [pic EXCEPT ![n] = Data(@, Bits)]
      BY <2>2, <3>1 DEF outb
    <3>3. pic[1].icw = 0 /\ pic[2].icw = 0 /\ pic[1].base = {3} /\ pic[2].base = {4, 5, 6}
      BY <1>4, <2>4 DEF Programmed, Icw1, Icw2
    <3>4. /\ pic' \in [1 .. 2 -> Chip]
          /\ \A m \in 1 .. 2 : m # n => pic'[m] = pic[m]
          /\ pic'[n].irr = pic[n].irr /\ pic'[n].isr = pic[n].isr
          /\ pic[n].icw = 0 => /\ pic'[n].icw = 0 /\ pic'[n].base = pic[n].base
                               /\ pic'[n].imr = Bits
      BY <1>5, <3>2, DataWrite
    <3>5. \A m \in 1 .. 2 : /\ pic'[m].irr = pic[m].irr /\ pic'[m].isr = pic[m].isr
                            /\ pic'[m].icw = 0 /\ pic'[m].base = pic[m].base
      BY <3>3, <3>4
    <3>6. Programmed(ip - 1, {3}, {4, 5, 6})'
      BY <1>4, <2>4, <3>3, <3>5 DEF Programmed, Icw1, Icw2
    <3>7. pic'[1].imr = Bits
      <4>1. CASE ip = 9
        BY <3>1, <3>3, <3>4, <4>1
      <4>2. CASE ip = 10
        BY <1>4, <3>1, <3>4, <4>2
      <4> QED
        BY <2>4, <4>1, <4>2
    <3> QED
      BY <1>4, <2>1, <3>4, <3>5, <3>6, <3>7 DEF NoneInService
  <2> QED
    BY <1>4, <2>3, <2>4
<1>8. InShutdown'
  BY <1>4, <1>7 DEF InShutdown, Idle
<1> QED
  BY <1>4, <1>6, <1>7, <1>8, PicTyped DEF IInv

\* "shutdown" is typed when no stub runs.
LEMMA ShutdownKeeps == IInv /\ Shutdown => IInv'
<1> SUFFICES ASSUME IInv, Shutdown PROVE IInv'
  OBVIOUS
<1>1. /\ code = "shell" /\ code' = "shutdown" /\ ip' = 1
      /\ UNCHANGED <<pic, idt_loaded, iflag, irq_handlers, saved, irq, step, key_waiting, raises, fault>>
  BY DEF Shutdown, stubVars
<1>2. TypeOK'
  BY <1>1 DEF IInv, TypeOK
<1>3. Serving
  BY <1>1 DEF IInv
<1>4. Serving'
  BY <1>1, <1>3 DEF Serving, Programmed, Idle, NoneInService, Running, InService1, InService2
<1> QED
  BY <1>1, <1>2, <1>4 DEF IInv, InShutdown

(***************************************************************************)
(* The steps of an IRQ stub                                                *)
(***************************************************************************)
\* A stub runs only while the chips are remapped.
LEMMA StubRuns ==
  ASSUME IInv, step # "none"
  PROVE  /\ code = "shell" \/ (code = "shutdown" /\ ip = 1)
         /\ Serving /\ Running /\ iflag = 0
<1>1. ~Idle
  BY DEF Idle
<1>2. code = "shell" \/ (code = "shutdown" /\ ip = 1 /\ Serving)
  BY <1>1 DEF IInv, TypeOK, InBoot, InShutdown
<1>3. Serving
  BY <1>2 DEF IInv
<1> QED
  BY <1>1, <1>2, <1>3 DEF Serving

\* What a step must keep while the chips are remapped.
LEMMA StillServing ==
  ASSUME IInv, code = "shell" \/ (code = "shutdown" /\ ip = 1),
         TypeOK', Cascade \notin pic'[1].irr, UNCHANGED <<code, ip, fault>>, Serving'
  PROVE  IInv'
BY DEF IInv, InShutdown

\* The handler changes nothing at the chips.
LEMMA HandlerKeeps == IInv /\ Handler => IInv'
<1> SUFFICES ASSUME IInv, Handler PROVE IInv'
  OBVIOUS
<1>1. /\ step = "handler" /\ step' = IF irq >= 8 THEN "eoi_slave" ELSE "eoi_master"
      /\ key_waiting' = (key_waiting /\ ~(irq = Keyboard /\ Keyboard \in irq_handlers))
      /\ UNCHANGED <<pic, idt_loaded, iflag, irq_handlers, code, ip, saved, irq, raises, fault>>
  BY DEF Handler, cpuVars
<1>2. /\ code = "shell" \/ (code = "shutdown" /\ ip = 1)
      /\ Serving /\ Running /\ iflag = 0
  BY <1>1, StubRuns
<1>3. TypeOK'
  <2>1. pic \in [1 .. 2 -> Chip] /\ RestTyped
    BY PicTyped DEF IInv
  <2>2. key_waiting' \in BOOLEAN
    BY <1>1
  <2>3. RestTyped'
    BY <1>1, <2>1, <2>2 DEF RestTyped
  <2> QED
    BY <1>1, <2>1, <2>3, PicTyped
<1>4. irq \in 0 .. 15 /\ InService1 /\ InService2
  BY <1>1, <1>2 DEF Running
<1>5. InService1' /\ (irq < 8 => pic'[2].isr = {}) /\ (irq >= 8 => InService2')
  BY <1>1, <1>4 DEF InService1, InService2
<1>6. Running'
  BY <1>1, <1>4, <1>5 DEF Running
<1>7. Serving'
  BY <1>1, <1>2, <1>6 DEF Serving, Programmed
<1> QED
  BY <1>1, <1>2, <1>3, <1>7, StillServing DEF IInv

\* The EOI of the slave: its only line in service goes.
LEMMA EoiSlaveKeeps == IInv /\ EoiSlave => IInv'
<1> SUFFICES ASSUME IInv, EoiSlave PROVE IInv'
  OBVIOUS
<1>1. /\ step = "eoi_slave" /\ step' = "eoi_master"
      /\ pic' = [pic EXCEPT ![2] = Command(@, {5})]
      /\ UNCHANGED <<idt_loaded, iflag, irq_handlers, code, ip, saved, irq, key_waiting, raises, fault>>
  BY DEF EoiSlave, cpuVars
<1>2. /\ code = "shell" \/ (code = "shutdown" /\ ip = 1)
      /\ Serving /\ Running /\ iflag = 0
  BY <1>1, StubRuns
<1>3. pic \in [1 .. 2 -> Chip] /\ RestTyped /\ 1 \in 1 .. 2 /\ 2 \in 1 .. 2
  BY PicTyped DEF IInv
<1>4. irq \in 0 .. 15 /\ irq >= 8 /\ InService1 /\ InService2
  BY <1>1, <1>2 DEF Running
<1>5. PICK x : pic[2].isr = {x}
  BY <1>4 DEF InService2
<1>6. /\ pic' \in [1 .. 2 -> Chip] /\ pic'[1] = pic[1]
      /\ pic'[2].base = pic[2].base /\ pic'[2].icw = pic[2].icw /\ pic'[2].isr = {}
  BY <1>1, <1>3, <1>5, EoiWrite
<1>7. TypeOK'
  <2>1. RestTyped'
    BY <1>1, <1>3 DEF RestTyped
  <2> QED
    BY <1>6, <2>1, PicTyped
<1>8. Running'
  BY <1>1, <1>4, <1>6 DEF Running, InService1
<1>9. Serving'
  BY <1>1, <1>2, <1>6, <1>8 DEF Serving, Programmed
<1> QED
  BY <1>1, <1>2, <1>6, <1>7, <1>9, StillServing DEF IInv

\* The EOI of the master: no line is left in service.
LEMMA EoiMasterKeeps == IInv /\ EoiMaster => IInv'
<1> SUFFICES ASSUME IInv, EoiMaster PROVE IInv'
  OBVIOUS
<1>1. /\ step = "eoi_master" /\ step' = "iret"
      /\ pic' = [pic EXCEPT ![1] = Command(@, {5})]
      /\ UNCHANGED <<idt_loaded, iflag, irq_handlers, code, ip, saved, irq, key_waiting, raises, fault>>
  BY DEF EoiMaster, cpuVars
<1>2. /\ code = "shell" \/ (code = "shutdown" /\ ip = 1)
      /\ Serving /\ Running /\ iflag = 0
  BY <1>1, StubRuns
<1>3. pic \in [1 .. 2 -> Chip] /\ RestTyped /\ 1 \in 1 .. 2 /\ 2 \in 1 .. 2
  BY PicTyped DEF IInv
<1>4. irq \in 0 .. 15 /\ InService1 /\ pic[2].isr = {}
  BY <1>1, <1>2 DEF Running
<1>5. PICK x : pic[1].isr = {x}
  BY <1>4 DEF InService1
<1>6. /\ pic' \in [1 .. 2 -> Chip] /\ pic'[2] = pic[2] /\ pic'[1].irr = pic[1].irr
      /\ pic'[1].base = pic[1].base /\ pic'[1].icw = pic[1].icw /\ pic'[1].isr = {}
  <2>1. PICK n \in 1 .. 2 : n = 1 /\ n # 2
    BY <1>3
  <2>2. pic' = [pic EXCEPT ![n] = Command(@, {5})] /\ pic[n].isr = {x}
    BY <1>1, <1>5, <2>1
  <2>3. /\ pic' \in [1 .. 2 -> Chip]
        /\ \A m \in 1 .. 2 : m # n => pic'[m] = pic[m]
        /\ pic'[n].base = pic[n].base /\ pic'[n].icw = pic[n].icw
        /\ pic'[n].irr = pic[n].irr /\ pic'[n].isr = {}
    BY <1>3, <2>2, EoiWrite
  <2> QED
    BY <1>3, <2>1, <2>3
<1>7. TypeOK'
  <2>1. RestTyped'
    BY <1>1, <1>3 DEF RestTyped
  <2> QED
    BY <1>6, <2>1, PicTyped
<1>8. Running'
  BY <1>1, <1>4, <1>6 DEF Running, NoneInService
<1>9. Serving'
  BY <1>1, <1>2, <1>6, <1>8 DEF Serving, Programmed
<1> QED
  BY <1>1, <1>2, <1>6, <1>7, <1>9, StillServing DEF IInv

\* iret sets IF again once every line has been acknowledged.
LEMMA IretKeeps == IInv /\ Iret => IInv'
<1> SUFFICES ASSUME IInv, Iret PROVE IInv'
  OBVIOUS
<1>1. /\ step = "iret" /\ step' = "none" /\ irq' = None /\ iflag' = 1
      /\ UNCHANGED <<pic, idt_loaded, irq_handlers, code, ip, saved, key_waiting, raises, fault>>
  BY DEF Iret
<1>2. /\ code = "shell" \/ (code = "shutdown" /\ ip = 1)
      /\ Serving /\ Running
  BY <1>1, StubRuns
<1>3. TypeOK'
  <2>1. pic \in [1 .. 2 -> Chip] /\ RestTyped
    BY PicTyped DEF IInv
  <2>2. RestTyped'
    BY <1>1, <2>1 DEF RestTyped, None
  <2> QED
    BY <1>1, <2>1, <2>2, PicTyped
<1>4. Serving'
  BY <1>1, <1>2 DEF Serving, Running, NoneInService, Idle, Programmed
<1> QED
  BY <1>1, <1>2, <1>3, <1>4, StillServing DEF IInv

(***************************************************************************)
(* Requests and interrupts                                                 *)
(***************************************************************************)
\* A request only sets a bit of a request register, never that of the cascade.
LEMMA RaiseKeeps == ASSUME IInv, NEW l \in Devices, Raise(l) PROVE IInv'
<1>1. /\ raises < MaxRaises /\ raises' = raises + 1
      /\ key_waiting' = (key_waiting \/ l = Keyboard)
      /\ pic' = IF l < 8 THEN [pic EXCEPT ![1].irr = @ \cup {l}]
                ELSE [pic EXCEPT ![2].irr = @ \cup {l - 8}]
      /\ UNCHANGED <<idt_loaded, iflag, irq_handlers, code, ip, saved, irq, step, fault>>
  BY DEF Raise, cpuVars, stubVars
<1>2. pic \in [1 .. 2 -> Chip] /\ RestTyped
  BY PicTyped DEF IInv
<1>3. l \in 0 .. 15 /\ l # Cascade
  BY DeviceAssumption
<1>4. PICK n \in 1 .. 2, b \in Bits : /\ pic' = [pic EXCEPT ![n].irr = @ \cup {b}]
                                      /\ n = 1 => b # Cascade
  <2>1. CASE l < 8
    <3>1. l \in Bits /\ 1 \in 1 .. 2
      BY <1>3, <2>1 DEF Bits
    <3>2. pic' = [pic EXCEPT ![1].irr = @ \cup {l}]
      BY <1>1, <2>1
    <3> QED
      BY <1>3, <3>1, <3>2
  <2>2. CASE ~(l < 8)
    <3>1. PICK b \in Bits : b = l - 8
      BY <1>3, <2>2 DEF Bits
    <3>2. pic' = [pic EXCEPT ![2].irr = @ \cup {b}] /\ 2 \in 1 .. 2 /\ 2 # 1
      BY <1>1, <2>2, <3>1
    <3> QED
      BY <3>2
  <2> QED
    BY <2>1, <2>2
<1>5. PICK c, d : c \in Chip /\ c = pic[n] /\ d = [c EXCEPT !.irr = @ \cup {b}]
  BY <1>2
<1> c \in Chip
  BY <1>5
<1>6. /\ d \in Chip /\ d.base = c.base /\ d.imr = c.imr /\ d.isr = c.isr /\ d.icw = c.icw
      /\ d.irr = c.irr \cup {b}
  BY <1>5 DEF Chip
<1>7. pic' = [pic EXCEPT ![n] = d]
  BY <1>2, <1>4, <1>5
<1>8. /\ pic' \in [1 .. 2 -> Chip]
      /\ \A m \in 1 .. 2 : /\ pic'[m].base = pic[m].base /\ pic'[m].imr = pic[m].imr
                           /\ pic'[m].isr = pic[m].isr /\ pic'[m].icw = pic[m].icw
  BY <1>2, <1>5, <1>6, <1>7
<1>9. Cascade \notin pic'[1].irr
  BY <1>2, <1>4, <1>5, <1>6, <1>7 DEF IInv
<1>10. TypeOK'
  <2>1. raises' \in 0 .. MaxRaises /\ key_waiting' \in BOOLEAN
    BY <1>1, <1>2, DeviceAssumption DEF RestTyped
  <2>2. RestTyped'
    BY <1>1, <1>2, <2>1 DEF RestTyped
  <2> QED
    BY <1>8, <2>2, PicTyped
<1>11. /\ pic'[1].base = pic[1].base /\ pic'[1].imr = pic[1].imr
       /\ pic'[1].isr = pic[1].isr /\ pic'[1].icw = pic[1].icw
       /\ pic'[2].base = pic[2].base /\ pic'[2].isr = pic[2].isr /\ pic'[2].icw = pic[2].icw
  BY <1>8
<1>12. NoneInService' = NoneInService /\ Idle' = Idle
  BY <1>1, <1>11 DEF NoneInService, Idle
<1>13. Serving => Serving'
  BY <1>1, <1>11 DEF Serving, Programmed, Running, InService1, InService2, NoneInService, Idle
<1>14. InBoot => InBoot'
  BY <1>1, <1>11, <1>12 DEF InBoot, Programmed
<1>15. InShutdown => InShutdown'
  BY <1>1, <1>11, <1>12, <1>13 DEF InShutdown, Programmed
<1> QED
  BY <1>1, <1>9, <1>10, <1>11, <1>12, <1>13, <1>14, <1>15 DEF IInv

\* An acknowledged line leaves the request register and is in service.
LEMMA Acked ==
  ASSUME NEW c \in Chip, NEW l \in Bits, NEW d, d = Acknowledge(c, l)
  PROVE  /\ d \in Chip /\ d.base = c.base /\ d.imr = c.imr /\ d.icw = c.icw
         /\ d.irr = c.irr \ {l} /\ d.isr = c.isr \cup {l}
<1>1. PICK d1, d2 : d1 = [c EXCEPT !.irr = @ \ {l}] /\ d2 = [d1 EXCEPT !.isr = @ \cup {l}]
  OBVIOUS
<1>2. d = d2
  BY <1>1 DEF Acknowledge, Chip
<1>3. /\ d1 \in Chip /\ d1.base = c.base /\ d1.imr = c.imr /\ d1.icw = c.icw
      /\ d1.irr = c.irr \ {l} /\ d1.isr = c.isr
  BY <1>1 DEF Chip
<1>4. /\ d2 \in Chip /\ d2.base = d1.base /\ d2.imr = d1.imr /\ d2.icw = d1.icw
      /\ d2.irr = d1.irr /\ d2.isr = d1.isr \cup {l}
  BY <1>1, <1>3 DEF Chip
<1> QED
  BY <1>2, <1>3, <1>4

\* What MasterReady offers: a line of a chip whose initialisation is over.
LEMMA Offered ==
  ASSUME IInv, MasterReady # {}
  PROVE  /\ pic[1].icw = 0 /\ Min(MasterReady) \in Bits /\ pic[1].imr # Bits
         /\ Min(MasterReady) = Cascade => pic[2].icw = 0 /\ Min(SlaveReady) \in Bits
<1>1. pic \in [1 .. 2 -> Chip]
  BY PicTyped DEF IInv
<1>2. SlaveReady \subseteq Bits
  BY <1>1 DEF SlaveReady, Ready, Chip
<1>3. Cascade \in Bits
  BY DEF Cascade, Bits
<1>4. PICK R : R = pic[1].irr \cup IF SlaveReady = {} THEN {} ELSE {Cascade}
  OBVIOUS
<1>5. MasterReady = {l \in R \ pic[1].imr : pic[1].icw = 0 /\ \A s \in pic[1].isr : l < s}
  BY <1>4 DEF MasterReady, Ready
<1>6. R \subseteq Bits
  BY <1>1, <1>3, <1>4 DEF Chip
<1>7. MasterReady \subseteq Bits
  BY <1>5, <1>6
<1>8. Bits \subseteq Nat
  BY DEF Bits
<1>9. Min(MasterReady) \in MasterReady
  BY <1>7, <1>8, LeastLine
<1>10. pic[1].icw = 0 /\ Min(MasterReady) \in Bits /\ Min(MasterReady) \notin pic[1].imr
  BY <1>5, <1>7, <1>9
<1>11. ASSUME Min(MasterReady) = Cascade
       PROVE  pic[2].icw = 0 /\ Min(SlaveReady) \in Bits
  <2>1. Cascade \in R
    BY <1>5, <1>9, <1>11
  <2>2. SlaveReady # {}
    BY <1>4, <2>1 DEF IInv
  <2>3. Min(SlaveReady) \in SlaveReady
    BY <1>2, <1>8, <2>2, LeastLine
  <2> QED
    BY <1>2, <2>3 DEF SlaveReady, Ready
<1> QED
  BY <1>10, <1>11

\* Where the kernel can be when it takes an interrupt: with both chips
\* remapped, or between the ICWs and the masks of pic_restore.
LEMMA Interruptible ==
  ASSUME IInv, iflag = 1, MasterReady # {}
  PROVE  /\ Idle /\ NoneInService
         /\ \/ /\ code = "shell" \/ (code = "shutdown" /\ ip = 1)
               /\ Serving
            \/ /\ code = "shutdown" /\ ip \in 8 .. 9
               /\ pic[1].base = {3} /\ pic[2].base = {4, 5, 6}
<1>1. pic[1].icw = 0 /\ pic[1].imr # Bits
  BY Offered
<1>2. code = "shell" \/ code = "shutdown"
  BY DEF IInv, TypeOK, InBoot
<1>3. CASE Serving /\ (code = "shell" \/ (code = "shutdown" /\ ip = 1))
  BY <1>3 DEF Serving
<1>4. CASE ~(Serving /\ (code = "shell" \/ (code = "shutdown" /\ ip = 1)))
  <2>1. code = "shutdown" /\ InShutdown
    BY <1>2, <1>4 DEF IInv
  <2>2. /\ ip \in 2 .. 12 /\ Idle /\ NoneInService /\ Programmed(ip - 1, {3}, {4, 5, 6})
        /\ ip > 9 => pic[1].imr = Bits
    BY <1>4, <2>1 DEF InShutdown
  <2>3. ip \in 2 .. 9 /\ Icw1(ip - 1) = 0
    BY <1>1, <2>2 DEF Programmed
  <2>4. ip \in 8 .. 9
    BY <2>3 DEF Icw1
  <2>5. pic[1].base = {3} /\ pic[2].base = {4, 5, 6}
    BY <2>2, <2>4 DEF Programmed
  <2> QED
    BY <2>1, <2>2, <2>4, <2>5
<1> QED
  BY <1>3, <1>4

\* The CPU takes line x: what the two chips then have in service, and the
\* vector they put on the bus.
Taken(x, v) ==
  /\ pic' \in [1 .. 2 -> Chip] /\ Cascade \notin pic'[1].irr
  /\ \A n \in 1 .. 2 : pic'[n].base = pic[n].base /\ pic'[n].icw = pic[n].icw
  /\ pic'[1].isr = {IF x < 8 THEN x ELSE Cascade}
  /\ pic'[2].isr = IF x < 8 THEN {} ELSE {x - 8}
  /\ v = IF x < 8 THEN Value(pic[1].base) + x ELSE Value(pic[2].base) + (x - 8)

\* The acknowledge cycle, for a line of the master and for one of the slave.
LEMMA AcknowledgeCycle ==
  ASSUME IInv, Interrupt
  PROVE  \E x \in 0 .. 15 : \E v : Taken(x, v) /\ Enter(v)
<1>1. PICK l, s : l = Min(MasterReady) /\ s = Min(SlaveReady)
  OBVIOUS
<1>2. /\ iflag = 1 /\ MasterReady # {}
      /\ \/ /\ l = Cascade
            /\ pic' = [n \in 1 .. 2 |-> Acknowledge(pic[n], IF n = 1 THEN l ELSE s)]
            /\ Enter(Vector(pic[2], s))
         \/ /\ l # Cascade /\ pic' = [pic EXCEPT ![1] = Acknowledge(@, l)]
            /\ Enter(Vector(pic[1], l))
  BY <1>1 DEF Interrupt
<1>3. l \in Bits /\ (l = Cascade => s \in Bits)
  BY <1>1, <1>2, Offered
<1>4. pic[1].isr = {} /\ pic[2].isr = {} /\ Cascade \notin pic[1].irr
  BY <1>2, Interruptible DEF NoneInService, IInv
<1>5. PICK c1 \in Chip, c2 \in Chip : c1 = pic[1] /\ c2 = pic[2]
  BY PicTyped DEF IInv
<1>6. PICK d1 : d1 = Acknowledge(c1, l)
  OBVIOUS
<1>7. /\ d1 \in Chip /\ d1.base = c1.base /\ d1.icw = c1.icw
      /\ d1.irr = c1.irr \ {l} /\ d1.isr = c1.isr \cup {l}
  BY <1>3, <1>6, Acked
<1>8. d1.isr = {l} /\ Cascade \notin d1.irr
  BY <1>4, <1>5, <1>7
<1>9. CASE l = Cascade
  <2>1. PICK d2 : d2 = Acknowledge(c2, s)
    OBVIOUS
  <2>2. /\ d2 \in Chip /\ d2.base = c2.base /\ d2.icw = c2.icw /\ d2.isr = c2.isr \cup {s}
    BY <1>3, <1>9, <2>1, Acked
  <2>3. d2.isr = {s}
    BY <1>4, <1>5, <2>2
  <2>4. /\ pic' = [n \in 1 .. 2 |-> Acknowledge(pic[n], IF n = 1 THEN l ELSE s)]
        /\ Enter(Vector(pic[2], s))
    BY <1>2, <1>9
  <2>5. pic' = [n \in 1 .. 2 |-> IF n = 1 THEN d1 ELSE d2]
    BY <1>5, <1>6, <2>1, <2>4
  <2>6. PICK x \in 0 .. 15 : x = 8 + s
    BY <1>3, <1>9 DEF Bits
  <2>7. ~(x < 8) /\ x - 8 = s
    BY <1>3, <1>9, <2>6 DEF Bits
  <2>8. pic' \in [1 .. 2 -> Chip] /\ pic'[1] = d1 /\ pic'[2] = d2
    BY <1>7, <2>2, <2>5
  <2>9. Taken(x, Vector(pic[2], s))
    BY <1>5, <1>7, <1>8, <1>9, <2>2, <2>3, <2>7, <2>8 DEF Taken, Vector
  <2> QED
    BY <2>4, <2>9
<1>10. CASE l # Cascade
  <2>1. pic' = [pic EXCEPT ![1] = d1] /\ Enter(Vector(pic[1], l))
    BY <1>2, <1>5, <1>6, <1>10
  <2>2. l \in 0 .. 15 /\ l < 8
    BY <1>3 DEF Bits
  <2>3. pic' \in [1 .. 2 -> Chip] /\ pic'[1] = d1 /\ pic'[2] = c2
    BY <1>5, <1>7, <2>1, PicTyped DEF IInv
  <2>4. Taken(l, Vector(pic[1], l))
    BY <1>4, <1>5, <1>7, <1>8, <2>2, <2>3 DEF Taken, Vector
  <2> QED
    BY <2>1, <2>2, <2>4
<1> QED
  BY <1>9, <1>10

\* While both chips are remapped, line x enters the stub irqx; between the
\* ICWs of pic_restore and its masks it lands on an exception or an empty gate.
LEMMA InterruptKeeps == IInv /\ Interrupt => IInv'
<1> SUFFICES ASSUME IInv, Interrupt PROVE IInv'
  OBVIOUS
<1>1. /\ iflag = 1 /\ MasterReady # {} /\ iflag' = 0
      /\ UNCHANGED <<idt_loaded, irq_handlers, ip, saved, key_waiting, raises>>
  BY DEF Interrupt
<1>2. PICK x, v : x \in 0 .. 15 /\ Taken(x, v) /\ Enter(v)
  BY AcknowledgeCycle
<1> x \in 0 .. 15
  BY <1>2
<1>3. /\ pic' \in [1 .. 2 -> Chip] /\ Cascade \notin pic'[1].irr
      /\ pic'[1].base = pic[1].base /\ pic'[1].icw = pic[1].icw
      /\ pic'[2].base = pic[2].base /\ pic'[2].icw = pic[2].icw
      /\ pic'[1].isr = {IF x < 8 THEN x ELSE Cascade}
      /\ pic'[2].isr = IF x < 8 THEN {} ELSE {x - 8}
      /\ v = IF x < 8 THEN Value(pic[1].base) + x ELSE Value(pic[2].base) + (x - 8)
  BY <1>2 DEF Taken
<1>4. RestTyped /\ Idle
  BY <1>1, PicTyped, Interruptible DEF IInv
<1>5. CASE Serving /\ (code = "shell" \/ (code = "shutdown" /\ ip = 1))
  <2>1. idt_loaded /\ pic[1].base = {5} /\ pic[2].base = {3, 5} /\ pic[1].icw = 0 /\ pic[2].icw = 0
    BY <1>5 DEF Serving, Programmed, Icw1, Icw2
  <2>2. PICK b1, b2 : b1 = Value({5}) /\ b2 = Value({3, 5}) /\ b1 = 32 /\ b2 = 40
    BY Vectors
  <2>3. v = IF x < 8 THEN b1 + x ELSE b2 + (x - 8)
    BY <1>3, <2>1, <2>2
  <2>4. v = 32 + x
    BY <2>2, <2>3
  <2>5. v \in 32 .. 47 /\ v - 32 = x
    BY <2>4
  <2>6. irq' = x /\ step' = "handler" /\ UNCHANGED <<code, fault>>
    BY <1>2, <2>1, <2>5 DEF Enter
  <2>7. RestTyped'
    BY <1>1, <1>4, <2>6 DEF RestTyped, None
  <2>8. Running'
    BY <1>3, <2>6 DEF Running, InService1, InService2
  <2>9. Serving'
    <3>1. Programmed(8, {5}, {3, 5})'
      BY <1>3, <2>1 DEF Programmed, Icw1, Icw2
    <3> QED
      BY <1>1, <2>1, <2>8, <3>1 DEF Serving
  <2> QED
    BY <1>1, <1>3, <1>5, <2>6, <2>7, <2>9, PicTyped, StillServing
<1>6. CASE ~(Serving /\ (code = "shell" \/ (code = "shutdown" /\ ip = 1)))
  <2>1. code = "shutdown" /\ pic[1].base = {3} /\ pic[2].base = {4, 5, 6}
    BY <1>1, <1>6, Interruptible
  <2>2. PICK b1, b2 : b1 = Value({3}) /\ b2 = Value({4, 5, 6}) /\ b1 = 8 /\ b2 = 112
    BY Vectors
  <2>3. v = IF x < 8 THEN b1 + x ELSE b2 + (x - 8)
    BY <1>3, <2>1, <2>2
  <2>4. v \notin 32 .. 47
    BY <2>2, <2>3
  <2>5. fault' = "shutdown" /\ code' = "halted" /\ UNCHANGED <<irq, step>>
    BY <1>2, <2>1, <2>4 DEF Enter, stubVars
  <2>6. RestTyped'
    BY <1>1, <1>4, <2>5 DEF RestTyped
  <2>7. Idle'
    BY <1>4, <2>5 DEF Idle
  <2> QED
    BY <1>1, <1>3, <2>5, <2>6, <2>7, PicTyped DEF IInv
<1> QED
  BY <1>5, <1>6

(***************************************************************************)
(* The theorems                                                            *)
(***************************************************************************)
\* Every step of the kernel, of the chips and of the devices keeps IInv.
LEMMA NextInv == IInv /\ [Next]_vars => IInv'
<1> SUFFICES ASSUME IInv, [Next]_vars PROVE IInv'
  OBVIOUS
<1>1. CASE Execute
  <2>1. CASE Out
    <3>1. code = "boot" \/ code = "shutdown"
      BY <2>1 DEF Out, Fetch
    <3> QED
      BY <2>1, <3>1, BootOut, ShutdownOut
  <2> QED
    BY <1>1, <2>1, IdtFlushKeeps, SaveMasksKeeps, RegisterKeeps, UnmaskKeeps, StiKeeps, CliKeeps,
       PowerOffKeeps DEF Execute
<1>2. CASE Serve
  BY <1>2, InterruptKeeps, HandlerKeeps, EoiSlaveKeeps, EoiMasterKeeps, IretKeeps DEF Serve
<1>3. CASE Shutdown
  BY <1>3, ShutdownKeeps
<1>4. CASE \E l \in Devices : Raise(l)
  BY <1>4, RaiseKeeps
<1>5. CASE UNCHANGED vars
  <2>1. UNCHANGED <<pic, idt_loaded, iflag, irq_handlers, code, ip, saved, irq, step, key_waiting,
                    raises, fault>>
    BY <1>5 DEF vars, cpuVars, stubVars
  <2>2. TypeOK'
    BY <2>1 DEF IInv, TypeOK
  <2>3. Serving => Serving'
    BY <2>1 DEF Serving, Programmed, Running, InService1, InService2, NoneInService, Idle
  <2>4. InBoot => InBoot'
    BY <2>1 DEF InBoot, Programmed, NoneInService, Idle
  <2>5. InShutdown => InShutdown'
    BY <2>1, <2>3 DEF InShutdown, Programmed, NoneInService, Idle
  <2> QED
    BY <2>1, <2>2, <2>3, <2>4, <2>5 DEF IInv, NoneInService, Idle
<1> QED
  BY <1>1, <1>2, <1>3, <1>4, <1>5 DEF Next

\* From power-on to shutdown the chips, the stub that runs and the program
\* agree as IInv says, whatever devices there are, whatever masks the BIOS
\* left and whenever the requests come.
THEOREM InterruptInvariant == Spec => []IInv
<1>1. Init => IInv
  BY InitInv
<1>2. IInv /\ [Next]_vars => IInv'
  BY NextInv
<1> QED
  BY <1>1, <1>2, PTL DEF Spec

\* The chips, the handler table and the program counter keep their types.
THEOREM InterruptTypes == Spec => []TypeOK
<1>1. IInv => TypeOK
  BY DEF IInv
<1> QED
  BY <1>1, InterruptInvariant, PTL

\* The boot order of kmain: until "shutdown" is typed no request lands on an
\* exception vector or an empty gate.
THEOREM BootLetsNoFaultIn == Spec => []NoFaultBeforeShutdown
<1>1. IInv => NoFaultBeforeShutdown
  BY DEF IInv, NoFaultBeforeShutdown
<1> QED
  BY <1>1, InterruptInvariant, PTL

\* irq_dispatch gets the number of the line the chips have in service.
THEOREM StubOfTheLine == Spec => []StubMatchesLine
<1>1. IInv => StubMatchesLine
  <2> SUFFICES ASSUME IInv, step = "handler" PROVE StubMatchesLine
    BY DEF StubMatchesLine
  <2>1. Running
    BY StubRuns
  <2>2. irq \in 0 .. 15 /\ InService1 /\ InService2
    BY <2>1 DEF Running
  <2> QED
    BY <2>2 DEF StubMatchesLine, InService1, InService2
<1> QED
  BY <1>1, InterruptInvariant, PTL

\* No line stays in service when a stub has returned: irq_dispatch sends the
\* EOIs the chips wait for, and never one too few.
THEOREM EveryLineAcknowledged == Spec => []AllAcknowledged
<1>1. IInv => AllAcknowledged
  <2> SUFFICES ASSUME IInv, step \in {"none", "iret"}, code # "halted" PROVE NoneInService
    BY DEF AllAcknowledged, NoneInService
  <2>1. CASE step = "iret"
    <3>1. Running
      BY <2>1, StubRuns
    <3> QED
      BY <2>1, <3>1 DEF Running
  <2>2. CASE step = "none"
    <3>1. Serving => NoneInService
      BY <2>2 DEF Serving, Running
    <3> QED
      BY <3>1 DEF IInv, TypeOK, InBoot, InShutdown
  <2> QED
    BY <2>1, <2>2
<1> QED
  BY <1>1, InterruptInvariant, PTL

\* pic_restore: once both masks are written nothing can be offered to the CPU,
\* although IF is still set.
THEOREM QuietOnceRestored == Spec => []QuietAfterRestore
<1>1. IInv => QuietAfterRestore
  <2> SUFFICES ASSUME IInv, code = "off" \/ (code = "shutdown" /\ Program[ip].op = "cli")
               PROVE  irq = None /\ MasterReady = {}
    BY DEF QuietAfterRestore
  <2>1. irq = None /\ pic[1].imr = Bits
    <3>1. CASE code = "off"
      BY <3>1 DEF IInv, Idle
    <3>2. CASE code = "shutdown" /\ Program[ip].op = "cli"
      <4>1. InShutdown /\ ip \in 1 .. 12
        BY <3>2 DEF IInv, InShutdown
      <4>2. ip = 11
        BY <3>2, <4>1, ShutdownOps
      <4> QED
        BY <4>1, <4>2 DEF InShutdown, Idle
    <3> QED
      BY <3>1, <3>2
  <2> QED
    BY <2>1, Offered
<1> QED
  BY <1>1, InterruptInvariant, PTL
=============================================================================
