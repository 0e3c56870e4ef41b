---------------------------- MODULE TrapsProofs ----------------------------
(***************************************************************************)
(* For every set of exceptions and lines: an interrupt is invisible to the *)
(* code it interrupts, irq_dispatch is told the line that asked, and the   *)
(* frame of an exception is struct regs, wherever the exception happened.  *)
(***************************************************************************)
EXTENDS Traps, TLAPS

(***************************************************************************)
(* The inductive invariant                                                 *)
(***************************************************************************)
Registers == {"eax", "ecx", "edx", "ebx", "ebp", "esi", "edi", "ds", "es", "fs", "gs"}

Entry == [reg : [Registers -> Int], stack : Seq(Int), eip : Int, iflag : {0, 1},
          vector : 0 .. 47, cause : {"irq", "fault"}, error : Int]

\* The j-th word of a stack from its bottom: pushes and pops leave it alone.
FromBottom(s, j) == s[Len(s) + 1 - j]

\* The words an entry stacks, in the order they are pushed: by the CPU and
\* the stub of an exception, by pusha, the segments, and the argument.
Before(e) == IF e.cause = "irq" THEN 3 ELSE 5
Word(e, j) ==
  IF j = 1 THEN e.iflag ELSE IF j = 2 THEN KERNEL_CODE ELSE IF j = 3 THEN e.eip
  ELSE IF j <= Before(e) THEN (IF j = 4 THEN e.error ELSE e.vector)
  ELSE IF j = Before(e) + 5 THEN Len(e.stack) + Before(e)
  ELSE IF j <= Before(e) + 8 THEN e.reg[GPRs[j - Before(e)]]
  ELSE IF j <= Before(e) + 12 THEN e.reg[Segments[j - (Before(e) + 8)]]
  ELSE IF e.cause = "irq" THEN e.vector - 32 ELSE Len(e.stack) + 17

\* A stack s is b and the first m words of the entry e.
Holds(s, b, e, m) ==
  /\ Len(s) = Len(b) + m
  /\ \A j \in 1 .. Len(b) : FromBottom(s, j) = FromBottom(b, j)
  /\ \A j \in 1 .. m : FromBottom(s, Len(b) + j) = Word(e, j)

Built(e, m) == Holds(stack, e.stack, e, m)

InKernel == eip \in {Address(Kernel), Address(Kernel) + 1} /\ stack = Callers /\ ~halted

\* The words on the stack before the k-th instruction of an IRQ stub and of
\* isr_common.
IrqHeight == <<3, 11, 12, 13, 14, 15, 15, 16, 16, 15, 14, 13, 12, 11, 3>>
CommonHeight == <<5, 13, 14, 15, 16, 17, 17, 18>>

IrqAt(e, k) ==
  /\ eip = Address(e.vector) + (k - 1) /\ Built(e, IrqHeight[k])
  /\ k <= 6 \/ k = 15 => reg = e.reg
  /\ k > 10 => reg["gs"] = e.reg["gs"]
  /\ k > 11 => reg["fs"] = e.reg["fs"]
  /\ k > 12 => reg["es"] = e.reg["es"]
  /\ k > 13 => reg["ds"] = e.reg["ds"]
  /\ k = 9 => told = <<e.vector - 32>>

InIrq(e) ==
  /\ e.cause = "irq" /\ e.vector \in 32 .. 47
  /\ e.eip \in {Address(Kernel), Address(Kernel) + 1} /\ e.stack = Callers
  /\ entered = <<e>> /\ ~halted
  /\ \E k \in 1 .. 15 : IrqAt(e, k)

\* Before the k-th instruction of the stub of an exception, h words are on
\* the stack.
StubAt(e, k, h) == eip = Address(e.vector) + (k - 1) /\ Built(e, h) /\ reg = e.reg

InStub(e) ==
  \/ e.vector \in ISR_ERR /\ (StubAt(e, 1, 4) \/ StubAt(e, 2, 4) \/ StubAt(e, 3, 5))
  \/ /\ e.vector \notin ISR_ERR
     /\ StubAt(e, 1, 3) \/ StubAt(e, 2, 3) \/ StubAt(e, 3, 4) \/ StubAt(e, 4, 5)

CommonAt(e, k) ==
  /\ eip = Address(isr_common) + (k - 1) /\ Built(e, CommonHeight[k])
  /\ k <= 6 => reg = e.reg

InFault(e) ==
  /\ e.cause = "fault" /\ e.vector \in 0 .. 31
  /\ e.vector \in ISR_ERR => e.error = e.vector
  /\ e.vector \notin ISR_ERR => e.error = 0
  /\ Len(entered) \in 1 .. 2 /\ Len(e.stack) <= Len(Callers) + 16 * (Len(entered) - 1)
  /\ \/ ~halted /\ InStub(e)
     \/ ~halted /\ \E k \in 1 .. 8 : CommonAt(e, k)
     \/ halted /\ Built(e, 18) /\ \A k \in 1 .. 17 : told[k] = Word(e, 18 - k)

IInv ==
  /\ reg \in [Registers -> Int] /\ stack \in Seq(Int) /\ iflag \in {0, 1} /\ halted \in BOOLEAN
  /\ entered \in Seq(Entry)
  /\ entered = <<>> => InKernel
  /\ entered # <<>> => iflag = 0 /\ (InIrq(entered[1]) \/ InFault(entered[1]))

(***************************************************************************)
(* The stack                                                               *)
(***************************************************************************)
\* The words of two sequences put together.
LEMMA Joined ==
  \A s, t \in Seq(Int) :
    /\ s \o t \in Seq(Int) /\ Len(s \o t) = Len(s) + Len(t)
    /\ \A k \in 1 .. Len(s) : (s \o t)[k] = s[k]
    /\ \A k \in 1 .. Len(t) : (s \o t)[Len(s) + k] = t[k]
  OBVIOUS

\* The n words of e after the first m, the last one on top.
NextWords(t, e, m, n) == Len(t) = n /\ \A i \in 1 .. n : t[n + 1 - i] = Word(e, m + i)

\* Words put on a stack in their order leave the ones below them.
LEMMA Pushed ==
  ASSUME NEW s \in Seq(Int), NEW b \in Seq(Int), NEW e, NEW m \in Nat, NEW n \in Nat,
         Holds(s, b, e, m), NEW t \in Seq(Int), NextWords(t, e, m, n)
  PROVE  t \o s \in Seq(Int) /\ Holds(t \o s, b, e, m + n)
<1>0. Len(t) = n /\ \A i \in 1 .. n : t[n + 1 - i] = Word(e, m + i)
  BY DEF NextWords
<1>1. PICK u : u = t \o s
  OBVIOUS
<1>2. PICK L \in Nat : L = Len(b)
  OBVIOUS
<1>a. PICK N \in Nat : N = Len(s)
  OBVIOUS
<1>3. /\ u \in Seq(Int) /\ Len(u) = n + N
      /\ \A k \in 1 .. n : u[k] = t[k]
      /\ \A k \in 1 .. N : u[n + k] = s[k]
  <2>1. /\ t \o s \in Seq(Int) /\ Len(t \o s) = Len(t) + Len(s)
        /\ \A k \in 1 .. Len(t) : (t \o s)[k] = t[k]
        /\ \A k \in 1 .. Len(s) : (t \o s)[Len(t) + k] = s[k]
    BY Joined, Zenon
  <2> QED
    BY <1>0, <1>1, <1>a, <2>1
<1>4. N = L + m
  BY <1>2, <1>a DEF Holds
<1>5. \A j \in 1 .. (L + m) : FromBottom(u, j) = FromBottom(s, j)
  <2> SUFFICES ASSUME NEW j \in 1 .. (L + m)
               PROVE  FromBottom(u, j) = FromBottom(s, j)
    OBVIOUS
  <2>1. PICK k \in 1 .. N : k = N + 1 - j
    BY <1>4
  <2>2. Len(u) + 1 - j = n + k
    BY <1>3, <2>1
  <2> QED
    BY <1>3, <1>a, <2>1, <2>2 DEF FromBottom
<1>6. \A j \in 1 .. L : FromBottom(u, j) = FromBottom(b, j)
  <2>1. \A j \in 1 .. L : FromBottom(s, j) = FromBottom(b, j)
    BY <1>2 DEF Holds
  <2> QED
    BY <1>5, <2>1
<1>7. \A j \in 1 .. (m + n) : FromBottom(u, L + j) = Word(e, j)
  <2> SUFFICES ASSUME NEW j \in 1 .. (m + n)
               PROVE  FromBottom(u, L + j) = Word(e, j)
    OBVIOUS
  <2>1. CASE j <= m
    <3>1. FromBottom(s, L + j) = Word(e, j)
      BY <1>2, <2>1 DEF Holds
    <3>2. L + j \in 1 .. (L + m)
      BY <2>1
    <3> QED
      BY <1>5, <3>1, <3>2
  <2>2. CASE j > m
    <3>1. PICK i \in 1 .. n : i = j - m
      BY <2>2
    <3>2. Len(u) + 1 - (L + j) = n + 1 - i /\ n + 1 - i \in 1 .. n /\ j = m + i
      BY <1>3, <1>4, <3>1
    <3>3. FromBottom(u, L + j) = u[n + 1 - i]
      BY <3>2 DEF FromBottom
    <3> QED
      BY <1>0, <1>3, <3>2, <3>3
  <2> QED
    BY <2>1, <2>2
<1>8. Len(u) = L + (m + n)
  BY <1>3, <1>4
<1> QED
  BY <1>1, <1>2, <1>3, <1>6, <1>7, <1>8 DEF Holds

\* The words on top of a stack.
LEMMA OnTop ==
  ASSUME NEW s \in Seq(Int), NEW b \in Seq(Int), NEW e, NEW m \in Nat, Holds(s, b, e, m)
  PROVE  Len(s) = Len(b) + m /\ \A k \in 1 .. m : s[k] = Word(e, m + 1 - k)
<1>1. PICK L \in Nat : L = Len(b)
  OBVIOUS
<1>2. Len(s) = L + m
  BY <1>1 DEF Holds
<1> SUFFICES ASSUME NEW k \in 1 .. m
             PROVE  s[k] = Word(e, m + 1 - k)
  BY <1>1, <1>2
<1>3. PICK j \in 1 .. m : j = m + 1 - k
  OBVIOUS
<1>4. FromBottom(s, L + j) = Word(e, j)
  BY <1>1 DEF Holds
<1>5. Len(s) + 1 - (L + j) = k
  BY <1>2, <1>3
<1> QED
  BY <1>3, <1>4, <1>5 DEF FromBottom

\* Words taken off a stack.
LEMMA Dropped ==
  ASSUME NEW s \in Seq(Int), NEW b \in Seq(Int), NEW e, NEW m \in Nat, NEW n \in 0 .. m,
         Holds(s, b, e, m)
  PROVE  /\ SubSeq(s, n + 1, Len(s)) \in Seq(Int)
         /\ Holds(SubSeq(s, n + 1, Len(s)), b, e, m - n)
<1>1. PICK L \in Nat : L = Len(b)
  OBVIOUS
<1>2. PICK u : u = SubSeq(s, n + 1, Len(s))
  OBVIOUS
<1>3. Len(s) = L + m
  BY <1>1 DEF Holds
<1>4. /\ u \in Seq(Int) /\ Len(u) = L + (m - n)
      /\ \A k \in 1 .. (L + (m - n)) : u[k] = s[n + k]
  <2>1. n + 1 \in 1 .. (Len(s) + 1) /\ Len(s) \in n .. Len(s)
    BY <1>3
  <2>2. u \in Seq(Int) /\ Len(u) = Len(s) - n
    BY <1>2, <1>3, <2>1
  <2>3. \A k \in 1 .. (Len(s) - n) : u[k] = s[(n + 1) + k - 1]
    BY <1>2, <1>3, <2>1
  <2>4. \A k \in 1 .. (Len(s) - n) : (n + 1) + k - 1 = n + k
    BY <1>3
  <2> QED
    BY <1>3, <2>2, <2>3, <2>4
<1>5. \A j \in 1 .. (L + (m - n)) : FromBottom(u, j) = FromBottom(s, j)
  BY <1>3, <1>4 DEF FromBottom
<1>6. \A j \in 1 .. L : FromBottom(u, j) = FromBottom(b, j)
  <2>1. \A j \in 1 .. L : FromBottom(s, j) = FromBottom(b, j)
    BY <1>1 DEF Holds
  <2> QED
    BY <1>5, <2>1
<1>7. \A j \in 1 .. (m - n) : FromBottom(u, L + j) = Word(e, j)
  <2>1. \A j \in 1 .. m : FromBottom(s, L + j) = Word(e, j)
    BY <1>1 DEF Holds
  <2>2. \A j \in 1 .. (m - n) : j \in 1 .. m /\ L + j \in 1 .. (L + (m - n))
    OBVIOUS
  <2> QED
    BY <1>5, <2>1, <2>2
<1> QED
  BY <1>1, <1>2, <1>4, <1>6, <1>7 DEF Holds

\* With nothing of the entry left, the stack is the interrupted code's.
LEMMA Emptied ==
  ASSUME NEW s \in Seq(Int), NEW b \in Seq(Int), NEW e, Holds(s, b, e, 0)
  PROVE  s = b
<1>1. PICK L \in Nat : L = Len(b)
  OBVIOUS
<1>2. Len(s) = L
  BY <1>1 DEF Holds
<1>3. \A k \in 1 .. L : s[k] = b[k]
  <2> SUFFICES ASSUME NEW k \in 1 .. L
               PROVE  s[k] = b[k]
    OBVIOUS
  <2>1. PICK j \in 1 .. L : j = L + 1 - k
    OBVIOUS
  <2>2. FromBottom(s, j) = FromBottom(b, j)
    BY <1>1 DEF Holds
  <2>3. L + 1 - j = k
    BY <2>1
  <2> QED
    BY <1>1, <1>2, <2>2, <2>3 DEF FromBottom
<1>4. s = [k \in 1 .. L |-> s[k]] /\ b = [k \in 1 .. L |-> b[k]]
  BY <1>1, <1>2
<1>5. [k \in 1 .. L |-> s[k]] = [k \in 1 .. L |-> b[k]]
  BY <1>3
<1> QED
  BY <1>4, <1>5, Zenon

(***************************************************************************)
(* The registers                                                           *)
(***************************************************************************)
\* pusha and popa name eight registers, the stubs four segment registers.
LEMMA Names ==
  /\ Len(GPRs) = 8 /\ DOMAIN GPRs = 1 .. 8
  /\ Range(GPRs) = {"eax", "ecx", "edx", "ebx", "esp", "ebp", "esi", "edi"}
  /\ Range(Segments) = {"ds", "es", "fs", "gs"}
  /\ (Range(GPRs) \ {"esp"}) \cup Range(Segments) = Registers
  /\ \A i \in 1 .. 8 : i # 5 => GPRs[i] \in Registers
<1>1. Len(GPRs) = 8 /\ DOMAIN GPRs = 1 .. 8 /\ DOMAIN Segments = 1 .. 4
  BY DEF GPRs, Segments
<1>2. Range(GPRs) = {"eax", "ecx", "edx", "ebx", "esp", "ebp", "esi", "edi"}
  <2>1. Range(GPRs) = {GPRs[k] : k \in 1 .. 8}
    BY <1>1 DEF Range
  <2>2. 1 .. 8 = {1, 2, 3, 4, 5, 6, 7, 8}
    OBVIOUS
  <2> QED
    BY <2>1, <2>2 DEF GPRs
<1>3. Range(Segments) = {"ds", "es", "fs", "gs"}
  <2>1. Range(Segments) = {Segments[k] : k \in 1 .. 4}
    BY <1>1 DEF Range
  <2>2. 1 .. 4 = {1, 2, 3, 4}
    OBVIOUS
  <2> QED
    BY <2>1, <2>2 DEF Segments
<1>4. \A i \in 1 .. 8 : i # 5 => GPRs[i] \in Registers
  BY DEF GPRs, Registers
<1> QED
  BY <1>1, <1>2, <1>3, <1>4 DEF Registers

\* The order in which popa takes the registers from the stack.
Place(r) == CHOOSE k \in 1 .. 8 : FromTop[k] = r

\* It is the reverse of the order of pusha.
LEMMA PopOrder ==
  ASSUME NEW p \in 1 .. 8, NEW r, r = GPRs[9 - p]
  PROVE  Place(r) = p
<1>1. \A k \in 1 .. 8 : FromTop[k] = GPRs[9 - k]
  BY DEF FromTop
<1>2. \A j, k \in 1 .. 8 : GPRs[j] = GPRs[k] => j = k
  BY DEF GPRs
<1>3. \A k \in 1 .. 8 : FromTop[k] = r => k = p
  BY <1>1, <1>2
<1>4. FromTop[p] = r
  BY <1>1
<1> QED
  BY <1>3, <1>4 DEF Place

(***************************************************************************)
(* The instructions                                                        *)
(***************************************************************************)
\* The k-th instruction of a routine is at its address.
LEMMA Fetch ==
  ASSUME NEW r \in 0 .. 51, NEW k \in 1 .. 99, eip = Address(r) + (k - 1)
  PROVE  Instruction = Program(r)[k]
<1>1. (eip - Image) \div 100 = r /\ (eip - Image) % 100 = k
  BY SMT DEF Address, Image
<1> QED
  BY <1>1 DEF Instruction

\* The address a gate holds in two halves.
GateOf(v) == 65536 * idt[v].handler_high + idt[v].handler_low

\* A gate leads to the stub of its vector and clears IF.
LEMMA Gate ==
  ASSUME NEW v \in 0 .. 47
  PROVE  GateOf(v) = Address(v) /\ idt[v].flags = 142
<1>1. PICK d \in 0 .. 5000 : d = 100 * v + 1
  OBVIOUS
<1>2. PICK h \in Nat : h = 65536 * 16 + d
  OBVIOUS
<1>3. h = Address(v)
  BY <1>1, <1>2, SMT DEF Address, Image
<1>4. idt[v] = idt_set(h)
  BY <1>3 DEF idt
<1>5. /\ idt_set(h).handler_high = (h \div 65536) % 65536
      /\ idt_set(h).handler_low = h % 65536 /\ idt_set(h).flags = 142
  BY SMT DEF idt_set
<1>6. h \div 65536 = 16 /\ h % 65536 = d /\ 16 % 65536 = 16
  BY <1>2, SMT
<1>7. /\ 65536 * idt[v].handler_high + idt[v].handler_low = 65536 * 16 + d
      /\ idt[v].flags = 142
  BY <1>4, <1>5, <1>6, SMT
<1> QED
  BY <1>2, <1>3, <1>7, SMT DEF GateOf

\* The routine of a number.
LEMMA Routine ==
  /\ Program(Kernel) = <<I("run", 0), I("run", 0)>>
  /\ Program(isr_common) = CommonPath
  /\ \A v \in 0 .. 31 : Program(v) = isr(v)
  /\ \A v \in 32 .. 47 : Program(v) = irq(v - 32)
  BY DEF Program, Kernel, isr_common

\* The text of a stub made by IRQ.
LEMMA IrqText ==
  ASSUME NEW n
  PROVE  /\ irq(n)[1] = I("pusha", 0) /\ irq(n)[2] = I("push_seg", "ds")
         /\ irq(n)[3] = I("push_seg", "es") /\ irq(n)[4] = I("push_seg", "fs")
         /\ irq(n)[5] = I("push_seg", "gs") /\ irq(n)[6] = I("load_segs", KERNEL_DATA)
         /\ irq(n)[7] = I("push", n) /\ irq(n)[8] = I("irq_dispatch", 0)
         /\ irq(n)[9] = I("add_esp", 1) /\ irq(n)[10] = I("pop_seg", "gs")
         /\ irq(n)[11] = I("pop_seg", "fs") /\ irq(n)[12] = I("pop_seg", "es")
         /\ irq(n)[13] = I("pop_seg", "ds") /\ irq(n)[14] = I("popa", 0)
         /\ irq(n)[15] = I("iret", 0)
  BY DEF irq, Save, Restore

\* The text of isr_common up to the call of the handler.
LEMMA CommonText ==
  /\ CommonPath[1] = I("pusha", 0) /\ CommonPath[2] = I("push_seg", "ds")
  /\ CommonPath[3] = I("push_seg", "es") /\ CommonPath[4] = I("push_seg", "fs")
  /\ CommonPath[5] = I("push_seg", "gs") /\ CommonPath[6] = I("load_segs", KERNEL_DATA)
  /\ CommonPath[7] = I("push_esp", 0) /\ CommonPath[8] = I("isr_common_handler", 0)
  BY DEF CommonPath, Save, Restore

\* The text of a stub made by ISR_ERR or ISR_NOERR.
LEMMA StubText ==
  ASSUME NEW v \in 0 .. 31
  PROVE  /\ v \in ISR_ERR => /\ isr(v)[1] = I("cli", 0) /\ isr(v)[2] = I("push", v)
                             /\ isr(v)[3] = I("jmp", Address(isr_common))
         /\ v \notin ISR_ERR => /\ isr(v)[1] = I("cli", 0) /\ isr(v)[2] = I("push", 0)
                                /\ isr(v)[3] = I("push", v)
                                /\ isr(v)[4] = I("jmp", Address(isr_common))
  BY DEF isr

(***************************************************************************)
(* What an instruction does                                                *)
(***************************************************************************)
Executes ==
  \/ Run \/ Cli \/ Jmp \/ Push \/ LoadSegments \/ AddEsp \/ PopSegment \/ Popa \/ Iret
  \/ irq_dispatch \/ isr_common_handler

\* Only the instruction at eip is executed: the ones that push,
LEMMA Pushes ==
  ASSUME Executes, NEW op, NEW a, Instruction = I(op, a)
  PROVE  /\ op \in {"push", "push_seg", "push_esp", "pusha"} =>
              Step /\ UNCHANGED <<reg, iflag, entered, told, halted>>
         /\ op = "push" => stack' = <<a>> \o stack
         /\ op = "push_seg" => stack' = <<reg[a]>> \o stack
         /\ op = "push_esp" => stack' = <<Len(stack)>> \o stack
         /\ op = "pusha" => stack' = [k \in 1 .. 8 |-> Value(FromTop[k])] \o stack
  BY DEF Executes, Run, Cli, Jmp, Push, LoadSegments, AddEsp, PopSegment, Popa, Iret,
         irq_dispatch, isr_common_handler, Op, Arg, I

\* the ones that pop,
LEMMA Pops ==
  ASSUME Executes, NEW op, NEW a, Instruction = I(op, a)
  PROVE  /\ op \in {"add_esp", "pop_seg", "popa"} => Step /\ UNCHANGED <<iflag, entered, told, halted>>
         /\ op = "add_esp" => stack' = Drop(a) /\ reg' = reg
         /\ op = "pop_seg" => stack' = Tail(stack) /\ reg' = [reg EXCEPT ![a] = Head(stack)]
         /\ op = "popa" =>
              /\ stack' = Drop(8)
              /\ reg' = [r \in DOMAIN reg |->
                           IF r \in Range(GPRs) THEN stack[CHOOSE k \in 1 .. 8 : FromTop[k] = r]
                           ELSE reg[r]]
         /\ op = "iret" => /\ eip' = stack[1] /\ iflag' = stack[3] /\ stack' = Drop(3)
                           /\ entered' = Tail(entered) /\ UNCHANGED <<reg, told, halted>>
  BY DEF Executes, Run, Cli, Jmp, Push, LoadSegments, AddEsp, PopSegment, Popa, Iret,
         irq_dispatch, isr_common_handler, Op, Arg, I

\* and the others.
LEMMA Others ==
  ASSUME Executes, NEW op, NEW a, Instruction = I(op, a)
  PROVE  /\ op \in {"cli", "jmp", "load_segs", "irq_dispatch"} => UNCHANGED <<stack, entered, halted>>
         /\ op = "cli" => Step /\ iflag' = 0 /\ UNCHANGED <<reg, told>>
         /\ op = "jmp" => eip' = a /\ UNCHANGED <<reg, iflag, told>>
         /\ op = "load_segs" =>
              /\ Step /\ UNCHANGED <<iflag, told>>
              /\ reg' = [r \in DOMAIN reg |-> IF r \in Range(Segments) \cup {"eax"} THEN a ELSE reg[r]]
         /\ op = "irq_dispatch" =>
              /\ Step /\ iflag' = iflag /\ told' = <<Head(stack)>>
              /\ reg' = [r \in DOMAIN reg |-> IF r \in {"eax", "ecx", "edx"} THEN Junk ELSE reg[r]]
         /\ op = "isr_common_handler" =>
              /\ told' = SubSeq(stack, Len(stack) - Head(stack) + 1, Len(stack) - Head(stack) + Len(regs))
              /\ halted' = TRUE /\ iflag' = 0 /\ UNCHANGED <<reg, stack, eip, entered>>
         /\ op = "run" => /\ eip' = IF eip = Address(Kernel) THEN eip + 1 ELSE Address(Kernel)
                          /\ iflag' \in {0, 1} /\ UNCHANGED <<reg, stack, entered, told, halted>>
  BY DEF Executes, Run, Cli, Jmp, Push, LoadSegments, AddEsp, PopSegment, Popa, Iret,
         irq_dispatch, isr_common_handler, Op, Arg, I

\* The instructions that load the kernel's segments.
LEMMA Loads ==
  ASSUME Executes, Instruction = I("load_segs", KERNEL_DATA)
  PROVE  /\ UNCHANGED <<stack, entered, halted>> /\ Step /\ UNCHANGED <<iflag, told>>
         /\ reg' = [r \in DOMAIN reg |->
                      IF r \in Range(Segments) \cup {"eax"} THEN KERNEL_DATA ELSE reg[r]]
<1>1. ~halted /\ Instruction[1] = "load_segs" /\ Arg = KERNEL_DATA
  BY DEF Executes, Run, Cli, Jmp, Push, LoadSegments, AddEsp, PopSegment, Popa, Iret,
         irq_dispatch, isr_common_handler, Op, Arg, I
<1>2. LoadSegments
  BY <1>1 DEF Executes, Run, Cli, Jmp, Push, AddEsp, PopSegment, Popa, Iret,
              irq_dispatch, isr_common_handler, Op
<1> QED
  BY <1>1, <1>2 DEF LoadSegments

(***************************************************************************)
(* The words of an entry                                                   *)
(***************************************************************************)
\* What an interrupt stacks.
LEMMA IrqWords ==
  ASSUME NEW e \in Entry, e.cause = "irq"
  PROVE  /\ Before(e) = 3
         /\ Word(e, 1) = e.iflag /\ Word(e, 2) = KERNEL_CODE /\ Word(e, 3) = e.eip
         /\ Word(e, 12) = e.reg["ds"] /\ Word(e, 13) = e.reg["es"]
         /\ Word(e, 14) = e.reg["fs"] /\ Word(e, 15) = e.reg["gs"]
         /\ Word(e, 16) = e.vector - 32
<1>1. Before(e) = 3
  BY DEF Before
<1> QED
  BY <1>1 DEF Word, Segments

\* What an exception stacks.
LEMMA FaultWords ==
  ASSUME NEW e \in Entry, e.cause = "fault"
  PROVE  /\ Before(e) = 5
         /\ Word(e, 1) = e.iflag /\ Word(e, 2) = KERNEL_CODE /\ Word(e, 3) = e.eip
         /\ Word(e, 4) = e.error /\ Word(e, 5) = e.vector
         /\ Word(e, 14) = e.reg["ds"] /\ Word(e, 15) = e.reg["es"]
         /\ Word(e, 16) = e.reg["fs"] /\ Word(e, 17) = e.reg["gs"]
         /\ Word(e, 18) = Len(e.stack) + 17
<1>1. Before(e) = 5
  BY DEF Before, Entry
<1>2. e.cause # "irq"
  OBVIOUS
<1> QED
  BY <1>1, <1>2 DEF Word, Segments

\* What pusha and the four pushes behind it stack.
LEMMA SavedWords ==
  ASSUME NEW e \in Entry
  PROVE  /\ Before(e) \in {3, 5}
         /\ \A i \in 1 .. 8 : Word(e, Before(e) + i) =
                                IF i = 5 THEN Len(e.stack) + Before(e) ELSE e.reg[GPRs[i]]
         /\ \A i \in 1 .. 4 : Word(e, Before(e) + 8 + i) = e.reg[Segments[i]]
<1>1. PICK b \in {3, 5} : b = Before(e)
  BY DEF Before
<1>2. \A i \in 1 .. 8 : Word(e, b + i) = IF i = 5 THEN Len(e.stack) + b ELSE e.reg[GPRs[i]]
  BY <1>1 DEF Word
<1>3. \A i \in 1 .. 4 : Word(e, b + 8 + i) = e.reg[Segments[i]]
  BY <1>1 DEF Word
<1> QED
  BY <1>1, <1>2, <1>3

\* A push of the next word of the entry.
LEMMA OnePushed ==
  ASSUME NEW s \in Seq(Int), NEW b \in Seq(Int), NEW e, NEW m \in Nat, Holds(s, b, e, m),
         NEW w \in Int, w = Word(e, m + 1)
  PROVE  <<w>> \o s \in Seq(Int) /\ Holds(<<w>> \o s, b, e, m + 1)
<1>1. <<w>> \in Seq(Int) /\ Len(<<w>>) = 1 /\ <<w>>[1] = w
  OBVIOUS
<1>2. PICK t \in Seq(Int) : t = <<w>>
  BY <1>1
<1>3. NextWords(t, e, m, 1)
  BY <1>1, <1>2 DEF NextWords
<1>4. t \o s \in Seq(Int) /\ Holds(t \o s, b, e, m + 1)
  BY <1>3, Pushed
<1> QED
  BY <1>2, <1>4

\* The same of the stack of a state.
LEMMA PushesOne ==
  ASSUME NEW e \in Entry, NEW m \in Nat, stack \in Seq(Int), Built(e, m), NEW w \in Int,
         w = Word(e, m + 1), stack' = <<w>> \o stack
  PROVE  stack' \in Seq(Int) /\ Built(e, m + 1)'
<1>1. e.stack \in Seq(Int) /\ Holds(stack, e.stack, e, m)
  BY DEF Entry, Built
<1>2. <<w>> \o stack \in Seq(Int) /\ Holds(<<w>> \o stack, e.stack, e, m + 1)
  BY <1>1, OnePushed
<1> QED
  BY <1>2 DEF Built

\* A pop of the last word of the entry.
LEMMA OneDropped ==
  ASSUME NEW s \in Seq(Int), NEW b \in Seq(Int), NEW e, NEW m \in Nat \ {0}, Holds(s, b, e, m)
  PROVE  /\ Head(s) = Word(e, m) /\ Tail(s) = SubSeq(s, 2, Len(s))
         /\ Tail(s) \in Seq(Int) /\ Holds(Tail(s), b, e, m - 1)
<1>1. Len(s) = Len(b) + m /\ \A k \in 1 .. m : s[k] = Word(e, m + 1 - k)
  BY OnTop
<1>2. Len(s) >= 1 /\ s[1] = Word(e, m)
  BY <1>1
<1>3. Head(s) = s[1] /\ Tail(s) = SubSeq(s, 2, Len(s))
  BY <1>2
<1>4. PICK n \in 0 .. m : n = 1
  OBVIOUS
<1>5. SubSeq(s, n + 1, Len(s)) \in Seq(Int) /\ Holds(SubSeq(s, n + 1, Len(s)), b, e, m - n)
  BY Dropped
<1>6. SubSeq(s, n + 1, Len(s)) = Tail(s)
  BY <1>3, <1>4
<1>7. Tail(s) \in Seq(Int) /\ Holds(Tail(s), b, e, m - n)
  BY <1>5, <1>6
<1> QED
  BY <1>2, <1>3, <1>4, <1>7

\* The same of the stack of a state.
LEMMA PopsOne ==
  ASSUME NEW e \in Entry, NEW m \in Nat \ {0}, stack \in Seq(Int), Built(e, m)
  PROVE  /\ Head(stack) = Word(e, m) /\ Len(stack) = Len(e.stack) + m
         /\ Tail(stack) = Drop(1)
         /\ Tail(stack) \in Seq(Int) /\ Holds(Tail(stack), e.stack, e, m - 1)
<1>1. e.stack \in Seq(Int) /\ Holds(stack, e.stack, e, m)
  BY DEF Entry, Built
<1>2. /\ Head(stack) = Word(e, m) /\ Tail(stack) = SubSeq(stack, 2, Len(stack))
      /\ Tail(stack) \in Seq(Int) /\ Holds(Tail(stack), e.stack, e, m - 1)
  BY <1>1, OneDropped
<1>3. Len(stack) = Len(e.stack) + m
  BY <1>1 DEF Holds
<1>4. Drop(1) = SubSeq(stack, 2, Len(stack))
  BY DEF Drop
<1> QED
  BY <1>2, <1>3, <1>4

(***************************************************************************)
(* The instructions that save the registers, in every stub                 *)
(***************************************************************************)
\* The words on the stack, over the ones of Before, in front of each of them.
SaveHeight == <<0, 8, 9, 10, 11, 12>>

\* The words pusha pushes.
LEMMA PushaWords ==
  ASSUME reg \in [Registers -> Int], stack \in Seq(Int)
  PROVE  \E t \in Seq(Int) :
           /\ t = [k \in 1 .. 8 |-> Value(FromTop[k])] /\ Len(t) = 8
           /\ \A i \in 1 .. 8 : t[9 - i] = IF i = 5 THEN Len(stack) ELSE reg[GPRs[i]]
<1>1. PICK L \in Nat : L = Len(stack)
  OBVIOUS
<1>2. PICK t : t = [k \in 1 .. 8 |-> Value(FromTop[k])]
  OBVIOUS
<1>3. \A i \in 1 .. 8 : t[9 - i] = IF i = 5 THEN L ELSE reg[GPRs[i]]
  <2>1. \A i \in 1 .. 8 : GPRs[i] = "esp" <=> i = 5
    BY DEF GPRs
  <2>2. \A i \in 1 .. 8 : 9 - i \in 1 .. 8 /\ FromTop[9 - i] = GPRs[i]
    BY DEF FromTop
  <2>3. \A i \in 1 .. 8 : t[9 - i] = Value(GPRs[i])
    BY <1>2, <2>2
  <2> QED
    BY <1>1, <2>1, <2>3 DEF Value
<1>4. \A i \in 1 .. 8 : t[9 - i] \in Int
  <2> SUFFICES ASSUME NEW i \in 1 .. 8
               PROVE  t[9 - i] \in Int
    OBVIOUS
  <2>1. CASE i = 5
    BY <1>3, <2>1
  <2>2. CASE i # 5
    <3>1. GPRs[i] \in Registers
      BY <2>2, Names
    <3> QED
      BY <1>3, <2>2, <3>1
  <2> QED
    BY <2>1, <2>2
<1>5. t \in Seq(Int) /\ Len(t) = 8
  <2>1. \A k \in 1 .. 8 : t[k] \in Int
    <3> SUFFICES ASSUME NEW k \in 1 .. 8
                 PROVE  t[k] \in Int
      OBVIOUS
    <3>1. PICK i \in 1 .. 8 : k = 9 - i
      OBVIOUS
    <3> QED
      BY <1>4, <3>1
  <2>2. t = [k \in 1 .. 8 |-> t[k]]
    BY <1>2
  <2> QED
    BY <2>1, <2>2
<1>6. /\ t \in Seq(Int)
      /\ t = [k \in 1 .. 8 |-> Value(FromTop[k])] /\ Len(t) = 8
      /\ \A i \in 1 .. 8 : t[9 - i] = IF i = 5 THEN Len(stack) ELSE reg[GPRs[i]]
  <2>1. \A i \in 1 .. 8 : t[9 - i] = IF i = 5 THEN Len(stack) ELSE reg[GPRs[i]]
    BY <1>1, <1>3, Zenon
  <2> QED
    BY <1>2, <1>5, <2>1, Zenon
<1> QED
  BY <1>6, Zenon

\* pusha.
LEMMA PushesAll ==
  ASSUME NEW e \in Entry, reg = e.reg, stack \in Seq(Int), Built(e, Before(e))
  PROVE  /\ [k \in 1 .. 8 |-> Value(FromTop[k])] \o stack \in Seq(Int)
         /\ Holds([k \in 1 .. 8 |-> Value(FromTop[k])] \o stack, e.stack, e, Before(e) + 8)
<1>1. PICK b \in Nat : b = Before(e) /\ b \in {3, 5}
  BY SavedWords
<1>2. PICK c \in Seq(Int) : c = e.stack
  BY DEF Entry
<1>3. reg \in [Registers -> Int] /\ Holds(stack, c, e, b)
  BY <1>1, <1>2 DEF Entry, Built
<1>4. PICK t \in Seq(Int) :
        /\ t = [k \in 1 .. 8 |-> Value(FromTop[k])] /\ Len(t) = 8
        /\ \A i \in 1 .. 8 : t[9 - i] = IF i = 5 THEN Len(stack) ELSE reg[GPRs[i]]
  BY <1>3, PushaWords, Zenon
<1>5. Len(stack) = Len(c) + b
  BY <1>3 DEF Holds
<1>6. \A i \in 1 .. 8 : t[9 - i] = IF i = 5 THEN Len(c) + b ELSE e.reg[GPRs[i]]
  BY <1>4, <1>5
<1>7. \A i \in 1 .. 8 : Word(e, b + i) = IF i = 5 THEN Len(c) + b ELSE e.reg[GPRs[i]]
  BY <1>1, <1>2, SavedWords
<1>8. \A i \in 1 .. 8 : t[9 - i] = Word(e, b + i)
  BY <1>6, <1>7
<1>9. NextWords(t, e, b, 8)
  BY <1>4, <1>8 DEF NextWords
<1>10. t \o stack \in Seq(Int) /\ Holds(t \o stack, c, e, b + 8)
  BY <1>3, <1>9, Pushed
<1> QED
  BY <1>1, <1>2, <1>4, <1>10, Zenon

\* Each of the first five instructions of Save pushes the words it should.
LEMMA Saves ==
  ASSUME NEW e \in Entry, reg = e.reg, stack \in Seq(Int), Executes, NEW k \in 1 .. 5,
         Instruction = Save[k], Built(e, Before(e) + SaveHeight[k])
  PROVE  /\ stack' \in Seq(Int) /\ Built(e, Before(e) + SaveHeight[k + 1])'
         /\ Step /\ UNCHANGED <<reg, iflag, entered, told, halted>>
<1>1. PICK b \in {3, 5} : b = Before(e)
  BY SavedWords
<1>2. e.reg \in [Registers -> Int]
  BY DEF Entry
<1>3. CASE k = 1
  <2>1. Instruction = I("pusha", 0) /\ Before(e) + SaveHeight[k] = Before(e)
        /\ Before(e) + SaveHeight[k + 1] = Before(e) + 8
    BY <1>1, <1>3 DEF Save, SaveHeight
  <2>2. Step /\ UNCHANGED <<reg, iflag, entered, told, halted>>
    BY <2>1, Pushes
  <2>3. stack' = [j \in 1 .. 8 |-> Value(FromTop[j])] \o stack
    BY <2>1, Pushes
  <2>4. stack' \in Seq(Int) /\ Built(e, Before(e) + 8)'
    BY <2>1, <2>3, PushesAll DEF Built
  <2> QED
    BY <2>1, <2>2, <2>4
<1>4. CASE k \in 2 .. 5
  <2>1. PICK i \in 1 .. 4 : i = k - 1
    BY <1>4
  <2>2. Instruction = I("push_seg", Segments[i]) /\ Segments[i] \in Registers
    BY <1>4, <2>1 DEF Save, Segments, Registers
  <2>3. PICK m \in Nat : m = b + 7 + i
    BY <1>1
  <2>4. Before(e) + SaveHeight[k] = m /\ Before(e) + SaveHeight[k + 1] = m + 1
    <3>1. SaveHeight[k] = 7 + i /\ SaveHeight[k + 1] = 8 + i
      BY <2>1 DEF SaveHeight
    <3> QED
      BY <1>1, <2>3, <3>1
  <2>5. PICK w \in Int : w = e.reg[Segments[i]]
    BY <1>2, <2>2
  <2>6. w = Word(e, m + 1)
    <3>1. Word(e, Before(e) + 8 + i) = e.reg[Segments[i]]
      BY SavedWords
    <3>2. m + 1 = Before(e) + 8 + i
      BY <1>1, <2>3
    <3> QED
      BY <2>5, <3>1, <3>2
  <2>7. stack' = <<w>> \o stack /\ Step /\ UNCHANGED <<reg, iflag, entered, told, halted>>
    BY <2>2, <2>5, Pushes
  <2>8. stack' \in Seq(Int) /\ Built(e, m + 1)'
    BY <2>4, <2>6, <2>7, PushesOne
  <2> QED
    BY <2>4, <2>7, <2>8
<1> QED
  BY <1>3, <1>4

(***************************************************************************)
(* The stub of an interrupt                                                *)
(***************************************************************************)
\* What every instruction of a stub but iret leaves.
Kept ==
  stack' \in Seq(Int) /\ reg' \in [Registers -> Int] /\ UNCHANGED <<iflag, entered, halted>>

\* The instruction at an offset of the stub.
LEMMA IrqFetch ==
  ASSUME NEW e \in Entry, e.vector \in 32 .. 47, NEW k \in 1 .. 15, IrqAt(e, k)
  PROVE  Instruction = irq(e.vector - 32)[k]
<1>1. PICK v \in 32 .. 47 : v = e.vector
  OBVIOUS
<1>2. eip = Address(v) + (k - 1)
  BY <1>1 DEF IrqAt
<1>3. v \in 0 .. 51 /\ k \in 1 .. 99
  OBVIOUS
<1>4. Instruction = Program(v)[k]
  BY <1>2, <1>3, Fetch
<1> QED
  BY <1>1, <1>4, Routine

\* The next offset.
LEMMA NextOffset ==
  ASSUME NEW r \in 0 .. 51, NEW k \in 1 .. 99, eip = Address(r) + (k - 1), Step
  PROVE  eip' = Address(r) + ((k + 1) - 1)
<1>1. Address(r) \in Int
  BY SMT DEF Address, Image
<1> QED
  BY <1>1 DEF Step

\* The registers are saved,
LEMMA IrqSaves ==
  ASSUME NEW e \in Entry, e.cause = "irq", e.vector \in 32 .. 47, stack \in Seq(Int), Executes,
         NEW k \in 1 .. 5, IrqAt(e, k)
  PROVE  Kept /\ IrqAt(e, k + 1)'
<1>1. Instruction = irq(e.vector - 32)[k]
  BY IrqFetch
<1>2. irq(e.vector - 32)[k] = Save[k]
  <2>1. k \in {1, 2, 3, 4, 5}
    OBVIOUS
  <2> QED
    BY <2>1, IrqText DEF Save
<1>3. IrqHeight[k] = 3 + SaveHeight[k] /\ IrqHeight[k + 1] = 3 + SaveHeight[k + 1]
  BY DEF IrqHeight, SaveHeight
<1>4. Before(e) = 3
  BY IrqWords
<1>5. reg = e.reg /\ e.reg \in [Registers -> Int]
  BY DEF IrqAt, Entry
<1>6. Built(e, Before(e) + SaveHeight[k])
  BY <1>3, <1>4 DEF IrqAt
<1>7. /\ stack' \in Seq(Int) /\ Built(e, Before(e) + SaveHeight[k + 1])'
      /\ Step /\ UNCHANGED <<reg, iflag, entered, told, halted>>
  BY <1>1, <1>2, <1>5, <1>6, Saves
<1>8. Built(e, IrqHeight[k + 1])'
  BY <1>3, <1>4, <1>7
<1>9. eip' = Address(e.vector) + ((k + 1) - 1)
  <2>1. e.vector \in 0 .. 51 /\ k \in 1 .. 99 /\ eip = Address(e.vector) + (k - 1)
    BY DEF IrqAt
  <2> QED
    BY <1>7, <2>1, NextOffset
<1> QED
  BY <1>5, <1>7, <1>8, <1>9 DEF IrqAt, Kept

\* irq_dispatch is called with the line and returns,
LEMMA IrqCalls ==
  ASSUME NEW e \in Entry, e.cause = "irq", e.vector \in 32 .. 47, stack \in Seq(Int),
         reg \in [Registers -> Int], Executes, NEW k \in 6 .. 9, IrqAt(e, k)
  PROVE  Kept /\ IrqAt(e, k + 1)'
<1>1. PICK n \in Int : n = e.vector - 32
  OBVIOUS
<1>2. Instruction = irq(n)[k]
  BY <1>1, IrqFetch
<1>3. DOMAIN reg = Registers /\ KERNEL_DATA \in Int /\ Junk \in Int
  BY DEF KERNEL_DATA, Junk
<1>4. Built(e, IrqHeight[k]) /\ Len(IrqHeight) = 15
  BY DEF IrqAt, IrqHeight
<1>5. Word(e, 16) = n
  BY <1>1, IrqWords
<1>6. Step => eip' = Address(e.vector) + ((k + 1) - 1)
  <2>1. e.vector \in 0 .. 51 /\ k \in 1 .. 99 /\ eip = Address(e.vector) + (k - 1)
    BY DEF IrqAt
  <2> QED
    BY <2>1, NextOffset
<1>7. CASE k = 6
  <2>1. Instruction = I("load_segs", KERNEL_DATA)
    BY <1>2, <1>7, IrqText
  <2>2. /\ UNCHANGED <<stack, entered, halted>> /\ Step /\ UNCHANGED <<iflag, told>>
        /\ reg' = [r \in DOMAIN reg |->
                     IF r \in Range(Segments) \cup {"eax"} THEN KERNEL_DATA ELSE reg[r]]
    BY <2>1, Loads
  <2>3. reg' \in [Registers -> Int]
    BY <1>3, <2>2
  <2>4. Built(e, IrqHeight[k + 1])'
    BY <1>4, <1>7, <2>2 DEF IrqHeight, Built
  <2> QED
    BY <1>6, <1>7, <2>2, <2>3, <2>4 DEF IrqAt, Kept
<1>8. CASE k = 7
  <2>1. Instruction = I("push", n)
    BY <1>2, <1>8, IrqText
  <2>2. Step /\ UNCHANGED <<reg, iflag, entered, told, halted>> /\ stack' = <<n>> \o stack
    BY <2>1, Pushes
  <2>3. Built(e, 15)
    BY <1>4, <1>8 DEF IrqHeight
  <2>4. stack' \in Seq(Int) /\ Built(e, 16)'
    <3>1. PICK m \in Nat : m = 15
      OBVIOUS
    <3>2. Built(e, m) /\ n = Word(e, m + 1)
      BY <1>5, <2>3, <3>1
    <3>3. stack' \in Seq(Int) /\ Built(e, m + 1)'
      BY <2>2, <3>2, PushesOne
    <3> QED
      BY <3>1, <3>3
  <2>5. Built(e, IrqHeight[k + 1])'
    BY <1>8, <2>4 DEF IrqHeight
  <2> QED
    BY <1>6, <1>8, <2>2, <2>4, <2>5 DEF IrqAt, Kept
<1>9. CASE k = 8
  <2>1. Instruction = I("irq_dispatch", 0)
    BY <1>2, <1>9, IrqText
  <2>2. /\ UNCHANGED <<stack, entered, halted>> /\ Step /\ iflag' = iflag /\ told' = <<Head(stack)>>
        /\ reg' = [r \in DOMAIN reg |-> IF r \in {"eax", "ecx", "edx"} THEN Junk ELSE reg[r]]
    BY <2>1, Others
  <2>3. reg' \in [Registers -> Int]
    BY <1>3, <2>2
  <2>4. Built(e, 16)
    BY <1>4, <1>9 DEF IrqHeight
  <2>5. Head(stack) = n
    BY <1>5, <2>4, PopsOne
  <2>6. Built(e, IrqHeight[k + 1])'
    BY <1>9, <2>2, <2>4 DEF IrqHeight, Built
  <2>7. told' = <<e.vector - 32>>
    BY <1>1, <2>2, <2>5
  <2> QED
    BY <1>6, <1>9, <2>2, <2>3, <2>6, <2>7 DEF IrqAt, Kept
<1>10. CASE k = 9
  <2>1. Instruction = I("add_esp", 1)
    BY <1>2, <1>10, IrqText
  <2>2. Step /\ UNCHANGED <<iflag, entered, told, halted>> /\ stack' = Drop(1) /\ reg' = reg
    BY <2>1, Pops
  <2>3. Built(e, 16)
    BY <1>4, <1>10 DEF IrqHeight
  <2>4. Tail(stack) = Drop(1) /\ Tail(stack) \in Seq(Int) /\ Holds(Tail(stack), e.stack, e, 15)
    <3>1. PICK m \in Nat \ {0} : m = 16
      OBVIOUS
    <3>2. /\ Tail(stack) = Drop(1) /\ Tail(stack) \in Seq(Int)
          /\ Holds(Tail(stack), e.stack, e, m - 1)
      BY <2>3, <3>1, PopsOne
    <3>3. m - 1 = 15
      BY <3>1
    <3> QED
      BY <3>2, <3>3
  <2>5. stack' \in Seq(Int) /\ Built(e, IrqHeight[k + 1])'
    <3>1. IrqHeight[k + 1] = 15
      BY <1>10 DEF IrqHeight
    <3> QED
      BY <2>2, <2>4, <3>1 DEF Built
  <2> QED
    BY <1>6, <1>10, <2>2, <2>5 DEF IrqAt, Kept
<1> QED
  BY <1>7, <1>8, <1>9, <1>10

\* The segment registers are restored,
LEMMA IrqRestores ==
  ASSUME NEW e \in Entry, e.cause = "irq", e.vector \in 32 .. 47, stack \in Seq(Int),
         reg \in [Registers -> Int], Executes, NEW k \in 10 .. 13, IrqAt(e, k)
  PROVE  Kept /\ IrqAt(e, k + 1)'
<1>1. Instruction = irq(e.vector - 32)[k]
  BY IrqFetch
<1>2. PICK s \in Registers : /\ Instruction = I("pop_seg", s)
                             /\ k = 10 => s = "gs"
                             /\ k = 11 => s = "fs"
                             /\ k = 12 => s = "es"
                             /\ k = 13 => s = "ds"
  <2>1. {"gs", "fs", "es", "ds"} \subseteq Registers
    BY DEF Registers
  <2>2. CASE k = 10
    <3>1. Instruction = I("pop_seg", "gs")
      BY <1>1, <2>2, IrqText
    <3> QED
      BY <2>1, <2>2, <3>1
  <2>3. CASE k = 11
    <3>1. Instruction = I("pop_seg", "fs")
      BY <1>1, <2>3, IrqText
    <3> QED
      BY <2>1, <2>3, <3>1
  <2>4. CASE k = 12
    <3>1. Instruction = I("pop_seg", "es")
      BY <1>1, <2>4, IrqText
    <3> QED
      BY <2>1, <2>4, <3>1
  <2>5. CASE k = 13
    <3>1. Instruction = I("pop_seg", "ds")
      BY <1>1, <2>5, IrqText
    <3> QED
      BY <2>1, <2>5, <3>1
  <2> QED
    BY <2>2, <2>3, <2>4, <2>5
<1>3. PICK m \in Nat \ {0} : m = 25 - k
  OBVIOUS
<1>4. Built(e, m) /\ IrqHeight[k + 1] = m - 1
  <2>1. IrqHeight[k] = m /\ IrqHeight[k + 1] = m - 1
    BY <1>3 DEF IrqHeight
  <2> QED
    BY <2>1 DEF IrqAt
<1>5. /\ Head(stack) = Word(e, m) /\ Tail(stack) \in Seq(Int)
      /\ Holds(Tail(stack), e.stack, e, m - 1)
  BY <1>4, PopsOne
<1>6. e.reg \in [Registers -> Int] /\ Word(e, m) = e.reg[s]
  <2>1. e.reg \in [Registers -> Int]
    BY DEF Entry
  <2>2. k \in {10, 11, 12, 13}
    OBVIOUS
  <2> QED
    BY <1>2, <1>3, <2>1, <2>2, IrqWords
<1>7. /\ Step /\ UNCHANGED <<iflag, entered, told, halted>>
      /\ stack' = Tail(stack) /\ reg' = [reg EXCEPT ![s] = Head(stack)]
  BY <1>2, Pops
<1>8. /\ reg' \in [Registers -> Int] /\ reg'[s] = e.reg[s]
      /\ \A r \in Registers : r # s => reg'[r] = reg[r]
  BY <1>5, <1>6, <1>7
<1>9. /\ k + 1 > 10 => reg'["gs"] = e.reg["gs"]
      /\ k + 1 > 11 => reg'["fs"] = e.reg["fs"]
      /\ k + 1 > 12 => reg'["es"] = e.reg["es"]
      /\ k + 1 > 13 => reg'["ds"] = e.reg["ds"]
  <2>1. /\ k > 10 => reg["gs"] = e.reg["gs"]
        /\ k > 11 => reg["fs"] = e.reg["fs"]
        /\ k > 12 => reg["es"] = e.reg["es"]
    BY DEF IrqAt
  <2>2. "gs" \in Registers /\ "fs" \in Registers /\ "es" \in Registers /\ "ds" \in Registers
    BY DEF Registers
  <2>3. k \in {10, 11, 12, 13}
    OBVIOUS
  <2> QED
    BY <1>2, <1>8, <2>1, <2>2, <2>3
<1>10. stack' \in Seq(Int) /\ Built(e, IrqHeight[k + 1])'
  BY <1>4, <1>5, <1>7 DEF Built
<1>11. eip' = Address(e.vector) + ((k + 1) - 1)
  <2>1. e.vector \in 0 .. 51 /\ k \in 1 .. 99 /\ eip = Address(e.vector) + (k - 1)
    BY DEF IrqAt
  <2> QED
    BY <1>7, <2>1, NextOffset
<1> QED
  BY <1>7, <1>8, <1>9, <1>10, <1>11 DEF IrqAt, Kept

\* and the general ones by popa.
LEMMA IrqPopa ==
  ASSUME NEW e \in Entry, e.cause = "irq", e.vector \in 32 .. 47, stack \in Seq(Int),
         reg \in [Registers -> Int], Executes, IrqAt(e, 14)
  PROVE  Kept /\ IrqAt(e, 15)'
<1>1. Instruction = I("popa", 0)
  <2>1. PICK k \in 1 .. 15 : k = 14
    OBVIOUS
  <2>2. IrqAt(e, k)
    BY <2>1
  <2>3. Instruction = irq(e.vector - 32)[k]
    BY <2>2, IrqFetch
  <2> QED
    BY <2>1, <2>3, IrqText
<1>2. /\ Step /\ UNCHANGED <<iflag, entered, told, halted>> /\ stack' = Drop(8)
      /\ reg' = [r \in DOMAIN reg |->
                   IF r \in Range(GPRs) THEN stack[CHOOSE k \in 1 .. 8 : FromTop[k] = r]
                   ELSE reg[r]]
  BY <1>1, Pops
<1>3. PICK b \in Seq(Int) : b = e.stack
  BY DEF Entry
<1>4. Holds(stack, b, e, 11)
  BY <1>3 DEF IrqAt, IrqHeight, Built
<1>5. stack' \in Seq(Int) /\ Holds(stack', b, e, 3)
  <2>1. PICK m \in Nat, n \in 0 .. 11 : m = 11 /\ n = 8
    OBVIOUS
  <2>2. n \in 0 .. m /\ Holds(stack, b, e, m)
    BY <1>4, <2>1
  <2>3. /\ SubSeq(stack, n + 1, Len(stack)) \in Seq(Int)
        /\ Holds(SubSeq(stack, n + 1, Len(stack)), b, e, m - n)
    BY <2>2, Dropped
  <2>4. stack' = SubSeq(stack, n + 1, Len(stack)) /\ m - n = 3
    BY <1>2, <2>1 DEF Drop
  <2> QED
    BY <2>3, <2>4
<1>6. \A k \in 1 .. 8 : stack[k] = Word(e, 12 - k)
  <2>1. PICK m \in Nat : m = 11
    OBVIOUS
  <2>2. \A k \in 1 .. m : stack[k] = Word(e, m + 1 - k)
    BY <1>4, <2>1, OnTop
  <2>3. \A k \in 1 .. 8 : k \in 1 .. m /\ m + 1 - k = 12 - k
    BY <2>1
  <2> QED
    BY <2>2, <2>3
<1>7. e.reg \in [Registers -> Int]
  BY DEF Entry
<1>8. \A r \in Registers : reg'[r] = e.reg[r]
  <2> SUFFICES ASSUME NEW r \in Registers
               PROVE  reg'[r] = e.reg[r]
    OBVIOUS
  <2>1. CASE r \in Range(GPRs)
    <3>1. PICK i \in 1 .. 8 : r = GPRs[i] /\ i # 5
      <4>1. r # "esp"
        BY DEF Registers
      <4>2. \E i \in 1 .. 8 : r = GPRs[i]
        BY <2>1, Names DEF Range
      <4>3. GPRs[5] = "esp"
        BY DEF GPRs
      <4> QED
        BY <4>1, <4>2, <4>3
    <3>2. PICK p \in 1 .. 8 : p = 9 - i
      OBVIOUS
    <3>3. Place(r) = p
      <4>1. r = GPRs[9 - p]
        BY <3>1, <3>2
      <4> QED
        BY <4>1, PopOrder
    <3>4. reg'[r] = stack[p]
      BY <1>2, <2>1, <3>3 DEF Place
    <3>5. stack[p] = Word(e, 3 + i)
      <4>1. 12 - p = 3 + i
        BY <3>2
      <4> QED
        BY <1>6, <4>1
    <3>6. Word(e, 3 + i) = e.reg[GPRs[i]]
      BY <3>1, IrqWords, SavedWords
    <3> QED
      BY <3>1, <3>4, <3>5, <3>6
  <2>2. CASE r \notin Range(GPRs)
    <3>1. r \in {"ds", "es", "fs", "gs"}
      BY <2>2, Names DEF Registers
    <3>2. reg'[r] = reg[r]
      BY <1>2, <2>2
    <3> QED
      BY <3>1, <3>2 DEF IrqAt
  <2> QED
    BY <2>1, <2>2
<1>9. reg' = e.reg
  <2>1. DOMAIN reg' = Registers /\ reg' = [r \in Registers |-> reg'[r]]
    BY <1>2
  <2> QED
    BY <1>7, <1>8, <2>1
<1>10. eip' = Address(e.vector) + (15 - 1)
  <2>1. PICK k \in 1 .. 99 : k = 14
    OBVIOUS
  <2>2. e.vector \in 0 .. 51 /\ eip = Address(e.vector) + (k - 1)
    BY <2>1 DEF IrqAt
  <2>3. eip' = Address(e.vector) + ((k + 1) - 1)
    BY <1>2, <2>2, NextOffset
  <2> QED
    BY <2>1, <2>3
<1>11. Built(e, IrqHeight[15])'
  BY <1>3, <1>5 DEF Built, IrqHeight
<1>12. IrqAt(e, 15)'
  BY <1>9, <1>10, <1>11 DEF IrqAt
<1> QED
  BY <1>2, <1>5, <1>7, <1>9, <1>12 DEF Kept

\* iret gives the CPU back as it was.
LEMMA IrqReturns ==
  ASSUME NEW e \in Entry, e.cause = "irq", e.vector \in 32 .. 47, stack \in Seq(Int),
         Executes, IrqAt(e, 15)
  PROVE  /\ reg' = e.reg /\ stack' = e.stack /\ eip' = e.eip /\ iflag' = e.iflag
         /\ entered' = Tail(entered) /\ UNCHANGED <<told, halted>>
<1>1. Instruction = I("iret", 0)
  <2>1. PICK k \in 1 .. 15 : k = 15
    OBVIOUS
  <2>2. IrqAt(e, k)
    BY <2>1
  <2>3. Instruction = irq(e.vector - 32)[k]
    BY <2>2, IrqFetch
  <2> QED
    BY <2>1, <2>3, IrqText
<1>2. /\ eip' = stack[1] /\ iflag' = stack[3] /\ stack' = Drop(3)
      /\ entered' = Tail(entered) /\ UNCHANGED <<reg, told, halted>>
  BY <1>1, Pops
<1>3. PICK b \in Seq(Int) : b = e.stack
  BY DEF Entry
<1>4. PICK m \in Nat : m = 3
  OBVIOUS
<1>5. Holds(stack, b, e, m)
  BY <1>3, <1>4 DEF IrqAt, IrqHeight, Built
<1>6. stack[1] = Word(e, 3) /\ stack[3] = Word(e, 1)
  <2>1. \A k \in 1 .. m : stack[k] = Word(e, m + 1 - k)
    BY <1>5, OnTop
  <2>2. 1 \in 1 .. m /\ 3 \in 1 .. m /\ m + 1 - 1 = 3 /\ m + 1 - 3 = 1
    BY <1>4
  <2> QED
    BY <2>1, <2>2
<1>7. stack' = b
  <2>1. PICK n \in 0 .. m : n = 3
    BY <1>4
  <2>2. /\ SubSeq(stack, n + 1, Len(stack)) \in Seq(Int)
        /\ Holds(SubSeq(stack, n + 1, Len(stack)), b, e, m - n)
    BY <1>5, Dropped
  <2>3. stack' = SubSeq(stack, n + 1, Len(stack)) /\ m - n = 0
    BY <1>2, <1>4, <2>1 DEF Drop
  <2>4. PICK u \in Seq(Int) : u = SubSeq(stack, n + 1, Len(stack)) /\ Holds(u, b, e, m - n)
    BY <2>2
  <2>5. Holds(u, b, e, 0)
    BY <2>3, <2>4
  <2>6. u = b
    BY <2>5, Emptied
  <2> QED
    BY <2>3, <2>4, <2>6
<1>8. reg = e.reg
  BY DEF IrqAt
<1> QED
  BY <1>2, <1>3, <1>6, <1>7, <1>8, IrqWords

(***************************************************************************)
(* The stub of an exception, and isr_common                                *)
(***************************************************************************)
\* The instruction at an offset of the stub.
LEMMA StubFetch ==
  ASSUME NEW v \in 0 .. 31, NEW k \in 1 .. 4, eip = Address(v) + (k - 1)
  PROVE  /\ k = 1 => Instruction = I("cli", 0)
         /\ v \in ISR_ERR => /\ k = 2 => Instruction = I("push", v)
                             /\ k = 3 => Instruction = I("jmp", Address(isr_common))
         /\ v \notin ISR_ERR => /\ k = 2 => Instruction = I("push", 0)
                                /\ k = 3 => Instruction = I("push", v)
                                /\ k = 4 => Instruction = I("jmp", Address(isr_common))
<1>1. v \in 0 .. 51 /\ k \in 1 .. 99
  OBVIOUS
<1>2. Instruction = Program(v)[k]
  BY <1>1, Fetch
<1>3. Instruction = isr(v)[k]
  BY <1>2, Routine
<1> QED
  BY <1>3, StubText

\* cli, when the gate has cleared IF already,
LEMMA StubCli ==
  ASSUME NEW e \in Entry, e.vector \in 0 .. 31, stack \in Seq(Int), iflag = 0, Executes,
         NEW h \in Nat, StubAt(e, 1, h)
  PROVE  Kept /\ StubAt(e, 2, h)'
<1>1. PICK v \in 0 .. 31, k \in 1 .. 4 : v = e.vector /\ k = 1
  OBVIOUS
<1>2. eip = Address(v) + (k - 1) /\ Built(e, h) /\ reg = e.reg /\ e.reg \in [Registers -> Int]
  BY <1>1 DEF StubAt, Entry
<1>3. Instruction = I("cli", 0)
  BY <1>1, <1>2, StubFetch
<1>4. UNCHANGED <<stack, entered, halted>> /\ Step /\ iflag' = 0 /\ UNCHANGED <<reg, told>>
  BY <1>3, Others
<1>5. eip' = Address(v) + ((k + 1) - 1)
  <2>1. v \in 0 .. 51 /\ k \in 1 .. 99
    OBVIOUS
  <2> QED
    BY <1>2, <1>4, <2>1, NextOffset
<1>6. Built(e, h)'
  BY <1>2, <1>4 DEF Built
<1> QED
  BY <1>1, <1>2, <1>4, <1>5, <1>6 DEF StubAt, Kept

\* the pushes of the error code and of the vector,
LEMMA StubPush ==
  ASSUME NEW e \in Entry, e.vector \in 0 .. 31, stack \in Seq(Int), Executes,
         NEW k \in 1 .. 4, NEW h \in Nat, StubAt(e, k, h),
         NEW w \in Int, Instruction = I("push", w), w = Word(e, h + 1)
  PROVE  Kept /\ StubAt(e, k + 1, h + 1)'
<1>1. eip = Address(e.vector) + (k - 1) /\ Built(e, h) /\ reg = e.reg /\ e.reg \in [Registers -> Int]
  BY DEF StubAt, Entry
<1>2. Step /\ UNCHANGED <<reg, iflag, entered, told, halted>> /\ stack' = <<w>> \o stack
  BY Pushes
<1>3. stack' \in Seq(Int) /\ Built(e, h + 1)'
  BY <1>1, <1>2, PushesOne
<1>4. eip' = Address(e.vector) + ((k + 1) - 1)
  <2>1. e.vector \in 0 .. 51 /\ k \in 1 .. 99
    OBVIOUS
  <2> QED
    BY <1>1, <1>2, <2>1, NextOffset
<1> QED
  BY <1>1, <1>2, <1>3, <1>4 DEF StubAt, Kept

\* and the jump to isr_common.
LEMMA StubJmp ==
  ASSUME NEW e \in Entry, stack \in Seq(Int), Executes, NEW k \in 1 .. 4, StubAt(e, k, 5),
         Instruction = I("jmp", Address(isr_common))
  PROVE  Kept /\ CommonAt(e, 1)'
<1>1. Built(e, 5) /\ reg = e.reg /\ e.reg \in [Registers -> Int]
  BY DEF StubAt, Entry
<1>2. /\ UNCHANGED <<stack, entered, halted>> /\ eip' = Address(isr_common)
      /\ UNCHANGED <<reg, iflag, told>>
  <2>1. PICK op, a : op = "jmp" /\ a = Address(isr_common)
    OBVIOUS
  <2>2. Instruction = I(op, a)
    BY <2>1
  <2> QED
    BY <2>1, <2>2, Others
<1>3. Built(e, CommonHeight[1])'
  BY <1>1, <1>2 DEF Built, CommonHeight
<1>4. eip' = Address(isr_common) + (1 - 1)
  <2>1. Address(isr_common) \in Int
    BY SMT DEF Address, Image, isr_common
  <2> QED
    BY <1>2, <2>1
<1> QED
  BY <1>1, <1>2, <1>3, <1>4 DEF CommonAt, Kept

\* The stubs of ISR_ERR and of ISR_NOERR make the frame alike.
LEMMA StubRuns ==
  ASSUME NEW e \in Entry, e.cause = "fault", e.vector \in 0 .. 31, stack \in Seq(Int), iflag = 0,
         e.vector \in ISR_ERR => e.error = e.vector, e.vector \notin ISR_ERR => e.error = 0,
         Executes, InStub(e)
  PROVE  Kept /\ (InStub(e)' \/ CommonAt(e, 1)')
<1>1. PICK v \in 0 .. 31 : v = e.vector
  OBVIOUS
<1>2. ASSUME NEW k \in 1 .. 4, NEW h \in Nat, StubAt(e, k, h)
      PROVE  /\ v \in ISR_ERR => /\ k = 2 => Instruction = I("push", v)
                                 /\ k = 3 => Instruction = I("jmp", Address(isr_common))
             /\ v \notin ISR_ERR => /\ k = 2 => Instruction = I("push", 0)
                                    /\ k = 3 => Instruction = I("push", v)
                                    /\ k = 4 => Instruction = I("jmp", Address(isr_common))
  <2>1. eip = Address(v) + (k - 1)
    BY <1>1, <1>2 DEF StubAt
  <2> QED
    BY <2>1, StubFetch
<1>3. Word(e, 4) = e.error /\ Word(e, 5) = e.vector
  BY FaultWords
<1>4. CASE v \in ISR_ERR
  <2>1. CASE StubAt(e, 1, 4)
    BY <1>1, <1>4, <2>1, StubCli DEF InStub
  <2>2. CASE StubAt(e, 2, 4)
    <3>1. Instruction = I("push", v)
      BY <1>2, <1>4, <2>2
    <3>2. Kept /\ StubAt(e, 3, 5)'
      BY <1>1, <1>3, <2>2, <3>1, StubPush
    <3> QED
      BY <1>1, <1>4, <3>2 DEF InStub
  <2>3. CASE StubAt(e, 3, 5)
    <3>1. Instruction = I("jmp", Address(isr_common))
      BY <1>2, <1>4, <2>3
    <3> QED
      BY <2>3, <3>1, StubJmp
  <2> QED
    BY <1>1, <1>4, <2>1, <2>2, <2>3 DEF InStub
<1>5. CASE v \notin ISR_ERR
  <2>1. CASE StubAt(e, 1, 3)
    BY <1>1, <1>5, <2>1, StubCli DEF InStub
  <2>2. CASE StubAt(e, 2, 3)
    <3>1. Instruction = I("push", 0)
      BY <1>2, <1>5, <2>2
    <3>2. Kept /\ StubAt(e, 3, 4)'
      BY <1>1, <1>3, <1>5, <2>2, <3>1, StubPush
    <3> QED
      BY <1>1, <1>5, <3>2 DEF InStub
  <2>3. CASE StubAt(e, 3, 4)
    <3>1. Instruction = I("push", v)
      BY <1>2, <1>5, <2>3
    <3>2. Kept /\ StubAt(e, 4, 5)'
      BY <1>1, <1>3, <2>3, <3>1, StubPush
    <3> QED
      BY <1>1, <1>5, <3>2 DEF InStub
  <2>4. CASE StubAt(e, 4, 5)
    <3>1. Instruction = I("jmp", Address(isr_common))
      BY <1>2, <1>5, <2>4
    <3> QED
      BY <2>4, <3>1, StubJmp
  <2> QED
    BY <1>1, <1>5, <2>1, <2>2, <2>3, <2>4 DEF InStub
<1> QED
  BY <1>4, <1>5

\* The instruction at an offset of isr_common.
LEMMA CommonFetch ==
  ASSUME NEW e, NEW k \in 1 .. 8, CommonAt(e, k)
  PROVE  Instruction = CommonPath[k] /\ (Step => eip' = Address(isr_common) + ((k + 1) - 1))
<1>1. PICK r \in 0 .. 51, j \in 1 .. 99 : r = isr_common /\ j = k
  BY DEF isr_common
<1>2. eip = Address(r) + (j - 1)
  BY <1>1 DEF CommonAt
<1>3. Instruction = Program(r)[j]
  BY <1>2, Fetch
<1>4. Step => eip' = Address(r) + ((j + 1) - 1)
  BY <1>2, NextOffset
<1> QED
  BY <1>1, <1>3, <1>4, Routine

\* The registers are saved,
LEMMA CommonSaves ==
  ASSUME NEW e \in Entry, e.cause = "fault", stack \in Seq(Int), Executes,
         NEW k \in 1 .. 5, CommonAt(e, k)
  PROVE  Kept /\ CommonAt(e, k + 1)'
<1>1. Instruction = CommonPath[k] /\ (Step => eip' = Address(isr_common) + ((k + 1) - 1))
  BY CommonFetch
<1>2. CommonPath[k] = Save[k]
  <2>1. k \in {1, 2, 3, 4, 5}
    OBVIOUS
  <2> QED
    BY <2>1, CommonText DEF Save
<1>3. CommonHeight[k] = 5 + SaveHeight[k] /\ CommonHeight[k + 1] = 5 + SaveHeight[k + 1]
  BY DEF CommonHeight, SaveHeight
<1>4. Before(e) = 5
  BY FaultWords
<1>5. reg = e.reg /\ e.reg \in [Registers -> Int]
  BY DEF CommonAt, Entry
<1>6. Built(e, Before(e) + SaveHeight[k])
  BY <1>3, <1>4 DEF CommonAt
<1>7. /\ stack' \in Seq(Int) /\ Built(e, Before(e) + SaveHeight[k + 1])'
      /\ Step /\ UNCHANGED <<reg, iflag, entered, told, halted>>
  BY <1>1, <1>2, <1>5, <1>6, Saves
<1>8. Built(e, CommonHeight[k + 1])'
  BY <1>3, <1>4, <1>7
<1> QED
  BY <1>1, <1>5, <1>7, <1>8 DEF CommonAt, Kept

\* the kernel's segments are loaded and the address of the frame is pushed,
LEMMA CommonCalls ==
  ASSUME NEW e \in Entry, e.cause = "fault", stack \in Seq(Int),
         reg \in [Registers -> Int], Executes, NEW k \in 6 .. 7, CommonAt(e, k)
  PROVE  Kept /\ CommonAt(e, k + 1)'
<1>1. Instruction = CommonPath[k] /\ (Step => eip' = Address(isr_common) + ((k + 1) - 1))
  BY CommonFetch
<1>2. DOMAIN reg = Registers /\ KERNEL_DATA \in Int
  BY DEF KERNEL_DATA
<1>3. Built(e, 17)
  BY DEF CommonAt, CommonHeight
<1>4. CASE k = 6
  <2>1. Instruction = I("load_segs", KERNEL_DATA)
    BY <1>1, <1>4, CommonText
  <2>2. /\ UNCHANGED <<stack, entered, halted>> /\ Step /\ UNCHANGED <<iflag, told>>
        /\ reg' = [r \in DOMAIN reg |->
                     IF r \in Range(Segments) \cup {"eax"} THEN KERNEL_DATA ELSE reg[r]]
    BY <2>1, Loads
  <2>3. reg' \in [Registers -> Int]
    BY <1>2, <2>2
  <2>4. Built(e, CommonHeight[k + 1])'
    <3>1. CommonHeight[k + 1] = 17
      BY <1>4 DEF CommonHeight
    <3> QED
      BY <1>3, <2>2, <3>1 DEF Built
  <2> QED
    BY <1>1, <1>4, <2>2, <2>3, <2>4 DEF CommonAt, Kept
<1>5. CASE k = 7
  <2>1. Instruction = I("push_esp", 0)
    BY <1>1, <1>5, CommonText
  <2>2. Step /\ UNCHANGED <<reg, iflag, entered, told, halted>> /\ stack' = <<Len(stack)>> \o stack
    BY <2>1, Pushes
  <2>3. PICK m \in Nat : m = 17
    OBVIOUS
  <2>4. Built(e, m)
    BY <1>3, <2>3
  <2>5. PICK w \in Int : w = Len(stack)
    OBVIOUS
  <2>6. w = Word(e, m + 1)
    <3>1. Len(stack) = Len(e.stack) + 17
      BY <1>3 DEF Built, Holds
    <3>2. Word(e, 18) = Len(e.stack) + 17 /\ m + 1 = 18
      BY <2>3, FaultWords
    <3> QED
      BY <2>5, <3>1, <3>2
  <2>7. stack' \in Seq(Int) /\ Built(e, m + 1)'
    BY <2>2, <2>4, <2>5, <2>6, PushesOne
  <2>8. CommonHeight[k + 1] = m + 1
    BY <1>5, <2>3 DEF CommonHeight
  <2>9. Built(e, CommonHeight[k + 1])'
    BY <2>7, <2>8
  <2> QED
    BY <1>1, <1>5, <2>2, <2>7, <2>9 DEF CommonAt, Kept
<1> QED
  BY <1>4, <1>5

\* and isr_common_handler reads the frame as struct regs, and halts.
LEMMA HandlerReads ==
  ASSUME NEW e \in Entry, e.cause = "fault", stack \in Seq(Int), Executes, CommonAt(e, 8)
  PROVE  /\ halted' = TRUE /\ iflag' = 0 /\ UNCHANGED <<reg, stack, eip, entered>>
         /\ Built(e, 18) /\ \A k \in 1 .. 17 : told'[k] = Word(e, 18 - k)
<1>1. Instruction = I("isr_common_handler", 0)
  <2>1. PICK k \in 1 .. 8 : k = 8
    OBVIOUS
  <2>2. CommonAt(e, k)
    BY <2>1
  <2>3. Instruction = CommonPath[k]
    BY <2>2, CommonFetch
  <2> QED
    BY <2>1, <2>3, CommonText
<1>2. PICK N \in Int, r \in Int : N = Len(stack) /\ r = Len(e.stack) + 17
  BY DEF Entry
<1>3. PICK m \in Nat \ {0} : m = 18 /\ Built(e, m)
  BY DEF CommonAt, CommonHeight
<1>4. Head(stack) = Word(e, m) /\ Len(stack) = Len(e.stack) + m
  BY <1>3, PopsOne
<1>5. Head(stack) = r /\ N = r + 1
  <2>1. Word(e, 18) = Len(e.stack) + 17
    BY FaultWords
  <2>2. PICK L \in Nat : L = Len(e.stack)
    BY DEF Entry
  <2>3. N = L + 18 /\ r = L + 17
    BY <1>2, <1>3, <1>4, <2>2
  <2> QED
    BY <1>2, <1>3, <1>4, <2>1, <2>3
<1>6. /\ told' = SubSeq(stack, Len(stack) - Head(stack) + 1, Len(stack) - Head(stack) + Len(regs))
      /\ halted' = TRUE /\ iflag' = 0 /\ UNCHANGED <<reg, stack, eip, entered>>
  BY <1>1, Others
<1>7. told' = SubSeq(stack, 2, 18)
  <2>1. Len(regs) = 17
    BY DEF regs
  <2>2. Len(stack) - Head(stack) + 1 = 2 /\ Len(stack) - Head(stack) + Len(regs) = 18
    BY <1>2, <1>5, <2>1
  <2> QED
    BY <1>6, <2>2
<1>8. \A k \in 1 .. 17 : told'[k] = stack[k + 1]
  BY <1>7
<1>9. \A k \in 1 .. 18 : stack[k] = Word(e, 19 - k)
  <2>1. PICK b \in Seq(Int) : b = e.stack
    BY DEF Entry
  <2>2. Holds(stack, b, e, m)
    BY <1>3, <2>1 DEF Built
  <2>3. \A k \in 1 .. m : stack[k] = Word(e, m + 1 - k)
    BY <2>2, OnTop
  <2>4. \A k \in 1 .. 18 : k \in 1 .. m /\ m + 1 - k = 19 - k
    BY <1>3
  <2> QED
    BY <2>3, <2>4
<1>10. \A k \in 1 .. 17 : k + 1 \in 1 .. 18 /\ 19 - (k + 1) = 18 - k
  OBVIOUS
<1>11. \A k \in 1 .. 17 : told'[k] = Word(e, 18 - k)
  BY <1>8, <1>9, <1>10
<1> QED
  BY <1>3, <1>6, <1>11

(***************************************************************************)
(* Entering the kernel                                                     *)
(***************************************************************************)
\* The state the CPU is in at the first instruction of a stub.
Begun(e, v, h) ==
  /\ e.reg = reg /\ e.stack = stack /\ e.eip = eip /\ e.iflag = iflag /\ e.vector = v
  /\ entered' = <<e>> \o entered /\ eip' = Address(v) + (1 - 1) /\ iflag' = 0
  /\ stack' \in Seq(Int) /\ Built(e, h)' /\ UNCHANGED <<reg, halted>> /\ ~halted

\* Nothing of an entry is on the stack it was made over.
LEMMA NothingYet ==
  ASSUME NEW s \in Seq(Int), NEW e
  PROVE  Holds(s, s, e, 0)
  BY DEF Holds

\* The frames of the CPU, without an error code and with one.
LEMMA Frames ==
  \A a, b, c, d \in Int :
    /\ <<b, c, d>> \in Seq(Int) /\ <<a, b, c, d>> \in Seq(Int)
    /\ <<a, b, c, d>> = <<a>> \o <<b, c, d>>
  OBVIOUS

\* What the CPU pushes are the first words of the entry,
LEMMA Entered ==
  ASSUME reg \in [Registers -> Int], stack \in Seq(Int), iflag \in {0, 1}, eip \in Int,
         NEW v \in 0 .. 47, NEW cause \in {"irq", "fault"}, NEW error \in Int,
         Enter(v, <<>>, cause, error)
  PROVE  \E e \in Entry : e.cause = cause /\ e.error = error /\ Begun(e, v, 3)
<1>1. PICK e : e = [reg |-> reg, stack |-> stack, eip |-> eip, iflag |-> iflag,
                    vector |-> v, cause |-> cause, error |-> error]
  OBVIOUS
<1>2. e \in Entry
  BY <1>1 DEF Entry
<1>3. /\ e.reg = reg /\ e.stack = stack /\ e.eip = eip /\ e.iflag = iflag
      /\ e.vector = v /\ e.cause = cause /\ e.error = error
  BY <1>1
<1>4. entered' = <<e>> \o entered /\ UNCHANGED <<reg, halted>> /\ ~halted
  BY <1>1 DEF Enter
<1>5. eip' = Address(v) + (1 - 1) /\ iflag' = 0
  <2>1. v \in 0 .. 47
    OBVIOUS
  <2>2. GateOf(v) = Address(v) /\ idt[v].flags = 142
    BY <2>1, Gate
  <2>3. eip' = GateOf(v) /\ iflag' = IF idt[v].flags = 142 THEN 0 ELSE iflag
    BY SMT DEF Enter, GateOf
  <2>4. Address(v) \in Int
    BY SMT DEF Address, Image
  <2> QED
    BY <2>2, <2>3, <2>4
<1>6. PICK t \in Seq(Int) : t = <<eip, KERNEL_CODE, iflag>>
  <2>1. KERNEL_CODE \in Int /\ iflag \in Int
    BY DEF KERNEL_CODE
  <2> QED
    BY <2>1, Frames
<1>7. stack' = t \o stack
  BY <1>6, SMT DEF Enter
<1>8. NextWords(t, e, 0, 3)
  BY <1>3, <1>6 DEF NextWords, Word
<1>9. Holds(stack, stack, e, 0)
  BY NothingYet
<1>10. t \o stack \in Seq(Int) /\ Holds(t \o stack, stack, e, 0 + 3)
  BY <1>8, <1>9, Pushed
<1>11. stack' \in Seq(Int) /\ Built(e, 3)'
  BY <1>3, <1>7, <1>10 DEF Built
<1> QED
  BY <1>2, <1>3, <1>4, <1>5, <1>11 DEF Begun

\* and so they are with an error code.
LEMMA EnteredWithCode ==
  ASSUME reg \in [Registers -> Int], stack \in Seq(Int), iflag \in {0, 1}, eip \in Int,
         NEW v \in 0 .. 31, Enter(v, <<v>>, "fault", v)
  PROVE  \E e \in Entry : e.cause = "fault" /\ e.error = v /\ Begun(e, v, 4)
<1>1. PICK e : e = [reg |-> reg, stack |-> stack, eip |-> eip, iflag |-> iflag,
                    vector |-> v, cause |-> "fault", error |-> v]
  OBVIOUS
<1>2. e \in Entry
  <2>1. v \in 0 .. 47 /\ v \in Int /\ "fault" \in {"irq", "fault"}
    OBVIOUS
  <2> QED
    BY <1>1, <2>1 DEF Entry
<1>3. /\ e.reg = reg /\ e.stack = stack /\ e.eip = eip /\ e.iflag = iflag
      /\ e.vector = v /\ e.cause = "fault" /\ e.error = v
  BY <1>1
<1>4. entered' = <<e>> \o entered /\ UNCHANGED <<reg, halted>> /\ ~halted
  BY <1>1 DEF Enter
<1>5. eip' = Address(v) + (1 - 1) /\ iflag' = 0
  <2>1. v \in 0 .. 47
    OBVIOUS
  <2>2. GateOf(v) = Address(v) /\ idt[v].flags = 142
    BY <2>1, Gate
  <2>3. eip' = GateOf(v) /\ iflag' = IF idt[v].flags = 142 THEN 0 ELSE iflag
    BY SMT DEF Enter, GateOf
  <2>4. Address(v) \in Int
    BY SMT DEF Address, Image
  <2> QED
    BY <2>2, <2>3, <2>4
<1>6. PICK t \in Seq(Int) : /\ t = <<v, eip, KERNEL_CODE, iflag>>
                            /\ t = <<v>> \o <<eip, KERNEL_CODE, iflag>>
  <2>1. v \in Int /\ KERNEL_CODE \in Int /\ iflag \in Int
    BY DEF KERNEL_CODE
  <2>2. PICK c \in Int, i \in Int : c = KERNEL_CODE /\ i = iflag
    BY <2>1
  <2>3. PICK a \in Int, d \in Int : a = v /\ d = eip
    BY <2>1
  <2>4. <<a, d, c, i>> \in Seq(Int)
    BY Frames, Zenon
  <2>5. <<a, d, c, i>> = <<a>> \o <<d, c, i>>
    BY SMT
  <2> QED
    BY <2>2, <2>3, <2>4, <2>5
<1>7. stack' = t \o stack
  <2>1. stack' = (<<v>> \o <<eip, KERNEL_CODE, iflag>>) \o stack
    BY SMT DEF Enter
  <2> QED
    BY <1>6, <2>1
<1>8. NextWords(t, e, 0, 4)
  BY <1>3, <1>6 DEF NextWords, Word, Before
<1>9. Holds(stack, stack, e, 0)
  BY NothingYet
<1>10. t \o stack \in Seq(Int) /\ Holds(t \o stack, stack, e, 0 + 4)
  BY <1>8, <1>9, Pushed
<1>11. stack' \in Seq(Int) /\ Built(e, 4)'
  BY <1>3, <1>7, <1>10 DEF Built
<1> QED
  BY <1>2, <1>3, <1>4, <1>5, <1>11 DEF Begun

(***************************************************************************)
(* The invariant                                                           *)
(***************************************************************************)
\* The invariant holds when the kernel starts.
LEMMA InitInv == Init => IInv
<1> SUFFICES ASSUME Init
             PROVE  IInv
  OBVIOUS
<1>1. reg \in [Registers -> Int]
  <2>1. \A r \in Range(GPRs) : (CHOOSE k \in DOMAIN GPRs : GPRs[k] = r) \in Int
    <3> SUFFICES ASSUME NEW r \in Range(GPRs)
                 PROVE  (CHOOSE k \in DOMAIN GPRs : GPRs[k] = r) \in Int
      OBVIOUS
    <3>1. \E k \in DOMAIN GPRs : GPRs[k] = r
      BY DEF Range
    <3>2. DOMAIN GPRs \subseteq Int
      BY Names
    <3> QED
      BY <3>1, <3>2
  <2>2. KERNEL_DATA \in Int
    BY DEF KERNEL_DATA
  <2>3. \A r \in Registers : r \in Range(GPRs) \/ r \in Range(Segments)
    BY Names
  <2>4. reg = [r \in Registers |-> IF r \in Range(Segments) THEN KERNEL_DATA
                                   ELSE CHOOSE k \in DOMAIN GPRs : GPRs[k] = r]
    BY Names DEF Init
  <2> QED
    BY <2>1, <2>2, <2>3, <2>4
<1>2. stack = Callers /\ Callers \in Seq(Int)
  BY DEF Init, Callers
<1>3. iflag \in {0, 1} /\ halted = FALSE /\ entered = <<>> /\ eip = Address(Kernel)
  BY DEF Init
<1>4. InKernel
  BY <1>2, <1>3 DEF InKernel
<1>5. entered \in Seq(Entry)
  BY <1>3
<1> QED
  BY <1>1, <1>2, <1>3, <1>4, <1>5 DEF IInv

\* The interrupted code goes on.
LEMMA KernelKeeps ==
  ASSUME IInv, entered = <<>>, Executes
  PROVE  IInv' /\ entered' = entered
<1>1. InKernel
  BY DEF IInv
<1>2. PICK r \in 0 .. 51 : r = Kernel
  BY DEF Kernel
<1>3. PICK k \in 1 .. 99 : k \in 1 .. 2 /\ eip = Address(r) + (k - 1)
  <2>1. Address(r) \in Int
    BY SMT DEF Address, Image
  <2>2. eip = Address(r) \/ eip = Address(r) + 1
    BY <1>1, <1>2 DEF InKernel
  <2>3. eip = Address(r) + (1 - 1) \/ eip = Address(r) + (2 - 1)
    BY <2>1, <2>2
  <2> QED
    BY <2>3
<1>4. Instruction = I("run", 0)
  <2>1. Instruction = Program(r)[k]
    BY <1>3, Fetch
  <2>2. Program(r) = <<I("run", 0), I("run", 0)>>
    BY <1>2, Routine
  <2> QED
    BY <1>3, <2>1, <2>2
<1>5. /\ eip' = IF eip = Address(Kernel) THEN eip + 1 ELSE Address(Kernel)
      /\ iflag' \in {0, 1} /\ UNCHANGED <<reg, stack, entered, told, halted>>
  BY <1>4, Others
<1>6. InKernel'
  BY <1>1, <1>5 DEF InKernel
<1> QED
  BY <1>5, <1>6 DEF IInv

\* What is left of the invariant while a stub runs.
LEMMA StillRunning ==
  ASSUME IInv, Kept, NEW e \in Entry, entered # <<>>, entered[1] = e,
         InIrq(e)' \/ InFault(e)'
  PROVE  IInv'
<1>1. entered # <<>> /\ entered[1] = e
  OBVIOUS
<1>2. entered' = entered /\ iflag' = iflag /\ halted' = halted
  BY DEF Kept
<1>3. iflag = 0 /\ entered \in Seq(Entry) /\ halted \in BOOLEAN
  BY <1>1 DEF IInv
<1>4. InIrq(entered[1])' \/ InFault(entered[1])'
  BY <1>1, <1>2
<1> QED
  BY <1>1, <1>2, <1>3, <1>4 DEF IInv, Kept

\* The stub of an interrupt runs on, or returns to the code it interrupted.
LEMMA IrqKeeps ==
  ASSUME IInv, NEW e \in Entry, entered # <<>>, entered[1] = e, InIrq(e), Executes
  PROVE  /\ IInv'
         /\ \/ entered' = entered
            \/ reg' = e.reg /\ stack' = e.stack /\ eip' = e.eip /\ iflag' = e.iflag
<1>1. stack \in Seq(Int) /\ reg \in [Registers -> Int]
  BY DEF IInv
<1>2. e.cause = "irq" /\ e.vector \in 32 .. 47
  BY DEF InIrq
<1>3. PICK k \in 1 .. 15 : IrqAt(e, k)
  BY DEF InIrq
<1>4. CASE k \in 1 .. 14
  <2>1. Kept /\ \E j \in 1 .. 15 : IrqAt(e, j)'
    <3>1. CASE k \in 1 .. 5
      <4>1. Kept /\ IrqAt(e, k + 1)'
        BY <1>1, <1>2, <1>3, <3>1, IrqSaves
      <4>2. k + 1 \in 1 .. 15
        BY <3>1
      <4> QED
        BY <4>1, <4>2
    <3>2. CASE k \in 6 .. 9
      <4>1. Kept /\ IrqAt(e, k + 1)'
        BY <1>1, <1>2, <1>3, <3>2, IrqCalls
      <4>2. k + 1 \in 1 .. 15
        BY <3>2
      <4> QED
        BY <4>1, <4>2
    <3>3. CASE k \in 10 .. 13
      <4>1. Kept /\ IrqAt(e, k + 1)'
        BY <1>1, <1>2, <1>3, <3>3, IrqRestores
      <4>2. k + 1 \in 1 .. 15
        BY <3>3
      <4> QED
        BY <4>1, <4>2
    <3>4. CASE k = 14
      <4>1. Kept /\ IrqAt(e, 15)'
        BY <1>1, <1>2, <1>3, <3>4, IrqPopa
      <4>2. 15 \in 1 .. 15
        OBVIOUS
      <4> QED
        BY <4>1, <4>2
    <3> QED
      BY <1>4, <3>1, <3>2, <3>3, <3>4
  <2>2. InIrq(e)'
    <3>1. entered' = entered /\ halted' = halted
      BY <2>1 DEF Kept
    <3> QED
      BY <2>1, <3>1 DEF InIrq
  <2>3. IInv'
    BY <2>1, <2>2, StillRunning
  <2>4. entered' = entered
    BY <2>1 DEF Kept
  <2> QED
    BY <2>3, <2>4
<1>5. CASE k = 15
  <2>1. /\ reg' = e.reg /\ stack' = e.stack /\ eip' = e.eip /\ iflag' = e.iflag
        /\ entered' = Tail(entered) /\ UNCHANGED <<told, halted>>
    BY <1>1, <1>2, <1>3, <1>5, IrqReturns
  <2>2. /\ e.eip \in {Address(Kernel), Address(Kernel) + 1} /\ e.stack = Callers
        /\ entered = <<e>> /\ ~halted
    BY DEF InIrq
  <2>3. entered' = <<>>
    BY <2>1, <2>2
  <2>4. InKernel'
    BY <2>1, <2>2 DEF InKernel
  <2>5. e.reg \in [Registers -> Int] /\ e.stack \in Seq(Int) /\ e.iflag \in {0, 1}
    BY DEF Entry
  <2>6. reg' \in [Registers -> Int] /\ stack' \in Seq(Int) /\ iflag' \in {0, 1}
    BY <2>1, <2>5
  <2>7. entered' \in Seq(Entry)
    BY <2>3
  <2>8. halted' \in BOOLEAN
    BY <2>1 DEF IInv
  <2> QED
    BY <2>1, <2>3, <2>4, <2>6, <2>7, <2>8 DEF IInv
<1> QED
  BY <1>4, <1>5

\* The code of an exception runs on until the machine halts.
LEMMA FaultKeeps ==
  ASSUME IInv, NEW e \in Entry, entered # <<>>, entered[1] = e, InFault(e), Executes
  PROVE  IInv' /\ entered' = entered
<1>1. stack \in Seq(Int) /\ reg \in [Registers -> Int] /\ iflag = 0 /\ entered \in Seq(Entry)
  BY DEF IInv
<1>2. /\ e.cause = "fault" /\ e.vector \in 0 .. 31
      /\ e.vector \in ISR_ERR => e.error = e.vector
      /\ e.vector \notin ISR_ERR => e.error = 0
      /\ Len(entered) \in 1 .. 2 /\ Len(e.stack) <= Len(Callers) + 16 * (Len(entered) - 1)
  BY DEF InFault
<1>3. ~halted
  BY DEF Executes, Run, Cli, Jmp, Push, LoadSegments, AddEsp, PopSegment, Popa, Iret,
         irq_dispatch, isr_common_handler, Op
<1>4. ASSUME Kept, InStub(e)' \/ \E k \in 1 .. 8 : CommonAt(e, k)'
      PROVE  IInv' /\ entered' = entered
  <2>1. entered' = entered /\ halted' = halted
    BY <1>4 DEF Kept
  <2>2. InFault(e)'
    BY <1>2, <1>3, <1>4, <2>1 DEF InFault
  <2>3. IInv'
    BY <1>4, <2>2, StillRunning
  <2> QED
    BY <2>1, <2>3
<1>5. CASE InStub(e)
  <2>1. Kept /\ (InStub(e)' \/ CommonAt(e, 1)')
    BY <1>1, <1>2, <1>5, StubRuns
  <2> QED
    BY <1>4, <2>1
<1>6. ASSUME NEW k \in 1 .. 8, CommonAt(e, k)
      PROVE  IInv' /\ entered' = entered
  <2>1. CASE k \in 1 .. 5
    <3>1. Kept /\ CommonAt(e, k + 1)'
      BY <1>1, <1>2, <1>6, <2>1, CommonSaves
    <3>2. k + 1 \in 1 .. 8
      BY <2>1
    <3> QED
      BY <1>4, <3>1, <3>2
  <2>2. CASE k \in 6 .. 7
    <3>1. Kept /\ CommonAt(e, k + 1)'
      BY <1>1, <1>2, <1>6, <2>2, CommonCalls
    <3>2. k + 1 \in 1 .. 8
      BY <2>2
    <3> QED
      BY <1>4, <3>1, <3>2
  <2>3. CASE k = 8
    <3>1. /\ halted' = TRUE /\ iflag' = 0 /\ UNCHANGED <<reg, stack, eip, entered>>
          /\ Built(e, 18) /\ \A j \in 1 .. 17 : told'[j] = Word(e, 18 - j)
      BY <1>1, <1>2, <1>6, <2>3, HandlerReads
    <3>2. Built(e, 18)'
      BY <3>1 DEF Built
    <3>3. InFault(e)'
      BY <1>2, <3>1, <3>2 DEF InFault
    <3>4. InFault(entered[1])' /\ entered' # <<>>
      BY <3>1, <3>3
    <3>5. IInv'
      BY <1>1, <3>1, <3>4 DEF IInv
    <3> QED
      BY <3>1, <3>5
  <2> QED
    BY <2>1, <2>2, <2>3
<1> QED
  BY <1>3, <1>5, <1>6 DEF InFault

\* Where an exception or an interrupt may come: in the kernel, or in the
\* stub of an interrupt.
LEMMA Interruptible ==
  ASSUME IInv, ~halted, \A k \in DOMAIN entered : entered[k].cause = "irq"
  PROVE  /\ eip \in Int /\ Len(entered) \in 0 .. 1
         /\ Len(stack) <= Len(Callers) + 16 * Len(entered)
<1>1. entered \in Seq(Entry) /\ stack \in Seq(Int) /\ Len(Callers) = 2
  BY DEF IInv, Callers
<1>2. CASE entered = <<>>
  <2>1. InKernel
    BY <1>2 DEF IInv
  <2>2. Address(Kernel) \in Int
    BY SMT DEF Address, Image, Kernel
  <2>3. eip \in Int
    BY <2>1, <2>2 DEF InKernel
  <2>4. stack = Callers /\ Len(entered) = 0
    BY <1>2, <2>1 DEF InKernel
  <2>5. Len(stack) = 2
    BY <1>1, <2>4
  <2>6. Len(stack) <= Len(Callers) + 16 * Len(entered)
    <3>1. Len(Callers) = 2 /\ Len(entered) = 0
      BY <1>1, <2>4
    <3> QED
      BY <2>5, <3>1
  <2> QED
    BY <2>3, <2>4, <2>6
<1>3. CASE entered # <<>>
  <2>1. 1 \in DOMAIN entered
    BY <1>1, <1>3
  <2>2. PICK e \in Entry : e = entered[1]
    BY <1>1, <2>1
  <2>3. InIrq(e)
    <3>1. e.cause = "irq"
      BY <2>1, <2>2
    <3>2. ~InFault(e)
      BY <3>1 DEF InFault
    <3> QED
      BY <1>3, <2>2, <3>2 DEF IInv
  <2>4. PICK k \in 1 .. 15 : IrqAt(e, k)
    BY <2>3 DEF InIrq
  <2>5. entered = <<e>> /\ e.stack = Callers /\ e.vector \in 32 .. 47
    BY <2>3 DEF InIrq
  <2>6. eip \in Int
    <3>1. PICK v \in 32 .. 47 : v = e.vector
      BY <2>5
    <3>2. Address(v) \in Int
      BY SMT DEF Address, Image
    <3>3. eip = Address(v) + (k - 1)
      BY <2>4, <3>1 DEF IrqAt
    <3> QED
      BY <3>2, <3>3
  <2>7. PICK h \in 0 .. 16 : h = IrqHeight[k]
    BY DEF IrqHeight
  <2>8. Len(stack) = Len(e.stack) + h
    BY <2>4, <2>7 DEF IrqAt, Built, Holds
  <2>9. Len(entered) = 1
    BY <2>5
  <2>10. Len(stack) = 2 + h
    BY <1>1, <2>5, <2>8
  <2>11. Len(stack) <= Len(Callers) + 16 * Len(entered)
    BY <1>1, <2>9, <2>10
  <2> QED
    BY <2>6, <2>9, <2>11
<1> QED
  BY <1>2, <1>3

\* The first instruction of the stub of an exception.
LEMMA FaultBegins ==
  ASSUME IInv, Len(entered) \in 0 .. 1, Len(stack) <= Len(Callers) + 16 * Len(entered),
         NEW v \in 0 .. 31, NEW e \in Entry, e.cause = "fault", NEW h \in 3 .. 4, Begun(e, v, h),
         v \in ISR_ERR => h = 4 /\ e.error = v, v \notin ISR_ERR => h = 3 /\ e.error = 0
  PROVE  IInv'
<1>1. /\ e.reg = reg /\ e.stack = stack /\ e.eip = eip /\ e.iflag = iflag /\ e.vector = v
      /\ entered' = <<e>> \o entered /\ eip' = Address(v) + (1 - 1) /\ iflag' = 0
      /\ stack' \in Seq(Int) /\ Built(e, h)' /\ UNCHANGED <<reg, halted>> /\ ~halted
  BY DEF Begun
<1>2. entered \in Seq(Entry) /\ reg \in [Registers -> Int] /\ halted \in BOOLEAN
  BY DEF IInv
<1>3. /\ entered' \in Seq(Entry) /\ entered' # <<>> /\ entered'[1] = e
      /\ Len(entered') = Len(entered) + 1
  BY <1>1, <1>2
<1>4. InStub(e)'
  <2>1. StubAt(e, 1, h)'
    BY <1>1 DEF StubAt
  <2> QED
    BY <1>1, <2>1 DEF InStub
<1>5. Len(entered') \in 1 .. 2 /\ Len(e.stack) <= Len(Callers) + 16 * (Len(entered') - 1)
  <2>1. PICK N \in 0 .. 1 : N = Len(entered)
    OBVIOUS
  <2>2. Len(entered') = N + 1 /\ Len(entered') - 1 = N
    BY <1>3, <2>1
  <2>3. Len(e.stack) <= Len(Callers) + 16 * N
    BY <1>1, <2>1
  <2> QED
    BY <2>2, <2>3
<1>6. InFault(e)'
  BY <1>1, <1>4, <1>5 DEF InFault
<1>7. InFault(entered[1])'
  BY <1>3, <1>6
<1> QED
  BY <1>1, <1>2, <1>3, <1>7 DEF IInv

\* An exception, in the kernel or in the stub of an interrupt.
LEMMA ExceptionKeeps ==
  ASSUME IInv, NEW v \in Exceptions, Exception(v)
  PROVE  IInv' /\ Len(entered') = Len(entered) + 1
<1>1. PICK x \in 0 .. 31 : x = v
  BY TrapAssumption
<1>2. ~halted /\ \A k \in DOMAIN entered : entered[k].cause = "irq"
  BY DEF Exception, Enter
<1>3. /\ eip \in Int /\ Len(entered) \in 0 .. 1
      /\ Len(stack) <= Len(Callers) + 16 * Len(entered)
  BY <1>2, Interruptible
<1>4. /\ reg \in [Registers -> Int] /\ stack \in Seq(Int) /\ iflag \in {0, 1}
      /\ entered \in Seq(Entry)
  BY DEF IInv
<1>5. CASE x \in ISR_ERR
  <2>1. Enter(x, <<x>>, "fault", x)
    BY <1>1, <1>5 DEF Exception, HasCode, ISR_ERR
  <2>2. PICK e \in Entry : e.cause = "fault" /\ e.error = x /\ Begun(e, x, 4)
    BY <1>3, <1>4, <2>1, EnteredWithCode
  <2>3. PICK h \in 3 .. 4 : h = 4
    OBVIOUS
  <2>4. IInv'
    BY <1>3, <1>5, <2>2, <2>3, FaultBegins
  <2>5. entered' = <<e>> \o entered
    BY <2>2 DEF Begun
  <2> QED
    BY <1>4, <2>4, <2>5
<1>6. CASE x \notin ISR_ERR
  <2>1. Enter(x, <<>>, "fault", 0)
    BY <1>1, <1>6 DEF Exception, HasCode, ISR_ERR
  <2>2. PICK e \in Entry : e.cause = "fault" /\ e.error = 0 /\ Begun(e, x, 3)
    <3>1. x \in 0 .. 47 /\ "fault" \in {"irq", "fault"} /\ 0 \in Int
      OBVIOUS
    <3> QED
      BY <1>3, <1>4, <2>1, <3>1, Entered, Zenon
  <2>3. PICK h \in 3 .. 4 : h = 3
    OBVIOUS
  <2>4. IInv'
    BY <1>3, <1>6, <2>2, <2>3, FaultBegins
  <2>5. entered' = <<e>> \o entered
    BY <2>2 DEF Begun
  <2> QED
    BY <1>4, <2>4, <2>5
<1> QED
  BY <1>5, <1>6

\* An interrupt, which finds the CPU in the kernel: the stubs run with IF clear.
LEMMA InterruptKeeps ==
  ASSUME IInv, NEW n \in Irqs, Interrupt(n)
  PROVE  IInv' /\ Len(entered') = Len(entered) + 1
<1>1. PICK v \in 32 .. 47 : v = 32 + n
  BY TrapAssumption
<1>2. iflag = 1 /\ Enter(v, <<>>, "irq", 0) /\ ~halted
  BY <1>1 DEF Interrupt, Enter
<1>3. entered = <<>> /\ InKernel
  BY <1>2 DEF IInv
<1>4. eip \in Int
  BY <1>2, <1>3, Interruptible
<1>5. reg \in [Registers -> Int] /\ stack \in Seq(Int) /\ iflag \in {0, 1} /\ halted \in BOOLEAN
  BY DEF IInv
<1>6. PICK e \in Entry : e.cause = "irq" /\ Begun(e, v, 3)
  <2>1. v \in 0 .. 47 /\ "irq" \in {"irq", "fault"} /\ 0 \in Int
    OBVIOUS
  <2> QED
    BY <1>2, <1>4, <1>5, <2>1, Entered, Zenon
<1>7. /\ e.reg = reg /\ e.stack = stack /\ e.eip = eip /\ e.iflag = iflag /\ e.vector = v
      /\ entered' = <<e>> \o entered /\ eip' = Address(v) + (1 - 1) /\ iflag' = 0
      /\ stack' \in Seq(Int) /\ Built(e, 3)' /\ UNCHANGED <<reg, halted>>
  BY <1>6 DEF Begun
<1>8. entered' = <<e>>
  BY <1>3, <1>7
<1>9. entered' \in Seq(Entry) /\ entered' # <<>> /\ entered'[1] = e /\ Len(entered') = 1
  BY <1>8
<1>10. IrqAt(e, 1)'
  <2>1. IrqHeight[1] = 3
    BY DEF IrqHeight
  <2> QED
    BY <1>7, <2>1 DEF IrqAt
<1>11. InIrq(e)'
  <2>1. e.eip \in {Address(Kernel), Address(Kernel) + 1} /\ e.stack = Callers
    BY <1>3, <1>7 DEF InKernel
  <2>2. 1 \in 1 .. 15
    OBVIOUS
  <2> QED
    BY <1>2, <1>6, <1>7, <1>8, <1>10, <2>1, <2>2 DEF InIrq
<1>12. InIrq(entered[1])'
  BY <1>9, <1>11
<1>13. Len(entered) = 0
  BY <1>3
<1> QED
  BY <1>5, <1>7, <1>9, <1>12, <1>13 DEF IInv

\* Every step keeps the invariant, and only iret leaves an entry, with the
\* CPU as it was before it.
LEMMA NextInv ==
  ASSUME IInv, Next
  PROVE  /\ IInv'
         /\ Len(entered') < Len(entered) =>
              /\ reg' = entered[1].reg /\ stack' = entered[1].stack
              /\ eip' = entered[1].eip /\ iflag' = entered[1].iflag
<1>1. entered \in Seq(Entry) /\ Len(entered) \in Int
  BY DEF IInv
<1>2. ASSUME NEW v \in Exceptions, Exception(v)
      PROVE  IInv' /\ Len(entered') = Len(entered) + 1
  BY <1>2, ExceptionKeeps
<1>3. ASSUME NEW n \in Irqs, Interrupt(n)
      PROVE  IInv' /\ Len(entered') = Len(entered) + 1
  BY <1>3, InterruptKeeps
<1>4. CASE Executes
  <2>1. CASE entered = <<>>
    <3>1. IInv' /\ entered' = entered
      BY <1>4, <2>1, KernelKeeps
    <3> QED
      BY <1>1, <3>1
  <2>2. CASE entered # <<>>
    <3>1. PICK e \in Entry : e = entered[1]
      BY <1>1, <2>2
    <3>2. CASE InIrq(e)
      <4>1. /\ IInv'
            /\ \/ entered' = entered
               \/ reg' = e.reg /\ stack' = e.stack /\ eip' = e.eip /\ iflag' = e.iflag
        BY <1>4, <2>2, <3>1, <3>2, IrqKeeps
      <4> QED
        BY <1>1, <3>1, <4>1
    <3>3. CASE InFault(e)
      <4>1. IInv' /\ entered' = entered
        BY <1>4, <2>2, <3>1, <3>3, FaultKeeps
      <4> QED
        BY <1>1, <4>1
    <3>4. InIrq(e) \/ InFault(e)
      BY <2>2, <3>1 DEF IInv
    <3> QED
      BY <3>2, <3>3, <3>4
  <2> QED
    BY <2>1, <2>2
<1>5. \/ Executes
      \/ \E v \in Exceptions : Exception(v)
      \/ \E n \in Irqs : Interrupt(n)
  BY DEF Next, Executes
<1> QED
  BY <1>1, <1>2, <1>3, <1>4, <1>5

\* The invariant does not depend on anything outside vars.
LEMMA StutterInv ==
  ASSUME IInv, UNCHANGED vars
  PROVE  IInv'
<1>1. /\ reg' = reg /\ stack' = stack /\ eip' = eip /\ iflag' = iflag
      /\ entered' = entered /\ told' = told /\ halted' = halted
  BY DEF vars
<1>2. \A e, m : Built(e, m) => Built(e, m)'
  BY <1>1 DEF Built
<1>3. \A e, k : IrqAt(e, k) => IrqAt(e, k)'
  BY <1>1, <1>2 DEF IrqAt
<1>4. \A e, k, h : StubAt(e, k, h) => StubAt(e, k, h)'
  BY <1>1, <1>2 DEF StubAt
<1>5. \A e, k : CommonAt(e, k) => CommonAt(e, k)'
  BY <1>1, <1>2 DEF CommonAt
<1>6. \A e : InStub(e) => InStub(e)'
  BY <1>4 DEF InStub
<1>7. \A e : InIrq(e) => InIrq(e)'
  BY <1>1, <1>3 DEF InIrq
<1>8. \A e : InFault(e) => InFault(e)'
  BY <1>1, <1>2, <1>5, <1>6 DEF InFault
<1>9. InKernel => InKernel'
  BY <1>1 DEF InKernel
<1> QED
  BY <1>1, <1>7, <1>8, <1>9 DEF IInv

\* A field of struct regs is the word at its place.
LEMMA FieldAt ==
  ASSUME NEW p \in 1 .. 17, NEW name, name = regs[p]
  PROVE  Field(name) = told[p]
<1>1. DOMAIN regs = 1 .. 17
  BY DEF regs
<1>2. \A j, k \in 1 .. 17 : regs[j] = regs[k] => j = k
  BY DEF regs
<1>3. (CHOOSE k \in DOMAIN regs : regs[k] = name) = p
  BY <1>1, <1>2
<1> QED
  BY <1>3 DEF Field

(***************************************************************************)
(* The theorems                                                            *)
(***************************************************************************)
\* At every step the stack is that of the interrupted code with the words the
\* stub has pushed, in their order, and each register still to be restored is
\* among them.
THEOREM TrapInvariant == Spec => []IInv
<1>1. IInv /\ [Next]_vars => IInv'
  BY NextInv, StutterInv
<1> QED
  BY <1>1, InitInv, PTL DEF Spec

\* How many words an entry has on the stack.
LEMMA Heights ==
  ASSUME IInv, entered # <<>>, NEW e \in Entry, e = entered[1]
  PROVE  \E m \in 0 .. 18 : Len(stack) = Len(e.stack) + m
<1>1. InIrq(e) \/ InFault(e)
  BY DEF IInv
<1>2. CASE InIrq(e)
  <2>1. PICK k \in 1 .. 15 : IrqAt(e, k)
    BY <1>2 DEF InIrq
  <2>2. PICK h \in 0 .. 18 : h = IrqHeight[k]
    BY DEF IrqHeight
  <2>3. Len(stack) = Len(e.stack) + h
    BY <2>1, <2>2 DEF IrqAt, Built, Holds
  <2> QED
    BY <2>3
<1>3. CASE InFault(e)
  <2>1. \E m \in 0 .. 18 : Built(e, m)
    <3>1. CASE InStub(e)
      BY <3>1 DEF InStub, StubAt
    <3>2. CASE \E k \in 1 .. 8 : CommonAt(e, k)
      <4>1. PICK k \in 1 .. 8 : CommonAt(e, k)
        BY <3>2
      <4>2. CommonHeight[k] \in 0 .. 18
        BY DEF CommonHeight
      <4> QED
        BY <4>1, <4>2 DEF CommonAt
    <3>3. CASE Built(e, 18)
      BY <3>3
    <3> QED
      BY <1>3, <3>1, <3>2, <3>3 DEF InFault
  <2> QED
    BY <2>1 DEF Built, Holds
<1> QED
  BY <1>1, <1>2, <1>3

\* Interrupts do not nest and an exception ends the machine, so the stack is
\* bounded by a frame of each.
THEOREM TrapTypes == Spec => []TypeOK
<1>1. IInv => TypeOK
  <2> SUFFICES ASSUME IInv
               PROVE  TypeOK
    OBVIOUS
  <2>1. /\ reg \in [(Range(GPRs) \ {"esp"}) \cup Range(Segments) -> Int] /\ iflag \in {0, 1}
        /\ entered \in Seq(Entry) /\ stack \in Seq(Int)
    BY Names DEF IInv
  <2>2. PICK c \in Nat : c = Len(Callers)
    BY DEF Callers
  <2>3. CASE entered = <<>>
    <3>1. stack = Callers
      BY <2>3 DEF IInv, InKernel
    <3>2. Len(entered) = 0 /\ Len(stack) = c
      BY <2>2, <2>3, <3>1
    <3>3. Len(entered) <= 2 /\ Len(stack) <= c + 16 * Len(entered) + 2
      BY <3>2
    <3> QED
      BY <2>1, <2>2, <3>3 DEF TypeOK
  <2>4. CASE entered # <<>>
    <3>1. PICK e \in Entry : e = entered[1]
      BY <2>1, <2>4
    <3>2. PICK m \in 0 .. 18 : Len(stack) = Len(e.stack) + m
      BY <2>4, <3>1, Heights
    <3>3. PICK L \in Nat : L = Len(e.stack)
      BY DEF Entry
    <3>4. PICK n \in 1 .. 2 : n = Len(entered) /\ L <= c + 16 * (n - 1)
      <4>1. CASE InIrq(e)
        <5>1. entered = <<e>> /\ e.stack = Callers
          BY <4>1 DEF InIrq
        <5>2. Len(entered) = 1 /\ L = c
          BY <2>2, <3>3, <5>1
        <5> QED
          BY <5>2
      <4>2. CASE InFault(e)
        <5>1. Len(entered) \in 1 .. 2 /\ Len(e.stack) <= Len(Callers) + 16 * (Len(entered) - 1)
          BY <4>2 DEF InFault
        <5> QED
          BY <2>2, <3>3, <5>1
      <4>3. InIrq(e) \/ InFault(e)
        BY <2>4, <3>1 DEF IInv
      <4> QED
        BY <4>1, <4>2, <4>3
    <3>5. Len(stack) <= c + 16 * n + 2
      BY <3>2, <3>3, <3>4
    <3>6. n <= 2
      OBVIOUS
    <3>7. Len(entered) <= 2 /\ Len(stack) <= Len(Callers) + 16 * Len(entered) + 2
      BY <2>2, <3>4, <3>5, <3>6, Zenon
    <3> QED
      BY <2>1, <3>7 DEF TypeOK
  <2> QED
    BY <2>3, <2>4
<1> QED
  BY <1>1, TrapInvariant, PTL

\* The code an interrupt comes into finds every register, its stack, eip and
\* IF as they were, whichever line asked and wherever it was.
THEOREM InterruptsInvisible == Spec => IrqTransparent
<1>1. IInv /\ [Next]_vars =>
        [Len(entered') < Len(entered) =>
           LET was == Head(entered)
           IN reg' = was.reg /\ stack' = was.stack /\ eip' = was.eip /\ iflag' = was.iflag]_vars
  <2> SUFFICES ASSUME IInv, Next, Len(entered') < Len(entered)
               PROVE  /\ reg' = Head(entered).reg /\ stack' = Head(entered).stack
                      /\ eip' = Head(entered).eip /\ iflag' = Head(entered).iflag
    OBVIOUS
  <2>1. IInv'
    BY NextInv
  <2>2. entered \in Seq(Entry) /\ entered' \in Seq(Entry)
    BY <2>1 DEF IInv
  <2>3. Head(entered) = entered[1]
    <3>1. Len(entered') \in Nat /\ Len(entered) \in Nat
      BY <2>2
    <3>2. entered # <<>>
      BY <2>2, <3>1
    <3> QED
      BY <2>2, <3>2
  <2>4. /\ reg' = entered[1].reg /\ stack' = entered[1].stack
        /\ eip' = entered[1].eip /\ iflag' = entered[1].iflag
    BY NextInv
  <2> QED
    BY <2>3, <2>4
<1> QED
  BY <1>1, TrapInvariant, PTL DEF Spec, IrqTransparent

\* The only add esp that is reached is the one behind irq_dispatch.
LEMMA AfterDispatch ==
  ASSUME IInv, Op("add_esp"), NEW e \in Entry, entered # <<>>, entered[1] = e
  PROVE  told = <<e.vector - 32>>
<1>1. ~halted /\ Instruction[1] = "add_esp"
  BY DEF Op
<1>2. CASE InIrq(e)
  <2>1. PICK k \in 1 .. 15 : IrqAt(e, k)
    BY <1>2 DEF InIrq
  <2>2. Instruction = irq(e.vector - 32)[k]
    BY <1>2, <2>1, IrqFetch DEF InIrq
  <2>3. k = 9
    <3>1. k \in {1, 2, 3, 4, 5, 6, 7, 8, 9, 10, 11, 12, 13, 14, 15}
      OBVIOUS
    <3>2. irq(e.vector - 32)[k][1] = "add_esp"
      BY <1>1, <2>2
    <3> QED
      BY <3>1, <3>2, IrqText DEF I
  <2> QED
    BY <2>1, <2>3 DEF IrqAt
<1>3. CASE InFault(e)
  <2>1. CASE InStub(e)
    <3>1. PICK v \in 0 .. 31 : v = e.vector
      BY <1>3 DEF InFault
    <3>2. PICK k \in 1 .. 4 : /\ eip = Address(v) + (k - 1)
                              /\ v \in ISR_ERR => k # 4
      BY <2>1, <3>1 DEF InStub, StubAt
    <3>3. k \in {1, 2, 3, 4}
      OBVIOUS
    <3>4. Instruction[1] \in {"cli", "push", "jmp"}
      <4>1. /\ k = 1 => Instruction = I("cli", 0)
            /\ v \in ISR_ERR => /\ k = 2 => Instruction = I("push", v)
                                /\ k = 3 => Instruction = I("jmp", Address(isr_common))
            /\ v \notin ISR_ERR => /\ k = 2 => Instruction = I("push", 0)
                                   /\ k = 3 => Instruction = I("push", v)
                                   /\ k = 4 => Instruction = I("jmp", Address(isr_common))
        BY <3>2, StubFetch
      <4>2. \E op \in {"cli", "push", "jmp"} : \E a : Instruction = I(op, a)
        BY <3>2, <3>3, <4>1
      <4> QED
        BY <4>2 DEF I
    <3> QED
      BY <1>1, <3>4
  <2>2. ASSUME NEW k \in 1 .. 8, CommonAt(e, k)
        PROVE  FALSE
    <3>1. Instruction = CommonPath[k]
      BY <2>2, CommonFetch
    <3>2. k \in {1, 2, 3, 4, 5, 6, 7, 8}
      OBVIOUS
    <3>3. CommonPath[k][1] # "add_esp"
      BY <3>2, CommonText DEF I
    <3> QED
      BY <1>1, <3>1, <3>3
  <2> QED
    BY <1>1, <1>3, <2>1, <2>2 DEF InFault
<1> QED
  BY <1>2, <1>3 DEF IInv

\* irq_dispatch is told the line whose vector the CPU entered through.
THEOREM LineTold == Spec => []IrqKnowsItsLine
<1>1. IInv => IrqKnowsItsLine
  <2> SUFFICES ASSUME IInv, entered # <<>>, Op("add_esp")
               PROVE  told = <<Head(entered).vector - 32>>
    BY DEF IrqKnowsItsLine
  <2>1. entered \in Seq(Entry)
    BY DEF IInv
  <2>2. PICK e \in Entry : e = entered[1] /\ e = Head(entered)
    BY <2>1
  <2>3. told = <<e.vector - 32>>
    BY <2>2, AfterDispatch
  <2> QED
    BY <2>2, <2>3
<1> QED
  BY <1>1, TrapInvariant, PTL

\* The words isr_common_handler was told, by the fields of struct regs.
LEMMA FieldsOfFrame ==
  ASSUME NEW e \in Entry, e.cause = "fault", \A k \in 1 .. 17 : told[k] = Word(e, 18 - k)
  PROVE  /\ Field("vector") = e.vector /\ Field("err_code") = e.error /\ Field("eip") = e.eip
         /\ Field("cs") = KERNEL_CODE /\ Field("eflags") = e.iflag
         /\ \A r \in Registers : Field(r) = e.reg[r]
<1>1. ASSUME NEW p \in 1 .. 17, NEW name, name = regs[p], NEW j \in 1 .. 17, j = 18 - p
      PROVE  Field(name) = Word(e, j)
  <2>1. Field(name) = told[p]
    BY <1>1, FieldAt
  <2> QED
    BY <1>1, <2>1
<1>2. /\ Word(e, 1) = e.iflag /\ Word(e, 2) = KERNEL_CODE /\ Word(e, 3) = e.eip
      /\ Word(e, 4) = e.error /\ Word(e, 5) = e.vector
      /\ Word(e, 14) = e.reg["ds"] /\ Word(e, 15) = e.reg["es"]
      /\ Word(e, 16) = e.reg["fs"] /\ Word(e, 17) = e.reg["gs"]
  BY FaultWords
<1>3. /\ Field("eflags") = Word(e, 1) /\ Field("cs") = Word(e, 2) /\ Field("eip") = Word(e, 3)
      /\ Field("err_code") = Word(e, 4) /\ Field("vector") = Word(e, 5)
  BY <1>1 DEF regs
<1>4. /\ Field("ds") = Word(e, 14) /\ Field("es") = Word(e, 15)
      /\ Field("fs") = Word(e, 16) /\ Field("gs") = Word(e, 17)
  BY <1>1 DEF regs
<1>5. /\ Field("eax") = Word(e, 6) /\ Field("ecx") = Word(e, 7) /\ Field("edx") = Word(e, 8)
      /\ Field("ebx") = Word(e, 9) /\ Field("ebp") = Word(e, 11) /\ Field("esi") = Word(e, 12)
      /\ Field("edi") = Word(e, 13)
  BY <1>1 DEF regs
<1>6. /\ Word(e, 6) = e.reg["eax"] /\ Word(e, 7) = e.reg["ecx"] /\ Word(e, 8) = e.reg["edx"]
      /\ Word(e, 9) = e.reg["ebx"] /\ Word(e, 11) = e.reg["ebp"] /\ Word(e, 12) = e.reg["esi"]
      /\ Word(e, 13) = e.reg["edi"]
  <2>1. Before(e) = 5
    BY FaultWords
  <2>2. \A i \in 1 .. 8 : i # 5 => Word(e, 5 + i) = e.reg[GPRs[i]]
    BY <2>1, SavedWords
  <2> QED
    BY <2>2 DEF GPRs
<1>7. \A r \in Registers : Field(r) = e.reg[r]
  BY <1>2, <1>4, <1>5, <1>6 DEF Registers
<1> QED
  BY <1>2, <1>3, <1>7

\* struct regs describes the frame of every exception: its vector, its error
\* code or the dummy one, the faulting instruction and every register.
THEOREM FrameIsRegs == Spec => []FrameMatchesRegs
<1>1. IInv => FrameMatchesRegs
  <2> SUFFICES ASSUME IInv, halted
               PROVE  FrameMatchesRegs
    BY DEF FrameMatchesRegs
  <2>1. entered \in Seq(Entry) /\ entered # <<>>
    BY DEF IInv, InKernel
  <2>2. PICK e \in Entry : e = entered[1] /\ e = Head(entered)
    BY <2>1
  <2>3. InFault(e)
    BY <2>1, <2>2 DEF IInv, InIrq
  <2>4. e.cause = "fault" /\ \A k \in 1 .. 17 : told[k] = Word(e, 18 - k)
    BY <2>3 DEF InFault
  <2>5. /\ Field("vector") = e.vector /\ Field("err_code") = e.error /\ Field("eip") = e.eip
        /\ Field("cs") = KERNEL_CODE /\ Field("eflags") = e.iflag
        /\ \A r \in Registers : Field(r) = e.reg[r]
    BY <2>4, FieldsOfFrame
  <2>6. DOMAIN e.reg = Registers
    BY DEF Entry
  <2> QED
    BY <2>2, <2>5, <2>6 DEF FrameMatchesRegs
<1> QED
  BY <1>1, TrapInvariant, PTL
=============================================================================
