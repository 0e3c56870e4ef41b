------------------------------- MODULE Traps -------------------------------
(***************************************************************************)
(* Entering and leaving the kernel's interrupt and exception code: the     *)
(* stubs of src/isr_stubs.s instruction by instruction, the frame they     *)
(* build, and struct regs (src/isr.h), through which isr_common_handler    *)
(* (src/isr.c) reads that frame.                                           *)
(*                                                                         *)
(* All of the kernel runs in ring 0, so an entry pushes no ss and esp.     *)
(* Words are integers.  A register holds a number of its own, which stands *)
(* for whatever is in it; esp is the number of words on the stack, whose   *)
(* first element is the one esp points to.                                 *)
(***************************************************************************)
EXTENDS Integers, Sequences, Functions

CONSTANTS Exceptions,  \* vectors in 0 .. 31 the CPU may raise
          Irqs         \* lines in 0 .. 15 a device may raise

ASSUME TrapAssumption == Exceptions \subseteq 0 .. 31 /\ Irqs \subseteq 0 .. 15

VARIABLES
  reg,       \* the registers but esp, eip and eflags
  stack,
  eip, iflag,
  entered,   \* history: for each entry not yet left, the CPU before it
  told,      \* history: what the C function called last was told
  halted     \* in the cli; hlt loop of isr_common_handler

vars == <<reg, stack, eip, iflag, entered, told, halted>>

KERNEL_CODE == 8                          \* 0x08
KERNEL_DATA == 16                         \* 0x10
Segments == <<"ds", "es", "fs", "gs">>
GPRs == <<"eax", "ecx", "edx", "ebx", "esp", "ebp", "esi", "edi">>   \* pusha's order
FromTop == [k \in 1 .. 8 |-> GPRs[9 - k]]  \* the order in which it leaves them
Junk == 99                                \* what a C function leaves in a register
Callers == <<97, 98>>                     \* what the interrupted code has on its stack

\* The fields of struct regs from its lowest address; useresp and ss, which
\* the CPU pushes on a change of privilege only, are left out.
regs == <<"gs", "fs", "es", "ds", "edi", "esi", "ebp", "esp", "ebx", "edx", "ecx", "eax",
          "vector", "err_code", "eip", "cs", "eflags">>

(***************************************************************************)
(* isr_stubs.s as instructions; an address is 100 * routine + offset in    *)
(* the kernel image                                                        *)
(***************************************************************************)
I(op, arg) == <<op, arg>>
Kernel == 50
isr_common == 51
Image == 1048576                          \* the kernel is loaded at 1 MiB
Address(routine) == Image + 100 * routine + 1

\* The vectors whose stub is made by ISR_ERR.
ISR_ERR == {8, 10, 11, 12, 13, 14, 17, 30}

Save ==
  <<I("pusha", 0), I("push_seg", "ds"), I("push_seg", "es"), I("push_seg", "fs"), I("push_seg", "gs"),
    I("load_segs", KERNEL_DATA)>>
Restore ==
  <<I("pop_seg", "gs"), I("pop_seg", "fs"), I("pop_seg", "es"), I("pop_seg", "ds"), I("popa", 0)>>

\* Mutant: no dummy error code is pushed.
StubNoDummy(v) == <<I("cli", 0), I("push", v), I("jmp", Address(isr_common))>>

isr(v) ==
  <<I("cli", 0)>> \o (IF v \in ISR_ERR THEN <<>> ELSE <<I("push", 0)>>)
    \o <<I("push", v), I("jmp", Address(isr_common))>>

\* Mutant: the general registers are left to irq_dispatch.
StubWithoutPusha(n) ==
  Tail(Save) \o <<I("push", n), I("irq_dispatch", 0), I("add_esp", 1)>>
    \o SubSeq(Restore, 1, 4) \o <<I("iret", 0)>>

irq(n) ==
  Save \o <<I("push", n), I("irq_dispatch", 0), I("add_esp", 1)>> \o Restore \o <<I("iret", 0)>>

CommonPath ==
  Save \o <<I("push_esp", 0), I("isr_common_handler", 0), I("add_esp", 1)>>
    \o Restore \o <<I("add_esp", 2), I("iret", 0)>>

Program(routine) ==
  CASE routine = Kernel -> <<I("run", 0), I("run", 0)>>
    [] routine = isr_common -> CommonPath
    [] routine < 32 -> isr(routine)
    [] OTHER -> irq(routine - 32)

Instruction == Program((eip - Image) \div 100)[(eip - Image) % 100]
Op(name) == ~halted /\ Instruction[1] = name
Arg == Instruction[2]
Step == eip' = eip + 1

Init ==
  /\ reg = [r \in (Range(GPRs) \ {"esp"}) \cup Range(Segments) |->
              IF r \in Range(Segments) THEN KERNEL_DATA ELSE CHOOSE k \in DOMAIN GPRs : GPRs[k] = r]
  /\ stack = Callers /\ eip = Address(Kernel) /\ iflag \in {0, 1}
  /\ entered = <<>> /\ told = <<>> /\ halted = FALSE

(***************************************************************************)
(* The CPU                                                                 *)
(***************************************************************************)
Value(r) == IF r = "esp" THEN Len(stack) ELSE reg[r]

\* Mutant: the exception and interrupt gates are trap gates.
TrapGate(handler) ==
  [handler_low |-> handler % 65536, handler_high |-> (handler \div 65536) % 65536,
   selector |-> KERNEL_CODE, flags |-> 143]

idt_set(handler) ==
  [handler_low |-> handler % 65536, handler_high |-> (handler \div 65536) % 65536,
   selector |-> KERNEL_CODE, flags |-> 142]     \* 0x8E, an interrupt gate

\* Mutant: two IRQ lines are exchanged.
GatesExchanged == [v \in 0 .. 47 |-> idt_set(Address(IF v = 32 THEN 33 ELSE IF v = 33 THEN 32 ELSE v))]

idt == [v \in 0 .. 47 |-> idt_set(Address(v))]

\* An interrupt gate, unlike a trap gate, clears IF behind the pushed eflags.
Enter(v, pushed, cause, error) ==
  /\ ~halted
  /\ entered' = <<[reg |-> reg, stack |-> stack, eip |-> eip, iflag |-> iflag,
                   vector |-> v, cause |-> cause, error |-> error]>> \o entered
  /\ stack' = pushed \o <<eip, KERNEL_CODE, iflag>> \o stack
  /\ eip' = 65536 * idt[v].handler_high + idt[v].handler_low
  /\ iflag' = IF idt[v].flags = 142 THEN 0 ELSE iflag
  /\ UNCHANGED <<reg, told, halted>>

\* Exceptions that come with an error code, here the number of the vector.
HasCode(v) == v \in {8, 10, 11, 12, 13, 14, 17, 30}

\* A fault at any instruction.  The first one ends in isr_common_handler.
Exception(v) ==
  /\ \A k \in DOMAIN entered : entered[k].cause = "irq"
  /\ IF HasCode(v) THEN Enter(v, <<v>>, "fault", v) ELSE Enter(v, <<>>, "fault", 0)

Interrupt(n) == iflag = 1 /\ Enter(32 + n, <<>>, "irq", 0)

\* The interrupted code goes on, and turns interrupts on or off.
Run ==
  /\ Op("run")
  /\ eip' = IF eip = Address(Kernel) THEN eip + 1 ELSE Address(Kernel)
  /\ iflag' \in {0, 1}
  /\ UNCHANGED <<reg, stack, entered, told, halted>>

Cli == Op("cli") /\ Step /\ iflag' = 0 /\ UNCHANGED <<reg, stack, entered, told, halted>>
Jmp == Op("jmp") /\ eip' = Arg /\ UNCHANGED <<reg, stack, iflag, entered, told, halted>>

Push ==
  /\ \/ Op("push") /\ stack' = <<Arg>> \o stack
     \/ Op("push_seg") /\ stack' = <<reg[Arg]>> \o stack
     \/ Op("push_esp") /\ stack' = <<Len(stack)>> \o stack
     \/ Op("pusha") /\ stack' = [k \in 1 .. 8 |-> Value(FromTop[k])] \o stack
  /\ Step /\ UNCHANGED <<reg, iflag, entered, told, halted>>

\* mov ax, 0x10 and the four moves from it.
LoadSegments ==
  /\ Op("load_segs") /\ Step
  /\ reg' = [r \in DOMAIN reg |-> IF r \in Range(Segments) \cup {"eax"} THEN Arg ELSE reg[r]]
  /\ UNCHANGED <<stack, iflag, entered, told, halted>>

Drop(n) == SubSeq(stack, n + 1, Len(stack))

AddEsp == Op("add_esp") /\ stack' = Drop(Arg) /\ Step
          /\ UNCHANGED <<reg, iflag, entered, told, halted>>
PopSegment == Op("pop_seg") /\ reg' = [reg EXCEPT ![Arg] = Head(stack)] /\ stack' = Tail(stack)
              /\ Step /\ UNCHANGED <<iflag, entered, told, halted>>
Popa ==
  /\ Op("popa") /\ Step /\ stack' = Drop(8)
  /\ reg' = [r \in DOMAIN reg |->
               IF r \in Range(GPRs) THEN stack[CHOOSE k \in 1 .. 8 : FromTop[k] = r] ELSE reg[r]]
  /\ UNCHANGED <<iflag, entered, told, halted>>
Iret ==
  /\ Op("iret") /\ eip' = stack[1] /\ iflag' = stack[3] /\ stack' = Drop(3)
  /\ entered' = Tail(entered)
  /\ UNCHANGED <<reg, told, halted>>

\* The C functions: cdecl lets them change eax, ecx and edx.
irq_dispatch ==
  /\ Op("irq_dispatch") /\ Step
  /\ told' = <<Head(stack)>>
  /\ reg' = [r \in DOMAIN reg |-> IF r \in {"eax", "ecx", "edx"} THEN Junk ELSE reg[r]]
  /\ UNCHANGED <<stack, iflag, entered, halted>>

\* r is the word esp points to.  The report is printed, then cli; hlt for ever.
isr_common_handler ==
  LET r == Head(stack)
  IN /\ Op("isr_common_handler")
     /\ told' = SubSeq(stack, Len(stack) - r + 1, Len(stack) - r + Len(regs))
     /\ halted' = TRUE /\ iflag' = 0
     /\ UNCHANGED <<reg, stack, eip, entered>>

Next ==
  \/ Run \/ Cli \/ Jmp \/ Push \/ LoadSegments \/ AddEsp \/ PopSegment \/ Popa \/ Iret
  \/ irq_dispatch \/ isr_common_handler
  \/ (\E v \in Exceptions : Exception(v)) \/ (\E n \in Irqs : Interrupt(n))

Spec == Init /\ [][Next]_vars

(***************************************************************************)
(* Properties                                                              *)
(***************************************************************************)
\* Interrupts do not nest, and an exception ends the machine: the stack holds
\* at most one frame of each, and the words the stub is still pushing.
TypeOK ==
  /\ reg \in [(Range(GPRs) \ {"esp"}) \cup Range(Segments) -> Int]
  /\ iflag \in {0, 1} /\ Len(entered) <= 2
  /\ Len(stack) <= Len(Callers) + 16 * Len(entered) + 2

\* An interrupt is invisible to the code it interrupts: iret leaves every
\* register, the stack, eip and IF as they were before the entry.
IrqTransparent ==
  [][Len(entered') < Len(entered) =>
       LET was == Head(entered)
       IN reg' = was.reg /\ stack' = was.stack /\ eip' = was.eip /\ iflag' = was.iflag]_vars

\* The stub tells irq_dispatch the line that asked.
IrqKnowsItsLine ==
  told # <<>> /\ ~halted /\ entered # <<>> /\ Op("add_esp") => told = <<Head(entered).vector - 32>>

\* isr.h: the frame "exactly matches 'struct regs'": the report of an exception
\* names its vector, its error code and the faulting instruction, and every
\* register is in its own field, in whichever stub it happened.
Field(name) == told[CHOOSE k \in DOMAIN regs : regs[k] = name]
FrameMatchesRegs ==
  halted => LET was == Head(entered)
            IN /\ Field("vector") = was.vector /\ Field("err_code") = was.error
               /\ Field("eip") = was.eip /\ Field("cs") = KERNEL_CODE /\ Field("eflags") = was.iflag
               /\ \A r \in DOMAIN was.reg : Field(r) = was.reg[r]
=============================================================================
