---------------------------- MODULE Interrupts ----------------------------
(***************************************************************************)
(* Hardware interrupts from power-on to shutdown: the boot order of kmain  *)
(* (src/main.c), the 8259A programming of src/pic.c, the vector table of   *)
(* src/idt.c, irq_dispatch (src/isr.c, src/isr_stubs.s) and cmd_shutdown   *)
(* (src/shell.c).                                                          *)
(*                                                                         *)
(* The straight-line parts are programs of port writes that devices may    *)
(* interrupt between any two instructions.  A byte is the set of its bits. *)
(* The two PICs (1 master, 2 slave) and the keyboard controller are        *)
(* external, modelled from how the code drives them.                       *)
(***************************************************************************)
EXTENDS Naturals, Sequences, FiniteSetsExt

CONSTANTS Devices,     \* lines in 0 .. 15 that have a device
          BiosMasks,   \* what the BIOS left in the two mask registers
          MaxRaises    \* requests of all devices together (bound)

Bits == 0 .. 7
None == 16
Keyboard == 1
Cascade == 2

ASSUME DeviceAssumption ==
  /\ Devices \subseteq (0 .. 15) \ {Cascade}
  /\ BiosMasks \subseteq [1 .. 2 -> SUBSET Bits]
  /\ MaxRaises \in Nat

VARIABLES
  pic,           \* the two 8259A
  idt_loaded,    \* idt_flush done
  iflag,            \* EFLAGS.IF
  irq_handlers,  \* lines with a handler
  code, ip,      \* the part of the kernel that runs, and where in it
  saved,         \* mask1, mask2 of pic_init
  irq, step,     \* line of the running IRQ stub, and how far it is
  key_waiting,   \* a scan code waits in the controller
  raises,        \* requests so far
  fault          \* code an interrupt hit with no IRQ gate behind it, or "none"

cpuVars == <<idt_loaded, iflag, irq_handlers, code, ip, saved>>
stubVars == <<irq, step>>
vars == <<pic, cpuVars, stubVars, key_waiting, raises, fault>>

Init ==
  \E m \in BiosMasks :
    /\ pic = [n \in 1 .. 2 |-> [base |-> IF n = 1 THEN {3} ELSE {4, 5, 6},
                                imr |-> m[n], irr |-> {}, isr |-> {}, icw |-> 0]]
    /\ idt_loaded = FALSE /\ iflag = 0 /\ irq_handlers = {}
    /\ code = "boot" /\ ip = 1 /\ saved = [n \in 1 .. 2 |-> {}]
    /\ irq = None /\ step = "none"
    /\ key_waiting = FALSE /\ raises = 0 /\ fault = "none"

(***************************************************************************)
(* The 8259A                                                               *)
(***************************************************************************)
\* ICW1 (bit 4) starts initialisation and clears masks and latched requests;
\* an EOI (bit 5) ends the most urgent interrupt in service.
Command(p, byte) ==
  IF 4 \in byte THEN [p EXCEPT !.imr = {}, !.irr = {}, !.isr = {}, !.icw = 1]
  ELSE [p EXCEPT !.isr = IF @ = {} THEN @ ELSE @ \ {Min(@)}]

\* ICW2, ICW3 and ICW4 follow ICW1; any other data byte is the mask.
Data(p, byte) ==
  CASE p.icw = 0 -> [p EXCEPT !.imr = byte]
    [] p.icw = 1 -> [p EXCEPT !.base = byte, !.icw = 2]
    [] p.icw = 2 -> [p EXCEPT !.icw = 3]
    [] OTHER -> [p EXCEPT !.icw = 0]

Ready(p, requests) == {l \in requests \ p.imr : p.icw = 0 /\ \A s \in p.isr : l < s}
SlaveReady == Ready(pic[2], pic[2].irr)
MasterReady == Ready(pic[1], pic[1].irr \cup IF SlaveReady = {} THEN {} ELSE {Cascade})

Bit(byte, b, weight) == IF b \in byte THEN weight ELSE 0
Value(byte) == Bit(byte, 0, 1) + Bit(byte, 1, 2) + Bit(byte, 2, 4) + Bit(byte, 3, 8)
                 + Bit(byte, 4, 16) + Bit(byte, 5, 32) + Bit(byte, 6, 64) + Bit(byte, 7, 128)
Vector(p, l) == Value(p.base) + l

\* The keyboard controller asks again only when its byte has been read.
Raise(l) ==
  /\ raises < MaxRaises /\ raises' = raises + 1
  /\ l = Keyboard => ~key_waiting
  /\ key_waiting' = (key_waiting \/ l = Keyboard)
  /\ pic' = IF l < 8 THEN [pic EXCEPT ![1].irr = @ \cup {l}]
            ELSE [pic EXCEPT ![2].irr = @ \cup {l - 8}]
  /\ UNCHANGED <<cpuVars, stubVars, fault>>

(***************************************************************************)
(* The programs: kmain and cmd_shutdown                                    *)
(***************************************************************************)
Do(what) == [op |-> what, chip |-> 0, byte |-> {}]
outb(port, n, value) == [op |-> port, chip |-> n, byte |-> value]

\* Mutant: the vector bases of the two PICs are swapped.
ICWsSwapped(offset1, offset2) ==
  << outb("cmd", 1, {0, 4}), outb("cmd", 2, {0, 4}),
     outb("data", 1, offset2), outb("data", 2, offset1),
     outb("data", 1, {2}), outb("data", 2, {1}),
     outb("data", 1, {0}), outb("data", 2, {0}) >>

\* ICW1 to ICW4 of both PICs.
ICWs(offset1, offset2) ==
  << outb("cmd", 1, {0, 4}), outb("cmd", 2, {0, 4}),
     outb("data", 1, offset1), outb("data", 2, offset2),
     outb("data", 1, {2}), outb("data", 2, {1}),
     outb("data", 1, {0}), outb("data", 2, {0}) >>

pic_init ==
  <<Do("save_masks")>> \o ICWs({5}, {3, 5})
    \o <<outb("data", 1, saved[1]), outb("data", 2, saved[2])>>

\* Mutant: pic_restore leaves the lines as ICW1 unmasked them.
RestoreUnmasked == ICWs({3}, {4, 5, 6})

pic_restore == ICWs({3}, {4, 5, 6}) \o <<outb("data", 1, Bits), outb("data", 2, Bits)>>

\* Mutant: interrupts are enabled before the PIC is remapped.
BootStiFirst ==
  <<Do("idt_flush"), Do("sti")>> \o pic_init
    \o <<Do("irq_register"), Do("pic_unmask")>>

kmain ==
  <<Do("idt_flush")>> \o pic_init
    \o <<Do("irq_register"), Do("pic_unmask"), Do("sti")>>

cmd_shutdown == pic_restore \o <<Do("cli"), Do("power_off")>>

Program == IF code = "boot" THEN kmain ELSE cmd_shutdown

\* The next instruction of the interrupted program, when no stub runs.
Fetch(what) ==
  /\ irq = None /\ code \in {"boot", "shutdown"} /\ Program[ip].op = what
  /\ ip' = IF ip = Len(Program) THEN 1 ELSE ip + 1
  /\ code' = IF ip < Len(Program) THEN code ELSE IF code = "boot" THEN "shell" ELSE "off"
  /\ UNCHANGED <<stubVars, key_waiting, raises, fault>>

idt_flush == Fetch("idt_flush") /\ idt_loaded' = TRUE
             /\ UNCHANGED <<pic, iflag, irq_handlers, saved>>

SaveMasks == Fetch("save_masks") /\ saved' = [n \in 1 .. 2 |-> pic[n].imr]
             /\ UNCHANGED <<pic, idt_loaded, iflag, irq_handlers>>

Out ==
  LET i == Program[ip]
  IN /\ \/ Fetch("cmd") /\ pic' = [pic EXCEPT ![i.chip] = Command(@, i.byte)]
        \/ Fetch("data") /\ pic' = [pic EXCEPT ![i.chip] = Data(@, i.byte)]
     /\ UNCHANGED <<idt_loaded, iflag, irq_handlers, saved>>

\* Mutant: kbd_init registers its handler on line 0.
RegisterTimer == Fetch("irq_register") /\ irq_handlers' = irq_handlers \cup {0}
                 /\ UNCHANGED <<pic, idt_loaded, iflag, saved>>

irq_register == Fetch("irq_register") /\ irq_handlers' = irq_handlers \cup {Keyboard}
                /\ UNCHANGED <<pic, idt_loaded, iflag, saved>>

pic_unmask == Fetch("pic_unmask")
              /\ pic' = [pic EXCEPT ![1] = Data(@, @.imr \ {Keyboard})]
              /\ UNCHANGED <<idt_loaded, iflag, irq_handlers, saved>>

Sti == Fetch("sti") /\ iflag' = 1 /\ UNCHANGED <<pic, idt_loaded, irq_handlers, saved>>
Cli == Fetch("cli") /\ iflag' = 0 /\ UNCHANGED <<pic, idt_loaded, irq_handlers, saved>>

\* Power off, or the hlt loop behind it: with IF clear it never ends.
PowerOff == Fetch("power_off") /\ UNCHANGED <<pic, idt_loaded, iflag, irq_handlers, saved>>

\* The user types "shutdown".
Shutdown ==
  /\ code = "shell" /\ irq = None /\ code' = "shutdown" /\ ip' = 1
  /\ UNCHANGED <<pic, idt_loaded, iflag, irq_handlers, saved, stubVars, key_waiting, raises, fault>>

(***************************************************************************)
(* Taking an interrupt                                                     *)
(***************************************************************************)
Acknowledge(p, l) == [p EXCEPT !.irr = @ \ {l}, !.isr = @ \cup {l}]

\* idt_init: vectors 32 to 47 are irq0 to irq15; 0 to 31 are the exceptions,
\* whose handler halts for ever; the rest is empty and faults.
Enter(v) ==
  \/ /\ idt_loaded /\ v \in 32 .. 47
     /\ irq' = v - 32 /\ step' = "handler" /\ UNCHANGED <<code, fault>>
  \/ /\ ~(idt_loaded /\ v \in 32 .. 47)
     /\ fault' = code /\ code' = "halted" /\ UNCHANGED stubVars

Interrupt ==
  /\ iflag = 1 /\ MasterReady # {} /\ iflag' = 0
  /\ LET l == Min(MasterReady)
     IN IF l = Cascade
          THEN LET s == Min(SlaveReady)
               IN /\ pic' = [n \in 1 .. 2 |-> Acknowledge(pic[n], IF n = 1 THEN l ELSE s)]
                  /\ Enter(Vector(pic[2], s))
          ELSE /\ pic' = [pic EXCEPT ![1] = Acknowledge(@, l)]
               /\ Enter(Vector(pic[1], l))
  /\ UNCHANGED <<idt_loaded, irq_handlers, ip, saved, key_waiting, raises>>

\* irq_dispatch calls the handler, if there is one; kbd_isr reads the byte.
Handler ==
  /\ step = "handler" /\ step' = IF irq >= 8 THEN "eoi_slave" ELSE "eoi_master"
  /\ key_waiting' = (key_waiting /\ ~(irq = Keyboard /\ Keyboard \in irq_handlers))
  /\ UNCHANGED <<pic, cpuVars, irq, raises, fault>>

\* Mutant: a slave interrupt is acknowledged at the slave only.
EoiSlaveOnly ==
  /\ step = "eoi_slave" /\ step' = "iret"
  /\ pic' = [pic EXCEPT ![2] = Command(@, {5})]
  /\ UNCHANGED <<cpuVars, irq, key_waiting, raises, fault>>

EoiSlave ==
  /\ step = "eoi_slave" /\ step' = "eoi_master"
  /\ pic' = [pic EXCEPT ![2] = Command(@, {5})]
  /\ UNCHANGED <<cpuVars, irq, key_waiting, raises, fault>>

EoiMaster ==
  /\ step = "eoi_master" /\ step' = "iret"
  /\ pic' = [pic EXCEPT ![1] = Command(@, {5})]
  /\ UNCHANGED <<cpuVars, irq, key_waiting, raises, fault>>

\* iret restores EFLAGS: interrupts were on.
Iret ==
  /\ step = "iret" /\ step' = "none" /\ irq' = None /\ iflag' = 1
  /\ UNCHANGED <<pic, idt_loaded, irq_handlers, code, ip, saved, key_waiting, raises, fault>>

Execute == idt_flush \/ SaveMasks \/ Out \/ irq_register \/ pic_unmask \/ Sti \/ Cli \/ PowerOff
Serve == Interrupt \/ Handler \/ EoiSlave \/ EoiMaster \/ Iret

Next == Execute \/ Serve \/ Shutdown \/ \E l \in Devices : Raise(l)

Spec == Init /\ [][Next]_vars

\* The CPU runs its instructions and takes the interrupts the PIC offers.
FairSpec == Spec /\ WF_vars(Execute) /\ WF_vars(Serve)

(***************************************************************************)
(* Properties                                                              *)
(***************************************************************************)
\* The bytes of the PICs, the handler table, and where the kernel is.
TypeOK ==
  /\ pic \in [1 .. 2 -> [base : SUBSET Bits, imr : SUBSET Bits, irr : SUBSET Bits,
                         isr : SUBSET Bits, icw : 0 .. 3]]
  /\ idt_loaded \in BOOLEAN /\ iflag \in {0, 1} /\ irq_handlers \subseteq {Keyboard}
  /\ code \in {"boot", "shell", "shutdown", "off", "halted"}
  /\ ip \in 1 .. 20 /\ saved \in [1 .. 2 -> SUBSET Bits]
  /\ irq \in 0 .. None /\ step \in {"none", "handler", "eoi_slave", "eoi_master", "iret"}
  /\ key_waiting \in BOOLEAN /\ raises \in 0 .. MaxRaises
  /\ fault \in {"none", "boot", "shell", "shutdown", "off"}

\* The boot order of kmain: from power-on until "shutdown" is typed no device
\* request lands on an exception vector or an empty gate, whatever the BIOS
\* masks were and whenever it comes.
NoFaultBeforeShutdown == fault \notin {"boot", "shell"}

\* The stub that runs is the one of the line the PIC has in service, at the
\* slave and on the cascade line for 8 to 15: irq_dispatch gets the number of
\* the device that asked, so its EOIs go to the right chips.
StubMatchesLine ==
  step = "handler" =>
    IF irq < 8 THEN pic[1].isr = {irq} /\ pic[2].isr = {}
    ELSE pic[1].isr = {Cascade} /\ pic[2].isr = {irq - 8}

\* irq_dispatch: "always acknowledge": no line stays in service when the stub
\* has returned, so none is locked out.
AllAcknowledged == step \in {"none", "iret"} /\ code # "halted" => \A n \in 1 .. 2 : pic[n].isr = {}

\* pic_restore: "Mask all IRQ lines so no interrupts fire after shutdown": the
\* messages between it and the cli are printed with IF set.
QuietAfterRestore ==
  code = "off" \/ (code = "shutdown" /\ Program[ip].op = "cli") => irq = None /\ MasterReady = {}

\* In the shell every request on an unmasked line is served, handled or not.
RequestsServed ==
  \A l \in Bits :
    /\ (code = "shell" /\ l \in pic[1].irr \ pic[1].imr) ~> (l \notin pic[1].irr \/ code # "shell")
    /\ (code = "shell" /\ l \in pic[2].irr \ pic[2].imr /\ Cascade \notin pic[1].imr)
         ~> (l \notin pic[2].irr \/ code # "shell")

\* pic.c: remapping makes "keyboard and timer interrupts reach our IRQ handlers
\* instead of crashing the OS".
IrqsReachHandlers == fault = "none"

\* kbd_init: once it has returned, "every key press will fire IRQ1, run
\* kbd_isr()".
KeysAreRead == (code = "shell" /\ key_waiting) ~> (~key_waiting \/ code # "shell")
=============================================================================
