----------------------------- MODULE Keyboard -----------------------------
(***************************************************************************)
(* The PS/2 keyboard driver (src/keyboard.c): kbd_isr and the ring buffer  *)
(* it fills, kbd_getchar and the hlt it waits in.                          *)
(*                                                                         *)
(* kbd_isr runs with interrupts off, so it is one step; kbd_getchar is     *)
(* interrupted between any two of its accesses.  A scan code is a key and  *)
(* whether it is a release; a character is a key and the table             *)
(* (0 scancode_normal, 1 scancode_shift) its code stands in.               *)
(***************************************************************************)
EXTENDS Naturals, Sequences

CONSTANTS KBD_BUF_SIZE,
          Letters,      \* keys 'a' to 'z'
          Symbols,      \* keys with different characters in the two tables
          Same,         \* Enter, Backspace, Tab, Space, ESC: one character
          Silent,       \* F1, arrows: 0 in both tables
          MaxPending,   \* scan codes the controller holds (bound)
          TimerOn       \* IRQ0 is unmasked, as pic_init leaves it

ASSUME SizeAssumption == KBD_BUF_SIZE \in Nat \ {0, 1} /\ MaxPending \in Nat \ {0}

Shifts == {"LShift", "RShift"}

\* A scan code stands for one kind of key.
ASSUME KeyAssumption ==
  /\ (Letters \cup Symbols \cup Same \cup Silent) \cap (Shifts \cup {"CapsLock"}) = {}
  /\ (Letters \cup Symbols \cup Same) \cap Silent = {}

Keys == Letters \cup Symbols \cup Same \cup Silent \cup Shifts \cup {"CapsLock"}
Char == [key : Letters \cup Symbols \cup Same, up : {0, 1}]
NoChar == [key |-> "none", up |-> 0]
Index == 0 .. (KBD_BUF_SIZE - 1)

VARIABLES
  kbd_buf, kbd_head, kbd_tail, shift_held, caps_lock_on,   \* state of keyboard.c
  pc,            \* where kbd_getchar is; "away": the shell is not in it
  c,             \* its local
  out,           \* what the last call returned: <<>> or <<char>>
  down, pending  \* the keyboard: Shift keys held, scan codes not yet read

ringVars == <<kbd_buf, kbd_head>>
modVars == <<shift_held, caps_lock_on>>
readVars == <<kbd_tail, pc, c, out>>
vars == <<ringVars, modVars, readVars, down, pending>>

Init ==
  /\ kbd_buf = [i \in Index |-> NoChar] /\ kbd_head = 0 /\ kbd_tail = 0
  /\ shift_held = 0 /\ caps_lock_on = 0
  /\ pc = "away" /\ c = NoChar /\ out = <<>>
  /\ down = {} /\ pending = <<>>

(***************************************************************************)
(* The keyboard and its controller                                         *)
(***************************************************************************)
\* Only the Shift keys' positions are kept; any other key may be pressed,
\* repeated by a long press, or released at any time.
Press(k) ==
  /\ Len(pending) < MaxPending
  /\ down' = down \cup ({k} \cap Shifts)
  /\ pending' = Append(pending, [key |-> k, release |-> FALSE])
  /\ UNCHANGED <<ringVars, modVars, readVars>>

Release(k) ==
  /\ k \in Shifts => k \in down
  /\ Len(pending) < MaxPending
  /\ down' = down \ {k} /\ pending' = Append(pending, [key |-> k, release |-> TRUE])
  /\ UNCHANGED <<ringVars, modVars, readVars>>

(***************************************************************************)
(* IRQ1: kbd_isr                                                           *)
(***************************************************************************)
scancode(k, shift) ==
  CASE k \in Silent -> NoChar
    [] k \in Same -> [key |-> k, up |-> 0]
    [] OTHER -> [key |-> k, up |-> shift]

Xor(a, b) == (a + b) % 2

\* The tables are indexed with shift_held, then letters change case when
\* caps_lock_on ^ shift_held.
Translate(k) ==
  LET t == scancode(k, shift_held)
  IN IF k \in Letters /\ Xor(caps_lock_on, shift_held) = 1
       THEN [t EXCEPT !.up = 1 - @] ELSE t

\* Mutant: kbd_put writes although the buffer is full.
PutUnchecked(ch) ==
  /\ kbd_buf' = [kbd_buf EXCEPT ![kbd_head] = ch]
  /\ kbd_head' = (kbd_head + 1) % KBD_BUF_SIZE

\* Mutant: kbd_head is not wrapped.
PutUnwrapped(ch) ==
  LET next_head == kbd_head + 1
  IN IF next_head # kbd_tail
       THEN kbd_buf' = [kbd_buf EXCEPT ![kbd_head] = ch] /\ kbd_head' = next_head
       ELSE UNCHANGED ringVars

kbd_put(ch) ==
  LET next_head == (kbd_head + 1) % KBD_BUF_SIZE
  IN \/ /\ next_head # kbd_tail
        /\ kbd_buf' = [kbd_buf EXCEPT ![kbd_head] = ch]
        /\ kbd_head' = next_head
     \/ next_head = kbd_tail /\ UNCHANGED ringVars

\* Mutant: only the release of the left Shift clears shift_held.
ReleaseLeftOnly(k) ==
  /\ shift_held' = IF k = "LShift" THEN 0 ELSE shift_held
  /\ UNCHANGED <<caps_lock_on, ringVars>>

BreakCode(k) ==
  /\ shift_held' = IF k \in Shifts THEN 0 ELSE shift_held
  /\ UNCHANGED <<caps_lock_on, ringVars>>

MakeCode(k) ==
  \/ k \in Shifts /\ shift_held' = 1 /\ UNCHANGED <<caps_lock_on, ringVars>>
  \/ k = "CapsLock" /\ caps_lock_on' = 1 - caps_lock_on /\ UNCHANGED <<shift_held, ringVars>>
  \/ k \in Silent /\ UNCHANGED <<modVars, ringVars>>
  \/ k \notin Shifts \cup {"CapsLock"} \cup Silent /\ kbd_put(Translate(k)) /\ UNCHANGED modVars

\* An interrupt ends a hlt: execution goes on behind it.
Wake == pc' = IF pc = "halted" THEN "check" ELSE pc

kbd_isr ==
  /\ pending # <<>>
  /\ LET sc == Head(pending) IN IF sc.release THEN BreakCode(sc.key) ELSE MakeCode(sc.key)
  /\ pending' = Tail(pending)
  /\ Wake
  /\ UNCHANGED <<kbd_tail, c, out, down>>

\* IRQ0 has no handler; it only ends a hlt.
Timer ==
  /\ TimerOn
  /\ Wake
  /\ UNCHANGED <<ringVars, modVars, kbd_tail, c, out, down, pending>>

(***************************************************************************)
(* kbd_getchar                                                             *)
(***************************************************************************)
Step(from, to) == pc = from /\ pc' = to /\ UNCHANGED <<ringVars, modVars, down, pending>>

Call == Step("away", "check") /\ UNCHANGED <<kbd_tail, c, out>>

kbd_has_char == kbd_head # kbd_tail

CheckEmpty == ~kbd_has_char /\ Step("check", "hlt") /\ UNCHANGED <<kbd_tail, c, out>>
CheckFound == kbd_has_char /\ Step("check", "read") /\ UNCHANGED <<kbd_tail, c, out>>

\* The hlt is a separate instruction: kbd_isr may run after the test.
Halt == Step("hlt", "halted") /\ UNCHANGED <<kbd_tail, c, out>>

ReadChar == Step("read", "advance") /\ c' = kbd_buf[kbd_tail] /\ UNCHANGED <<kbd_tail, out>>

Advance ==
  /\ Step("advance", "away")
  /\ kbd_tail' = (kbd_tail + 1) % KBD_BUF_SIZE
  /\ out' = <<c>> /\ c' = NoChar

kbd_getchar == Call \/ CheckEmpty \/ CheckFound \/ Halt \/ ReadChar \/ Advance

Next ==
  \/ \E k \in Keys : Press(k) \/ Release(k)
  \/ kbd_isr \/ Timer \/ kbd_getchar

Spec == Init /\ [][Next]_vars

\* The CPU runs, the shell keeps reading (readline loops on kbd_getchar), the
\* PIC delivers a pending keyboard interrupt and the timer ticks.
Fairness == WF_vars(kbd_getchar) /\ WF_vars(kbd_isr) /\ WF_vars(Timer)
FairSpec == Spec /\ Fairness

(***************************************************************************)
(* Properties                                                              *)
(***************************************************************************)
\* The indices stay in kbd_buf[] and the flags are bits.
TypeOK ==
  /\ kbd_head \in Index /\ kbd_tail \in Index
  /\ kbd_buf \in [Index -> Char \cup {NoChar}]
  /\ shift_held \in {0, 1} /\ caps_lock_on \in {0, 1}
  /\ pc \in {"away", "check", "hlt", "halted", "read", "advance"}
  /\ c \in Char \cup {NoChar} /\ Len(out) <= 1 /\ down \subseteq Shifts

Count == (kbd_head + KBD_BUF_SIZE - kbd_tail) % KBD_BUF_SIZE
Contents == [i \in 1 .. Count |-> kbd_buf[(kbd_tail + i - 1) % KBD_BUF_SIZE]]

\* Between the read of kbd_buf[kbd_tail] and the store to kbd_tail the handler
\* may run any number of times; it neither overwrites the slot nor empties
\* the buffer, which is why keyboard.c needs no lock.
ReaderUndisturbed ==
  /\ pc \in {"read", "advance"} => kbd_has_char
  /\ pc = "advance" => kbd_buf[kbd_tail] = c

Queue == INSTANCE KeyQueue WITH Capacity <- KBD_BUF_SIZE - 1, queue <- Contents, out <- out

\* The ring buffer with its two unlocked indices is a bounded FIFO queue, and
\* a key typed after kbd_getchar found the buffer empty but before its hlt
\* is still delivered, because the timer ends the hlt.
ImplementsQueue == Queue!FairSpec

\* When every code has been handled and no Shift key is held, shift_held is
\* clear: the flag never sticks.
ShiftNeverSticks == pending = <<>> /\ down \cap Shifts = {} => shift_held = 0

\* keyboard.c on shift_held: "1 if Left or Right Shift is pressed".
ShiftTracksKeys == pending = <<>> /\ down \cap Shifts # {} => shift_held = 1

\* keyboard.c: "If CapsLock is on and Shift is NOT held (or vice versa),
\* uppercase."
UppercaseByCapsXorShift ==
  \A k \in Letters : Translate(k).up = Xor(caps_lock_on, shift_held)
=============================================================================
