----------------------------- MODULE KeyQueue -----------------------------
(***************************************************************************)
(* What the keyboard driver promises the shell: a bounded first-in         *)
(* first-out queue of characters.  A character that finds the queue full   *)
(* is dropped; a reader who keeps asking gets every other one, in order.   *)
(***************************************************************************)
EXTENDS Naturals, Sequences

CONSTANTS Char, Capacity

VARIABLES queue, out
vars == <<queue, out>>

Init == queue = <<>> /\ out = <<>>

Put(c) == Len(queue) < Capacity /\ queue' = Append(queue, c) /\ UNCHANGED out

\* out is the character the last completed kbd_getchar returned.
Get == queue # <<>> /\ out' = <<Head(queue)>> /\ queue' = Tail(queue)

Next == (\E c \in Char : Put(c)) \/ Get

Spec == Init /\ [][Next]_vars

\* A waiting character does not wait for ever.
FairSpec == Spec /\ WF_vars(Get)
=============================================================================
