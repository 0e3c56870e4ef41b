----------------------------- MODULE FileStore -----------------------------
(***************************************************************************)
(* What the file commands promise their user, without blocks and chains:   *)
(* a map from (name, directory) to text.  One command runs at a time; buf  *)
(* is the text it will store.  A write may be refused for lack of space,   *)
(* which costs the file for fwrite, its text for fedit, nothing for copy.  *)
(***************************************************************************)
EXTENDS Naturals, Sequences, FiniteSets

CONSTANTS Names, Dirs, Lines, MaxFiles, MaxText, Newline

VARIABLES store, cmd, key, buf, result
vars == <<store, cmd, key, buf, result>>

Keys == Names \X Dirs
NoKey == <<"", "">>
Exists(k) == k \in DOMAIN store
Put(k, text) == [j \in DOMAIN store \cup {k} |-> IF j = k THEN text ELSE store[j]]
Drop(k) == [j \in DOMAIN store \ {k} |-> store[j]]
Full == Cardinality(DOMAIN store) = MaxFiles

Says(msg) == [msg |-> msg, text |-> <<>>]

Init ==
  /\ store = [k \in {} |-> <<>>]
  /\ cmd = "none" /\ key = NoKey /\ buf = <<>>
  /\ result = Says("none")

Start(c, k, text) == cmd = "none" /\ cmd' = c /\ key' = k /\ buf' = text /\ result' = Says("none")
Finish(r) == cmd' = "none" /\ key' = NoKey /\ buf' = <<>> /\ result' = r
Refused(msg) == cmd = "none" /\ result' = Says(msg) /\ UNCHANGED <<store, cmd, key, buf>>

Write(k) ==
  \/ (Exists(k) \/ ~Full) /\ Start("write", k, <<>>) /\ store' = Put(k, <<>>)
  \/ ~Exists(k) /\ Full /\ Refused("directory full")

Edit(k) ==
  \/ Exists(k) /\ Start("edit", k, store[k]) /\ UNCHANGED store
  \/ ~Exists(k) /\ Refused("not found")

Read(k) ==
  \/ Exists(k) /\ Start("read", k, store[k]) /\ UNCHANGED store
  \/ ~Exists(k) /\ Refused("not found")

Delete(k) ==
  \/ Exists(k) /\ Start("delete", k, <<>>) /\ UNCHANGED store
  \/ ~Exists(k) /\ Refused("not found")

Copy(k, to) ==
  \/ /\ Exists(k) /\ ~Exists(to) /\ ~Full
     /\ Start("copy", to, store[k]) /\ UNCHANGED store
  \/ ~Exists(k) /\ Refused("not found")
  \/ Exists(k) /\ Exists(to) /\ Refused("exists")
  \/ Exists(k) /\ ~Exists(to) /\ Full /\ Refused("directory full")

Rename(k, to) ==
  \/ /\ cmd = "none" /\ Exists(k) /\ ~Exists(to)
     /\ store' = [j \in (DOMAIN store \ {k}) \cup {to} |-> IF j = to THEN store[k] ELSE store[j]]
     /\ result' = Says("ok")
     /\ UNCHANGED <<cmd, key, buf>>
  \/ ~Exists(k) /\ Refused("not found")
  \/ Exists(k) /\ Exists(to) /\ Refused("exists")

\* A line that does not fit is dropped.
Line(line) ==
  /\ cmd \in {"write", "edit"}
  /\ Len(buf) + Len(line) + 1 <= MaxText
  /\ buf' = buf \o line \o <<Newline>>
  /\ UNCHANGED <<store, cmd, key, result>>

Stored ==
  /\ cmd \in {"write", "edit", "copy"}
  /\ store' = Put(key, buf)
  /\ Finish(Says("ok"))

OutOfSpace ==
  /\ cmd \in {"write", "edit", "copy"} /\ buf # <<>>
  /\ store' = CASE cmd = "write" -> Drop(key)
                [] cmd = "edit" -> Put(key, <<>>)
                [] cmd = "copy" -> store
  /\ Finish(Says("disk full"))

Shown == cmd = "read" /\ Finish([msg |-> "read", text |-> buf]) /\ UNCHANGED store

Confirmed == cmd = "delete" /\ store' = Drop(key) /\ UNCHANGED <<cmd, key, buf, result>>
Deleted == cmd = "delete" /\ ~Exists(key) /\ Finish(Says("deleted")) /\ UNCHANGED store
Cancelled == cmd = "delete" /\ Exists(key) /\ Finish(Says("cancelled")) /\ UNCHANGED store

Usage == Refused("usage")

Next ==
  \/ Usage
  \/ \E k \in Keys : Write(k) \/ Edit(k) \/ Read(k) \/ Delete(k)
  \/ \E n, m \in Names, d \in Dirs : Copy(<<n, d>>, <<m, d>>) \/ Rename(<<n, d>>, <<m, d>>)
  \/ \E line \in Lines : Line(line)
  \/ Stored \/ OutOfSpace \/ Shown \/ Confirmed \/ Deleted \/ Cancelled

Spec == Init /\ [][Next]_vars
=============================================================================
