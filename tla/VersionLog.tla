------------------------------ MODULE VersionLog ------------------------------
(***************************************************************************)
(* What the file store promises about version history, whatever happens in *)
(* between: each file is an append-only log of contents.  A file appears   *)
(* with one entry, grows by one entry at a time, is never rewritten, and   *)
(* disappears as a whole, several files possibly at once.                  *)
(***************************************************************************)
EXTENDS Sequences, Naturals

CONSTANTS Files, Contents, Absent

VARIABLE log

Init == log \in [Files -> {<<c>> : c \in Contents} \cup {Absent}]

Create(f, c) ==
  /\ log[f] = Absent
  /\ log' = [log EXCEPT ![f] = <<c>>]

AppendVersion(f, c) ==
  /\ log[f] # Absent
  /\ log' = [log EXCEPT ![f] = Append(@, c)]

Remove(fs) ==
  log' = [f \in Files |-> IF f \in fs THEN Absent ELSE log[f]]

Next ==
  \/ \E f \in Files, c \in Contents : Create(f, c) \/ AppendVersion(f, c)
  \/ \E fs \in SUBSET Files : Remove(fs)

Spec == Init /\ [][Next]_log
=============================================================================
