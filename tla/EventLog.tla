------------------------------ MODULE EventLog ------------------------------
(***************************************************************************)
(* What the list of the viewer is meant to be: the last Limit events, in   *)
(* the order they came.  Viewer.tla is shown to implement it.              *)
(***************************************************************************)
EXTENDS Naturals, Sequences

CONSTANTS Infos, Limit

VARIABLE log

Init == log = <<>>

Full == Len(log) >= Limit

Add(i) == log' = Append(IF Full THEN Tail(log) ELSE log, i)

Next == \E i \in Infos : Add(i)

Spec == Init /\ [][Next]_log

=============================================================================
