------------------------------ MODULE Syscall ------------------------------
(***************************************************************************)
(* What the threads of the system may expect of a system call, whatever    *)
(* monks does to it: the call runs the real function once, and then        *)
(* returns.  SctHook.tla is shown to implement this specification.         *)
(***************************************************************************)

CONSTANT Threads

VARIABLE phase   (* "user"; "asked": the call is made; "done": it has run  *)

Init == phase = [t \in Threads |-> "user"]

Move(t, from, to) == phase[t] = from /\ phase' = [phase EXCEPT ![t] = to]

Enter(t)  == Move(t, "user", "asked")
Run(t)    == Move(t, "asked", "done")
Return(t) == Move(t, "done", "user")

Next == \E t \in Threads : Enter(t) \/ Run(t) \/ Return(t)

Spec == Init /\ [][Next]_phase

=============================================================================
