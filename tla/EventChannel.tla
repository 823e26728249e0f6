---------------------------- MODULE EventChannel ----------------------------
(***************************************************************************)
(* What monks promises about the intercepted events it reports: a lossy    *)
(* FIFO channel.  An event is posted at one end, and each posted event is  *)
(* either delivered once, after every event delivered before it, or lost.  *)
(* Nothing is invented, duplicated or reordered.                           *)
(*                                                                         *)
(* Netlink.tla is shown to implement this specification.                   *)
(***************************************************************************)
EXTENDS Naturals, Sequences

VARIABLES
  posted,   (* how many events have been posted; event n is the n-th one   *)
  pending,  (* posted events whose fate is open, oldest first              *)
  out       (* delivered events, in the order of delivery                  *)

vars == <<posted, pending, out>>

Init ==
  /\ posted = 0
  /\ pending = <<>>
  /\ out = <<>>

Post ==
  /\ posted' = posted + 1
  /\ pending' = Append(pending, posted + 1)
  /\ UNCHANGED out

Deliver ==
  /\ pending # <<>>
  /\ out' = Append(out, Head(pending))
  /\ pending' = Tail(pending)
  /\ UNCHANGED posted

Lose ==
  /\ pending # <<>>
  /\ pending' = Tail(pending)
  /\ UNCHANGED <<posted, out>>

LoseAll ==
  /\ pending' = <<>>
  /\ UNCHANGED <<posted, out>>

Next == Post \/ Deliver \/ Lose \/ LoseAll

Spec == Init /\ [][Next]_vars

-----------------------------------------------------------------------------
TypeOK ==
  /\ posted \in Nat
  /\ pending \in Seq(1..posted)
  /\ out \in Seq(1..posted)

Increasing(s) == \A i, j \in DOMAIN s : i < j => s[i] < s[j]

(* The events a viewer is sent by nl_send_skb come in the order in which   *)
(* nl_send queued them, and none comes twice.                              *)
InOrder == Increasing(out)

=============================================================================
