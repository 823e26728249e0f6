------------------------- MODULE EventChannelProofs -------------------------
(* The lossy FIFO channel keeps its order: proofs about EventChannel. *)
EXTENDS EventChannel, TLAPS

(* What is delivered comes before what is pending, and both are in order.  *)
Before(s, t) == \A i \in DOMAIN s, j \in DOMAIN t : s[i] < t[j]

ChannelInv ==
  /\ TypeOK
  /\ Increasing(out)
  /\ Increasing(pending)
  /\ Before(out, pending)

(* A number above every element may be appended to an increasing sequence. *)
LEMMA AppendIncreasing ==
  ASSUME NEW s \in Seq(Nat), NEW e \in Nat, Increasing(s),
         \A i \in DOMAIN s : s[i] < e
  PROVE  Increasing(Append(s, e))
<1> DEFINE t == Append(s, e)
<1>1. /\ Len(s) \in Nat
      /\ DOMAIN s = 1 .. Len(s)
      /\ DOMAIN t = 1 .. Len(s) + 1
      /\ \A i \in 1 .. Len(s) + 1 : t[i] = IF i <= Len(s) THEN s[i] ELSE e
  OBVIOUS
<1>2. \A i \in 1 .. Len(s) : s[i] \in Nat
  BY <1>1
<1> HIDE DEF t
<1>3. ASSUME NEW i \in 1 .. Len(s) + 1, NEW j \in 1 .. Len(s) + 1, i < j
      PROVE  t[i] < t[j]
  <2>1. i \in 1 .. Len(s) /\ t[i] = s[i]
    BY <1>1, <1>3
  <2>2. CASE j \in 1 .. Len(s)
    BY <2>1, <2>2, <1>1, <1>3 DEF Increasing
  <2>3. CASE j = Len(s) + 1
    BY <2>1, <2>3, <1>1
  <2> QED  BY <2>2, <2>3, <1>1
<1> QED  BY <1>1, <1>3 DEF Increasing, t

(* The tail of an increasing sequence is increasing, above its head, and   *)
(* its elements are elements of the sequence.                              *)
LEMMA TailIncreasing ==
  ASSUME NEW s \in Seq(Nat), s # <<>>, Increasing(s)
  PROVE  /\ Increasing(Tail(s))
         /\ \A j \in DOMAIN Tail(s) : j + 1 \in DOMAIN s /\ Tail(s)[j] = s[j + 1]
         /\ \A j \in DOMAIN Tail(s) : Head(s) < Tail(s)[j]
<1> DEFINE t == Tail(s)
<1>1. /\ Len(s) \in Nat /\ Len(s) > 0
      /\ DOMAIN s = 1 .. Len(s)
      /\ DOMAIN t = 1 .. Len(s) - 1
      /\ Head(s) = s[1]
      /\ \A i \in 1 .. Len(s) - 1 : t[i] = s[i + 1]
  OBVIOUS
<1> HIDE DEF t
<1>2. \A j \in DOMAIN t : j + 1 \in DOMAIN s /\ t[j] = s[j + 1]
  BY <1>1
<1>3. \A i, j \in DOMAIN t : i < j => t[i] < t[j]
  BY <1>1, <1>2 DEF Increasing
<1>4. \A j \in DOMAIN t : s[1] < t[j]
  BY <1>1, <1>2 DEF Increasing
<1> QED  BY <1>1, <1>2, <1>3, <1>4 DEF Increasing, t

LEMMA ChannelInit == Init => ChannelInv
  BY DEF Init, ChannelInv, TypeOK, Increasing, Before

LEMMA ChannelStep == ChannelInv /\ [Next]_vars => ChannelInv'
<1> SUFFICES ASSUME ChannelInv, [Next]_vars
             PROVE  ChannelInv'
  OBVIOUS
<1>0. /\ posted \in Nat
      /\ pending \in Seq(Nat) /\ out \in Seq(Nat)
      /\ \A i \in DOMAIN pending : pending[i] \in 1 .. posted
      /\ \A i \in DOMAIN out : out[i] \in 1 .. posted
      /\ Increasing(out) /\ Increasing(pending) /\ Before(out, pending)
  BY DEF ChannelInv, TypeOK
<1>1. CASE Post
  <2>1. TypeOK'
    BY <1>1 DEF Post, ChannelInv, TypeOK
  <2>2. Increasing(pending)' /\ Increasing(out)'
    <3>1. \A i \in DOMAIN pending : pending[i] < posted + 1
      BY <1>0
    <3> QED  BY <3>1, <1>0, <1>1, AppendIncreasing DEF Post, Increasing
  <2>3. Before(out, pending)'
    <3>1. \A j \in DOMAIN pending' :
             pending'[j] = posted + 1 \/ (j \in DOMAIN pending /\ pending'[j] = pending[j])
      BY <1>0, <1>1 DEF Post
    <3>2. out' = out /\ \A i \in DOMAIN out : out[i] \in Nat /\ out[i] < posted + 1
      BY <1>0, <1>1 DEF Post
    <3>3. \A i \in DOMAIN out, j \in DOMAIN pending : out[i] < pending[j]
      BY <1>0 DEF Before
    <3> QED  BY <3>1, <3>2, <3>3 DEF Before
  <2> QED  BY <2>1, <2>2, <2>3 DEF ChannelInv
<1>2. ASSUME Lose \/ Deliver
      PROVE  /\ Increasing(pending)'
             /\ pending' \in Seq(1 .. posted)
             /\ Before(out, pending')
             /\ \A j \in DOMAIN pending' : Head(pending) < pending'[j]
  <2>1. pending # <<>> /\ pending' = Tail(pending)
    BY <1>2 DEF Lose, Deliver
  <2>2. pending' \in Seq(1 .. posted)
    BY <2>1 DEF ChannelInv, TypeOK
  <2>3. Increasing(pending)' /\ \A j \in DOMAIN pending' : Head(pending) < pending'[j]
    BY <2>1, <1>0, TailIncreasing DEF Increasing
  <2>4. Before(out, pending')
    BY <2>1, <1>0, TailIncreasing DEF Before
  <2> QED  BY <2>2, <2>3, <2>4
<1>3. CASE Deliver
  <2>1. /\ pending # <<>> /\ Head(pending) \in 1 .. posted
        /\ Head(pending) = pending[1] /\ 1 \in DOMAIN pending
    BY <1>0, <1>3 DEF Deliver
  <2>2. \A i \in DOMAIN out : out[i] < Head(pending)
    BY <2>1, <1>0 DEF Before
  <2>3. Increasing(out)'
    BY <2>1, <2>2, <1>0, <1>3, AppendIncreasing DEF Deliver, Increasing
  <2>4. Before(out, pending)'
    <3>1. \A i \in DOMAIN out' :
             out'[i] = Head(pending) \/ (i \in DOMAIN out /\ out'[i] = out[i])
      BY <1>0, <1>3, <2>1 DEF Deliver
    <3> QED  BY <3>1, <1>2, <1>3 DEF Before
  <2>5. TypeOK'
    BY <1>0, <1>2, <1>3, <2>1 DEF Deliver, ChannelInv, TypeOK
  <2> QED  BY <1>2, <1>3, <2>3, <2>4, <2>5 DEF ChannelInv
<1>4. CASE Lose
  <2>1. out' = out /\ posted' = posted
    BY <1>4 DEF Lose
  <2> QED  BY <2>1, <1>0, <1>2, <1>4 DEF ChannelInv, TypeOK, Before, Increasing
<1>5. CASE LoseAll
  BY <1>5 DEF LoseAll, ChannelInv, TypeOK, Before, Increasing
<1>6. CASE UNCHANGED vars
  BY <1>6 DEF vars, ChannelInv, TypeOK, Before, Increasing
<1> QED  BY <1>1, <1>3, <1>4, <1>5, <1>6 DEF Next

(* The channel never delivers an event before one that was posted earlier, *)
(* nor twice.                                                              *)
THEOREM ChannelInOrder == Spec => []InOrder
<1>1. ChannelInv => InOrder
  BY DEF ChannelInv, InOrder
<1> QED  BY ChannelInit, ChannelStep, <1>1, PTL DEF Spec

=============================================================================
