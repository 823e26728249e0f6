---------------------------- MODULE ViewerProofs ----------------------------
(***************************************************************************)
(* What monks-viewer keeps to, for any number of addresses, any MEM_LIMIT  *)
(* and any window.  All of it rests on ViewerInv: some sequence of nodes,  *)
(* none of them twice, is chained by prev and next from head to tail and   *)
(* holds all that is allocated, whatever addresses were used again.        *)
(*                                                                         *)
(* List, the rows behind the cursor and the keys are walks along pointers, *)
(* defined by recursion.  The first part shows, with induction stated for  *)
(* sets of numbers, what such a walk returns; the second that ViewerInv    *)
(* holds; the third draws the properties from it, the last one being that  *)
(* the list is the log of EventLog.                                        *)
(***************************************************************************)
EXTENDS Viewer, FiniteSetTheorems, SequenceTheorems, TLAPS

-----------------------------------------------------------------------------
(* Induction                                                               *)

(* A set of numbers that is not empty has a least one. *)
LEMMA LeastNat ==
  ASSUME NEW T \in SUBSET Nat, T # {}
  PROVE  \E m \in T : \A k \in T : m <= k
<1>1. IsWellFoundedOn(OpToRel(<, Nat), Nat)
  BY NatLessThanWellFounded
<1>2. PICK m \in T : \A k \in T : ~ (<<k, m>> \in OpToRel(<, Nat))
  BY <1>1, WFMin
<1>3. ASSUME NEW k \in T PROVE ~ (k < m)
  BY <1>2, <1>3 DEF OpToRel
<1>. QED
  BY <1>3

(* Induction, for a set instead of a formula. *)
LEMMA Induct ==
  ASSUME NEW S, 0 \in S, \A n \in Nat : n \in S => n + 1 \in S
  PROVE  Nat \subseteq S
<1>. SUFFICES ASSUME Nat \ S # {} PROVE FALSE
  OBVIOUS
<1>1. PICK m \in Nat \ S : \A k \in Nat \ S : m <= k
  BY LeastNat
<1>2. m # 0 /\ m - 1 \in Nat /\ m - 1 \notin Nat \ S
  BY <1>1
<1>. QED
  BY <1>1, <1>2

-----------------------------------------------------------------------------
(* Walk *)

N == Cardinality(Nodes)

(* The addresses are finitely many, and more than the events kept. *)
LEMMA NType == N \in Nat /\ N > MemLimit /\ MemLimit \in Nat \ {0, 1}
  BY ViewerAssumption, FS_CardinalityType DEF N

(* What the function in Walk must satisfy. *)
Walks(at, node, step, end) ==
  at = [k \in 1 .. N + 1 |->
          IF k = 1 THEN node
          ELSE IF at[k - 1] \in {NULL, end} THEN NULL ELSE step[at[k - 1]]]

(* There is but one such function. *)
LEMMA WalksUnique ==
  ASSUME NEW f, NEW g, NEW node, NEW step, NEW end,
         Walks(f, node, step, end), Walks(g, node, step, end)
  PROVE  f = g
<1>. DEFINE S == {k \in Nat : k + 1 \in 1 .. N + 1 => f[k + 1] = g[k + 1]}
<1>1. 0 \in S
  BY NType DEF Walks
<1>2. ASSUME NEW k \in Nat, k \in S PROVE k + 1 \in S
  <2>1. ASSUME k + 1 + 1 \in 1 .. N + 1 PROVE f[k + 1 + 1] = g[k + 1 + 1]
    <3>1. k + 1 \in 1 .. N + 1 /\ k + 1 + 1 # 1 /\ k + 1 + 1 - 1 = k + 1
      BY <2>1, NType
    <3>2. f[k + 1] = g[k + 1]
      BY <1>2, <3>1
    <3>3. f[k + 1 + 1] = IF f[k + 1] \in {NULL, end} THEN NULL ELSE step[f[k + 1]]
      BY <2>1, <3>1 DEF Walks
    <3>4. g[k + 1 + 1] = IF g[k + 1] \in {NULL, end} THEN NULL ELSE step[g[k + 1]]
      BY <2>1, <3>1 DEF Walks
    <3>. QED
      BY <3>2, <3>3, <3>4
  <2>. QED
    BY <2>1
<1>3. Nat \subseteq S
  <2>. HIDE DEF S
  <2>. QED
    BY <1>1, <1>2, Induct
<1>4. ASSUME NEW k \in 1 .. N + 1 PROVE f[k] = g[k]
  <2>1. k - 1 \in Nat /\ k - 1 + 1 = k
    BY NType
  <2>. QED
    BY <2>1, <1>3
<1>5. f = [k \in 1 .. N + 1 |-> f[k]] /\ g = [k \in 1 .. N + 1 |-> g[k]]
  BY DEF Walks
<1>. QED
  BY <1>4, <1>5

(* From q[1] on along `step`, m nodes lie before one where the walk ends. *)
Path(q, m, step, end) ==
  /\ \A k \in 1 .. m : q[k] \notin {NULL, end} /\ q[k + 1] = step[q[k]]
  /\ q[m + 1] \in {NULL, end}

(* A walk along q: its nodes but for the last, at which it ends. *)
LEMMA WalkIs ==
  ASSUME NEW step, NEW end, NEW m \in Nat, m <= N, NEW q,
         Path(q, m, step, end)
  PROVE  Walk(q[1], step, end) = [k \in 1 .. m |-> q[k]]
<1>. DEFINE g == [k \in 1 .. N + 1 |-> IF k <= m + 1 THEN q[k] ELSE NULL]
<1>1. Walks(g, q[1], step, end)
  <2>1. ASSUME NEW k \in 1 .. N + 1, k # 1
        PROVE  g[k] = IF g[k - 1] \in {NULL, end} THEN NULL ELSE step[g[k - 1]]
    <3>0. k - 1 \in 1 .. N + 1 /\ k \in Int
      BY <2>1, NType
    <3>1. CASE k <= m + 1
      <4>1. k - 1 \in 1 .. m /\ k - 1 + 1 = k
        BY <2>1, <3>1, NType
      <4>2. q[k - 1] \notin {NULL, end} /\ q[k] = step[q[k - 1]]
        BY <4>1 DEF Path
      <4>3. g[k] = q[k] /\ g[k - 1] = q[k - 1]
        BY <3>0, <3>1, <4>1
      <4>. QED
        BY <4>2, <4>3
    <3>2. CASE k > m + 1
      <4>1. g[k] = NULL
        BY <3>0, <3>2
      <4>2. k - 1 = m + 1 \/ k - 1 > m + 1
        BY <3>0, <3>2
      <4>3. CASE k - 1 = m + 1
        <5>1. g[k - 1] = q[m + 1]
          BY <3>0, <4>3
        <5>. QED
          BY <4>1, <5>1 DEF Path
      <4>4. CASE k - 1 > m + 1
        <5>1. g[k - 1] = NULL
          BY <3>0, <4>4
        <5>. QED
          BY <4>1, <5>1
      <4>. QED
        BY <4>2, <4>3, <4>4
    <3>. QED
      BY <3>0, <3>1, <3>2
  <2>2. g[1] = q[1]
    BY NType
  <2>3. \A k \in 1 .. N + 1 :
          g[k] = IF k = 1 THEN q[1]
                 ELSE IF g[k - 1] \in {NULL, end} THEN NULL ELSE step[g[k - 1]]
    BY <2>1, <2>2
  <2>4. g = [k \in 1 .. N + 1 |-> g[k]]
    OBVIOUS
  <2>. QED
    <3>. HIDE DEF g
    <3>. QED
      BY <2>3, <2>4 DEF Walks
<1>. DEFINE at == CHOOSE f : Walks(f, q[1], step, end)
<1>2. at = g
  <2>1. Walks(at, q[1], step, end)
    <3>. HIDE DEF g
    <3>. QED
      BY <1>1
  <2>. HIDE DEF g, at
  <2>. QED
    BY <1>1, <2>1, WalksUnique
<1>3. Walk(q[1], step, end)
        = SubSeq(at, 1, Cardinality({k \in DOMAIN at : at[k] \notin {NULL, end}}))
  BY DEF Walk, Walks, N
<1>4. {k \in DOMAIN g : g[k] \notin {NULL, end}} = 1 .. m
  <2>1. ASSUME NEW k \in 1 .. N + 1 PROVE g[k] \notin {NULL, end} <=> k <= m
    <3>1. CASE k <= m
      <4>1. k \in 1 .. m
        BY <3>1
      <4>. QED
        BY <4>1, <3>1 DEF Path
    <3>2. CASE k = m + 1
      <4>1. g[k] = q[m + 1]
        BY <3>2
      <4>. QED
        BY <4>1, <3>2 DEF Path
    <3>3. CASE k > m + 1
      BY <3>3
    <3>. QED
      BY <3>1, <3>2, <3>3, NType
  <2>2. DOMAIN g = 1 .. N + 1
    OBVIOUS
  <2>. HIDE DEF g
  <2>3. 1 .. m \subseteq 1 .. N + 1
    BY NType
  <2>4. \A k \in 1 .. m : k <= m
    OBVIOUS
  <2>5. \A k \in 1 .. N + 1 : k <= m => k \in 1 .. m
    OBVIOUS
  <2>. QED
    BY <2>1, <2>2, <2>3, <2>4, <2>5
<1>5. Cardinality(1 .. m) = m
  BY FS_Interval
<1>6. SubSeq(g, 1, m) = [k \in 1 .. m |-> q[k]]
  <2>. DEFINE X == {g[k] : k \in 1 .. N + 1}
  <2>1. g \in [1 .. N + 1 -> X] /\ Len(g) = N + 1 /\ g \in Seq(X)
    <3>1. g \in [1 .. N + 1 -> X]
      OBVIOUS
    <3>. HIDE DEF g, X
    <3>. QED
      BY <3>1, NType
  <2>2. \A k \in 1 .. m : g[k] = q[k] /\ 1 + k - 1 = k
    BY NType
  <2>. HIDE DEF g, X
  <2>3. SubSeq(g, 1, m) = [k \in 1 .. m |-> g[k]]
    <3>1. SubSeq(g, 1, m) = [k \in 1 .. m - 1 + 1 |-> g[1 + k - 1]]
      BY <2>1
    <3>2. m - 1 + 1 = m
      OBVIOUS
    <3>. QED
      BY <3>1, <3>2, <2>2
  <2>. QED
    BY <2>2, <2>3
<1>. QED
  <2>. HIDE DEF g, at
  <2>. QED
    BY <1>2, <1>3, <1>4, <1>5, <1>6

-----------------------------------------------------------------------------
(* The list                                                                *)

(* The nodes of l, from h to t, chained by p and n; p[h] may be anything.  *)
Linked(list, l, h, t, p, n) ==
  /\ list \in Seq(Nodes) /\ Len(list) >= 1
  /\ list[1] = h /\ list[Len(list)] = t
  /\ l = {list[k] : k \in 1 .. Len(list)}
  /\ \A j, k \in 1 .. Len(list) : list[j] = list[k] => j = k
  /\ \A k \in 1 .. Len(list) - 1 : n[list[k]] = list[k + 1] /\ p[list[k + 1]] = list[k]
  /\ n[t] = NULL

(* As many places as nodes, and not more than there are addresses. *)
LEMMA LinkedLen ==
  ASSUME NEW list, NEW l, NEW h, NEW t, NEW p, NEW n,
         Linked(list, l, h, t, p, n)
  PROVE  /\ Len(list) \in Nat \ {0} /\ DOMAIN list = 1 .. Len(list)
         /\ l \subseteq Nodes /\ IsFiniteSet(l)
         /\ Cardinality(l) = Len(list) /\ Len(list) <= N
         /\ h \in l /\ t \in l
<1>1. list \in Seq(Nodes) /\ Len(list) >= 1
  BY DEF Linked
<1>2. Len(list) \in Nat \ {0} /\ DOMAIN list = 1 .. Len(list)
  BY <1>1
<1>3. \A k \in 1 .. Len(list) : list[k] \in Nodes
  BY <1>1, <1>2
<1>4. l \subseteq Nodes
  BY <1>3 DEF Linked
<1>5. list \in [1 .. Len(list) -> l]
  BY <1>1, <1>2 DEF Linked
<1>6. list \in Bijection(1 .. Len(list), l)
  <2>1. \A j, k \in 1 .. Len(list) : list[j] = list[k] => j = k
    BY DEF Linked
  <2>2. \A y \in l : \E k \in 1 .. Len(list) : list[k] = y
    BY DEF Linked
  <2>. QED
    BY <1>5, <2>1, <2>2 DEF Bijection, Injection, Surjection, IsInjective
<1>7. Cardinality(l) = Len(list)
  BY <1>2, <1>6, FS_CountingElements DEF ExistsBijection
<1>8. IsFiniteSet(l) /\ Cardinality(l) <= N
  BY <1>4, ViewerAssumption, FS_Subset DEF N
<1>9. h \in l /\ t \in l
  <2>1. 1 \in 1 .. Len(list) /\ Len(list) \in 1 .. Len(list)
    BY <1>2
  <2>. QED
    BY <2>1 DEF Linked
<1>. QED
  BY <1>2, <1>4, <1>7, <1>8, <1>9

(* The list can be read off the pointers. *)
LEMMA LinkedWalk ==
  ASSUME NEW list, NEW l, NEW h, NEW t, NEW p, NEW n,
         Linked(list, l, h, t, p, n)
  PROVE  Walk(h, n, NULL) = list
<1>. DEFINE m == Len(list)
            q == [k \in 1 .. m + 1 |-> IF k <= m THEN list[k] ELSE NULL]
<1>1. m \in Nat \ {0} /\ DOMAIN list = 1 .. m /\ m <= N
  BY LinkedLen
<1>2. ASSUME NEW k \in 1 .. m PROVE q[k] # NULL /\ q[k + 1] = n[q[k]]
  <2>1. q[k] = list[k] /\ list[k] \in Nodes
    BY <1>1 DEF Linked
  <2>2. CASE k = m
    <3>1. q[k + 1] = NULL /\ list[k] = t /\ n[t] = NULL
      BY <1>1, <2>2 DEF Linked
    <3>. QED
      BY <2>1, <3>1, ViewerAssumption
  <2>3. CASE k # m
    <3>1. k \in 1 .. m - 1 /\ k + 1 \in 1 .. m + 1 /\ k + 1 <= m
      <4>. HIDE DEF m
      <4>. QED
        BY <1>1, <2>3
    <3>2. q[k + 1] = list[k + 1]
      BY <3>1
    <3>3. n[list[k]] = list[k + 1]
      BY <3>1 DEF Linked
    <3>. QED
      BY <2>1, <3>2, <3>3, ViewerAssumption
  <2>. QED
    BY <2>2, <2>3
<1>3. q[m + 1] = NULL
  BY <1>1
<1>4. q[1] = h
  BY <1>1 DEF Linked
<1>5. Walk(q[1], n, NULL) = [k \in 1 .. m |-> q[k]]
  <2>. HIDE DEF q, m
  <2>1. Path(q, m, n, NULL)
    BY <1>2, <1>3 DEF Path
  <2>. QED
    BY <1>1, <2>1, WalkIs
<1>6. \A k \in 1 .. m : q[k] = list[k]
  BY <1>1
<1>7. list = [k \in 1 .. m |-> list[k]]
  <2>1. list \in Seq(Nodes)
    BY DEF Linked
  <2>. QED
    BY <2>1, <1>1
<1>. QED
  <2>. HIDE DEF q, m
  <2>. QED
    BY <1>4, <1>5, <1>6, <1>7

(* One node more behind the last one. *)
LEMMA LinkedAppend ==
  ASSUME NEW list, NEW l, NEW h, NEW t, NEW p, NEW n, NEW in \in Nodes, NEW p2, NEW n2,
         Linked(list, l, h, t, p, n), in \notin l,
         p2[in] = t, n2[t] = in, n2[in] = NULL,
         \A m \in l : p2[m] = p[m] /\ (m # t => n2[m] = n[m])
  PROVE  Linked(Append(list, in), l \cup {in}, h, in, p2, n2)
<1>. DEFINE m == Len(list)
            s == Append(list, in)
<1>1. m \in Nat \ {0} /\ list \in Seq(Nodes)
  BY LinkedLen DEF Linked
<1>2. s \in Seq(Nodes) /\ Len(s) = m + 1
  BY <1>1
<1>3. \A k \in 1 .. m : s[k] = list[k]
  BY <1>1
<1>4. s[m + 1] = in
  BY <1>1
<1>5. \A k \in 1 .. m : list[k] \in l
  BY DEF Linked
<1>. HIDE DEF s
<1>6. s[1] = h /\ s[Len(s)] = in
  BY <1>1, <1>2, <1>3, <1>4 DEF Linked
<1>7. l \cup {in} = {s[k] : k \in 1 .. Len(s)}
  <2>1. l = {list[k] : k \in 1 .. m}
    BY DEF Linked
  <2>2. l = {s[k] : k \in 1 .. m}
    BY <2>1, <1>3
  <2>3. 1 .. Len(s) = (1 .. m) \cup {m + 1}
    BY <1>1, <1>2
  <2>. QED
    BY <2>2, <2>3, <1>4
<1>8. ASSUME NEW j \in 1 .. Len(s), NEW k \in 1 .. Len(s), s[j] = s[k]
      PROVE  j = k
  <2>1. (j \in 1 .. m \/ j = m + 1) /\ (k \in 1 .. m \/ k = m + 1)
    BY <1>1, <1>2
  <2>2. \A x, y \in 1 .. m : list[x] = list[y] => x = y
    BY DEF Linked
  <2>. QED
    BY <1>3, <1>4, <1>5, <1>8, <2>1, <2>2
<1>9. ASSUME NEW k \in 1 .. Len(s) - 1
      PROVE  n2[s[k]] = s[k + 1] /\ p2[s[k + 1]] = s[k]
  <2>1. CASE k = m
    <3>1. s[k] = t /\ s[k + 1] = in
      BY <1>1, <1>3, <1>4, <2>1 DEF Linked
    <3>. QED
      BY <3>1
  <2>2. CASE k # m
    <3>1. k \in 1 .. m - 1 /\ k \in 1 .. m /\ k + 1 \in 1 .. m /\ m \in 1 .. m
      BY <1>1, <1>2, <2>2
    <3>2. s[k] = list[k] /\ s[k + 1] = list[k + 1] /\ list[k] \in l /\ list[k + 1] \in l
      BY <1>3, <1>5, <3>1
    <3>3. list[k] # t
      BY <2>2, <3>1 DEF Linked
    <3>4. n[list[k]] = list[k + 1] /\ p[list[k + 1]] = list[k]
      BY <3>1 DEF Linked
    <3>. QED
      BY <3>2, <3>3, <3>4
  <2>. QED
    BY <2>1, <2>2
<1>. QED
  BY <1>1, <1>2, <1>6, <1>7, <1>8, <1>9 DEF Linked, s

(* The first node gone. *)
LEMMA LinkedTail ==
  ASSUME NEW list, NEW l, NEW h, NEW t, NEW p, NEW n,
         Linked(list, l, h, t, p, n), Len(list) >= 2
  PROVE  /\ Linked(Tail(list), l \ {h}, n[h], t, p, n)
         /\ n[h] \in l /\ n[h] # h
<1>. DEFINE m == Len(list)
            s == Tail(list)
<1>1. m \in Nat /\ m >= 2 /\ list \in Seq(Nodes)
  BY LinkedLen DEF Linked
<1>2. s \in Seq(Nodes) /\ Len(s) = m - 1
  BY <1>1, HeadTailProperties
<1>3. \A k \in 1 .. m - 1 : s[k] = list[k + 1]
  BY <1>1, <1>2
<1>. HIDE DEF s
<1>4. \A x, y \in 1 .. m : list[x] = list[y] => x = y
  BY DEF Linked
<1>5. list[1] = h /\ n[h] = list[2] /\ list[m] = t
  <2>1. 1 \in 1 .. m - 1
    BY <1>1
  <2>. QED
    BY <2>1 DEF Linked
<1>6. s[1] = n[h] /\ s[Len(s)] = t
  <2>1. 1 \in 1 .. m - 1 /\ m - 1 \in 1 .. m - 1 /\ m - 1 + 1 = m
    BY <1>1
  <2>. QED
    BY <1>2, <1>3, <1>5, <2>1
<1>7. l \ {h} = {s[k] : k \in 1 .. Len(s)}
  <2>1. l = {list[k] : k \in 1 .. m}
    BY DEF Linked
  <2>2. ASSUME NEW x \in l \ {h} PROVE \E k \in 1 .. m - 1 : s[k] = x
    <3>1. PICK k \in 1 .. m : list[k] = x
      BY <2>1, <2>2
    <3>2. k # 1
      BY <1>5, <2>2, <3>1
    <3>3. k - 1 \in 1 .. m - 1 /\ k - 1 + 1 = k
      BY <1>1, <3>2
    <3>. QED
      BY <1>3, <3>1, <3>3
  <2>3. ASSUME NEW k \in 1 .. m - 1 PROVE s[k] \in l \ {h}
    <3>1. k + 1 \in 1 .. m /\ 1 \in 1 .. m /\ k + 1 # 1
      BY <1>1
    <3>2. list[k + 1] \in l /\ list[k + 1] # list[1]
      BY <1>4, <2>1, <3>1
    <3>. QED
      BY <1>3, <1>5, <3>2
  <2>. QED
    BY <1>2, <2>2, <2>3
<1>8. ASSUME NEW j \in 1 .. Len(s), NEW k \in 1 .. Len(s), s[j] = s[k]
      PROVE  j = k
  <2>1. j \in 1 .. m - 1 /\ k \in 1 .. m - 1 /\ j + 1 \in 1 .. m /\ k + 1 \in 1 .. m
    BY <1>1, <1>2
  <2>2. j + 1 = k + 1
    BY <1>3, <1>4, <1>8, <2>1
  <2>. QED
    BY <2>1, <2>2
<1>9. ASSUME NEW k \in 1 .. Len(s) - 1
      PROVE  n[s[k]] = s[k + 1] /\ p[s[k + 1]] = s[k]
  <2>1. k \in 1 .. m - 1 /\ k + 1 \in 1 .. m - 1
    BY <1>1, <1>2
  <2>2. n[list[k + 1]] = list[k + 1 + 1] /\ p[list[k + 1 + 1]] = list[k + 1]
    BY <2>1 DEF Linked
  <2>. QED
    BY <1>3, <2>1, <2>2
<1>10. n[h] \in l /\ n[h] # h
  <2>1. 1 \in 1 .. m /\ 2 \in 1 .. m
    BY <1>1
  <2>2. list[2] \in l /\ list[2] # list[1]
    BY <1>4, <2>1 DEF Linked
  <2>. QED
    BY <1>5, <2>2
<1>11. Len(s) >= 1 /\ n[t] = NULL
  BY <1>1, <1>2 DEF Linked
<1>. QED
  BY <1>2, <1>6, <1>7, <1>8, <1>9, <1>10, <1>11 DEF Linked, s

-----------------------------------------------------------------------------
(* The invariant                                                           *)

ListInv == Linked(List, live, head, tail, prev, next)

(* The node main makes stays empty until the first event comes; from then  *)
(* on all nodes hold one.                                                  *)
NodesInv ==
  \/ total_nodes = 0 /\ live = {head} /\ info[head] = NULL
  \/ total_nodes = Cardinality(live) /\ \A n \in live : info[n] # NULL

ResizeInv ==
  /\ ~scheduled_resize /\ ~missed => win_data_height = lines
  /\ place = "resized" /\ ~missed => win_data_height = lines

ViewerInv == TypeOK /\ ListInv /\ NodesInv /\ ResizeInv

(* The list that a new node is put behind. *)
Kept == IF Full THEN Tail(List) ELSE List
Dropped == IF Full THEN {head} ELSE {}
KeptHead == IF Full THEN next[head] ELSE head

(* What is kept is a list, and it is not empty. *)
LEMMA KeptLinked ==
  ASSUME TypeOK, ListInv, NodesInv, info[head] # NULL
  PROVE  /\ Linked(Kept, live \ Dropped, KeptHead, tail, prev, next)
         /\ KeptHead \in live \ Dropped
         /\ Full => Len(List) >= 2
<1>1. Len(List) \in Nat \ {0} /\ Cardinality(live) = Len(List) /\ live \subseteq Nodes
  BY LinkedLen DEF ListInv
<1>2. head \in live
  BY LinkedLen DEF ListInv
<1>3. total_nodes = Len(List)
  BY <1>1 DEF NodesInv
<1>4. CASE Full
  <2>1. Len(List) >= 2
    BY <1>1, <1>3, <1>4, NType DEF Full
  <2>2. /\ Linked(Tail(List), live \ {head}, next[head], tail, prev, next)
        /\ next[head] \in live /\ next[head] # head
    BY <2>1, LinkedTail DEF ListInv
  <2>. QED
    BY <1>4, <2>1, <2>2 DEF Kept, KeptHead, Dropped
<1>5. CASE ~Full
  BY <1>2, <1>5 DEF Kept, KeptHead, Dropped, ListInv
<1>. QED
  BY <1>4, <1>5

(* add_data puts one node behind those that are kept. *)
LEMMA NodeAdded ==
  ASSUME TypeOK, ListInv, NodesInv, NEW i \in Infos, AddNode(i)
  PROVE  \E in \in Nodes \ (live \ Dropped) :
           /\ live' = (live \ Dropped) \cup {in}
           /\ Linked(Append(Kept, in), live', head', tail', prev', next')
           /\ List' = Append(Kept, in)
           /\ info' = [n \in Nodes |-> IF n = in THEN i
                                       ELSE IF n \in Dropped THEN NULL ELSE info[n]]
           /\ tail' = in /\ head' = KeptHead
           /\ curr' = IF curr = tail THEN in ELSE curr
<1>. DEFINE l == live \ Dropped
<1>1. PICK in \in Nodes \ l :
        /\ live' = l \cup {in}
        /\ info' = [n \in Nodes |-> IF n = in THEN i
                                    ELSE IF n \in Dropped THEN NULL ELSE info[n]]
        /\ Link(in, Dropped) /\ tail' = in /\ AutoScroll(in)
  BY DEF AddNode, Dropped
<1>2. info[head] # NULL /\ head' = KeptHead
  BY DEF AddNode, KeptHead
<1>3. /\ Linked(Kept, l, KeptHead, tail, prev, next)
      /\ KeptHead \in l
  BY <1>2, KeptLinked
<1>4. tail \in l /\ l \subseteq Nodes
  BY <1>3, LinkedLen DEF Linked
<1>5. prev'[in] = tail /\ next'[tail] = in /\ next'[in] = NULL
  <2>1. tail # in /\ tail \in Nodes /\ in \in Nodes
    BY <1>4
  <2>. QED
    BY <1>1, <2>1 DEF Link
<1>6. ASSUME NEW m \in l
      PROVE  prev'[m] = prev[m] /\ (m # tail => next'[m] = next[m])
  <2>1. m # in /\ m \notin Dropped /\ m \in Nodes
    BY <1>4
  <2>. QED
    BY <1>1, <2>1 DEF Link
<1>7. Linked(Append(Kept, in), l \cup {in}, KeptHead, in, prev', next')
  <2>. HIDE DEF l
  <2>. QED
    BY <1>3, <1>5, <1>6, LinkedAppend
<1>8. Linked(Append(Kept, in), live', head', tail', prev', next')
  BY <1>1, <1>2, <1>7
<1>9. List' = Append(Kept, in)
  <2>1. Walk(head', next', NULL) = Append(Kept, in)
    BY <1>8, LinkedWalk
  <2>. QED
    BY <2>1 DEF List, Walk
<1>10. curr' = IF curr = tail THEN in ELSE curr
  BY <1>1, <1>5 DEF AutoScroll
<1>. QED
  BY <1>1, <1>2, <1>8, <1>9, <1>10

-----------------------------------------------------------------------------
(* The rows                                                                *)

(* How many elements of s lie below k. *)
Before(s, k) == Cardinality({j \in s : j < k})

(* A later element has more below it. *)
LEMMA BeforeLess ==
  ASSUME NEW m \in Nat, NEW s \in SUBSET (1 .. m), NEW j \in s, NEW k \in s, j < k
  PROVE  Before(s, j) \in Nat /\ Before(s, k) \in Nat /\ Before(s, j) < Before(s, k)
<1>. DEFINE A == {i \in s : i < j}
            B == {i \in s : i < k}
<1>0. IsFiniteSet(1 .. m)
  BY FS_Interval
<1>1. IsFiniteSet(s)
  BY <1>0, FS_Subset
<1>t. \A x \in s : x \in Int
  OBVIOUS
<1>2. IsFiniteSet(A) /\ IsFiniteSet(B)
  BY <1>1, FS_Subset
<1>3. A \cup {j} \subseteq B /\ j \notin A
  <2>1. ASSUME NEW i \in A \cup {j} PROVE i \in B
    <3>1. i \in s /\ (i < j \/ i = j) /\ i \in Int /\ j \in Int /\ k \in Int
      BY <1>t
    <3>. QED
      BY <3>1
  <2>2. ~ (j < j)
    BY <1>t
  <2>. QED
    BY <2>1, <2>2
<1>4. Cardinality(A) \in Nat /\ Cardinality(B) \in Nat
  BY <1>2, FS_CardinalityType
<1>. HIDE DEF A, B
<1>5. Cardinality(A \cup {j}) = Cardinality(A) + 1
  BY <1>2, <1>3, FS_AddElement
<1>6. Cardinality(A \cup {j}) <= Cardinality(B)
  BY <1>2, <1>3, FS_Subset
<1>. QED
  BY <1>4, <1>5, <1>6 DEF Before, A, B

(* The next one below k, and none between them. *)
LEMMA BeforeStep ==
  ASSUME NEW m \in Nat, NEW s \in SUBSET (1 .. m), NEW k \in s, Before(s, k) # 0
  PROVE  \E j \in s : /\ j < k /\ Before(s, k) = Before(s, j) + 1
                      /\ Before(s, j) \in Nat
                      /\ \A i \in s : ~ (j < i /\ i < k)
<1>. DEFINE B == {i \in s : i < k}
            D == {k - i : i \in B}
<1>0. IsFiniteSet(1 .. m)
  BY FS_Interval
<1>1. IsFiniteSet(s)
  BY <1>0, FS_Subset
<1>t. \A x \in s : x \in Int
  OBVIOUS
<1>2. IsFiniteSet(B) /\ B # {}
  BY <1>1, FS_Subset, FS_EmptySet DEF Before
<1>3. D \in SUBSET Nat /\ D # {}
  <2>1. ASSUME NEW i \in B PROVE k - i \in Nat
    <3>1. i \in Int /\ k \in Int /\ i < k
      BY <1>t
    <3>. QED
      BY <3>1
  <2>. QED
    BY <1>2, <2>1
<1>4. PICK d \in D : \A e \in D : d <= e
  <2>. HIDE DEF D
  <2>. QED
    BY <1>3, LeastNat
<1>5. PICK j \in B : d = k - j
  BY <1>4
<1>6. \A i \in s : ~ (j < i /\ i < k)
  <2>1. ASSUME NEW i \in s, j < i, i < k PROVE FALSE
    <3>1. k - i \in D
      BY <2>1
    <3>2. k - j <= k - i /\ i \in Int /\ j \in Int /\ k \in Int
      BY <1>4, <1>5, <3>1
    <3>. QED
      BY <2>1, <3>2
  <2>. QED
    BY <2>1
<1>. DEFINE A == {i \in s : i < j}
<1>7. B = A \cup {j} /\ j \notin A
  <2>1. \A i \in s : i < k <=> i < j \/ i = j
    <3>1. ASSUME NEW i \in s PROVE i < k <=> i < j \/ i = j
      <4>1. i \in Int /\ j \in Int /\ k \in Int /\ j < k
        BY <1>t, <1>5
      <4>. QED
        BY <1>6, <4>1
    <3>. QED
      BY <3>1
  <2>2. j \in s /\ j \in Int /\ ~ (j < j)
    BY <1>t, <1>5
  <2>3. ASSUME NEW i PROVE i \in B <=> i \in A \cup {j}
    BY <2>1, <2>2
  <2>. QED
    BY <2>2, <2>3
<1>8. IsFiniteSet(A) /\ Cardinality(A) \in Nat
  <2>1. IsFiniteSet(A)
    BY <1>1, FS_Subset
  <2>. QED
    BY <2>1, FS_CardinalityType
<1>9. Cardinality(B) = Cardinality(A) + 1
  <2>. HIDE DEF A, B
  <2>. QED
    BY <1>7, <1>8, FS_AddElement
<1>. QED
  BY <1>5, <1>6, <1>8, <1>9 DEF Before

(* What lies behind the cursor. *)
LEMMA BehindIs ==
  ASSUME ListInv, NEW c \in 1 .. Len(List), List[c] = curr
  PROVE  Behind(curr) = [k \in 1 .. c - 1 |-> List[c - k + 1]]
<1>. DEFINE list == List
            q == [k \in 1 .. c |-> list[c - k + 1]]
            m == c - 1
<1>0. Linked(list, live, head, tail, prev, next)
  BY DEF ListInv
<1>. HIDE DEF list
<1>1. /\ Len(list) \in Nat \ {0} /\ Len(list) <= N /\ c \in 1 .. Len(list)
      /\ m \in Nat /\ m <= N /\ N \in Nat
  BY <1>0, LinkedLen, NType DEF list
<1>2. \A k \in 1 .. Len(list) : list[k] \in Nodes
  BY <1>0, <1>1 DEF Linked
<1>3. ASSUME NEW k \in 1 .. m
      PROVE  q[k] \notin {NULL, head} /\ q[k + 1] = prev[q[k]]
  <2>1. /\ k \in 1 .. c /\ k + 1 \in 1 .. c /\ c - k \in 1 .. Len(list) - 1
        /\ c - k + 1 \in 1 .. Len(list) /\ c - (k + 1) + 1 = c - k
        /\ c - k + 1 # 1 /\ 1 \in 1 .. Len(list)
    BY <1>1
  <2>2. q[k] = list[c - k + 1] /\ q[k + 1] = list[c - k]
    BY <2>1
  <2>3. prev[list[c - k + 1]] = list[c - k]
    BY <1>0, <2>1 DEF Linked
  <2>4. list[c - k + 1] # list[1] /\ list[1] = head
    BY <1>0, <2>1 DEF Linked
  <2>. QED
    BY <1>2, <2>1, <2>2, <2>3, <2>4, ViewerAssumption
<1>4. q[m + 1] = head
  <2>1. m + 1 \in 1 .. c /\ c - (m + 1) + 1 = 1
    BY <1>1
  <2>. QED
    BY <1>0, <2>1 DEF Linked
<1>5. q[1] = curr
  <2>1. 1 \in 1 .. c /\ c - 1 + 1 = c
    BY <1>1
  <2>. QED
    BY <2>1 DEF list
<1>6. Walk(q[1], prev, head) = [k \in 1 .. m |-> q[k]]
  <2>. HIDE DEF q, m
  <2>1. Path(q, m, prev, head)
    BY <1>3, <1>4 DEF Path
  <2>. QED
    BY <1>1, <2>1, WalkIs
<1>7. \A k \in 1 .. m : q[k] = list[c - k + 1]
  BY <1>1
<1>. QED
  <2>. HIDE DEF q
  <2>. QED
    BY <1>5, <1>6, <1>7 DEF Behind, list

(* What draw_data writes: in row r a visible node before the cursor, and in *)
(* the row below the next visible one after it, but for the last row.      *)
RowsDrawn(height) ==
  \E c \in 1 .. Len(List) :
    /\ List[c] = curr
    /\ \A r \in DOMAIN rows' : r \in 0 .. height - 1 /\
         \E i \in 1 .. c - 1 :
           /\ rows'[r] = List[i] /\ Shown(List[i])
           /\ r < height - 1 =>
                /\ r + 1 \in DOMAIN rows'
                /\ \E j \in i + 1 .. c : /\ rows'[r + 1] = List[j]
                                       /\ \A x \in i + 1 .. j - 1 : ~Shown(List[x])

(* The loop of draw_data does so. *)
LEMMA DrawRowsDrawn ==
  ASSUME ListInv, curr \in live, NEW height \in Nat, DrawRows(height)
  PROVE  RowsDrawn(height)
<1>1. Len(List) \in Nat \ {0} /\ live = {List[k] : k \in 1 .. Len(List)}
  BY LinkedLen DEF ListInv, Linked
<1>2. PICK c \in 1 .. Len(List) : List[c] = curr
  BY <1>1
<1>. DEFINE m     == c - 1
            nodes == [k \in 1 .. m |-> List[c - k + 1]]
            shown == {k \in 1 .. m : Shown(nodes[k])}
            Takes(k, r) == Before(shown, k) + r = height
            used == {r \in 0 .. height - 1 : \E k \in shown : Takes(k, r)}
<1>3. rows' = [r \in used |-> nodes[CHOOSE k \in shown : Takes(k, r)]]
  <2>1. Behind(curr) = nodes /\ DOMAIN nodes = 1 .. m
    BY <1>2, BehindIs
  <2>. HIDE DEF nodes, m
  <2>. QED
    BY <2>1 DEF DrawRows, Before
<1>4. m \in Nat /\ c \in Nat /\ shown \in SUBSET (1 .. m) /\ \A k \in shown : k \in 1 .. m
  BY <1>1
<1>5. ASSUME NEW k \in shown PROVE Before(shown, k) \in Nat
  <2>1. IsFiniteSet(shown)
    <3>. HIDE DEF shown, m
    <3>1. IsFiniteSet(1 .. m)
      BY <1>4, FS_Interval
    <3>. QED
      BY <1>4, <3>1, FS_Subset
  <2>. HIDE DEF shown
  <2>2. IsFiniteSet({j \in shown : j < k})
    BY <2>1, FS_Subset
  <2>. QED
    BY <2>2, FS_CardinalityType DEF Before
<1>6. ASSUME NEW k \in shown, NEW r \in 0 .. height - 1, Takes(k, r)
      PROVE  r \in DOMAIN rows' /\ rows'[r] = nodes[k]
  <2>1. r \in used
    BY <1>6
  <2>2. PICK y : y \in shown /\ Takes(y, r) /\ y = CHOOSE z \in shown : Takes(z, r)
    BY <1>6
  <2>3. y = k
    <3>1. Before(shown, y) = Before(shown, k)
      <4>. HIDE DEF shown
      <4>. QED
        BY <1>5, <1>6, <2>2
    <3>2. y \in 1 .. m /\ k \in 1 .. m
      BY <1>4, <2>2
    <3>. HIDE DEF shown, m, Takes
    <3>3. ~ (y < k)
      <4>1. y < k => Before(shown, y) \in Nat /\ Before(shown, y) < Before(shown, k)
        BY <1>4, <2>2, BeforeLess
      <4>. QED
        BY <3>1, <4>1
    <3>4. ~ (k < y)
      <4>1. k < y => Before(shown, k) \in Nat /\ Before(shown, k) < Before(shown, y)
        BY <1>4, <2>2, BeforeLess
      <4>. QED
        BY <3>1, <4>1
    <3>. QED
      BY <3>2, <3>3, <3>4
  <2>4. rows'[r] = nodes[y]
    <3>. HIDE DEF used, shown, nodes, Takes
    <3>. QED
      BY <1>3, <2>1, <2>2
  <2>5. DOMAIN rows' = used
    <3>. HIDE DEF used, shown, nodes, Takes
    <3>. QED
      BY <1>3
  <2>. QED
    <3>. HIDE DEF used, shown, nodes, Takes
    <3>. QED
      BY <2>1, <2>3, <2>4, <2>5
<1>7. DOMAIN rows' = used
  <2>. HIDE DEF used, shown, nodes, Takes
  <2>. QED
    BY <1>3
<1>8. ASSUME NEW r \in used
      PROVE  \E i \in 1 .. c - 1 :
               /\ rows'[r] = List[i] /\ Shown(List[i])
               /\ r < height - 1 =>
                    /\ r + 1 \in DOMAIN rows'
                    /\ \E j \in i + 1 .. c : /\ rows'[r + 1] = List[j]
                                           /\ \A x \in i + 1 .. j - 1 : ~Shown(List[x])
  <2>1. PICK k \in shown : Before(shown, k) + r = height
    BY <1>8
  <2>0. r \in 0 .. height - 1
    BY <1>8
  <2>2. rows'[r] = nodes[k] /\ k \in 1 .. m /\ Shown(nodes[k])
    BY <1>6, <2>0, <2>1
  <2>3. Before(shown, k) \in Nat /\ Before(shown, k) # 0
    <3>. HIDE DEF shown
    <3>. QED
      BY <1>5, <2>0, <2>1
  <2>4. PICK y \in shown : /\ y < k /\ Before(shown, k) = Before(shown, y) + 1
                          /\ Before(shown, y) \in Nat
                          /\ \A i \in shown : ~ (y < i /\ i < k)
    <3>. HIDE DEF shown, m
    <3>. QED
      BY <1>4, <2>1, <2>3, BeforeStep
  <2>5. y \in 1 .. m /\ y \in Int /\ k \in Int /\ c \in Int
    BY <1>4, <2>2, <2>4
  <2>6. k # 1 /\ c - k + 1 \in 1 .. c - 1 /\ c - y + 1 \in c - k + 1 + 1 .. c
    BY <2>2, <2>4, <2>5
  <2>7. nodes[k] = List[c - k + 1] /\ nodes[y] = List[c - y + 1]
    BY <2>2, <2>5
  <2>8. ASSUME r < height - 1
        PROVE  /\ r + 1 \in DOMAIN rows' /\ rows'[r + 1] = List[c - y + 1]
               /\ \A x \in c - k + 1 + 1 .. c - y + 1 - 1 : ~Shown(List[x])
    <3>1. r + 1 \in 0 .. height - 1 /\ Before(shown, y) + (r + 1) = height
      <4>. HIDE DEF shown
      <4>. QED
        BY <2>0, <2>1, <2>4, <2>8
    <3>2. r + 1 \in DOMAIN rows' /\ rows'[r + 1] = nodes[y]
      BY <1>6, <3>1
    <3>3. ASSUME NEW x \in c - k + 1 + 1 .. c - y + 1 - 1, Shown(List[x])
          PROVE  FALSE
      <4>1. c - x + 1 \in 1 .. m /\ y < c - x + 1 /\ c - x + 1 < k /\ c - (c - x + 1) + 1 = x
        <5>1. x \in Int /\ c - k + 2 <= x /\ x <= c - y /\ 1 <= y /\ k <= c - 1
          BY <2>2, <2>5, <3>3
        <5>. QED
          BY <2>5, <5>1
      <4>2. nodes[c - x + 1] = List[x]
        BY <4>1
      <4>3. c - x + 1 \in shown
        BY <3>3, <4>1, <4>2
      <4>. QED
        BY <2>4, <4>1, <4>3
    <3>. QED
      BY <2>7, <3>2, <3>3
  <2>. HIDE DEF nodes, shown, used
  <2>. QED
    BY <2>2, <2>6, <2>7, <2>8
<1>9. ASSUME NEW r \in used PROVE r \in 0 .. height - 1
  BY <1>9
<1>. QED
  <2>. HIDE DEF nodes, shown, used
  <2>. QED
    BY <1>2, <1>7, <1>8, <1>9 DEF RowsDrawn

-----------------------------------------------------------------------------
(* The invariant holds                                                     *)

(* main's list has one node. *)
LEMMA InitInv == Init => ViewerInv
<1>. SUFFICES ASSUME Init PROVE ViewerInv
  OBVIOUS
<1>1. TypeOK
  <2>1. Blank \in [Nodes -> Infos \cup {NULL}] /\ Blank \in [Nodes -> Nodes \cup {NULL}]
    BY DEF Blank
  <2>2. \A r \in DOMAIN rows : r \in Nat /\ rows[r] \in Nodes
    BY DEF Init
  <2>3. live \subseteq Nodes /\ {head, curr, tail} \subseteq Nodes
    BY DEF Init
  <2>4. total_nodes \in 0 .. MemLimit
    BY NType DEF Init
  <2>. QED
    BY <2>1, <2>2, <2>3, <2>4 DEF Init, TypeOK
<1>2. ListInv
  <2>1. Linked(<<head>>, {head}, head, head, prev, next)
    <3>. DEFINE s == <<head>>
    <3>1. head \in Nodes /\ next[head] = NULL
      BY DEF Init, Blank
    <3>2. s \in Seq(Nodes) /\ Len(s) = 1 /\ s[1] = head /\ 1 .. 1 = {1}
      BY <3>1
    <3>. HIDE DEF s
    <3>3. {head} = {s[k] : k \in 1 .. Len(s)}
      BY <3>2
    <3>4. \A j, k \in 1 .. Len(s) : s[j] = s[k] => j = k
      BY <3>2
    <3>5. \A k \in 1 .. Len(s) - 1 : next[s[k]] = s[k + 1] /\ prev[s[k + 1]] = s[k]
      BY <3>2
    <3>. QED
      BY <3>1, <3>2, <3>3, <3>4, <3>5 DEF Linked, s
  <2>2. List = <<head>>
    BY <2>1, LinkedWalk DEF List
  <2>. QED
    BY <2>1, <2>2 DEF ListInv, Init
<1>3. NodesInv
  BY DEF Init, NodesInv, Blank
<1>4. ResizeInv
  BY DEF Init, ResizeInv
<1>. QED
  BY <1>1, <1>2, <1>3, <1>4 DEF ViewerInv

(* Nothing but an event changes the list. *)
LEMMA ListStays ==
  ASSUME ListInv, NodesInv, UNCHANGED listVars
  PROVE  ListInv' /\ NodesInv' /\ List' = List
<1>1. List' = List
  BY DEF List, listVars
<1>2. ListInv'
  BY <1>1 DEF ListInv, listVars
<1>3. NodesInv'
  BY DEF NodesInv, listVars
<1>. QED
  BY <1>1, <1>2, <1>3

(* The first event goes into the node that is there. *)
LEMMA FirstAdded ==
  ASSUME TypeOK, ListInv, NodesInv, NEW i \in Infos, AddFirst(i)
  PROVE  /\ total_nodes = 0 /\ live = {head} /\ total_nodes' = 1 /\ head \in Nodes
         /\ info' = [info EXCEPT ![head] = i]
         /\ UNCHANGED <<live, prev, next, head, tail, curr>>
         /\ ListInv' /\ NodesInv' /\ List' = List
<1>1. head \in live /\ head \in Nodes
  BY LinkedLen DEF ListInv, TypeOK
<1>2. total_nodes = 0 /\ live = {head}
  BY <1>1 DEF NodesInv, AddFirst
<1>3. total_nodes' = 1 /\ info' = [info EXCEPT ![head] = i]
  BY <1>2 DEF AddFirst
<1>4. UNCHANGED <<live, prev, next, head, tail, curr>>
  BY DEF AddFirst
<1>5. List' = List
  BY <1>4 DEF List
<1>6. ListInv'
  BY <1>4, <1>5 DEF ListInv
<1>7. NodesInv'
  <2>1. live' = {head} /\ info'[head] = i /\ i # NULL
    BY <1>1, <1>2, <1>3, <1>4, ViewerAssumption DEF TypeOK
  <2>2. Cardinality(live') = 1
    BY <2>1, FS_Singleton
  <2>. QED
    BY <1>3, <2>1, <2>2 DEF NodesInv
<1>. QED
  BY <1>1, <1>2, <1>3, <1>4, <1>5, <1>6, <1>7

(* The list is one again when add_data has put a node behind it. *)
LEMMA NodeAddedInv ==
  ASSUME TypeOK, ListInv, NodesInv, NEW i \in Infos, AddNode(i)
  PROVE  ListInv' /\ NodesInv' /\ total_nodes' \in 0 .. MemLimit
<1>1. PICK in \in Nodes \ (live \ Dropped) :
        /\ live' = (live \ Dropped) \cup {in}
        /\ Linked(Append(Kept, in), live', head', tail', prev', next')
        /\ List' = Append(Kept, in)
        /\ info' = [n \in Nodes |-> IF n = in THEN i
                                    ELSE IF n \in Dropped THEN NULL ELSE info[n]]
  BY NodeAdded
<1>2. ListInv'
  <2>1. Linked(List', live', head', tail', prev', next')
    BY <1>1
  <2>. QED
    BY <2>1 DEF ListInv
<1>3. info[head] # NULL /\ total_nodes' = IF Full THEN total_nodes ELSE total_nodes + 1
  BY DEF AddNode
<1>4. /\ Len(List) \in Nat \ {0} /\ List \in Seq(Nodes)
      /\ Cardinality(live) = Len(List) /\ head \in live /\ live \subseteq Nodes
  <2>1. List \in Seq(Nodes)
    BY DEF ListInv, Linked
  <2>. QED
    BY <2>1, LinkedLen DEF ListInv
<1>5. total_nodes = Len(List) /\ \A n \in live : info[n] # NULL
  BY <1>3, <1>4 DEF NodesInv
<1>6. Cardinality(live') = Len(Append(Kept, in))
  BY <1>1, LinkedLen
<1>7. Linked(Kept, live \ Dropped, KeptHead, tail, prev, next)
  BY <1>3, KeptLinked
<1>8. Len(Append(Kept, in)) = Len(Kept) + 1
  BY <1>7 DEF Linked
<1>9. Len(Kept) + 1 = total_nodes'
  <2>1. CASE Full
    <3>1. Len(Tail(List)) = Len(List) - 1
      BY <1>4, HeadTailProperties
    <3>. QED
      BY <1>3, <1>4, <1>5, <2>1, <3>1 DEF Kept
  <2>2. CASE ~Full
    BY <1>3, <1>5, <2>2 DEF Kept
  <2>. QED
    BY <2>1, <2>2
<1>10. \A n \in live' : info'[n] # NULL
  <2>1. ASSUME NEW n \in live' PROVE info'[n] # NULL
    <3>1. n \in Nodes /\ (n = in \/ (n \in live /\ n \notin Dropped))
      BY <1>1, <1>4
    <3>2. i # NULL
      BY ViewerAssumption
    <3>3. info'[n] = IF n = in THEN i ELSE IF n \in Dropped THEN NULL ELSE info[n]
      BY <1>1, <3>1
    <3>. QED
      BY <1>5, <3>1, <3>2, <3>3
  <2>. QED
    BY <2>1
<1>11. NodesInv'
  BY <1>6, <1>8, <1>9, <1>10 DEF NodesInv
<1>12. total_nodes' \in 0 .. MemLimit
  <2>1. total_nodes \in Nat /\ total_nodes <= MemLimit
    BY NType DEF TypeOK
  <2>. QED
    BY <1>3, <2>1, NType DEF Full
<1>. QED
  BY <1>2, <1>11, <1>12

(* What draw_data writes are nodes. *)
LEMMA RowsType ==
  ASSUME ListInv, NEW height \in Nat, RowsDrawn(height)
  PROVE  \A r \in DOMAIN rows' : r \in Nat /\ rows'[r] \in Nodes
<1>1. Len(List) \in Nat \ {0} /\ \A k \in 1 .. Len(List) : List[k] \in Nodes
  <2>1. Len(List) \in Nat \ {0} /\ DOMAIN List = 1 .. Len(List)
    BY LinkedLen DEF ListInv
  <2>2. List \in Seq(Nodes)
    BY DEF ListInv, Linked
  <2>. QED
    BY <2>1, <2>2
<1>2. PICK c \in 1 .. Len(List) :
        \A r \in DOMAIN rows' : r \in 0 .. height - 1 /\
          \E i \in 1 .. c - 1 :
            /\ rows'[r] = List[i] /\ Shown(List[i])
            /\ r < height - 1 =>
                 /\ r + 1 \in DOMAIN rows'
                 /\ \E j \in i + 1 .. c : /\ rows'[r + 1] = List[j]
                                        /\ \A x \in i + 1 .. j - 1 : ~Shown(List[x])
  BY DEF RowsDrawn
<1>3. ASSUME NEW r \in DOMAIN rows' PROVE r \in Nat /\ rows'[r] \in Nodes
  <2>1. r \in 0 .. height - 1
    BY <1>2
  <2>2. PICK i \in 1 .. c - 1 : rows'[r] = List[i]
    BY <1>2, Zenon
  <2>3. i \in 1 .. Len(List)
    BY <1>1
  <2>. QED
    BY <1>1, <2>1, <2>2, <2>3
<1>. QED
  BY <1>3

(* One step preserves the types.  Only draw_data writes rows, only the     *)
(* keys and auto-scroll move the cursor.                                   *)
LEMMA TypeStep ==
  ASSUME TypeOK, ListInv, NodesInv, [Next]_vars
  PROVE  TypeOK'
<1>0. win_data_height \in Nat /\ live \subseteq Nodes
  BY ViewerAssumption DEF TypeOK
<1>1. CASE SocketReady
  BY <1>1 DEF SocketReady, listVars, resizeVars, TypeOK
<1>2. ASSUME NEW i \in Infos, AddData(i) PROVE TypeOK'
  <2>0. UNCHANGED <<place, rows, resizeVars>>
    BY <1>2 DEF AddData
  <2>1. CASE AddFirst(i)
    <3>1. /\ total_nodes' = 1 /\ info' = [info EXCEPT ![head] = i]
          /\ UNCHANGED <<live, prev, next, head, tail, curr>>
      BY <2>1, FirstAdded
    <3>2. total_nodes' \in 0 .. MemLimit
      BY <3>1, NType
    <3>. QED
      BY <2>0, <3>1, <3>2 DEF TypeOK, resizeVars
  <2>2. CASE AddNode(i)
    <3>1. total_nodes' \in 0 .. MemLimit /\ ListInv'
      BY <2>2, NodeAddedInv
    <3>2. PICK in \in Nodes :
            /\ live' = (live \ Dropped) \cup {in}
            /\ info' = [n \in Nodes |-> IF n = in THEN i
                                        ELSE IF n \in Dropped THEN NULL ELSE info[n]]
            /\ curr' = IF curr = tail THEN in ELSE curr
      BY <2>2, NodeAdded
    <3>3. head' \in Nodes /\ tail' \in Nodes /\ live' \subseteq Nodes
      <4>1. Linked(List', live', head', tail', prev', next')
        BY <3>1 DEF ListInv
      <4>. QED
        BY <4>1, LinkedLen
    <3>4. info' \in [Nodes -> Infos \cup {NULL}] /\ curr' \in Nodes
      BY <3>2 DEF TypeOK
    <3>5. \E x \in Nodes : \E old : Link(x, old)
      BY <2>2 DEF AddNode
    <3>6. prev' \in [Nodes -> Nodes \cup {NULL}] /\ next' \in [Nodes -> Nodes \cup {NULL}]
      BY <3>5 DEF Link, TypeOK
    <3>. QED
      BY <2>0, <3>1, <3>3, <3>4, <3>6 DEF TypeOK, resizeVars
  <2>. QED
    BY <1>2, <2>1, <2>2 DEF AddData
<1>3. CASE AddFails
  BY <1>3 DEF AddFails, listVars, resizeVars, TypeOK
<1>4. CASE SocketEmpty
  BY <1>4 DEF SocketEmpty, listVars, resizeVars, TypeOK
<1>5. ASSUME NEW step, NEW end, Move(step, end) PROVE TypeOK'
  <2>1. curr' \in Nodes /\ place' \in {"wild", "draw"}
    BY <1>0, <1>5 DEF Move, TypeOK
  <2>2. UNCHANGED <<listVars, rows, resizeVars>>
    BY <1>5 DEF Move
  <2>. QED
    BY <2>1, <2>2 DEF listVars, resizeVars, TypeOK
<1>6. CASE KeyUp \/ KeyDown
  BY <1>5, <1>6 DEF KeyUp, KeyDown
<1>7. CASE OtherKey
  BY <1>7 DEF OtherKey, listVars, resizeVars, TypeOK
<1>8. CASE Quit
  BY <1>8 DEF Quit, listVars, resizeVars, TypeOK
<1>9. CASE DrawData
  <2>1. \A r \in DOMAIN rows' : r \in Nat /\ rows'[r] \in Nodes
    <3>1. CASE rows' = rows
      BY <3>1 DEF TypeOK
    <3>2. CASE rows' # rows
      <4>1. curr \in live /\ DrawRows(win_data_height)
        BY <1>9, <3>2 DEF DrawData
      <4>. QED
        BY <1>0, <4>1, DrawRowsDrawn, RowsType
    <3>. QED
      BY <3>1, <3>2
  <2>2. /\ place' \in {"resized", "wait", "wild"} /\ win_data_height' \in Heights
        /\ missed' \in BOOLEAN
        /\ UNCHANGED <<listVars, curr, scheduled_resize, lines>>
    BY <1>9 DEF DrawData, TypeOK
  <2>. QED
    BY <2>1, <2>2 DEF listVars, TypeOK
<1>10. CASE ClearFlag
  <2>1. \A r \in DOMAIN rows' : r \in Nat /\ rows'[r] \in Nodes
    <3>1. CASE rows' = rows
      BY <3>1 DEF TypeOK
    <3>2. CASE rows' # rows
      <4>1. curr \in live /\ DrawRows(win_data_height)
        BY <1>10, <3>2 DEF ClearFlag
      <4>. QED
        BY <1>0, <4>1, DrawRowsDrawn, RowsType
    <3>. QED
      BY <3>1, <3>2
  <2>2. /\ place' \in {"wait", "wild"} /\ scheduled_resize' = FALSE
        /\ UNCHANGED <<listVars, curr, lines, win_data_height, missed>>
    BY <1>10 DEF ClearFlag, TypeOK
  <2>. QED
    BY <2>1, <2>2 DEF listVars, TypeOK
<1>11. CASE ScheduleResize
  <2>1. lines' \in Heights /\ scheduled_resize' = TRUE /\ missed' \in BOOLEAN
    BY <1>11 DEF ScheduleResize, TypeOK
  <2>2. UNCHANGED <<place, listVars, curr, rows, win_data_height>>
    BY <1>11 DEF ScheduleResize
  <2>. QED
    BY <2>1, <2>2 DEF listVars, TypeOK
<1>12. CASE UNCHANGED vars
  BY <1>12 DEF vars, listVars, resizeVars, TypeOK
<1>. QED
  BY <1>1, <1>2, <1>3, <1>4, <1>6, <1>7, <1>8, <1>9, <1>10, <1>11, <1>12 DEF Next

(* The only steps that are not a stutter for the list. *)
LEMMA OnlyEvents ==
  ASSUME [Next]_vars
  PROVE  \/ UNCHANGED listVars
         \/ \E i \in Infos : AddData(i)
BY DEF Next, SocketReady, AddFails, SocketEmpty, KeyUp, KeyDown, Move, OtherKey, Quit,
       DrawData, ClearFlag, ScheduleResize, vars, listVars

(* One step preserves the list. *)
LEMMA ListStep ==
  ASSUME TypeOK, ListInv, NodesInv, [Next]_vars
  PROVE  ListInv' /\ NodesInv'
<1>1. CASE UNCHANGED listVars
  BY <1>1, ListStays
<1>2. ASSUME NEW i \in Infos, AddData(i) PROVE ListInv' /\ NodesInv'
  BY <1>2, FirstAdded, NodeAddedInv DEF AddData
<1>. QED
  BY <1>1, <1>2, OnlyEvents

(* One step preserves what is known of the window. *)
LEMMA ResizeStep ==
  ASSUME TypeOK, ResizeInv, [Next]_vars
  PROVE  ResizeInv'
<1>1. CASE place' # "resized" /\ UNCHANGED resizeVars
  BY <1>1 DEF ResizeInv, resizeVars
<1>2. CASE DrawData
  BY <1>2 DEF DrawData, ResizeInv
<1>3. CASE ClearFlag
  BY <1>3 DEF ClearFlag, ResizeInv
<1>4. CASE ScheduleResize
  BY <1>4 DEF ScheduleResize, ResizeInv, TypeOK
<1>5. CASE UNCHANGED vars
  BY <1>5 DEF vars, resizeVars, ResizeInv
<1>. QED
  BY <1>1, <1>2, <1>3, <1>4, <1>5
  DEF Next, SocketReady, AddData, AddFails, SocketEmpty, KeyUp, KeyDown, Move, OtherKey, Quit

(* The inductive invariant: types, the list, its events, the window. *)
THEOREM ViewerInvariant == Spec => []ViewerInv
<1>1. ViewerInv /\ [Next]_vars => ViewerInv'
  BY TypeStep, ListStep, ResizeStep DEF ViewerInv
<1>. QED
  BY InitInv, <1>1, PTL DEF Spec

(* The runs' invariants                                                    *)

(* Every variable keeps its type: no pointer member ever leads elsewhere   *)
(* than to a node or to NULL, and add_data keeps no more than MEM_LIMIT.   *)
THEOREM TypeCorrect == Spec => []TypeOK
BY ViewerInvariant, PTL DEF ViewerInv

(* The list that add_data builds: from head to tail over all the nodes     *)
(* allocated and back, as many as total_nodes says, each with an event.    *)
THEOREM ListCorrect == Spec => []ListLinked
<1>1. ViewerInv => ListLinked
  <2>. SUFFICES ASSUME ViewerInv PROVE ListLinked
    OBVIOUS
  <2>1. /\ Len(List) \in Nat \ {0} /\ DOMAIN List = 1 .. Len(List)
        /\ Cardinality(live) = Len(List) /\ IsFiniteSet(live) /\ head \in live
    BY LinkedLen DEF ViewerInv, ListInv
  <2>2. Linked(List, live, head, tail, prev, next)
    BY DEF ViewerInv, ListInv
  <2>3. {List[k] : k \in DOMAIN List} = live /\ List[Len(List)] = tail
    BY <2>1, <2>2 DEF Linked
  <2>4. ASSUME NEW k \in 2 .. Len(List) PROVE prev[List[k]] = List[k - 1]
    <3>1. k - 1 \in 1 .. Len(List) - 1 /\ k - 1 + 1 = k
      BY <2>1
    <3>. QED
      BY <2>2, <3>1 DEF Linked
  <2>5. /\ total_nodes = Cardinality({n \in live : info[n] # NULL})
        /\ total_nodes # 0 => total_nodes = Len(List)
    <3>1. CASE total_nodes = 0 /\ live = {head} /\ info[head] = NULL
      <4>1. {n \in live : info[n] # NULL} = {}
        BY <3>1
      <4>. QED
        BY <3>1, <4>1, FS_EmptySet
    <3>2. CASE total_nodes = Cardinality(live) /\ \A n \in live : info[n] # NULL
      <4>1. {n \in live : info[n] # NULL} = live
        BY <3>2
      <4>. QED
        BY <2>1, <3>2, <4>1
    <3>. QED
      BY <3>1, <3>2 DEF ViewerInv, NodesInv
  <2>. QED
    BY <2>1, <2>3, <2>4, <2>5 DEF ListLinked
<1>. QED
  BY ViewerInvariant, <1>1, PTL

(* A resize is not lost, unless SIGWINCH came between the two steps in     *)
(* which draw_data handles the one before.                                 *)
THEOREM ResizeCorrect == Spec => []ResizeSeen
<1>1. ViewerInv => ResizeSeen
  BY DEF ViewerInv, ResizeInv, ResizeSeen
<1>. QED
  BY ViewerInvariant, <1>1, PTL

-----------------------------------------------------------------------------
(* What a step may do                                                      *)

(* Auto-scroll takes the cursor along if and only if it was on the last    *)
(* event.                                                                  *)
THEOREM FollowsCorrect == Spec => Follows
<1>1. ViewerInv /\ [Next]_vars =>
        [tail' # tail => curr' = (IF curr = tail THEN tail' ELSE curr)]_vars
  <2>. SUFFICES ASSUME ViewerInv, [Next]_vars, tail' # tail
                PROVE  curr' = IF curr = tail THEN tail' ELSE curr
    OBVIOUS
  <2>1. PICK i \in Infos : AddData(i)
    BY OnlyEvents DEF listVars
  <2>2. CASE AddFirst(i)
    BY <2>2 DEF AddFirst
  <2>3. CASE AddNode(i)
    BY <2>3, NodeAdded DEF ViewerInv
  <2>. QED
    BY <2>1, <2>2, <2>3 DEF AddData
<1>. QED
  BY ViewerInvariant, <1>1, PTL DEF Spec, Follows

(* The place of a node in the list. *)
LEMMA IndexIs ==
  ASSUME ListInv, NEW i \in 1 .. Len(List)
  PROVE  Index(List[i]) = i
<1>1. DOMAIN List = 1 .. Len(List)
  BY LinkedLen DEF ListInv
<1>2. \A j, k \in 1 .. Len(List) : List[j] = List[k] => j = k
  BY DEF ListInv, Linked
<1>. QED
  BY <1>1, <1>2 DEF Index

(* draw_data writes the visible events before the cursor, from the bottom  *)
(* up in their order, and leaves no line empty in between.                 *)
THEOREM RowsCorrect == Spec => RowsInOrder
<1>. DEFINE InOrder ==
       \A r \in DOMAIN rows' :
         /\ Shown(rows'[r]) /\ Index(rows'[r]) < Index(curr)
         /\ r < win_data_height - 1 =>
              /\ r + 1 \in DOMAIN rows'
              /\ Index(rows'[r]) < Index(rows'[r + 1])
              /\ \A n \in live : Index(n) \in Index(rows'[r]) + 1 .. Index(rows'[r + 1]) - 1
                                   => ~Shown(n)
<1>1. ASSUME ViewerInv, RowsDrawn(win_data_height) PROVE InOrder
  <2>1. /\ ListInv /\ Len(List) \in Nat \ {0} /\ live = {List[k] : k \in 1 .. Len(List)}
        /\ win_data_height \in Nat
    <3>1. ListInv /\ win_data_height \in Nat
      BY <1>1, ViewerAssumption DEF ViewerInv, TypeOK
    <3>2. Len(List) \in Nat \ {0}
      BY <3>1, LinkedLen DEF ListInv
    <3>3. live = {List[k] : k \in 1 .. Len(List)}
      BY <3>1 DEF ListInv, Linked
    <3>. QED
      BY <3>1, <3>2, <3>3
  <2>2. PICK c \in 1 .. Len(List) :
          /\ List[c] = curr
          /\ \A r \in DOMAIN rows' : r \in 0 .. win_data_height - 1 /\
               \E i \in 1 .. c - 1 :
                 /\ rows'[r] = List[i] /\ Shown(List[i])
                 /\ r < win_data_height - 1 =>
                      /\ r + 1 \in DOMAIN rows'
                      /\ \E j \in i + 1 .. c : /\ rows'[r + 1] = List[j]
                                             /\ \A x \in i + 1 .. j - 1 : ~Shown(List[x])
    BY <1>1 DEF RowsDrawn
  <2>3. Index(curr) = c
    BY <2>1, <2>2, IndexIs
  <2>4. ASSUME NEW r \in DOMAIN rows'
        PROVE  /\ Shown(rows'[r]) /\ Index(rows'[r]) < Index(curr)
               /\ r < win_data_height - 1 =>
                    /\ r + 1 \in DOMAIN rows'
                    /\ Index(rows'[r]) < Index(rows'[r + 1])
                    /\ \A n \in live :
                         Index(n) \in Index(rows'[r]) + 1 .. Index(rows'[r + 1]) - 1
                           => ~Shown(n)
    <3>1. PICK i \in 1 .. c - 1 :
            /\ rows'[r] = List[i] /\ Shown(List[i])
            /\ r < win_data_height - 1 =>
                 /\ r + 1 \in DOMAIN rows'
                 /\ \E j \in i + 1 .. c : /\ rows'[r + 1] = List[j]
                                        /\ \A x \in i + 1 .. j - 1 : ~Shown(List[x])
      BY <2>2
    <3>2. i \in 1 .. Len(List) /\ i < c
      BY <2>1
    <3>3. Index(rows'[r]) = i
      BY <2>1, <3>1, <3>2, IndexIs
    <3>4. ASSUME r < win_data_height - 1
          PROVE  /\ r + 1 \in DOMAIN rows'
                 /\ Index(rows'[r]) < Index(rows'[r + 1])
                 /\ \A n \in live :
                      Index(n) \in Index(rows'[r]) + 1 .. Index(rows'[r + 1]) - 1
                        => ~Shown(n)
      <4>1. PICK j \in i + 1 .. c : /\ rows'[r + 1] = List[j]
                                   /\ \A x \in i + 1 .. j - 1 : ~Shown(List[x])
        BY <3>1, <3>4
      <4>2. j \in 1 .. Len(List) /\ i < j
        BY <2>1, <3>2
      <4>3. Index(rows'[r + 1]) = j
        BY <2>1, <4>1, <4>2, IndexIs
      <4>4. ASSUME NEW n \in live, Index(n) \in i + 1 .. j - 1 PROVE ~Shown(n)
        <5>1. PICK x \in 1 .. Len(List) : List[x] = n
          BY <2>1
        <5>2. Index(n) = x
          BY <2>1, <5>1, IndexIs
        <5>. QED
          BY <4>1, <4>4, <5>1, <5>2
      <4>. QED
        BY <3>1, <3>3, <3>4, <4>2, <4>3, <4>4
    <3>. QED
      BY <2>3, <3>1, <3>2, <3>3, <3>4
  <2>. QED
    BY <2>4
<1>2. ViewerInv /\ [Next]_vars => [rows' # rows => InOrder]_vars
  <2>. SUFFICES ASSUME ViewerInv, [Next]_vars, rows' # rows PROVE InOrder
    OBVIOUS
  <2>1. curr \in live /\ DrawRows(win_data_height)
    BY DEF Next, SocketReady, AddData, AddFails, SocketEmpty, KeyUp, KeyDown, Move,
           OtherKey, Quit, DrawData, ClearFlag, ScheduleResize, vars
  <2>2. win_data_height \in Nat
    BY ViewerAssumption DEF ViewerInv, TypeOK
  <2>3. RowsDrawn(win_data_height)
    BY <2>1, <2>2, DrawRowsDrawn DEF ViewerInv
  <2>. QED
    BY <1>1, <2>3
<1>. QED
  BY ViewerInvariant, <1>2, PTL DEF Spec, RowsInOrder

-----------------------------------------------------------------------------
(* The keys                                                                *)

(* g is x0 at 0 and goes on as F says, up to m. *)
Iterates(g, m, x0, F) == g[0] = x0 /\ \A k \in 1 .. m : g[k] = F[<<k, g[k - 1]>>]

(* There is such a function. *)
LEMMA Iterate ==
  ASSUME NEW X, NEW x0 \in X, NEW F \in [Nat \X X -> X], NEW m \in Nat
  PROVE  \E g \in [0 .. m -> X] : Iterates(g, m, x0, F)
<1>. DEFINE Upto(j, g) == g[0] = x0 /\ \A k \in 1 .. j : g[k] = F[<<k, g[k - 1]>>]
            S == {j \in Nat : \E g \in [0 .. j -> X] : Upto(j, g)}
<1>1. 0 \in S
  <2>. DEFINE g == [k \in 0 .. 0 |-> x0]
  <2>1. g \in [0 .. 0 -> X] /\ Upto(0, g)
    OBVIOUS
  <2>. QED
    BY <2>1
<1>2. ASSUME NEW j \in Nat, j \in S PROVE j + 1 \in S
  <2>1. PICK g \in [0 .. j -> X] : Upto(j, g)
    BY <1>2
  <2>. DEFINE y == F[<<j + 1, g[j]>>]
              h == [k \in 0 .. j + 1 |-> IF k = j + 1 THEN y ELSE g[k]]
  <2>2. g[j] \in X /\ <<j + 1, g[j]>> \in Nat \X X
    BY <2>1
  <2>3. y \in X
    BY <2>2
  <2>4. h \in [0 .. j + 1 -> X]
    <3>1. ASSUME NEW k \in 0 .. j + 1, k # j + 1 PROVE g[k] \in X
      <4>1. k \in 0 .. j
        BY <3>1
      <4>. QED
        BY <4>1
    <3>. HIDE DEF y
    <3>. QED
      BY <2>3, <3>1
  <2>5. h[0] = x0
    BY <2>1
  <2>6. ASSUME NEW k \in 1 .. j + 1 PROVE h[k] = F[<<k, h[k - 1]>>]
    <3>1. k - 1 \in 0 .. j + 1 /\ k - 1 # j + 1 /\ k \in 0 .. j + 1
      OBVIOUS
    <3>2. h[k - 1] = g[k - 1]
      BY <3>1
    <3>3. CASE k = j + 1
      <4>1. h[k] = y /\ k - 1 = j
        BY <3>1, <3>3
      <4>. QED
        BY <3>2, <3>3, <4>1
    <3>4. CASE k # j + 1
      <4>1. k \in 1 .. j /\ h[k] = g[k]
        BY <3>1, <3>4
      <4>. QED
        BY <2>1, <3>2, <4>1
    <3>. QED
      BY <3>3, <3>4
  <2>. HIDE DEF h
  <2>. QED
    BY <2>4, <2>5, <2>6
<1>3. Nat \subseteq S
  <2>. HIDE DEF S
  <2>. QED
    BY <1>1, <1>2, Induct
<1>. QED
  BY <1>3 DEF Iterates

(* What the function in Seek must satisfy. *)
Seeks(at, step, end) ==
  at = [k \in 0 .. 2 * Cardinality(Nodes) |->
          IF k = 0 THEN step[curr]
          ELSE LET n == at[k - 1]
               IN  IF n \notin live THEN NULL
                   ELSE IF (k > 1 /\ n = end) \/ info[n] \notin Hidden THEN n
                   ELSE step[n]]

(* There is such a function. *)
LEMMA SeeksExists ==
  ASSUME live \subseteq Nodes, curr \in Nodes, NEW end, NEW step \in [Nodes -> Nodes \cup {NULL}]
  PROVE  \E at : Seeks(at, step, end)
<1>. DEFINE X == Nodes \cup {NULL}
            M == 2 * Cardinality(Nodes)
            Go(k, n) == IF n \notin live THEN NULL
                        ELSE IF (k > 1 /\ n = end) \/ info[n] \notin Hidden THEN n
                        ELSE step[n]
            F == [kn \in Nat \X X |-> Go(kn[1], kn[2])]
<1>1. M \in Nat
  BY NType DEF N
<1>2. F \in [Nat \X X -> X]
  <2>1. ASSUME NEW k \in Nat, NEW n \in X PROVE Go(k, n) \in X
    OBVIOUS
  <2>. HIDE DEF Go, X
  <2>. QED
    BY <2>1
<1>3. step[curr] \in X
  OBVIOUS
<1>4. PICK g \in [0 .. M -> X] : /\ g[0] = step[curr]
                                /\ \A k \in 1 .. M : g[k] = F[<<k, g[k - 1]>>]
  <2>. HIDE DEF F, X, M
  <2>1. \E g \in [0 .. M -> X] : Iterates(g, M, step[curr], F)
    BY <1>1, <1>2, <1>3, Iterate
  <2>. QED
    BY <2>1 DEF Iterates
<1>5. ASSUME NEW k \in 0 .. M PROVE g[k] = IF k = 0 THEN step[curr] ELSE Go(k, g[k - 1])
  <2>1. CASE k = 0
    BY <1>4, <2>1
  <2>2. CASE k # 0
    <3>1. k \in 1 .. M /\ k - 1 \in 0 .. M /\ k \in Nat
      <4>. HIDE DEF M
      <4>. QED
        BY <1>1, <2>2
    <3>2. g[k - 1] \in X /\ g[k] = F[<<k, g[k - 1]>>]
      <4>. HIDE DEF F, M, X
      <4>. QED
        BY <1>4, <3>1
    <3>3. F[<<k, g[k - 1]>>] = Go(k, g[k - 1])
      <4>. HIDE DEF Go, X
      <4>. QED
        BY <3>1, <3>2
    <3>. QED
      BY <2>2, <3>2, <3>3
  <2>. QED
    BY <2>1, <2>2
<1>6. g = [k \in 0 .. M |-> g[k]]
  OBVIOUS
<1>7. g = [k \in 0 .. M |-> IF k = 0 THEN step[curr] ELSE Go(k, g[k - 1])]
  <2>. HIDE DEF M, Go
  <2>. QED
    BY <1>5, <1>6
<1>8. Seeks(g, step, end)
  BY <1>7 DEF Seeks
<1>. QED
  BY <1>8

(* A move does not leave the list if no hidden node leads out of it.       *)
LEMMA SeekStays ==
  ASSUME live \subseteq Nodes, curr \in Nodes, NEW end, NEW step \in [Nodes -> Nodes \cup {NULL}],
         step[curr] \in live,
         \A n \in live : info[n] \in Hidden => step[n] \in live
  PROVE  Seek(step, end) \in live
<1>. DEFINE at == CHOOSE f : Seeks(f, step, end)
            M  == 2 * Cardinality(Nodes)
            S  == {k \in Nat : k \in 0 .. M => at[k] \in live}
<1>1. Seeks(at, step, end)
  BY SeeksExists
<1>2. M \in Nat
  BY NType DEF N
<1>3. Seek(step, end) = at[M]
  BY DEF Seek, Seeks
<1>. HIDE DEF at
<1>4. 0 \in S
  BY <1>1 DEF Seeks
<1>5. ASSUME NEW k \in Nat, k \in S PROVE k + 1 \in S
  <2>1. ASSUME k + 1 \in 0 .. M PROVE at[k + 1] \in live
    <3>1. k \in 0 .. M /\ k + 1 # 0 /\ k + 1 - 1 = k
      <4>. HIDE DEF M
      <4>. QED
        BY <1>2, <2>1
    <3>2. at[k] \in live
      BY <1>5, <3>1
    <3>3. at[k + 1] = IF at[k] \notin live THEN NULL
                      ELSE IF (k + 1 > 1 /\ at[k] = end) \/ info[at[k]] \notin Hidden THEN at[k]
                      ELSE step[at[k]]
      BY <1>1, <2>1, <3>1 DEF Seeks
    <3>. QED
      BY <3>2, <3>3
  <2>. QED
    BY <2>1
<1>6. Nat \subseteq S
  <2>. HIDE DEF S
  <2>. QED
    BY <1>4, <1>5, Induct
<1>7. M \in 0 .. M
  <2>. HIDE DEF M
  <2>. QED
    BY <1>2
<1>. QED
  BY <1>2, <1>3, <1>6, <1>7

(* A node of the list has neighbours in it, but for head and tail. *)
LEMMA Neighbours ==
  ASSUME ListInv, NEW n \in live
  PROVE  /\ n # head => prev[n] \in live
         /\ n # tail => next[n] \in live
<1>1. /\ Len(List) \in Nat \ {0} /\ live = {List[k] : k \in 1 .. Len(List)}
      /\ Linked(List, live, head, tail, prev, next)
  BY LinkedLen DEF ListInv, Linked
<1>2. PICK k \in 1 .. Len(List) : List[k] = n
  BY <1>1
<1>3. ASSUME n # head PROVE prev[n] \in live
  <2>1. k # 1
    BY <1>1, <1>2, <1>3 DEF Linked
  <2>2. k - 1 \in 1 .. Len(List) - 1 /\ k - 1 \in 1 .. Len(List) /\ k - 1 + 1 = k
    BY <1>1, <2>1
  <2>3. prev[List[k]] = List[k - 1]
    BY <1>1, <2>2 DEF Linked
  <2>. QED
    BY <1>1, <1>2, <2>2, <2>3
<1>4. ASSUME n # tail PROVE next[n] \in live
  <2>1. k # Len(List)
    BY <1>1, <1>2, <1>4 DEF Linked
  <2>2. k \in 1 .. Len(List) - 1 /\ k + 1 \in 1 .. Len(List)
    BY <1>1, <2>1
  <2>3. next[List[k]] = List[k + 1]
    BY <1>1, <2>2 DEF Linked
  <2>. QED
    BY <1>1, <1>2, <2>2, <2>3
<1>. QED
  BY <1>3, <1>4

(* The keys keep to the list as long as the pointer of head leads nowhere  *)
(* and both ends are visible.                                              *)
THEOREM KeysCorrect == Spec => KeysStayInList
<1>1. ViewerInv /\ [Next]_vars =>
        [place = "wait" /\ curr \in live /\ prev[head] = NULL /\ Shown(head) /\ Shown(tail)
           => place' # "wild"]_vars
  <2>. SUFFICES ASSUME ViewerInv, [Next]_vars, place = "wait", curr \in live,
                       prev[head] = NULL, Shown(head), Shown(tail), place' = "wild"
                PROVE  FALSE
    OBVIOUS
  <2>1. /\ live \subseteq Nodes /\ curr \in Nodes /\ ListInv
        /\ prev \in [Nodes -> Nodes \cup {NULL}] /\ next \in [Nodes -> Nodes \cup {NULL}]
    BY DEF ViewerInv, TypeOK
  <2>2. KeyUp \/ KeyDown
    BY DEF Next, SocketReady, AddData, AddFails, SocketEmpty, OtherKey, Quit, DrawData,
           ClearFlag, ScheduleResize, vars
  <2>3. CASE KeyUp
    <3>1. prev[curr] # NULL /\ Seek(prev, head) \notin live
      BY <2>3 DEF KeyUp, Move
    <3>2. prev[curr] \in live
      BY <2>1, <3>1, Neighbours
    <3>3. \A n \in live : info[n] \in Hidden => prev[n] \in live
      BY <2>1, Neighbours DEF Shown
    <3>. QED
      BY <2>1, <3>1, <3>2, <3>3, SeekStays
  <2>4. CASE KeyDown
    <3>1. next[curr] # NULL /\ Seek(next, tail) \notin live
      BY <2>4 DEF KeyDown, Move
    <3>2. curr # tail
      BY <2>1, <3>1 DEF ListInv, Linked
    <3>3. next[curr] \in live
      BY <2>1, <3>2, Neighbours
    <3>4. \A n \in live : info[n] \in Hidden => next[n] \in live
      BY <2>1, Neighbours DEF Shown
    <3>. QED
      BY <2>1, <3>1, <3>3, <3>4, SeekStays
  <2>. QED
    BY <2>2, <2>3, <2>4
<1>. QED
  BY ViewerInvariant, <1>1, PTL DEF Spec, KeysStayInList

-----------------------------------------------------------------------------
(* Refinement                                                              *)

(* What the nodes of a list hold. *)
Held(list, i) == [k \in DOMAIN list |-> i[list[k]]]

(* As many events as nodes, each at its place. *)
LEMMA HeldSeq ==
  ASSUME NEW i, NEW list \in Seq(Nodes)
  PROVE  /\ Held(list, i) \in Seq({i[n] : n \in Nodes}) /\ Len(Held(list, i)) = Len(list)
         /\ \A k \in 1 .. Len(list) : Held(list, i)[k] = i[list[k]]
<1>1. Len(list) \in Nat /\ DOMAIN list = 1 .. Len(list) /\ \A k \in 1 .. Len(list) : list[k] \in Nodes
  OBVIOUS
<1>2. Held(list, i) = [k \in 1 .. Len(list) |-> i[list[k]]]
  BY <1>1 DEF Held
<1>3. \A k \in 1 .. Len(list) : i[list[k]] \in {i[n] : n \in Nodes}
  BY <1>1
<1>. DEFINE T == {i[n] : n \in Nodes}
<1>4. Held(list, i) \in [1 .. Len(list) -> T]
  <2>. HIDE DEF T
  <2>. QED
    BY <1>2, <1>3 DEF T
<1>. HIDE DEF T
<1>5. Held(list, i) \in Seq(T) /\ Len(Held(list, i)) = Len(list)
  BY <1>1, <1>4
<1>. QED
  BY <1>2, <1>5 DEF T

(* i2 holds for the nodes of the list what i does. *)
SameEvents(list, i, i2) == \A k \in 1 .. Len(list) : i2[list[k]] = i[list[k]]

(* A node at the end, an event at the end. *)
LEMMA HeldAppend ==
  ASSUME NEW i, NEW i2, NEW list \in Seq(Nodes), NEW in \in Nodes, SameEvents(list, i, i2)
  PROVE  Held(Append(list, in), i2) = Append(Held(list, i), i2[in])
<1>. DEFINE a == Append(list, in)
            m == Len(list)
            T == {i[n] : n \in Nodes} \cup {i2[n] : n \in Nodes}
            x == Held(a, i2)
            y == Append(Held(list, i), i2[in])
<1>1. m \in Nat /\ a \in Seq(Nodes) /\ Len(a) = m + 1 /\ a[m + 1] = in
      /\ \A k \in 1 .. m : a[k] = list[k]
  OBVIOUS
<1>. HIDE DEF a
<1>2. /\ x \in Seq({i2[n] : n \in Nodes}) /\ Len(x) = m + 1
      /\ \A k \in 1 .. m + 1 : x[k] = i2[a[k]]
  <2>. HIDE DEF m
  <2>1. /\ Held(a, i2) \in Seq({i2[n] : n \in Nodes}) /\ Len(Held(a, i2)) = Len(a)
        /\ \A k \in 1 .. Len(a) : Held(a, i2)[k] = i2[a[k]]
    BY <1>1, HeldSeq
  <2>. QED
    BY <1>1, <2>1
<1>3. /\ Held(list, i) \in Seq({i[n] : n \in Nodes}) /\ Len(Held(list, i)) = m
      /\ \A k \in 1 .. m : Held(list, i)[k] = i[list[k]]
  BY HeldSeq
<1>4. x \in Seq(T)
  BY <1>2, SeqMonotonic
<1>5. Held(list, i) \in Seq(T)
  BY <1>3, SeqMonotonic
<1>6. i2[in] \in T
  OBVIOUS
<1>. HIDE DEF T, x, m
<1>7. /\ y \in Seq(T) /\ Len(y) = m + 1 /\ y[m + 1] = i2[in]
      /\ \A k \in 1 .. m : y[k] = Held(list, i)[k]
  BY <1>1, <1>3, <1>5, <1>6, AppendProperties
<1>8. ASSUME NEW k \in 1 .. m + 1 PROVE x[k] = y[k]
  <2>1. CASE k = m + 1
    BY <1>1, <1>2, <1>7, <2>1
  <2>2. CASE k # m + 1
    <3>1. k \in 1 .. m
      BY <1>1, <2>2
    <3>2. y[k] = i[list[k]] /\ x[k] = i2[list[k]]
      BY <1>1, <1>2, <1>3, <1>7, <3>1
    <3>. QED
      BY <3>1, <3>2 DEF m, SameEvents
  <2>. QED
    BY <2>1, <2>2
<1>. HIDE DEF y
<1>9. x = y
  BY <1>2, <1>4, <1>7, <1>8, SeqEqual
<1>. QED
  BY <1>9 DEF x, y, a

(* The first node gone, the first event gone. *)
LEMMA HeldTail ==
  ASSUME NEW i, NEW list \in Seq(Nodes), Len(list) >= 1
  PROVE  Held(Tail(list), i) = Tail(Held(list, i))
<1>. DEFINE a == Tail(list)
            m == Len(list)
            T == {i[n] : n \in Nodes}
            x == Held(a, i)
            z == Held(list, i)
            y == Tail(z)
<1>1. m \in Nat /\ m >= 1 /\ list # <<>>
  OBVIOUS
<1>2. a \in Seq(Nodes) /\ Len(a) = m - 1 /\ \A k \in 1 .. m - 1 : a[k] = list[k + 1]
  BY <1>1, HeadTailProperties
<1>3. x \in Seq(T) /\ Len(x) = m - 1 /\ \A k \in 1 .. m - 1 : x[k] = i[a[k]]
  <2>. HIDE DEF a, m
  <2>1. /\ Held(a, i) \in Seq({i[n] : n \in Nodes}) /\ Len(Held(a, i)) = Len(a)
        /\ \A k \in 1 .. Len(a) : Held(a, i)[k] = i[a[k]]
    BY <1>2, HeldSeq
  <2>. QED
    BY <1>2, <2>1
<1>4. z \in Seq(T) /\ Len(z) = m /\ \A k \in 1 .. m : z[k] = i[list[k]]
  BY HeldSeq
<1>. HIDE DEF a, m, T, x, z
<1>5. y \in Seq(T) /\ Len(y) = m - 1 /\ \A k \in 1 .. m - 1 : y[k] = z[k + 1]
  <2>1. z # <<>>
    BY <1>1, <1>4
  <2>. QED
    BY <1>1, <1>4, <2>1, HeadTailProperties
<1>6. ASSUME NEW k \in 1 .. m - 1 PROVE x[k] = y[k]
  <2>1. k + 1 \in 1 .. m
    BY <1>1
  <2>. QED
    BY <1>2, <1>3, <1>4, <1>5, <2>1
<1>. HIDE DEF y
<1>7. x = y
  BY <1>3, <1>5, <1>6, SeqEqual
<1>. QED
  BY <1>7 DEF x, y, z, a

(* add_data puts an event at the end of the log, and if there are MEM_LIMIT *)
(* forgets the first; nothing else the viewer does changes it.             *)
THEOREM ViewerImplementsLog == Spec => Implements
<1>1. Init => Log!Init
  BY DEF Init, Blank, Log!Init, Events
<1>2. ViewerInv /\ [Next]_vars => [Log!Next]_Events
  <2>. SUFFICES ASSUME ViewerInv, [Next]_vars PROVE [Log!Next]_Events
    OBVIOUS
  <2>0. TypeOK /\ ListInv /\ NodesInv
    BY DEF ViewerInv
  <2>1. /\ List \in Seq(Nodes) /\ Len(List) \in Nat \ {0}
        /\ live = {List[k] : k \in 1 .. Len(List)} /\ Cardinality(live) = Len(List)
    <3>1. Len(List) \in Nat \ {0} /\ Cardinality(live) = Len(List)
      BY <2>0, LinkedLen DEF ListInv
    <3>. QED
      BY <2>0, <3>1 DEF ListInv, Linked
  <2>2. Events = IF info[head] = NULL THEN <<>> ELSE Held(List, info)
    BY DEF Events, Held
  <2>3. Events' = IF info'[head'] = NULL THEN <<>> ELSE Held(List', info')
    BY DEF Events, Held
  <2>4. CASE UNCHANGED listVars
    <3>1. List' = List
      BY <2>0, <2>4, ListStays
    <3>. QED
      BY <2>2, <2>3, <2>4, <3>1 DEF listVars
  <2>5. ASSUME NEW i \in Infos, AddFirst(i) PROVE Log!Add(i)
    <3>1. /\ live = {head} /\ head \in Nodes /\ info' = [info EXCEPT ![head] = i]
          /\ head' = head /\ List' = List
      BY <2>0, <2>5, FirstAdded
    <3>2. info'[head] = i /\ i # NULL
      BY <2>0, <3>1, ViewerAssumption DEF TypeOK
    <3>3. Cardinality(live) = 1
      BY <3>1, FS_Singleton
    <3>4. Len(List) = 1 /\ List[1] = head
      BY <2>0, <2>1, <3>3 DEF ListInv, Linked
    <3>5. Held(List, info') = <<i>>
      <4>. DEFINE h == Held(List, info')
      <4>1. Len(h) = 1 /\ h[1] = i /\ h \in Seq({info'[n] : n \in Nodes})
        BY <2>1, <3>2, <3>4, HeldSeq
      <4>. HIDE DEF h
      <4>2. h = <<i>>
        BY <4>1
      <4>. QED
        BY <4>2 DEF h
    <3>6. Events = <<>> /\ Events' = <<i>>
      BY <2>2, <2>3, <2>5, <3>1, <3>2, <3>5 DEF AddFirst
    <3>7. ~ Log!Full
      BY <3>6, NType DEF Log!Full
    <3>. QED
      BY <3>6, <3>7 DEF Log!Add
  <2>6. ASSUME NEW i \in Infos, AddNode(i) PROVE Log!Add(i)
    <3>1. info[head] # NULL
      BY <2>6 DEF AddNode
    <3>2. PICK in \in Nodes \ (live \ Dropped) :
            /\ live' = (live \ Dropped) \cup {in}
            /\ List' = Append(Kept, in)
            /\ info' = [n \in Nodes |-> IF n = in THEN i
                                        ELSE IF n \in Dropped THEN NULL ELSE info[n]]
      BY <2>0, <2>6, NodeAdded
    <3>3. ListInv' /\ NodesInv'
      BY <2>0, <2>6, NodeAddedInv
    <3>4. total_nodes = Len(List)
      <4>1. head \in live
        BY <2>0, LinkedLen DEF ListInv
      <4>. QED
        BY <2>0, <2>1, <3>1, <4>1 DEF NodesInv
    <3>5. Linked(Kept, live \ Dropped, KeptHead, tail, prev, next)
      BY <2>0, <3>1, KeptLinked
    <3>6. Kept \in Seq(Nodes) /\ \A k \in 1 .. Len(Kept) : Kept[k] \in live \ Dropped
      BY <3>5 DEF Linked
    <3>7. info'[in] = i
      BY <3>2
    <3>8. \A k \in 1 .. Len(Kept) : info'[Kept[k]] = info[Kept[k]]
      <4>1. ASSUME NEW n \in live \ Dropped PROVE info'[n] = info[n]
        <5>1. n \in Nodes /\ n # in /\ n \notin Dropped
          BY <2>0, <3>2, <4>1 DEF TypeOK
        <5>. QED
          BY <3>2, <5>1
      <4>. QED
        BY <3>6, <4>1
    <3>9. Held(List', info') = Append(Held(Kept, info), i)
      <4>1. SameEvents(Kept, info, info')
        BY <3>8 DEF SameEvents
      <4>2. Held(Append(Kept, in), info') = Append(Held(Kept, info), info'[in])
        BY <3>6, <4>1, HeldAppend
      <4>. QED
        BY <3>2, <3>7, <4>2
    <3>10. info'[head'] # NULL
      <4>1. NodesInv' /\ head' \in live' /\ in \in live'
        <5>1. Linked(List', live', head', tail', prev', next')
          BY <3>3 DEF ListInv
        <5>2. head' \in live'
          BY <5>1, LinkedLen
        <5>3. in \in live'
          BY <3>2
        <5>. QED
          BY <3>3, <5>2, <5>3
      <4>2. i # NULL
        BY ViewerAssumption
      <4>. QED
        BY <3>7, <4>1, <4>2 DEF NodesInv
    <3>11. Events = Held(List, info) /\ Events' = Append(Held(Kept, info), i)
      BY <2>2, <2>3, <3>1, <3>9, <3>10
    <3>12. Len(Events) = total_nodes
      BY <2>1, <3>4, <3>11, HeldSeq
    <3>13. Log!Full <=> Full
      BY <3>12 DEF Log!Full, Full
    <3>14. Held(Kept, info) = IF Full THEN Tail(Events) ELSE Events
      <4>1. CASE Full
        <5>1. Len(List) >= 1
          <6>1. \A n \in Nat \ {0} : n >= 1
            OBVIOUS
          <6>. QED
            BY <2>1, <6>1
        <5>2. Held(Tail(List), info) = Tail(Held(List, info))
          BY <2>1, <5>1, HeldTail
        <5>. QED
          BY <3>11, <4>1, <5>2 DEF Kept
      <4>2. CASE ~Full
        BY <3>11, <4>2 DEF Kept
      <4>. QED
        BY <4>1, <4>2
    <3>. QED
      BY <3>11, <3>13, <3>14 DEF Log!Add
  <2>7. CASE \E i \in Infos : AddData(i)
    BY <2>5, <2>6, <2>7 DEF AddData, Log!Next
  <2>. QED
    BY <2>4, <2>7, OnlyEvents
<1>. QED
  BY ViewerInvariant, <1>1, <1>2, PTL DEF Spec, Implements, Log!Spec

=============================================================================
