----------------------------- MODULE CodecProofs -----------------------------
(* Proofs about Codec, for any names, paths and size of the viewer's buffer.*)
EXTENDS Codec, SequenceTheorems, TLAPS

USE DEF envVars, hookVars, viewerVars, Fields, PID, PATH, DETAILS

-----------------------------------------------------------------------------
(* Types                                                                   *)

LEMMA StringsHere ==
  /\ Names \union Paths \subseteq Strings
  /\ {None, Err, Pid, Operation} \subseteq Strings
  /\ \A ok \in BOOLEAN : Result(ok) \in Strings /\ Details(ok) \in Strings
<1>1. \A ok \in BOOLEAN : ok = TRUE \/ ok = FALSE
  OBVIOUS
<1> QED  BY <1>1 DEF Strings

LEMMA TypeInit == Init => TypeOK
<1> SUFFICES ASSUME Init PROVE TypeOK
  OBVIOUS
<1>1. info \in [Fields -> Strings]
  BY StringsHere DEF Init, Unnoted
<1>2. renamed \in BOOLEAN
  BY DEF Init
<1> QED  BY <1>1, <1>2 DEF Init, TypeOK

LEMMA SizeIsPositive ==
  ASSUME NEW f, NEW s \in Seq(Nat)
  PROVE  SizeOf(f, s) \in Nat \ {0}
  BY DEF SizeOf

LEMMA StringsAreCells == Strings \subseteq Seq(Nat)
<1>1. \A s \in Seq(Nat \ {0}) : s \in Seq(Nat)
  <2> SUFFICES ASSUME NEW s \in Seq(Nat \ {0}) PROVE s \in Seq(Nat)
    OBVIOUS
  <2>1. \A j \in 1 .. Len(s) : s[j] \in Nat
    OBVIOUS
  <2> QED  BY <2>1
<1>2. None \in Seq(Nat) /\ Err \in Seq(Nat) /\ Pid \in Seq(Nat) /\ Operation \in Seq(Nat)
  BY DEF None, Err, Pid, Operation
<1>3. Result(TRUE) \in Seq(Nat) /\ Result(FALSE) \in Seq(Nat)
  BY DEF Result
<1>4. Details(TRUE) \in Seq(Nat) /\ Details(FALSE) \in Seq(Nat)
  BY DEF Details
<1> QED  BY <1>1, <1>2, <1>3, <1>4, CodecAssumption DEF Strings

LEMMA TypeStep == TypeOK /\ [Next]_vars => TypeOK'
<1> SUFFICES ASSUME TypeOK, [Next]_vars PROVE TypeOK'
  OBVIOUS
<1> USE DEF TypeOK
<1>1. CASE UNCHANGED vars
  BY <1>1 DEF vars
<1>2. CASE Rename
  <2>1. renamed' \in BOOLEAN
    BY <1>2 DEF Rename
  <2> QED  BY <1>2, <2>1 DEF Rename
<1>3. CASE Reopen
  BY <1>3 DEF Reopen
<1>4. CASE SysCall
  <2>1. info' \in [Fields -> Strings]
    BY <1>4, StringsHere DEF SysCall, Unnoted
  <2>2. renamed' \in BOOLEAN
    BY <1>4 DEF SysCall
  <2> QED  BY <1>4, <2>1, <2>2 DEF SysCall
<1>5. CASE PreHook
  <2>1. /\ UNCHANGED <<envVars, k, size, data, renamed, wire, viewerVars>>
        /\ pc' \in {"idle", "post", "oops"}
    BY <1>5 DEF PreHook, PathFromFd
  <2>2. CASE UNCHANGED <<heap, info>>
    BY <2>1, <2>2
  <2>3. CASE PathFromFd /\ pc' = "post"
    <3>1. PICK path \in {Err} \union (IF file = None THEN {} ELSE {file, None}) :
            /\ info' = [info EXCEPT ![PATH] = path]
            /\ heap' = {"node"} \union (IF path = None THEN {} ELSE {"path"})
      BY <2>3 DEF PathFromFd
    <3>2. path \in Strings
      BY <3>1, StringsHere
    <3>3. info' \in [Fields -> Strings]
      BY <3>1, <3>2
    <3>4. heap' \subseteq {"node", "path", "details", "mb", "data"}
      BY <3>1
    <3> QED  BY <2>1, <3>3, <3>4
  <2> QED  BY <1>5, <2>2, <2>3 DEF PreHook, PathFromFd
<1>6. CASE PostHook
  <2>1. PICK ok \in BOOLEAN, details \in BOOLEAN, mb \in BOOLEAN :
          /\ info' = <<comm, Pid, Operation, info[PATH], Result(ok),
                       IF details THEN Details(ok) ELSE None>>
          /\ heap' = heap \union (IF details THEN {"details"} ELSE {})
                          \union (IF mb THEN {"mb"} ELSE {})
          /\ pc' = IF mb THEN "measure" ELSE "oops"
    BY <1>6 DEF PostHook
  <2>2. info' \in [Fields -> Strings]
    <3>1. /\ comm \in Strings /\ Pid \in Strings /\ Operation \in Strings
          /\ info[PATH] \in Strings /\ Result(ok) \in Strings
      BY StringsHere
    <3>2. (IF details THEN Details(ok) ELSE None) \in Strings
      BY StringsHere
    <3> QED  BY <2>1, <3>1, <3>2
  <2>3. /\ pc' \in {"measure", "oops"}
        /\ heap' \subseteq {"node", "path", "details", "mb", "data"}
    BY <2>1
  <2> QED  BY <1>6, <2>2, <2>3 DEF PostHook
<1>7. CASE Measure
  <2>1. At(k) \in Strings
    BY StringsHere DEF At
  <2>2. size' \in Nat \ {0}
    BY <1>7, <2>1, StringsAreCells, SizeIsPositive DEF Measure
  <2>3. info' \in [Fields -> Strings]
    BY <1>7, <2>1 DEF Measure
  <2> QED  BY <1>7, <2>2, <2>3 DEF Measure
<1>8. CASE AddChunk
  <2>1. k' \in Fields /\ pc' \in {"skb", "measure", "free"}
    BY <1>8 DEF AddChunk
  <2>2. heap' \subseteq {"node", "path", "details", "mb", "data"}
    BY <1>8 DEF AddChunk
  <2>3. UNCHANGED <<envVars, size, info, renamed, wire, viewerVars>>
    BY <1>8 DEF AddChunk
  <2> QED  BY <2>1, <2>2, <2>3
<1>9. CASE Send
  BY <1>9 DEF Send
<1>10. CASE Free
  BY <1>10 DEF Free
<1>11. CASE Receive
  BY <1>11 DEF Receive
<1>12. CASE GetChunk
  <2>1. vk' \in Fields /\ vpc' \in {"chunk", "end", "crash", "wild"}
    BY <1>12 DEF GetChunk
  <2>2. vheap' \subseteq {"x", "xdata", "i"} \union {ChunkName[f] : f \in Fields \ {PID}}
    BY <1>12 DEF GetChunk
  <2> QED  BY <1>12, <2>1, <2>2 DEF GetChunk
<1>13. CASE Finish
  BY <1>13 DEF Finish
<1>14. CASE Restart
  BY <1>14 DEF Restart
<1> QED  BY <1>1, <1>2, <1>3, <1>4, <1>5, <1>6, <1>7, <1>8, <1>9, <1>10, <1>11, <1>12, <1>13,
            <1>14 DEF Next, Hooks, Viewer

(* The variables of Codec keep their types; in particular no chunk that    *)
(* serialize_syscall_info adds is empty.                                   *)
THEOREM TypeCorrect == Spec => []TypeOK
  BY TypeInit, TypeStep, PTL DEF Spec

-----------------------------------------------------------------------------
(* The heap of the kernel                                                  *)

(* What the kernel holds of an event, place by place.                      *)
HeapInv ==
  /\ data \in Seq(Nat)
  /\ pc = "pre" => heap = {} /\ data = <<>>
  /\ pc = "post" => heap \subseteq {"node", "path"} /\ data = <<>>
  /\ pc \in {"measure", "copy", "skb"} =>
       /\ "mb" \in heap
       /\ data # <<>> <=> "data" \in heap
  /\ pc = "free" =>
       /\ "data" \notin heap
       /\ "mb" \in heap => data = <<>>
  /\ KernelFrees

LEMMA HeapInit == Init => HeapInv
  BY DEF Init, HeapInv, KernelFrees

LEMMA CellsAreCells ==
  ASSUME NEW s \in Seq(Nat), NEW n \in Nat
  PROVE  Cells(s, n) \in Seq(Nat)
<1>1. \A j \in 1 .. n : (IF j <= Len(s) THEN s[j] ELSE 0) \in Nat
  OBVIOUS
<1> QED  BY <1>1 DEF Cells

(* A message with one more chunk.                                          *)
LEMMA ChunkAdded ==
  ASSUME TypeOK, data \in Seq(Nat)
  PROVE  /\ data \o <<size>> \o Cells(At(k), size) \in Seq(Nat)
         /\ data \o <<size>> \o Cells(At(k), size) # <<>>
<1>1. At(k) \in Seq(Nat)
  BY StringsHere, StringsAreCells DEF At, TypeOK
<1>2. Cells(At(k), size) \in Seq(Nat) /\ data \o <<size>> \in Seq(Nat)
  BY <1>1, CellsAreCells DEF TypeOK
<1>3. Len(data \o <<size>>) > 0
  BY DEF TypeOK
<1> QED  BY <1>2, <1>3

LEMMA HeapStep == TypeOK /\ HeapInv /\ [Next]_vars => HeapInv'
<1> SUFFICES ASSUME TypeOK, HeapInv, [Next]_vars PROVE HeapInv'
  OBVIOUS
<1> USE DEF HeapInv, KernelFrees
<1>1. CASE UNCHANGED <<pc, heap, data>>
  BY <1>1
<1>2. CASE SysCall
  BY <1>2 DEF SysCall
<1>3. CASE PreHook
  BY <1>3 DEF PreHook, PathFromFd
<1>4. CASE PostHook
  BY <1>4 DEF PostHook
<1>5. CASE Measure
  BY <1>5 DEF Measure
<1>6. CASE AddChunk
  <2>1. CASE /\ data' = data \o <<size>> \o Cells(At(k), size)
             /\ heap' = heap \union {"data"}
             /\ pc' \in {"skb", "measure"}
    BY <1>6, <2>1, ChunkAdded DEF AddChunk
  <2>2. CASE /\ heap' = heap \ (IF data = <<>> THEN {} ELSE {"mb", "data"})
             /\ pc' = "free"
             /\ UNCHANGED data
    BY <1>6, <2>2 DEF AddChunk
  <2> QED  BY <1>6, <2>1, <2>2 DEF AddChunk
<1>7. CASE Send
  BY <1>7 DEF Send
<1>8. CASE Free
  BY <1>8 DEF Free, TypeOK
<1>9. CASE Rename \/ Reopen \/ Viewer
  BY <1>1, <1>9 DEF Rename, Reopen, Viewer, Receive, GetChunk, Finish, Restart
<1> QED  BY <1>1, <1>2, <1>3, <1>4, <1>5, <1>6, <1>7, <1>8, <1>9 DEF Next, Hooks, vars

LEMMA HeapInvariant == Spec => [](TypeOK /\ HeapInv)
  BY TypeInit, TypeStep, HeapInit, HeapStep, PTL DEF Spec

(* Whichever allocations fail in the hooks, serialize_syscall_info and     *)
(* nl_send, only an event without a first chunk leaves memory behind.      *)
THEOREM KernelFreesCorrect == Spec => []KernelFrees
<1>1. HeapInv => KernelFrees
  BY DEF HeapInv
<1> QED  BY HeapInvariant, <1>1, PTL

(* add_chunk and nl_send find the membuffer allocated, and its data when a *)
(* chunk has been added.                                                   *)
THEOREM BufferLivesCorrect == Spec => []BufferLives
<1>1. HeapInv => BufferLives
  BY DEF HeapInv, BufferLives
<1> QED  BY HeapInvariant, <1>1, PTL

-----------------------------------------------------------------------------
(* A message and its six chunks c                                          *)

Coded(c) == <<Len(c)>> \o c

(* The chunks from number n on                                             *)
From6(c) == Coded(c[6]) \o <<>>
From5(c) == Coded(c[5]) \o From6(c)
From4(c) == Coded(c[4]) \o From5(c)
From3(c) == Coded(c[3]) \o From4(c)
From2(c) == Coded(c[2]) \o From3(c)
From1(c) == Coded(c[1]) \o From2(c)
From(c, n) == <<From1(c), From2(c), From3(c), From4(c), From5(c), From6(c), <<>>>>[n]

Chunks == [Fields -> Seq(Nat)]

LEMMA CodedIsCells ==
  ASSUME NEW c \in Seq(Nat)
  PROVE  Coded(c) \in Seq(Nat)
<1>1. <<Len(c)>> \in Seq(Nat)
  OBVIOUS
<1> QED  BY <1>1, ConcatProperties DEF Coded

(* A part of a sequence, cell by cell. *)
LEMMA PartIs ==
  ASSUME NEW d \in Seq(Nat), NEW s \in Seq(Nat), NEW m \in Nat \ {0},
         m + Len(s) <= Len(d) + 1, \A i \in 1 .. Len(s) : d[m + i - 1] = s[i]
  PROVE  SubSeq(d, m, m + Len(s) - 1) = s
<1> DEFINE n == m + Len(s) - 1
           t == SubSeq(d, m, n)
<1>1. m \in Int /\ n \in Int /\ Len(s) \in Nat /\ Len(d) \in Nat
  OBVIOUS
<1>2. \A i \in m .. n : d[i] \in Nat
  <2>1. \A i \in 1 .. Len(d) : d[i] \in Nat
    BY ElementOfSeq
  <2>2. \A i \in m .. n : i \in 1 .. Len(d)
    BY <1>1
  <2> QED  BY <2>1, <2>2
<1> HIDE DEF n
<1>3. t \in Seq(Nat)
  BY <1>1, <1>2, SubSeqProperties
<1>4. Len(t) = IF m <= n THEN n - m + 1 ELSE 0
  BY <1>1, <1>2, SubSeqProperties
<1>5. \A i \in 1 .. n - m + 1 : t[i] = d[m + i - 1]
  BY <1>1, <1>2, SubSeqProperties
<1> HIDE DEF t
<1>6. n - m + 1 = Len(s) /\ Len(t) = Len(s)
  BY <1>1, <1>4 DEF n
<1>7. \A i \in 1 .. Len(t) : t[i] = s[i]
  BY <1>1, <1>5, <1>6
<1>8. t = s
  BY <1>3, <1>6, <1>7, SeqEqual
<1> QED  BY <1>8 DEF t, n

(* What get_chunk takes off a message is what add_chunk has put there.     *)
LEMMA CodedSplit ==
  ASSUME NEW c \in Seq(Nat), NEW r \in Seq(Nat), NEW d, d = Coded(c) \o r
  PROVE  /\ d \in Seq(Nat) /\ d # <<>>
         /\ d[1] = Len(c) /\ d[1] < Len(d)
         /\ SubSeq(d, 2, d[1] + 1) = c
         /\ SubSeq(d, d[1] + 2, Len(d)) = r
<1>1. /\ Len(c) \in Nat /\ Len(r) \in Nat
      /\ <<Len(c)>> \in Seq(Nat) /\ Len(<<Len(c)>>) = 1
  BY LenProperties
<1>2. /\ Coded(c) \in Seq(Nat) /\ Len(Coded(c)) = Len(c) + 1
      /\ Coded(c)[1] = Len(c)
      /\ \A i \in 1 .. Len(c) : Coded(c)[i + 1] = c[i]
  BY <1>1, ConcatProperties DEF Coded
<1>3. /\ d \in Seq(Nat) /\ Len(d) = Len(c) + 1 + Len(r)
      /\ \A i \in 1 .. Len(c) + 1 : d[i] = Coded(c)[i]
      /\ \A i \in 1 .. Len(r) : d[Len(c) + 1 + i] = r[i]
  <2>1. /\ d \in Seq(Nat) /\ Len(d) = Len(Coded(c)) + Len(r)
        /\ \A i \in 1 .. Len(Coded(c)) + Len(r) :
             d[i] = IF i <= Len(Coded(c)) THEN Coded(c)[i] ELSE r[i - Len(Coded(c))]
    BY CodedIsCells, ConcatProperties
  <2>2. \A i \in 1 .. Len(r) : /\ Len(c) + 1 + i \in 1 .. Len(c) + 1 + Len(r)
                               /\ ~(Len(c) + 1 + i <= Len(c) + 1)
                               /\ Len(c) + 1 + i - (Len(c) + 1) = i
    BY <1>1
  <2>3. Len(Coded(c)) = Len(c) + 1
    BY <1>2
  <2>4. \A i \in 1 .. Len(c) + 1 : i \in 1 .. Len(c) + 1 + Len(r) /\ i <= Len(c) + 1
    BY <1>1
  <2>5. \A i \in 1 .. Len(c) + 1 : d[i] = Coded(c)[i]
    BY <2>1, <2>3, <2>4
  <2>6. \A i \in 1 .. Len(r) : d[Len(c) + 1 + i] = r[i]
    <3> SUFFICES ASSUME NEW i \in 1 .. Len(r) PROVE d[Len(c) + 1 + i] = r[i]
      OBVIOUS
    <3> DEFINE j == Len(c) + 1 + i
    <3>1. j \in 1 .. Len(Coded(c)) + Len(r) /\ ~(j <= Len(Coded(c))) /\ j - Len(Coded(c)) = i
      BY <2>2, <2>3
    <3> HIDE DEF j
    <3>2. d[j] = r[i]
      BY <2>1, <3>1
    <3> QED  BY <3>2 DEF j
  <2> QED  BY <2>1, <2>3, <2>5, <2>6
<1>4. d # <<>> /\ d[1] = Len(c) /\ d[1] < Len(d)
  BY <1>1, <1>2, <1>3
<1>5. SubSeq(d, 2, d[1] + 1) = c
  <2>1. \A i \in 1 .. Len(c) : d[2 + i - 1] = c[i]
    BY <1>1, <1>2, <1>3
  <2>2. 2 + Len(c) <= Len(d) + 1 /\ 2 + Len(c) - 1 = d[1] + 1
    BY <1>1, <1>3, <1>4
  <2>3. d \in Seq(Nat) /\ 2 \in Nat \ {0}
    BY <1>3
  <2>4. SubSeq(d, 2, 2 + Len(c) - 1) = c
    BY <2>1, <2>2, <2>3, PartIs
  <2> QED  BY <2>2, <2>4
<1>6. SubSeq(d, d[1] + 2, Len(d)) = r
  <2> DEFINE m == Len(c) + 2
  <2>1. \A i \in 1 .. Len(r) : m + i - 1 = Len(c) + 1 + i
    BY <1>1
  <2>2. \A i \in 1 .. Len(r) : d[m + i - 1] = r[i]
    BY <1>3, <2>1
  <2>3. /\ d \in Seq(Nat) /\ m \in Nat \ {0} /\ m + Len(r) <= Len(d) + 1 /\ m + Len(r) - 1 = Len(d)
    BY <1>1, <1>3
  <2> HIDE DEF m
  <2>4. SubSeq(d, m, m + Len(r) - 1) = r
    BY <2>2, <2>3, PartIs
  <2> QED  BY <1>4, <2>3, <2>4 DEF m
<1> QED  BY <1>3, <1>4, <1>5, <1>6

LEMMA FromStep ==
  ASSUME NEW c \in Chunks, NEW n \in Fields
  PROVE  /\ Coded(c[n]) \in Seq(Nat)
         /\ From(c, n + 1) \in Seq(Nat)
         /\ From(c, n) = Coded(c[n]) \o From(c, n + 1)
<1>1. ASSUME NEW m \in Fields PROVE Coded(c[m]) \in Seq(Nat)
  BY CodedIsCells DEF Chunks
<1>2. ASSUME NEW m \in Fields, NEW s \in Seq(Nat)
      PROVE  Coded(c[m]) \o s \in Seq(Nat)
  BY <1>1, ConcatProperties
<1>3. From6(c) \in Seq(Nat)
  <2>1. <<>> \in Seq(Nat) /\ 6 \in Fields
    OBVIOUS
  <2> QED  BY <1>2, <2>1 DEF From6
<1>4. From5(c) \in Seq(Nat)
  BY <1>2, <1>3 DEF From5
<1>5. From4(c) \in Seq(Nat)
  BY <1>2, <1>4 DEF From4
<1>6. From3(c) \in Seq(Nat)
  BY <1>2, <1>5 DEF From3
<1>7. From2(c) \in Seq(Nat)
  BY <1>2, <1>6 DEF From2
<1>8. /\ From(c, 1) = From1(c) /\ From(c, 2) = From2(c) /\ From(c, 3) = From3(c)
      /\ From(c, 4) = From4(c) /\ From(c, 5) = From5(c) /\ From(c, 6) = From6(c)
      /\ From(c, 7) = <<>>
  BY DEF From
<1>9. From(c, n + 1) \in Seq(Nat)
  <2>1. <<>> \in Seq(Nat)
    OBVIOUS
  <2>2. n + 1 = 2 \/ n + 1 = 3 \/ n + 1 = 4 \/ n + 1 = 5 \/ n + 1 = 6 \/ n + 1 = 7
    OBVIOUS
  <2> QED  BY <1>3, <1>4, <1>5, <1>6, <1>7, <1>8, <2>1, <2>2
<1>10. From(c, n) = Coded(c[n]) \o From(c, n + 1)
  <2>1. n = 1 \/ n = 2 \/ n = 3 \/ n = 4 \/ n = 5 \/ n = 6
    OBVIOUS
  <2>2. 1 + 1 = 2 /\ 2 + 1 = 3 /\ 3 + 1 = 4 /\ 4 + 1 = 5 /\ 5 + 1 = 6 /\ 6 + 1 = 7
    OBVIOUS
  <2>3. /\ From(c, 1) = Coded(c[1]) \o From(c, 1 + 1)
        /\ From(c, 2) = Coded(c[2]) \o From(c, 2 + 1)
        /\ From(c, 3) = Coded(c[3]) \o From(c, 3 + 1)
        /\ From(c, 4) = Coded(c[4]) \o From(c, 4 + 1)
        /\ From(c, 5) = Coded(c[5]) \o From(c, 5 + 1)
        /\ From(c, 6) = Coded(c[6]) \o From(c, 6 + 1)
    BY <1>8, <2>2 DEF From1, From2, From3, From4, From5, From6
  <2> QED  BY <2>1, <2>3, Zenon
<1> QED  BY <1>1, <1>9, <1>10

LEMMA FromIsCells ==
  ASSUME NEW c \in Chunks
  PROVE  From(c, 1) \in Seq(Nat)
<1>1. /\ Coded(c[1]) \in Seq(Nat) /\ From(c, 2) \in Seq(Nat)
      /\ From(c, 1) = Coded(c[1]) \o From(c, 2)
  <2>1. 1 \in Fields /\ 1 + 1 = 2
    OBVIOUS
  <2> QED  BY <2>1, FromStep
<1> QED  BY <1>1, ConcatProperties

(* add_chunk takes the first of the chunks still to come.                  *)
LEMMA ChunkMoves ==
  ASSUME NEW c \in Chunks, NEW n \in Fields, NEW d \in Seq(Nat)
  PROVE  (d \o Coded(c[n])) \o From(c, n + 1) = d \o From(c, n)
<1> DEFINE a == Coded(c[n])
           b == From(c, n + 1)
<1>1. /\ a \in Seq(Nat) /\ b \in Seq(Nat)
      /\ From(c, n) = a \o b
  BY FromStep
<1> HIDE DEF a, b
<1>2. (d \o a) \o b = d \o (a \o b)
  BY <1>1, ConcatAssociative
<1> QED  BY <1>1, <1>2 DEF a, b

-----------------------------------------------------------------------------
(* An event on its way                                                     *)

(* What the six chunks hold: of pname the n cells that memcpy found, which *)
(* are the name that strlen has measured unless the process was renamed,   *)
(* and of the other fields what is noted.                                  *)
Sent(noted, name, n) ==
  [f \in Fields |-> IF f = 1 THEN Cells(name, n)
                    ELSE IF f = PID THEN Pid ELSE Append(noted[f], 0)]

Measured(name, n) == renamed \/ (name = info[1] /\ n = Len(name) + 1)

(* The number of the chunk that is added next                              *)
NextChunk == IF pc = "skb" THEN 7 ELSE k

(* The kernel: what is in the buffer, with the chunks still to come, is    *)
(* the message.                                                            *)
KernelInv ==
  /\ pc \in {"pre", "post"} => k = 1
  /\ pc \in {"measure", "copy", "skb"} => info[PID] = Pid
  /\ pc \in {"measure", "copy"} /\ k = 1 => data = <<>>
  /\ pc = "copy" => size = SizeOf(k, info[k]) /\ (k = 1 => renamed \/ comm = info[1])
  /\ pc \in {"measure", "copy", "skb"} /\ NextChunk # 1 =>
       \E name \in Names, n \in Nat :
         /\ Measured(name, n)
         /\ data \o From(Sent(info, name, n), NextChunk) = From(Sent(info, name, n), 1)

(* One event at a time: the viewer has nothing to do before it is sent.    *)
TurnInv ==
  /\ pc \notin {"idle", "free"} => vpc = "idle" /\ wire = None /\ shown = Unnoted
  /\ wire # None => vpc = "idle" /\ shown = Unnoted /\ wire = data
  /\ vpc # "idle" => wire = None /\ shown = Unnoted

(* The viewer: what it has taken, and what is left of the message.         *)
ViewerInv ==
  /\ wire # None =>
       \E name \in Names, n \in Nat :
         Measured(name, n) /\ wire = From(Sent(info, name, n), 1)
  /\ vpc = "chunk" =>
       \E name \in Names, n \in Nat :
         /\ Measured(name, n)
         /\ xdata = From(Sent(info, name, n), vk)
         /\ \A f \in Fields : f < vk => got[f] = Sent(info, name, n)[f]
  /\ vpc = "end" =>
       \E name \in Names, n \in Nat : Measured(name, n) /\ got = Sent(info, name, n)
  /\ shown # Unnoted =>
       \E name \in Names, n \in Nat : Measured(name, n) /\ shown = Sent(info, name, n)
  /\ DOMAIN got = Fields

(* Its memory                                                              *)
Copies(n) == {ChunkName[f] : f \in {g \in Fields \ {PID} : g < n}}

ViewerHeapInv ==
  /\ vpc = "chunk" => vheap = {"x", "xdata", "i"} \union Copies(vk)
  /\ vpc = "end" => vheap = {"x", "xdata", "i"} \union Copies(7)
  /\ ViewerFrees

EventInv == KernelInv /\ TurnInv /\ ViewerInv /\ ViewerHeapInv /\ WildOnlyTooLong

LEMMA SentIsChunks ==
  ASSUME TypeOK, NEW name \in Names, NEW n \in Nat
  PROVE  Sent(info, name, n) \in Chunks
<1>1. Cells(name, n) \in Seq(Nat)
  BY StringsHere, StringsAreCells, CellsAreCells
<1>2. Pid \in Seq(Nat)
  BY StringsHere, StringsAreCells
<1>3. ASSUME NEW f \in Fields PROVE Append(info[f], 0) \in Seq(Nat)
  <2>1. info[f] \in Seq(Nat) /\ 0 \in Nat
    BY StringsAreCells DEF TypeOK
  <2> QED  BY <2>1, AppendProperties
<1> QED  BY <1>1, <1>2, <1>3 DEF Sent, Chunks

(* A string and the 0 at its end                                           *)
LEMMA CellsOfAll ==
  ASSUME NEW s \in Seq(Nat)
  PROVE  Cells(s, Len(s) + 1) = Append(s, 0)
<1> DEFINE t == Cells(s, Len(s) + 1)
<1>1. 0 \in Nat /\ Len(s) + 1 \in Nat
  OBVIOUS
<1>2. /\ t \in Seq(Nat) /\ Len(t) = Len(s) + 1
      /\ \A i \in 1 .. Len(s) : t[i] = s[i]
      /\ t[Len(s) + 1] = 0
  BY <1>1, CellsAreCells DEF Cells
<1>3. /\ Append(s, 0) \in Seq(Nat) /\ Len(Append(s, 0)) = Len(s) + 1
      /\ \A i \in 1 .. Len(s) : Append(s, 0)[i] = s[i]
      /\ Append(s, 0)[Len(s) + 1] = 0
  BY <1>1, AppendProperties
<1> HIDE DEF t
<1>4. \A i \in 1 .. Len(s) + 1 : t[i] = Append(s, 0)[i]
  <2>1. \A i \in 1 .. Len(s) + 1 : i \in 1 .. Len(s) \/ i = Len(s) + 1
    BY <1>1
  <2> QED  BY <1>2, <1>3, <2>1
<1>5. t = Append(s, 0)
  BY <1>2, <1>3, <1>4, SeqEqual
<1> QED  BY <1>5 DEF t

(* The cells add_chunk copies are a chunk of the message.                  *)
LEMMA ChunkIsSent ==
  ASSUME TypeOK, KernelInv, pc = "copy", NEW name \in Names, NEW n \in Nat,
         k = 1 => name = comm /\ n = size
  PROVE  <<size>> \o Cells(At(k), size) = Coded(Sent(info, name, n)[k])
<1> DEFINE c == Cells(At(k), size)
<1>1. Len(c) = size
  BY DEF Cells, TypeOK
<1>2. c = Sent(info, name, n)[k]
  <2>1. CASE k = 1
    BY <2>1 DEF Sent, At
  <2>2. CASE k = PID
    <3>1. size = 1 /\ At(k) = Pid
      BY <2>2 DEF KernelInv, SizeOf, At
    <3>2. Cells(Pid, 1) = Pid
      BY DEF Cells, Pid
    <3> QED  BY <2>2, <3>1, <3>2 DEF Sent
  <2>3. CASE k # 1 /\ k # PID
    <3>1. size = Len(info[k]) + 1 /\ At(k) = info[k] /\ info[k] \in Seq(Nat)
      BY <2>3, StringsAreCells DEF KernelInv, SizeOf, At, TypeOK
    <3>2. Sent(info, name, n)[k] = Append(info[k], 0)
      BY <2>3 DEF Sent, TypeOK
    <3>3. Cells(info[k], Len(info[k]) + 1) = Append(info[k], 0)
      BY <3>1, CellsOfAll
    <3> QED  BY <3>1, <3>2, <3>3
  <2> QED  BY <2>1, <2>2, <2>3
<1> QED  BY <1>1, <1>2 DEF Coded

LEMMA EventInit == Init => EventInv
  BY DEF Init, EventInv, KernelInv, TurnInv, ViewerInv, ViewerHeapInv, ViewerFrees, WildOnlyTooLong,
         Unnoted

(* One more chunk in the buffer                                            *)
LEMMA KernelAddChunk ==
  ASSUME TypeOK, HeapInv, KernelInv, AddChunk, pc' # "free"
  PROVE  KernelInv'
<1>1. /\ pc = "copy"
      /\ data' = data \o <<size>> \o Cells(At(k), size)
      /\ pc' = IF k = 6 THEN "skb" ELSE "measure"
      /\ k' = IF k = 6 THEN 1 ELSE k + 1
      /\ UNCHANGED <<comm, size, info, renamed>>
  BY DEF AddChunk
<1>2. k \in Fields /\ k + 1 = NextChunk' /\ NextChunk' # 1
  BY <1>1 DEF NextChunk, TypeOK
<1>3. PICK name \in Names, n \in Nat :
        /\ Measured(name, n)
        /\ k = 1 => name = comm /\ n = size
        /\ data \o From(Sent(info, name, n), k) = From(Sent(info, name, n), 1)
  <2>1. CASE k = 1
    <3>1. comm \in Names /\ size \in Nat
      BY DEF TypeOK
    <3>2. Measured(comm, size)
      BY <1>1, <2>1 DEF KernelInv, Measured, SizeOf
    <3>3. data = <<>>
      BY <1>1, <2>1 DEF KernelInv
    <3>4. From(Sent(info, comm, size), 1) \in Seq(Nat)
      BY <3>1, SentIsChunks, FromIsCells
    <3>5. data \o From(Sent(info, comm, size), 1) = From(Sent(info, comm, size), 1)
      BY <3>3, <3>4, ConcatEmptySeq
    <3> QED  BY <2>1, <3>1, <3>2, <3>5
  <2>2. CASE k # 1
    BY <1>1, <2>2 DEF KernelInv, NextChunk
  <2> QED  BY <2>1, <2>2
<1> DEFINE c == Sent(info, name, n)
<1>4. c \in Chunks
  BY SentIsChunks
<1>5. <<size>> \o Cells(At(k), size) = Coded(c[k])
  BY <1>1, <1>3, ChunkIsSent
<1>6. data' = data \o Coded(c[k])
  <2>1. data \in Seq(Nat) /\ <<size>> \in Seq(Nat) /\ Cells(At(k), size) \in Seq(Nat)
    <3>1. At(k) \in Seq(Nat)
      BY StringsHere, StringsAreCells DEF At, TypeOK
    <3> QED  BY <3>1, CellsAreCells DEF HeapInv, TypeOK
  <2>2. (data \o <<size>>) \o Cells(At(k), size) = data \o (<<size>> \o Cells(At(k), size))
    BY <2>1, ConcatAssociative
  <2> QED  BY <1>1, <1>5, <2>2
<1> HIDE DEF c
<1>7. data' \o From(c, k + 1) = From(c, 1)
  <2>1. data \in Seq(Nat) /\ k \in Fields
    BY <1>2 DEF HeapInv
  <2>2. (data \o Coded(c[k])) \o From(c, k + 1) = data \o From(c, k)
    BY <2>1, <1>4, ChunkMoves
  <2> QED  BY <1>3, <1>6, <2>2 DEF c
<1>8. Measured(name, n)' /\ c = Sent(info', name, n)
  BY <1>1, <1>3 DEF Measured, c
<1>9. info'[PID] = Pid /\ pc' \in {"skb", "measure"} /\ (pc' = "measure" => k' # 1)
  BY <1>1, <1>2 DEF KernelInv, NextChunk
<1>10. \E m \in Names, i \in Nat :
         /\ Measured(m, i)'
         /\ data' \o From(Sent(info', m, i), NextChunk') = From(Sent(info', m, i), 1)
  BY <1>2, <1>7, <1>8
<1> QED  BY <1>9, <1>10 DEF KernelInv

LEMMA KernelStep == TypeOK /\ HeapInv /\ KernelInv /\ [Next]_vars => KernelInv'
<1> SUFFICES ASSUME TypeOK, HeapInv, KernelInv, [Next]_vars PROVE KernelInv'
  OBVIOUS
<1>1. CASE UNCHANGED <<comm, pc, k, size, info, data, renamed>>
  BY <1>1 DEF KernelInv, NextChunk, Measured
<1>2. CASE Rename
  <2>1. /\ UNCHANGED <<pc, k, size, info, data>>
        /\ pc = "copy" /\ k = 1 => renamed'
        /\ renamed => renamed'
    BY <1>2 DEF Rename
  <2>2. \A name \in Names, n \in Nat : Measured(name, n) => Measured(name, n)'
    BY <2>1 DEF Measured
  <2> QED  BY <2>1, <2>2 DEF KernelInv, NextChunk
<1>3. CASE SysCall
  BY <1>3 DEF SysCall, KernelInv
<1>4. CASE PreHook
  BY <1>4 DEF PreHook, PathFromFd, KernelInv
<1>5. CASE PostHook
  <2>1. info'[PID] = Pid /\ pc' \in {"measure", "oops"} /\ UNCHANGED <<k, data>>
    BY <1>5 DEF PostHook
  <2>2. k = 1 /\ data = <<>>
    BY <1>5 DEF PostHook, KernelInv, HeapInv
  <2> QED  BY <2>1, <2>2 DEF KernelInv, NextChunk
<1>6. CASE Measure
  <2>1. CASE pc' = "oops"
    BY <2>1 DEF KernelInv
  <2>2. CASE pc' = "copy"
    <3>1. /\ pc = "measure" /\ UNCHANGED <<comm, k, data, renamed>>
          /\ size' = SizeOf(k, At(k))
          /\ info' = [info EXCEPT ![k] = At(k)]
          /\ info'[k] = At(k)
      BY <1>6, <2>2 DEF Measure, TypeOK
    <3>2. k # 1 => info' = info
      BY <3>1 DEF At, TypeOK
    <3>3. k = 1 => info'[1] = comm
      BY <3>1 DEF At
    <3>4. info'[PID] = Pid
      BY <3>1 DEF KernelInv, At, TypeOK
    <3> QED  BY <2>2, <3>1, <3>2, <3>3, <3>4 DEF KernelInv, NextChunk, Measured
  <2> QED  BY <1>6, <2>1, <2>2 DEF Measure
<1>7. CASE AddChunk
  <2>1. CASE pc' = "free"
    BY <2>1 DEF KernelInv
  <2> QED  BY <1>7, <2>1, KernelAddChunk
<1>8. CASE Send
  BY <1>8 DEF Send, KernelInv
<1>9. CASE Free
  BY <1>9 DEF Free, KernelInv
<1>10. CASE Reopen \/ Viewer
  BY <1>1, <1>10 DEF Reopen, Viewer, Receive, GetChunk, Finish, Restart
<1> QED  BY <1>1, <1>2, <1>3, <1>4, <1>5, <1>6, <1>7, <1>8, <1>9, <1>10 DEF Next, Hooks, vars

LEMMA TurnStep == TurnInv /\ [Next]_vars => TurnInv'
<1> SUFFICES ASSUME TurnInv, [Next]_vars PROVE TurnInv'
  OBVIOUS
<1> USE DEF TurnInv
<1>1. CASE UNCHANGED vars
  BY <1>1 DEF vars
<1>2. CASE Rename \/ Reopen
  BY <1>2 DEF Rename, Reopen
<1>3. CASE SysCall
  BY <1>3 DEF SysCall
<1>4. CASE PreHook \/ PostHook \/ Measure
  BY <1>4 DEF PreHook, PathFromFd, PostHook, Measure
<1>5. CASE AddChunk
  BY <1>5 DEF AddChunk
<1>6. CASE Send
  BY <1>6 DEF Send
<1>7. CASE Free
  BY <1>7 DEF Free
<1>8. CASE Receive
  BY <1>8 DEF Receive
<1>9. CASE GetChunk
  BY <1>9 DEF GetChunk
<1>10. CASE Finish \/ Restart
  BY <1>10 DEF Finish, Restart
<1> QED  BY <1>1, <1>2, <1>3, <1>4, <1>5, <1>6, <1>7, <1>8, <1>9, <1>10 DEF Next, Hooks, Viewer

LEMMA FirstChunk ==
  ASSUME NEW c \in Seq(Nat), NEW r \in Seq(Nat), xdata = Coded(c) \o r
  PROVE  ChunkFits /\ Chunk(xdata[1]) = c /\ Rest(xdata[1]) = r
<1>1. /\ xdata # <<>> /\ xdata[1] < Len(xdata)
      /\ SubSeq(xdata, 2, xdata[1] + 1) = c
      /\ SubSeq(xdata, xdata[1] + 2, Len(xdata)) = r
  BY CodedSplit
<1> QED  BY <1>1 DEF ChunkFits, Chunk, Rest

(* What get_chunk finds in front of the message                            *)
LEMMA ChunkTaken ==
  ASSUME TypeOK, NEW name \in Names, NEW n \in Nat, xdata = From(Sent(info, name, n), vk)
  PROVE  /\ ChunkFits
         /\ Chunk(xdata[1]) = Sent(info, name, n)[vk]
         /\ Rest(xdata[1]) = From(Sent(info, name, n), vk + 1)
<1> DEFINE c == Sent(info, name, n)
<1>1. vk \in Fields /\ c \in Chunks
  BY SentIsChunks DEF TypeOK
<1> HIDE DEF c
<1>2. /\ c[vk] \in Seq(Nat) /\ From(c, vk + 1) \in Seq(Nat)
      /\ From(c, vk) = Coded(c[vk]) \o From(c, vk + 1)
  BY <1>1, FromStep DEF Chunks
<1>3. xdata = Coded(c[vk]) \o From(c, vk + 1)
  BY <1>2 DEF c
<1>4. ChunkFits /\ Chunk(xdata[1]) = c[vk] /\ Rest(xdata[1]) = From(c, vk + 1)
  BY <1>2, <1>3, FirstChunk
<1> QED  BY <1>4 DEF c

LEMMA ViewerGetChunk ==
  ASSUME TypeOK, TurnInv, ViewerInv, ViewerHeapInv, GetChunk
  PROVE  /\ ViewerInv' /\ ViewerHeapInv'
         /\ vpc' # "wild"
<1>1. /\ vpc = "chunk" /\ UNCHANGED <<info, renamed, wire, shown>>
      /\ wire = None /\ shown = Unnoted
  BY DEF GetChunk, TurnInv
<1>2. PICK name \in Names, n \in Nat :
        /\ Measured(name, n)
        /\ xdata = From(Sent(info, name, n), vk)
        /\ \A f \in Fields : f < vk => got[f] = Sent(info, name, n)[f]
  BY <1>1 DEF ViewerInv
<1>3. /\ ChunkFits
      /\ Chunk(xdata[1]) = Sent(info, name, n)[vk]
      /\ Rest(xdata[1]) = From(Sent(info, name, n), vk + 1)
  BY <1>2, ChunkTaken
<1>4. Measured(name, n)'
  BY <1>1, <1>2 DEF Measured
<1>5. DOMAIN got = Fields /\ vk \in Fields
  BY DEF ViewerInv, TypeOK
<1>6. CASE vpc' = "crash"
  <2>1. UNCHANGED got
    BY <1>3, <1>6 DEF GetChunk
  <2> QED  BY <1>1, <1>5, <1>6, <2>1 DEF ViewerInv, ViewerHeapInv, ViewerFrees
<1>7. CASE vpc' \in {"chunk", "end"}
  <2>1. /\ got' = [got EXCEPT ![vk] = Sent(info, name, n)[vk]]
        /\ xdata' = From(Sent(info, name, n), vk + 1)
        /\ vheap' = vheap \union (IF vk = PID THEN {} ELSE {ChunkName[vk]})
        /\ vpc' = IF vk = 6 THEN "end" ELSE "chunk"
        /\ vk' = IF vk = 6 THEN 1 ELSE vk + 1
    BY <1>3, <1>7 DEF GetChunk
  <2>2. \A f \in Fields : f < vk + 1 => got'[f] = Sent(info, name, n)[f]
    <3> SUFFICES ASSUME NEW f \in Fields, f < vk + 1 PROVE got'[f] = Sent(info, name, n)[f]
      OBVIOUS
    <3>1. CASE f = vk
      BY <1>5, <2>1, <3>1
    <3>2. CASE f # vk
      <4>1. f < vk
        BY <1>5, <3>2
      <4> QED  BY <1>2, <1>5, <2>1, <3>2, <4>1
    <3> QED  BY <3>1, <3>2
  <2>3. DOMAIN got' = Fields
    BY <1>5, <2>1
  <2>4. vheap' = {"x", "xdata", "i"} \union Copies(vk + 1)
    <3>1. vheap = {"x", "xdata", "i"} \union Copies(vk)
      BY <1>1 DEF ViewerHeapInv
    <3>2. Copies(vk + 1) = Copies(vk) \union (IF vk = PID THEN {} ELSE {ChunkName[vk]})
      BY <1>5 DEF Copies
    <3> QED  BY <2>1, <3>1, <3>2
  <2>5. CASE vk = 6
    <3>1. got' = Sent(info, name, n)
      <4>1. \A f \in Fields : got'[f] = Sent(info, name, n)[f]
        BY <2>2, <2>5
      <4>2. got' = [f \in Fields |-> got'[f]]
        BY <1>5, <2>1, <2>3
      <4>3. Sent(info, name, n) = [f \in Fields |-> Sent(info, name, n)[f]]
        BY DEF Sent
      <4> QED  BY <4>1, <4>2, <4>3
    <3>2. vpc' = "end"
      BY <2>1, <2>5
    <3>3. Measured(name, n)' /\ got' = Sent(info', name, n)
      BY <1>1, <1>4, <3>1
    <3>4. ViewerInv'
      BY <1>1, <2>3, <3>2, <3>3 DEF ViewerInv
    <3>5. ViewerHeapInv'
      BY <2>4, <2>5, <3>2 DEF ViewerHeapInv, ViewerFrees
    <3> QED  BY <3>2, <3>4, <3>5
  <2>6. CASE vk # 6
    <3>1. vpc' = "chunk" /\ vk' = vk + 1
      BY <2>1, <2>6
    <3>2. /\ Measured(name, n)'
          /\ xdata' = From(Sent(info', name, n), vk')
          /\ \A f \in Fields : f < vk' => got'[f] = Sent(info', name, n)[f]
      BY <1>1, <1>4, <2>1, <2>2, <3>1
    <3>3. ViewerInv'
      BY <1>1, <2>3, <3>1, <3>2 DEF ViewerInv
    <3>4. ViewerHeapInv'
      BY <2>4, <3>1 DEF ViewerHeapInv, ViewerFrees
    <3> QED  BY <3>1, <3>3, <3>4
  <2> QED  BY <2>5, <2>6
<1> QED  BY <1>3, <1>6, <1>7 DEF GetChunk

LEMMA ViewerStep ==
  ASSUME TypeOK, HeapInv, KernelInv, TurnInv, TurnInv', ViewerInv, ViewerHeapInv, [Next]_vars
  PROVE  ViewerInv'
<1> DEFINE Same == UNCHANGED <<info, wire, vpc, vk, xdata, got, shown>>
<1>1. CASE Same /\ (renamed => renamed')
  <2>1. \A name \in Names, n \in Nat : Measured(name, n) => Measured(name, n)'
    BY <1>1 DEF Measured
  <2> QED  BY <1>1, <2>1 DEF ViewerInv
<1>2. CASE vpc' = "idle" /\ wire' = None /\ shown' = Unnoted /\ DOMAIN got' = Fields
  BY <1>2 DEF ViewerInv
<1>3. CASE SysCall \/ PreHook \/ PostHook \/ Measure
  <2>1. vpc' = "idle" /\ wire' = None /\ shown' = Unnoted
    BY <1>3 DEF TurnInv, SysCall, PreHook, PathFromFd, PostHook, Measure
  <2>2. got' = got \/ got' = Unnoted
    BY <1>3 DEF SysCall, PreHook, PostHook, Measure
  <2>3. DOMAIN got' = Fields
    BY <2>2 DEF ViewerInv, Unnoted
  <2> QED  BY <1>2, <2>1, <2>3
<1>4. CASE UNCHANGED vars \/ Rename \/ Reopen \/ AddChunk \/ Free
  <2>1. UNCHANGED vars => Same /\ renamed' = renamed
    BY DEF vars
  <2>2. Rename => Same /\ (renamed => renamed')
    BY DEF Rename
  <2>3. Reopen \/ AddChunk \/ Free => Same /\ renamed' = renamed
    BY DEF Reopen, AddChunk, Free
  <2> QED  BY <1>1, <1>4, <2>1, <2>2, <2>3
<1>5. CASE Send
  <2>1. /\ pc = "skb" /\ wire' \in {data, None}
        /\ UNCHANGED <<info, renamed, vpc, vk, xdata, got, shown>>
        /\ vpc = "idle" /\ shown = Unnoted
    BY <1>5 DEF Send, TurnInv
  <2>2. PICK name \in Names, n \in Nat :
          /\ Measured(name, n)
          /\ data \o From(Sent(info, name, n), 7) = From(Sent(info, name, n), 1)
    BY <2>1 DEF KernelInv, NextChunk
  <2>3. From(Sent(info, name, n), 7) = <<>>
    BY DEF From
  <2>4. data = From(Sent(info, name, n), 1)
    BY <2>2, <2>3, ConcatEmptySeq DEF HeapInv
  <2>5. Measured(name, n)' /\ data = From(Sent(info', name, n), 1)
    BY <2>1, <2>2, <2>4 DEF Measured
  <2> QED  BY <2>1, <2>5 DEF ViewerInv
<1>6. CASE Receive
  <2>1. /\ wire # None /\ wire' = None /\ vk' = 1 /\ vpc' \in {"idle", "wild", "chunk"}
        /\ UNCHANGED <<info, renamed, got, shown>>
        /\ vpc' = "chunk" => xdata' = wire
        /\ shown = Unnoted
    BY <1>6 DEF Receive, TurnInv
  <2>2. PICK name \in Names, n \in Nat : Measured(name, n) /\ wire = From(Sent(info, name, n), 1)
    BY <2>1 DEF ViewerInv
  <2>3. /\ Measured(name, n)'
        /\ vpc' = "chunk" => xdata' = From(Sent(info', name, n), vk')
        /\ \A f \in Fields : f < vk' => got'[f] = Sent(info', name, n)[f]
    BY <2>1, <2>2 DEF Measured
  <2> QED  BY <2>1, <2>3 DEF ViewerInv
<1>7. CASE GetChunk
  BY <1>7, ViewerGetChunk
<1>8. CASE Finish
  <2>1. /\ vpc = "end" /\ vpc' = "idle" /\ shown' = got
        /\ UNCHANGED <<info, renamed, wire, got>> /\ wire = None
    BY <1>8 DEF Finish, TurnInv
  <2>2. PICK name \in Names, n \in Nat : Measured(name, n) /\ got = Sent(info, name, n)
    BY <2>1 DEF ViewerInv
  <2>3. Measured(name, n)' /\ shown' = Sent(info', name, n)
    BY <2>1, <2>2 DEF Measured
  <2> QED  BY <2>1, <2>3 DEF ViewerInv
<1>9. CASE Restart
  <2>1. vpc' = "idle" /\ wire' = None /\ shown' = Unnoted /\ DOMAIN got' = Fields
    BY <1>9 DEF Restart, TurnInv, Unnoted
  <2> QED  BY <1>2, <2>1
<1> QED  BY <1>3, <1>4, <1>5, <1>6, <1>7, <1>8, <1>9 DEF Next, Hooks, Viewer

(* A chunk of the pid is no string of one 0.                               *)
LEMMA SentIsNoted ==
  ASSUME NEW noted, NEW name, NEW n
  PROVE  Sent(noted, name, n) # Unnoted
<1>1. Sent(noted, name, n)[PID] = Pid /\ Unnoted[PID] = None
  BY DEF Sent, Unnoted
<1>2. Pid # None
  BY DEF Pid, None
<1> QED  BY <1>1, <1>2

LEMMA ViewerHeapStep ==
  ASSUME TypeOK, TurnInv, ViewerInv, ViewerHeapInv, [Next]_vars
  PROVE  ViewerHeapInv'
<1> USE DEF ViewerHeapInv, ViewerFrees
<1>1. CASE UNCHANGED <<vpc, vk, vheap, shown>>
  BY <1>1
<1>2. CASE SysCall
  BY <1>2 DEF SysCall
<1>3. CASE Receive
  <2>1. shown' = Unnoted
    BY <1>3 DEF Receive, TurnInv
  <2>2. CASE vpc' = "chunk"
    <3>1. vheap' = {"x", "xdata", "i"} /\ vk' = 1
      BY <1>3, <2>2 DEF Receive
    <3>2. Copies(1) = {}
      BY DEF Copies
    <3> QED  BY <2>2, <3>1, <3>2
  <2>3. CASE vpc' = "idle"
    BY <1>3, <2>1, <2>3 DEF Receive
  <2>4. CASE vpc' = "wild"
    BY <2>4
  <2> QED  BY <1>3, <2>2, <2>3, <2>4 DEF Receive
<1>4. CASE GetChunk
  BY <1>4, ViewerGetChunk
<1>5. CASE Finish
  <2>1. vpc = "end" /\ vpc' = "idle" /\ shown' = got /\ vheap' = vheap \ {"x", "xdata"}
    BY <1>5 DEF Finish
  <2>2. shown' # Unnoted
    BY <2>1, SentIsNoted DEF ViewerInv
  <2>3. Copies(7) = {ChunkName[f] : f \in Fields \ {PID}}
    BY DEF Copies
  <2>4. "x" \notin Copies(7) /\ "xdata" \notin Copies(7)
    BY DEF Copies, ChunkName
  <2>5. vheap' = {"i"} \union Copies(7)
    BY <2>1, <2>4
  <2> QED  BY <2>1, <2>2, <2>3, <2>5
<1>6. CASE Restart
  BY <1>6 DEF Restart, TurnInv
<1>7. CASE UNCHANGED vars \/ Rename \/ Reopen \/ PreHook \/ PostHook \/ Measure \/ AddChunk
           \/ Send \/ Free
  BY <1>1, <1>7 DEF vars, Rename, Reopen, PreHook, PostHook, Measure, AddChunk, Send, Free
<1> QED  BY <1>2, <1>3, <1>4, <1>5, <1>6, <1>7 DEF Next, Hooks, Viewer

LEMMA WildStep ==
  ASSUME TypeOK, TurnInv, ViewerInv, ViewerHeapInv, WildOnlyTooLong, [Next]_vars
  PROVE  WildOnlyTooLong'
<1> USE DEF WildOnlyTooLong
<1>1. CASE UNCHANGED <<vpc, data>>
  BY <1>1
<1>2. CASE SysCall
  BY <1>2 DEF SysCall
<1>3. CASE AddChunk
  BY <1>3 DEF AddChunk, TurnInv
<1>4. CASE Receive
  BY <1>4 DEF Receive, TurnInv
<1>5. CASE GetChunk
  BY <1>5, ViewerGetChunk
<1>6. CASE Finish \/ Restart
  BY <1>6 DEF Finish, Restart
<1>7. CASE UNCHANGED vars \/ Rename \/ Reopen \/ PreHook \/ PostHook \/ Measure \/ Send \/ Free
  BY <1>1, <1>7 DEF vars, Rename, Reopen, PreHook, PostHook, Measure, Send, Free
<1> QED  BY <1>2, <1>3, <1>4, <1>5, <1>6, <1>7 DEF Next, Hooks, Viewer

LEMMA EventInvariant == Spec => []EventInv
<1>1. TypeOK /\ HeapInv /\ EventInv /\ [Next]_vars => EventInv'
  BY KernelStep, TurnStep, ViewerStep, ViewerHeapStep, WildStep DEF EventInv
<1> QED  BY <1>1, EventInit, HeapInvariant, PTL DEF Spec

(* The viewer shows, field by field, what the hooks noted, whatever names  *)
(* and paths there are and whichever allocations failed before: only the   *)
(* name of a process renamed between strlen and memcpy may come out wrong. *)
THEOREM RoundTripCorrect == Spec => []RoundTrip
<1>1. EventInv => RoundTrip
  <2> SUFFICES ASSUME EventInv, shown # Unnoted,
                      NEW f \in Fields, ~(f = 1 /\ renamed)
               PROVE  shown[f] = IF f = PID THEN Pid ELSE Append(info[f], 0)
    BY DEF RoundTrip
  <2>1. PICK name \in Names, n \in Nat : Measured(name, n) /\ shown = Sent(info, name, n)
    BY DEF EventInv, ViewerInv
  <2>2. CASE f = 1
    <3>1. name = info[1] /\ n = Len(name) + 1 /\ shown[1] = Cells(name, n)
      BY <2>1, <2>2 DEF Measured, Sent
    <3>2. name \in Seq(Nat)
      BY StringsHere, StringsAreCells
    <3> QED  BY <2>2, <3>1, <3>2, CellsOfAll
  <2>3. CASE f # 1
    BY <2>1, <2>3 DEF Sent
  <2> QED  BY <2>2, <2>3
<1> QED  BY <1>1, EventInvariant, PTL

(* Nothing of an event is left in the viewer but what it shows, or one     *)
(* membuffer for which there was no data.                                  *)
THEOREM ViewerFreesCorrect == Spec => []ViewerFrees
<1>1. EventInv => ViewerFrees
  BY DEF EventInv, ViewerHeapInv
<1> QED  BY <1>1, EventInvariant, PTL

(* The sizes in a message agree with its cells, so that get_chunk stays in *)
(* it: only a message that does not fit the buffer leads the viewer astray.*)
THEOREM WildOnlyTooLongCorrect == Spec => []WildOnlyTooLong
<1>1. EventInv => WildOnlyTooLong
  BY DEF EventInv
<1> QED  BY <1>1, EventInvariant, PTL

=============================================================================
