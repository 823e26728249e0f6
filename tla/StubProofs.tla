------------------------------ MODULE StubProofs ------------------------------
(***************************************************************************)
(* Proofs about Stub.  A first part computes what create_stub and          *)
(* destroy_stub make of the text, the second annotates the places of the   *)
(* text with what holds there, and the third draws the properties from     *)
(* that.                                                                   *)
(***************************************************************************)
EXTENDS Stub, FiniteSetTheorems, TLAPS

-----------------------------------------------------------------------------
(* The text as stubs.S has it                                              *)

(* An instruction                                                          *)
Symbols == {"none", "rax", "eax", Hole, "monks_state", "state", "pre", "rf", "post"}
Instr   == [op : Ops, n : Int, sym : Symbols]

(* Names for the instructions that are not constants of Stub               *)
Enter64   == Enter(64)
Enter84   == Enter(84)
Clear8    == I("clear", 8, "none")
Clear56   == I("clear", 56, "none")
Stack     == I("stack", 64, "none")
Save      == I("save", 0, "none")
Restore   == I("restore", 0, "none")
Jne13     == Jne(13)
Jne14     == Jne(14)
Jne26     == Jne(26)
StoreRax  == I("store", 16, "rax")
StoreEax  == I("store", 60, "eax")
ResultRax == I("result", 16, "rax")
ResultEax == I("result", 60, "eax")
Ret       == I("ret", 0, "none")

LEMMA Listing64 ==
  LET t == Text("stub") IN
  /\ DOMAIN t = 1 .. 27
  /\ t[1] = Enter64 /\ t[2] = Clear8 /\ t[3] = Save
  /\ \A k \in {4, 7, 17, 20} : t[k] = Load
  /\ \A k \in {5, 8, 18, 21} : t[k] = Cmp
  /\ \A k \in {6, 9} : t[k] = Jne13
  /\ \A k \in {19, 22} : t[k] = Jne26
  /\ \A k \in {10, 13, 23} : t[k] = Addr
  /\ \A k \in {11, 14, 24} : t[k] = Restore
  /\ \A k \in {12, 15, 25} : t[k] = CallRax
  /\ t[16] = StoreRax /\ t[26] = ResultRax /\ t[27] = Ret
  BY DEF Text, Text64,
         Enter64, Clear8, Save, StoreRax, ResultRax, Ret, Jne13, Jne26, Restore

LEMMA Listing32 ==
  LET t == Text("stub_32") IN
  /\ DOMAIN t = 1 .. 27
  /\ t[1] = Enter84 /\ t[2] = Clear56 /\ t[3] = Stack /\ t[4] = Save
  /\ \A k \in {5, 8, 17, 20} : t[k] = Load
  /\ \A k \in {6, 9, 18, 21} : t[k] = Cmp
  /\ \A k \in {7, 10} : t[k] = Jne14
  /\ \A k \in {19, 22} : t[k] = Jne26
  /\ \A k \in {11, 14, 23} : t[k] = Addr
  /\ \A k \in {13, 25} : t[k] = Restore
  /\ \A k \in {12, 15, 24} : t[k] = CallRax
  /\ t[16] = StoreEax /\ t[26] = ResultEax /\ t[27] = Ret
  BY DEF Text, Text32,
         Enter84, Clear56, Stack, Save, StoreEax, ResultEax, Ret, Jne14, Jne26, Restore

(* Where the texts have their parts: the save of the registers, the two    *)
(* runs of tests, and the addresses of the functions                       *)
Arches     == {"stub", "stub_32"}
SaveAt(a)  == IF a = "stub" THEN 3 ELSE 4
PreAt(a)   == IF a = "stub" THEN 10 ELSE 11
RfAt(a)    == IF a = "stub" THEN 13 ELSE 14
Width(a)   == IF a = "stub" THEN "rax" ELSE "eax"
ResultOf(a) == IF a = "stub" THEN 16 ELSE 60
InfoOf(a)  == IF a = "stub" THEN 8 ELSE 56
Restores(a) == IF a = "stub" THEN {11, 14, 24} ELSE {13, 25}
CallsOf(a) == IF a = "stub" THEN {12, 15, 25} ELSE {12, 15, 24}
Loads(a)   == IF a = "stub" THEN {4, 7, 17, 20} ELSE {5, 8, 17, 20}
Cmps(a)    == IF a = "stub" THEN {5, 8, 18, 21} ELSE {6, 9, 18, 21}
Jumps(a)   == IF a = "stub" THEN {6, 9, 19, 22} ELSE {7, 10, 19, 22}

(* Instruction i at place k of stub a                                      *)
Fits(i, k, a) ==
  \/ k = 1 /\ i.op = "enter"
  \/ k = 2 /\ i.op = "clear" /\ i.n = InfoOf(a)
  \/ k = 3 /\ a = "stub_32" /\ i.op = "stack" /\ i.n = 64
  \/ k = SaveAt(a) /\ i.op = "save"
  \/ k \in Loads(a) /\ i.op \in {"load", "nop"}
  \/ k \in Cmps(a) /\ i.op \in {"cmp", "nop"}
  \/ k \in Jumps(a) /\ i.op \in {"jne", "jmp"} /\ i.n = (IF k < 16 THEN RfAt(a) ELSE 26)
  \/ k \in {PreAt(a), RfAt(a), 23} /\ i.op = "addr"
  \/ k \in Restores(a) /\ i.op = "restore"
  \/ k \in CallsOf(a) /\ i.op = "call"
  \/ k = 16 /\ i.op = "store" /\ i.n = ResultOf(a) /\ i.sym = Width(a)
  \/ k = 26 /\ i.op = "result" /\ i.n = ResultOf(a) /\ i.sym = Width(a)
  \/ k = 27 /\ i.op = "ret"

(* Where the holes are, in their order                                     *)
HolesOf(a) == IF a = "stub" THEN <<4, 7, 10, 13, 17, 20, 23>> ELSE <<5, 8, 11, 14, 17, 20, 23>>

HoleSet(a) == {HolesOf(a)[i] : i \in 1 .. 7}

LEMMA HolesAre == /\ HoleSet("stub") = {4, 7, 10, 13, 17, 20, 23}
                  /\ HoleSet("stub_32") = {5, 8, 11, 14, 17, 20, 23}
  BY DEF HoleSet, HolesOf

(* What an instruction is and whether it has a hole                        *)
LEMMA Kinds ==
  /\ Load.op = "load" /\ Load.sym = Hole
  /\ Cmp.op = "cmp" /\ Cmp.sym # Hole
  /\ Addr.op = "addr" /\ Addr.sym = Hole
  /\ CallRax.op = "call" /\ CallRax.sym # Hole
  /\ Enter64.op = "enter" /\ Enter64.sym # Hole
  /\ Enter84.op = "enter" /\ Enter84.sym # Hole
  /\ Clear8.op = "clear" /\ Clear8.n = 8 /\ Clear8.sym # Hole
  /\ Clear56.op = "clear" /\ Clear56.n = 56 /\ Clear56.sym # Hole
  /\ Stack.op = "stack" /\ Stack.n = 64 /\ Stack.sym # Hole
  /\ Save.op = "save" /\ Save.sym # Hole
  /\ Restore.op = "restore" /\ Restore.sym # Hole
  /\ Jne13.op = "jne" /\ Jne13.n = 13 /\ Jne13.sym # Hole
  /\ Jne14.op = "jne" /\ Jne14.n = 14 /\ Jne14.sym # Hole
  /\ Jne26.op = "jne" /\ Jne26.n = 26 /\ Jne26.sym # Hole
  /\ StoreRax.op = "store" /\ StoreRax.n = 16
  /\ StoreRax.sym = "rax" /\ StoreRax.sym # Hole
  /\ StoreEax.op = "store" /\ StoreEax.n = 60
  /\ StoreEax.sym = "eax" /\ StoreEax.sym # Hole
  /\ ResultRax.op = "result" /\ ResultRax.n = 16
  /\ ResultRax.sym = "rax" /\ ResultRax.sym # Hole
  /\ ResultEax.op = "result" /\ ResultEax.n = 60
  /\ ResultEax.sym = "eax" /\ ResultEax.sym # Hole
  /\ Ret.op = "ret" /\ Ret.sym # Hole
  BY DEF I, Hole, Enter, Load, Cmp, Jne, Addr, CallRax, Enter64, Enter84, Clear8, Clear56,
         Stack, Save, Restore, Jne13, Jne14, Jne26, StoreRax, StoreEax, ResultRax, ResultEax,
         Ret

LEMMA AreInstrs ==
  /\ Load \in Instr
  /\ Cmp \in Instr
  /\ Addr \in Instr
  /\ CallRax \in Instr
  /\ Enter64 \in Instr
  /\ Enter84 \in Instr
  /\ Clear8 \in Instr
  /\ Clear56 \in Instr
  /\ Stack \in Instr
  /\ Save \in Instr
  /\ Restore \in Instr
  /\ Jne13 \in Instr
  /\ Jne14 \in Instr
  /\ Jne26 \in Instr
  /\ StoreRax \in Instr
  /\ StoreEax \in Instr
  /\ ResultRax \in Instr
  /\ ResultEax \in Instr
  /\ Ret \in Instr
  BY DEF Instr, Ops, Symbols, I, Enter, Load, Cmp, Jne, Addr, CallRax, Enter64, Enter84,
         Clear8, Clear56, Stack, Save, Restore, Jne13, Jne14, Jne26, StoreRax, StoreEax,
         ResultRax, ResultEax, Ret

LEMMA TextFits ==
  ASSUME NEW a \in Arches
  PROVE  LET t == Text(a) IN
         /\ DOMAIN t = 1 .. 27
         /\ \A k \in 1 .. 27 : /\ t[k] \in Instr /\ Fits(t[k], k, a)
                               /\ t[k].op \notin {"nop", "jmp"}
                               /\ t[k].sym = Hole <=> k \in HoleSet(a)
<1> DEFINE t == Text(a)
           Good(k) == /\ t[k] \in Instr /\ Fits(t[k], k, a)
                      /\ t[k].op \notin {"nop", "jmp"}
                      /\ t[k].sym = Hole <=> k \in HoleSet(a)
<1>1. CASE a = "stub"
  <2>1. DOMAIN t = 1 .. 27
    BY <1>1, Listing64
  <2>2. ASSUME NEW k \in {4, 7, 17, 20} PROVE Good(k)
    <3>1. t[k] = Load
      BY <1>1, Listing64
    <3> HIDE DEF t
    <3> QED  BY <1>1, <3>1, Kinds, AreInstrs, HolesAre DEF Fits, Loads
  <2>3. ASSUME NEW k \in {5, 8, 18, 21} PROVE Good(k)
    <3>1. t[k] = Cmp
      BY <1>1, Listing64
    <3> HIDE DEF t
    <3> QED  BY <1>1, <3>1, Kinds, AreInstrs, HolesAre DEF Fits, Cmps
  <2>4. ASSUME NEW k \in {6, 9} PROVE Good(k)
    <3>1. t[k] = Jne13
      BY <1>1, Listing64
    <3> HIDE DEF t
    <3> QED  BY <1>1, <3>1, Kinds, AreInstrs, HolesAre DEF Fits, Jumps, RfAt
  <2>5. ASSUME NEW k \in {19, 22} PROVE Good(k)
    <3>1. t[k] = Jne26
      BY <1>1, Listing64
    <3> HIDE DEF t
    <3> QED  BY <1>1, <3>1, Kinds, AreInstrs, HolesAre DEF Fits, Jumps
  <2>6. ASSUME NEW k \in {10, 13, 23} PROVE Good(k)
    <3>1. t[k] = Addr
      BY <1>1, Listing64
    <3> HIDE DEF t
    <3> QED  BY <1>1, <3>1, Kinds, AreInstrs, HolesAre DEF Fits, PreAt, RfAt
  <2>7. ASSUME NEW k \in {11, 14, 24} PROVE Good(k)
    <3>1. t[k] = Restore
      BY <1>1, Listing64
    <3> HIDE DEF t
    <3> QED  BY <1>1, <3>1, Kinds, AreInstrs, HolesAre DEF Fits, Restores
  <2>8. ASSUME NEW k \in {12, 15, 25} PROVE Good(k)
    <3>1. t[k] = CallRax
      BY <1>1, Listing64
    <3> HIDE DEF t
    <3> QED  BY <1>1, <3>1, Kinds, AreInstrs, HolesAre DEF Fits, CallsOf
  <2>9. ASSUME NEW k \in {1} PROVE Good(k)
    <3>1. t[k] = Enter64
      BY <1>1, Listing64
    <3> HIDE DEF t
    <3> QED  BY <1>1, <3>1, Kinds, AreInstrs, HolesAre DEF Fits
  <2>10. ASSUME NEW k \in {2} PROVE Good(k)
    <3>1. t[k] = Clear8
      BY <1>1, Listing64
    <3> HIDE DEF t
    <3> QED  BY <1>1, <3>1, Kinds, AreInstrs, HolesAre DEF Fits, InfoOf
  <2>11. ASSUME NEW k \in {3} PROVE Good(k)
    <3>1. t[k] = Save
      BY <1>1, Listing64
    <3> HIDE DEF t
    <3> QED  BY <1>1, <3>1, Kinds, AreInstrs, HolesAre DEF Fits, SaveAt
  <2>12. ASSUME NEW k \in {16} PROVE Good(k)
    <3>1. t[k] = StoreRax
      BY <1>1, Listing64
    <3> HIDE DEF t
    <3> QED  BY <1>1, <3>1, Kinds, AreInstrs, HolesAre DEF Fits, ResultOf, Width
  <2>13. ASSUME NEW k \in {26} PROVE Good(k)
    <3>1. t[k] = ResultRax
      BY <1>1, Listing64
    <3> HIDE DEF t
    <3> QED  BY <1>1, <3>1, Kinds, AreInstrs, HolesAre DEF Fits, ResultOf, Width
  <2>14. ASSUME NEW k \in {27} PROVE Good(k)
    <3>1. t[k] = Ret
      BY <1>1, Listing64
    <3> HIDE DEF t
    <3> QED  BY <1>1, <3>1, Kinds, AreInstrs, HolesAre DEF Fits
  <2>15. \A k \in 1 .. 27 : Good(k)
    BY <2>2, <2>3, <2>4, <2>5, <2>6, <2>7, <2>8, <2>9, <2>10, <2>11, <2>12, <2>13, <2>14
  <2> QED  BY <2>1, <2>15
<1>2. CASE a = "stub_32"
  <2>1. DOMAIN t = 1 .. 27
    BY <1>2, Listing32
  <2>2. ASSUME NEW k \in {5, 8, 17, 20} PROVE Good(k)
    <3>1. t[k] = Load
      BY <1>2, Listing32
    <3> HIDE DEF t
    <3> QED  BY <1>2, <3>1, Kinds, AreInstrs, HolesAre DEF Fits, Loads
  <2>3. ASSUME NEW k \in {6, 9, 18, 21} PROVE Good(k)
    <3>1. t[k] = Cmp
      BY <1>2, Listing32
    <3> HIDE DEF t
    <3> QED  BY <1>2, <3>1, Kinds, AreInstrs, HolesAre DEF Fits, Cmps
  <2>4. ASSUME NEW k \in {7, 10} PROVE Good(k)
    <3>1. t[k] = Jne14
      BY <1>2, Listing32
    <3> HIDE DEF t
    <3> QED  BY <1>2, <3>1, Kinds, AreInstrs, HolesAre DEF Fits, Jumps, RfAt
  <2>5. ASSUME NEW k \in {19, 22} PROVE Good(k)
    <3>1. t[k] = Jne26
      BY <1>2, Listing32
    <3> HIDE DEF t
    <3> QED  BY <1>2, <3>1, Kinds, AreInstrs, HolesAre DEF Fits, Jumps
  <2>6. ASSUME NEW k \in {11, 14, 23} PROVE Good(k)
    <3>1. t[k] = Addr
      BY <1>2, Listing32
    <3> HIDE DEF t
    <3> QED  BY <1>2, <3>1, Kinds, AreInstrs, HolesAre DEF Fits, PreAt, RfAt
  <2>7. ASSUME NEW k \in {13, 25} PROVE Good(k)
    <3>1. t[k] = Restore
      BY <1>2, Listing32
    <3> HIDE DEF t
    <3> QED  BY <1>2, <3>1, Kinds, AreInstrs, HolesAre DEF Fits, Restores
  <2>8. ASSUME NEW k \in {12, 15, 24} PROVE Good(k)
    <3>1. t[k] = CallRax
      BY <1>2, Listing32
    <3> HIDE DEF t
    <3> QED  BY <1>2, <3>1, Kinds, AreInstrs, HolesAre DEF Fits, CallsOf
  <2>9. ASSUME NEW k \in {1} PROVE Good(k)
    <3>1. t[k] = Enter84
      BY <1>2, Listing32
    <3> HIDE DEF t
    <3> QED  BY <1>2, <3>1, Kinds, AreInstrs, HolesAre DEF Fits
  <2>10. ASSUME NEW k \in {2} PROVE Good(k)
    <3>1. t[k] = Clear56
      BY <1>2, Listing32
    <3> HIDE DEF t
    <3> QED  BY <1>2, <3>1, Kinds, AreInstrs, HolesAre DEF Fits, InfoOf
  <2>11. ASSUME NEW k \in {3} PROVE Good(k)
    <3>1. t[k] = Stack
      BY <1>2, Listing32
    <3> HIDE DEF t
    <3> QED  BY <1>2, <3>1, Kinds, AreInstrs, HolesAre DEF Fits
  <2>12. ASSUME NEW k \in {4} PROVE Good(k)
    <3>1. t[k] = Save
      BY <1>2, Listing32
    <3> HIDE DEF t
    <3> QED  BY <1>2, <3>1, Kinds, AreInstrs, HolesAre DEF Fits, SaveAt
  <2>13. ASSUME NEW k \in {16} PROVE Good(k)
    <3>1. t[k] = StoreEax
      BY <1>2, Listing32
    <3> HIDE DEF t
    <3> QED  BY <1>2, <3>1, Kinds, AreInstrs, HolesAre DEF Fits, ResultOf, Width
  <2>14. ASSUME NEW k \in {26} PROVE Good(k)
    <3>1. t[k] = ResultEax
      BY <1>2, Listing32
    <3> HIDE DEF t
    <3> QED  BY <1>2, <3>1, Kinds, AreInstrs, HolesAre DEF Fits, ResultOf, Width
  <2>15. ASSUME NEW k \in {27} PROVE Good(k)
    <3>1. t[k] = Ret
      BY <1>2, Listing32
    <3> HIDE DEF t
    <3> QED  BY <1>2, <3>1, Kinds, AreInstrs, HolesAre DEF Fits
  <2>16. \A k \in 1 .. 27 : Good(k)
    BY <2>2, <2>3, <2>4, <2>5, <2>6, <2>7, <2>8, <2>9, <2>10, <2>11, <2>12, <2>13, <2>14, <2>15
  <2> QED  BY <2>1, <2>16
<1> QED  BY <1>1, <1>2 DEF Arches

-----------------------------------------------------------------------------
(* create_stub                                                             *)

HolesFrom(a, n) == {HolesOf(a)[i] : i \in n .. 7}

(* The first n holes of t, a copy of stub a, are filled.                   *)
Filled(t, a, n) ==
  /\ DOMAIN t = 1 .. 27
  /\ \A k \in 1 .. 27 :
       /\ t[k] \in Instr /\ Fits(t[k], k, a)
       /\ t[k].op \notin {"nop", "jmp"}
       /\ t[k].sym = Hole <=> k \in HolesFrom(a, n + 1)
  /\ \A i \in 1 .. n : t[HolesOf(a)[i]].sym = Addrs[i]

LEMMA HolesSorted ==
  ASSUME NEW a \in Arches
  PROVE  /\ \A i \in 1 .. 7 : HolesOf(a)[i] \in (1 .. 27) \ {16, 26}
         /\ \A i, j \in 1 .. 7 : i < j => HolesOf(a)[i] < HolesOf(a)[j]
  BY DEF HolesOf, Arches

(* The holes are in moves.                                                 *)
LEMMA HolesMove ==
  ASSUME NEW a \in Arches, NEW k \in HolesFrom(a, 1), NEW i, Fits(i, k, a)
  PROVE  i.op \in {"load", "nop", "addr"}
<1>1. k \in HoleSet(a)
  BY DEF HolesFrom, HoleSet
<1>2. CASE a = "stub"
  BY <1>1, <1>2, HolesAre
     DEF Fits, SaveAt, PreAt, RfAt, Loads, Cmps, Jumps, Restores, CallsOf
<1>3. CASE a = "stub_32"
  BY <1>1, <1>3, HolesAre
     DEF Fits, SaveAt, PreAt, RfAt, Loads, Cmps, Jumps, Restores, CallsOf
<1> QED  BY <1>2, <1>3 DEF Arches

LEMMA AddrsAre == \A i \in 1 .. 7 : Addrs[i] \in Symbols /\ Addrs[i] # Hole
<1>1. \A i \in 1 .. 7 : Addrs[i] \in {"monks_state", "state", "pre", "rf", "post"}
  BY DEF Addrs
<1>2. \A s \in {"monks_state", "state", "pre", "rf", "post"} : s \in Symbols /\ s # Hole
  BY DEF Symbols, Hole
<1> QED  BY <1>1, <1>2

LEMMA LeastIs ==
  ASSUME NEW S \in SUBSET Nat, NEW m \in S, \A k \in S : m <= k
  PROVE  Min(S) = m
<1>1. \A x \in S : (\A y \in S : x <= y) => x = m
  OBVIOUS
<1>2. (CHOOSE x \in S : \A y \in S : x <= y) = m
  BY <1>1
<1> QED  BY <1>2 DEF Min

(* ud_patch_addr fills the next hole and leaves all else.                  *)
LEMMA FillNext ==
  ASSUME NEW a \in Arches, NEW n \in 0 .. 6, NEW t, Filled(t, a, n)
  PROVE  Filled(PatchAddr(t, Addrs[n + 1]), a, n + 1)
<1> DEFINE h     == HolesOf(a)[n + 1]
           holes == {k \in DOMAIN t : t[k].op \in {"load", "addr"} /\ t[k].sym = Hole}
           new   == [t EXCEPT ![h].sym = Addrs[n + 1]]
<1>1. DOMAIN t = 1 .. 27 /\ n + 1 \in 1 .. 7
  BY DEF Filled
<1>2. holes = HolesFrom(a, n + 1)
  <2>1. HolesFrom(a, n + 1) \subseteq 1 .. 27 /\ HolesFrom(a, n + 1) \subseteq HolesFrom(a, 1)
    BY HolesSorted DEF HolesFrom
  <2>2. ASSUME NEW k \in HolesFrom(a, n + 1) PROVE k \in holes
    <3>1. k \in 1 .. 27 /\ k \in HolesFrom(a, 1)
      BY <2>1
    <3>2. t[k].sym = Hole /\ Fits(t[k], k, a) /\ t[k].op # "nop"
      BY <3>1 DEF Filled
    <3>3. t[k].op \in {"load", "addr"}
      BY <3>1, <3>2, HolesMove
    <3> QED  BY <1>1, <3>1, <3>2, <3>3
  <2>3. ASSUME NEW k \in holes PROVE k \in HolesFrom(a, n + 1)
    BY <1>1, <2>3 DEF Filled
  <2> QED  BY <2>2, <2>3
<1>3. h \in holes /\ \A k \in holes : h <= k
  <2> HIDE DEF holes
  <2>1. h \in holes
    BY <1>1, <1>2 DEF HolesFrom
  <2>2. ASSUME NEW k \in holes PROVE h <= k
    <3>1. PICK i \in n + 1 .. 7 : k = HolesOf(a)[i]
      BY <1>2 DEF HolesFrom
    <3>2. i \in 1 .. 7 /\ (i = n + 1 \/ n + 1 < i)
      BY <3>1
    <3>3. HolesOf(a)[i] \in Int /\ HolesOf(a)[n + 1] \in Int
      BY <1>1, <3>2, HolesSorted
    <3> QED  BY <1>1, <3>1, <3>2, <3>3, HolesSorted
  <2> QED  BY <2>1, <2>2
<1>4. PatchAddr(t, Addrs[n + 1]) = new
  <2>1. holes \in SUBSET Nat
    BY <1>1
  <2> HIDE DEF holes, h
  <2>2. Min(holes) = h /\ holes # {}
    BY <1>3, <2>1, LeastIs
  <2> QED  BY <2>2 DEF PatchAddr, holes
<1>5. h \in (1 .. 27) \ {16, 26}
  BY <1>1, HolesSorted
<1> HIDE DEF h, holes
<1>6. DOMAIN new = 1 .. 27
  BY <1>1
<1>7. /\ new[h] \in Instr /\ new[h].op = t[h].op /\ new[h].n = t[h].n
      /\ new[h].sym = Addrs[n + 1]
  <2>1. t[h] \in Instr /\ Addrs[n + 1] \in Symbols
    BY <1>1, <1>5, AddrsAre DEF Filled
  <2>2. new[h] = [t[h] EXCEPT !.sym = Addrs[n + 1]]
    BY <1>1, <1>5
  <2> HIDE DEF new
  <2> QED  BY <2>1, <2>2 DEF Instr
<1>8. \A k \in 1 .. 27 : k # h => new[k] = t[k]
  BY <1>1
<1> HIDE DEF new
<1>9. ASSUME NEW k \in 1 .. 27
      PROVE  /\ new[k] \in Instr /\ Fits(new[k], k, a)
             /\ new[k].op \notin {"nop", "jmp"}
             /\ new[k].sym = Hole <=> k \in HolesFrom(a, n + 2)
  <2>1. HolesFrom(a, n + 1) = HolesFrom(a, n + 2) \cup {h} /\ h \notin HolesFrom(a, n + 2)
    <3>1. \A i \in n + 2 .. 7 : i \in 1 .. 7 /\ n + 1 < i
      OBVIOUS
    <3>2. \A i \in n + 2 .. 7 : h < HolesOf(a)[i] /\ HolesOf(a)[i] \in Int
      BY <1>1, <3>1, HolesSorted DEF h
    <3>3. h \notin HolesFrom(a, n + 2)
      BY <1>5, <3>2 DEF HolesFrom
    <3>4. n + 1 .. 7 = (n + 2 .. 7) \cup {n + 1}
      BY <1>1
    <3>5. HolesFrom(a, n + 1) = HolesFrom(a, n + 2) \cup {h}
      BY <3>4 DEF HolesFrom, h
    <3> QED  BY <3>3, <3>5
  <2>2. /\ t[k] \in Instr /\ Fits(t[k], k, a)
        /\ t[k].op \notin {"nop", "jmp"}
        /\ t[k].sym = Hole <=> k \in HolesFrom(a, n + 1)
    BY DEF Filled
  <2>3. CASE k = h
    <3>1. Fits(new[k], k, a)
      BY <1>5, <1>7, <2>2, <2>3 DEF Fits
    <3>2. new[k].sym # Hole
      BY <1>1, <1>7, <2>3, AddrsAre
    <3> QED  BY <1>7, <2>1, <2>2, <2>3, <3>1, <3>2
  <2>4. CASE k # h
    BY <1>8, <2>1, <2>2, <2>4
  <2> QED  BY <2>3, <2>4
<1>10. ASSUME NEW i \in 1 .. n + 1 PROVE new[HolesOf(a)[i]].sym = Addrs[i]
  <2>1. CASE i = n + 1
    BY <1>7, <2>1 DEF h
  <2>2. CASE i \in 1 .. n
    <3>1. HolesOf(a)[i] \in 1 .. 27 /\ HolesOf(a)[i] # h
      BY <1>1, <2>2, HolesSorted DEF h
    <3>2. t[HolesOf(a)[i]].sym = Addrs[i]
      BY <2>2 DEF Filled
    <3> QED  BY <1>8, <3>1, <3>2
  <2> QED  BY <2>1, <2>2
<1>11. n + 1 + 1 = n + 2
  OBVIOUS
<1> QED  BY <1>4, <1>6, <1>9, <1>10, <1>11 DEF Filled

(* The first n stubs on the way from the template to the stub              *)
LEMMA CreateFills ==
  ASSUME NEW a \in Arches
  PROVE  Filled(Create(a), a, 7)
<1> DEFINE p0 == Text(a)
           p1 == PatchAddr(p0, Addrs[1])
           p2 == PatchAddr(p1, Addrs[2])
           p3 == PatchAddr(p2, Addrs[3])
           p4 == PatchAddr(p3, Addrs[4])
           p5 == PatchAddr(p4, Addrs[5])
           p6 == PatchAddr(p5, Addrs[6])
           p7 == PatchAddr(p6, Addrs[7])
           Fills(f) == [i \in 0 .. 7 |-> IF i = 0 THEN Text(a)
                                         ELSE PatchAddr(f[i - 1], Addrs[i])]
           g == [i \in 0 .. 7 |-> IF i = 0 THEN p0 ELSE IF i = 1 THEN p1 ELSE IF i = 2 THEN p2
                                  ELSE IF i = 3 THEN p3 ELSE IF i = 4 THEN p4
                                  ELSE IF i = 5 THEN p5 ELSE IF i = 6 THEN p6 ELSE p7]
           after == CHOOSE f : f = Fills(f)
<1>1. g = Fills(g)
  <2>1. /\ p1 = PatchAddr(p0, Addrs[1]) /\ p2 = PatchAddr(p1, Addrs[2])
        /\ p3 = PatchAddr(p2, Addrs[3]) /\ p4 = PatchAddr(p3, Addrs[4])
        /\ p5 = PatchAddr(p4, Addrs[5]) /\ p6 = PatchAddr(p5, Addrs[6])
        /\ p7 = PatchAddr(p6, Addrs[7]) /\ p0 = Text(a)
    OBVIOUS
  <2> HIDE DEF p0, p1, p2, p3, p4, p5, p6, p7
  <2>2. ASSUME NEW i \in 0 .. 7 PROVE g[i] = Fills(g)[i]
    BY <2>1
  <2> QED  BY <2>2
<1> HIDE DEF g
<1>2. after = Fills(after)
  BY <1>1
<1>3. Create(a) = after[7]
  BY DEF Create
<1> HIDE DEF after
<1>4. /\ after[0] = Text(a)
      /\ \A i \in 0 .. 6 : after[i + 1] = PatchAddr(after[i], Addrs[i + 1])
  <2>1. after[0] = Text(a)
    BY <1>2
  <2>2. ASSUME NEW i \in 0 .. 6 PROVE after[i + 1] = PatchAddr(after[i], Addrs[i + 1])
    <3>1. i + 1 \in 0 .. 7 /\ i + 1 # 0 /\ i + 1 - 1 = i
      OBVIOUS
    <3> QED  BY <1>2, <3>1
  <2> QED  BY <2>1, <2>2
<1>5. Filled(after[0], a, 0)
  <2>1. HolesFrom(a, 0 + 1) = HoleSet(a)
    BY DEF HolesFrom, HoleSet
  <2> QED  BY <1>4, <2>1, TextFits DEF Filled
<1>6. \A i \in 0 .. 6 : Filled(after[i], a, i) => Filled(after[i + 1], a, i + 1)
  BY <1>4, FillNext
<1>7. Filled(after[7], a, 7)
  <2>1. Filled(after[1], a, 1)
    BY <1>5, <1>6
  <2>2. Filled(after[2], a, 2)
    BY <2>1, <1>6
  <2>3. Filled(after[3], a, 3)
    BY <2>2, <1>6
  <2>4. Filled(after[4], a, 4)
    BY <2>3, <1>6
  <2>5. Filled(after[5], a, 5)
    BY <2>4, <1>6
  <2>6. Filled(after[6], a, 6)
    BY <2>5, <1>6
  <2> QED  BY <2>6, <1>6
<1> QED  BY <1>3, <1>7

-----------------------------------------------------------------------------
(* destroy_stub                                                            *)

(* A stub that was made, cut or not                                        *)
Layout(t, a) ==
  /\ DOMAIN t = 1 .. 27
  /\ \A k \in 1 .. 27 : t[k] \in Instr /\ Fits(t[k], k, a)
  /\ t[PreAt(a)].sym = "pre" /\ t[RfAt(a)].sym = "rf" /\ t[23].sym = "post"

Uncut(t) == \A k \in 1 .. 27 : t[k].op \notin {"nop", "jmp"}

Skipping(t, a) ==
  \A k \in 1 .. 27 :
    /\ k \in Jumps(a) => t[k].op = "jmp"
    /\ k \in Loads(a) \cup Cmps(a) => t[k].op = "nop"

LEMMA Created ==
  ASSUME NEW a \in Arches
  PROVE  Layout(Create(a), a) /\ Uncut(Create(a))
<1>1. Filled(Create(a), a, 7)
  BY CreateFills
<1>2. /\ HolesOf(a)[3] = PreAt(a) /\ HolesOf(a)[4] = RfAt(a) /\ HolesOf(a)[7] = 23
      /\ Addrs[3] = "pre" /\ Addrs[4] = "rf" /\ Addrs[7] = "post"
  BY DEF HolesOf, PreAt, RfAt, Addrs, Arches
<1>3. \A i \in {3, 4, 7} : Create(a)[HolesOf(a)[i]].sym = Addrs[i]
  BY <1>1 DEF Filled
<1> QED  BY <1>1, <1>2, <1>3 DEF Filled, Layout, Uncut

(* The two instructions before a jump, if they are no jumps                *)
LEMMA TwoBeforeIs ==
  ASSUME NEW t, NEW k \in 3 .. 27, t[k - 1].op # "jne", t[k - 2].op # "jne"
  PROVE  TwoBefore(t, k) = {k - 2, k - 1}
<1> DEFINE others == {j \in 1 .. k - 1 : t[j].op # "jne"}
           above(j) == {i \in others : i > j}
<1>1. others \subseteq 1 .. k - 1 /\ k - 1 \in others /\ k - 2 \in others
  OBVIOUS
<1>2. IsFiniteSet(1 .. k - 1)
  BY FS_Interval
<1>3. TwoBefore(t, k) = {j \in others : Cardinality(above(j)) < 2}
  BY DEF TwoBefore
<1> HIDE DEF others
<1>4. \A i \in others : i \in Int /\ ~(i > k - 1) /\ (i > k - 2 => i = k - 1)
  BY <1>1
<1>5. Cardinality(above(k - 1)) < 2
  <2>1. above(k - 1) = {}
    BY <1>4
  <2> QED  BY <2>1, FS_EmptySet
<1>6. Cardinality(above(k - 2)) < 2
  <2>1. k - 1 > k - 2
    OBVIOUS
  <2>2. above(k - 2) = {k - 1}
    BY <1>1, <1>4, <2>1
  <2> HIDE DEF above
  <2>3. Cardinality({k - 1}) = 1
    BY FS_Singleton
  <2> QED  BY <2>2, <2>3
<1>7. ASSUME NEW j \in others, j # k - 1, j # k - 2
      PROVE  ~(Cardinality(above(j)) < 2)
  <2>1. {k - 1, k - 2} \subseteq above(j)
    BY <1>1, <1>7
  <2>2. IsFiniteSet(above(j))
    BY <1>1, <1>2, FS_Subset
  <2>3. Cardinality({k - 1, k - 2}) = 2
    <3>1. IsFiniteSet({k - 2}) /\ Cardinality({k - 2}) = 1
      BY FS_Singleton
    <3>2. k - 1 \notin {k - 2} /\ {k - 1, k - 2} = {k - 2} \cup {k - 1}
      OBVIOUS
    <3>3. Cardinality({k - 2} \cup {k - 1}) = Cardinality({k - 2}) + 1
      BY <3>1, <3>2, FS_AddElement
    <3> QED  BY <3>1, <3>2, <3>3
  <2> HIDE DEF above
  <2>4. Cardinality({k - 1, k - 2}) <= Cardinality(above(j))
    BY <2>1, <2>2, FS_Subset
  <2>5. Cardinality(above(j)) \in Nat
    BY <2>2, FS_CardinalityType
  <2> QED  BY <2>3, <2>4, <2>5
<1> QED  BY <1>1, <1>3, <1>5, <1>6, <1>7

LEMMA PlacesAre ==
  ASSUME NEW a \in Arches
  PROVE  /\ Loads(a) = {k - 2 : k \in Jumps(a)} /\ Cmps(a) = {k - 1 : k \in Jumps(a)}
         /\ Jumps(a) \subseteq 3 .. 27
         /\ Loads(a) \cap Jumps(a) = {} /\ Cmps(a) \cap Jumps(a) = {}
  BY DEF Loads, Cmps, Jumps, Arches

(* Which places have a jne, and which the instructions before              *)
LEMMA JumpsAre ==
  ASSUME NEW a \in Arches, NEW t, Layout(t, a), Uncut(t)
  PROVE  {k \in DOMAIN t : t[k].op = "jne"} = Jumps(a)
<1>1. ASSUME NEW k \in Jumps(a) PROVE k \in DOMAIN t /\ t[k].op = "jne"
  <2>1. k \in 1 .. 27 /\ Fits(t[k], k, a) /\ t[k].op \notin {"nop", "jmp"}
    BY PlacesAre DEF Layout, Uncut
  <2>2. CASE a = "stub"
    BY <2>1, <2>2 DEF Fits, SaveAt, PreAt, RfAt, Loads, Cmps, Jumps, Restores, CallsOf, Layout
  <2>3. CASE a = "stub_32"
    BY <2>1, <2>3 DEF Fits, SaveAt, PreAt, RfAt, Loads, Cmps, Jumps, Restores, CallsOf, Layout
  <2> QED  BY <2>2, <2>3 DEF Arches
<1>2. ASSUME NEW k \in DOMAIN t, t[k].op = "jne" PROVE k \in Jumps(a)
  BY <1>2 DEF Layout, Fits
<1> QED  BY <1>1, <1>2

(* Every test becomes nops and every jump goes where it went.              *)
LEMMA Destroyed ==
  ASSUME NEW a \in Arches, NEW t, Layout(t, a), Uncut(t)
  PROVE  Layout(PatchCmp(t), a) /\ Skipping(PatchCmp(t), a)
<1> DEFINE jumps == {k \in DOMAIN t : t[k].op = "jne"}
           dead  == UNION {TwoBefore(t, k) : k \in jumps}
           new   == PatchCmp(t)
<1>1. DOMAIN t = 1 .. 27 /\ jumps = Jumps(a) /\ jumps \subseteq 3 .. 27
  BY JumpsAre, PlacesAre DEF Layout
<1>2. dead = Loads(a) \cup Cmps(a)
  <2>1. ASSUME NEW k \in Jumps(a) PROVE TwoBefore(t, k) = {k - 2, k - 1}
    <3>1. k \in 3 .. 27 /\ k - 1 \in Cmps(a) /\ k - 2 \in Loads(a)
      BY PlacesAre
    <3>2. k - 1 \notin jumps /\ k - 2 \notin jumps /\ k - 1 \in DOMAIN t /\ k - 2 \in DOMAIN t
      BY <1>1, <3>1, PlacesAre
    <3> QED  BY <3>1, <3>2, TwoBeforeIs
  <2>2. dead = UNION {{k - 2, k - 1} : k \in Jumps(a)}
    BY <1>1, <2>1
  <2> QED  BY <2>2, PlacesAre
<1> HIDE DEF jumps, dead
<1>3. /\ DOMAIN new = 1 .. 27
      /\ \A k \in 1 .. 27 : new[k] = IF k \in jumps THEN [t[k] EXCEPT !.op = "jmp"]
                                     ELSE IF k \in dead THEN I("nop", 0, "none") ELSE t[k]
  BY <1>1 DEF PatchCmp, jumps, dead
<1> HIDE DEF new
<1>4. ASSUME NEW k \in Jumps(a)
      PROVE  /\ new[k] \in Instr /\ new[k].op = "jmp" /\ new[k].n = t[k].n
             /\ new[k].sym = t[k].sym
  <2>0. k \in 1 .. 27 /\ k \in jumps
    BY <1>1
  <2>1. t[k] \in Instr /\ new[k] = [t[k] EXCEPT !.op = "jmp"]
    BY <1>3, <2>0 DEF Layout
  <2>2. "jmp" \in Ops
    BY DEF Ops
  <2> QED  BY <2>1, <2>2 DEF Instr
<1>5. ASSUME NEW k \in Loads(a) \cup Cmps(a)
      PROVE  k \in 1 .. 27 /\ new[k] \in Instr /\ new[k].op = "nop"
  <2>1. k \in 1 .. 27 /\ k \notin Jumps(a)
    BY PlacesAre
  <2>2. new[k] = I("nop", 0, "none")
    BY <1>1, <1>2, <1>3, <2>1
  <2>3. I("nop", 0, "none").op = "nop"
    BY DEF I
  <2>4. I("nop", 0, "none") \in Instr
    BY DEF I, Instr, Ops, Symbols
  <2> QED  BY <2>1, <2>2, <2>3, <2>4
<1>6. \A k \in 1 .. 27 : k \notin Jumps(a) \cup Loads(a) \cup Cmps(a) => new[k] = t[k]
  BY <1>1, <1>2, <1>3
<1>7. ASSUME NEW k \in 1 .. 27 PROVE new[k] \in Instr /\ Fits(new[k], k, a)
  <2>1. t[k] \in Instr /\ Fits(t[k], k, a)
    BY DEF Layout
  <2>2. CASE k \in Jumps(a)
    <3>1. t[k].op = "jne"
      BY <1>1, <2>2 DEF jumps
    <3>2. t[k].n = (IF k < 16 THEN RfAt(a) ELSE 26)
      BY <2>1, <3>1 DEF Fits
    <3> QED  BY <1>4, <2>2, <3>2 DEF Fits
  <2>3. CASE k \in Loads(a) \cup Cmps(a)
    BY <1>5, <2>3 DEF Fits
  <2>4. CASE k \notin Jumps(a) \cup Loads(a) \cup Cmps(a)
    BY <1>6, <2>1, <2>4
  <2> QED  BY <2>2, <2>3, <2>4
<1>8. {PreAt(a), RfAt(a), 23} \subseteq (1 .. 27) \ (Jumps(a) \cup Loads(a) \cup Cmps(a))
  BY DEF PreAt, RfAt, Jumps, Loads, Cmps, Arches
<1>9. Layout(new, a)
  BY <1>3, <1>6, <1>7, <1>8 DEF Layout
<1>10. Skipping(new, a)
  BY <1>4, <1>5 DEF Skipping
<1> QED  BY <1>9, <1>10 DEF new

-----------------------------------------------------------------------------
(* The annotated text                                                      *)

(* Where the thread waits for a function that it has called                *)
Waits(a) == [pre |-> 13, rf |-> 16, post |-> IF a = "stub" THEN 26 ELSE 25]

TextInv ==
  /\ text = <<>> => pc = 0 /\ ~cut
  /\ text # <<>> => /\ Layout(text, arch)
                    /\ IF cut THEN Skipping(text, arch) ELSE Uncut(text)

CallInv == fn # "none" => pc = Waits(arch)[fn]

(* rax has the address of the function that is called next.                *)
RaxInv ==
  /\ pc \in PreAt(arch) + 1 .. 12 => rax = AddressOf("pre")
  /\ pc \in RfAt(arch) + 1 .. 15 => rax = AddressOf("rf")
  /\ pc \in 24 .. Waits(arch).post - 1 => rax = AddressOf("post")

(* The registers have the arguments up to the pre-hook, and where they     *)
(* have been restored.                                                     *)
HasArgs ==
  \/ pc \in 1 .. 12 \/ fn \in {"pre", "rf"}
  \/ arch = "stub" /\ (pc \in {15, 25} \/ fn = "post")
  \/ arch = "stub_32" /\ pc \in {14, 15}
RegsInv == HasArgs => regs = args

(* What is in the frame from which place on                                *)
FrameInv ==
  /\ pc >= 3 => Quad8(InfoOf(arch)) = node
  /\ pc > SaveAt(arch) => \A i \in 1 .. 6 : Quad8(Slots(arch)[i]) = args[i]
  /\ pc >= 17 => /\ Quad8(ResultOf(arch))[1] = ret[1][1]
                 /\ arch = "stub" => Quad8(ResultOf(arch)) = ret[1]

(* The real function has returned once.                                    *)
Returned(r) == r = <<r[1]>> /\ r[1] \in Results

(* What the call has come to                                               *)
RetInv ==
  /\ pc \in 1 .. 15 \/ fn = "rf" => ret = <<>>
  /\ pc >= 16 /\ fn # "rf" => Returned(ret)
  /\ pc = 16 /\ fn = "none" => rax = ret[1]
  /\ pc = 27 => rax[1] = ret[1][1] /\ (arch = "stub" => rax = ret[1])
  /\ pc \in 1 .. 2 => node = Null
  /\ pc \in 1 .. 16 => report = "none"

StubInv == TypeOK /\ TextInv /\ CallInv /\ RaxInv /\ RegsInv /\ FrameInv /\ RetInv /\ ReportTrue

-----------------------------------------------------------------------------
(* Each step keeps the annotations.                                        *)

LEMMA Sizes ==
  /\ FrameSize("stub") = 64 /\ FrameSize("stub_32") = 84
  /\ Len(Text("stub")) = 27 /\ Len(Text("stub_32")) = 27
  /\ InfoOf("stub") = 8 /\ InfoOf("stub_32") = 56
  /\ ResultOf("stub") = 16 /\ ResultOf("stub_32") = 60
<1>1. Enter(64).n = 64 /\ Enter(84).n = 84
  BY DEF Enter, I
<1>2. Text("stub")[1] = Enter(64) /\ Text("stub_32")[1] = Enter(84)
  BY DEF Text, Text64, Text32
<1>3. Len(Text("stub")) = 27 /\ Len(Text("stub_32")) = 27
  BY DEF Text, Text64, Text32
<1> QED  BY <1>1, <1>2, <1>3 DEF FrameSize, InfoOf, ResultOf

(* The words of a frame *)
LEMMA Words ==
  /\ 8 \div 4 = 2 /\ 16 \div 4 = 4 /\ 24 \div 4 = 6 /\ 32 \div 4 = 8 /\ 40 \div 4 = 10
  /\ 48 \div 4 = 12 /\ 56 \div 4 = 14 /\ 60 \div 4 = 15 /\ 64 \div 4 = 16 /\ 84 \div 4 = 21
  OBVIOUS

LEMMA SlotsAre ==
  \A i \in 1 .. 6 : Slots("stub")[i] = 16 + 8 * i /\ Slots("stub_32")[i] = 56 - 8 * i
  BY DEF Slots

LEMMA InitInv == Init => StubInv
<1> SUFFICES ASSUME Init PROVE StubInv
  OBVIOUS
<1>1. arch \in Arches /\ pc = 0 /\ fn = "none" /\ text = <<>> /\ cut = FALSE
  BY DEF Init, Arches
<1>2. TypeOK
  <2>1. DOMAIN text = {} /\ text = <<>>
    BY DEF Init
  <2>2. Len(Text(arch)) = 27
    BY <1>1, Sizes DEF Arches
  <2>3. DOMAIN regs = 1 .. 6 /\ args \in Arguments
    BY StubValues DEF Init
  <2>4. DOMAIN frame = 1 .. FrameSize(arch) \div 4
    BY DEF Init
  <2>5. /\ arch \in {"stub", "stub_32"} /\ monks_state \in {0, 1} /\ state \in {0, 1}
        /\ fn \in {"none", "pre", "rf", "post"} /\ zf \in BOOLEAN /\ cut \in BOOLEAN
        /\ node \in {Null} \cup Nodes /\ report \in {"none", "Ok", "Error"}
    BY DEF Init
  <2>6. ret \in Seq(Results)
    BY DEF Init
  <2> QED  BY <1>1, <2>1, <2>2, <2>3, <2>4, <2>5, <2>6 DEF TypeOK
<1>3. TextInv /\ CallInv
  BY <1>1 DEF TextInv, CallInv
<1>4. PreAt(arch) \in 10 .. 11 /\ RfAt(arch) \in 13 .. 14 /\ SaveAt(arch) \in 3 .. 4
  BY <1>1 DEF PreAt, RfAt, SaveAt
<1>5. RaxInv /\ RegsInv /\ FrameInv /\ RetInv
  BY <1>1, <1>4 DEF RaxInv, RegsInv, HasArgs, FrameInv, RetInv
<1>6. ReportTrue
  BY DEF Init, ReportTrue
<1> QED  BY <1>2, <1>3, <1>5, <1>6 DEF StubInv

(* The instruction that runs is the one that stubs.S has there.            *)
LEMMA Located ==
  ASSUME StubInv, NEW op, Runs(op)
  PROVE  /\ arch \in Arches /\ pc \in 1 .. 27 /\ fn = "none" /\ text # <<>>
         /\ text[pc].op = op /\ Fits(text[pc], pc, arch) /\ text[pc] \in Instr
         /\ Layout(text, arch)
<1>1. pc \in DOMAIN text /\ fn = "none" /\ text[pc].op = op /\ arch \in Arches
  BY DEF Runs, StubInv, TypeOK, Arches
<1>2. text # <<>>
  BY <1>1
<1> QED  BY <1>1, <1>2 DEF StubInv, TextInv, Layout

(* All instructions but jumps and the last go on to the next, and do not   *)
(* touch what the call has come to.                                        *)
LEMMA StepKeeps ==
  ASSUME StubInv, NEW op, op # "ret", Step(op)
  PROVE  /\ pc \in 1 .. 26 /\ pc' = pc + 1 /\ fn = "none" /\ fn' = "none" /\ arch' = arch
         /\ args' = args /\ ret' = ret /\ node' = node /\ report' = report
         /\ TextInv' /\ CallInv' /\ ReportTrue'
         /\ (DOMAIN frame' = DOMAIN frame /\ DOMAIN regs' = DOMAIN regs /\ zf' \in BOOLEAN
              => TypeOK')
<1>1. /\ Runs(op) /\ pc' = pc + 1 /\ fn' = fn /\ text' = text /\ arch' = arch /\ cut' = cut
      /\ monks_state' = monks_state /\ state' = state
      /\ args' = args /\ ret' = ret /\ node' = node /\ report' = report
  BY DEF Step, textVars, stateVars, callVars
<1>2. /\ arch \in Arches /\ pc \in 1 .. 27 /\ fn = "none" /\ text # <<>>
      /\ text[pc].op = op /\ Fits(text[pc], pc, arch)
  BY <1>1, Located
<1>3. pc # 27
  <2> SUFFICES ASSUME pc = 27 PROVE FALSE
    OBVIOUS
  <2> QED  BY <1>2 DEF Fits, SaveAt, PreAt, RfAt, Loads, Cmps, Jumps, Restores, CallsOf, Arches
<1>4. pc \in 1 .. 26 /\ pc + 1 \in 0 .. 27 /\ Len(Text(arch)) = 27
  <2>1. Len(Text(arch)) = 27
    BY <1>2, Sizes DEF Arches
  <2> QED  BY <1>2, <1>3, <2>1
<1>5. TextInv'
  BY <1>1, <1>2, <1>4 DEF StubInv, TextInv
<1>6. CallInv' /\ ReportTrue'
  BY <1>1, <1>2 DEF StubInv, CallInv, ReportTrue, Failed
<1>7. ASSUME DOMAIN frame' = DOMAIN frame, DOMAIN regs' = DOMAIN regs, zf' \in BOOLEAN
      PROVE  TypeOK'
  BY <1>1, <1>4, <1>7 DEF StubInv, TypeOK, FrameSize
<1> QED  BY <1>1, <1>2, <1>4, <1>5, <1>6, <1>7

(* What most instructions keep: those that leave the frame alone, and      *)
(* those that leave the registers alone.                                   *)
LEMMA Onward ==
  ASSUME StubInv, NEW op, op # "ret", Step(op)
  PROVE  /\ /\ frame' = frame
            /\ pc \notin {2, SaveAt(arch), 15, 16, 26}
            => FrameInv' /\ RetInv'
         /\ /\ rax' = rax
            /\ pc \notin {PreAt(arch), RfAt(arch), 23}
            => RaxInv'
         /\ /\ regs' = regs
            /\ pc \notin Restores(arch)
            => RegsInv'
<1>1. /\ pc \in 1 .. 26 /\ pc' = pc + 1 /\ fn = "none" /\ fn' = "none" /\ arch' = arch
      /\ args' = args /\ ret' = ret /\ node' = node /\ report' = report /\ arch \in Arches
  BY StepKeeps, Located DEF Step
<1>2. ASSUME frame' = frame, pc \notin {2, SaveAt(arch), 15, 16, 26}
      PROVE  FrameInv' /\ RetInv'
  <2>1. SaveAt(arch) \in 3 .. 4
    BY DEF SaveAt
  <2>2. \A n : Quad8(n)' = Quad8(n)
    BY <1>2 DEF Quad8
  <2>3. FrameInv'
    BY <1>1, <1>2, <2>1, <2>2 DEF StubInv, FrameInv
  <2>4. RetInv'
    <3>1. CASE pc \in 1 .. 14
      BY <1>1, <3>1 DEF StubInv, RetInv
    <3>2. CASE pc \in 17 .. 25
      BY <1>1, <3>2 DEF StubInv, RetInv
    <3> QED  BY <1>1, <1>2, <3>1, <3>2
  <2> QED  BY <2>3, <2>4
<1>3. ASSUME rax' = rax, pc \notin {PreAt(arch), RfAt(arch), 23}
      PROVE  RaxInv'
  <2>1. PreAt(arch) \in 10 .. 11 /\ RfAt(arch) \in 13 .. 14 /\ Waits(arch).post \in 25 .. 26
    BY DEF PreAt, RfAt, Waits
  <2> QED  BY <1>1, <1>3, <2>1 DEF StubInv, RaxInv
<1>4. ASSUME regs' = regs, pc \notin Restores(arch)
      PROVE  RegsInv'
  <2>1. CASE arch = "stub"
    BY <1>1, <1>4, <2>1 DEF StubInv, RegsInv, HasArgs, Restores
  <2>2. CASE arch = "stub_32"
    BY <1>1, <1>4, <2>2 DEF StubInv, RegsInv, HasArgs, Restores
  <2> QED  BY <1>1, <2>1, <2>2 DEF Arches
<1> QED  BY <1>2, <1>3, <1>4

LEMMA PassOnInv == StubInv /\ PassOn => StubInv'
<1> SUFFICES ASSUME StubInv, PassOn PROVE StubInv'
  OBVIOUS
<1>1. PICK op \in {"enter", "nop"} : Step(op)
  BY DEF PassOn
<1>2. rax' = rax /\ zf' = zf /\ regs' = regs /\ frame' = frame
  BY DEF PassOn, regVars
<1>3. TextInv' /\ CallInv' /\ ReportTrue' /\ TypeOK'
  BY <1>1, <1>2, StepKeeps DEF StubInv, TypeOK
<1>4. /\ arch \in Arches /\ Fits(text[pc], pc, arch) /\ text[pc].op = op
  BY <1>1, Located DEF Step
<1>5. pc = 1 \/ pc \in Loads(arch) \cup Cmps(arch)
  BY <1>1, <1>4 DEF Fits
<1>6. /\ pc \notin {2, SaveAt(arch), 15, 16, 26}
      /\ pc \notin {PreAt(arch), RfAt(arch), 23} /\ pc \notin Restores(arch)
  BY <1>4, <1>5 DEF Arches, Loads, Cmps, SaveAt, PreAt, RfAt, Restores
<1>7. FrameInv' /\ RetInv' /\ RaxInv' /\ RegsInv'
  BY <1>1, <1>2, <1>6, Onward
<1> QED  BY <1>3, <1>7 DEF StubInv

(* What is read after two words of the frame have been written             *)
LEMMA Written ==
  ASSUME NEW f, NEW hi \in DOMAIN f, hi \in Int, hi - 1 \in DOMAIN f, NEW x, NEW y,
         NEW g, g = [f EXCEPT ![hi] = x, ![hi - 1] = y]
  PROVE  /\ DOMAIN g = DOMAIN f /\ g[hi] = x /\ g[hi - 1] = y
         /\ \A k \in DOMAIN f : k # hi /\ k # hi - 1 => g[k] = f[k]
<1> DEFINE lo == hi - 1
<1>1. lo # hi /\ g = [f EXCEPT ![hi] = x, ![lo] = y] /\ lo \in DOMAIN f
  OBVIOUS
<1> HIDE DEF lo
<1>2. /\ DOMAIN g = DOMAIN f /\ g[hi] = x /\ g[lo] = y
      /\ \A k \in DOMAIN f : k # hi /\ k # lo => g[k] = f[k]
  BY <1>1
<1> QED  BY <1>2 DEF lo

LEMMA FrameIs ==
  ASSUME TypeOK
  PROVE  DOMAIN frame = IF arch = "stub" THEN 1 .. 16 ELSE 1 .. 21
<1>1. arch \in {"stub", "stub_32"} /\ DOMAIN frame = 1 .. FrameSize(arch) \div 4
  BY DEF TypeOK
<1>2. CASE arch = "stub"
  BY <1>1, <1>2, Sizes, Words
<1>3. CASE arch = "stub_32"
  BY <1>1, <1>3, Sizes, Words
<1> QED  BY <1>1, <1>2, <1>3

(* A value is the two words it consists of, and so is each argument.       *)
LEMMA Pairs ==
  /\ \A v \in {Null} \cup Nodes \cup Results : <<v[1], v[2]>> = v
  /\ \A a \in Arguments : /\ a = [i \in 1 .. 6 |-> a[i]]
                          /\ \A i \in 1 .. 6 : <<a[i][1], a[i][2]>> = a[i]
<1>1. \A v \in Value : <<v[1], v[2]>> = v
  BY DEF Value
<1>2. {Null} \cup Nodes \cup Results \subseteq Value
  BY StubValues DEF Value, Null
<1>3. Arguments \subseteq [1 .. 6 -> Value]
  BY StubValues
<1> QED  BY <1>1, <1>2, <1>3

LEMMA ClearInv == StubInv /\ Clear => StubInv'
<1> SUFFICES ASSUME StubInv, Clear PROVE StubInv'
  OBVIOUS
<1>1. /\ Step("clear") /\ frame' = Put8(frame, text[pc].n, Null)
      /\ rax' = Null /\ zf' = zf /\ regs' = regs
  BY DEF Clear
<1>2. /\ arch \in Arches /\ Fits(text[pc], pc, arch) /\ text[pc].op = "clear"
  BY <1>1, Located DEF Step
<1>3. pc = 2 /\ text[pc].n = InfoOf(arch)
  BY <1>2 DEF Fits
<1>4. InfoOf(arch) \div 4 = IF arch = "stub" THEN 2 ELSE 14
  BY <1>2, Words DEF InfoOf
<1>5. InfoOf(arch) \div 4 \in DOMAIN frame /\ InfoOf(arch) \div 4 - 1 \in DOMAIN frame
  BY <1>4, FrameIs DEF StubInv
<1>6. DOMAIN frame' = DOMAIN frame /\ Quad8(InfoOf(arch))' = Null
  <2> DEFINE hi == InfoOf(arch) \div 4
  <2>1. frame' = [frame EXCEPT ![hi] = Null[1], ![hi - 1] = Null[2]]
    BY <1>1, <1>3 DEF Put8
  <2>2. Quad8(InfoOf(arch))' = <<frame'[hi], frame'[hi - 1]>>
    BY <1>1 DEF Quad8, Step, textVars, InfoOf
  <2>3. hi \in Int /\ hi \in DOMAIN frame /\ hi - 1 \in DOMAIN frame
    BY <1>4, <1>5
  <2> HIDE DEF hi
  <2>4. DOMAIN frame' = DOMAIN frame /\ frame'[hi] = Null[1] /\ frame'[hi - 1] = Null[2]
    BY <2>1, <2>3, Written
  <2> QED  BY <2>2, <2>4, Pairs
<1>7. /\ pc' = 3 /\ fn = "none" /\ fn' = "none" /\ arch' = arch
      /\ args' = args /\ ret' = ret /\ node' = node /\ report' = report
      /\ TextInv' /\ CallInv' /\ ReportTrue' /\ TypeOK'
  BY <1>1, <1>3, <1>6, StepKeeps DEF StubInv, TypeOK
<1>8. PreAt(arch) \in 10 .. 11 /\ RfAt(arch) \in 13 .. 14 /\ SaveAt(arch) \in 3 .. 4
  BY DEF PreAt, RfAt, SaveAt
<1>9. RaxInv'
  BY <1>7, <1>8 DEF RaxInv
<1>10. RegsInv' /\ RetInv'
  BY <1>1, <1>3, <1>7 DEF StubInv, RegsInv, HasArgs, RetInv
<1>11. FrameInv'
  BY <1>3, <1>6, <1>7, <1>8 DEF StubInv, RetInv, FrameInv
<1> QED  BY <1>7, <1>9, <1>10, <1>11 DEF StubInv

LEMMA LoadWordInv == StubInv /\ LoadWord => StubInv'
<1> SUFFICES ASSUME StubInv, LoadWord PROVE StubInv'
  OBVIOUS
<1>1. Step("load") /\ zf' = zf /\ regs' = regs /\ frame' = frame
  BY DEF LoadWord
<1>2. TextInv' /\ CallInv' /\ ReportTrue' /\ TypeOK' /\ pc' = pc + 1 /\ arch' = arch
  BY <1>1, StepKeeps DEF StubInv, TypeOK
<1>3. /\ arch \in Arches /\ Fits(text[pc], pc, arch) /\ text[pc].op = "load"
  BY <1>1, Located DEF Step
<1>4. pc \in Loads(arch)
  BY <1>3 DEF Fits
<1>5. pc \notin {2, SaveAt(arch), 15, 16, 26} /\ pc \notin Restores(arch)
  BY <1>3, <1>4 DEF Arches, Loads, SaveAt, Restores
<1>6. FrameInv' /\ RetInv' /\ RegsInv'
  BY <1>1, <1>5, Onward
<1>7. RaxInv'
  BY <1>2, <1>3, <1>4 DEF RaxInv, Arches, Loads, PreAt, RfAt, Waits
<1> QED  BY <1>2, <1>6, <1>7 DEF StubInv

LEMMA CompareInv == StubInv /\ Compare => StubInv'
<1> SUFFICES ASSUME StubInv, Compare PROVE StubInv'
  OBVIOUS
<1>1. Step("cmp") /\ zf' \in BOOLEAN /\ rax' = rax /\ regs' = regs /\ frame' = frame
  BY DEF Compare
<1>2. TextInv' /\ CallInv' /\ ReportTrue' /\ TypeOK'
  BY <1>1, StepKeeps DEF StubInv, TypeOK
<1>3. /\ arch \in Arches /\ Fits(text[pc], pc, arch) /\ text[pc].op = "cmp"
  BY <1>1, Located DEF Step
<1>4. pc \in Cmps(arch)
  BY <1>3 DEF Fits
<1>5. /\ pc \notin {2, SaveAt(arch), 15, 16, 26}
      /\ pc \notin {PreAt(arch), RfAt(arch), 23} /\ pc \notin Restores(arch)
  BY <1>3, <1>4 DEF Arches, Cmps, SaveAt, PreAt, RfAt, Restores
<1>6. FrameInv' /\ RetInv' /\ RaxInv' /\ RegsInv'
  BY <1>1, <1>5, Onward
<1> QED  BY <1>2, <1>6 DEF StubInv

LEMMA LoadAddrInv == StubInv /\ LoadAddr => StubInv'
<1> SUFFICES ASSUME StubInv, LoadAddr PROVE StubInv'
  OBVIOUS
<1>1. /\ Step("addr") /\ rax' = AddressOf(text[pc].sym)
      /\ zf' = zf /\ regs' = regs /\ frame' = frame
  BY DEF LoadAddr
<1>2. TextInv' /\ CallInv' /\ ReportTrue' /\ TypeOK' /\ pc' = pc + 1 /\ arch' = arch
  BY <1>1, StepKeeps DEF StubInv, TypeOK
<1>3. /\ arch \in Arches /\ Fits(text[pc], pc, arch) /\ text[pc].op = "addr"
      /\ Layout(text, arch)
  BY <1>1, Located DEF Step
<1>4. pc \in {PreAt(arch), RfAt(arch), 23}
  BY <1>3 DEF Fits
<1>5. pc \notin {2, SaveAt(arch), 15, 16, 26} /\ pc \notin Restores(arch)
  BY <1>3, <1>4 DEF Arches, SaveAt, PreAt, RfAt, Restores
<1>6. FrameInv' /\ RetInv' /\ RegsInv'
  BY <1>1, <1>5, Onward
<1>7. RaxInv'
  <2>1. /\ pc = PreAt(arch) => rax' = AddressOf("pre")
        /\ pc = RfAt(arch) => rax' = AddressOf("rf")
        /\ pc = 23 => rax' = AddressOf("post")
    BY <1>1, <1>3 DEF Layout
  <2> QED  BY <1>2, <1>3, <1>4, <2>1 DEF RaxInv, Arches, PreAt, RfAt, Waits
<1> QED  BY <1>2, <1>6, <1>7 DEF StubInv

(* What is restored are the arguments, which no hook can write to.         *)
LEMMA RestoreRegsInv == StubInv /\ RestoreRegs => StubInv'
<1> SUFFICES ASSUME StubInv, RestoreRegs PROVE StubInv'
  OBVIOUS
<1>1. /\ Step("restore") /\ regs' = [i \in 1 .. 6 |-> Quad8(Slots(arch)[i])]
      /\ rax' = rax /\ zf' = zf /\ frame' = frame
  BY DEF RestoreRegs
<1>2. TextInv' /\ CallInv' /\ ReportTrue' /\ TypeOK'
  BY <1>1, StepKeeps DEF StubInv, TypeOK
<1>3. /\ arch \in Arches /\ Fits(text[pc], pc, arch) /\ text[pc].op = "restore"
  BY <1>1, Located DEF Step
<1>4. pc \in Restores(arch)
  BY <1>3 DEF Fits
<1>5. /\ pc \notin {2, SaveAt(arch), 15, 16, 26} /\ pc > SaveAt(arch)
      /\ pc \notin {PreAt(arch), RfAt(arch), 23}
  BY <1>3, <1>4 DEF Arches, SaveAt, PreAt, RfAt, Restores
<1>6. FrameInv' /\ RetInv' /\ RaxInv'
  BY <1>1, <1>5, Onward
<1>7. RegsInv'
  <2>1. \A i \in 1 .. 6 : regs'[i] = args[i]
    BY <1>1, <1>5 DEF StubInv, FrameInv
  <2>2. args = [i \in 1 .. 6 |-> args[i]] /\ regs' = [i \in 1 .. 6 |-> regs'[i]]
    BY <1>1, Pairs DEF StubInv, TypeOK
  <2>3. regs' = args /\ args' = args
    BY <1>1, <2>1, <2>2, StepKeeps
  <2> QED  BY <2>3 DEF RegsInv
<1> QED  BY <1>2, <1>6, <1>7 DEF StubInv

(* The words above the frame are not those of the hook info.               *)
LEMMA SaveStackInv == StubInv /\ SaveStack => StubInv'
<1> SUFFICES ASSUME StubInv, SaveStack PROVE StubInv'
  OBVIOUS
<1>1. /\ Step("stack") /\ zf' = zf /\ regs' = regs
  BY DEF SaveStack
<1> PICK s \in Stacks : frame' = [k \in DOMAIN frame |->
                                    IF 4 * k >= text[pc].n THEN s[k] ELSE frame[k]]
  BY DEF SaveStack
<1>2. /\ TextInv' /\ CallInv' /\ ReportTrue' /\ TypeOK' /\ pc' = pc + 1 /\ arch' = arch
      /\ fn' = "none" /\ args' = args /\ ret' = ret /\ node' = node /\ report' = report
  BY <1>1, StepKeeps DEF StubInv, TypeOK
<1>3. Fits(text[pc], pc, arch) /\ text[pc].op = "stack"
  BY <1>1, Located DEF Step
<1>4. pc = 3 /\ arch = "stub_32" /\ text[pc].n = 64
  BY <1>3 DEF Fits
<1>5. pc \notin {PreAt(arch), RfAt(arch), 23} /\ pc \notin Restores(arch)
  BY <1>4 DEF PreAt, RfAt, Restores
<1>6. RegsInv'
  BY <1>1, <1>5, Onward
<1>7. RaxInv' /\ RetInv'
  BY <1>2, <1>4 DEF RaxInv, PreAt, RfAt, StubInv, RetInv
<1>8. FrameInv'
  <2>1. 13 \in DOMAIN frame /\ 14 \in DOMAIN frame
    BY <1>4, FrameIs DEF StubInv
  <2>2. frame'[13] = frame[13] /\ frame'[14] = frame[14]
    BY <1>1, <1>4, <2>1
  <2>3. <<frame[14], frame[13]>> = node
    BY <1>4, Sizes, Words DEF StubInv, FrameInv, Quad8
  <2>4. InfoOf(arch') = 56 /\ pc' = 4 /\ SaveAt(arch') = 4
    BY <1>2, <1>4, Sizes DEF SaveAt
  <2>5. Quad8(56)' = node'
    BY <1>2, <2>2, <2>3, Words DEF Quad8
  <2> QED  BY <2>4, <2>5 DEF FrameInv
<1> QED  BY <1>2, <1>6, <1>7, <1>8 DEF StubInv

(* The words of the slots, and that the hook info and the result have      *)
(* words of their own                                                      *)
LEMMA SlotWords ==
  \A i \in 1 .. 6 :
    /\ Slots("stub")[i] \div 4 = 4 + 2 * i /\ Slots("stub_32")[i] \div 4 = 14 - 2 * i
    /\ Slots("stub")[i] \in {24, 32, 40, 48, 56, 64}
    /\ Slots("stub_32")[i] \in {8, 16, 24, 32, 40, 48}
<1>1. Slots("stub") = <<24, 32, 40, 48, 56, 64>> /\ Slots("stub_32") = <<48, 40, 32, 24, 16, 8>>
  BY DEF Slots
<1> QED  BY <1>1, Words

(* The first n of the registers are in the frame f; the two words of the   *)
(* hook info are as they were in frame e.                                  *)
Saved(f, e, a, n) ==
  /\ DOMAIN f = DOMAIN e
  /\ \A i \in 1 .. n : /\ f[Slots(a)[i] \div 4] = args[i][1]
                       /\ f[Slots(a)[i] \div 4 - 1] = args[i][2]
  /\ f[InfoOf(a) \div 4] = e[InfoOf(a) \div 4]
  /\ f[InfoOf(a) \div 4 - 1] = e[InfoOf(a) \div 4 - 1]

LEMMA SaveNext ==
  ASSUME NEW a \in Arches, NEW f, NEW e, NEW n \in 0 .. 5, Saved(f, e, a, n),
         DOMAIN e = IF a = "stub" THEN 1 .. 16 ELSE 1 .. 21
  PROVE  Saved(Put8(f, Slots(a)[n + 1], args[n + 1]), e, a, n + 1)
<1> DEFINE hi == IF a = "stub" THEN 4 + 2 * (n + 1) ELSE 14 - 2 * (n + 1)
           g == Put8(f, Slots(a)[n + 1], args[n + 1])
<1>1. n + 1 \in 1 .. 6
  OBVIOUS
<1>2. DOMAIN f = IF a = "stub" THEN 1 .. 16 ELSE 1 .. 21
  BY DEF Saved
<1>3. Slots(a)[n + 1] \div 4 = hi
  BY <1>1, SlotWords DEF Arches
<1>4. /\ DOMAIN g = DOMAIN f
      /\ g[hi] = args[n + 1][1] /\ g[hi - 1] = args[n + 1][2]
      /\ \A k \in DOMAIN f : k # hi /\ k # hi - 1 => g[k] = f[k]
  <2>1. g = [f EXCEPT ![hi] = args[n + 1][1], ![hi - 1] = args[n + 1][2]]
    BY <1>3 DEF Put8
  <2>2. hi \in Int /\ hi \in DOMAIN f /\ hi - 1 \in DOMAIN f
    BY <1>1, <1>2 DEF Arches
  <2> HIDE DEF g, hi
  <2> QED  BY <2>1, <2>2, Written
<1> HIDE DEF g
<1>5. ASSUME NEW i \in 1 .. n
      PROVE  g[Slots(a)[i] \div 4] = args[i][1] /\ g[Slots(a)[i] \div 4 - 1] = args[i][2]
  <2> DEFINE w == Slots(a)[i] \div 4
  <2>1. i \in 1 .. 6 /\ w = IF a = "stub" THEN 4 + 2 * i ELSE 14 - 2 * i
    BY SlotWords DEF Arches
  <2>2. f[w] = args[i][1] /\ f[w - 1] = args[i][2]
    BY DEF Saved
  <2> HIDE DEF w, hi
  <2>3. w \in DOMAIN f /\ w - 1 \in DOMAIN f
    BY <2>1 DEF Saved, Arches
  <2>4. w # hi /\ w # hi - 1 /\ w - 1 # hi /\ w - 1 # hi - 1
    BY <2>1 DEF Arches, hi
  <2> QED  BY <1>4, <2>2, <2>3, <2>4 DEF w
<1>6. /\ g[InfoOf(a) \div 4] = e[InfoOf(a) \div 4]
      /\ g[InfoOf(a) \div 4 - 1] = e[InfoOf(a) \div 4 - 1]
  <2> DEFINE w == InfoOf(a) \div 4
  <2>1. w = IF a = "stub" THEN 2 ELSE 14
    BY Words DEF InfoOf
  <2>2. f[w] = e[w] /\ f[w - 1] = e[w - 1]
    BY DEF Saved
  <2> HIDE DEF w, hi
  <2>3. w \in DOMAIN f /\ w - 1 \in DOMAIN f
    BY <2>1 DEF Saved, Arches
  <2>4. w # hi /\ w # hi - 1 /\ w - 1 # hi /\ w - 1 # hi - 1
    BY <2>1 DEF Arches, hi
  <2> QED  BY <1>4, <2>2, <2>3, <2>4 DEF w
<1>7. \A i \in 1 .. n + 1 : i = n + 1 \/ i \in 1 .. n
  OBVIOUS
<1> QED  BY <1>3, <1>4, <1>5, <1>6, <1>7 DEF Saved, g

LEMMA SaveRegsInv == StubInv /\ SaveRegs => StubInv'
<1> SUFFICES ASSUME StubInv, SaveRegs PROVE StubInv'
  OBVIOUS
<1> DEFINE Puts(f) == [i \in 0 .. 6 |-> IF i = 0 THEN frame
                                        ELSE Put8(f[i - 1], Slots(arch)[i], regs[i])]
           put == CHOOSE f : f = Puts(f)
<1>1. Step("save") /\ rax' = rax /\ zf' = zf /\ regs' = regs /\ frame' = put[6]
  BY DEF SaveRegs, regVars
<1>2. put = Puts(put)
  <2> DEFINE P(f, i) == Put8(f, Slots(arch)[i], regs[i])
             p1 == P(frame, 1)
             p2 == P(p1, 2)
             p3 == P(p2, 3)
             p4 == P(p3, 4)
             p5 == P(p4, 5)
             p6 == P(p5, 6)
             g == [i \in 0 .. 6 |-> IF i = 0 THEN frame ELSE IF i = 1 THEN p1
                                    ELSE IF i = 2 THEN p2 ELSE IF i = 3 THEN p3
                                    ELSE IF i = 4 THEN p4 ELSE IF i = 5 THEN p5 ELSE p6]
  <2>1. /\ p1 = P(frame, 1) /\ p2 = P(p1, 2) /\ p3 = P(p2, 3)
        /\ p4 = P(p3, 4) /\ p5 = P(p4, 5) /\ p6 = P(p5, 6)
    OBVIOUS
  <2> HIDE DEF p1, p2, p3, p4, p5, p6
  <2>2. ASSUME NEW i \in 0 .. 6 PROVE g[i] = Puts(g)[i]
    BY <2>1
  <2>3. g = Puts(g)
    BY <2>2
  <2> HIDE DEF g
  <2> QED  BY <2>3
<1> HIDE DEF put
<1>3. /\ arch \in Arches /\ fn = "none" /\ Fits(text[pc], pc, arch) /\ text[pc].op = "save"
  BY <1>1, Located DEF Step
<1>4. pc = SaveAt(arch) /\ SaveAt(arch) \in 3 .. 4
  BY <1>3 DEF Fits, SaveAt
<1>5. regs = args /\ DOMAIN frame = IF arch = "stub" THEN 1 .. 16 ELSE 1 .. 21
  BY <1>4, FrameIs DEF StubInv, RegsInv, HasArgs
<1>6. put[0] = frame /\ \A n \in 0 .. 5 : put[n + 1] = Put8(put[n], Slots(arch)[n + 1], args[n + 1])
  <2>1. put[0] = frame
    BY <1>2
  <2>2. ASSUME NEW n \in 0 .. 5
        PROVE  put[n + 1] = Put8(put[n], Slots(arch)[n + 1], args[n + 1])
    <3>1. n + 1 \in 0 .. 6 /\ n + 1 # 0 /\ n + 1 - 1 = n
      OBVIOUS
    <3> QED  BY <1>2, <1>5, <3>1
  <2> QED  BY <2>1, <2>2
<1>7. Saved(frame', frame, arch, 6)
  <2>1. Saved(put[0], frame, arch, 0)
    BY <1>6 DEF Saved
  <2>2. \A n \in 0 .. 5 : Saved(put[n], frame, arch, n) => Saved(put[n + 1], frame, arch, n + 1)
    BY <1>3, <1>5, <1>6, SaveNext
  <2>3. Saved(put[1], frame, arch, 1)
    BY <2>1, <2>2
  <2>4. Saved(put[2], frame, arch, 2)
    BY <2>2, <2>3
  <2>5. Saved(put[3], frame, arch, 3)
    BY <2>2, <2>4
  <2>6. Saved(put[4], frame, arch, 4)
    BY <2>2, <2>5
  <2>7. Saved(put[5], frame, arch, 5)
    BY <2>2, <2>6
  <2>8. Saved(put[6], frame, arch, 6)
    BY <2>2, <2>7
  <2> QED  BY <1>1, <2>8
<1>8. /\ TextInv' /\ CallInv' /\ ReportTrue' /\ TypeOK' /\ pc' = pc + 1 /\ arch' = arch
      /\ fn' = "none" /\ args' = args /\ ret' = ret /\ node' = node /\ report' = report
  BY <1>1, <1>7, StepKeeps DEF StubInv, TypeOK, Saved
<1>9. pc \notin {PreAt(arch), RfAt(arch), 23} /\ pc \notin Restores(arch)
  BY <1>3, <1>4 DEF PreAt, RfAt, Restores
<1>10. RaxInv' /\ RegsInv'
  BY <1>1, <1>9, Onward
<1>11. RetInv'
  BY <1>4, <1>8 DEF StubInv, RetInv
<1>12. FrameInv'
  <2>1. \A i \in 1 .. 6 : Quad8(Slots(arch)[i])' = args'[i]
    BY <1>7, <1>8, Pairs DEF Saved, Quad8, StubInv, TypeOK
  <2>2. Quad8(InfoOf(arch))' = node'
    <3>1. Quad8(InfoOf(arch)) = node
      BY <1>4 DEF StubInv, FrameInv
    <3> QED  BY <1>7, <1>8, <3>1 DEF Saved, Quad8
  <2> QED  BY <1>4, <1>8, <2>1, <2>2 DEF FrameInv
<1> QED  BY <1>8, <1>10, <1>11, <1>12 DEF StubInv

(* The result has its words to itself: it spares the hook info, which the  *)
(* 32-bit stub has next to it, and the registers.                          *)
LEMMA StoreResultInv == StubInv /\ StoreResult => StubInv'
<1> SUFFICES ASSUME StubInv, StoreResult PROVE StubInv'
  OBVIOUS
<1>1. /\ Step("store") /\ rax' = rax /\ zf' = zf /\ regs' = regs
      /\ frame' = IF text[pc].sym = "rax" THEN Put8(frame, text[pc].n, rax)
                                          ELSE Put4(frame, text[pc].n, rax)
  BY DEF StoreResult, regVars
<1>2. /\ arch \in Arches /\ Fits(text[pc], pc, arch) /\ text[pc].op = "store" /\ fn = "none"
  BY <1>1, Located DEF Step
<1>3. pc = 16 /\ text[pc].n = ResultOf(arch) /\ text[pc].sym = Width(arch)
  BY <1>2 DEF Fits
<1>4. rax = ret[1] /\ Returned(ret) /\ rax = <<rax[1], rax[2]>>
  BY <1>2, <1>3, Pairs DEF StubInv, RetInv, Returned
<1>5. /\ DOMAIN frame' = DOMAIN frame
      /\ arch = "stub" => /\ frame'[4] = rax[1] /\ frame'[3] = rax[2]
                          /\ \A k \in DOMAIN frame : k \notin {3, 4} => frame'[k] = frame[k]
      /\ arch = "stub_32" => /\ frame'[15] = rax[1]
                             /\ \A k \in DOMAIN frame : k # 15 => frame'[k] = frame[k]
  <2>1. DOMAIN frame = IF arch = "stub" THEN 1 .. 16 ELSE 1 .. 21
    BY FrameIs DEF StubInv
  <2>2. CASE arch = "stub"
    <3>1. frame' = [frame EXCEPT ![4] = rax[1], ![3] = rax[2]]
      BY <1>1, <1>3, <2>2, Words DEF Put8, ResultOf, Width
    <3> QED  BY <2>1, <2>2, <3>1
  <2>3. CASE arch = "stub_32"
    <3>1. frame' = [frame EXCEPT ![15] = rax[1]]
      BY <1>1, <1>3, <2>3, Words DEF Put4, ResultOf, Width
    <3> QED  BY <2>1, <2>3, <3>1
  <2> QED  BY <1>2, <2>2, <2>3 DEF Arches
<1>6. /\ TextInv' /\ CallInv' /\ ReportTrue' /\ TypeOK' /\ pc' = 17 /\ arch' = arch
      /\ fn' = "none" /\ args' = args /\ ret' = ret /\ node' = node /\ report' = report
  BY <1>1, <1>3, <1>5, StepKeeps DEF StubInv, TypeOK
<1>7. pc \notin {PreAt(arch), RfAt(arch), 23} /\ pc \notin Restores(arch)
  BY <1>3 DEF PreAt, RfAt, Restores
<1>8. RaxInv' /\ RegsInv'
  BY <1>1, <1>7, Onward
<1>9. RetInv'
  BY <1>4, <1>6 DEF RetInv
<1>10. FrameInv'
  <2>1. /\ Quad8(InfoOf(arch)) = node
        /\ \A i \in 1 .. 6 : Quad8(Slots(arch)[i]) = args[i]
    BY <1>3 DEF StubInv, FrameInv, SaveAt
  <2>2. DOMAIN frame = IF arch = "stub" THEN 1 .. 16 ELSE 1 .. 21
    BY FrameIs DEF StubInv
  <2>3. Quad8(InfoOf(arch))' = Quad8(InfoOf(arch))
    <3>1. InfoOf(arch') \div 4 = IF arch = "stub" THEN 2 ELSE 14
      BY <1>6, Words DEF InfoOf
    <3>2. InfoOf(arch') = InfoOf(arch)
      BY <1>6
    <3> QED  BY <1>2, <1>5, <2>2, <3>1, <3>2 DEF Quad8, Arches
  <2>4. ASSUME NEW i \in 1 .. 6
        PROVE  Quad8(Slots(arch)[i])' = Quad8(Slots(arch)[i])
    <3>1. Slots(arch)[i] \div 4 = IF arch = "stub" THEN 4 + 2 * i ELSE 14 - 2 * i
      BY <1>2, SlotWords DEF Arches
    <3>2. Slots(arch') = Slots(arch)
      BY <1>6
    <3> QED  BY <1>2, <1>5, <2>2, <3>1, <3>2 DEF Quad8, Arches
  <2>5. /\ Quad8(ResultOf(arch))'[1] = ret'[1][1]
        /\ arch = "stub" => Quad8(ResultOf(arch))' = ret'[1]
    <3>1. ResultOf(arch') \div 4 = IF arch = "stub" THEN 4 ELSE 15
      BY <1>6, Words DEF ResultOf
    <3>2. Quad8(ResultOf(arch))' = <<frame'[ResultOf(arch') \div 4],
                                     frame'[ResultOf(arch') \div 4 - 1]>>
      BY DEF Quad8
    <3> QED  BY <1>2, <1>4, <1>5, <1>6, <3>1, <3>2 DEF Arches
  <2> QED  BY <1>6, <2>1, <2>3, <2>4, <2>5 DEF FrameInv
<1> QED  BY <1>6, <1>8, <1>9, <1>10 DEF StubInv

LEMMA LoadResultInv == StubInv /\ LoadResult => StubInv'
<1> SUFFICES ASSUME StubInv, LoadResult PROVE StubInv'
  OBVIOUS
<1>1. /\ Step("result") /\ zf' = zf /\ regs' = regs /\ frame' = frame
      /\ rax' = IF text[pc].sym = "rax" THEN Quad8(text[pc].n)
                                        ELSE <<Quad8(text[pc].n)[1], Zero>>
  BY DEF LoadResult
<1>2. /\ arch \in Arches /\ Fits(text[pc], pc, arch) /\ text[pc].op = "result" /\ fn = "none"
  BY <1>1, Located DEF Step
<1>3. pc = 26 /\ text[pc].n = ResultOf(arch) /\ text[pc].sym = Width(arch)
  BY <1>2 DEF Fits
<1>4. /\ TextInv' /\ CallInv' /\ ReportTrue' /\ TypeOK' /\ pc' = 27 /\ arch' = arch
      /\ fn' = "none" /\ args' = args /\ ret' = ret /\ node' = node /\ report' = report
  BY <1>1, <1>3, StepKeeps DEF StubInv, TypeOK
<1>5. /\ Quad8(ResultOf(arch))[1] = ret[1][1]
      /\ arch = "stub" => Quad8(ResultOf(arch)) = ret[1]
  BY <1>3 DEF StubInv, FrameInv
<1>6. rax'[1] = ret[1][1] /\ (arch = "stub" => rax' = ret[1])
  <2>1. CASE arch = "stub"
    BY <1>1, <1>3, <1>5, <2>1 DEF Width
  <2>2. CASE arch = "stub_32"
    BY <1>1, <1>3, <1>5, <2>2 DEF Width
  <2> QED  BY <1>2, <2>1, <2>2 DEF Arches
<1>7. RetInv'
  BY <1>2, <1>3, <1>4, <1>6 DEF StubInv, RetInv
<1>8. FrameInv'
  <2>1. \A n : Quad8(n)' = Quad8(n)
    BY <1>1 DEF Quad8
  <2> QED  BY <1>3, <1>4, <2>1 DEF StubInv, FrameInv, SaveAt
<1>9. RaxInv' /\ RegsInv'
  <2>1. pc \notin Restores(arch)
    BY <1>3 DEF Restores
  <2>2. RegsInv'
    BY <1>1, <2>1, Onward
  <2>3. RaxInv'
    BY <1>2, <1>4 DEF RaxInv, Waits, PreAt, RfAt, Arches
  <2> QED  BY <2>2, <2>3
<1> QED  BY <1>4, <1>7, <1>8, <1>9 DEF StubInv

LEMMA ReturnInv == StubInv /\ Return => StubInv'
<1> SUFFICES ASSUME StubInv, Return PROVE StubInv'
  OBVIOUS
<1>1. /\ Runs("ret") /\ pc' = 0 /\ fn' = fn /\ text' = text /\ arch' = arch /\ cut' = cut
      /\ monks_state' = monks_state /\ state' = state /\ frame' = frame
      /\ rax' = rax /\ zf' = zf /\ regs' = regs
      /\ args' = args /\ ret' = ret /\ node' = node /\ report' = report
  BY DEF Return, textVars, stateVars, regVars, callVars
<1>2. arch \in Arches /\ fn = "none" /\ text # <<>>
  BY <1>1, Located
<1>3. TypeOK'
  <2>1. 0 \in 0 .. Len(Text(arch))
    BY <1>2, Sizes DEF Arches
  <2> QED  BY <1>1, <2>1 DEF StubInv, TypeOK, FrameSize
<1>4. TextInv' /\ CallInv' /\ ReportTrue'
  BY <1>1, <1>2 DEF StubInv, TextInv, CallInv, ReportTrue, Failed
<1>5. RaxInv' /\ RegsInv' /\ FrameInv' /\ RetInv'
  BY <1>1, <1>2 DEF RaxInv, RegsInv, HasArgs, FrameInv, RetInv, PreAt, RfAt, SaveAt
<1> QED  BY <1>3, <1>4, <1>5 DEF StubInv

LEMMA JumpInv == StubInv /\ Jump => StubInv'
<1> SUFFICES ASSUME StubInv, Jump PROVE StubInv'
  OBVIOUS
<1>1. /\ fn' = fn /\ text' = text /\ arch' = arch /\ cut' = cut
      /\ monks_state' = monks_state /\ state' = state /\ frame' = frame
      /\ rax' = rax /\ zf' = zf /\ regs' = regs
      /\ args' = args /\ ret' = ret /\ node' = node /\ report' = report
  BY DEF Jump, textVars, stateVars, regVars, callVars
<1>2. PICK op \in {"jne", "jmp"} : Runs(op)
  BY DEF Jump
<1>3. pc' = pc + 1 \/ pc' = text[pc].n
  BY DEF Jump
<1>4. /\ arch \in Arches /\ Fits(text[pc], pc, arch) /\ fn = "none" /\ text # <<>>
      /\ text[pc].op = op
  BY <1>2, Located
<1>5. pc \in Jumps(arch) /\ text[pc].n = IF pc < 16 THEN RfAt(arch) ELSE 26
  BY <1>2, <1>4 DEF Fits
<1>6. /\ \/ pc \in 6 .. 10 /\ pc' \in {7, 8, 10, 11, RfAt(arch)}
         \/ pc \in {19, 22} /\ pc' \in {20, 23, 26}
      /\ pc < 16 /\ pc' # RfAt(arch) => pc' <= PreAt(arch)
      /\ RfAt(arch) \in 13 .. 14
  <2>0. pc' = pc + 1 \/ pc' = IF pc < 16 THEN RfAt(arch) ELSE 26
    BY <1>3, <1>5
  <2>1. CASE arch = "stub"
    <3>1. RfAt(arch) = 13 /\ PreAt(arch) = 10 /\ pc \in {6, 9, 19, 22}
      BY <1>5, <2>1 DEF Jumps, RfAt, PreAt
    <3> QED  BY <2>0, <3>1
  <2>2. CASE arch = "stub_32"
    <3>1. RfAt(arch) = 14 /\ PreAt(arch) = 11 /\ pc \in {7, 10, 19, 22}
      BY <1>5, <2>2 DEF Jumps, RfAt, PreAt
    <3> QED  BY <2>0, <3>1
  <2> QED  BY <1>4, <2>1, <2>2 DEF Arches
<1>7. TypeOK'
  <2>1. Len(Text(arch)) = 27 /\ pc' \in 0 .. 27
    BY <1>4, <1>6, Sizes DEF Arches
  <2> QED  BY <1>1, <2>1 DEF StubInv, TypeOK, FrameSize
<1>8. TextInv' /\ CallInv' /\ ReportTrue'
  BY <1>1, <1>4 DEF StubInv, TextInv, CallInv, ReportTrue, Failed
<1>9. RaxInv'
  BY <1>1, <1>4, <1>6 DEF RaxInv, PreAt, RfAt, Waits, Arches
<1>10. RegsInv'
  BY <1>1, <1>4, <1>5, <1>6 DEF StubInv, RegsInv, HasArgs, RfAt, Jumps, Arches
<1>11. FrameInv'
  <2>1. \A n : Quad8(n)' = Quad8(n)
    BY <1>1 DEF Quad8
  <2> QED  BY <1>1, <1>4, <1>6, <2>1 DEF StubInv, FrameInv, SaveAt
<1>12. RetInv'
  <2>1. CASE pc \in 6 .. 10 /\ pc' \in 7 .. 14
    BY <1>1, <1>4, <2>1 DEF StubInv, RetInv
  <2>2. CASE pc \in {19, 22} /\ pc' \in {20, 23, 26}
    BY <1>1, <1>4, <2>2 DEF StubInv, RetInv
  <2> QED  BY <1>6, <2>1, <2>2
<1> QED  BY <1>7, <1>8, <1>9, <1>10, <1>11, <1>12 DEF StubInv

(* Only the address that is in rax is called.                              *)
LEMMA CallFunctionInv == StubInv /\ CallFunction => StubInv'
<1> SUFFICES ASSUME StubInv, CallFunction PROVE StubInv'
  OBVIOUS
<1>1. /\ Runs("call") /\ pc' = pc + 1 /\ text' = text /\ arch' = arch /\ cut' = cut
      /\ fn' \in {"pre", "rf", "post"} /\ rax = AddressOf(fn')
      /\ monks_state' = monks_state /\ state' = state /\ frame' = frame
      /\ rax' = rax /\ zf' = zf /\ regs' = regs
      /\ args' = args /\ ret' = ret /\ node' = node /\ report' = report
  BY DEF CallFunction, textVars, stateVars, regVars, callVars
<1>2. /\ arch \in Arches /\ Fits(text[pc], pc, arch) /\ fn = "none" /\ text # <<>>
      /\ text[pc].op = "call"
  BY <1>1, Located
<1>3. pc \in CallsOf(arch)
  BY <1>2 DEF Fits
<1>4. \/ pc = 12 /\ rax = AddressOf("pre")
      \/ pc = 15 /\ rax = AddressOf("rf")
      \/ pc = Waits(arch).post - 1 /\ rax = AddressOf("post")
  <2>1. CASE arch = "stub"
    BY <1>3, <2>1 DEF CallsOf, StubInv, RaxInv, PreAt, RfAt, Waits
  <2>2. CASE arch = "stub_32"
    BY <1>3, <2>2 DEF CallsOf, StubInv, RaxInv, PreAt, RfAt, Waits
  <2> QED  BY <1>2, <2>1, <2>2 DEF Arches
<1>5. \/ pc = 12 /\ fn' = "pre"
      \/ pc = 15 /\ fn' = "rf"
      \/ pc = Waits(arch).post - 1 /\ fn' = "post"
  <2>1. \A f, g : AddressOf(f) = AddressOf(g) => f = g
    BY DEF AddressOf
  <2> QED  BY <1>1, <1>4, <2>1
<1>6. Waits(arch).post = IF arch = "stub" THEN 26 ELSE 25
  BY DEF Waits
<1>7. \/ pc' = 13 /\ fn' = "pre"
      \/ pc' = 16 /\ fn' = "rf"
      \/ pc' = Waits(arch).post /\ fn' = "post"
  BY <1>1, <1>5, <1>6
<1>8. TypeOK'
  <2>1. Len(Text(arch)) = 27 /\ pc' \in 0 .. 27
    BY <1>2, <1>6, <1>7, Sizes DEF Arches
  <2> QED  BY <1>1, <2>1 DEF StubInv, TypeOK, FrameSize
<1>9. TextInv' /\ CallInv' /\ ReportTrue'
  BY <1>1, <1>2, <1>7 DEF StubInv, TextInv, CallInv, ReportTrue, Failed, Waits
<1>10. RaxInv'
  BY <1>1, <1>2, <1>6, <1>7 DEF RaxInv, PreAt, RfAt, Arches
<1>11. RegsInv'
  BY <1>1, <1>2, <1>5, <1>6, <1>7 DEF StubInv, RegsInv, HasArgs, Arches
<1>12. FrameInv'
  <2>1. \A n : Quad8(n)' = Quad8(n)
    BY <1>1 DEF Quad8
  <2> QED  BY <1>1, <1>2, <1>5, <1>6, <2>1 DEF StubInv, FrameInv, SaveAt, Arches
<1>13. RetInv'
  <2>1. CASE pc = 12 /\ fn' = "pre"
    BY <1>1, <2>1 DEF StubInv, RetInv
  <2>2. CASE pc = 15 /\ fn' = "rf"
    BY <1>1, <2>2 DEF StubInv, RetInv
  <2>3. CASE pc \in 24 .. 25 /\ fn' = "post"
    BY <1>1, <1>2, <2>3 DEF StubInv, RetInv
  <2>4. Waits(arch).post - 1 \in 24 .. 25
    BY <1>6
  <2> QED  BY <1>5, <2>1, <2>2, <2>3, <2>4
<1> QED  BY <1>8, <1>9, <1>10, <1>11, <1>12, <1>13 DEF StubInv

(* The macros of the hooks find the slots of the stubs.                    *)
LEMMA MacrosAre ==
  arch \in Arches => InfoAt = InfoOf(arch) /\ (arch = "stub" => ResultAt = ResultOf(arch))
<1> SUFFICES ASSUME arch \in Arches
             PROVE  InfoAt = InfoOf(arch) /\ (arch = "stub" => ResultAt = ResultOf(arch))
  OBVIOUS
<1>1. CASE arch = "stub"
  BY <1>1, Sizes DEF InfoAt, ResultAt
<1>2. CASE arch = "stub_32"
  BY <1>2, Sizes DEF InfoAt
<1> QED  BY <1>1, <1>2 DEF Arches

LEMMA PreHookInv == StubInv /\ PreHook => StubInv'
<1> SUFFICES ASSUME StubInv, PreHook PROVE StubInv'
  OBVIOUS
<1>1. /\ fn = "pre" /\ fn' = "none" /\ node' \in {Null} \cup Nodes
      /\ frame' = Put8(frame, InfoAt, node')
      /\ DOMAIN regs' = DOMAIN regs /\ zf' \in BOOLEAN
      /\ pc' = pc /\ text' = text /\ arch' = arch /\ cut' = cut
      /\ monks_state' = monks_state /\ state' = state
      /\ args' = args /\ ret' = ret /\ report' = report
  <2>1. DOMAIN regs = 1 .. 6 /\ \A left \in Leftovers : DOMAIN left = 1 .. 6
    BY StubValues DEF StubInv, TypeOK
  <2> QED  BY <2>1 DEF PreHook, Clobber, textVars, stateVars
<1>2. pc = 13 /\ arch \in Arches /\ text # <<>>
  BY <1>1 DEF StubInv, CallInv, Waits, TypeOK, Arches, TextInv
<1>3. DOMAIN frame = IF arch = "stub" THEN 1 .. 16 ELSE 1 .. 21
  BY FrameIs DEF StubInv
<1> DEFINE hi == IF arch = "stub" THEN 2 ELSE 14
<1>4. /\ DOMAIN frame' = DOMAIN frame /\ frame'[hi] = node'[1] /\ frame'[hi - 1] = node'[2]
      /\ \A k \in DOMAIN frame : k # hi /\ k # hi - 1 => frame'[k] = frame[k]
  <2>1. InfoAt = InfoOf(arch) /\ InfoOf(arch) \div 4 = hi
    BY <1>2, MacrosAre, Words DEF InfoOf, Arches
  <2>2. frame' = [frame EXCEPT ![hi] = node'[1], ![hi - 1] = node'[2]]
    BY <1>1, <2>1 DEF Put8
  <2>3. hi \in Int /\ hi \in DOMAIN frame /\ hi - 1 \in DOMAIN frame
    BY <1>2, <1>3 DEF Arches
  <2> HIDE DEF hi
  <2> QED  BY <2>2, <2>3, Written
<1>5. TypeOK'
  BY <1>1, <1>4 DEF StubInv, TypeOK, FrameSize
<1>6. TextInv' /\ CallInv' /\ ReportTrue'
  BY <1>1, <1>2 DEF StubInv, TextInv, CallInv, ReportTrue, Failed
<1>7. RaxInv' /\ RegsInv'
  BY <1>1, <1>2 DEF RaxInv, RegsInv, HasArgs, PreAt, RfAt, Arches
<1>8. FrameInv'
  <2>1. Quad8(InfoOf(arch))' = node'
    <3>1. InfoOf(arch') \div 4 = hi
      BY <1>1, Words DEF InfoOf
    <3>2. Quad8(InfoOf(arch))' = <<frame'[hi], frame'[hi - 1]>>
      BY <3>1 DEF Quad8
    <3> QED  BY <1>1, <1>4, <3>2, Pairs
  <2>2. ASSUME NEW i \in 1 .. 6
        PROVE  Quad8(Slots(arch)[i])' = Quad8(Slots(arch)[i])
    <3>1. Slots(arch)[i] \div 4 = IF arch = "stub" THEN 4 + 2 * i ELSE 14 - 2 * i
      BY <1>2, SlotWords DEF Arches
    <3>2. Slots(arch') = Slots(arch)
      BY <1>1
    <3> DEFINE w == Slots(arch)[i] \div 4
    <3> HIDE DEF hi, w
    <3>3. /\ w \in DOMAIN frame /\ w - 1 \in DOMAIN frame
          /\ w # hi /\ w # hi - 1 /\ w - 1 # hi /\ w - 1 # hi - 1
      <4>1. CASE arch = "stub"
        BY <1>3, <3>1, <4>1 DEF hi, w
      <4>2. CASE arch = "stub_32"
        BY <1>3, <3>1, <4>2 DEF hi, w
      <4> QED  BY <1>2, <4>1, <4>2 DEF Arches
    <3>4. frame'[w] = frame[w] /\ frame'[w - 1] = frame[w - 1]
      BY <1>4, <3>3
    <3> QED  BY <3>2, <3>4 DEF Quad8, w
  <2>3. \A i \in 1 .. 6 : Quad8(Slots(arch)[i]) = args[i]
    BY <1>2 DEF StubInv, FrameInv, SaveAt
  <2> QED  BY <1>1, <1>2, <2>1, <2>2, <2>3 DEF FrameInv
<1>9. RetInv'
  BY <1>1, <1>2 DEF StubInv, RetInv
<1> QED  BY <1>5, <1>6, <1>7, <1>8, <1>9 DEF StubInv

LEMMA RealFunctionInv == StubInv /\ RealFunction => StubInv'
<1> SUFFICES ASSUME StubInv, RealFunction PROVE StubInv'
  OBVIOUS
<1>1. /\ fn = "rf" /\ fn' = "none" /\ rax' \in Results /\ ret' = Append(ret, rax')
      /\ DOMAIN regs' = DOMAIN regs /\ zf' \in BOOLEAN
      /\ pc' = pc /\ text' = text /\ arch' = arch /\ cut' = cut
      /\ monks_state' = monks_state /\ state' = state
      /\ frame' = frame /\ args' = args /\ node' = node /\ report' = report
  <2>1. DOMAIN regs = 1 .. 6 /\ \A left \in Leftovers : DOMAIN left = 1 .. 6
    BY StubValues DEF StubInv, TypeOK
  <2> QED  BY <2>1 DEF RealFunction, Clobber, textVars, stateVars
<1>2. pc = 16 /\ arch \in Arches /\ text # <<>>
  BY <1>1 DEF StubInv, CallInv, Waits, TypeOK, Arches, TextInv
<1>3. report = "none" /\ ret = <<>>
  BY <1>1, <1>2 DEF StubInv, RetInv
<1>4. ret' = <<rax'>> /\ ret' \in Seq(Results)
  BY <1>1, <1>3
<1>5. TypeOK'
  BY <1>1, <1>4 DEF StubInv, TypeOK, FrameSize
<1>6. TextInv' /\ CallInv' /\ ReportTrue'
  BY <1>1, <1>2, <1>3 DEF StubInv, TextInv, CallInv, ReportTrue
<1>7. RaxInv' /\ RegsInv'
  BY <1>1, <1>2 DEF RaxInv, RegsInv, HasArgs, PreAt, RfAt, Waits, Arches
<1>8. FrameInv'
  <2>1. \A n : Quad8(n)' = Quad8(n)
    BY <1>1 DEF Quad8
  <2> QED  BY <1>1, <1>2, <2>1 DEF StubInv, FrameInv, SaveAt
<1>9. RetInv'
  BY <1>1, <1>2, <1>3, <1>4 DEF RetInv, Returned
<1> QED  BY <1>5, <1>6, <1>7, <1>8, <1>9 DEF StubInv

LEMMA PostHookInv == StubInv /\ PostHook => StubInv'
<1> SUFFICES ASSUME StubInv, PostHook PROVE StubInv'
  OBVIOUS
<1>1. /\ fn = "post" /\ fn' = "none"
      /\ report' = IF Quad8(InfoAt) = Null THEN "none"
                   ELSE IF IsErr(Quad8(ResultAt)) THEN "Error" ELSE "Ok"
      /\ DOMAIN regs' = DOMAIN regs /\ zf' \in BOOLEAN
      /\ pc' = pc /\ text' = text /\ arch' = arch /\ cut' = cut
      /\ monks_state' = monks_state /\ state' = state
      /\ frame' = frame /\ node' = node /\ args' = args /\ ret' = ret
  <2>1. DOMAIN regs = 1 .. 6 /\ \A left \in Leftovers : DOMAIN left = 1 .. 6
    BY StubValues DEF StubInv, TypeOK
  <2> QED  BY <2>1 DEF PostHook, Clobber, textVars, stateVars
<1>2. pc \in 25 .. 26 /\ arch \in Arches /\ text # <<>> /\ (arch = "stub" => pc = 26)
  BY <1>1 DEF StubInv, CallInv, Waits, TypeOK, Arches, TextInv
<1>3. TypeOK'
  BY <1>1 DEF StubInv, TypeOK, FrameSize
<1>4. TextInv' /\ CallInv'
  BY <1>1, <1>2 DEF StubInv, TextInv, CallInv
<1>5. RaxInv'
  BY <1>1, <1>2 DEF RaxInv, PreAt, RfAt, Waits, Arches
<1>6. RegsInv'
  BY <1>1, <1>2 DEF RegsInv, HasArgs, Arches
<1>7. FrameInv'
  <2>1. \A n : Quad8(n)' = Quad8(n)
    BY <1>1 DEF Quad8
  <2> QED  BY <1>1, <1>2, <2>1 DEF StubInv, FrameInv, SaveAt
<1>8. RetInv'
  BY <1>1, <1>2 DEF StubInv, RetInv
<1>9. ReportTrue'
  <2> SUFFICES ASSUME arch = "stub", report' # "none"
               PROVE  report' = "Error" <=> Failed'
    BY <1>1 DEF ReportTrue
  <2>1. Quad8(ResultAt) = ret[1] /\ ret # <<>>
    BY <1>1, <1>2, MacrosAre DEF StubInv, FrameInv, RetInv, Returned
  <2> QED  BY <1>1, <2>1 DEF Failed
<1> QED  BY <1>3, <1>4, <1>5, <1>6, <1>7, <1>8, <1>9 DEF StubInv

LEMMA SysCallInv == StubInv /\ SysCall => StubInv'
<1> SUFFICES ASSUME StubInv, SysCall PROVE StubInv'
  OBVIOUS
<1>1. /\ pc = 0 /\ pc' = 1 /\ text # <<>> /\ regs' = args' /\ args' \in Arguments
      /\ ret' = <<>> /\ node' = Null
      /\ report' = "none" /\ zf' \in BOOLEAN /\ DOMAIN frame' = DOMAIN frame
      /\ text' = text /\ arch' = arch /\ cut' = cut /\ fn' = fn
      /\ monks_state' = monks_state /\ state' = state
  BY DEF SysCall, textVars, stateVars
<1>2. arch \in Arches /\ fn = "none"
  <2>1. arch \in Arches /\ fn \in {"none", "pre", "rf", "post"}
    BY DEF StubInv, TypeOK, Arches
  <2> QED  BY <1>1, <2>1 DEF StubInv, CallInv, Waits
<1>3. TypeOK'
  <2>1. Len(Text(arch)) = 27
    BY <1>2, Sizes DEF Arches
  <2>2. DOMAIN args' = 1 .. 6 /\ ret' \in Seq(Results)
    BY <1>1, StubValues
  <2> QED  BY <1>1, <2>1, <2>2 DEF StubInv, TypeOK, FrameSize
<1>4. TextInv' /\ CallInv' /\ ReportTrue'
  BY <1>1, <1>2 DEF StubInv, TextInv, CallInv, ReportTrue, Failed
<1>5. RaxInv' /\ RegsInv' /\ FrameInv' /\ RetInv'
  BY <1>1, <1>2 DEF RaxInv, RegsInv, FrameInv, RetInv, PreAt, RfAt, SaveAt, Arches
<1> QED  BY <1>3, <1>4, <1>5 DEF StubInv

(* What does not depend on the text stays as it is when the text changes.  *)
LEMMA Rest ==
  ASSUME StubInv, UNCHANGED <<arch, pc, fn, regVars, frame, callVars>>
  PROVE  CallInv' /\ RaxInv' /\ RegsInv' /\ FrameInv' /\ RetInv' /\ ReportTrue'
<1>1. /\ arch' = arch /\ pc' = pc /\ fn' = fn /\ frame' = frame
      /\ rax' = rax /\ regs' = regs /\ args' = args /\ ret' = ret /\ node' = node /\ report' = report
  BY DEF regVars, callVars
<1>2. FrameInv'
  <2>1. \A n : Quad8(n)' = Quad8(n)
    BY <1>1 DEF Quad8
  <2> QED  BY <1>1, <2>1 DEF StubInv, FrameInv
<1> QED  BY <1>1, <1>2 DEF StubInv, CallInv, RaxInv, RegsInv, HasArgs, RetInv, ReportTrue, Failed

(* A text of this layout is of the type that a text has.                   *)
LEMMA LayoutType ==
  ASSUME NEW a \in Arches, NEW t, Layout(t, a)
  PROVE  DOMAIN t = DOMAIN Text(a) /\ \A k \in DOMAIN t : t[k].op \in Ops
<1>1. DOMAIN t = 1 .. 27 /\ DOMAIN Text(a) = 1 .. 27
  BY TextFits DEF Layout
<1>2. \A k \in 1 .. 27 : t[k] \in Instr
  BY DEF Layout
<1> QED  BY <1>1, <1>2 DEF Instr

LEMMA CreateStubInv == StubInv /\ CreateStub => StubInv'
<1> SUFFICES ASSUME StubInv, CreateStub PROVE StubInv'
  OBVIOUS
<1>1. /\ text = <<>> /\ text' = Create(arch) /\ cut' = cut
      /\ monks_state' = monks_state /\ state' = state
      /\ arch' = arch /\ pc' = pc /\ fn' = fn /\ zf' = zf /\ regs' = regs /\ frame' = frame
      /\ args' = args /\ ret' = ret /\ node' = node /\ report' = report
      /\ UNCHANGED <<arch, pc, fn, regVars, frame, callVars>>
  BY DEF CreateStub, stateVars, regVars, callVars
<1>2. arch \in Arches /\ pc = 0 /\ cut = FALSE
  BY <1>1 DEF StubInv, TypeOK, TextInv, Arches
<1>3. Layout(text', arch) /\ Uncut(text')
  BY <1>1, <1>2, Created
<1>4. TypeOK'
  <2>1. DOMAIN text' = DOMAIN Text(arch) /\ \A k \in DOMAIN text' : text'[k].op \in Ops
    BY <1>2, <1>3, LayoutType
  <2> QED  BY <1>1, <2>1 DEF StubInv, TypeOK, FrameSize
<1>5. TextInv'
  BY <1>1, <1>2, <1>3 DEF TextInv
<1> QED  BY <1>1, <1>4, <1>5, Rest DEF StubInv

LEMMA DestroyStubInv == StubInv /\ DestroyStub => StubInv'
<1> SUFFICES ASSUME StubInv, DestroyStub PROVE StubInv'
  OBVIOUS
<1>1. /\ text # <<>> /\ ~cut /\ text' = PatchCmp(text) /\ cut' = TRUE
      /\ monks_state' = monks_state /\ state' = state
      /\ arch' = arch /\ pc' = pc /\ fn' = fn /\ zf' = zf /\ regs' = regs /\ frame' = frame
      /\ args' = args /\ ret' = ret /\ node' = node /\ report' = report
      /\ UNCHANGED <<arch, pc, fn, regVars, frame, callVars>>
  BY DEF DestroyStub, stateVars, regVars, callVars
<1>2. arch \in Arches /\ Layout(text, arch) /\ Uncut(text)
  BY <1>1 DEF StubInv, TypeOK, TextInv, Arches
<1>3. Layout(text', arch) /\ Skipping(text', arch)
  BY <1>1, <1>2, Destroyed
<1>4. TypeOK'
  <2>1. DOMAIN text' = DOMAIN Text(arch) /\ \A k \in DOMAIN text' : text'[k].op \in Ops
    BY <1>2, <1>3, LayoutType
  <2> QED  BY <1>1, <2>1 DEF StubInv, TypeOK, FrameSize
<1>5. TextInv'
  <2>1. text' # <<>>
    <3>1. 1 \in DOMAIN text'
      BY <1>3 DEF Layout
    <3> QED  BY <3>1
  <2> QED  BY <1>1, <1>3, <2>1 DEF TextInv
<1> QED  BY <1>1, <1>4, <1>5, Rest DEF StubInv

LEMMA SysctlInv == StubInv /\ Sysctl => StubInv'
<1> SUFFICES ASSUME StubInv, Sysctl PROVE StubInv'
  OBVIOUS
<1>1. /\ text' = text /\ cut' = cut /\ arch' = arch /\ pc' = pc /\ fn' = fn /\ zf' = zf
      /\ regs' = regs /\ frame' = frame /\ args' = args /\ ret' = ret /\ node' = node /\ report' = report
      /\ UNCHANGED <<arch, pc, fn, regVars, frame, callVars>>
  BY DEF Sysctl, textVars, regVars, callVars
<1>2. monks_state' \in {0, 1} /\ state' \in {0, 1}
  BY DEF Sysctl, StubInv, TypeOK
<1>3. TypeOK'
  BY <1>1, <1>2 DEF StubInv, TypeOK, FrameSize
<1>4. TextInv'
  BY <1>1 DEF StubInv, TextInv
<1> QED  BY <1>1, <1>3, <1>4, Rest DEF StubInv

LEMMA StepInv == StubInv /\ [Next]_vars => StubInv'
<1> SUFFICES ASSUME StubInv, [Next]_vars PROVE StubInv'
  OBVIOUS
<1>1. CASE InText
  BY <1>1, PassOnInv, ClearInv, SaveStackInv, SaveRegsInv, RestoreRegsInv, LoadWordInv,
     CompareInv, JumpInv, LoadAddrInv, CallFunctionInv, StoreResultInv, LoadResultInv, ReturnInv
     DEF InText
<1>2. CASE PreHook \/ RealFunction \/ PostHook
  BY <1>2, PreHookInv, RealFunctionInv, PostHookInv
<1>3. CASE CreateStub \/ DestroyStub \/ Sysctl \/ SysCall
  BY <1>3, CreateStubInv, DestroyStubInv, SysctlInv, SysCallInv
<1>4. CASE UNCHANGED vars
  <2>1. /\ text' = text /\ cut' = cut /\ arch' = arch /\ pc' = pc /\ fn' = fn /\ zf' = zf
        /\ monks_state' = monks_state /\ state' = state
        /\ regs' = regs /\ frame' = frame /\ args' = args /\ ret' = ret /\ node' = node /\ report' = report
        /\ UNCHANGED <<arch, pc, fn, regVars, frame, callVars>>
    BY <1>4 DEF vars, textVars, stateVars, regVars, callVars
  <2>2. TypeOK' /\ TextInv'
    BY <2>1 DEF StubInv, TypeOK, TextInv, FrameSize
  <2> QED  BY <2>1, <2>2, Rest DEF StubInv
<1> QED  BY <1>1, <1>2, <1>3, <1>4 DEF Next

(* Where a step leads from an instruction                                  *)
LEMMA GoesOn ==
  ASSUME Next, NEW op, Runs(op), pc # 0
  PROVE  \/ pc' = pc
         \/ pc' = pc + 1 /\ op \notin {"jmp", "ret"}
         \/ pc' = text[pc].n /\ op \in {"jne", "jmp"}
         \/ pc' = 0 /\ op = "ret"
<1>1. fn = "none" /\ text[pc].op = op
  BY DEF Runs
<1>2. ASSUME NEW o, Step(o), o \notin {"jmp", "ret"}
      PROVE  pc' = pc + 1 /\ op \notin {"jmp", "ret"}
  BY <1>1, <1>2 DEF Step, Runs
<1>3. CASE InText
  <2>1. ASSUME \/ PassOn \/ Clear \/ SaveStack \/ SaveRegs \/ RestoreRegs \/ LoadWord
               \/ Compare \/ LoadAddr \/ StoreResult \/ LoadResult
        PROVE  pc' = pc + 1 /\ op \notin {"jmp", "ret"}
    <3>1. \/ Step("enter") \/ Step("nop") \/ Step("clear") \/ Step("stack") \/ Step("save")
          \/ Step("restore") \/ Step("load") \/ Step("cmp") \/ Step("addr")
          \/ Step("store") \/ Step("result")
      BY <2>1 DEF PassOn, Clear, SaveStack, SaveRegs, RestoreRegs, LoadWord, Compare, LoadAddr,
         StoreResult, LoadResult
    <3> QED  BY <1>2, <3>1
  <2>2. CASE Jump
    BY <1>1, <2>2 DEF Jump, Runs
  <2>3. CASE CallFunction
    BY <1>1, <2>3 DEF CallFunction, Runs
  <2>4. CASE Return
    BY <1>1, <2>4 DEF Return, Runs
  <2> QED  BY <1>3, <2>1, <2>2, <2>3, <2>4 DEF InText
<1>4. CASE PreHook \/ RealFunction \/ PostHook
  BY <1>1, <1>4 DEF PreHook, RealFunction, PostHook
<1>5. CASE CreateStub \/ DestroyStub \/ Sysctl \/ SysCall
  BY <1>5 DEF CreateStub, DestroyStub, Sysctl, SysCall
<1> QED  BY <1>3, <1>4, <1>5 DEF Next

-----------------------------------------------------------------------------
(* The theorems                                                            *)

(* The annotations of the text hold throughout: wherever the thread is     *)
(* when create_stub and destroy_stub patch the text, whatever the sysctls  *)
(* are set to between two tests, and in every one of any number of calls.  *)
THEOREM StubInvariant == Spec => []StubInv
  BY InitInv, StepInv, PTL DEF Spec

(* The types: the patched text keeps its instructions where they were.     *)
THEOREM TypeCorrect == Spec => []TypeOK
<1>1. StubInv => TypeOK
  BY DEF StubInv
<1> QED  BY <1>1, StubInvariant, PTL

(* The pre-hook, the real function and, in the 64-bit stub, the post-hook  *)
(* get the arguments of the system call.                                   *)
THEOREM ArgsCorrect == Spec => []ArgsArrive
<1>1. StubInv => ArgsArrive
  BY DEF StubInv, RegsInv, HasArgs, ArgsArrive
<1> QED  BY <1>1, StubInvariant, PTL

(* The caller gets what the real function returned, whichever hooks ran.   *)
THEOREM ResultCorrect == Spec => []ResultKept
<1>1. ASSUME StubInv PROVE ResultKept
  <2> SUFFICES ASSUME Runs("ret")
               PROVE  /\ ret[1] \in Results /\ ret = <<ret[1]>> /\ rax[1] = ret[1][1]
                      /\ arch = "stub" => rax = ret[1]
    BY DEF ResultKept
  <2>1. Fits(text[pc], pc, arch) /\ text[pc].op = "ret" /\ fn = "none"
    BY <1>1, Located
  <2>2. pc = 27
    BY <2>1 DEF Fits
  <2> QED  BY <1>1, <2>1, <2>2 DEF StubInv, RetInv, Returned
<1> QED  BY <1>1, StubInvariant, PTL

(* The pre-hook comes before the real function, which is called once, and  *)
(* the post-hook after it.                                                 *)
THEOREM OrderCorrect == Spec => []HooksInOrder
<1>1. ASSUME StubInv PROVE HooksInOrder
  <2> SUFFICES ASSUME fn # "none"
               PROVE  Len(ret) = IF fn = "post" THEN 1 ELSE 0
    BY DEF HooksInOrder
  <2>1. fn \in {"pre", "rf", "post"} /\ pc = Waits(arch)[fn]
    BY <1>1 DEF StubInv, TypeOK, CallInv
  <2>2. CASE fn \in {"pre", "rf"}
    BY <1>1, <2>1, <2>2 DEF StubInv, RetInv, Waits
  <2>3. CASE fn = "post"
    <3>1. ret = <<ret[1]>>
      BY <1>1, <2>1, <2>3 DEF StubInv, RetInv, Returned, Waits
    <3> QED  BY <2>3, <3>1
  <2> QED  BY <2>1, <2>2, <2>3
<1> QED  BY <1>1, StubInvariant, PTL

(* The post-hook finds the hook info of its own call, or NULL.             *)
THEOREM InfoCorrect == Spec => []InfoOwn
<1>1. ASSUME StubInv PROVE InfoOwn
  <2> SUFFICES ASSUME fn = "post" PROVE Quad8(InfoAt) = node
    BY DEF InfoOwn
  <2>1. pc \in 25 .. 26 /\ arch \in Arches
    BY <1>1 DEF StubInv, CallInv, Waits, TypeOK, Arches
  <2>2. Quad8(InfoOf(arch)) = node
    BY <1>1, <2>1 DEF StubInv, FrameInv
  <2> QED  BY <2>1, <2>2, MacrosAre
<1> QED  BY <1>1, StubInvariant, PTL

(* The 64-bit stub: what is reported of a call is what came of it.         *)
THEOREM ReportCorrect == Spec => []ReportTrue
<1>1. StubInv => ReportTrue
  BY DEF StubInv
<1> QED  BY <1>1, StubInvariant, PTL

(* Once destroy_stub has cut the text, no thread gets from a test, even    *)
(* from half-way through one, into the call of a hook.                     *)
THEOREM CutCorrect == Spec => CutSkips
<1> DEFINE Skips == cut /\ (Runs("jne") \/ Runs("jmp") \/ Runs("nop")) =>
                      /\ pc' \in DOMAIN text
                      /\ ~(text[pc'].op = "addr" /\ text[pc'].sym \in {"pre", "post"})
<1>1. StubInv /\ [Next]_vars => [Skips]_vars
  <2> SUFFICES ASSUME StubInv, Next, cut, NEW op \in {"jne", "jmp", "nop"}, Runs(op)
               PROVE  /\ pc' \in DOMAIN text
                      /\ ~(text[pc'].op = "addr" /\ text[pc'].sym \in {"pre", "post"})
    OBVIOUS
  <2>1. /\ arch \in Arches /\ pc \in 1 .. 27 /\ fn = "none" /\ text # <<>>
        /\ text[pc].op = op /\ Fits(text[pc], pc, arch) /\ Layout(text, arch)
    BY Located
  <2>2. DOMAIN text = 1 .. 27 /\ Skipping(text, arch)
    BY <2>1 DEF StubInv, TextInv, Layout
  <2>3. CASE op = "nop"
    <3>1. pc \in Loads(arch) \cup Cmps(arch)
      BY <2>1, <2>3 DEF Fits
    <3>2. pc + 1 \in 1 .. 27 /\ pc + 1 \in Cmps(arch) \cup Jumps(arch)
      BY <2>1, <3>1 DEF Loads, Cmps, Jumps, Arches
    <3>3. pc' \in {pc, pc + 1}
      <4>1. pc # 0 /\ op = "nop"
        BY <2>1, <2>3
      <4> QED  BY <4>1, GoesOn
    <3>4. text[pc + 1].op \in {"nop", "jmp"}
      BY <2>2, <3>2 DEF Skipping
    <3> QED  BY <2>1, <2>2, <2>3, <3>2, <3>3, <3>4
  <2>4. CASE op \in {"jne", "jmp"}
    <3>1. pc \in Jumps(arch) /\ text[pc].n = IF pc < 16 THEN RfAt(arch) ELSE 26
      BY <2>1, <2>4 DEF Fits
    <3>2. text[pc].op = "jmp" /\ op = "jmp" /\ pc # 0
      <4>1. text[pc].op = "jmp"
        BY <2>1, <2>2, <3>1 DEF Skipping
      <4> QED  BY <2>1, <4>1
    <3>3. pc' \in {pc, text[pc].n}
      BY <3>2, GoesOn
    <3>4. text[RfAt(arch)].sym = "rf" /\ RfAt(arch) \in 1 .. 27
      BY <2>1 DEF Layout, RfAt
    <3>5. text[26].op # "addr"
      <4>1. Fits(text[26], 26, arch)
        BY <2>1 DEF Layout
      <4> QED  BY <2>1, <4>1 DEF Fits, PreAt, RfAt, Arches
    <3>6. text[pc].n \in {RfAt(arch), 26}
      BY <3>1
    <3>7. pc' \in {pc, RfAt(arch), 26}
      BY <3>3, <3>6
    <3>8. CASE pc' = pc
      BY <2>1, <2>2, <3>2, <3>8
    <3>9. CASE pc' = RfAt(arch)
      BY <2>2, <3>4, <3>9
    <3>10. CASE pc' = 26
      BY <2>2, <3>5, <3>10
    <3> QED  BY <3>7, <3>8, <3>9, <3>10
  <2> QED  BY <2>3, <2>4
<1> QED  BY <1>1, StubInvariant, PTL DEF Spec, CutSkips

=============================================================================
