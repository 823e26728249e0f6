--------------------------- MODULE HookingProofs ---------------------------
(***************************************************************************)
(* Proofs about Hooking, for any calls, any number of loads, any code and  *)
(* addresses, and any disassembler that StubAssumption is true of.         *)
(***************************************************************************)
EXTENDS Hooking, FiniteSetTheorems, FunctionTheorems, SequenceTheorems,
        WellFoundedInduction, TLAPS

(* The load in progress has not come to call k yet.                        *)
Before(k) == \/ loader \in {"init", "hook"}
             \/ loader \in {"hooking", "hook_oops"} /\ iter <= k

(* A load has a number before it is anywhere, and a loop a call to be at.  *)
TypeInv ==
  /\ TypeOK
  /\ DOMAIN sct = Calls /\ DOMAIN rf = Calls
  /\ loader # "out" => gen # 0
  /\ loader \in {"hooking", "unhooking"} => iter \in Calls

MadeOf(k, g)  == {create_stub[k][g][fn] : fn \in Functions(k)}
TextsOf(k, g) == MadeOf(k, g) \cup {patch_cmp(made) : made \in MadeOf(k, g)}

(* A stub is as create_stub made it or as destroy_stub left it.            *)
TextInv ==
  \A k \in Calls, g \in Loads :
    <<k, g>> \in DOMAIN text => g <= gen /\ text[<<k, g>>] \in TextsOf(k, g)

(* The table holds the real function or a stub that was made, and a load   *)
(* makes no stub twice.                                                    *)
SctInv ==
  \A k \in Calls :
    /\ sct[k] # Real(k) => <<k, sct[k].g>> \in DOMAIN text
    /\ Before(k) => <<k, gen>> \notin DOMAIN text

(* A table with n - 1 entries and a zero entry                             *)
TableOf(n, g) == [i \in 1 .. n |-> IF i < n THEN Entry(i, State(i, g)) ELSE ZeroEntry]

Filled(n) ==
  /\ nsyscalls_state_table = n
  /\ child \in DOMAIN kmem
  /\ kmem[child] = TableOf(n, gen)
  /\ \A k \in 1 .. n - 1 :
       <<k, gen>> \in DOMAIN text /\ text[<<k, gen>>] \in MadeOf(k, gen)

Empty == nsyscalls_state_table = 0 /\ child = NULL
Fresh == Empty /\ syscalls_state_table = NULL

(* Call by call the table of the files grows and the stubs are made; in    *)
(* the end there is an entry for each or there is no table.  Until the     *)
(* files are gone no stub of this load is cut.                             *)
FilesInv ==
  /\ registered => loader \in {"live", "unregister"}
  /\ loader \in {"init", "hook"} => Fresh
  /\ loader \in {"hooking", "hook_oops"} =>
       IF iter = 1 THEN Fresh ELSE Filled(iter) /\ syscalls_state_table = child
  /\ loader \in {"register", "live", "unregister"} =>
       \/ Empty /\ <<1, gen>> \notin DOMAIN text
       \/ Filled(Len(Archs) + 1)

HookingInv == TypeInv /\ TextInv /\ SctInv /\ FilesInv
-----------------------------------------------------------------------------
(* Calls, blocks and tables                                                *)

LEMMA CallsAre ==
  /\ Len(Archs) \in Nat \ {0}
  /\ Calls = 1 .. Len(Archs)
  /\ \A k \in Calls : k \in Nat \ {0} /\ k <= Len(Archs) /\ Archs[k] \in {"stub", "stub_32"}
<1>1. Archs \in Seq({"stub", "stub_32"}) /\ Archs # <<>>
  BY HookingAssumption
<1>2. Len(Archs) \in Nat /\ DOMAIN Archs = 1 .. Len(Archs)
  BY <1>1
<1>3. Len(Archs) # 0
  BY <1>1, EmptySeq
<1>4. \A k \in DOMAIN Archs : Archs[k] \in {"stub", "stub_32"}
  BY <1>1, <1>2, ElementOfSeq
<1> QED  BY <1>2, <1>3, <1>4 DEF Calls

LEMMA LoadsAre == MaxLoads \in Nat /\ Loads = 1 .. MaxLoads
  BY HookingAssumption DEF Loads

(* What kcalloc returns is a block that was free.                          *)
LEMMA LeastBlock ==
  ASSUME NEW S \in SUBSET Nat, S # {}
  PROVE  Min(S) \in S
<1>1. \E x \in S : \A y \in S : x <= y
  <2>1. IsWellFoundedOn(OpToRel(<, Nat), Nat)
    BY NatLessThanWellFounded
  <2>2. PICK x \in S : \A y \in S : ~(<<y, x>> \in OpToRel(<, Nat))
    BY <2>1, WFMin
  <2>3. ASSUME NEW y \in S PROVE ~ (y < x)
    BY <2>2, <2>3 DEF OpToRel
  <2> QED  BY <2>3
<1> QED  BY <1>1 DEF Min

LEMMA KcallocFree ==
  ASSUME FreeBlock
  PROVE  kcalloc \in Blocks \ DOMAIN kmem /\ kcalloc # NULL
<1>1. Blocks \ DOMAIN kmem \in SUBSET Nat
  BY ControlsAssumption
<1>2. kcalloc \in Blocks \ DOMAIN kmem
  BY <1>1, LeastBlock DEF FreeBlock, kcalloc
<1> QED  BY <1>2, ControlsAssumption DEF NULL

LEMMA PutIs ==
  ASSUME NEW f, NEW x, NEW v
  PROVE  /\ DOMAIN Put(f, x, v) = DOMAIN f \cup {x}
         /\ Put(f, x, v)[x] = v
         /\ \A y \in DOMAIN f : y # x => Put(f, x, v)[y] = f[y]
  BY DEF Put

LEMMA RestrictIs ==
  ASSUME NEW f, NEW S
  PROVE  DOMAIN Restrict(f, S) = S /\ \A x \in S : Restrict(f, S)[x] = f[x]
  BY DEF Restrict

-----------------------------------------------------------------------------
(* Types                                                                   *)

(* Nothing of the loader's or of the tables changes.                       *)
Switch == WriteState \/ StartOrStop \/ Fclose

LEMMA TypeInit == Init => TypeInv
<1> SUFFICES ASSUME Init PROVE TypeInv
  OBVIOUS
<1>1. loader = "out" /\ iter = 1 /\ gen = 0 /\ failed = {} /\ monks_state = 0 /\ file = NoFile
  BY DEF Init
<1>2. /\ \A k \in Calls : sct[k] \in Functions(k) /\ rf[k] \in Functions(k)
      /\ DOMAIN sct = Calls /\ DOMAIN rf = Calls
  BY DEF Init, Functions
<1>3. /\ DOMAIN text = {} /\ real_patched = {}
      /\ state \in [Calls -> 0 .. 1]
  BY DEF Init
<1>4. /\ DOMAIN kmem = {} /\ nsyscalls_state_table = 0 /\ syscalls_state_table = NULL
      /\ child = NULL /\ netlink = FALSE /\ registered = FALSE
  BY DEF Init, ControlsInit
<1>5. gen \in 0 .. MaxLoads /\ iter \in 1 .. Len(Archs) + 1
      /\ nsyscalls_state_table \in 0 .. Len(Archs) + 1
  BY <1>1, <1>4, CallsAre, LoadsAre
<1>6. netlink \in BOOLEAN /\ registered \in BOOLEAN
  BY <1>4
<1> QED  BY <1>1, <1>2, <1>3, <1>4, <1>5, <1>6 DEF TypeInv, TypeOK

(* The types of what the controls keep                                     *)
ControlsOK ==
  /\ DOMAIN kmem \subseteq Blocks
  /\ nsyscalls_state_table \in 0 .. Len(Archs) + 1
  /\ {syscalls_state_table, child} \subseteq Blocks \cup {NULL, ZERO_SIZE_PTR}
  /\ netlink \in BOOLEAN /\ registered \in BOOLEAN

LEMMA ControlsStep ==
  ASSUME ControlsOK, FilesInv, iter \in 1 .. Len(Archs) + 1,
         loader \in {"hooking", "unhooking"} => iter \in Calls, [Next]_vars
  PROVE  ControlsOK'
<1> USE CallsAre
<1>0. netlink \in BOOLEAN /\ registered \in BOOLEAN
  BY DEF ControlsOK
<1>1. CASE UNCHANGED controlVars
  BY <1>1 DEF controlVars, ControlsOK
<1>2. CASE load
  <2>1. netlink' \in BOOLEAN /\ registered' \in BOOLEAN
    BY <1>2 DEF load, ControlsLoaded
  <2>2. /\ nsyscalls_state_table' = 0 /\ syscalls_state_table' = NULL /\ child' = NULL
        /\ UNCHANGED kmem
    BY <1>2 DEF load, ControlsLoaded
  <2> QED  BY <2>1, <2>2 DEF ControlsOK
<1>3. CASE SetNetlinkId
  <2>1. netlink' \in BOOLEAN /\ registered' \in BOOLEAN
    BY <1>0, <1>3 DEF SetNetlinkId, set_monks_control_netlink_id
  <2> QED  BY <1>3, <2>1 DEF SetNetlinkId, set_monks_control_netlink_id, ControlsOK
<1>4. CASE HookCall
  <2>1. netlink' \in BOOLEAN /\ registered' \in BOOLEAN
    BY <1>0, <1>4 DEF HookCall, add_syscalls_state_table_entry
  <2>2. loader = "hooking" /\ iter \in 1 .. Len(Archs)
    BY <1>4 DEF HookCall
  <2>3. nsyscalls_state_table = IF iter = 1 THEN 0 ELSE iter
    BY <2>2 DEF FilesInv, Fresh, Empty, Filled
  <2>4. nsyscalls_state_table' = IF nsyscalls_state_table = 0 THEN 2
                                 ELSE nsyscalls_state_table + 1
    BY <1>4 DEF HookCall, add_syscalls_state_table_entry
  <2>5. nsyscalls_state_table' \in 0 .. Len(Archs) + 1
    BY <2>2, <2>3, <2>4
  <2>6. child' = syscalls_state_table'
    BY <1>4 DEF HookCall, add_syscalls_state_table_entry
  <2>7. \/ /\ FreeBlock
           /\ syscalls_state_table' = kcalloc
           /\ DOMAIN kmem' \subseteq DOMAIN kmem \cup {kcalloc}
        \/ /\ nsyscalls_state_table # 0
           /\ syscalls_state_table' = syscalls_state_table
           /\ DOMAIN kmem' = DOMAIN kmem \cup {syscalls_state_table}
    BY <1>4 DEF HookCall, add_syscalls_state_table_entry, Put, Restrict
  <2>8. /\ DOMAIN kmem' \subseteq Blocks
        /\ syscalls_state_table' \in Blocks \cup {NULL, ZERO_SIZE_PTR}
    <3>1. CASE FreeBlock /\ syscalls_state_table' = kcalloc
               /\ DOMAIN kmem' \subseteq DOMAIN kmem \cup {kcalloc}
      BY <3>1, KcallocFree DEF ControlsOK
    <3>2. CASE /\ nsyscalls_state_table # 0
               /\ syscalls_state_table' = syscalls_state_table
               /\ DOMAIN kmem' = DOMAIN kmem \cup {syscalls_state_table}
      <4>1. Filled(iter) /\ syscalls_state_table = child
        BY <2>2, <2>3, <3>2 DEF FilesInv
      <4>2. syscalls_state_table \in DOMAIN kmem
        BY <4>1 DEF Filled
      <4> QED  BY <3>2, <4>2 DEF ControlsOK
    <3> QED  BY <2>7, <3>1, <3>2
  <2> QED  BY <2>1, <2>5, <2>6, <2>8 DEF ControlsOK
<1>5. CASE Register
  <2>1. netlink' \in BOOLEAN /\ registered' \in BOOLEAN
    BY <1>0, <1>5 DEF Register, register_monks_controls
  <2>2. UNCHANGED <<nsyscalls_state_table, child>>
    BY <1>5 DEF Register, register_monks_controls
  <2>3. \/ syscalls_state_table' \in {NULL, ZERO_SIZE_PTR} /\ UNCHANGED kmem
        \/ FreeBlock /\ syscalls_state_table' = kcalloc /\ DOMAIN kmem' = DOMAIN kmem \cup {kcalloc}
    BY <1>5 DEF Register, register_monks_controls, Put
  <2>4. /\ DOMAIN kmem' \subseteq Blocks
        /\ syscalls_state_table' \in Blocks \cup {NULL, ZERO_SIZE_PTR}
    BY <2>3, KcallocFree DEF ControlsOK
  <2> QED  BY <2>1, <2>2, <2>4 DEF ControlsOK
<1>6. CASE Unregister
  <2>1. netlink' \in BOOLEAN /\ registered' \in BOOLEAN
    BY <1>0, <1>6 DEF Unregister, unregister_monks_controls
  <2>2. UNCHANGED <<nsyscalls_state_table, syscalls_state_table, child>>
        /\ DOMAIN kmem' \subseteq DOMAIN kmem
    BY <1>6 DEF Unregister, unregister_monks_controls, Restrict
  <2> QED  BY <2>1, <2>2 DEF ControlsOK
<1> QED
  BY <1>1, <1>2, <1>3, <1>4, <1>5, <1>6
  DEF Next, vars, get_sct, HookCallNoMemory, unload, UnhookCall, Exit, WriteState, StartOrStop,
      Fclose

(* The types of the loader's place, which bound the loops                  *)
LoaderOK ==
  /\ loader \in {"out", "init", "hook", "hooking", "register", "live", "unregister", "unhook",
                 "unhooking", "halt"} \cup Oops
  /\ iter \in 1 .. Len(Archs) + 1
  /\ gen \in 0 .. MaxLoads
  /\ failed \subseteq {"hook", "unhook", "register"}
  /\ loader # "out" => gen # 0
  /\ loader \in {"hooking", "unhooking"} => iter \in Calls

LEMMA LoaderStep ==
  ASSUME LoaderOK, [Next]_vars
  PROVE  LoaderOK'
<1> USE CallsAre, LoadsAre DEF Oops
<1>1. CASE load
  BY <1>1 DEF load, LoaderOK
<1>2. CASE SetNetlinkId
  BY <1>2 DEF SetNetlinkId, LoaderOK
<1>3. CASE get_sct
  <2>1. loader \in {"hook", "unhook"} /\ iter' = 1 /\ gen' = gen
    BY <1>3 DEF get_sct
  <2>2. loader' \in {"register", "halt", "hooking", "unhooking"} \cup Oops
    BY <1>3 DEF get_sct, GiveUp
  <2>3. failed' \subseteq failed \cup {loader}
    BY <1>3 DEF get_sct, GiveUp
  <2>4. iter' \in 1 .. Len(Archs) + 1 /\ iter' \in Calls
    BY <2>1
  <2> QED  BY <2>1, <2>2, <2>3, <2>4 DEF LoaderOK
<1>4. CASE HookCall
  <2>1. /\ loader = "hooking" /\ iter' = iter + 1
        /\ loader' = IF iter = Len(Archs) THEN "register" ELSE "hooking"
        /\ UNCHANGED <<gen, failed>>
    BY <1>4 DEF HookCall
  <2> QED  BY <2>1 DEF LoaderOK
<1>5. CASE HookCallNoMemory
  BY <1>5 DEF HookCallNoMemory, LoaderOK
<1>6. CASE Register
  <2>1. /\ loader = "register" /\ loader' \in {"live", "out"}
        /\ failed' \subseteq failed \cup {"register"}
        /\ UNCHANGED <<iter, gen>>
    BY <1>6 DEF Register
  <2> QED  BY <2>1 DEF LoaderOK
<1>7. CASE unload
  BY <1>7 DEF unload, LoaderOK
<1>8. CASE Unregister
  BY <1>8 DEF Unregister, LoaderOK
<1>9. CASE UnhookCall
  <2>1. /\ loader = "unhooking" /\ iter' = iter + 1
        /\ loader' = IF iter = Len(Archs) THEN "halt" ELSE "unhooking"
        /\ UNCHANGED <<gen, failed>>
    BY <1>9 DEF UnhookCall
  <2> QED  BY <2>1 DEF LoaderOK
<1>10. CASE Exit
  BY <1>10 DEF Exit, LoaderOK
<1>11. CASE Switch \/ UNCHANGED vars
  <2>1. UNCHANGED <<loader, iter, gen, failed>>
    BY <1>11 DEF Switch, WriteState, StartOrStop, Fclose, vars
  <2> QED  BY <2>1 DEF LoaderOK
<1> QED
  BY <1>1, <1>2, <1>3, <1>4, <1>5, <1>6, <1>7, <1>8, <1>9, <1>10, <1>11 DEF Next, Switch

(* The types of the tables and stubs                                       *)
SctOK ==
  /\ DOMAIN sct = Calls /\ DOMAIN rf = Calls
  /\ \A k \in Calls : sct[k] \in Functions(k) /\ rf[k] \in Functions(k)
  /\ DOMAIN text \subseteq Calls \X Loads
  /\ real_patched \subseteq Calls

(* The fields of what a table can hold                                     *)
LEMMA FunctionsAre ==
  ASSUME NEW k \in Calls, NEW f \in Functions(k)
  PROVE  /\ f.k = k /\ f.g \in {0} \cup Loads
         /\ f.sym \in {"real", "stub"}
         /\ f = (IF f.sym = "stub" THEN Stub(k, f.g) ELSE Real(k))
         /\ f.g = 0 <=> f.sym # "stub"
         /\ f.g # 0 => f = Stub(k, f.g) /\ f.g \in Loads
  BY LoadsAre DEF Functions, Real, Stub, At

LEMMA SctTypes ==
  ASSUME LoaderOK, SctOK, [Next]_vars
  PROVE  SctOK'
<1>1. CASE HookCall
  <2>0. loader = "hooking"
    BY <1>1 DEF HookCall
  <2>1. iter \in Calls /\ gen \in Loads
    BY <2>0, LoadsAre DEF LoaderOK
  <2>2. /\ rf' = [rf EXCEPT ![iter] = sct[iter]]
        /\ sct' = [sct EXCEPT ![iter] = Stub(iter, gen)]
        /\ real_patched' = real_patched
    BY <1>1 DEF HookCall
  <2>3. Stub(iter, gen) \in Functions(iter)
    BY <2>1 DEF Functions
  <2>4. /\ \A k \in Calls : sct'[k] \in Functions(k) /\ rf'[k] \in Functions(k)
        /\ DOMAIN sct' = Calls /\ DOMAIN rf' = Calls
    BY <2>1, <2>2, <2>3 DEF SctOK
  <2>5. DOMAIN text' = DOMAIN text \cup {<<iter, gen>>}
    BY <1>1, PutIs DEF HookCall
  <2> QED  BY <2>1, <2>2, <2>4, <2>5 DEF SctOK
<1>2. CASE load
  <2>1. rf' = [k \in Calls |-> Real(k)] /\ UNCHANGED <<sct, text, real_patched>>
    BY <1>2 DEF load
  <2> QED  BY <2>1 DEF SctOK, Functions
<1>3. CASE UnhookCall
  <2>1. iter \in Calls /\ UNCHANGED <<sct, rf>> /\ destroy_stub(sct[iter])
    BY <1>3 DEF UnhookCall, LoaderOK
  <2>2. DOMAIN text' = DOMAIN text
    BY <2>1 DEF destroy_stub
  <2>3. real_patched' \subseteq real_patched \cup {sct[iter].k}
    BY <2>1 DEF destroy_stub
  <2>4. sct[iter].k = iter
    BY <2>1, FunctionsAre DEF SctOK
  <2> QED  BY <2>1, <2>2, <2>3, <2>4 DEF SctOK
<1>4. CASE UNCHANGED <<sct, rf, text, real_patched>>
  BY <1>4 DEF SctOK
<1> QED
  BY <1>1, <1>2, <1>3, <1>4
  DEF Next, vars, sctVars, SetNetlinkId, get_sct, HookCallNoMemory, Register, unload, Unregister,
      Exit, WriteState, StartOrStop, Fclose

(* The types of what the files set                                         *)
SwitchOK ==
  /\ monks_state \in 0 .. 1 /\ state \in [Calls -> 0 .. 1]
  /\ file \in {NoFile} \cup Loads

LEMMA SwitchStep ==
  ASSUME LoaderOK, SwitchOK, registered => loader # "out", [Next]_vars
  PROVE  SwitchOK'
<1>1. CASE load
  BY <1>1 DEF load, SwitchOK
<1>2. CASE WriteState
  <2>1. PICK f \in Files, v \in 0 .. 1 : state' = [state EXCEPT ![f.data.k] = v]
    BY <1>2 DEF WriteState
  <2>2. UNCHANGED <<monks_state, file>>
    BY <1>2 DEF WriteState
  <2> QED  BY <2>1, <2>2 DEF SwitchOK
<1>3. CASE StartOrStop
  <2>1. file' = gen /\ registered /\ UNCHANGED <<monks_state, state>>
    BY <1>3 DEF StartOrStop, stateVars
  <2> QED  BY <2>1, LoadsAre DEF SwitchOK, LoaderOK
<1>4. CASE Fclose
  BY <1>4 DEF Fclose, SwitchOK
<1>5. CASE unload
  BY <1>5 DEF unload, SwitchOK
<1>6. CASE UNCHANGED <<monks_state, state, file>>
  BY <1>6 DEF SwitchOK
<1> QED
  BY <1>1, <1>2, <1>3, <1>4, <1>5, <1>6
  DEF Next, vars, stateVars, SetNetlinkId, get_sct, HookCall, HookCallNoMemory, Register,
      Unregister, UnhookCall, Exit

LEMMA TypeStep == HookingInv /\ [Next]_vars => TypeInv'
<1> SUFFICES ASSUME HookingInv, [Next]_vars PROVE TypeInv'
  OBVIOUS
<1>1. ControlsOK /\ LoaderOK /\ SctOK /\ SwitchOK
  BY DEF HookingInv, TypeInv, TypeOK, ControlsOK, LoaderOK, SctOK, SwitchOK
<1>2. FilesInv /\ (registered => loader # "out")
  BY DEF HookingInv, FilesInv
<1>3. LoaderOK' /\ SctOK' /\ SwitchOK'
  BY <1>1, <1>2, LoaderStep, SctTypes, SwitchStep
<1>4. ControlsOK'
  <2>1. iter \in 1 .. Len(Archs) + 1 /\ (loader \in {"hooking", "unhooking"} => iter \in Calls)
    BY <1>1 DEF LoaderOK
  <2> QED  BY <1>1, <1>2, <2>1, ControlsStep
<1> QED  BY <1>3, <1>4 DEF TypeInv, TypeOK, ControlsOK, LoaderOK, SctOK, SwitchOK

-----------------------------------------------------------------------------
(* Stubs and what the table holds                                          *)

LEMMA MadeIs ==
  ASSUME NEW k \in Calls, NEW g \in Loads, NEW fn \in Functions(k)
  PROVE  create_stub[k][g][fn] \in MadeOf(k, g)
  BY DEF MadeOf

(* destroy_stub does what patch_cmp does to any stub there may be.         *)
LEMMA CutIs ==
  ASSUME NEW k \in Calls, NEW g \in Loads, NEW bytes \in TextsOf(k, g)
  PROVE  /\ Cut[bytes] = patch_cmp(bytes)
         /\ patch_cmp(bytes) \in TextsOf(k, g)
<1> DEFINE made == {create_stub[c][h][Stub(c, i)] : c \in Calls, h \in Loads, i \in Loads}
                   \cup {create_stub[c][h][Real(c)] : c \in Calls, h \in Loads}
<1>1. \A b \in MadeOf(k, g) : b \in made
  BY DEF MadeOf, Functions
<1>2. bytes \in made \cup {patch_cmp(b) : b \in made}
  BY <1>1 DEF TextsOf
<1>3. Cut = CutOf(made)
  BY DEF Cut
<1> HIDE DEF made
<1>4. Cut[bytes] = patch_cmp(bytes)
  BY <1>2, <1>3 DEF CutOf
<1>5. patch_cmp(bytes) \in TextsOf(k, g)
  <2>1. CASE bytes \in MadeOf(k, g)
    BY <2>1 DEF TextsOf
  <2>2. CASE \E b \in MadeOf(k, g) : bytes = patch_cmp(b)
    <3>1. PICK fn \in Functions(k) : bytes = patch_cmp(create_stub[k][g][fn])
      BY <2>2 DEF MadeOf
    <3>2. patch_cmp(patch_cmp(create_stub[k][g][fn])) = patch_cmp(create_stub[k][g][fn])
      BY StubAssumption
    <3>3. patch_cmp(bytes) = bytes
      BY <3>1, <3>2
    <3> QED  BY <3>3
  <2> QED  BY <2>1, <2>2 DEF TextsOf
<1> QED  BY <1>4, <1>5

(* What a step of the loop over the calls does to the stubs                *)
LEMMA HookText ==
  ASSUME LoaderOK, SctOK, HookCall
  PROVE  /\ iter \in Calls /\ gen \in Loads /\ sct[iter] \in Functions(iter)
         /\ loader = "hooking" /\ iter' = iter + 1 /\ gen' = gen
         /\ loader' = IF iter = Len(Archs) THEN "register" ELSE "hooking"
         /\ DOMAIN text' = DOMAIN text \cup {<<iter, gen>>}
         /\ text'[<<iter, gen>>] = create_stub[iter][gen][sct[iter]]
         /\ \A p \in DOMAIN text : p # <<iter, gen>> => text'[p] = text[p]
         /\ sct' = [sct EXCEPT ![iter] = Stub(iter, gen)]
<1>1. loader = "hooking" /\ iter' = iter + 1 /\ gen' = gen
      /\ sct' = [sct EXCEPT ![iter] = Stub(iter, gen)]
      /\ loader' = IF iter = Len(Archs) THEN "register" ELSE "hooking"
  BY DEF HookCall
<1>2. iter \in Calls /\ gen \in Loads
  BY <1>1, LoadsAre DEF LoaderOK
<1>3. sct[iter] \in Functions(iter)
  BY <1>2 DEF SctOK
<1>4. text' = Put(text, <<iter, gen>>, create_stub[iter][gen][sct[iter]])
  BY DEF HookCall
<1> DEFINE p == <<iter, gen>>
           bytes == create_stub[iter][gen][sct[iter]]
<1>5. text' = Put(text, p, bytes)
  BY <1>4
<1> HIDE DEF p, bytes
<1>6. /\ DOMAIN text' = DOMAIN text \cup {p}
      /\ text'[p] = bytes
      /\ \A q \in DOMAIN text : q # p => text'[q] = text[q]
  BY <1>5 DEF Put
<1> QED  BY <1>1, <1>2, <1>3, <1>6 DEF p, bytes

LEMMA UnhookText ==
  ASSUME LoaderOK, SctOK, TextInv, SctInv, UnhookCall
  PROVE  /\ iter \in Calls /\ loader = "unhooking" /\ iter' = iter + 1 /\ gen' = gen
         /\ loader' = IF iter = Len(Archs) THEN "halt" ELSE "unhooking"
         /\ sct' = sct
         /\ DOMAIN text' = DOMAIN text
         /\ sct[iter] \in Functions(iter)
         /\ IF sct[iter].g = 0
            THEN text' = text /\ real_patched' = real_patched \cup {iter}
            ELSE LET p == <<iter, sct[iter].g>>
                 IN  /\ p \in DOMAIN text /\ text[p] \in TextsOf(iter, sct[iter].g)
                     /\ text'[p] = patch_cmp(text[p])
                     /\ \A q \in DOMAIN text : q # p => text'[q] = text[q]
                     /\ UNCHANGED real_patched
<1>1. loader = "unhooking" /\ iter' = iter + 1 /\ gen' = gen /\ sct' = sct
      /\ loader' = IF iter = Len(Archs) THEN "halt" ELSE "unhooking"
  BY DEF UnhookCall
<1>d. IF sct[iter].sym = "stub"
      THEN /\ text' = [text EXCEPT ![<<sct[iter].k, sct[iter].g>>] = Cut[@]]
           /\ UNCHANGED real_patched
      ELSE /\ real_patched' = real_patched \cup {sct[iter].k}
           /\ UNCHANGED text
  BY DEF UnhookCall, destroy_stub
<1>2. iter \in Calls
  BY <1>1 DEF LoaderOK
<1>3. sct[iter] \in Functions(iter)
  BY <1>2 DEF SctOK
<1>4. CASE sct[iter].g = 0
  <2>1. sct[iter].sym # "stub" /\ sct[iter].k = iter
    BY <1>2, <1>3, <1>4, FunctionsAre
  <2>2. text' = text /\ real_patched' = real_patched \cup {iter}
    BY <1>d, <2>1
  <2> QED  BY <1>1, <1>2, <1>3, <1>4, <2>2
<1>5. CASE sct[iter].g # 0
  <2> DEFINE g == sct[iter].g
  <2>1. sct[iter].sym = "stub" /\ sct[iter].k = iter /\ g \in Loads /\ sct[iter] # Real(iter)
    BY <1>2, <1>3, <1>5, FunctionsAre DEF Real, At
  <2>2. <<iter, g>> \in DOMAIN text
    BY <1>2, <2>1 DEF SctInv
  <2>3. text[<<iter, g>>] \in TextsOf(iter, g)
    BY <1>2, <2>1, <2>2 DEF TextInv
  <2>4. text' = [text EXCEPT ![<<iter, g>>] = Cut[text[<<iter, g>>]]] /\ UNCHANGED real_patched
    BY <1>d, <2>1
  <2>5. Cut[text[<<iter, g>>]] = patch_cmp(text[<<iter, g>>])
    BY <1>2, <2>1, <2>3, CutIs
  <2>6. DOMAIN text' = DOMAIN text /\ text'[<<iter, g>>] = patch_cmp(text[<<iter, g>>])
        /\ \A q \in DOMAIN text : q # <<iter, g>> => text'[q] = text[q]
    BY <2>2, <2>4, <2>5
  <2> QED  BY <1>1, <1>2, <1>3, <1>5, <2>2, <2>3, <2>4, <2>6
<1> QED  BY <1>4, <1>5

(* The other steps leave the stubs and the tables as they are.             *)
LEMMA OtherText ==
  ASSUME [Next]_vars, ~HookCall, ~UnhookCall
  PROVE  UNCHANGED <<sct, text, real_patched>>
  BY DEF Next, vars, sctVars, load, SetNetlinkId, get_sct, HookCallNoMemory, Register, unload,
         Unregister, Exit, WriteState, StartOrStop, Fclose

LEMMA GenStep ==
  ASSUME LoaderOK, [Next]_vars
  PROVE  gen' \in Int /\ gen \in Int /\ (gen' = gen \/ (load /\ gen' = gen + 1))
<1>1. gen \in Int
  BY LoadsAre DEF LoaderOK
<1>2. gen' = gen \/ (load /\ gen' = gen + 1)
  BY DEF Next, vars, load, SetNetlinkId, get_sct, HookCall, HookCallNoMemory, Register, unload,
         Unregister, UnhookCall, Exit, WriteState, StartOrStop, Fclose
<1> QED  BY <1>1, <1>2

LEMMA TextStep ==
  ASSUME LoaderOK, SctOK, TextInv, SctInv, [Next]_vars
  PROVE  TextInv'
<1> SUFFICES ASSUME NEW k \in Calls, NEW g \in Loads, <<k, g>> \in DOMAIN text'
             PROVE  g <= gen' /\ text'[<<k, g>>] \in TextsOf(k, g)
  BY DEF TextInv
<1>0. g \in Int /\ gen \in Int
  BY LoadsAre, GenStep
<1>1. CASE HookCall
  <2>1. CASE <<k, g>> = <<iter, gen>>
    <3>1. k = iter /\ g = gen
      BY <2>1
    <3> QED  BY <1>0, <1>1, <3>1, HookText, MadeIs DEF TextsOf
  <2>2. CASE <<k, g>> # <<iter, gen>>
    BY <1>1, <2>2, HookText DEF TextInv
  <2> QED  BY <2>1, <2>2
<1>2. CASE UnhookCall
  <2>1. <<k, g>> \in DOMAIN text /\ g <= gen /\ gen' = gen
    BY <1>2, UnhookText DEF TextInv
  <2>2. CASE <<k, g>> = <<iter, sct[iter].g>> /\ sct[iter].g # 0
    <3>1. k = iter /\ g = sct[iter].g
      BY <2>2
    <3>2. text'[<<k, g>>] = patch_cmp(text[<<k, g>>]) /\ text[<<k, g>>] \in TextsOf(k, g)
      BY <1>2, <2>2, <3>1, UnhookText
    <3> QED  BY <2>1, <3>2, CutIs
  <2>3. CASE ~ (<<k, g>> = <<iter, sct[iter].g>> /\ sct[iter].g # 0)
    <3>1. text'[<<k, g>>] = text[<<k, g>>]
      BY <1>2, <2>1, <2>3, UnhookText
    <3> QED  BY <2>1, <3>1 DEF TextInv
  <2> QED  BY <2>2, <2>3
<1>3. CASE ~HookCall /\ ~UnhookCall
  <2>1. text' = text
    BY <1>3, OtherText
  <2>2. g <= gen /\ text[<<k, g>>] \in TextsOf(k, g)
    BY <2>1 DEF TextInv
  <2>3. g <= gen'
    BY <1>0, <2>2, GenStep
  <2> QED  BY <2>1, <2>2, <2>3
<1> QED  BY <1>1, <1>2, <1>3

(* No step brings a load back to before a call.                            *)
LEMMA BeforeStep ==
  ASSUME LoaderOK, [Next]_vars, ~load, ~HookCall, NEW k \in Calls, Before(k)'
  PROVE  Before(k) /\ gen' = gen
<1> USE CallsAre
<1>1. gen' = gen
  BY GenStep
<1>2. CASE SetNetlinkId
  BY <1>2 DEF SetNetlinkId, Before
<1>3. CASE get_sct
  <2>1. loader = "hook" \/ loader' \in {"halt", "unhooking", "unhook_oops"}
    BY <1>3 DEF get_sct, GiveUp
  <2> QED  BY <1>1, <2>1 DEF Before
<1>4. CASE HookCallNoMemory
  BY <1>4 DEF HookCallNoMemory, Before
<1>5. CASE Register \/ unload \/ Unregister \/ UnhookCall \/ Exit
  <2>1. loader' \in {"live", "out", "unregister", "unhook", "halt", "unhooking"}
    BY <1>5 DEF Register, unload, Unregister, UnhookCall, Exit
  <2> QED  BY <1>1, <2>1 DEF Before
<1>6. CASE Switch \/ UNCHANGED vars
  <2>1. UNCHANGED <<loader, iter>>
    BY <1>6 DEF Switch, WriteState, StartOrStop, Fclose, vars
  <2> QED  BY <1>1, <2>1 DEF Before
<1>7. Before(k)
  BY <1>2, <1>3, <1>4, <1>5, <1>6 DEF Next, Switch
<1> QED  BY <1>1, <1>7

LEMMA SctStep ==
  ASSUME LoaderOK, SctOK, TextInv, SctInv, [Next]_vars
  PROVE  SctInv'
<1> SUFFICES ASSUME NEW k \in Calls
             PROVE  /\ sct'[k] # Real(k) => <<k, sct'[k].g>> \in DOMAIN text'
                    /\ Before(k)' => <<k, gen'>> \notin DOMAIN text'
  BY DEF SctInv
<1> USE CallsAre
<1>1. CASE HookCall
  <2>0. k \in Int /\ iter \in Int /\ gen' = gen
    BY <1>1, HookText
  <2>1. CASE k = iter
    <3>1. sct'[k].g = gen /\ <<k, gen>> \in DOMAIN text'
      BY <1>1, <2>1, HookText DEF SctOK, Stub, At
    <3>2. ~Before(k)'
      BY <1>1, <2>0, <2>1, HookText DEF Before
    <3> QED  BY <3>1, <3>2
  <2>2. CASE k # iter
    <3>1. sct'[k] = sct[k] /\ DOMAIN text \subseteq DOMAIN text'
      BY <1>1, <2>2, HookText DEF SctOK
    <3>2. sct'[k] # Real(k) => <<k, sct'[k].g>> \in DOMAIN text'
      BY <3>1 DEF SctInv
    <3>3. Before(k)' => Before(k)
      BY <1>1, <2>0, HookText DEF Before
    <3>4. <<k, gen>> # <<iter, gen>>
      BY <2>2
    <3>5. Before(k)' => <<k, gen>> \notin DOMAIN text'
      BY <1>1, <3>3, <3>4, HookText DEF SctInv
    <3> QED  BY <2>0, <3>2, <3>5
  <2> QED  BY <2>1, <2>2
<1>2. CASE UnhookCall
  <2>1. ~HookCall /\ ~load
    BY <1>2 DEF UnhookCall, HookCall, load
  <2> QED  BY <1>2, <2>1, UnhookText, BeforeStep DEF SctInv
<1>3. CASE load
  <2>1. UNCHANGED <<sct, text>>
    BY <1>3 DEF load
  <2>2. gen' \in Loads /\ gen' > gen /\ gen \in Int
    BY <1>3, LoadsAre DEF load, LoaderOK
  <2>3. ~ (gen' <= gen)
    BY <2>2, LoadsAre
  <2>4. <<k, gen'>> \notin DOMAIN text
    BY <2>2, <2>3 DEF TextInv
  <2> QED  BY <2>1, <2>4 DEF SctInv
<1>4. CASE ~HookCall /\ ~UnhookCall /\ ~load
  BY <1>4, OtherText, BeforeStep DEF SctInv
<1> QED  BY <1>1, <1>2, <1>3, <1>4

-----------------------------------------------------------------------------
(* The tables of the files                                                 *)

LEMMA TableIs ==
  ASSUME NEW n \in Nat, NEW g
  PROVE  /\ TableOf(n, g) \in Seq({Entry(k, State(k, g)) : k \in 1 .. n} \cup {ZeroEntry})
         /\ Len(TableOf(n, g)) = n /\ DOMAIN TableOf(n, g) = 1 .. n
         /\ \A i \in 1 .. n :
              TableOf(n, g)[i] = IF i < n THEN Entry(i, State(i, g)) ELSE ZeroEntry
<1> DEFINE S == {Entry(k, State(k, g)) : k \in 1 .. n} \cup {ZeroEntry}
           T == [i \in 1 .. n |-> IF i < n THEN Entry(i, State(i, g)) ELSE ZeroEntry]
<1>1. \A i \in 1 .. n : (IF i < n THEN Entry(i, State(i, g)) ELSE ZeroEntry) \in S
  OBVIOUS
<1> HIDE DEF S
<1>2. T \in [1 .. n -> S]
  BY <1>1
<1>3. T \in Seq(S) /\ Len(T) = n
  BY <1>2
<1> QED  BY <1>3 DEF TableOf, S

LEMMA TableEnds ==
  ASSUME NEW n \in Nat \ {0}, NEW g
  PROVE  n \in DOMAIN TableOf(n, g) /\ TableOf(n, g)[n] = ZeroEntry
  BY DEF TableOf

(* The two ways to grow a table                                            *)
LEMMA TableGrows ==
  ASSUME NEW n \in Nat \ {0}, NEW g
  PROVE  /\ [<<ZeroEntry, ZeroEntry>> EXCEPT ![1] = Entry(1, State(1, g))] = TableOf(2, g)
         /\ [Append(TableOf(n, g), ZeroEntry) EXCEPT ![n] = Entry(n, State(n, g))]
              = TableOf(n + 1, g)
<1>1. [<<ZeroEntry, ZeroEntry>> EXCEPT ![1] = Entry(1, State(1, g))] = TableOf(2, g)
  BY DEF TableOf
<1> DEFINE T == TableOf(n, g)
           A == Append(T, ZeroEntry)
           B == [A EXCEPT ![n] = Entry(n, State(n, g))]
<1>2. /\ T \in Seq({Entry(k, State(k, g)) : k \in 1 .. n} \cup {ZeroEntry}) /\ Len(T) = n
      /\ \A i \in 1 .. n : T[i] = IF i < n THEN Entry(i, State(i, g)) ELSE ZeroEntry
  BY TableIs
<1> HIDE DEF T
<1>3. /\ DOMAIN A = 1 .. n + 1
      /\ \A i \in 1 .. n : A[i] = T[i]
      /\ A[n + 1] = ZeroEntry
  BY <1>2
<1> HIDE DEF A
<1>4. DOMAIN B = 1 .. n + 1
      /\ \A i \in 1 .. n + 1 : B[i] = IF i < n + 1 THEN Entry(i, State(i, g)) ELSE ZeroEntry
  <2>1. DOMAIN B = 1 .. n + 1 /\ B[n] = Entry(n, State(n, g)) /\ B[n + 1] = ZeroEntry
    BY <1>3
  <2>2. ASSUME NEW i \in 1 .. n - 1 PROVE B[i] = Entry(i, State(i, g))
    BY <1>2, <1>3
  <2> QED  BY <2>1, <2>2
<1>5. B = [i \in DOMAIN B |-> B[i]]
  OBVIOUS
<1> HIDE DEF B
<1>6. B = TableOf(n + 1, g)
  BY <1>4, <1>5 DEF TableOf
<1> QED  BY <1>1, <1>6 DEF T, A, B

(* The files are those of the calls in the table.                          *)
LEMMA FilesAre ==
  ASSUME NEW n \in Nat \ {0}, child \in DOMAIN kmem, kmem[child] = TableOf(n, gen)
  PROVE  Files = {Entry(k, State(k, gen)) : k \in 1 .. n - 1}
<1> DEFINE T == TableOf(n, gen)
           Named == {f \in DOMAIN T : \A h \in 1 .. f : T[h].procname # ZeroEntry.procname}
<1>1. /\ DOMAIN T = 1 .. n
      /\ \A i \in 1 .. n : T[i] = IF i < n THEN Entry(i, State(i, gen)) ELSE ZeroEntry
  BY TableIs
<1>2. Files = {T[f] : f \in Named}
  BY DEF Files
<1> HIDE DEF T
<1>3. Named = 1 .. n - 1
  <2>1. \A i \in 1 .. n - 1 : T[i].procname = i /\ i # 0
    BY <1>1 DEF Entry
  <2>2. T[n] = ZeroEntry
    BY <1>1
  <2>3. ZeroEntry.procname = 0
    BY DEF ZeroEntry, Entry
  <2> QED  BY <1>1, <2>1, <2>2, <2>3
<1> HIDE DEF Named
<1>4. \A i \in 1 .. n - 1 : T[i] = Entry(i, State(i, gen))
  BY <1>1
<1> QED  BY <1>2, <1>3, <1>4

LEMMA FilledStays ==
  ASSUME NEW n, Filled(n), UNCHANGED <<nsyscalls_state_table, child, gen, text>>,
         child \in DOMAIN kmem', kmem'[child] = kmem[child]
  PROVE  Filled(n)'
  BY DEF Filled

(* What add_syscalls_state_table_entry does to a table with n - 1 entries  *)
LEMMA EntryAdded ==
  ASSUME ControlsOK, NEW n \in Nat \ {0},
         IF n = 1 THEN Fresh ELSE Filled(n) /\ syscalls_state_table = child,
         add_syscalls_state_table_entry(n, State(n, gen))
  PROVE  /\ nsyscalls_state_table' = n + 1
         /\ child' \in DOMAIN kmem'
         /\ kmem'[child'] = TableOf(n + 1, gen)
         /\ syscalls_state_table' = child'
         /\ registered' = registered
<1> DEFINE m == IF nsyscalls_state_table = 0 THEN 2 ELSE nsyscalls_state_table + 1
           grown == IF nsyscalls_state_table = 0 THEN <<ZeroEntry, ZeroEntry>>
                    ELSE Append(kmem[syscalls_state_table], ZeroEntry)
           table == [grown EXCEPT ![m - 1] = Entry(n, State(n, gen))]
<1>1. /\ nsyscalls_state_table' = m
      /\ \/ /\ FreeBlock
            /\ syscalls_state_table' = kcalloc
            /\ kmem' = Restrict(Put(kmem, kcalloc, table),
                                (DOMAIN kmem \cup {kcalloc}) \ {syscalls_state_table})
         \/ /\ nsyscalls_state_table # 0
            /\ syscalls_state_table' = syscalls_state_table
            /\ kmem' = Put(kmem, syscalls_state_table, table)
      /\ child' = syscalls_state_table'
      /\ registered' = registered
  BY DEF add_syscalls_state_table_entry
<1>2. m = n + 1 /\ table = TableOf(n + 1, gen)
  <2>1. CASE n = 1
    <3>1. nsyscalls_state_table = 0
      BY <2>1 DEF Fresh, Empty
    <3>2. m = 2 /\ m - 1 = 1 /\ n + 1 = 2 /\ grown = <<ZeroEntry, ZeroEntry>>
      BY <2>1, <3>1
    <3> QED  BY <2>1, <3>2, TableGrows
  <2>2. CASE n # 1
    <3>1. nsyscalls_state_table = n /\ kmem[syscalls_state_table] = TableOf(n, gen)
      BY <2>2 DEF Filled
    <3>2. m = n + 1 /\ m - 1 = n /\ grown = Append(TableOf(n, gen), ZeroEntry)
      BY <3>1
    <3> QED  BY <3>2, TableGrows
  <2> QED  BY <2>1, <2>2
<1> HIDE DEF m, table
<1>3. syscalls_state_table' \in DOMAIN kmem' /\ kmem'[syscalls_state_table'] = table
  <2>1. CASE /\ FreeBlock
             /\ syscalls_state_table' = kcalloc
             /\ kmem' = Restrict(Put(kmem, kcalloc, table),
                                 (DOMAIN kmem \cup {kcalloc}) \ {syscalls_state_table})
    <3>1. kcalloc # syscalls_state_table
      <4>1. kcalloc # NULL /\ kcalloc \notin DOMAIN kmem
        BY <2>1, KcallocFree
      <4>2. CASE n # 1
        BY <4>1, <4>2 DEF Filled
      <4>3. CASE n = 1
        BY <4>1, <4>3 DEF Fresh
      <4> QED  BY <4>2, <4>3
    <3> QED  BY <2>1, <3>1 DEF Restrict, Put
  <2>2. CASE /\ syscalls_state_table' = syscalls_state_table
             /\ kmem' = Put(kmem, syscalls_state_table, table)
    BY <2>2 DEF Put
  <2> QED  BY <1>1, <2>1, <2>2
<1> QED  BY <1>1, <1>2, <1>3

LEMMA FilesHook ==
  ASSUME ControlsOK, LoaderOK, SctOK, SctInv, FilesInv, HookCall
  PROVE  FilesInv'
<1> USE CallsAre
<1>0. /\ loader = "hooking" /\ iter \in Calls /\ iter' = iter + 1 /\ gen' = gen
      /\ add_syscalls_state_table_entry(iter, State(iter, gen))
  BY HookText DEF HookCall
<1>1. IF iter = 1 THEN Fresh ELSE Filled(iter) /\ syscalls_state_table = child
  BY <1>0 DEF FilesInv
<1>2. iter \in Nat \ {0}
  BY <1>0
<1>3. /\ nsyscalls_state_table' = iter + 1
      /\ child' \in DOMAIN kmem'
      /\ kmem'[child'] = TableOf(iter + 1, gen)
      /\ syscalls_state_table' = child'
      /\ registered' = registered
  BY <1>0, <1>1, <1>2, EntryAdded
<1>4. ASSUME NEW k \in 1 .. iter
      PROVE  <<k, gen>> \in DOMAIN text' /\ text'[<<k, gen>>] \in MadeOf(k, gen)
  <2>1. CASE k = iter
    BY <2>1, HookText, MadeIs
  <2>2. CASE k # iter
    <3>1. iter # 1 /\ k \in 1 .. iter - 1
      BY <1>2, <2>2
    <3>2. <<k, gen>> \in DOMAIN text /\ text[<<k, gen>>] \in MadeOf(k, gen)
      BY <1>1, <3>1 DEF Filled
    <3>3. <<k, gen>> # <<iter, gen>>
      BY <2>2
    <3> QED  BY <3>2, <3>3, HookText
  <2> QED  BY <2>1, <2>2
<1>5. ASSUME NEW n, n = iter + 1 PROVE Filled(n)'
  <2>1. n - 1 = iter
    BY <1>2, <1>5
  <2> QED  BY <1>0, <1>3, <1>4, <1>5, <2>1 DEF Filled
<1>6. Filled(iter)'
  <2>1. iter' - 1 = iter
    BY <1>0, <1>2
  <2> QED  BY <1>0, <1>3, <1>4, <2>1 DEF Filled
<1>7. ~registered'
  BY <1>0, <1>3 DEF FilesInv
<1>8. CASE iter = Len(Archs)
  <2>1. loader' = "register"
    BY <1>8, HookText
  <2>2. Filled(Len(Archs) + 1)'
    BY <1>5, <1>8
  <2> QED  BY <1>7, <2>1, <2>2 DEF FilesInv
<1>9. CASE iter # Len(Archs)
  <2>1. loader' = "hooking" /\ iter' # 1
    BY <1>0, <1>2, <1>9, HookText
  <2>2. syscalls_state_table' = child'
    BY <1>3
  <2> QED  BY <1>6, <1>7, <2>1, <2>2 DEF FilesInv
<1> QED  BY <1>8, <1>9

LEMMA FilesStep == HookingInv /\ [Next]_vars => FilesInv'
<1> SUFFICES ASSUME HookingInv, [Next]_vars PROVE FilesInv'
  OBVIOUS
<1> USE CallsAre
<1>0. ControlsOK /\ LoaderOK /\ SctOK /\ TextInv /\ SctInv /\ FilesInv
  BY DEF HookingInv, TypeInv, TypeOK, ControlsOK, LoaderOK, SctOK
<1>1. CASE load
  <2>1. loader' = "init" /\ ~registered' /\ Fresh'
    BY <1>1 DEF load, ControlsLoaded, Fresh, Empty
  <2> QED  BY <2>1 DEF FilesInv
<1>2. CASE SetNetlinkId
  <2>1. loader = "init" /\ loader' = "hook" /\ registered' = registered
        /\ UNCHANGED <<nsyscalls_state_table, syscalls_state_table, child>>
    BY <1>2 DEF SetNetlinkId, set_monks_control_netlink_id
  <2>2. ~registered /\ Fresh
    BY <1>0, <2>1 DEF FilesInv
  <2>3. Fresh'
    BY <2>1, <2>2 DEF Fresh, Empty
  <2> QED  BY <2>1, <2>2, <2>3 DEF FilesInv
<1>3. CASE get_sct
  <2>1. /\ loader \in {"hook", "unhook"} /\ iter' = 1 /\ gen' = gen
        /\ UNCHANGED controlVars /\ text' = text
        /\ loader' \in (IF loader = "hook" THEN {"register", "hooking", "hook_oops"}
                        ELSE {"halt", "unhooking", "unhook_oops"})
    BY <1>3 DEF get_sct, GiveUp
  <2>2. ~registered'
    BY <1>0, <2>1 DEF FilesInv, controlVars
  <2>3. CASE loader = "unhook"
    BY <2>1, <2>2, <2>3 DEF FilesInv
  <2>4. CASE loader = "hook"
    <3>1. Fresh'
      BY <1>0, <2>1, <2>4 DEF FilesInv, Fresh, Empty, controlVars
    <3>2. 1 \in Calls /\ Before(1)
      BY <2>4 DEF Before
    <3>3. <<1, gen'>> \notin DOMAIN text'
      BY <1>0, <2>1, <3>2 DEF SctInv
    <3>4. Empty'
      BY <3>1 DEF Fresh
    <3> QED  BY <2>1, <2>2, <2>4, <3>1, <3>3, <3>4 DEF FilesInv
  <2> QED  BY <2>1, <2>3, <2>4
<1>4. CASE HookCall
  BY <1>0, <1>4, FilesHook
<1>5. CASE HookCallNoMemory
  <2>1. /\ loader = "hooking" /\ loader' = "hook_oops" /\ UNCHANGED <<iter, gen, text>>
        /\ UNCHANGED controlVars
    BY <1>5 DEF HookCallNoMemory, sctVars
  <2>2. IF iter = 1 THEN Fresh ELSE Filled(iter) /\ syscalls_state_table = child
    BY <1>0, <2>1 DEF FilesInv
  <2>3. IF iter = 1 THEN Fresh' ELSE Filled(iter)' /\ syscalls_state_table' = child'
    BY <2>1, <2>2 DEF Fresh, Empty, Filled, controlVars
  <2>4. ~registered'
    BY <1>0, <2>1 DEF FilesInv, controlVars
  <2> QED  BY <2>1, <2>3, <2>4 DEF FilesInv
<1>6. CASE Register
  <2>1. /\ loader = "register" /\ loader' = IF registered' THEN "live" ELSE "out"
        /\ UNCHANGED <<gen, text, nsyscalls_state_table, child>>
    BY <1>6 DEF Register, sctVars, register_monks_controls
  <2>2. kmem' = kmem \/ (FreeBlock /\ \E table : kmem' = Put(kmem, kcalloc, table))
    BY <1>6 DEF Register, register_monks_controls
  <2>3. CASE Empty /\ <<1, gen>> \notin DOMAIN text
    <3>1. Empty' /\ <<1, gen'>> \notin DOMAIN text'
      BY <2>1, <2>3 DEF Empty
    <3> QED  BY <2>1, <3>1 DEF FilesInv
  <2>4. CASE Filled(Len(Archs) + 1)
    <3>1. child \in DOMAIN kmem
      BY <2>4 DEF Filled
    <3>2. child \in DOMAIN kmem' /\ kmem'[child] = kmem[child]
      BY <2>2, <3>1, KcallocFree DEF Put
    <3>3. Filled(Len(Archs) + 1)'
      BY <2>1, <2>4, <3>2, FilledStays
    <3> QED  BY <2>1, <3>3 DEF FilesInv
  <2> QED  BY <1>0, <2>1, <2>3, <2>4 DEF FilesInv
<1>7. CASE Unregister \/ UnhookCall \/ Exit
  <2>1. ~registered' /\ loader' \in {"unhook", "unhooking", "halt", "out"}
    BY <1>0, <1>7 DEF FilesInv, Unregister, unregister_monks_controls, UnhookCall, Exit, controlVars
  <2> QED  BY <2>1 DEF FilesInv
<1>8. CASE unload
  <2>1. /\ loader = "live" /\ loader' = "unregister" /\ UNCHANGED <<gen, text>>
        /\ UNCHANGED controlVars
    BY <1>8 DEF unload, sctVars
  <2>2. \/ Empty' /\ <<1, gen'>> \notin DOMAIN text'
        \/ Filled(Len(Archs) + 1)'
    BY <1>0, <2>1 DEF FilesInv, Empty, Filled, controlVars
  <2> QED  BY <2>1, <2>2 DEF FilesInv
<1>9. CASE Switch \/ UNCHANGED vars
  <2>1. UNCHANGED <<loader, iter, gen, text, kmem, nsyscalls_state_table, syscalls_state_table,
                    child, registered>>
    BY <1>9 DEF Switch, WriteState, StartOrStop, Fclose, vars, sctVars, controlVars
  <2> QED  BY <1>0, <2>1 DEF FilesInv, Fresh, Empty, Filled
<1> QED
  BY <1>1, <1>2, <1>3, <1>4, <1>5, <1>6, <1>7, <1>8, <1>9 DEF Next, Switch

-----------------------------------------------------------------------------
(* The invariant, and what it implies                                      *)

LEMMA InvInit == Init => HookingInv
<1> SUFFICES ASSUME Init PROVE HookingInv
  OBVIOUS
<1>1. TypeInv
  BY TypeInit
<1>2. loader = "out" /\ text = <<>> /\ ~registered /\ (\A k \in Calls : sct[k] = Real(k))
  BY DEF Init, ControlsInit
<1>3. DOMAIN text = {}
  BY <1>2
<1> QED  BY <1>1, <1>2, <1>3 DEF HookingInv, TextInv, SctInv, FilesInv, Before

(* HookingInv, which the other proofs rest on, holds throughout: the stubs *)
(* of main.c, sct_hook.c and control.c are as their functions left them.   *)
THEOREM HookingInvariant == Spec => []HookingInv
<1>1. HookingInv /\ [Next]_vars => HookingInv'
  <2> SUFFICES ASSUME HookingInv, [Next]_vars PROVE HookingInv'
    OBVIOUS
  <2>1. LoaderOK /\ SctOK /\ TextInv /\ SctInv
    BY DEF HookingInv, TypeInv, TypeOK, LoaderOK, SctOK
  <2> QED  BY <2>1, TypeStep, TextStep, SctStep, FilesStep DEF HookingInv
<1> QED  BY InvInit, <1>1, PTL DEF Spec

(* Through any loads and unloads and failures the loader, its tables and   *)
(* what the files set keep their types.                                    *)
THEOREM TypeCorrect == Spec => []TypeOK
<1>1. HookingInv => TypeOK
  BY DEF HookingInv, TypeInv
<1> QED  BY HookingInvariant, <1>1, PTL

LEMMA SwitchesHold == HookingInv => FilesSwitch
<1> SUFFICES ASSUME HookingInv, registered PROVE
      /\ child = NULL <=> <<1, gen>> \notin DOMAIN text
      /\ child # NULL =>
           /\ child \in DOMAIN kmem
           /\ \E n \in DOMAIN kmem[child] : kmem[child][n] = ZeroEntry
           /\ {f.procname : f \in Files} = Calls /\ Cardinality(Files) = Len(Archs)
           /\ \A f \in Files, n \in {2, 6} :
                /\ <<f.procname, gen>> \in DOMAIN text
                /\ Reads(Archs[f.procname], text[<<f.procname, gen>>], n, f.data)
  BY DEF FilesSwitch, Made
<1> USE CallsAre
<1>1. loader \in {"live", "unregister"} /\ gen \in Loads /\ DOMAIN kmem \subseteq Blocks
  BY LoadsAre DEF HookingInv, FilesInv, TypeInv, TypeOK
<1>2. CASE Empty /\ <<1, gen>> \notin DOMAIN text
  BY <1>2 DEF Empty
<1>3. CASE Filled(Len(Archs) + 1)
  <2> DEFINE L == Len(Archs)
  <2>0. L \in Nat \ {0} /\ L + 1 \in Nat \ {0} /\ (L + 1) - 1 = L /\ Calls = 1 .. L
    OBVIOUS
  <2>1. child \in DOMAIN kmem /\ kmem[child] = TableOf(L + 1, gen)
    BY <1>3 DEF Filled
  <2>2. \A k \in Calls : <<k, gen>> \in DOMAIN text /\ text[<<k, gen>>] \in MadeOf(k, gen)
    BY <1>3, <2>0 DEF Filled
  <2> HIDE DEF L
  <2>3. child # NULL
    BY <1>1, <2>1, ControlsAssumption DEF NULL
  <2>4. \E n \in DOMAIN kmem[child] : kmem[child][n] = ZeroEntry
    <3>1. L + 1 \in DOMAIN TableOf(L + 1, gen) /\ TableOf(L + 1, gen)[L + 1] = ZeroEntry
      BY <2>0, TableEnds
    <3> QED  BY <2>1, <3>1
  <2>5. Files = {Entry(k, State(k, gen)) : k \in Calls}
    BY <2>0, <2>1, FilesAre
  <2>6. {f.procname : f \in Files} = Calls
    <3>1. \A k \in Calls : Entry(k, State(k, gen)) \in Files /\ Entry(k, State(k, gen)).procname = k
      BY <2>5 DEF Entry
    <3>2. \A f \in Files : f.procname \in Calls
      BY <2>5 DEF Entry
    <3> QED  BY <3>1, <3>2
  <2>7. Cardinality(Files) = L
    <3> DEFINE F == [k \in 1 .. L |-> Entry(k, State(k, gen))]
    <3>1. F \in [1 .. L -> Files]
      BY <2>0, <2>5
    <3>2. \A a, b \in 1 .. L : F[a] = F[b] => a = b
      BY DEF Entry
    <3>3. \A t \in Files : \E k \in 1 .. L : F[k] = t
      BY <2>0, <2>5
    <3> HIDE DEF F
    <3>4. F \in Bijection(1 .. L, Files)
      BY <3>1, <3>2, <3>3, Fun_IsBij
    <3>5. ExistsBijection(1 .. L, Files)
      BY <3>4 DEF ExistsBijection
    <3> QED  BY <2>0, <3>5, FS_CountingElements
  <2>8. ASSUME NEW f \in Files, NEW n \in {2, 6}
        PROVE  /\ <<f.procname, gen>> \in DOMAIN text
               /\ Reads(Archs[f.procname], text[<<f.procname, gen>>], n, f.data)
    <3>1. PICK k \in Calls : f = Entry(k, State(k, gen))
      BY <2>5
    <3>2. f.procname = k /\ f.data = State(k, gen)
      BY <3>1 DEF Entry
    <3>3. PICK fn \in Functions(k) : text[<<k, gen>>] = create_stub[k][gen][fn]
      BY <2>2 DEF MadeOf
    <3>4. Reads(Archs[k], create_stub[k][gen][fn], n, State(k, gen))
      BY <1>1, StubAssumption
    <3> QED  BY <2>2, <3>2, <3>3, <3>4
  <2>9. <<1, gen>> \in DOMAIN text
    BY <2>0, <2>2
  <2> QED  BY <2>1, <2>3, <2>4, <2>6, <2>7, <2>8, <2>9 DEF L
<1> QED  BY <1>1, <1>2, <1>3 DEF HookingInv, FilesInv

(* While there are files, each call that is hooked has one, and it writes  *)
(* the word that the stub of that call tests before either hook: control.c *)
(* fills its table as do_hook_calls makes the stubs.                       *)
THEOREM FilesSwitchCorrect == Spec => []FilesSwitch
BY HookingInvariant, SwitchesHold, PTL

-----------------------------------------------------------------------------
(* Seen from one call: the variables of module SctHook                     *)

StubOf(k) == [g \in Loads |-> IF ~Made(k, g) THEN "none"
                              ELSE IF IsCut(k, g) THEN "cut" ELSE "armed"]
RfsOf(k)  == [g \in Loads |-> RfOf(k, g)]

(* The same of the bytes of a stub                                         *)
Status(k, bytes) == IF Jumps(Archs[k], bytes) THEN "cut" ELSE "armed"
Earlier(k, g, bytes) == {h \in 1 .. g - 1 : Holds(Archs[k], bytes, 4, Stub(k, h))}
Callee(k, g, bytes) ==
  IF Earlier(k, g, bytes) = {} THEN 0 ELSE CHOOSE h \in Earlier(k, g, bytes) : TRUE

LEMMA SeenOf ==
  ASSUME NEW k
  PROVE  /\ StubOf(k) = [g \in Loads |-> IF <<k, g>> \in DOMAIN text
                                         THEN Status(k, text[<<k, g>>]) ELSE "none"]
         /\ RfsOf(k) = [g \in Loads |-> IF <<k, g>> \in DOMAIN text
                                        THEN Callee(k, g, text[<<k, g>>]) ELSE 0]
<1>1. ASSUME NEW g \in Loads
      PROVE  (IF ~Made(k, g) THEN "none" ELSE IF IsCut(k, g) THEN "cut" ELSE "armed")
               = IF <<k, g>> \in DOMAIN text THEN Status(k, text[<<k, g>>]) ELSE "none"
  BY DEF Made, IsCut, Status
<1>2. ASSUME NEW g \in Loads
      PROVE  RfOf(k, g) = IF <<k, g>> \in DOMAIN text THEN Callee(k, g, text[<<k, g>>]) ELSE 0
  <2> DEFINE earlier == {h \in 1 .. g - 1 :
                           Made(k, g) /\ Holds(Archs[k], text[<<k, g>>], 4, Stub(k, h))}
  <2>1. RfOf(k, g) = IF earlier = {} THEN 0 ELSE CHOOSE h \in earlier : TRUE
    BY DEF RfOf
  <2>2. earlier = IF <<k, g>> \in DOMAIN text THEN Earlier(k, g, text[<<k, g>>]) ELSE {}
    BY DEF Made, Earlier
  <2> HIDE DEF earlier
  <2> QED  BY <2>1, <2>2 DEF Callee
<1> QED  BY <1>1, <1>2 DEF StubOf, RfsOf

(* And after a step                                                        *)
LEMMA SeenOfNext ==
  ASSUME NEW k
  PROVE  /\ StubOf(k)' = [g \in Loads |-> IF <<k, g>> \in DOMAIN text'
                                          THEN Status(k, text'[<<k, g>>]) ELSE "none"]
         /\ RfsOf(k)' = [g \in Loads |-> IF <<k, g>> \in DOMAIN text'
                                         THEN Callee(k, g, text'[<<k, g>>]) ELSE 0]
<1>1. ASSUME NEW g \in Loads
      PROVE  (IF ~Made(k, g) THEN "none" ELSE IF IsCut(k, g) THEN "cut" ELSE "armed")'
               = IF <<k, g>> \in DOMAIN text' THEN Status(k, text'[<<k, g>>]) ELSE "none"
  BY DEF Made, IsCut, Status
<1>2. ASSUME NEW g \in Loads
      PROVE  RfOf(k, g)' = IF <<k, g>> \in DOMAIN text' THEN Callee(k, g, text'[<<k, g>>]) ELSE 0
  <2> DEFINE earlier == {h \in 1 .. g - 1 :
                           Made(k, g) /\ Holds(Archs[k], text[<<k, g>>], 4, Stub(k, h))}
  <2>1. RfOf(k, g)' = IF earlier' = {} THEN 0 ELSE CHOOSE h \in earlier' : TRUE
    BY DEF RfOf
  <2>2. earlier' = IF <<k, g>> \in DOMAIN text' THEN Earlier(k, g, text'[<<k, g>>]) ELSE {}
    BY DEF Made, Earlier
  <2> HIDE DEF earlier
  <2> QED  BY <2>1, <2>2 DEF Callee
<1> QED  BY <1>1, <1>2 DEF StubOf, RfsOf

(* The bytes of a stub say what it calls.                                  *)
LEMMA CalleeIs ==
  ASSUME NEW k \in Calls, NEW g \in Loads, NEW fn \in Functions(k), fn.g < g
  PROVE  /\ Callee(k, g, create_stub[k][g][fn]) = fn.g
         /\ Status(k, create_stub[k][g][fn]) = "armed"
<1> DEFINE made == create_stub[k][g][fn]
<1>1. Holds(Archs[k], made, 4, fn) /\ ~Jumps(Archs[k], made)
  BY StubAssumption
<1> HIDE DEF made
<1>2. \A h \in 1 .. g - 1 : Holds(Archs[k], made, 4, Stub(k, h)) => fn = Stub(k, h)
  <2> SUFFICES ASSUME NEW h \in 1 .. g - 1, Holds(Archs[k], made, 4, Stub(k, h))
               PROVE  fn = Stub(k, h)
    OBVIOUS
  <2>1. Address(fn) = Address(Stub(k, h))
    BY <1>1 DEF Holds
  <2>2. h \in Loads
    BY LoadsAre
  <2>3. fn \in Addresses /\ Stub(k, h) \in Addresses
    BY <2>2 DEF Functions, Addresses, Stub, Real
  <2>4. Stub(k, h).sym \notin OfModule
    BY DEF Stub, At, OfModule
  <2> QED  BY <2>1, <2>3, <2>4, HookingAssumption
<1>3. CASE fn.g = 0
  <2>1. \A h \in 1 .. g - 1 : fn # Stub(k, h)
    BY <1>3 DEF Stub, At
  <2>2. Earlier(k, g, made) = {}
    BY <1>2, <2>1 DEF Earlier
  <2> QED  BY <1>1, <1>3, <2>2 DEF Callee, Status, made
<1>4. CASE fn.g # 0
  <2>1. fn = Stub(k, fn.g) /\ fn.g \in 1 .. g - 1
    BY <1>4, FunctionsAre, LoadsAre
  <2>2. Earlier(k, g, made) = {fn.g}
    <3>1. fn.g \in Earlier(k, g, made)
      BY <1>1, <2>1 DEF Earlier
    <3>2. \A h \in Earlier(k, g, made) : h = fn.g
      BY <1>2 DEF Earlier, Stub, At
    <3> QED  BY <3>1, <3>2
  <2> QED  BY <1>1, <2>2 DEF Callee, Status, made
<1> QED  BY <1>3, <1>4

(* destroy_stub leaves that alone.                                         *)
LEMMA CalleeOfCut ==
  ASSUME NEW k \in Calls, NEW g \in Loads, NEW bytes \in TextsOf(k, g)
  PROVE  /\ Callee(k, g, patch_cmp(bytes)) = Callee(k, g, bytes)
         /\ Status(k, patch_cmp(bytes)) = "cut"
<1>1. CASE bytes \in MadeOf(k, g)
  <2>1. PICK fn \in Functions(k) : bytes = create_stub[k][g][fn]
    BY <1>1 DEF MadeOf
  <2>2. Holds(Archs[k], bytes, 4, fn) /\ Holds(Archs[k], patch_cmp(bytes), 4, fn)
        /\ Jumps(Archs[k], patch_cmp(bytes))
    BY <2>1, StubAssumption
  <2>3. \A h : Holds(Archs[k], bytes, 4, Stub(k, h))
                 <=> Holds(Archs[k], patch_cmp(bytes), 4, Stub(k, h))
    BY <2>2 DEF Holds
  <2>4. Earlier(k, g, patch_cmp(bytes)) = Earlier(k, g, bytes)
    BY <2>3 DEF Earlier
  <2> QED  BY <2>2, <2>4 DEF Callee, Status
<1>2. CASE \E made \in MadeOf(k, g) : bytes = patch_cmp(made)
  <2>1. PICK fn \in Functions(k) : bytes = patch_cmp(create_stub[k][g][fn])
    BY <1>2 DEF MadeOf
  <2>2. patch_cmp(bytes) = bytes /\ Jumps(Archs[k], bytes)
    BY <2>1, StubAssumption
  <2> QED  BY <2>2 DEF Status
<1> QED  BY <1>1, <1>2 DEF TextsOf

(* A step that leaves the stubs of a call as they are                      *)
LEMMA SeenStays ==
  ASSUME NEW k,
         \A g \in Loads :
           /\ <<k, g>> \in DOMAIN text' <=> <<k, g>> \in DOMAIN text
           /\ <<k, g>> \in DOMAIN text => text'[<<k, g>>] = text[<<k, g>>]
  PROVE  StubOf(k)' = StubOf(k) /\ RfsOf(k)' = RfsOf(k)
<1>s. /\ StubOf(k) = [g \in Loads |-> IF <<k, g>> \in DOMAIN text
                                      THEN Status(k, text[<<k, g>>]) ELSE "none"]
      /\ RfsOf(k) = [g \in Loads |-> IF <<k, g>> \in DOMAIN text
                                     THEN Callee(k, g, text[<<k, g>>]) ELSE 0]
  BY SeenOf
<1>t. /\ StubOf(k)' = [g \in Loads |-> IF <<k, g>> \in DOMAIN text'
                                       THEN Status(k, text'[<<k, g>>]) ELSE "none"]
      /\ RfsOf(k)' = [g \in Loads |-> IF <<k, g>> \in DOMAIN text'
                                      THEN Callee(k, g, text'[<<k, g>>]) ELSE 0]
  BY SeenOfNext
<1>1. StubOf(k)' = StubOf(k)
  BY <1>s, <1>t
<1>2. RfsOf(k)' = RfsOf(k)
  BY <1>s, <1>t
<1> QED  BY <1>1, <1>2

(* A function that differs from another in one place                       *)
LEMMA ExceptIs ==
  ASSUME NEW D, NEW f, NEW e, NEW g \in D, NEW v,
         f = [h \in D |-> f[h]], e = [h \in D |-> e[h]],
         e[g] = v, \A h \in D : h # g => e[h] = f[h]
  PROVE  e = [f EXCEPT ![g] = v]
  OBVIOUS

(* The step of the loop that makes a stub for call k                       *)
LEMMA SeenHook ==
  ASSUME LoaderOK, SctOK, TextInv, SctInv, HookCall, NEW k \in Calls
  PROVE  IF k = iter
         THEN /\ StubOf(k)' = [StubOf(k) EXCEPT ![gen] = "armed"]
              /\ RfsOf(k)' = [RfsOf(k) EXCEPT ![gen] = sct[k].g]
              /\ sct'[k].g = gen
         ELSE /\ StubOf(k)' = StubOf(k) /\ RfsOf(k)' = RfsOf(k)
              /\ sct'[k] = sct[k]
<1>1. CASE k = iter
  <2>1. gen \in Loads /\ gen \in Int /\ sct[k] \in Functions(k) /\ loader = "hooking"
    BY <1>1, HookText, LoadsAre
  <2>2. sct[k].g < gen
    <3>1. CASE sct[k].g = 0
      BY <2>1, <3>1, LoadsAre
    <3>2. CASE sct[k].g # 0
      <4>1. sct[k] # Real(k) /\ sct[k].g \in Loads
        BY <2>1, <3>2, FunctionsAre DEF Real, At
      <4>2. <<k, sct[k].g>> \in DOMAIN text
        BY <4>1 DEF SctInv
      <4>3. sct[k].g <= gen
        BY <4>1, <4>2 DEF TextInv
      <4>4. Before(k)
        BY <1>1, <2>1, CallsAre DEF Before
      <4>5. sct[k].g # gen
        BY <4>2, <4>4 DEF SctInv
      <4> QED  BY <2>1, <4>1, <4>3, <4>5, LoadsAre
    <3> QED  BY <3>1, <3>2
  <2>3. /\ Callee(k, gen, text'[<<k, gen>>]) = sct[k].g
        /\ Status(k, text'[<<k, gen>>]) = "armed"
        /\ <<k, gen>> \in DOMAIN text'
    BY <1>1, <2>1, <2>2, HookText, CalleeIs
  <2>4. ASSUME NEW g \in Loads, g # gen
        PROVE  /\ <<k, g>> \in DOMAIN text' <=> <<k, g>> \in DOMAIN text
               /\ <<k, g>> \in DOMAIN text => text'[<<k, g>>] = text[<<k, g>>]
    <3>1. <<k, g>> # <<iter, gen>>
      BY <2>4
    <3> QED  BY <3>1, HookText
  <2>s. /\ StubOf(k) = [g \in Loads |-> IF <<k, g>> \in DOMAIN text
                                        THEN Status(k, text[<<k, g>>]) ELSE "none"]
        /\ RfsOf(k) = [g \in Loads |-> IF <<k, g>> \in DOMAIN text
                                       THEN Callee(k, g, text[<<k, g>>]) ELSE 0]
    BY SeenOf
  <2>t. /\ StubOf(k)' = [g \in Loads |-> IF <<k, g>> \in DOMAIN text'
                                         THEN Status(k, text'[<<k, g>>]) ELSE "none"]
        /\ RfsOf(k)' = [g \in Loads |-> IF <<k, g>> \in DOMAIN text'
                                        THEN Callee(k, g, text'[<<k, g>>]) ELSE 0]
    BY SeenOfNext
  <2>5. StubOf(k)' = [StubOf(k) EXCEPT ![gen] = "armed"]
    <3>1. StubOf(k) = [g \in Loads |-> StubOf(k)[g]] /\ StubOf(k)' = [g \in Loads |-> StubOf(k)'[g]]
      BY <2>s, <2>t
    <3>2. StubOf(k)'[gen] = "armed"
      BY <2>1, <2>3, <2>t
    <3>3. \A g \in Loads : g # gen => StubOf(k)'[g] = StubOf(k)[g]
      BY <2>4, <2>s, <2>t
    <3> QED  BY <2>1, <3>1, <3>2, <3>3, ExceptIs
  <2>7. RfsOf(k)' = [RfsOf(k) EXCEPT ![gen] = sct[k].g]
    <3>1. RfsOf(k) = [g \in Loads |-> RfsOf(k)[g]] /\ RfsOf(k)' = [g \in Loads |-> RfsOf(k)'[g]]
      BY <2>s, <2>t
    <3>2. RfsOf(k)'[gen] = sct[k].g
      BY <2>1, <2>3, <2>t
    <3>3. \A g \in Loads : g # gen => RfsOf(k)'[g] = RfsOf(k)[g]
      BY <2>4, <2>s, <2>t
    <3> QED  BY <2>1, <3>1, <3>2, <3>3, ExceptIs
  <2>6. sct'[k].g = gen
    BY <1>1, HookText DEF SctOK, Stub, At
  <2> QED  BY <1>1, <2>5, <2>6, <2>7
<1>2. CASE k # iter
  <2>1. ASSUME NEW g \in Loads
        PROVE  /\ <<k, g>> \in DOMAIN text' <=> <<k, g>> \in DOMAIN text
               /\ <<k, g>> \in DOMAIN text => text'[<<k, g>>] = text[<<k, g>>]
    <3>1. <<k, g>> # <<iter, gen>>
      BY <1>2
    <3> QED  BY <3>1, HookText
  <2>2. StubOf(k)' = StubOf(k) /\ RfsOf(k)' = RfsOf(k)
    BY <2>1, SeenStays
  <2>3. sct'[k] = sct[k]
    BY <1>2, HookText DEF SctOK
  <2> QED  BY <1>2, <2>2, <2>3
<1> QED  BY <1>1, <1>2

(* The step that cuts what the table of call k holds                       *)
LEMMA SeenUnhook ==
  ASSUME LoaderOK, SctOK, TextInv, SctInv, UnhookCall, NEW k \in Calls
  PROVE  /\ RfsOf(k)' = RfsOf(k) /\ sct'[k] = sct[k]
         /\ IF k = iter /\ sct[k].g # 0
            THEN StubOf(k)' = [StubOf(k) EXCEPT ![sct[k].g] = "cut"]
            ELSE StubOf(k)' = StubOf(k)
         /\ k \in real_patched' <=> k \in real_patched \/ (k = iter /\ sct[k].g = 0)
<1>1. CASE k = iter /\ sct[k].g # 0
  <2>1. sct[k].g \in Loads
    BY <1>1, FunctionsAre DEF SctOK
  <2> DEFINE g == sct[k].g
  <2>2. /\ <<k, g>> \in DOMAIN text /\ text[<<k, g>>] \in TextsOf(k, g)
        /\ DOMAIN text' = DOMAIN text
        /\ text'[<<k, g>>] = patch_cmp(text[<<k, g>>])
        /\ \A q \in DOMAIN text : q # <<k, g>> => text'[q] = text[q]
        /\ UNCHANGED real_patched /\ sct' = sct
    BY <1>1, UnhookText
  <2> HIDE DEF g
  <2>g. g \in Loads /\ g = sct[k].g
    BY <2>1 DEF g
  <2>3. /\ Callee(k, g, text'[<<k, g>>]) = Callee(k, g, text[<<k, g>>])
        /\ Status(k, text'[<<k, g>>]) = "cut"
    BY <2>g, <2>2, CalleeOfCut
  <2>4. ASSUME NEW h \in Loads, h # g
        PROVE  <<k, h>> \in DOMAIN text => text'[<<k, h>>] = text[<<k, h>>]
    <3>1. <<k, h>> # <<k, g>>
      BY <2>4
    <3> QED  BY <2>2, <3>1
  <2>s. /\ StubOf(k) = [h \in Loads |-> IF <<k, h>> \in DOMAIN text
                                        THEN Status(k, text[<<k, h>>]) ELSE "none"]
        /\ RfsOf(k) = [h \in Loads |-> IF <<k, h>> \in DOMAIN text
                                       THEN Callee(k, h, text[<<k, h>>]) ELSE 0]
    BY SeenOf
  <2>t. /\ StubOf(k)' = [h \in Loads |-> IF <<k, h>> \in DOMAIN text'
                                         THEN Status(k, text'[<<k, h>>]) ELSE "none"]
        /\ RfsOf(k)' = [h \in Loads |-> IF <<k, h>> \in DOMAIN text'
                                        THEN Callee(k, h, text'[<<k, h>>]) ELSE 0]
    BY SeenOfNext
  <2>5. RfsOf(k)' = RfsOf(k)
    BY <2>g, <2>2, <2>3, <2>4, <2>s, <2>t
  <2>6. StubOf(k)' = [StubOf(k) EXCEPT ![g] = "cut"]
    <3>1. StubOf(k) = [h \in Loads |-> StubOf(k)[h]] /\ StubOf(k)' = [h \in Loads |-> StubOf(k)'[h]]
      BY <2>s, <2>t
    <3>2. StubOf(k)'[g] = "cut"
      BY <2>g, <2>2, <2>3, <2>t
    <3>3. \A h \in Loads : h # g => StubOf(k)'[h] = StubOf(k)[h]
      BY <2>2, <2>4, <2>s, <2>t
    <3> QED  BY <2>g, <3>1, <3>2, <3>3, ExceptIs
  <2> QED  BY <1>1, <2>2, <2>5, <2>6 DEF g
<1>2. CASE ~ (k = iter /\ sct[k].g # 0)
  <2>1. ASSUME NEW g \in Loads
        PROVE  /\ <<k, g>> \in DOMAIN text' <=> <<k, g>> \in DOMAIN text
               /\ <<k, g>> \in DOMAIN text => text'[<<k, g>>] = text[<<k, g>>]
    <3>1. CASE sct[iter].g = 0
      BY <3>1, UnhookText
    <3>2. CASE sct[iter].g # 0
      <4>1. k # iter
        BY <1>2, <3>2
      <4>2. <<k, g>> # <<iter, sct[iter].g>>
        BY <4>1
      <4> QED  BY <3>2, <4>2, UnhookText
    <3> QED  BY <3>1, <3>2
  <2>2. StubOf(k)' = StubOf(k) /\ RfsOf(k)' = RfsOf(k)
    BY <2>1, SeenStays
  <2>3. sct' = sct /\ (k \in real_patched' <=> k \in real_patched \/ (k = iter /\ sct[k].g = 0))
    BY <1>2, UnhookText
  <2> QED  BY <1>2, <2>2, <2>3
<1> QED  BY <1>1, <1>2

-----------------------------------------------------------------------------
(* Every step is one of module SctHook's for each call, or none.           *)

LEMMA CallInit ==
  ASSUME Init, NEW k \in Calls
  PROVE  H(k)!Init
<1>1. /\ loader = "out" /\ failed = {} /\ gen = 0 /\ registered = FALSE /\ monks_state = 0
      /\ state[k] = 1 /\ sct[k] = Real(k) /\ text = <<>> /\ real_patched = {}
  BY DEF Init, ControlsInit
<1>2. LoaderOf(k) = "out"
  BY <1>1 DEF LoaderOf
<1>3. sct[k].g = 0
  BY <1>1 DEF Real, At
<1>4. DOMAIN text = {}
  BY <1>1
<1>5. StubOf(k) = [g \in Loads |-> "none"] /\ RfsOf(k) = [g \in Loads |-> 0]
  BY <1>4, SeenOf
<1>6. (k \in real_patched) = FALSE
  BY <1>1
<1> QED  BY <1>1, <1>2, <1>3, <1>5, <1>6 DEF H!Init, H!Loads, H!Real, Loads, StubOf, RfsOf

LEMMA LoaderOfIs ==
  ASSUME NEW k
  PROVE  /\ LoaderOf(k) = IF loader = "init" THEN "hook"
                          ELSE IF loader \in {"hooking", "hook_oops"}
                               THEN IF iter > k THEN "register" ELSE "hook"
                          ELSE IF loader \in {"unhooking", "unhook_oops"}
                               THEN IF iter > k THEN "halt" ELSE "unhook"
                          ELSE loader
         /\ LoaderOf(k)' = IF loader' = "init" THEN "hook"
                           ELSE IF loader' \in {"hooking", "hook_oops"}
                                THEN IF iter' > k THEN "register" ELSE "hook"
                           ELSE IF loader' \in {"unhooking", "unhook_oops"}
                                THEN IF iter' > k THEN "halt" ELSE "unhook"
                           ELSE loader'
  BY DEF LoaderOf

(* A step that leaves the stubs and tables alone leaves them alone for k.  *)
LEMMA TablesStay ==
  ASSUME UNCHANGED <<sct, text, real_patched>>, NEW k
  PROVE  UNCHANGED H(k)!tableVars
<1>1. StubOf(k)' = StubOf(k) /\ RfsOf(k)' = RfsOf(k)
  BY SeenStays
<1> QED  BY <1>1 DEF H!tableVars, StubOf, RfsOf

LEMMA CallLoad ==
  ASSUME ControlsOK, LoaderOK, FilesInv, load, NEW k \in Calls
  PROVE  H(k)!Insmod
<1>1. /\ loader = "out" /\ loader' = "init" /\ gen < MaxLoads /\ gen' = gen + 1
      /\ monks_state' = 0 /\ state' = [c \in Calls |-> 1] /\ registered' = FALSE
      /\ failed' = failed /\ UNCHANGED <<sct, text, real_patched>>
  BY DEF load, ControlsLoaded
<1>2. LoaderOf(k) = "out" /\ LoaderOf(k)' = "hook"
  BY <1>1, LoaderOfIs
<1>3. registered' = registered
  BY <1>1 DEF ControlsOK, FilesInv
<1>4. UNCHANGED H(k)!tableVars
  BY <1>1, TablesStay
<1>5. state'[k] = 1
  BY <1>1
<1>6. \E g \in 1 .. gen + 1 :
        [h \in Loads |-> h] = [[h \in Loads |-> h] EXCEPT ![gen + 1] = [h \in Loads |-> h][g]]
  <2>1. gen \in Nat /\ gen + 1 \in Loads
    BY <1>1, LoadsAre DEF LoaderOK
  <2>2. gen + 1 \in 1 .. gen + 1
    BY <2>1
  <2>3. [h \in Loads |-> h] =
          [[h \in Loads |-> h] EXCEPT ![gen + 1] = [h \in Loads |-> h][gen + 1]]
    BY <2>1
  <2> QED  BY <2>2, <2>3
<1> QED  BY <1>1, <1>2, <1>3, <1>4, <1>5, <1>6 DEF H!Insmod, H!threadVars

LEMMA CallGetSct ==
  ASSUME get_sct, NEW k \in Calls
  PROVE  H(k)!HookCalls \/ H(k)!UnhookCalls \/ UNCHANGED H(k)!vars
<1> USE CallsAre
<1>1. /\ loader \in {"hook", "unhook"} /\ iter' = 1
      /\ \/ /\ failed' = failed \cup {loader}
            /\ loader' = IF loader = "hook" THEN "register" ELSE "halt"
         \/ /\ loader' \in IF loader = "hook" THEN {"hooking", "hook_oops"}
                           ELSE {"unhooking", "unhook_oops"}
            /\ failed' = failed
  BY DEF get_sct, GiveUp
<1>2. UNCHANGED <<gen, registered, monks_state, state, sct, text, real_patched>>
  BY DEF get_sct, stateVars, controlVars
<1>3. UNCHANGED H(k)!tableVars
  BY <1>2, TablesStay
<1>4. ~ (iter' > k)
  BY <1>1
<1>5. CASE loader = "hook" /\ loader' = "register"
  <2>1. LoaderOf(k) = "hook" /\ LoaderOf(k)' = "register" /\ failed' = failed \cup {"hook"}
    BY <1>1, <1>5, LoaderOfIs
  <2> QED  BY <1>2, <1>3, <2>1 DEF H!HookCalls, H!stateVars, H!threadVars, H!tableVars
<1>6. CASE loader = "unhook" /\ loader' = "halt"
  <2>1. LoaderOf(k) = "unhook" /\ LoaderOf(k)' = "halt" /\ failed' = failed \cup {"unhook"}
    BY <1>1, <1>6, LoaderOfIs
  <2> QED  BY <1>2, <1>3, <2>1 DEF H!UnhookCalls, H!stateVars, H!threadVars, H!tableVars
<1>7. CASE loader' \in IF loader = "hook" THEN {"hooking", "hook_oops"}
                      ELSE {"unhooking", "unhook_oops"}
  <2>1. LoaderOf(k)' = LoaderOf(k) /\ failed' = failed
    BY <1>1, <1>4, <1>7, LoaderOfIs
  <2> QED  BY <1>2, <1>3, <2>1 DEF H!vars, H!moduleVars, H!stateVars, H!threadVars
<1> QED  BY <1>1, <1>5, <1>6, <1>7

LEMMA CallHook ==
  ASSUME LoaderOK, SctOK, TextInv, SctInv, HookCall, NEW k \in Calls
  PROVE  H(k)!HookCalls \/ UNCHANGED H(k)!vars
<1> USE CallsAre
<1>1. /\ loader = "hooking" /\ iter' = iter + 1 /\ gen' = gen /\ iter \in Calls
      /\ loader' = IF iter = Len(Archs) THEN "register" ELSE "hooking"
  BY HookText
<1>2. UNCHANGED <<gen, failed, registered, monks_state, state, real_patched>>
  BY DEF HookCall, stateVars, add_syscalls_state_table_entry
<1>3. CASE k = iter
  <2>1. LoaderOf(k) = "hook" /\ LoaderOf(k)' = "register"
    BY <1>1, <1>3, LoaderOfIs
  <2>2. /\ StubOf(k)' = [StubOf(k) EXCEPT ![gen] = "armed"]
        /\ RfsOf(k)' = [RfsOf(k) EXCEPT ![gen] = sct[k].g]
        /\ sct'[k].g = gen
    BY <1>3, SeenHook
  <2> QED  BY <1>2, <2>1, <2>2 DEF H!HookCalls, H!stateVars, H!threadVars, StubOf, RfsOf
<1>4. CASE k # iter
  <2>1. LoaderOf(k)' = LoaderOf(k)
    BY <1>1, <1>4, LoaderOfIs
  <2>2. StubOf(k)' = StubOf(k) /\ RfsOf(k)' = RfsOf(k) /\ sct'[k] = sct[k]
    BY <1>4, SeenHook
  <2> QED
    BY <1>2, <2>1, <2>2 DEF H!vars, H!moduleVars, H!stateVars, H!tableVars, H!threadVars, StubOf,
                            RfsOf
<1> QED  BY <1>3, <1>4

LEMMA CallRegister ==
  ASSUME ControlsOK, FilesInv, Register, NEW k \in Calls
  PROVE  H(k)!RegisterControls
<1>1. /\ loader = "register" /\ loader' = IF registered' THEN "live" ELSE "out"
      /\ failed' = IF registered' THEN failed ELSE failed \cup {"register"}
      /\ registered' \in BOOLEAN
      /\ UNCHANGED <<gen, monks_state, state, sct, text, real_patched>>
  BY DEF Register, sctVars, stateVars, register_monks_controls
<1>2. registered = FALSE
  BY <1>1 DEF FilesInv, ControlsOK
<1>3. LoaderOf(k) = "register" /\ LoaderOf(k)' = loader'
  BY <1>1, LoaderOfIs
<1>4. UNCHANGED H(k)!tableVars
  BY <1>1, TablesStay
<1> QED  BY <1>1, <1>2, <1>3, <1>4 DEF H!RegisterControls, H!stateVars, H!threadVars

LEMMA CallUnload ==
  ASSUME NEW k \in Calls
  PROVE  /\ unload => H(k)!HookExit
         /\ ControlsOK /\ Unregister => H(k)!UnregisterControls
         /\ Exit => H(k)!Unload
<1>1. ASSUME unload PROVE H(k)!HookExit
  <2>1. /\ loader = "live" /\ loader' = "unregister" /\ monks_state' = 0
        /\ UNCHANGED <<gen, failed, state, sct, text, real_patched, registered>>
    BY <1>1 DEF unload, sctVars, controlVars
  <2>2. LoaderOf(k) = "live" /\ LoaderOf(k)' = "unregister" /\ UNCHANGED H(k)!tableVars
    BY <2>1, LoaderOfIs, TablesStay
  <2> QED  BY <2>1, <2>2 DEF H!HookExit, H!threadVars
<1>2. ASSUME Unregister PROVE H(k)!UnregisterControls
  <2>1. /\ loader = "unregister" /\ loader' = "unhook" /\ registered' = FALSE
        /\ UNCHANGED <<gen, failed, monks_state, state, sct, text, real_patched>>
    BY <1>2 DEF Unregister, unregister_monks_controls, sctVars, stateVars
  <2>2. LoaderOf(k) = "unregister" /\ LoaderOf(k)' = "unhook" /\ UNCHANGED H(k)!tableVars
    BY <2>1, LoaderOfIs, TablesStay
  <2> QED  BY <2>1, <2>2 DEF H!UnregisterControls, H!stateVars, H!threadVars
<1>3. ASSUME Exit PROVE H(k)!Unload
  <2>1. /\ loader = "halt" /\ loader' = "out"
        /\ UNCHANGED <<gen, failed, monks_state, state, sct, text, real_patched, registered>>
    BY <1>3 DEF Exit, sctVars, stateVars, controlVars
  <2>2. LoaderOf(k) = "halt" /\ LoaderOf(k)' = "out" /\ UNCHANGED H(k)!tableVars
    BY <2>1, LoaderOfIs, TablesStay
  <2> QED  BY <2>1, <2>2 DEF H!Unload, H!stateVars, H!threadVars
<1> QED  BY <1>1, <1>2, <1>3

LEMMA CallUnhook ==
  ASSUME LoaderOK, SctOK, TextInv, SctInv, UnhookCall, NEW k \in Calls
  PROVE  H(k)!UnhookCalls \/ UNCHANGED H(k)!vars
<1> USE CallsAre
<1>1. /\ loader = "unhooking" /\ iter' = iter + 1 /\ gen' = gen /\ iter \in Calls
      /\ loader' = IF iter = Len(Archs) THEN "halt" ELSE "unhooking"
  BY UnhookText
<1>2. UNCHANGED <<gen, failed, registered, monks_state, state>>
  BY DEF UnhookCall, stateVars, controlVars
<1>3. /\ RfsOf(k)' = RfsOf(k) /\ sct'[k] = sct[k]
      /\ IF k = iter /\ sct[k].g # 0
         THEN StubOf(k)' = [StubOf(k) EXCEPT ![sct[k].g] = "cut"]
         ELSE StubOf(k)' = StubOf(k)
      /\ k \in real_patched' <=> k \in real_patched \/ (k = iter /\ sct[k].g = 0)
  BY SeenUnhook
<1>4. CASE k = iter
  <2>1. LoaderOf(k) = "unhook" /\ LoaderOf(k)' = "halt"
    BY <1>1, <1>4, LoaderOfIs
  <2>2. H(k)!DestroyStub(sct[k].g)
    BY <1>3, <1>4 DEF H!DestroyStub, H!Real, StubOf
  <2> QED  BY <1>2, <1>3, <2>1, <2>2 DEF H!UnhookCalls, H!stateVars, H!threadVars, RfsOf
<1>5. CASE k # iter
  <2>1. LoaderOf(k)' = LoaderOf(k)
    BY <1>1, <1>5, LoaderOfIs
  <2>2. StubOf(k)' = StubOf(k) /\ (k \in real_patched' <=> k \in real_patched)
    BY <1>3, <1>5
  <2> QED
    BY <1>2, <1>3, <2>1, <2>2
    DEF H!vars, H!moduleVars, H!stateVars, H!tableVars, H!threadVars, StubOf, RfsOf
<1> QED  BY <1>4, <1>5

LEMMA CallSwitch ==
  ASSUME SwitchOK, Switch, NEW k \in Calls
  PROVE  H(k)!Sysctl \/ UNCHANGED H(k)!vars
<1>1. UNCHANGED <<loader, iter, gen, failed, sct, text, real_patched, registered>>
  BY DEF Switch, WriteState, StartOrStop, Fclose, sctVars, controlVars
<1>2. LoaderOf(k)' = LoaderOf(k) /\ UNCHANGED H(k)!tableVars
  BY <1>1, LoaderOfIs, TablesStay
<1>3. /\ monks_state \in 0 .. 1 /\ state[k] \in 0 .. 1
      /\ \/ UNCHANGED <<monks_state, state>>
         \/ registered /\ monks_state' \in 0 .. 1 /\ state' = state
         \/ registered /\ monks_state' = monks_state /\ state'[k] \in 0 .. 1
  <2>1. ASSUME WriteState PROVE registered /\ monks_state' = monks_state /\ state'[k] \in 0 .. 1
    BY <2>1 DEF WriteState, SwitchOK
  <2> QED  BY <2>1 DEF Switch, StartOrStop, Fclose, SwitchOK, stateVars
<1>4. \/ monks_state' = monks_state /\ state'[k] = state[k]
      \/ registered /\ monks_state' = 1 - monks_state /\ state'[k] = state[k]
      \/ registered /\ monks_state' = monks_state /\ state'[k] = 1 - state[k]
  BY <1>3
<1> QED
  BY <1>1, <1>2, <1>4 DEF H!Sysctl, H!vars, H!moduleVars, H!stateVars, H!threadVars

LEMMA CallStep ==
  ASSUME HookingInv, [Next]_vars, NEW k \in Calls
  PROVE  [H(k)!Next]_(H(k)!vars)
<1>1. ControlsOK /\ LoaderOK /\ SctOK /\ SwitchOK /\ TextInv /\ SctInv /\ FilesInv
  BY DEF HookingInv, TypeInv, TypeOK, ControlsOK, LoaderOK, SctOK, SwitchOK
<1>2. CASE SetNetlinkId \/ HookCallNoMemory \/ UNCHANGED vars
  <2>1. /\ UNCHANGED <<iter, gen, failed, sct, text, real_patched, registered, monks_state, state>>
        /\ \/ loader = "init" /\ loader' = "hook"
           \/ loader = "hooking" /\ loader' = "hook_oops"
           \/ loader' = loader
    BY <1>2 DEF SetNetlinkId, set_monks_control_netlink_id, HookCallNoMemory, vars, sctVars,
                stateVars, controlVars
  <2>2. LoaderOf(k)' = LoaderOf(k) /\ UNCHANGED H(k)!tableVars
    BY <2>1, LoaderOfIs, TablesStay
  <2> QED  BY <2>1, <2>2 DEF H!vars, H!moduleVars, H!stateVars, H!threadVars
<1>3. CASE load
  BY <1>1, <1>3, CallLoad DEF H!Next, H!Loader
<1>4. CASE get_sct
  BY <1>4, CallGetSct DEF H!Next, H!Loader
<1>5. CASE HookCall
  BY <1>1, <1>5, CallHook DEF H!Next, H!Loader
<1>6. CASE Register
  BY <1>1, <1>6, CallRegister DEF H!Next, H!Loader
<1>7. CASE unload \/ Unregister \/ Exit
  BY <1>1, <1>7, CallUnload DEF H!Next, H!Loader
<1>8. CASE UnhookCall
  BY <1>1, <1>8, CallUnhook DEF H!Next, H!Loader
<1>9. CASE Switch
  BY <1>1, <1>9, CallSwitch DEF H!Next
<1> QED
  BY <1>2, <1>3, <1>4, <1>5, <1>6, <1>7, <1>8, <1>9 DEF Next, Switch

(* The loader of main.c, with its loops over the calls, the bytes of the   *)
(* stubs and the tables of control.c, is for each call the loader that     *)
(* module SctHook has, whatever addresses and code there are.              *)
THEOREM ImplementsCorrect == Spec => Implements
<1>1. Init => \A k \in Calls : H(k)!Init
  BY CallInit
<1>2. HookingInv /\ [Next]_vars => [\A k \in Calls : [H(k)!Next]_(H(k)!vars)]_vars
  BY CallStep
<1> QED  BY HookingInvariant, <1>1, <1>2, PTL DEF Spec, Implements

-----------------------------------------------------------------------------
(* What is proved of module SctHook holds here, of any one call.           *)

CONSTANT call

One == INSTANCE SctHookProofs WITH
  Threads <- {}, base <- [g \in Loads |-> g], loader <- LoaderOf(call),
  controls <- registered, state <- state[call],
  table <- sct[call].g, real_patched <- call \in real_patched,
  stub <- [g \in Loads |-> IF ~Made(call, g) THEN "none"
                           ELSE IF IsCut(call, g) THEN "cut" ELSE "armed"],
  rf <- [g \in Loads |-> RfOf(call, g)],
  cur <- <<>>, callers <- <<>>, runs <- <<>>, events <- <<>>

LEMMA OneNext ==
  ASSUME [H(call)!Next]_(H(call)!vars)
  PROVE  [One!Next]_(One!vars)
<1> USE DEF H!moduleVars, H!stateVars, H!tableVars, H!threadVars, H!Real,
            One!moduleVars, One!stateVars, One!tableVars, One!threadVars, One!Real
<1>1. H(call)!Insmod => One!Insmod
  BY DEF H!Insmod, One!Insmod
<1>2. H(call)!HookCalls => One!HookCalls
  BY DEF H!HookCalls, One!HookCalls
<1>3. H(call)!RegisterControls => One!RegisterControls
  BY DEF H!RegisterControls, One!RegisterControls
<1>4. H(call)!HookExit => One!HookExit
  BY DEF H!HookExit, One!HookExit
<1>5. H(call)!UnregisterControls => One!UnregisterControls
  BY DEF H!UnregisterControls, One!UnregisterControls
<1>6. H(call)!UnhookCalls => One!UnhookCalls
  BY DEF H!UnhookCalls, One!UnhookCalls, H!DestroyStub, One!DestroyStub
<1>7. H(call)!Unload => One!Unload
  BY DEF H!Unload, One!Unload
<1>8. H(call)!Sysctl => One!Sysctl
  BY DEF H!Sysctl, One!Sysctl
<1>9. UNCHANGED H(call)!vars => UNCHANGED One!vars
  BY DEF H!vars, One!vars
<1> QED
  BY <1>1, <1>2, <1>3, <1>4, <1>5, <1>6, <1>7, <1>8, <1>9 DEF H!Next, H!Loader, One!Next, One!Loader

(* The refinement brings along what SctHookProofs shows of the loader.     *)
(* Through any loads of main.c, with any calls and their stubs as bytes:   *)
(* each stub was made before the one that calls it, the first calls the    *)
(* real function; no stub that is not cut belongs to a module that is      *)
(* gone, unless the files or unhook_calls failed; and destroy_stub never   *)
(* patches the kernel's function unless hook_calls failed.                 *)
THEOREM StubsCorrect ==
  ASSUME call \in Calls
  PROVE  Spec => [](One!ChainEnds /\ One!ArmedMapped /\ One!RealIntact)
<1>1. Init => One!Init
  <2>1. Init => H(call)!Init
    BY CallInit
  <2>2. H(call)!Init => One!Init
    BY DEF H!Init, One!Init, H!Loads, One!Loads, H!Real, One!Real, H!User, One!User
  <2> QED  BY <2>1, <2>2
<1>2. HookingInv /\ [Next]_vars => [One!Next]_(One!vars)
  BY CallStep, OneNext
<1>3. Spec => One!Spec
  BY HookingInvariant, <1>1, <1>2, PTL DEF Spec, One!Spec
<1>4. MaxLoads \in Nat
  BY HookingAssumption
<1>5. One!Spec => []One!ChainEnds
  BY <1>4, One!ChainEndsCorrect
<1>6. One!Spec => []One!ArmedMapped
  BY <1>4, One!ArmedMappedCorrect
<1>7. One!Spec => []One!RealIntact
  BY <1>4, One!RealIntactCorrect
<1> QED  BY <1>3, <1>5, <1>6, <1>7, PTL

=============================================================================
