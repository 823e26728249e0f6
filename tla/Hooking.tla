------------------------------ MODULE Hooking ------------------------------
(***************************************************************************)
(* Loading and unloading in full (main.c and sct_hook.c of the kernel      *)
(* module, with control.c and udis_utils.c, and the commands of monks/     *)
(* lkm.c that cause it): the tables are looked for in the kernel's code,   *)
(* a stub is made for each call out of the bytes of its template, and a    *)
(* file under /proc/sys/monks switches it.                                 *)
(*                                                                         *)
(* An address is a record: what is there, of which call and of which load. *)
(* Address gives its eight bytes.  What udis_utils.c does with bytes is in *)
(* module UdisUtils; here its functions are constants, and what the rest   *)
(* counts on them for is StubAssumption.                                   *)
(***************************************************************************)
EXTENDS Controls, StubText

CONSTANTS
  Archs,        (* the syscalls section: for each call "stub" or "stub_32" *)
  EntryCodes,   (* code at the entry of 64-bit system calls                *)
  IA32Code,     (* code at the entry of 32-bit system calls                *)
  Address(_),
  find_syscall_table_addr(_), get_stub(_), patch_addr(_, _), patch_cmp(_),
  MaxLoads      (* bound: how often the module is loaded                   *)

Calls == DOMAIN Archs
Loads == 1 .. MaxLoads

At(sym, k, g) == [sym |-> sym, k |-> k, g |-> g]

Monks_state(g) == At("monks_state", 0, g)
State(k, g)    == At("state", k, g)
Pre(k, g)      == At("pre", k, g)
Post(k, g)     == At("post", k, g)
Stub(k, g)     == At("stub", k, g)
Real(k)        == At("real", k, 0)
SysCallTable   == At("sys_call_table", 0, 0)
IA32Table      == At("ia32_sys_call_table", 0, 0)

Addresses ==
  {At(sym, k, g) : sym \in {"state", "pre", "post", "stub"}, k \in Calls, g \in Loads}
  \cup {Monks_state(g) : g \in Loads} \cup {Real(k) : k \in Calls}
  \cup {SysCallTable, IA32Table}

(* What is freed with the module, so that a later load may be put there    *)
OfModule == {"monks_state", "state", "pre", "post"}

(* Of one load every address is different.  A stub is never freed and has  *)
(* its address to itself whatever is loaded later.                         *)
ASSUME HookingAssumption ==
  /\ Archs \in Seq({"stub", "stub_32"}) /\ Archs # <<>>
  /\ MaxLoads \in Nat
  /\ \A a, b \in Addresses : Address(a) = Address(b) =>
       a = b \/ (a.g # b.g /\ {a.sym, b.sym} \subseteq OfModule)
  /\ \A a \in Addresses : Len(Address(a)) = 8 /\ Address(a) # Hole

-----------------------------------------------------------------------------
(* What the loader counts on udis_utils.c for                              *)

(* What the table of call k can hold: the real function or a stub          *)
Functions(k) == {Real(k)} \cup {Stub(k, g) : g \in Loads}

(* The stub that load g makes for call k when it finds fn in the table     *)
create_stub == [k \in Calls |-> [g \in Loads |-> [fn \in Functions(k) |->
  LET template == FlattenSeq(Template(Archs[k]))
      addrs == <<Monks_state(g), State(k, g), Pre(k, g), fn,
                 Monks_state(g), State(k, g), Post(k, g)>>
      patched[n \in 0 .. 7] == IF n = 0 THEN get_stub(template)
                               ELSE patch_addr(patched[n - 1], Address(addrs[n]))
  IN  patched[7]]]]

(* Where the holes of a stub are: the first byte of each                   *)
HolesOf == [arch \in {"stub", "stub_32"} |->
  LET template == FlattenSeq(Template(arch))
  IN  SetToSortSeq({i \in 1 .. Len(template) - 7 : SubSeq(template, i, i + 7) = Hole}, <)]

(* The first byte of each chunk, counted from 0                            *)
StartOf == [arch \in {"stub", "stub_32"} |->
  [n \in DOMAIN Template(arch) |-> Len(FlattenSeq(SubSeq(Template(arch), 1, n - 1)))]]

(* Hole n has a in it; so it has, and is in a mov to eax; there is a jne   *)
(* that is none any more.                                                  *)
Holds(arch, bytes, n, a) ==
  LET at == HolesOf[arch][n] IN SubSeq(bytes, at, at + 7) = Address(a)
Reads(arch, bytes, n, a) ==
  bytes[HolesOf[arch][n] - 1] = 161 /\ Holds(arch, bytes, n, a)
Jumps(arch, bytes) ==
  \E n \in DOMAIN Template(arch) :
    Template(arch)[n][1] = 117 /\ bytes[StartOf[arch][n] + 1] # 117

(* A stub as it is made tests iter->state in the second and the sixth hole *)
(* and calls what it found in the table, the fourth.  Cutting it jumps     *)
(* over the hooks and leaves that call alone; doing so twice makes no      *)
(* difference.                                                             *)
ASSUME StubAssumption ==
  \A k \in Calls, g \in Loads : \A fn \in Functions(k) :
    LET made == create_stub[k][g][fn]
        cut  == patch_cmp(made)
    IN  /\ \A n \in {2, 6} : Reads(Archs[k], made, n, State(k, g))
        /\ Holds(Archs[k], made, 4, fn) /\ Holds(Archs[k], cut, 4, fn)
        /\ ~Jumps(Archs[k], made) /\ Jumps(Archs[k], cut)
        /\ patch_cmp(cut) = cut

-----------------------------------------------------------------------------

VARIABLES
  entry,        (* the code at the entry of 64-bit system calls            *)
  loader,       (* where hook_init or hook_exit is; "out": not loaded,     *)
                (* Oops: through NULL, with every processor stopped        *)
  iter,         (* the call the loop over the syscalls section is at       *)
  gen,          (* number of the last load                                 *)
  failed,       (* history: "hook", "unhook", "register"                   *)
  sys_call_table, ia32_sys_call_table,
  sct,          (* for each call what its table holds                      *)
  rf,           (* iter->rf of each call                                   *)
  text,         (* the bytes of the stubs that were made                   *)
  real_patched, (* the calls whose real function has been patched          *)
  monks_state, state,
  file          (* the load whose file start or stop of lkm.c has open     *)

sctVars   == <<sys_call_table, ia32_sys_call_table, sct, rf, text, real_patched>>
stateVars == <<monks_state, state>>
vars == <<entry, loader, iter, gen, failed, sctVars, stateVars, file, controlVars>>

NoFile == 0
Oops   == {"hook_oops", "unhook_oops"}

Init ==
  /\ entry \in EntryCodes
  /\ loader = "out"
  /\ iter = 1
  /\ gen = 0
  /\ failed = {}
  /\ sys_call_table = <<>> /\ ia32_sys_call_table = <<>>
  /\ sct = [k \in Calls |-> Real(k)]
  /\ rf = [k \in Calls |-> Real(k)]
  /\ text = <<>>
  /\ real_patched = {}
  /\ monks_state = 0
  /\ state = [k \in Calls |-> 1]
  /\ file = NoFile
  /\ ControlsInit

-----------------------------------------------------------------------------
(* Loading                                                                 *)

(* load of lkm.c, or insmod                                                *)
load ==
  /\ loader = "out"
  /\ gen < MaxLoads
  /\ loader' = "init"
  /\ gen' = gen + 1
  /\ sys_call_table' = <<>> /\ ia32_sys_call_table' = <<>>
  /\ rf' = [k \in Calls |-> Real(k)]
  /\ monks_state' = 0
  /\ state' = [k \in Calls |-> 1]
  /\ ControlsLoaded
  /\ UNCHANGED <<entry, iter, failed, sct, text, real_patched, file>>

(* nl_init is in module Netlink.                                           *)
SetNetlinkId ==
  /\ loader = "init"
  /\ loader' = "hook"
  /\ set_monks_control_netlink_id
  /\ UNCHANGED <<entry, iter, gen, failed, sctVars, stateVars, file>>

(* hook_calls or unhook_calls returns without having done anything.        *)
GiveUp == /\ failed' = failed \cup {loader}
          /\ loader' = IF loader = "hook" THEN "register" ELSE "halt"

(* get_sct, and map_writable of both tables, which may find no memory      *)
get_sct ==
  /\ loader \in {"hook", "unhook"}
  /\ sys_call_table' = find_syscall_table_addr(entry)
  /\ ia32_sys_call_table' = IF sys_call_table' = <<>> THEN ia32_sys_call_table
                            ELSE find_syscall_table_addr(IA32Code)
  /\ \/ GiveUp
     \/ /\ sys_call_table' = Address(SysCallTable)
        /\ ia32_sys_call_table' = Address(IA32Table)
        /\ loader' = IF loader = "hook" THEN "hooking" ELSE "unhooking"
        /\ UNCHANGED failed
     \/ /\ sys_call_table' # <<>> /\ ia32_sys_call_table' # <<>>
        /\ <<sys_call_table', ia32_sys_call_table'>>
             # <<Address(SysCallTable), Address(IA32Table)>>
        /\ loader' = IF loader = "hook" THEN "hook_oops" ELSE "unhook_oops"
        \* it writes to what is no table
        /\ UNCHANGED failed
  /\ iter' = 1
  /\ UNCHANGED <<entry, gen, sct, rf, text, real_patched, stateVars, file, controlVars>>

(* The body of the loop of do_hook_calls                                   *)
HookCall ==
  /\ loader = "hooking"
  /\ add_syscalls_state_table_entry(iter, State(iter, gen))
  /\ rf' = [rf EXCEPT ![iter] = sct[iter]]
  /\ text' = Put(text, <<iter, gen>>, create_stub[iter][gen][sct[iter]])
  /\ sct' = [sct EXCEPT ![iter] = Stub(iter, gen)]
  /\ iter' = iter + 1
  /\ loader' = IF iter = Len(Archs) THEN "register" ELSE "hooking"
  /\ UNCHANGED <<entry, gen, failed, sys_call_table, ia32_sys_call_table, real_patched,
                 stateVars, file>>

(* Neither kcalloc, krealloc nor __vmalloc is checked there.               *)
HookCallNoMemory ==
  /\ loader = "hooking"
  /\ loader' = "hook_oops"
  /\ UNCHANGED <<entry, iter, gen, failed, sctVars, stateVars, file, controlVars>>

(* When it fails so does insmod, and the module is freed.                  *)
Register ==
  /\ loader = "register"
  /\ register_monks_controls
  /\ loader' = IF registered' THEN "live" ELSE "out"
  /\ failed' = IF registered' THEN failed ELSE failed \cup {"register"}
  /\ UNCHANGED <<entry, iter, gen, sctVars, stateVars, file>>

-----------------------------------------------------------------------------
(* Unloading                                                               *)

(* unload of lkm.c, or rmmod: hook_exit begins.                            *)
unload ==
  /\ loader = "live"
  /\ loader' = "unregister"
  /\ monks_state' = 0
  /\ UNCHANGED <<entry, iter, gen, failed, sctVars, state, file, controlVars>>

Unregister ==
  /\ loader = "unregister"
  /\ loader' = "unhook"
  /\ unregister_monks_controls
  /\ UNCHANGED <<entry, iter, gen, failed, sctVars, stateVars, file>>

(* ud_patch_cmp of what can be in memory: a stub as it was made, or cut    *)
CutOf(made) == [bytes \in made \cup {patch_cmp(b) : b \in made} |-> patch_cmp(bytes)]
Cut == CutOf({create_stub[k][g][Stub(k, h)] : k \in Calls, g \in Loads, h \in Loads}
             \cup {create_stub[k][g][Real(k)] : k \in Calls, g \in Loads})

destroy_stub(a) ==
  IF a.sym = "stub"
  THEN text' = [text EXCEPT ![<<a.k, a.g>>] = Cut[@]] /\ UNCHANGED real_patched
  ELSE real_patched' = real_patched \cup {a.k} /\ UNCHANGED text

(* A slip: iter->rf goes back into the table, as its comment has it.       *)
UnhookCallRestores ==
  /\ loader = "unhooking"
  /\ sct' = [sct EXCEPT ![iter] = rf[iter]]
  /\ iter' = iter + 1
  /\ loader' = IF iter = Len(Archs) THEN "halt" ELSE "unhooking"
  /\ UNCHANGED <<entry, gen, failed, sys_call_table, ia32_sys_call_table, rf, text, real_patched,
                 stateVars, file, controlVars>>

(* The body of the loop of do_unhook_calls                                 *)
UnhookCall ==
  /\ loader = "unhooking"
  /\ destroy_stub(sct[iter])
  /\ iter' = iter + 1
  /\ loader' = IF iter = Len(Archs) THEN "halt" ELSE "unhooking"
  /\ UNCHANGED <<entry, gen, failed, sys_call_table, ia32_sys_call_table, sct, rf, stateVars,
                 file, controlVars>>

(* The module is freed.                                                    *)
Exit ==
  /\ loader = "halt"
  /\ loader' = "out"
  /\ UNCHANGED <<entry, iter, gen, failed, sctVars, stateVars, file, controlVars>>

-----------------------------------------------------------------------------
(* Switching                                                               *)

(* A slip: the handler is proc_dointvec, without bounds.                   *)
WriteStateUnbounded ==
  /\ registered
  /\ \E f \in Files, v \in 0 .. 2 :
       /\ f.data.g = gen
       /\ state' = [state EXCEPT ![f.data.k] = v]
  /\ UNCHANGED <<entry, loader, iter, gen, failed, sctVars, monks_state, file, controlVars>>

(* A file of a call                                                        *)
WriteState ==
  /\ registered
  /\ \E f \in Files, v \in 0 .. 1 :
       /\ f.data.g = gen
       /\ state' = [state EXCEPT ![f.data.k] = v]
  /\ UNCHANGED <<entry, loader, iter, gen, failed, sctVars, monks_state, file, controlVars>>

(* start and stop of lkm.c open /proc/sys/monks/state; what they write,    *)
(* one or zero, is written at fclose, and whether that works is not looked *)
(* at.                                                                     *)
StartOrStop ==
  /\ file = NoFile
  /\ registered
  /\ file' = gen
  /\ UNCHANGED <<entry, loader, iter, gen, failed, sctVars, stateVars, controlVars>>

(* stop_machine leaves no processor to do it.                              *)
Fclose ==
  /\ file # NoFile
  /\ loader \notin {"hooking", "unhooking"} \cup Oops
  /\ file' = NoFile
  /\ IF registered /\ file = gen THEN monks_state' \in 0 .. 1 ELSE UNCHANGED monks_state
  /\ UNCHANGED <<entry, loader, iter, gen, failed, sctVars, state, controlVars>>

Next ==
  \/ load \/ SetNetlinkId \/ get_sct \/ HookCall \/ HookCallNoMemory \/ Register
  \/ unload \/ Unregister \/ UnhookCall \/ Exit
  \/ WriteState \/ StartOrStop \/ Fclose

Spec == Init /\ [][Next]_vars

-----------------------------------------------------------------------------
(* The types.  The files set a state to zero or one and to nothing else,   *)
(* and no load makes more entries than it has calls.                       *)
TypeOK ==
  /\ loader \in {"out", "init", "hook", "hooking", "register", "live", "unregister", "unhook",
                 "unhooking", "halt"} \cup Oops
  /\ iter \in 1 .. Len(Archs) + 1
  /\ gen \in 0 .. MaxLoads
  /\ failed \subseteq {"hook", "unhook", "register"}
  /\ \A k \in Calls : sct[k] \in Functions(k) /\ rf[k] \in Functions(k)
  /\ DOMAIN text \subseteq Calls \X Loads
  /\ real_patched \subseteq Calls
  /\ monks_state \in 0 .. 1 /\ state \in [Calls -> 0 .. 1]
  /\ file \in {NoFile} \cup Loads
  /\ DOMAIN kmem \subseteq Blocks
  /\ nsyscalls_state_table \in 0 .. Len(Archs) + 1
  /\ {syscalls_state_table, child} \subseteq Blocks \cup {NULL, ZERO_SIZE_PTR}
  /\ netlink \in BOOLEAN /\ registered \in BOOLEAN

-----------------------------------------------------------------------------
(* Files and stubs                                                         *)

Made(k, g)  == <<k, g>> \in DOMAIN text
IsCut(k, g) == Made(k, g) /\ Jumps(Archs[k], text[<<k, g>>])

(* As long as the files are there their table is, with a zero entry at its *)
(* end, and if the module has hooked the calls each has one file: what is  *)
(* written to it is the word that the stub of that call tests, both times. *)
FilesSwitch ==
  registered =>
    /\ child = NULL <=> <<1, gen>> \notin DOMAIN text
    /\ child # NULL =>
         /\ child \in DOMAIN kmem
         /\ \E n \in DOMAIN kmem[child] : kmem[child][n] = ZeroEntry
         /\ {f.procname : f \in Files} = Calls /\ Cardinality(Files) = Len(Archs)
         /\ \A f \in Files, n \in {2, 6} :
              LET k == f.procname IN
              Made(k, gen) /\ Reads(Archs[k], text[<<k, gen>>], n, f.data)

-----------------------------------------------------------------------------
(* Seen from one call all this is the loader of module SctHook.            *)

LoaderOf(k) ==
  CASE loader = "init" -> "hook"
    [] loader \in {"hooking", "hook_oops"} -> IF iter > k THEN "register" ELSE "hook"
    [] loader \in {"unhooking", "unhook_oops"} -> IF iter > k THEN "halt" ELSE "unhook"
    [] OTHER -> loader

RfOf(k, g) ==
  LET earlier == {h \in 1 .. g - 1 :
                    Made(k, g) /\ Holds(Archs[k], text[<<k, g>>], 4, Stub(k, h))}
  IN  IF earlier = {} THEN 0 ELSE CHOOSE h \in earlier : TRUE

(* No step here depends on where an earlier load was put, so each load is  *)
(* taken to be in a place of its own: a stub that is armed is then one of  *)
(* the load itself and not of another at the same address.                 *)
H(k) == INSTANCE SctHook WITH
  Threads <- {}, base <- [g \in Loads |-> g], loader <- LoaderOf(k),
  controls <- registered, state <- state[k],
  table <- sct[k].g, real_patched <- k \in real_patched,
  stub <- [g \in Loads |-> IF ~Made(k, g) THEN "none" ELSE IF IsCut(k, g) THEN "cut" ELSE "armed"],
  rf <- [g \in Loads |-> RfOf(k, g)],
  cur <- <<>>, callers <- <<>>, runs <- <<>>, events <- <<>>

(* For each call: loading hooks it or not, unloading cuts the stub that is *)
(* in the table then, a stub calls what it found there, and only the files *)
(* switch it, one value or the other.                                      *)
Implements ==
  /\ \A k \in Calls : H(k)!Init
  /\ [][\A k \in Calls : [H(k)!Next]_(H(k)!vars)]_vars

=============================================================================
