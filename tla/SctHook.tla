------------------------------ MODULE SctHook ------------------------------
(***************************************************************************)
(* The hijacking of one system call (monks_kmodule/sct_hook.c, stubs.S,    *)
(* udis_utils.c) over repeated loading and unloading of the module, with   *)
(* threads making the call all the time.                                   *)
(*                                                                         *)
(* Each load makes a stub, vmalloc-ed memory that is never freed, and puts *)
(* it into the syscall table in front of whatever is there: stub g of load *)
(* number g calls rf[g].  Each unload patches the stub so that it skips    *)
(* the hooks.  The text of the hooks and the words the stub tests are in   *)
(* the module, and go with it.  The entries of both tables are treated     *)
(* alike under one stop_machine, so one entry shows all.                   *)
(***************************************************************************)
EXTENDS Naturals, Sequences

CONSTANTS
  Threads,
  MaxLoads    (* bound: how often the module is loaded                     *)

ASSUME SctHookAssumption == MaxLoads \in Nat

Loads == 1 .. MaxLoads
Real == 0                  \* the function the kernel came with

VARIABLES
  loader,       (* where hook_init or hook_exit is; "out": not loaded      *)
  failed,       (* history: the steps "hook" and "unhook" (get_sct or      *)
                (* map_writable fails) and "register" that ever failed     *)
  gen,          (* number of the last load                                 *)
  base,         (* where load g is put: the first load that was put there  *)
  controls,     (* the files under /proc/sys/monks exist                   *)
  monks_state,  (* of the last load                                        *)
  state,        (* iter->state of the last load                            *)
  table,        (* sct_map[iter->__NR_]: Real or a stub                    *)
  stub,         (* the text of stub g: not made, "armed", or "cut"         *)
  rf,           (* iter->rf, as patched into stub g                        *)
  real_patched, (* the text of the real function has been patched          *)
  cur,          (* what each thread executes: function, place, hook info   *)
  callers,      (* the stubs waiting for it to return, innermost first     *)
  runs,         (* how often its call has run the real function            *)
  events        (* how many events its call has posted                     *)

moduleVars == <<loader, failed, gen, base, controls>>
stateVars  == <<monks_state, state>>
tableVars  == <<table, stub, rf, real_patched>>
threadVars == <<cur, callers, runs, events>>

vars == <<moduleVars, stateVars, tableVars, threadVars>>

(* At the addresses in stub g there are text of the hooks, monks_state and *)
(* iter: its own module is loaded, or another one in the same place.       *)
Mapped(g) == loader # "out" /\ base[g] = base[gen]

User == [fn |-> Real, pc |-> "user", info |-> FALSE]

Init ==
  /\ loader = "out"
  /\ failed = {}
  /\ gen = 0
  /\ base = [g \in Loads |-> g]
  /\ controls = FALSE
  /\ monks_state = 0
  /\ state = 1
  /\ table = Real
  /\ stub = [g \in Loads |-> "none"]
  /\ rf = [g \in Loads |-> Real]
  /\ real_patched = FALSE
  /\ cur = [t \in Threads |-> User]
  /\ callers = [t \in Threads |-> <<>>]
  /\ runs = [t \in Threads |-> 0]
  /\ events = [t \in Threads |-> 0]

-----------------------------------------------------------------------------
(* Loading and unloading                                                   *)

(* The module is put where no module was before, or where one was.         *)
Insmod ==
  /\ loader = "out"
  /\ gen < MaxLoads
  /\ gen' = gen + 1
  /\ \E g \in 1 .. gen + 1 : base' = [base EXCEPT ![gen + 1] = base[g]]
  /\ loader' = "hook"
  /\ monks_state' = 0
  /\ state' = 1
  /\ UNCHANGED <<failed, controls, tableVars, threadVars>>

(* A slip: the stub is put into the table before rf is read from it. *)
HookCallsSelf ==
  /\ loader = "hook"
  /\ loader' = "register"
  /\ rf' = [rf EXCEPT ![gen] = gen]
  /\ stub' = [stub EXCEPT ![gen] = "armed"]
  /\ table' = gen
  /\ UNCHANGED <<failed, gen, base, controls, stateVars, real_patched, threadVars>>

(* A slip: create_stub returns iter->rf, as its last line had it once. *)
HookCallsKeepsTable ==
  /\ loader = "hook"
  /\ loader' = "register"
  /\ rf' = [rf EXCEPT ![gen] = table]
  /\ stub' = [stub EXCEPT ![gen] = "armed"]
  /\ UNCHANGED <<failed, gen, base, controls, stateVars, table, real_patched,
                 threadVars>>

(* do_hook_calls, under stop_machine.                                      *)
HookCalls ==
  /\ loader = "hook"
  /\ loader' = "register"
  /\ \/ /\ rf' = [rf EXCEPT ![gen] = table]
        /\ stub' = [stub EXCEPT ![gen] = "armed"]
        /\ table' = gen
        /\ UNCHANGED failed
     \/ /\ failed' = failed \cup {"hook"}
        /\ UNCHANGED <<table, stub, rf>>
  /\ UNCHANGED <<gen, base, controls, stateVars, real_patched, threadVars>>

(* When it fails insmod fails, the module is freed and the stub stays.     *)
RegisterControls ==
  /\ loader = "register"
  /\ \/ /\ loader' = "live"
        /\ controls' = TRUE
        /\ UNCHANGED failed
     \/ /\ loader' = "out"
        /\ failed' = failed \cup {"register"}
        /\ UNCHANGED controls
  /\ UNCHANGED <<gen, base, stateVars, tableVars, threadVars>>

HookExit ==
  /\ loader = "live"
  /\ loader' = "unregister"
  /\ monks_state' = 0
  /\ UNCHANGED <<failed, gen, base, controls, state, tableVars, threadVars>>

UnregisterControls ==
  /\ loader = "unregister"
  /\ loader' = "unhook"
  /\ controls' = FALSE
  /\ UNCHANGED <<failed, gen, base, stateVars, tableVars, threadVars>>

(* A slip: destroy_stub returns the stub and patches nothing. *)
DestroyStubUnpatched(f) == UNCHANGED <<stub, real_patched>>

(* destroy_stub: ud_patch_cmp turns every jne of the function into a jmp   *)
(* over the call of a hook.  Done twice it changes nothing.  The entry in  *)
(* the table is what it was.                                               *)
DestroyStub(f) ==
  IF f = Real
  THEN real_patched' = TRUE /\ UNCHANGED stub
  ELSE stub' = [stub EXCEPT ![f] = "cut"] /\ UNCHANGED real_patched

UnhookCalls ==
  /\ loader = "unhook"
  /\ loader' = "halt"
  /\ \/ DestroyStub(table) /\ UNCHANGED failed
     \/ failed' = failed \cup {"unhook"} /\ UNCHANGED <<stub, real_patched>>
  /\ UNCHANGED <<gen, base, controls, stateVars, table, rf, threadVars>>

(* hook_exit returns and the module is freed, whoever is in it.            *)
Unload ==
  /\ loader = "halt"
  /\ loader' = "out"
  /\ UNCHANGED <<failed, gen, base, controls, stateVars, tableVars, threadVars>>

Loader ==
  \/ Insmod \/ HookCalls \/ RegisterControls
  \/ HookExit \/ UnregisterControls \/ UnhookCalls \/ Unload

(* A slip: proc_dointvec where proc_dointvec_minmax is meant. *)
SysctlUnlimited ==
  /\ controls
  /\ monks_state' \in {0, 1, 2}
  /\ UNCHANGED <<moduleVars, state, tableVars, threadVars>>

(* /proc/sys/monks/state and /proc/sys/monks/syscalls/<name>               *)
Sysctl ==
  /\ controls
  /\ \/ monks_state' = 1 - monks_state /\ UNCHANGED state
     \/ state' = 1 - state /\ UNCHANGED monks_state
  /\ UNCHANGED <<moduleVars, tableVars, threadVars>>

-----------------------------------------------------------------------------
(* A thread making the call                                                *)

At(t, pc) == cur[t].pc = pc

Goto(t, pc) == cur' = [cur EXCEPT ![t].pc = pc]

Armed(t) == stub[cur[t].fn] = "armed"

(* The function a thread jumps to: the real one, or the start of a stub.   *)
Entry(f) == [fn |-> f, pc |-> IF f = Real THEN "run" ELSE "state1", info |-> FALSE]

Enter(t) ==
  /\ At(t, "user")
  /\ cur' = [cur EXCEPT ![t] = Entry(table)]
  /\ runs' = [runs EXCEPT ![t] = 0]
  /\ events' = [events EXCEPT ![t] = 0]
  /\ UNCHANGED <<moduleVars, stateVars, tableVars, callers>>

(* The two tests before each hook: place, word tested, where to go on.     *)
Tests(state_pc, iter_pc, hook_pc, skip_pc) ==
  {<<state_pc, monks_state, iter_pc, skip_pc>>, <<iter_pc, state, hook_pc, skip_pc>>}

(* A slip: the patched jmp loses its displacement and jumps to itself. *)
TestStays(t) ==
  \E test \in Tests("state1", "iter1", "pre", "call")
              \cup Tests("state2", "iter2", "post", "ret") :
    /\ At(t, test[1])
    /\ Armed(t) => Mapped(cur[t].fn)
    /\ Goto(t, IF ~Armed(t) THEN test[1] ELSE IF test[2] = 1 THEN test[3] ELSE test[4])
    /\ UNCHANGED <<moduleVars, stateVars, tableVars, callers, runs, events>>

(* mov, cmp and jne; nops and a jmp once the stub is cut.                  *)
Test(t) ==
  \E test \in Tests("state1", "iter1", "pre", "call")
              \cup Tests("state2", "iter2", "post", "ret") :
    /\ At(t, test[1])
    /\ Armed(t) => Mapped(cur[t].fn)
    /\ Goto(t, IF Armed(t) /\ test[2] = 1 THEN test[3] ELSE test[4])
    /\ UNCHANGED <<moduleVars, stateVars, tableVars, callers, runs, events>>

(* The pre-hook notes the call in a node and leaves it in the stub's frame *)
(* (__SET_SYSCALL_HOOK_INFO), unless there is no memory.                   *)
PreHook(t) ==
  /\ At(t, "pre")
  /\ Mapped(cur[t].fn)
  /\ \E info \in BOOLEAN :
       cur' = [cur EXCEPT ![t].pc = "call", ![t].info = info]
  /\ UNCHANGED <<moduleVars, stateVars, tableVars, callers, runs, events>>

Call(t) ==
  /\ At(t, "call")
  /\ cur' = [cur EXCEPT ![t] = Entry(rf[cur[t].fn])]
  /\ callers' = [callers EXCEPT ![t] =
                   <<[fn |-> cur[t].fn, info |-> cur[t].info]>> \o @]
  /\ UNCHANGED <<moduleVars, stateVars, tableVars, runs, events>>

(* The real function runs; what a patched one does nobody knows.           *)
RunReal(t) ==
  /\ At(t, "run")
  /\ ~real_patched
  /\ runs' = [runs EXCEPT ![t] = @ + 1]
  /\ Goto(t, "ret")
  /\ UNCHANGED <<moduleVars, stateVars, tableVars, callers, events>>

(* The post-hook reports the call and frees the node, if there is one.     *)
PostHook(t) ==
  /\ At(t, "post")
  /\ Mapped(cur[t].fn)
  /\ events' = IF cur[t].info THEN [events EXCEPT ![t] = @ + 1] ELSE events
  /\ cur' = [cur EXCEPT ![t].pc = "ret", ![t].info = FALSE]
  /\ UNCHANGED <<moduleVars, stateVars, tableVars, callers, runs>>

(* A slip: the stub called returns in front of the call, not behind it. *)
ReturnBeforeCall(t) ==
  /\ At(t, "ret")
  /\ IF callers[t] = <<>>
     THEN cur' = [cur EXCEPT ![t] = User] /\ UNCHANGED callers
     ELSE /\ cur' = [cur EXCEPT ![t] = Entry(Head(callers[t]).fn)]
          /\ callers' = [callers EXCEPT ![t] = Tail(@)]
  /\ UNCHANGED <<moduleVars, stateVars, tableVars, runs, events>>

Return(t) ==
  /\ At(t, "ret")
  /\ IF callers[t] = <<>>
     THEN /\ cur' = [cur EXCEPT ![t] = User]
          /\ UNCHANGED callers
     ELSE /\ cur' = [cur EXCEPT ![t] = [fn   |-> Head(callers[t]).fn,
                                        pc   |-> "state2",
                                        info |-> Head(callers[t]).info]]
          /\ callers' = [callers EXCEPT ![t] = Tail(@)]
  /\ UNCHANGED <<moduleVars, stateVars, tableVars, runs, events>>

(* Touching module memory that was freed, or running patched kernel code.  *)
Oops(t) ==
  /\ \/ /\ \E pc \in {"state1", "iter1", "state2", "iter2"} : At(t, pc)
        /\ Armed(t)
        /\ ~Mapped(cur[t].fn)
     \/ /\ \E pc \in {"pre", "post"} : At(t, pc)
        /\ ~Mapped(cur[t].fn)
     \/ At(t, "run") /\ real_patched
  /\ Goto(t, "oops")
  /\ UNCHANGED <<moduleVars, stateVars, tableVars, callers, runs, events>>

InKernel(t) ==
  \/ Test(t) \/ PreHook(t) \/ Call(t) \/ PostHook(t) \/ Return(t) \/ Oops(t)

Next ==
  \/ Loader
  \/ Sysctl
  \/ \E t \in Threads : Enter(t) \/ RunReal(t) \/ InKernel(t)

Spec == Init /\ [][Next]_vars

(* A thread in a stub or in a hook gets the processor.  The real function  *)
(* may block for ever, as a read may.                                      *)
FairSpec == Spec /\ \A t \in Threads : WF_vars(InKernel(t))

-----------------------------------------------------------------------------
Places == {"user", "state1", "iter1", "pre", "call", "run", "state2", "iter2",
           "post", "ret", "oops"}

(* What a thread is in, and what waits for it to return.                   *)
Frame  == [fn : Loads \cup {Real}, pc : Places, info : BOOLEAN]
Caller == [fn : Loads, info : BOOLEAN]

TablesOK ==
  /\ loader \in {"out", "hook", "register", "live", "unregister", "unhook", "halt"}
  /\ failed \subseteq {"hook", "register", "unhook"}
  /\ gen \in 0 .. MaxLoads
  /\ base \in [Loads -> Loads]
  /\ controls \in BOOLEAN
  /\ monks_state \in {0, 1}
  /\ state \in {0, 1}
  /\ table \in Loads \cup {Real}
  /\ stub \in [Loads -> {"none", "armed", "cut"}]
  /\ rf \in [Loads -> Loads \cup {Real}]
  /\ real_patched \in BOOLEAN

ThreadsOK ==
  /\ cur \in [Threads -> Frame]
  /\ callers \in [Threads -> Seq(Caller)]
  /\ runs \in [Threads -> Nat]
  /\ events \in [Threads -> Nat]

TypeOK == TablesOK /\ ThreadsOK

(* Stubs pile up load after load, but never in a circle: the table leads   *)
(* to a stub that was made, and each stub to an older one or to the real   *)
(* function.  So every call gets to the real function.                     *)
ChainEnds ==
  /\ table # Real => stub[table] # "none"
  /\ \A g \in Loads : stub[g] # "none" =>
       /\ g <= gen
       /\ rf[g] < g
       /\ rf[g] # Real => stub[rf[g]] # "none"

(* Whatever is loaded, unloaded, toggled and patched meanwhile, a call     *)
(* runs the real function once and only then comes back.                   *)
Contract == INSTANCE Syscall WITH
  phase <- [t \in Threads |->
              IF cur[t].pc = "user" THEN "user"
              ELSE IF runs[t] = 0 THEN "asked"
              ELSE IF runs[t] = 1 THEN "done" ELSE "again"]

Implements == Contract!Spec

(* No armed stub was left behind by an insmod that failed or by an unload  *)
(* that could not unhook the calls.                                        *)
NoneLeftArmed == failed \cap {"register", "unhook"} = {}

(* No call is reported before the real function has run.  Nor is it twice, *)
(* though it may go through a stub of every load there was, and a new load *)
(* may be put where the module of an old stub was: unless such a stub was  *)
(* left armed, which tests and calls what is at its addresses now.         *)
EventsMatch ==
  \A t \in Threads :
    /\ events[t] # 0 => runs[t] = 1
    /\ NoneLeftArmed => events[t] <= 1

(* Unless insmod or unhook_calls has failed, a stub that still tests       *)
(* monks_state and calls hooks belongs to a module that is in memory.      *)
ArmedMapped ==
  NoneLeftArmed => \A g \in Loads : stub[g] = "armed" => Mapped(g)

(* Unless hook_calls has failed, unloading never patches a function of the *)
(* kernel, however insmod and rmmod fare otherwise.                        *)
RealIntact == "hook" \notin failed => ~real_patched

(* A thread gets from its stub into the real function, or back to the      *)
(* program, or dies in memory that is gone: it does not go in circles.     *)
CallProceeds ==
  \A t \in Threads : ~At(t, "user") ~> (At(t, "user") \/ At(t, "run") \/ At(t, "oops"))

-----------------------------------------------------------------------------
(* What comments and documentation promise and the code does not keep      *)

(* sct_hook.h:196: what the pre-hook saves on the stack is there "so we    *)
(* can recover it when we're in the post-hook".  A stub does not return    *)
(* with a node nobody has recovered.                                       *)
InfoRecovered == \A t \in Threads : At(t, "ret") => ~cur[t].info

(* sct_hook.c:122: "Destroy a stub will actually change the stub's opcode":*)
(* the stub's, no other function's.                                        *)
DestroysStubs == ~real_patched

=============================================================================
