--------------------------- MODULE SctHookProofs ---------------------------
(***************************************************************************)
(* Proofs about SctHook, for any number of loads and any threads.  The     *)
(* tables and the threads are written by different actions, so what holds  *)
(* of the ones and of the others is kept apart all through.                *)
(***************************************************************************)
EXTENDS SctHook, TLAPS

USE SctHookAssumption
USE DEF moduleVars, stateVars, tableVars, threadVars, Real, Loads

ThreadAct(t) == Enter(t) \/ RunReal(t) \/ InKernel(t)

-----------------------------------------------------------------------------
(* Types of the tables                                                     *)

(* A load has a number before it is anywhere.                              *)
TablesInv == TablesOK /\ (loader # "out" => gen # 0)

LEMMA TablesInit == Init => TablesInv
<1> SUFFICES ASSUME Init PROVE TablesInv
  OBVIOUS
<1>1. controls \in BOOLEAN /\ real_patched \in BOOLEAN
  BY DEF Init
<1> QED  BY <1>1 DEF Init, TablesInv, TablesOK

LEMMA TablesStep == TablesInv /\ [Next]_vars => TablesInv'
<1> SUFFICES ASSUME TablesInv, [Next]_vars
             PROVE  TablesInv'
  OBVIOUS
<1>b. controls \in BOOLEAN /\ real_patched \in BOOLEAN
  BY DEF TablesInv, TablesOK
<1>1. CASE Insmod
  BY <1>1 DEF Insmod, TablesInv, TablesOK
<1>2. CASE HookCalls
  <2>1. controls' \in BOOLEAN /\ real_patched' \in BOOLEAN
    BY <1>2, <1>b DEF HookCalls
  <2>2. stub' \in [Loads -> {"none", "armed", "cut"}]
    BY <1>2 DEF HookCalls, TablesInv, TablesOK
  <2>3. rf' \in [Loads -> Loads \cup {Real}]
    BY <1>2 DEF HookCalls, TablesInv, TablesOK
  <2>4. base' \in [Loads -> Loads]
    <3>1. base' = base
      BY <1>2 DEF HookCalls
    <3> QED  BY <3>1 DEF TablesInv, TablesOK
  <2>8. /\ gen' \in 0 .. MaxLoads /\ gen' # 0
        /\ monks_state' \in {0, 1} /\ state' \in {0, 1}
    BY <1>2 DEF HookCalls, TablesInv, TablesOK
  <2>5. failed' \subseteq {"hook", "register", "unhook"}
    BY <1>2 DEF HookCalls, TablesInv, TablesOK
  <2>6. table' \in Loads \cup {Real}
    <3>1. table' \in {table, gen}
      BY <1>2 DEF HookCalls
    <3>2. gen \in Loads /\ table \in Loads \cup {Real}
      BY <1>2 DEF HookCalls, TablesInv, TablesOK
    <3> QED  BY <3>1, <3>2
  <2>7. loader' = "register"
    BY <1>2 DEF HookCalls
  <2> QED  BY <2>1, <2>2, <2>3, <2>4, <2>5, <2>6, <2>7, <2>8 DEF TablesInv, TablesOK
<1>3. CASE RegisterControls
  <2>1. controls' \in BOOLEAN
    BY <1>3, <1>b DEF RegisterControls
  <2> QED  BY <1>3, <2>1 DEF RegisterControls, TablesInv, TablesOK
<1>4. CASE HookExit
  BY <1>4 DEF HookExit, TablesInv, TablesOK
<1>5. CASE UnregisterControls
  <2>1. controls' \in BOOLEAN
    BY <1>5 DEF UnregisterControls
  <2> QED  BY <1>5, <2>1 DEF UnregisterControls, TablesInv, TablesOK
<1>6. CASE UnhookCalls
  <2>1. real_patched' \in BOOLEAN
    BY <1>6, <1>b DEF UnhookCalls, DestroyStub
  <2>2. stub' \in [Loads -> {"none", "armed", "cut"}]
    BY <1>6 DEF UnhookCalls, DestroyStub, TablesInv, TablesOK
  <2> QED  BY <1>6, <2>1, <2>2 DEF UnhookCalls, TablesInv, TablesOK
<1>7. CASE Unload
  BY <1>7 DEF Unload, TablesInv, TablesOK
<1>8. CASE Sysctl
  BY <1>8 DEF Sysctl, TablesInv, TablesOK
<1>9. CASE \E t \in Threads : ThreadAct(t)
  BY <1>9 DEF ThreadAct, Enter, RunReal, InKernel, Test, PreHook, Call, PostHook, Return,
              Oops, TablesInv, TablesOK
<1>10. CASE UNCHANGED vars
  BY <1>10 DEF vars, TablesInv, TablesOK
<1> QED
  BY <1>1, <1>2, <1>3, <1>4, <1>5, <1>6, <1>7, <1>8, <1>9, <1>10
  DEF Next, Loader, ThreadAct

-----------------------------------------------------------------------------
(* Types of the threads                                                    *)

StubPlaces == {"state1", "iter1", "pre", "call", "state2", "iter2", "post"}

(* A thread at a place of a stub is in a stub.                             *)
ThreadsInv ==
  /\ ThreadsOK
  /\ \A t \in Threads : cur[t].pc \in StubPlaces => cur[t].fn # Real

LEMMA ThreadsInit == Init => ThreadsInv
<1> SUFFICES ASSUME Init PROVE ThreadsInv
  OBVIOUS
<1>1. User \in Frame
  BY DEF User, Frame, Places
<1>2. <<>> \in Seq(Caller)
  OBVIOUS
<1> QED  BY <1>1, <1>2 DEF Init, ThreadsInv, ThreadsOK, StubPlaces, User

LEMMA EntryFrame ==
  ASSUME NEW f \in Loads \cup {Real}
  PROVE  /\ Entry(f) \in Frame
         /\ Entry(f).fn = f
         /\ Entry(f).pc = (IF f = Real THEN "run" ELSE "state1")
  BY DEF Entry, Frame, Places

(* What a step of thread t does to cur.                                    *)
LEMMA CurStep ==
  ASSUME ThreadsInv, NEW t \in Threads, NEW r \in Frame,
         r.pc \in StubPlaces => r.fn # Real,
         cur' = [cur EXCEPT ![t] = r]
  PROVE  /\ cur' \in [Threads -> Frame]
         /\ \A u \in Threads : cur'[u].pc \in StubPlaces => cur'[u].fn # Real
  BY DEF ThreadsInv, ThreadsOK

LEMMA GotoFrame ==
  ASSUME ThreadsInv, NEW t \in Threads, NEW pc \in Places
  PROVE  /\ [cur[t] EXCEPT !.pc = pc] \in Frame
         /\ [cur[t] EXCEPT !.pc = pc].pc = pc
         /\ [cur[t] EXCEPT !.pc = pc].fn = cur[t].fn
  BY DEF ThreadsInv, ThreadsOK, Frame

LEMMA GotoInfoFrame ==
  ASSUME ThreadsInv, NEW t \in Threads, NEW pc \in Places, NEW info \in BOOLEAN
  PROVE  /\ [cur[t] EXCEPT !.pc = pc, !.info = info] \in Frame
         /\ [cur[t] EXCEPT !.pc = pc, !.info = info].pc = pc
         /\ [cur[t] EXCEPT !.pc = pc, !.info = info].fn = cur[t].fn
  BY DEF ThreadsInv, ThreadsOK, Frame

LEMMA LoaderKeepsThreads ==
  ASSUME Loader \/ Sysctl
  PROVE  UNCHANGED threadVars
  BY DEF Loader, Insmod, HookCalls, RegisterControls, HookExit, UnregisterControls,
         UnhookCalls, Unload, Sysctl

LEMMA ThreadsStep == TablesInv /\ ThreadsInv /\ [Next]_vars => ThreadsInv'
<1> SUFFICES ASSUME TablesInv, ThreadsInv, [Next]_vars
             PROVE  ThreadsInv'
  OBVIOUS
<1>1. CASE Loader \/ Sysctl
  BY <1>1, LoaderKeepsThreads DEF ThreadsInv, ThreadsOK
<1>2. ASSUME NEW t \in Threads, Enter(t) PROVE ThreadsInv'
  <2> DEFINE r == Entry(table)
  <2>1. r \in Frame /\ (r.pc \in StubPlaces => r.fn # Real)
    BY EntryFrame DEF TablesInv, TablesOK, StubPlaces
  <2>2. cur' = [cur EXCEPT ![t] = r]
    BY <1>2 DEF Enter
  <2> HIDE DEF r
  <2>3. runs' \in [Threads -> Nat] /\ events' \in [Threads -> Nat] /\ callers' = callers
    BY <1>2 DEF Enter, ThreadsInv, ThreadsOK
  <2> QED  BY <2>1, <2>2, <2>3, CurStep DEF ThreadsInv, ThreadsOK
<1>3. ASSUME NEW t \in Threads, Test(t) PROVE ThreadsInv'
  <2>1. PICK test \in Tests("state1", "iter1", "pre", "call")
                       \cup Tests("state2", "iter2", "post", "ret") :
          /\ At(t, test[1])
          /\ Goto(t, IF Armed(t) /\ test[2] = 1 THEN test[3] ELSE test[4])
    BY <1>3 DEF Test
  <2> DEFINE pc == IF Armed(t) /\ test[2] = 1 THEN test[3] ELSE test[4]
             r == [cur[t] EXCEPT !.pc = pc]
  <2>2. pc \in Places /\ cur[t].pc \in StubPlaces
    BY <2>1 DEF Tests, Places, StubPlaces, At
  <2>3. cur' = [cur EXCEPT ![t] = r]
    BY <2>1 DEF Goto
  <2> HIDE DEF pc
  <2>4. r \in Frame /\ (r.pc \in StubPlaces => r.fn # Real)
    BY <2>2, GotoFrame DEF ThreadsInv
  <2> HIDE DEF r
  <2> QED  BY <1>3, <2>3, <2>4, CurStep DEF Test, ThreadsInv, ThreadsOK
<1>4. ASSUME NEW t \in Threads, PreHook(t) PROVE ThreadsInv'
  <2>1. PICK info \in BOOLEAN : cur' = [cur EXCEPT ![t].pc = "call", ![t].info = info]
    BY <1>4 DEF PreHook
  <2> DEFINE r == [cur[t] EXCEPT !.pc = "call", !.info = info]
  <2>2. cur' = [cur EXCEPT ![t] = r]
    BY <2>1 DEF ThreadsInv, ThreadsOK
  <2>3. r \in Frame /\ (r.pc \in StubPlaces => r.fn # Real)
    <3>p. "call" \in Places
      BY DEF Places
    <3>1. r \in Frame /\ r.fn = cur[t].fn
      BY <2>1, <3>p, GotoInfoFrame, Zenon
    <3>2. cur[t].fn # Real
      BY <1>4 DEF ThreadsInv, StubPlaces, PreHook, At
    <3> HIDE DEF r
    <3> QED  BY <3>1, <3>2
  <2> HIDE DEF r
  <2> QED  BY <1>4, <2>2, <2>3, CurStep DEF PreHook, ThreadsInv, ThreadsOK
<1>5. ASSUME NEW t \in Threads, Call(t) PROVE ThreadsInv'
  <2>1. cur[t] \in Frame /\ cur[t].fn \in Loads
    BY <1>5 DEF Call, At, ThreadsInv, ThreadsOK, StubPlaces, Frame
  <2> DEFINE r == Entry(rf[cur[t].fn])
             c == [fn |-> cur[t].fn, info |-> cur[t].info]
  <2>2. r \in Frame /\ (r.pc \in StubPlaces => r.fn # Real)
    BY <2>1, EntryFrame DEF TablesInv, TablesOK, StubPlaces
  <2>3. cur' = [cur EXCEPT ![t] = r]
    BY <1>5 DEF Call
  <2>4. c \in Caller
    BY <2>1 DEF Caller, Frame
  <2>5. callers' = [callers EXCEPT ![t] = <<c>> \o callers[t]]
    BY <1>5 DEF Call
  <2> HIDE DEF r, c
  <2>6. callers[t] \in Seq(Caller)
    BY DEF ThreadsInv, ThreadsOK
  <2>7. <<c>> \o callers[t] \in Seq(Caller)
    BY <2>4, <2>6
  <2>8. callers' \in [Threads -> Seq(Caller)]
    BY <2>5, <2>7 DEF ThreadsInv, ThreadsOK
  <2> QED  BY <1>5, <2>2, <2>3, <2>8, CurStep DEF Call, ThreadsInv, ThreadsOK
<1>6. ASSUME NEW t \in Threads, RunReal(t) PROVE ThreadsInv'
  <2> DEFINE r == [cur[t] EXCEPT !.pc = "ret"]
  <2>1. r \in Frame /\ (r.pc \in StubPlaces => r.fn # Real)
    BY GotoFrame DEF StubPlaces, Places
  <2>2. cur' = [cur EXCEPT ![t] = r]
    BY <1>6 DEF RunReal, Goto
  <2> HIDE DEF r
  <2>3. runs' \in [Threads -> Nat]
    BY <1>6 DEF RunReal, ThreadsInv, ThreadsOK
  <2> QED  BY <1>6, <2>1, <2>2, <2>3, CurStep DEF RunReal, ThreadsInv, ThreadsOK
<1>7. ASSUME NEW t \in Threads, PostHook(t) PROVE ThreadsInv'
  <2> DEFINE r == [cur[t] EXCEPT !.pc = "ret", !.info = FALSE]
  <2>1. r \in Frame /\ (r.pc \in StubPlaces => r.fn # Real)
    BY GotoInfoFrame DEF StubPlaces, Places
  <2>2. cur' = [cur EXCEPT ![t] = r]
    BY <1>7 DEF PostHook, ThreadsInv, ThreadsOK
  <2> HIDE DEF r
  <2>3. events' \in [Threads -> Nat]
    BY <1>7 DEF PostHook, ThreadsInv, ThreadsOK
  <2> QED  BY <1>7, <2>1, <2>2, <2>3, CurStep DEF PostHook, ThreadsInv, ThreadsOK
<1>8. ASSUME NEW t \in Threads, Return(t) PROVE ThreadsInv'
  <2>1. CASE callers[t] = <<>>
    <3>1. User \in Frame /\ User.pc \notin StubPlaces
      BY DEF User, Frame, Places, StubPlaces
    <3>2. cur' = [cur EXCEPT ![t] = User] /\ callers' = callers
      BY <1>8, <2>1 DEF Return
    <3> QED  BY <1>8, <3>1, <3>2, CurStep DEF Return, ThreadsInv, ThreadsOK
  <2>2. CASE callers[t] # <<>>
    <3> DEFINE c == Head(callers[t])
               r == [fn |-> c.fn, pc |-> "state2", info |-> c.info]
    <3>1. callers[t] \in Seq(Caller)
      BY DEF ThreadsInv, ThreadsOK
    <3>2. c \in Caller /\ Tail(callers[t]) \in Seq(Caller)
      BY <2>2, <3>1
    <3>3. cur' = [cur EXCEPT ![t] = r] /\ callers' = [callers EXCEPT ![t] = Tail(@)]
      BY <1>8, <2>2 DEF Return
    <3> HIDE DEF c
    <3>4. r \in Frame /\ r.fn # Real
      BY <3>2 DEF Frame, Caller, Places
    <3> HIDE DEF r
    <3>5. callers' \in [Threads -> Seq(Caller)]
      BY <3>2, <3>3 DEF ThreadsInv, ThreadsOK
    <3> QED  BY <1>8, <3>3, <3>4, <3>5, CurStep DEF Return, ThreadsInv, ThreadsOK
  <2> QED  BY <2>1, <2>2
<1>9. ASSUME NEW t \in Threads, Oops(t) PROVE ThreadsInv'
  <2> DEFINE r == [cur[t] EXCEPT !.pc = "oops"]
  <2>1. r \in Frame /\ (r.pc \in StubPlaces => r.fn # Real)
    BY GotoFrame DEF StubPlaces, Places
  <2>2. cur' = [cur EXCEPT ![t] = r]
    BY <1>9 DEF Oops, Goto
  <2> HIDE DEF r
  <2> QED  BY <1>9, <2>1, <2>2, CurStep DEF Oops, ThreadsInv, ThreadsOK
<1>10. CASE UNCHANGED vars
  BY <1>10 DEF vars, ThreadsInv, ThreadsOK
<1> QED
  BY <1>1, <1>2, <1>3, <1>4, <1>5, <1>6, <1>7, <1>8, <1>9, <1>10 DEF Next, InKernel

TypeInv == TablesInv /\ ThreadsInv

LEMMA TypeInvariant == Spec => []TypeInv
  BY TablesInit, TablesStep, ThreadsInit, ThreadsStep, PTL DEF Spec, TypeInv

(* The variables of SctHook keep their types (sct_hook.c, stubs.S): what   *)
(* is in the table is the real function or a stub that was made room for.  *)
THEOREM TypeCorrect == Spec => []TypeOK
<1>1. TypeInv => TypeOK
  BY DEF TypeInv, TablesInv, ThreadsInv, TypeOK
<1> QED  BY TypeInvariant, <1>1, PTL

-----------------------------------------------------------------------------
(* The chain of stubs                                                      *)

LEMMA ThreadsKeepTables ==
  ASSUME \E t \in Threads : ThreadAct(t)
  PROVE  UNCHANGED <<moduleVars, stateVars, tableVars>>
  BY DEF ThreadAct, Enter, RunReal, InKernel, Test, PreHook, Call, PostHook, Return, Oops

(* The stub of a load is not there before do_hook_calls makes it.          *)
ChainInv ==
  /\ ChainEnds
  /\ loader = "hook" => stub[gen] = "none"

LEMMA ChainStep == TablesInv /\ ChainInv /\ [Next]_vars => ChainInv'
<1> SUFFICES ASSUME TablesInv, ChainInv, [Next]_vars
             PROVE  ChainInv'
  OBVIOUS
<1>1. CASE Insmod
  <2>1. gen + 1 \in Loads /\ stub[gen + 1] = "none"
    BY <1>1 DEF Insmod, ChainInv, ChainEnds, TablesInv, TablesOK
  <2> QED  BY <1>1, <2>1 DEF Insmod, ChainInv, ChainEnds, TablesInv, TablesOK
<1>2. CASE HookCalls
  <2>1. CASE table' = gen /\ rf' = [rf EXCEPT ![gen] = table]
                          /\ stub' = [stub EXCEPT ![gen] = "armed"]
    <3>1. gen \in Loads /\ gen' = gen /\ table \in Loads \cup {Real}
      BY <1>2 DEF HookCalls, TablesInv, TablesOK
    <3>2. table < gen
      BY <1>2, <3>1 DEF HookCalls, ChainInv, ChainEnds, TablesInv, TablesOK
    <3> QED  BY <1>2, <2>1, <3>1, <3>2 DEF HookCalls, ChainInv, ChainEnds, TablesInv, TablesOK
  <2>2. CASE UNCHANGED <<table, stub, rf>>
    BY <1>2, <2>2 DEF HookCalls, ChainInv, ChainEnds
  <2> QED  BY <1>2, <2>1, <2>2 DEF HookCalls
<1>3. CASE RegisterControls
  BY <1>3 DEF RegisterControls, ChainInv, ChainEnds
<1>4. CASE HookExit
  BY <1>4 DEF HookExit, ChainInv, ChainEnds
<1>5. CASE UnregisterControls
  BY <1>5 DEF UnregisterControls, ChainInv, ChainEnds
<1>6. CASE UnhookCalls
  BY <1>6 DEF UnhookCalls, DestroyStub, ChainInv, ChainEnds, TablesInv, TablesOK
<1>7. CASE Unload
  BY <1>7 DEF Unload, ChainInv, ChainEnds
<1>8. CASE Sysctl
  BY <1>8 DEF Sysctl, ChainInv, ChainEnds
<1>9. CASE \E t \in Threads : ThreadAct(t)
  BY <1>9, ThreadsKeepTables DEF ChainInv, ChainEnds
<1>10. CASE UNCHANGED vars
  BY <1>10 DEF vars, ChainInv, ChainEnds
<1> QED
  BY <1>1, <1>2, <1>3, <1>4, <1>5, <1>6, <1>7, <1>8, <1>9, <1>10
  DEF Next, Loader, ThreadAct

LEMMA ChainInvariant == Spec => []ChainInv
<1>1. Init => ChainInv
  BY DEF Init, ChainInv, ChainEnds
<1> QED  BY <1>1, ChainStep, TablesInit, TablesStep, PTL DEF Spec

(* However often the module is loaded and unloaded, and whatever fails,    *)
(* the syscall table leads through stubs that exist to the real function,  *)
(* and never through one of them twice (create_stub, iter->rf).            *)
THEOREM ChainEndsCorrect == Spec => []ChainEnds
<1>1. ChainInv => ChainEnds
  BY DEF ChainInv
<1> QED  BY ChainInvariant, <1>1, PTL

-----------------------------------------------------------------------------
(* What unloading leaves behind                                            *)

Hooked == {"register", "live", "unregister", "unhook"}

(* Only the stub in the table can be armed, and only while its module is   *)
(* loaded and has not unhooked its calls.                                  *)
ArmedInv ==
  NoneLeftArmed =>
    \A g \in Loads : stub[g] = "armed" => table = g /\ g = gen /\ loader \in Hooked

(* The table holds a stub when unhook_calls comes to cut what it holds.    *)
RealInv ==
  "hook" \notin failed => ~real_patched /\ (loader \in Hooked => table # Real)

LEMMA ArmedStep == TablesInv /\ ArmedInv /\ [Next]_vars => ArmedInv'
<1> SUFFICES ASSUME TablesInv, ArmedInv, [Next]_vars
             PROVE  ArmedInv'
  OBVIOUS
<1> USE DEF NoneLeftArmed
<1>1. CASE Insmod
  BY <1>1 DEF Insmod, ArmedInv, Hooked
<1>2. CASE HookCalls
  <2>1. CASE table' = gen /\ stub' = [stub EXCEPT ![gen] = "armed"] /\ failed' = failed
    BY <1>2, <2>1 DEF HookCalls, ArmedInv, Hooked, TablesInv, TablesOK
  <2>2. CASE UNCHANGED <<table, stub, rf>> /\ failed' = failed \cup {"hook"}
    BY <1>2, <2>2 DEF HookCalls, ArmedInv, Hooked
  <2> QED  BY <1>2, <2>1, <2>2 DEF HookCalls
<1>3. CASE RegisterControls
  BY <1>3 DEF RegisterControls, ArmedInv, Hooked
<1>4. CASE HookExit
  BY <1>4 DEF HookExit, ArmedInv, Hooked
<1>5. CASE UnregisterControls
  BY <1>5 DEF UnregisterControls, ArmedInv, Hooked
<1>6. CASE UnhookCalls
  <2>1. CASE DestroyStub(table) /\ failed' = failed
    BY <1>6, <2>1 DEF UnhookCalls, DestroyStub, ArmedInv, Hooked, TablesInv, TablesOK
  <2>2. CASE failed' = failed \cup {"unhook"}
    BY <2>2 DEF ArmedInv
  <2> QED  BY <1>6, <2>1, <2>2 DEF UnhookCalls
<1>7. CASE Unload
  BY <1>7 DEF Unload, ArmedInv, Hooked
<1>8. CASE Sysctl
  BY <1>8 DEF Sysctl, ArmedInv, Hooked
<1>9. CASE \E t \in Threads : ThreadAct(t)
  BY <1>9, ThreadsKeepTables DEF ArmedInv, Hooked
<1>10. CASE UNCHANGED vars
  BY <1>10 DEF vars, ArmedInv, Hooked
<1> QED
  BY <1>1, <1>2, <1>3, <1>4, <1>5, <1>6, <1>7, <1>8, <1>9, <1>10
  DEF Next, Loader, ThreadAct

LEMMA RealStep == TablesInv /\ RealInv /\ [Next]_vars => RealInv'
<1> SUFFICES ASSUME TablesInv, RealInv, [Next]_vars
             PROVE  RealInv'
  OBVIOUS
<1>1. CASE Insmod
  BY <1>1 DEF Insmod, RealInv, Hooked
<1>2. CASE HookCalls
  <2>1. gen \in Loads
    BY <1>2 DEF HookCalls, TablesInv, TablesOK
  <2> QED  BY <1>2, <2>1 DEF HookCalls, RealInv, Hooked
<1>3. CASE RegisterControls
  BY <1>3 DEF RegisterControls, RealInv, Hooked
<1>4. CASE HookExit
  BY <1>4 DEF HookExit, RealInv, Hooked
<1>5. CASE UnregisterControls
  BY <1>5 DEF UnregisterControls, RealInv, Hooked
<1>6. CASE UnhookCalls
  BY <1>6 DEF UnhookCalls, DestroyStub, RealInv, Hooked
<1>7. CASE Unload
  BY <1>7 DEF Unload, RealInv, Hooked
<1>8. CASE Sysctl
  BY <1>8 DEF Sysctl, RealInv, Hooked
<1>9. CASE \E t \in Threads : ThreadAct(t)
  BY <1>9, ThreadsKeepTables DEF RealInv, Hooked
<1>10. CASE UNCHANGED vars
  BY <1>10 DEF vars, RealInv, Hooked
<1> QED
  BY <1>1, <1>2, <1>3, <1>4, <1>5, <1>6, <1>7, <1>8, <1>9, <1>10
  DEF Next, Loader, ThreadAct

LEMMA ArmedInvariant == Spec => []ArmedInv
<1>1. Init => ArmedInv
  BY DEF Init, ArmedInv
<1> QED  BY <1>1, ArmedStep, TablesInit, TablesStep, PTL DEF Spec

(* Unless insmod was refused by register_monks_controls or unhook_calls    *)
(* failed, no stub calls hooks of a module that is gone (destroy_stub).    *)
THEOREM ArmedMappedCorrect == Spec => []ArmedMapped
<1>1. ArmedInv => ArmedMapped
  BY DEF ArmedInv, ArmedMapped, Mapped, Hooked
<1> QED  BY ArmedInvariant, <1>1, PTL

(* As long as hook_calls has never failed, destroy_stub patches stubs only *)
(* and no function of the kernel.                                          *)
THEOREM RealIntactCorrect == Spec => []RealIntact
<1>1. Init => RealInv
  BY DEF Init, RealInv, Hooked
<1>2. RealInv => RealIntact
  BY DEF RealInv, RealIntact
<1> QED  BY <1>1, <1>2, RealStep, TablesInit, TablesStep, PTL DEF Spec

-----------------------------------------------------------------------------
(* The contract of a system call                                           *)

Before == {"state1", "iter1", "pre", "call", "run"}
After  == {"state2", "iter2", "post", "ret"}

(* What a step may do to the place of a thread and to its count of runs:   *)
(* make the call, go on inside it, run the real function, or return.       *)
Makes(t)  == cur[t].pc = "user" /\ cur'[t].pc \in Before
             /\ runs' = [runs EXCEPT ![t] = 0]
GoesOn(t) == /\ runs' = runs
             /\ \/ cur[t].pc \in Before /\ cur'[t].pc \in Before
                \/ cur[t].pc \in After /\ cur'[t].pc \in After
                \/ cur[t].pc \in Before \cup After /\ cur'[t].pc = "oops"
Does(t)   == cur[t].pc = "run" /\ cur'[t].pc = "ret"
             /\ runs' = [runs EXCEPT ![t] = @ + 1]
Leaves(t) == cur[t].pc = "ret" /\ cur'[t].pc = "user" /\ runs' = runs

LEMMA ThreadKinds ==
  ASSUME TypeInv, NEW t \in Threads, ThreadAct(t)
  PROVE  /\ \A u \in Threads \ {t} : cur'[u] = cur[u]
         /\ Makes(t) \/ GoesOn(t) \/ Does(t) \/ Leaves(t)
<1> USE DEF At, Goto
<1>t. /\ cur \in [Threads -> Frame]
      /\ table \in Loads \cup {Real}
      /\ rf \in [Loads -> Loads \cup {Real}]
  BY DEF TypeInv, TablesInv, TablesOK, ThreadsInv, ThreadsOK
<1>1. CASE Enter(t)
  <2>1. Entry(table).pc \in Before
    BY <1>t, EntryFrame DEF Before
  <2> QED  BY <1>1, <1>t, <2>1 DEF Enter, Makes
<1>2. CASE Test(t)
  <2>1. PICK test \in Tests("state1", "iter1", "pre", "call")
                       \cup Tests("state2", "iter2", "post", "ret") :
          /\ At(t, test[1])
          /\ Goto(t, IF Armed(t) /\ test[2] = 1 THEN test[3] ELSE test[4])
    BY <1>2 DEF Test
  <2> DEFINE pc == IF Armed(t) /\ test[2] = 1 THEN test[3] ELSE test[4]
  <2>2. \/ cur[t].pc \in Before /\ pc \in Before
        \/ cur[t].pc \in After /\ pc \in After
    BY <2>1 DEF Tests, Before, After
  <2>3. cur' = [cur EXCEPT ![t].pc = pc]
    BY <2>1
  <2> HIDE DEF pc
  <2>4. cur'[t].pc = pc /\ \A u \in Threads \ {t} : cur'[u] = cur[u]
    BY <2>3, <1>t DEF Frame
  <2> QED  BY <1>2, <2>2, <2>4 DEF Test, GoesOn
<1>3. CASE PreHook(t)
  <2>1. PICK info \in BOOLEAN : cur' = [cur EXCEPT ![t].pc = "call", ![t].info = info]
    BY <1>3 DEF PreHook
  <2>2. cur'[t].pc = "call" /\ \A u \in Threads \ {t} : cur'[u] = cur[u]
    BY <2>1, <1>t DEF Frame
  <2> QED  BY <1>3, <2>2 DEF PreHook, GoesOn, Before
<1>4. CASE Call(t)
  <2>1. cur[t].fn \in Loads
    BY <1>4, <1>t DEF Call, TypeInv, ThreadsInv, StubPlaces, Frame
  <2>2. Entry(rf[cur[t].fn]).pc \in Before
    BY <1>t, <2>1, EntryFrame DEF Before
  <2> QED  BY <1>4, <1>t, <2>2 DEF Call, GoesOn, Before
<1>5. CASE RunReal(t)
  BY <1>5, <1>t DEF RunReal, Does, Frame
<1>6. CASE PostHook(t)
  <2>1. cur'[t].pc = "ret" /\ \A u \in Threads \ {t} : cur'[u] = cur[u]
    BY <1>6, <1>t DEF PostHook, Frame
  <2> QED  BY <1>6, <2>1 DEF PostHook, GoesOn, After
<1>7. CASE Return(t)
  <2>1. CASE callers[t] = <<>>
    BY <1>7, <2>1, <1>t DEF Return, Leaves, User
  <2>2. CASE callers[t] # <<>>
    BY <1>7, <2>2, <1>t DEF Return, GoesOn, After
  <2> QED  BY <2>1, <2>2
<1>8. CASE Oops(t)
  <2>1. cur'[t].pc = "oops" /\ \A u \in Threads \ {t} : cur'[u] = cur[u]
    BY <1>8, <1>t DEF Oops, Frame
  <2>2. cur[t].pc \in Before \cup After
    BY <1>8 DEF Oops, Before, After
  <2> QED  BY <1>8, <2>1, <2>2 DEF Oops, GoesOn
<1> QED  BY <1>1, <1>2, <1>3, <1>4, <1>5, <1>6, <1>7, <1>8 DEF ThreadAct, InKernel

(* Where a thread is tells how often the real function has run for it.     *)
RunsInv ==
  \A t \in Threads : /\ cur[t].pc \in Before => runs[t] = 0
                     /\ cur[t].pc \in After => runs[t] = 1

LEMMA RunsStep == TypeInv /\ RunsInv /\ [Next]_vars => RunsInv'
<1> SUFFICES ASSUME TypeInv, RunsInv, [Next]_vars
             PROVE  RunsInv'
  OBVIOUS
<1>1. CASE Loader \/ Sysctl \/ UNCHANGED vars
  BY <1>1, LoaderKeepsThreads DEF vars, RunsInv
<1>2. ASSUME NEW t \in Threads, ThreadAct(t) PROVE RunsInv'
  <2>1. runs \in [Threads -> Nat]
    BY DEF TypeInv, ThreadsInv, ThreadsOK
  <2>2. \A u \in Threads \ {t} : cur'[u] = cur[u]
    BY <1>2, ThreadKinds
  <2>3. Makes(t) \/ GoesOn(t) \/ Does(t) \/ Leaves(t)
    BY <1>2, ThreadKinds
  <2>4. \A u \in Threads \ {t} : runs'[u] = runs[u]
    BY <2>1, <2>3 DEF Makes, GoesOn, Does, Leaves
  <2>5. /\ cur'[t].pc \in Before => runs'[t] = 0
        /\ cur'[t].pc \in After => runs'[t] = 1
    BY <2>1, <2>3 DEF Makes, GoesOn, Does, Leaves, RunsInv, Before, After
  <2> QED  BY <2>2, <2>4, <2>5 DEF RunsInv
<1> QED  BY <1>1, <1>2 DEF Next, ThreadAct

PhaseOf(t) == IF cur[t].pc = "user" THEN "user"
              ELSE IF runs[t] = 0 THEN "asked"
              ELSE IF runs[t] = 1 THEN "done" ELSE "again"

(* A step of the stubs is a step of the contract or none.                  *)
LEMMA ContractStep ==
  TypeInv /\ RunsInv /\ [Next]_vars =>
    \/ Contract!Next
    \/ [t \in Threads |-> PhaseOf(t)]' = [t \in Threads |-> PhaseOf(t)]
<1> DEFINE phase == [t \in Threads |-> PhaseOf(t)]
<1> SUFFICES ASSUME TypeInv, RunsInv, [Next]_vars
             PROVE  Contract!Next \/ phase' = phase
  OBVIOUS
<1>1. CASE Loader \/ Sysctl \/ UNCHANGED vars
  BY <1>1, LoaderKeepsThreads DEF vars, PhaseOf
<1>2. ASSUME NEW t \in Threads, ThreadAct(t) PROVE Contract!Next \/ phase' = phase
  <2>1. runs \in [Threads -> Nat]
    BY DEF TypeInv, ThreadsInv, ThreadsOK
  <2>2. \A u \in Threads \ {t} : cur'[u] = cur[u]
    BY <1>2, ThreadKinds
  <2>3. Makes(t) \/ GoesOn(t) \/ Does(t) \/ Leaves(t)
    BY <1>2, ThreadKinds
  <2>4. \A u \in Threads \ {t} : PhaseOf(u)' = PhaseOf(u)
    BY <2>1, <2>2, <2>3 DEF Makes, GoesOn, Does, Leaves, PhaseOf
  <2>5. phase' = [phase EXCEPT ![t] = PhaseOf(t)']
    BY <2>4
  <2>6. CASE Makes(t)
    <3>1. PhaseOf(t) = "user" /\ PhaseOf(t)' = "asked"
      BY <2>1, <2>6 DEF Makes, PhaseOf, Before
    <3> QED  BY <2>5, <3>1 DEF Contract!Next, Contract!Enter, Contract!Move, PhaseOf
  <2>7. CASE GoesOn(t)
    <3>1. PhaseOf(t)' = PhaseOf(t)
      BY <2>7 DEF GoesOn, PhaseOf, Before, After
    <3> QED  BY <2>5, <3>1
  <2>8. CASE Does(t)
    <3>1. PhaseOf(t) = "asked" /\ PhaseOf(t)' = "done"
      BY <2>1, <2>8 DEF Does, PhaseOf, RunsInv, Before, After
    <3> QED  BY <2>5, <3>1 DEF Contract!Next, Contract!Run, Contract!Move, PhaseOf
  <2>9. CASE Leaves(t)
    <3>1. PhaseOf(t) = "done" /\ PhaseOf(t)' = "user"
      BY <2>1, <2>9 DEF Leaves, PhaseOf, RunsInv, Before, After
    <3> QED  BY <2>5, <3>1 DEF Contract!Next, Contract!Return, Contract!Move, PhaseOf
  <2> QED  BY <2>3, <2>6, <2>7, <2>8, <2>9
<1> QED  BY <1>1, <1>2 DEF Next, ThreadAct

LEMMA RunsInvariant == Spec => []RunsInv
<1>1. Init => RunsInv
  <2> SUFFICES ASSUME Init, NEW t \in Threads
               PROVE  cur[t].pc \notin Before \cup After
    BY DEF RunsInv
  <2>1. cur[t].pc = "user"
    BY DEF Init, User
  <2> QED  BY <2>1 DEF Before, After
<1> QED  BY <1>1, RunsStep, TypeInvariant, PTL DEF Spec

(* Through any number of stubs, armed, cut or of modules that are gone, a  *)
(* call runs the real function once before it returns, or never returns.   *)
THEOREM ImplementsCorrect == Spec => Implements
<1>1. Init => Contract!Init
  BY DEF Init, Contract!Init, User
<1>2. TypeInv /\ RunsInv /\ [Next]_vars =>
        [Contract!Next]_([t \in Threads |->
              IF cur[t].pc = "user" THEN "user"
              ELSE IF runs[t] = 0 THEN "asked"
              ELSE IF runs[t] = 1 THEN "done" ELSE "again"])
  BY ContractStep DEF PhaseOf
<1> QED
  BY <1>1, <1>2, TypeInvariant, RunsInvariant, PTL
  DEF Spec, Implements, Contract!Spec

-----------------------------------------------------------------------------
(* Reports                                                                 *)

(* A thread is in stubs that were made.                                    *)
MadeOf(t) ==
  /\ cur[t].fn # Real => stub[cur[t].fn] # "none"
  /\ \A i \in 1 .. Len(callers[t]) : stub[callers[t][i].fn] # "none"

(* Only after the real function has run is there anything to report.       *)
ReportedOf(t) ==
  /\ cur[t].pc = "user" => callers[t] = <<>>
  /\ cur[t].pc \in Before => events[t] = 0
  /\ events[t] # 0 => runs[t] = 1

(* Only the outermost stub may have been armed when the thread came to it: *)
(* what that one calls is older, and cut for good.  So the inner ones skip *)
(* their hooks, and when the outermost has reported the call returns.      *)
OnceOf(t) ==
  IF callers[t] = <<>>
  THEN events[t] = 0 \/ (events[t] = 1 /\ cur[t].pc \in {"ret", "user"})
  ELSE /\ events[t] = 0
       /\ cur[t].fn # Real => stub[cur[t].fn] = "cut"
       /\ cur[t].pc \notin {"iter1", "pre", "iter2", "post"}
       /\ \A i \in 1 .. Len(callers[t]) - 1 : stub[callers[t][i].fn] = "cut"

EventsInv ==
  \A t \in Threads : MadeOf(t) /\ ReportedOf(t) /\ (NoneLeftArmed => OnceOf(t))

LEMMA LoaderReports ==
  TypeInv /\ ChainInv /\ EventsInv /\ (Loader \/ Sysctl \/ UNCHANGED vars) => EventsInv'
<1> SUFFICES ASSUME TypeInv, ChainInv, EventsInv, Loader \/ Sysctl \/ UNCHANGED vars,
                    NEW t \in Threads
             PROVE  MadeOf(t)' /\ ReportedOf(t)' /\ (NoneLeftArmed' => OnceOf(t)')
  BY DEF EventsInv
<1>1. UNCHANGED threadVars
  BY LoaderKeepsThreads DEF vars
<1>2. NoneLeftArmed' => NoneLeftArmed
  BY DEF NoneLeftArmed, vars, Loader, Insmod, HookCalls, RegisterControls, HookExit,
         UnregisterControls, UnhookCalls, Unload, Sysctl
<1>3. ASSUME NEW g \in Loads
      PROVE  /\ stub[g] # "none" => stub'[g] # "none"
             /\ stub[g] = "cut" => stub'[g] = "cut"
  BY DEF vars, Loader, Insmod, HookCalls, RegisterControls, HookExit, UnregisterControls,
         UnhookCalls, DestroyStub, Unload, Sysctl, TypeInv, TablesInv, TablesOK, ChainInv
<1>4. cur[t].fn \in Loads \cup {Real} /\ callers[t] \in Seq(Caller)
  BY DEF TypeInv, ThreadsInv, ThreadsOK, Frame
<1>5. \A i \in 1 .. Len(callers[t]) : callers[t][i].fn \in Loads
  <2>1. \A i \in 1 .. Len(callers[t]) : callers[t][i] \in Caller
    BY <1>4
  <2> QED  BY <2>1 DEF Caller
<1>6. MadeOf(t) /\ ReportedOf(t) /\ (NoneLeftArmed => OnceOf(t))
  BY DEF EventsInv
<1>7. MadeOf(t)'
  BY <1>1, <1>3, <1>4, <1>5, <1>6 DEF MadeOf
<1>8. ReportedOf(t)'
  BY <1>1, <1>6 DEF ReportedOf
<1>9. ASSUME OnceOf(t) PROVE OnceOf(t)'
  <2>1. \A i \in 1 .. Len(callers[t]) - 1 : i \in 1 .. Len(callers[t])
    BY <1>4
  <2> QED  BY <1>1, <1>3, <1>4, <1>5, <1>9, <2>1 DEF OnceOf
<1> QED  BY <1>2, <1>6, <1>7, <1>8, <1>9

(* What a step of thread t leaves to show for t.                           *)
LEMMA ThreadReports ==
  ASSUME TypeInv, ChainInv, ArmedInv, RunsInv, EventsInv, NEW t \in Threads, ThreadAct(t)
  PROVE  MadeOf(t)' /\ ReportedOf(t)' /\ (NoneLeftArmed' => OnceOf(t)')
<1> USE DEF At, Goto
<1>a. failed' = failed /\ stub' = stub
  BY ThreadsKeepTables DEF moduleVars, tableVars
<1>t. /\ cur \in [Threads -> Frame] /\ callers \in [Threads -> Seq(Caller)]
      /\ runs \in [Threads -> Nat] /\ events \in [Threads -> Nat]
      /\ stub \in [Loads -> {"none", "armed", "cut"}]
      /\ gen \in Nat /\ stub' = stub /\ NoneLeftArmed' = NoneLeftArmed
  <2>1. NoneLeftArmed' = NoneLeftArmed
    BY <1>a DEF NoneLeftArmed
  <2> QED  BY <1>a, <2>1 DEF TypeInv, TablesInv, TablesOK, ThreadsInv, ThreadsOK
<1>s. MadeOf(t) /\ ReportedOf(t) /\ (NoneLeftArmed => OnceOf(t))
  BY DEF EventsInv
<1>f. cur[t].pc \in StubPlaces => cur[t].fn \in Loads
  BY <1>t DEF TypeInv, ThreadsInv, Frame
(* The steps that stay in a function and report nothing.                   *)
<1>k. ASSUME cur'[t].fn = cur[t].fn, callers' = callers, events' = events,
             cur[t].pc \notin {"ret", "user"}, cur'[t].pc # "user",
             cur'[t].pc \in Before => cur[t].pc \in Before,
             events[t] # 0 => runs'[t] = 1,
             NoneLeftArmed /\ callers[t] # <<>>
               => cur'[t].pc \notin {"iter1", "pre", "iter2", "post"}
      PROVE  MadeOf(t)' /\ ReportedOf(t)' /\ (NoneLeftArmed' => OnceOf(t)')
  <2>1. MadeOf(t)'
    BY <1>k, <1>t, <1>s DEF MadeOf
  <2>2. ReportedOf(t)'
    BY <1>k, <1>s DEF ReportedOf
  <2>3. ASSUME OnceOf(t), NoneLeftArmed PROVE OnceOf(t)'
    BY <1>k, <1>t, <2>3 DEF OnceOf
  <2> QED  BY <1>t, <1>s, <2>1, <2>2, <2>3
<1>1. CASE Enter(t)
  <2>0. callers[t] = <<>> /\ table \in Loads \cup {Real}
    BY <1>1, <1>s DEF Enter, ReportedOf, TypeInv, TablesInv, TablesOK
  <2>e. Entry(table).fn = table /\ Entry(table).pc # "user"
    BY <2>0, EntryFrame
  <2> HIDE DEF Entry
  <2>c. cur'[t] = Entry(table)
    BY <1>1, <1>t DEF Enter
  <2>1. cur'[t].fn = table /\ cur'[t].pc # "user" /\ callers'[t] = <<>> /\ events'[t] = 0
    BY <1>1, <1>t, <2>0, <2>e, <2>c DEF Enter
  <2>2. table # Real => stub[table] # "none"
    BY DEF ChainInv, ChainEnds
  <2> QED  BY <1>t, <2>1, <2>2 DEF MadeOf, ReportedOf, OnceOf
<1>2. CASE Test(t)
  <2>1. PICK test \in Tests("state1", "iter1", "pre", "call")
                       \cup Tests("state2", "iter2", "post", "ret") :
          /\ At(t, test[1])
          /\ Goto(t, IF Armed(t) /\ test[2] = 1 THEN test[3] ELSE test[4])
    BY <1>2 DEF Test
  <2> DEFINE pc == IF Armed(t) /\ test[2] = 1 THEN test[3] ELSE test[4]
  <2>2. /\ cur[t].pc \in StubPlaces /\ cur[t].pc \notin {"ret", "user"} /\ pc # "user"
        /\ pc \in Before => cur[t].pc \in Before
    BY <2>1 DEF Tests, StubPlaces, Before
  <2>3. cur' = [cur EXCEPT ![t].pc = pc]
    BY <2>1
  <2>4. ~Armed(t) => pc \notin {"iter1", "pre", "iter2", "post"}
    BY <2>1 DEF Tests
  <2>5. NoneLeftArmed /\ callers[t] # <<>> => ~Armed(t)
    BY <1>s, <1>f, <2>2 DEF OnceOf, Armed
  <2> HIDE DEF pc
  <2>6. cur'[t].fn = cur[t].fn /\ cur'[t].pc = pc
    BY <2>3, <1>t DEF Frame
  <2>7. callers' = callers /\ events' = events /\ runs' = runs
    BY <1>2 DEF Test
  <2>8. events[t] # 0 => runs'[t] = 1
    BY <2>7, <1>s DEF ReportedOf
  <2> QED  BY <1>k, <2>2, <2>4, <2>5, <2>6, <2>7, <2>8
<1>3. CASE PreHook(t)
  <2>1. PICK info \in BOOLEAN : cur' = [cur EXCEPT ![t].pc = "call", ![t].info = info]
    BY <1>3 DEF PreHook
  <2>2. cur'[t].fn = cur[t].fn /\ cur'[t].pc = "call" /\ cur[t].pc = "pre"
    BY <1>3, <2>1, <1>t DEF Frame, PreHook
  <2>3. callers' = callers /\ events' = events /\ runs' = runs
    BY <1>3 DEF PreHook
  <2> QED  BY <1>k, <1>s, <2>2, <2>3 DEF ReportedOf, Before
<1>4. CASE Call(t)
  <2>1. cur[t].fn \in Loads /\ cur[t].pc = "call"
    BY <1>4, <1>f DEF Call, StubPlaces
  <2> DEFINE f == rf[cur[t].fn]
             c == [fn |-> cur[t].fn, info |-> cur[t].info]
  <2>2. stub[cur[t].fn] # "none"
    BY <1>s, <2>1 DEF MadeOf
  <2>3. /\ f \in Loads \cup {Real} /\ f < cur[t].fn /\ cur[t].fn <= gen
        /\ f # Real => stub[f] # "none"
    BY <2>1, <2>2 DEF ChainInv, ChainEnds, TypeInv, TablesInv, TablesOK
  <2>4. NoneLeftArmed /\ f # Real => stub[f] = "cut"
    <3>1. f # Real => f \in Loads /\ f # gen
      BY <1>t, <2>1, <2>3
    <3> QED  BY <1>t, <2>3, <3>1 DEF ArmedInv
  <2>5. cur'[t].fn = f /\ cur'[t].pc \in {"run", "state1"}
    BY <1>4, <1>t, <2>3, EntryFrame DEF Call
  <2>6. callers'[t] = <<c>> \o callers[t] /\ events' = events /\ c.fn = cur[t].fn
    BY <1>4, <1>t DEF Call
  <2>7. events[t] = 0
    BY <1>s, <2>1 DEF ReportedOf, Before
  <2> HIDE DEF f, c
  <2>8. callers[t] \in Seq(Caller)
    BY <1>t
  <2>9. /\ Len(callers'[t]) = Len(callers[t]) + 1 /\ Len(callers[t]) \in Nat
        /\ callers'[t] # <<>> /\ callers'[t][1] = c
        /\ \A i \in 2 .. Len(callers'[t]) :
             i - 1 \in 1 .. Len(callers[t]) /\ callers'[t][i] = callers[t][i - 1]
    BY <2>6, <2>8
  <2>10. MadeOf(t)'
    <3>1. ASSUME NEW i \in 1 .. Len(callers'[t]) PROVE stub[callers'[t][i].fn] # "none"
      <4>1. CASE i = 1
        BY <4>1, <2>2, <2>6, <2>9
      <4>2. CASE i # 1
        <5>1. i \in 2 .. Len(callers'[t])
          BY <4>2, <2>9
        <5> QED  BY <5>1, <2>9, <1>s DEF MadeOf
      <4> QED  BY <4>1, <4>2
    <3> QED  BY <1>t, <2>3, <2>5, <3>1 DEF MadeOf
  <2>11. ASSUME NoneLeftArmed PROVE OnceOf(t)'
    <3>1. ASSUME NEW i \in 1 .. Len(callers'[t]) - 1
          PROVE  stub[callers'[t][i].fn] = "cut"
      <4>0. callers[t] # <<>>
        BY <2>8, <2>9, <3>1
      <4>1. CASE i = 1
        BY <4>0, <4>1, <1>s, <2>1, <2>6, <2>9, <2>11 DEF OnceOf
      <4>2. CASE i # 1
        <5>1. i \in 2 .. Len(callers'[t]) /\ i - 1 \in 1 .. Len(callers[t]) - 1
          BY <4>2, <2>9
        <5> QED  BY <4>0, <5>1, <2>9, <2>11, <1>s DEF OnceOf
      <4> QED  BY <4>1, <4>2
    <3> QED  BY <1>t, <2>4, <2>5, <2>6, <2>7, <2>9, <2>11, <3>1 DEF OnceOf
  <2> QED  BY <1>t, <2>5, <2>6, <2>7, <2>10, <2>11 DEF ReportedOf
<1>5. CASE RunReal(t)
  <2>1. cur'[t].fn = cur[t].fn /\ cur'[t].pc = "ret" /\ cur[t].pc = "run"
    BY <1>5, <1>t DEF RunReal, Frame
  <2>2. callers' = callers /\ events' = events /\ events[t] = 0
    BY <1>5, <1>s, <2>1 DEF RunReal, ReportedOf, Before
  <2> QED  BY <1>k, <2>1, <2>2 DEF Before
<1>6. CASE PostHook(t)
  <2>1. cur'[t].fn = cur[t].fn /\ cur'[t].pc = "ret" /\ cur[t].pc = "post"
    BY <1>6, <1>t DEF PostHook, Frame
  <2>2. callers' = callers /\ runs'[t] = 1
    BY <1>6, <2>1 DEF PostHook, RunsInv, After
  <2>3. events'[t] \in {events[t], events[t] + 1}
    BY <1>6, <1>t DEF PostHook
  <2>4. MadeOf(t)'
    BY <1>t, <1>s, <2>1, <2>2 DEF MadeOf
  <2>5. ReportedOf(t)'
    BY <2>1, <2>2 DEF ReportedOf, Before
  <2>6. ASSUME NoneLeftArmed PROVE OnceOf(t)'
    <3>1. callers[t] = <<>> /\ events[t] = 0
      BY <1>s, <2>1, <2>6 DEF OnceOf
    <3> QED  BY <2>1, <2>2, <2>3, <3>1 DEF OnceOf
  <2> QED  BY <1>t, <2>4, <2>5, <2>6
<1>7. CASE Return(t)
  <2>1. CASE callers[t] = <<>>
    <3>1. cur'[t].fn = Real /\ cur'[t].pc = "user" /\ callers'[t] = <<>>
          /\ events' = events /\ runs' = runs
      BY <1>7, <2>1, <1>t DEF Return, User
    <3> QED  BY <1>t, <1>s, <2>1, <3>1 DEF MadeOf, ReportedOf, OnceOf, Before
  <2>2. CASE callers[t] # <<>>
    <3>1. callers[t] \in Seq(Caller)
      BY <1>t
    <3>2. /\ Len(callers[t]) \in Nat /\ Len(callers[t]) > 0
          /\ Head(callers[t]) = callers[t][1]
          /\ Len(Tail(callers[t])) = Len(callers[t]) - 1
          /\ Tail(callers[t]) # <<>> => Len(callers[t]) > 1
          /\ \A i \in 1 .. Len(Tail(callers[t])) :
               i + 1 \in 1 .. Len(callers[t]) /\ Tail(callers[t])[i] = callers[t][i + 1]
      BY <2>2, <3>1
    <3>3. /\ cur'[t].fn = callers[t][1].fn /\ cur'[t].pc = "state2"
          /\ callers'[t] = Tail(callers[t]) /\ events' = events /\ runs' = runs
      BY <1>7, <2>2, <1>t, <3>2 DEF Return
    <3>4. MadeOf(t)'
      <4>1. stub[callers[t][1].fn] # "none"
        BY <1>s, <3>2 DEF MadeOf
      <4>2. \A i \in 1 .. Len(callers'[t]) : stub[callers'[t][i].fn] # "none"
        BY <1>s, <3>2, <3>3 DEF MadeOf
      <4> QED  BY <1>t, <3>3, <4>1, <4>2 DEF MadeOf
    <3>5. ReportedOf(t)'
      BY <1>s, <3>3 DEF ReportedOf, Before
    <3>6. ASSUME NoneLeftArmed PROVE OnceOf(t)'
      <4>1. /\ events[t] = 0
            /\ \A i \in 1 .. Len(callers[t]) - 1 : stub[callers[t][i].fn] = "cut"
        BY <2>2, <3>6, <1>s DEF OnceOf
      <4>2. ASSUME callers'[t] # <<>> PROVE stub[cur'[t].fn] = "cut"
        <5>1. 1 \in 1 .. Len(callers[t]) - 1
          BY <3>2, <3>3, <4>2
        <5> QED  BY <3>3, <4>1, <5>1
      <4>3. ASSUME NEW i \in 1 .. Len(callers'[t]) - 1
            PROVE  stub[callers'[t][i].fn] = "cut"
        <5>1. i \in 1 .. Len(Tail(callers[t])) /\ i + 1 \in 1 .. Len(callers[t]) - 1
          BY <3>2, <3>3, <4>3
        <5> QED  BY <3>2, <3>3, <4>1, <5>1
      <4> QED  BY <1>t, <3>3, <4>1, <4>2, <4>3 DEF OnceOf
    <3> QED  BY <1>t, <3>4, <3>5, <3>6
  <2> QED  BY <2>1, <2>2
<1>8. CASE Oops(t)
  <2>1. cur'[t].fn = cur[t].fn /\ cur'[t].pc = "oops"
    BY <1>8, <1>t DEF Oops, Frame
  <2>2. cur[t].pc \notin {"ret", "user"}
    BY <1>8 DEF Oops
  <2>3. callers' = callers /\ events' = events /\ runs' = runs
    BY <1>8 DEF Oops
  <2>4. events[t] # 0 => runs'[t] = 1
    BY <1>s, <2>3 DEF ReportedOf
  <2> QED  BY <1>k, <2>1, <2>2, <2>3, <2>4 DEF Before
<1> QED  BY <1>1, <1>2, <1>3, <1>4, <1>5, <1>6, <1>7, <1>8 DEF ThreadAct, InKernel

LEMMA EventsStep ==
  TypeInv /\ ChainInv /\ ArmedInv /\ RunsInv /\ EventsInv /\ [Next]_vars => EventsInv'
<1> SUFFICES ASSUME TypeInv, ChainInv, ArmedInv, RunsInv, EventsInv, [Next]_vars
             PROVE  EventsInv'
  OBVIOUS
<1>1. CASE Loader \/ Sysctl \/ UNCHANGED vars
  BY <1>1, LoaderReports
<1>2. ASSUME NEW t \in Threads, ThreadAct(t) PROVE EventsInv'
  <2>1. MadeOf(t)' /\ ReportedOf(t)' /\ (NoneLeftArmed' => OnceOf(t)')
    BY <1>2, ThreadReports
  <2>2. ASSUME NEW u \in Threads \ {t}
        PROVE  MadeOf(u)' /\ ReportedOf(u)' /\ (NoneLeftArmed' => OnceOf(u)')
    <3>1. /\ cur \in [Threads -> Frame] /\ callers \in [Threads -> Seq(Caller)]
          /\ runs \in [Threads -> Nat] /\ events \in [Threads -> Nat]
      BY DEF TypeInv, ThreadsInv, ThreadsOK
    <3>2. cur'[u] = cur[u]
      BY <1>2, ThreadKinds
    <3>3. callers'[u] = callers[u] /\ runs'[u] = runs[u] /\ events'[u] = events[u]
      BY <1>2, <3>1 DEF ThreadAct, Enter, RunReal, InKernel, Test, PreHook, Call, PostHook,
                        Return, Oops
    <3>4. failed' = failed /\ stub' = stub
      BY <1>2, ThreadsKeepTables
    <3>5. MadeOf(u) /\ ReportedOf(u) /\ (NoneLeftArmed => OnceOf(u))
      BY DEF EventsInv
    <3>6. MadeOf(u)' /\ ReportedOf(u)'
      BY <3>2, <3>3, <3>4, <3>5 DEF MadeOf, ReportedOf
    <3>7. NoneLeftArmed' => OnceOf(u)'
      BY <3>2, <3>3, <3>4, <3>5 DEF NoneLeftArmed, OnceOf
    <3> QED  BY <3>6, <3>7
  <2> QED  BY <2>1, <2>2 DEF EventsInv
<1> QED  BY <1>1, <1>2 DEF Next, ThreadAct

(* A call is reported only after the real function has run, and at most    *)
(* once if no stub was left armed (main.c:28, sct_hook.c:231), though it   *)
(* may pass stubs of many loads and the module may be put where it was     *)
(* before: of the stubs in a call only the outermost one was armed when    *)
(* the call came to it: do_unhook_calls has cut the older ones.            *)
THEOREM EventsMatchCorrect == Spec => []EventsMatch
<1>1. Init => EventsInv
  <2> SUFFICES ASSUME Init, NEW t \in Threads
               PROVE  MadeOf(t) /\ ReportedOf(t) /\ OnceOf(t)
    BY DEF EventsInv
  <2>1. cur[t].fn = Real /\ cur[t].pc = "user" /\ callers[t] = <<>> /\ events[t] = 0
    BY DEF Init, User
  <2>2. 1 .. Len(callers[t]) = {}
    BY <2>1
  <2> QED  BY <2>1, <2>2 DEF MadeOf, ReportedOf, OnceOf, Before
<1>2. TypeInv /\ EventsInv => EventsMatch
  <2> SUFFICES ASSUME TypeInv, EventsInv, NEW t \in Threads
               PROVE  /\ events[t] # 0 => runs[t] = 1
                      /\ NoneLeftArmed => events[t] <= 1
    BY DEF EventsMatch
  <2>1. ReportedOf(t) /\ (NoneLeftArmed => OnceOf(t))
    BY DEF EventsInv
  <2> QED  BY <2>1 DEF ReportedOf, OnceOf
<1> QED
  BY <1>1, <1>2, EventsStep, TypeInvariant, ChainInvariant, ArmedInvariant, RunsInvariant, PTL
  DEF Spec
=============================================================================
