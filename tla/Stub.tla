-------------------------------- MODULE Stub --------------------------------
(***************************************************************************)
(* The text of the two stubs of a 64-bit kernel (monks_kmodule/stubs.S),   *)
(* how udis_utils.c fills in its addresses and later cuts the hooks out of *)
(* it, and a thread that runs it, instruction by instruction, through its  *)
(* frame and registers.  What a hook reads and writes in the frame of the  *)
(* stub that called it (the macros of sct_hook.h) is in it too.            *)
(*                                                                         *)
(* The text is read by all threads and each has a frame of its own, so one *)
(* thread shows what any may see; it may be at any instruction when        *)
(* stop_machine patches the text.  A run of moves that differ only in the  *)
(* register is one instruction here.                                       *)
(***************************************************************************)
EXTENDS Integers, Sequences, FiniteSetsExt

CONSTANTS
  Word,         (* what four bytes hold                                    *)
  Zero, One,    (* two of them                                             *)
  Errors,       (* the 64-bit values that IS_ERR holds of                  *)
  Arguments,    (* what is in the six registers of a system call           *)
  Results,      (* what the real function may return                       *)
  Nodes,        (* what kmalloc may return, if it does not fail            *)
  Leftovers,    (* what a C function may leave in the six registers        *)
  Stacks        (* what may be on the stack, word by word                  *)

(* A 64-bit value is two words, the low one first.                         *)
Value == Word \X Word
Null  == <<Zero, Zero>>

ASSUME StubValues ==
  /\ {Zero, One} \subseteq Word /\ Zero # One
  /\ Arguments \cup Leftovers \subseteq [1 .. 6 -> Value]
  /\ Results \subseteq Value
  /\ Nodes \subseteq Value \ {Null}
  /\ Stacks \subseteq [1 .. 21 -> Word]

VARIABLES
  arch,         (* "stub" or "stub_32": which of the two it is             *)
  text,         (* the copy that create_stub makes; <<>>: not made yet     *)
  cut,          (* destroy_stub has been through                           *)
  monks_state, state,
  pc,           (* index of the next instruction of the stub; 0: the       *)
                (* thread is not in it                                     *)
  fn,           (* the function the stub waits for, or "none"              *)
  rax, zf,
  regs,         (* rdi, rsi, rdx, rcx, r8, r9                              *)
  frame,        (* word k is the four bytes at rbp - 4k                    *)
  args,         (* what the caller has put into regs                       *)
  ret,          (* what the real function has returned in this call, each  *)
                (* time that it was called                                 *)
  node,         (* what the pre-hook has allocated in this call            *)
  report        (* what the post-hook says of this call, or "none"         *)

textVars  == <<arch, text, cut>>
stateVars == <<monks_state, state>>
regVars   == <<rax, zf, regs>>
callVars  == <<args, ret, node, report>>
vars == <<textVars, stateVars, pc, fn, regVars, frame, callVars>>

(* The address of sym, which is like no other value                        *)
AddressOf(sym) == <<<<sym, 0>>, <<sym, 1>>>>

IsErr(r) == r \in Errors

-----------------------------------------------------------------------------
(* The text                                                                *)

(* An instruction: what it does, with which number and which symbol.       *)
I(op, n, sym) == [op |-> op, n |-> n, sym |-> sym]

Hole == "0x10101010"       \* the pattern ud_patch_addr looks for

Enter(size) == I("enter", size, "none")
Load        == I("load", 0, Hole)
Cmp         == I("cmp", 0, "none")
Jne(to)     == I("jne", to, "none")
Addr        == I("addr", 0, Hole)
CallRax     == I("call", 0, "none")

(* Where the six registers are saved, as offsets below rbp.                *)
Slots(a) == IF a = "stub" THEN <<24, 32, 40, 48, 56, 64>>
                          ELSE <<48, 40, 32, 24, 16, 8>>

(* A slip: the real function gets the registers as the pre-hook left them. *)
Text64Unrestored ==
  <<Enter(64), I("clear", 8, "none"), I("save", 0, "none"),
    Load, Cmp, Jne(13), Load, Cmp, Jne(13), Addr, I("restore", 0, "none"), CallRax,
    Addr, I("nop", 0, "none"), CallRax, I("store", 16, "rax"),
    Load, Cmp, Jne(26), Load, Cmp, Jne(26), Addr, I("restore", 0, "none"), CallRax,
    I("result", 16, "rax"), I("ret", 0, "none")>>

Text64 ==
  <<Enter(64), I("clear", 8, "none"), I("save", 0, "none"),
    Load, Cmp, Jne(13), Load, Cmp, Jne(13), Addr, I("restore", 0, "none"), CallRax,
    Addr, I("restore", 0, "none"), CallRax, I("store", 16, "rax"),
    Load, Cmp, Jne(26), Load, Cmp, Jne(26), Addr, I("restore", 0, "none"), CallRax,
    I("result", 16, "rax"), I("ret", 0, "none")>>

Text32 ==
  <<Enter(84), I("clear", 56, "none"), I("stack", 64, "none"), I("save", 0, "none"),
    Load, Cmp, Jne(14), Load, Cmp, Jne(14), Addr, CallRax, I("restore", 0, "none"),
    Addr, CallRax, I("store", 60, "eax"),
    Load, Cmp, Jne(26), Load, Cmp, Jne(26), Addr, CallRax, I("restore", 0, "none"),
    I("result", 60, "eax"), I("ret", 0, "none")>>

Text(a) == IF a = "stub" THEN Text64 ELSE Text32
FrameSize(a) == Text(a)[1].n

(* ud_patch_addr: the first move that still has the pattern.               *)
PatchAddr(t, addr) ==
  LET holes == {k \in DOMAIN t : t[k].op \in {"load", "addr"} /\ t[k].sym = Hole}
  IN  IF holes = {} THEN t ELSE [t EXCEPT ![Min(holes)].sym = addr]

(* A slip: iter->post is patched in where iter->rf belongs. *)
AddrsSwapped == <<"monks_state", "state", "pre", "post", "monks_state", "state", "rf">>

Addrs == <<"monks_state", "state", "pre", "rf", "monks_state", "state", "post">>

Create(a) ==
  LET after[i \in 0 .. 7] ==
        IF i = 0 THEN Text(a) ELSE PatchAddr(after[i - 1], Addrs[i])
  IN  after[7]

(* The two instructions before k, jumps not counted.                       *)
TwoBefore(t, k) ==
  LET others == {j \in 1 .. k - 1 : t[j].op # "jne"}
  IN  {j \in others : Cardinality({i \in others : i > j}) < 2}

(* A slip: the tests go, the jumps stay conditional. *)
PatchCmpOnly(t) ==
  LET jumps == {k \in DOMAIN t : t[k].op = "jne"}
      dead  == UNION {TwoBefore(t, k) : k \in jumps}
  IN  [k \in DOMAIN t |-> IF k \in dead THEN I("nop", 0, "none") ELSE t[k]]

(* ud_patch_cmp: every jne becomes a jmp, and the two instructions before  *)
(* it as many nops as they have bytes.  Nothing changes its place.         *)
PatchCmp(t) ==
  LET jumps == {k \in DOMAIN t : t[k].op = "jne"}
      dead  == UNION {TwoBefore(t, k) : k \in jumps}
  IN  [k \in DOMAIN t |-> IF k \in jumps THEN [t[k] EXCEPT !.op = "jmp"]
                          ELSE IF k \in dead THEN I("nop", 0, "none")
                          ELSE t[k]]

-----------------------------------------------------------------------------
(* The module                                                              *)

Init ==
  /\ arch \in {"stub", "stub_32"}
  /\ text = <<>>
  /\ cut = FALSE
  /\ monks_state = 0
  /\ state = 1
  /\ pc = 0
  /\ fn = "none"
  /\ rax = Null
  /\ zf = FALSE
  /\ regs \in Arguments
  /\ \E s \in Stacks : frame = [k \in 1 .. FrameSize(arch) \div 4 |-> s[k]]
  /\ args = regs
  /\ ret = <<>>
  /\ node = Null
  /\ report = "none"

(* create_stub, under stop_machine                                         *)
CreateStub ==
  /\ text = <<>>
  /\ text' = Create(arch)
  /\ UNCHANGED <<arch, cut, stateVars, pc, fn, regVars, frame, callVars>>

(* destroy_stub, under stop_machine                                        *)
DestroyStub ==
  /\ text # <<>>
  /\ ~cut
  /\ cut' = TRUE
  /\ text' = PatchCmp(text)
  /\ UNCHANGED <<arch, stateVars, pc, fn, regVars, frame, callVars>>

(* A slip: proc_dointvec where proc_dointvec_minmax is meant. *)
SysctlUnlimited ==
  /\ \/ monks_state' \in {0, 1, 2} /\ UNCHANGED state
     \/ state' \in {0, 1, 2} /\ UNCHANGED monks_state
  /\ UNCHANGED <<textVars, pc, fn, regVars, frame, callVars>>

Sysctl ==
  /\ \/ monks_state' = 1 - monks_state /\ UNCHANGED state
     \/ state' = 1 - state /\ UNCHANGED monks_state
  /\ UNCHANGED <<textVars, pc, fn, regVars, frame, callVars>>

-----------------------------------------------------------------------------
(* A thread in the stub                                                    *)

(* What is at rbp - n: eight bytes, and what is left of frame f when they  *)
(* are written, or four.                                                   *)
Quad8(n)          == <<frame[n \div 4], frame[n \div 4 - 1]>>
Put8(f, n, v)     == [f EXCEPT ![n \div 4] = v[1], ![n \div 4 - 1] = v[2]]
Put4(f, n, v)     == [f EXCEPT ![n \div 4] = v[1]]

(* What may be in rax when it is nobody's                                  *)
Scratch == {rax} \cup {left[1] : left \in Leftovers}

(* The system call: the arguments are in the registers, and on the stack   *)
(* is what the call before has left there, or something else.              *)
SysCall ==
  /\ pc = 0
  /\ text # <<>>
  /\ pc' = 1
  /\ args' \in Arguments
  /\ regs' = args'
  /\ rax' \in Scratch
  /\ zf' \in BOOLEAN
  /\ frame' \in {frame} \cup {[k \in DOMAIN frame |-> s[k]] : s \in Stacks}
  /\ ret' = <<>>
  /\ node' = Null
  /\ report' = "none"
  /\ UNCHANGED <<textVars, stateVars, fn>>

Runs(op) == fn = "none" /\ pc \in DOMAIN text /\ text[pc].op = op

Step(op) == Runs(op) /\ pc' = pc + 1
            /\ UNCHANGED <<textVars, stateVars, fn, callVars>>

PassOn == (Step("enter") \/ Step("nop")) /\ UNCHANGED <<regVars, frame>>

(* A slip: the slot of the hook info is not set to NULL. *)
ClearNothing == /\ Step("clear")
                /\ rax' = Null
                /\ UNCHANGED <<zf, regs, frame>>

Clear == /\ Step("clear")
         /\ frame' = Put8(frame, text[pc].n, Null)
         /\ rax' = Null
         /\ UNCHANGED <<zf, regs>>

(* The words above the frame are the return address and the caller's.      *)
SaveStack == /\ Step("stack")
             /\ \E s \in Stacks :
                  /\ frame' = [k \in DOMAIN frame |->
                                 IF 4 * k >= text[pc].n THEN s[k] ELSE frame[k]]
                  /\ rax' = <<s[text[pc].n \div 4], Zero>>
             /\ UNCHANGED <<zf, regs>>

SaveRegs == /\ Step("save")
            /\ LET put[i \in 0 .. 6] ==
                     IF i = 0 THEN frame
                     ELSE Put8(put[i - 1], Slots(arch)[i], regs[i])
               IN  frame' = put[6]
            /\ UNCHANGED regVars

RestoreRegs == /\ Step("restore")
               /\ regs' = [i \in 1 .. 6 |-> Quad8(Slots(arch)[i])]
               /\ UNCHANGED <<rax, zf, frame>>

LoadWord ==
  /\ Step("load")
  /\ rax' = IF (IF text[pc].sym = "state" THEN state ELSE monks_state) = 1
            THEN <<One, Zero>> ELSE Null
  /\ UNCHANGED <<zf, regs, frame>>

Compare == /\ Step("cmp")
           /\ zf' = (rax[1] = One)
           /\ UNCHANGED <<rax, regs, frame>>

Jump ==
  /\ \/ Runs("jne") /\ pc' = (IF zf THEN pc + 1 ELSE text[pc].n)
     \/ Runs("jmp") /\ pc' = text[pc].n
  /\ UNCHANGED <<textVars, stateVars, fn, regVars, frame, callVars>>

LoadAddr == /\ Step("addr")
            /\ rax' = AddressOf(text[pc].sym)
            /\ UNCHANGED <<zf, regs, frame>>

CallFunction ==
  /\ Runs("call")
  /\ fn' \in {f \in {"pre", "rf", "post"} : rax = AddressOf(f)}
  /\ pc' = pc + 1
  /\ UNCHANGED <<textVars, stateVars, regVars, frame, callVars>>

StoreResult ==
  /\ Step("store")
  /\ frame' = IF text[pc].sym = "rax" THEN Put8(frame, text[pc].n, rax)
                                      ELSE Put4(frame, text[pc].n, rax)
  /\ UNCHANGED regVars

(* A slip: the result is left in rax while the post-hook runs. *)
LoadResultNot == Step("result") /\ UNCHANGED <<regVars, frame>>

LoadResult ==
  /\ Step("result")
  /\ rax' = IF text[pc].sym = "rax" THEN Quad8(text[pc].n)
                                    ELSE <<Quad8(text[pc].n)[1], Zero>>
  /\ UNCHANGED <<zf, regs, frame>>

Return ==
  /\ Runs("ret")
  /\ pc' = 0
  /\ UNCHANGED <<textVars, stateVars, fn, regVars, frame, callVars>>

InText ==
  \/ PassOn \/ Clear \/ SaveStack \/ SaveRegs \/ RestoreRegs \/ LoadWord \/ Compare
  \/ Jump \/ LoadAddr \/ CallFunction \/ StoreResult \/ LoadResult \/ Return

-----------------------------------------------------------------------------
(* The functions a stub calls                                              *)

(* A C function may leave anything in the registers it need not save.      *)
Clobber == /\ regs' \in {regs} \cup Leftovers
           /\ zf' \in BOOLEAN

(* A slip: the macro counts one slot too few. *)
ResultAtOff == FrameSize(arch) - IF arch = "stub" THEN 40 ELSE 24

(* Their rbp + 16 is the stub's rsp: the macros count from the lower end   *)
(* of the frame.                                                           *)
ResultAt == FrameSize(arch) - IF arch = "stub" THEN 48 ELSE 24
InfoAt   == FrameSize(arch) - IF arch = "stub" THEN 56 ELSE 28

PreHook ==
  /\ fn = "pre"
  /\ fn' = "none"
  /\ node' \in {Null} \cup Nodes
  /\ frame' = Put8(frame, InfoAt, node')
  /\ Clobber
  /\ rax' \in Scratch
  /\ UNCHANGED <<textVars, stateVars, pc, args, ret, report>>

RealFunction ==
  /\ fn = "rf"
  /\ fn' = "none"
  /\ rax' \in Results
  /\ ret' = Append(ret, rax')
  /\ Clobber
  /\ UNCHANGED <<textVars, stateVars, pc, frame, args, node, report>>

PostHook ==
  /\ fn = "post"
  /\ fn' = "none"
  /\ report' = IF Quad8(InfoAt) = Null THEN "none"
               ELSE IF IsErr(Quad8(ResultAt)) THEN "Error" ELSE "Ok"
  /\ Clobber
  /\ rax' \in Scratch
  /\ UNCHANGED <<textVars, stateVars, pc, frame, args, ret, node>>

Next ==
  \/ CreateStub \/ DestroyStub \/ Sysctl
  \/ SysCall \/ InText
  \/ PreHook \/ RealFunction \/ PostHook

Spec == Init /\ [][Next]_vars

-----------------------------------------------------------------------------
Ops == {"enter", "clear", "stack", "save", "restore", "load", "cmp", "jne", "jmp", "nop",
        "addr", "call", "store", "result", "ret"}

TypeOK ==
  /\ arch \in {"stub", "stub_32"}
  /\ text # <<>> => DOMAIN text = DOMAIN Text(arch)
  /\ \A k \in DOMAIN text : text[k].op \in Ops
  /\ cut \in BOOLEAN
  /\ monks_state \in {0, 1} /\ state \in {0, 1}
  /\ pc \in 0 .. Len(Text(arch))
  /\ fn \in {"none", "pre", "rf", "post"}
  /\ zf \in BOOLEAN
  /\ DOMAIN regs = 1 .. 6
  /\ DOMAIN frame = 1 .. FrameSize(arch) \div 4
  /\ args \in Arguments
  /\ ret \in Seq(Results)
  /\ node \in {Null} \cup Nodes
  /\ report \in {"none", "Ok", "Error"}

(* Wherever the thread is when the text is patched, and whatever the hook  *)
(* before did to the registers: the pre-hook and the real function get the *)
(* arguments of the call, and so does the post-hook of the 64-bit stub.    *)
ArgsArrive ==
  fn \in {"pre", "rf"} \/ (fn = "post" /\ arch = "stub") => regs = args

(* Whatever the hooks did, the caller gets what the real function returned *)
(* (a 32-bit caller its low word).                                         *)
ResultKept ==
  Runs("ret") => \E r \in Results : /\ ret = <<r>>
                                    /\ rax[1] = r[1]
                                    /\ arch = "stub" => rax = r

(* The pre-hook comes before the real function, the post-hook after it,    *)
(* and the real function is called once.                                   *)
HooksInOrder == fn # "none" => Len(ret) = IF fn = "post" THEN 1 ELSE 0

(* The post-hook finds what the pre-hook of this call has left, and NULL   *)
(* if monks was switched on only after the call of the pre-hook.           *)
InfoOwn == fn = "post" => Quad8(InfoAt) = node

(* The call came to an error.                                              *)
Failed == ret # <<>> /\ IsErr(ret[1])

(* The 64-bit stub: a call is reported as failed if and only if it failed. *)
ReportTrue ==
  arch = "stub" /\ report # "none" => (report = "Error" <=> Failed)

(* From the moment the text is cut no thread gets from one of the tests,   *)
(* half-way through it or not, into the call of a hook.                    *)
CutSkips ==
  [][cut /\ (Runs("jne") \/ Runs("jmp") \/ Runs("nop")) =>
       (pc' \in DOMAIN text /\ ~(text[pc'].op = "addr" /\ text[pc'].sym \in {"pre", "post"}))]_vars

-----------------------------------------------------------------------------
(* What a comment promises and the 32-bit stub does not do                 *)

(* sct_hook.h:128: "This macro gives access to that result value": the     *)
(* post-hook tells a failed call from one that worked.                     *)
ResultSeen == report # "none" => (report = "Error" <=> Failed)

=============================================================================
