---------------------------- MODULE HookingCode ----------------------------
(***************************************************************************)
(* Hooking together with the disassembler it works with: what is found in  *)
(* the kernel's code, and what becomes of the bytes of a stub.             *)
(***************************************************************************)
EXTENDS Hooking, UdisUtils, InsnLength

-----------------------------------------------------------------------------
(* The entry of system calls                                               *)

(* Where the decoder and the processor part: a push or a branch with both  *)
(* 66 and rex.w has four bytes of immediate, and rex.b with 67 does not    *)
(* turn a displacement into a base.                                        *)
Deviates(code) ==
  \/ HasPrefix(code, 102) /\ RexW(code)
     /\ ImmediateLength(code, OpcodeMap(code)[1], Opcode(code), 0) = 4
  \/ HasPrefix(code, 103) /\ RexB(code)

EntryInsn == ud_disassemble(Disassembler(entry))
Comparable(d) == d.mnemonic # "invalid" /\ ~Deviates(entry)

Agrees(d) == Comparable(d) => ud_insn_len(d) = InsnLength(entry) /\ d.failed = {}

(* The decoder takes as many bytes for an instruction as the processor,    *)
(* whatever its prefixes, opcode and operands, and none of its assertions  *)
(* fails.  (What it calls invalid are no instructions in 64-bit mode, or   *)
(* later than the library.)                                                *)
LengthsAgree == loader = "hook" => Agrees(EntryInsn)

(* get_sct finds the tables: whatever instruction comes before the call    *)
(* through the table, it is neither missed nor found somewhere else,       *)
(* unless that instruction is itself a call of seven bytes.                *)
TableFound ==
  \/ loader \in {"out", "init", "hook"}
  \/ sys_call_table = Address(SysCallTable) /\ ia32_sys_call_table = Address(IA32Table)
  \/ ~Comparable(EntryInsn)
  \/ EntryInsn.mnemonic = "call" /\ InsnLength(entry) = 7

-----------------------------------------------------------------------------
(* The bytes of a stub are the text of module Stub: chunk n of the         *)
(* template stands for instruction n.                                      *)

SymbolOf(bytes, k, g) ==
  CASE bytes = Address(Monks_state(g)) -> "monks_state"
    [] bytes = Address(State(k, g))    -> "state"
    [] bytes = Address(Pre(k, g))      -> "pre"
    [] bytes = Address(Post(k, g))     -> "post"
    [] bytes \in {Address(Real(k))} \cup {Address(Stub(k, h)) : h \in 1 .. g - 1} -> "rf"
    [] OTHER -> "wild"

(* Chunk n with instruction i in its place in the template                 *)
Lifted(k, g, n, i) ==
  LET chunk == Template(Archs[k])[n]
      first == StartOf[Archs[k]][n]
      size  == Len(chunk)
      bytes == SubSeq(text[<<k, g>>], first + 1, first + size)
  IN  CASE bytes = Nops(size) -> [op |-> "nop", n |-> 0, sym |-> "none"]
        [] size > 8 /\ SubSeq(chunk, size - 7, size) = Hole
             /\ SubSeq(bytes, 1, size - 8) = SubSeq(chunk, 1, size - 8) ->
             [i EXCEPT !.sym = SymbolOf(SubSeq(bytes, size - 7, size), k, g)]
        [] chunk[1] = 117 /\ bytes = <<235, chunk[2]>> -> [i EXCEPT !.op = "jmp"]
        [] bytes = chunk -> i
        [] OTHER -> [i EXCEPT !.op = "wild"]

Bytes(k, g) == IF Made(k, g) THEN text[<<k, g>>] ELSE <<>>

(* Only the text is of interest here: there are no system calls, and the   *)
(* registers and the frame stay as they are.                               *)
Registers == [i \in 1 .. 6 |-> <<0, 0>>]
Words     == [w \in 1 .. 21 |-> 0]

Text == INSTANCE Stub WITH
  Word <- {0, 1}, Zero <- 0, One <- 1, Errors <- {}, Arguments <- {}, Results <- {},
  Nodes <- {}, Leftovers <- {}, Stacks <- {}, arch <- "stub", text <- <<>>, cut <- FALSE,
  monks_state <- 0, state <- 1, pc <- 0, fn <- "none", rax <- <<0, 0>>, zf <- FALSE,
  regs <- Registers, frame <- <<>>, args <- Registers, ret <- <<>>, node <- <<0, 0>>,
  report <- "none"

LiftedText(k, g) == IF ~Made(k, g) THEN <<>>
                  ELSE LET t == Text!Text(Archs[k])
                       IN  [n \in DOMAIN t |-> Lifted(k, g, n, t[n])]

(* create_stub and destroy_stub do to the bytes what module Stub does to   *)
(* its text: the addresses are wired in order, nothing else changes, and   *)
(* from a stub that is cut every jump goes where it went before.           *)
S(k, g) == INSTANCE Stub WITH
  Word <- {0, 1}, Zero <- 0, One <- 1, Errors <- {}, Arguments <- {Registers}, Results <- {},
  Nodes <- {}, Leftovers <- {}, Stacks <- {Words}, arch <- Archs[k], text <- LiftedText(k, g),
  cut <- IsCut(k, g), monks_state <- 0, state <- 1, pc <- 0, fn <- "none", rax <- <<0, 0>>,
  zf <- FALSE, regs <- Registers, args <- Registers, ret <- <<>>, node <- <<0, 0>>,
  frame <- [w \in 1 .. Text!FrameSize(Archs[k]) \div 4 |-> 0], report <- "none"

PatchesText ==
  /\ \A k \in Calls, g \in Loads : S(k, g)!Init
  /\ [][\A k \in Calls, g \in Loads :
          UNCHANGED Bytes(k, g) \/ [S(k, g)!Next]_(S(k, g)!vars)]_vars

=============================================================================
