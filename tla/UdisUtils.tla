----------------------------- MODULE UdisUtils -----------------------------
(***************************************************************************)
(* monks_kmodule/udis_utils.c on a 64-bit kernel: what is done with the    *)
(* disassembler.  Memory is a sequence of bytes; a function that writes to *)
(* it returns it as it is afterwards.  The code is patched while it is     *)
(* read, but only where the disassembler has been.                         *)
(***************************************************************************)
EXTENDS Udis86, StubText

Disassembler(mem) == ud_init(mem, 64)

(* Bytes first + 1, ... of mem replaced                                    *)
memcpy(mem, first, bytes) ==
  [i \in DOMAIN mem |-> IF i - first \in DOMAIN bytes THEN bytes[i - first] ELSE mem[i]]

Nops(n) == [i \in 1 .. n |-> 144]

-----------------------------------------------------------------------------
(* The length of the function at the start of mem, up to its first ret     *)

RECURSIVE SizeFrom(_)
SizeAfter(u, d) ==
  IF Ended(u, d) THEN 0
  ELSE IF d.mnemonic = "ret" THEN ud_insn_off(d) + ud_insn_len(d)
  ELSE SizeFrom(d)
SizeFrom(u) == SizeAfter(u, ud_disassemble(u))

ud_get_stub_size(mem) == SizeFrom(Disassembler(mem))

Function(mem) == SubSeq(mem, 1, ud_get_stub_size(mem))

-----------------------------------------------------------------------------
(* The first mov that ends in eight times 0x10 gets addr instead.          *)

IsHole(d) ==
  LET at == ud_insn_off(d) + ud_insn_len(d) - 8
  IN  /\ d.mnemonic = "mov"
      /\ d.operand[2].type \in {"IMM", "MEM"}
      /\ ud_insn_len(d) > 8
      /\ SubSeq(d.inp_buf, at + 1, at + 8) = Hole

RECURSIVE PatchFrom(_, _)
PatchAfter(u, d, addr) ==
  IF Ended(u, d) THEN u.inp_buf
  ELSE IF IsHole(d) THEN memcpy(d.inp_buf, ud_insn_off(d) + ud_insn_len(d) - 8, addr)
  ELSE PatchFrom(d, addr)
PatchFrom(u, addr) == PatchAfter(u, ud_disassemble(u), addr)

ud_patch_addr(mem, addr) == PatchFrom(Disassembler(Function(mem)), addr)

-----------------------------------------------------------------------------
(* Each jne becomes a jmp, and the two instructions before it nops.        *)

Nothing == <<0, 0>>        \* an instruction: where it is and how long

RECURSIVE CutFrom(_, _, _)

(* A slip: only the instruction right before the jump becomes nops.        *)
CutAfterOne(u, d, addr1, addr2) ==
  LET here == <<ud_insn_off(d), ud_insn_len(d)>>
      nops == memcpy(d.inp_buf, addr2[1], Nops(addr2[2]))
  IN  IF Ended(u, d) THEN u.inp_buf
      ELSE IF d.mnemonic # "jnz" THEN CutFrom(d, addr2, here)
      ELSE CutFrom([d EXCEPT !.inp_buf = memcpy(nops, here[1], <<235>>)], addr1, addr2)

CutAfter(u, d, addr1, addr2) ==
  LET here == <<ud_insn_off(d), ud_insn_len(d)>>
      nops == memcpy(memcpy(d.inp_buf, addr1[1], Nops(addr1[2])), addr2[1], Nops(addr2[2]))
  IN  IF Ended(u, d) THEN u.inp_buf
      ELSE IF d.mnemonic # "jnz" THEN CutFrom(d, addr2, here)
      ELSE CutFrom([d EXCEPT !.inp_buf = memcpy(nops, here[1], <<235>>)], addr1, addr2)
CutFrom(u, addr1, addr2) == CutAfter(u, ud_disassemble(u), addr1, addr2)

ud_patch_cmp(mem) == CutFrom(Disassembler(Function(mem)), Nothing, Nothing)

-----------------------------------------------------------------------------
(* The displacement of the first call that is seven bytes long             *)

RECURSIVE FindFrom(_)

(* A slip: any call will do.                                               *)
FindAfterAny(u, d) ==
  IF Ended(u, d) THEN <<>>
  ELSE IF d.mnemonic = "call" THEN d.operand[1].lval \o <<255, 255, 255, 255>>
  ELSE FindFrom(d)

FindAfter(u, d) ==
  IF Ended(u, d) THEN <<>>
  ELSE IF d.mnemonic = "call" /\ ud_insn_len(d) = 7
  THEN d.operand[1].lval \o <<255, 255, 255, 255>>
  ELSE FindFrom(d)
FindFrom(u) == FindAfter(u, ud_disassemble(u))

ud_find_syscall_table_addr(mem) == FindFrom(Disassembler(mem))

=============================================================================
