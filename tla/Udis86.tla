------------------------------- MODULE Udis86 -------------------------------
(***************************************************************************)
(* The decoder of libudis86 (decode.c, udis86.c) on an input buffer: an    *)
(* operator takes the ud_t record and returns it as the function of that   *)
(* name leaves it.  Left out is what only a printed instruction shows: the *)
(* segment, lock and repne prefixes, mnemonics nobody asks for, far jumps. *)
(* UD_ASSERT is empty in the module's build; failed keeps the lines of     *)
(* decode.c where it would have stopped the decoding.                      *)
(***************************************************************************)
EXTENDS OpcodeTables, InsnTable, TLC

MAX_INSN_LENGTH == 15

Bits(b, from, n) == (b \div 2^from) % 2^n

MODRM_MOD(b) == Bits(b, 6, 2)
MODRM_REG(b) == Bits(b, 3, 3)
MODRM_RM(b)  == Bits(b, 0, 3)

REX_W(r) == Bits(r, 3, 1)
REX_R(r) == Bits(r, 2, 1)
REX_X(r) == Bits(r, 1, 1)
REX_B(r) == Bits(r, 0, 1)

NoModrm == -1
None    == <<"NONE", 0>>
Reg(class, n) == <<class, n>>

(* struct ud_operand; lval: the bytes of the immediate or displacement.    *)
NoOperand == [type |-> "NONE", size |-> 0, base |-> None, index |-> None, scale |-> 0,
              offset |-> 0, lval |-> <<>>]

(* ud_init, ud_set_mode, ud_set_vendor(UD_VENDOR_ANY), ud_set_input_buffer *)
ud_init(buf, mode) ==
  [inp_buf |-> buf, inp_buf_index |-> 0, inp_curr |-> 0, inp_ctr |-> 0, inp_end |-> FALSE,
   dis_mode |-> mode, pc |-> 0, insn_offset |-> 0, error |-> FALSE, mnemonic |-> "invalid",
   itab_entry |-> <<>>, operand |-> [k \in 1 .. 4 |-> NoOperand], pfx_rex |-> 0, pfx_opr |-> 0,
   pfx_adr |-> 0, pfx_str |-> 0, pfx_repe |-> 0, rex |-> 0, opr_mode |-> 0, adr_mode |-> 0,
   modrm |-> NoModrm, vex |-> <<>>, failed |-> {}]

(* What the last instruction left in an operand but its type stays.        *)
clear_insn(u) ==
  [u EXCEPT !.error = FALSE, !.pfx_opr = 0, !.pfx_adr = 0, !.pfx_repe = 0, !.pfx_rex = 0,
            !.pfx_str = 0, !.mnemonic = "none", !.modrm = NoModrm, !.vex = <<>>, !.rex = 0,
            !.operand = [k \in 1 .. 4 |-> [@[k] EXCEPT !.type = "NONE"]]]

Fail(u) == [u EXCEPT !.error = TRUE]
UD_ASSERT(u, holds, line) == IF holds THEN u ELSE [u EXCEPT !.failed = @ \cup {line}]

-----------------------------------------------------------------------------
(* Input                                                                   *)

(* The next n bytes, zeros after the end                                   *)
Peek(u, n) == [i \in 1 .. n |-> IF u.inp_buf_index + i <= Len(u.inp_buf)
                                THEN u.inp_buf[u.inp_buf_index + i] ELSE 0]

(* inp_next n times                                                        *)
inp_next(u, n) ==
  LET left == Len(u.inp_buf) - u.inp_buf_index
      k    == IF n <= left THEN n ELSE left
  IN  [u EXCEPT !.inp_buf_index = @ + k, !.inp_ctr = @ + k,
                !.inp_curr = IF k = 0 THEN @ ELSE u.inp_buf[u.inp_buf_index + k],
                !.inp_end = @ \/ k < n, !.error = @ \/ k < n]

modrm(u) == IF u.modrm # NoModrm THEN u
            ELSE [inp_next(u, 1) EXCEPT !.modrm = Peek(u, 1)[1]]

IsRex(u, b) == u.dis_mode = 64 /\ Bits(b, 4, 4) = 4

(* A prefix byte and what it sets; the others only count as prefixes.      *)
Prefix(u, b) ==
  CASE b = 103 (* 67 *) -> [u EXCEPT !.pfx_adr = b]
    [] b = 102 (* 66 *) -> [u EXCEPT !.pfx_opr = b]
    [] b \in {242, 243} (* f2, f3 *) -> [u EXCEPT !.pfx_str = b]
    [] OTHER -> u

PrefixBytes == {46, 54, 62, 38, 100, 101, 103, 240, 102, 242, 243}

RECURSIVE decode_prefixes(_, _)
decode_prefixes(u, last) ==
  LET n == inp_next(u, 1) IN
  IF n.error \/ n.inp_ctr = MAX_INSN_LENGTH THEN Fail(n)
  ELSE IF n.inp_curr \in PrefixBytes \/ IsRex(n, n.inp_curr)
  THEN decode_prefixes(Prefix(n, n.inp_curr), n.inp_curr)
  ELSE [n EXCEPT !.pfx_rex = IF IsRex(n, last) THEN last ELSE 0]

-----------------------------------------------------------------------------
(* Sizes and registers                                                     *)

eff_opr_mode(mode, rex_w, pfx_opr) ==
  CASE mode = 64 -> IF rex_w = 1 THEN 64 ELSE IF pfx_opr # 0 THEN 16 ELSE 32
    [] mode = 32 -> IF pfx_opr # 0 THEN 16 ELSE 32
    [] mode = 16 -> IF pfx_opr # 0 THEN 32 ELSE 16

eff_adr_mode(mode, pfx_adr) ==
  CASE mode = 64 -> IF pfx_adr # 0 THEN 32 ELSE 64
    [] mode = 32 -> IF pfx_adr # 0 THEN 16 ELSE 32
    [] mode = 16 -> IF pfx_adr # 0 THEN 32 ELSE 16

vex_l(u) == Bits(u.vex[IF u.vex[1] = 196 THEN 3 ELSE 2], 2, 1)
vex_w(u) == IF u.vex[1] = 196 THEN Bits(u.vex[3], 7, 1) ELSE 0

(* An entry of ud_itab: its flags and its operands                         *)
ItabEntry(n) == Format[ud_itab[n + 1]]
P(u) == Flags[u.itab_entry[1]]

SZ == [NA |-> 0, B |-> 8, W |-> 16, D |-> 32, Q |-> 64, T |-> 80, O |-> 128, DQ |-> 128,
       QQ |-> 256]

(* SZ_BD and the like: the width in memory and in a register               *)
Mx == [BD |-> <<"B", "D">>, BV |-> <<"B", "V">>, WD |-> <<"W", "D">>, WV |-> <<"W", "V">>,
       WY |-> <<"W", "Y">>, DY |-> <<"D", "Y">>, WO |-> <<"W", "O">>, DO |-> <<"D", "O">>,
       QO |-> <<"Q", "O">>]

resolve_operand_size(u, size) ==
  CASE size = "V"   -> u.opr_mode
    [] size = "Z"   -> IF u.opr_mode = 16 THEN 16 ELSE 32
    [] size = "Y"   -> IF u.opr_mode = 16 THEN 32 ELSE u.opr_mode
    [] size = "RDQ" -> IF u.dis_mode = 64 THEN 64 ELSE 32
    [] size = "X"   -> IF "vexl" \in P(u) /\ u.vex # <<>> /\ vex_l(u) = 1 THEN 256 ELSE 128
    [] OTHER        -> SZ[size]

SetOperand(u, k, fields) == [u EXCEPT !.operand[k] = fields @@ @]

decode_gpr(u, size, rm) ==
  CASE size = 64 -> Reg("R64", rm)
    [] size = 32 -> Reg("R32", rm)
    [] size = 16 -> Reg("R16", rm)
    [] size = 8  -> Reg("R8", IF u.dis_mode = 64 /\ u.pfx_rex # 0 /\ rm >= 4
                              THEN rm + 4 ELSE rm)
    [] OTHER     -> None

decode_reg(u, k, class, num, size) ==
  LET s == resolve_operand_size(u, size)
      v == UD_ASSERT(UD_ASSERT(u, size # "X" \/ u.vex # <<>>, 334),
                     class # "GPR" \/ s \in {8, 16, 32, 64} \/ (s = 0 /\ u.error),
                     IF s = 0 THEN 417 ELSE 420)
      reg == CASE class = "GPR" -> decode_gpr(u, s, num)
               [] class = "XMM" -> Reg(IF s = 256 THEN "YMM" ELSE "XMM", num)
               [] class \in {"MMX", "SEG"} -> Reg(class, num % 8)
               [] class \in {"CR", "DB"} -> Reg(class, num)
  IN  IF class = "SEG" /\ num % 8 > 5 THEN Fail(v)
      ELSE SetOperand(v, k, [type |-> "REG", base |-> reg, size |-> s])

-----------------------------------------------------------------------------
(* Operands                                                                *)

(* bytes of an operand: read in any case, stored where there are some      *)
Value(u, k, n) ==
  IF n = 0 THEN u ELSE [inp_next(u, n) EXCEPT !.operand[k].lval = Peek(u, n)]

decode_imm(u, k, size) ==
  LET s == resolve_operand_size(u, size)
  IN  Value(SetOperand(u, k, [type |-> "IMM", size |-> s]), k, IF s \in {8, 16, 32, 64} THEN s \div 8
                                                       ELSE 0)

decode_mem_disp(u, k, offset) ==
  Value([u EXCEPT !.operand[k].offset = offset], k, offset \div 8)

(* seg:offset                                                              *)
decode_a(u, k) ==
  LET s == IF u.opr_mode = 16 THEN 32 ELSE 48
  IN  Value(SetOperand(u, k, [type |-> "PTR", size |-> s]), k, s \div 8)

decode_moffset(u, k, size) ==
  decode_mem_disp(SetOperand(u, k, [type |-> "MEM", base |-> None, index |-> None, scale |-> 0,
                             size |-> resolve_operand_size(u, size)]), k, u.adr_mode)

decode_modrm_reg(u, k, class, size) ==
  LET m == modrm(u) IN decode_reg(m, k, class, 8 * REX_R(m.rex) + MODRM_REG(m.modrm), size)

(* An address of 16 bits: its registers and the width of the displacement  *)
Address16(mod, rm) ==
  LET bare == mod = 0 /\ rm = 6
  IN  [base   |-> IF bare THEN None ELSE Reg("R16", <<3, 3, 5, 5, 6, 7, 5, 3>>[(rm % 8) + 1]),
       index  |-> IF rm % 8 < 4 THEN Reg("R16", <<6, 7, 6, 7>>[(rm % 8) + 1]) ELSE None,
       scale  |-> 0,
       offset |-> IF mod = 1 THEN 8 ELSE IF mod = 2 \/ bare THEN 16 ELSE 0]

(* A slip: the displacement of a SIB byte without a base is forgotten. *)
EffectiveAddressNoSibDisp(u, mod, rm, sib) ==
  LET has   == rm % 8 = 4
      rex   == IF u.adr_mode = 64 THEN u.rex ELSE u.pfx_rex
      class == IF u.adr_mode = 64 THEN "R64" ELSE "R32"
      base  == IF has THEN 8 * REX_B(rex) + Bits(sib, 0, 3) ELSE rm
      index == 8 * REX_X(rex) + Bits(sib, 3, 3)
      bare  == ~has /\ rm % 8 = 5
  IN  [base   |-> IF mod # 0 \/ ~bare THEN Reg(class, base)
                  ELSE IF has \/ u.adr_mode = 32 THEN None ELSE Reg("RIP", 0),
       index  |-> IF has /\ index # 4 THEN Reg(class, index) ELSE None,
       scale  |-> IF has /\ index # 4 /\ sib >= 64 THEN 2^(sib \div 64) ELSE 0,
       offset |-> IF mod = 1 THEN 8 ELSE IF mod = 2 \/ bare THEN 32 ELSE 0]

(* An address of 32 or 64 bits.  bare: what would be [rbp] is no base but  *)
(* a displacement; with 32 bits REX.B is not kept apart from the number.   *)
EffectiveAddress(u, mod, rm, sib) ==
  LET has   == rm % 8 = 4
      rex   == IF u.adr_mode = 64 THEN u.rex ELSE u.pfx_rex
      class == IF u.adr_mode = 64 THEN "R64" ELSE "R32"
      base  == IF has THEN 8 * REX_B(rex) + Bits(sib, 0, 3) ELSE rm
      index == 8 * REX_X(rex) + Bits(sib, 3, 3)
      bare  == base = 5 \/ (u.adr_mode = 64 /\ base = 13)
  IN  [base   |-> IF mod # 0 \/ ~bare THEN Reg(class, base)
                  ELSE IF has \/ u.adr_mode = 32 THEN None ELSE Reg("RIP", 0),
       index  |-> IF has /\ index # 4 THEN Reg(class, index) ELSE None,
       scale  |-> IF has /\ index # 4 /\ sib >= 64 THEN 2^(sib \div 64) ELSE 0,
       offset |-> IF mod = 1 THEN 8 ELSE IF mod = 2 \/ bare THEN 32 ELSE 0]

decode_modrm_rm(u, k, class, size) ==
  LET m   == modrm(u)
      mod == MODRM_MOD(m.modrm)
      rm  == 8 * REX_B(m.rex) + MODRM_RM(m.modrm)
      s   == IF u.adr_mode # 16 /\ rm % 8 = 4 THEN inp_next(m, 1) ELSE m
      a   == IF u.adr_mode = 16 THEN Address16(mod, rm) ELSE EffectiveAddress(m, mod, rm, s.inp_curr)
      v   == UD_ASSERT(s, size # "X" \/ u.vex # <<>>, 334)
  IN  IF mod = 3 THEN decode_reg(m, k, class, rm, size)
      ELSE decode_mem_disp(SetOperand(v, k, [type |-> "MEM", size |-> resolve_operand_size(m, size)] @@ a),
                           k, a.offset)

(* Source operand in bits 4 to 7 of an immediate byte                      *)
decode_vex_immreg(u, k, size) ==
  LET n == inp_next(u, 1)
      v == UD_ASSERT(n, u.vex # <<>>, 713)
  IN  IF n.error THEN n
      ELSE decode_reg(v, k, "XMM", (n.inp_curr \div 16) % (IF u.dis_mode = 64 THEN 16 ELSE 8), size)

decode_vex_vvvv(u, k, size) ==
  IF u.vex = <<>> THEN UD_ASSERT(u, FALSE, 697)
  ELSE decode_reg(u, k, "XMM", 15 - Bits(u.vex[IF u.vex[1] = 196 THEN 3 ELSE 2], 3, 4), size)

(* Which field of the modrm byte an operand is in, and its registers       *)
RmClass == [E |-> "GPR", M |-> "GPR", F |-> "GPR", R |-> "GPR", MR |-> "GPR",
            Q |-> "MMX", N |-> "MMX", W |-> "XMM", U |-> "XMM", MU |-> "XMM"]
RegClass == [G |-> "GPR", P |-> "MMX", V |-> "XMM", S |-> "SEG", C |-> "CR", D |-> "DB"]

Fixed == [AL |-> 0, AX |-> 0, eAX |-> 0, rAX |-> 0, CL |-> 1, CX |-> 1, eCX |-> 1, rCX |-> 1,
          DL |-> 2, DX |-> 2, eDX |-> 2, rDX |-> 2]
InOpcode == [R0 |-> 0, R1 |-> 1, R2 |-> 2, R3 |-> 3, R4 |-> 4, R5 |-> 5, R6 |-> 6, R7 |-> 7]
Segment  == [ES |-> 0, CS |-> 1, SS |-> 2, DS |-> 3, FS |-> 4, GS |-> 5]
Const    == [I1 |-> 1, I3 |-> 3]

(* Operands in r/m: some must be in memory, some in a register.  If they   *)
(* are not that is an error, but they are decoded all the same.            *)
decode_rm_operand(u, k, code, size) ==
  LET m   == modrm(u)
      reg == MODRM_MOD(m.modrm) = 3
      v   == IF (code \in {"M", "F"} /\ reg) \/ (code \in {"N", "U", "R"} /\ ~reg)
             THEN Fail(m) ELSE m
  IN  decode_modrm_rm(v, k, RmClass[code],
                      IF code \in {"MR", "MU"} THEN Mx[size][IF reg THEN 2 ELSE 1] ELSE size)

decode_operand(u, k, name) ==
  LET code == Operand[name][1]
      size == Operand[name][2]
  IN  CASE code \in DOMAIN RmClass  -> decode_rm_operand(u, k, code, size)
        [] code \in DOMAIN RegClass -> decode_modrm_reg(u, k, RegClass[code], size)
        [] code \in DOMAIN Fixed    -> decode_reg(u, k, "GPR", Fixed[code], size)
        [] code \in DOMAIN InOpcode ->
             decode_reg(u, k, "GPR", 8 * REX_B(u.rex) + InOpcode[code], size)
        [] code \in {"I", "sI"}     -> decode_imm(u, k, size)
        [] code = "J"               -> SetOperand(decode_imm(u, k, size), k, [type |-> "JIMM"])
        [] code \in DOMAIN Const    -> SetOperand(u, k, [type |-> "CONST", lval |-> <<Const[code]>>])
        [] code = "A"               -> decode_a(u, k)
        [] code = "O"               -> decode_moffset(u, k, size)
        [] code = "H"               -> decode_vex_vvvv(u, k, size)
        [] code = "L"               -> decode_vex_immreg(u, k, size)
        [] code \in DOMAIN Segment  ->
             SetOperand(IF u.dis_mode = 64 /\ code \notin {"FS", "GS"} THEN Fail(u) ELSE u,
                 k, [type |-> "REG", base |-> Reg("SEG", Segment[code]), size |-> 16])
        [] OTHER (* ST0 to ST7 *)   ->
             SetOperand(u, k, [type |-> "REG", base |-> Reg(code, 0), size |-> 80])

(* An operand is decoded only if the one before has a type.                *)
RECURSIVE OperandsFrom(_, _)
OperandsFrom(u, k) ==
  IF k < Len(u.itab_entry) /\ (k = 1 \/ u.operand[k - 1].type # "NONE")
  THEN OperandsFrom(decode_operand(u, k, u.itab_entry[k + 1]), k + 1) ELSE u

decode_operands(u) == OperandsFrom(u, 1)

-----------------------------------------------------------------------------
(* Instructions                                                            *)

resolve_pfx_str(u) ==
  IF u.pfx_str = 243 /\ "str" \notin P(u) THEN [u EXCEPT !.pfx_repe = 243] ELSE u

EffectiveRex(u) ==
  IF u.vex = <<>> THEN u.pfx_rex
  ELSE IF u.vex[1] = 196 THEN 7 - Bits(u.vex[2], 5, 3) + 8 * Bits(u.vex[3], 7, 1)
  ELSE 4 * (1 - Bits(u.vex[2], 7, 1))

(* The bits of rex the instruction looks at                                *)
Masked(rex, p) ==
  (IF "rexw" \in p THEN 8 * REX_W(rex) ELSE 0) + (IF "rexr" \in p THEN 4 * REX_R(rex) ELSE 0)
  + (IF "rexx" \in p THEN 2 * REX_X(rex) ELSE 0) + (IF "rexb" \in p THEN REX_B(rex) ELSE 0)

resolve_mode(u) ==
  LET rex == Masked(EffectiveRex(u), P(u)) IN
  IF u.dis_mode = 64 /\ "inv64" \in P(u) THEN Fail(u)
  ELSE IF u.dis_mode = 64
  THEN [u EXCEPT !.rex = rex, !.adr_mode = eff_adr_mode(64, u.pfx_adr),
                 !.opr_mode = IF REX_W(rex) = 1 THEN 64 ELSE IF u.pfx_opr # 0 THEN 16
                              ELSE IF "def64" \in P(u) THEN 64 ELSE 32]
  ELSE [u EXCEPT !.opr_mode = eff_opr_mode(u.dis_mode, 0, u.pfx_opr),
                 !.adr_mode = eff_adr_mode(u.dis_mode, u.pfx_adr)]

(* xchg eax, eax is a nop, and a nop with f3 a pause.                      *)
resolve_mnemonic(u) ==
  LET ax == {Reg("R16", 0), Reg("R32", 0)}
      same == \E r \in ax : \A k \in 1 .. 2 : u.operand[k].type = "REG" /\ u.operand[k].base = r
      v == IF u.mnemonic = "xchg" /\ same
           THEN [SetOperand(SetOperand(u, 1, [type |-> "NONE"]), 2, [type |-> "NONE"]) EXCEPT !.mnemonic = "nop"]
           ELSE u
  IN  IF u.mnemonic = "swapgs" /\ u.dis_mode # 64 THEN Fail(u)
      ELSE IF v.mnemonic = "nop" /\ v.pfx_repe # 0
      THEN [v EXCEPT !.mnemonic = "pause", !.pfx_repe = 0] ELSE v

InMode(v, w) ==
  IF v.error \/ w.error THEN Fail(v) ELSE resolve_mnemonic(decode_operands(w))

decode_insn(u, n) ==
  LET v == resolve_pfx_str([u EXCEPT !.itab_entry = ItabEntry(n), !.mnemonic = Mnemonic[n]])
  IN  InMode(v, resolve_mode(v))

(* A vex prefix is two or three bytes, c5 or c4 first; outside of 64-bit   *)
(* mode these are lds and les unless the next byte would be a register.    *)
IsVex(u) == u.dis_mode = 64 \/ MODRM_MOD(Peek(u, 1)[1]) = 3

decode_vex(u) ==
  LET n == IF u.inp_curr = 196 THEN 2 ELSE 1 IN
  [inp_next(u, n) EXCEPT !.vex = <<u.inp_curr>> \o Peek(u, n)]

(* The entry of a table that the input selects, for the tables that read   *)
(* nothing but the modrm byte.                                             *)
Index(u, type, table) ==
  CASE type = "MOD"    -> (MODRM_MOD(u.modrm) + 1) \div 4
    [] type = "RM"     -> MODRM_RM(u.modrm)
    [] type = "REG"    -> MODRM_REG(u.modrm)
    [] type = "X87"    -> u.modrm - 192
    [] type = "MODE"   -> IF u.dis_mode = 64 THEN 1 ELSE 0
    [] type = "OSIZE"  -> eff_opr_mode(u.dis_mode, REX_W(u.pfx_rex), u.pfx_opr) \div 32
    [] type = "ASIZE"  -> eff_adr_mode(u.dis_mode, u.pfx_adr) \div 32
    [] type = "VENDOR" -> IF table[1] # 0 THEN 0 ELSE 1     \* UD_VENDOR_ANY
    [] type = "VEX_W"  -> vex_w(u)
    [] type = "VEX_L"  -> vex_l(u)

(* f2 and f3 go before 66; a prefix that selects an entry is used up.      *)
ssepfx(u, table) ==
  LET pfx == IF u.pfx_str # 0 THEN u.pfx_str ELSE u.pfx_opr
      idx == ((pfx % 16) + 1) \div 2
  IN  IF table[idx + 1] = 0 THEN 0 ELSE idx

decode_ssepfx(u, idx) ==
  IF idx = 0 THEN u
  ELSE [u EXCEPT !.pfx_str = 0, !.pfx_opr = IF u.pfx_str = 0 THEN 0 ELSE @]

RECURSIVE decode_ext(_, _)

Enter(u, table, idx) == decode_ext(u, table[idx + 1])

EnterVex(u, v, table) ==
  LET m == v.vex[2] % 32 IN
  CASE ~IsVex(u) -> Enter(IF Len(u.inp_buf) = u.inp_buf_index THEN inp_next(u, 1) ELSE u, table, 0)
    [] IsVex(u) /\ u.inp_curr = 197 -> Enter(v, table, 1 + 4 * (v.vex[2] % 4))
    [] IsVex(u) /\ u.inp_curr = 196 -> IF v.error \/ m = 0 \/ m > 3 THEN Fail(v)
                                      ELSE Enter(v, table, m + 4 * (v.vex[3] % 4))

(* The last byte of a 3dnow instruction, after its operands, says which.   *)
NameFrom(n, table) ==
  IF n.error THEN n ELSE [n EXCEPT !.mnemonic = Mnemonic[table[n.inp_curr + 1]]]
decode_3dnow(u, table) == NameFrom(inp_next(Enter(u, table, 12), 1), table)

EnterOpcode(n, table) == IF n.error THEN n ELSE Enter(n, table, n.inp_curr)

decode_table(u, type, table) ==
  CASE type = "DNOW3" -> decode_3dnow(u, table)
    [] type = "SSE"   -> LET idx == ssepfx(u, table) IN Enter(decode_ssepfx(u, idx), table, idx)
    [] type = "VEX"   -> EnterVex(u, decode_vex(u), table)
    [] type = "TABLE" -> EnterOpcode(inp_next(u, 1), table)
    [] type \in {"MOD", "RM", "REG", "X87"} ->
         LET m == modrm(u) IN Enter(m, table, Index(m, type, table))
    [] type \in {"MODE", "OSIZE", "ASIZE", "VENDOR", "VEX_W", "VEX_L"} ->
         Enter(u, table, Index(u, type, table))

decode_ext(u, ptr) ==
  IF ptr >= 0 THEN decode_insn(u, ptr)
  ELSE decode_table(u, TableType[-ptr], ud_lookup_table_list[1 - ptr])

decode_opcode(u) == IF u.error THEN u ELSE decode_ext(u, ud_itab__0[u.inp_curr + 1])

(* What cannot be decoded is an instruction all the same, an invalid one.  *)
OrInvalid(d) ==
  IF d.error THEN [clear_insn(d) EXCEPT !.itab_entry = ItabEntry(0), !.mnemonic = "invalid"] ELSE d

At_pc(u, d) == [d EXCEPT !.insn_offset = u.pc, !.pc = u.pc + d.inp_ctr]

ud_decode(u) ==
  At_pc(u, OrInvalid(decode_opcode(decode_prefixes(
             [clear_insn(u) EXCEPT !.inp_ctr = 0, !.failed = {}], 0))))

ud_insn_off(u) == u.insn_offset
ud_insn_len(u) == u.inp_ctr

ud_disassemble(u) == IF u.inp_end THEN u ELSE ud_decode(u)

(* ud_disassemble, which has taken u to d, returns zero.                   *)
Ended(u, d) == u.inp_end \/ d.inp_ctr = 0

=============================================================================
