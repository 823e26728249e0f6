----------------------------- MODULE InsnLength -----------------------------
(***************************************************************************)
(* The length of an instruction in 64-bit mode as the processor has it:    *)
(* prefixes, opcode, modrm and sib byte, displacement, immediate.  This is *)
(* the reference the decoder of module Udis86 is compared with; it is not  *)
(* made from its tables.                                                   *)
(***************************************************************************)
EXTENDS Integers, Sequences

LOCAL Low(b, n) == b % 2^n

LegacyPrefixes == {38, 46, 54, 62, 100, 101, 102, 103, 240, 242, 243}
IsPrefixByte(b) == b \in LegacyPrefixes \/ b \div 16 = 4

PrefixLength(code) ==
  CHOOSE n \in 0 .. Len(code) - 1 : /\ ~IsPrefixByte(code[n + 1])
                                    /\ \A i \in 1 .. n : IsPrefixByte(code[i])

HasPrefix(code, b) == \E i \in 1 .. PrefixLength(code) : code[i] = b

(* A rex prefix counts only right before the opcode.                       *)
RexW(code) == LET n == PrefixLength(code) IN n > 0 /\ code[n] \in 72 .. 79
RexB(code) == LET n == PrefixLength(code) IN n > 0 /\ code[n] \in {65 + 2 * r : r \in 0 .. 7}

(* Which opcode map, and the number of bytes up to the opcode              *)
OpcodeMap(code) ==
  LET n    == PrefixLength(code)
      b(i) == code[n + i]
  IN
  CASE b(1) = 15 /\ b(2) = 56 -> <<2, 3>>
    [] b(1) = 15 /\ b(2) = 58 -> <<3, 3>>
    [] b(1) = 15 /\ b(2) \notin {56, 58} -> <<1, 2>>
    [] b(1) = 197 -> <<1, 3>>
    [] b(1) = 196 -> <<Low(b(2), 5), 4>>
    [] OTHER -> <<0, 1>>

Opcode(code) == code[PrefixLength(code) + OpcodeMap(code)[2]]

HasModrm(map, op) ==
  CASE map = 0 -> \/ op < 64 /\ op % 8 < 4
                  \/ op \in {99, 105, 107} \cup 128 .. 143 \cup {192, 193, 198, 199}
                  \/ op \in 208 .. 211 \cup 216 .. 223 \cup {246, 247, 254, 255}
    [] map = 1 -> op \notin {5, 6, 7, 8, 9, 11, 14, 119} \cup 48 .. 55 \cup 128 .. 143
                           \cup {160, 161, 162, 168, 169, 170} \cup 200 .. 207
    [] map \in {2, 3} -> TRUE

(* modrm, sib and displacement                                             *)
AddressLength(m, sib) ==
  LET mod == m \div 64
      rm  == m % 8
      hasSib == mod # 3 /\ rm = 4
  IN  1 + (IF hasSib THEN 1 ELSE 0)
        + (CASE mod = 1 -> 1
             [] mod = 2 -> 4
             [] mod = 0 /\ (rm = 5 \/ (hasSib /\ sib % 8 = 5)) -> 4
             [] OTHER -> 0)

(* z is four bytes, or two with the prefix 66.                             *)
ImmediateLength(code, map, op, m) ==
  LET z == IF HasPrefix(code, 102) /\ ~RexW(code) THEN 2 ELSE 4
      test == m \div 8 % 8 < 2
  IN
  CASE map = 0 /\ ((op < 64 /\ op % 8 = 4) \/ op \in {106, 107, 128, 131, 168, 192, 193, 198, 205}
                   \/ op \in 112 .. 127 \cup 176 .. 183 \cup 224 .. 231 \cup {235}) -> 1
    [] map = 0 /\ ((op < 64 /\ op % 8 = 5) \/ op \in {104, 105, 129, 169, 199, 232, 233}) -> z
    [] map = 0 /\ op \in 160 .. 163 -> IF HasPrefix(code, 103) THEN 4 ELSE 8
    [] map = 0 /\ op \in 184 .. 191 -> IF RexW(code) THEN 8 ELSE z
    [] map = 0 /\ op \in {194, 202} -> 2
    [] map = 0 /\ op = 200 -> 3
    [] map = 0 /\ op = 246 /\ test -> 1
    [] map = 0 /\ op = 247 /\ test -> z
    [] map = 1 /\ op \in {112, 113, 114, 115, 164, 172, 186, 194, 196, 197, 198, 15} -> 1
    [] map = 1 /\ op \in 128 .. 143 -> z
    [] map = 3 -> 1
    [] OTHER -> 0

InsnLength(code) ==
  LET opcode == OpcodeMap(code)
      map == opcode[1]
      at  == PrefixLength(code) + opcode[2]
      m   == code[at + 1]
  IN  at + (IF HasModrm(map, code[at]) THEN AddressLength(m, code[at + 2]) ELSE 0)
         + ImmediateLength(code, map, code[at], m)

=============================================================================
