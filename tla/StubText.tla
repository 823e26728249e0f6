------------------------------ MODULE StubText ------------------------------
(***************************************************************************)
(* The bytes the assembler makes of the two stubs of a 64-bit kernel       *)
(* (monks_kmodule/stubs.S), a sequence per instruction of module Stub.     *)
(***************************************************************************)
EXTENDS Integers, Sequences, SequencesExt

(* What ud_patch_addr looks for                                            *)
Hole == <<16, 16, 16, 16, 16, 16, 16, 16>>

(* rdi, rsi, rdx, rcx, r8, r9, and the bytes of mov between one of them    *)
(* and the slot n bytes below rbp                                          *)
ArgRegs == <<7, 6, 2, 1, 8, 9>>
Move(opcode, r, n) == <<IF r < 8 THEN 72 ELSE 76, opcode, 69 + 8 * (r % 8), 256 - n>>
Moves(opcode, slots) == FlattenSeq([i \in 1 .. 6 |-> Move(opcode, ArgRegs[i], slots[i])])

Frame(size)    == <<85, 72, 137, 229, 72, 131, 236, size>>
Clear(n)       == <<72, 199, 192, 0, 0, 0, 0>> \o Move(137, 0, n)
Save(slots)    == Moves(137, slots)
Restore(slots) == Moves(139, slots)
Load           == <<161>> \o Hole
Cmp            == <<131, 248, 1>>
Jne(d)         == <<117, d>>
Addr           == <<72, 184>> \o Hole
CallRax        == <<255, 208>>
Leave          == <<72, 137, 236, 93, 195>>

(* The arguments of a 32-bit call, from the stack to the frame             *)
Stack == FlattenSeq([i \in 1 .. 6 |-> <<139, 69, 4 + 4 * i, 137, 69, 168 + 4 * i>>])

(* Both jumps go to the same place.                                        *)
Guard(d) == <<Load, Cmp, Jne(d), Load, Cmp, Jne(d - 14)>>

stub ==
  LET slots == <<24, 32, 40, 48, 56, 64>> IN
  <<Frame(64), Clear(8), Save(slots)>>
  \o Guard(50) \o <<Addr, Restore(slots), CallRax>>
  \o <<Addr, Restore(slots), CallRax, Move(137, 0, 16)>>
  \o Guard(50) \o <<Addr, Restore(slots), CallRax>>
  \o <<Move(139, 0, 16), Leave>>

stub_32 ==
  LET slots == <<48, 40, 32, 24, 16, 8>> IN
  <<Frame(84), Clear(56), Stack, Save(slots)>>
  \o Guard(50) \o <<Addr, CallRax, Restore(slots)>>
  \o <<Addr, CallRax, <<137, 69, 196>>>>
  \o Guard(50) \o <<Addr, CallRax, Restore(slots)>>
  \o <<<<139, 69, 196>>, Leave>>

Template(arch) == IF arch = "stub" THEN stub ELSE stub_32

=============================================================================
