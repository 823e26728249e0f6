----------------------------- MODULE MCHooking -----------------------------
(* One 64-bit and one 32-bit call, addresses with bytes that look like     *)
(* instructions, and code with any instruction at the entry.               *)
EXTENDS HookingCode

MCArchs == <<"stub", "stub_32">>

MCNoData == At("", 0, 0)

(* c3 is ret, 75 jne, 90 nop, e8 call.                                     *)
MCAddress(a) ==
  (CASE a.sym = "monks_state" -> <<16, 16, 15 + a.g, 16>>
     [] a.sym = "state"       -> <<195, 117, 16 * a.k + a.g, 160>>
     [] a.sym = "pre"         -> <<232, 195, 16 * a.k + a.g, 160>>
     [] a.sym = "post"        -> <<144, 16, 16 * a.k + a.g, 160>>
     [] a.sym = "real"        -> <<117, 16, a.k, 129>>
     [] a.sym = "stub"        -> <<0, 16 * a.k + a.g, 195, 16>>
     [] a.sym = "sys_call_table"      -> <<16, 195, 96, 129>>
     [] a.sym = "ia32_sys_call_table" -> <<16, 232, 97, 129>>)
  \o (IF a.sym = "stub" THEN <<0, 201, 255, 255>> ELSE <<255, 255, 255, 255>>)

(* call [rax * 8 + table]                                                  *)
CallTable(table) == <<255, 20, 197>> \o SubSeq(MCAddress(table), 1, 4)

CodePrefixes == {<<>>, <<102>>, <<103>>, <<242>>, <<243>>, <<72>>, <<102, 72>>,
                 <<103, 65>>}

Opcodes ==
  {<<b>> : b \in {x \in 0 .. 255 : ~IsPrefixByte(x)} \ {15, 196, 197}}
  \cup {<<15, b>> : b \in (0 .. 255) \ {15, 56, 58}}
  \cup {<<15, 56, b>> : b \in {0, 32, 128, 240, 241}} \cup {<<15, 58, b>> : b \in {15, 20, 34}}
  \cup {<<197, v, b>> : v \in {121, 248}, b \in {16, 91, 112, 194}}
  \cup {<<196, 224 + m, 121, b>> : m \in 1 .. 3, b \in {13, 32, 112}}

(* mod, reg and rm; the sib byte 37 has no base if mod is 0.               *)
Modrms == {4, 5, 20, 56, 68, 133, 189, 193}
Rest   == <<37, 1, 2, 3, 4, 5, 6, 7, 8, 9>>

Codes == {p \o o \o <<m>> \o Rest : p \in CodePrefixes, o \in Opcodes, m \in Modrms}

(* swapgs and a mov, as in the kernel                                      *)
KernelCode == <<15, 1, 248, 101, 72, 139, 36, 37, 0, 176, 0, 0>> \o CallTable(SysCallTable)

(* A call through another table comes first.                               *)
ParavirtCode == CallTable(Stub(1, 1)) \o KernelCode

MCEntryCodes ==
  {KernelCode, ParavirtCode} \cup {SubSeq(c, 1, InsnLength(c)) \o CallTable(SysCallTable) : c \in Codes}

MCIA32Code == <<137, 192>> \o CallTable(IA32Table)

(* With any other entry only the search for the tables is of interest.     *)
Searched == entry \in {KernelCode, ParavirtCode} \/ loader \in {"out", "init", "hook"}

=============================================================================
