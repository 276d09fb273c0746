----------------------------- MODULE MCI386Asm -----------------------------
(***************************************************************************)
(* The instructions of the assembler over operands of every kind, read back*)
(* from their bytes: a decoder after the opcode map of the processor, which*)
(* knows nothing of asm.h.                                                 *)
(***************************************************************************)
EXTENDS I386Asm, TLC

(* ------------------------- instructions, decoded ----------------------- *)

\* An argument has the fields of an operand.
Blank == [k |-> "", star |-> FALSE, class |-> "", n |-> 0, v |-> 0, sym |-> "", base |-> NoReg, index |-> NoReg, scale |-> 1]
R(class, n) == [Blank EXCEPT !.k = "reg", !.class = class, !.n = n]
I(v) == [Blank EXCEPT !.k = "imm", !.v = v]
IS(v, sym) == [I(v) EXCEPT !.sym = sym]
Mem(base, index, scale, v, sym) ==
  [Blank EXCEPT !.k = "mem", !.base = base, !.index = index, !.scale = scale, !.v = v, !.sym = sym]
To(v, sym) == Mem(NoReg, NoReg, 1, v, sym)
Star(a) == [a EXCEPT !.star = TRUE]
Classes == <<"REG8", "REG16", "REG32">>
Signed(v, n) == IF n = 4 THEN v ELSE ((v + 2 ^ (8 * n - 1)) % 2 ^ (8 * n)) - 2 ^ (8 * n - 1)

\* What an entry of the opcode map is: the name, the size of the operation (3 if
\* it has none, "v" is 1 or 2), and its arguments in the order they are written.
\* cc is a condition.
Opcode(op, s, args) == [op |-> op, cc |-> NoReg, s |-> s, args |-> args]
NoOpcode == Opcode("bad", 3, <<>>)
Ariths == <<"add", "or", "adc", "sbb", "and", "sub", "xor", "cmp">>
ShiftNames == <<"rol", "ror", "rcl", "rcr", "shl", "shr", "bad", "sar">>
Units == <<"test", "bad", "not", "neg", "mul", "imul", "div", "idiv">>
Bits == <<"bad", "bad", "bad", "bad", "bt", "bts", "btr", "btc">>

\* The entries whose opcode is one byte; reg is the field of the modrm byte.
OneByteOpcode(b, reg) ==
  CASE b < 64 /\ b % 8 < 6 ->
         Opcode(Ariths[b \div 8 + 1], b % 2,
               <<<<"Gb", "Eb">>, <<"Gv", "Ev">>, <<"Eb", "Gb">>, <<"Ev", "Gv">>, <<"Ib", "Ab">>, <<"Iv", "Av">>>>[(b % 8) + 1])
    [] b \in {6, 14, 22, 30} -> Opcode("push", 1, <<"So">>)
    [] b \in {7, 23, 31} -> Opcode("pop", 1, <<"So">>)
    [] b \in {39, 47, 55, 63} -> Opcode(<<"daa", "das", "aaa", "aas">>[b \div 8 - 3], 3, <<>>)
    [] b \in 64 .. 95 -> Opcode(<<"inc", "dec", "push", "pop">>[(b - 56) \div 8], 1, <<"Zv">>)
    [] b \in {96, 97} -> Opcode(<<"pusha", "popa">>[b - 95], 3, <<>>)
    [] b = 98 -> Opcode("bound", 1, <<"Gv", "M">>)
    [] b = 99 -> Opcode("arpl", 3, <<"Gw", "Ew">>)
    [] b = 104 -> Opcode("push", 1, <<"Iv">>)
    [] b = 105 -> Opcode("imul", 1, <<"Iv", "Ev", "Gv">>)
    [] b = 106 -> Opcode("push", 1, <<"Is">>)
    [] b = 107 -> Opcode("imul", 1, <<"Is", "Ev", "Gv">>)
    [] b \in 108 .. 111 -> Opcode(<<"ins", "outs">>[(b - 106) \div 2], b % 2, <<>>)
    [] b \in 112 .. 127 -> [Opcode("j", 3, <<"Jb">>) EXCEPT !.cc = b - 112]
    [] b \in {128, 129, 131} -> Opcode(Ariths[reg + 1], b % 2, <<<<"Ib", "Eb">>, <<"Iv", "Ev">>, <<>>, <<"Is", "Ev">>>>[b - 127])
    [] b \in 132 .. 135 -> Opcode(<<"test", "xchg">>[(b - 130) \div 2], b % 2, IF b % 2 = 0 THEN <<"Gb", "Eb">> ELSE <<"Gv", "Ev">>)
    [] b \in 136 .. 139 -> Opcode("mov", b % 2, <<<<"Gb", "Eb">>, <<"Gv", "Ev">>, <<"Eb", "Gb">>, <<"Ev", "Gv">>>>[b - 135])
    [] b = 140 -> Opcode("mov", 1, <<"Sw", "Ev">>)
    [] b = 141 -> Opcode("lea", 1, <<"M", "Gv">>)
    [] b = 142 -> Opcode("mov", 1, <<"Ev", "Sw">>)
    [] b = 143 /\ reg = 0 -> Opcode("pop", 1, <<"Ev">>)
    [] b = 144 -> Opcode("nop", 3, <<>>)
    [] b \in 145 .. 151 -> Opcode("xchg", 1, <<"Zv", "Av">>)
    [] b \in {152, 153} -> Opcode(<<"cwde", "cdq">>[b - 151], 1, <<>>)
    [] b \in {154, 234} -> Opcode(IF b = 154 THEN "lcall" ELSE "ljmp", 3, <<"Iseg", "Ioff">>)
    [] b \in 155 .. 159 -> Opcode(<<"fwait", "pushf", "popf", "sahf", "lahf">>[b - 154], 3, <<>>)
    [] b \in 160 .. 163 -> Opcode("mov", b % 2, <<<<"Ob", "Ab">>, <<"Ob", "Av">>, <<"Ab", "Ob">>, <<"Av", "Ob">>>>[b - 159])
    [] b \in {168, 169} -> Opcode("test", b % 2, IF b = 168 THEN <<"Ib", "Ab">> ELSE <<"Iv", "Av">>)
    [] b \in (164 .. 175) \ {168, 169} -> Opcode(<<"movs", "cmps", "bad", "stos", "lods", "scas">>[(b - 162) \div 2], b % 2, <<>>)
    [] b \in 176 .. 191 -> Opcode("mov", (b \div 8) % 2, IF b < 184 THEN <<"Ib", "Zb">> ELSE <<"Iv", "Zv">>)
    [] b \in {192, 193} -> Opcode(ShiftNames[reg + 1], b % 2, IF b = 192 THEN <<"Ib", "Eb">> ELSE <<"Ib", "Ev">>)
    [] b \in {194, 202} -> Opcode(IF b = 194 THEN "ret" ELSE "lret", 3, <<"Iw">>)
    [] b \in {195, 203} -> Opcode(IF b = 195 THEN "ret" ELSE "lret", 3, <<>>)
    [] b \in {196, 197} -> Opcode(<<"les", "lds">>[b - 195], 3, <<"M", "Gd">>)
    [] b \in {198, 199} /\ reg = 0 -> Opcode("mov", b % 2, IF b = 198 THEN <<"Ib", "Eb">> ELSE <<"Iv", "Ev">>)
    [] b = 200 -> Opcode("enter", 3, <<"Iw", "Ib">>)
    [] b = 204 -> Opcode("int3", 3, <<>>)
    [] b = 205 -> Opcode("int", 3, <<"Ib">>)
    [] b \in {201, 206, 207, 215} -> Opcode(CASE b = 201 -> "leave" [] b = 206 -> "into" [] b = 207 -> "iret" [] OTHER -> "xlat", 3, <<>>)
    [] b \in 208 .. 211 -> Opcode(ShiftNames[reg + 1], b % 2, <<<<"Eb">>, <<"Ev">>, <<"CL", "Eb">>, <<"CL", "Ev">>>>[b - 207])
    [] b \in {212, 213} -> Opcode(<<"aam", "aad">>[b - 211], 3, <<"Ib">>)
    [] b \in 224 .. 227 -> Opcode(<<"loopne", "loope", "loop", "jecxz">>[b - 223], 3, <<"Jb">>)
    [] b \in 228 .. 231 -> Opcode(<<"in", "out">>[(b - 226) \div 2], b % 2, <<<<"Ib", "Ab">>, <<"Ib", "Av">>, <<"Ab", "Ib">>, <<"Av", "Ib">>>>[b - 227])
    [] b \in 236 .. 239 -> Opcode(<<"in", "out">>[(b - 234) \div 2], b % 2, <<<<"DX", "Ab">>, <<"DX", "Av">>, <<"Ab", "DX">>, <<"Av", "DX">>>>[b - 235])
    [] b = 232 -> Opcode("call", 3, <<"Jd">>)
    [] b = 233 -> Opcode("jmp", 3, <<"Jd">>)
    [] b = 235 -> Opcode("jmp", 3, <<"Jb">>)
    [] b \in {103, 240, 242, 243, 244, 245} ->
         Opcode(CASE b = 103 -> "addr16" [] b = 240 -> "lock" [] b = 242 -> "repne" [] b = 243 -> "rep" [] b = 244 -> "hlt" [] OTHER -> "cmc", 3, <<>>)
    [] b = 102 -> Opcode("data16", 3, <<>>)
    [] b \in {246, 247} -> Opcode(Units[reg + 1], b % 2, IF reg = 0 THEN (IF b = 246 THEN <<"Ib", "Eb">> ELSE <<"Iv", "Ev">>)
                                                          ELSE IF b = 246 THEN <<"Eb">> ELSE <<"Ev">>)
    [] b \in 248 .. 253 -> Opcode(<<"clc", "stc", "cli", "sti", "cld", "std">>[b - 247], 3, <<>>)
    [] b \in {254, 255} /\ reg < 2 -> Opcode(<<"inc", "dec">>[reg + 1], b % 2, IF b = 254 THEN <<"Eb">> ELSE <<"Ev">>)
    [] b = 255 /\ reg \in {2, 4} -> Opcode(IF reg = 2 THEN "call" ELSE "jmp", 3, <<"*d">>)
    [] b = 255 /\ reg \in {3, 5} -> Opcode(IF reg = 3 THEN "lcall" ELSE "ljmp", 3, <<"*M">>)
    [] b = 255 /\ reg = 6 -> Opcode("push", 1, <<"Ev">>)
    [] OTHER -> NoOpcode

MmxNames ==
  LET From(first, names) == [k \in DOMAIN names |-> <<first + k - 1, names[k]>>]
      all == From(96, <<"punpcklbw", "punpcklwd", "punpckldq", "packsswb", "pcmpgtb", "pcmpgtw", "pcmpgtd", "packuswb",
                      "punpckhbw", "punpckhwd", "punpckhdq", "packssdw">>)
             \o From(116, <<"pcmpeqb", "pcmpeqw", "pcmpeqd">>) \o From(209, <<"psrlw", "psrld", "psrlq">>) \o From(213, <<"pmullw">>)
             \o From(216, <<"psubusb", "psubusw">>) \o From(219, <<"pand", "paddusb", "paddusw">>) \o From(223, <<"pandn">>)
             \o From(225, <<"psraw", "psrad">>) \o From(229, <<"pmulhw">>) \o From(232, <<"psubsb", "psubsw">>) \o From(235, <<"por", "paddsb", "paddsw">>)
             \o From(239, <<"pxor">>) \o From(241, <<"psllw", "pslld", "psllq">>) \o From(245, <<"pmaddwd">>)
             \o From(248, <<"psubb", "psubw", "psubd">>) \o From(252, <<"paddb", "paddw", "paddd">>)
  IN  [b \in {all[k][1] : k \in DOMAIN all} |-> (CHOOSE e \in {all[k] : k \in DOMAIN all} : e[1] = b)[2]]

\* The entries after a byte 0x0f.
TwoByteOpcode(b, reg) ==
  CASE b = 0 /\ reg < 6 -> Opcode(<<"sldt", "str", "lldt", "ltr", "verr", "verw">>[reg + 1], 3, <<"Ex">>)
    [] b = 1 /\ reg # 5 -> Opcode(<<"sgdt", "sidt", "lgdt", "lidt", "smsw", "bad", "lmsw", "invlpg">>[reg + 1], 3, <<"Ex">>)
    [] b = 2 -> Opcode("lar", 3, <<"Ed", "Gd">>)
    [] b = 3 -> Opcode("lsl", 1, <<"Ev", "Gv">>)
    [] b \in {6, 8, 9, 11, 48, 49, 50, 51, 119, 162, 170} ->
         Opcode(CASE b = 6 -> "clts" [] b = 8 -> "invd" [] b = 9 -> "wbinvd" [] b = 11 -> "ud2" [] b = 48 -> "wrmsr" [] b = 49 -> "rdtsc"
                 [] b = 50 -> "rdmsr" [] b = 51 -> "rdpmc" [] b = 119 -> "emms" [] b = 162 -> "cpuid" [] OTHER -> "rsm", 3, <<>>)
    [] b \in {32, 33, 36} -> Opcode("mov", 1, <<IF b = 32 THEN "Cd" ELSE IF b = 33 THEN "Dd" ELSE "Td", "Ed">>)
    [] b \in {34, 35, 38} -> Opcode("mov", 1, <<"Ed", IF b = 34 THEN "Cd" ELSE IF b = 35 THEN "Dd" ELSE "Td">>)
    [] b \in 64 .. 79 -> [Opcode("cmov", 3, <<"Ed", "Gd">>) EXCEPT !.cc = b - 64]
    [] b \in {110, 126} -> Opcode("movd", 3, IF b = 110 THEN <<"Ed", "Pq">> ELSE <<"Pq", "Ed">>)
    [] b \in {111, 127} -> Opcode("movq", 3, IF b = 111 THEN <<"Qq", "Pq">> ELSE <<"Pq", "Qq">>)
    [] b \in 113 .. 115 /\ reg \in {2, 4, 6} ->
         Opcode(<<<<"psrlw", "psraw", "psllw">>, <<"psrld", "psrad", "pslld">>, <<"psrlq", "bad", "psllq">>>>[b - 112][reg \div 2], 3, <<"Ib", "Qq">>)
    [] b \in 128 .. 143 -> [Opcode("j", 3, <<"Jd">>) EXCEPT !.cc = b - 128]
    [] b \in 144 .. 159 -> [Opcode("set", 3, <<"Eb">>) EXCEPT !.cc = b - 144]
    [] b \in {160, 168} -> Opcode("push", 1, <<"So">>)
    [] b \in {161, 169} -> Opcode("pop", 1, <<"So">>)
    [] b \in {163, 171, 179, 187} -> Opcode(Bits[(b - 163) \div 8 + 5], 1, <<"Gv", "Ev">>)
    [] b = 186 -> Opcode(Bits[reg + 1], 1, <<"Ib", "Ev">>)
    [] b \in {164, 165} -> Opcode("shld", 1, <<IF b = 164 THEN "Ib" ELSE "CL", "Gv", "Ev">>)
    [] b \in {172, 173} -> Opcode("shrd", 1, <<IF b = 172 THEN "Ib" ELSE "CL", "Gv", "Ev">>)
    [] b = 174 /\ reg < 2 -> Opcode(<<"fxsave", "fxrstor">>[reg + 1], 3, <<"M">>)
    [] b = 175 -> Opcode("imul", 1, <<"Ev", "Gv">>)
    [] b \in {176, 177} -> Opcode("cmpxchg", b % 2, IF b = 176 THEN <<"Gb", "Eb">> ELSE <<"Gv", "Ev">>)
    [] b \in {178, 180, 181} -> Opcode(IF b = 178 THEN "lss" ELSE IF b = 180 THEN "lfs" ELSE "lgs", 3, <<"M", "Gd">>)
    [] b = 182 -> Opcode("movzb", 1, <<"Eb", "Gv">>)
    [] b = 183 -> Opcode("movzwl", 3, <<"Ew", "Gd">>)
    [] b \in {188, 189} -> Opcode(IF b = 188 THEN "bsf" ELSE "bsr", 1, <<"Ev", "Gv">>)
    [] b = 190 -> Opcode("movsb", 1, <<"Eb", "Gv">>)
    [] b = 191 -> Opcode("movswl", 3, <<"Ew", "Gd">>)
    [] b \in {192, 193} -> Opcode("xadd", b % 2, IF b = 192 THEN <<"Gb", "Eb">> ELSE <<"Gv", "Ev">>)
    [] b = 199 /\ reg = 1 -> Opcode("cmpxchg8b", 3, <<"M">>)
    [] b \in 200 .. 207 -> Opcode("bswap", 3, <<"Zd">>)
    [] b \in DOMAIN MmxNames -> Opcode(MmxNames[b], 3, <<"Qq", "Pq">>)
    [] OTHER -> NoOpcode

\* The floating point entries, b from 0xd8 on; m is the modrm byte.  The names
\* are those of the assembler, which has fsub and fsubr of 0xde the other way
\* round than the processor's manual.
FloatGroups == <<"add", "mul", "com", "comp", "sub", "subr", "div", "divr">>
FpMemory ==
  LET Groups(before, after) == [g \in 1 .. 8 |-> before \o FloatGroups[g] \o after]
  IN  <<Groups("f", "s"), <<"flds", "bad", "fsts", "fstps", "fldenv", "fldcw", "fnstenv", "fnstcw">>,
        Groups("fi", "l"), <<"fildl", "bad", "fistl", "fistpl", "bad", "fldt", "bad", "fstpt">>,
        Groups("f", "l"), <<"fldl", "bad", "fstl", "fstpl", "frstor", "bad", "fnsave", "fnstsw">>,
        Groups("fi", "s"), <<"fild", "bad", "fist", "fistp", "fbld", "fildq", "fbstp", "fistpq">>>>
FpNames == <<"fchs", "fabs", "bad", "bad", "ftst", "fxam", "bad", "bad", "fld1", "fldl2t", "fldl2e", "fldpi", "fldlg2", "fldln2", "fldz", "bad",
             "f2xm1", "fyl2x", "fptan", "fpatan", "fxtract", "fprem1", "fdecstp", "fincstp", "fprem", "fyl2xp1", "fsqrt", "fsincos", "frndint",
             "fscale", "fsin", "fcos">>
FpRegister(b, m) ==
  LET g == ((m \div 8) % 8) + 1
      Of(names) == IF names[g] = "bad" THEN NoOpcode ELSE Opcode(names[g], 3, <<"STi", "ST0">>)
      OnStackTop(op) == Opcode(op, 3, <<"STi">>)
  IN  CASE b = 216 -> Opcode("f" \o FloatGroups[g], 3, <<"STi", "ST0">>)
        [] b = 217 /\ m < 208 -> OnStackTop(IF m < 200 THEN "fld" ELSE "fxch")
        [] b = 217 /\ m >= 224 -> Opcode(FpNames[m - 223], 3, <<>>)
        [] b = 217 /\ m = 208 -> Opcode("fnop", 3, <<>>)
        [] b = 218 /\ m = 233 -> Opcode("fucompp", 3, <<>>)
        [] b = 218 /\ m < 224 -> Of(<<"fcmovb", "fcmove", "fcmovbe", "fcmovu", "bad", "bad", "bad", "bad">>)
        [] b = 219 /\ m \in {226, 227} -> Opcode(IF m = 226 THEN "fnclex" ELSE "fninit", 3, <<>>)
        [] b = 219 /\ m \notin {226, 227} -> Of(<<"fcmovnb", "fcmovne", "fcmovnbe", "fcmovnu", "bad", "fucomi", "fcomi", "bad">>)
        [] b = 221 -> OnStackTop(<<"ffree", "bad", "fst", "fstp", "fucom", "fucomp", "bad", "bad">>[g])
        [] b = 222 /\ g \notin {3, 4} -> Opcode("f" \o FloatGroups[g] \o "p", 3, <<"ST0", "STi">>)
        [] b = 222 /\ m = 217 -> Opcode("fcompp", 3, <<"ST0", "STi">>)
        [] b = 223 /\ m = 224 -> Opcode("fnstsw", 3, <<"AX">>)
        [] b = 223 /\ g = 1 -> OnStackTop("ffreep")
        [] b = 223 /\ g \in {6, 7} -> Opcode(IF g = 6 THEN "fucomip" ELSE "fcomip", 3, <<"STi", "ST0">>)
        [] OTHER -> NoOpcode
Fp(b, m) == IF m >= 192 THEN FpRegister(b, m) ELSE Opcode(FpMemory[b - 215][((m \div 8) % 8) + 1], 3, <<"M">>)

(* --------------------------- bytes, decoded ---------------------------- *)

SegOf == 38 :> "es" @@ 46 :> "cs" @@ 54 :> "ss" @@ 62 :> "ds" @@ 100 :> "fs" @@ 101 :> "gs"
\* The little-endian number of n bytes of c from p on.
ByteAt(c, p) == IF p \in DOMAIN c THEN c[p].b ELSE 0
NumberAt(c, p, n) ==
  CASE n = 1 -> Signed(ByteAt(c, p), 1)
    [] n = 2 -> Signed(ByteAt(c, p) + 256 * ByteAt(c, p + 1), 2)
    [] OTHER -> ByteAt(c, p) + 256 * ByteAt(c, p + 1) + 65536 * ByteAt(c, p + 2) + 16777216 * Signed(ByteAt(c, p + 3), 1)
RelAt(c, p) == IF p \in DOMAIN c THEN c[p].rel ELSE NoReloc
\* No relocation but R_386_32 is that of a datum.
SymAt(c, p) == IF RelAt(c, p)[1] = "R_386_32" THEN RelAt(c, p)[2] ELSE IF RelAt(c, p) = NoReloc THEN "" ELSE "bad"

\* The modrm byte at p, its sib byte and its displacement.
Modrm(c, p) ==
  LET m == ByteAt(c, p)
      mod == m \div 64
      sib == mod # 3 /\ m % 8 = 4
      s == ByteAt(c, p + 1)
      base == IF sib THEN s % 8 ELSE m % 8
      at == IF sib THEN p + 2 ELSE p + 1
      n == CASE mod = 1 -> 1 [] mod = 2 \/ (mod = 0 /\ base = 5) -> 4 [] OTHER -> 0
      indexed == sib /\ (s \div 8) % 8 # 4
  IN  [rm |-> m % 8, reg |-> (m \div 8) % 8, register |-> mod = 3, next |-> at + n,
       mem |-> Mem(IF mod = 0 /\ base = 5 THEN NoReg ELSE base, IF indexed THEN (s \div 8) % 8 ELSE NoReg,
                   IF indexed THEN 2 ^ (s \div 64) ELSE 1, IF n = 0 THEN 0 ELSE NumberAt(c, at, n), IF n = 4 THEN SymAt(c, at) ELSE "")]

ByModrm == {"Eb", "Ew", "Ed", "Ev", "Ex", "Gb", "Gw", "Gd", "Gv", "M", "*M", "*d", "Sw", "Cd", "Dd", "Td", "Pq", "Qq", "STi", "ST0", "AX"}
\* The bytes that an argument has after the modrm byte's, for an operation of size v.
Width(arg, v) ==
  CASE arg \in {"Ib", "Is", "Jb"} -> 1 [] arg \in {"Iw", "Iseg"} -> 2 [] arg \in {"Jd", "Ob", "Ioff"} -> 4 [] arg = "Iv" -> 2 * v [] OTHER -> 0
ClassOf(arg, v) ==
  CASE arg \in {"Eb", "Gb", "Ab", "Zb"} -> "REG8" [] arg \in {"Ew", "Gw"} -> "REG16" [] arg \in {"Ed", "Gd", "Zd", "*d"} -> "REG32"
    [] arg \in {"Ev", "Gv", "Av", "Zv"} -> Classes[v + 1] [] arg = "Ex" -> "any" [] arg \in {"Sw", "So"} -> "SEG" [] arg = "Cd" -> "CR"
    [] arg = "Dd" -> "DB" [] arg = "Td" -> "TR" [] arg \in {"Pq", "Qq"} -> "MMX" [] OTHER -> ""

\* The argument a, with the modrm byte m; its constant is at k and
\* has n bytes, the instruction after it is at address after.
Argument(c, a, m, v, b, k, n, after) ==
  LET class == ClassOf(a, v)
      value == NumberAt(c, k, n)
      sym == IF n = 4 THEN SymAt(c, k) ELSE ""
      rm == IF m.register THEN R(class, m.rm) ELSE m.mem
  IN  CASE a \in {"Eb", "Ew", "Ed", "Ev", "Ex", "Qq"} -> rm
        [] a = "*d" -> Star(rm)
        [] a \in {"M", "*M"} -> IF m.register THEN Blank ELSE IF a = "M" THEN m.mem ELSE Star(m.mem)
        [] a \in {"Gb", "Gw", "Gd", "Gv", "Sw", "Cd", "Dd", "Td", "Pq"} -> R(class, m.reg)
        [] a \in {"Ab", "Av"} -> R(class, 0)
        [] a \in {"Zb", "Zv", "Zd"} -> R(class, b % 8)
        [] a = "So" -> R(class, (b \div 8) % 8)
        [] a = "CL" -> R("REG8", 1)
        [] a = "DX" -> R("REG16", 2)
        [] a = "AX" -> R("REG16", 0)
        [] a = "STi" -> R("ST", m.rm)
        [] a = "ST0" -> R("ST", 0)
        [] a \in {"Ib", "Is", "Iv", "Iw", "Iseg", "Ioff"} -> IS(value, sym)
        [] a = "Ob" -> To(value, sym)
        [] a = "Jb" \/ RelAt(c, k) = NoReloc -> To(after + value, "L")
        [] OTHER -> IF RelAt(c, k)[1] = "R_386_PC32" THEN To(value + 4, RelAt(c, k)[2]) ELSE Blank

\* The instruction at p, whose opcode ends at o; its constants begin at from,
\* and next is where the one after it begins.
Instruction(c, p, o, e, m, v, seg, from, next, ind) ==
  LET where(k) == from + (IF e.args[k] = "Iseg" THEN 4 ELSE IF e.args = <<"Iw", "Ib">> /\ k = 2 THEN 2 ELSE 0)
  IN  [op |-> e.op, cc |-> e.cc, size |-> IF e.s = 1 THEN v ELSE e.s, seg |-> seg, next |-> next,
       args |-> [k \in DOMAIN e.args |->
                   Argument(c, e.args[k], m, v, ByteAt(c, o), where(k), Width(e.args[k], v), ind + (next - p))]]
ConstantWidth(e, v) == FoldLeft(LAMBDA n, a : n + Width(a, v), 0, e.args)
BehindModrm(c, o, fp, e, m) ==
  IF fp /\ m.register THEN o + 2
  ELSE IF fp \/ \E k \in DOMAIN e.args : e.args[k] \in ByModrm THEN m.next ELSE o + 1
WithEntry(c, p, o, fp, e, m, v, seg, ind) ==
  LET from == BehindModrm(c, o, fp, e, m)
  IN  Instruction(c, p, o, e, m, v, seg, from, from + ConstantWidth(e, v), ind)
EntryAt(c, q, o, reg) ==
  CASE ByteAt(c, q) = 15 -> TwoByteOpcode(ByteAt(c, o), reg)
    [] ByteAt(c, q) \in 216 .. 223 -> Fp(ByteAt(c, o), ByteAt(c, o + 1))
    [] OTHER -> OneByteOpcode(ByteAt(c, o), reg)
WithModrm(c, p, q, o, m, v, seg, ind) ==
  WithEntry(c, p, o, ByteAt(c, q) \in 216 .. 223, EntryAt(c, q, o, m.reg), m, v, seg, ind)

\* The instruction whose first byte is at p, which is at address ind.
Decode(c, p, ind) ==
  LET Prefix == {102} \cup DOMAIN SegOf
      q == CHOOSE k \in p .. Len(c) : (ByteAt(c, k) \notin Prefix \/ k = Len(c)) /\ \A j \in p .. k - 1 : ByteAt(c, j) \in Prefix
      pre == {ByteAt(c, k) : k \in p .. q - 1}
      o == IF ByteAt(c, q) = 15 THEN q + 1 ELSE q
  IN  WithModrm(c, p, q, o, Modrm(c, o + 1), IF 102 \in pre THEN 1 ELSE 2,
                IF pre \ {102} = {} THEN "" ELSE SegOf[CHOOSE x \in pre : x # 102], ind)

\* All the instructions of c.
RECURSIVE Disassembled(_, _, _)
Disassembled(c, p, ind) ==
  IF p > Len(c) THEN <<>>
  ELSE LET d == Decode(c, p, ind)
       IN  <<[op |-> d.op, cc |-> d.cc, size |-> d.size, seg |-> d.seg, args |-> d.args]>> \o Disassembled(c, d.next, ind + (d.next - p))

(* ------------------------ instructions, as written --------------------- *)

ByteFamilies ==
  {"mov", "inc", "dec", "not", "neg", "mul", "imul", "div", "idiv", "xchg", "test", "in", "out", "xadd", "cmpxchg",
   "cmps", "scmp", "ins", "outs", "lods", "slod", "movs", "smov", "scas", "ssca", "stos", "ssto"}
WordFamilies == {"bsf", "bsr", "bt", "bts", "btr", "btc", "movzb", "push", "pop", "lea", "shld", "shrd", "lsl"}
Conditions ==
  <<"o", "no", "b", "c", "nae", "nb", "nc", "ae", "e", "z", "ne", "nz", "be", "na", "nbe", "a", "s", "ns", "p", "pe", "np", "po",
    "l", "nge", "nl", "ge", "le", "ng", "nle", "g">>
ConditionCodes ==
  <<{"o"}, {"no"}, {"b", "c", "nae"}, {"nb", "nc", "ae"}, {"e", "z"}, {"ne", "nz"}, {"be", "na"}, {"nbe", "a"}, {"s"}, {"ns"},
    {"p", "pe"}, {"np", "po"}, {"l", "nge"}, {"nl", "ge"}, {"le", "ng"}, {"nle", "g"}>>
Synonyms ==
  [scmp |-> "cmps", slod |-> "lods", smov |-> "movs", ssca |-> "scas", ssto |-> "stos", movsbl |-> "movsb", movsbw |-> "movsb",
   boundl |-> "bound", boundw |-> "bound", loopnz |-> "loopne", loopz |-> "loope", fildll |-> "fildq", fistpll |-> "fistpq",
   repe |-> "rep", repz |-> "rep", repnz |-> "repne", cbw |-> "cwde", cbtw |-> "cwde", cwtl |-> "cwde", cwd |-> "cdq", cwtd |-> "cdq",
   cltd |-> "cdq", pushfl |-> "pushf", popfl |-> "popf", wait |-> "fwait", aword |-> "addr16", word |-> "data16"]
Synonym(fam) == IF fam \in DOMAIN Synonyms THEN Synonyms[fam] ELSE fam

SuffixOf(in) ==
  CASE in.fam \in ByteFamilies -> in.i [] in.fam \in WordFamilies -> in.i + 1 [] in.fam \in {"arith", "shift"} -> in.i % 4 [] OTHER -> 4
\* Without a suffix it is the register's size, the destination's if there are two.
SizeWritten(in) ==
  LET regs == {k \in DOMAIN in.ops : in.ops[k].k = "reg" /\ in.ops[k].class \in REG /\ ~(in.fam = "out" /\ k = 2)}
  IN  CASE SuffixOf(in) < 3 -> SuffixOf(in)
        [] SuffixOf(in) = 3 /\ regs # {} ->
             (CHOOSE s \in 0 .. 2 : in.ops[CHOOSE k \in regs : \A j \in regs : j <= k].class = Classes[s + 1])
        [] SuffixOf(in) = 3 /\ regs = {} -> 2
        [] in.fam \in {"movsbl", "boundl", "cwde", "cwtl", "cdq", "cltd"} -> 2
        [] in.fam \in {"movsbw", "boundw", "cbw", "cbtw", "cwd", "cwtd"} -> 1
        [] OTHER -> 3
NameWritten(in) ==
  LET g == FloatGroups[in.i \div 6 + 1]
  IN  CASE in.fam = "arith" -> Ariths[in.i \div 4 + 1]
        [] in.fam = "shift" -> <<"rol", "ror", "rcl", "rcr", "shl", "shr", "sar">>[in.i \div 4 + 1]
        [] in.fam = "fp" -> <<"f" \o g, "f" \o g \o "p", "f" \o g \o "s", "fi" \o g \o "l", "f" \o g \o "l", "fi" \o g \o "s">>[(in.i % 6) + 1]
        [] in.fam \in {"fldl", "fstl"} /\ in.ops[1].k = "reg" -> IF in.fam = "fldl" THEN "fld" ELSE "fst"
        [] in.fam = "int" /\ in.ops[1].v = 3 -> "int3"
        [] in.fam \in {"finit", "fclex", "fstcw", "fstsw", "fstenv", "fsave"} ->
             [finit |-> "fninit", fclex |-> "fnclex", fstcw |-> "fnstcw", fstsw |-> "fnstsw", fstenv |-> "fnstenv", fsave |-> "fnsave"][in.fam]
        [] OTHER -> Synonym(in.fam)
\* The operands that are understood.
Completed(in) ==
  LET A == R(Classes[SizeWritten(in) + 1], 0)
      n == Len(in.ops)
  IN  CASE in.fam = "in" /\ n = 1 -> <<in.ops[1], A>>
        [] in.fam = "out" /\ n = 1 -> <<A, in.ops[1]>>
        [] in.fam \in {"div", "idiv"} /\ n = 2 -> <<in.ops[1]>>
        [] in.fam \in {"shld", "shrd"} /\ n = 2 -> <<R("REG8", 1)>> \o in.ops
        [] in.fam = "imul" /\ n = 2 /\ in.ops[1].k = "imm" -> <<in.ops[1], in.ops[2], in.ops[2]>>
        [] in.fam = "int" /\ in.ops[1].v = 3 -> <<>>
        [] in.fam \in {"aam", "aad"} -> <<I(10)>>
        [] in.fam = "fp" /\ in.i % 6 = 0 /\ n = 1 -> <<in.ops[1], R("ST", 0)>>
        [] in.fam = "fp" /\ in.i % 6 = 0 /\ n = 0 -> <<R("ST", 1), R("ST", 0)>>
        [] in.fam = "fp" /\ in.i % 6 = 1 /\ n = 0 -> <<R("ST", 0), R("ST", 1)>>
        [] in.fam = "fp" /\ in.i % 6 = 1 /\ n = 1 -> <<R("ST", 0), in.ops[1]>>
        [] in.fam = "fxch" /\ n = 0 -> <<R("ST", 1)>>
        [] in.fam = "fstsw" /\ n = 0 -> <<R("REG16", 0)>>
        [] in.fam = "fnstsw" /\ n = 0 -> <<R("REG16", 0)>>
        [] OTHER -> in.ops
\* The bytes of a constant.
ConstantSize(in, k) ==
  CASE in.fam \in {"arith", "mov", "test", "push", "imul"} -> <<1, 2, 4>>[SizeWritten(in) + 1]
    [] in.fam \in {"ret", "lret"} \/ (in.fam \in {"enter", "lcall", "ljmp"} /\ k = 1) -> 2
    [] in.fam \in {"lcall", "ljmp"} /\ k = 2 -> 4
    [] OTHER -> 1
AnySize == {"sldt", "str", "lldt", "ltr", "verr", "verw", "smsw", "lmsw"}
Normal(in, a, k) ==
  CASE a.k = "imm" -> [a EXCEPT !.v = Signed(@, ConstantSize(in, k))]
    [] a.k = "mem" /\ a.index = NoReg -> [a EXCEPT !.scale = 1]
    [] a.k = "reg" /\ in.fam \in AnySize -> [a EXCEPT !.class = "any"]
    [] a.k = "reg" /\ in.fam = "fnstsw" -> R("REG16", 0)
    [] a.k = "reg" /\ in.fam = "fstsw" -> R("REG16", 0)
    [] OTHER -> a

\* What an instruction is: one instruction of the processor, or fwait and one.
Fwait == [op |-> "fwait", cc |-> NoReg, size |-> 3, seg |-> "", args |-> <<>>]
Meant(in) ==
  LET ops == Completed(in)
      one == [op |-> NameWritten(in), cc |-> IF in.fam \in {"j", "set", "cmov"} THEN CHOOSE n \in 0 .. 15 : Conditions[in.i + 1] \in ConditionCodes[n + 1] ELSE NoReg,
              size |-> SizeWritten(in), seg |-> in.seg, args |-> [k \in DOMAIN ops |-> Normal(in, ops[k], k)]]
  IN  IF in.fam \in {"finit", "fclex", "fstcw", "fstsw", "fstenv", "fsave"} THEN <<Fwait, one>> ELSE <<one>>
AllMeant(list) == FoldLeft(LAMBDA all, in : all \o Meant(in), <<>>, list)
\* Test and xchg do not tell their operands apart.
Alike(d, m) == d = m \/ (d.op \in {"test", "xchg"} /\ [d EXCEPT !.args = Reverse(@)] = m)

(* ------------------------------ the inputs ----------------------------- *)

Inst(fam, i, ops) == [fam |-> fam, i |-> i, seg |-> "", ops |-> ops]
\* Addresses of every form of modrm and sib byte.
Addresses ==
  {Mem(3, NoReg, 1, 0, ""), Mem(4, NoReg, 1, 0, ""), Mem(5, NoReg, 1, 0, ""), Mem(5, 6, 2, 0, ""), Mem(0, NoReg, 1, 127, ""),
   Mem(6, NoReg, 1, 128, ""), Mem(1, NoReg, 1, -128, ""), Mem(4, NoReg, 1, -129, ""), Mem(4, 7, 8, 8, ""), Mem(2, 1, 4, 0, ""),
   Mem(NoReg, 0, 4, 8, ""), Mem(NoReg, 5, 1, 0, "d"), Mem(3, NoReg, 1, 4, "d"), Mem(3, NoReg, 1, 0, "d"), Mem(0, 3, 2, 512, "L"),
   To(16, ""), To(4, "d"), To(0, "L")}
Few == {Mem(4, NoReg, 1, -4, ""), Mem(NoReg, 6, 2, 0, "d"), To(4, "L")}
Some(s) == {R(Classes[s + 1], n) : n \in {0, 1, 2, 6}}
TwoOf(s) == {R(Classes[s + 1], n) : n \in {0, 5}}
ImmOperands(s) ==
  {I(v) : v \in {0, 1, -1, 127, -128} \cup (CASE s = 0 -> {128, 200, 255} [] s = 1 -> {128, -129, 255, 256, 32768, 65535}
                                              [] OTHER -> {128, -129, 255, 65535, 65536, -65537, -2147483647, 2147483647})}
  \cup (IF s = 2 THEN {IS(4, "d"), IS(0, "L")} ELSE {})
\* With a suffix, or without one.
Sizes(s, ops) == {s} \cup (IF \E k \in DOMAIN ops : ops[k].k = "reg" /\ ops[k].class = Classes[s + 1] THEN {3} ELSE {})
WithSizes(fam, at, s, opses) == {Inst(fam, at + i, ops) : <<i, ops>> \in UNION {Sizes(s, o) \X {o} : o \in opses}}
SegRegs == {R("SEG", n) : n \in {0, 2, 3, 4, 5}}

Moves ==
  UNION {WithSizes("mov", 0, s, (Some(s) \X (Addresses \cup Some(s))) \cup (Addresses \X Some(s)) \cup (ImmOperands(s) \X (Some(s) \cup Few))) : s \in 0 .. 2}
  \cup {Inst("mov", i, <<a, b>>) : i \in {2, 3}, a \in {R("CR", 0), R("CR", 3), R("DB", 7), R("TR", 6)}, b \in Some(2)}
  \cup {Inst("mov", i, <<b, a>>) : i \in {2, 3}, a \in {R("CR", 0), R("CR", 3), R("DB", 7), R("TR", 6)}, b \in Some(2)}
  \cup UNION {WithSizes("mov", 0, s, (SegRegs \X Some(s)) \cup (Some(s) \X SegRegs)) : s \in 1 .. 2}
  \cup {Inst("mov", 1, ops) : ops \in (SegRegs \X Few) \cup (Few \X SegRegs)}
ArithmeticForms ==
  UNION {UNION {WithSizes("arith", 4 * n, s, (TwoOf(s) \X (Few \cup Some(s))) \cup (Few \X TwoOf(s)) \cup (ImmOperands(s) \X (TwoOf(s) \cup Few))) : s \in 0 .. 2} : n \in 0 .. 7}
UnaryForms ==
  UNION {UNION {WithSizes(fam, 0, s, {<<a>> : a \in Some(s) \cup Few}) : s \in 0 .. 2} : fam \in {"inc", "dec", "not", "neg", "mul", "imul", "div", "idiv"}}
  \cup UNION {UNION {WithSizes(fam, 0, s, (TwoOf(s) \cup Few) \X {R(Classes[s + 1], 0)}) : s \in 0 .. 2} : fam \in {"div", "idiv"}}
TestsAndSwaps ==
  UNION {WithSizes("test", 0, s, (TwoOf(s) \X (Few \cup Some(s))) \cup (Few \X TwoOf(s)) \cup (ImmOperands(s) \X (TwoOf(s) \cup Few))) : s \in 0 .. 2}
  \cup UNION {UNION {WithSizes(fam, 0, s, (TwoOf(s) \X (Few \cup (Some(s) \ TwoOf(s)))) \cup (IF fam = "xchg" THEN Few \X Some(s) ELSE {})) : s \in 0 .. 2} :
                fam \in {"xchg", "xadd", "cmpxchg"}}
ShiftsBy ==
  UNION {UNION {WithSizes("shift", 4 * n, s, {<<c, a>> : c \in {I(1), I(5), I(255), R("REG8", 1)}, a \in TwoOf(s)} \cup (({I(5)} \cup (IF s = 0 THEN {} ELSE {R("REG8", 1)})) \X Few) \cup {<<a>> : a \in TwoOf(s) \cup Few}) :
                  s \in 0 .. 2} : n \in 0 .. 6}
OfWords ==
  UNION {
    UNION {WithSizes(fam, -1, s, (Few \cup Some(s)) \X TwoOf(s)) : fam \in {"bsf", "bsr", "lsl"}}
    \cup WithSizes("lea", -1, s, Addresses \X Some(s)) \cup WithSizes("movzb", -1, s, (Some(0) \cup Few) \X Some(s))
    \cup UNION {WithSizes(fam, -1, s, (TwoOf(s) \cup {I(5)}) \X (Some(s) \cup Few)) : fam \in {"bt", "bts", "btr", "btc"}}
    \cup UNION {WithSizes(fam, -1, s, {c \o <<a, b>> : c \in {<<>>, <<I(5)>>, <<R("REG8", 1)>>}, a \in TwoOf(s), b \in TwoOf(s) \cup Few}) : fam \in {"shld", "shrd"}}
    \cup UNION {WithSizes(fam, -1, s, {<<a>> : a \in Some(s) \cup Few \cup SegRegs}) : fam \in {"push", "pop"}}
    \cup WithSizes("push", -1, s, {<<a>> : a \in ImmOperands(s)})
    \cup WithSizes("imul", 0, s, ((Few \cup Some(s)) \X TwoOf(s)) \cup {<<c, b>> : c \in ImmOperands(s), b \in TwoOf(s)}
                              \cup {<<c, a, b>> : c \in ImmOperands(s), a \in Few \cup TwoOf(s), b \in TwoOf(s)})
    : s \in 1 .. 2}
  \cup {Inst(fam, 2, <<a>>) : fam \in {"push", "pop"}, a \in SegRegs} \cup {Inst("push", 2, <<a>>) : a \in ImmOperands(2)}
Extensions ==
  {Inst("movsbl", 0, <<a, b>>) : a \in Some(0) \cup Few, b \in TwoOf(2)} \cup {Inst("movsbw", 0, <<a, b>>) : a \in Some(0) \cup Few, b \in TwoOf(1)}
  \cup {Inst(fam, 0, <<a, b>>) : fam \in {"movswl", "movzwl"}, a \in Some(1) \cup Few, b \in TwoOf(2)}
  \cup {Inst("cmov", i, <<a, b>>) : i \in 0 .. 29, a \in TwoOf(2) \cup Few, b \in TwoOf(2)}
  \cup {Inst("set", i, <<a>>) : i \in 0 .. 29, a \in Some(0) \cup Few}
InOut ==
  UNION {UNION {{Inst("in", i, <<a, R(Classes[s + 1], 0)>>), Inst("out", i, <<R(Classes[s + 1], 0), a>>)} : i \in {s, 3}, a \in {I(4), I(200), R("REG16", 2)}} : s \in 0 .. 2}
  \cup {Inst(fam, s, <<a>>) : fam \in {"in", "out"}, s \in 0 .. 2, a \in {I(4), I(200), R("REG16", 2)}}
Strings == {Inst(fam, s, <<>>) : fam \in {"cmps", "scmp", "ins", "outs", "lods", "slod", "movs", "smov", "scas", "ssca", "stos", "ssto"}, s \in 0 .. 2}
Transfers ==
  {Inst(fam, 0, <<a>>) : fam \in {"call", "jmp"}, a \in {Star(x) : x \in Some(2) \cup Addresses} \cup {To(0, "L"), To(400, "L"), To(4, "f")}}
  \cup {Inst("j", i, <<a>>) : i \in 0 .. 29, a \in {To(v, "L") : v \in {-130, 0, 73, 74, 75, 126, 128, 130, 200, 273, 274, 275, 328, 329, 330, 400}} \cup {To(0, "f")}}
  \cup {Inst("jmp", 0, <<To(v, "L")>>) : v \in {-127, -126, -125, 73, 74, 75, 128, 129, 130, 328, 329, 330}}
  \cup {Inst(fam, 0, <<To(v, "L")>>) : fam \in {"loopne", "loopnz", "loope", "loopz", "loop", "jecxz"}, v \in {-127, -126, 73, 74, 100, 129, 130, 329, 330}}
  \cup {Inst(fam, 0, <<I(16), a>>) : fam \in {"lcall", "ljmp"}, a \in {I(65536), IS(4, "d")}}
  \cup {Inst(fam, 0, <<Star(a)>>) : fam \in {"lcall", "ljmp"}, a \in Few}
  \cup {Inst("int", 0, <<I(v)>>) : v \in {3, 128}} \cup {Inst(fam, 0, <<I(v)>>) : fam \in {"ret", "lret"}, v \in {4, 40000}}
  \cup {Inst("enter", 0, <<I(16), I(1)>>)}
Floats ==
  {Inst("fp", 6 * g + k, <<a>>) : g \in 0 .. 7, k \in 2 .. 5, a \in Few}
  \cup {Inst("fp", 6 * g, ops) : g \in 0 .. 7, ops \in {<<R("ST", 3)>>, <<R("ST", 3), R("ST", 0)>>}}
  \cup {Inst("fp", 6 * g + 1, ops) : g \in (0 .. 7) \ {2, 3}, ops \in {<<>>, <<R("ST", 3)>>, <<R("ST", 0), R("ST", 3)>>}}
  \cup {Inst("fp", 6 * g, <<>>) : g \in {2, 3}} \cup {Inst("fp", 19, <<>>)}
  \cup {Inst(fam, 0, <<R("ST", 3)>>) : fam \in {"fld", "fldl", "fst", "fstl", "fstp", "fxch", "fucom", "fucomp", "ffree", "ffreep"}}
  \cup {Inst(fam, 0, <<a>>) : a \in Few, fam \in {"flds", "fldl", "fildl", "fildq", "fildll", "fldt", "fbld", "fsts", "fstps", "fstl", "fstpl", "fist", "fistp",
          "fistl", "fistpl", "fistpq", "fistpll", "fstpt", "fbstp", "fldcw", "fnstcw", "fstcw", "fnstsw", "fstsw", "fnstenv", "fstenv", "fldenv",
          "fnsave", "fsave", "frstor", "fxsave", "fxrstor"}}
  \cup {Inst(fam, 0, <<R("ST", 3), R("ST", 0)>>) : fam \in {"fcmovb", "fcmove", "fcmovbe", "fcmovu", "fcmovnb", "fcmovne", "fcmovnbe", "fcmovnu",
          "fucomi", "fcomi", "fucomip", "fcomip"}}
  \cup {Inst(fam, 0, <<>>) : fam \in {"finit", "fclex", "fstsw"}} \cup {Inst(fam, 0, <<R("REG16", 0)>>) : fam \in {"fnstsw", "fstsw"}}
Systems ==
  {Inst("arpl", 0, <<a, b>>) : a \in TwoOf(1), b \in TwoOf(1) \cup Few} \cup {Inst("lar", 0, <<a, b>>) : a \in TwoOf(2) \cup Few, b \in TwoOf(2)}
  \cup {Inst("str", 0, <<a>>) : a \in TwoOf(1) \cup Few} \cup {Inst("bswap", 0, <<a>>) : a \in Some(2)}
  \cup {Inst("boundl", 0, <<R("REG32", 2), a>>) : a \in Few} \cup {Inst("boundw", 0, <<R("REG16", 2), a>>) : a \in Few}
  \cup {Inst(fam, 0, <<a>>) : fam \in {"lgdt", "lidt", "sgdt", "sidt", "invlpg", "cmpxchg8b"}, a \in Few}
  \cup {Inst(fam, 0, <<a>>) : fam \in {"lldt", "lmsw", "ltr", "sldt", "smsw", "verr", "verw"}, a \in TwoOf(1) \cup Few}
  \cup {Inst(fam, 0, <<a, R("REG32", 6)>>) : fam \in {"les", "lds", "lss", "lfs", "lgs"}, a \in Few}
  \cup {Inst(fam, 0, <<>>) : fam \in DOMAIN op0_codes}
Mmx ==
  {Inst(MmxNames[b], 0, <<a, R("MMX", 6)>>) : b \in DOMAIN MmxNames, a \in {R("MMX", 1)} \cup Few}
  \cup {Inst(fam, 0, <<I(5), R("MMX", 6)>>) : fam \in {"psrlw", "psraw", "psllw", "psrld", "psrad", "pslld", "psrlq", "psllq"}}
  \cup UNION {{Inst("movd", 0, <<a, R("MMX", 6)>>), Inst("movd", 0, <<R("MMX", 6), a>>)} : a \in {R("REG32", 1)} \cup Few}
  \cup UNION {{Inst("movq", 0, <<a, R("MMX", 6)>>), Inst("movq", 0, <<R("MMX", 6), a>>)} : a \in {R("MMX", 1)} \cup Few}
Prefixed == {[Inst("mov", 2, <<a, R("REG32", 1)>>) EXCEPT !.seg = s] : s \in DOMAIN segment_prefixes, a \in Addresses}
            \cup {[Inst(fam, 0, <<a>>) EXCEPT !.seg = "fs"] : fam \in {"fstcw", "fldcw"}, a \in Few}
Instructions ==
  Moves \cup ArithmeticForms \cup UnaryForms \cup TestsAndSwaps \cup ShiftsBy \cup OfWords \cup Extensions \cup InOut \cup Strings \cup Transfers
  \cup Floats \cup Systems \cup Mmx \cup Prefixed
\* A loop reaches 128 bytes back.
TooFar(in, ind) ==
  in.fam \in {"loopne", "loopnz", "loope", "loopz", "loop", "jecxz"} /\ in.ops[1].v - (ind + 2) \notin -128 .. 127
\* The instructions that asm.h and the code of asm_opcode have wrong.
KnownWrong(in) ==
  LET imm == Len(in.ops) > 1 /\ in.ops[1].k = "imm"
      short == in.ops[1].v \in -128 .. 127 /\ in.ops[1].sym = ""
  IN  CASE in.fam = "arith" -> imm /\ short /\ SizeWritten(in) = 0
        [] in.fam = "imul" -> imm /\ (Len(in.ops) = 2 \/ ~short)
        [] in.fam \in {"lcall", "ljmp"} -> in.ops[1].star
        [] in.fam = "xchg" -> in.i = 3 /\ R("REG8", 0) \in ToSet(in.ops)
        [] in.fam = "movzb" -> in.i = 2 /\ in.ops[2].class = "REG16" /\ in.ops[1].k = "reg"
        [] in.fam = "push" -> in.i = 0 /\ in.ops[1].k = "imm" /\ ~short
        [] in.fam = "fp" -> in.i = 12 /\ in.ops = <<>>
        [] OTHER -> FALSE
\* What may stand before a jump, with 1 to 7 bytes.
BeforeJumps == {Inst("nop", 0, <<>>), Inst("push", 2, <<R("SEG", 4)>>), Inst("arith", 1, <<I(256), R("REG16", 5)>>), Inst("mov", 2, <<R("REG32", 2), Mem(4, 7, 8, 256, "")>>)}
MCListings == {<<in>> : in \in Instructions} \cup {<<a, b>> : a \in BeforeJumps, b \in Transfers}
MCLeftovers == {{}, {"REG32"}}

\* What is assembled is what was written.
InstructionsAsWritten ==
  \A list \in {SubSeq(listing, 1, row)} :
    LET d == Disassembled(code, 1, origin)
        m == AllMeant(list)
    IN  /\ (\A k \in DOMAIN list : ~KnownWrong(list[k])) => Len(d) = Len(m) /\ \A k \in DOMAIN m : Alike(d[k], m[k])
        /\ x86State = "invalid displacement" => TooFar(listing[row + 1], origin + Len(code))
        /\ x86State \notin {"on", "idle", "invalid displacement"} => KnownWrong(listing[row + 1])
=============================================================================
