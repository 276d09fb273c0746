------------------------------ MODULE I386Asm ------------------------------
(***************************************************************************)
(* The instructions of the i386 assembler, i386/asm.c and i386/asm.h: how  *)
(* an operand is read, which row of the table an instruction is, and the   *)
(* bytes it becomes.                                                       *)
(*                                                                         *)
(* A mnemonic is the i-th token of its family: an order that asm.h and the *)
(* tokens of tcctok.h agree on, b, w, l and no suffix one after the other. *)
(* 32-bit values are integers from - 2 ^ 31 on.                            *)
(***************************************************************************)
EXTENDS Integers, Sequences, FiniteSets, SequencesExt

CONSTANTS
  Listings,    \* what is assembled: sequences of [fam, i, seg, ops]
  Origins,     \* gen_ind before it; the label "L" is at 0
  Leftovers    \* what an operand type that nobody has set may be

VARIABLES
  listing, row,        \* the instructions, and how many are assembled
  origin, code,        \* where the code begins, and its bytes
  x86State             \* "on" or why it has ended
x86Vars == <<listing, row, origin, code, x86State>>

(* ------------------------------- operands ------------------------------ *)

REG == {"REG8", "REG16", "REG32"}
REGW == {"REG16", "REG32"}
IM == {"IM8", "IM16", "IM32"}
IMW == {"IM16", "IM32"}
EA == {"EA"}
NoReg == -1

RegTypes(class, n) ==
  {class} \cup (IF class \in REG /\ n = 0 THEN {"EAX"} ELSE {})
  \cup (IF class = "REG8" /\ n = 1 THEN {"CL"} ELSE {})
  \cup (IF class = "REG16" /\ n = 2 THEN {"DX"} ELSE {})
  \cup (IF class = "ST" /\ n = 0 THEN {"ST0"} ELSE {})
ImmTypes(v, sym) ==
  {"IM32"} \cup {t \in {"IM8", "IM8S", "IM16"} :
                   sym = "" /\ v \in CASE t = "IM8" -> 0 .. 255 [] t = "IM8S" -> -128 .. 127 [] OTHER -> 0 .. 65535}
\* get_reg_shift.
ShiftOf == [n \in {1, 2, 4, 8} |-> CASE n = 1 -> 0 [] n = 2 -> 1 [] n = 4 -> 2 [] OTHER -> 3]

\* An operand: %n of a class, $v + sym, or v + sym(base, index, scale).
parse_operand(a) ==
  LET indir == IF a.star THEN {"INDIR"} ELSE {}
      e == [v |-> a.v, sym |-> a.sym]
  IN  CASE a.k = "reg" -> [type |-> RegTypes(a.class, a.n) \cup indir, reg |-> a.n, reg2 |-> NoReg, shift |-> 0, e |-> e]
        [] a.k = "imm" -> [type |-> ImmTypes(a.v, a.sym) \cup indir, reg |-> NoReg, reg2 |-> NoReg, shift |-> 0, e |-> e]
        [] OTHER -> [type |-> EA \cup indir \cup (IF a.base = NoReg /\ a.index = NoReg THEN {"ADDR"} ELSE {}),
                     reg |-> a.base, reg2 |-> a.index, shift |-> ShiftOf[a.scale], e |-> e]

(* ------------------------------ the table ------------------------------ *)

B == {"B", "WL"}
WL == {"WL"}
M == {"MODRM"}
Row(fam, at, opcode, group, type, ops) ==
  [fam |-> fam, at |-> at, opcode |-> opcode, group |-> group, type |-> type, ops |-> ops]
\* Rows that differ in the name, the opcode and the group only.
Rows(list, type, ops) == [k \in DOMAIN list |-> Row(list[k][1], 0, list[k][2], list[k][3], type, ops)]

IntegerRows ==
  Rows(<<<<"cmps", \ha6, 0>>, <<"scmp", \ha6, 0>>, <<"ins", \h6c, 0>>, <<"outs", \h6e, 0>>, <<"lods", \hac, 0>>, <<"slod", \hac, 0>>,
         <<"movs", \ha4, 0>>, <<"smov", \ha4, 0>>, <<"scas", \hae, 0>>, <<"ssca", \hae, 0>>, <<"stos", \haa, 0>>, <<"ssto", \haa, 0>>>>,
       B, <<>>) \o
  <<Row("bsf", 0, \h0fbc, 0, M \cup WL, <<REGW \cup EA, REGW>>), Row("bsr", 0, \h0fbd, 0, M \cup WL, <<REGW \cup EA, REGW>>)>> \o
  FlattenSeq([k \in 1 .. 4 |->
    LET fam == <<"bt", "bts", "btr", "btc">>[k]
    IN  <<Row(fam, 0, <<\h0fa3, \h0fab, \h0fb3, \h0fbb>>[k], 0, M \cup WL, <<REGW, REGW \cup EA>>),
          Row(fam, 0, \h0fba, k + 3, M \cup WL, <<{"IM8"}, REGW \cup EA>>)>>]) \o
  <<Row("mov", 0, \ha0, 0, B, <<{"ADDR"}, {"EAX"}>>), Row("mov", 0, \ha2, 0, B, <<{"EAX"}, {"ADDR"}>>),
    Row("mov", 0, \h88, 0, M \cup B, <<REG, EA \cup REG>>), Row("mov", 0, \h8a, 0, M \cup B, <<EA \cup REG, REG>>),
    Row("mov", 0, \hb0, 0, {"REG"} \cup B, <<IM, REG>>), Row("mov", 0, \hc6, 0, M \cup B, <<IM, REG \cup EA>>),
    Row("mov", 1, \h8c, 0, M \cup WL, <<{"SEG"}, EA \cup REG>>), Row("mov", 1, \h8e, 0, M \cup WL, <<EA \cup REG, {"SEG"}>>)>> \o
  FlattenSeq([k \in 1 .. 3 |-> <<Row("mov", 1, <<\h0f20, \h0f21, \h0f24>>[k], 0, M \cup WL, <<{<<"CR", "DB", "TR">>[k]}, {"REG32"}>>)>>]) \o
  FlattenSeq([k \in 1 .. 3 |-> <<Row("mov", 1, <<\h0f22, \h0f23, \h0f26>>[k], 0, M \cup WL, <<{"REG32"}, {<<"CR", "DB", "TR">>[k]}>>)>>]) \o
  <<Row("movsbl", 0, \h0fbe, 0, M, <<{"REG8"} \cup EA, {"REG32"}>>), Row("movsbw", 0, \h0fbe, 0, M \cup {"D16"}, <<{"REG8"} \cup EA, {"REG16"}>>),
    Row("movswl", 0, \h0fbf, 0, M, <<{"REG16"} \cup EA, {"REG32"}>>), Row("movzb", 0, \h0fb6, 0, M \cup WL, <<{"REG8"} \cup EA, REGW>>),
    Row("movzwl", 0, \h0fb7, 0, M, <<{"REG16"} \cup EA, {"REG32"}>>),
    Row("push", 0, \h50, 0, {"REG"} \cup WL, <<REGW>>), Row("push", 0, \hff, 6, M \cup WL, <<REGW \cup EA>>),
    Row("push", 0, \h6a, 0, WL, <<{"IM8S"}>>), Row("push", 0, \h68, 0, WL, <<{"IM32"}>>), Row("push", 0, \h06, 0, WL, <<{"SEG"}>>),
    Row("pop", 0, \h58, 0, {"REG"} \cup WL, <<REGW>>), Row("pop", 0, \h8f, 0, M \cup WL, <<REGW \cup EA>>), Row("pop", 0, \h07, 0, WL, <<{"SEG"}>>),
    Row("xchg", 1, \h90, 0, {"REG"} \cup WL, <<REG, {"EAX"}>>), Row("xchg", 1, \h90, 0, {"REG"} \cup WL, <<{"EAX"}, REG>>),
    Row("xchg", 0, \h86, 0, M \cup B, <<REG, EA \cup REG>>), Row("xchg", 0, \h86, 0, M \cup B, <<EA \cup REG, REG>>),
    Row("in", 0, \he4, 0, B, <<{"IM8"}, {"EAX"}>>), Row("in", 0, \he4, 0, B, <<{"IM8"}>>),
    Row("in", 0, \hec, 0, B, <<{"DX"}, {"EAX"}>>), Row("in", 0, \hec, 0, B, <<{"DX"}>>),
    Row("out", 0, \he6, 0, B, <<{"EAX"}, {"IM8"}>>), Row("out", 0, \he6, 0, B, <<{"IM8"}>>),
    Row("out", 0, \hee, 0, B, <<{"EAX"}, {"DX"}>>), Row("out", 0, \hee, 0, B, <<{"DX"}>>),
    Row("lea", 0, \h8d, 0, M \cup WL, <<EA, REG>>)>> \o
  Rows(<<<<"les", \hc4, 0>>, <<"lds", \hc5, 0>>, <<"lss", \h0fb2, 0>>, <<"lfs", \h0fb4, 0>>, <<"lgs", \h0fb5, 0>>>>, M, <<EA, {"REG32"}>>)

ArithmeticRows ==
  <<Row("arith", 0, \h00, 0, {"ARITH"} \cup M \cup B, <<REG, EA \cup REG>>), Row("arith", 0, \h02, 0, {"ARITH"} \cup M \cup B, <<EA \cup REG, REG>>),
    Row("arith", 0, \h83, 0, {"ARITH"} \cup M \cup WL, <<{"IM8S"}, EA \cup REG>>), Row("arith", 0, \h04, 0, {"ARITH"} \cup B, <<IM, {"EAX"}>>),
    Row("arith", 0, \h80, 0, {"ARITH"} \cup M \cup B, <<IM, EA \cup REG>>), Row("arith", 1, \h83, 0, {"ARITH"} \cup M \cup WL, <<{"IM8S"}, EA \cup REG>>),
    Row("test", 0, \h84, 0, M \cup B, <<EA \cup REG, REG>>), Row("test", 0, \h84, 0, M \cup B, <<REG, EA \cup REG>>),
    Row("test", 0, \ha8, 0, B, <<IM, {"EAX"}>>), Row("test", 0, \hf6, 0, M \cup B, <<IM, EA \cup REG>>),
    Row("inc", 1, \h40, 0, {"REG"} \cup WL, <<REGW>>), Row("inc", 0, \hfe, 0, M \cup B, <<REG \cup EA>>),
    Row("dec", 1, \h48, 0, {"REG"} \cup WL, <<REGW>>), Row("dec", 0, \hfe, 1, M \cup B, <<REG \cup EA>>)>> \o
  [k \in 1 .. 4 |-> Row(<<"not", "neg", "mul", "imul">>[k], 0, \hf6, k + 1, M \cup B, <<REG \cup EA>>)] \o
  <<Row("imul", 1, \h0faf, 0, M \cup WL, <<REG \cup EA, REG>>),
    Row("imul", 1, \h6b, 0, M \cup WL, <<{"IM8S"}, REGW \cup EA, REGW>>), Row("imul", 1, \h6b, 0, M \cup WL, <<{"IM8S"}, REGW>>),
    Row("imul", 1, \h69, 0, M \cup WL, <<IMW, REGW \cup EA, REGW>>), Row("imul", 1, \h69, 0, M \cup WL, <<IMW, REGW>>),
    Row("div", 0, \hf6, 6, M \cup B, <<REG \cup EA>>), Row("div", 0, \hf6, 6, M \cup B, <<REG \cup EA, {"EAX"}>>),
    Row("idiv", 0, \hf6, 7, M \cup B, <<REG \cup EA>>), Row("idiv", 0, \hf6, 7, M \cup B, <<REG \cup EA, {"EAX"}>>),
    Row("shift", 0, \hc0, 0, {"SHIFT"} \cup M \cup B, <<{"IM8"}, EA \cup REG>>), Row("shift", 0, \hd2, 0, {"SHIFT"} \cup M \cup B, <<{"CL"}, EA \cup REG>>),
    Row("shift", 0, \hd0, 0, {"SHIFT"} \cup M \cup B, <<EA \cup REG>>)>> \o
  FlattenSeq([k \in 1 .. 2 |->
    LET fam == <<"shld", "shrd">>[k]
        opcode == <<\h0fa4, \h0fac>>[k]
    IN  <<Row(fam, 0, opcode, 0, M \cup WL, <<{"IM8"}, REGW, EA \cup REGW>>), Row(fam, 0, opcode + 1, 0, M \cup WL, <<{"CL"}, REGW, EA \cup REGW>>),
          Row(fam, 0, opcode + 1, 0, M \cup WL, <<REGW, EA \cup REGW>>)>>])

ControlRows ==
  <<Row("call", 0, \hff, 2, M, <<{"INDIR"}>>), Row("call", 0, \he8, 0, {"JMP"}, <<{"ADDR"}>>),
    Row("jmp", 0, \hff, 4, M, <<{"INDIR"}>>), Row("jmp", 0, \heb, 0, {"SHORTJMP", "JMP"}, <<{"ADDR"}>>),
    Row("lcall", 0, \h9a, 0, {}, <<{"IM16"}, {"IM32"}>>), Row("lcall", 0, \hff, 3, {}, <<EA>>),
    Row("ljmp", 0, \hea, 0, {}, <<{"IM16"}, {"IM32"}>>), Row("ljmp", 0, \hff, 5, {}, <<EA>>),
    Row("int", 0, \hcd, 0, {}, <<{"IM8"}>>), Row("set", 0, \h0f90, 0, M \cup {"TEST"}, <<{"REG8"} \cup EA>>),
    Row("enter", 0, \hc8, 0, {}, <<{"IM16"}, {"IM8"}>>), Row("ret", 0, \hc2, 0, {}, <<{"IM16"}>>), Row("lret", 0, \hca, 0, {}, <<{"IM16"}>>),
    Row("j", 0, \h70, 0, {"SHORTJMP", "JMP", "TEST"}, <<{"ADDR"}>>)>> \o
  Rows(<<<<"loopne", \he0, 0>>, <<"loopnz", \he0, 0>>, <<"loope", \he1, 0>>, <<"loopz", \he1, 0>>, <<"loop", \he2, 0>>, <<"jecxz", \he3, 0>>>>, {"SHORTJMP"}, <<{"ADDR"}>>)

FloatRows ==
  <<Row("fp", 18, \hd8d9, 0, {}, <<>>), Row("fp", 0, \hd8c0, 0, {"FARITH", "REG"}, <<{"ST"}>>),
    Row("fp", 0, \hd8c0, 0, {"FARITH", "REG"}, <<{"ST"}, {"ST0"}>>), Row("fp", 0, \hdec1, 0, {"FARITH"}, <<>>),
    Row("fp", 1, \hdec0, 0, {"FARITH", "REG"}, <<{"ST"}>>), Row("fp", 1, \hdec0, 0, {"FARITH", "REG"}, <<{"ST"}, {"ST0"}>>),
    Row("fp", 1, \hdec0, 0, {"FARITH", "REG"}, <<{"ST0"}, {"ST"}>>), Row("fp", 1, \hdec1, 0, {"FARITH"}, <<>>),
    Row("fp", 2, \hd8, 0, {"FARITH"} \cup M, <<EA>>), Row("fp", 3, \hda, 0, {"FARITH"} \cup M, <<EA>>),
    Row("fp", 4, \hdc, 0, {"FARITH"} \cup M, <<EA>>), Row("fp", 5, \hde, 0, {"FARITH"} \cup M, <<EA>>),
    Row("finit", 0, \hdbe3, 0, {"FWAIT"}, <<>>), Row("fclex", 0, \hdbe2, 0, {"FWAIT"}, <<>>),
    Row("fnstsw", 0, \hdfe0, 0, {}, <<{"EAX"}>>), Row("fstsw", 0, \hdfe0, 0, {"FWAIT"}, <<{"EAX"}>>), Row("fstsw", 0, \hdfe0, 0, {"FWAIT"}, <<>>)>> \o
  Rows(<<<<"fld", \hd9c0, 0>>, <<"fldl", \hd9c0, 0>>, <<"fst", \hddd0, 0>>, <<"fstl", \hddd0, 0>>, <<"fstp", \hddd8, 0>>, <<"fxch", \hd9c8, 0>>,
         <<"fucom", \hdde0, 0>>, <<"fucomp", \hdde8, 0>>, <<"ffree", \hddc0, 4>>, <<"ffreep", \hdfc0, 4>>>>, {"REG"}, <<{"ST"}>>) \o
  Rows(<<<<"flds", \hd9, 0>>, <<"fldl", \hdd, 0>>, <<"fildl", \hdb, 0>>, <<"fildq", \hdf, 5>>, <<"fildll", \hdf, 5>>, <<"fldt", \hdb, 5>>, <<"fbld", \hdf, 4>>,
         <<"fsts", \hd9, 2>>, <<"fstps", \hd9, 3>>, <<"fstl", \hdd, 2>>, <<"fstpl", \hdd, 3>>, <<"fist", \hdf, 2>>, <<"fistp", \hdf, 3>>,
         <<"fistl", \hdb, 2>>, <<"fistpl", \hdb, 3>>, <<"fistpq", \hdf, 7>>, <<"fistpll", \hdf, 7>>, <<"fstpt", \hdb, 7>>, <<"fbstp", \hdf, 6>>,
         <<"fldcw", \hd9, 5>>, <<"fnstcw", \hd9, 7>>, <<"fnstsw", \hdd, 7>>, <<"fnstenv", \hd9, 6>>, <<"fldenv", \hd9, 4>>,
         <<"fnsave", \hdd, 6>>, <<"frstor", \hdd, 4>>, <<"fxsave", \h0fae, 0>>, <<"fxrstor", \h0fae, 1>>>>, M, <<EA>>) \o
  Rows(<<<<"fstcw", \hd9, 7>>, <<"fstsw", \hdd, 7>>, <<"fstenv", \hd9, 6>>, <<"fsave", \hdd, 6>>>>, M \cup {"FWAIT"}, <<EA>>) \o
  Rows(<<<<"fcmovb", \hdac0, 0>>, <<"fcmove", \hdac8, 0>>, <<"fcmovbe", \hdad0, 0>>, <<"fcmovu", \hdad8, 0>>, <<"fcmovnb", \hdbc0, 0>>,
         <<"fcmovne", \hdbc8, 0>>, <<"fcmovnbe", \hdbd0, 0>>, <<"fcmovnu", \hdbd8, 0>>, <<"fucomi", \hdbe8, 0>>, <<"fcomi", \hdbf0, 0>>,
         <<"fucomip", \hdfe8, 0>>, <<"fcomip", \hdff0, 0>>>>, {"REG"}, <<{"ST"}, {"ST0"}>>)

SystemRows ==
  <<Row("arpl", 0, \h63, 0, M, <<{"REG16"}, {"REG16"} \cup EA>>), Row("lar", 0, \h0f02, 0, M, <<{"REG32"} \cup EA, {"REG32"}>>),
    Row("lsl", 0, \h0f03, 0, M \cup WL, <<EA \cup REG, REG>>), Row("str", 0, \h0f00, 1, M, <<{"REG16"} \cup EA>>),
    Row("bswap", 0, \h0fc8, 0, {"REG"}, <<{"REG32"}>>), Row("xadd", 0, \h0fc0, 0, M \cup B, <<REG, REG \cup EA>>),
    Row("cmpxchg", 0, \h0fb0, 0, M \cup B, <<REG, REG \cup EA>>), Row("boundl", 0, \h62, 0, M, <<{"REG32"}, EA>>),
    Row("boundw", 0, \h62, 0, M \cup {"D16"}, <<{"REG16"}, EA>>), Row("cmov", 0, \h0f40, 0, M \cup {"TEST"}, <<{"REG32"} \cup EA, {"REG32"}>>)>> \o
  Rows(<<<<"lgdt", \h0f01, 2>>, <<"lidt", \h0f01, 3>>, <<"sgdt", \h0f01, 0>>, <<"sidt", \h0f01, 1>>, <<"invlpg", \h0f01, 7>>,
         <<"cmpxchg8b", \h0fc7, 1>>>>, M, <<EA>>) \o
  Rows(<<<<"lldt", \h0f00, 2>>, <<"lmsw", \h0f01, 6>>, <<"ltr", \h0f00, 3>>, <<"sldt", \h0f00, 0>>, <<"smsw", \h0f01, 4>>,
         <<"verr", \h0f00, 4>>, <<"verw", \h0f00, 5>>>>, M, <<EA \cup REG>>)

MMX == {"MMX"}
MmxRows ==
  <<Row("movd", 0, \h0f6e, 0, M, <<EA \cup {"REG32"}, MMX>>), Row("movd", 0, \h0f7e, 0, M, <<MMX, EA \cup {"REG32"}>>),
    Row("movq", 0, \h0f6f, 0, M, <<EA \cup MMX, MMX>>), Row("movq", 0, \h0f7f, 0, M, <<MMX, EA \cup MMX>>)>> \o
  Rows(<<<<"packssdw", \h0f6b, 0>>, <<"packsswb", \h0f63, 0>>, <<"packuswb", \h0f67, 0>>, <<"paddb", \h0ffc, 0>>,
         <<"paddw", \h0ffd, 0>>, <<"paddd", \h0ffe, 0>>, <<"paddsb", \h0fec, 0>>, <<"paddsw", \h0fed, 0>>, <<"paddusb", \h0fdc, 0>>,
         <<"paddusw", \h0fdd, 0>>, <<"pand", \h0fdb, 0>>, <<"pandn", \h0fdf, 0>>, <<"pcmpeqb", \h0f74, 0>>, <<"pcmpeqw", \h0f75, 0>>,
         <<"pcmpeqd", \h0f76, 0>>, <<"pcmpgtb", \h0f64, 0>>, <<"pcmpgtw", \h0f65, 0>>, <<"pcmpgtd", \h0f66, 0>>, <<"pmaddwd", \h0ff5, 0>>,
         <<"pmulhw", \h0fe5, 0>>, <<"pmullw", \h0fd5, 0>>, <<"por", \h0feb, 0>>, <<"psllw", \h0ff1, 0>>, <<"pslld", \h0ff2, 0>>,
         <<"psllq", \h0ff3, 0>>, <<"psraw", \h0fe1, 0>>, <<"psrad", \h0fe2, 0>>, <<"psrlw", \h0fd1, 0>>, <<"psrld", \h0fd2, 0>>,
         <<"psrlq", \h0fd3, 0>>, <<"psubb", \h0ff8, 0>>, <<"psubw", \h0ff9, 0>>, <<"psubd", \h0ffa, 0>>, <<"psubsb", \h0fe8, 0>>,
         <<"psubsw", \h0fe9, 0>>, <<"psubusb", \h0fd8, 0>>, <<"psubusw", \h0fd9, 0>>, <<"punpckhbw", \h0f68, 0>>, <<"punpckhwd", \h0f69, 0>>,
         <<"punpckhdq", \h0f6a, 0>>, <<"punpcklbw", \h0f60, 0>>, <<"punpcklwd", \h0f61, 0>>, <<"punpckldq", \h0f62, 0>>, <<"pxor", \h0fef, 0>>>>,
       M, <<EA \cup MMX, MMX>>) \o
  Rows(<<<<"psllw", \h0f71, 6>>, <<"pslld", \h0f72, 6>>, <<"psllq", \h0f73, 6>>, <<"psraw", \h0f71, 4>>, <<"psrad", \h0f72, 4>>,
         <<"psrlw", \h0f71, 2>>, <<"psrld", \h0f72, 2>>, <<"psrlq", \h0f73, 2>>>>, M, <<{"IM8"}, MMX>>)

\* asm_instrs, in an order that keeps that of rows with a token in common.
asm_instrs == IntegerRows \o ArithmeticRows \o ControlRows \o FloatRows \o SystemRows \o MmxRows

\* DEF_ASM_OP0: instructions without operands.
op0_codes ==
  [pusha |-> \h60, popa |-> \h61, clc |-> \hf8, cld |-> \hfc, cli |-> \hfa, clts |-> \h0f06, cmc |-> \hf5, lahf |-> \h9f, sahf |-> \h9e,
   pushfl |-> \h9c, popfl |-> \h9d, pushf |-> \h9c, popf |-> \h9d, stc |-> \hf9, std |-> \hfd, sti |-> \hfb, aaa |-> \h37, aas |-> \h3f,
   daa |-> \h27, das |-> \h2f, aad |-> \hd50a, aam |-> \hd40a, cbw |-> \h6698, cwd |-> \h6699, cwde |-> \h98, cdq |-> \h99, cbtw |-> \h6698,
   cwtl |-> \h98, cwtd |-> \h6699, cltd |-> \h99, int3 |-> \hcc, into |-> \hce, iret |-> \hcf, rsm |-> \h0faa, hlt |-> \hf4, wait |-> \h9b,
   nop |-> \h90, xlat |-> \hd7, aword |-> \h67, addr16 |-> \h67, word |-> \h66, data16 |-> \h66, lock |-> \hf0, rep |-> \hf3, repe |-> \hf3,
   repz |-> \hf3, repne |-> \hf2, repnz |-> \hf2, invd |-> \h0f08, wbinvd |-> \h0f09, cpuid |-> \h0fa2, wrmsr |-> \h0f30, rdtsc |-> \h0f31,
   rdmsr |-> \h0f32, rdpmc |-> \h0f33, ud2 |-> \h0f0b, leave |-> \hc9, ret |-> \hc3, lret |-> \hcb, fucompp |-> \hdae9, ftst |-> \hd9e4,
   fxam |-> \hd9e5, fld1 |-> \hd9e8, fldl2t |-> \hd9e9, fldl2e |-> \hd9ea, fldpi |-> \hd9eb, fldlg2 |-> \hd9ec, fldln2 |-> \hd9ed,
   fldz |-> \hd9ee, f2xm1 |-> \hd9f0, fyl2x |-> \hd9f1, fptan |-> \hd9f2, fpatan |-> \hd9f3, fxtract |-> \hd9f4, fprem1 |-> \hd9f5,
   fdecstp |-> \hd9f6, fincstp |-> \hd9f7, fprem |-> \hd9f8, fyl2xp1 |-> \hd9f9, fsqrt |-> \hd9fa, fsincos |-> \hd9fb, frndint |-> \hd9fc,
   fscale |-> \hd9fd, fsin |-> \hd9fe, fcos |-> \hd9ff, fchs |-> \hd9e0, fabs |-> \hd9e1, fninit |-> \hdbe3, fnclex |-> \hdbe2,
   fnop |-> \hd9d0, fwait |-> \h9b, fxch |-> \hd9c9, fnstsw |-> \hdfe0, emms |-> \h0f77]

(* ----------------------------- which row it is ------------------------- *)

\* How the row's mnemonics lie in their family.
OfRow(r, in) ==
  LET d == in.i - r.at
  IN  /\ in.fam = r.fam /\ d >= 0
      /\ CASE "FARITH" \in r.type -> d < 8 * 6 /\ d % 6 = 0
           [] "ARITH" \in r.type -> d < 8 * 4
           [] "SHIFT" \in r.type -> d < 7 * 4
           [] "TEST" \in r.type -> d < 30
           [] {"FARITH", "ARITH", "SHIFT", "TEST"} \cap r.type = {} /\ "B" \in r.type -> d <= 3
           [] {"FARITH", "ARITH", "SHIFT", "TEST", "B"} \cap r.type = {} /\ "WL" \in r.type -> d <= 2
           [] OTHER -> d = 0
\* 0, 1, 2 for b, w, l; 3 if it is not known.
SuffixSize(r, in) ==
  CASE {"ARITH", "SHIFT"} \cap r.type # {} -> (in.i - r.at) % 4
    [] {"FARITH", "ARITH", "SHIFT", "TEST"} \cap r.type = {} /\ "B" \in r.type -> (in.i - r.at) % 4
    [] {"FARITH", "ARITH", "SHIFT", "TEST", "B"} \cap r.type = {} /\ "WL" \in r.type -> in.i - r.at + 1
    [] OTHER -> 0
Fits(r, in, ops) ==
  OfRow(r, in) /\ Len(r.ops) = Len(ops) /\ \A k \in DOMAIN ops : ops[k].type \cap r.ops[k] # {}

\* reg_to_size of the first register that tells it.
SizeOfOperation(r, in, ops) ==
  LET s == SuffixSize(r, in)
      Telling == {k \in DOMAIN ops : ops[k].type \cap REG # {} /\ r.ops[k] \cap {"CL", "DX"} = {}}
      first == ops[CHOOSE k \in Telling : \A j \in Telling : k <= j].type
  IN  CASE s # 3 -> s
        [] s = 3 /\ Telling # {} -> CASE "REG8" \in first -> 0 [] "REG16" \in first -> 1 [] OTHER -> 2
        [] s = 3 /\ Telling = {} /\ in.fam \in {"push", "pop"} /\ ops[1].type \cap {"SEG", "IM8S", "IM32"} # {} -> 2
        [] OTHER -> 3

(* ------------------------------- the bytes ----------------------------- *)

\* A byte of the code, and the relocation that begins at it.
NoReloc == <<"none", "">>
Plain(bytes) == [k \in DOMAIN bytes |-> [b |-> bytes[k] % 256, rel |-> NoReloc]]
Little(v, n) == [k \in 1 .. n |-> (v \div 256 ^ (k - 1)) % 256]
Field(v, rel) == [k \in 1 .. 4 |-> [b |-> Little(v, 4)[k], rel |-> IF k = 1 THEN rel ELSE NoReloc]]
gen_expr32(e) == Field(e.v, IF e.sym = "" THEN NoReloc ELSE <<"R_386_32", e.sym>>)
\* "L" is at 0 of this section.
gen_disp32(e, ind) ==
  IF e.sym = "L" THEN Field(e.v - ind - 4, NoReloc)
  ELSE Field(e.v - 4, <<"R_386_PC32", e.sym>>)

IsByte(v) == v \in -128 .. 127
asm_modrm(reg, op) ==
  LET sib_reg1 == IF op.reg = NoReg THEN 5 ELSE op.reg
      mod == CASE op.reg = NoReg -> 0
               [] op.reg # NoReg /\ op.e.v = 0 /\ op.e.sym = "" /\ op.reg # 5 -> 0
               [] op.reg # NoReg /\ (op.e.v # 0 \/ op.reg = 5) /\ op.e.sym = "" /\ IsByte(op.e.v) -> \h40
               [] OTHER -> \h80
      reg1 == IF op.reg2 # NoReg THEN 4 ELSE op.reg
      reg2 == IF op.reg2 = NoReg THEN 4 ELSE op.reg2
      sib == IF reg1 = 4 THEN <<op.shift * 64 + reg2 * 8 + sib_reg1>> ELSE <<>>
  IN  CASE op.type \cap (REG \cup {"MMX", "SSE"}) # {} -> Plain(<<\hc0 + reg * 8 + op.reg>>)
        [] op.type \cap (REG \cup {"MMX", "SSE"}) = {} /\ op.reg = NoReg /\ op.reg2 = NoReg ->
             Plain(<<5 + reg * 8>>) \o gen_expr32(op.e)
        [] OTHER -> Plain(<<mod + reg * 8 + reg1>> \o sib)
                    \o (IF mod = \h40 THEN Plain(<<op.e.v>>)
                        ELSE IF mod = \h80 \/ op.reg = NoReg THEN gen_expr32(op.e) ELSE <<>>)

segment_prefixes == [es |-> \h26, cs |-> \h2e, ss |-> \h36, ds |-> \h3e, fs |-> \h64, gs |-> \h65]
test_bits == <<0, 1, 2, 2, 2, 3, 3, 3, 4, 4, 5, 5, 6, 6, 7, 7, 8, 9, \ha, \ha, \hb, \hb, \hc, \hc, \hd, \hd, \he, \he, \hf, \hf>>

\* The opcode of a row, without what a register or a suffix adds.  Push and pop
\* of %fs and %gs have two bytes.
OpcodeOf(r, in, ops) ==
  CASE r.opcode = \hcd /\ ops[1].e.v = 3 /\ ops[1].e.sym = "" -> \hcc
    [] r.opcode \in {\h06, \h07} /\ ops[1].reg >= 4 -> \h0fa0 + r.opcode - 6 + (ops[1].reg - 4) * 8
    [] r.opcode \in {\h06, \h07} /\ ops[1].reg < 4 -> r.opcode + ops[1].reg * 8
    [] r.opcode <= 5 -> r.opcode + (in.i \div 4) * 8
    [] {"FARITH", "MODRM"} \cap r.type = {"FARITH"} -> r.opcode + ((in.i - r.at) \div 6) * 8
    [] OTHER -> r.opcode
NoOperands(r, ops) == r.opcode \in {\h06, \h07} \/ (r.opcode = \hcd /\ ops[1].e.v = 3 /\ ops[1].e.sym = "")
FirstOf(S) == CHOOSE k \in S : \A j \in S : k <= j
\* s is 1 for l, too.
WithRegAndSize(v, r, types, ops, s) ==
  LET regs == {k \in DOMAIN ops : types[k] \cap (REG \cup {"ST"}) # {}}
  IN  v + (IF "REG" \in r.type /\ regs # {} THEN ops[FirstOf(regs)].reg ELSE 0)
        + (IF "REG" \in r.type /\ r.opcode = \hb0 /\ s >= 1 THEN 7 ELSE 0)
        + (IF "B" \in r.type THEN s ELSE 0)

\* The operand for modrm, an ea if there is one, and the register beside it;
\* group is what stands in the place of a register.
ModrmOf(group, types, ops) ==
  LET eas == {k \in DOMAIN ops : "EA" \in types[k]}
      regs == {k \in DOMAIN ops : types[k] \cap (REG \cup {"MMX", "SSE", "INDIR"}) # {}}
      index == FirstOf(IF eas # {} THEN eas ELSE regs)
      others == {k \in DOMAIN ops \ {index} : types[k] \cap (REG \cup {"MMX", "SSE", "CR", "TR", "DB", "SEG"}) # {}}
  IN  asm_modrm(IF others # {} THEN ops[FirstOf(others)].reg ELSE group, ops[index])
GroupOf(r, in) ==
  CASE "SHIFT" \in r.type -> IF (in.i - r.at) \div 4 = 6 THEN 7 ELSE (in.i - r.at) \div 4
    [] "ARITH" \in r.type -> (in.i - r.at) \div 4
    [] "FARITH" \in r.type -> (in.i - r.at) \div 6
    [] OTHER -> r.group

\* What the operand is as a constant; several sizes mean that of the operation.
ConstType(t, ss) ==
  IF t \in {IM, IMW} THEN {CASE ss = 0 -> "IM8" [] ss = 1 -> "IM16" [] OTHER -> "IM32"} ELSE t
Unrelocatable(t, ss, op) == ConstType(t, ss) \cap {"IM8", "IM8S", "IM16"} # {} /\ op.e.sym # ""
\* jump is "" or the kind of a jump.
ConstBytes(t, ss, op, jump, ind) ==
  LET c == ConstType(t, ss)
  IN  CASE c \cap {"IM8", "IM8S"} # {} -> Plain(<<op.e.v>>)
        [] c \cap {"IM8", "IM8S"} = {} /\ "IM16" \in c -> Plain(Little(op.e.v, 2))
        [] c \cap {"IM8", "IM8S", "IM16"} = {} /\ c \cap {"IM32", "ADDR"} # {} ->
             CASE jump = "short" -> Plain(<<op.e.v - ind - 1>>)
               [] jump = "long" -> gen_disp32(op.e, ind)
               [] OTHER -> gen_expr32(op.e)
        [] OTHER -> <<>>

\* The operands as constants follow what is in front.
WithConstants(front, types, ss, ops, jump, ind) ==
  LET upTo[k \in 0 .. Len(ops)] ==
        IF k = 0 THEN front ELSE upTo[k - 1] \o ConstBytes(types[k], ss, ops[k], jump, ind + Len(upTo[k - 1]))
  IN  upTo[Len(ops)]

Encoded(bytes) == [err |-> "", bytes |-> bytes]
Refused(why) == [err |-> why, bytes |-> <<>>]
BytesOf(v) == IF v >= 256 THEN <<v \div 256, v % 256>> ELSE <<v>>

\* sum is the opcode with what the row adds; short tells that it is a jump with
\* a displacement of one byte.
Emitted(r, in, ops, types, ss, prefix, sum, short, ind) ==
  LET v == IF "SHORTJMP" \notin r.type \/ short THEN sum ELSE IF sum = \heb THEN \he9 ELSE sum + \h0f10
      modrm == IF "MODRM" \in r.type THEN ModrmOf(GroupOf(r, in), types, ops) ELSE <<>>
      jump == CASE short -> "short" [] {"JMP", "SHORTJMP"} \cap r.type # {} /\ ~short -> "long" [] OTHER -> ""
      front == Plain(prefix \o BytesOf(v)) \o modrm
      far == r.opcode \in {\h9a, \hea}
  IN  CASE "SHORTJMP" \in r.type /\ "JMP" \notin r.type /\ ~short -> Refused("invalid displacement")
        [] far /\ ops[1].e.sym # "" -> Refused("cannot relocate")
        [] far /\ ops[1].e.sym = "" -> Encoded(front \o gen_expr32(ops[2].e) \o Plain(Little(ops[1].e.v, 2)))
        [] ~far /\ \E k \in DOMAIN ops : Unrelocatable(types[k], ss, ops[k]) -> Refused("cannot relocate")
        [] OTHER -> Encoded(WithConstants(front, types, ss, ops, jump, ind))

\* The instruction is that of row r, its size ss.
CodeOfRow(r, ss, in, operands, ind, leftover) ==
  LET \* "kludge for imul $im, %reg": the third is the second, and its type is
      \* not set if there were two.
      ops == IF NoOperands(r, operands) THEN <<>>
             ELSE IF r.opcode = \h69 THEN <<operands[1], operands[2], operands[2]>> ELSE operands
      types == [k \in DOMAIN ops |-> IF k \in DOMAIN r.ops THEN r.ops[k] ELSE leftover]
      prefix == (IF ss = 1 \/ "D16" \in r.type THEN <<\h66>> ELSE <<>>) \o (IF "FWAIT" \in r.type THEN <<\h9b>> ELSE <<>>)
                \o (IF in.seg = "" THEN <<>> ELSE <<segment_prefixes[in.seg]>>)
      sum == WithRegAndSize(OpcodeOf(r, in, operands), r, types, ops, IF ss = 2 /\ "D16" \notin r.type THEN 1 ELSE ss)
             + (IF "TEST" \in r.type THEN test_bits[in.i - r.at + 1] ELSE 0)
      short == "SHORTJMP" \in r.type /\ ops[1].e.sym = "L" /\ IsByte(ops[1].e.v - (ind + Len(prefix)) - 2)
  IN  IF ss = 3 THEN Refused("cannot infer opcode suffix") ELSE Emitted(r, in, ops, types, ss, prefix, sum, short, ind)
RowCode(r, in, operands, ind, leftover) == CodeOfRow(r, SizeOfOperation(r, in, operands), in, operands, ind, leftover)

\* asm_opcode: the code of an instruction at ind, or why there is none.
asm_opcode(in, ind, leftover) ==
  LET operands == [k \in DOMAIN in.ops |-> parse_operand(in.ops[k])]
      fitting == {k \in DOMAIN asm_instrs : Fits(asm_instrs[k], in, operands)}
  IN  CASE fitting # {} -> RowCode(asm_instrs[FirstOf(fitting)], in, operands, ind, leftover)
        [] fitting = {} /\ in.fam \in DOMAIN op0_codes -> Encoded(Plain(BytesOf(op0_codes[in.fam])))
        [] OTHER -> Refused("unknown opcode")

(* ------------------------------- actions ------------------------------- *)

I386AsmInit ==
  /\ listing \in Listings /\ origin \in Origins
  /\ row = 0 /\ code = <<>> /\ x86State = "on"

Assemble ==
  /\ x86State = "on" /\ row < Len(listing)
  /\ \E leftover \in Leftovers : \E e \in {asm_opcode(listing[row + 1], origin + Len(code), leftover)} :
       IF e.err = "" THEN row' = row + 1 /\ code' = code \o e.bytes /\ UNCHANGED x86State
       ELSE x86State' = e.err /\ UNCHANGED <<row, code>>
  /\ UNCHANGED <<listing, origin>>

I386AsmNext == Assemble
I386AsmSpec == I386AsmInit /\ [][I386AsmNext]_x86Vars
=============================================================================
