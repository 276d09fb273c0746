----------------------------- MODULE MCAssembly -----------------------------
(***************************************************************************)
(* What the compiler makes of text without a C parser: the lexer, which the*)
(* assembler shares with the compiler, the assembler, and the operands of  *)
(* asm statements; and the C67's generator, whose instructions are text to *)
(* its own assembler.  The assembler is in two parts: labels and           *)
(* directives, and the instructions.  A behaviour is one of these five;    *)
(* the state of the others is idle.                                        *)
(***************************************************************************)
EXTENDS MCLexer, MCInlineAsm, MCAssembler, MCI386Asm, MCC67

LexerIdle ==
  /\ input = [text |-> <<>>, cuts |-> {}, skip |-> FALSE]
  /\ file = [p |-> 1, lim |-> 0, line |-> 1] /\ flags = {}
  /\ names = [table_ident |-> <<>>, hash_ident |-> [h \in Buckets |-> <<>>]]
  /\ toks = <<>> /\ mode = "idle"
InlineAsmIdle ==
  /\ asm = [ops |-> <<>>, nout |-> 0, clobbers |-> {}] /\ got = [err |-> ""]
  /\ regs = <<>> /\ mem = <<>> /\ pushed = <<>> /\ seen = <<>> /\ phase = "idle"
AssemblerIdle ==
  /\ prog = <<>> /\ ip = 1 /\ labels = <<>> /\ sym_label = <<>> /\ sections = <<>>
  /\ cur_text_section = NoSection /\ last_text_section = NoSection /\ gen_ind = 0
  /\ placed = <<>> /\ asmState = "idle"
I386AsmIdle == listing = <<>> /\ row = 0 /\ origin = 0 /\ code = <<>> /\ x86State = "idle"
C67Idle == gen = [todo |-> <<>>] /\ dsp = [status |-> "idle"]

AssemblyInit ==
  \/ Init /\ InlineAsmIdle /\ AssemblerIdle /\ I386AsmIdle /\ C67Idle
  \/ LexerIdle /\ AsmInit /\ AssemblerIdle /\ I386AsmIdle /\ C67Idle
  \/ LexerIdle /\ InlineAsmIdle /\ AssemblerInit /\ I386AsmIdle /\ C67Idle
  \/ LexerIdle /\ InlineAsmIdle /\ AssemblerIdle /\ I386AsmInit /\ C67Idle
  \/ LexerIdle /\ InlineAsmIdle /\ AssemblerIdle /\ I386AsmIdle /\ C67Init

OnlyLexer == UNCHANGED <<asmVars, saVars, x86Vars, c67Vars>>
OnlyInlineAsm == UNCHANGED <<vars, saVars, x86Vars, c67Vars>>
OnlyAssembler == UNCHANGED <<vars, asmVars, x86Vars, c67Vars>>
OnlyInstructions == UNCHANGED <<vars, asmVars, saVars, c67Vars>>
OnlyC67 == UNCHANGED <<vars, asmVars, saVars, x86Vars>>
AssemblyNext ==
  \/ SkipGroup /\ OnlyLexer
  \/ NextToken /\ OnlyLexer
  \/ parse_asm_operands /\ OnlyInlineAsm
  \/ Compute /\ OnlyInlineAsm
  \/ Prolog /\ OnlyInlineAsm
  \/ TextEarly /\ OnlyInlineAsm
  \/ TextReads /\ OnlyInlineAsm
  \/ TextWrites /\ OnlyInlineAsm
  \/ Epilog /\ OnlyInlineAsm
  \/ Label /\ OnlyAssembler
  \/ LocalLabel /\ OnlyAssembler
  \/ Set /\ OnlyAssembler
  \/ Data /\ OnlyAssembler
  \/ Space /\ OnlyAssembler
  \/ Section /\ OnlyAssembler
  \/ Previous /\ OnlyAssembler
  \/ Globl /\ OnlyAssembler
  \/ Jump /\ OnlyAssembler
  \/ asm_free_labels /\ OnlyAssembler
  \/ Assemble /\ OnlyInstructions
  \/ C67Next /\ OnlyC67
AssemblySpec == AssemblyInit /\ [][AssemblyNext]_<<vars, asmVars, saVars, x86Vars, c67Vars>>

\* What is assembled is what was written, the references to labels as well as
\* the instructions.
AssembledAsWritten == LabelsAsWritten /\ InstructionsAsWritten
=============================================================================
