# A verification project for TinyCC

TLA+ models of the parts of TinyCC (`src/`) whose correctness depends on long
histories or on the agreement of several functions: the symbol tables that
scopes push and pop, the preprocessor's files, conditionals and macros, the
lexer and literals, declarations, initializers and statements, the value stack
and the code generators for the i386, the ARM and the TMS320C67, the run-time
library for long long, the assembler, the ELF symbol table, the linker, and the
table of the bounds checker.  TLC checks them on small instances; TLAPS proves,
for every instance, the main invariants of the symbol tables, the preprocessor,
the ELF symbol table, the linker, the bounds checker and the run-time library,
and that the symbol tables implement lexical scoping.

All of TinyCC runs on one thread.  What makes it hard is state that many
operations share and none owns: a stack that error() leaves half unwound, a
flag set by one directive and read by another file's end, a register that three
entries of a stack name.  The interleavings explored here are the orders in
which a *program being compiled* makes these operations happen.

## 1. The system

| Component | State | Operations | What makes it correct |
|---|---|---|---|
| symbol tables (`tcc.c` 210-247, 793-908, 7090-7420, 8130-8509) | `global_stack`, `local_stack`, `table_ident[].sym_*`, the pool of `Sym`s, `SValue.sym` | `sym_push`, `global_identifier_push`, `sym_pop`, `block`, `decl`, `gen_function`, `tcc_compile` | names mean what C's scopes say; no `Sym` is used twice; nothing refers to a freed one |
| preprocessor (`tcc.c` 912-1337, 1513-1883, 1883-2161, 2563-2660) | `include_stack`, `ifdef_stack`, `file`, `tok_flags`, `cached_includes`, `define_stack` | directives, opening and closing files, skipping groups, `free_defines` | text is read exactly where the conditionals say; a remembered file really has nothing to say; units do not influence each other |
| macro expansion (`tcc.c` 2985-3450) | `macro_ptr`, nested-define list, token strings | `macro_subst`, `macro_arg_subst`, `macro_twosharps` | the expansion C describes; ends |
| lexer and token strings (`tcc.c` 548-790, 912-1565, 2163-2983) | file buffer, `tok`, `tokc`, `table_ident`, `TokenString`s | `handle_eob`, `next_nomacro1`, `tok_alloc`, `parse_number`, `parse_escape_string`, `tok_str_add2`, `TOK_GET` | a token does not depend on where the buffer ends; a literal is worth what C says; tokens that are kept come back as they were |
| parser (`tcc.c` 5500-8395) | `tok`, the stacks above, chains of jumps (`gsym`) | expressions, statements, declarations, initializers, labels | each jump of a chain is patched once; two passes over an initializer agree |
| types (`tcc.c` 5069-5300, 5630-6120) | anonymous `Sym`s | `type_size`, `struct_decl`, `is_compatible_types` | layout and compatibility |
| value stack and i386 code generator (`tcc.c` 3531-5515, 6290-7020, `i386/gen.c`) | `vstack`, `loc`, `ind`, the code section | `gv`, `gv2`, `save_reg`, `get_reg`, `gen_op*`, `gen_cast`, `vstore`, `gtst`, `gfunc_call` | each operand keeps its value wherever the allocator moves it |
| ARM code generator (`arm/gen.c`) | `vstack`, the code section | `stuff_const`, `calcaddr`, `load`, `store`, `gen_opi`, `gfunc_call`, `gfunc_prolog` | constants and offsets fit their instructions; words of arguments meet in r0 to r3 |
| TMS320C67 code generator (`c67-gen.c`) | `C67_compare_reg`, `C67_invert_test`, `ParamLocOnStack`, the code section | the same, and `C67_asm` | no value is read before its instruction has delivered it |
| runtime library (`libtinycc1.c`) | - | 64-bit division and shifts, conversions | arithmetic |
| floating point | - | `gen_opf`, conversions | arithmetic |
| ELF symbol table, sections (`tccelf.c` 1-450, `tcc.c` 249-410) | `symtab_section`, its hash table, relocations | `put_elf_sym`, `find_elf_sym`, `add_elf_sym`, `sort_syms`, section growth | one definition per name, the right one; numbers in relocations stay right |
| linker (`tccelf.c`) | sections, `loaded_dlls`, GOT and PLT | objects, archives, libraries, scripts, layout, relocation, output | all references resolved as the order of the inputs says |
| assembler (`tccasm.c`, `i386/asm.c`) | labels, sections | directives, opcodes, inline-asm operands | operand constraints satisfied; the bytes are the instruction that was written |
| bounds checker (`bcheck.c`) | `__bound_t1`, the regions of each block | create, find, delete; checked pointers; malloc hooks; stack frames | pointer checks agree with the live regions |
| debug information, driver, `options.c`, PE, COFF, the CIL back end | output files | sequential output | - |

How they interact: `decl` calls the parser, which pushes declarations on the
symbol tables and operands on the value stack (an operand may point at a
`Sym`).  The parser pulls tokens through macro expansion from the preprocessor,
which pulls characters from files.  The code generator appends to sections and
leaves relocations against ELF symbols, which the linker resolves.  error() is
a `longjmp` out of all of them to `tcc_compile`, whose clean-up is all that a
caller of libtinycc that compiles again can rely on.  Code compiled with `-b`
calls the bounds checker at run time.

Every component, modelled or not, is listed in `PROJECT.json` with its reason,
and so is every hazard, at its line.

## 2. Modules

| Module | Models | Runs | Proofs |
|---|---|---|---|
| `SymScopes` | symbol tables, scopes, units | `sym_scopes` (with `MCSymScopes`) | `SymScopesProofs` |
| `LexicalScopes` | what scopes promise: an environment and those it will return to | refined by `SymScopes` | `SymScopesProofs` |
| `Preprocessor` | files, conditionals, include cache, units | `preprocessor`, `include_same_name` (with `MCPreprocessor`) | `PreprocessorProofs` |
| `MacroExpansion` | `next`, `macro_subst` and what they call | `tokens` (with `MCMacroExpansion`, `MCTokens`) | |
| `Literals` | numbers, characters, strings; tokens kept as ints; text of a token | `tokens` (with `MCTokens`) | |
| `Lexer` | buffer, splices, comments, tokens, skipped lines | `assembly` (with `MCLexer`) | |
| `Statements` | `block`, lists of jumps, labels | `parser` (with `MCStatements`, `MCParser`) | |
| `Declarations` | specifiers, declarators, structs, `decl` | `parser` (with `MCParser`) | |
| `Initializers` | the two passes over an initializer | `parser` (with `MCParser`) | |
| `Words` | words, pairs of words, arithmetic on them | used by | |
| `CodeGenerator` | `vstack`, register allocation, code emission and execution | used by | |
| `ValueStack` | the expression parser driving it, next to what C says | `machine_code` (with `MCMachineCode`) | |
| `LongLong` | the run-time library for long long | `machine_code` | `LongLongProofs` |
| `ArmCode` | constants, offsets, integer operations of the ARM generator | `machine_code` | |
| `ArmCalls` | its calls and prologues | `machine_code` | |
| `C67` | the C67 generator, and the processor that runs its code | `assembly` (with `MCC67`) | |
| `InlineAsm` | operands of `asm` statements | `assembly` (with `MCInlineAsm`) | |
| `Assembler` | labels, expressions, directives, jumps | `assembly` (with `MCAssembler`) | |
| `I386Asm` | operands, opcode table, the bytes of an instruction | `assembly` (with `MCI386Asm`) | |
| `ElfSymtab` | symbols from units, objects and the library's caller; their hash table; relocations' symbol numbers; the final sort | `elf_symtab`, `elf_tentative` (with `MCElfSymtab`) | `ElfSymtabProofs` |
| `LinkInputs` | requests, objects, archives, DLLs, linker scripts | `link` (with `MCLink`) | `LinkInputsProofs` |
| `LinkOutput` | commons, PLT, GOT, copies, layout, relocation | `link` (with `MCLink`) | `LinkOutputProofs` |
| `BoundCheck` | bounds checker runtime | `machine_code`, `bounds_access`, `bounds_delete` | `BoundCheckProofs` |
| `NaturalExtrema` | least and greatest elements | | used by the proofs |

`MCTokens`, `MCParser`, `MCMachineCode`, `MCAssembly` and `MCLink` put together the
parts that one run checks: macros and literals; declarations, initializers and
statements; the i386 generator, the run-time library, the ARM generator and the
bounds checker; the lexer, the three parts of the assembler and the C67
generator; the two halves of the linker.  A behaviour of such a run is one of the parts; the others are idle.

In the modules, an operator whose comment begins "Mutant" is a plausible slip
in the definition after it; no specification uses it.  `PROJECT.json` says which
property each of them breaks, and so why the property is worth its run.

### SymScopes

A `Sym` is a number; `cell` has its token and `prev_tok`; `free` is the free
list, `global_stack` and `local_stack` are sequences (the `prev` pointers), and
`sym_identifier` has the head of each name's chain.  The pushes and pops are
operators named as in C, and each action is what the parser does around them:
`EnterBlock`/`LeaveBlock` (and `EnterStatementExpr`) save and restore the top of
`local_stack` as `block()` does, `OpenFunction`/`EndFunction` push and pop the
dummy `Sym` that makes `sym_push` local, `DeclareUnlessBound` and
`CallUndeclared` push behind the locals at file scope.  `Fail` is error(): it
leaves `local_stack` as it is.  `decl` in a `Sym` is a ghost number, so that a
value can tell whether its `Sym` still holds the declaration it was made from.

* `SymsDisjoint`: the free list never hands out a `Sym` in use.
* `LookupIsInnermost`: every name leads to its innermost declaration and each
  `Sym` to the one it hides.
* `ImplementsLexicalScopes`: every step is a step of `LexicalScopes` or a
  stutter, under the mapping that reads the environments off the chains.
* `ValuesDenoteTheirSymbol`: the `Sym` of every operand still has the
  declaration it was made from.

Bounds: three declarations, two identifiers and a tag, three blocks deep, one
`Sym` per batch (so the free list is refilled at every point), five `Sym`s.  Two
names suffice for a chain and a bystander; three declarations for one that is
hidden, one that hides and one that reuses a freed `Sym`.  Units end normally
before another begins (`RestartFrom`); the proofs of `TypeOK` and `SymsDisjoint`
also cover units that follow a failed one.  The other theorems exclude them by
an assumption, because they are false there: the next unit's globals become
locals, and a name can lead to a `Sym` that was freed.  No property of the run
speaks of that case.

`SymbolResults = TRUE` lets the value of a statement expression name a symbol
declared in it; then `ValuesDenoteTheirSymbol` fails: `({ static int a; a; })`
leaves a value whose `Sym` is freed at the `}` (`tcc.c:7172`) and taken by the
next declaration.

### Preprocessor

One step reads one line.  `ifdef_stack` is shared by all open files; a file
remembers its height when it was opened.  `skip` is the nesting count of
`preprocess_skip`.  `next_tok_flags` has what the next token is told
(`TOK_FLAG_BOF`, `TOK_FLAG_ENDIF`), which is how the end of a file learns that
the file was a guarded header.  `ifndef_macro_saved` is not initialised by
`tcc_open`; reading it then is a choice among all macros.

* `ConditionalsNest`, `ReadOnlyWhereTaken`: conditionals of a file lie above
  its includer's; text comes only from branches that were chosen.
* `UnitIsTranslated`: every unit gives the text that `Translate`, the
  standard's definition written recursively, gives; no correct program is
  refused except for lack of room.
* `SkippedIncludesAreEmpty`: "no need to parse the include" is true whenever
  the code acts on it.  `include_same_name` shows where it is not: the cache is
  keyed by the name as written, and two directories may have that name.
* `UnitsStartAlike`: `free_defines` leaves each unit the `-D` macros only.
* `UnitEnds`: every unit ends, under `FairSpec`, weak fairness of `Next`: the
  preprocessor is a loop of one thread that nothing suspends, so it goes on
  while it can.

Bounds: `main.c` includes two headers, each of up to five lines out of the
directives that interact (`#ifndef`, `#define`, `#else`, `#endif`, `#include`)
or a chain of `#elif`; stacks of three conditionals and three files, so that
both limits are met; two units.  Of the headers on the search path one includes
itself for ever, one once, and one under conditionals that stay open, until one
of the two stacks is full.  The headers of the passing run
(`PlainSystems`) have no `#else` in a guard that starts the file, do not end in
`#include` and are not empty: the cache is known to be wrong there (hazard at
`tcc.c:2632`).  A file found beside its includer is pushed without a look at
`INCLUDE_STACK_SIZE` (`tcc.c:1987`); the model goes on as if there were room.

### MacroExpansion

A program is a set of macros and a text.  A step is one turn of a loop of
`macro_subst` or `macro_arg_subst`; their activations are frames, and `levels`
lists the strings that a function-like macro at the end of its own string may
read on in (`can_read_stream`).  `next`, `unget_tok` and the pasting of
`macro_twosharps` are as in the code.

* `ExpandsAsC`: the parser gets the tokens that Prosser's algorithm gives
  (`MCMacroExpansion`, written with hide sets, which the code does not have),
  and the strings that `levels` names belong to running calls.
* `ExpansionEnds`: every expansion ends, under `FairSpec`, weak fairness of
  `Next`: the expander is a loop of one thread and goes on while it can.

About two thousand programs: macros that use each other and themselves, in
bodies, arguments and at the ends of bodies, pasting, stringizing, variadic
arguments.  Programs in which TinyCC is known to differ are recognised by the
reference (`doubt`) and not compared; see section 5.

### Lexer

The text is not copied: `file.p` indexes it, `file.lim` is what has been read
into the buffer, and the byte behind it is `CH_EOB`, the backslash, so that a
backslash may be an end of the buffer, a splice or itself.  `NextToken` is
`next_nomacro1`, `SkipGroup` is `preprocess_skip`.

* `ReadAsC`: wherever the reads end, tokens, numbers of names and lines are
  those of the translation phases (`MCLexer`), and no text is read past its end.

14,023 texts of three pieces, each read at once, byte by byte, and with every
single end of a read.

### Literals

What a number or a text between quotes becomes, and what happens to it on the way
to the parser: the tokens of an initializer whose length is not known are kept as
ints in a `TokenString` (`SaveToken`), read for the length, then read again for
the values (`PlayToken`).  The array grows before a token is known to fit;
`kept.err` tells that something was written behind it.  A float is what `strtod`
or `ldexp` is given.

* `LiteralsAsC`: an integer has the type and the value of C99 6.4.4.1, a
  float is given the digits and the exponent that were written, characters and
  strings are those of 6.4.4.4 and 6.4.5 (`MCTokens`, which finds every way to read
  a text instead of scanning it); the array is never overrun, and its tokens come
  back with their flags, each with the line it was written on, both times; and
  the text `get_tok_str` gives for an integer, a character or a string, if it is no
  longer than the buffer, is read as the same value again.

An int of 12 bits and a long long of 24, values around each limit; numbers of 18
digit strings with five prefixes and 20 endings; strings of up to four pieces;
initializers of three tokens out of eight.  The reference does not compare what
section 5 lists.

### Statements

`code` is a sequence of instructions; a jump whose target is not known holds the
address of the next one of its list, as in the code.  Each call of `block` that
waits for a sub-statement is an activation; `break`, `continue` and `case` reach
their lists through those of the callers.  `tree` is a ghost: the tree of what
was read.

* `StatementsAsC`: from every point, control goes where C says for that tree
  (`MCStatements`), every jump is given one target, and exactly the functions
  that C refuses are refused.

Four families of functions: loops, conditions, switches with ranges, labels with
local scopes, of up to three to six statements.  `AfterError = TRUE` compiles
again after an error(), as a caller of libtinycc may (`libtinycc.h:50`): labels
of the failed function are still there (`tcc.c:8502`), and the property fails.

### Declarations, Initializers

`Declarations` reads specifiers one at a time and declarators as trees; types
are values.  `DeclarationsAsC` compares type, storage and linkage with what C99
6.7 says of the same tree, written from the outside in, while `type_decl` works
from the inside out; and it says of every struct that its members are
aligned, apart and inside, and that bit-fields that C lets share a unit do so.
Four specifiers in every order, 3,583 declarators under five base types, pairs
of declarations of one name, structs of three members under `#pragma pack`.
`Regular = FALSE` adds bit-fields of several types in one unit, and unnamed ones
that begin a unit: fields then overlap or leave the struct (`tcc.c:5757`).

`Initializers` has `decl_initializer_alloc`'s first pass over the saved tokens,
the allocation, and the second pass that fills.  `InitializersAsC` compares
what is in memory, and the length of an array of unknown size, with an
independent reading of C99 6.7.8; and the object and the literals and strings it
needs are allocated apart from each other (`ObjectsApart`, a part of it).  About 13,000
declarations, local and global, with and without bounds checking.

### BoundCheck

The table has the code's three levels with the bit widths as constants
(3, 1 and 2 bits instead of 13, 11 and 8).  A block's entry is the sequence of
its regions, the first of them in the table itself and the others allocated, and
`__bound_find_region` swaps the one it finds to the front.  `allocated` is a
ghost: the regions that the program under test believes it has.

* `TableIsExact`: each block lists just the regions that touch it, each once,
  whatever was created, looked for and deleted before.  It says nothing of which
  blocks are marked invalid: that mark is lost where a region is created in a page
  of the zone, for `get_page` gives that page an entry of its own.
* `CheckersAgree`: of the accesses that begin in or behind the region of their
  pointer, or end before it, pointer arithmetic and indirection pass just those
  that lie in the region, for several offsets and sizes and each place in and
  beside a region; free and realloc take just the starts of regions.  NULL, which
  the code lets pass first (`bcheck.c:733`), is no pointer in the model.
* `AccessesAreInside` (run `bounds_access`): the pointer that an indirection gives
  "must be strictly inside the region" (`bcheck.c:175`).  Only the end of the
  access is compared with the region (`bcheck.c:193`), so one that begins before
  the region and ends in it is passed, and the run shows it.
* `bounds_delete` checks `TableIsExact` with `DeleteAcrossPages = TRUE`, where
  regions that span two pages are deleted too: that empties the wrong page
  (`get_page(t2_end)` at `bcheck.c:612`, where creation has `t1_end`).

Bounds: ten places at and around block, page and zone borders, four sizes
(nothing, one byte, across blocks, across pages), three regions: two that share
a block and a third that does not.  The zone of `mark_invalid` holds at least
one whole page.  The contents of memory are not modelled, so neither is what
realloc copies.

### Words, CodeGenerator, ValueStack

The code generator's state is one record: `vs` the value stack, `loc` and `ind`
as in the code, and the processor (registers, flags, stack, memory).  An
instruction is executed when it is emitted; so that code which is jumped over
has no effect, `jump` names the forward jump that is being taken, until
`gen_resolve_sym` patches the chain it belongs to.  Every operator of
`CodeGenerator` is named for its C function and maps a state to a state; the
functions that call several others are sequences of such calls, which `Do`
performs.  `ValueStack` is the expression parser: each action is what it does
when an operand or an operator is complete, and `source` is what C says the
expression is worth, kept beside it.

* `StateIsRight`: each entry denotes the value C gives that operand, in
  whichever register, stack slot, flag or pending jump it lives; variables hold
  what C says after each step; flags and jumps are only ever the top entry.
* `ControlFollowsSource`: code runs exactly where the source is evaluated.

Bounds: words of 8 bits (addresses count words; a char has 4 bits), three
registers as on the i386.  Up to four operands (an int variable, a comparison, a
sum of long longs, an element of an array of long longs, a call, the literal 2)
and four counted operators (`+`, `*`, `/`, `<<`, `<`, `!`, unary `*` and `&`, `--`,
assignments, calls), with one `&&`, `||`, `?:` or compound assignment open at a
time: four operands of two
words need more registers than there are, so spilling, reloading of spilled
addresses and pairs split between registers and memory all happen.  The two
memories differ in signs and in whether high words agree.  Left out: operands of
type char, the operators `-`, `%`, `&`, `>>` and the like, floats,
structs, unsigned and short types, pointer comparison, loops (only forward
jumps), and functions other than ones that are known and return in eax.

### LongLong

A word has `W_TYPE_SIZE` bits, and the functions do with words what
`libtinycc1.c` does; the macros of inline assembly (`divl` with its trap, `mull`,
`bsrl`) are what the instructions do.  `RuntimeIsExact`: each call returns what
plain arithmetic gives, for all operands of two words of four bits and every
divisor, shift and exponent; only a division by zero traps.  Proved for words of
any size.

### ArmCode, ArmCalls

`ArmCode` has the operations that choose instructions by their constants, and
runs what they emit: `stuff_const`, `calcaddr`, load, store and `gen_opi`, on
words of 16 bits with immediates of four (32 and eight in the code).  `ArmCalls`
has `gfunc_call`, the registers it spills and shuffles, and `gfunc_prolog` on the
other side; a word is a value's name and its number in it.  The build is the one
without `TCC_ARM_EABI` and `TCC_ARM_VFP`.

* `ArmRunsAsC`: operations compute, load and store what they are to, without
  losing a value that waits (`OperationsAreExact`, `AddressesAreExact`); in a call
  every word of every argument is at the address that the prologue gives its
  parameter, and what waits below the call survives it (`ArmCallsAgree`).

About 31,000 operations, on constants whose bits are in one or two runs, and
37,000 calls of up to four arguments of every size, in every place, with
registers handed out in four orders.

### C67

`gen` is the compiler's state: the value stack, lists of jumps threaded through
the code, parameters, frame.  `dsp` is the processor: what an instruction makes
arrives `Delay` cycles later, a branch goes on for five, an instruction can reach
only some registers of the other side.  A program is a list of calls of the back
end, as the parser makes them, and has a meaning in C (`MCC67`).

* `C67RunsAsC`: when the program ends memory is what C says, the stack pointer
  and the caller's frame are as before, and nothing was refused.

About 3,000 programs: integer and floating point operations with up to two
values waiting, tests, `&&` and `||`, loops, loads and stores of every type,
conversions, and calls with up to four parameters.  Floating point results are
numbers that tell operations and operands apart.  `Suspect` names the kinds of
program that the code gets wrong; it is empty in the run, and each kind that is
put in makes `C67RunsAsC` fail (section 5).

### InlineAsm, Assembler

`InlineAsm` has the operands of an `asm` statement: constraints, registers,
clobbers.  The text of the statement may do what its constraints let it: write
the `&` outputs and the clobbered registers, read what it may read, write its
outputs.  `OperandsAreKept`: what the text reads is what the program passes,
what it writes arrives, registers that a caller keeps are as before, and a
statement is refused only when no assignment of registers would do
(`RefusedForWantOfRegisters`).  Two outputs and one input, or one and two, and two
clobbered registers.

`Assembler` assembles one statement at a time, `I386Asm` one instruction.  A
mnemonic is a family and its place in it, as `asm.h` and the tokens are laid out;
`asm_instrs` is the table in its order, with operand types as sets, and an
instruction is the first row that fits.  `imul $im, %reg` reads an operand type
that nobody has set (`asm.c:560`): any of `Leftovers`.

`AssembledAsWritten` has two parts.  `LabelsAsWritten`: each reference, after the
end, leads where the program says (`MCAssembler`), and names have the binding they
were given; and what statements of one section place follows in their order and
does not overlap (`SectionsAreFilledInOrder`).  Programs of four statements.
`InstructionsAsWritten`: the bytes, decoded after the processor's opcode map
(`MCI386Asm`, which knows nothing of `asm.h`), are the instruction that was
written, with its size, operands, relocations and the place it jumps to.  9,991
instructions: every row and every mnemonic without operands, every form of modrm
and sib byte, constants and jumps at the limits of a byte and a word; jumps also
behind instructions of one to seven bytes, at two origins.

### ElfSymtab

`tab` is `symtab_section` with its hash section: the entries, and `bucket` and
`chain` exactly as put_elf_sym and rebuild_hash link them (0 ends a chain).
Entries keep name, binding, visibility and place; `value` says which input the
definition came from, since sizes, types and offsets play no part.  Inputs come
in any order: units (`StartUnit`, then uses and definitions, `EndUnit` at any
point, for an error() may end a unit anywhere), objects, symbol by symbol, and
`tcc_add_symbol`.  `unit` holds the file-scope `Sym`s with their `c`, which is
how a unit comes back to an entry without looking it up.  Ghosts: `given`, the
inputs that define a name for all to see, `from` of an entry, and what each
relocation was made for.

* `LookupIsExact`: a name that others can see has one entry at most, and
  find_elf_sym finds it, through every growth of the hash table.
* `StrongDefinitionWins`: in whatever order inputs come, a name that is defined
  for all to see denotes that definition, and two definitions are reported.
* `DefinitionsOnlyStrengthen`: no input takes a definition away, and a
  visibility is never relaxed.
* `RelocationsReach`: relocations refer to what they were made for, statics of
  one unit and object included, before and after `sort_syms`.
* `elf_tentative`: `int x;` makes the entry of `x` common, whatever another
  input has put there (`tcc.c:8031`).

The passing run leaves that out (`Redefinitions = {}`), and so it does a
function or variable that a unit uses before it defines it while another input
defines it too: put_extern_sym2 then overwrites the entry through `Sym.c`
without "defined twice" (`tcc.c:394`); `"after use"` lets such units in, and
`StrongDefinitionWins` and `DefinitionsOnlyStrengthen` fail.  Units
are taken to agree on `static` in all declarations of a name.  What objects do
among themselves is not excluded: two common symbols of a name are reported as
defined twice, which `StrongDefinitionWins` allows.

Bounds: three inputs, six entries, two relocations, four names, all in one
bucket at first and three of them in the same bucket of two: the table grows
when the third name comes, with and without locals between.  Three
objects bring a weak hidden, a protected and an internal definition of the
function that units define, a common symbol, a weak undefined one and a local.

### LinkInputs, LinkOutput

In `LinkInputs` the calls that load files are frames of `stack`, for an archive,
a script or a DLL may load others in the middle of its own loading.  Contents
are cells that know the object, section and offset they came from, so that it
can be said where a relocation must end up.

* `RelocationsStayOnTheirSites`: unless an object was refused, every relocation
  is at the cell it was made for and names the symbol it was made for, and every
  defined symbol is at a cell of its own object.
* `MembersAsWanted`: an archive gives the members that are wanted, each once,
  whatever the order of its index.
* `NeededAsNamed`: each DLL is loaded once, and is to be named in the output just
  when the user or a script named it.
* `RequestsEnd`: every request ends, under weak fairness of `Step`, a call that
  is running: linking is sequential and goes on while it can.  The user's
  requests have no fairness.

Up to three requests among fifteen files and four libraries, static or not.

`LinkOutput` takes a symbol table with every kind of symbol and three relocated
words to an executable, a DLL, memory or an object.  The dynamic loader is
modelled from outside.  `WordsReach`: what each word holds in the end leads to
the symbol it was relocated with (`SitesReach`), and an exported name is one
address for the program and its DLLs (`NamesAgree`).  `RefusedJustUndefined`: only
missing symbols make a link fail.
`ImageLoads`: segments do not overlap, and offsets keep step with addresses.
`Doubtful` is the set of the kinds of link that the code gets wrong, empty in the
run: a variable that is copied and has a GOT entry (`tccelf.c:810`), a GOT
without a loader, a PLT entry for a function of the link's own or in a DLL; each
of them makes `WordsReach` fail.

## 3. What is proved

For every value of the constants, by TLAPS, under the modules' named assumptions
(such as `ScopesAssumption`) and the hypotheses in the last column:

| Theorem | Statement | If |
|---|---|---|
| `SymScopesProofs!TypeCorrect` | `Spec => []TypeOK` | |
| `SymScopesProofs!NoSymInTwoPlaces` | `Spec => []SymsDisjoint` | |
| `SymScopesProofs!LookupGivesInnermost` | `Spec => []LookupIsInnermost` | no unit follows a failed one |
| `SymScopesProofs!ValuesKeepTheirSymbol` | `Spec => []ValuesDenoteTheirSymbol` | no unit follows a failed one, `~SymbolResults` |
| `SymScopesProofs!ScopesAreLexical` | `Spec => ImplementsLexicalScopes` | no unit follows a failed one |
| `PreprocessorProofs!TypeCorrect` | `Spec => []TypeOK` | |
| `PreprocessorProofs!ConditionalsStayInTheirFile` | `Spec => []ConditionalsNest` | |
| `PreprocessorProofs!OnlyTakenBranchesRead` | `Spec => []ReadOnlyWhereTaken` | |
| `PreprocessorProofs!EveryUnitStartsAlike` | `Spec => []UnitsStartAlike` | the files leave the `-D` macros alone |
| `ElfSymtabProofs!TypeCorrect` | `Spec => []TypeOK` | |
| `ElfSymtabProofs!LookupFindsTheEntry` | `Spec => []LookupIsExact` | |
| `ElfSymtabProofs!RelocationsStayRight` | `Spec => []RelocationsReach` | |
| `ElfSymtabProofs!StrongDefinitionsWin` | `Spec => []StrongDefinitionWins` | `Redefinitions = {}`, `CommonsAreStrong` |
| `ElfSymtabProofs!OnlyStrongerTakesOver` | `Spec => DefinitionsOnlyStrengthen` | the same |
| `LinkInputsProofs!DllsAreAsNamed` | `Spec => []NeededAsNamed` | |
| `LinkInputsProofs!RelocationsStay` | `Spec => []RelocationsStayOnTheirSites` | `FilesWellFormed` |
| `LinkInputsProofs!MembersAreWanted` | `Spec => MembersAsWanted` | `FilesWellFormed`, `ArchivesTell` |
| `LinkOutputProofs!ImagesLoad` | `OutputSpec => []ImageLoads` | `WellFormed` |
| `LinkOutputProofs!LinkIsRefusedRightly` | `OutputSpec => []RefusedJustUndefined` | `WellFormed`, `LibsTell` |
| `LinkOutputProofs!WordsReachWithoutLoader` | `OutputSpec => [](~HasDynamic => WordsReach)` | the same, `SitesTell`, `"got without loader" \notin Doubtful` |
| `BoundCheckProofs!TablesAreTyped` | `Spec => []TableTypeOK` | `~DeleteAcrossPages` |
| `BoundCheckProofs!TableStaysExact` | `Spec => []TableIsExact` | `~DeleteAcrossPages` |
| `BoundCheckProofs!CheckersTakeTheHolder` | `Spec => []CheckersAgree` | `~DeleteAcrossPages` |
| `LongLongProofs!RuntimeExact` | `LongLongSpec => []RuntimeIsExact` | |

Each hypothesis leaves out something that the code gets wrong and a run or a
constant shows: without it the statement is false, not just unproved.
`FilesWellFormed` also says what the loader takes for granted of object files,
and `ArchivesTell` what it takes for granted of archives; TLC evaluates both for
the files of the run `link` (`MCLink`).

*Symbol tables.*  `SymsDisjoint` is not inductive alone.  It
needs that every `Sym` in use or free came from xmalloc (`PoolOK`), or a fresh
batch might repeat one; and that the tops that blocks saved lie on the stack in
order (`MarksOK`, `BasesOK`), or a pop might cut elsewhere.  Both stacks
together are one sequence, `Order`, and every operation either inserts one
fresh `Sym` into it or cuts it to a prefix; the lemmas `InsertionDisjoint`,
`PopDisjoint`, `ChainsInserted` and `ChainsCut` say what these two preserve, and
the theorems apply them action by action.  `LookupIsInnermost` adds `PhaseOK`:
outside a function `local_stack` is empty.  `ValuesDenoteTheirSymbol` adds that
the `Sym` of each operand is on one of the stacks (`AllDenote`) and that what was
pushed before a block began refers to nothing that the block declares
(`OuterValues`), so that the pop at its `}` takes no operand's `Sym`.

*Lexical scopes.*  The mapping reads an environment off the chains (`Binding`),
and for every scope that is open the one it will return to off the part of
`local_stack` below it (`Opened`, `Saved`).  `EnvironmentIs` says that an
environment is what the newest `Sym` of each name in that part declares; a push
changes the innermost environment only, and a pop restores the saved one because
`LookupIsInnermost` holds of what is left.  Every step is then an `Enter`, a
`Leave`, a `Declare`, a `DeclareAtFileScope`, an `EndOfUnit` or a stutter.

*Preprocessor.*  `IInv` strengthens `ConditionalsNest` to all
states (`BasesNest`: the heights at which open files began rise from the
outermost to the innermost and never exceed the stack) and adds that open files
exist and that every conditional under the top one chose its branch
(`BranchesTaken`).  `#endif` is the crucial step: it compares with the height of
its own file, so the heights below stay valid.

*ELF symbol table.*  `IInv` says that each bucket and each
link leads to the newest symbol that is left in its bucket (`LinksExact`), that
a name has one entry that is not local (`NamesOnce`), and that the entry numbers
a unit's `Sym`s and old_to_new_syms hold stand for the right names (`UnitOK`,
`LoadingOK`).  `LinksReachAll` is the heart: the symbols of a bucket are closed
under the links, and of those that a closed set misses the greatest would be
where the next greater one, or the bucket, leads.  So find_elf_sym misses none
(`FindFinds`), so add_elf_sym never makes a second entry (`AddGood`), which is
what keeps `NamesOnce`: lookup and insertion can only be proved together.  All
other steps extend the table (`Extends`): entries stay where they are and keep
name and locality, which is all that relocations rely on.  `sort_syms` is the
exception; there `OldToNewOnto` proves that the renumbering is a permutation, by
counting: an injection of `1 .. n` into itself.  These theorems hold with the
doubtful redefinitions too, for any value of `Redefinitions`.

*Definitions.*  `DefInv` says of each name that was given a definition for all to
see, and not reported as defined twice, that an entry holds just that one
(`GivenOK`); that while a unit is compiled weak entries come from earlier inputs
(`WeakOK`); and that the entries a unit's `Sym`s lead to, which it overwrites
without a look, are never weak and undefined (`FirmOK`).  The proof goes through
add_elf_sym's branches (patch, override, keep, "defined twice"), and the same
case analysis shows that no step takes a definition away.  `CommonsAreStrong`:
no object has a symbol that is common and weak, which compilers never make.

*Bounds checker.*  The invariant is `TableOK` (each block lists the regions that
touch it, once each, in any order, and a page that several blocks of `t1` share,
the empty or the invalid one, lists none, and only blocks of the zone are
marked), `RegionsOK` (regions lie between NULL and the top of the address space
and do not overlap) and that `error` is a known one.  The order in a block is
arbitrary because a find swaps entries; that is why each operation is proved to
change what a block *lists*.  `CheckersAgree` follows from the invariant: a find
returns the one region that holds the address (`FoundIs`), so an access that does
not begin before its region is let through exactly when it ends inside it
(`AllowedIs`, `ChecksFollow`), and free and realloc meet the region that starts at
their pointer (`FreesFollow`).
`PowersOfTwo` is an assumption of the module about its own constants: products
of powers of two, which the provers' arithmetic does not have; TLC evaluates it
for the widths of the run, and it holds for all.

*DLLs.*  `DllInv`: the names in `loaded_dlls` differ, those at level 0 are the ones
in `named`, everything named is loaded, and every search for a DLL that is
waiting on `stack` carries the level 0 or 1 its caller gave it.  No hypothesis:
files may contain anything.

*Relocations.*  `ImageInv` says what is in memory after any number of objects.
No two sections have one name (`SecsOK`).  A relocation section and the one it
relocates lead to each other, and their names are a pair such as `.rel.text` and
`.text` (`TiesOK`); this is what makes the offset that an entry is moved by, that
of the section its own object's relocation section names, the offset of the
section the merged relocation section leads to.  Every entry is at its cell and
names its symbol (`EntriesOK`), and every symbol is at a cell of its object
(`SymsOK`).  Whatever a link-once section in memory defines is in the symbol table
(`OnceOK`), so that the copies that are dropped find it.  The proof follows the
passes of `tcc_load_object_file`: what is appended to a section goes behind what
is there (`GoesBehind`), so a cell stays where it is; new sections are numbered
without gaps and without two of one name (`Places`, by counting with `Ranks`);
the third pass changes the entries of this object and no others
(`OthersEntries`); entering symbols takes no name away from an entry
(`StaysSeen`).  `UnitJoins` does the same for a compiled unit, which may create
the relocation section of `.text`.  The invariant holds only while no object was
refused, for what is kept of a refused one is unfit; the error is reported.
`FilesWellFormed`: entries and symbols are inside their sections, alignments are
positive, relocation sections and what they relocate name each other in the same
way in all objects, link-once sections of one name define the same names, and
no entry relocates a link-once section (`tccelf.c:1849`).

*Archives.*  `MembersAsWanted` speaks of the end of a loop that goes through the
index until a pass loads nothing (`tccelf.c:2034`), so the invariant is about the
running call (`Looking`).  Nothing but this call changes the symbol table while it
runs, so the table is what it was at the beginning, with the symbols of the
members loaded since.  That makes the two directions meet: what is loaded is
inside every set of members that is closed under what they leave undefined,
because a member is taken only for an undefined name, and that name was
undefined before or is used by a member taken earlier; and in a pass that has
loaded nothing, no name of the index up to here is undefined, so at the end of
such a pass what is loaded is itself closed, hence the least such set.  A member is
loaded once because whatever the index lists of it is defined from then on; this
needs that joining an object defines all its globals, also those of link-once
sections that are dropped, and `OnceOK` says that those were defined before.
`ArchivesTell`: the index lists just what the members define, each name for one
member (of two members with one name either would do, and there is no least set;
an index that promises more is the endless loop of `tccelf.c:2034`);
an object has one entry for a global name, uses no local symbol that is
undefined, and defines none in a section that is not merged; one with link-once
sections is not refused half-way, when those of its symbols that were dropped
are not in the table; and a unit does not use the name it defines.

*The image.*  `ImageInv` of `LinkOutputProofs` has two parts, for what the
property says of the file at the end is not even expressible while sections have
no addresses.  Until sizes are settled (`EarlyInv`), it is about `.bss`: the
variables in it, those made of common symbols and the copies of the DLLs' ones
are inside it and apart (`PlacesOK`), and copies have a relocation section that
will be loaded (`CopiesOK`); and about the sections the linker makes for itself,
each of which it makes once (`NotYet`), so that an address given to a name is given
to one section.  A common symbol's place is a sum over all common symbols before
it (`StorageEnd`); that the sums grow is shown by least counterexamples, with
`NaturalExtrema`.  From layout on (`LateInv`) it is about how far layout has come:
what is placed ends before `here` (`MemoryOK`, `FileOK`); the first segment ends
in a page before the one in which the second begins (`Boundary`); what is placed
was placed by rank (`RankOK`), therefore the sections without contents come last
in their segment, and offsets keep step with addresses as long as something with
contents is to come (`StepOK`), and the relocation sections, which have a rank of
their own and an alignment of 1, fill one interval (`PieceOK`).  The first attempt
had offsets keep step throughout; that is not so, for `.bss` takes addresses and no
room in the file, and only its rank makes it harmless.  Then symbols, and
after them the relocations of the copies, move by the address of `.bss`, one after
the other (`ImagePlaces`).  `WellFormed`: no two sections have one name (objects are
merged by name, `tccelf.c:1847`) and none has a name the linker gives to its own; what
has no contents and is loaded is writable; common symbols have an alignment;
variables are inside `.bss` and apart, relocations name symbols, and none is a
copy to begin with.  TLC finds `WellFormed` and `ImageInv` true of the links of the
run.

That a link is refused just when something is missing (`AnswerInv`, beside the
image's invariant) is about the four places that ask for an undefined symbol.
When the scan of an executable is over, each symbol that must be defined has a
PLT entry, a copy or a linker's definition, and all of these are names in
`.dynsym`, where `relocate_syms` looks; whatever is put into `.dynsym` later, for
the GOT or for the DLLs, does not take a name away (`Extends`), though it may
hide its entry.  In the other direction, a name that `relocate_syms` does not find
there was not in a DLL either, for the scan passes over nothing that a DLL
defines.  For a program in memory, the host is asked instead (`EndOK`).  `LibsTell` is
what the linker takes for granted of DLLs: what they define is a function or a
variable, and no DLL uses a name that the program leaves undefined too and nobody
defines.  Without it the statement is false (section 5); TLC evaluates
`LibsTell` for the DLLs of the run (`LibsAreAsTold` in `MCLink`).

*Words.*  What is run from memory or linked statically nobody finishes: there is
no loader, so the words must be right when they are written.  `DirectOK` follows
them to that point.  A word is 0 until `relocate_section` changes it, once, by
what its relocation says (`WordsOK`); by then its symbol is an address
(`ValuesOK`), which needs that the symbol was, phase by phase, undefined,
absolute, common, or in a section that will be loaded (`SymsLoaded`), also when
the linker defines it or gives it storage, and that such sections have an address when
`relocate_syms` adds it (`AddressesOK`, from `AllPlaced` of the image's invariant
for a file); the GOT is made before the first word that is relative to it is
reached (`GotLoaded`); and no relocation section is loaded, so nothing is
left for a loader to add a second time (`SecsLoaded`).  `SitesTell` is what is taken for
granted of relocations: a word is relocated once, what is relocated is loaded,
and a name in DLLs is one symbol; TLC evaluates it too.  A word that needs a GOT
entry is the exception, because TinyCC fills entries by a loader's relocation
only (`"got without loader"`, section 5).

*Run-time library.*  Each call is judged by itself, so there is no invariant to
strengthen: the theorem is arithmetic, for every size of a word and every
argument.  Numbers are split at the words' boundaries and put together again.
Division by a long long is the hard case (`NormalizedDivides`).  Both numbers are
shifted until the divisor's high bit is set (`ShiftedLeft`); then the high word of
the dividend is less than that of the divisor, so that `divl` does not trap; the
estimate takes at most one divisor too much (`OneTooLarge`: what it
takes too much is at most its product with the divisor's low word, and that is at
most the high word's part, for either the divisor was shifted by a word but one
bit, and its low word is at most half of what a word holds, or by less, and then
the estimate is); the comparison word by
word finds out whether it does (`WordByWord`, `Corrected`); and the remainder,
shifted back, is that of the numbers as they were (`ShiftedRemainder`,
`ShiftedBack`).  A division that is signed is that of the magnitudes, with the
sign modulo what a long long holds, -2^63 / -1 included (`SignedQuotient`,
`Signs`).  A long long passes through long double on its way to a float, but is
rounded once (`RoundedOnce`), because what fits the mantissa is not rounded.
`PowersMultiply` is an assumption of the module about powers of two, as in the
bounds checker.

Only model-checked, and why:

* `UnitEnds`, `ExpansionEnds`, `RequestsEnd`: liveness under fairness.
* `UnitIsTranslated`, `ExpandsAsC`, `LiteralsAsC`, `StatementsAsC`,
  `DeclarationsAsC`, `InitializersAsC`, `ReadAsC`, `OperandsAreKept`,
  `AssembledAsWritten`, `StateIsRight`, `ControlFollowsSource`, `ArmRunsAsC`,
  `C67RunsAsC`: they compare the code with a reference,
  or the code is, written recursively over trees, tokens or calls; the provers
  neither take recursive operators nor induction over data.
* `SkippedIncludesAreEmpty` and `AccessesAreInside`, which are false.
* `WordsReach` of `LinkOutput` where there is a loader: for executables and DLLs
  that it completes, not proved yet.

## 4. Not modelled

Floats and the x87 stack (no rounding arithmetic in TLC's reach); debug
information and the driver (sequential output); PE and COFF output; the CIL
generator; the ARM's floating point (FPA, VFP) and its EABI calls; vendored headers and start-up code.  The reasons
are in `PROJECT.json` component by component.

Hazards that the models go round, besides those in `PROJECT.json`: the state of
a header's guard is kept across an `#else`, an `#include` at its end, and an
empty file (`tcc.c:2632`); a file found beside its includer is pushed without a
look at `INCLUDE_STACK_SIZE` (`tcc.c:1987`); `put_extern_sym2` overwrites an
entry of the ELF table (`tcc.c:394`); inline functions are generated even after
an error (`tcc.c:8504`); a cast is delayed past a store (`tcc.c:4900`) and a long
long is made a char by its low word's register (`tcc.c:5043`).

## 5. Where TinyCC is known to differ

The models were written from the code, and in these places the code does
something else than C, its own documents, or the assembler it imitates.  The
runs leave them out, by a constant (named above), by the inputs, or by a `doubt`
of the reference, and what they show is silent there; four are runs of their own,
`include_same_name`, `elf_tentative`, `bounds_access` and `bounds_delete`.

* Macros: `#define f(x) x`, `#define b f`, `#define a b(1) b(2)` expand too little
  (`tcc.c:3435`); a macro that must not be expanded again is, when it comes to
  stand in an argument; an empty argument beside `##`; arguments that begin in a
  macro's body and end outside it.
* Lexer: an escape sequence that a splice cuts; a `\` in front of blanks and the
  end of a line; a comment in front of `#` hides a directive in lines left out
  (`tcc.c:1305`); a stray backslash there; `..`; a comment that ends in `*` at the
  end of the file is never left (`tcc.c:1137`); `isidnum_table` is read at
  `CH_EOF` (`tcc.c:2728`); strings over several lines; no digraphs or trigraphs.
* Literals: binary floats are shifted by two bits for each digit (`tcc.c:2344`); an
  `LL` constant from 2^31 on is unsigned (`tcc.c:2504`); the test for overflow misses
  some (`tcc.c:2499`); what is behind a suffix is ignored; `\u` is like `\x`
  (`tcc.c:2186`); `get_tok_str` forgets an `L`, and the beginning of a text longer
  than its buffer (`tcc.c:617`).
* Declarations: illegal lists of specifiers are accepted; arrays of different
  sizes, and functions with and without prototype, are compatible; `f(int (int))`
  is misread (`tcc.c:6157`); `static` is lost by functions in parentheses
  (`tcc.c:6194`); members of incomplete type (`tcc.c:5776`); bit-fields
  (`tcc.c:5757`), also packed or aligned ones; attributes behind `}`; the width of
  `_Bool`.
* Initializers: repeated elements of globals are ored; an initializer that
  designates deeper than it begins (`tcc.c:7754`; the document's example,
  `tinycc-doc.html:497`, fails); unions without braces; local bit-fields that are
  named in part; compound literals and `?:` in arrays of unknown size; ranges
  for locals; a typedef of an array of unknown size shares its length.
* Expressions: `if (c = 256)` with a char `c` takes the branch (`tcc.c:3994`).
* Statements: labels of a failed function stay (`tcc.c:8502`).
* `asm`: an address may be loaded into a register that is not saved
  (`asm.c:987`); `"=A"` with less or more than eight bytes; `"A"` with a constant;
  `"g"` with the address of a local; an input that shares a memory output is not
  loaded; byte outputs in esi and edi; `%n` (`asm.c:1039`); `%` is refused.
* Assembler: labels used before they are defined become global; `.globl` behind
  definition and use; labels are not seen from another `asm`; `.previous`;
  `.align 0`; `loop` forwards; differences of labels that are not defined yet;
  what is written in `.bss` is lost.
* Instructions (`KnownWrong`): `addb` and the like with a constant of -128 to 127
  operate on 32 bits (`asm.h:157`); `imul` with a constant loses an operand
  (`asm.c:560`, which compares with 0x69 twice); `lcall` and `ljmp` through memory
  have no modrm byte (`asm.h:207`); `xchg` and `movzb` with no suffix, to %al or a
  register of 16 bits; `pushw` with a constant that needs two bytes has four;
  `fcom` without operands (`asm.h:234`).
* ELF: `int x;` takes another input's definition away (`tcc.c:8031`); a link-once
  section's relocation section stays when it is dropped (`tccelf.c:1849`).
* Output: the kinds of link in `Doubtful`; a name that both the program and a DLL
  define is not exported; `_end` is set before variables are copied; an undefined
  symbol that a DLL only uses is taken for one it defines (`tccelf.c:1188`), and one
  that a DLL defines without a type is not resolved (`tccelf.c:1190`).
* ARM: `stuff_const_harder` never gets past its first pair of loops, because the
  inner one increments `i` (`arm/gen.c:238`): constants that need two instructions
  are wrong or undefined, and with them offsets from 4096 up; the caller and
  `gfunc_prolog` disagree on the address of a returned struct of at most four bytes
  (`tcc.c:6637`, `arm/gen.c:903`).
* C67 (the kinds of `Suspect`): unsigned comparisons assemble the signed ones, whose
  name they begin with (`c67-gen.c:731`, 767); a comparison that is stored forgets
  whether it is inverted (1683); a spilled pointer is loaded but not followed
  (1550); a constant address is read from the frame (1641); a comparison of floats
  leaves both operands (2373); a double takes a second register that may be in use
  (2513); values below a call of the library are lost (1862); arguments after the
  first come in reverse; nine arguments are an internal error; a jump is appended to
  an empty list (2095).
* Bounds checker: regions across pages (`bcheck.c:612`), where an access begins
  (`bcheck.c:193`), the invalid zone around a region that is created in it
  (`bcheck.c:301`).

## 6. Plan

Done: the modules of section 2, and the theorems of section 3.

To come:

1. A proof of `WordsReach` of `LinkOutput` for what a loader completes.
2. PE and COFF output, the ARM's floating point.
