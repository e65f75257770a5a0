# Engel in TLA+

TLA+ models of the interpreter for the scripting language Engel (`src/src`, C++), TLC
configurations that check them and TLAPS proofs about them. The current implementation is
`src/src`; `src/backup` is an earlier snapshot that the makefile does not build.

The repository has no tests and one sample program, `vector.eng`. Its README calls the
implementation scrapped because of the bugs that had crept in. As it stands it does not
compile: `memory.hpp:6` defines `STRESS_GC`, and under it `memory.cpp:10` calls `collect()`
without its argument. The models follow the source with that one call left out, as in the
binary `engel.out`.

## The system

    file -> Lexer -> Parser -> tree -> Compiler -> Function objects -> VM::run
                                          |                             |
                                     string table (Map) ---------- globals (Map)

`main` reads the file, hands lexer to parser to compiler, and the compiler pulls statements
out of the parser one at a time. The compiler's result is the script's Function; main wraps it
in a closure, calls it and enters `run()`. Nothing is concurrent: everything below is about
long sequences of legal steps, orders of evaluation, limits and state that is out of date.

| component | state | operations | what makes it correct | here |
|---|---|---|---|---|
| Lexer (`lexer.cpp`) | position, line, stack of open interpolations | `scan` | braces and interpolations nest; every token is reached | `Scanner`, `Lexer` |
| Parser (`parser.cpp`) | current and previous token | one function a rule | ends on every input; the tree has the operators of the text | `Parser`, `FrontEnd` |
| Syntax tree (`node.cpp`) | owned children | constructors, `destroy` | each node is destroyed once, with its own class | `Trees`, `Nodes` |
| Compiler (`compiler.cpp`) | chain of scopes (locals, upvalues, depth), code and constants of each function | `visit`, a case a node; scopes; jumps | the stack holds the counted locals between statements; jumps land on instructions; a name reaches its variable | `CodeGen` |
| Encodings (`opcode.txt`, `emit_*`, `ULEB`, `UINT`) | none | write and read an operand | what is read is what was written | `Bytecode` |
| Virtual machine (`vm.cpp`) | stack, frames, closures, upvalues, list of open upvalues, globals | an instruction each; `call`, `capture_upvalue`, `close_upvalues` | a captured variable is one variable, on the stack and after; a call keeps the caller's stack; it prints what the program means | `VM`, `Engel` |
| Native functions (`native.cpp`) | none | `print` | prints each argument as text | `VM` |
| Hash map (`value.cpp`) | `len`, `cap`, `entries` | `put_map`, `get_map`, `rm_map`, growth | a partial function; every search ends | `HashMap` |
| String table (`value.cpp`) | a Map with strings as keys | `copy_string`, `take_string`, `map_find_str` | equal strings are one object | `StringTable`, `Interner` |
| Objects, GC (`memory.cpp`) | list of all objects, marks | `allocate_object`, `collect`, `free_objects` | everything freed once, nothing that is used | `Memory`; `collect` left out |
| Dynamic arrays (`chunk.cpp`, `value.cpp`) | `len`, `cap`, memory | append, free | what was appended is there, nothing is written past the end | `Memory` |
| Driver, disassembler (`main.cpp`) | none | `main`, `dis` | the composition above; `dis` stays in step with the code | `FrontEnd`, `Engel`, `Disassembler` |
| `asprintf.cpp`, `langs.hpp` | none | | | left out: formatting and wording |

The hazards in `PROJECT.json` list the places where this can go wrong, at their lines.

## Modules

| module | what it is |
|---|---|
| `AbstractMap` | what the hash table promises: a partial function and the answers of its calls |
| `HashMap` | the table of `value.cpp`: probing, tombstones, growth one entry at a time |
| `NaturalMinimum` | a lemma: a non-empty set of naturals has a least element |
| `HashMapProofs` | the table's inductive invariant and theorems, and the proof that it implements `AbstractMap` |
| `Bytecode` | instruction set, operand encodings, values |
| `VM` | the machine, one action an instruction |
| `VMProofs` | the machine's inductive invariant and theorems |
| `FrameProofs` | what the machine guarantees to code that keeps to its frame |
| `Layout` | what the compiler counts on, said of the code alone: well-laid code, and what follows for its runs |
| `LayoutProofs` | well-laid code runs as it is laid out, and keeps to its frame |
| `Scanner` | `Lexer::scan` as a function from a lexer's state to the state behind a token |
| `Lexer` | a lexer asked for one token after the other, and its properties |
| `LexerProofs` | proofs about line numbers and progress of the lexer |
| `Trees` | the syntax trees, the form in which parser, compiler and printing share them |
| `Parser` | the recursive descent parser, over any source of tokens, and its properties |
| `FrontEnd` | the parser on the scanner |
| `Nodes` | `destroy` and the destructors |
| `Printing` | how a tree is written: tokens and the parentheses it needs; a reference for the parser |
| `Programs`, `Families` | the programs of the checks, and how families of inputs are formed |
| `Interner` | what the string table promises: one object for a text, for ever |
| `StringTable` | the string table, on an instance of `HashMap` |
| `Memory` | objects, blocks, growing arrays and `~VM`, on `StringTable` |
| `MemoryProofs` | theorems about the string table and about who owns and frees a block |
| `Disassembler` | `dis`, with readers of its own for the compiler's code |
| `DisassemblerProofs` | `dis` stays in step with code that is a chain of instructions |
| `CodeGen` | `Compiler::visit` as a function from a state and a tree to a state |
| `Semantics` | what a program means, with a store and environments, without stack or code |
| `Engel` | programs compiled by `CodeGen`, run by `VM`, compared with `Semantics` |
| `MCHashMap`, `MCEngel`, `MCBytecode`, `MCLexer`, `MCParser`, `MCDisassembler`, `MCMemory`, `MCFindings` | constants and inputs for TLC, and the properties that need a reference |

Next to an operation there may be a variant of it, introduced as "a slip in" the operation. No
specification uses it: it says what a plausible mistake in that code would look like, and
replaced by it, the operation makes some property fail. `PROJECT.json` pairs each property with
such a variant, so a property that holds says something about the code.

### HashMap

`len`, `cap` and `entries` are the fields of `Map`; a key that is `NoKey` is the NULL pointer,
`Empty` is an entry never used and `Tombstone` one that `rm_map` left. `Put`, `Get` and `Rm` are
whole calls. A `put_map` that grows is `PutGrow`, one `Rehash` for each old slot, and `PutEnd`,
so that the half-filled array is a state: `fresh`, `pos` and `pending` are `adjust_cap`'s
locals. Keys are compared by address, so a key is a model value with a hash. `Null` and
`TrueVal`, the values that mark entries as never used and removed, are values a caller can store.

### Bytecode, VM

A state of `VM` is a state of `run()` between two instructions. `stack` has all its cells,
also those above `top`, because the code reads and writes popped cells. `open` is the linked
list of open upvalues as a sequence. An upvalue's `loc` is an offset into the stack, or
`Closed` when it points at its own `closed`. CLOSURE is `NewClosure` and one `ShareUpvalue`,
`NewUpvalue` or `InheritUpvalue` for each capture; `pend` counts those to come. `At(ops)` is the
current instruction if it is one of `ops` and means something in this state (`Meaningful`).

The program ends as `done`, `exited` (a name that is not defined), `crashed` (division by zero),
`stopped` (a byte the switch has no case for) or `undefined` (C++ gives the step no
meaning: the stack, the frames or the code overrun, an operand of the wrong type). After
`undefined` nothing more is said.

`PUT(0, BOOL_VAL(this->equiv(POP(), PEEK(0))))` leaves to the compiler when POP moves the top that
`PEEK(0)` and PUT's slot are counted from. `build` is that choice, and `Equiv` has its three
outcomes. `leftFirst`: POP, PEEK, slot, as clang does (`engel.out` was built by clang). `rightFirst`:
PEEK and the slot before POP, so the top is compared with itself, the answer goes to the cell that is
popped, and the other operand stays on top; that is what g++ 12 makes of the expression, with every
`-std` from gnu++11 to gnu++20 and from `-O0` to `-O3` (measured on `vm.cpp` itself). `slotLast`: PEEK, POP, slot, so the answer, always true, takes the place of the
other operand; that is the order C++17 asks for, which a later g++ may follow. `UINT` is modelled as it is written: a shift to
the left and then a mask with 0xFF leaves the lowest of the four bytes.

A string is a sequence of pieces of text; equality of strings is equality of the sequences,
which is what interning is for. `globals` is a function: `HashMap` shows that this is what the
table is. A function carries the number of its parameters (`arity`), which `call` does not
look at; the property `CallsMatch` does. Cells of the stack nobody has written hold `Junk`, which
no constant is.

### Layout

`run()` has no verifier: it takes operands from the stack and slots of the frame as the code
says. Why this goes well is the compiler's counting, and `Layout` says what that comes to of
the code alone, without running it. A layout gives, for each offset of a function at which control
can be, the height of the stack above the frame's slot 0, the locals that closures may have
captured by then, and how many captures of a CLOSURE are still to come. `Fits` asks of each
place that the instruction finds its operands there (`Finds`) and that the places it leads to
(`Following`) are in the layout and agree; `Counted`, that control is only where the compiler
starts instructions and that the height at a statement is `num_locals`. `WellLaid` is that all
functions of the program fit their layouts. The layouts are a constant. `MCEngel` infers them from
the code by following every way from a function's entry (`Spread`); whether the code fits what was
inferred is what TLC checks.

### CodeGen, Semantics, Engel

`CodeGen` has one definition for each case of `visit`, in the order the code emits. Where the
C++ changes `curr_scope`, the definition returns a new state. It adds three things the code does
not keep: `starts` (offsets where instructions start), `stmts` (offsets where statements start,
with `num_locals` there) and `puts` (diagnostics). `Semantics` is a reference written over the
same trees: a variable is a location, a function keeps its environment, an expression has a
value and a state after it. It was not read off the machine, so that a mistake in
how the compiler and the machine fit together shows.

`Engel` is deterministic once a program is chosen. Its behaviours are the runs of all the
programs of `MCEngel`: families that vary the order in which closures are made and used, the
depth of captures, loops with and without else, branches with locals, every operator over
operands with side effects, recursion, programs that stop in the middle, and `vector.eng`.

The families keep to the part of the language that means what it says:

- every `if` has an else. Without one the true path pops the condition twice
  (`compiler.cpp:615`): such a program is not `WellLaid`, and its stack is not balanced;
- no block declares a local after an inner block that had locals has ended (finding
  `declares_behind_block`), and no name is declared twice in a block;
- functions are called with as many arguments as parameters and never printed; only functions
  and `print` are called;
- no instruction that `run()` has no case for (`<<`, `>>`, `!=`, `?!`), no `^` (it
  subtracts), no assignment with an operator (the operator is ignored), no REAL;
- the code of a function is shorter than 256 bytes (`UINT`).

### Scanner, Lexer

A text is a sequence of characters with its terminator behind the last. `Scan` skips blanks and
comments (`Useful`) and takes one token (`TokenAt`, the switch of `scan`). `Operators` has the
longest match that the nested `match` calls make; `StringFrom` is the loop of `double_str` and
`single_str`; `OpenBrace` and `CloseBrace` keep the counts of `interps`. Where the code reads
past the text or past the 16 cells of `interps`, the lexer is no longer `sound` and says
nothing more. `interp_count` is never initialised (`lexer.cpp:29`): `FirstInterps` is what it and
`interps` may hold. The run takes the count to be zero, or one with a two left in `interps`, which
texts that close what they open never bring to zero. With other leftovers the claims about braces do
not hold and are not made: a one left there makes a closing brace of the text a string, a negative
count writes in front of `interps`.

### Parser, FrontEnd, Nodes

Each method is an operator from the parser's state to the state and the tree it returns. `eat`
consumes what is there instead of what it expects, and `said` keeps the complaints. `factor`
returns NULL and consumes nothing for a token no expression starts with; a loop that then
repeats itself without end is the state `ENDLESS`, a NULL that is followed is `CRASH`. The nine
methods of binary operators, which differ in their operators only, are `Chained` over `Levels`.
`OperatorFirst` is whether a build reads `this->prev.type` before it parses the operand. The
methods are called through `Rule`, by name, because they call each other in circles.

`FrontEnd` gives the parser the scanner as its source of tokens, as `main` does. `made`, which
the code does not keep, counts the constructors called; `Nodes` counts what `destroy` deletes.

### StringTable, Memory

A key of the string table is an object: its text and a number in place of its address. `FindStr`
is the loop of `map_find_str`, which compares texts where `find_map_entry` compares addresses.
`NewString` is `new_string` up to the put; a put that grows goes on with `GrowOn` and returns
with `GrownString`, so the object that is made and not yet stored is a state. `StringTable`
implements `Interner`, to which a growth is invisible.

`Memory` adds the list `vm->objects` (`head`, `next`), and `live`, the blocks `reallocate` has
given and not taken back. A block is its owner, its part and, for an array, its capacity, so an
array that moves is another block. `Push` is `write_Chunk` and `push_ValueArray`, `TakeString`
keeps or loses its buffer, and `TextOfObject`, which is `to_string` of a closure or a native and the
`take_string` behind it, loses one before that: the missing `break` makes a second buffer over the
first (`vm.cpp:151`). `Destroy`, `ReadNext`, `FreeObject` and `FreedAll` are `~VM`. `free_objects`
reads `next` from an object (`ReadNext`, into `after`) and then frees it (`FreeObject`), each a step.
`fault` is a block freed or read that is not live, or a cell written past the end.

### Disassembler

One action for each kind of case in `dis`, with a stack of its recursive calls. An instruction
that has an operand and no case (`GOTO`, `SET_VAR`) leaves `dis` at the operand
(`Unrecognized`). `FlagFirsts` is the order in which `printf`'s arguments are evaluated for a
capture. `readUint32` leaves the order of its four reads open as well; both compilers go from left
to right there.

`Listable` says what `dis` relies on, of the code alone: where the compiler starts an
instruction that `dis` has a case for, another starts behind it or the code ends; its constant is
there, and is a function where it must be; its jump ends at an instruction; and the flag and the
index of a capture have a byte each. With a longer index (a function with more than 127 locals or
upvalues) the two orders of evaluation read different captures.

## Runs

| run | what it asks | bounds |
|---|---|---|
| `hash_map` | every sequence of calls, two growths, collisions, wrap-around, tombstones | 5 keys, 2 values, first capacity 4 instead of 8 |
| `programs` | 882 programs: output equals meaning, code well laid, stack balanced, upvalues and frames sound, nothing undefined, they end | stack 24, 6 frames, build `leftFirst` |
| `bytecode` | 8000 scripts of 3 out of 20 pieces of code, sensible or not, behind a capture | stack 6, 3 frames, all three builds |
| `lexer` | texts give the tokens they were written with; the scan ends, inside the text | 2892 texts: pairs of signs, words and strings, every keyword whole and without its last letter, escapes, strings not closed, interpolations and braces nested three deep, and fifteen; nothing, or a two, left in `interps` |
| `parser` | the text of programs gives the trees it was written from; errors are reported; the parser hangs at stray tokens only; nodes are freed | 2214 programs as text, 69699 sequences of tokens |
| `disassembler` | listings stay in step with the code | 882 programs, both orders of a capture's bytes |
| `memory` | one object a text; nothing freed twice, lost or written past its end | 3 texts, 2 other objects, 3 cells, 2 lost buffers, first capacity 2 |
| `prints_function`, `declares_twice`, `declares_behind_block`, `vectors_gcc`, `far_jump` | a claim of the source that does not hold | one to three programs |

Properties of `hash_map`: `TypeOK`; `ProbeTerminates`, since `find_map_entry` has no other way
out of its loop; `KeysReachable`; `LenCountsUsed`; `TombstonesBounded`, that removing and
putting for ever does not grow the table; `ImplementsMap`, that `HashMap` implements
`AbstractMap` under `map <- Contents`. The state space is complete: the table never uses more
slots than there are keys, so five keys never need a third growth. The capacity is scaled so
that two growths happen; three keys share a home slot at the end of the first array.

Properties of `programs`: `Agrees` (printed so far is a beginning of what the program means, and
when it has ended all of it, with the right end); `WellLaid` and `CallsMatch` (what is called is
`print` or a closure, with as many arguments as parameters), the two hypotheses of
`LayoutProofs`; `FollowsLayout` (every frame, waiting ones included, is where the layout of
its function has it); `StatementsBalance` (a statement starts with as many values in its frame as
the compiler has counted locals); `NoDanglingUpvalue`; `FramesNest`; `DefinedWithin` (a step has no
meaning in C++ only because the stack or the frames are too small or an operand has a type the
instruction is not for); `CapturedKept` (the value of an upvalue changes by an assignment and
at no other time); `CallerKept`; `Ends`. The stack and the frames are as large as
the deepest program needs and small against 256 and 64: no program reaches the limits, which
`Agrees` shows, because the status `undefined` is never a meaning.

Properties of `bytecode`, which speak of the machine alone: `TypeOK`, `UpvaluesOK` (the list of
open upvalues is strictly sorted and holds all that are open) and `ClosedForGood`. Three pieces
are enough for a second closure over one variable, a call of either, and a close or return after
it. The stack of 6 and the 3 frames make overruns happen.

`lexer` checks `ScansAsWritten` against texts put together from written tokens, so what a token
means does not come from the scanner; `InterpsCount`; `LineCounted`; `MovesOn`; `Finishes`: the
scan reaches FIN, unless a string is not closed, and from nothing else does it leave the text. An
interpolation that holds braces, strings and interpolations is what a count of braces
could get wrong; fifteen levels behind a count that was left fill `interps`, and no text goes beyond.
Names that begin like a keyword are in no text: the scanner takes them for it (see Findings).

`parser` checks `ParsesAsWritten`: a tree is printed with the parentheses it needs (`Printing`),
spelled as text, scanned and parsed, and comes back. The trees combine every binary operator
with every other on either side, every two forms of expression, and are all the programs of
`Programs`. The other properties also speak of texts that are wrong: every sequence of one to
four of sixteen kinds of tokens, and two programs from which a token is missing or in which
one is twice or in another place. `TreesCostTokens`: the compiler, which asks until FIN, is not
served for ever. `EndlessAtStrays`: the parser hangs at a token from a list, and never elsewhere.
`KeepsTokens`: what was not complained of is in the trees. `NodesFreed`: the objects made are
those `destroy` deletes, the node FIN apart, which nobody frees.

`disassembler` checks `Listable`; `InStep`, that lines and ends of jumps are instructions; and
`ListsAll`, that every function is listed to its end; the last two up to the first operand `dis`
does not know of.

`memory` checks `OneObject`, `FindsAll` and `ImplementsInterner` of the string table,
`CallsReturn`, and of the memory `NoFault`, `EachOwned` (each live block has one owner that
`~VM` will meet, but for what `take_string` and `to_string` have lost) and `FreesAll`. Two texts
share a hash and the three need two growths; the numbers of other objects and cells are those at
which an array grows twice and a function, a closure and a string stand in any order on the list; two
lost buffers are what one `to_string` of a function can lose.

No action is left to chance: the passing runs fire all of them. Deadlock is not checked where a
program ends; the hash table has no end and is checked for it.

Fairness. `VM!Spec` has `WF_vars(Next)`: `run()` is a loop with no wait in it, so it does not
rest at an instruction it can execute. It is used for `Ends`. `LexerSpec` and the
disassembler's `Spec` have it for the same reason, for `Finishes` and `ListsAll`. `MemorySpec` has
it for the steps inside a call (`GrowTable`) and inside `~VM` (`ReadNext`, `FreeObject`, `FreedAll`), not for
the calls, which nothing forces a program to make. `HashMap` and `ParserSpec` have none: `Parse` is
one step, and that it ends is an invariant.

## Findings

- `prints_function`: a missing `break` in `VM::to_string`; printing a function, one of the program or
  the native `print`, says it is of an unknown type.
- `declares_twice`: "Already declared in scope." is never printed for a block, because the scan
  stops at the function's own slot.
- `declares_behind_block`: `end_block` lowers `num_locals` and keeps the vector, so the next
  local of the enclosing block cannot be resolved and is taken for an undefined global.
- `vectors_gcc`: compiled as the makefile says, `EQUIV` compares a value with itself: the sample
  program prints `pos = {24, 24}`. The run has both of g++'s orders, `rightFirst` and `slotLast`; it
  fails with either alone, since what differs, the operand left below, is not false there.
- `far_jump`: `UINT` loses the upper bytes of a distance; an `if` around more than 255 bytes of
  code jumps into the middle of it, while the listing prints the right end.

Met while modelling and stated here without a run of their own:

- a name that begins like a keyword is that keyword: `letter` scans as `let` (`lexer.cpp:210`
  compares the keyword's length and never the word's). `WordType` does as the code does;
- `[` scans as `{` (`lexer.cpp:526`, against `lexer.hpp:13`), and `!=` is an ERROR and an `=`
  (`scan` has no case for `!`, against `lexer.hpp:57`, and `Parser::comp` asks for it);
- built as the makefile says, a binary node takes the last token of its right operand for its
  operator (`parser.cpp:327` and the like): with `OperatorFirst = FALSE` no sum is parsed as one;
- `return`, `null`, a REAL and the other tokens of `Strays` make the parser hang where a
  declaration may stand;
- an `else` that nothing follows, and a line break behind a group's `)`, are taken silently;
- `1 = 2` is complained of and compiled; an operand that is missing becomes a NULL child, which
  `ass` follows (`parser.cpp:454`) and `Compiler::visit` too;
- `dis` takes the operands of `GOTO` and `SET_VAR` for instructions (`main.cpp:320`);
- `take_string` neither keeps nor frees the characters of a text that is there already
  (`value.cpp:143`), `to_string` loses the first of a function's two texts (`vm.cpp:151`), and the node FIN is never freed (`compiler.cpp:677`).

## Proofs

The proof modules have one form: an inductive invariant, `Init` implies it, one lemma for each
action that it is kept, the theorem that it always holds, and corollaries.

`HashMapProofs`, for every finite set of keys, every hash function and every first capacity of
at least 2. `IInv` says of the table, and during a growth of the new array: entries have their
types; a key is in one slot (`Unique`); between a key's home slot and the key there is no slot
never used (`Unbroken`); at most three quarters of the slots are used; the capacity is 0 or
allowed a growth (`CapOK`); and during a growth, the new array holds exactly the keys of the
slots already passed, `len` of them (`RehashOK`). None of the properties is inductive
without the others: a search ends because a slot is unused, which is so because `len` counts
used slots, which is so because a put finds a stored key rather than storing it again, which
is so because probes are not broken. The lemmas about probing (a probe visits every slot once,
a search with an unused slot has a first stop, what storing at that stop does) carry
the argument. Results: `TypeCorrect`, `SearchesEnd`, `KeysAreFound`, `LenIsUsed`.

`TombstonesAreReused` (that `TombstonesBounded` always holds) needs a stronger invariant:
used slots, tombstones included, have different owners among the keys, and a tombstone lies on
its owner's probe path (`Owned`). A put of a key that owns another tombstone than the one it
takes lets the two owners change places, so the used slots are never more than the keys.

`Implements`: `Spec` implements `AbstractMap` under `map <- Contents`.
Each call maps to the abstract call, each `Rehash` to a stutter. That `PutEnd` maps to the put
needs `Copied` beside `IInv`: during a growth the new array holds the entries of the slots
passed, values included, and no others.

`MemoryProofs`, for every finite set of texts, every hash function and all bounds on objects,
cells and lost buffers. Its first half, about the string table, applies the results about the hash
table to an instance of it (`Proved`) whose keys are the objects. `SInv`: the table stores
the objects made, but for the one whose put is still growing it, and no text has two. Two
objects of one text have one probe path, so `map_find_str`, which compares texts, stops where
`find_map_entry`, which compares addresses, would (`FindStrOK`); so a string is made only for a
text that has none. The theorems are stated for `MemorySpec`, which contains all the steps of
the string table: `OneObjectEach`, `AllFound`, and `Interns`, the refinement
`ImplementsInterner`. `HeapOK` is about the rest: the list `vm->objects` goes through every object
once (`Linked`); while the machine runs the live blocks are those of the objects, the
stack, the one or two arrays of the table and the lost buffers; during `~VM` they are those of
the objects not yet freed, and the lost buffers, and behind `ReadNext` `after` is where the list goes
on (`FreeingOK`). Blocks of different owners
differ, and an array that grows trades one block for another. Results: `FaultFree` (`NoFault`),
`LiveIsOwned` (`EachOwned`, for which `ReachedAll` shows that walking the list meets the whole of
it), and `AllFreed`: when `~VM` is done nothing is live but what `take_string` and
`to_string` lost, the safety half of `FreesAll`.

`LexerProofs`, for all texts and whatever the uninitialised `interp_count` and `interps` hold.
`LinesCounted`, `ScanMovesOn` (`MovesOn`): the line is one more than the line ends passed, and
every token moves the lexer on, until FIN or the text is left. The invariant is `Placed`:
position within the text and its terminator, line right. The loops of `skip_useless`
and of strings are recursive functions; that there is a function with that recursion
is proved first, from the end of the text backwards: the last position from which there were
none would have one (`SkipExists`, `StringExists`; the library's induction is out of reach). The longest operator is shown to
exist, to be within the text and to hold no line end (`OperatorIs`).

`VMProofs`, for every sequence of programs, stack of at least 2 values, number of frames and
set of builds; the bytecode is arbitrary. `IInv` is `TypeOK` with `UpvaluesOK`. `TypeOK` says
that every reference leads somewhere: values to closures, closures to functions and upvalues,
frames to closures and the stack, also while a closure is being filled. It needs the guard
`Meaningful` and the decoding of operands, about which `Bytecode`'s encodings give what is needed
(an operand is a natural, its end is behind it). `UpvaluesOK` needs `TypeOK` for the locations to be
numbers, and that the loops of `capture_upvalue` and `close_upvalues` split a sorted list at one
place (`Above`). Results: `TypeCorrect`, `OpenListSorted`, `UpvaluesCloseOnce`. Beside these,
`ReadAsWritten`: any number of 64 bits, written by `emit_uleb` anywhere in any code, is read by
`ULEB` as that number, and control goes on behind it. `RestIs` is the writing loop, at most ten
bytes; `ValueIs` the reading one, from its last byte backwards; that they meet at each byte is shown
by the last byte at which they would not.

`FrameProofs`, with the same constants, is about properties that not all bytecode has:
`run()` looks neither at the depth of the stack nor at frames. They are theorems of the form
assume and guarantee. What the code has to do is `KeepsToFrame` and `LeavesCaptured`, conditions
on the current instruction alone; what the machine then gives are `FramesStayNested`
(`FramesNest`), `CallersKept` (`CallerKept`), `NoneDangles` (`NoDanglingUpvalue`) and
`CapturedStays` (`CapturedKept`). Most instructions take at most `Takes` values off the stack and
leave what is below (`Works`); eight others are taken one by one (`StepKinds`). The run
`bytecode` has scripts that break the conditions, so they say something. `LayoutProofs` shows that
well-laid code meets them.

`LayoutProofs`, with the same constants, any layouts and any lists of starts and statements. Its
theorems have two hypotheses: `WellLaid` of the program at the start, and `CallsMatch` at all times.
The first is about code and is decided by looking at each instruction once; the second is about
values, which a layout does not know: a global may hold anything when it is called. The
run `programs` checks both of every program of it; a program with an `if` without else fails the
first, as it should. The inductive invariant is
`LInv == IInv /\ WellLaid /\ FramesNest /\ NoDanglingUpvalue /\ FollowsLayout`. `FollowsLayout` has
three parts, none inductive without the others. The running frame is at a place of its layout, no
higher or lower than it says, and only locals it says may be captured are (`CurrentSits`). Each
frame that waits is where its call left it, with the result in the callee's place (`CallersSit`): a
return makes it the running frame, and no step before may disturb it, which is where `FramesNest`
and the captured locals come in, since SET_UPVAL is the one instruction that writes to other
frames and RET the one that closes upvalues of many slots. A closure has as many upvalues as its
function counts, but for the one being made (`ClosuresFilled`), without which an upvalue that a
layout finds need not be there. Results: `LayoutIsFollowed`; `InstructionsAreMet`, control is only
where the compiler started an instruction; `StatementsStayBalanced`; `FramesAreKeptTo`
(`KeepsToFrame`: an instruction finds its operands above the callee of its frame, the locals it
names are on the stack, and it never assigns to a callee's slot) and `CapturedAreLeft`
(`LeavesCaptured`: a captured variable is taken off the stack by `CLOSE` or `RET` only), the two
conditions of `FrameProofs`, so that `WellLaidNests`, `WellLaidSparesCallers` and
`WellLaidKeepsCaptured` follow with no condition on the run but `CallsMatch`; `OperandsAreFound`,
that constants, names, locals, upvalues and distances are there.

`OnlyLimitsAndTypes` (`DefinedWithin`) puts these together: where C++ gives the next step no
meaning, the stack or the frames are too small, or an operand has the wrong type. It needs
a second invariant, `Written`: the stack up to the top, the closed upvalues and the globals
hold values that were written, since a local above what was written would be read as `Junk`. The
limits cannot be taken out of it: nothing compares `num_frames` with `MAX_FRAMES`.

`DisassemblerProofs`, for every program and either order of evaluation in `printf`: `StaysInStep`,
that `Listable` code is listed in step (`InStep`). The invariant `DInv` is about every call of `dis`,
those included that wait while an inner function is listed: it is where an instruction starts or
at the end of its function, or at the captures of a closure with such a place behind them
(`CallOK`). After the first line whose operand `dis` does not know of (`Misread`) nothing is said.
`AfterCaptures` shows that both orders come out behind the captures, by the least capture at which
they would not. `DistancesRead` says of every distance what the finding `far_jump` shows of one:
`readUint32` reads 32 bits as `emit_uint` wrote them, and `UINT` reads the same if and only if they
are less than 256.

Assumptions used are those of the modules: `KeysAssumption`, `ValuesAssumption`,
`HashAssumption`, `CapAssumption`; `TextsAssumption` of the string table, `CopiesAssumption`,
`TableAssumption`, `BoundsAssumption`, `OthersAssumption`; `TextsAssumption` of the lexer,
`FirstInterpsAssumption`, `LettersAssumption`, `InterpsAssumption`; `ProgramsAssumption`,
`SizesAssumption`, `BuildsAssumption`; `DisassemblerAssumption`. TLC evaluates them in the runs.

Trying to prove `OperatorIs` and the string loop showed one thing about the model: alternatives
in `StringFrom` overlapped behind the text's end, where characters were looked up directly. They
go through `CharAt` now, which is the terminator there.

Model-checked only:

- `Agrees`, and that what the compiler makes is `WellLaid` and `Listable` and what programs call
  fits (`CallsMatch`): they depend on the compiler, which is recursive over trees;
- the properties of `parser`, for the same reason;
- `ScansAsWritten`, which compares with texts that TLC puts together, and `InterpsCount`, which
  depends on what `interps` happens to hold at first;
- liveness: `Ends`, `Finishes`, `ListsAll`, `CallsReturn`, `FreesAll`.

## Not modelled

REAL numbers, and INTs near 2^63 (bit operations are exact on six bits and a sign); the contents
of memory beyond the arrays; texts that are not ASCII (what `mbrtowc` makes of them depends on
the C library); columns, positions and wording of diagnostics; `realloc` failing, which ends the
process. `collect` and its marking: the only call, in `reallocate`, does not compile, and nothing
is swept. `const_table`, `copy_map`, `new_map`, `FuncBody`: nothing uses them. The globals' table
and its array: `HashMap` is one of the kind, and `VM` uses the function it implements.
`asprintf.cpp` and `langs.hpp`: formatting and wording. `open_file`: I/O. `src/backup`: an earlier
snapshot that is not built.

## Plan

Done: the hash table with its abstract map; bytecode, machine, code generator, meaning, and
their composition; scanner, parser, their composition and the nodes; string table, objects
and teardown; the disassembler; well-laid code. Proofs of the hash table and its refinement, of the
string table and its refinement, of the memory, of the lexer's lines, of the machine, of what it
guarantees to code that keeps to its frame, of well-laid code, of the encodings, and of the
disassembler.

Left: `Scopes`, the compiler's resolution of names against lexical environments, and the statement
forms `programs` keeps away from.
