# A verification of Tibru

Tibru is ELPA, a small runtime for immutable pairs, with two front ends on it:
the KCon interpreter with its shell, and the unfinished OhNo. This directory
holds TLA+ modules for its core (the two checking allocators, the interpreter,
the parser and the printer, the shell and the console's treatment of errors), TLC
configurations that check them on small instances, and TLAPS proofs of what both
allocators, the names, the shell, the parser and the interpreter promise.
Paths are relative to `src/src/cpp/` unless they start with `src/`.

## 1. The system

The program is one thread in one process, with nothing written to disk. What
is hard in it is therefore not concurrency but the order of things inside one
call: what may be held unregistered while something allocates, what an exception
leaves behind in a process that goes on, and what files that process files do to
the state of the shell.

| Part | State | Operations | What makes it correct |
|---|---|---|---|
| Scheme (`elpa/types.h`) | none | words for bytes with a display tag, the undefined element, cell addresses | the three kinds are never confused |
| SimpleAllocator (`elpa/memory.h`, `.tpp`) | the page, the free list, registered roots | `new_Cell`, `gc`, `add_root`, `del_root`, `auto_root` | a cell in use is never freed, reused or changed; out of memory only when memory is out; a cell is always in reserve |
| TestAllocator (the same files) | allocated cells, registered roots | the same; every `new_Cell` moves every cell | no address outlives its cell; the limit is kept |
| Interpreter (`kcon/interpreter.tpp`) | locals and `auto_root`s | `. / ? @ * + !` | the answer is the one the language gives whatever is collected meanwhile; every operator but `!` ends |
| Parser, printer (`elpa/stream.h`, `.tpp`) | stacks of partial cells, format flags | reading an element, readers, macros, printing | what is printed reads back as the same element; unfinished input is told from wrong input |
| Shell (`elpa/shell.h`, `.tpp`, `kcon/shell.tpp`) | two tables of names, tag counts, files being processed, trace limit | commands, expressions, `:process`, `:include`, the interactive loop | names show what they stand for; no file is read inside itself; a failure leaves the shell usable |
| Console (`elpa/console.tpp`) | options | running scripts, then the loop | an error ends what it should end |
| OhNo (`ohno/`) | none of its own | the macro `@`, `:fn` | names move with the elements `@` moves; unfinished: `:fn` is not implemented |

How they interact: the console runs scripts through the shell and may then enter
its loop. The shell parses a statement (which allocates), applies an operator
(which allocates) and keeps the value in a table whose entries are registered
roots. All of them reach the allocator by `new_Cell` and by registering
variables. Errors are exceptions. They unwind `auto_root`s, and are caught in
`Shell::interactive` or, out of memory only, in `Console::go`.

## 2. The modules

```
Scheme      words                                   KCon     the language, on trees
  |                                                   ^
Cells       cells, reachability, marking              | implements
  |   \-- CellsProofs                                 |
  +-- SimpleAllocator --+--(INSTANCE)-------> KConInterpreter
  |     |    |          |                             |-- KConInterpreterRefinement
  |     |    |          |                             |-- KConInterpreterMC
  |     |    |          |                             \-- KConInterpreterProofs
  |     |    |          +--(INSTANCE)-------> Parser --> ParserMC
  |     |    |                                      |     |-- Syntax   the notation, on trees
  |     |    |                                      |     \-- Printer
  |     |    \-- SimpleAllocatorProofs --(INSTANCE)--> ParserProofs, KConInterpreterProofs
  |     v implements
  |   PairStore      what an allocator promises
  |     ^ implements
  +-- TestAllocator
        \-- TestAllocatorProofs
Definitions  names and tags --(INSTANCE)--> Shell --> ShellMC, ShellProofs
  \-- DefinitionsProofs
```

`Scheme` and `Cells`. A word is a number: a byte with its tag below `UNDEF`
(65536), the undefined element, or an address. Consecutive addresses stand for
consecutive cells, which is all the code uses of them (the sweep compares
addresses; nothing else does arithmetic on them). `Reach` is what a set of words
leads to: a cell is left out only as one of a set that none of the words is in and
no cell outside the set leads into; `MarkFrom` is `_mark` as the code does it, a walk
that stops at marked cells; `Unfold` is the tree at a word.

`SimpleAllocator`. `page`, `free` and `roots` are `_page`, the cells of
`_free_list` and the registered variables; `val` is what the client's variables
hold and `ret` the word the last call returned, which is nowhere registered. The
client is any program that keeps the discipline all of the code relies on: it
uses a word only if it is a byte or undefined, if a root leads to it, or if it is
what the last call returned. `NewCell`, `NewCellCollect` and `NewCellNoReserve`
are the three ways through `new_Cell`; `Gc` is `:gc`; `Recover` is the interactive
loop going on after an OutOfMemory. When `gc` throws inside `new_Cell` the address
of a local stays registered (`memory.h:232-234`): `stale` says so. A later
collection reads what lies in that dead stack slot, so it is a choice: any cells,
nothing, or a word that is no address (the process then ends in `wildRead`).
Byte values are left out of the allocator's runs (`ClientBytes = {}`): a byte in a
cell is treated exactly as the undefined word is.

`TestAllocator`. The same client on the allocator that copies every cell on every
`new_Cell` and rewrites all registered words through a map. `Moved` is the map's
look-up, null for an address it does not hold. The new addresses of the cells are
whatever the heap gives: any addresses not in use would do, and `FreshMap` fixes a
choice of them. `HeapRoom` is a bound of the model: the heap is `NCells` addresses.
An OutOfMemory leaves the address of a local registered here too
(`memory.h:137-141`). While it is, every collection, of `:gc` as of `new_Cell`, also
marks from whatever lies in that dead slot: `StackWords` is a choice among nothing
and any allocated cells. `UseStaleRoot` is the rest, a move that writes
through the dead address or a collection that marks from a word that is no cell:
the process is then in no state the code determines, and the model stops in `wild`.

`PairStore` is what both allocators promise: variables that hold trees, which
change only by assignment, `Cons`, and memory that may run out. `*Refinement`
modules give the mapping (`Unfold` of each word).

`KCon` defines the operators on trees from what the help (`kcon/shell.tpp:69-82`) and the
README say of them: `@` reduces a code and its argument and nothing else.
`KConInterpreterRefinement` says what the code answers in that language, with one
deviation that it names, `ReduceOfList`: `@` of a list of expressions, which the language
does not have, gives the pair that `*` builds. `kcon_reduce` shows it. The help line of the
statement with a 2 (line 72) disagrees with the code, the README and its own line
82; `KCon` follows those (section 3). `KConInterpreter` is
the code on the cells of a `SimpleAllocator` instance. A step ends wherever
something else could come between, at each `new_Cell` and each change of an
`auto_root`. What the C++ keeps in plain locals is in `raw`, what it keeps in
`auto_root`s is in `val` and `roots`, and a collection treats them accordingly.
Reading paths and selecting does not allocate and is one step. `term` and
`operand` are history variables. A count and a walk along a path are recursive
functions, not operators, so that the proofs can speak of them.

`Parser` is `elpa_istream` on the cells of a `SimpleAllocator` instance, in the same
style: a step ends at each `new_Cell` and each change of an `auto_root`, `raw` is
what waits in plain locals, an `elpa_stack` is the registered list of its items, and each
definition is in a registered root of its own, as `elpa_map` has it (`DefnRoots`).
It reads tokens, not characters: a number, a name and a `#` with its digits are one
token each, and spaces between tokens are left out, but for the newline, which ends
an expression. `_parse_elems` is `Start` to `Trailing`, the readers and macros of
both shells follow (`#`, `'` and `<` of KCon, `@` of OhNo; the model's shell has them
all), and `_reverse_and_reduce` is `Return` to `ReduceReturn`. `Enter` and `Leave`
are the `auto_root`s of a frame; an exception unregisters them all (`Unwind`).

`Syntax` says what the same tokens mean, on trees, with no cells, no holes for names
and no stacks. A name there is its tree at once, a macro changes the list read so
far, and an expression is complete or not. `Printer` is `_print_elem` and `_format`
as operators on cells, flat or deep, with names or without; the explicit stack of
`_format` is kept. `ParserMC` has what is typed and relates the three.

`Definitions` is the shell's two tables (`defns_no_it` for showing,
`defns_with_it` for reading) and the tags that make named bytes distinct.
`Shell` is everything else: the stack of `process` calls, the register of files,
the operator loop with `:trace`, the prompt that asks for more, the console's
scripts. Each statement is one step, and the statement that a file or a user
gives next is a choice: all contents of all files are explored, also contents that
differ from one reading to the next. `Throw` is what an exception does: it leaves
every call, erases the files of the noisy ones from `processing`, and ends at the
prompt, at the "... " prompt, or as the `status` of a process that has ended.
`printed` marks a silent call whose stream has received output. An operator without a
trace is one step, but for `EndlessProgram`: `!` of a program that never exits does not
return (`kcon/interpreter.tpp:242`), and the shell stops there.

## 3. The runs

| Run | Instance | Shows |
|---|---|---|
| `simple` | 3 cells, one variable of each kind | the allocator's invariants, that live cells never change, and that it implements `PairStore`, in scripts and in a shell that survives OutOfMemory |
| `simple_reserve` | the same | fails: the assertion of `_next()` |
| `test` | 6 addresses, limit 2, one variable of each kind | no dangling address, the limit in scripts, and that it implements `PairStore` |
| `kcon` | every operand of up to 4 leaves over {0,1,2} for every operator, of 5 leaves for `* + !`, paths of two elements, shared cells, programs with IF, GRAFT and recursion; 1 or 3 free cells | the language's answer (for `@` of a list that of `*`) or an illegal operation, with collections at every possible point; no local dangles; the way back up of a graft has its cells; every operator but `!` ends |
| `kcon_graft_statement` | the statement of `src/README.md:261` | fails: the continuation is collected |
| `kcon_reduce` | `@` with two expressions | fails: answers where the language has no meaning |
| `definitions` | KCon's constants, two names and `it`, tags up to 4 | named bytes stay distinct, constants stay, the two tables agree until tags run out |
| `shell` | two files, one name, tags up to 1, traces of limit 2, at most two scripts | no file is read inside itself or dropped from the register, an unfinished file is read again exactly when it was processed, traces respect the limit, and reading ends unless in a comment that does not end or an untraced program that never exits |
| `shell_output` | the same, one script | fails: the assertion on output |
| `shell_include` | the same, one script | fails: a failed file is refused as recursive |
| `parser` | 3,692 inputs, each with 4, 7 or 11 free cells of 13 | the parser reads what the tokens mean, tells unfinished from wrong, no local dangles, what is printed reads back, reading ends |
| `parser_reverse` | two lists with two names and `<` | fails: `<` turns the elements round and not their names |

Why the bounds are enough. Three cells make a page with a cell in use, a cell of
garbage and the reserve, with sharing; two variables
make both kinds of root. Six addresses are the least that two cells and a new one
can be moved among. The number of free cells decides at which `new_Cell` a
collection falls: `kcon` starts with 1 or 3, so that it falls at once or between later
allocations, and every collection that frees little moves the next one. The tags are
scaled down from 255 to 4, one above the highest tag of a constant, so that they
run out. Two files are the least that process each other; a third adds depth only.
`MaxScripts = 2` has the same file twice.

What is typed in `parser`: every list of up to 3 of `1 x f [ ] < ' @` and of up to 4 of
`1 x [ ] @`, and of up to 3 of `f g [ ]`, closed or not closed by what is in it, some
with a macro behind the list; every row of up to 3 of twelve tokens that are no list (an
unknown name, a number too large, `#` that fits and `#` that does not, a character
nobody reads, a newline); and the longer inputs of the repository's tests. `x` names a
byte with a tag, `f` a cell and `g` another that leads to it, each in its own root. With
4 free cells inputs of a few tokens already collect and the longest run out of memory;
with 11 few collect. `Octet = 4` gives `#` octets of two bits, so that four of them
overflow at 256. `KeepsNames` leaves out what `parser_reverse` shows: `<` is typed only
where at most one name is. `#260` is an overflow that the check in `#` finds;
one that it misses is not typed (see the end of this section).

Symmetry is not used: addresses are ordered, and three runs check liveness.
`CHECK_DEADLOCK FALSE` is set where the process may end (out of memory in a
script, `:exit`, an uncaught exception, a loop without end) or an operator has answered;
`definitions` checks deadlock.

**Fairness.** `kcon` and `parser` assume `WF_vars(Next)`: one thread runs the operator,
or reads what has been typed, and nothing blocks it. `shell` assumes that a trace in
progress goes on (the same thread) and that a file has an end:
`SF_vars(EndOfFile(file))` for each file, since what is read in a finite file comes to
its end if reading is resumed for ever. Where a statement of the file does not return
(`EndlessProgram`, `UnendedComment`) the end is not reached, the model is in a state
with no further step, and `FilesEnd` leaves the two out by name. The user is not assumed
to type anything.

### What the failing runs say

1. `simple_reserve`. `new_Cell` skips `del_root` when `gc` throws and leaves the free
   list empty. The interactive loop goes on, and the next allocation runs into what
   `elpa/memory.h:184` asserts cannot be; without assertions it reads a null pointer.
2. `kcon_graft_statement`. `execute_trace` keeps the continuation of `2 v e r k`
   unregistered over the allocations of `_graft` (`kcon/interpreter.tpp:283`).
3. `kcon_reduce`. `reduce` calls `_evaluate` (`kcon/interpreter.tpp:113`), so `@` takes
   a list of expressions and builds pairs, for which `src/README.md:211` says that `@` "is
   not defined"; the check of `_reduce` that "@ requires expression code to be a byte"
   is never met on a list.
4. `shell_output`. An included (silent) file that contains `:process` prints into the
   stream that `elpa/shell.tpp:332` asserts to be empty. The assertion is not caught,
   and debug is the default mode: `kcon file` ends with an uncaught exception.
5. `shell_include`. The silent form of `process` does not erase its file on an error
   (`elpa/shell.tpp:376`; the noisy form does at 357-361). The corrected file is then
   refused as "File included recursively".
6. `parser_reverse`. A name is a hole in the reversed expression and an entry of
   `names`. `<` (`kcon/shell.tpp:58`) reverses the elements and leaves `names` as it
   is, so `[x f <]` reads as `[x f]`, not as the `[f x]` that the help at
   `kcon/shell.tpp:93` promises. `@` of OhNo moves both (`ohno/shell.tpp:21-58`).

What was seen on the way and has no run of its own:

* TestAllocator's `new_Cell` skips `del_root` in the same way (`elpa/memory.h:137-141`).
  Its job is "to test that the roots are correctly defined" (line 103), and one of its
  own is then a word in a dead stack frame: that is `UseStaleRoot`.
* It collects when the number of cells *equals* the limit (`elpa/memory.h:139`). After
  one OutOfMemory in the interactive shell the next cell takes the number past it, and
  `-mem=n` has no effect until a `:gc` brings it back below: `WithinMemoryLimit` is of scripts.
* The help has `![2 v e r k] -> ![v +[e r k]]` (`kcon/shell.tpp:72`): go on with `v`, graft
  `r` into `e` at `k`. The code goes on with `k` and grafts `e` into `v` at `r`, as
  `src/README.md:261` uses it.
* The check in `#` is that the number got smaller (`kcon/shell.tpp:31`), and ten times a
  number can wrap to a larger one: `#5000000000` reads as `[0 242 5 42]`, where
  `kcon/tests.cpp:66` expects an error of what does not fit 32 bits. In 8 bits, as in the
  run `parser`, 605 is such a number.

## 4. The proofs

The proofs hold for every value of the constants under the named assumptions, where
the runs look at one instance. `TypeCorrect` is `Spec => []TypeOK` in each module.

**Both allocators** (`CellsProofs`, `SimpleAllocatorProofs`, `TestAllocatorProofs`).
Any page size, any client variables and bytes, any limit; assumed are
`NCellsAssumption` (the page has at least one cell), `ByteAssumption` (the client's
bytes are bytes) and `NMaxAssumption` (the limit is at least one cell).

`CellsProofs` has what any page gives. `ReachIsLeast`: the cells reached are the least
closed set with the words in it. `MarkFromMarks`, `MarkedReach`: the recursive walk,
which stops at marked cells, ends and marks what is reached from the word and not
marked; its recursive function exists by well-foundedness of the sets marked.
`SomeTree`, `UnfoldWords`: on a page without cycles every word has exactly one tree.
`SameTrees`: pages that agree on a closed set give the same trees in it.
`ReachedTreesAreParts`: the tree of a reached cell is a part of the tree of a word
that reaches it.

*SimpleAllocator:*

* `AllocatedStaysClosed`: no cell off the free list leads to a cell on it, garbage
  included, and no root or answer is on it. This is the inductive invariant.
  `LiveNotFree` itself is not inductive: garbage can become reachable
  again through a stale root, and had it led to a free cell, so would the root.
  The proof follows `new_Cell`: a filled cell leads to words that are not free
  (`FilledClosed`), and what a sweep keeps is closed because it is what the roots
  reach (`SweptClosed`, by `ReachClosed`).
* `LiveIsNotFree`: from closure, since `Reach` is the least closed set.
* `LiveCellsAreKept`: no step changes a cell that is live before and after. A sweep
  overwrites only what the roots do not reach, and what is live afterwards was
  reached before (`SweepReachesLess`).
* `ReserveIsKept`, `OomIsNotSpurious`: in a script, `new_Cell` always finds a cell,
  and memory runs out only when the roots and one more cell reach the page. They
  need `NoStaleRoot`: in a script nothing survives an OutOfMemory, so no dead local
  stays registered.
* `MarkIsReach`: `_mark` marks what the roots reach, in any order, with any sharing.
* `NothingCycles`: no cell leads back to itself. A cell is filled with words that
  lead only to allocated cells, and the free list runs downwards (`FilledAcyclic`,
  `SweptAcyclic`).
* `StoreImplemented`: `Spec => Implements`, the refinement of `PairStore`. With no
  cycles every word has its tree; filling a free cell and sweeping unreached ones
  change no tree of a word in use (`FilledTrees`, `SweptTrees`); the words a client
  may use are trees that `PairStore` calls visible (`WordsAreVisible`); and each
  action is then one action of `PairStore` or a stutter (`HoldStep` to `GiveUpStep`,
  `StepsImplement`). It needs `EmptyHanded`: after an OutOfMemory nothing is in hand.

*TestAllocator:*

* `NothingDangles`: `Spec => []NoDanglingAddress`. A move maps the cells in use to as
  many fresh ones (`ShiftedCells`), every registered word by the same map
  (`MovedWord`), so what pointed to allocated cells still does
  (`MovedStaysInside`); there is always room to move to (`RoomToShift`). It holds after an
  OutOfMemory too, when a `:gc` keeps more than the roots reach because it marks through
  a stale one: what such a mark adds is allocated and closed. It says nothing after
  `UseStaleRoot`, where the model stops.
* `MemoryOfScriptsIsLimited`: `Spec => []WithinMemoryLimit`. That a script has at most
  the limit is not inductive: that it has *fewer* while it runs is, and that is why
  comparing with `==` suffices there, and only there.
* `StoreImplemented`: the same `PairStore`. A move is an isomorphism of the cells in
  use (`MovedChildren`), so it makes no cycle (`ShiftedAcyclic`) and keeps every tree
  (`ShiftedTrees`, `MovedHeld`).

**Names** (`DefinitionsProofs`). Any constants, names, values and number of tags, from
`DefinitionsAssumption` (the constants are cells or tagged bytes in range, and `it` is
none of them). `DefCases` reduces `:def` to its three outcomes.

* `TypeCorrect`: so no tag count passes what an octet holds.
* `NamedBytesAreDistinct`: `Spec => []TagsAreUnique`. The strengthening is
  `TagsCounted`: no tag in the table is above the one counted for its value, so the
  next one is new. It holds at the start because the counts start from the highest
  tags of the constants (`ConstantTags`), which exist by well-foundedness
  (`HighestTag`).
* `TablesAgree`: `Spec => []NamesAgree`, inductive given the types: a count only grows
  while it is below MAX_TAG, so a name without a tag stays without one.

**Shell** (`ShellProofs`). Every set of files, any number of scripts and any trace limit;
`NamesAssumption` is the one of the names.

* `FilesAreRegistered`: `Spec => []CallsAreRegistered`, inductive given the types
  of `calls`, `scripts` and `pending` (`CallsInvariant`). A call is pushed only for an
  unregistered file, so no two calls share one; hence the end of a call cannot take
  another's registration; and an exception takes all calls with it, so that what it
  leaves behind in `processing` can refuse a file but not unregister one.
* `RetriesAreForeseen`: `Spec => []RetriedFiles`. It needs `NoFileWaits`: a file waits
  at the prompt only while no call is being made, so no call can register or erase
  it meanwhile. What `Throw` leaves of the innermost call decides it (`ThrowRetries`).
* `TracesStop`: `Spec => []TraceIsBounded`.
* `NamesImplemented`: `Spec => Defs!Spec`. Every step of the shell is a step of
  `Definitions` or leaves the tables alone, so the theorems on names hold in every
  shell (`ShellNamesAreTrue`), its errors and nested files included.

**Parser** (`ParserProofs`). Any page, any definitions and anything typed, complete, wrong or
neither. `TokensAssumption` gives the tokens their types and an octet at most 256
values; `WordsAssumption` says that the definitions are elements of the page, and whole;
any number of them may be cells and share cells. `DefnRootsAssumption` says that each has a
root and that no such root is a local of the parser: `elpa_map` allocates a root for each
key (`elpa/container/elpa_map.h:23-33`).

* `ParserIsAClient`: `Spec => [][Allocator!Next]_mem`. Every step is one that
  `SimpleAllocator` allows a client, so what is proved of its steps holds when the
  parser takes them (`Memory` is `TypeOK` and `AllocatedClosed`, kept that way).
* `LocalsAreAlive`: `Spec => []HandsAlive`. Neither is inductive. The parser asks only
  for words in hand because of where it is, so the invariant (`Inv`) says what holds at
  each place (`Control`): a plain local holds the last answer, a definition, or what
  the list read so far leads to (`RawOK`); what is taken apart is a cell (`TailOK`,
  `MacrosOK`, `ReduceOK`); as many lists wait as there are open brackets (`Balanced`),
  and as many tails as lists while an expression is turned round (`Paired`). The
  last two are sets of cells closed under taking one off, so they need no recursion, and
  they survive a collection, which keeps what a root leads to (`StacksKept`).
  An assignment of a new cell is two steps: `Held` sees the pending one made.
  After an OutOfMemory or a syntax error `Memory` is all that is left to hold.

**Interpreter** (`KConInterpreterProofs`). Any page, any operands and any number of free
cells. `ProblemsAssumption` says what the parser hands over: the operand is a word of
the page, its cells are whole, and none leads back to itself (`NothingCycles` is why
that is so).

* `OnlyContinuationsAreLost`: `Spec => ([]KontAlive <=> []HandsAlive)`. `HandsAlive` is
  false of the code as it stands: `kcon_graft_statement` shows a continuation that is
  collected. `KontAlive` is `HandsAlive` of that one local. So the documented failure is
  the only one: if `execute_trace` kept its continuation, nothing else would be lost.
* `OperatorHandsAreAlive`: `Spec /\ op # "!" => []HandsAlive`. The operators
  `. / ? @ * +` have no continuation, and lose nothing on any operand.
* `WayBackFits`: `[]RouteFits`, for every operator but `!`, and for `!` too as long as no
  continuation is lost. `_graft` pushes a cell for each move of the way down, counting
  the moves in the path, and pops one for each move of the way up, counting them again,
  in a reversed copy of the path that it has built meanwhile. Nothing in the code
  compares the two. That they are equal is a relation of two lists in the page,
  `Unwinds`: the route has as many cells as the reversed path has moves, element by
  element.
* `InterpreterIsAClient`: `[][Allocator!Next]_mem` under the same condition: every step
  is one that `SimpleAllocator` allows a client.

The invariant (`Inv`) is again the allocator's (`Memory`, here with `NoCycles`) and what
holds at each place (`Control`): which `auto_root`s are registered (`RootsOK`), what a
plain local holds (`RawOK`), the arguments of a frame half entered (`EnterOK`), that
`_evaluate` has an expression left (`EvaluateOK`), where `_graft` is in its path and
what it has just built of the reversed one (`GraftOK`), and `Unwinds` (`UnwindOK`).
`RouteFits` is the consequence a reader cares about. `NoCycles` is in it because the
counts are recursive functions on the cells: they exist only on a page where no cell
leads back to itself (`SomeCount`, `SomeWalk`, `SomeGo`, by definition along a
well-founded order). The hard lemma is `UnwindsKept`: a `new_Cell`, even one that
collects, changes no cell that the route and the reversed path lead to, so the relation
survives; like `Balanced`, `Unwinds` is a set closed under one move, so that it needs no
induction.

**Only model-checked.** What is proved above of what a collection may take is proved of
every page; what an operator *answers* is not. The refinement of `KCon`
(`ImplementsKCon`), the agreement of `Parser` with `Syntax` and `Printer`
(`ReadsAsWritten`, `AsksForMore`, `PrintedReadsBack`) compare the code with definitions
by recursion over trees: they would need induction over data, which is out of the
prover's reach. So is everything that must eventually happen (`OperatorsAnswer`,
`FilesEnd`, `ReadingEnds`). `KontAlive` is an assumption of the theorems about `!` and
not a theorem: it is false of the statement in `kcon_graft_statement` and holds of the
operands listed in `kcon`.

## 5. What is left out, and why

* Counts of five octets and more in a path: `_parse_count` shifts by 32 and
  beyond there. They need octets and words scaled down (section 6).
* What a read or write through a stale registered address destroys: the models
  stop in `wildRead` and `wild`.
* The order in which the arguments of one call are evaluated
  (`kcon/interpreter.tpp:156`): it matters on TestAllocator only.
* In the parser: characters and the spaces between tokens, and digits in other bases.
* In the printer: hexadecimal numbers, spaces and the form of `:list`; the deep form with
  names, where a named tail is put in brackets of its own and cannot be read back
  (`elpa/stream.tpp:103`); a lone byte is printed without its name.
* In the shell: the text of messages, and reading at the end of the REPL's input,
  which goes on with empty lines for ever. A statement is a choice of outcome there:
  the shell does not run the parser and the interpreter of the other modules.
* The parsing of the command line, `-tests`, and the runtime's helper headers.
* OptAllocator and OptScheme are other names of SimpleAllocator and SimpleScheme
  (`elpa/memory.h:242`, `elpa/types.h:114`).

## 6. Plan

1. Proofs: `ReserveKept` and the refinement of `PairStore` for the parser and the
   interpreter, as consequences of `ParserIsAClient` and `InterpreterIsAClient`.
2. `_parse_count` with words of a few bits: what a shift past the word may give.
3. The interpreter on TestAllocator, for what `SimpleAllocator` cannot show (a word
   converted before an allocation in the same call).
