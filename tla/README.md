# A verification development for spasm

spasm is an assembler for CPython bytecode: a C++ extension
(`src/src/*.cpp`) that takes code objects apart into editable instruction lists
and puts them together again, and a Python layer (`src/spasm/*.py`) with an
assembly language, decorators, an inliner and a build backend on top of it.
This directory holds TLA+ models of its algorithms, the TLC runs that check
them on small instances, and TLAPS proofs of their main properties for
instances of every size.

## Inventory

| Component | Code | State it keeps | Operations | What makes it correct |
| --- | --- | --- | --- | --- |
| Stack depth | `stackdepth.cpp` | depth per instruction, worklist, AUTO candidates, handler groups | `compute_stacksize()` | no execution needs more stack than was computed; no more is computed than needed; an inferred handler depth fits its region; it returns |
| Relaxation and emission | `bytecode.cpp:443-671` | prefixes and offset per slot | the relaxation loop and the emit loop of `to_code()` | every jump lands on its label, every argument is carried whole, no prefix is spare, the loop ends |
| Disassembly and labels | `bytecode.cpp:129-406` | prefix chain, offset maps, labels per place | `from_code()`, `label_index_map()` | decode then encode gives the same program, no wider than it was |
| Interning | `bytecode.cpp:16-113`, `459-540`, `module.cpp:966-1007` | `consts`, `names`, `varnames`, `cellvars`, `freevars` | `find_or_add()`, the two sweeps of `to_code()`, `add_*()`, assigning a table | an index denotes in the new code what its object denoted in the instruction |
| Exception table codec | `exctable.cpp` | none | decode, encode | decode inverts encode |
| Location table codecs | `linetable.cpp` | running line, position | decode, encode (3.10 and 3.11 formats) | decode inverts encode, per word |
| Python bindings | `module.cpp`, `spasm/bytecode.py` | the live lists of `Bytecode` and `Instr`, the counter of labels, the C++ `Bytecode` behind each object | constructors, setters, edits of the lists, `new_label()`, `label_positions()`, `to_code()` | `to_code()` returns what Python sees; an id is issued once; a failed call leaves no trace |
| Parser and binder | `spasm/_asm.py` | stacks of open `try` and code blocks, labels, undefined references | `parse()`, `bind()`, `compile()` | sources are accepted when they follow the grammar, and become what their lines say |
| Inliner | `spasm/inliner.py` | renamed locals, spliced lists | `inline()` | the spliced program computes what the call did |
| Decorators, CLI, `.pyc` | `decorators.py`, `__main__.py`, `_pyc.py` | none | wrappers | -- |
| Build backend | `buildbackend.py` | the files of the wheel directory | `build_wheel()`, which has another backend build a wheel and rewrites it | after every crash a whole wheel is there, and the next build gets through |
| Opcode tables | `setup.py`, `compat.h` | none | generated constants | -- |

How they interact: `from_code()` calls the two decoders and produces
instructions, labels and labelled exception entries; the user (or the parser, or
the inliner) edits those; `to_code()` calls, in this order, `label_index_map()`,
`compute_stacksize()` (which fixes the AUTO depths in a copy of the exception
entries), the interning sweeps, relaxation, emission, and the two encoders.
There are no threads and no callbacks: everything runs under the interpreter
lock in one call (`to_code()` runs none of the caller's Python while it copies;
a handler of `Bindings` is therefore one action). The one part that can be
interrupted is `build_wheel()`, by a crash between two file operations, and
whose input, the project, may be edited meanwhile. What makes the rest hard is
not concurrency but fixpoints (depths, widths) decided from stale intermediate
values, orders of passes that later passes rely on, sentinels that share a type
with real values (`UNVISITED`, `INT_MAX`, `extended_arg == 0`), and arguments of
many branching executions that no test enumerates. `PROJECT.json` lists each
such hazard at its line with the properties that watch it.

The environment of the code is the CPython interpreter, whose part is modelled
only as far as the properties need it: the effect of executing an instruction
on the value stack and of raising into a handler (`StackExec`), and the reading
of prefixes, `CACHE` words and jump offsets (the `Original...` operators of
`RoundTrip`), its scan of the line and exception tables (`InterpreterLine`,
`Found`), and calls, locals and raises in a frame (the second half of `Inliner`).

## Modules

| Module | Extends | Models |
| --- | --- | --- |
| `StackDepth` | -- | `compute_stacksize()` |
| `StackExec` | `StackDepth` | a frame executing the program with the size computed |
| `StackDepth_proofs` | `StackExec` | theorems |
| `MCStackDepth`, `MCStackExec` | the above | the programs TLC runs them on |
| `Relaxation` | -- | widths, offsets and emission of `to_code()` |
| `Relaxation_proofs` | `Relaxation` | theorems |
| `MCRelaxation` | `Relaxation` | the slots TLC runs it on |
| `Disassembly` | -- | `from_code()` |
| `RoundTrip` | `Disassembly`, an instance of `Relaxation` | `from_code()` followed by `to_code()` |
| `RoundTrip_proofs` | `RoundTrip`, an instance of `Relaxation_proofs` | theorems |
| `MCRoundTrip` | `RoundTrip` | the code objects TLC runs it on |
| `Editing` | -- | what a `Bytecode` promises its editor (abstract) |
| `Interning` | an instance of `Editing` | the tables: indices to objects, edits, objects to indices |
| `Interning_proofs` | `Interning` | theorems, the refinement of `Editing` among them |
| `MCInterning` | `Interning` | the functions and edits TLC runs it on |
| `LocationTable` | -- | entries of the 3.11 location table: writing, reading, the interpreter's reading |
| `LineTable` | -- | pairs of the 3.10 line table |
| `ExceptionTable` | -- | entries of the exception table: writing, reading, the interpreter's search |
| `Tables` | the three above | the encoders and decoders of `to_code()` and `from_code()` over whole tables |
| `Tables_proofs` | `Tables` | theorems |
| `MCTables` | `Tables` | the slots and entries TLC runs it on |
| `Inliner` | -- | `inline()`, and an interpreter that runs the caller before and after |
| `MCInliner` | `Inliner` | the callers and callees TLC runs it on |
| `Bindings` | an instance of `Editing` | the Python objects and the C++ copy that `to_code()` makes of them |
| `Bindings_proofs` | `Bindings` | theorems, the refinement of `Editing` among them |
| `MCBindings` | `Bindings` | the code object the first of them is decoded from |
| `Assembler` | -- | `parse()` and `bind()` of the assembly language |
| `Assembler_proofs` | `Assembler` | theorems |
| `MCAssembler` | `Assembler` | the lines that sources are made of |
| `WheelBuild` | -- | `build_wheel()`, with crashes |
| `MCWheelBuild` | `WheelBuild` | the wheels of the other backend |
| `Spasm_proofs` | `Inliner` and `WheelBuild`, of `src/spasm` | theorems |

### StackDepth

The program is a constant of each behaviour (`prog`), chosen in `Init` from the
constant `Programs`: the instructions, an opcode (`op`) and a label or a raw
integer (`arg`) each; the labels that `label_index_map()` has resolved
(`label_idx`); and the exception entries (`exc`). What an opcode is (a jump, a scope
exit, a generator marker) and what `stack_effect()` says of it are constants, small
integers instead of the interpreter's table. The variables are the locals of
`compute_stacksize()`: `visited` with `UNVISITED`, `worklist`, `maxdepth`,
`candidate` and `candidate_done`, `resolved`, `progress`, and `exc_depth` for the
depths written into the entries; `overflowed` is history. `phase` says where in the
function control is. The actions are its steps in order: `SeedExplicit` (with
`SeedExplicitFails`, the early return), the drain loop, one action per way through
its body (`FallOffEnd`, `DropStale`, `Visit`, `JumpFails`, and `LookupFails`, since
`stack_effect()` asks the interpreter and may fail for any instruction), then a round
of AUTO resolution: `ResolveCandidate` or `RejectEntry` per entry, `SeedGroup` when
every entry of a handler has its candidate, `RoundDone`, and the drain again, until
nothing is pending. The C++ iterates `handler_groups`, an unordered map: `SeedGroup`
picks any ready group. Arithmetic on `int` is modelled by `Wrap`, between
`-INT_MAX - 1` and a small `INT_MAX`. An AUTO entry whose region is empty gets the
depth `INT_MAX`, and the seed of its handler wraps; where no entry of the handler
protects anything (`NoRegion`) that does not count as an overflow, so that the
properties hold of it too. Indexing `normally_reachable[n]` one past the end is a read
of memory the vector does not own: `ReadsReachable` and `ReadsVisited` are both
Booleans there.

### StackExec

Adds a frame that runs the program after `compute_stacksize()` has returned:
`Execute` takes any edge the interpreter may take, `Raise` unwinds to the handler
of a protecting entry at the depth in the table, pushing the lasti word
when asked. A stack deeper than `co_stacksize` would be a write past the
frame.

### Relaxation

A slot has a kind (`INT`, `ABS`, `FWD`, `BWD`), a number of `CACHE` words and
an argument or a target. Offsets are counted in words, as in the code since
3.10. `Assign` is a step of the offset pass, `Grow` one of the growing pass,
which decides with the offsets of the pass before, `Emit` one of the emit loop, which
cuts the argument to the bytes that `ext` has room for. `Base` is 256 in the
code and 3 in the runs, so that chains of two and three prefixes happen within
reach. An unsigned difference that wraps is modelled modulo `ArgModulus`.

### Disassembly and RoundTrip

A code object is its words and its exception entries. `SkipCache`, `FoldPrefix`
and `DecodeInstr` are the three ways through the body of the decoding loop;
`LabelJump` and `KeepArg` those through the loop over jumps; `LabelEntry` an
entry of the exception table, `Attach` the loop that attaches boundary labels.
`RoundTrip` continues with `ToCode`, which builds the slots, and then with the
actions of `Relaxation` (an `INSTANCE` that shares the variables), or with
`ToCodeFails`, since `compute_stacksize()` may raise whatever the code. Arguments that
are indices into a table are plain integers here. `WellFormed` is what is taken
for granted of code that a compiler made, and no more is: a chain of prefixes has
at most three, does not begin with 0 and ends with an instruction; each
instruction has the `CACHE` words it is due; jumps and protected regions begin and
end where instructions begin, or at the end; the code is small enough for offsets
not to wrap.

### Interning and Editing

`Editing` is the promise: a program is a sequence of items, each naming a
variable or a constant; it may be edited at any time; a built code object means
the program at the time of the call. `Interning` is how the code keeps it, with
tables and indices, and `ImplementsEditing` checks that it does, under the
mapping `Denotes` that reads a code object as the interpreter does. `DecodeArg`
resolves one argument in `from_code()`; `AddInstr`, `RemoveInstr`, `AddConst`,
`AddVarname`, `AddName` and the setters of the five tables (`AssignConsts`,
`AssignNames`, `AssignVarnames`, `AssignCellvars`, `AssignFreevars`) are the caller's
edits; a setter is given the same entries in the reverse order, while no instruction
holds an index into them. The index
that `add_varname()` or `encode_name_arg()` hands back is used as a raw
argument, as their documentation says; the one of `add_const()` cannot be used at
all (see below). Some opcodes pack a flag beside the index (`LOAD_GLOBAL` from 3.11,
`LOAD_ATTR` from 3.12): their kind is `GLOBAL`, `EncodeName` writes either flag and
`Reads` takes it off again. `InternLocal`, `InternFree` and `InternNothing` are the cases
of the first sweep of `to_code()`, `IndexConst`, `IndexVariable` and `KeepIndex`
those of the second; `ToCodeFails` stands for the early returns after the
sweeps, which leave the tables extended. Whether variables live in one array
(3.11 and later) is a field of the code object, so that one run checks both.
Strings are names, constants have an identity, a type, a value under `==`, and a
meaning that a program can tell. `source` and `edited` are history variables.

### Bindings

`Interning` looks at arguments; `Bindings` at the objects they are given in. Lists,
instructions and entries have identities (`lists`, `body`, `instr`, `entry`, `table`):
the setters keep the list they are given, a list may have two owners, and an `Instr`
or an `ExcEntry` may lie in two `Bytecode`s or twice in one. `Change` is every way a
program may edit them, in place or through a setter, items of a wrong type included:
`SetOp` and `SetArg` are apart, so that op and arg need not fit; `SetLabel`, `SetDepth`
and `SetLasti` are those of an entry, `SetExcEntries`, `SetInstrs` and `SetEndLabels`
those of a `Bytecode`. What goes into a list is not looked at before `to_code()`.
`ToCode` fills the C++ `Bytecode` (`cpp`) in the order of the code: instructions, end
labels, entries, then assembles; `RefuseInstr`, `RefuseEndLabel` and `RefuseEntry` are
the early returns, each with what it leaves in `cpp`, and `Assembles` says when the
assembling itself raises: an internal opcode, a label without a place, a reached jump
to a raw integer, or a depth to be inferred where ordinary control flow does not get.
A region that starts one past the end is looked up out of range, and both outcomes are
possible (`lucky`); `ToCodeRepeats` leaves it aside (`ReadsPastEnd`). A C `long` is cut
to a C `int` by `ToInt`, in arguments and in depths. `BuildsWhatIsShown` is again the
promise of `Editing`, here for what Python can see: the items, and the places
`label_positions()` reports. That `Bytecode::from_code()` numbers its labels from 0 up
to its counter is assumed here (`DecodedAssumption`); `Disassembly` is where it does so.

### Assembler

The blocks of a source read from one iterator over its lines, so the `Assembly`
objects in progress are a stack (`nesting`, of places in `blocks`). There is one action per kind of line
(`ParseLabel`, `ParseTryBegin`, `ParseTryEnd`, `ParseInstruction`, `CodeBegin`,
`CodeEnd`) and one for the end of the source; each either extends the innermost
block or raises. `Bind` is `bind()` and `compile()`, which call each other for
nested blocks (`Compile`, a recursive function over `blocks`: a block is always
before those in it), down to the labels that `_materialise()` attaches. A nested block
is assembled on the way, and `to_code()` raises there if a region can only be reached
by unwinding (`Refused`), or perhaps if it is at the very end of the block, where the
look-up is out of range (`lucky`); the outermost block is not assembled by `bind()`. A
line is what the regular expressions find in it. The properties say the same of
the source as a whole, without a stack: which lines belong to which block,
whether all of them follow the grammar, and where labels and regions should be.

### WheelBuild

The files of the wheel directory by name, and the wheel in memory. `BuildInner`
is the other backend, `Rework` all that happens in memory (compile the selected
sources, set the tag, make `RECORD`) up to the opening of the temporary file, then
`WriteMember` for each member, `Unlink`, `Replace`, `ReturnWheel`; `Fail` is a source
that does not compile. `Crash` ends the build at any point and leaves the
directory as it is; `EditSource` is someone at work on the project at any moment.
A file that is being written holds the members written so far. Digests
in `RECORD` are the data they are of.

### The tables

`LocationTable`, `LineTable` and `ExceptionTable` have no state: they say how one
entry is written and read, varints included, as operators and recursive
functions. `Tables` is the loops: `EncodeLocation` one turn of
`encode_linetable()` (a run of words that share a location), `EncodeRange` one
breakpoint of `encode_lnotab()`, `EncodeEntry` one turn of
`encode_exctable()`; then `DecodeLocation`, `DecodeRange` with `ForwardFill`, and
`DecodeEntry` for the way back. `words` is `real_slots`: each instruction's
prefixes, the instruction, its `CACHE` words. Which table format the interpreter
has is a field of the job, as the choice is an `#if` of the code. The words the
decoders recover from the raw bytecode (`is_logical`, `index_at`) are those of
`words`; how the raw bytecode is scanned is `Disassembly`'s part. Offsets of
exception entries are in words; the labels have been resolved before.

The interpreter does not read these tables as the decoders do: it skips from
marker bit to marker bit, adds up the line deltas, and stops its search of the
exception table at the first entry that starts behind the word (in tables of at most
`MAX_LINEAR_SEARCH` bytes; longer ones are bisected first, which is not modelled, and
`HandlerFound` is of the short ones). Those readings
are operators here (external in the map), and `InterpreterAgrees` and
`HandlerFound` compare them with what the encoder was given.

### Inliner

A behaviour takes a caller and its callees, does the loop of `inline()`
(`KeepInstr` for an instruction that stays, `SpliceCall` for a call site that is
replaced), starts over with the result (`Again`, for a caller that is inlined
twice) or stops (`Compare`), and then runs the caller as it was and as it has
become, from the same arguments, and compares the outcomes. `_splice()` is a
function of the call site (`Splice`), since it changes nothing but what it
returns. The interpreter knows locals that may be unbound, globals per module,
calls of the callees, from the caller or from each other, conditional jumps and
exception entries of the caller; a run of more than `MaxSteps` instructions is
given up. Names and labels are pairs of an owner and a string: the owner is the
splice that made them, counted anew in each application for a name, as the code
does, and over all of them for a label, since each application makes new
objects. `PRECALL` and `CALL`, and a callable and its `NULL`, are one each.

## Runs

Every passing run is exhaustive for its constants. Deadlock is checked in all of
them but `assembler`, where a source that has been refused is the end; the other
specifications go on for ever or stutter explicitly once the function has
returned.

| Run | Question | Bounds | States |
| --- | --- | --- | --- |
| `stack_exec` | enough stack for every execution, and no more than enough? do inferred depths fit what ordinary control flow reaches of their regions, do entries that share a handler agree, and does it always return? | 3 instructions with unconditional jumps and `FOR_ITER`, no handlers; 3 that push, jump and return, and 1 entry; 3 with conditional jumps, and 1 AUTO entry; 2 instructions and 2 entries; 3 and 2 entries that share a handler or its instruction; 2 instructions and 1 entry of any labels, empty regions included | 1.5M |
| `relax` | right layout, least layout, and does it end? | 4 slots that point the right way; 3 slots that point anywhere | 1.1M |
| `rt` | is the round trip faithful? | 3 instructions with 0-2 prefixes and 0-2 `CACHE` words; the same with 1 entry | 521k |
| `interning` | do instructions keep their meaning through edits, calls and failures? | 4 functions, one of them empty, 2 edits, 2 calls | 556k |
| `tables` | are locations and exception entries kept, as far as the table can hold or does hold them, and does the interpreter find them? | 2 instructions with any 2 of 97 locations; 3 with any of 6 locations and 1 to 18 words; 3 on any of 7 lines (3.10); 2 exception entries over 7 words | 403k |
| `inline` | does the caller return what it did, inlined once and twice? | 10 callers; all balanced callees of 4 instructions out of 13 (1 parameter) or 9 (2 parameters); 4 callers by 4 callees that call one of 3 instructions out of 6 | 2.8M |
| `bindings` | does `to_code()` return what the objects say? | 2 `Bytecode`s, 2 edits, any number of calls; 2 instructions, 2 ids and 2 entries, depths 0 and 7 | 1.2M |
| `assembler` | are sources accepted rightly and turned into what they say? | every source of up to 6 of 10 lines; those of up to 9 that are one block of up to 6 lines, and a reference to it | 758k |
| `wheel` | does every crash leave a whole wheel, and does a build get through? | 4 wheels of 5 or 6 members, 3 edits, 2 crashes | 21k |

The bounds are small because the hazards are local: two instructions make a
loop, three a loop with an entry in the middle and a way round it, four slots
are needed for one jump to push another over a byte boundary across a third. A
base of 3 makes one-byte, two-byte and three-byte arguments differ after 3 and 9
words. `INT_MAX` is 4 or 6 in the stack runs, so that a positive loop reaches
the top and wraps. The closure of `interning` has one variable of each way a
name can lie in the tables (a local, a cell that is an argument, a cell of its
own, a free variable), on both layouts; two edits are enough for a new local to
shift an index another edit has relied on, two calls for the second to start
from what a failed first one left. The locations of `tables` lie on both sides
of every bound of every form of an entry (columns 80 and 128, a width of 16
columns, line deltas of 0 and 2); 18 words are two full entries and a rest;
spans of 5 bytes and deltas of 3 stand for 255 and 127, so that chains of three
pairs happen; 4 stands for the 64 values of a group of an exception varint.
Moduli of 4096 are reached only by the negative differences that wrap. A callee
of four instructions can test its parameter, reassign it on one way only and
read it again; the callers call it once, twice, in a loop, with a value below it
on the stack, from a `try`, and with a jump into the argument; two callees are
enough for a splice to be taken apart by a second application. Two `Bytecode`s
and two edits share a list or an instruction and change it; the calls are
unbounded, so that a failed one comes before and after every other. `INT_MAX` is
3 and `LONG_MAX` 8 there, so that 4 is cut and 9 refused, and a depth of 7 is cut to
`EXC_DEPTH_AUTO`. Six lines hold a code block in a code block with a label or a region
around, in or after them; a nested block with a region that only unwinding reaches, and
what comes to be assembled in it, take nine (`OneBlock`).

Runs that are expected to fail show where the code disagrees with what its
documentation says of it (`findings` in `PROJECT.json`):

| Run | What it shows |
| --- | --- |
| `stack_stale_candidate` | a candidate is not revised when a handler later enters the region lower |
| `interning_zeros` | an untouched function with the constants `0.0` and `-0.0` comes back with one of them |
| `inline_changes` | a callee of another module reads the caller's globals once it is inlined; a callee's local keeps its value from the last iteration; and, applied twice, two splices may share a local |

Other divergences were seen while modelling and have no run of their own:

* Whether a prefix begins a chain is read off `extended_arg == 0`
  (`bytecode.cpp:219`), so that a leading `EXTENDED_ARG 0` is not counted as
  part of its chain, and a jump to it cannot be assembled again. The chains of
  `rt` do not begin with 0.
* An AUTO entry nested in another handler is refused at once
  (`stackdepth.cpp:346`), although the comment at `stackdepth.cpp:95-99` says
  such seeds are resolved lazily. An AUTO entry over an empty region gets the
  depth `INT_MAX` (`stackdepth.cpp:273`), where
  `README.md:581-584` says that `to_code()` raises instead of guessing.
* A location with a line and no columns is written as NO_COLUMNS
  (`linetable.cpp:408-413`), so an `end_lineno` other than its line, and an `end_col`, are
  lost: a LONG entry could hold both, and `decode_linetable()` would read them
  (`linetable.cpp:294-305`). A location without a line loses everything. `README.md:378-380`
  calls the round trip lossless. `LocationsKept` says that what `Loses` names is all
  that is lost.
* `bind()` assembles the nested blocks, so it raises over their regions that only
  unwinding reaches, while the same region in the outermost block waits for the
  caller's `to_code()`. `BindsWhatIsGiven` says which blocks are meant.
* Exception entries are written in the order of the list. The interpreter
  expects them sorted by start, so an entry appended as in `README.md:575` is
  not found where the function already has entries that start later.
  `HandlerFound` is therefore stated for sorted entries.
* The callee's locals are the caller's once inlined and keep their values from
  one iteration to the next, so a read that raised in a fresh frame may succeed;
  and an unbound argument that is propagated and never read no longer raises.
  `SameReturnUnlessRaised` leaves callers aside in which something raised.
* The headers say that an inferred depth is the one at the region's start, the
  code takes the least of the region. A comment of `from_code()` says that
  exception boundaries reuse the labels of jumps, but their label map starts
  empty, so a place may carry two.
* Applied twice, `inline()` is wrong where a callee that was spliced calls a
  function with a reassigned local of the same name: both become
  `__inline_0_<x>` (`inliner.py:243`). The programs `Namesakes` of
  `inline_changes` show it; in `inline` no two callees share the name of a
  local.
* `add_const()` hands back an index (`README.md:455-456`), but an integer given
  to an instruction that takes a constant is that constant
  (`module.cpp:386-389`), so the index serves nothing; and `add_const(True)`
  hands back that of `1` (`module.cpp:972`). A string given to an instruction
  that takes a name, other than through `encode_name_arg()`, is written as 0.
* The setters of labels keep the list itself, although the comment on
  `check_labels_list()` (`module.cpp:103`) speaks of a copy; items appended to
  it later are not checked by `to_code()` when the list is an instruction's, and
  are when it is `end_labels`; `label_positions()` does not check what an item
  of `instrs` is (`module.cpp:881`), where `to_code()` raises.
* `Bytecode(instrs)` begins its ids at 0 whatever labels the instructions carry
  (`bytecode.h:79`), so the ids of its `new_label()` clash with theirs.
  `NextLabelIsFresh` is about the labels that a `Bytecode` issued itself.
* Integers wider than a C `int` are cut without an error, in arguments
  (`module.cpp:406`) as in opcodes, where `Instr(2**32 + 100)` is `Instr(100)`
  (`module.cpp:143`), and in line numbers.
* A code block of an assembly source is compiled only if the block around it
  refers to some code block, and a reference to a code block that is not there
  passes `parse()` and raises in `bind()`, a `KeyError`. Errors of a nested
  block's header or `end` are not given the line that the others report.
* `x.py` and `x.pya` in one package both become `x.pyc` in the wheel
  (`buildbackend.py:137-147`); a wheel with native code is retagged `none-any`
  as well. After a source that does not compile, the other backend's wheel of
  plain sources stays in the directory; after a crash between `Unlink` and
  `Replace`, the only whole wheel has the temporary name. `NothingIsLost` and
  `WheelsAreWhole` say what holds nevertheless; no two members of a wheel here
  have the same name, before or after compilation.
* Entries share their handler by its label, not by its instruction
  (`stackdepth.cpp:320-324`): with two labels at one handler instruction the two
  entries are two groups, each gets a depth of its own, and the handler is
  explored with the greater one. `SharedHandlerAgrees` is about labels, which is
  what the proof showed to hold; `OneInstructionAgreesHolds` says when the
  stronger form does.

## Fairness

Weak fairness in `stack_exec`, `relax` and `wheel` only. `relax` has it of the
next-state relation and `stack_exec` of the steps of `compute_stacksize()`
(`Assembling`): the modelled functions are sequential code that runs until it
returns, so control never rests between two statements. The frame of `StackExec` is
never assumed to make progress. `wheel` has it of the steps of `build_wheel()`, its
call included, since `BuiltInTheEnd` is about someone who builds again after a
failure; nothing is assumed of crashes, which are finitely many, and of edits.

## Proofs

All of these hold for every program and every value of the constants that
satisfies the named assumptions (`...Assumption` in each module), checked by
tlapm with SMT, Zenon and LS4.

* `StackDepth_proofs`: `TypeCorrect`; `NoPathLost` (the inductive invariant:
  whatever an explored instruction can reach in one step has at least its depth
  recorded or is still on the worklist; `WorklistCovers` alone is inductive only
  together with the fact that seeds stay covered once seeded);
  `LeastStackSize`, which adds an upper bound: every recorded depth and every
  item of the worklist is below any solution of the program's inequalities;
  `UnreachableErrorIsDead`. Of the inferred depths, `SharedHandlerAgreesHolds` and
  `AutoDepthFitsReachedHolds`: the invariant (`AutoInv`) says that a group is
  resolved as a whole and at its least candidate. The attempt to prove the first for
  handler instructions failed for the good reason given above (two labels at one
  instruction). The second adds to it that a candidate is at most what is recorded at every
  instruction of the region that ordinary control flow reaches (`CandidatesFit`):
  the worklist is empty when candidates are taken (`RoundInv`), so all of those are
  explored (`ReachableVisited`, from `NoPathLost`) and among the depths the
  candidate is the least of. `TooHighNeedsUnwoundCode` follows: the finding of
  `stack_stale_candidate` needs a region with code that unwinding alone reaches.
  Of `StackExec`, `StackIsEnough`: the frame's depth is at most the depth recorded
  at its instruction, by `NoPathLost` with an empty worklist.
* `Relaxation_proofs`: `TypeCorrect`; `EmittedArgsAreRight`, from the fact that a
  pass that changes nothing has decided with the final offsets, not stale ones;
  `RelaxationIsLeast`, from the invariant that `ext` is below every
  consistent layout, hence so are all offsets computed from it, stale or not.
* `RoundTrip_proofs`: all that the run `rt` checks, for every well-formed code
  object of any length: `TypeOKHolds`, `NeverUnresolvedHolds`,
  `SameRegionsHolds`, `SameBehaviourHolds`, `NeverWiderHolds`. The invariant of
  `from_code()` (`DecodeInv`) says of each instruction found so far which op word it
  is, where its prefixes start and what they fold to (`Parsed`, `Pending`,
  `ArgRight`), that each op word is found once and in order, that the two label
  maps are injective, disjoint and defined on starts of instructions
  (`LabelMaps`), and that a label is attached where its offset is
  (`LabelsRight`). From it follows that the slots `ToCode` builds are a program of
  `Relaxation` (`SlotsAre`). `Asm` is then an instance of `Relaxation_proofs` for
  all programs and all layouts, whose lemmas give the invariant of the second
  half (`AsmInv`): jumps are well directed because the original offsets are
  increasing, and the original code is itself one of the layouts that
  `RelaxationIsLeast` compares with (`OldIsLayout`), which is `NeverWider`.
* `Interning_proofs`: `TypeOKHolds`, `EveryNameIsFoundHolds`, `ClosureKeptHolds`,
  `RebuildsTheSameHolds` and the refinement `ImplementsEditingHolds`, with `BuiltAsMeantHolds`.
  `ClosureKeptHolds` has that only the setters of `cellvars` and `freevars` move a cell or
  a free variable, whatever they have been set to before. The
  invariant (`IInv`) relates each instruction to the history of what the user
  asked for (`Meanings`: `source[k]` is what the instruction says under the
  tables of the moment, a raw index included, which an edit of the tables must not
  shift), and says how far the first sweep has come (`Interned`); `Coded` adds
  that what the second sweep has written so far reads back as meant. The
  refinement has one hypothesis, `MatchesMean`: constants that `find_or_add()`
  takes for each other mean the same. It fails for `0.0` and `-0.0`; the run
  `interning_zeros` shows what happens then.

  `RebuildsTheSameHolds` goes by another invariant (`RebuildInv`): what the second
  sweep has written so far is what each instruction would be given now
  (`Indexed`: constants behind a match never change the first match), and while
  nothing is edited, the code object built last is what the sweeps would make of
  the tables, and they would add nothing to them (`Current`). To begin with that
  takes code objects as a compiler makes them (`Ordinary`): no two constants that
  match each other, no name twice in a frame, and `co_nlocals` the number of
  arguments and locals; the functions of the run are such. With two constants that
  match (`0.0` and `-0.0` again) the second would come back as the first. The types,
  names and closures need no hypothesis.
* `Bindings_proofs`: `NextLabelIsFreshHolds`, `ToCodeRepeatsHolds` and the
  refinement `BuildsWhatIsShownHolds`. The invariant is the types of the heap of
  shared objects (every label in it has been issued by the `Bytecode` that it
  names; a depth is a C `int`) and `Remembered`: the outcome recorded for a `Bytecode` is the one that a
  call would have now, as long as nothing it shows has changed, so that what a
  failed call leaves in the C++ object does not matter.
* `Tables_proofs`, exception table: `EntriesKeptHolds` and `HandlerFoundHolds`, for
  any number of entries, every depth and groups of any size. The first half is
  about the operators: the groups of a varint add up to the value (`GroupsFold`), the loop of
  `read_varint()` stops at the last of them and has that value (`ReadBigIs`),
  sizes wrap around as `unsigned int` does (`Around`), so what `WriteEntry` writes
  reads back as the entry wherever it lies in a table (`EntryIs`). `Laid` says
  where each entry of a table starts; those places are the marked bytes, and no
  others (`MarksAre`), which is all the interpreter's search goes by (`FoundIs`).
  The invariant (`EntriesInv`) is then short: at each stage how many entries are
  laid, that the decoder stands where one of them starts, and that it has read
  those before it.
* `Tables_proofs`, location and line tables:
  `LocationsKeptHolds` and `TypeCorrect`, for any instructions, prefixes, `CACHE`
  words and locations, in both formats: a location comes back, or what `Loses` leaves of
  it. Its first section is about one entry:
  a varint with its low group first reads back as its value wherever it lies
  (`ReadVarintIs`), differences wrap around as `unsigned int` does, so that an
  entry in any of the five forms reads back as its location, running line and
  length (`WriteLocationIs`); and the pairs of a range cover its bytes and climb
  to its line, whatever chunks either is cut in (`WriteRangeIs`). The rest
  lays them one behind another (`Located`, `Ranged`) over the words that the
  instructions were repeated for (`WordsFor`). The invariant (`LocationsInv`)
  says how far the encoder has come, that the decoder stands at the start of an
  entry with the running line the encoder had there, and that the instructions
  of the words behind it have their location. In the old format a pair may name
  a line that is not the one of its word, when a delta takes several pairs;
  the next pair is then about the same word (`Tells`), so the last that names an
  instruction is right, and an instruction that no pair names starts no range and
  is given the line of the one before (`FilledFrom`).

  `InterpreterAgreesHolds` is about the readings of the interpreter. In the new
  format the only byte of an entry that bears the marker is its first (`OneMark`),
  so the marked bytes of a table are where its entries start (`EntryMarks`), and
  the deltas they carry add up to the running line (`EntrySteps`). The interpreter
  adds over all bytes, those of other entries' insides included: a sum that steps
  only where entries start is, up to any entry, that of the entries before it
  (`StepsSum`). In the old format the sum is over pairs, and a line can only change
  at the first word of a pair's span (`RangeLineIs`).

  The assumption is that lines and columns are below `Limit`, a quarter of the
  `unsigned int`s (2^30): `write_signed_varint()` puts the sign next to the value
  (`linetable.cpp:367-369`), so a line delta of 2^30 or more comes back as another.
  TLC has `Limit` 1024.
* `Assembler_proofs`: all that the run `assembler` checks, for every source of any
  length, any nesting and any arguments: `AcceptsTheGrammarHolds`,
  `BindsWhatIsGivenHolds`, `CodeIsTheSourceHolds`. The properties speak of the
  lines of a source (which block a line is in is a maximum over all lines before
  it), the parser of a stack, so the inductive invariant (`ParserInv`) is the
  bridge: there is a function `h` from `blocks` to the lines of their headers such
  that the stack is the blocks still open (`Homes`, `Nested`), and each `Assembly`
  mirrors the lines that are its own (`BlockIs`): the n-th label, instruction and
  region are those of its n-th such line (`Mirrored`, where `Rank` counts the lines
  before one), `ref_labels` are the names used and not yet defined, and `codes` are
  the blocks whose headers it owns. None of the properties is inductive: that a
  source is not yet hopeless says nothing of what its blocks hold. While a source
  is read, hopelessness is about all its blocks, those closed long ago included;
  they are valid since their `end`, and a new line changes only the innermost one
  that is open (`OwnerOfNext`, `OwnNext`).

  `bind()` is a recursive function and so is the property's `CodeOf`. Both are
  shown to exist by going up from block to block (`CompileUnfolds`,
  `CodeOfUnfolds`); after that only their defining equations are used, and that a
  block is before those in it. What
  ordinary control flow reaches is a least fixpoint on both sides, over the instructions of
  a block and over its lines (`Walked`); they agree because each instruction is its line.
  `BindsAt` takes the least block that went wrong,
  `FoundIs` the least one whose code object is not the one that was compiled for it.
* `Spasm_proofs`, the inliner: `NoLabelLostHolds`, for callers and callees of any
  length, any number of call sites and of applications. `NoLabelLost` is about the
  result, so the invariant (`Splicing`) is about the work: each label that a jump
  or a region refers to, in what is done or is still to come, is in exactly one of
  four places, an instruction that is done, one to come, the labels that wait, or
  the end (`Placed`); and every label in use belongs to a splice that has begun, so
  those of the next are new (`OldNames`). Both steps of the loop are one kind of
  move (`MoveKeeps`): some instructions go, a sequence takes their place and gets
  their labels and those that wait. What that needs to know of a splice
  (`IsSplice`) is shown of `_splice()` from the inside out: an instruction becomes
  instructions without labels (`SplicedBecomes`), a label that `RESUME` carried is
  with the first instruction after it and with no other (`LabelGoes`), and of a
  flattened sequence of sequences, where a label is once if it is once in one of
  them (`FlattenLabels`). The assumptions (`ProgramAssumption`,
  `LabelAssumption`) are what `from_code()` hands out: labels of the code's own, each
  attached once, indices of fused accesses that are in `varnames`, and a callee
  that ends with an instruction other than `RESUME`.
* `Spasm_proofs`, the build backend: `WheelsAreWholeHolds`, `ReturnsTheWheelHolds`,
  `NothingIsLostHolds`, for wheels of any members and any number of edits and
  crashes. The invariant says of each file name whose wheel it can hold, at each
  point of a build how much of the temporary file is written, and that some file
  holds everything once the other backend has returned. Half of the proof is
  about `Reworked`: compiling, retagging and `RECORD` commute with a `find` by
  name as long as names differ (`WheelBuildAssumption`).

Only model-checked, and why:

* that the functions return and that a build succeeds (`Termination`,
  `BuiltInTheEnd`): liveness;
* that an inlined caller returns what it did (`SameReturnUnlessRaised`): it is not
  true of every instance. An inlined run may take more steps, a fused access being
  two, and be given up at `MaxSteps` where the original just ends; and `inline()` is
  wrong where `inline_changes` shows it. The run `inline` is an instance where it is
  to hold;
* `TypeOK` of `Inliner`, whose frames stay within their code and whose calls do not
  nest without end because of the callees that the run has.

`AutoDepthFitsRegion` is false in general (`stack_stale_candidate`); what holds of
it is `AutoDepthFitsReached`, checked and proved.

## Not modelled

* Of the bindings: reference counts, failures of the allocator, locations and
  scalar metadata (copied field by field), the names of opcodes, `__repr__`. In `Bindings`
  a depth to be inferred stays `EXC_DEPTH_AUTO` (`StackDepth` infers it), every integer is
  a constant that can be one, names are `Interning`'s, and the `POP_TOP` behind a generator
  marker is no special case.
* The interpreter's bisection of exception tables of more than 40 bytes.
* Of the parser: the text of a line (its regular expressions, literals and their
  evaluation), `transform_instruction()` and `infer_flags()`, which choose opcodes
  and flags by version, and `dis()`, which prints. An argument is of the kind its opcode
  takes. Of the ways `to_code()` of a nested block may fail, only the refusal of a region is
  modelled: not values that cannot be encoded, opcodes without an effect, memory; and the
  `POP_TOP` behind a generator marker is an instruction like others there (`StackDepth` has
  it as it is).
* The decorators, the command line and `_pyc.py`: wrappers that read a docstring or
  a file, call the assembler and write the result.
* The hooks of the build backend other than `build_wheel()`, which call the other
  backend and return what it returns.
* The opcode tables (`setup.py`, `compat.h`), generated from the running
  interpreter: constants here.
* The versions of the code for interpreters before 3.10, which do not exist. The
  `#if` branches of 3.10 are covered by the kind `ABS` (absolute jumps), the layout
  of variables and the table format.

## Plan

1. (done) `StackDepth`, `StackExec`, `Relaxation`, with proofs; `Disassembly`,
   `RoundTrip`; `Interning` with `Editing` above it; the tables; `Inliner`;
   `Bindings`; `Assembler`; `WheelBuild`.
2. (done) Proofs about `WheelBuild`, `Bindings`, `Interning`, inferred depths,
   the round trip, the exception table, the location table and the line table, as the
   decoders read them and as the interpreter does, the assembler, and the labels
   of the inliner.
3. The simulation of a caller by its inlined self, for balanced callees of its own
   module, without a bound on the steps of a run.
