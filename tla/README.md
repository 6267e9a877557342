# NailHammer in TLA+

A verification development of NailHammer: TLA+ modules of its parts, TLC
configurations that check them on small instances, and TLAPS proofs of what
matters most for every instance. Paths are relative to the repository; nothing
here replaces its tests.

NailHammer is a grammar toolkit with a virtual machine. A `.nh` grammar is
loaded with its imports, its operator table resolved, analysed, lowered to a
pest grammar and turned into Rust: typed nodes, a dispatcher, stubs of
handlers. At run time `nh-runtime` folds operators, evaluates and collects
diagnostics. A language may instead compile to the bytecode of `nh-vm`, whose
machines share globals between threads, suspend, and are driven by a host.

## 1. Inventory

| component | state | operations | talks to |
|---|---|---|---|
| shared store `nh-vm/store.rs` | per slot: an atomic word `tag`, a value `heavy` behind a read-write lock | `new`, `load`, `store` | every machine, on any thread |
| values `nh-vm/value.rs` | none (arrays and objects: one lock each) | truth, numbers, equality, display | the machine's instructions |
| machine `nh-vm/machine.rs` | `pc`, frames of registers, `awaiting`, `output` | `new`, `entering`, `resume`, `resume_with`, `snapshot`, `restore`; one step per instruction | store, extensions, its driver |
| host `examples/vm-host` | tasks with output, question, snapshot | `load`, `run`, `slice` | machines, a resolver |
| emitter `nh-vm/emit.rs` | next and highest register, locals, slots, functions, code | `alloc`, `free`, `reuse`, `read_var`, `store_var`, `begin_fn`, `end_fn`, `patch_to_here`, `finish` | generated operator code, handlers |
| bytecode format `nh-vm/wire.rs` | a cursor | `to_bytes`, `from_bytes` | host |
| import loader `nh-syntax/import.rs` | `seen`, `stack`, `files`, diagnostics | `resolve`, `load`, `merge` | file system, parser |
| parser and AST `nh-syntax` | none | parse, render | loader |
| operator table `nh-operators` | tiers | presets, override blocks, insert, remove, validation | lowering, code generation |
| analysis `nh-analysis` | visiting sets | nullable, leading references, lints | build, command line |
| lowering `nh-lower` | allocated names, containment sets | lower, recovery stops, node counts, cardinalities | pest, code generation |
| code generation `nh-codegen` | text | views, builders, dispatch, stubs, operators for the VM, drift | build |
| runtime `nh-runtime` | the span stack and diagnostics of a `Ctx` | fold operators, enter and leave, report, signal | generated code, handlers |
| build `nh-build`, `nh-cli` | the files on disk | regenerate, keep handlers, migrate, prune, watch | cargo, file system |
| BASIC interpreter `examples/basic-interp` | variables, SUBs, functions, call frames, a jump's payload | its handlers, `eval_source` | runtime, generated dispatch |
| Pebble interpreter `examples/pebble` | globals, locals, functions, what is shown, `reported_before` | its handlers, `eval_source` for one source after another | runtime, generated views, builders, dispatch |
| twins `examples/vm-c`, `examples/vm-basic` | an emitter | views, builders, dispatch, handlers; `compile`, `run` | emitter, machine, store |
| command line, scaffolding, editors, other examples | - | argument parsing, templates | file system |

What is hard, component by component:

* **Store.** Threads meet between the two writes of a store, between the tag a
  reader sees and the lock it then takes; a number may be the NaN whose bits
  are the sentinel; a thread may stop with a guard in hand.
* **Machine.** A suspension in the middle of an expression, several calls deep;
  an extension that writes, asks, tells, fails or panics; recursion to the
  limit; a machine that starts inside a function; a failure half way through an
  instruction; globals others change between any two instructions.
* **Host.** The machine of a task is thrown away at every suspension and built
  again; tasks finish, fail and loop at different times; native code panics.
* **Emitter, twins.** The register discipline is a convention between the
  allocator and all generated and hand-written code: what is a temporary, what
  belongs to a variable, which values lie side by side. Two grammars with no
  line in common must come to one program.
* **Imports and build.** Diamonds, cycles and broken files; a build that fails
  between two writes; an author who edits meanwhile; which edits make cargo run
  the build again; handlers that are made once and then belong to somebody.
* **Analysis, lowering.** Fixed points, worklists and orders whose result is
  easy to state and easy to get wrong, and shows only in the parser pest makes.
* **Interpreters.** Errors, signals and returns leave from any depth; what was
  entered must be left, what rides beside a signal must be taken once, what is
  reported must come out once.

What makes each correct: loads and stores are atomic and independent of each
other's slots; an instruction touches the registers it names and no others; an
answer reaches the register that asked; a task cannot tell it was ever
suspended; tasks rotate fairly, and the host outlives their failures; compiled
code satisfies what the machine relies on and prints what the program means;
every grammar file is merged once, after what it imports; a build that succeeds
leaves what follows from the files, and no build loses work; what a lint says
is so, the longest operator is read, damage stays in its statement, and parsing
ends; the folded tree is the one the precedences define; a program does what it
says, whichever way its parts end.

## 2. Plan

| | modules | abstract specification, composition | checked | proved |
|---|---|---|---|---|
| done | `SharedStore`, `HybridStore` | HybridStore implements SharedStore | `hybrid_store` | typing, exclusion, coherence, refinement |
| done | `Values`, `Machine` | Machine uses Values; its globals are SharedStore's cells | `machine` | typing, stack, registers, callers, answers, failures |
| done | `Host` | Host runs Machine; each task refines Machine | `host`, `host_survives` | typing, one place per task, rotation, return, refinement |
| done | `Emitter` | the registers of the code Machine runs, and what a run of it does | `emitter` | typing, operands, variables, frame size, arguments side by side |
| done | `Trees`, `Emission`, `VmC`, `VmBasic`, `Twins` | both compilers make a program that Machine runs; each discharges `WellFormed`, on which Machine's theorems rest | `twins`, `twins_nested` | - |
| done | `Imports`, `Build` | a build loads, then writes | `build`, `build_imports` | typing, the load of any graph of imports, work kept, a build that ends well is whole |
| done | `Folding`, `Basic` | the builder against the tree the precedences define; every expression of a run is folded by it | `basic` | what is entered is left, payloads, parameters, depth of calls, loop control; each expression is folded into the one tree its table defines |
| done | `Grammars`, `Analysis`, `Lowering`, `Parsing` | what is lowered is parsed by the machine pest documents | `parsing` | - |
| done | `Pebble`, `PebbleMeaning` | the interpreter against the meaning of the written program | `pebble` | - |
| 1 | operator table | presets and override blocks against the tiers they declare | all sequences of a few blocks | - |
| 2 | arrays, objects, the remaining instructions | references shared between machines | lock order of comparisons | - |
| 3 | bytecode format | decode of encode is the identity | lengths at the limit | - |

A module has its parameters as CONSTANTS with named assumptions and one action
per operation. `HybridStore`, `Machine`, `Emitter`, `Host`, `Basic`, `Imports` and
`Build`, with the modules they use, have no recursive operator, so that they can
be proved about; those of the parsers and of Pebble and the twins' front ends do,
and are model-checked only.

## 3. The modules and the code

### SharedStore, HybridStore

`SharedStore` is the trait's promise: a call on a slot takes effect in one step
between its beginning and its end. `HybridStore` is the code, one action per
access another thread can see:

| code (`store.rs`) | action |
|---|---|
| `load` is called | `BeginLoad` |
| `s.tag.load(Acquire)` | `LoadNumber` (fast path), `LoadSentinel` |
| `return Value::Num(from_bits)` | `ReturnFast` |
| `s.heavy.read()`, `.clone()`, guard dropped | `ReadLock`, `CloneHeavy`, `ReadUnlock` |
| `store` is called | `BeginStore` |
| `s.heavy.write()` | `WriteLock`; `WaitToWrite` when it blocks |
| `*g = value` | `SetHeavy` |
| `s.tag.store(.., Release)` | `SetTag` |
| guard dropped | `WriteUnlock` |

Numbers are a set with a bijection to words; one of them has the sentinel's
bits, as in the code, where the sentinel is itself a NaN. Accesses to one slot
are sequentially consistent, which Acquire, Release and the lock give per slot.
Orders between slots that weaker memory would allow are not modelled, so what
two slots say of each other is not claimed. A lock is never poisoned: nothing
between acquisition and release can panic.

`std::sync::RwLock` leaves its policy to the platform: while a writer queues, it
may or may not let new readers in, and it wakes writers in any order. The model
is that contract. `ReadLock` may happen whenever no writer is inside, so the
safety properties hold whichever the policy; but a reader that waits behind a
queued writer is owed nothing (`Behind`), one writer of a queue, nobody says
which, is let in (`GrantQueued`), and a queue with a stopped writer in it may
keep everybody out. `CallsComplete` therefore excuses a call by a thread that
stopped holding a guard of that very slot, or queueing to write it; without the
second excuse it is false.

The refinement mapping reads a slot as the threads can: the number in the tag
if it holds one, else the heavy value. A store therefore takes effect at its
tag store when it replaces a number, and at its heavy write otherwise. (The
comment in the code puts every store at its tag store; a reader that loaded the
sentinel earlier and then waited for the lock does see the new value, so the
mapping, not the comment, is the argument that the store is atomic.)

### Values, Machine

`Machine` is `resume` with one action per instruction (`Compute` for all that
compute from registers to a register), `resume_with` (`ResumeWith`) and the
stores of other machines (`OtherStores`). State is the code's: `pc`, `frames`
(`regs`, `ret_pc`, `ret_reg`, `fn_addr`), `awaiting`, `output`. `step` is what
`resume` last returned, `running` while it runs, `idle` while its driver may
call it. `handed` is the value of `Step::Awaiting`. An instruction that panics
natively ends in `panicked`, which no `Step` can say.

The program is a constant of each behaviour, any element of `Programs`, and
`WellFormed` is what is assumed of it: operands in the frame, jumps and
addresses in the code. `room` gives, for each address, the registers the frame
has there at the least. It is the compiler's knowledge; the machine does not
use it, and it is needed because jumps of a program do not say which function
they are in. That compiled programs are well formed is `CodeFits`, below.

A language's own instruction (`Op::Ext`) may do whatever `ExtCx` allows: write
the registers its operands name, print, go on, jump, suspend with or without a
register for the answer, halt, fail, panic (caught, hence a failure). Two uses
are excluded because comments in the code exclude them: `resume_into` not
followed by a suspension, and `resume` of a machine that awaits without
`resume_with`.

Numbers are multiples of one half, as fine as these instructions can tell;
NaN, infinities and i64's bounds are outside the model. Print records the value
and not its text.

### Host

`Host` holds `tasks`, and `INSTANCE Machine` for the machine of the slice.
`BeginSlice` is `run`'s check and `slice` up to `resume`: machine built,
snapshot taken and restored, question answered by any value. `RunMachine` is a
step of the machine; `EndSlice` is the rest of `slice`; `EndPass` the end of
`run`'s inner loop. `Crash` is a panic that leaves `run`. `toLoad` fixes which
programs will be loaded; `ran` and `final` are history, read by properties
only.

`EachTaskIsOneMachine` says of every task at once that its machines, snapshots
and questions, put together, are one behaviour of `Machine` over the shared
globals: a step of the host is, for each task, a step of its machine or nothing
it can see.

### Emitter

`Emitter` has the allocator's state (`next`, `high`, `slots`, `locals`,
`locals_end`, `in_fn`), the operands compiled and not yet consumed (`pending`),
and beside them one run of the code emitted so far: what it has put in the
registers (`holds`), what the variables ought to be (`variables`), whether a
jump or a `return` has taken it past the instruction being emitted (`open`,
`returned`). An action is a node of the tree whose operands are compiled: the
dispatcher compiles in post-order, so any sequence of actions that consumes what
earlier ones left is a program.

| code | action |
|---|---|
| `emit_const`; `read_var` | `Const`; `ReadGlobal`, `ReadLocal` |
| generated `neg`, ..; `add`, `compare`, ..; `comma` | `Unary`; `Binary`; `Comma` |
| generated `assign` of a name, `store_var` | `AssignLocal`, `AssignNew`, `AssignGlobal` |
| generated `assign` of an element | `AssignElement` |
| generated `and_then`, `or_else`, before and after the right operand | `OpenCircuit`, `CloseCircuit` |
| `elem`, `call`, `list` | `Index`, `Call`, `List` |
| `eval` and `print`, `ret`, `iff`, `ifelse` | `EndStatement`, `Return`, `BeginIf`, `Else`, `EndIf` |
| `define`: `begin_fn`, `end_fn` | `BeginFn`, `EndFn` |

An instruction's result is any value, so the properties are about where values
are and not about what they are.

The emitter is right about less than the language allows. `Liberties` names the
constructs it goes wrong on, each a guard of the actions concerned; the run and
the theorems take none, and a reader who puts one in the configuration sees TLC
find what it leads to:

| liberty | without it | example of what goes wrong with it |
|---|---|---|
| `variable_on_the_left` | the left operand of `&&` and `||` is no variable | `n && 1` writes 1 into `n` |
| `any_arguments` | two or more arguments or elements are temporaries, with nothing else pending | `f(1, n)` reads the register after that of 1 |
| `leak` | what leaves registers unfreed stands first in its statement (`,`, array literals, elements) | `[1, a[0]]` has a gap |
| `assign_anywhere` | a new variable is assigned with nothing else pending, another while no operand is its register | `1 + (x = 5)` adds 5 to 5 |
| `read_unset` | no variable is read before the run has assigned it | the variable reads as an old temporary |
| `nested_function` | functions are defined outside functions | the outer parameters become globals |

### Trees, Folding

`Trees` is what generated code reads a parse with (`nh-runtime/node.rs`): a pair
with its rule, tag and direct children; `TaggedAll` and its Option and single
forms; the error nodes of a tree. `Folding` is `ops.rs`: `Climb` is `parse` as a
function of the position and the least precedence, `ParseUnary` is `parse_unary`,
`Rounds` the loop over infix operators and `Extend` one round of it; `Fold` is the
builder's answer for a stream. Beside it `Declared` says, with no algorithm, which
trees the table of precedences, fixities and associativities allows for a stream.
Each function is stated once for all its arguments, the loop with as many rounds as
tokens could take, so that it can be proved about.

### Basic

The BASIC interpreter evaluates by recursion; here the activations of the
recursion are the frames of `stack`, each with its node's place, what it is
doing (`operands`, `body`, `pass`, `test`) and what it has so far, and `back` is
the `Result` the innermost has just been given. An action is what a handler does
between two evaluations:

| code | action |
|---|---|
| `eval_source`, `program::run` with its loop over GOTO | `Program`, `Jump`, `EndProgram` |
| generated `eval_expr` and its operators, primaries | `EvalOperand`, `TakeOperand`, `EvalOperator`, `Primary` |
| `let`, `print`, `exit`, `ret`, `goto`, `sub`, `function` | `Let`, `PrintLine`, `Exit`, `Return`, `Goto`, `DefineSub`, `DefineFunction` |
| a block's next line; `if` | `NextLine`, `If`, `EndIf` |
| `loop.rs`, `while.rs` | `For`, `ForPass`, `ForNext`, `ExitFor`; `While`, `WhilePass`, `ExitWhile` |
| `call.rs`, `call_fn.rs`, before and after the body | `Call`, `EndCall`, `CallFn`, `EndCallFn` |
| `?` in every handler: pop and pass on | `Propagate` |

`spans`, `depth`, `frames`, `ret`, `jump` are the fields of `Ctx` and `Interp`.

### Imports, Build

`Imports` is `Loader`: `loading` is its stack with how far each file's imports
are, `seen` and `files` its own. A step is one call of `load` or the return of
one (`Open`, `Finish`), or one that comes back at once (`CannotRead`, `Cycle`,
`Diamond`, `DoesNotParse`). `Merge` is `merge`. `Reached`, the least set that has
the entry file and whatever a file in it imports, `MergedOnceInOrder` and
`ProblemsOfGraph` say of the files alone what a load must come to.

`Build` adds the disk, the author and cargo:

| code | action |
|---|---|
| the build script (`nh-build`, `try_run`) or `nh build --rust` begins | `Begin` |
| `resolve`: a load; then what refuses the grammar, and the plan of writes | `Loading`; `Resolve` |
| a generated file is written; a handler is created if it is not there | `WriteGenerated`, `CreateStub` |
| the target is known | `CheckTarget` |
| `migrate_flat_handlers`: a stub in the way removed, a file moved | `RemoveReplaced`, `Migrate` |
| `sweep_generated`, `prune_orphans`, one file at a time | `RemoveOld` |
| drift, the exit code, what cargo is told to watch | `Report` |
| a crash, or a write that fails | `Break` |
| the author writes a grammar file; a handler | `Edit`; `Implement` |

What is generated is modelled by what it is made from. A step of a build says
what it writes or which alternative's handler it makes or moves, and `PathOf`
where that is. A build by cargo happens when cargo would run the script: never
run, failed, or a watched file changed.

### Grammars, Analysis, Lowering, Parsing

`Grammars` is the AST of a grammar, its expressions and `nullable`. `Analysis` is
the lints of `nh-analysis` and the directives that allow them; what is checked
of them is what they say of programs, hence left recursion, nullable repetition,
shadowed and unreachable alternatives. `Lowering` gives the
rules pest is handed: keyword boundaries and operators with their order
(`resolve.rs`), recovery with the stops of `follow.rs`, the count of an
alternative's nodes.

pest itself is no part of the repository. `Parsing` is the machine its
documentation describes, one step per expression entered or left, so that a
parse that never ends is a behaviour that never ends. A grammar that does not
lower, or that the lints refuse, is not parsed. `Written` and `Programs` are the
grammars and, for each, the texts.

### Pebble, PebbleMeaning

Pebble from the pairs of a parse to diagnostics: the pairs its grammar makes
(`PairOf...`), the generated views and builders (`...View`, `Build...`), dispatch
(`Eval...`), handlers and interpreter, and
`eval_source` (`Run`). Evaluation is sequential and nothing runs beside it, so it
is an operator on the state, and a step of the specification is one call of
`eval_source`; one `Interp` and one `Ctx` serve a session of several.

`PebbleMeaning` says what the written program means, from the guide: no pairs,
no spans, a call has its locals, a return carries its value, a damaged statement
costs nothing but itself.

### Emission, VmC, VmBasic, Twins

`Emission` is the emitter as a value that goes from handler to handler, with its
instruction list and function table, the generated operators, and the handlers
the twins have in common. `VmC` and `VmBasic` are the two languages: the pairs
each grammar makes of a program, its views, builders and dispatch, `Compile`. A
child a grammar calls `lazy` is evaluated where its handler wants it (`RunIff`,
`RunWhilst`, ..).

`Twins` compiles a written program with both (`Build`), loads either result
(`Load`) and runs it by the actions of `Machine` (`Run`). `OfText` is what the
program means, with no registers, jumps or slots.

## 4. Runs

| run | instance | shows |
|---|---|---|
| `hybrid_store` | three threads, two slots, a number, the colliding NaN, Nil; four calls in all; one thread may stop anywhere | guards belong to those inside; heavy is authoritative; every call atomic; no call waits for ever on account of another slot, whoever stopped there, whatever the lock's policy |
| `machine` | every well-formed program with a one-parameter function of three instructions and a top level of three, each from up to eight choices, started at the top or in the function; MAX_DEPTH 3; one slot of two in the store | typing; the stack is the calls in flight; no stray register; callers untouched; answers to askers; clean failures; slices of loop-free programs end |
| `host` | three tasks, each any of six programs that suspend in a call, share a global, fail, panic, or loop; any answers | a task in one place at a time; rotation; `run` returns exactly when all have finished; finished for good; snapshots invisible; `run` returns |
| `host_survives` | the same | finding 1 |
| `emitter` | two names, three registers, three operands pending, two arguments, two jumps open, no liberties | operands and variables are in their registers when wanted; arguments lie side by side; the frame has every register used |
| `basic` | programs with a function, a subroutine and a line that runs them, one of the bodies any of some forty statements; wrong definitions; chains of up to three operands with prefix and postfix operators, under BASIC's table and another | `BooksBalance`, `PayloadsTravel`, `LoopControlIsLexical`, `ParametersKept`, `FoldedAsDeclared`, `RunsEnd` |
| `build` | every graph of imports between three files that may be missing, unreadable or broken, built once; and projects of two files, edited up to twice and built up to twice, with a build broken off anywhere, in the present layout of handlers and the old one | `ImportsLoaded`, `SuccessIsWhole`, `WorkKept` |
| `build_imports` | the same | finding 2 |
| `parsing` | a rule of two alternatives, each any of fourteen expressions, with every text of up to three characters; an operator table with shorter operators declared first and words; two languages that recover, with damaged programs whose statements are known; unlabelled alternatives | `LintsAreCertain`, `OperatorsMunchMaximally`, `DamageStaysLocal`, `ParsesEnd` |
| `pebble` | sessions of two sources, each a statement or a function and a statement: recursion to the limit, returns from loops in frames, failures, damaged statements in functions another source calls | `BooksClosed`, `MeansWhatItSays`, `DiagnosticsOnce` |
| `twins` | programs of both languages, or of vm-c alone, around each of some hundred expressions in conditions, loops, variables; recursive functions; what has no values in the model is compiled and compared only | `TwinsAgree`, `CodeFits`, `RunsAsWritten` |
| `twins_nested` | calls of two arguments in each other | finding 3 |

Every module but the pure ones has a type invariant. `machine` checks that of
`Machine`, and those of `HybridStore`, `Machine`, `Emitter`, `Host` and `Build` are
proved; the others have been checked on the instances above and are there for
the reader.

Bounds. `MaxCalls` = 4 lets two calls of each of two threads, or four of one,
overlap with a third's: a reader between two writes needs three, as does a reader behind a
writer that waits for a reader. One value is read from the tag and two under the
lock; more kinds of value take the path of one of these. Two slots are
what independence needs, and the properties of one slot do not count slots.
MAX_DEPTH 3 gives a frame with neighbours on both sides. Programs of seven
addresses have calls with one and two arguments, recursion, an undefined key, a
wrong arity, loops, a slot that is missing. In `host`, three tasks make
rotation different from alternation. Loops in `machine` are kept to those that
compute nothing new (`FiniteLoop`), which bounds output and numbers.

Three registers are a variable beside two temporaries, or two beside one: what
one operand's compilation can do to another's, or to a variable. Two values
tell an overwritten register from one that is not. `emitter` distinguishes states
by all but `slots`, on which no other variable depends.

`MaxCallDepth` = 2 is a call inside a call and the refusal of a third;
`MaxOutput` = 3 cuts short programs that print for ever. Three files are the
least with a diamond, a cycle that misses the entry, and a file two others
import. A project needs one edit between the first build and the second, and one
break; budgets of edits, works, builds and breaks are part of its start.
`MaxStack` = 40 is what tells runaway recursion from nesting: a parse that
reaches it has not ended, so `ParsesEnd` says that no text of the run needs it. Pebble's `MaxDepth` = 2 is reached by
recursion without an end; `MaxRuns` = 2 is a source that finds what the one
before it left. In `twins`, no program assigns more than three globals
or needs twelve registers (`CodeFits`), and four frames hold the recursion of
every function.

Fairness is weak only. A live thread of the store goes on with its call when it
can, unless it waits for a lock somebody else queues to write: of those that
queue one gets the lock, if all of them are live. That the lock is fair to any
one of them is not assumed, because calls are finitely many. Threads outside
`Live` have no fairness at all. A machine that is
being resumed executes; a host in `run` goes on. No fairness is assumed of
calls, answers, other machines' stores, or `run` being called. `Basic` and
`Parsing` are single threads that do nothing but go on: fairness is that of
their next step. `Build`, `Pebble` and `Twins` claim no liveness and have none.

`RunsEnd` leaves out what may run for ever by its text, a WHILE that is tested
or a GOTO that is taken again and again. `ParsesEnd` supposes what the analysis
says it takes for granted: tokens match something (`TokensConsume`), and, a
limit of it, lookaheads do not lead back to a rule (`LooksAtTerminals`).
`LintsAreCertain` claims shadowing of literal texts where nothing is skipped,
reserved or folded (`Literally`).

Deadlock is checked in `machine`. `hybrid_store` ends when its calls are used
up, `host` ends after a crash, a program's text may end anywhere the bounds of
`emitter` leave no room, a project's budget runs out, and the interpreters, the
parser and the twins end, so they do not check it.

## 5. Proofs

`HybridStoreProofs`, for any threads, slots and values: `TypeCorrect`,
`LocksExclude`, `TagFollowsHeavy` and `Refinement`. The invariant is
`TypeOK`, `GuardsMatchThreads` and `HeavyAuthoritative` together; it is
inductive as it stands. The refinement then rests on one lemma: where no writer
is between its two writes, what the threads can tell of a slot is its heavy
value. Assumed: `ToBits` is a bijection between numbers and words, the sentinel
is a word, `Nil` is no number.

`MachineProofs`, for every set of well-formed programs, every depth, register
count, extension value and answer: `TypeCorrect`, `StackCorrect`,
`RegistersInReach`, `CallersStayUntouched`, `AnswersGoToAskers` and
`FailuresAreClean`. The inductive invariant `IInv` adds to typing: `Chain`, each
frame above the bottom was pushed by the call before its return address, and its
caller had the registers that call names; `Fit`, the frame on top has the room
its address asks for; and that the awaited register is one of the top frame's.
Instructions that keep the shape of the stack share the lemma `PlainStep`; calls
and returns have their own (`StepCall`, `Popped`, `StepReturn`).
`AnswersGoToAskers` needs `AskerKnown` besides: who waits is the instruction
before `pc`. Assumed: `ProgramsAssumption`, that programs are well formed; that
the twins' compilers make such programs is what `twins` checks as `CodeFits`.

`EmitterProofs`, for any number of registers, names, arguments and nested jumps,
and no liberties: `TypeCorrect`, `OperandsCorrect`, `VariablesCorrect`,
`FrameCorrect` and `ArgumentsCorrect`. `OperandsKept` says nothing of an operand
the run is jumping past, which is what the step that closes a jump needs, so the
invariant has the stronger `Kept`: whatever the run has *compiled and passed*
(`Passed`) is in the registers, also while it skips what is being compiled now.
It holds because locals have a register each below the scratch registers
(`Placed`), temporaries are in the order they were compiled (`Stacked`), jumps
are nested and a circuit's left operand is a temporary below the right one's
(`Nested`), and between statements nothing but branches is open (`Bodies`).
Instructions share the lemma `InstructionStep`, which asks that a result go above
the temporaries that stay; `FreedAbove` shows freeing operands from the last
leaves it so. That arguments lie side by side needs besides that no register
above a pending temporary is taken by nobody (`NoneLost`).
Assumed: `EmitterAssumption`, and `Liberties = {}` in each theorem.

`HostProofs`, for any number of tasks and any well-formed programs:
`HostTypeCorrect`, `TasksStayConsistent`, `TurnsAreTaken`,
`RunReturnsWhenAllFinished`, `FinishedTasksStay`. The machine of the slice is an
instance of `Machine`, so `MachineProofs` is instantiated the same way and its
`IInv` is part of the host's invariant `HInv`; a slice begins with a machine
rebuilt from a snapshot, hence the snapshot of every parked task must be one from
which `IInv` holds again (`ParkedWell`), which is what a machine leaves when it
suspends. Rotation counts slices and adds where the pass stands (`Turns`); the
return of `run` adds that a pass without progress has met no unfinished task.
Assumed: `HostAssumption`, what a machine asks of its programs and answers.

Of the host, too: `TasksAreMachines`, the refinement of section 3, for any
number of tasks. Each action of the machine in hand is the same action of the
machine of the task whose slice it is, its output prefixed by what earlier slices
said (`Alike`), and to every other task a store by somebody else or nothing; the
beginning of a slice is its machine's answer, and the end of one a stutter. What
another task stores may be any value, so the theorem has the hypothesis
`Value \subseteq Foreign`: that what a task's own machine allows others to store
is any value at all, as the code allows. The run gives `Foreign` the values its
programs store.

`BasicProofs`, for every program, operator table and depth of calls:
`BooksStayBalanced`, `CallsAreBounded` and `PayloadsTravelWithJumps` come from
one invariant (`InvariantHolds`). `Held` says that
the spans are those of the activations on the stack that have one, in their
order; `CallsCounted` that `depth` is the number of activations that run the body
of what they called, and that the frames are as many as those of functions.
The counts are of sets of indexes into the stack, so that a return removes its
own index whatever it returns, an error and a jump alike.

`LoopControlStaysLexical` needs more, because the property compares the moment a
signal arrives with the text of the program. `LexInv` adds that neighbours on the
stack are neighbours in the tree (`Chained`): an activation that runs lines is
under that of a line of the body it runs, its own or the one its call names, and
any other is under an operand of its own. It adds that a name stands for a
definition in the tree (`BodiesPlaced`), and that a signal about a loop is only
ever given to what runs lines, from a place inside it, past no loop of its kind
and no definition (`SignalsInside`). Raising one makes the last true of a place
one step down (`AroundPart`); an IF or a loop of the other kind that lets it
through extends it by its own place (`AroundMore`); a call turns it into an error.

`ParametersAreKept` uses both. Who may write a parameter in place is read off the
actions: an assignment, a FOR, and always in the frame on top. That the statement
stands in the text of what was called last is an induction down the stack
(`StatementsOfLastCall`): under a statement there is only what runs its lines,
and until the last call that is an IF or a loop, one step up in the tree.

`FoldsAsDeclared` says that the tree each expression is folded into is the one
tree its table defines, for every table and every stream of operands and
operators. It rests on `FoldIsDeclared`, which says more: a stream that is refused
has no tree. That a result of `parse` is a tree of the tokens it has taken is shown
from the last token backwards (`ClimbSound`), and needs that what follows the tree
is an operator none of its own could have taken: looser than the prefix operators
that end where it ends, and than what the topmost infix operator admits on its
right (`Reading`). That each tree of a span is what `parse` comes to is shown from
the shortest span up (`AllMade`): if what follows is such an operator (`Closed`),
the loop comes to the tree after some round, and ends with it when that operator is
also looser than the least precedence asked for. That there are the functions
`Climb` and `TreesOf` define, both by recursion, is shown first (`ClimbIs`,
`TreesAre`): `parse` calls itself only further on, a span is read from shorter ones.

Assumed: `BasicAssumption`; `StreamsAssumption`, that operators of one precedence
have one associativity, as a tier gives it to them (`nh-codegen/operators.rs:510`),
that a stream is what the lowered rule `expr` lets through (`nh-lower/lib.rs:735`),
and that no spelling is both infix and postfix in it; and `GrammarAssumption`, which
is what `basic.nh` makes of a source that is built: a program at the root alone, no
statement for an operand, one condition for a WHILE. It is stated of the places
there are in a tree (`Places`). TLC checks all three of every source of the run.

`ImportsProofs` and `BuildProofs`, for every graph of imports, project, budget and
order of edits, builds and breaks: `BuildTypeCorrect`, `ImportsAreLoaded`,
`WorkIsKept` and `BuildsAreWhole`. The loader is a search in depth; its invariant `LInv` says that the
stack is a path of imports from the entry file (`StackIsPath`), that each file is
recorded once (`RecordedOnce`), that what is seen is on the stack, recorded or
complained of (`SeenIsKept`), that the imports passed so far have been visited
(`ImportsVisited`) and are recorded before their importers unless a cycle was
reported (`ImportsBefore`), and that what is reported is so (`ProblemsAreSo`).
When the stack is empty the files seen are closed under imports, so they are
those reached; if no cycle had been reported each would be recorded after what it
imports, so none would be on one. The files may change under the loader, hence
`BInv` claims `LInv` only of a load during which nobody edits. `WorkIsKept` says that
work is only ever where handlers are, so that what a build writes and sweeps is
not work; it holds for behaviours in which no handler moves to a rule's `mod.rs`
(`MovedToHandlers`). That is a hypothesis and not a lemma because the code does
not see to it (section 6, Build).

`BuildsAreWhole` says what a build that ends well has left. Its invariant `SInv`
adds to `BInv` how far a build is (`At`): it is at a step of the plan made for the
grammar it merged, and each step before has done what it is for and is not undone
(`Did`). That needs of the plan, for every grammar and target, what `PlanIs` says:
the grammar and every file are in it, no handler is moved after one is made, and
the report alone is last; and that a path is written once (`WrittenOnce`), so that
a later write, sweep or removal never takes back an earlier one. The grammar
merged is the one the files declare while nobody edits (`WholeSoFar`, from
`LoadedIsMerged`), and what the last build left stays so until somebody edits or
writes in a handler (`LastIsWhole`); TLC checked `SInv` on `build` before it was
proved. What is merged is a fold over files and over what each declares, of
whatever lengths. `FoldProofs` has the induction that takes: the naturals are well
ordered, so a set with 0 and successors has them all; the function that FoldLeft
chooses exists for every length, hence a fold takes one element after the other.
Its operator is a constant, and `ImportsProofs` instantiates it with `Declare` and
with `MergeFile`.

Assumed: `BuildAssumption`, what files and projects are, and what a text declares.

Only model-checked: the liveness properties (`CallsComplete`, `SliceEnds`,
`RunReturns`, `RunsEnd`, `ParsesEnd`), which are out of the prover's reach;
and what `Parsing`, `Pebble` and `Twins` claim, whose modules walk trees and graphs
with recursive operators.

## 6. Findings

1. `Op::IDiv` compares the divisor with 0.0 and then divides the truncated
   operands, so a divisor of 0.5 panics natively (`machine.rs:254`). Nothing
   catches it on the way out of `Host::run`, and the other tasks are lost, against
   "a program that fails does not take the host, or its siblings, down"
   (`examples/vm-host/tests/host.rs`). Run `host_survives`.
2. The build script asks cargo to watch the imports of the merged grammar
   (`nh-build/lib.rs:124`), and the merge keeps none (`import.rs:197`): an edit of
   an imported file does not run the script again, against "imported grammars are
   inputs too" (`lib.rs:123`). Run `build_imports`.
3. A call with two arguments never frees the second one's register
   (`handlers/primary/call.rs:19`), so as a later argument of another call its
   result is not beside the first: `f(1, f(2, 3))` with f the sum prints 3, against
   "a call finds its arguments contiguous with nobody arranging them"
   (`call.rs:3-6`). Run `twins_nested`.

Met while modelling, with the program or grammar that shows it; no run keeps
these.

* **Registers** (`emit.rs`, generated operators). In a function, `n && 1` assigns
  to the parameter `n`: the right operand is moved into the left one's register
  (`nh-codegen/vm.rs:392`), where `free` guards a variable's register and `Move`
  does not. `f(1, n)` passes what is above the 1, a local having no copy beside
  it. `1 + (x = 2)` in a function overwrites the 1. `[x, [1, 2]]` has its
  elements apart. A function inside a function ends the outer one's locals
  (`end_fn`). The liberties of section 3 show the first four.
* **Twins.** LET in a function is always a global in vm-basic (`assign.rs`) and a
  local in vm-c; the word operators of vm-c match in any case.
* **Pebble.** `else { a; b; }` and `else {}` are refused: a binding to a rule that
  only delegates is built from the wrong pair (`nh-codegen/ast.rs:520`), against
  `guide/05-control-flow.md:94-95`. A `frame` stops at a damaged statement, where
  a program goes on (`tests/run.rs:154`).
* **BASIC.** A SUB has no frame of its own, and `store` writes to the one on top
  (`basic-interp/src/lib.rs:109`): a SUB called from a FUNCTION reads and assigns
  to the FUNCTION's parameter of that name, against "it takes no arguments, so
  everything it touches is global" (`lib.rs:67-68`). Programs of `basic` do this, and
  `ParametersKept` is stated so as to allow just this. RETURN in a SUB returns from
  the FUNCTION that called it. Failures of operators and of a call too deep have no span.
  `trace.rs:313` of the command line folds `not 1 = 1` otherwise than the
  generated code it says it follows.
* **Lowering, analysis.** An unlabelled alternative with a reserved word makes two
  nodes where one is counted (`nh-lower/lib.rs:1170-1172` and `1442-1462`).
  `EOI | ";"` is reported as unreachable. `operator_rule` keeps words whole by the
  first reserved token only. `follow.rs` misses a follower that comes round a
  repetition, and one that begins with a character range; a statement whose
  damaged head has a block is skipped to the block's first stop.
* **Build.** The handler of an alternative labelled `mod`, in a rule with others,
  has the path of the list of the rule's modules (`stubs.rs:159-164` and `238`),
  which every build writes. A build that finds it in the old layout moves it
  there and then overwrites it, against "handler files are never overwritten and
  never deleted" (`stubs.rs:246`): with `Starts <- NamedMod` of `MCBuild`, TLC
  finds `WorkKept` violated. The script takes its own target and ignores the grammar's
  `target`, which the command line obeys. A handler torn by a crash counts as
  written by the author and stays. A rule that goes from one alternative to
  several leaves `handlers/<rule>.rs` beside its directory (vm-c has one,
  `primary_num.rs`). A rename together with a change of order is reported as a
  rename. A handler that still has its marker when it is implemented is pruned.

## 7. Not modelled

* **Store, values, machine.** The other stores (benchmark baselines), weak memory
  between slots, arrays and objects and with them their locks, shifts, power and
  the other bitwise instructions, multiplication and /, debugger queries.
* **Emitter.** Compound assignment, repeated parameter names, the debugger's
  tables; in `Emitter` also `while`, whose jump goes back (it is in `Emission`).
* **Twins.** Running arrays, `len`, `*`, `/`, `>`, `>=` and the bitwise operators,
  which both compile and `TwinsAgree` compares; spans and refusals with them; more
  than one answer to `await`. Functions stand at the top level, and variables are
  assigned before they are read: what happens otherwise is section 6's.
* **Basic, Pebble.** File names in spans, the text of reports, wrappers without a
  node, the order of texts, remainders by zero, the look of a frame.
* **Lowering.** Expectations, the name allocator, cardinalities of bindings, lazy
  and place bindings, printing of pest.
* **Build.** `--target`, `--host`, template files, warnings as errors, the count of
  handlers still to write; `--force` alone, which does nothing.
* **Not at all.** The operator table and the bytecode format, which the plan has
  next; the parser of grammars, rendering of diagnostics, formatting, templates,
  scaffolding, the command line's output and editor support, which keep no state
  worth a model; the other example languages, which are made the same way.
