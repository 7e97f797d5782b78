# A verification project for flintc

flintc compiles Flint programs to machine code. It parses the files of a
program in parallel, builds a graph of their dependencies, brings the types of
every expression together, generates LLVM IR and links a runtime of its own into
every program: an allocator (DIMA), a thread stack, strings, arrays, arithmetic,
conversions and a few modules around the C library. This directory holds TLA+
models of the parts of the compiler and of that runtime in which the order of
steps, the ownership of values or the edges of numbers matter, TLC
configurations that check them on small instances, and TLAPS proofs of what
holds for every instance.

Paths below are relative to the repository's root (`src/generator/x.cpp` is
the compiler's `src` directory; `fls` is the language server).

## 1. The system

| part | state | operations | works with |
|---|---|---|---|
| thread pool, `include/persistent_thread_pool.hpp` | task queue, counter of outstanding tasks, stop flag, mutex, two condition variables | `enqueue`, `waitForAllTasks`, the workers' loop, `stop` | the resolver and each parallel phase of the parser |
| resource lock, `include/resolver/resource_lock.hpp` | map from a name to a mutex and a use count | constructor, destructor | one lock per imported file, taken by the resolver |
| resolver, `src/resolver.cpp` | `namespace_map`, `dependency_map`, `dependency_node_map`, the graph | `create_dependency_graph` in waves, `process_dependency_file` | parsers on the pool; the generator reads the graph |
| driver, `main.cpp`, `src/parser/parser.cpp`, `src/generator/generator.cpp` | parser instances, what is open, `main_function`, tips and `generated_files` | the stages of a compilation, one task per item, the order of generation, the exit status | pool, resolver, FIP; used again per request by `fls/` |
| FIP client, `src/fip.cpp` | one session with external processes, a generated file per module tag | lazy `init`, function and tag requests, `shutdown` | parsing threads and the generator |
| castability and analyzer, `src/analyzer/` and the coercing parts of `src/parser/` | the tree | coercion in place, by the parser and again by the analyzer | the generator needs code for every cast that is left |
| error sets, `src/parser/error_node.cpp`, `src/generator/generator_error.cpp` | sets with parents | numbering of values, throw, catch, switches, casts, printing | calls carry errors |
| constant folding, `include/parser/ap_int.hpp`, `ap_float.hpp` | digits | exact arithmetic, narrowing to the type of a literal | must agree with the runtime's arithmetic |
| control flow (emitted), `src/generator/generator_statement.cpp` | an alloca per variable | scopes end, break, continue, return, throw | frees what the variables own |
| calls (emitted), `src/generator/generator_expression.cpp` | the thread stack, callables on the heap | frames, arguments and results by reference, rethrow, catch | stack check, ownership of arguments |
| freeing and cloning (emitted), `src/generator/generator_memory.cpp` | malloc blocks and DIMA slots | `flint.free`, `flint.clone` for every kind of type | DIMA, strings, arrays, callables |
| DIMA (emitted), `src/generator/module/generator_dima.cpp` | head, blocks, use counts, slots with reference counts | `allocate`, `retain`, `release` | `flint.free`, which nests |
| assignments (emitted) | the program's variables | single and group assignment | release, clone, retain |
| strings and arrays (emitted), `src/generator/module/generator_string.cpp`, `generator_array.cpp` | malloc blocks; scratch arrays of indices | every runtime function, the statements that call them | registered garbage, bounds checks |
| core modules (emitted), `src/generator/module/core/` | files, standard streams, environment | filesystem, print, read, system, env, parse, math, time | the C library |
| extern calls, `src/generator/generator_ir.cpp`, `generator_expression.cpp` | registers and byval copies | the System V ABI, three times: declaration, arguments, result | C code |
| startup and test runner (emitted), `src/generator/generator_builtin.cpp` | thread stack, arguments, shared data | builtin `main`, the runner of `--test` | capture of the output |
| arithmetic and conversions (emitted), `generator_arithmetic.cpp`, `generator_typecast.cpp` | none | one function per operator, type and mode | what operators and casts call |
| others | | lexer, matcher, linearizer, token lines, parser core, namespaces, linker, profiler, debug printing | |

What is hard in it:

* *Interleaving.* Workers of one pool parse files that import each other, share
  maps under different mutexes or none, and use one session with other
  processes.
* *Failure.* A file that does not parse leaves traces; phases stop waiting for
  their tasks at the first failure; a session may start half.
* *Ownership without a type system.* Who frees a value is decided per kind of
  expression, scope, statement and type in dozens of places of the generator,
  and must come out even on every path through every program.
* *Nesting.* Freeing a list releases its tail inside the release of its head;
  calls are evaluated inside the arguments of calls and share a stack and
  scratch memory; statements leave several scopes at once.
* *Two passes over one tree.* Parser and analyzer coerce the same expressions
  by rules that are written down several times, and the generator relies on
  the outcome.
* *Edges of numbers.* Whether a result fits is found out from a result that has
  wrapped; buffers are as long as a count of digits says; layouts change at 8
  and 16 bytes.
* *The outside.* Files change between two opens; each libc call may fail.

`PROJECT.json` lists the hazards one by one, each at its line and with the
properties that would notice it.

## 2. The modules

| module | models | abstract specification | proofs |
|---|---|---|---|
| `TaskPool` | what a pool promises | is one | |
| `ThreadPool` | the thread pool | `TaskPool` | `ThreadProofs` |
| `ResourceLock` | the resource lock | | `ResourceLockProofs` |
| `Resolver` | graph construction; instantiates `ResourceLock` | | `SharingProofs` |
| `CodegenOrder` | the order of generation | | `DriverProofs` |
| `Driver` | the stages of a compilation and of repeated requests, FIP's session, over `TaskPool` | | `DriverProofs` |
| `Castability`, `Analyzer` | coercions; what parser and analyzer do with a statement, and what the generator has code for | | |
| `ErrorSets` | errors from throw to print | | `ThreadProofs` |
| `ConstantFolding` | digits of literals, folding | exact integers | |
| `RefHeap` | what reference-counted storage promises | is one | |
| `Dima` | one DIMA head under a program | `RefHeap` | `RuntimeProofs` |
| `Assignment` | statements that copy lists and arrays | | `ProgramProofs` |
| `Control` | which values a function body frees, when | | `ProgramProofs` |
| `Calls` | frames, arguments, results, errors | | `ThreadProofs` |
| `Ownership` | `flint.free` and `flint.clone` of every kind of type | | |
| `Strings` | the runtime's strings under a program | values computed from the statements | `StringsProofs` |
| `Arrays` | the runtime's arrays under a program | values computed from the statements | |
| `CText`, `Files`, `Console`, `CoreIO` | core modules over the C library, alone and together | | `SharingProofs` |
| `ExternTypes` | values on their way to C and back | the ABI's rules | |
| `Startup`, `TestRunner` | builtin `main`, the program of tests | | `RuntimeProofs` (startup) |
| `Arithmetic` | the integer functions of the runtime | exact integers | `RuntimeProofs` |
| `Conversions` | casts, texts of numbers, parse and read, durations | exact numbers | |

`DataTheorems` holds what the proofs share: induction over numbers and along
parents, recursive definitions that are functions, sets that grow to a fixed
point, sequences.

The `MC…` modules give the constants their values and compose models into one
run where one program would use several of them: `MCMemory` (assignments,
control, calls, ownership), `MCCoreIO` (core modules, extern calls, startup,
runner), `MCNumbers` (arithmetic, conversions, folding), `MCFrontEnd` (analyzer,
error sets), `MCDriver` (driver, order of generation). In a composed run a
behaviour belongs to one of the parts; they share no state in the code either,
but what a part takes for granted of another is checked in the same run.

How states and actions correspond to code:

*ThreadPool.* A critical section is one action, since `_tasks`,
`_pendingTasks` and `_stop` are only touched under `_mutex`. What happens
outside is separate: `NotifyOne` comes after `Enqueue` has unlocked, `Run`
between `Take` and `Finish`, `NotifyAll` after `BeginStop`. Condition variables
are sets of sleepers that may wake spuriously.

*ResourceLock.* `Register` is the constructor up to the unlock of `map_mutex`,
`Acquire` the `lock()` of the entry's mutex behind it, `Release` the destructor.

*Resolver.* A call of `process_dependency_file` is named after the file whose
imports it processes. What happens under one mutex, or between two, is one
action; lock and unlock are those of `ResourceLock`. `Width` calls run at a
time. Reading `namespace_map` while another thread writes it is undefined; the
model does not follow it (`NamespaceMapGuarded` states where it can happen, and
does not hold).

*CodegenOrder.* The loop of `generate_program_ir`, one action per tip, in any
order within a wave. Hashes decide in one place and file names in another
(`Namings`).

*Driver.* A thread goes from stage to stage, hands out items or handles them
itself, and collects futures in order with `result && future.get()`. Items use
the FIP session under its mutex, step by step, where the code releases it.
`main` and the language server's `parse_program` are two orders of the same
stages. A failure is a property of an item, chosen at the start.

*Dima.* `Allocate` has the code's four places to look; `stack` holds the
releases that have not returned, so every state between two nested calls is
seen. `stale` marks a call whose head a nested call has moved. `lost` counts
references the code forgets.

*Assignment, Control, Calls, Ownership.* Four views of emitted code.
`Assignment` has the steps of a single or group assignment. `Control` walks a
body of nested statements; what each exit frees is computed, as in the code,
from scopes, unique variables and segments. `IsProgram` says what the parser
accepts as a body, and `Carelessness` which of the known mistakes a body meets. `Calls` has the thread stack by
offsets: evaluation of arguments into the callee's frame, the capacity check,
the frame of a callable on the heap, results that stay in a popped frame,
`rethrow`. `Ownership` makes a value of a type, clones it with `flint.clone`
and frees both with `flint.free` in either order.

*Strings, Arrays.* A statement pushes operands, combines them by the runtime's
functions and ends by storing, comparing or discarding. Registered garbage is
freed by the code's rules. An interpolation is a literal, or has two parts or
more: `$"{s}"` alone, for which the generator has a branch that would hand on
the variable's own block (`generator_expression.cpp:490`), is refused by the
parser (`parser_expression.cpp:889`). Arrays take their indices from the scratch memory
the code writes them to.

*Files, Console.* One call of a core function, one libc call per action, with
another program writing the file in between and each libc call in `Fallible`
failing or not. Text is what C sees: `fgets` returns pieces, zero bytes end
strings.

*ExternTypes, Startup, TestRunner.* The three copies of the register rules,
compared with each other and with the ABI; the sequence of builtin `main`; the
runner with its captures, annotations and boxes.

*Castability, Analyzer.* Types are records by kind. `check_types` is
`check_castability` of two types, `Coerce` that of an expression, branch for
branch; `create_expression` and `analyze_expression` are the two passes. A
statement is a node whose parts are wanted in certain types. `GeneratesCast` is
what `generate_type_cast` has code for.

*ErrorSets.* An error is the id of its set, the number of its value and a
message. `named` is what the program called it when it threw it.

*Arithmetic, Conversions, ConstantFolding.* A behaviour is one call, or one
constant expression. `Half` is 2^(w-1), so that one operator stands for all
widths that the code treats alike. Loops (powers, digits) have an action per
step.

### Programs that are known to go wrong

Where a program of a certain form makes the code break a property, the form
has a name and the model can make it: constants `Overlapping`, `Renamed`, and
those ending in `Careless` (`CarelessBody` and, in `Strings`, `Arrays` and
`Analyzer`, plain `Careless`), `Loose`, `Misfolded`, `Forms`, `Namings` and
`ReallocMoves` hold the names that are allowed. In the passing runs they are
empty (`ReallocMoves` is FALSE, `Forms` lacks the products of signed vectors),
so a pass says: everything else is right. With a name added, the property named
in section 5 is violated. These forms are restrictions on the input program or
its environment and are listed in section 5.

## 3. The runs

| run | instance | shows |
|---|---|---|
| `thread_pool` | 2 workers, 2 clients, 3 tasks, destruction at any moment | `PoolIsSafe` (the counter is exact, each task in one place, no wake-up lost, stopping drains), `WaitReturnsWhenDone`, `PoolIsLive`, `ImplementsService` |
| `resource_lock` | 4 threads, 2 names | `LockIsSafe` (exclusion, exact counts, the mutex outlives its users), `SomeoneIsServed` |
| `resolver` | 5 programs of up to 5 files, every set of broken files, width 3 | `GraphIsSound` (each file once, owners form a tree, a graph that is returned is the program), `GraphIsBuilt` |
| `resolver_failure` | width 1 | violated `FailureIsReturned`: a failure is thrown, not returned |
| `driver` | files, data, objects, functions and tests that fail, in sequence and in parallel; one project after another in the server; all trees of 5 files | `StagesAreSound` (no task outlives what it refers to, a stage begins after the last ended), `SessionsAreSound`, `StatusTellsTheTruth`, `OrderIsSound`, `EverythingEnds` |
| `dima` | 3 blocks of 1, 2, 3 slots, 4 values, 2 references each | `HeapIsSound`, `ReleaseReturns`, `ImplementsHeap` |
| `memory` | 2 lists and 2 arrays; bodies nested two deep; functions and a callable over a stack of 3 cells; a value of each kind of type | `AssignmentsAreSafe`, `AssignsWhatWasRead`, `ValuesEndOnce`, `ValuesHaveOneOwner`, `CallsReturnWhereTheyShould`, `ValuesAreCloned` |
| `strings` | 2 variables, texts of up to 2 characters, 3 operands, a `realloc` that may move, 2 modes | `StringsAreOwned`, `StringsAreValues` |
| `arrays` | 1 to 3 dimensions, lengths that include 0 | `ArraysAreTables`, `SlicesKeepPositions` |
| `core_io` | texts of up to 3 characters, a buffer of 3, failing calls; struct shapes around 8 and 16 bytes; programs with shared data, arguments, tests | `CoreIsComplete`, `FilesTellTheTruth`, `OutputGoesWhereItShould`, `CrossesUnchanged`, `ProgramsStartWhole`, `RunnerTellsTheTruth` |
| `numbers` | 4-bit integers, 2 lanes, all modes; radix 3 texts; base 4 literals | `ResultsAreClamped`, `PowersAreClamped`, `NumbersAreKept`, `FoldingIsExact` |
| `front_end` | 42 000 statements with every kind of type, wanted and given; sets in three generations | `CoercionsAreSound`, `AnalysisIsSettled`, `AnalyzerAgreesWithParser`, `ErrorsKeepTheirName` |

**Why these bounds.** In the pool, two workers are what it takes for one to run
a task while the other sleeps, wakes or takes the next, and for a wake-up to
reach the wrong one; a third task gives the queue a middle, and two clients let
one wait while the other enqueues. More is what the proof is for. Five files
give a diamond, a circle behind a diamond and a file reached by paths of
different lengths. Blocks of 1, 2 and 3 slots make the allocator fill a block,
reuse holes at either end, drop a block from the middle and shrink over several
entries; a list of four nests its releases four deep. Bodies nested two deep
have every pair of a statement inside another, and so every exit through one
scope that it does not end and one that it does. A stack of three cells is full
after two frames. Two characters and three operands make a sum of sums, which
is where garbage of garbage appears; arrays of three dimensions have a middle
one. A buffer of three characters is shorter, equal and longer than some line.
Integers of 4 bits have both ends, products that wrap once and several times,
and every pair is tried. Group expressions have two elements, so that one may
be changed while the other stays; operators nest once on the left. Three
generations of sets have a parent that is also a child, which is where numbers
are offset twice.

Every bound is a constant of its module: `MaxBlocks`, `MaxValues`, `MaxArc`,
`MaxData`, `TargetLists`, `ImportGraphs`, `MaxSteps`, `Capacity`, `Depth`,
`MaxLen`, `MaxOperands`, `MaxLost`, `MaxIndex`, `MaxText`, `MaxThrows`,
`MaxExponent`, `MaxPower`, `Nesting`, `Requests`. Symmetry is used for the variables of
`Strings` and the elements of `Arrays`, which the models only compare.

**Fairness.** The pool: weak fairness of each worker, of a client inside a call
and of the destructor, which an operating system gives a runnable thread; no
client is obliged to call. The lock: a free mutex is taken by one of its
waiters and scopes end; not that any given waiter is served, which `std::mutex`
does not promise. The resolver and the driver: threads that can run do run, and
an item that has begun goes on; requests to the server need not come. DIMA: a
release goes on; the program may stop at any time. The loop over the tips: one
thread that waits for nothing. Everywhere else no liveness is claimed and no
fairness assumed. `CHECK_DEADLOCK FALSE` stands in the runs whose programs end
(`dima`, `memory`, `strings`, `arrays`, `core_io`, `front_end`): a finished
program has no step.

## 4. The proofs

The proof modules follow one argument: an invariant `Inv` that implies the
properties, `Init => Inv`, `Inv /\ [Next]_vars => Inv'` with one lemma per
action, and the temporal conclusions from these.

`ThreadProofs` has the threads of the compiler, which a pool keeps, the stack
a thread of a generated program calls functions on, and the errors that end its
functions. For the pool it assumes that
the set of workers is finite and not empty and that "no task" is not a task. The properties are not inductive on their own: the
counter equals queue plus hands only if a worker's hands are exactly what its
position says (`HeldIffBusy`), and draining needs that no client is inside a
call once the destructor runs (`StopAfterClients`). With these two, the
conjuncts of `PoolIsSafe` are inductive together (`PoolInvariant`,
`PoolKeepsItsBooks`); `WaitReturnsWhenDone` follows for each step, because a
client only returns when the counter is 0 and the counter is exact
(`WaitIsExact`). The refinement (`PoolRefinesService`) maps every step to one
of `TaskPool` or to a stutter: `Take` starts a task, and the bound on the
running tasks follows since the worker that takes is not among the busy ones.

`ResourceLockProofs` assumes a finite set of threads and an owner that is none
of them. The invariant adds to exact counts that no entry is idle
(`NoIdleEntry`) and that a mutex is owned by exactly the thread that holds it
(`OwnerHolds`): without the first a count of 0 could be found, without the
second two holders. `LockKeepsItsPromise` is `LockIsSafe` for any number of
threads and names.

`RuntimeProofs` has the allocator, the integer functions and startup. For the
integer functions it assumes only what `Arithmetic` does of its constants: integers of more than two
bits, at least one lane. What is hard there is not the
induction, since a call is one step, but the arithmetic of a lane. `Clamps` says
of a lane that it is an error exactly if the exact result does not fit, and
returns it clamped; one lemma per function proves it (`SignedSum` and the
like), from facts about remainders: what wrapping changes, it changes by 2^w at
least, and so does not divide back. A lemma about the frame carries `Clamps` over
to what a call returns, prints and stops for. `SumsSaturate` covers all sums and
differences, `ResultsSaturate` the products as well, under the assumption that
no signed vectors are multiplied (`NoSignedVectorProducts`), without which it is
false.

The loop of the power function needs an invariant (`PowerInvariant`): either
nothing was clamped, and `result` times the power of `base_mut` that is still due
is the exact power (`IsExact`), or something was, that was reported, the exact
power does not fit, and `result` is at the end of its range or comes there with
the next product (`IsClamped`). That no square is taken whose report would be
false is the point of the code's early exit; that `int_safe_mul`'s one unreported
product, -1 times the smallest integer, is never asked for follows because only
powers of -1 are -1, and their base is 1 or -1. `PowerIsKept` relates the
recursive `Power` to the exact powers.

`DataTheorems` replaces the induction theorems of the library, whose parameter
is an operator, by one over sets (`SetInduction`: a set that holds 0 and with n
also n + 1 holds all numbers) and builds on it: a step can be iterated
(`Iteration`, `NumberedIteration`), a set that grows by a monotone step reaches
its least fixed point after as many steps as there are elements (`Growth`,
with `Descendants` and `Reachable` for owners and imports), and along the
parents of a forest there are induction (`TreeInduction`) and recursion
(`TreeRecursion`). With these, the recursive functions of `Resolver`,
`CodegenOrder`, `Dima` and `ErrorSets` can be reasoned about.

`SharingProofs` has what is shared with others: the graph of imports, between the
threads of the compiler, and files, terminal, environment and input, between a
compiled program and other programs. For the resolver it assumes what
`ResolverAssumption` says of import graphs and the number of threads. `GraphIsSound` speaks of the end; `ResolverInvariant` says
how the graph gets there: a call behind the lock of an import holds it
(`ResolverUsesLocks` makes every step one of `ResourceLock`, so exclusion is
`LockKeepsItsPromise`), a file that a call has yet to parse is in no node, the
files in `namespace_map` are those that were handed to a call, and the waves
cover what they should. `GraphStaysSound` is the property for every program,
every set of broken files and every width; `GoodFilesDoNotCrash` adds that the
lookup that throws needs a broken file.

`DriverProofs` has the driver and the order of generation. For the driver it
assumes `DriverAssumption` (programs have the shape of one) and that
`DriverCareless` is empty. The invariant knows for every stage where each item
is (`Stations`), that the pool has exactly the tasks that were handed out and
not collected (`PoolIsRight`, `Window`: futures are collected in order, so a
prefix is done), what results were collected (`Results`), which stages lie
behind (`Order`), who holds the session and for which item (`SessionIsRight`),
and what `main_function` says (`MainIsRight`). `StagesAreSound`,
`SessionsAreSound` and `StatusTellsTheTruth` are consequences of it, in sequence
and in parallel, for the compiler and the server. For the order of generation it
assumes that files have different names: `GenerationInv` adds to `OrderIsSound`
that the waves climb the tree of owners (`WavesClimb`) and that a file that was
not generated and is no tip owns one that was not generated
(`NothingIsForgotten`), from which, the files being finite, the loop ends with
every file generated (`NoEndlessBranch`).

For the allocator, `RuntimeProofs` takes any number of slots, values and
references, any base capacity but 0 and any growth by `GrowthFactor` tenths that does not shrink, and
a `realloc` that moves or does not. `HeapIsSound` is extended by what a release
on the stack has done and will do (`CallersWait`, `ReferencesAreLive`,
`FreeIsEmpty`), so that the counters of the blocks are right in every state
between two nested releases, not only at the end. `DimaIsAHeap` maps each step
to one of `RefHeap`.

For `Startup`, it assumes that programs have what `IsStarted` says and that
`StartupCareless` is empty. `ProgramsBeginWhole` is `ProgramsStartWhole` for
every program, with or without tests. The invariant (`StartupInv`) says for each
phase what the next may rely on. What is hard is the step that initializes the
shared data: file by file, in any order, the fields that were initialized have
their values and read only such fields, and the others are zero (`SettledIn`,
`OneSettled`, `FileSettled`); in the end that is all of them, since an order of
the files has each of them (`AllSettled`).

For `ErrorSets`, `ThreadProofs` assumes `ErrorsAssumption` (parents exist and there are no
circles of them) and that `ErrorsCareless` is empty. It derives the equations of
the functions of `ErrorNode` along the parents; from those, a value of a set has
one number, below the count of the set (`ValuesAreNumbered`), no other value of
the set has it (`NumbersDiffer`), so that no set has more values than it counts
(`CountsBound`, which makes a switch without an else complete), a set that
extends it keeps the number (`CastsKeepNumbers`), and every anonymous error that
is written down is in its function's set (`AnonymousValuesAre`). The invariant
says that an error on its way is what the program called it; `NamesStaySound` is
`ErrorsKeepTheirName` for every family of sets.

`ProgramProofs` has the statements of a function's body: assignments and scopes.
For `Assignment` it assumes `AssignmentAssumption` (memory for every variable,
two kinds of it) and that `Overlapping` is empty. The property is about the
states between statements and says little of those within; the invariant
(`AssignmentInvariant`) counts in every state. A variable, unless its value was
just freed (`Dangles`), a field, a producer's value that is still to be stored
(`IsDue`) and the release under way hold values; no value has two holders; and
its count is 1 if it is held, plus the sources of the group that stand for it
and were retained and not yet released (`IsRetained`). Each step is one of a few
moves on holders and counts (`TakeCell`, `MoveCell`, `DropCell`, `RetainCells`,
`DropRetained`), proved once without the program. That a clone finds its source
alive needs the rest: a retained source counts, and a source that is not retained
is in a variable behind which no target up to its own lies (`SourcesAreThere`),
which is where a statement that reads what it frees goes wrong.

`AssignmentsKeepValues` is `AssignsWhatWasRead`, which compares the length of a
list when it was read with that of the target when the statement is over. It
assumes besides that memory is finite, as `Length` counts, and that the targets
of a group differ (`TargetsDiffer`): the parser lets `(x, x) = (a, b)` pass, and
there the last one wins. Its invariant (`ValuesAreWhole`) says that there are
functions for the length and the last value of the list that starts at each
place, which agree with the fields (`AreLists`), and that sources and finished
targets have the lengths that were read; while a list is copied, what the copy
has and what the source has left add up. A release gives back the first value
of a list, to which no field leads; a copy is put behind the last one. That
`Length`, which follows fields as often as there are places, computes these
lengths is `LengthsAre`.

For `Control` it assumes `ControlAssumption` (bodies are nested up to some depth)
and `ProgramsAssumption` (each body is one the parser accepts: names are new
where they are declared and known where they are used, a break or continue is
inside what it leaves, and nothing follows a terminator), and proves
`ValuesEndOnce` for the bodies that meet none of the known mistakes
(`Carelessness(program) = {}`; `IsProgram` and this are what `Sound` says). The
invariant (`ControlInvariant`) adds where control can be, before or behind a
statement that control can get past (`IsPosition`), and that the loops around it
have what they borrowed (`GoingOn`). That the values alive are those of what is
visible is then a matter of the body alone, and most of the proof is about
bodies. Paths are cut into the statements around them (`Cut`), so that "around"
is a matter of lengths; what is visible at a place is read off its cuts
(`InVisible`), which says what a statement makes visible behind it
(`VisibleBehind`), inside it (`VisibleInside`) and what was visible before a
scope began (`VisibleAround`). The code frees by segments, which count the scoped
statements in front: a variable has a segment no higher than that of the
statement that is left exactly if it is declared in front of it
(`SegmentsAreOrdered`). With it, what the chain of scopes frees on the way out is
what is visible of these scopes and not returned (`LeftScopesAreFreed`), which is
what `BreakFrees`, `ContinueFrees` and `ReturnFrees` say of the code's three
loops. Each of the known mistakes is excluded where the lemmas need it, and
nowhere else (`NoShadows`, `CatchesAreLeftFirst`, `ReturnsAreAlone` and the other
lemmas behind `Sound`).

For calls, `ThreadProofs` assumes `CallsAssumption` (a size of the stack, sizes of frames
that fit an empty one, arguments of the known kinds) and that `CallsCareless` is
empty. `ValuesHaveOneOwner` and `CallsReturnWhereTheyShould` speak of every function on a
stack of any depth, while a step changes its top. The invariant (`CallsInvariant`)
therefore has two parts that are proved one after the other. `Frames` is about
the stack alone: frames on it lie one behind the other and fit (`Stacking`), every function
below the top waits for the one above it, in a call the analyzer would accept
(`Calling`), and the error a handler looks at is in a frame that nobody else uses
before the handler ends (`Catching`). `Contents` is about values. What a slot
stands for is not what is in the frame once the slot was passed to a mutable
parameter, but what is in that parameter, and so on to the top (`IsCurrent`;
`CurrentIs` shows that the recursive `Current` of the model is the only such
function). `Holding` says who keeps what: a local variable, a temporary, the
handler of an error, the result that is on its way; `AreBooks` that no value has
two keepers and that what lives is kept or was left behind. A parameter stands for
something that a caller keeps (`Backing`), one that may be changed has no other
name but the slots that were lent to make it (`NoAlias`), and what is in frames
that are not in use, or in slots that were never set, is nothing that is kept
(`StaleIsGone`), so that a frame can be entered again without being cleared.
Each step is one of a few moves on books (`Adding`, `Dropping`, `Moving`,
`Changing`, `Leaking`, `Losing`) and one of three on levels: the top goes on
(`LevelStays`), ends (`LevelEnds`), or calls (`InvokeAccounts`). The step that needs
most of it is the assignment to a mutable parameter
(`AssignParameterAccounts`): it frees a value that is kept several levels
down, whose slots, through all the levels in between, must stand for the new one.

`StringsProofs` assumes `StringsAssumption`, that there are always free blocks
(`Blocks` is infinite: the generated code does not look at what malloc returns)
and that `Careless` is empty. `EveryStringHasOneOwner` speaks of the states
between statements; the invariant (`StringsInvariant`) says in every state to
whom each block in use belongs: to a variable, to one of the two operands that
an expression may have at a time (`IsOperand`, `Own`), to the garbage of the
statement or to nobody (`Belong`), and to one of these only. An operand stands
for the text of its block, which is what makes `StringsAreValues` provable: the
value a statement stores was computed by the source's operations, the value the
property asks for was carried along. One lemma for each function of the runtime
says that it puts a certain text into one block and leaves the others alone
(`InitPuts`, `AddPuts`, `AppendPuts`, `SlicePuts`), so that no step has to look
at characters; inside an expression every step is new blocks and old owners
giving way to new ones (`ExpressionGrows`, `OperandReplaced`), at the end of a
statement all that is left belongs to variables (`Settled`).

For the core modules, `SharingProofs` assumes what the modules say of their constants
(`TextAssumption`, `ConsoleAssumption`, `FilesAssumption`) and, for each theorem, what
the functions expect, by name. `OutputArrives` needs that a temporary file can be
made and no capture of a single character is asked for (`CapturesCarefully`). Its
invariant (`OutputInvariant`) adds to the property what is where at each step:
what a program printed is on the terminal, in the file of a capture or still in
the buffer of stdio, in this order, and where the descriptors lead says which
(`OutputIsRight`, `CapturesAreRight`); a text within another is found again by its
length. `CoreReturnsEverything` needs besides that no text has a zero byte in
it, that commands are not killed, and that the largest buffer fits into the memory
(`ExpectsLittle`; the code multiplies the capacity by two for each
character, `CapOf`). Its invariant (`AnswersInvariant`, `FilesShape`) says that what a
command wrote is in its pipe or was read (`CommandsAreRight`), that the line so far and
what is left are the input (`ReadsAreRight`), and how many files are open at each
step. What is difficult in both are lines: that the lines of a text
are put together to the text again (`LinesOfText`) is an induction over the
line feeds in it.

`FilesStayTrue` is `FilesTellTheTruth` where programs do none of the things
`FilesCareless` names, texts have no zero byte and fclose does not fail
(`FilesExpectLittle`); fopen, fseek, fread and fwrite may, and other programs may
rewrite the file, between the two passes of `read_lines` and during the second,
as long as what is then left of it has a line for every place (`FillsArray`). With
fewer lines the code stores how many there were through the length of the array,
taken for an address (`generator_filesystem.cpp:745`), before it closes the file;
the model ends there as undefined. While `read_lines` runs and the file is left
alone, the array holds the lines up to the position that was reached
(`StoredSoFar`), and has as many places as the file has lines, so that none is
stored over another (`CountedNext`: a line that fgets read is one of those that
were counted). Rewritten or not, as many lines are left as there are places
(`LinesAreRight`), so that the loop ends with the array full (`GoesToTheEnd`).
What is written goes behind what the open mode kept (`WritesAreRight`).

TLC checked each invariant first, on the instances above.

Only model-checked: everything under fairness (`PoolIsLive`, `SomeoneIsServed`,
`GraphIsBuilt`, `EverythingEnds`, `ReleaseReturns` and the liveness half of
`ImplementsService`), which TLAPS does not reach; what rests on modules with
RECURSIVE operators (types inside types, expressions inside expressions:
`Analyzer`, `Castability`, `Ownership`, `ExternTypes`, `Conversions`, `Arrays`);
and so far the properties of the remaining modules.

## 5. Where the code goes wrong

One disagreement between code and documentation has a run of its own:

* `resolver_failure`: a file that fails to parse is found in `namespace_map`,
  has no node, and the next importer's `at()` throws out of
  `create_dependency_graph`, which is documented to return `nullopt`
  (`include/resolver/resolver.hpp:90`).

What follows was met while modelling. Each name belongs to a constant of
section 2; with the name allowed, TLC finds the property violated. Names with a
star need an input besides that the configuration leaves out: "UNSAFE" in
`Modes`, three ranges at once in `SomeRanges` with the shape 2 by 2 by 2, or the
glyph in `Glyphs` (an escape alone, a zero byte, half a character, a character
of two columns).

| constant | name | what goes wrong | property |
|---|---|---|---|
| `DriverCareless` | "early return" | `result && future.get()` (`parser.cpp:1381`) stops waiting while tasks run on | `StagesAreSound` |
| | "two mains" | two files of a wave pass the test for a second `main` | `StatusTellsTheTruth` |
| | "mismatch" | after a version mismatch the session stays active (`fip.cpp:201`) | `SessionsAreSound`, `StatusTellsTheTruth` |
| | "rewritten" | the file of a tag is rewritten while it is parsed (`fip.cpp:546`) | `SessionsAreSound` |
| | "left open", "graph" | the server returns without clean-up, or goes on without a graph, also when a second `main` is among the imports of the main file (`lsp_server.cpp:144`, `149`) | `SessionsAreSound`, `StatusTellsTheTruth` |
| `Namings` | two files of one name | the second tip of a wave is refused (`generator.cpp:579`) | `OrderIsSound` |
| `Overlapping` | "single", "group" | `x = x.next!` releases before it clones; a swap of arrays likewise | `AssignmentsAreSafe` |
| `CarelessBody` | "break" | a break in a switch branch takes the switch for the loop's body | `ValuesEndOnce` |
| | "definition" | the initializer of a for loop is generated twice | |
| | "returned" | what one path returns is freed on no path | |
| | "caught" | the error of a catch behind other scopes is not freed on the way out of a scope inside (`parser_statement.cpp:1471`) | |
| | "changed", "iterable" | an enhanced for reads what its body freed; a temporary iterable is never freed | |
| `Renamed` | TRUE | variables of a scope are told from its parent's by name | |
| `CallsCareless` | "skipped parameter" | arguments after a skipped one are stored back from the wrong place | `ValuesHaveOneOwner` |
| | "call in catch" | an error that was caught fails again | |
| | "alias", "mutable temporary" | two mutable parameters are one variable; a temporary is passed to a mutable one | |
| `OwnershipCareless` | "variant data" | `flint.free` hands on the address of the variant (`generator_memory.cpp:629`) | `ValuesAreCloned` |
| | "namesakes" | of two data types of one name one has no case (`parser.cpp:645`) | |
| | "static persistent" | a persistent array of static size (`generator_memory.cpp:98`) | |
| `Careless` (`Strings`) | "append itself" | `realloc` moves what is still read | `StringsAreOwned` |
| | "index an empty string", "index without checks"* | a position outside the text is read | |
| `Careless` (`Arrays`) | "read while initializing" | indices are overwritten before they are used | `ArraysAreTables` |
| | "access an empty array", "slice backwards" | there is no element to clamp an index to; a width wraps | |
| | "slice in three dimensions"* | chunks land in the wrong order | `SlicesKeepPositions` |
| `FilesCareless` | "read a directory", "read long lines" | a read says what the file did not hold | `FilesTellTheTruth` |
| | "rewrite lines that are read" | a file that others shorten ends before the array is full: `adjust_size` writes through a length taken for an address (`generator_filesystem.cpp:745`) | |
| `ConsoleCareless` | "capture one character", "commands that are killed", "zeros in names" | a capture, a status or a name is lost | `OutputGoesWhereItShould`, `CoreIsComplete` |
| `BoundaryCareless` | "one container", "narrow front", "three in front", "floats behind", "wide vector", "bool8", "tuple result", "reference behind", "registers" | a struct or vector shape reaches C mixed up (`generator_expression.cpp:948`, `983`, `1222`, `1323`, `1464`; `generator_ir.cpp:483`, `497`, `735`, `754`) | `CrossesUnchanged` |
| `StartupCareless` | "reads another file", "reads a text", "reads what comes later" | shared data reads what is not initialized | `ProgramsStartWhole` |
| `RunnerCareless` | "captures", "stops", "loose escapes"*, "zero bytes"*, "broken characters"*, "wide characters"* | a test takes the runner's report with it; a box is crooked | `RunnerTellsTheTruth` |
| `Forms` | the product of signed vectors | a product that wrapped with the right sign is returned | `ResultsAreClamped` |
| `Loose` | "widened", "no code", "unread", "NaN", "exponent", "long time" | casts by the wrong sign or without code; texts that are not read or written as they should be; a maximum with NaN; durations that do not fit | `NumbersAreKept` |
| `Misfolded` | "sign", "size", "minus zero" | comparisons of digits | `FoldingIsExact` |
| | "leading zeros" | zeros in front (`lexer.cpp` accepts them) stay in sums, and what has more digits compares as larger: `007` exceeds what fits one digit, `02` divides wrongly, `0 ^ 00` is 0 (`ap_int.hpp:371`, `628`) | |
| `Careless` (`Analyzer`) | "loose group", "other elements", "group value", "splat", "none", "alias", "literal cast", "no code", "either way", "default", "groups" | a cast is left without code, or a value keeps a type that is not wanted | `CoercionsAreSound`, `AnalysisIsSettled` or `AnalyzerAgreesWithParser` |
| `ErrorsCareless` | "redefined", "two on a line", "misplaced else" | a value of the parent defined again is printed as another one; a second anonymous error on a line is unknown (`parser.cpp:1340`); an else before the last branch (`generator_statement.cpp:1274`) | `ErrorsKeepTheirName` |
| `ReallocMoves` | TRUE | a release reads the head through a pointer its nested release passed to `realloc` | `ReleaseReadsTheHead` of `Dima` |

Statements that do not hold and that no run checks: `NamespaceMapGuarded`
(`Resolver`: `namespace_map` is searched without the mutex that is documented
for it), `ReleaseReadsTheHead` (`Dima`), `GrowsWhenFull` (`Console`: `getline` says
"grow if needed", `generator_read.cpp:16`, but the branch that is taken while there
is room leads to the block behind `loop_body`, which is the reallocation, `142`: the
buffer doubles with every character, and a few dozen are too many for any memory),
`NothingIsLost` (`Strings`: sums in
interpolations, comparisons and `s += a + b` leave blocks behind),
`HeaderIsWhole` for programs with shared data (`Startup`: both callers of
`init_global_variables` swap the stack and its data section,
`generator_builtin.cpp:292`, `1606`).

Seen and not modelled:

* `Parser::create` grows a vector from several threads without a mutex, while
  others hold pointers into it.
* The size of a variant adds `max_size % max_alignment` where the rest to the
  next multiple is meant (`generator_ir.cpp:1047`), and truncates the payload.
* The common type of a switch is found from left to right under a claim of
  transitivity (`parser_statement.cpp:1363`) that fails for `u8`, `bool8`,
  `i32`.
* "Cloning is always a deep-copy" (`generator_memory.cpp:1171`), but func
  components and interfaces share their data by counting it. `Ownership` models
  what the code does.
* `create_error` looks neither for the parent of a set nor for circles of
  parents (`parser_definition.cpp:896`): the first ends in an assertion
  (`error_node.cpp:14`), the second does not end. `ErrorSets` takes programs
  without either.
* Weak edges are documented as "the tail of a circle" and are also made for a
  file that two files import, which is harmless.
* An optional field is overwritten without a release of the data it holds
  (`Dima` counts it in `lost`).
* Integer divisions are executed before the branch on their test
  (`generator_arithmetic.cpp:959`, `1303`, `1771`, `2044`, `2134`), and the
  remainder of the smallest integer by -1 is not tested for (`1035`); a power
  with a negative exponent is 1; the cases of `%` in
  `generator_expression.cpp:5545` name `u16` twice and `i16` never.
* An anonymous error in a test wants the set `error.test.<id>`
  (`parser_expression.cpp:537`), which nobody creates: `parser.cpp:1331` goes
  over functions only.
* A float literal next to a group of integers is given the type of its first
  element (`analyzer_castability.cpp:677`); in `Analyzer` this is a part of
  "groups".

## 6. Not modelled

* Lexer, matcher, linearizer and the recursive descent of the parser: functions
  from text to trees without shared state, better tested with programs than
  model-checked. Token lines (`include/linearizer/line.hpp`): slices under
  erasure; their interleavings are those of one parser thread.
* Namespaces and scopes as symbol tables, mutability and the analyzer's other
  diagnostics.
* The emission of LLVM IR as such, debug information, the linker, profiler and
  debug printers.
* In the driver: `NO_GENERATION`, running the program, command line parsing,
  `convert_type` and the text of FIP's bindings, the abort of
  `fip_master_init`, the server's protocol and its requests for one file only.
* In the runtime: Windows branches, threads of the compiled program other than
  the first, libm's functions, random numbers, several DIMA heads (they share
  nothing), interface calls, overflow of 32-bit counts and 16-bit block ids.
* In the resolver: hashing of paths, `max_graph_depth` (2^64-1), the
  generation of Core modules.

## 7. The plan

Theorems to prove next, TLC having found no counterexample:

1. `TestRunner`: `RunnerTellsTheTruth`, for any number of tests and lines.

Models worth adding: `TokenLines` with copies and moves of `Line`, and the
matcher's combinators against a reference definition.
