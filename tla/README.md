# Oscan: a TLA+ verification project

Oscan is a small systems language. Its compiler, written in Rust, translates a
program to C or to object code (Cranelift or LLVM), links it with a C runtime,
and may carry its own linker inside. This directory holds TLA+ modules that
model parts of the compiler and of the runtime, TLC configurations that check
them on small instances, and TLAPS proofs that hold for every instance.

Paths below are relative to the repository. `PROJECT.json` lists the components,
the runs, the source lines every definition stands for, the hazards of the code
and the theorems.

## 1. The system

```
source --(driver: imports)--> lexer -> parser -> semantic analysis -> IR
   IR --> codegen.rs ------------> C text ---> a C compiler --\
   IR --> backend/func.rs -> LIR -> Cranelift | LLVM -> object  +--> executable
                                    link plan -> linker -------/      |
                                      ^ asset cache | sidecar         v
                                                    runtime: arenas, arrays, maps,
                                                    checked arithmetic, I/O, TLS
```

| Component | State it keeps | Operations | Interacts with | Hard to test |
|---|---|---|---|---|
| Runtime arenas (`runtime/osc_runtime.c`) | a list of blocks, the current one | create, alloc, reset, destroy | every allocating runtime call; arena blocks of the code generators | `size_t` wrap-around in two roundings |
| Runtime maps | slots, capacity, length | set, get, has, delete, len, typed gets | arenas (tables) | tombstones, growth in the middle of a set, loops without a bound |
| Runtime arrays | length, capacity, buffer, owning arena | push, pop, insert, remove, extend, slice, ... | arenas; the store check both code generators emit | growth inside an arena block, aliasing, doubling near `INT32_MAX` |
| Checked arithmetic | none | add, sub, mul, div, mod, neg, abs | every arithmetic expression | the extreme values; i64 multiplication without a wider type |
| Function bodies in `codegen.rs` and `backend/func.rs` | the list of deferred expressions, open blocks, arenas | translate block, loop, match, arena, defer, return, try, break | runtime arenas | two independent translations of the same exits |
| Asset cache (`backend/native_assets.rs`) | a shared directory of files | sweep, verify, write, rename, mark, smoke check | other compilers running at the same time; the linker it starts | races without a lock, crashes, Windows file sharing |
| Expressions and loops in both code generators | hoisted temporaries, SSA variables | translate an expression or a loop | the C grammar and its evaluation order | C regroups and reorders, native code does not; texts are pasted twice |
| Semantic analysis, lowering, IR verifier (`semantic.rs`, `lower.rs`, `ir.rs`) | scopes, tables of declarations, contextual types | declare, check, lower, verify | each pass trusts the one before it | two passes that infer types independently; effects that hide |
| Lexer and parser | position, interpolation stack | one pass each | semantic analysis | long combinations of rules |
| Imports (`main.rs`) | visited files, namespaces, the source map | read, rename, splice | the lexer gets the spliced text | cycles, diamonds, a file under two names |
| Driver, backend selection, C compilers, link plan and execution (`main.rs`, `backend/select.rs`, `backend/link`) | options, machine, temporary directories, the output file | parse, select, probe, compile, link, run, clean up | external tools, the asset cache | precedence of many inputs, fallbacks, early exits |
| LLVM provider (`backend/llvm/provider.rs`) | the library and its handles | find, load, parse, verify, optimize, emit | libLLVM through its C API | ownership on a dozen early returns |
| Sidecar package, runtime archives | files | verify, build | the linker, other compilers | concurrent builds |
| Runtime I/O, processes, sockets, TLS, graphics | handles | wrappers | the operating system | mostly external |
| Installers and release tools (`scripts/`) | a staged or installed tree | stage, verify, install, replace | archives, the user's machine | failure between two steps |

What makes each modelled component correct:

* **Arenas** - an allocation lies in a block that is still owned, allocations do
  not overlap, and destroying the arena frees every block exactly once.
* **Maps** - the table is a dictionary: no duplicate, no hidden entry, an exact
  length, and every call ends.
* **Arrays** - mutators are the sequence operations of their names; a live array
  has a live buffer and holds no pointer into a destroyed arena.
* **Arithmetic** - the mathematical result, or a panic exactly when it does not
  fit.
* **Function bodies** - deferred calls run last in first out, once, after the
  returned value was computed; an arena goes at the end of its block and not before;
  jumps go where they say.
* **Asset cache** - a good file is never spoiled, a set that was handed out stays
  intact, a lost race is not an error, damage is repaired.
* **Expressions** - both translations do the same, and no call is repeated or
  lost.
* **Front end** - what analysis accepts is lowered to an IR whose types agree, and
  a pure function or a string hole calls nothing impure.
* **Imports** - every mention finds the declaration it stands for, every line its
  origin, and cycles end.
* **Driver** - a success delivered what was asked for; nothing is left behind; no
  C compiler is started where none may be; the compiler ends.
* **LLVM provider** - no handle is used after it was given back, none is lost, and
  an object is made of verified IR.

## 2. The modules

| Module | Models | Run module | Proofs |
|---|---|---|---|
| `MapSpec` | what the map types promise (abstract) | - | - |
| `OscMap` | the hash map; `Refines` maps it to `MapSpec` | `MCOscMap` | `OscMapProofs` |
| `OscArena` | the arena allocator | `MCOscArena` | `RuntimeProofs` |
| `OscArray` | dynamic arrays within nested arenas | `MCOscArray` | `OscArrayProofs` |
| `CheckedArith` | checked arithmetic, `x = x op e` and `x op= e` | `MCCheckedArith` | `RuntimeProofs` |
| `FnBody` | the run of a function body in both back ends | `MCFnBody` | `FnBodyProofs` |
| `AssetCache` | concurrent extraction of the embedded assets | `MCAssetCache` | `AssetCacheProofs` |
| `ExprIR` | nodes, values and the state of the compiled program | - | - |
| `CExprs`, `NativeExprs` | the two translations of expressions, statements and loops | - | - |
| `Exprs` | composes the two on the same program | `MCExprs` | - |
| `Types`, `Semantic`, `Lowering` | types and intrinsics; the checker; lowering and the IR verifier | - | - |
| `FrontEnd` | composes them as `main.rs` does | `MCFrontEnd` | - |
| `Imports` | import resolution and the source map | `MCImports` | `ImportsProofs` |
| `BackendSelect`, `CToolchain`, `LinkSelect` | the decisions of the driver as operators on options and machine | - | - |
| `Driver` | one run of the compiler, composing the three | `MCDriver` | `DriverProofs` |
| `LlvmProvider` | loading and using libLLVM | `MCLlvmProvider` | `LlvmProviderProofs` |

Definitions whose comment says "Mutant" are plausible bugs: each replaces the
definition after it to show that a property would notice. They are used by no
specification.

### OscMap

`slots`, `cap` and `len` are the fields of `osc_map`; `old` and `next` are the
locals of `osc_map_grow`, `arg` and `pc` say which `osc_map_set` is in progress
and where. `SetGrows` and `SetProbes` begin a set, `GrowCopies`, `GrowSkips` and
`GrowDone` are the rehash loop, slot by slot, `SetUpdates`, `SetInserts` and
`SetPanics` are the outcomes of the probe loop. The lookups are one step each,
because nothing runs beside them; a probe loop is the choice of the first
position at which it stops. Hash values are a constant function, so a run picks
the collisions. Values are opaque: the text a typed map stores a number as is
left out.

### OscArena

`chain` is the linked list and `cur` the current block, `blocks` every block ever
obtained, `live` the allocations since the last reset. `AllocFast`, `AllocSlow`
and `AllocPanics` are the paths of `osc_arena_alloc`. `size_t` has `W` bits and
wraps, so the guards against overflow are really needed. `Header` and `Page`
give both builds: blocks from `malloc` and blocks from whole pages.
`osc_arena_reset` is modelled as written, cut-off blocks included; no program can
call it, so losing blocks by it is stated as the exception in `LostOnlyByReset`
and not as a defect.

### OscArray

An array has an owner arena (where its header is), a place `at` (where its buffer
is), a capacity and cells. `EnterBlock` and `LeaveBlock` push and pop the arenas;
everything in a popped arena is dead. `StoreAllowed` is the check both code
generators emit before a store of an element that points into an arena. One
action per function of the runtime; `Panics` is the end of the program. The
module assumes that variables do not escape a block by themselves (see section 6).

### CheckedArith

`MAX` stands for `INT32_MAX` or `INT64_MAX`. `osc_mul_i32` widens, `osc_mul_i64`
decides with divisions by cases on the signs. `Binary`, `Negate` and `AbsOf` are
assignments that use the checked functions, `CompoundAssign` is `x op= e`, which
the C back end writes as the C operator. Signed overflow is undefined there;
the compilers in use wrap it. Division by zero traps on x86 and answers on
AArch64, so it is a choice of the two.

### FnBody

A body is a sequence of statements, written under the checks of `semantic.rs`
and then run, with conditions, iterations and the outcome of `try` chosen freely.
`backend` says which translation is meant. Both generators keep a list of
deferred expressions in the order of the text and expand it at each exit
(`Deferred`, the descending listing of the defers written so far); `registered`
records what was executed, for the properties only.
`frames` are the open blocks with their arenas; `arenas` lists the arenas created,
each by where its block opens, and `destroyed` those that were destroyed. Variables are one counter `x` that every assignment and
every deferred call changes, which is enough to see in which order things
happened. A C `break` inside a `switch` leaves the `switch`. Code after a jump in
the same block is not written: it is dead in both translations.

### AssetCache

`dest` are the files of the cache, each missing, bad or good; each compiler has a
program counter `pc`, the asset it is on (`at`) and its temporary file. Every
action is one system call of `ensure_extracted_in`, `extract_one` or
`write_complete_marker`, so compilers interleave between calls and crash there.
`Fault` is a call that fails for a reason outside the program; a bad write is
one, too. `InUse` is the rule of Windows that a running image is not replaced.
`Sweep` takes any set of old temporaries, those of suspended compilers too, but
only in the directory itself (`TopLevel` and the marker), because
`cleanup_stale_temp_files` does not descend. `Disturbed` says that a call failed or a
running compiler lost its temporary.

### ExprIR, CExprs, NativeExprs, Exprs

A program grows from an atom by wrapping (`Wrap`) and is then made a statement
that both back ends translate and run from the same state (`Translate`).
`CExprs` translates as `codegen.rs` does: `emit_*` returns lines, which have been
written, and a text, which the caller pastes where it likes. Running a text gives
the *set* of outcomes C's unspecified order of evaluation allows, so `c` is a set
and `native` one outcome. `Infix` is C's reading of comparisons that are written
without parentheses. `NativeExprs` lowers operands from left to right into SSA
values as `func.rs` does. Calls carry numbers and are traced when they run, which
makes every lost, repeated or reordered call visible.

### Types, Semantic, Lowering, FrontEnd

`Semantic` has `check_*` as recursive operators from a node, an expected type and
a context to a type or `Err`, with the passes over declarations (`Collect`) before
them. `Lowering` finds every type again, the way `lower.rs` does: from the
contextual array and Result types (`Expecting`) and from `call_result_type`;
`Panicked` is a panic of the compiler. `FrontEnd` grows a term, checks it in a
function (`AnalyzeFn`), lowers it (`LowerProgram`) and verifies it (`VerifyProgram`). The parser is a source of programs.
Terms are two wraps deep and every kind of expression and statement occurs. The
table of builtins is a sample with each kind of purity and result.

### Imports

The recursion of `resolve_imports` is an explicit stack `calls`; each frame has the
file, the position, the text so far with its origins, its visited set and its
namespaces. A plain import shares the visited set (`Resume` hands it back), a
namespaced one works on a copy. A line is a `use` or a declaration with mentions.
Names are sequences of words, so the renaming to `ns_name` and its collisions are
real. Files may be missing.

`MentionsResolve` is about programs whose namespaces are `Simple`: outside of them
the resolver gives a mention no declaration, or two (section 3 names the cases), or
the analysis rejects the program afterwards for declaring a name twice.

### BackendSelect, CToolchain, LinkSelect, Driver

`o` is the command line, read one option at a time (`ParseArg`), `m` the machine:
the features of the build, the host, the environment variables, the installed
tools and the packaged assets. The three operator modules are the decisions of
`select.rs`, `target.rs`, `no_toolchain.rs`, of the C compiler search in `main.rs`
and of `backend/link`. `Driver` has one action for each file written, each program
started and each gate between them; each may fail where the code handles a
failure. `scratch` and `temp` are the temporary directories, `out` the output
file, `kind` what was delivered, `spawned` the programs started, `given` the user's
objects and libraries the last compiler or linker received. Spelling of flags and
wording of errors are left out.

### LlvmProvider

One action per call of the C API. `llvm.live` are the handles that exist, `locals`
the Rust values whose drop gives them back, in the order of declaration; an early
return drops them in reverse (`Drop`). `checked` says whether the module is as
LLVM last verified it: running passes makes it false. What LLVM answers at each
call is chosen freely.

## 3. The runs

| Run | Checks | Shows |
|---|---|---|
| `map` | `TypeOK`, `NoDuplicates`, `Reachable`, `Refines`, `SetEnds` | the table implements the dictionary through collisions, tombstones and growth, and every set ends |
| `arena` | `TypeOK`, `InBounds`, `Disjoint`, `LostOnlyByReset` | allocations are sound with sizes at both overflow guards |
| `arrays` | `NoJunk`, `BufferAlive`, `NoDangling`, `MutatorsAreSequenceOps` | mutators are sequence operations, self-extension included; nothing dangles when a block ends |
| `arith` | `ArithTypeOK`, `ChecksExact` | all operations on all pairs of five-bit integers |
| `fn_body` | `DefersRunLIFO`, `ValueBeforeDefers`, `ArenasFreed`, `NativeExits` | what both translations keep (an arena block without a jump out of it frees its arena each time), and what native code keeps |
| `assets` | `ReturnedIntact`, `NoSpuriousError`, `GoodNotSpoiled`, `CacheHeals` | the lock-free cache is sound under races, a crash and two faults |
| `exprs` | `CallsOnce`, `BackendsAgree` | the translations agree on every program whose operands do not interfere, and no call is repeated |
| `front_end` | `LoweredAsChecked`, `PureCallsPure`, `HolesPure` | what is accepted has agreeing types after lowering; a pure function calls nothing impure in any way and builds no string; a string hole calls nothing impure where the analysis looks |
| `imports` | `LinesTracked`, `CyclesCut`, `MentionsResolve` | splicing keeps names and lines through diamonds, cycles and namespaces |
| `driver` | `StrictStartsNoCompiler`, `NoSilentFallback`, `NothingLeftBehind`, `Delivered`, `ArchiveSuffices`, `Ends` | every command line of three options on twenty-one machines |
| `llvm` | `HandlesRespected`, `NothingLeaks`, `ObjectsSound` | the C API is used within its contract on every path |
| `defers` (violated) | `DefersAsSpecified` | the deferred calls that run are not the registered ones |

### What the models showed

Where a property could not be stated of the code as documented, it was stated of
what the code does keep. Each item below was met while modelling and shows up as a
counterexample of the stronger form; `defers` is kept as a run.

* Deferred calls: a failed `try` in C runs none; a `defer` in a branch that was not
  taken still runs; arguments are read at the exit (`docs/spec/oscan-spec.md:1300`).
* Arena blocks: `return`, `break`, `continue` and a failed `try` inside one do not
  destroy its arena (`codegen.rs:1149`, `func.rs:1077`), against `docs/guide.md:608` ("Early
  `return` ... triggers cleanup normally"): the body `arena`, `return`, `end` returns with
  its arena alive. `ArenasFreed` therefore allows an arena to stay only where the text
  jumps out of its block. A call deferred inside one runs when the function ends and the
  arena is gone (`docs/guide.md:607` says before).
* Exits in C: `break` inside a `match` on an enum leaves the C `switch`
  (`codegen.rs:1149`; spec line 1110); `return e;` with a unit `e` and pending defers
  carries on (`codegen.rs:877`; spec line 277).
* `x += e` in C is the C operator and overflows without a panic
  (`codegen.rs:1049`; spec line 1045).
* `map_set` panics with "map is full" once inserts and deletes have filled the
  table with tombstones, which growth does not count (`osc_runtime.c:3690`).
* C expressions: `(x < 2) == (x == 1)` is written without parentheses and regrouped
  (`codegen.rs:1448`); a range's end and a for-in's length are evaluated at each
  iteration; a matched value or a string index with an effect is evaluated more
  than once (`codegen.rs:1299`, 2352); hoisted operands run before texts to their left; in a
  match on an enum or a Result the first arm with the tag wins whatever the order
  of the text (`codegen.rs:2482`). `Steady` and `PastesOnce` in `Exprs` say
  which programs are free of this.
* Native: `arr[f()] += 1` is a panic of the compiler (`func.rs:1644`).
* Lowering: an accepted `if c { pop(xs) } else { 0 }` panics (`lower.rs:353`, 884),
  although `lower.rs:5` calls such a failure impossible; `push(rows, [])` gets the wrong element type; the
  expected Result type of a `let` leaks into the scrutinee of a `match` inside it.
* Analysis: an array made in an arena block may be assigned to an outer variable
  (`semantic.rs:2435`; `docs/guide.md:585`); a function pointer bound inside a string hole is called
  unchecked.
* Purity: the check of a string hole walks the blocks in it but leaves out the target
  of an assignment, so `{ w[log(i)] = 1; 1 }` is accepted in a hole although `log` is
  `fn!` (`semantic.rs:3228`; `docs/guide.md:804`); an element of an immutable array may
  be assigned, one of a parameter of a pure function too (`semantic.rs:2401`;
  `docs/spec/oscan-spec.md:893`); a pure function may build an array
  (`semantic.rs:2973`), though `docs/spec/oscan-spec.md:1706` counts any function that
  allocates among the impure. `PureCallsPure` and `HolesPure` therefore promise what
  the analysis looks for, and no more.
* Driver: with `cl.exe` the objects and libraries of the command line are dropped
  (`main.rs:2719`; `docs/guide.md:914`); linking on an unsupported host panics
  (`link/mod.rs:469`); `--run` and the early exits leave the C compilation's directory.
* Imports: `use "math.osc" as math;` with the semicolon of `README.md:183` is a plain
  import; a namespaced import inside a namespaced file cannot be reached (`n.f`
  becomes `n_f`, declared is `m_n_f`); a file imported plainly before gives nothing
  under a namespace; a file that declares `m_f` itself and imports, under `m`, one
  that declares `f` gets two declarations of one name; renaming also rewrites words
  in strings and comments.
* Asset cache: `cleanup_stale_temp_files` never sees the temporaries in `bin/` and
  `lib/`.

### Bounds

* `map`: three keys, capacity 2 to 8. `k1` and `k2` collide until capacity 8 and
  `k3` is displaced by them or wraps; two growths, full tables and tables of
  tombstones only all occur. The program stops calling `set` when the table
  would grow past `MaxCap`.
* `arena`: `W = 5`, alignment 4, pages of 8: the sizes include zero, one that
  needs a block of its own, and the ones just below and above each guard. Three
  allocations fill a block, cross to a second and reset between.
* `arrays`: two arrays, two arenas, `IntMax = 3`: the doubling loop meets its
  limit, and an array outlives a block in which it grew.
* `arith`: `MAX = 15`, every operand. The proof covers all widths.
* `fn_body`: six statements allow a jump from a block inside a block with a defer
  before and after it; two iterations allow state to survive an iteration.
  `defers` needs at most five statements.
* `assets`: two compilers run twice each over two assets: each can be ahead of,
  behind and beside the other, restart after a crash, and meet what an earlier
  run left. Two faults reach the removal with a failing call of its own. The
  initial contents are arbitrary. No symmetry is used, as liveness is checked.
* `exprs`: two wraps around every atom, so each construct is an operand of each
  other one, in 94,256 states; loops run up to four turns, twice the
  elements the array starts with, and a loop that goes on is told apart.
* `front_end`: terms two deep in several bodies and signatures, 75,964 states: the
  smallest depth at which a context set for an outer construct reaches an inner
  one it was not meant for.
* `imports`: 34,000 programs of three files, with up to five lines of use in
  all: a diamond, cycles of two and three, the same file plainly and under two names.
* `driver`: three options are the most that exclude each other; the machines cover
  each host, each distribution, each linker override and packaged target, missing and hanging compilers.
  A bundled compiler is polled twice (`ProbeTicks`) where the code polls for its time-out.
* `llvm`: four places to look in, at most two of them with something in them, of
  each kind (not vouched for, not loadable, lacking a symbol, too old, without the
  target, good), with the environment variable absolute, relative or not set;
  every call may fail.

`front_end` and `driver` check for deadlock: their last state stutters. The others
say `CHECK_DEADLOCK FALSE`: programs end (by returning or by a panic) and bounded
inputs run out; that something which must happen does happen is the subject of
`SetEnds`, `CacheHeals` and `Ends`.

### Fairness

`OscMap!Spec` has weak fairness of the steps within a set: a call that began is
executed by the thread that made it. Beginning a call is not fair.
`AssetCache!FairSpec` has weak fairness of each compiler's own steps: the
operating system runs a process that was started. Starting, crashing and faults
are not fair. `Driver!FairSpec` has weak fairness of `Next`: the compiler is one
thread that keeps running, and the programs it waits for are taken to end, except
a bundled compiler that is only probed, for which the code has a time-out. The
other modules state safety only.

## 4. The proofs

All are of the form `Spec => []P`, `Spec => [][A]_vars` or, for a refinement,
`Spec => Abstract`, from an inductive invariant that is shown to hold initially
and to be kept by each action. The invariants of `OscArray`, `FnBody`, `Driver`
and the names of `Imports` hold on the instances of their runs, too, where TLC checked them before they were
proved (that of `OscArray` without its `\E S : arrs \in Seq(S)`, which TLC cannot
evaluate). The only assumptions are the named `ASSUME`s of the modules:
what a constant must be for the code to make sense (a hash of a key is a number, a
capacity is not negative), that a machine in `Driver` is one whose build passed the
check of `select.rs` (`WellConfigured`), and that a file of `Imports` is numbered
from its first line and its use lines name files of the program and declare nothing
(`ProgramsAssumption`). Every run evaluates them.

* **`OscMapProofs`**: `TypeCorrect`, `KeysUnique` (`NoDuplicates`),
  `EntriesReachable` (`Reachable`), for any finite set of keys, any hash function
  and any initial capacity. The invariant adds `CallOK` (what `pc` says of the call
  in progress) and `EntriesOK` (occupied slots hold real keys and values).
  `NoDuplicates` needs `Reachable`: an insertion is at a free slot after a probe
  that met an empty slot, and only because every entry is reachable does that
  mean that the key is nowhere else (`EmptyMeansAbsent`). `Reachable` needs that
  no slot becomes empty again (`PathsKept`), which is what tombstones are for.
  `MapRefined` (`Refines`) is the step simulation on top: an empty table maps to
  the empty dictionary, a set or delete that returns is the dictionary's, and the
  start of a call, every step of a growth and a panic leave it as it was. A
  lookup answers for the dictionary because an occupied slot is found before the
  probe stops, and `len` is the number of keys (`LenOK`), which the returned length
  needs.
* **`OscArrayProofs`**: `TypeCorrect`, `NoJunkRead` (`NoJunk`), `BuffersLive`
  (`BufferAlive`), `NothingDangles` (`NoDangling`), `MutatorsRefineSequences`
  (`MutatorsAreSequenceOps`), for any number of arrays and arenas, any nesting of
  blocks and any `IntMax`. `NoDangling` is not inductive: which arrays are live
  changes when a block ends. What survives is about positions on the stack of
  arenas (`ElementsOK`): an array in the arena at position `p` points at arenas at
  positions `1 .. p` only, which outlive it, and its buffer is in its own arena.
  `GrowCapFits` says that the doubling loop of `osc_array_reserve` stops, reaches
  what was required and stays below `IntMax`; as the provers know nothing of
  powers, it counts the subsets of `1 .. k` instead (`PowerDoubles`).
* **`RuntimeProofs`** is about the two modules of fixed-width integers, which
  share no state: sizes that wrap and must be guarded, and values that must not
  wrap. Of `OscArena`: `ArenaTypeCorrect`, `AllocationsInBounds`,
  `AllocationsDisjoint`, `DestroyFreesAll`, for any width, alignment, header and
  page size. The key lemmas are about modular arithmetic: under the guards,
  rounding up does not wrap (`AlignedCovers`, `BlockCapCovers`). The invariant
  adds that every allocation lies below its block's `used`, that `used` is at
  most the capacity, and that the current block is the last to be used.
  Of `CheckedArith`: `ArithTypeCorrect`, `ArithmeticExact`, for any width.
  `MulOverflowsExact` is the heart: the four sign cases of `osc_mul_i64`, with
  truncating division, find an overflow exactly when there is one. It rests on
  `ProductExceeds` (`p > n \div d` iff `p * d > n`).
* **`FnBodyProofs`**: `TypeCorrect`, `DefersReversed` (`DefersRunLIFO`),
  `ValueComesFirst` (`ValueBeforeDefers`), `ArenasFreedAtBlockEnd` (`ArenasFreed`),
  `NativeLeavesAsTold` (`NativeExits`), for bodies of any length and nesting. The
  deferred calls that run are read off the text, the registered ones off the
  execution. They agree because a statement of the function's own block is
  passed once and in order, and that needs to know where the execution is in
  the text: the frames are exactly the blocks that the text has opened and not
  closed before the current statement, the `i`-th at depth `i` with nothing
  shallower since (`Positioned`). On it rest that an end closes the innermost
  frame's block (`OpenIsFrame`), and that a jump or a block that is not entered
  passes over no statement of the function's own block. `RegisteredOK`
  then says that what was registered at that level is what the text says before the
  position, and `PlanOK` that the calls made and to be made are the text's, last
  first. `ArenasOK` says that each open frame with an arena is the block that arena
  was created for and no two frames hold one arena; so an end destroys exactly its own
  block's, and the frames a jump drops are blocks the text has that jump out of
  (`JumpLeaves`): a `break` drops none outside its innermost loop.
* **`AssetCacheProofs`**: `CacheInvariant`, `NeverSpoiled` (`GoodNotSpoiled`),
  `SetsStayIntact` (`ReturnedIntact`), `RacesAreSilent` (`NoSpuriousError`), for
  any number of compilers, assets, runs, crashes and faults, and any layout. The
  invariant has three parts: a file about to be installed was verified
  (`TempsVerified`); what a compiler has finished with stays good unless the
  system was disturbed (`DoneKept`); a rename fails in an undisturbed system only
  because of a compiler that uses the asset, and then `DoneKept` of that one
  says that it is good (`LostToGood`).
* **`DriverProofs`**: `StrictIsStrict` (`StrictStartsNoCompiler`), `NoFallback`
  (`NoSilentFallback`), `CleansUp` (`NothingLeftBehind`), `DeliversOutput`
  (`Delivered`), `ArchiveChosenWell` (`ArchiveSuffices`), for any well configured
  machines and command lines of any length. The promises look at the end of a
  run; the invariant says for each step what is settled by then, in six
  parts, each about one concern: what the options were checked for
  (`CommandOK`), which backend a step belongs to (`StepsOK`), what the selected
  linker excludes (`SelectionOK`), which directories exist (`FilesOK`), which outputs
  are out of question (`OutputOK`) and that the archive holds what the program
  uses (`ArchiveOK`). The strict profile, for one, rests on three refusals that are
  far apart: of the C backend, of a compiler driver and of building the archive.
* **`LlvmProviderProofs`**: `HandlesNeverMisused` (`HandlesRespected`),
  `HandlesGivenBack` (`NothingLeaks`), `ObjectsAreSound` (`ObjectsSound`), for any
  places, environments and libraries. `HandlesInv` says which locals exist at
  every step (`LocalsOK`: eleven lists, with those an early return may leave) and
  that the live handles are exactly those the locals own, and the library
  (`LiveExact`): misuse and leaks are both excluded because the two never differ.
  `LastLocal` is the point where the order of the drops matters: in each of the
  lists the context comes before its module, so that it is freed after it.
  `ObjectInv` says that IR is emitted only in the state the last verification left.
* **`ImportsProofs`**: `NoFileTwice` (`CyclesCut`), `OriginsKept` (`LinesTracked`)
  and `NamesResolve` (`MentionsResolve`), for any files and any programs. An import looks at the visited
  set of the innermost call only, so the invariant says that each call has visited
  its own file and all that the calls around it visited (`Remembered`). The step to
  see is `Return`: the caller takes the set over or keeps its own, and either
  holds all that it held. With the pigeonhole the stack is no deeper than there
  are files. `OriginsKept` follows a line through all that is done to a text:
  text and origins have the same length in every call, and each renaming, one
  namespace after the other, leaves the last words of a declared name alone
  (`MangledTracked`, `DotsTracked`, `UndottedTracked`).
  `NamesResolve` is the theorem that the text that is compiled means what the files
  say. Its invariant (`NamesInv`) divides the stack into levels: calls that share a
  visited set and a list of namespaces, the root's below and at most one of a
  namespace above it (`Levels`). Of a level it says that each call was made by the
  line that the call around it is at (`Chain`), that no name is declared twice in
  what the calls hold (`Unique`), and what is known of every line that was read and
  every line of text that is held (`Known`): a plain use that was read has been
  visited, a declaration is in the text with its origin, a namespaced use has
  brought all names of its file under their prefix; a line of text is empty, as it
  was read, or renamed so that each of its mentions is the new name of what it
  stood for. One lemma shows each way a level changes: it begins (`LevelStart`), a
  call is pushed (`LevelPush`), reads a line (`LevelAdvance`), returns to its caller
  (`LevelMerge`), or ends as one renamed text in the level below (`SpacedAdds`).
  What is in scope in a file is the least set of files that holds it and is closed
  under plain imports; when the root has been read the visited set is closed, so
  everything in scope was read, once (`RootReads`). The passes that replace the dots
  leave names alone and resolve the rest (`UndottedKeeps`).

Only model-checked:

* liveness (`SetEnds`, `CacheHeals`, `Ends`), which is outside the prover's reach;
* `Exprs` and `FrontEnd`, whose translations are recursive operators over
  expressions: what they compute for every program is an induction over data;
* `DefersAsSpecified`, which does not hold.

## 5. The plan

Every safety invariant and action property that a run checks is proved, save
those of the groups above. What is left, most important first.

1. `MentionsResolve` for the programs that are not `Simple`, once the resolver
   handles them: namespaces inside a namespace, and a file reached both ways.
2. Modules: `Sidecar` as the other source of assets, composed with `AssetCache`;
   runtime archives built by two compilers at once; the lexer's interpolation
   stack; the installers' replacement of a tree with a failure between two steps.

## 6. Not modelled

* Symbolic links, permissions and the elevation policy of the asset cache; the
  choice between sidecar and embedded assets is a constant of a machine in `Driver`.
* Values that escape an arena block through a variable or a map: the compilers
  check array stores only, so `OscArray` is restricted to programs in which
  variables do not escape.
* The conversion of numbers to text in typed maps; floating point and casts.
* Most of the table of builtins in `Semantic`, whose entries differ in their
  types only.
* Canonical paths in `Imports`: a file has one name.
* Struct literals and enum constructors in `Exprs`: `tuple` stands for every
  aggregate.
* Code generation inside Cranelift, LLVM and the C compilers; the operating
  system, TLS libraries and window systems (external).
* The rest of the components in `PROJECT.json` with status `not_modelled`, each
  with its reason.
