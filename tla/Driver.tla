------------------------------- MODULE Driver -------------------------------
(***************************************************************************)
(* One run of the compiler, from its arguments to its exit (main.rs and    *)
(* backend/link).  The command line is read one argument at a time, then   *)
(* the backend, the target, the C compiler and the linker are chosen for   *)
(* the machine m, and each file written and each program started is a step *)
(* that may fail.  BackendSelect, CToolchain and LinkSelect hold the       *)
(* decisions; this module holds their order and every way out.             *)
(***************************************************************************)
EXTENDS LinkSelect

CONSTANTS Machines,   \* the builds, hosts and environments considered
          MaxArgs,    \* bound: options on the command line
          ProbeTicks  \* polls of a bundled compiler before it is given up

ASSUME DriverAssumption ==
  /\ \A mc \in Machines : WellConfigured(mc)
  /\ MaxArgs \in Nat /\ ProbeTicks \in Nat

VARIABLES m, o, argc,   \* the machine, the options read so far and their number
          pc, exit,     \* the next step; how the compiler ended
          backend, target, shim, \* what was chosen; a C shim was generated
          sel, compiler,         \* the linker selected, the C compiler found
          uses, archive,         \* the runtime the program uses, the archive linked
          cand, waited,          \* the bundled compiler being probed, and for how long
          scratch, temp, \* the object backends' and the C backend's directories
          out, kind,     \* the output file, and what was delivered
          given,         \* the user's inputs the last compiler or linker was given
          spawned        \* the kinds of programs started

vars == <<m, o, argc, pc, exit, backend, target, shim, sel, compiler, uses, archive,
          cand, waited, scratch, temp, out, kind, given, spawned>>
input == <<m, o, argc>>
choice == <<backend, target, shim, sel, compiler>>
runtime == <<uses, archive>>
probe == <<cand, waited, runtime>>
files == <<scratch, temp, out, kind>>
trace == <<given, spawned>>

NoOptions ==
  [run |-> FALSE, emitC |-> FALSE, emitIr |-> FALSE, libc |-> FALSE, dump |-> FALSE,
   allowElevated |-> FALSE, opt |-> FALSE, extraC |-> FALSE, extraCflags |-> FALSE,
   cross |-> "none", backend |-> "none", native |-> "none", output |-> "none",
   extraObj |-> "none", extraLib |-> "none", file |-> FALSE]

\* The arguments: a flag sets its field, an option the value that follows it.  A file or
\* library may be missing, or a thin archive, or only the name of a system library.
Arguments ==
  ({"run", "emitC", "emitIr", "libc", "dump", "allowElevated", "opt", "extraC",
    "extraCflags", "file"} \X {TRUE})
  \cup ({"cross"} \X {"riscv64", "wasi"}) \cup ({"backend"} \X Backends)
  \cup ({"native"} \X {"host", WindowsX64, "linux-x86_64", "unknown"})
  \cup ({"output"} \X {"exe", "c", "ll", "o"})
  \cup ({"extraObj"} \X {"file", "missing"})
  \cup ({"extraLib"} \X {"file", "name", "missing", "thin"})

\* An executable of an earlier compilation is where the output goes.
Init ==
  /\ m \in Machines /\ o = NoOptions /\ argc = 0
  /\ pc = "args" /\ exit = "none"
  /\ backend = "none" /\ target = "none" /\ shim = FALSE
  /\ sel = Refused /\ compiler = NoCompiler
  /\ uses = "none" /\ archive = "none" /\ cand = 1 /\ waited = 0
  /\ scratch = "none" /\ temp = "none"
  /\ out = "old" /\ kind = "none"
  /\ given = {} /\ spawned = {}

Goto(l) == pc' = l /\ UNCHANGED exit
Stop(e) == pc' = "done" /\ exit' = e
\* An error message and process::exit(1).
Fail == Stop("error") /\ UNCHANGED <<input, choice, probe, files, trace>>
Mode == RuntimeMode(o)
CFiles == o.extraC \/ shim
\* A named object or library among the inputs i does not exist.
MissingIn(i) ==
  \/ "obj" \in i /\ o.extraObj = "missing"
  \/ "lib" \in i /\ o.extraLib = "missing"
Missing == MissingIn(UserInputs(o))
-----------------------------------------------------------------------------
\* The file name is not counted against the bound.
ParseArg ==
  /\ pc = "args"
  /\ \E a \in Arguments :
       /\ a[1] # "file" => argc < MaxArgs
       /\ a[1] = "file" => ~o.file
       /\ o' = [o EXCEPT ![a[1]] = a[2]]
       /\ argc' = argc + (IF a[1] = "file" THEN 0 ELSE 1)
  /\ UNCHANGED <<m, pc, exit, choice, probe, files, trace>>

\* An unknown flag or value, or an option without its value.
BadArg == pc = "args" /\ argc < MaxArgs /\ Fail

\* --help and --version end the run at once.
PrintAndStop ==
  /\ pc = "args" /\ argc < MaxArgs
  /\ Stop("ok") /\ kind' = "text"
  /\ UNCHANGED <<input, choice, probe, scratch, temp, out, trace>>

\* The backend, or an error if this build does not contain it.
Select ==
  /\ pc = "args"
  /\ LET b == ResolveBackend(o, m) IN
       \/ b \notin m.features /\ Fail
       \/ /\ b \in m.features
          /\ backend' = b
          /\ Goto("validate")
          /\ UNCHANGED <<input, target, shim, sel, compiler, probe, files, trace>>

Accepted ==
  /\ OptionsFit(o, backend)
  /\ Strict(m) => StrictAllows(o, backend)
  /\ backend # "c" => NativeTarget(o, m) # "none"
  /\ o.file

Validate ==
  /\ pc = "validate"
  /\ \/ ~Accepted /\ Fail
     \/ /\ Accepted
        /\ target' = IF backend = "c" THEN "none" ELSE NativeTarget(o, m)
        /\ Goto("frontend")
        /\ UNCHANGED <<input, backend, shim, sel, compiler, probe, files, trace>>

DumpOnly == o.dump /\ o.output = "none" /\ ~o.run /\ ~o.emitC /\ ~o.emitIr

\* Imports, lexing, parsing, semantic analysis, lowering and the verifier may each fail.
Frontend ==
  /\ pc = "frontend"
  /\ \/ Fail
     \/ /\ DumpOnly
        /\ Stop("ok") /\ kind' = "text"
        /\ UNCHANGED <<input, choice, probe, scratch, temp, out, trace>>
     \/ /\ ~DumpOnly
        /\ Goto(IF backend = "c" THEN "generate" ELSE "object")
        /\ UNCHANGED <<input, choice, probe, files, trace>>
-----------------------------------------------------------------------------
(* The object backends: run_object_backend. *)

\* Text or an object: written to the output file if there is one, else printed.
Deliver(what) ==
  /\ kind' = what
  /\ out' = IF o.output = "none" THEN out ELSE "new"
  /\ Stop("ok")
  /\ UNCHANGED <<input, target, backend, sel, compiler, probe, scratch, temp, trace>>

\* A failed write may leave a truncated file.
WriteFails ==
  /\ o.output # "none"
  /\ out' \in {out, "partial"}
  /\ Stop("error")
  /\ UNCHANGED <<input, target, backend, sel, compiler, probe, scratch, temp, kind, trace>>

\* LLVM's code generator is loaded here when the backend was named explicitly; there is
\* no other backend to fall back to.  A shim is generated for externs that take strings.
CompileObject ==
  /\ pc = "object"
  /\ \/ Fail
     \/ /\ backend = "llvm" => m.llvmLib /\ target \in m.llvmTargets
        /\ shim' \in BOOLEAN
        /\ \/ LlvmIrOutput(o) /\ (Deliver("ir") \/ WriteFails)
           \/ /\ ~LlvmIrOutput(o)
              /\ Goto("emit")
              /\ UNCHANGED <<input, backend, target, sel, compiler, probe, files, trace>>

EmitObject ==
  /\ pc = "emit"
  /\ IF o.output = "o"
     THEN \/ (shim \/ o.run) /\ Fail
          \/ ~shim /\ ~o.run /\ UNCHANGED shim /\ (Deliver("object") \/ WriteFails)
     ELSE Goto("gate") /\ UNCHANGED <<input, choice, probe, files, trace>>

\* check_elevation_policy: the flag counts on Windows only, and not when the privileges
\* cannot be determined.
ElevatedLinkAllowed ==
  \/ m.elevated = "no"
  \/ m.elevated = "yes" /\ m.os = "windows" /\ o.allowElevated

UsesInProcess ==
  /\ "lld" \in m.features
  /\ \/ Mode = "freestanding" /\ ~o.extraC /\ ~o.extraCflags /\ ~shim
     \/ "c" \notin m.features

\* The last checks before anything is written.
Gate ==
  /\ pc = "gate"
  /\ \/ (shim /\ Strict(m)) \/ ~ElevatedLinkAllowed \/ Missing
     \/ UsesInProcess /\ shim
  /\ Fail

PassGate ==
  /\ pc = "gate"
  /\ ~(shim /\ Strict(m)) /\ ElevatedLinkAllowed /\ ~Missing
  /\ ~(UsesInProcess /\ shim)
  /\ Goto(IF UsesInProcess THEN "inprocess" ELSE "scratch")
  /\ UNCHANGED <<input, choice, probe, files, trace>>

\* The guard of the scratch directory is dropped before the process exits.
DropScratch == scratch' = IF scratch = "present" THEN "removed" ELSE scratch

\* A link error: the directory is removed and the compiler exits.
LinkFails ==
  /\ Stop("error") /\ DropScratch
  /\ UNCHANGED <<input, choice, probe, temp, out, kind, trace>>

\* Where the executable goes: into the scratch directory when it is only to be run.
NewOutput(f) == out' = IF o.run THEN out ELSE f

\* The in-process linker checks its inputs and removes an older output first.  It takes
\* the archive for the program's own object, whatever else is linked.
StartInProcess ==
  /\ pc = "inprocess"
  /\ \/ Fail
     \/ /\ InProcessTakes(o, target, Mode)
        /\ scratch' = IF o.run THEN "present" ELSE scratch
        /\ NewOutput("absent")
        /\ uses' \in {"core", "full"} /\ archive' = uses'
        /\ Goto("lld")
        /\ UNCHANGED <<input, choice, cand, waited, temp, kind, trace>>

\* It links, fails and removes what it wrote, or breaks down and ends the process.
LinkInProcess ==
  /\ pc = "lld"
  /\ given' = UserInputs(o)
  /\ \/ /\ NewOutput("new")
        /\ IF o.run THEN Goto("run") /\ UNCHANGED kind ELSE Stop("ok") /\ kind' = "exe"
        /\ UNCHANGED scratch
     \/ NewOutput("absent") /\ DropScratch /\ Stop("error") /\ UNCHANGED kind
     \/ out' \in {out, "partial"} /\ Stop("fatal") /\ UNCHANGED <<scratch, kind>>
  /\ UNCHANGED <<input, choice, probe, temp, spawned>>

\* The directory, the object and the shim's source: a failed write removes the directory.
CreateScratch ==
  /\ pc = "scratch"
  /\ \/ Fail
     \/ /\ scratch' = "present" /\ Goto("archive")
        /\ UNCHANGED <<input, choice, probe, temp, out, kind, trace>>
     \/ /\ scratch' = "removed" /\ Stop("error")
        /\ UNCHANGED <<input, choice, probe, temp, out, kind, trace>>

\* The object's undefined symbols choose the archive.  Building it runs the release
\* script, which runs a C compiler.
FindArchive ==
  /\ pc = "archive"
  /\ uses' \in {"core", "full"}
  /\ archive' = ArchiveName(o, Mode, CFiles, uses')
  /\ LET source == ArchiveSource(m, archive')
         usable == source # "missing" /\ ShimSource(m, Mode) # "missing"
     IN /\ spawned' = spawned \cup (IF source = "build" THEN {"script", "cc"} ELSE {})
        /\ \/ usable /\ Goto("cross") /\ UNCHANGED scratch
           \/ (~usable \/ source = "build") /\ Stop("error") /\ DropScratch
  /\ UNCHANGED <<input, choice, cand, waited, temp, out, kind, given>>

\* The error message names the host, and a host that is no target has no name: asking
\* for it panics, which drops the guard on its way out.
CrossGate ==
  /\ pc = "cross"
  /\ LET may == IsHost(m, target) \/ CrossPermitted(m, target, Mode, CFiles) IN
       \/ may /\ Goto("linker") /\ UNCHANGED <<input, choice, probe, files, trace>>
       \/ ~may /\ HostSupported(m) /\ LinkFails
       \/ /\ ~may /\ ~HostSupported(m)
          /\ Stop("panic") /\ DropScratch
          /\ UNCHANGED <<input, choice, probe, temp, out, kind, trace>>

ChooseLinker ==
  /\ pc = "linker"
  /\ sel' = SelectLinker(m, target, Mode, CFiles)
  /\ \/ sel' = Refused /\ Stop("error") /\ DropScratch
     \/ sel' # Refused
        /\ Goto(IF sel'.source = "search" THEN "discover" ELSE "plan")
        /\ UNCHANGED scratch
  /\ UNCHANGED <<input, backend, target, shim, compiler, probe, temp, out, kind, trace>>

\* A compiler is asked for its target and version if the manifest names them: first the
\* discovered one, then the one the manifest records.
ChooseDriver ==
  /\ pc = "driver"
  /\ \E fits, recordedFits \in BOOLEAN :
       /\ compiler' = LinkerDriver(compiler, m, fits, recordedFits)
       /\ \/ compiler' = NoCompiler /\ Stop("error") /\ DropScratch
          \/ compiler' # NoCompiler /\ Goto("plan") /\ UNCHANGED scratch
  /\ spawned' \in {spawned, spawned \cup {"cc"}}
  /\ UNCHANGED <<input, backend, target, shim, sel, probe, temp, out, kind, given>>

\* The packaged assets are verified, or the shim is compiled for a hosted link.
MakePlan ==
  /\ pc = "plan"
  /\ LET compiles == sel.flavor = "driver" /\ ShimSource(m, Mode) = "compile" IN
       /\ spawned' = IF compiles THEN spawned \cup {"cc"} ELSE spawned
       /\ \/ /\ NeedsAssets(sel) => AssetsFit(m, target)
             /\ Goto("execute") /\ UNCHANGED scratch
          \/ (NeedsAssets(sel) \/ compiles) /\ Stop("error") /\ DropScratch
  /\ UNCHANGED <<input, choice, probe, temp, out, kind, given>>

LinkerKind == IF sel.flavor = "driver" THEN "cc" ELSE "linker"

\* execute::run: the linker cannot be started, fails, or leaves no or an empty file, and
\* the output is removed; or it succeeds.
Execute ==
  /\ pc = "execute"
  /\ spawned' = spawned \cup {LinkerKind}
  /\ given' = InputsLinked(sel, o, CFiles)
  /\ \/ /\ NewOutput("new")
        /\ IF o.run THEN Goto("run") /\ UNCHANGED <<scratch, kind>>
           ELSE Stop("ok") /\ kind' = "exe" /\ DropScratch
     \/ NewOutput("absent") /\ Stop("error") /\ DropScratch /\ UNCHANGED kind
  /\ UNCHANGED <<input, choice, probe, temp>>

\* Mutant: the process exits with the program's status before the directory is removed.
RunObjectLeaking ==
  /\ pc = "run"
  /\ spawned' = spawned \cup {"program"} /\ kind' = "run"
  /\ \/ Stop("ok") /\ DropScratch
     \/ Stop("child") /\ UNCHANGED scratch
  /\ UNCHANGED <<input, choice, probe, temp, out, given>>

\* The directory is removed after the program ends and before its status is passed on.
RunObject ==
  /\ pc = "run"
  /\ spawned' = spawned \cup {"program"} /\ kind' = "run"
  /\ \E e \in {"ok", "child", "error"} : Stop(e)
  /\ DropScratch
  /\ UNCHANGED <<input, choice, probe, temp, out, given>>
-----------------------------------------------------------------------------
(* Looking for a C compiler: find_c_compiler. *)

Chosen(c) ==
  /\ compiler' = c
  /\ Goto(IF backend = "c" THEN "compile" ELSE "driver")
  /\ UNCHANGED <<input, backend, target, shim, sel, probe, files, given>>

\* A compiler that is taken without being asked whether it runs.
Found(c) == Chosen(c) /\ UNCHANGED spawned

Discover ==
  /\ pc = "discover"
  /\ IF m.cc # "none" THEN Found(Override(m))
     ELSE Goto("probe") /\ UNCHANGED <<input, choice, probe, files, trace>>

\* Mutant: a bundled compiler is waited for until it answers.
ProbeForever ==
  /\ pc = "probe" /\ cand <= Len(Bundled(m))
  /\ Bundled(m)[cand].answers = "never"
  /\ UNCHANGED vars

\* compiler_can_execute: a compiler that does not answer in time is killed and skipped.
ProbeWaits ==
  /\ pc = "probe" /\ cand <= Len(Bundled(m))
  /\ Bundled(m)[cand].answers = "never"
  /\ IF waited < ProbeTicks THEN waited' = waited + 1 /\ UNCHANGED cand
     ELSE waited' = 0 /\ cand' = cand + 1
  /\ spawned' = spawned \cup {"cc"}
  /\ UNCHANGED <<input, pc, exit, choice, runtime, files, given>>

\* It answers, or it fails or cannot even be started and the next one is tried.
ProbeAnswers ==
  /\ pc = "probe" /\ cand <= Len(Bundled(m))
  /\ LET c == Bundled(m)[cand] IN
       \/ /\ c.answers = "yes"
          /\ Chosen(Compiler(c.kind, "bundled"))
          /\ spawned' = spawned \cup {"cc"}
       \/ /\ c.answers = "no"
          /\ cand' = cand + 1
          /\ spawned' \in {spawned, spawned \cup {"cc"}}
          /\ UNCHANGED <<input, pc, exit, choice, waited, runtime, files, given>>

\* Without any compiler the C backend exits where it stands; a link reports an error.
ProbeHost ==
  /\ pc = "probe" /\ cand > Len(Bundled(m))
  /\ \/ HostCompiler(m) # NoCompiler /\ Found(HostCompiler(m))
     \/ HostCompiler(m) = NoCompiler /\ backend = "c" /\ Fail
     \/ HostCompiler(m) = NoCompiler /\ backend # "c" /\ Found(NoCompiler)
-----------------------------------------------------------------------------
(* The C backend. *)

\* Mutant: C source output is looked at before --run.
GenerateEmitFirst ==
  /\ pc = "generate"
  /\ \/ CSourceOutput(o) /\ UNCHANGED shim /\ (Deliver("c") \/ WriteFails)
     \/ ~CSourceOutput(o) /\ Goto("temp") /\ UNCHANGED <<input, choice, probe, files, trace>>

Generate ==
  /\ pc = "generate"
  /\ \/ o.run /\ o.cross # "none" /\ Fail
     \/ /\ ~o.run /\ CSourceOutput(o)
        /\ UNCHANGED shim /\ (Deliver("c") \/ WriteFails)
     \/ /\ IF o.run THEN o.cross = "none" ELSE ~CSourceOutput(o)
        /\ Goto("temp") /\ UNCHANGED <<input, choice, probe, files, trace>>

\* The directory, the generated C and the runtime's sources: a failed write exits and
\* leaves the directory.
CreateTemp ==
  /\ pc = "temp"
  /\ \/ Fail
     \/ temp' = "present" /\ Stop("error")
     \/ temp' = "present" /\ Goto(IF o.cross = "none" THEN "discover" ELSE "cross_cc")
  /\ UNCHANGED <<input, choice, probe, scratch, out, kind, trace>>

CrossCompiler ==
  /\ pc = "cross_cc"
  /\ IF CrossReady(o, m) THEN Found(Compiler(IF o.cross = "wasi" THEN "clang" ELSE "gcc", "host"))
     ELSE Fail

Used == CompilerUsed(compiler, m, Freestanding(o, m))

\* compile_to_executable removes the directory, run_program does not.
CompileC ==
  /\ pc = "compile"
  /\ spawned' = spawned \cup {"cc"}
  /\ given' = InputsCompiled(o, Used)
  /\ temp' = IF o.run THEN temp ELSE "removed"
  /\ \/ /\ ~MissingIn(given') /\ NewOutput("new")
        /\ IF o.run THEN Goto("c_run") /\ UNCHANGED kind ELSE Stop("ok") /\ kind' = "exe"
     \/ Stop("error") /\ UNCHANGED <<out, kind>>
  /\ UNCHANGED <<input, choice, probe, scratch>>

RunC ==
  /\ pc = "c_run"
  /\ spawned' = spawned \cup {"program"} /\ kind' = "run"
  /\ \E e \in {"ok", "child", "error"} : Stop(e)
  /\ UNCHANGED <<input, choice, probe, scratch, temp, out, given>>

Done == pc = "done" /\ UNCHANGED vars

Next ==
  \/ ParseArg \/ BadArg \/ PrintAndStop \/ Select \/ Validate \/ Frontend
  \/ CompileObject \/ EmitObject \/ Gate \/ PassGate
  \/ StartInProcess \/ LinkInProcess
  \/ CreateScratch \/ FindArchive \/ CrossGate \/ ChooseLinker \/ ChooseDriver
  \/ MakePlan \/ Execute \/ RunObject
  \/ Discover \/ ProbeWaits \/ ProbeAnswers \/ ProbeHost
  \/ Generate \/ CreateTemp \/ CrossCompiler \/ CompileC \/ RunC
  \/ Done

Spec == Init /\ [][Next]_vars
\* The compiler keeps running: the programs it starts, other than a bundled compiler that
\* is only probed, are taken to end.
FairSpec == Spec /\ WF_vars(Next)
-----------------------------------------------------------------------------
TypeOK ==
  /\ m \in Machines /\ DOMAIN o = DOMAIN NoOptions /\ argc \in 0 .. MaxArgs
  /\ exit \in {"none", "ok", "error", "child", "fatal", "panic"}
  /\ pc = "done" <=> exit # "none"
  /\ backend \in Backends \cup {"none"} /\ target \in NativeTargets \cup {"none"}
  /\ shim \in BOOLEAN /\ archive \in {"none", "core", "gfx", "full", "hosted"}
  /\ cand \in 1 .. Len(Bundled(m)) + 1 /\ waited \in 0 .. ProbeTicks
  /\ scratch \in {"none", "present", "removed"} /\ temp \in {"none", "present", "removed"}
  /\ out \in {"absent", "old", "partial", "new"}
  /\ kind \in {"none", "text", "c", "ir", "object", "exe", "run"}
  /\ given \subseteq {"c", "obj", "lib"}
  /\ spawned \subseteq {"cc", "script", "linker", "program"}

\* The strict profile's promise (no_toolchain.rs): whatever the options, the environment
\* variables and the files that are missing, no route leads to a C compiler, be it to
\* compile, to link, to build the runtime archive or only to be asked for its version.
StrictStartsNoCompiler == Strict(m) => spawned \cap {"cc", "script"} = {}

\* An installed build that packages a linker links a freestanding program without C
\* sources with it or with the linker the user named, and never falls back to a C
\* compiler when something goes wrong on the way (driver.rs, no_silent_fallback_error).
NoSilentFallback ==
  (/\ backend \in {"llvm", "cranelift"} /\ PackagedAssets(m)
   /\ Mode = "freestanding" /\ ~CFiles /\ m.builder # "explicit"
   /\ "cc" \in spawned)
    => m.linker \/ m.flavor = "compiler-driver"

\* However the compiler ends, the private directory of an object backend is gone, and so
\* is that of a C compilation that got as far as its compiler, unless the program was to
\* be run; and a link that failed leaves no file that could be taken for its result
\* (execute.rs).  Only the in-process linker's breakdown ends the process too early.
NothingLeftBehind ==
  exit \notin {"none", "fatal"} =>
    /\ scratch # "present"
    /\ backend = "c" /\ "cc" \in spawned /\ ~o.run /\ compiler # NoCompiler => temp # "present"
    /\ backend \in {"llvm", "cranelift"} /\ ~LlvmIrOutput(o) /\ o.output # "o" /\ exit = "error"
         => out \in {"absent", "old"}

\* A successful exit delivered what the command line asks for, freshly made and with every
\* object and library named there, unless cl.exe compiled it.  Options that contradict each
\* other end in an error, except that --run goes before an output name, and that the C
\* backend writes an executable under any name that does not end in .c.
Delivered ==
  exit = "ok" /\ kind # "text" =>
    /\ kind = "run" <=> o.run
    /\ kind = "c" <=> CSourceOutput(o) /\ ~o.run
    /\ kind = "ir" <=> LlvmIrOutput(o)
    /\ backend # "c" /\ ~LlvmIrOutput(o) => (kind = "object" <=> o.output = "o")
    /\ ~o.run /\ o.output # "none" => out = "new"
    /\ kind \in {"exe", "run"} /\ ~(backend = "c" /\ Used.kind = "cl") => UserInputs(o) \subseteq given

\* The runtime archive holds everything the linked objects may refer to: the program's
\* own needs, and any part of the runtime when other objects are linked with it
\* (link/mod.rs, capability.rs).  The in-process linker is the exception.
ArchiveSuffices ==
  backend \in {"llvm", "cranelift"} /\ kind \in {"exe", "run"} =>
    /\ Holds(archive, uses)
    /\ UserInputs(o) # {} /\ ~UsesInProcess => Holds(archive, "full")

\* The compiler ends, also when a bundled compiler it tries out never answers.
Ends == <>(pc = "done")
=============================================================================
