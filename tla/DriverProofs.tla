---------------------------- MODULE DriverProofs ----------------------------
(***************************************************************************)
(* What every run of the compiler keeps, for every set of well configured  *)
(* machines and every command line.                                        *)
(*                                                                         *)
(* The promises look at the end of a run or at the programs it has         *)
(* started.  The inductive invariant says where in its course the run is:  *)
(* what the command line was checked for, what the linker was selected     *)
(* for, which directories exist and what the last linker was given.        *)
(***************************************************************************)
EXTENDS Driver, TLAPS

\* The steps of the object backends, and those of the C backend only.
ObjectSteps == {"object", "emit", "gate", "inprocess", "lld", "scratch", "archive", "cross",
                "linker", "driver", "plan", "execute", "run"}
CSteps == {"generate", "temp", "cross_cc", "compile", "c_run"}
\* Both look for a compiler.
Searching == {"discover", "probe"}
Steps == ObjectSteps \cup CSteps \cup Searching \cup {"args", "validate", "frontend", "done"}

\* The backend whose step it is, an object backend's or the C backend's.
ForObjects == pc \in ObjectSteps \/ (pc \in Searching /\ backend # "c")
ForC == pc \in CSteps \/ (pc \in Searching /\ backend = "c")

\* The command line is read first and then checked, and stays as it is.
CommandOK ==
  /\ DOMAIN o = DOMAIN NoOptions /\ o.cross \in {"none", "riscv64", "wasi"}
  /\ pc \notin {"args", "validate", "done"} =>
       /\ Accepted
       /\ backend # "c" => target \in NativeTargets

\* A step belongs to a backend, and a search for a compiler to a reason.
StepsOK ==
  /\ pc \in Steps
  /\ pc = "done" <=> exit # "none"
  /\ pc \in ObjectSteps => backend # "c"
  /\ pc \in CSteps => backend = "c"
  /\ ForObjects /\ pc \in Searching \cup {"driver"} => sel.source = "search"
  /\ pc \in {"plan", "execute"} => sel # Refused
  /\ pc \in {"run", "c_run"} => o.run
  /\ pc \in {"inprocess", "lld"} => UsesInProcess
  /\ pc \in {"args", "validate", "frontend", "object"} => sel = Refused /\ spawned = {}

\* What a linker was selected for: nothing is a compiler driver under the strict
\* profile, a direct linker gets no C source, and a package with a linker uses it.
SelectionOK(s, t, mode, cFiles) ==
  /\ s = Refused \/ s.flavor = "driver" \/ ~cFiles
  /\ s.source = "search" => s.flavor = "driver"
  /\ Strict(m) => s.flavor # "driver"
  /\ (s.flavor = "driver" /\ PackagedAssets(m) /\ mode = "freestanding" /\ ~cFiles
       /\ t \in NativeTargets)
       => m.linker \/ m.flavor = "compiler-driver"

\* What the run has started so far.
ProgramsOK ==
  /\ SelectionOK(sel, target, Mode, CFiles)
  /\ StrictStartsNoCompiler
  /\ NoSilentFallback

\* The directories and the output file, up to the end of the run.
FilesOK ==
  /\ scratch = "present" =>
       \/ exit = "fatal"
       \/ pc = "lld" /\ o.run
       \/ ForObjects /\ pc \notin {"object", "emit", "gate", "inprocess", "scratch", "lld"}
  /\ pc = "args" \/ (backend = "c" /\ pc \notin {"compile", "c_run", "done"})
       => compiler = NoCompiler
  /\ pc # "done" => out \in {"absent", "old"} /\ kind = "none"
  /\ NothingLeftBehind

\* Which outputs are out of question, and what was linked.
OutputOK ==
  /\ ForObjects /\ pc # "object" => ~LlvmIrOutput(o)
  /\ ForObjects /\ pc \notin {"object", "emit"} => o.output # "o"
  /\ ForC /\ pc # "generate" => o.run \/ ~CSourceOutput(o)
  /\ pc = "run" => UserInputs(o) \subseteq given
  /\ pc = "c_run" => Used.kind = "cl" \/ UserInputs(o) \subseteq given
  /\ Delivered

\* The archive that is linked, from the step that chooses it on.
ArchiveOK ==
  /\ ForObjects /\ pc \in {"lld", "run", "cross", "linker", "driver", "plan", "execute"} \cup Searching
       => /\ Holds(archive, uses)
          /\ UserInputs(o) # {} /\ ~UsesInProcess => Holds(archive, "full")
  /\ ArchiveSuffices

IInv == CommandOK /\ StepsOK /\ ProgramsOK /\ FilesOK /\ OutputOK /\ ArchiveOK
-----------------------------------------------------------------------------
\* The machine never changes; once the command line is checked, neither do the
\* options, the backend and the target.
LEMMA InputKept ==
  ASSUME [Next]_vars
  PROVE  /\ m' = m
         /\ pc # "args" => o' = o /\ backend' = backend
         /\ pc \notin {"args", "validate"} => target' = target
<1> USE DEF input, choice, probe, runtime, files, trace, Goto, Stop, Fail
<1>1. CASE ParseArg \/ BadArg \/ PrintAndStop \/ Select \/ Validate \/ Frontend
  BY <1>1 DEF ParseArg, BadArg, PrintAndStop, Select, Validate, Frontend
<1>2. CASE CompileObject \/ EmitObject \/ Gate \/ PassGate
  BY <1>2 DEF CompileObject, EmitObject, Gate, PassGate, Deliver, WriteFails
<1>3. CASE StartInProcess \/ LinkInProcess \/ CreateScratch \/ FindArchive
  BY <1>3 DEF StartInProcess, LinkInProcess, CreateScratch, FindArchive
<1>4. CASE CrossGate \/ ChooseLinker \/ ChooseDriver \/ MakePlan \/ Execute \/ RunObject
  BY <1>4 DEF CrossGate, ChooseLinker, ChooseDriver, MakePlan, Execute, RunObject, LinkFails
<1>5. CASE Discover \/ ProbeWaits \/ ProbeAnswers \/ ProbeHost
  BY <1>5 DEF Discover, ProbeWaits, ProbeAnswers, ProbeHost, Found, Chosen
<1>6. CASE Generate \/ CreateTemp \/ CrossCompiler \/ CompileC \/ RunC
  BY <1>6 DEF Generate, CreateTemp, CrossCompiler, CompileC, RunC, Found, Chosen, Deliver, WriteFails
<1>7. CASE Done \/ UNCHANGED vars
  BY <1>7 DEF Done, vars
<1> QED
  BY <1>1, <1>2, <1>3, <1>4, <1>5, <1>6, <1>7 DEF Next

\* A target that is chosen is one of the native targets.
LEMMA TargetNative ==
  ASSUME NativeTarget(o, m) # "none"
  PROVE  NativeTarget(o, m) \in NativeTargets
BY DEF NativeTarget, NativeTargets, Host, ElfTargets, WindowsX64

\* Where a step leads.
LEMMA CommandStep == ASSUME IInv, [Next]_vars PROVE CommandOK'
<1> USE DEF input, choice, probe, runtime, files, trace, Goto, Stop, Fail
<1>1. CASE ParseArg
  <2>1. PICK a \in Arguments : o' = [o EXCEPT ![a[1]] = a[2]]
    BY <1>1 DEF ParseArg
  <2>2. DOMAIN o' = DOMAIN o
    BY <2>1
  <2>3. o'.cross \in {"none", "riscv64", "wasi"}
    <3>1. a[1] = "cross" => a[2] \in {"riscv64", "wasi"}
      BY <2>1 DEF Arguments
    <3>2. "cross" \in DOMAIN o
      BY DEF IInv, CommandOK, NoOptions
    <3>3. o'.cross = IF a[1] = "cross" THEN a[2] ELSE o.cross
      BY <2>1, <3>2
    <3> QED
      BY <3>1, <3>3 DEF IInv, CommandOK
  <2>4. pc' = "args"
    BY <1>1 DEF ParseArg
  <2> QED
    BY <2>2, <2>3, <2>4 DEF IInv, CommandOK
<1>2. CASE Select
  BY <1>2 DEF Select, IInv, CommandOK
<1>3. CASE Validate
  BY <1>3, TargetNative DEF Validate, Accepted, IInv, CommandOK
<1>4. CASE pc \in {"args", "validate"} /\ ~ParseArg /\ ~Select /\ ~Validate
  <2>1. CASE BadArg \/ PrintAndStop
    BY <2>1 DEF BadArg, PrintAndStop, IInv, CommandOK
  <2>2. CASE Next /\ ~BadArg /\ ~PrintAndStop
    BY <1>4, <2>2
    DEF Next, Frontend, CompileObject, EmitObject, Gate, PassGate, StartInProcess,
        LinkInProcess, CreateScratch, FindArchive, CrossGate, ChooseLinker, ChooseDriver,
        MakePlan, Execute, RunObject, Discover, ProbeWaits, ProbeAnswers, ProbeHost,
        Generate, CreateTemp, CrossCompiler, CompileC, RunC, Done
  <2>3. CASE UNCHANGED vars
    BY <2>3 DEF vars, IInv, CommandOK, Accepted
  <2> QED
    BY <2>1, <2>2, <2>3
<1>5. CASE pc \notin {"args", "validate"}
  <2>1. o' = o /\ backend' = backend /\ m' = m /\ target' = target
    BY <1>5, InputKept
  <2>2. pc = "done" => pc' = "done"
    BY <1>5
    DEF Next, Frontend, CompileObject, EmitObject, Gate, PassGate, StartInProcess,
        LinkInProcess, CreateScratch, FindArchive, CrossGate, ChooseLinker, ChooseDriver,
        MakePlan, Execute, RunObject, Discover, ProbeWaits, ProbeAnswers, ProbeHost,
        Generate, CreateTemp, CrossCompiler, CompileC, RunC, Done, vars, ParseArg, BadArg,
        PrintAndStop, Select, Validate
  <2> QED
    BY <1>5, <2>1, <2>2 DEF IInv, CommandOK, Accepted
<1> QED
  BY <1>1, <1>2, <1>3, <1>4, <1>5

\* Every step leads to a step of the same backend; a search is started for the C
\* backend or for a linker that has to be searched for.
LEMMA StepsStep == ASSUME IInv, [Next]_vars PROVE StepsOK'
<1> USE DEF Goto, Stop, Fail, input, choice, probe, runtime, files, trace,
            IInv, StepsOK, Steps, ObjectSteps, CSteps, Searching, ForObjects
<1>1. CASE ParseArg \/ BadArg \/ PrintAndStop \/ Select \/ Validate \/ Frontend
  BY <1>1 DEF ParseArg, BadArg, PrintAndStop, Select, Validate, Frontend
<1>2. CASE CompileObject \/ EmitObject \/ Gate
  BY <1>2 DEF CompileObject, EmitObject, Gate, Deliver, WriteFails
<1>3. CASE PassGate
  <2>1. UsesInProcess' = UsesInProcess
    BY <1>3 DEF PassGate, UsesInProcess, Mode
  <2> QED
    BY <1>3, <2>1 DEF PassGate
<1>4. CASE StartInProcess
  <2>1. UsesInProcess' = UsesInProcess
    BY <1>4 DEF StartInProcess, UsesInProcess, Mode
  <2> QED
    BY <1>4, <2>1 DEF StartInProcess
<1>5. CASE LinkInProcess \/ CreateScratch \/ FindArchive
  BY <1>5 DEF LinkInProcess, CreateScratch, FindArchive, DropScratch
<1>6. CASE CrossGate \/ ChooseLinker
  BY <1>6 DEF CrossGate, LinkFails, ChooseLinker
<1>7. CASE ChooseDriver \/ MakePlan
  BY <1>7 DEF ChooseDriver, MakePlan, Refused, Selection
<1>8. CASE Execute \/ RunObject
  BY <1>8 DEF Execute, RunObject
<1>9. CASE Discover \/ ProbeWaits \/ ProbeAnswers \/ ProbeHost
  BY <1>9 DEF Discover, ProbeWaits, ProbeAnswers, ProbeHost, Found, Chosen
<1>10. CASE Generate \/ CreateTemp \/ CrossCompiler \/ CompileC \/ RunC
  BY <1>10 DEF Generate, CreateTemp, CrossCompiler, CompileC, RunC, Found, Chosen, Deliver, WriteFails
<1>11. CASE Done \/ UNCHANGED vars
  <2>1. UsesInProcess' = UsesInProcess
    BY <1>11 DEF Done, vars, UsesInProcess, Mode
  <2> QED
    BY <1>11, <2>1 DEF Done, vars
<1> QED
  BY <1>1, <1>2, <1>3, <1>4, <1>5, <1>6, <1>7, <1>8, <1>9, <1>10, <1>11 DEF Next

\* The linker is selected for what SelectionOK says.
LEMMA SelectsWell ==
  ASSUME NEW t, NEW mode, NEW cFiles \in BOOLEAN
  PROVE  SelectionOK(SelectLinker(m, t, mode, cFiles), t, mode, cFiles)
<1> DEFINE s == SelectLinker(m, t, mode, cFiles)
<1> SUFFICES SelectionOK(s, t, mode, cFiles)
  OBVIOUS
<1> USE DEF Selection, Refused
<1>1. ASSUME NEW source \in {"search", "override"}, s = CompilerDriver(m, source),
             s = Refused \/ m.linker \/ m.flavor = "compiler-driver"
               \/ ~(PackagedAssets(m) /\ mode = "freestanding" /\ ~cFiles
                     /\ t \in NativeTargets)
      PROVE  SelectionOK(s, t, mode, cFiles)
  <2> HIDE DEF s
  <2> QED
    BY <1>1 DEF SelectionOK, CompilerDriver
<1>2. ASSUME NEW flavor \in {"mingw", "elf"}, s = DirectLinker(m, flavor, t, mode, cFiles)
      PROVE  SelectionOK(s, t, mode, cFiles)
  <2>1. s = Refused \/ (s.flavor = flavor /\ s.source \in {"override", "packaged"}
                         /\ Eligible(flavor, t, mode, cFiles))
    <3> HIDE DEF s
    <3> QED
      BY <1>2 DEF DirectLinker
  <2> HIDE DEF s
  <2> QED
    BY <2>1 DEF SelectionOK, Eligible, MingwEligible, ElfEligible
<1>3. CASE m.flavor \in {"mingw", "elf"}
  BY <1>2, <1>3 DEF SelectLinker
<1>4. CASE m.flavor = "compiler-driver"
  BY <1>1, <1>4 DEF SelectLinker
<1>5. CASE m.flavor = "none"
  <2>1. CASE m.linker
    BY <1>1, <1>5, <2>1 DEF SelectLinker
  <2>2. CASE ~m.linker /\ PackagedAssets(m)
             /\ (MingwEligible(t, mode, cFiles) \/ ElfEligible(t, mode, cFiles))
    <3>1. ~cFiles
      BY <2>2 DEF MingwEligible, ElfEligible
    <3>2. s.flavor \in {"mingw", "elf"} /\ s.source = "packaged"
      BY <1>5, <2>2 DEF SelectLinker
    <3> HIDE DEF s
    <3> QED
      BY <3>1, <3>2 DEF SelectionOK
  <2>3. CASE ~m.linker /\ ~(PackagedAssets(m)
             /\ (MingwEligible(t, mode, cFiles) \/ ElfEligible(t, mode, cFiles)))
    <3>1. s = CompilerDriver(m, "search")
      BY <1>5, <2>3 DEF SelectLinker
    <3>2. ~(PackagedAssets(m) /\ mode = "freestanding" /\ ~cFiles /\ t \in NativeTargets)
      BY <2>3 DEF MingwEligible, ElfEligible, NativeTargets
    <3> HIDE DEF s
    <3> QED
      BY <1>1, <3>1, <3>2
  <2> QED
    BY <2>1, <2>2, <2>3
<1>6. CASE m.flavor \notin {"mingw", "elf", "compiler-driver", "none"}
  <2>1. s = Refused
    BY <1>6 DEF SelectLinker
  <2> HIDE DEF s
  <2> QED
    BY <2>1 DEF SelectionOK
<1> QED
  BY <1>3, <1>4, <1>5, <1>6

\* A step that starts no C compiler.
LEMMA ProgramsKept ==
  ASSUME IInv, m' = m, sel' = sel, spawned' \subseteq spawned \cup {"linker", "program"},
         \/ UNCHANGED <<o, backend, target, shim>>
         \/ sel = Refused /\ spawned = {} /\ spawned' = {}
  PROVE  ProgramsOK'
<1> USE DEF IInv, ProgramsOK, StrictStartsNoCompiler, NoSilentFallback
<1>1. CASE UNCHANGED <<o, backend, target, shim>>
  <2>1. Mode' = Mode /\ CFiles' = CFiles
    BY <1>1 DEF Mode, CFiles
  <2> QED
    BY <1>1, <2>1 DEF SelectionOK
<1>2. CASE sel = Refused /\ spawned = {} /\ spawned' = {}
  BY <1>2 DEF SelectionOK, Refused, Selection
<1> QED
  BY <1>1, <1>2

\* Why a C compiler may be started: the C backend, or a link that needs one.
MayStartCc ==
  /\ ~Strict(m)
  /\ \/ backend = "c" \/ ~PackagedAssets(m) \/ Mode # "freestanding" \/ CFiles
     \/ m.builder = "explicit" \/ m.linker \/ m.flavor = "compiler-driver"

\* A step that may start one.
LEMMA ProgramsStarted ==
  ASSUME IInv, UNCHANGED <<m, o, backend, target, shim>>,
         SelectionOK(sel', target, Mode, CFiles),
         (spawned' \cap {"cc", "script"} # {}) => MayStartCc \/ spawned' \subseteq spawned
  PROVE  ProgramsOK'
<1>1. Mode' = Mode /\ CFiles' = CFiles
  BY DEF Mode, CFiles
<1>2. SelectionOK(sel, target, Mode, CFiles)'
  BY <1>1 DEF SelectionOK
<1>3. StrictStartsNoCompiler'
  BY DEF IInv, ProgramsOK, StrictStartsNoCompiler, MayStartCc
<1>4. NoSilentFallback'
  BY <1>1 DEF IInv, ProgramsOK, NoSilentFallback, MayStartCc
<1> QED
  BY <1>2, <1>3, <1>4 DEF ProgramsOK

\* A compiler driver is selected only where one may be started.
LEMMA DriverMayStart ==
  ASSUME IInv, sel.flavor = "driver", pc \in ObjectSteps \cup Searching, backend # "c"
  PROVE  MayStartCc
<1>1. target \in NativeTargets
  BY DEF IInv, CommandOK, ObjectSteps, Searching
<1> QED
  BY <1>1 DEF IInv, ProgramsOK, SelectionOK, MayStartCc

\* The strict profile does not run the C backend.
LEMMA CMayStart == ASSUME IInv, ForC PROVE backend = "c" /\ MayStartCc
<1>1. backend = "c" /\ pc \notin {"args", "validate", "done"}
  BY DEF IInv, StepsOK, ForC, CSteps, Searching
<1> QED
  BY <1>1 DEF IInv, CommandOK, Accepted, StrictAllows, MayStartCc

\* No step starts a program that the promises exclude.
LEMMA ProgramsStep == ASSUME IInv, [Next]_vars PROVE ProgramsOK'
<1> USE DEF Goto, Stop, Fail, input, choice, probe, runtime, files, trace
<1>0. m' = m /\ (pc # "args" => o' = o /\ backend' = backend)
      /\ (pc \notin {"args", "validate"} => target' = target)
  BY InputKept
<1>1. CASE ParseArg \/ BadArg \/ PrintAndStop \/ Select \/ Validate \/ Frontend \/ CompileObject
  <2>1. sel = Refused /\ spawned = {}
    BY <1>1
    DEF IInv, StepsOK, ParseArg, BadArg, PrintAndStop, Select, Validate, Frontend,
        CompileObject
  <2>2. sel' = sel /\ spawned' = spawned
    BY <1>1
    DEF ParseArg, BadArg, PrintAndStop, Select, Validate, Frontend, CompileObject,
        Deliver, WriteFails
  <2> QED
    BY <1>0, <2>1, <2>2, ProgramsKept
<1>2. CASE EmitObject \/ Gate \/ PassGate \/ StartInProcess \/ LinkInProcess
           \/ CreateScratch \/ CrossGate
  <2>1. UNCHANGED <<o, backend, target, shim, sel, spawned>>
    BY <1>0, <1>2
    DEF EmitObject, Gate, PassGate, StartInProcess, LinkInProcess, CreateScratch, CrossGate,
        LinkFails, Deliver, WriteFails
  <2> QED
    BY <1>0, <2>1, ProgramsKept
<1>3. CASE FindArchive
  <2>1. UNCHANGED <<o, backend, target, shim, sel>>
    BY <1>0, <1>3 DEF FindArchive
  <2>2. ArchiveSource(m, archive') = "build" => MayStartCc
    BY DEF ArchiveSource, MayBuildArchive, MayStartCc
  <2>3. spawned' # spawned => MayStartCc
    BY <1>3, <2>2 DEF FindArchive
  <2> QED
    BY <1>0, <2>1, <2>3, ProgramsStarted DEF IInv, ProgramsOK
<1>4. CASE ChooseLinker
  <2>1. UNCHANGED <<o, backend, target, shim, spawned>> /\ pc = "linker"
    BY <1>0, <1>4 DEF ChooseLinker
  <2>2. sel' = SelectLinker(m, target, Mode, CFiles)
    BY <1>4 DEF ChooseLinker
  <2>3. SelectionOK(sel', target, Mode, CFiles)
    <3>1. CFiles \in BOOLEAN
      BY DEF CFiles
    <3> QED
      BY <2>2, <3>1, SelectsWell
  <2> QED
    BY <1>0, <2>1, <2>3, ProgramsStarted
<1>5. CASE ChooseDriver
  <2>1. UNCHANGED <<o, backend, target, shim, sel>>
    BY <1>0, <1>5 DEF ChooseDriver
  <2>2. pc = "driver" /\ backend # "c" /\ sel.flavor = "driver"
    BY <1>5
    DEF ChooseDriver, IInv, StepsOK, ProgramsOK, SelectionOK, ObjectSteps, ForObjects
  <2>3. MayStartCc
    BY <2>2, DriverMayStart DEF ObjectSteps
  <2> QED
    BY <1>0, <2>1, <2>3, ProgramsStarted DEF IInv, ProgramsOK
<1>6. CASE MakePlan
  <2>1. UNCHANGED <<o, backend, target, shim, sel>>
    BY <1>0, <1>6 DEF MakePlan
  <2>2. sel.flavor = "driver" => MayStartCc
    BY <1>6, DriverMayStart DEF MakePlan, IInv, StepsOK, ObjectSteps
  <2>3. spawned' # spawned => MayStartCc
    BY <1>6, <2>2 DEF MakePlan
  <2> QED
    BY <1>0, <2>1, <2>3, ProgramsStarted DEF IInv, ProgramsOK
<1>7. CASE Execute
  <2>1. UNCHANGED <<o, backend, target, shim, sel>>
    BY <1>0, <1>7 DEF Execute
  <2>2. CASE sel.flavor = "driver"
    <3>1. MayStartCc
      BY <1>7, <2>2, DriverMayStart DEF Execute, IInv, StepsOK, ObjectSteps
    <3> QED
      BY <1>0, <2>1, <3>1, ProgramsStarted DEF IInv, ProgramsOK
  <2>3. CASE sel.flavor # "driver"
    <3>1. spawned' = spawned \cup {"linker"}
      BY <1>7, <2>3 DEF Execute, LinkerKind
    <3> QED
      BY <1>0, <2>1, <3>1, ProgramsKept
  <2> QED
    BY <2>2, <2>3
<1>8. CASE RunObject \/ RunC
  <2>1. UNCHANGED <<o, backend, target, shim, sel>> /\ spawned' = spawned \cup {"program"}
    BY <1>0, <1>8 DEF RunObject, RunC
  <2> QED
    BY <1>0, <2>1, ProgramsKept
<1>9. CASE ProbeWaits \/ ProbeAnswers
  <2>1. UNCHANGED <<o, backend, target, shim, sel>> /\ pc \in Searching
    BY <1>0, <1>9 DEF ProbeWaits, ProbeAnswers, Chosen, Searching
  <2>2. MayStartCc
    <3>1. CASE backend = "c"
      BY <2>1, <3>1, CMayStart DEF ForC
    <3>2. CASE backend # "c"
      <4>1. sel.flavor = "driver"
        BY <2>1, <3>2 DEF IInv, StepsOK, ProgramsOK, SelectionOK, ForObjects
      <4> QED
        BY <2>1, <3>2, <4>1, DriverMayStart
    <3> QED
      BY <3>1, <3>2
  <2> QED
    BY <1>0, <2>1, <2>2, ProgramsStarted DEF IInv, ProgramsOK
<1>10. CASE CompileC
  <2>1. UNCHANGED <<o, backend, target, shim, sel>> /\ MayStartCc
    BY <1>0, <1>10, CMayStart DEF CompileC, ForC, CSteps
  <2> QED
    BY <1>0, <2>1, ProgramsStarted DEF IInv, ProgramsOK
<1>11. CASE Discover \/ ProbeHost \/ Generate \/ CreateTemp \/ CrossCompiler
  <2>1. UNCHANGED <<o, backend, target, shim, sel, spawned>>
    BY <1>0, <1>11
    DEF Discover, ProbeHost, Generate, CreateTemp, CrossCompiler, Found, Chosen,
        Deliver, WriteFails
  <2> QED
    BY <1>0, <2>1, ProgramsKept
<1>12. CASE Done \/ UNCHANGED vars
  <2>1. UNCHANGED <<o, backend, target, shim, sel, spawned>>
    BY <1>12 DEF Done, vars
  <2> QED
    BY <1>0, <2>1, ProgramsKept
<1> QED
  BY <1>1, <1>2, <1>3, <1>4, <1>5, <1>6, <1>7, <1>8, <1>9, <1>10, <1>11, <1>12 DEF Next

\* Every way out removes the directory it has made, and a failed link its output.
LEMMA FilesStep == ASSUME IInv, [Next]_vars PROVE FilesOK'
<1> USE DEF Goto, Stop, Fail, input, choice, probe, runtime, files, trace,
            IInv, StepsOK, Steps, FilesOK, NothingLeftBehind, ForObjects, ObjectSteps, CSteps,
            Searching
<1>0. m' = m /\ (pc # "args" => o' = o /\ backend' = backend)
  BY InputKept
<1>1. CASE ParseArg \/ BadArg \/ PrintAndStop \/ Select \/ Validate \/ Frontend
  <2>1. /\ spawned = {} /\ spawned' = {} /\ scratch # "present" /\ scratch' = scratch
        /\ out \in {"absent", "old"} /\ out' = out /\ kind = "none" /\ compiler' = compiler
    BY <1>1 DEF ParseArg, BadArg, PrintAndStop, Select, Validate, Frontend
  <2>2. kind' = "none" \/ pc' = "done"
    BY <1>1 DEF ParseArg, BadArg, PrintAndStop, Select, Validate, Frontend
  <2>3. \/ pc' = "done"
        \/ pc' = "args" \/ backend' = "c" => compiler = NoCompiler
    BY <1>1 DEF ParseArg, BadArg, PrintAndStop, Select, Validate, Frontend
  <2> QED
    BY <2>1, <2>2, <2>3
<1>2. CASE CompileObject \/ EmitObject
  <2>1. LlvmIrOutput(o') = LlvmIrOutput(o)
    BY <1>0, <1>2 DEF CompileObject, EmitObject
  <2> QED
    BY <1>0, <1>2, <2>1 DEF CompileObject, EmitObject, Deliver, WriteFails
<1>3. CASE Gate \/ PassGate \/ StartInProcess
  BY <1>0, <1>3 DEF Gate, PassGate, StartInProcess, NewOutput
<1>4. CASE LinkInProcess
  BY <1>0, <1>4 DEF LinkInProcess, NewOutput, DropScratch
<1>5. CASE CreateScratch \/ FindArchive
  BY <1>0, <1>5 DEF CreateScratch, FindArchive, DropScratch
<1>6. CASE CrossGate \/ ChooseLinker
  BY <1>0, <1>6 DEF CrossGate, LinkFails, ChooseLinker, DropScratch
<1>7. CASE ChooseDriver \/ MakePlan
  BY <1>0, <1>7 DEF ChooseDriver, MakePlan, DropScratch
<1>8. CASE Execute \/ RunObject
  BY <1>0, <1>8 DEF Execute, RunObject, DropScratch, NewOutput
<1>9. CASE Discover \/ ProbeWaits \/ ProbeAnswers \/ ProbeHost
  BY <1>0, <1>9 DEF Discover, ProbeWaits, ProbeAnswers, ProbeHost, Found, Chosen
<1>10. CASE Generate \/ CreateTemp \/ CrossCompiler
  BY <1>0, <1>10 DEF Generate, CreateTemp, CrossCompiler, Found, Chosen, Deliver, WriteFails
<1>11. CASE CompileC \/ RunC
  BY <1>0, <1>11 DEF CompileC, RunC, NewOutput
<1>12. CASE Done \/ UNCHANGED vars
  BY <1>12 DEF Done, vars
<1> QED
  BY <1>1, <1>2, <1>3, <1>4, <1>5, <1>6, <1>7, <1>8, <1>9, <1>10, <1>11, <1>12 DEF Next

\* What the checks of the command line have ruled out.
LEMMA CheckedOptions ==
  ASSUME IInv, pc \notin {"args", "validate", "done"}
  PROVE  /\ backend # "c" => ~CSourceOutput(o)
         /\ backend = "c" => ~LlvmIrOutput(o)
         /\ ~(LlvmIrOutput(o) /\ o.run)
BY DEF IInv, CommandOK, Accepted, OptionsFit

\* A linker that was selected is given every input of the user.
LEMMA LinkerInputs ==
  ASSUME NEW s, s.flavor = "driver" \/ ~CFiles
  PROVE  UserInputs(o) \subseteq InputsLinked(s, o, CFiles)
BY DEF InputsLinked, DriverInputs, DirectInputs, UserInputs, CFiles

\* So is a compiler other than cl.exe.
LEMMA CompilerInputs ==
  ASSUME NEW c, o.cross \in {"none", "riscv64", "wasi"}, c.kind # "cl"
  PROVE  UserInputs(o) \subseteq InputsCompiled(o, c)
BY DEF InputsCompiled, InputsOfRiscv64, InputsOfWasi, InputsOfMsvc, InputsOfGccOrClang

\* The outputs that are out of question stay so, and a run that ends well has
\* delivered what was asked for.
LEMMA OutputStep == ASSUME IInv, [Next]_vars PROVE OutputOK'
<1> USE DEF Goto, Stop, Fail, input, choice, probe, runtime, files, trace,
            IInv, StepsOK, Steps, FilesOK, OutputOK, Delivered, ForObjects, ForC, ObjectSteps,
            CSteps, Searching
<1>0. m' = m /\ (pc # "args" => o' = o /\ backend' = backend)
  BY InputKept
<1>a. pc # "args" => /\ LlvmIrOutput(o)' = LlvmIrOutput(o)
                     /\ CSourceOutput(o)' = CSourceOutput(o)
                     /\ UserInputs(o)' = UserInputs(o)
                     /\ compiler' = compiler => Used' = Used
  BY <1>0 DEF Used
<1>1. CASE ParseArg \/ BadArg \/ PrintAndStop \/ Select \/ Validate \/ Frontend
  <2>1. pc' \in {"args", "validate", "frontend", "object", "generate"}
          \/ (pc' = "done" /\ (exit' = "error" \/ kind' = "text"))
    BY <1>1 DEF ParseArg, BadArg, PrintAndStop, Select, Validate, Frontend
  <2>2. pc' # "done" => exit' # "ok"
    BY <1>1 DEF ParseArg, BadArg, PrintAndStop, Select, Validate, Frontend
  <2> QED
    BY <2>1, <2>2
<1>2. CASE CompileObject
  BY <1>0, <1>a, <1>2, CheckedOptions DEF CompileObject, Deliver, WriteFails
<1>3. CASE EmitObject
  BY <1>0, <1>a, <1>3, CheckedOptions DEF EmitObject, Deliver, WriteFails
<1>4. CASE Gate \/ PassGate \/ StartInProcess \/ CreateScratch \/ FindArchive
  BY <1>0, <1>a, <1>4 DEF Gate, PassGate, StartInProcess, CreateScratch, FindArchive
<1>5. CASE LinkInProcess
  BY <1>0, <1>a, <1>5, CheckedOptions DEF LinkInProcess, NewOutput
<1>6. CASE CrossGate \/ ChooseLinker
  BY <1>0, <1>a, <1>6 DEF CrossGate, LinkFails, ChooseLinker
<1>7. CASE ChooseDriver \/ MakePlan
  BY <1>0, <1>a, <1>7 DEF ChooseDriver, MakePlan
<1>8. CASE Execute
  <2>1. UserInputs(o) \subseteq given'
    BY <1>8, LinkerInputs DEF Execute, ProgramsOK, SelectionOK
  <2> QED
    BY <1>0, <1>a, <1>8, <2>1, CheckedOptions DEF Execute, NewOutput
<1>9. CASE RunObject
  BY <1>0, <1>a, <1>9, CheckedOptions DEF RunObject
<1>10. CASE Discover \/ ProbeWaits \/ ProbeAnswers \/ ProbeHost
  BY <1>0, <1>a, <1>10 DEF Discover, ProbeWaits, ProbeAnswers, ProbeHost, Found, Chosen
<1>11. CASE Generate
  BY <1>0, <1>a, <1>11, CheckedOptions DEF Generate, Deliver, WriteFails
<1>12. CASE CreateTemp \/ CrossCompiler
  BY <1>0, <1>a, <1>12 DEF CreateTemp, CrossCompiler, Found, Chosen
<1>13. CASE CompileC
  <2>1. Used.kind = "cl" \/ UserInputs(o) \subseteq given'
    BY <1>13, CompilerInputs DEF CompileC, CommandOK
  <2> QED
    BY <1>0, <1>a, <1>13, <2>1, CheckedOptions DEF CompileC, NewOutput
<1>14. CASE RunC
  BY <1>0, <1>a, <1>14, CheckedOptions DEF RunC
<1>15. CASE Done \/ UNCHANGED vars
  <2>1. Used' = Used
    BY <1>15 DEF Done, vars, Used
  <2> QED
    BY <1>15, <2>1 DEF Done, vars
<1> QED
  BY <1>1, <1>2, <1>3, <1>4, <1>5, <1>6, <1>7, <1>8, <1>9, <1>10, <1>11, <1>12, <1>13,
     <1>14, <1>15 DEF Next

\* A smallest archive holds what it was chosen for, the full one holds everything.
LEMMA ArchiveHolds ==
  ASSUME NEW mode, NEW cFiles \in BOOLEAN, NEW u \in {"core", "full"}
  PROVE  LET a == ArchiveName(o, mode, cFiles, u)
         IN  Holds(a, u) /\ (UserInputs(o) # {} => Holds(a, "full"))
BY DEF ArchiveName, Holds, Profiles

\* The archive that was chosen stays the one that is linked.
LEMMA ArchiveStep == ASSUME IInv, [Next]_vars PROVE ArchiveOK'
<1> USE DEF Goto, Stop, Fail, input, choice, probe, runtime, files, trace,
            IInv, StepsOK, Steps, FilesOK, ArchiveOK, ArchiveSuffices, ForObjects, ObjectSteps,
            CSteps, Searching
<1>0. m' = m /\ (pc # "args" => o' = o /\ backend' = backend)
  BY InputKept
<1>a. pc # "args" => /\ UserInputs(o)' = UserInputs(o)
                     /\ shim' = shim => UsesInProcess' = UsesInProcess
  BY <1>0 DEF UsesInProcess, Mode
<1>1. CASE ParseArg \/ BadArg \/ PrintAndStop \/ Select \/ Validate \/ Frontend
  BY <1>1 DEF ParseArg, BadArg, PrintAndStop, Select, Validate, Frontend
<1>2. CASE CompileObject \/ EmitObject \/ Gate \/ PassGate
  BY <1>0, <1>2 DEF CompileObject, EmitObject, Gate, PassGate, Deliver, WriteFails
<1>3. CASE StartInProcess
  <2>1. pc' = "lld" => /\ uses' \in {"core", "full"} /\ archive' = uses'
                       /\ UsesInProcess' /\ kind' = "none"
    BY <1>a, <1>3 DEF StartInProcess
  <2>2. Holds("core", "core") /\ Holds("full", "full")
    BY DEF Holds, Profiles
  <2>3. pc' \in {"lld", "done"} /\ kind' = "none"
    BY <1>3 DEF StartInProcess
  <2> QED
    BY <2>1, <2>2, <2>3
<1>4. CASE LinkInProcess
  BY <1>0, <1>a, <1>4 DEF LinkInProcess
<1>5. CASE CreateScratch
  BY <1>0, <1>5 DEF CreateScratch
<1>6. CASE FindArchive
  <2>1. /\ uses' \in {"core", "full"} /\ kind' = "none"
        /\ archive' = ArchiveName(o, Mode, CFiles, uses')
        /\ UserInputs(o)' = UserInputs(o)
    BY <1>a, <1>6 DEF FindArchive
  <2>2. CFiles \in BOOLEAN
    BY DEF CFiles
  <2>3. Holds(archive', uses') /\ (UserInputs(o) # {} => Holds(archive', "full"))
    BY <2>1, <2>2, ArchiveHolds
  <2> QED
    BY <2>1, <2>3
<1>7. CASE CrossGate \/ ChooseLinker \/ ChooseDriver \/ MakePlan
  BY <1>0, <1>a, <1>7 DEF CrossGate, LinkFails, ChooseLinker, ChooseDriver, MakePlan
<1>8. CASE Execute \/ RunObject
  BY <1>0, <1>a, <1>8 DEF Execute, RunObject
<1>9. CASE Discover \/ ProbeWaits \/ ProbeAnswers \/ ProbeHost
  BY <1>0, <1>a, <1>9 DEF Discover, ProbeWaits, ProbeAnswers, ProbeHost, Found, Chosen
<1>10. CASE Generate \/ CreateTemp \/ CrossCompiler \/ CompileC \/ RunC
  BY <1>0, <1>10 DEF Generate, CreateTemp, CrossCompiler, CompileC, RunC, Found, Chosen, Deliver, WriteFails
<1>11. CASE Done \/ UNCHANGED vars
  <2>1. UsesInProcess' = UsesInProcess
    BY <1>11 DEF Done, vars, UsesInProcess, Mode
  <2> QED
    BY <1>11, <2>1 DEF Done, vars
<1> QED
  BY <1>1, <1>2, <1>3, <1>4, <1>5, <1>6, <1>7, <1>8, <1>9, <1>10, <1>11 DEF Next
-----------------------------------------------------------------------------
\* A run starts with an executable of an earlier compilation and nothing else.
LEMMA InitIInv == Init => IInv
<1> SUFFICES ASSUME Init PROVE IInv
  OBVIOUS
<1> USE DEF Init
<1>1. CommandOK
  BY DEF CommandOK, NoOptions
<1>2. StepsOK
  BY DEF StepsOK, Steps, ForObjects, ObjectSteps, CSteps, Searching
<1>3. ProgramsOK
  BY DEF ProgramsOK, SelectionOK, StrictStartsNoCompiler, NoSilentFallback, Refused, Selection
<1>4. FilesOK
  BY DEF FilesOK, NothingLeftBehind, ForObjects, ObjectSteps
<1>5. OutputOK
  BY DEF OutputOK, Delivered, ForObjects, ForC, ObjectSteps, CSteps, Searching
<1>6. ArchiveOK
  BY DEF ArchiveOK, ArchiveSuffices, ForObjects, ObjectSteps, Searching
<1> QED
  BY <1>1, <1>2, <1>3, <1>4, <1>5, <1>6 DEF IInv

\* The invariant is inductive.
LEMMA NextIInv == IInv /\ [Next]_vars => IInv'
<1> SUFFICES ASSUME IInv, [Next]_vars PROVE IInv'
  OBVIOUS
<1> QED
  BY CommandStep, StepsStep, ProgramsStep, FilesStep, OutputStep, ArchiveStep DEF IInv

\* In the strict profile no step of any run starts a C compiler or the script
\* that runs one: the C backend is refused with the options, no linker selection
\* is a compiler driver, and the runtime archive is never built.
THEOREM StrictIsStrict == Spec => []StrictStartsNoCompiler
<1>1. IInv => StrictStartsNoCompiler
  BY DEF IInv, ProgramsOK
<1> QED
  BY <1>1, InitIInv, NextIInv, PTL DEF Spec

\* A build with a packaged linker never turns to a C compiler on its own.
THEOREM NoFallback == Spec => []NoSilentFallback
<1>1. IInv => NoSilentFallback
  BY DEF IInv, ProgramsOK
<1> QED
  BY <1>1, InitIInv, NextIInv, PTL DEF Spec

\* On every way out that is not a breakdown of the in-process linker the private
\* directories are gone, and a failed link left no file behind.
THEOREM CleansUp == Spec => []NothingLeftBehind
<1>1. IInv => NothingLeftBehind
  BY DEF IInv, FilesOK
<1> QED
  BY <1>1, InitIInv, NextIInv, PTL DEF Spec

\* A run that ends well has delivered what its options ask for, whatever they are
\* and in whatever order they were given.
THEOREM DeliversOutput == Spec => []Delivered
<1>1. IInv => Delivered
  BY DEF IInv, OutputOK
<1> QED
  BY <1>1, InitIInv, NextIInv, PTL DEF Spec

\* The runtime archive that was linked holds what the linked objects need.
THEOREM ArchiveChosenWell == Spec => []ArchiveSuffices
<1>1. IInv => ArchiveSuffices
  BY DEF IInv, ArchiveOK
<1> QED
  BY <1>1, InitIInv, NextIInv, PTL DEF Spec
=============================================================================
