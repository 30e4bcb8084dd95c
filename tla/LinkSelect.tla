---------------------------- MODULE LinkSelect ----------------------------
(***************************************************************************)
(* How an object file of the LLVM and Cranelift backends is linked         *)
(* (backend/link).  t is the target, mode "freestanding" or "hosted", and  *)
(* cFiles says whether C sources (the user's or a generated shim) are      *)
(* among the inputs.  A linker selection is a flavor ("mingw", "elf" or    *)
(* "driver") and a source: the packaged linker, the OSCAN_NATIVE_LINKER    *)
(* override, or a compiler the driver has to search for.                   *)
(***************************************************************************)
EXTENDS CToolchain

MingwEligible(t, mode, cFiles) == t = WindowsX64 /\ mode = "freestanding" /\ ~cFiles
ElfEligible(t, mode, cFiles) == t \in ElfTargets /\ mode = "freestanding" /\ ~cFiles
Eligible(flavor, t, mode, cFiles) ==
  \/ flavor = "mingw" /\ MingwEligible(t, mode, cFiles)
  \/ flavor = "elf" /\ ElfEligible(t, mode, cFiles)

PackagedAssets(m) == m.packaged # "none"

\* explicit_cross_override: both variables name a direct linker that fits.
ExplicitCross(m, t, mode, cFiles) ==
  m.linker /\ Eligible(m.flavor, t, mode, cFiles)

\* cross_link_permitted: a packaged linker crosses only to an ELF target it was made for.
CrossPermitted(m, t, mode, cFiles) ==
  \/ ExplicitCross(m, t, mode, cFiles)
  \/ ElfEligible(t, mode, cFiles) /\ m.packaged = t

Selection(flavor, source) == [flavor |-> flavor, source |-> source]
Refused == Selection("none", "none")

\* A compiler driver, which the strict profile refuses.
CompilerDriver(m, source) == IF Strict(m) THEN Refused ELSE Selection("driver", source)

\* A direct linker.  The mingw flavor always needs the packaged import libraries, the
\* elf flavor the packaged linker only.
DirectLinker(m, flavor, t, mode, cFiles) ==
  IF ~Eligible(flavor, t, mode, cFiles) THEN Refused
  ELSE IF m.linker THEN IF flavor = "mingw" /\ ~PackagedAssets(m) THEN Refused
                        ELSE Selection(flavor, "override")
  ELSE IF PackagedAssets(m) THEN Selection(flavor, "packaged") ELSE Refused

\* Mutant: a build that packages a linker falls back to a compiler driver.
SelectLinkerFallingBack(m, t, mode, cFiles) ==
  CASE m.flavor \in {"mingw", "elf"} -> DirectLinker(m, m.flavor, t, mode, cFiles)
    [] m.flavor = "compiler-driver" ->
         CompilerDriver(m, IF m.linker THEN "override" ELSE "search")
    [] m.flavor = "none" ->
         IF m.linker THEN CompilerDriver(m, "override") ELSE CompilerDriver(m, "search")
    [] OTHER -> Refused

\* resolve_linker_selection.
SelectLinker(m, t, mode, cFiles) ==
  CASE m.flavor \in {"mingw", "elf"} -> DirectLinker(m, m.flavor, t, mode, cFiles)
    [] m.flavor = "compiler-driver" ->
         CompilerDriver(m, IF m.linker THEN "override" ELSE "search")
    [] m.flavor = "none" ->
         IF m.linker THEN CompilerDriver(m, "override")
         ELSE IF PackagedAssets(m) /\ MingwEligible(t, mode, cFiles)
              THEN Selection("mingw", "packaged")
         ELSE IF PackagedAssets(m) /\ ElfEligible(t, mode, cFiles)
              THEN Selection("elf", "packaged")
         ELSE CompilerDriver(m, "search")
    [] OTHER -> Refused

\* The compiler the archive's manifest records is run only from a trusted directory.
TrustedManifestCc(m) == m.manifestCc = "trusted"

\* find_linker_driver: the discovered compiler if it is gcc or clang and matches what the
\* manifest records (fits), else the recorded one if that matches (recordedFits).
LinkerDriver(c, m, fits, recordedFits) ==
  IF c.kind \in {"gcc", "clang"} /\ fits THEN c
  ELSE IF TrustedManifestCc(m) /\ recordedFits THEN Compiler("gcc", "host")
  ELSE NoCompiler

\* resolve_link_assets: a package for another target is refused.
AssetsFit(m, t) == PackagedAssets(m) /\ (m.sidecar => m.packaged = t)

\* The mingw plan needs the packaged libraries even under an overridden linker; the elf
\* plan needs the packaged linker unless it is overridden.
MingwNeedsAssets(s) == s.flavor = "mingw"
ElfNeedsAssets(s) == s.flavor = "elf" /\ s.source = "packaged"
NeedsAssets(s) == MingwNeedsAssets(s) \/ ElfNeedsAssets(s)

\* The user's inputs on the linker's command line: the direct flavors are only selected
\* when there is no C source.
DirectInputs(o) == UserInputs(o) \ {"c"}
DriverInputs(o, cFiles) == UserInputs(o) \cup (IF cFiles THEN {"c"} ELSE {})
InputsLinked(s, o, cFiles) ==
  IF s.flavor = "driver" THEN DriverInputs(o, cFiles) ELSE DirectInputs(o)

\* The parts of the runtime a program uses, smallest first, and the archives that hold
\* them; the hosted archive holds them all.
Profiles == <<"core", "gfx", "full">>
Holds(archive, uses) ==
  \/ archive = "hosted"
  \/ \E i, j \in 1 .. 3 : Profiles[i] = archive /\ Profiles[j] = uses /\ j <= i

\* Mutant: the program's own symbols decide, whatever else is linked.
ArchiveNameOfProgram(o, mode, cFiles, uses) == IF mode = "hosted" THEN "hosted" ELSE uses

\* The archive to link: the smallest one that holds what the program's object refers to,
\* but the full one when there are other inputs, which may refer to anything.
ArchiveName(o, mode, cFiles, uses) ==
  IF mode = "hosted" THEN "hosted"
  ELSE IF cFiles \/ UserInputs(o) # {} THEN "full"
  ELSE uses

\* Mutant: the strict profile does not keep the archive from being built.
ArchiveSourceUnrestricted(m, name) ==
  IF name \in m.archives THEN "found" ELSE IF m.dist # "none" THEN "missing" ELSE "build"

\* find_release_tools_script: an installed build never runs the repository's script.
MayBuildArchive(m) ==
  /\ m.builder = "explicit" \/ (m.builder = "repository" /\ ~PackagedAssets(m))
  /\ m.python

\* Where the archive comes from: an override directory is the only place looked at, and a
\* distribution looks next to itself and never builds.
ArchiveSource(m, name) ==
  IF m.archiveDir # "none" THEN IF m.archiveDir = "holds" THEN "found" ELSE "missing"
  ELSE IF name \in m.archives THEN "found"
  ELSE IF m.dist = "none" /\ ~Strict(m) /\ MayBuildArchive(m) THEN "build"
  ELSE "missing"

\* resolve_shim_source.
ShimSource(m, mode) ==
  IF m.shimInArchive THEN "archive"
  ELSE IF mode = "hosted" /\ ~Strict(m) THEN "compile"
  ELSE "missing"

\* link_executable_from_bytes: the in-process linker takes Windows freestanding programs
\* without C inputs and without libraries given by name.
InProcessTakes(o, t, mode) ==
  /\ t = WindowsX64 /\ mode = "freestanding"
  /\ ~o.extraC /\ ~o.extraCflags
  /\ o.extraLib \notin {"name", "thin"}
=============================================================================
