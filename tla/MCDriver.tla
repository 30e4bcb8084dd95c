------------------------------ MODULE MCDriver ------------------------------
EXTENDS Driver

\* A developer's build with the three backends, compilers on the path, the runtime
\* archives built and nothing set in the environment.
Dev(os, arch) ==
  [os |-> os, arch |-> arch, features |-> Backends, default |-> "none", dist |-> "none",
   noToolchain |-> FALSE, llvmLib |-> FALSE,
   llvmTargets |-> {WindowsX64, "linux-x86_64"}, elevated |-> "no",
   packaged |-> "none", sidecar |-> FALSE, linker |-> FALSE, flavor |-> "none",
   cc |-> "none", bundled |-> << >>, path |-> {"gcc"}, vsClang |-> FALSE, vsCl |-> FALSE,
   wasiSysroot |-> FALSE, archives |-> {"core", "gfx", "full", "hosted"}, archiveDir |-> "none",
   builder |-> "repository", python |-> TRUE, shimInArchive |-> TRUE, manifestCc |-> "none"]
Linux == Dev("linux", "x86_64")
Windows == Dev("windows", "x86_64")

\* An installed package: one backend or all of them, with its linker beside it.
Package(base, dist) ==
  [base EXCEPT !.dist = dist, !.default = IF dist = "full" THEN "llvm" ELSE dist,
               !.features = IF dist = "full" THEN Backends ELSE {dist},
               !.llvmLib = TRUE, !.packaged = Host(base), !.sidecar = TRUE,
               !.builder = "none"]

Tried(c, answers) == [kind |-> c, answers |-> answers]

MCMachines ==
  {Linux,
   [Linux EXCEPT !.llvmLib = TRUE, !.archives = {}, !.path = {"clang", "gcc", "riscv64-gcc"},
                 !.wasiSysroot = TRUE],
   [Linux EXCEPT !.archives = {}, !.noToolchain = TRUE],
   [Linux EXCEPT !.shimInArchive = FALSE, !.manifestCc = "trusted", !.path = {}],
   [Linux EXCEPT !.archiveDir = "missing", !.python = FALSE, !.path = {}],
   [Linux EXCEPT !.linker = TRUE, !.elevated = "unknown"],
   [Linux EXCEPT !.linker = TRUE, !.flavor = "elf", !.arch = "aarch64"],
   [Linux EXCEPT !.packaged = "linux-x86_64", !.flavor = "compiler-driver"],
   [Windows EXCEPT !.path = {"cl"}, !.flavor = "unknown"],
   [Windows EXCEPT !.vsClang = TRUE, !.elevated = "yes",
                   !.bundled = <<Tried("clang", "never"), Tried("gcc", "no")>>],
   [Windows EXCEPT !.bundled = <<Tried("clang", "no"), Tried("gcc", "yes")>>,
                   !.packaged = WindowsX64, !.linker = TRUE, !.flavor = "mingw"],
   [Windows EXCEPT !.cc = "clang", !.features = @ \cup {"lld"}],
   Dev("macos", "aarch64"),
   [Linux EXCEPT !.default = "cranelift"],
   [Linux EXCEPT !.default = "cranelift", !.llvmLib = TRUE],
   Package(Linux, "cranelift"),
   Package(Linux, "full"),
   [Package(Linux, "full") EXCEPT !.elevated = "yes", !.archives = {}],
   [Package(Windows, "llvm") EXCEPT !.features = @ \cup {"lld"}],
   [Package(Windows, "full") EXCEPT !.llvmLib = FALSE],
   [Package(Linux, "full") EXCEPT !.packaged = "linux-aarch64"]}
=============================================================================
