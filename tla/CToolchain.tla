---------------------------- MODULE CToolchain ----------------------------
(***************************************************************************)
(* How the driver finds and uses a C compiler (main.rs from                *)
(* find_wasi_sysroot on).  A compiler is "clang", "gcc" or "cl" with the   *)
(* place it was found in: the OSCAN_CC override, the bundled toolchain or  *)
(* the host.                                                               *)
(***************************************************************************)
EXTENDS Naturals, Sequences, BackendSelect

Compiler(kind, source) == [kind |-> kind, source |-> source]
NoCompiler == Compiler("none", "none")

\* OSCAN_CC: its file name decides what it is.
Override(m) == Compiler(m.cc, "override")

\* Bundled compilers are looked for on Windows and Linux only, in m.bundled's order.
Bundled(m) == IF m.os \in {"windows", "linux"} THEN m.bundled ELSE << >>

\* Visual Studio's own clang, and cl.exe from the path or from Visual Studio.
VsClang(m) == m.os = "windows" /\ m.vsClang
MsvcCl(m) == m.os = "windows" /\ ("cl" \in m.path \/ m.vsCl)

HostCompiler(m) ==
  IF "clang" \in m.path \/ VsClang(m) THEN Compiler("clang", "host")
  ELSE IF "gcc" \in m.path THEN Compiler("gcc", "host")
  ELSE IF MsvcCl(m) THEN Compiler("cl", "host")
  ELSE NoCompiler

\* A host compiler gives way to Visual Studio's clang for a freestanding build on Windows.
CompilerUsed(c, m, freestanding) ==
  IF freestanding /\ VsClang(m) /\ c.source = "host" THEN Compiler("clang", "host") ELSE c

WasiSysroot(m) == m.wasiSysroot

\* The cross compilers are fixed: riscv64-linux-gnu-gcc, and clang with a WASI sysroot.
CrossReady(o, m) ==
  \/ o.cross = "riscv64" /\ "riscv64-gcc" \in m.path
  \/ o.cross = "wasi" /\ "clang" \in m.path /\ WasiSysroot(m)

UserInputs(o) ==
  {i \in {"c", "obj", "lib"} :
     \/ i = "c" /\ o.extraC
     \/ i = "obj" /\ o.extraObj # "none"
     \/ i = "lib" /\ o.extraLib # "none"}

\* The user's inputs on each compiler's command line.  cl.exe is not given the objects
\* and the libraries.
InputsOfGccOrClang(o) == UserInputs(o)
InputsOfMsvc(o) == UserInputs(o) \ {"obj", "lib"}
InputsOfRiscv64(o) == UserInputs(o)
InputsOfWasi(o) == UserInputs(o)

InputsCompiled(o, c) ==
  CASE o.cross = "riscv64" -> InputsOfRiscv64(o)
    [] o.cross = "wasi" -> InputsOfWasi(o)
    [] o.cross = "none" -> IF c.kind = "cl" THEN InputsOfMsvc(o) ELSE InputsOfGccOrClang(o)
=============================================================================
