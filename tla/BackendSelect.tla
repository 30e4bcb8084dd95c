--------------------------- MODULE BackendSelect ---------------------------
(***************************************************************************)
(* Which backend, target and runtime an invocation of the compiler gets    *)
(* (backend/select.rs, target.rs, no_toolchain.rs and the first half of    *)
(* main.rs), as operators on two records:                                  *)
(*                                                                         *)
(*   o, the command line: one field per option;                            *)
(*   m, the machine: the build's features and configured default, the host,*)
(*      the environment variables and the tools installed.                 *)
(*                                                                         *)
(* "none" stands for an option or variable that is not given.              *)
(***************************************************************************)
EXTENDS Naturals, Sequences, FiniteSets

Preference == <<"llvm", "cranelift", "c">>
Backends == {"llvm", "cranelift", "c"}
WindowsX64 == "windows-x86_64"
ElfTargets == {"linux-x86_64", "linux-aarch64", "linux-riscv64"}
NativeTargets == ElfTargets \cup {WindowsX64}

\* detect: "none" is an unsupported host, such as any macOS.
Host(m) ==
  CASE m.os = "windows" /\ m.arch = "x86_64" -> WindowsX64
    [] m.os = "linux" /\ m.arch = "x86_64" -> "linux-x86_64"
    [] m.os = "linux" /\ m.arch = "aarch64" -> "linux-aarch64"
    [] m.os = "linux" /\ m.arch = "riscv64" -> "linux-riscv64"
    [] OTHER -> "none"
HostSupported(m) == Host(m) # "none"
IsHost(m, t) == HostSupported(m) /\ t = Host(m)

\* Without a C backend the strict profile is part of the build.
Strict(m) == "c" \notin m.features \/ m.noToolchain

\* distribution_config_matches_features, a compile-time assertion.
WellConfigured(m) ==
  LET enabled == m.features \cap Backends IN
  /\ enabled # {}
  /\ m.default = "none" \/ m.default \in enabled
  /\ CASE m.dist = "none" -> TRUE
       [] m.dist = "full" -> m.default = "llvm" /\ enabled = Backends
       [] OTHER -> m.default = m.dist /\ enabled = {m.dist}

CSourceOutput(o) == o.emitC \/ o.output = "c"
LlvmIrOutput(o) == o.emitIr \/ o.output = "ll"

\* The packaged code generator is probed only when nothing pins the backend, and
\* counts as available only if it can target this host.
ProbesLlvm(o, m) ==
  /\ "llvm" \in m.features
  /\ o.backend = "none" /\ m.default = "none"
  /\ ~CSourceOutput(o) /\ o.cross = "none"
  /\ HostSupported(m)
LlvmAvailable(o, m) == ProbesLlvm(o, m) /\ m.llvmLib /\ Host(m) \in m.llvmTargets

FirstEnabled(features) ==
  LET i == CHOOSE j \in 1 .. 3 : /\ Preference[j] \in features
                                 /\ \A k \in 1 .. j - 1 : Preference[k] \notin features
  IN  Preference[i]

\* resolve_backend_with: the first rule that applies.  The result may be a backend
\* this build does not contain; the driver then stops with an error.
ResolveBackend(o, m) ==
  IF o.backend # "none" THEN o.backend
  ELSE IF CSourceOutput(o) \/ o.cross # "none" THEN "c"
  ELSE IF LlvmIrOutput(o) THEN "llvm"
  ELSE IF m.default # "none" THEN m.default
  ELSE IF o.native # "none" /\ "cranelift" \in m.features THEN "cranelift"
  ELSE IF o.native # "none" /\ "llvm" \in m.features THEN "llvm"
  ELSE IF LlvmAvailable(o, m) THEN "llvm"
  ELSE IF HostSupported(m) /\ "cranelift" \in m.features THEN "cranelift"
  ELSE IF "c" \in m.features THEN "c"
  ELSE FirstEnabled(m.features)

\* The combinations of options a backend accepts.
OptionsFit(o, b) ==
  /\ b # "c" => /\ o.cross = "none" /\ ~CSourceOutput(o)
                /\ b = "cranelift" => ~LlvmIrOutput(o)
  /\ b = "c" => /\ ~o.opt /\ o.native = "none" /\ ~o.allowElevated
                /\ ~LlvmIrOutput(o)
  /\ ~(LlvmIrOutput(o) /\ o.run)

\* What the strict profile lets through: no option that needs a C toolchain.
StrictAllows(o, b) == b # "c" /\ ~o.libc /\ ~o.extraC /\ ~o.extraCflags

\* The object backends' target, "none" when the driver stops: an unknown tag, or the
\* default on a host that is not a target.
NativeTarget(o, m) ==
  IF o.native \in {"none", "host"} THEN Host(m)
  ELSE IF o.native \in NativeTargets THEN o.native
  ELSE "none"

RuntimeMode(o) == IF o.libc THEN "hosted" ELSE "freestanding"

\* The C backend's choice of runtime.
Freestanding(o, m) ==
  \/ o.cross = "riscv64"
  \/ o.cross = "none" /\ ~o.libc /\ m.os # "macos"
=============================================================================
