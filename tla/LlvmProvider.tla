---------------------------- MODULE LlvmProvider ----------------------------
(***************************************************************************)
(* The LLVM backend's use of libLLVM (backend/llvm/provider.rs and mod.rs): *)
(* finding and loading the library, asking for the data layout, and        *)
(* turning IR text into an object, with every call of the C API and every  *)
(* handle that must be given back, on every early return.                  *)
(*                                                                         *)
(* llvm.live holds the handles that exist, the library among them, and     *)
(* llvm.misused is set by a call that breaks the C API's contract.  locals *)
(* are the values of the running function that are dropped when it         *)
(* returns, in the order they were declared.                               *)
(***************************************************************************)
EXTENDS Naturals, Sequences

CONSTANTS Places,       \* the places to look in, in order
          Environments, \* what OSCAN_LLVM_LIB is, and the places that are relative
          Libraries     \* what may be found in each place

VARIABLES env,      \* [lib, relative]
          libs,     \* what there is: [Places -> kinds of libraries]
          at,       \* the candidate being tried
          provider, \* the kind of the loaded library, "none" before
          asked,    \* the target, the runtime mode, and whether an object is wanted
          pc,       \* what the backend does next
          locals,
          llvm,
          checked,  \* is the module as LLVM last verified it
          object,   \* what LLVM emitted
          result    \* "none", "object", "ir" or "error"

vars == <<env, libs, at, provider, asked, pc, locals, llvm, checked, object, result>>

(***************************************************************************)
(* The C API: a call may use only what is live; a context must not go      *)
(* before its module.                                                      *)
(***************************************************************************)
CallApi(w, uses, makes) ==
  [live |-> w.live \cup makes,
   misused |-> w.misused \/ ~({"library"} \cup uses \subseteq w.live)]
Free(w, h) ==
  [live |-> w.live \ {h},
   misused |-> \/ w.misused \/ ~({"library", h} \subseteq w.live)
               \/ h = "context" /\ "module" \in w.live]

\* Out-parameters: LLVM may give a message or not.
Told == {{}, {"message"}}
TakeMessage(w) == IF "message" \in w.live THEN Free(w, "message") ELSE w

(***************************************************************************)
(* Searching.                                                              *)
(***************************************************************************)
\* OSCAN_LLVM_LIB alone when it is set, else every place that is absolute.
SearchCandidates ==
  IF env.lib = "none" THEN SelectSeq(Places, LAMBDA p : p # "explicit" /\ p \notin env.relative)
  ELSE IF env.lib = "absolute" THEN <<"explicit">> ELSE << >>

Candidate == libs[SearchCandidates[at]]
Usable == {"x86", "all"}
Supports(kind, target) == kind = "all" \/ target = "x86"

Init ==
  /\ env \in Environments
  /\ libs \in Libraries
  /\ at = 1
  /\ provider = "none"
  /\ asked = << >>
  /\ pc = "load"
  /\ locals = << >>
  /\ llvm = [live |-> {}, misused |-> FALSE]
  /\ checked = FALSE
  /\ object = << >>
  /\ result = "none"

Fail == pc' = "return" /\ result' = "error"

NoProvider ==
  /\ pc = "load" /\ at > Len(SearchCandidates)
  /\ Fail
  /\ UNCHANGED <<env, libs, at, provider, asked, locals, llvm, checked, object>>

\* No file, a file in the sidecar directory its manifest does not vouch for,
\* or one that is not a library.
SkipCandidate ==
  /\ pc = "load" /\ at <= Len(SearchCandidates)
  /\ Candidate \in {"absent", "unvouched", "unloadable"}
  /\ at' = at + 1
  /\ UNCHANGED <<env, libs, provider, asked, pc, locals, llvm, checked, object, result>>

OpenLibrary ==
  /\ pc = "load" /\ at <= Len(SearchCandidates)
  /\ Candidate \notin {"absent", "unvouched", "unloadable"}
  /\ llvm' = [llvm EXCEPT !.live = @ \cup {"library"}]
  /\ pc' = "bind"
  /\ UNCHANGED <<env, libs, at, provider, asked, locals, checked, object, result>>

\* Entry points are missing, the major version is another, or no target can
\* emit objects: the library is closed and the next candidate tried.
RejectLibrary ==
  /\ pc = "bind" /\ Candidate \notin Usable
  /\ llvm' = LET w == IF Candidate = "partial" THEN llvm ELSE CallApi(llvm, {}, {}) IN
             [w EXCEPT !.live = @ \ {"library"}]
  /\ at' = at + 1
  /\ pc' = "load"
  /\ UNCHANGED <<env, libs, provider, asked, locals, checked, object, result>>

AcceptLibrary ==
  /\ pc = "bind" /\ Candidate \in Usable
  /\ llvm' = CallApi(llvm, {}, {})
  /\ provider' = Candidate
  /\ pc' = "target"
  /\ UNCHANGED <<env, libs, at, asked, locals, checked, object, result>>

(***************************************************************************)
(* compile_object: the target, the data layout, then an object or a check. *)
(***************************************************************************)
RequireTarget ==
  /\ pc = "target"
  /\ asked' \in [target : {"x86", "riscv"}, freestanding : BOOLEAN, object : BOOLEAN]
  /\ IF Supports(provider, asked'.target)
     THEN pc' = "layout machine" /\ UNCHANGED result ELSE Fail
  /\ UNCHANGED <<env, libs, at, provider, locals, llvm, checked, object>>

\* A local is declared when its creation succeeds.
Owns(h) == locals' = Append(locals, h)

\* LLVMGetTargetFromTriple, whose message comes with a failure only, and
\* LLVMCreateTargetMachine.
CreateTargetMachine ==
  /\ pc \in {"layout machine", "machine"}
  /\ \/ \E told \in Told : llvm' = TakeMessage(CallApi(llvm, {}, told)) /\ Fail /\ UNCHANGED locals
     \/ llvm' = CallApi(llvm, {}, {}) /\ Fail /\ UNCHANGED locals
     \/ /\ llvm' = CallApi(llvm, {}, {"machine"}) /\ Owns("machine")
        /\ pc' = (IF pc = "machine" THEN "data" ELSE "layout data")
        /\ UNCHANGED result
  /\ UNCHANGED <<env, libs, at, provider, asked, checked, object>>

DataLayoutHandle ==
  /\ pc \in {"layout data", "data"}
  /\ \/ llvm' = CallApi(llvm, {"machine"}, {}) /\ Fail /\ UNCHANGED locals
     \/ /\ llvm' = CallApi(llvm, {"machine"}, {"data"}) /\ Owns("data")
        /\ pc' = (IF pc = "data" THEN "set layout" ELSE "layout text")
        /\ UNCHANGED result
  /\ UNCHANGED <<env, libs, at, provider, asked, checked, object>>

\* data_layout copies the string and gives it back; then both functions return.
CopyLayout ==
  /\ pc = "layout text"
  /\ \/ llvm' = CallApi(llvm, {"data"}, {}) /\ Fail
     \/ llvm' = TakeMessage(CallApi(llvm, {"data"}, {"message"})) /\ pc' = "return" /\ UNCHANGED result
  /\ UNCHANGED <<env, libs, at, provider, asked, locals, checked, object>>

\* The IR is written (or the program cannot be translated).
EmitIr ==
  /\ pc = "translate"
  /\ \/ pc' = "context" /\ Owns("text") /\ UNCHANGED result
     \/ Fail /\ UNCHANGED locals
  /\ UNCHANGED <<env, libs, at, provider, asked, llvm, checked, object>>

CreateContext ==
  /\ pc = "context"
  /\ \/ llvm' = CallApi(llvm, {}, {}) /\ Fail /\ UNCHANGED locals
     \/ llvm' = CallApi(llvm, {}, {"context"}) /\ Owns("context") /\ pc' = "parse" /\ UNCHANGED result
  /\ UNCHANGED <<env, libs, at, provider, asked, checked, object>>

\* The buffer over the text is LLVM's as soon as it parses, well or not.  The
\* text must still be there.
ParseIr ==
  /\ pc = "parse"
  /\ \/ llvm' = CallApi(llvm, {}, {}) /\ Fail /\ UNCHANGED locals
     \/ \E told \in Told, ok \in BOOLEAN :
          LET made == CallApi(llvm, {}, {"buffer"})
              read == Free(CallApi(made, {"context", "buffer"}, told \cup IF ok THEN {"module"} ELSE {}), "buffer")
              w == TakeMessage(read)
          IN /\ llvm' = [w EXCEPT !.misused = @ \/ ~\E j \in DOMAIN locals : locals[j] = "text"]
             /\ IF ok THEN Owns("module") /\ pc' = "machine" /\ UNCHANGED result
                ELSE Fail /\ UNCHANGED locals
  /\ UNCHANGED <<env, libs, at, provider, asked, checked, object>>

\* drop(layout) before the function goes on.
DropLast == locals' = SubSeq(locals, 1, Len(locals) - 1)

\* The layout is given back here and, as a local, when the function returns.
SetLayoutTwice ==
  /\ pc = "set layout"
  /\ llvm' = Free(CallApi(llvm, {"module", "data"}, {}), "data")
  /\ UNCHANGED locals
  /\ checked' = FALSE
  /\ pc' = "verify"
  /\ UNCHANGED <<env, libs, at, provider, asked, object, result>>
SetLayout ==
  /\ pc = "set layout"
  /\ llvm' = Free(CallApi(llvm, {"module", "data"}, {}), "data")
  /\ DropLast
  /\ checked' = FALSE
  /\ pc' = "verify"
  /\ UNCHANGED <<env, libs, at, provider, asked, object, result>>

Verify ==
  /\ pc \in {"verify", "verify optimized"}
  /\ \E told \in Told, ok \in BOOLEAN :
       /\ llvm' = TakeMessage(CallApi(llvm, {"module"}, told))
       /\ checked' = ok
       /\ IF ~ok THEN Fail
          ELSE /\ pc' = (IF pc = "verify optimized" THEN "emit"
                         ELSE IF asked.object THEN "passes" ELSE "end")
               /\ UNCHANGED result
  /\ UNCHANGED <<env, libs, at, provider, asked, locals, object>>

\* The passes' outcome is taken for the module's.
RunPassesTrusted ==
  /\ pc = "passes"
  /\ LET w == Free(CallApi(CallApi(llvm, {}, {"options"}), {"module", "machine", "options"}, {}), "options")
     IN llvm' = w /\ checked' = FALSE /\ pc' = "emit" /\ UNCHANGED result
  /\ UNCHANGED <<env, libs, at, provider, asked, locals, object>>
RunPasses ==
  /\ pc = "passes"
  /\ \/ llvm' = CallApi(llvm, {}, {}) /\ Fail /\ UNCHANGED checked
     \/ LET options == CallApi(llvm, {}, {"options"})
            run(makes) == Free(CallApi(options, {"module", "machine", "options"}, makes), "options")
        IN \/ llvm' = run({}) /\ checked' = FALSE /\ pc' = "verify optimized" /\ UNCHANGED result
           \/ /\ \E told \in Told :
                   llvm' = TakeMessage(CallApi(Free(run({"error"}), "error"), {}, told))
              /\ checked' = FALSE /\ Fail
  /\ UNCHANGED <<env, libs, at, provider, asked, locals, object>>

\* An empty object's buffer is left to LLVM.
EmitObjectLeaky ==
  /\ pc = "emit"
  /\ \E size \in {0, 1} :
       LET w == CallApi(llvm, {"machine", "module"}, {"bytes"})
       IN IF size = 0 THEN llvm' = w /\ Fail /\ UNCHANGED object
          ELSE /\ llvm' = Free(w, "bytes")
               /\ object' \in [valid : BOOLEAN, libc : BOOLEAN, checked : {checked}]
               /\ pc' = "end" /\ UNCHANGED result
  /\ UNCHANGED <<env, libs, at, provider, asked, locals, checked>>
EmitObject ==
  /\ pc = "emit"
  /\ \E told \in Told :
       \/ llvm' = TakeMessage(CallApi(llvm, {"machine", "module"}, told)) /\ Fail /\ UNCHANGED object
       \/ \E size \in {0, 1} :
            LET w == TakeMessage(CallApi(llvm, {"machine", "module"}, {"bytes"} \cup told))
            IN /\ llvm' = Free(CallApi(w, {"bytes"}, {}), "bytes")
               /\ IF size = 0 THEN Fail /\ UNCHANGED object
                  ELSE /\ object' \in [valid : BOOLEAN, libc : BOOLEAN, checked : {checked}]
                       /\ pc' = "end" /\ UNCHANGED result
  /\ UNCHANGED <<env, libs, at, provider, asked, locals, checked>>

\* drop(terminated): the text, the oldest local, goes before the handles made from it.
DropText ==
  /\ pc = "end"
  /\ locals' = Tail(locals)
  /\ pc' = "return"
  /\ UNCHANGED <<env, libs, at, provider, asked, llvm, checked, object, result>>

\* A function returns, early or not: its locals are dropped, the last first.
Drop ==
  /\ pc = "return" /\ locals # << >>
  /\ llvm' = LET h == locals[Len(locals)] IN IF h = "text" THEN llvm ELSE Free(llvm, h)
  /\ DropLast
  /\ UNCHANGED <<env, libs, at, provider, asked, pc, checked, object, result>>

\* An object is parsed again: it must be a relocatable one for the target and,
\* for the freestanding runtime, name nothing of the C library.
ValidateObject(o) == o.valid /\ ~(asked.freestanding /\ o.libc)

\* The caller: the layout leads to the IR, the IR to the result.
Continue ==
  /\ pc = "return" /\ locals = << >>
  /\ IF result = "error" THEN pc' = "done" /\ UNCHANGED result
     ELSE IF ~(IF asked.object THEN object # << >> ELSE checked)
     THEN pc' = "translate" /\ UNCHANGED result
     ELSE /\ pc' = "done"
          /\ result' = IF ~asked.object THEN "ir"
                       ELSE IF ValidateObject(object) THEN "object"
                       ELSE "error"
  /\ UNCHANGED <<env, libs, at, provider, asked, locals, llvm, checked, object>>

Next == \/ NoProvider \/ SkipCandidate \/ OpenLibrary \/ RejectLibrary \/ AcceptLibrary
        \/ RequireTarget \/ CreateTargetMachine \/ DataLayoutHandle \/ CopyLayout \/ EmitIr
        \/ CreateContext \/ ParseIr \/ SetLayout \/ Verify \/ RunPasses \/ EmitObject
        \/ DropText \/ Drop \/ Continue
Spec == Init /\ [][Next]_vars

(***************************************************************************)
(* Properties.                                                             *)
(***************************************************************************)

\* No call is made with a handle that was given back, no handle is given back
\* twice, and no context before its module, on any of the early returns: the
\* lifetimes in provider.rs tie a module to the provider, not to its context.
HandlesRespected == ~llvm.misused

\* When the compilation is over nothing of LLVM's is left but the library of
\* the provider that was loaded; every refused library was closed.
NothingLeaks ==
  pc = "done" => llvm.live = IF provider = "none" THEN {} ELSE {"library"}

\* An object that is handed on was made of a module LLVM verified after the
\* last pass had changed it, by a provider that has the target, and does not
\* ask the freestanding runtime for the C library.
ObjectsSound ==
  result = "object" => /\ object.checked /\ object.valid
                       /\ Supports(provider, asked.target)
                       /\ asked.freestanding => ~object.libc
=============================================================================
