------------------------- MODULE LlvmProviderProofs -------------------------
(***************************************************************************)
(* The ownership discipline of LlvmProvider holds wherever LLVM is looked  *)
(* for and whatever is found there.                                        *)
(*                                                                         *)
(* The inductive invariant says at every step which locals exist, and that *)
(* the live handles are exactly those the locals own, and the library.     *)
(***************************************************************************)
EXTENDS LlvmProvider, SequenceTheorems, TLAPS

\* What a list of locals owns: the text is memory of the compiler.
HeldBy(s) == {s[j] : j \in 1 .. Len(s)} \ {"text"}

\* These handles live and no call was wrong.
World(live) == [live |-> live, misused |-> FALSE]

\* What lives while a library is loaded.
Alive(s) == HeldBy(s) \cup {"library"}

Loaded == pc = "bind" \/ provider # "none"
LiveExact == llvm = World(IF Loaded THEN Alive(locals) ELSE HeldBy(locals))

\* What a local may be.
Owned == {"text", "context", "module", "machine", "data"}

\* What may be left to drop when a function returns: the locals of data_layout,
\* those of the compilation, and the latter without the text.
Left ==
  {<< >>, <<"machine">>, <<"machine", "data">>,
   <<"text">>, <<"text", "context">>, <<"text", "context", "module">>,
   <<"text", "context", "module", "machine">>,
   <<"text", "context", "module", "machine", "data">>,
   <<"context">>, <<"context", "module">>, <<"context", "module", "machine">>}

LocalsOK ==
  /\ pc \in {"load", "bind", "target", "layout machine", "translate", "done"} => locals = << >>
  /\ pc = "layout data" => locals = <<"machine">>
  /\ pc = "layout text" => locals = <<"machine", "data">>
  /\ pc = "context" => locals = <<"text">>
  /\ pc = "parse" => locals = <<"text", "context">>
  /\ pc = "machine" => locals = <<"text", "context", "module">>
  /\ pc \in {"data", "verify", "passes", "verify optimized", "emit", "end"} =>
       locals = <<"text", "context", "module", "machine">>
  /\ pc = "set layout" => locals = <<"text", "context", "module", "machine", "data">>
  /\ pc = "return" => locals \in Left

ProviderOK ==
  /\ pc \in {"load", "bind"} => provider = "none"
  /\ pc \notin {"load", "bind", "return", "done"} => provider # "none"
  /\ pc = "return" /\ (result # "error" \/ locals # << >>) => provider # "none"

HandlesInv == LiveExact /\ LocalsOK /\ ProviderOK

TargetOK ==
  /\ pc \notin {"load", "bind", "target", "return", "done"} => Supports(provider, asked.target)
  /\ pc = "return" /\ result # "error" => Supports(provider, asked.target)

ObjectOK ==
  /\ pc \in {"load", "bind", "target"} => object = << >>
  /\ pc = "emit" => checked = TRUE
  /\ object # << >> => object.checked = TRUE /\ Supports(provider, asked.target)
  /\ pc # "done" => result # "object"
  /\ result = "object" => object # << >> /\ ValidateObject(object)

ObjectInv == TargetOK /\ ObjectOK
-----------------------------------------------------------------------------
\* What the locals own, spelled out for each list of them.
LEMMA HeldValues ==
  /\ HeldBy(<< >>) = {}
  /\ HeldBy(<<"machine">>) = {"machine"}
  /\ HeldBy(<<"machine", "data">>) = {"machine", "data"}
  /\ HeldBy(<<"text">>) = {}
  /\ HeldBy(<<"text", "context">>) = {"context"}
  /\ HeldBy(<<"text", "context", "module">>) = {"context", "module"}
  /\ HeldBy(<<"text", "context", "module", "machine">>) = {"context", "module", "machine"}
  /\ HeldBy(<<"text", "context", "module", "machine", "data">>)
       = {"context", "module", "machine", "data"}
  /\ HeldBy(<<"context">>) = {"context"}
  /\ HeldBy(<<"context", "module">>) = {"context", "module"}
  /\ HeldBy(<<"context", "module", "machine">>) = {"context", "module", "machine"}
BY DEF HeldBy

LEMMA AliveValues ==
  /\ Alive(<< >>) = {"library"}
  /\ Alive(<<"machine">>) = {"machine", "library"}
  /\ Alive(<<"machine", "data">>) = {"machine", "data", "library"}
  /\ Alive(<<"text">>) = {"library"}
  /\ Alive(<<"text", "context">>) = {"context", "library"}
  /\ Alive(<<"text", "context", "module">>) = {"context", "module", "library"}
  /\ Alive(<<"text", "context", "module", "machine">>) = {"context", "module", "machine", "library"}
  /\ Alive(<<"text", "context", "module", "machine", "data">>)
       = {"context", "module", "machine", "data", "library"}
  /\ Alive(<<"context">>) = {"context", "library"}
  /\ Alive(<<"context", "module">>) = {"context", "module", "library"}
  /\ Alive(<<"context", "module", "machine">>) = {"context", "module", "machine", "library"}
BY HeldValues DEF Alive

\* Sequences of locals are compared by their elements.
LEMMA AppendIs ==
  ASSUME NEW s \in Seq(Owned), NEW e \in Owned, NEW t \in Seq(Owned),
         Len(t) = Len(s) + 1, \A i \in 1 .. Len(s) : t[i] = s[i], t[Len(t)] = e
  PROVE  Append(s, e) = t
<1>1. /\ Append(s, e) \in Seq(Owned)
      /\ Len(Append(s, e)) = Len(s) + 1
      /\ \A i \in 1 .. Len(s) : Append(s, e)[i] = s[i]
      /\ Append(s, e)[Len(s) + 1] = e
  BY AppendProperties
<1>2. \A i \in 1 .. Len(t) : t[i] = Append(s, e)[i]
  BY <1>1, LenProperties
<1> QED BY <1>1, <1>2, SeqEqual

\* Dropping the last local.
LEMMA FrontIs ==
  ASSUME NEW s \in Seq(Owned), NEW t \in Seq(Owned),
         Len(s) = Len(t) + 1, \A i \in 1 .. Len(t) : t[i] = s[i]
  PROVE  SubSeq(s, 1, Len(s) - 1) = t
<1>1. Len(t) \in Nat /\ Len(s) \in Nat /\ Len(s) - 1 = Len(t)
  BY LenProperties
<1>2. \A i \in 1 .. Len(t) : s[i] \in Owned
  BY <1>1, ElementOfSeq
<1>3. /\ SubSeq(s, 1, Len(t)) \in Seq(Owned)
      /\ Len(SubSeq(s, 1, Len(t))) = Len(t)
      /\ \A i \in 1 .. Len(t) : SubSeq(s, 1, Len(t))[i] = s[i]
  BY <1>1, <1>2, SubSeqProperties
<1> QED BY <1>1, <1>3, SeqEqual

\* The first local.
LEMMA Local1 ==
  ASSUME NEW a \in Owned
  PROVE  /\ Append(<< >>, a) = <<a>>
         /\ SubSeq(<<a>>, 1, Len(<<a>>) - 1) = << >>
<1> DEFINE s == << >>
           t == <<a>>
<1>1. Len(t) = Len(s) + 1 /\ t[Len(t)] = a /\ s \in Seq(Owned) /\ t \in Seq(Owned)
  OBVIOUS
<1>2. \A i \in 1 .. Len(s) : t[i] = s[i]
  OBVIOUS
<1> HIDE DEF s, t
<1>3. Append(s, a) = t /\ SubSeq(t, 1, Len(t) - 1) = s
  BY <1>1, <1>2, AppendIs, FrontIs
<1> QED BY <1>3 DEF s, t

\* The second local.
LEMMA Local2 ==
  ASSUME NEW a \in Owned, NEW b \in Owned
  PROVE  /\ Append(<<a>>, b) = <<a, b>>
         /\ SubSeq(<<a, b>>, 1, Len(<<a, b>>) - 1) = <<a>>
<1> DEFINE s == <<a>>
           t == <<a, b>>
<1>1. Len(t) = Len(s) + 1 /\ t[Len(t)] = b /\ s \in Seq(Owned) /\ t \in Seq(Owned)
  OBVIOUS
<1>2. \A i \in 1 .. Len(s) : t[i] = s[i]
  OBVIOUS
<1> HIDE DEF s, t
<1>3. Append(s, b) = t /\ SubSeq(t, 1, Len(t) - 1) = s
  BY <1>1, <1>2, AppendIs, FrontIs
<1> QED BY <1>3 DEF s, t

\* The third local.
LEMMA Local3 ==
  ASSUME NEW a \in Owned, NEW b \in Owned, NEW c \in Owned
  PROVE  /\ Append(<<a, b>>, c) = <<a, b, c>>
         /\ SubSeq(<<a, b, c>>, 1, Len(<<a, b, c>>) - 1) = <<a, b>>
<1> DEFINE s == <<a, b>>
           t == <<a, b, c>>
<1>1. Len(t) = Len(s) + 1 /\ t[Len(t)] = c /\ s \in Seq(Owned) /\ t \in Seq(Owned)
  OBVIOUS
<1>2. \A i \in 1 .. Len(s) : t[i] = s[i]
  OBVIOUS
<1> HIDE DEF s, t
<1>3. Append(s, c) = t /\ SubSeq(t, 1, Len(t) - 1) = s
  BY <1>1, <1>2, AppendIs, FrontIs
<1> QED BY <1>3 DEF s, t

\* The fourth local.
LEMMA Local4 ==
  ASSUME NEW a \in Owned, NEW b \in Owned, NEW c \in Owned, NEW d \in Owned
  PROVE  /\ Append(<<a, b, c>>, d) = <<a, b, c, d>>
         /\ SubSeq(<<a, b, c, d>>, 1, Len(<<a, b, c, d>>) - 1) = <<a, b, c>>
<1> DEFINE s == <<a, b, c>>
           t == <<a, b, c, d>>
<1>1. Len(t) = Len(s) + 1 /\ t[Len(t)] = d /\ s \in Seq(Owned) /\ t \in Seq(Owned)
  OBVIOUS
<1>2. \A i \in 1 .. Len(s) : t[i] = s[i]
  OBVIOUS
<1> HIDE DEF s, t
<1>3. Append(s, d) = t /\ SubSeq(t, 1, Len(t) - 1) = s
  BY <1>1, <1>2, AppendIs, FrontIs
<1> QED BY <1>3 DEF s, t

\* The fifth local.
LEMMA Local5 ==
  LET s == <<"text", "context", "module", "machine">>
      t == <<"text", "context", "module", "machine", "data">>
  IN  Append(s, "data") = t /\ SubSeq(t, 1, Len(t) - 1) = s
<1> DEFINE s == <<"text", "context", "module", "machine">>
           t == <<"text", "context", "module", "machine", "data">>
<1>1. Len(t) = Len(s) + 1 /\ t[Len(t)] = "data" /\ "data" \in Owned
  BY DEF Owned
<1>2. s \in Seq(Owned) /\ t \in Seq(Owned)
  BY DEF Owned
<1>3. \A i \in 1 .. Len(s) : t[i] = s[i]
  OBVIOUS
<1> HIDE DEF s, t
<1>4. Append(s, "data") = t /\ SubSeq(t, 1, Len(t) - 1) = s
  BY <1>1, <1>2, <1>3, AppendIs, FrontIs
<1> QED BY <1>4 DEF s, t

\* The locals that are declared.
LEMMA Declared ==
  /\ Append(<< >>, "machine") = <<"machine">>
  /\ Append(<<"machine">>, "data") = <<"machine", "data">>
  /\ Append(<< >>, "text") = <<"text">>
  /\ Append(<<"text">>, "context") = <<"text", "context">>
  /\ Append(<<"text", "context">>, "module") = <<"text", "context", "module">>
  /\ Append(<<"text", "context", "module">>, "machine")
       = <<"text", "context", "module", "machine">>
  /\ Append(<<"text", "context", "module", "machine">>, "data")
       = <<"text", "context", "module", "machine", "data">>
<1>1. /\ Append(<< >>, "machine") = <<"machine">>
      /\ Append(<< >>, "text") = <<"text">>
  BY Local1 DEF Owned
<1>2. /\ Append(<<"machine">>, "data") = <<"machine", "data">>
      /\ Append(<<"text">>, "context") = <<"text", "context">>
  BY Local2 DEF Owned
<1>3. /\ Append(<<"text", "context">>, "module") = <<"text", "context", "module">>
  BY Local3 DEF Owned
<1>4. /\ Append(<<"text", "context", "module">>, "machine")
           = <<"text", "context", "module", "machine">>
  BY Local4 DEF Owned
<1> QED BY <1>1, <1>2, <1>3, <1>4, Local5

\* The locals that are dropped, the last first.
LEMMA Dropped ==
  /\ SubSeq(<<"machine">>, 1, Len(<<"machine">>) - 1) = << >>
  /\ SubSeq(<<"machine", "data">>, 1, Len(<<"machine", "data">>) - 1) = <<"machine">>
  /\ SubSeq(<<"text">>, 1, Len(<<"text">>) - 1) = << >>
  /\ SubSeq(<<"text", "context">>, 1, Len(<<"text", "context">>) - 1) = <<"text">>
  /\ SubSeq(<<"text", "context", "module">>, 1, Len(<<"text", "context", "module">>) - 1)
       = <<"text", "context">>
  /\ SubSeq(<<"text", "context", "module", "machine">>, 1,
            Len(<<"text", "context", "module", "machine">>) - 1)
       = <<"text", "context", "module">>
  /\ SubSeq(<<"text", "context", "module", "machine", "data">>, 1,
            Len(<<"text", "context", "module", "machine", "data">>) - 1)
       = <<"text", "context", "module", "machine">>
  /\ SubSeq(<<"context">>, 1, Len(<<"context">>) - 1) = << >>
  /\ SubSeq(<<"context", "module">>, 1, Len(<<"context", "module">>) - 1) = <<"context">>
  /\ SubSeq(<<"context", "module", "machine">>, 1,
            Len(<<"context", "module", "machine">>) - 1)
       = <<"context", "module">>
<1>1. /\ SubSeq(<<"machine">>, 1, Len(<<"machine">>) - 1) = << >>
      /\ SubSeq(<<"text">>, 1, Len(<<"text">>) - 1) = << >>
      /\ SubSeq(<<"context">>, 1, Len(<<"context">>) - 1) = << >>
  BY Local1 DEF Owned
<1>2. /\ SubSeq(<<"machine", "data">>, 1, Len(<<"machine", "data">>) - 1) = <<"machine">>
      /\ SubSeq(<<"text", "context">>, 1, Len(<<"text", "context">>) - 1) = <<"text">>
      /\ SubSeq(<<"context", "module">>, 1, Len(<<"context", "module">>) - 1)
           = <<"context">>
  BY Local2 DEF Owned
<1>3. /\ SubSeq(<<"text", "context", "module">>, 1,
                Len(<<"text", "context", "module">>) - 1)
           = <<"text", "context">>
      /\ SubSeq(<<"context", "module", "machine">>, 1,
                Len(<<"context", "module", "machine">>) - 1)
           = <<"context", "module">>
  BY Local3 DEF Owned
<1>4. /\ SubSeq(<<"text", "context", "module", "machine">>, 1,
                Len(<<"text", "context", "module", "machine">>) - 1)
           = <<"text", "context", "module">>
  BY Local4 DEF Owned
<1> QED BY <1>1, <1>2, <1>3, <1>4, Local5

\* Nothing lives before the search.
LEMMA HandlesInit == Init => HandlesInv
BY HeldValues, AliveValues DEF Init, HandlesInv, LiveExact, Loaded, LocalsOK, ProviderOK, World

\* A library that is opened.
LEMMA OpenSound ==
  ASSUME NEW L, NEW w, NEW opened, w = World(L), opened = [w EXCEPT !.live = @ \cup {"library"}]
  PROVE  opened = World(L \cup {"library"})
BY DEF World

\* A call that uses live handles only.
LEMMA CallSound ==
  ASSUME NEW L, NEW U, NEW M, "library" \in L, U \subseteq L
  PROVE  CallApi(World(L), U, M) = World(L \cup M)
BY DEF CallApi, World

\* A live handle that is given back, a context after its module.
LEMMA FreeSound ==
  ASSUME NEW L, NEW h \in L, "library" \in L, ~(h = "context" /\ "module" \in L)
  PROVE  Free(World(L), h) = World(L \ {h})
BY DEF Free, World

\* A message is given back when there is one.
LEMMA TakeSound ==
  ASSUME NEW L, "library" \in L
  PROVE  TakeMessage(World(L)) = World(L \ {"message"})
<1>1. CASE "message" \in L
  BY <1>1, FreeSound DEF TakeMessage, World
<1>2. CASE "message" \notin L
  BY <1>2 DEF TakeMessage, World
<1> QED BY <1>1, <1>2
\* A call that may leave a message, which is given back at once.
LEMMA ToldSound ==
  ASSUME NEW L, NEW U, NEW told \in Told, "library" \in L, U \subseteq L, "message" \notin L
  PROVE  TakeMessage(CallApi(World(L), U, told)) = World(L)
<1>1. CallApi(World(L), U, told) = World(L \cup told)
  BY CallSound
<1>2. TakeMessage(World(L \cup told)) = World((L \cup told) \ {"message"})
  BY TakeSound
<1>3. (L \cup told) \ {"message"} = L
  BY DEF Told
<1> QED BY <1>1, <1>2, <1>3

\* A call that makes what is given back at once.
LEMMA MadeAndFreed ==
  ASSUME NEW L, NEW U, NEW h, "library" \in L, U \subseteq L, h \notin L, h # "context"
  PROVE  Free(CallApi(World(L), U, {h}), h) = World(L)
<1>1. CallApi(World(L), U, {h}) = World(L \cup {h})
  BY CallSound
<1>2. Free(World(L \cup {h}), h) = World((L \cup {h}) \ {h})
  BY FreeSound
<1>3. (L \cup {h}) \ {h} = L
  OBVIOUS
<1> QED BY <1>1, <1>2, <1>3
-----------------------------------------------------------------------------
\* One lemma per step of the backend.  The search leaves nothing behind.
LEMMA SearchStep ==
  ASSUME HandlesInv, NoProvider \/ SkipCandidate \/ OpenLibrary
  PROVE  HandlesInv'
<1> USE DEF HandlesInv, LiveExact, Loaded, LocalsOK, ProviderOK
<1>1. CASE NoProvider
  BY <1>1 DEF NoProvider, Fail, Left
<1>2. CASE SkipCandidate
  BY <1>2 DEF SkipCandidate
<1>3. CASE OpenLibrary
  <2>1. locals = << >> /\ provider = "none" /\ llvm = World({})
    BY <1>3, HeldValues DEF OpenLibrary
  <2>2. llvm' = [llvm EXCEPT !.live = @ \cup {"library"}]
    BY <1>3 DEF OpenLibrary
  <2>3. llvm' = World({} \cup {"library"})
    BY <2>1, <2>2, OpenSound
  <2> QED
    BY <1>3, <2>1, <2>3, AliveValues DEF OpenLibrary
<1> QED BY <1>1, <1>2, <1>3

\* A refused library is closed, an accepted one stays.
LEMMA BindStep ==
  ASSUME HandlesInv, RejectLibrary \/ AcceptLibrary
  PROVE  HandlesInv'
<1>0. pc = "bind" /\ locals = << >> /\ provider = "none" /\ llvm = World({"library"})
  BY AliveValues
     DEF HandlesInv, LiveExact, Loaded, LocalsOK, ProviderOK, RejectLibrary, AcceptLibrary
<1>1. CallApi(llvm, {}, {}) = World({"library"})
  BY <1>0, CallSound
<1>2. CASE RejectLibrary
  <2> DEFINE w == IF Candidate = "partial" THEN llvm ELSE CallApi(llvm, {}, {})
  <2>1. llvm' = [w EXCEPT !.live = @ \ {"library"}]
    BY <1>2 DEF RejectLibrary
  <2>2. w = World({"library"})
    BY <1>0, <1>1
  <2> HIDE DEF w
  <2>3. llvm' = World({})
    BY <2>1, <2>2 DEF World
  <2> QED
    BY <1>0, <1>2, <2>3, HeldValues
       DEF RejectLibrary, HandlesInv, LiveExact, Loaded, LocalsOK, ProviderOK
<1>3. CASE AcceptLibrary
  BY <1>0, <1>1, <1>3, AliveValues
     DEF AcceptLibrary, Usable, HandlesInv, LiveExact, Loaded, LocalsOK, ProviderOK
<1> QED BY <1>2, <1>3

\* The target is checked without LLVM.
LEMMA TargetStep == ASSUME HandlesInv, RequireTarget PROVE HandlesInv'
<1>1. llvm' = llvm /\ locals' = locals /\ provider' = provider /\ locals = << >>
      /\ provider # "none" /\ pc' \in {"layout machine", "return"}
  BY DEF HandlesInv, LocalsOK, ProviderOK, RequireTarget, Fail
<1> QED
  BY <1>1 DEF HandlesInv, LiveExact, Loaded, LocalsOK, ProviderOK, Left

\* What the steps from the target on begin with.
LEMMA Working ==
  ASSUME HandlesInv, pc \notin {"load", "bind", "return", "done"}
  PROVE  provider # "none" /\ Loaded /\ llvm = World(Alive(locals))
BY DEF HandlesInv, LiveExact, Loaded, ProviderOK

\* What they must end with.
LEMMA StillWorking ==
  ASSUME provider # "none", UNCHANGED provider, pc' \notin {"load", "bind"}, LocalsOK',
         llvm' = World(Alive(locals'))
  PROVE  HandlesInv'
BY DEF HandlesInv, LiveExact, Loaded, ProviderOK

\* A step that fails and makes nothing.
LEMMA FailStep ==
  ASSUME HandlesInv, pc \notin {"load", "bind", "return", "done"}, UNCHANGED provider,
         Fail, UNCHANGED locals, locals \in Left, llvm' = World(Alive(locals))
  PROVE  HandlesInv'
<1>1. provider # "none"
  BY Working
<1>2. LocalsOK'
  BY DEF LocalsOK, Fail
<1> QED BY <1>1, <1>2, StillWorking DEF Fail

\* The target machine, made for the layout and again for the object.
LEMMA MachineStep == ASSUME HandlesInv, CreateTargetMachine PROVE HandlesInv'
<1>1. pc \in {"layout machine", "machine"} /\ UNCHANGED provider
  BY DEF CreateTargetMachine
<1>2. provider # "none" /\ llvm = World(Alive(locals))
  BY <1>1, Working
<1>3. \/ pc = "layout machine" /\ locals = << >>
      \/ pc = "machine" /\ locals = <<"text", "context", "module">>
  BY <1>1 DEF HandlesInv, LocalsOK
<1>4. "library" \in Alive(locals) /\ "message" \notin Alive(locals)
  <2>1. Alive(locals) = {"library"} \/ Alive(locals) = {"context", "module", "library"}
    BY <1>3, AliveValues
  <2> QED BY <2>1
<1>5. locals \in Left
  BY <1>3 DEF Left
<1>6. ASSUME NEW told \in Told, llvm' = TakeMessage(CallApi(llvm, {}, told)), Fail, UNCHANGED locals
      PROVE  HandlesInv'
  <2>1. llvm' = World(Alive(locals))
    BY <1>2, <1>4, <1>6, ToldSound
  <2> QED
    BY <1>1, <1>5, <1>6, <2>1, FailStep
<1>7. CASE llvm' = CallApi(llvm, {}, {}) /\ Fail /\ UNCHANGED locals
  <2>1. llvm' = World(Alive(locals) \cup {})
    BY <1>2, <1>4, <1>7, CallSound
  <2>2. Alive(locals) \cup {} = Alive(locals)
    OBVIOUS
  <2> QED
    BY <1>1, <1>5, <1>7, <2>1, <2>2, FailStep
<1>8. CASE /\ llvm' = CallApi(llvm, {}, {"machine"}) /\ Owns("machine")
           /\ pc' = (IF pc = "machine" THEN "data" ELSE "layout data")
  <2>1. \/ pc' = "layout data" /\ locals' = <<"machine">>
        \/ pc' = "data" /\ locals' = <<"text", "context", "module", "machine">>
    BY <1>3, <1>8, Declared DEF Owns
  <2>2. Alive(locals') = Alive(locals) \cup {"machine"}
    BY <1>3, <1>8, <2>1, AliveValues
  <2>3. CallApi(World(Alive(locals)), {}, {"machine"}) = World(Alive(locals) \cup {"machine"})
    BY <1>4, CallSound
  <2>4. llvm' = World(Alive(locals'))
    BY <1>2, <1>8, <2>2, <2>3
  <2>5. LocalsOK'
    BY <2>1 DEF LocalsOK
  <2> QED
    BY <1>1, <1>2, <2>1, <2>4, <2>5, StillWorking
<1> QED BY <1>6, <1>7, <1>8 DEF CreateTargetMachine

\* The data layout of a machine, and its text.
LEMMA LayoutStep == ASSUME HandlesInv, DataLayoutHandle \/ CopyLayout PROVE HandlesInv'
<1>1. pc \in {"layout data", "data", "layout text"} /\ UNCHANGED provider
  BY DEF DataLayoutHandle, CopyLayout
<1>2. provider # "none" /\ llvm = World(Alive(locals))
  BY <1>1, Working
<1>3. CASE DataLayoutHandle
  <2>1. \/ pc = "layout data" /\ locals = <<"machine">>
        \/ pc = "data" /\ locals = <<"text", "context", "module", "machine">>
    BY <1>3 DEF DataLayoutHandle, HandlesInv, LocalsOK
  <2>2. {"library", "machine"} \subseteq Alive(locals)
    BY <2>1, AliveValues
  <2>3. locals \in Left
    BY <2>1 DEF Left
  <2>4. CASE llvm' = CallApi(llvm, {"machine"}, {}) /\ Fail /\ UNCHANGED locals
    <3>1. llvm' = World(Alive(locals) \cup {})
      BY <1>2, <2>2, <2>4, CallSound
    <3>2. Alive(locals) \cup {} = Alive(locals)
      OBVIOUS
    <3> QED
      BY <1>1, <2>3, <2>4, <3>1, <3>2, FailStep
  <2>5. CASE /\ llvm' = CallApi(llvm, {"machine"}, {"data"}) /\ Owns("data")
             /\ pc' = (IF pc = "data" THEN "set layout" ELSE "layout text")
    <3>1. \/ pc' = "layout text" /\ locals' = <<"machine", "data">>
          \/ pc' = "set layout" /\ locals' = <<"text", "context", "module", "machine", "data">>
      BY <2>1, <2>5, Declared DEF Owns
    <3>2. Alive(locals') = Alive(locals) \cup {"data"}
      BY <2>1, <2>5, <3>1, AliveValues
    <3>3. CallApi(World(Alive(locals)), {"machine"}, {"data"}) = World(Alive(locals) \cup {"data"})
      BY <2>2, CallSound
    <3>4. llvm' = World(Alive(locals'))
      BY <1>2, <2>5, <3>2, <3>3
    <3>5. LocalsOK'
      BY <3>1 DEF LocalsOK
    <3> QED
      BY <1>1, <1>2, <3>1, <3>4, <3>5, StillWorking
  <2> QED BY <1>3, <2>4, <2>5 DEF DataLayoutHandle
<1>4. CASE CopyLayout
  <2>1. locals = <<"machine", "data">> /\ UNCHANGED locals /\ pc' = "return"
    BY <1>4 DEF CopyLayout, Fail, HandlesInv, LocalsOK
  <2>2. Alive(locals) = {"machine", "data", "library"}
    BY <2>1, AliveValues
  <2>3. CallApi(llvm, {"data"}, {}) = World(Alive(locals) \cup {})
    BY <1>2, <2>2, CallSound
  <2>4. Alive(locals) \cup {} = Alive(locals)
    OBVIOUS
  <2>5. TakeMessage(CallApi(llvm, {"data"}, {"message"})) = World(Alive(locals))
    BY <1>2, <2>2, ToldSound DEF Told
  <2>6. llvm' = World(Alive(locals))
    BY <1>4, <2>3, <2>4, <2>5 DEF CopyLayout
  <2>7. LocalsOK'
    BY <2>1 DEF LocalsOK, Left
  <2> QED
    BY <1>1, <1>2, <2>1, <2>6, <2>7, StillWorking
<1> QED BY <1>3, <1>4

\* The text is the compiler's, the context LLVM's.
LEMMA ContextStep == ASSUME HandlesInv, EmitIr \/ CreateContext PROVE HandlesInv'
<1>1. pc \in {"translate", "context"} /\ UNCHANGED provider
  BY DEF EmitIr, CreateContext
<1>2. provider # "none" /\ llvm = World(Alive(locals))
  BY <1>1, Working
<1>3. \/ pc = "translate" /\ locals = << >>
      \/ pc = "context" /\ locals = <<"text">>
  BY <1>1 DEF HandlesInv, LocalsOK
<1>4. Alive(locals) = {"library"} /\ locals \in Left
  BY <1>3, AliveValues DEF Left
<1>5. CASE EmitIr
  <2>1. CASE pc' = "context" /\ Owns("text")
    <3>1. locals' = <<"text">>
      BY <1>3, <1>5, <2>1, Declared DEF EmitIr, Owns
    <3>2. llvm' = World(Alive(locals')) /\ LocalsOK'
      BY <1>2, <1>4, <1>5, <2>1, <3>1, AliveValues DEF EmitIr, LocalsOK
    <3> QED
      BY <1>1, <1>2, <2>1, <3>2, StillWorking
  <2>2. CASE Fail /\ UNCHANGED locals
    BY <1>1, <1>2, <1>4, <1>5, <2>2, FailStep DEF EmitIr
  <2> QED BY <1>5, <2>1, <2>2 DEF EmitIr
<1>6. CASE CreateContext
  <2>1. CallApi(llvm, {}, {}) = World(Alive(locals) \cup {})
    BY <1>2, <1>4, CallSound
  <2>2. CallApi(llvm, {}, {"context"}) = World({"library"} \cup {"context"})
    BY <1>2, <1>4, CallSound
  <2>3. CASE llvm' = CallApi(llvm, {}, {}) /\ Fail /\ UNCHANGED locals
    <3>1. Alive(locals) \cup {} = Alive(locals)
      OBVIOUS
    <3> QED
      BY <1>1, <1>4, <2>1, <2>3, <3>1, FailStep
  <2>4. CASE llvm' = CallApi(llvm, {}, {"context"}) /\ Owns("context") /\ pc' = "parse"
    <3>1. locals' = <<"text", "context">>
      BY <1>3, <1>6, <2>4, Declared DEF CreateContext, Owns
    <3>2. Alive(locals') = {"library"} \cup {"context"}
      BY <3>1, AliveValues
    <3>3. LocalsOK'
      BY <2>4, <3>1 DEF LocalsOK
    <3> QED
      BY <1>1, <1>2, <2>2, <2>4, <3>2, <3>3, StillWorking
  <2> QED BY <1>6, <2>3, <2>4 DEF CreateContext
<1> QED BY <1>5, <1>6

\* The buffer goes to LLVM, the module comes.
LEMMA ParseStep == ASSUME HandlesInv, ParseIr PROVE HandlesInv'
<1>1. pc = "parse" /\ UNCHANGED provider
  BY DEF ParseIr
<1>2. provider # "none" /\ llvm = World(Alive(locals))
  BY <1>1, Working
<1>3. locals = <<"text", "context">>
  BY <1>1 DEF HandlesInv, LocalsOK
<1>4. Alive(locals) = {"context", "library"} /\ locals \in Left
  BY <1>3, AliveValues DEF Left
<1>5. CASE llvm' = CallApi(llvm, {}, {}) /\ Fail /\ UNCHANGED locals
  <2>1. llvm' = World(Alive(locals) \cup {})
    BY <1>2, <1>4, <1>5, CallSound
  <2>2. Alive(locals) \cup {} = Alive(locals)
    OBVIOUS
  <2> QED
    BY <1>1, <1>4, <1>5, <2>1, <2>2, FailStep
<1>6. ASSUME NEW told \in Told, NEW ok \in BOOLEAN,
             LET made == CallApi(llvm, {}, {"buffer"})
                 read == Free(CallApi(made, {"context", "buffer"},
                                      told \cup IF ok THEN {"module"} ELSE {}), "buffer")
                 w == TakeMessage(read)
             IN llvm' = [w EXCEPT !.misused = @ \/ ~\E j \in DOMAIN locals : locals[j] = "text"],
             IF ok THEN Owns("module") /\ pc' = "machine" /\ UNCHANGED result
             ELSE Fail /\ UNCHANGED locals
      PROVE  HandlesInv'
  <2> DEFINE mod == IF ok THEN {"module"} ELSE {}
             made == CallApi(llvm, {}, {"buffer"})
             called == CallApi(made, {"context", "buffer"}, told \cup mod)
             read == Free(called, "buffer")
             w == TakeMessage(read)
  <2>0. llvm' = [w EXCEPT !.misused = @ \/ ~\E j \in DOMAIN locals : locals[j] = "text"]
    BY <1>6
  <2>1. mod \in {{}, {"module"}} /\ told \in {{}, {"message"}}
    BY <1>6 DEF Told
  <2> HIDE DEF mod
  <2>2. made = World({"context", "library"} \cup {"buffer"})
    BY <1>2, <1>4, CallSound
  <2> HIDE DEF made
  <2>3. called = World(({"context", "library"} \cup {"buffer"}) \cup (told \cup mod))
    BY <2>2, CallSound
  <2> HIDE DEF called
  <2>4. read = World((({"context", "library"} \cup {"buffer"}) \cup (told \cup mod)) \ {"buffer"})
    BY <2>3, FreeSound
  <2> HIDE DEF read
  <2>5. w = World(((({"context", "library"} \cup {"buffer"}) \cup (told \cup mod))
                     \ {"buffer"}) \ {"message"})
    BY <2>4, TakeSound
  <2>6. w = World({"context", "library"} \cup mod)
    BY <2>1, <2>5
  <2> HIDE DEF w
  <2>7. \E j \in DOMAIN locals : locals[j] = "text"
    BY <1>3
  <2>8. llvm' = World({"context", "library"} \cup mod)
    BY <2>0, <2>6, <2>7 DEF World
  <2>9. CASE ok
    <3>1. locals' = <<"text", "context", "module">> /\ pc' = "machine"
      BY <1>3, <1>6, <2>9, Declared DEF Owns
    <3>2. Alive(locals') = {"context", "library"} \cup mod
      BY <2>9, <3>1, AliveValues DEF mod
    <3>3. LocalsOK'
      BY <3>1 DEF LocalsOK
    <3> QED
      BY <1>1, <1>2, <2>8, <3>1, <3>2, <3>3, StillWorking
  <2>10. CASE ~ok
    <3>1. {"context", "library"} \cup mod = Alive(locals)
      BY <1>4, <2>10 DEF mod
    <3> QED
      BY <1>1, <1>4, <1>6, <2>8, <2>10, <3>1, FailStep
  <2> QED BY <2>9, <2>10
<1> QED BY <1>5, <1>6 DEF ParseIr

\* The layout is given back once it is set.
LEMMA SetLayoutStep == ASSUME HandlesInv, SetLayout PROVE HandlesInv'
<1>1. pc = "set layout" /\ UNCHANGED provider /\ pc' = "verify"
  BY DEF SetLayout
<1>2. provider # "none" /\ llvm = World(Alive(locals))
  BY <1>1, Working
<1>3. locals = <<"text", "context", "module", "machine", "data">>
  BY <1>1 DEF HandlesInv, LocalsOK
<1>4. Alive(locals) = {"context", "module", "machine", "data", "library"}
  BY <1>3, AliveValues
<1>5. CallApi(llvm, {"module", "data"}, {}) = World(Alive(locals) \cup {})
  BY <1>2, <1>4, CallSound
<1>6. llvm' = World((Alive(locals) \cup {}) \ {"data"})
  BY <1>4, <1>5, FreeSound DEF SetLayout
<1>7. locals' = <<"text", "context", "module", "machine">>
  BY <1>3, Dropped DEF SetLayout, DropLast
<1>8. Alive(locals') = (Alive(locals) \cup {}) \ {"data"}
  BY <1>4, <1>7, AliveValues
<1>9. LocalsOK'
  BY <1>1, <1>7 DEF LocalsOK
<1> QED BY <1>1, <1>2, <1>6, <1>8, <1>9, StillWorking

\* What the steps on a verified module begin with.
LEMMA OnModule ==
  ASSUME HandlesInv, pc \in {"verify", "passes", "verify optimized", "emit", "end"}
  PROVE  /\ provider # "none" /\ llvm = World(Alive(locals))
         /\ locals = <<"text", "context", "module", "machine">> /\ locals \in Left
         /\ Alive(locals) = {"context", "module", "machine", "library"}
<1>1. locals = <<"text", "context", "module", "machine">>
  BY DEF HandlesInv, LocalsOK
<1> QED BY <1>1, Working, AliveValues DEF Left

\* What they end with when they go on.
LEMMA ModuleStays ==
  ASSUME HandlesInv, pc \in {"verify", "passes", "verify optimized", "emit", "end"},
         UNCHANGED <<provider, locals>>, llvm' = World(Alive(locals)),
         \/ pc' \in {"passes", "verify optimized", "emit", "end"}
         \/ Fail
  PROVE  HandlesInv'
<1>1. CASE Fail
  BY <1>1, OnModule, FailStep
<1>2. CASE pc' \in {"passes", "verify optimized", "emit", "end"}
  <2>1. LocalsOK'
    BY <1>2, OnModule DEF LocalsOK
  <2> QED BY <1>2, <2>1, OnModule, StillWorking
<1> QED BY <1>1, <1>2

\* Verification, before and after the passes.
LEMMA VerifyStep == ASSUME HandlesInv, Verify PROVE HandlesInv'
<1>1. PICK told \in Told, ok \in BOOLEAN :
        /\ llvm' = TakeMessage(CallApi(llvm, {"module"}, told))
        /\ IF ~ok THEN Fail
           ELSE pc' = (IF pc = "verify optimized" THEN "emit"
                       ELSE IF asked.object THEN "passes" ELSE "end")
  BY DEF Verify
<1>2. pc \in {"verify", "verify optimized"} /\ UNCHANGED <<provider, locals>>
  BY DEF Verify
<1>3. llvm = World(Alive(locals)) /\ Alive(locals) = {"context", "module", "machine", "library"}
  BY <1>2, OnModule
<1>4. llvm' = World(Alive(locals))
  BY <1>1, <1>3, ToldSound
<1> QED BY <1>1, <1>2, <1>4, ModuleStays

\* The passes, their options and their error.
LEMMA PassesStep == ASSUME HandlesInv, RunPasses PROVE HandlesInv'
<1> DEFINE L == {"context", "module", "machine", "library"}
           options == CallApi(llvm, {}, {"options"})
           run(makes) == Free(CallApi(options, {"module", "machine", "options"}, makes), "options")
<1>1. pc = "passes" /\ UNCHANGED <<provider, locals>>
  BY DEF RunPasses
<1>2. llvm = World(L) /\ Alive(locals) = L
  BY <1>1, OnModule
<1>3. CallApi(llvm, {}, {}) = World(L \cup {})
  BY <1>2, CallSound
<1>4. options = World(L \cup {"options"})
  BY <1>2, CallSound
<1>5. ASSUME NEW makes, "options" \notin makes
      PROVE  run(makes) = World(L \cup makes)
  <2>1. CallApi(options, {"module", "machine", "options"}, makes)
          = World((L \cup {"options"}) \cup makes)
    BY <1>4, CallSound
  <2>2. run(makes) = World(((L \cup {"options"}) \cup makes) \ {"options"})
    BY <2>1, FreeSound
  <2>3. ((L \cup {"options"}) \cup makes) \ {"options"} = L \cup makes
    BY <1>5
  <2> QED BY <2>2, <2>3
<1>6. run({}) = World(L \cup {}) /\ run({"error"}) = World(L \cup {"error"})
  BY <1>5
<1> HIDE DEF options, run
<1>7. Free(run({"error"}), "error") = World((L \cup {"error"}) \ {"error"})
  BY <1>6, FreeSound
<1>8. L \cup {} = L /\ (L \cup {"error"}) \ {"error"} = L
  OBVIOUS
<1>9. \A told \in Told : TakeMessage(CallApi(Free(run({"error"}), "error"), {}, told)) = World(L)
  BY <1>7, <1>8, ToldSound
<1>10. /\ llvm' = World(L)
       /\ pc' = "verify optimized" \/ Fail
  BY <1>3, <1>6, <1>8, <1>9 DEF RunPasses, run, options
<1> QED BY <1>1, <1>2, <1>10, ModuleStays

\* The object is copied out of LLVM's buffer, an empty one too.
LEMMA EmitStep == ASSUME HandlesInv, EmitObject PROVE HandlesInv'
<1> DEFINE L == {"context", "module", "machine", "library"}
<1>1. pc = "emit" /\ UNCHANGED <<provider, locals>>
  BY DEF EmitObject
<1>2. llvm = World(L) /\ Alive(locals) = L
  BY <1>1, OnModule
<1>3. \A told \in Told : TakeMessage(CallApi(llvm, {"machine", "module"}, told)) = World(L)
  BY <1>2, ToldSound
<1>4. ASSUME NEW told \in Told
      PROVE  Free(CallApi(TakeMessage(CallApi(llvm, {"machine", "module"}, {"bytes"} \cup told)),
                          {"bytes"}, {}), "bytes") = World(L)
  <2>1. CallApi(llvm, {"machine", "module"}, {"bytes"} \cup told)
          = World(L \cup ({"bytes"} \cup told))
    BY <1>2, CallSound
  <2>2. TakeMessage(World(L \cup ({"bytes"} \cup told)))
          = World((L \cup ({"bytes"} \cup told)) \ {"message"})
    BY TakeSound
  <2>3. (L \cup ({"bytes"} \cup told)) \ {"message"} = L \cup {"bytes"}
    BY DEF Told
  <2>4. CallApi(World(L \cup {"bytes"}), {"bytes"}, {}) = World((L \cup {"bytes"}) \cup {})
    BY CallSound
  <2>5. Free(World((L \cup {"bytes"}) \cup {}), "bytes")
          = World(((L \cup {"bytes"}) \cup {}) \ {"bytes"})
    BY FreeSound
  <2>6. ((L \cup {"bytes"}) \cup {}) \ {"bytes"} = L
    OBVIOUS
  <2> QED BY <2>1, <2>2, <2>3, <2>4, <2>5, <2>6
<1>5. llvm' = World(L) /\ (pc' = "end" \/ Fail)
  BY <1>3, <1>4 DEF EmitObject
<1> QED BY <1>1, <1>2, <1>5, ModuleStays

\* The text goes before the handles that were made from it.
LEMMA DropTextStep == ASSUME HandlesInv, DropText PROVE HandlesInv'
<1>1. pc = "end" /\ UNCHANGED <<provider, llvm>> /\ pc' = "return"
  BY DEF DropText
<1>2. locals' = <<"context", "module", "machine">>
  <2>1. locals' = Tail(<<"text", "context", "module", "machine">>)
    BY <1>1, OnModule DEF DropText
  <2> QED BY <2>1
<1>3. llvm' = World(Alive(locals'))
  BY <1>1, <1>2, OnModule, AliveValues
<1>4. LocalsOK'
  BY <1>1, <1>2 DEF LocalsOK, Left
<1> QED BY <1>1, <1>3, <1>4, OnModule, StillWorking

\* The last local of what is left is its own to free.
LEMMA LastLocal ==
  ASSUME NEW s \in Left, s # << >>
  PROVE  /\ SubSeq(s, 1, Len(s) - 1) \in Left
         /\ s[Len(s)] = "text" => Alive(SubSeq(s, 1, Len(s) - 1)) = Alive(s)
         /\ s[Len(s)] # "text" =>
              /\ s[Len(s)] \in Alive(s)
              /\ ~(s[Len(s)] = "context" /\ "module" \in Alive(s))
              /\ Alive(SubSeq(s, 1, Len(s) - 1)) = Alive(s) \ {s[Len(s)]}
<1> DEFINE P == SubSeq(s, 1, Len(s) - 1)
<1>1. CASE s = <<"machine">>
  <2>1. P = << >> /\ s[Len(s)] = "machine"
    BY <1>1, Dropped
  <2> QED BY <1>1, <2>1, AliveValues DEF Left
<1>2. CASE s = <<"machine", "data">>
  <2>1. P = <<"machine">> /\ s[Len(s)] = "data"
    BY <1>2, Dropped
  <2> QED BY <1>2, <2>1, AliveValues DEF Left
<1>3. CASE s = <<"text">>
  <2>1. P = << >> /\ s[Len(s)] = "text"
    BY <1>3, Dropped
  <2> QED BY <1>3, <2>1, AliveValues DEF Left
<1>4. CASE s = <<"text", "context">>
  <2>1. P = <<"text">> /\ s[Len(s)] = "context"
    BY <1>4, Dropped
  <2> QED BY <1>4, <2>1, AliveValues DEF Left
<1>5. CASE s = <<"text", "context", "module">>
  <2>1. P = <<"text", "context">> /\ s[Len(s)] = "module"
    BY <1>5, Dropped
  <2> QED BY <1>5, <2>1, AliveValues DEF Left
<1>6. CASE s = <<"text", "context", "module", "machine">>
  <2>1. P = <<"text", "context", "module">> /\ s[Len(s)] = "machine"
    BY <1>6, Dropped
  <2> QED BY <1>6, <2>1, AliveValues DEF Left
<1>7. CASE s = <<"text", "context", "module", "machine", "data">>
  <2>1. P = <<"text", "context", "module", "machine">> /\ s[Len(s)] = "data"
    BY <1>7, Dropped
  <2> QED BY <1>7, <2>1, AliveValues DEF Left
<1>8. CASE s = <<"context">>
  <2>1. P = << >> /\ s[Len(s)] = "context"
    BY <1>8, Dropped
  <2> QED BY <1>8, <2>1, AliveValues DEF Left
<1>9. CASE s = <<"context", "module">>
  <2>1. P = <<"context">> /\ s[Len(s)] = "module"
    BY <1>9, Dropped
  <2> QED BY <1>9, <2>1, AliveValues DEF Left
<1>10. CASE s = <<"context", "module", "machine">>
  <2>1. P = <<"context", "module">> /\ s[Len(s)] = "machine"
    BY <1>10, Dropped
  <2> QED BY <1>10, <2>1, AliveValues DEF Left
<1> QED
  BY <1>1, <1>2, <1>3, <1>4, <1>5, <1>6, <1>7, <1>8, <1>9, <1>10 DEF Left

\* A function returns: its last local goes.
LEMMA DropStep == ASSUME HandlesInv, Drop PROVE HandlesInv'
<1> DEFINE h == locals[Len(locals)]
<1>1. pc = "return" /\ locals # << >> /\ UNCHANGED <<provider, pc>>
      /\ locals' = SubSeq(locals, 1, Len(locals) - 1)
      /\ llvm' = IF h = "text" THEN llvm ELSE Free(llvm, h)
  BY DEF Drop, DropLast
<1>2. locals \in Left /\ provider # "none"
  BY <1>1 DEF HandlesInv, LocalsOK, ProviderOK
<1>3. llvm = World(Alive(locals))
  BY <1>2 DEF HandlesInv, LiveExact, Loaded
<1>4. "library" \in Alive(locals)
  BY DEF Alive
<1>5. locals' \in Left
  BY <1>1, <1>2, LastLocal
<1>6. LocalsOK'
  BY <1>1, <1>5 DEF LocalsOK
<1>7. CASE h = "text"
  <2>1. Alive(locals') = Alive(locals)
    BY <1>1, <1>2, <1>7, LastLocal
  <2> QED BY <1>1, <1>2, <1>3, <1>6, <1>7, <2>1, StillWorking
<1>8. CASE h # "text"
  <2>1. h \in Alive(locals) /\ ~(h = "context" /\ "module" \in Alive(locals))
    BY <1>1, <1>2, <1>8, LastLocal
  <2>2. Alive(locals') = Alive(locals) \ {h}
    BY <1>1, <1>2, <1>8, LastLocal
  <2> HIDE DEF h
  <2>3. Free(World(Alive(locals)), h) = World(Alive(locals) \ {h})
    BY <1>4, <2>1, FreeSound
  <2>4. llvm' = World(Alive(locals'))
    BY <1>1, <1>3, <1>8, <2>2, <2>3
  <2> QED BY <1>1, <1>2, <1>6, <2>4, StillWorking
<1> QED BY <1>7, <1>8

\* From the layout to the IR, from the IR to the result.
LEMMA ContinueStep == ASSUME HandlesInv, Continue PROVE HandlesInv'
<1>1. pc = "return" /\ locals = << >> /\ UNCHANGED <<provider, locals, llvm>>
      /\ pc' \in {"translate", "done"} /\ (pc' = "translate" => result # "error")
  BY DEF Continue
<1>2. LocalsOK' /\ ProviderOK'
  BY <1>1 DEF LocalsOK, ProviderOK, HandlesInv
<1>3. LiveExact'
  BY <1>1 DEF HandlesInv, LiveExact, Loaded
<1> QED BY <1>2, <1>3 DEF HandlesInv

\* The invariant is inductive.
LEMMA HandlesStep == HandlesInv /\ [Next]_vars => HandlesInv'
<1> SUFFICES ASSUME HandlesInv, [Next]_vars PROVE HandlesInv'
  OBVIOUS
<1>1. CASE UNCHANGED vars
  BY <1>1 DEF vars, HandlesInv, LiveExact, Loaded, LocalsOK, ProviderOK
<1>2. CASE Next
  BY <1>2, SearchStep, BindStep, TargetStep, MachineStep, LayoutStep, ContextStep, ParseStep,
     SetLayoutStep, VerifyStep, PassesStep, EmitStep, DropTextStep, DropStep, ContinueStep DEF Next
<1> QED BY <1>1, <1>2

\* So it always holds.
LEMMA HandlesAlways == Spec => []HandlesInv
BY HandlesInit, HandlesStep, PTL DEF Spec

\* No call is made with a handle that was given back and none is given back
\* twice, whatever LLVM refuses.
THEOREM HandlesNeverMisused == Spec => []HandlesRespected
<1>1. HandlesInv => HandlesRespected
  BY DEF HandlesInv, LiveExact, World, HandlesRespected
<1> QED BY <1>1, HandlesAlways, PTL

\* A compilation that is over, however it ended, has given every handle back.
THEOREM HandlesGivenBack == Spec => []NothingLeaks
<1>1. HandlesInv => NothingLeaks
  <2> SUFFICES ASSUME HandlesInv, pc = "done"
               PROVE  llvm.live = IF provider = "none" THEN {} ELSE {"library"}
    BY DEF NothingLeaks
  <2>1. locals = << >> /\ llvm = World(IF provider # "none" THEN Alive(locals) ELSE HeldBy(locals))
    BY DEF HandlesInv, LiveExact, Loaded, LocalsOK
  <2>2. llvm = World(IF provider = "none" THEN {} ELSE {"library"})
    BY <2>1, AliveValues, HeldValues
  <2> QED BY <2>2 DEF World
<1> QED BY <1>1, HandlesAlways, PTL
-----------------------------------------------------------------------------
\* Nothing is asked for and nothing made at first.
LEMMA ObjectInit == Init => ObjectInv
BY DEF Init, ObjectInv, TargetOK, ObjectOK

\* Before there is an object.
LEMMA ObjectSearch ==
  ASSUME ObjectInv,
         NoProvider \/ SkipCandidate \/ OpenLibrary \/ RejectLibrary \/ AcceptLibrary
  PROVE  ObjectInv'
<1>1. /\ pc \in {"load", "bind"} /\ pc' \in {"load", "bind", "target", "return"}
      /\ pc' = "return" => result' = "error"
      /\ result' \in {result, "error"} /\ UNCHANGED object
  BY DEF NoProvider, SkipCandidate, OpenLibrary, RejectLibrary, AcceptLibrary, Fail
<1> QED BY <1>1 DEF ObjectInv, TargetOK, ObjectOK

\* The target is asked for once.
LEMMA ObjectTarget == ASSUME ObjectInv, RequireTarget PROVE ObjectInv'
<1>1. /\ pc = "target" /\ UNCHANGED <<object, provider>>
      /\ \/ pc' = "layout machine" /\ UNCHANGED result /\ Supports(provider, asked'.target)
         \/ pc' = "return" /\ result' = "error"
  BY DEF RequireTarget, Fail
<1>2. Supports(provider, asked'.target) => Supports(provider', asked'.target)
  BY <1>1
<1> QED BY <1>1, <1>2 DEF ObjectInv, TargetOK, ObjectOK

\* The steps that leave the object alone.
LEMMA ObjectKept ==
  ASSUME ObjectInv, UNCHANGED <<asked, provider, object>>,
         pc \notin {"load", "bind", "target", "done"}, pc' \notin {"load", "bind", "target", "done"},
         \/ Fail
         \/ UNCHANGED result /\ (pc = "return" /\ pc' # "return" => result # "error"),
         pc' = "emit" => checked' = TRUE
  PROVE  ObjectInv'
<1>1. result' # "object"
  BY DEF ObjectInv, ObjectOK, Fail
<1>2. pc' = "return" /\ result' # "error" => Supports(provider, asked.target)
  BY DEF ObjectInv, TargetOK, Fail
<1>3. pc' # "return" => Supports(provider, asked.target)
  BY DEF ObjectInv, TargetOK, Fail
<1> QED BY <1>1, <1>2, <1>3 DEF ObjectInv, TargetOK, ObjectOK

\* The object is made of what was verified last.
LEMMA ObjectMade == ASSUME ObjectInv, EmitObject PROVE ObjectInv'
<1>1. pc = "emit" /\ UNCHANGED <<asked, provider>>
  BY DEF EmitObject
<1>2. CASE Fail /\ UNCHANGED object
  BY <1>1, <1>2, ObjectKept DEF Fail
<1>3. CASE /\ object' \in [valid : BOOLEAN, libc : BOOLEAN, checked : {checked}]
           /\ pc' = "end" /\ UNCHANGED result
  <2>1. object'.checked = TRUE
    BY <1>1, <1>3 DEF ObjectInv, ObjectOK
  <2> QED BY <1>1, <1>3, <2>1 DEF ObjectInv, TargetOK, ObjectOK
<1> QED BY <1>2, <1>3 DEF EmitObject

\* It is looked at once more before it is handed on.
LEMMA ObjectHandedOn == ASSUME ObjectInv, Continue PROVE ObjectInv'
<1>1. pc = "return" /\ UNCHANGED <<asked, provider, object>>
  BY DEF Continue
<1>2. CASE result # "error" /\ pc' = "translate" /\ UNCHANGED result
  BY <1>1, <1>2, ObjectKept
<1>3. CASE pc' = "done" /\ (result' = "object" => object # << >> /\ ValidateObject(object))
  BY <1>1, <1>3 DEF ObjectInv, TargetOK, ObjectOK, ValidateObject
<1>4. result # "object"
  BY <1>1 DEF ObjectInv, ObjectOK
<1> QED BY <1>2, <1>3, <1>4 DEF Continue

\* The invariant of the object is inductive too.
LEMMA ObjectStep == ObjectInv /\ [Next]_vars => ObjectInv'
<1> SUFFICES ASSUME ObjectInv, [Next]_vars PROVE ObjectInv'
  OBVIOUS
<1>1. CASE UNCHANGED vars
  BY <1>1 DEF vars, ObjectInv, TargetOK, ObjectOK, ValidateObject
<1>2. CASE CreateTargetMachine \/ DataLayoutHandle \/ CopyLayout
  BY <1>2, ObjectKept DEF CreateTargetMachine, DataLayoutHandle, CopyLayout, Fail
<1>3. CASE EmitIr \/ CreateContext \/ ParseIr
  BY <1>3, ObjectKept DEF EmitIr, CreateContext, ParseIr, Fail
<1>4. CASE SetLayout \/ RunPasses \/ DropText \/ Drop
  BY <1>4, ObjectKept DEF SetLayout, RunPasses, DropText, Drop, Fail
<1>5. CASE Verify
  BY <1>5, ObjectKept DEF Verify, Fail
<1> QED
  BY <1>1, <1>2, <1>3, <1>4, <1>5, ObjectSearch, ObjectTarget, ObjectMade, ObjectHandedOn DEF Next

\* An object that is handed on comes of a module verified after its last pass,
\* for a target the provider has.
THEOREM ObjectsAreSound == Spec => []ObjectsSound
<1>1. ObjectInv => ObjectsSound
  BY DEF ObjectInv, ObjectOK, ObjectsSound, ValidateObject
<1> QED BY <1>1, ObjectInit, ObjectStep, PTL DEF Spec
=============================================================================
