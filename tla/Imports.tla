------------------------------ MODULE Imports ------------------------------
(***************************************************************************)
(* Import resolution (main.rs resolve_imports): before lexing, the text of *)
(* every imported file is put in place of its use line, and an import      *)
(* under a namespace renames the declarations of that text.                *)
(*                                                                         *)
(* The recursion is a stack of calls.  A plain import shares the caller's  *)
(* visited set and namespaces; a namespaced one works on a copy of the     *)
(* visited set and starts a list of namespaces of its own.                 *)
(*                                                                         *)
(* A word is a sequence: <<"m", "f">> is m_f.  A line of a file is a use   *)
(* or declares a function that mentions others, by name or as ns.name; q   *)
(* is the part before the dot.                                             *)
(***************************************************************************)
EXTENDS Naturals, Sequences, FiniteSets

CONSTANTS Files,     \* the files that may be named
          Root,      \* the one given on the command line
          Programs   \* what may be in them: [Files -> sequences of lines]

\* A file is a sequence of lines, and a name a sequence of words.  A use names
\* one of the files and declares nothing.
Counted(s) == s \in Seq({s[i] : i \in DOMAIN s})
ASSUME ProgramsAssumption ==
  /\ Root \in Files
  /\ \A p \in Programs : \A f \in Files :
       /\ Counted(p[f])
       /\ \A j \in DOMAIN p[f] :
            /\ Counted(p[f][j].decl)
            /\ p[f][j].k = "use" => p[f][j].file \in Files /\ p[f][j].decl = << >>

VARIABLES files,     \* the program
          present,   \* the files that can be read
          calls,     \* the calls of resolve_imports, outermost first
          interned,  \* SourceMapBuilder: the files that have an id, in order
          status,    \* "resolving", "error" or "resolved"
          source     \* the resolved text and the origins of its lines

vars == <<files, present, calls, interned, status, source>>

UseLine(f, ns, closed) ==
  [k |-> "use", file |-> f, ns |-> ns, closed |-> closed, decl |-> << >>, refs |-> << >>]
DeclLine(name, refs) ==
  [k |-> "decl", file |-> "", ns |-> "", closed |-> FALSE, decl |-> name, refs |-> refs]
Ref(q, n) == [q |-> q, n |-> n]
Blank == [decl |-> << >>, refs |-> << >>]

\* The namespace of a use line, "" for none: a clause that is followed by a
\* semicolon is not an identifier.
ParseAsClause(line) == IF line.closed THEN "" ELSE line.ns

(***************************************************************************)
(* Renaming.                                                               *)
(***************************************************************************)
FindTopLevelNames(text) == {text[j].decl : j \in DOMAIN text} \ {<< >>}

\* Longest names first, so no replacement is replaced again.
MangleTopLevelNames(text, ns) ==
  LET names == FindTopLevelNames(text)
      word(w) == IF w \in names THEN <<ns>> \o w ELSE w
  IN [j \in DOMAIN text |->
        [decl |-> word(text[j].decl),
         refs |-> [i \in DOMAIN text[j].refs |->
                     Ref(word(text[j].refs[i].q), word(text[j].refs[i].n))]]]

ReplaceNsDot(text, ns) ==
  [j \in DOMAIN text |->
     [text[j] EXCEPT !.refs = [i \in DOMAIN @ |->
        IF @[i].q = <<ns>> THEN Ref(<< >>, <<ns>> \o @[i].n) ELSE @[i]]]]

\* For every namespace in turn.
Undotted(text, namespaces) ==
  LET undot[j \in 0 .. Len(namespaces)] ==
        IF j = 0 THEN text ELSE ReplaceNsDot(undot[j - 1], namespaces[j])
  IN undot[Len(namespaces)]

(***************************************************************************)
(* Calls.  lines is the origin of each line of text, << >> for none.       *)
(***************************************************************************)
Call(f, ns, visited, namespaces) ==
  [file |-> f, ns |-> ns, at |-> 1, visited |-> visited \cup {f},
   namespaces |-> namespaces, text |-> << >>, lines |-> << >>]

\* A line without an origin gets no entry.
PushLineCompact(call, line, origin) ==
  [call EXCEPT !.text = Append(@, line),
               !.lines = IF origin = << >> THEN @ ELSE Append(@, origin)]
PushLine(call, line, origin) ==
  [call EXCEPT !.text = Append(@, line), !.lines = Append(@, origin)]
AppendSource(call, text, lines) ==
  [call EXCEPT !.text = @ \o text, !.lines = @ \o lines]

Intern(f) == IF \E j \in DOMAIN interned : interned[j] = f THEN interned ELSE Append(interned, f)

Top == calls[Len(calls)]
Current == files[Top.file][Top.at]
Replaced(call) == [calls EXCEPT ![Len(calls)] = call]

Init ==
  /\ files \in Programs
  /\ present \in {Files} \cup {Files \ {f} : f \in Files \ {Root}}
  /\ calls = <<Call(Root, "", {}, << >>)>>
  /\ interned = <<Root>>
  /\ status = "resolving"
  /\ source = [text |-> << >>, lines |-> << >>]

Reading == status = "resolving" /\ Top.at <= Len(files[Top.file])
OnUse == Reading /\ Current.k = "use"

\* A line that is not an import is kept, with where it comes from.
CopyLine ==
  /\ Reading /\ Current.k = "decl"
  /\ calls' = Replaced([PushLine(Top, [decl |-> Current.decl, refs |-> Current.refs],
                                 <<Top.file, Top.at>>) EXCEPT !.at = @ + 1])
  /\ UNCHANGED <<files, present, interned, status, source>>

\* The path cannot be resolved or the file not be read: the compiler stops.
MissingFile ==
  /\ OnUse /\ Current.file \notin present
  /\ status' = "error"
  /\ UNCHANGED <<files, present, calls, interned, source>>

\* A namespaced import starts with an empty visited set.
EnterFresh(call, line) ==
  Call(line.file, ParseAsClause(line),
       IF ParseAsClause(line) = "" THEN call.visited ELSE {},
       IF ParseAsClause(line) = "" THEN call.namespaces ELSE << >>)
\* What a call starts with.
Enter(call, line) ==
  Call(line.file, ParseAsClause(line), call.visited,
       IF ParseAsClause(line) = "" THEN call.namespaces ELSE << >>)

Import ==
  /\ OnUse /\ Current.file \in present \ Top.visited
  /\ calls' = Append(calls, Enter(Top, Current))
  /\ interned' = Intern(Current.file)
  /\ UNCHANGED <<files, present, status, source>>

\* A namespaced import leaves what it visited in the caller's set.
ResumeShared(call, ns, text, lines, visited, namespaces) ==
  LET after == PushLine(AppendSource(call, text, lines), Blank, << >>)
  IN [after EXCEPT !.at = @ + 1, !.visited = visited,
                   !.namespaces = IF ns = "" THEN namespaces ELSE (@ \o <<ns>>) \o namespaces]
\* The caller goes on after the use line with what the call returned.
Resume(call, ns, text, lines, visited, namespaces) ==
  LET after == PushLine(AppendSource(call, text, lines), Blank, << >>)
  IN IF ns = ""
     THEN [after EXCEPT !.at = @ + 1, !.visited = visited, !.namespaces = namespaces]
     ELSE [after EXCEPT !.at = @ + 1, !.namespaces = (@ \o <<ns>>) \o namespaces]

\* The file was visited: the import gives nothing.
SkipVisited ==
  /\ OnUse /\ Current.file \in present \cap Top.visited
  /\ LET ns == ParseAsClause(Current) IN
     calls' = Replaced(Resume(Top, ns, << >>, << >>, Top.visited,
                              IF ns = "" THEN Top.namespaces ELSE << >>))
  /\ UNCHANGED <<files, present, interned, status, source>>

Return ==
  /\ status = "resolving" /\ ~Reading /\ Len(calls) > 1
  /\ LET caller == calls[Len(calls) - 1]
         text == IF Top.ns = "" THEN Top.text ELSE MangleTopLevelNames(Top.text, Top.ns)
     IN calls' = [SubSeq(calls, 1, Len(calls) - 1) EXCEPT ![Len(calls) - 1] =
                    Resume(caller, Top.ns, text, Top.lines, Top.visited, Top.namespaces)]
  /\ UNCHANGED <<files, present, interned, status, source>>

\* main: the dots of every namespace are replaced in the whole text.
Finish ==
  /\ status = "resolving" /\ ~Reading /\ Len(calls) = 1
  /\ source' = [text |-> Undotted(Top.text, Top.namespaces), lines |-> Top.lines]
  /\ status' = "resolved"
  /\ UNCHANGED <<files, present, calls, interned>>

Next == CopyLine \/ MissingFile \/ Import \/ SkipVisited \/ Return \/ Finish
Spec == Init /\ [][Next]_vars

(***************************************************************************)
(* What a program means.                                                   *)
(***************************************************************************)
Uses(f) == {files[f][j] : j \in {k \in DOMAIN files[f] : files[f][k].k = "use"}}
Plain(f) == {u.file : u \in {u \in Uses(f) : ParseAsClause(u) = ""}}
Spaced(f) == {u \in Uses(f) : ParseAsClause(u) # ""}

\* The files whose declarations are in scope in f without a namespace: those
\* in every set of files that holds f and what its members import plainly.
Closure(f) ==
  LET closed == {S \in SUBSET Files : f \in S /\ \A g \in S : Plain(g) \subseteq S}
  IN {g \in Files : \A S \in closed : g \in S}
DeclsOf(f) == {files[f][j].decl : j \in DOMAIN files[f]} \ {<< >>}

\* The uses with a namespace that f sees.
Seen(f) == UNION {Spaced(g) : g \in Closure(f)}

\* Programs whose namespaces are simple: each is introduced by one line of the
\* plainly imported files, for a file that is not one of them and that has no
\* namespaces of its own; a name is declared once in what shares a scope; and
\* none looks as if it were renamed (m_f where m is a namespace).
Simple ==
  /\ \A u, v \in Seen(Root) : u.ns = v.ns => u = v
  /\ \A f, g \in Closure(Root) : f # g => {u.ns : u \in Spaced(f)} \cap {u.ns : u \in Spaced(g)} = {}
  /\ \A f \in Closure(Root) :
       \A j, k \in DOMAIN files[f] :
          files[f][j] = files[f][k] /\ files[f][j] \in Spaced(f) => j = k
  /\ \A u \in Seen(Root) : u.file \notin Closure(Root)
       /\ \A g \in Closure(u.file) \ {Root} : Spaced(g) = {}
  /\ \A h \in {Root} \cup {u.file : u \in Seen(Root)} :
       \A f, g \in Closure(h) :
          \A j \in DOMAIN files[f], k \in DOMAIN files[g] :
             files[f][j].decl = files[g][k].decl /\ files[f][j].decl # << >> =>
               f = g /\ j = k
  /\ \A u \in Seen(Root) : \A f \in Closure(Root) : \A d \in DeclsOf(f) : Head(d) # u.ns

\* The files a mention r in file f may stand for.
Meant(f, r) ==
  IF r.q = << >> THEN {g \in Closure(f) : r.n \in DeclsOf(g)}
  ELSE {u.file : u \in {u \in Spaced(f) : r.q = <<u.ns>> /\ r.n \in DeclsOf(u.file)}}

(***************************************************************************)
(* Properties.                                                             *)
(***************************************************************************)
Origin(j) == source.lines[j]
SourceLine(o) == files[o[1]][o[2]]

\* Every mention of a name that is in scope ends as the name of exactly one
\* declaration, one of the file it stands for, in whatever order plain and
\* namespaced imports, diamonds and cycles bring the files in (main.rs:179).
MentionsResolve ==
  status = "resolved" /\ Simple =>
    \A j \in DOMAIN source.text : Origin(j) # << >> =>
      LET f == Origin(j)[1]
          refs == SourceLine(Origin(j)).refs
      IN \A i \in DOMAIN refs : Meant(f, refs[i]) # {} =>
           LET final == source.text[j].refs[i]
               found == {k \in DOMAIN source.text : source.text[k].decl = final.n}
           IN /\ final.q = << >>
              /\ Cardinality(found) = 1
              /\ \A k \in found : Origin(k)[1] \in Meant(f, refs[i])

\* Every line of the resolved text keeps the file and the line it was read
\* from, through every renaming: what is declared there is declared here.
LinesTracked ==
  status = "resolved" =>
    /\ Len(source.text) = Len(source.lines)
    /\ \A j \in DOMAIN source.text :
         LET decl == source.text[j].decl IN
         IF decl = << >> THEN Origin(j) = << >> \/ SourceLine(Origin(j)).decl = << >>
         ELSE /\ Origin(j) # << >>
              /\ \E m \in 1 .. Len(decl) : SubSeq(decl, m, Len(decl)) = SourceLine(Origin(j)).decl

\* Cycles are cut: no file is being read twice at the same time, whatever mix
\* of plain and namespaced imports leads back to it.
CyclesCut == Cardinality({calls[j].file : j \in DOMAIN calls}) = Len(calls)
=============================================================================
