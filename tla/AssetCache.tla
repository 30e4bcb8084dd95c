----------------------------- MODULE AssetCache -----------------------------
(***************************************************************************)
(* The cache the compiler extracts its embedded linker and libraries into  *)
(* (backend/native_assets.rs).  Compilers running at the same time share   *)
(* one directory and use no lock: each asset is written to a temporary     *)
(* file whose name no one else uses, verified there, and renamed onto its  *)
(* destination.  A destination is reused only after its bytes are hashed.  *)
(*                                                                         *)
(* A file is "none", "bad" (any contents that do not hash to the asset) or *)
(* "good".  Each step below is one system call, so the steps of different  *)
(* compilers interleave, and a compiler may crash between any two of them. *)
(***************************************************************************)
EXTENDS Naturals, Sequences

CONSTANTS Procs,       \* compilers
          Assets,      \* a sequence: the embedded assets in manifest order
          TopLevel,    \* the assets whose install path has no directory
          MaxRuns,     \* bound: times each compiler is run
          MaxCrashes,  \* bound: crashes
          MaxFaults    \* bound: system calls that fail or corrupt a file

N == Len(Assets)
Index == 1 .. N
Marker == N + 1        \* the ".complete" file

ASSUME CacheAssumption ==
  /\ N \in Nat \ {0}
  /\ TopLevel \subseteq Index
  /\ MaxRuns \in Nat /\ MaxCrashes \in Nat /\ MaxFaults \in Nat

VARIABLES windows,  \* the platform: a file in use cannot be replaced
          dest,     \* dest[i]: the installed file of asset i
          marker,   \* the ".complete" file exists
          pc, at,   \* each compiler's next step and the asset it is on
          temp,     \* each compiler's temporary file
          orphans,  \* the places crashed or failed runs left a temporary in
          runs, crashes, faults,
          swept     \* a sweep took the temporary of a running compiler

vars == <<windows, dest, marker, pc, at, temp, orphans, runs, crashes, faults, swept>>
files == <<windows, dest, marker>>
counts == <<runs, crashes, faults>>

Content == {"bad", "good"}
Steps == {"idle", "sweep", "exists", "hash", "write", "verify", "rename", "reverify",
          "remove", "retry", "mark", "finish", "smoke", "using", "failed"}

\* The cache may hold anything an earlier version or a full disk left there.
Init ==
  /\ windows \in BOOLEAN
  /\ dest \in [Index -> {"none"} \cup Content]
  /\ marker \in BOOLEAN
  /\ pc = [p \in Procs |-> "idle"]
  /\ at = [p \in Procs |-> 1]
  /\ temp = [p \in Procs |-> "none"]
  /\ orphans = {}
  /\ runs = [p \in Procs |-> 0]
  /\ crashes = 0 /\ faults = 0
  /\ swept = FALSE

Goto(p, l) == pc' = [pc EXCEPT ![p] = l]
SetTemp(p, f) == temp' = [temp EXCEPT ![p] = f]
Install(i, f) == dest' = [dest EXCEPT ![i] = f]

\* A system call fails for a reason outside the program.
Fault == faults < MaxFaults /\ faults' = faults + 1

\* Windows: the running linker and the libraries it reads are not replaced.
InUse(p) == windows /\ \E q \in Procs \ {p} : pc[q] \in {"smoke", "using"}

\* The asset is in place: the loop goes on with the next one.
Advance(p) ==
  IF at[p] < N THEN Goto(p, "exists") /\ at' = [at EXCEPT ![p] = @ + 1]
  ELSE Goto(p, "mark") /\ at' = [at EXCEPT ![p] = Marker]
-----------------------------------------------------------------------------
Start(p) ==
  /\ pc[p] = "idle" /\ runs[p] < MaxRuns
  /\ Goto(p, "sweep")
  /\ at' = [at EXCEPT ![p] = 1]
  /\ runs' = [runs EXCEPT ![p] = @ + 1]
  /\ UNCHANGED <<files, temp, orphans, crashes, faults, swept>>

\* cleanup_stale_temp_files: temporaries older than an hour, of crashed and of
\* suspended compilers, in the set's directory itself and not below it.
Swept == TopLevel \cup {Marker}

Sweep(p) ==
  /\ pc[p] = "sweep"
  /\ Goto(p, "exists")
  /\ \E gone \in SUBSET (orphans \cap Swept),
        late \in SUBSET {q \in Procs \ {p} : temp[q] # "none" /\ at[q] \in Swept} :
       /\ orphans' = orphans \ gone
       /\ temp' = [q \in Procs |-> IF q \in late THEN "none" ELSE temp[q]]
       /\ swept' = (swept \/ late # {})
  /\ UNCHANGED <<files, at, counts>>

\* Mutant: a file that exists is taken to be the asset.
CheckExistsOnly(p) ==
  /\ pc[p] = "exists"
  /\ \/ dest[at[p]] = "none" /\ Goto(p, "write") /\ UNCHANGED at
     \/ dest[at[p]] # "none" /\ Advance(p)
  /\ UNCHANGED <<files, temp, orphans, counts, swept>>

\* is_file and the comparison of sizes: a bad file may have the right size.
CheckExists(p) ==
  /\ pc[p] = "exists"
  /\ \/ dest[at[p]] # "good" /\ Goto(p, "write")
     \/ dest[at[p]] # "none" /\ Goto(p, "hash")
  /\ UNCHANGED <<files, at, temp, orphans, counts, swept>>

\* Mutant: equal sizes are enough.
CheckSizeOnly(p) ==
  /\ pc[p] = "hash"
  /\ Advance(p)
  /\ UNCHANGED <<files, temp, orphans, counts, swept>>

\* Reading the file to hash it fails if it was removed after the size check.
CheckHash(p) ==
  /\ pc[p] = "hash"
  /\ \/ dest[at[p]] = "good" /\ Advance(p)
     \/ dest[at[p]] = "bad" /\ Goto(p, "write") /\ UNCHANGED at
     \/ dest[at[p]] = "none" /\ Goto(p, "failed") /\ UNCHANGED at
  /\ UNCHANGED <<files, temp, orphans, counts, swept>>

Write(p) ==
  /\ pc[p] = "write"
  /\ \/ SetTemp(p, "good") /\ Goto(p, "verify") /\ UNCHANGED <<faults, orphans>>
     \/ SetTemp(p, "bad") /\ Goto(p, "verify") /\ Fault /\ UNCHANGED orphans
     \/ Goto(p, "failed") /\ orphans' = orphans \cup {at[p]} /\ Fault /\ UNCHANGED temp
  /\ UNCHANGED <<files, at, runs, crashes, swept>>

\* Mutant: the temporary file is not verified.
VerifyNothing(p) ==
  /\ pc[p] = "verify"
  /\ Goto(p, "rename")
  /\ UNCHANGED <<files, at, temp, orphans, counts, swept>>

Verify(p) ==
  /\ pc[p] = "verify"
  /\ Goto(p, IF temp[p] = "good" THEN "rename" ELSE "failed")
  /\ SetTemp(p, IF temp[p] = "good" THEN "good" ELSE "none")
  /\ UNCHANGED <<files, at, orphans, counts, swept>>

\* The file is moved in one step, and the name it had is gone.
RenameSucceeds(p) ==
  /\ temp[p] # "none" /\ ~InUse(p)
  /\ Install(at[p], temp[p]) /\ SetTemp(p, "none") /\ Advance(p)
  /\ UNCHANGED faults

\* The renaming fails, by the rules of the platform or by a fault.
RenameFails(p) ==
  \/ (temp[p] = "none" \/ InUse(p)) /\ UNCHANGED faults
  \/ Fault

Rename(p) ==
  /\ pc[p] = "rename"
  /\ \/ RenameSucceeds(p)
     \/ RenameFails(p) /\ Goto(p, "reverify") /\ UNCHANGED <<dest, temp, at>>
  /\ UNCHANGED <<windows, marker, orphans, runs, crashes, swept>>

\* Mutant: a failed rename is retried without looking at the destination.
ReverifyNothing(p) ==
  /\ pc[p] = "reverify"
  /\ Goto(p, "remove")
  /\ UNCHANGED <<files, at, temp, orphans, counts, swept>>

\* Another compiler may have installed the same asset first.
Reverify(p) ==
  /\ pc[p] = "reverify"
  /\ \/ dest[at[p]] = "good" /\ SetTemp(p, "none") /\ Advance(p)
     \/ dest[at[p]] # "good" /\ Goto(p, "remove") /\ UNCHANGED <<temp, at>>
  /\ UNCHANGED <<files, orphans, counts, swept>>

\* The outcome of remove_file is ignored.
Remove(p) ==
  /\ pc[p] = "remove"
  /\ Goto(p, "retry")
  /\ \/ ~InUse(p) /\ Install(at[p], "none") /\ UNCHANGED faults
     \/ InUse(p) /\ UNCHANGED <<dest, faults>>
     \/ Fault /\ UNCHANGED dest
  /\ UNCHANGED <<windows, marker, at, temp, orphans, runs, crashes, swept>>

\* The second renaming is the last one.
Retry(p) ==
  /\ pc[p] = "retry"
  /\ \/ RenameSucceeds(p)
     \/ RenameFails(p) /\ Goto(p, "failed") /\ SetTemp(p, "none") /\ UNCHANGED <<dest, at>>
  /\ UNCHANGED <<windows, marker, orphans, runs, crashes, swept>>

\* write_complete_marker: its temporary file, then the renaming.
Mark(p) ==
  /\ pc[p] = "mark"
  /\ \/ SetTemp(p, "good") /\ Goto(p, "finish") /\ UNCHANGED <<orphans, faults>>
     \/ Goto(p, "failed") /\ orphans' = orphans \cup {Marker} /\ Fault /\ UNCHANGED temp
  /\ UNCHANGED <<files, at, runs, crashes, swept>>

FinishMark(p) ==
  /\ pc[p] = "finish"
  /\ SetTemp(p, "none")
  /\ \/ temp[p] # "none" /\ marker' = TRUE /\ Goto(p, "smoke") /\ UNCHANGED faults
     \/ /\ (temp[p] = "none" /\ UNCHANGED faults) \/ Fault
        /\ Goto(p, IF marker THEN "smoke" ELSE "failed")
        /\ UNCHANGED marker
  /\ UNCHANGED <<windows, dest, at, orphans, runs, crashes, swept>>

Intact == \A i \in Index : dest[i] = "good"

\* smoke_check_linker: the linker starts when it and its libraries are there.
Smoke(p) ==
  /\ pc[p] = "smoke"
  /\ Goto(p, IF Intact THEN "using" ELSE "failed")
  /\ UNCHANGED <<files, at, temp, orphans, counts, swept>>

\* The link is done, or the error is reported: the compiler exits.
Exit(p) ==
  /\ pc[p] \in {"using", "failed"}
  /\ Goto(p, "idle")
  /\ UNCHANGED <<files, at, temp, orphans, counts, swept>>

\* The compiler is killed; its temporary file stays.
Crash(p) ==
  /\ pc[p] # "idle" /\ crashes < MaxCrashes
  /\ crashes' = crashes + 1
  /\ Goto(p, "idle")
  /\ orphans' = IF temp[p] = "none" THEN orphans ELSE orphans \cup {at[p]}
  /\ SetTemp(p, "none")
  /\ UNCHANGED <<files, at, runs, faults, swept>>

Step(p) ==
  \/ Sweep(p) \/ CheckExists(p) \/ CheckHash(p) \/ Write(p) \/ Verify(p)
  \/ Rename(p) \/ Reverify(p) \/ Remove(p) \/ Retry(p)
  \/ Mark(p) \/ FinishMark(p) \/ Smoke(p) \/ Exit(p)

Next == \E p \in Procs : Start(p) \/ Step(p) \/ Crash(p)

Spec == Init /\ [][Next]_vars

\* A compiler that was started is run by the operating system to its end.
FairSpec == Spec /\ \A p \in Procs : WF_vars(Step(p))
-----------------------------------------------------------------------------
\* The type of the state.
TypeOK ==
  /\ windows \in BOOLEAN /\ marker \in BOOLEAN /\ swept \in BOOLEAN
  /\ dest \in [Index -> {"none"} \cup Content]
  /\ pc \in [Procs -> Steps]
  /\ at \in [Procs -> Index \cup {Marker}]
  /\ temp \in [Procs -> {"none"} \cup Content]
  /\ orphans \subseteq Index \cup {Marker}
  /\ runs \in [Procs -> 0 .. MaxRuns]
  /\ crashes \in 0 .. MaxCrashes /\ faults \in 0 .. MaxFaults
  /\ \A p \in Procs : pc[p] \notin {"mark", "finish", "smoke", "using", "failed", "idle"}
                        => at[p] \in Index

\* Something outside the algorithm went wrong: a system call failed, or a
\* compiler was suspended for so long that its temporary file was swept.
Disturbed == faults > 0 \/ swept

\* "every racing extraction must succeed, never corrupt": whatever fails and
\* whoever crashes, a file that holds the asset is never replaced by one that
\* does not, so a half-written file is never seen under the final name.
GoodNotSpoiled ==
  [][\A i \in Index : dest[i] = "good" => dest'[i] # "bad"]_vars

\* A compiler that was handed the set finds every file of it intact for as
\* long as it links, while others extract, crash and sweep beside it.  Only
\* the removal that follows a failed renaming can take a file away from it.
ReturnedIntact ==
  \A p \in Procs : pc[p] \in {"smoke", "using"} =>
    \A i \in Index : dest[i] = "good" \/ (dest[i] = "none" /\ Disturbed)

\* No compiler reports an error because of what another one is doing: not for
\* losing a race, not for a file in use on Windows, not for what a crash left
\* behind.  An error needs a failing system call or a swept temporary.
NoSpuriousError ==
  \A p \in Procs : pc[p] = "failed" => Disturbed

\* A damaged or missing file is repaired by any run that reaches it and is
\* not interrupted.
CacheHeals ==
  \A p \in Procs, i \in Index :
    (pc[p] = "exists" /\ at[p] = i) ~> (dest[i] = "good" \/ faults > 0 \/ crashes > 0)
=============================================================================
