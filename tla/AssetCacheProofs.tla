-------------------------- MODULE AssetCacheProofs --------------------------
(* The cache protocol for any number of compilers, assets, runs, crashes    *)
(* and faults, on both platforms.                                           *)
EXTENDS AssetCache, TLAPS

Loop == {"sweep", "exists", "hash", "write", "verify", "rename", "reverify",
         "remove", "retry"}
Installing == {"rename", "reverify", "remove", "retry"}
Ready == {"mark", "finish", "smoke", "using"}

\* Compiler p has finished with asset i.
Done(p, i) == pc[p] \in Ready \/ (pc[p] \in Loop /\ i < at[p])

Kept(i) == dest[i] = "good" \/ (dest[i] = "none" /\ Disturbed)

\* A file about to be installed was verified.
TempsVerified ==
  \A p \in Procs :
    /\ pc[p] \in Installing => temp[p] = "good" \/ (temp[p] = "none" /\ swept)
    /\ pc[p] = "verify" => temp[p] = "good" \/ Disturbed
    /\ pc[p] = "finish" => temp[p] = "good" \/ swept

\* What a compiler has seen good stays so, unless something was disturbed.
DoneKept == \A p \in Procs, i \in Index : Done(p, i) => Kept(i)

\* A compiler loses a race only to one that installed the asset.
LostToGood ==
  \A p \in Procs :
    /\ pc[p] = "reverify" => Disturbed \/ dest[at[p]] = "good"
    /\ pc[p] \in {"remove", "retry", "failed"} => Disturbed
    /\ pc[p] = "hash" => Disturbed \/ dest[at[p]] # "none"

CacheInv == TypeOK /\ TempsVerified /\ DoneKept /\ LostToGood
-----------------------------------------------------------------------------
\* No compiler is running, so only the types are to be shown.
LEMMA CacheInit == Init => CacheInv
<1> SUFFICES ASSUME Init PROVE CacheInv
  OBVIOUS
<1>1. 1 \in Index /\ 0 \in 0 .. MaxRuns /\ 0 \in 0 .. MaxCrashes /\ 0 \in 0 .. MaxFaults
  BY CacheAssumption DEF Index
<1>2. TypeOK
  BY <1>1 DEF Init, TypeOK, Steps
<1>3. TempsVerified /\ DoneKept /\ LostToGood
  BY DEF Init, TempsVerified, DoneKept, LostToGood, Done, Loop, Ready, Installing
<1> QED BY <1>2, <1>3 DEF CacheInv

\* Where the loop over the assets goes next.
LEMMA AdvanceTyped ==
  ASSUME TypeOK, NEW p \in Procs, at[p] \in Index, Advance(p)
  PROVE  /\ at' \in [Procs -> Index \cup {Marker}]
         /\ \A q \in Procs \ {p} : pc'[q] = pc[q] /\ at'[q] = at[q]
         /\ \/ pc'[p] = "exists" /\ at'[p] = at[p] + 1 /\ at'[p] \in Index
            \/ pc'[p] = "mark" /\ at[p] = N
<1>1. CASE at[p] < N
  <2>1. at[p] + 1 \in Index
    BY <1>1, CacheAssumption DEF Index
  <2> QED BY <1>1, <2>1 DEF Advance, Goto, TypeOK
<1>2. CASE ~(at[p] < N)
  <2>1. at[p] = N
    BY <1>2, CacheAssumption DEF Index
  <2> QED BY <1>2, <2>1 DEF Advance, Goto, TypeOK
<1> QED BY <1>1, <1>2

-----------------------------------------------------------------------------
\* A run begins with the sweep.
LEMMA StartKeeps ==
  ASSUME CacheInv, NEW p \in Procs, Start(p)
  PROVE  CacheInv'
<1> USE CacheAssumption DEF CacheInv, Goto, SetTemp, files, counts
<1>1. TypeOK'
  <2>1. pc' \in [Procs -> Steps] /\ temp' \in [Procs -> {"none"} \cup Content]
    BY DEF TypeOK, Steps, Start
  <2>2. /\ at' \in [Procs -> Index \cup {Marker}]
        /\ \A q \in Procs :
             pc'[q] \notin {"mark", "finish", "smoke", "using", "failed", "idle"}
               => at'[q] \in Index
    BY DEF TypeOK, Index, Start
  <2>3. /\ windows' \in BOOLEAN /\ marker' \in BOOLEAN /\ swept' \in BOOLEAN
        /\ dest' \in [Index -> {"none"} \cup Content]
    BY DEF TypeOK, Start
  <2>4. /\ orphans' \subseteq Index \cup {Marker}
        /\ runs' \in [Procs -> 0 .. MaxRuns]
        /\ crashes' \in 0 .. MaxCrashes /\ faults' \in 0 .. MaxFaults
    BY DEF TypeOK, Start
  <2> QED BY <2>1, <2>2, <2>3, <2>4 DEF TypeOK
<1>2. TempsVerified'
  BY DEF TempsVerified, Installing, Disturbed, Start
<1>3. DoneKept'
  BY DEF TypeOK, DoneKept, Done, Kept, Disturbed, Ready, Index, Start
<1>4. LostToGood'
  BY DEF LostToGood, Disturbed, Start
<1> QED BY <1>1, <1>2, <1>3, <1>4

\* A sweep may take temporaries of others, and says so.
LEMMA SweepKeeps ==
  ASSUME CacheInv, NEW p \in Procs, Sweep(p)
  PROVE  CacheInv'
<1> USE CacheAssumption DEF CacheInv, Goto, SetTemp, files, counts
<1>1. TypeOK'
  <2>1. pc' \in [Procs -> Steps] /\ temp' \in [Procs -> {"none"} \cup Content]
    BY DEF TypeOK, Steps, Sweep
  <2>2. /\ at' \in [Procs -> Index \cup {Marker}]
        /\ \A q \in Procs :
             pc'[q] \notin {"mark", "finish", "smoke", "using", "failed", "idle"}
               => at'[q] \in Index
    BY DEF TypeOK, Sweep
  <2>3. /\ windows' \in BOOLEAN /\ marker' \in BOOLEAN /\ swept' \in BOOLEAN
        /\ dest' \in [Index -> {"none"} \cup Content]
    BY DEF TypeOK, Sweep
  <2>4. /\ orphans' \subseteq Index \cup {Marker}
        /\ runs' \in [Procs -> 0 .. MaxRuns]
        /\ crashes' \in 0 .. MaxCrashes /\ faults' \in 0 .. MaxFaults
    BY DEF TypeOK, Sweep
  <2> QED BY <2>1, <2>2, <2>3, <2>4 DEF TypeOK
<1>2. TempsVerified'
  BY DEF TypeOK, TempsVerified, Installing, Disturbed, Sweep
<1>3. DoneKept'
  BY DEF TypeOK, DoneKept, Done, Kept, Disturbed, Loop, Ready, Sweep
<1>4. LostToGood'
  BY DEF TypeOK, LostToGood, Disturbed, Sweep
<1> QED BY <1>1, <1>2, <1>3, <1>4

\* Nothing but the program counter changes.
LEMMA CheckExistsKeeps ==
  ASSUME CacheInv, NEW p \in Procs, CheckExists(p)
  PROVE  CacheInv'
<1> USE CacheAssumption DEF CacheInv, Goto, SetTemp, files, counts
<1>1. TypeOK'
  <2>1. pc' \in [Procs -> Steps] /\ temp' \in [Procs -> {"none"} \cup Content]
    BY DEF TypeOK, Steps, CheckExists
  <2>2. /\ at' \in [Procs -> Index \cup {Marker}]
        /\ \A q \in Procs :
             pc'[q] \notin {"mark", "finish", "smoke", "using", "failed", "idle"}
               => at'[q] \in Index
    BY DEF TypeOK, CheckExists
  <2>3. /\ windows' \in BOOLEAN /\ marker' \in BOOLEAN /\ swept' \in BOOLEAN
        /\ dest' \in [Index -> {"none"} \cup Content]
    BY DEF TypeOK, CheckExists
  <2>4. /\ orphans' \subseteq Index \cup {Marker}
        /\ runs' \in [Procs -> 0 .. MaxRuns]
        /\ crashes' \in 0 .. MaxCrashes /\ faults' \in 0 .. MaxFaults
    BY DEF TypeOK, CheckExists
  <2> QED BY <2>1, <2>2, <2>3, <2>4 DEF TypeOK
<1>2. TempsVerified'
  BY DEF TypeOK, TempsVerified, Installing, Disturbed, CheckExists
<1>3. DoneKept'
  BY DEF TypeOK, DoneKept, Done, Kept, Disturbed, Loop, Ready, CheckExists
<1>4. LostToGood'
  BY DEF TypeOK, LostToGood, Disturbed, CheckExists
<1> QED BY <1>1, <1>2, <1>3, <1>4

\* The asset was seen good, so it is kept from here on.
LEMMA CheckHashKeeps ==
  ASSUME CacheInv, NEW p \in Procs, CheckHash(p)
  PROVE  CacheInv'
<1> USE CacheAssumption DEF CacheInv, Goto, SetTemp, files, counts
<1>1. TypeOK'
  <2>1. pc' \in [Procs -> Steps] /\ temp' \in [Procs -> {"none"} \cup Content]
    BY DEF TypeOK, Steps, CheckHash, Advance
  <2>2. /\ at' \in [Procs -> Index \cup {Marker}]
        /\ \A q \in Procs :
             pc'[q] \notin {"mark", "finish", "smoke", "using", "failed", "idle"}
               => at'[q] \in Index
    <3>1. at[p] \in Index
      BY DEF TypeOK, CheckHash
    <3>2. CASE Advance(p)
      BY <3>1, <3>2, AdvanceTyped DEF TypeOK
    <3>3. CASE ~Advance(p)
      BY <3>1, <3>3 DEF TypeOK, CheckHash
    <3> QED BY <3>2, <3>3
  <2>3. /\ windows' \in BOOLEAN /\ marker' \in BOOLEAN /\ swept' \in BOOLEAN
        /\ dest' \in [Index -> {"none"} \cup Content]
    BY DEF TypeOK, CheckHash
  <2>4. /\ orphans' \subseteq Index \cup {Marker}
        /\ runs' \in [Procs -> 0 .. MaxRuns]
        /\ crashes' \in 0 .. MaxCrashes /\ faults' \in 0 .. MaxFaults
    BY DEF TypeOK, CheckHash
  <2> QED BY <2>1, <2>2, <2>3, <2>4 DEF TypeOK
<1>2. TempsVerified'
  BY DEF TypeOK, TempsVerified, Installing, Disturbed, CheckHash, Advance
<1>3. DoneKept'
  BY DEF TypeOK, DoneKept, Done, Kept, Disturbed, Loop, Ready, Index, CheckHash,
       Advance
<1>4. LostToGood'
  BY DEF TypeOK, LostToGood, Disturbed, CheckHash, Advance
<1> QED BY <1>1, <1>2, <1>3, <1>4

\* A bad temporary needs a fault.
LEMMA WriteKeeps ==
  ASSUME CacheInv, NEW p \in Procs, Write(p)
  PROVE  CacheInv'
<1> USE CacheAssumption DEF CacheInv, Goto, SetTemp, files, counts
<1>1. TypeOK'
  <2>1. pc' \in [Procs -> Steps] /\ temp' \in [Procs -> {"none"} \cup Content]
    BY DEF TypeOK, Steps, Content, Write
  <2>2. /\ at' \in [Procs -> Index \cup {Marker}]
        /\ \A q \in Procs :
             pc'[q] \notin {"mark", "finish", "smoke", "using", "failed", "idle"}
               => at'[q] \in Index
    BY DEF TypeOK, Write
  <2>3. /\ windows' \in BOOLEAN /\ marker' \in BOOLEAN /\ swept' \in BOOLEAN
        /\ dest' \in [Index -> {"none"} \cup Content]
    BY DEF TypeOK, Write
  <2>4. /\ orphans' \subseteq Index \cup {Marker}
        /\ runs' \in [Procs -> 0 .. MaxRuns]
        /\ crashes' \in 0 .. MaxCrashes /\ faults' \in 0 .. MaxFaults
    BY DEF TypeOK, Write, Fault
  <2> QED BY <2>1, <2>2, <2>3, <2>4 DEF TypeOK
<1>2. TempsVerified'
  BY DEF TypeOK, TempsVerified, Installing, Disturbed, Write, Fault
<1>3. DoneKept'
  BY DEF TypeOK, DoneKept, Done, Kept, Disturbed, Loop, Ready, Write, Fault
<1>4. LostToGood'
  BY DEF TypeOK, LostToGood, Disturbed, Write, Fault
<1> QED BY <1>1, <1>2, <1>3, <1>4

\* Only a good temporary goes on to the renaming.
LEMMA VerifyKeeps ==
  ASSUME CacheInv, NEW p \in Procs, Verify(p)
  PROVE  CacheInv'
<1> USE CacheAssumption DEF CacheInv, Goto, SetTemp, files, counts
<1>1. TypeOK'
  <2>1. pc' \in [Procs -> Steps] /\ temp' \in [Procs -> {"none"} \cup Content]
    BY DEF TypeOK, Steps, Verify
  <2>2. /\ at' \in [Procs -> Index \cup {Marker}]
        /\ \A q \in Procs :
             pc'[q] \notin {"mark", "finish", "smoke", "using", "failed", "idle"}
               => at'[q] \in Index
    BY DEF TypeOK, Verify
  <2>3. /\ windows' \in BOOLEAN /\ marker' \in BOOLEAN /\ swept' \in BOOLEAN
        /\ dest' \in [Index -> {"none"} \cup Content]
    BY DEF TypeOK, Verify
  <2>4. /\ orphans' \subseteq Index \cup {Marker}
        /\ runs' \in [Procs -> 0 .. MaxRuns]
        /\ crashes' \in 0 .. MaxCrashes /\ faults' \in 0 .. MaxFaults
    BY DEF TypeOK, Verify
  <2> QED BY <2>1, <2>2, <2>3, <2>4 DEF TypeOK
<1>2. TempsVerified'
  BY DEF TempsVerified, Installing, Disturbed, Verify
<1>3. DoneKept'
  BY DEF DoneKept, Done, Kept, Disturbed, Loop, Ready, Verify
<1>4. LostToGood'
  BY DEF TempsVerified, LostToGood, Disturbed, Verify
<1> QED BY <1>1, <1>2, <1>3, <1>4

\* A verified file is installed; a failure means a fault, a sweep, or a
\* compiler that uses the asset, which then is good.
LEMMA RenameKeeps ==
  ASSUME CacheInv, NEW p \in Procs, Rename(p)
  PROVE  CacheInv'
<1> USE CacheAssumption DEF CacheInv, Goto, SetTemp, files, counts
<1>1. TypeOK'
  <2>1. pc' \in [Procs -> Steps] /\ temp' \in [Procs -> {"none"} \cup Content]
    BY DEF TypeOK, Steps, Rename, RenameSucceeds, Advance
  <2>2. /\ at' \in [Procs -> Index \cup {Marker}]
        /\ \A q \in Procs :
             pc'[q] \notin {"mark", "finish", "smoke", "using", "failed", "idle"}
               => at'[q] \in Index
    <3>1. at[p] \in Index
      BY DEF TypeOK, Rename
    <3>2. CASE Advance(p)
      BY <3>1, <3>2, AdvanceTyped DEF TypeOK
    <3>3. CASE ~Advance(p)
      BY <3>1, <3>3 DEF TypeOK, Rename, RenameSucceeds
    <3> QED BY <3>2, <3>3
  <2>3. /\ windows' \in BOOLEAN /\ marker' \in BOOLEAN /\ swept' \in BOOLEAN
        /\ dest' \in [Index -> {"none"} \cup Content]
    BY DEF TypeOK, Rename, RenameSucceeds, Install
  <2>4. /\ orphans' \subseteq Index \cup {Marker}
        /\ runs' \in [Procs -> 0 .. MaxRuns]
        /\ crashes' \in 0 .. MaxCrashes /\ faults' \in 0 .. MaxFaults
    BY DEF TypeOK, Rename, RenameSucceeds, RenameFails, Fault
  <2> QED BY <2>1, <2>2, <2>3, <2>4 DEF TypeOK
<1>2. TempsVerified'
  BY DEF TypeOK, TempsVerified, Installing, Disturbed, Rename, RenameSucceeds,
       RenameFails, Fault, Advance
<1>3. DoneKept'
  BY DEF TypeOK, TempsVerified, DoneKept, Done, Kept, Disturbed, Loop, Ready,
       Installing, Index, Marker, Rename, RenameSucceeds, RenameFails, Fault, Install,
       Advance
<1>4. LostToGood'
  <2>1. CASE RenameSucceeds(p)
    <3>1. temp[p] = "good" /\ dest' = [dest EXCEPT ![at[p]] = "good"] /\ at[p] \in Index
      BY <2>1 DEF TypeOK, TempsVerified, Installing, Rename, RenameSucceeds, Install
    <3>2. Disturbed' <=> Disturbed
      BY <2>1 DEF Rename, RenameSucceeds, Disturbed
    <3>3. pc'[p] \in {"exists", "mark"} /\ \A q \in Procs \ {p} : pc'[q] = pc[q] /\ at'[q] = at[q]
      BY <2>1, <3>1, AdvanceTyped DEF RenameSucceeds
    <3>4. \A q \in Procs : pc[q] \in {"reverify", "hash"} => at[q] \in Index
      BY DEF TypeOK
    <3> QED BY <3>1, <3>2, <3>3, <3>4 DEF LostToGood
  <2>2. CASE ~RenameSucceeds(p)
    <3>1. /\ pc' = [pc EXCEPT ![p] = "reverify"] /\ UNCHANGED <<dest, temp, at, swept>>
          /\ RenameFails(p) /\ at[p] \in Index
      BY <2>2 DEF Rename, TypeOK
    <3>2. Disturbed => Disturbed'
      BY <3>1 DEF RenameFails, Fault, Disturbed, TypeOK
    <3>3. Disturbed' \/ dest[at[p]] = "good"
      <4>1. CASE temp[p] = "none"
        BY <4>1, <3>1 DEF Rename, TempsVerified, Installing, Disturbed
      <4>2. CASE InUse(p)
        <5>1. PICK q \in Procs : pc[q] \in {"smoke", "using"}
          BY <4>2 DEF InUse
        <5> QED BY <3>1, <3>2, <5>1 DEF DoneKept, Done, Kept, Ready
      <4>3. CASE Fault
        BY <4>3 DEF Fault, Disturbed, TypeOK
      <4> QED BY <3>1, <4>1, <4>2, <4>3 DEF RenameFails
    <3> QED BY <3>1, <3>2, <3>3 DEF LostToGood
  <2> QED BY <2>1, <2>2
<1> QED BY <1>1, <1>2, <1>3, <1>4

\* Only a disturbed run finds the destination not good.
LEMMA ReverifyKeeps ==
  ASSUME CacheInv, NEW p \in Procs, Reverify(p)
  PROVE  CacheInv'
<1> USE CacheAssumption DEF CacheInv, Goto, SetTemp, files, counts
<1>1. TypeOK'
  <2>1. pc' \in [Procs -> Steps] /\ temp' \in [Procs -> {"none"} \cup Content]
    BY DEF TypeOK, Steps, Reverify, Advance
  <2>2. /\ at' \in [Procs -> Index \cup {Marker}]
        /\ \A q \in Procs :
             pc'[q] \notin {"mark", "finish", "smoke", "using", "failed", "idle"}
               => at'[q] \in Index
    <3>1. at[p] \in Index
      BY DEF TypeOK, Reverify
    <3>2. CASE Advance(p)
      BY <3>1, <3>2, AdvanceTyped DEF TypeOK
    <3>3. CASE ~Advance(p)
      BY <3>1, <3>3 DEF TypeOK, Reverify
    <3> QED BY <3>2, <3>3
  <2>3. /\ windows' \in BOOLEAN /\ marker' \in BOOLEAN /\ swept' \in BOOLEAN
        /\ dest' \in [Index -> {"none"} \cup Content]
    BY DEF TypeOK, Reverify
  <2>4. /\ orphans' \subseteq Index \cup {Marker}
        /\ runs' \in [Procs -> 0 .. MaxRuns]
        /\ crashes' \in 0 .. MaxCrashes /\ faults' \in 0 .. MaxFaults
    BY DEF TypeOK, Reverify
  <2> QED BY <2>1, <2>2, <2>3, <2>4 DEF TypeOK
<1>2. TempsVerified'
  BY DEF TypeOK, TempsVerified, Installing, Disturbed, Reverify, Advance
<1>3. DoneKept'
  BY DEF TypeOK, DoneKept, Done, Kept, Disturbed, Loop, Ready, Index, Marker,
       Reverify, Advance
<1>4. LostToGood'
  BY DEF TypeOK, LostToGood, Disturbed, Reverify, Advance
<1> QED BY <1>1, <1>2, <1>3, <1>4

\* Only a disturbed run removes.
LEMMA RemoveKeeps ==
  ASSUME CacheInv, NEW p \in Procs, Remove(p)
  PROVE  CacheInv'
<1> USE CacheAssumption DEF CacheInv, Goto, SetTemp, files, counts
<1>1. TypeOK'
  <2>1. pc' \in [Procs -> Steps] /\ temp' \in [Procs -> {"none"} \cup Content]
    BY DEF TypeOK, Steps, Remove
  <2>2. /\ at' \in [Procs -> Index \cup {Marker}]
        /\ \A q \in Procs :
             pc'[q] \notin {"mark", "finish", "smoke", "using", "failed", "idle"}
               => at'[q] \in Index
    BY DEF TypeOK, Remove
  <2>3. /\ windows' \in BOOLEAN /\ marker' \in BOOLEAN /\ swept' \in BOOLEAN
        /\ dest' \in [Index -> {"none"} \cup Content]
    BY DEF TypeOK, Remove, Install
  <2>4. /\ orphans' \subseteq Index \cup {Marker}
        /\ runs' \in [Procs -> 0 .. MaxRuns]
        /\ crashes' \in 0 .. MaxCrashes /\ faults' \in 0 .. MaxFaults
    BY DEF TypeOK, Remove, Fault
  <2> QED BY <2>1, <2>2, <2>3, <2>4 DEF TypeOK
<1>2. TempsVerified'
  BY DEF TypeOK, TempsVerified, Installing, Disturbed, Remove, Fault
<1>3. DoneKept'
  BY DEF TypeOK, DoneKept, LostToGood, Done, Kept, Disturbed, Loop, Ready, Remove,
       Fault, Install
<1>4. LostToGood'
  BY DEF TypeOK, LostToGood, Disturbed, Remove, Fault
<1> QED BY <1>1, <1>2, <1>3, <1>4

\* Only a disturbed run retries.
LEMMA RetryKeeps ==
  ASSUME CacheInv, NEW p \in Procs, Retry(p)
  PROVE  CacheInv'
<1> USE CacheAssumption DEF CacheInv, Goto, SetTemp, files, counts
<1>1. TypeOK'
  <2>1. pc' \in [Procs -> Steps] /\ temp' \in [Procs -> {"none"} \cup Content]
    BY DEF TypeOK, Steps, Retry, RenameSucceeds, Advance
  <2>2. /\ at' \in [Procs -> Index \cup {Marker}]
        /\ \A q \in Procs :
             pc'[q] \notin {"mark", "finish", "smoke", "using", "failed", "idle"}
               => at'[q] \in Index
    <3>1. at[p] \in Index
      BY DEF TypeOK, Retry
    <3>2. CASE Advance(p)
      BY <3>1, <3>2, AdvanceTyped DEF TypeOK
    <3>3. CASE ~Advance(p)
      BY <3>1, <3>3 DEF TypeOK, Retry, RenameSucceeds
    <3> QED BY <3>2, <3>3
  <2>3. /\ windows' \in BOOLEAN /\ marker' \in BOOLEAN /\ swept' \in BOOLEAN
        /\ dest' \in [Index -> {"none"} \cup Content]
    BY DEF TypeOK, Retry, RenameSucceeds, Install
  <2>4. /\ orphans' \subseteq Index \cup {Marker}
        /\ runs' \in [Procs -> 0 .. MaxRuns]
        /\ crashes' \in 0 .. MaxCrashes /\ faults' \in 0 .. MaxFaults
    BY DEF TypeOK, Retry, RenameSucceeds, RenameFails, Fault
  <2> QED BY <2>1, <2>2, <2>3, <2>4 DEF TypeOK
<1>2. TempsVerified'
  BY DEF TypeOK, TempsVerified, Installing, Disturbed, Retry, RenameSucceeds,
       RenameFails, Fault, Advance
<1>3. DoneKept'
  BY DEF TypeOK, TempsVerified, DoneKept, Done, Kept, Disturbed, Loop, Ready,
       Installing, Index, Marker, Retry, RenameSucceeds, RenameFails, Fault, Install,
       Advance
<1>4. LostToGood'
  BY DEF TypeOK, LostToGood, Disturbed, Retry, RenameSucceeds, RenameFails, Fault
<1> QED BY <1>1, <1>2, <1>3, <1>4

\* The marker's temporary file.
LEMMA MarkKeeps ==
  ASSUME CacheInv, NEW p \in Procs, Mark(p)
  PROVE  CacheInv'
<1> USE CacheAssumption DEF CacheInv, Goto, SetTemp, files, counts
<1>1. TypeOK'
  <2>1. pc' \in [Procs -> Steps] /\ temp' \in [Procs -> {"none"} \cup Content]
    BY DEF TypeOK, Steps, Content, Mark
  <2>2. /\ at' \in [Procs -> Index \cup {Marker}]
        /\ \A q \in Procs :
             pc'[q] \notin {"mark", "finish", "smoke", "using", "failed", "idle"}
               => at'[q] \in Index
    BY DEF TypeOK, Mark
  <2>3. /\ windows' \in BOOLEAN /\ marker' \in BOOLEAN /\ swept' \in BOOLEAN
        /\ dest' \in [Index -> {"none"} \cup Content]
    BY DEF TypeOK, Mark
  <2>4. /\ orphans' \subseteq Index \cup {Marker}
        /\ runs' \in [Procs -> 0 .. MaxRuns]
        /\ crashes' \in 0 .. MaxCrashes /\ faults' \in 0 .. MaxFaults
    BY DEF TypeOK, Mark, Fault
  <2> QED BY <2>1, <2>2, <2>3, <2>4 DEF TypeOK
<1>2. TempsVerified'
  BY DEF TypeOK, TempsVerified, Installing, Disturbed, Mark, Fault
<1>3. DoneKept'
  BY DEF TypeOK, DoneKept, Done, Kept, Disturbed, Ready, Mark, Fault
<1>4. LostToGood'
  BY DEF TypeOK, LostToGood, Disturbed, Mark, Fault
<1> QED BY <1>1, <1>2, <1>3, <1>4

\* The marker; a failure needs a fault or a sweep.
LEMMA FinishMarkKeeps ==
  ASSUME CacheInv, NEW p \in Procs, FinishMark(p)
  PROVE  CacheInv'
<1> USE CacheAssumption DEF CacheInv, Goto, SetTemp, files, counts
<1>1. TypeOK'
  <2>1. pc' \in [Procs -> Steps] /\ temp' \in [Procs -> {"none"} \cup Content]
    BY DEF TypeOK, Steps, FinishMark
  <2>2. /\ at' \in [Procs -> Index \cup {Marker}]
        /\ \A q \in Procs :
             pc'[q] \notin {"mark", "finish", "smoke", "using", "failed", "idle"}
               => at'[q] \in Index
    BY DEF TypeOK, FinishMark
  <2>3. /\ windows' \in BOOLEAN /\ marker' \in BOOLEAN /\ swept' \in BOOLEAN
        /\ dest' \in [Index -> {"none"} \cup Content]
    BY DEF TypeOK, FinishMark
  <2>4. /\ orphans' \subseteq Index \cup {Marker}
        /\ runs' \in [Procs -> 0 .. MaxRuns]
        /\ crashes' \in 0 .. MaxCrashes /\ faults' \in 0 .. MaxFaults
    BY DEF TypeOK, FinishMark, Fault
  <2> QED BY <2>1, <2>2, <2>3, <2>4 DEF TypeOK
<1>2. TempsVerified'
  BY DEF TypeOK, TempsVerified, Installing, Disturbed, FinishMark, Fault
<1>3. DoneKept'
  BY DEF TypeOK, DoneKept, Done, Kept, Disturbed, Ready, FinishMark, Fault
<1>4. LostToGood'
  BY DEF TypeOK, TempsVerified, LostToGood, Disturbed, FinishMark, Fault
<1> QED BY <1>1, <1>2, <1>3, <1>4

\* A linker that does not start has lost a file.
LEMMA SmokeKeeps ==
  ASSUME CacheInv, NEW p \in Procs, Smoke(p)
  PROVE  CacheInv'
<1> USE CacheAssumption DEF CacheInv, Goto, SetTemp, files, counts
<1>1. TypeOK'
  <2>1. pc' \in [Procs -> Steps] /\ temp' \in [Procs -> {"none"} \cup Content]
    BY DEF TypeOK, Steps, Smoke
  <2>2. /\ at' \in [Procs -> Index \cup {Marker}]
        /\ \A q \in Procs :
             pc'[q] \notin {"mark", "finish", "smoke", "using", "failed", "idle"}
               => at'[q] \in Index
    BY DEF TypeOK, Smoke
  <2>3. /\ windows' \in BOOLEAN /\ marker' \in BOOLEAN /\ swept' \in BOOLEAN
        /\ dest' \in [Index -> {"none"} \cup Content]
    BY DEF TypeOK, Smoke
  <2>4. /\ orphans' \subseteq Index \cup {Marker}
        /\ runs' \in [Procs -> 0 .. MaxRuns]
        /\ crashes' \in 0 .. MaxCrashes /\ faults' \in 0 .. MaxFaults
    BY DEF TypeOK, Smoke
  <2> QED BY <2>1, <2>2, <2>3, <2>4 DEF TypeOK
<1>2. TempsVerified'
  BY DEF TempsVerified, Installing, Disturbed, Smoke
<1>3. DoneKept'
  BY DEF DoneKept, Done, Kept, Disturbed, Ready, Smoke
<1>4. LostToGood'
  BY DEF DoneKept, LostToGood, Done, Kept, Disturbed, Ready, Smoke, Intact
<1> QED BY <1>1, <1>2, <1>3, <1>4

\* The compiler is gone.
LEMMA ExitKeeps ==
  ASSUME CacheInv, NEW p \in Procs, Exit(p)
  PROVE  CacheInv'
<1> USE CacheAssumption DEF CacheInv, Goto, SetTemp, files, counts
<1>1. TypeOK'
  <2>1. pc' \in [Procs -> Steps] /\ temp' \in [Procs -> {"none"} \cup Content]
    BY DEF TypeOK, Steps, Exit
  <2>2. /\ at' \in [Procs -> Index \cup {Marker}]
        /\ \A q \in Procs :
             pc'[q] \notin {"mark", "finish", "smoke", "using", "failed", "idle"}
               => at'[q] \in Index
    BY DEF TypeOK, Exit
  <2>3. /\ windows' \in BOOLEAN /\ marker' \in BOOLEAN /\ swept' \in BOOLEAN
        /\ dest' \in [Index -> {"none"} \cup Content]
    BY DEF TypeOK, Exit
  <2>4. /\ orphans' \subseteq Index \cup {Marker}
        /\ runs' \in [Procs -> 0 .. MaxRuns]
        /\ crashes' \in 0 .. MaxCrashes /\ faults' \in 0 .. MaxFaults
    BY DEF TypeOK, Exit
  <2> QED BY <2>1, <2>2, <2>3, <2>4 DEF TypeOK
<1>2. TempsVerified'
  BY DEF TempsVerified, Installing, Disturbed, Exit
<1>3. DoneKept'
  BY DEF DoneKept, Done, Kept, Disturbed, Loop, Ready, Exit
<1>4. LostToGood'
  BY DEF LostToGood, Disturbed, Exit
<1> QED BY <1>1, <1>2, <1>3, <1>4

\* The compiler is gone; its temporary stays.
LEMMA CrashKeeps ==
  ASSUME CacheInv, NEW p \in Procs, Crash(p)
  PROVE  CacheInv'
<1> USE CacheAssumption DEF CacheInv, Goto, SetTemp, files, counts
<1>1. TypeOK'
  <2>1. pc' \in [Procs -> Steps] /\ temp' \in [Procs -> {"none"} \cup Content]
    BY DEF TypeOK, Steps, Crash
  <2>2. /\ at' \in [Procs -> Index \cup {Marker}]
        /\ \A q \in Procs :
             pc'[q] \notin {"mark", "finish", "smoke", "using", "failed", "idle"}
               => at'[q] \in Index
    BY DEF TypeOK, Crash
  <2>3. /\ windows' \in BOOLEAN /\ marker' \in BOOLEAN /\ swept' \in BOOLEAN
        /\ dest' \in [Index -> {"none"} \cup Content]
    BY DEF TypeOK, Crash
  <2>4. /\ orphans' \subseteq Index \cup {Marker}
        /\ runs' \in [Procs -> 0 .. MaxRuns]
        /\ crashes' \in 0 .. MaxCrashes /\ faults' \in 0 .. MaxFaults
    BY DEF TypeOK, Crash
  <2> QED BY <2>1, <2>2, <2>3, <2>4 DEF TypeOK
<1>2. TempsVerified'
  BY DEF TypeOK, TempsVerified, Installing, Disturbed, Crash
<1>3. DoneKept'
  BY DEF DoneKept, Done, Kept, Disturbed, Loop, Ready, Crash
<1>4. LostToGood'
  BY DEF LostToGood, Disturbed, Crash
<1> QED BY <1>1, <1>2, <1>3, <1>4

LEMMA CacheStep == CacheInv /\ [Next]_vars => CacheInv'
<1> SUFFICES ASSUME CacheInv, [Next]_vars PROVE CacheInv'
  OBVIOUS
<1>1. ASSUME NEW p \in Procs, Start(p) \/ Step(p) \/ Crash(p)
      PROVE  CacheInv'
  BY <1>1, StartKeeps, SweepKeeps, CheckExistsKeeps, CheckHashKeeps, WriteKeeps,
       VerifyKeeps, RenameKeeps, ReverifyKeeps, RemoveKeeps, RetryKeeps, MarkKeeps,
       FinishMarkKeeps, SmokeKeeps, ExitKeeps, CrashKeeps DEF Step
<1>2. CASE UNCHANGED vars
  BY <1>2 DEF vars, CacheInv, TypeOK, TempsVerified, DoneKept, LostToGood, Done, Kept,
       Disturbed
<1> QED BY <1>1, <1>2 DEF Next

\* CacheInv is an invariant, for every number of compilers and assets.
THEOREM CacheInvariant == Spec => []CacheInv
<1> QED BY CacheInit, CacheStep, PTL DEF Spec

\* A file that holds its asset is never replaced by one that does not: only
\* Rename and Retry install a file, and what they install was verified.
THEOREM NeverSpoiled == Spec => GoodNotSpoiled
<1>1. CacheInv /\ [Next]_vars =>
        [\A i \in Index : dest[i] = "good" => dest'[i] # "bad"]_vars
  <2> SUFFICES ASSUME CacheInv, NEW p \in Procs, Start(p) \/ Step(p) \/ Crash(p),
                      NEW i \in Index, dest[i] = "good"
               PROVE  dest'[i] # "bad"
    BY DEF Next
  <2>1. CASE Rename(p) \/ Retry(p)
    <3>1. temp[p] # "bad"
      BY <2>1 DEF CacheInv, TempsVerified, Installing, Rename, Retry
    <3> QED BY <2>1, <3>1 DEF CacheInv, TypeOK, Rename, Retry, RenameSucceeds, Install
  <2>2. CASE Remove(p)
    BY <2>2 DEF CacheInv, TypeOK, Remove, Install
  <2>3. CASE ~(Rename(p) \/ Retry(p) \/ Remove(p))
    <3>1. UNCHANGED dest
      BY <2>3 DEF Step, Start, Sweep, CheckExists, CheckHash, Write, Verify, Reverify,
           Mark, FinishMark, Smoke, Exit, Crash, files
    <3> QED BY <3>1
  <2> QED BY <2>1, <2>2, <2>3
<1> QED BY <1>1, CacheInvariant, PTL DEF Spec, GoodNotSpoiled

\* A set that was returned stays intact while it is used, unless a system call
\* failed or a temporary was swept; even then no file of it is a bad one.
THEOREM SetsStayIntact == Spec => []ReturnedIntact
<1>1. CacheInv => ReturnedIntact
  BY DEF CacheInv, DoneKept, Done, Kept, Ready, ReturnedIntact
<1> QED BY <1>1, CacheInvariant, PTL

\* Losing a race is never reported as an error.
THEOREM RacesAreSilent == Spec => []NoSpuriousError
<1>1. CacheInv => NoSpuriousError
  BY DEF CacheInv, LostToGood, NoSpuriousError
<1> QED BY <1>1, CacheInvariant, PTL
=============================================================================
