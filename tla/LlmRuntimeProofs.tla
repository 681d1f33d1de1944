--------------------------- MODULE LlmRuntimeProofs ---------------------------
(***************************************************************************)
(* Proofs about the files of LLM assistance and the servers started from   *)
(* them, for any number of invocations, archives, removals and ports; and, *)
(* at the end, about LlmPreparation, for any number of calls.              *)
(* What keeps files whole is that one invocation at a time is at work in a *)
(* store: whoever has the lock has it in the present directory (DirInv)    *)
(* unless that was deleted under somebody, and then nothing is promised.   *)
(***************************************************************************)
EXTENDS LlmRuntime, LlmPreparation, TLAPS

\* Where an invocation has the lock.
Critical == {"locked", "archive", "create", "stream", "rename", "extract",
             "copy", "copying", "manifest"}

AssetPlaces == {"look", "open", "lock"} \cup Critical \cup Over

Trusted(p) == In(p) \notin orphaned

DirOK(p) ==
    /\ pc[p].at \in Critical => holder[In(p)][fd[p]] = p
    /\ Locking(p) /\ Trusted(p) => exists[In(p)] /\ fd[p] = made[In(p)]

DirInv == \A p \in Procs : DirOK(p)

\* How often a store was deleted; the model's directory goes first.
Deleted(s) == IF s = "model" THEN (removals + 1) \div 2 ELSE removals \div 2

MadeInv ==
    /\ removals <= 2 * MaxRemovals
    /\ \A s \in Stores : made[s] <= Deleted(s) + (IF exists[s] THEN 1 ELSE 0)

RoundOK(p) ==
    /\ pc[p].at \in {"archive", "extract", "copy", "copying"} => In(p) = "runtime"
    /\ pc[p].at \in {"create", "stream", "rename", "extract", "copy", "copying"}
           /\ In(p) = "runtime" => round[p] <= Len(Archives)

RoundInv == \A p \in Procs : RoundOK(p)

\* What an invocation at work finds as it has left it.
WorkOK(p) ==
    Trusted(p) =>
        /\ At(p, "stream") => part[Target(p)].by = p
        /\ At(p, "rename") => part[Target(p)].whole
        /\ pc[p].at \in {"create", "stream", "rename"} =>
               ~Present(In(p)) /\ file[Target(p)] = Absent
        /\ pc[p].at \in {"archive", "extract", "copy"} => binary = Absent
        /\ At(p, "copying") => binary.by = p

WorkInv == \A p \in Procs : WorkOK(p)

IInv ==
    /\ AssetsTypeOK /\ MadeInv
    /\ DirInv /\ RoundInv
    /\ LocksAreGivenUp
    /\ WorkInv
    /\ FilesAreWhole

-----------------------------------------------------------------------------
LEMMA ArchiveNames ==
    /\ Len(Archives) \in Nat
    /\ \A i \in 1..Len(Archives) : Archives[i] \in Names /\ Archives[i] # "model"
  BY AssetsAssumption DEF Names

\* The file that is being fetched lies in the store where its invocation is.
LEMMA TargetStore ==
    ASSUME AssetsTypeOK, RoundInv, NEW p \in Procs,
           pc[p].at \in {"create", "stream", "rename", "extract"}
    PROVE  Target(p) \in Targets /\ StoreOf(Target(p)) = In(p)
<1>1. CASE In(p) = "model"
  BY <1>1 DEF Target, Targets, StoreOf
<1>2. CASE In(p) = "runtime"
  BY <1>2, ArchiveNames DEF AssetsTypeOK, RoundInv, RoundOK, Target, Targets, StoreOf, In
<1>. QED
  BY <1>1, <1>2 DEF AssetsTypeOK, In, Stores

\* One invocation at a time is at work in a store.
LEMMA Exclusion ==
    ASSUME DirInv, NEW p \in Procs, NEW q \in Procs,
           pc[p].at \in Critical, pc[q].at \in Critical, In(p) = In(q), Trusted(p)
    PROVE  p = q
  BY DEF DirInv, DirOK, Locking, Critical, Over, Trusted

\* Initially nobody has anything.
LEMMA InitInv == AssetsInit => IInv
<1> SUFFICES ASSUME AssetsInit PROVE IInv
  OBVIOUS
<1> USE DEF AssetsInit
<1>1. AssetsTypeOK
  <2>1. 1 \in 1..(Len(Archives) + 1) /\ 0 \in Generations
    BY AssetsAssumption, ArchiveNames DEF Generations
  <2>2. Absent \in Files
    BY DEF Absent, Files
  <2>. QED
    BY <2>1, <2>2 DEF AssetsTypeOK, Stores
<1>2a. MadeInv
  BY AssetsAssumption DEF MadeInv, Deleted, Stores
<1>2. DirInv /\ RoundInv /\ WorkInv
  BY DEF DirInv, DirOK, RoundInv, RoundOK, WorkInv, WorkOK, Locking, Critical, At, In
<1>3. LocksAreGivenUp /\ FilesAreWhole
  BY AssetsAssumption
     DEF LocksAreGivenUp, FilesAreWhole, DownloadsAreWhole, BinaryIsWholeOrTorn, Absent
<1>. QED
  BY <1>1, <1>2a, <1>2, <1>3 DEF IInv
-----------------------------------------------------------------------------
(* Types, and the number of directories. *)

LEMMA Bounds == MadeInv /\ removals \in Nat /\ made \in [Stores -> Nat]
                    => \A s \in Stores : made[s] \in Generations
  BY AssetsAssumption DEF MadeInv, Deleted, Stores, Generations

LEMMA DirectoryStep ==
    ASSUME AssetsTypeOK, MadeInv, NEW s \in Stores, DirectoryMade(s), removals' = removals
    PROVE  /\ MadeInv'
           /\ made' \in [Stores -> Generations]
           /\ exists' \in [Stores -> BOOLEAN]
<1>1. made \in [Stores -> Nat] /\ removals \in Nat
  BY AssetsAssumption DEF AssetsTypeOK, Generations
<1>2. made' \in [Stores -> Nat] /\ exists' \in [Stores -> BOOLEAN]
  BY <1>1 DEF AssetsTypeOK, DirectoryMade
<1>3. MadeInv'
  BY <1>1, <1>2 DEF MadeInv, Deleted, DirectoryMade, AssetsTypeOK, Stores
<1>4. \A t \in Stores : made'[t] \in Generations
  BY <1>1, <1>2, <1>3, AssetsAssumption DEF MadeInv, Deleted, Stores, Generations
<1>. QED
  BY <1>2, <1>3, <1>4

LEMMA ActionDirectories ==
    ASSUME AssetsTypeOK, NEW p \in Procs, Prepare(p) \/ Stream(p) \/ Crash(p)
    PROVE  \/ UNCHANGED <<removals, made, exists>>
           \/ \E s \in Stores : DirectoryMade(s) /\ removals' = removals
<1>1. "runtime" \in Stores /\ In(p) \in Stores
  BY DEF AssetsTypeOK, Stores, In
<1>2. CASE OpenLock(p) \/ CreatePart(p) \/ Extract(p) \/ CopyBegins(p)
  BY <1>1, <1>2 DEF OpenLock, CreatePart, Extract, CopyBegins, directories, DownloadFailed
<1>3. CASE Found(p) \/ Missing(p) \/ Lock(p) \/ Recheck(p) \/ TryArchive(p)
           \/ Rename(p) \/ CopyEnds(p) \/ CopyFails(p) \/ Manifest(p)
  BY <1>3 DEF Found, Missing, Lock, Recheck, TryArchive, Rename, CopyEnds, CopyFails,
              Manifest, directories
<1>4. CASE Stream(p) \/ Crash(p)
  BY <1>4 DEF Stream, StreamEnds, StreamShort, StreamBreaks, Crash, directories
<1>. QED
  BY <1>2, <1>3, <1>4 DEF Prepare

LEMMA MadeStep == AssetsTypeOK /\ MadeInv /\ [AssetsNext]_assetVars => MadeInv'
<1> SUFFICES ASSUME AssetsTypeOK, MadeInv, [AssetsNext]_assetVars PROVE MadeInv'
  OBVIOUS
<1>1. CASE UNCHANGED <<removals, made, exists>>
  BY <1>1 DEF MadeInv, Deleted
<1>2. CASE RemoveStore
  BY <1>2, AssetsAssumption DEF RemoveStore, MadeInv, Deleted, AssetsTypeOK, Stores, Generations
<1>3. CASE \E s \in Stores : DirectoryMade(s) /\ removals' = removals
  BY <1>3, DirectoryStep
<1>. QED
  BY <1>1, <1>2, <1>3, ActionDirectories DEF AssetsNext, assetVars, directories

\* What an invocation does to the lock files keeps their types.
LEMMA CloseStep ==
    ASSUME AssetsTypeOK, NEW p \in Procs, Close(p) \/ Open
    PROVE  /\ fd' \in [Procs -> Generations]
           /\ holder' \in [Stores -> [Generations -> Procs \cup {None}]]
<1>1. CASE Close(p)
  BY <1>1, AssetsAssumption DEF AssetsTypeOK, Close, Generations
<1>2. CASE Open
  BY <1>2 DEF AssetsTypeOK, Open
<1>. QED
  BY <1>1, <1>2

\* Where an invocation goes, the others stay.
LEMMA GotoStep ==
    ASSUME AssetsTypeOK, NEW p \in Procs, NEW there, Goto(p, there)
    PROVE  \A q \in Procs : pc'[q] = IF q = p THEN [at |-> there, store |-> In(p)] ELSE pc[q]
  BY DEF AssetsTypeOK, Goto, In

LEMMA AdvancedStep ==
    ASSUME AssetsTypeOK, NEW p \in Procs, pc' = Advanced(p)
    PROVE  /\ \A q \in Procs \ {p} : pc'[q] = pc[q]
           /\ In(p) = "runtime" => pc'[p] = [at |-> "look", store |-> "model"]
           /\ In(p) = "model" => pc'[p] = [at |-> "ready", store |-> "model"]
<1>. pc \in [Procs -> [at : AssetPlaces, store : Stores]]
  BY DEF AssetsTypeOK, AssetPlaces, Critical, Over
<1>1. pc' = [pc EXCEPT ![p] = IF In(p) = "runtime" THEN [at |-> "look", store |-> "model"]
                              ELSE [pc[p] EXCEPT !.at = "ready"]]
  BY DEF Advanced, In
<1>2. In(p) = "model" => [pc[p] EXCEPT !.at = "ready"] = [at |-> "ready", store |-> "model"]
  BY DEF In
<1>. QED
  BY <1>1, <1>2

LEMMA PcStep ==
    ASSUME AssetsTypeOK, NEW p \in Procs,
           (\E there \in AssetPlaces : Goto(p, there)) \/ pc' = Advanced(p)
    PROVE  pc' \in [Procs -> [at : AssetPlaces, store : Stores]]
<1>. pc \in [Procs -> [at : AssetPlaces, store : Stores]]
  BY DEF AssetsTypeOK, AssetPlaces, Critical, Over
<1>1. CASE \E there \in AssetPlaces : Goto(p, there)
  BY <1>1 DEF Goto
<1>2. CASE pc' = Advanced(p)
  <2>. {"look", "ready"} \subseteq AssetPlaces /\ "model" \in Stores
    BY DEF AssetPlaces, Over, Stores
  <2>. QED
    BY <1>2 DEF Advanced
<1>. QED
  BY <1>1, <1>2

\* What is written to a file keeps the files' type.
LEMMA ContentsStep ==
    ASSUME AssetsTypeOK, MadeInv, RoundInv, NEW p \in Procs, Prepare(p) \/ Stream(p) \/ Crash(p)
    PROVE  part' \in [Targets -> Files] /\ file' \in [Targets -> Files] /\ binary' \in Files
<1>. Absent \in Files /\ Begun(p) \in Files /\ \A f \in Files : Completed(f, p) \in Files
  BY DEF Absent, Begun, Completed, Files
<1>. part \in [Targets -> Files] /\ file \in [Targets -> Files] /\ binary \in Files
  BY DEF AssetsTypeOK
<1>. USE DEF DownloadFailed, contents
<1>1. CASE CreatePart(p) \/ Rename(p) \/ Extract(p)
  BY <1>1 DEF CreatePart, Rename, Extract
<1>2. CASE CopyBegins(p) \/ CopyEnds(p) \/ CopyFails(p) \/ Manifest(p)
  BY <1>2 DEF CopyBegins, CopyEnds, CopyFails, Manifest
<1>3. CASE Stream(p) \/ Crash(p)
  BY <1>3 DEF Stream, StreamEnds, StreamShort, StreamBreaks, Crash
<1>4. CASE Found(p) \/ Missing(p) \/ OpenLock(p) \/ Lock(p) \/ Recheck(p) \/ TryArchive(p)
  BY <1>4 DEF Found, Missing, OpenLock, Lock, Recheck, TryArchive
<1>. QED
  BY <1>1, <1>2, <1>3, <1>4 DEF Prepare

\* Only `llm remove` takes a directory away, and nothing else changes the rest.
LEMMA FixedStep ==
    ASSUME AssetsTypeOK, NEW p \in Procs, Prepare(p) \/ Stream(p) \/ Crash(p)
    PROVE  /\ unpacked' \in BOOLEAN /\ torn' \in BOOLEAN
           /\ UNCHANGED <<usable, onPath, removals, orphaned>>
<1>. unpacked \in BOOLEAN /\ torn \in BOOLEAN /\ Unpacks(p) \in BOOLEAN
  BY DEF AssetsTypeOK, Unpacks, Files
<1>. USE DEF contents, fixed, history
<1>1. CASE CreatePart(p) \/ Rename(p) \/ Extract(p)
  BY <1>1 DEF CreatePart, Rename, Extract
<1>2. CASE CopyBegins(p) \/ CopyEnds(p) \/ CopyFails(p) \/ Manifest(p)
  BY <1>2 DEF CopyBegins, CopyEnds, CopyFails, Manifest
<1>3. CASE Stream(p) \/ Crash(p)
  BY <1>3 DEF Stream, StreamEnds, StreamShort, StreamBreaks, Crash
<1>4. CASE Found(p) \/ Missing(p) \/ OpenLock(p) \/ Lock(p) \/ Recheck(p) \/ TryArchive(p)
  BY <1>4 DEF Found, Missing, OpenLock, Lock, Recheck, TryArchive
<1>. QED
  BY <1>1, <1>2, <1>3, <1>4 DEF Prepare

LEMMA TypeStep == AssetsTypeOK /\ MadeInv /\ RoundInv /\ [AssetsNext]_assetVars => AssetsTypeOK'
<1> SUFFICES ASSUME AssetsTypeOK, MadeInv, RoundInv, [AssetsNext]_assetVars
             PROVE  AssetsTypeOK'
  OBVIOUS
<1>1. ASSUME NEW p \in Procs, Prepare(p) \/ Stream(p) \/ Crash(p)
      PROVE  pc' \in [Procs -> [at : AssetPlaces, store : Stores]]
  <2>. SUFFICES (\E there \in AssetPlaces : Goto(p, there)) \/ pc' = Advanced(p)
    BY PcStep
  <2>. USE DEF AssetPlaces, Critical, Over, Fail, DownloadFailed
  <2>1. CASE Found(p) \/ Missing(p) \/ OpenLock(p) \/ Lock(p) \/ Recheck(p) \/ TryArchive(p)
    BY <2>1 DEF Found, Missing, OpenLock, Lock, Recheck, TryArchive
  <2>2. CASE CreatePart(p) \/ Rename(p) \/ Extract(p)
    BY <2>2 DEF CreatePart, Rename, Extract
  <2>3. CASE CopyBegins(p) \/ CopyEnds(p) \/ CopyFails(p) \/ Manifest(p)
    BY <2>3 DEF CopyBegins, CopyEnds, CopyFails, Manifest
  <2>4. CASE Stream(p) \/ Crash(p)
    BY <2>4 DEF Stream, StreamEnds, StreamShort, StreamBreaks, Crash
  <2>. QED
    BY <1>1, <2>1, <2>2, <2>3, <2>4 DEF Prepare
<1>2. ASSUME NEW p \in Procs, Prepare(p) \/ Stream(p) \/ Crash(p)
      PROVE  /\ fd' \in [Procs -> Generations]
             /\ holder' \in [Stores -> [Generations -> Procs \cup {None}]]
  <2>. USE DEF Fail, DownloadFailed
  <2>1. CASE Close(p) \/ Open
    BY <2>1, CloseStep
  <2>2. CASE OpenLock(p)
    <3>1. In(p) \in Stores
      BY DEF AssetsTypeOK, Stores, In
    <3>. QED
      BY <2>2, <3>1, DirectoryStep DEF OpenLock, AssetsTypeOK
  <2>3. CASE Lock(p)
    BY <2>3 DEF Lock, AssetsTypeOK
  <2>4. CASE Found(p) \/ Missing(p) \/ Recheck(p) \/ TryArchive(p) \/ CreatePart(p)
    BY <2>4, <2>1 DEF Found, Missing, Recheck, TryArchive, CreatePart, Open
  <2>5. CASE Rename(p) \/ Extract(p) \/ CopyBegins(p) \/ CopyEnds(p) \/ CopyFails(p) \/ Manifest(p)
    BY <2>5, <2>1 DEF Rename, Extract, CopyBegins, CopyEnds, CopyFails, Manifest, Open
  <2>6. CASE Stream(p) \/ Crash(p)
    BY <2>6, <2>1 DEF Stream, StreamEnds, StreamShort, StreamBreaks, Crash, Open
  <2>. QED
    BY <1>2, <2>2, <2>3, <2>4, <2>5, <2>6 DEF Prepare
<1>3. ASSUME NEW p \in Procs, Prepare(p) \/ Stream(p) \/ Crash(p)
      PROVE  made' \in [Stores -> Generations] /\ exists' \in [Stores -> BOOLEAN]
  <2>1. CASE UNCHANGED <<made, exists>>
    BY <2>1 DEF AssetsTypeOK
  <2>2. CASE \E s \in Stores : DirectoryMade(s) /\ removals' = removals
    BY <2>2, DirectoryStep
  <2>. QED
    BY <1>3, <2>1, <2>2, ActionDirectories
<1>4. ASSUME NEW p \in Procs, Prepare(p) \/ Stream(p) \/ Crash(p)
      PROVE  round' \in [Procs -> 1..(Len(Archives) + 1)]
  <2>. round \in [Procs -> 1..(Len(Archives) + 1)] /\ Len(Archives) \in Nat
    BY ArchiveNames DEF AssetsTypeOK
  <2>1. CASE round' = [round EXCEPT ![p] = @ + 1] /\ round[p] <= Len(Archives)
    BY <2>1
  <2>2. CASE round' = round
    BY <2>2
  <2>3. CASE CreatePart(p) \/ Rename(p) \/ Extract(p) \/ StreamShort(p) \/ StreamBreaks(p)
    BY <2>3, <2>1, <2>2
       DEF CreatePart, Rename, Extract, StreamShort, StreamBreaks, DownloadFailed,
           RoundInv, RoundOK,
           AssetsTypeOK, At, In, Stores
  <2>4. CASE Found(p) \/ Missing(p) \/ OpenLock(p) \/ Lock(p) \/ Recheck(p) \/ TryArchive(p)
             \/ StreamEnds(p) \/ Crash(p)
    BY <2>4, <2>2 DEF Found, Missing, OpenLock, Lock, Recheck, TryArchive, StreamEnds, Crash
  <2>5. CASE CopyBegins(p) \/ CopyEnds(p) \/ CopyFails(p) \/ Manifest(p)
    BY <2>5, <2>2 DEF CopyBegins, CopyEnds, CopyFails, Manifest
  <2>. QED
    BY <1>4, <2>3, <2>4, <2>5 DEF Prepare, Stream
<1>6. CASE \E p \in Procs : Prepare(p) \/ Stream(p) \/ Crash(p)
  <2>1. pc' \in [Procs -> [at : AssetPlaces, store : Stores]]
    BY <1>6, <1>1
  <2>2. part' \in [Targets -> Files] /\ file' \in [Targets -> Files] /\ binary' \in Files
    BY <1>6, ContentsStep
  <2>. QED
    BY <1>6, <1>2, <1>3, <1>4, FixedStep, <2>1, <2>2
       DEF AssetsTypeOK, AssetPlaces, Critical, Over
<1>7. CASE RemoveStore
  <2>. Absent \in Files
    BY DEF Absent, Files
  <2>1. part' \in [Targets -> Files] /\ file' \in [Targets -> Files] /\ binary' \in Files
    BY <1>7 DEF RemoveStore, AssetsTypeOK
  <2>2. exists' \in [Stores -> BOOLEAN] /\ removals' \in Nat
    BY <1>7 DEF RemoveStore, AssetsTypeOK, Stores
  <2>3. unpacked' \in BOOLEAN /\ orphaned' \subseteq Stores
    BY <1>7 DEF RemoveStore, AssetsTypeOK, Stores
  <2>. QED
    BY <1>7, <2>1, <2>2, <2>3 DEF RemoveStore, AssetsTypeOK, fixed
<1>8. CASE UNCHANGED assetVars
  BY <1>8 DEF assetVars, AssetsTypeOK
<1>. QED
  BY <1>6, <1>7, <1>8 DEF AssetsNext

-----------------------------------------------------------------------------
(* Who is at work in a store, with which archive and in which directory. *)

\* An invocation moves nobody else, and takes no lock from anybody.
LEMMA OthersStay ==
    ASSUME AssetsTypeOK, NEW p \in Procs, Prepare(p) \/ Stream(p) \/ Crash(p),
           NEW q \in Procs \ {p}
    PROVE  /\ pc'[q] = pc[q] /\ round'[q] = round[q] /\ fd'[q] = fd[q]
           /\ \A s \in Stores, g \in Generations : holder'[s][g] = q <=> holder[s][g] = q
<1>1. ASSUME Close(p)
      PROVE  /\ fd'[q] = fd[q]
             /\ \A s \in Stores, g \in Generations : holder'[s][g] = q <=> holder[s][g] = q
  BY <1>1, AssetsAssumption DEF Close, AssetsTypeOK
<1>2. ASSUME NEW there, Goto(p, there) PROVE pc'[q] = pc[q]
  BY <1>2, GotoStep
<1>3. ASSUME pc' = Advanced(p) PROVE pc'[q] = pc[q]
  BY <1>3, AdvancedStep
<1>. USE <1>1, <1>2, <1>3 DEF Fail, DownloadFailed, Open
<1>4. CASE Found(p) \/ Missing(p) \/ OpenLock(p) \/ Recheck(p) \/ TryArchive(p)
  BY <1>4 DEF Found, Missing, OpenLock, Recheck, TryArchive, AssetsTypeOK
<1>5. CASE Lock(p)
  BY <1>5, AssetsAssumption DEF Lock, AssetsTypeOK
<1>6. CASE CreatePart(p) \/ Rename(p) \/ Extract(p)
  BY <1>6 DEF CreatePart, Rename, Extract, AssetsTypeOK
<1>7. CASE CopyBegins(p) \/ CopyEnds(p) \/ CopyFails(p) \/ Manifest(p)
  BY <1>7 DEF CopyBegins, CopyEnds, CopyFails, Manifest
<1>8. CASE Stream(p) \/ Crash(p)
  BY <1>8 DEF Stream, StreamEnds, StreamShort, StreamBreaks, Crash, AssetsTypeOK
<1>. QED
  BY <1>4, <1>5, <1>6, <1>7, <1>8 DEF Prepare

LEMMA RoundStep ==
    AssetsTypeOK /\ RoundInv /\ [AssetsNext]_assetVars => RoundInv'
<1> SUFFICES ASSUME AssetsTypeOK, RoundInv, [AssetsNext]_assetVars PROVE RoundInv'
  OBVIOUS
<1>1. CASE UNCHANGED <<pc, round>>
  BY <1>1 DEF RoundInv, RoundOK, In
<1>2. ASSUME NEW p \in Procs, Prepare(p) \/ Stream(p) \/ Crash(p) PROVE RoundInv'
  <2>1. \A q \in Procs \ {p} : RoundOK(q)'
    BY <1>2, OthersStay DEF RoundInv, RoundOK, In
  <2>2. RoundOK(p)'
    <3>. pc \in [Procs -> [at : AssetPlaces, store : Stores]] /\ RoundOK(p)
      BY DEF AssetsTypeOK, AssetPlaces, Critical, Over, RoundInv
    <3>. round \in [Procs -> 1..(Len(Archives) + 1)] /\ Len(Archives) \in Nat
      BY ArchiveNames DEF AssetsTypeOK
    <3>. USE DEF Goto, Advanced, Fail, DownloadFailed, RoundOK, In, At, Stores
    <3>3. CASE Found(p)
      BY <3>3 DEF Found
    <3>4. CASE Missing(p)
      BY <3>4 DEF Missing
    <3>5. CASE OpenLock(p)
      BY <3>5 DEF OpenLock
    <3>6. CASE Lock(p)
      BY <3>6 DEF Lock
    <3>7. CASE Recheck(p)
      BY <3>7 DEF Recheck
    <3>8. CASE TryArchive(p)
      BY <3>8 DEF TryArchive
    <3>9. CASE CreatePart(p)
      BY <3>9 DEF CreatePart
    <3>10. CASE Rename(p)
      BY <3>10 DEF Rename
    <3>11. CASE Extract(p)
      BY <3>11 DEF Extract
    <3>12. CASE CopyBegins(p)
      BY <3>12 DEF CopyBegins
    <3>13. CASE CopyEnds(p)
      BY <3>13 DEF CopyEnds
    <3>14. CASE CopyFails(p)
      BY <3>14 DEF CopyFails
    <3>15. CASE Manifest(p)
      BY <3>15 DEF Manifest
    <3>16. CASE StreamEnds(p)
      BY <3>16 DEF StreamEnds
    <3>17. CASE StreamShort(p)
      BY <3>17 DEF StreamShort
    <3>18. CASE StreamBreaks(p)
      BY <3>18 DEF StreamBreaks
    <3>19. CASE Crash(p)
      BY <3>19 DEF Crash
    <3>. QED
      BY <1>2, <3>3, <3>4, <3>5, <3>6, <3>7, <3>8, <3>9, <3>10, <3>11, <3>12, <3>13,
         <3>14, <3>15, <3>16, <3>17, <3>18, <3>19 DEF Prepare, Stream
  <2>. QED
    BY <2>1, <2>2 DEF RoundInv
<1>. QED
  BY <1>1, <1>2 DEF AssetsNext, RemoveStore, assetVars

\* The lock of the present directory is with whoever is at work in the store.
LEMMA DirStep ==
    AssetsTypeOK /\ MadeInv /\ DirInv /\ [AssetsNext]_assetVars => DirInv'
<1> SUFFICES ASSUME AssetsTypeOK, MadeInv, DirInv, [AssetsNext]_assetVars PROVE DirInv'
  OBVIOUS
<1>. USE DEF DirOK, Locking, Trusted, In
<1>1. CASE UNCHANGED assetVars
  BY <1>1 DEF DirInv, assetVars
<1>2. CASE RemoveStore
  <2>. SUFFICES ASSUME NEW q \in Procs PROVE DirOK(q)'
    BY DEF DirInv
  <2>. DirOK(q)
    BY DEF DirInv
  <2>. QED
    BY <1>2 DEF RemoveStore, AssetsTypeOK
<1>3. ASSUME NEW p \in Procs, Prepare(p) \/ Stream(p) \/ Crash(p) PROVE DirInv'
  <2>. orphaned' = orphaned
    BY <1>3, FixedStep
  <2>1. \A q \in Procs \ {p} : DirOK(q)'
    <3>. SUFFICES ASSUME NEW q \in Procs \ {p} PROVE DirOK(q)'
      OBVIOUS
    <3>1. /\ pc'[q] = pc[q] /\ fd'[q] = fd[q]
          /\ holder'[In(q)][fd[q]] = q <=> holder[In(q)][fd[q]] = q
      BY <1>3, OthersStay DEF AssetsTypeOK
    <3>2. exists[In(q)] => exists'[In(q)] /\ made'[In(q)] = made[In(q)]
      BY <1>3, ActionDirectories DEF AssetsTypeOK, DirectoryMade
    <3>. QED
      BY <3>1, <3>2 DEF DirInv
  <2>2. DirOK(p)'
    <3>. pc \in [Procs -> [at : AssetPlaces, store : Stores]] /\ DirOK(p)
      BY DEF AssetsTypeOK, AssetPlaces, Critical, Over, DirInv
    <3>. fd \in [Procs -> Generations] /\ exists \in [Stores -> BOOLEAN]
      BY DEF AssetsTypeOK
    <3>. /\ made \in [Stores -> Generations]
         /\ holder \in [Stores -> [Generations -> Procs \cup {None}]]
      BY DEF AssetsTypeOK
    <3>. USE DEF Goto, Advanced, Fail, DownloadFailed, Open, At, Stores, Critical, Over,
            directories, history
    <3>3. CASE Found(p)
      BY <3>3 DEF Found
    <3>4. CASE Missing(p)
      BY <3>4 DEF Missing
    <3>5. CASE OpenLock(p)
      BY <3>5 DEF OpenLock, DirectoryMade
    <3>6. CASE Lock(p)
      BY <3>6 DEF Lock
    <3>7. CASE Recheck(p)
      BY <3>7 DEF Recheck
    <3>8. CASE TryArchive(p)
      BY <3>8 DEF TryArchive
    <3>9. CASE CreatePart(p)
      BY <3>9 DEF CreatePart, DirectoryMade
    <3>10. CASE Rename(p)
      BY <3>10 DEF Rename
    <3>11. CASE Extract(p)
      BY <3>11 DEF Extract, DirectoryMade
    <3>12. CASE CopyBegins(p)
      BY <3>12 DEF CopyBegins, DirectoryMade
    <3>13. CASE CopyEnds(p)
      BY <3>13 DEF CopyEnds
    <3>14. CASE CopyFails(p)
      BY <3>14 DEF CopyFails
    <3>15. CASE Manifest(p)
      BY <3>15 DEF Manifest
    <3>16. CASE StreamEnds(p)
      BY <3>16 DEF StreamEnds
    <3>17. CASE StreamShort(p)
      BY <3>17 DEF StreamShort
    <3>18. CASE StreamBreaks(p)
      BY <3>18 DEF StreamBreaks
    <3>19. CASE Crash(p)
      BY <3>19 DEF Crash
    <3>. QED
      BY <1>3, <3>3, <3>4, <3>5, <3>6, <3>7, <3>8, <3>9, <3>10, <3>11, <3>12, <3>13,
         <3>14, <3>15, <3>16, <3>17, <3>18, <3>19 DEF Prepare, Stream
  <2>. QED
    BY <2>1, <2>2 DEF DirInv
<1>. QED
  BY <1>1, <1>2, <1>3 DEF AssetsNext

LEMMA LocksStep ==
    AssetsTypeOK /\ AssetsTypeOK' /\ LocksAreGivenUp /\ [AssetsNext]_assetVars
        => LocksAreGivenUp'
<1> SUFFICES ASSUME AssetsTypeOK, AssetsTypeOK', LocksAreGivenUp, [AssetsNext]_assetVars
             PROVE  LocksAreGivenUp'
  OBVIOUS
<1>. DEFINE Owns(q, s, g) == In(q) = s /\ fd[q] = g /\ Locking(q) /\ ~At(q, "lock")
<1>. USE DEF Locking, In, At
<1>1. CASE UNCHANGED <<pc, fd, holder>>
  BY <1>1 DEF LocksAreGivenUp
<1>2. ASSUME NEW p \in Procs, Prepare(p) \/ Stream(p) \/ Crash(p) PROVE LocksAreGivenUp'
  <2>1. \A q \in Procs, s \in Stores, g \in Generations : holder[s][g] = q => Owns(q, s, g)
    BY AssetsAssumption DEF LocksAreGivenUp
  <2>2. SUFFICES \A q \in Procs, s \in Stores, g \in Generations :
                     holder'[s][g] = q => Owns(q, s, g)'
    <3>1. holder' \in [Stores -> [Generations -> Procs \cup {None}]]
      BY DEF AssetsTypeOK
    <3>. QED
      BY <2>2, <3>1 DEF LocksAreGivenUp
  <2>3. SUFFICES ASSUME NEW q \in Procs, NEW s \in Stores, NEW g \in Generations,
                        holder'[s][g] = q
                 PROVE  Owns(q, s, g)'
    OBVIOUS
  <2>4. CASE q # p
    BY <1>2, <2>1, <2>3, <2>4, OthersStay
  <2>5. CASE q = p
    <3>. pc \in [Procs -> [at : AssetPlaces, store : Stores]]
      BY DEF AssetsTypeOK, AssetPlaces, Critical, Over
    <3>. fd \in [Procs -> Generations]
      BY DEF AssetsTypeOK
    <3>. /\ holder \in [Stores -> [Generations -> Procs \cup {None}]]
         /\ holder[s][g] = p => Owns(p, s, g)
         /\ holder'[s][g] = p /\ p # None
      BY <2>1, <2>3, <2>5, AssetsAssumption DEF AssetsTypeOK
    <3>. HIDE <1>2, <2>1, <2>3
    <3>. SUFFICES Owns(p, s, g)'
      BY <2>5
    <3>. USE DEF Goto, Advanced, Fail, DownloadFailed, Open, Over
    <3>1. CASE Close(p)
      BY <3>1 DEF Close
    <3>2. CASE UNCHANGED holder /\ ~Locking(p)
      BY <3>2
    <3>3. CASE Lock(p)
      BY <3>3 DEF Lock
    <3>4. CASE Found(p) \/ Missing(p) \/ OpenLock(p)
      BY <3>4, <3>2 DEF Found, Missing, OpenLock
    <3>5. CASE Recheck(p)
      BY <3>5, <3>1 DEF Recheck
    <3>6. CASE TryArchive(p)
      BY <3>6, <3>1 DEF TryArchive
    <3>7. CASE CreatePart(p)
      BY <3>7, <3>1 DEF CreatePart
    <3>8. CASE Rename(p)
      BY <3>8, <3>1 DEF Rename
    <3>9. CASE Extract(p)
      BY <3>9 DEF Extract
    <3>10. CASE CopyBegins(p)
      BY <3>10, <3>1 DEF CopyBegins
    <3>11. CASE CopyEnds(p)
      BY <3>11, <3>1 DEF CopyEnds
    <3>12. CASE CopyFails(p) \/ Manifest(p) \/ Crash(p)
      BY <3>12, <3>1 DEF CopyFails, Manifest, Crash
    <3>13. CASE StreamEnds(p)
      BY <3>13 DEF StreamEnds
    <3>14. CASE StreamShort(p)
      BY <3>14, <3>1 DEF StreamShort
    <3>15. CASE StreamBreaks(p)
      BY <3>15, <3>1 DEF StreamBreaks
    <3>. QED
      BY <1>2, <3>3, <3>4, <3>5, <3>6, <3>7, <3>8, <3>9, <3>10, <3>11, <3>12, <3>13,
         <3>14, <3>15 DEF Prepare, Stream
  <2>. QED
    BY <2>4, <2>5
<1>. QED
  BY <1>1, <1>2 DEF AssetsNext, RemoveStore, assetVars

-----------------------------------------------------------------------------
(* What the files hold. *)

\* An invocation writes to the files of its own store, and to the binary only
\* while it copies.
LEMMA WritesOwn ==
    ASSUME AssetsTypeOK, NEW p \in Procs, Prepare(p) \/ Stream(p) \/ Crash(p)
    PROVE  /\ \A t \in Targets :
                  t # Target(p) \/ pc[p].at \notin {"create", "stream", "rename"}
                      => part'[t] = part[t] /\ file'[t] = file[t]
           /\ binary' = binary \/ pc[p].at \in {"copy", "copying"}
<1>. part \in [Targets -> Files] /\ file \in [Targets -> Files]
  BY DEF AssetsTypeOK
<1>. USE DEF DownloadFailed, contents, At
<1>1. CASE CreatePart(p) \/ Rename(p) \/ Extract(p)
  BY <1>1 DEF CreatePart, Rename, Extract
<1>2. CASE CopyBegins(p) \/ CopyEnds(p) \/ CopyFails(p) \/ Manifest(p)
  BY <1>2 DEF CopyBegins, CopyEnds, CopyFails, Manifest
<1>3. CASE Stream(p) \/ Crash(p)
  BY <1>3 DEF Stream, StreamEnds, StreamShort, StreamBreaks, Crash
<1>4. CASE Found(p) \/ Missing(p) \/ OpenLock(p) \/ Lock(p) \/ Recheck(p) \/ TryArchive(p)
  BY <1>4 DEF Found, Missing, OpenLock, Lock, Recheck, TryArchive
<1>. QED
  BY <1>1, <1>2, <1>3, <1>4 DEF Prepare

LEMMA WholeFile ==
    ASSUME NEW g \in Files, NEW p
    PROVE  IF g.by = p THEN Completed(g, p).whole ELSE Completed(g, p) = g
  BY DEF Files, Completed

LEMMA WorkStep ==
    AssetsTypeOK /\ DirInv /\ RoundInv /\ WorkInv /\ [AssetsNext]_assetVars => WorkInv'
<1> SUFFICES ASSUME AssetsTypeOK, DirInv, RoundInv, WorkInv, [AssetsNext]_assetVars
             PROVE  WorkInv'
  OBVIOUS
<1>1. CASE UNCHANGED assetVars
  BY <1>1 DEF WorkInv, WorkOK, assetVars, At, In, Trusted, Target, Present
<1>2. CASE RemoveStore
  <2>. SUFFICES ASSUME NEW q \in Procs, Trusted(q)', pc[q].at \in Critical PROVE WorkOK(q)'
    BY <1>2 DEF WorkInv, WorkOK, RemoveStore, Critical, At
  <2>. WorkOK(q) /\ Trusted(q)
    BY <1>2 DEF WorkInv, RemoveStore, Trusted, In
  <2>1. In(q) # (IF removals % 2 = 0 THEN "model" ELSE "runtime")
    BY <1>2 DEF RemoveStore, Locking, Critical, Over, Trusted, In
  <2>. QED
    BY <1>2, <2>1, TargetStore
       DEF RemoveStore, WorkOK, RoundInv, RoundOK, At, In, Present, Target
<1>3. ASSUME NEW p \in Procs, Prepare(p) \/ Stream(p) \/ Crash(p) PROVE WorkInv'
  <2>. orphaned' = orphaned
    BY <1>3, FixedStep
  <2>1. ASSUME NEW q \in Procs \ {p}, Trusted(q)' PROVE WorkOK(q)'
    <3>1. /\ pc'[q] = pc[q] /\ round'[q] = round[q]
          /\ WorkOK(q) /\ RoundOK(q) /\ RoundOK(p) /\ In(q) \in Stores
      BY <1>3, OthersStay DEF WorkInv, RoundInv, AssetsTypeOK, In
    <3>. Trusted(q)
      BY <2>1, <3>1 DEF Trusted, In
    <3>2. CASE pc[q].at \in Critical /\ pc[p].at \in Critical
      <4>1. In(p) # In(q)
        BY <3>2, Exclusion
      <4>2. In(q) = "model" => binary' = binary \/ In(p) = "runtime"
        BY <4>1 DEF AssetsTypeOK, In, Stores
      <4>. QED
        BY <1>3, <3>1, <4>1, <4>2, TargetStore, WritesOwn
           DEF WorkOK, RoundOK, At, In, Stores, Present, Target, Trusted
    <3>3. CASE pc[p].at \notin Critical
      BY <1>3, <3>1, <3>3, WritesOwn, TargetStore
         DEF WorkOK, RoundOK, At, In, Stores, Present, Target, Trusted, Critical, Targets
    <3>4. CASE pc[q].at \notin Critical
      BY <3>1, <3>4 DEF WorkOK, At, Critical
    <3>. QED
      BY <3>2, <3>3, <3>4
  <2>2. ASSUME Trusted(p)' PROVE WorkOK(p)'
    <3>. pc \in [Procs -> [at : AssetPlaces, store : Stores]] /\ WorkOK(p) /\ RoundOK(p)
      BY DEF AssetsTypeOK, AssetPlaces, Critical, Over, WorkInv, RoundInv
    <3>. /\ part \in [Targets -> Files] /\ file \in [Targets -> Files] /\ binary \in Files
         /\ pc[p].at \in {"create", "stream", "rename", "extract"} => Target(p) \in Targets
      BY TargetStore DEF AssetsTypeOK
    <3>. USE DEF WorkOK, RoundOK, Goto, Advanced, Fail, DownloadFailed, Stores, At, In, Trusted,
            Present, Target, Open
    <3>1. CASE Found(p)
      BY <3>1 DEF Found
    <3>2. CASE Missing(p)
      BY <3>2 DEF Missing
    <3>3. CASE OpenLock(p)
      BY <3>3 DEF OpenLock
    <3>4. CASE Lock(p)
      BY <3>4 DEF Lock
    <3>5. CASE Recheck(p)
      BY <3>5 DEF Recheck, contents
    <3>6. CASE TryArchive(p)
      BY <3>6 DEF TryArchive, contents
    <3>7. CASE CreatePart(p)
      BY <3>7 DEF CreatePart, Begun
    <3>8. CASE Rename(p)
      BY <3>8 DEF Rename
    <3>9. CASE Extract(p)
      BY <3>9 DEF Extract
    <3>10. CASE CopyBegins(p)
      BY <3>10 DEF CopyBegins, Begun
    <3>11. CASE CopyEnds(p)
      BY <3>11 DEF CopyEnds
    <3>12. CASE CopyFails(p)
      BY <3>12 DEF CopyFails
    <3>13. CASE Manifest(p)
      BY <3>13 DEF Manifest
    <3>14. CASE StreamEnds(p)
      <4>1. \A g \in Files : IF g.by = p THEN Completed(g, p).whole ELSE Completed(g, p) = g
        BY WholeFile
      <4>2. Absent.by # p /\ Absent \in Files
        BY AssetsAssumption DEF Absent, Files
      <4>3. /\ Trusted(p) /\ Target(p)' = Target(p) /\ Present(In(p))' = Present(In(p))
            /\ pc'[p].at = "rename"
        BY <2>2, <3>14, <4>1, <4>2 DEF StreamEnds
      <4>. QED
        BY <3>14, <4>1, <4>2, <4>3 DEF StreamEnds
    <3>15. CASE StreamShort(p)
      BY <3>15 DEF StreamShort
    <3>16. CASE StreamBreaks(p)
      BY <3>16 DEF StreamBreaks
    <3>17. CASE Crash(p)
      BY <3>17 DEF Crash
    <3>. QED
      BY <1>3, <3>1, <3>2, <3>3, <3>4, <3>5, <3>6, <3>7, <3>8, <3>9,
         <3>10, <3>11, <3>12, <3>13, <3>14, <3>15, <3>16, <3>17 DEF Prepare, Stream
  <2>. QED
    BY <2>1, <2>2 DEF WorkInv, WorkOK
<1>. QED
  BY <1>1, <1>2, <1>3 DEF AssetsNext

LEMMA FilesStep ==
    AssetsTypeOK /\ DirInv /\ RoundInv /\ WorkInv /\ FilesAreWhole /\ [AssetsNext]_assetVars
        => FilesAreWhole'
<1> SUFFICES ASSUME AssetsTypeOK, DirInv, RoundInv, WorkInv, FilesAreWhole,
                    [AssetsNext]_assetVars
             PROVE  FilesAreWhole'
  OBVIOUS
<1>1. CASE UNCHANGED assetVars
  BY <1>1 DEF FilesAreWhole, DownloadsAreWhole, BinaryIsWholeOrTorn, assetVars, At
<1>2. CASE RemoveStore
  <2>1. DownloadsAreWhole'
    BY <1>2 DEF RemoveStore, FilesAreWhole, DownloadsAreWhole, AssetsTypeOK
  <2>2. BinaryIsWholeOrTorn'
    BY <1>2 DEF RemoveStore, FilesAreWhole, BinaryIsWholeOrTorn, At
  <2>. QED
    BY <2>1, <2>2 DEF FilesAreWhole
<1>3. ASSUME NEW p \in Procs, Prepare(p) \/ Stream(p) \/ Crash(p) PROVE FilesAreWhole'
  <2>. orphaned' = orphaned
    BY <1>3, FixedStep
  <2>1. DownloadsAreWhole'
    <3>. SUFFICES ASSUME NEW t \in Targets, StoreOf(t) \notin orphaned, file'[t] # Absent
                  PROVE  file'[t].whole
      BY DEF DownloadsAreWhole
    <3>. /\ file \in [Targets -> Files] /\ part \in [Targets -> Files]
         /\ file[t] # Absent => file[t].whole
      BY DEF AssetsTypeOK, FilesAreWhole, DownloadsAreWhole
    <3>1. CASE file'[t] = file[t]
      BY <3>1
    <3>2. CASE file'[t] # file[t]
      <4>1. /\ pc[p].at \in {"create", "stream", "rename"} /\ t = Target(p)
            /\ Trusted(p) /\ WorkOK(p)
        BY <1>3, <3>2, WritesOwn, TargetStore DEF Trusted, WorkInv
      <4>2. CASE CreatePart(p) \/ StreamShort(p) \/ StreamBreaks(p)
        BY <3>2, <4>1, <4>2 DEF CreatePart, StreamShort, StreamBreaks, DownloadFailed
      <4>3. CASE StreamEnds(p)
        BY <3>2, <4>1, <4>3, WholeFile DEF StreamEnds
      <4>4. CASE Rename(p)
        BY <3>2, <4>1, <4>4 DEF Rename, DownloadFailed, WorkOK
      <4>5. ~Crash(p)
        BY <3>2 DEF Crash, contents
      <4>. QED
        BY <1>3, <4>1, <4>2, <4>3, <4>4, <4>5
           DEF Prepare, Stream, At, Found, Missing, OpenLock, Lock, Recheck, TryArchive,
               Extract, CopyBegins, CopyEnds, CopyFails, Manifest
    <3>. QED
      BY <3>1, <3>2
  <2>2. BinaryIsWholeOrTorn'
    <3>. SUFFICES ASSUME "runtime" \notin orphaned, ~torn', binary' # Absent, ~binary'.whole
                  PROVE  \E q \in Procs : /\ binary'.by = q /\ At(q, "copying")'
                                          /\ holder'["runtime"][fd'[q]] = q
      BY DEF BinaryIsWholeOrTorn
    <3>1. pc[p].at \in {"copy", "copying"} =>
              /\ WorkOK(p) /\ Trusted(p)
              /\ In(p) = "runtime" /\ holder["runtime"][fd[p]] = p
      BY DEF WorkInv, RoundInv, RoundOK, DirInv, DirOK, Trusted, Critical
    <3>2. CASE binary' # binary
      <4>1. CASE CopyBegins(p)
        <5>1. /\ Goto(p, "copying") /\ Open /\ binary' = Begun(p)
              /\ holder["runtime"][fd[p]] = p
          BY <3>1, <3>2, <4>1 DEF CopyBegins, At
        <5>2. pc'[p].at = "copying"
          <6>. pc \in [Procs -> [at : AssetPlaces, store : Stores]]
            BY DEF AssetsTypeOK, AssetPlaces, Critical, Over
          <6>. QED
            BY <5>1 DEF Goto
        <5>. QED
          BY <5>1, <5>2 DEF At, Begun, Open
      <4>2. CASE CopyEnds(p)
        BY <3>1, <4>2, WholeFile DEF CopyEnds, WorkOK, AssetsTypeOK, At
      <4>3. CASE Extract(p) \/ CopyFails(p) \/ Manifest(p) \/ CreatePart(p) \/ Rename(p)
        BY <3>2, <4>3 DEF Extract, CopyFails, Manifest, CreatePart, Rename, contents
      <4>4. CASE Stream(p) \/ Crash(p)
        BY <3>2, <4>4 DEF Stream, StreamEnds, StreamShort, StreamBreaks, Crash, contents
      <4>. QED
        BY <1>3, <3>2, <4>1, <4>2, <4>3, <4>4
           DEF Prepare, Found, Missing, OpenLock, Lock, Recheck, TryArchive, contents
    <3>3. CASE binary' = binary
      <4>1. ~torn /\ ~(At(p, "copying") /\ (CopyFails(p) \/ Crash(p)))
        <5>1. CASE UNCHANGED torn
          BY <5>1 DEF CopyFails, Crash
        <5>2. CASE CopyFails(p) \/ Crash(p)
          BY <5>2 DEF CopyFails, Crash
        <5>3. CASE Stream(p)
          BY <5>1, <5>3 DEF Stream, StreamEnds, StreamShort, StreamBreaks, history
        <5>4. CASE Found(p) \/ Missing(p) \/ OpenLock(p) \/ Lock(p) \/ Recheck(p) \/ TryArchive(p)
          BY <5>1, <5>4 DEF Found, Missing, OpenLock, Lock, Recheck, TryArchive, history
        <5>5. CASE CreatePart(p) \/ Rename(p) \/ Extract(p) \/ CopyBegins(p) \/ CopyEnds(p)
                   \/ Manifest(p)
          BY <5>1, <5>5 DEF CreatePart, Rename, Extract, CopyBegins, CopyEnds, Manifest, history
        <5>. QED
          BY <1>3, <5>2, <5>3, <5>4, <5>5 DEF Prepare
      <4>2. PICK q \in Procs : /\ binary.by = q /\ At(q, "copying")
                               /\ holder["runtime"][fd[q]] = q
        BY <3>3, <4>1 DEF FilesAreWhole, BinaryIsWholeOrTorn
      <4>3. q # p
        <5>1. ~CopyEnds(p)
          BY <3>1, <3>3, WholeFile DEF CopyEnds, WorkOK, AssetsTypeOK, At
        <5>. QED
          BY <1>3, <4>1, <4>2, <5>1
             DEF Prepare, Stream, StreamEnds, StreamShort, StreamBreaks, At,
                 Found, Missing, OpenLock, Lock, Recheck, TryArchive, CreatePart, Rename,
                 Extract, CopyBegins, CopyFails, Manifest
      <4>. QED
        BY <1>3, <3>3, <4>2, <4>3, OthersStay DEF AssetsTypeOK, Stores, At
    <3>. QED
      BY <3>2, <3>3
  <2>. QED
    BY <2>1, <2>2 DEF FilesAreWhole
<1>. QED
  BY <1>1, <1>2, <1>3 DEF AssetsNext

-----------------------------------------------------------------------------
\* The parts of the invariant together.
LEMMA AssetsStep == IInv /\ [AssetsNext]_assetVars => IInv'
  BY TypeStep, MadeStep, RoundStep, DirStep, LocksStep, WorkStep, FilesStep DEF IInv

\* Requests leave the files alone.
LEMMA Composition == [Next]_vars => [AssetsNext]_assetVars
  BY DEF Next, vars, assetVars

\* To the files, an invocation that goes on to a request is one that has prepared.
THEOREM AssetsImplemented == Spec => AssetsSpec
  BY Composition, PTL DEF Spec, Init, AssetsSpec

\* The inductive invariant about the files.
THEOREM Invariance == Spec => []IInv
<1>1. Init => IInv
  BY InitInv DEF Init
<1>2. IInv /\ [Next]_vars => IInv'
  BY AssetsStep, Composition
<1>. QED
  BY <1>1, <1>2, PTL DEF Spec

\* A file under its final name is whole, however its writers ended and in whatever
\* order they came, unless the store was deleted under somebody or a copy was cut.
THEOREM FilesWhole == Spec => []FilesAreWhole
  BY Invariance, PTL DEF IInv

LEMMA FetchOnce == IInv => FetchedOnce
<1> SUFFICES ASSUME IInv, NEW p \in Procs, At(p, "stream"), Trusted(p)
             PROVE  /\ ~Present(In(p)) /\ file[Target(p)] = Absent
                    /\ \A q \in Procs \ {p} : At(q, "stream") => In(q) # In(p)
  BY DEF FetchedOnce, Trusted
<1>1. ~Present(In(p)) /\ file[Target(p)] = Absent
  BY DEF IInv, WorkInv, WorkOK, At
<1>2. ASSUME NEW q \in Procs \ {p}, At(q, "stream") PROVE In(q) # In(p)
  BY <1>2, Exclusion DEF IInv, At, Critical
<1>. QED
  BY <1>1, <1>2

\* Whoever downloads has found that what it downloads is not there, and nobody else
\* is downloading from the same store.
THEOREM OnceFetched == Spec => []FetchedOnce
  BY Invariance, FetchOnce, PTL

\* Every way out gives the lock up.
THEOREM LocksGivenUp == Spec => []LocksAreGivenUp
  BY Invariance, PTL DEF IInv

-----------------------------------------------------------------------------
(* The requests and their servers. *)

\* Another's server on the port of an attempt has come after the port was reserved.
PortInv ==
    \A p \in Testers, q \in Testers :
        /\ p # q /\ req[p] \in {"spawn", "poll", "post"}
        /\ server[q] = "up" /\ port[q] = port[p]
        => p \in shared

\* An attempt is made only while some are left.
TriesInv ==
    \A p \in Testers : req[p] \in {"none", "reserve", "spawn", "poll", "post"} => tries[p] < Retries

RequestInv ==
    /\ RequestTypeOK /\ TriesInv
    /\ ServerGoesWithRequest /\ OwnServerAnswers /\ PortInv

LEMMA RequestInitInv == RequestInit => RequestInv
  BY RuntimeAssumption
     DEF RequestInit, RequestInv, RequestTypeOK, ServerGoesWithRequest, OwnServerAnswers,
         PortInv, TriesInv, Requests, Servers, Running

LEMMA RequestTypeStep ==
    ASSUME RequestTypeOK, TriesInv, NEW p \in Testers, Attempt(p) \/ Outside(p) \/ Timeout(p)
    PROVE  RequestTypeOK' /\ TriesInv'
<1>. USE RuntimeAssumption
     DEF RequestTypeOK, TriesInv, Requests, Servers, Req, Drop, AttemptFails, Running
<1>1. CASE Begin(p) \/ Reserve(p)
  BY <1>1 DEF Begin, Reserve
<1>2. CASE Spawn(p)
  BY <1>2 DEF Spawn
<1>3. CASE Healthy(p) \/ NotReady(p)
  BY <1>3 DEF Healthy, NotReady
<1>4. CASE PostFails(p) \/ Shutdown(p)
  BY <1>4 DEF PostFails, Shutdown
<1>5. CASE Answered(p) \/ ServerBinds(p)
  BY <1>5 DEF Answered, ServerBinds, Listening
<1>6. CASE ServerExits(p) \/ KillTester(p) \/ Timeout(p)
  BY <1>6 DEF ServerExits, KillTester, Timeout
<1>. QED
  BY <1>1, <1>2, <1>3, <1>4, <1>5, <1>6 DEF Attempt, Outside

LEMMA RequestStep ==
    ASSUME RequestInv, RequestTypeOK', TriesInv', NEW p \in Testers, Attempt(p) \/ Outside(p) \/ Timeout(p)
    PROVE  RequestInv'
<1>. USE DEF RequestInv, Req, Drop, AttemptFails, Running
<1>. RequestTypeOK
  OBVIOUS
<1>1. ServerGoesWithRequest'
  <2>. USE DEF ServerGoesWithRequest, RequestTypeOK
  <2>1. CASE Begin(p) \/ Reserve(p)
    BY <2>1 DEF Begin, Reserve
  <2>2. CASE Spawn(p)
    BY <2>2 DEF Spawn
  <2>3. CASE Healthy(p) \/ NotReady(p)
    BY <2>3 DEF Healthy, NotReady
  <2>4. CASE PostFails(p) \/ Shutdown(p) \/ Answered(p)
    BY <2>4 DEF PostFails, Shutdown, Answered
  <2>5. CASE ServerBinds(p) \/ ServerExits(p) \/ KillTester(p) \/ Timeout(p)
    BY <2>5 DEF ServerBinds, ServerExits, KillTester, Timeout
  <2>. QED
    BY <2>1, <2>2, <2>3, <2>4, <2>5 DEF Attempt, Outside
<1>2. PortInv'
  <2>. USE DEF PortInv, RequestTypeOK
  <2>1. CASE Begin(p)
    BY <2>1 DEF Begin
  <2>2. CASE Reserve(p)
    BY <2>2, RuntimeAssumption DEF Reserve, Listening, ServerGoesWithRequest
  <2>3. CASE Spawn(p)
    BY <2>3 DEF Spawn
  <2>4. CASE Healthy(p) \/ NotReady(p)
    BY <2>4 DEF Healthy, NotReady
  <2>5. CASE PostFails(p) \/ Shutdown(p) \/ Answered(p)
    BY <2>5 DEF PostFails, Shutdown, Answered
  <2>6. CASE ServerBinds(p)
    BY <2>6 DEF ServerBinds
  <2>7. CASE ServerExits(p) \/ KillTester(p) \/ Timeout(p)
    BY <2>7 DEF ServerExits, KillTester, Timeout
  <2>. QED
    BY <2>1, <2>2, <2>3, <2>4, <2>5, <2>6, <2>7 DEF Attempt, Outside
<1>3. OwnServerAnswers'
  <2>. USE DEF OwnServerAnswers, RequestTypeOK
  <2>1. CASE Answered(p)
    BY <2>1 DEF Answered, Listening, PortInv
  <2>2. CASE UNCHANGED answer /\ shared \subseteq shared'
    BY <2>2
  <2>3. CASE Begin(p) \/ Reserve(p) \/ Spawn(p) \/ Healthy(p) \/ NotReady(p)
             \/ PostFails(p) \/ Shutdown(p)
    BY <2>2, <2>3 DEF Begin, Reserve, Spawn, Healthy, NotReady, PostFails, Shutdown
  <2>4. CASE ServerBinds(p) \/ ServerExits(p) \/ KillTester(p) \/ Timeout(p)
    BY <2>2, <2>4 DEF ServerBinds, ServerExits, KillTester, Timeout
  <2>. QED
    BY <2>1, <2>3, <2>4 DEF Attempt, Outside
<1>. QED
  BY <1>1, <1>2, <1>3

\* The inductive invariant about requests and servers.
THEOREM RequestInvariance == Spec => []RequestInv
<1>1. Init => RequestInv
  BY RequestInitInv DEF Init
<1>2. RequestInv /\ [Next]_vars => RequestInv'
  <2> SUFFICES ASSUME RequestInv, [Next]_vars PROVE RequestInv'
    OBVIOUS
  <2>1. CASE UNCHANGED requestVars
    BY <2>1 DEF requestVars, RequestInv, RequestTypeOK, TriesInv, ServerGoesWithRequest,
                OwnServerAnswers, PortInv
  <2>2. CASE \E p \in Testers : Attempt(p) \/ Outside(p) \/ Timeout(p)
    <3>. RequestTypeOK /\ TriesInv
      BY DEF RequestInv
    <3>. QED
      BY <2>2, RequestTypeStep, RequestStep
  <2>. QED
    BY <2>1, <2>2 DEF Next, vars
<1>. QED
  BY <1>1, <1>2, PTL DEF Spec

\* A prompt answered by another invocation's server was posted to a port that this
\* server has taken since it was reserved, for any number of requests and ports.
THEOREM OwnServerAnswered == Spec => []OwnServerAnswers
  BY RequestInvariance, PTL DEF RequestInv

\* No server outlives its request, unless the process was killed.
THEOREM ServersGo == Spec => []ServerGoesWithRequest
  BY RequestInvariance, PTL DEF RequestInv

-----------------------------------------------------------------------------
(* LlmPreparation: its three properties are together inductive. *)

Safe == PreparationTypeOK /\ OnePreparation /\ SharedResult

USE PreparationAssumption
USE DEF States, Finished, Places, CallAt, CallGoto, Return, Woken

\* A step of one call keeps the result shared and the preparation single.
LEMMA SafeStep ==
    ASSUME Safe, [PreparationNext]_preparationVars
    PROVE  Safe'
<1> USE DEF Safe, PreparationTypeOK, OnePreparation, SharedResult
<1>1. ASSUME NEW t \in Tasks, ReturnShared(t) PROVE Safe'
  BY <1>1 DEF ReturnShared
<1>2. ASSUME NEW t \in Tasks, Start(t) PROVE Safe'
  BY <1>2 DEF Start
<1>3. ASSUME NEW t \in Tasks, FindPreparing(t) PROVE Safe'
  BY <1>3 DEF FindPreparing
<1>4. ASSUME NEW t \in Tasks, Register(t) PROVE Safe'
  BY <1>4 DEF Register
<1>5. ASSUME NEW t \in Tasks, Conclude(t) PROVE Safe'
  <2>1. PICK result \in Finished :
           /\ CallAt(t, "preparing")
           /\ state' = result
           /\ call' = [Woken(call) EXCEPT ![t] = "done"]
           /\ returned' = [returned EXCEPT ![t] = result]
    BY <1>5 DEF Conclude
  <2>2. PreparationTypeOK'
    BY <2>1
  \* The call that ends was the only one preparing.
  <2>3. \A u \in Tasks : ~CallAt(u, "preparing")'
    BY <2>1
  \* Nobody had a result before this one.
  <2>4. \A u \in Tasks \ {t} : returned'[u] \notin Finished
    BY <2>1
  <2>. QED
    BY <2>1, <2>2, <2>3, <2>4
<1>6. ASSUME NEW t \in Tasks, Wake(t) PROVE Safe'
  BY <1>6 DEF Wake
<1>7. ASSUME NEW t \in Tasks, DropFuture(t) PROVE Safe'
  BY <1>7 DEF DropFuture
<1>8. CASE UNCHANGED preparationVars
  BY <1>8 DEF preparationVars
<1>. QED
  BY <1>1, <1>2, <1>3, <1>4, <1>5, <1>6, <1>7, <1>8 DEF PreparationNext, Step

\* Type correctness, the single preparation and the shared result hold of
\* prepare for any number of callers.
THEOREM Safety == PreparationSpec => [](PreparationTypeOK /\ OnePreparation /\ SharedResult)
<1>1. PreparationInit => Safe
  BY DEF PreparationInit, Safe, PreparationTypeOK, OnePreparation, SharedResult
<1>2. Safe /\ [PreparationNext]_preparationVars => Safe'
  BY SafeStep
<1>3. Safe => PreparationTypeOK /\ OnePreparation /\ SharedResult
  BY DEF Safe
<1>. QED
  BY <1>1, <1>2, <1>3, PTL DEF PreparationSpec

\* Of overlapping calls of prepare only one runs prepare_inner.
THEOREM SinglePreparation == PreparationSpec => []OnePreparation
<1>. QED
  BY Safety, PTL

\* Every call of prepare that returns gives the same result.
THEOREM ResultShared == PreparationSpec => []SharedResult
<1>. QED
  BY Safety, PTL
===============================================================================
