------------------------------ MODULE LlmAssets ------------------------------
(***************************************************************************)
(* The managed assets of LLM assistance (llm_assist/mod.rs): several       *)
(* processes look for llama-server and a model in one cache directory and  *)
(* download what is missing, each store under the file lock in its         *)
(* directory, while `llm remove` deletes the directories without a lock.   *)
(* A process may end at any point; its locks go with it, its files stay.   *)
(* A file is known by who created it and whether all of it was written; a  *)
(* directory by how many there have been before it, since the lock file in *)
(* a directory that was deleted is not the one in its successor.           *)
(***************************************************************************)
EXTENDS Naturals, Sequences, FiniteSets

CONSTANTS
    Procs,         \* invocations that prepare, one prepare_inner each
    Frugal,        \* those of them whose configuration allows no download
    Archives,      \* names under which the release may hold llama-server
    MaxRemovals,   \* bound on the number of removals
    None

ASSUME AssetsAssumption ==
    /\ IsFiniteSet(Procs) /\ Frugal \subseteq Procs
    /\ Archives \in Seq(STRING \ {"model"})
    /\ MaxRemovals \in Nat
    /\ None \notin Procs

VARIABLES
    pc,        \* where each invocation is, and in which store
    round,     \* the archive it is trying
    fd,        \* the directory whose lock file it has open
    made,      \* directories made so far, per store
    exists,    \* whether the last of them is still there
    holder,    \* who holds the lock in each of them
    part,      \* the partial file of each download
    file,      \* the archives and the model under their names
    unpacked,  \* a llama-server in the extraction directory
    binary,    \* llama-server under its final name
    usable,    \* archives that hold llama-server; nothing changes it
    onPath,    \* llama-server is configured or on PATH; nothing changes it
    removals,  \* directories deleted by llm remove
    orphaned,  \* history: stores deleted while an invocation had the lock open
    torn       \* history: a copy of the binary was cut short

assetVars == <<pc, round, fd, made, exists, holder, part, file, unpacked,
               binary, usable, onPath, removals, orphaned, torn>>

Stores == {"runtime", "model"}
Names == {Archives[i] : i \in 1..Len(Archives)}
Targets == Names \cup {"model"}
Generations == 0..(MaxRemovals + 1)
Over == {"ready", "failed", "crashed"}

Absent == [by |-> None, whole |-> FALSE]
Files == [by : Procs \cup {None}, whole : BOOLEAN]

Begun(p) == [by |-> p, whole |-> FALSE]

\* What an inode that p is writing has become when p has written all of it.
Completed(f, p) == IF f.by = p THEN [f EXCEPT !.whole = TRUE] ELSE f

At(p, here) == pc[p].at = here

In(p) == pc[p].store

StoreOf(t) == IF t = "model" THEN "model" ELSE "runtime"

\* The file that p is downloading.
Target(p) == IF In(p) = "model" THEN "model" ELSE Archives[round[p]]

\* is_file of the path that prepare_inner wants from a store.
Present(s) == (IF s = "model" THEN file["model"] ELSE binary) # Absent

Goto(p, there) == pc' = [pc EXCEPT ![p].at = there]

\* The lock file is closed, and with it the lock is given up.
Close(p) ==
    /\ fd' = [fd EXCEPT ![p] = 0]
    /\ holder' = [s \in Stores |-> [g \in Generations |->
                     IF holder[s][g] = p THEN None ELSE holder[s][g]]]

Open == UNCHANGED <<fd, holder>>

\* llama-server first, then the model.
Advanced(p) ==
    [pc EXCEPT ![p] = IF @.store = "runtime" THEN [at |-> "look", store |-> "model"]
                                             ELSE [@ EXCEPT !.at = "ready"]]

\* create_dir_all
DirectoryMade(s) ==
    /\ exists' = [exists EXCEPT ![s] = TRUE]
    /\ made' = [made EXCEPT ![s] = IF exists[s] THEN @ ELSE @ + 1]

AssetsInit ==
    /\ pc = [p \in Procs |-> [at |-> "look", store |-> "runtime"]]
    /\ round = [p \in Procs |-> 1]
    /\ fd = [p \in Procs |-> 0]
    /\ made = [s \in Stores |-> 0]
    /\ exists = [s \in Stores |-> FALSE]
    /\ holder = [s \in Stores |-> [g \in Generations |-> None]]
    /\ part = [t \in Targets |-> Absent]
    /\ file = [t \in Targets |-> Absent]
    /\ unpacked = FALSE
    /\ binary = Absent
    /\ usable \in SUBSET Names
    /\ onPath \in BOOLEAN
    /\ removals = 0
    /\ orphaned = {}
    /\ torn = FALSE

fixed == <<usable, onPath>>
history == <<orphaned, torn>>
directories == <<made, exists>>
contents == <<part, file, unpacked, binary>>

-----------------------------------------------------------------------------
(* ensure_llama_server and ensure_model, without the lock *)

\* The file is there, or, of llama-server, one is found elsewhere.
Found(p) ==
    /\ At(p, "look")
    /\ Present(In(p)) \/ (In(p) = "runtime" /\ onPath)
    /\ pc' = Advanced(p)
    /\ UNCHANGED <<round, fd, directories, holder, contents, fixed, removals, history>>

Missing(p) ==
    /\ At(p, "look")
    /\ ~Present(In(p)) /\ ~(In(p) = "runtime" /\ onPath)
    /\ Goto(p, IF p \in Frugal THEN "failed" ELSE "open")
    /\ UNCHANGED <<round, fd, directories, holder, contents, fixed, removals, history>>

\* The directories are created and the lock file opened.
OpenLock(p) ==
    /\ At(p, "open")
    /\ DirectoryMade(In(p))
    /\ fd' = [fd EXCEPT ![p] = made'[In(p)]]
    /\ Goto(p, "lock")
    /\ UNCHANGED <<round, holder, contents, fixed, removals, history>>

\* lock_exclusive
Lock(p) ==
    /\ At(p, "lock")
    /\ holder[In(p)][fd[p]] = None
    /\ holder' = [holder EXCEPT ![In(p)][fd[p]] = p]
    /\ Goto(p, "locked")
    /\ UNCHANGED <<round, fd, directories, contents, fixed, removals, history>>

-----------------------------------------------------------------------------
(* download_model and download_llama_server_locked, under the lock *)

\* The error that ends prepare_inner; the lock file is dropped.
Fail(p) ==
    /\ Close(p)
    /\ Goto(p, "failed")

\* Seeded bug: what another process put there while this one waited is not
\* looked for.
RecheckSkipped(p) ==
    /\ At(p, "locked")
    /\ Goto(p, IF In(p) = "model" THEN "create" ELSE "archive")
    /\ UNCHANGED <<round, fd, directories, holder, contents, fixed, removals, history>>

Recheck(p) ==
    /\ At(p, "locked")
    /\ IF Present(In(p))
       THEN Close(p) /\ pc' = Advanced(p)
       ELSE /\ Goto(p, IF In(p) = "model" THEN "create" ELSE "archive")
            /\ Open
    /\ UNCHANGED <<round, directories, contents, fixed, removals, history>>

\* The next candidate; one that an earlier attempt has left is not fetched again.
TryArchive(p) ==
    /\ At(p, "archive")
    /\ IF round[p] > Len(Archives) THEN Fail(p)
       ELSE /\ Goto(p, IF file[Archives[round[p]]] = Absent THEN "create" ELSE "extract")
            /\ Open
    /\ UNCHANGED <<round, directories, contents, fixed, removals, history>>

\* A failed model download fails the preparation, a failed archive only itself.
DownloadFailed(p) ==
    IF In(p) = "model" THEN Fail(p) /\ UNCHANGED <<round, file>>
    ELSE /\ round' = [round EXCEPT ![p] = @ + 1]
         /\ file' = [file EXCEPT ![Target(p)] = Absent]
         /\ Goto(p, "archive")
         /\ Open

\* File::create of the partial file; download_file makes the directory again,
\* download_model does not.
CreatePart(p) ==
    /\ At(p, "create")
    /\ IF In(p) = "model" /\ ~exists["model"]
       THEN DownloadFailed(p) /\ UNCHANGED <<directories, part>>
       ELSE /\ DirectoryMade(In(p))
            /\ part' = [part EXCEPT ![Target(p)] = Begun(p)]
            /\ Goto(p, "stream")
            /\ Open /\ UNCHANGED <<round, file>>
    /\ UNCHANGED <<unpacked, binary, fixed, removals, history>>

\* Every chunk was written.  The inode may go by another name by now, or by none.
StreamEnds(p) ==
    /\ At(p, "stream")
    /\ part' = [part EXCEPT ![Target(p)] = Completed(@, p)]
    /\ file' = [file EXCEPT ![Target(p)] = Completed(@, p)]
    /\ Goto(p, "rename")
    /\ UNCHANGED <<round, fd, directories, holder, unpacked, binary, fixed, removals, history>>

\* Seeded bug: the size is not compared.
StreamShortAccepted(p) ==
    /\ At(p, "stream")
    /\ Goto(p, "rename")
    /\ UNCHANGED <<round, fd, directories, holder, contents, fixed, removals, history>>

\* Nothing came, or less than was announced: the partial file is removed.
StreamShort(p) ==
    /\ At(p, "stream")
    /\ part' = [part EXCEPT ![Target(p)] = Absent]
    /\ DownloadFailed(p)
    /\ UNCHANGED <<directories, unpacked, binary, fixed, removals, history>>

\* No connection, a bad status, or a stream that breaks: the part stays.
StreamBreaks(p) ==
    /\ At(p, "stream")
    /\ DownloadFailed(p)
    /\ UNCHANGED <<directories, part, unpacked, binary, fixed, removals, history>>

\* rename takes whatever bears the partial file's name.
Rename(p) ==
    /\ At(p, "rename")
    /\ IF part[Target(p)] = Absent THEN DownloadFailed(p) /\ UNCHANGED part
       ELSE /\ file' = [file EXCEPT ![Target(p)] = part[Target(p)]]
            /\ part' = [part EXCEPT ![Target(p)] = Absent]
            /\ Goto(p, IF In(p) = "model" THEN "manifest" ELSE "extract")
            /\ Open /\ UNCHANGED round
    /\ UNCHANGED <<directories, unpacked, binary, fixed, removals, history>>

\* The archive can be opened and unpacked, and llama-server found in it.
Unpacks(p) == file[Target(p)].whole /\ Target(p) \in usable

\* The archive is unpacked into a fresh directory and searched; one that
\* cannot be used is given up but not deleted.
Extract(p) ==
    /\ At(p, "extract")
    /\ DirectoryMade("runtime")
    /\ unpacked' = Unpacks(p)
    /\ round' = [round EXCEPT ![p] = IF Unpacks(p) THEN @ ELSE @ + 1]
    /\ Goto(p, IF Unpacks(p) THEN "copy" ELSE "archive")
    /\ UNCHANGED <<fd, holder, part, file, binary, fixed, removals, history>>

\* fs::copy creates the file under its final name and fills it.
CopyBegins(p) ==
    /\ At(p, "copy")
    /\ IF unpacked
       THEN /\ DirectoryMade("runtime")
            /\ binary' = Begun(p)
            /\ Goto(p, "copying")
            /\ Open
       ELSE Fail(p) /\ UNCHANGED <<directories, binary>>
    /\ UNCHANGED <<round, part, file, unpacked, fixed, removals, history>>

\* The copy is whole; make_executable needs it to be there still.
CopyEnds(p) ==
    /\ At(p, "copying")
    /\ binary' = Completed(binary, p)
    /\ IF binary = Absent THEN Fail(p) /\ UNCHANGED unpacked
       ELSE Goto(p, "manifest") /\ unpacked' = FALSE /\ Open
    /\ UNCHANGED <<round, directories, part, file, fixed, removals, history>>

\* The disk is full: what was written stays.
CopyFails(p) ==
    /\ At(p, "copying")
    /\ Fail(p)
    /\ torn' = TRUE
    /\ UNCHANGED <<round, directories, contents, fixed, removals, orphaned>>

\* The manifest is written and the lock released; a manifest that cannot be
\* written fails the preparation although the file is in place.
Manifest(p) ==
    /\ At(p, "manifest")
    /\ Close(p)
    /\ \/ exists[In(p)] /\ pc' = Advanced(p)
       \/ Goto(p, "failed")
    /\ UNCHANGED <<round, directories, contents, fixed, removals, history>>

-----------------------------------------------------------------------------
(* What may happen to an invocation *)

Locking(p) == pc[p].at \notin Over \cup {"look", "open"}

Crash(p) ==
    /\ pc[p].at \notin Over
    /\ Close(p)
    /\ Goto(p, "crashed")
    /\ torn' = (torn \/ At(p, "copying"))
    /\ UNCHANGED <<round, directories, contents, fixed, removals, orphaned>>

\* remove_managed_llm_assets: models, then llama.cpp, each if it exists.
RemoveStore ==
    /\ removals < 2 * MaxRemovals
    /\ removals' = removals + 1
    /\ LET s == IF removals % 2 = 0 THEN "model" ELSE "runtime"
           Swept(f) == [t \in Targets |-> IF StoreOf(t) = s THEN Absent ELSE f[t]]
       IN /\ exists' = [exists EXCEPT ![s] = FALSE]
          /\ part' = Swept(part)
          /\ file' = Swept(file)
          /\ unpacked' = (unpacked /\ s = "model")
          /\ binary' = IF s = "runtime" THEN Absent ELSE binary
          /\ orphaned' = IF \E p \in Procs : In(p) = s /\ Locking(p)
                         THEN orphaned \cup {s} ELSE orphaned
    /\ UNCHANGED <<pc, round, fd, made, holder, fixed, torn>>

Prepare(p) ==
    \/ Found(p) \/ Missing(p) \/ OpenLock(p) \/ Lock(p) \/ Recheck(p)
    \/ TryArchive(p) \/ CreatePart(p) \/ Rename(p) \/ Extract(p)
    \/ CopyBegins(p) \/ CopyEnds(p) \/ CopyFails(p) \/ Manifest(p)

Stream(p) == StreamEnds(p) \/ StreamShort(p) \/ StreamBreaks(p)

AssetsNext ==
    \/ \E p \in Procs : Prepare(p) \/ Stream(p) \/ Crash(p)
    \/ RemoveStore

AssetsSpec == AssetsInit /\ [][AssetsNext]_assetVars

-----------------------------------------------------------------------------
(* Properties *)

AssetsTypeOK ==
    /\ pc \in [Procs -> [at : {"look", "open", "lock", "locked", "archive", "create",
                               "stream", "rename", "extract", "copy", "copying",
                               "manifest"} \cup Over,
                         store : Stores]]
    /\ round \in [Procs -> 1..(Len(Archives) + 1)]
    /\ fd \in [Procs -> Generations]
    /\ made \in [Stores -> Generations]
    /\ exists \in [Stores -> BOOLEAN]
    /\ holder \in [Stores -> [Generations -> Procs \cup {None}]]
    /\ part \in [Targets -> Files] /\ file \in [Targets -> Files]
    /\ unpacked \in BOOLEAN /\ binary \in Files
    /\ usable \subseteq Names /\ onPath \in BOOLEAN
    /\ removals \in Nat
    /\ orphaned \subseteq Stores /\ torn \in BOOLEAN

\* A file that bears a downloaded file's final name is whole, whatever broke, was
\* short or died on the way to it, unless the store was deleted under somebody
\* who had its lock open.
DownloadsAreWhole ==
    \A t \in Targets :
        StoreOf(t) \notin orphaned /\ file[t] # Absent => file[t].whole

\* llama-server, which is not moved but copied to its final name, is whole too
\* unless it is being copied under the lock or a copy was once cut short.
BinaryIsWholeOrTorn ==
    "runtime" \notin orphaned /\ ~torn /\ binary # Absent /\ ~binary.whole
        => \E p \in Procs : /\ binary.by = p /\ At(p, "copying")
                            /\ holder["runtime"][fd[p]] = p

\* A file under its final name can be trusted, however its writer ended: the rename
\* that ends a download and the lock around a copy are what is_file relies on.
FilesAreWhole == DownloadsAreWhole /\ BinaryIsWholeOrTorn

\* Nothing is fetched twice: a download begins only of what is not there, and of
\* one store by one process, unless the store was deleted under a lock.
FetchedOnce ==
    \A p \in Procs : At(p, "stream") /\ In(p) \notin orphaned =>
        /\ ~Present(In(p)) /\ file[Target(p)] = Absent
        /\ \A q \in Procs \ {p} : At(q, "stream") => In(q) # In(p)

\* Every way out of a download gives the lock up, also in a directory that is gone:
\* it is held only by an invocation that is still at work in that store.
LocksAreGivenUp ==
    \A s \in Stores, g \in Generations :
        LET p == holder[s][g]
        IN p # None => In(p) = s /\ fd[p] = g /\ Locking(p) /\ ~At(p, "lock")
=============================================================================
