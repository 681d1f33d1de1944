----------------------------- MODULE OAuthStore -----------------------------
(***************************************************************************)
(* The OAuth credential store on disk (oauth.rs), shared by every process  *)
(* that logs in to a remote backend (connect_oauth_streamable_http_backend *)
(* in server/connect.rs) and every process that runs `clear-oauth`.        *)
(*                                                                         *)
(* The store is a root directory with an index of (name, uri) entries and  *)
(* one directory per entry, which holds the credentials and the state of   *)
(* logins in progress.  Nothing is locked: every file is replaced by a     *)
(* rename, and the index is read, changed and replaced by several          *)
(* processes that may end at any moment.                                   *)
(***************************************************************************)
EXTENDS Integers, FiniteSets

CONSTANTS Names,    \* the names backends are configured under
          Uris,     \* their addresses
          Dirs,     \* directory names below the root
          DirOf,    \* the directory of an entry: the sanitized name and uri
          Logins,   \* processes that connect to one backend
          Clears,   \* processes that run clear-oauth
          Nothing   \* the target of a process that has none

Entries == Names \X Uris
Targets == Names \cup Uris
Procs == Logins \cup Clears

ASSUME DirOfAssumption == DirOf \in [Entries -> Dirs]
ASSUME ProcsAssumption == Logins \cap Clears = {}
ASSUME NothingAssumption == Nothing \notin Targets

VARIABLES
    \* the files
    rootExists, \* the root directory exists
    index,      \* the entries of index.json, none when there is no such file
    dirs,       \* the directories below the root
    creds,      \* those of them that hold credentials
    pending,    \* the logins whose authorization state is on disk
    temp,       \* the processes whose temporary file is on disk
    \* the processes
    stage,      \* where each of them is
    who,        \* the entry of the backend a login connects to
    seen,       \* the entries a process read from the index
    target,     \* what a clear was asked to remove
    todo,       \* the matching entries it has not removed yet
    \* history
    rewritten,  \* the directories in which credentials were saved since a clear read the index
    astray      \* the directories whose entry a race or an interrupted clear has dropped

files == <<rootExists, index, dirs, creds, pending, temp>>
locals == <<seen, target, todo, rewritten>>
storeVars == <<files, stage, who, locals, astray>>

-----------------------------------------------------------------------------

DirsOf(entries) == {DirOf[e] : e \in entries}

\* The entries `clear-oauth t` removes: t is compared with name and with uri.
Matching(t, entries) == {e \in entries : e[1] = t \/ e[2] = t}

\* A login that has put its entry in the index and may still save credentials.
Holding == {"indexed", "waiting", "redeemed", "saving", "connected", "renewing"}
Held == {DirOf[who[p]] : p \in {q \in Logins : stage[q] \in Holding}}

\* The processes whose temporary file is in directory d.
WritingIn(d) == {p \in Logins : stage[p] \in {"saving", "renewing"} /\ DirOf[who[p]] = d}
PendingIn(d) == {p \in pending : DirOf[who[p]] = d}

Enter(p, at) == stage' = [stage EXCEPT ![p] = at]

\* What a process has read and has left to do is lost when it ends.
Abandon(p) ==
    /\ seen' = [seen EXCEPT ![p] = {}]
    /\ target' = [target EXCEPT ![p] = Nothing]
    /\ todo' = [todo EXCEPT ![p] = {}]
    /\ rewritten' = [rewritten EXCEPT ![p] = {}]

Ends(p) == Enter(p, "idle") /\ Abandon(p)

StoreInit ==
    /\ rootExists = FALSE
    /\ index = {}
    /\ dirs = {}
    /\ creds = {}
    /\ pending = {}
    /\ temp = {}
    /\ stage = [p \in Procs |-> "idle"]
    /\ who \in [Logins -> Entries]
    /\ seen = [p \in Procs |-> {}]
    /\ target = [p \in Procs |-> Nothing]
    /\ todo = [p \in Procs |-> {}]
    /\ rewritten = [p \in Procs |-> {}]
    /\ astray = {}

-----------------------------------------------------------------------------
(* Replacing the index: write a temporary file, then rename it.            *)

\* What becomes of the entries p's new index drops.  An entry that is not in
\* the index p read was added while p worked: its directory goes astray.
LosesTo(p, entries) ==
    DirsOf(index \ seen[p]) \ DirsOf(entries)

\* atomic_write creates the root and writes the temporary file.
StageIndex(p) ==
    /\ rootExists' = TRUE
    /\ temp' = temp \cup {p}
    /\ UNCHANGED <<index, dirs, creds, pending>>

RenameIndex(p, entries) ==
    /\ p \in temp
    /\ index' = entries
    /\ temp' = temp \ {p}
    /\ UNCHANGED <<rootExists, dirs, creds, pending>>

\* The temporary file has been removed with its directory: the rename fails
\* and the process reports the error and ends.
RenameFails(p) ==
    /\ stage[p] = "staged"
    /\ p \notin temp
    /\ Ends(p)
    /\ UNCHANGED <<files, who, astray>>

-----------------------------------------------------------------------------
(* A login.                                                                *)

\* remember_oauth_store: create the root and read the index.
ReadIndex(p) ==
    /\ stage[p] = "idle"
    /\ rootExists' = TRUE
    /\ seen' = [seen EXCEPT ![p] = index]
    /\ Enter(p, "read")
    /\ UNCHANGED <<index, dirs, creds, pending, temp, who, target, todo, rewritten, astray>>

Remember(p) ==
    /\ stage[p] = "read"
    /\ StageIndex(p)
    /\ Enter(p, "staged")
    /\ UNCHANGED <<who, locals, astray>>

\* MUTANT: only the entry of p is kept.
RememberedAlone(p) == {who[p]}

\* The index with the entry of p replaced or added.
Remembered(p) == (seen[p] \ {who[p]}) \cup {who[p]}

Indexed(p) ==
    /\ stage[p] = "staged"
    /\ RenameIndex(p, Remembered(p))
    /\ Enter(p, "indexed")
    /\ Abandon(p)
    /\ astray' = (astray \cup LosesTo(p, Remembered(p))) \ DirsOf(Remembered(p))
    /\ UNCHANGED who

\* initialize_from_store finds credentials: no login is needed.
UseStored(p) ==
    /\ stage[p] = "indexed"
    /\ DirOf[who[p]] \in creds
    /\ Enter(p, "connected")
    /\ UNCHANGED <<files, who, locals, astray>>

\* It finds none: the listener is bound and the authorization state saved.
Authorize(p) ==
    /\ stage[p] = "indexed"
    /\ DirOf[who[p]] \notin creds
    /\ rootExists' = TRUE
    /\ dirs' = dirs \cup {DirOf[who[p]]}
    /\ pending' = pending \cup {p}
    /\ Enter(p, "waiting")
    /\ UNCHANGED <<index, creds, temp, who, locals, astray>>

\* The browser calls back with a code; the saved state is loaded and deleted.
Redeem(p) ==
    /\ stage[p] = "waiting"
    /\ p \in pending
    /\ pending' = pending \ {p}
    /\ Enter(p, "redeemed")
    /\ UNCHANGED <<rootExists, index, dirs, creds, temp, who, locals, astray>>

\* The code is exchanged, or a connected client renews its token, and the
\* new credentials are staged in the entry's directory, made again if need be.
StageCredentials(p) ==
    /\ \/ stage[p] = "redeemed" /\ Enter(p, "saving")
       \/ stage[p] = "connected" /\ Enter(p, "renewing")
    /\ rootExists' = TRUE
    /\ dirs' = dirs \cup {DirOf[who[p]]}
    /\ temp' = temp \cup {p}
    /\ UNCHANGED <<index, creds, pending, who, locals, astray>>

SaveCredentials(p) ==
    /\ stage[p] \in {"saving", "renewing"}
    /\ p \in temp
    /\ temp' = temp \ {p}
    /\ creds' = creds \cup {DirOf[who[p]]}
    /\ Enter(p, "connected")
    /\ rewritten' = [c \in Procs |->
                        IF target[c] = Nothing THEN {} ELSE rewritten[c] \cup {DirOf[who[p]]}]
    /\ UNCHANGED <<rootExists, index, dirs, pending, who, seen, target, todo, astray>>

\* The temporary file has been cleared away: a login fails, a connected
\* client goes on with the token it has.
SaveFails(p) ==
    /\ p \notin temp
    /\ \/ stage[p] = "saving" /\ Enter(p, "idle")
       \/ stage[p] = "renewing" /\ Enter(p, "connected")
    /\ UNCHANGED <<files, who, locals, astray>>

Login(p) ==
    \/ ReadIndex(p) \/ Remember(p) \/ Indexed(p) \/ RenameFails(p)
    \/ UseStored(p) \/ Authorize(p) \/ Redeem(p)
    \/ StageCredentials(p) \/ SaveCredentials(p) \/ SaveFails(p)

-----------------------------------------------------------------------------
(* clear_oauth_store.                                                      *)

\* There is no store: nothing is to be removed.
ClearNothing(c) ==
    /\ stage[c] = "idle"
    /\ ~rootExists
    /\ Enter(c, "cleared")
    /\ UNCHANGED <<files, who, locals, astray>>

ClearBegin(c, t) ==
    /\ stage[c] = "idle"
    /\ rootExists
    /\ target' = [target EXCEPT ![c] = t]
    /\ seen' = [seen EXCEPT ![c] = index]
    /\ todo' = [todo EXCEPT ![c] = Matching(t, index)]
    /\ rewritten' = [rewritten EXCEPT ![c] = {}]
    /\ Enter(c, "removing")
    /\ UNCHANGED <<files, who, astray>>

\* Everything below directory d is gone.
Emptied(d) ==
    /\ creds' = creds \ {d}
    /\ pending' = pending \ PendingIn(d)
    /\ temp' = temp \ WritingIn(d)
    /\ UNCHANGED <<rootExists, index>>

RemoveDir(c, e) ==
    /\ stage[c] = "removing"
    /\ e \in todo[c]
    /\ todo' = [todo EXCEPT ![c] = @ \ {e}]
    /\ IF DirOf[e] \in dirs
       THEN /\ Emptied(DirOf[e])
            /\ dirs' = dirs \ {DirOf[e]}
       ELSE UNCHANGED files
    /\ UNCHANGED <<stage, who, seen, target, rewritten, astray>>

\* A login put a file into the directory while it was being removed: the
\* removal fails, and the clear ends before it has touched the index.
RemoveDirFails(c, e) ==
    /\ stage[c] = "removing"
    /\ e \in todo[c]
    /\ DirOf[e] \in dirs
    /\ Emptied(DirOf[e])
    /\ Ends(c)
    /\ UNCHANGED <<dirs, who, astray>>

\* MUTANT: the index is rewritten before every directory is removed.
ForgetEntriesEarly(c) ==
    /\ stage[c] = "removing"
    /\ StageIndex(c)
    /\ Enter(c, "staged")
    /\ UNCHANGED <<who, locals, astray>>

ForgetEntries(c) ==
    /\ stage[c] = "removing"
    /\ todo[c] = {}
    /\ StageIndex(c)
    /\ Enter(c, "staged")
    /\ UNCHANGED <<who, locals, astray>>

Remaining(c) == seen[c] \ Matching(target[c], seen[c])

\* A directory whose entry is dropped goes astray when a login holds it or
\* has saved credentials in it since the clear read the index.
Forgotten(c) ==
    /\ stage[c] = "staged"
    /\ RenameIndex(c, Remaining(c))
    /\ Enter(c, "cleared")
    /\ Abandon(c)
    /\ astray' = (astray \cup LosesTo(c, Remaining(c))
                         \cup (DirsOf(index) \cap (Held \cup rewritten[c])))
                    \ DirsOf(Remaining(c))
    /\ UNCHANGED who

\* clear-oauth without a target removes the root.  A login that holds its
\* directory may save credentials there later: it is astray.
ClearAll(c) ==
    /\ stage[c] = "idle"
    /\ rootExists
    /\ rootExists' = FALSE
    /\ index' = {}
    /\ dirs' = {}
    /\ creds' = {}
    /\ pending' = {}
    /\ temp' = {}
    /\ Enter(c, "cleared")
    /\ astray' = Held
    /\ UNCHANGED <<who, locals>>

\* It ends early, by an error or because the process does: some directories
\* are gone, and the files of the root, the index among them, may be too.
ClearAllInterrupted(c, gone, withIndex) ==
    /\ stage[c] = "idle"
    /\ rootExists
    /\ gone \subseteq dirs
    /\ creds' = creds \ gone
    /\ dirs' = dirs \ gone
    /\ pending' = {p \in pending : DirOf[who[p]] \notin gone}
    /\ temp' = temp \ (UNION {WritingIn(d) : d \in gone}
                        \cup IF withIndex THEN {p \in Procs : stage[p] = "staged"} ELSE {})
    /\ index' = IF withIndex THEN {} ELSE index
    /\ astray' = IF withIndex THEN astray \cup Held \cup creds' ELSE astray
    /\ UNCHANGED <<rootExists, stage, who, locals>>

Clear(c) ==
    \/ \E t \in Targets : ClearBegin(c, t)
    \/ \E e \in Entries : RemoveDir(c, e) \/ RemoveDirFails(c, e)
    \/ ClearNothing(c) \/ ForgetEntries(c) \/ Forgotten(c) \/ RenameFails(c)
    \/ ClearAll(c)
    \/ \E gone \in SUBSET Dirs, withIndex \in BOOLEAN : ClearAllInterrupted(c, gone, withIndex)

-----------------------------------------------------------------------------

\* A process ends: a login that is refused, is answered with an error or a
\* malformed request, or finds its state gone; a process that is killed, at
\* any point; a clear or a client that is done.  Its temporary file stays,
\* under a name nobody looks for.  Another process takes its place.
End(p) ==
    /\ stage[p] # "idle"
    /\ Ends(p)
    /\ temp' = temp \ {p}
    /\ pending' = pending \ {p}
    /\ UNCHANGED <<rootExists, index, dirs, creds, who, astray>>

StoreNext ==
    \/ \E p \in Logins : Login(p)
    \/ \E c \in Clears : Clear(c)
    \/ \E p \in Procs : End(p)

StoreSpec == StoreInit /\ [][StoreNext]_storeVars

-----------------------------------------------------------------------------

\* Types, and that files are only in directories that exist.
StoreTypeOK ==
    /\ rootExists \in BOOLEAN
    /\ index \subseteq Entries
    /\ dirs \subseteq Dirs
    /\ creds \subseteq dirs
    /\ pending \subseteq Logins
    /\ temp \subseteq Procs
    /\ stage \in [Procs -> {"idle", "read", "staged", "removing", "cleared"} \cup Holding]
    /\ who \in [Logins -> Entries]
    /\ seen \in [Procs -> SUBSET Entries]
    /\ target \in [Procs -> Targets \cup {Nothing}]
    /\ todo \in [Procs -> SUBSET Entries]
    /\ rewritten \in [Procs -> SUBSET Dirs]
    /\ astray \subseteq Dirs

\* Stored credentials can be found through the index, and so cleared by name
\* or uri, whenever and wherever a process ended: a login writes its entry
\* before it saves credentials, a clear removes credentials before the entry
\* (oauth.rs:503-552, connect.rs:395-484).  Excepted are the directories whose
\* entry was dropped by an overlapping update of the index, by a clear while
\* a login was using it, or by a clear of everything that was interrupted.
StoredIsFindable == creds \subseteq DirsOf(index) \cup astray

\* When clear-oauth with a target succeeds, the credentials of every entry it
\* found are gone, unless they were saved after it had read the index: also
\* when entries share a directory, when others log in meanwhile and when an
\* earlier clear ended half way (oauth.rs:523-552).
ClearedIsGone ==
    [][\A c \in Clears : Forgotten(c) =>
          DirsOf(Matching(target[c], seen[c])) \cap creds' \subseteq rewritten[c]]_storeVars
=============================================================================
