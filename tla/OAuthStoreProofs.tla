-------------------------- MODULE OAuthStoreProofs --------------------------
(***************************************************************************)
(* Proofs of OAuthStore's safety for any number of processes and entries,  *)
(* and any assignment of directories to entries, also one that two entries *)
(* share.  A login that may still save credentials holds a directory, and  *)
(* HeldInv says that the directory is findable before anything is in it;   *)
(* ClearInv says what a clear has done of what it found.                   *)
(***************************************************************************)
EXTENDS OAuthStore, TLAPS

\* A directory of the store somebody may look for.
Findable == DirsOf(index) \cup astray

HeldInv == Held \subseteq Findable

\* A temporary file of credentials is in a directory that exists.
TempInv ==
    \A p \in temp \cap Logins :
        stage[p] \in {"saving", "renewing"} => DirOf[who[p]] \in dirs

\* What a clear has dealt with holds no credentials but later ones.
ClearInv ==
    \A c \in Clears : stage[c] \in {"removing", "staged"} =>
        /\ target[c] # Nothing
        /\ stage[c] = "staged" => todo[c] = {}
        /\ DirsOf(Matching(target[c], seen[c]) \ todo[c]) \cap creds \subseteq rewritten[c]

IInv ==
    /\ StoreTypeOK
    /\ TempInv
    /\ HeldInv
    /\ ClearInv
    /\ StoredIsFindable

USE DirOfAssumption, ProcsAssumption, NothingAssumption DEF Entries, Procs, Targets

-----------------------------------------------------------------------------
LEMMA InitInv == StoreInit => IInv
<1> SUFFICES ASSUME StoreInit PROVE IInv
  OBVIOUS
<1> USE DEF StoreInit
<1>1. StoreTypeOK
  BY DEF StoreTypeOK
<1>2. TempInv /\ HeldInv /\ ClearInv /\ StoredIsFindable
  BY DEF TempInv, HeldInv, Held, Holding, ClearInv, StoredIsFindable, DirsOf
<1>. QED
  BY <1>1, <1>2 DEF IInv

-----------------------------------------------------------------------------
\* Types are kept, and credentials are only in directories that exist.
LEMMA TypeStep ==
    ASSUME StoreTypeOK, TempInv, [StoreNext]_storeVars
    PROVE  StoreTypeOK'
<1> USE DEF StoreTypeOK, Enter, Abandon, Ends, Holding, files, locals
<1>1. ASSUME NEW p \in Logins, Login(p) PROVE StoreTypeOK'
  <2>1. CASE ReadIndex(p)
    BY <2>1 DEF ReadIndex
  <2>2. CASE Remember(p)
    BY <2>2 DEF Remember, StageIndex
  <2>3. CASE Indexed(p)
    <3>1. Remembered(p) \subseteq Entries
      BY DEF Remembered
    <3>2. DirsOf(index \ seen[p]) \subseteq Dirs
      BY DEF DirsOf
    <3>. QED
      BY <2>3, <3>1, <3>2 DEF Indexed, RenameIndex, LosesTo
  <2>4. CASE RenameFails(p)
    BY <2>4 DEF RenameFails
  <2>5. CASE UseStored(p)
    BY <2>5 DEF UseStored
  <2>6. CASE Authorize(p)
    BY <2>6 DEF Authorize
  <2>7. CASE Redeem(p)
    BY <2>7 DEF Redeem
  <2>8. CASE StageCredentials(p)
    BY <2>8 DEF StageCredentials
  <2>9. CASE SaveCredentials(p)
    <3>1. DirOf[who[p]] \in dirs /\ DirOf[who[p]] \in Dirs
      BY <2>9 DEF SaveCredentials, TempInv
    <3>. QED
      BY <2>9, <3>1 DEF SaveCredentials
  <2>10. CASE SaveFails(p)
    BY <2>10 DEF SaveFails
  <2>. QED
    BY <1>1, <2>1, <2>2, <2>3, <2>4, <2>5, <2>6, <2>7, <2>8, <2>9, <2>10 DEF Login
<1>2. ASSUME NEW c \in Clears, Clear(c) PROVE StoreTypeOK'
  <2>1. ASSUME NEW t \in Targets, ClearBegin(c, t) PROVE StoreTypeOK'
    BY <2>1 DEF ClearBegin, Matching
  <2>2. ASSUME NEW e \in Entries, RemoveDir(c, e) PROVE StoreTypeOK'
    <3>1. CASE DirOf[e] \in dirs
      BY <2>2, <3>1 DEF RemoveDir, Emptied
    <3>2. CASE DirOf[e] \notin dirs
      BY <2>2, <3>2 DEF RemoveDir
    <3>. QED
      BY <3>1, <3>2
  <2>3. ASSUME NEW e \in Entries, RemoveDirFails(c, e) PROVE StoreTypeOK'
    BY <2>3 DEF RemoveDirFails, Emptied
  <2>4. CASE ClearNothing(c)
    BY <2>4 DEF ClearNothing
  <2>5. CASE ForgetEntries(c)
    BY <2>5 DEF ForgetEntries, StageIndex
  <2>6. CASE Forgotten(c)
    <3>1. Remaining(c) \subseteq Entries
      BY DEF Remaining
    <3>2. DirsOf(index \ seen[c]) \subseteq Dirs /\ DirsOf(index) \subseteq Dirs
      BY DEF DirsOf
    <3>. QED
      BY <2>6, <3>1, <3>2 DEF Forgotten, RenameIndex, LosesTo
  <2>7. CASE RenameFails(c)
    BY <2>7 DEF RenameFails
  <2>8. CASE ClearAll(c)
    <3>1. Held \subseteq Dirs
      BY DEF Held
    <3>. QED
      BY <2>8, <3>1 DEF ClearAll
  <2>9. ASSUME NEW gone \in SUBSET Dirs, NEW withIndex \in BOOLEAN,
               ClearAllInterrupted(c, gone, withIndex)
        PROVE  StoreTypeOK'
    <3>1. Held \subseteq Dirs
      BY DEF Held
    <3>. QED
      BY <2>9, <3>1 DEF ClearAllInterrupted
  <2>. QED
    BY <1>2, <2>1, <2>2, <2>3, <2>4, <2>5, <2>6, <2>7, <2>8, <2>9 DEF Clear
<1>3. ASSUME NEW p \in Procs, End(p) PROVE StoreTypeOK'
  BY <1>3 DEF End
<1>4. CASE UNCHANGED storeVars
  BY <1>4 DEF storeVars
<1>. QED
  BY <1>1, <1>2, <1>3, <1>4 DEF StoreNext

-----------------------------------------------------------------------------
\* The steps that change no file but by removing some, and hold no more.
LEMMA TempStep ==
    ASSUME StoreTypeOK, TempInv, [StoreNext]_storeVars
    PROVE  TempInv'
<1> USE DEF StoreTypeOK, TempInv, Enter, Ends, files, locals
<1>1. ASSUME NEW p \in Logins, Login(p) PROVE TempInv'
  <2>1. CASE ReadIndex(p)
    BY <2>1 DEF ReadIndex
  <2>2. CASE Remember(p)
    BY <2>2 DEF Remember, StageIndex
  <2>3. CASE Indexed(p)
    BY <2>3 DEF Indexed, RenameIndex
  <2>4. CASE RenameFails(p)
    BY <2>4 DEF RenameFails
  <2>5. CASE UseStored(p)
    BY <2>5 DEF UseStored
  <2>6. CASE Authorize(p)
    BY <2>6 DEF Authorize
  <2>7. CASE Redeem(p)
    BY <2>7 DEF Redeem
  <2>8. CASE StageCredentials(p)
    BY <2>8 DEF StageCredentials
  <2>9. CASE SaveCredentials(p)
    BY <2>9 DEF SaveCredentials
  <2>10. CASE SaveFails(p)
    BY <2>10 DEF SaveFails
  <2>. QED
    BY <1>1, <2>1, <2>2, <2>3, <2>4, <2>5, <2>6, <2>7, <2>8, <2>9, <2>10 DEF Login
<1>2. ASSUME NEW c \in Clears, Clear(c) PROVE TempInv'
  <2>1. ASSUME NEW t \in Targets, ClearBegin(c, t) PROVE TempInv'
    BY <2>1 DEF ClearBegin
  <2>2. ASSUME NEW e \in Entries, RemoveDir(c, e) PROVE TempInv'
    <3>1. CASE DirOf[e] \in dirs
      BY <2>2, <3>1 DEF RemoveDir, Emptied, WritingIn
    <3>2. CASE DirOf[e] \notin dirs
      BY <2>2, <3>2 DEF RemoveDir
    <3>. QED
      BY <3>1, <3>2
  <2>3. ASSUME NEW e \in Entries, RemoveDirFails(c, e) PROVE TempInv'
    BY <2>3 DEF RemoveDirFails, Emptied
  <2>4. CASE ClearNothing(c)
    BY <2>4 DEF ClearNothing
  <2>5. CASE ForgetEntries(c)
    BY <2>5 DEF ForgetEntries, StageIndex
  <2>6. CASE Forgotten(c)
    BY <2>6 DEF Forgotten, RenameIndex
  <2>7. CASE RenameFails(c)
    BY <2>7 DEF RenameFails
  <2>8. CASE ClearAll(c)
    BY <2>8 DEF ClearAll
  <2>9. ASSUME NEW gone \in SUBSET Dirs, NEW withIndex \in BOOLEAN,
               ClearAllInterrupted(c, gone, withIndex)
        PROVE  TempInv'
    <3> SUFFICES ASSUME NEW q \in temp' \cap Logins, stage'[q] \in {"saving", "renewing"}
                 PROVE  DirOf[who'[q]] \in dirs'
      OBVIOUS
    <3>1. q \in temp /\ stage[q] = stage'[q] /\ who' = who /\ dirs' = dirs \ gone
      BY <2>9 DEF ClearAllInterrupted
    <3>2. DirOf[who[q]] \notin gone
      <4>1. \A d \in gone : q \notin WritingIn(d)
        BY <2>9 DEF ClearAllInterrupted
      <4>. QED
        BY <3>1, <4>1 DEF WritingIn
    <3>. QED
      BY <3>1, <3>2
  <2>. QED
    BY <1>2, <2>1, <2>2, <2>3, <2>4, <2>5, <2>6, <2>7, <2>8, <2>9 DEF Clear
<1>3. ASSUME NEW p \in Procs, End(p) PROVE TempInv'
  BY <1>3 DEF End
<1>4. CASE UNCHANGED storeVars
  BY <1>4 DEF storeVars
<1>. QED
  BY <1>1, <1>2, <1>3, <1>4 DEF StoreNext

-----------------------------------------------------------------------------
\* A step of one process leaves what the others hold.
LEMMA HeldBy ==
    ASSUME StoreTypeOK, NEW p \in Procs, NEW at, Enter(p, at), who' = who
    PROVE  /\ at \notin Holding => Held' \subseteq Held
           /\ p \in Logins => Held' \subseteq Held \cup {DirOf[who[p]]}
           /\ p \in Logins /\ stage[p] \in Holding => Held' \subseteq Held
           /\ p \in Clears => Held' = Held
  BY DEF StoreTypeOK, Enter, Held

\* What is held or holds credentials is findable: a step that only adds to
\* what is findable, and makes nobody hold more nor saves anything, keeps this.
LEMMA FindableKept ==
    ASSUME HeldInv, StoredIsFindable, Held' \subseteq Held, creds' \subseteq creds,
           index' = index, astray' = astray
    PROVE  HeldInv' /\ StoredIsFindable'
  BY DEF HeldInv, StoredIsFindable, Findable, DirsOf

LEMMA FindableStep ==
    ASSUME StoreTypeOK, HeldInv, StoredIsFindable, ClearInv, [StoreNext]_storeVars
    PROVE  HeldInv' /\ StoredIsFindable'
<1> USE DEF files, locals
<1>1. ASSUME NEW p \in Logins, Login(p) PROVE HeldInv' /\ StoredIsFindable'
  <2>1. CASE ReadIndex(p)
    BY <2>1, HeldBy, FindableKept DEF ReadIndex, Holding
  <2>2. CASE Remember(p)
    BY <2>2, HeldBy, FindableKept DEF Remember, StageIndex, Holding
  <2>3. CASE Indexed(p)
    <3>1. Held' \subseteq Held \cup {DirOf[who[p]]} /\ creds' = creds
      BY <2>3, HeldBy DEF Indexed, RenameIndex
    <3>2. index' = Remembered(p) /\ DirOf[who[p]] \in DirsOf(Remembered(p))
      BY <2>3 DEF Indexed, RenameIndex, Remembered, DirsOf
    <3>3. DirsOf(index) \subseteq DirsOf(Remembered(p)) \cup LosesTo(p, Remembered(p))
      BY DEF Remembered, DirsOf, LosesTo
    <3>4. Findable \subseteq Findable'
      BY <2>3, <3>2, <3>3 DEF Findable, Indexed, DirsOf
    <3>5. DirOf[who[p]] \in Findable'
      BY <3>2 DEF Findable, DirsOf
    <3>. QED
      BY <3>1, <3>4, <3>5 DEF HeldInv, StoredIsFindable, Findable
  <2>4. CASE RenameFails(p)
    BY <2>4, HeldBy, FindableKept DEF RenameFails, Ends, Holding
  <2>5. CASE UseStored(p)
    BY <2>5, HeldBy, FindableKept DEF UseStored, Holding
  <2>6. CASE Authorize(p)
    BY <2>6, HeldBy, FindableKept DEF Authorize, Holding
  <2>7. CASE Redeem(p)
    BY <2>7, HeldBy, FindableKept DEF Redeem, Holding
  <2>8. CASE StageCredentials(p)
    BY <2>8, HeldBy, FindableKept DEF StageCredentials, Holding
  <2>9. CASE SaveCredentials(p)
    <3>1. Held' \subseteq Held /\ creds' = creds \cup {DirOf[who[p]]}
      BY <2>9, HeldBy DEF SaveCredentials, Holding
    <3>2. index' = index /\ astray' = astray
      BY <2>9 DEF SaveCredentials
    <3>3. DirOf[who[p]] \in Held
      BY <2>9 DEF SaveCredentials, Held, Holding
    <3>. QED
      BY <3>1, <3>2, <3>3 DEF HeldInv, StoredIsFindable, Findable, DirsOf
  <2>10. CASE SaveFails(p)
    BY <2>10, HeldBy, FindableKept DEF SaveFails, Holding
  <2>. QED
    BY <1>1, <2>1, <2>2, <2>3, <2>4, <2>5, <2>6, <2>7, <2>8, <2>9, <2>10 DEF Login
<1>2. ASSUME NEW c \in Clears, Clear(c) PROVE HeldInv' /\ StoredIsFindable'
  <2>1. ASSUME NEW t \in Targets, ClearBegin(c, t) PROVE HeldInv' /\ StoredIsFindable'
    BY <2>1, HeldBy, FindableKept DEF ClearBegin
  <2>2. ASSUME NEW e \in Entries, RemoveDir(c, e) PROVE HeldInv' /\ StoredIsFindable'
    <3>1. stage' = stage /\ who' = who /\ index' = index /\ astray' = astray /\ creds' \subseteq creds
      BY <2>2 DEF RemoveDir, Emptied
    <3>2. Held' = Held
      BY <3>1 DEF Held
    <3>. QED
      BY <3>1, <3>2, FindableKept
  <2>3. ASSUME NEW e \in Entries, RemoveDirFails(c, e) PROVE HeldInv' /\ StoredIsFindable'
    BY <2>3, HeldBy, FindableKept DEF RemoveDirFails, Emptied, Ends
  <2>4. CASE ClearNothing(c)
    BY <2>4, HeldBy, FindableKept DEF ClearNothing
  <2>5. CASE ForgetEntries(c)
    BY <2>5, HeldBy, FindableKept DEF ForgetEntries, StageIndex
  <2>6. CASE Forgotten(c)
    <3>1. Held' = Held /\ creds' = creds /\ index' = Remaining(c)
      BY <2>6, HeldBy DEF Forgotten, RenameIndex
    <3>2. ASSUME NEW d \in Held \cup creds PROVE d \in DirsOf(Remaining(c)) \cup astray'
      <4>1. CASE d \in astray
        BY <2>6, <4>1 DEF Forgotten
      <4>2. CASE d \notin astray
        <5>1. PICK e \in index : DirOf[e] = d
          BY <3>2, <4>2 DEF HeldInv, StoredIsFindable, Findable, DirsOf
        <5>2. CASE e \notin seen[c]
          BY <2>6, <5>1, <5>2 DEF Forgotten, LosesTo, DirsOf
        <5>3. CASE e \in seen[c] /\ e \notin Matching(target[c], seen[c])
          BY <5>1, <5>3 DEF Remaining, DirsOf
        <5>4. CASE e \in Matching(target[c], seen[c])
          <6>1. d \in DirsOf(Matching(target[c], seen[c])) /\ d \in DirsOf(index)
            BY <5>1, <5>4 DEF DirsOf
          <6>2. Matching(target[c], seen[c]) \ todo[c] = Matching(target[c], seen[c])
            BY <2>6 DEF Forgotten, ClearInv
          <6>3. d \in creds => d \in rewritten[c]
            BY <2>6, <6>1, <6>2 DEF Forgotten, ClearInv
          <6>. QED
            BY <2>6, <3>2, <6>1, <6>3 DEF Forgotten
        <5>. QED
          BY <5>2, <5>3, <5>4
      <4>. QED
        BY <4>1, <4>2
    <3>. QED
      BY <3>1, <3>2 DEF HeldInv, StoredIsFindable, Findable, DirsOf
  <2>7. CASE RenameFails(c)
    BY <2>7, HeldBy, FindableKept DEF RenameFails, Ends
  <2>8. CASE ClearAll(c)
    <3>1. Held' = Held /\ creds' = {} /\ astray' = Held
      BY <2>8, HeldBy DEF ClearAll
    <3>. QED
      BY <3>1 DEF HeldInv, StoredIsFindable, Findable
  <2>9. ASSUME NEW gone \in SUBSET Dirs, NEW withIndex \in BOOLEAN,
               ClearAllInterrupted(c, gone, withIndex)
        PROVE  HeldInv' /\ StoredIsFindable'
    <3>1. Held' = Held /\ creds' \subseteq creds
      BY <2>9 DEF ClearAllInterrupted, Held
    <3>2. CASE withIndex
      BY <2>9, <3>1, <3>2 DEF ClearAllInterrupted, HeldInv, StoredIsFindable, Findable
    <3>3. CASE ~withIndex
      BY <2>9, <3>1, <3>3, FindableKept DEF ClearAllInterrupted
    <3>. QED
      BY <3>2, <3>3
  <2>. QED
    BY <1>2, <2>1, <2>2, <2>3, <2>4, <2>5, <2>6, <2>7, <2>8, <2>9 DEF Clear
<1>3. ASSUME NEW p \in Procs, End(p) PROVE HeldInv' /\ StoredIsFindable'
  BY <1>3, HeldBy, FindableKept DEF End, Ends, Holding
<1>4. CASE UNCHANGED storeVars
  <2>1. Held' = Held
    BY <1>4 DEF storeVars, Held
  <2>. QED
    BY <1>4, <2>1, FindableKept DEF storeVars
<1>. QED
  BY <1>1, <1>2, <1>3, <1>4 DEF StoreNext

-----------------------------------------------------------------------------
\* A step that leaves the clears alone and saves nothing.
LEMMA ClearKept ==
    ASSUME ClearInv, creds' \subseteq creds,
           \A c \in Clears : /\ stage'[c] = stage[c] \/ stage'[c] \notin {"removing", "staged"}
                            /\ target'[c] = target[c]
                            /\ seen'[c] = seen[c]
                            /\ todo'[c] = todo[c]
                            /\ rewritten'[c] = rewritten[c]
    PROVE  ClearInv'
<1> SUFFICES ASSUME NEW c \in Clears, stage'[c] \in {"removing", "staged"}
             PROVE  /\ target'[c] # Nothing
                    /\ stage'[c] = "staged" => todo'[c] = {}
                    /\ DirsOf(Matching(target'[c], seen'[c]) \ todo'[c]) \cap creds'
                          \subseteq rewritten'[c]
  BY DEF ClearInv, Matching, DirsOf
<1>1. stage'[c] = stage[c]
  OBVIOUS
<1>. QED
  BY <1>1 DEF ClearInv

LEMMA ClearStep ==
    ASSUME StoreTypeOK, ClearInv, [StoreNext]_storeVars
    PROVE  ClearInv'
<1> USE DEF files, locals, Enter, Abandon, Ends
<1>1. ASSUME NEW p \in Logins, Login(p) PROVE ClearInv'
  <2>1. CASE ReadIndex(p)
    BY <2>1, ClearKept DEF StoreTypeOK, ReadIndex
  <2>2. CASE Remember(p)
    BY <2>2, ClearKept DEF StoreTypeOK, Remember, StageIndex
  <2>3. CASE Indexed(p)
    BY <2>3, ClearKept DEF StoreTypeOK, Indexed, RenameIndex
  <2>4. CASE RenameFails(p)
    BY <2>4, ClearKept DEF StoreTypeOK, RenameFails
  <2>5. CASE UseStored(p)
    BY <2>5, ClearKept DEF StoreTypeOK, UseStored
  <2>6. CASE Authorize(p)
    BY <2>6, ClearKept DEF StoreTypeOK, Authorize
  <2>7. CASE Redeem(p)
    BY <2>7, ClearKept DEF StoreTypeOK, Redeem
  <2>8. CASE StageCredentials(p)
    BY <2>8, ClearKept DEF StoreTypeOK, StageCredentials
  <2>9. CASE SaveCredentials(p)
    <3> SUFFICES ASSUME NEW c \in Clears, stage'[c] \in {"removing", "staged"}
                 PROVE  /\ target'[c] # Nothing
                        /\ stage'[c] = "staged" => todo'[c] = {}
                        /\ DirsOf(Matching(target'[c], seen'[c]) \ todo'[c]) \cap creds'
                              \subseteq rewritten'[c]
      BY DEF ClearInv, Matching, DirsOf
    <3>1. stage'[c] = stage[c] /\ UNCHANGED <<target, seen, todo>>
      BY <2>9 DEF StoreTypeOK, SaveCredentials
    <3>2. target[c] # Nothing /\ (stage[c] = "staged" => todo[c] = {})
      BY <3>1 DEF ClearInv
    <3>3. creds' = creds \cup {DirOf[who[p]]}
      BY <2>9 DEF SaveCredentials
    <3>4. rewritten'[c] = rewritten[c] \cup {DirOf[who[p]]}
      BY <2>9, <3>2 DEF SaveCredentials
    <3>. QED
      BY <3>1, <3>2, <3>3, <3>4 DEF ClearInv
  <2>10. CASE SaveFails(p)
    BY <2>10, ClearKept DEF StoreTypeOK, SaveFails
  <2>. QED
    BY <1>1, <2>1, <2>2, <2>3, <2>4, <2>5, <2>6, <2>7, <2>8, <2>9, <2>10 DEF Login
<1>2. ASSUME NEW c \in Clears, Clear(c) PROVE ClearInv'
  <2>1. ASSUME NEW t \in Targets, ClearBegin(c, t) PROVE ClearInv'
    <3>1. Matching(t, index) \ todo'[c] = {} /\ target'[c] = t /\ seen'[c] = index
          /\ stage'[c] = "removing"
      BY <2>1 DEF StoreTypeOK, ClearBegin
    <3>2. \A b \in Clears \ {c} : /\ stage'[b] = stage[b] /\ target'[b] = target[b]
                                  /\ seen'[b] = seen[b] /\ todo'[b] = todo[b]
                                  /\ rewritten'[b] = rewritten[b]
      BY <2>1 DEF StoreTypeOK, ClearBegin
    <3>3. creds' = creds
      BY <2>1 DEF ClearBegin
    <3>. QED
      BY <3>1, <3>2, <3>3 DEF ClearInv, DirsOf, Matching
  <2>2. ASSUME NEW e \in Entries, RemoveDir(c, e) PROVE ClearInv'
    <3>1. /\ stage[c] = "removing"
          /\ UNCHANGED <<stage, target, seen, rewritten>>
          /\ todo'[c] = todo[c] \ {e}
          /\ \A b \in Clears \ {c} : todo'[b] = todo[b]
      BY <2>2 DEF StoreTypeOK, RemoveDir
    <3>2. creds' \subseteq creds /\ DirOf[e] \notin creds'
      BY <2>2 DEF StoreTypeOK, RemoveDir, Emptied
    <3>3. DirsOf(Matching(target[c], seen[c]) \ todo'[c]) \cap creds'
             \subseteq DirsOf(Matching(target[c], seen[c]) \ todo[c]) \cap creds
      BY <3>1, <3>2 DEF DirsOf
    <3>. QED
      BY <3>1, <3>2, <3>3 DEF ClearInv, Matching, DirsOf
  <2>3. ASSUME NEW e \in Entries, RemoveDirFails(c, e) PROVE ClearInv'
    BY <2>3 DEF StoreTypeOK, ClearInv, RemoveDirFails, Emptied, Matching, DirsOf
  <2>4. CASE ClearNothing(c)
    BY <2>4, ClearKept DEF StoreTypeOK, ClearNothing
  <2>5. CASE ForgetEntries(c)
    BY <2>5 DEF StoreTypeOK, ClearInv, ForgetEntries, StageIndex, Matching, DirsOf
  <2>6. CASE Forgotten(c)
    BY <2>6 DEF StoreTypeOK, ClearInv, Forgotten, RenameIndex, Matching, DirsOf
  <2>7. CASE RenameFails(c)
    BY <2>7 DEF StoreTypeOK, ClearInv, RenameFails, Matching, DirsOf
  <2>8. CASE ClearAll(c)
    BY <2>8, ClearKept DEF StoreTypeOK, ClearAll
  <2>9. ASSUME NEW gone \in SUBSET Dirs, NEW withIndex \in BOOLEAN,
               ClearAllInterrupted(c, gone, withIndex)
        PROVE  ClearInv'
    BY <2>9, ClearKept DEF ClearAllInterrupted
  <2>. QED
    BY <1>2, <2>1, <2>2, <2>3, <2>4, <2>5, <2>6, <2>7, <2>8, <2>9 DEF Clear
<1>3. ASSUME NEW p \in Procs, End(p) PROVE ClearInv'
  BY <1>3 DEF StoreTypeOK, ClearInv, End, Matching, DirsOf
<1>4. CASE UNCHANGED storeVars
  BY <1>4, ClearKept DEF storeVars
<1>. QED
  BY <1>1, <1>2, <1>3, <1>4 DEF StoreNext

-----------------------------------------------------------------------------
LEMMA Invariance == StoreSpec => []IInv
<1>1. StoreInit => IInv
  BY InitInv
<1>2. IInv /\ [StoreNext]_storeVars => IInv'
  BY TypeStep, TempStep, FindableStep, ClearStep DEF IInv
<1>. QED
  BY <1>1, <1>2, PTL DEF StoreSpec

\* Types, and that credentials are only in directories that exist.
THEOREM TypeCorrect == StoreSpec => []StoreTypeOK
<1>1. IInv => StoreTypeOK
  BY DEF IInv
<1>. QED
  BY <1>1, Invariance, PTL

\* Wherever a process ends, stored credentials are findable through the
\* index, but for the directories that went astray (oauth.rs:503-552).
THEOREM Findability == StoreSpec => []StoredIsFindable
<1>1. IInv => StoredIsFindable
  BY DEF IInv
<1>. QED
  BY <1>1, Invariance, PTL

\* A clear that succeeds has removed the credentials of every entry it found,
\* but for those saved since it read the index (oauth.rs:523-552).
THEOREM Clearing == StoreSpec => ClearedIsGone
<1>1. IInv /\ [StoreNext]_storeVars =>
         [\A c \in Clears : Forgotten(c) =>
            DirsOf(Matching(target[c], seen[c])) \cap creds' \subseteq rewritten[c]]_storeVars
  <2> SUFFICES ASSUME IInv, NEW c \in Clears, Forgotten(c)
               PROVE  DirsOf(Matching(target[c], seen[c])) \cap creds' \subseteq rewritten[c]
    OBVIOUS
  <2>1. stage[c] = "staged" /\ creds' = creds
    BY DEF Forgotten, RenameIndex
  <2>2. Matching(target[c], seen[c]) \ todo[c] = Matching(target[c], seen[c])
    BY <2>1 DEF IInv, ClearInv
  <2>. QED
    BY <2>1, <2>2 DEF IInv, ClearInv
<1>. QED
  BY <1>1, Invariance, PTL DEF StoreSpec, ClearedIsGone
=============================================================================
