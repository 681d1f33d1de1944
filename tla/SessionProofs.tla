---------------------------- MODULE SessionProofs ----------------------------
(***************************************************************************)
(* Proofs that Session keeps its safety properties for any number of       *)
(* calls, keys, backends, permits and credential rotations.  The layers of *)
(* IInv are proved one upon the other.                                     *)
(***************************************************************************)
EXTENDS Session, TLAPS

USE SessionAssumption
USE DEF Refreshing, Requested, Dispatched, answers, serverVars, authVars, closeVars,
        history, At, Goto, Finish, Key

-----------------------------------------------------------------------------
(* One lemma per layer: every action preserves it. *)

\* Every step keeps the types, the lock's holder and the permits in order.
LEMMA TypeOKStep ==
    ASSUME TypeOK, [Next]_vars
    PROVE  TypeOK'
<1>1. ASSUME NEW c \in Calls, NEW r \in Requests, Call(c, r) PROVE TypeOK'
  BY <1>1 DEF Call, Dispatch, TypeOK, HeldOK, Requests, Originals, Pcs, Outcomes
<1>2. ASSUME NEW c \in Calls, Unauthorized(c) PROVE TypeOK'
  BY <1>2 DEF Unauthorized, TypeOK, HeldOK, Requests, Originals, Pcs, Outcomes
<1>3. ASSUME NEW c \in Calls, LockRefresh(c) PROVE TypeOK'
  BY <1>3 DEF LockRefresh, TypeOK, HeldOK, Requests, Originals, Pcs, Outcomes
<1>4. ASSUME NEW c \in Calls, DisableCache(c) PROVE TypeOK'
  BY <1>4 DEF DisableCache, TypeOK, HeldOK, Requests, Originals, Pcs, Outcomes
<1>5. ASSUME NEW c \in Calls, ClearCache(c) PROVE TypeOK'
  BY <1>5 DEF ClearCache, TypeOK, HeldOK, Requests, Originals, Pcs, Outcomes
<1>6. ASSUME NEW c \in Calls, HookAnswers(c) PROVE TypeOK'
  BY <1>6 DEF HookAnswers, TypeOK, HeldOK, Requests, Originals, Pcs, Outcomes
<1>7. ASSUME NEW c \in Calls, HookApplies(c) PROVE TypeOK'
  BY <1>7 DEF HookApplies, Dispatch, TypeOK, HeldOK, Requests, Originals, Pcs, Outcomes
<1>8. ASSUME NEW c \in Calls, HookFails(c) PROVE TypeOK'
  BY <1>8 DEF HookFails, TypeOK, HeldOK, Requests, Originals, Pcs, Outcomes
<1>9. ASSUME NEW c \in Calls, Lookup(c) PROVE TypeOK'
  BY <1>9 DEF Lookup, TypeOK, HeldOK, Requests, Originals, Pcs, Outcomes
<1>10. ASSUME NEW c \in Calls, CacheGet(c) PROVE TypeOK'
  <2>1. CASE cache[Key(c)] # None
    <3>1. /\ At(c, "cached") /\ Finish(c, "recovered")
          /\ UNCHANGED <<config, request, serverVars, authVars, closeVars, history>>
      BY <1>10, <2>1 DEF CacheGet
    <3>. QED
      BY <2>1, <3>1 DEF TypeOK, HeldOK, Requests, Originals, Pcs, Outcomes
  <2>2. CASE cache[Key(c)] = None
    <3>1. /\ At(c, "cached") /\ Goto(c, "remove") /\ UNCHANGED answers
          /\ UNCHANGED <<config, request, serverVars, authVars, closeVars, history>>
      BY <1>10, <2>2 DEF CacheGet
    <3>. QED
      BY <2>2, <3>1 DEF TypeOK, HeldOK, Requests, Originals, Pcs, Outcomes
  <2>. QED
    BY <1>10, <2>1, <2>2 DEF CacheGet
<1>11. ASSUME NEW c \in Calls, RemoveOld(c) PROVE TypeOK'
  BY <1>11 DEF RemoveOld, TypeOK, HeldOK, Requests, Originals, Pcs, Outcomes
<1>12. ASSUME NEW c \in Calls, Send(c) PROVE TypeOK'
  BY <1>12 DEF Send, Identity, TypeOK, HeldOK, Requests, Originals, Pcs, Outcomes
<1>13. ASSUME NEW c \in Calls, InvocationFails(c) PROVE TypeOK'
  BY <1>13 DEF InvocationFails, TypeOK, HeldOK, Requests, Originals, Pcs, Outcomes
<1>14. ASSUME NEW c \in Calls, BackendReplies(c) PROVE TypeOK'
  <2>1. CASE Finish(c, "answered")
    <3>1. /\ At(c, "backend") /\ Finish(c, "answered")
          /\ UNCHANGED <<config, request, serverVars, authVars, closeVars, history>>
      BY <1>14, <2>1 DEF BackendReplies
    <3>. QED
      BY <2>1, <3>1 DEF TypeOK, HeldOK, Requests, Originals, Pcs, Outcomes
  <2>2. CASE Goto(c, "permit") /\ UNCHANGED answers
    <3>1. /\ At(c, "backend") /\ Goto(c, "permit") /\ UNCHANGED answers
          /\ UNCHANGED <<config, request, serverVars, authVars, closeVars, history>>
      BY <1>14, <2>2 DEF BackendReplies
    <3>. QED
      BY <2>2, <3>1 DEF TypeOK, HeldOK, Requests, Originals, Pcs, Outcomes
  <2>. QED
    BY <1>14, <2>1, <2>2 DEF BackendReplies
<1>15. ASSUME NEW c \in Calls, AcquirePermit(c) PROVE TypeOK'
  BY <1>15 DEF AcquirePermit, TypeOK, HeldOK, Requests, Originals, Pcs, Outcomes
<1>16. ASSUME NEW c \in Calls, JobEnds(c) PROVE TypeOK'
  <2>1. CASE At(c, "shrink") /\ Finish(c, "answered")
    <3>1. /\ At(c, "shrink") /\ Finish(c, "answered")
          /\ c \in jobs /\ jobs' = jobs \ {c}
          /\ UNCHANGED <<config, request, enabled, cache, authVars, closeVars, history>>
      BY <1>16, <2>1 DEF JobEnds
    <3>. QED
      BY <2>1, <3>1, SMTT(60) DEF TypeOK, HeldOK, Requests, Originals, Pcs, Outcomes
  <2>2. CASE At(c, "shrink") /\ Finish(c, "failed")
    <3>1. /\ At(c, "shrink") /\ Finish(c, "failed")
          /\ c \in jobs /\ jobs' = jobs \ {c}
          /\ UNCHANGED <<config, request, enabled, cache, authVars, closeVars, history>>
      BY <1>16, <2>2 DEF JobEnds
    <3>. QED
      BY <2>2, <3>1, SMTT(60) DEF TypeOK, HeldOK, Requests, Originals, Pcs, Outcomes
  <2>3. CASE At(c, "shrink") /\ config.mode = "memory" /\ Goto(c, "condensed") /\ UNCHANGED answers
    <3>1. /\ At(c, "shrink") /\ Goto(c, "condensed") /\ UNCHANGED answers
          /\ c \in jobs /\ jobs' = jobs \ {c}
          /\ UNCHANGED <<config, request, enabled, cache, authVars, closeVars, history>>
      BY <1>16, <2>3 DEF JobEnds
    <3>. QED
      BY <2>3, <3>1 DEF TypeOK, HeldOK, Requests, Originals, Pcs, Outcomes
  <2>4. CASE ~At(c, "shrink") /\ UNCHANGED <<pc, answers>>
    <3>1. /\ ~At(c, "shrink") /\ UNCHANGED <<pc, answers>>
          /\ c \in jobs /\ jobs' = jobs \ {c}
          /\ UNCHANGED <<config, request, enabled, cache, authVars, closeVars, history>>
      BY <1>16, <2>4 DEF JobEnds
    <3>. QED
      BY <2>4, <3>1 DEF TypeOK, HeldOK, Requests, Originals, Pcs, Outcomes
  <2>. QED
    BY <1>16, <2>1, <2>2, <2>3, <2>4 DEF JobEnds
<1>17. ASSUME NEW c \in Calls, CheckInsert(c) PROVE TypeOK'
  <2>1. CASE enabled
    <3>1. /\ At(c, "condensed") /\ Goto(c, "insert") /\ UNCHANGED answers
          /\ UNCHANGED <<config, request, serverVars, authVars, closeVars, history>>
      BY <1>17, <2>1 DEF CheckInsert
    <3>. QED
      BY <2>1, <3>1 DEF TypeOK, HeldOK, Requests, Originals, Pcs, Outcomes
  <2>2. CASE ~enabled
    <3>1. /\ At(c, "condensed") /\ Finish(c, "answered")
          /\ UNCHANGED <<config, request, serverVars, authVars, closeVars, history>>
      BY <1>17, <2>2 DEF CheckInsert
    <3>. QED
      BY <2>2, <3>1 DEF TypeOK, HeldOK, Requests, Originals, Pcs, Outcomes
  <2>. QED
    BY <1>17, <2>1, <2>2 DEF CheckInsert
<1>18. ASSUME NEW c \in Calls, InsertOriginal(c) PROVE TypeOK'
  BY <1>18 DEF InsertOriginal, TypeOK, HeldOK, Requests, Originals, Pcs, Outcomes
<1>19. ASSUME NEW c \in Calls, Drop(c) PROVE TypeOK'
  BY <1>19 DEF Drop, TypeOK, HeldOK, Requests, Originals, Pcs, Outcomes
<1>20. CASE CloseBegins
  BY <1>20 DEF CloseBegins, TypeOK, HeldOK, Requests, Originals, Pcs, Outcomes
<1>21. CASE ListenerStops
  BY <1>21 DEF ListenerStops, TypeOK, HeldOK, Requests, Originals, Pcs, Outcomes
<1>22. CASE CloseClears
  BY <1>22 DEF CloseClears, TypeOK, HeldOK, Requests, Originals, Pcs, Outcomes
<1>23. ASSUME NEW b \in Backends, ReleaseBackend(b) PROVE TypeOK'
  BY <1>23, SMTT(60) DEF ReleaseBackend, TypeOK, HeldOK
<1>24. ASSUME NEW k \in Keys, Forget(k) PROVE TypeOK'
  BY <1>24 DEF Forget, TypeOK, HeldOK, Requests, Originals, Pcs, Outcomes
<1>25. CASE RotateCredential
  BY <1>25 DEF RotateCredential, TypeOK, HeldOK, Requests, Originals, Pcs, Outcomes
<1>26. CASE PushHeaders
  BY <1>26 DEF PushHeaders, TypeOK, HeldOK, Requests, Originals, Pcs, Outcomes
<1>27. CASE UNCHANGED vars
  BY <1>27 DEF vars, TypeOK, HeldOK, Requests, Originals, Pcs, Outcomes
<1>. QED
  BY <1>1, <1>2, <1>3, <1>4, <1>5, <1>6, <1>7, <1>8, <1>9, <1>10, <1>11, <1>12, <1>13, <1>14,
     <1>15, <1>16, <1>17, <1>18, <1>19, <1>20, <1>21, <1>22, <1>23, <1>24, <1>25, <1>26, <1>27
     DEF Next, OwnSteps, Close, Resting

\* Refreshes hand credentials on in order, because one runs at a time, and what
\* is pushed meanwhile is newer than what any call so far began with.
LEMMA CredentialStep ==
    ASSUME TypeOK, CredentialInv, IdentityInv, [Next]_vars
    PROVE  CredentialInv'
<1>1. ASSUME NEW c \in Calls, NEW r \in Requests, Call(c, r) PROVE CredentialInv'
  BY <1>1, SMTT(60) DEF Call, Dispatch, Requests, TypeOK, HeldOK, CredentialInv, IdentityInv
<1>2. ASSUME NEW c \in Calls, Unauthorized(c) PROVE CredentialInv'
  BY <1>2 DEF Unauthorized, TypeOK, HeldOK, CredentialInv
<1>3. ASSUME NEW c \in Calls, LockRefresh(c) PROVE CredentialInv'
  BY <1>3 DEF LockRefresh, TypeOK, HeldOK, CredentialInv
<1>4. ASSUME NEW c \in Calls, DisableCache(c) PROVE CredentialInv'
  BY <1>4 DEF DisableCache, TypeOK, HeldOK, CredentialInv
<1>5. ASSUME NEW c \in Calls, ClearCache(c) PROVE CredentialInv'
  BY <1>5 DEF ClearCache, TypeOK, HeldOK, CredentialInv
<1>6. ASSUME NEW c \in Calls, HookAnswers(c) PROVE CredentialInv'
  BY <1>6 DEF HookAnswers, TypeOK, HeldOK, CredentialInv
<1>7. ASSUME NEW c \in Calls, HookApplies(c) PROVE CredentialInv'
  BY <1>7 DEF HookApplies, Dispatch, TypeOK, HeldOK, CredentialInv
<1>8. ASSUME NEW c \in Calls, HookFails(c) PROVE CredentialInv'
  BY <1>8 DEF HookFails, TypeOK, HeldOK, CredentialInv
<1>9. ASSUME NEW c \in Calls, Lookup(c) PROVE CredentialInv'
  BY <1>9 DEF Lookup, TypeOK, HeldOK, CredentialInv
<1>10. ASSUME NEW c \in Calls, CacheGet(c) PROVE CredentialInv'
  BY <1>10 DEF CacheGet, TypeOK, HeldOK, CredentialInv
<1>11. ASSUME NEW c \in Calls, RemoveOld(c) PROVE CredentialInv'
  BY <1>11 DEF RemoveOld, TypeOK, HeldOK, CredentialInv
<1>12. ASSUME NEW c \in Calls, Send(c) PROVE CredentialInv'
  BY <1>12 DEF Send, TypeOK, HeldOK, CredentialInv
<1>13. ASSUME NEW c \in Calls, InvocationFails(c) PROVE CredentialInv'
  BY <1>13 DEF InvocationFails, TypeOK, HeldOK, CredentialInv
<1>14. ASSUME NEW c \in Calls, BackendReplies(c) PROVE CredentialInv'
  BY <1>14 DEF BackendReplies, TypeOK, HeldOK, CredentialInv
<1>15. ASSUME NEW c \in Calls, AcquirePermit(c) PROVE CredentialInv'
  BY <1>15 DEF AcquirePermit, TypeOK, HeldOK, CredentialInv
<1>16. ASSUME NEW c \in Calls, JobEnds(c) PROVE CredentialInv'
  BY <1>16 DEF JobEnds, TypeOK, HeldOK, CredentialInv
<1>17. ASSUME NEW c \in Calls, CheckInsert(c) PROVE CredentialInv'
  BY <1>17 DEF CheckInsert, TypeOK, HeldOK, CredentialInv
<1>18. ASSUME NEW c \in Calls, InsertOriginal(c) PROVE CredentialInv'
  BY <1>18 DEF InsertOriginal, TypeOK, HeldOK, CredentialInv
<1>19. ASSUME NEW c \in Calls, Drop(c) PROVE CredentialInv'
  BY <1>19 DEF Drop, TypeOK, HeldOK, CredentialInv
<1>20. CASE CloseBegins
  BY <1>20 DEF CloseBegins, TypeOK, HeldOK, CredentialInv
<1>21. CASE ListenerStops
  BY <1>21 DEF ListenerStops, TypeOK, HeldOK, CredentialInv
<1>22. CASE CloseClears
  BY <1>22 DEF CloseClears, TypeOK, HeldOK, CredentialInv
<1>23. ASSUME NEW b \in Backends, ReleaseBackend(b) PROVE CredentialInv'
  BY <1>23 DEF ReleaseBackend, TypeOK, HeldOK, CredentialInv
<1>24. ASSUME NEW k \in Keys, Forget(k) PROVE CredentialInv'
  BY <1>24 DEF Forget, TypeOK, HeldOK, CredentialInv
<1>25. CASE RotateCredential
  BY <1>25 DEF RotateCredential, TypeOK, HeldOK, CredentialInv
<1>26. CASE PushHeaders
  BY <1>26 DEF PushHeaders, TypeOK, HeldOK, CredentialInv
<1>27. CASE UNCHANGED vars
  BY <1>27 DEF vars, TypeOK, HeldOK, CredentialInv
<1>. QED
  BY <1>1, <1>2, <1>3, <1>4, <1>5, <1>6, <1>7, <1>8, <1>9, <1>10, <1>11, <1>12, <1>13, <1>14,
     <1>15, <1>16, <1>17, <1>18, <1>19, <1>20, <1>21, <1>22, <1>23, <1>24, <1>25, <1>26, <1>27
     DEF Next, OwnSteps, Close, Resting

\* The cache of a session with a hook is off before anything is dispatched, and
\* a session with fixed headers has one credential.
LEMMA IdentityStep ==
    ASSUME TypeOK, CredentialInv, IdentityInv, [Next]_vars
    PROVE  IdentityInv'
<1>1. ASSUME NEW c \in Calls, NEW r \in Requests, Call(c, r) PROVE IdentityInv'
  BY <1>1 DEF Call, Dispatch, Requests, TypeOK, HeldOK, CredentialInv, IdentityInv, Originals
<1>2. ASSUME NEW c \in Calls, Unauthorized(c) PROVE IdentityInv'
  BY <1>2 DEF Unauthorized, TypeOK, HeldOK, CredentialInv, IdentityInv, Originals
<1>3. ASSUME NEW c \in Calls, LockRefresh(c) PROVE IdentityInv'
  BY <1>3 DEF LockRefresh, TypeOK, HeldOK, CredentialInv, IdentityInv, Originals
<1>4. ASSUME NEW c \in Calls, DisableCache(c) PROVE IdentityInv'
  BY <1>4 DEF DisableCache, TypeOK, HeldOK, CredentialInv, IdentityInv, Originals
<1>5. ASSUME NEW c \in Calls, ClearCache(c) PROVE IdentityInv'
  BY <1>5 DEF ClearCache, TypeOK, HeldOK, CredentialInv, IdentityInv, Originals
<1>6. ASSUME NEW c \in Calls, HookAnswers(c) PROVE IdentityInv'
  BY <1>6 DEF HookAnswers, TypeOK, HeldOK, CredentialInv, IdentityInv, Originals
<1>7. ASSUME NEW c \in Calls, HookApplies(c) PROVE IdentityInv'
  BY <1>7 DEF HookApplies, Dispatch, TypeOK, HeldOK, CredentialInv, IdentityInv, Originals
<1>8. ASSUME NEW c \in Calls, HookFails(c) PROVE IdentityInv'
  BY <1>8 DEF HookFails, TypeOK, HeldOK, CredentialInv, IdentityInv, Originals
<1>9. ASSUME NEW c \in Calls, Lookup(c) PROVE IdentityInv'
  BY <1>9 DEF Lookup, TypeOK, HeldOK, CredentialInv, IdentityInv, Originals
<1>10. ASSUME NEW c \in Calls, CacheGet(c) PROVE IdentityInv'
  <2>1. CASE cache[Key(c)] # None
    <3>1. /\ At(c, "cached") /\ Finish(c, "recovered")
          /\ UNCHANGED <<config, request, serverVars, authVars, closeVars, history>>
      BY <1>10, <2>1 DEF CacheGet
    <3>. QED
      BY <2>1, <3>1 DEF TypeOK, HeldOK, CredentialInv, IdentityInv, Originals
  <2>2. CASE cache[Key(c)] = None
    <3>1. /\ At(c, "cached") /\ Goto(c, "remove") /\ UNCHANGED answers
          /\ UNCHANGED <<config, request, serverVars, authVars, closeVars, history>>
      BY <1>10, <2>2 DEF CacheGet
    <3>. QED
      BY <2>2, <3>1 DEF TypeOK, HeldOK, CredentialInv, IdentityInv, Originals
  <2>. QED
    BY <1>10, <2>1, <2>2 DEF CacheGet
<1>11. ASSUME NEW c \in Calls, RemoveOld(c) PROVE IdentityInv'
  BY <1>11 DEF RemoveOld, TypeOK, HeldOK, CredentialInv, IdentityInv, Originals
<1>12. ASSUME NEW c \in Calls, Send(c) PROVE IdentityInv'
  BY <1>12 DEF Send, Identity, TypeOK, HeldOK, CredentialInv, IdentityInv, Originals
<1>13. ASSUME NEW c \in Calls, InvocationFails(c) PROVE IdentityInv'
  BY <1>13 DEF InvocationFails, TypeOK, HeldOK, CredentialInv, IdentityInv, Originals
<1>14. ASSUME NEW c \in Calls, BackendReplies(c) PROVE IdentityInv'
  <2>1. CASE Finish(c, "answered")
    <3>1. /\ At(c, "backend") /\ Finish(c, "answered")
          /\ UNCHANGED <<config, request, serverVars, authVars, closeVars, history>>
      BY <1>14, <2>1 DEF BackendReplies
    <3>. QED
      BY <2>1, <3>1 DEF TypeOK, HeldOK, CredentialInv, IdentityInv, Originals
  <2>2. CASE Goto(c, "permit") /\ UNCHANGED answers
    <3>1. /\ At(c, "backend") /\ Goto(c, "permit") /\ UNCHANGED answers
          /\ UNCHANGED <<config, request, serverVars, authVars, closeVars, history>>
      BY <1>14, <2>2 DEF BackendReplies
    <3>. QED
      BY <2>2, <3>1 DEF TypeOK, HeldOK, CredentialInv, IdentityInv, Originals
  <2>. QED
    BY <1>14, <2>1, <2>2 DEF BackendReplies
<1>15. ASSUME NEW c \in Calls, AcquirePermit(c) PROVE IdentityInv'
  BY <1>15 DEF AcquirePermit, TypeOK, HeldOK, CredentialInv, IdentityInv, Originals
<1>16. ASSUME NEW c \in Calls, JobEnds(c) PROVE IdentityInv'
  <2>1. CASE At(c, "shrink") /\ Finish(c, "answered")
    <3>1. /\ At(c, "shrink") /\ Finish(c, "answered")
          /\ c \in jobs /\ jobs' = jobs \ {c}
          /\ UNCHANGED <<config, request, enabled, cache, authVars, closeVars, history>>
      BY <1>16, <2>1 DEF JobEnds
    <3>. QED
      BY <2>1, <3>1 DEF TypeOK, HeldOK, CredentialInv, IdentityInv, Originals
  <2>2. CASE At(c, "shrink") /\ Finish(c, "failed")
    <3>1. /\ At(c, "shrink") /\ Finish(c, "failed")
          /\ c \in jobs /\ jobs' = jobs \ {c}
          /\ UNCHANGED <<config, request, enabled, cache, authVars, closeVars, history>>
      BY <1>16, <2>2 DEF JobEnds
    <3>. QED
      BY <2>2, <3>1 DEF TypeOK, HeldOK, CredentialInv, IdentityInv, Originals
  <2>3. CASE At(c, "shrink") /\ config.mode = "memory" /\ Goto(c, "condensed") /\ UNCHANGED answers
    <3>1. /\ At(c, "shrink") /\ Goto(c, "condensed") /\ UNCHANGED answers
          /\ c \in jobs /\ jobs' = jobs \ {c}
          /\ UNCHANGED <<config, request, enabled, cache, authVars, closeVars, history>>
      BY <1>16, <2>3 DEF JobEnds
    <3>. QED
      BY <2>3, <3>1 DEF TypeOK, HeldOK, CredentialInv, IdentityInv, Originals
  <2>4. CASE ~At(c, "shrink") /\ UNCHANGED <<pc, answers>>
    <3>1. /\ ~At(c, "shrink") /\ UNCHANGED <<pc, answers>>
          /\ c \in jobs /\ jobs' = jobs \ {c}
          /\ UNCHANGED <<config, request, enabled, cache, authVars, closeVars, history>>
      BY <1>16, <2>4 DEF JobEnds
    <3>. QED
      BY <2>4, <3>1 DEF TypeOK, HeldOK, CredentialInv, IdentityInv, Originals
  <2>. QED
    BY <1>16, <2>1, <2>2, <2>3, <2>4 DEF JobEnds
<1>17. ASSUME NEW c \in Calls, CheckInsert(c) PROVE IdentityInv'
  <2>1. CASE enabled
    <3>1. /\ At(c, "condensed") /\ Goto(c, "insert") /\ UNCHANGED answers
          /\ UNCHANGED <<config, request, serverVars, authVars, closeVars, history>>
      BY <1>17, <2>1 DEF CheckInsert
    <3>. QED
      BY <2>1, <3>1 DEF TypeOK, HeldOK, CredentialInv, IdentityInv, Originals
  <2>2. CASE ~enabled
    <3>1. /\ At(c, "condensed") /\ Finish(c, "answered")
          /\ UNCHANGED <<config, request, serverVars, authVars, closeVars, history>>
      BY <1>17, <2>2 DEF CheckInsert
    <3>. QED
      BY <2>2, <3>1 DEF TypeOK, HeldOK, CredentialInv, IdentityInv, Originals
  <2>. QED
    BY <1>17, <2>1, <2>2 DEF CheckInsert
<1>18. ASSUME NEW c \in Calls, InsertOriginal(c) PROVE IdentityInv'
  BY <1>18 DEF InsertOriginal, TypeOK, HeldOK, CredentialInv, IdentityInv, Originals
<1>19. ASSUME NEW c \in Calls, Drop(c) PROVE IdentityInv'
  BY <1>19 DEF Drop, TypeOK, HeldOK, CredentialInv, IdentityInv, Originals
<1>20. CASE CloseBegins
  BY <1>20 DEF CloseBegins, TypeOK, HeldOK, CredentialInv, IdentityInv, Originals
<1>21. CASE ListenerStops
  BY <1>21 DEF ListenerStops, TypeOK, HeldOK, CredentialInv, IdentityInv, Originals
<1>22. CASE CloseClears
  BY <1>22 DEF CloseClears, TypeOK, HeldOK, CredentialInv, IdentityInv, Originals
<1>23. ASSUME NEW b \in Backends, ReleaseBackend(b) PROVE IdentityInv'
  BY <1>23 DEF ReleaseBackend, TypeOK, HeldOK, CredentialInv, IdentityInv, Originals
<1>24. ASSUME NEW k \in Keys, Forget(k) PROVE IdentityInv'
  BY <1>24 DEF Forget, TypeOK, HeldOK, CredentialInv, IdentityInv, Originals
<1>25. CASE RotateCredential
  BY <1>25 DEF RotateCredential, TypeOK, HeldOK, CredentialInv, IdentityInv, Originals
<1>26. CASE PushHeaders
  BY <1>26 DEF PushHeaders, TypeOK, HeldOK, CredentialInv, IdentityInv, Originals
<1>27. CASE UNCHANGED vars
  BY <1>27 DEF vars, TypeOK, HeldOK, CredentialInv, IdentityInv, Originals
<1>. QED
  BY <1>1, <1>2, <1>3, <1>4, <1>5, <1>6, <1>7, <1>8, <1>9, <1>10, <1>11, <1>12, <1>13, <1>14,
     <1>15, <1>16, <1>17, <1>18, <1>19, <1>20, <1>21, <1>22, <1>23, <1>24, <1>25, <1>26, <1>27
     DEF Next, OwnSteps, Close, Resting

\* A cached original is of a call that has returned and is not superseded.
LEMMA LatestStep ==
    ASSUME TypeOK, LatestInv, [Next]_vars
    PROVE  LatestInv'
<1>1. ASSUME NEW c \in Calls, NEW r \in Requests, Call(c, r) PROVE LatestInv'
  BY <1>1 DEF Call, Dispatch, TypeOK, HeldOK, LatestInv, RecoveryIsLatest, Requests, Originals
<1>2. ASSUME NEW c \in Calls, Unauthorized(c) PROVE LatestInv'
  BY <1>2 DEF Unauthorized, TypeOK, HeldOK, LatestInv, RecoveryIsLatest, Requests, Originals
<1>3. ASSUME NEW c \in Calls, LockRefresh(c) PROVE LatestInv'
  BY <1>3 DEF LockRefresh, TypeOK, HeldOK, LatestInv, RecoveryIsLatest, Requests, Originals
<1>4. ASSUME NEW c \in Calls, DisableCache(c) PROVE LatestInv'
  BY <1>4 DEF DisableCache, TypeOK, HeldOK, LatestInv, RecoveryIsLatest, Requests, Originals
<1>5. ASSUME NEW c \in Calls, ClearCache(c) PROVE LatestInv'
  BY <1>5 DEF ClearCache, TypeOK, HeldOK, LatestInv, RecoveryIsLatest, Requests, Originals
<1>6. ASSUME NEW c \in Calls, HookAnswers(c) PROVE LatestInv'
  BY <1>6 DEF HookAnswers, TypeOK, HeldOK, LatestInv, RecoveryIsLatest, Requests, Originals
<1>7. ASSUME NEW c \in Calls, HookApplies(c) PROVE LatestInv'
  BY <1>7 DEF HookApplies, Dispatch, TypeOK, HeldOK, LatestInv, RecoveryIsLatest, Requests, Originals
<1>8. ASSUME NEW c \in Calls, HookFails(c) PROVE LatestInv'
  BY <1>8 DEF HookFails, TypeOK, HeldOK, LatestInv, RecoveryIsLatest, Requests, Originals
<1>9. ASSUME NEW c \in Calls, Lookup(c) PROVE LatestInv'
  BY <1>9 DEF Lookup, TypeOK, HeldOK, LatestInv, RecoveryIsLatest, Requests, Originals
<1>10. ASSUME NEW c \in Calls, CacheGet(c) PROVE LatestInv'
  <2>1. CASE cache[Key(c)] # None
    <3>1. /\ At(c, "cached") /\ Finish(c, "recovered")
          /\ UNCHANGED <<config, request, serverVars, authVars, closeVars, history>>
      BY <1>10, <2>1 DEF CacheGet
    <3>. QED
      BY <2>1, <3>1 DEF TypeOK, HeldOK, LatestInv, RecoveryIsLatest, Requests, Originals
  <2>2. CASE cache[Key(c)] = None
    <3>1. /\ At(c, "cached") /\ Goto(c, "remove") /\ UNCHANGED answers
          /\ UNCHANGED <<config, request, serverVars, authVars, closeVars, history>>
      BY <1>10, <2>2 DEF CacheGet
    <3>. QED
      BY <2>2, <3>1 DEF TypeOK, HeldOK, LatestInv, RecoveryIsLatest, Requests, Originals
  <2>. QED
    BY <1>10, <2>1, <2>2 DEF CacheGet
<1>11. ASSUME NEW c \in Calls, RemoveOld(c) PROVE LatestInv'
  BY <1>11 DEF RemoveOld, TypeOK, HeldOK, LatestInv, RecoveryIsLatest, Requests, Originals
<1>12. ASSUME NEW c \in Calls, Send(c) PROVE LatestInv'
  BY <1>12 DEF Send, TypeOK, HeldOK, LatestInv, RecoveryIsLatest, Requests, Originals
<1>13. ASSUME NEW c \in Calls, InvocationFails(c) PROVE LatestInv'
  BY <1>13 DEF InvocationFails, TypeOK, HeldOK, LatestInv, RecoveryIsLatest, Requests, Originals
<1>14. ASSUME NEW c \in Calls, BackendReplies(c) PROVE LatestInv'
  <2>1. CASE Finish(c, "answered")
    <3>1. /\ At(c, "backend") /\ Finish(c, "answered")
          /\ UNCHANGED <<config, request, serverVars, authVars, closeVars, history>>
      BY <1>14, <2>1 DEF BackendReplies
    <3>. QED
      BY <2>1, <3>1 DEF TypeOK, HeldOK, LatestInv, RecoveryIsLatest, Requests, Originals
  <2>2. CASE Goto(c, "permit") /\ UNCHANGED answers
    <3>1. /\ At(c, "backend") /\ Goto(c, "permit") /\ UNCHANGED answers
          /\ UNCHANGED <<config, request, serverVars, authVars, closeVars, history>>
      BY <1>14, <2>2 DEF BackendReplies
    <3>. QED
      BY <2>2, <3>1 DEF TypeOK, HeldOK, LatestInv, RecoveryIsLatest, Requests, Originals
  <2>. QED
    BY <1>14, <2>1, <2>2 DEF BackendReplies
<1>15. ASSUME NEW c \in Calls, AcquirePermit(c) PROVE LatestInv'
  BY <1>15 DEF AcquirePermit, TypeOK, HeldOK, LatestInv, RecoveryIsLatest, Requests, Originals
<1>16. ASSUME NEW c \in Calls, JobEnds(c) PROVE LatestInv'
  <2>1. CASE At(c, "shrink") /\ Finish(c, "answered")
    <3>1. /\ At(c, "shrink") /\ Finish(c, "answered")
          /\ c \in jobs /\ jobs' = jobs \ {c}
          /\ UNCHANGED <<config, request, enabled, cache, authVars, closeVars, history>>
      BY <1>16, <2>1 DEF JobEnds
    <3>. QED
      BY <2>1, <3>1 DEF TypeOK, HeldOK, LatestInv, RecoveryIsLatest, Requests, Originals
  <2>2. CASE At(c, "shrink") /\ Finish(c, "failed")
    <3>1. /\ At(c, "shrink") /\ Finish(c, "failed")
          /\ c \in jobs /\ jobs' = jobs \ {c}
          /\ UNCHANGED <<config, request, enabled, cache, authVars, closeVars, history>>
      BY <1>16, <2>2 DEF JobEnds
    <3>. QED
      BY <2>2, <3>1 DEF TypeOK, HeldOK, LatestInv, RecoveryIsLatest, Requests, Originals
  <2>3. CASE At(c, "shrink") /\ config.mode = "memory" /\ Goto(c, "condensed") /\ UNCHANGED answers
    <3>1. /\ At(c, "shrink") /\ Goto(c, "condensed") /\ UNCHANGED answers
          /\ c \in jobs /\ jobs' = jobs \ {c}
          /\ UNCHANGED <<config, request, enabled, cache, authVars, closeVars, history>>
      BY <1>16, <2>3 DEF JobEnds
    <3>. QED
      BY <2>3, <3>1 DEF TypeOK, HeldOK, LatestInv, RecoveryIsLatest, Requests, Originals
  <2>4. CASE ~At(c, "shrink") /\ UNCHANGED <<pc, answers>>
    <3>1. /\ ~At(c, "shrink") /\ UNCHANGED <<pc, answers>>
          /\ c \in jobs /\ jobs' = jobs \ {c}
          /\ UNCHANGED <<config, request, enabled, cache, authVars, closeVars, history>>
      BY <1>16, <2>4 DEF JobEnds
    <3>. QED
      BY <2>4, <3>1 DEF TypeOK, HeldOK, LatestInv, RecoveryIsLatest, Requests, Originals
  <2>. QED
    BY <1>16, <2>1, <2>2, <2>3, <2>4 DEF JobEnds
<1>17. ASSUME NEW c \in Calls, CheckInsert(c) PROVE LatestInv'
  <2>1. CASE enabled
    <3>1. /\ At(c, "condensed") /\ Goto(c, "insert") /\ UNCHANGED answers
          /\ UNCHANGED <<config, request, serverVars, authVars, closeVars, history>>
      BY <1>17, <2>1 DEF CheckInsert
    <3>. QED
      BY <2>1, <3>1 DEF TypeOK, HeldOK, LatestInv, RecoveryIsLatest, Requests, Originals
  <2>2. CASE ~enabled
    <3>1. /\ At(c, "condensed") /\ Finish(c, "answered")
          /\ UNCHANGED <<config, request, serverVars, authVars, closeVars, history>>
      BY <1>17, <2>2 DEF CheckInsert
    <3>. QED
      BY <2>2, <3>1 DEF TypeOK, HeldOK, LatestInv, RecoveryIsLatest, Requests, Originals
  <2>. QED
    BY <1>17, <2>1, <2>2 DEF CheckInsert
<1>18. ASSUME NEW c \in Calls, InsertOriginal(c) PROVE LatestInv'
  BY <1>18 DEF InsertOriginal, TypeOK, HeldOK, LatestInv, RecoveryIsLatest, Requests, Originals
<1>19. ASSUME NEW c \in Calls, Drop(c) PROVE LatestInv'
  BY <1>19 DEF Drop, TypeOK, HeldOK, LatestInv, RecoveryIsLatest, Requests, Originals
<1>20. CASE CloseBegins
  BY <1>20 DEF CloseBegins, TypeOK, HeldOK, LatestInv, RecoveryIsLatest, Requests, Originals
<1>21. CASE ListenerStops
  BY <1>21 DEF ListenerStops, TypeOK, HeldOK, LatestInv, RecoveryIsLatest, Requests, Originals
<1>22. CASE CloseClears
  BY <1>22 DEF CloseClears, TypeOK, HeldOK, LatestInv, RecoveryIsLatest, Requests, Originals
<1>23. ASSUME NEW b \in Backends, ReleaseBackend(b) PROVE LatestInv'
  BY <1>23 DEF ReleaseBackend, TypeOK, HeldOK, LatestInv, RecoveryIsLatest, Requests, Originals
<1>24. ASSUME NEW k \in Keys, Forget(k) PROVE LatestInv'
  BY <1>24 DEF Forget, TypeOK, HeldOK, LatestInv, RecoveryIsLatest, Requests, Originals
<1>25. CASE RotateCredential
  BY <1>25 DEF RotateCredential, TypeOK, HeldOK, LatestInv, RecoveryIsLatest, Requests, Originals
<1>26. CASE PushHeaders
  BY <1>26 DEF PushHeaders, TypeOK, HeldOK, LatestInv, RecoveryIsLatest, Requests, Originals
<1>27. CASE UNCHANGED vars
  BY <1>27 DEF vars, TypeOK, HeldOK, LatestInv, RecoveryIsLatest, Requests, Originals
<1>. QED
  BY <1>1, <1>2, <1>3, <1>4, <1>5, <1>6, <1>7, <1>8, <1>9, <1>10, <1>11, <1>12, <1>13, <1>14,
     <1>15, <1>16, <1>17, <1>18, <1>19, <1>20, <1>21, <1>22, <1>23, <1>24, <1>25, <1>26, <1>27
     DEF Next, OwnSteps, Close, Resting

\* close goes through the listener and every backend.
LEMMA CloseStep ==
    ASSUME TypeOK, CloseInv, [Next]_vars
    PROVE  CloseInv'
<1>1. ASSUME NEW c \in Calls, NEW r \in Requests, Call(c, r) PROVE CloseInv'
  BY <1>1 DEF Call, Dispatch, Requests, TypeOK, CloseInv
<1>2. ASSUME NEW c \in Calls, Unauthorized(c) PROVE CloseInv'
  BY <1>2 DEF Unauthorized, TypeOK, CloseInv
<1>3. ASSUME NEW c \in Calls, LockRefresh(c) PROVE CloseInv'
  BY <1>3 DEF LockRefresh, TypeOK, CloseInv
<1>4. ASSUME NEW c \in Calls, DisableCache(c) PROVE CloseInv'
  BY <1>4 DEF DisableCache, TypeOK, CloseInv
<1>5. ASSUME NEW c \in Calls, ClearCache(c) PROVE CloseInv'
  BY <1>5 DEF ClearCache, TypeOK, CloseInv
<1>6. ASSUME NEW c \in Calls, HookAnswers(c) PROVE CloseInv'
  BY <1>6 DEF HookAnswers, TypeOK, CloseInv
<1>7. ASSUME NEW c \in Calls, HookApplies(c) PROVE CloseInv'
  BY <1>7 DEF HookApplies, Dispatch, TypeOK, CloseInv
<1>8. ASSUME NEW c \in Calls, HookFails(c) PROVE CloseInv'
  BY <1>8 DEF HookFails, TypeOK, CloseInv
<1>9. ASSUME NEW c \in Calls, Lookup(c) PROVE CloseInv'
  BY <1>9 DEF Lookup, TypeOK, CloseInv
<1>10. ASSUME NEW c \in Calls, CacheGet(c) PROVE CloseInv'
  BY <1>10 DEF CacheGet, TypeOK, CloseInv
<1>11. ASSUME NEW c \in Calls, RemoveOld(c) PROVE CloseInv'
  BY <1>11 DEF RemoveOld, TypeOK, CloseInv
<1>12. ASSUME NEW c \in Calls, Send(c) PROVE CloseInv'
  BY <1>12 DEF Send, TypeOK, CloseInv
<1>13. ASSUME NEW c \in Calls, InvocationFails(c) PROVE CloseInv'
  BY <1>13 DEF InvocationFails, TypeOK, CloseInv
<1>14. ASSUME NEW c \in Calls, BackendReplies(c) PROVE CloseInv'
  BY <1>14 DEF BackendReplies, TypeOK, CloseInv
<1>15. ASSUME NEW c \in Calls, AcquirePermit(c) PROVE CloseInv'
  BY <1>15 DEF AcquirePermit, TypeOK, CloseInv
<1>16. ASSUME NEW c \in Calls, JobEnds(c) PROVE CloseInv'
  BY <1>16 DEF JobEnds, TypeOK, CloseInv
<1>17. ASSUME NEW c \in Calls, CheckInsert(c) PROVE CloseInv'
  BY <1>17 DEF CheckInsert, TypeOK, CloseInv
<1>18. ASSUME NEW c \in Calls, InsertOriginal(c) PROVE CloseInv'
  BY <1>18 DEF InsertOriginal, TypeOK, CloseInv
<1>19. ASSUME NEW c \in Calls, Drop(c) PROVE CloseInv'
  BY <1>19 DEF Drop, TypeOK, CloseInv
<1>20. CASE CloseBegins
  BY <1>20 DEF CloseBegins, TypeOK, CloseInv
<1>21. CASE ListenerStops
  BY <1>21 DEF ListenerStops, TypeOK, CloseInv
<1>22. CASE CloseClears
  BY <1>22 DEF CloseClears, TypeOK, CloseInv
<1>23. ASSUME NEW b \in Backends, ReleaseBackend(b) PROVE CloseInv'
  BY <1>23 DEF ReleaseBackend, TypeOK, CloseInv
<1>24. ASSUME NEW k \in Keys, Forget(k) PROVE CloseInv'
  BY <1>24 DEF Forget, TypeOK, CloseInv
<1>25. CASE RotateCredential
  BY <1>25 DEF RotateCredential, TypeOK, CloseInv
<1>26. CASE PushHeaders
  BY <1>26 DEF PushHeaders, TypeOK, CloseInv
<1>27. CASE UNCHANGED vars
  BY <1>27 DEF vars, TypeOK, CloseInv
<1>. QED
  BY <1>1, <1>2, <1>3, <1>4, <1>5, <1>6, <1>7, <1>8, <1>9, <1>10, <1>11, <1>12, <1>13, <1>14,
     <1>15, <1>16, <1>17, <1>18, <1>19, <1>20, <1>21, <1>22, <1>23, <1>24, <1>25, <1>26, <1>27
     DEF Next, OwnSteps, Close, Resting

\* A request carries the credential its call's refresh put in the headers, one
\* put there later, or the provider's of this moment.
LEMMA OwnRefreshStep ==
    ASSUME TypeOK, CredentialInv, IdentityInv, OwnRefreshFirst, [Next]_vars
    PROVE  OwnRefreshFirst'
<1>1. ASSUME NEW c \in Calls, NEW r \in Requests, Call(c, r) PROVE OwnRefreshFirst'
  BY <1>1 DEF Call, Dispatch, Requests, TypeOK, HeldOK, CredentialInv, OwnRefreshFirst, Originals
<1>2. ASSUME NEW c \in Calls, Unauthorized(c) PROVE OwnRefreshFirst'
  BY <1>2 DEF Unauthorized, TypeOK, HeldOK, CredentialInv, OwnRefreshFirst, Originals
<1>3. ASSUME NEW c \in Calls, LockRefresh(c) PROVE OwnRefreshFirst'
  BY <1>3 DEF LockRefresh, TypeOK, HeldOK, CredentialInv, OwnRefreshFirst, Originals
<1>4. ASSUME NEW c \in Calls, DisableCache(c) PROVE OwnRefreshFirst'
  BY <1>4 DEF DisableCache, TypeOK, HeldOK, CredentialInv, OwnRefreshFirst, Originals
<1>5. ASSUME NEW c \in Calls, ClearCache(c) PROVE OwnRefreshFirst'
  BY <1>5 DEF ClearCache, TypeOK, HeldOK, CredentialInv, OwnRefreshFirst, Originals
<1>6. ASSUME NEW c \in Calls, HookAnswers(c) PROVE OwnRefreshFirst'
  BY <1>6 DEF HookAnswers, TypeOK, HeldOK, CredentialInv, OwnRefreshFirst, Originals
<1>7. ASSUME NEW c \in Calls, HookApplies(c) PROVE OwnRefreshFirst'
  BY <1>7 DEF HookApplies, Dispatch, TypeOK, HeldOK, CredentialInv, OwnRefreshFirst, Originals
<1>8. ASSUME NEW c \in Calls, HookFails(c) PROVE OwnRefreshFirst'
  BY <1>8 DEF HookFails, TypeOK, HeldOK, CredentialInv, OwnRefreshFirst, Originals
<1>9. ASSUME NEW c \in Calls, Lookup(c) PROVE OwnRefreshFirst'
  BY <1>9 DEF Lookup, TypeOK, HeldOK, CredentialInv, OwnRefreshFirst, Originals
<1>10. ASSUME NEW c \in Calls, CacheGet(c) PROVE OwnRefreshFirst'
  BY <1>10, ZenonT(60) DEF CacheGet, TypeOK, HeldOK, CredentialInv, OwnRefreshFirst, Originals
<1>11. ASSUME NEW c \in Calls, RemoveOld(c) PROVE OwnRefreshFirst'
  BY <1>11 DEF RemoveOld, TypeOK, HeldOK, CredentialInv, OwnRefreshFirst, Originals
<1>12. ASSUME NEW c \in Calls, Send(c) PROVE OwnRefreshFirst'
  BY <1>12 DEF Send, Identity, TypeOK, HeldOK, CredentialInv, IdentityInv, OwnRefreshFirst, Originals
<1>13. ASSUME NEW c \in Calls, InvocationFails(c) PROVE OwnRefreshFirst'
  BY <1>13 DEF InvocationFails, TypeOK, HeldOK, CredentialInv, OwnRefreshFirst, Originals
<1>14. ASSUME NEW c \in Calls, BackendReplies(c) PROVE OwnRefreshFirst'
  BY <1>14 DEF BackendReplies, TypeOK, HeldOK, CredentialInv, OwnRefreshFirst, Originals
<1>15. ASSUME NEW c \in Calls, AcquirePermit(c) PROVE OwnRefreshFirst'
  BY <1>15 DEF AcquirePermit, TypeOK, HeldOK, CredentialInv, OwnRefreshFirst, Originals
<1>16. ASSUME NEW c \in Calls, JobEnds(c) PROVE OwnRefreshFirst'
  BY <1>16, ZenonT(60) DEF JobEnds, TypeOK, HeldOK, CredentialInv, OwnRefreshFirst, Originals
<1>17. ASSUME NEW c \in Calls, CheckInsert(c) PROVE OwnRefreshFirst'
  BY <1>17 DEF CheckInsert, TypeOK, HeldOK, CredentialInv, OwnRefreshFirst, Originals
<1>18. ASSUME NEW c \in Calls, InsertOriginal(c) PROVE OwnRefreshFirst'
  BY <1>18 DEF InsertOriginal, TypeOK, HeldOK, CredentialInv, OwnRefreshFirst, Originals
<1>19. ASSUME NEW c \in Calls, Drop(c) PROVE OwnRefreshFirst'
  BY <1>19 DEF Drop, TypeOK, HeldOK, CredentialInv, OwnRefreshFirst, Originals
<1>20. CASE CloseBegins
  BY <1>20 DEF CloseBegins, TypeOK, HeldOK, CredentialInv, OwnRefreshFirst, Originals
<1>21. CASE ListenerStops
  BY <1>21 DEF ListenerStops, TypeOK, HeldOK, CredentialInv, OwnRefreshFirst, Originals
<1>22. CASE CloseClears
  BY <1>22 DEF CloseClears, TypeOK, HeldOK, CredentialInv, OwnRefreshFirst, Originals
<1>23. ASSUME NEW b \in Backends, ReleaseBackend(b) PROVE OwnRefreshFirst'
  BY <1>23 DEF ReleaseBackend, TypeOK, HeldOK, CredentialInv, OwnRefreshFirst, Originals
<1>24. ASSUME NEW k \in Keys, Forget(k) PROVE OwnRefreshFirst'
  BY <1>24 DEF Forget, TypeOK, HeldOK, CredentialInv, OwnRefreshFirst, Originals
<1>25. CASE RotateCredential
  BY <1>25 DEF RotateCredential, TypeOK, HeldOK, CredentialInv, OwnRefreshFirst, Originals
<1>26. CASE PushHeaders
  BY <1>26 DEF PushHeaders, TypeOK, HeldOK, CredentialInv, OwnRefreshFirst, Originals
<1>27. CASE UNCHANGED vars
  BY <1>27 DEF vars, TypeOK, HeldOK, CredentialInv, OwnRefreshFirst, Originals
<1>. QED
  BY <1>1, <1>2, <1>3, <1>4, <1>5, <1>6, <1>7, <1>8, <1>9, <1>10, <1>11, <1>12, <1>13, <1>14,
     <1>15, <1>16, <1>17, <1>18, <1>19, <1>20, <1>21, <1>22, <1>23, <1>24, <1>25, <1>26, <1>27
     DEF Next, OwnSteps, Close, Resting

-----------------------------------------------------------------------------
(* The theorems. *)

\* The layers together form an invariant of the specification.
THEOREM Invariance == Spec => []IInv
<1>1. Init => IInv
  <2> SUFFICES ASSUME Init PROVE IInv
    OBVIOUS
  <2>0. NoRequest \in Requests
    BY DEF NoRequest, Requests
  <2>1. config.bridge \in BOOLEAN
    BY DEF Init
  <2>2. TypeOK
    BY <2>0, <2>1 DEF Init, TypeOK, HeldOK, Pcs, Outcomes
  <2>3. CredentialInv
    BY DEF Init, CredentialInv
  <2>4. IdentityInv
    BY DEF Init, IdentityInv
  <2>5. LatestInv /\ CloseInv /\ OwnRefreshFirst
    BY DEF Init, LatestInv, RecoveryIsLatest, CloseInv, OwnRefreshFirst
  <2>. QED
    BY <2>2, <2>3, <2>4, <2>5 DEF IInv
<1>2. IInv /\ [Next]_vars => IInv'
  <2> SUFFICES ASSUME IInv, [Next]_vars PROVE IInv'
    OBVIOUS
  <2>1. TypeOK'
    BY TypeOKStep DEF IInv
  <2>2. CredentialInv'
    BY CredentialStep DEF IInv
  <2>3. IdentityInv'
    BY IdentityStep DEF IInv
  <2>4. LatestInv'
    BY LatestStep DEF IInv
  <2>5. CloseInv'
    BY CloseStep DEF IInv
  <2>6. OwnRefreshFirst'
    BY OwnRefreshStep DEF IInv
  <2>. QED
    BY <2>1, <2>2, <2>3, <2>4, <2>5, <2>6 DEF IInv
<1>. QED
  BY <1>1, <1>2, PTL DEF Spec

\* Type correctness, with the holder of the refresh lock and of each permit.
THEOREM TypeCorrect == Spec => []TypeOK
<1>1. IInv => TypeOK
  BY DEF IInv, TypeOK
<1>. QED
  BY <1>1, Invariance, PTL

\* Where headers are fixed or refreshed by a hook, no original obtained under one
\* credential is ever recoverable under another, whatever calls were in flight
\* when the credential changed and whoever changed the headers.
THEOREM RecoveryKeepsIdentity == Spec => []RecoveryMatchesIdentity
<1>1. IInv => RecoveryMatchesIdentity
  BY DEF IInv, TypeOK, CredentialInv, IdentityInv, RecoveryMatchesIdentity, Identity
<1>. QED
  BY <1>1, Invariance, PTL

\* Once a call runs the tool again, no original of a call that had returned
\* before for the same key can be recovered.
THEOREM RecoveryKeepsUp == Spec => []RecoveryIsLatest
<1>1. IInv => RecoveryIsLatest
  BY DEF IInv, LatestInv
<1>. QED
  BY <1>1, Invariance, PTL

\* A call of any session reaches the backend only with a credential at least as
\* new as the application's when the call began.
THEOREM OwnRefreshPrecedes == Spec => []OwnRefreshFirst
<1>1. IInv => OwnRefreshFirst
  BY DEF IInv, OwnRefreshFirst
<1>. QED
  BY <1>1, Invariance, PTL

\* A close that has returned has left no listener and no backend behind.
THEOREM CloseReleases ==
    Spec => [](closing = "closed" => ~listening /\ released = Backends)
<1>1. IInv => (closing = "closed" => ~listening /\ released = Backends)
  BY DEF IInv, CloseInv
<1>. QED
  BY <1>1, Invariance, PTL

\* No refresh puts an older credential back into the headers over one that
\* another refresh obtained, or that was pushed before it was answered.
THEOREM HeadersMoveForward == Spec => HeadersNeverRegress
<1>1. ASSUME IInv, [Next]_vars
      PROVE  \/ headers' >= headers
             \/ \E c \in overtaken : At(c, "apply") /\ ~At(c, "apply")'
             \/ UNCHANGED headers
  <2>1. ASSUME NEW c \in Calls, HookApplies(c)
        PROVE  headers' >= headers \/ \E d \in overtaken : At(d, "apply") /\ ~At(d, "apply")'
    <3>1. CASE c \in overtaken
      BY <1>1, <2>1, <3>1 DEF HookApplies, Dispatch, IInv, TypeOK
    <3>2. CASE c \notin overtaken
      BY <1>1, <2>1, <3>2 DEF HookApplies, IInv, TypeOK, CredentialInv
    <3>. QED
      BY <3>1, <3>2
  <2>2. PushHeaders => headers' >= headers
    BY <1>1 DEF PushHeaders, IInv, TypeOK, CredentialInv
  <2>3. ~PushHeaders /\ (\A c \in Calls : ~HookApplies(c)) => UNCHANGED headers
    BY <1>1 DEF Next, OwnSteps, Close, Resting, vars, Call, Unauthorized, LockRefresh,
       DisableCache, ClearCache, HookAnswers, HookFails, Lookup, CacheGet, RemoveOld, Send,
       InvocationFails, BackendReplies, AcquirePermit, JobEnds, CheckInsert, InsertOriginal,
       Drop, CloseBegins, ListenerStops, CloseClears, ReleaseBackend, Forget, RotateCredential
  <2>. QED
    BY <2>1, <2>2, <2>3
<1>2. IInv /\ [Next]_vars
      => [headers' >= headers \/ \E c \in overtaken : At(c, "apply") /\ ~At(c, "apply")']_headers
  BY <1>1
<1>. QED
  BY <1>2, Invariance, PTL DEF Spec, HeadersNeverRegress
=============================================================================
