--------------------------- MODULE ToolCacheProofs ---------------------------
(***************************************************************************)
(* Proofs that ToolCache keeps its invariants, for any number of tasks,    *)
(* calls, invalidations and backend changes, and that it implements        *)
(* ToolSnapshot.  The layers of IInv are proved one upon the other.        *)
(***************************************************************************)
EXTENDS ToolCache, TLAPS

USE ConstantsAssumption
USE DEF Snapshot, GetAllPcs, RefreshPcs, WriterPcs, Ticketed, Answered, GetAllFetching,
        store, locks, locals, env, history,
        Goto, Return, DropClone, Retry, ReleaseWrite, Unlocked, CanRead, CanWrite

-----------------------------------------------------------------------------
(* One lemma per layer: every action preserves it. *)

\* Every action of tool_cache.rs keeps its variables in their types.
LEMMA TypeOKStep ==
    ASSUME TypeOK, [Next]_vars
    PROVE  TypeOK'
<1>1. ASSUME NEW t \in Tasks, GetAllCall(t) PROVE TypeOK'
  BY <1>1 DEF GetAllCall, TypeOK
<1>2. ASSUME NEW t \in Tasks, RefreshCall(t) PROVE TypeOK'
  BY <1>2 DEF RefreshCall, TypeOK
<1>3. ASSUME NEW t \in Tasks, GetAllRead(t) PROVE TypeOK'
  BY <1>3 DEF GetAllRead, TypeOK
<1>4. ASSUME NEW t \in Tasks, GetAllLock(t) PROVE TypeOK'
  BY <1>4 DEF GetAllLock, TypeOK
<1>5. ASSUME NEW t \in Tasks, RefreshLock(t) PROVE TypeOK'
  BY <1>5 DEF RefreshLock, TypeOK
<1>6. ASSUME NEW t \in Tasks, GetAllCheck(t) PROVE TypeOK'
  BY <1>6 DEF GetAllCheck, Serve, IsCurrent, TypeOK
<1>7. ASSUME NEW t \in Tasks, GetAllRecheck(t) PROVE TypeOK'
  BY <1>7 DEF GetAllRecheck, Serve, IsCurrent, TypeOK
<1>8. ASSUME NEW t \in Tasks, GetAllPublish(t) PROVE TypeOK'
  <2>1. fetchGen[t] \in Nat /\ ticket[t] \in Nat /\ fetched[t] \in Nat /\ startedAt[t] \in Nat
    BY DEF TypeOK
  <2>2. cache' \in Snapshot \cup {NoCache}
    BY <1>8, <2>1 DEF GetAllPublish, Serve, Publish, TypeOK
  <2>3. populated' \in BOOLEAN
    BY <1>8 DEF GetAllPublish, Serve, Publish, TypeOK
  <2>. QED
    BY <1>8, <2>1, <2>2, <2>3 DEF GetAllPublish, Serve, Publish, TypeOK
<1>9. ASSUME NEW t \in Tasks, RefreshBegin(t) PROVE TypeOK'
  BY <1>9 DEF RefreshBegin, TypeOK
<1>10. ASSUME NEW t \in Tasks, RefreshPublish(t) PROVE TypeOK'
  <2>1. fetchGen[t] \in Nat /\ ticket[t] \in Nat /\ fetched[t] \in Nat /\ startedAt[t] \in Nat
    BY DEF TypeOK
  <2>2. cache' \in Snapshot \cup {NoCache}
    BY <1>10, <2>1 DEF RefreshPublish, Publish, TypeOK
  <2>3. populated' \in BOOLEAN
    BY <1>10 DEF RefreshPublish, Publish, TypeOK
  <2>. QED
    BY <1>10, <2>1, <2>2, <2>3 DEF RefreshPublish, Publish, TypeOK
<1>11. ASSUME NEW t \in Tasks, TakeTicket(t) PROVE TypeOK'
  BY <1>11 DEF TakeTicket, TypeOK
<1>12. ASSUME NEW t \in Tasks, BackendAnswer(t) PROVE TypeOK'
  BY <1>12 DEF BackendAnswer, TypeOK
<1>13. ASSUME NEW t \in Tasks, BackendError(t) PROVE TypeOK'
  BY <1>13 DEF BackendError, TypeOK
<1>14. ASSUME NEW t \in Tasks, Cancel(t) PROVE TypeOK'
  BY <1>14 DEF Cancel, TypeOK
<1>15. CASE Invalidate
  <2>1. populated' \in BOOLEAN
    BY <1>15 DEF Invalidate
  <2>. QED
    BY <1>15, <2>1 DEF Invalidate, TypeOK
<1>16. CASE BackendChange
  BY <1>16 DEF BackendChange, TypeOK
<1>17. CASE UNCHANGED vars
  BY <1>17 DEF vars, TypeOK
<1>. QED
  BY <1>1, <1>2, <1>3, <1>4, <1>5, <1>6, <1>7, <1>8, <1>9, <1>10, <1>11, <1>12, <1>13, <1>14, <1>15, <1>16, <1>17 DEF Next, LockSteps, OwnSteps, Resting

\* The reader/writer lock keeps excluding, so a clone stays equal to the cache.
LEMMA LocksStep ==
    ASSUME TypeOK, LocksInv, [Next]_vars
    PROVE  LocksInv'
<1>1. ASSUME NEW t \in Tasks, GetAllCall(t) PROVE LocksInv'
  BY <1>1 DEF GetAllCall, TypeOK, LocksInv
<1>2. ASSUME NEW t \in Tasks, RefreshCall(t) PROVE LocksInv'
  BY <1>2 DEF RefreshCall, TypeOK, LocksInv
<1>3. ASSUME NEW t \in Tasks, GetAllRead(t) PROVE LocksInv'
  BY <1>3 DEF GetAllRead, TypeOK, LocksInv
<1>4. ASSUME NEW t \in Tasks, GetAllLock(t) PROVE LocksInv'
  BY <1>4 DEF GetAllLock, TypeOK, LocksInv
<1>5. ASSUME NEW t \in Tasks, RefreshLock(t) PROVE LocksInv'
  BY <1>5 DEF RefreshLock, TypeOK, LocksInv
<1>6. ASSUME NEW t \in Tasks, GetAllCheck(t) PROVE LocksInv'
  BY <1>6 DEF GetAllCheck, Serve, TypeOK, LocksInv
<1>7. ASSUME NEW t \in Tasks, GetAllRecheck(t) PROVE LocksInv'
  BY <1>7 DEF GetAllRecheck, Serve, TypeOK, LocksInv
<1>8. ASSUME NEW t \in Tasks, GetAllPublish(t) PROVE LocksInv'
  BY <1>8 DEF GetAllPublish, Serve, Publish, IsCurrent, TypeOK, LocksInv
<1>9. ASSUME NEW t \in Tasks, RefreshBegin(t) PROVE LocksInv'
  BY <1>9 DEF RefreshBegin, TypeOK, LocksInv
<1>10. ASSUME NEW t \in Tasks, RefreshPublish(t) PROVE LocksInv'
  BY <1>10 DEF RefreshPublish, Publish, IsCurrent, TypeOK, LocksInv
<1>11. ASSUME NEW t \in Tasks, TakeTicket(t) PROVE LocksInv'
  BY <1>11 DEF TakeTicket, TypeOK, LocksInv
<1>12. ASSUME NEW t \in Tasks, BackendAnswer(t) PROVE LocksInv'
  BY <1>12 DEF BackendAnswer, TypeOK, LocksInv
<1>13. ASSUME NEW t \in Tasks, BackendError(t) PROVE LocksInv'
  BY <1>13 DEF BackendError, TypeOK, LocksInv
<1>14. ASSUME NEW t \in Tasks, Cancel(t) PROVE LocksInv'
  BY <1>14 DEF Cancel, TypeOK, LocksInv
<1>15. CASE Invalidate
  BY <1>15 DEF Invalidate, TypeOK, LocksInv
<1>16. CASE BackendChange
  BY <1>16 DEF BackendChange, TypeOK, LocksInv
<1>17. CASE UNCHANGED vars
  BY <1>17 DEF vars, TypeOK, LocksInv
<1>. QED
  BY <1>1, <1>2, <1>3, <1>4, <1>5, <1>6, <1>7, <1>8, <1>9, <1>10, <1>11, <1>12, <1>13, <1>14, <1>15, <1>16, <1>17 DEF Next, LockSteps, OwnSteps, Resting

\* No generation, ticket or tool list in use comes from the future.
LEMMA BoundsStep ==
    ASSUME TypeOK, LocksInv, BoundsInv, [Next]_vars
    PROVE  BoundsInv'
<1>1. ASSUME NEW t \in Tasks, GetAllCall(t) PROVE BoundsInv'
  BY <1>1 DEF GetAllCall, TypeOK, LocksInv, BoundsInv
<1>2. ASSUME NEW t \in Tasks, RefreshCall(t) PROVE BoundsInv'
  BY <1>2 DEF RefreshCall, TypeOK, LocksInv, BoundsInv
<1>3. ASSUME NEW t \in Tasks, GetAllRead(t) PROVE BoundsInv'
  BY <1>3 DEF GetAllRead, TypeOK, LocksInv, BoundsInv
<1>4. ASSUME NEW t \in Tasks, GetAllLock(t) PROVE BoundsInv'
  BY <1>4 DEF GetAllLock, TypeOK, LocksInv, BoundsInv
<1>5. ASSUME NEW t \in Tasks, RefreshLock(t) PROVE BoundsInv'
  BY <1>5 DEF RefreshLock, TypeOK, LocksInv, BoundsInv
<1>6. ASSUME NEW t \in Tasks, GetAllCheck(t) PROVE BoundsInv'
  BY <1>6 DEF GetAllCheck, Serve, IsCurrent, TypeOK, LocksInv, BoundsInv
<1>7. ASSUME NEW t \in Tasks, GetAllRecheck(t) PROVE BoundsInv'
  BY <1>7 DEF GetAllRecheck, Serve, IsCurrent, TypeOK, LocksInv, BoundsInv
<1>8. ASSUME NEW t \in Tasks, GetAllPublish(t) PROVE BoundsInv'
  BY <1>8 DEF GetAllPublish, Serve, Publish, IsCurrent, TypeOK, LocksInv, BoundsInv
<1>9. ASSUME NEW t \in Tasks, RefreshBegin(t) PROVE BoundsInv'
  BY <1>9 DEF RefreshBegin, TypeOK, LocksInv, BoundsInv
<1>10. ASSUME NEW t \in Tasks, RefreshPublish(t) PROVE BoundsInv'
  BY <1>10 DEF RefreshPublish, Publish, IsCurrent, TypeOK, LocksInv, BoundsInv
<1>11. ASSUME NEW t \in Tasks, TakeTicket(t) PROVE BoundsInv'
  BY <1>11 DEF TakeTicket, TypeOK, LocksInv, BoundsInv
<1>12. ASSUME NEW t \in Tasks, BackendAnswer(t) PROVE BoundsInv'
  BY <1>12 DEF BackendAnswer, TypeOK, LocksInv, BoundsInv
<1>13. ASSUME NEW t \in Tasks, BackendError(t) PROVE BoundsInv'
  BY <1>13 DEF BackendError, TypeOK, LocksInv, BoundsInv
<1>14. ASSUME NEW t \in Tasks, Cancel(t) PROVE BoundsInv'
  BY <1>14 DEF Cancel, TypeOK, LocksInv, BoundsInv
<1>15. CASE Invalidate
  BY <1>15 DEF Invalidate, TypeOK, LocksInv, BoundsInv
<1>16. CASE BackendChange
  BY <1>16 DEF BackendChange, TypeOK, LocksInv, BoundsInv
<1>17. CASE UNCHANGED vars
  BY <1>17 DEF vars, TypeOK, LocksInv, BoundsInv
<1>. QED
  BY <1>1, <1>2, <1>3, <1>4, <1>5, <1>6, <1>7, <1>8, <1>9, <1>10, <1>11, <1>12, <1>13, <1>14, <1>15, <1>16, <1>17 DEF Next, LockSteps, OwnSteps, Resting

\* Publications and invalidations keep is_populated equal to "get_all would hit".
LEMMA PopulatedStep ==
    ASSUME TypeOK, BoundsInv, PopulatedIsCurrent, [Next]_vars
    PROVE  PopulatedIsCurrent'
<1>1. ASSUME NEW t \in Tasks, GetAllCall(t) PROVE PopulatedIsCurrent'
  BY <1>1 DEF GetAllCall, TypeOK, BoundsInv, PopulatedIsCurrent, IsCurrent
<1>2. ASSUME NEW t \in Tasks, RefreshCall(t) PROVE PopulatedIsCurrent'
  BY <1>2 DEF RefreshCall, TypeOK, BoundsInv, PopulatedIsCurrent, IsCurrent
<1>3. ASSUME NEW t \in Tasks, GetAllRead(t) PROVE PopulatedIsCurrent'
  BY <1>3 DEF GetAllRead, TypeOK, BoundsInv, PopulatedIsCurrent, IsCurrent
<1>4. ASSUME NEW t \in Tasks, GetAllLock(t) PROVE PopulatedIsCurrent'
  BY <1>4 DEF GetAllLock, TypeOK, BoundsInv, PopulatedIsCurrent, IsCurrent
<1>5. ASSUME NEW t \in Tasks, RefreshLock(t) PROVE PopulatedIsCurrent'
  BY <1>5 DEF RefreshLock, TypeOK, BoundsInv, PopulatedIsCurrent, IsCurrent
<1>6. ASSUME NEW t \in Tasks, GetAllCheck(t) PROVE PopulatedIsCurrent'
  BY <1>6 DEF GetAllCheck, Serve, TypeOK, BoundsInv, PopulatedIsCurrent, IsCurrent
<1>7. ASSUME NEW t \in Tasks, GetAllRecheck(t) PROVE PopulatedIsCurrent'
  BY <1>7 DEF GetAllRecheck, Serve, TypeOK, BoundsInv, PopulatedIsCurrent, IsCurrent
<1>8. ASSUME NEW t \in Tasks, GetAllPublish(t) PROVE PopulatedIsCurrent'
  BY <1>8 DEF GetAllPublish, Serve, Publish, TypeOK, BoundsInv, PopulatedIsCurrent, IsCurrent
<1>9. ASSUME NEW t \in Tasks, RefreshBegin(t) PROVE PopulatedIsCurrent'
  BY <1>9 DEF RefreshBegin, TypeOK, BoundsInv, PopulatedIsCurrent, IsCurrent
<1>10. ASSUME NEW t \in Tasks, RefreshPublish(t) PROVE PopulatedIsCurrent'
  BY <1>10 DEF RefreshPublish, Publish, TypeOK, BoundsInv, PopulatedIsCurrent, IsCurrent
<1>11. ASSUME NEW t \in Tasks, TakeTicket(t) PROVE PopulatedIsCurrent'
  BY <1>11 DEF TakeTicket, TypeOK, BoundsInv, PopulatedIsCurrent, IsCurrent
<1>12. ASSUME NEW t \in Tasks, BackendAnswer(t) PROVE PopulatedIsCurrent'
  BY <1>12 DEF BackendAnswer, TypeOK, BoundsInv, PopulatedIsCurrent, IsCurrent
<1>13. ASSUME NEW t \in Tasks, BackendError(t) PROVE PopulatedIsCurrent'
  BY <1>13 DEF BackendError, TypeOK, BoundsInv, PopulatedIsCurrent, IsCurrent
<1>14. ASSUME NEW t \in Tasks, Cancel(t) PROVE PopulatedIsCurrent'
  BY <1>14 DEF Cancel, TypeOK, BoundsInv, PopulatedIsCurrent, IsCurrent
<1>15. CASE Invalidate
  BY <1>15 DEF Invalidate, TypeOK, BoundsInv, PopulatedIsCurrent, IsCurrent
<1>16. CASE BackendChange
  BY <1>16 DEF BackendChange, TypeOK, BoundsInv, PopulatedIsCurrent, IsCurrent
<1>17. CASE UNCHANGED vars
  BY <1>17 DEF vars, TypeOK, BoundsInv, PopulatedIsCurrent, IsCurrent
<1>. QED
  BY <1>1, <1>2, <1>3, <1>4, <1>5, <1>6, <1>7, <1>8, <1>9, <1>10, <1>11, <1>12, <1>13, <1>14, <1>15, <1>16, <1>17 DEF Next, LockSteps, OwnSteps, Resting

\* While a get_all fetches, nothing current appears in the cache.
LEMMA FetchStep ==
    ASSUME TypeOK, LocksInv, BoundsInv, FetchInv, [Next]_vars
    PROVE  FetchInv'
<1>1. ASSUME NEW t \in Tasks, GetAllCall(t) PROVE FetchInv'
  BY <1>1 DEF GetAllCall, TypeOK, LocksInv, BoundsInv, FetchInv, IsCurrent
<1>2. ASSUME NEW t \in Tasks, RefreshCall(t) PROVE FetchInv'
  BY <1>2 DEF RefreshCall, TypeOK, LocksInv, BoundsInv, FetchInv, IsCurrent
<1>3. ASSUME NEW t \in Tasks, GetAllRead(t) PROVE FetchInv'
  BY <1>3 DEF GetAllRead, TypeOK, LocksInv, BoundsInv, FetchInv, IsCurrent
<1>4. ASSUME NEW t \in Tasks, GetAllLock(t) PROVE FetchInv'
  BY <1>4 DEF GetAllLock, TypeOK, LocksInv, BoundsInv, FetchInv, IsCurrent
<1>5. ASSUME NEW t \in Tasks, RefreshLock(t) PROVE FetchInv'
  BY <1>5 DEF RefreshLock, TypeOK, LocksInv, BoundsInv, FetchInv, IsCurrent
<1>6. ASSUME NEW t \in Tasks, GetAllCheck(t) PROVE FetchInv'
  BY <1>6 DEF GetAllCheck, Serve, TypeOK, LocksInv, BoundsInv, FetchInv, IsCurrent
<1>7. ASSUME NEW t \in Tasks, GetAllRecheck(t) PROVE FetchInv'
  BY <1>7 DEF GetAllRecheck, Serve, TypeOK, LocksInv, BoundsInv, FetchInv, IsCurrent
<1>8. ASSUME NEW t \in Tasks, GetAllPublish(t) PROVE FetchInv'
  BY <1>8 DEF GetAllPublish, Serve, Publish, TypeOK, LocksInv, BoundsInv, FetchInv, IsCurrent
<1>9. ASSUME NEW t \in Tasks, RefreshBegin(t) PROVE FetchInv'
  BY <1>9 DEF RefreshBegin, TypeOK, LocksInv, BoundsInv, FetchInv, IsCurrent
<1>10. ASSUME NEW t \in Tasks, RefreshPublish(t) PROVE FetchInv'
  BY <1>10 DEF RefreshPublish, Publish, TypeOK, LocksInv, BoundsInv, FetchInv, IsCurrent
<1>11. ASSUME NEW t \in Tasks, TakeTicket(t) PROVE FetchInv'
  BY <1>11 DEF TakeTicket, TypeOK, LocksInv, BoundsInv, FetchInv, IsCurrent
<1>12. ASSUME NEW t \in Tasks, BackendAnswer(t) PROVE FetchInv'
  BY <1>12 DEF BackendAnswer, TypeOK, LocksInv, BoundsInv, FetchInv, IsCurrent
<1>13. ASSUME NEW t \in Tasks, BackendError(t) PROVE FetchInv'
  BY <1>13 DEF BackendError, TypeOK, LocksInv, BoundsInv, FetchInv, IsCurrent
<1>14. ASSUME NEW t \in Tasks, Cancel(t) PROVE FetchInv'
  BY <1>14 DEF Cancel, TypeOK, LocksInv, BoundsInv, FetchInv, IsCurrent
<1>15. CASE Invalidate
  BY <1>15 DEF Invalidate, TypeOK, LocksInv, BoundsInv, FetchInv, IsCurrent
<1>16. CASE BackendChange
  BY <1>16 DEF BackendChange, TypeOK, LocksInv, BoundsInv, FetchInv, IsCurrent
<1>17. CASE UNCHANGED vars
  BY <1>17 DEF vars, TypeOK, LocksInv, BoundsInv, FetchInv, IsCurrent
<1>. QED
  BY <1>1, <1>2, <1>3, <1>4, <1>5, <1>6, <1>7, <1>8, <1>9, <1>10, <1>11, <1>12, <1>13, <1>14, <1>15, <1>16, <1>17 DEF Next, LockSteps, OwnSteps, Resting

\* Tickets stay unique, and order the calls' beginnings before the later answers.
LEMMA TicketStep ==
    ASSUME TypeOK, LocksInv, BoundsInv, TicketInv, [Next]_vars
    PROVE  TicketInv'
<1>1. ASSUME NEW t \in Tasks, GetAllCall(t) PROVE TicketInv'
  BY <1>1 DEF GetAllCall, TypeOK, LocksInv, BoundsInv, TicketInv
<1>2. ASSUME NEW t \in Tasks, RefreshCall(t) PROVE TicketInv'
  BY <1>2 DEF RefreshCall, TypeOK, LocksInv, BoundsInv, TicketInv
<1>3. ASSUME NEW t \in Tasks, GetAllRead(t) PROVE TicketInv'
  BY <1>3 DEF GetAllRead, TypeOK, LocksInv, BoundsInv, TicketInv
<1>4. ASSUME NEW t \in Tasks, GetAllLock(t) PROVE TicketInv'
  BY <1>4 DEF GetAllLock, TypeOK, LocksInv, BoundsInv, TicketInv
<1>5. ASSUME NEW t \in Tasks, RefreshLock(t) PROVE TicketInv'
  BY <1>5 DEF RefreshLock, TypeOK, LocksInv, BoundsInv, TicketInv
<1>6. ASSUME NEW t \in Tasks, GetAllCheck(t) PROVE TicketInv'
  BY <1>6 DEF GetAllCheck, Serve, TypeOK, LocksInv, BoundsInv, TicketInv
<1>7. ASSUME NEW t \in Tasks, GetAllRecheck(t) PROVE TicketInv'
  BY <1>7 DEF GetAllRecheck, Serve, TypeOK, LocksInv, BoundsInv, TicketInv
<1>8. ASSUME NEW t \in Tasks, GetAllPublish(t) PROVE TicketInv'
  BY <1>8, SMTT(60) DEF GetAllPublish, Serve, Publish, IsCurrent, TypeOK, LocksInv, BoundsInv, TicketInv
<1>9. ASSUME NEW t \in Tasks, RefreshBegin(t) PROVE TicketInv'
  BY <1>9 DEF RefreshBegin, TypeOK, LocksInv, BoundsInv, TicketInv
<1>10. ASSUME NEW t \in Tasks, RefreshPublish(t) PROVE TicketInv'
  BY <1>10 DEF RefreshPublish, Publish, IsCurrent, TypeOK, LocksInv, BoundsInv, TicketInv
<1>11. ASSUME NEW t \in Tasks, TakeTicket(t) PROVE TicketInv'
  BY <1>11 DEF TakeTicket, TypeOK, LocksInv, BoundsInv, TicketInv
<1>12. ASSUME NEW t \in Tasks, BackendAnswer(t) PROVE TicketInv'
  BY <1>12 DEF BackendAnswer, TypeOK, LocksInv, BoundsInv, TicketInv
<1>13. ASSUME NEW t \in Tasks, BackendError(t) PROVE TicketInv'
  BY <1>13 DEF BackendError, TypeOK, LocksInv, BoundsInv, TicketInv
<1>14. ASSUME NEW t \in Tasks, Cancel(t) PROVE TicketInv'
  BY <1>14 DEF Cancel, TypeOK, LocksInv, BoundsInv, TicketInv
<1>15. CASE Invalidate
  BY <1>15 DEF Invalidate, TypeOK, LocksInv, BoundsInv, TicketInv
<1>16. CASE BackendChange
  BY <1>16 DEF BackendChange, TypeOK, LocksInv, BoundsInv, TicketInv
<1>17. CASE UNCHANGED vars
  BY <1>17 DEF vars, TypeOK, LocksInv, BoundsInv, TicketInv
<1>. QED
  BY <1>1, <1>2, <1>3, <1>4, <1>5, <1>6, <1>7, <1>8, <1>9, <1>10, <1>11, <1>12, <1>13, <1>14, <1>15, <1>16, <1>17 DEF Next, LockSteps, OwnSteps, Resting

\* What is served, and every answer that could still be published, stays fresh.
LEMMA FreshStep ==
    ASSUME TypeOK, LocksInv, BoundsInv, FetchInv, TicketInv, FreshInv, [Next]_vars
    PROVE  FreshInv'
<1>1. ASSUME NEW t \in Tasks, GetAllCall(t) PROVE FreshInv'
  BY <1>1 DEF GetAllCall, TypeOK, LocksInv, BoundsInv, FetchInv, TicketInv, FreshInv, ServedIsFresh, IsCurrent
<1>2. ASSUME NEW t \in Tasks, RefreshCall(t) PROVE FreshInv'
  BY <1>2 DEF RefreshCall, TypeOK, LocksInv, BoundsInv, FetchInv, TicketInv, FreshInv, ServedIsFresh, IsCurrent
<1>3. ASSUME NEW t \in Tasks, GetAllRead(t) PROVE FreshInv'
  BY <1>3 DEF GetAllRead, TypeOK, LocksInv, BoundsInv, FetchInv, TicketInv, FreshInv, ServedIsFresh, IsCurrent
<1>4. ASSUME NEW t \in Tasks, GetAllLock(t) PROVE FreshInv'
  BY <1>4 DEF GetAllLock, TypeOK, LocksInv, BoundsInv, FetchInv, TicketInv, FreshInv, ServedIsFresh, IsCurrent
<1>5. ASSUME NEW t \in Tasks, RefreshLock(t) PROVE FreshInv'
  BY <1>5 DEF RefreshLock, TypeOK, LocksInv, BoundsInv, FetchInv, TicketInv, FreshInv, ServedIsFresh, IsCurrent
<1>6. ASSUME NEW t \in Tasks, GetAllCheck(t) PROVE FreshInv'
  BY <1>6 DEF GetAllCheck, Serve, TypeOK, LocksInv, BoundsInv, FetchInv, TicketInv, FreshInv, ServedIsFresh, IsCurrent
<1>7. ASSUME NEW t \in Tasks, GetAllRecheck(t) PROVE FreshInv'
  BY <1>7 DEF GetAllRecheck, Serve, TypeOK, LocksInv, BoundsInv, FetchInv, TicketInv, FreshInv, ServedIsFresh, IsCurrent
<1>8. ASSUME NEW t \in Tasks, GetAllPublish(t) PROVE FreshInv'
  BY <1>8 DEF GetAllPublish, Serve, Publish, TypeOK, LocksInv, BoundsInv, FetchInv, TicketInv, FreshInv, ServedIsFresh, IsCurrent
<1>9. ASSUME NEW t \in Tasks, RefreshBegin(t) PROVE FreshInv'
  BY <1>9 DEF RefreshBegin, TypeOK, LocksInv, BoundsInv, FetchInv, TicketInv, FreshInv, ServedIsFresh, IsCurrent
<1>10. ASSUME NEW t \in Tasks, RefreshPublish(t) PROVE FreshInv'
  <2>1. CASE generation # fetchGen[t]
    BY <1>10, <2>1 DEF RefreshPublish, Retry, TypeOK, TicketInv, FreshInv, ServedIsFresh, IsCurrent
  <2>2. CASE generation = fetchGen[t]
    <3>1. /\ Publish(fetchGen[t], ticket[t], fetched[t])
          /\ floor' = IF startedAt[t] > floor THEN startedAt[t] ELSE floor
          /\ Return(t)
          /\ pc[t] = "refPublish"
      BY <1>10, <2>2 DEF RefreshPublish
    <3>2. ServedIsFresh'
      BY <2>2, <3>1 DEF Publish, TypeOK, TicketInv, FreshInv, ServedIsFresh, IsCurrent, Ticketed, Answered
    <3>3. ASSUME NEW u \in Tasks, (pc[u] \in Answered /\ fetchGen[u] = generation)'
          PROVE  (fetched[u] >= floor \/ (IsCurrent(cache) /\ cache.sequence > ticket[u]))'
      <4>1. u # t /\ UNCHANGED <<fetched[u], ticket[u], fetchGen[u], pc[u]>>
        BY <3>1, <3>3 DEF Return, Goto, TypeOK, Answered
      <4>. QED
        BY <2>2, <3>1, <3>3, <4>1 DEF Publish, TypeOK, TicketInv, FreshInv, IsCurrent, Ticketed, Answered
    <3>. QED
      BY <3>2, <3>3 DEF FreshInv
  <2>. QED
    BY <2>1, <2>2
<1>11. ASSUME NEW t \in Tasks, TakeTicket(t) PROVE FreshInv'
  BY <1>11 DEF TakeTicket, TypeOK, LocksInv, BoundsInv, FetchInv, TicketInv, FreshInv, ServedIsFresh, IsCurrent
<1>12. ASSUME NEW t \in Tasks, BackendAnswer(t) PROVE FreshInv'
  BY <1>12 DEF BackendAnswer, TypeOK, LocksInv, BoundsInv, FetchInv, TicketInv, FreshInv, ServedIsFresh, IsCurrent
<1>13. ASSUME NEW t \in Tasks, BackendError(t) PROVE FreshInv'
  BY <1>13 DEF BackendError, TypeOK, LocksInv, BoundsInv, FetchInv, TicketInv, FreshInv, ServedIsFresh, IsCurrent
<1>14. ASSUME NEW t \in Tasks, Cancel(t) PROVE FreshInv'
  BY <1>14 DEF Cancel, TypeOK, LocksInv, BoundsInv, FetchInv, TicketInv, FreshInv, ServedIsFresh, IsCurrent
<1>15. CASE Invalidate
  BY <1>15 DEF Invalidate, TypeOK, LocksInv, BoundsInv, FetchInv, TicketInv, FreshInv, ServedIsFresh, IsCurrent
<1>16. CASE BackendChange
  BY <1>16 DEF BackendChange, TypeOK, LocksInv, BoundsInv, FetchInv, TicketInv, FreshInv, ServedIsFresh, IsCurrent
<1>17. CASE UNCHANGED vars
  BY <1>17 DEF vars, TypeOK, LocksInv, BoundsInv, FetchInv, TicketInv, FreshInv, ServedIsFresh, IsCurrent
<1>. QED
  BY <1>1, <1>2, <1>3, <1>4, <1>5, <1>6, <1>7, <1>8, <1>9, <1>10, <1>11, <1>12, <1>13, <1>14, <1>15, <1>16, <1>17 DEF Next, LockSteps, OwnSteps, Resting

-----------------------------------------------------------------------------
(* The theorems. *)

\* The layers together form an invariant of the specification.
THEOREM Invariance == Spec => []IInv
<1>1. Init => IInv
  <2> SUFFICES ASSUME Init PROVE IInv
    OBVIOUS
  <2>1. populated \in BOOLEAN /\ PopulatedIsCurrent
    BY DEF Init, PopulatedIsCurrent, IsCurrent
  <2>2. TypeOK
    BY <2>1 DEF Init, TypeOK
  <2>3. LocksInv /\ BoundsInv
    BY DEF Init, LocksInv, BoundsInv
  <2>4. FetchInv /\ TicketInv /\ FreshInv
    BY DEF Init, FetchInv, TicketInv, FreshInv, ServedIsFresh, IsCurrent
  <2>. QED
    BY <2>1, <2>2, <2>3, <2>4 DEF IInv
<1>2. IInv /\ [Next]_vars => IInv'
  <2> SUFFICES ASSUME IInv, [Next]_vars PROVE IInv'
    OBVIOUS
  <2>1. TypeOK'
    BY TypeOKStep DEF IInv
  <2>2. LocksInv'
    BY LocksStep DEF IInv
  <2>3. BoundsInv'
    BY BoundsStep DEF IInv
  <2>4. PopulatedIsCurrent'
    BY PopulatedStep DEF IInv
  <2>5. FetchInv'
    BY FetchStep DEF IInv
  <2>6. TicketInv'
    BY TicketStep DEF IInv
  <2>7. FreshInv'
    BY FreshStep DEF IInv
  <2>. QED
    BY <2>1, <2>2, <2>3, <2>4, <2>5, <2>6, <2>7 DEF IInv
<1>. QED
  BY <1>1, <1>2, PTL DEF Spec

\* Type correctness of the cache, its locks and its callers.
THEOREM TypeCorrect == Spec => []TypeOK
<1>1. IInv => TypeOK
  BY DEF IInv
<1>. QED
  BY <1>1, Invariance, PTL

\* is_populated is true exactly when get_all would return without a fetch.
THEOREM PopulatedFlag == Spec => []PopulatedIsCurrent
<1>1. IInv => PopulatedIsCurrent
  BY DEF IInv
<1>. QED
  BY <1>1, Invariance, PTL

\* The snapshot being served is never older than the last invalidation, nor
\* than the call of any refresh that has completed.
THEOREM Freshness == Spec => []ServedIsFresh
<1>1. IInv => ServedIsFresh
  BY DEF IInv, FreshInv
<1>. QED
  BY <1>1, Invariance, PTL

\* get_all fetches only when there is nothing to return, one task at a time.
THEOREM SingleFlight == Spec => []NoRedundantFetch
<1>1. IInv => NoRedundantFetch
  BY DEF IInv, TypeOK, LocksInv, FetchInv, NoRedundantFetch
<1>. QED
  BY <1>1, Invariance, PTL

\* publish never replaces a snapshot by one of an earlier generation, or of
\* the same generation and an earlier ticket.
THEOREM MovesForward == Spec => PublicationMovesForward
<1>1. ASSUME IInv, [Next]_vars
      PROVE  [cache # NoCache => cache' # NoCache /\ Supersedes(cache', cache)]_cache
  <2> SUFFICES ASSUME cache' # cache, cache # NoCache
               PROVE  cache' # NoCache /\ Supersedes(cache', cache)
    OBVIOUS
  <2>1. PICK t \in Tasks : GetAllPublish(t) \/ RefreshPublish(t)
    BY <1>1 DEF Next, LockSteps, OwnSteps, Resting, vars, GetAllCall, RefreshCall,
         GetAllRead, GetAllLock, RefreshLock, GetAllCheck, Serve, GetAllRecheck, RefreshBegin,
         TakeTicket, BackendAnswer, BackendError, Cancel, Invalidate, BackendChange
  <2>2. /\ generation = fetchGen[t]
        /\ Publish(fetchGen[t], ticket[t], fetched[t])
        /\ pc[t] \in Ticketed
    BY <2>1 DEF GetAllPublish, Serve, RefreshPublish
  <2>3. cache' = [generation |-> generation, sequence |-> ticket[t], tools |-> fetched[t]]
    BY <2>2 DEF Publish
  <2>4. ~(cache.generation = generation /\ cache.sequence > ticket[t])
    BY <2>2 DEF Publish, IsCurrent
  <2>5. /\ cache \in Snapshot
        /\ ticket[t] \in Nat /\ fetched[t] \in Nat /\ generation \in Nat
        /\ cache.generation <= generation
        /\ cache.sequence # ticket[t]
    BY <1>1, <2>2 DEF IInv, TypeOK, BoundsInv, TicketInv
  <2>6. cache' # NoCache
    BY <2>3, <2>5
  <2>. QED
    BY <2>3, <2>4, <2>5, <2>6 DEF Supersedes
<1>. QED
  BY <1>1, Invariance, PTL DEF Spec, PublicationMovesForward

\* Every step of the cache is a step of ToolSnapshot or leaves it unchanged:
\* get_all returns lists no older than the promise allows.
THEOREM Refinement == Spec => Fresh
<1>1. Init => Promise!Init
  BY DEF Init, Promise!Init
<1>2. ASSUME IInv, [Next]_vars
      PROVE  [Promise!Next]_<<backend, floor, lastRead>>
  <2> USE <1>2 DEF Promise!Next, Promise!BackendChange, Promise!Invalidate,
               Promise!Refresh, Promise!Read
  <2>1. ASSUME NEW t \in Tasks, GetAllCheck(t) PROVE [Promise!Next]_<<backend, floor, lastRead>>
    BY <2>1 DEF GetAllCheck, Serve, IInv, TypeOK, LocksInv, BoundsInv, FreshInv, ServedIsFresh, IsCurrent
  <2>2. ASSUME NEW t \in Tasks, GetAllRecheck(t) PROVE [Promise!Next]_<<backend, floor, lastRead>>
    BY <2>2 DEF GetAllRecheck, Serve, IInv, TypeOK, LocksInv, BoundsInv, FreshInv, ServedIsFresh, IsCurrent
  <2>3. ASSUME NEW t \in Tasks, GetAllPublish(t) PROVE [Promise!Next]_<<backend, floor, lastRead>>
    BY <2>3 DEF GetAllPublish, Serve, IInv, TypeOK, BoundsInv, FetchInv, FreshInv, IsCurrent
  <2>4. ASSUME NEW t \in Tasks, RefreshPublish(t) PROVE [Promise!Next]_<<backend, floor, lastRead>>
    BY <2>4 DEF RefreshPublish, IInv, TypeOK, BoundsInv
  <2>5. CASE Invalidate
    BY <2>5 DEF Invalidate
  <2>6. CASE BackendChange
    BY <2>6 DEF BackendChange
  <2>7. ASSUME NEW t \in Tasks,
               \/ GetAllCall(t) \/ RefreshCall(t) \/ GetAllRead(t) \/ GetAllLock(t)
               \/ RefreshLock(t) \/ RefreshBegin(t) \/ TakeTicket(t)
               \/ BackendAnswer(t) \/ BackendError(t) \/ Cancel(t)
        PROVE  UNCHANGED <<backend, floor, lastRead>>
    BY <2>7 DEF GetAllCall, RefreshCall, GetAllRead, GetAllLock, RefreshLock,
         RefreshBegin, TakeTicket, BackendAnswer, BackendError, Cancel
  <2>8. CASE UNCHANGED vars
    BY <2>8 DEF vars
  <2>. QED
    BY <2>1, <2>2, <2>3, <2>4, <2>5, <2>6, <2>7, <2>8 DEF Next, LockSteps, OwnSteps, Resting, vars
<1>. QED
  BY <1>1, <1>2, Invariance, PTL DEF Spec, Fresh, Promise!Spec, Promise!vars
=============================================================================
