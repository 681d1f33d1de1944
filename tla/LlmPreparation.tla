---------------------------- MODULE LlmPreparation ----------------------------
(***************************************************************************)
(* LlmPreparationManager (llm_assist/mod.rs): several tasks ask for the    *)
(* local runtime; the first one prepares it and the others wait on a       *)
(* tokio Notify.  A section under the state mutex has no await in it and   *)
(* is one step.  Between that section and the creation of the Notified     *)
(* future another thread may run, so registering is a step of its own;     *)
(* notify_waiters wakes the futures that exist and leaves no permit.       *)
(***************************************************************************)
EXTENDS FiniteSets

CONSTANTS
    Tasks,      \* calls of prepare
    Droppable   \* those whose future its caller may drop; the task spawned
                \* by start_background is not one of them

ASSUME PreparationAssumption ==
    /\ IsFiniteSet(Tasks)
    /\ Droppable \subseteq Tasks

VARIABLES
    state,    \* PreparationState
    call,      \* where each call is
    returned   \* what each call returned

preparationVars == <<state, call, returned>>

States == {"NotStarted", "Preparing", "Ready", "Failed"}
Finished == {"Ready", "Failed"}
Places == {"new", "preparing", "register", "waiting", "woken", "done"}

PreparationInit ==
    /\ state = "NotStarted"
    /\ call = [t \in Tasks |-> "new"]
    /\ returned = [t \in Tasks |-> "none"]

CallAt(t, here) == call[t] = here

CallGoto(t, there) == call' = [call EXCEPT ![t] = there]

Return(t, how) ==
    /\ CallGoto(t, "done")
    /\ returned' = [returned EXCEPT ![t] = how]

\* Seeded bug: notify_one.
WokenFirst(of) ==
    IF \E u \in Tasks : of[u] = "waiting"
    THEN [of EXCEPT ![CHOOSE u \in Tasks : of[u] = "waiting"] = "woken"]
    ELSE of

\* The Notified futures that exist when notify_waiters is called.
Woken(of) == [u \in Tasks |-> IF of[u] = "waiting" THEN "woken" ELSE of[u]]

-----------------------------------------------------------------------------
(* prepare *)

\* An earlier call has finished: its result is shared.
ReturnShared(t) ==
    /\ CallAt(t, "new")
    /\ state \in Finished
    /\ Return(t, state)
    /\ UNCHANGED state

\* Seeded bug: the state changes once the preparation has ended.
StartUnclaimed(t) ==
    /\ CallAt(t, "new")
    /\ state = "NotStarted"
    /\ CallGoto(t, "preparing")
    /\ UNCHANGED <<state, returned>>

Start(t) ==
    /\ CallAt(t, "new")
    /\ state = "NotStarted"
    /\ state' = "Preparing"
    /\ CallGoto(t, "preparing")
    /\ UNCHANGED returned

\* Another call is preparing: the mutex is released, no future exists yet.
FindPreparing(t) ==
    /\ CallAt(t, "new")
    /\ state = "Preparing"
    /\ CallGoto(t, "register")
    /\ UNCHANGED <<state, returned>>

Register(t) ==
    /\ CallAt(t, "register")
    /\ CallGoto(t, "waiting")
    /\ UNCHANGED <<state, returned>>

\* prepare_inner ends; under the mutex the result is stored and announced.
Conclude(t) ==
    /\ CallAt(t, "preparing")
    /\ \E result \in Finished :
          /\ state' = result
          /\ call' = [Woken(call) EXCEPT ![t] = "done"]
          /\ returned' = [returned EXCEPT ![t] = result]

\* The loop: a wakeup that finds no final state registers again.
Wake(t) ==
    /\ CallAt(t, "woken")
    /\ IF state \in Finished THEN Return(t, state)
       ELSE CallGoto(t, "register") /\ UNCHANGED returned
    /\ UNCHANGED state

\* The caller drops its future.  Nothing puts Preparing back.
DropFuture(t) ==
    /\ t \in Droppable
    /\ call[t] \in {"preparing", "waiting", "woken"}
    /\ Return(t, "dropped")
    /\ UNCHANGED state

Step(t) ==
    \/ ReturnShared(t) \/ Start(t) \/ FindPreparing(t) \/ Register(t)
    \/ Conclude(t) \/ Wake(t)

PreparationNext == \E t \in Tasks : Step(t) \/ DropFuture(t)

PreparationSpec == PreparationInit /\ [][PreparationNext]_preparationVars

\* Tasks are scheduled, and downloads end or fail.
PreparationFairSpec == PreparationSpec /\ \A t \in Tasks : WF_preparationVars(Step(t))

-----------------------------------------------------------------------------
(* Properties *)

PreparationTypeOK ==
    /\ state \in States
    /\ call \in [Tasks -> Places]
    /\ returned \in [Tasks -> Finished \cup {"none", "dropped"}]

\* Of overlapping calls one prepares, and preparation is in progress only
\* while the state says so: the downloads of prepare_inner never overlap.
OnePreparation ==
    \A t \in Tasks : CallAt(t, "preparing") =>
        /\ state = "Preparing"
        /\ \A u \in Tasks : CallAt(u, "preparing") => u = t

\* Every call that returns, early or late, gets the one result there is, and
\* no call is woken before there is one.
SharedResult ==
    \A t \in Tasks :
        /\ returned[t] \in Finished => returned[t] = state
        /\ CallAt(t, "woken") => state \in Finished

\* The preparing call was dropped: nothing will ever end this preparation.
Abandoned == state = "Preparing" /\ \A t \in Tasks : ~CallAt(t, "preparing")

\* A call that has registered before the preparation ends returns, with any
\* number of others waiting or dropped, unless the call that prepares is dropped.
RegisteredReturn ==
    \A t \in Tasks :
        CallAt(t, "waiting") /\ state = "Preparing" ~> CallAt(t, "done") \/ Abandoned

\* The design's step 4: "on first LLM use, wait for preparation if it is still
\* running", of a call that finds it running.
LateCallerReturns == \A t \in Tasks : CallAt(t, "register") ~> CallAt(t, "done")
=============================================================================
