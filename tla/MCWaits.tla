-------------------------------- MODULE MCWaits --------------------------------
(* What is waited for comes: of a small Session, and of LlmPreparation with a   *)
(* background preparation and callers that use it.  A behaviour is one of a     *)
(* session or one of the tasks that prepare the runtime.                        *)
EXTENDS MCSession, LlmPreparation

CONSTANTS background, a, b, c

VARIABLE side

WaitsInit == Init /\ PreparationInit /\ side \in {"session", "runtime"}

WaitsNext ==
    /\ UNCHANGED side
    /\ \/ side = "session" /\ Next /\ UNCHANGED preparationVars
       \/ side = "runtime" /\ PreparationNext /\ UNCHANGED vars

\* No step of a session is due before its first call.
WaitsSpec ==
    /\ WaitsInit /\ [][WaitsNext]_<<vars, preparationVars, side>>
    /\ Fairness
    /\ \A t \in Tasks : WF_preparationVars(side = "runtime" /\ Step(t))
=============================================================================
