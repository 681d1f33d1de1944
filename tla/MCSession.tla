------------------------------ MODULE MCSession ------------------------------
(* Session on a few calls.                                                   *)
EXTENDS Session, TLC

CONSTANTS k1, k2

OneBackend == [k \in {k1} |-> 1]
TwoBackends == (k1 :> 1 @@ k2 :> 2)

AllConfigs ==
    [mode : {"plain", "memory", "files"}, auth : {"fixed", "refreshed", "perRequest"},
     bridge : BOOLEAN]

\* A host that keeps originals and asks its provider for every request.
AskedPerRequest == [mode : {"memory"}, auth : {"perRequest"}, bridge : BOOLEAN]
=============================================================================
