---------------------------- MODULE ToolSnapshot ----------------------------
(***************************************************************************)
(* What a tool-list cache promises its readers, with no cache in it.  The  *)
(* backend's tool list is the number of times it has changed.  `floor` is  *)
(* the oldest list a reader may still be given: an invalidation raises it  *)
(* to the present list, a completed refresh to at most the present list.   *)
(* A read returns some list between `floor` and the present one; reads are *)
(* numbered, so that each of them is a step.                               *)
(***************************************************************************)
EXTENDS Integers

VARIABLES backend, floor, lastRead

vars == <<backend, floor, lastRead>>

Init == backend = 0 /\ floor = 0 /\ lastRead = [number |-> 0, tools |-> 0]

BackendChange ==
    /\ backend' = backend + 1
    /\ UNCHANGED <<floor, lastRead>>

Invalidate ==
    /\ floor' = backend
    /\ UNCHANGED <<backend, lastRead>>

Refresh ==
    /\ floor' \in floor..backend
    /\ UNCHANGED <<backend, lastRead>>

Read ==
    /\ \E tools \in floor..backend :
          lastRead' = [number |-> lastRead.number + 1, tools |-> tools]
    /\ UNCHANGED <<backend, floor>>

Next == BackendChange \/ Invalidate \/ Refresh \/ Read

Spec == Init /\ [][Next]_vars
=============================================================================
