--------------------------- MODULE MCLlmPreparation ---------------------------
(* LlmPreparation with a background preparation and callers that use it.       *)
EXTENDS LlmPreparation, TLC

CONSTANTS background, a, b, c
=============================================================================
