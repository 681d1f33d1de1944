----------------------------- MODULE MCLlmRuntime -----------------------------
(* LlmRuntime with two candidates for the archive.                             *)
EXTENDS LlmRuntime, TLC

CONSTANTS a, b

MCArchives == <<"zip", "tar.gz">>

Invocations == Permutations({a, b})
=============================================================================
