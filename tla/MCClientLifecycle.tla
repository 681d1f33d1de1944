------------------------- MODULE MCClientLifecycle -------------------------
EXTENDS ClientLifecycle, TLC

\* Calls are interchangeable, and so are sessions.
Symmetry == Permutations(Calls) \cup Permutations(Sessions)

=============================================================================
