--------------------------- MODULE MCRecoveryCaches ---------------------------
(* The two stores of originals, the server's (ResponseCache) and the one of a   *)
(* host's toolsets (HostShrinkfit), each on its own: a behaviour is one of the  *)
(* server's or one of the host's.                                               *)
EXTENDS HostShrinkfit, ResponseCache, TLC

CONSTANTS a, b, c, d

VARIABLE side

\* One toolset has three calls, the other has one.
MCToolsetOf == [x \in {a, b, c, d} |-> IF x = d THEN 2 ELSE 1]

Text(blocks, total, size) ==
    [bypass |-> FALSE, blocks |-> blocks, total |-> total, bytes |-> size]

\* An error, a short answer, one that has room for its small block, one that has
\* none for its many blocks, and one too large to keep.
MCResponses ==
    {[bypass |-> TRUE, blocks |-> <<9>>, total |-> 9, bytes |-> 3], Text(<<3>>, 3, 1),
     Text(<<2, 5>>, 8, 2), Text(<<9>>, 9, 3), Text(<<3, 3, 3, 3>>, 15, 2), Text(<<9>>, 9, 9)}

Interchangeable == Permutations({a, b, c})

CachesInit ==
    /\ Init /\ CacheInit
    /\ side \in {"server", "host"}

CachesNext ==
    /\ UNCHANGED side
    /\ \/ side = "server" /\ CacheNext /\ UNCHANGED vars
       \/ side = "host" /\ Next /\ UNCHANGED cacheVars

CachesSpec == CachesInit /\ [][CachesNext]_<<vars, cacheVars, side>>
=============================================================================
