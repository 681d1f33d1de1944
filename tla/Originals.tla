------------------------------ MODULE Originals ------------------------------
(***************************************************************************)
(* A bounded store of originals, as the server (response_cache.rs) and the *)
(* hosts of toolsets (host_shrinkfit.ts) keep it: a queue, oldest first,   *)
(* whose entries have a size in bytes and an age in ticks, in place of the *)
(* instant of their creation or of their expiry.                           *)
(***************************************************************************)
EXTENDS Integers, Sequences

\* What is left of a queue when only the entries at certain places stay.
Retained(queue, places) ==
    LET kept[i \in 0..Len(queue)] ==
            IF i = 0 THEN << >>
            ELSE IF i \in places THEN Append(kept[i - 1], queue[i]) ELSE kept[i - 1]
    IN kept[Len(queue)]

LiveEntries(queue, lifetime) ==
    Retained(queue, {i \in DOMAIN queue : queue[i].age < lifetime})

TotalBytes(queue) ==
    LET total[i \in 0..Len(queue)] == IF i = 0 THEN 0 ELSE total[i - 1] + queue[i].bytes
    IN total[Len(queue)]

HasRoom(queue, bytes, maxEntries, maxBytes) ==
    /\ Len(queue) < maxEntries
    /\ TotalBytes(queue) + bytes <= maxBytes

\* Pop from the front until the entry fits: the longest suffix with room.
EvictedFor(queue, bytes, maxEntries, maxBytes) ==
    LET Rest(n) == SubSeq(queue, n + 1, Len(queue))
        popped == CHOOSE n \in 0..Len(queue) :
                     /\ HasRoom(Rest(n), bytes, maxEntries, maxBytes)
                     /\ \A m \in 0..(n - 1) : ~HasRoom(Rest(m), bytes, maxEntries, maxBytes)
    IN Rest(popped)

\* Time passes; what has expired does not grow older.
Older(queue, lifetime) ==
    [i \in DOMAIN queue |->
        [queue[i] EXCEPT !.age = IF @ < lifetime THEN @ + 1 ELSE @]]
=============================================================================
