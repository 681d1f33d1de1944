---------------------------- MODULE ResponseCache ----------------------------
(***************************************************************************)
(* server/response_cache.rs: the bounded, expiring store of originals      *)
(* behind condensed responses.  Entries are kept oldest first.  An entry   *)
(* carries its age, which CacheTick advances up to TTL, in place of the instant *)
(* it was created; a serialized size in place of its bytes.  Every         *)
(* operation runs under the server's mutex, so each is one step.           *)
(***************************************************************************)
EXTENDS Originals

CONSTANTS
    Keys,        \* canonical (backend, tool, arguments, context) keys
    Values,      \* original results
    None,        \* no result (Option::None)
    Sizes,       \* serialized sizes a result may have
    MaxEntries,  \* MAX_ENTRIES
    MaxBytes,    \* MAX_BYTES
    TTL          \* TTL, in ticks

ASSUME CacheAssumption ==
    /\ None \notin Values
    /\ Sizes \subseteq Nat
    /\ MaxEntries \in Nat \ {0}
    /\ MaxBytes \in Nat
    /\ TTL \in Nat \ {0}

VARIABLES
    entries,  \* the queue, oldest entry first
    answer,   \* what the latest get returned
    latest    \* history: what was last inserted under each key

cacheVars == <<entries, answer, latest>>

CacheEntry == [key : Keys, value : Values, bytes : Sizes, age : 0..TTL]

CacheInit ==
    /\ entries = << >>
    /\ answer = None
    /\ latest = [k \in Keys |-> None]

-----------------------------------------------------------------------------
(* The queue *)

Unexpired(queue) == LiveEntries(queue, TTL)

Without(queue, k) == Retained(queue, {i \in DOMAIN queue : queue[i].key # k})

\* The value a get would return: of the newest live entry with the key.
Lookup(queue, k) ==
    LET matching == {i \in DOMAIN queue : queue[i].key = k /\ queue[i].age < TTL}
    IN  IF matching = {} THEN None
        ELSE queue[CHOOSE i \in matching : \A j \in matching : j <= i].value

-----------------------------------------------------------------------------
(* The operations *)

\* Seeded bug: expired entries are neither dropped nor passed over.
GetUnpurged(k) ==
    /\ LET matching == {i \in DOMAIN entries : entries[i].key = k}
       IN  answer' = IF matching = {} THEN None ELSE entries[CHOOSE i \in matching : TRUE].value
    /\ UNCHANGED <<entries, latest>>

CacheGet(k) ==
    /\ entries' = Unexpired(entries)
    /\ answer' = Lookup(entries, k)
    /\ UNCHANGED latest

\* Seeded bug: eviction looks at the number of entries only.
InsertUnweighed(k, v, bytes) ==
    /\ entries' = IF bytes > MaxBytes
                  THEN Without(Unexpired(entries), k)
                  ELSE Append(EvictedFor(Without(Unexpired(entries), k), 0, MaxEntries, MaxBytes),
                              [key |-> k, value |-> v, bytes |-> bytes, age |-> 0])
    /\ latest' = [latest EXCEPT ![k] = v]
    /\ UNCHANGED answer

\* The old entry of the key goes even when the new one is too large to keep.
CacheInsert(k, v, bytes) ==
    LET kept == Without(Unexpired(entries), k)
    IN  /\ entries' = IF bytes > MaxBytes
                      THEN kept
                      ELSE Append(EvictedFor(kept, bytes, MaxEntries, MaxBytes),
                                  [key |-> k, value |-> v, bytes |-> bytes, age |-> 0])
        /\ latest' = [latest EXCEPT ![k] = v]
        /\ UNCHANGED answer

CacheRemove(k) ==
    /\ entries' = Without(entries, k)
    /\ latest' = [latest EXCEPT ![k] = None]
    /\ UNCHANGED answer

CacheClear ==
    /\ entries' = << >>
    /\ latest' = [k \in Keys |-> None]
    /\ UNCHANGED answer

\* Time passes.
CacheTick ==
    /\ entries' = Older(entries, TTL)
    /\ UNCHANGED <<answer, latest>>

CacheNext ==
    \/ \E k \in Keys : CacheGet(k)
    \/ \E k \in Keys, v \in Values, bytes \in Sizes : CacheInsert(k, v, bytes)
    \/ \E k \in Keys : CacheRemove(k)
    \/ CacheClear
    \/ CacheTick

CacheSpec == CacheInit /\ [][CacheNext]_cacheVars

-----------------------------------------------------------------------------
(* Properties *)

\* Each variable has its type.
CacheTypeOK ==
    /\ entries \in Seq(CacheEntry)
    /\ answer \in Values \cup {None}
    /\ latest \in [Keys -> Values \cup {None}]

\* However sizes and keys mix, the queue stays within both limits and
\* holds one entry per key, oldest first.
Bounded ==
    /\ Len(entries) <= MaxEntries
    /\ TotalBytes(entries) <= MaxBytes
    /\ \A i, j \in DOMAIN entries : i < j =>
          /\ entries[i].key # entries[j].key
          /\ entries[i].age >= entries[j].age

\* A get never answers with anything but the result of the last insert of its
\* key: a result too large to keep, and a removal, still displace the old one.
NeverOutdated == \A k \in Keys : Lookup(entries, k) \in {None, latest[k]}

\* Both at once: making room never brings an older result back into sight.
CurrentWithinLimits == CacheTypeOK /\ Bounded /\ NeverOutdated

\* The cache is a lossy map from keys to live values: an answer is the value
\* last inserted under its key, and nothing forgotten, replaced or expired
\* is ever answered again.
Map == INSTANCE LossyMap WITH store <- [k \in Keys |-> Lookup(entries, k)]
IsLossyMap == Map!Spec
=============================================================================
