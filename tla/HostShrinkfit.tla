---------------------------- MODULE HostShrinkfit ----------------------------
(***************************************************************************)
(* shrinkfitTools of the TypeScript package (host_shrinkfit.ts, with the   *)
(* loop of output_shrinking.rs that it calls off the event loop): tools of *)
(* a host whose long answers are condensed block by block, with a recovery *)
(* cache per toolset and a few places for CPU jobs shared by all toolsets. *)
(* Code between two awaits runs uninterrupted: while `running` names a     *)
(* call, no other JavaScript runs.  Lengths are characters, sizes bytes.   *)
(***************************************************************************)
EXTENDS Originals, FiniteSets

CONSTANTS
    Toolsets,
    Calls,       \* executions of a tool; a call stands for its recovery id too
    ToolsetOf,   \* the toolset of a call
    Responses,   \* answers that tools give
    Limit,       \* the option shrinkfit
    MaxJobs,     \* 4 jobs
    MaxOriginals,  \* 128 originals
    MaxOriginalBytes,    \* 64 MiB of them
    Lifetime,    \* 5 minutes, in ticks
    Attempts,    \* 8 rounds of the shrinking loop
    Slack,       \* 16 characters given up with every round
    NoCall

\* A response has the lengths of its text blocks in ascending order, the length of
\* the text they make, the bytes of the whole, and whether it is an error or has
\* other content than text.
Response == [bypass : BOOLEAN, blocks : Seq(Nat), total : Nat, bytes : Nat \ {0}]

ASSUME ShrinkfitAssumption ==
    /\ ToolsetOf \in [Calls -> Toolsets]
    /\ Responses \subseteq Response
    /\ Limit \in Nat \ {0} /\ MaxJobs \in Nat \ {0} /\ MaxOriginals \in Nat \ {0}
    /\ MaxOriginalBytes \in Nat \ {0} /\ Lifetime \in Nat \ {0} /\ Attempts \in Nat \ {0}
    /\ Slack \in Nat
    /\ NoCall \notin Calls

VARIABLES
    pc,        \* where each call is
    running,   \* the call whose code runs, between two awaits
    work,      \* what each call has in hand
    activeJobs,
    waiters,   \* calls that wait for a place
    cache,     \* originals of each toolset, oldest first
    bytes,     \* their size as the toolset counts it
    closed

jobs == <<activeJobs, waiters>>
stores == <<cache, bytes, closed>>
vars == <<pc, running, work, jobs, stores>>

\* The answer, the next block, the characters left for the blocks from there on and
\* used by those before; of the job for a block its budget, the max_chars of the
\* present round and the rounds so far.
Nothing == [response |-> [bypass |-> TRUE, blocks |-> <<>>, total |-> 0, bytes |-> 1],
            index |-> 1, remaining |-> 0, used |-> 0, budget |-> 0, target |-> 0, rounds |-> 0]

Work == [response : Response, index : Nat \ {0}, remaining : Int, used : Nat,
         budget : Nat, target : Nat, rounds : Nat]

At(c, here) == pc[c] = here
Goto(c, there) == pc' = [pc EXCEPT ![c] = there]
LetGo(c) == work' = [work EXCEPT ![c] = Nothing]

Blocks(c) == work[c].response.blocks

Init ==
    /\ pc = [c \in Calls |-> "idle"]
    /\ running = NoCall
    /\ work = [c \in Calls |-> Nothing]
    /\ activeJobs = 0
    /\ waiters = <<>>
    /\ cache = [t \in Toolsets |-> <<>>]
    /\ bytes = [t \in Toolsets |-> 0]
    /\ closed = [t \in Toolsets |-> FALSE]

-----------------------------------------------------------------------------
(* The recovery cache of a toolset *)

\* prune
Live(originals) == LiveEntries(originals, Lifetime)

\* remove, of all that is in the cache of t and not in kept.
Counted(t, kept) == bytes[t] - (TotalBytes(cache[t]) - TotalBytes(kept))

\* The oldest are removed until the count and the bytes leave room.
Evicted(originals, size) == EvictedFor(originals, size, MaxOriginals, MaxOriginalBytes)

Entry(c) == [id |-> c, bytes |-> work[c].response.bytes, age |-> 0]

-----------------------------------------------------------------------------
(* The ways to a tool *)

\* As it is, through the wrappers of compressTools, or through the HTTP bridge.
Requests == [via : {"direct", "compressed", "bridge"}, authorized : BOOLEAN,
             path : {"exec", "other"}, known : BOOLEAN, complete : BOOLEAN]

\* invoke_tool asks for the tool and its required fields, the bridge for the path,
\* the token and the tool.
Executes(r) ==
    /\ r.via = "compressed" => r.known /\ r.complete
    /\ r.via = "bridge" => r.path = "exec" /\ r.authorized /\ r.known

Refuse(c) ==
    /\ At(c, "idle") /\ running = NoCall
    /\ \E r \in Requests : ~Executes(r) \/ closed[ToolsetOf[c]]
    /\ Goto(c, "failed")
    /\ UNCHANGED <<running, work, jobs, stores>>

Invoke(c) ==
    /\ At(c, "idle") /\ running = NoCall
    /\ ~closed[ToolsetOf[c]]
    /\ \E r \in Requests : Executes(r)
    /\ Goto(c, "executing")
    /\ UNCHANGED <<running, work, jobs, stores>>

ToolFails(c) ==
    /\ At(c, "executing") /\ running = NoCall
    /\ Goto(c, "failed")
    /\ UNCHANGED <<running, work, jobs, stores>>

\* Short answers, errors and other content than text are passed on as they are.
AnswerPassesOn(c, r) ==
    /\ At(c, "executing") /\ running = NoCall
    /\ r.bypass \/ r.total <= Limit
    /\ Goto(c, "original")
    /\ UNCHANGED <<running, work, jobs, stores>>

AnswerIsTooLong(c, r) ==
    /\ At(c, "executing") /\ running = NoCall
    /\ ~r.bypass /\ r.total > Limit
    /\ work' = [work EXCEPT ![c].response = r, ![c].remaining = Limit - (Len(r.blocks) - 1)]
    /\ Goto(c, "divide") /\ running' = c
    /\ UNCHANGED <<jobs, stores>>

-----------------------------------------------------------------------------
(* The division of the limit among the blocks *)

\* What is left is divided equally among the blocks from here on.
Share(c) == work[c].remaining \div (Len(Blocks(c)) - work[c].index + 1)

Dividing(c) == At(c, "divide") /\ running = c /\ work[c].index <= Len(Blocks(c))

AllPlaced(c) == At(c, "divide") /\ work[c].index > Len(Blocks(c))

\* A block takes its place in the preview.
Placed(c, length) ==
    work' = [work EXCEPT ![c].index = @ + 1, ![c].used = @ + length,
                         ![c].remaining = @ - length,
                         ![c].budget = 0, ![c].target = 0, ![c].rounds = 0]

\* Seeded bug: every block may take all that is left.
BlockFitsUnshared(c) ==
    /\ Dividing(c)
    /\ Share(c) >= 1
    /\ Blocks(c)[work[c].index] <= Limit
    /\ Placed(c, Blocks(c)[work[c].index])
    /\ UNCHANGED <<pc, running, jobs, stores>>

BlockFits(c) ==
    /\ Dividing(c)
    /\ Share(c) >= 1
    /\ Blocks(c)[work[c].index] <= Share(c)
    /\ Placed(c, Blocks(c)[work[c].index])
    /\ UNCHANGED <<pc, running, jobs, stores>>

BudgetTooSmall(c) ==
    /\ Dividing(c)
    /\ Share(c) < 1
    /\ LetGo(c)
    /\ Goto(c, "failed") /\ running' = NoCall
    /\ UNCHANGED <<jobs, stores>>

\* shrinkOutput: the call takes a free place or waits for one.
BlockShrinks(c) ==
    /\ Dividing(c)
    /\ Share(c) >= 1
    /\ Blocks(c)[work[c].index] > Share(c)
    /\ work' = [work EXCEPT ![c].budget = Share(c), ![c].target = Share(c)]
    /\ running' = NoCall
    /\ IF activeJobs >= MaxJobs
       THEN Goto(c, "wait") /\ waiters' = Append(waiters, c) /\ UNCHANGED activeJobs
       ELSE Goto(c, "job") /\ activeJobs' = activeJobs + 1 /\ UNCHANGED waiters
    /\ UNCHANGED stores

-----------------------------------------------------------------------------
(* A job *)

\* Seeded bug: the place is handed on and given back.
LeavePlaceTwice(c, there) ==
    /\ activeJobs' = activeJobs - 1
    /\ IF waiters = <<>> THEN Goto(c, there) /\ UNCHANGED waiters
       ELSE /\ waiters' = Tail(waiters)
            /\ pc' = [pc EXCEPT ![c] = there, ![Head(waiters)] = "job"]

\* finally: the first waiter takes over the place, or it is free again.
LeavePlace(c, there) ==
    IF waiters = <<>>
    THEN /\ activeJobs' = activeJobs - 1
         /\ Goto(c, there)
         /\ UNCHANGED waiters
    ELSE /\ waiters' = Tail(waiters)
         /\ pc' = [pc EXCEPT ![c] = there, ![Head(waiters)] = "job"]
         /\ UNCHANGED activeJobs

\* The round's text and notice fit into the budget: the block is condensed.
RoundFits(c) ==
    /\ At(c, "job") /\ running = NoCall
    /\ \E length \in 1..work[c].budget : Placed(c, length)
    /\ LeavePlace(c, "divide") /\ running' = c
    /\ UNCHANGED stores

\* Proportionally less, less some slack, and less than before in any case.
Smaller(of, length, allowed) ==
    LET wanted == (of * allowed) \div length - Slack
        least == IF wanted < 1 THEN 1 ELSE wanted
    IN IF least < of - 1 THEN least ELSE of - 1

\* It is too long, or omits what it must not, and there is another round at a
\* smaller size.
RoundTooLong(c) ==
    /\ At(c, "job")
    /\ work[c].target > 1 /\ work[c].rounds + 1 < Attempts
    /\ \E length \in {work[c].budget, work[c].budget + 1, 2 * work[c].budget} :
          work' = [work EXCEPT ![c].target = Smaller(@, length, work[c].budget),
                               ![c].rounds = @ + 1]
    /\ UNCHANGED <<pc, running, jobs, stores>>

\* No round is left, or there is nothing less to try.
JobFails(c) ==
    /\ At(c, "job") /\ running = NoCall
    /\ work[c].target = 1 \/ work[c].rounds + 1 = Attempts
    /\ LeavePlace(c, "failed")
    /\ LetGo(c)
    /\ UNCHANGED <<running, stores>>

-----------------------------------------------------------------------------
(* All blocks are placed: the original is kept and the preview returned *)

\* Seeded bug: whether the toolset is still open is not asked again.
KeepableUnasked(c) == work[c].response.bytes <= MaxOriginalBytes

Keepable(c) == ~closed[ToolsetOf[c]] /\ work[c].response.bytes <= MaxOriginalBytes

\* Seeded bug: what has expired is removed without being taken off the count.
KeepMiscounted(c, t) ==
    LET kept == Evicted(Live(cache[t]), work[c].response.bytes)
    IN /\ cache' = [cache EXCEPT ![t] = Append(kept, Entry(c))]
       /\ bytes' = [bytes EXCEPT ![t] = @ - (TotalBytes(Live(cache[t])) - TotalBytes(kept))
                                          + work[c].response.bytes]

Keep(c, t) ==
    LET kept == Evicted(Live(cache[t]), work[c].response.bytes)
    IN /\ cache' = [cache EXCEPT ![t] = Append(kept, Entry(c))]
       /\ bytes' = [bytes EXCEPT ![t] = Counted(t, kept) + work[c].response.bytes]

Returns(c) ==
    /\ AllPlaced(c) /\ running = c
    /\ Keepable(c)
    /\ Keep(c, ToolsetOf[c])
    /\ LetGo(c)
    /\ Goto(c, "preview") /\ running' = NoCall
    /\ UNCHANGED <<closed, jobs>>

CannotKeep(c) ==
    /\ AllPlaced(c) /\ running = c
    /\ ~Keepable(c)
    /\ LetGo(c)
    /\ Goto(c, "failed") /\ running' = NoCall
    /\ UNCHANGED <<jobs, stores>>

-----------------------------------------------------------------------------
(* The recovery tool, the clock and close *)

\* Whether the recovery tool answers with a call's original.
Recoverable(c) ==
    /\ ~closed[ToolsetOf[c]]
    /\ \E i \in DOMAIN cache[ToolsetOf[c]] :
          cache[ToolsetOf[c]][i].id = c /\ cache[ToolsetOf[c]][i].age < Lifetime

\* Whatever it answers, what has expired is removed.
Recover(t) ==
    /\ running = NoCall
    /\ cache' = [cache EXCEPT ![t] = Live(@)]
    /\ bytes' = [bytes EXCEPT ![t] = Counted(t, Live(cache[t]))]
    /\ UNCHANGED <<pc, running, work, jobs, closed>>

Tick ==
    /\ cache' = [t \in Toolsets |-> Older(cache[t], Lifetime)]
    /\ UNCHANGED <<pc, running, work, jobs, bytes, closed>>

Close(t) ==
    /\ running = NoCall
    /\ closed' = [closed EXCEPT ![t] = TRUE]
    /\ cache' = [cache EXCEPT ![t] = <<>>]
    /\ bytes' = [bytes EXCEPT ![t] = 0]
    /\ UNCHANGED <<pc, running, work, jobs>>

Execute(c) ==
    \/ Refuse(c) \/ Invoke(c) \/ ToolFails(c)
    \/ \E r \in Responses : AnswerPassesOn(c, r) \/ AnswerIsTooLong(c, r)
    \/ BlockFits(c) \/ BudgetTooSmall(c) \/ BlockShrinks(c) \/ Returns(c) \/ CannotKeep(c)

Job(c) == RoundFits(c) \/ RoundTooLong(c) \/ JobFails(c)

Next ==
    \/ \E c \in Calls : Execute(c) \/ Job(c)
    \/ \E t \in Toolsets : Recover(t) \/ Close(t)
    \/ Tick

Spec == Init /\ [][Next]_vars

-----------------------------------------------------------------------------
(* Properties *)

\* Each variable has its type.
TypeOK ==
    /\ pc \in [Calls -> {"idle", "executing", "divide", "wait", "job",
                         "original", "preview", "failed"}]
    /\ running \in Calls \cup {NoCall}
    /\ work \in [Calls -> Work]
    /\ activeJobs \in Int
    /\ waiters \in Seq(Calls)
    /\ cache \in [Toolsets -> Seq([id : Calls, bytes : Nat \ {0}, age : 0..Lifetime])]
    /\ bytes \in [Toolsets -> Int]
    /\ closed \in [Toolsets -> BOOLEAN]

\* When all blocks are placed, the preview's text, with the line breaks between them,
\* is within the option's limit, whatever the shrinking made of each block.
WithinLimit ==
    \A c \in Calls : AllPlaced(c) => work[c].used + Len(Blocks(c)) - 1 <= Limit

\* A call that was still condensing when its toolset was closed leaves nothing in
\* the cache that close has cleared.
ClosedKeepsNothing ==
    \A t \in Toolsets : closed[t] => cache[t] = <<>> /\ bytes[t] = 0

\* A preview advertises an id, so its original is there when it is returned,
\* whatever had to be evicted for it.
PreviewIsRecoverable ==
    [][\A c \in Calls : At(c, "divide") /\ At(c, "preview")' => Recoverable(c)']_vars

\* A place is with one job, free, or handed to the first who waits: never more jobs
\* than places, nobody waiting beside a free place, nobody waiting unheard.
PlacesAreHandedOn ==
    /\ activeJobs = Cardinality({c \in Calls : At(c, "job")})
    /\ activeJobs <= MaxJobs
    /\ waiters # <<>> => activeJobs = MaxJobs
    /\ {waiters[i] : i \in DOMAIN waiters} = {c \in Calls : At(c, "wait")}

\* The running count of bytes, which decides about eviction, is the size of what is
\* kept, through expiry, eviction and close; and both limits hold.
CountIsExact ==
    \A t \in Toolsets :
        /\ bytes[t] = TotalBytes(cache[t]) /\ bytes[t] <= MaxOriginalBytes
        /\ Len(cache[t]) <= MaxOriginals

\* What a toolset keeps and what it counts never drift apart, and close ends both.
StoresAddUp == TypeOK /\ CountIsExact /\ ClosedKeepsNothing
=============================================================================
