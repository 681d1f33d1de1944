---------------------------- MODULE FrontendProofs ----------------------------
(***************************************************************************)
(* For any configurations: what a start leaves behind and what a server    *)
(* that serves has (BackendConnect), and which backend its wrappers call   *)
(* (Frontend) and every other way in reaches (Passthrough); and for any    *)
(* descriptions of backends, flags, requests and callbacks, that the ways  *)
(* to give them agree (ConfigTopology, StartUp, HttpRequests and           *)
(* LoginCallback).                                                         *)
(***************************************************************************)
EXTENDS MCFrontend, SequenceTheorems, FiniteSetTheorems, WellFoundedInduction, TLAPS

\* Backend i's list l is settled.
Settled(i, l) == l \in refused[i] \/ found[i][l] = Offered(i, l)

\* What has been done when the start is at a backend: those before it are
\* connected and listed, those after it untouched, and it has been asked for
\* the lists before the one the start waits for.
ProgressInv ==
    stage # "failed" =>
        \A i \in Backends :
            /\ i < at => tree[i] = "open" /\ \A l \in Lists : Settled(i, l)
            /\ i = at /\ stage \in {"resources", "prompts"} => Settled(i, "tools")
            /\ i = at /\ stage = "prompts" => Settled(i, "resources")
            /\ i > at => tree[i] = "none"

\* A server serves once no backend is left.
EndInv == stage = "serving" => at = Len(config.backends) + 1

IInv == TypeOK /\ ProgressInv /\ EndInv

\* What a step that lists nothing leaves settled.
LEMMA SettledKept ==
  ASSUME UNCHANGED <<config, found, refused>>
  PROVE  \A i, l : Settled(i, l)' <=> Settled(i, l)
<1>1. \A i, l : Offered(i, l)' = Offered(i, l)
  BY DEF Offered, Kept, Backend
<1> QED
  BY <1>1 DEF Settled

LEMMA InitInv == Init => IInv
<1> SUFFICES ASSUME Init PROVE IInv
  OBVIOUS
<1>1. config \in Configs /\ Len(config.backends) \in Nat
  BY ConfigsAssumption DEF Init
<1>2. TypeOK
  BY <1>1 DEF Init, TypeOK, Backends, Stages, Ended, Lists, Trees, NoLists
<1>3. ProgressInv /\ EndInv
  BY <1>1 DEF Init, ProgressInv, EndInv, Backends
<1> QED
  BY <1>2, <1>3 DEF IInv

\* A start that fails keeps the types, and has nothing more to keep.
LEMMA FailInv ==
  ASSUME IInv, NEW t \in Trees \ {"open"}, Fail(t)
  PROVE  IInv'
<1>1. Len(config.backends) \in Nat /\ config' = config /\ stage' = "failed"
  BY ConfigsAssumption DEF IInv, TypeOK, Fail
<1>2. tree' \in [Backends' -> Trees]
  BY <1>1 DEF Fail, IInv, TypeOK, Trees, Backends
<1>3. TypeOK'
  BY <1>1, <1>2 DEF Fail, IInv, TypeOK, Stages, Ended, Lists, Backends
<1> QED
  BY <1>1, <1>3 DEF IInv, ProgressInv, EndInv

\* Going on keeps the invariant when the list that the start waited for is
\* settled and nothing else has changed.
LEMMA GoOnInv ==
  ASSUME IInv, stage \in Lists, GoOn,
         DOMAIN found' = Backends, \A i \in Backends : DOMAIN found'[i] = Lists,
         refused' \in [Backends -> SUBSET {"resources", "prompts"}],
         \A i \in Backends, l \in Lists :
             /\ Settled(i, l) => Settled(i, l)'
             /\ i = at /\ l = stage => Settled(i, l)'
  PROVE  IInv'
<1>1. Len(config.backends) \in Nat /\ config' = config /\ tree' = tree /\ at \in Backends
  BY ConfigsAssumption DEF IInv, TypeOK, GoOn
<1>2. /\ stage' = IF stage = "tools" THEN "resources" ELSE IF stage = "resources" THEN "prompts" ELSE "next"
      /\ at' = IF stage = "prompts" THEN at + 1 ELSE at
  BY DEF GoOn, After, Lists
<1>3. TypeOK'
  <2>1. at' \in 1..(Len(config.backends) + 1)
    BY <1>1, <1>2 DEF Backends
  <2>2. stage' \in {"resources", "prompts", "next"}
    BY <1>2
  <2>3. stage' \in Lists => at' = at
    BY <1>2 DEF Lists
  <2>4. tree[at] = "open" /\ tree \in [Backends -> Trees] /\ config \in Configs
    BY DEF IInv, TypeOK, Lists
  <2> QED
    BY <1>1, <2>1, <2>2, <2>3, <2>4 DEF TypeOK, Stages, Lists, Backends
<1>4. ProgressInv'
  <2> SUFFICES ASSUME NEW i \in Backends
               PROVE  /\ i < at' => tree[i] = "open" /\ \A l \in Lists : Settled(i, l)'
                      /\ i = at' /\ stage' \in {"resources", "prompts"} => Settled(i, "tools")'
                      /\ i = at' /\ stage' = "prompts" => Settled(i, "resources")'
                      /\ i > at' => tree[i] = "none"
    BY <1>1 DEF ProgressInv, Backends
  <2>1. stage # "failed" /\ tree[at] = "open" /\ i \in Nat /\ at \in Nat
    BY <1>1 DEF IInv, TypeOK, Lists, Backends
  <2>2. CASE i = at
    <3>1. CASE stage = "tools"
      BY <1>2, <2>1, <2>2, <3>1 DEF Lists
    <3>2. CASE stage = "resources"
      BY <1>2, <2>1, <2>2, <3>2 DEF Lists, IInv, ProgressInv
    <3>3. CASE stage = "prompts"
      BY <1>2, <2>1, <2>2, <3>3 DEF Lists, IInv, ProgressInv
    <3> QED
      BY <3>1, <3>2, <3>3 DEF Lists
  <2>3. CASE i < at
    BY <1>2, <2>1, <2>3 DEF IInv, ProgressInv
  <2>4. CASE i > at
    BY <1>2, <2>1, <2>4 DEF IInv, ProgressInv
  <2> QED
    BY <2>1, <2>2, <2>3, <2>4
<1>5. EndInv'
  BY <1>2 DEF EndInv
<1> QED
  BY <1>3, <1>4, <1>5 DEF IInv

LEMMA NextInv == IInv /\ [Next]_vars => IInv'
<1> SUFFICES ASSUME IInv, [Next]_vars PROVE IInv'
  OBVIOUS
<1>0. Len(config.backends) \in Nat /\ "none" \in Trees \ {"open"} /\ "dropped" \in Trees \ {"open"}
  BY ConfigsAssumption DEF IInv, TypeOK, Trees
<1>t. Terminated \in Trees \ {"open"}
  BY DEF Terminated, Trees
<1>1. CASE RejectLimit
  BY <1>0, <1>1, FailInv DEF RejectLimit
<1>2. CASE SpawnFails
  BY <1>0, <1>2, FailInv DEF SpawnFails
<1>3. CASE Connect
  <2>1. TypeOK'
    BY <1>0, <1>3 DEF Connect, IInv, TypeOK, Stages, Lists, Trees, Backends
  <2>2. ProgressInv' /\ EndInv'
    <3>1. \A i, l : Settled(i, l)' <=> Settled(i, l)
      BY <1>3, SettledKept DEF Connect
    <3> QED
      BY <1>0, <1>3, <3>1 DEF Connect, IInv, TypeOK, ProgressInv, EndInv, Backends, Lists
  <2> QED
    BY <2>1, <2>2 DEF IInv
<1>4. CASE Connected
  <2>1. TypeOK'
    BY <1>0, <1>4 DEF Connected, IInv, TypeOK, Stages, Lists, Trees, Backends
  <2>2. ProgressInv' /\ EndInv'
    <3>1. \A i, l : Settled(i, l)' <=> Settled(i, l)
      BY <1>4, SettledKept DEF Connected
    <3> QED
      BY <1>0, <1>4, <3>1 DEF Connected, IInv, TypeOK, ProgressInv, EndInv, Backends, Lists
  <2> QED
    BY <2>1, <2>2 DEF IInv
<1>5. CASE ConnectRefused
  BY <1>0, <1>5, FailInv DEF ConnectRefused
<1>6. CASE Listed
  <2>1. /\ stage \in Lists /\ GoOn /\ at \in Backends /\ UNCHANGED <<config, refused>>
        /\ found' = [found EXCEPT ![at] = [@ EXCEPT ![stage] = Offered(at, stage)]]
    BY <1>6 DEF Listed, GoOn, IInv, TypeOK
  <2>2. DOMAIN found' = Backends /\ \A i \in Backends : DOMAIN found'[i] = Lists
    BY <2>1 DEF IInv, TypeOK
  <2>3. refused' \in [Backends -> SUBSET {"resources", "prompts"}]
    BY <2>1 DEF IInv, TypeOK
  <2>4. /\ found'[at][stage] = Offered(at, stage)
        /\ \A i \in Backends, l \in Lists : ~(i = at /\ l = stage) => found'[i][l] = found[i][l]
    BY <2>1 DEF IInv, TypeOK
  <2>5. \A i, l : Offered(i, l)' = Offered(i, l)
    BY <2>1 DEF Offered, Kept, Backend
  <2>6. \A i \in Backends, l \in Lists :
            /\ Settled(i, l) => Settled(i, l)'
            /\ i = at /\ l = stage => Settled(i, l)'
    BY <2>1, <2>4, <2>5 DEF Settled
  <2> QED
    BY <2>1, <2>2, <2>3, <2>6, GoOnInv
<1>7. CASE ListToolsRefused
  BY <1>t, <1>7, FailInv DEF ListToolsRefused
<1>8. CASE OptionalListRefused
  <2>1. /\ stage \in {"resources", "prompts"} /\ GoOn /\ at \in Backends
        /\ UNCHANGED <<config, found>>
        /\ refused' = [refused EXCEPT ![at] = @ \cup {stage}]
    BY <1>8 DEF OptionalListRefused, GoOn, IInv, TypeOK, Lists
  <2>2. DOMAIN found' = Backends /\ \A i \in Backends : DOMAIN found'[i] = Lists
    BY <2>1 DEF IInv, TypeOK
  <2>3. refused' \in [Backends -> SUBSET {"resources", "prompts"}]
    BY <2>1 DEF IInv, TypeOK
  <2>4. \A i \in Backends : refused[i] \subseteq refused'[i]
    BY <2>1 DEF IInv, TypeOK
  <2>5. \A i, l : Offered(i, l)' = Offered(i, l)
    BY <2>1 DEF Offered, Kept, Backend
  <2>6. stage \in refused'[at]
    BY <2>1 DEF IInv, TypeOK
  <2>7. \A i \in Backends, l \in Lists :
            /\ Settled(i, l) => Settled(i, l)'
            /\ i = at /\ l = stage => Settled(i, l)'
    BY <2>1, <2>4, <2>5, <2>6 DEF Settled
  <2> QED
    BY <2>1, <2>2, <2>3, <2>7, GoOnInv DEF Lists
<1>9. CASE ConnectExpires
  BY <1>t, <1>9, FailInv DEF ConnectExpires
<1>10. CASE ListExpires
  BY <1>t, <1>10, FailInv DEF ListExpires
<1>11. CASE Serve
  <2>1. at = Len(config.backends) + 1
    BY <1>0, <1>11 DEF Serve, IInv, TypeOK, Backends
  <2>2. TypeOK'
    BY <1>0, <1>11 DEF Serve, IInv, TypeOK, Stages, Ended, Lists, Backends
  <2>3. ProgressInv' /\ EndInv'
    <3>1. \A i, l : Settled(i, l)' <=> Settled(i, l)
      BY <1>11, SettledKept DEF Serve
    <3> QED
      BY <1>0, <1>11, <2>1, <3>1 DEF Serve, IInv, ProgressInv, EndInv, Backends
  <2> QED
    BY <2>2, <2>3 DEF IInv
<1>12. CASE BindFails
  BY <1>0, <1>12, FailInv DEF BindFails
<1>13. CASE UNCHANGED vars
  <2>1. \A i, l : Settled(i, l)' <=> Settled(i, l)
    BY <1>13, SettledKept DEF vars
  <2> QED
    BY <1>13, <2>1 DEF vars, IInv, TypeOK, ProgressInv, EndInv, Backends
<1> QED
  BY <1>1, <1>2, <1>3, <1>4, <1>5, <1>6, <1>7, <1>8, <1>9, <1>10, <1>11, <1>12, <1>13
     DEF Next, Expires

LEMMA Invariance == Spec => []IInv
<1> QED
  BY InitInv, NextInv, PTL DEF Spec

-----------------------------------------------------------------------------

\* For any configurations every variable keeps to its type and a start that
\* waits for a backend has it open.
THEOREM TypeCorrect == Spec => []TypeOK
<1>1. IInv => TypeOK
  BY DEF IInv
<1> QED
  BY <1>1, Invariance, PTL

LEMMA InvServesWhole == IInv => ServesWhole
<1> SUFFICES ASSUME IInv, stage = "serving", NEW i \in Backends
             PROVE  tree[i] = "open" /\ \A l \in Lists \ refused[i] : found[i][l] = Offered(i, l)
  BY DEF ServesWhole
<1>1. i < at
  BY ConfigsAssumption DEF IInv, TypeOK, EndInv, Backends
<1> QED
  BY <1>1 DEF IInv, ProgressInv, Settled

\* Whatever backends do, a server that serves has them all, with every list
\* they did not refuse.
THEOREM ServedWhole == Spec => []ServesWhole
<1> QED
  BY Invariance, InvServesWhole, PTL

\* A failing step closes what had been opened.
LEMMA FailCloses ==
  ASSUME IInv, NEW t \in Trees \ {"open"}, Fail(t), stage # "failed",
         stage \in Lists => t = Terminated
  PROVE  /\ \A i \in Backends : tree'[i] # "open"
         /\ stage \in Lists /\ Backend(at).kind = "stdio" => tree'[at] = "killed"
<1>1. \A i \in Backends : i \in Nat /\ at \in Nat
  BY ConfigsAssumption DEF IInv, TypeOK, Backends
<1>2. \A i \in Backends : tree'[i] # "open"
  <2> SUFFICES ASSUME NEW i \in Backends PROVE tree'[i] # "open"
    OBVIOUS
  <2>1. i > at => tree[i] = "none"
    BY DEF IInv, ProgressInv
  <2>2. tree'[i] = IF i < at THEN "dropped" ELSE IF i = at THEN t ELSE tree[i]
    BY DEF Fail
  <2> QED
    BY <1>1, <2>1, <2>2
<1>3. stage \in Lists /\ Backend(at).kind = "stdio" => tree'[at] = "killed"
  <2> SUFFICES ASSUME stage \in Lists, Backend(at).kind = "stdio" PROVE tree'[at] = "killed"
    OBVIOUS
  <2>1. at \in Backends
    BY DEF IInv, TypeOK
  <2>2. t = "killed"
    BY DEF Terminated
  <2> QED
    BY <1>1, <2>1, <2>2 DEF Fail
<1> QED
  BY <1>2, <1>3

\* A start that fails leaves no backend connected, however many it had.
THEOREM FailedStartLeavesNone == Spec => FailureLeavesNone
<1>1. IInv /\ [Next]_vars =>
        [stage' = "failed" =>
           /\ \A i \in Backends : tree'[i] # "open"
           /\ stage \in Lists /\ Backend(at).kind = "stdio" => tree'[at] = "killed"]_vars
  <2> SUFFICES ASSUME IInv, Next, stage' = "failed"
               PROVE  /\ \A i \in Backends : tree'[i] # "open"
                      /\ stage \in Lists /\ Backend(at).kind = "stdio" => tree'[at] = "killed"
    BY DEF vars
  <2>1. "none" \in Trees \ {"open"} /\ "dropped" \in Trees \ {"open"} /\ Terminated \in Trees \ {"open"}
    BY DEF Trees, Terminated
  <2>2. \/ Fail("none") /\ stage = "next"
        \/ Fail("dropped") /\ stage = "connecting"
        \/ Fail(Terminated) /\ stage \in {"connecting"} \cup Lists
    BY DEF Next, Expires, RejectLimit, SpawnFails, Connect, Connected, ConnectRefused, Listed,
           ListToolsRefused, OptionalListRefused, ConnectExpires, ListExpires, Serve, BindFails,
           GoOn, After, Lists
  <2> QED
    BY <2>1, <2>2, FailCloses DEF Lists
<1> QED
  BY <1>1, Invariance, PTL DEF Spec, FailureLeavesNone

-----------------------------------------------------------------------------

\* Published names are names.
LEMMA PublicNames ==
  ASSUME config \in Configs, NEW i \in Backends
  PROVE  PublicName(i) \in Seq(Words)
<1>1. Backend(i).name \in Seq(Words) /\ (config.prefix = NoName \/ config.prefix \in Seq(Words))
  BY NamesAssumption DEF Backends, Backend
<1>2. <<>> \in Seq(Words)
  BY EmptySeq
<1>3. config.prefix # NoName => config.prefix \o Backend(i).name \in Seq(Words)
  BY <1>1, ConcatProperties
<1> QED
  BY <1>1, <1>2, <1>3 DEF PublicName

\* What a name ends in, and that the ends of wrappers and of helps differ.
LEMMA Endings ==
  ASSUME config \in Configs, NEW i \in Backends, NEW word
  PROVE  /\ Append(PublicName(i), word) # <<>>
         /\ EndsIn(Append(PublicName(i), word), word)
         /\ \A other : EndsIn(Append(PublicName(i), word), other) => other = word
<1> DEFINE name == Append(PublicName(i), word)
<1>1. PublicName(i) \in Seq(Words \cup {word})
  BY PublicNames, SeqMonotonic
<1>2. Len(name) = Len(PublicName(i)) + 1 /\ name[Len(PublicName(i)) + 1] = word /\ name # <<>>
  BY <1>1, AppendProperties, EmptySeq, LenProperties
<1> QED
  BY <1>2 DEF EndsIn

\* The first of some backends is one of them, and no later than any.
LEMMA FirstIsEarliest ==
  ASSUME config \in Configs, NEW S \in SUBSET Backends, S # {}
  PROVE  /\ First(S) \in S /\ First(S) # 0
         /\ \A j \in S : First(S) <= j
<1> DEFINE R == OpToRel(<, Nat)
<1>1. S \in SUBSET Nat /\ 0 \notin S
  BY ConfigsAssumption DEF Backends
<1>2. IsWellFoundedOn(R, Nat)
  BY NatLessThanWellFounded
<1>3. \A x, y \in Nat : <<x, y>> \in R <=> x < y
  BY DEF OpToRel
<1> HIDE DEF R
<1>4. PICK x \in S : \A y \in S : ~ (<<y, x>> \in R)
  BY <1>1, <1>2, WFMin
<1>5. \A y \in S : x <= y
  <2> SUFFICES ASSUME NEW y \in S PROVE x <= y
    OBVIOUS
  <2>1. x \in Nat /\ y \in Nat /\ ~ (y < x)
    BY <1>1, <1>3, <1>4
  <2> QED
    BY <2>1
<1> QED
  BY <1>1, <1>5 DEF First

LEMMA FirstOfOne ==
  ASSUME config \in Configs, NEW i \in Backends
  PROVE  First({i}) = i /\ Sole({i}) = i /\ i # 0
<1>1. {i} \in SUBSET Backends /\ i \in Nat /\ i # 0
  BY ConfigsAssumption DEF Backends
<1>2. First({i}) = i
  BY <1>1, FirstIsEarliest
<1> QED
  BY <1>1, <1>2 DEF Sole

\* Several backends, or none, are not one.
LEMMA SoleOfNone == Sole({}) = 0
<1> QED
  BY DEF Sole

\* With distinct names a wrapper is the wrapper of one backend.
LEMMA OneBackendPerWrapper ==
  ASSUME config \in Configs, DistinctNames, NEW i \in Backends, NEW word \in Wrappers
  PROVE  BackendForWrapper(WrapperName(i, word)) = i
<1> DEFINE name == WrapperName(i, word)
           Matching == {j \in Backends : \E wrapper \in Wrappers : name = WrapperName(j, wrapper)}
<1>1. Wrappers \subseteq Words
  BY WordsAssumption
<1>2. ASSUME NEW j \in Matching PROVE j = i
  <2>1. PICK wrapper \in Wrappers : name = WrapperName(j, wrapper)
    OBVIOUS
  <2>2. PublicName(i) = PublicName(j)
    BY <1>1, <2>1, PublicNames, AppendInjective DEF WrapperName
  <2> QED
    BY <2>2 DEF DistinctNames
<1>3. i \in Matching
  OBVIOUS
<1>4. Matching = {i}
  BY <1>2, <1>3
<1> QED
  BY <1>4, FirstOfOne DEF BackendForWrapper

\* What an invariant says of a server that serves: it knows the tools of each
\* backend that the configuration keeps.
LEMMA ServedTools ==
  ASSUME IInv, stage = "serving", NEW i \in Backends
  PROVE  /\ config \in Configs /\ found[i].tools = Kept(i)
         /\ NoName \notin Kept(i)
<1>1. config \in Configs
  BY DEF IInv, TypeOK
<1>2. "tools" \in Lists \ refused[i]
  BY DEF IInv, TypeOK, Lists
<1>3. found[i].tools = Kept(i)
  BY <1>2, InvServesWhole DEF ServesWhole, Offered
<1>4. NoName \notin Kept(i)
  BY <1>1, NamesAssumption DEF Kept, Backends, Backend
<1> QED
  BY <1>1, <1>3, <1>4

\* A wrapper that names a backend passes the call to it, if it has kept the tool.
LEMMA WrapperCalls ==
  ASSUME IInv, stage = "serving", DistinctNames, NEW i \in Backends, NEW tool
  PROVE  LET name == WrapperName(i, "invoke_tool")
             reached == IF tool \in Kept(i) THEN i ELSE 0
         IN  /\ CallTool(name, tool) = reached
             /\ tool # NoName => DispatchExec(name, tool) = reached
<1> DEFINE name == WrapperName(i, "invoke_tool")
<1>1. config \in Configs /\ found[i].tools = Kept(i)
  BY ServedTools
<1>2. EndsIn(name, "invoke_tool")
  BY <1>1, Endings DEF WrapperName
<1>3. InvokeBackend(BackendForWrapper(name), tool) = IF tool \in Kept(i) THEN i ELSE 0
  BY <1>1, OneBackendPerWrapper, FirstOfOne DEF InvokeBackend, Wrappers
<1> QED
  BY <1>2, <1>3 DEF CallTool, DispatchExec

\* For any names and any number of backends, as long as no two are published
\* under one name: a wrapper calls its own backend's kept tools and nothing else.
THEOREM Routed == Spec => []WrappersReachTheirBackend
<1>1. IInv => WrappersReachTheirBackend
  <2> SUFFICES ASSUME IInv, stage = "serving", DistinctNames, NEW i \in Backends, NEW tool \in Tools
               PROVE  LET name == WrapperName(i, "invoke_tool")
                          reached == IF tool \in Kept(i) THEN i ELSE 0
                      IN  CallTool(name, tool) = reached /\ DispatchExec(name, tool) = reached
    BY DEF WrappersReachTheirBackend
  <2>1. config \in Configs
    BY DEF IInv, TypeOK
  <2>2. tool # NoName
    BY <2>1, NamesAssumption DEF Tools, Backends, Backend
  <2> QED
    BY <2>2, WrapperCalls
<1> QED
  BY <1>1, Invariance, PTL

-----------------------------------------------------------------------------
(* The other ways in *)

LEMMA NamedReached == IInv => NamedServerReached
<1> SUFFICES ASSUME IInv, stage = "serving", DistinctNames,
                    NEW i \in Backends, NEW tool \in Tools, PublicName(i) # <<>>
             PROVE  LET server == PublicName(i)
                        reached == IF tool \in Kept(i) THEN i ELSE 0
                    IN  /\ ListsWrappers => RustInvoke(server, tool) = reached
                        /\ HostInvoke(server, tool) = reached
                        /\ SchemaOn(server, tool) = reached
  BY DEF NamedServerReached
<1> DEFINE server == PublicName(i)
           reached == IF tool \in Kept(i) THEN i ELSE 0
<1>1. config \in Configs /\ found[i].tools = Kept(i)
  BY ServedTools
<1>2. tool # NoName
  BY <1>1, NamesAssumption DEF Tools, Backends, Backend
<1>3. server # NoName
  BY <1>1, PublicNames, WordsAssumption
<1>4. \A j \in Backends : PublicName(j) = server <=> j = i
  BY DEF DistinctNames
<1>5. DispatchExec(WrapperName(i, "invoke_tool"), tool) = reached
  BY <1>2, WrapperCalls
<1>6. ASSUME ListsWrappers PROVE RustInvoke(server, tool) = reached
  <2>1. {j \in Backends : /\ ListsWrappers /\ PublicName(j) # <<>>
                          /\ server # NoName => PublicName(j) = server} = {i}
    BY <1>3, <1>4, <1>6
  <2> QED
    BY <1>1, <1>5, <2>1, FirstOfOne DEF RustInvoke
<1>7. HostInvoke(server, tool) = reached
  BY <1>3, <1>5 DEF HostInvoke, WrapperName
<1>8. SchemaOn(server, tool) = reached
  <2> DEFINE Matching == {j \in Backends : tool \in found[j].tools /\ (server # NoName => PublicName(j) = server)}
  <2>1. Matching = IF tool \in Kept(i) THEN {i} ELSE {}
    BY <1>1, <1>3, <1>4
  <2>2. SchemaOn(server, tool) = Sole(Matching)
    BY DEF SchemaOn
  <2> HIDE DEF Matching
  <2> QED
    BY <1>1, <2>1, <2>2, FirstOfOne, SoleOfNone
<1> QED
  BY <1>6, <1>7, <1>8

LEMMA SoleReached == IInv => SoleBackendReached
<1> SUFFICES ASSUME IInv, stage = "serving", Count = 1, NEW tool \in Kept(1)
             PROVE  /\ config.prefix = NoName =>
                        /\ config.start = "many" /\ ListsWrappers /\ PublicName(1) # <<>> =>
                               RustInvoke(RustDefault, tool) = 1
                        /\ config.start \in {"many", "json"} => HostInvoke(HostDefault, tool) = 1
                    /\ ~EndsIn(tool, "invoke_tool") => DispatchExec(tool, NoName) = 1
  BY DEF SoleBackendReached
<1>1. Backends = {1}
  BY DEF Count, Backends
<1>2. config \in Configs /\ found[1].tools = Kept(1) /\ tool # NoName
  BY <1>1, ServedTools
<1>3. PublicName(1) \in Seq(Words) /\ Backend(1).name \in Seq(Words)
  BY <1>1, <1>2, PublicNames, NamesAssumption DEF Backends, Backend
<1>4. PublicName(1) # NoName /\ Backend(1).name # NoName
  BY <1>3, WordsAssumption
<1>5. DispatchExec(WrapperName(1, "invoke_tool"), tool) = 1
  BY <1>1, <1>2, WrapperCalls DEF DistinctNames
<1>6. ASSUME config.prefix = NoName, config.start = "many", ListsWrappers, PublicName(1) # <<>>
      PROVE  RustInvoke(RustDefault, tool) = 1
  <2>1. RustDefault = PublicName(1)
    BY <1>6 DEF RustDefault
  <2>2. {j \in Backends : /\ ListsWrappers /\ PublicName(j) # <<>>
                          /\ PublicName(1) # NoName => PublicName(j) = PublicName(1)} = {1}
    BY <1>1, <1>6
  <2> QED
    BY <1>1, <1>2, <1>5, <2>1, <2>2, FirstOfOne DEF RustInvoke
<1>7. ASSUME config.prefix = NoName, config.start = "many" PROVE HostInvoke(HostDefault, tool) = 1
  <2>1. HostDefault = Backend(1).name /\ PublicName(1) = Backend(1).name
    BY <1>7 DEF HostDefault, PublicName
  <2> QED
    BY <1>4, <1>5, <2>1 DEF HostInvoke, WrapperName
<1>8. ASSUME config.prefix = NoName, config.start = "json" PROVE HostInvoke(HostDefault, tool) = 1
  <2>1. HostDefault = NoName /\ PublicName(1) = <<>>
    BY <1>8 DEF HostDefault, PublicName
  <2>2. WrapperName(1, "invoke_tool") = <<"invoke_tool">>
    <3>1. Append(<<>>, "invoke_tool") = <<"invoke_tool">>
      OBVIOUS
    <3> QED
      BY <2>1, <3>1 DEF WrapperName
  <2> QED
    BY <1>5, <2>1, <2>2 DEF HostInvoke
<1>9. ASSUME ~EndsIn(tool, "invoke_tool") PROVE DispatchExec(tool, NoName) = 1
  <2>1. InvokeSingle(tool) = 1
    BY <1>2 DEF InvokeSingle, InvokeBackend
  <2> QED
    BY <1>9, <2>1 DEF DispatchExec
<1> QED
  BY <1>6, <1>7, <1>8, <1>9

\* What an answer is made of.
LEMMA AnswerParts ==
  /\ \A asked, says : Says(asked, says).asked = asked /\ Says(asked, says).says = says
  /\ NotFound.asked = 0 /\ NotFound.says = "internal error"
  /\ Invalid.asked = 0 /\ Invalid.says = "invalid params"
<1>1. \A asked, says : Says(asked, says).asked = asked /\ Says(asked, says).says = says
  BY DEF Says
<1> QED
  BY <1>1 DEF NotFound, Invalid

\* The first backend that lists something is asked for it.
LEMMA FirstLister ==
  ASSUME config \in Configs, NEW list, NEW name,
         NEW i \in Backends, name \in found[i][list]
  PROVE  LET first == First({j \in Backends : name \in found[j][list]})
         IN  /\ Forwarded(first, TRUE) = Says(first, "result")
             /\ first \in Backends /\ first # 0 /\ name \in found[first][list]
             /\ \A j \in Backends : name \in found[j][list] => first <= j
<1> DEFINE S == {j \in Backends : name \in found[j][list]}
<1>1. S \in SUBSET Backends /\ S # {}
  OBVIOUS
<1>2. First(S) \in S /\ First(S) # 0 /\ \A j \in S : First(S) <= j
  BY <1>1, FirstIsEarliest
<1> QED
  BY <1>2 DEF Forwarded

LEMMA ListedAnswered == ASSUME IInv PROVE ListedIsAnswered
<1>1. config \in Configs
  BY DEF IInv, TypeOK
<1>2. ASSUME NEW uri \in ListResources
      PROVE  LET answer == Handle("resources/read", uri, <<>>, FALSE, TRUE)
             IN /\ answer.says = "own" <=> \E i \in Backends : uri = OwnUri(i)
                /\ answer.asked = 0 => answer.says = "own"
                /\ answer.asked # 0 =>
                       /\ uri \in found[answer.asked]["resources"]
                       /\ \A j \in Backends : uri \in found[j]["resources"] => answer.asked <= j
  <2> DEFINE answer == Handle("resources/read", uri, <<>>, FALSE, TRUE)
  <2>1. answer = ReadResource(uri, TRUE)
    BY DEF Handle
  <2>2. CASE \E i \in Backends : uri = OwnUri(i)
    <3>1. answer = Says(0, "own")
      BY <2>1, <2>2 DEF ReadResource
    <3> HIDE DEF answer
    <3>2. answer.asked = 0 /\ answer.says = "own"
      BY <3>1, AnswerParts
    <3>3. (answer.says = "own" <=> \E i \in Backends : uri = OwnUri(i)) /\ answer.asked = 0
      BY <2>2, <3>2
    <3> QED
      BY <3>2, <3>3 DEF answer
  <2>3. CASE ~ \E i \in Backends : uri = OwnUri(i)
    <3> DEFINE first == First({j \in Backends : uri \in found[j]["resources"]})
    <3>1. PICK i \in Backends : uri \in found[i]["resources"]
      BY <2>3 DEF ListResources
    <3>2. answer = Forwarded(first, TRUE)
      BY <2>1, <2>3 DEF ReadResource
    <3>3. Forwarded(first, TRUE) = Says(first, "result") /\ first # 0
      BY <1>1, <3>1, FirstLister
    <3>4. /\ uri \in found[first]["resources"]
          /\ \A j \in Backends : uri \in found[j]["resources"] => first <= j
      BY <1>1, <3>1, FirstLister
    <3> HIDE DEF answer, first
    <3>5. answer.asked = first /\ answer.says = "result"
      <4>1. answer = Says(first, "result")
        BY <3>2, <3>3
      <4>2. Says(first, "result").asked = first /\ Says(first, "result").says = "result"
        BY AnswerParts
      <4> QED
        BY <4>1, <4>2
    <3>6. /\ answer.says # "own" /\ answer.asked # 0
          /\ uri \in found[answer.asked]["resources"]
          /\ \A j \in Backends : uri \in found[j]["resources"] => answer.asked <= j
      BY <3>3, <3>4, <3>5
    <3>7. answer.says = "own" <=> \E j \in Backends : uri = OwnUri(j)
      BY <2>3, <3>6
    <3> QED
      BY <3>6, <3>7 DEF answer
  <2> QED
    BY <2>2, <2>3
<1>3. ASSUME NEW name \in ListPrompts
      PROVE  LET answer == Handle("prompts/get", name, <<>>, FALSE, TRUE)
             IN /\ answer.asked # 0
                /\ name \in found[answer.asked]["prompts"]
                /\ \A j \in Backends : name \in found[j]["prompts"] => answer.asked <= j
  <2>1. PICK i \in Backends : name \in found[i]["prompts"]
    BY DEF ListPrompts
  <2>2. Handle("prompts/get", name, <<>>, FALSE, TRUE)
          = Forwarded(First({j \in Backends : name \in found[j]["prompts"]}), TRUE)
    BY DEF Handle, GetPrompt
  <2> DEFINE answer == Handle("prompts/get", name, <<>>, FALSE, TRUE)
             first == First({j \in Backends : name \in found[j]["prompts"]})
  <2>3. answer = Says(first, "result") /\ first # 0
    BY <1>1, <2>1, <2>2, FirstLister
  <2>4. /\ name \in found[first]["prompts"]
        /\ \A j \in Backends : name \in found[j]["prompts"] => first <= j
    BY <1>1, <2>1, FirstLister
  <2>5. answer.asked = first
    BY <2>3, AnswerParts
  <2> HIDE DEF answer, first
  <2>6. /\ answer.asked # 0 /\ name \in found[answer.asked]["prompts"]
        /\ \A j \in Backends : name \in found[j]["prompts"] => answer.asked <= j
    BY <2>3, <2>4, <2>5
  <2> QED
    BY <2>6 DEF answer
<1>4. ASSUME NEW name, name \notin ListResources
      PROVE  Handle("resources/read", name, <<>>, FALSE, TRUE) = NotFound
  <2>1. \A i \in Backends : name \notin found[i]["resources"] /\ name # OwnUri(i)
    BY <1>4 DEF ListResources
  <2>2. Handle("resources/read", name, <<>>, FALSE, TRUE) = Forwarded(First({}), TRUE)
    BY <2>1 DEF Handle, ReadResource
  <2> QED
    BY <2>2 DEF First, Forwarded
<1> QED
  BY <1>2, <1>3, <1>4 DEF ListedIsAnswered

\* What becomes of a call to an invoke wrapper, in terms of the backend that it reaches.
LEMMA InvokeAnswers ==
  ASSUME config \in Configs, NEW i \in Backends, NEW args, NEW needs, NEW expected
  PROVE  LET name == WrapperName(i, "invoke_tool")
             answer == Handle("tools/call", name, args, needs, expected)
             reached == InvokeBackend(BackendForWrapper(name), ToolOf(args))
         IN  answer.asked # 0 =>
                 /\ args.tool # {} /\ args.full # "other" /\ (needs => args.input = "whole")
                 /\ answer.asked = reached
                 /\ answer.says = IF expected THEN "result" ELSE "internal error"
<1> DEFINE name == WrapperName(i, "invoke_tool")
           tool == ToolOf(args)
           reached == InvokeBackend(BackendForWrapper(name), tool)
           input == IF args.input = "absent" THEN "empty" ELSE args.input
           answer == Handle("tools/call", name, args, needs, expected)
<1>1. EndsIn(name, "invoke_tool") /\ ~EndsIn(name, "get_tool_schema") /\ ~EndsIn(name, "list_tools")
  BY Endings DEF WrapperName
<1> HIDE DEF name
<1>2. answer = IF args.tool = {} \/ args.full = "other" THEN Invalid
               ELSE AttachMetadata(InvokeToolResult(name, tool, input, needs, expected), name, tool)
  BY <1>1 DEF Handle, CallToolResult
<1>3. Invalid.asked = 0 /\ NotFound.asked = 0
  BY AnswerParts
<1> SUFFICES ASSUME answer.asked # 0
             PROVE  /\ args.tool # {} /\ args.full # "other" /\ (needs => args.input = "whole")
                    /\ answer.asked = reached
                    /\ answer.says = IF expected THEN "result" ELSE "internal error"
  BY DEF name
<1> HIDE DEF answer, tool, input
<1>4. /\ args.tool # {} /\ args.full # "other"
      /\ answer = AttachMetadata(InvokeToolResult(name, tool, input, needs, expected), name, tool)
  BY <1>2, <1>3
<1>5. reached # 0 /\ answer = InvokeToolResult(name, tool, input, needs, expected)
  <2>1. CASE reached = 0
    <3>1. InvokeToolResult(name, tool, input, needs, expected) = NotFound
      BY <2>1 DEF InvokeToolResult, Forwarded
    <3>2. answer = [NotFound EXCEPT !.says = "internal error"]
      BY <1>4, <2>1, <3>1 DEF AttachMetadata, SchemaTool
    <3> QED
      BY <3>2 DEF NotFound, Says
  <2> QED
    BY <1>4, <2>1 DEF AttachMetadata, SchemaTool
<1>6. ~(needs /\ input # "whole")
  BY <1>3, <1>5 DEF InvokeToolResult
<1>7. answer = Says(reached, IF expected THEN "result" ELSE "internal error")
  BY <1>5, <1>6 DEF InvokeToolResult, Forwarded
<1>8. needs => args.input = "whole"
  BY <1>6 DEF input
<1>9. answer.asked = reached /\ answer.says = IF expected THEN "result" ELSE "internal error"
  BY <1>7, AnswerParts
<1> QED
  BY <1>4, <1>8, <1>9

LEMMA JudgedFirst == ASSUME IInv, stage = "serving" PROVE CallsAreJudgedFirst
<1> SUFFICES ASSUME NEW i \in Backends, NEW args \in AllArguments,
                    NEW needs \in BOOLEAN, NEW expected \in BOOLEAN
             PROVE
        LET answer == Handle("tools/call", WrapperName(i, "invoke_tool"), args, needs, expected)
            schema == Handle("tools/call", WrapperName(i, "get_tool_schema"), args, needs, expected)
        IN /\ answer.asked # 0 =>
                  /\ args.tool # {} /\ args.full # "other" /\ (needs => args.input = "whole")
                  /\ answer.says = "result" <=> expected
           /\ schema.asked = 0
           /\ DistinctNames /\ args.tool # {} =>
                  /\ schema.says = "own" <=> <<PublicName(i), ToolOf(args)>> \in BackendToolsByServer
                  /\ answer.asked # 0 => CallTool(WrapperName(i, "invoke_tool"), ToolOf(args)) = answer.asked
  BY DEF CallsAreJudgedFirst
<1> DEFINE name == WrapperName(i, "invoke_tool")
           other == WrapperName(i, "get_tool_schema")
           answer == Handle("tools/call", name, args, needs, expected)
           schema == Handle("tools/call", other, args, needs, expected)
<1>1. config \in Configs
  BY DEF IInv, TypeOK
<1>2. answer.asked # 0 =>
          /\ args.tool # {} /\ args.full # "other" /\ (needs => args.input = "whole")
          /\ answer.asked = InvokeBackend(BackendForWrapper(name), ToolOf(args))
          /\ answer.says = IF expected THEN "result" ELSE "internal error"
  BY <1>1, InvokeAnswers
<1>3. schema = IF args.tool = {} THEN Invalid ELSE GetToolSchemaResult(other, ToolOf(args))
  <2>1. EndsIn(other, "get_tool_schema") /\ ~EndsIn(other, "invoke_tool") /\ ~EndsIn(other, "list_tools")
    BY <1>1, Endings DEF WrapperName
  <2> HIDE DEF other
  <2> QED
    BY <2>1 DEF Handle, CallToolResult
<1>4. CallTool(name, ToolOf(args)) = InvokeBackend(BackendForWrapper(name), ToolOf(args))
  <2>1. EndsIn(name, "invoke_tool")
    BY <1>1, Endings DEF WrapperName
  <2> HIDE DEF name
  <2> QED
    BY <2>1 DEF CallTool
<1>5. ASSUME DistinctNames, args.tool # {}
      PROVE  schema.says = "own" <=> <<PublicName(i), ToolOf(args)>> \in BackendToolsByServer
  <2> DEFINE tool == ToolOf(args)
  <2> HIDE DEF tool
  <2>1. SchemaTool(other, tool) = IF tool \in found[i].tools THEN i ELSE 0
    BY <1>1, <1>5, OneBackendPerWrapper DEF SchemaTool, InvokeBackend, Wrappers
  <2>2. i # 0
    BY <1>1, FirstOfOne
  <2>3. schema.says = "own" <=> tool \in found[i].tools
    <3>1. schema = IF tool \in found[i].tools THEN Says(0, "own") ELSE NotFound
      BY <1>3, <1>5, <2>1, <2>2 DEF tool, GetToolSchemaResult
    <3>2. NotFound.says # "own" /\ Says(0, "own").says = "own"
      BY AnswerParts
    <3> HIDE DEF schema
    <3> QED
      BY <3>1, <3>2
  <2>4. <<PublicName(i), tool>> \in BackendToolsByServer <=> tool \in found[i].tools
    BY <1>5 DEF BackendToolsByServer, DistinctNames
  <2> QED
    BY <2>3, <2>4 DEF tool
<1>6. schema.asked = 0
  <2>1. schema \in {Invalid, NotFound, Says(0, "own")}
    BY <1>3 DEF GetToolSchemaResult
  <2> HIDE DEF schema
  <2> QED
    BY <2>1, AnswerParts
<1> HIDE DEF name, other, answer, schema
<1>7. answer.asked # 0 => (answer.says = "result" <=> expected)
  BY <1>2
<1> QED
  BY <1>2, <1>4, <1>5, <1>6, <1>7 DEF name, other, answer, schema

LEMMA OffersSound == ASSUME IInv, stage = "serving" PROVE OffersAreSound
<1>1. config \in Configs
  BY DEF IInv, TypeOK
<1>2. \A name \in WrapperTools : \E wrapper \in Wrappers : EndsIn(name, wrapper)
  <2> SUFFICES ASSUME NEW i \in Backends, NEW wrapper \in Wrappers
               PROVE  EndsIn(WrapperName(i, wrapper), wrapper)
    BY DEF WrapperTools
  <2> QED
    BY <1>1, Endings DEF WrapperName
<1>3. \A name \in CliHelpTools, wrapper \in Wrappers : ~EndsIn(name, wrapper)
  <2> SUFFICES ASSUME NEW i \in Backends, NEW wrapper \in Wrappers
               PROVE  ~EndsIn(Append(PublicName(i), "help"), wrapper)
    BY DEF CliHelpTools
  <2>1. wrapper # "help"
    BY DEF Wrappers
  <2> QED
    BY <1>1, <2>1, Endings
<1>4. \A wrapper \in Wrappers : ~EndsIn(<<"bash_tool">>, wrapper)
  BY DEF EndsIn, Wrappers
<1>5. ASSUME ListTools \cap WrapperTools # {} PROVE ListTools \cap CliHelpTools = {}
  <2>1. CASE config.mode = "help"
    BY <1>2, <1>3, <1>5, <2>1 DEF ListTools
  <2>2. CASE config.mode = "bash"
    BY <1>2, <1>3, <1>4, <1>5, <2>2 DEF ListTools, JustBashTools
  <2>3. CASE config.mode \notin {"help", "bash"}
    BY <1>2, <1>3, <2>3 DEF ListTools
  <2> QED
    BY <2>1, <2>2, <2>3
<1>6. ASSUME NEW name \in WrapperTools PROVE BackendForWrapper(name) # 0
  <2> DEFINE Matching == {i \in Backends : \E wrapper \in Wrappers : name = WrapperName(i, wrapper)}
  <2>1. Matching \in SUBSET Backends /\ Matching # {}
    BY DEF WrapperTools
  <2> QED
    BY <1>1, <2>1, FirstIsEarliest DEF BackendForWrapper
<1>7. \A tools \in SingleBackendTools : \A tool \in tools : InvokeSingle(tool) = 1
  BY DEF SingleBackendTools, InvokeSingle, InvokeBackend
<1> QED
  BY <1>5, <1>6, <1>7 DEF OffersAreSound

\* For any configuration, whatever its names: the SDKs, a generated client and the MCP
\* frontend mean the same backend by a name, and ask none that they should not.
THEOREM WaysStayAgreed == Spec => []WaysInAgree
<1>1. IInv => WaysInAgree
  BY NamedReached, SoleReached, ListedAnswered, JudgedFirst, OffersSound DEF WaysInAgree
<1> QED
  BY <1>1, Invariance, PTL

-----------------------------------------------------------------------------
(* Requests to a backend whose headers a provider gives *)

\* Two maps in one have what either has, and the first's values where both do.
LEMMA PreferringIs ==
  ASSUME NEW first, NEW second
  PROVE  /\ DOMAIN Preferring(first, second) = DOMAIN first \cup DOMAIN second
         /\ \A x \in DOMAIN first : Preferring(first, second)[x] = first[x]
         /\ \A x \in DOMAIN second \ DOMAIN first : Preferring(first, second)[x] = second[x]
  BY DEF Preferring

\* Headers go out once each, under one of their spellings.
LEMMA OneValueEach ==
  ASSUME NEW headers
  PROVE  /\ OnePerName(headers) # {}
         /\ \A h \in OnePerName(headers) :
                /\ DOMAIN h = Ids(headers)
                /\ \A id \in DOMAIN h : \E name \in DOMAIN headers : name.id = id /\ h[id] = headers[name]
<1> DEFINE Picks == {f \in [Ids(headers) -> DOMAIN headers] : \A id \in Ids(headers) : f[id].id = id}
           chosen == [id \in Ids(headers) |-> CHOOSE name \in DOMAIN headers : name.id = id]
<1>1. OnePerName(headers) = {[id \in Ids(headers) |-> headers[kept[id]]] : kept \in Picks}
  BY DEF OnePerName
<1>2. \A id \in Ids(headers) : \E name \in DOMAIN headers : name.id = id
  BY DEF Ids
<1>3. \A id \in Ids(headers) : chosen[id] \in DOMAIN headers /\ chosen[id].id = id
  BY <1>2
<1>4. chosen \in Picks
  BY <1>3
<1>5. ASSUME NEW kept \in Picks, NEW id \in Ids(headers)
      PROVE  \E name \in DOMAIN headers : name.id = id /\ headers[kept[id]] = headers[name]
  BY <1>5
<1> HIDE DEF Picks, chosen
<1>6. ASSUME NEW h \in OnePerName(headers)
      PROVE  /\ DOMAIN h = Ids(headers)
             /\ \A id \in DOMAIN h : \E name \in DOMAIN headers : name.id = id /\ h[id] = headers[name]
  <2>1. PICK kept \in Picks : h = [id \in Ids(headers) |-> headers[kept[id]]]
    BY <1>1
  <2> QED
    BY <1>5, <2>1
<1>7. OnePerName(headers) # {}
  BY <1>1, <1>4
<1> QED
  BY <1>6, <1>7

\* What is sent of three maps.
LEMMA SentIs ==
  ASSUME NEW transport, NEW headers, NEW p \in OnePerName(headers), NEW h
  PROVE  LET s == Preferring(transport, Preferring(p, h))
         IN  /\ \A id \in DOMAIN transport : s[id] = transport[id]
             /\ \A id \in Ids(headers) \ DOMAIN transport :
                    \E name \in DOMAIN headers : name.id = id /\ s[id] = headers[name]
             /\ DOMAIN h \subseteq DOMAIN s
<1> DEFINE s == Preferring(transport, Preferring(p, h))
<1>1. \A id \in DOMAIN transport : s[id] = transport[id]
  BY PreferringIs
<1>2. DOMAIN h \subseteq DOMAIN s
  BY DEF Preferring
<1>3. DOMAIN p = Ids(headers) /\ \A id \in DOMAIN p : \E name \in DOMAIN headers : name.id = id /\ p[id] = headers[name]
  BY OneValueEach
<1>4. \A id \in DOMAIN p \ DOMAIN transport : s[id] = p[id]
  BY DEF Preferring
<1> HIDE DEF s
<1>5. \A id \in Ids(headers) \ DOMAIN transport : \E name \in DOMAIN headers : name.id = id /\ s[id] = headers[name]
  BY <1>3, <1>4
<1> QED
  BY <1>1, <1>2, <1>5 DEF s

\* For any provider, configuration and transport, the transport's headers count
\* first, then the provider's, and none that is configured is missing.
LEMMA HeadersAreRanked ==
  ASSUME NEW b, b.provider, NEW provided, NEW transport,
         \A headers, other \in provided : headers = other
  PROVE  HeadersRank(b, provided, transport)
<1> DEFINE Sent == SentHeaders(b, provided, transport)
           Own == OnePerName(Map(b, "header"))
<1>1. Sent = {Preferring(transport, w) : w \in UNION {WireHeaders(b, headers) : headers \in provided}}
  BY DEF SentHeaders
<1>2. \A headers : WireHeaders(b, headers) = {Preferring(p, h) : p \in OnePerName(headers), h \in Own}
  BY DEF WireHeaders
<1> HIDE DEF Sent, Own
<1>3. Own # {} /\ \A h \in Own : DOMAIN h = Ids(Map(b, "header"))
  <2>1. DOMAIN Map(b, "header") = NamesOf(b, "header")
    BY DEF Map
  <2> QED
    BY <2>1, OneValueEach DEF Own
<1>4. provided = {} <=> Sent = {}
  <2>1. ASSUME NEW headers \in provided PROVE Sent # {}
    <3>1. PICK p \in OnePerName(headers), h \in Own : TRUE
      BY <1>3, OneValueEach
    <3>2. Preferring(p, h) \in UNION {WireHeaders(b, m) : m \in provided}
      BY <1>2, <3>1
    <3> QED
      BY <1>1, <3>2
  <2>2. provided = {} => Sent = {}
    BY <1>1
  <2> QED
    BY <2>1, <2>2
<1>5. ASSUME NEW headers \in provided, NEW s \in Sent
      PROVE  /\ \A id \in DOMAIN transport : s[id] = transport[id]
             /\ \A id \in Ids(headers) \ DOMAIN transport :
                    \E name \in DOMAIN headers : name.id = id /\ s[id] = headers[name]
             /\ \A name \in NamesOf(b, "header") : name.id \in DOMAIN s
  <2>1. PICK p \in OnePerName(headers), h \in Own : s = Preferring(transport, Preferring(p, h))
    BY <1>1, <1>2
  <2>2. \A name \in NamesOf(b, "header") : name.id \in DOMAIN h
    BY <1>3 DEF Ids, Map
  <2> QED
    BY <2>1, <2>2, SentIs
<1> QED
  BY <1>4, <1>5 DEF HeadersRank, Sent

\* What becomes of the answer to a message: it is refused, taken without one,
\* shows that the session is lost, is a success, or an error.
Refused(answer, out) ==
    /\ answer.status \in {401, 403} /\ answer.challenge # "none"
    /\ out = Failure(Challenged(answer))
Taken(answer, out) == answer.status \in {202, 204} /\ out = Reply("accepted")
Lost(answer, attached, out) ==
    /\ answer.status = 404 /\ attached
    /\ out = Reply("session expired")
Succeeded(answer, out) ==
    /\ answer.status \in 200..299
    /\ \/ out \in {Reply("stream"), Reply("accepted"), Failure({})}
       \/ out = Reply("message") /\ answer.message
Failed(answer, attached, out) ==
    /\ answer.status = 404 => ~attached
    /\ \/ out = Reply("message") /\ answer.message
       \/ out = Failure(StatusWords(answer.status) \cup answer.words)

LEMMA PostOutcomes ==
  ASSUME NEW answer \in Answer, NEW attached \in BOOLEAN, NEW out, out = PostMessage(answer, attached)
  PROVE  \/ Refused(answer, out)
         \/ Taken(answer, out)
         \/ Lost(answer, attached, out)
         \/ Succeeded(answer, out)
         \/ Failed(answer, attached, out)
<1>1. CASE answer.status \in {401, 403} /\ answer.challenge # "none"
  <2>1. out = Failure(Challenged(answer))
    BY <1>1, Zenon DEF PostMessage
  <2> QED
    BY <1>1, <2>1 DEF Refused
<1>2. CASE answer.status \in {202, 204}
  <2>1. ~(answer.status \in {401, 403} /\ answer.challenge # "none") /\ answer.status \in {202, 204}
    BY <1>2
  <2>2. out = Reply("accepted")
    BY <2>1, Zenon DEF PostMessage
  <2> QED
    BY <1>2, <2>2 DEF Taken
<1>3. CASE answer.status = 404 /\ attached
  <2>1. answer.status \notin {401, 403} /\ answer.status \notin {202, 204}
    BY <1>3
  <2>2. out = Reply("session expired")
    BY <1>3, <2>1, Zenon DEF PostMessage
  <2> QED
    BY <1>3, <2>2, Zenon DEF Lost
<1>4. CASE answer.status \notin {202, 204} /\ answer.status \in 200..299
  <2>1. answer.status \notin {401, 403} /\ answer.status # 404
    BY <1>4
  <2>2. out = Success(answer)
    BY <1>4, <2>1, Zenon DEF PostMessage, IsSuccess
  <2>3. \/ Success(answer) \in {Reply("stream"), Reply("accepted"), Failure({})}
        \/ Success(answer) = Reply("message") /\ answer.message
    BY DEF Success
  <2> QED
    BY <1>4, <2>2, <2>3 DEF Succeeded
<1>5. CASE /\ answer.status \notin 200..299 /\ (answer.status = 404 => ~attached)
           /\ ~(answer.status \in {401, 403} /\ answer.challenge # "none")
  <2>1. answer.status \notin {202, 204}
    BY <1>5, 202 \in 200..299, 204 \in 200..299
  <2>2. out = IF answer.type = "json" /\ answer.message THEN Reply("message")
              ELSE Failure(StatusWords(answer.status) \cup answer.words)
    BY <1>5, <2>1, Zenon DEF PostMessage, IsSuccess
  <2>3. \/ out = Reply("message") /\ answer.message
        \/ out = Failure(StatusWords(answer.status) \cup answer.words)
    BY <2>2, Zenon
  <2> QED
    BY <1>5, <2>3, Zenon DEF Failed
<1> QED
  BY <1>1, <1>2, <1>3, <1>4, <1>5, ZenonT(30)

\* Every answer is read for what it is.
LEMMA EveryAnswerIsRead == ASSUME NEW answer \in Answer PROVE AnswersAreRead(answer)
<1> DEFINE IsRead(attached, out) ==
               /\ out.is = "session expired" <=> attached /\ answer.status = 404
               /\ out.is \in {"accepted", "stream"} => IsSuccess(answer.status)
               /\ out.is = "message" => answer.message
               /\ out.is # "failure" => answer.status \notin {401, 403} \/ answer.message
               /\ DeleteSession(answer).is = "failure" => out.is \notin {"accepted", "stream"}
<1>1. ASSUME NEW attached \in BOOLEAN, NEW out, out = PostMessage(answer, attached)
      PROVE  IsRead(attached, out)
  <2>1. DeleteSession(answer).is = "failure" => answer.status >= 400
    <3>1. DeleteSession(answer) = Reply("deleted") \/ answer.status >= 400
      BY DEF DeleteSession
    <3> QED
      BY <3>1 DEF Reply
  <2>2. answer.status \in Nat
    BY DEF Answer
  <2>3. CASE Refused(answer, out)
    <3>1. out.is = "failure" /\ answer.status # 404
      BY <2>3 DEF Refused, Failure
    <3> QED
      BY <3>1
  <2>4. CASE Taken(answer, out)
    <3>1. out.is = "accepted"
      BY <2>4 DEF Taken, Reply
    <3>2. answer.status \in 200..299 /\ ~(answer.status >= 400) /\ answer.status \notin {401, 403, 404}
      BY <2>4 DEF Taken
    <3> QED
      BY <2>1, <3>1, <3>2 DEF IsSuccess
  <2>5. CASE Lost(answer, attached, out)
    <3>1. out.is = "session expired"
      <4>1. out = Reply("session expired")
        BY <2>5, Zenon DEF Lost
      <4> QED
        BY <4>1 DEF Reply
    <3>2. attached /\ answer.status = 404 /\ answer.status \notin {401, 403}
      <4>1. attached /\ answer.status = 404
        BY <2>5, Zenon DEF Lost
      <4>2. answer.status \notin {401, 403}
        BY <4>1
      <4> QED
        BY <4>1, <4>2, Zenon
    <3>3. "session expired" \notin {"accepted", "stream", "message"}
      OBVIOUS
    <3> QED
      BY <3>1, <3>2, <3>3, Zenon
  <2>6. CASE Succeeded(answer, out)
    <3>1. out.is \in {"stream", "accepted", "failure"} \/ (out.is = "message" /\ answer.message)
      BY <2>6 DEF Succeeded, Reply, Failure
    <3>2. ~(answer.status >= 400) /\ answer.status \notin {401, 403, 404} /\ IsSuccess(answer.status)
      BY <2>2, <2>6 DEF Succeeded, IsSuccess
    <3> QED
      BY <2>1, <3>1, <3>2
  <2>7. CASE Failed(answer, attached, out)
    <3>1. out.is = "failure" \/ (out.is = "message" /\ answer.message)
      BY <2>7 DEF Failed, Reply, Failure
    <3>2. ~(attached /\ answer.status = 404)
      BY <2>7, Zenon DEF Failed
    <3> QED
      BY <3>1, <3>2
  <2> QED
    BY <1>1, <2>3, <2>4, <2>5, <2>6, <2>7, PostOutcomes, Zenon
<1> HIDE DEF IsRead
<1>2. \A attached \in BOOLEAN : IsRead(attached, PostMessage(answer, attached))
  BY <1>1, Zenon
<1> QED
  BY <1>2, Zenon DEF AnswersAreRead, IsRead

\* What a hint finds in a status.
LEMMA StatusHints ==
  ASSUME NEW status
  PROVE  /\ status \in {401, 403} => StatusWords(status) \cap HintWords # {}
         /\ status \notin {401, 403} => StatusWords(status) \cap HintWords = {}
<1>1. CASE status = 401
  <2>1. StatusWords(status) = {"401", "unauthorized"}
    BY <1>1 DEF StatusWords
  <2> QED
    BY <1>1, <2>1 DEF HintWords
<1>2. CASE status = 403
  <2>1. StatusWords(status) = {"403"}
    BY <1>2 DEF StatusWords
  <2> QED
    BY <1>2, <2>1 DEF HintWords
<1>3. CASE status \notin {401, 403}
  <2>1. StatusWords(status) = {"another status"}
    BY <1>3 DEF StatusWords
  <2> QED
    BY <1>3, <2>1 DEF HintWords
<1> QED
  BY <1>1, <1>2, <1>3

\* No status is called a limit that ran out.
LEMMA StatusIsNoLimit == ASSUME NEW status PROVE \E said \in StatusWords(status) : said # "timed out"
<1>1. CASE status = 401
  <2>1. "401" \in StatusWords(status)
    BY <1>1 DEF StatusWords
  <2> QED
    BY <2>1
<1>2. CASE status = 403
  <2>1. "403" \in StatusWords(status)
    BY <1>2 DEF StatusWords
  <2> QED
    BY <2>1
<1>3. CASE status \notin {401, 403}
  <2>1. "another status" \in StatusWords(status)
    BY <1>3 DEF StatusWords
  <2> QED
    BY <2>1
<1> QED
  BY <1>1, <1>2, <1>3

\* Who must log in is told so.
LEMMA EveryHintIsRight == ASSUME NEW answer \in Answer PROVE HintsAreRight(answer)
<1>1. ASSUME NEW out, out = PostMessage(answer, FALSE), out.is = "failure"
      PROVE  /\ answer.status \in {401, 403} /\ answer.challenge = "none" => SeemsToNeedLogin(out)
             /\ SeemsToNeedLogin(out) /\ answer.words = {} => answer.status \in {401, 403}
  <2>1. CASE Refused(answer, out)
    BY <2>1 DEF Refused
  <2>2. CASE Taken(answer, out)
    <3>1. out = Reply("accepted")
      BY <2>2, Zenon DEF Taken
    <3>2. out.is = "accepted"
      BY <3>1 DEF Reply
    <3> QED
      BY <1>1, <3>2
  <2>3. CASE Lost(answer, FALSE, out)
    BY <2>3, Zenon DEF Lost
  <2>4. CASE Succeeded(answer, out)
    <3>1. out.says = {}
      BY <2>4 DEF Succeeded, Reply, Failure
    <3>2. answer.status \notin {401, 403}
      BY <2>4 DEF Succeeded
    <3> QED
      BY <3>1, <3>2 DEF SeemsToNeedLogin
  <2>5. CASE Failed(answer, FALSE, out)
    <3>1. Reply("message").is # "failure"
      BY DEF Reply
    <3>2. out = Failure(StatusWords(answer.status) \cup answer.words)
      BY <1>1, <2>5, <3>1, Zenon DEF Failed
    <3>3. out.says = StatusWords(answer.status) \cup answer.words
      BY <3>2 DEF Failure
    <3>4. /\ answer.status \in {401, 403} => StatusWords(answer.status) \cap HintWords # {}
          /\ answer.status \notin {401, 403} => StatusWords(answer.status) \cap HintWords = {}
      BY StatusHints
    <3>5. /\ answer.status \in {401, 403} => out.says \cap HintWords # {}
          /\ answer.words = {} /\ out.says \cap HintWords # {} => answer.status \in {401, 403}
      BY <3>3, <3>4
    <3> QED
      BY <3>5, Zenon DEF SeemsToNeedLogin
  <2>6. FALSE \in BOOLEAN
    OBVIOUS
  <2> QED
    BY <1>1, <2>1, <2>2, <2>3, <2>4, <2>5, <2>6, PostOutcomes, ZenonT(60)
<1> QED
  BY <1>1, Zenon DEF HintsAreRight

\* Only a backend with a limit is given up.
LEMMA LimitsAlwaysKept == ASSUME NEW b, NEW answer \in Answer PROVE LimitsAreKept(b, answer)
<1>1. /\ \A w : StatusWords(answer.status) \cup w # {"timed out"}
      /\ StatusWords(answer.status) # {"timed out"}
  <2>1. PICK said \in StatusWords(answer.status) : said # "timed out"
    BY StatusIsNoLimit
  <2>2. ASSUME NEW w PROVE StatusWords(answer.status) \cup w # {"timed out"}
    BY <2>1
  <2>3. StatusWords(answer.status) # {"timed out"}
    BY <2>1
  <2> QED
    BY <2>2, <2>3
<1>2. Challenged(answer) # {"timed out"}
  BY DEF Answer, Challenged
<1>3. \A k : Failure({"timed out"}) # Reply(k)
  BY DEF Reply, Failure
<1>4. ASSUME NEW w, Failure({"timed out"}) = Failure(w) PROVE w = {"timed out"}
  <2>1. Failure(w).says = w /\ Failure({"timed out"}).says = {"timed out"}
    BY DEF Failure
  <2> QED
    BY <1>4, <2>1
<1>5. ASSUME NEW out, out = PostMessage(answer, TRUE)
      PROVE  Failure({"timed out"}) # out
  <2>1. {} # {"timed out"}
    OBVIOUS
  <2>2. Refused(answer, out) => Failure({"timed out"}) # out
    <3>1. Failure({"timed out"}) # Failure(Challenged(answer))
      BY <1>2, <1>4
    <3> QED
      BY <3>1, Zenon DEF Refused
  <2>3. Taken(answer, out) \/ Lost(answer, TRUE, out) => Failure({"timed out"}) # out
    BY <1>3 DEF Taken, Lost
  <2>4. Succeeded(answer, out) => Failure({"timed out"}) # out
    BY <1>3, <1>4, <2>1 DEF Succeeded
  <2>5. Failed(answer, TRUE, out) => Failure({"timed out"}) # out
    BY <1>1, <1>3, <1>4 DEF Failed
  <2>6. TRUE \in BOOLEAN
    OBVIOUS
  <2> QED
    BY <1>5, <2>2, <2>3, <2>4, <2>5, <2>6, PostOutcomes, Zenon
<1>6. Failure({"timed out"}) # GetStream(answer)
  <2>1. \/ GetStream(answer) \in {Reply("no stream"), Reply("stream")}
        \/ GetStream(answer) \in {Failure(StatusWords(answer.status)), Failure({})}
    BY DEF GetStream
  <2> QED
    BY <1>1, <1>3, <1>4, <2>1
<1>7. Failure({"timed out"}) # DeleteSession(answer)
  <2>1. DeleteSession(answer) \in {Reply("deleted"), Failure(StatusWords(answer.status))}
    BY DEF DeleteSession
  <2> QED
    BY <1>1, <1>3, <1>4, <2>1
<1> QED
  BY <1>5, <1>6, <1>7 DEF LimitsAreKept, Limited

\* For any backends, answers, providers and transports.
THEOREM RequestsAreRight ==
  ASSUME NEW backends, NEW answers \in SUBSET Answer, NEW maps, NEW transport
  PROVE  HttpAgreesFor(backends, answers, maps, transport)
<1>1. ASSUME NEW b \in {c \in backends : c.provider},
             NEW provided \in {{}} \cup {{headers} : headers \in maps}
      PROVE  HeadersRank(b, provided, transport)
  BY HeadersAreRanked
<1>2. ASSUME NEW answer \in answers
      PROVE  /\ AnswersAreRead(answer) /\ HintsAreRight(answer)
             /\ \A b \in backends : LimitsAreKept(b, answer)
  BY EveryAnswerIsRead, EveryHintIsRight, LimitsAlwaysKept
<1> QED
  BY <1>1, <1>2 DEF HttpAgreesFor

-----------------------------------------------------------------------------
(* What the flags of a start ask for *)

Modes == {"compressed-tools", "cli", "just-bash"}

\* Options of any names, servers and directories.
IsOptions(o) ==
    /\ o = [command |-> o.command, config |-> o.config, name |-> o.name, multi |-> o.multi,
            words |-> o.words, transform |-> o.transform, cli |-> o.cli, bash |-> o.bash,
            bashMode |-> o.bashMode, code |-> o.code, python |-> o.python,
            typescript |-> o.typescript, out |-> o.out]
    /\ o.transform \in Modes
    /\ o.code \in {{}, {"python"}, {"typescript"}}
    /\ o.cli \in BOOLEAN /\ o.bash \in BOOLEAN /\ o.bashMode \in BOOLEAN
    /\ o.python \in BOOLEAN /\ o.typescript \in BOOLEAN

LEMMA OnlyOne == \A x : Only({x}) = x
  BY DEF Only

LEMMA OnlyIn == ASSUME NEW set, set # {} PROVE Only(set) \in set
  BY DEF Only

\* Flags that are not refused name at most one mode, and one language.
LEMMA OneModeAsked ==
  ASSUME NEW o, IsOptions(o), Validated(o)
  PROVE  \/ ~o.cli /\ ~o.bash /\ ~o.bashMode /\ o.code = {} /\ ~o.python /\ ~o.typescript
         \/ o.cli /\ ~o.bash /\ ~o.bashMode /\ o.code = {} /\ ~o.python /\ ~o.typescript
         \/ ~o.cli /\ (o.bash \/ o.bashMode) /\ o.code = {} /\ ~o.python /\ ~o.typescript
         \/ ~o.cli /\ ~o.bash /\ ~o.bashMode /\ o.code # {} /\ ~o.python /\ ~o.typescript
         \/ ~o.cli /\ ~o.bash /\ ~o.bashMode /\ o.code = {} /\ o.python /\ ~o.typescript
         \/ ~o.cli /\ ~o.bash /\ ~o.bashMode /\ o.code = {} /\ ~o.python /\ o.typescript
  BY Zenon DEF IsOptions, Validated, AtMostOne, Codes

\* A start that serves has valid options, and serves their mode.
LEMMA StartParts ==
  ASSUME NEW o, NEW host
  PROVE  /\ RunAsync(o, host).is = "served" =>
                /\ Validated(o)
                /\ RunAsync(o, host).mode = TransformMode(o)
                /\ TransformMode(o) = "cli" => Len(RunAsync(o, host).built.servers) = 1
                /\ RunAsync(o, host).kind = IF TransformMode(o) = "cli" THEN ArtifactKind(o) ELSE {}
                /\ RunAsync(o, host).output = IF TransformMode(o) = "cli" THEN {OutputDir(o, host)} ELSE {}
         /\ ~Validated(o) => RunAsync(o, host).is = "usage"
<1> DEFINE start == RunAsync(o, host)
           built == Only(BuildServer(o))
           served == [is |-> "served", mode |-> TransformMode(o), built |-> built,
                      kind |-> IF TransformMode(o) = "cli" THEN ArtifactKind(o) ELSE {},
                      output |-> IF TransformMode(o) = "cli" THEN {OutputDir(o, host)} ELSE {},
                      called |-> Called(o, TransformMode(o))]
<1>1. CASE ~Validated(o)
  <2>1. start = Refusal("usage")
    BY <1>1, Zenon DEF RunAsync
  <2>2. start.is = "usage"
    BY <2>1 DEF Refusal
  <2> QED
    BY <1>1, <2>2
<1>2. CASE Validated(o)
  <2>1. \/ start \in {Refusal("usage"), Refusal("runtime"), [is |-> "command", command |-> Only(o.command)]}
        \/ start = served /\ ~(TransformMode(o) = "cli" /\ Len(built.servers) # 1)
    BY <1>2, Zenon DEF RunAsync
  <2>2. CASE start = served /\ ~(TransformMode(o) = "cli" /\ Len(built.servers) # 1)
    <3>1. /\ start.mode = TransformMode(o) /\ start.built = built
          /\ start.kind = IF TransformMode(o) = "cli" THEN ArtifactKind(o) ELSE {}
          /\ start.output = IF TransformMode(o) = "cli" THEN {OutputDir(o, host)} ELSE {}
      <4> HIDE DEF start, built
      <4> QED
        BY <2>2
    <3> HIDE DEF start, built, served
    <3>2. /\ Validated(o) /\ start.mode = TransformMode(o)
          /\ TransformMode(o) = "cli" => Len(start.built.servers) = 1
          /\ start.kind = IF TransformMode(o) = "cli" THEN ArtifactKind(o) ELSE {}
          /\ start.output = IF TransformMode(o) = "cli" THEN {OutputDir(o, host)} ELSE {}
      BY <1>2, <2>2, <3>1
    <3> QED
      BY <1>2, <3>2, Zenon DEF start
  <2>3. CASE start \in {Refusal("usage"), Refusal("runtime"), [is |-> "command", command |-> Only(o.command)]}
    <3>1. /\ Refusal("usage").is # "served" /\ Refusal("runtime").is # "served"
          /\ [is |-> "command", command |-> Only(o.command)].is # "served"
      BY DEF Refusal
    <3>2. start.is # "served"
      BY <2>3, <3>1
    <3> QED
      BY <1>2, <3>2
  <2> QED
    BY <2>1, <2>2, <2>3
<1> QED
  BY <1>1, <1>2

\* The flags that name something.
Asked(o) ==
    (IF o.cli THEN {"cli"} ELSE {})
        \cup (IF o.bash \/ o.bashMode THEN {"just-bash"} ELSE {})
        \cup o.code \cup (IF o.python THEN {"python"} ELSE {})
        \cup (IF o.typescript THEN {"typescript"} ELSE {})

\* What valid flags ask for is what the start takes them for.
LEMMA AskedIsOne ==
  ASSUME NEW o, IsOptions(o), Validated(o)
  PROVE  LET kind == IF TransformMode(o) = "cli" THEN ArtifactKind(o) ELSE {}
         IN  /\ \A one, other \in Asked(o) : one = other
             /\ Asked(o) \cap Languages = kind
             /\ Asked(o) \in {{}, kind, {TransformMode(o)}}
<1> DEFINE kind == IF TransformMode(o) = "cli" THEN ArtifactKind(o) ELSE {}
           Good == /\ \A one, other \in Asked(o) : one = other
                   /\ Asked(o) \cap Languages = kind
                   /\ Asked(o) \in {{}, kind, {TransformMode(o)}}
<1>1. CASE ~o.cli /\ ~o.bash /\ ~o.bashMode /\ o.code = {} /\ ~o.python /\ ~o.typescript
  <2>1. Asked(o) = {} /\ ArtifactKind(o) = {}
    BY <1>1 DEF Asked, ArtifactKind
  <2> QED
    BY <2>1
<1>2. CASE o.cli /\ ~o.bash /\ ~o.bashMode /\ o.code = {} /\ ~o.python /\ ~o.typescript
  <2>1. Asked(o) = {"cli"} /\ ArtifactKind(o) = {} /\ TransformMode(o) = "cli"
    BY <1>2 DEF Asked, ArtifactKind, TransformMode
  <2> QED
    BY <2>1 DEF Languages
<1>3. CASE ~o.cli /\ (o.bash \/ o.bashMode) /\ o.code = {} /\ ~o.python /\ ~o.typescript
  <2>1. Asked(o) = {"just-bash"} /\ TransformMode(o) = "just-bash"
    BY <1>3 DEF Asked, TransformMode
  <2> QED
    BY <2>1 DEF Languages
<1>4. CASE ~o.cli /\ ~o.bash /\ ~o.bashMode /\ o.code # {} /\ ~o.python /\ ~o.typescript
  <2>1. Asked(o) = o.code /\ ArtifactKind(o) = o.code /\ TransformMode(o) = "cli"
    BY <1>4 DEF Asked, ArtifactKind, TransformMode, Codes
  <2>2. o.code \in {{"python"}, {"typescript"}}
    BY <1>4 DEF IsOptions
  <2> QED
    BY <2>1, <2>2 DEF Languages
<1>5. CASE ~o.cli /\ ~o.bash /\ ~o.bashMode /\ o.code = {} /\ o.python /\ ~o.typescript
  <2>1. Asked(o) = {"python"} /\ ArtifactKind(o) = {"python"} /\ TransformMode(o) = "cli"
    BY <1>5 DEF Asked, ArtifactKind, TransformMode, Codes
  <2> QED
    BY <2>1 DEF Languages
<1>6. CASE ~o.cli /\ ~o.bash /\ ~o.bashMode /\ o.code = {} /\ ~o.python /\ o.typescript
  <2>1. Asked(o) = {"typescript"} /\ ArtifactKind(o) = {"typescript"} /\ TransformMode(o) = "cli"
    BY <1>6 DEF Asked, ArtifactKind, TransformMode, Codes
  <2> QED
    BY <2>1 DEF Languages
<1> QED
  BY <1>1, <1>2, <1>3, <1>4, <1>5, <1>6, OneModeAsked

\* Two modes at once are refused, and no flag is taken for another.
LEMMA StartsAreAsAsked ==
  ASSUME NEW o, IsOptions(o), NEW host
  PROVE  StartIsWhatWasAsked(o, host)
<1> DEFINE start == RunAsync(o, host)
<1>1. CASE Validated(o)
  <2>1. \A one, other \in Asked(o) : one = other
    BY <1>1, AskedIsOne
  <2>2. ASSUME start.is = "served"
        PROVE  /\ Asked(o) \cap Languages = start.kind
               /\ Asked(o) \in {{}, start.kind, {start.mode}}
               /\ start.output # {} => Len(start.built.servers) = 1
    BY <1>1, <2>2, AskedIsOne, StartParts
  <2> HIDE DEF start
  <2> QED
    BY <2>1, <2>2 DEF StartIsWhatWasAsked, Asked, start
<1>2. CASE ~Validated(o)
  <2>1. start.is = "usage"
    BY <1>2, StartParts
  <2> HIDE DEF start
  <2>2. start.is # "served"
    BY <2>1
  <2> QED
    BY <2>1, <2>2 DEF StartIsWhatWasAsked, start
<1> QED
  BY <1>1, <1>2

\* A script's directory.
LEMMA ScriptDirs ==
  ASSUME NEW host, NEW where \in SelectScriptDir(host)
  PROVE  /\ where.onPath => where.dir \in host.path
         /\ ~host.windows => where.dir \in host.dirs
<1>1. CASE host.windows
  <2>1. PICK d : where = [dir |-> d, onPath |-> d \in host.path]
    BY <1>1 DEF SelectScriptDir
  <2> QED
    BY <1>1, <2>1
<1>2. CASE ~host.windows
  <2>1. PICK d \in host.dirs \cap host.path : where = [dir |-> d, onPath |-> TRUE]
    BY <1>2 DEF SelectScriptDir
  <2> QED
    BY <1>2, <2>1
<1> QED
  BY <1>1, <1>2

\* Who is told to call a script by its name can.
LEMMA EveryScriptIsFound ==
  ASSUME NEW o, NEW host
  PROVE  ToldWhereItIs(o, host)
<1> DEFINE start == RunAsync(o, host)
           where == OutputDir(o, host)
           Told == /\ where.onPath => where.dir \in host.path \/ where.dir \in host.forced
                   /\ where.onPath /\ ArtifactKind(o) # {} => where.dir \in o.out
                   /\ where.dir \in host.dirs \cup {<<"here">>, <<"here", "dist">>} \cup o.out
                                        \cup host.forced
                          \/ host.windows
<1>1. Told
  <2>1. CASE o.out # {}
    <3>1. where = [dir |-> Only(o.out), onPath |-> Only(o.out) \in host.path]
      BY <2>1, Zenon DEF OutputDir
    <3>2. Only(o.out) \in o.out
      BY <2>1, OnlyIn
    <3> HIDE DEF where
    <3>3. where.dir \in o.out /\ (where.onPath => where.dir \in host.path)
      BY <3>1, <3>2
    <3> QED
      BY <3>3
  <2>2. CASE o.out = {} /\ ArtifactKind(o) # {}
    <3>1. where = [dir |-> <<"here", "dist">>, onPath |-> FALSE]
      BY <2>2, Zenon DEF OutputDir
    <3> QED
      BY <3>1
  <2>3. CASE o.out = {} /\ ArtifactKind(o) = {} /\ host.forced # {}
    <3>1. where = [dir |-> Only(host.forced), onPath |-> TRUE]
      BY <2>3, Zenon DEF OutputDir, CliOutputDir
    <3>2. Only(host.forced) \in host.forced
      BY <2>3, OnlyIn
    <3> QED
      BY <2>3, <3>1, <3>2
  <2>4. CASE o.out = {} /\ ArtifactKind(o) = {} /\ host.forced = {} /\ SelectScriptDir(host) # {}
    <3>1. where \in SelectScriptDir(host)
      BY <2>4, OnlyIn, Zenon DEF OutputDir, CliOutputDir
    <3> HIDE DEF where
    <3> QED
      BY <2>4, <3>1, ScriptDirs
  <2>5. CASE o.out = {} /\ ArtifactKind(o) = {} /\ host.forced = {} /\ SelectScriptDir(host) = {}
    <3>1. where = [dir |-> <<"here">>, onPath |-> FALSE]
      BY <2>5, Zenon DEF OutputDir, CliOutputDir
    <3> QED
      BY <3>1
  <2> QED
    BY <2>1, <2>2, <2>3, <2>4, <2>5
<1>2. ASSUME start.is = "served", NEW w \in start.output
      PROVE  w = where /\ (start.kind # {} => ArtifactKind(o) # {})
  BY <1>2, StartParts
<1> HIDE DEF start, where
<1> QED
  BY <1>1, <1>2 DEF ToldWhereItIs, start

\* What the mode of an SDK is read as.
LEMMA ModesAreRead ==
  ASSUME NEW mode \in SdkModes
  PROVE  /\ mode = "compressed" => ParseTransformMode(SdkTransform(mode)) = {"compressed-tools"}
         /\ mode = "bash" => ParseTransformMode(SdkTransform(mode)) = {"just-bash"}
         /\ mode \in {"cli"} \cup Languages => ParseTransformMode(SdkTransform(mode)) = {"cli"}
<1>1. CASE mode = "compressed"
  <2>1. SdkTransform(mode) = {}
    BY <1>1 DEF SdkTransform, Languages
  <2>2. ParseTransformMode({}) = {"compressed-tools"}
    <3>1. Only({} \cup (IF {} = {} THEN {"compressed-tools"} ELSE {})) = "compressed-tools"
      BY OnlyOne
    <3> QED
      BY <3>1 DEF ParseTransformMode
  <2> QED
    BY <1>1, <2>1, <2>2 DEF Languages
<1>2. CASE mode = "bash"
  <2>1. SdkTransform(mode) = {"just-bash"}
    BY <1>2 DEF SdkTransform, Languages
  <2>2. ParseTransformMode({"just-bash"}) = {"just-bash"}
    <3>1. Only({"just-bash"} \cup (IF {"just-bash"} = {} THEN {"compressed-tools"} ELSE {})) = "just-bash"
      BY OnlyOne
    <3> QED
      BY <3>1 DEF ParseTransformMode
  <2> QED
    BY <1>2, <2>1, <2>2 DEF Languages
<1>3. CASE mode \in {"cli"} \cup Languages
  <2>1. SdkTransform(mode) = {"cli"}
    BY <1>3 DEF SdkTransform, Languages
  <2>2. ParseTransformMode({"cli"}) = {"cli"}
    <3>1. Only({"cli"} \cup (IF {"cli"} = {} THEN {"compressed-tools"} ELSE {})) = "cli"
      BY OnlyOne
    <3> QED
      BY <3>1 DEF ParseTransformMode
  <2> QED
    BY <1>3, <2>1, <2>2 DEF Languages
<1> QED
  BY <1>1, <1>2, <1>3 DEF SdkModes

\* Options that name no mode.
Quiet(o) ==
    /\ o.transform = "compressed-tools" /\ o.code = {}
    /\ ~o.cli /\ ~o.bash /\ ~o.bashMode /\ ~o.python /\ ~o.typescript

\* Flags that name a mode: no others, and nothing else is changed.
Names(o, mode, plain) ==
    /\ o.config = plain.config /\ o.name = plain.name /\ o.multi = plain.multi
    /\ \/ mode = "compressed" /\ Quiet(o)
       \/ /\ mode = "cli" /\ ~o.bash /\ ~o.bashMode /\ o.code = {} /\ ~o.python /\ ~o.typescript
          /\ o.cli \/ o.transform = "cli"
       \/ /\ mode = "bash" /\ ~o.cli /\ o.code = {} /\ ~o.python /\ ~o.typescript
          /\ \/ o.bash \/ o.bashMode
             \/ ~o.bash /\ ~o.bashMode /\ o.transform = "just-bash"
       \/ /\ mode \in Languages /\ ~o.cli /\ ~o.bash /\ ~o.bashMode
          /\ \/ o.code = {mode} /\ ~o.python /\ ~o.typescript
             \/ o.code = {} /\ mode = "python" /\ o.python /\ ~o.typescript
             \/ o.code = {} /\ mode = "typescript" /\ ~o.python /\ o.typescript

LEMMA FlagsName ==
  ASSUME NEW plain, IsOptions(plain), Quiet(plain), NEW mode \in SdkModes, NEW o \in FlagsOf(mode, plain)
  PROVE  Names(o, mode, plain)
<1>0. {"config", "name", "multi", "cli", "bash", "bashMode", "code", "python", "typescript", "transform"}
          \subseteq DOMAIN plain
  BY DEF IsOptions
<1>1. CASE mode = "compressed"
  <2>1. o = plain
    BY <1>1 DEF FlagsOf
  <2> QED
    BY <1>1, <2>1 DEF Names
<1>2. CASE mode = "cli"
  <2>1. o \in {[plain EXCEPT !.cli = TRUE], [plain EXCEPT !.transform = "cli"]}
    BY <1>2 DEF FlagsOf
  <2>2. CASE o = [plain EXCEPT !.cli = TRUE]
    <3>1. o.cli = TRUE
      BY <1>0, <2>2
    <3>2. /\ o.transform = plain.transform /\ o.code = plain.code /\ o.bash = plain.bash
          /\ o.bashMode = plain.bashMode /\ o.python = plain.python /\ o.typescript = plain.typescript
          /\ o.config = plain.config /\ o.name = plain.name /\ o.multi = plain.multi
      BY <1>0, <2>2
    <3> QED
      BY <1>2, <3>1, <3>2 DEF Names, Quiet, Languages
  <2>3. CASE o = [plain EXCEPT !.transform = "cli"]
    <3>1. o.transform = "cli"
      BY <1>0, <2>3
    <3>2. /\ o.code = plain.code /\ o.cli = plain.cli /\ o.bash = plain.bash
          /\ o.bashMode = plain.bashMode /\ o.python = plain.python /\ o.typescript = plain.typescript
          /\ o.config = plain.config /\ o.name = plain.name /\ o.multi = plain.multi
      BY <1>0, <2>3
    <3> QED
      BY <1>2, <3>1, <3>2 DEF Names, Quiet, Languages
  <2> QED
    BY <2>1, <2>2, <2>3
<1>3. CASE mode = "bash"
  <2>1. o \in {[plain EXCEPT !.bash = TRUE], [plain EXCEPT !.bashMode = TRUE], [plain EXCEPT !.transform = "just-bash"]}
    BY <1>3 DEF FlagsOf
  <2>2. CASE o = [plain EXCEPT !.bash = TRUE]
    <3>1. o.bash = TRUE
      BY <1>0, <2>2
    <3>2. /\ o.transform = plain.transform /\ o.code = plain.code /\ o.cli = plain.cli
          /\ o.bashMode = plain.bashMode /\ o.python = plain.python /\ o.typescript = plain.typescript
          /\ o.config = plain.config /\ o.name = plain.name /\ o.multi = plain.multi
      BY <1>0, <2>2
    <3> QED
      BY <1>3, <3>1, <3>2 DEF Names, Quiet, Languages
  <2>3. CASE o = [plain EXCEPT !.bashMode = TRUE]
    <3>1. o.bashMode = TRUE
      BY <1>0, <2>3
    <3>2. /\ o.transform = plain.transform /\ o.code = plain.code /\ o.cli = plain.cli
          /\ o.bash = plain.bash /\ o.python = plain.python /\ o.typescript = plain.typescript
          /\ o.config = plain.config /\ o.name = plain.name /\ o.multi = plain.multi
      BY <1>0, <2>3
    <3> QED
      BY <1>3, <3>1, <3>2 DEF Names, Quiet, Languages
  <2>4. CASE o = [plain EXCEPT !.transform = "just-bash"]
    <3>1. o.transform = "just-bash"
      BY <1>0, <2>4
    <3>2. /\ o.code = plain.code /\ o.cli = plain.cli /\ o.bash = plain.bash
          /\ o.bashMode = plain.bashMode /\ o.python = plain.python /\ o.typescript = plain.typescript
          /\ o.config = plain.config /\ o.name = plain.name /\ o.multi = plain.multi
      BY <1>0, <2>4
    <3> QED
      BY <1>3, <3>1, <3>2 DEF Names, Quiet, Languages
  <2> QED
    BY <2>1, <2>2, <2>3, <2>4
<1>4. CASE mode = "python"
  <2>1. o \in {[plain EXCEPT !.code = {"python"}], [plain EXCEPT !.python = TRUE]}
    BY <1>4 DEF FlagsOf
  <2>2. CASE o = [plain EXCEPT !.code = {"python"}]
    <3>1. o.code = {"python"}
      BY <1>0, <2>2
    <3>2. /\ o.transform = plain.transform /\ o.cli = plain.cli /\ o.bash = plain.bash
          /\ o.bashMode = plain.bashMode /\ o.python = plain.python /\ o.typescript = plain.typescript
          /\ o.config = plain.config /\ o.name = plain.name /\ o.multi = plain.multi
      BY <1>0, <2>2
    <3> QED
      BY <1>4, <3>1, <3>2 DEF Names, Quiet, Languages
  <2>3. CASE o = [plain EXCEPT !.python = TRUE]
    <3>1. o.python = TRUE
      BY <1>0, <2>3
    <3>2. /\ o.transform = plain.transform /\ o.code = plain.code /\ o.cli = plain.cli
          /\ o.bash = plain.bash /\ o.bashMode = plain.bashMode /\ o.typescript = plain.typescript
          /\ o.config = plain.config /\ o.name = plain.name /\ o.multi = plain.multi
      BY <1>0, <2>3
    <3> QED
      BY <1>4, <3>1, <3>2 DEF Names, Quiet, Languages
  <2> QED
    BY <2>1, <2>2, <2>3
<1>5. CASE mode = "typescript"
  <2>1. o \in {[plain EXCEPT !.code = {"typescript"}], [plain EXCEPT !.typescript = TRUE]}
    BY <1>5 DEF FlagsOf
  <2>2. CASE o = [plain EXCEPT !.code = {"typescript"}]
    <3>1. o.code = {"typescript"}
      BY <1>0, <2>2
    <3>2. /\ o.transform = plain.transform /\ o.cli = plain.cli /\ o.bash = plain.bash
          /\ o.bashMode = plain.bashMode /\ o.python = plain.python /\ o.typescript = plain.typescript
          /\ o.config = plain.config /\ o.name = plain.name /\ o.multi = plain.multi
      BY <1>0, <2>2
    <3> QED
      BY <1>5, <3>1, <3>2 DEF Names, Quiet, Languages
  <2>3. CASE o = [plain EXCEPT !.typescript = TRUE]
    <3>1. o.typescript = TRUE
      BY <1>0, <2>3
    <3>2. /\ o.transform = plain.transform /\ o.code = plain.code /\ o.cli = plain.cli
          /\ o.bash = plain.bash /\ o.bashMode = plain.bashMode /\ o.python = plain.python
          /\ o.config = plain.config /\ o.name = plain.name /\ o.multi = plain.multi
      BY <1>0, <2>3
    <3> QED
      BY <1>5, <3>1, <3>2 DEF Names, Quiet, Languages
  <2> QED
    BY <2>1, <2>2, <2>3
<1> QED
  BY <1>1, <1>2, <1>3, <1>4, <1>5 DEF SdkModes, Languages

\* The flags of a mode and the mode of an SDK start the same frontend.
LEMMA EveryModeAgrees ==
  ASSUME NEW plain, IsOptions(plain), TransformMode(plain) = "compressed-tools", Validated(plain)
  PROVE  ModesAgree(plain)
<1>1. Quiet(plain)
  <2>1. ~plain.cli /\ ~plain.bash /\ ~plain.bashMode /\ ~Codes(plain) /\ plain.transform = "compressed-tools"
    BY DEF TransformMode
  <2> QED
    BY <2>1 DEF Codes, Quiet
<1>2. ASSUME NEW mode \in SdkModes, NEW o \in FlagsOf(mode, plain)
      PROVE  /\ Validated(o)
             /\ ArtifactKind(o) = {mode} \cap Languages
             /\ ParseTransformMode(SdkTransform(mode)) = {TransformMode(o)}
  <2>1. Names(o, mode, plain)
    BY <1>1, FlagsName
  <2>2. plain.config = {} \/ plain.name = {}
    BY DEF Validated
  <2>3. CASE mode = "compressed" /\ Quiet(o)
    BY <2>1, <2>2, <2>3, ModesAreRead
       DEF Names, Quiet, Validated, AtMostOne, Codes, ArtifactKind, TransformMode, Languages
  <2>4. CASE /\ mode = "cli" /\ ~o.bash /\ ~o.bashMode /\ o.code = {} /\ ~o.python /\ ~o.typescript
             /\ o.cli \/ o.transform = "cli"
    BY <2>1, <2>2, <2>4, ModesAreRead
       DEF Names, Validated, AtMostOne, Codes, ArtifactKind, TransformMode, Languages
  <2>5. CASE /\ mode = "bash" /\ ~o.cli /\ o.code = {} /\ ~o.python /\ ~o.typescript
             /\ \/ o.bash \/ o.bashMode
                \/ ~o.bash /\ ~o.bashMode /\ o.transform = "just-bash"
    BY <2>1, <2>2, <2>5, ModesAreRead
       DEF Names, Validated, AtMostOne, Codes, ArtifactKind, TransformMode, Languages
  <2>6. CASE /\ mode \in Languages /\ ~o.cli /\ ~o.bash /\ ~o.bashMode
             /\ \/ o.code = {mode} /\ ~o.python /\ ~o.typescript
                \/ o.code = {} /\ mode = "python" /\ o.python /\ ~o.typescript
                \/ o.code = {} /\ mode = "typescript" /\ ~o.python /\ o.typescript
    BY <2>1, <2>2, <2>6, ModesAreRead
       DEF Names, Validated, AtMostOne, Codes, ArtifactKind, TransformMode, Languages
  <2> QED
    BY <2>1, <2>3, <2>4, <2>5, <2>6, Zenon DEF Names
<1>3. ASSUME NEW mode \in SdkModes, NEW o \in FlagsOf(mode, plain), o.config # {} \/ o.multi # <<>>
      PROVE  SdkStart(mode, o) = {[mode |-> TransformMode(o), built |-> Only(BuildServer(o))]}
  <2>1. ParseTransformMode(SdkTransform(mode)) = {TransformMode(o)} /\ Validated(o)
    BY <1>2
  <2>2. CASE o.config # {}
    <3>1. o.name = {}
      BY <2>1, <2>2 DEF Validated
    <3>2. Only(BuildServer(o)) = [start |-> "json", servers |-> Only(o.config), prefix |-> {}]
      BY <2>2, OnlyOne, Zenon DEF BuildServer
    <3>3. SdkStart(mode, o) =
              {[mode |-> m, built |-> [start |-> "json", servers |-> Only(o.config), prefix |-> {}]] :
                   m \in {TransformMode(o)}}
      BY <2>1, <2>2, <3>1 DEF SdkStart
    <3> QED
      BY <3>2, <3>3
  <2>3. CASE o.config = {}
    <3>1. Only(BuildServer(o)) = [start |-> "many", servers |-> o.multi, prefix |-> o.name]
      <4>1. BuildServer(o) = {[start |-> "many", servers |-> o.multi, prefix |-> o.name]}
        BY <1>3, <2>3 DEF BuildServer
      <4> QED
        BY <4>1, OnlyOne
    <3>2. SdkStart(mode, o) =
              {[mode |-> m, built |-> [start |-> "many", servers |-> o.multi, prefix |-> o.name]] :
                   m \in {TransformMode(o)}}
      BY <2>1, <2>3 DEF SdkStart
    <3> QED
      BY <3>1, <3>2
  <2> QED
    BY <2>2, <2>3
<1> QED
  BY <1>2, <1>3 DEF ModesAgree

\* For any options and any hosts: two modes at once are refused and no flag is taken
\* for another, the flags of a mode start what the mode of an SDK starts, and who is
\* told to call a script by its name can (app/options.rs:143, app/paths.rs, ffi/session.rs:142).
THEOREM StartsAgree ==
  ASSUME NEW options, \A o \in options : IsOptions(o), NEW scripts, NEW hosts
  PROVE  StartsAgreeFor(options, scripts, hosts)
<1>1. ASSUME NEW o \in options
      PROVE  /\ StartIsWhatWasAsked(o, Only(hosts))
             /\ TransformMode(o) = "compressed-tools" /\ Validated(o) => ModesAgree(o)
  BY StartsAreAsAsked, EveryModeAgrees
<1>2. ASSUME NEW o \in scripts, NEW host \in hosts PROVE ToldWhereItIs(o, host)
  BY EveryScriptIsFound
<1> QED
  BY <1>1, <1>2, Zenon DEF StartsAgreeFor

-----------------------------------------------------------------------------
(* Induction over data *)

\* A set of natural numbers has a least one.
LEMMA LeastNumber ==
  ASSUME NEW T \in SUBSET Nat, T # {}
  PROVE  \E x \in T : \A y \in T : x <= y
<1> DEFINE R == OpToRel(<, Nat)
<1>1. IsWellFoundedOn(R, Nat)
  BY NatLessThanWellFounded
<1>2. \A x, y \in Nat : <<x, y>> \in R <=> x < y
  BY DEF OpToRel
<1> HIDE DEF R
<1>3. PICK x \in T : \A y \in T : ~ (<<y, x>> \in R)
  BY <1>1, WFMin
<1>4. \A y \in T : ~ (y < x)
  BY <1>2, <1>3
<1> QED
  BY <1>4

\* A set with 0 that has n + 1 whenever it has n < m has every number up to m.
LEMMA InductionUpTo ==
  ASSUME NEW m \in Nat, NEW S, 0 \in S, \A n \in 1..m : n - 1 \in S => n \in S
  PROVE  \A n \in 0..m : n \in S
<1> SUFFICES ASSUME (0..m) \ S # {} PROVE FALSE
  OBVIOUS
<1>1. (0..m) \ S \in SUBSET Nat
  OBVIOUS
<1>2. PICK x \in (0..m) \ S : \A y \in (0..m) \ S : x <= y
  BY <1>1, LeastNumber
<1>3. x \in 1..m /\ x - 1 \in 0..m /\ ~ (x <= x - 1)
  BY <1>2
<1> QED
  BY <1>2, <1>3

\* What a recursive definition that goes back one step, and stays within T, comes to.
LEMMA Recursion ==
  ASSUME NEW T, NEW b \in T, NEW n \in Nat, NEW h \in [1..n -> [T -> T]]
  PROVE  \E f \in [0..n -> T] : f[0] = b /\ \A i \in 1..n : f[i] = h[i][f[i - 1]]
<1> DEFINE IsSolution(f, m) ==
               f \in [0..m -> T] /\ f[0] = b /\ \A i \in 1..m : f[i] = h[i][f[i - 1]]
           S == {m \in 0..n : \E f : IsSolution(f, m)}
<1>1. 0 \in S
  <2> DEFINE f == [i \in 0..0 |-> b]
  <2>1. IsSolution(f, 0)
    OBVIOUS
  <2> HIDE DEF IsSolution, f
  <2> QED
    BY <2>1
<1>2. ASSUME NEW m \in 1..n, m - 1 \in S PROVE m \in S
  <2>1. PICK f : IsSolution(f, m - 1)
    BY <1>2
  <2> DEFINE g == [i \in 0..m |-> IF i < m THEN f[i] ELSE h[m][f[m - 1]]]
  <2>2. h[m][f[m - 1]] \in T
    BY <2>1
  <2>3. g \in [0..m -> T]
    BY <2>1, <2>2
  <2>4. ASSUME NEW i \in 1..m PROVE g[i] = h[i][g[i - 1]]
    <3>1. CASE i < m
      BY <3>1, <2>1
    <3>2. CASE i = m
      BY <3>2, <2>1
    <3> QED
      BY <3>1, <3>2
  <2>5. g[0] = b
    BY <2>1
  <2>6. IsSolution(g, m)
    <3> HIDE DEF g
    <3> QED
      BY <2>3, <2>4, <2>5
  <2> HIDE DEF IsSolution
  <2> QED
    BY <2>6
<1>3. n \in S
  <2> HIDE DEF S
  <2>1. \A m \in 0..n : m \in S
    BY <1>1, <1>2, InductionUpTo
  <2> QED
    BY <2>1
<1> QED
  BY <1>3

-----------------------------------------------------------------------------
(* Texts that are made of pieces.  The provers are told nothing of sequences but *)
(* how they are put together.                                                    *)

Texts(A) == Seq(A)
NoText == <<>>
Then(x, y) == x \o y

LEMMA ThenIs ==
  ASSUME NEW A
  PROVE  /\ NoText \in Texts(A)
         /\ \A x, y \in Texts(A) : Then(x, y) \in Texts(A)
         /\ \A x \in Texts(A) : Then(x, NoText) = x /\ Then(NoText, x) = x
  BY ConcatProperties, ConcatEmptySeq DEF Texts, NoText, Then

LEMMA ThenAssociative ==
  ASSUME NEW A, NEW x \in Texts(A), NEW y \in Texts(A), NEW z \in Texts(A)
  PROVE  Then(Then(x, y), z) = Then(x, Then(y, z))
  BY ConcatAssociative DEF Texts, Then

\* The beginnings of a text that is made of n pieces.
AreBeginnings(f, pieces, n) ==
    f[0] = NoText /\ \A i \in 1..n : f[i] = Then(f[i - 1], pieces[i])

LEMMA Beginnings ==
  ASSUME NEW A, NEW n \in Nat, NEW pieces \in [1..n -> Texts(A)]
  PROVE  \E f \in [0..n -> Texts(A)] : AreBeginnings(f, pieces, n)
<1> DEFINE h == [i \in 1..n |-> [x \in Texts(A) |-> Then(x, pieces[i])]]
           b == NoText
           T == Texts(A)
<1>1. h \in [1..n -> [T -> T]]
  <2>1. \A i \in 1..n : \A x \in Texts(A) : Then(x, pieces[i]) \in Texts(A)
    BY ThenIs
  <2> QED
    BY <2>1
<1>2. b \in T
  BY ThenIs
<1>3. PICK f \in [0..n -> T] : f[0] = b /\ \A i \in 1..n : f[i] = h[i][f[i - 1]]
  <2> HIDE DEF h, b, T
  <2>1. \E f \in [0..n -> T] : f[0] = b /\ \A i \in 1..n : f[i] = h[i][f[i - 1]]
    BY <1>1, <1>2, Recursion, SMTT(60)
  <2> QED
    BY <2>1
<1>4. ASSUME NEW i \in 1..n PROVE f[i] = Then(f[i - 1], pieces[i])
  <2>1. f[i - 1] \in Texts(A)
    OBVIOUS
  <2> QED
    BY <1>3, <2>1
<1> QED
  BY <1>3, <1>4 DEF AreBeginnings

\* They are the same however they are found.
LEMMA SameBeginnings ==
  ASSUME NEW n \in Nat, NEW pieces, NEW f, NEW g,
         AreBeginnings(f, pieces, n), AreBeginnings(g, pieces, n)
  PROVE  \A i \in 0..n : f[i] = g[i]
<1> DEFINE S == {i \in 0..n : f[i] = g[i]}
<1>1. 0 \in S
  BY DEF AreBeginnings
<1>2. ASSUME NEW i \in 1..n, i - 1 \in S PROVE i \in S
  BY <1>2 DEF AreBeginnings
<1> HIDE DEF S
<1>3. \A i \in 0..n : i \in S
  BY <1>1, <1>2, InductionUpTo
<1> QED
  BY <1>3 DEF S

\* The text is the last of them.
LEMMA FlatIs ==
  ASSUME NEW A, NEW n \in Nat, NEW pieces \in [1..n -> Texts(A)],
         NEW f \in [0..n -> Texts(A)], AreBeginnings(f, pieces, n)
  PROVE  FlattenSeq(pieces) = f[n]
<1> DEFINE IsFlat(g) == g = [i \in 1..n |-> IF i = 1 THEN pieces[i] ELSE Then(g[i - 1], pieces[i])]
           flat == CHOOSE g : IsFlat(g)
<1>1. Len(pieces) = n
  BY LenProperties
<1>2. CASE n = 0
  <2>1. FlattenSeq(pieces) = pieces
    BY <1>1, <1>2 DEF FlattenSeq
  <2>2. pieces = NoText
    BY <1>2 DEF NoText
  <2> QED
    BY <1>2, <2>1, <2>2 DEF AreBeginnings
<1>3. CASE n # 0
  <2>1. FlattenSeq(pieces) = flat[n]
    BY <1>1, <1>3 DEF FlattenSeq, Then
  <2>2. 1 \in 1..n /\ f[1] = pieces[1]
    <3>1. 1 \in 1..n /\ f[1] = Then(NoText, pieces[1]) /\ pieces[1] \in Texts(A)
      BY <1>3 DEF AreBeginnings
    <3> QED
      BY <3>1, ThenIs
  <2>3. IsFlat([i \in 1..n |-> f[i]])
    BY <2>2 DEF AreBeginnings
  <2>4. IsFlat(flat)
    <3> HIDE DEF IsFlat
    <3> QED
      BY <2>3
  <2> HIDE DEF flat
  <2> DEFINE g == [i \in 0..n |-> IF i = 0 THEN NoText ELSE flat[i]]
  <2>5. ASSUME NEW i \in 1..n PROVE g[i] = Then(g[i - 1], pieces[i])
    <3>1. CASE i = 1
      <4>1. g[i] = pieces[1] /\ g[i - 1] = NoText /\ pieces[1] \in Texts(A)
        BY <2>4, <3>1
      <4> QED
        BY <3>1, <4>1, ThenIs
    <3>2. CASE i # 1
      <4>1. i - 1 \in 1..n /\ g[i - 1] = flat[i - 1] /\ g[i] = flat[i]
        BY <3>2
      <4>2. flat[i] = Then(flat[i - 1], pieces[i])
        BY <2>4, <3>2
      <4> QED
        BY <4>1, <4>2
    <3> QED
      BY <3>1, <3>2
  <2>6. AreBeginnings(g, pieces, n)
    <3>1. g[0] = NoText
      OBVIOUS
    <3> HIDE DEF g
    <3> QED
      BY <2>5, <3>1 DEF AreBeginnings
  <2>7. g[n] = flat[n]
    BY <1>3
  <2> HIDE DEF g
  <2>8. g[n] = f[n]
    BY <2>6, SameBeginnings
  <2> QED
    BY <2>1, <2>7, <2>8
<1> QED
  BY <1>2, <1>3

\* n pieces; pieces after pieces.
ArePieces(A, pieces, n) == n \in Nat /\ pieces \in [1..n -> Texts(A)]
Joins(both, first, m, second, n) ==
    /\ \A i \in 1..m : both[i] = first[i]
    /\ \A i \in 1..n : both[m + i] = second[i]

LEMMA FlatConcat ==
  ASSUME NEW A, NEW m, NEW n, NEW k, k = m + n, NEW first, NEW second, NEW both,
         ArePieces(A, first, m), ArePieces(A, second, n), ArePieces(A, both, k),
         Joins(both, first, m, second, n)
  PROVE  /\ FlattenSeq(first) \in Texts(A)
         /\ FlattenSeq(both) = Then(FlattenSeq(first), FlattenSeq(second))
<1> USE DEF ArePieces, Joins
<1>1. PICK f \in [0..m -> Texts(A)] : AreBeginnings(f, first, m)
  BY Beginnings
<1>2. PICK g \in [0..n -> Texts(A)] : AreBeginnings(g, second, n)
  BY Beginnings
<1>3. FlattenSeq(first) = f[m] /\ FlattenSeq(second) = g[n] /\ f[m] \in Texts(A) /\ g[n] \in Texts(A)
  <2>1. FlattenSeq(first) = f[m]
    BY <1>1, FlatIs, ZenonT(60)
  <2>2. FlattenSeq(second) = g[n]
    BY <1>2, FlatIs, ZenonT(60)
  <2>3. f[m] \in Texts(A) /\ g[n] \in Texts(A)
    OBVIOUS
  <2> QED
    BY <2>1, <2>2, <2>3
<1> DEFINE F == [i \in 0..(m + n) |-> IF i <= m THEN f[i] ELSE Then(f[m], g[i - m])]
<1>4. ASSUME NEW i \in 0..(m + n) PROVE F[i] \in Texts(A)
  <2>1. CASE i <= m
    BY <2>1
  <2>2. CASE i > m
    <3>1. i - m \in 0..n /\ F[i] = Then(f[m], g[i - m])
      BY <2>2
    <3> QED
      BY <1>3, <3>1, ThenIs
  <2> QED
    BY <2>1, <2>2
<1>5. ASSUME NEW i \in 1..(m + n) PROVE F[i] = Then(F[i - 1], both[i])
  <2>1. CASE i <= m
    BY <1>1, <2>1 DEF AreBeginnings
  <2>2. CASE i = m + 1
    <3>1. 1 \in 1..n /\ F[i] = Then(f[m], g[1]) /\ F[i - 1] = f[m] /\ both[i] = second[1]
      BY <2>2
    <3>2. g[1] = Then(NoText, second[1]) /\ second[1] \in Texts(A)
      BY <1>2, <3>1 DEF AreBeginnings
    <3> QED
      BY <3>1, <3>2, ThenIs
  <2>3. CASE i > m + 1
    <3> DEFINE j == i - m
    <3>1. j \in 1..n /\ j - 1 \in 0..n /\ m + j = i /\ (i - 1) - m = j - 1 /\ ~ (i - 1 <= m) /\ ~ (i <= m)
      BY <2>3
    <3> HIDE DEF j
    <3>2. F[i] = Then(f[m], g[j]) /\ F[i - 1] = Then(f[m], g[j - 1]) /\ both[i] = second[j]
      BY <3>1
    <3>3. g[j] = Then(g[j - 1], second[j]) /\ second[j] \in Texts(A) /\ g[j - 1] \in Texts(A)
      BY <1>2, <3>1 DEF AreBeginnings
    <3>4. Then(Then(f[m], g[j - 1]), second[j]) = Then(f[m], Then(g[j - 1], second[j]))
      BY <1>3, <3>3, ThenAssociative
    <3> QED
      BY <3>2, <3>3, <3>4
  <2> QED
    BY <2>1, <2>2, <2>3
<1>6. F[0] = NoText /\ F \in [0..(m + n) -> Texts(A)]
  BY <1>1, <1>4 DEF AreBeginnings
<1>7. F[m + n] = Then(f[m], g[n])
  <2>1. CASE n = 0
    BY <1>2, <1>3, <2>1, ThenIs DEF AreBeginnings
  <2>2. CASE n # 0
    BY <2>2
  <2> QED
    BY <2>1, <2>2
<1> HIDE DEF F
<1>8. m + n \in Nat /\ AreBeginnings(F, both, m + n) /\ both \in [1..(m + n) -> Texts(A)]
  BY <1>5, <1>6 DEF AreBeginnings
<1>9. FlattenSeq(both) = F[m + n]
  BY <1>6, <1>8, FlatIs, ZenonT(60)
<1> QED
  BY <1>3, <1>7, <1>9

\* No pieces, and one.
LEMMA FlatOne ==
  ASSUME NEW A, NEW none \in [1..0 -> Texts(A)], NEW one \in [1..1 -> Texts(A)]
  PROVE  FlattenSeq(none) = NoText /\ FlattenSeq(one) = one[1]
<1>1. PICK f \in [0..0 -> Texts(A)] : AreBeginnings(f, none, 0)
  <2>1. 0 \in Nat
    OBVIOUS
  <2> QED
    BY <2>1, Beginnings
<1>2. PICK g \in [0..1 -> Texts(A)] : AreBeginnings(g, one, 1)
  <2>1. 1 \in Nat
    OBVIOUS
  <2> QED
    BY <2>1, Beginnings
<1>3. FlattenSeq(none) = f[0]
  <2>1. 0 \in Nat
    OBVIOUS
  <2> QED
    BY <1>1, <2>1, FlatIs
<1>4. FlattenSeq(one) = g[1]
  <2>1. 1 \in Nat
    OBVIOUS
  <2> QED
    BY <1>2, <2>1, FlatIs
<1>5. g[1] = Then(NoText, one[1]) /\ one[1] \in Texts(A)
  BY <1>2 DEF AreBeginnings
<1> QED
  BY <1>1, <1>3, <1>4, <1>5, ThenIs DEF AreBeginnings

\* A text of one sign, and its signs.
Sign(c) == <<c>>
Signs(x) == ToSet(x)

\* Every text is begun with one sign after the other.
LEMMA FirstSign ==
  ASSUME NEW A, NEW x \in Texts(A), x # NoText
  PROVE  \E c \in A, rest \in Texts(A) : x = Then(Sign(c), rest) /\ Len(rest) = Len(x) - 1
<1>1. /\ Len(x) \in Nat /\ Len(x) >= 1 /\ x[1] \in A
      /\ Tail(x) \in Seq(A) /\ Len(Tail(x)) = Len(x) - 1
      /\ \A i \in 1..(Len(x) - 1) : Tail(x)[i] = x[i + 1]
  BY HeadTailProperties, EmptySeq, ElementOfSeq DEF Texts, NoText
<1>2. <<x[1]>> \in Seq(A) /\ Len(<<x[1]>>) = 1 /\ <<x[1]>>[1] = x[1]
  BY <1>1
<1> DEFINE y == <<x[1]>> \o Tail(x)
<1>3. /\ y \in Seq(A) /\ Len(y) = Len(x)
      /\ \A i \in 1..Len(x) : y[i] = x[i]
  <2>1. /\ y \in Seq(A) /\ Len(y) = 1 + Len(Tail(x))
        /\ \A i \in 1..(1 + Len(Tail(x))) : y[i] = IF i <= 1 THEN <<x[1]>>[i] ELSE Tail(x)[i - 1]
    BY <1>1, <1>2, ConcatProperties
  <2> HIDE DEF y
  <2> QED
    BY <1>1, <1>2, <2>1
<1> HIDE DEF y
<1>4. y = x
  BY <1>3, SeqEqual DEF Texts
<1> QED
  BY <1>1, <1>4 DEF Texts, Then, Sign, y

\* Induction over texts: what holds of none, and of a text with one more sign in
\* front, holds of all.
LEMMA TextInduction ==
  ASSUME NEW A, NEW S, NoText \in S,
         \A c \in A, x \in Texts(A) : x \in S => Then(Sign(c), x) \in S
  PROVE  Texts(A) \subseteq S
<1> SUFFICES ASSUME NEW all \in Texts(A) PROVE all \in S
  OBVIOUS
<1> DEFINE P == {n \in Nat : \A x \in Texts(A) : Len(x) = n => x \in S}
<1>1. \A x \in Texts(A) : Len(x) \in Nat
  BY LenProperties DEF Texts
<1>2. 0 \in P
  <2>1. ASSUME NEW x \in Texts(A), Len(x) = 0 PROVE x \in S
    <3>1. x = NoText
      BY <2>1, EmptySeq DEF Texts, NoText
    <3> QED
      BY <3>1
  <2> QED
    BY <2>1
<1>3. ASSUME NEW n \in 1..Len(all), n - 1 \in P PROVE n \in P
  <2>1. ASSUME NEW x \in Texts(A), Len(x) = n PROVE x \in S
    <3>1. x # NoText
      BY <1>1, <2>1, EmptySeq DEF NoText
    <3>2. PICK c \in A, rest \in Texts(A) : x = Then(Sign(c), rest) /\ Len(rest) = Len(x) - 1
      BY <3>1, FirstSign
    <3>3. rest \in S
      BY <1>3, <2>1, <3>2
    <3> QED
      BY <3>2, <3>3
  <2>2. n \in Nat
    BY <1>1
  <2> QED
    BY <2>1, <2>2
<1> HIDE DEF P
<1>4. \A n \in 0..Len(all) : n \in P
  <2>1. Len(all) \in Nat
    BY <1>1
  <2> QED
    BY <1>2, <1>3, <2>1, InductionUpTo
<1>5. Len(all) \in P
  BY <1>1, <1>4
<1> QED
  BY <1>5 DEF P

LEMMA OneSign ==
  ASSUME NEW A, NEW c \in A
  PROVE  /\ Sign(c) \in Texts(A) /\ Len(Sign(c)) = 1 /\ Sign(c)[1] = c
         /\ DOMAIN Sign(c) = 1..1 /\ Sign(c) # NoText
  BY DEF Texts, Sign, NoText

LEMMA TwoSigns ==
  ASSUME NEW A, NEW c \in A, NEW d \in A
  PROVE  <<c, d>> = Then(Sign(c), Sign(d))
<1>1. /\ Sign(c) \in Seq(A) /\ Len(Sign(c)) = 1 /\ Sign(c)[1] = c
      /\ Sign(d) \in Seq(A) /\ Len(Sign(d)) = 1 /\ Sign(d)[1] = d
  BY DEF Sign
<1> DEFINE both == Sign(c) \o Sign(d)
<1>2. both \in Seq(A) /\ Len(both) = 2 /\ both[1] = c /\ both[2] = d
  <2>1. /\ both \in Seq(A) /\ Len(both) = Len(Sign(c)) + Len(Sign(d))
        /\ \A i \in 1..(Len(Sign(c)) + Len(Sign(d))) :
               both[i] = IF i <= Len(Sign(c)) THEN Sign(c)[i] ELSE Sign(d)[i - Len(Sign(c))]
    BY <1>1, ConcatProperties, Zenon
  <2> HIDE DEF both
  <2> QED
    BY <1>1, <2>1
<1> HIDE DEF both
<1>3. <<c, d>> \in Seq(A) /\ Len(<<c, d>>) = 2 /\ <<c, d>>[1] = c /\ <<c, d>>[2] = d
  OBVIOUS
<1>4. \A i \in 1..2 : <<c, d>>[i] = both[i]
  <2>1. \A i \in 1..2 : i = 1 \/ i = 2
    OBVIOUS
  <2> QED
    BY <1>2, <1>3, <2>1, Zenon
<1>5. <<c, d>> = both
  BY <1>2, <1>3, <1>4, SeqEqual, Zenon
<1> QED
  BY <1>5 DEF Then, both

\* What a text has that begins with a sign.
LEMMA SignFirst ==
  ASSUME NEW A, NEW c \in A, NEW x \in Texts(A)
  PROVE  /\ Then(Sign(c), x) \in Texts(A) /\ Then(Sign(c), x) # NoText
         /\ Len(Then(Sign(c), x)) = 1 + Len(x) /\ Len(x) \in Nat
         /\ Then(Sign(c), x)[1] = c
         /\ \A i \in 1..Len(x) : Then(Sign(c), x)[i + 1] = x[i]
         /\ Signs(Then(Sign(c), x)) = {c} \cup Signs(x)
<1> DEFINE v == Sign(c) \o x
<1>1. Sign(c) \in Seq(A) /\ Len(Sign(c)) = 1 /\ Sign(c)[1] = c
  BY DEF Sign
<1>2. /\ v \in Seq(A) /\ Len(v) = Len(Sign(c)) + Len(x)
      /\ \A i \in 1..(Len(Sign(c)) + Len(x)) :
             v[i] = IF i <= Len(Sign(c)) THEN Sign(c)[i] ELSE x[i - Len(Sign(c))]
  BY <1>1, ConcatProperties, Zenon DEF Texts
<1>3. Len(x) \in Nat
  BY LenProperties DEF Texts
<1> HIDE DEF v
<1>4. /\ Len(v) = 1 + Len(x) /\ v[1] = c
      /\ \A i \in 1..Len(x) : v[i + 1] = x[i]
  BY <1>1, <1>2, <1>3
<1>5. v # NoText
  BY <1>2, <1>3, <1>4, EmptySeq DEF NoText
<1>6. Signs(v) = {c} \cup Signs(x)
  <2>1. Signs(v) = {v[i] : i \in 1..Len(v)} /\ Signs(x) = {x[i] : i \in 1..Len(x)}
    <3>1. DOMAIN v = 1..Len(v) /\ DOMAIN x = 1..Len(x)
      BY <1>2, LenProperties DEF Texts
    <3> QED
      BY <3>1 DEF Signs, ToSet
  <2>2. ASSUME NEW i \in 1..Len(v) PROVE i = 1 \/ (i - 1 \in 1..Len(x) /\ v[i] = x[i - 1])
    <3>1. CASE i = 1
      BY <3>1
    <3>2. CASE i # 1
      <4>1. i - 1 \in 1..Len(x) /\ (i - 1) + 1 = i
        BY <1>3, <1>4, <3>2
      <4>2. v[(i - 1) + 1] = x[i - 1]
        BY <1>4, <4>1
      <4> QED
        BY <4>1, <4>2
    <3> QED
      BY <3>1, <3>2
  <2>3. ASSUME NEW i \in 1..Len(x) PROVE i + 1 \in 1..Len(v) /\ v[i + 1] = x[i]
    BY <1>3, <1>4
  <2>4. 1 \in 1..Len(v)
    BY <1>3, <1>4
  <2>5. ASSUME NEW e \in Signs(v) PROVE e \in {c} \cup Signs(x)
    <3>1. PICK i \in 1..Len(v) : e = v[i]
      BY <2>1
    <3>2. CASE i = 1
      BY <1>4, <3>1, <3>2
    <3>3. CASE i # 1
      <4>1. i - 1 \in 1..Len(x) /\ e = x[i - 1]
        BY <2>2, <3>1, <3>3
      <4> QED
        BY <2>1, <4>1
    <3> QED
      BY <3>2, <3>3
  <2>6. {c} \subseteq Signs(v)
    BY <1>4, <2>1, <2>4
  <2>7. Signs(x) \subseteq Signs(v)
    BY <2>1, <2>3
  <2> QED
    BY <2>5, <2>6, <2>7
<1> QED
  BY <1>2, <1>3, <1>4, <1>5, <1>6 DEF v, Then, Texts

BeginsWith(text, c, rest) ==
    /\ Len(text) = 1 + Len(rest) /\ Len(rest) \in Nat
    /\ text[1] = c /\ \A i \in 1..Len(rest) : text[i + 1] = rest[i]

LEMMA SignBefore ==
  ASSUME NEW A, NEW c \in A, NEW x \in Texts(A)
  PROVE  Then(Sign(c), x) \in Texts(A) /\ BeginsWith(Then(Sign(c), x), c, x)
  BY SignFirst DEF BeginsWith

\* It begins with no other, and goes on in one way.
LEMMA SameFirst ==
  ASSUME NEW A, NEW c \in A, NEW d \in A, NEW x \in Texts(A), NEW y \in Texts(A),
         Then(Sign(c), x) = Then(Sign(d), y)
  PROVE  c = d /\ x = y
<1> DEFINE v == Then(Sign(c), x)
           w == Then(Sign(d), y)
<1>1. /\ Len(v) = 1 + Len(x) /\ Len(x) \in Nat /\ v[1] = c
      /\ \A i \in 1..Len(x) : v[i + 1] = x[i]
  BY SignFirst
<1>2. /\ Len(w) = 1 + Len(y) /\ Len(y) \in Nat /\ w[1] = d
      /\ \A i \in 1..Len(y) : w[i + 1] = y[i]
  BY SignFirst
<1>3. v = w
  OBVIOUS
<1> HIDE DEF v, w
<1>4. c = d /\ Len(x) = Len(y) /\ \A i \in 1..Len(x) : x[i] = y[i]
  BY <1>1, <1>2, <1>3
<1>5. x = y
  BY <1>4, SeqEqual DEF Texts
<1> QED
  BY <1>4, <1>5

LEMMA NoSigns == Signs(NoText) = {} /\ Len(NoText) = 0
  BY DEF Signs, NoText, ToSet

\* A text in which every sign stands for a piece.
Pieced(x, piece) == FlattenSeq([i \in DOMAIN x |-> piece[x[i]]])

LEMMA PiecedIs ==
  ASSUME NEW A, NEW B, NEW piece \in [A -> Texts(B)], NEW c \in A, NEW x \in Texts(A), NEW y \in Texts(A)
  PROVE  /\ Pieced(x, piece) \in Texts(B)
         /\ Pieced(Then(x, y), piece) = Then(Pieced(x, piece), Pieced(y, piece))
         /\ Pieced(NoText, piece) = NoText
         /\ Pieced(Sign(c), piece) = piece[c]
<1> DEFINE Pieces(t) == [i \in DOMAIN t |-> piece[t[i]]]
<1>1. \A t : Pieced(t, piece) = FlattenSeq(Pieces(t))
  BY DEF Pieced
<1>2. /\ Len(x) \in Nat /\ DOMAIN x = 1..Len(x) /\ \A i \in 1..Len(x) : x[i] \in A
      /\ Len(y) \in Nat /\ DOMAIN y = 1..Len(y) /\ \A i \in 1..Len(y) : y[i] \in A
  BY LenProperties, ElementOfSeq DEF Texts
<1>3. /\ DOMAIN Then(x, y) = 1..(Len(x) + Len(y))
      /\ \A i \in 1..(Len(x) + Len(y)) : Then(x, y)[i] = IF i <= Len(x) THEN x[i] ELSE y[i - Len(x)]
      /\ \A i \in 1..(Len(x) + Len(y)) : Then(x, y)[i] \in A
  <2>1. /\ Then(x, y) \in Seq(A) /\ Len(Then(x, y)) = Len(x) + Len(y)
        /\ \A i \in 1..(Len(x) + Len(y)) : Then(x, y)[i] = IF i <= Len(x) THEN x[i] ELSE y[i - Len(x)]
    BY ConcatProperties DEF Texts, Then
  <2> QED
    BY <2>1, LenProperties, ElementOfSeq
<1>4. /\ Pieces(x) \in [1..Len(x) -> Texts(B)] /\ Pieces(y) \in [1..Len(y) -> Texts(B)]
      /\ Pieces(Then(x, y)) \in [1..(Len(x) + Len(y)) -> Texts(B)]
  BY <1>2, <1>3
<1>5. \A i \in 1..Len(x) : Pieces(Then(x, y))[i] = Pieces(x)[i]
  BY <1>2, <1>3
<1>6. ASSUME NEW i \in 1..Len(y) PROVE Pieces(Then(x, y))[Len(x) + i] = Pieces(y)[i]
  <2>1. Len(x) + i \in 1..(Len(x) + Len(y)) /\ ~ (Len(x) + i <= Len(x)) /\ (Len(x) + i) - Len(x) = i
    BY <1>2
  <2> QED
    BY <1>2, <1>3, <2>1
<1>7. Pieces(NoText) \in [1..0 -> Texts(B)]
  BY DEF NoText
<1>8. Pieces(Sign(c)) \in [1..1 -> Texts(B)] /\ Pieces(Sign(c))[1] = piece[c]
  BY OneSign
<1> HIDE DEF Pieces
<1>9. /\ FlattenSeq(Pieces(x)) \in Texts(B)
       /\ FlattenSeq(Pieces(Then(x, y))) = Then(FlattenSeq(Pieces(x)), FlattenSeq(Pieces(y)))
  <2> DEFINE m == Len(x)
             n == Len(y)
             first == Pieces(x)
             second == Pieces(y)
             both == Pieces(Then(x, y))
             k == m + n
  <2>1. ArePieces(B, first, m) /\ ArePieces(B, second, n)
    BY <1>2, <1>4 DEF ArePieces
  <2>2. ArePieces(B, both, k) /\ k = m + n
    BY <1>2, <1>4 DEF ArePieces
  <2>3. Joins(both, first, m, second, n)
    BY <1>5, <1>6 DEF Joins
  <2> HIDE DEF m, n, k, first, second, both
  <2>4. FlattenSeq(first) \in Texts(B) /\ FlattenSeq(both) = Then(FlattenSeq(first), FlattenSeq(second))
    BY <2>1, <2>2, <2>3, FlatConcat
  <2> QED
    BY <2>4 DEF first, second, both
<1>10. FlattenSeq(Pieces(NoText)) = NoText /\ FlattenSeq(Pieces(Sign(c))) = Pieces(Sign(c))[1]
  BY <1>7, <1>8, FlatOne
<1> QED
  BY <1>1, <1>8, <1>9, <1>10

-----------------------------------------------------------------------------
(* The page *)

Marks == {"&", "<", ">", "amp", "lt", "gt"}

\* What a sign becomes when another, or it, is replaced.
Instead(c, ch, entity) == IF c = ch THEN Then(Sign("&"), Sign(entity)) ELSE Sign(c)

LEMMA ReplacedIs ==
  ASSUME NEW A, NEW ch, NEW entity \in A, "&" \in A
  PROVE  \E piece \in [A -> Texts(A)] :
             /\ \A c \in A : piece[c] = Instead(c, ch, entity)
             /\ \A t \in Texts(A) : Replaced(t, ch, entity) = Pieced(t, piece)
<1> DEFINE piece == [c \in A |-> IF c = ch THEN <<"&", entity>> ELSE <<c>>]
<1>1. Then(Sign("&"), Sign(entity)) = <<"&", entity>> /\ Then(Sign("&"), Sign(entity)) \in Texts(A)
  <2>1. Sign("&") \in Texts(A) /\ Sign(entity) \in Texts(A)
    BY OneSign
  <2> QED
    BY <2>1, ThenIs, TwoSigns
<1>2. ASSUME NEW c \in A PROVE Sign(c) = <<c>> /\ Sign(c) \in Texts(A)
  BY OneSign DEF Sign
<1>3. ASSUME NEW c \in A PROVE piece[c] = Instead(c, ch, entity) /\ piece[c] \in Texts(A)
  <2>1. piece[c] = IF c = ch THEN <<"&", entity>> ELSE <<c>>
    OBVIOUS
  <2> HIDE DEF piece
  <2> QED
    BY <1>1, <1>2, <2>1 DEF Instead
<1>4. ASSUME NEW t \in Texts(A) PROVE Replaced(t, ch, entity) = Pieced(t, piece)
  <2>1. \A i \in DOMAIN t : t[i] \in A
    BY LenProperties, ElementOfSeq DEF Texts
  <2> QED
    BY <2>1 DEF Replaced, Pieced
<1>5. piece \in [A -> Texts(A)]
  <2>1. piece = [c \in A |-> piece[c]]
    OBVIOUS
  <2> HIDE DEF piece
  <2> QED
    BY <1>3, <2>1
<1> HIDE DEF piece
<1> QED
  BY <1>3, <1>4, <1>5

\* What is replaced sign for sign.
Replaces(A, ch, entity) ==
    /\ Replaced(NoText, ch, entity) = NoText
    /\ \A c \in A : Replaced(Sign(c), ch, entity) = Instead(c, ch, entity)
    /\ \A x, y \in Texts(A) :
           /\ Replaced(x, ch, entity) \in Texts(A)
           /\ Replaced(Then(x, y), ch, entity) = Then(Replaced(x, ch, entity), Replaced(y, ch, entity))

LEMMA ReplacedParts ==
  ASSUME NEW A, NEW ch \in A, NEW entity \in A, "&" \in A
  PROVE  Replaces(A, ch, entity)
<1> SUFFICES ASSUME NEW c \in A, NEW x \in Texts(A), NEW y \in Texts(A)
    PROVE  /\ Replaced(x, ch, entity) \in Texts(A)
           /\ Replaced(Then(x, y), ch, entity) = Then(Replaced(x, ch, entity), Replaced(y, ch, entity))
           /\ Replaced(NoText, ch, entity) = NoText
           /\ Replaced(Sign(c), ch, entity) = Instead(c, ch, entity)
  BY ThenIs DEF Replaces
<1>1. PICK piece \in [A -> Texts(A)] :
             /\ \A d \in A : piece[d] = Instead(d, ch, entity)
             /\ \A t \in Texts(A) : Replaced(t, ch, entity) = Pieced(t, piece)
  BY ReplacedIs
<1>2. Then(x, y) \in Texts(A) /\ NoText \in Texts(A) /\ Sign(c) \in Texts(A)
  BY ThenIs, OneSign
<1>3. /\ Pieced(x, piece) \in Texts(A)
      /\ Pieced(Then(x, y), piece) = Then(Pieced(x, piece), Pieced(y, piece))
      /\ Pieced(NoText, piece) = NoText
      /\ Pieced(Sign(c), piece) = piece[c]
  BY PiecedIs
<1> QED
  BY <1>1, <1>2, <1>3

\* What a sign becomes on the page.
OnPage(c) ==
    CASE c = "&" -> Then(Sign("&"), Sign("amp"))
      [] c = "<" -> Then(Sign("&"), Sign("lt"))
      [] c = ">" -> Then(Sign("&"), Sign("gt"))
      [] OTHER -> Sign(c)

\* The three replacements together: one sign after the other.
LEMMA EscapedSigns ==
  ASSUME NEW A, Marks \subseteq A, NEW c \in A, NEW x \in Texts(A)
  PROVE  /\ EscapeHtml(NoText) = NoText
         /\ EscapeHtml(x) \in Texts(A)
         /\ EscapeHtml(Then(Sign(c), x)) = Then(OnPage(c), EscapeHtml(x))
<1> DEFINE And(t) == Replaced(t, "&", "amp")
           Less(t) == Replaced(t, "<", "lt")
           More(t) == Replaced(t, ">", "gt")
<1>0. /\ "&" \in A /\ "amp" \in A /\ "lt" \in A /\ "gt" \in A
      /\ NoText \in Texts(A) /\ \A d \in A : Sign(d) \in Texts(A)
  BY OneSign, ThenIs DEF Marks
<1>1. \A t : EscapeHtml(t) = More(Less(And(t)))
  BY DEF EscapeHtml
<1>2. /\ \A t, u \in Texts(A) :
             /\ And(t) \in Texts(A) /\ And(Then(t, u)) = Then(And(t), And(u))
             /\ Less(t) \in Texts(A) /\ Less(Then(t, u)) = Then(Less(t), Less(u))
             /\ More(t) \in Texts(A) /\ More(Then(t, u)) = Then(More(t), More(u))
      /\ And(NoText) = NoText /\ Less(NoText) = NoText /\ More(NoText) = NoText
      /\ \A d \in A :
             /\ And(Sign(d)) = Instead(d, "&", "amp")
             /\ Less(Sign(d)) = Instead(d, "<", "lt")
             /\ More(Sign(d)) = Instead(d, ">", "gt")
  <2>1. "<" \in A /\ ">" \in A
    BY DEF Marks
  <2>2. Replaces(A, "&", "amp") /\ Replaces(A, "<", "lt") /\ Replaces(A, ">", "gt")
    BY <1>0, <2>1, ReplacedParts
  <2> QED
    BY <2>2 DEF Replaces
<1> HIDE DEF And, Less, More
<1>5. ASSUME NEW d \in A
      PROVE  /\ d = "&" => And(Sign(d)) = Then(Sign("&"), Sign("amp"))
             /\ d # "&" => And(Sign(d)) = Sign(d)
             /\ d = "<" => Less(Sign(d)) = Then(Sign("&"), Sign("lt"))
             /\ d # "<" => Less(Sign(d)) = Sign(d)
             /\ d = ">" => More(Sign(d)) = Then(Sign("&"), Sign("gt"))
             /\ d # ">" => More(Sign(d)) = Sign(d)
  BY <1>2 DEF Instead
<1>6. /\ Less(Sign("&")) = Sign("&") /\ Less(Sign("amp")) = Sign("amp")
      /\ More(Sign("&")) = Sign("&") /\ More(Sign("amp")) = Sign("amp") /\ More(Sign("lt")) = Sign("lt")
  BY <1>0, <1>5
<1>7. ASSUME NEW d \in A
      PROVE  /\ Less(Then(Sign("&"), Sign(d))) = Then(Less(Sign("&")), Less(Sign(d)))
             /\ More(Then(Sign("&"), Sign(d))) = Then(More(Sign("&")), More(Sign(d)))
  BY <1>0, <1>2
<1>8. More(Less(And(Sign(c)))) = OnPage(c)
  <2>1. CASE c = "&"
    BY <1>0, <1>5, <1>6, <1>7, <2>1 DEF OnPage
  <2>2. CASE c = "<"
    BY <1>0, <1>5, <1>6, <1>7, <2>2 DEF OnPage
  <2>3. CASE c = ">"
    BY <1>0, <1>5, <2>3 DEF OnPage
  <2>4. CASE c \notin {"&", "<", ">"}
    BY <1>5, <2>4 DEF OnPage
  <2> QED
    BY <2>1, <2>2, <2>3, <2>4
<1>9. More(Less(And(Then(Sign(c), x)))) = Then(More(Less(And(Sign(c)))), More(Less(And(x))))
  BY <1>0, <1>2
<1>10. More(Less(And(x))) \in Texts(A)
  BY <1>2
<1> QED
  BY <1>1, <1>2, <1>8, <1>9, <1>10

\* What stands on the page for a sign has one sign, or it and another tell which.
LEMMA PageSigns ==
  ASSUME NEW A, Marks \subseteq A, NEW c \in A, NEW x \in Texts(A)
  PROVE  \/ /\ c \notin {"&", "<", ">"}
            /\ Then(OnPage(c), x) = Then(Sign(c), x)
         \/ \E e \in {"amp", "lt", "gt"} :
                /\ <<c, e>> \in {<<"&", "amp">>, <<"<", "lt">>, <<">", "gt">>}
                /\ Then(OnPage(c), x) = Then(Sign("&"), Then(Sign(e), x))
<1>1. \A d \in A : Sign(d) \in Texts(A)
  BY OneSign
<1>2. "&" \in A /\ {"amp", "lt", "gt"} \subseteq A
  BY DEF Marks
<1>3. \A e \in {"amp", "lt", "gt"} : Then(Then(Sign("&"), Sign(e)), x) = Then(Sign("&"), Then(Sign(e), x))
  BY <1>1, <1>2, ThenAssociative
<1>4. CASE c \notin {"&", "<", ">"}
  BY <1>4 DEF OnPage
<1>5. CASE c = "&"
  BY <1>3, <1>5 DEF OnPage
<1>6. CASE c = "<"
  BY <1>3, <1>6 DEF OnPage
<1>7. CASE c = ">"
  BY <1>3, <1>7 DEF OnPage
<1> QED
  BY <1>4, <1>5, <1>6, <1>7

\* A page has no markup.
LEMMA NoMarkup ==
  ASSUME NEW A, Marks \subseteq A, NEW text \in Texts(A)
  PROVE  Signs(EscapeHtml(text)) \cap {"<", ">"} = {}
<1> DEFINE S == {x \in Texts(A) : Signs(EscapeHtml(x)) \cap {"<", ">"} = {}}
<1>1. NoText \in S
  BY ThenIs, EscapedSigns, NoSigns
<1>2. ASSUME NEW c \in A, NEW x \in S PROVE Then(Sign(c), x) \in S
  <2>1. Then(Sign(c), x) \in Texts(A) /\ EscapeHtml(x) \in Texts(A)
    BY OneSign, ThenIs, EscapedSigns
  <2>2. EscapeHtml(Then(Sign(c), x)) = Then(OnPage(c), EscapeHtml(x))
    BY EscapedSigns
  <2>3. CASE c \notin {"&", "<", ">"} /\ Then(OnPage(c), EscapeHtml(x)) = Then(Sign(c), EscapeHtml(x))
    <3>1. Signs(Then(OnPage(c), EscapeHtml(x))) = {c} \cup Signs(EscapeHtml(x))
      BY <2>1, <2>3, SignFirst
    <3> QED
      BY <2>1, <2>2, <2>3, <3>1
  <2>4. ASSUME NEW e \in {"amp", "lt", "gt"},
               Then(OnPage(c), EscapeHtml(x)) = Then(Sign("&"), Then(Sign(e), EscapeHtml(x)))
        PROVE  Then(Sign(c), x) \in S
    <3>1. "&" \in A /\ e \in A
      BY DEF Marks
    <3>2. Signs(Then(Sign(e), EscapeHtml(x))) = {e} \cup Signs(EscapeHtml(x))
      BY <2>1, <3>1, SignFirst
    <3>3. Then(Sign(e), EscapeHtml(x)) \in Texts(A)
      BY <2>1, <3>1, OneSign, ThenIs
    <3>4. Signs(Then(OnPage(c), EscapeHtml(x))) = {"&"} \cup {e} \cup Signs(EscapeHtml(x))
      BY <2>4, <3>1, <3>2, <3>3, SignFirst
    <3> QED
      BY <2>1, <2>2, <3>4
  <2> QED
    BY <2>1, <2>3, <2>4, PageSigns
<1> HIDE DEF S
<1>3. Texts(A) \subseteq S
  BY <1>1, <1>2, TextInduction
<1> QED
  BY <1>3 DEF S

\* No two texts are written in the same way.
LEMMA NothingIsLost ==
  ASSUME NEW A, Marks \subseteq A, NEW text \in Texts(A), NEW other \in Texts(A),
         EscapeHtml(text) = EscapeHtml(other)
  PROVE  text = other
<1> DEFINE S == {x \in Texts(A) : \A y \in Texts(A) : EscapeHtml(x) = EscapeHtml(y) => x = y}
<1>1. ASSUME NEW c \in A, NEW x \in Texts(A)
      PROVE  /\ EscapeHtml(Then(Sign(c), x)) = Then(OnPage(c), EscapeHtml(x))
             /\ EscapeHtml(x) \in Texts(A) /\ Then(OnPage(c), EscapeHtml(x)) # NoText
  <2>1. EscapeHtml(x) \in Texts(A)
    BY EscapedSigns
  <2>2. ASSUME NEW e \in {"amp", "lt", "gt"}
        PROVE  Then(Sign("&"), Then(Sign(e), EscapeHtml(x))) # NoText
    <3>1. "&" \in A /\ e \in A
      BY DEF Marks
    <3>2. Then(Sign(e), EscapeHtml(x)) \in Texts(A)
      BY <2>1, <3>1, OneSign, ThenIs
    <3> QED
      BY <3>1, <3>2, SignFirst
  <2>3. Then(Sign(c), EscapeHtml(x)) # NoText
    BY <2>1, SignFirst
  <2>4. Then(OnPage(c), EscapeHtml(x)) # NoText
    BY <2>1, <2>2, <2>3, PageSigns
  <2> QED
    BY <2>1, <2>4, EscapedSigns
<1>2. NoText \in S
  <2>1. ASSUME NEW y \in Texts(A), y # NoText PROVE EscapeHtml(y) # NoText
    <3>1. PICK d \in A, rest \in Texts(A) : y = Then(Sign(d), rest)
      BY <2>1, FirstSign
    <3> QED
      BY <1>1, <3>1
  <2>2. EscapeHtml(NoText) = NoText /\ NoText \in Texts(A)
    <3>1. "&" \in A
      BY DEF Marks
    <3> QED
      BY <3>1, EscapedSigns, ThenIs
  <2> QED
    BY <2>1, <2>2
<1>3. ASSUME NEW c \in A, NEW x \in S PROVE Then(Sign(c), x) \in S
  <2>1. Then(Sign(c), x) \in Texts(A)
    BY OneSign, ThenIs
  <2>2. ASSUME NEW y \in Texts(A), EscapeHtml(Then(Sign(c), x)) = EscapeHtml(y)
        PROVE  Then(Sign(c), x) = y
    <3> DEFINE u == EscapeHtml(x)
    <3>1. y # NoText
      <4>1. EscapeHtml(NoText) = NoText
        BY EscapedSigns
      <4> QED
        BY <1>1, <2>2, <4>1
    <3>2. PICK d \in A, rest \in Texts(A) : y = Then(Sign(d), rest)
      BY <3>1, FirstSign
    <3> DEFINE v == EscapeHtml(rest)
    <3>3. Then(OnPage(c), u) = Then(OnPage(d), v) /\ u \in Texts(A) /\ v \in Texts(A)
      BY <1>1, <2>2, <3>2
    <3>4. u = v => x = rest
      OBVIOUS
    <3> HIDE DEF u, v
    <3>5. c = d /\ u = v
      <4>1. /\ "&" \in A
            /\ \A e \in {"amp", "lt", "gt"} :
                   e \in A /\ Then(Sign(e), u) \in Texts(A) /\ Then(Sign(e), v) \in Texts(A)
        BY <3>3, OneSign, ThenIs DEF Marks
      <4>2. CASE c \notin {"&", "<", ">"} /\ d \notin {"&", "<", ">"}
        <5>1. Then(Sign(c), u) = Then(Sign(d), v)
          BY <3>3, <4>2, PageSigns
        <5> QED
          BY <3>3, <5>1, SameFirst
      <4>3. CASE c \notin {"&", "<", ">"} /\ d \in {"&", "<", ">"}
        <5>1. PICK e \in {"amp", "lt", "gt"} : Then(OnPage(d), v) = Then(Sign("&"), Then(Sign(e), v))
          BY <3>3, <4>3, PageSigns
        <5>2. Then(Sign(c), u) = Then(Sign("&"), Then(Sign(e), v))
          BY <3>3, <4>3, <5>1, PageSigns
        <5>3. c = "&"
          BY <3>3, <4>1, <5>2, SameFirst
        <5> QED
          BY <4>3, <5>3
      <4>4. CASE c \in {"&", "<", ">"} /\ d \notin {"&", "<", ">"}
        <5>1. PICK e \in {"amp", "lt", "gt"} : Then(OnPage(c), u) = Then(Sign("&"), Then(Sign(e), u))
          BY <3>3, <4>4, PageSigns
        <5>2. Then(Sign(d), v) = Then(Sign("&"), Then(Sign(e), u))
          BY <3>3, <4>4, <5>1, PageSigns
        <5>3. d = "&"
          BY <3>3, <4>1, <5>2, SameFirst
        <5> QED
          BY <4>4, <5>3
      <4>5. CASE c \in {"&", "<", ">"} /\ d \in {"&", "<", ">"}
        <5>1. PICK e \in {"amp", "lt", "gt"} :
                  /\ <<c, e>> \in {<<"&", "amp">>, <<"<", "lt">>, <<">", "gt">>}
                  /\ Then(OnPage(c), u) = Then(Sign("&"), Then(Sign(e), u))
          BY <3>3, <4>5, PageSigns
        <5>2. PICK f \in {"amp", "lt", "gt"} :
                  /\ <<d, f>> \in {<<"&", "amp">>, <<"<", "lt">>, <<">", "gt">>}
                  /\ Then(OnPage(d), v) = Then(Sign("&"), Then(Sign(f), v))
          BY <3>3, <4>5, PageSigns
        <5>3. Then(Sign(e), u) = Then(Sign(f), v)
          <6>1. /\ Then(Sign("&"), Then(Sign(e), u)) = Then(Sign("&"), Then(Sign(f), v))
                /\ Then(Sign(e), u) \in Texts(A) /\ Then(Sign(f), v) \in Texts(A) /\ "&" \in A
            BY <3>3, <4>1, <5>1, <5>2
          <6> QED
            BY <6>1, SameFirst
        <5>4. e = f /\ u = v
          BY <3>3, <4>1, <5>3, SameFirst
        <5>5. c = d
          BY <5>1, <5>2, <5>4
        <5> QED
          BY <5>4, <5>5
      <4> QED
        BY <4>2, <4>3, <4>4, <4>5
    <3> QED
      BY <3>2, <3>4, <3>5
  <2> QED
    BY <2>1, <2>2
<1> HIDE DEF S
<1>4. Texts(A) \subseteq S
  BY <1>2, <1>3, TextInduction
<1> QED
  BY <1>4 DEF S

LEMMA PagesAreText ==
  ASSUME NEW A, Marks \subseteq A, NEW texts \in SUBSET Texts(A)
  PROVE  PageIsText(texts)
<1>1. ASSUME NEW text \in texts, NEW other \in texts
      PROVE  /\ ToSet(EscapeHtml(text)) \cap {"<", ">"} = {}
             /\ EscapeHtml(text) = EscapeHtml(other) => text = other
  <2>1. text \in Texts(A) /\ other \in Texts(A)
    OBVIOUS
  <2> QED
    BY <2>1, NoMarkup, NothingIsLost DEF Signs
<1> QED
  BY <1>1 DEF PageIsText

-----------------------------------------------------------------------------
(* The request *)

\* What comes of a sign that begins no escape.
ReadAs(c) == IF c = "+" THEN " " ELSE c

\* What comes of a text from its i-th sign on, when f is what comes of it from the
\* later ones.
Beyond(f, text, i) ==
    IF i > Len(text) THEN NoText
    ELSE IF IsEscape(text, i) THEN Then(Sign(ByteOf(text[i + 1], text[i + 2])), f[i + 3])
    ELSE Then(Sign(ReadAs(text[i])), f[i + 1])

IsDecoding(f, text) == f = [i \in 1..Len(text) + 3 |-> Beyond(f, text, i)]

LEMMA DecodeIs ==
  ASSUME NEW text
  PROVE  PercentDecode(text) = (CHOOSE f : IsDecoding(f, text))[1]
  BY DEF PercentDecode, IsDecoding, Beyond, ReadAs, Then, Sign, NoText

\* One sign more in front moves what comes of the others.
LEMMA BeyondShifts ==
  ASSUME NEW A, NEW c \in A, NEW x \in Texts(A), NEW f, NEW g,
         \A i \in 1..Len(x) + 3 : g[i] = f[i + 1], NEW i \in 1..Len(x) + 3
  PROVE  Beyond(g, x, i) = Beyond(f, Then(Sign(c), x), i + 1)
<1> DEFINE t == Then(Sign(c), x)
<1>1. Len(x) \in Nat /\ Len(t) = 1 + Len(x) /\ \A k \in 1..Len(x) : t[k + 1] = x[k]
  <2>1. BeginsWith(t, c, x)
    BY SignBefore
  <2> HIDE DEF t
  <2> QED
    BY <2>1 DEF BeginsWith
<1> HIDE DEF t
<1>2. CASE i > Len(x)
  <2>1. i + 1 > Len(t)
    BY <1>1, <1>2
  <2>2. Beyond(g, x, i) = NoText /\ Beyond(f, t, i + 1) = NoText
    BY <1>2, <2>1 DEF Beyond
  <2> QED
    BY <2>2 DEF t
<1>3. CASE i <= Len(x)
  <2>1. i \in 1..Len(x) /\ t[i + 1] = x[i] /\ ~ (i > Len(x)) /\ ~ (i + 1 > Len(t))
    BY <1>1, <1>3
  <2>2. g[i + 1] = f[(i + 1) + 1]
    <3>1. i + 1 \in 1..Len(x) + 3
      BY <1>1, <1>3
    <3> QED
      BY <3>1
  <2>3. g[i + 3] = f[(i + 1) + 3]
    <3>1. i + 3 \in 1..Len(x) + 3 /\ (i + 3) + 1 = (i + 1) + 3
      BY <1>1, <1>3
    <3> QED
      BY <3>1
  <2>4. i + 2 <= Len(x) => x[i + 1] = t[(i + 1) + 1] /\ x[i + 2] = t[(i + 1) + 2]
    <3>1. ASSUME i + 2 <= Len(x)
          PROVE  i + 1 \in 1..Len(x) /\ i + 2 \in 1..Len(x) /\ (i + 2) + 1 = (i + 1) + 2
      BY <1>1, <1>3, <3>1
    <3> QED
      BY <1>1, <3>1
  <2>5. i + 2 <= Len(x) <=> (i + 1) + 2 <= Len(t)
    BY <1>1
  <2>6. IsEscape(x, i) <=> IsEscape(t, i + 1)
    BY <2>1, <2>4, <2>5 DEF IsEscape
  <2>7. IsEscape(x, i) => i + 2 <= Len(x)
    BY DEF IsEscape
  <2>8. CASE IsEscape(x, i)
    <3>1. Beyond(g, x, i) = Then(Sign(ByteOf(x[i + 1], x[i + 2])), g[i + 3])
      BY <2>1, <2>8 DEF Beyond
    <3>2. Beyond(f, t, i + 1) = Then(Sign(ByteOf(t[(i + 1) + 1], t[(i + 1) + 2])), f[(i + 1) + 3])
      BY <2>1, <2>6, <2>8 DEF Beyond
    <3> QED
      BY <2>3, <2>4, <2>7, <2>8, <3>1, <3>2 DEF t
  <2>9. CASE ~IsEscape(x, i)
    <3>1. Beyond(g, x, i) = Then(Sign(ReadAs(x[i])), g[i + 1])
      BY <2>1, <2>9 DEF Beyond
    <3>2. Beyond(f, t, i + 1) = Then(Sign(ReadAs(t[i + 1])), f[(i + 1) + 1])
      BY <2>1, <2>6, <2>9 DEF Beyond
    <3> QED
      BY <2>1, <2>2, <3>1, <3>2 DEF t
  <2> QED
    BY <2>8, <2>9
<1> QED
  BY <1>1, <1>2, <1>3

GoesOn(g, f, rest) == IsDecoding(g, rest) /\ \A i \in 1..Len(rest) + 3 : g[i] = f[i + 1]

\* So what comes of a text is what comes of its end, later.
LEMMA DecodingOfRest ==
  ASSUME NEW A, NEW c \in A, NEW x \in Texts(A), NEW f, IsDecoding(f, Then(Sign(c), x))
  PROVE  \E g : GoesOn(g, f, x)
<1> DEFINE g == [i \in 1..Len(x) + 3 |-> f[i + 1]]
<1>1. Len(x) \in Nat /\ Len(Then(Sign(c), x)) = 1 + Len(x)
  BY SignFirst
<1>2. \A i \in 1..Len(x) + 3 : g[i] = f[i + 1]
  OBVIOUS
<1>3. ASSUME NEW i \in 1..Len(x) + 3 PROVE f[i + 1] = Beyond(g, x, i)
  <2>1. i + 1 \in 1..Len(Then(Sign(c), x)) + 3
    BY <1>1
  <2>2. f[i + 1] = Beyond(f, Then(Sign(c), x), i + 1)
    BY <2>1 DEF IsDecoding
  <2> HIDE DEF g
  <2> QED
    BY <1>2, <2>2, BeyondShifts
<1>4. g = [i \in 1..Len(x) + 3 |-> Beyond(g, x, i)]
  <2> DEFINE h == [i \in 1..Len(x) + 3 |-> Beyond(g, x, i)]
  <2>1. DOMAIN g = DOMAIN h /\ \A i \in DOMAIN g : g[i] = h[i]
    BY <1>2, <1>3
  <2>2. g = [i \in DOMAIN g |-> g[i]] /\ h = [i \in DOMAIN h |-> h[i]]
    OBVIOUS
  <2> HIDE DEF g, h
  <2> QED
    BY <2>1, <2>2 DEF h
<1> HIDE DEF g
<1>5. GoesOn(g, f, x)
  BY <1>2, <1>4 DEF GoesOn, IsDecoding
<1> QED
  BY <1>5

\* It comes of a text in one way only, and something does.
LEMMA OneDecoding ==
  ASSUME NEW A, NEW text \in Texts(A)
  PROVE  /\ \E f : IsDecoding(f, text)
         /\ \A f, g : IsDecoding(f, text) /\ IsDecoding(g, text) => f = g
<1> DEFINE S == {x \in Texts(A) :
                     /\ \E f : IsDecoding(f, x)
                     /\ \A f, g : IsDecoding(f, x) /\ IsDecoding(g, x) => f = g}
<1>1. NoText \in S
  <2>1. Len(NoText) = 0 /\ NoText \in Texts(A)
    BY NoSigns, ThenIs
  <2>2. \A f : \A i \in 1..Len(NoText) + 3 : Beyond(f, NoText, i) = NoText
    BY <2>1 DEF Beyond
  <2>3. \A f : IsDecoding(f, NoText) <=> f = [i \in 1..Len(NoText) + 3 |-> NoText]
    BY <2>2 DEF IsDecoding
  <2> DEFINE none == [i \in 1..Len(NoText) + 3 |-> NoText]
  <2>4. IsDecoding(none, NoText)
    BY <2>3
  <2>5. \A f, g : IsDecoding(f, NoText) /\ IsDecoding(g, NoText) => f = g
    BY <2>3
  <2> HIDE DEF none
  <2> QED
    BY <2>1, <2>4, <2>5
<1>2. ASSUME NEW c \in A, NEW x \in S PROVE Then(Sign(c), x) \in S
  <2> DEFINE t == Then(Sign(c), x)
             m == Len(t) + 3
  <2>1. /\ t \in Texts(A) /\ Len(x) \in Nat /\ Len(t) = 1 + Len(x)
    BY SignFirst, LenProperties, OneSign, ThenIs DEF Texts
  <2>2. PICK f : IsDecoding(f, x)
    OBVIOUS
  <2> DEFINE h == [i \in 1..m |-> f[i - 1]]
             first == Beyond(h, t, 1)
             g == [i \in 1..m |-> IF i = 1 THEN first ELSE f[i - 1]]
  <2>3. /\ \A i \in 1..Len(x) + 3 : f[i] = g[i + 1] /\ f[i] = h[i + 1]
        /\ g[1] = first /\ 1 \in 1..m
    BY <2>1
  <2> HIDE DEF g, h, t
  <2>4. first = Beyond(g, t, 1)
    <3>1. CASE 1 > Len(t)
      BY <2>1, <3>1
    <3>2. CASE ~(1 > Len(t))
      <4>1. g[1 + 1] = h[1 + 1]
        BY <2>1, <2>3
      <4>2. IsEscape(t, 1) => g[1 + 3] = h[1 + 3]
        <5>1. ASSUME IsEscape(t, 1) PROVE 3 \in 1..Len(x) + 3 /\ 3 + 1 = 1 + 3
          BY <2>1
        <5> QED
          BY <2>3, <5>1
      <4> QED
        BY <3>2, <4>1, <4>2 DEF Beyond
    <3> QED
      BY <3>1, <3>2
  <2> HIDE DEF first
  <2>5. ASSUME NEW i \in 1..m PROVE g[i] = Beyond(g, t, i)
    <3>1. CASE i = 1
      BY <2>3, <2>4, <3>1
    <3>2. CASE i # 1
      <4>1. i - 1 \in 1..Len(x) + 3 /\ (i - 1) + 1 = i
        BY <2>1, <3>2
      <4>2. g[i] = f[i - 1]
        BY <2>3, <4>1
      <4>3. f[i - 1] = Beyond(f, x, i - 1)
        BY <2>2, <4>1 DEF IsDecoding
      <4>4. Beyond(f, x, i - 1) = Beyond(g, t, (i - 1) + 1)
        BY <2>3, <4>1, BeyondShifts DEF t
      <4> QED
        BY <4>1, <4>2, <4>3, <4>4
    <3> QED
      BY <3>1, <3>2
  <2>6. IsDecoding(g, t)
    <3>1. g = [i \in 1..m |-> g[i]]
      BY DEF g
    <3> QED
      BY <2>5, <3>1 DEF IsDecoding
  <2>7. ASSUME NEW d, NEW e, IsDecoding(d, t), IsDecoding(e, t) PROVE d = e
    <3>1. PICK d1 : GoesOn(d1, d, x)
      BY <2>7, DecodingOfRest DEF t
    <3>2. PICK e1 : GoesOn(e1, e, x)
      BY <2>7, DecodingOfRest DEF t
    <3>3. \A i \in 1..Len(x) + 3 : d[i + 1] = e[i + 1]
      BY <3>1, <3>2 DEF GoesOn
    <3>4. d[1 + 1] = e[1 + 1] /\ (IsEscape(t, 1) => d[1 + 3] = e[1 + 3])
      <4>1. 1 \in 1..Len(x) + 3 /\ 3 \in 1..Len(x) + 3 /\ 3 + 1 = 1 + 3
        BY <2>1
      <4> QED
        BY <3>3, <4>1
    <3>5. Beyond(d, t, 1) = Beyond(e, t, 1)
      BY <3>4 DEF Beyond
    <3>6. ASSUME NEW i \in 1..m PROVE d[i] = e[i]
      <4>1. CASE i = 1
        <5>1. d[1] = Beyond(d, t, 1) /\ e[1] = Beyond(e, t, 1)
          <6>1. 1 \in 1..Len(t) + 3
            BY <2>1
          <6> QED
            BY <2>7, <6>1 DEF IsDecoding
        <5> QED
          BY <3>5, <4>1, <5>1
      <4>2. CASE i # 1
        <5>1. i - 1 \in 1..Len(x) + 3 /\ (i - 1) + 1 = i
          BY <2>1, <4>2
        <5> QED
          BY <3>3, <5>1
      <4> QED
        BY <4>1, <4>2
    <3>7. d = [i \in 1..m |-> d[i]] /\ e = [i \in 1..m |-> e[i]]
      BY <2>7 DEF IsDecoding
    <3> QED
      BY <3>6, <3>7
  <2>8. t \in S
    BY <2>1, <2>6, <2>7
  <2> QED
    BY <2>8 DEF t
<1> HIDE DEF S
<1>3. Texts(A) \subseteq S
  BY <1>1, <1>2, TextInduction
<1> QED
  BY <1>3 DEF S

LEMMA Decoded ==
  ASSUME NEW A, NEW text \in Texts(A)
  PROVE  \E f : /\ IsDecoding(f, text) /\ PercentDecode(text) = f[1]
                /\ f[1] = Beyond(f, text, 1)
<1> DEFINE f == CHOOSE g : IsDecoding(g, text)
<1>1. IsDecoding(f, text)
  BY OneDecoding
<1>2. PercentDecode(text) = f[1]
  BY DecodeIs
<1> HIDE DEF f
<1>3. 1 \in 1..Len(text) + 3
  BY LenProperties DEF Texts
<1>4. f[1] = Beyond(f, text, 1)
  BY <1>1, <1>3 DEF IsDecoding
<1> QED
  BY <1>1, <1>2, <1>4

\* A sign that begins no escape is read alone.
LEMMA SignRead ==
  ASSUME NEW A, NEW c \in A, NEW x \in Texts(A)
  PROVE  /\ PercentDecode(NoText) = NoText
         /\ c # "%" => PercentDecode(Then(Sign(c), x)) = Then(Sign(ReadAs(c)), PercentDecode(x))
<1>1. PercentDecode(NoText) = NoText
  <2>1. NoText \in Texts(A) /\ Len(NoText) = 0
    BY NoSigns, ThenIs
  <2>2. PICK f : PercentDecode(NoText) = f[1] /\ f[1] = Beyond(f, NoText, 1)
    BY <2>1, Decoded
  <2> QED
    BY <2>1, <2>2 DEF Beyond
<1>2. ASSUME c # "%" PROVE PercentDecode(Then(Sign(c), x)) = Then(Sign(ReadAs(c)), PercentDecode(x))
  <2> DEFINE t == Then(Sign(c), x)
  <2>1. t \in Texts(A) /\ Len(t) = 1 + Len(x) /\ Len(x) \in Nat /\ t[1] = c
    BY SignFirst, LenProperties, OneSign, ThenIs DEF Texts
  <2>2. PICK f : IsDecoding(f, t) /\ PercentDecode(t) = f[1] /\ f[1] = Beyond(f, t, 1)
    BY <2>1, Decoded
  <2>3. PICK g : GoesOn(g, f, x)
    BY <2>2, DecodingOfRest
  <2>4. PercentDecode(x) = g[1]
    <3>1. PICK h : IsDecoding(h, x) /\ PercentDecode(x) = h[1]
      BY Decoded
    <3>2. h = g
      BY <2>3, <3>1, OneDecoding DEF GoesOn
    <3> QED
      BY <3>1, <3>2
  <2>5. f[1 + 1] = g[1]
    <3>1. 1 \in 1..Len(x) + 3
      BY <2>1
    <3> QED
      BY <2>3, <3>1 DEF GoesOn
  <2> HIDE DEF t
  <2>6. ~IsEscape(t, 1) /\ ~(1 > Len(t))
    BY <1>2, <2>1 DEF IsEscape
  <2>7. PercentDecode(t) = Then(Sign(ReadAs(c)), g[1])
    BY <2>1, <2>2, <2>5, <2>6 DEF Beyond
  <2> QED
    BY <2>4, <2>7 DEF t
<1> QED
  BY <1>1, <1>2

\* An escape is read as the byte that it writes.
LEMMA EscapeRead ==
  ASSUME NEW A, "%" \in A, NEW h \in HexDigits, NEW l \in HexDigits, HexDigits \subseteq A,
         NEW x \in Texts(A)
  PROVE  PercentDecode(Then(Sign("%"), Then(Sign(h), Then(Sign(l), x))))
             = Then(Sign(ByteOf(h, l)), PercentDecode(x))
<1> DEFINE t1 == Then(Sign(l), x)
           t2 == Then(Sign(h), t1)
           t3 == Then(Sign("%"), t2)
<1>0. h \in A /\ l \in A /\ Len(x) \in Nat
  BY LenProperties DEF Texts
<1>1. t1 \in Texts(A) /\ Len(t1) = 1 + Len(x) /\ t1[1] = l
  BY <1>0, SignFirst, OneSign, ThenIs
<1> HIDE DEF t1
<1>2. /\ t2 \in Texts(A) /\ Len(t2) = 2 + Len(x) /\ t2[1] = h
      /\ \A i \in 1..Len(t1) : t2[i + 1] = t1[i]
  <2>1. /\ t2 \in Texts(A) /\ Len(t2) = 1 + Len(t1) /\ t2[1] = h
        /\ \A i \in 1..Len(t1) : t2[i + 1] = t1[i]
    <3>1. t2 \in Texts(A) /\ BeginsWith(t2, h, t1)
      BY <1>0, <1>1, SignBefore
    <3> HIDE DEF t2
    <3> QED
      BY <3>1 DEF BeginsWith
  <2> HIDE DEF t2
  <2> QED
    BY <1>0, <1>1, <2>1
<1> HIDE DEF t2
<1>3. /\ t3 \in Texts(A) /\ Len(t3) = 3 + Len(x) /\ t3[1] = "%"
      /\ \A i \in 1..Len(t2) : t3[i + 1] = t2[i]
  <2>1. /\ t3 \in Texts(A) /\ Len(t3) = 1 + Len(t2) /\ t3[1] = "%"
        /\ \A i \in 1..Len(t2) : t3[i + 1] = t2[i]
    <3>1. t3 \in Texts(A) /\ BeginsWith(t3, "%", t2)
      BY <1>2, SignBefore
    <3> HIDE DEF t3
    <3> QED
      BY <3>1 DEF BeginsWith
  <2> HIDE DEF t3
  <2> QED
    BY <1>0, <1>2, <2>1
<1> HIDE DEF t3
<1>4. t3[1 + 1] = h /\ t3[1 + 2] = l
  <2>1. 1 \in 1..Len(t2) /\ 2 \in 1..Len(t2) /\ 1 \in 1..Len(t1)
    BY <1>0, <1>1, <1>2
  <2>2. t3[1 + 1] = t2[1] /\ t3[2 + 1] = t2[2] /\ t2[1 + 1] = t1[1]
    BY <1>2, <1>3, <2>1
  <2> QED
    BY <1>1, <1>2, <2>2
<1>5. PICK f : IsDecoding(f, t3) /\ PercentDecode(t3) = f[1] /\ f[1] = Beyond(f, t3, 1)
  BY <1>3, Decoded
<1>6. PICK f2 : GoesOn(f2, f, t2)
  BY <1>2, <1>5, DecodingOfRest DEF t3
<1>7. PICK f1 : GoesOn(f1, f2, t1)
  <2>1. IsDecoding(f2, Then(Sign(h), t1))
    BY <1>6 DEF t2, GoesOn
  <2> QED
    BY <1>0, <1>1, <2>1, DecodingOfRest
<1>8. PICK g : GoesOn(g, f1, x)
  <2>1. IsDecoding(f1, Then(Sign(l), x))
    BY <1>7 DEF t1, GoesOn
  <2> QED
    BY <1>0, <2>1, DecodingOfRest
<1>9. f[1 + 3] = g[1]
  <2>1. 1 \in 1..Len(x) + 3 /\ 2 \in 1..Len(t1) + 3 /\ 3 \in 1..Len(t2) + 3
    BY <1>0, <1>1, <1>2
  <2>2. g[1] = f1[1 + 1] /\ f1[2] = f2[2 + 1] /\ f2[3] = f[3 + 1]
    BY <1>6, <1>7, <1>8, <2>1 DEF GoesOn
  <2> QED
    BY <2>2
<1>10. PercentDecode(x) = g[1]
  <2>1. PICK d : IsDecoding(d, x) /\ PercentDecode(x) = d[1]
    BY Decoded
  <2>2. d = g
    BY <1>8, <2>1, OneDecoding DEF GoesOn
  <2> QED
    BY <2>1, <2>2
<1>11. IsEscape(t3, 1) /\ ~(1 > Len(t3))
  <2>1. 1 + 2 <= Len(t3)
    BY <1>0, <1>3
  <2> QED
    BY <1>3, <1>4, <2>1 DEF IsEscape
<1>12. PercentDecode(t3) = Then(Sign(ByteOf(h, l)), g[1])
  BY <1>4, <1>5, <1>9, <1>11 DEF Beyond
<1> QED
  BY <1>10, <1>12 DEF t1, t2, t3

-----------------------------------------------------------------------------

EscapeSigns == {" ", "%", "+"} \cup HexDigits

LEMMA ThreeSigns ==
  ASSUME NEW A, NEW c \in A, NEW d \in A, NEW e \in A
  PROVE  <<c, d, e>> = Then(Sign(c), Then(Sign(d), Sign(e)))
<1> DEFINE two == Then(Sign(d), Sign(e))
           v == Then(Sign(c), two)
<1>1. Sign(e) \in Texts(A) /\ Len(Sign(e)) = 1 /\ Sign(e)[1] = e
  BY OneSign
<1>2. /\ two \in Texts(A) /\ Len(two) = 1 + Len(Sign(e)) /\ two[1] = d
      /\ \A i \in 1..Len(Sign(e)) : two[i + 1] = Sign(e)[i]
  <2>1. two \in Texts(A) /\ BeginsWith(two, d, Sign(e))
    BY <1>1, SignBefore
  <2> HIDE DEF two
  <2> QED
    BY <2>1 DEF BeginsWith
<1> HIDE DEF two
<1>3. /\ v \in Texts(A) /\ Len(v) = 1 + Len(two) /\ v[1] = c
      /\ \A i \in 1..Len(two) : v[i + 1] = two[i]
  <2>1. v \in Texts(A) /\ BeginsWith(v, c, two)
    BY <1>2, SignBefore
  <2> HIDE DEF v
  <2> QED
    BY <2>1 DEF BeginsWith
<1> HIDE DEF v
<1>4. two[1 + 1] = Sign(e)[1] /\ v[1 + 1] = two[1] /\ v[2 + 1] = two[2]
  <2>1. 1 \in 1..Len(Sign(e)) /\ 1 \in 1..Len(two) /\ 2 \in 1..Len(two)
    BY <1>1, <1>2
  <2> QED
    BY <1>2, <1>3, <2>1
<1>5. Len(v) = 3 /\ v[1] = c /\ v[2] = d /\ v[3] = e
  BY <1>1, <1>2, <1>3, <1>4
<1>6. /\ <<c, d, e>> \in Seq(A) /\ Len(<<c, d, e>>) = 3
      /\ <<c, d, e>>[1] = c /\ <<c, d, e>>[2] = d /\ <<c, d, e>>[3] = e
  OBVIOUS
<1>7. \A i \in 1..3 : <<c, d, e>>[i] = v[i]
  <2>1. \A i \in 1..3 : i = 1 \/ i = 2 \/ i = 3
    OBVIOUS
  <2> QED
    BY <1>5, <1>6, <2>1, Zenon
<1>8. v \in Seq(A)
  BY <1>3 DEF Texts
<1>9. <<c, d, e>> = v
  BY <1>5, <1>6, <1>7, <1>8, SeqEqual, Zenon
<1> QED
  BY <1>9 DEF v, two

\* How a provider writes a sign: as it is, or as an escape for it, or a space as "+".
IsWriting(c, form, x) ==
    \/ c \notin {"%", "+"} /\ Then(WrittenAs(c, form), x) = Then(Sign(c), x)
    \/ c = " " /\ Then(WrittenAs(c, form), x) = Then(Sign("+"), x)
    \/ \E h, l \in HexDigits :
           /\ ByteOf(h, l) = c
           /\ Then(WrittenAs(c, form), x) = Then(Sign("%"), Then(Sign(h), Then(Sign(l), x)))

LEMMA SignWritten ==
  ASSUME NEW A, EscapeSigns \subseteq A, NEW c \in A, NEW form \in BOOLEAN, NEW x \in Texts(A)
  PROVE  WrittenAs(c, form) \in Texts(A) /\ IsWriting(c, form, x)
<1> USE DEF IsWriting
<1>1. "%" \in A /\ "+" \in A /\ HexDigits \subseteq A /\ \A d \in A : Sign(d) \in Texts(A)
  BY OneSign DEF EscapeSigns
<1>2. ASSUME NEW l \in HexDigits, ByteOf("2", l) = c, WrittenAs(c, form) = <<"%", "2", l>>
      PROVE  /\ WrittenAs(c, form) \in Texts(A)
             /\ \E h, k \in HexDigits :
                    /\ ByteOf(h, k) = c
                    /\ Then(WrittenAs(c, form), x) = Then(Sign("%"), Then(Sign(h), Then(Sign(k), x)))
  <2>1. "2" \in HexDigits /\ "2" \in A /\ l \in A
    BY <1>1 DEF HexDigits
  <2>2. WrittenAs(c, form) = Then(Sign("%"), Then(Sign("2"), Sign(l)))
    BY <1>1, <1>2, <2>1, ThreeSigns
  <2>3. /\ Sign("%") \in Texts(A) /\ Sign("2") \in Texts(A) /\ Sign(l) \in Texts(A)
        /\ Then(Sign("2"), Sign(l)) \in Texts(A)
    BY <1>1, <2>1, ThenIs
  <2>4. Then(Then(Sign("%"), Then(Sign("2"), Sign(l))), x)
            = Then(Sign("%"), Then(Then(Sign("2"), Sign(l)), x))
    BY <2>3, ThenAssociative
  <2>5. Then(Then(Sign("2"), Sign(l)), x) = Then(Sign("2"), Then(Sign(l), x))
    BY <2>3, ThenAssociative
  <2>6. Then(Sign("%"), Then(Sign("2"), Sign(l))) \in Texts(A)
    BY <2>3, ThenIs
  <2> QED
    BY <1>2, <2>1, <2>2, <2>4, <2>5, <2>6
<1>3. ByteOf("2", "0") = " " /\ ByteOf("2", "5") = "%" /\ ByteOf("2", "B") = "+"
  BY DEF ByteOf, HexValue
<1>4. "0" \in HexDigits /\ "5" \in HexDigits /\ "B" \in HexDigits
  BY DEF HexDigits
<1>5. CASE c = " " /\ form
  <2>1. WrittenAs(c, form) = Sign("+")
    BY <1>5 DEF WrittenAs, Sign
  <2> QED
    BY <1>1, <1>5, <2>1
<1>6. CASE c = " " /\ ~form
  <2>1. WrittenAs(c, form) = <<"%", "2", "0">>
    BY <1>6 DEF WrittenAs
  <2> QED
    BY <1>2, <1>3, <1>4, <1>6, <2>1
<1>7. CASE c = "%"
  <2>1. WrittenAs(c, form) = <<"%", "2", "5">>
    BY <1>7 DEF WrittenAs
  <2> QED
    BY <1>2, <1>3, <1>4, <1>7, <2>1
<1>8. CASE c = "+"
  <2>1. WrittenAs(c, form) = <<"%", "2", "B">>
    BY <1>8 DEF WrittenAs
  <2> QED
    BY <1>2, <1>3, <1>4, <1>8, <2>1
<1>9. CASE c \notin {" ", "%", "+"}
  <2>1. WrittenAs(c, form) = Sign(c)
    BY <1>9 DEF WrittenAs, Sign
  <2> QED
    BY <1>1, <1>9, <2>1
<1> QED
  BY <1>5, <1>6, <1>7, <1>8, <1>9

LEMMA WrittenSigns ==
  ASSUME NEW A, EscapeSigns \subseteq A, NEW c \in A, NEW form \in BOOLEAN, NEW x \in Texts(A)
  PROVE  /\ Written(x, form) \in Texts(A)
         /\ Written(NoText, form) = NoText
         /\ Written(Then(Sign(c), x), form) = Then(WrittenAs(c, form), Written(x, form))
<1> DEFINE piece == [d \in A |-> WrittenAs(d, form)]
<1>1. piece \in [A -> Texts(A)]
  BY SignWritten
<1>2. ASSUME NEW t \in Texts(A) PROVE Written(t, form) = Pieced(t, piece)
  <2>1. \A i \in DOMAIN t : t[i] \in A
    BY LenProperties, ElementOfSeq DEF Texts
  <2> QED
    BY <2>1 DEF Written, Pieced
<1>3. piece[c] = WrittenAs(c, form)
  OBVIOUS
<1> HIDE DEF piece
<1>4. Sign(c) \in Texts(A) /\ NoText \in Texts(A) /\ Then(Sign(c), x) \in Texts(A)
  BY OneSign, ThenIs
<1>5. /\ Pieced(x, piece) \in Texts(A)
      /\ Pieced(Then(Sign(c), x), piece) = Then(Pieced(Sign(c), piece), Pieced(x, piece))
      /\ Pieced(NoText, piece) = NoText
      /\ Pieced(Sign(c), piece) = piece[c]
  BY <1>1, <1>4, PiecedIs
<1> QED
  BY <1>2, <1>3, <1>4, <1>5

\* What is written in either way is read again.
LEMMA WrittenIsRead ==
  ASSUME NEW A, EscapeSigns \subseteq A, NEW text \in Texts(A), NEW form \in BOOLEAN
  PROVE  PercentDecode(Written(text, form)) = text
<1> DEFINE S == {x \in Texts(A) : PercentDecode(Written(x, form)) = x}
<1>0. "%" \in A /\ "+" \in A /\ HexDigits \subseteq A
  BY DEF EscapeSigns
<1>1. NoText \in S
  <2>1. Written(NoText, form) = NoText /\ NoText \in Texts(A)
    BY <1>0, WrittenSigns, ThenIs
  <2>2. PercentDecode(NoText) = NoText
    BY <1>0, <2>1, SignRead
  <2> QED
    BY <2>1, <2>2
<1>2. ASSUME NEW c \in A, NEW x \in S PROVE Then(Sign(c), x) \in S
  <2> DEFINE w == Written(x, form)
  <2>1. Then(Sign(c), x) \in Texts(A) /\ PercentDecode(w) = x
    BY OneSign, ThenIs
  <2>2. w \in Texts(A) /\ Written(Then(Sign(c), x), form) = Then(WrittenAs(c, form), w)
    BY WrittenSigns
  <2> HIDE DEF w
  <2>3. PercentDecode(Then(WrittenAs(c, form), w)) = Then(Sign(c), x)
    <3>1. CASE c \notin {"%", "+"} /\ Then(WrittenAs(c, form), w) = Then(Sign(c), w)
      <4>1. PercentDecode(Then(Sign(c), w)) = Then(Sign(ReadAs(c)), PercentDecode(w))
        BY <2>2, <3>1, SignRead
      <4>2. ReadAs(c) = c
        BY <3>1 DEF ReadAs
      <4> QED
        BY <2>1, <3>1, <4>1, <4>2
    <3>2. CASE c = " " /\ Then(WrittenAs(c, form), w) = Then(Sign("+"), w)
      <4>1. PercentDecode(Then(Sign("+"), w)) = Then(Sign(ReadAs("+")), PercentDecode(w))
        BY <1>0, <2>2, SignRead
      <4>2. ReadAs("+") = " "
        BY DEF ReadAs
      <4> QED
        BY <2>1, <3>2, <4>1, <4>2
    <3>3. ASSUME NEW h \in HexDigits, NEW l \in HexDigits, ByteOf(h, l) = c,
                 Then(WrittenAs(c, form), w) = Then(Sign("%"), Then(Sign(h), Then(Sign(l), w)))
          PROVE  PercentDecode(Then(WrittenAs(c, form), w)) = Then(Sign(c), x)
      <4>1. PercentDecode(Then(Sign("%"), Then(Sign(h), Then(Sign(l), w))))
                = Then(Sign(ByteOf(h, l)), PercentDecode(w))
        BY <1>0, <2>2, EscapeRead
      <4> QED
        BY <2>1, <3>3, <4>1
    <3>4. IsWriting(c, form, w)
      BY <2>2, SignWritten
    <3> QED
      BY <3>1, <3>2, <3>3, <3>4, Zenon DEF IsWriting
  <2> QED
    BY <2>1, <2>2, <2>3 DEF w
<1> HIDE DEF S
<1>3. Texts(A) \subseteq S
  BY <1>1, <1>2, TextInduction
<1> QED
  BY <1>3 DEF S

\* A text without escapes keeps its length.
LEMMA LengthKept ==
  ASSUME NEW A, EscapeSigns \subseteq A, NEW text \in Texts(A), "%" \notin Signs(text)
  PROVE  Len(PercentDecode(text)) = Len(text)
<1> DEFINE S == {x \in Texts(A) :
                     "%" \notin Signs(x) =>
                         PercentDecode(x) \in Texts(A) /\ Len(PercentDecode(x)) = Len(x)}
<1>0. "%" \in A /\ " " \in A
  BY DEF EscapeSigns
<1>1. NoText \in S
  <2>1. NoText \in Texts(A) /\ PercentDecode(NoText) = NoText
    BY <1>0, SignRead, ThenIs
  <2> QED
    BY <2>1
<1>2. ASSUME NEW c \in A, NEW x \in S PROVE Then(Sign(c), x) \in S
  <2>1. /\ Then(Sign(c), x) \in Texts(A) /\ Len(Then(Sign(c), x)) = 1 + Len(x)
        /\ Signs(Then(Sign(c), x)) = {c} \cup Signs(x)
    BY SignFirst
  <2>2. ASSUME "%" \notin Signs(Then(Sign(c), x))
        PROVE  /\ PercentDecode(Then(Sign(c), x)) \in Texts(A)
               /\ Len(PercentDecode(Then(Sign(c), x))) = Len(Then(Sign(c), x))
    <3>1. c # "%" /\ PercentDecode(x) \in Texts(A) /\ Len(PercentDecode(x)) = Len(x)
      BY <2>1, <2>2
    <3>2. PercentDecode(Then(Sign(c), x)) = Then(Sign(ReadAs(c)), PercentDecode(x))
      BY <3>1, SignRead
    <3>3. ReadAs(c) \in A
      BY <1>0 DEF ReadAs
    <3>4. /\ Then(Sign(ReadAs(c)), PercentDecode(x)) \in Texts(A)
          /\ Len(Then(Sign(ReadAs(c)), PercentDecode(x))) = 1 + Len(PercentDecode(x))
      BY <3>1, <3>3, SignFirst
    <3> QED
      BY <2>1, <3>1, <3>2, <3>4
  <2> QED
    BY <2>1, <2>2
<1> HIDE DEF S
<1>3. Texts(A) \subseteq S
  BY <1>1, <1>2, TextInduction
<1> QED
  BY <1>3 DEF S

LEMMA WritingsAreRead ==
  ASSUME NEW A, EscapeSigns \subseteq A, NEW texts \in SUBSET Texts(A)
  PROVE  WritingIsRead(texts)
<1>1. ASSUME NEW text \in texts, NEW form \in BOOLEAN
      PROVE  /\ PercentDecode(Written(text, form)) = text
             /\ "%" \notin ToSet(text) => Len(PercentDecode(text)) = Len(text)
  <2>1. text \in Texts(A)
    OBVIOUS
  <2> QED
    BY <2>1, WrittenIsRead, LengthKept DEF Signs
<1> QED
  BY <1>1 DEF WritingIsRead

-----------------------------------------------------------------------------
(* What a callback ends *)

\* At most one pair list, whose pairs are numbered.
IsRequest(request) ==
    /\ request.words \in Nat
    /\ request.query = {} \/ \E q : request.query = {q} /\ DOMAIN q \subseteq Nat

\* A key has one value at most.
LEMMA OneValue ==
  ASSUME NEW q, DOMAIN q \subseteq Nat, NEW key, NEW v \in Parameter(q, key)
  PROVE  Parameter(q, key) = {v}
<1> DEFINE those == {i \in DOMAIN q : q[i][1] = key}
           last == {k \in those : \A j \in those : j <= k}
<1>1. Parameter(q, key) = {PercentDecode(q[i][2]) : i \in last}
  BY DEF Parameter
<1>2. \A i, k \in last : i = k
  OBVIOUS
<1> HIDE DEF last
<1> QED
  BY <1>1, <1>2

\* What a callback that succeeds has.
Succeeds(request, callback) ==
    \E q : /\ request.query = {q}
           /\ Parameter(q, "error") = {}
           /\ Parameter(q, "code") = {callback.code} /\ callback.code # <<>>
           /\ Parameter(q, "state") = {callback.state} /\ callback.state # <<>>

LEMMA CallbackSucceeds ==
  ASSUME NEW request, IsRequest(request), ParseCallbackRequest(request).is = "success"
  PROVE  Succeeds(request, ParseCallbackRequest(request))
<1> DEFINE query == CHOOSE q \in request.query : TRUE
           code == Parameter(query, "code")
           state == Parameter(query, "state")
           heard == [is |-> "success", code |-> CHOOSE c \in code : TRUE,
                     state |-> CHOOSE s \in state : TRUE]
<1>1. Malformed.is = "malformed" /\ [Malformed EXCEPT !.is = "provider error"].is = "provider error"
  BY DEF Malformed
<1> DEFINE short == request.words < 2 \/ request.query = {}
           full == request.words >= 2 /\ request.query # {}
           rest == IF Parameter(query, "error") # {} THEN [Malformed EXCEPT !.is = "provider error"]
                   ELSE IF <<>> \in code \cup state \/ code = {} \/ state = {} THEN Malformed
                   ELSE heard
<1>0. ParseCallbackRequest(request) = CASE short -> Malformed [] full -> rest
  BY DEF ParseCallbackRequest
<1>2. CASE request.words < 2 \/ request.query = {}
  <2>1. short /\ ~full
    BY <1>2 DEF IsRequest
  <2> HIDE DEF short, full, rest
  <2>2. ParseCallbackRequest(request) = Malformed
    BY <1>0, <2>1
  <2> QED
    BY <1>1, <2>2
<1>3. CASE request.words >= 2 /\ request.query # {}
  <2>1. ~(request.words < 2 \/ request.query = {})
    BY <1>3 DEF IsRequest
  <2>2. ParseCallbackRequest(request) =
            IF Parameter(query, "error") # {} THEN [Malformed EXCEPT !.is = "provider error"]
            ELSE IF <<>> \in code \cup state \/ code = {} \/ state = {} THEN Malformed
            ELSE heard
    <3>1. full /\ ~short
      BY <1>3, <2>1
    <3> HIDE DEF short, full, rest
    <3>2. ParseCallbackRequest(request) = rest
      BY <1>0, <3>1
    <3> QED
      BY <3>2 DEF rest
  <2>3. PICK q : request.query = {q} /\ DOMAIN q \subseteq Nat
    BY <1>3 DEF IsRequest
  <2>4. query = q
    BY <2>3
  <2> HIDE DEF query
  <2>5. Parameter(query, "error") = {} /\ <<>> \notin code \cup state /\ code # {} /\ state # {}
    BY <1>1, <2>2
  <2>6. PICK c \in code, t \in state : heard.code = c /\ heard.state = t
    BY <2>5
  <2>7. code = {c} /\ state = {t}
    BY <2>3, <2>4, <2>6, OneValue
  <2>8. ParseCallbackRequest(request) = heard
    BY <2>2, <2>5
  <2> HIDE DEF heard, code, state
  <2>9. /\ ParseCallbackRequest(request).code = c /\ ParseCallbackRequest(request).state = t
        /\ c # <<>> /\ t # <<>>
    BY <2>5, <2>6, <2>7, <2>8
  <2>10. Parameter(q, "code") = {c} /\ Parameter(q, "state") = {t}
    BY <2>4, <2>7 DEF code, state
  <2> QED
    BY <2>3, <2>4, <2>5, <2>9, <2>10 DEF Succeeds
<1> QED
  BY <1>2, <1>3 DEF IsRequest

\* What a login waits for.
LEMMA Waited ==
  ASSUME NEW request, NEW listens \in BOOLEAN
  PROVE  LET waited == WaitForCallback(request, listens)
             callback == ParseCallbackRequest(request)
         IN /\ listens <=> waited.answer # {}
            /\ \A answer \in waited.answer :
                   (answer.page.title = "complete") <=> callback.is = "success"
            /\ waited.login = IF callback.is = "success" /\ listens THEN {callback} ELSE {}
<1> DEFINE callback == ParseCallbackRequest(request)
           status == IF callback.is = "success" THEN 200 ELSE 400
           response == WriteCallbackResponse(status, <<"authorization failed">>)
<1>1. /\ WaitForCallback(request, listens).answer = {response : l \in {listens} \cap {TRUE}}
      /\ WaitForCallback(request, listens).login
             = IF callback.is = "success" /\ listens THEN {callback} ELSE {}
  BY DEF WaitForCallback
<1>2. response.page.title = IF status = 200 THEN "complete" ELSE "failed"
  BY DEF WriteCallbackResponse, CallbackHtml
<1> HIDE DEF response
<1>3. response.page.title = "complete" <=> callback.is = "success"
  BY <1>2
<1> DEFINE waited == WaitForCallback(request, listens)
<1> HIDE DEF callback
<1>4. waited.answer # {} <=> listens
  <2>1. waited.answer = {response : l \in {listens} \cap {TRUE}}
    BY <1>1
  <2> HIDE DEF waited
  <2>2. CASE listens = TRUE
    <3>1. TRUE \in {listens} \cap {TRUE}
      BY <2>2
    <3>2. response \in waited.answer
      BY <2>1, <3>1
    <3> QED
      BY <2>2, <3>2
  <2>3. CASE listens = FALSE
    <3>1. {listens} \cap {TRUE} = {}
      BY <2>3
    <3>2. waited.answer = {}
      BY <2>1, <3>1
    <3> QED
      BY <2>3, <3>2
  <2> QED
    BY <2>2, <2>3
<1>5. \A answer \in waited.answer : (answer.page.title = "complete") <=> callback.is = "success"
  BY <1>1, <1>3
<1> QED
  BY <1>1, <1>4, <1>5 DEF callback

LEMMA PagesTellTheOutcome ==
  ASSUME NEW requests, \A request \in requests : IsRequest(request)
  PROVE  PageTellsTheOutcome(requests)
<1> SUFFICES ASSUME NEW request \in requests, NEW listens \in BOOLEAN
             PROVE  LET waited == WaitForCallback(request, listens)
                    IN /\ listens <=> waited.answer # {}
                       /\ \A answer \in waited.answer :
                              (answer.page.title = "complete") <=> waited.login # {}
                       /\ waited.login # {} =>
                              \A query \in request.query : Parameter(query, "error") = {}
                       /\ \A callback \in waited.login : callback.code # <<>> /\ callback.state # <<>>
  BY DEF PageTellsTheOutcome
<1> DEFINE waited == WaitForCallback(request, listens)
           heard == ParseCallbackRequest(request)
<1>1. /\ listens <=> waited.answer # {}
      /\ \A answer \in waited.answer : (answer.page.title = "complete") <=> heard.is = "success"
      /\ waited.login = IF heard.is = "success" /\ listens THEN {heard} ELSE {}
  BY Waited
<1>2. heard.is = "success" => Succeeds(request, heard)
  BY CallbackSucceeds
<1> HIDE DEF waited, heard
<1>3. \A answer \in waited.answer : (answer.page.title = "complete") <=> waited.login # {}
  BY <1>1
<1>4. waited.login # {} => \A query \in request.query : Parameter(query, "error") = {}
  BY <1>1, <1>2 DEF Succeeds
<1>5. \A callback \in waited.login : callback.code # <<>> /\ callback.state # <<>>
  BY <1>1, <1>2 DEF Succeeds
<1> QED
  BY <1>1, <1>3, <1>4, <1>5 DEF waited

\* The name of a state's file has no sign that a file's name cannot have.
LEMMA FileNames ==
  ASSUME NEW token
  PROVE  ToSet(StatePath(token)) \cap {"?", "%", " ", "&", "<"} = {}
<1> DEFINE named == [i \in DOMAIN token |->
                        IF token[i] \in {"a", "B", "0", "2", "5", "-", "_"} THEN token[i] ELSE "_"]
<1>1. StatePath(token) = IF token = <<>> THEN <<"state">> ELSE named
  BY DEF StatePath, SanitizeFileComponent
<1>2. ToSet(named) \cap {"?", "%", " ", "&", "<"} = {}
  <2>1. \A i \in DOMAIN named : named[i] \in {"a", "B", "0", "2", "5", "-", "_"}
    OBVIOUS
  <2> HIDE DEF named
  <2> QED
    BY <2>1 DEF ToSet
<1>3. ToSet(<<"state">>) = {"state"}
  BY DEF ToSet
<1> HIDE DEF named
<1> QED
  BY <1>1, <1>2, <1>3

LEMMA OwnLoginsOnly ==
  ASSUME NEW states, NEW requests, \A request \in requests : IsRequest(request)
  PROVE  OwnLoginOnly(states, requests)
<1>1. ASSUME NEW request \in requests, NEW own \in states, Authorized(states, own, request, TRUE)
      PROVE  /\ \A query \in request.query : Parameter(query, "state") = {own}
             /\ own = ParseCallbackRequest(request).state
  <2> DEFINE heard == ParseCallbackRequest(request)
  <2>1. PICK callback \in WaitForCallback(request, TRUE).login : callback.state = own
    BY <1>1 DEF Authorized, HandleCallback
  <2>2. heard.is = "success" /\ callback = heard
    <3>1. WaitForCallback(request, TRUE).login = IF heard.is = "success" /\ TRUE THEN {heard} ELSE {}
      BY Waited
    <3> HIDE DEF heard
    <3> QED
      BY <2>1, <3>1
  <2>3. Succeeds(request, heard)
    BY <2>2, CallbackSucceeds
  <2> HIDE DEF heard
  <2>4. heard.state = own /\ \A query \in request.query : Parameter(query, "state") = {own}
    BY <2>1, <2>2, <2>3 DEF Succeeds
  <2> QED
    BY <2>4 DEF heard
<1>2. ASSUME NEW own \in states, NEW request \in requests
      PROVE  /\ own \in LoadState(states, own)
             /\ Authorized(states, own, request, TRUE) =>
                   \A query \in request.query : Parameter(query, "state") = {own}
             /\ \A other \in states \ {own} :
                   Authorized(states, own, request, TRUE) => ~Authorized(states, other, request, TRUE)
             /\ ToSet(StatePath(own)) \cap {"?", "%", " ", "&", "<"} = {}
  <2>1. own \in LoadState(states, own)
    BY DEF LoadState
  <2>2. \A other \in states \ {own} :
            Authorized(states, own, request, TRUE) => ~Authorized(states, other, request, TRUE)
    BY <1>1
  <2> QED
    BY <1>1, <2>1, <2>2, FileNames
<1> QED
  BY <1>2 DEF OwnLoginOnly

\* For texts of any signs, any requests and any states of logins.
THEOREM CallbacksAreRead ==
  ASSUME NEW A, EscapeSigns \cup Marks \subseteq A,
         NEW texts \in SUBSET Seq(A), NEW pages \in SUBSET Seq(A),
         NEW requests, \A request \in requests : IsRequest(request), NEW states
  PROVE  CallbacksAreReadFor(texts, pages, requests, states)
<1>1. /\ EscapeSigns \subseteq A /\ Marks \subseteq A
      /\ texts \in SUBSET Texts(A) /\ pages \in SUBSET Texts(A)
  BY DEF Texts
<1>2. WritingIsRead(texts) /\ PageIsText(pages)
  BY <1>1, WritingsAreRead, PagesAreText
<1>3. PageTellsTheOutcome(requests) /\ OwnLoginOnly(states, requests)
  BY PagesTellTheOutcome, OwnLoginsOnly
<1> QED
  BY <1>2, <1>3 DEF CallbacksAreReadFor

-----------------------------------------------------------------------------
(* What comes of a backend's arguments *)

\* What comes of the arguments from the i-th on, when f is what comes of them from
\* the later ones.
NothingSaid == [args |-> NoText, settings |-> <<>>]
Onward(f, args, http, i) ==
    IF i > Len(args) THEN NothingSaid
    ELSE Noted(SaidAt(args, i, http), WordsAt(args, i), f[i + Len(WordsAt(args, i))])

IsParsing(f, args, http) == f = [i \in 1..Len(args) + 1 |-> Onward(f, args, http, i)]

LEMMA ParseArgsIs ==
  ASSUME NEW args, NEW http
  PROVE  ParseArgs(args, http) = (CHOOSE f : IsParsing(f, args, http))[1]
  BY DEF ParseArgs, IsParsing, Onward, NothingSaid, NoText

\* An option takes one argument or two, of those that are left.
LEMMA WordsTaken ==
  ASSUME NEW args, NEW i
  PROVE  Len(WordsAt(args, i)) = IF TakesNext(args, i) THEN 2 ELSE 1
  BY DEF WordsAt

LEMMA TakesSame ==
  ASSUME NEW t, NEW x, NEW j, NEW i, NEW b, t[j] = b, x[i] = b, i < Len(x) <=> j < Len(t)
  PROVE  TakesNext(t, j) <=> TakesNext(x, i)
<1>1. CASE i < Len(x) /\ j < Len(t)
  BY <1>1, Zenon DEF TakesNext
<1>2. CASE ~(i < Len(x)) /\ ~(j < Len(t))
  BY <1>2, Zenon DEF TakesNext
<1> QED
  BY <1>1, <1>2

\* One argument more in front changes nothing for the others.
LEMMA WordsShift ==
  ASSUME NEW A, NEW a \in A, NEW x \in Texts(A), NEW i \in 1..Len(x), NEW http
  PROVE  /\ TakesNext(Then(Sign(a), x), i + 1) <=> TakesNext(x, i)
         /\ WordsAt(Then(Sign(a), x), i + 1) = WordsAt(x, i)
         /\ SaidAt(Then(Sign(a), x), i + 1, http) = SaidAt(x, i, http)
<1> DEFINE t == Then(Sign(a), x)
<1>1. Len(x) \in Nat /\ Len(t) = 1 + Len(x) /\ \A k \in 1..Len(x) : t[k + 1] = x[k]
  <2>1. BeginsWith(t, a, x)
    BY SignBefore
  <2> HIDE DEF t
  <2> QED
    BY <2>1 DEF BeginsWith
<1> HIDE DEF t
<1>2. t[i + 1] = x[i] /\ (i < Len(x) <=> i + 1 < Len(t))
  BY <1>1
<1>3. i < Len(x) => t[(i + 1) + 1] = x[i + 1]
  <2>1. i < Len(x) => i + 1 \in 1..Len(x)
    BY <1>1
  <2> QED
    BY <1>1, <2>1
<1>4. TakesNext(t, i + 1) <=> TakesNext(x, i)
  BY <1>2, TakesSame
<1>5. TakesNext(x, i) => i < Len(x)
  BY DEF TakesNext
<1>6. CASE TakesNext(x, i)
  <2>1. t[(i + 1) + 1] = x[i + 1]
    BY <1>3, <1>5, <1>6
  <2> QED
    BY <1>2, <1>4, <1>6, <2>1 DEF t, WordsAt, SaidAt
<1>7. CASE ~TakesNext(x, i)
  BY <1>2, <1>4, <1>7 DEF t, WordsAt, SaidAt
<1> QED
  BY <1>6, <1>7

LEMMA OnwardShifts ==
  ASSUME NEW A, NEW a \in A, NEW x \in Texts(A), NEW f, NEW g, NEW http,
         \A i \in 1..Len(x) + 1 : g[i] = f[i + 1], NEW i \in 1..Len(x) + 1
  PROVE  Onward(g, x, http, i) = Onward(f, Then(Sign(a), x), http, i + 1)
<1> DEFINE t == Then(Sign(a), x)
<1>1. Len(x) \in Nat /\ Len(t) = 1 + Len(x)
  BY SignFirst
<1>2. CASE i > Len(x)
  <2>1. i + 1 > Len(t)
    BY <1>1, <1>2
  <2> HIDE DEF t
  <2>2. Onward(g, x, http, i) = NothingSaid /\ Onward(f, t, http, i + 1) = NothingSaid
    BY <1>2, <2>1 DEF Onward
  <2> QED
    BY <2>2 DEF t
<1>3. CASE i <= Len(x)
  <2>1. i \in 1..Len(x) /\ ~ (i > Len(x)) /\ ~ (i + 1 > Len(t))
    BY <1>1, <1>3
  <2>2. /\ TakesNext(t, i + 1) <=> TakesNext(x, i)
        /\ WordsAt(t, i + 1) = WordsAt(x, i) /\ SaidAt(t, i + 1, http) = SaidAt(x, i, http)
    BY <2>1, WordsShift
  <2> DEFINE n == Len(WordsAt(x, i))
  <2>3. n \in 1..2 /\ i + n \in 1..Len(x) + 1 /\ (i + n) + 1 = (i + 1) + n
    <3>1. n = IF TakesNext(x, i) THEN 2 ELSE 1
      BY WordsTaken
    <3>2. TakesNext(x, i) => i < Len(x)
      BY DEF TakesNext
    <3> HIDE DEF n
    <3> QED
      BY <1>1, <1>3, <3>1, <3>2
  <2> HIDE DEF t
  <2>4. g[i + n] = f[(i + 1) + n]
    <3> HIDE DEF n
    <3> QED
      BY <2>3
  <2> QED
    BY <2>1, <2>2, <2>4, Zenon DEF Onward, t
<1> QED
  BY <1>1, <1>2, <1>3

Proceeds(g, f, rest, http) ==
    IsParsing(g, rest, http) /\ \A i \in 1..Len(rest) + 1 : g[i] = f[i + 1]

LEMMA ParsingOfRest ==
  ASSUME NEW A, NEW a \in A, NEW x \in Texts(A), NEW f, NEW http, IsParsing(f, Then(Sign(a), x), http)
  PROVE  \E g : Proceeds(g, f, x, http)
<1> DEFINE g == [i \in 1..Len(x) + 1 |-> f[i + 1]]
<1>1. Len(x) \in Nat /\ Len(Then(Sign(a), x)) = 1 + Len(x)
  BY SignFirst
<1>2. \A i \in 1..Len(x) + 1 : g[i] = f[i + 1]
  OBVIOUS
<1>3. ASSUME NEW i \in 1..Len(x) + 1 PROVE f[i + 1] = Onward(g, x, http, i)
  <2>1. i + 1 \in 1..Len(Then(Sign(a), x)) + 1
    BY <1>1
  <2>2. f[i + 1] = Onward(f, Then(Sign(a), x), http, i + 1)
    BY <2>1 DEF IsParsing
  <2> HIDE DEF g
  <2> QED
    BY <1>2, <2>2, OnwardShifts
<1>4. g = [i \in 1..Len(x) + 1 |-> Onward(g, x, http, i)]
  <2> DEFINE h == [i \in 1..Len(x) + 1 |-> Onward(g, x, http, i)]
  <2>1. DOMAIN g = DOMAIN h /\ \A i \in DOMAIN g : g[i] = h[i]
    BY <1>2, <1>3
  <2>2. g = [i \in DOMAIN g |-> g[i]] /\ h = [i \in DOMAIN h |-> h[i]]
    OBVIOUS
  <2> HIDE DEF g, h
  <2> QED
    BY <2>1, <2>2 DEF h
<1> HIDE DEF g
<1>5. Proceeds(g, f, x, http)
  BY <1>2, <1>4 DEF Proceeds, IsParsing
<1> QED
  BY <1>5

\* What comes first depends on what comes of the second and the third.
LEMMA OnwardFirst ==
  ASSUME NEW A, NEW t \in Texts(A), NEW f, NEW g, NEW http,
         \A i \in 2..Len(t) + 1 : f[i] = g[i]
  PROVE  Onward(f, t, http, 1) = Onward(g, t, http, 1)
<1>1. Len(t) \in Nat
  BY LenProperties DEF Texts
<1>2. CASE 1 > Len(t)
  BY <1>2 DEF Onward
<1>3. CASE ~(1 > Len(t))
  <2> DEFINE n == Len(WordsAt(t, 1))
  <2>1. n = IF TakesNext(t, 1) THEN 2 ELSE 1
    BY WordsTaken
  <2>2. TakesNext(t, 1) => 1 < Len(t)
    BY DEF TakesNext
  <2> HIDE DEF n
  <2>3. 1 + n \in 2..Len(t) + 1
    BY <1>1, <1>3, <2>1, <2>2
  <2>4. f[1 + n] = g[1 + n]
    BY <2>3
  <2> QED
    BY <1>3, <2>4 DEF Onward, n
<1> QED
  BY <1>2, <1>3

LEMMA OneParsing ==
  ASSUME NEW A, NEW args \in Texts(A), NEW http
  PROVE  /\ \E f : IsParsing(f, args, http)
         /\ \A f, g : IsParsing(f, args, http) /\ IsParsing(g, args, http) => f = g
<1> DEFINE S == {x \in Texts(A) :
                     /\ \E f : IsParsing(f, x, http)
                     /\ \A f, g : IsParsing(f, x, http) /\ IsParsing(g, x, http) => f = g}
<1>1. NoText \in S
  <2>1. Len(NoText) = 0 /\ NoText \in Texts(A)
    BY NoSigns, ThenIs
  <2>2. \A f : \A i \in 1..Len(NoText) + 1 : Onward(f, NoText, http, i) = NothingSaid
    BY <2>1 DEF Onward
  <2>3. \A f : IsParsing(f, NoText, http) <=> f = [i \in 1..Len(NoText) + 1 |-> NothingSaid]
    BY <2>2 DEF IsParsing
  <2> DEFINE none == [i \in 1..Len(NoText) + 1 |-> NothingSaid]
  <2>4. IsParsing(none, NoText, http)
    BY <2>3
  <2>5. \A f, g : IsParsing(f, NoText, http) /\ IsParsing(g, NoText, http) => f = g
    BY <2>3
  <2> HIDE DEF none
  <2> QED
    BY <2>1, <2>4, <2>5
<1>2. ASSUME NEW a \in A, NEW x \in S PROVE Then(Sign(a), x) \in S
  <2> DEFINE t == Then(Sign(a), x)
             m == Len(t) + 1
  <2>1. t \in Texts(A) /\ Len(x) \in Nat /\ Len(t) = 1 + Len(x)
    BY SignFirst, LenProperties, OneSign, ThenIs DEF Texts
  <2>2. PICK f : IsParsing(f, x, http)
    OBVIOUS
  <2> DEFINE h == [i \in 1..m |-> f[i - 1]]
             first == Onward(h, t, http, 1)
             g == [i \in 1..m |-> IF i = 1 THEN first ELSE f[i - 1]]
  <2>3. /\ \A i \in 1..Len(x) + 1 : f[i] = g[i + 1]
        /\ \A i \in 2..Len(t) + 1 : h[i] = g[i]
        /\ g[1] = first /\ 1 \in 1..m
    BY <2>1
  <2> HIDE DEF g, h, t
  <2>4. first = Onward(g, t, http, 1)
    BY <2>1, <2>3, OnwardFirst
  <2> HIDE DEF first
  <2>5. ASSUME NEW i \in 1..m PROVE g[i] = Onward(g, t, http, i)
    <3>1. CASE i = 1
      BY <2>3, <2>4, <3>1
    <3>2. CASE i # 1
      <4>1. i - 1 \in 1..Len(x) + 1 /\ (i - 1) + 1 = i
        BY <2>1, <3>2
      <4>2. g[i] = f[i - 1]
        BY <2>3, <4>1
      <4>3. f[i - 1] = Onward(f, x, http, i - 1)
        BY <2>2, <4>1 DEF IsParsing
      <4>4. Onward(f, x, http, i - 1) = Onward(g, t, http, (i - 1) + 1)
        BY <2>3, <4>1, OnwardShifts DEF t
      <4> QED
        BY <4>1, <4>2, <4>3, <4>4
    <3> QED
      BY <3>1, <3>2
  <2>6. IsParsing(g, t, http)
    <3>1. g = [i \in 1..m |-> g[i]]
      BY DEF g
    <3> QED
      BY <2>5, <3>1 DEF IsParsing
  <2>7. ASSUME NEW d, NEW e, IsParsing(d, t, http), IsParsing(e, t, http) PROVE d = e
    <3>1. PICK d1 : Proceeds(d1, d, x, http)
      BY <2>7, ParsingOfRest DEF t
    <3>2. PICK e1 : Proceeds(e1, e, x, http)
      BY <2>7, ParsingOfRest DEF t
    <3>3. d1 = e1
      BY <3>1, <3>2 DEF Proceeds
    <3>4. \A i \in 2..Len(t) + 1 : d[i] = e[i]
      <4>1. ASSUME NEW i \in 2..Len(t) + 1 PROVE d[i] = e[i]
        <5>1. i - 1 \in 1..Len(x) + 1 /\ (i - 1) + 1 = i
          BY <2>1
        <5> QED
          BY <3>1, <3>2, <3>3, <5>1 DEF Proceeds
      <4> QED
        BY <4>1
    <3>5. Onward(d, t, http, 1) = Onward(e, t, http, 1)
      BY <2>1, <3>4, OnwardFirst
    <3>6. ASSUME NEW i \in 1..m PROVE d[i] = e[i]
      <4>1. CASE i = 1
        <5>1. d[1] = Onward(d, t, http, 1) /\ e[1] = Onward(e, t, http, 1)
          <6>1. 1 \in 1..Len(t) + 1
            BY <2>1
          <6> QED
            BY <2>7, <6>1 DEF IsParsing
        <5> QED
          BY <3>5, <4>1, <5>1
      <4>2. CASE i # 1
        BY <2>1, <3>4, <4>2
      <4> QED
        BY <4>1, <4>2
    <3>7. d = [i \in 1..m |-> d[i]] /\ e = [i \in 1..m |-> e[i]]
      BY <2>7 DEF IsParsing
    <3> QED
      BY <3>6, <3>7
  <2>8. t \in S
    BY <2>1, <2>6, <2>7
  <2> QED
    BY <2>8 DEF t
<1> HIDE DEF S
<1>3. Texts(A) \subseteq S
  BY <1>1, <1>2, TextInduction
<1> QED
  BY <1>3 DEF S

LEMMA Parsed ==
  ASSUME NEW A, NEW args \in Texts(A), NEW http
  PROVE  \E f : IsParsing(f, args, http) /\ ParseArgs(args, http) = f[1]
<1> DEFINE f == CHOOSE g : IsParsing(g, args, http)
<1>1. IsParsing(f, args, http)
  BY OneParsing
<1>2. ParseArgs(args, http) = f[1]
  BY ParseArgsIs
<1> HIDE DEF f
<1> QED
  BY <1>1, <1>2

Takes(a) == a.opt # "" /\ ~a.joined
Alone(a, http) == IF a.joined THEN Setting(a.opt, a.text, http) ELSE {}

\* f is what comes of t, and then of x, which is t without its first.
ParsesFrom(f, t, x, http) ==
    /\ IsParsing(f, t, http) /\ ParseArgs(t, http) = f[1]
    /\ \A g : Proceeds(g, f, x, http) => ParseArgs(x, http) = f[2]

LEMMA ParsedRest ==
  ASSUME NEW A, NEW a \in A, NEW x \in Texts(A), NEW http
  PROVE  \E f : ParsesFrom(f, Then(Sign(a), x), x, http)
<1> DEFINE t == Then(Sign(a), x)
<1>1. t \in Texts(A)
  BY SignFirst
<1>2. PICK f : IsParsing(f, t, http) /\ ParseArgs(t, http) = f[1]
  BY <1>1, Parsed
<1> HIDE DEF t
<1>3. ASSUME NEW g, Proceeds(g, f, x, http) PROVE ParseArgs(x, http) = f[2]
  <2>1. PICK h : IsParsing(h, x, http) /\ ParseArgs(x, http) = h[1]
    BY Parsed
  <2>2. h = g
    BY <1>3, <2>1, OneParsing DEF Proceeds
  <2>3. 1 \in 1..Len(x) + 1
    BY LenProperties DEF Texts
  <2>4. g[1] = f[1 + 1]
    BY <1>3, <2>3 DEF Proceeds
  <2> QED
    BY <2>1, <2>2, <2>4
<1> QED
  BY <1>2, <1>3 DEF t, ParsesFrom

\* An argument that takes none after it, and one that takes the next.
LEMMA ParsesNothing ==
  ASSUME NEW http
  PROVE  ParseArgs(NoText, http) = NothingSaid
<1>1. Len(NoText) = 0 /\ NoText \in Texts({})
  BY NoSigns, ThenIs
<1>2. PICK f : IsParsing(f, NoText, http) /\ ParseArgs(NoText, http) = f[1]
  BY <1>1, Parsed
<1>3. f[1] = Onward(f, NoText, http, 1)
  BY <1>1, <1>2 DEF IsParsing
<1> QED
  BY <1>1, <1>2, <1>3 DEF Onward

LEMMA ParsesAlone ==
  ASSUME NEW A, NEW a \in A, NEW x \in Texts(A), NEW http, ~Takes(a) \/ x = NoText
  PROVE  ParseArgs(Then(Sign(a), x), http) = Noted(Alone(a, http), Sign(a), ParseArgs(x, http))
<1> DEFINE t == Then(Sign(a), x)
<1>1. Len(x) \in Nat /\ Len(t) = 1 + Len(x) /\ t[1] = a
  BY SignFirst
<1>2. PICK f : ParsesFrom(f, t, x, http)
  BY ParsedRest
<1>3. PICK g : Proceeds(g, f, x, http)
  BY <1>2, ParsingOfRest DEF ParsesFrom
<1>4. ParseArgs(x, http) = f[2]
  BY <1>2, <1>3 DEF ParsesFrom
<1> HIDE DEF t
<1>5. f[1] = Onward(f, t, http, 1)
  BY <1>1, <1>2 DEF IsParsing, ParsesFrom
<1>6. ~TakesNext(t, 1)
  <2>1. CASE ~Takes(a)
    BY <1>1, <2>1, Zenon DEF TakesNext, Takes
  <2>2. CASE x = NoText
    <3>1. ~(1 < Len(t))
      BY <1>1, <2>2, NoSigns
    <3> QED
      BY <3>1 DEF TakesNext
  <2> QED
    BY <2>1, <2>2
<1>7. WordsAt(t, 1) = Sign(a) /\ SaidAt(t, 1, http) = Alone(a, http)
  BY <1>1, <1>6 DEF WordsAt, SaidAt, Alone, Sign
<1>8. Len(WordsAt(t, 1)) = 1 /\ ~(1 > Len(t))
  BY <1>1, <1>6, WordsTaken
<1>9. Onward(f, t, http, 1) = Noted(Alone(a, http), Sign(a), f[2])
  <2>1. 1 + Len(WordsAt(t, 1)) = 2
    BY <1>8, SMTT(30)
  <2> QED
    BY <1>7, <1>8, <2>1, Zenon DEF Onward
<1> QED
  BY <1>2, <1>4, <1>5, <1>9 DEF t, ParsesFrom

LEMMA ParsesPair ==
  ASSUME NEW A, NEW a \in A, NEW b \in A, NEW x \in Texts(A), NEW http, Takes(a)
  PROVE  ParseArgs(Then(Sign(a), Then(Sign(b), x)), http)
             = Noted(Setting(a.opt, AsText(b), http), <<a, b>>, ParseArgs(x, http))
<1> DEFINE rest == Then(Sign(b), x)
<1>0. PICK u : u = rest
  OBVIOUS
<1> HIDE DEF rest
<1> DEFINE t == Then(Sign(a), u)
<1>1. u \in Texts(A) /\ Len(x) \in Nat /\ Len(u) = 1 + Len(x) /\ u[1] = b
  BY <1>0, SignFirst DEF rest
<1>2. Len(t) = 1 + Len(u) /\ t[1] = a /\ t[2] = b
  <2>1. /\ Len(t) = 1 + Len(u) /\ t[1] = a
        /\ \A i \in 1..Len(u) : t[i + 1] = u[i]
    BY <1>1, SignBefore, SMTT(30) DEF BeginsWith
  <2>2. 1 \in 1..Len(u)
    BY <1>1
  <2> HIDE DEF t
  <2>3. t[1 + 1] = u[1]
    BY <2>1, <2>2
  <2> QED
    BY <1>1, <2>1, <2>3
<1>3. PICK f : ParsesFrom(f, t, u, http)
  BY <1>1, ParsedRest
<1>4. PICK g : Proceeds(g, f, u, http)
  BY <1>1, <1>3, ParsingOfRest DEF ParsesFrom
<1>5. PICK h : Proceeds(h, g, x, http)
  BY <1>0, <1>4, ParsingOfRest DEF Proceeds, rest
<1>6. ParseArgs(x, http) = h[1]
  <2>1. PICK k : IsParsing(k, x, http) /\ ParseArgs(x, http) = k[1]
    BY Parsed
  <2>2. h = k
    BY <1>5, <2>1, OneParsing DEF Proceeds
  <2> QED
    BY <2>1, <2>2
<1> HIDE DEF t
<1>7. h[1] = f[3]
  <2>1. 1 \in 1..Len(x) + 1 /\ 1 + 1 \in 1..Len(u) + 1 /\ (1 + 1) + 1 = 3
    BY <1>1
  <2> QED
    BY <1>4, <1>5, <2>1 DEF Proceeds
<1>8. f[1] = Onward(f, t, http, 1)
  BY <1>1, <1>2, <1>3 DEF IsParsing, ParsesFrom
<1>9. TakesNext(t, 1)
  <2>1. 1 < Len(t)
    BY <1>1, <1>2
  <2> QED
    BY <1>2, <2>1, Zenon DEF TakesNext, Takes
<1>10. WordsAt(t, 1) = <<a, b>> /\ SaidAt(t, 1, http) = Setting(a.opt, AsText(b), http)
  BY <1>2, <1>9 DEF WordsAt, SaidAt
<1>11. ~(1 > Len(t)) /\ 1 + Len(WordsAt(t, 1)) = 3
  <2>1. Len(WordsAt(t, 1)) = 2
    BY <1>9, WordsTaken, Zenon
  <2>2. ~(1 > Len(t)) /\ \A n : n = 2 => 1 + n = 3
    BY <1>1, <1>2
  <2> QED
    BY <2>1, <2>2, Zenon
<1>12. Onward(f, t, http, 1) = Noted(Setting(a.opt, AsText(b), http), <<a, b>>, f[3])
  BY <1>10, <1>11, Zenon DEF Onward
<1> QED
  BY <1>0, <1>3, <1>6, <1>7, <1>8, <1>12 DEF t, rest, ParsesFrom

\* Induction over arguments: what holds of none, of one more that takes none after it,
\* and of two more of which the first takes the second, holds of all.
LEMMA ArgsInduction ==
  ASSUME NEW A, NEW S, NoText \in S,
         \A a \in A, x \in Texts(A) : (~Takes(a) \/ x = NoText) /\ x \in S => Then(Sign(a), x) \in S,
         \A a, b \in A, x \in Texts(A) :
             Takes(a) /\ x \in S => Then(Sign(a), Then(Sign(b), x)) \in S
  PROVE  Texts(A) \subseteq S
<1> DEFINE T == {x \in S : \A a \in A : Then(Sign(a), x) \in S}
<1>1. NoText \in T
  <2>1. NoText \in Texts(A)
    BY ThenIs
  <2> QED
    BY <2>1
<1>2. ASSUME NEW a \in A, NEW x \in Texts(A), x \in T PROVE Then(Sign(a), x) \in T
  <2> DEFINE y == Then(Sign(a), x)
  <2>1. y \in S /\ y \in Texts(A)
    BY <1>2, SignFirst
  <2>2. ASSUME NEW b \in A PROVE Then(Sign(b), y) \in S
    <3>1. CASE Takes(b)
      BY <1>2, <3>1
    <3>2. CASE ~Takes(b)
      <4> HIDE DEF y
      <4> QED
        BY <2>1, <3>2
    <3> QED
      BY <3>1, <3>2
  <2> QED
    BY <2>1, <2>2
<1> HIDE DEF T
<1>3. Texts(A) \subseteq T
  BY <1>1, <1>2, TextInduction
<1> QED
  BY <1>3 DEF T

-----------------------------------------------------------------------------
(* Maps *)

IsMap(f) == f = [x \in DOMAIN f |-> f[x]]
One(k, v) == [key \in {k} |-> v]

LEMMA SameMap ==
  ASSUME NEW f, NEW g, IsMap(f), IsMap(g), DOMAIN f = DOMAIN g, \A x \in DOMAIN f : f[x] = g[x]
  PROVE  f = g
  BY DEF IsMap

Prefers(both, f, g) ==
    /\ IsMap(both) /\ DOMAIN both = DOMAIN f \cup DOMAIN g
    /\ \A x \in DOMAIN f : both[x] = f[x]
    /\ \A x \in DOMAIN g : x \notin DOMAIN f => both[x] = g[x]

LEMMA PrefersIs ==
  ASSUME NEW f, NEW g
  PROVE  Prefers(Preferring(f, g), f, g)
  BY DEF Preferring, IsMap, Prefers

LEMMA OneIs ==
  ASSUME NEW k, NEW v
  PROVE  IsMap(One(k, v)) /\ DOMAIN One(k, v) = {k} /\ One(k, v)[k] = v
  BY DEF One, IsMap

LEMMA PreferringAgain ==
  ASSUME NEW f, NEW g, NEW h
  PROVE  Preferring(Preferring(f, g), h) = Preferring(f, Preferring(g, h))
<1>1. PICK fg : fg = Preferring(f, g) /\ Prefers(fg, f, g)
  BY PrefersIs
<1>2. PICK gh : gh = Preferring(g, h) /\ Prefers(gh, g, h)
  BY PrefersIs
<1>3. PICK left : left = Preferring(fg, h) /\ Prefers(left, fg, h)
  BY PrefersIs
<1>4. PICK right : right = Preferring(f, gh) /\ Prefers(right, f, gh)
  BY PrefersIs
<1>5. /\ IsMap(left) /\ IsMap(right) /\ DOMAIN left = DOMAIN right
      /\ \A x \in DOMAIN left : left[x] = right[x]
  BY <1>1, <1>2, <1>3, <1>4 DEF Prefers
<1>6. left = right
  BY <1>5, SameMap
<1> QED
  BY <1>1, <1>2, <1>3, <1>4, <1>6

LEMMA PreferringNone ==
  ASSUME NEW f, IsMap(f), NEW none, DOMAIN none = {}
  PROVE  Preferring(f, none) = f /\ Preferring(none, f) = f
<1>1. PICK left : left = Preferring(f, none) /\ Prefers(left, f, none)
  BY PrefersIs
<1>2. PICK right : right = Preferring(none, f) /\ Prefers(right, none, f)
  BY PrefersIs
<1>3. IsMap(left) /\ DOMAIN left = DOMAIN f /\ \A x \in DOMAIN left : left[x] = f[x]
  BY <1>1 DEF Prefers
<1>4. IsMap(right) /\ DOMAIN right = DOMAIN f /\ \A x \in DOMAIN right : right[x] = f[x]
  BY <1>2 DEF Prefers
<1>5. left = f
  BY <1>3, SameMap
<1>6. right = f
  BY <1>4, SameMap
<1> QED
  BY <1>1, <1>2, <1>5, <1>6

\* What an option is kept under.
IsKey(key) ==
    \/ \E name : key = <<"header", name>>
    \/ \E name : key = <<"env", name>>
    \/ key \in {<<"cwd">>, <<"timeout">>, <<"auth">>}

Sets(said, key, value) == said = {[key |-> key, value |-> value]}

LEMMA SettingIs ==
  ASSUME NEW opt, NEW text, NEW http
  PROVE  \/ Setting(opt, text, http) = {}
         \/ \E key, value : IsKey(key) /\ Sets(Setting(opt, text, http), key, value)
<1>1. CASE opt = "header"
  BY <1>1, Zenon DEF Setting, IsKey, Sets
<1>2. CASE opt = "env"
  BY <1>2 DEF Setting, IsKey, Sets
<1>3. CASE opt \in {"cwd", "timeout", "auth"}
  BY <1>3 DEF Setting, IsKey, Sets
<1>4. CASE opt \notin {"header", "env", "cwd", "timeout", "auth"}
  BY <1>4 DEF Setting
<1> QED
  BY <1>1, <1>2, <1>3, <1>4

\* Headers are read for a URL only.
LEMMA SettingGrows ==
  ASSUME NEW opt, NEW text
  PROVE  Setting(opt, text, FALSE) \subseteq Setting(opt, text, TRUE)
<1>1. CASE opt = "header"
  <2>1. Setting(opt, text, FALSE) = {}
    BY <1>1 DEF Setting
  <2> QED
    BY <2>1
<1>2. CASE opt # "header"
  BY <1>2 DEF Setting
<1> QED
  BY <1>1, <1>2

LEMMA TheOnly == ASSUME NEW e PROVE The({e}) = e
  BY DEF The

\* What is noted of a setting.
LEMMA NotedIs ==
  ASSUME NEW said, NEW words, NEW later
  PROVE  /\ said = {} => /\ Noted(said, words, later).args = Then(words, later.args)
                         /\ Noted(said, words, later).settings = later.settings
         /\ \A key, value : Sets(said, key, value) =>
                /\ Noted(said, words, later).args = later.args
                /\ Noted(said, words, later).settings = Preferring(later.settings, One(key, value))
<1>1. ASSUME said = {}
      PROVE  /\ Noted(said, words, later).args = Then(words, later.args)
             /\ Noted(said, words, later).settings = later.settings
  BY <1>1 DEF Noted, Then
<1>2. ASSUME NEW key, NEW value, Sets(said, key, value)
      PROVE  /\ Noted(said, words, later).args = later.args
             /\ Noted(said, words, later).settings = Preferring(later.settings, One(key, value))
  <2>1. said # {} /\ The(said).key = key /\ The(said).value = value
    <3>1. The(said) = [key |-> key, value |-> value]
      BY <1>2, TheOnly DEF Sets
    <3> QED
      BY <1>2, <3>1 DEF Sets
  <2> QED
    BY <2>1 DEF Noted, One
<1> QED
  BY <1>1, <1>2

Settings(args, http) == ParseArgs(args, http).settings
IsSettings(settings) == IsMap(settings) /\ \A key \in DOMAIN settings : IsKey(key)
SetsOne(said) == said = {} \/ \E key, value : IsKey(key) /\ Sets(said, key, value)

LEMMA NotedSettings ==
  ASSUME NEW said, SetsOne(said), NEW words, NEW later, IsSettings(later.settings)
  PROVE  /\ IsSettings(Noted(said, words, later).settings)
         /\ \A key : key \in DOMAIN Noted(said, words, later).settings
                <=> key \in DOMAIN later.settings \/ \E s \in said : s.key = key
<1>1. CASE said = {}
  BY <1>1, NotedIs
<1>2. ASSUME NEW key, NEW value, IsKey(key), Sets(said, key, value)
      PROVE  /\ IsSettings(Noted(said, words, later).settings)
             /\ \A k : k \in DOMAIN Noted(said, words, later).settings
                    <=> k \in DOMAIN later.settings \/ \E s \in said : s.key = k
  <2>1. Noted(said, words, later).settings = Preferring(later.settings, One(key, value))
    BY <1>2, NotedIs
  <2>2. /\ IsMap(Preferring(later.settings, One(key, value)))
        /\ DOMAIN Preferring(later.settings, One(key, value)) = DOMAIN later.settings \cup {key}
    <3>1. Prefers(Preferring(later.settings, One(key, value)), later.settings, One(key, value))
      BY PrefersIs
    <3> QED
      BY <3>1, OneIs DEF Prefers
  <2>3. \A k : (\E s \in said : s.key = k) <=> k = key
    BY <1>2 DEF Sets
  <2> QED
    BY <1>2, <2>1, <2>2, <2>3 DEF IsSettings
<1> QED
  BY <1>1, <1>2 DEF SetsOne

LEMMA AloneIs ==
  ASSUME NEW a, NEW http
  PROVE  SetsOne(Alone(a, http)) /\ Alone(a, FALSE) \subseteq Alone(a, TRUE)
  BY SettingIs, SettingGrows DEF SetsOne, Alone

LEMMA SettingsAre ==
  ASSUME NEW A, NEW args \in Texts(A)
  PROVE  /\ \A http : IsSettings(Settings(args, http))
         /\ DOMAIN Settings(args, FALSE) \subseteq DOMAIN Settings(args, TRUE)
<1> DEFINE S == {x \in Texts(A) : /\ \A http : IsSettings(Settings(x, http))
                                  /\ DOMAIN Settings(x, FALSE) \subseteq DOMAIN Settings(x, TRUE)}
<1>1. NoText \in S
  <2>1. \A http : Settings(NoText, http) = <<>>
    BY ParsesNothing DEF Settings, NothingSaid
  <2>2. IsSettings(<<>>)
    BY DEF IsSettings, IsMap
  <2> QED
    BY <2>1, <2>2, ThenIs
<1>2. ASSUME NEW a \in A, NEW x \in Texts(A), ~Takes(a) \/ x = NoText, x \in S
      PROVE  Then(Sign(a), x) \in S
  <2> DEFINE later(http) == ParseArgs(x, http)
             now(http) == ParseArgs(Then(Sign(a), x), http)
  <2>1. ASSUME NEW http
        PROVE  /\ IsSettings(now(http).settings)
               /\ \A key : key \in DOMAIN now(http).settings
                    <=> key \in DOMAIN later(http).settings \/ \E s \in Alone(a, http) : s.key = key
    <3>1. now(http) = Noted(Alone(a, http), Sign(a), later(http))
      BY <1>2, ParsesAlone
    <3>2. SetsOne(Alone(a, http)) /\ IsSettings(later(http).settings)
      BY <1>2, AloneIs DEF Settings
    <3> HIDE DEF later, now
    <3> QED
      BY <3>1, <3>2, NotedSettings
  <2>2. DOMAIN now(FALSE).settings \subseteq DOMAIN now(TRUE).settings
    <3>1. DOMAIN later(FALSE).settings \subseteq DOMAIN later(TRUE).settings
      BY <1>2 DEF Settings
    <3> HIDE DEF later, now
    <3> QED
      BY <2>1, <3>1, AloneIs, ZenonT(60)
  <2>3. Then(Sign(a), x) \in Texts(A)
    BY SignFirst
  <2> QED
    BY <2>1, <2>2, <2>3 DEF Settings
<1>3. ASSUME NEW a \in A, NEW b \in A, NEW x \in Texts(A), Takes(a), x \in S
      PROVE  Then(Sign(a), Then(Sign(b), x)) \in S
  <2> DEFINE later(http) == ParseArgs(x, http)
             now(http) == ParseArgs(Then(Sign(a), Then(Sign(b), x)), http)
             said(http) == Setting(a.opt, AsText(b), http)
  <2>1. ASSUME NEW http
        PROVE  /\ IsSettings(now(http).settings)
               /\ \A key : key \in DOMAIN now(http).settings
                    <=> key \in DOMAIN later(http).settings \/ \E s \in said(http) : s.key = key
    <3>1. now(http) = Noted(said(http), <<a, b>>, later(http))
      BY <1>3, ParsesPair
    <3>2. SetsOne(said(http)) /\ IsSettings(later(http).settings)
      BY <1>3, SettingIs DEF Settings, SetsOne
    <3> HIDE DEF later, now, said
    <3> QED
      BY <3>1, <3>2, NotedSettings
  <2>2. DOMAIN now(FALSE).settings \subseteq DOMAIN now(TRUE).settings
    <3>1. DOMAIN later(FALSE).settings \subseteq DOMAIN later(TRUE).settings
      BY <1>3 DEF Settings
    <3>2. said(FALSE) \subseteq said(TRUE)
      BY SettingGrows
    <3> HIDE DEF later, now, said
    <3> QED
      BY <2>1, <3>1, <3>2
  <2>3. Then(Sign(a), Then(Sign(b), x)) \in Texts(A)
    BY SignFirst
  <2> QED
    BY <2>1, <2>2, <2>3 DEF Settings
<1> HIDE DEF S
<1>4. Texts(A) \subseteq S
  BY <1>1, <1>2, <1>3, ArgsInduction
<1> QED
  BY <1>4 DEF S

-----------------------------------------------------------------------------
(* What is said of a map in front of the arguments *)

LEMMA TextsGrow ==
  ASSUME NEW A, NEW B, A \subseteq B, NEW x \in Texts(A)
  PROVE  x \in Texts(B)
  BY SeqMonotonic DEF Texts

\* The members of a set, one after the other.
LEMMA AllInLine ==
  ASSUME NEW S, IsFiniteSet(S)
  PROVE  /\ SetToSeq(S) \in Texts(S) /\ Signs(SetToSeq(S)) = S
         /\ DOMAIN SetToSeq(S) = 1..Cardinality(S)
<1> DEFINE n == Cardinality(S)
           line == SetToSeq(S)
<1>1. n \in Nat /\ \E f : f \in Injection(1..n, S)
  BY FS_CardinalityType DEF ExistsBijection, Bijection
<1>2. line = CHOOSE f \in [1..n -> S] : IsInjective(f)
  BY DEF SetToSeq
<1>3. line \in [1..n -> S] /\ IsInjective(line)
  BY <1>1, <1>2 DEF Injection
<1> HIDE DEF line
<1>4. line \in Injection(1..n, S)
  BY <1>3 DEF Injection
<1>5. Cardinality(1..n) = n
  BY <1>1, FS_Interval
<1>6. line \in Surjection(1..n, S)
  BY <1>4, <1>5, FS_Injection
<1>7. \A s \in S : \E i \in 1..n : line[i] = s
  BY <1>6 DEF Surjection
<1>8. line \in Seq(S)
  BY <1>1, <1>3, SeqDef
<1>9. DOMAIN line = 1..n /\ Signs(line) = S
  BY <1>3, <1>7 DEF Signs, ToSet
<1> QED
  BY <1>8, <1>9 DEF line, Texts

\* What an option says of a name, and of all of them.
Phrase(opt, map) == [name \in DOMAIN map |-> <<Option(opt), Bare(Pair(name, map[name]))>>]

LEMMA SaidIs ==
  ASSUME NEW opt, NEW map, IsFiniteSet(DOMAIN map)
  PROVE  Said(opt, map) = Pieced(SetToSeq(DOMAIN map), Phrase(opt, map))
<1> DEFINE names == DOMAIN map
           line == SetToSeq(names)
           n == Cardinality(names)
<1>1. line \in Texts(names) /\ DOMAIN line = 1..n
  BY AllInLine
<1>2. \A i \in 1..n : line[i] \in names
  BY <1>1, LenProperties DEF Texts
<1> HIDE DEF line, n
<1>3. [i \in 1..n |-> <<Option(opt), Bare(Pair(line[i], map[line[i]]))>>]
          = [i \in DOMAIN line |-> Phrase(opt, map)[line[i]]]
  BY <1>1, <1>2 DEF Phrase
<1> QED
  BY <1>3 DEF Said, Pieced, line, n

\* The options that are read for what they say.
Sayable(opt, map, http) ==
    \/ opt = "env"
    \/ opt = "header" /\ \A name \in DOMAIN map : http /\ map[name] # ""

LEMMA SaidSets ==
  ASSUME NEW opt, NEW map, NEW http, Sayable(opt, map, http), NEW name \in DOMAIN map
  PROVE  /\ Takes(Option(opt))
         /\ Sets(Setting(Option(opt).opt, AsText(Bare(Pair(name, map[name]))), http),
                  <<opt, name>>, Interpolate(map[name]))
<1>1. opt # "" /\ Takes(Option(opt)) /\ Option(opt).opt = opt
  BY DEF Takes, Option, Sayable
<1>2. AsText(Bare(Pair(name, map[name]))) = [kind |-> "pair", name |-> name, value |-> map[name]]
  BY DEF AsText, Bare, Pair
<1>3. CASE opt = "env"
  BY <1>1, <1>2, <1>3 DEF Setting, Sets
<1>4. CASE opt = "header" /\ http /\ map[name] # ""
  <2> DEFINE text == [kind |-> "pair", name |-> name, value |-> map[name]]
  <2>1. text.kind = "pair" /\ text.name = name /\ text.value = map[name]
    OBVIOUS
  <2> HIDE DEF text
  <2>2. http /\ text.kind = "pair" /\ text.value # ""
    BY <1>4, <2>1
  <2>3. Setting(opt, text, http) = {[key |-> <<opt, text.name>>, value |-> Interpolate(text.value)]}
    BY <1>4, <2>2, Zenon DEF Setting
  <2> QED
    BY <1>1, <1>2, <2>1, <2>3 DEF Sets, text
<1> QED
  BY <1>3, <1>4 DEF Sayable

KeyedOf(opt, map, names) == [key \in {<<opt, name>> : name \in names} |-> Interpolate(map[key[2]])]

LEMMA KeyedIs ==
  ASSUME NEW opt, NEW map, NEW names
  PROVE  /\ IsMap(KeyedOf(opt, map, names))
         /\ \A key : key \in DOMAIN KeyedOf(opt, map, names) <=> \E name \in names : key = <<opt, name>>
         /\ \A name \in names : KeyedOf(opt, map, names)[<<opt, name>>] = Interpolate(map[name])
<1> DEFINE keys == {<<opt, name>> : name \in names}
           m == KeyedOf(opt, map, names)
<1>1. m = [key \in keys |-> Interpolate(map[key[2]])]
  BY DEF KeyedOf
<1>2. \A key : key \in keys <=> \E name \in names : key = <<opt, name>>
  OBVIOUS
<1>3. \A name : <<opt, name>>[2] = name
  OBVIOUS
<1> HIDE DEF keys, m
<1>4. DOMAIN m = keys /\ \A key \in keys : m[key] = Interpolate(map[key[2]])
  BY <1>1
<1>5. ASSUME NEW name \in names PROVE m[<<opt, name>>] = Interpolate(map[name])
  <2>1. <<opt, name>> \in keys
    BY <1>2
  <2>2. m[<<opt, name>>] = Interpolate(map[<<opt, name>>[2]])
    BY <1>4, <2>1
  <2> QED
    BY <1>3, <2>2
<1>6. IsMap(m)
  BY <1>1, <1>4 DEF IsMap
<1> QED
  BY <1>2, <1>4, <1>5, <1>6 DEF m

\* One name more.
LEMMA KeyedMore ==
  ASSUME NEW opt, NEW map, NEW names, NEW more
  PROVE  Preferring(KeyedOf(opt, map, names), One(<<opt, more>>, Interpolate(map[more])))
             = KeyedOf(opt, map, {more} \cup names)
<1>1. PICK few : /\ few = KeyedOf(opt, map, names) /\ IsMap(few)
                 /\ \A key : key \in DOMAIN few <=> \E name \in names : key = <<opt, name>>
                 /\ \A name \in names : few[<<opt, name>>] = Interpolate(map[name])
  BY KeyedIs
<1>2. PICK many : /\ many = KeyedOf(opt, map, {more} \cup names) /\ IsMap(many)
                  /\ \A key : key \in DOMAIN many <=> \E name \in {more} \cup names : key = <<opt, name>>
                  /\ \A name \in {more} \cup names : many[<<opt, name>>] = Interpolate(map[name])
  BY KeyedIs
<1>3. PICK one : one = One(<<opt, more>>, Interpolate(map[more])) /\ IsMap(one)
                 /\ DOMAIN one = {<<opt, more>>} /\ one[<<opt, more>>] = Interpolate(map[more])
  BY OneIs
<1>4. PICK both : both = Preferring(few, one) /\ Prefers(both, few, one)
  BY PrefersIs
<1>5. ASSUME NEW key PROVE key \in DOMAIN both <=> key \in DOMAIN many
  BY <1>1, <1>2, <1>3, <1>4 DEF Prefers
<1>6. ASSUME NEW key \in DOMAIN many PROVE both[key] = many[key]
  <2>1. PICK name \in {more} \cup names : key = <<opt, name>>
    BY <1>2
  <2>2. many[key] = Interpolate(map[name])
    BY <1>2, <2>1
  <2>3. CASE name \in names
    BY <1>1, <1>4, <2>1, <2>2, <2>3 DEF Prefers
  <2>4. CASE name = more /\ name \notin names
    <3>1. key \notin DOMAIN few
      BY <1>1, <2>1, <2>4
    <3> QED
      BY <1>3, <1>4, <2>1, <2>2, <2>4, <3>1 DEF Prefers
  <2> QED
    BY <2>1, <2>3, <2>4
<1>7. IsMap(both)
  BY <1>4 DEF Prefers
<1>8. DOMAIN both = DOMAIN many
  BY <1>5
<1>9. both = many
  BY <1>2, <1>6, <1>7, <1>8, SameMap
<1> QED
  BY <1>1, <1>2, <1>3, <1>4, <1>9

\* What comes of args when `said` is said in front of it.
Adds(args, longer, said, http) ==
    /\ ParseArgs(longer, http).args = ParseArgs(args, http).args
    /\ Settings(longer, http) = Preferring(Settings(args, http), said)

WordsWithin(B, opt, map) == \A name \in DOMAIN map : {Option(opt), Bare(Pair(name, map[name]))} \subseteq B

LEMMA PhraseIs ==
  ASSUME NEW B, NEW opt, NEW map, WordsWithin(B, opt, map)
  PROVE  /\ Phrase(opt, map) \in [DOMAIN map -> Texts(B)]
         /\ \A name \in DOMAIN map :
                Phrase(opt, map)[name] = Then(Sign(Option(opt)), Sign(Bare(Pair(name, map[name]))))
<1>1. ASSUME NEW name \in DOMAIN map
      PROVE  /\ Phrase(opt, map)[name] = Then(Sign(Option(opt)), Sign(Bare(Pair(name, map[name]))))
             /\ Phrase(opt, map)[name] \in Texts(B)
  <2> DEFINE a == Option(opt)
             b == Bare(Pair(name, map[name]))
  <2>1. a \in B /\ b \in B
    BY DEF WordsWithin
  <2>2. Phrase(opt, map)[name] = <<a, b>>
    BY DEF Phrase
  <2> HIDE DEF a, b
  <2>3. <<a, b>> = Then(Sign(a), Sign(b)) /\ Sign(b) \in Texts(B)
    BY <2>1, TwoSigns, OneSign
  <2>4. Then(Sign(a), Sign(b)) \in Texts(B)
    BY <2>1, <2>3, SignFirst
  <2> QED
    BY <2>2, <2>3, <2>4 DEF a, b
<1> QED
  BY <1>1 DEF Phrase

\* One name more is one setting more.
LEMMA PhraseAdds ==
  ASSUME NEW B, NEW opt, NEW map, NEW http, Sayable(opt, map, http), WordsWithin(B, opt, map),
         NEW name \in DOMAIN map, NEW names, NEW args \in Texts(B), NEW longer \in Texts(B),
         Adds(args, longer, KeyedOf(opt, map, names), http)
  PROVE  Adds(args, Then(Sign(Option(opt)), Then(Sign(Bare(Pair(name, map[name]))), longer)),
              KeyedOf(opt, map, {name} \cup names), http)
<1> DEFINE a == Option(opt)
           b == Bare(Pair(name, map[name]))
           later == ParseArgs(longer, http)
           said == Setting(a.opt, AsText(b), http)
           now == ParseArgs(Then(Sign(a), Then(Sign(b), longer)), http)
           m == KeyedOf(opt, map, names)
           one == One(<<opt, name>>, Interpolate(map[name]))
<1>1. a \in B /\ b \in B /\ Takes(a) /\ Sets(said, <<opt, name>>, Interpolate(map[name]))
  BY SaidSets DEF WordsWithin
<1>2. now = Noted(said, <<a, b>>, later)
  <2> HIDE DEF a, b
  <2> QED
    BY <1>1, ParsesPair
<1> HIDE DEF said, a, b
<1>3. now.args = later.args /\ now.settings = Preferring(later.settings, one)
  <2> HIDE DEF now, later
  <2> QED
    BY <1>1, <1>2, NotedIs
<1>4. later.args = ParseArgs(args, http).args /\ later.settings = Preferring(Settings(args, http), m)
  BY DEF Adds, Settings
<1>5. Preferring(m, one) = KeyedOf(opt, map, {name} \cup names)
  BY KeyedMore
<1> HIDE DEF now, later, m, one
<1>6. now.settings = Preferring(Settings(args, http), KeyedOf(opt, map, {name} \cup names))
  BY <1>3, <1>4, <1>5, PreferringAgain
<1> QED
  BY <1>3, <1>4, <1>6 DEF Adds, Settings, now, a, b

LEMMA PhrasesAdd ==
  ASSUME NEW B, NEW opt, NEW map, NEW http, Sayable(opt, map, http), WordsWithin(B, opt, map),
         NEW args \in Texts(B), NEW names \in Texts(DOMAIN map)
  PROVE  /\ Pieced(names, Phrase(opt, map)) \in Texts(B)
         /\ Adds(args, Then(Pieced(names, Phrase(opt, map)), args),
                 KeyedOf(opt, map, Signs(names)), http)
<1> DEFINE piece == Phrase(opt, map)
           N == DOMAIN map
           S == {x \in Texts(N) : /\ Pieced(x, piece) \in Texts(B)
                                  /\ Adds(args, Then(Pieced(x, piece), args),
                                          KeyedOf(opt, map, Signs(x)), http)}
<1>0. /\ piece \in [N -> Texts(B)]
      /\ \A name \in N : piece[name] = Then(Sign(Option(opt)), Sign(Bare(Pair(name, map[name]))))
  BY PhraseIs
<1> HIDE DEF piece
<1>1. NoText \in S
  <2>1. NoText \in Texts(N) /\ NoText \in Texts(B) /\ Then(NoText, args) = args /\ Signs(NoText) = {}
    BY ThenIs, NoSigns
  <2>2. Pieced(NoText, piece) = NoText
    <3>1. [i \in DOMAIN NoText |-> piece[NoText[i]]] \in [1..0 -> Texts(B)]
      BY DEF NoText
    <3>2. [i \in 1..1 |-> NoText] \in [1..1 -> Texts(B)]
      BY <2>1
    <3> QED
      BY <3>1, <3>2, FlatOne DEF Pieced
  <2>3. IsMap(KeyedOf(opt, map, {})) /\ DOMAIN KeyedOf(opt, map, {}) = {}
    BY KeyedIs
  <2>4. IsMap(Settings(args, http))
    BY SettingsAre DEF IsSettings
  <2>5. Preferring(Settings(args, http), KeyedOf(opt, map, {})) = Settings(args, http)
    BY <2>3, <2>4, PreferringNone
  <2>6. Adds(args, args, KeyedOf(opt, map, {}), http)
    BY <2>5 DEF Adds
  <2> QED
    BY <2>1, <2>2, <2>6
<1>2. ASSUME NEW name \in N, NEW x \in Texts(N), x \in S PROVE Then(Sign(name), x) \in S
  <2> DEFINE rest == Pieced(x, piece)
             a == Option(opt)
             b == Bare(Pair(name, map[name]))
             all == Pieced(Then(Sign(name), x), piece)
  <2>1. Sign(name) \in Texts(N) /\ Then(Sign(name), x) \in Texts(N)
        /\ Signs(Then(Sign(name), x)) = {name} \cup Signs(x)
    BY OneSign, SignFirst
  <2>2. all = Then(Then(Sign(a), Sign(b)), rest)
    <3>1. Pieced(Sign(name), piece) = piece[name]
      BY <1>0, <2>1, PiecedIs
    <3>2. all = Then(Pieced(Sign(name), piece), rest)
      BY <1>0, <2>1, PiecedIs
    <3> QED
      BY <1>0, <3>1, <3>2
  <2>3. a \in B /\ b \in B
    BY DEF WordsWithin
  <2>4. rest \in Texts(B) /\ Adds(args, Then(rest, args), KeyedOf(opt, map, Signs(x)), http)
    BY <1>2
  <2>5. Then(rest, args) \in Texts(B)
    BY <2>4, ThenIs
  <2>6. Adds(args, Then(Sign(a), Then(Sign(b), Then(rest, args))),
             KeyedOf(opt, map, {name} \cup Signs(x)), http)
    BY <2>4, <2>5, PhraseAdds
  <2> HIDE DEF a, b, rest, all
  <2>7. Sign(a) \in Texts(B) /\ Sign(b) \in Texts(B)
    BY <2>3, OneSign
  <2>8. all = Then(Sign(a), Then(Sign(b), rest))
    BY <2>2, <2>4, <2>7, ThenAssociative
  <2>9. Then(Sign(b), rest) \in Texts(B)
    BY <2>4, <2>7, ThenIs
  <2>10. all \in Texts(B) /\ Then(all, args) = Then(Sign(a), Then(Then(Sign(b), rest), args))
    BY <2>7, <2>8, <2>9, ThenIs, ThenAssociative
  <2>11. Then(Then(Sign(b), rest), args) = Then(Sign(b), Then(rest, args))
    BY <2>4, <2>7, ThenAssociative
  <2>12. all \in Texts(B) /\ Adds(args, Then(all, args), KeyedOf(opt, map, {name} \cup Signs(x)), http)
    BY <2>6, <2>10, <2>11
  <2> QED
    BY <2>1, <2>12 DEF all
<1> HIDE DEF S, N
<1>3. Texts(N) \subseteq S
  BY <1>1, <1>2, TextInduction
<1> QED
  BY <1>3 DEF S, N, piece

LEMMA SaidAdds ==
  ASSUME NEW A, NEW opt, NEW map, NEW http, Sayable(opt, map, http), IsFiniteSet(DOMAIN map),
         NEW args \in Texts(A)
  PROVE  \E B : /\ A \subseteq B
                /\ Said(opt, map) \in Texts(B) /\ Said(opt, map) \o args \in Texts(B)
                /\ Adds(args, Said(opt, map) \o args, Keyed(opt, map), http)
<1> DEFINE B == A \cup UNION {{Option(opt), Bare(Pair(name, map[name]))} : name \in DOMAIN map}
           names == SetToSeq(DOMAIN map)
<1>1. A \subseteq B /\ WordsWithin(B, opt, map)
  BY DEF WordsWithin
<1> HIDE DEF B
<1>2. args \in Texts(B)
  BY <1>1, TextsGrow
<1>3. names \in Texts(DOMAIN map) /\ Signs(names) = DOMAIN map
  BY AllInLine
<1> HIDE DEF names
<1>4. /\ Pieced(names, Phrase(opt, map)) \in Texts(B)
      /\ Adds(args, Then(Pieced(names, Phrase(opt, map)), args), KeyedOf(opt, map, DOMAIN map), http)
  BY <1>1, <1>2, <1>3, PhrasesAdd
<1>5. Said(opt, map) = Pieced(names, Phrase(opt, map))
  BY SaidIs DEF names
<1>6. KeyedOf(opt, map, DOMAIN map) = Keyed(opt, map)
  BY DEF KeyedOf, Keyed
<1>7. Said(opt, map) \o args = Then(Pieced(names, Phrase(opt, map)), args)
  BY <1>5 DEF Then
<1>8. Said(opt, map) \in Texts(B) /\ Said(opt, map) \o args \in Texts(B)
  BY <1>2, <1>4, <1>5, <1>7, ThenIs
<1> QED
  BY <1>1, <1>4, <1>6, <1>7, <1>8

-----------------------------------------------------------------------------
(* Backends *)

BackendOf(target, args, settings, provider, app) ==
    [target |-> target, args |-> args, settings |-> settings, provider |-> provider, app |-> app]

\* A backend without a provider, whatever its app, and one with.
Described(b, target, args, settings) == \E app : b = BackendOf(target, args, settings, FALSE, app)
WithProvider(b, target, args, settings) ==
    b.target = target /\ b.args = args /\ b.settings = settings /\ b.provider = TRUE

LEMMA DescribedIs ==
  ASSUME NEW b, NEW target, NEW args, NEW settings, Described(b, target, args, settings)
  PROVE  b.target = target /\ b.args = args /\ b.settings = settings /\ b.provider = FALSE
  BY DEF Described, BackendOf

LEMMA NewIs ==
  ASSUME NEW target, NEW args
  PROVE  Described(New(target, args), target, ParseArgs(args, target.http).args,
                   Settings(args, target.http))
<1>1. New(target, args) = BackendOf(target, ParseArgs(args, target.http).args,
                                  Settings(args, target.http), FALSE, {})
  BY DEF New, BackendOf, Settings
<1> QED
  BY <1>1 DEF Described

LEMMA AppAdded ==
  ASSUME NEW b, NEW target, NEW args, NEW settings, Described(b, target, args, settings), NEW other
  PROVE  Described(WithApp(b, other), target, args, settings)
<1>1. PICK app, no : no = FALSE /\ b = BackendOf(target, args, settings, no, app)
  BY Zenon DEF Described
<1>2. b = BackendOf(target, args, settings, no, app)
  BY <1>1
<1>3. WithApp(b, other) = BackendOf(target, args, settings, no, other)
  BY <1>2 DEF WithApp, BackendOf
<1> QED
  BY <1>1, <1>3, Zenon DEF Described

WithSettings(b, settings) == [b EXCEPT !.settings = settings]

LEMMA SettingsChanged ==
  ASSUME NEW b, NEW target, NEW args, NEW settings, Described(b, target, args, settings), NEW other
  PROVE  Described(WithSettings(b, other), target, args, other)
<1>1. PICK app, no : no = FALSE /\ b = BackendOf(target, args, settings, no, app)
  BY Zenon DEF Described
<1>2. b = BackendOf(target, args, settings, no, app)
  BY <1>1
<1>3. WithSettings(b, other) = BackendOf(target, args, other, no, app)
  BY <1>2 DEF WithSettings, BackendOf
<1> QED
  BY <1>1, <1>3, Zenon DEF Described

\* A provider's headers are meant to be sent.
NotLoggedIn == One(<<"auth">>, "explicit-headers")

LEMMA ProviderAdded ==
  ASSUME NEW b, NEW target, NEW args, NEW settings, Described(b, target, args, settings)
  PROVE  WithProvider(WithHeaderProvider(b), target, args, Preferring(NotLoggedIn, settings))
<1>1. PICK app : b = BackendOf(target, args, settings, FALSE, app)
  BY DEF Described
<1> DEFINE s == Preferring(NotLoggedIn, settings)
           asked == [b EXCEPT !.provider = TRUE]
<1>2. WithHeaderProvider(b) = [asked EXCEPT !.settings = Preferring(NotLoggedIn, @)]
  BY DEF WithHeaderProvider, NotLoggedIn, One
<1>3. asked.target = target /\ asked.args = args /\ asked.settings = settings /\ asked.provider = TRUE
      /\ DOMAIN asked = {"target", "args", "settings", "provider", "app"}
  BY <1>1 DEF BackendOf
<1> HIDE DEF asked
<1>4. [asked EXCEPT !.settings = Preferring(NotLoggedIn, @)] = WithSettings(asked, s)
  BY <1>3 DEF WithSettings
<1> HIDE DEF s
<1>5. WithProvider(WithSettings(asked, s), target, args, s)
  BY <1>3 DEF WithSettings, WithProvider
<1> QED
  BY <1>2, <1>4, <1>5 DEF s

\* Two settings say the same of a key.
AgreeAt(s, t, key) == (key \in DOMAIN s <=> key \in DOMAIN t) /\ (key \in DOMAIN s => s[key] = t[key])
AgreeOn(s, t, opt) == \A name : AgreeAt(s, t, <<opt, name>>)
AgreeButAuth(s, t) == \A key : key # <<"auth">> => AgreeAt(s, t, key)

LEMMA MapIs ==
  ASSUME NEW b, IsSettings(b.settings), NEW opt \in {"header", "env"}
  PROVE  /\ IsMap(Map(b, opt))
         /\ \A name : name \in DOMAIN Map(b, opt) <=> <<opt, name>> \in DOMAIN b.settings
         /\ \A name \in DOMAIN Map(b, opt) : Map(b, opt)[name] = b.settings[<<opt, name>>]
         /\ \A name : name \in NamesOf(b, opt) <=> <<opt, name>> \in DOMAIN b.settings
<1>1. ASSUME NEW name PROVE name \in NamesOf(b, opt) <=> <<opt, name>> \in DOMAIN b.settings
  <2>1. ASSUME <<opt, name>> \in DOMAIN b.settings PROVE name \in NamesOf(b, opt)
    <3>1. <<opt, name>>[1] = opt /\ <<opt, name>>[2] = name
      OBVIOUS
    <3> QED
      BY <2>1, <3>1 DEF NamesOf
  <2>2. ASSUME name \in NamesOf(b, opt) PROVE <<opt, name>> \in DOMAIN b.settings
    <3>1. PICK key \in DOMAIN b.settings : key[1] = opt /\ key[2] = name
      BY <2>2 DEF NamesOf
    <3>2. IsKey(key)
      BY DEF IsSettings
    <3>3. key = <<opt, name>>
      BY <3>1, <3>2 DEF IsKey
    <3> QED
      BY <3>3
  <2> QED
    BY <2>1, <2>2
<1>2. Map(b, opt) = [name \in NamesOf(b, opt) |-> b.settings[<<opt, name>>]]
  BY DEF Map
<1>3. DOMAIN Map(b, opt) = NamesOf(b, opt) /\ IsMap(Map(b, opt))
      /\ \A name \in NamesOf(b, opt) : Map(b, opt)[name] = b.settings[<<opt, name>>]
  BY <1>2 DEF IsMap
<1> QED
  BY <1>1, <1>3

LEMMA SameMaps ==
  ASSUME NEW b, NEW c, IsSettings(b.settings), IsSettings(c.settings), NEW opt \in {"header", "env"},
         AgreeOn(b.settings, c.settings, opt)
  PROVE  Map(b, opt) = Map(c, opt) /\ NamesOf(b, opt) = NamesOf(c, opt)
<1>1. \A name : AgreeAt(b.settings, c.settings, <<opt, name>>)
  BY DEF AgreeOn
<1>2. PICK f : /\ f = Map(b, opt) /\ IsMap(f)
               /\ \A name : name \in DOMAIN f <=> <<opt, name>> \in DOMAIN b.settings
               /\ \A name \in DOMAIN f : f[name] = b.settings[<<opt, name>>]
  BY MapIs
<1>3. PICK g : /\ g = Map(c, opt) /\ IsMap(g)
               /\ \A name : name \in DOMAIN g <=> <<opt, name>> \in DOMAIN c.settings
               /\ \A name \in DOMAIN g : g[name] = c.settings[<<opt, name>>]
  BY MapIs
<1>4. DOMAIN f = DOMAIN g /\ \A name \in DOMAIN f : f[name] = g[name]
  BY <1>1, <1>2, <1>3 DEF AgreeAt
<1>5. f = g
  BY <1>2, <1>3, <1>4, SameMap
<1>6. \A name : name \in NamesOf(b, opt) <=> name \in NamesOf(c, opt)
  BY <1>1, MapIs DEF AgreeAt
<1> QED
  BY <1>2, <1>3, <1>5, <1>6

\* What a connection is made with depends on the settings only.
LimitsOf(s) ==
    [key \in DOMAIN s \ ({<<"auth">>} \cup {k \in DOMAIN s : k[1] \in {"env", "header"}}) |-> s[key]]

LEMMA SameLimits ==
  ASSUME NEW s, NEW t, AgreeButAuth(s, t)
  PROVE  LimitsOf(s) = LimitsOf(t)
<1> DEFINE few(r) == DOMAIN r \ ({<<"auth">>} \cup {k \in DOMAIN r : k[1] \in {"env", "header"}})
<1>1. \A key : key \in few(s) => key # <<"auth">> /\ key \in DOMAIN s
  OBVIOUS
<1>2. few(s) = few(t)
  BY DEF AgreeButAuth, AgreeAt
<1>3. \A key \in few(s) : s[key] = t[key]
  BY <1>1 DEF AgreeButAuth, AgreeAt
<1>4. LimitsOf(s) = [key \in few(s) |-> s[key]] /\ LimitsOf(t) = [key \in few(t) |-> t[key]]
  BY DEF LimitsOf
<1> HIDE DEF few
<1> QED
  BY <1>2, <1>3, <1>4

Link(target, args, env, limits, headers, oauth) ==
    [target |-> target, refused |-> target.http /\ args # <<>>, args |-> args,
     env |-> env, limits |-> limits, headers |-> headers, oauth |-> oauth]

NoLogin(c) == [c EXCEPT !.oauth = FALSE]

LEMMA LinkIs ==
  ASSUME NEW target, NEW args, NEW env, NEW limits, NEW headers, NEW oauth
  PROVE  NoLogin(Link(target, args, env, limits, headers, oauth))
             = Link(target, args, env, limits, headers, FALSE)
<1>1. PICK no : no = (target.http /\ args # <<>>)
  OBVIOUS
<1>2. Link(target, args, env, limits, headers, oauth)
          = [target |-> target, refused |-> no, args |-> args,
             env |-> env, limits |-> limits, headers |-> headers, oauth |-> oauth]
  BY <1>1, Zenon DEF Link
<1>3. PICK other : other = FALSE
  OBVIOUS
<1>4. Link(target, args, env, limits, headers, other)
          = [target |-> target, refused |-> no, args |-> args,
             env |-> env, limits |-> limits, headers |-> headers, oauth |-> other]
  BY <1>1, Zenon DEF Link
<1>5. [Link(target, args, env, limits, headers, oauth) EXCEPT !.oauth = other]
          = Link(target, args, env, limits, headers, other)
  BY <1>2, <1>4
<1> QED
  BY <1>3, <1>5, Zenon DEF NoLogin

LEMMA ConnectionIs ==
  ASSUME NEW b, NEW provided
  PROVE  Connection(b, provided)
             = Link(b.target, b.args, Map(b, "env"), LimitsOf(b.settings),
                    IF b.target.http THEN WireHeaders(b, provided) ELSE {}, ShouldUseOAuth(b))
  BY Zenon DEF Connection, Link, LimitsOf

LEMMA SameConnection ==
  ASSUME NEW target, NEW args, NEW s, NEW t, NEW provided,
         IsSettings(s), IsSettings(t), AgreeButAuth(s, t),
         NEW b, Described(b, target, args, s), NEW c, Described(c, target, args, t)
  PROVE  /\ NoLogin(Connection(b, provided)) = NoLogin(Connection(c, provided))
         /\ ShouldUseOAuth(b) = ShouldUseOAuth(c) => Connection(b, provided) = Connection(c, provided)
<1>1. /\ b.target = target /\ b.args = args /\ b.settings = s /\ b.provider = FALSE
      /\ c.target = target /\ c.args = args /\ c.settings = t /\ c.provider = FALSE
  BY DescribedIs
<1>2. AgreeOn(s, t, "env") /\ AgreeOn(s, t, "header")
  <2>1. \A name : <<"env", name>> # <<"auth">> /\ <<"header", name>> # <<"auth">>
    OBVIOUS
  <2> QED
    BY <2>1 DEF AgreeButAuth, AgreeOn
<1>3. Map(b, "env") = Map(c, "env") /\ Map(b, "header") = Map(c, "header")
  BY <1>1, <1>2, SameMaps
<1>4. WireHeaders(b, provided) = WireHeaders(c, provided)
  BY <1>1, <1>3 DEF WireHeaders
<1>5. LimitsOf(s) = LimitsOf(t)
  BY SameLimits
<1> DEFINE hb == IF target.http THEN WireHeaders(b, provided) ELSE {}
           hc == IF target.http THEN WireHeaders(c, provided) ELSE {}
<1>6. hb = hc
  BY <1>4
<1>7. Connection(b, provided) = Link(target, args, Map(b, "env"), LimitsOf(s), hb, ShouldUseOAuth(b))
  BY <1>1, ConnectionIs, Zenon
<1>8. Connection(c, provided) = Link(target, args, Map(c, "env"), LimitsOf(t), hc, ShouldUseOAuth(c))
  BY <1>1, ConnectionIs, Zenon
<1> HIDE DEF hb, hc
<1>9. /\ NoLogin(Connection(b, provided)) = Link(target, args, Map(b, "env"), LimitsOf(s), hb, FALSE)
      /\ NoLogin(Connection(c, provided)) = Link(target, args, Map(c, "env"), LimitsOf(t), hc, FALSE)
  BY <1>7, <1>8, LinkIs
<1>10. NoLogin(Connection(b, provided)) = NoLogin(Connection(c, provided))
  BY <1>3, <1>5, <1>6, <1>9
<1>11. ASSUME ShouldUseOAuth(b) = ShouldUseOAuth(c) PROVE Connection(b, provided) = Connection(c, provided)
  BY <1>3, <1>5, <1>6, <1>7, <1>8, <1>11
<1> QED
  BY <1>10, <1>11

\* Two maps said one before the other, as on the command line.
LEMMA BothAdd ==
  ASSUME NEW A, NEW env, IsFiniteSet(DOMAIN env), NEW headers, IsFiniteSet(DOMAIN headers),
         NEW http, Sayable("header", headers, http), NEW args \in Texts(A)
  PROVE  LET all == Said("env", env) \o Said("header", headers) \o args
         IN /\ ParseArgs(all, http).args = ParseArgs(args, http).args
            /\ Settings(all, http) = Preferring(Settings(args, http),
                                         Preferring(Keyed("header", headers), Keyed("env", env)))
<1> DEFINE h == Said("header", headers)
           e == Said("env", env)
           kh == Keyed("header", headers)
           ke == Keyed("env", env)
<1>1. PICK B : /\ A \subseteq B /\ h \in Texts(B) /\ h \o args \in Texts(B)
               /\ Adds(args, h \o args, kh, http)
  BY SaidAdds
<1>2. Sayable("env", env, http)
  BY DEF Sayable
<1>3. PICK C : /\ B \subseteq C /\ e \in Texts(C)
               /\ Adds(h \o args, e \o (h \o args), ke, http)
  BY <1>1, <1>2, SaidAdds
<1>4. h \in Texts(C) /\ args \in Texts(C)
  <2>1. A \subseteq C
    BY <1>1, <1>3
  <2> QED
    BY <1>1, <1>3, <2>1, TextsGrow
<1> HIDE DEF h, e, kh, ke
<1>5. e \o h \o args = e \o (h \o args)
  BY <1>3, <1>4, ThenAssociative DEF Then
<1>6. Settings(e \o h \o args, http) = Preferring(Preferring(Settings(args, http), kh), ke)
  BY <1>1, <1>3, <1>5 DEF Adds
<1>7. ParseArgs(e \o h \o args, http).args = ParseArgs(args, http).args
  BY <1>1, <1>3, <1>5 DEF Adds
<1> QED
  BY <1>6, <1>7, PreferringAgain DEF h, e, kh, ke

\* Headers said in front, and that they are meant to be sent, as the SDKs do.

LEMMA ExplicitAdds ==
  ASSUME NEW A, NEW args \in Texts(A), NEW http
  PROVE  LET said == <<Option("auth"), Bare(ModeText("explicit-headers"))>>
         IN \E B : A \subseteq B /\ said \in Texts(B) /\ said \o args \in Texts(B)
                   /\ Adds(args, said \o args, NotLoggedIn, http)
<1> DEFINE a == Option("auth")
           b == Bare(ModeText("explicit-headers"))
           B == A \cup {a, b}
           said == <<a, b>>
           setting == Setting(a.opt, AsText(b), http)
<1>1. A \subseteq B /\ a \in B /\ b \in B
  OBVIOUS
<1>2. Takes(a) /\ Sets(setting, <<"auth">>, "explicit-headers")
  <2>1. Takes(a) /\ a.opt = "auth" /\ AsText(b) = ModeText("explicit-headers")
    BY DEF Takes, Option, AsText, Bare
  <2> HIDE DEF a, b
  <2>2. /\ ModeText("explicit-headers").kind = "mode"
        /\ ModeText("explicit-headers").value = "explicit-headers"
    BY DEF ModeText
  <2>3. setting = {[key |-> <<"auth">>, value |-> "explicit-headers"]}
    BY <2>1, <2>2 DEF Setting
  <2> QED
    BY <2>1, <2>3 DEF Sets
<1> HIDE DEF a, b, B, setting
<1>3. args \in Texts(B)
  BY <1>1, TextsGrow
<1>4. said = Then(Sign(a), Sign(b)) /\ Sign(a) \in Texts(B) /\ Sign(b) \in Texts(B)
  BY <1>1, TwoSigns, OneSign
<1> HIDE DEF said
<1>5. said \in Texts(B) /\ Then(said, args) = Then(Sign(a), Then(Sign(b), args))
  BY <1>3, <1>4, ThenIs, ThenAssociative
<1>6. Then(said, args) \in Texts(B)
  BY <1>3, <1>5, ThenIs
<1> DEFINE later == ParseArgs(args, http)
           now == ParseArgs(Then(said, args), http)
<1>7. now = Noted(setting, <<a, b>>, later)
  BY <1>1, <1>2, <1>3, <1>5, ParsesPair DEF setting
<1>8. now.args = later.args /\ now.settings = Preferring(later.settings, NotLoggedIn)
  <2> HIDE DEF now, later
  <2> QED
    BY <1>2, <1>7, NotedIs DEF NotLoggedIn
<1>9. Adds(args, Then(said, args), NotLoggedIn, http)
  BY <1>8 DEF Adds, Settings
<1> QED
  BY <1>1, <1>5, <1>6, <1>9 DEF Then, said, a, b

\* The settings of an SDK are those of the arguments and the headers; unless something
\* was said of a login, it says itself that there is none.
SaysItself(args, own, headers) ==
    headers # <<>> /\ Option("auth") \notin Range(args) /\ <<"auth">> \notin DOMAIN own
SdkSays(s, own, headers, itself) ==
    /\ IsSettings(s)
    /\ AgreeButAuth(s, Preferring(own, Keyed("header", headers)))
    /\ IF itself THEN <<"auth">> \in DOMAIN s /\ s[<<"auth">>] = "explicit-headers"
       ELSE AgreeAt(s, own, <<"auth">>)

LEMMA KeyedKeys ==
  ASSUME NEW opt, NEW map
  PROVE  /\ IsMap(Keyed(opt, map))
         /\ \A key : key \in DOMAIN Keyed(opt, map) <=> \E name \in DOMAIN map : key = <<opt, name>>
         /\ \A name \in DOMAIN map : Keyed(opt, map)[<<opt, name>>] = Interpolate(map[name])
<1>1. Keyed(opt, map) = KeyedOf(opt, map, DOMAIN map)
  BY DEF Keyed, KeyedOf
<1> QED
  BY <1>1, KeyedIs

\* Settings and a map are settings.
LEMMA SettingsGrow ==
  ASSUME NEW own, IsSettings(own), NEW more, IsSettings(more)
  PROVE  IsSettings(Preferring(own, more))
<1>1. Prefers(Preferring(own, more), own, more)
  BY PrefersIs
<1> QED
  BY <1>1 DEF Prefers, IsSettings

LEMMA KeyedSettings ==
  ASSUME NEW opt \in {"env", "header"}, NEW map
  PROVE  IsSettings(Keyed(opt, map))
  BY KeyedKeys DEF IsSettings, IsKey

LEMMA HeaderArgsAre ==
  ASSUME NEW A, NEW args \in Texts(A), NEW headers, IsFiniteSet(DOMAIN headers),
         NEW http, Sayable("header", headers, http)
  PROVE  /\ ParseArgs(HeaderArgs(headers, args), http).args = ParseArgs(args, http).args
         /\ SdkSays(Settings(HeaderArgs(headers, args), http), Settings(args, http), headers,
                    SaysItself(args, Settings(args, http), headers))
<1> DEFINE own == Settings(args, http)
           kh == Keyed("header", headers)
           both == Preferring(own, kh)
           itself == SaysItself(args, own, headers)
<1>1. IsSettings(own) /\ IsSettings(kh) /\ IsSettings(both)
  BY SettingsAre, KeyedSettings, SettingsGrow
<1>2. /\ <<"auth">> \notin DOMAIN kh
      /\ AgreeAt(both, own, <<"auth">>)
  <2>1. <<"auth">> \notin DOMAIN kh
    <3>1. \A name : <<"auth">> # <<"header", name>>
      OBVIOUS
    <3> QED
      BY <3>1, KeyedKeys
  <2>2. Prefers(both, own, kh)
    BY PrefersIs
  <2> HIDE DEF both, own, kh
  <2> QED
    BY <2>1, <2>2 DEF Prefers, AgreeAt
<1>3. CASE headers = <<>>
  <2>1. HeaderArgs(headers, args) = args /\ ~itself
    BY <1>3 DEF HeaderArgs, SaysItself
  <2>2. DOMAIN kh = {}
    <3>1. DOMAIN headers = {}
      BY <1>3
    <3> QED
      BY <3>1, KeyedKeys
  <2>3. both = own
    BY <1>1, <2>2, PreferringNone DEF IsSettings
  <2>4. AgreeButAuth(own, own) /\ AgreeAt(own, own, <<"auth">>)
    BY DEF AgreeButAuth, AgreeAt
  <2>5. SdkSays(own, own, headers, itself)
    <3> HIDE DEF own, itself
    <3> QED
      BY <1>1, <2>1, <2>3, <2>4, Zenon DEF SdkSays, own
  <2> QED
    BY <2>1, <2>5
<1>4. CASE headers # <<>> /\ Option("auth") \in Range(args)
  <2>1. HeaderArgs(headers, args) = Said("header", headers) \o args /\ ~itself
    <3>1. ExplicitUnlessSaid(args) = NoText
      BY <1>4 DEF ExplicitUnlessSaid, NoText
    <3>2. PICK B : Said("header", headers) \in Texts(B)
      BY SaidAdds
    <3>3. Then(Said("header", headers), NoText) = Said("header", headers)
      BY <3>2, ThenIs
    <3> QED
      BY <1>4, <3>1, <3>3 DEF HeaderArgs, SaysItself, Then
  <2>2. Adds(args, Said("header", headers) \o args, kh, http)
    BY SaidAdds
  <2>3. /\ Settings(HeaderArgs(headers, args), http) = both
        /\ ParseArgs(HeaderArgs(headers, args), http).args = ParseArgs(args, http).args
    BY <2>1, <2>2 DEF Adds
  <2>4. AgreeButAuth(both, both)
    BY DEF AgreeButAuth, AgreeAt
  <2>5. SdkSays(both, own, headers, itself)
    <3> HIDE DEF own, itself
    <3> QED
      BY <1>1, <1>2, <2>1, <2>4, Zenon DEF SdkSays
  <2> QED
    BY <2>3, <2>5
<1>5. CASE headers # <<>> /\ Option("auth") \notin Range(args)
  <2> DEFINE explicit == <<Option("auth"), Bare(ModeText("explicit-headers"))>>
             said == Said("header", headers)
             mid == Preferring(own, NotLoggedIn)
             s == Preferring(mid, kh)
  <2>1. PICK B : /\ A \subseteq B /\ explicit \in Texts(B) /\ explicit \o args \in Texts(B)
                 /\ Adds(args, explicit \o args, NotLoggedIn, http)
    BY ExplicitAdds
  <2> HIDE DEF explicit
  <2>2. PICK C : /\ B \subseteq C /\ said \in Texts(C)
                 /\ Adds(explicit \o args, said \o (explicit \o args), kh, http)
    BY <2>1, SaidAdds
  <2>3. HeaderArgs(headers, args) = said \o (explicit \o args)
    <3>1. HeaderArgs(headers, args) = said \o explicit \o args
      BY <1>5 DEF HeaderArgs, ExplicitUnlessSaid, explicit
    <3>2. explicit \in Texts(C) /\ args \in Texts(C)
      <4>1. A \subseteq C
        BY <2>1, <2>2
      <4> QED
        BY <2>1, <2>2, <4>1, TextsGrow
    <3> QED
      BY <2>2, <3>1, <3>2, ThenAssociative DEF Then
  <2>4. /\ Settings(HeaderArgs(headers, args), http) = s
        /\ ParseArgs(HeaderArgs(headers, args), http).args = ParseArgs(args, http).args
    BY <2>1, <2>2, <2>3 DEF Adds
  <2>5. Prefers(mid, own, NotLoggedIn) /\ Prefers(s, mid, kh) /\ Prefers(both, own, kh)
    BY PrefersIs
  <2>6. /\ DOMAIN NotLoggedIn = {<<"auth">>} /\ NotLoggedIn[<<"auth">>] = "explicit-headers"
        /\ IsSettings(NotLoggedIn)
    <3>1. /\ IsMap(NotLoggedIn) /\ DOMAIN NotLoggedIn = {<<"auth">>}
          /\ NotLoggedIn[<<"auth">>] = "explicit-headers"
      BY OneIs DEF NotLoggedIn
    <3>2. IsKey(<<"auth">>)
      BY DEF IsKey
    <3> QED
      BY <3>1, <3>2 DEF IsSettings
  <2>7. IsSettings(s)
    BY <1>1, <2>6, SettingsGrow
  <2> HIDE DEF s, mid, both, own, kh
  <2>8. AgreeButAuth(s, both)
    BY <2>5, <2>6 DEF AgreeButAuth, AgreeAt, Prefers
  <2>9. itself <=> <<"auth">> \notin DOMAIN own
    BY <1>5 DEF SaysItself
  <2>10. <<"auth">> \in DOMAIN own => AgreeAt(s, own, <<"auth">>)
    BY <2>5 DEF AgreeAt, Prefers
  <2>11. <<"auth">> \notin DOMAIN own
            => <<"auth">> \in DOMAIN s /\ s[<<"auth">>] = "explicit-headers"
    BY <2>5, <2>6 DEF Prefers
  <2> HIDE DEF itself
  <2>12. SdkSays(s, own, headers, itself)
    <3>1. AgreeButAuth(s, Preferring(own, Keyed("header", headers)))
      BY <2>8 DEF both, kh
    <3> QED
      BY <2>7, <2>9, <2>10, <2>11, <3>1, Zenon DEF SdkSays
  <2> QED
    BY <2>4, <2>12 DEF own, itself
<1> QED
  BY <1>3, <1>4, <1>5

-----------------------------------------------------------------------------
(* The roads *)

\* An entry names one command or one URL; a provider is given with a URL (that of a command
\* is never asked, server/connect.rs), and no header is empty (an empty one is not read as
\* a header, server/backend.rs:323).
IsMapping(map) == IsMap(map) /\ IsFiniteSet(DOMAIN map)
IsHeaders(map) == IsMapping(map) /\ \A name \in DOMAIN map : map[name] # ""
IsEntry(A, entry) ==
    /\ entry.args \in Seq(A)
    /\ IsMapping(entry.env) /\ IsHeaders(entry.headers)
    /\ \E target :
           \/ /\ entry.command = {target} /\ entry.url = {} /\ target.http = FALSE
              /\ entry.provided = {}
           \/ /\ entry.command = {} /\ entry.url = {target} /\ target.http = TRUE
              /\ entry.provided = {} \/ \E p : entry.provided = {p} /\ IsHeaders(p)

LeadsTo(entry, target) ==
    /\ HasParts(entry) /\ The(entry.command \cup entry.url) = target
    /\ entry.url \cup entry.command = {target} /\ SdkTarget(entry) = {target}
    /\ entry.url # {} => target.http = TRUE
    /\ entry.url = {} => target.http = FALSE /\ entry.provided = {}

LEMMA EntryLeads ==
  ASSUME NEW A, NEW entry, IsEntry(A, entry)
  PROVE  \E target : LeadsTo(entry, target)
<1>1. PICK target : \/ /\ entry.command = {target} /\ entry.url = {} /\ target.http = FALSE
                       /\ entry.provided = {}
                    \/ entry.command = {} /\ entry.url = {target} /\ target.http = TRUE
  BY DEF IsEntry
<1>2. Cardinality({target}) = 1 /\ Cardinality({}) = 0
  BY FS_Singleton, FS_EmptySet
<1>3. The({target}) = target
  BY TheOnly
<1>4. CASE entry.command = {target} /\ entry.url = {} /\ target.http = FALSE /\ entry.provided = {}
  <2>1. /\ entry.command \cup entry.url = {target} /\ entry.url \cup entry.command = {target}
        /\ SdkTarget(entry) = {target}
    BY <1>4 DEF SdkTarget
  <2>2. HasParts(entry)
    BY <1>2, <1>4 DEF HasParts
  <2> QED
    BY <1>3, <1>4, <2>1, <2>2 DEF LeadsTo
<1>5. CASE entry.command = {} /\ entry.url = {target} /\ target.http = TRUE
  <2>1. /\ entry.command \cup entry.url = {target} /\ entry.url \cup entry.command = {target}
        /\ SdkTarget(entry) = {target}
    BY <1>5 DEF SdkTarget
  <2>2. HasParts(entry)
    BY <1>2, <1>5 DEF HasParts
  <2> QED
    BY <1>3, <1>5, <2>1, <2>2 DEF LeadsTo
<1> QED
  BY <1>1, <1>4, <1>5

\* What the arguments leave for the backend and what they set.
Rest(entry, target) == ParseArgs(entry.args, target.http).args
Own(entry, target) == Settings(entry.args, target.http)

LEMMA OwnAre ==
  ASSUME NEW A, NEW entry, IsEntry(A, entry), NEW target, LeadsTo(entry, target)
  PROVE  IsSettings(Own(entry, target)) /\ DOMAIN Own(entry, target) \subseteq InArgs(entry)
<1>1. entry.args \in Texts(A)
  BY DEF IsEntry, Texts
<1>2. InArgs(entry) = DOMAIN Settings(entry.args, TRUE)
  BY DEF InArgs, Settings
<1>3. /\ IsSettings(Settings(entry.args, target.http))
      /\ DOMAIN Settings(entry.args, FALSE) \subseteq DOMAIN Settings(entry.args, TRUE)
  BY <1>1, SettingsAre
<1>4. CASE target.http = TRUE
  BY <1>2, <1>3, <1>4 DEF Own
<1>5. CASE target.http = FALSE
  BY <1>2, <1>3, <1>5 DEF Own
<1>6. target.http = TRUE \/ target.http = FALSE
  BY DEF LeadsTo
<1> QED
  BY <1>4, <1>5, <1>6

\* The command line: the options in front of the arguments.
Typed(entry, target) ==
    Preferring(Own(entry, target), Preferring(Keyed("header", entry.headers), Keyed("env", entry.env)))

LEMMA CommandLineIs ==
  ASSUME NEW A, NEW entry, IsEntry(A, entry), NEW target, LeadsTo(entry, target),
         entry.url = {} => entry.headers = <<>>
  PROVE  \E b : /\ FromCommandLine(entry) = {b}
                /\ Described(b, target, Rest(entry, target), Typed(entry, target))
<1> DEFINE all == Said("env", entry.env) \o Said("header", entry.headers) \o entry.args
<1>1. entry.args \in Texts(A) /\ IsFiniteSet(DOMAIN entry.env) /\ IsFiniteSet(DOMAIN entry.headers)
  BY DEF IsEntry, IsMapping, IsHeaders, Texts
<1>2. Sayable("header", entry.headers, target.http)
  <2>1. CASE entry.url = {}
    <3>1. DOMAIN entry.headers = {}
      BY <2>1
    <3> QED
      BY <3>1 DEF Sayable
  <2>2. CASE entry.url # {}
    <3>1. target.http /\ \A name \in DOMAIN entry.headers : entry.headers[name] # ""
      BY <2>2 DEF LeadsTo, IsEntry, IsHeaders
    <3> QED
      BY <3>1 DEF Sayable
  <2> QED
    BY <2>1, <2>2
<1>3. /\ ParseArgs(all, target.http).args = Rest(entry, target)
      /\ Settings(all, target.http) = Typed(entry, target)
  BY <1>1, <1>2, BothAdd DEF Rest, Own, Typed
<1>4. FromCommandLine(entry) = {New(target, all)}
  BY DEF FromCommandLine, LeadsTo
<1>5. Described(New(target, all), target, ParseArgs(all, target.http).args,
                Settings(all, target.http))
  BY NewIs
<1> HIDE DEF all
<1> QED
  BY <1>3, <1>4, <1>5

\* The configuration: the maps before the arguments.
KeptOf(entry, target) ==
    LET kept == {key \in DOMAIN Own(entry, target) :
                     key[1] = "header" => key[2].id \notin Ids(entry.headers)}
    IN [key \in kept |-> Own(entry, target)[key]]
Configured(entry, target) ==
    Preferring(Preferring(Keyed("env", entry.env), Keyed("header", entry.headers)), KeptOf(entry, target))

LEMMA JsonIs ==
  ASSUME NEW entry, NEW target, LeadsTo(entry, target)
  PROVE  \E b : /\ FromJson(entry) = {b}
                /\ Described(b, target, Rest(entry, target), Configured(entry, target))
<1> DEFINE b == New(target, entry.args)
<1>1. Described(b, target, Rest(entry, target), Own(entry, target))
  BY NewIs DEF Rest, Own
<1> HIDE DEF b
<1>2. Described(WithApp(b, entry.app), target, Rest(entry, target), Own(entry, target))
  BY <1>1, AppAdded
<1>3. b.settings = Own(entry, target)
  BY <1>1, DescribedIs
<1>4. The(entry.command \cup entry.url) = target /\ HasParts(entry)
  BY DEF LeadsTo
<1>5. IntoBackend(entry) = WithSettings(WithApp(b, entry.app), Configured(entry, target))
  <2>1. IntoBackend(entry) =
            WithSettings(WithApp(b, entry.app),
                Preferring(Preferring(Keyed("env", entry.env), Keyed("header", entry.headers)),
                   [key \in {k \in DOMAIN b.settings : k[1] = "header" => k[2].id \notin Ids(entry.headers)}
                        |-> b.settings[key]]))
    BY <1>4, Zenon DEF IntoBackend, WithSettings, b
  <2>2. [key \in {k \in DOMAIN b.settings : k[1] = "header" => k[2].id \notin Ids(entry.headers)}
             |-> b.settings[key]] = KeptOf(entry, target)
    BY <1>3 DEF KeptOf
  <2> QED
    BY <2>1, <2>2 DEF Configured
<1>6. Described(IntoBackend(entry), target, Rest(entry, target), Configured(entry, target))
  BY <1>2, <1>5, SettingsChanged
<1>7. FromJson(entry) = {IntoBackend(entry)}
  BY <1>4 DEF FromJson
<1> QED
  BY <1>6, <1>7

\* An SDK: the options that it says of its headers.
LEMMA SdkIs ==
  ASSUME NEW A, NEW entry, IsEntry(A, entry), NEW target, LeadsTo(entry, target),
         NEW headers, IsHeaders(headers), entry.url = {} => headers = <<>>
  PROVE  \E s : /\ SdkSays(s, Own(entry, target), headers,
                           SaysItself(entry.args, Own(entry, target), headers))
                /\ Described(New(target, HeaderArgs(headers, entry.args)), target, Rest(entry, target), s)
                /\ entry.url = {} => HeaderArgs(headers, entry.args) = entry.args
<1> DEFINE args == HeaderArgs(headers, entry.args)
           s == Settings(args, target.http)
<1>1. entry.args \in Texts(A) /\ IsFiniteSet(DOMAIN headers)
  BY DEF IsEntry, IsMapping, IsHeaders, Texts
<1>2. Sayable("header", headers, target.http)
  <2>1. CASE entry.url = {}
    <3>1. DOMAIN headers = {}
      BY <2>1
    <3> QED
      BY <3>1 DEF Sayable
  <2>2. CASE entry.url # {}
    <3>1. target.http /\ \A name \in DOMAIN headers : headers[name] # ""
      BY <2>2 DEF LeadsTo, IsHeaders
    <3> QED
      BY <3>1 DEF Sayable
  <2> QED
    BY <2>1, <2>2
<1>3. /\ ParseArgs(args, target.http).args = Rest(entry, target)
      /\ SdkSays(s, Own(entry, target), headers, SaysItself(entry.args, Own(entry, target), headers))
  BY <1>1, <1>2, HeaderArgsAre DEF Rest, Own
<1>4. Described(New(target, args), target, ParseArgs(args, target.http).args, s)
  BY NewIs
<1>5. entry.url = {} => args = entry.args
  BY DEF HeaderArgs
<1> HIDE DEF args, s
<1> QED
  BY <1>3, <1>4, <1>5 DEF args

LEMMA PreferringApart ==
  ASSUME NEW f, NEW g, DOMAIN f \cap DOMAIN g = {}
  PROVE  Preferring(f, g) = Preferring(g, f)
<1>1. PICK left : left = Preferring(f, g) /\ Prefers(left, f, g)
  BY PrefersIs
<1>2. PICK right : right = Preferring(g, f) /\ Prefers(right, g, f)
  BY PrefersIs
<1>3. IsMap(left) /\ IsMap(right) /\ DOMAIN left = DOMAIN right /\ \A x \in DOMAIN left : left[x] = right[x]
  BY <1>1, <1>2 DEF Prefers
<1>4. left = right
  BY <1>3, SameMap
<1> QED
  BY <1>1, <1>2, <1>4

LEMMA IdsAre == ASSUME NEW map, NEW id PROVE id \in Ids(map) <=> \E name \in DOMAIN map : name.id = id
  BY DEF Ids

\* One login, where what is said of it and of the headers is the same.
LEMMA SameLogin ==
  ASSUME NEW target, NEW args, NEW s, NEW t, IsSettings(s), IsSettings(t),
         AgreeOn(s, t, "header"), AgreeAt(s, t, <<"auth">>),
         NEW b, Described(b, target, args, s), NEW c, Described(c, target, args, t)
  PROVE  ShouldUseOAuth(b) = ShouldUseOAuth(c)
<1>1. /\ b.target = target /\ b.settings = s /\ b.provider = FALSE
      /\ c.target = target /\ c.settings = t /\ c.provider = FALSE
  BY DescribedIs
<1>2. NamesOf(b, "header") = NamesOf(c, "header")
  BY <1>1, SameMaps
<1>3. AuthMode(b) = AuthMode(c)
  BY <1>1 DEF AuthMode, AgreeAt
<1> DEFINE rest(d) == \/ AuthMode(d) = "oauth"
                      \/ AuthMode(d) = "auto" /\ ~d.provider
                            /\ \A name \in NamesOf(d, "header") : name.id # "authorization"
<1>4. rest(b) = rest(c)
  BY <1>1, <1>2, <1>3
<1>5. /\ ShouldUseOAuth(b) = (b.target.http /\ rest(b))
      /\ ShouldUseOAuth(c) = (c.target.http /\ rest(c))
  BY Zenon DEF ShouldUseOAuth
<1> HIDE DEF rest
<1>6. PICK http, r : b.target.http = http /\ c.target.http = http /\ rest(b) = r /\ rest(c) = r
  BY <1>1, <1>4
<1> DEFINE both == http /\ r
<1>7. ShouldUseOAuth(b) = both
  BY <1>5, <1>6, Zenon
<1>8. ShouldUseOAuth(c) = both
  BY <1>5, <1>6, Zenon
<1> HIDE DEF both
<1> QED
  BY <1>7, <1>8

\* What is said once, in a map or in the arguments, is said in any order.
LEMMA ConfiguredIsTyped ==
  ASSUME NEW A, NEW entry, IsEntry(A, entry), NEW target, LeadsTo(entry, target), SaidOnce(entry)
  PROVE  Configured(entry, target) = Typed(entry, target)
<1> DEFINE own == Own(entry, target)
           ke == Keyed("env", entry.env)
           kh == Keyed("header", entry.headers)
<1>1. IsSettings(own) /\ DOMAIN own \subseteq InArgs(entry)
  BY OwnAre
<1>2. /\ \A key : key \in DOMAIN ke <=> \E name \in DOMAIN entry.env : key = <<"env", name>>
      /\ \A key : key \in DOMAIN kh <=> \E name \in DOMAIN entry.headers : key = <<"header", name>>
  BY KeyedKeys
<1>3. /\ \A name \in DOMAIN entry.env : <<"env", name>> \notin InArgs(entry)
      /\ \A name \in DOMAIN entry.headers, key \in InArgs(entry) : key[1] = "header" => key[2].id # name.id
  BY DEF SaidOnce
<1> HIDE DEF own, ke, kh
<1>4. DOMAIN ke \cap DOMAIN kh = {}
  BY <1>2
<1>5. DOMAIN own \cap DOMAIN ke = {}
  BY <1>1, <1>2, <1>3
<1>6. DOMAIN own \cap DOMAIN kh = {}
  <2>1. ASSUME NEW name \in DOMAIN entry.headers, <<"header", name>> \in DOMAIN own PROVE FALSE
    <3>1. <<"header", name>>[1] = "header" /\ <<"header", name>>[2] = name
      OBVIOUS
    <3> QED
      BY <1>1, <1>3, <2>1, <3>1
  <2> QED
    BY <1>2, <2>1
<1>7. KeptOf(entry, target) = own
  <2> DEFINE kept == {key \in DOMAIN own : key[1] = "header" => key[2].id \notin Ids(entry.headers)}
  <2>1. ASSUME NEW key \in DOMAIN own, key[1] = "header" PROVE key[2].id \notin Ids(entry.headers)
    BY <1>1, <1>3, <2>1, IdsAre
  <2>2. kept = DOMAIN own
    BY <2>1
  <2>3. KeptOf(entry, target) = [key \in kept |-> own[key]]
    BY DEF KeptOf, own
  <2>4. own = [key \in DOMAIN own |-> own[key]]
    BY <1>1 DEF IsSettings, IsMap
  <2> HIDE DEF kept
  <2> QED
    BY <2>2, <2>3, <2>4
<1>8. Preferring(ke, kh) = Preferring(kh, ke)
  BY <1>4, PreferringApart
<1>9. Preferring(Preferring(kh, ke), own) = Preferring(own, Preferring(kh, ke))
  <2>1. DOMAIN Preferring(kh, ke) = DOMAIN kh \cup DOMAIN ke
    BY PrefersIs DEF Prefers
  <2> QED
    BY <1>5, <1>6, <2>1, PreferringApart
<1> QED
  BY <1>7, <1>8, <1>9 DEF Configured, Typed, own, ke, kh

LEMMA TypedAre ==
  ASSUME NEW A, NEW entry, IsEntry(A, entry), NEW target, LeadsTo(entry, target)
  PROVE  IsSettings(Typed(entry, target))
  BY OwnAre, KeyedSettings, SettingsGrow DEF Typed

LEMMA ReachedIs ==
  ASSUME NEW b, NEW entry
  PROVE  /\ Reached({b}, entry) = {Connection(b, The(entry.provided \cup {<<>>}))}
         /\ WithoutLogin(Reached({b}, entry)) = {NoLogin(Connection(b, The(entry.provided \cup {<<>>})))}
         /\ Login({b}) = {ShouldUseOAuth(b)}
<1>1. Reached({b}, entry) = {Connection(b, The(entry.provided \cup {<<>>}))}
  BY DEF Reached
<1>2. \A c : WithoutLogin({c}) = {NoLogin(c)}
  BY DEF WithoutLogin, NoLogin
<1>3. Login({b}) = {ShouldUseOAuth(b)}
  BY DEF Login
<1> QED
  BY <1>1, <1>2, <1>3

LEMMA ConfigurationIsCommandLine ==
  ASSUME NEW A, NEW entry, IsEntry(A, entry), SaidOnce(entry), entry.url = {} => entry.headers = <<>>
  PROVE  JsonIsCommandLine(entry)
<1>1. PICK target : LeadsTo(entry, target)
  BY EntryLeads
<1> DEFINE rest == Rest(entry, target)
           s == Typed(entry, target)
<1>2. PICK b : FromCommandLine(entry) = {b} /\ Described(b, target, rest, s)
  BY <1>1, CommandLineIs
<1>3. PICK c : FromJson(entry) = {c} /\ Described(c, target, rest, s)
  BY <1>1, JsonIs, ConfiguredIsTyped
<1>4. IsSettings(s)
  BY <1>1, TypedAre
<1> HIDE DEF rest, s
<1>5. AgreeButAuth(s, s) /\ AgreeOn(s, s, "header") /\ AgreeAt(s, s, <<"auth">>)
  BY DEF AgreeButAuth, AgreeOn, AgreeAt
<1>6. ShouldUseOAuth(c) = ShouldUseOAuth(b)
  BY <1>2, <1>3, <1>4, <1>5, SameLogin
<1>7. \A provided : Connection(c, provided) = Connection(b, provided)
  BY <1>2, <1>3, <1>4, <1>5, <1>6, SameConnection
<1> DEFINE provided == The(entry.provided \cup {<<>>})
<1>8. Reached({b}, entry) = {Connection(b, provided)} /\ Reached({c}, entry) = {Connection(c, provided)}
  BY ReachedIs, Zenon
<1>9. Connection(b, provided) = Connection(c, provided)
  BY <1>7
<1> HIDE DEF provided
<1>10. Reached({c}, entry) = Reached({b}, entry)
  BY <1>8, <1>9
<1> QED
  BY <1>2, <1>3, <1>10 DEF JsonIsCommandLine

\* One value for each name, of those that some spelling of it has.
Picked(h, map) ==
    /\ IsMap(h) /\ DOMAIN h = Ids(map)
    /\ \A id \in Ids(map) : \E name \in DOMAIN map : name.id = id /\ h[id] = map[name]

LEMMA OnePerNameIs ==
  ASSUME NEW map, NEW h
  PROVE  h \in OnePerName(map) <=> Picked(h, map)
<1> DEFINE spelt == {f \in [Ids(map) -> DOMAIN map] : \A id \in Ids(map) : f[id].id = id}
<1>1. ASSUME h \in OnePerName(map) PROVE Picked(h, map)
  <2>1. PICK kept \in spelt : h = [id \in Ids(map) |-> map[kept[id]]]
    BY <1>1 DEF OnePerName
  <2>2. kept \in [Ids(map) -> DOMAIN map] /\ \A id \in Ids(map) : kept[id].id = id
    BY <2>1
  <2> HIDE DEF spelt
  <2> QED
    BY <2>1, <2>2 DEF Picked, IsMap
<1>2. ASSUME Picked(h, map) PROVE h \in OnePerName(map)
  <2> DEFINE spelling(id) == CHOOSE name \in DOMAIN map : name.id = id /\ h[id] = map[name]
             kept == [id \in Ids(map) |-> spelling(id)]
  <2>1. \A id \in Ids(map) : /\ spelling(id) \in DOMAIN map /\ spelling(id).id = id
                             /\ h[id] = map[spelling(id)]
    BY <1>2 DEF Picked
  <2> HIDE DEF spelling
  <2>2. kept \in spelt
    BY <2>1
  <2>3. h = [id \in Ids(map) |-> map[kept[id]]]
    BY <1>2, <2>1 DEF Picked, IsMap
  <2> QED
    BY <2>2, <2>3, ZenonT(60) DEF OnePerName
<1> QED
  BY <1>1, <1>2

\* What is sent without a provider.
LEMMA WireAlone ==
  ASSUME NEW b, b.provider = FALSE, NEW provided
  PROVE  WireHeaders(b, provided) = OnePerName(Map(b, "header"))
<1> DEFINE asked == IF b.provider THEN OnePerName(provided) ELSE {<<>>}
           all == OnePerName(Map(b, "header"))
<1>1. WireHeaders(b, provided) = {Preferring(p, h) : p \in asked, h \in all}
  BY DEF WireHeaders
<1>2. asked = {<<>>}
  BY Zenon
<1>3. \A h \in all : Preferring(<<>>, h) = h
  <2>1. DOMAIN <<>> = {}
    OBVIOUS
  <2>2. \A h \in all : IsMap(h)
    BY OnePerNameIs DEF Picked
  <2> QED
    BY <2>1, <2>2, PreferringNone
<1> HIDE DEF asked, all
<1>4. WireHeaders(b, provided) = all
  BY <1>1, <1>2, <1>3
<1> QED
  BY <1>4 DEF all

\* What is sent with one.
Over(p, all) == {Preferring(q, h) : q \in OnePerName(p), h \in all}

LEMMA WireAsked ==
  ASSUME NEW b, b.provider = TRUE, NEW provided
  PROVE  WireHeaders(b, provided) = Over(provided, OnePerName(Map(b, "header")))
<1> DEFINE asked == IF b.provider THEN OnePerName(provided) ELSE {<<>>}
<1>1. WireHeaders(b, provided) = {Preferring(p, h) : p \in asked, h \in OnePerName(Map(b, "header"))}
  BY DEF WireHeaders
<1>2. asked = OnePerName(provided)
  BY Zenon
<1> HIDE DEF asked
<1> QED
  BY <1>1, <1>2 DEF Over

\* The maps of a configuration.
LEMMA ConfiguredAre ==
  ASSUME NEW A, NEW entry, IsEntry(A, entry), NEW target, LeadsTo(entry, target)
  PROVE  LET s == Configured(entry, target)
         IN /\ IsSettings(s)
            /\ \A name \in DOMAIN entry.env :
                   /\ <<"env", name>> \in DOMAIN s
                   /\ s[<<"env", name>>] = Interpolate(entry.env[name])
            /\ \A name \in DOMAIN entry.headers :
                   /\ <<"header", name>> \in DOMAIN s
                   /\ s[<<"header", name>>] = Interpolate(entry.headers[name])
            /\ \A name : <<"header", name>> \in DOMAIN s
                   => name \in DOMAIN entry.headers \/ name.id \notin Ids(entry.headers)
<1> DEFINE own == Own(entry, target)
           ke == Keyed("env", entry.env)
           kh == Keyed("header", entry.headers)
           k == KeptOf(entry, target)
           m == Preferring(ke, kh)
           s == Preferring(m, k)
<1>1. IsSettings(own)
  BY OwnAre
<1>2. IsSettings(ke) /\ IsSettings(kh)
  BY KeyedSettings
<1>3. /\ \A key : key \in DOMAIN ke <=> \E name \in DOMAIN entry.env : key = <<"env", name>>
      /\ \A name \in DOMAIN entry.env : ke[<<"env", name>>] = Interpolate(entry.env[name])
  BY KeyedKeys
<1>4. /\ \A key : key \in DOMAIN kh <=> \E name \in DOMAIN entry.headers : key = <<"header", name>>
      /\ \A name \in DOMAIN entry.headers : kh[<<"header", name>>] = Interpolate(entry.headers[name])
  BY KeyedKeys
<1> DEFINE kept == {key \in DOMAIN own : key[1] = "header" => key[2].id \notin Ids(entry.headers)}
<1>5. /\ IsMap(k)
      /\ \A key : key \in DOMAIN k <=> key \in DOMAIN own /\ (key[1] = "header" => key[2].id \notin Ids(entry.headers))
  <2>1. k = [key \in kept |-> own[key]]
    BY DEF KeptOf
  <2> HIDE DEF k, own
  <2> QED
    BY <2>1 DEF IsMap
<1> HIDE DEF kept
<1>6. IsSettings(k)
  BY <1>1, <1>5 DEF IsSettings
<1>7. IsSettings(s)
  BY <1>2, <1>6, SettingsGrow
<1>8. Prefers(m, ke, kh) /\ Prefers(s, m, k)
  BY PrefersIs
<1> HIDE DEF own, ke, kh, k, m
<1>9. \A name, other : <<"env", name>> # <<"header", other>>
  OBVIOUS
<1>10. \A name : <<"header", name>>[1] = "header" /\ <<"header", name>>[2] = name
  OBVIOUS
<1> HIDE DEF s
<1>11. \A name \in DOMAIN entry.env :
           /\ <<"env", name>> \in DOMAIN s
           /\ s[<<"env", name>>] = Interpolate(entry.env[name])
  BY <1>3, <1>8 DEF Prefers
<1>12. \A name \in DOMAIN entry.headers :
           /\ <<"header", name>> \in DOMAIN s
           /\ s[<<"header", name>>] = Interpolate(entry.headers[name])
  BY <1>3, <1>4, <1>8, <1>9 DEF Prefers
<1>13. ASSUME NEW name, <<"header", name>> \in DOMAIN s
       PROVE  name \in DOMAIN entry.headers \/ name.id \notin Ids(entry.headers)
  <2>1. <<"header", name>> \notin DOMAIN ke
    BY <1>3, <1>9
  <2>2. CASE <<"header", name>> \in DOMAIN kh
    <3>1. PICK other \in DOMAIN entry.headers : <<"header", name>> = <<"header", other>>
      BY <1>4, <2>2
    <3>2. name = other
      BY <3>1
    <3> QED
      BY <3>2
  <2>3. CASE <<"header", name>> \in DOMAIN k
    BY <1>5, <1>10, <2>3
  <2> QED
    BY <1>8, <1>13, <2>1, <2>2, <2>3 DEF Prefers
<1> QED
  BY <1>7, <1>11, <1>12, <1>13 DEF s, m, k, ke, kh, Configured

LEMMA MapsDoCount ==
  ASSUME NEW A, NEW entry, IsEntry(A, entry)
  PROVE  MapsCount(entry)
<1>1. PICK target : LeadsTo(entry, target)
  BY EntryLeads
<1> DEFINE s == Configured(entry, target)
<1>2. PICK b : FromJson(entry) = {b} /\ Described(b, target, Rest(entry, target), s)
  BY <1>1, JsonIs
<1>3. /\ IsSettings(s)
      /\ \A name \in DOMAIN entry.env :
             <<"env", name>> \in DOMAIN s /\ s[<<"env", name>>] = Interpolate(entry.env[name])
      /\ \A name \in DOMAIN entry.headers :
             <<"header", name>> \in DOMAIN s /\ s[<<"header", name>>] = Interpolate(entry.headers[name])
      /\ \A name : <<"header", name>> \in DOMAIN s
             => name \in DOMAIN entry.headers \/ name.id \notin Ids(entry.headers)
  BY <1>1, ConfiguredAre
<1>4. b.settings = s
  BY <1>2, DescribedIs
<1>5. b.provider = FALSE
  BY <1>2, DescribedIs
<1> HIDE DEF s
<1> DEFINE env == Map(b, "env")
           map == Map(b, "header")
<1>6. /\ \A name : name \in DOMAIN env <=> <<"env", name>> \in DOMAIN s
      /\ \A name \in DOMAIN env : env[name] = s[<<"env", name>>]
  BY <1>3, <1>4, MapIs
<1>7. /\ \A name : name \in DOMAIN map <=> <<"header", name>> \in DOMAIN s
      /\ \A name \in DOMAIN map : map[name] = s[<<"header", name>>]
  BY <1>3, <1>4, MapIs
<1>8. WireHeaders(b, <<>>) = OnePerName(map)
  BY <1>5, WireAlone
<1> HIDE DEF env, map
<1>9. \A name \in DOMAIN entry.env : env[name] = Interpolate(entry.env[name])
  BY <1>3, <1>6
<1>10. ASSUME NEW h \in OnePerName(map), NEW name \in DOMAIN entry.headers
      PROVE  \E spelled \in DOMAIN entry.headers :
                 spelled.id = name.id /\ h[name.id] = Interpolate(entry.headers[spelled])
  <2>1. name.id \in Ids(map) /\ name.id \in Ids(entry.headers)
    BY <1>3, <1>7, IdsAre
  <2>2. PICK spelled \in DOMAIN map : spelled.id = name.id /\ h[name.id] = map[spelled]
    BY <2>1, OnePerNameIs DEF Picked
  <2>3. spelled \in DOMAIN entry.headers
    BY <1>3, <1>7, <2>1, <2>2
  <2> QED
    BY <1>3, <1>7, <2>2, <2>3
<1> QED
  BY <1>2, <1>8, <1>9, <1>10 DEF MapsCount, env

LEMMA ExplicitMeansNoLogin ==
  ASSUME NEW b, <<"auth">> \in DOMAIN b.settings, b.settings[<<"auth">>] = "explicit-headers"
  PROVE  ShouldUseOAuth(b) = FALSE
<1>1. AuthMode(b) = "explicit-headers"
  BY DEF AuthMode
<1>2. AuthMode(b) # "oauth" /\ AuthMode(b) # "auto"
  BY <1>1
<1> QED
  BY <1>2, Zenon DEF ShouldUseOAuth

LEMMA AuthorizedMeansNoLogin ==
  ASSUME NEW b, IsSettings(b.settings), <<"auth">> \notin DOMAIN b.settings,
         NEW name, name.id = "authorization", <<"header", name>> \in DOMAIN b.settings
  PROVE  ShouldUseOAuth(b) = FALSE
<1>1. AuthMode(b) # "oauth"
  BY DEF AuthMode
<1>2. name \in NamesOf(b, "header")
  BY MapIs
<1> QED
  BY <1>1, <1>2, Zenon DEF ShouldUseOAuth

\* The SDKs make one backend where no headers are asked for.
LEMMA SdksAre ==
  ASSUME NEW entry, NEW target, LeadsTo(entry, target), entry.provided = {},
         entry.url = {} => HeaderArgs(entry.headers, entry.args) = entry.args
  PROVE  LET b == WithApp(New(target, HeaderArgs(entry.headers, entry.args)), entry.app)
         IN FromRust(entry) = {b} /\ FromTypeScript(entry) = {b} /\ FromPython(entry) = {b}
<1> DEFINE b == WithApp(New(target, HeaderArgs(entry.headers, entry.args)), entry.app)
           args == IF entry.url # {} THEN HeaderArgs(entry.headers, entry.args) ELSE entry.args
<1>1. SdkTarget(entry) = {target} /\ args = HeaderArgs(entry.headers, entry.args)
  BY DEF LeadsTo
<1>2. FromRust(entry) = {WithApp(New(t, HeaderArgs(entry.headers, entry.args)), entry.app) : t \in SdkTarget(entry)}
  BY DEF FromRust
<1>3. FromHost(entry, entry.headers) = {WithApp(New(t, args), entry.app) : t \in SdkTarget(entry)}
  BY DEF FromHost
<1> HIDE DEF args
<1>4. FromRust(entry) = {b} /\ FromHost(entry, entry.headers) = {b}
  BY <1>1, <1>2, <1>3
<1>5. FromTypeScript(entry) = FromHost(entry, entry.headers) /\ FromPython(entry) = FromHost(entry, entry.headers)
  BY DEF FromTypeScript, FromPython
<1> QED
  BY <1>4, <1>5

\* What a road without variables types.
LEMMA TypedHeaders ==
  ASSUME NEW A, NEW entry, IsEntry(A, entry), NEW target, LeadsTo(entry, target)
  PROVE  LET s == Typed(entry, target)
             t == Preferring(Own(entry, target), Keyed("header", entry.headers))
         IN /\ AgreeOn(s, t, "header") /\ AgreeAt(s, t, <<"auth">>)
            /\ AgreeAt(s, Own(entry, target), <<"auth">>)
            /\ entry.env = <<>> => s = t
            /\ \A name \in DOMAIN entry.headers : <<"header", name>> \in DOMAIN s
<1> DEFINE own == Own(entry, target)
           ke == Keyed("env", entry.env)
           kh == Keyed("header", entry.headers)
           both == Preferring(kh, ke)
           s == Preferring(own, both)
           t == Preferring(own, kh)
<1>1. IsSettings(own) /\ IsSettings(kh)
  BY OwnAre, KeyedSettings
<1>2. /\ \A key : key \in DOMAIN ke <=> \E name \in DOMAIN entry.env : key = <<"env", name>>
      /\ \A key : key \in DOMAIN kh <=> \E name \in DOMAIN entry.headers : key = <<"header", name>>
  BY KeyedKeys
<1>3. entry.env = <<>> => DOMAIN ke = {}
  <2>1. entry.env = <<>> => DOMAIN entry.env = {}
    OBVIOUS
  <2> HIDE DEF ke
  <2> QED
    BY <1>2, <2>1
<1>4. entry.env = <<>> => both = kh
  <2> HIDE DEF ke, kh
  <2> QED
    BY <1>1, <1>3, PreferringNone DEF IsSettings
<1>5. Prefers(both, kh, ke) /\ Prefers(s, own, both) /\ Prefers(t, own, kh)
  BY PrefersIs
<1> HIDE DEF own, ke, kh, both, s, t
<1>6. /\ \A name : <<"header", name>> \notin DOMAIN ke
      /\ <<"auth">> \notin DOMAIN ke /\ <<"auth">> \notin DOMAIN kh
  <2>1. \A name, other : <<"header", name>> # <<"env", other>> /\ <<"auth">> # <<"env", other>> /\ <<"auth">> # <<"header", other>>
    OBVIOUS
  <2> QED
    BY <1>2, <2>1
<1>7. ASSUME NEW key, key \notin DOMAIN ke PROVE AgreeAt(s, t, key)
  BY <1>5, <1>7 DEF Prefers, AgreeAt
<1>8. AgreeOn(s, t, "header") /\ AgreeAt(s, t, <<"auth">>)
  BY <1>6, <1>7 DEF AgreeOn
<1>9. AgreeAt(s, own, <<"auth">>)
  BY <1>5, <1>6 DEF Prefers, AgreeAt
<1>10. \A name \in DOMAIN entry.headers : <<"header", name>> \in DOMAIN s
  BY <1>2, <1>5 DEF Prefers
<1>11. entry.env = <<>> => s = t
  BY <1>4 DEF s, t
<1> QED
  BY <1>8, <1>9, <1>10, <1>11 DEF s, t, both, own, kh, ke, Typed

LEMMA SdksDoAgree ==
  ASSUME NEW A, NEW entry, IsEntry(A, entry), entry.provided = {}, entry.env = <<>>,
         entry.url = {} => entry.headers = <<>>
  PROVE  SdksAgree(entry)
<1>1. PICK target : LeadsTo(entry, target)
  BY EntryLeads
<1> DEFINE rest == Rest(entry, target)
           own == Own(entry, target)
           s == Typed(entry, target)
           itself == SaysItself(entry.args, own, entry.headers)
<1>2. PICK b : FromCommandLine(entry) = {b} /\ Described(b, target, rest, s)
  BY <1>1, CommandLineIs
<1>3. IsHeaders(entry.headers)
  BY DEF IsEntry
<1>4. PICK t : /\ SdkSays(t, own, entry.headers, itself)
               /\ Described(New(target, HeaderArgs(entry.headers, entry.args)), target, rest, t)
               /\ entry.url = {} => HeaderArgs(entry.headers, entry.args) = entry.args
  BY <1>1, <1>3, SdkIs
<1>5. PICK c : c = WithApp(New(target, HeaderArgs(entry.headers, entry.args)), entry.app)
  OBVIOUS
<1>6. FromRust(entry) = {c} /\ FromTypeScript(entry) = {c} /\ FromPython(entry) = {c}
  BY <1>1, <1>4, <1>5, SdksAre
<1>7. Described(c, target, rest, t)
  BY <1>4, <1>5, AppAdded
<1>8. IsSettings(s) /\ IsSettings(t) /\ IsSettings(own)
  BY <1>1, <1>4, TypedAre, OwnAre DEF SdkSays
<1>9. /\ s = Preferring(own, Keyed("header", entry.headers))
      /\ AgreeAt(s, own, <<"auth">>)
      /\ \A name \in DOMAIN entry.headers : <<"header", name>> \in DOMAIN s
  BY <1>1, TypedHeaders
<1>10. AgreeButAuth(t, s)
  BY <1>4, <1>9, Zenon DEF SdkSays
<1>11. /\ itself => <<"auth">> \in DOMAIN t /\ t[<<"auth">>] = "explicit-headers"
       /\ ~itself => AgreeAt(t, own, <<"auth">>)
  <2> HIDE DEF itself
  <2> QED
    BY <1>4, Zenon DEF SdkSays
<1>12. itself => <<"auth">> \notin DOMAIN own /\ entry.headers # <<>> /\ Option("auth") \notin Range(entry.args)
  BY DEF SaysItself
<1>13. entry.headers # <<>> => own = Settings(entry.args, TRUE)
  <2>1. target.http \in {TRUE, FALSE}
    BY <1>1 DEF LeadsTo
  <2>2. entry.url # {} => target.http = TRUE
    BY <1>1 DEF LeadsTo
  <2>3. entry.headers # <<>> => target.http = TRUE
    BY <2>2
  <2> QED
    BY <2>3 DEF Own
<1>14. InArgs(entry) = DOMAIN Settings(entry.args, TRUE)
  BY DEF InArgs, Settings
<1>15. b.settings = s /\ c.settings = t
  BY <1>2, <1>7, DescribedIs
<1> HIDE DEF rest, own, s, itself
<1> DEFINE provided == The(entry.provided \cup {<<>>})
           quiet == \/ entry.headers = <<>>
                    \/ <<"auth">> \in InArgs(entry) \/ Option("auth") \in Range(entry.args)
                    \/ \E name \in DOMAIN entry.headers : name.id = "authorization"
<1>16. NoLogin(Connection(c, provided)) = NoLogin(Connection(b, provided))
  BY <1>2, <1>7, <1>8, <1>10, SameConnection
<1>17. WithoutLogin(Reached({c}, entry)) = WithoutLogin(Reached({b}, entry))
  <2>1. /\ WithoutLogin(Reached({c}, entry)) = {NoLogin(Connection(c, provided))}
        /\ WithoutLogin(Reached({b}, entry)) = {NoLogin(Connection(b, provided))}
    BY ReachedIs
  <2> HIDE DEF provided
  <2> QED
    BY <1>16, <2>1
<1>18. itself => ShouldUseOAuth(c) = FALSE
  <2> SUFFICES ASSUME itself PROVE ShouldUseOAuth(c) = FALSE
    OBVIOUS
  <2>1. <<"auth">> \in DOMAIN c.settings /\ c.settings[<<"auth">>] = "explicit-headers"
    BY <1>11, <1>15
  <2> QED
    BY <2>1, ExplicitMeansNoLogin
<1>19. ASSUME ~itself PROVE ShouldUseOAuth(c) = ShouldUseOAuth(b)
  <2>1. AgreeAt(t, s, <<"auth">>)
    BY <1>9, <1>11, <1>19 DEF AgreeAt
  <2>2. AgreeOn(t, s, "header")
    <3>1. \A name : <<"header", name>> # <<"auth">>
      OBVIOUS
    <3> QED
      BY <1>10, <3>1 DEF AgreeButAuth, AgreeOn
  <2> QED
    BY <1>2, <1>7, <1>8, <2>1, <2>2, SameLogin
<1>20. ASSUME itself, quiet PROVE ShouldUseOAuth(b) = FALSE
  <2>1. PICK name \in DOMAIN entry.headers : name.id = "authorization"
    BY <1>12, <1>13, <1>14, <1>20
  <2>2. <<"auth">> \notin DOMAIN b.settings /\ <<"header", name>> \in DOMAIN b.settings
    BY <1>9, <1>12, <1>15, <1>20 DEF AgreeAt
  <2> QED
    BY <1>8, <1>15, <2>1, <2>2, AuthorizedMeansNoLogin
<1>21. ~quiet => itself
  BY <1>12, <1>13, <1>14 DEF SaysItself, itself
<1>22. Login({c}) = {ShouldUseOAuth(c)} /\ Login({b}) = {ShouldUseOAuth(b)}
  BY ReachedIs, Zenon
<1>23. /\ quiet => Login({c}) = Login({b})
       /\ ~quiet => Login({c}) = {FALSE}
  BY <1>18, <1>19, <1>20, <1>21, <1>22, Zenon
<1> HIDE DEF quiet
<1>24. /\ WithoutLogin(Reached({c}, entry)) = WithoutLogin(Reached({b}, entry))
       /\ IF quiet THEN Login({c}) = Login({b}) ELSE Login({c}) = {FALSE}
  BY <1>17, <1>23, Zenon
<1> QED
  BY <1>2, <1>6, <1>24, Zenon DEF SdksAgree, quiet

\* What a provider says hides all spellings of a name: what is left of two maps is the
\* same when they agree on the other names.
SameBeyond(one, two, p) ==
    \A name : name.id \notin Ids(p) =>
        /\ name \in DOMAIN one <=> name \in DOMAIN two
        /\ name \in DOMAIN one => one[name] = two[name]
Merged(p, map) == Over(p, OnePerName(map))

LEMMA MergedWithin ==
  ASSUME NEW p, NEW one, NEW two, SameBeyond(one, two, p)
  PROVE  Merged(p, one) \subseteq Merged(p, two)
<1> SUFFICES ASSUME NEW q \in OnePerName(p), NEW h \in OnePerName(one)
             PROVE  Preferring(q, h) \in Merged(p, two)
  BY DEF Merged, Over
<1>1. Picked(q, p) /\ Picked(h, one)
  BY OnePerNameIs
<1> DEFINE some(id) == CHOOSE name \in DOMAIN two : name.id = id
           g == [id \in Ids(two) |-> IF id \in Ids(p) THEN two[some(id)] ELSE h[id]]
<1>2. \A id \in Ids(two) : some(id) \in DOMAIN two /\ some(id).id = id
  BY IdsAre
<1>3. ASSUME NEW id, id \notin Ids(p)
      PROVE  /\ id \in Ids(one) <=> id \in Ids(two)
             /\ id \in Ids(one) => \E name \in DOMAIN two : name.id = id /\ h[id] = two[name]
  <2>1. \A name : name.id = id =>
            /\ name \in DOMAIN one <=> name \in DOMAIN two
            /\ name \in DOMAIN one => one[name] = two[name]
    BY <1>3 DEF SameBeyond
  <2>2. id \in Ids(one) <=> id \in Ids(two)
    BY <2>1, IdsAre
  <2>3. ASSUME id \in Ids(one) PROVE \E name \in DOMAIN two : name.id = id /\ h[id] = two[name]
    <3>1. PICK name \in DOMAIN one : name.id = id /\ h[id] = one[name]
      BY <1>1, <2>3 DEF Picked
    <3> QED
      BY <2>1, <3>1
  <2> QED
    BY <2>2, <2>3
<1> HIDE DEF some
<1>4. /\ IsMap(g) /\ DOMAIN g = Ids(two)
      /\ \A id \in Ids(two) : id \in Ids(p) => g[id] = two[some(id)]
      /\ \A id \in Ids(two) : id \notin Ids(p) => g[id] = h[id]
  BY DEF IsMap
<1> HIDE DEF g
<1>5. Picked(g, two)
  <2>1. ASSUME NEW id \in Ids(two) PROVE \E name \in DOMAIN two : name.id = id /\ g[id] = two[name]
    <3>1. CASE id \in Ids(p)
      BY <1>2, <1>4, <3>1
    <3>2. CASE id \notin Ids(p)
      BY <1>3, <1>4, <3>2
    <3> QED
      BY <3>1, <3>2
  <2> QED
    BY <1>4, <2>1 DEF Picked
<1>6. PICK left : left = Preferring(q, h) /\ Prefers(left, q, h)
  BY PrefersIs
<1>7. PICK right : right = Preferring(q, g) /\ Prefers(right, q, g)
  BY PrefersIs
<1>8. DOMAIN left = DOMAIN right
  BY <1>1, <1>3, <1>4, <1>6, <1>7 DEF Prefers, Picked
<1>9. \A id \in DOMAIN left : left[id] = right[id]
  <2>1. ASSUME NEW id \in DOMAIN left PROVE left[id] = right[id]
    <3>1. CASE id \in DOMAIN q
      BY <1>6, <1>7, <3>1 DEF Prefers
    <3>2. CASE id \notin DOMAIN q
      <4>1. id \in Ids(one) /\ id \in Ids(two) /\ id \notin Ids(p)
        BY <1>1, <1>3, <1>6, <3>2 DEF Prefers, Picked
      <4> QED
        BY <1>1, <1>4, <1>6, <1>7, <3>2, <4>1 DEF Prefers, Picked
    <3> QED
      BY <3>1, <3>2
  <2> QED
    BY <2>1
<1>10. left = right
  BY <1>6, <1>7, <1>8, <1>9, SameMap DEF Prefers
<1>11. g \in OnePerName(two)
  BY <1>5, OnePerNameIs
<1> QED
  BY <1>6, <1>7, <1>10, <1>11 DEF Merged, Over

LEMMA MergedSame ==
  ASSUME NEW p, NEW one, NEW two, SameBeyond(one, two, p)
  PROVE  Merged(p, one) = Merged(p, two)
<1>1. SameBeyond(two, one, p)
  BY DEF SameBeyond
<1> QED
  BY <1>1, MergedWithin

\* The headers that Python's provider is asked for, and those that are configured.
LEMMA HeadersMerge ==
  ASSUME NEW p, IsHeaders(p), NEW headers, IsHeaders(headers)
  PROVE  /\ IsHeaders(Preferring(p, headers))
         /\ \A name : name \notin DOMAIN p =>
                /\ name \in DOMAIN Preferring(p, headers) <=> name \in DOMAIN headers
                /\ name \in DOMAIN headers => Preferring(p, headers)[name] = headers[name]
<1>1. PICK m : m = Preferring(p, headers) /\ Prefers(m, p, headers)
  BY PrefersIs
<1>2. IsFiniteSet(DOMAIN p \cup DOMAIN headers)
  BY FS_Union DEF IsHeaders, IsMapping
<1>3. IsHeaders(m)
  BY <1>1, <1>2 DEF IsHeaders, IsMapping, Prefers
<1>4. \A name : name \notin DOMAIN p => /\ name \in DOMAIN m <=> name \in DOMAIN headers
                                        /\ name \in DOMAIN headers => m[name] = headers[name]
  BY <1>1 DEF Prefers
<1> QED
  BY <1>1, <1>3, <1>4

ProviderSent(d, p, b) ==
    ~ShouldUseOAuth(d) /\ WireHeaders(d, p) = Over(p, WireHeaders(b, <<>>))

\* A backend with a provider, which an SDK makes of some headers that differ from
\* those configured in what the provider says.
LEMMA ProviderIs ==
  ASSUME NEW A, NEW entry, IsEntry(A, entry), NEW target, LeadsTo(entry, target), entry.url # {},
         NEW p, IsHeaders(p), NEW headers, IsHeaders(headers),
         \A name : name \notin DOMAIN p =>
             /\ name \in DOMAIN headers <=> name \in DOMAIN entry.headers
             /\ name \in DOMAIN headers => headers[name] = entry.headers[name],
         NEW b, Described(b, target, Rest(entry, target), Typed(entry, target)),
         NEW app, NEW c \in {New(target, HeaderArgs(headers, entry.args)),
                             WithApp(New(target, HeaderArgs(headers, entry.args)), app)}
  PROVE  ProviderSent(WithHeaderProvider(c), p, b)
<1> DEFINE rest == Rest(entry, target)
           own == Own(entry, target)
           s == Typed(entry, target)
           kh == Keyed("header", headers)
           ko == Keyed("header", entry.headers)
           mine == Preferring(own, kh)
           theirs == Preferring(own, ko)
<1>1. PICK t : /\ SdkSays(t, own, headers, SaysItself(entry.args, own, headers))
               /\ Described(New(target, HeaderArgs(headers, entry.args)), target, rest, t)
  BY SdkIs
<1>2. Described(c, target, rest, t)
  BY <1>1, AppAdded
<1> DEFINE d == WithHeaderProvider(c)
           r == Preferring(NotLoggedIn, t)
<1>3. WithProvider(d, target, rest, r)
  BY <1>2, ProviderAdded
<1>4. d.settings = r
  BY <1>3 DEF WithProvider
<1>5. d.provider = TRUE
  BY <1>3 DEF WithProvider
<1>6. Described(b, target, rest, s)
  OBVIOUS
<1>7. b.settings = s
  <2> HIDE DEF rest, s
  <2> QED
    BY <1>6, DescribedIs
<1>8. b.provider = FALSE
  BY <1>6, DescribedIs
<1>9. IsSettings(t) /\ AgreeButAuth(t, mine)
  BY <1>1, Zenon DEF SdkSays
<1>10. IsSettings(s) /\ AgreeOn(s, theirs, "header")
  BY TypedAre, TypedHeaders
<1>11. /\ DOMAIN NotLoggedIn = {<<"auth">>} /\ NotLoggedIn[<<"auth">>] = "explicit-headers"
       /\ IsSettings(NotLoggedIn)
  <2>1. /\ IsMap(NotLoggedIn) /\ DOMAIN NotLoggedIn = {<<"auth">>}
        /\ NotLoggedIn[<<"auth">>] = "explicit-headers"
    BY OneIs DEF NotLoggedIn
  <2>2. IsKey(<<"auth">>)
    BY DEF IsKey
  <2> QED
    BY <2>1, <2>2 DEF IsSettings
<1>12. /\ \A key : key \in DOMAIN kh <=> \E name \in DOMAIN headers : key = <<"header", name>>
       /\ \A name \in DOMAIN headers : kh[<<"header", name>>] = Interpolate(headers[name])
  BY KeyedKeys
<1>13. /\ \A key : key \in DOMAIN ko <=> \E name \in DOMAIN entry.headers : key = <<"header", name>>
       /\ \A name \in DOMAIN entry.headers : ko[<<"header", name>>] = Interpolate(entry.headers[name])
  BY KeyedKeys
<1>14. Prefers(r, NotLoggedIn, t) /\ Prefers(mine, own, kh) /\ Prefers(theirs, own, ko)
  BY PrefersIs
<1>15. IsSettings(r)
  BY <1>9, <1>11, SettingsGrow
<1> HIDE DEF rest, own, s, kh, ko, mine, theirs, d, r
<1>16. ~ShouldUseOAuth(d)
  <2>1. <<"auth">> \in DOMAIN d.settings /\ d.settings[<<"auth">>] = "explicit-headers"
    BY <1>4, <1>11, <1>14 DEF Prefers
  <2>2. ShouldUseOAuth(d) = FALSE
    BY <2>1, ExplicitMeansNoLogin
  <2> QED
    BY <2>2
<1> DEFINE one == Map(d, "header")
           two == Map(b, "header")
<1>17. /\ \A name : name \in DOMAIN one <=> <<"header", name>> \in DOMAIN r
       /\ \A name \in DOMAIN one : one[name] = r[<<"header", name>>]
  BY <1>4, <1>15, MapIs
<1>18. /\ \A name : name \in DOMAIN two <=> <<"header", name>> \in DOMAIN s
       /\ \A name \in DOMAIN two : two[name] = s[<<"header", name>>]
  BY <1>7, <1>10, MapIs
<1> HIDE DEF one, two
<1>19. SameBeyond(one, two, p)
  <2>1. ASSUME NEW name, name.id \notin Ids(p)
        PROVE  AgreeAt(r, s, <<"header", name>>)
    <3>1. name \notin DOMAIN p
      BY <2>1, IdsAre
    <3>2. <<"header", name>> # <<"auth">>
      OBVIOUS
    <3>3. \A other : <<"header", name>> = <<"header", other>> => name = other
      OBVIOUS
    <3>4. AgreeAt(kh, ko, <<"header", name>>)
      BY <1>12, <1>13, <3>1, <3>3 DEF AgreeAt
    <3>5. AgreeAt(mine, theirs, <<"header", name>>)
      BY <1>14, <3>4 DEF AgreeAt, Prefers
    <3>6. AgreeAt(r, t, <<"header", name>>)
      BY <1>11, <1>14, <3>2 DEF AgreeAt, Prefers
    <3>7. AgreeAt(t, mine, <<"header", name>>) /\ AgreeAt(s, theirs, <<"header", name>>)
      BY <1>9, <1>10, <3>2 DEF AgreeButAuth, AgreeOn
    <3> QED
      BY <3>5, <3>6, <3>7 DEF AgreeAt
  <2> QED
    BY <1>17, <1>18, <2>1 DEF AgreeAt, SameBeyond
<1>20. Merged(p, one) = Merged(p, two)
  BY <1>19, MergedSame
<1>21. WireHeaders(d, p) = Merged(p, one)
  <2>1. WireHeaders(d, p) = Over(p, OnePerName(Map(d, "header")))
    BY <1>5, WireAsked
  <2> QED
    BY <2>1 DEF Merged, one
<1>22. WireHeaders(b, <<>>) = OnePerName(two)
  BY <1>8, WireAlone DEF two
<1>23. WireHeaders(d, p) = Over(p, WireHeaders(b, <<>>))
  BY <1>20, <1>21, <1>22 DEF Merged
<1> QED
  BY <1>16, <1>23 DEF ProviderSent, d

LEMMA ProvidersDoAgree ==
  ASSUME NEW A, NEW entry, IsEntry(A, entry), entry.provided # {}
  PROVE  ProvidersAgree(entry)
<1>1. PICK target : LeadsTo(entry, target)
  BY EntryLeads
<1>2. entry.url # {} /\ SdkTarget(entry) = {target}
  BY <1>1 DEF LeadsTo
<1>3. PICK p : entry.provided = {p} /\ IsHeaders(p)
  BY DEF IsEntry
<1>4. The(entry.provided) = p
  BY <1>3, TheOnly
<1>5. IsHeaders(entry.headers)
  BY DEF IsEntry
<1> DEFINE asked == Preferring(p, entry.headers)
           rust == WithApp(New(target, HeaderArgs(entry.headers, entry.args)), entry.app)
           script == New(target, HeaderArgs(entry.headers, entry.args))
           python == New(target, HeaderArgs(asked, entry.args))
<1>6. PICK b : /\ FromCommandLine(entry) = {b}
               /\ Described(b, target, Rest(entry, target), Typed(entry, target))
  BY <1>1, <1>2, CommandLineIs
<1>7. FromRust(entry) = {WithHeaderProvider(rust)}
  BY <1>2 DEF FromRust
<1>8. \A headers : FromHost(entry, headers) = {WithHeaderProvider(New(target, HeaderArgs(headers, entry.args)))}
  BY <1>2 DEF FromHost
<1>9. FromTypeScript(entry) = {WithHeaderProvider(script)} /\ FromPython(entry) = {WithHeaderProvider(python)}
  BY <1>4, <1>8 DEF FromTypeScript, FromPython
<1>10. ProviderSent(WithHeaderProvider(rust), p, b) /\ ProviderSent(WithHeaderProvider(script), p, b)
  BY <1>1, <1>2, <1>3, <1>5, <1>6, ProviderIs
<1>11. ProviderSent(WithHeaderProvider(python), p, b)
  <2>1. /\ IsHeaders(asked)
        /\ \A name : name \notin DOMAIN p =>
               /\ name \in DOMAIN asked <=> name \in DOMAIN entry.headers
               /\ name \in DOMAIN asked => asked[name] = entry.headers[name]
    BY <1>3, <1>5, HeadersMerge
  <2> HIDE DEF asked
  <2> QED
    BY <1>1, <1>2, <1>3, <1>6, <2>1, ProviderIs
<1>12. The(FromCommandLine(entry)) = b
  BY <1>6, TheOnly
<1> HIDE DEF rust, script, python
<1>13. \A sdk \in {FromRust(entry), FromTypeScript(entry), FromPython(entry)} :
           \A c \in sdk : ProviderSent(c, p, b)
  BY <1>7, <1>9, <1>10, <1>11
<1>14. \A sdk \in {FromRust(entry), FromTypeScript(entry), FromPython(entry)} :
           \A c \in sdk : /\ ~ShouldUseOAuth(c)
                         /\ WireHeaders(c, The(entry.provided))
                                = Over(The(entry.provided), WireHeaders(The(FromCommandLine(entry)), <<>>))
  BY <1>4, <1>12, <1>13 DEF ProviderSent
<1> QED
  BY <1>14 DEF ProvidersAgree, Over

\* For any arguments, variables, headers and providers: a configuration's maps count, and
\* the configuration, the command line and the three SDKs reach one connection and log in
\* alike where they say the same (server/backend.rs:179, config/topology.rs:99,
\* ffi/session.rs:22, native_client.ts:189, client.py:102).
THEOREM DescriptionsAgree ==
  ASSUME NEW A, NEW entries, \A entry \in entries : IsEntry(A, entry)
  PROVE  RoadsAgreeFor(entries)
<1> SUFFICES ASSUME NEW entry \in entries
             PROVE  IF entry.provided # {} THEN SaidOnce(entry) => ProvidersAgree(entry)
                    ELSE /\ MapsCount(entry)
                         /\ SaidOnce(entry) /\ (entry.url = {} => entry.headers = <<>>)
                                => /\ JsonIsCommandLine(entry)
                                   /\ entry.env = <<>> => SdksAgree(entry)
  BY DEF RoadsAgreeFor
<1>1. CASE entry.provided # {}
  BY <1>1, ProvidersDoAgree
<1>2. CASE entry.provided = {}
  BY <1>2, MapsDoCount, ConfigurationIsCommandLine, SdksDoAgree
<1> QED
  BY <1>1, <1>2

-----------------------------------------------------------------------------
(* What the run examines: its descriptions, answers, flags and callbacks are among *)
(* those that the theorems above speak of.                                         *)

LEMMA MapOfOne ==
  ASSUME NEW name, NEW value, value # ""
  PROVE  IsHeaders(Single(name, value))
<1>1. /\ DOMAIN Single(name, value) = {name} /\ IsMap(Single(name, value))
      /\ Single(name, value)[name] = value
  BY DEF Single, IsMap
<1>2. IsFiniteSet({name})
  BY FS_Singleton
<1> QED
  BY <1>1, <1>2 DEF IsHeaders, IsMapping

LEMMA MapOfNone == IsHeaders(<<>>)
<1>1. DOMAIN <<>> = {} /\ IsMap(<<>>)
  BY DEF IsMap
<1>2. IsFiniteSet({})
  BY FS_EmptySet
<1> QED
  BY <1>1, <1>2 DEF IsHeaders, IsMapping

LEMMA MapsAreHeaders ==
  /\ \A map \in HeaderMaps : IsHeaders(map)
  /\ \A map \in EnvMaps : IsHeaders(map)
  /\ \A map \in Provided : IsHeaders(map)
  /\ IsHeaders(Single(Trace, "v1"))
<1>1. /\ IsHeaders(Single(Trace, "v1")) /\ IsHeaders(Single(LowerTrace, "${SET}"))
      /\ IsHeaders(Single(Authorization, "v1")) /\ IsHeaders(Single(LowerTrace, "v3"))
      /\ IsHeaders(Single(Authorization, "v3")) /\ IsHeaders(Single(LowerTrace, "v2"))
      /\ IsHeaders(Single(Variable, "${SET}"))
  BY MapOfOne
<1>2. /\ IsHeaders(Preferring(Single(Trace, "v1"), Single(LowerTrace, "v3")))
      /\ IsHeaders(Preferring(Single(Trace, "v1"), Single(Authorization, "v3")))
  BY <1>1, HeadersMerge
<1> QED
  BY <1>1, <1>2, MapOfNone DEF HeaderMaps, EnvMaps, Provided

Alphabet == SomeArgs \cup {Bare(Pair(Trace, "v3"))}

LEMMA ArgumentsAre == ASSUME NEW args \in ArgLists PROVE args \in Seq(Alphabet)
<1>1. \A opt \in {"header", "env", "auth"} : Option(opt) \in SomeArgs
  BY DEF SomeArgs
<1> DEFINE few == {"header", "env", "auth"}
<1>2. \/ args \in {<<>>}
      \/ args \in {<<a>> : a \in SomeArgs}
      \/ args \in {<<a, b>> : a, b \in SomeArgs}
      \/ args \in {<<Option(opt), a, b>> : opt \in few, a, b \in SomeArgs}
  BY DEF ArgLists
<1> HIDE DEF few
<1>3. SomeArgs \subseteq Alphabet
  BY DEF Alphabet
<1>4. CASE args \in {<<>>}
  BY <1>4
<1>5. CASE args \in {<<a>> : a \in SomeArgs}
  <2>1. PICK a \in SomeArgs : args = <<a>>
    BY <1>5
  <2> QED
    BY <1>3, <2>1
<1>6. CASE args \in {<<a, b>> : a, b \in SomeArgs}
  <2>1. PICK a \in SomeArgs, b \in SomeArgs : args = <<a, b>>
    BY <1>6
  <2> QED
    BY <1>3, <2>1
<1>7. CASE args \in {<<Option(opt), a, b>> : opt \in few, a, b \in SomeArgs}
  <2>1. PICK opt \in few, a \in SomeArgs, b \in SomeArgs : args = <<Option(opt), a, b>>
    BY <1>7
  <2>2. Option(opt) \in SomeArgs
    BY <1>1 DEF few
  <2> QED
    BY <1>3, <2>1, <2>2
<1> QED
  BY <1>2, <1>4, <1>5, <1>6, <1>7

LEMMA ProviderArgumentsAre == ASSUME NEW args \in ProviderArgs PROVE args \in Seq(Alphabet)
<1>1. PICK a, b, c : /\ a = Joined("auth", ModeText("oauth")) /\ b = Option("header")
                     /\ c = Bare(Pair(Trace, "v3"))
  OBVIOUS
<1>2. a \in Alphabet /\ b \in Alphabet /\ c \in Alphabet
  BY <1>1 DEF Alphabet, SomeArgs
<1>3. args = <<>> \/ args = <<a>> \/ args = <<b, c>>
  BY <1>1 DEF ProviderArgs
<1>4. CASE args = <<>>
  BY <1>4
<1>5. CASE args = <<a>>
  BY <1>2, <1>5
<1>6. CASE args = <<b, c>>
  BY <1>2, <1>6
<1> QED
  BY <1>3, <1>4, <1>5, <1>6

LEMMA CommandEntry ==
  ASSUME NEW args \in Seq(Alphabet), NEW env, IsHeaders(env), NEW headers, IsHeaders(headers)
  PROVE  IsEntry(Alphabet, Entry(Command, {}, args, env, headers, {}))
<1> DEFINE run == [http |-> FALSE, name |-> "run"]
           e == Entry(Command, {}, args, env, headers, {})
<1>1. /\ e.args = args /\ e.env = env /\ e.headers = headers /\ e.command = {run} /\ e.url = {}
      /\ e.provided = {}
  BY DEF Entry, Command
<1>2. run.http = FALSE
  OBVIOUS
<1> HIDE DEF e, run
<1>3. IsMapping(env)
  BY DEF IsHeaders
<1>4. IsEntry(Alphabet, e)
  BY <1>1, <1>2, <1>3, Zenon DEF IsEntry
<1> QED
  BY <1>4 DEF e

LEMMA UrlEntry ==
  ASSUME NEW args \in Seq(Alphabet), NEW headers, IsHeaders(headers),
         NEW provided, provided = {} \/ \E p : provided = {p} /\ IsHeaders(p)
  PROVE  IsEntry(Alphabet, Entry({}, Url, args, <<>>, headers, provided))
<1> DEFINE https == [http |-> TRUE, name |-> "https"]
           e == Entry({}, Url, args, <<>>, headers, provided)
<1>1. /\ e.args = args /\ e.env = <<>> /\ e.headers = headers /\ e.command = {} /\ e.url = {https}
      /\ e.provided = provided
  BY DEF Entry, Url
<1>2. https.http = TRUE
  OBVIOUS
<1> HIDE DEF e, https
<1>3. IsMapping(<<>>)
  BY MapOfNone DEF IsHeaders
<1>4. IsEntry(Alphabet, e)
  BY <1>1, <1>2, <1>3, Zenon DEF IsEntry
<1> QED
  BY <1>4 DEF e

LEMMA EntriesAre == ASSUME NEW entry \in Entries PROVE IsEntry(Alphabet, entry)
<1>1. CASE entry \in CommandEntries
  <2>1. PICK args \in ArgLists, env \in EnvMaps, headers \in {<<>>, Single(Trace, "v1")} :
             entry = Entry(Command, {}, args, env, headers, {})
    BY <1>1 DEF CommandEntries
  <2>2. IsHeaders(env) /\ IsHeaders(headers)
    BY MapsAreHeaders, MapOfNone
  <2> QED
    BY <2>1, <2>2, ArgumentsAre, CommandEntry
<1>2. CASE entry \in UrlEntries
  <2>1. PICK args \in ArgLists, headers \in HeaderMaps : entry = Entry({}, Url, args, <<>>, headers, {})
    BY <1>2 DEF UrlEntries
  <2>2. IsHeaders(headers) /\ args \in Seq(Alphabet)
    BY MapsAreHeaders, ArgumentsAre
  <2>3. IsEntry(Alphabet, Entry({}, Url, args, <<>>, headers, {}))
    BY <2>2, UrlEntry
  <2> QED
    BY <2>1, <2>3
<1>3. CASE entry \in ProviderEntries
  <2> DEFINE made(args, headers, p) == Entry({}, Url, args, <<>>, headers, {p})
  <2>1. ProviderEntries = {made(args, headers, p) :
                               args \in ProviderArgs, headers \in HeaderMaps, p \in Provided}
    BY DEF ProviderEntries
  <2> HIDE DEF made
  <2>2. PICK args \in ProviderArgs, headers \in HeaderMaps, p \in Provided : entry = made(args, headers, p)
    BY <1>3, <2>1
  <2>3. entry = Entry({}, Url, args, <<>>, headers, {p})
    BY <2>2 DEF made
  <2>4. IsHeaders(headers) /\ IsHeaders(p)
    BY MapsAreHeaders
  <2>5. args \in Seq(Alphabet)
    BY ProviderArgumentsAre
  <2>6. PICK provided : provided = {p}
    OBVIOUS
  <2>7. IsEntry(Alphabet, Entry({}, Url, args, <<>>, headers, provided))
    BY <2>4, <2>5, <2>6, UrlEntry
  <2> QED
    BY <2>3, <2>6, <2>7
<1> QED
  BY <1>1, <1>2, <1>3 DEF Entries

LEMMA AnswersAre == Answers \subseteq Answer
<1> DEFINE few == {200, 202, 204, 304, 401, 403, 404, 405, 500}
           hints == {{}, {"unauthorized"}}
           types == {"sse", "json", "html", "none"}
           challenges == {"none", "no text", "scheme", "unauthorized"}
<1>1. few \subseteq Nat /\ hints \subseteq SUBSET HintWords
  BY DEF HintWords
<1>2. /\ Answers = [status : few, type : types, message : BOOLEAN, challenge : challenges,
                    words : hints, late : BOOLEAN]
      /\ Answer = [status : Nat, type : types, message : BOOLEAN, challenge : challenges,
                   words : SUBSET HintWords, late : BOOLEAN]
  BY DEF Answers, Answer
<1> HIDE DEF few, hints, types, challenges
<1> QED
  BY <1>1, <1>2

LEMMA StartsAre == ASSUME NEW o \in Starts PROVE IsOptions(o)
<1>1. /\ o = [command |-> o.command, config |-> o.config, name |-> o.name, multi |-> o.multi,
             words |-> o.words, transform |-> o.transform, cli |-> o.cli, bash |-> o.bash,
             bashMode |-> o.bashMode, code |-> o.code, python |-> o.python,
             typescript |-> o.typescript, out |-> o.out]
      /\ o.transform \in {"compressed-tools", "cli", "just-bash"}
      /\ o.code \in {{}, {"python"}, {"typescript"}}
      /\ o.cli \in BOOLEAN /\ o.bash \in BOOLEAN /\ o.bashMode \in {FALSE}
      /\ o.python \in BOOLEAN /\ o.typescript \in BOOLEAN
  BY Zenon DEF Starts
<1>2. o.bashMode \in BOOLEAN
  BY <1>1, Zenon
<1> QED
  BY <1>1, <1>2, Zenon DEF IsOptions, Modes

LEMMA RequestsAre == \A request \in CallbackRequests : IsRequest(request)
<1> SUFFICES ASSUME NEW request \in CallbackRequests PROVE IsRequest(request)
  OBVIOUS
<1>1. /\ request.words \in 0..3
      /\ request.query \in {{}} \cup {{pairs} : pairs \in UNION {[1..n -> CallbackPairs] : n \in 0..3}}
  BY DEF CallbackRequests
<1>2. \A n \in 0..3 : \A q \in [1..n -> CallbackPairs] : DOMAIN q \subseteq Nat
  OBVIOUS
<1> QED
  BY <1>1, <1>2 DEF IsRequest

LEMMA TextsAre ==
  ASSUME NEW A, NEW B, B \subseteq A, NEW m \in Nat
  PROVE  UNION {[1..n -> B] : n \in 0..m} \subseteq Seq(A)
  OBVIOUS

\* So all that the run checks of the roads follows, whatever the configurations: one
\* connection from every description, requests and callbacks read for what they are, and
\* one start from the flags and from the SDKs.
THEOREM RoadsStayAgreed == Spec => []RoadsAgree
<1>1. RoadsAgreeFor(Entries)
  BY EntriesAre, DescriptionsAgree
<1>2. HttpAgreesFor(HttpBackends, Answers, HeaderMaps, Single("trace", "v4"))
  BY AnswersAre, RequestsAreRight
<1>3. StartsAgreeFor(Starts, Scripts, Hosts)
  BY StartsAre, StartsAgree
<1>4. CallbacksAreReadFor(CallbackTexts, PageTexts, CallbackRequests, LoginStates)
  <2> DEFINE c == {"%", "2", "B", "+", " ", "a"}
             p == {"&", "<", ">", "lt", "a"}
             A == EscapeSigns \cup Marks \cup c \cup p
  <2>1. EscapeSigns \cup Marks \subseteq A /\ c \subseteq A /\ p \subseteq A
    OBVIOUS
  <2> HIDE DEF A, c, p
  <2>2. CallbackTexts \subseteq Seq(A)
    BY <2>1, TextsAre DEF CallbackTexts, c
  <2>3. PageTexts \subseteq Seq(A)
    BY <2>1, TextsAre DEF PageTexts, p
  <2> QED
    BY <2>1, <2>2, <2>3, RequestsAre, CallbacksAreRead
<1>5. RoadsAgree
  BY <1>1, <1>2, <1>3, <1>4 DEF RoadsAgree
<1> QED
  BY <1>5, PTL
=============================================================================
