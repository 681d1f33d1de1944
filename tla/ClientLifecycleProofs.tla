------------------------ MODULE ClientLifecycleProofs ------------------------
(***************************************************************************)
(* Proofs that CompressorClient's fields always lead to the one session it *)
(* has running, that connect never answers with a session that was gone,   *)
(* and that a close covers every session begun before it, for any number   *)
(* of calls and sessions.  The layers of IInv are proved one on another.   *)
(***************************************************************************)
EXTENDS ClientLifecycle, TLAPS

USE NoneAssumption
USE DEF Gone, In, Made, Goto

\* Every step keeps the types, and closingPromise set while its shutdown runs.
LEMMA TypeStep ==
    ASSUME TypeOK, CallInv, Reachable, [Next]_vars
    PROVE  (TypeOK /\ CallInv)'
<1> USE DEF TypeOK, CallInv, Reachable, Client, CallState, Closes
<1>1. ASSUME NEW c \in Calls, Connect(c) PROVE (TypeOK /\ CallInv)'
  BY <1>1 DEF Connect, ConnectNow
<1>2. ASSUME NEW c \in Calls, ResumeConnect(c) PROVE (TypeOK /\ CallInv)'
  BY <1>2 DEF ResumeConnect, ConnectNow, ShutdownOver
<1>3. ASSUME NEW c \in Calls, ConnectReturns(c) PROVE (TypeOK /\ CallInv)'
  BY <1>3 DEF ConnectReturns, StartOver
<1>4. ASSUME NEW c \in Calls, Close(c) PROVE (TypeOK /\ CallInv)'
  BY <1>4 DEF Close
<1>5. ASSUME NEW c \in Calls, CloseReads(c) PROVE (TypeOK /\ CallInv)'
  BY <1>5 DEF CloseReads
<1>6. ASSUME NEW c \in Calls, CloseEnds(c) PROVE (TypeOK /\ CallInv)'
  BY <1>6 DEF CloseEnds
<1>7. ASSUME NEW c \in Calls, JoinedReturns(c) PROVE (TypeOK /\ CallInv)'
  BY <1>7 DEF JoinedReturns, JoinedOver
<1>8. ASSUME NEW c \in Calls, ProxyClose(c) PROVE (TypeOK /\ CallInv)'
  BY <1>8 DEF ProxyClose
<1>9. ASSUME NEW c \in Calls, ReleaseReturns(c) PROVE (TypeOK /\ CallInv)'
  BY <1>9 DEF ReleaseReturns, ReleaseOver
<1>10. ASSUME NEW s \in Sessions, StartSucceeds(s) PROVE (TypeOK /\ CallInv)'
  <2>1. /\ call' \in [Calls -> CallState]
        /\ \A d \in Calls : call'[d].op = call[d].op /\ call'[d].on = call[d].on
        /\ \A d \in Calls : call'[d].pc = IF d \in Waiting(s) THEN "releasing" ELSE call[d].pc
    BY <1>10 DEF StartSucceeds, Waiting
  <2>2. client' \in Client /\ client'.closing = client.closing
    <3>1. PICK p \in Sessions \cup {None}, q \in Sessions \cup {None} :
             client' = [client EXCEPT !.connecting = q, !.proxy = p]
      BY <1>10 DEF StartSucceeds
    <3>. QED
      BY <3>1
  <2>3. /\ native' \in [Sessions -> Gone \cup {"unused", "starting", "live"}]
        /\ \A t \in Sessions \ {s} : native'[t] = native[t]
    BY <1>10 DEF StartSucceeds
  <2>4. TypeOK'
    BY <2>1, <2>2, <2>3 DEF Waiting
  <2>5. CallInv'
    BY <2>1, <2>3 DEF Waiting
  <2>. QED
    BY <2>4, <2>5
<1>11. ASSUME NEW s \in Sessions, StartFails(s) PROVE (TypeOK /\ CallInv)'
  BY <1>11 DEF StartFails, Waiting
<1>12. ASSUME NEW s \in Sessions, NativeCloses(s) PROVE (TypeOK /\ CallInv)'
  BY <1>12 DEF NativeCloses
<1>13. CASE UNCHANGED vars
  BY <1>13 DEF vars
<1>. QED
  BY <1>1, <1>2, <1>3, <1>4, <1>5, <1>6, <1>7, <1>8, <1>9, <1>10, <1>11, <1>12, <1>13 DEF Next, Done

\* Every step keeps the running session, and it alone, in the client's fields.
LEMMA ReachableStep ==
    ASSUME TypeOK, CallInv, Reachable, [Next]_vars
    PROVE  Reachable'
<1> USE DEF TypeOK, CallInv, Client, CallState, Reachable
<1>1. ASSUME NEW c \in Calls, Connect(c) PROVE Reachable'
  BY <1>1 DEF Connect, ConnectNow
<1>2. ASSUME NEW c \in Calls, ResumeConnect(c) PROVE Reachable'
  BY <1>2 DEF ResumeConnect, ConnectNow, ShutdownOver
<1>3. ASSUME NEW c \in Calls, ConnectReturns(c) PROVE Reachable'
  BY <1>3 DEF ConnectReturns, StartOver
<1>4. ASSUME NEW c \in Calls, Close(c) PROVE Reachable'
  BY <1>4 DEF Close
<1>5. ASSUME NEW c \in Calls, CloseReads(c) PROVE Reachable'
  BY <1>5 DEF CloseReads
<1>6. ASSUME NEW c \in Calls, CloseEnds(c) PROVE Reachable'
  BY <1>6 DEF CloseEnds
<1>7. ASSUME NEW c \in Calls, JoinedReturns(c) PROVE Reachable'
  BY <1>7 DEF JoinedReturns, JoinedOver
<1>8. ASSUME NEW c \in Calls, ProxyClose(c) PROVE Reachable'
  BY <1>8 DEF ProxyClose
<1>9. ASSUME NEW c \in Calls, ReleaseReturns(c) PROVE Reachable'
  BY <1>9 DEF ReleaseReturns, ReleaseOver
<1>10. ASSUME NEW s \in Sessions, StartSucceeds(s) PROVE Reachable'
  BY <1>10 DEF StartSucceeds, Waiting
<1>11. ASSUME NEW s \in Sessions, StartFails(s) PROVE Reachable'
  BY <1>11 DEF StartFails, Waiting
<1>12. ASSUME NEW s \in Sessions, NativeCloses(s) PROVE Reachable'
  BY <1>12 DEF NativeCloses
<1>13. CASE UNCHANGED vars
  BY <1>13 DEF vars
<1>. QED
  BY <1>1, <1>2, <1>3, <1>4, <1>5, <1>6, <1>7, <1>8, <1>9, <1>10, <1>11, <1>12, <1>13 DEF Next, Done

\* A session that is gone stays gone; what connect goes on to return is not.
LEMMA ConnectStep ==
    ASSUME TypeOK, CallInv, Reachable, ConnectInv, [Next]_vars
    PROVE  ConnectInv'
<1> USE DEF TypeOK, CallInv, Client, CallState, Reachable, ConnectInv
<1>1. ASSUME NEW c \in Calls, Connect(c) PROVE ConnectInv'
  BY <1>1 DEF Connect, ConnectNow
<1>2. ASSUME NEW c \in Calls, ResumeConnect(c) PROVE ConnectInv'
  BY <1>2 DEF ResumeConnect, ConnectNow, ShutdownOver
<1>3. ASSUME NEW c \in Calls, ConnectReturns(c) PROVE ConnectInv'
  BY <1>3 DEF ConnectReturns, StartOver
<1>4. ASSUME NEW c \in Calls, Close(c) PROVE ConnectInv'
  BY <1>4 DEF Close
<1>5. ASSUME NEW c \in Calls, CloseReads(c) PROVE ConnectInv'
  BY <1>5 DEF CloseReads
<1>6. ASSUME NEW c \in Calls, CloseEnds(c) PROVE ConnectInv'
  BY <1>6 DEF CloseEnds
<1>7. ASSUME NEW c \in Calls, JoinedReturns(c) PROVE ConnectInv'
  BY <1>7 DEF JoinedReturns, JoinedOver
<1>8. ASSUME NEW c \in Calls, ProxyClose(c) PROVE ConnectInv'
  BY <1>8 DEF ProxyClose
<1>9. ASSUME NEW c \in Calls, ReleaseReturns(c) PROVE ConnectInv'
  BY <1>9 DEF ReleaseReturns, ReleaseOver
<1>10. ASSUME NEW s \in Sessions, StartSucceeds(s) PROVE ConnectInv'
  BY <1>10 DEF StartSucceeds, Waiting
<1>11. ASSUME NEW s \in Sessions, StartFails(s) PROVE ConnectInv'
  BY <1>11 DEF StartFails, Waiting
<1>12. ASSUME NEW s \in Sessions, NativeCloses(s) PROVE ConnectInv'
  BY <1>12 DEF NativeCloses
<1>13. CASE UNCHANGED vars
  BY <1>13 DEF vars
<1>. QED
  BY <1>1, <1>2, <1>3, <1>4, <1>5, <1>6, <1>7, <1>8, <1>9, <1>10, <1>11, <1>12, <1>13 DEF Next, Done

\* Every step of a shutdown deals with one more way to leave a session running.
LEMMA CloseStep ==
    ASSUME TypeOK, CallInv, Reachable, CloseInv, [Next]_vars
    PROVE  CloseInv'
<1> USE DEF TypeOK, CallInv, Client, CallState, Reachable, CloseInv
<1>1. ASSUME NEW c \in Calls, Connect(c) PROVE CloseInv'
  BY <1>1 DEF Connect, ConnectNow
<1>2. ASSUME NEW c \in Calls, ResumeConnect(c) PROVE CloseInv'
  BY <1>2 DEF ResumeConnect, ConnectNow, ShutdownOver
<1>3. ASSUME NEW c \in Calls, ConnectReturns(c) PROVE CloseInv'
  BY <1>3 DEF ConnectReturns, StartOver
<1>4. ASSUME NEW c \in Calls, Close(c) PROVE CloseInv'
  BY <1>4 DEF Close
<1>5. ASSUME NEW c \in Calls, CloseReads(c) PROVE CloseInv'
  BY <1>5 DEF CloseReads
<1>6. ASSUME NEW c \in Calls, CloseEnds(c) PROVE CloseInv'
  BY <1>6 DEF CloseEnds
<1>7. ASSUME NEW c \in Calls, JoinedReturns(c) PROVE CloseInv'
  BY <1>7 DEF JoinedReturns, JoinedOver
<1>8. ASSUME NEW c \in Calls, ProxyClose(c) PROVE CloseInv'
  BY <1>8 DEF ProxyClose
<1>9. ASSUME NEW c \in Calls, ReleaseReturns(c) PROVE CloseInv'
  BY <1>9 DEF ReleaseReturns, ReleaseOver
<1>10. ASSUME NEW s \in Sessions, StartSucceeds(s) PROVE CloseInv'
  BY <1>10 DEF StartSucceeds, Waiting
<1>11. ASSUME NEW s \in Sessions, StartFails(s) PROVE CloseInv'
  BY <1>11 DEF StartFails, Waiting
<1>12. ASSUME NEW s \in Sessions, NativeCloses(s) PROVE CloseInv'
  BY <1>12 DEF NativeCloses
<1>13. CASE UNCHANGED vars
  BY <1>13 DEF vars
<1>. QED
  BY <1>1, <1>2, <1>3, <1>4, <1>5, <1>6, <1>7, <1>8, <1>9, <1>10, <1>11, <1>12, <1>13 DEF Next, Done

\* The inductive invariant.
THEOREM Invariance == Spec => []IInv
<1>1. Init => IInv
  BY DEF Init, IInv, TypeOK, CallInv, Reachable, ConnectInv, CloseInv, Client,
         CallState, Closes
<1>2. IInv /\ [Next]_vars => IInv'
  BY TypeStep, ReachableStep, ConnectStep, CloseStep DEF IInv
<1>. QED
  BY <1>1, <1>2, PTL DEF Spec

\* Types and closingPromise, for any number of calls and sessions.
THEOREM TypeCorrect == Spec => []TypeOK
<1>1. IInv => TypeOK
  BY DEF IInv
<1>. QED
  BY <1>1, Invariance, PTL

\* The client's fields name its running session, and no other: there is one.
THEOREM Shared ==
    Spec => [](Reachable /\ \A s, t \in In({"starting", "live"}) : s = t)
<1>1. IInv => Reachable /\ \A s, t \in In({"starting", "live"}) : s = t
  BY DEF IInv, TypeOK, Client, Reachable, In
<1>. QED
  BY <1>1, Invariance, PTL

\* connect returns no session that was gone when it was called.
THEOREM Fresh == Spec => []FreshConnect
<1>1. IInv => FreshConnect
  BY DEF IInv, ConnectInv, FreshConnect
<1>. QED
  BY <1>1, Invariance, PTL

\* A close that has returned has left no session running that was when it began.
THEOREM Covered == Spec => []CloseCovers
<1>1. IInv => CloseCovers
  BY DEF IInv, CloseInv, CloseCovers
<1>. QED
  BY <1>1, Invariance, PTL

=============================================================================
