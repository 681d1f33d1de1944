--------------------------- MODULE CliScriptProofs ---------------------------
(***************************************************************************)
(* Proofs of CliScript's safety for any number of sessions, ports and      *)
(* client runs.  What a script promises rests on what an update has in     *)
(* hand while the script is empty: PreservedInv says that it has every     *)
(* ready session, but for the missed and the overtaken.  After them, what  *)
(* holds of its callers for any tools, schemas and command lines: a        *)
(* schema's parts are less deep than it is, so that what goes from a       *)
(* schema to its parts is a definition (TreeRecursion).  Last, what holds  *)
(* of the forms that tools are offered in: at most one tool answers to a   *)
(* subcommand, what the native parser returns is settled, and what help    *)
(* tells a user to type does what it says.                                 *)
(***************************************************************************)
EXTENDS Callers, WellFoundedInduction, SequenceTheorems, FiniteSetTheorems, TLAPS

-----------------------------------------------------------------------------
(* The script and its clients *)

\* A serving session holds a port of its own; nobody else holds one.
PortInv ==
    /\ \A s \in Sessions : pc[s] \in Serving <=> port[s] # None
    /\ \A r, s \in Sessions : port[r] = port[s] /\ port[r] # None => r = s

\* An entry was true when it was written and is true while its session runs.
Accurate(e) ==
    /\ pc[e.pid] # "new"
    /\ pc[e.pid] \in Serving => port[e.pid] = e.port

TrueInv ==
    /\ \A e \in bridges : Accurate(e)
    /\ \A s \in Sessions : \A e \in found[s] : Accurate(e)
    /\ \A c \in Clients : \A e \in client[c].known : Accurate(e)
    /\ \A c \in Clients : client[c].pc = "sending" => client[c].entry \in client[c].known

PreservedInv ==
    \A w \in Sessions : pc[w] \in Updating =>
        \A r \in Ready : r \in missed[w] \/ r \in overtaken \/ Own(r) \in found[w]

\* What a client run whose session was listed knows of a session still ready.
Due(c) == client[c].due = "listed" /\ client[c].tree \in Ready

ClientInv ==
    \A c \in Clients : Due(c) =>
        /\ client[c].pc = "finding" => Own(client[c].tree) \in client[c].known
        /\ client[c].pc = "sending" => client[c].entry = Own(client[c].tree)
        /\ client[c].pc = "done" => client[c].answer = client[c].tree
        /\ client[c].pc # "off"

\* Every client that is off has its first record, and a stopped session stays so.
WasReady ==
    \A c \in Clients : client[c].due = "listed" =>
        /\ client[c].tree \in Sessions
        /\ pc[client[c].tree] \in {"ready", "stopped"}

IInv ==
    /\ TypeOK
    /\ PortInv
    /\ TrueInv
    /\ PreservedInv
    /\ ListedUnlessOvertaken
    /\ WasReady
    /\ ClientInv
    /\ OnlyTheGoneAreRefused

USE DEF Serving, Updating, Ready, Own, Goto, Entry

-----------------------------------------------------------------------------
LEMMA InitInv == Init => IInv
<1> SUFFICES ASSUME Init PROVE IInv
  OBVIOUS
<1> USE DEF Init
<1>1. \A c \in Clients : client[c] = Off
  OBVIOUS
<1>2. TypeOK
  <2>1. Off \in Client
    BY DEF Off, Client
  <2>. QED
    BY <1>1, <2>1 DEF TypeOK, Off
<1>3. PortInv /\ PreservedInv /\ ListedUnlessOvertaken
  BY CliScriptAssumption DEF PortInv, PreservedInv, ListedUnlessOvertaken
<1>4. TrueInv /\ WasReady /\ ClientInv /\ OnlyTheGoneAreRefused
  BY <1>1, CliScriptAssumption DEF Failures, TrueInv, WasReady, ClientInv, OnlyTheGoneAreRefused, Due, Off
<1>. QED
  BY <1>2, <1>3, <1>4 DEF IInv

-----------------------------------------------------------------------------
\* What a step of one client run changes.
LEMMA AnsweredClient ==
    ASSUME TypeOK, NEW c \in Clients, NEW how, Answered(c, how)
    PROVE  /\ \A d \in Clients \ {c} : client'[d] = client[d]
           /\ client'[c].pc = "done"
           /\ client'[c].answer = how
           /\ client'[c].tree = client[c].tree
           /\ client'[c].known = client[c].known
           /\ client'[c].entry = client[c].entry
           /\ client'[c].due = client[c].due
<1>1. client[c] \in Client
  BY DEF TypeOK
<1>. QED
  BY <1>1 DEF TypeOK, Answered, Client

LEMMA ChosenClient ==
    ASSUME TypeOK, NEW c \in Clients, NEW e, Chosen(c, e)
    PROVE  /\ \A d \in Clients \ {c} : client'[d] = client[d]
           /\ client'[c].pc = "sending"
           /\ client'[c].answer = client[c].answer
           /\ client'[c].tree = client[c].tree
           /\ client'[c].known = client[c].known
           /\ client'[c].entry = e
           /\ client'[c].due = client[c].due
<1>1. client[c] \in Client
  BY DEF TypeOK
<1>. QED
  BY <1>1 DEF TypeOK, Chosen, Client

LEMMA BegunClient ==
    ASSUME TypeOK, NEW c \in Clients, Launch(c)
    PROVE  \E tree \in Sessions \cup {None} :
              /\ \A d \in Clients \ {c} : client'[d] = client[d]
              /\ client'[c] = Begun(tree)
  BY DEF TypeOK, Launch

\* Types are kept.
LEMMA TypeStep ==
    ASSUME TypeOK, PortInv, [Next]_vars
    PROVE  TypeOK'
<1> USE DEF TypeOK
<1>1. ASSUME NEW s \in Sessions, Start(s) PROVE TypeOK'
  BY <1>1 DEF Start
<1>2. ASSUME NEW s \in Sessions, Merge(s) PROVE TypeOK'
  BY <1>2 DEF Merge
<1>3. ASSUME NEW s \in Sessions, Truncate(s) PROVE TypeOK'
  BY <1>3 DEF Truncate
<1>4. ASSUME NEW s \in Sessions, Write(s) PROVE TypeOK'
  <2>1. Own(s) \in Entry
    BY <1>4, CliScriptAssumption DEF Write, PortInv
  <2>. QED
    BY <1>4, <2>1 DEF Write
<1>5. ASSUME NEW s \in Sessions, Stop(s) PROVE TypeOK'
  BY <1>5 DEF Stop
<1>6. ASSUME NEW c \in Clients, Launch(c) PROVE TypeOK'
  <2>1. \A tree \in Sessions \cup {None} : Begun(tree) \in Client /\ Begun(tree).pc # "sending"
    BY ZenonT(60) DEF Begun, Off, Client, Failures
  <2>. QED
    BY <1>6, <2>1 DEF Launch
<1>7. ASSUME NEW c \in Clients, Find(c) PROVE TypeOK'
  <2>1. client[c] \in Client
    OBVIOUS
  <2>2. Candidates(c) \subseteq Entry
    BY <2>1 DEF Candidates, Client
  <2>3. CASE Answered(c, "no bridge")
    BY <1>7, <2>1, <2>3 DEF Find, Answered, Client, Failures
  <2>4. ASSUME NEW e \in Candidates(c), Chosen(c, e) PROVE TypeOK'
    BY <1>7, <2>1, <2>2, <2>4 DEF Find, Chosen, Client
  <2>. QED
    BY <1>7, <2>3, <2>4 DEF Find
<1>8. ASSUME NEW c \in Clients, Send(c) PROVE TypeOK'
  <2>1. client[c] \in Client /\ client[c].entry \in Entry
    BY <1>8 DEF Send
  <2>2. PICK how \in Sessions \cup {"refused", "unauthorized"} : Answered(c, how)
    BY <1>8, <2>1 DEF Send
  <2>. QED
    BY <1>8, <2>1, <2>2 DEF Send, Answered, Client, Failures
<1>9. CASE UNCHANGED vars
  BY <1>9 DEF vars
<1>. QED
  BY <1>1, <1>2, <1>3, <1>4, <1>5, <1>6, <1>7, <1>8, <1>9 DEF Next

\* A port has one holder, a serving session.
LEMMA PortStep ==
    ASSUME TypeOK, PortInv, [Next]_vars
    PROVE  PortInv'
<1> USE DEF TypeOK, PortInv
<1>1. ASSUME NEW s \in Sessions, Start(s) PROVE PortInv'
  BY <1>1, CliScriptAssumption DEF Start
<1>2. ASSUME NEW s \in Sessions, Merge(s) PROVE PortInv'
  BY <1>2 DEF Merge
<1>3. ASSUME NEW s \in Sessions, Truncate(s) PROVE PortInv'
  BY <1>3 DEF Truncate
<1>4. ASSUME NEW s \in Sessions, Write(s) PROVE PortInv'
  BY <1>4 DEF Write
<1>5. ASSUME NEW s \in Sessions, Stop(s) PROVE PortInv'
  BY <1>5, CliScriptAssumption DEF Stop
<1>6. ASSUME NEW c \in Clients, Launch(c) PROVE PortInv'
  BY <1>6 DEF Launch
<1>7. ASSUME NEW c \in Clients, Find(c) PROVE PortInv'
  BY <1>7 DEF Find
<1>8. ASSUME NEW c \in Clients, Send(c) PROVE PortInv'
  BY <1>8 DEF Send
<1>9. CASE UNCHANGED vars
  BY <1>9 DEF vars
<1>. QED
  BY <1>1, <1>2, <1>3, <1>4, <1>5, <1>6, <1>7, <1>8, <1>9 DEF Next

\* No entry names a wrong port for a session that runs.
LEMMA TrueStep ==
    ASSUME TypeOK, PortInv, TrueInv, [Next]_vars
    PROVE  TrueInv'
<1> USE DEF TrueInv, Accurate
<1>1. ASSUME NEW s \in Sessions, Start(s) PROVE TrueInv'
  BY <1>1 DEF Start, TypeOK
<1>2. ASSUME NEW s \in Sessions, Merge(s) PROVE TrueInv'
  BY <1>2 DEF Merge, TypeOK
<1>3. ASSUME NEW s \in Sessions, Truncate(s) PROVE TrueInv'
  BY <1>3 DEF Truncate, TypeOK
<1>4. ASSUME NEW s \in Sessions, Write(s) PROVE TrueInv'
  <2>1. \A e \in bridges' : Accurate(e)'
    BY <1>4 DEF Write, PortInv, TypeOK
  <2>. QED
    BY <1>4, <2>1 DEF Write, TypeOK
<1>5. ASSUME NEW s \in Sessions, Stop(s) PROVE TrueInv'
  BY <1>5 DEF Stop, TypeOK
<1>6. ASSUME NEW c \in Clients, Launch(c) PROVE TrueInv'
  <2>1. \A tree \in Sessions \cup {None} : Begun(tree).known \in {{}, bridges} /\ Begun(tree).pc # "sending"
    BY DEF Begun, Off
  <2>. QED
    BY <1>6, <2>1 DEF Launch, TypeOK
<1>7. ASSUME NEW c \in Clients, Find(c) PROVE TrueInv'
  <2>0. UNCHANGED <<pc, port, found, script, bridges, missed, overtaken>>
    BY <1>7 DEF Find, TypeOK
  <2>1. client[c] \in Client /\ Candidates(c) \subseteq client[c].known
    BY DEF Candidates, TypeOK
  <2>2. ASSUME Answered(c, "no bridge") PROVE TrueInv'
    <3>1. /\ \A d \in Clients \ {c} : client'[d] = client[d]
          /\ client'[c].pc = "done"
          /\ client'[c].known = client[c].known
      BY <2>2, AnsweredClient
    <3>. QED
      BY <2>0, <3>1
  <2>3. ASSUME NEW e \in Candidates(c), Chosen(c, e) PROVE TrueInv'
    BY <2>0, <2>1, <2>3, ChosenClient
  <2>. QED
    BY <1>7, <2>2, <2>3 DEF Find, TypeOK
<1>8. ASSUME NEW c \in Clients, Send(c) PROVE TrueInv'
  <2>0. UNCHANGED <<pc, port, found, script, bridges, missed, overtaken>>
    BY <1>8 DEF Send, TypeOK
  <2>1. PICK how : Answered(c, how)
    BY <1>8 DEF Send, TypeOK
  <2>2. /\ \A d \in Clients \ {c} : client'[d] = client[d]
        /\ client'[c].pc = "done"
        /\ client'[c].answer = how
        /\ client'[c].tree = client[c].tree
        /\ client'[c].known = client[c].known
        /\ client'[c].entry = client[c].entry
        /\ client'[c].due = client[c].due
    BY <2>1, AnsweredClient
  <2>. QED
    BY <2>0, <2>1, <2>2
<1>9. CASE UNCHANGED vars
  BY <1>9 DEF vars
<1>. QED
  BY <1>1, <1>2, <1>3, <1>4, <1>5, <1>6, <1>7, <1>8, <1>9 DEF Next

\* What an update has in hand.
LEMMA PreservedStep ==
    ASSUME IInv, [Next]_vars
    PROVE  PreservedInv'
<1> USE DEF IInv, PreservedInv
<1>1. ASSUME NEW s \in Sessions, Start(s) PROVE PreservedInv'
  BY <1>1 DEF Start, TypeOK
<1>2. ASSUME NEW s \in Sessions, Merge(s) PROVE PreservedInv'
  <2>1. \A r \in Ready : Live(Own(r))
    BY DEF Live
  <2>. QED
    BY <1>2, <2>1 DEF Merge, ListedUnlessOvertaken, TypeOK
<1>3. ASSUME NEW s \in Sessions, Truncate(s) PROVE PreservedInv'
  BY <1>3 DEF Truncate, TypeOK
<1>4. ASSUME NEW s \in Sessions, Write(s) PROVE PreservedInv'
  <2>1. \A r \in Ready' : r = s \/ r \in Ready
    BY <1>4 DEF Write, TypeOK
  <2>2. \A r \in Sessions : Own(r)' = Own(r) /\ found'[r] = found[r]
    BY <1>4 DEF Write
  <2>3. ASSUME NEW w \in Sessions, pc'[w] \in Updating
        PROVE  pc[w] \in Updating /\ w # s /\ missed'[w] = missed[w] \cup {s}
    BY <1>4, <2>3 DEF Write, TypeOK
  <2>4. overtaken \ {s} \subseteq overtaken'
    BY <1>4 DEF Write
  <2>. QED
    BY <2>1, <2>2, <2>3, <2>4
<1>5. ASSUME NEW s \in Sessions, Stop(s) PROVE PreservedInv'
  BY <1>5 DEF Stop, TypeOK
<1>6. ASSUME NEW c \in Clients, Launch(c) PROVE PreservedInv'
  BY <1>6 DEF Launch, TypeOK
<1>7. ASSUME NEW c \in Clients, Find(c) PROVE PreservedInv'
  BY <1>7 DEF Find, TypeOK
<1>8. ASSUME NEW c \in Clients, Send(c) PROVE PreservedInv'
  BY <1>8 DEF Send, TypeOK
<1>9. CASE UNCHANGED vars
  BY <1>9 DEF vars
<1>. QED
  BY <1>1, <1>2, <1>3, <1>4, <1>5, <1>6, <1>7, <1>8, <1>9 DEF Next

\* A whole script has every ready session but for the overtaken.
LEMMA ListedStep ==
    ASSUME IInv, [Next]_vars
    PROVE  ListedUnlessOvertaken'
<1> USE DEF IInv, ListedUnlessOvertaken
<1>1. ASSUME NEW s \in Sessions, Start(s) PROVE ListedUnlessOvertaken'
  BY <1>1 DEF Start, TypeOK
<1>2. ASSUME NEW s \in Sessions, Merge(s) PROVE ListedUnlessOvertaken'
  BY <1>2 DEF Merge, TypeOK
<1>3. ASSUME NEW s \in Sessions, Truncate(s) PROVE ListedUnlessOvertaken'
  BY <1>3 DEF Truncate, TypeOK
<1>4. ASSUME NEW s \in Sessions, Write(s) PROVE ListedUnlessOvertaken'
  BY <1>4 DEF Write, PreservedInv, TypeOK
<1>5. ASSUME NEW s \in Sessions, Stop(s) PROVE ListedUnlessOvertaken'
  BY <1>5 DEF Stop, TypeOK
<1>6. ASSUME NEW c \in Clients, Launch(c) PROVE ListedUnlessOvertaken'
  BY <1>6 DEF Launch, TypeOK
<1>7. ASSUME NEW c \in Clients, Find(c) PROVE ListedUnlessOvertaken'
  BY <1>7 DEF Find, TypeOK
<1>8. ASSUME NEW c \in Clients, Send(c) PROVE ListedUnlessOvertaken'
  BY <1>8 DEF Send, TypeOK
<1>9. CASE UNCHANGED vars
  BY <1>9 DEF vars
<1>. QED
  BY <1>1, <1>2, <1>3, <1>4, <1>5, <1>6, <1>7, <1>8, <1>9 DEF Next

\* A session that was listed is ready or stopped.
LEMMA WasReadyStep ==
    ASSUME IInv, [Next]_vars
    PROVE  WasReady'
<1> USE DEF IInv, WasReady
<1>1. ASSUME NEW s \in Sessions, Start(s) PROVE WasReady'
  BY <1>1 DEF Start, TypeOK
<1>2. ASSUME NEW s \in Sessions, Merge(s) PROVE WasReady'
  BY <1>2 DEF Merge, TypeOK
<1>3. ASSUME NEW s \in Sessions, Truncate(s) PROVE WasReady'
  BY <1>3 DEF Truncate, TypeOK
<1>4. ASSUME NEW s \in Sessions, Write(s) PROVE WasReady'
  BY <1>4 DEF Write, TypeOK
<1>5. ASSUME NEW s \in Sessions, Stop(s) PROVE WasReady'
  BY <1>5 DEF Stop, TypeOK
<1>6. ASSUME NEW c \in Clients, Launch(c) PROVE WasReady'
  <2>1. \A tree \in Sessions \cup {None} : Begun(tree).due = "listed" => tree \in Ready /\ Begun(tree).tree = tree
    BY DEF Begun, Off
  <2>. QED
    BY <1>6, <2>1 DEF Launch, TypeOK
<1>7. ASSUME NEW c \in Clients, Find(c) PROVE WasReady'
  <2>0. UNCHANGED <<pc, port, found, script, bridges, missed, overtaken>>
    BY <1>7 DEF Find, TypeOK
  <2>1. ASSUME Answered(c, "no bridge") PROVE WasReady'
    <3>1. /\ \A d \in Clients \ {c} : client'[d] = client[d]
          /\ client'[c].pc = "done"
          /\ client'[c].answer = "no bridge"
          /\ client'[c].tree = client[c].tree
          /\ client'[c].known = client[c].known
          /\ client'[c].entry = client[c].entry
          /\ client'[c].due = client[c].due
      BY <2>1, AnsweredClient
    <3>. QED
      BY <2>0, <2>1, <3>1
  <2>2. ASSUME NEW e \in Candidates(c), Chosen(c, e) PROVE WasReady'
    BY <2>0, <2>2, ChosenClient
  <2>. QED
    BY <1>7, <2>1, <2>2 DEF Find, TypeOK
<1>8. ASSUME NEW c \in Clients, Send(c) PROVE WasReady'
  <2>0. UNCHANGED <<pc, port, found, script, bridges, missed, overtaken>>
    BY <1>8 DEF Send, TypeOK
  <2>1. PICK how : Answered(c, how)
    BY <1>8 DEF Send, TypeOK
  <2>2. /\ \A d \in Clients \ {c} : client'[d] = client[d]
        /\ client'[c].pc = "done"
        /\ client'[c].answer = how
        /\ client'[c].tree = client[c].tree
        /\ client'[c].known = client[c].known
        /\ client'[c].entry = client[c].entry
        /\ client'[c].due = client[c].due
    BY <2>1, AnsweredClient
  <2>. QED
    BY <2>0, <2>1, <2>2
<1>9. CASE UNCHANGED vars
  BY <1>9 DEF vars
<1>. QED
  BY <1>1, <1>2, <1>3, <1>4, <1>5, <1>6, <1>7, <1>8, <1>9 DEF Next

\* A client run follows its listed session.
LEMMA ClientStep ==
    ASSUME IInv, [Next]_vars
    PROVE  ClientInv'
<1> USE DEF IInv, ClientInv, Due
<1>1. ASSUME NEW s \in Sessions, Start(s) PROVE ClientInv'
  <2>1. Ready' = Ready /\ \A r \in Ready : Own(r)' = Own(r)
    BY <1>1 DEF Start, TypeOK
  <2>2. client' = client
    BY <1>1 DEF Start
  <2>. QED
    BY <2>1, <2>2
<1>2. ASSUME NEW s \in Sessions, Merge(s) PROVE ClientInv'
  BY <1>2 DEF Merge, TypeOK
<1>3. ASSUME NEW s \in Sessions, Truncate(s) PROVE ClientInv'
  BY <1>3 DEF Truncate, TypeOK
<1>4. ASSUME NEW s \in Sessions, Write(s) PROVE ClientInv'
  BY <1>4 DEF Write, WasReady, TypeOK
<1>5. ASSUME NEW s \in Sessions, Stop(s) PROVE ClientInv'
  BY <1>5 DEF Stop, TypeOK
<1>6. ASSUME NEW c \in Clients, Launch(c) PROVE ClientInv'
  <2>1. \A tree \in Sessions \cup {None} : Begun(tree).due = "listed" =>
           /\ script # "empty"
           /\ tree \in Ready \ overtaken
           /\ Begun(tree).tree = tree
           /\ Begun(tree).pc = "finding"
           /\ Begun(tree).known = bridges
    BY DEF Begun, Off
  <2>2. PICK tree \in Sessions \cup {None} :
           /\ \A d \in Clients \ {c} : client'[d] = client[d]
           /\ client'[c] = Begun(tree)
    BY <1>6, BegunClient
  <2>3. /\ script = "whole" \/ script = "empty"
        /\ UNCHANGED <<pc, port>>
    BY <1>6 DEF Launch, TypeOK
  <2>4. Begun(tree).due = "listed" => Own(tree) \in bridges
    BY <2>1, <2>3 DEF ListedUnlessOvertaken
  <2>. QED
    BY <2>1, <2>2, <2>3, <2>4
<1>7. ASSUME NEW c \in Clients, Find(c) PROVE ClientInv'
  <2>0. UNCHANGED <<pc, port, found, script, bridges, missed, overtaken>>
    BY <1>7 DEF Find, TypeOK
  <2>1. client[c] \in Client
    BY DEF TypeOK
  <2>2. ASSUME Due(c) PROVE Candidates(c) = {Own(client[c].tree)}
    <3>1. Own(client[c].tree) \in client[c].known /\ Live(Own(client[c].tree))
      BY <1>7, <2>2 DEF Find, Live, TypeOK
    <3>2. \A e \in client[c].known : e.pid = client[c].tree => e = Own(client[c].tree)
      BY <2>1, <2>2 DEF TrueInv, Accurate, Client
    <3>. QED
      BY <3>1, <3>2 DEF Candidates
  <2>3. ASSUME Answered(c, "no bridge"), Candidates(c) = {} PROVE ClientInv'
    <3>1. /\ \A d \in Clients \ {c} : client'[d] = client[d]
          /\ client'[c].pc = "done"
          /\ client'[c].answer = "no bridge"
          /\ client'[c].tree = client[c].tree
          /\ client'[c].known = client[c].known
          /\ client'[c].entry = client[c].entry
          /\ client'[c].due = client[c].due
      BY <2>3, AnsweredClient
    <3>2. ~Due(c)
      BY <2>2, <2>3
    <3>. QED
      BY <2>0, <3>1, <3>2, ZenonT(60)
  <2>4. ASSUME NEW e \in Candidates(c), Chosen(c, e) PROVE ClientInv'
    BY <2>0, <2>2, <2>4, ChosenClient
  <2>. QED
    BY <1>7, <2>3, <2>4 DEF Find, TypeOK
<1>8. ASSUME NEW c \in Clients, Send(c) PROVE ClientInv'
  <2>0. UNCHANGED <<pc, port, found, script, bridges, missed, overtaken>>
    BY <1>8 DEF Send, TypeOK
  <2>1. PICK how : Answered(c, how) /\ (Due(c) => how = client[c].tree)
    <3>1. CASE Due(c)
      <4>1. client[c].entry = Own(client[c].tree)
        BY <1>8, <3>1 DEF Send
      <4>. QED
        BY <1>8, <4>1 DEF Send
    <3>2. CASE ~Due(c)
      BY <1>8, <3>2 DEF Send
    <3>. QED
      BY <3>1, <3>2
  <2>2. /\ \A d \in Clients \ {c} : client'[d] = client[d]
        /\ client'[c].pc = "done"
        /\ client'[c].answer = how
        /\ client'[c].tree = client[c].tree
        /\ client'[c].known = client[c].known
        /\ client'[c].entry = client[c].entry
        /\ client'[c].due = client[c].due
    BY <2>1, AnsweredClient
  <2>. QED
    BY <2>0, <2>1, <2>2
<1>9. CASE UNCHANGED vars
  BY <1>9 DEF vars
<1>. QED
  BY <1>1, <1>2, <1>3, <1>4, <1>5, <1>6, <1>7, <1>8, <1>9 DEF Next

\* Only a session that is gone is refused.
LEMMA RefusedStep ==
    ASSUME IInv, [Next]_vars
    PROVE  OnlyTheGoneAreRefused'
<1> USE DEF IInv, OnlyTheGoneAreRefused
<1>1. ASSUME NEW s \in Sessions, Start(s) PROVE OnlyTheGoneAreRefused'
  BY <1>1 DEF Start, TypeOK
<1>2. ASSUME NEW s \in Sessions, Merge(s) PROVE OnlyTheGoneAreRefused'
  BY <1>2 DEF Merge, TypeOK
<1>3. ASSUME NEW s \in Sessions, Truncate(s) PROVE OnlyTheGoneAreRefused'
  BY <1>3 DEF Truncate, TypeOK
<1>4. ASSUME NEW s \in Sessions, Write(s) PROVE OnlyTheGoneAreRefused'
  BY <1>4 DEF Write, TypeOK
<1>5. ASSUME NEW s \in Sessions, Stop(s) PROVE OnlyTheGoneAreRefused'
  BY <1>5 DEF Stop, TypeOK
<1>6. ASSUME NEW c \in Clients, Launch(c) PROVE OnlyTheGoneAreRefused'
  <2>1. \A tree \in Sessions \cup {None} : Begun(tree).answer \notin {"refused", "unauthorized"}
    BY CliScriptAssumption DEF Begun, Off, Failures
  <2>. QED
    BY <1>6, <2>1 DEF Launch, TypeOK
<1>7. ASSUME NEW c \in Clients, Find(c) PROVE OnlyTheGoneAreRefused'
  <2>0. UNCHANGED <<pc, port, found, script, bridges, missed, overtaken>>
    BY <1>7 DEF Find, TypeOK
  <2>1. ASSUME Answered(c, "no bridge") PROVE OnlyTheGoneAreRefused'
    <3>1. /\ \A d \in Clients \ {c} : client'[d] = client[d]
          /\ client'[c].pc = "done"
          /\ client'[c].answer = "no bridge"
          /\ client'[c].tree = client[c].tree
          /\ client'[c].known = client[c].known
          /\ client'[c].entry = client[c].entry
          /\ client'[c].due = client[c].due
      BY <2>1, AnsweredClient
    <3>. QED
      BY <2>0, <2>1, <3>1, CliScriptAssumption DEF Failures
  <2>2. ASSUME NEW e \in Candidates(c), Chosen(c, e) PROVE OnlyTheGoneAreRefused'
    BY <2>0, <2>2, ChosenClient
  <2>. QED
    BY <1>7, <2>1, <2>2 DEF Find, TypeOK
<1>8. ASSUME NEW c \in Clients, Send(c) PROVE OnlyTheGoneAreRefused'
  <2>0. UNCHANGED <<pc, port, found, script, bridges, missed, overtaken>>
    BY <1>8 DEF Send, TypeOK
  <2>1. client[c] \in Client /\ client[c].entry \in Entry /\ Accurate(client[c].entry)
    BY <1>8 DEF Send, TrueInv, TypeOK
  <2>2. CASE port[client[c].entry.pid] = client[c].entry.port
    <3>1. Answered(c, client[c].entry.pid)
      BY <1>8, <2>2 DEF Send
    <3>2. client[c].entry.pid \notin {"refused", "unauthorized"}
      BY <2>1, CliScriptAssumption DEF Failures
    <3>. QED
      BY <2>0, <3>1, <3>2, AnsweredClient
  <2>3. CASE port[client[c].entry.pid] # client[c].entry.port
    <3>1. PICK how : Answered(c, how)
      BY <1>8 DEF Send
    <3>2. pc[client[c].entry.pid] = "stopped"
      BY <2>1, <2>3 DEF Accurate, TypeOK
    <3>. QED
      BY <2>0, <3>1, <3>2, AnsweredClient
  <2>. QED
    BY <2>2, <2>3
<1>9. CASE UNCHANGED vars
  BY <1>9 DEF vars
<1>. QED
  BY <1>1, <1>2, <1>3, <1>4, <1>5, <1>6, <1>7, <1>8, <1>9 DEF Next

-----------------------------------------------------------------------------
LEMMA Invariance == Spec => []IInv
<1>1. IInv /\ [Next]_vars => IInv'
  BY TypeStep, PortStep, TrueStep, PreservedStep, ListedStep, WasReadyStep,
     ClientStep, RefusedStep DEF IInv
<1>. QED
  BY InitInv, <1>1, PTL DEF Spec

\* CLI mode keeps to its types for any number of sessions and client runs.
THEOREM TypeCorrect == Spec => []TypeOK
<1>1. IInv => TypeOK
  BY DEF IInv
<1>. QED
  BY Invariance, <1>1, PTL

\* A ready session is in every whole script, unless an update that could not
\* know of it was written after it.
THEOREM Listed == Spec => []ListedUnlessOvertaken
<1>1. IInv => ListedUnlessOvertaken
  BY DEF IInv
<1>. QED
  BY Invariance, <1>1, PTL

\* A client run below a listed session is answered by that session.
THEOREM Routed == Spec => []ListedSessionAnswers
<1>1. IInv => ListedSessionAnswers
  BY DEF IInv, ClientInv, Due, ListedSessionAnswers
<1>. QED
  BY Invariance, <1>1, PTL

\* A client is turned down only with the token of a session that has stopped.
THEOREM Refusals == Spec => []OnlyTheGoneAreRefused
<1>1. IInv => OnlyTheGoneAreRefused
  BY DEF IInv
<1>. QED
  BY Invariance, <1>1, PTL

-----------------------------------------------------------------------------
(* Induction, and definitions over trees *)

\* Some number of a set is the least.
LEMMA LeastNumber ==
  ASSUME NEW T \in SUBSET Nat, T # {}
  PROVE  \E x \in T : \A y \in T : x <= y
<1> DEFINE R == OpToRel(<, Nat)
<1>1. IsWellFoundedOn(R, Nat)
  BY NatLessThanWellFounded
<1>2. \A x, y \in Nat : <<x, y>> \in R <=> x < y
  BY DEF OpToRel
<1> HIDE DEF R
<1>3. PICK x \in T : \A y \in T : ~ (<<y, x>> \in R)
  BY <1>1, WFMin
<1>4. \A y \in T : ~ (y < x)
  BY <1>2, <1>3
<1> QED
  BY <1>4

\* A set with 0 that has n + 1 whenever it has n < m has every number up to m.
LEMMA InductionUpTo ==
  ASSUME NEW m \in Nat, NEW S, 0 \in S, \A n \in 1..m : n - 1 \in S => n \in S
  PROVE  \A n \in 0..m : n \in S
<1> SUFFICES ASSUME (0..m) \ S # {} PROVE FALSE
  OBVIOUS
<1>1. (0..m) \ S \in SUBSET Nat
  OBVIOUS
<1>2. PICK x \in (0..m) \ S : \A y \in (0..m) \ S : x <= y
  BY <1>1, LeastNumber
<1>3. x \in 1..m /\ x - 1 \in 0..m /\ ~ (x <= x - 1)
  BY <1>2
<1> QED
  BY <1>2, <1>3

\* What a definition over trees comes to that goes back to parts of them.
IsTreeDefinition(D, depth, T, h) ==
    /\ depth \in [D -> Nat] /\ T # {} /\ h \in [D -> [[D -> T] -> T]]
    /\ \A x \in D : \A f, g \in [D -> T] :
           (\A y \in D : depth[y] < depth[x] => f[y] = g[y]) => h[x][f] = h[x][g]

\* It is the definition of a function.
LEMMA TreeRecursion ==
  ASSUME NEW D, NEW depth, NEW T, NEW h, IsTreeDefinition(D, depth, T, h)
  PROVE  \E f \in [D -> T] : \A x \in D : f[x] = h[x][f]
<1>0. /\ depth \in [D -> Nat] /\ T # {} /\ h \in [D -> [[D -> T] -> T]]
      /\ \A x \in D : \A f, g \in [D -> T] :
             (\A y \in D : depth[y] < depth[x] => f[y] = g[y]) => h[x][f] = h[x][g]
  BY DEF IsTreeDefinition
<1> USE <1>0
<1> DEFINE IsGood(f, n) == f \in [D -> T] /\ \A x \in D : depth[x] < n => f[x] = h[x][f]
           S == {n \in Nat : \E f : IsGood(f, n)}
<1>1. 0 \in S
  <2>1. PICK t \in T : TRUE
    OBVIOUS
  <2>2. IsGood([x \in D |-> t], 0)
    BY <2>1
  <2> HIDE DEF IsGood
  <2> QED
    BY <2>2
<1>2. ASSUME NEW n \in Nat, n \in S PROVE n + 1 \in S
  <2>1. PICK f : IsGood(f, n)
    BY <1>2
  <2> DEFINE g == [x \in D |-> h[x][f]]
  <2>2. g \in [D -> T]
    BY <2>1
  <2>3. ASSUME NEW x \in D, depth[x] < n + 1 PROVE g[x] = h[x][g]
    <3>1. ASSUME NEW y \in D, depth[y] < depth[x] PROVE f[y] = g[y]
      BY <2>1, <2>3, <3>1
    <3>2. h[x][f] = h[x][g]
      <4> HIDE DEF g
      <4> QED
        BY <2>1, <2>2, <3>1
    <3> QED
      BY <3>2
  <2>4. IsGood(g, n + 1)
    <3> HIDE DEF g
    <3> QED
      BY <2>2, <2>3
  <2> HIDE DEF IsGood, g
  <2> QED
    BY <2>4
<1>3. ASSUME NEW n \in Nat PROVE \E f : IsGood(f, n)
  <2>1. \A k \in 1..n : k - 1 \in S => k \in S
    <3> HIDE DEF S
    <3>1. ASSUME NEW k \in 1..n, k - 1 \in S PROVE k \in S
      <4>1. k - 1 \in Nat /\ (k - 1) + 1 = k
        OBVIOUS
      <4>2. (k - 1) + 1 \in S
        BY <1>2, <3>1, <4>1
      <4> QED
        BY <4>1, <4>2
    <3> QED
      BY <3>1
  <2>2. \A k \in 0..n : k \in S
    <3> HIDE DEF S
    <3> QED
      BY <1>1, <2>1, InductionUpTo
  <2>3. n \in S
    <3> HIDE DEF S
    <3> QED
      BY <2>2
  <2> QED
    BY <2>3
<1> HIDE DEF S
<1>4. ASSUME NEW m \in Nat, NEW n \in Nat, NEW f, IsGood(f, m), NEW g, IsGood(g, n),
             NEW a \in D, depth[a] < m, depth[a] < n
      PROVE  f[a] = g[a]
  <2> DEFINE Bad == {x \in D : f[x] # g[x] /\ depth[x] < m /\ depth[x] < n}
             Depths == {depth[x] : x \in Bad}
  <2>0. /\ f \in [D -> T] /\ \A x \in D : depth[x] < m => f[x] = h[x][f]
        /\ g \in [D -> T] /\ \A x \in D : depth[x] < n => g[x] = h[x][g]
    BY <1>4
  <2> HIDE DEF IsGood
  <2> SUFFICES ASSUME a \in Bad PROVE FALSE
    BY <1>4
  <2>1. Depths \in SUBSET Nat /\ Depths # {}
    <3>1. \A x \in Bad : depth[x] \in Nat
      OBVIOUS
    <3> QED
      BY <3>1, ZenonT(60)
  <2>2. PICK d \in Depths : \A e \in Depths : d <= e
    BY <2>1, LeastNumber
  <2>3. PICK x \in Bad : d = depth[x]
    OBVIOUS
  <2>4. ASSUME NEW y \in D, depth[y] < depth[x] PROVE f[y] = g[y]
    <3>1. depth[x] \in Nat /\ depth[y] \in Nat /\ depth[x] < m /\ depth[x] < n
      BY <2>3
    <3>2. y \notin Bad
      <4> SUFFICES ASSUME y \in Bad PROVE FALSE
        OBVIOUS
      <4>1. depth[x] <= depth[y]
        BY <2>2, <2>3
      <4> QED
        BY <2>4, <3>1, <4>1
    <3>3. depth[y] < m /\ depth[y] < n
      BY <2>4, <3>1
    <3> QED
      BY <3>2, <3>3
  <2>5. h[x][f] = h[x][g]
    BY <2>0, <2>3, <2>4
  <2> QED
    BY <2>0, <2>3, <2>5
<1> DEFINE F(x) == CHOOSE f : IsGood(f, depth[x] + 1)
           all == [x \in D |-> F(x)[x]]
<1>5. ASSUME NEW x \in D PROVE IsGood(F(x), depth[x] + 1)
  <2>1. depth[x] + 1 \in Nat
    OBVIOUS
  <2>2. \E f : IsGood(f, depth[x] + 1)
    BY <1>3, <2>1
  <2> HIDE DEF IsGood
  <2> QED
    BY <2>2
<1>6. all \in [D -> T]
  <2>1. \A x \in D : F(x)[x] \in T
    <3> HIDE DEF F
    <3> QED
      BY <1>5
  <2> HIDE DEF F
  <2> QED
    BY <2>1
<1>7. ASSUME NEW x \in D PROVE all[x] = h[x][all]
  <2>1. ASSUME NEW y \in D, depth[y] < depth[x] PROVE all[y] = F(x)[y]
    <3>1. IsGood(F(y), depth[y] + 1) /\ IsGood(F(x), depth[x] + 1)
      BY <1>5
    <3> HIDE DEF F
    <3>2. depth[y] + 1 \in Nat /\ depth[x] + 1 \in Nat /\ depth[y] < depth[y] + 1 /\ depth[y] < depth[x] + 1
      BY <2>1
    <3>3. F(y)[y] = F(x)[y]
      <4> HIDE DEF IsGood
      <4> QED
        BY <1>4, <3>1, <3>2
    <3> QED
      BY <3>3
  <2>2. h[x][all] = h[x][F(x)]
    <3> HIDE DEF F, all
    <3>1. F(x) \in [D -> T]
      BY <1>5
    <3> QED
      BY <1>6, <2>1, <3>1
  <2>3. F(x)[x] = h[x][F(x)]
    <3> HIDE DEF F
    <3>1. depth[x] < depth[x] + 1
      OBVIOUS
    <3> QED
      BY <1>5, <3>1
  <2> HIDE DEF F
  <2> QED
    BY <2>2, <2>3
<1> HIDE DEF all
<1> QED
  BY <1>6, <1>7

-----------------------------------------------------------------------------
(* The types that a schema has *)

\* Optional values are sets like this.
AtMostOne(S) == \A x, y \in S : x = y

\* What NativeTypes has for a schema, from what `types` has for its parts.
TypesAs(types, schema) ==
    IF Has(schema, "type") THEN {{schema.type}}
    ELSE IF Has(schema, "types") THEN {schema.types}
    ELSE IF Has(schema, "enum") THEN {{v.type : v \in schema.enum}}
    ELSE IF Has(schema, "const") THEN {{schema.const.type}}
    ELSE IF Has(schema, "anyOf") /\ \A v \in schema.anyOf : types[v] # {}
         THEN {UNION UNION {types[v] : v \in schema.anyOf}}
    ELSE {}

LEMMA NativeTypesIs == NativeTypes = CHOOSE types : types = [schema \in Schemas |-> TypesAs(types, schema)]
  BY DEF NativeTypes, TypesAs

\* Both parsers take the same types from a schema.
LEMMA SameTypes == NativeTypes = ScriptTypes
<1> DEFINE Typed(types, schema) ==
      LET listed == {key \in {"type", "types", "enum", "const", "anyOf"} : Has(schema, key)}
      IN IF "type" \in listed THEN {{schema.type}}
         ELSE IF "types" \in listed THEN {schema.types}
         ELSE IF "enum" \in listed THEN {{v.type : v \in schema.enum}}
         ELSE IF "const" \in listed THEN {{schema.const.type}}
         ELSE IF "anyOf" \in listed /\ {} \notin {types[v] : v \in schema.anyOf}
         THEN {UNION UNION {types[v] : v \in schema.anyOf}}
         ELSE {}
<1>1. ScriptTypes = CHOOSE types : types = [schema \in Schemas |-> Typed(types, schema)]
  BY DEF ScriptTypes
<1>2. ASSUME NEW types, NEW schema PROVE Typed(types, schema) = TypesAs(types, schema)
  BY DEF TypesAs
<1> HIDE DEF Typed
<1>3. ASSUME NEW types
      PROVE  (types = [schema \in Schemas |-> Typed(types, schema)])
                 <=> (types = [schema \in Schemas |-> TypesAs(types, schema)])
  BY <1>2
<1> QED
  BY <1>1, <1>3, NativeTypesIs

\* The words for types that schemas use.
WordsIn(schema) ==
    {schema.type, schema.const.type} \cup schema.types \cup {v.type : v \in schema.enum}
TypeWords == UNION {WordsIn(schema) : schema \in Schemas}

\* A schema's parts are schemas that nest less deep.
LEMMA PartsAreLess ==
  ASSUME NEW schema \in Schemas
  PROVE  /\ Depth[schema] \in Nat
         /\ \A part \in Parts(schema) : part \in Schemas /\ Depth[part] < Depth[schema]
         /\ Has(schema, "items") => schema.items \in Parts(schema)
         /\ Has(schema, "anyOf") => schema.anyOf \subseteq Parts(schema)
  BY SchemasAssumption DEF Parts

\* TypesAs makes types of types, and looks at parts only.
LEMMA TypesAreTyped ==
  ASSUME NEW schema \in Schemas, NEW types \in [Schemas -> SUBSET SUBSET TypeWords]
  PROVE  TypesAs(types, schema) \in SUBSET SUBSET TypeWords
<1>0. /\ {schema.type} \in SUBSET TypeWords /\ schema.types \in SUBSET TypeWords
      /\ {v.type : v \in schema.enum} \in SUBSET TypeWords
      /\ {schema.const.type} \in SUBSET TypeWords
  <2>1. WordsIn(schema) \subseteq TypeWords
    BY DEF TypeWords
  <2> QED
    BY <2>1 DEF WordsIn
<1>1. CASE Has(schema, "anyOf")
  <2>1. \A v \in schema.anyOf : types[v] \in SUBSET SUBSET TypeWords
    BY <1>1, PartsAreLess
  <2>2. UNION UNION {types[v] : v \in schema.anyOf} \in SUBSET TypeWords
    BY <2>1
  <2> QED
    BY <1>0, <2>2 DEF TypesAs
<1>2. CASE ~Has(schema, "anyOf")
  BY <1>0, <1>2 DEF TypesAs
<1> QED
  BY <1>1, <1>2

LEMMA TypesOfParts ==
  ASSUME NEW schema \in Schemas, NEW f, NEW g,
         \A y \in Schemas : Depth[y] < Depth[schema] => f[y] = g[y]
  PROVE  TypesAs(f, schema) = TypesAs(g, schema)
<1>1. CASE Has(schema, "anyOf")
  <2>1. \A v \in schema.anyOf : f[v] = g[v]
    BY <1>1, PartsAreLess
  <2>2. {f[v] : v \in schema.anyOf} = {g[v] : v \in schema.anyOf}
    BY <2>1
  <2> QED
    BY <2>1, <2>2 DEF TypesAs
<1>2. CASE ~Has(schema, "anyOf")
  BY <1>2 DEF TypesAs
<1> QED
  BY <1>1, <1>2

\* So NativeTypes is what its definition says.
LEMMA TypesAre ==
  ASSUME NEW schema \in Schemas
  PROVE  NativeTypes[schema] = TypesAs(NativeTypes, schema)
<1> DEFINE T == SUBSET SUBSET TypeWords
           h == [s \in Schemas |-> [types \in [Schemas -> T] |-> TypesAs(types, s)]]
<1>1. h \in [Schemas -> [[Schemas -> T] -> T]]
  BY TypesAreTyped
<1>2. \A x \in Schemas : \A f, g \in [Schemas -> T] :
         (\A y \in Schemas : Depth[y] < Depth[x] => f[y] = g[y]) => h[x][f] = h[x][g]
  BY TypesOfParts
<1>3. Depth \in [Schemas -> Nat] /\ T # {}
  BY SchemasAssumption
<1>4. \E f \in [Schemas -> T] : \A x \in Schemas : f[x] = h[x][f]
  <2> HIDE DEF h, T
  <2>1. IsTreeDefinition(Schemas, Depth, T, h)
    BY <1>1, <1>2, <1>3 DEF IsTreeDefinition
  <2> QED
    BY <2>1, TreeRecursion
<1>5. PICK f \in [Schemas -> T] : \A x \in Schemas : f[x] = TypesAs(f, x)
  BY <1>4
<1>6. f = [s \in Schemas |-> TypesAs(f, s)]
  <2> HIDE DEF T
  <2> QED
    BY <1>5
<1>7. NativeTypes = [s \in Schemas |-> TypesAs(NativeTypes, s)]
  BY <1>6, NativeTypesIs
<1> QED
  BY <1>7

LEMMA OneSetOfTypes ==
  ASSUME NEW schema \in Schemas
  PROVE  AtMostOne(NativeTypes[schema])
  BY TypesAre DEF TypesAs, AtMostOne

-----------------------------------------------------------------------------
(* What a text is for a schema *)

\* A text is JSON in one way, and a number in one way.
LEMMA OneDecoded == ASSUME NEW text PROVE AtMostOne(Decoded(text))
  BY DEF Decoded, AtMostOne

LEMMA OneParsed == ASSUME NEW type, NEW texts, NEW text PROVE AtMostOne(Parsed(type, texts, text))
  BY DEF Parsed, AtMostOne

\* Where the schema has no single type: decoded or not.
LEMMA SameUntyped ==
  ASSUME NEW schema \in Schemas, NEW text
  PROVE  NativeUntyped(schema, text) = ScriptUntyped(schema, text)
<1> DEFINE types == NativeTypes[schema]
           decoded == Decoded(text)
<1>1. AtMostOne(types) /\ AtMostOne(decoded) /\ ScriptTypes[schema] = types
  BY OneSetOfTypes, OneDecoded, SameTypes
<1> HIDE DEF types, decoded
<1>2. CASE decoded = {}
  BY <1>1, <1>2 DEF NativeUntyped, ScriptUntyped, types, decoded
<1>3. CASE decoded # {}
  <2>1. PICK v : decoded = {v}
    BY <1>1, <1>3 DEF AtMostOne
  <2>2. CASE types = {}
    BY <1>1, <2>1, <2>2 DEF NativeUntyped, ScriptUntyped, types, decoded
  <2>3. CASE types # {}
    <3>1. PICK allowed : types = {allowed}
      BY <1>1, <2>3 DEF AtMostOne
    <3>2. NativeUntyped(schema, text) =
             IF "string" \in allowed /\ ~TypeAllowed(allowed, v) THEN Value("string", text) ELSE v
      BY <2>1, <3>1 DEF NativeUntyped, types, decoded
    <3>3. {x \in decoded : \A t \in types : TypeAllowed(t, x)} = IF TypeAllowed(allowed, v) THEN {v} ELSE {}
      BY <2>1, <3>1
    <3>4. ScriptUntyped(schema, text) =
             IF TypeAllowed(allowed, v) THEN v
             ELSE IF "string" \in allowed THEN Value("string", text) ELSE v
      BY <1>1, <2>1, <3>1, <3>3 DEF ScriptUntyped, types, decoded
    <3> QED
      BY <3>2, <3>4
  <2> QED
    BY <2>2, <2>3
<1> QED
  BY <1>2, <1>3

\* No operand or one text.
IsOperand(operand) == operand = {} \/ \E t \in STRING : operand = {t}

\* For the schema that has the text.
LEMMA SameValues ==
  ASSUME NEW schema \in Schemas, NEW operand, IsOperand(operand)
  PROVE  ScriptValues(schema, operand) = NativeValues(schema, operand)
<1> DEFINE text == TextOf(operand)
           decoded == Decoded(text)
<1>1. AtMostOne(decoded)
  BY OneDecoded
<1>2. /\ NativeUntyped(Anything, text) = ScriptUntyped(Anything, text)
      /\ NativeUntyped(schema, text) = ScriptUntyped(schema, text)
  BY SameUntyped, SchemasAssumption
<1>3. (IF operand \in {{}, {"true"}} THEN {True} ELSE IF operand = {"false"} THEN {False} ELSE {})
         = IF operand = {} THEN {True} ELSE {v \in {True, False} : v.label = text}
  <2> DEFINE Goal == (IF operand \in {{}, {"true"}} THEN {True} ELSE IF operand = {"false"} THEN {False} ELSE {})
                       = IF operand = {} THEN {True} ELSE {v \in {True, False} : v.label = text}
  <2>1. CASE operand = {}
    BY <2>1
  <2>2. ASSUME NEW t \in STRING, operand = {t}
        PROVE  Goal
    <3>1. text = t
      BY <2>2 DEF TextOf
    <3>2. True.label = "true" /\ False.label = "false" /\ "true" # "false"
      BY DEF True, False, Value
    <3>3. CASE t = "true"
      <4>1. {v \in {True, False} : v.label = text} = {True}
        BY <3>1, <3>2, <3>3
      <4> QED
        BY <2>2, <3>3, <4>1
    <3>4. CASE t = "false"
      <4>1. {v \in {True, False} : v.label = text} = {False}
        BY <3>1, <3>2, <3>4
      <4> QED
        BY <2>2, <3>2, <3>4, <4>1
    <3>5. CASE t \notin {"true", "false"}
      <4>1. {v \in {True, False} : v.label = text} = {}
        BY <3>1, <3>2, <3>5
      <4> QED
        BY <2>2, <3>5, <4>1
    <3> QED
      BY <3>3, <3>4, <3>5
  <2> QED
    BY <2>1, <2>2 DEF IsOperand
<1> HIDE DEF decoded
<1>4. ASSUME NEW type
      PROVE  /\ (\E v \in decoded : v.type = type) <=> {v \in decoded : v.type = type} # {}
             /\ (\E v \in decoded : v.type = type) => decoded = {v \in decoded : v.type = type}
  BY <1>1 DEF AtMostOne
<1> HIDE DEF text
<1> QED
  BY <1>2, <1>3, <1>4 DEF NativeValues, ScriptValues, text, decoded

\* What NativeCoerce's recursive function f has for s.
CoerceAs(f, operand, s) ==
    IF TypeOf(s) = "array" /\ ~(\E v \in Decoded(TextOf(operand)) : v.type = "array") /\ Has(s, "items")
    THEN f[s.items] ELSE NativeValues(s, operand)

Coercion(operand) == CHOOSE f : f = [s \in Schemas |-> CoerceAs(f, operand, s)]

LEMMA CoerceIs ==
  ASSUME NEW schema, NEW operand
  PROVE  NativeCoerce(schema, operand) = Coercion(operand)[schema]
  BY DEF NativeCoerce, Coercion, CoerceAs

\* And for the one that the text goes down to.
LEMMA SameCoerce ==
  ASSUME NEW schema, NEW operand, IsOperand(operand)
  PROVE  ScriptCoerce(schema, operand) = NativeCoerce(schema, operand)
<1> DEFINE Coerced(f, s) ==
             IF TypeOf(s) # "array" \/ {v \in Decoded(TextOf(operand)) : v.type = "array"} # {} \/ ~Has(s, "items")
             THEN ScriptValues(s, operand) ELSE f[s.items]
<1>1. ScriptCoerce(schema, operand) = (CHOOSE f : f = [s \in Schemas |-> Coerced(f, s)])[schema]
  BY DEF ScriptCoerce
<1>2. ASSUME NEW f, NEW s \in Schemas PROVE Coerced(f, s) = CoerceAs(f, operand, s)
  BY SameValues DEF CoerceAs
<1> HIDE DEF Coerced
<1>3. ASSUME NEW f
      PROVE  (f = [s \in Schemas |-> Coerced(f, s)]) <=> (f = [s \in Schemas |-> CoerceAs(f, operand, s)])
  BY <1>2
<1>4. Coercion(operand) = CHOOSE f : f = [s \in Schemas |-> Coerced(f, s)]
  BY <1>3 DEF Coercion
<1> QED
  BY <1>1, <1>4, CoerceIs

\* At most one value is made of a text.
LEMMA OneOfValues ==
  ASSUME NEW schema, NEW operand
  PROVE  AtMostOne(NativeValues(schema, operand))
<1> DEFINE text == TextOf(operand)
<1>1. /\ AtMostOne(Parsed("integer", Integer, text)) /\ AtMostOne(Parsed("number", Number, text))
      /\ \A type : AtMostOne({v \in Decoded(text) : v.type = type})
      /\ AtMostOne({v \in {True, False} : v.label = text}) /\ \A v : AtMostOne({v})
  BY OneParsed, OneDecoded DEF AtMostOne, True, False, Value
<1> HIDE DEF text
<1> QED
  BY <1>1 DEF NativeValues, text

\* So Coercion is what its definition says.
LEMMA CoercionIs ==
  ASSUME NEW operand
  PROVE  \A s \in Schemas : Coercion(operand)[s] = CoerceAs(Coercion(operand), operand, s)
<1> DEFINE V == UNION {NativeValues(s, operand) : s \in Schemas}
           T == SUBSET V
           h == [s \in Schemas |-> [f \in [Schemas -> T] |-> CoerceAs(f, operand, s)]]
<1>1. ASSUME NEW s \in Schemas, NEW f \in [Schemas -> T] PROVE CoerceAs(f, operand, s) \in T
  <2>1. NativeValues(s, operand) \in T
    OBVIOUS
  <2>2. Has(s, "items") => s.items \in Schemas
    BY PartsAreLess
  <2> HIDE DEF T
  <2> QED
    BY <2>1, <2>2 DEF CoerceAs
<1>2. h \in [Schemas -> [[Schemas -> T] -> T]]
  <2> HIDE DEF T
  <2> QED
    BY <1>1
<1>3. ASSUME NEW x \in Schemas, NEW f, NEW g, \A y \in Schemas : Depth[y] < Depth[x] => f[y] = g[y]
      PROVE  CoerceAs(f, operand, x) = CoerceAs(g, operand, x)
  <2>1. Has(x, "items") => f[x.items] = g[x.items]
    BY <1>3, PartsAreLess
  <2> QED
    BY <2>1 DEF CoerceAs
<1>4. Depth \in [Schemas -> Nat] /\ T # {}
  BY SchemasAssumption
<1> HIDE DEF T
<1>5. IsTreeDefinition(Schemas, Depth, T, h)
  BY <1>2, <1>3, <1>4 DEF IsTreeDefinition
<1>6. \E f \in [Schemas -> T] : \A x \in Schemas : f[x] = h[x][f]
  <2> HIDE DEF h
  <2> QED
    BY <1>5, TreeRecursion
<1>7. PICK f \in [Schemas -> T] : \A x \in Schemas : f[x] = CoerceAs(f, operand, x)
  BY <1>6
<1> DEFINE Is(g) == g = [s \in Schemas |-> CoerceAs(g, operand, s)]
<1>8. Is(f)
  BY <1>7
<1>9. Is(Coercion(operand))
  BY <1>8 DEF Coercion
<1> DEFINE c == Coercion(operand)
<1>10. \A s \in Schemas : c[s] = CoerceAs(c, operand, s)
  <2> HIDE DEF c
  <2> QED
    BY <1>9 DEF c
<1> QED
  BY <1>10

\* A text that goes down to the items of the items is for some schema, too.
LEMMA CoercedAsValues ==
  ASSUME NEW schema \in Schemas, NEW operand
  PROVE  \E s \in Schemas : NativeCoerce(schema, operand) = NativeValues(s, operand)
<1> DEFINE c == Coercion(operand)
           AsValues(v) == \E s \in Schemas : v = NativeValues(s, operand)
<1>1. \A s \in Schemas : c[s] = CoerceAs(c, operand, s)
  BY CoercionIs
<1> HIDE DEF c
<1> DEFINE Bad == {s \in Schemas : ~AsValues(c[s])}
           Depths == {Depth[s] : s \in Bad}
<1>2. ASSUME Bad # {} PROVE FALSE
  <2>1. Depths \in SUBSET Nat /\ Depths # {}
    BY <1>2, SchemasAssumption
  <2>2. PICK d \in Depths : \A e \in Depths : d <= e
    BY <2>1, LeastNumber
  <2>3. PICK s \in Bad : d = Depth[s]
    OBVIOUS
  <2>4. c[s] = NativeValues(s, operand) \/ (Has(s, "items") /\ c[s] = c[s.items])
    <3>1. c[s] = CoerceAs(c, operand, s)
      BY <1>1
    <3>2. CoerceAs(c, operand, s) = NativeValues(s, operand)
             \/ (Has(s, "items") /\ CoerceAs(c, operand, s) = c[s.items])
      BY DEF CoerceAs
    <3> QED
      BY <3>1, <3>2
  <2>5. Has(s, "items") => s.items \notin Bad
    <3> SUFFICES ASSUME Has(s, "items"), s.items \in Bad PROVE FALSE
      OBVIOUS
    <3>1. Depth[s.items] \in Nat /\ Depth[s] \in Nat /\ Depth[s.items] < Depth[s] /\ Depth[s.items] \in Depths
      BY PartsAreLess
    <3> QED
      BY <2>2, <2>3, <3>1
  <2>6. Has(s, "items") => s.items \in Schemas
    BY PartsAreLess
  <2>7. AsValues(NativeValues(s, operand))
    OBVIOUS
  <2> HIDE DEF AsValues
  <2> QED
    BY <2>4, <2>5, <2>6, <2>7
<1>3. AsValues(c[schema])
  BY <1>2
<1> QED
  BY <1>3, CoerceIs DEF c

LEMMA OneValue ==
  ASSUME NEW schema \in Schemas, NEW operand
  PROVE  AtMostOne(NativeCoerce(schema, operand))
  BY CoercedAsValues, OneOfValues

-----------------------------------------------------------------------------
(* The two parsers, a flag at a time *)

\* Underscores for dashes change nothing that Canonical looks at.
LEMMA SameCanonical ==
  ASSUME NEW name
  PROVE  Canonical(Snake(name)) = Canonical(name)
<1> DEFINE words(n) == [i \in DOMAIN n |-> IF n[i] \in Separators THEN <<>> ELSE <<Lowered(n[i])>>]
<1>1. words(Snake(name)) = words(name)
  BY DEF Snake, Separators
<1> QED
  BY <1>1 DEF Canonical

\* What is left of a flag's name without its negation.
LEMMA PositiveIsName ==
  ASSUME NEW name \in Seq(STRING)
  PROVE  Positive(name) \in Seq(STRING)
<1>1. Negated(name) => SubSeq(name, 3, Len(name)) \in Seq(STRING)
  BY Z3 DEF Negated, IsPrefix
<1> QED
  BY <1>1 DEF Positive

IsProps(props) == \A p \in DOMAIN props : p \in Seq(STRING) /\ props[p] \in Schemas

\* With names that resolve in one way only, both parsers find the same property.
LEMMA SameProperty ==
  ASSUME NEW props, IsProps(props), Distinct(props), NEW name \in Seq(STRING)
  PROVE  NativeResolve(props, Positive(name))
             = {ScriptResolve(props, name)} \cap DOMAIN props
<1> DEFINE raw == Positive(name)
           alike == {p \in DOMAIN props : Canonical(p) = Canonical(raw)}
<1>1. raw \in Seq(STRING)
  BY PositiveIsName
<1> HIDE DEF raw
<1>2. Canonical(Snake(raw)) = Canonical(raw)
  BY <1>1, SameCanonical
<1>3. AtMostOne(alike)
  BY DEF Distinct, AtMostOne
<1>4. /\ raw \in DOMAIN props => raw \in alike
      /\ Snake(raw) \in DOMAIN props => Snake(raw) \in alike
  BY <1>2
<1>5. NativeResolve(props, raw) = alike
  <2>1. {p \in DOMAIN props : Canonical(p) = Canonical(Snake(raw))} = alike
    BY <1>2
  <2> HIDE DEF alike
  <2> QED
    BY <1>3, <1>4, <2>1 DEF NativeResolve, AtMostOne
<1>6. {ScriptResolve(props, name)} \cap DOMAIN props = alike
  <2>1. ScriptResolve(props, name) = IF raw \in DOMAIN props THEN raw
       ELSE IF Snake(raw) \in DOMAIN props THEN Snake(raw)
       ELSE IF alike # {} THEN CHOOSE p \in alike : TRUE ELSE raw
    BY DEF ScriptResolve, raw
  <2>2. alike \subseteq DOMAIN props
    OBVIOUS
  <2> HIDE DEF alike
  <2> QED
    BY <1>3, <1>4, <2>1, <2>2 DEF AtMostOne
<1> QED
  BY <1>5, <1>6 DEF raw

\* An enum allows the same values, an empty one all.
LEMMA SameEnum ==
  ASSUME NEW schema, NEW value
  PROVE  ScriptEnum(schema, value) = NativeEnum(schema, value)
<1> DEFINE allowed == IF Has(schema, "enum") THEN {v.label : v \in schema.enum} ELSE {}
           values == IF value.type = "array" THEN ToSet(value.items) ELSE {value}
<1>1. ScriptEnum(schema, value) <=> (allowed = {} \/ {v.label : v \in values} \subseteq allowed)
  BY DEF ScriptEnum
<1>2. NativeEnum(schema, value) <=>
        (Has(schema, "enum") /\ schema.enum # {} => \A v \in values : v.label \in {a.label : a \in schema.enum})
  BY DEF NativeEnum
<1>3. ScriptEnum(schema, value) \in BOOLEAN /\ NativeEnum(schema, value) \in BOOLEAN
  BY DEF ScriptEnum, NativeEnum
<1> HIDE DEF values
<1>4. ScriptEnum(schema, value) <=> NativeEnum(schema, value)
  BY <1>1, <1>2
<1> QED
  BY <1>3, <1>4

\* What a value adds to the input.
LEMMA SameInsert ==
  ASSUME NEW input, NEW property, NEW schema, NEW value
  PROVE  ScriptInsert(input, property, schema, value) = NativeInsert(input, property, schema, value)
  BY DEF ScriptInsert, NativeInsert

LEMMA ArgumentIs ==
  ASSUME NEW args \in Seq(Arguments), NEW i \in 1..Len(args)
  PROVE  args[i].flag \in BOOLEAN /\ args[i].name \in Seq(STRING) /\ args[i].text \in STRING
<1>1. args[i] \in Arguments
  OBVIOUS
<1> QED
  BY <1>1 DEF Arguments

LEMMA OperandIs ==
  ASSUME NEW args \in Seq(Arguments), NEW i \in 1..Len(args)
  PROVE  IsOperand(Operand(args, i))
<1>1. CASE i < Len(args)
  <2>1. args[i + 1].text \in STRING
    BY <1>1, ArgumentIs
  <2> QED
    BY <2>1 DEF Operand, IsOperand
<1>2. CASE ~(i < Len(args))
  BY <1>2 DEF Operand, IsOperand
<1> QED
  BY <1>1, <1>2

\* No flag, or none of a property.
LEMMA NativeFlagIsNone ==
  ASSUME NEW props, NEW args, NEW i,
         ~args[i].flag \/ args[i].name = <<>> \/ NativeResolve(props, Positive(args[i].name)) = {}
  PROVE  NativeFlag(props, args, i) = {}
  BY DEF NativeFlag

\* One argument after the same ones leaves both with the same.
LEMMA SameStep ==
  ASSUME NEW tool, IsProps(tool.props), Distinct(tool.props),
         NEW args \in Seq(Arguments), NEW i \in 1..Len(args),
         NEW read
  PROVE  ScriptStep(tool, args, i, read) = NativeStep(tool, args, i, read)
<1> DEFINE name == args[i].name
           property == ScriptResolve(tool.props, name)
           schema == tool.props[property]
           forced == Negated(name)
           operand == IF forced THEN {} ELSE Operand(args, i)
           bare == TypeOf(schema) # "boolean" /\ operand = {}
           scripts == IF forced THEN {False} ELSE ScriptCoerce(schema, operand)
           natives == IF forced THEN IF TypeOf(schema) = "boolean" THEN {False} ELSE {}
                      ELSE IF bare THEN {} ELSE NativeCoerce(schema, operand)
           Made(v) == [property |-> property, value |-> v, takes |-> operand # {}]
           flags == NativeFlag(tool.props, args, i)
           valid == {r \in flags : NativeEnum(tool.props[r.property], r.value)}
           Next1 == NativeTake(tool.props, read.input, valid)
           Next2 == IF ~args[i].flag \/ name = <<>> THEN Wrong
                    ELSE IF property \notin DOMAIN tool.props THEN Wrong
                    ELSE IF bare \/ \A x \in scripts : ~ScriptEnum(schema, x) THEN Wrong
                    ELSE Reading(ScriptInsert(read.input, property, schema, CHOOSE v \in scripts : TRUE), operand # {})
<1>1. /\ args[i].flag \in BOOLEAN /\ name \in Seq(STRING) /\ IsOperand(operand)
      /\ NativeResolve(tool.props, Positive(name)) = {property} \cap DOMAIN tool.props
  <2>1. args[i].flag \in BOOLEAN /\ name \in Seq(STRING)
    BY ArgumentIs
  <2>2. IsOperand(operand)
    BY OperandIs DEF IsOperand
  <2>3. NativeResolve(tool.props, Positive(name)) = {property} \cap DOMAIN tool.props
    <3> HIDE DEF name
    <3> QED
      BY <2>1, SameProperty DEF name
  <2> QED
    BY <2>1, <2>2, <2>3
<1>2. NativeStep(tool, args, i, read) =
        IF read.wrong THEN read ELSE IF read.taken THEN [read EXCEPT !.taken = FALSE] ELSE Next1
  BY DEF NativeStep
<1>3. ScriptStep(tool, args, i, read) =
        IF read.wrong THEN read ELSE IF read.taken THEN [read EXCEPT !.taken = FALSE] ELSE Next2
  BY DEF ScriptStep, ScriptTake
<1>4. CASE ~args[i].flag \/ name = <<>> \/ property \notin DOMAIN tool.props
  <2>1. valid = {}
    BY <1>1, <1>4, NativeFlagIsNone
  <2>2. Next1 = Wrong /\ Next2 = Wrong
    BY <2>1, <1>4 DEF NativeTake
  <2> QED
    BY <1>2, <1>3, <2>2
<1>5. CASE args[i].flag /\ name # <<>> /\ property \in DOMAIN tool.props
  <2>1. schema \in Schemas
    BY <1>5 DEF IsProps
  <2>2. AtMostOne(scripts) /\ (~bare => natives = scripts) /\ (bare => natives = {})
    <3>1. ScriptCoerce(schema, operand) = NativeCoerce(schema, operand) /\ AtMostOne(NativeCoerce(schema, operand))
      BY <1>1, <2>1, SameCoerce, OneValue
    <3>0. forced => operand = {}
      OBVIOUS
    <3> HIDE DEF schema, operand, forced
    <3>2. CASE forced
      BY <3>0, <3>2 DEF AtMostOne
    <3>3. CASE ~forced
      BY <3>1, <3>3
    <3> QED
      BY <3>2, <3>3
  <2>3. flags = {Made(v) : v \in natives}
    <3>1. NativeResolve(tool.props, Positive(args[i].name)) = {property} /\ args[i].flag = TRUE /\ args[i].name # <<>>
      BY <1>1, <1>5
    <3>2. LET values == IF Negated(args[i].name) THEN IF TypeOf(tool.props[property]) = "boolean" THEN {False} ELSE {}
                       ELSE IF TypeOf(tool.props[property]) # "boolean" /\ operand = {} THEN {}
                       ELSE NativeCoerce(tool.props[property], operand)
          IN NativeFlag(tool.props, args, i) = {[property |-> property, value |-> v, takes |-> operand # {}] : v \in values}
      <4> HIDE DEF property
      <4> QED
        BY <3>1 DEF NativeFlag
    <3> HIDE DEF property
    <3> QED
      BY <3>2
  <2> HIDE DEF property, operand, flags, scripts, natives
  <2>4. valid = {Made(v) : v \in {v \in natives : NativeEnum(schema, v)}}
    BY <2>3
  <2>5. CASE {v \in natives : NativeEnum(schema, v)} = {}
    <3>1. Next1 = Wrong
      BY <2>4, <2>5 DEF NativeTake
    <3>2. bare \/ \A x \in scripts : ~ScriptEnum(schema, x)
      BY <2>2, <2>5, SameEnum
    <3>3. Next2 = Wrong
      BY <3>2
    <3> QED
      BY <1>2, <1>3, <3>1, <3>3
  <2>6. CASE {v \in natives : NativeEnum(schema, v)} # {}
    <3>0. PICK v \in natives : NativeEnum(schema, v)
      BY <2>6
    <3>1. {x \in natives : NativeEnum(schema, x)} = {v} /\ scripts = {v} /\ ~bare
      BY <2>2, <3>0 DEF AtMostOne
    <3>2. valid = {Made(v)}
      BY <2>4, <3>1
    <3>3. Next1 = Reading(NativeInsert(read.input, property, schema, v), operand # {})
      <4>1. (CHOOSE r \in valid : TRUE) = Made(v) /\ valid # {}
        <5> HIDE DEF Made
        <5> QED
          BY <3>2
      <4>2. Made(v).property = property /\ Made(v).value = v /\ Made(v).takes = (operand # {})
        OBVIOUS
      <4> HIDE DEF Made, valid
      <4> QED
        BY <4>1, <4>2 DEF NativeTake
    <3>4. ScriptEnum(schema, v)
      BY <3>1, SameEnum
    <3>5. Next2 = Reading(ScriptInsert(read.input, property, schema, v), operand # {})
      BY <1>5, <3>1, <3>4
    <3> QED
      BY <1>2, <1>3, <3>3, <3>5, SameInsert
  <2> QED
    BY <2>5, <2>6
<1> QED
  BY <1>1, <1>4, <1>5

\* Definitions over the arguments that agree step by step are one definition.
LEMMA SameParse ==
  ASSUME NEW tool, IsProps(tool.props), Distinct(tool.props),
         NEW args \in Seq(Arguments)
  PROVE  NativeParse(tool, args) = ScriptParse(tool, args)
<1> DEFINE Native(read) == read = [i \in 0..Len(args) |->
               IF i = 0 THEN Reading(<<>>, FALSE) ELSE NativeStep(tool, args, i, read[i - 1])]
           Script(read) == read = [i \in 0..Len(args) |->
               IF i = 0 THEN Reading(<<>>, FALSE) ELSE ScriptStep(tool, args, i, read[i - 1])]
           native == (CHOOSE read : Native(read))[Len(args)]
           script1 == (CHOOSE read : Script(read))[Len(args)]
<1>1. NativeParse(tool, args) =
        IF args # <<>> /\ args[1] = Flag(<<"json">>) THEN JsonOnly(args)
        ELSE IF native.wrong THEN Rejected("parse")
             ELSE IF tool.required \subseteq DOMAIN native.input THEN Accepted(native.input)
             ELSE Rejected("validation")
  BY DEF NativeParse, NativeOutcome
<1>2. ScriptParse(tool, args) =
        IF args # <<>> /\ args[1] = Flag(<<"json">>) THEN JsonOnly(args)
        ELSE IF script1.wrong THEN Rejected("parse")
             ELSE IF tool.required \ DOMAIN script1.input # {} THEN Rejected("validation")
             ELSE Accepted(script1.input)
  BY DEF ScriptParse, ScriptOutcome
<1>3. ASSUME NEW read PROVE Native(read) <=> Script(read)
  <2>1. ASSUME NEW i \in 0..Len(args), i # 0
        PROVE  NativeStep(tool, args, i, read[i - 1]) = ScriptStep(tool, args, i, read[i - 1])
    <3>1. i \in 1..Len(args)
      BY <2>1
    <3> QED
      BY <3>1, SameStep
  <2> QED
    BY <2>1
<1> HIDE DEF Native, Script
<1>4. native = script1
  BY <1>3
<1> HIDE DEF native, script1
<1> QED
  BY <1>1, <1>2, <1>4

\* For any tools, schemas nested in one another to any depth and command lines of any
\* length, the generated client's parser and the native one say the same, when names
\* resolve in one way only (cli/parser.rs, client_gen/cli.rs).
THEOREM ParsersAgree == Spec => []SameAsScript
<1>1. \A tool \in Tools : SameFor(tool, Lines)
  BY CallersAssumption, SameParse DEF SameFor, IsProps
<1>2. SameAsScript
  BY <1>1 DEF SameAsScript
<1> QED
  BY <1>2, PTL

-----------------------------------------------------------------------------
(* Types for programs: TypeScript's to their depth, and the values they have *)

TsTypesAt(types, depth) ==
    [schema \in Schemas |-> IF depth > MaxTsTypeDepth THEN Unknown ELSE TsTypeOf(schema, types[depth + 1])]

\* The types at the last depths do not go back to any others.
LEMMA TsTypesAre ==
  ASSUME NEW depth \in 0..MaxTsTypeDepth + 1
  PROVE  TsType[depth] = TsTypesAt(TsType, depth)
<1> DEFINE m == MaxTsTypeDepth
           Good(f, k) == f = [d \in 0..m + 1 |-> IF d + k > m THEN TsTypesAt(f, d) ELSE {}]
           S == {k \in 0..m + 1 : \E f : Good(f, k)}
<1>0. m \in Nat
  BY DEF MaxTsTypeDepth
<1>1. 0 \in S
  <2> DEFINE f == [d \in 0..m + 1 |-> IF d + 0 > m THEN [schema \in Schemas |-> Unknown] ELSE {}]
  <2>1. \A d \in 0..m + 1 : d + 0 > m => TsTypesAt(f, d) = [schema \in Schemas |-> Unknown]
    <3> HIDE DEF f
    <3> QED
      BY DEF TsTypesAt
  <2>2. Good(f, 0)
    <3>1. f = [d \in 0..m + 1 |-> IF d + 0 > m THEN [schema \in Schemas |-> Unknown] ELSE {}]
      OBVIOUS
    <3> HIDE DEF m, f
    <3> QED
      BY <2>1, <1>0, <3>1
  <2> HIDE DEF Good, f
  <2> QED
    BY <2>2, <1>0
<1>2. ASSUME NEW k \in 1..m + 1, k - 1 \in S PROVE k \in S
  <2>0. \E f : Good(f, k - 1)
    <3> HIDE DEF Good
    <3> QED
      BY <1>2
  <2>1. PICK f : Good(f, k - 1)
    BY <2>0
  <2> DEFINE g == [d \in 0..m + 1 |-> IF d + k > m THEN TsTypesAt(f, d) ELSE {}]
  <2>2. ASSUME NEW d \in 0..m + 1, d + k > m
        PROVE  TsTypesAt(g, d) = TsTypesAt(f, d)
    <3>1. CASE d > m
      <4> HIDE DEF g
      <4> QED
        BY <3>1 DEF TsTypesAt
    <3>2. CASE d <= m
      <4> HIDE DEF m
      <4>1. d + 1 \in 0..m + 1 /\ (d + 1) + (k - 1) > m /\ (d + 1) + k > m
        BY <2>2, <3>2, <1>0
      <4>2. f[d + 1] = TsTypesAt(f, d + 1)
        BY <2>1, <4>1
      <4>3. g[d + 1] = TsTypesAt(f, d + 1)
        BY <4>1
      <4> HIDE DEF g
      <4> QED
        BY <4>2, <4>3 DEF TsTypesAt
    <3> QED
      BY <3>1, <3>2, <1>0
  <2>3. Good(g, k)
    <3>1. g = [d \in 0..m + 1 |-> IF d + k > m THEN TsTypesAt(f, d) ELSE {}]
      OBVIOUS
    <3> HIDE DEF g
    <3> QED
      BY <2>2, <3>1
  <2> HIDE DEF Good, g
  <2> QED
    BY <2>3
<1>3. m + 1 \in S
  <2> HIDE DEF m, S
  <2>1. m + 1 \in Nat /\ m + 1 \in 0..m + 1
    BY <1>0
  <2>2. \A k \in 1..m + 1 : k - 1 \in S => k \in S
    BY <1>2
  <2> QED
    BY <1>1, <2>1, <2>2, InductionUpTo
<1>4. PICK f : Good(f, m + 1)
  <2> HIDE DEF Good
  <2> QED
    BY <1>3
<1>5. f = [d \in 0..m + 1 |-> TsTypesAt(f, d)]
  <2>1. \A d \in 0..m + 1 : d + (m + 1) > m
    BY <1>0
  <2> HIDE DEF m
  <2> QED
    BY <1>4, <2>1
<1> DEFINE Is(f0) == f0 = [d \in 0..m + 1 |-> TsTypesAt(f0, d)]
<1>6. TsType = CHOOSE f0 : Is(f0)
  BY DEF TsType, TsTypesAt
<1>7. Is(TsType)
  BY <1>5, <1>6
<1> QED
  BY <1>7

LEMMA MembersAreLess ==
  ASSUME NEW v \in JsonValues
  PROVE  /\ Height[v] \in Nat
         /\ \A w \in Members(v) : w \in JsonValues /\ Height[w] < Height[v]
  BY ValuesAssumption

ValidAs(valid, schema) == [v \in JsonValues |->
    LET types == IF Has(schema, "type") THEN {schema.type}
                 ELSE IF Has(schema, "types") THEN schema.types ELSE {v.type}
    IN /\ ~Has(schema, "nothing")
       /\ TypeAllowed(types, v)
       /\ Has(schema, "enum") => v \in schema.enum
       /\ Has(schema, "const") => v = schema.const
       /\ Has(schema, "anyOf") => \E s \in schema.anyOf : valid[s][v]
       /\ Has(schema, "items") => \A i \in DOMAIN v.items : valid[schema.items][v.items[i]]
       /\ (v.type = "object" /\ Has(schema, "fields")) =>
              /\ schema.needs \subseteq DOMAIN v.fields
              /\ \A f \in DOMAIN v.fields \cap DOMAIN schema.fields :
                     valid[schema.fields[f]][v.fields[f]]
       /\ (v.type = "object" /\ Has(schema, "more")) =>
              \A f \in DOMAIN v.fields :
                  \/ Has(schema, "fields") /\ f \in DOMAIN schema.fields
                  \/ \A s \in schema.more : valid[s][v.fields[f]]]

LEMMA ValidIs == Valid = CHOOSE valid : valid = [schema \in Schemas |-> ValidAs(valid, schema)]
  BY DEF Valid, ValidAs

LEMMA ValidOfParts ==
  ASSUME NEW schema \in Schemas, NEW f, NEW g,
         \A y \in Schemas : Depth[y] < Depth[schema] => f[y] = g[y]
  PROVE  ValidAs(f, schema) = ValidAs(g, schema)
<1>1. \A s \in Parts(schema) : f[s] = g[s]
  BY PartsAreLess
<1>2. /\ Has(schema, "items") => f[schema.items] = g[schema.items]
      /\ Has(schema, "anyOf") => \A s \in schema.anyOf : f[s] = g[s]
      /\ Has(schema, "fields") => \A k \in DOMAIN schema.fields : f[schema.fields[k]] = g[schema.fields[k]]
      /\ Has(schema, "more") => \A s \in schema.more : f[s] = g[s]
  <2>1. Has(schema, "fields") => \A k \in DOMAIN schema.fields : schema.fields[k] \in Parts(schema)
    BY DEF Parts, Range
  <2>2. Has(schema, "more") => \A s \in schema.more : s \in Parts(schema)
    BY DEF Parts
  <2> QED
    BY <1>1, <2>1, <2>2, PartsAreLess
<1> QED
  BY <1>2 DEF ValidAs

LEMMA ValidsAre ==
  ASSUME NEW schema \in Schemas
  PROVE  Valid[schema] = ValidAs(Valid, schema)
<1> DEFINE T == [JsonValues -> BOOLEAN]
           h == [s \in Schemas |-> [valid \in [Schemas -> T] |-> ValidAs(valid, s)]]
<1>1. \A s \in Schemas : \A f \in [Schemas -> T] : ValidAs(f, s) \in T
  BY DEF ValidAs
<1>2. h \in [Schemas -> [[Schemas -> T] -> T]]
  BY <1>1
<1>3. \A x \in Schemas : \A f, g \in [Schemas -> T] :
         (\A y \in Schemas : Depth[y] < Depth[x] => f[y] = g[y]) => h[x][f] = h[x][g]
  BY ValidOfParts
<1>4. Depth \in [Schemas -> Nat] /\ T # {}
  <2>1. [v \in JsonValues |-> TRUE] \in T
    OBVIOUS
  <2> QED
    BY <2>1, SchemasAssumption
<1>5. \E f \in [Schemas -> T] : \A x \in Schemas : f[x] = h[x][f]
  <2> HIDE DEF h, T
  <2>1. IsTreeDefinition(Schemas, Depth, T, h)
    BY <1>2, <1>3, <1>4 DEF IsTreeDefinition
  <2> QED
    BY <2>1, TreeRecursion
<1>6. PICK f \in [Schemas -> T] : \A x \in Schemas : f[x] = ValidAs(f, x)
  <2> HIDE DEF T
  <2> QED
    BY <1>5
<1> DEFINE Is(f0) == f0 = [s \in Schemas |-> ValidAs(f0, s)]
<1>7. Is(f)
  <2> HIDE DEF T
  <2> QED
    BY <1>6
<1>8. Is(Valid)
  BY <1>7, ValidIs
<1> QED
  BY <1>8

InhabitsAs(inhabits, v) == [type \in TsTypes |->
    \E a \in type :
        \/ a.is = "unknown"
        \/ a.is = "literal" /\ v = a.value
        \/ a.is = "number" /\ v.type \in {"integer", "number"}
        \/ a.is \in {"string", "boolean", "null"} /\ v.type = a.is
        \/ /\ a.is = "array" /\ v.type = "array"
           /\ \A i \in DOMAIN v.items : inhabits[v.items[i]][a.of]
        \/ /\ a.is = "record" /\ v.type = "object"
           /\ \A f \in DOMAIN v.fields : inhabits[v.fields[f]][a.of]
        \/ /\ a.is = "fields" /\ v.type = "object" /\ a.needs \subseteq DOMAIN v.fields
           /\ a.closed => DOMAIN v.fields \subseteq DOMAIN a.fields
           /\ \A f \in DOMAIN v.fields \cap DOMAIN a.fields : inhabits[v.fields[f]][a.fields[f]]]

LEMMA InhabitsIs == Inhabits = CHOOSE inhabits : inhabits = [v \in JsonValues |-> InhabitsAs(inhabits, v)]
  BY DEF Inhabits, InhabitsAs

LEMMA InhabitsOfMembers ==
  ASSUME NEW v \in JsonValues, NEW f, NEW g,
         \A w \in JsonValues : Height[w] < Height[v] => f[w] = g[w]
  PROVE  InhabitsAs(f, v) = InhabitsAs(g, v)
<1>1. \A w \in Members(v) : f[w] = g[w]
  BY MembersAreLess
<1>2. /\ v.type = "array" => \A i \in DOMAIN v.items : f[v.items[i]] = g[v.items[i]]
      /\ v.type = "object" => \A k \in DOMAIN v.fields : f[v.fields[k]] = g[v.fields[k]]
  BY <1>1 DEF Members, Range, ToSet
<1> QED
  BY <1>2 DEF InhabitsAs

LEMMA InhabitsAre ==
  ASSUME NEW v \in JsonValues
  PROVE  Inhabits[v] = InhabitsAs(Inhabits, v)
<1> DEFINE T == [TsTypes -> BOOLEAN]
           h == [w \in JsonValues |-> [f \in [JsonValues -> T] |-> InhabitsAs(f, w)]]
<1>1. \A w \in JsonValues : \A f \in [JsonValues -> T] : InhabitsAs(f, w) \in T
  BY DEF InhabitsAs
<1>2. h \in [JsonValues -> [[JsonValues -> T] -> T]]
  BY <1>1
<1>3. \A x \in JsonValues : \A f, g \in [JsonValues -> T] :
         (\A y \in JsonValues : Height[y] < Height[x] => f[y] = g[y]) => h[x][f] = h[x][g]
  BY InhabitsOfMembers
<1>4. Height \in [JsonValues -> Nat] /\ T # {}
  <2>1. [type \in TsTypes |-> TRUE] \in T
    OBVIOUS
  <2> QED
    BY <2>1, ValuesAssumption
<1>5. \E f \in [JsonValues -> T] : \A x \in JsonValues : f[x] = h[x][f]
  <2> HIDE DEF h, T
  <2>1. IsTreeDefinition(JsonValues, Height, T, h)
    BY <1>2, <1>3, <1>4 DEF IsTreeDefinition
  <2> QED
    BY <2>1, TreeRecursion
<1>6. PICK f \in [JsonValues -> T] : \A x \in JsonValues : f[x] = InhabitsAs(f, x)
  <2> HIDE DEF T
  <2> QED
    BY <1>5
<1> DEFINE Is(f0) == f0 = [s \in JsonValues |-> InhabitsAs(f0, s)]
<1>7. Is(f)
  <2> HIDE DEF T
  <2> QED
    BY <1>6
<1>8. Is(Inhabits)
  BY <1>7, InhabitsIs
<1> QED
  BY <1>8

\* That a value is of one alternative of a type.
Admits(a, v) ==
    \/ a.is = "unknown"
    \/ a.is = "literal" /\ v = a.value
    \/ a.is = "number" /\ v.type \in {"integer", "number"}
    \/ a.is \in {"string", "boolean", "null"} /\ v.type = a.is
    \/ /\ a.is = "array" /\ v.type = "array"
       /\ \A i \in DOMAIN v.items : Inhabits[v.items[i]][a.of]
    \/ /\ a.is = "record" /\ v.type = "object"
       /\ \A f \in DOMAIN v.fields : Inhabits[v.fields[f]][a.of]
    \/ /\ a.is = "fields" /\ v.type = "object" /\ a.needs \subseteq DOMAIN v.fields
       /\ a.closed => DOMAIN v.fields \subseteq DOMAIN a.fields
       /\ \A f \in DOMAIN v.fields \cap DOMAIN a.fields : Inhabits[v.fields[f]][a.fields[f]]

AdmitsOne(type, v) == \E a \in type : Admits(a, v)

LEMMA InhabitsOne ==
  ASSUME NEW v \in JsonValues, NEW type \in TsTypes
  PROVE  Inhabits[v][type] <=> AdmitsOne(type, v)
<1>1. Inhabits[v] = [t \in TsTypes |-> \E a \in t : Admits(a, v)]
  BY InhabitsAre DEF InhabitsAs, Admits
<1> HIDE DEF Admits
<1> QED
  BY <1>1 DEF AdmitsOne

LEMMA UnknownAdmits ==
  ASSUME NEW v
  PROVE  AdmitsOne(Unknown, v)
<1>1. Alt("unknown") \in Unknown /\ Alt("unknown").is = "unknown"
  BY DEF Unknown, Alt
<1> QED
  BY <1>1 DEF AdmitsOne, Admits

LEMMA UnionAdmits ==
  ASSUME NEW types, NEW type \in types, NEW v, AdmitsOne(type, v)
  PROVE  AdmitsOne(Union(types), v)
<1>1. CASE Unknown \in types
  BY <1>1, UnknownAdmits DEF Union
<1>2. CASE Unknown \notin types
  BY <1>2 DEF Union, AdmitsOne
<1> QED
  BY <1>1, <1>2

LEMMA LiteralAdmits ==
  ASSUME NEW v
  PROVE  AdmitsOne(TsLiteral(v), v)
<1>1. CASE v.type \in {"array", "object"}
  BY <1>1, UnknownAdmits DEF TsLiteral
<1>2. CASE v.type \notin {"array", "object"}
  <2> DEFINE a == [is |-> "literal", value |-> v]
  <2>1. a \in TsLiteral(v) /\ a.is = "literal" /\ a.value = v
    BY <1>2 DEF TsLiteral
  <2> HIDE DEF a
  <2> QED
    BY <2>1 DEF AdmitsOne, Admits
<1> QED
  BY <1>1, <1>2

LEMMA UnknownIsType ==
  ASSUME NEW schema \in Schemas
  PROVE  Unknown \in TsTypes
<1>1. MaxTsTypeDepth + 1 \in 0..MaxTsTypeDepth + 1 /\ MaxTsTypeDepth + 1 > MaxTsTypeDepth
  BY DEF MaxTsTypeDepth
<1>2. TsType[MaxTsTypeDepth + 1] = [s \in Schemas |-> IF MaxTsTypeDepth + 1 > MaxTsTypeDepth THEN Unknown
         ELSE TsTypeOf(s, TsType[MaxTsTypeDepth + 1 + 1])]
  BY <1>1, TsTypesAre DEF TsTypesAt
<1>3. TsType[MaxTsTypeDepth + 1][schema] = Unknown
  BY <1>1, <1>2
<1> QED
  BY <1>1, <1>3 DEF TsTypes

LEMMA ValidSays ==
  ASSUME NEW schema \in Schemas, NEW v \in JsonValues, Valid[schema][v]
  PROVE  /\ ~Has(schema, "nothing")
         /\ Has(schema, "type") => TypeAllowed({schema.type}, v)
         /\ (~Has(schema, "type") /\ Has(schema, "types")) => TypeAllowed(schema.types, v)
         /\ Has(schema, "enum") => v \in schema.enum
         /\ Has(schema, "const") => v = schema.const
         /\ Has(schema, "anyOf") => \E s \in schema.anyOf : Valid[s][v]
         /\ Has(schema, "items") => \A i \in DOMAIN v.items : Valid[schema.items][v.items[i]]
         /\ (v.type = "object" /\ Has(schema, "fields")) =>
                /\ schema.needs \subseteq DOMAIN v.fields
                /\ \A f \in DOMAIN v.fields \cap DOMAIN schema.fields :
                       Valid[schema.fields[f]][v.fields[f]]
         /\ (v.type = "object" /\ Has(schema, "more")) =>
                \A f \in DOMAIN v.fields :
                    \/ Has(schema, "fields") /\ f \in DOMAIN schema.fields
                    \/ \A s \in schema.more : Valid[s][v.fields[f]]
<1>1. Valid[schema] = ValidAs(Valid, schema)
  BY ValidsAre
<1>2. ValidAs(Valid, schema)[v]
  BY <1>1
<1> DEFINE valid == Valid
<1>3. ValidAs(valid, schema)[v]
  BY <1>2
<1> HIDE DEF valid
<1>4. /\ ~Has(schema, "nothing")
      /\ TypeAllowed(IF Has(schema, "type") THEN {schema.type}
                     ELSE IF Has(schema, "types") THEN schema.types ELSE {v.type}, v)
      /\ Has(schema, "enum") => v \in schema.enum
      /\ Has(schema, "const") => v = schema.const
      /\ Has(schema, "anyOf") => \E s \in schema.anyOf : valid[s][v]
      /\ Has(schema, "items") => \A i \in DOMAIN v.items : valid[schema.items][v.items[i]]
      /\ (v.type = "object" /\ Has(schema, "fields")) =>
              /\ schema.needs \subseteq DOMAIN v.fields
              /\ \A f \in DOMAIN v.fields \cap DOMAIN schema.fields :
                     valid[schema.fields[f]][v.fields[f]]
      /\ (v.type = "object" /\ Has(schema, "more")) =>
              \A f \in DOMAIN v.fields :
                  \/ Has(schema, "fields") /\ f \in DOMAIN schema.fields
                  \/ \A s \in schema.more : valid[s][v.fields[f]]
  BY <1>3 DEF ValidAs
<1> QED
  BY <1>4 DEF valid

\* One level of the argument: what holds of a schema's parts holds of one of its types.
LEMMA TypeForAdmits ==
  ASSUME NEW schema \in Schemas, NEW d \in 0..MaxTsTypeDepth + 1, NEW v \in JsonValues,
         Valid[schema][v], NEW type, TypeAllowed({type}, v),
         \A s \in Parts(schema) : \A w \in JsonValues : Valid[s][w] => Inhabits[w][TsType[d][s]]
  PROVE  AdmitsOne(TsTypeFor(type, schema, TsType[d]), v)
<1> DEFINE inner == TsType[d]
           made == TsTypeFor(type, schema, inner)
<1>0. /\ \A s \in Parts(schema) : s \in Schemas /\ inner[s] \in TsTypes
      /\ \A w \in JsonValues : Inhabits[w][Unknown]
      /\ \A w \in Members(v) : w \in JsonValues
  <2>1. \A w \in JsonValues : Inhabits[w][Unknown]
    BY UnknownIsType, UnknownAdmits, InhabitsOne
  <2> QED
    BY <2>1, PartsAreLess, MembersAreLess DEF TsTypes
<1>v. /\ Has(schema, "items") => \A i \in DOMAIN v.items : Valid[schema.items][v.items[i]]
      /\ (v.type = "object" /\ Has(schema, "fields")) =>
              /\ schema.needs \subseteq DOMAIN v.fields
              /\ \A f \in DOMAIN v.fields \cap DOMAIN schema.fields :
                     Valid[schema.fields[f]][v.fields[f]]
      /\ (v.type = "object" /\ Has(schema, "more")) =>
              \A f \in DOMAIN v.fields :
                  \/ Has(schema, "fields") /\ f \in DOMAIN schema.fields
                  \/ \A s \in schema.more : Valid[s][v.fields[f]]
  BY ValidSays
<1>t. v.type = type \/ (v.type = "integer" /\ type = "number")
  BY DEF TypeAllowed
<1> HIDE DEF inner, made
<1>1. CASE type \in {"integer", "number"}
  <2>1. made = {Alt("number")}
    BY <1>1 DEF made, TsTypeFor
  <2>2. Alt("number").is = "number" /\ v.type \in {"integer", "number"}
    BY <1>1, <1>t DEF Alt
  <2> QED
    BY <2>1, <2>2 DEF made, inner, AdmitsOne, Admits
<1>2. CASE type \in {"string", "boolean", "null"}
  <2>1. made = {Alt(type)}
    BY <1>2 DEF made, TsTypeFor
  <2>2. Alt(type).is = type /\ v.type = type
    BY <1>2, <1>t DEF Alt
  <2> QED
    BY <1>2, <2>1, <2>2 DEF made, inner, AdmitsOne, Admits
<1>3. CASE type = "array"
  <2> DEFINE of == IF Has(schema, "items") THEN inner[schema.items] ELSE Unknown
             a == [is |-> "array", of |-> of]
  <2>1. made = {a}
    BY <1>3 DEF made, TsTypeFor
  <2>2. a.is = "array" /\ a.of = of /\ v.type = "array"
    BY <1>3, <1>t
  <2>3. ASSUME NEW i \in DOMAIN v.items PROVE Inhabits[v.items[i]][of]
    <3>1. v.items[i] \in JsonValues
      BY <1>0, <2>2 DEF Members, ToSet
    <3>2. CASE Has(schema, "items")
      BY <1>v, <3>1, <3>2, PartsAreLess DEF inner
    <3>3. CASE ~Has(schema, "items")
      BY <1>0, <3>1, <3>3
    <3> QED
      BY <3>2, <3>3
  <2> HIDE DEF a, of
  <2>4. Admits(a, v)
    BY <2>2, <2>3 DEF Admits
  <2> QED
    BY <2>1, <2>4 DEF made, inner, AdmitsOne
<1>4. CASE type = "object" /\ Has(schema, "fields")
  <2> DEFINE fields == [f \in DOMAIN schema.fields |-> inner[schema.fields[f]]]
             a == [is |-> "fields", closed |-> schema.more = {Nothing}, needs |-> schema.needs, fields |-> fields]
  <2>1. made = {a}
    BY <1>4 DEF made, TsTypeFor
  <2>2. /\ a.is = "fields" /\ a.fields = fields /\ a.needs = schema.needs /\ (a.closed <=> schema.more = {Nothing})
        /\ v.type = "object" /\ DOMAIN fields = DOMAIN schema.fields
    BY <1>4, <1>t
  <2>3. ASSUME NEW f \in DOMAIN v.fields \cap DOMAIN fields PROVE Inhabits[v.fields[f]][fields[f]]
    <3>1. v.fields[f] \in JsonValues
      BY <1>0, <2>2 DEF Members, Range
    <3>2. schema.fields[f] \in Parts(schema) /\ fields[f] = inner[schema.fields[f]]
      BY <1>4 DEF Parts, Range
    <3>3. Valid[schema.fields[f]][v.fields[f]]
      BY <1>v, <1>4, <2>2
    <3> QED
      BY <3>1, <3>2, <3>3 DEF inner
  <2>4. ASSUME schema.more = {Nothing} PROVE DOMAIN v.fields \subseteq DOMAIN fields
    <3>1. Has(schema, "more") /\ Nothing \in Parts(schema) /\ Nothing \in Schemas
      BY <1>4, <2>4, <1>0, KeywordsAssumption DEF Has, Parts
    <3>2. ASSUME NEW f \in DOMAIN v.fields, f \notin DOMAIN fields PROVE FALSE
      <4>1. v.fields[f] \in JsonValues
        BY <1>0, <2>2 DEF Members, Range
      <4>2. Valid[Nothing][v.fields[f]]
        BY <1>v, <2>2, <2>4, <3>1, <3>2
      <4>3. Has(Nothing, "nothing")
        BY DEF Has, Nothing
      <4> QED
        BY <3>1, <4>1, <4>2, <4>3, ValidSays
    <3> QED
      BY <3>2
  <2> HIDE DEF a, fields
  <2>5. Admits(a, v)
    BY <1>v, <1>4, <2>2, <2>3, <2>4 DEF Admits
  <2> QED
    BY <2>1, <2>5 DEF made, inner, AdmitsOne
<1>5. CASE type = "object" /\ ~Has(schema, "fields")
  <2> DEFINE of == IF Has(schema, "more") /\ schema.more \notin {{}, {Nothing}}
                   THEN UNION {inner[s] : s \in schema.more} ELSE Unknown
             a == [is |-> "record", of |-> of]
  <2>1. made = {a}
    BY <1>5 DEF made, TsTypeFor
  <2>2. a.is = "record" /\ a.of = of /\ v.type = "object"
    BY <1>5, <1>t
  <2>3. ASSUME NEW f \in DOMAIN v.fields PROVE Inhabits[v.fields[f]][of]
    <3>1. v.fields[f] \in JsonValues
      BY <1>0, <2>2 DEF Members, Range
    <3>2. CASE Has(schema, "more") /\ schema.more \notin {{}, {Nothing}}
      <4>0. \A s, t \in schema.more : s = t
        BY <3>2, KeywordsAssumption
      <4>1. PICK s : schema.more = {s}
        <5>1. PICK s : s \in schema.more
          BY <3>2
        <5>2. schema.more = {s}
          BY <4>0, <5>1
        <5> QED
          BY <5>2
      <4>2. of = inner[s] /\ s \in Parts(schema)
        BY <3>2, <4>1 DEF Parts
      <4>3. Valid[s][v.fields[f]]
        BY <1>v, <1>5, <2>2, <3>2, <4>1
      <4> QED
        BY <3>1, <4>2, <4>3 DEF inner
    <3>3. CASE ~(Has(schema, "more") /\ schema.more \notin {{}, {Nothing}})
      BY <1>0, <3>1, <3>3
    <3> QED
      BY <3>2, <3>3
  <2> HIDE DEF a, of
  <2>4. Admits(a, v)
    BY <2>2, <2>3 DEF Admits
  <2> QED
    BY <2>1, <2>4 DEF made, inner, AdmitsOne
<1>6. CASE type \notin {"integer", "number", "string", "boolean", "null", "array", "object"}
  <2>1. made = Unknown
    BY <1>6 DEF made, TsTypeFor
  <2> QED
    BY <2>1, UnknownAdmits DEF made, inner
<1> QED
  BY <1>1, <1>2, <1>3, <1>4, <1>5, <1>6

\* One level of the argument, for the whole schema.
LEMMA TypeOfAdmits ==
  ASSUME NEW schema \in Schemas, NEW d \in 0..MaxTsTypeDepth + 1, NEW v \in JsonValues,
         Valid[schema][v],
         \A s \in Parts(schema) : \A w \in JsonValues : Valid[s][w] => Inhabits[w][TsType[d][s]]
  PROVE  AdmitsOne(TsTypeOf(schema, TsType[d]), v)
<1> DEFINE inner == TsType[d]
           made == TsTypeOf(schema, inner)
<1>1. CASE Has(schema, "enum")
  <2> DEFINE types == {TsLiteral(w) : w \in schema.enum}
  <2>1. made = Union(types)
    BY <1>1 DEF TsTypeOf
  <2>2. TsLiteral(v) \in types
    BY <1>1, ValidSays
  <2> HIDE DEF types, made, inner
  <2>3. AdmitsOne(Union(types), v)
    BY <2>2, LiteralAdmits, UnionAdmits
  <2> QED
    BY <2>1, <2>3 DEF made, inner
<1>2. CASE ~Has(schema, "enum") /\ Has(schema, "const")
  <2>1. made = TsLiteral(v)
    BY <1>2, ValidSays DEF TsTypeOf
  <2> QED
    BY <2>1, LiteralAdmits
<1>3. CASE ~Has(schema, "enum") /\ ~Has(schema, "const") /\ Has(schema, "anyOf")
  <2> DEFINE types == {inner[s] : s \in schema.anyOf}
  <2>1. made = Union(types)
    BY <1>3 DEF TsTypeOf
  <2>2. PICK s \in schema.anyOf : Valid[s][v]
    BY <1>3, ValidSays
  <2>3. inner[s] \in types
    OBVIOUS
  <2>4. s \in Parts(schema)
    BY <1>3 DEF Parts
  <2>5. inner[s] \in TsTypes /\ Inhabits[v][inner[s]]
    BY <2>2, <2>4, PartsAreLess DEF TsTypes
  <2> HIDE DEF types, made, inner
  <2>6. AdmitsOne(Union(types), v)
    BY <2>3, <2>5, InhabitsOne, UnionAdmits
  <2> QED
    BY <2>1, <2>6 DEF made, inner
<1>4. CASE ~Has(schema, "enum") /\ ~Has(schema, "const") /\ ~Has(schema, "anyOf") /\ Has(schema, "type")
  <2>1. made = TsTypeFor(schema.type, schema, inner)
    BY <1>4 DEF TsTypeOf
  <2>2. TypeAllowed({schema.type}, v)
    BY <1>4, ValidSays
  <2>3. AdmitsOne(TsTypeFor(schema.type, schema, TsType[d]), v)
    BY <2>2, TypeForAdmits
  <2> QED
    BY <2>1, <2>3
<1>5. CASE /\ ~Has(schema, "enum") /\ ~Has(schema, "const") /\ ~Has(schema, "anyOf") /\ ~Has(schema, "type")
           /\ Has(schema, "types")
  <2> DEFINE types == {TsTypeFor(t, schema, inner) : t \in schema.types}
  <2>1. made = Union(types)
    BY <1>5 DEF TsTypeOf
  <2>2. TypeAllowed(schema.types, v)
    BY <1>5, ValidSays
  <2>3. PICK t \in schema.types : TypeAllowed({t}, v)
    BY <2>2 DEF TypeAllowed
  <2>4. TsTypeFor(t, schema, inner) \in types
    OBVIOUS
  <2>5. AdmitsOne(TsTypeFor(t, schema, inner), v)
    BY <2>3, TypeForAdmits
  <2> HIDE DEF types, made, inner
  <2>6. AdmitsOne(Union(types), v)
    BY <2>4, <2>5, UnionAdmits
  <2> QED
    BY <2>1, <2>6 DEF made, inner
<1>6. CASE /\ ~Has(schema, "enum") /\ ~Has(schema, "const") /\ ~Has(schema, "anyOf") /\ ~Has(schema, "type")
           /\ ~Has(schema, "types")
  <2>1. made = Unknown
    BY <1>6 DEF TsTypeOf
  <2> QED
    BY <2>1, UnknownAdmits
<1> QED
  BY <1>1, <1>2, <1>3, <1>4, <1>5, <1>6

\* A schema's values are of its type, however deep the schema is in another.
LEMMA TypeAdmits ==
  ASSUME NEW schema \in Schemas, NEW depth \in 0..MaxTsTypeDepth + 1, NEW v \in JsonValues, Valid[schema][v]
  PROVE  Inhabits[v][TsType[depth][schema]]
<1> DEFINE Fits(s) == \A d \in 0..MaxTsTypeDepth + 1 : \A w \in JsonValues :
                          Valid[s][w] => Inhabits[w][TsType[d][s]]
           Bad == {s \in Schemas : ~Fits(s)}
           Depths == {Depth[s] : s \in Bad}
<1>1. ASSUME Bad # {} PROVE FALSE
  <2> HIDE DEF Fits
  <2>1. Depths \in SUBSET Nat /\ Depths # {}
    BY <1>1, SchemasAssumption
  <2>2. PICK least \in Depths : \A e \in Depths : least <= e
    BY <2>1, LeastNumber
  <2>3. PICK s \in Bad : least = Depth[s]
    OBVIOUS
  <2>4. ASSUME NEW p \in Parts(s) PROVE Fits(p)
    <3> SUFFICES ASSUME p \in Bad PROVE FALSE
      BY PartsAreLess
    <3>1. Depth[p] \in Nat /\ Depth[s] \in Nat /\ Depth[p] < Depth[s] /\ Depth[p] \in Depths
      BY PartsAreLess
    <3> HIDE DEF Depths
    <3> QED
      BY <2>2, <2>3, <3>1
  <2>5. ASSUME NEW d \in 0..MaxTsTypeDepth + 1, NEW w \in JsonValues, Valid[s][w]
        PROVE  Inhabits[w][TsType[d][s]]
    <3>1. TsType[d][s] \in TsTypes
      BY DEF TsTypes
    <3>2. TsType[d][s] = IF d > MaxTsTypeDepth THEN Unknown ELSE TsTypeOf(s, TsType[d + 1])
      BY TsTypesAre DEF TsTypesAt
    <3>3. CASE d > MaxTsTypeDepth
      <4>1. AdmitsOne(TsType[d][s], w)
        BY <3>2, <3>3, UnknownAdmits
      <4> QED
        BY <3>1, <4>1, InhabitsOne
    <3>4. CASE ~(d > MaxTsTypeDepth)
      <4>1. d + 1 \in 0..MaxTsTypeDepth + 1
        BY <3>4 DEF MaxTsTypeDepth
      <4>2. \A p \in Parts(s) : \A x \in JsonValues : Valid[p][x] => Inhabits[x][TsType[d + 1][p]]
        BY <2>4, <4>1 DEF Fits
      <4>3. AdmitsOne(TsTypeOf(s, TsType[d + 1]), w)
        BY <2>5, <4>1, <4>2, TypeOfAdmits
      <4>4. AdmitsOne(TsType[d][s], w)
        BY <3>2, <3>4, <4>3
      <4> QED
        BY <3>1, <4>4, InhabitsOne
    <3> QED
      BY <3>3, <3>4
  <2>6. Fits(s)
    BY <2>5 DEF Fits
  <2> QED
    BY <2>6
<1>2. Fits(schema)
  <2> HIDE DEF Fits
  <2> QED
    BY <1>1
<1> QED
  BY <1>2

\* Python's annotation.
LEMMA AnnotationAdmits ==
  ASSUME NEW schema \in Schemas, NEW v \in JsonValues, Valid[schema][v], v # Null,
         NEW type \in PythonType(schema)
  PROVE  v.type = type \/ (v.type = "integer" /\ type = "number")
<1> DEFINE types == IF Has(schema, "type") THEN {schema.type}
                    ELSE IF Has(schema, "types") THEN schema.types \ {"null"} ELSE {}
<1>1. Cardinality(types) = 1 /\ type \in types
  BY DEF PythonType
<1>2. IsFiniteSet(types)
  <2>1. Has(schema, "types") => IsFiniteSet(schema.types \ {"null"})
    BY KeywordsAssumption, FS_Difference
  <2> QED
    BY <2>1, FS_Singleton, FS_EmptySet
<1>3. types = {type}
  BY <1>1, <1>2, FS_Singleton
<1>4. v.type # "null"
  BY ValuesAssumption
<1>5. CASE Has(schema, "type")
  BY <1>3, <1>5, ValidSays DEF TypeAllowed
<1>6. CASE ~Has(schema, "type")
  <2>1. Has(schema, "types") /\ schema.types \ {"null"} = {type}
    BY <1>3, <1>6
  <2>2. TypeAllowed(schema.types, v)
    BY <1>6, <2>1, ValidSays
  <2> QED
    BY <1>4, <2>1, <2>2 DEF TypeAllowed
<1> QED
  BY <1>5, <1>6

LEMMA AllTypesAdmit ==
  ASSUME NEW schema \in Schemas
  PROVE  TypesAdmit(schema, Inputs)
<1>1. Inputs \subseteq JsonValues
  BY CallersAssumption
<1>2. 0 \in 0..MaxTsTypeDepth + 1
  BY DEF MaxTsTypeDepth
<1> QED
  BY <1>1, <1>2, TypeAdmits, AnnotationAdmits DEF TypesAdmit

LEMMA AllOutcomesAgree == OutcomesAgree(Replies)
<1> SUFFICES ASSUME NEW reply \in Replies, reply.kind # "cut", NEW limited \in BOOLEAN
             PROVE  PythonOutcome(reply, limited) = TsOutcome(reply, limited)
  BY DEF OutcomesAgree
<1>1. reply.kind \in {"ok", "error", "silent", "refused"}
  BY CallersAssumption
<1>2. CASE reply.kind = "silent"
  <2>1. {"timed out" : t \in {limited} \cap {TRUE}} = IF limited THEN {"timed out"} ELSE {}
    <3>1. CASE limited = TRUE
      <4>1. {limited} \cap {TRUE} = {TRUE}
        BY <3>1
      <4>2. {"timed out" : t \in {limited} \cap {TRUE}} = {"timed out"}
        BY <4>1
      <4> QED
        BY <3>1, <4>2
    <3>2. CASE limited = FALSE
      <4>1. {limited} \cap {TRUE} = {}
        BY <3>2
      <4>2. {"timed out" : t \in {limited} \cap {TRUE}} = {}
        BY <4>1
      <4> QED
        BY <3>2, <4>2
    <3> QED
      BY <3>1, <3>2
  <2>2. TsOutcome(reply, limited) = IF limited THEN {"timed out"} ELSE {}
    BY <1>2, <2>1 DEF TsOutcome
  <2>3. PythonOutcome(reply, limited) = IF limited THEN {"timed out"} ELSE {}
    BY <1>2 DEF PythonOutcome
  <2> QED
    BY <2>2, <2>3
<1>3. CASE reply.kind = "ok"
  BY <1>3 DEF PythonOutcome, TsOutcome
<1>4. CASE reply.kind = "error"
  BY <1>4 DEF PythonOutcome, TsOutcome
<1>5. CASE reply.kind = "refused"
  BY <1>5 DEF PythonOutcome, TsOutcome
<1> QED
  BY <1>1, <1>2, <1>3, <1>4, <1>5

-----------------------------------------------------------------------------
(* Sequences made of pieces *)

Texts(A) == Seq(A)
NoText == <<>>
Then(x, y) == x \o y

LEMMA ThenIs ==
  ASSUME NEW A
  PROVE  /\ NoText \in Texts(A)
         /\ \A x, y \in Texts(A) : Then(x, y) \in Texts(A)
         /\ \A x \in Texts(A) : Then(x, NoText) = x /\ Then(NoText, x) = x
  BY ConcatProperties, ConcatEmptySeq DEF Texts, NoText, Then

\* The beginnings of a sequence that is made of n pieces.
AreBeginnings(f, pieces, n) ==
    f[0] = NoText /\ \A i \in 1..n : f[i] = Then(f[i - 1], pieces[i])

LEMMA Beginnings ==
  ASSUME NEW A, NEW n \in Nat, NEW pieces \in [1..n -> Texts(A)]
  PROVE  \E f \in [0..n -> Texts(A)] : AreBeginnings(f, pieces, n)
<1> DEFINE T == Texts(A)
           D == 0..n
           depth == [i \in D |-> i]
           h == [i \in D |-> [f \in [D -> T] |-> IF i = 0 THEN NoText ELSE Then(f[i - 1], pieces[i])]]
<1>1. h \in [D -> [[D -> T] -> T]]
  <2>1. ASSUME NEW i \in D, NEW f \in [D -> T]
        PROVE  (IF i = 0 THEN NoText ELSE Then(f[i - 1], pieces[i])) \in T
    <3>1. CASE i = 0
      BY <3>1, ThenIs
    <3>2. CASE i # 0
      <4>1. f[i - 1] \in T /\ pieces[i] \in T
        BY <3>2
      <4> QED
        BY <3>2, <4>1, ThenIs
    <3> QED
      BY <3>1, <3>2
  <2> QED
    BY <2>1
<1>2. ASSUME NEW x \in D, NEW f \in [D -> T], NEW g \in [D -> T],
             \A y \in D : depth[y] < depth[x] => f[y] = g[y]
      PROVE  h[x][f] = h[x][g]
  <2>1. x # 0 => f[x - 1] = g[x - 1]
    BY <1>2
  <2> QED
    BY <2>1
<1>3. depth \in [D -> Nat] /\ T # {}
  BY ThenIs
<1>4. \E f \in [D -> T] : \A x \in D : f[x] = h[x][f]
  <2> HIDE DEF h, T, D, depth
  <2>1. IsTreeDefinition(D, depth, T, h)
    BY <1>1, <1>2, <1>3 DEF IsTreeDefinition
  <2> QED
    BY <2>1, TreeRecursion
<1>5. PICK f \in [D -> T] : \A x \in D : f[x] = IF x = 0 THEN NoText ELSE Then(f[x - 1], pieces[x])
  <2> HIDE DEF T
  <2> QED
    BY <1>4
<1> QED
  BY <1>5 DEF AreBeginnings

\* They are the same however they are found.
LEMMA SameBeginnings ==
  ASSUME NEW n \in Nat, NEW pieces, NEW f, NEW g,
         AreBeginnings(f, pieces, n), AreBeginnings(g, pieces, n)
  PROVE  \A i \in 0..n : f[i] = g[i]
<1> DEFINE S == {i \in 0..n : f[i] = g[i]}
<1>1. 0 \in S
  BY DEF AreBeginnings
<1>2. ASSUME NEW i \in 1..n, i - 1 \in S PROVE i \in S
  BY <1>2 DEF AreBeginnings
<1> HIDE DEF S
<1>3. \A i \in 0..n : i \in S
  BY <1>1, <1>2, InductionUpTo
<1> QED
  BY <1>3 DEF S

\* The sequence is the last of them.
LEMMA FlatIs ==
  ASSUME NEW A, NEW n \in Nat, NEW pieces \in [1..n -> Texts(A)],
         NEW f \in [0..n -> Texts(A)], AreBeginnings(f, pieces, n)
  PROVE  FlattenSeq(pieces) = f[n]
<1> DEFINE IsFlat(g) == g = [i \in 1..n |-> IF i = 1 THEN pieces[i] ELSE Then(g[i - 1], pieces[i])]
           flat == CHOOSE g : IsFlat(g)
<1>1. Len(pieces) = n
  BY LenProperties
<1>2. CASE n = 0
  <2>1. FlattenSeq(pieces) = pieces
    BY <1>1, <1>2 DEF FlattenSeq
  <2>2. pieces = NoText
    BY <1>2 DEF NoText
  <2> QED
    BY <1>2, <2>1, <2>2 DEF AreBeginnings
<1>3. CASE n # 0
  <2>1. FlattenSeq(pieces) = flat[n]
    BY <1>1, <1>3 DEF FlattenSeq, Then
  <2>2. 1 \in 1..n /\ f[1] = pieces[1]
    <3>1. 1 \in 1..n /\ f[1] = Then(NoText, pieces[1]) /\ pieces[1] \in Texts(A)
      BY <1>3 DEF AreBeginnings
    <3> QED
      BY <3>1, ThenIs
  <2>3. IsFlat([i \in 1..n |-> f[i]])
    BY <2>2 DEF AreBeginnings
  <2>4. IsFlat(flat)
    <3> HIDE DEF IsFlat
    <3> QED
      BY <2>3
  <2> HIDE DEF flat
  <2> DEFINE g == [i \in 0..n |-> IF i = 0 THEN NoText ELSE flat[i]]
  <2>5. ASSUME NEW i \in 1..n PROVE g[i] = Then(g[i - 1], pieces[i])
    <3>1. CASE i = 1
      <4>1. g[i] = pieces[1] /\ g[i - 1] = NoText /\ pieces[1] \in Texts(A)
        BY <2>4, <3>1
      <4> QED
        BY <3>1, <4>1, ThenIs
    <3>2. CASE i # 1
      <4>1. i - 1 \in 1..n /\ g[i - 1] = flat[i - 1] /\ g[i] = flat[i]
        BY <3>2
      <4>2. flat[i] = Then(flat[i - 1], pieces[i])
        BY <2>4, <3>2
      <4> QED
        BY <4>1, <4>2
    <3> QED
      BY <3>1, <3>2
  <2>6. AreBeginnings(g, pieces, n)
    <3>1. g[0] = NoText
      OBVIOUS
    <3> HIDE DEF g
    <3> QED
      BY <2>5, <3>1 DEF AreBeginnings
  <2>7. g[n] = flat[n]
    BY <1>3
  <2> HIDE DEF g
  <2>8. g[n] = f[n]
    BY <2>6, SameBeginnings
  <2> QED
    BY <2>1, <2>7, <2>8
<1> QED
  BY <1>2, <1>3

LEMMA FlatBeginnings ==
  ASSUME NEW A, NEW n \in Nat, NEW pieces \in [1..n -> Texts(A)]
  PROVE  \E f \in [0..n -> Texts(A)] : AreBeginnings(f, pieces, n) /\ FlattenSeq(pieces) = f[n]
  BY Beginnings, FlatIs

LEMMA FlatIsText ==
  ASSUME NEW A, NEW n \in Nat, NEW pieces \in [1..n -> Texts(A)]
  PROVE  FlattenSeq(pieces) \in Texts(A)
<1>1. PICK f \in [0..n -> Texts(A)] : FlattenSeq(pieces) = f[n]
  BY FlatBeginnings
<1> QED
  BY <1>1

-----------------------------------------------------------------------------
(* The order of parameters *)

AllDifferent(x) == \A i, j \in 1..Len(x) : x[i] = x[j] => i = j

\* What is kept of the first n names.
IsKept(x, names, some, n) ==
    /\ \A k \in 1..Len(x) : x[k] \in some /\ \E j \in 1..n : x[k] = names[j]
    /\ \A j \in 1..n : names[j] \in some => \E k \in 1..Len(x) : x[k] = names[j]
    /\ AllDifferent(x)

Piece(name, some) == IF name \in some THEN <<name>> ELSE <<>>

LEMMA PieceIs ==
  ASSUME NEW A, NEW name \in A, NEW some, NEW x \in Texts(A)
  PROVE  /\ Piece(name, some) \in Texts(A)
         /\ name \notin some => Then(x, Piece(name, some)) = x
         /\ name \in some => /\ Len(Then(x, Piece(name, some))) = Len(x) + 1
                             /\ \A k \in 1..Len(x) : Then(x, Piece(name, some))[k] = x[k]
                             /\ Then(x, Piece(name, some))[Len(x) + 1] = name
<1>1. CASE name \notin some
  <2>1. Piece(name, some) = NoText
    BY <1>1 DEF Piece, NoText
  <2> QED
    BY <1>1, <2>1, ThenIs
<1>2. CASE name \in some
  <2>1. Piece(name, some) = <<name>> /\ <<name>> \in Seq(A) /\ x \in Seq(A) /\ Len(<<name>>) = 1 /\ <<name>>[1] = name
    BY <1>2 DEF Piece, Texts
  <2>2. Len(x) \in Nat
    BY <2>1, LenProperties
  <2>3. /\ Len(x \o <<name>>) = Len(x) + 1
        /\ \A k \in 1..Len(x) + 1 : (x \o <<name>>)[k] = IF k <= Len(x) THEN x[k] ELSE <<name>>[k - Len(x)]
    BY <2>1, ConcatProperties
  <2>4. (x \o <<name>>)[Len(x) + 1] = name
    BY <2>1, <2>2, <2>3
  <2> QED
    BY <1>2, <2>1, <2>2, <2>3, <2>4 DEF Then, Texts
<1> QED
  BY <1>1, <1>2

LEMMA PieceIsText ==
  ASSUME NEW A, NEW name \in A, NEW some
  PROVE  Piece(name, some) \in Texts(A)
  BY ThenIs, PieceIs

LEMMA IsKeptStep ==
  ASSUME NEW A, NEW n \in Nat, NEW names \in [1..n -> A], \A i, j \in 1..n : names[i] = names[j] => i = j,
         NEW some, NEW i \in 1..n, NEW x \in Texts(A), IsKept(x, names, some, i - 1)
  PROVE  IsKept(Then(x, Piece(names[i], some)), names, some, i)
<1> DEFINE name == names[i]
           y == Then(x, Piece(name, some))
<1>0. name \in A /\ Len(x) \in Nat
  BY LenProperties DEF Texts
<1>1. CASE name \notin some
  <2>1. y = x
    BY <1>0, <1>1, PieceIs
  <2>2. IsKept(x, names, some, i)
    BY <1>1 DEF IsKept
  <2> QED
    BY <2>1, <2>2
<1>2. CASE name \in some
  <2>1. Len(y) = Len(x) + 1 /\ (\A k \in 1..Len(x) : y[k] = x[k]) /\ y[Len(x) + 1] = name
    BY <1>0, <1>2, PieceIs
  <2> HIDE DEF y
  <2>2. \A k \in 1..Len(x) : x[k] \in some /\ (\E j \in 1..i - 1 : x[k] = names[j]) /\ x[k] # name
    BY DEF IsKept
  <2>3. \A k \in 1..Len(y) : y[k] \in some /\ \E j \in 1..i : y[k] = names[j]
    <3>1. ASSUME NEW k \in 1..Len(y) PROVE y[k] \in some /\ \E j \in 1..i : y[k] = names[j]
      <4>1. CASE k \in 1..Len(x)
        BY <4>1, <2>1, <2>2
      <4>2. CASE k = Len(x) + 1
        BY <4>2, <2>1, <1>2
      <4> QED
        BY <1>0, <2>1, <4>1, <4>2
    <3> QED
      BY <3>1
  <2>4. ASSUME NEW j \in 1..i, names[j] \in some PROVE \E k \in 1..Len(y) : y[k] = names[j]
    <3>1. CASE j = i
      BY <3>1, <2>1, <1>0
    <3>2. CASE j # i
      <4>1. PICK k \in 1..Len(x) : x[k] = names[j]
        BY <2>4, <3>2 DEF IsKept
      <4> QED
        BY <4>1, <2>1, <1>0
    <3> QED
      BY <3>1, <3>2
  <2>5. AllDifferent(y)
    <3> SUFFICES ASSUME NEW k \in 1..Len(y), NEW l \in 1..Len(y), y[k] = y[l] PROVE k = l
      BY DEF AllDifferent
    <3>1. CASE k <= Len(x) /\ l <= Len(x)
      BY <1>0, <2>1, <3>1 DEF IsKept, AllDifferent
    <3>2. CASE ~(k <= Len(x) /\ l <= Len(x))
      BY <1>0, <2>1, <2>2, <3>2, SMTT(30)
    <3> QED
      BY <3>1, <3>2
  <2>6. IsKept(y, names, some, i)
    BY <2>3, <2>4, <2>5 DEF IsKept
  <2> QED
    BY <2>6 DEF y
<1> QED
  BY <1>1, <1>2

LEMMA KeptIs ==
  ASSUME NEW A, NEW names \in Seq(A), AllDifferent(names), NEW some
  PROVE  Kept(names, some) \in Texts(A) /\ IsKept(Kept(names, some), names, some, Len(names))
<1> DEFINE n == Len(names)
           pieces == [i \in DOMAIN names |-> Piece(names[i], some)]
<1>0. n \in Nat /\ names \in [1..n -> A] /\ DOMAIN names = 1..n /\ \A i, j \in 1..n : names[i] = names[j] => i = j
  BY LenProperties DEF AllDifferent
<1>1. Kept(names, some) = FlattenSeq(pieces)
  BY DEF Kept, Piece
<1>2. pieces \in [1..n -> Texts(A)] /\ \A i \in 1..n : pieces[i] = Piece(names[i], some)
  BY <1>0, PieceIsText
<1> HIDE DEF n, pieces
<1>3. PICK f \in [0..n -> Texts(A)] : AreBeginnings(f, pieces, n) /\ FlattenSeq(pieces) = f[n]
  BY <1>0, <1>2, FlatBeginnings
<1> DEFINE S == {i \in 0..n : IsKept(f[i], names, some, i)}
<1>4. 0 \in S
  <2>1. f[0] = <<>> /\ Len(<<>>) = 0
    BY <1>3 DEF AreBeginnings, NoText
  <2>2. IsKept(<<>>, names, some, 0)
    BY DEF IsKept, AllDifferent
  <2> QED
    BY <1>0, <2>1, <2>2
<1>5. ASSUME NEW i \in 1..n, i - 1 \in S PROVE i \in S
  <2>1. f[i - 1] \in Texts(A) /\ IsKept(f[i - 1], names, some, i - 1)
    BY <1>0, <1>5
  <2>2. f[i] = Then(f[i - 1], Piece(names[i], some))
    BY <1>2, <1>3 DEF AreBeginnings
  <2>3. IsKept(Then(f[i - 1], Piece(names[i], some)), names, some, i)
    BY <1>0, <2>1, IsKeptStep
  <2> QED
    BY <2>2, <2>3
<1> HIDE DEF S
<1>6. \A i \in 0..n : i \in S
  BY <1>0, <1>4, <1>5, InductionUpTo
<1>7. n \in S
  BY <1>0, <1>6
<1> QED
  BY <1>0, <1>1, <1>3, <1>7 DEF S, n

\* A name is kept or is among the rest.
LEMMA KeptLengths ==
  ASSUME NEW A, NEW names \in Seq(A), NEW some, NEW rest,
         \A i \in 1..Len(names) : names[i] \in rest <=> names[i] \notin some
  PROVE  Len(Kept(names, some)) + Len(Kept(names, rest)) = Len(names)
<1> DEFINE n == Len(names)
           Pieces(those) == [i \in DOMAIN names |-> Piece(names[i], those)]
<1>0. n \in Nat /\ names \in [1..n -> A] /\ DOMAIN names = 1..n /\ \A i \in 1..n : names[i] \in rest <=> names[i] \notin some
  BY LenProperties
<1>1. \A those : Kept(names, those) = FlattenSeq(Pieces(those))
  BY DEF Kept, Piece
<1>2. \A those : Pieces(those) \in [1..n -> Texts(A)] /\ \A i \in 1..n : Pieces(those)[i] = Piece(names[i], those)
  BY <1>0, PieceIsText
<1> HIDE DEF n, Pieces
<1>3. PICK f \in [0..n -> Texts(A)] : AreBeginnings(f, Pieces(some), n) /\ FlattenSeq(Pieces(some)) = f[n]
  BY <1>0, <1>2, FlatBeginnings
<1>4. PICK g \in [0..n -> Texts(A)] : AreBeginnings(g, Pieces(rest), n) /\ FlattenSeq(Pieces(rest)) = g[n]
  BY <1>0, <1>2, FlatBeginnings
<1> DEFINE S == {i \in 0..n : Len(f[i]) + Len(g[i]) = i}
<1>5. 0 \in S
  <2>1. f[0] = <<>> /\ g[0] = <<>> /\ Len(<<>>) = 0
    BY <1>3, <1>4 DEF AreBeginnings, NoText
  <2> QED
    BY <1>0, <2>1
<1>6. ASSUME NEW i \in 1..n, i - 1 \in S PROVE i \in S
  <2>1. f[i - 1] \in Texts(A) /\ g[i - 1] \in Texts(A) /\ Len(f[i - 1]) + Len(g[i - 1]) = i - 1 /\ names[i] \in A
    BY <1>0, <1>6
  <2>2. Len(f[i - 1]) \in Nat /\ Len(g[i - 1]) \in Nat
    BY <2>1, LenProperties DEF Texts
  <2>3. f[i] = Then(f[i - 1], Piece(names[i], some)) /\ g[i] = Then(g[i - 1], Piece(names[i], rest))
    BY <1>2, <1>3, <1>4 DEF AreBeginnings
  <2>4. CASE names[i] \in some
    <3>1. Len(f[i]) = Len(f[i - 1]) + 1 /\ g[i] = g[i - 1]
      BY <1>0, <2>1, <2>3, <2>4, PieceIs
    <3> QED
      BY <2>1, <2>2, <3>1
  <2>5. CASE names[i] \notin some
    <3>1. Len(g[i]) = Len(g[i - 1]) + 1 /\ f[i] = f[i - 1]
      BY <1>0, <2>1, <2>3, <2>5, PieceIs
    <3> QED
      BY <2>1, <2>2, <3>1
  <2> QED
    BY <2>4, <2>5
<1> HIDE DEF S
<1>7. \A i \in 0..n : i \in S
  BY <1>0, <1>5, <1>6, InductionUpTo
<1>8. n \in S
  BY <1>0, <1>7
<1>9. Len(f[n]) + Len(g[n]) = n
  BY <1>8 DEF S
<1>10. Kept(names, some) = f[n] /\ Kept(names, rest) = g[n]
  BY <1>1, <1>3, <1>4
<1> QED
  BY <1>9, <1>10 DEF n

LEMMA SignatureIs ==
  ASSUME NEW tool \in Signatures
  PROVE  /\ tool.order \in Seq(Seq(STRING)) /\ Len(tool.order) \in Nat \ {0}
         /\ DOMAIN tool.order = 1..Len(tool.order) /\ AllDifferent(tool.order)
         /\ tool.required \subseteq ToSet(tool.order)
         /\ ToSet(tool.order) = {tool.order[i] : i \in 1..Len(tool.order)}
         /\ 2..Len(tool.order) + 1 \subseteq DOMAIN Numeral
<1>1. /\ tool.order # <<>> /\ tool.order \in Seq(Seq(STRING))
      /\ \A i, j \in DOMAIN tool.order : tool.order[i] = tool.order[j] => i = j
      /\ tool.required \subseteq ToSet(tool.order)
      /\ 2..Len(tool.order) + 1 \subseteq DOMAIN Numeral
  BY CallersAssumption
<1>2. DOMAIN tool.order = 1..Len(tool.order) /\ Len(tool.order) \in Nat
  BY <1>1, LenProperties
<1>3. Len(tool.order) # 0
  BY <1>1, EmptySeq
<1> QED
  BY <1>1, <1>2, <1>3 DEF AllDifferent, ToSet

\* The parameters are the tool's, once each, and the required ones come first.
LEMMA OrderedParamsAre ==
  ASSUME NEW tool \in Signatures, NEW params, params = OrderedParams(tool)
  PROVE  /\ params \in Seq(Seq(STRING)) /\ Len(params) = Len(tool.order) /\ AllDifferent(params)
         /\ \A i \in 1..Len(params) : params[i] \in ToSet(tool.order)
         /\ \A wire \in ToSet(tool.order) : \E i \in 1..Len(params) : params[i] = wire
         /\ \A i, j \in 1..Len(params) : i < j /\ params[j] \in tool.required => params[i] \in tool.required
<1> DEFINE A == Seq(STRING)
           names == tool.order
           n == Len(names)
           all == ToSet(tool.order)
           some == tool.required
           rest == all \ some
           first == Kept(names, some)
           second == Kept(names, rest)
<1>0. /\ names \in Seq(A) /\ n \in Nat /\ AllDifferent(names) /\ some \subseteq all
      /\ all = {names[i] : i \in 1..n}
  BY SignatureIs
<1>1. params = Then(first, second)
  BY DEF OrderedParams, Then
<1> HIDE DEF A, names, n, all, some, first, second
<1>2. /\ first \in Texts(A) /\ IsKept(first, names, some, n)
      /\ second \in Texts(A) /\ IsKept(second, names, rest, n)
  BY <1>0, KeptIs DEF first, second, n
<1>3. \A i \in 1..n : names[i] \in rest <=> names[i] \notin some
  BY <1>0
<1> HIDE DEF rest
<1>4. Len(first) + Len(second) = n
  BY <1>0, <1>3, KeptLengths DEF first, second, n
<1>5. Len(first) \in Nat /\ Len(second) \in Nat
  BY <1>2, LenProperties DEF Texts
<1>6. /\ params \in Seq(A) /\ Len(params) = n
      /\ \A i \in 1..Len(first) : params[i] = first[i]
      /\ \A i \in 1..Len(second) : params[Len(first) + i] = second[i]
  <2>1. /\ first \o second \in Seq(A) /\ Len(first \o second) = Len(first) + Len(second)
        /\ \A i \in 1..Len(first) + Len(second) :
              (first \o second)[i] = IF i <= Len(first) THEN first[i] ELSE second[i - Len(first)]
    BY <1>2, ConcatProperties DEF Texts
  <2>2. \A i \in 1..Len(first) : (first \o second)[i] = first[i]
    BY <1>5, <2>1
  <2>3. ASSUME NEW i \in 1..Len(second) PROVE (first \o second)[Len(first) + i] = second[i]
    <3>1. Len(first) + i \in 1..Len(first) + Len(second) /\ ~(Len(first) + i <= Len(first)) /\ (Len(first) + i) - Len(first) = i
      BY <1>5
    <3> QED
      BY <2>1, <3>1
  <2> QED
    BY <1>1, <1>4, <2>1, <2>2, <2>3 DEF Then
<1>7. \A i \in 1..n : \/ i \in 1..Len(first) /\ params[i] = first[i] /\ params[i] \in some
                      \/ /\ i - Len(first) \in 1..Len(second) /\ params[i] = second[i - Len(first)]
                         /\ params[i] \in rest /\ params[i] \notin some /\ ~(i <= Len(first))
  <2>1. ASSUME NEW i \in 1..n, ~(i <= Len(first))
        PROVE  i - Len(first) \in 1..Len(second) /\ params[i] = second[i - Len(first)]
    <3> DEFINE j == i - Len(first)
    <3>1. j \in 1..Len(second) /\ Len(first) + j = i
      BY <1>0, <1>4, <1>5, <2>1
    <3> HIDE DEF j
    <3>2. params[i] = second[j]
      BY <1>6, <3>1
    <3> QED
      BY <3>1, <3>2 DEF j
  <2>2. \A k \in 1..Len(first) : first[k] \in some
    BY <1>2 DEF IsKept
  <2>3. \A k \in 1..Len(second) : second[k] \in rest /\ second[k] \notin some
    BY <1>2 DEF IsKept, rest
  <2>4. ASSUME NEW i \in 1..n, i <= Len(first)
        PROVE  i \in 1..Len(first) /\ params[i] = first[i] /\ params[i] \in some
    BY <1>0, <1>5, <1>6, <2>2, <2>4
  <2>5. ASSUME NEW i \in 1..n, ~(i <= Len(first))
        PROVE  /\ i - Len(first) \in 1..Len(second) /\ params[i] = second[i - Len(first)]
               /\ params[i] \in rest /\ params[i] \notin some
    BY <2>1, <2>3, <2>5
  <2> QED
    BY <2>4, <2>5
<1>8. AllDifferent(params)
  <2> SUFFICES ASSUME NEW i \in 1..n, NEW j \in 1..n, params[i] = params[j] PROVE i = j
    BY <1>6 DEF AllDifferent
  <2>1. CASE params[i] \in some
    <3>1. i \in 1..Len(first) /\ j \in 1..Len(first) /\ first[i] = first[j]
      BY <1>7, <2>1
    <3> QED
      BY <1>2, <3>1 DEF IsKept, AllDifferent
  <2>2. CASE params[i] \notin some
    <3>1. /\ i - Len(first) \in 1..Len(second) /\ j - Len(first) \in 1..Len(second)
          /\ second[i - Len(first)] = second[j - Len(first)]
      BY <1>7, <2>2
    <3>2. i - Len(first) = j - Len(first)
      BY <1>2, <3>1 DEF IsKept, AllDifferent
    <3> QED
      BY <1>0, <1>5, <3>2
  <2> QED
    BY <2>1, <2>2
<1>9. \A i \in 1..n : params[i] \in all
  BY <1>0, <1>7 DEF rest
<1>10. ASSUME NEW wire \in all PROVE \E i \in 1..n : params[i] = wire
  <2>1. PICK j \in 1..n : wire = names[j]
    BY <1>0
  <2>2. CASE wire \in some
    <3>1. PICK k \in 1..Len(first) : first[k] = wire
      BY <1>2, <2>1, <2>2 DEF IsKept
    <3>2. k \in 1..n /\ params[k] = wire
      BY <1>0, <1>4, <1>5, <1>6, <3>1
    <3> QED
      BY <3>2
  <2>3. CASE wire \notin some
    <3>1. PICK k \in 1..Len(second) : second[k] = wire
      BY <1>2, <1>3, <2>1, <2>3 DEF IsKept
    <3>2. Len(first) + k \in 1..n /\ params[Len(first) + k] = wire
      BY <1>0, <1>4, <1>5, <1>6, <3>1
    <3> QED
      BY <3>2
  <2> QED
    BY <2>2, <2>3
<1>11. ASSUME NEW i \in 1..n, NEW j \in 1..n, i < j, params[j] \in some PROVE params[i] \in some
  <2>1. j \in 1..Len(first)
    BY <1>7, <1>11
  <2>2. i <= Len(first)
    BY <1>0, <1>5, <1>11, <2>1
  <2> QED
    BY <1>7, <2>2
<1> QED
  BY <1>6, <1>8, <1>9, <1>10, <1>11 DEF A, names, n, all, some

-----------------------------------------------------------------------------
(* Identifiers *)

\* The provers do not know that the words of this module are strings.
Letters == STRING \cup {"_", "Page", "Id", "page", "id", "no"}
Word == Seq(Letters)

LEMMA LoweredIs == ASSUME NEW word \in Letters PROVE Lowered(word) \in Letters
<1>1. ASSUME word \in DOMAIN Lower PROVE Lower[word] \in Letters
  <2>1. CASE word = "Page"
    BY <2>1 DEF Letters, Lower
  <2>2. CASE word = "Id"
    BY <2>2 DEF Letters, Lower
  <2>3. CASE word = "No"
    BY <2>3 DEF Letters, Lower
  <2> QED
    BY <1>1, <2>1, <2>2, <2>3 DEF Lower
<1> QED
  BY <1>1 DEF Lowered, IsCapital

LEMMA RaisedIs == ASSUME NEW word \in DOMAIN Raised PROVE Raised[word] \in Letters
  BY DEF Raised, Letters

LEMMA ShortTexts ==
  ASSUME NEW A, NEW x \in A, NEW y \in A
  PROVE  /\ NoText \in Texts(A) /\ <<x>> \in Texts(A) /\ <<x, y>> \in Texts(A)
         /\ Len(<<x>>) = 1 /\ <<x>>[1] = x
         /\ Len(<<x, y>>) = 2 /\ <<x, y>>[1] = x /\ <<x, y>>[2] = y
  BY DEF Texts, NoText

LEMMA WordIs ==
  ASSUME NEW name \in Word
  PROVE  Len(name) \in Nat /\ DOMAIN name = 1..Len(name) /\ \A i \in 1..Len(name) : name[i] \in Letters
  BY LenProperties, ElementOfSeq DEF Word

LEMMA NamesAreWords == ASSUME NEW name \in Seq(STRING) PROVE name \in Word
<1>1. /\ Len(name) \in Nat /\ name \in [1..Len(name) -> STRING]
      /\ \A i \in 1..Len(name) : name[i] \in STRING
  BY LenProperties, ElementOfSeq
<1>2. name \in [1..Len(name) -> Letters]
  BY <1>1 DEF Letters
<1> QED
  BY <1>1, <1>2, IsASeq DEF Word

LEMMA ToSnakeIs == ASSUME NEW name \in Word PROVE ToSnake(name) \in Word
<1> DEFINE n == Len(name)
           Follows(i) == i > 1 /\ name[i - 1] \notin {"-", " ", "_"}
           pieces == [i \in DOMAIN name |->
               IF name[i] \in {"-", " "} THEN IF Follows(i) THEN <<"_">> ELSE <<>>
               ELSE IF IsCapital(name[i]) /\ Follows(i) THEN <<"_", Lowered(name[i])>>
               ELSE <<Lowered(name[i])>>]
<1>1. n \in Nat /\ DOMAIN name = 1..n /\ \A i \in 1..n : name[i] \in Letters
  BY WordIs
<1>2. ToSnake(name) = FlattenSeq(pieces)
  BY DEF ToSnake
<1>3. ASSUME NEW i \in 1..n PROVE pieces[i] \in Texts(Letters)
  <2>1. Lowered(name[i]) \in Letters /\ "_" \in Letters
    BY <1>1, LoweredIs DEF Letters
  <2>2. pieces[i] \in {<<"_">>, <<>>, <<"_", Lowered(name[i])>>, <<Lowered(name[i])>>}
    <3> DEFINE follows == Follows(i)
    <3>1. pieces[i] = IF name[i] \in {"-", " "} THEN IF follows THEN <<"_">> ELSE <<>>
                      ELSE IF IsCapital(name[i]) /\ follows THEN <<"_", Lowered(name[i])>>
                      ELSE <<Lowered(name[i])>>
      BY <1>1
    <3> HIDE DEF pieces, follows
    <3> QED
      BY <3>1
  <2>3. /\ <<"_">> \in Texts(Letters) /\ <<>> \in Texts(Letters)
        /\ <<"_", Lowered(name[i])>> \in Texts(Letters) /\ <<Lowered(name[i])>> \in Texts(Letters)
    BY <2>1, ShortTexts DEF NoText
  <2> HIDE DEF pieces
  <2> QED
    BY <2>2, <2>3
<1>4. pieces \in [1..n -> Texts(Letters)]
  <2>1. pieces = [i \in 1..n |-> pieces[i]]
    BY <1>1
  <2> HIDE DEF pieces
  <2> QED
    BY <1>3, <2>1
<1> HIDE DEF pieces
<1>5. FlattenSeq(pieces) \in Texts(Letters)
  BY <1>1, <1>4, FlatIsText
<1> QED
  BY <1>2, <1>5 DEF Texts, Word

LEMMA ToCamelIs == ASSUME NEW name \in Word PROVE ToCamel(name) \in Word
<1> DEFINE n == Len(name)
           Begins(i) == i > 1 /\ name[i - 1] \in {"-", "_"}
           pieces == [i \in DOMAIN name |->
               IF name[i] \in {"-", "_"} THEN <<>>
               ELSE IF i > 1 /\ name[i - 1] \in {"-", "_"} /\ name[i] \in DOMAIN Raised
               THEN <<Raised[name[i]]>> ELSE <<name[i]>>]
<1>1. n \in Nat /\ DOMAIN name = 1..n /\ \A i \in 1..n : name[i] \in Letters
  BY WordIs
<1>2. ToCamel(name) = FlattenSeq(pieces)
  BY DEF ToCamel
<1>3. ASSUME NEW i \in 1..n PROVE pieces[i] \in Texts(Letters)
  <2>1. name[i] \in Letters /\ (name[i] \in DOMAIN Raised => Raised[name[i]] \in Letters)
    BY <1>1, RaisedIs
  <2>2. \/ pieces[i] = <<>>
        \/ name[i] \in DOMAIN Raised /\ pieces[i] = <<Raised[name[i]]>>
        \/ pieces[i] = <<name[i]>>
    <3> DEFINE begins == Begins(i)
               raised == Raised[name[i]]
    <3>1. pieces[i] = IF name[i] \in {"-", "_"} THEN <<>>
                      ELSE IF begins /\ name[i] \in DOMAIN Raised
                      THEN <<raised>> ELSE <<name[i]>>
      BY <1>1
    <3> HIDE DEF pieces, begins, raised
    <3>2. pieces[i] = <<>> \/ (name[i] \in DOMAIN Raised /\ pieces[i] = <<raised>>) \/ pieces[i] = <<name[i]>>
      BY <3>1
    <3> QED
      BY <3>2 DEF raised
  <2> HIDE DEF pieces
  <2> QED
    BY <2>1, <2>2, ShortTexts DEF NoText
<1>4. pieces \in [1..n -> Texts(Letters)]
  <2>1. pieces = [i \in 1..n |-> pieces[i]]
    BY <1>1
  <2> HIDE DEF pieces
  <2> QED
    BY <1>3, <2>1
<1> HIDE DEF pieces
<1>5. FlattenSeq(pieces) \in Texts(Letters)
  BY <1>1, <1>4, FlatIsText
<1> QED
  BY <1>2, <1>5 DEF Texts, Word

\* An identifier is what a language takes for one and does not keep for itself.
IsLawful(x, reserved) ==
    /\ x \in Word /\ Len(x) > 0 /\ x[1] \notin Digits
    /\ \A i \in 1..Len(x) : x[i] \notin Others
    /\ x \notin reserved

LEMMA LawfulIs ==
  ASSUME NEW x, NEW reserved, IsLawful(x, reserved)
  PROVE  Lawful(x, reserved)
<1>1. DOMAIN x = 1..Len(x) /\ x # <<>>
  BY WordIs, EmptySeq DEF IsLawful
<1> QED
  BY <1>1 DEF IsLawful, Lawful, ToSet

Underscore == "_"

\* None of those that are kept ends with an underscore, or has three words.
LEMMA ReservedIs ==
  ASSUME NEW reserved \in {PythonReserved, TsReserved}, NEW x \in reserved
  PROVE  Len(x) \in {1, 2} /\ x[Len(x)] # Underscore
<1>1. x \in {<<"class">>, <<"from">>, <<"_", "exec">>, <<"execTool">>}
  BY DEF PythonReserved, TsReserved
<1>2. CASE x = <<"class">>
  BY <1>2 DEF Underscore
<1>3. CASE x = <<"from">>
  BY <1>3 DEF Underscore
<1>4. CASE x = <<"_", "exec">>
  BY <1>4 DEF Underscore
<1>5. CASE x = <<"execTool">>
  BY <1>5 DEF Underscore
<1> QED
  BY <1>1, <1>2, <1>3, <1>4, <1>5

LEMMA UnderscoreIs == Underscore \in Letters /\ Underscore \notin Digits /\ Underscore \notin Others
  BY DEF Letters, Digits, Others, Underscore

LEMMA CleanIs ==
  ASSUME NEW base \in Word, NEW clean, clean = [i \in DOMAIN base |-> IF base[i] \in Others THEN Underscore ELSE base[i]]
  PROVE  clean \in Word /\ \A i \in 1..Len(clean) : clean[i] \in Letters /\ clean[i] \notin Others
<1>1. Len(base) \in Nat /\ DOMAIN base = 1..Len(base) /\ \A i \in 1..Len(base) : base[i] \in Letters
  BY WordIs
<1>2. ASSUME NEW i \in 1..Len(base) PROVE clean[i] \in Letters /\ clean[i] \notin Others
  BY <1>1, UnderscoreIs
<1>3. clean = [i \in 1..Len(base) |-> clean[i]]
  BY <1>1
<1>4. clean \in [1..Len(base) -> Letters]
  BY <1>2, <1>3
<1>5. clean \in Word /\ Len(clean) = Len(base)
  BY <1>1, <1>4, IsASeq, LenProperties DEF Word
<1> QED
  BY <1>2, <1>5

LEMMA BegunIs ==
  ASSUME NEW clean \in Word, \A i \in 1..Len(clean) : clean[i] \in Letters /\ clean[i] \notin Others,
         NEW begun, begun = IF clean = <<>> \/ clean[1] \in Digits THEN <<Underscore>> \o clean ELSE clean
  PROVE  /\ begun \in Word /\ Len(begun) > 0 /\ begun[1] \notin Digits
         /\ \A i \in 1..Len(begun) : begun[i] \notin Others
<1>1. CASE clean = <<>> \/ clean[1] \in Digits
  <2>1. begun = <<Underscore>> \o clean
    BY <1>1
  <2>2. <<Underscore>> \in Seq(Letters) /\ Len(<<Underscore>>) = 1 /\ <<Underscore>>[1] = Underscore
    BY UnderscoreIs, ShortTexts DEF Texts
  <2>3. /\ begun \in Word /\ Len(begun) = 1 + Len(clean)
        /\ \A i \in 1..1 + Len(clean) : begun[i] = IF i <= 1 THEN <<Underscore>>[i] ELSE clean[i - 1]
    BY <2>1, <2>2, ConcatProperties DEF Word
  <2>4. Len(clean) \in Nat
    BY WordIs
  <2>5. begun[1] = Underscore
    BY <2>2, <2>3, <2>4
  <2>6. ASSUME NEW i \in 1..Len(begun) PROVE begun[i] \notin Others
    <3>1. CASE i = 1
      BY <3>1, <2>5, UnderscoreIs
    <3>2. CASE i # 1
      <4>1. i - 1 \in 1..Len(clean) /\ begun[i] = clean[i - 1]
        BY <2>3, <2>4, <3>2
      <4> QED
        BY <4>1
    <3> QED
      BY <3>1, <3>2
  <2> QED
    BY <2>3, <2>4, <2>5, <2>6, UnderscoreIs
<1>2. CASE ~(clean = <<>> \/ clean[1] \in Digits)
  <2>1. begun = clean /\ clean # <<>>
    BY <1>2
  <2>2. Len(clean) > 0
    BY <2>1, WordIs, EmptySeq DEF Word
  <2> QED
    BY <1>2, <2>1, <2>2
<1> QED
  BY <1>1, <1>2

LEMMA SafeIs ==
  ASSUME NEW base \in Word, NEW reserved \in {PythonReserved, TsReserved}
  PROVE  IsLawful(SafeIdentifier(base, reserved), reserved)
<1> DEFINE clean == [i \in DOMAIN base |-> IF base[i] \in Others THEN Underscore ELSE base[i]]
           begun == IF clean = <<>> \/ clean[1] \in Digits THEN <<Underscore>> \o clean ELSE clean
           safe == IF begun \in reserved THEN Append(begun, Underscore) ELSE begun
<1>1. SafeIdentifier(base, reserved) = safe
  BY DEF SafeIdentifier, Underscore
<1>2. clean \in Word /\ \A i \in 1..Len(clean) : clean[i] \in Letters /\ clean[i] \notin Others
  BY CleanIs
<1> HIDE DEF clean
<1>3. /\ begun \in Word /\ Len(begun) > 0 /\ begun[1] \notin Digits
      /\ \A i \in 1..Len(begun) : begun[i] \notin Others
  BY <1>2, BegunIs
<1> HIDE DEF begun
<1>4. CASE begun \notin reserved
  BY <1>1, <1>3, <1>4 DEF IsLawful
<1>5. CASE begun \in reserved
  <2>0. Len(begun) \in Nat
    BY <1>3, WordIs
  <2>1. safe = Append(begun, Underscore)
    BY <1>5
  <2>2. /\ safe \in Word /\ Len(safe) = Len(begun) + 1
        /\ \A i \in 1..Len(begun) : safe[i] = begun[i]
        /\ safe[Len(begun) + 1] = Underscore
    BY <1>3, <2>1, AppendProperties, UnderscoreIs DEF Word
  <2> HIDE DEF safe
  <2>3. safe[1] = begun[1]
    BY <1>3, <2>0, <2>2
  <2>4. ASSUME NEW i \in 1..Len(safe) PROVE safe[i] \notin Others
    <3>1. CASE i \in 1..Len(begun)
      BY <1>3, <2>2, <3>1
    <3>2. CASE i = Len(begun) + 1
      BY <2>2, <3>2, UnderscoreIs
    <3> QED
      BY <2>0, <2>2, <3>1, <3>2
  <2>5. safe \notin reserved
    <3>1. safe[Len(safe)] = Underscore
      BY <2>2
    <3> QED
      BY <3>1, ReservedIs
  <2> QED
    BY <1>1, <1>3, <2>0, <2>2, <2>3, <2>4, <2>5 DEF IsLawful
<1> QED
  BY <1>4, <1>5

LEMMA SuffixedIs ==
  ASSUME NEW base \in Word, NEW n \in DOMAIN Numeral
  PROVE  /\ Suffixed(base, n) \in Word /\ Len(Suffixed(base, n)) = Len(base) + 2
         /\ \A i \in 1..Len(base) : Suffixed(base, n)[i] = base[i]
         /\ Suffixed(base, n)[Len(base) + 1] = Underscore /\ Suffixed(base, n)[Len(base) + 2] = Numeral[n]
<1> DEFINE s == <<Underscore, Numeral[n]>>
           whole == base \o s
<1>1. Numeral[n] \in Letters
  BY NumeralAssumption DEF Letters
<1>2. s \in Seq(Letters) /\ Len(s) = 2 /\ s[1] = Underscore /\ s[2] = Numeral[n]
  BY <1>1, UnderscoreIs, ShortTexts DEF Texts
<1>3. Suffixed(base, n) = whole
  BY DEF Suffixed, Underscore
<1> HIDE DEF s
<1>4. /\ whole \in Word /\ Len(whole) = Len(base) + Len(s)
      /\ \A i \in 1..Len(base) + Len(s) : whole[i] = IF i <= Len(base) THEN base[i] ELSE s[i - Len(base)]
  BY <1>2, ConcatProperties DEF Word
<1>5. Len(base) \in Nat
  BY WordIs
<1> HIDE DEF whole
<1>6. \A i \in 1..Len(base) : whole[i] = base[i]
  BY <1>2, <1>4, <1>5
<1>7. whole[Len(base) + 1] = s[1]
  BY <1>2, <1>4, <1>5
<1>8. whole[Len(base) + 2] = s[2]
  BY <1>2, <1>4, <1>5
<1> QED
  BY <1>2, <1>3, <1>4, <1>6, <1>7, <1>8

LEMMA SuffixedLawful ==
  ASSUME NEW base, NEW n \in DOMAIN Numeral, NEW reserved \in {PythonReserved, TsReserved},
         IsLawful(base, reserved)
  PROVE  IsLawful(Suffixed(base, n), reserved)
<1> DEFINE s == Suffixed(base, n)
<1>0. base \in Word /\ Len(base) \in Nat \ {0} /\ base[1] \notin Digits /\ \A i \in 1..Len(base) : base[i] \notin Others
  BY WordIs DEF IsLawful
<1>1. /\ s \in Word /\ Len(s) = Len(base) + 2 /\ \A i \in 1..Len(base) : s[i] = base[i]
      /\ s[Len(base) + 1] = Underscore /\ s[Len(base) + 2] = Numeral[n]
  BY <1>0, SuffixedIs
<1> HIDE DEF s
<1>2. s[1] = base[1] /\ Len(s) > 0
  BY <1>0, <1>1
<1>3. ASSUME NEW i \in 1..Len(s) PROVE s[i] \notin Others
  <2>1. Numeral[n] \notin Others
    BY NumeralAssumption
  <2>2. i \in 1..Len(base) \/ i = Len(base) + 1 \/ i = Len(base) + 2
    BY <1>0, <1>1
  <2> QED
    BY <1>0, <1>1, <2>1, <2>2, UnderscoreIs
<1>4. s \notin reserved
  <2>1. Len(s) \notin {1, 2}
    BY <1>0, <1>1
  <2> QED
    BY <2>1, ReservedIs
<1> QED
  BY <1>0, <1>1, <1>2, <1>3, <1>4 DEF IsLawful, s

LEMMA SuffixedDiffer ==
  ASSUME NEW base \in Word, NEW m \in DOMAIN Numeral, NEW n \in DOMAIN Numeral, Suffixed(base, m) = Suffixed(base, n)
  PROVE  m = n
<1>1. Numeral[m] = Numeral[n]
  BY SuffixedIs
<1> QED
  BY <1>1, NumeralAssumption

-----------------------------------------------------------------------------
(* Parameters, and the calls that give them *)

\* The names that those before the i-th have taken, and the numbers left for it.
Taken(f, i) == {f[j] : j \in 1..i - 1}
Free(base, taken, n) == {k \in 2..n + 1 : Suffixed(base, k) \notin taken}
Least(numbers) == CHOOSE k \in numbers : \A l \in numbers : k <= l

\* There is one for every parameter.
LEMMA LeastIsFree ==
  ASSUME NEW n \in Nat, 2..n + 1 \subseteq DOMAIN Numeral, NEW i \in 1..n, NEW f,
         NEW base \in Word
  PROVE  /\ Least(Free(base, Taken(f, i), n)) \in DOMAIN Numeral
         /\ Suffixed(base, Least(Free(base, Taken(f, i), n))) \notin Taken(f, i)
<1> DEFINE taken == Taken(f, i)
           free == Free(base, taken, n)
           numbers == 2..n + 1
<1>1. IsFiniteSet(taken) /\ Cardinality(taken) <= i - 1
  <2> DEFINE g == [j \in 1..i - 1 |-> f[j]]
  <2>1. g \in Surjection(1..i - 1, taken)
    <3>1. g \in [1..i - 1 -> taken]
      BY DEF Taken
    <3>2. \A t \in taken : \E j \in 1..i - 1 : g[j] = t
      BY DEF Taken
    <3> HIDE DEF g, taken
    <3> QED
      BY <3>1, <3>2 DEF Surjection
  <2>2. IsFiniteSet(1..i - 1) /\ Cardinality(1..i - 1) = i - 1
    <3>1. 1 \in Int /\ i - 1 \in Int /\ (IF 1 > i - 1 THEN 0 ELSE (i - 1) - 1 + 1) = i - 1
      OBVIOUS
    <3> QED
      BY <3>1, FS_Interval
  <2> HIDE DEF g, taken
  <2>3. IsFiniteSet(taken) /\ Cardinality(taken) <= Cardinality(1..i - 1)
    BY <2>1, <2>2, FS_Surjection
  <2> QED
    BY <2>2, <2>3
<1>2. IsFiniteSet(numbers) /\ Cardinality(numbers) = n
  <2>1. 2 \in Int /\ n + 1 \in Int /\ (IF 2 > n + 1 THEN 0 ELSE (n + 1) - 2 + 1) = n
    OBVIOUS
  <2> QED
    BY <2>1, FS_Interval
<1>3. Cardinality(taken) < Cardinality(numbers)
  <2>1. Cardinality(taken) \in Nat
    BY <1>1, FS_CardinalityType
  <2> HIDE DEF taken, numbers
  <2> QED
    BY <1>1, <1>2, <2>1
<1>4. free # {}
  <2> SUFFICES ASSUME free = {} PROVE FALSE
    OBVIOUS
  <2> DEFINE g == [k \in numbers |-> Suffixed(base, k)]
  <2>1. g \in [numbers -> taken]
    BY DEF Free
  <2>2. PICK k \in numbers, l \in numbers : k # l /\ g[k] = g[l]
    <3> HIDE DEF g, numbers, taken
    <3> QED
      BY <1>1, <1>2, <1>3, <2>1, FS_PigeonHole
  <2>3. Suffixed(base, k) = Suffixed(base, l) /\ k \in DOMAIN Numeral /\ l \in DOMAIN Numeral
    BY <2>2
  <2> QED
    BY <2>2, <2>3, SuffixedDiffer
<1>5. free \in SUBSET Nat
  BY DEF Free
<1>6. Least(free) \in free
  <2>1. \E k \in free : \A l \in free : k <= l
    BY <1>4, <1>5, LeastNumber
  <2> HIDE DEF free
  <2> QED
    BY <2>1 DEF Least
<1> HIDE DEF taken
<1> QED
  BY <1>6 DEF Free, taken

\* The identifier of the i-th, given those before it.
Identifier(bases, f, i) ==
    IF bases[i] \notin Taken(f, i) THEN bases[i]
    ELSE Suffixed(bases[i], Least(Free(bases[i], Taken(f, i), Len(bases))))

Lawfuls(reserved) == {x \in Word : IsLawful(x, reserved)}

LEMMA IdentifierIs ==
  ASSUME NEW reserved \in {PythonReserved, TsReserved}, NEW bases \in Seq(Lawfuls(reserved)),
         2..Len(bases) + 1 \subseteq DOMAIN Numeral, NEW i \in 1..Len(bases), NEW f
  PROVE  Identifier(bases, f, i) \in Lawfuls(reserved) /\ Identifier(bases, f, i) \notin Taken(f, i)
<1>1. Len(bases) \in Nat /\ bases[i] \in Lawfuls(reserved)
  BY LenProperties, ElementOfSeq
<1>2. bases[i] \in Word /\ IsLawful(bases[i], reserved)
  BY <1>1 DEF Lawfuls
<1>3. CASE bases[i] \notin Taken(f, i)
  BY <1>1, <1>3 DEF Identifier
<1>4. CASE bases[i] \in Taken(f, i)
  <2> DEFINE k == Least(Free(bases[i], Taken(f, i), Len(bases)))
  <2>1. k \in DOMAIN Numeral /\ Suffixed(bases[i], k) \notin Taken(f, i)
    BY <1>1, <1>2, LeastIsFree
  <2>2. Identifier(bases, f, i) = Suffixed(bases[i], k)
    BY <1>4 DEF Identifier
  <2> HIDE DEF k
  <2>3. IsLawful(Suffixed(bases[i], k), reserved) /\ Suffixed(bases[i], k) \in Word
    BY <1>2, <2>1, SuffixedLawful, SuffixedIs
  <2> QED
    BY <2>1, <2>2, <2>3 DEF Lawfuls
<1> QED
  BY <1>3, <1>4

\* Every parameter has an identifier that is lawful and its own.
LEMMA BindParamsAre ==
  ASSUME NEW reserved \in {PythonReserved, TsReserved}, NEW bases \in Seq(Lawfuls(reserved)),
         2..Len(bases) + 1 \subseteq DOMAIN Numeral
  PROVE  /\ BindParams(bases) \in [1..Len(bases) -> Lawfuls(reserved)]
         /\ \A i, j \in 1..Len(bases) : BindParams(bases)[i] = BindParams(bases)[j] => i = j
<1> DEFINE n == Len(bases)
           T == Lawfuls(reserved)
           D == 1..n
           depth == [i \in D |-> i]
           h == [i \in D |-> [f \in [D -> T] |-> Identifier(bases, f, i)]]
           IsBound(g) == g = [i \in D |-> Identifier(bases, g, i)]
           bound == CHOOSE g : IsBound(g)
<1>0. n \in Nat
  BY LenProperties
<1>1. BindParams(bases) = bound
  BY DEF BindParams, Identifier, Taken, Free, Least
<1>2. \A i \in D : \A f : Identifier(bases, f, i) \in T /\ Identifier(bases, f, i) \notin Taken(f, i)
  BY IdentifierIs
<1>3. \E g : IsBound(g)
  <2>1. CASE n = 0
    <3>1. IsBound([i \in {} |-> i])
      BY <2>1
    <3> QED
      BY <3>1
  <2>2. CASE n # 0
    <3>1. h \in [D -> [[D -> T] -> T]]
      BY <1>2
    <3>2. depth \in [D -> Nat] /\ T # {}
      <4>1. 1 \in D
        BY <1>0, <2>2
      <4> QED
        BY <1>2, <4>1
    <3>3. ASSUME NEW x \in D, NEW f \in [D -> T], NEW g \in [D -> T],
                 \A y \in D : depth[y] < depth[x] => f[y] = g[y]
          PROVE  h[x][f] = h[x][g]
      <4>1. ASSUME NEW j \in 1..x - 1 PROVE f[j] = g[j]
        <5>1. j \in D /\ depth[j] < depth[x]
          BY <1>0
        <5> QED
          BY <3>3, <5>1
      <4>2. Taken(f, x) = Taken(g, x)
        BY <4>1 DEF Taken
      <4> QED
        BY <4>2 DEF Identifier
    <3>4. IsTreeDefinition(D, depth, T, h)
      <4> HIDE DEF D, T, depth, h
      <4> QED
        BY <3>1, <3>2, <3>3 DEF IsTreeDefinition
    <3>5. PICK f \in [D -> T] : \A x \in D : f[x] = h[x][f]
      <4> HIDE DEF D, T, depth, h
      <4> QED
        BY <3>4, TreeRecursion
    <3>6. IsBound(f)
      <4>1. \A x \in D : f[x] = Identifier(bases, f, x)
        BY <3>5
      <4> HIDE DEF D
      <4> QED
        BY <3>5, <4>1
    <3> QED
      BY <3>6
  <2> QED
    BY <2>1, <2>2
<1>4. IsBound(bound)
  <2> HIDE DEF IsBound
  <2> QED
    BY <1>3
<1> HIDE DEF bound
<1>5. bound \in [D -> T] /\ \A i \in D : bound[i] \notin Taken(bound, i)
  <2>1. \A i \in D : bound[i] = Identifier(bases, bound, i)
    BY <1>4
  <2>2. \A i \in D : bound[i] \in T /\ bound[i] \notin Taken(bound, i)
    BY <1>2, <2>1
  <2>3. bound = [i \in D |-> bound[i]]
    BY <1>4
  <2> HIDE DEF D, T, IsBound
  <2> QED
    BY <2>2, <2>3
<1>6. ASSUME NEW i \in D, NEW j \in D, bound[i] = bound[j], i < j PROVE FALSE
  <2>1. i \in 1..j - 1
    BY <1>0, <1>6
  <2>2. bound[i] \in Taken(bound, j)
    BY <2>1 DEF Taken
  <2> QED
    BY <1>5, <1>6, <2>2
<1>7. \A i, j \in D : bound[i] = bound[j] => i = j
  <2>1. \A i, j \in D : i < j \/ j < i \/ i = j
    BY <1>0
  <2> QED
    BY <1>6, <2>1
<1> QED
  BY <1>1, <1>5, <1>7

\* What the parameters of a tool's function are.
AreBindings(bindings, tool, reserved) ==
    /\ DOMAIN bindings \subseteq Nat
    /\ \A i \in DOMAIN bindings :
           /\ IsLawful(bindings[i].identifier, reserved)
           /\ bindings[i].wire \in ToSet(tool.order)
           /\ bindings[i].required <=> bindings[i].wire \in tool.required
    /\ \A i, j \in DOMAIN bindings :
           /\ bindings[i].identifier = bindings[j].identifier => i = j
           /\ bindings[i].wire = bindings[j].wire => i = j
           /\ i < j /\ bindings[j].required => bindings[i].required
    /\ \A wire \in ToSet(tool.order) : \E i \in DOMAIN bindings : bindings[i].wire = wire

Language(language, reserved) ==
    \/ language = "python" /\ reserved = PythonReserved
    \/ language = "typescript" /\ reserved = TsReserved

BaseOf(language, p) == IF language = "python" THEN PythonIdentifier(p) ELSE TsIdentifier(p)

LEMMA BaseIsLawful ==
  ASSUME NEW language, NEW reserved, Language(language, reserved), NEW p \in Seq(STRING)
  PROVE  BaseOf(language, p) \in Lawfuls(reserved)
<1>0. p \in Word
  BY NamesAreWords
<1>1. CASE language = "python" /\ reserved = PythonReserved
  <2>1. BaseOf(language, p) = SafeIdentifier(ToSnake(p), reserved)
    BY <1>1 DEF BaseOf, PythonIdentifier
  <2>2. IsLawful(SafeIdentifier(ToSnake(p), reserved), reserved)
    BY <1>0, <1>1, ToSnakeIs, SafeIs
  <2> QED
    BY <2>1, <2>2 DEF Lawfuls, IsLawful
<1>2. CASE language = "typescript" /\ reserved = TsReserved
  <2>1. BaseOf(language, p) = SafeIdentifier(p, reserved)
    BY <1>2 DEF BaseOf, TsIdentifier
  <2>2. IsLawful(SafeIdentifier(p, reserved), reserved)
    BY <1>0, <1>2, SafeIs
  <2> QED
    BY <2>1, <2>2 DEF Lawfuls, IsLawful
<1> QED
  BY <1>1, <1>2 DEF Language

LEMMA BindingsAre ==
  ASSUME NEW tool \in Signatures, NEW language, NEW reserved, Language(language, reserved)
  PROVE  AreBindings(Bindings(tool, language), tool, reserved)
<1> DEFINE params == OrderedParams(tool)
           bases == [i \in DOMAIN params |-> BaseOf(language, params[i])]
           bound == BindParams(bases)
           bindings == [i \in DOMAIN params |-> [wire |-> params[i], identifier |-> bound[i],
                                                 required |-> params[i] \in tool.required]]
           n == Len(params)
<1>0. Bindings(tool, language) = bindings
  BY DEF Bindings, BaseOf
<1> HIDE DEF params
<1>1. /\ params \in Seq(Seq(STRING)) /\ n = Len(tool.order) /\ AllDifferent(params)
      /\ \A i \in 1..n : params[i] \in ToSet(tool.order)
      /\ \A wire \in ToSet(tool.order) : \E i \in 1..n : params[i] = wire
      /\ \A i, j \in 1..n : i < j /\ params[j] \in tool.required => params[i] \in tool.required
  BY OrderedParamsAre DEF params
<1>2. n \in Nat /\ DOMAIN params = 1..n /\ \A i \in 1..n : params[i] \in Seq(STRING)
  BY <1>1, LenProperties, ElementOfSeq
<1>3. bases \in Seq(Lawfuls(reserved)) /\ Len(bases) = n
  <2>1. ASSUME NEW i \in 1..n PROVE bases[i] \in Lawfuls(reserved)
    <3>1. bases[i] = BaseOf(language, params[i])
      BY <1>2
    <3> QED
      BY <1>2, <3>1, BaseIsLawful
  <2>2. bases = [i \in 1..n |-> bases[i]]
    BY <1>2
  <2> HIDE DEF bases, n
  <2>3. bases \in [1..n -> Lawfuls(reserved)]
    BY <2>1, <2>2
  <2> QED
    BY <1>2, <2>3, IsASeq, LenProperties
<1> HIDE DEF bases
<1>4. /\ bound \in [1..n -> Lawfuls(reserved)]
      /\ \A i, j \in 1..n : bound[i] = bound[j] => i = j
  <2>1. 2..Len(bases) + 1 \subseteq DOMAIN Numeral /\ reserved \in {PythonReserved, TsReserved}
    BY <1>1, <1>3, SignatureIs DEF Language
  <2> QED
    BY <1>3, <2>1, BindParamsAre
<1> HIDE DEF bound
<1>5. /\ DOMAIN bindings = 1..n
      /\ \A i \in 1..n : /\ bindings[i].wire = params[i] /\ bindings[i].identifier = bound[i]
                         /\ bindings[i].required <=> params[i] \in tool.required
  BY <1>2
<1>6. \A i \in 1..n : IsLawful(bound[i], reserved)
  BY <1>4 DEF Lawfuls
<1>7. \A i, j \in 1..n : params[i] = params[j] => i = j
  BY <1>1 DEF AllDifferent
<1> HIDE DEF bindings, n
<1>8. AreBindings(bindings, tool, reserved)
  <2>1. DOMAIN bindings \subseteq Nat
    BY <1>5
  <2>2. ASSUME NEW i \in DOMAIN bindings
        PROVE  /\ IsLawful(bindings[i].identifier, reserved)
               /\ bindings[i].wire \in ToSet(tool.order)
               /\ bindings[i].required <=> bindings[i].wire \in tool.required
    <3>1. i \in 1..n
      BY <1>5
    <3>2. IsLawful(bound[i], reserved) /\ params[i] \in ToSet(tool.order)
      BY <1>1, <1>6, <3>1
    <3> QED
      BY <1>5, <3>1, <3>2
  <2>3. ASSUME NEW i \in DOMAIN bindings, NEW j \in DOMAIN bindings
        PROVE  /\ bindings[i].identifier = bindings[j].identifier => i = j
               /\ bindings[i].wire = bindings[j].wire => i = j
               /\ i < j /\ bindings[j].required => bindings[i].required
    <3>1. i \in 1..n /\ j \in 1..n
      BY <1>5
    <3>2. i < j /\ params[j] \in tool.required => params[i] \in tool.required
      BY <1>1, <3>1
    <3> QED
      BY <1>4, <1>5, <1>7, <3>1, <3>2
  <2>4. ASSUME NEW wire \in ToSet(tool.order) PROVE \E i \in DOMAIN bindings : bindings[i].wire = wire
    <3>1. PICK i \in 1..n : params[i] = wire
      BY <1>1
    <3> QED
      BY <1>5, <3>1
  <2> QED
    BY <2>1, <2>2, <2>3, <2>4 DEF AreBindings
<1> QED
  BY <1>0, <1>8

LEMMA Compiles ==
  ASSUME NEW bindings, NEW tool, NEW reserved, AreBindings(bindings, tool, reserved)
  PROVE  SignatureCompiles(bindings, reserved)
<1>1. ASSUME NEW b \in ToSet(bindings) PROVE Lawful(b.identifier, reserved)
  <2>1. PICK i \in DOMAIN bindings : b = bindings[i]
    BY DEF ToSet
  <2> QED
    BY <2>1, LawfulIs DEF AreBindings
<1>2. ASSUME NEW i \in DOMAIN bindings, NEW j \in DOMAIN bindings, i < j
      PROVE  /\ bindings[i].identifier # bindings[j].identifier
             /\ bindings[j].required => bindings[i].required
  <2>1. i # j
    BY <1>2 DEF AreBindings
  <2> QED
    BY <1>2, <2>1 DEF AreBindings
<1> QED
  BY <1>1, <1>2 DEF SignatureCompiles

\* What a call gives for some of the names.
CallOf(bindings, wires) ==
    [id \in {b.identifier : b \in {b \in ToSet(bindings) : b.wire \in wires}} |->
        Value("string", (CHOOSE b \in ToSet(bindings) : b.identifier = id).wire)]
MeantFor(wires) == [wire \in wires |-> Value("string", wire)]

LEMMA GivenIsMeant ==
  ASSUME NEW bindings, NEW tool, NEW reserved, AreBindings(bindings, tool, reserved),
         NEW wires \in SUBSET ToSet(tool.order)
  PROVE  Given(bindings, CallOf(bindings, wires)) = MeantFor(wires)
<1> DEFINE all == ToSet(bindings)
           call == CallOf(bindings, wires)
           named == {b \in all : b.identifier \in DOMAIN call}
           wiresOf == {b.wire : b \in named}
<1>1. \A b, c \in all : (b.identifier = c.identifier => b = c) /\ (b.wire = c.wire => b = c)
  BY DEF ToSet, AreBindings
<1>2. \A wire \in wires : \E b \in all : b.wire = wire
  BY DEF ToSet, AreBindings
<1> HIDE DEF all
<1>3. DOMAIN call = {b.identifier : b \in {b \in all : b.wire \in wires}}
  BY DEF CallOf, all
<1>4. ASSUME NEW b \in all, b.wire \in wires PROVE call[b.identifier] = Value("string", b.wire)
  <2>1. call[b.identifier] = Value("string", (CHOOSE c \in all : c.identifier = b.identifier).wire)
    BY <1>4 DEF CallOf, all
  <2>2. (CHOOSE c \in all : c.identifier = b.identifier) = b
    BY <1>1
  <2> QED
    BY <2>1, <2>2
<1>5. ASSUME NEW b \in all PROVE b.identifier \in DOMAIN call <=> b.wire \in wires
  BY <1>1, <1>3
<1> HIDE DEF call
<1>6. named = {b \in all : b.wire \in wires}
  BY <1>5
<1>7. Given(bindings, call) = [wire \in wiresOf |-> call[(CHOOSE b \in named : b.wire = wire).identifier]]
  BY DEF Given, all
<1> HIDE DEF named
<1>8. wiresOf = wires
  BY <1>2, <1>6
<1>9. ASSUME NEW wire \in wires
      PROVE  call[(CHOOSE b \in named : b.wire = wire).identifier] = Value("string", wire)
  <2>1. PICK b \in all : b.wire = wire
    BY <1>2
  <2>2. (CHOOSE c \in named : c.wire = wire) = b
    BY <1>1, <1>6, <2>1
  <2> QED
    BY <1>4, <2>1, <2>2
<1> HIDE DEF wiresOf
<1>10. Given(bindings, call) = [wire \in wires |-> Value("string", wire)]
  BY <1>7, <1>8, <1>9
<1> QED
  BY <1>10 DEF MeantFor, call

LEMMA PythonGivesIt ==
  ASSUME NEW bindings, NEW given, NEW wires, Given(bindings, given) = MeantFor(wires)
  PROVE  PythonInput(bindings, given) = MeantFor(wires)
<1> DEFINE m == MeantFor(wires)
<1>1. PythonInput(bindings, given) = [wire \in {w \in DOMAIN m : m[w] # Null} |-> m[wire]]
  BY DEF PythonInput
<1>2. DOMAIN m = wires /\ m = [wire \in wires |-> m[wire]]
  BY DEF MeantFor
<1>3. ASSUME NEW w \in wires PROVE m[w] # Null
  <2>1. m[w].type = "string" /\ Null.type = "null"
    BY DEF MeantFor, Value, Null
  <2>2. m[w].type # Null.type
    BY <2>1
  <2> QED
    BY <2>2
<1> HIDE DEF m
<1>4. {w \in DOMAIN m : m[w] # Null} = wires
  BY <1>2, <1>3
<1> QED
  BY <1>1, <1>2, <1>4 DEF m

LEMMA AllArgumentsArrive == \A tool \in Signatures : ArgumentsArrive(tool)
<1> SUFFICES ASSUME NEW tool \in Signatures PROVE ArgumentsArrive(tool)
  OBVIOUS
<1> DEFINE python == Bindings(tool, "python")
           ts == Bindings(tool, "typescript")
<1>1. AreBindings(python, tool, PythonReserved) /\ AreBindings(ts, tool, TsReserved)
  <2>1. Language("python", PythonReserved) /\ Language("typescript", TsReserved)
    BY DEF Language
  <2> QED
    BY <2>1, BindingsAre
<1> HIDE DEF python, ts
<1>2. SignatureCompiles(python, PythonReserved) /\ SignatureCompiles(ts, TsReserved)
  BY <1>1, Compiles
<1>3. Lawful(TsFunction(tool.order[1]), TsReserved)
  <2>1. tool.order[1] \in Seq(STRING)
    <3>1. tool.order \in Seq(Seq(STRING)) /\ 1 \in 1..Len(tool.order)
      BY SignatureIs
    <3> QED
      BY <3>1, ElementOfSeq
  <2>2. ToCamel(tool.order[1]) \in Word
    BY <2>1, NamesAreWords, ToCamelIs
  <2>3. IsLawful(SafeIdentifier(ToCamel(tool.order[1]), TsReserved), TsReserved)
    BY <2>2, SafeIs
  <2> QED
    BY <2>3, LawfulIs DEF TsFunction
<1>4. ASSUME NEW wires \in SUBSET ToSet(tool.order)
      PROVE  /\ PythonInput(python, CallOf(python, wires)) = MeantFor(wires)
             /\ TsInput(ts, CallOf(ts, wires)) = MeantFor(wires)
  <2>1. /\ Given(python, CallOf(python, wires)) = MeantFor(wires)
        /\ Given(ts, CallOf(ts, wires)) = MeantFor(wires)
    BY <1>1, GivenIsMeant
  <2> QED
    BY <2>1, PythonGivesIt DEF TsInput
<1> QED
  BY <1>2, <1>3, <1>4 DEF ArgumentsArrive, CallOf, MeantFor, python, ts

\* Every call of a generated function is faithful: its parameters are lawful, distinct
\* and in order, its arguments arrive as meant, its types admit what schemas admit, and
\* it learns the same in both languages (client_gen/python.rs, typescript.rs, generator.rs).
THEOREM CallsFaithful == Spec => []CallsAreFaithful
<1>1. CallsAreFaithful
  BY AllArgumentsArrive, AllTypesAdmit, AllOutcomesAgree DEF CallsAreFaithful
<1> QED
  BY <1>1, PTL

-----------------------------------------------------------------------------
(* Listings *)

\* A beginning of a sequence.
Begins(s, t) ==
    /\ Len(s) \in Nat /\ Len(s) <= Len(t) /\ DOMAIN s = 1..Len(s)
    /\ \A i \in 1..Len(s) : s[i] = t[i]

LEMMA BeginningIs ==
  ASSUME NEW A, NEW s \in Seq(A), NEW t \in Seq(A), Begins(s, t)
  PROVE  IsPrefix(s, t)
<1>1. SubSeq(s, 1, Len(s)) = SubSeq(t, 1, Len(s))
  BY DEF Begins
<1> QED
  BY <1>1 DEF IsPrefix, Begins

\* The first of some places.
LEMMA FirstPlace ==
  ASSUME NEW n \in Nat, NEW at \in SUBSET (1..n), at # {}
  PROVE  Min(at) \in at /\ \A i \in at : Min(at) <= i
<1>1. PICK x \in at : \A y \in at : x <= y
  BY LeastNumber
<1> QED
  BY <1>1 DEF Min

LEMMA WordsAre ==
  ASSUME NEW text \in Seq(STRING)
  PROVE  /\ Words(text) \in Seq(STRING)
         /\ Words(text) # <<>> => Words(text)[1] \notin Blank
<1> DEFINE solid == {i \in DOMAIN text : text[i] \notin Blank}
           n == Len(text)
<1>1. n \in Nat /\ DOMAIN text = 1..n /\ solid \in SUBSET (1..n) /\ text \in [1..n -> STRING]
  OBVIOUS
<1>2. CASE solid = {}
  BY <1>2 DEF Words
<1>3. CASE solid # {}
  <2>1. Min(solid) \in solid
    BY <1>1, <1>3, FirstPlace
  <2>2. PICK m \in solid : \A y \in solid : m >= y
    <3> DEFINE T == {n - i : i \in solid}
    <3>1. T \in SUBSET Nat /\ T # {}
      BY <1>1, <1>3
    <3>2. PICK x \in T : \A y \in T : x <= y
      BY <3>1, LeastNumber
    <3>3. PICK m \in solid : x = n - m
      BY <3>2
    <3>4. ASSUME NEW y \in solid PROVE m >= y
      <4>1. n - y \in T /\ n - m <= n - y /\ m \in Nat /\ y \in Nat
        BY <1>1, <3>2, <3>3
      <4> QED
        BY <1>1, <4>1
    <3> QED
      BY <3>4
  <2>3. Max(solid) \in solid /\ \A y \in solid : Max(solid) >= y
    BY <2>2 DEF Max
  <2>4. Min(solid) \in 1..n /\ Max(solid) \in 1..n /\ Min(solid) <= Max(solid)
    BY <1>1, <2>1, <2>3
  <2>5. text[Min(solid)] \notin Blank
    BY <2>1
  <2>6. Words(text) = SubSeq(text, Min(solid), Max(solid))
    BY <1>3 DEF Words
  <2> HIDE DEF solid
  <2>7. /\ SubSeq(text, Min(solid), Max(solid)) \in Seq(STRING)
        /\ SubSeq(text, Min(solid), Max(solid))[1] = text[Min(solid)]
    BY <1>1, <2>4
  <2> QED
    BY <2>5, <2>6, <2>7
<1> QED
  BY <1>2, <1>3

LEMMA BeforeIs ==
  ASSUME NEW words \in Seq(STRING), NEW marks
  PROVE  /\ Before(words, marks) \in Seq(STRING)
         /\ Begins(Before(words, marks), words)
         /\ words # <<>> /\ words[1] \notin marks => Before(words, marks) # <<>>
         /\ (\E i \in DOMAIN words : words[i] \in marks) =>
                /\ Len(Before(words, marks)) + 1 \in DOMAIN words
                /\ words[Len(Before(words, marks)) + 1] \in marks
<1> DEFINE at == {i \in DOMAIN words : words[i] \in marks}
           n == Len(words)
<1>1. n \in Nat /\ DOMAIN words = 1..n /\ at \in SUBSET (1..n) /\ words \in [1..n -> STRING]
  OBVIOUS
<1>2. CASE at = {}
  <2>1. Before(words, marks) = words
    BY <1>2 DEF Before
  <2> QED
    BY <1>1, <1>2, <2>1 DEF Begins
<1>3. CASE at # {}
  <2> DEFINE m == Min(at)
             s == SubSeq(words, 1, m - 1)
  <2>1. m \in 1..n /\ words[m] \in marks
    BY <1>1, <1>3, FirstPlace
  <2>2. Before(words, marks) = s
    BY <1>3 DEF Before
  <2> HIDE DEF m, at
  <2>3. s \in Seq(STRING) /\ Len(s) = m - 1 /\ DOMAIN s = 1..m - 1 /\ \A i \in 1..m - 1 : s[i] = words[i]
    BY <1>1, <2>1
  <2>4. words # <<>> /\ words[1] \notin marks => s # <<>>
    BY <2>1, <2>3
  <2> HIDE DEF s
  <2>5. Begins(s, words)
    BY <1>1, <2>1, <2>3 DEF Begins
  <2>6. Len(s) + 1 = m
    BY <2>1, <2>3
  <2> QED
    BY <1>1, <2>1, <2>2, <2>3, <2>4, <2>5, <2>6
<1> QED
  BY <1>2, <1>3

\* What help says of a tool begins its text.
LEMMA SentenceIs ==
  ASSUME NEW words \in Seq(STRING), "." \in ToSet(words)
  PROVE  /\ Append(Before(words, {"."}), ".") \in Seq(STRING)
         /\ Begins(Append(Before(words, {"."}), "."), words)
<1> DEFINE s == Before(words, {"."})
<1>1. PICK i \in DOMAIN words : words[i] = "."
  BY DEF ToSet
<1>2. /\ s \in Seq(STRING) /\ Begins(s, words)
      /\ Len(s) + 1 \in DOMAIN words /\ words[Len(s) + 1] = "."
  BY <1>1, BeforeIs
<1> HIDE DEF s
<1>3. Append(s, ".") \in Seq(STRING)
  <2>1. "." \in STRING
    BY <1>2
  <2> QED
    BY <1>2, <2>1
<1>4. Begins(Append(s, "."), words)
  BY <1>2 DEF Begins
<1> QED
  BY <1>3, <1>4 DEF s

LEMMA ShortIs ==
  ASSUME NEW text \in Seq(STRING)
  PROVE  /\ IsPrefix(ShortDescription(text), Words(text))
         /\ Words(text) # <<>> => ShortDescription(text) # <<>>
<1> DEFINE words == Words(text)
           sentence == IF "." \in ToSet(words) THEN Append(Before(words, {"."}), ".") ELSE FirstLine(words)
<1>1. words \in Seq(STRING) /\ (words # <<>> => words[1] \notin Blank)
  BY WordsAre
<1>2. ShortDescription(text) = IF "lengthy" \in ToSet(sentence) THEN sentence ELSE FirstLine(words)
  BY DEF ShortDescription
<1>3. /\ FirstLine(words) \in Seq(STRING) /\ Begins(FirstLine(words), words)
      /\ words # <<>> => FirstLine(words) # <<>>
  BY <1>1, BeforeIs DEF FirstLine, Blank
<1>4. sentence \in Seq(STRING) /\ Begins(sentence, words)
  BY <1>1, <1>3, SentenceIs
<1>5. "lengthy" \in ToSet(sentence) => sentence # <<>>
  BY DEF ToSet
<1> HIDE DEF words, sentence
<1>6. IsPrefix(sentence, words) /\ IsPrefix(FirstLine(words), words)
  BY <1>1, <1>3, <1>4, BeginningIs
<1> QED
  BY <1>2, <1>3, <1>5, <1>6 DEF words

\* A lower level shows no more.
LEMMA LevelsFall ==
  ASSUME NEW tool, tool.text \in Seq(STRING), NEW k \in 1..3
  PROVE  /\ FormatTool(tool, Levels[k + 1]).params \subseteq FormatTool(tool, Levels[k]).params
         /\ IsPrefix(FormatTool(tool, Levels[k + 1]).text, FormatTool(tool, Levels[k]).text)
<1> DEFINE words == Words(tool.text)
           line == FirstLine(words)
           sentence == Before(line, {"."})
<1>1. words \in Seq(STRING)
  BY WordsAre
<1>2. line \in Seq(STRING) /\ Begins(line, words)
  BY <1>1, BeforeIs DEF FirstLine
<1>3. sentence \in Seq(STRING) /\ Begins(sentence, line)
  BY <1>2, BeforeIs
<1>4. FirstSentence(tool.text) = sentence
  BY DEF FirstSentence
<1> HIDE DEF words, line, sentence
<1>5. Begins(sentence, words)
  BY <1>2, <1>3 DEF Begins
<1>6. IsPrefix(sentence, words)
  BY <1>1, <1>3, <1>5, BeginningIs
<1>0. <<>> \in Seq(STRING)
  OBVIOUS
<1>7. \A s \in Seq(STRING) : IsPrefix(<<>>, s)
  <2> SUFFICES ASSUME NEW s \in Seq(STRING) PROVE IsPrefix(<<>>, s)
    OBVIOUS
  <2>1. Begins(<<>>, s)
    BY DEF Begins
  <2> QED
    BY <1>0, <2>1, BeginningIs
<1>8. IsPrefix(<<>>, <<>>)
  BY <1>0, <1>7
<1>9. /\ FormatTool(tool, "low").text = words /\ FormatTool(tool, "medium").text = sentence
      /\ FormatTool(tool, "high").text = <<>> /\ FormatTool(tool, "max").text = <<>>
      /\ FormatTool(tool, "low").params = DOMAIN tool.props
      /\ FormatTool(tool, "medium").params = DOMAIN tool.props
      /\ FormatTool(tool, "high").params = DOMAIN tool.props
      /\ FormatTool(tool, "max").params = {}
  BY <1>4 DEF FormatTool, words
<1>10. /\ Levels[1] = "low" /\ Levels[2] = "medium" /\ Levels[3] = "high" /\ Levels[4] = "max"
       /\ k = 1 \/ k = 2 \/ k = 3
  BY DEF Levels
<1>11. CASE k = 1
  BY <1>6, <1>9, <1>10, <1>11
<1>12. CASE k = 2
  BY <1>3, <1>7, <1>9, <1>10, <1>12
<1>13. CASE k = 3
  BY <1>7, <1>8, <1>9, <1>10, <1>13
<1> QED
  BY <1>10, <1>11, <1>12, <1>13

LEMMA AllAreListed ==
  ASSUME NEW A, NEW tools \in Seq(A), NEW level
  PROVE  Len(FrontendListing(tools, level)) = Len(tools)
<1>1. \A l : Len([i \in DOMAIN tools |-> FormatTool(tools[i], l)]) = Len(tools)
  BY DEF FormatTool
<1> QED
  BY <1>1 DEF FrontendListing, FormatListing

LEMMA EnoughIsListed ==
  ASSUME NEW tools, IsToolset(tools)
  PROVE  ListingsAreEnough(tools)
<1>1. tools \in Seq(ToSet(tools)) /\ \A i \in DOMAIN tools : tools[i].text \in Seq(STRING)
  BY DEF IsToolset, ToSet
<1>2. \A i \in DOMAIN tools : ListBackendTools(tools)[i].name = tools[i].name
  <2>1. FormatListing(tools, "high") = [i \in DOMAIN tools |-> FormatTool(tools[i], "high")]
    BY DEF FormatListing
  <2> QED
    BY <2>1 DEF ListBackendTools, FormatTool
<1> QED
  BY <1>1, <1>2, LevelsFall, ShortIs, AllAreListed DEF ListingsAreEnough

-----------------------------------------------------------------------------
(* Results *)

\* A result within one wrapper is unwrapped.
LEMMA InnermostIs ==
  ASSUME NEW v, NEW w, w = IF IsWrapper(v) THEN v.fields["result"] ELSE v, ~IsWrapper(w)
  PROVE  Innermost(v) = w
<1> DEFINE Inside(x) == IF IsWrapper(x) THEN x.fields["result"] ELSE x
           Good(f) == f = [n \in 0..MaxNesting |-> IF n = 0 THEN v ELSE Inside(f[n - 1])]
           inner == CHOOSE f : Good(f)
<1>0. MaxNesting \in Nat /\ MaxNesting # 0
  BY NestingAssumption
<1>1. Inside(v) = w /\ Inside(w) = w
  OBVIOUS
<1>2. Innermost(v) = inner[MaxNesting]
  BY DEF Innermost
<1> HIDE DEF Inside
<1>3. Good([n \in 0..MaxNesting |-> IF n = 0 THEN v ELSE w])
  BY <1>0, <1>1
<1>4. Good(inner)
  <2> HIDE DEF Good
  <2> QED
    BY <1>3
<1> HIDE DEF inner
<1> DEFINE S == {n \in 0..MaxNesting : n # 0 => inner[n] = w}
<1>5. 0 \in S
  BY <1>0
<1>6. ASSUME NEW n \in 1..MaxNesting, n - 1 \in S PROVE n \in S
  BY <1>0, <1>1, <1>4, <1>6
<1> HIDE DEF S
<1>7. \A n \in 0..MaxNesting : n \in S
  BY <1>0, <1>5, <1>6, InductionUpTo
<1>8. MaxNesting \in S
  BY <1>0, <1>7
<1> QED
  BY <1>0, <1>2, <1>8 DEF S

\* The bridge finds the tools that there are.
LEMMA NamedIsFound ==
  ASSUME NEW tools, NEW i \in DOMAIN tools
  PROVE  Named(tools, tools[i].name) # {}
  BY DEF Named, FirstTool, ToSet

LEMMA PostedIs ==
  ASSUME NEW tools, NEW i \in DOMAIN tools, NEW r, r = Posted(tools[i].name)
  PROVE  /\ r.health = FALSE /\ r.exec = TRUE /\ r.token = TRUE /\ r.json = TRUE
         /\ Named(tools, r.name) # {}
<1>1. r.health = FALSE /\ r.exec = TRUE /\ r.token = TRUE /\ r.json = TRUE /\ r.name = tools[i].name
  BY DEF Posted
<1> QED
  BY <1>1, NamedIsFound

LEMMA BridgeWorks ==
  ASSUME NEW tools, NEW i \in DOMAIN tools, NEW r, r = Posted(tools[i].name), NEW value,
         NEW works, works = TRUE
  PROVE  LocalBridge(tools, r, value, works) = Reply(200, ValueText(value))
  BY PostedIs DEF LocalBridge

LEMMA BridgeFails ==
  ASSUME NEW tools, NEW i \in DOMAIN tools, NEW r, r = Posted(tools[i].name), NEW value,
         NEW works, works = FALSE
  PROVE  LocalBridge(tools, r, value, works) = Reply(500, PlainText(<<"error">>))
  BY PostedIs DEF LocalBridge

LEMMA ReplyIs == ASSUME NEW status, NEW says
  PROVE Reply(status, says).status = status /\ Reply(status, says).says = says
  BY DEF Reply

LEMMA SameResults ==
  ASSUME NEW values
  PROVE  ResultsAgree(values)
<1> DEFINE tools == <<[name |-> <<"page">>, props |-> <<>>, required |-> {}, text |-> <<>>]>>
<1> SUFFICES ASSUME NEW v \in values, IsWrapper(v) => ~IsWrapper(v.fields["result"]),
                    NEW works, works = TRUE
             PROVE  StringifyResult(v) = LocalBridge(tools, Posted(<<"page">>), v, works).says
  BY DEF ResultsAgree
<1> DEFINE w == IF IsWrapper(v) THEN v.fields["result"] ELSE v
<1>1. Innermost(v) = w
  BY InnermostIs
<1>2. 1 \in DOMAIN tools /\ tools[1].name = <<"page">>
  OBVIOUS
<1>3. StringifyResult(v) = ContentText(w)
  BY DEF StringifyResult
<1>4. ValueText(v) = ContentText(w)
  BY <1>1 DEF ValueText
<1> HIDE DEF tools, w
<1>5. PICK i \in DOMAIN tools : tools[i].name = <<"page">>
  BY <1>2
<1>6. LocalBridge(tools, Posted(<<"page">>), v, works) = Reply(200, ValueText(v))
  BY <1>5, BridgeWorks, ZenonT(60)
<1>7. LocalBridge(tools, Posted(<<"page">>), v, works).says = ValueText(v)
  <2> DEFINE reply == LocalBridge(tools, Posted(<<"page">>), v, works)
  <2>1. reply = Reply(200, ValueText(v))
    BY <1>6
  <2> HIDE DEF reply
  <2>2. reply.says = ValueText(v)
    BY <2>1, ReplyIs
  <2> QED
    BY <2>2 DEF reply
<1> QED
  BY <1>3, <1>4, <1>7

\* What a table holds.
LEMMA CellIsKept ==
  ASSUME NEW cell
  PROVE  CsvCell(cell).label = cell
  BY DEF CsvCell, Value

LEMMA HeadersDiffer ==
  ASSUME NEW headers \in Seq(STRING), Cardinality(ToSet(headers)) = Len(headers)
  PROVE  AllDifferent(headers)
<1> DEFINE n == Len(headers)
<1>1. n \in Nat /\ headers \in [1..n -> STRING] /\ DOMAIN headers = 1..n
  OBVIOUS
<1>2. headers \in Surjection(1..n, ToSet(headers))
  BY <1>1 DEF Surjection, ToSet
<1>3. n = Len(headers) /\ Cardinality(ToSet(headers)) = n
  OBVIOUS
<1> HIDE DEF n
<1>4. IsFiniteSet(1..n) /\ Cardinality(1..n) = n
  <2>1. IsFiniteSet(1..n) /\ Cardinality(1..n) = IF 1 > n THEN 0 ELSE n - 1 + 1
    BY <1>1, FS_Interval
  <2> QED
    BY <1>1, <2>1
<1>5. headers \in Injection(1..n, ToSet(headers))
  BY <1>2, <1>3, <1>4, FS_Surjection
<1>6. \A i, j \in 1..n : headers[i] = headers[j] => i = j
  BY <1>5 DEF Injection, IsInjective
<1> QED
  BY <1>3, <1>6 DEF AllDifferent

LEMMA TableIsHeld ==
  ASSUME NEW table, table.headers \in Seq(STRING), table.rows \in Seq(Seq(STRING)),
         NEW v \in CsvToJson(table)
  PROVE  /\ Len(v.items) = Len(table.rows)
         /\ \A i \in DOMAIN table.rows, j \in DOMAIN table.headers :
                v.items[i].fields[table.headers[j]].label = table.rows[i][j]
<1> DEFINE headers == ToSet(table.headers)
           Row(cells) == Object([h \in headers |->
                             CsvCell(cells[CHOOSE i \in DOMAIN cells : table.headers[i] = h])])
<1>1. /\ v = Array([i \in DOMAIN table.rows |-> Row(table.rows[i])])
      /\ Cardinality(headers) = Len(table.headers)
      /\ \A i \in DOMAIN table.rows : Len(table.rows[i]) = Len(table.headers)
  BY DEF CsvToJson
<1>2. v.items = [i \in DOMAIN table.rows |-> Row(table.rows[i])]
  BY <1>1 DEF Array
<1>3. AllDifferent(table.headers)
  BY <1>1, HeadersDiffer
<1>4. ASSUME NEW i \in DOMAIN table.rows, NEW j \in DOMAIN table.headers
      PROVE  v.items[i].fields[table.headers[j]].label = table.rows[i][j]
  <2> DEFINE cells == table.rows[i]
             h == table.headers[j]
             k == CHOOSE m \in DOMAIN cells : table.headers[m] = h
  <2>1. cells \in Seq(STRING) /\ DOMAIN cells = DOMAIN table.headers
    BY <1>1
  <2>2. k \in DOMAIN table.headers /\ table.headers[k] = h
    BY <2>1
  <2>3. k = j
    <3>1. DOMAIN table.headers = 1..Len(table.headers) /\ j \in DOMAIN table.headers
      OBVIOUS
    <3> HIDE DEF k
    <3> QED
      BY <1>3, <2>2, <3>1 DEF AllDifferent
  <2>4. h \in headers
    BY DEF ToSet
  <2>5. Row(cells).fields[h] = CsvCell(cells[k])
    <3>1. Row(cells).fields = [x \in headers |-> CsvCell(cells[CHOOSE m \in DOMAIN cells : table.headers[m] = x])]
      BY DEF Object
    <3> QED
      BY <2>4, <3>1
  <2>6. v.items[i] = Row(cells)
    BY <1>2
  <2> HIDE DEF Row, k
  <2> QED
    BY <2>3, <2>5, <2>6, CellIsKept
<1>5. Len(v.items) = Len(table.rows)
  BY <1>2
<1> QED
  BY <1>4, <1>5

\* What a text is parsed as is what it holds.
LEMMA StructureIsHeld ==
  ASSUME NEW text, IsText(text), NEW v \in ParseStructured(text)
  PROVE  Holds(text, v)
<1> DEFINE yaml == IF YamlCandidate(text) THEN YamlToJson(text) ELSE {}
<1>1. CASE text.json # {}
  BY <1>1 DEF ParseStructured, Holds
<1>2. CASE text.json = {} /\ \E w \in yaml : Nested(w)
  <2>1. ParseStructured(text) = {w \in yaml : YamlIsStructured(w)}
    BY <1>2 DEF ParseStructured
  <2>2. v \in yaml
    BY <2>1
  <2>3. YamlCandidate(text) /\ v \in text.yaml /\ IsJson(v)
    BY <2>2 DEF YamlToJson
  <2> QED
    BY <1>2, <2>3 DEF Holds, YamlCandidate
<1>3. CASE text.json = {} /\ ~\E w \in yaml : Nested(w)
  <2>1. ParseStructured(text) = UNION {CsvToJson(table) : table \in text.table}
    BY <1>3 DEF ParseStructured
  <2>2. PICK table \in text.table : v \in CsvToJson(table)
    BY <2>1
  <2>3. table.headers \in Seq(STRING) /\ table.rows \in Seq(Seq(STRING))
    BY DEF IsText
  <2> QED
    BY <1>3, <2>2, <2>3, TableIsHeld DEF Holds
<1> QED
  BY <1>1, <1>2, <1>3

LEMMA OneStructure ==
  ASSUME NEW text, IsText(text)
  PROVE  AtMostOne(ParseStructured(text))
<1> DEFINE yaml == IF YamlCandidate(text) THEN YamlToJson(text) ELSE {}
<1>0. AtMostOne(text.json) /\ AtMostOne(text.yaml) /\ AtMostOne(text.table)
  BY DEF IsText, AtMostOne
<1>1. CASE text.json # {}
  BY <1>0, <1>1 DEF ParseStructured
<1>2. CASE text.json = {} /\ \E w \in yaml : Nested(w)
  <2>1. ParseStructured(text) = {w \in yaml : YamlIsStructured(w)}
    BY <1>2 DEF ParseStructured
  <2>2. yaml \subseteq text.yaml
    BY DEF YamlToJson
  <2> QED
    BY <1>0, <2>1, <2>2 DEF AtMostOne
<1>3. CASE text.json = {} /\ ~\E w \in yaml : Nested(w)
  <2>1. ParseStructured(text) = UNION {CsvToJson(table) : table \in text.table}
    BY <1>3 DEF ParseStructured
  <2>2. \A table : AtMostOne(CsvToJson(table))
    BY DEF CsvToJson, AtMostOne
  <2> QED
    BY <1>0, <2>1, <2>2 DEF AtMostOne
<1> QED
  BY <1>1, <1>2, <1>3

\* The text that is written, and that it was rewritten at all.
LEMMA ToonIs ==
  ASSUME NEW v
  PROVE  /\ ToonText(v).toon = {v}
         /\ ToonText(v).json \in {{}, {v}}
  BY DEF ToonText, Verbatim

LEMMA RewrittenIs ==
  ASSUME NEW toonify \in BOOLEAN, NEW text, ToonifyOutput(toonify, text) # text
  PROVE  /\ toonify /\ \E v \in ParseStructured(text) : ToonifyOutput(toonify, text) = ToonText(v)
  BY DEF ToonifyOutput

\* What is passed on of a result differs in some of its texts only.
Toonified(text) == ToonifyOutput(TRUE, text)
IsPassed(result, passed) ==
    /\ passed \in [content : {passed.content}, error : {result.error},
                   structured : {result.structured}, truncation : {result.truncation}]
    /\ DOMAIN passed.content = DOMAIN result.content /\ Len(passed.content) = Len(result.content)
    /\ \A i \in DOMAIN result.content :
           \/ passed.content[i].text = result.content[i].text
           \/ /\ result.content[i].kind = "text"
              /\ passed.content[i].text = Toonified(result.content[i].text)

LEMMA PassedIs ==
  ASSUME NEW result, IsResult(result), NEW config, NEW full, NEW passed, passed = Passed(config, full, result)
  PROVE  IsPassed(result, passed)
<1> DEFINE c == [i \in DOMAIN result.content |->
                    IF result.content[i].kind = "text"
                    THEN [result.content[i] EXCEPT !.text = ToonifyOutput(TRUE, @)]
                    ELSE result.content[i]]
<1>0. /\ result \in [content : {result.content}, error : BOOLEAN,
                     structured : {result.structured}, truncation : BOOLEAN]
      /\ \A i \in DOMAIN result.content :
            result.content[i] \in [kind : {result.content[i].kind}, text : {result.content[i].text}]
  BY DEF IsResult, ToSet
<1>1. CASE full \/ result.error \/ config.shrinkfit \/ ~config.toonify
  <2>1. passed = result
    BY <1>1 DEF Passed, ToonifyResult
  <2> QED
    BY <1>0, <2>1 DEF IsPassed
<1>2. CASE ~(full \/ result.error \/ config.shrinkfit \/ ~config.toonify)
  <2>1. passed = [result EXCEPT !.content = c]
    BY <1>2 DEF Passed, ToonifyResult
  <2>2. passed.content = c
    BY <1>0, <2>1
  <2>3. passed \in [content : {passed.content}, error : {result.error},
                    structured : {result.structured}, truncation : {result.truncation}]
    <3> HIDE DEF c
    <3> QED
      BY <1>0, <2>1
  <2>4. ASSUME NEW i \in DOMAIN result.content
        PROVE  \/ c[i].text = result.content[i].text
               \/ /\ result.content[i].kind = "text"
                  /\ c[i].text = Toonified(result.content[i].text)
    BY <1>0 DEF Toonified
  <2>5. DOMAIN c = DOMAIN result.content /\ Len(c) = Len(result.content)
    BY DEF IsResult
  <2> HIDE DEF c
  <2> QED
    BY <2>2, <2>3, <2>4, <2>5 DEF IsPassed
<1> QED
  BY <1>1, <1>2

LEMMA NothingIsLost ==
  ASSUME NEW results, \A result \in results : IsResult(result)
  PROVE  RewritingLosesNothing(results)
<1> SUFFICES ASSUME NEW result \in results, NEW shrinkfit \in BOOLEAN, NEW full \in BOOLEAN
             PROVE  LET config == [toonify |-> TRUE, shrinkfit |-> shrinkfit]
                        passed == Passed(config, full, result)
                    IN /\ (full \/ shrinkfit \/ result.error) => passed = result
                       /\ [passed EXCEPT !.content = <<>>] = [result EXCEPT !.content = <<>>]
                       /\ DOMAIN passed.content = DOMAIN result.content
                       /\ \A i \in DOMAIN result.content :
                              LET before == result.content[i].text
                                  after == passed.content[i].text
                              IN /\ result.content[i].kind # "text" => after = before
                                 /\ after # before => \A v \in after.toon : Holds(before, v)
  BY DEF RewritingLosesNothing
<1> DEFINE config == [toonify |-> TRUE, shrinkfit |-> shrinkfit]
           passed == Passed(config, full, result)
<1>0. IsResult(result)
  OBVIOUS
<1>1. (full \/ shrinkfit \/ result.error) => passed = result
  BY DEF Passed
<1> HIDE DEF config
<1>2. /\ passed \in [content : {passed.content}, error : {result.error},
                     structured : {result.structured}, truncation : {result.truncation}]
      /\ DOMAIN passed.content = DOMAIN result.content
      /\ \A i \in DOMAIN result.content :
             \/ passed.content[i].text = result.content[i].text
             \/ /\ result.content[i].kind = "text"
                /\ passed.content[i].text = Toonified(result.content[i].text)
  <2>1. IsPassed(result, passed)
    BY <1>0, PassedIs
  <2> QED
    BY <2>1 DEF IsPassed
<1> HIDE DEF passed
<1>3. [passed EXCEPT !.content = <<>>] = [result EXCEPT !.content = <<>>]
  <2>1. result \in [content : {result.content}, error : BOOLEAN,
                    structured : {result.structured}, truncation : BOOLEAN]
    BY <1>0 DEF IsResult
  <2> QED
    BY <1>2, <2>1
<1>4. ASSUME NEW i \in DOMAIN result.content, NEW before, before = result.content[i].text,
             NEW after, after = passed.content[i].text
      PROVE  /\ result.content[i].kind # "text" => after = before
             /\ after # before => \A v \in after.toon : Holds(before, v)
  <2>1. after = before \/ (result.content[i].kind = "text" /\ after = Toonified(before))
    BY <1>2, <1>4
  <2>2. IsText(before)
    BY <1>0, <1>4 DEF IsResult, ToSet
  <2>3. ASSUME after # before PROVE \A v \in after.toon : Holds(before, v)
    <3>1. PICK w \in ParseStructured(before) : after = ToonText(w)
      BY <2>1, <2>3 DEF Toonified, ToonifyOutput
    <3>2. after.toon = {w}
      BY <3>1, ToonIs
    <3> QED
      BY <2>2, <3>2, StructureIsHeld
  <2> QED
    BY <2>1, <2>3
<1> QED
  BY <1>1, <1>2, <1>3, <1>4 DEF passed, config

\* A text that is rewritten means what it meant, if it is no TOON of something else.
LEMMA RewritingMeans ==
  ASSUME NEW text, IsText(text), text.toon # {} => ParseStructured(text) = {} \/ text.json # {}
  PROVE  Meaning(Toonified(text)) = Meaning(text)
<1>1. CASE ParseStructured(text) = {}
  BY <1>1 DEF Toonified, ToonifyOutput
<1>2. CASE ParseStructured(text) # {}
  <2> DEFINE v == CHOOSE v \in ParseStructured(text) : TRUE
  <2>1. v \in ParseStructured(text)
    BY <1>2
  <2>2. ParseStructured(text) = {v}
    BY <2>1, OneStructure DEF AtMostOne
  <2>3. Toonified(text) = ToonText(v)
    BY <1>2 DEF Toonified, ToonifyOutput
  <2> HIDE DEF v
  <2>4. ToonText(v).toon = {v}
    BY ToonIs
  <2>5. Meaning(ToonText(v)) = [value |-> {v}, words |-> <<>>]
    BY <2>4 DEF Meaning
  <2>6. text.toon # {} => text.toon = {v}
    <3>1. text.json # {} => ParseStructured(text) = text.json
      BY DEF ParseStructured
    <3> QED
      BY <1>2, <2>2, <3>1 DEF IsText
  <2>7. Meaning(text) = [value |-> {v}, words |-> <<>>]
    BY <2>2, <2>6 DEF Meaning
  <2> QED
    BY <2>3, <2>5, <2>7
<1> QED
  BY <1>1, <1>2

\* Texts as they are passed on are read in one way as well.
LEMMA PassedIsText ==
  ASSUME NEW text, IsText(text)
  PROVE  IsText(Toonified(text))
<1>1. \A v : IsText(ToonText(v))
  BY DEF ToonText, Verbatim, IsText
<1> QED
  BY <1>1 DEF Toonified, ToonifyOutput

Fields(result) ==
    result \in [content : {result.content}, error : BOOLEAN,
               structured : {result.structured}, truncation : BOOLEAN]

\* What is output of a result with one text and nothing else.
LEMMA AloneIs ==
  ASSUME NEW result, Fields(result), result.structured = {}, ~result.truncation, Len(result.content) = 1,
         NEW config
  PROVE  \/ ToolResultToOutput(config, result).text = result.content[1].text
         \/ ToolResultToOutput(config, result).text = Toonified(result.content[1].text)
<1> DEFINE texts == \E i \in DOMAIN result.content : result.content[i].kind = "text"
           shown == IF config.shrinkfit /\ texts THEN [result EXCEPT !.structured = {}] ELSE result
           text == result.content[1].text
<1>1. shown.structured = {} /\ shown.content = result.content /\ ~shown.truncation
  BY DEF Fields
<1>2. ToolResultToOutput(config, result)
          = IF result.error THEN Failure(CallToolResultToString(result))
            ELSE Output(ToonifyOutput(config.toonify /\ ~config.shrinkfit, StringOutput(shown)))
  BY DEF ToolResultToOutput
<1> HIDE DEF shown
<1>3. CallToolResultToString(result) = text /\ CallToolResultToString(shown) = text
  BY <1>1 DEF CallToolResultToString, ContentToString
<1>4. StringOutput(shown) = text
  BY <1>1, <1>3 DEF StringOutput
<1> HIDE DEF text
<1>5. \A x : Failure(x).text = x /\ Output(x).text = x
  BY DEF Failure, Output
<1>6. CASE result.error
  BY <1>2, <1>3, <1>5, <1>6 DEF text
<1>7. CASE ~result.error
  <2>1. \/ ToonifyOutput(config.toonify /\ ~config.shrinkfit, text) = text
        \/ ToonifyOutput(config.toonify /\ ~config.shrinkfit, text) = Toonified(text)
    BY DEF ToonifyOutput, Toonified
  <2>2. ToolResultToOutput(config, result) = Output(ToonifyOutput(config.toonify /\ ~config.shrinkfit, text))
    BY <1>2, <1>4, <1>7
  <2>3. ToolResultToOutput(config, result).text = ToonifyOutput(config.toonify /\ ~config.shrinkfit, text)
    BY <1>5, <2>2
  <2> QED
    BY <2>1, <2>3 DEF text
<1> QED
  BY <1>6, <1>7

\* What is output of a result that may be shrunk.
LEMMA ShrunkIs ==
  ASSUME NEW result, IsResult(result), NEW config, config.shrinkfit = TRUE, ~result.error
  PROVE  ToolResultToOutput(config, result).text.toon
             \subseteq UNION {result.content[i].text.toon : i \in DOMAIN result.content}
<1> DEFINE texts == \E i \in DOMAIN result.content : result.content[i].kind = "text"
           shown == IF config.shrinkfit /\ texts THEN [result EXCEPT !.structured = {}] ELSE result
           all == UNION {result.content[i].text.toon : i \in DOMAIN result.content}
<1>1. shown.content = result.content
  BY DEF IsResult
<1>2. ToolResultToOutput(config, result)
          = IF result.error THEN Failure(CallToolResultToString(result))
            ELSE Output(ToonifyOutput(config.toonify /\ ~config.shrinkfit, StringOutput(shown)))
  BY DEF ToolResultToOutput
<1> HIDE DEF shown
<1>3. ToonifyOutput(config.toonify /\ ~config.shrinkfit, StringOutput(shown)) = StringOutput(shown)
  BY DEF ToonifyOutput
<1>4. ToolResultToOutput(config, result).text = StringOutput(shown)
  BY <1>2, <1>3 DEF Output
<1>5. \A x : Verbatim(x).toon = {} /\ JsonText(x).toon = {} /\ ValueToString(x).toon = {}
  BY DEF Verbatim, JsonText, ValueToString
<1>6. CallToolResultToString(shown).toon \subseteq all
  <2>1. CASE shown.structured # {}
    BY <1>5, <2>1 DEF CallToolResultToString
  <2>2. CASE shown.structured = {} /\ Len(shown.content) = 1
    <3>1. 1 \in DOMAIN result.content
      BY <1>1, <2>2 DEF IsResult
    <3>2. CallToolResultToString(shown) = result.content[1].text
      BY <1>1, <2>2 DEF CallToolResultToString, ContentToString
    <3> QED
      BY <3>1, <3>2
  <2>3. CASE shown.structured = {} /\ Len(shown.content) # 1
    BY <1>5, <2>3 DEF CallToolResultToString
  <2> QED
    BY <2>1, <2>2, <2>3
<1>7. StringOutput(shown).toon \subseteq all
  BY <1>5, <1>6 DEF StringOutput
<1> QED
  BY <1>4, <1>7

LEMMA OneTextIsEnough ==
  ASSUME NEW results, \A result \in results : IsResult(result)
  PROVE  OneTextSuffices(results)
<1> SUFFICES ASSUME NEW result \in results, NEW toonify \in BOOLEAN, NEW full \in BOOLEAN, NEW shrinkfit \in BOOLEAN
             PROVE  LET config == [toonify |-> toonify, shrinkfit |-> shrinkfit]
                        output == InvokeToolFull(config, full, result)
                        passed == Passed(config, full, result)
                        alone == Len(result.content) = 1 /\ result.structured = {} /\ ~result.truncation
                        Once(text) == text.toon # {} => ParseStructured(text) = {} \/ text.json # {}
                    IN /\ output.fails = result.error
                       /\ alone /\ Once(passed.content[1].text)
                              => Meaning(output.text) = Meaning(passed.content[1].text)
                       /\ shrinkfit /\ ~result.error => output.text.toon \subseteq
                              UNION {result.content[i].text.toon : i \in DOMAIN result.content}
  BY DEF OneTextSuffices
<1> DEFINE config == [toonify |-> toonify, shrinkfit |-> shrinkfit]
           output == InvokeToolFull(config, full, result)
           passed == Passed(config, full, result)
<1>0. IsResult(result)
  OBVIOUS
<1>1. config.shrinkfit = shrinkfit
  OBVIOUS
<1>2. shrinkfit => passed = result
  BY DEF Passed
<1> HIDE DEF config
<1>3. output = ToolResultToOutput(config, passed)
  BY DEF InvokeToolFull
<1>4. IsPassed(result, passed)
  BY <1>0, PassedIs
<1> HIDE DEF output, passed
<1>5. /\ Fields(passed) /\ passed.error = result.error /\ result.error \in BOOLEAN
      /\ passed.structured = result.structured /\ passed.truncation = result.truncation
  BY <1>0, <1>4 DEF IsPassed, Fields, IsResult
<1>6. output.fails = result.error
  BY <1>3, <1>5 DEF ToolResultToOutput, Failure, Output
<1>7. ASSUME Len(result.content) = 1, result.structured = {}, ~result.truncation,
             NEW text, text = passed.content[1].text,
             text.toon # {} => ParseStructured(text) = {} \/ text.json # {}
      PROVE  Meaning(output.text) = Meaning(text)
  <2>1. Len(passed.content) = 1 /\ 1 \in DOMAIN result.content
    BY <1>0, <1>4, <1>7 DEF IsPassed, IsResult
  <2>2. IsText(result.content[1].text)
    BY <1>0, <2>1 DEF IsResult, ToSet
  <2>3. IsText(text)
    BY <1>4, <1>7, <2>1, <2>2, PassedIsText DEF IsPassed
  <2>4. output.text = text \/ output.text = Toonified(text)
    BY <1>3, <1>5, <1>7, <2>1, AloneIs
  <2> QED
    BY <1>7, <2>3, <2>4, RewritingMeans
<1>8. ASSUME shrinkfit, ~result.error
      PROVE  output.text.toon \subseteq UNION {result.content[i].text.toon : i \in DOMAIN result.content}
  <2>1. config.shrinkfit = TRUE
    BY <1>1, <1>8
  <2>2. output = ToolResultToOutput(config, result)
    BY <1>2, <1>3, <1>8
  <2> QED
    BY <1>0, <1>8, <2>1, <2>2, ShrunkIs
<1> QED
  BY <1>6, <1>7, <1>8 DEF output, passed, config

LEMMA HasIs ==
  ASSUME NEW x
  PROVE  ~Has(PlainText(x), "json") /\ PlainText(x).text = x /\ Has(Rendered(x), "json") /\ Rendered(x).json = x
  BY DEF Has, PlainText, Rendered

\* The text of a value is the same for the server and the hosts.
LEMMA SameText ==
  ASSUME NEW v, ~HasTexts(Innermost(v))
  PROVE  (IF Has(ValueText(v), "json") THEN JsonText(ValueText(v).json) ELSE Verbatim(ValueText(v).text))
             = ValueToString(v)
<1> DEFINE w == Innermost(v)
<1>1. CASE w.type = "string"
  <2>1. ValueText(v) = PlainText(<<w.label>>) /\ ValueToString(v) = Verbatim(<<w.label>>)
    BY <1>1 DEF ValueText, ContentText, ValueToString
  <2> QED
    BY <2>1, HasIs
<1>2. CASE w.type # "string"
  <2>1. ValueText(v) = Rendered(w) /\ ValueToString(v) = JsonText(w)
    BY <1>2 DEF ValueText, ContentText, ValueToString
  <2> QED
    BY <2>1, HasIs
<1> QED
  BY <1>1, <1>2

LEMMA StructureIsShown ==
  ASSUME NEW v, NEW result, result = [content |-> <<>>, error |-> FALSE, structured |-> {v}, truncation |-> FALSE],
         NEW toonify \in BOOLEAN, NEW config, config = [toonify |-> toonify, shrinkfit |-> FALSE],
         NEW full
  PROVE  InvokeToolFull(config, full, result).text = ToonifyOutput(toonify, ValueToString(v))
<1> DEFINE passed == Passed(config, full, result)
<1>1. passed.structured = {v} /\ ~passed.truncation /\ ~passed.error
  BY DEF Passed, ToonifyResult
<1> HIDE DEF passed
<1>2. CallToolResultToString(passed) = ValueToString(v)
  BY <1>1 DEF CallToolResultToString
<1>3. StringOutput(passed) = ValueToString(v)
  BY <1>1, <1>2 DEF StringOutput
<1>4. ToolResultToOutput(config, passed) = Output(ToonifyOutput(config.toonify /\ ~config.shrinkfit, StringOutput(passed)))
  BY <1>1 DEF ToolResultToOutput
<1>5. ToonifyOutput(config.toonify /\ ~config.shrinkfit, StringOutput(passed)) = ToonifyOutput(toonify, ValueToString(v))
  BY <1>3 DEF ToonifyOutput
<1>6. \A x : Output(x).text = x
  BY DEF Output
<1>7. InvokeToolFull(config, full, result) = ToolResultToOutput(config, passed)
  BY DEF InvokeToolFull, passed
<1> QED
  BY <1>4, <1>5, <1>6, <1>7

LEMMA SameForServerAndHosts ==
  ASSUME NEW values, NEW tools
  PROVE  ServerAndHostsAgree(values, tools)
<1>1. ASSUME NEW v \in values, ~HasTexts(Innermost(v)), NEW toonify \in BOOLEAN,
             NEW result, result = [content |-> <<>>, error |-> FALSE, structured |-> {v}, truncation |-> FALSE]
      PROVE  NormalizeHostToolResult(v, toonify)
                 = InvokeToolFull([toonify |-> toonify, shrinkfit |-> FALSE], FALSE, result).text
  <2>1. NormalizeHostToolResult(v, toonify) = ToonifyOutput(toonify, ValueToString(v))
    BY <1>1, SameText DEF NormalizeHostToolResult
  <2> QED
    BY <1>1, <2>1, StructureIsShown
<1>2. ASSUME NEW tool \in tools, NEW input \in values
      PROVE  LET fields == IF input.type = "object" THEN input.fields ELSE <<>>
             IN MissingRequired(tool, input) = MissingFields(tool, fields)
  BY DEF MissingRequired, MissingFields
<1> QED
  BY <1>1, <1>2 DEF ServerAndHostsAgree

-----------------------------------------------------------------------------
(* The tool that a subcommand stands for *)

\* A tool that alone fits is the first and the last of those that do.
LEMMA OnlyTool ==
  ASSUME NEW A, NEW tools \in Seq(A), NEW F, NEW i \in DOMAIN tools,
         \A j \in DOMAIN tools : tools[j] \in F <=> j = i
  PROVE  FirstTool(tools, F) = {tools[i]} /\ FirstTool(Reverse(tools), F) = {tools[i]}
<1> DEFINE n == Len(tools)
           back == Reverse(tools)
<1>1. n \in Nat /\ DOMAIN tools = 1..n /\ i \in 1..n
  OBVIOUS
<1>2. DOMAIN back = 1..n /\ \A j \in 1..n : back[j] = tools[n - j + 1]
  BY <1>1 DEF Reverse
<1>3. \A k \in Nat : Min({k}) = k
  BY DEF Min
<1>4. {j \in DOMAIN tools : tools[j] \in F} = {i}
  OBVIOUS
<1>5. {j \in DOMAIN back : back[j] \in F} = {n - i + 1}
  <2>1. \A j \in 1..n : n - j + 1 \in 1..n
    BY <1>1
  <2>2. \A j \in 1..n : back[j] \in F <=> n - j + 1 = i
    BY <1>1, <1>2, <2>1
  <2> HIDE DEF back, n
  <2>3. \A j \in 1..n : back[j] \in F <=> j = n - i + 1
    BY <1>1, <2>2
  <2>4. n - i + 1 \in 1..n
    BY <1>1, <2>1
  <2> QED
    BY <1>2, <2>3, <2>4
<1>6. FirstTool(tools, F) = {tools[i]}
  BY <1>1, <1>3, <1>4 DEF FirstTool
<1>7. n - i + 1 \in Nat /\ back[n - i + 1] = tools[i]
  BY <1>1, <1>2
<1>8. FirstTool(back, F) = {back[n - i + 1]}
  <2>1. Min({n - i + 1}) = n - i + 1
    BY <1>3, <1>7
  <2> HIDE DEF back, n
  <2> QED
    BY <1>5, <2>1 DEF FirstTool
<1> QED
  BY <1>6, <1>7, <1>8

LEMMA NoTool ==
  ASSUME NEW A, NEW tools \in Seq(A), NEW F, \A j \in DOMAIN tools : tools[j] \notin F
  PROVE  FirstTool(tools, F) = {} /\ FirstTool(Reverse(tools), F) = {}
<1>1. Len(tools) \in Nat /\ DOMAIN tools = 1..Len(tools)
  OBVIOUS
<1>2. \A j \in DOMAIN Reverse(tools) : Reverse(tools)[j] \notin F
  BY <1>1 DEF Reverse
<1> QED
  BY <1>2 DEF FirstTool

\* A tool answers to the name that help lists.
LEMMA KebabIsAlias == ASSUME NEW tool PROVE Kebab(tool.name) \in Aliases(tool)
  BY DEF Aliases

\* A subcommand stands for the one tool that answers to it, however it is looked up.
LEMMA OneAnswers ==
  ASSUME NEW tools, IsToolset(tools), Unambiguous(tools), NEW sub, NEW i \in DOMAIN tools,
         sub \in Aliases(tools[i])
  PROVE  /\ PySubcommand(tools, sub) = {tools[i]} /\ TsSubcommand(tools, sub) = {tools[i]}
         /\ sub \in {Kebab(tools[j].name) : j \in DOMAIN tools} => ScriptSubcommand(tools, sub) = {tools[i]}
<1> DEFINE F == {t \in ToSet(tools) : sub \in Aliases(t)}
           G == {t \in ToSet(tools) : sub = Kebab(t.name)}
<1>1. tools \in Seq(ToSet(tools)) /\ \A j \in DOMAIN tools : tools[j] \in ToSet(tools)
  BY DEF IsToolset, ToSet
<1>2. \A j \in DOMAIN tools : sub \in Aliases(tools[j]) <=> j = i
  BY DEF Unambiguous
<1>3. \A j \in DOMAIN tools : tools[j] \in F <=> j = i
  BY <1>1, <1>2
<1>4. PySubcommand(tools, sub) = {tools[i]} /\ TsSubcommand(tools, sub) = {tools[i]}
  <2> HIDE DEF F
  <2>1. FirstTool(tools, F) = {tools[i]} /\ FirstTool(Reverse(tools), F) = {tools[i]}
    BY <1>1, <1>3, OnlyTool
  <2> QED
    BY <2>1 DEF PySubcommand, TsSubcommand, F
<1>5. ASSUME sub \in {Kebab(tools[j].name) : j \in DOMAIN tools}
      PROVE  ScriptSubcommand(tools, sub) = {tools[i]}
  <2>1. PICK k \in DOMAIN tools : sub = Kebab(tools[k].name)
    BY <1>5
  <2>2. k = i
    BY <1>2, <2>1, KebabIsAlias
  <2>3. \A j \in DOMAIN tools : tools[j] \in G <=> j = i
    BY <1>1, <1>2, <2>1, <2>2, KebabIsAlias
  <2> HIDE DEF G
  <2>4. FirstTool(Reverse(tools), G) = {tools[i]}
    BY <1>1, <2>3, OnlyTool
  <2> QED
    BY <2>4 DEF ScriptSubcommand, G
<1> QED
  BY <1>4, <1>5

LEMMA NoneAnswers ==
  ASSUME NEW tools, IsToolset(tools), NEW sub, \A i \in DOMAIN tools : sub \notin Aliases(tools[i])
  PROVE  /\ PySubcommand(tools, sub) = {} /\ TsSubcommand(tools, sub) = {}
         /\ ScriptSubcommand(tools, sub) = {}
<1> DEFINE F == {t \in ToSet(tools) : sub \in Aliases(t)}
           G == {t \in ToSet(tools) : sub = Kebab(t.name)}
<1>1. tools \in Seq(ToSet(tools))
  BY DEF IsToolset
<1>2. \A j \in DOMAIN tools : tools[j] \notin F /\ tools[j] \notin G
  BY KebabIsAlias
<1> HIDE DEF F, G
<1>3. FirstTool(tools, F) = {} /\ FirstTool(Reverse(tools), F) = {} /\ FirstTool(Reverse(tools), G) = {}
  BY <1>1, <1>2, NoTool
<1> QED
  BY <1>3 DEF PySubcommand, TsSubcommand, ScriptSubcommand, F, G

-----------------------------------------------------------------------------
(* Input that no host has anything to decode in *)

\* JSON says of no text that it is a string.
LEMMA NoStrings == ASSUME NEW text, NEW v \in Decoded(text) PROVE v.type # "string"
<1>1. PICK t \in JsonTexts : v = Json[t]
  BY DEF Decoded
<1>2. /\ Json["true"] = Value("boolean", "true") /\ Json["false"] = Value("boolean", "false")
      /\ Json["null"] = Value("null", "null")
      /\ Json["5"] = Value("integer", "5") /\ Json["-3"] = Value("integer", "-3")
      /\ Json["1.5"] = Value("number", "1.5") /\ Json["{}"] = Value("object", "{}")
      /\ Json["[5]"] = Array(<<Value("integer", "5")>>)
      /\ Json["[\"abc\"]"] = Array(<<Value("string", "abc")>>)
  BY DEF Json, JsonTexts, True, False
<1>3. /\ \A label : Value("boolean", label).type # "string" /\ Value("null", label).type # "string"
                    /\ Value("integer", label).type # "string" /\ Value("number", label).type # "string"
                    /\ Value("object", label).type # "string"
      /\ \A items : Array(items).type # "string"
  BY DEF Value, Array
<1>4. t \in {"true", "false", "null", "5", "-3", "1.5", "{}", "[5]", "[\"abc\"]"}
  BY DEF JsonTexts
<1> QED
  BY <1>1, <1>2, <1>3, <1>4

\* A schema that is of no array has the text itself.
LEMMA CoercedAsIs ==
  ASSUME NEW schema \in Schemas, NEW operand, TypeOf(schema) # "array"
  PROVE  NativeCoerce(schema, operand) = NativeValues(schema, operand)
<1> DEFINE c == Coercion(operand)
<1>1. c[schema] = CoerceAs(c, operand, schema)
  BY CoercionIs
<1> HIDE DEF c
<1>2. c[schema] = NativeValues(schema, operand)
  BY <1>1 DEF CoerceAs
<1> QED
  BY <1>2, CoerceIs DEF c

\* A value that a schema of structures lets a host leave alone.
IsSettled(schema, v) ==
    ExpectsStructured(schema) => v.type # "string" \/ Structured(v.label) = {}

LEMMA UntypedIsSettled ==
  ASSUME NEW schema \in Schemas, NEW text, TypeOf(schema) = "none",
         Has(schema, "types"), "string" \notin schema.types
  PROVE  IsSettled(schema, NativeUntyped(schema, text))
<1> DEFINE plain == Value("string", text)
           decoded == CHOOSE v \in Decoded(text) : TRUE
<1>1. CASE Decoded(text) = {}
  <2>1. NativeUntyped(schema, text) = plain
    BY <1>1 DEF NativeUntyped
  <2>2. plain.label = text
    BY DEF Value
  <2>3. Structured(text) = {}
    BY <1>1 DEF Structured
  <2> HIDE DEF plain
  <2> QED
    BY <2>1, <2>2, <2>3 DEF IsSettled
<1>2. CASE Decoded(text) # {}
  <2>1. ~Has(schema, "type")
    BY KeywordsAssumption
  <2>2. NativeTypes[schema] = {schema.types}
    BY <2>1, TypesAre DEF TypesAs
  <2>3. (CHOOSE types \in NativeTypes[schema] : TRUE) = schema.types
    BY <2>2
  <2>4. NativeUntyped(schema, text) = decoded
    BY <1>2, <2>2, <2>3 DEF NativeUntyped
  <2>5. decoded.type # "string"
    BY <1>2, NoStrings
  <2> HIDE DEF decoded
  <2> QED
    BY <2>4, <2>5 DEF IsSettled
<1> QED
  BY <1>1, <1>2

\* What a flag's text comes to is settled, arrays of items apart.
LEMMA CoercedIsSettled ==
  ASSUME NEW schema \in Schemas, NEW operand, TypeOf(schema) # "array",
         NEW v \in NativeCoerce(schema, operand),
         Has(schema, "types") /\ ExpectsStructured(schema) => "string" \notin schema.types
  PROVE  IsSettled(schema, v)
<1>1. v \in NativeValues(schema, operand)
  BY CoercedAsIs
<1>2. CASE TypeOf(schema) = "object"
  <2>1. v.type = "object"
    BY <1>1, <1>2 DEF NativeValues
  <2> QED
    BY <2>1 DEF IsSettled
<1>3. CASE TypeOf(schema) # "object" /\ ExpectsStructured(schema)
  <2>1. Has(schema, "types") /\ "string" \notin schema.types
    BY <1>3 DEF ExpectsStructured
  <2>2. TypeOf(schema) = "none"
    BY <2>1, KeywordsAssumption DEF TypeOf
  <2>3. v = NativeUntyped(schema, TextOf(operand))
    BY <1>1, <2>2 DEF NativeValues
  <2> QED
    BY <2>1, <2>2, <2>3, UntypedIsSettled
<1>4. CASE ~ExpectsStructured(schema)
  BY <1>4 DEF IsSettled
<1> QED
  BY <1>2, <1>3, <1>4

AllSettled(props, input) ==
    /\ input = [p \in DOMAIN input |-> input[p]]
    /\ \A p \in DOMAIN input : IsSettled(props[p], input[p])

\* Nothing is decoded in what is settled.
LEMMA NormalAsIs ==
  ASSUME NEW tool, NEW input, AllSettled(tool.props, input)
  PROVE  NormalizeStructured(tool, input) = input
<1>1. \A p \in DOMAIN input :
         ~(/\ input[p].type = "string" /\ Structured(input[p].label) # {}
           /\ ExpectsStructured(tool.props[p]))
  BY DEF AllSettled, IsSettled
<1> QED
  BY <1>1 DEF AllSettled, NormalizeStructured

LEMMA InsertSettles ==
  ASSUME NEW props, NEW input, AllSettled(props, input), NEW p, NEW value,
         TypeOf(props[p]) = "array" \/ IsSettled(props[p], value)
  PROVE  AllSettled(props, NativeInsert(input, p, props[p], value))
<1>1. PICK new : /\ IsSettled(props[p], new)
                 /\ NativeInsert(input, p, props[p], value) = Put(input, p, new)
  <2> DEFINE before == IF p \in DOMAIN input THEN input[p].items ELSE <<>>
             added == IF value.type = "array" THEN value.items ELSE <<value>>
             both == Array(before \o added)
  <2>1. NativeInsert(input, p, props[p], value)
           = Put(input, p, IF TypeOf(props[p]) = "array" THEN both ELSE value)
    BY DEF NativeInsert
  <2>2. IsSettled(props[p], both)
    <3>1. \A items : Array(items).type = "array"
      BY DEF Array
    <3> QED
      BY <3>1 DEF IsSettled
  <2> HIDE DEF both
  <2> QED
    BY <2>1, <2>2
<1> DEFINE more == [q \in DOMAIN input \cup {p} |-> IF q = p THEN new ELSE input[q]]
<1>2. NativeInsert(input, p, props[p], value) = more
  BY <1>1 DEF Put
<1>3. AllSettled(props, more)
  BY <1>1 DEF AllSettled
<1> QED
  BY <1>2, <1>3

LEMMA OneResolves ==
  ASSUME NEW props, NEW name
  PROVE  NativeResolve(props, name) \subseteq DOMAIN props /\ AtMostOne(NativeResolve(props, name))
<1> DEFINE alike == {p \in DOMAIN props : Canonical(p) = Canonical(Snake(name))}
<1>1. NativeResolve(props, name) = IF Snake(name) \in DOMAIN props THEN {Snake(name)}
                                   ELSE IF alike = {} THEN {} ELSE {CHOOSE p \in alike : TRUE}
  BY DEF NativeResolve
<1>2. alike \subseteq DOMAIN props
  OBVIOUS
<1> HIDE DEF alike
<1> QED
  BY <1>1, <1>2 DEF AtMostOne

\* A schema of text and structures is not among these.
LEMMA FlagIsSettled ==
  ASSUME NEW tool, IsProps(tool.props), ~Blurred(tool), NEW args, NEW i,
         NEW r \in NativeFlag(tool.props, args, i)
  PROVE  TypeOf(tool.props[r.property]) = "array" \/ IsSettled(tool.props[r.property], r.value)
<1> DEFINE props == tool.props
           name == args[i].name
           operand == IF Negated(name) THEN {} ELSE Operand(args, i)
           Values(p) == IF Negated(name)
                        THEN IF TypeOf(props[p]) = "boolean" THEN {False} ELSE {}
                        ELSE IF TypeOf(props[p]) # "boolean" /\ operand = {} THEN {}
                        ELSE NativeCoerce(props[p], operand)
           ps == NativeResolve(props, Positive(name))
<1>1. r \in {[property |-> p, value |-> v, takes |-> operand # {}] :
                p \in ps, v \in UNION {Values(p) : p \in ps}}
  BY DEF NativeFlag
<1>2. ps \subseteq DOMAIN props /\ AtMostOne(ps)
  BY OneResolves
<1> HIDE DEF ps, operand, Values
<1>3. PICK p \in ps, v \in UNION {Values(q) : q \in ps} :
         r = [property |-> p, value |-> v, takes |-> operand # {}]
  BY <1>1
<1>4. v \in Values(p) /\ r.property = p /\ r.value = v /\ p \in DOMAIN props
  BY <1>2, <1>3 DEF AtMostOne
<1>5. v \in NativeCoerce(props[p], operand) \/ (TypeOf(props[p]) = "boolean" /\ v = False)
  BY <1>4 DEF Values
<1>6. CASE TypeOf(props[p]) = "boolean" /\ v = False
  <2>1. v.type = "boolean"
    BY <1>6 DEF False, Value
  <2> QED
    BY <1>4, <2>1 DEF IsSettled
<1>7. CASE v \in NativeCoerce(props[p], operand)
  <2>1. props[p] \in Schemas
    BY <1>4 DEF IsProps
  <2>2. Has(props[p], "types") /\ ExpectsStructured(props[p]) => "string" \notin props[p].types
    BY <1>4 DEF Blurred
  <2> QED
    BY <1>4, <1>7, <2>1, <2>2, CoercedIsSettled
<1> QED
  BY <1>5, <1>6, <1>7

IsReading(read) == read = [wrong |-> read.wrong, taken |-> read.taken, input |-> read.input]
SettledReading(props, read) == IsReading(read) /\ AllSettled(props, read.input)

LEMMA NothingRead ==
  ASSUME NEW props
  PROVE  SettledReading(props, Reading(<<>>, FALSE)) /\ SettledReading(props, Wrong)
<1>1. AllSettled(props, <<>>)
  <2>1. DOMAIN <<>> = {} /\ <<>> = [p \in DOMAIN <<>> |-> <<>>[p]]
    OBVIOUS
  <2> QED
    BY <2>1 DEF AllSettled
<1> QED
  BY <1>1 DEF SettledReading, IsReading, Reading, Wrong

LEMMA StepSettles ==
  ASSUME NEW tool, IsProps(tool.props), ~Blurred(tool), NEW args, NEW i,
         NEW read, SettledReading(tool.props, read)
  PROVE  SettledReading(tool.props, NativeStep(tool, args, i, read))
<1> DEFINE valid == {r \in NativeFlag(tool.props, args, i) : NativeEnum(tool.props[r.property], r.value)}
           next == NativeTake(tool.props, read.input, valid)
<1>1. NativeStep(tool, args, i, read) =
        IF read.wrong THEN read ELSE IF read.taken THEN [read EXCEPT !.taken = FALSE] ELSE next
  BY DEF NativeStep
<1>2. SettledReading(tool.props, [read EXCEPT !.taken = FALSE])
  <2> DEFINE new == [read EXCEPT !.taken = FALSE]
  <2>1. new = [wrong |-> read.wrong, taken |-> FALSE, input |-> read.input]
    <3>1. PICK a, t, b : read = [wrong |-> a, taken |-> t, input |-> b]
      BY DEF SettledReading, IsReading
    <3>2. read.wrong = a /\ read.input = b
      BY <3>1
    <3>3. new = [[wrong |-> a, taken |-> t, input |-> b] EXCEPT !.taken = FALSE]
      BY <3>1
    <3> HIDE DEF new
    <3>4. new = [wrong |-> a, taken |-> FALSE, input |-> b]
      BY <3>3
    <3> QED
      BY <3>2, <3>4
  <2>2. IsReading(new) /\ new.input = read.input
    BY <2>1 DEF IsReading
  <2> HIDE DEF new
  <2> QED
    BY <2>2 DEF SettledReading, new
<1>3. SettledReading(tool.props, next)
  <2>1. CASE valid = {}
    BY <2>1, NothingRead DEF NativeTake
  <2>2. CASE valid # {}
    <3> DEFINE r == CHOOSE r \in valid : TRUE
               new == NativeInsert(read.input, r.property, tool.props[r.property], r.value)
    <3>1. next = Reading(new, r.takes)
      BY <2>2 DEF NativeTake
    <3>2. r \in NativeFlag(tool.props, args, i)
      BY <2>2
    <3> HIDE DEF r
    <3>3. TypeOf(tool.props[r.property]) = "array" \/ IsSettled(tool.props[r.property], r.value)
      BY <3>2, FlagIsSettled
    <3>4. AllSettled(tool.props, new)
      BY <3>3, InsertSettles DEF SettledReading
    <3> HIDE DEF new, next
    <3>5. IsReading(next) /\ next.input = new
      BY <3>1 DEF Reading, IsReading
    <3> QED
      BY <3>4, <3>5 DEF SettledReading
  <2> QED
    BY <2>1, <2>2
<1> HIDE DEF next
<1> QED
  BY <1>1, <1>2, <1>3

\* What the native parser makes of the first arguments, up to k.
NativeReading(tool, args, k) ==
    CHOOSE read : read = [i \in 0..k |->
        IF i = 0 THEN Reading(<<>>, FALSE) ELSE NativeStep(tool, args, i, read[i - 1])]

ReadsBySteps(tool, args, k, read) ==
    /\ read[0] = Reading(<<>>, FALSE)
    /\ \A i \in 1..k : read[i] = NativeStep(tool, args, i, read[i - 1])

LEMMA ReadingIs ==
  ASSUME NEW tool, NEW args, NEW k \in Nat
  PROVE  ReadsBySteps(tool, args, k, NativeReading(tool, args, k))
<1> DEFINE IsRead(f, m) == f = [i \in 0..m |->
             IF i = 0 THEN Reading(<<>>, FALSE) ELSE NativeStep(tool, args, i, f[i - 1])]
           S == {m \in 0..k : \E f : IsRead(f, m)}
           read == NativeReading(tool, args, k)
<1>1. 0 \in S
  <2>1. IsRead([i \in 0..0 |-> Reading(<<>>, FALSE)], 0)
    OBVIOUS
  <2> HIDE DEF IsRead
  <2> QED
    BY <2>1
<1>2. ASSUME NEW m \in 1..k, m - 1 \in S PROVE m \in S
  <2>1. PICK f : IsRead(f, m - 1)
    BY <1>2
  <2> DEFINE g == [i \in 0..m |-> IF i = m THEN NativeStep(tool, args, m, f[m - 1]) ELSE f[i]]
  <2>2. \A i \in 0..m - 1 : g[i] = f[i]
    OBVIOUS
  <2>3. ASSUME NEW i \in 0..m
        PROVE  g[i] = IF i = 0 THEN Reading(<<>>, FALSE) ELSE NativeStep(tool, args, i, g[i - 1])
    <3>1. CASE i = m
      <4>1. m - 1 \in 0..m - 1 /\ m # 0
        OBVIOUS
      <4>2. g[m] = NativeStep(tool, args, m, f[m - 1])
        OBVIOUS
      <4> HIDE DEF g
      <4> QED
        BY <2>2, <3>1, <4>1, <4>2
    <3>2. CASE i # m
      <4>1. i \in 0..m - 1 /\ (i # 0 => i - 1 \in 0..m - 1)
        BY <3>2
      <4>2. f[i] = IF i = 0 THEN Reading(<<>>, FALSE) ELSE NativeStep(tool, args, i, f[i - 1])
        BY <2>1, <4>1
      <4> HIDE DEF g, IsRead
      <4> QED
        BY <2>2, <4>1, <4>2
    <3> QED
      BY <3>1, <3>2
  <2>4. IsRead(g, m)
    <3>1. g = [i \in 0..m |-> g[i]]
      OBVIOUS
    <3> HIDE DEF g
    <3> QED
      BY <2>3, <3>1
  <2> HIDE DEF IsRead, g
  <2> QED
    BY <2>4
<1> HIDE DEF S
<1>3. k \in S
  <2>1. \A m \in 0..k : m \in S
    BY <1>1, <1>2, InductionUpTo
  <2> QED
    BY <2>1
<1>4. IsRead(read, k)
  <2>1. \E f : IsRead(f, k)
    BY <1>3 DEF S
  <2>2. read = CHOOSE f : IsRead(f, k)
    BY DEF NativeReading
  <2> HIDE DEF IsRead
  <2> QED
    BY <2>1, <2>2
<1> HIDE DEF read
<1> QED
  BY <1>4 DEF ReadsBySteps, read

\* A host that decodes what the parser left leaves the input as it is.
LEMMA ParsedIsSettled ==
  ASSUME NEW tool, IsProps(tool.props), ~Blurred(tool), NEW args \in Seq(Arguments),
         ~(args # <<>> /\ args[1] = Flag(<<"json">>)),
         NEW parsed, parsed = NativeParse(tool, args), parsed.error = "none"
  PROVE  NormalizeStructured(tool, parsed.input) = parsed.input
<1> DEFINE n == Len(args)
           read == NativeReading(tool, args, n)
           end == read[n]
<1>1. n \in Nat
  OBVIOUS
<1>2. parsed = NativeOutcome(tool, end)
  BY DEF NativeParse, NativeReading
<1>3. ReadsBySteps(tool, args, n, read)
  BY <1>1, ReadingIs
<1> HIDE DEF read, n
<1>4. /\ read[0] = Reading(<<>>, FALSE)
      /\ \A i \in 1..n : read[i] = NativeStep(tool, args, i, read[i - 1])
  BY <1>3 DEF ReadsBySteps
<1> DEFINE S == {i \in 0..n : SettledReading(tool.props, read[i])}
<1>5. 0 \in S
  <2>1. SettledReading(tool.props, read[0])
    BY <1>4, NothingRead
  <2> QED
    BY <1>1, <2>1
<1>6. ASSUME NEW i \in 1..n, i - 1 \in S PROVE i \in S
  BY <1>1, <1>4, <1>6, StepSettles
<1>7. n \in S
  <2> HIDE DEF S
  <2>1. \A i \in 0..n : i \in S
    BY <1>1, <1>5, <1>6, InductionUpTo
  <2> QED
    BY <1>1, <2>1
<1>8. AllSettled(tool.props, end.input)
  BY <1>7 DEF SettledReading
<1>9. parsed.input = end.input
  <2> HIDE DEF end
  <2>1. \A kind : Rejected(kind).error = kind
    BY DEF Rejected
  <2>2. "parse" # "none" /\ "validation" # "none"
    OBVIOUS
  <2>3. parsed = Accepted(end.input)
    BY <1>2, <2>1, <2>2 DEF NativeOutcome
  <2> QED
    BY <2>3 DEF Accepted
<1> QED
  BY <1>8, <1>9, NormalAsIs

-----------------------------------------------------------------------------
(* Commands, help and wrappers *)

LEMMA AllAreOne ==
  ASSUME NEW S, NEW x \in S, \A y \in S : y = x
  PROVE  Cardinality(S) = 1
<1>1. S = {x}
  OBVIOUS
<1> QED
  BY <1>1, FS_Singleton

\* The provers do better with works when they are not told that it is a truth.
Decided(works) == works = TRUE \/ works = FALSE

\* A call by the bridge works when the tool does.
LEMMA ScriptCallIs ==
  ASSUME NEW tools, NEW i \in DOMAIN tools, NEW parsed, parsed.error = "none",
         NEW works, Decided(works)
  PROVE  ScriptCall(tools, tools[i], parsed, works) = Ran(tools[i], parsed.input, works)
<1> DEFINE r == Posted(tools[i].name)
           value == Value("string", "done")
           reply == LocalBridge(tools, r, value, works)
<1>1. ScriptCall(tools, tools[i], parsed, works) = Ran(tools[i], parsed.input, reply.status = 200)
  BY DEF ScriptCall
<1>2. CASE works = TRUE
  <2> HIDE DEF value
  <2>1. reply = Reply(200, ValueText(value))
    BY <1>2, BridgeWorks, ZenonT(60)
  <2> HIDE DEF reply
  <2>2. reply.status = 200
    BY <2>1, ReplyIs
  <2> QED
    BY <1>1, <1>2, <2>2
<1>3. CASE works = FALSE
  <2> HIDE DEF value
  <2>1. reply = Reply(500, PlainText(<<"error">>))
    BY <1>3, BridgeFails, ZenonT(60)
  <2> HIDE DEF reply
  <2>2. reply.status = 500
    BY <2>1, ReplyIs
  <2>3. ~(reply.status = 200)
    BY <2>2
  <2> QED
    BY <1>1, <1>3, <2>3 DEF Ran
<1> QED
  BY <1>2, <1>3 DEF Decided

AsksHelp(args) == {HelpFlag, Text("-h")} \cap ToSet(args) # {}

\* The two hosts make the same of the arguments after a subcommand.
LEMMA SameOnHosts ==
  ASSUME NEW tool, IsProps(tool.props), ~Blurred(tool), NEW args \in Seq(Arguments), NEW works
  PROVE  JustBashRun("typescript", tool, args, works) = JustBashRun("python", tool, args, works)
<1> DEFINE whole == args # <<>> /\ args[1] = Flag(<<"json">>)
           parsed == NativeParse(tool, args)
           ts == IF "typescript" = "typescript" /\ ~whole THEN NormalizeStructured(tool, parsed.input)
                 ELSE parsed.input
<1>1. JustBashRun("typescript", tool, args, works) =
        IF AsksHelp(args) THEN Said(0, "subcommand help")
        ELSE IF parsed.error # "none" THEN Said(2, parsed.error) ELSE Ran(tool, ts, works)
  BY DEF JustBashRun, JustBashCall, AsksHelp
<1>2. JustBashRun("python", tool, args, works) =
        IF AsksHelp(args) THEN Said(0, "subcommand help")
        ELSE IF parsed.error # "none" THEN Said(2, parsed.error) ELSE Ran(tool, parsed.input, works)
  BY DEF JustBashRun, JustBashCall, AsksHelp
<1>3. ASSUME parsed.error = "none" PROVE ts = parsed.input
  <2>1. CASE whole
    BY <2>1
  <2>2. CASE ~whole
    <3>1. ts = NormalizeStructured(tool, parsed.input)
      BY <2>2
    <3> HIDE DEF parsed, ts
    <3>2. NormalizeStructured(tool, parsed.input) = parsed.input
      BY <1>3, <2>2, ParsedIsSettled DEF parsed
    <3> QED
      BY <3>1, <3>2
  <2> QED
    BY <2>1, <2>2
<1> HIDE DEF parsed, ts
<1>4. CASE AsksHelp(args)
  BY <1>1, <1>2, <1>4, Zenon
<1>5. CASE ~AsksHelp(args) /\ parsed.error # "none"
  BY <1>1, <1>2, <1>5, Zenon
<1>6. CASE ~AsksHelp(args) /\ parsed.error = "none"
  BY <1>1, <1>2, <1>3, <1>6, Zenon
<1> QED
  BY <1>4, <1>5, <1>6, Zenon

\* And so does the script, of those that ask for help as its own does.
LEMMA SameInScript ==
  ASSUME NEW tools, NEW i \in DOMAIN tools, NEW args \in Seq(Arguments),
         IsProps(tools[i].props), Distinct(tools[i].props),
         ToSet(args) \cap (HelpTexts \cup {HelpFlag}) # {} => args[1] = HelpFlag,
         NEW works, Decided(works)
  PROVE  ScriptRun(tools, tools[i], args, works) = JustBashRun("python", tools[i], args, works)
<1> DEFINE tool == tools[i]
           parsed == NativeParse(tool, args)
<1>1. JustBashRun("python", tool, args, works) =
        IF AsksHelp(args) THEN Said(0, "subcommand help")
        ELSE IF parsed.error # "none" THEN Said(2, parsed.error) ELSE Ran(tool, parsed.input, works)
  BY DEF JustBashRun, JustBashCall, AsksHelp
<1>2. ScriptParse(tool, args) = parsed
  BY SameParse
<1>3. ScriptRun(tools, tool, args, works) =
        IF args # <<>> /\ args[1] \in {HelpFlag} \cup HelpTexts THEN Said(0, "subcommand help")
        ELSE ScriptCall(tools, tool, parsed, works)
  BY <1>2 DEF ScriptRun
<1>4. ScriptCall(tools, tool, parsed, works) =
        IF parsed.error # "none" THEN Said(2, parsed.error) ELSE Ran(tool, parsed.input, works)
  <2>1. CASE parsed.error # "none"
    BY <2>1 DEF ScriptCall
  <2>2. CASE parsed.error = "none"
    <3> HIDE DEF parsed
    <3>1. ScriptCall(tools, tools[i], parsed, works) = Ran(tools[i], parsed.input, works)
      BY <2>2, ScriptCallIs
    <3> QED
      BY <2>2, <3>1
  <2> QED
    BY <2>1, <2>2
<1>5. args # <<>> => args[1] \in ToSet(args)
  BY DEF ToSet
<1>6. args = <<>> => ToSet(args) = {}
  BY DEF ToSet
<1>7. (args # <<>> /\ args[1] \in {HelpFlag} \cup HelpTexts) <=> AsksHelp(args)
  <2>1. Text("-h") \in HelpTexts
    BY DEF HelpTexts
  <2>2. ASSUME args # <<>>, args[1] \in {HelpFlag} \cup HelpTexts PROVE AsksHelp(args)
    <3>1. args[1] = HelpFlag
      BY <1>5, <2>2
    <3> QED
      BY <1>5, <2>2, <3>1 DEF AsksHelp
  <2>3. ASSUME AsksHelp(args) PROVE args # <<>> /\ args[1] = HelpFlag
    BY <1>6, <2>1, <2>3 DEF AsksHelp
  <2> QED
    BY <2>2, <2>3
<1> HIDE DEF parsed
<1>8. CASE AsksHelp(args)
  BY <1>1, <1>3, <1>7, <1>8, Zenon
<1>9. CASE ~AsksHelp(args)
  <2>1. ~(args # <<>> /\ args[1] \in {HelpFlag} \cup HelpTexts)
    BY <1>7, <1>9
  <2>2. ScriptRun(tools, tool, args, works) = ScriptCall(tools, tool, parsed, works)
    BY <1>3, <2>1
  <2>3. CASE parsed.error # "none"
    BY <1>1, <1>4, <1>9, <2>2, <2>3, Zenon
  <2>4. CASE parsed.error = "none"
    BY <1>1, <1>4, <1>9, <2>2, <2>4, Zenon
  <2> QED
    BY <2>3, <2>4
<1> QED
  BY <1>8, <1>9, Zenon

Outcomes(tools, line, works, said) ==
    {JustBash(host, tools, line, works) : host \in {"typescript", "python"}}
    \cup {ScriptCommand(tools, line, works) : b \in {said} \cap {TRUE}}

SaysAsHelp(tools, line) ==
    /\ line.sub \in HelpNames \cup {Kebab(tools[i].name) : i \in DOMAIN tools}
    /\ ToSet(line.rest) \cap (HelpTexts \cup {HelpFlag}) # {} => line.rest[1] = HelpFlag

LEMMA AmongOutcomes ==
  ASSUME NEW tools, NEW line, NEW works, NEW x \in Outcomes(tools, line, works, SaysAsHelp(tools, line))
  PROVE  \/ x = JustBash("typescript", tools, line, works)
         \/ x = JustBash("python", tools, line, works)
         \/ SaysAsHelp(tools, line) /\ x = ScriptCommand(tools, line, works)
<1>1. CASE x \in {JustBash(host, tools, line, works) : host \in {"typescript", "python"}}
  BY <1>1
<1>2. CASE x \in {ScriptCommand(tools, line, works) : b \in {SaysAsHelp(tools, line)} \cap {TRUE}}
  BY <1>2
<1> QED
  BY <1>1, <1>2 DEF Outcomes

\* What a command is, from the tool its subcommand stands for.
LEMMA JustBashIs ==
  ASSUME NEW host \in {"typescript", "python"}, NEW tools, NEW line, NEW works, NEW tool,
         line.sub \notin HelpNames,
         PySubcommand(tools, line.sub) = {tool}, TsSubcommand(tools, line.sub) = {tool}
  PROVE  JustBash(host, tools, line, works) = JustBashRun(host, tool, line.rest, works)
<1> DEFINE answering == IF host = "typescript" THEN TsSubcommand(tools, line.sub)
                    ELSE PySubcommand(tools, line.sub)
<1>1. answering = {tool}
  OBVIOUS
<1>2. JustBash(host, tools, line, works) =
        IF line.sub \in HelpNames THEN Said(0, "help") ELSE IF answering = {} THEN Said(2, "parse")
        ELSE CHOOSE outcome \in {JustBashRun(host, t, line.rest, works) : t \in answering} : TRUE
  BY DEF JustBash
<1> HIDE DEF answering
<1>3. {JustBashRun(host, t, line.rest, works) : t \in answering} = {JustBashRun(host, tool, line.rest, works)}
  BY <1>1
<1> QED
  BY <1>1, <1>2, <1>3

LEMMA ScriptCommandIs ==
  ASSUME NEW tools, NEW line, NEW works, NEW tool, line.sub \notin HelpNames,
         ScriptSubcommand(tools, line.sub) = {tool}
  PROVE  ScriptCommand(tools, line, works) = ScriptRun(tools, tool, line.rest, works)
<1> DEFINE answering == ScriptSubcommand(tools, line.sub)
<1>1. answering = {tool}
  OBVIOUS
<1>2. ScriptCommand(tools, line, works) =
        IF line.sub \in HelpNames THEN Said(0, "help") ELSE IF answering = {} THEN Said(2, "parse")
        ELSE CHOOSE outcome \in {ScriptRun(tools, t, line.rest, works) : t \in answering} : TRUE
  BY DEF ScriptCommand
<1> HIDE DEF answering
<1>3. {ScriptRun(tools, t, line.rest, works) : t \in answering} = {ScriptRun(tools, tool, line.rest, works)}
  BY <1>1
<1> QED
  BY <1>1, <1>2, <1>3

\* The outcomes of a line are those of its python command.
LEMMA OneOutcome ==
  ASSUME NEW tools, IsToolset(tools), Unambiguous(tools), NEW line, line.rest \in Seq(Arguments),
         NEW works, Decided(works),
         \A tool \in PySubcommand(tools, line.sub) : ~Blurred(tool)
  PROVE  /\ JustBash("typescript", tools, line, works) = JustBash("python", tools, line, works)
         /\ SaysAsHelp(tools, line) => ScriptCommand(tools, line, works) = JustBash("python", tools, line, works)
<1>1. CASE line.sub \in HelpNames
  BY <1>1 DEF JustBash, ScriptCommand
<1>2. CASE line.sub \notin HelpNames /\ \A i \in DOMAIN tools : line.sub \notin Aliases(tools[i])
  <2>1. PySubcommand(tools, line.sub) = {} /\ TsSubcommand(tools, line.sub) = {}
        /\ ScriptSubcommand(tools, line.sub) = {}
    BY <1>2, NoneAnswers
  <2> QED
    BY <1>2, <2>1 DEF JustBash, ScriptCommand
<1>3. ASSUME line.sub \notin HelpNames, NEW i \in DOMAIN tools, line.sub \in Aliases(tools[i])
      PROVE  /\ JustBash("typescript", tools, line, works) = JustBash("python", tools, line, works)
             /\ SaysAsHelp(tools, line) => ScriptCommand(tools, line, works) = JustBash("python", tools, line, works)
  <2> DEFINE sub == line.sub
             rest == line.rest
             py == JustBash("python", tools, line, works)
  <2>1. /\ PySubcommand(tools, sub) = {tools[i]} /\ TsSubcommand(tools, sub) = {tools[i]}
        /\ sub \in {Kebab(tools[j].name) : j \in DOMAIN tools} => ScriptSubcommand(tools, sub) = {tools[i]}
    BY <1>3, OneAnswers
  <2>2. IsProps(tools[i].props) /\ Distinct(tools[i].props) /\ ~Blurred(tools[i])
    <3>1. tools[i] \in ToSet(tools)
      BY DEF ToSet
    <3> QED
      BY <2>1, <3>1 DEF IsToolset, IsProps, Unambiguous
  <2>3. py = JustBashRun("python", tools[i], rest, works)
    BY <1>3, <2>1, JustBashIs
  <2>4. JustBash("typescript", tools, line, works) = JustBashRun("typescript", tools[i], rest, works)
    BY <1>3, <2>1, JustBashIs
  <2>5. JustBashRun("typescript", tools[i], rest, works) = JustBashRun("python", tools[i], rest, works)
    BY <2>2, SameOnHosts
  <2>6. ASSUME SaysAsHelp(tools, line) PROVE ScriptCommand(tools, line, works) = py
    <3>1. /\ sub \in {Kebab(tools[j].name) : j \in DOMAIN tools}
          /\ ToSet(rest) \cap (HelpTexts \cup {HelpFlag}) # {} => rest[1] = HelpFlag
      BY <1>3, <2>6 DEF SaysAsHelp
    <3>2. ScriptCommand(tools, line, works) = ScriptRun(tools, tools[i], rest, works)
      BY <1>3, <2>1, <3>1, ScriptCommandIs
    <3>3. ScriptRun(tools, tools[i], rest, works) = JustBashRun("python", tools[i], rest, works)
      BY <2>2, <3>1, SameInScript
    <3> QED
      BY <2>3, <3>2, <3>3
  <2> QED
    BY <2>3, <2>4, <2>5, <2>6
<1> QED
  BY <1>1, <1>2, <1>3

LEMMA SameCommands ==
  ASSUME NEW tools, IsToolset(tools), NEW lines, \A line \in lines : line.rest \in Seq(Arguments)
  PROVE  CommandsAgree(tools, lines)
<1>1. ASSUME Unambiguous(tools), NEW line \in lines, NEW works, Decided(works)
      PROVE  \/ PySubcommand(tools, line.sub) # {}
                /\ Blurred(CHOOSE t \in PySubcommand(tools, line.sub) : TRUE)
             \/ Cardinality(Outcomes(tools, line, works, SaysAsHelp(tools, line))) = 1
  <2> DEFINE py == PySubcommand(tools, line.sub)
             outcomes == Outcomes(tools, line, works, SaysAsHelp(tools, line))
  <2> SUFFICES ASSUME ~(py # {} /\ Blurred(CHOOSE t \in py : TRUE)) PROVE Cardinality(outcomes) = 1
    OBVIOUS
  <2>1. \A tool \in py : ~Blurred(tool)
    <3>1. AtMostOne(py)
      <4>1. \A F : AtMostOne(FirstTool(tools, F))
        BY DEF FirstTool, AtMostOne
      <4> QED
        BY <4>1 DEF PySubcommand
    <3> HIDE DEF py
    <3>2. SUFFICES ASSUME NEW tool \in py PROVE ~Blurred(tool)
      OBVIOUS
    <3>3. py # {} /\ (CHOOSE t \in py : TRUE) = tool
      BY <3>1 DEF AtMostOne
    <3> QED
      BY <3>3
  <2>2. /\ JustBash("typescript", tools, line, works) = JustBash("python", tools, line, works)
        /\ SaysAsHelp(tools, line) => ScriptCommand(tools, line, works) = JustBash("python", tools, line, works)
    BY <1>1, <2>1, OneOutcome
  <2>3. \A x \in outcomes : x = JustBash("python", tools, line, works)
    BY <2>2, AmongOutcomes
  <2>4. JustBash("python", tools, line, works) \in outcomes
    BY DEF Outcomes
  <2> HIDE DEF outcomes
  <2> QED
    BY <2>3, <2>4, AllAreOne
<1> QED
  BY <1>1 DEF CommandsAgree, Outcomes, SaysAsHelp, Decided

LEMMA PlanIs ==
  ASSUME NEW kind, NEW mode, NEW tools, NEW plan \in Plan(kind, mode, tools)
  PROVE  /\ plan.help = FullHelp(kind, tools)
         /\ kind = "just-bash" => plan.commands = Commands(tools)
  BY DEF Plan

\* A function name that is an identifier is left as it is.
LEMMA LawfulIsSafe ==
  ASSUME NEW base \in Word, NEW reserved, Lawful(base, reserved)
  PROVE  SafeIdentifier(base, reserved) = base
<1> DEFINE clean == [i \in DOMAIN base |-> IF base[i] \in Others THEN "_" ELSE base[i]]
<1>1. base = [i \in DOMAIN base |-> base[i]]
  BY DEF Word
<1>2. \A i \in DOMAIN base : base[i] \notin Others
  BY DEF Lawful, ToSet
<1>3. clean = base
  BY <1>1, <1>2
<1>4. base # <<>> /\ base[1] \notin Digits /\ base \notin reserved
  BY DEF Lawful
<1>5. SafeIdentifier(base, reserved) =
        LET begun == IF clean = <<>> \/ clean[1] \in Digits THEN <<"_">> \o clean ELSE clean
        IN IF begun \in reserved THEN Append(begun, "_") ELSE begun
  BY DEF SafeIdentifier
<1> HIDE DEF clean
<1> QED
  BY <1>3, <1>4, <1>5

LEMMA UsableHelp ==
  ASSUME NEW tools, IsToolset(tools)
  PROVE  HelpIsUsable(tools)
<1>1. ASSUME Unambiguous(tools), NEW mode, NEW plan \in Plan("just-bash", mode, tools), NEW i \in DOMAIN tools
      PROVE  /\ plan.commands[i].command = plan.help[i].command
             /\ TsSubcommand(tools, plan.commands[i].command) = {tools[i]}
             /\ ScriptSubcommand(tools, plan.help[i].command) = {tools[i]}
  <2> DEFINE sub == Kebab(tools[i].name)
  <2>1. FullHelp("just-bash", tools) = Catalogue(tools)
    BY DEF FullHelp, IsShell
  <2>2. plan.help = Catalogue(tools) /\ plan.commands = Commands(tools)
    BY <2>1, PlanIs
  <2>3. Catalogue(tools)[i].command = sub /\ Commands(tools)[i].command = sub
    BY DEF Catalogue, Commands
  <2>4. sub \in Aliases(tools[i]) /\ sub \in {Kebab(tools[j].name) : j \in DOMAIN tools}
    BY KebabIsAlias
  <2> HIDE DEF sub
  <2>5. TsSubcommand(tools, sub) = {tools[i]} /\ ScriptSubcommand(tools, sub) = {tools[i]}
    BY <1>1, <2>4, OneAnswers
  <2> QED
    BY <2>2, <2>3, <2>5
<1>2. ASSUME NEW mode, NEW plan \in Plan("python", mode, tools), NEW i \in DOMAIN tools,
             Lawful(plan.help[i].name, PythonReserved)
      PROVE  plan.help[i].name = PythonIdentifier(tools[i].name)
  <2> DEFINE base == ToSnake(tools[i].name)
  <2>1. FullHelp("python", tools) = [j \in DOMAIN tools |-> HelpSignature("python", tools[j])]
    BY DEF FullHelp, IsShell
  <2>2. plan.help[i] = HelpSignature("python", tools[i])
    BY <2>1, PlanIs
  <2>3. HelpSignature("python", tools[i]).name = base
    BY DEF HelpSignature
  <2>4. plan.help[i].name = base
    BY <2>2, <2>3
  <2>5. base \in Word
    <3>1. tools[i] \in ToSet(tools)
      BY DEF ToSet
    <3>2. tools[i].name \in Seq(STRING)
      BY <3>1 DEF IsToolset
    <3> QED
      BY <3>2, NamesAreWords, ToSnakeIs
  <2> HIDE DEF base
  <2>6. SafeIdentifier(base, PythonReserved) = base
    BY <1>2, <2>4, <2>5, LawfulIsSafe
  <2> QED
    BY <2>4, <2>6 DEF base, PythonIdentifier
<1> QED
  BY <1>1, <1>2 DEF HelpIsUsable

LEMMA NamedIs ==
  ASSUME NEW tools, IsToolset(tools), NEW i \in DOMAIN tools
  PROVE  Named(tools, tools[i].name) = {tools[i]}
<1> DEFINE F == {t \in ToSet(tools) : t.name = tools[i].name}
<1>1. tools \in Seq(ToSet(tools))
  BY DEF IsToolset
<1>2. \A j \in DOMAIN tools : tools[j] \in ToSet(tools) /\ (tools[j].name = tools[i].name <=> j = i)
  BY DEF IsToolset, ToSet
<1>3. \A j \in DOMAIN tools : tools[j] \in F <=> j = i
  BY <1>2
<1> HIDE DEF F
<1>4. FirstTool(tools, F) = {tools[i]}
  BY <1>1, <1>3, OnlyTool
<1> QED
  BY <1>4 DEF Named, F

LEMMA CompleteWrappers ==
  ASSUME NEW tools, IsToolset(tools)
  PROVE  WrappersAreComplete(tools)
<1>1. ASSUME NEW i \in DOMAIN tools
      PROVE  \E schema \in GetToolSchema(tools, tools[i].name) : schema.params = tools[i].props
  <2>1. SchemaResponse(tools[i]).params = tools[i].props
    BY DEF SchemaResponse, FormatTool
  <2> QED
    BY <2>1, NamedIs DEF GetToolSchema
<1>2. ASSUME NEW i \in DOMAIN tools, NEW given \in SUBSET DOMAIN tools[i].props, NEW works, works = TRUE,
             NEW input, input = [p \in given |-> True]
      PROVE  InvokeTool(tools, tools[i].name, input, works).exit = 0 <=> tools[i].required \subseteq given
  <2> DEFINE outcome == InvokeTool(tools, tools[i].name, input, works)
  <2>1. Named(tools, tools[i].name) = {tools[i]} /\ (CHOOSE t \in {tools[i]} : TRUE) = tools[i]
    BY NamedIs
  <2>2. outcome = IF MissingFields(tools[i], input) # {} THEN Said(1, "error") ELSE Ran(tools[i], input, works)
    BY <2>1 DEF InvokeTool
  <2>3. MissingFields(tools[i], input) = tools[i].required \ given
    BY <1>2 DEF MissingFields
  <2>4. Said(1, "error").exit = 1
    BY DEF Said
  <2>5. Ran(tools[i], input, works).exit = 0
    BY <1>2 DEF Ran
  <2> HIDE DEF outcome
  <2>6. CASE tools[i].required \subseteq given
    <3>1. outcome = Ran(tools[i], input, works)
      BY <2>2, <2>3, <2>6
    <3>2. outcome.exit = 0
      BY <2>5, <3>1
    <3> QED
      BY <2>6, <3>2 DEF outcome
  <2>7. CASE ~(tools[i].required \subseteq given)
    <3>1. outcome = Said(1, "error")
      BY <2>2, <2>3, <2>7
    <3>2. outcome.exit # 0
      BY <2>4, <3>1
    <3> QED
      BY <2>7, <3>2 DEF outcome
  <2> QED
    BY <2>6, <2>7 DEF outcome
<1> QED
  BY <1>1, <1>2 DEF WrappersAreComplete

\* For any tools that a host has by name, and any lines and results: listings give every
\* tool away in part and the next call the rest of it, the three kinds of command run the
\* same tool with the same input, their help holds, wrappers reach every tool, and what a
\* tool returns becomes the same text, without loss, wherever it is shown
\* (compression/engine.rs, local_tools.ts, just_bash_commands.ts, just_bash_host.py,
\* ffi/host_transform.rs, server/compressed.rs).
THEOREM HostsAreAlike == Spec => []HostsAgree
<1>1. \A tools \in Described \cup Toolsets : ListingsAreEnough(tools)
  BY HostsAssumption, EnoughIsListed
<1>2. \A tools \in Toolsets :
         CommandsAgree(tools, HostLines) /\ HelpIsUsable(tools) /\ WrappersAreComplete(tools)
  BY HostsAssumption, SameCommands, UsableHelp, CompleteWrappers
<1>3. ResultsAgree(Returned) /\ ServerAndHostsAgree(Returned, Needing)
  BY SameResults, SameForServerAndHosts
<1>4. RewritingLosesNothing(ToolResults) /\ OneTextSuffices(ToolResults)
  BY HostsAssumption, NothingIsLost, OneTextIsEnough
<1>5. HostsAgree
  BY <1>1, <1>2, <1>3, <1>4 DEF HostsAgree
<1> QED
  BY <1>5, PTL

-----------------------------------------------------------------------------
(* The flags of a property *)

LEMMA ThenAgain ==
  ASSUME NEW A, NEW x \in Texts(A), NEW y \in Texts(A), NEW z \in Texts(A)
  PROVE  Then(Then(x, y), z) = Then(x, Then(y, z))
  BY ConcatAssociative DEF Texts, Then

\* m pieces and then k others.
AreJoined(both, s, t, m, k) ==
    (\A i \in 1..m : both[i] = s[i]) /\ \A j \in 1..k : both[m + j] = t[j]

LEMMA FlatJoined ==
  ASSUME NEW A, NEW m \in Nat, NEW k \in Nat,
         NEW s \in [1..m -> Texts(A)], NEW t \in [1..k -> Texts(A)],
         NEW both \in [1..m + k -> Texts(A)],
         AreJoined(both, s, t, m, k)
  PROVE  FlattenSeq(both) = Then(FlattenSeq(s), FlattenSeq(t))
<1>0. m + k \in Nat /\ m \in 0..m + k
  OBVIOUS
<1>1. PICK f \in [0..m -> Texts(A)] : AreBeginnings(f, s, m) /\ FlattenSeq(s) = f[m]
  BY FlatBeginnings
<1>2. PICK g \in [0..k -> Texts(A)] : AreBeginnings(g, t, k) /\ FlattenSeq(t) = g[k]
  BY FlatBeginnings
<1>3. PICK h \in [0..m + k -> Texts(A)] : AreBeginnings(h, both, m + k) /\ FlattenSeq(both) = h[m + k]
  BY <1>0, FlatBeginnings
<1>4. h[m] = f[m]
  <2>1. AreBeginnings(h, s, m)
    BY <1>3 DEF AreBeginnings, AreJoined
  <2>2. \A i \in 0..m : h[i] = f[i]
    BY <1>1, <2>1, SameBeginnings
  <2> QED
    BY <2>2
<1> DEFINE S == {j \in 0..k : h[m + j] = Then(f[m], g[j])}
<1>5. 0 \in S
  <2>1. h[m + 0] = f[m] /\ g[0] = NoText
    BY <1>2, <1>4 DEF AreBeginnings
  <2> QED
    BY <1>1, <2>1, ThenIs
<1>6. ASSUME NEW j \in 1..k, j - 1 \in S PROVE j \in S
  <2>1. m + j \in 1..m + k /\ (m + j) - 1 = m + (j - 1) /\ j - 1 \in 0..k
    OBVIOUS
  <2>2. h[m + j] = Then(h[m + (j - 1)], t[j])
    BY <1>3, <2>1 DEF AreBeginnings, AreJoined
  <2>3. h[m + (j - 1)] = Then(f[m], g[j - 1])
    BY <1>6
  <2>4. g[j] = Then(g[j - 1], t[j])
    BY <1>2 DEF AreBeginnings
  <2>5. f[m] \in Texts(A) /\ g[j - 1] \in Texts(A) /\ t[j] \in Texts(A)
    BY <2>1
  <2>6. h[m + j] = Then(f[m], g[j])
    BY <2>2, <2>3, <2>4, <2>5, ThenAgain
  <2> QED
    BY <2>6
<1> HIDE DEF S
<1>7. \A j \in 0..k : j \in S
  BY <1>5, <1>6, InductionUpTo
<1>8. h[m + k] = Then(f[m], g[k])
  BY <1>7 DEF S
<1> QED
  BY <1>1, <1>2, <1>3, <1>8

\* Words, dashes and underscores.
Signs == Letters \cup {"-"}
Name == Texts(Signs)

\* What is left of a word in a canonical name.
Reduced(word) == IF word \in Separators THEN <<>> ELSE <<Lowered(word)>>

LEMMA CanonicalIs ==
  ASSUME NEW name
  PROVE  Canonical(name) = FlattenSeq([i \in DOMAIN name |-> Reduced(name[i])])
  BY DEF Canonical, Reduced

LEMMA LoweredTwice ==
  ASSUME NEW word
  PROVE  /\ Lowered(Lowered(word)) = Lowered(word)
         /\ Lowered(word) \in Separators <=> word \in Separators
         /\ word \in Signs => Lowered(word) \in Signs
<1>1. \A w \in DOMAIN Lower : /\ w \notin Separators
                              /\ Lower[w] \notin DOMAIN Lower /\ Lower[w] \notin Separators
                              /\ Lower[w] \in Signs
  BY DEF Lower, Separators, Signs, Letters
<1> QED
  BY <1>1 DEF Lowered, IsCapital

LEMMA ReducedIs ==
  ASSUME NEW word \in Signs
  PROVE  /\ Reduced(word) \in Name /\ Reduced(Lowered(word)) = Reduced(word)
<1>1. Lowered(word) \in Signs
  BY LoweredTwice
<1>2. Reduced(word) \in Name
  BY <1>1, ShortTexts DEF Reduced, Name, NoText
<1> QED
  BY <1>2, LoweredTwice DEF Reduced

LEMMA NameIs ==
  ASSUME NEW name \in Name
  PROVE  Len(name) \in Nat /\ DOMAIN name = 1..Len(name) /\ \A i \in 1..Len(name) : name[i] \in Signs
  BY LenProperties, ElementOfSeq DEF Name, Texts

LEMMA NamesAre == ASSUME NEW name \in Seq(STRING) PROVE name \in Name
<1>1. /\ Len(name) \in Nat /\ name \in [1..Len(name) -> STRING]
      /\ \A i \in 1..Len(name) : name[i] \in STRING
  BY LenProperties, ElementOfSeq
<1>2. name \in [1..Len(name) -> Signs]
  BY <1>1 DEF Signs, Letters
<1> QED
  BY <1>1, <1>2, IsASeq DEF Name, Texts

LEMMA CanonicalName ==
  ASSUME NEW name \in Name
  PROVE  [i \in DOMAIN name |-> Reduced(name[i])] \in [1..Len(name) -> Name]
  BY NameIs, ReducedIs

\* Canonical takes a name to pieces.
LEMMA CanonicalJoined ==
  ASSUME NEW x \in Name, NEW y \in Name
  PROVE  Canonical(Then(x, y)) = Then(Canonical(x), Canonical(y))
<1> DEFINE Pieces(name) == [i \in DOMAIN name |-> Reduced(name[i])]
           both == Then(x, y)
           m == Len(x)
           k == Len(y)
<1>1. m \in Nat /\ k \in Nat /\ DOMAIN x = 1..m /\ DOMAIN y = 1..k
  BY NameIs
<1>2. /\ both \in Name /\ Len(both) = m + k
      /\ \A i \in 1..m + k : both[i] = IF i <= m THEN x[i] ELSE y[i - m]
  BY ConcatProperties DEF Name, Texts, Then
<1>3. DOMAIN both = 1..m + k
  BY <1>2, NameIs
<1> HIDE DEF both
<1>4. \A i \in 1..m : Pieces(both)[i] = Pieces(x)[i]
  BY <1>1, <1>2, <1>3
<1>5. \A j \in 1..k : Pieces(both)[m + j] = Pieces(y)[j]
  <2> SUFFICES ASSUME NEW j \in 1..k PROVE Pieces(both)[m + j] = Pieces(y)[j]
    OBVIOUS
  <2>1. m + j \in 1..m + k /\ ~(m + j <= m) /\ (m + j) - m = j
    BY <1>1
  <2>2. both[m + j] = y[j]
    BY <1>2, <2>1
  <2> QED
    BY <1>1, <1>3, <2>1, <2>2
<1>6. /\ Pieces(x) \in [1..m -> Texts(Signs)] /\ Pieces(y) \in [1..k -> Texts(Signs)]
      /\ Pieces(both) \in [1..m + k -> Texts(Signs)]
  BY <1>2, CanonicalName DEF Name
<1> DEFINE of1 == Pieces(x)
           of2 == Pieces(y)
           of3 == Pieces(both)
<1>7. /\ AreJoined(of3, of1, of2, m, k)
      /\ of1 \in [1..m -> Texts(Signs)] /\ of2 \in [1..k -> Texts(Signs)] /\ of3 \in [1..m + k -> Texts(Signs)]
  BY <1>4, <1>5, <1>6 DEF AreJoined
<1>8. /\ Canonical(x) = FlattenSeq(of1) /\ Canonical(y) = FlattenSeq(of2)
      /\ Canonical(both) = FlattenSeq(of3)
  BY CanonicalIs
<1> HIDE DEF Pieces, of1, of2, of3, m, k
<1>9. FlattenSeq(of3) = Then(FlattenSeq(of1), FlattenSeq(of2))
  BY <1>1, <1>7, FlatJoined
<1> QED
  BY <1>8, <1>9 DEF both

LEMMA CanonicalShort ==
  /\ Canonical(NoText) = NoText
  /\ \A w \in Signs : Canonical(<<w>>) = Reduced(w)
<1>1. ASSUME NEW x \in Name, Len(x) = 0 PROVE Canonical(x) = NoText
  <2> DEFINE pieces == [i \in DOMAIN x |-> Reduced(x[i])]
  <2>1. DOMAIN x = 1..0
    BY <1>1, NameIs
  <2>2. pieces = NoText
    BY <2>1 DEF NoText
  <2>3. FlattenSeq(NoText) = NoText
    BY DEF FlattenSeq, NoText
  <2> QED
    BY <2>2, <2>3, CanonicalIs
<1>2. ASSUME NEW w \in Signs PROVE Canonical(<<w>>) = Reduced(w)
  <2> DEFINE pieces == [i \in DOMAIN <<w>> |-> Reduced(<<w>>[i])]
  <2>1. pieces \in [1..1 -> Texts(Signs)] /\ pieces[1] = Reduced(w)
    BY ReducedIs DEF Name
  <2>0. 1 \in Nat /\ Canonical(<<w>>) = FlattenSeq(pieces)
    BY CanonicalIs
  <2> HIDE DEF pieces
  <2>2. PICK f \in [0..1 -> Texts(Signs)] : AreBeginnings(f, pieces, 1) /\ FlattenSeq(pieces) = f[1]
    BY <2>0, <2>1, FlatBeginnings
  <2>3. f[1] = Then(NoText, Reduced(w))
    <3>1. 1 \in 1..1 /\ 1 - 1 = 0
      OBVIOUS
    <3>2. f[0] = NoText /\ f[1] = Then(f[1 - 1], pieces[1])
      BY <2>2, <3>1 DEF AreBeginnings
    <3> QED
      BY <2>1, <3>1, <3>2
  <2>4. f[1] = Reduced(w)
    BY <2>3, ReducedIs, ThenIs DEF Name
  <2> QED
    BY <2>0, <2>2, <2>4
<1>3. NoText \in Name /\ Len(NoText) = 0
  BY ThenIs DEF Name, NoText
<1> QED
  BY <1>1, <1>2, <1>3

\* What Kebab makes of a word at i.
KebabPiece(name, i) ==
    IF name[i] = "_" THEN <<"-">>
    ELSE IF IsCapital(name[i]) /\ i > 1 /\ name[i - 1] \notin Separators
         THEN <<"-", Lowered(name[i])>>
    ELSE <<Lowered(name[i])>>

LEMMA KebabPieceIs ==
  ASSUME NEW name \in Name, NEW i \in 1..Len(name)
  PROVE  KebabPiece(name, i) \in Name /\ Canonical(KebabPiece(name, i)) = Reduced(name[i])
<1> DEFINE w == name[i]
           low == Lowered(w)
<1>1. w \in Signs /\ low \in Signs /\ "-" \in Signs
  BY NameIs, LoweredTwice DEF Signs
<1>2. /\ <<"-">> \in Name /\ <<low>> \in Name /\ <<"-", low>> \in Name
  BY <1>1, ShortTexts DEF Name
<1>3. Canonical(<<"-">>) = NoText
  BY <1>1, CanonicalShort DEF Reduced, Separators, NoText
<1>4. Canonical(<<low>>) = Reduced(w)
  BY <1>1, CanonicalShort, ReducedIs
<1>5. CASE w = "_"
  <2>1. Reduced(w) = NoText /\ KebabPiece(name, i) = <<"-">>
    BY <1>5 DEF Reduced, Separators, NoText, KebabPiece
  <2> QED
    BY <1>2, <1>3, <2>1
<1>6. CASE KebabPiece(name, i) = <<low>>
  BY <1>2, <1>4, <1>6
<1>7. CASE KebabPiece(name, i) = <<"-", low>>
  <2>1. <<"-", low>> = Then(<<"-">>, <<low>>)
    BY DEF Then
  <2>2. Canonical(<<"-", low>>) = Then(NoText, Reduced(w))
    BY <1>2, <1>3, <1>4, <2>1, CanonicalJoined
  <2>3. Reduced(w) \in Name
    BY <1>1, ReducedIs
  <2> QED
    BY <1>2, <1>7, <2>2, <2>3, ThenIs DEF Name
<1> QED
  BY <1>5, <1>6, <1>7 DEF KebabPiece

\* A name's flag differs from it in case and separators only.
LEMMA KebabIs ==
  ASSUME NEW name \in Name
  PROVE  Kebab(name) \in Name /\ Canonical(Kebab(name)) = Canonical(name)
<1> DEFINE n == Len(name)
           pieces == [i \in DOMAIN name |-> KebabPiece(name, i)]
           rest == [i \in DOMAIN name |-> Reduced(name[i])]
<1>1. n \in Nat /\ DOMAIN name = 1..n /\ \A i \in 1..n : name[i] \in Signs
  BY NameIs
<1>2. Kebab(name) = FlattenSeq(pieces) /\ Canonical(name) = FlattenSeq(rest)
  BY CanonicalIs DEF Kebab, KebabPiece
<1>3. /\ pieces \in [1..n -> Texts(Signs)] /\ rest \in [1..n -> Texts(Signs)]
      /\ \A i \in 1..n : rest[i] = Canonical(pieces[i])
  <2>1. ASSUME NEW i \in 1..n
        PROVE  KebabPiece(name, i) \in Texts(Signs) /\ Reduced(name[i]) \in Texts(Signs)
               /\ Reduced(name[i]) = Canonical(KebabPiece(name, i))
    BY <1>1, KebabPieceIs, ReducedIs DEF Name
  <2> QED
    BY <1>1, <2>1
<1> HIDE DEF n, pieces, rest
<1>4. PICK f \in [0..n -> Texts(Signs)] : AreBeginnings(f, pieces, n) /\ FlattenSeq(pieces) = f[n]
  BY <1>1, <1>3, FlatBeginnings
<1>5. PICK g \in [0..n -> Texts(Signs)] : AreBeginnings(g, rest, n) /\ FlattenSeq(rest) = g[n]
  BY <1>1, <1>3, FlatBeginnings
<1> DEFINE S == {i \in 0..n : Canonical(f[i]) = g[i]}
<1>6. 0 \in S
  <2>1. f[0] = NoText /\ g[0] = NoText
    BY <1>4, <1>5 DEF AreBeginnings
  <2> QED
    BY <1>1, <2>1, CanonicalShort
<1>7. ASSUME NEW i \in 1..n, i - 1 \in S PROVE i \in S
  <2>1. f[i] = Then(f[i - 1], pieces[i]) /\ g[i] = Then(g[i - 1], rest[i])
    BY <1>4, <1>5 DEF AreBeginnings
  <2>2. i - 1 \in 0..n /\ f[i - 1] \in Name /\ pieces[i] \in Name
    BY <1>1, <1>3 DEF Name
  <2>3. Canonical(f[i]) = Then(Canonical(f[i - 1]), Canonical(pieces[i]))
    BY <2>1, <2>2, CanonicalJoined
  <2> QED
    BY <1>3, <1>7, <2>1, <2>3
<1> HIDE DEF S
<1>8. \A i \in 0..n : i \in S
  BY <1>1, <1>6, <1>7, InductionUpTo
<1>9. Canonical(f[n]) = g[n] /\ f[n] \in Name
  BY <1>1, <1>8 DEF S, Name
<1> QED
  BY <1>2, <1>4, <1>5, <1>9

\* So a property's flag resolves to it, when names resolve in one way only.
LEMMA FlagResolves ==
  ASSUME NEW props, IsProps(props), Distinct(props), NEW p \in DOMAIN props
  PROVE  NativeResolve(props, Kebab(p)) = {p}
<1> DEFINE flag == Kebab(p)
           alike == {q \in DOMAIN props : Canonical(q) = Canonical(Snake(flag))}
<1>1. Canonical(Snake(flag)) = Canonical(p)
  <2>1. p \in Name
    BY NamesAre DEF IsProps
  <2> QED
    BY <2>1, KebabIs, SameCanonical
<1>2. \A q \in DOMAIN props : Canonical(q) = Canonical(p) => q = p
  BY DEF Distinct
<1>3. alike = {p}
  BY <1>1, <1>2
<1>4. Snake(flag) \in DOMAIN props => Snake(flag) = p
  BY <1>1, <1>2
<1> HIDE DEF alike
<1>5. NativeResolve(props, flag) = IF Snake(flag) \in DOMAIN props THEN {Snake(flag)}
          ELSE IF alike = {} THEN {} ELSE {CHOOSE q \in alike : TRUE}
  BY DEF NativeResolve, alike
<1> QED
  BY <1>3, <1>4, <1>5

-----------------------------------------------------------------------------
(* Lines that are a flag, with its text or without, or two of them *)

\* What is read between two flags, and between a flag and its text.
Between(input) == Reading(input, FALSE)
Halfway(input) == Reading(input, TRUE)
After(operand, input) == IF operand = {} THEN Between(input) ELSE Halfway(input)
NoInput == <<>>

\* What a flag gives a property of some schema.
FlagValues(schema, name, operand) ==
    IF Negated(name) THEN IF TypeOf(schema) = "boolean" THEN {False} ELSE {}
    ELSE IF TypeOf(schema) # "boolean" /\ operand = {} THEN {}
    ELSE NativeCoerce(schema, operand)

\* That a flag gives the property p the value w.
Gives(tool, name, operand, p, w) ==
    /\ name # <<>> /\ NativeResolve(tool.props, Positive(name)) = {p}
    /\ FlagValues(tool.props[p], name, operand) = {w} /\ NativeEnum(tool.props[p], w)

LEMMA FlagStep ==
  ASSUME NEW tool, NEW args, NEW i, NEW name, args[i] = Flag(name), NEW operand,
         operand = IF Negated(name) THEN {} ELSE Operand(args, i),
         NEW p, NEW w, Gives(tool, name, operand, p, w), NEW input
  PROVE  NativeStep(tool, args, i, Between(input)) = After(operand, NativeInsert(input, p, tool.props[p], w))
<1> DEFINE props == tool.props
           Made(v) == [property |-> p, value |-> v, takes |-> operand # {}]
           flags == NativeFlag(props, args, i)
           valid == {r \in flags : NativeEnum(props[r.property], r.value)}
           read == Between(input)
           new == NativeInsert(input, p, props[p], w)
<1>1. args[i].flag = TRUE /\ args[i].name = name /\ name # <<>>
  <2>1. Flag(name).flag = TRUE /\ Flag(name).name = name
    BY DEF Flag
  <2>2. name # <<>>
    BY DEF Gives
  <2> QED
    BY <2>1, <2>2
<1>2. NativeResolve(props, Positive(name)) = {p} /\ FlagValues(props[p], name, operand) = {w}
      /\ NativeEnum(props[p], w)
  BY DEF Gives
<1>3. flags = {Made(w)}
  <2>1. flags = {[property |-> q, value |-> v, takes |-> operand # {}] :
                    q \in NativeResolve(props, Positive(name)),
                    v \in UNION {FlagValues(props[q], name, operand) : q \in NativeResolve(props, Positive(name))}}
    BY <1>1 DEF NativeFlag, FlagValues
  <2>2. UNION {FlagValues(props[q], name, operand) : q \in NativeResolve(props, Positive(name))} = {w}
    BY <1>2
  <2> QED
    BY <1>2, <2>1, <2>2
<1>4. Made(w).property = p /\ Made(w).value = w /\ Made(w).takes = (operand # {})
  OBVIOUS
<1> HIDE DEF Made, flags
<1>5. valid = {Made(w)}
  BY <1>2, <1>3, <1>4
<1>6. read.wrong = FALSE /\ read.taken = FALSE /\ read.input = input
  BY DEF Reading, Between
<1> HIDE DEF read, new
<1>7. NativeStep(tool, args, i, read) = NativeTake(props, input, valid)
  BY <1>6 DEF NativeStep, flags
<1>8. (CHOOSE r \in valid : TRUE) = Made(w) /\ valid # {}
  <2> HIDE DEF valid
  <2> QED
    BY <1>5
<1>9. NativeTake(props, input, valid) = After(operand, new)
  <2> HIDE DEF valid
  <2> QED
    BY <1>4, <1>8 DEF NativeTake, Reading, Between, Halfway, After, new
<1> QED
  BY <1>7, <1>9 DEF read, new

\* An argument that a flag has taken.
LEMMA TakenStep ==
  ASSUME NEW tool, NEW args, NEW i, NEW input
  PROVE  NativeStep(tool, args, i, Halfway(input)) = Between(input)
<1>1. PICK no, yes : no = FALSE /\ yes = TRUE
  OBVIOUS
<1>2. [[wrong |-> no, taken |-> yes, input |-> input] EXCEPT !.taken = no]
         = [wrong |-> no, taken |-> no, input |-> input]
  OBVIOUS
<1>3. Halfway(input) = [wrong |-> no, taken |-> yes, input |-> input]
  BY <1>1 DEF Reading, Halfway
<1>4. Between(input) = [wrong |-> no, taken |-> no, input |-> input]
  BY <1>1 DEF Reading, Between
<1>5. [Halfway(input) EXCEPT !.taken = FALSE] = Between(input)
  BY <1>1, <1>2, <1>3, <1>4
<1>6. Halfway(input).wrong = FALSE /\ Halfway(input).taken = TRUE
  BY DEF Reading, Halfway
<1> QED
  BY <1>5, <1>6 DEF NativeStep

\* A line's arguments one by one.
Reads(tool, args, k, read) ==
    /\ read[0] = Between(NoInput)
    /\ \A i \in 1..k : read[i] = NativeStep(tool, args, i, read[i - 1])

LEMMA ReadThrough ==
  ASSUME NEW tool, NEW args, Len(args) \in Nat, ~(args # <<>> /\ args[1] = Flag(<<"json">>))
  PROVE  \E read : /\ Reads(tool, args, Len(args), read)
                   /\ NativeParse(tool, args) = NativeOutcome(tool, read[Len(args)])
<1> DEFINE read == NativeReading(tool, args, Len(args))
<1>1. NativeParse(tool, args) = NativeOutcome(tool, read[Len(args)])
  BY DEF NativeParse, NativeReading
<1>2. ReadsBySteps(tool, args, Len(args), read)
  BY ReadingIs
<1> HIDE DEF read
<1>3. Reads(tool, args, Len(args), read)
  BY <1>2 DEF ReadsBySteps, Reads, Between, NoInput
<1> QED
  BY <1>1, <1>3

\* An input with nothing but one property.
Only(p, v) == Put(NoInput, p, v)

LEMMA OnlyIs ==
  ASSUME NEW p, NEW v
  PROVE  /\ DOMAIN Only(p, v) = {p} /\ Only(p, v)[p] = v
         /\ \A w : Put(Only(p, v), p, w) = Only(p, w)
<1>1. DOMAIN NoInput = {}
  BY DEF NoInput
<1>2. \A w : Only(p, w) = [q \in {p} |-> w]
  BY <1>1 DEF Only, Put
<1> QED
  BY <1>2 DEF Put

\* What is left of a line that gave p a value.
OnlyNeeds(tool, p) == tool.required = {p}
LEMMA OutcomeIs ==
  ASSUME NEW tool, NEW p, OnlyNeeds(tool, p), NEW v
  PROVE  NativeOutcome(tool, Between(Only(p, v))) = Accepted(Only(p, v))
<1>1. Between(Only(p, v)).wrong = FALSE /\ Between(Only(p, v)).input = Only(p, v)
  BY DEF Reading, Between
<1>2. tool.required \subseteq DOMAIN Only(p, v)
  BY OnlyIs DEF OnlyNeeds
<1> QED
  BY <1>1, <1>2 DEF NativeOutcome

\* The value that p has once w is given to it, and once x is, too.
Settled(schema, w) ==
    IF TypeOf(schema) = "array" THEN Array(IF w.type = "array" THEN w.items ELSE <<w>>) ELSE w

\* A value that is no array of several, where the schema is one of arrays.
OneItem(schema, w) == TypeOf(schema) = "array" /\ w.type = "array" => \E x : w.items = <<x>>

LEMMA InsertIs ==
  ASSUME NEW p, NEW schema, NEW w, OneItem(schema, w)
  PROVE  NativeInsert(NoInput, p, schema, w) = Only(p, Settled(schema, w))
<1>1. p \notin DOMAIN NoInput
  BY DEF NoInput
<1> DEFINE added == IF w.type = "array" THEN w.items ELSE <<w>>
<1>2. TypeOf(schema) = "array" => <<>> \o added = added
  <2>1. TypeOf(schema) = "array" => \E x : added = <<x>>
    BY DEF OneItem
  <2>2. \A x : <<>> \o <<x>> = <<x>>
    OBVIOUS
  <2> QED
    BY <2>1, <2>2
<1> QED
  BY <1>1, <1>2 DEF NativeInsert, Only, Settled

LEMMA TwoJoined == ASSUME NEW x, NEW y PROVE <<x>> \o <<y>> = <<x, y>>
<1> DEFINE both == <<x>> \o <<y>>
<1>1. <<x>> \in Seq({x, y}) /\ <<y>> \in Seq({x, y}) /\ <<x, y>> \in Seq({x, y})
  OBVIOUS
<1>2. /\ both \in Seq({x, y}) /\ Len(both) = 2 /\ both[1] = x /\ both[2] = y
  BY <1>1, ConcatProperties
<1>3. Len(<<x, y>>) = 2 /\ <<x, y>>[1] = x /\ <<x, y>>[2] = y
  OBVIOUS
<1> HIDE DEF both
<1>4. both = <<x, y>>
  BY <1>1, <1>2, <1>3, SeqEqual
<1> QED
  BY <1>4 DEF both

LEMMA InsertAgain ==
  ASSUME NEW p, NEW schema, NEW w, NEW x, TypeOf(schema) = "array", w.type # "array", x.type # "array"
  PROVE  NativeInsert(Only(p, Settled(schema, w)), p, schema, x) = Only(p, Array(<<w, x>>))
<1> DEFINE v == Settled(schema, w)
<1>1. v = Array(<<w>>)
  BY DEF Settled
<1>2. p \in DOMAIN Only(p, v) /\ Only(p, v)[p].items = <<w>>
  <2>1. Array(<<w>>).items = <<w>>
    BY DEF Array
  <2>2. DOMAIN Only(p, v) = {p} /\ Only(p, v)[p] = v
    BY OnlyIs
  <2> HIDE DEF v
  <2> QED
    BY <1>1, <2>1, <2>2
<1>3. <<w>> \o <<x>> = <<w, x>>
  BY TwoJoined
<1>4. NativeInsert(Only(p, v), p, schema, x) = Put(Only(p, v), p, Array(<<w, x>>))
  BY <1>2, <1>3 DEF NativeInsert
<1> QED
  BY <1>4, OnlyIs, ZenonT(60)

StandsAlone(args, i, name) == args[i] = Flag(name) /\ (Negated(name) \/ Operand(args, i) = {})
LEMMA BareStep ==
  ASSUME NEW tool, NEW args, NEW i, NEW name, StandsAlone(args, i, name),
         NEW p, NEW w, Gives(tool, name, {}, p, w), NEW input
  PROVE  NativeStep(tool, args, i, Between(input)) = Between(NativeInsert(input, p, tool.props[p], w))
<1> DEFINE operand == IF Negated(name) THEN {} ELSE Operand(args, i)
<1>1. operand = {} /\ args[i] = Flag(name)
  BY DEF StandsAlone
<1>0. operand = IF Negated(name) THEN {} ELSE Operand(args, i)
  OBVIOUS
<1> HIDE DEF operand
<1>2. Gives(tool, name, operand, p, w)
  BY <1>1
<1>3. NativeStep(tool, args, i, Between(input)) = After(operand, NativeInsert(input, p, tool.props[p], w))
  BY <1>0, <1>1, <1>2, FlagStep
<1> QED
  BY <1>1, <1>3 DEF After

LEMMA TextStep ==
  ASSUME NEW tool, NEW args, NEW i, NEW name, args[i] = Flag(name), ~Negated(name),
         NEW t, Operand(args, i) = {t},
         NEW p, NEW w, Gives(tool, name, {t}, p, w), NEW input
  PROVE  NativeStep(tool, args, i, Between(input)) = Halfway(NativeInsert(input, p, tool.props[p], w))
<1> DEFINE operand == IF Negated(name) THEN {} ELSE Operand(args, i)
<1>1. operand = {t} /\ operand # {}
  OBVIOUS
<1>0. operand = IF Negated(name) THEN {} ELSE Operand(args, i)
  OBVIOUS
<1> HIDE DEF operand
<1>2. Gives(tool, name, operand, p, w)
  BY <1>1
<1>3. NativeStep(tool, args, i, Between(input)) = After(operand, NativeInsert(input, p, tool.props[p], w))
  BY <1>0, <1>2, FlagStep
<1> QED
  BY <1>1, <1>3 DEF After

LEMMA FlagsDiffer == ASSUME NEW name, NEW other, name # other PROVE Flag(name) # Flag(other)
<1>1. Flag(name).name = name /\ Flag(other).name = other
  BY DEF Flag
<1> QED
  BY <1>1

NotJson(name) == name # <<"json">>

\* A flag without a text.
LEMMA BareFlag ==
  ASSUME NEW tool, NEW name, NotJson(name), NEW p, OnlyNeeds(tool, p), NEW w, Gives(tool, name, {}, p, w),
         OneItem(tool.props[p], w)
  PROVE  NativeParse(tool, <<Flag(name)>>) = Accepted(Only(p, Settled(tool.props[p], w)))
<1> DEFINE args == <<Flag(name)>>
           v == Settled(tool.props[p], w)
<1>1. Len(args) = 1 /\ args[1] = Flag(name)
  OBVIOUS
<1>2. Operand(args, 1) = {}
  <2>1. ~(1 < Len(args))
    BY <1>1
  <2> HIDE DEF args
  <2> QED
    BY <2>1 DEF Operand
<1> HIDE DEF args, v
<1>3. args[1] # Flag(<<"json">>)
  BY <1>1, FlagsDiffer DEF NotJson
<1>4. PICK read : Reads(tool, args, 1, read) /\ NativeParse(tool, args) = NativeOutcome(tool, read[1])
  <2>1. ~(args # <<>> /\ args[1] = Flag(<<"json">>)) /\ Len(args) \in Nat
    BY <1>1, <1>3
  <2>2. \E read : /\ Reads(tool, args, Len(args), read)
                  /\ NativeParse(tool, args) = NativeOutcome(tool, read[Len(args)])
    BY <2>1, ReadThrough
  <2> QED
    BY <1>1, <2>2
<1>5. read[0] = Between(NoInput) /\ read[1] = NativeStep(tool, args, 1, read[0])
  BY <1>4 DEF Reads
<1>6. read[1] = Between(NativeInsert(NoInput, p, tool.props[p], w))
  <2>1. NativeStep(tool, args, 1, Between(NoInput)) = Between(NativeInsert(NoInput, p, tool.props[p], w))
    <3>1. PICK i, input : i = 1 /\ input = NoInput
      OBVIOUS
    <3>2. StandsAlone(args, i, name)
      BY <1>1, <1>2, <3>1 DEF StandsAlone
    <3>3. NativeStep(tool, args, i, Between(input)) = Between(NativeInsert(input, p, tool.props[p], w))
      BY <3>2, BareStep
    <3> QED
      BY <3>1, <3>3
  <2> QED
    BY <1>5, <2>1
<1>7. NativeInsert(NoInput, p, tool.props[p], w) = Only(p, v)
  BY InsertIs DEF v
<1>8. read[1] = Between(Only(p, v))
  BY <1>6, <1>7
<1> QED
  BY <1>4, <1>8, OutcomeIs DEF args, v

LEMMA TextIsOperand ==
  ASSUME NEW args, NEW i, i < Len(args), NEW t, args[i + 1] = Text(t)
  PROVE  Operand(args, i) = {t}
<1>1. Text(t).flag = FALSE /\ Text(t).text = t
  BY DEF Text
<1> QED
  BY <1>1 DEF Operand

\* What a flag and its text come to at the beginning of a line.
StartsWith(args, name, t) == args[1] = Flag(name) /\ Operand(args, 1) = {t}
LEMMA FirstFlag ==
  ASSUME NEW tool, NEW name, ~Negated(name), NEW p, NEW t, NEW w, Gives(tool, name, {t}, p, w),
         OneItem(tool.props[p], w), NEW args, StartsWith(args, name, t),
         NEW k \in Nat, k >= 2, NEW read, Reads(tool, args, k, read)
  PROVE  read[2] = Between(Only(p, Settled(tool.props[p], w)))
<1> DEFINE v == Settled(tool.props[p], w)
<1>1. /\ read[0] = Between(NoInput) /\ read[1] = NativeStep(tool, args, 1, read[0])
      /\ read[2] = NativeStep(tool, args, 2, read[1])
  BY DEF Reads
<1>2. read[1] = Halfway(NativeInsert(NoInput, p, tool.props[p], w))
  <2>1. NativeStep(tool, args, 1, Between(NoInput)) = Halfway(NativeInsert(NoInput, p, tool.props[p], w))
    <3>1. PICK i, input : i = 1 /\ input = NoInput
      OBVIOUS
    <3>2. args[i] = Flag(name) /\ Operand(args, i) = {t}
      BY <3>1 DEF StartsWith
    <3>3. NativeStep(tool, args, i, Between(input)) = Halfway(NativeInsert(input, p, tool.props[p], w))
      BY <3>2, TextStep
    <3> QED
      BY <3>1, <3>3
  <2> QED
    BY <1>1, <2>1
<1>3. NativeInsert(NoInput, p, tool.props[p], w) = Only(p, v)
  BY InsertIs DEF v
<1> HIDE DEF v
<1>4. read[2] = Between(Only(p, v))
  BY <1>1, <1>2, <1>3, TakenStep
<1> QED
  BY <1>4 DEF v

\* A flag and its text.
LEMMA FlagAndText ==
  ASSUME NEW tool, NEW name, NotJson(name), ~Negated(name), NEW p, OnlyNeeds(tool, p),
         NEW t, NEW w, Gives(tool, name, {t}, p, w),
         OneItem(tool.props[p], w)
  PROVE  NativeParse(tool, <<Flag(name), Text(t)>>) = Accepted(Only(p, Settled(tool.props[p], w)))
<1> DEFINE args == <<Flag(name), Text(t)>>
           v == Settled(tool.props[p], w)
<1>1. Len(args) = 2 /\ args[1] = Flag(name) /\ args[1 + 1] = Text(t)
  OBVIOUS
<1> HIDE DEF args, v
<1>2. Operand(args, 1) = {t}
  <2>1. PICK i : i = 1
    OBVIOUS
  <2>2. i < Len(args) /\ args[i + 1] = Text(t)
    BY <1>1, <2>1
  <2>3. Operand(args, i) = {t}
    BY <2>2, TextIsOperand
  <2> QED
    BY <2>1, <2>3
<1>3. args[1] # Flag(<<"json">>)
  BY <1>1, FlagsDiffer DEF NotJson
<1>4. PICK read : Reads(tool, args, 2, read) /\ NativeParse(tool, args) = NativeOutcome(tool, read[2])
  <2>1. ~(args # <<>> /\ args[1] = Flag(<<"json">>)) /\ Len(args) \in Nat
    BY <1>1, <1>3
  <2>2. \E read : /\ Reads(tool, args, Len(args), read)
                  /\ NativeParse(tool, args) = NativeOutcome(tool, read[Len(args)])
    BY <2>1, ReadThrough
  <2> QED
    BY <1>1, <2>2
<1>5. read[2] = Between(Only(p, v))
  <2>1. StartsWith(args, name, t)
    BY <1>1, <1>2 DEF StartsWith
  <2>2. PICK k : k = 2
    OBVIOUS
  <2>3. k \in Nat /\ k >= 2 /\ Reads(tool, args, k, read)
    BY <1>4, <2>2
  <2>4. read[2] = Between(Only(p, Settled(tool.props[p], w)))
    BY <2>1, <2>3, FirstFlag
  <2> QED
    BY <2>4 DEF v
<1> QED
  BY <1>4, <1>5, OutcomeIs DEF args, v

\* Twice a flag of an array, each with a text.
GivesItem(tool, name, text, p, w) ==
    TypeOf(tool.props[p]) = "array" /\ Gives(tool, name, {text}, p, w) /\ w.type # "array"
LEMMA FlagTwice ==
  ASSUME NEW tool, NEW name, NotJson(name), ~Negated(name), NEW p, OnlyNeeds(tool, p),
         NEW t, NEW w, GivesItem(tool, name, t, p, w), NEW u, NEW x, GivesItem(tool, name, u, p, x)
  PROVE  NativeParse(tool, <<Flag(name), Text(t), Flag(name), Text(u)>>) = Accepted(Only(p, Array(<<w, x>>)))
<1> DEFINE args == <<Flag(name), Text(t), Flag(name), Text(u)>>
           schema == tool.props[p]
           v == Settled(schema, w)
           both == Array(<<w, x>>)
<1>0. /\ TypeOf(schema) = "array" /\ w.type # "array" /\ x.type # "array"
      /\ Gives(tool, name, {t}, p, w) /\ Gives(tool, name, {u}, p, x)
  BY DEF GivesItem
<1>1. /\ Len(args) = 4 /\ args[1] = Flag(name) /\ args[1 + 1] = Text(t)
      /\ args[3] = Flag(name) /\ args[3 + 1] = Text(u)
  OBVIOUS
<1> HIDE DEF args, v, both
<1>2. Operand(args, 1) = {t} /\ Operand(args, 3) = {u}
  <2>1. ASSUME NEW i, NEW text, i < Len(args), args[i + 1] = Text(text)
        PROVE  Operand(args, i) = {text}
    BY <2>1, TextIsOperand
  <2>2. PICK i, j : i = 1 /\ j = 3
    OBVIOUS
  <2>3. i < Len(args) /\ args[i + 1] = Text(t) /\ j < Len(args) /\ args[j + 1] = Text(u)
    BY <1>1, <2>2
  <2>4. Operand(args, i) = {t} /\ Operand(args, j) = {u}
    BY <2>1, <2>3
  <2> QED
    BY <2>2, <2>4
<1>3. args[1] # Flag(<<"json">>)
  BY <1>1, FlagsDiffer DEF NotJson
<1>4. PICK read : Reads(tool, args, 4, read) /\ NativeParse(tool, args) = NativeOutcome(tool, read[4])
  <2>1. ~(args # <<>> /\ args[1] = Flag(<<"json">>)) /\ Len(args) \in Nat
    BY <1>1, <1>3
  <2>2. \E read : /\ Reads(tool, args, Len(args), read)
                  /\ NativeParse(tool, args) = NativeOutcome(tool, read[Len(args)])
    BY <2>1, ReadThrough
  <2> QED
    BY <1>1, <2>2
<1>5. /\ read[3] = NativeStep(tool, args, 3, read[2])
      /\ read[4] = NativeStep(tool, args, 4, read[3])
  BY <1>4 DEF Reads
<1>8. read[2] = Between(Only(p, v))
  <2>1. StartsWith(args, name, t)
    BY <1>1, <1>2 DEF StartsWith
  <2>2. PICK k : k = 4
    OBVIOUS
  <2>3. k \in Nat /\ k >= 2 /\ Reads(tool, args, k, read)
    BY <1>4, <2>2
  <2>4. OneItem(tool.props[p], w)
    BY <1>0 DEF OneItem
  <2>5. read[2] = Between(Only(p, Settled(tool.props[p], w)))
    BY <1>0, <2>1, <2>3, <2>4, FirstFlag
  <2> QED
    BY <2>5 DEF v
<1>9. read[3] = Halfway(NativeInsert(Only(p, v), p, schema, x))
  <2>1. NativeStep(tool, args, 3, Between(Only(p, v))) = Halfway(NativeInsert(Only(p, v), p, schema, x))
    <3>1. PICK i, input : i = 3 /\ input = Only(p, v)
      OBVIOUS
    <3>2. args[i] = Flag(name) /\ Operand(args, i) = {u}
      BY <1>1, <1>2, <3>1
    <3>3. NativeStep(tool, args, i, Between(input)) = Halfway(NativeInsert(input, p, tool.props[p], x))
      BY <1>0, <3>2, TextStep
    <3> QED
      BY <3>1, <3>3
  <2> QED
    BY <1>5, <1>8, <2>1
<1>10. NativeInsert(Only(p, v), p, schema, x) = Only(p, both)
  BY <1>0, InsertAgain DEF v, both
<1>11. read[4] = Between(Only(p, both))
  BY <1>5, <1>9, <1>10, TakenStep
<1> QED
  BY <1>4, <1>11, OutcomeIs DEF args, both

-----------------------------------------------------------------------------
(* What the examples of a schema's help are for it *)

\* A value that shows the text it was made of, and an array, that does not.
Plain(v, text) == v.type # "array" /\ v.label = text
Brackets(v, text) == v.type = "array" /\ v.label = "[...]" /\ text \in {"[5]", "[\"abc\"]"}

LEMMA DecodedIs ==
  ASSUME NEW text, NEW v \in Decoded(text)
  PROVE  Plain(v, text) \/ Brackets(v, text)
<1>1. text \in JsonTexts /\ v = Json[text]
  BY DEF Decoded
<1>2. CASE text \in {"true", "false", "null"}
  BY <1>1, <1>2 DEF Json, Value, True, False, Plain
<1>3. CASE text \in {"5", "-3", "1.5", "{}"}
  BY <1>1, <1>3 DEF Json, Value, Plain
<1>4. CASE text = "[5]"
  BY <1>1, <1>4 DEF Json, Array, Brackets
<1>5. CASE text = "[\"abc\"]"
  BY <1>1, <1>5 DEF Json, Array, Brackets
<1> QED
  BY <1>1, <1>2, <1>3, <1>4, <1>5 DEF JsonTexts

LEMMA TheText == ASSUME NEW text PROVE TextOf({text}) = text /\ {text} # {}
  BY DEF TextOf

LEMMA ValueIs == ASSUME NEW type, type # "array", NEW text PROVE Plain(Value(type, text), text)
  BY DEF Value, Plain

NoArray(text) == \A v \in Decoded(text) : v.type # "array"

LEMMA UntypedIs ==
  ASSUME NEW schema, NEW text
  PROVE  /\ NativeUntyped(schema, text) \in Decoded(text) \cup {Value("string", text)}
         /\ NoArray(text) => Plain(NativeUntyped(schema, text), text)
<1>1. NativeUntyped(schema, text) \in Decoded(text) \cup {Value("string", text)}
  BY DEF NativeUntyped
<1>2. Plain(Value("string", text), text)
  BY ValueIs
<1>3. NoArray(text) => \A v \in Decoded(text) : Plain(v, text)
  BY DecodedIs DEF NoArray, Brackets
<1> QED
  BY <1>1, <1>2, <1>3

\* What shows the text that it was made of is no array.
LEMMA ShownIsPlain ==
  ASSUME NEW schema \in Schemas, NEW text, NEW w \in NativeCoerce(schema, {text}), w.label = text
  PROVE  Plain(w, text)
<1>1. PICK s \in Schemas : w \in NativeValues(s, {text})
  BY CoercedAsValues
<1>2. w \in Decoded(text) \/ w.type # "array"
  <2>1. True.type # "array" /\ False.type # "array" /\ \A l : Value("string", l).type # "array"
    BY DEF True, False, Value
  <2>2. \A l : Value("integer", l).type # "array" /\ Value("number", l).type # "array"
    BY DEF Value
  <2>3. \A v \in Parsed("integer", Integer, text) \cup Parsed("number", Number, text) : v.type # "array"
    BY <2>2 DEF Parsed
  <2>4. NativeUntyped(s, text) \in Decoded(text) \cup {Value("string", text)}
        /\ NativeUntyped(Anything, text) \in Decoded(text) \cup {Value("string", text)}
    BY UntypedIs
  <2> QED
    BY <1>1, <2>1, <2>3, <2>4, TheText DEF NativeValues
<1>3. w \in Decoded(text) => Plain(w, text) \/ Brackets(w, text)
  BY DecodedIs
<1>4. ~Brackets(w, text)
  BY DEF Brackets
<1> QED
  BY <1>2, <1>3, <1>4 DEF Plain

\* A text and a schema that has some value for it.
ReadsItself(schema, text) == \E w : NativeValues(schema, {text}) = {w} /\ Plain(w, text)

\* The text that help shows of a type.
ExampleFor(type, text) ==
    \/ type = "boolean" /\ text = "true"
    \/ type = "integer" /\ text = "5"
    \/ type = "number" /\ text = "1.5"
    \/ type \in {"none", "string"} /\ text \in {"abc", "{}"}
    \/ type = "null" /\ text = "null"
    \/ type \notin {"boolean", "integer", "number", "array", "none", "string", "null"} /\ text = "{}"

LEMMA ExampleIs ==
  ASSUME NEW schema, ~Enumerated(schema), TypeOf(schema) # "array",
         OrText(schema) => TypeOf(schema) \in {"none", "string"}, NEW text \in Examples(schema)
  PROVE  ExampleFor(TypeOf(schema), text)
<1> DEFINE type == TypeOf(schema)
           json == CASE type = "boolean" -> "true" [] type = "integer" -> "5"
                     [] type = "number" -> "1.5" [] type = "array" -> "[5]"
                     [] type = "null" -> "null" [] OTHER -> "{}"
<1>1. text \in IF Has(schema, "anyOf") THEN IF OrText(schema) THEN {"abc", json} ELSE {json}
               ELSE IF type \in {"none", "string"} THEN {"abc"} ELSE {json}
  BY DEF Examples
<1>2. (text = "abc" /\ type \in {"none", "string"}) \/ text = json
  BY <1>1
<1> HIDE DEF type
<1>3. type # "array"
  BY DEF type
<1>4. ExampleFor(type, text)
  BY <1>2, <1>3 DEF ExampleFor
<1> QED
  BY <1>4 DEF type

LEMMA ExampleReads ==
  ASSUME NEW schema, NEW text, ExampleFor(TypeOf(schema), text)
  PROVE  NoArray(text) /\ ReadsItself(schema, text)
<1> DEFINE type == TypeOf(schema)
<1>1. NoArray(text)
  <2>1. text \notin {"[5]", "[\"abc\"]"}
    BY DEF ExampleFor
  <2> QED
    BY <2>1, DecodedIs DEF Brackets, Plain, NoArray
<1>2. TextOf({text}) = text /\ {text} # {}
  BY TheText
<1>3. CASE type = "boolean"
  <2>1. text = "true"
    BY <1>3 DEF ExampleFor
  <2>2. NativeValues(schema, {text}) = {v \in {True, False} : v.label = "true"}
    BY <1>2, <1>3, <2>1 DEF NativeValues
  <2>3. True.label = "true" /\ False.label = "false" /\ True.type = "boolean"
    BY DEF True, False, Value
  <2>4. NativeValues(schema, {text}) = {True}
    BY <2>2, <2>3
  <2> QED
    BY <1>1, <2>1, <2>3, <2>4 DEF ReadsItself, Plain
<1>4. CASE type = "integer"
  <2>1. text = "5"
    BY <1>4 DEF ExampleFor
  <2>2. Parsed("integer", Integer, "5") = {Value("integer", "5")}
    BY DEF Parsed, Integer
  <2>3. NativeValues(schema, {text}) = {Value("integer", text)}
    BY <1>2, <1>4, <2>1, <2>2 DEF NativeValues
  <2> QED
    BY <1>1, <2>3, ValueIs DEF ReadsItself
<1>5. CASE type = "number"
  <2>1. text = "1.5"
    BY <1>5 DEF ExampleFor
  <2>2. Parsed("number", Number, "1.5") = {Value("number", "1.5")}
    BY DEF Parsed, Number
  <2>3. NativeValues(schema, {text}) = {Value("number", text)}
    BY <1>2, <1>5, <2>1, <2>2 DEF NativeValues
  <2> QED
    BY <1>1, <2>3, ValueIs DEF ReadsItself
<1>6. CASE type = "string"
  <2>1. NativeValues(schema, {text}) = {Value("string", text)}
    BY <1>2, <1>6 DEF NativeValues
  <2> QED
    BY <1>1, <2>1, ValueIs DEF ReadsItself
<1>7. CASE type = "object"
  <2>1. text = "{}"
    BY <1>7 DEF ExampleFor
  <2>2. Decoded("{}") = {Value("object", "{}")}
    BY DEF Decoded, Json, JsonTexts
  <2>3. Value("object", "{}").type = "object"
    BY DEF Value
  <2>4. NativeValues(schema, {text}) = {Value("object", "{}")}
    BY <1>2, <1>7, <2>1, <2>2, <2>3 DEF NativeValues
  <2> QED
    BY <1>1, <2>1, <2>4, ValueIs DEF ReadsItself
<1>8. CASE type \notin {"boolean", "integer", "number", "string", "array", "object"}
  <2>1. NativeValues(schema, {text}) = {NativeUntyped(schema, text)}
    BY <1>2, <1>8 DEF NativeValues
  <2> QED
    BY <1>1, <2>1, UntypedIs DEF ReadsItself
<1>9. type # "array"
  BY DEF ExampleFor
<1> QED
  BY <1>3, <1>4, <1>5, <1>6, <1>7, <1>8, <1>9

LEMMA CoerceStep ==
  ASSUME NEW s \in Schemas, NEW operand
  PROVE  NativeCoerce(s, operand) =
           IF TypeOf(s) = "array" /\ ~(\E v \in Decoded(TextOf(operand)) : v.type = "array") /\ Has(s, "items")
           THEN NativeCoerce(s.items, operand) ELSE NativeValues(s, operand)
<1> DEFINE c == Coercion(operand)
<1>1. c[s] = CoerceAs(c, operand, s)
  BY CoercionIs
<1>2. NativeCoerce(s, operand) = c[s] /\ NativeCoerce(s.items, operand) = c[s.items]
  BY CoerceIs
<1> HIDE DEF c
<1> QED
  BY <1>1, <1>2 DEF CoerceAs

\* A list of integers, for whatever array.
LEMMA ListIs ==
  ASSUME NEW s \in Schemas, TypeOf(s) = "array"
  PROVE  NativeCoerce(s, {"[5]"}) = {Array(<<Value("integer", "5")>>)}
<1> DEFINE list == Array(<<Value("integer", "5")>>)
<1>1. Decoded("[5]") = {list} /\ list.type = "array"
  BY DEF Decoded, Json, JsonTexts, Array
<1>2. TextOf({"[5]"}) = "[5]"
  BY TheText
<1> HIDE DEF list
<1>3. {v \in Decoded("[5]") : v.type = "array"} = {list}
  BY <1>1
<1>4. NativeValues(s, {"[5]"}) = {list}
  BY <1>2, <1>3 DEF NativeValues
<1>5. NativeCoerce(s, {"[5]"}) = NativeValues(s, {"[5]"})
  BY <1>1, <1>2, CoerceStep
<1> QED
  BY <1>4, <1>5 DEF list

\* That a text is the value w for a schema, and allowed.
ReadAs(schema, text, w) ==
    NativeCoerce(schema, {text}) = {w} /\ NativeEnum(schema, w) /\ OneItem(schema, w)

\* The labels that a value has.
ItemsOf(w) == IF w.type = "array" THEN w.items ELSE <<w>>
Shows(w, labels) == [i \in DOMAIN ItemsOf(w) |-> ItemsOf(w)[i].label] = labels

LEMMA EnumIs ==
  ASSUME NEW schema, NEW w
  PROVE  /\ ~Enumerated(schema) => NativeEnum(schema, w)
         /\ w.type # "array" /\ Enumerated(schema) /\ w.label \in Labels(schema) => NativeEnum(schema, w)
  BY DEF NativeEnum, Enumerated, Labels

LEMMA PlainIs ==
  ASSUME NEW schema, NEW w, NEW text, Plain(w, text)
  PROVE  OneItem(schema, w) /\ Shows(w, <<text>>)
<1>1. OneItem(schema, w)
  BY DEF OneItem, Plain
<1>2. ItemsOf(w) = <<w>>
  BY DEF ItemsOf, Plain
<1>3. [i \in DOMAIN <<w>> |-> <<w>>[i].label] = <<text>>
  BY DEF Plain
<1> QED
  BY <1>1, <1>2, <1>3 DEF Shows

\* What is allowed and reads as it is written.
LEMMA AllowedIs ==
  ASSUME NEW s \in Schemas, NEW text, NEW w \in NativeCoerce(s, {text}), w.label = text,
         ~Enumerated(s) \/ text \in Labels(s)
  PROVE  ReadAs(s, text, w) /\ Plain(w, text)
<1>1. Plain(w, text)
  BY ShownIsPlain
<1>2. NativeCoerce(s, {text}) = {w}
  BY OneValue DEF AtMostOne
<1>3. NativeEnum(s, w)
  BY <1>1, EnumIs DEF Plain
<1> QED
  BY <1>1, <1>2, <1>3, PlainIs DEF ReadAs

\* An example of the kind that a schema asks for.
LEMMA OnceIs ==
  ASSUME NEW s \in Schemas, Consistent(s), ~IsSwitch(s), NEW text \in Examples(s)
  PROVE  \E w : ReadAs(s, text, w)
                /\ Shows(w, <<IF TypeOf(s) = "array" /\ text = "[5]" THEN "5" ELSE text>>)
<1> DEFINE shown == IF TypeOf(s) = "array" /\ text = "[5]" THEN "5" ELSE text
<1>1. CASE Enumerated(s)
  <2>1. ~Repeats(s)
    BY <1>1 DEF Repeats
  <2>2. text \in Labels(s) /\ \E v \in s.enum : text = v.label
    BY <1>1 DEF Examples, Labels
  <2>3. \E w \in NativeCoerce(s, {text}) : w.label = text
    BY <1>1, <2>1, <2>2 DEF Consistent
  <2>4. PICK w \in NativeCoerce(s, {text}) : w.label = text
    BY <2>3
  <2>5. ReadAs(s, text, w) /\ Plain(w, text)
    BY <2>2, <2>4, AllowedIs
  <2>6. ~(TypeOf(s) = "array" /\ text = "[5]")
    <3> SUFFICES ASSUME TypeOf(s) = "array", text = "[5]" PROVE FALSE
      OBVIOUS
    <3>1. w = Array(<<Value("integer", "5")>>)
      BY <2>4, ListIs
    <3> QED
      BY <2>5, <3>1 DEF Plain, Array
  <2>7. Shows(w, <<text>>)
    BY <2>5, PlainIs
  <2> QED
    BY <2>5, <2>6, <2>7
<1>2. CASE ~Enumerated(s) /\ TypeOf(s) = "array"
  <2>1. ~OrText(s)
    <3>1. Repeats(s) => ~OrText(s)
      BY DEF Repeats, OrText
    <3>2. ~Repeats(s) => ~OrText(s)
      BY <1>2 DEF Consistent
    <3> QED
      BY <3>1, <3>2
  <2>2. text = "[5]"
    BY <1>2, <2>1 DEF Examples
  <2> DEFINE five == Value("integer", "5")
             list == Array(<<five>>)
  <2>3. NativeCoerce(s, {text}) = {list}
    BY <1>2, <2>2, ListIs
  <2>4. list.type = "array" /\ list.items = <<five>>
    BY DEF Array
  <2>5. five.label = "5"
    BY DEF Value
  <2> HIDE DEF list, five
  <2>6. ReadAs(s, text, list)
    BY <1>2, <2>3, <2>4, EnumIs DEF ReadAs, OneItem
  <2>7. Shows(list, <<"5">>)
    <3>1. ItemsOf(list) = <<five>>
      BY <2>4 DEF ItemsOf
    <3>2. [i \in DOMAIN <<five>> |-> <<five>>[i].label] = <<"5">>
      BY <2>5
    <3> QED
      BY <3>1, <3>2 DEF Shows
  <2> QED
    BY <1>2, <2>2, <2>6, <2>7
<1>3. CASE ~Enumerated(s) /\ TypeOf(s) # "array"
  <2>1. OrText(s) => TypeOf(s) \in {"none", "string"}
    BY <1>3 DEF Consistent, Repeats
  <2>2. ReadsItself(s, text)
    BY <1>3, <2>1, ExampleIs, ExampleReads
  <2>3. NativeCoerce(s, {text}) = NativeValues(s, {text})
    BY <1>3, CoerceStep
  <2>4. PICK w : NativeCoerce(s, {text}) = {w} /\ Plain(w, text)
    BY <2>2, <2>3 DEF ReadsItself
  <2>5. ReadAs(s, text, w) /\ Shows(w, <<text>>)
    BY <1>3, <2>4, EnumIs, PlainIs DEF ReadAs
  <2> QED
    BY <1>3, <2>5
<1> QED
  BY <1>1, <1>2, <1>3

\* And of the kind that it asks for as an item.
LEMMA ItemIs ==
  ASSUME NEW s \in Schemas, Consistent(s), Repeats(s), NEW text \in Examples(s.items)
  PROVE  \E w : ReadAs(s, text, w) /\ Plain(w, text)
<1>1. /\ TypeOf(s) = "array" /\ Has(s, "items") /\ ~Enumerated(s) /\ TypeOf(s.items) # "array"
      /\ s.items \in Schemas
  BY PartsAreLess DEF Repeats
<1>2. \E w \in NativeCoerce(s, {text}) : w.label = text
  <2>1. CASE Enumerated(s.items)
    <3>1. \E v \in s.items.enum : text = v.label
      BY <2>1 DEF Examples, Labels
    <3> QED
      BY <2>1, <3>1 DEF Consistent
  <2>2. CASE ~Enumerated(s.items)
    <3>1. ~OrText(s.items)
      BY <2>2 DEF Repeats, OrText
    <3>2. NoArray(text) /\ ReadsItself(s.items, text)
      BY <1>1, <2>2, <3>1, ExampleIs, ExampleReads
    <3>3. TextOf({text}) = text
      BY TheText
    <3>4. NativeCoerce(s, {text}) = NativeCoerce(s.items, {text})
      BY <1>1, <3>2, <3>3, CoerceStep DEF NoArray
    <3>5. NativeCoerce(s.items, {text}) = NativeValues(s.items, {text})
      BY <1>1, CoerceStep
    <3> QED
      BY <3>2, <3>4, <3>5 DEF ReadsItself, Plain
  <2> QED
    BY <2>1, <2>2
<1>3. PICK w \in NativeCoerce(s, {text}) : w.label = text
  BY <1>2
<1> QED
  BY <1>1, <1>3, AllowedIs

-----------------------------------------------------------------------------
(* What help tells a user to type *)

LEMMA SettledShows ==
  ASSUME NEW p, NEW schema, NEW w, NEW labels, Shows(w, labels)
  PROVE  SetsOnly(Accepted(Only(p, Settled(schema, w))), p, labels)
<1> DEFINE v == Settled(schema, w)
           values == IF v.type = "array" THEN v.items ELSE <<v>>
           outcome == Accepted(Only(p, v))
<1>1. values = ItemsOf(w)
  <2>1. \A items : Array(items).type = "array" /\ Array(items).items = items
    BY DEF Array
  <2> QED
    BY <2>1 DEF Settled, ItemsOf
<1>2. outcome.error = "none" /\ DOMAIN outcome.input = {p} /\ outcome.input[p] = v
  <2>1. outcome.error = "none" /\ outcome.input = Only(p, v)
    BY DEF Accepted
  <2> HIDE DEF outcome, v
  <2> QED
    BY <2>1, OnlyIs
<1>3. SetsOnly(outcome, p, labels) <=>
        /\ outcome.error = "none" /\ DOMAIN outcome.input = {p}
        /\ LET value == outcome.input[p]
               all == IF value.type = "array" THEN value.items ELSE <<value>>
           IN [i \in DOMAIN all |-> all[i].label] = labels
  BY DEF SetsOnly
<1> HIDE DEF outcome, v
<1>4. SetsOnly(outcome, p, labels) <=> [i \in DOMAIN values |-> values[i].label] = labels
  BY <1>2, <1>3
<1> HIDE DEF values
<1>5. [i \in DOMAIN values |-> values[i].label] = labels
  BY <1>1 DEF Shows
<1>6. SetsOnly(outcome, p, labels)
  BY <1>4, <1>5
<1> QED
  BY <1>6 DEF outcome, v

LEMMA BothShow ==
  ASSUME NEW p, NEW w, NEW x, NEW t, NEW u, Plain(w, t), Plain(x, u)
  PROVE  SetsOnly(Accepted(Only(p, Array(<<w, x>>))), p, <<t, u>>)
<1> DEFINE both == Array(<<w, x>>)
<1>1. both.type = "array" /\ both.items = <<w, x>>
  BY DEF Array
<1>2. [i \in DOMAIN <<w, x>> |-> <<w, x>>[i].label] = <<t, u>>
  BY DEF Plain
<1> HIDE DEF both
<1>3. Shows(both, <<t, u>>)
  BY <1>1, <1>2 DEF Shows, ItemsOf
<1>4. \A schema : TypeOf(schema) # "array" => Settled(schema, both) = both
  BY DEF Settled
<1>5. PICK schema : TypeOf(schema) # "array"
  <2>1. TypeOf([any |-> TRUE]) = "none"
    BY DEF TypeOf, Has
  <2> QED
    BY <2>1
<1>6. SetsOnly(Accepted(Only(p, Settled(schema, both))), p, <<t, u>>)
  BY <1>3, SettledShows
<1> QED
  BY <1>4, <1>5, <1>6 DEF both

\* A property whose flag is its own, of a tool that needs it only.
IsOwn(tool, p) ==
    /\ IsProps(tool.props) /\ Distinct(tool.props) /\ p \in DOMAIN tool.props
    /\ OwnFlag(p) /\ OnlyNeeds(tool, p)

LEMMA FlagIs ==
  ASSUME NEW tool, NEW p, IsOwn(tool, p)
  PROVE  /\ Kebab(p) # <<>> /\ NotJson(Kebab(p)) /\ ~Negated(Kebab(p)) /\ Kebab(p) \in Seq(Signs)
         /\ Positive(Kebab(p)) = Kebab(p) /\ NativeResolve(tool.props, Kebab(p)) = {p}
         /\ tool.props[p] \in Schemas
<1>1. p \in Name /\ tool.props[p] \in Schemas
  BY NamesAre DEF IsOwn, IsProps
<1>2. Kebab(p) \in Seq(Signs)
  BY <1>1, KebabIs DEF Name, Texts
<1>3. Kebab(p) # <<>> /\ NotJson(Kebab(p)) /\ ~Negated(Kebab(p))
  BY DEF IsOwn, OwnFlag, NotJson
<1>4. NativeResolve(tool.props, Kebab(p)) = {p}
  BY FlagResolves DEF IsOwn
<1> QED
  BY <1>1, <1>2, <1>3, <1>4 DEF Positive

\* The negation of a flag.
LEMMA NegationIs ==
  ASSUME NEW name \in Seq(Signs)
  PROVE  LET no == <<"no", "-">> \o name
         IN no # <<>> /\ NotJson(no) /\ Negated(no) /\ Positive(no) = name
<1> DEFINE no == <<"no", "-">> \o name
           A == Signs \cup {"no", "-"}
<1>1. <<"no", "-">> \in Seq(A) /\ name \in Seq(A)
  OBVIOUS
<1>2. /\ no \in Seq(A) /\ Len(no) = 2 + Len(name) /\ no[1] = "no" /\ no[2] = "-"
      /\ \A i \in 1..Len(name) : no[2 + i] = name[i]
  BY <1>1, ConcatProperties
<1>3. Len(name) \in Nat
  OBVIOUS
<1> HIDE DEF no, A
<1>4. no # <<>> /\ NotJson(no)
  <2>1. Len(<<>>) = 0 /\ Len(<<"json">>) = 1
    OBVIOUS
  <2> QED
    BY <1>2, <1>3, <2>1 DEF NotJson
<1>5. Negated(no)
  BY <1>2, <1>3 DEF Negated, IsPrefix
<1>6. SubSeq(no, 3, Len(no)) = name
  <2> DEFINE rest == SubSeq(no, 3, Len(no))
  <2>1. /\ rest \in Seq(A) /\ Len(rest) = Len(name) /\ \A i \in 1..Len(name) : rest[i] = no[i + 2]
    BY <1>2, <1>3
  <2> HIDE DEF rest
  <2>2. rest = name
    BY <1>1, <1>2, <1>3, <2>1, SeqEqual
  <2> QED
    BY <2>2 DEF rest
<1>7. Positive(no) = name
  BY <1>5, <1>6 DEF Positive
<1> QED
  BY <1>4, <1>5, <1>7 DEF no

LEMMA GivesText ==
  ASSUME NEW tool, NEW p, IsOwn(tool, p), NEW text, NEW w, ReadAs(tool.props[p], text, w)
  PROVE  Gives(tool, Kebab(p), {text}, p, w)
<1> DEFINE flag == Kebab(p)
           schema == tool.props[p]
<1>1. flag # <<>> /\ ~Negated(flag) /\ Positive(flag) = flag /\ NativeResolve(tool.props, flag) = {p}
  BY FlagIs
<1>2. NativeCoerce(schema, {text}) = {w} /\ NativeEnum(schema, w)
  BY DEF ReadAs
<1> HIDE DEF flag, schema
<1>3. FlagValues(schema, flag, {text}) = {w}
  BY <1>1, <1>2 DEF FlagValues
<1> QED
  BY <1>1, <1>2, <1>3 DEF Gives, flag, schema

\* A flag with a text.
LEMMA TextSets ==
  ASSUME NEW tool, NEW p, IsOwn(tool, p), NEW text, NEW w, ReadAs(tool.props[p], text, w),
         NEW labels, Shows(w, labels)
  PROVE  SetsOnly(NativeParse(tool, <<Flag(Kebab(p)), Text(text)>>), p, labels)
<1>1. Gives(tool, Kebab(p), {text}, p, w)
  BY GivesText
<1>2. NotJson(Kebab(p)) /\ ~Negated(Kebab(p)) /\ OnlyNeeds(tool, p) /\ OneItem(tool.props[p], w)
  BY FlagIs DEF IsOwn, ReadAs
<1>3. NativeParse(tool, <<Flag(Kebab(p)), Text(text)>>) = Accepted(Only(p, Settled(tool.props[p], w)))
  BY <1>1, <1>2, FlagAndText
<1> QED
  BY <1>3, SettledShows

\* A flag with a text, twice.
LEMMA TwiceSets ==
  ASSUME NEW tool, NEW p, IsOwn(tool, p), TypeOf(tool.props[p]) = "array",
         NEW t, NEW w, ReadAs(tool.props[p], t, w), Plain(w, t),
         NEW u, NEW x, ReadAs(tool.props[p], u, x), Plain(x, u)
  PROVE  SetsOnly(NativeParse(tool, <<Flag(Kebab(p)), Text(t), Flag(Kebab(p)), Text(u)>>), p, <<t, u>>)
<1>1. Gives(tool, Kebab(p), {t}, p, w) /\ Gives(tool, Kebab(p), {u}, p, x)
  BY GivesText
<1>2. NotJson(Kebab(p)) /\ ~Negated(Kebab(p)) /\ OnlyNeeds(tool, p)
  BY FlagIs DEF IsOwn
<1>3. GivesItem(tool, Kebab(p), t, p, w) /\ GivesItem(tool, Kebab(p), u, p, x)
  BY <1>1 DEF Plain, GivesItem
<1>4. NativeParse(tool, <<Flag(Kebab(p)), Text(t), Flag(Kebab(p)), Text(u)>>) = Accepted(Only(p, Array(<<w, x>>)))
  BY <1>2, <1>3, FlagTwice
<1> QED
  BY <1>4, BothShow

LEMMA BooleanIs ==
  ASSUME NEW s \in Schemas, TypeOf(s) = "boolean", ~Enumerated(s)
  PROVE  /\ NativeCoerce(s, {}) = {True} /\ Plain(True, "true") /\ Plain(False, "false")
         /\ ReadAs(s, "true", True) /\ ReadAs(s, "false", False)
         /\ \A w : NativeEnum(s, w) /\ OneItem(s, w)
<1>1. Plain(True, "true") /\ Plain(False, "false")
  BY DEF True, False, Value, Plain
<1>2. \A operand : NativeCoerce(s, operand) = NativeValues(s, operand)
  BY CoerceStep
<1>3. NativeValues(s, {}) = {True}
  BY DEF NativeValues
<1>0. \A t : NativeValues(s, {t}) = {v \in {True, False} : v.label = t}
  BY TheText DEF NativeValues
<1>4. NativeValues(s, {"true"}) = {True}
  <2>1. NativeValues(s, {"true"}) = {v \in {True, False} : v.label = "true"}
    BY <1>0
  <2> QED
    BY <1>1, <2>1 DEF Plain
<1>5. NativeValues(s, {"false"}) = {False}
  <2>1. NativeValues(s, {"false"}) = {v \in {True, False} : v.label = "false"}
    BY <1>0
  <2> QED
    BY <1>1, <2>1 DEF Plain
<1>6. \A w : NativeEnum(s, w) /\ OneItem(s, w)
  BY EnumIs DEF OneItem
<1> QED
  BY <1>1, <1>2, <1>3, <1>4, <1>5, <1>6 DEF ReadAs

\* A flag by itself.
LEMMA BareSets ==
  ASSUME NEW tool, NEW p, IsOwn(tool, p), NEW name, name # <<>>, NotJson(name),
         NativeResolve(tool.props, Positive(name)) = {p},
         NEW w, FlagValues(tool.props[p], name, {}) = {w}, NativeEnum(tool.props[p], w), OneItem(tool.props[p], w),
         NEW text, Plain(w, text)
  PROVE  SetsOnly(NativeParse(tool, <<Flag(name)>>), p, <<text>>)
<1>1. Gives(tool, name, {}, p, w) /\ OnlyNeeds(tool, p)
  BY DEF Gives, IsOwn
<1>2. NativeParse(tool, <<Flag(name)>>) = Accepted(Only(p, Settled(tool.props[p], w)))
  BY <1>1, BareFlag
<1>3. Shows(w, <<text>>)
  BY PlainIs
<1> QED
  BY <1>2, <1>3, SettledShows

\* What help shows of a switch.
LEMMA SwitchSets ==
  ASSUME NEW tool, NEW p, IsOwn(tool, p), NEW s, s = tool.props[p],
         TypeOf(s) = "boolean", ~Enumerated(s)
  PROVE  /\ SetsOnly(NativeParse(tool, <<Flag(Kebab(p))>>), p, <<"true">>)
         /\ SetsOnly(NativeParse(tool, <<Flag(<<"no", "-">> \o Kebab(p))>>), p, <<"false">>)
         /\ SetsOnly(NativeParse(tool, <<Flag(Kebab(p)), Text("true")>>), p, <<"true">>)
         /\ SetsOnly(NativeParse(tool, <<Flag(Kebab(p)), Text("false")>>), p, <<"false">>)
<1> DEFINE flag == Kebab(p)
           no == <<"no", "-">> \o flag
<1>1. /\ flag # <<>> /\ NotJson(flag) /\ ~Negated(flag) /\ flag \in Seq(Signs) /\ Positive(flag) = flag
      /\ NativeResolve(tool.props, flag) = {p} /\ s \in Schemas
  BY FlagIs
<1>2. no # <<>> /\ NotJson(no) /\ Negated(no) /\ Positive(no) = flag
  BY <1>1, NegationIs
<1>3. /\ NativeCoerce(s, {}) = {True} /\ Plain(True, "true") /\ Plain(False, "false")
      /\ ReadAs(s, "true", True) /\ ReadAs(s, "false", False)
      /\ \A w : NativeEnum(s, w) /\ OneItem(s, w)
  BY <1>1, BooleanIs
<1> HIDE DEF no
<1>4. SetsOnly(NativeParse(tool, <<Flag(flag)>>), p, <<"true">>)
  <2>1. FlagValues(s, flag, {}) = {True}
    BY <1>1, <1>3 DEF FlagValues
  <2> HIDE DEF flag
  <2> QED
    BY <1>1, <1>3, <2>1, BareSets
<1>5. SetsOnly(NativeParse(tool, <<Flag(no)>>), p, <<"false">>)
  <2>1. FlagValues(s, no, {}) = {False}
    BY <1>2 DEF FlagValues
  <2> HIDE DEF flag
  <2> QED
    BY <1>1, <1>2, <1>3, <2>1, BareSets
<1>6. /\ SetsOnly(NativeParse(tool, <<Flag(flag), Text("true")>>), p, <<"true">>)
      /\ SetsOnly(NativeParse(tool, <<Flag(flag), Text("false")>>), p, <<"false">>)
  <2>1. Shows(True, <<"true">>) /\ Shows(False, <<"false">>)
    BY <1>3, PlainIs
  <2> QED
    BY <1>3, <2>1, TextSets
<1> QED
  BY <1>4, <1>5, <1>6 DEF no

\* Whatever help shows of a property.
LEMMA LineSets ==
  ASSUME NEW tool, NEW p, IsOwn(tool, p), NEW s, s = tool.props[p], Consistent(s),
         NEW line \in HelpFlags(p, s)
  PROVE  SetsOnly(NativeParse(tool, line.args), p, line.labels)
<1> DEFINE flag == Flag(Kebab(p))
           Shown(t) == IF TypeOf(s) = "array" /\ t = "[5]" THEN "5" ELSE t
           once == {Line(<<flag, Text(t)>>, <<Shown(t)>>) : t \in Examples(s)}
           twice == {Line(<<flag, Text(t), flag, Text(u)>>, <<t, u>>) : t, u \in Examples(s.items)}
           no == Flag(<<"no", "-">> \o Kebab(p))
           four == {Line(<<flag>>, <<"true">>), Line(<<no>>, <<"false">>),
                    Line(<<flag, Text("true")>>, <<"true">>), Line(<<flag, Text("false")>>, <<"false">>)}
<1>1. \A args, labels : Line(args, labels).args = args /\ Line(args, labels).labels = labels
  BY DEF Line
<1>2. line \in IF IsSwitch(s) THEN four ELSE IF Repeats(s) THEN once \cup twice ELSE once
  BY DEF HelpFlags
<1>3. s \in Schemas
  BY FlagIs
<1>4. CASE IsSwitch(s)
  <2>1. ~Enumerated(s) /\ TypeOf(s) = "boolean"
    <3>1. Enumerated(s) => ~Repeats(s)
      BY DEF Repeats
    <3>2. ~Enumerated(s)
      BY <1>4, <3>1 DEF Consistent
    <3> QED
      BY <1>4, <3>2 DEF IsSwitch
  <2>2. /\ SetsOnly(NativeParse(tool, <<flag>>), p, <<"true">>)
        /\ SetsOnly(NativeParse(tool, <<no>>), p, <<"false">>)
        /\ SetsOnly(NativeParse(tool, <<flag, Text("true")>>), p, <<"true">>)
        /\ SetsOnly(NativeParse(tool, <<flag, Text("false")>>), p, <<"false">>)
    BY <2>1, SwitchSets
  <2>3. line \in four
    BY <1>2, <1>4
  <2> HIDE DEF flag, no
  <2> QED
    BY <1>1, <2>2, <2>3
<1>5. CASE ~IsSwitch(s) /\ line \in once
  <2>1. PICK t \in Examples(s) : line = Line(<<flag, Text(t)>>, <<Shown(t)>>)
    BY <1>5
  <2>2. PICK w : ReadAs(s, t, w) /\ Shows(w, <<Shown(t)>>)
    BY <1>3, <1>5, OnceIs
  <2>3. SetsOnly(NativeParse(tool, <<flag, Text(t)>>), p, <<Shown(t)>>)
    <3> HIDE DEF Shown
    <3> QED
      BY <2>2, TextSets
  <2> HIDE DEF flag, Shown
  <2> QED
    BY <1>1, <2>1, <2>3
<1>6. CASE Repeats(s) /\ line \in twice
  <2>1. PICK t \in Examples(s.items), u \in Examples(s.items) :
            line = Line(<<flag, Text(t), flag, Text(u)>>, <<t, u>>)
    BY <1>6, SMTT(30)
  <2>2. PICK w : ReadAs(s, t, w) /\ Plain(w, t)
    BY <1>3, <1>6, ItemIs
  <2>3. PICK x : ReadAs(s, u, x) /\ Plain(x, u)
    BY <1>3, <1>6, ItemIs
  <2>4. TypeOf(s) = "array"
    BY <1>6 DEF Repeats
  <2>5. SetsOnly(NativeParse(tool, <<flag, Text(t), flag, Text(u)>>), p, <<t, u>>)
    BY <2>2, <2>3, <2>4, TwiceSets
  <2> HIDE DEF flag
  <2> QED
    BY <1>1, <2>1, <2>5
<1> HIDE DEF once, twice, four
<1> QED
  BY <1>2, <1>4, <1>5, <1>6

\* For any tools, with schemas nested in one another to any depth: what a subcommand's
\* help tells the user to type sets the property that it is listed under, and no other,
\* to the value that it shows, when names resolve in one way only (cli/help.rs,
\* cli/parser.rs).
THEOREM HelpIsTrusted == Spec => []HelpIsTrue
<1>1. ASSUME NEW tool \in Tools PROVE HelpIsTrueFor(tool)
  <2> SUFFICES ASSUME Distinct(tool.props), NEW p \in DOMAIN tool.props,
                      OwnFlag(p), Consistent(tool.props[p]),
                      NEW line \in HelpFlags(p, tool.props[p])
               PROVE  SetsOnly(NativeParse([props |-> tool.props, required |-> {p}], line.args),
                               p, line.labels)
    BY DEF HelpIsTrueFor
  <2> DEFINE only == [props |-> tool.props, required |-> {p}]
  <2>1. only.props = tool.props /\ only.required = {p}
    OBVIOUS
  <2>2. IsProps(tool.props)
    BY CallersAssumption DEF IsProps
  <2> HIDE DEF only
  <2>3. IsOwn(only, p)
    BY <2>1, <2>2 DEF IsOwn, OnlyNeeds
  <2>4. SetsOnly(NativeParse(only, line.args), p, line.labels)
    BY <2>1, <2>3, LineSets
  <2> QED
    BY <2>4 DEF only
<1>2. HelpIsTrue
  BY <1>1 DEF HelpIsTrue
<1> QED
  BY <1>2, PTL
=============================================================================
