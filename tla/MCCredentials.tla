---------------------------- MODULE MCCredentials ----------------------------
(* Credentials in memory and on disk, each on its own: a behaviour is one of a  *)
(* Session, or one of the OAuthStore with two names for one address, two logins *)
(* and one clear.  Calls are interchangeable, and so are logins.                *)
EXTENDS MCSession, OAuthStore

CONSTANTS n1, n2, u1, d1, d2

VARIABLE side

\* One directory for each entry.
SeparateDirs == [e \in Names \X Uris |-> IF e[1] = n1 THEN d1 ELSE d2]

CallsAndLogins == Permutations(Calls) \cup Permutations(Logins)

\* What the other side starts with does not matter.
CredentialsInit ==
    /\ Init /\ StoreInit
    /\ \/ side = "session" /\ who = [l \in Logins |-> <<n1, u1>>]
       \/ side = "store" /\ config = [mode |-> "plain", auth |-> "fixed", bridge |-> FALSE]

CredentialsNext ==
    /\ UNCHANGED side
    /\ \/ side = "session" /\ Next /\ UNCHANGED storeVars
       \/ side = "store" /\ StoreNext /\ UNCHANGED vars

CredentialsSpec == CredentialsInit /\ [][CredentialsNext]_<<vars, storeVars, side>>
=============================================================================
