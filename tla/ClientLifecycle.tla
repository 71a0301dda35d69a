-------------------------- MODULE ClientLifecycle --------------------------
(***************************************************************************)
(* What the registration service promises about a client, without the      *)
(* requests, the store calls and the failures that bring it about.         *)
(*                                                                         *)
(* A client moves along the legal edges and no others.  Having a usable    *)
(* registrar identity is final.  What a client holds (keys, evidence)      *)
(* grows at any time, and is disposed of all together, once the client is  *)
(* offboarded and not before.  Gated says whether being activated takes an *)
(* identity.  Nothing is said of the intended uses: they may be replaced   *)
(* by none at any moment, also of an active client.                        *)
(***************************************************************************)
EXTENDS ClientMatrix

CONSTANTS Client, Item, Gated

VARIABLES
    state,      \* [Client -> lifecycle state, or "none"]
    identified, \* the clients with a usable registrar identity
    holds,      \* [Client -> live keys and evidence]
    gone        \* keys and evidence disposed of, for good

vars == <<state, identified, holds, gone>>

Init ==
    /\ state = [c \in Client |-> "none"]
    /\ identified = {}
    /\ holds = [c \in Client |-> {}]
    /\ gone  = {}

Create(c) ==
    /\ state[c] = "none"
    /\ state' = [state EXCEPT ![c] = "draft"]
    /\ UNCHANGED <<identified, holds, gone>>

Identify(c) ==
    /\ state[c] # "none"
    /\ identified' = identified \cup {c}
    /\ UNCHANGED <<state, holds, gone>>

Move(c, t) ==
    /\ <<state[c], t>> \in LegalTransitions
    /\ Gated /\ t = "active" => c \in identified
    /\ state' = [state EXCEPT ![c] = t]
    /\ UNCHANGED <<identified, holds, gone>>

Accrue(c, i) ==
    /\ state[c] # "none"
    /\ i \notin gone /\ \A d \in Client : i \notin holds[d]
    /\ holds' = [holds EXCEPT ![c] = @ \cup {i}]
    /\ UNCHANGED <<state, identified, gone>>

Dispose(c) ==
    /\ state[c] = "offboarded"
    /\ holds' = [holds EXCEPT ![c] = {}]
    /\ gone'  = gone \cup holds[c]
    /\ UNCHANGED <<state, identified>>

Next ==
    \E c \in Client :
        \/ Create(c)
        \/ Identify(c)
        \/ \E t \in Status : Move(c, t)
        \/ \E i \in Item : Accrue(c, i)
        \/ Dispose(c)

Spec == Init /\ [][Next]_vars
=============================================================================
