-------------------------- MODULE AuditedSettings --------------------------
(***************************************************************************)
(* What the registry promises about a client's settings, with no requests, *)
(* handlers, calls or failures: a setting changes in one way only, as one  *)
(* write of one setting of one client that is on the audit trail with the  *)
(* value it wrote.  The one exception is the browser-request mode: it is   *)
(* kept in a document other programs write, and what they may do to it is  *)
(* lose the choice.                                                        *)
(***************************************************************************)
EXTENDS Sequences

CONSTANTS
    Client,
    Setting,
    Initial,        \* [Setting -> the value before anyone wrote one]
    Mode,           \* the setting other programs can lose
    Safe            \* the value it has when it is lost

VARIABLES
    value,          \* [Client -> [Setting -> its value]]
    trail           \* [Client -> the writes so far, oldest first]

Init ==
    /\ value = [c \in Client |-> Initial]
    /\ trail = [c \in Client |-> <<>>]

Write(c, s) ==
    /\ trail' = [trail EXCEPT ![c] =
                   Append(@, [setting |-> s, value |-> value'[c][s]])]
    /\ value' = [value EXCEPT ![c] = [@ EXCEPT ![s] = value'[c][s]]]

Lose(c) ==
    /\ value' = [value EXCEPT ![c] = [@ EXCEPT ![Mode] = Safe]]
    /\ UNCHANGED trail

Next == \E c \in Client : Lose(c) \/ \E s \in Setting : Write(c, s)

Spec == Init /\ [][Next]_<<value, trail>>
=============================================================================
