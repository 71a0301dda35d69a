------------------------ MODULE LifecycleRefinement ------------------------
(***************************************************************************)
(* Lifecycle implements ClientLifecycle: without the gate for any number   *)
(* of concurrent requests, with it when one request runs at a time.        *)
(***************************************************************************)
EXTENDS Lifecycle

Identified == {c \in Client : UsableIdentity(identity[c])}
Holds == [c \in Client |-> LiveItems(c)]

Ungated == INSTANCE ClientLifecycle
             WITH Gated <- FALSE, state <- status,
                  identified <- Identified, holds <- Holds, gone <- purged

Gate == INSTANCE ClientLifecycle
             WITH Gated <- TRUE, state <- status,
                  identified <- Identified, holds <- Holds, gone <- purged

(***************************************************************************)
(* The transition handler, with any number of requests in flight, crashes  *)
(* and lost answers, moves a client along the matrix only, takes no        *)
(* usable identity away, purges offboarded clients alone and brings        *)
(* nothing back that was revoked or purged.                                *)
(***************************************************************************)
ImplementsLifecycle == Ungated!Spec

\* One request at a time: every activation finds a usable identity.
ImplementsGate == Gate!Spec
=============================================================================
