----------------------------- MODULE Lifecycle -----------------------------
(***************************************************************************)
(* POST /api/clients/{id}/transition: several requests in flight at once,  *)
(* each running lifecycle.Service.Transition over the shared registry      *)
(* store, beside the handlers that write what the activation gate reads    *)
(* and what the offboarding purge clears.                                  *)
(*                                                                         *)
(* Every Store method is one call of a database procedure and is atomic;   *)
(* a Transition is up to three of them, and other requests run in between. *)
(* A call may fail without effect, take effect and still return an error   *)
(* (the answer is lost), and the service may crash between any two calls.  *)
(***************************************************************************)
EXTENDS ClientMatrix

CONSTANTS
    Client,         \* client ids
    NoClient,       \* the owner of a key or an evidence row not yet created
    Request,        \* slots for concurrent transition requests
    Key,            \* API keys that may be minted
    Evidence,       \* evidence rows that may be added
    UseId,          \* intended-use ids of a registration document
    Target,         \* target states the callers ask for
    TS5Verdicts     \* what the TS5OK hook may answer ({TRUE}: the default)

ASSUME ClientAssumption  == NoClient \notin Client
ASSUME ItemAssumption    == Key \cap Evidence = {}
ASSUME TargetAssumption  == Target \subseteq Status
ASSUME VerdictAssumption == TS5Verdicts \subseteq BOOLEAN

Item == Key \cup Evidence

\* A registrar identity: the shape of the stored URL, and whether there is an
\* identifier next to it.
Identity   == [uri : {"empty", "not_https", "https"}, id : BOOLEAN]
NoIdentity == [uri |-> "empty", id |-> FALSE]

IntendedUse == [id : UseId, revoked : BOOLEAN]

\* The rows of a client: one for an id (the business key).
UseRows == {us \in SUBSET IntendedUse : \A u, v \in us : u.id = v.id => u = v}

VARIABLES
    \* registry.client and its projections
    status,     \* [Client -> state, or "none" before the row exists]
    identity,   \* [Client -> registry_uri and client_identifier]
    uses,       \* [Client -> set of intended-use rows]
    \* registry.api_key and registry.evidence
    owner,      \* [Item -> the client the row belongs to]
    purged,     \* keys revoked and evidence rows whose content is gone
    \* audit.entry: the newest client.transition entry of each client
    lastEdge,   \* [Client -> <<from, to>>, or <<>> when there is none]
    \* the transition requests
    pc,         \* [Request -> the store call the request makes next]
    job,        \* [Request -> its arguments, what it read, what it owes]
    resp,       \* [Request -> its answer]
    replaced    \* history: the activations about to flip whose client had its
                \* intended uses replaced after they were checked

store == <<status, identity, uses, owner, purged, lastEdge>>
requests == <<pc, job, resp>>
vars  == <<store, requests, replaced>>

Calls  == {"read", "uses", "flip", "purge"}
Pc     == {"idle", "done"} \cup Calls
Answer == {"none", "ok", "not_found", "conflict", "invalid", "unavailable",
           "identity_required", "use_required", "ts5_failed"}

(***************************************************************************)
(* A request's local state.  seen is the status of the row GetClientFull   *)
(* returned ("none" before that).  retry and owed are history: whether an  *)
(* offboarding request found the client offboarded already when it was     *)
(* made, and the keys and evidence the client had at that moment.          *)
(***************************************************************************)
Job   == [client : Client \cup {NoClient}, to : Status \cup {"none"},
          seen : Status \cup {"none"}, retry : BOOLEAN, owed : SUBSET Item]
NoJob == [client |-> NoClient, to |-> "none", seen |-> "none",
          retry |-> FALSE, owed |-> {}]

-----------------------------------------------------------------------------
\* What is stored

LiveItems(c) == {i \in Item : owner[i] = c} \ purged

\* lifecycle.isAbsoluteHTTPSURL and the emptiness test of the gate
UsableIdentity(ident) == ident.id /\ ident.uri = "https"

AnyNonRevoked(us) == \E u \in us : ~u.revoked

\* What README.md requires of a client that is made active.
GateOpen(c) == UsableIdentity(identity[c]) /\ AnyNonRevoked(uses[c])

\* A request that passed the gate, which is asked for on the two legal edges
\* into "active" alone, and has only the flip before it.
AboutToActivate(r) ==
    /\ pc[r] = "flip" /\ job[r].to = "active"
    /\ job[r].seen \in ActivePredecessors

-----------------------------------------------------------------------------
Init ==
    /\ status   = [c \in Client |-> "none"]
    /\ identity = [c \in Client |-> NoIdentity]
    /\ uses     = [c \in Client |-> {}]
    /\ owner    = [i \in Item |-> NoClient]
    /\ purged   = {}
    /\ lastEdge = [c \in Client |-> <<>>]
    /\ pc       = [r \in Request |-> "idle"]
    /\ job      = [r \in Request |-> NoJob]
    /\ resp     = [r \in Request |-> "none"]
    /\ replaced = {}

-----------------------------------------------------------------------------
\* The other handlers

\* POST /api/clients.  The id is fresh, the row starts in "draft".
CreateDraftClient(c) ==
    /\ status[c] = "none"
    /\ status' = [status EXCEPT ![c] = "draft"]
    /\ UNCHANGED <<identity, uses, owner, purged, lastEdge, requests, replaced>>

\* PUT /api/clients/{id}/registrar-identity.  The handler refuses an empty
\* field and a URL that is not absolute https before it calls the store, which
\* knows the client or answers not_found.
AcceptedIdentity_AnyURL(ident) == ident.uri # "empty" /\ ident.id

AcceptedIdentity(ident) ==
    /\ ident.uri # "empty" /\ ident.id
    /\ ident.uri = "https"

SetRegistrarIdentity(c, ident) ==
    /\ AcceptedIdentity(ident)
    /\ status[c] # "none"
    /\ identity' = [identity EXCEPT ![c] = ident]
    /\ UNCHANGED <<status, uses, owner, purged, lastEdge, requests, replaced>>

\* PUT /api/clients/{id}/registration.  FormState.Build wants at least one
\* intended use and never sets revoked_at; SaveWRPDocument replaces them all.
BuiltUses(ids) == {[id |-> u, revoked |-> FALSE] : u \in ids}

SetRegistration(c, ids) ==
    /\ ids # {}
    /\ status[c] # "none"
    /\ uses' = [uses EXCEPT ![c] = BuiltUses(ids)]
    /\ UNCHANGED <<status, identity, owner, purged, lastEdge, requests, replaced>>

\* Store.SetIntendedUses, called by the filing confirmation: the rows become
\* the list it sends, whatever that is.  Nothing asks that one is left, or that
\* one is not revoked; a list read before a submission may be sent after it.
SetIntendedUses(c, us) ==
    /\ status[c] # "none"
    /\ uses' = [uses EXCEPT ![c] = us]
    /\ replaced' = replaced \cup {r \in Request : AboutToActivate(r) /\ job[r].client = c}
    /\ UNCHANGED <<status, identity, owner, purged, lastEdge, requests>>

\* POST /api/clients/{id}/keys.  Only the existence of the client is asked
\* for, in whatever state it is; a client row is never deleted, so reading it
\* first and inserting the key later is the same as doing both at once.
CreateKey(c, k) ==
    /\ status[c] # "none"
    /\ owner[k] = NoClient
    /\ owner' = [owner EXCEPT ![k] = c]
    /\ UNCHANGED <<status, identity, uses, purged, lastEdge, requests, replaced>>

\* Store.AddEvidence, with the same existence check and no other.
AddEvidence(c, e) ==
    /\ status[c] # "none"
    /\ owner[e] = NoClient
    /\ owner' = [owner EXCEPT ![e] = c]
    /\ UNCHANGED <<status, identity, uses, purged, lastEdge, requests, replaced>>

-----------------------------------------------------------------------------
\* The transition handler, one action per store call

\* A request arrives.  Only -> active and -> offboarded read the client first.
Begin(r, c, t) ==
    /\ pc[r] \in {"idle", "done"}
    /\ pc'   = [pc EXCEPT ![r] =
                   IF t \in {"active", "offboarded"} THEN "read" ELSE "flip"]
    /\ job'  = [job EXCEPT ![r] =
                   [client |-> c, to |-> t, seen |-> "none",
                    retry  |-> t = "offboarded" /\ status[c] = "offboarded",
                    owed   |-> IF t = "offboarded" THEN LiveItems(c) ELSE {}]]
    /\ resp' = [resp EXCEPT ![r] = "none"]
    /\ UNCHANGED <<store, replaced>>

Answers(r, a) ==
    /\ pc'   = [pc EXCEPT ![r] = "done"]
    /\ resp' = [resp EXCEPT ![r] = a]
    /\ job'  = [job EXCEPT ![r].seen = "none"]
    /\ replaced' = replaced \ {r}

Goto(r, label) ==
    /\ pc'   = [pc EXCEPT ![r] = label]
    /\ resp' = resp
    /\ replaced' = replaced

\* The precondition is asked for on the legal edges into "active" alone: from
\* any other state the store's own refusal is the right answer.
GateApplies_Reactivation(c, t) == t = "active" /\ status[c] = "suspended"

GateApplies(c, t) == t = "active" /\ status[c] \in ActivePredecessors

\* The offboarding that a purge failure left behind: only the purge is left.
AlreadyOffboarded_Forgotten(c, t) == FALSE

AlreadyOffboarded(c, t) == t = "offboarded" /\ status[c] = "offboarded"

\* GetClientFull, and the branch on the row it returned.  The identity half of
\* the activation gate looks at that row: it needs no further read.
Read(r) ==
    LET c == job[r].client
        t == job[r].to
        HandOver(label) ==
            /\ job' = [job EXCEPT ![r].seen = status[c]]
            /\ Goto(r, label)
    IN  /\ pc[r] = "read"
        /\ \/ status[c] = "none" /\ Answers(r, "not_found")
           \/ /\ GateApplies(c, t) /\ ~UsableIdentity(identity[c])
              /\ Answers(r, "identity_required")
           \/ /\ GateApplies(c, t) /\ UsableIdentity(identity[c])
              /\ HandOver("uses")
           \/ AlreadyOffboarded(c, t) /\ HandOver("purge")
           \/ /\ status[c] # "none"
              /\ ~GateApplies(c, t) /\ ~AlreadyOffboarded(c, t)
              /\ HandOver("flip")
        /\ UNCHANGED store

\* ListIntendedUses, then the TS5OK hook: the rest of the activation gate.
CheckUses(r) ==
    /\ pc[r] = "uses"
    /\ \/ ~AnyNonRevoked(uses[job[r].client]) /\ Answers(r, "use_required")
       \/ /\ AnyNonRevoked(uses[job[r].client])
          /\ \/ FALSE \in TS5Verdicts /\ Answers(r, "ts5_failed")
             \/ TRUE \in TS5Verdicts /\ job' = job /\ Goto(r, "flip")
    /\ UNCHANGED store

\* registry.transition_client: the flip and its audit entry, together.
TransitionClient_AnyEdge(c, t) ==
    /\ status[c] # "none"
    /\ status'   = [status EXCEPT ![c] = t]
    /\ lastEdge' = [lastEdge EXCEPT ![c] = <<status[c], t>>]
    /\ UNCHANGED <<identity, uses, owner, purged>>

TransitionClient_SkipsAudit(c, t) ==
    /\ <<status[c], t>> \in LegalTransitions
    /\ status'   = [status EXCEPT ![c] = t]
    /\ lastEdge' = [lastEdge EXCEPT ![c] =
                       IF t = "suspended" THEN @ ELSE <<status[c], t>>]
    /\ UNCHANGED <<identity, uses, owner, purged>>

TransitionClient(c, t) ==
    /\ <<status[c], t>> \in LegalTransitions
    /\ status'   = [status EXCEPT ![c] = t]
    /\ lastEdge' = [lastEdge EXCEPT ![c] = <<status[c], t>>]
    /\ UNCHANGED <<identity, uses, owner, purged>>

Refusal_Swallowed(c) == IF status[c] = "none" THEN "not_found" ELSE "ok"

Refusal(c) == IF status[c] = "none" THEN "not_found" ELSE "conflict"

\* The store's verdict on the edge is the answer, except that an offboarding
\* that was flipped goes on to its purge.
AfterFlip_NoPurge(r) == Answers(r, "ok")

AfterFlip(r) ==
    \/ job[r].to = "offboarded" /\ job' = job /\ Goto(r, "purge")
    \/ job[r].to # "offboarded" /\ Answers(r, "ok")

Flip(r) ==
    LET c == job[r].client
        t == job[r].to
    IN  /\ pc[r] = "flip"
        /\ \/ TransitionClient(c, t) /\ AfterFlip(r)
           \/ /\ <<status[c], t>> \notin LegalTransitions
              /\ Answers(r, Refusal(c)) /\ UNCHANGED store

\* registry.purge_offboarded: keys revoked, evidence content dropped.
PurgeOffboarded_EvidenceOnly(c) ==
    /\ status[c] = "offboarded"
    /\ purged' = purged \cup {i \in Evidence : owner[i] = c}
    /\ UNCHANGED <<status, identity, uses, owner, lastEdge>>

PurgeOffboarded_EveryClient(c) ==
    /\ status[c] = "offboarded"
    /\ purged' = purged \cup {i \in Item : owner[i] # NoClient}
    /\ UNCHANGED <<status, identity, uses, owner, lastEdge>>

PurgeOffboarded(c) ==
    /\ status[c] = "offboarded"
    /\ purged' = purged \cup {i \in Item : owner[i] = c}
    /\ UNCHANGED <<status, identity, uses, owner, lastEdge>>

Purge(r) ==
    LET c == job[r].client
    IN  /\ pc[r] = "purge"
        /\ \/ PurgeOffboarded(c) /\ Answers(r, "ok")
           \/ status[c] # "offboarded" /\ Answers(r, "invalid") /\ UNCHANGED store

-----------------------------------------------------------------------------
\* What goes wrong around the handler

\* A store call fails and has no effect: its error is the request's answer.
CallFails(r) ==
    /\ pc[r] \in Calls
    /\ Answers(r, "unavailable")
    /\ UNCHANGED store

\* The flip is committed and its answer lost: the handler sees an error and
\* returns it, so the purge that should follow an offboarding does not run.
FlipAnswerLost(r) ==
    /\ pc[r] = "flip"
    /\ TransitionClient(job[r].client, job[r].to)
    /\ Answers(r, "unavailable")

PurgeAnswerLost(r) ==
    /\ pc[r] = "purge"
    /\ PurgeOffboarded(job[r].client)
    /\ Answers(r, "unavailable")

\* The service dies: every request in flight is gone, the store is not.
Crash ==
    /\ pc   # [r \in Request |-> "idle"]
    /\ pc'   = [r \in Request |-> "idle"]
    /\ job'  = [r \in Request |-> NoJob]
    /\ resp' = [r \in Request |-> "none"]
    /\ replaced' = {}
    /\ UNCHANGED store

-----------------------------------------------------------------------------
Step(r) == Read(r) \/ CheckUses(r) \/ Flip(r) \/ Purge(r)

Fault(r) == CallFails(r) \/ FlipAnswerLost(r) \/ PurgeAnswerLost(r)

Config(c) ==
    \/ CreateDraftClient(c)
    \/ \E ident \in Identity : SetRegistrarIdentity(c, ident)
    \/ \E ids \in SUBSET UseId : SetRegistration(c, ids)
    \/ \E us \in UseRows : SetIntendedUses(c, us)
    \/ \E k \in Key : CreateKey(c, k)
    \/ \E e \in Evidence : AddEvidence(c, e)

Next ==
    \/ \E c \in Client : Config(c)
    \/ \E r \in Request, c \in Client, t \in Target : Begin(r, c, t)
    \/ \E r \in Request : Step(r) \/ Fault(r)
    \/ Crash

Spec == Init /\ [][Next]_vars

-----------------------------------------------------------------------------
\* Type invariant: every variable keeps the shape the code gives it.
TypeOK ==
    /\ status \in [Client -> Status \cup {"none"}]
    /\ identity \in [Client -> Identity]
    /\ uses \in [Client -> UseRows]
    /\ owner \in [Item -> Client \cup {NoClient}]
    /\ purged \subseteq Item
    /\ lastEdge \in [Client -> LegalTransitions \cup {<<>>}]
    /\ pc \in [Request -> Pc]
    /\ job \in [Request -> Job]
    /\ resp \in [Request -> Answer]
    /\ replaced \subseteq Request

(***************************************************************************)
(* The activation gate is two reads and a write (lifecycle.go:133 and 144: *)
(* the snapshot is used after two more store calls), and any request may   *)
(* run in between.  What was checked of the identity is still true when    *)
(* the client is flipped, from the first read on.  What was checked of the *)
(* intended uses is, unless a confirmation replaced them: a submission     *)
(* never takes the last usable one away.                                   *)
(***************************************************************************)
CheckedIsStillTrue ==
    \A r \in Request :
        /\ pc[r] = "uses" \/ AboutToActivate(r)
              => UsableIdentity(identity[job[r].client])
        /\ AboutToActivate(r) /\ r \notin replaced
              => AnyNonRevoked(uses[job[r].client])

(***************************************************************************)
(* README.md, Client lifecycle: "-> active" requires a recorded registrar  *)
(* identity and at least one non-revoked intended use.                     *)
(***************************************************************************)
ActivationIsGated ==
    [][\A c \in Client :
          status[c] # "active" /\ status'[c] = "active" => GateOpen(c)]_vars

(***************************************************************************)
(* An offboarding that is answered with success is complete, whichever     *)
(* attempt did the flip and whatever failed on the way: the client is      *)
(* offboarded, and every key and every evidence row it had when the        *)
(* request was made is revoked or purged.                                  *)
(***************************************************************************)
OffboardOkMeansPurged ==
    \A r \in Request :
        pc[r] = "done" /\ job[r].to = "offboarded" /\ resp[r] = "ok" =>
            /\ status[job[r].client] = "offboarded"
            /\ job[r].owed \subseteq purged

(***************************************************************************)
(* "An operator retrying offboard after a previous purge failure gets a    *)
(* retry, not a 409" (lifecycle.go:113): a request made when the client is *)
(* offboarded already is answered with success or with a store failure,    *)
(* and no purge is ever refused because the client is not offboarded.      *)
(***************************************************************************)
RetryNeverConflicts ==
    \A r \in Request :
        /\ resp[r] # "invalid"
        /\ pc[r] = "done" /\ job[r].retry => resp[r] \in {"ok", "unavailable"}

(***************************************************************************)
(* "Returning nil already guarantees the client's current status IS        *)
(* targetState" (routes/api.go:178): what the handler is about to answer   *)
(* is the state of the client.                                             *)
(***************************************************************************)
AnsweredStateIsCurrent ==
    \A r \in Request :
        pc[r] = "done" /\ resp[r] = "ok" => status[job[r].client] = job[r].to

(***************************************************************************)
(* The audit trail of a client is one walk through the matrix, whichever   *)
(* requests took the steps: an entry starts where the one before it ended  *)
(* (in "draft" when it is the first), and the newest entry names the state *)
(* the client is in.                                                       *)
(***************************************************************************)
LastAudited(c) == IF lastEdge[c] = <<>> THEN "draft" ELSE lastEdge[c][2]

AuditIsCurrent ==
    \A c \in Client : status[c] # "none" => status[c] = LastAudited(c)

AuditIsAWalk ==
    [][\A c \in Client : lastEdge'[c] # lastEdge[c] =>
           lastEdge'[c] # <<>> /\ lastEdge'[c][1] = LastAudited(c)]_vars
=============================================================================
