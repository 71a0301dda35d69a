----------------------------- MODULE Onboarding -----------------------------
(***************************************************************************)
(* What is made once and told once: POST /api/clients creates a client and *)
(* reads it back to answer with its id, POST /api/clients/{id}/keys looks  *)
(* the client up, mints a key, stores its hash and shows the key.  There   *)
(* is no operation that lists or revokes keys, and none that deletes a     *)
(* client.  Requests interleave call by call; a call may fail with or      *)
(* without effect, the source of randomness may fail, and the service may  *)
(* die.                                                                    *)
(***************************************************************************)
EXTENDS Slug, ClientMatrix

CONSTANTS
    Request,        \* slots for concurrent requests
    Name,           \* the names callers give
    Prefix,         \* the key prefixes that may be drawn: two may be equal
    MaxArrivals     \* bound: how many creating requests are made

ASSUME NameAssumption == Name \subseteq Seq(Character)
ASSUME BoundAssumption == MaxArrivals \in Nat

VARIABLES
    client,     \* [id of a client -> its name, slug and status]
    nextId,     \* the number the next id is made of
    apiKeys,    \* the key rows: client, prefix, secret (as its hash)
    minted,     \* how many secrets were drawn
    arrived,    \* how many creating requests were made
    pc, job, resp,      \* the requests
    seen,       \* history: ids some caller was given by a list
    told,       \* history: ids of clients answered with 201
    shown,      \* history: the keys answered with 201, with their client
    faulted     \* history: whether a call ever failed or the service died

store    == <<client, nextId, apiKeys>>
requests == <<pc, job, resp>>
history  == <<seen, told, shown, faulted>>
vars     == <<store, minted, arrived, requests, history>>

Known == DOMAIN client
NoKey == [client |-> 0, prefix |-> "none", secret |-> 0]
NoJob == [name |-> <<>>, client |-> 0, key |-> NoKey, state |-> "none"]

Init ==
    /\ client  = <<>>
    /\ nextId  = 1
    /\ apiKeys = {}
    /\ minted  = 0
    /\ arrived = 0
    /\ pc      = [r \in Request |-> "idle"]
    /\ job     = [r \in Request |-> NoJob]
    /\ resp    = [r \in Request |-> "none"]
    /\ seen    = {} /\ told = {} /\ shown = {}
    /\ faulted = FALSE

-----------------------------------------------------------------------------
\* The store

CreateDraftClient_IdKept(name) ==
    /\ client' = [id \in Known \cup {nextId} |->
                    [name |-> name, slug |-> Slugify(name, id), status |-> "draft"]]
    /\ UNCHANGED <<nextId, apiKeys>>

CreateDraftClient(name) ==
    /\ client' = [id \in Known \cup {nextId} |->
                    IF id = nextId THEN [name   |-> name,
                                         slug   |-> Slugify(name, id),
                                         status |-> "draft"]
                                   ELSE client[id]]
    /\ nextId' = nextId + 2             \* the audit entry takes an id, too
    /\ UNCHANGED apiKeys

CreateAPIKey(key) ==
    /\ key.client \in Known
    /\ apiKeys' = apiKeys \cup {key}
    /\ UNCHANGED <<client, nextId>>

-----------------------------------------------------------------------------
\* POST /api/clients

Answers(r, a) ==
    /\ pc'   = [pc EXCEPT ![r] = "done"]
    /\ resp' = [resp EXCEPT ![r] = a]

Goto(r, label) == pc' = [pc EXCEPT ![r] = label] /\ resp' = [resp EXCEPT ![r] = "none"]

Free(r) == pc[r] \in {"idle", "done"}

Arrives(r) == Free(r) /\ arrived < MaxArrivals /\ arrived' = arrived + 1

\* The one check: a name that is not empty.
NameGiven(name) == name # <<>>

PostClient(r, name) ==
    /\ Arrives(r)
    /\ IF NameGiven(name)
       THEN /\ job' = [job EXCEPT ![r] = [NoJob EXCEPT !.name = name]]
            /\ Goto(r, "create")
       ELSE job' = [job EXCEPT ![r] = NoJob] /\ Answers(r, "invalid")
    /\ UNCHANGED <<store, minted, history>>

Create(r) ==
    /\ pc[r] = "create"
    /\ CreateDraftClient(job[r].name)
    /\ job' = [job EXCEPT ![r].client = nextId]
    /\ Goto(r, "readback")
    /\ UNCHANGED <<minted, arrived, history>>

ReadBack_Untold(r) ==
    /\ pc[r] = "readback"
    /\ job' = [job EXCEPT ![r].state = client[job[r].client].status]
    /\ IF client[job[r].client].status = "draft"
       THEN Answers(r, "created") /\ told' = told \cup {job[r].client}
       ELSE Answers(r, "conflict") /\ UNCHANGED told
    /\ UNCHANGED <<store, minted, arrived, seen, shown, faulted>>

ReadBack(r) ==
    /\ pc[r] = "readback"
    /\ job' = [job EXCEPT ![r].state = client[job[r].client].status]
    /\ Answers(r, "created")
    /\ told' = told \cup {job[r].client}
    /\ UNCHANGED <<store, minted, arrived, seen, shown, faulted>>

-----------------------------------------------------------------------------
\* POST /api/clients/{id}/keys

\* The key Mint returns, and the row that is stored of it.
Minted(c, prefix) == [client |-> c, prefix |-> prefix, secret |-> minted + 1]

PostKey(r, c) ==
    /\ Arrives(r)
    /\ job' = [job EXCEPT ![r] = [NoJob EXCEPT !.client = c]]
    /\ Goto(r, "lookup")
    /\ UNCHANGED <<store, minted, history>>

\* GetClientFull, and the minting that follows it.
LookUp(r, prefix) ==
    LET c == job[r].client
    IN  /\ pc[r] = "lookup"
        /\ c \in Known
        /\ job' = [job EXCEPT ![r].key = Minted(c, prefix)]
        /\ minted' = minted + 1
        /\ Goto(r, "store")
        /\ UNCHANGED <<store, arrived, history>>

LookUpRefused(r) ==
    /\ pc[r] = "lookup"
    /\ job[r].client \notin Known
    /\ Answers(r, "not_found")
    /\ UNCHANGED <<store, minted, arrived, job, history>>

\* The source of randomness runs dry; what it gave before is dropped.
MintFails(r) ==
    /\ pc[r] = "lookup"
    /\ job[r].client \in Known
    /\ Answers(r, "error")
    /\ UNCHANGED <<store, minted, arrived, job, history>>

StoreKey_ShowsAnother(r) ==
    /\ pc[r] = "store"
    /\ CreateAPIKey(job[r].key)
    /\ Answers(r, "created")
    /\ shown' = shown \cup {Minted(job[r].client, job[r].key.prefix)}
    /\ minted' = minted + 1
    /\ UNCHANGED <<arrived, job, seen, told, faulted>>

StoreKey_OnePerClient(r) ==
    LET first == \A k \in apiKeys : k.client # job[r].client
    IN  /\ pc[r] = "store"
        /\ CreateAPIKey(job[r].key)
        /\ Answers(r, IF first THEN "created" ELSE "conflict")
        /\ shown' = shown \cup (IF first THEN {job[r].key} ELSE {})
        /\ UNCHANGED <<minted, arrived, job, seen, told, faulted>>

StoreKey(r) ==
    /\ pc[r] = "store"
    /\ CreateAPIKey(job[r].key)
    /\ Answers(r, "created")
    /\ shown' = shown \cup {job[r].key}
    /\ UNCHANGED <<minted, arrived, job, seen, told, faulted>>

-----------------------------------------------------------------------------
\* GET /api/clients, for all states or for one; and what a caller does with
\* an id it was told or found in a list: a transition (module Lifecycle) along
\* an edge without a gate.

ListClients(r, states) ==
    /\ Free(r)
    /\ job' = [job EXCEPT ![r] = NoJob]
    /\ Answers(r, "ok")
    /\ seen' = seen \cup {c \in Known : client[c].status \in states}
    /\ UNCHANGED <<store, minted, arrived, told, shown, faulted>>

Transition(c, to) ==
    /\ c \in told \cup seen
    /\ <<client[c].status, to>> \in LegalTransitions
    /\ to # "active"
    /\ client' = [client EXCEPT ![c].status = to]
    /\ nextId' = nextId + 1
    /\ UNCHANGED <<apiKeys, minted, arrived, requests, history>>

-----------------------------------------------------------------------------
\* Failures

Fails(r) ==
    /\ Answers(r, "unavailable")
    /\ faulted' = TRUE
    /\ UNCHANGED <<minted, arrived, seen, told, shown>>

CallFails(r) ==
    /\ pc[r] \in {"create", "readback", "lookup", "store"}
    /\ Fails(r)
    /\ UNCHANGED <<store, job>>

\* The call commits and the handler is told it failed: it does not learn the
\* id of the client, and does not show the key.
AnswerLost(r) ==
    /\ \/ pc[r] = "create" /\ CreateDraftClient(job[r].name)
       \/ pc[r] = "store" /\ CreateAPIKey(job[r].key)
    /\ Fails(r)
    /\ UNCHANGED job

Crash ==
    /\ pc   # [r \in Request |-> "idle"]
    /\ pc'   = [r \in Request |-> "idle"]
    /\ job'  = [r \in Request |-> NoJob]
    /\ resp' = [r \in Request |-> "none"]
    /\ faulted' = TRUE
    /\ UNCHANGED <<store, minted, arrived, seen, told, shown>>

-----------------------------------------------------------------------------
\* Ids a caller may ask for: those it was told or found, and one nobody has.
Asked == told \cup seen \cup {0}

Next ==
    \/ \E r \in Request :
          \/ \E name \in Name : PostClient(r, name)
          \/ \E c \in Asked : PostKey(r, c)
          \/ \E prefix \in Prefix : LookUp(r, prefix)
          \/ \E states \in {Status} \cup {{s} : s \in Status} : ListClients(r, states)
          \/ Create(r) \/ ReadBack(r) \/ LookUpRefused(r) \/ MintFails(r)
          \/ StoreKey(r) \/ CallFails(r) \/ AnswerLost(r)
    \/ \E c \in Known, to \in Status : Transition(c, to)
    \/ Crash

Spec == Init /\ [][Next]_vars

-----------------------------------------------------------------------------
\* Type invariant.
TypeOK ==
    /\ Known \subseteq 1..nextId - 1
    /\ \A c \in Known : client[c].name \in Name /\ client[c].status \in Status
    /\ \A k \in apiKeys \cup shown :
          k.client \in Known /\ k.prefix \in Prefix /\ k.secret \in 1..minted
    /\ minted \in 0..arrived /\ arrived \in 0..MaxArrivals
    /\ pc \in [Request -> {"idle", "create", "readback", "lookup", "store", "done"}]
    /\ seen \subseteq Known /\ told \subseteq Known
    /\ faulted \in BOOLEAN

(***************************************************************************)
(* api.go:125-136: the caller learns the id of a client from the answer    *)
(* alone.  Only a failure leaves a client nobody was told of.              *)
(***************************************************************************)
OnlyFaultsOrphanClients ==
    ~faulted => \A c \in Known :
        c \in told \/ \E r \in Request : pc[r] = "readback" /\ job[r].client = c

(***************************************************************************)
(* api_keys.go:23-28: the key is shown once, and there is no list or       *)
(* revoke.  Only a failure leaves a key that works and that nobody holds.  *)
(***************************************************************************)
OnlyFaultsLoseKeys == ~faulted => apiKeys \subseteq shown

(***************************************************************************)
(* apikeys.go:51: a key that was shown is one whose row and hash are       *)
(* stored for that client, even if two keys drew the same prefix; and no   *)
(* secret is shown twice.                                                  *)
(***************************************************************************)
ShownKeysWork ==
    /\ shown \subseteq apiKeys
    /\ \A k, l \in shown : k.secret = l.secret => k = l

(***************************************************************************)
(* fake.go:111-119: a slug keeps the rules of a slug and follows the name, *)
(* and two clients never share one, whatever their names, as long as their *)
(* ids differ in their last 7 digits.                                      *)
(***************************************************************************)
SlugsAreHandles ==
    /\ \A c \in Known : /\ WellFormedBase(client[c].slug[1])
                        /\ FollowsName(client[c].slug[1], client[c].name)
    /\ \A c, d \in Known :
          c < d /\ d - c < SuffixSpan => client[c].slug # client[d].slug
=============================================================================
