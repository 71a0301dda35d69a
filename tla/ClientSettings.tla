--------------------------- MODULE ClientSettings ---------------------------
(***************************************************************************)
(* The four setters of a client: PUT webhook, allowed-origins,             *)
(* dcapi-request-mode and registrar-identity.  A setter checks its body,   *)
(* calls the store, which checks again, and, except for the identity,      *)
(* reads the client back to answer with what is stored.  Requests run      *)
(* between the two calls, and so do the programs that own the other        *)
(* verification choices in the client's policy document.  A call may fail  *)
(* with or without effect, and the service may die.                        *)
(***************************************************************************)
EXTENDS WebAddress

CONSTANTS
    Client,         \* client ids
    Request,        \* slots for concurrent requests
    Webhook,        \* the webhook URLs callers send
    Origins,        \* the origin lists callers send
    Identity,       \* the registrar identities callers send
    OtherChoices,   \* what other programs keep in a policy document:
                    \* functions from the name of a choice
    Absent,         \* a body without the field, or no JSON at all
    Unreadable,     \* a policy document that is no JSON object
    MaxArrivals     \* bound: how many requests are made

Setting == {"webhook", "origins", "mode", "identity"}
Modes   == {"signed", "unsigned"}
Flag    == "require_signed_dcapi"

NoChoices == [k \in {} |-> TRUE]
NoPolicy  == NoChoices
NoIdentity == [uri |-> NoAddress, id |-> ""]

ASSUME ValuesAssumption ==
    /\ Webhook \subseteq Address
    /\ \A list \in Origins \ {Absent} : list \in Seq(Address)
    /\ \A ident \in Identity : ident \in [uri : Address, id : STRING]

ASSUME BoundAssumption == MaxArrivals \in Nat

\* A document of other programs knows nothing of the flag, and is readable
\* without it as well as with it.
ASSUME PolicyAssumption ==
    /\ NoChoices \in OtherChoices /\ NoPolicy # Unreadable
    /\ \A p \in OtherChoices :
          /\ p = [k \in DOMAIN p |-> p[k]] /\ p # Unreadable
          /\ Flag \notin DOMAIN p
          /\ \A b \in BOOLEAN :
                Unreadable # [k \in DOMAIN p \cup {Flag} |-> IF k = Flag THEN b ELSE p[k]]

VARIABLES
    known,      \* the clients that exist
    webhook,    \* [Client -> default_webhook_url]
    origins,    \* [Client -> allowed_origins]
    identity,   \* [Client -> registry_uri and client_identifier]
    policy,     \* [Client -> its policy document: [choice -> value]]
    trail,      \* [Client -> its client.set_* audit entries, oldest first]
    arrived,    \* how many requests were made
    pc, job, resp,      \* the requests
    others,     \* history: [Client -> the other choices, as last written]
    damaged     \* history: clients whose policy was ever unreadable

settings == <<webhook, origins, identity, policy>>
store    == <<known, settings, trail>>
requests == <<pc, job, resp>>
outside  == <<others, damaged>>
vars     == <<store, arrived, requests, outside>>

\* wrote and saw are history: the length of the trail with the request's own
\* entry, and when it read the client back.
NoJob == [client |-> "none", setting |-> "none", value |-> "none",
          told |-> "none", wrote |-> 0, saw |-> 0]

Init ==
    /\ known    = {}
    /\ webhook  = [c \in Client |-> NoAddress]
    /\ origins  = [c \in Client |-> <<>>]
    /\ identity = [c \in Client |-> NoIdentity]
    /\ policy   = [c \in Client |-> NoPolicy]
    /\ trail    = [c \in Client |-> <<>>]
    /\ arrived  = 0
    /\ pc       = [r \in Request |-> "idle"]
    /\ job      = [r \in Request |-> NoJob]
    /\ resp     = [r \in Request |-> "none"]
    /\ others   = [c \in Client |-> NoChoices]
    /\ damaged  = {}

\* POST /api/clients: a client with none of the settings.
CreateDraftClient(c) ==
    /\ c \notin known
    /\ known' = known \cup {c}
    /\ UNCHANGED <<settings, trail, arrived, requests, outside>>

-----------------------------------------------------------------------------
\* Reading a client

StoredDCAPIMode_AbsentIsUnsigned(p) ==
    IF p # Unreadable /\ Flag \in DOMAIN p /\ p[Flag] THEN "signed" ELSE "unsigned"

\* Absence of the flag, and an unreadable document, mean signed.
StoredDCAPIMode(p) ==
    IF p # Unreadable /\ Flag \in DOMAIN p /\ ~p[Flag] THEN "unsigned" ELSE "signed"

\* What GetClientFull tells of one setting.
Stored(c, s) ==
    CASE s = "webhook"  -> webhook[c]
      [] s = "origins"  -> origins[c]
      [] s = "identity" -> identity[c]
      [] s = "mode"     -> StoredDCAPIMode(policy[c])

-----------------------------------------------------------------------------
(***************************************************************************)
(* The store.  Each setter is one procedure: it refuses, or it writes its  *)
(* column and the audit entry together.                                    *)
(***************************************************************************)
Audit(c, s, v) ==
    trail' = [trail EXCEPT ![c] = Append(@, [setting |-> s, value |-> v])]

SetClientWebhook_WholeRow(c, url) ==
    /\ webhook' = [webhook EXCEPT ![c] = url]
    /\ origins' = [origins EXCEPT ![c] = <<>>]
    /\ Audit(c, "webhook", url)
    /\ UNCHANGED <<identity, policy>>

SetClientWebhook(c, url) ==
    /\ webhook' = [webhook EXCEPT ![c] = url]
    /\ Audit(c, "webhook", url)
    /\ UNCHANGED <<origins, identity, policy>>

SetClientAllowedOrigins_Appends(c, list) ==
    /\ origins' = [origins EXCEPT ![c] = @ \o list]
    /\ Audit(c, "origins", list)
    /\ UNCHANGED <<webhook, identity, policy>>

SetClientAllowedOrigins(c, list) ==
    /\ origins' = [origins EXCEPT ![c] = list]
    /\ Audit(c, "origins", list)
    /\ UNCHANGED <<webhook, identity, policy>>

SetClientRegistrarIdentity_Unaudited(c, ident) ==
    /\ identity' = [identity EXCEPT ![c] = ident]
    /\ UNCHANGED <<webhook, origins, policy, trail>>

SetClientRegistrarIdentity(c, ident) ==
    /\ identity' = [identity EXCEPT ![c] = ident]
    /\ Audit(c, "identity", ident)
    /\ UNCHANGED <<webhook, origins, policy>>

Merged_Replaced(p, mode) == [k \in {Flag} |-> mode = "signed"]

Merged_DefaultLeftOut(p, mode) ==
    [k \in (DOMAIN p \ {Flag}) \cup (IF mode = "signed" THEN {} ELSE {Flag}) |->
        IF k = Flag THEN FALSE ELSE p[k]]

\* The flag is merged into the document, whatever else it holds.
Merged(p, mode) ==
    [k \in DOMAIN p \cup {Flag} |-> IF k = Flag THEN mode = "signed" ELSE p[k]]

SetClientDCAPIMode(c, mode) ==
    /\ policy' = [policy EXCEPT ![c] = Merged(@, mode)]
    /\ Audit(c, "mode", mode)
    /\ UNCHANGED <<webhook, origins, identity>>

Set(c, s, v) ==
    \/ s = "webhook"  /\ SetClientWebhook(c, v)
    \/ s = "origins"  /\ SetClientAllowedOrigins(c, v)
    \/ s = "identity" /\ SetClientRegistrarIdentity(c, v)
    \/ s = "mode"     /\ SetClientDCAPIMode(c, v)

MaxOrigins == 20

\* The validation of the procedures, before they look for the client.
Valid_AnyOrigins(s, v) ==
    /\ s = "webhook" => WebhookPattern(v)
    /\ s = "mode"    => v \in Modes

Valid(s, v) ==
    /\ s = "webhook" => WebhookPattern(v)
    /\ s = "origins" => /\ Len(v) <= MaxOrigins
                        /\ \A i \in 1..Len(v) : WebOriginPattern(v[i])
    /\ s = "mode"    => v \in Modes

StoreAnswer(c, s, v) ==
    IF ~Valid(s, v) THEN "invalid"
    ELSE IF c \notin known THEN "not_found"
    ELSE IF s = "mode" /\ policy[c] = Unreadable THEN "error"
    ELSE "ok"

-----------------------------------------------------------------------------
\* The handlers

Answers(r, a) ==
    /\ pc'   = [pc EXCEPT ![r] = "done"]
    /\ resp' = [resp EXCEPT ![r] = a]

Goto(r, label) == pc' = [pc EXCEPT ![r] = label] /\ resp' = resp

\* A request arrives and is turned away by its handler, or goes on to the store.
Arrives(r, c, s, v, accepted) ==
    /\ pc[r] \in {"idle", "done"}
    /\ arrived < MaxArrivals /\ arrived' = arrived + 1
    /\ \/ /\ accepted
          /\ job' = [job EXCEPT ![r] =
                       [NoJob EXCEPT !.client = c, !.setting = s, !.value = v]]
          /\ pc' = [pc EXCEPT ![r] = "write"]
          /\ resp' = [resp EXCEPT ![r] = "none"]
       \/ /\ ~accepted
          /\ job' = [job EXCEPT ![r] = NoJob]
          /\ Answers(r, "invalid")
    /\ UNCHANGED <<store, outside>>

\* Only the presence of the URL is the handler's to check.
PutWebhook(r, c, url) ==
    Arrives(r, c, "webhook", url, url # NoAddress)

AreWebOrigins_AnyPort(list) ==
    \A i \in DOMAIN list :
        IsWebOrigin([list[i] EXCEPT !.port = IF @ = "x" THEN "8443" ELSE @])

AreWebOrigins(list) == \A i \in DOMAIN list : IsWebOrigin(list[i])

\* An empty list is a list; a missing one is none.
PutAllowedOrigins(r, c, list) ==
    Arrives(r, c, "origins", list, list # Absent /\ AreWebOrigins(list))

PutDCAPIRequestMode(r, c, mode) ==
    Arrives(r, c, "mode", mode, mode \in Modes)

\* The store does not look at the identity at all.
AcceptableIdentity(ident) ==
    /\ ident.uri # NoAddress /\ ident.id # ""
    /\ IsAbsoluteHTTPSURL(ident.uri)

PutRegistrarIdentity(r, c, ident) ==
    Arrives(r, c, "identity", ident, AcceptableIdentity(ident))

\* The call commits for the request r.
Commits(r) ==
    LET j == job[r]
    IN  /\ pc[r] = "write"
        /\ StoreAnswer(j.client, j.setting, j.value) = "ok"
        /\ Set(j.client, j.setting, j.value)
        /\ job' = [job EXCEPT ![r].wrote = Len(trail[j.client]) + 1]
        /\ UNCHANGED known

\* 204 for the identity, the read-back for the others.
Write(r) ==
    /\ Commits(r)
    /\ IF job[r].setting = "identity" THEN Answers(r, "ok") ELSE Goto(r, "readback")
    /\ UNCHANGED <<arrived, outside>>

WriteRefused(r) ==
    LET answer == StoreAnswer(job[r].client, job[r].setting, job[r].value)
    IN  /\ pc[r] = "write"
        /\ answer # "ok"
        /\ Answers(r, answer)
        /\ UNCHANGED <<store, arrived, job, outside>>

Told_AsAsked(j) == j.value

\* The value GetClientFull finds, which may be another request's by now.
Told(j) == Stored(j.client, j.setting)

ReadBack(r) ==
    /\ pc[r] = "readback"
    /\ job' = [job EXCEPT ![r].told = Told(job[r]),
                          ![r].saw  = Len(trail[job[r].client])]
    /\ Answers(r, "ok")
    /\ UNCHANGED <<store, arrived, outside>>

-----------------------------------------------------------------------------
\* Failures

CallFails(r) ==
    /\ pc[r] \in {"write", "readback"}
    /\ Answers(r, "unavailable")
    /\ UNCHANGED <<store, arrived, job, outside>>

\* The write commits and the handler is told it failed.
AnswerLost(r) ==
    /\ Commits(r)
    /\ Answers(r, "unavailable")
    /\ UNCHANGED <<arrived, outside>>

Crash ==
    /\ pc   # [r \in Request |-> "idle"]
    /\ pc'   = [r \in Request |-> "idle"]
    /\ job'  = [r \in Request |-> NoJob]
    /\ resp' = [r \in Request |-> "none"]
    /\ UNCHANGED <<store, arrived, outside>>

-----------------------------------------------------------------------------
(***************************************************************************)
(* The other writers of a policy document.  None is in this repository;    *)
(* they write their own choices beside the flag, and the document they     *)
(* leave may be unreadable here.  One that replaces such a document starts *)
(* from nothing.                                                           *)
(***************************************************************************)
WriteOtherChoices(c, p) ==
    /\ c \in known
    /\ policy' = [policy EXCEPT ![c] =
                    [k \in DOMAIN p \cup
                           (IF @ = Unreadable THEN {} ELSE DOMAIN @ \cap {Flag}) |->
                        IF k \in DOMAIN p THEN p[k] ELSE @[k]]]
    /\ others' = [others EXCEPT ![c] = p]
    /\ UNCHANGED <<known, webhook, origins, identity, trail, arrived, requests, damaged>>

Damage(c) ==
    /\ c \in known
    /\ policy' = [policy EXCEPT ![c] = Unreadable]
    /\ damaged' = damaged \cup {c}
    /\ UNCHANGED <<known, webhook, origins, identity, trail, arrived, requests, others>>

Next ==
    \/ \E c \in Client :
          \/ CreateDraftClient(c)
          \/ Damage(c)
          \/ \E p \in OtherChoices : WriteOtherChoices(c, p)
    \/ \E r \in Request, c \in Client :
          \/ \E url \in Webhook : PutWebhook(r, c, url)
          \/ \E list \in Origins : PutAllowedOrigins(r, c, list)
          \/ \E mode \in Modes \cup {"other"} : PutDCAPIRequestMode(r, c, mode)
          \/ \E ident \in Identity : PutRegistrarIdentity(r, c, ident)
    \/ \E r \in Request :
          Write(r) \/ WriteRefused(r) \/ ReadBack(r) \/ CallFails(r) \/ AnswerLost(r)
    \/ Crash

Spec == Init /\ [][Next]_vars

-----------------------------------------------------------------------------
\* Type invariant.
TypeOK ==
    /\ known \subseteq Client
    /\ webhook \in [Client -> Webhook \cup {NoAddress}]
    /\ origins \in [Client -> (Origins \ {Absent}) \cup {<<>>}]
    /\ identity \in [Client -> Identity \cup {NoIdentity}]
    /\ \A c \in Client : policy[c] # Unreadable =>
          \A k \in DOMAIN policy[c] : k = Flag => policy[c][k] \in BOOLEAN
    /\ \A c \in Client : Len(trail[c]) \in 0..arrived
    /\ arrived \in 0..MaxArrivals
    /\ pc \in [Request -> {"idle", "write", "readback", "done"}]
    /\ resp \in [Request -> {"none", "ok", "invalid", "not_found", "error",
                             "unavailable"}]
    /\ damaged \subseteq known

\* The newest of the first n audit entries of a setting, as a position, or 0.
NewestAt(c, s, n) ==
    LET at == {i \in 1..n : trail[c][i].setting = s}
    IN  IF at = {} THEN 0 ELSE CHOOSE i \in at : \A j \in at : j <= i

Initial ==
    [webhook |-> NoAddress, origins |-> <<>>, identity |-> NoIdentity, mode |-> "signed"]

\* What the audit trail says a setting was after its first n entries.
Replayed(c, s, n) ==
    LET i == NewestAt(c, s, n) IN IF i = 0 THEN Initial[s] ELSE trail[c][i].value

\* Nobody but this service decides about the mode of an undamaged policy.
Trusted(c, s) == s # "mode" \/ c \notin damaged

(***************************************************************************)
(* repo.go:196-248, "Audited as ...", "REPLACED, never appended to": the   *)
(* audit trail alone tells what every setting is now, whatever raced,      *)
(* failed, lost its answer or died.  A damaged policy document may hide    *)
(* the mode, but "must not silently relax anything" (api.go:371-375): it   *)
(* reads as what was last decided, or as signed.                           *)
(***************************************************************************)
TrailTellsSettings ==
    \A c \in Client : \A s \in Setting :
        LET last == Replayed(c, s, Len(trail[c]))
        IN  Stored(c, s) \in IF Trusted(c, s) THEN {last} ELSE {last, "signed"}

(***************************************************************************)
(* README.md:59: the mode is "recorded even when it matches that default,  *)
(* so 'deliberately signed' and 'never decided' stay distinguishable",     *)
(* also after other programs rewrote their part of the document.           *)
(***************************************************************************)
DecisionsAreRecorded ==
    \A c \in Client \ damaged :
        Flag \in DOMAIN policy[c] <=> NewestAt(c, "mode", Len(trail[c])) # 0

(***************************************************************************)
(* repo.go:244, "merged, never replacing the other verification choices":  *)
(* a readable policy holds what the other writers last left in it.         *)
(***************************************************************************)
OtherChoicesSurvive ==
    \A c \in Client : policy[c] # Unreadable =>
        [k \in DOMAIN policy[c] \ {Flag} |-> policy[c][k]] = others[c]

(***************************************************************************)
(* api.go:280, "echoes what is now stored ... rather than assuming the     *)
(* write took the value verbatim": a setter that answers 200 wrote its     *)
(* value, and what it tells is that or what a later write left.            *)
(***************************************************************************)
AnswersAreOnTrail ==
    \A r \in Request :
        LET j == job[r]
        IN  pc[r] = "done" /\ resp[r] = "ok" =>
              /\ j.wrote \in 1..Len(trail[j.client])
              /\ trail[j.client][j.wrote].setting = j.setting
              /\ trail[j.client][j.wrote].value = j.value
              /\ j.setting # "identity" /\ Trusted(j.client, j.setting) =>
                    /\ j.saw \in j.wrote..Len(trail[j.client])
                    /\ j.told = Replayed(j.client, j.setting, j.saw)

IsHTTPSWebhook(url) == url # NoAddress => url.scheme = "https"

IsBareOrigin(o) ==
    /\ o.scheme = "https" /\ o.user = "no" /\ o.port # "x"
    /\ o.path = "" /\ o.query = "no" /\ o.fragment = "no"

AreBareOrigins(list) ==
    Len(list) <= MaxOrigins /\ \A i \in DOMAIN list : IsBareOrigin(list[i])

IsCompleteIdentity(ident) ==
    ident # NoIdentity => ident.id # "" /\ IsAbsoluteHTTPSURL(ident.uri)

(***************************************************************************)
(* repo.go:227 and README.md:53-55: no stored origin has a path, query,    *)
(* fragment, userinfo or bad port, nor is the list longer than the store   *)
(* takes; a webhook is https; an identity is complete.  Neither the        *)
(* handlers' checks nor the store's are enough alone.                      *)
(***************************************************************************)
StoredIsWellFormed ==
    \A c \in Client : /\ IsHTTPSWebhook(webhook[c])
                      /\ AreBareOrigins(origins[c])
                      /\ IsCompleteIdentity(identity[c])

(***************************************************************************)
(* The setters, racing and failing, are single audited writes.             *)
(***************************************************************************)
Trail == INSTANCE AuditedSettings
           WITH Mode <- "mode", Safe <- "signed",
                value <- [c \in Client |-> [s \in Setting |-> Stored(c, s)]]

ImplementsAuditedSettings == Trail!Spec
=============================================================================
