---------------------------- MODULE Registration ----------------------------
(***************************************************************************)
(* The registration document of a client and its intended-use rows:        *)
(* PUT /api/clients/{id}/registration, GET /api/clients/{id}, and the      *)
(* Store method the filing confirmation uses to give the rows the          *)
(* identifiers the registrar assigned.                                     *)
(*                                                                         *)
(* SaveWRPDocument is one call of a procedure.  SetIntendedUses is two: it *)
(* replaces the rows, then appends the audit entry.  Requests run in       *)
(* between, a call may fail with or without effect, and the service may    *)
(* die between two calls.                                                  *)
(***************************************************************************)
EXTENDS WizardContract

LOCAL INSTANCE SequencesExt     \* ToSet

CONSTANTS
    Client,         \* client ids
    Request,        \* slots for concurrent requests
    Body,           \* the registration requests callers send
    RegistrarId,    \* intended-use ids a confirmation may give ({}: nothing
                    \* is ever confirmed)
    Blank,          \* "", if a confirmation may give that
    MaxArrivals     \* bound: how many writing requests are made

\* Identifiers and row ids are pairs of a number that is used once and a
\* position; neither a registrar's identifier nor "" is such a pair.
ASSUME RegistrarAssumption == (RegistrarId \cup {Blank}) \cap (Nat \X Nat) = {}

\* A body is one the handler can decode.
ASSUME BodyAssumption  == Body \subseteq RegistrationRequest
ASSUME BoundAssumption == MaxArrivals \in Nat

UseId == RegistrarId \cup (Nat \X Nat)

VARIABLES
    known,      \* the clients that exist
    doc,        \* [Client -> its WRP document, or NoDoc]
    rows,       \* [Client -> [intended-use id -> row id and credentials]]
    order,      \* [Client -> its intended-use ids, oldest first]
    writes,     \* replacements so far: half of the primary key of a new row
    arrived,    \* writing requests so far: half of a pending-<ulid>
    pc, job, resp,      \* the requests
    unaudited,  \* history: [Client -> replacements with no audit entry]
    faulted     \* history: whether a call ever failed or the service died

store    == <<known, doc, rows, order, writes>>
requests == <<pc, job, resp>>
vars     == <<store, arrived, requests, unaudited, faulted>>

NoDoc == [uses |-> <<>>]
NoJob == [client |-> "none", body |-> [uses |-> <<>>], doc |-> NoDoc, uses |-> <<>>]
NoRow == [u \in {} |-> {}]

-----------------------------------------------------------------------------
Init ==
    /\ known     = {}
    /\ doc       = [c \in Client |-> NoDoc]
    /\ rows      = [c \in Client |-> NoRow]
    /\ order     = [c \in Client |-> <<>>]
    /\ writes    = 0
    /\ arrived   = 0
    /\ pc        = [r \in Request |-> "idle"]
    /\ job       = [r \in Request |-> NoJob]
    /\ resp      = [r \in Request |-> "none"]
    /\ unaudited = [c \in Client |-> 0]
    /\ faulted   = FALSE

\* POST /api/clients: a client with no document and no intended use.
CreateDraftClient(c) ==
    /\ c \notin known
    /\ known' = known \cup {c}
    /\ UNCHANGED <<doc, rows, order, writes, arrived, requests, unaudited, faulted>>

-----------------------------------------------------------------------------
(***************************************************************************)
(* The replacement both Store methods share.  list is what the caller      *)
(* sends; no caller fills in a row id.  A row that keeps its intended-use  *)
(* id keeps its row id, another one gets a fresh one: the number of this   *)
(* replacement and the place of an entry it is made from.  Of entries with *)
(* one id the last one counts.                                             *)
(* The store itself would also keep a row id that a caller fills in: the   *)
(* callers of this repository do not, and the registrar's identifiers that *)
(* a confirmation gives get fresh rows (fake.go, above the replacement).   *)
(***************************************************************************)
Ids(list) == {list[i].id : i \in DOMAIN list}

\* What both methods ask of a list first.  A pending identifier is not empty, so
\* that only a confirmation is ever refused.
AllNamed(list) == Blank \notin Ids(list)

Place(list, u) == CHOOSE i \in DOMAIN list : list[i].id = u

LastEntry(list, u) ==
    list[CHOOSE i \in DOMAIN list :
            list[i].id = u /\ \A j \in DOMAIN list : list[j].id = u => j <= i]

FreshRowId_PlaceOnly(list, u) == <<1, Place(list, u)>>

FreshRowId(list, u) == <<writes + 1, Place(list, u)>>

RowId_AlwaysFresh(c, list, u) == FreshRowId(list, u)

RowId(c, list, u) ==
    IF u \in DOMAIN rows[c] THEN rows[c][u].row ELSE FreshRowId(list, u)

ReplacedRows(c, list) ==
    [u \in Ids(list) |-> [row         |-> RowId(c, list, u),
                          credentials |-> LastEntry(list, u).credentials]]

\* The order drops what is gone, keeps the rest in place and puts new ids at
\* the end as the list has them, each once.
KeptIds(c, list) ==
    Picked(order[c], {i \in DOMAIN order[c] : order[c][i] \in Ids(list)})

NewIds(kept, list) ==
    Picked([i \in DOMAIN list |-> list[i].id],
           {i \in DOMAIN list : /\ list[i].id \notin ToSet(kept)
                                /\ \A j \in 1..(i-1) : list[j].id # list[i].id})

ReplacedOrder_NewFirst(c, list) == NewIds(KeptIds(c, list), list) \o KeptIds(c, list)

ReplacedOrder_AsListed(c, list) == [i \in DOMAIN list |-> list[i].id]

ReplacedOrder(c, list) == KeptIds(c, list) \o NewIds(KeptIds(c, list), list)

ReplaceIntendedUses(c, list) ==
    /\ rows'   = [rows EXCEPT ![c] = ReplacedRows(c, list)]
    /\ order'  = [order EXCEPT ![c] = ReplacedOrder(c, list)]
    /\ writes' = writes + 1

SaveWRPDocument_RowsOnly(c, d, list) ==
    /\ doc' = [doc EXCEPT ![c] = IF @ = NoDoc THEN d ELSE @]
    /\ ReplaceIntendedUses(c, list)
    /\ UNCHANGED <<known, unaudited>>

SaveWRPDocument_AuditsTwice(c, d, list) ==
    /\ doc' = [doc EXCEPT ![c] = d]
    /\ ReplaceIntendedUses(c, list)
    /\ unaudited' = [unaudited EXCEPT ![c] = @ - 1]
    /\ UNCHANGED known

\* registry.save_wrp_document: document, rows and audit entry together.
SaveWRPDocument(c, d, list) ==
    /\ doc' = [doc EXCEPT ![c] = d]
    /\ ReplaceIntendedUses(c, list)
    /\ UNCHANGED <<known, unaudited>>

\* registry.set_intended_uses: the rows alone.
SetIntendedUses(c, list) ==
    /\ ReplaceIntendedUses(c, list)
    /\ unaudited' = [unaudited EXCEPT ![c] = @ + 1]
    /\ UNCHANGED <<known, doc>>

AppendAudit_Dropped(c) == UNCHANGED <<store, unaudited>>

\* audit.append, for a replacement that took place.
AppendAudit(c) ==
    /\ unaudited' = [unaudited EXCEPT ![c] = @ - 1]
    /\ UNCHANGED store

-----------------------------------------------------------------------------
\* The requests

Answers(r, a) ==
    /\ pc'   = [pc EXCEPT ![r] = "done"]
    /\ resp' = [resp EXCEPT ![r] = a]

Goto(r, label) == pc' = [pc EXCEPT ![r] = label] /\ resp' = resp

Free(r) == pc[r] \in {"idle", "done"}

Arrives(r) == Free(r) /\ arrived < MaxArrivals /\ arrived' = arrived + 1

\* PUT registration: reshape and Build, before any call of the store.  Every
\* build mints pending identifiers of its own.
PutRegistration(r, c, body) ==
    LET f   == ToFormState(body)
        ids == [i \in DOMAIN f.uses |-> <<arrived + 1, i>>]
    IN  /\ Arrives(r)
        /\ \/ /\ Accepted(f)
              /\ job' = [job EXCEPT ![r] = [client |-> c, body |-> body,
                                            doc  |-> Document(f, ids),
                                            uses |-> Projection(f, ids)]]
              /\ pc' = [pc EXCEPT ![r] = "save"]
              /\ resp' = [resp EXCEPT ![r] = "none"]
           \/ /\ ~Accepted(f)
              /\ job' = [job EXCEPT ![r] = NoJob]
              /\ Answers(r, "invalid")
        /\ UNCHANGED <<store, unaudited, faulted>>

Save(r) ==
    LET c == job[r].client
    IN  /\ pc[r] = "save"
        /\ \/ /\ c \in known
              /\ SaveWRPDocument(c, job[r].doc, job[r].uses)
              /\ Goto(r, "readback")
           \/ c \notin known /\ Answers(r, "not_found") /\ UNCHANGED <<store, unaudited>>
        /\ UNCHANGED <<arrived, job, faulted>>

\* GetClientFull after the write: only the answer depends on it.
ReadBack(r) ==
    /\ pc[r] = "readback"
    /\ Answers(r, "ok")
    /\ UNCHANGED <<store, arrived, job, unaudited, faulted>>

\* GET /api/clients/{id}
GetClient(r, c) ==
    /\ Free(r)
    /\ job' = [job EXCEPT ![r] = NoJob]
    /\ Answers(r, IF c \in known THEN "ok" ELSE "not_found")
    /\ UNCHANGED <<store, arrived, unaudited, faulted>>

(***************************************************************************)
(* The filing confirmation is not in this repository; the comments of the  *)
(* Store say what it does: it lists the rows, gives some of them the       *)
(* registrar's identifiers and sends the whole list to SetIntendedUses.    *)
(***************************************************************************)
ListIntendedUses(c) ==
    [i \in DOMAIN order[c] |->
        [id |-> order[c][i], credentials |-> rows[c][order[c][i]].credentials]]

Confirm(r, c, name) ==
    /\ Arrives(r)
    /\ DOMAIN name = DOMAIN order[c]
    /\ job' = [job EXCEPT ![r] =
                 [NoJob EXCEPT !.client = c,
                  !.uses = [i \in DOMAIN name |->
                                [ListIntendedUses(c)[i] EXCEPT !.id = name[i]]]]]
    /\ pc' = [pc EXCEPT ![r] = "replace"]
    /\ resp' = [resp EXCEPT ![r] = "none"]
    /\ UNCHANGED <<store, unaudited, faulted>>

\* PG.SetIntendedUses, first call
Replace(r) ==
    LET c == job[r].client
    IN  /\ pc[r] = "replace"
        /\ \/ /\ c \in known /\ AllNamed(job[r].uses)
              /\ SetIntendedUses(c, job[r].uses)
              /\ Goto(r, "audit")
           \/ /\ c \notin known
              /\ Answers(r, "not_found") /\ UNCHANGED <<store, unaudited>>
           \/ /\ c \in known /\ ~AllNamed(job[r].uses)
              /\ Answers(r, "invalid") /\ UNCHANGED <<store, unaudited>>
        /\ UNCHANGED <<arrived, job, faulted>>

\* PG.SetIntendedUses, second call
AuditReplace(r) ==
    /\ pc[r] = "audit"
    /\ AppendAudit(job[r].client)
    /\ Answers(r, "ok")
    /\ UNCHANGED <<arrived, job, faulted>>

-----------------------------------------------------------------------------
\* Failures

Fails(r) == Answers(r, "unavailable") /\ faulted' = TRUE

CallFails(r) ==
    /\ pc[r] \in {"save", "readback", "replace", "audit"}
    /\ Fails(r)
    /\ UNCHANGED <<store, arrived, job, unaudited>>

\* The call commits and the handler is told it failed.
AnswerLost(r) ==
    LET c == job[r].client
    IN  /\ \/ pc[r] = "save" /\ c \in known /\ SaveWRPDocument(c, job[r].doc, job[r].uses)
           \/ /\ pc[r] = "replace" /\ c \in known /\ AllNamed(job[r].uses)
              /\ SetIntendedUses(c, job[r].uses)
           \/ pc[r] = "audit" /\ AppendAudit(c)
        /\ Fails(r)
        /\ UNCHANGED <<arrived, job>>

Crash ==
    /\ pc      # [r \in Request |-> "idle"]
    /\ pc'     = [r \in Request |-> "idle"]
    /\ job'    = [r \in Request |-> NoJob]
    /\ resp'   = [r \in Request |-> "none"]
    /\ faulted' = TRUE
    /\ UNCHANGED <<store, arrived, unaudited>>

-----------------------------------------------------------------------------
\* What the registrar may answer for the intended uses of a client: an
\* identifier of its own for each, or the one it has.
Renamings(c) ==
    {name \in [DOMAIN order[c] -> RegistrarId \cup ToSet(order[c])] :
        \A i \in DOMAIN name : name[i] \in RegistrarId \cup {order[c][i]}}

Next ==
    \/ \E c \in Client : CreateDraftClient(c)
    \/ \E r \in Request, c \in Client, body \in Body : PutRegistration(r, c, body)
    \/ \E r \in Request, c \in Client : GetClient(r, c)
    \/ \E r \in Request, c \in Client :
          RegistrarId # {} /\ \E name \in Renamings(c) : Confirm(r, c, name)
    \/ \E r \in Request :
          Save(r) \/ ReadBack(r) \/ Replace(r) \/ AuditReplace(r)
          \/ CallFails(r) \/ AnswerLost(r)
    \/ Crash

Spec == Init /\ [][Next]_vars

-----------------------------------------------------------------------------
\* Type invariant.
TypeOK ==
    /\ known \subseteq Client
    /\ \A c \in Client :
          /\ DOMAIN rows[c] \subseteq UseId
          /\ \A u \in DOMAIN rows[c] : rows[c][u].row \in (1..writes) \X Nat
          /\ order[c] \in Seq(UseId)
          /\ unaudited[c] \in 0..writes
    /\ writes \in Nat /\ arrived \in 0..MaxArrivals /\ writes <= arrived
    /\ pc \in [Request -> {"idle", "save", "readback", "replace", "audit", "done"}]
    /\ resp \in [Request -> {"none", "ok", "invalid", "not_found", "unavailable"}]
    /\ faulted \in BOOLEAN

(***************************************************************************)
(* fake.go, intendedUseOrder: the order is kept beside the rows and has to *)
(* list each of them exactly once and oldest first ("order by created_at"),*)
(* through every replacement that drops, keeps, adds and repeats ids.  A   *)
(* row id tells which replacement created its row.                         *)
(***************************************************************************)
OrderListsRows ==
    \A c \in Client :
        /\ ToSet(order[c]) = DOMAIN rows[c]
        /\ Len(order[c]) = Cardinality(DOMAIN rows[c])
        /\ \A i, j \in DOMAIN order[c] :
              i < j => rows[c][order[c][i]].row[1] <= rows[c][order[c][j]].row[1]

\* The row id is a primary key: two rows never share one, whoever owns them.
RowIdsUnique ==
    \A c, d \in Client : \A u \in DOMAIN rows[c], v \in DOMAIN rows[d] :
        rows[c][u].row = rows[d][v].row => c = d /\ u = v

(***************************************************************************)
(* A use that is submitted again under its id is the same row as before,   *)
(* however often the call is repeated.                                     *)
(***************************************************************************)
SurvivorsStay ==
    [][\A c \in Client : \A u \in DOMAIN rows[c] \cap DOMAIN rows'[c] :
            rows'[c][u].row = rows[c][u].row]_vars

(***************************************************************************)
(* repo.go:99: the WRP document is the "source of truth; intended_use rows *)
(* are projections" of it: the rows have the ids of the document's uses,   *)
(* and each describes the credentials of its use.                          *)
(***************************************************************************)
RowsProjectDocument ==
    \A c \in Client :
        /\ DOMAIN rows[c] = {doc[c].uses[i].id : i \in DOMAIN doc[c].uses}
        /\ \A i \in DOMAIN doc[c].uses :
              LET use   == doc[c].uses[i]
                  scope == rows[c][use.id].credentials
              IN  /\ DOMAIN scope = DOMAIN use.credentials
                  /\ \A j \in DOMAIN scope : ScopeMatches(scope[j], use.credentials[j])

\* What is stored keeps every rule the comments of Build state of a document.
StoredIsValid == \A c \in Client : doc[c] # NoDoc => ValidDocument(doc[c])

(***************************************************************************)
(* A stored document sent back as a registration is accepted and built     *)
(* into itself: nothing is lost, reordered or refused the second time.     *)
(***************************************************************************)
StoredRoundTrips ==
    \A c \in Client : doc[c] # NoDoc =>
        /\ Accepted(FormOf(doc[c]))
        /\ Document(FormOf(doc[c]), UseIdsOf(doc[c])) = doc[c]

(***************************************************************************)
(* "A crash between the two calls would leave the intended uses updated    *)
(* without a matching audit row" (repo.go:275): only that, or a failed     *)
(* call, does.                                                             *)
(***************************************************************************)
OnlyFaultsLoseAudits ==
    ~faulted => \A c \in Client :
        unaudited[c] = Cardinality({r \in Request : pc[r] = "audit" /\ job[r].client = c})

(***************************************************************************)
(* wizard.go:107: "AllClaims true means the wizard collected NO claims     *)
(* list for this credential -- Claims must then be empty": a request that  *)
(* was accepted does not list claims beside all-claims.                    *)
(***************************************************************************)
AllClaimsExcludesClaims ==
    \A r \in Request : \A i \in DOMAIN job[r].body.uses :
        \A j \in DOMAIN job[r].body.uses[i].credentials :
            LET cf == job[r].body.uses[i].credentials[j]
            IN  cf.allClaims => cf.claims = <<>>

(***************************************************************************)
(* wizard.go:249: the supervisory authority has "at least one contact      *)
(* channel (email, phone, or a formURI to file a report)": one of those    *)
(* stored says something.                                                  *)
(***************************************************************************)
StoredContactIsUsable ==
    \A c \in Client : doc[c] # NoDoc =>
        LET sa == doc[c].supervisory
        IN  NonEmpty(sa.email \o sa.phone \o sa.formUri) # <<>>
=============================================================================
