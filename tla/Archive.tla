------------------------------ MODULE Archive ------------------------------
(***************************************************************************)
(* The records of a client that outlive it: evidence (metadata and         *)
(* content), the audit trail and the log of deletion requests, written and *)
(* listed through Store, and the purge that drops evidence content once    *)
(* the client is offboarded.  Each method is one atomic call.              *)
(***************************************************************************)
EXTENDS Selection

Seqs == INSTANCE SequencesExt

CONSTANTS
    Client,         \* client ids
    NoClient,       \* "", the client of an entry that has none
    Content,        \* evidence blobs
    Purged,         \* content that is gone
    Session,        \* session ids of deletion requests
    Id,             \* ids of evidence rows
    MaxWrites,      \* bound: audit entries
    MaxRequests,    \* bound: deletion requests of a client
    MaxTime         \* bound: readings of the clock

ASSUME ArchiveAssumption ==
    /\ NoClient \notin Client /\ Purged \notin Content
    /\ Id \subseteq Nat
    /\ MaxWrites \in Nat /\ MaxRequests \in Nat /\ MaxTime \in Nat

VARIABLES
    known,          \* the clients that exist
    offboarded,     \* those that are offboarded
    evidence,       \* [evidence id -> owner, content, creation time]
    log,            \* the audit entries, oldest first
    deletions,      \* [Client -> its deletion requests, oldest first]
    now,            \* the clock: readings may repeat, and step back
    uploads         \* history: [evidence id -> what was uploaded]

rows == <<known, offboarded, evidence, deletions>>
vars == <<rows, log, now, uploads>>

NoRows == [e \in {} |-> 0]

Init ==
    /\ known = {} /\ offboarded = {}
    /\ evidence = NoRows /\ uploads = NoRows
    /\ log = <<>>
    /\ deletions = [c \in Client |-> <<>>]
    /\ now = 0

-----------------------------------------------------------------------------
\* Writing

Writes == Len(log) < MaxWrites

Audit(c, action, ref) ==
    /\ Writes
    /\ log' = Append(log, [client |-> c, action |-> action, ref |-> ref])

CreateDraftClient(c) ==
    /\ c \notin known
    /\ known' = known \cup {c}
    /\ Audit(c, "client.create", 0)
    /\ UNCHANGED <<offboarded, evidence, deletions, now, uploads>>

\* A transition to "offboarded"; the way there is in module Lifecycle.
Offboard(c) ==
    /\ c \in known \ offboarded
    /\ offboarded' = offboarded \cup {c}
    /\ Audit(c, "client.transition", 0)
    /\ UNCHANGED <<known, evidence, deletions, now, uploads>>

Extended(f, e, v) == [x \in DOMAIN f \cup {e} |-> IF x = e THEN v ELSE f[x]]

AddEvidence_AnyClient(c, content) ==
    \E e \in Id \ DOMAIN evidence :
        /\ evidence' = Extended(evidence, e, [owner |-> c, content |-> content, at |-> now])
        /\ uploads' = Extended(uploads, e, content)
        /\ Audit(c, "evidence.add", e)
        /\ UNCHANGED <<known, offboarded, deletions, now>>

\* The id is fresh, and that is all: ids of one instant sort by a random suffix.
AddEvidence(c, content) ==
    /\ c \in known
    /\ \E e \in Id \ DOMAIN evidence :
          /\ evidence' = Extended(evidence, e, [owner |-> c, content |-> content, at |-> now])
          /\ uploads' = Extended(uploads, e, content)
          /\ Audit(c, "evidence.add", e)
    /\ UNCHANGED <<known, offboarded, deletions, now>>

\* The general-purpose entry: any client, existing or not, or none.
AppendAudit(c) ==
    /\ Audit(c, "note", 0)
    /\ UNCHANGED <<rows, now, uploads>>

\* It is not asked whether the client exists; empty ids are refused.
LogDeletionRequest(c, s) ==
    /\ Len(deletions[c]) < MaxRequests
    /\ deletions' = [deletions EXCEPT ![c] = Append(@, s)]
    /\ UNCHANGED <<known, offboarded, evidence, log, now, uploads>>

PurgeOffboarded_EveryOwner(c) ==
    /\ c \in known /\ c \in offboarded
    /\ evidence' = [e \in DOMAIN evidence |-> [evidence[e] EXCEPT !.content = Purged]]
    /\ Audit(c, "client.purge", 0)
    /\ UNCHANGED <<known, offboarded, deletions, now, uploads>>

PurgeOffboarded_DropsRows(c) ==
    /\ c \in known /\ c \in offboarded
    /\ evidence' = [e \in {x \in DOMAIN evidence : evidence[x].owner # c} |-> evidence[e]]
    /\ Audit(c, "client.purge", 0)
    /\ UNCHANGED <<known, offboarded, deletions, now, uploads>>

PurgeOffboarded(c) ==
    /\ c \in known /\ c \in offboarded
    /\ evidence' = [e \in DOMAIN evidence |->
                      IF evidence[e].owner = c
                      THEN [evidence[e] EXCEPT !.content = Purged] ELSE evidence[e]]
    /\ Audit(c, "client.purge", 0)
    /\ UNCHANGED <<known, offboarded, deletions, now, uploads>>

\* Wall time goes on, and is set back.
Tick ==
    /\ now' \in 0..MaxTime
    /\ UNCHANGED <<rows, log, uploads>>

-----------------------------------------------------------------------------
\* Reading

Owned(c) == {e \in DOMAIN evidence : evidence[e].owner = c}

Earlier_ById(d, e) == d < e

\* By time, and by id where the time is the same.
Earlier(d, e) ==
    \/ evidence[d].at < evidence[e].at
    \/ evidence[d].at = evidence[e].at /\ d < e

\* The k-th of the list has k rows that are not behind it.
ListEvidence(c) ==
    [k \in 1..Cardinality(Owned(c)) |->
        CHOOSE e \in Owned(c) :
            Cardinality({d \in Owned(c) : d = e \/ Earlier(d, e)}) = k]

GetEvidenceContent_AnyOwner(c, e) ==
    IF e \in DOMAIN evidence THEN <<evidence[e].content>> ELSE <<>>

\* <<>> is not_found: there is no other answer for an id of another client.
GetEvidenceContent(c, e) == IF e \in Owned(c) THEN <<evidence[e].content>> ELSE <<>>

Newest_OffByOne(list, limit) ==
    [k \in 1..(IF Len(list) < limit + 1 THEN Len(list) ELSE limit + 1) |->
        list[Len(list) + 1 - k]]

\* At most limit entries, the newest first; none for a limit below one.
Newest(list, limit) ==
    [k \in 1..(IF Len(list) < limit THEN Len(list) ELSE limit) |->
        list[Len(list) + 1 - k]]

Concerns_OrNone(entry, c) == entry.client \in {c, NoClient}

Concerns(entry, c) == entry.client = c

ListAuditEntries(c, limit) ==
    Newest(Picked(log, {i \in DOMAIN log : Concerns(log[i], c)}), limit)

ListDeletionRequests(c, limit) == Newest(deletions[c], limit)

-----------------------------------------------------------------------------
Next ==
    \/ \E c \in Client :
          \/ CreateDraftClient(c) \/ Offboard(c) \/ PurgeOffboarded(c)
          \/ \E content \in Content : AddEvidence(c, content)
          \/ \E s \in Session : LogDeletionRequest(c, s)
    \/ \E c \in Client \cup {NoClient} : AppendAudit(c)
    \/ Tick

Spec == Init /\ [][Next]_vars

-----------------------------------------------------------------------------
\* Type invariant.
TypeOK ==
    /\ offboarded \subseteq known /\ known \subseteq Client
    /\ DOMAIN evidence \subseteq Id /\ now \in 0..MaxTime
    /\ \A e \in DOMAIN evidence :
          /\ evidence[e].owner \in known
          /\ evidence[e].content \in Content \cup {Purged}
          /\ evidence[e].at \in 0..MaxTime
    /\ \A i \in DOMAIN log : log[i].client \in Client \cup {NoClient}
    /\ Len(log) <= MaxWrites
    /\ deletions \in [Client -> Seq(Session)]

(***************************************************************************)
(* fake.go:673-684 and 756-779, "no existence leak": evidence answers to   *)
(* its owner with what was uploaded, until a purge of that very client     *)
(* after the upload leaves nothing in it; what is uploaded later stays     *)
(* until the next purge; to another client there is no such id.            *)
(***************************************************************************)
ContentIsDue ==
    \A c \in Client, e \in DOMAIN uploads :
        LET added == {i \in DOMAIN log : log[i] = [client |-> c, action |-> "evidence.add",
                                                   ref |-> e]}
            gone  == {i \in DOMAIN log : log[i].client = c /\ log[i].action = "client.purge"}
        IN  GetEvidenceContent(c, e) =
              IF added = {} THEN <<>>
              ELSE IF \E i \in added, j \in gone : i < j THEN <<Purged>>
              ELSE <<uploads[e]>>

\* What the trail says was uploaded for a client, and its list before and after
\* a step.
Uploaded(c) == {log[i].ref : i \in {j \in DOMAIN log : /\ log[j].client = c
                                                      /\ log[j].action = "evidence.add"}}

StaysListed(c) ==
    LET old == ListEvidence(c)
        new == ListEvidence(c)'
    IN  /\ Seqs!ToSet(new) = Uploaded(c)' /\ Len(new) = Cardinality(Uploaded(c)')
        /\ \A j, k \in DOMAIN new : j < k => evidence'[new[j]].at <= evidence'[new[k]].at
        /\ \A j, k \in DOMAIN old : j < k =>
              \E m, n \in DOMAIN new : m < n /\ new[m] = old[j] /\ new[n] = old[k]

(***************************************************************************)
(* repo.go:615, "evidence blob CONTENT (never its metadata)", and          *)
(* fake.go:661, a sort that leaves no tie: a client's list is only ever    *)
(* added to, and only by what the trail says was uploaded.  A row is       *)
(* listed once, never dropped by a purge, never before an older one, and   *)
(* two rows keep their order in every later list.                          *)
(***************************************************************************)
EvidenceStaysListed == [][\A c \in Client : StaysListed(c)]_vars

(***************************************************************************)
(* repo.go:289 and 599: a list is the newest entries of its client, in     *)
(* order and nobody else's; a shorter limit gives the beginning of what a  *)
(* longer one gives, and a limit of zero or less nothing.                  *)
(***************************************************************************)
IsPage(c, n) ==
    LET page == ListAuditEntries(c, n)
        all  == {i \in DOMAIN log : log[i].client = c}
    IN  /\ Len(page) = IF n < 0 THEN 0
                       ELSE IF n < Cardinality(all) THEN n ELSE Cardinality(all)
        /\ \A k \in DOMAIN page :
              LET at == CHOOSE i \in all : Cardinality({j \in all : j >= i}) = k
              IN  page[k] = log[at]
        /\ c # NoClient => Seqs!IsPrefix(ListDeletionRequests(c, n), ListDeletionRequests(c, n + 1))

ListsArePages == \A c \in Client \cup {NoClient}, n \in -1..(MaxWrites + 1) : IsPage(c, n)
=============================================================================
