# TLA+ models of eudi-api-registration

Specifications, model-checking configurations and machine-checked proofs for
the client registration API: the headless service that creates relying-party
clients, stores their registration, drives their lifecycle and mints their
keys over a shared PostgreSQL registry.

The code is the reference. Every definition that models code names its lines in
`PROJECT.json` ("map"); paths below are relative to `src/`.

## 1. Inventory of the system

| Component | State it keeps | Operations | Module |
|---|---|---|---|
| Lifecycle service, `internal/lifecycle/lifecycle.go` | none; one `Service` per request | `Transition`, `checkActivationPreconditions` | `Lifecycle` |
| Registry store, `internal/registrydb/repo.go` (`PG`) and `fake.go` (`Fake`) | client rows and settings, intended uses and their order, evidence, API keys, audit entries, deletion requests | one method per database procedure | `Lifecycle`, `Registration`, `ClientSettings`, `Onboarding` with `Slug`, `Archive`: each holds the part of the store its operations touch |
| Database bridge, `internal/registrydb/db.go` | none | `call`, `parseEnvelope`, `resultError`, and the conversions of each `PG` method | `DatabaseBridge`; the outcomes of a call are actions of the other modules |
| Admin API, `routes/api.go`, `routes/router.go` | none between requests | create, get, list, transition, webhook, origins, DC API mode, registrar identity | `Onboarding`, `Registration` (get), `Lifecycle`, `ClientSettings` with `WebAddress` |
| Registration API, `routes/api_registration.go` | none | `PUT registration`: reshape, `Build`, save, read back | `Registration` (its effect on the gate also in `Lifecycle`) |
| Registration wizard, `internal/wizard/wizard.go` | none (pure) | `FormState.Build` | `Wizard`, `WizardContract` |
| API keys, `routes/api_keys.go`, `internal/apikeys/apikeys.go` | none | `POST keys`, `Mint` | `Onboarding` (their life after minting in `Lifecycle`) |
| Authentication and boot, `routes/apiauth.go`, `config.go`, `app.go` | the configuration, the captured key | `Bind`, `Validate`, `New`, `RequireAPIKey` | `Server` |
| Health and readiness, `routes/health.go`, `cmd/server/health.go` | none | `healthz`, `readyz` | `Server` |
| Server process, `cmd/server/` | none | start, serve, end | `Server` |
| Redaction, `redaction.go` | none (pure) | log attribute policy | not modelled |
| Test support, `testing.go` | none | an App for tests | not modelled |

How they interact.  A handler runs to its end in a goroutine of its own, with
no lock and no transaction around its store calls.  Each store call is one call
of a database procedure, so it is atomic and commits by itself; the handlers of
other requests, and of other processes on the same registry, run in between.
`Transition` makes up to three such calls (`GetClientFull`,
`ListIntendedUses`, `TransitionClient`, or `TransitionClient`,
`PurgeOffboarded`); most setters make two (the write, then `GetClientFull` to
answer with), as do the creation of a client and of a key.  Nothing is
remembered between requests outside the database, except the admin key the
process captured when it started.

Which behaviours are hard.

* `Transition` decides from a snapshot (`lifecycle.go:126-141`) and acts two
  calls later; meanwhile a confirmation may replace the intended uses it checked.
* The flip to `offboarded` and the purge are two commits; between them anything
  may fail or die, and only a retried request finishes the work.
* A failed call may or may not have taken effect (`db.go:61-90`).
* Keys and evidence are written for a client in any state, also while it is
  being purged.
* The intended uses are replaced as a whole, with identity and order kept for
  some rows; the audit entry of `PG.SetIntendedUses` is a second call.
* A setter answers with what a second call reads, which may be what another
  request wrote; a value is checked by the handler and by the store, by
  different means, and neither check is enough alone.
* The DC API mode is a flag merged into a document other programs write too.
* An id and a key are told once, in an answer that may be lost.
* Secrets are rotated while a process starts or runs; a stalled database holds
  the connections the readiness probe needs.

What makes each component correct.  *Lifecycle*: only legal edges, no
activation without identity and intended use, an offboarding answered with
success left nothing live, a retry of it is no conflict, one that failed is
finished when it is asked for again, the audit trail is one walk.  *Intended uses*: the order lists exactly the rows, survivors keep
identity and place.  *Wizard*: what it accepts satisfies the document rules,
document and projection describe the same uses.  *Settings*: the audit trail
tells every setting, an answer tells a write that took place, nothing malformed
is stored, other policy choices survive.  *Keys and creation*: a shown key
works, and only a failure loses a key or a client.  *Lists*: a client's own
rows, in order, a page of them.  *Bridge*: an error envelope is never a
success, a code never gets lost.  *Server*: it serves with what was deployed
when it started, and its probes neither hang nor lie.

## 2. Modules

| Module | What it is |
|---|---|
| `ClientMatrix` | the seven states and eight legal edges (`fake.go:222-234`) |
| `Lifecycle` | the transition handler over the store, call by call, beside the handlers that write what it reads |
| `ClientLifecycle` | abstract specification: what the service promises about a client, with no requests, calls or failures |
| `LifecycleRefinement` | the refinement mappings of `Lifecycle`, with and without the gate |
| `LifecycleRetries` | `Lifecycle` with its callers, who ask again after a failed offboarding, and the fairness |
| `Selection` | the part of a list at some of its places, in order; what a loop leaves that appends the entries passing a test |
| `Wizard` | pure: a registration request reshaped, validated and built into document and projection |
| `WizardContract` | what the comments of the wizard promise of a document and its projection, said without forms |
| `Registration` | documents, intended-use rows and their order, submissions and filing confirmations call by call |
| `WebAddress` | pure: what `url.Parse` and the store's regular expressions make of a URL |
| `ClientSettings` | the four setters, call by call, beside the other writers of the policy document |
| `AuditedSettings` | abstract specification: settings that change by single audited writes |
| `Slug` | pure: `slugify`, and what a slug is |
| `Onboarding` | creating clients and keys, call by call, beside listing and transitions |
| `Archive` | evidence, audit trail and deletion requests: writing, purging, listing |
| `DatabaseBridge` | one `PG` method from its arguments to its result |
| `Server` | the process: secrets, start, gate, probes, pool |
| `MCLifecycle`, `MCLifecycleRetries`, `MCRegistration`, `MCClientSettings`, `MCOnboarding`, `MCArchive` | the instances for TLC: values, symmetries, action constraints |
| `Lifecycle_proofs`, `Registration_proofs`, `ClientSettings_proofs`, `Onboarding_proofs`, `Archive_proofs`, `DatabaseBridge_proofs`, `Server_proofs` | theorems and proofs |
| `Selection_proofs` | lemmas about `Selection`, for the modules above that read lists |

Some modules hold a part of the store that another one holds in more detail, and
then have every writer of it as an action that may leave any value the detailed
one could.  `uses` of `Lifecycle` and `rows` of `Registration` are one table, of
which `Lifecycle` keeps what the gate reads: `SetRegistration` writes what a
submission does, and `SetIntendedUses` any rows whatever, because a confirmation may
send back a list it read before a submission, an empty one too.  `status` of
`Onboarding` is that of `Lifecycle`, moved along the same `ClientMatrix`; `log` of
`Archive` is the table into which all of them write their entries.

In every call-by-call module, `pc` is the store call a request makes next, `job`
its arguments and what it read, `resp` its answer; `CallFails` is a call without
effect, an `…AnswerLost` action a call that commits and returns an error, `Crash`
the death of the process with every request in flight.  A call that fails for
its caller and commits only later is covered too: it is a request still waiting
at its `pc` while the caller retries in another slot.

### Lifecycle

| State | Code |
|---|---|
| `status`, `identity`, `uses` | the client row's status, registrar identity and its intended-use rows |
| `owner`, `purged` | which client a key or evidence row belongs to; keys revoked and content dropped |
| `lastEdge` | from/to of the newest `client.transition` audit entry |

`Begin` is the arrival of a request; `Read`, `CheckUses`, `Flip` and `Purge` are
the store calls of `Transition` with the branches taken on their results.
`job.retry` and `job.owed` are history: what was true when the request
was made; `replaced` tells which activations had their intended uses replaced after
they were checked.  `CreateDraftClient`, `SetRegistrarIdentity`, `SetRegistration`,
`CreateKey` and `AddEvidence` are whole handlers, atomic because what they read
first (that the client exists) stays true; `SetIntendedUses` is the first of the
two calls of the store method, the second one touches the audit trail only.

`LifecycleRetries` adds who is waiting: `unsettled` are the clients whose offboarding
ended in a failure, or was cut off by a crash, with no verdict since.  `due`
(history) is what an offboarding must dispose of: what a client held when it was
flipped, and what an offboarded client holds when its offboarding is asked for
again.

### Wizard and Registration

A string is `""` or a sample value: Build tells apart blank and non-blank, a
well-formed country, an absolute https URL and a known format, and nothing else.
`Accepted` is "Build returns no error": every rule leads to the same 422, so the
order of the rules does not show.  `Document` and `Projection` are the two results.
Fields that are copied with no rule (trade name, information and support URIs,
service description, creation date) are left out.

| State | Code |
|---|---|
| `doc` | the client's WRP document |
| `rows`, `order` | `Fake.intendedUses`, `Fake.intendedUseOrder`: the rows by intended-use id, and the order they are listed in |
| `writes`, `arrived` | the sources of fresh row ids and of `pending-<ulid>` identifiers |
| `unaudited`, `faulted` | history: replacements whose audit entry is missing, and whether anything ever failed |

`PutRegistration` is the handler up to its first call, `Save` and `ReadBack` the two
calls.  `Replace` and `AuditReplace` are the two calls of `PG.SetIntendedUses`; its
caller, the filing confirmation, is in another program, and `Confirm` is what the
comments of `Store` say of it: it lists the rows, gives some of them identifiers of
the registrar and sends back the whole list.  The list may be stale by the time it
arrives, may give two rows one identifier, and may give one an empty identifier,
which the store refuses.  `Fake` would also keep a row id its caller fills in
(`fake.go:533`); no row id is filled in by `Build`, and a confirmation's new
identifiers get fresh rows (`fake.go:516-527`), so `RowId` has no such case.

### ClientSettings

| State | Code |
|---|---|
| `webhook`, `origins`, `identity` | `default_webhook_url`, `allowed_origins`, `registry_uri` with `client_identifier` |
| `policy` | the policy document: a function from choices to values, or `Unreadable` |
| `trail` | the `client.set_*` audit entries of a client |
| `others`, `damaged`, `job.wrote`, `job.saw` | history: what other programs last left in a policy, which were ever unreadable, where on the trail a request wrote and read |

`PutWebhook`, `PutAllowedOrigins`, `PutDCAPIRequestMode` and `PutRegistrarIdentity` are
the handlers up to their first call, with what each checks; `StoreAnswer` is what
the procedure checks again.  `Write` and `ReadBack` are the two calls.
`WriteOtherChoices` and `Damage` are the other writers of the policy column, who
are not in this repository.  A URL (`WebAddress`) is the record of its parts, each
with the values the two checks tell apart: a bare `?` is no query to `url.Parse`
and one to the regular expression, `HTTPS` is https to the one and not to the
other.

### Onboarding and Slug

| State | Code |
|---|---|
| `client`, `nextId` | client rows with name, slug and status; the number of the next ULID |
| `apiKeys`, `minted` | key rows with prefix and secret (for its hash); how often randomness was drawn |
| `seen`, `told`, `shown` | history: ids found in lists, ids and keys answered with 201 |

`Create` and `ReadBack` are the calls of `POST /api/clients`, `LookUp` and `StoreKey`
those of `POST /api/clients/{id}/keys` with `Mint` in between; two keys may draw
one prefix.  A caller can act on the ids it was told or saw in a list only.  A
name is a sequence of characters; which of them are letters, and what is lower
case of what, are constants (the run has letters, an upper-case letter and another
character; `Lower` may take any character to a letter, as `strings.ToLower` does
with the Kelvin sign); the slug's tail is the last digits of the id, whose span stands
for 10^7.

### Archive

Evidence by id with owner, content and time, the audit log, and the deletion
requests of each client.  Each method is one atomic call.  An id is any one that is
not in use: ids of one instant sort by random bits (`fake.go:605-616`), so their
order tells nothing.  `Tick` moves the clock on or back, and any number of uploads
may share one reading.  `Offboard` stands for the way there (`Lifecycle`).

### DatabaseBridge

One method is called with a list (nil, empty or not), the database answers with
any envelope, raised or returned, or fails, and the method decodes the data.
`done` (history) is whether the procedures did their work; a raised envelope is
rolled back.  `tame` (history) is whether every reply kept the house style:
errors carry a code, exceptions carry errors.

### Server

| State | Code |
|---|---|
| `plain`, `file` | the environment variables and the files of `<NAME>_FILE` |
| `process` | phase of the start, inherited variables, defaults read by `Bind`, the loaded configuration, and the key the gate captured |
| `requests` | arrived, waiting for a connection, holding one, answered |
| `database` | up, stalled (answers nobody), down |
| `seen`, `met` | history: what a file held while the process was starting; probes under way while the database was up |

## 3. Runs

| Run | Bounds | What it shows |
|---|---|---|
| `lifecycle_concurrent` | 1 client, 2 requests, 1 key, 1 use | with two requests interleaving, what the gate checked still holds at the flip, except for intended uses a confirmation replaced; offboarding answered "ok" is complete; a retried offboarding is never a conflict; the audit trail is a walk; `ClientLifecycle` without its gate is implemented; when a failed offboarding is asked for again, and only then, what it owes is disposed of |
| `lifecycle_sequential` | 2 clients, 1 request, 1 key, 1 evidence row, 1 use, TS5 hook may refuse | with one request at a time `ClientLifecycle` is implemented with its gate (every activation finds an identity), and the answered state is the client's |
| `lifecycle_gate_race` | 1 client, 2 requests | the counterexample of the first finding |
| `registration_wide` | 1 client, 2 requests, a first submission out of some 700 bodies and a second out of 3 | what is stored keeps the document rules; sent back it builds into itself; rows and document describe the same scope |
| `registration_confirm` | 2 clients, 2 requests, 3 writing requests of 3 bodies, 2 registrar identifiers and an empty one | order and rows agree, oldest first; rows keep identity; primary keys are unique; only a failure leaves a replacement unaudited |
| `registration_all_claims`, `registration_contact` | 1 client, 1 submission, the wide bodies | the counterexamples of the other findings |
| `settings` | 1 client, 2 requests, 3 arrivals, 5 webhooks, 9 origin lists, 6 identities, 3 documents of other programs | the trail tells every setting; decisions and other choices survive each other; answers are true; nothing malformed is stored; `AuditedSettings` is implemented |
| `onboarding` | 2 requests, 3 arrivals, 3 names, 1 prefix, cut at 2, ids that differ in 3 | only failures lose clients or keys; shown keys work; slugs are well formed, follow their name and differ |
| `bridge` | all methods, all replies, 3 codes | success is vouched for, codes surface, answers come from data |
| `archive` | 2 clients, 2 blobs, 3 ids, 5 audit entries, 2 deletion requests, 2 clock readings in any order | an evidence list is only added to and keeps its order, whatever ids and clock do; content goes by the purge of its own client and is never another's; other lists are pages of the newest entries |
| `server` | 2 keys, 1 address and a malformed one, 2 requests, 1 connection, 1 edit, 2 starts | a process serves with what its own start read; its gate opens for that key alone; ready is said only of a database that was up; every probe is answered |

Why these bounds.  Requests interact through one client's row only, so two
requests on one client show every race of a pair, and a third actor is present in
the other handlers and programs.  Two clients are there to see a purge, a flip or
a list hit the wrong row.  One intended use is there or is not, revoked or not,
which is all the gate asks.  Three ids and two readings are every order in which a
third row can come between, before or behind two others.  One key and one evidence row tell the two kinds of item
apart; all items of a kind are treated alike.  The wide bodies vary one part of a
request at a time, because Build looks at each part by itself, and put every good
and bad credential before and behind a good one; what follows such a submission is
one of three (`FewFollow`), because only whether a second one came, and with how
many uses, matters to the first.  Three submissions suffice to add rows, drop some
and bring dropped ones back.  The origin lists reach the limit of twenty and
exceed it; the identities, addresses and modes hold one value for each answer of
each check.  One prefix makes every two keys share it.  One connection makes
every request a competitor of the probe, one edit falls before, during or after a
start, two starts show that nothing of the first gets into the second.  The
proofs lift these bounds for all properties of section 4.

Deadlock is checked except in `archive` and `bridge`, which end when their bounds
or their one method are used up, and `server`, where a process that used up its
starts and died stays down.

Fairness.  `LifecycleRetries`: weak fairness of a request's own steps, because the
Go runtime runs a goroutine that can run.  Strong fairness of asking again for an
offboarding that ended in a failure, because the doc comment of `Transition`
(`lifecycle.go:108-118`) makes the retry after a purge failure the recovery
mechanism; and of the read and the purge of such requests, because a
database asked again and again answers some time.  An offboarding that succeeded, or
was refused, is not repeated: a key minted after the last purge (`api_keys.go:41`)
stays live, and `OffboardingConverges` says nothing of it unless somebody asks for
the offboarding again.  Nothing is assumed of crashes or lost answers, and no
fairness makes an offboarding happen in the first place.
`Server`: weak fairness of the two probe handlers' own steps and of the
expiration of the probe's two seconds: handlers run, and time passes.  The pool
owes nobody a connection and the database nobody an answer; without the deadline
`ProbesAnswer` fails.

### Finding: the activation gate can be skipped (`lifecycle_gate_race`)

`Transition` applies the gate when the status it read is `registered` or
`suspended` and leaves every other status to the store's matrix.  Request A
(`-> active`) reads `filed_with_registrar` and skips the gate; request B moves the
client to `registered`; A's flip `registered -> active` is now legal.  The client is
active with no registrar identity and no intended use, against `README.md:116`.
`ActivationIsGated` is the sentence of the README.

There is a second way, one call later.  The handler reads the intended uses
(`lifecycle.go:174`), and before it flips the client a confirmation may replace them
by a list with no usable one; that the request read the right state does not
help.  `UngatedIsOvertakenOrReplaced` proves that there is no third way, and
`GateIsNeverStale` that the identity, once checked, is never lost.  What is enough
against both is that no two transitions of one client overlap and nothing replaces
its intended uses between check and flip (`SequentialGate`).  A lock
on the client's row for the time of a transition is enough for the identity alone
(`SequentialImplementsGate`).  That an active client keeps a usable intended use is
stated nowhere, and is not so: a confirmation may empty them at any time.

### Finding: all-claims swallows a claims list (`registration_all_claims`)

`wizard.go:107-109` says a form with `AllClaims` has no claims list.  The API copies
both fields from the request (`api_registration.go:222-227`) and `build` looks at
the list only when `AllClaims` is false, so a request with both is answered with
200 and registers all claims instead of those it names.

### Finding: a blank contact is a contact (`registration_contact`)

`wizard.go:249-251` requires one contact channel of the supervisory authority.
The code counts list entries and, unlike for every other list, does not drop blank
ones: `email: [""]` is stored.

### Observations

Smaller disagreements the models show, without a run of their own:

* An origin needs no host name.  `https://:8443` passes the handler (`u.Host` is
  `:8443`, `api.go:308`) and the store's expression, where `repo.go:227` speaks of
  `https://host[:port]`; `https:///x` passes as a webhook, where `repo.go:209` asks
  for an absolute URL.  `StoredIsWellFormed` states what both checks do exclude.
* `README.md:49` says the state `POST /api/clients` answers is always `draft`.  It is
  read in a second call (`api.go:136`), and a client found in a list in between may
  have been moved (`Onboarding`: `Create`, `ListClients`, `Transition`, `ReadBack`).
  `DraftsAreToldAsDrafts` proves that only such a list makes the difference.
* Evidence is listed by clock reading and id (`fake.go:661-669`).  Where the clock
  stands still or steps back this is not the order of the uploads, and is not meant
  to be; what does hold is that the list never changes its order
  (`EvidenceStaysListed`).
* With confirmations the rows carry the registrar's identifiers and the document
  still has the pending ones, so `RowsProjectDocument` (the "projections" of
  `repo.go:99`) is checked and proved for an empty `RegistrarId` only.  What the
  confirming program does with the document is not to be seen here.

## 4. Proofs

Every constant set of clients, requests, keys, values, codes, addresses and every
bound is arbitrary in the proofs.  What is assumed of the constants is named in the
modules: `NoClient` is no client, keys and evidence are disjoint, targets are
states, TS5 verdicts are Booleans (`Lifecycle`); neither a registrar's identifier
nor the empty one is a pending one, and a body has the shape the handler decodes (`BodyAssumption` of
`Registration`: strings, lists of strings, lists of uses, with no rule of the
wizard in it); webhooks, origins and registrar URIs are addresses, and a document
of other programs has no flag of this one and can be read with and without it
(`ClientSettings`); a name is a sequence of characters, a dash is no letter, letters
and the dash are their own lower case, "client" is made of letters, the cut and the
span of the suffix are not zero (`Onboarding`, `Slug`); purged content is no content,
and ids are ordered like numbers (`Archive`); "no error" is no error code (`DatabaseBridge`);
"unset" is no value, and an address is not malformed and well formed (`Server`);
bounds are natural numbers.  TLC evaluates
all of them on the runs' instances.

| Theorem | Property | Argument |
|---|---|---|
| `TypeCorrect` | `TypeOK` of `Lifecycle` | one step per action |
| `GateIsNeverStale` | `CheckedIsStillTrue` | `GateInv`: a request past the identity check (`pc = "uses"`, or `"flip"` with a legal predecessor seen) has a usable identity on record, because `SetRegistrarIdentity` accepts usable identities only; a built registration never has an empty or revoked set of uses, so only a confirmation, which puts the request into `replaced`, takes them away |
| `OffboardOkIsComplete` | `OffboardOkMeansPurged` | `OffboardInv`: `offboarded` has no outgoing edge, so a request at "purge" finds it; what it owes belongs to its client |
| `RetryIsSafe` | `RetryNeverConflicts` | same invariant: a retry is never at "flip" or "uses" |
| `AuditTrailIsAWalk` | `AuditIsAWalk` | flip and entry are one call, so the newest entry always names the current state |
| `RequestsImplementLifecycle` | `ImplementsLifecycle` | each action maps to an abstract action or a stutter |
| `UngatedIsOvertakenOrReplaced` | `UngatedOnlyInTwoWays` (proved only) | `GateInv` and `ActivatedByFlip`: a client becomes active by a flip from a legal predecessor, and a request that saw one passed the gate, of which `GateInv` says what is still true |
| `AnswersAreTrueWhenGiven` | `TrueWhenGiven` (proved only) | a success ends a flip or a purge, and `OffboardInv` says that a purge is of an offboarding |
| `SequentialGate`, `SequentialImplementsGate` | `ActivationIsGated`, `ImplementsGate` | under `[]OnePerClient` (no two transitions of one client under way), the status a request read is still the client's at its flip (`SeqInv`): the steps of others leave its client alone (`OthersLeftAlone`), so the flip is of a request that passed the gate (`FlipFindsChecked`); the first one also under `[]NoneReplaced` |
| `SequentialAnswer` | `AnsweredStateIsCurrent` | under `OneAtATime`, whoever answered is alone, so nobody moved the client since its flip; the answer of a refused request is no state |
| `TypeCorrect` of `Registration` | `TypeOK` | `ListsInv` (what waits and what is stored are lists of identifiers), `RowsInv`, and `CountInv` for "no more replacements than requests" |
| `PrimaryKeys` | `RowIdsUnique` | `RowsInv`: the first half of every row id is the number of a replacement that took place, so a fresh id is no old one, and within one replacement places differ |
| `SurvivorsKeepTheirRow` | `SurvivorsStay` | `StepsMoveRows`: every step replaces the rows of one client or none; a replacement looks its ids up among the rows |
| `OrderIsKept` | `OrderListsRows` | `OrderInv`: within one client the order ascends in the replacements that made the rows; a replacement leaves the kept ids where they stand (`PickedEntries`) and appends each new one once |
| `AuditsAreLostByFaultsOnly` | `OnlyFaultsLoseAudits` | `CountInv`: the requests of a client that wait at "audit" are as many as its unaudited replacements, and no more than those once something failed; no bound on the requests |
| `StoredDocumentsAreValid`, `StoredDocumentsRoundTrip` | `StoredIsValid`, `StoredRoundTrips` | `DocsInv`: what is stored or waits to be is `Built` from an accepted form; `BuiltIsValid` proves every document rule from `Accepted`, `FormIsAccepted` and `FormBuildsAgain` that the form of such a document is accepted and builds it again, because `NonEmpty` has nothing left to drop (`PickedAll`) |
| `RowsAreProjections` | `RowsProjectDocument` | where `RegistrarId` is empty: what Build returns is a matched pair (`BuiltTogether`, from `CredentialsMatch`), a waiting submission holds a matched pair (`ProjectionInv`), and one call stores both |
| `ScopesAreRequested` | `ScopesWereRequested` (proved only) | `SourceInv`: what waits and what is stored comes of accepted bodies; a confirmation renames rows and keeps their credentials (`ReplacedAreRequested`) |
| `EverySubmissionStartsOver` | `SubmissionsStartOver` (proved only) | `EveryStepDoes`: only a `SaveWRPDocument` changes a document, and what it writes is a matched pair with pending identifiers (`SubmittedFacts`) |
| `SubmissionsAreNotMixed` | `PendingIdsAreOwned` (proved only) | `OwnInv`: of what clients hold and requests wait to write (`Held`), the first half of a pending identifier is the number of its arrival, which belongs to one client (`StepsMoveHeld`) |
| `ContactsWithoutBlanksAreUsable` | `StoredContactIsUsable`, which its run refutes | with no blank contact in any body: filled entries are kept through Build and storage |
| `TypeCorrect` of `ClientSettings` | `TypeOK` | `TypeInv` and `CountInv`: trail entries and requests about to write are no more than the arrivals |
| `WellFormed` | `StoredIsWellFormed` | `TypeInv`: a request waits for its write only with a value its handler accepted (`Waiting`); handler and store together imply the form |
| `ChoicesSurvive`, `DecisionsStay` | `OtherChoicesSurvive`, `DecisionsAreRecorded` | `DocumentInv`: a document is the others' choices alone, with a decision that is the latest on the trail, or unreadable (`MergeDecides`, `RewriteKeeps`) |
| `TrailTells` | `TrailTellsSettings` | `SettingsInv` and `DocumentInv`: column and entry are one call; replaying finds the latest entry (`ReplayedIsSaid`) |
| `AnswersAreTrue` | `AnswersAreOnTrail` | `AnswerInv`: what the trail said at a place it says for ever (`TrailKeeps`), and a read-back reads what it says now (`StoredIsSaid`) |
| `SettersAreAudited` | `ImplementsAuditedSettings` | `StepsWrite`: every step writes one setting, meddles with a document or does neither; writes map to `Write`, an unreadable document to `Lose`, everything else stutters |
| `KeysAreNotLost`, `ShownIsStored` | `OnlyFaultsLoseKeys`, `ShownKeysWork` | `SecretInv`: a request about to store a key holds a secret no row and no other such request has |
| `ClientsAreNotLost` | `OnlyFaultsOrphanClients` | inductive with `TypeInv`: what a read-back is owed, it tells |
| `TypeCorrect` of `Onboarding` | `TypeOK` | `ClientInv` (rows), `NamedInv` (what a request needs at its next call is there), `CountInv` (secrets drawn and requests looking up are no more than the arrivals) |
| `DraftsAreToldAsDrafts` | `NobodyElseTells`, `ToldAsDraftOrListed` (proved only) | `ToldInv`: a client that left `draft` was told of or listed, and what two requests are to read back are two clients nobody was told of (`StepsTell`) |
| `SlugsNameClients` | `SlugsAreHandles` | `SlugInv`: a slug is made of its row's name and id; `DashedIsTidy` (of two dashes side by side the second is not kept), `CutKeeps`, and `LettersOfDashed`, `LettersOfBeginning` for "follows the name"; `SuffixesDiffer` by the division theorem |
| `TypeCorrect` of `Archive`, `ContentIsWhatIsDue` | `TypeOK`, `ContentIsDue` | `ArchiveInv`: every row has one upload in the log, and is empty exactly when a purge of its owner follows it |
| `UploadsStayListed`, `ListsAreTheNewest` | `EvidenceStaysListed`, `ListsArePages` | `ArchiveInv`: the rows of a client are what its trail uploaded; `Earlier` orders any two rows one way (`OrderIsCounted`), so each place has one row (`OrderIsListed`), and no step changes owner, time or id of a row (`RowsStay`); a page counts from the other end (`EveryPage`) |
| `NoErrorIsDone`, `CodesReachTheCaller`, `AnswersAreRead` | `SuccessIsVouched`, `CodesSurface`, `AnswersComeFromData` | `ReceivedCases`: the things a reply can be taken for; `VouchInv` carries the first procedure of `SetIntendedUses` over to the second |
| `Typed` | (part of the next three) | one step per action |
| `ServesWithItsOwnSecrets`, `TheGateKeepsItsKey`, `ReadyIsNoGuess` | `ServesAsDeployed`, `KeysOpenAsDeployed`, `ReadyIsVouched` | `StartInv` (a default read is one the file held since the start), `ConfigInv` (a loaded configuration is deployed, the gate's key is its own), `RequestInv`, `GateInv` (the verdict was made with the captured key) and `ProbeInv` (a probe under way with the database up has met it) |

The properties marked "proved only" are stated in the proof modules and no run
checks them; they say what lies around a finding, an observation or a hazard.

Each of the invariants in the right column is needed because the property alone
is not inductive: it speaks of a state in which a request, or a start, has
finished, and the invariant says what is true on the way there.

Every invariant and every action property that a passing run checks, and all
refinements, are stated by a theorem.  Lists are what made this hard: a recursive
definition or a library fold can only be reasoned about by induction over data.
Where the code appends the entries of a list that pass a test, or sorts, the
models say which *places* of the list are picked (`Picked`, `Nth`: the place with k
others up to it), and the lemmas of `Selection_proofs` follow from counting finite
sets: places are taken in order, each once (`PickedEntries`), a union of what is
before and what is after is counted one after the other (`NthOfParts`), and a
bijection that keeps the order keeps the places (`NthOfImage`).

Two things the theorems do not say.  `RowsAreProjections` assumes that `RegistrarId`
is empty, as its run does (see Observations).  `SequentialGate`
and `SequentialImplementsGate` assume `[]OnePerClient`, which always holds of one
request and of any number for different clients; without it the first finding is
the counterexample.  `SequentialGate` also assumes `[]NoneReplaced`; without that
a confirmation between check and flip is one.  `SequentialAnswer` assumes `OneAtATime` (no two requests): it
speaks of answers given before, which a second transition overtakes.

Only model-checked: `OffboardingConverges` and `ProbesAnswer`.  Liveness under
fairness, and `ENABLED`, are out of the prover's reach.

## 5. What is left

Every operation of the service that changes state is modelled, and every safety
property of a passing run is proved.  Worth adding:

1. An abstract specification of the rows and their order (a map from identifiers to
   rows with a birthday) and `Registration` as its implementation; `OrderIsKept`,
   `PrimaryKeys` and `SurvivorsKeepTheirRow` would follow from it.

## 6. Not modelled, and why

*Redaction* (`redaction.go`) is a list of words handed to the log library; no state
of the service depends on it.  *Test support* (`testing.go`) builds an App for tests.
Of the *server process*, the default listening address and the command line are
wiring.  The database procedures are not in the repository; they are modelled
through `Fake`, which the repository keeps in step with them, and marked external
where the code only shows how they are used, as are the filing confirmation, the
operator and the other writers of a policy document.  The constant time of the
key comparison, the argon2id hash and the encodings of a key stand for equality of
secrets.
