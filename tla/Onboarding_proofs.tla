------------------------- MODULE Onboarding_proofs -------------------------
(***************************************************************************)
(* What is made once is told once, for any callers, names, prefixes and    *)
(* number of requests: keys and clients get lost by failures alone, a key  *)
(* that was shown is one that is stored, slugs are handles, and a client   *)
(* is told of as a draft unless somebody found it in a list before.        *)
(***************************************************************************)
EXTENDS Onboarding, Selection_proofs, TLAPS

KeyRow == [client : Nat, prefix : Prefix, secret : Nat]
Labels == {"idle", "create", "readback", "lookup", "store", "done"}

\* What a request remembers between two calls.
JobShape(j) ==
    /\ j = [name |-> j.name, client |-> j.client, key |-> j.key, state |-> j.state]
    /\ j.client \in Nat

\* What the other parts of the invariant rest on.
TypeInv ==
    /\ nextId \in Nat /\ minted \in Nat
    /\ Known \subseteq Nat /\ seen \subseteq Nat /\ told \subseteq Nat
    /\ apiKeys \subseteq KeyRow
    /\ pc \in [Request -> Labels]
    /\ job = [r \in Request |-> job[r]]
    /\ \A r \in Request : JobShape(job[r])

Storing == {r \in Request : pc[r] = "store"}

\* Secrets are drawn once: the rows have different ones, and a request that is
\* about to store a key has one of its own.
SecretInv ==
    /\ \A k \in apiKeys : k.secret \in 1..minted
    /\ \A k, l \in apiKeys : k.secret = l.secret => k = l
    /\ \A r \in Storing :
          /\ job[r].key \in KeyRow /\ job[r].key.secret \in 1..minted
          /\ \A k \in apiKeys : k.secret # job[r].key.secret
          /\ \A q \in Storing \ {r} : job[q].key.secret # job[r].key.secret

KeyInv == shown \subseteq apiKeys /\ OnlyFaultsLoseKeys

IInv == TypeInv /\ SecretInv /\ KeyInv /\ OnlyFaultsOrphanClients

-----------------------------------------------------------------------------
\* Before the first request nothing is stored.
LEMMA Initially == Init => IInv
<1> SUFFICES ASSUME Init PROVE IInv
  OBVIOUS
<1> USE DEF Init
<1>1. Known = {}
  BY DEF Known
<1>2. JobShape(NoJob)
  BY DEF NoJob, JobShape
<1>3. TypeInv
  BY <1>1, <1>2 DEF TypeInv, Labels
<1>4. SecretInv /\ KeyInv
  BY DEF SecretInv, Storing, KeyInv, OnlyFaultsLoseKeys
<1>5. OnlyFaultsOrphanClients
  BY <1>1 DEF OnlyFaultsOrphanClients
<1> QED
  BY <1>3, <1>4, <1>5 DEF IInv

-----------------------------------------------------------------------------
(***************************************************************************)
(* The types, action by action.                                            *)
(***************************************************************************)

\* Writing one field of what a request remembers keeps its shape and the rest.
LEMMA FieldWritten ==
    ASSUME NEW j, JobShape(j), NEW n \in Nat, NEW v
    PROVE  /\ JobShape([j EXCEPT !.client = n])
           /\ [j EXCEPT !.client = n].client = n
           /\ [j EXCEPT !.client = n].key = j.key
           /\ JobShape([j EXCEPT !.key = v])
           /\ [j EXCEPT !.key = v].client = j.client
           /\ [j EXCEPT !.key = v].key = v
           /\ JobShape([j EXCEPT !.state = v])
           /\ [j EXCEPT !.state = v].client = j.client
           /\ [j EXCEPT !.state = v].key = j.key
BY DEF JobShape

\* A new job has the shape of one.
LEMMA JobMade ==
    ASSUME NEW n, NEW c \in Nat
    PROVE  /\ JobShape(NoJob)
           /\ JobShape([NoJob EXCEPT !.name = n])
           /\ JobShape([NoJob EXCEPT !.client = c])
BY DEF NoJob, JobShape

\* Every step keeps the types.
LEMMA TypeStep == TypeInv /\ SecretInv /\ [Next]_vars => TypeInv'
<1> SUFFICES ASSUME TypeInv, SecretInv, [Next]_vars PROVE TypeInv'
  OBVIOUS
<1> USE DEF TypeInv, Known
<1>1. ASSUME NEW r \in Request, NEW name \in Name, PostClient(r, name) PROVE TypeInv'
  <2>1. JobShape([NoJob EXCEPT !.name = name]) /\ JobShape(NoJob)
    BY JobMade
  <2>2. CASE NameGiven(name)
    BY <1>1, <2>1, <2>2 DEF PostClient, Goto, Labels, store, history
  <2>3. CASE ~NameGiven(name)
    BY <1>1, <2>1, <2>3 DEF PostClient, Answers, Labels, store, history
  <2> QED
    BY <2>2, <2>3
<1>2. ASSUME NEW r \in Request, NEW c \in Asked, PostKey(r, c) PROVE TypeInv'
  BY <1>2, JobMade DEF Asked, PostKey, Arrives, Goto, Labels, store, history
<1>3. ASSUME NEW r \in Request, NEW prefix \in Prefix, LookUp(r, prefix) PROVE TypeInv'
  <2>1. JobShape([job[r] EXCEPT !.key = Minted(job[r].client, prefix)])
    BY FieldWritten
  <2> QED
    BY <1>3, <2>1 DEF LookUp, Goto, Labels, store, history
<1>4. ASSUME NEW r \in Request, NEW s \in SUBSET Status, ListClients(r, s) PROVE TypeInv'
  BY <1>4, JobMade DEF ListClients, Answers, Labels, store
<1>5. ASSUME NEW r \in Request, Create(r) PROVE TypeInv'
  <2>1. JobShape([job[r] EXCEPT !.client = nextId])
    BY FieldWritten
  <2> QED
    BY <1>5, <2>1 DEF Create, CreateDraftClient, Goto, Labels, history
<1>6. ASSUME NEW r \in Request, ReadBack(r) PROVE TypeInv'
  <2>1. JobShape([job[r] EXCEPT !.state = client[job[r].client].status])
    BY FieldWritten
  <2> QED
    BY <1>6, <2>1 DEF ReadBack, Answers, Labels, store, JobShape
<1>7. ASSUME NEW r \in Request, LookUpRefused(r) \/ MintFails(r) PROVE TypeInv'
  BY <1>7 DEF LookUpRefused, MintFails, Answers, Labels, store, history
<1>8. ASSUME NEW r \in Request, StoreKey(r) PROVE TypeInv'
  BY <1>8 DEF SecretInv, Storing, StoreKey, CreateAPIKey, Answers, Labels
<1>9. ASSUME NEW r \in Request, CallFails(r) PROVE TypeInv'
  BY <1>9 DEF CallFails, Fails, Answers, Labels, store
<1>10. ASSUME NEW r \in Request, AnswerLost(r) PROVE TypeInv'
  BY <1>10 DEF SecretInv, Storing, AnswerLost, Fails, CreateDraftClient, CreateAPIKey, Answers, Labels
<1>11. ASSUME NEW c \in Known, NEW to \in Status, Transition(c, to) PROVE TypeInv'
  BY <1>11 DEF Transition, requests, history
<1>12. ASSUME Crash PROVE TypeInv'
  BY <1>12, JobMade DEF Crash, Labels, store
<1>13. ASSUME UNCHANGED vars PROVE TypeInv'
  BY <1>13 DEF vars, store, requests, history
<1> QED
  BY <1>1, <1>2, <1>3, <1>4, <1>5, <1>6, <1>7, <1>8, <1>9, <1>10, <1>11, <1>12, <1>13
     DEF Next

-----------------------------------------------------------------------------
(***************************************************************************)
(* What a step makes.                                                      *)
(***************************************************************************)

\* No key is made, and nobody comes to store one.
KeysAlone ==
    /\ UNCHANGED <<apiKeys, minted, shown>>
    /\ \A r \in Storing' : r \in Storing /\ job'[r].key = job[r].key
    /\ faulted => faulted'

\* No client is made, and a request that is about to tell of one still is.
ClientsAlone ==
    /\ Known' = Known /\ told \subseteq told'
    /\ \A r \in Request : pc[r] = "readback" =>
          \/ pc'[r] = "readback" /\ job'[r].client = job[r].client
          \/ job[r].client \in told'
          \/ faulted'
    /\ faulted => faulted'

\* A key is drawn for r.
Draws(r) ==
    /\ pc[r] = "lookup" /\ minted' = minted + 1
    /\ job'[r].key \in KeyRow /\ job'[r].key.secret = minted + 1
    /\ \A q \in Storing' \ {r} : q \in Storing /\ job'[q].key = job[q].key
    /\ UNCHANGED <<apiKeys, shown, faulted>>

\* The key of r is stored, and shown unless the answer is lost.
Stores(r) ==
    /\ r \in Storing /\ r \notin Storing'
    /\ apiKeys' = apiKeys \cup {job[r].key}
    /\ \/ shown' = shown \cup {job[r].key} /\ faulted' = faulted
       \/ shown' = shown /\ faulted'
    /\ \A q \in Storing' : q \in Storing /\ job'[q].key = job[q].key
    /\ minted' = minted

\* A client is made by r, which goes on to tell of it unless the answer is lost.
Makes(r) ==
    /\ pc[r] = "create"
    /\ Known' = Known \cup {nextId} /\ told' = told
    /\ \A q \in Request \ {r} : pc'[q] = pc[q] /\ job'[q] = job[q]
    /\ \/ pc'[r] = "readback" /\ job'[r].client = nextId /\ faulted' = faulted
       \/ faulted'

\* Every step is one of these, for the keys and for the clients.
LEMMA StepsMake ==
    TypeInv /\ SecretInv /\ [Next]_vars =>
        /\ KeysAlone \/ \E r \in Request : Draws(r) \/ Stores(r)
        /\ ClientsAlone \/ \E r \in Request : Makes(r)
<1> DEFINE Goal == /\ KeysAlone \/ \E r \in Request : Draws(r) \/ Stores(r)
                   /\ ClientsAlone \/ \E r \in Request : Makes(r)
<1> SUFFICES ASSUME TypeInv, SecretInv, [Next]_vars PROVE Goal
  OBVIOUS
<1>0. /\ pc \in [Request -> Labels] /\ job = [r \in Request |-> job[r]]
      /\ \A r \in Request : JobShape(job[r])
  BY DEF TypeInv
<1>1. ASSUME NEW r \in Request, NEW name \in Name, PostClient(r, name) PROVE Goal
  <2>1. KeysAlone
    BY <1>0, <1>1 DEF KeysAlone, Storing, PostClient, Arrives, Free, Answers, Goto, store, history
  <2>2. ClientsAlone
    BY <1>0, <1>1 DEF ClientsAlone, Known, PostClient, Arrives, Free, Answers, Goto, store, history
  <2> QED
    BY <2>1, <2>2
<1>2. ASSUME NEW r \in Request, NEW c \in Asked, PostKey(r, c) PROVE Goal
  BY <1>0, <1>2 DEF KeysAlone, ClientsAlone, Storing, Known, PostKey, Arrives, Free, Goto, store, history
<1>3. ASSUME NEW r \in Request, NEW prefix \in Prefix, LookUp(r, prefix) PROVE Goal
  <2>1. /\ job'[r] = [job[r] EXCEPT !.key = Minted(job[r].client, prefix)]
        /\ \A q \in Request \ {r} : job'[q] = job[q]
    BY <1>0, <1>3 DEF LookUp
  <2>2. job'[r].key = Minted(job[r].client, prefix)
    BY <1>0, <2>1, FieldWritten
  <2>3. job'[r].key \in KeyRow /\ job'[r].key.secret = minted + 1
    BY <1>0, <2>2 DEF Minted, KeyRow, JobShape, TypeInv
  <2>4. Draws(r)
    BY <1>0, <1>3, <2>1, <2>3 DEF Draws, Storing, LookUp, Goto, store, history
  <2>5. ClientsAlone
    BY <1>0, <1>3, <2>1 DEF ClientsAlone, Known, LookUp, Goto, store, history
  <2> QED
    BY <2>4, <2>5
<1>4. ASSUME NEW r \in Request, NEW s \in SUBSET Status, ListClients(r, s) PROVE Goal
  BY <1>0, <1>4 DEF KeysAlone, ClientsAlone, Storing, Known, ListClients, Free, Answers, store
<1>5. ASSUME NEW r \in Request, Create(r) PROVE Goal
  <2>1. /\ job'[r] = [job[r] EXCEPT !.client = nextId]
        /\ \A q \in Request \ {r} : job'[q] = job[q]
    BY <1>0, <1>5 DEF Create
  <2>2. job'[r].client = nextId
    BY <1>0, <2>1, FieldWritten DEF TypeInv
  <2>3. KeysAlone
    BY <1>0, <1>5, <2>1 DEF KeysAlone, Storing, Create, CreateDraftClient, Goto, history
  <2>4. Makes(r)
    BY <1>0, <1>5, <2>1, <2>2 DEF Makes, Known, Create, CreateDraftClient, Goto, history
  <2> QED
    BY <2>3, <2>4
<1>6. ASSUME NEW r \in Request, ReadBack(r) PROVE Goal
  <2>1. \A q \in Request \ {r} : job'[q] = job[q]
    BY <1>0, <1>6 DEF ReadBack
  <2>2. KeysAlone
    BY <1>0, <1>6, <2>1 DEF KeysAlone, Storing, ReadBack, Answers, store
  <2>3. ClientsAlone
    BY <1>0, <1>6, <2>1 DEF ClientsAlone, Known, ReadBack, Answers, store
  <2> QED
    BY <2>2, <2>3
<1>7. ASSUME NEW r \in Request, LookUpRefused(r) \/ MintFails(r) PROVE Goal
  BY <1>0, <1>7 DEF KeysAlone, ClientsAlone, Storing, Known, LookUpRefused, MintFails, Answers, store, history
<1>8. ASSUME NEW r \in Request, StoreKey(r) PROVE Goal
  <2>1. Stores(r)
    BY <1>0, <1>8 DEF Stores, Storing, StoreKey, CreateAPIKey, Answers
  <2>2. ClientsAlone
    BY <1>0, <1>8 DEF ClientsAlone, Known, StoreKey, CreateAPIKey, Answers
  <2> QED
    BY <2>1, <2>2
<1>9. ASSUME NEW r \in Request, CallFails(r) PROVE Goal
  BY <1>0, <1>9 DEF KeysAlone, ClientsAlone, Storing, Known, CallFails, Fails, Answers, store
<1>10. ASSUME NEW r \in Request, AnswerLost(r) PROVE Goal
  <2>1. CASE pc[r] = "create" /\ CreateDraftClient(job[r].name)
    <3>1. KeysAlone
      BY <1>0, <1>10, <2>1 DEF KeysAlone, Storing, AnswerLost, CreateDraftClient, Fails, Answers
    <3>2. Makes(r)
      BY <1>0, <1>10, <2>1 DEF Makes, Known, AnswerLost, CreateDraftClient, Fails, Answers
    <3> QED
      BY <3>1, <3>2
  <2>2. CASE pc[r] = "store" /\ CreateAPIKey(job[r].key)
    <3>1. Stores(r)
      BY <1>0, <1>10, <2>2 DEF Stores, Storing, AnswerLost, CreateAPIKey, Fails, Answers
    <3>2. ClientsAlone
      BY <1>0, <1>10, <2>2 DEF ClientsAlone, Known, AnswerLost, CreateAPIKey, Fails, Answers
    <3> QED
      BY <3>1, <3>2
  <2> QED
    BY <1>10, <2>1, <2>2 DEF AnswerLost
<1>11. ASSUME NEW c \in Known, NEW to \in Status, Transition(c, to) PROVE Goal
  BY <1>11 DEF KeysAlone, ClientsAlone, Storing, Known, Transition, requests, history
<1>12. ASSUME Crash PROVE Goal
  BY <1>12 DEF KeysAlone, ClientsAlone, Storing, Known, Crash, store
<1>13. ASSUME UNCHANGED vars PROVE Goal
  BY <1>13 DEF KeysAlone, ClientsAlone, Storing, Known, vars, store, requests, history
<1> QED
  BY <1>1, <1>2, <1>3, <1>4, <1>5, <1>6, <1>7, <1>8, <1>9, <1>10, <1>11, <1>12, <1>13
     DEF Next

-----------------------------------------------------------------------------
(***************************************************************************)
(* The invariants.                                                         *)
(***************************************************************************)

\* Every step keeps the secrets apart, and the keys stored and shown.
LEMMA KeysStep ==
    TypeInv /\ SecretInv /\ KeyInv /\ [Next]_vars => SecretInv' /\ KeyInv'
<1> SUFFICES ASSUME TypeInv, SecretInv, KeyInv, [Next]_vars PROVE SecretInv' /\ KeyInv'
  OBVIOUS
<1> USE DEF KeyInv, OnlyFaultsLoseKeys
<1>0. minted \in Nat /\ apiKeys \subseteq KeyRow
  BY DEF TypeInv
<1>1. CASE KeysAlone
  BY <1>1 DEF KeysAlone, SecretInv
<1>2. ASSUME NEW r \in Request, Draws(r) PROVE SecretInv' /\ KeyInv'
  <2>1. 1..minted \subseteq 1..minted' /\ minted' \in 1..minted' /\ minted' \notin 1..minted
    BY <1>0, <1>2 DEF Draws
  <2>2. \A q \in Storing' \ {r} : job'[q].key.secret \in 1..minted
    BY <1>2 DEF Draws, SecretInv
  <2>3. \A k \in apiKeys : k.secret \in 1..minted
    BY DEF SecretInv
  <2>4. SecretInv'
    BY <1>2, <2>1, <2>2, <2>3 DEF Draws, SecretInv
  <2> QED
    BY <1>2, <2>4 DEF Draws
<1>3. ASSUME NEW r \in Request, Stores(r) PROVE SecretInv' /\ KeyInv'
  BY <1>3 DEF Stores, SecretInv
<1> QED
  BY <1>1, <1>2, <1>3, StepsMake

\* Every step but a failure tells of the client it makes.
LEMMA ClientsStep ==
    TypeInv /\ SecretInv /\ OnlyFaultsOrphanClients /\ [Next]_vars
        => OnlyFaultsOrphanClients'
<1> SUFFICES ASSUME TypeInv, SecretInv, OnlyFaultsOrphanClients, [Next]_vars
             PROVE  OnlyFaultsOrphanClients'
  OBVIOUS
<1> USE DEF OnlyFaultsOrphanClients
<1>1. CASE ClientsAlone
  BY <1>1 DEF ClientsAlone
<1>2. ASSUME NEW r \in Request, Makes(r) PROVE OnlyFaultsOrphanClients'
  BY <1>2 DEF Makes
<1> QED
  BY <1>1, <1>2, StepsMake

\* The invariant is inductive.
LEMMA Inductive == Spec => []IInv
<1>1. IInv /\ [Next]_vars => IInv'
  BY TypeStep, KeysStep, ClientsStep DEF IInv
<1> QED
  BY Initially, <1>1, PTL DEF Spec

(***************************************************************************)
(* Without a failure every key that works was shown to the caller that     *)
(* asked for it (api_keys.go:21-50), however minting requests interleave.  *)
(***************************************************************************)
THEOREM KeysAreNotLost == Spec => []OnlyFaultsLoseKeys
<1>1. IInv => OnlyFaultsLoseKeys
  BY DEF IInv, KeyInv
<1> QED
  BY <1>1, Inductive, PTL

(***************************************************************************)
(* A key that was shown is stored for its client, and no secret is shown   *)
(* for two keys, whatever prefixes they drew (apikeys.go:51-80).           *)
(***************************************************************************)
THEOREM ShownIsStored == Spec => []ShownKeysWork
<1>1. IInv => ShownKeysWork
  BY DEF IInv, KeyInv, SecretInv, ShownKeysWork
<1> QED
  BY <1>1, Inductive, PTL

(***************************************************************************)
(* Without a failure the caller that created a client is told its id       *)
(* (api.go:125-136), whoever finds and moves the client in between.        *)
(***************************************************************************)
THEOREM ClientsAreNotLost == Spec => []OnlyFaultsOrphanClients
<1>1. IInv => OnlyFaultsOrphanClients
  BY DEF IInv
<1> QED
  BY <1>1, Inductive, PTL

-----------------------------------------------------------------------------
(***************************************************************************)
(* What the rows and the requests name is there, and no more secrets are   *)
(* drawn than requests were made: one that looks its client up draws one.  *)
(***************************************************************************)
ClientShape(v) ==
    /\ v = [name |-> v.name, slug |-> v.slug, status |-> v.status]
    /\ v.name \in Name /\ v.status \in Status

ClientInv ==
    /\ nextId \in Nat \ {0} /\ Known \subseteq 1..nextId - 1
    /\ client = [c \in Known |-> client[c]]
    /\ \A c \in Known : ClientShape(client[c])

\* What a request needs at its next call.
Ready(r) ==
    /\ pc[r] = "create" => job[r].name \in Name
    /\ pc[r] = "readback" => job[r].client \in Known
    /\ pc[r] = "store" => job[r].key.client \in Known

NamedInv ==
    /\ \A k \in apiKeys : k.client \in Known
    /\ seen \subseteq Known /\ told \subseteq Known /\ faulted \in BOOLEAN
    /\ \A r \in Request : Ready(r)

Looking == {r \in Request : pc[r] = "lookup"}

CountInv ==
    /\ arrived \in 0..MaxArrivals
    /\ IsFiniteSet(Looking) /\ minted + Cardinality(Looking) <= arrived

\* The rows: a client that is made has the next id.
LEMMA MakingKeeps ==
    ASSUME ClientInv, NEW name \in Name, CreateDraftClient(name)
    PROVE  ClientInv' /\ Known \subseteq Known' /\ nextId \in Known'
<1> DEFINE new == [name |-> name, slug |-> Slugify(name, nextId), status |-> "draft"]
<1>1. /\ nextId \in Nat \ {0} /\ Known \subseteq 1..nextId - 1
      /\ \A c \in Known : ClientShape(client[c])
  BY DEF ClientInv
<1>2. ClientShape(new)
  BY DEF ClientShape, Status
<1> HIDE DEF new
<1>3. client' = [id \in Known \cup {nextId} |-> IF id = nextId THEN new ELSE client[id]]
  BY DEF CreateDraftClient, new
<1>4. Known' = Known \cup {nextId} /\ \A c \in Known' : ClientShape(client'[c])
  BY <1>1, <1>2, <1>3 DEF Known
<1>5. client' = [c \in Known' |-> client'[c]]
  BY <1>3, <1>4
<1>6. nextId' = nextId + 2
  BY DEF CreateDraftClient
<1>7. nextId' \in Nat \ {0} /\ Known' \subseteq 1..nextId' - 1
  BY <1>1, <1>4, <1>6
<1> QED
  BY <1>4, <1>5, <1>7 DEF ClientInv

\* Only its state changes of a client.
LEMMA MovingKeeps ==
    ASSUME ClientInv, NEW c \in Known, NEW to \in Status, Transition(c, to)
    PROVE  ClientInv' /\ Known' = Known
<1>1. /\ nextId \in Nat \ {0} /\ Known \subseteq 1..nextId - 1
      /\ client = [d \in Known |-> client[d]] /\ ClientShape(client[c])
  BY DEF ClientInv
<1>2. client' = [client EXCEPT ![c] = [client[c] EXCEPT !.status = to]] /\ nextId' = nextId + 1
  BY DEF Transition
<1>3. ClientShape([client[c] EXCEPT !.status = to])
  BY <1>1 DEF ClientShape
<1> DEFINE new == [client[c] EXCEPT !.status = to]
<1> HIDE DEF new
<1>4. client' = [client EXCEPT ![c] = new] /\ ClientShape(new)
  BY <1>2, <1>3 DEF new
<1>5. /\ Known' = Known /\ client'[c] = new
      /\ \A d \in Known \ {c} : client'[d] = client[d]
      /\ client' = [d \in Known |-> client'[d]]
  BY <1>1, <1>4 DEF Known
<1>6. \A d \in Known' : ClientShape(client'[d])
  BY <1>4, <1>5 DEF ClientInv
<1>7. nextId' \in Nat \ {0} /\ Known' \subseteq 1..nextId' - 1
  BY <1>1, <1>2, <1>5
<1> QED
  BY <1>5, <1>6, <1>7 DEF ClientInv

LEMMA ClientRowsStep == TypeInv /\ ClientInv /\ NamedInv /\ [Next]_vars
                            => ClientInv' /\ Known \subseteq Known'
<1> SUFFICES ASSUME TypeInv, ClientInv, NamedInv, [Next]_vars
             PROVE  ClientInv' /\ Known \subseteq Known'
  OBVIOUS
<1>1. CASE UNCHANGED <<client, nextId>>
  BY <1>1 DEF ClientInv, Known
<1>2. ASSUME NEW r \in Request, pc[r] = "create", CreateDraftClient(job[r].name)
      PROVE  ClientInv' /\ Known \subseteq Known'
  BY <1>2, MakingKeeps DEF NamedInv, Ready
<1>3. ASSUME NEW c \in Known, NEW to \in Status, Transition(c, to)
      PROVE  ClientInv' /\ Known \subseteq Known'
  BY <1>3, MovingKeeps
<1>4. ASSUME NEW r \in Request, Create(r) PROVE ClientInv' /\ Known \subseteq Known'
  BY <1>2, <1>4 DEF Create
<1>5. ASSUME NEW r \in Request, AnswerLost(r) PROVE ClientInv' /\ Known \subseteq Known'
  BY <1>1, <1>2, <1>5 DEF AnswerLost, CreateAPIKey
<1>6. ASSUME NEW r \in Request,
             \/ \E name \in Name : PostClient(r, name)
             \/ \E c \in Asked : PostKey(r, c)
             \/ \E prefix \in Prefix : LookUp(r, prefix)
             \/ \E s \in SUBSET Status : ListClients(r, s)
             \/ ReadBack(r) \/ LookUpRefused(r) \/ MintFails(r) \/ StoreKey(r) \/ CallFails(r)
      PROVE  UNCHANGED <<client, nextId>>
  BY <1>6 DEF PostClient, PostKey, LookUp, ListClients, ReadBack, LookUpRefused, MintFails,
              StoreKey, CreateAPIKey, CallFails, store
<1>7. ASSUME Crash \/ UNCHANGED vars PROVE UNCHANGED <<client, nextId>>
  BY <1>7 DEF Crash, vars, store
<1> QED
  BY <1>1, <1>3, <1>4, <1>5, <1>6, <1>7 DEF Next

\* The other requests need what they needed.
LEMMA StillReady ==
    ASSUME NEW r \in Request, Ready(r), Known \subseteq Known',
           pc'[r] = pc[r], job'[r] = job[r]
    PROVE  Ready(r)'
BY DEF Ready

LEMMA NamedStep == TypeInv /\ SecretInv /\ ClientInv /\ NamedInv /\ [Next]_vars => NamedInv'
<1> SUFFICES ASSUME TypeInv, SecretInv, ClientInv, NamedInv, [Next]_vars PROVE NamedInv'
  OBVIOUS
<1>0. /\ pc \in [Request -> Labels] /\ job = [q \in Request |-> job[q]]
      /\ \A q \in Request : JobShape(job[q])
  BY DEF TypeInv
<1>1. Known \subseteq Known'
  BY ClientRowsStep
\* It is enough to look at the request that takes the step.
<1>2. ASSUME NEW r \in Request, Ready(r)',
             \A q \in Request \ {r} : pc'[q] = pc[q] /\ job'[q] = job[q]
      PROVE  \A q \in Request : Ready(q)'
  BY <1>1, <1>2, StillReady DEF NamedInv
<1>3. ASSUME apiKeys' = apiKeys, seen' = seen, told' = told, faulted' \in {faulted, TRUE},
             \A q \in Request : Ready(q)'
      PROVE  NamedInv'
  BY <1>1, <1>3 DEF NamedInv
<1>4. ASSUME NEW r \in Request, NEW name \in Name, PostClient(r, name) PROVE NamedInv'
  <2>1. CASE NameGiven(name)
    <3>1. job'[r] = [NoJob EXCEPT !.name = name] /\ pc'[r] = "create"
      BY <1>0, <1>4, <2>1 DEF PostClient, Goto
    <3>2. job'[r].name = name
      BY <3>1 DEF NoJob
    <3>3. Ready(r)'
      BY <3>1, <3>2 DEF Ready
    <3>4. \A q \in Request \ {r} : pc'[q] = pc[q] /\ job'[q] = job[q]
      BY <1>0, <1>4, <2>1 DEF PostClient, Goto
    <3> QED
      BY <1>2, <1>3, <1>4, <3>3, <3>4 DEF PostClient, store, history
  <2>2. CASE ~NameGiven(name)
    <3>1. pc'[r] = "done" /\ \A q \in Request \ {r} : pc'[q] = pc[q] /\ job'[q] = job[q]
      BY <1>0, <1>4, <2>2 DEF PostClient, Answers
    <3> QED
      BY <1>2, <1>3, <1>4, <3>1 DEF Ready, PostClient, store, history
  <2> QED
    BY <2>1, <2>2
<1>5. ASSUME NEW r \in Request, NEW c \in Asked, PostKey(r, c) PROVE NamedInv'
  <2>1. pc'[r] = "lookup" /\ \A q \in Request \ {r} : pc'[q] = pc[q] /\ job'[q] = job[q]
    BY <1>0, <1>5 DEF PostKey, Goto
  <2> QED
    BY <1>2, <1>3, <1>5, <2>1 DEF Ready, PostKey, store, history
<1>6. ASSUME NEW r \in Request, NEW prefix \in Prefix, LookUp(r, prefix) PROVE NamedInv'
  <2>1. /\ job'[r] = [job[r] EXCEPT !.key = Minted(job[r].client, prefix)] /\ pc'[r] = "store"
        /\ \A q \in Request \ {r} : pc'[q] = pc[q] /\ job'[q] = job[q]
    BY <1>0, <1>6 DEF LookUp, Goto
  <2>2. job'[r].key = Minted(job[r].client, prefix)
    BY <1>0, <2>1, FieldWritten
  <2>3. job'[r].key.client \in Known'
    BY <1>1, <1>6, <2>2 DEF LookUp, Minted
  <2> QED
    BY <1>2, <1>3, <1>6, <2>1, <2>3 DEF Ready, LookUp, store, history
<1>7. ASSUME NEW r \in Request, NEW s \in SUBSET Status, ListClients(r, s) PROVE NamedInv'
  <2>1. pc'[r] = "done" /\ \A q \in Request \ {r} : pc'[q] = pc[q] /\ job'[q] = job[q]
    BY <1>0, <1>7 DEF ListClients, Answers
  <2>2. \A q \in Request : Ready(q)'
    BY <1>2, <2>1 DEF Ready
  <2> QED
    BY <1>1, <1>7, <2>2 DEF NamedInv, ListClients, store
<1>8. ASSUME NEW r \in Request, Create(r) PROVE NamedInv'
  <2>1. /\ job'[r] = [job[r] EXCEPT !.client = nextId] /\ pc'[r] = "readback"
        /\ \A q \in Request \ {r} : pc'[q] = pc[q] /\ job'[q] = job[q]
    BY <1>0, <1>8 DEF Create, Goto
  <2>2. job'[r].client = nextId
    BY <1>0, <2>1, FieldWritten DEF TypeInv
  <2>3. nextId \in Known'
    BY <1>8, MakingKeeps DEF Create, NamedInv, Ready
  <2> QED
    BY <1>2, <1>3, <1>8, <2>1, <2>2, <2>3 DEF Ready, Create, CreateDraftClient, history
<1>9. ASSUME NEW r \in Request, ReadBack(r) PROVE NamedInv'
  <2>1. pc'[r] = "done" /\ \A q \in Request \ {r} : pc'[q] = pc[q] /\ job'[q] = job[q]
    BY <1>0, <1>9 DEF ReadBack, Answers
  <2>2. \A q \in Request : Ready(q)'
    BY <1>2, <2>1 DEF Ready
  <2>3. job[r].client \in Known
    BY <1>9 DEF ReadBack, NamedInv, Ready
  <2> QED
    BY <1>1, <1>9, <2>2, <2>3 DEF NamedInv, ReadBack, store
<1>10. ASSUME NEW r \in Request, LookUpRefused(r) \/ MintFails(r) PROVE NamedInv'
  <2>1. pc'[r] = "done" /\ \A q \in Request \ {r} : pc'[q] = pc[q] /\ job'[q] = job[q]
    BY <1>0, <1>10 DEF LookUpRefused, MintFails, Answers
  <2> QED
    BY <1>2, <1>3, <1>10, <2>1 DEF Ready, LookUpRefused, MintFails, store, history
<1>11. ASSUME NEW r \in Request, CallFails(r) PROVE NamedInv'
  <2>1. pc'[r] = "done" /\ \A q \in Request \ {r} : pc'[q] = pc[q] /\ job'[q] = job[q]
    BY <1>0, <1>11 DEF CallFails, Fails, Answers
  <2> QED
    BY <1>2, <1>3, <1>11, <2>1 DEF Ready, CallFails, Fails, store
<1>12. ASSUME NEW r \in Request, StoreKey(r) \/ AnswerLost(r) PROVE NamedInv'
  <2>1. pc'[r] = "done" /\ \A q \in Request \ {r} : pc'[q] = pc[q] /\ job'[q] = job[q]
    BY <1>0, <1>12 DEF StoreKey, AnswerLost, Fails, Answers
  <2>2. \A q \in Request : Ready(q)'
    BY <1>2, <2>1 DEF Ready
  <2>3. \A k \in apiKeys' : k.client \in Known'
    BY <1>1, <1>12 DEF NamedInv, StoreKey, AnswerLost, CreateAPIKey, CreateDraftClient
  <2> QED
    BY <1>1, <1>12, <2>2, <2>3 DEF NamedInv, StoreKey, AnswerLost, Fails
<1>13. ASSUME NEW c \in Known, NEW to \in Status, Transition(c, to) PROVE NamedInv'
  <2>1. \A q \in Request : Ready(q)'
    BY <1>1, <1>13, StillReady DEF NamedInv, Transition, requests
  <2> QED
    BY <1>3, <1>13, <2>1 DEF Transition, history
<1>14. ASSUME Crash PROVE NamedInv'
  <2>1. \A q \in Request : Ready(q)'
    BY <1>14 DEF Crash, Ready
  <2> QED
    BY <1>3, <1>14, <2>1 DEF Crash, store
<1>15. ASSUME UNCHANGED vars PROVE NamedInv'
  <2>1. \A q \in Request : Ready(q)'
    BY <1>1, <1>15, StillReady DEF NamedInv, vars, requests
  <2> QED
    BY <1>3, <1>15, <2>1 DEF vars, store, history
<1> QED
  BY <1>4, <1>5, <1>6, <1>7, <1>8, <1>9, <1>10, <1>11, <1>12, <1>13, <1>14, <1>15 DEF Next

\* How many look up: those that did and one more at most.
LEMMA LookersCount ==
    ASSUME CountInv, NEW r, Looking' \in SUBSET (Looking \cup {r})
    PROVE  /\ IsFiniteSet(Looking') /\ Cardinality(Looking') \in Nat
           /\ Cardinality(Looking) \in Nat
           /\ Cardinality(Looking') <= Cardinality(Looking) + 1
           /\ Looking' \in SUBSET Looking => Cardinality(Looking') <= Cardinality(Looking)
           /\ r \in Looking /\ Looking' \in SUBSET (Looking \ {r})
              => Cardinality(Looking') <= Cardinality(Looking) - 1
<1>1. IsFiniteSet(Looking) /\ Cardinality(Looking) \in Nat
  BY FS_CardinalityType DEF CountInv
<1>2. /\ IsFiniteSet(Looking \cup {r})
      /\ Cardinality(Looking \cup {r}) = IF r \in Looking THEN Cardinality(Looking)
                                                          ELSE Cardinality(Looking) + 1
  BY <1>1, FS_AddElement
<1>3. /\ IsFiniteSet(Looking \ {r})
      /\ Cardinality(Looking \ {r}) = IF r \in Looking THEN Cardinality(Looking) - 1
                                                       ELSE Cardinality(Looking)
  BY <1>1, FS_RemoveElement
<1>4. IsFiniteSet(Looking') /\ Cardinality(Looking') <= Cardinality(Looking \cup {r})
  BY <1>2, FS_Subset
<1>5. Cardinality(Looking') \in Nat
  BY <1>4, FS_CardinalityType
<1>6. Looking' \in SUBSET Looking => Cardinality(Looking') <= Cardinality(Looking)
  BY <1>1, FS_Subset
<1>7. Looking' \in SUBSET (Looking \ {r}) => Cardinality(Looking') <= Cardinality(Looking \ {r})
  BY <1>3, FS_Subset
<1> QED
  BY <1>1, <1>2, <1>3, <1>4, <1>5, <1>6, <1>7

LEMMA CountStep == TypeInv /\ CountInv /\ [Next]_vars => CountInv'
<1> SUFFICES ASSUME TypeInv, CountInv, [Next]_vars PROVE CountInv'
  OBVIOUS
<1>0. pc \in [Request -> Labels] /\ minted \in Nat /\ arrived \in Nat /\ MaxArrivals \in Nat
      /\ arrived <= MaxArrivals /\ minted + Cardinality(Looking) <= arrived
  BY BoundAssumption DEF TypeInv, CountInv
<1>1. ASSUME UNCHANGED <<minted, arrived>>, Looking' \in SUBSET Looking PROVE CountInv'
  <2>1. Looking' \in SUBSET (Looking \cup {0})
    BY <1>1
  <2>2. /\ IsFiniteSet(Looking') /\ Cardinality(Looking') \in Nat
        /\ Cardinality(Looking) \in Nat /\ Cardinality(Looking') <= Cardinality(Looking)
    BY <1>1, <2>1, LookersCount
  <2> QED
    BY <1>0, <1>1, <2>2 DEF CountInv
<1>2. ASSUME NEW r \in Request, Arrives(r), minted' = minted,
             Looking' \in SUBSET (Looking \cup {r})
      PROVE  CountInv'
  <2>1. /\ IsFiniteSet(Looking') /\ Cardinality(Looking') \in Nat
        /\ Cardinality(Looking) \in Nat /\ Cardinality(Looking') <= Cardinality(Looking) + 1
    BY <1>2, LookersCount
  <2>2. arrived < MaxArrivals /\ arrived' = arrived + 1
    BY <1>2 DEF Arrives
  <2>3. arrived' \in 0..MaxArrivals /\ minted' + Cardinality(Looking') <= arrived'
    BY <1>0, <1>2, <2>1, <2>2
  <2> QED
    BY <2>1, <2>3 DEF CountInv
<1>3. ASSUME NEW r \in Request, NEW name \in Name, PostClient(r, name) PROVE CountInv'
  <2>1. Looking' \in SUBSET (Looking \cup {r})
    BY <1>0, <1>3 DEF Looking, PostClient, Goto, Answers
  <2> QED
    BY <1>2, <1>3, <2>1 DEF PostClient
<1>4. ASSUME NEW r \in Request, NEW c \in Asked, PostKey(r, c) PROVE CountInv'
  <2>1. Looking' \in SUBSET (Looking \cup {r})
    BY <1>0, <1>4 DEF Looking, PostKey, Goto
  <2> QED
    BY <1>2, <1>4, <2>1 DEF PostKey
<1>5. ASSUME NEW r \in Request, NEW prefix \in Prefix, LookUp(r, prefix) PROVE CountInv'
  <2>1. /\ r \in Looking /\ Looking' \in SUBSET (Looking \ {r})
        /\ minted' = minted + 1 /\ arrived' = arrived
    BY <1>0, <1>5 DEF Looking, LookUp, Goto
  <2>2. Looking' \in SUBSET (Looking \cup {r})
    BY <2>1
  <2>3. /\ IsFiniteSet(Looking') /\ Cardinality(Looking') \in Nat
        /\ Cardinality(Looking) \in Nat /\ Cardinality(Looking') <= Cardinality(Looking) - 1
    BY <2>1, <2>2, LookersCount
  <2>4. minted' + Cardinality(Looking') <= arrived' /\ arrived' \in 0..MaxArrivals
    BY <1>0, <2>1, <2>3
  <2> QED
    BY <2>3, <2>4 DEF CountInv
<1>6. ASSUME NEW r \in Request,
             \/ \E s \in SUBSET Status : ListClients(r, s)
             \/ Create(r) \/ ReadBack(r) \/ LookUpRefused(r) \/ MintFails(r)
             \/ StoreKey(r) \/ CallFails(r) \/ AnswerLost(r)
      PROVE  CountInv'
  <2>1. UNCHANGED <<minted, arrived>> /\ pc' \in [Request -> Labels] /\ pc'[r] # "lookup"
        /\ \A q \in Request \ {r} : pc'[q] = pc[q]
    BY <1>0, <1>6 DEF ListClients, Create, ReadBack, LookUpRefused, MintFails, StoreKey,
                      CallFails, AnswerLost, Fails, Answers, Goto, Labels
  <2>2. Looking' \in SUBSET Looking
    BY <2>1 DEF Looking
  <2> QED
    BY <1>1, <2>1, <2>2
<1>7. ASSUME NEW c \in Known, NEW to \in Status, Transition(c, to) PROVE CountInv'
  BY <1>1, <1>7 DEF Transition, requests, Looking
<1>8. ASSUME Crash PROVE CountInv'
  BY <1>1, <1>8 DEF Crash, Looking
<1>9. ASSUME UNCHANGED vars PROVE CountInv'
  BY <1>1, <1>9 DEF vars, requests, Looking
<1> QED
  BY <1>3, <1>4, <1>5, <1>6, <1>7, <1>8, <1>9 DEF Next

LEMMA NamedInitially == Init => ClientInv /\ NamedInv /\ CountInv
<1> SUFFICES ASSUME Init PROVE ClientInv /\ NamedInv /\ CountInv
  OBVIOUS
<1> USE DEF Init
<1>1. Known = {} /\ Looking = {} /\ client = [c \in Known |-> client[c]]
  BY DEF Known, Looking
<1>2. IsFiniteSet(Looking) /\ Cardinality(Looking) = 0
  BY <1>1, FS_EmptySet
<1>3. ClientInv
  BY <1>1 DEF ClientInv
<1>4. NamedInv
  BY <1>1 DEF NamedInv, Ready
<1>5. CountInv
  BY <1>2, BoundAssumption DEF CountInv
<1> QED
  BY <1>3, <1>4, <1>5

(***************************************************************************)
(* Every variable keeps its type: keys and answers name clients that       *)
(* exist, ids stay below the next one, and no more secrets are drawn than  *)
(* creating requests were made.                                            *)
(***************************************************************************)
THEOREM TypeCorrect == Spec => []TypeOK
<1> DEFINE Inv == IInv /\ ClientInv /\ NamedInv /\ CountInv
<1>1. Init => Inv
  BY Initially, NamedInitially
<1>2. Inv /\ [Next]_vars => Inv'
  BY TypeStep, KeysStep, ClientsStep, ClientRowsStep, NamedStep, CountStep DEF IInv
<1>3. Inv => TypeOK
  <2> SUFFICES ASSUME Inv PROVE TypeOK
    OBVIOUS
  <2>1. Cardinality(Looking) \in Nat /\ minted \in Nat /\ arrived \in 0..MaxArrivals
        /\ minted + Cardinality(Looking) <= arrived
    BY FS_CardinalityType DEF CountInv, IInv, TypeInv
  <2>2. minted \in 0..arrived
    BY <2>1
  <2>3. \A k \in apiKeys \cup shown :
           k.client \in Known /\ k.prefix \in Prefix /\ k.secret \in 1..minted
    <3>1. \A k \in apiKeys : k \in KeyRow /\ k.client \in Known /\ k.secret \in 1..minted
      BY DEF IInv, TypeInv, SecretInv, NamedInv
    <3> QED
      BY <3>1 DEF KeyRow, IInv, KeyInv
  <2>4. Known \subseteq 1..nextId - 1
        /\ \A c \in Known : client[c].name \in Name /\ client[c].status \in Status
    BY DEF ClientInv, ClientShape
  <2> QED
    BY <2>1, <2>2, <2>3, <2>4 DEF TypeOK, IInv, TypeInv, Labels, NamedInv
<1> HIDE DEF Inv
<1> QED
  BY <1>1, <1>2, <1>3, PTL DEF Spec

-----------------------------------------------------------------------------
(***************************************************************************)
(* What slugify makes of a name.  Tidy is what its steps keep.             *)
(***************************************************************************)
Text == Alphanumeric \cup {"-"}

Tidy(s) == /\ s \in Seq(Text)
           /\ \A i \in 2..Len(s) : s[i] = "-" => s[i - 1] # "-"

LEMMA MarksAreText ==
    ASSUME NEW name \in Seq(Character)
    PROVE  /\ Marks(name) \in Seq(Text) /\ DOMAIN Marks(name) = DOMAIN name
           /\ DOMAIN name = 1..Len(name) /\ Len(name) \in Nat
           /\ \A i \in DOMAIN name :
                 /\ Marks(name)[i] # "-" <=> i \in Places(name)
                 /\ i \in Places(name) => Lower[name[i]] = Marks(name)[i]
<1>1. DOMAIN name = 1..Len(name) /\ Len(name) \in Nat
  OBVIOUS
<1>2. DOMAIN Marks(name) = DOMAIN name
      /\ \A i \in DOMAIN name : Marks(name)[i] \in Text
  BY DEF Marks, Text
<1>3. Marks(name) \in Seq(Text)
  BY <1>1, <1>2 DEF Marks
<1>4. \A i \in DOMAIN name :
         /\ Marks(name)[i] # "-" <=> i \in Places(name)
         /\ i \in Places(name) => Lower[name[i]] = Marks(name)[i]
  BY AlphabetAssumption DEF Marks, Places
<1> QED
  BY <1>1, <1>2, <1>3, <1>4

\* What Dashed keeps of the marks, and where the letters of a text are.
Kept(marks) == {i \in DOMAIN marks : marks[i] = "-" /\ i # 1 => marks[i - 1] # "-"}

LEMMA TextPlaces ==
    ASSUME NEW s \in Seq(Text)
    PROVE  \A i \in DOMAIN s : /\ i \in Places(s) <=> s[i] # "-"
                               /\ Lower[s[i]] = s[i]
<1>1. \A i \in DOMAIN s : s[i] \in Alphanumeric \cup {"-"}
  BY DEF Text
<1> QED
  BY <1>1, AlphabetAssumption DEF Places

\* One dash for a run: of two dashes side by side the second is not kept.
LEMMA DashedIsTidy ==
    ASSUME NEW name \in Seq(Character)
    PROVE  Tidy(Dashed(name))
<1> DEFINE marks == Marks(name)
           S == Kept(marks)
           p == Picked(marks, S)
<1>1. /\ marks \in Seq(Text) /\ Len(marks) \in Nat /\ DOMAIN marks = 1..Len(marks)
      /\ Dashed(name) = p
  <2>1. /\ marks \in Seq(Text) /\ DOMAIN marks = DOMAIN name
        /\ DOMAIN name = 1..Len(name) /\ Len(name) \in Nat
    BY MarksAreText
  <2>2. Dashed(name) = p
    BY <2>1, Zenon DEF Dashed, Kept
  <2>3. Len(marks) = Len(name)
    BY <2>1
  <2> QED
    BY <2>1, <2>2, <2>3
<1>2. S \in SUBSET (1..Len(marks)) /\ S \in SUBSET DOMAIN marks
      /\ \A i \in 1..Len(marks) :
            i \in S <=> (marks[i] = "-" /\ i # 1 => marks[i - 1] # "-")
  BY <1>1 DEF Kept
<1> HIDE DEF marks, S
<1>3. p \in Seq(Text) /\ Len(p) = Cardinality(S)
  BY <1>1, <1>2, PickedIsList
<1>4. /\ \A k \in 1..Cardinality(S) : Nth(S, k) \in S /\ p[k] = marks[Nth(S, k)]
      /\ \A i \in S : \E k \in 1..Cardinality(S) : Nth(S, k) = i /\ p[k] = marks[i]
      /\ \A k, l \in 1..Cardinality(S) : k < l => Nth(S, k) < Nth(S, l)
  BY <1>1, <1>2, PickedEntries
<1> HIDE DEF p
<1>5. ASSUME NEW k \in 2..Len(p), p[k] = "-", p[k - 1] = "-"  PROVE FALSE
  <2>1. k \in 1..Cardinality(S) /\ k - 1 \in 1..Cardinality(S) /\ k - 1 < k
        /\ Cardinality(S) \in Nat
    BY <1>3
  <2> DEFINE i == Nth(S, k - 1)
             j == Nth(S, k)
  <2>2. i \in S /\ j \in S /\ i < j /\ marks[i] = "-" /\ marks[j] = "-"
    BY <1>4, <1>5, <2>1
  <2> HIDE DEF i, j
  <2>3. i \in 1..Len(marks) /\ j \in 1..Len(marks)
    BY <1>2, <2>2
  <2>4. j # 1 /\ j - 1 \in 1..Len(marks) /\ marks[j - 1] # "-"
    BY <1>1, <1>2, <2>2, <2>3
  <2>5. j - 1 \in S
    BY <1>2, <2>4
  <2>6. PICK m \in 1..Cardinality(S) : Nth(S, m) = j - 1
    BY <1>4, <2>5
  <2>7. i # j - 1
    BY <2>2, <2>4
  <2>8. i < j - 1 /\ j - 1 < j
    BY <2>2, <2>3, <2>7
  <2>9. ~(m < k - 1) /\ m # k - 1 /\ ~(k < m) /\ m # k
    <3>1. i = Nth(S, k - 1) /\ j = Nth(S, k)
      BY DEF i, j
    <3>2. m < k - 1 => j - 1 < i
      BY <1>4, <2>1, <2>6, <3>1
    <3>3. k < m => j < j - 1
      BY <1>4, <2>1, <2>6, <3>1
    <3>4. m = k - 1 => j - 1 = i
      BY <2>6, <3>1
    <3>5. m = k => j - 1 = j
      BY <2>6, <3>1
    <3> QED
      BY <2>3, <2>8, <3>2, <3>3, <3>4, <3>5
  <2> QED
    BY <2>1, <2>9
<1> QED
  BY <1>1, <1>3, <1>5 DEF Tidy

\* b is how s begins.
Begins(b, s) == Len(b) <= Len(s) /\ \A i \in 1..Len(b) : b[i] = s[i]

LEMMA SubSeqBegins ==
    ASSUME NEW T, NEW s \in Seq(T), NEW n \in 0..Len(s)
    PROVE  /\ SubSeq(s, 1, n) \in Seq(T) /\ Len(SubSeq(s, 1, n)) = n
           /\ Begins(SubSeq(s, 1, n), s)
<1>1. /\ Len(s) \in Nat /\ n \in Int /\ 1 \in Int /\ n - 1 + 1 = n
      /\ \A i \in 1..n : s[i] \in T
      /\ \A i \in 1..n : 1 + i - 1 = i
  OBVIOUS
<1>2. /\ SubSeq(s, 1, n) \in Seq(T)
      /\ Len(SubSeq(s, 1, n)) = IF 1 <= n THEN n - 1 + 1 ELSE 0
      /\ \A i \in 1..n - 1 + 1 : SubSeq(s, 1, n)[i] = s[1 + i - 1]
  BY <1>1, SubSeqProperties
<1>3. Len(SubSeq(s, 1, n)) = n
  BY <1>1, <1>2
<1>4. \A i \in 1..n : SubSeq(s, 1, n)[i] = s[i]
  BY <1>1, <1>2
<1> QED
  BY <1>2, <1>3, <1>4 DEF Begins

LEMMA TidyBeginning ==
    ASSUME NEW s, Tidy(s), NEW b \in Seq(Text), Begins(b, s)
    PROVE  Tidy(b)
<1>1. /\ Len(b) \in Nat /\ Len(s) \in Nat /\ Len(b) <= Len(s)
      /\ \A i \in 1..Len(b) : b[i] = s[i]
      /\ \A i \in 2..Len(s) : s[i] = "-" => s[i - 1] # "-"
  BY DEF Begins, Tidy
<1>2. \A i \in 2..Len(b) : i \in 1..Len(b) /\ i - 1 \in 1..Len(b) /\ i \in 2..Len(s)
  BY <1>1
<1> QED
  BY <1>1, <1>2 DEF Tidy

\* Trimming on the right leaves a beginning that does not end on a dash.
LEMMA TrimRightKeeps ==
    ASSUME NEW s, Tidy(s), s # <<>>, s[1] # "-"
    PROVE  LET t == TrimRight(s)
           IN  /\ Tidy(t) /\ Begins(t, s) /\ t # <<>>
               /\ t[1] # "-" /\ t[Len(t)] # "-"
<1> DEFINE t == TrimRight(s)
<1>1. /\ s \in Seq(Text) /\ Len(s) \in Nat \ {0}
      /\ \A i \in 2..Len(s) : s[i] = "-" => s[i - 1] # "-"
  BY DEF Tidy
<1>2. CASE s[Len(s)] # "-"
  <2>1. t = s
    BY <1>2 DEF TrimRight
  <2>2. Begins(s, s)
    BY <1>1 DEF Begins
  <2> QED
    BY <1>2, <2>1, <2>2
<1>3. CASE s[Len(s)] = "-"
  <2> DEFINE n == Len(s) - 1
  <2>1. t = SubSeq(s, 1, n)
    BY <1>3 DEF TrimRight
  <2>2. Len(s) # 1
    BY <1>3
  <2>3. n \in 1..Len(s) /\ n \in 0..Len(s) /\ s[n] # "-"
    BY <1>1, <1>3, <2>2
  <2>4. t \in Seq(Text) /\ Len(t) = n /\ Begins(t, s)
    BY <1>1, <2>1, <2>3, SubSeqBegins
  <2>5. Tidy(t)
    BY <2>4, TidyBeginning
  <2> HIDE DEF n, t
  <2>6. 1 \in 1..Len(t) /\ n \in 1..Len(t)
    BY <1>1, <2>3, <2>4
  <2>7. t[1] = s[1] /\ t[Len(t)] = s[n] /\ t # <<>>
    BY <2>4, <2>6 DEF Begins
  <2> QED
    BY <2>3, <2>4, <2>5, <2>7 DEF t
<1> QED
  BY <1>2, <1>3

\* Cutting does so, too.
LEMMA CutKeeps ==
    ASSUME NEW s, Tidy(s), s # <<>>, s[1] # "-"
    PROVE  LET t == Cut(s)
           IN  /\ Tidy(t) /\ Begins(t, s) /\ t # <<>> /\ Len(t) <= MaxBase
               /\ t[1] # "-" /\ t[Len(t)] # "-"
<1> DEFINE n == IF Len(s) > MaxBase THEN MaxBase ELSE Len(s)
           b == SubSeq(s, 1, n)
           t == TrimRight(b)
<1>1. s \in Seq(Text) /\ Len(s) \in Nat \ {0} /\ MaxBase \in Nat \ {0}
  BY SlugAssumption DEF Tidy
<1>2. n \in 1..Len(s) /\ n \in 0..Len(s) /\ n <= MaxBase
  BY <1>1
<1>3. Cut(s) = t
  BY DEF Cut
<1> HIDE DEF n
<1>4. b \in Seq(Text) /\ Len(b) = n /\ Begins(b, s)
  BY <1>1, <1>2, SubSeqBegins
<1>5. Tidy(b)
  BY <1>4, TidyBeginning
<1> HIDE DEF b
<1>6. 1 \in 1..Len(b)
  BY <1>2, <1>4
<1>7. b # <<>> /\ b[1] # "-"
  BY <1>4, <1>6 DEF Begins
<1>8. /\ Tidy(t) /\ Begins(t, b) /\ t # <<>>
      /\ t[1] # "-" /\ t[Len(t)] # "-"
  BY <1>5, <1>7, TrimRightKeeps
<1> HIDE DEF t
<1>9. Len(t) \in Nat /\ Len(b) \in Nat
  BY <1>4, <1>8 DEF Tidy
<1>10. Begins(t, s) /\ Len(t) <= MaxBase
  BY <1>1, <1>2, <1>4, <1>8, <1>9 DEF Begins
<1> QED
  BY <1>3, <1>8, <1>10

-----------------------------------------------------------------------------
\* The letters of a text, place by place.
LEMMA LettersAre ==
    ASSUME NEW T, NEW s \in Seq(T)
    PROVE  /\ Len(s) \in Nat /\ DOMAIN s = 1..Len(s) /\ Places(s) \in SUBSET (1..Len(s))
           /\ Places(s) \in SUBSET Int /\ IsFiniteSet(Places(s))
           /\ Cardinality(Places(s)) \in Nat
           /\ Letters(s) = [k \in 1..Cardinality(Places(s)) |-> Lower[s[Nth(Places(s), k)]]]
           /\ \A k \in 1..Cardinality(Places(s)) : Nth(Places(s), k) \in Places(s)
           /\ Letters(s) \in Seq(Alphanumeric)
           /\ Len(Letters(s)) = Cardinality(Places(s))
<1> DEFINE P == Places(s)
           low == [i \in DOMAIN s |-> Lower[s[i]]]
<1>1. Len(s) \in Nat /\ DOMAIN s = 1..Len(s)
  OBVIOUS
<1>2. P \in SUBSET (1..Len(s)) /\ \A i \in P : Lower[s[i]] \in Alphanumeric
  BY <1>1 DEF Places
<1>3. Letters(s) = Picked(low, P)
  BY DEF Letters
<1> HIDE DEF P
<1>4. /\ P \in SUBSET Int /\ IsFiniteSet(P) /\ Cardinality(P) \in Nat
      /\ \A k \in 1..Cardinality(P) : Nth(P, k) \in P
  BY <1>1, <1>2, PlacesAreFinite, PickedEntries
<1>5. \A k \in 1..Cardinality(P) : low[Nth(P, k)] = Lower[s[Nth(P, k)]]
  BY <1>1, <1>2, <1>4
<1>6. Letters(s) = [k \in 1..Cardinality(P) |-> Lower[s[Nth(P, k)]]]
  BY <1>3, <1>5 DEF Picked
<1>7. \A k \in 1..Cardinality(P) : Lower[s[Nth(P, k)]] \in Alphanumeric
  BY <1>2, <1>4
<1>8. Letters(s) \in Seq(Alphanumeric) /\ Len(Letters(s)) = Cardinality(P)
  BY <1>4, <1>6, <1>7
<1> QED
  BY <1>1, <1>2, <1>4, <1>6, <1>8 DEF P

\* The letters of a beginning are how the letters begin.
LEMMA LettersOfBeginning ==
    ASSUME NEW s \in Seq(Text), NEW b \in Seq(Text), Begins(b, s)
    PROVE  Begins(Letters(b), Letters(s))
<1> DEFINE A == Places(b)
           B == {i \in Places(s) : i > Len(b)}
<1>1. /\ Len(b) \in Nat /\ DOMAIN b = 1..Len(b) /\ A \in SUBSET Int /\ IsFiniteSet(A)
      /\ Letters(b) = [k \in 1..Cardinality(A) |-> Lower[b[Nth(A, k)]]]
      /\ Len(Letters(b)) = Cardinality(A) /\ Cardinality(A) \in Nat
      /\ A \in SUBSET (1..Len(b)) /\ \A k \in 1..Cardinality(A) : Nth(A, k) \in A
  BY LettersAre
<1>2. /\ Len(s) \in Nat /\ DOMAIN s = 1..Len(s)
      /\ Places(s) \in SUBSET (1..Len(s)) /\ IsFiniteSet(Places(s))
      /\ Letters(s) = [k \in 1..Cardinality(Places(s)) |-> Lower[s[Nth(Places(s), k)]]]
      /\ Len(Letters(s)) = Cardinality(Places(s))
  BY LettersAre
<1>3. Len(b) <= Len(s) /\ \A i \in 1..Len(b) : b[i] = s[i]
  BY DEF Begins
<1>4. Places(s) = A \cup B
  <2>1. \A i \in 1..Len(s) : i \in A <=> i \in Places(s) /\ ~(i > Len(b))
    BY <1>1, <1>2, <1>3 DEF Places
  <2> QED
    BY <1>1, <1>2, <1>3, <2>1
<1>5. B \in SUBSET Int /\ IsFiniteSet(B) /\ \A i \in A, j \in B : i < j
  <2>1. B \in SUBSET Places(s)
    OBVIOUS
  <2>2. IsFiniteSet(B)
    BY <1>2, <2>1, FS_Subset
  <2> QED
    BY <1>1, <1>2, <2>2
<1> HIDE DEF A, B
<1>6. /\ Cardinality(A \cup B) = Cardinality(A) + Cardinality(B)
      /\ \A k \in 1..Cardinality(A) : Nth(A \cup B, k) = Nth(A, k)
  BY <1>1, <1>5, NthOfParts
<1>7. Cardinality(B) \in Nat
  BY <1>5, FS_CardinalityType
<1>8. ASSUME NEW k \in 1..Cardinality(A)
      PROVE  k \in 1..Cardinality(A \cup B) /\ Letters(b)[k] = Letters(s)[k]
  <2>1. k \in 1..Cardinality(A \cup B)
    BY <1>1, <1>6, <1>7
  <2>2. Letters(s)[k] = Lower[s[Nth(A, k)]]
    BY <1>2, <1>4, <1>6, <2>1
  <2>3. Letters(b)[k] = Lower[b[Nth(A, k)]] /\ Nth(A, k) \in 1..Len(b)
    BY <1>1
  <2> QED
    BY <1>3, <2>1, <2>2, <2>3
<1>9. Len(Letters(b)) = Cardinality(A) /\ Len(Letters(s)) = Cardinality(A \cup B)
  BY <1>1, <1>2, <1>4
<1>10. Cardinality(A) <= Cardinality(A \cup B)
  BY <1>1, <1>6, <1>7
<1> QED
  BY <1>8, <1>9, <1>10 DEF Begins

\* Letters that are moved in order are the same letters.
LEMMA LettersMoved ==
    ASSUME NEW T, NEW s \in Seq(T), NEW U, NEW t \in Seq(U),
           NEW f \in Surjection(Places(s), Places(t)),
           \A i, j \in Places(s) : i < j => f[i] < f[j],
           \A i \in Places(s) : Lower[t[f[i]]] = Lower[s[i]]
    PROVE  Letters(t) = Letters(s)
<1> DEFINE P == Places(s)
           Q == Places(t)
<1>1. /\ P \in SUBSET Int /\ IsFiniteSet(P)
      /\ Letters(s) = [k \in 1..Cardinality(P) |-> Lower[s[Nth(P, k)]]]
      /\ \A k \in 1..Cardinality(P) : Nth(P, k) \in P
  BY LettersAre
<1>2. /\ Q \in SUBSET Int
      /\ Letters(t) = [k \in 1..Cardinality(Q) |-> Lower[t[Nth(Q, k)]]]
  BY LettersAre
<1>3. Cardinality(Q) = Cardinality(P) /\ \A k \in 1..Cardinality(P) : Nth(Q, k) = f[Nth(P, k)]
  BY <1>1, <1>2, NthOfImage
<1>4. \A i \in P : Lower[t[f[i]]] = Lower[s[i]]
  OBVIOUS
<1> HIDE DEF P, Q
<1>5. \A k \in 1..Cardinality(P) : Lower[t[Nth(Q, k)]] = Lower[s[Nth(P, k)]]
  BY <1>1, <1>3, <1>4
<1> QED
  BY <1>1, <1>2, <1>3, <1>5

\* Every letter of a name is kept, as a small one.
LEMMA LettersOfDashed ==
    ASSUME NEW name \in Seq(Character)
    PROVE  Letters(Dashed(name)) = Letters(name)
<1> DEFINE marks == Marks(name)
           S == Kept(marks)
           p == Picked(marks, S)
           f == [k \in Places(p) |-> Nth(S, k)]
<1>1. /\ marks \in Seq(Text) /\ DOMAIN marks = DOMAIN name
      /\ DOMAIN name = 1..Len(name) /\ Len(name) \in Nat
      /\ \A i \in DOMAIN name :
            /\ marks[i] # "-" <=> i \in Places(name)
            /\ i \in Places(name) => Lower[name[i]] = marks[i]
  BY MarksAreText
<1>2. Dashed(name) = p
  BY <1>1, Zenon DEF Dashed, Kept
<1>3. /\ S \in SUBSET (1..Len(name)) /\ S \in SUBSET DOMAIN marks
      /\ Places(name) \in SUBSET S
  BY <1>1 DEF Kept, Places
<1> HIDE DEF marks, S
<1>4. p \in Seq(Text) /\ DOMAIN p = 1..Cardinality(S)
  BY <1>1, <1>3, PickedIsList, PickedEntries
<1>5. /\ \A k \in 1..Cardinality(S) : Nth(S, k) \in S /\ p[k] = marks[Nth(S, k)]
      /\ \A i \in S : \E k \in 1..Cardinality(S) : Nth(S, k) = i /\ p[k] = marks[i]
      /\ \A k, l \in 1..Cardinality(S) : k < l => Nth(S, k) < Nth(S, l)
  BY <1>1, <1>3, PickedEntries
<1>6. \A k \in 1..Cardinality(S) : k \in Places(p) <=> p[k] # "-"
  BY <1>4, TextPlaces
<1>7. Places(p) \in SUBSET (1..Cardinality(S))
  BY <1>4 DEF Places
<1> HIDE DEF p
<1>8. ASSUME NEW k \in Places(p)
      PROVE  /\ f[k] = Nth(S, k) /\ f[k] \in Places(name)
             /\ Lower[name[f[k]]] = Lower[p[k]]
  <2>1. k \in 1..Cardinality(S) /\ f[k] = Nth(S, k) /\ p[k] # "-"
    BY <1>6, <1>7
  <2>2. Nth(S, k) \in S /\ p[k] = marks[Nth(S, k)]
    BY <1>5, <2>1
  <2>3. Nth(S, k) \in DOMAIN name
    BY <1>1, <1>3, <2>2
  <2>4. Nth(S, k) \in Places(name) /\ Lower[name[Nth(S, k)]] = p[k]
    BY <1>1, <2>1, <2>2, <2>3
  <2>5. Lower[p[k]] = p[k]
    BY <1>4, <2>1, TextPlaces
  <2> QED
    BY <2>1, <2>4, <2>5
<1>9. \A i \in Places(name) : \E k \in Places(p) : f[k] = i
  <2> SUFFICES ASSUME NEW i \in Places(name)  PROVE \E k \in Places(p) : f[k] = i
    OBVIOUS
  <2>1. i \in S /\ i \in DOMAIN name /\ marks[i] # "-"
    BY <1>1, <1>3
  <2>2. PICK k \in 1..Cardinality(S) : Nth(S, k) = i /\ p[k] = marks[i]
    BY <1>5, <2>1
  <2> QED
    BY <1>6, <1>8, <2>1, <2>2
<1>10. f \in Surjection(Places(p), Places(name))
  BY <1>8, <1>9 DEF Surjection
<1>11. \A i, j \in Places(p) : i < j => f[i] < f[j]
  BY <1>5, <1>7, <1>8
<1> HIDE DEF f
<1>12. Letters(name) = Letters(p)
  <2>1. \A k \in Places(p) : Lower[name[f[k]]] = Lower[p[k]]
    BY <1>8
  <2> QED
    BY <1>4, <1>10, <1>11, <2>1, LettersMoved
<1> QED
  BY <1>2, <1>12

\* Trimming on the left drops no letter.
LEMMA TrimLeftKeeps ==
    ASSUME NEW s, Tidy(s)
    PROVE  LET t == TrimLeft(s)
           IN  /\ Tidy(t) /\ Letters(t) = Letters(s)
               /\ t # <<>> => t[1] # "-"
<1> DEFINE t == Tail(s)
           f == [i \in Places(t) |-> i + 1]
<1>1. s \in Seq(Text) /\ \A i \in 2..Len(s) : s[i] = "-" => s[i - 1] # "-"
  BY DEF Tidy
<1>2. CASE ~(s # <<>> /\ s[1] = "-")
  BY <1>2 DEF TrimLeft
<1>3. CASE s # <<>> /\ s[1] = "-"
  <2>1. TrimLeft(s) = t
    BY <1>3 DEF TrimLeft
  <2>2. /\ t \in Seq(Text) /\ Len(t) = Len(s) - 1
        /\ \A i \in 1..Len(t) : t[i] = s[i + 1]
    BY <1>1, <1>3, HeadTailProperties
  <2> HIDE DEF t
  <2>3. Len(t) \in Nat /\ DOMAIN t = 1..Len(t) /\ Len(s) \in Nat /\ DOMAIN s = 1..Len(s)
    BY <1>1, <2>2
  <2>4. Tidy(t)
    <3>1. ASSUME NEW i \in 2..Len(t)
          PROVE  /\ t[i] = s[i + 1] /\ t[i - 1] = s[i] /\ i + 1 \in 2..Len(s)
                 /\ i + 1 - 1 = i
      BY <2>2, <2>3
    <3> QED
      BY <1>1, <2>2, <3>1 DEF Tidy
  <2>5. t # <<>> => t[1] # "-"
    <3>1. t # <<>> => 1 \in 1..Len(t) /\ 2 \in 2..Len(s)
      BY <2>2, <2>3
    <3> QED
      BY <1>1, <1>3, <2>2, <3>1
  <2>6. /\ \A i \in Places(t) : i \in 1..Len(t) /\ i + 1 \in Places(s) /\ t[i] = s[i + 1]
        /\ \A j \in Places(s) : j \in 2..Len(s) /\ j - 1 \in Places(t)
    <3>1. ASSUME NEW i \in Places(t)
          PROVE  i \in 1..Len(t) /\ i + 1 \in Places(s) /\ t[i] = s[i + 1]
      BY <2>2, <2>3 DEF Places
    <3>2. ASSUME NEW j \in Places(s)  PROVE j \in 2..Len(s) /\ j - 1 \in Places(t)
      <4>1. j \in 1..Len(s) /\ s[j] # "-" /\ Lower[s[j]] \in Alphanumeric
        BY <1>1, <2>3, TextPlaces DEF Places
      <4>2. j # 1
        BY <1>3, <4>1
      <4>3. j - 1 \in 1..Len(t) /\ j - 1 + 1 = j
        BY <2>2, <2>3, <4>1, <4>2
      <4> QED
        BY <2>2, <2>3, <4>1, <4>2, <4>3 DEF Places
    <3> QED
      BY <3>1, <3>2
  <2>7. f \in Surjection(Places(t), Places(s))
    <3>1. \A j \in Places(s) : f[j - 1] = j
      BY <2>6
    <3> QED
      BY <2>6, <3>1 DEF Surjection
  <2>8. \A i, j \in Places(t) : i < j => f[i] < f[j]
    BY <2>6
  <2>9. \A i \in Places(t) : Lower[s[f[i]]] = Lower[t[i]]
    BY <2>6
  <2> HIDE DEF f
  <2>10. Letters(s) = Letters(t)
    BY <1>1, <2>2, <2>7, <2>8, <2>9, LettersMoved
  <2> QED
    BY <2>1, <2>4, <2>5, <2>10
<1> QED
  BY <1>2, <1>3

\* A slug is well formed and follows the name it was made of.
LEMMA BaseIsHandle ==
    ASSUME NEW name \in Seq(Character)
    PROVE  WellFormedBase(Base(name)) /\ FollowsName(Base(name), name)
<1> DEFINE d == TrimLeft(Dashed(name))
           s == TrimRight(d)
           u == IF s = <<>> THEN Fallback ELSE s
           b == Cut(u)
<1>1. Tidy(Dashed(name)) /\ Letters(Dashed(name)) = Letters(name)
  BY DashedIsTidy, LettersOfDashed
<1>2. Tidy(d) /\ Letters(d) = Letters(name) /\ (d # <<>> => d[1] # "-")
  BY <1>1, TrimLeftKeeps
<1>3. Base(name) = b
  BY DEF Base
<1> HIDE DEF d
<1>4. d # <<>> => Tidy(s) /\ Begins(s, d) /\ s # <<>> /\ s[1] # "-"
  BY <1>2, TrimRightKeeps
<1>5. d = <<>> => s = <<>>
  BY DEF TrimRight
<1>6. Tidy(Fallback) /\ Fallback # <<>> /\ Fallback[1] # "-"
  BY AlphabetAssumption DEF Tidy, Text
<1> HIDE DEF s
<1>7. Tidy(u) /\ u # <<>> /\ u[1] # "-"
  BY <1>4, <1>5, <1>6
<1>8. /\ Tidy(b) /\ Begins(b, u) /\ b # <<>> /\ Len(b) <= MaxBase
      /\ b[1] # "-" /\ b[Len(b)] # "-"
  <2> HIDE DEF u
  <2> QED
    BY <1>7, CutKeeps
<1>9. WellFormedBase(b)
  <2> HIDE DEF b
  <2>1. /\ b \in Seq(Text) /\ Len(b) \in Nat /\ DOMAIN b = 1..Len(b)
        /\ \A i \in 2..Len(b) : b[i] = "-" => b[i - 1] # "-"
    BY <1>8 DEF Tidy
  <2>2. ASSUME NEW i \in DOMAIN b, b[i] \notin Alphanumeric
        PROVE  b[i] = "-" /\ i \notin {1, Len(b)} /\ b[i - 1] # "-"
    <3>1. b[i] = "-"
      BY <2>1, <2>2 DEF Text
    <3>2. i # 1 /\ i # Len(b)
      BY <1>8, <3>1
    <3>3. i \in 2..Len(b)
      BY <2>1, <3>2
    <3> QED
      BY <2>1, <3>1, <3>2, <3>3
  <2> QED
    BY <1>8, <2>2 DEF WellFormedBase
<1>10. FollowsName(b, name)
  <2>1. CASE d = <<>>
    <3>1. Places(d) = {}
      BY <2>1 DEF Places
    <3>2. Letters(d) = <<>>
      <4>1. d \in Seq(Text)
        BY <1>2 DEF Tidy
      <4>2. Letters(d) \in Seq(Alphanumeric) /\ Len(Letters(d)) = Cardinality(Places(d))
        BY <4>1, LettersAre
      <4>3. Cardinality(Places(d)) = 0
        BY <3>1, FS_EmptySet
      <4> QED
        BY <4>2, <4>3
    <3> QED
      BY <1>2, <3>2 DEF FollowsName
  <2>2. CASE d # <<>>
    <3>1. Tidy(s) /\ Begins(s, d) /\ u = s
      BY <1>4, <2>2
    <3>2. b \in Seq(Text) /\ s \in Seq(Text) /\ d \in Seq(Text) /\ Begins(b, s)
      BY <1>2, <1>8, <3>1 DEF Tidy
    <3> HIDE DEF b
    <3>3. Begins(Letters(b), Letters(s)) /\ Begins(Letters(s), Letters(d))
      BY <3>1, <3>2, LettersOfBeginning
    <3>4. /\ Letters(b) \in Seq(Alphanumeric) /\ Letters(s) \in Seq(Alphanumeric)
          /\ Letters(name) \in Seq(Alphanumeric)
      BY <3>2, LettersAre
    <3> DEFINE x == Letters(b)
               y == Letters(s)
               z == Letters(name)
    <3>5. Begins(x, y) /\ Begins(y, z)
      BY <1>2, <3>3
    <3> HIDE DEF x, y, z
    <3>6. Len(x) \in Nat /\ Len(y) \in Nat /\ Len(z) \in Nat
      BY <3>4 DEF x, y, z
    <3>7. Len(x) <= Len(z) /\ \A i \in 1..Len(x) : x[i] = z[i]
      BY <3>5, <3>6 DEF Begins
    <3>8. SubSeq(x, 1, Len(x)) = SubSeq(z, 1, Len(x))
      <4>1. x \in Seq(Alphanumeric) /\ z \in Seq(Alphanumeric)
        BY <3>4 DEF x, z
      <4>2. /\ SubSeq(x, 1, Len(x)) = [i \in 1..Len(x) |-> x[i]]
            /\ SubSeq(z, 1, Len(x)) = [i \in 1..Len(x) |-> z[i]]
        BY <3>6, <3>7, <4>1
      <4> QED
        BY <3>7, <4>2
    <3>9. Seqs!IsPrefix(x, z)
      BY <3>7, <3>8 DEF Seqs!IsPrefix
    <3> QED
      BY <3>9 DEF x, z, FollowsName
  <2> QED
    BY <2>1, <2>2
<1> QED
  BY <1>3, <1>9, <1>10

\* Ids that are closer than the span differ in their last digits.
LEMMA SuffixesDiffer ==
    ASSUME NEW c \in Nat, NEW d \in Nat, c < d, d - c < SuffixSpan
    PROVE  Suffix(c) # Suffix(d)
<1> DEFINE N == SuffixSpan
<1>1. N \in Nat \ {0}
  BY SlugAssumption
<1>2. /\ c = N * (c \div N) + (c % N) /\ c \div N \in Int
      /\ d = N * (d \div N) + (d % N) /\ d \div N \in Int
  <2> SUFFICES ASSUME NEW M \in Nat \ {0}, NEW n \in Nat
               PROVE  n = M * (n \div M) + (n % M) /\ n \div M \in Int
    BY <1>1
  <2> QED
    OBVIOUS
<1>3. SUFFICES ASSUME c % N = d % N  PROVE FALSE
  BY DEF Suffix
<1> DEFINE q == (d \div N) - (c \div N)
<1>4. d - c = N * q /\ q \in Int
  BY <1>1, <1>2, <1>3
<1> HIDE DEF q, N
<1>5. q <= 0 => N * q <= 0
  BY <1>1, <1>4
<1>6. q >= 1 => N * q >= N
  BY <1>1, <1>4
<1> QED
  BY <1>1, <1>4, <1>5, <1>6 DEF N

-----------------------------------------------------------------------------
\* The slug of a client is made of its name and its id, and no step changes it.
SlugInv == \A c \in Known : client[c].slug = Slugify(client[c].name, c)

LEMMA SlugStep == TypeInv /\ ClientInv /\ NamedInv /\ SlugInv /\ [Next]_vars => SlugInv'
<1> SUFFICES ASSUME TypeInv, ClientInv, NamedInv, SlugInv, [Next]_vars PROVE SlugInv'
  OBVIOUS
<1>1. CASE UNCHANGED client
  BY <1>1 DEF SlugInv, Known
<1>2. ASSUME NEW name, CreateDraftClient(name)  PROVE SlugInv'
  <2>1. Known' = Known \cup {nextId}
    BY <1>2 DEF CreateDraftClient, Known
  <2>2. ASSUME NEW c \in Known'  PROVE client'[c].slug = Slugify(client'[c].name, c)
    <3>1. client'[c] = IF c = nextId
                       THEN [name |-> name, slug |-> Slugify(name, c), status |-> "draft"]
                       ELSE client[c]
      BY <1>2, <2>1 DEF CreateDraftClient
    <3>2. CASE c = nextId
      BY <3>1, <3>2
    <3>3. CASE c # nextId
      BY <2>1, <3>1, <3>3 DEF SlugInv
    <3> QED
      BY <3>2, <3>3
  <2> QED
    BY <2>2 DEF SlugInv
<1>3. ASSUME NEW c \in Known, NEW to \in Status, Transition(c, to)  PROVE SlugInv'
  <2>1. /\ client = [d \in Known |-> client[d]] /\ ClientShape(client[c])
        /\ client' = [client EXCEPT ![c] = [client[c] EXCEPT !.status = to]]
    BY <1>3 DEF ClientInv, Transition
  <2> DEFINE new == [client[c] EXCEPT !.status = to]
  <2>2. new.slug = client[c].slug /\ new.name = client[c].name
    BY <2>1 DEF ClientShape
  <2> HIDE DEF new
  <2>3. client' = [client EXCEPT ![c] = new]
    BY <2>1 DEF new
  <2>4. Known' = Known /\ client'[c] = new /\ \A d \in Known \ {c} : client'[d] = client[d]
    BY <2>1, <2>3 DEF Known
  <2> QED
    BY <2>2, <2>4 DEF SlugInv
<1>4. ASSUME NEW r \in Request, Create(r) \/ AnswerLost(r)  PROVE SlugInv'
  BY <1>1, <1>2, <1>4 DEF Create, AnswerLost, CreateAPIKey
<1>5. ASSUME NEW r \in Request,
             \/ \E name \in Name : PostClient(r, name)
             \/ \E c \in Asked : PostKey(r, c)
             \/ \E prefix \in Prefix : LookUp(r, prefix)
             \/ \E s \in SUBSET Status : ListClients(r, s)
             \/ ReadBack(r) \/ LookUpRefused(r) \/ MintFails(r) \/ StoreKey(r) \/ CallFails(r)
      PROVE  UNCHANGED client
  BY <1>5 DEF PostClient, PostKey, LookUp, ListClients, ReadBack, LookUpRefused, MintFails,
              StoreKey, CreateAPIKey, CallFails, store
<1>6. ASSUME Crash \/ UNCHANGED vars PROVE UNCHANGED client
  BY <1>6 DEF Crash, vars, store
<1> QED
  BY <1>1, <1>3, <1>4, <1>5, <1>6 DEF Next

(***************************************************************************)
(* Whatever the names, a slug is letters and digits with single dashes     *)
(* between them, no longer than the cut, and spells the beginning of the   *)
(* name; two clients have different ones as long as their ids are closer   *)
(* than the span of the suffix (fake.go:111-141).                          *)
(***************************************************************************)
THEOREM SlugsNameClients == Spec => []SlugsAreHandles
<1> DEFINE Inv == IInv /\ ClientInv /\ NamedInv /\ SlugInv
<1>1. Init => Inv
  <2>1. Init => SlugInv
    BY DEF Init, SlugInv, Known
  <2> QED
    BY <2>1, Initially, NamedInitially
<1>2. Inv /\ [Next]_vars => Inv'
  BY TypeStep, KeysStep, ClientsStep, ClientRowsStep, NamedStep, SlugStep DEF IInv
<1>3. Inv => SlugsAreHandles
  <2> SUFFICES ASSUME Inv PROVE SlugsAreHandles
    OBVIOUS
  <2>1. \A c \in Known : /\ client[c].slug = <<Base(client[c].name), Suffix(c)>>
                         /\ client[c].name \in Seq(Character) /\ c \in Nat
    BY NameAssumption DEF SlugInv, Slugify, ClientInv, ClientShape, IInv, TypeInv
  <2>2. ASSUME NEW c \in Known
        PROVE  /\ WellFormedBase(client[c].slug[1])
               /\ FollowsName(client[c].slug[1], client[c].name)
    <3>1. client[c].slug[1] = Base(client[c].name)
      BY <2>1
    <3> QED
      BY <2>1, <3>1, BaseIsHandle
  <2>3. ASSUME NEW c \in Known, NEW d \in Known, c < d, d - c < SuffixSpan
        PROVE  client[c].slug # client[d].slug
    <3>1. Suffix(c) # Suffix(d)
      BY <2>1, <2>3, SuffixesDiffer
    <3>2. client[c].slug[2] = Suffix(c) /\ client[d].slug[2] = Suffix(d)
      BY <2>1
    <3> QED
      BY <3>1, <3>2
  <2> QED
    BY <2>2, <2>3 DEF SlugsAreHandles
<1> HIDE DEF Inv
<1> QED
  BY <1>1, <1>2, <1>3, PTL DEF Spec

-----------------------------------------------------------------------------
(***************************************************************************)
(* What the answer to POST /api/clients says.  The handler makes a draft   *)
(* and asks for it again: between the two calls others act.                *)
(***************************************************************************)
Reading == {r \in Request : pc[r] = "readback"}

\* A client leaves the state it is made in only once its id is out, and the one
\* a request is about to tell of was told of by nobody else.
ToldInv ==
    /\ \A c \in Known : client[c].status # "draft" => c \in told \cup seen
    /\ \A r \in Reading : job[r].client \in Known \ told
    /\ \A r, q \in Reading : r # q => job[r].client # job[q].client

\* The clients and their states stay, and at most requests stop reading back.
StatesAlone ==
    /\ Known' = Known /\ \A c \in Known : client'[c].status = client[c].status
    /\ told' = told /\ seen \subseteq seen'
    /\ \A r \in Reading' : r \in Reading /\ job'[r].client = job[r].client

\* A draft is made; when it is told of at all, r is to read it back.
MakesDraft(r) ==
    /\ Known' = Known \cup {nextId} /\ nextId \notin Known
    /\ \A c \in Known : client'[c].status = client[c].status
    /\ client'[nextId].status = "draft"
    /\ told' = told /\ seen' = seen
    /\ r \in Reading' => job'[r].client = nextId
    /\ \A q \in Reading' \ {r} : q \in Reading /\ job'[q].client = job[q].client

\* The client of r is told of in the state it is in.
Tells(r) ==
    /\ r \in Reading /\ r \notin Reading'
    /\ job'[r].state = client[job[r].client].status
    /\ told' = told \cup {job[r].client} /\ seen' = seen
    /\ Known' = Known /\ \A c \in Known : client'[c].status = client[c].status
    /\ \A q \in Reading' : q \in Reading /\ job'[q].client = job[q].client

\* The state of c changes, whose id is out.
MovesKnown(c) ==
    /\ c \in told \cup seen /\ told' = told /\ seen' = seen
    /\ Known' = Known /\ \A d \in Known \ {c} : client'[d].status = client[d].status
    /\ Reading' = Reading /\ \A r \in Reading : job'[r].client = job[r].client

LEMMA MakingDrafts ==
    ASSUME TypeInv, ClientInv, NEW r \in Request, CreateDraftClient(job[r].name),
           told' = told, seen' = seen,
           r \in Reading' => job'[r].client = nextId,
           \A q \in Reading' \ {r} : q \in Reading /\ job'[q].client = job[q].client
    PROVE  MakesDraft(r)
<1> DEFINE new == [name |-> job[r].name, slug |-> Slugify(job[r].name, nextId), status |-> "draft"]
<1>1. new.status = "draft"
  OBVIOUS
<1> HIDE DEF new
<1>2. client' = [id \in Known \cup {nextId} |-> IF id = nextId THEN new ELSE client[id]]
  BY DEF CreateDraftClient, new
<1>3. nextId \notin Known
  BY DEF ClientInv
<1>4. Known' = Known \cup {nextId} /\ client'[nextId] = new
      /\ \A c \in Known : client'[c] = client[c]
  BY <1>2, <1>3 DEF Known
<1> QED
  BY <1>1, <1>3, <1>4 DEF MakesDraft

\* Every step is one of these.
LEMMA StepsTell ==
    TypeInv /\ ClientInv /\ [Next]_vars =>
        \/ StatesAlone
        \/ \E r \in Request : MakesDraft(r) \/ Tells(r)
        \/ \E c \in Known : MovesKnown(c)
<1> DEFINE Goal == \/ StatesAlone
                   \/ \E r \in Request : MakesDraft(r) \/ Tells(r)
                   \/ \E c \in Known : MovesKnown(c)
<1> SUFFICES ASSUME TypeInv, ClientInv, [Next]_vars PROVE Goal
  OBVIOUS
<1>0. /\ pc \in [Request -> Labels] /\ job = [r \in Request |-> job[r]]
      /\ \A r \in Request : JobShape(job[r])
  BY DEF TypeInv
<1>1. ASSUME NEW r \in Request, client' = client, told' = told, seen \subseteq seen',
             pc'[r] # "readback",
             \A q \in Request \ {r} : pc'[q] = pc[q] /\ job'[q] = job[q]
      PROVE  StatesAlone
  BY <1>1 DEF StatesAlone, Reading, Known
<1>2. ASSUME NEW r \in Request,
             \/ \E name \in Name : PostClient(r, name)
             \/ \E c \in Asked : PostKey(r, c)
             \/ \E prefix \in Prefix : LookUp(r, prefix)
      PROVE  Goal
  <2>1. client' = client /\ told' = told /\ seen' = seen
    BY <1>2 DEF PostClient, PostKey, LookUp, store, history
  <2>2. pc'[r] # "readback" /\ \A q \in Request \ {r} : pc'[q] = pc[q]
    BY <1>0, <1>2 DEF PostClient, PostKey, LookUp, Goto, Answers
  <2>3. \A q \in Request \ {r} : job'[q] = job[q]
    BY <1>0, <1>2 DEF PostClient, PostKey, LookUp
  <2> QED
    BY <1>1, <2>1, <2>2, <2>3
<1>3. ASSUME NEW r \in Request,
             \/ \E s \in SUBSET Status : ListClients(r, s)
             \/ LookUpRefused(r) \/ MintFails(r) \/ StoreKey(r) \/ CallFails(r)
      PROVE  Goal
  <2>1. client' = client /\ told' = told /\ seen \subseteq seen'
    BY <1>3 DEF ListClients, LookUpRefused, MintFails, StoreKey, CreateAPIKey, CallFails, Fails,
                store, history
  <2>2. pc'[r] # "readback" /\ \A q \in Request \ {r} : pc'[q] = pc[q]
    BY <1>0, <1>3 DEF ListClients, LookUpRefused, MintFails, StoreKey, CallFails, Fails, Answers
  <2>3. \A q \in Request \ {r} : job'[q] = job[q]
    BY <1>0, <1>3 DEF ListClients, LookUpRefused, MintFails, StoreKey, CallFails
  <2> QED
    BY <1>1, <2>1, <2>2, <2>3
<1>4. ASSUME NEW r \in Request, Create(r) PROVE Goal
  <2>1. /\ job' = [job EXCEPT ![r] = [job[r] EXCEPT !.client = nextId]]
        /\ CreateDraftClient(job[r].name) /\ told' = told /\ seen' = seen
    BY <1>4 DEF Create, history
  <2>2. job'[r].client = nextId /\ \A q \in Request \ {r} : job'[q] = job[q]
    <3>1. [job[r] EXCEPT !.client = nextId].client = nextId
      BY <1>0, FieldWritten DEF TypeInv
    <3> QED
      BY <1>0, <2>1, <3>1
  <2>3. \A q \in Reading' \ {r} : q \in Reading
    BY <1>0, <1>4 DEF Create, Goto, Reading
  <2>4. \A q \in Reading' \ {r} : q \in Reading /\ job'[q].client = job[q].client
    BY <2>2, <2>3 DEF Reading
  <2> QED
    BY <2>1, <2>2, <2>4, MakingDrafts
<1>5. ASSUME NEW r \in Request, ReadBack(r) PROVE Goal
  <2>1. /\ job' = [job EXCEPT ![r] = [job[r] EXCEPT !.state = client[job[r].client].status]]
        /\ client' = client /\ told' = told \cup {job[r].client} /\ seen' = seen
    BY <1>5 DEF ReadBack, store
  <2>2. /\ job'[r].state = client[job[r].client].status
        /\ \A q \in Request \ {r} : job'[q] = job[q]
    <3>1. job[r] = [name |-> job[r].name, client |-> job[r].client,
                    key |-> job[r].key, state |-> job[r].state]
      BY <1>0 DEF JobShape
    <3>2. [job[r] EXCEPT !.state = client[job[r].client].status].state
             = client[job[r].client].status
      BY <3>1
    <3> QED
      BY <1>0, <2>1, <3>2
  <2>3. r \in Reading /\ r \notin Reading' /\ Reading' \subseteq Reading
    BY <1>0, <1>5 DEF ReadBack, Answers, Reading
  <2>4. \A q \in Reading' : q \in Reading /\ job'[q].client = job[q].client
    BY <2>2, <2>3 DEF Reading
  <2>5. Known' = Known /\ \A c \in Known : client'[c].status = client[c].status
    BY <2>1 DEF Known
  <2> QED
    BY <2>1, <2>2, <2>3, <2>4, <2>5 DEF Tells
<1>6. ASSUME NEW r \in Request, AnswerLost(r) PROVE Goal
  <2>1. /\ pc'[r] # "readback" /\ \A q \in Request \ {r} : pc'[q] = pc[q]
        /\ job' = job /\ told' = told /\ seen' = seen
    BY <1>0, <1>6 DEF AnswerLost, Fails, Answers
  <2>2. CASE CreateDraftClient(job[r].name)
    <3>1. r \notin Reading' /\ \A q \in Reading' \ {r} : q \in Reading /\ job'[q].client = job[q].client
      BY <2>1 DEF Reading
    <3> QED
      BY <2>1, <2>2, <3>1, MakingDrafts
  <2>3. CASE CreateAPIKey(job[r].key)
    BY <1>1, <2>1, <2>3 DEF CreateAPIKey
  <2> QED
    BY <1>6, <2>2, <2>3 DEF AnswerLost
<1>7. ASSUME NEW c \in Known, NEW to \in Status, Transition(c, to) PROVE Goal
  <2>1. /\ client' = [client EXCEPT ![c] = [client[c] EXCEPT !.status = to]]
        /\ c \in told \cup seen /\ told' = told /\ seen' = seen /\ pc' = pc /\ job' = job
    BY <1>7 DEF Transition, requests, history
  <2>2. client = [d \in Known |-> client[d]]
    BY DEF ClientInv
  <2>3. Known' = Known /\ \A d \in Known \ {c} : client'[d] = client[d]
    BY <2>1, <2>2 DEF Known
  <2> QED
    BY <2>1, <2>3 DEF MovesKnown, Reading
<1>8. CASE Crash
  BY <1>8 DEF Crash, StatesAlone, Reading, Known, store
<1>9. CASE UNCHANGED vars
  BY <1>9 DEF vars, StatesAlone, Reading, Known, store, requests, history
<1> QED
  BY <1>2, <1>3, <1>4, <1>5, <1>6, <1>7, <1>8, <1>9 DEF Next

LEMMA ToldStep ==
    TypeInv /\ ClientInv /\ NamedInv /\ ToldInv /\ [Next]_vars => ToldInv'
<1> SUFFICES ASSUME TypeInv, ClientInv, NamedInv, ToldInv, [Next]_vars PROVE ToldInv'
  OBVIOUS
<1>1. CASE StatesAlone
  BY <1>1 DEF StatesAlone, ToldInv
<1>2. ASSUME NEW r \in Request, MakesDraft(r) PROVE ToldInv'
  <2>1. \A q \in Reading' \ {r} : q \in Reading /\ job'[q].client = job[q].client
                                  /\ job'[q].client \in Known \ told
    BY <1>2 DEF MakesDraft, ToldInv
  <2>2. \A c \in Known' : client'[c].status # "draft" => c \in told' \cup seen'
    BY <1>2 DEF MakesDraft, ToldInv
  <2>3. \A q \in Reading' : job'[q].client \in Known' \ told'
    <3>1. nextId \notin told
      BY <1>2 DEF MakesDraft, NamedInv
    <3> QED
      BY <1>2, <2>1, <3>1 DEF MakesDraft
  <2>4. \A p, q \in Reading' : p # q => job'[p].client # job'[q].client
    BY <1>2, <2>1 DEF MakesDraft, ToldInv
  <2> QED
    BY <2>2, <2>3, <2>4 DEF ToldInv
<1>3. ASSUME NEW r \in Request, Tells(r) PROVE ToldInv'
  BY <1>3 DEF Tells, ToldInv
<1>4. ASSUME NEW c \in Known, MovesKnown(c) PROVE ToldInv'
  BY <1>4 DEF MovesKnown, ToldInv
<1> QED
  BY <1>1, <1>2, <1>3, <1>4, StepsTell

LEMMA ToldHolds == Spec => [](TypeInv /\ ClientInv /\ NamedInv /\ ToldInv)
<1> DEFINE Inv == IInv /\ ClientInv /\ NamedInv /\ ToldInv
<1>1. Init => Inv
  <2>1. Init => ToldInv
    BY DEF Init, Known, Reading, ToldInv
  <2> QED
    BY <2>1, Initially, NamedInitially
<1>2. Inv /\ [Next]_vars => Inv'
  BY TypeStep, KeysStep, ClientsStep, ClientRowsStep, NamedStep, ToldStep DEF IInv
<1>3. Inv => TypeInv /\ ClientInv /\ NamedInv /\ ToldInv
  BY DEF IInv
<1> QED
  BY <1>1, <1>2, <1>3, PTL DEF Spec

(***************************************************************************)
(* api.go:125-136: the answer 201 to POST /api/clients tells of a client   *)
(* as it is at a second call.  It is a draft then, unless another caller   *)
(* found the client in a list (api.go:76-109) and moved it on; and each    *)
(* client is told of by one answer.                                        *)
(***************************************************************************)
ToldAsDraftOrListed ==
    [][\A r \in Request : pc[r] = "readback" /\ job[r].client \in told' \ told =>
          job'[r].state = "draft" \/ job[r].client \in seen]_vars

NobodyElseTells == \A r \in Request : pc[r] = "readback" => job[r].client \notin told

THEOREM DraftsAreToldAsDrafts == Spec => []NobodyElseTells /\ ToldAsDraftOrListed
<1> DEFINE Says == \A r \in Request : pc[r] = "readback" /\ job[r].client \in told' \ told =>
                      job'[r].state = "draft" \/ job[r].client \in seen
<1>1. ToldInv => NobodyElseTells
  BY DEF ToldInv, Reading, NobodyElseTells
<1>2. TypeInv /\ ClientInv /\ ToldInv /\ [Next]_vars => [Says]_vars
  <2> SUFFICES ASSUME TypeInv, ClientInv, ToldInv, [Next]_vars,
                      NEW r \in Reading, job[r].client \in told' \ told
               PROVE  job'[r].state = "draft" \/ job[r].client \in seen
    BY DEF Reading
  <2>1. PICK q \in Request : Tells(q)
    BY StepsTell DEF StatesAlone, MakesDraft, MovesKnown
  <2>2. q = r
    BY <2>1 DEF Tells, ToldInv
  <2> QED
    BY <2>1, <2>2 DEF Tells, ToldInv
<1> QED
  BY <1>1, <1>2, ToldHolds, PTL DEF Spec, ToldAsDraftOrListed
=============================================================================
