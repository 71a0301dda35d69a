-------------------------- MODULE Lifecycle_proofs --------------------------
(***************************************************************************)
(* Proofs about Lifecycle for any clients, requests, keys, evidence and    *)
(* targets: types and the gate, offboarding and its retry, the audit       *)
(* trail, the refinement of ClientLifecycle, what one request at a time    *)
(* for a client adds to it, and in which two ways the gate is missed.      *)
(***************************************************************************)
EXTENDS LifecycleRefinement, TLAPS

-----------------------------------------------------------------------------
LEMMA ConfigType ==
    ASSUME TypeOK, NEW c \in Client, Config(c)
    PROVE  TypeOK'
<1>1. CASE CreateDraftClient(c)
  BY <1>1 DEF TypeOK, CreateDraftClient, requests, Status
<1>2. ASSUME NEW ident \in Identity, SetRegistrarIdentity(c, ident)
      PROVE  TypeOK'
  BY <1>2 DEF TypeOK, SetRegistrarIdentity, requests
<1>3. ASSUME NEW ids \in SUBSET UseId, SetRegistration(c, ids)
      PROVE  TypeOK'
  <2>1. BuiltUses(ids) \in UseRows
    <3>1. ASSUME NEW u \in BuiltUses(ids)
          PROVE  /\ u \in IntendedUse
                 /\ u = [id |-> u.id, revoked |-> FALSE]
      <4>1. PICK i \in ids : u = [id |-> i, revoked |-> FALSE]
        BY DEF BuiltUses
      <4>2. u.id = i
        BY <4>1
      <4>3. u \in IntendedUse
        BY <4>1 DEF IntendedUse
      <4> QED
        BY <4>1, <4>2, <4>3
    <3>2. ASSUME NEW u \in BuiltUses(ids), NEW v \in BuiltUses(ids), u.id = v.id
          PROVE  u = v
      BY <3>1, <3>2, Zenon
    <3> QED
      BY <3>1, <3>2 DEF UseRows
  <2> QED
    BY <1>3, <2>1 DEF TypeOK, SetRegistration, requests
<1>4. ASSUME NEW us \in UseRows, SetIntendedUses(c, us)
      PROVE  TypeOK'
  BY <1>4 DEF TypeOK, SetIntendedUses, requests
<1>6. ASSUME NEW k \in Key, CreateKey(c, k)
      PROVE  TypeOK'
  BY <1>6 DEF TypeOK, CreateKey, requests, Item
<1>5. ASSUME NEW e \in Evidence, AddEvidence(c, e)
      PROVE  TypeOK'
  BY <1>5 DEF TypeOK, AddEvidence, requests, Item
<1> QED
  BY <1>1, <1>2, <1>3, <1>4, <1>5, <1>6 DEF Config

LEMMA BeginType ==
    ASSUME TypeOK, NEW r \in Request, NEW c \in Client, NEW t \in Target,
           Begin(r, c, t)
    PROVE  TypeOK'
<1>1. LiveItems(c) \subseteq Item
  BY DEF LiveItems
<1>2. t \in Status
  BY TargetAssumption
<1>3. job' \in [Request -> Job]
  BY <1>1, <1>2 DEF TypeOK, Begin, Job
<1>4. pc' \in [Request -> Pc] /\ resp' \in [Request -> Answer]
  BY DEF TypeOK, Begin, Pc, Calls, Answer
<1> QED
  BY <1>3, <1>4 DEF TypeOK, Begin, store

\* What a request works on stays what it was asked for: once it was begun,
\* it names a client of the table and a state of the matrix.
JobIsSet ==
    \A r \in Request :
        pc[r] \in Calls \cup {"done"} =>
            job[r].client \in Client /\ job[r].to \in Status

TypeInv == TypeOK /\ JobIsSet

LEMMA TransitionClientType ==
    ASSUME TypeOK, NEW c \in Client, NEW t \in Status, TransitionClient(c, t)
    PROVE  /\ status' \in [Client -> Status \cup {"none"}]
           /\ lastEdge' \in [Client -> LegalTransitions \cup {<<>>}]
           /\ UNCHANGED <<identity, uses, owner, purged>>
  BY DEF TypeOK, TransitionClient

LEMMA PurgeOffboardedType ==
    ASSUME TypeOK, NEW c \in Client, PurgeOffboarded(c)
    PROVE  /\ purged' \subseteq Item
           /\ UNCHANGED <<status, identity, uses, owner, lastEdge>>
  BY DEF TypeOK, PurgeOffboarded

\* A step of one handler leaves the other requests alone, and its own request
\* for what it was: it may record what it read, and moves on or answers.
LocalStep(r) ==
    /\ pc[r] \in Calls
    /\ pc' \in [Request -> Pc]
    /\ job' \in [Request -> Job]
    /\ resp' \in [Request -> Answer]
    /\ pc'[r] \in Calls \cup {"done"}
    /\ job'[r].client = job[r].client /\ job'[r].to = job[r].to
    /\ job'[r].retry = job[r].retry /\ job'[r].owed = job[r].owed
    /\ \A s \in Request \ {r} :
           pc'[s] = pc[s] /\ job'[s] = job[s] /\ resp'[s] = resp[s]
    /\ replaced' \subseteq Request
    /\ \A s \in Request \ {r} : s \in replaced => s \in replaced'

\* Of what a request works on, only what it read changes.
LEMMA SeenIsARead ==
    ASSUME NEW j \in Job, NEW v \in Status \cup {"none"}
    PROVE  LET k == [j EXCEPT !.seen = v]
           IN  /\ k \in Job
               /\ k.client = j.client /\ k.to = j.to
               /\ k.retry = j.retry /\ k.owed = j.owed
BY DEF Job

LEMMA SeenIsLocal ==
    ASSUME TypeInv, NEW r \in Request, NEW v \in Status \cup {"none"},
           job' = [job EXCEPT ![r].seen = v]
    PROVE  /\ job' \in [Request -> Job]
           /\ job'[r].client = job[r].client /\ job'[r].to = job[r].to
           /\ job'[r].retry = job[r].retry /\ job'[r].owed = job[r].owed
           /\ \A s \in Request \ {r} : job'[s] = job[s]
<1> DEFINE k == [job[r] EXCEPT !.seen = v]
<1>1. job \in [Request -> Job] /\ job[r] \in Job
  BY DEF TypeInv, TypeOK
<1>2. /\ k \in Job
      /\ k.client = job[r].client /\ k.to = job[r].to
      /\ k.retry = job[r].retry /\ k.owed = job[r].owed
  BY <1>1, SeenIsARead
<1>3. job' = [job EXCEPT ![r] = k]
  OBVIOUS
<1> HIDE DEF k
<1> QED
  BY <1>1, <1>2, <1>3

LEMMA AnswersIsLocal ==
    ASSUME TypeInv, NEW r \in Request, NEW a \in Answer,
           pc[r] \in Calls, Answers(r, a)
    PROVE  LocalStep(r) /\ pc'[r] = "done" /\ resp'[r] = a
<1>1. /\ job' \in [Request -> Job]
      /\ job'[r].client = job[r].client /\ job'[r].to = job[r].to
      /\ job'[r].retry = job[r].retry /\ job'[r].owed = job[r].owed
      /\ \A s \in Request \ {r} : job'[s] = job[s]
  BY SeenIsLocal DEF Answers
<1>2. replaced' \subseteq Request /\ \A s \in Request \ {r} : s \in replaced => s \in replaced'
  BY DEF TypeInv, TypeOK, Answers
<1>3. /\ pc' \in [Request -> Pc] /\ resp' \in [Request -> Answer]
      /\ pc'[r] = "done" /\ resp'[r] = a
      /\ \A s \in Request \ {r} : pc'[s] = pc[s] /\ resp'[s] = resp[s]
  BY DEF TypeInv, TypeOK, Answers, Pc
<1> QED
  BY <1>1, <1>2, <1>3 DEF LocalStep

LEMMA GotoIsLocal ==
    ASSUME TypeInv, NEW r \in Request, NEW l \in Calls,
           pc[r] \in Calls, Goto(r, l),
           \/ job' = job
           \/ job' = [job EXCEPT ![r].seen = status[job[r].client]]
    PROVE  LocalStep(r) /\ pc'[r] = l /\ resp' = resp
<1>1. status[job[r].client] \in Status \cup {"none"}
  BY DEF TypeInv, TypeOK, JobIsSet
<1>2. /\ job' \in [Request -> Job]
      /\ job'[r].client = job[r].client /\ job'[r].to = job[r].to
      /\ job'[r].retry = job[r].retry /\ job'[r].owed = job[r].owed
      /\ \A s \in Request \ {r} : job'[s] = job[s]
  BY <1>1, SeenIsLocal DEF TypeInv, TypeOK
<1>3. /\ pc' \in [Request -> Pc] /\ pc'[r] = l
      /\ \A s \in Request \ {r} : pc'[s] = pc[s]
  BY DEF TypeInv, TypeOK, Goto, Pc
<1>4. resp' \in [Request -> Answer] /\ replaced' \subseteq Request
  BY DEF TypeInv, TypeOK, Goto
<1> QED
  BY <1>2, <1>3, <1>4 DEF LocalStep, Goto

(***************************************************************************)
(* What each step of a handler does, by the answer or the call it leads    *)
(* to.  The invariants below are proved over these cases.                  *)
(***************************************************************************)
LEMMA ReadCases ==
    ASSUME TypeInv, NEW r \in Request, Read(r)
    PROVE  /\ LocalStep(r) /\ UNCHANGED store /\ pc[r] = "read"
           /\ \/ /\ pc'[r] = "done"
                 /\ \/ resp'[r] = "not_found" /\ status[job[r].client] = "none"
                    \/ /\ resp'[r] = "identity_required"
                       /\ job[r].to = "active"
              \/ /\ resp' = resp
                 /\ job' = [job EXCEPT ![r].seen = status[job[r].client]]
                 /\ \/ /\ pc'[r] = "uses"
                       /\ GateApplies(job[r].client, job[r].to)
                       /\ UsableIdentity(identity[job[r].client])
                    \/ /\ pc'[r] = "purge"
                       /\ AlreadyOffboarded(job[r].client, job[r].to)
                    \/ /\ pc'[r] = "flip"
                       /\ status[job[r].client] # "none"
                       /\ ~GateApplies(job[r].client, job[r].to)
                       /\ ~AlreadyOffboarded(job[r].client, job[r].to)
<1> DEFINE c == job[r].client
           t == job[r].to
           HandOver(label) == /\ job' = [job EXCEPT ![r].seen = status[c]]
                              /\ Goto(r, label)
<1>1. pc[r] = "read" /\ pc[r] \in Calls /\ UNCHANGED store
  BY DEF Read, Calls
<1>2. CASE status[c] = "none" /\ Answers(r, "not_found")
  BY <1>1, <1>2, AnswersIsLocal DEF Answer
<1>3. CASE GateApplies(c, t) /\ Answers(r, "identity_required")
  BY <1>1, <1>3, AnswersIsLocal DEF Answer, GateApplies
<1>4. CASE GateApplies(c, t) /\ UsableIdentity(identity[c]) /\ HandOver("uses")
  BY <1>1, <1>4, GotoIsLocal DEF Calls
<1>5. CASE AlreadyOffboarded(c, t) /\ HandOver("purge")
  BY <1>1, <1>5, GotoIsLocal DEF Calls
<1>6. CASE /\ status[c] # "none"
           /\ ~GateApplies(c, t) /\ ~AlreadyOffboarded(c, t)
           /\ HandOver("flip")
  BY <1>1, <1>6, GotoIsLocal DEF Calls
<1> QED
  BY <1>2, <1>3, <1>4, <1>5, <1>6 DEF Read

LEMMA CheckUsesCases ==
    ASSUME TypeInv, NEW r \in Request, CheckUses(r)
    PROVE  /\ LocalStep(r) /\ UNCHANGED store /\ pc[r] = "uses"
           /\ \/ pc'[r] = "done" /\ resp'[r] \in {"use_required", "ts5_failed"}
              \/ /\ pc'[r] = "flip" /\ resp' = resp /\ job' = job
                 /\ AnyNonRevoked(uses[job[r].client])
<1>1. pc[r] = "uses" /\ pc[r] \in Calls /\ UNCHANGED store
  BY DEF CheckUses, Calls
<1>2. CASE Answers(r, "use_required")
  BY <1>1, <1>2, AnswersIsLocal DEF Answer
<1>3. CASE Answers(r, "ts5_failed")
  BY <1>1, <1>3, AnswersIsLocal DEF Answer
<1>4. CASE AnyNonRevoked(uses[job[r].client]) /\ job' = job /\ Goto(r, "flip")
  BY <1>1, <1>4, GotoIsLocal DEF Calls
<1> QED
  BY <1>2, <1>3, <1>4 DEF CheckUses

\* Flip, or the flip whose answer is lost.
LEMMA FlipCases ==
    ASSUME TypeInv, NEW r \in Request, Flip(r) \/ FlipAnswerLost(r)
    PROVE  /\ LocalStep(r) /\ pc[r] = "flip"
           /\ \/ /\ TransitionClient(job[r].client, job[r].to)
                 /\ \/ /\ pc'[r] = "done"
                       /\ \/ resp'[r] = "unavailable"
                          \/ resp'[r] = "ok" /\ job[r].to # "offboarded"
                    \/ /\ pc'[r] = "purge" /\ resp' = resp
                       /\ job[r].to = "offboarded"
              \/ /\ UNCHANGED store /\ pc'[r] = "done"
                 /\ <<status[job[r].client], job[r].to>> \notin LegalTransitions
                 /\ resp'[r] \in {"not_found", "conflict"}
<1> DEFINE c == job[r].client
           t == job[r].to
<1>1. pc[r] = "flip" /\ pc[r] \in Calls
  BY DEF Flip, FlipAnswerLost, Calls
<1>2. CASE TransitionClient(c, t) /\ AfterFlip(r)
  <2>1. CASE job[r].to = "offboarded" /\ job' = job /\ Goto(r, "purge")
    BY <1>1, <1>2, <2>1, GotoIsLocal DEF Calls
  <2>2. CASE job[r].to # "offboarded" /\ Answers(r, "ok")
    BY <1>1, <1>2, <2>2, AnswersIsLocal DEF Answer
  <2> QED
    BY <1>2, <2>1, <2>2 DEF AfterFlip
<1>3. CASE /\ <<status[c], t>> \notin LegalTransitions
           /\ Answers(r, Refusal(c)) /\ UNCHANGED store
  <2>1. Refusal(c) \in {"not_found", "conflict"} /\ Refusal(c) \in Answer
    BY DEF Refusal, Answer
  <2> QED
    BY <1>1, <1>3, <2>1, AnswersIsLocal
<1>4. CASE TransitionClient(c, t) /\ Answers(r, "unavailable")
  BY <1>1, <1>4, AnswersIsLocal DEF Answer
<1> QED
  BY <1>2, <1>3, <1>4 DEF Flip, FlipAnswerLost

\* Purge, or the purge whose answer is lost.
LEMMA PurgeCases ==
    ASSUME TypeInv, NEW r \in Request, Purge(r) \/ PurgeAnswerLost(r)
    PROVE  /\ LocalStep(r) /\ pc[r] = "purge" /\ pc'[r] = "done"
           /\ \/ /\ PurgeOffboarded(job[r].client)
                 /\ resp'[r] \in {"ok", "unavailable"}
              \/ /\ UNCHANGED store /\ resp'[r] = "invalid"
                 /\ status[job[r].client] # "offboarded"
<1> DEFINE c == job[r].client
<1>1. pc[r] = "purge" /\ pc[r] \in Calls
  BY DEF Purge, PurgeAnswerLost, Calls
<1>2. CASE PurgeOffboarded(c) /\ Answers(r, "ok")
  BY <1>1, <1>2, AnswersIsLocal DEF Answer
<1>3. CASE status[c] # "offboarded" /\ Answers(r, "invalid") /\ UNCHANGED store
  BY <1>1, <1>3, AnswersIsLocal DEF Answer
<1>4. CASE PurgeOffboarded(c) /\ Answers(r, "unavailable")
  BY <1>1, <1>4, AnswersIsLocal DEF Answer
<1> QED
  BY <1>2, <1>3, <1>4 DEF Purge, PurgeAnswerLost

LEMMA CallFailsCases ==
    ASSUME TypeInv, NEW r \in Request, CallFails(r)
    PROVE  /\ LocalStep(r) /\ UNCHANGED store
           /\ pc'[r] = "done" /\ resp'[r] = "unavailable"
  BY AnswersIsLocal DEF CallFails, Answer

-----------------------------------------------------------------------------
\* A handler step keeps the types, whichever it is.
LEMMA HandlerType ==
    ASSUME TypeInv, NEW r \in Request, Step(r) \/ Fault(r)
    PROVE  TypeInv'
<1>1. LocalStep(r)
  BY ReadCases, CheckUsesCases, FlipCases, PurgeCases, CallFailsCases
     DEF Step, Fault
<1>2. job[r].client \in Client /\ job[r].to \in Status
  BY <1>1 DEF TypeInv, JobIsSet, LocalStep
<1>3. JobIsSet'
  BY <1>1, <1>2 DEF TypeInv, JobIsSet, LocalStep
<1>4. CASE UNCHANGED store
  BY <1>1, <1>3, <1>4 DEF TypeInv, TypeOK, LocalStep, store
<1>5. CASE TransitionClient(job[r].client, job[r].to)
  <2>1. /\ status' \in [Client -> Status \cup {"none"}]
        /\ lastEdge' \in [Client -> LegalTransitions \cup {<<>>}]
        /\ UNCHANGED <<identity, uses, owner, purged>>
    BY <1>2, <1>5, TransitionClientType DEF TypeInv
  <2> QED
    BY <1>1, <1>3, <2>1 DEF TypeInv, TypeOK, LocalStep
<1>6. CASE PurgeOffboarded(job[r].client)
  <2>1. /\ purged' \subseteq Item
        /\ UNCHANGED <<status, identity, uses, owner, lastEdge>>
    BY <1>2, <1>6, PurgeOffboardedType DEF TypeInv
  <2> QED
    BY <1>1, <1>3, <2>1 DEF TypeInv, TypeOK, LocalStep
<1> QED
  BY <1>4, <1>5, <1>6, ReadCases, CheckUsesCases, FlipCases, PurgeCases,
     CallFailsCases DEF Step, Fault

LEMMA InitType == Init => TypeInv
<1> SUFFICES ASSUME Init PROVE TypeInv
  OBVIOUS
<1>1. NoJob \in Job
  BY DEF NoJob, Job
<1>2. NoIdentity \in Identity
  BY DEF NoIdentity, Identity
<1>3. {} \in UseRows
  BY DEF UseRows
<1> QED
  BY <1>1, <1>2, <1>3 DEF Init, TypeInv, TypeOK, JobIsSet, Pc, Calls, Answer

LEMMA CrashType ==
    ASSUME TypeInv, Crash
    PROVE  TypeInv'
<1>1. NoJob \in Job
  BY DEF NoJob, Job
<1> QED
  BY <1>1 DEF Crash, TypeInv, TypeOK, JobIsSet, Pc, Calls, Answer, store

LEMMA NextType ==
    ASSUME TypeInv, [Next]_vars
    PROVE  TypeInv'
<1>1. ASSUME NEW c \in Client, Config(c)
      PROVE  TypeInv'
  <2>1. UNCHANGED requests
    BY <1>1 DEF Config, CreateDraftClient, SetRegistrarIdentity,
                SetRegistration, SetIntendedUses, CreateKey, AddEvidence
  <2> QED
    BY <1>1, <2>1, ConfigType DEF TypeInv, JobIsSet, requests
<1>2. ASSUME NEW r \in Request, NEW c \in Client, NEW t \in Target,
             Begin(r, c, t)
      PROVE  TypeInv'
  <2>1. TypeOK'
    BY <1>2, BeginType DEF TypeInv
  <2>2. /\ job'[r].client = c /\ job'[r].to = t
        /\ \A s \in Request \ {r} : pc'[s] = pc[s] /\ job'[s] = job[s]
    BY <1>2 DEF TypeInv, TypeOK, Begin
  <2> QED
    BY <2>1, <2>2, TargetAssumption DEF TypeInv, JobIsSet
<1>3. ASSUME NEW r \in Request, Step(r) \/ Fault(r)
      PROVE  TypeInv'
  BY <1>3, HandlerType
<1>4. CASE Crash
  BY <1>4, CrashType
<1>5. CASE UNCHANGED vars
  BY <1>5 DEF TypeInv, TypeOK, JobIsSet, vars, store, requests
<1> QED
  BY <1>1, <1>2, <1>3, <1>4, <1>5 DEF Next

\* Every variable keeps its type, whatever requests run and whatever fails.
THEOREM TypeCorrect == Spec => []TypeOK
<1>1. Spec => []TypeInv
  BY InitType, NextType, PTL DEF Spec
<1> QED
  BY <1>1, PTL DEF TypeInv

-----------------------------------------------------------------------------
(***************************************************************************)
(* What any step may do to the store, whoever takes it: a client's status  *)
(* moves along a legal edge, which is audited; rows keep their owner; only *)
(* rows of offboarded clients are purged, and stay so; the identity half   *)
(* of an activation gate never closes again, and the other half only by a  *)
(* replacement, which marks the activations it concerns.                   *)
(***************************************************************************)
StoreMoves ==
    /\ \A c \in Client :
          /\ \/ status'[c] = status[c] /\ lastEdge'[c] = lastEdge[c]
             \/ /\ status[c] = "none" /\ status'[c] = "draft"
                /\ lastEdge'[c] = lastEdge[c]
             \/ /\ <<status[c], status'[c]>> \in LegalTransitions
                /\ lastEdge'[c] = <<status[c], status'[c]>>
          /\ UsableIdentity(identity[c]) => UsableIdentity(identity'[c])
          /\ \/ AnyNonRevoked(uses[c]) => AnyNonRevoked(uses'[c])
             \/ \A r \in Request :
                    AboutToActivate(r) /\ job[r].client = c => r \in replaced'
    /\ \A i \in Item : owner[i] # NoClient => owner'[i] = owner[i]
    /\ purged \subseteq purged'
    /\ \A i \in purged' \ purged :
          i \in Item /\ owner[i] \in Client /\ status[owner[i]] = "offboarded"

LEMMA ConfigMoves ==
    ASSUME TypeInv, NEW c \in Client, Config(c)
    PROVE  StoreMoves /\ UNCHANGED requests /\ replaced \subseteq replaced'
<1> USE DEF TypeInv, TypeOK
<1>1. CASE CreateDraftClient(c)
  BY <1>1 DEF CreateDraftClient, StoreMoves
<1>2. ASSUME NEW ident \in Identity, SetRegistrarIdentity(c, ident)
      PROVE  StoreMoves /\ UNCHANGED requests /\ replaced \subseteq replaced'
  <2>1. UsableIdentity(ident)
    BY <1>2 DEF SetRegistrarIdentity, AcceptedIdentity, UsableIdentity
  <2> QED
    BY <1>2, <2>1 DEF SetRegistrarIdentity, StoreMoves
<1>3. ASSUME NEW ids \in SUBSET UseId, SetRegistration(c, ids)
      PROVE  StoreMoves /\ UNCHANGED requests /\ replaced \subseteq replaced'
  <2>1. PICK u \in ids : TRUE
    BY <1>3 DEF SetRegistration
  <2>2. [id |-> u, revoked |-> FALSE] \in BuiltUses(ids)
    BY DEF BuiltUses
  <2>3. AnyNonRevoked(BuiltUses(ids))
    BY <2>2 DEF AnyNonRevoked
  <2> QED
    BY <1>3, <2>3 DEF SetRegistration, StoreMoves
<1>6. ASSUME NEW us \in UseRows, SetIntendedUses(c, us)
      PROVE  StoreMoves /\ UNCHANGED requests /\ replaced \subseteq replaced'
  BY <1>6 DEF SetIntendedUses, StoreMoves
<1>4. ASSUME NEW k \in Key, CreateKey(c, k)
      PROVE  StoreMoves /\ UNCHANGED requests /\ replaced \subseteq replaced'
  BY <1>4 DEF CreateKey, StoreMoves
<1>5. ASSUME NEW e \in Evidence, AddEvidence(c, e)
      PROVE  StoreMoves /\ UNCHANGED requests /\ replaced \subseteq replaced'
  BY <1>5 DEF AddEvidence, StoreMoves
<1> QED
  BY <1>1, <1>2, <1>3, <1>4, <1>5, <1>6 DEF Config

LEMMA HandlerMoves ==
    ASSUME TypeInv, NEW r \in Request, Step(r) \/ Fault(r)
    PROVE  StoreMoves
<1> USE DEF TypeInv, TypeOK
<1>1. pc[r] \in Calls /\ job[r].client \in Client /\ job[r].to \in Status
  BY ReadCases, CheckUsesCases, FlipCases, PurgeCases, CallFailsCases
     DEF Step, Fault, LocalStep, JobIsSet
<1>2. CASE UNCHANGED store
  BY <1>2 DEF store, StoreMoves
<1>3. CASE TransitionClient(job[r].client, job[r].to)
  BY <1>1, <1>3 DEF TransitionClient, StoreMoves
<1>4. CASE PurgeOffboarded(job[r].client)
  BY <1>1, <1>4 DEF PurgeOffboarded, StoreMoves
<1> QED
  BY <1>2, <1>3, <1>4, ReadCases, CheckUsesCases, FlipCases, PurgeCases,
     CallFailsCases DEF Step, Fault

LEMMA NextMoves ==
    ASSUME TypeInv, [Next]_vars
    PROVE  StoreMoves
<1>1. CASE UNCHANGED store
  BY <1>1 DEF store, StoreMoves
<1>2. ASSUME NEW r \in Request, NEW c \in Client, NEW t \in Target,
             Begin(r, c, t)
      PROVE  UNCHANGED store
  BY <1>2 DEF Begin
<1>3. CASE Crash
  BY <1>3, <1>1 DEF Crash
<1> QED
  BY <1>1, <1>2, <1>3, ConfigMoves, HandlerMoves DEF Next, vars

\* No edge leaves "offboarded", and none leads back to "none".
LEMMA OffboardedIsFinal ==
    ASSUME StoreMoves, NEW c \in Client, status[c] = "offboarded"
    PROVE  status'[c] = "offboarded"
  BY DEF StoreMoves, LegalTransitions

-----------------------------------------------------------------------------
(***************************************************************************)
(* What the activation gate checked.  The strengthening: between the two   *)
(* checks the first one holds, and what let the request in.                *)
(***************************************************************************)
GateFacts(r) ==
    /\ AboutToActivate(r) =>
          /\ UsableIdentity(identity[job[r].client])
          /\ r \in replaced \/ AnyNonRevoked(uses[job[r].client])
    /\ pc[r] = "uses" => /\ job[r].to = "active"
                         /\ job[r].seen \in ActivePredecessors
                         /\ UsableIdentity(identity[job[r].client])

GateInv == \A r \in Request : GateFacts(r)

\* Requests that a step leaves where they are keep what GateInv says of them.
LEMMA GateFactsKept ==
    ASSUME TypeInv, StoreMoves, NEW r \in Request, GateFacts(r),
           pc'[r] = pc[r], job'[r] = job[r], r \in replaced => r \in replaced'
    PROVE  GateFacts(r)'
<1>1. AboutToActivate(r)' = AboutToActivate(r)
  BY DEF AboutToActivate
<1>2. pc[r] \in {"uses", "flip"} => job[r].client \in Client
  BY DEF TypeInv, JobIsSet, Calls
<1>3. AboutToActivate(r) => pc[r] = "flip"
  BY DEF AboutToActivate
<1>4. pc[r] \in {"uses", "flip"} /\ UsableIdentity(identity[job[r].client])
         => UsableIdentity(identity'[job[r].client])
  BY <1>2 DEF StoreMoves
<1>5. AboutToActivate(r) /\ AnyNonRevoked(uses[job[r].client])
         => r \in replaced' \/ AnyNonRevoked(uses'[job[r].client])
  BY <1>2, <1>3 DEF StoreMoves
<1> HIDE DEF AboutToActivate
<1>6. AboutToActivate(r)' =>
         /\ UsableIdentity(identity[job[r].client])'
         /\ (r \in replaced \/ AnyNonRevoked(uses[job[r].client]))'
  BY <1>1, <1>3, <1>4, <1>5 DEF GateFacts, UsableIdentity, AnyNonRevoked
<1>7. pc'[r] = "uses" => /\ job'[r].to = "active"
                         /\ job'[r].seen \in ActivePredecessors
                         /\ UsableIdentity(identity[job[r].client])'
  BY <1>4 DEF GateFacts, UsableIdentity
<1> QED
  BY <1>6, <1>7 DEF GateFacts

LEMMA GateInvNext ==
    ASSUME TypeInv, GateInv, [Next]_vars
    PROVE  GateInv'
<1>0. StoreMoves
  BY NextMoves
<1>1. CASE UNCHANGED requests /\ replaced \subseteq replaced'
  BY <1>0, <1>1, GateFactsKept DEF requests, GateInv
\* It is enough to look at the request that takes the step.
<1>2. ASSUME NEW r \in Request, GateFacts(r)',
             \A s \in Request \ {r} : /\ pc'[s] = pc[s] /\ job'[s] = job[s]
                                      /\ s \in replaced => s \in replaced'
      PROVE  GateInv'
  BY <1>0, <1>2, GateFactsKept DEF GateInv
<1>3. ASSUME NEW r \in Request, NEW c \in Client, NEW t \in Target,
             Begin(r, c, t)
      PROVE  GateInv'
  <2>1. pc'[r] # "uses" /\ (pc'[r] = "flip" => job'[r].to # "active")
    BY <1>3 DEF Begin, TypeInv, TypeOK
  <2>2. \A s \in Request \ {r} : /\ pc'[s] = pc[s] /\ job'[s] = job[s]
                                 /\ s \in replaced => s \in replaced'
    BY <1>3 DEF Begin, TypeInv, TypeOK
  <2>3. GateFacts(r)'
    BY <2>1 DEF GateFacts, AboutToActivate
  <2> QED
    BY <1>2, <2>2, <2>3
<1>4. ASSUME NEW r \in Request, LocalStep(r), pc'[r] \notin {"uses", "flip"}
      PROVE  GateInv'
  BY <1>2, <1>4 DEF LocalStep, GateFacts, AboutToActivate
<1>5. ASSUME NEW r \in Request, Read(r)
      PROVE  GateInv'
  <2>1. LocalStep(r) /\ UNCHANGED store /\ job[r].client \in Client
    BY <1>5, ReadCases DEF LocalStep, TypeInv, JobIsSet
  <2>2. CASE pc'[r] \notin {"uses", "flip"}
    BY <1>4, <2>1, <2>2
  <2>3. CASE pc'[r] \in {"uses", "flip"}
    <3>1. job'[r].seen = status[job[r].client]
      BY <1>5, <2>3, ReadCases DEF TypeInv, TypeOK, Job
    <3>2. CASE pc'[r] = "uses"
      <4>1. /\ GateApplies(job[r].client, job[r].to)
            /\ UsableIdentity(identity[job[r].client])
        BY <1>5, <3>2, ReadCases
      <4>2. GateFacts(r)'
        BY <2>1, <3>1, <3>2, <4>1 DEF GateApplies, GateFacts, AboutToActivate, LocalStep, store
      <4> QED
        BY <1>2, <2>1, <4>2 DEF LocalStep
    <3>3. CASE pc'[r] = "flip"
      <4>1. ~GateApplies(job[r].client, job[r].to)
        BY <1>5, <3>3, ReadCases
      <4>2. GateFacts(r)'
        BY <2>1, <3>1, <3>3, <4>1 DEF GateApplies, GateFacts, AboutToActivate, LocalStep
      <4> QED
        BY <1>2, <2>1, <4>2 DEF LocalStep
    <3> QED
      BY <2>3, <3>2, <3>3
  <2> QED
    BY <2>2, <2>3
<1>6. ASSUME NEW r \in Request, CheckUses(r)
      PROVE  GateInv'
  <2>1. LocalStep(r) /\ UNCHANGED store /\ pc[r] = "uses"
    BY <1>6, CheckUsesCases
  <2>2. CASE pc'[r] = "flip"
    <3>1. AnyNonRevoked(uses[job[r].client]) /\ job' = job
      BY <1>6, <2>2, CheckUsesCases
    <3>2. GateFacts(r)'
      BY <2>1, <2>2, <3>1 DEF GateInv, GateFacts, AboutToActivate, store
    <3> QED
      BY <1>2, <2>1, <3>2 DEF LocalStep
  <2>3. CASE pc'[r] # "flip"
    BY <1>4, <1>6, <2>1, <2>3, CheckUsesCases
  <2> QED
    BY <2>2, <2>3
<1>7. ASSUME NEW r \in Request,
             \/ Flip(r) \/ FlipAnswerLost(r) \/ Purge(r)
             \/ PurgeAnswerLost(r) \/ CallFails(r)
      PROVE  GateInv'
  BY <1>4, <1>7, FlipCases, PurgeCases, CallFailsCases
<1>8. CASE Crash
  BY <1>8 DEF Crash, GateInv, GateFacts, AboutToActivate
<1>9. CASE UNCHANGED vars
  BY <1>1, <1>9 DEF vars
<1> QED
  BY <1>1, <1>3, <1>5, <1>6, <1>7, <1>8, <1>9, ConfigMoves
     DEF Next, Step, Fault

\* Of what a request checked on a legal predecessor of "active", the identity is
\* still usable when it flips the client, whatever ran in between; and so is an
\* intended use, unless a confirmation replaced them all in between.
THEOREM GateIsNeverStale == Spec => []CheckedIsStillTrue
<1>1. Init => TypeInv /\ GateInv
  BY InitType DEF Init, GateInv, GateFacts, AboutToActivate
<1>2. TypeInv /\ GateInv /\ [Next]_vars => (TypeInv /\ GateInv)'
  BY NextType, GateInvNext
<1>3. GateInv => CheckedIsStillTrue
  BY DEF GateInv, GateFacts, CheckedIsStillTrue
<1>4. Spec => [](TypeInv /\ GateInv)
  BY <1>1, <1>2, PTL DEF Spec
<1> QED
  BY <1>3, <1>4, PTL

-----------------------------------------------------------------------------
\* Offboarding, retries and the audit trail.

(***************************************************************************)
(* What is known of one request while it offboards a client.  A request    *)
(* reaches the purge of an offboarded client only; a retry goes from its   *)
(* read to the purge and meets the matrix nowhere; what a request owes has *)
(* belonged to its client since before it was made.                        *)
(***************************************************************************)
OffboardFacts(r) ==
    /\ job[r].retry => /\ job[r].to = "offboarded"
                       /\ pc[r] \in {"read", "purge", "done"}
                       /\ status[job[r].client] = "offboarded"
    /\ pc[r] = "purge" => /\ job[r].to = "offboarded"
                          /\ status[job[r].client] = "offboarded"
    /\ \A i \in job[r].owed : i \in Item /\ owner[i] = job[r].client
    /\ job[r].owed # {} => job[r].client \in Client
    /\ resp[r] # "invalid"
    /\ pc[r] = "done" /\ job[r].retry => resp[r] \in {"ok", "unavailable"}
    /\ pc[r] = "done" /\ job[r].to = "offboarded" /\ resp[r] = "ok" =>
           status[job[r].client] = "offboarded" /\ job[r].owed \subseteq purged

OffboardInv == \A r \in Request : OffboardFacts(r)

\* A job that remembers anything names a client.
LEMMA JobClient ==
    ASSUME TypeInv, NEW r \in Request, OffboardFacts(r),
           job[r].retry \/ pc[r] \in {"purge", "done"}
    PROVE  job[r].client \in Client
  BY DEF TypeInv, JobIsSet, Calls, OffboardFacts

LEMMA OffboardFactsKept ==
    ASSUME TypeInv, StoreMoves, NEW r \in Request, OffboardFacts(r),
           pc'[r] = pc[r], job'[r] = job[r], resp'[r] = resp[r]
    PROVE  OffboardFacts(r)'
<1>1. job[r].retry \/ pc[r] \in {"purge", "done"} =>
          /\ job[r].client \in Client
          /\ status[job[r].client] = "offboarded" =>
                 status'[job[r].client] = "offboarded"
  BY JobClient, OffboardedIsFinal
<1>2. \A i \in job[r].owed : i \in Item /\ owner'[i] = job[r].client
  BY ClientAssumption DEF OffboardFacts, StoreMoves
<1> QED
  BY <1>1, <1>2 DEF OffboardFacts, StoreMoves

LEMMA OffboardInvNext ==
    ASSUME TypeInv, OffboardInv, [Next]_vars
    PROVE  OffboardInv'
<1>0. StoreMoves
  BY NextMoves
<1>1. CASE UNCHANGED requests
  BY <1>0, <1>1, OffboardFactsKept DEF requests, OffboardInv
<1>2. ASSUME NEW r \in Request, OffboardFacts(r)',
             \A s \in Request \ {r} :
                 pc'[s] = pc[s] /\ job'[s] = job[s] /\ resp'[s] = resp[s]
      PROVE  OffboardInv'
  BY <1>0, <1>2, OffboardFactsKept DEF OffboardInv
\* The request that steps keeps its client, its target and what it owes.
<1>3. ASSUME NEW r \in Request, LocalStep(r)
      PROVE  /\ job[r].client \in Client
             /\ status[job[r].client] = "offboarded" =>
                    status'[job[r].client] = "offboarded"
             /\ \A i \in job'[r].owed : i \in Item /\ owner'[i] = job'[r].client
             /\ job'[r].owed = job[r].owed /\ job'[r].client = job[r].client
             /\ job'[r].to = job[r].to /\ job'[r].retry = job[r].retry
             /\ OffboardFacts(r)' => OffboardInv'
  <2>1. job[r].client \in Client
    BY <1>3 DEF LocalStep, TypeInv, JobIsSet
  <2>2. \A i \in job[r].owed : i \in Item /\ owner'[i] = job[r].client
    BY <1>0, <2>1, ClientAssumption DEF OffboardInv, OffboardFacts, StoreMoves
  <2> QED
    BY <1>0, <1>2, <1>3, <2>1, <2>2, OffboardedIsFinal DEF LocalStep
<1>4. ASSUME NEW r \in Request, NEW c \in Client, NEW t \in Target,
             Begin(r, c, t)
      PROVE  OffboardInv'
  <2>1. /\ job'[r] = [client |-> c, to |-> t, seen |-> "none",
                      retry  |-> t = "offboarded" /\ status[c] = "offboarded",
                      owed   |-> IF t = "offboarded" THEN LiveItems(c) ELSE {}]
        /\ pc'[r] = IF t \in {"active", "offboarded"} THEN "read" ELSE "flip"
        /\ resp'[r] = "none" /\ UNCHANGED store
        /\ \A s \in Request \ {r} :
               pc'[s] = pc[s] /\ job'[s] = job[s] /\ resp'[s] = resp[s]
    BY <1>4 DEF Begin, TypeInv, TypeOK
  <2>2. OffboardFacts(r)'
    <3>1. job'[r].retry => t = "offboarded" /\ status[c] = "offboarded"
      <4>1. CASE t = "offboarded" /\ status[c] = "offboarded"
        BY <4>1
      <4>2. CASE ~(t = "offboarded" /\ status[c] = "offboarded")
        <5>1. job'[r] = [client |-> c, to |-> t, seen |-> "none", retry |-> FALSE,
                         owed |-> IF t = "offboarded" THEN LiveItems(c) ELSE {}]
          BY <2>1, <4>2
        <5> QED
          BY <5>1
      <4> QED
        BY <4>1, <4>2
    <3>2. /\ job'[r].client = c /\ job'[r].to = t
          /\ \A i \in job'[r].owed : i \in Item /\ owner[i] = c
      BY <2>1 DEF LiveItems
    <3>3. pc'[r] \in {"read", "flip"} /\ (t = "offboarded" => pc'[r] = "read")
      BY <2>1
    <3> QED
      BY <2>1, <3>1, <3>2, <3>3 DEF OffboardFacts, store
  <2> QED
    BY <1>2, <2>1, <2>2
<1>5. ASSUME NEW r \in Request, Read(r)
      PROVE  OffboardInv'
  <2>1. LocalStep(r) /\ UNCHANGED store /\ pc[r] = "read"
    BY <1>5, ReadCases
  <2>2. OffboardFacts(r)
    BY DEF OffboardInv
  <2>3. CASE pc'[r] = "done"
    <3>1. resp'[r] \in {"not_found", "identity_required"}
      BY <1>5, <2>3, ReadCases
    <3>2. ~job[r].retry
      BY <1>5, <2>2, <2>3, ReadCases DEF OffboardFacts
    <3> QED
      BY <1>3, <2>1, <2>2, <2>3, <3>1, <3>2 DEF OffboardFacts, store
  <2>4. CASE pc'[r] \in {"uses", "purge", "flip"}
    <3>1. resp'[r] = resp[r]
      BY <1>5, <2>4, ReadCases
    <3>2. pc'[r] # "purge" => ~job[r].retry
      BY <1>5, <2>2, <2>4, ReadCases
         DEF OffboardFacts, GateApplies, AlreadyOffboarded
    <3>3. pc'[r] = "purge" => AlreadyOffboarded(job[r].client, job[r].to)
      BY <1>5, ReadCases
    <3> QED
      BY <1>3, <2>1, <2>2, <2>4, <3>1, <3>2, <3>3
         DEF OffboardFacts, AlreadyOffboarded, store
  <2> QED
    BY <1>5, <2>3, <2>4, ReadCases
<1>6. ASSUME NEW r \in Request, CheckUses(r)
      PROVE  OffboardInv'
  <2>1. LocalStep(r) /\ UNCHANGED store /\ pc[r] = "uses"
    BY <1>6, CheckUsesCases
  <2>2. OffboardFacts(r) /\ ~job[r].retry
    BY <2>1 DEF OffboardInv, OffboardFacts
  <2>3. \/ pc'[r] = "done" /\ resp'[r] \in {"use_required", "ts5_failed"}
        \/ pc'[r] = "flip" /\ resp'[r] = resp[r]
    BY <1>6, CheckUsesCases
  <2> QED
    BY <1>3, <2>1, <2>2, <2>3 DEF OffboardFacts, store
<1>7. ASSUME NEW r \in Request, Flip(r) \/ FlipAnswerLost(r)
      PROVE  OffboardInv'
  <2>1. LocalStep(r) /\ pc[r] = "flip"
    BY <1>7, FlipCases
  <2>2. OffboardFacts(r) /\ ~job[r].retry
    BY <2>1 DEF OffboardInv, OffboardFacts
  <2>3. CASE pc'[r] = "done"
    <3>1. /\ resp'[r] \in {"ok", "unavailable", "not_found", "conflict"}
          /\ resp'[r] = "ok" => job[r].to # "offboarded"
      BY <1>7, <2>3, FlipCases
    <3> QED
      BY <1>3, <2>1, <2>2, <2>3, <3>1 DEF OffboardFacts
  <2>4. CASE pc'[r] = "purge"
    <3>1. /\ TransitionClient(job[r].client, job[r].to)
          /\ job[r].to = "offboarded" /\ resp'[r] = resp[r]
      BY <1>7, <2>4, FlipCases
    <3>2. status'[job[r].client] = "offboarded"
      BY <1>3, <2>1, <3>1 DEF TransitionClient, TypeInv, TypeOK
    <3> QED
      BY <1>3, <2>1, <2>2, <2>4, <3>1, <3>2 DEF OffboardFacts
  <2> QED
    BY <1>7, <2>3, <2>4, FlipCases
<1>8. ASSUME NEW r \in Request, Purge(r) \/ PurgeAnswerLost(r)
      PROVE  OffboardInv'
  <2>1. LocalStep(r) /\ pc[r] = "purge" /\ pc'[r] = "done"
    BY <1>8, PurgeCases
  <2>2. OffboardFacts(r)
    BY DEF OffboardInv
  <2>3. /\ PurgeOffboarded(job[r].client)
        /\ resp'[r] \in {"ok", "unavailable"}
    BY <1>8, <2>1, <2>2, PurgeCases DEF OffboardFacts
  <2>4. job[r].owed \subseteq purged'
    BY <2>2, <2>3 DEF PurgeOffboarded, OffboardFacts
  <2> QED
    BY <1>3, <2>1, <2>2, <2>3, <2>4 DEF OffboardFacts, PurgeOffboarded
<1>9. ASSUME NEW r \in Request, CallFails(r)
      PROVE  OffboardInv'
  <2>1. /\ LocalStep(r) /\ UNCHANGED store
        /\ pc'[r] = "done" /\ resp'[r] = "unavailable"
    BY <1>9, CallFailsCases
  <2>2. OffboardFacts(r)
    BY DEF OffboardInv
  <2> QED
    BY <1>3, <2>1, <2>2 DEF OffboardFacts, store
<1>10. CASE Crash
  BY <1>10 DEF Crash, NoJob, OffboardInv, OffboardFacts
<1> QED
  BY <1>1, <1>4, <1>5, <1>6, <1>7, <1>8, <1>9, <1>10, ConfigMoves
     DEF Next, Step, Fault, vars

LEMMA OffboardInvHolds == Spec => [](TypeInv /\ OffboardInv)
<1>1. Init => TypeInv /\ OffboardInv
  BY InitType DEF Init, NoJob, OffboardInv, OffboardFacts
<1>2. TypeInv /\ OffboardInv /\ [Next]_vars => (TypeInv /\ OffboardInv)'
  BY NextType, OffboardInvNext
<1> QED
  BY <1>1, <1>2, PTL DEF Spec

\* An offboarding that is answered with success has revoked every key and
\* purged every evidence row its client had when the request was made.
THEOREM OffboardOkIsComplete == Spec => []OffboardOkMeansPurged
<1>1. OffboardInv => OffboardOkMeansPurged
  BY DEF OffboardInv, OffboardFacts, OffboardOkMeansPurged
<1> QED
  BY <1>1, OffboardInvHolds, PTL

\* Retrying the offboarding of an offboarded client is never a conflict, and
\* no purge is refused for the state the client is in.
THEOREM RetryIsSafe == Spec => []RetryNeverConflicts
<1>1. OffboardInv => RetryNeverConflicts
  BY DEF OffboardInv, OffboardFacts, RetryNeverConflicts
<1> QED
  BY <1>1, OffboardInvHolds, PTL
-----------------------------------------------------------------------------
\* The newest audited edge ends in the state the client is in; a client that
\* is not there has no edge.
AuditInv ==
    /\ AuditIsCurrent
    /\ \A c \in Client : status[c] = "none" => lastEdge[c] = <<>>

\* A legal edge is a pair, starts somewhere in the matrix and ends there.
LEMMA LegalEdge ==
    ASSUME NEW s, NEW t, <<s, t>> \in LegalTransitions
    PROVE  s \in Status /\ t \in Status /\ s # "none" /\ t # "none"
  BY DEF LegalTransitions, Status

LEMMA AuditStep ==
    ASSUME TypeInv, AuditInv, [Next]_vars, NEW c \in Client
    PROVE  /\ status'[c] # "none" => status'[c] = LastAudited(c)'
           /\ status'[c] = "none" => lastEdge'[c] = <<>>
           /\ lastEdge'[c] # lastEdge[c] =>
                  lastEdge'[c] # <<>> /\ lastEdge'[c][1] = LastAudited(c)
<1>1. CASE status'[c] = status[c] /\ lastEdge'[c] = lastEdge[c]
  BY <1>1 DEF AuditInv, AuditIsCurrent, LastAudited
<1>2. CASE /\ status[c] = "none" /\ status'[c] = "draft"
           /\ lastEdge'[c] = lastEdge[c]
  BY <1>2 DEF AuditInv, LastAudited
<1>3. CASE /\ <<status[c], status'[c]>> \in LegalTransitions
           /\ lastEdge'[c] = <<status[c], status'[c]>>
  <2>1. status[c] # "none" /\ status'[c] # "none"
    BY <1>3, LegalEdge
  <2>2. lastEdge'[c] # <<>> /\ lastEdge'[c][1] = status[c]
        /\ lastEdge'[c][2] = status'[c]
    BY <1>3
  <2> QED
    BY <2>1, <2>2 DEF AuditInv, AuditIsCurrent, LastAudited
<1> QED
  BY <1>1, <1>2, <1>3, NextMoves DEF StoreMoves

LEMMA AuditInvHolds == Spec => [](TypeInv /\ AuditInv)
<1>1. Init => TypeInv /\ AuditInv
  BY InitType DEF Init, AuditInv, AuditIsCurrent
<1>2. TypeInv /\ AuditInv /\ [Next]_vars => (TypeInv /\ AuditInv)'
  BY NextType, AuditStep DEF AuditInv, AuditIsCurrent
<1> QED
  BY <1>1, <1>2, PTL DEF Spec

\* The audit trail of a client is one walk through the matrix.
THEOREM AuditTrailIsAWalk == Spec => AuditIsAWalk
<1>1. TypeInv /\ AuditInv /\ [Next]_vars
      => [\A c \in Client : lastEdge'[c] # lastEdge[c] =>
             lastEdge'[c] # <<>> /\ lastEdge'[c][1] = LastAudited(c)]_vars
  BY AuditStep
<1> QED
  BY <1>1, AuditInvHolds, PTL DEF Spec, AuditIsAWalk

-----------------------------------------------------------------------------
\* The promise: without the gate for any requests, with it for one at a time.

\* A step that leaves the store alone is a stutter of the promise.
LEMMA Stutters ==
    ASSUME UNCHANGED store
    PROVE  UNCHANGED Ungated!vars /\ UNCHANGED Gate!vars
  BY DEF store, Ungated!vars, Gate!vars, Identified, Holds, LiveItems

LEMMA CreateImplements ==
    ASSUME TypeInv, NEW c \in Client, CreateDraftClient(c)
    PROVE  Ungated!Create(c) /\ Gate!Create(c)
  BY DEF CreateDraftClient, Ungated!Create, Gate!Create, Identified, Holds,
         LiveItems

\* What the gate reads is written by three setters, one client at a time.
LEMMA SettersImplement ==
    ASSUME TypeInv, NEW c \in Client, Config(c),
           status' = status, owner' = owner, purged' = purged,
           status[c] # "none",
           \A d \in Client \ {c} : identity'[d] = identity[d]
    PROVE  \/ Ungated!Identify(c) /\ Gate!Identify(c)
           \/ UNCHANGED Ungated!vars /\ UNCHANGED Gate!vars
<1>1. StoreMoves
  BY ConfigMoves
<1>2. Identified' = Identified \/ Identified' = Identified \cup {c}
  BY <1>1 DEF Identified, StoreMoves
<1>3. Holds' = Holds
  BY DEF Holds, LiveItems
<1> QED
  BY <1>2, <1>3 DEF Ungated!Identify, Gate!Identify, Ungated!vars, Gate!vars

LEMMA AccrueImplements ==
    ASSUME TypeInv, NEW c \in Client, NEW i \in Item, i \notin purged,
           status[c] # "none", owner[i] = NoClient,
           owner' = [owner EXCEPT ![i] = c],
           UNCHANGED <<status, identity, uses, purged>>
    PROVE  Ungated!Accrue(c, i) /\ Gate!Accrue(c, i)
<1>1. \A d \in Client : i \notin Holds[d]
  BY ClientAssumption DEF Holds, LiveItems
<1>2. Holds' = [Holds EXCEPT ![c] = @ \cup {i}]
  <2>1. \A d \in Client \ {c} : LiveItems(d)' = LiveItems(d)
    BY ClientAssumption DEF LiveItems, TypeInv, TypeOK
  <2>2. LiveItems(c)' = LiveItems(c) \cup {i}
    BY DEF LiveItems, TypeInv, TypeOK
  <2> QED
    BY <2>1, <2>2 DEF Holds
<1>3. Identified' = Identified
  BY DEF Identified
<1> QED
  BY <1>1, <1>2, <1>3 DEF Ungated!Accrue, Gate!Accrue

\* The instances talk of the same matrix.
LEMMA SameMatrix ==
    /\ Ungated!LegalTransitions = LegalTransitions
    /\ Gate!LegalTransitions = LegalTransitions
    /\ Ungated!Status = Status /\ Gate!Status = Status
  BY DEF LegalTransitions, Ungated!LegalTransitions, Gate!LegalTransitions,
         Status, Ungated!Status, Gate!Status

LEMMA FlipImplements ==
    ASSUME TypeInv, NEW c \in Client, NEW t \in Status, TransitionClient(c, t)
    PROVE  /\ Ungated!Move(c, t)
           /\ (t = "active" /\ ~UsableIdentity(identity[c])) \/ Gate!Move(c, t)
<1>1. Identified' = Identified /\ Holds' = Holds
  BY DEF TransitionClient, Identified, Holds, LiveItems
<1> QED
  BY <1>1, SameMatrix DEF TransitionClient, Ungated!Move, Gate!Move, Identified

LEMMA PurgeImplements ==
    ASSUME TypeInv, NEW c \in Client, PurgeOffboarded(c)
    PROVE  Ungated!Dispose(c) /\ Gate!Dispose(c)
<1>1. purged' = purged \cup Holds[c]
  BY DEF PurgeOffboarded, Holds, LiveItems
<1>2. Holds' = [Holds EXCEPT ![c] = {}]
  <2>1. LiveItems(c)' = {}
    BY DEF PurgeOffboarded, LiveItems
  <2>2. \A d \in Client \ {c} : LiveItems(d)' = LiveItems(d)
    BY DEF PurgeOffboarded, LiveItems
  <2> QED
    BY <2>1, <2>2 DEF Holds
<1>3. Identified' = Identified
  BY DEF PurgeOffboarded, Identified
<1> QED
  BY <1>1, <1>2, <1>3 DEF PurgeOffboarded, Ungated!Dispose, Gate!Dispose

\* A purged row belongs to a client, so a fresh one was never purged.
PurgedHasOwner == \A i \in purged : owner[i] \in Client

LEMMA PurgedHasOwnerNext ==
    ASSUME TypeInv, PurgedHasOwner, [Next]_vars
    PROVE  PurgedHasOwner'
<1>1. StoreMoves
  BY NextMoves
<1> SUFFICES ASSUME NEW i \in purged' PROVE owner'[i] \in Client
  BY DEF PurgedHasOwner
<1>2. i \in Item /\ owner[i] \in Client
  BY <1>1 DEF StoreMoves, PurgedHasOwner, TypeInv, TypeOK
<1> QED
  BY <1>1, <1>2, ClientAssumption DEF StoreMoves

LEMMA ConfigImplements ==
    ASSUME TypeInv, PurgedHasOwner, NEW c \in Client, Config(c)
    PROVE  \/ Ungated!Next /\ Gate!Next
           \/ UNCHANGED Ungated!vars /\ UNCHANGED Gate!vars
<1>1. CASE CreateDraftClient(c)
  BY <1>1, CreateImplements DEF Ungated!Next, Gate!Next
<1>2. ASSUME NEW ident \in Identity, SetRegistrarIdentity(c, ident)
      PROVE  \/ Ungated!Next /\ Gate!Next
             \/ UNCHANGED Ungated!vars /\ UNCHANGED Gate!vars
  BY <1>2, SettersImplement
     DEF SetRegistrarIdentity, TypeInv, TypeOK, Ungated!Next, Gate!Next
<1>3. ASSUME NEW ids \in SUBSET UseId, SetRegistration(c, ids)
      PROVE  \/ Ungated!Next /\ Gate!Next
             \/ UNCHANGED Ungated!vars /\ UNCHANGED Gate!vars
  BY <1>3, SettersImplement
     DEF SetRegistration, TypeInv, TypeOK, Ungated!Next, Gate!Next
<1>7. ASSUME NEW us \in UseRows, SetIntendedUses(c, us)
      PROVE  \/ Ungated!Next /\ Gate!Next
             \/ UNCHANGED Ungated!vars /\ UNCHANGED Gate!vars
  BY <1>7, SettersImplement
     DEF SetIntendedUses, TypeInv, TypeOK, Ungated!Next, Gate!Next
<1>4. ASSUME NEW i \in Item, status[c] # "none", owner[i] = NoClient,
             owner' = [owner EXCEPT ![i] = c],
             UNCHANGED <<status, identity, uses, purged>>
      PROVE  Ungated!Next /\ Gate!Next
  <2>1. i \notin purged
    BY <1>4, ClientAssumption DEF PurgedHasOwner
  <2> QED
    BY <1>4, <2>1, AccrueImplements DEF Ungated!Next, Gate!Next
<1>5. ASSUME NEW k \in Key, CreateKey(c, k)
      PROVE  Ungated!Next /\ Gate!Next
  BY <1>4, <1>5 DEF CreateKey, Item
<1>6. ASSUME NEW e \in Evidence, AddEvidence(c, e)
      PROVE  Ungated!Next /\ Gate!Next
  BY <1>4, <1>6 DEF AddEvidence, Item
<1> QED
  BY <1>1, <1>2, <1>3, <1>5, <1>6, <1>7 DEF Config

LEMMA UngatedStep ==
    ASSUME TypeInv, PurgedHasOwner, [Next]_vars
    PROVE  [Ungated!Next]_Ungated!vars
<1>1. CASE UNCHANGED store
  BY <1>1, Stutters
<1>2. ASSUME NEW c \in Client, Config(c)
      PROVE  [Ungated!Next]_Ungated!vars
  BY <1>2, ConfigImplements
<1>3. ASSUME NEW r \in Request, Step(r) \/ Fault(r)
      PROVE  [Ungated!Next]_Ungated!vars
  <2>1. job[r].client \in Client /\ job[r].to \in Status
    BY <1>3, ReadCases, CheckUsesCases, FlipCases, PurgeCases, CallFailsCases
       DEF Step, Fault, LocalStep, TypeInv, JobIsSet
  <2>2. CASE TransitionClient(job[r].client, job[r].to)
    BY <2>1, <2>2, FlipImplements, SameMatrix DEF Ungated!Next
  <2>3. CASE PurgeOffboarded(job[r].client)
    BY <2>1, <2>3, PurgeImplements DEF Ungated!Next
  <2> QED
    BY <1>1, <1>3, <2>2, <2>3, ReadCases, CheckUsesCases, FlipCases,
       PurgeCases, CallFailsCases DEF Step, Fault
<1>4. ASSUME NEW r \in Request, NEW c \in Client, NEW t \in Target,
             Begin(r, c, t)
      PROVE  [Ungated!Next]_Ungated!vars
  BY <1>1, <1>4 DEF Begin
<1>5. CASE Crash
  BY <1>1, <1>5 DEF Crash
<1> QED
  BY <1>1, <1>2, <1>3, <1>4, <1>5 DEF Next, vars

LEMMA InitImplements == Init => Ungated!Init /\ Gate!Init
<1> SUFFICES ASSUME Init PROVE Ungated!Init /\ Gate!Init
  OBVIOUS
<1>1. Identified = {}
  BY DEF Init, Identified, UsableIdentity, NoIdentity
<1>2. Holds = [c \in Client |-> {}]
  BY ClientAssumption DEF Init, Holds, LiveItems
<1> QED
  BY <1>1, <1>2 DEF Init, Ungated!Init, Gate!Init

\* Any number of concurrent requests implements the promise without the gate.
THEOREM RequestsImplementLifecycle == Spec => ImplementsLifecycle
<1>1. Init => TypeInv /\ PurgedHasOwner
  BY InitType DEF Init, PurgedHasOwner
<1>2. TypeInv /\ PurgedHasOwner /\ [Next]_vars => (TypeInv /\ PurgedHasOwner)'
  BY NextType, PurgedHasOwnerNext
<1> QED
  BY <1>1, <1>2, InitImplements, UngatedStep, PTL
     DEF Spec, ImplementsLifecycle, Ungated!Spec
-----------------------------------------------------------------------------
(***************************************************************************)
(* One request at a time for a client, as a lock on its row would have it. *)
(* What a request read of the status is then still so when it flips, and   *)
(* every way into "active" goes through the gate.  That makes the identity *)
(* certain; the intended uses only if none is replaced between their check *)
(* and the flip, which no lock of the transitions prevents.  With two      *)
(* requests for a client neither is: the run LifecycleGateRace.            *)
(***************************************************************************)
OnePerClient ==
    \A r, s \in Request :
        /\ pc[r] \in Calls /\ pc[s] \in Calls
        /\ job[r].client = job[s].client
        => r = s

Current(r) ==
    pc[r] \in {"uses", "flip"} /\ job[r].to = "active" =>
        /\ job[r].seen = status[job[r].client]
        /\ status[job[r].client] # "none"

SeenIsCurrent == \A r \in Request : Current(r)

SeqInv == TypeInv /\ GateInv /\ PurgedHasOwner /\ SeenIsCurrent

\* With one request for a client, a flip into "active" finds what was checked.
LEMMA FlipFindsChecked ==
    ASSUME SeqInv, NEW r \in Request, pc[r] = "flip", job[r].to = "active",
           status[job[r].client] \in ActivePredecessors
    PROVE  /\ UsableIdentity(identity[job[r].client])
           /\ r \in replaced \/ AnyNonRevoked(uses[job[r].client])
  BY DEF SeqInv, SeenIsCurrent, Current, GateInv, GateFacts, AboutToActivate

\* No other action of the model moves a client that is there.
LEMMA ConfigKeepsStatus ==
    ASSUME TypeInv, NEW c \in Client, Config(c),
           NEW d \in Client, status[d] # "none"
    PROVE  status'[d] = status[d]
  BY DEF TypeInv, TypeOK, Config, CreateDraftClient, SetRegistrarIdentity,
         SetRegistration, SetIntendedUses, CreateKey, AddEvidence

\* What a request read stays current while its client is left alone.
LEMMA CurrentKept ==
    ASSUME NEW r \in Request, Current(r), pc'[r] = pc[r], job'[r] = job[r],
           pc[r] \in {"uses", "flip"} /\ status[job[r].client] # "none"
               => status'[job[r].client] = status[job[r].client]
    PROVE  Current(r)'
  BY DEF Current

\* Whatever a handler does is local to its request.
LEMMA HandlerIsLocal ==
    ASSUME TypeInv, NEW r \in Request, Step(r) \/ Fault(r)
    PROVE  LocalStep(r)
  BY ReadCases, CheckUsesCases, FlipCases, PurgeCases, CallFailsCases DEF Step, Fault

\* A step of one request leaves the clients of the others alone.
LEMMA OthersLeftAlone ==
    ASSUME TypeInv, OnePerClient, NEW r \in Request, Step(r) \/ Fault(r),
           NEW s \in Request \ {r}, pc[s] \in Calls
    PROVE  /\ pc'[s] = pc[s] /\ job'[s] = job[s]
           /\ status'[job[s].client] = status[job[s].client]
<1>1. LocalStep(r)
  BY HandlerIsLocal
<1>2. job[s].client # job[r].client
  BY <1>1 DEF OnePerClient, LocalStep
<1>3. \/ status' = status
      \/ TransitionClient(job[r].client, job[r].to)
  BY ReadCases, CheckUsesCases, FlipCases, PurgeCases, CallFailsCases
     DEF Step, Fault, store, PurgeOffboarded
<1>4. status'[job[s].client] = status[job[s].client]
  <2>1. job[s].client \in Client /\ status \in [Client -> Status \cup {"none"}]
    BY DEF TypeInv, TypeOK, JobIsSet
  <2> QED
    BY <1>2, <1>3, <2>1 DEF TransitionClient
<1> QED
  BY <1>1, <1>4 DEF LocalStep

LEMMA SeenIsCurrentNext ==
    ASSUME OnePerClient, SeqInv, [Next]_vars
    PROVE  SeenIsCurrent'
<1>0. TypeInv /\ \A r \in Request : Current(r)
  BY DEF SeqInv, SeenIsCurrent
\* It is enough to look at the request that takes the step.
<1>1. ASSUME NEW r \in Request, Step(r) \/ Fault(r), Current(r)'
      PROVE  SeenIsCurrent'
  <2>1. ASSUME NEW s \in Request \ {r}  PROVE Current(s)'
    <3>1. CASE pc[s] \in Calls
      <4>1. /\ pc'[s] = pc[s] /\ job'[s] = job[s]
            /\ status'[job[s].client] = status[job[s].client]
        BY <1>0, <1>1, <3>1, OthersLeftAlone
      <4> QED
        BY <1>0, <4>1, CurrentKept
    <3>2. CASE pc[s] \notin Calls
      <4>1. pc'[s] = pc[s]
        BY <1>0, <1>1, HandlerIsLocal DEF LocalStep
      <4> QED
        BY <3>2, <4>1 DEF Current, Calls
    <3> QED
      BY <3>1, <3>2
  <2> QED
    BY <1>1, <2>1 DEF SeenIsCurrent
<1>2. ASSUME NEW c \in Client, Config(c)
      PROVE  SeenIsCurrent'
  <2>1. UNCHANGED requests
    BY <1>0, <1>2, ConfigMoves
  <2>2. ASSUME NEW r \in Request, pc[r] \in {"uses", "flip"}, status[job[r].client] # "none"
        PROVE  status'[job[r].client] = status[job[r].client]
    BY <1>0, <1>2, <2>2, ConfigKeepsStatus DEF TypeInv, JobIsSet, Calls
  <2> QED
    BY <1>0, <2>1, <2>2, CurrentKept DEF SeenIsCurrent, requests
<1>3. ASSUME NEW r \in Request, NEW c \in Client, NEW t \in Target, Begin(r, c, t)
      PROVE  SeenIsCurrent'
  <2>1. pc'[r] # "uses" /\ (pc'[r] = "flip" => job'[r].to # "active")
    BY <1>0, <1>3 DEF Begin, TypeInv, TypeOK
  <2>2. \A s \in Request \ {r} : pc'[s] = pc[s] /\ job'[s] = job[s]
    BY <1>0, <1>3 DEF Begin, TypeInv, TypeOK
  <2>3. status' = status
    BY <1>3 DEF Begin, store
  <2>4. \A s \in Request \ {r} : Current(s)'
    BY <1>0, <2>2, <2>3, CurrentKept
  <2> QED
    BY <2>1, <2>4 DEF SeenIsCurrent, Current
<1>4. ASSUME NEW r \in Request, Read(r)
      PROVE  Current(r)'
  <2>1. LocalStep(r) /\ UNCHANGED store /\ job[r].client \in Client
    BY <1>0, <1>4, ReadCases DEF LocalStep, TypeInv, JobIsSet
  <2>2. CASE pc'[r] \in {"uses", "flip"}
    <3>1. job'[r].seen = status[job[r].client] /\ status[job[r].client] # "none"
      BY <1>0, <1>4, <2>2, ReadCases
         DEF TypeInv, TypeOK, Job, GateApplies, ActivePredecessors
    <3> QED
      BY <2>1, <3>1 DEF Current, LocalStep, store
  <2>3. CASE pc'[r] \notin {"uses", "flip"}
    BY <2>3 DEF Current
  <2> QED
    BY <2>2, <2>3
<1>5. ASSUME NEW r \in Request, CheckUses(r)
      PROVE  Current(r)'
  BY <1>0, <1>5, CheckUsesCases DEF Current, store
<1>6. ASSUME NEW r \in Request,
             \/ Flip(r) \/ FlipAnswerLost(r) \/ Purge(r)
             \/ PurgeAnswerLost(r) \/ CallFails(r)
      PROVE  Current(r)'
  BY <1>0, <1>6, FlipCases, PurgeCases, CallFailsCases DEF Current
<1>7. CASE Crash
  BY <1>7 DEF Crash, SeenIsCurrent, Current
<1>8. CASE UNCHANGED vars
  BY <1>0, <1>8 DEF SeenIsCurrent, Current, vars, store, requests
<1> QED
  BY <1>1, <1>2, <1>3, <1>4, <1>5, <1>6, <1>7, <1>8 DEF Next, Step, Fault

\* Only a flip makes a client active.
LEMMA ActivatedByFlip ==
    ASSUME TypeInv, [Next]_vars, NEW c \in Client,
           status'[c] = "active", status[c] # "active"
    PROVE  /\ status[c] \in ActivePredecessors
           /\ \E r \in Request : pc[r] = "flip" /\ job[r].client = c /\ job[r].to = "active"
<1>1. status[c] \in ActivePredecessors
  BY NextMoves DEF StoreMoves, LegalTransitions, ActivePredecessors
<1>2. PICK r \in Request : (Step(r) \/ Fault(r)) /\ ~UNCHANGED store
  BY <1>1, ConfigKeepsStatus DEF Next, Begin, Crash, vars, store, ActivePredecessors
<1>3. /\ TransitionClient(job[r].client, job[r].to) /\ pc[r] = "flip"
      /\ job[r].client \in Client
  BY <1>2, ReadCases, CheckUsesCases, FlipCases, PurgeCases, CallFailsCases
     DEF Step, Fault, PurgeOffboarded, LocalStep, TypeInv, TypeOK, JobIsSet
<1>4. job[r].client = c /\ job[r].to = "active"
  BY <1>3 DEF TransitionClient, TypeInv, TypeOK
<1> QED
  BY <1>1, <1>3, <1>4

LEMMA SeqInvHolds == Spec /\ []OnePerClient => []SeqInv
<1>1. Init => SeqInv
  BY InitType DEF Init, SeqInv, GateInv, GateFacts, AboutToActivate,
                  PurgedHasOwner, SeenIsCurrent, Current
<1>2. SeqInv /\ OnePerClient /\ [Next]_vars => SeqInv'
  BY NextType, GateInvNext, PurgedHasOwnerNext, SeenIsCurrentNext DEF SeqInv
<1> QED
  BY <1>1, <1>2, PTL DEF Spec

\* README.md, "-> active requires": as long as no two transitions of one client
\* are under way, however many of different clients are, and nothing replaces
\* intended uses between their check and the flip, a client that is activated
\* has a registrar identity and a non-revoked intended use.
NoneReplaced == replaced = {}

THEOREM SequentialGate == Spec /\ []OnePerClient /\ []NoneReplaced => ActivationIsGated
<1> DEFINE Says == \A c \in Client :
                      status[c] # "active" /\ status'[c] = "active" => GateOpen(c)
<1>1. SeqInv /\ NoneReplaced /\ [Next]_vars => [Says]_vars
  <2> SUFFICES ASSUME SeqInv, NoneReplaced, [Next]_vars, NEW c \in Client,
                      status[c] # "active", status'[c] = "active"
               PROVE  GateOpen(c)
    OBVIOUS
  <2>1. TypeInv
    BY DEF SeqInv
  <2>2. /\ status[c] \in ActivePredecessors
        /\ \E r \in Request : pc[r] = "flip" /\ job[r].client = c /\ job[r].to = "active"
    BY <2>1, ActivatedByFlip
  <2>3. PICK r \in Request : pc[r] = "flip" /\ job[r].client = c /\ job[r].to = "active"
    BY <2>2
  <2>4. UsableIdentity(identity[c]) /\ (r \in replaced \/ AnyNonRevoked(uses[c]))
    BY <2>2, <2>3, FlipFindsChecked
  <2> QED
    BY <2>4 DEF NoneReplaced, GateOpen
<1> QED
  BY <1>1, SeqInvHolds, PTL DEF Spec, ActivationIsGated

LEMMA GateStep ==
    ASSUME SeqInv, [Next]_vars
    PROVE  [Gate!Next]_Gate!vars
<1>1. CASE UNCHANGED store
  BY <1>1, Stutters
<1>2. ASSUME NEW c \in Client, Config(c)
      PROVE  [Gate!Next]_Gate!vars
  BY <1>2, ConfigImplements DEF SeqInv
<1>3. ASSUME NEW r \in Request, Step(r) \/ Fault(r)
      PROVE  [Gate!Next]_Gate!vars
  <2>1. job[r].client \in Client /\ job[r].to \in Status
    BY <1>3, ReadCases, CheckUsesCases, FlipCases, PurgeCases, CallFailsCases
       DEF Step, Fault, LocalStep, SeqInv, TypeInv, JobIsSet
  <2>2. CASE TransitionClient(job[r].client, job[r].to) /\ pc[r] = "flip"
    <3>1. job[r].to = "active" => UsableIdentity(identity[job[r].client])
      BY <2>2, FlipFindsChecked DEF TransitionClient, LegalTransitions, ActivePredecessors
    <3>2. Gate!Move(job[r].client, job[r].to)
      BY <2>1, <2>2, <3>1, FlipImplements DEF SeqInv
    <3> QED
      BY <2>1, <3>2, SameMatrix DEF Gate!Next
  <2>3. CASE PurgeOffboarded(job[r].client)
    BY <2>1, <2>3, PurgeImplements DEF Gate!Next, SeqInv
  <2> QED
    BY <1>1, <1>3, <2>2, <2>3, ReadCases, CheckUsesCases, FlipCases,
       PurgeCases, CallFailsCases DEF Step, Fault, SeqInv
<1>4. ASSUME NEW r \in Request, NEW c \in Client, NEW t \in Target,
             Begin(r, c, t)
      PROVE  [Gate!Next]_Gate!vars
  BY <1>1, <1>4 DEF Begin
<1>5. CASE Crash
  BY <1>1, <1>5 DEF Crash
<1> QED
  BY <1>1, <1>2, <1>3, <1>4, <1>5 DEF Next, vars

\* One request at a time for a client implements the promise in which being
\* activated takes a usable identity, whatever replaces intended uses meanwhile.
THEOREM SequentialImplementsGate == Spec /\ []OnePerClient => ImplementsGate
  BY SeqInvHolds, InitImplements, GateStep, PTL
     DEF Spec, ImplementsGate, Gate!Spec

(***************************************************************************)
(* What a request is about to answer, one request at a time.  A success    *)
(* ends a flip or a purge, and the purge is of an offboarding: OffboardInv *)
(* says so of every request.                                               *)
(***************************************************************************)
OneAtATime == \A r, s \in Request : r = s

LEMMA AnsweredNext ==
    ASSUME OneAtATime, TypeInv, OffboardInv, AnsweredStateIsCurrent, [Next]_vars
    PROVE  AnsweredStateIsCurrent'
<1>1. ASSUME NEW c \in Client, Config(c)
      PROVE  AnsweredStateIsCurrent'
  <2>1. UNCHANGED requests
    BY <1>1, ConfigMoves
  <2>2. ASSUME NEW r \in Request, pc[r] = "done", resp[r] = "ok"
        PROVE  status'[job[r].client] = job[r].to
    <3>1. job[r].client \in Client /\ job[r].to \in Status
      BY <2>2 DEF TypeInv, JobIsSet
    <3>2. status[job[r].client] = job[r].to /\ status[job[r].client] # "none"
      BY <2>2, <3>1 DEF AnsweredStateIsCurrent, Status
    <3> QED
      BY <1>1, <3>1, <3>2, ConfigKeepsStatus
  <2> QED
    BY <2>1, <2>2 DEF AnsweredStateIsCurrent, requests
<1>2. ASSUME NEW r \in Request, \/ pc'[r] # "done" \/ resp'[r] # "ok"
                                \/ status'[job'[r].client] = job'[r].to
      PROVE  AnsweredStateIsCurrent'
  BY <1>2 DEF OneAtATime, AnsweredStateIsCurrent
<1>3. ASSUME NEW r \in Request, NEW c \in Client, NEW t \in Target, Begin(r, c, t)
      PROVE  AnsweredStateIsCurrent'
  <2>1. pc'[r] # "done"
    BY <1>3 DEF Begin, TypeInv, TypeOK
  <2> QED
    BY <1>2, <2>1
<1>4. ASSUME NEW r \in Request, Read(r) \/ CheckUses(r) \/ CallFails(r)
      PROVE  AnsweredStateIsCurrent'
  <2>1. pc'[r] # "done" \/ resp'[r] # "ok"
    BY <1>4, ReadCases, CheckUsesCases, CallFailsCases
  <2> QED
    BY <1>2, <2>1
<1>5. ASSUME NEW r \in Request, Flip(r) \/ FlipAnswerLost(r)
      PROVE  AnsweredStateIsCurrent'
  <2>1. /\ job'[r].client = job[r].client /\ job'[r].to = job[r].to
        /\ job[r].client \in Client
    BY <1>5, FlipCases DEF LocalStep, TypeInv, JobIsSet
  <2>2. CASE TransitionClient(job[r].client, job[r].to)
    <3>1. status'[job[r].client] = job[r].to
      BY <2>1, <2>2 DEF TransitionClient, TypeInv, TypeOK
    <3> QED
      BY <1>2, <2>1, <3>1
  <2>3. CASE resp'[r] \in {"not_found", "conflict"}
    BY <1>2, <2>3
  <2> QED
    BY <1>5, <2>2, <2>3, FlipCases
<1>6. ASSUME NEW r \in Request, Purge(r) \/ PurgeAnswerLost(r)
      PROVE  AnsweredStateIsCurrent'
  <2>1. /\ job'[r].client = job[r].client /\ job'[r].to = job[r].to
        /\ pc[r] = "purge" /\ job[r].to = "offboarded"
    BY <1>6, PurgeCases DEF LocalStep, OffboardInv, OffboardFacts
  <2>2. PurgeOffboarded(job[r].client) \/ resp'[r] = "invalid"
    BY <1>6, PurgeCases
  <2> QED
    BY <1>2, <2>1, <2>2 DEF PurgeOffboarded
<1>7. CASE Crash
  BY <1>7 DEF Crash, AnsweredStateIsCurrent
<1>8. CASE UNCHANGED vars
  BY <1>8 DEF AnsweredStateIsCurrent, vars, store, requests
<1> QED
  BY <1>1, <1>3, <1>4, <1>5, <1>6, <1>7, <1>8 DEF Next, Step, Fault

\* With one request at a time, what the handler answers is the state of the
\* client: routes/api.go:178.
THEOREM SequentialAnswer == ASSUME OneAtATime PROVE Spec => []AnsweredStateIsCurrent
<1>1. Init => TypeInv /\ OffboardInv /\ AnsweredStateIsCurrent
  BY InitType DEF Init, NoJob, OffboardInv, OffboardFacts, AnsweredStateIsCurrent
<1>2. /\ TypeInv /\ OffboardInv /\ AnsweredStateIsCurrent /\ [Next]_vars
      => (TypeInv /\ OffboardInv /\ AnsweredStateIsCurrent)'
  BY NextType, OffboardInvNext, AnsweredNext
<1> QED
  BY <1>1, <1>2, PTL DEF Spec

(***************************************************************************)
(* With any number of requests the answer is true when it is given         *)
(* (routes/api.go:178): whatever was checked before, the state answered is *)
(* the one the client has at the step that answers.                        *)
(***************************************************************************)
TrueWhenGiven ==
    [][\A r \in Request :
          pc[r] # "done" /\ pc'[r] = "done" /\ resp'[r] = "ok" =>
              status'[job[r].client] = job[r].to]_vars

THEOREM AnswersAreTrueWhenGiven == Spec => TrueWhenGiven
<1> DEFINE Says == \A r \in Request :
                      pc[r] # "done" /\ pc'[r] = "done" /\ resp'[r] = "ok" =>
                          status'[job[r].client] = job[r].to
<1>1. TypeInv /\ OffboardInv /\ [Next]_vars => [Says]_vars
  <2> SUFFICES ASSUME TypeInv, OffboardInv, Next, NEW r \in Request,
                      pc[r] # "done", pc'[r] = "done", resp'[r] = "ok"
               PROVE  status'[job[r].client] = job[r].to
    OBVIOUS
  <2>1. Step(r) \/ Fault(r)
    <3>1. ASSUME NEW q \in Request, Step(q) \/ Fault(q)  PROVE q = r
      <4>1. LocalStep(q)
        BY <3>1, HandlerIsLocal
      <4> QED
        BY <4>1 DEF LocalStep
    <3>2. ASSUME NEW q \in Request, NEW c \in Client, NEW t \in Target, Begin(q, c, t)
          PROVE  FALSE
      BY <3>2 DEF Begin, TypeInv, TypeOK
    <3>3. ASSUME NEW c \in Client, Config(c)  PROVE FALSE
      BY <3>3, ConfigMoves DEF requests
    <3>4. ~Crash
      BY DEF Crash
    <3> QED
      BY <3>1, <3>2, <3>3, <3>4 DEF Next
  <2>2. job[r].client \in Client /\ job[r].to \in Status
    <3>1. LocalStep(r)
      BY <2>1, HandlerIsLocal
    <3> QED
      BY <3>1 DEF LocalStep, TypeInv, JobIsSet
  <2>3. CASE Flip(r) \/ FlipAnswerLost(r)
    <3>1. TransitionClient(job[r].client, job[r].to)
      BY <2>3, FlipCases
    <3> QED
      BY <2>2, <3>1 DEF TransitionClient, TypeInv, TypeOK
  <2>4. CASE Purge(r) \/ PurgeAnswerLost(r)
    <3>1. PurgeOffboarded(job[r].client) /\ pc[r] = "purge"
      BY <2>4, PurgeCases
    <3> QED
      BY <3>1 DEF PurgeOffboarded, OffboardInv, OffboardFacts
  <2>5. ~Read(r) /\ ~CheckUses(r) /\ ~CallFails(r)
    BY ReadCases, CheckUsesCases, CallFailsCases
  <2> QED
    BY <2>1, <2>3, <2>4, <2>5 DEF Step, Fault
<1> QED
  BY <1>1, OffboardInvHolds, PTL DEF Spec, TrueWhenGiven

-----------------------------------------------------------------------------
(***************************************************************************)
(* Where the gate is missed (lifecycle.go:133-160).  The handler asks for  *)
(* the gate only when the state it read may go to "active", and counts on  *)
(* the store to refuse the others; and it reads the intended uses one call *)
(* before the flip.  A client is activated with its gate closed in two     *)
(* ways only.  Either its request read a state from which "active" is out  *)
(* of reach, and was overtaken by a transition out of it; or a             *)
(* confirmation replaced the intended uses that the request had checked,   *)
(* and then it is only they that are missing.                              *)
(***************************************************************************)
MissedGate(c, r) ==
    /\ pc[r] = "flip" /\ job[r].client = c /\ job[r].to = "active"
    /\ \/ job[r].seen \notin ActivePredecessors
       \/ r \in replaced /\ UsableIdentity(identity[c])

UngatedOnlyInTwoWays ==
    [][\A c \in Client :
          status'[c] = "active" /\ status[c] # "active" /\ ~GateOpen(c) =>
              /\ status[c] \in ActivePredecessors
              /\ \E r \in Request : MissedGate(c, r)]_vars

THEOREM UngatedIsOvertakenOrReplaced == Spec => UngatedOnlyInTwoWays
<1> DEFINE Says == \A c \in Client :
          status'[c] = "active" /\ status[c] # "active" /\ ~GateOpen(c) =>
              /\ status[c] \in ActivePredecessors
              /\ \E r \in Request : MissedGate(c, r)
<1>1. Init => TypeInv /\ GateInv
  BY InitType DEF Init, GateInv, GateFacts, AboutToActivate
<1>2. TypeInv /\ GateInv /\ [Next]_vars => (TypeInv /\ GateInv)'
  BY NextType, GateInvNext
<1>3. TypeInv /\ GateInv /\ [Next]_vars => [Says]_vars
  <2> SUFFICES ASSUME TypeInv, GateInv, [Next]_vars, NEW c \in Client,
                      status'[c] = "active", status[c] # "active", ~GateOpen(c)
               PROVE  /\ status[c] \in ActivePredecessors
                      /\ \E r \in Request : MissedGate(c, r)
    OBVIOUS
  <2>1. status[c] \in ActivePredecessors
    BY ActivatedByFlip
  <2>2. PICK r \in Request : pc[r] = "flip" /\ job[r].client = c /\ job[r].to = "active"
    BY ActivatedByFlip
  <2>3. job[r].seen \in ActivePredecessors => r \in replaced /\ UsableIdentity(identity[c])
    BY <2>2 DEF GateInv, GateFacts, AboutToActivate, GateOpen
  <2> QED
    BY <2>1, <2>2, <2>3 DEF MissedGate
<1> QED
  BY <1>1, <1>2, <1>3, PTL DEF Spec, UngatedOnlyInTwoWays
=============================================================================
