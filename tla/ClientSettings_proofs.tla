----------------------- MODULE ClientSettings_proofs -----------------------
(***************************************************************************)
(* What the setters store, what the trail tells of it and what they        *)
(* answer, for any clients, values, number of requests and other writers.  *)
(***************************************************************************)
EXTENDS ClientSettings, FiniteSetTheorems, TLAPS

Value == Webhook \cup Origins \cup Identity \cup Modes \cup {"other"}
Entry == [setting : Setting, value : Value]

\* What a handler lets through to the store.
Accepted(s, v) ==
    /\ s \in Setting /\ v \in Value
    /\ s = "webhook"  => v \in Webhook
    /\ s = "origins"  => v \in Origins /\ v # Absent /\ AreWebOrigins(v)
    /\ s = "identity" => v \in Identity /\ AcceptableIdentity(v)
    /\ s = "mode"     => v \in Modes

\* A request waiting for its write holds a value its handler let through; one
\* waiting for its read-back has written it.
Waiting(r) ==
    /\ job[r].client \in Client
    /\ Accepted(job[r].setting, job[r].value)

JobShape(j) ==
    DOMAIN j = {"client", "setting", "value", "told", "wrote", "saw"}

TypeInv ==
    /\ webhook \in [Client -> Webhook \cup {NoAddress}]
    /\ origins \in [Client -> (Origins \ {Absent}) \cup {<<>>}]
    /\ identity \in [Client -> Identity \cup {NoIdentity}]
    /\ policy = [c \in Client |-> policy[c]]
    /\ trail \in [Client -> Seq(Entry)]
    /\ pc \in [Request -> {"idle", "write", "readback", "done"}]
    /\ resp \in [Request -> {"none", "ok", "invalid", "not_found", "error", "unavailable"}]
    /\ job = [r \in Request |-> job[r]]
    /\ \A r \in Request : JobShape(job[r])
    /\ \A r \in Request : pc[r] = "write" => Waiting(r)

-----------------------------------------------------------------------------
\* No job at all.
LEMMA EmptyJob == JobShape(NoJob)
BY DEF NoJob, JobShape

LEMMA Initially == Init => TypeInv
BY EmptyJob DEF Init, TypeInv

-----------------------------------------------------------------------------
(***************************************************************************)
(* What a step writes.                                                     *)
(***************************************************************************)

\* A setter takes effect, with a value handler and store let through,
Writes(c, s, v) ==
    /\ Accepted(s, v) /\ Valid(s, v)
    /\ s = "mode" => policy[c] # Unreadable
    /\ Set(c, s, v)
    /\ UNCHANGED outside

\* that of the request r.
Sets(r) ==
    LET j == job[r]
    IN  j.client \in Client /\ Writes(j.client, j.setting, j.value)

\* Another program, or an accident, gets at a policy document.
Meddles ==
    /\ \E c \in Client : Damage(c) \/ \E p \in OtherChoices : WriteOtherChoices(c, p)
    /\ UNCHANGED <<webhook, origins, identity, trail, requests>>

\* Every step writes one setting, meddles, or leaves the settings alone.
LEMMA StepsWrite ==
    TypeInv /\ [Next]_vars =>
        \/ UNCHANGED <<settings, trail, outside>>
        \/ Meddles
        \/ \E c \in Client, s \in Setting, v \in Value : Writes(c, s, v)
<1> DEFINE Goal == \/ UNCHANGED <<settings, trail, outside>>
                   \/ Meddles
                   \/ \E c \in Client, s \in Setting, v \in Value : Writes(c, s, v)
<1> SUFFICES ASSUME TypeInv, [Next]_vars PROVE Goal
  OBVIOUS
<1>1. ASSUME NEW r \in Request, Commits(r), UNCHANGED outside PROVE Goal
  <2>1. Waiting(r) /\ pc[r] = "write"
    BY <1>1 DEF TypeInv, Commits
  <2>2. /\ Valid(job[r].setting, job[r].value)
        /\ job[r].setting = "mode" => policy[job[r].client] # Unreadable
    BY <1>1 DEF Commits, StoreAnswer
  <2>3. job[r].client \in Client /\ Writes(job[r].client, job[r].setting, job[r].value)
    BY <1>1, <2>1, <2>2 DEF Writes, Waiting, Commits
  <2> QED
    BY <2>1, <2>3 DEF Waiting, Accepted
<1>2. ASSUME NEW r \in Request, Write(r) \/ AnswerLost(r) PROVE Goal
  BY <1>1, <1>2 DEF Write, AnswerLost
<1>3. ASSUME NEW r \in Request, WriteRefused(r) \/ ReadBack(r) \/ CallFails(r) PROVE Goal
  BY <1>3 DEF WriteRefused, ReadBack, CallFails, store
<1>4. ASSUME NEW r \in Request, NEW c \in Client, NEW s, NEW v, NEW a, Arrives(r, c, s, v, a)
      PROVE  Goal
  BY <1>4 DEF Arrives, store
<1>5. ASSUME NEW r \in Request, NEW c \in Client,
             \/ \E url \in Webhook : PutWebhook(r, c, url)
             \/ \E list \in Origins : PutAllowedOrigins(r, c, list)
             \/ \E mode \in Modes \cup {"other"} : PutDCAPIRequestMode(r, c, mode)
             \/ \E ident \in Identity : PutRegistrarIdentity(r, c, ident)
      PROVE  Goal
  BY <1>4, <1>5 DEF PutWebhook, PutAllowedOrigins, PutDCAPIRequestMode, PutRegistrarIdentity
<1>6. ASSUME NEW c \in Client, CreateDraftClient(c) PROVE Goal
  BY <1>6 DEF CreateDraftClient
<1>7. ASSUME NEW c \in Client, Damage(c) \/ \E p \in OtherChoices : WriteOtherChoices(c, p)
      PROVE  Goal
  BY <1>7 DEF Meddles, Damage, WriteOtherChoices
<1>8. ASSUME Crash \/ UNCHANGED vars PROVE Goal
  BY <1>8 DEF Crash, vars, store
<1> QED
  BY <1>2, <1>3, <1>5, <1>6, <1>7, <1>8 DEF Next

-----------------------------------------------------------------------------
(***************************************************************************)
(* The types.                                                              *)
(***************************************************************************)

StoreTypes ==
    /\ webhook \in [Client -> Webhook \cup {NoAddress}]
    /\ origins \in [Client -> (Origins \ {Absent}) \cup {<<>>}]
    /\ identity \in [Client -> Identity \cup {NoIdentity}]
    /\ policy = [c \in Client |-> policy[c]]
    /\ trail \in [Client -> Seq(Entry)]

\* What is stored stays typed, because only accepted values are written.
LEMMA StoreStep == TypeInv /\ [Next]_vars => StoreTypes'
<1> SUFFICES ASSUME TypeInv, [Next]_vars PROVE StoreTypes'
  OBVIOUS
<1>0. StoreTypes
  BY DEF TypeInv, StoreTypes
<1>1. CASE UNCHANGED <<settings, trail, outside>>
  BY <1>0, <1>1 DEF StoreTypes, settings
<1>2. CASE Meddles
  BY <1>0, <1>2 DEF StoreTypes, Meddles, Damage, WriteOtherChoices
<1>3. ASSUME NEW c \in Client, NEW s \in Setting, NEW v \in Value, Writes(c, s, v)
      PROVE  StoreTypes'
  <2>1. Accepted(s, v) /\ Set(c, s, v)
    BY <1>3 DEF Writes
  <2>2. [setting |-> s, value |-> v] \in Entry
    BY <2>1 DEF Accepted, Entry
  <2>3. ASSUME Audit(c, s, v) PROVE trail' \in [Client -> Seq(Entry)]
    BY <1>0, <2>1, <2>2, <2>3 DEF Audit, StoreTypes
  <2>4. CASE s = "webhook" /\ SetClientWebhook(c, v)
    BY <1>0, <2>1, <2>3, <2>4 DEF SetClientWebhook, StoreTypes, Accepted
  <2>5. CASE s = "origins" /\ SetClientAllowedOrigins(c, v)
    BY <1>0, <2>1, <2>3, <2>5 DEF SetClientAllowedOrigins, StoreTypes, Accepted
  <2>6. CASE s = "identity" /\ SetClientRegistrarIdentity(c, v)
    BY <1>0, <2>1, <2>3, <2>6 DEF SetClientRegistrarIdentity, StoreTypes, Accepted
  <2>7. CASE s = "mode" /\ SetClientDCAPIMode(c, v)
    BY <1>0, <2>1, <2>3, <2>7 DEF SetClientDCAPIMode, StoreTypes, Accepted
  <2> QED
    BY <2>1, <2>4, <2>5, <2>6, <2>7 DEF Set
<1> QED
  BY <1>1, <1>2, <1>3, StepsWrite

\* What a step does to a request: nothing,
Stays(r) == pc'[r] = pc[r] /\ resp'[r] = resp[r] /\ job'[r] = job[r]

\* its write, after which it is the identity's turn to be answered, or it reads
\* back, or its answer is lost,
Wrote(r) ==
    /\ Sets(r)
    /\ LET j == job[r] n == job'[r]
       IN  /\ n.client = j.client /\ n.setting = j.setting /\ n.value = j.value
           /\ n.wrote = Len(trail[j.client]) + 1
           /\ \/ pc'[r] = "readback" /\ j.setting # "identity"
              \/ pc'[r] = "done" /\ j.setting = "identity"
              \/ pc'[r] = "done" /\ resp'[r] = "unavailable"

\* its read-back,
Reads(r) ==
    /\ pc[r] = "readback" /\ pc'[r] = "done"
    /\ LET j == job[r] n == job'[r]
       IN  /\ n.client = j.client /\ n.setting = j.setting /\ n.value = j.value
           /\ n.wrote = j.wrote
           /\ n.told = Stored(j.client, j.setting) /\ n.saw = Len(trail[j.client])
    /\ UNCHANGED <<settings, trail, outside>>

\* or an arrival, a refusal, a failure or the end of the process.
Turns(r) ==
    \/ pc'[r] = "idle"
    \/ pc'[r] = "done" /\ resp'[r] # "ok"
    \/ pc'[r] = "write" /\ Waiting(r)'

RequestTypes ==
    /\ pc \in [Request -> {"idle", "write", "readback", "done"}]
    /\ resp \in [Request -> {"none", "ok", "invalid", "not_found", "error", "unavailable"}]
    /\ job = [r \in Request |-> job[r]]
    /\ \A r \in Request : JobShape(job[r])

\* An arrival is typed, and waits only with an accepted value.
LEMMA ArrivalStep ==
    ASSUME TypeInv, NEW r \in Request, NEW c \in Client, NEW s, NEW v, NEW a \in BOOLEAN,
           a => Accepted(s, v), Arrives(r, c, s, v, a)
    PROVE  RequestTypes' /\ Turns(r) /\ \A q \in Request \ {r} : Stays(q)
<1> DEFINE new == [NoJob EXCEPT !.client = c, !.setting = s, !.value = v]
<1>0. RequestTypes
  BY DEF TypeInv, RequestTypes
<1>1. JobShape(new) /\ new.client = c /\ new.setting = s /\ new.value = v
  BY DEF NoJob, JobShape
<1>2. JobShape(NoJob)
  BY EmptyJob
<1>3. CASE a /\ job' = [job EXCEPT ![r] = new] /\ pc' = [pc EXCEPT ![r] = "write"]
            /\ resp' = [resp EXCEPT ![r] = "none"]
  <2> HIDE DEF new
  <2>1. RequestTypes' /\ \A q \in Request \ {r} : Stays(q)
    BY <1>0, <1>1, <1>3 DEF RequestTypes, Stays
  <2>2. Waiting(r)'
    BY <1>0, <1>1, <1>3 DEF RequestTypes, Waiting
  <2> QED
    BY <1>0, <1>3, <2>1, <2>2 DEF RequestTypes, Turns
<1>4. CASE ~a /\ job' = [job EXCEPT ![r] = NoJob] /\ Answers(r, "invalid")
  BY <1>0, <1>2, <1>4 DEF RequestTypes, Answers, Turns, Stays
<1> QED
  BY <1>3, <1>4 DEF Arrives

\* A write is noted in the job of its request.
LEMMA CommitStep ==
    ASSUME TypeInv, NEW r \in Request, Commits(r), UNCHANGED outside
    PROVE  /\ Sets(r) /\ job' = [q \in Request |-> job'[q]] /\ JobShape(job'[r])
           /\ job'[r].client = job[r].client /\ job'[r].setting = job[r].setting
           /\ job'[r].value = job[r].value
           /\ job'[r].wrote = Len(trail[job[r].client]) + 1
           /\ \A q \in Request \ {r} : job'[q] = job[q]
<1> DEFINE n == Len(trail[job[r].client]) + 1
<1>0. job = [q \in Request |-> job[q]] /\ JobShape(job[r])
  BY DEF TypeInv
<1>1. job' = [job EXCEPT ![r] = [job[r] EXCEPT !.wrote = n]]
  BY DEF Commits
<1>2. /\ job' = [q \in Request |-> job'[q]] /\ job'[r] = [job[r] EXCEPT !.wrote = n]
      /\ \A q \in Request \ {r} : job'[q] = job[q]
  <2> HIDE DEF n
  <2> QED
    BY <1>0, <1>1
<1>3. Waiting(r) /\ pc[r] = "write"
  BY DEF TypeInv, Commits
<1>4. /\ Valid(job[r].setting, job[r].value)
      /\ job[r].setting = "mode" => policy[job[r].client] # Unreadable
  BY DEF Commits, StoreAnswer
<1>5. Sets(r)
  BY <1>3, <1>4 DEF Sets, Writes, Waiting, Commits
<1> HIDE DEF n
<1>6. /\ JobShape(job'[r]) /\ job'[r].wrote = n
      /\ job'[r].client = job[r].client /\ job'[r].setting = job[r].setting
      /\ job'[r].value = job[r].value
  BY <1>0, <1>2 DEF JobShape
<1> QED
  BY <1>2, <1>5, <1>6 DEF n

\* Every step does one of these to every request, and keeps them typed.
LEMMA RequestsStep ==
    TypeInv /\ [Next]_vars =>
        /\ RequestTypes'
        /\ \A r \in Request : Stays(r) \/ Wrote(r) \/ Reads(r) \/ Turns(r)
<1> DEFINE Goal == /\ RequestTypes'
                   /\ \A r \in Request : Stays(r) \/ Wrote(r) \/ Reads(r) \/ Turns(r)
<1> SUFFICES ASSUME TypeInv, [Next]_vars PROVE Goal
  OBVIOUS
<1>0. RequestTypes
  BY DEF TypeInv, RequestTypes
<1>1. ASSUME NEW r \in Request, NEW c \in Client,
             \/ \E url \in Webhook : PutWebhook(r, c, url)
             \/ \E list \in Origins : PutAllowedOrigins(r, c, list)
             \/ \E mode \in Modes \cup {"other"} : PutDCAPIRequestMode(r, c, mode)
             \/ \E ident \in Identity : PutRegistrarIdentity(r, c, ident)
      PROVE  Goal
  <2>1. ASSUME NEW url \in Webhook, PutWebhook(r, c, url) PROVE Goal
    <3>1. Accepted("webhook", url)
      BY DEF Accepted, Setting, Value
    <3> QED
      BY <2>1, <3>1, ArrivalStep DEF PutWebhook
  <2>2. ASSUME NEW list \in Origins, PutAllowedOrigins(r, c, list) PROVE Goal
    <3> DEFINE a == list # Absent /\ AreWebOrigins(list)
    <3>1. a => Accepted("origins", list)
      BY DEF Accepted, Setting, Value
    <3>2. Arrives(r, c, "origins", list, a)
      BY <2>2 DEF PutAllowedOrigins
    <3>3. a \in BOOLEAN
      OBVIOUS
    <3> HIDE DEF a
    <3> QED
      BY <3>1, <3>2, <3>3, ArrivalStep
  <2>3. ASSUME NEW mode \in Modes \cup {"other"}, PutDCAPIRequestMode(r, c, mode) PROVE Goal
    <3> DEFINE a == mode \in Modes
    <3>1. a => Accepted("mode", mode)
      BY DEF Accepted, Setting, Value
    <3>2. Arrives(r, c, "mode", mode, a)
      BY <2>3 DEF PutDCAPIRequestMode
    <3>3. a \in BOOLEAN
      OBVIOUS
    <3> HIDE DEF a
    <3> QED
      BY <3>1, <3>2, <3>3, ArrivalStep
  <2>4. ASSUME NEW ident \in Identity, PutRegistrarIdentity(r, c, ident) PROVE Goal
    <3>1. AcceptableIdentity(ident) => Accepted("identity", ident)
      BY DEF Accepted, Setting, Value
    <3>2. AcceptableIdentity(ident) \in BOOLEAN
      BY DEF AcceptableIdentity
    <3> QED
      BY <2>4, <3>1, <3>2, ArrivalStep DEF PutRegistrarIdentity
  <2> QED
    BY <1>1, <2>1, <2>2, <2>3, <2>4
<1>2. ASSUME NEW r \in Request, Write(r) PROVE Goal
  <2>1. Commits(r) /\ UNCHANGED outside
    BY <1>2 DEF Write
  <2>2. CASE job[r].setting = "identity" /\ Answers(r, "ok")
    BY <1>0, <2>1, <2>2, CommitStep DEF RequestTypes, Answers, Stays, Wrote
  <2>3. CASE job[r].setting # "identity" /\ Goto(r, "readback")
    BY <1>0, <2>1, <2>3, CommitStep DEF RequestTypes, Goto, Stays, Wrote
  <2> QED
    BY <1>2, <2>2, <2>3 DEF Write
<1>3. ASSUME NEW r \in Request, AnswerLost(r) PROVE Goal
  <2>1. Commits(r) /\ UNCHANGED outside /\ Answers(r, "unavailable")
    BY <1>3 DEF AnswerLost
  <2> QED
    BY <1>0, <2>1, CommitStep DEF RequestTypes, Answers, Stays, Wrote
<1>4. ASSUME NEW r \in Request, ReadBack(r) PROVE Goal
  <2> DEFINE new == [job[r] EXCEPT !.told = Told(job[r]), !.saw = Len(trail[job[r].client])]
  <2>1. /\ JobShape(new) /\ new.told = Told(job[r]) /\ new.saw = Len(trail[job[r].client])
        /\ new.client = job[r].client /\ new.setting = job[r].setting
        /\ new.value = job[r].value /\ new.wrote = job[r].wrote
    BY <1>0 DEF RequestTypes, JobShape
  <2>2. job' = [job EXCEPT ![r] = new]
    BY <1>4 DEF ReadBack
  <2> HIDE DEF new
  <2>3. job'[r] = new /\ RequestTypes' /\ \A q \in Request \ {r} : Stays(q)
    BY <1>0, <1>4, <2>1, <2>2 DEF ReadBack, RequestTypes, Answers, Stays
  <2>4. Reads(r)
    BY <1>0, <1>4, <2>1, <2>3 DEF ReadBack, RequestTypes, Answers, Reads, Told, store
  <2> QED
    BY <2>3, <2>4
<1>5. ASSUME NEW r \in Request, WriteRefused(r) \/ CallFails(r) PROVE Goal
  <2>1. PICK a \in {"invalid", "not_found", "error", "unavailable"} :
          Answers(r, a) /\ job' = job
    BY <1>5 DEF WriteRefused, StoreAnswer, CallFails
  <2> QED
    BY <1>0, <2>1 DEF RequestTypes, Answers, Stays, Turns
<1>6. ASSUME UNCHANGED requests PROVE Goal
  BY <1>0, <1>6 DEF requests, RequestTypes, Stays
<1>7. ASSUME NEW c \in Client,
             \/ CreateDraftClient(c) \/ Damage(c)
             \/ \E p \in OtherChoices : WriteOtherChoices(c, p)
      PROVE  Goal
  BY <1>6, <1>7 DEF CreateDraftClient, Damage, WriteOtherChoices
<1>8. ASSUME Crash PROVE Goal
  BY <1>8, EmptyJob DEF Crash, RequestTypes, Turns
<1> QED
  BY <1>1, <1>2, <1>3, <1>4, <1>5, <1>6, <1>7, <1>8 DEF Next, vars

\* Every step keeps the types.
LEMMA TypeStep == TypeInv /\ [Next]_vars => TypeInv'
<1> SUFFICES ASSUME TypeInv, [Next]_vars PROVE TypeInv'
  OBVIOUS
<1>1. StoreTypes' /\ RequestTypes'
  BY StoreStep, RequestsStep
<1>2. ASSUME NEW r \in Request, pc'[r] = "write" PROVE Waiting(r)'
  <2>1. CASE Stays(r)
    BY <1>2, <2>1 DEF Stays, TypeInv, Waiting
  <2>2. CASE Turns(r)
    BY <1>2, <2>2 DEF Turns
  <2> QED
    BY <1>2, <2>1, <2>2, RequestsStep DEF Wrote, Reads
<1> QED
  BY <1>1, <1>2 DEF TypeInv, StoreTypes, RequestTypes

-----------------------------------------------------------------------------
(***************************************************************************)
(* What is stored is well formed.                                          *)
(***************************************************************************)

\* A setter that takes effect keeps the store well formed.
LEMMA WellFormedStep ==
    TypeInv /\ StoredIsWellFormed /\ [Next]_vars => StoredIsWellFormed'
<1> SUFFICES ASSUME TypeInv, StoredIsWellFormed, [Next]_vars PROVE StoredIsWellFormed'
  OBVIOUS
<1>0. StoreTypes
  BY DEF TypeInv, StoreTypes
<1>1. CASE UNCHANGED <<webhook, origins, identity>>
  BY <1>1 DEF StoredIsWellFormed
<1>2. ASSUME NEW c \in Client, NEW s \in Setting, NEW v \in Value, Writes(c, s, v)
      PROVE  StoredIsWellFormed'
  <2>1. Accepted(s, v) /\ Valid(s, v) /\ Set(c, s, v)
    BY <1>2 DEF Writes
  <2>2. CASE s = "webhook" /\ SetClientWebhook(c, v)
    <3>1. IsHTTPSWebhook(v)
      BY <2>1, <2>2 DEF Valid, WebhookPattern, IsHTTPSWebhook
    <3> QED
      BY <1>0, <2>2, <3>1 DEF SetClientWebhook, StoreTypes, StoredIsWellFormed
  <2>3. CASE s = "origins" /\ SetClientAllowedOrigins(c, v)
    <3>1. v \in Seq(Address) /\ Len(v) <= MaxOrigins
      BY <2>1, <2>3, ValuesAssumption DEF Accepted, Valid
    <3>2. ASSUME NEW i \in DOMAIN v PROVE IsBareOrigin(v[i])
      <4>1. i \in 1..Len(v)
        BY <3>1, <3>2
      <4>2. IsWebOrigin(v[i]) /\ WebOriginPattern(v[i])
        BY <2>1, <2>3, <4>1 DEF Accepted, AreWebOrigins, Valid
      <4> QED
        BY <4>2 DEF IsWebOrigin, WebOriginPattern, Parses, IsBareOrigin
    <3>3. AreBareOrigins(v)
      BY <3>1, <3>2 DEF AreBareOrigins
    <3> QED
      BY <1>0, <2>3, <3>3 DEF SetClientAllowedOrigins, StoreTypes, StoredIsWellFormed
  <2>4. CASE s = "identity" /\ SetClientRegistrarIdentity(c, v)
    <3>1. IsCompleteIdentity(v)
      BY <2>1, <2>4 DEF Accepted, AcceptableIdentity, IsCompleteIdentity
    <3> QED
      BY <1>0, <2>4, <3>1 DEF SetClientRegistrarIdentity, StoreTypes, StoredIsWellFormed
  <2>5. CASE s = "mode" /\ SetClientDCAPIMode(c, v)
    BY <1>1, <2>5 DEF SetClientDCAPIMode
  <2> QED
    BY <2>1, <2>2, <2>3, <2>4, <2>5 DEF Set
<1> QED
  BY <1>1, <1>2, StepsWrite DEF settings, Meddles

\* A new client has none of the settings.
LEMMA WellFormedInit == Init => StoredIsWellFormed
<1>1. IsHTTPSWebhook(NoAddress) /\ AreBareOrigins(<<>>) /\ IsCompleteIdentity(NoIdentity)
  BY DEF IsHTTPSWebhook, AreBareOrigins, IsCompleteIdentity, MaxOrigins
<1> QED
  BY <1>1 DEF Init, StoredIsWellFormed

-----------------------------------------------------------------------------
(***************************************************************************)
(* What a trail says of a setting, after its first n entries: nothing, or  *)
(* the value of the latest of them.                                        *)
(***************************************************************************)
Silent(t, s, n) == \A i \in 1..n : t[i].setting # s

Latest(t, s, n, v) ==
    \E i \in 1..n : /\ t[i].setting = s /\ t[i].value = v
                    /\ \A j \in 1..n : t[j].setting = s => j <= i

Says(t, s, n, v) == (Silent(t, s, n) /\ v = Initial[s]) \/ Latest(t, s, n, v)

\* What an entry for setting s with value v makes of trail t is trail u.
GrowsTo(t, s, v, u) ==
    /\ u \in Seq(Entry) /\ Len(t) \in Nat /\ Len(u) = Len(t) + 1
    /\ \A i \in 1..Len(t) : u[i] = t[i]
    /\ Latest(u, s, Len(u), v)
    /\ \A z \in Setting : z # s /\ Silent(t, z, Len(t)) => Silent(u, z, Len(u))
    /\ \A z \in Setting : \A w : z # s /\ Latest(t, z, Len(t), w) => Latest(u, z, Len(u), w)
    /\ \A z, w : \A n \in 0..Len(t) : Says(t, z, n, w) => Says(u, z, n, w)

\* An entry says what it writes, says nothing of other settings, and changes
\* nothing that was said before.
LEMMA Appended ==
    ASSUME NEW t \in Seq(Entry), NEW s \in Setting, NEW v \in Value, NEW u,
           u = Append(t, [setting |-> s, value |-> v])
    PROVE  GrowsTo(t, s, v, u)
<1> DEFINE e == [setting |-> s, value |-> v]
<1>1. e \in Entry /\ e.setting = s /\ e.value = v
  BY DEF Entry
<1> HIDE DEF e
<1>2. /\ u \in Seq(Entry) /\ Len(t) \in Nat /\ Len(u) = Len(t) + 1
      /\ \A i \in 1..Len(t) : u[i] = t[i]
      /\ u[Len(t) + 1] = e
  BY <1>1 DEF e
<1>3. Latest(u, s, Len(u), v)
  BY <1>1, <1>2 DEF Latest
<1>4. ASSUME NEW z \in Setting, z # s, Silent(t, z, Len(t)) PROVE Silent(u, z, Len(u))
  <2>1. \A i \in 1..Len(u) : i \in 1..Len(t) \/ i = Len(t) + 1
    BY <1>2
  <2> QED
    BY <1>1, <1>2, <1>4, <2>1 DEF Silent
<1>5. ASSUME NEW z \in Setting, NEW w, z # s, Latest(t, z, Len(t), w)
      PROVE  Latest(u, z, Len(u), w)
  <2>1. \A i \in 1..Len(u) : i \in 1..Len(t) \/ i = Len(t) + 1
    BY <1>2
  <2>2. PICK i \in 1..Len(t) :
          /\ t[i].setting = z /\ t[i].value = w
          /\ \A j \in 1..Len(t) : t[j].setting = z => j <= i
    BY <1>5 DEF Latest
  <2>3. i \in 1..Len(u)
    BY <1>2, <2>2
  <2> QED
    BY <1>1, <1>2, <1>5, <2>1, <2>2, <2>3 DEF Latest
<1>6. ASSUME NEW z, NEW w, NEW n \in 0..Len(t), Says(t, z, n, w) PROVE Says(u, z, n, w)
  <2>1. \A i \in 1..n : i \in 1..Len(t)
    BY <1>2
  <2>2. \A i \in 1..n : u[i] = t[i]
    BY <1>2, <2>1
  <2>3. CASE Silent(t, z, n) /\ w = Initial[z]
    BY <2>2, <2>3 DEF Silent, Says
  <2>4. CASE Latest(t, z, n, w)
    BY <2>2, <2>4 DEF Latest, Says
  <2> QED
    BY <1>6, <2>3, <2>4 DEF Says
<1>7. \A z \in Setting : z # s /\ Silent(t, z, Len(t)) => Silent(u, z, Len(u))
  BY <1>4, Zenon
<1>8. \A z \in Setting : \A w : z # s /\ Latest(t, z, Len(t), w) => Latest(u, z, Len(u), w)
  BY <1>5, Zenon
<1>9. \A z, w : \A n \in 0..Len(t) : Says(t, z, n, w) => Says(u, z, n, w)
  BY <1>6, Zenon
<1> QED
  BY <1>2, <1>3, <1>7, <1>8, <1>9, Zenon DEF GrowsTo

\* Replaying the trail finds what it says.
LEMMA ReplayedIsSaid ==
    ASSUME NEW c \in Client, NEW s, NEW n \in Nat, NEW v, Says(trail[c], s, n, v)
    PROVE  /\ Replayed(c, s, n) = v
           /\ NewestAt(c, s, n) = 0 <=> Silent(trail[c], s, n)
<1> DEFINE at == {i \in 1..n : trail[c][i].setting = s}
<1>1. CASE Silent(trail[c], s, n) /\ v = Initial[s]
  <2>1. at = {}
    BY <1>1 DEF Silent
  <2> QED
    BY <1>1, <2>1 DEF NewestAt, Replayed
<1>2. CASE Latest(trail[c], s, n, v)
  <2>1. PICK i \in at : trail[c][i].value = v /\ \A j \in at : j <= i
    BY <1>2 DEF Latest
  <2>2. \A k \in at : (\A j \in at : j <= k) => k = i
    BY <2>1
  <2>3. NewestAt(c, s, n) = CHOOSE k \in at : \A j \in at : j <= k
    BY <2>1 DEF NewestAt
  <2>4. NewestAt(c, s, n) = i
    BY <2>1, <2>2, <2>3
  <2>5. i # 0 /\ ~Silent(trail[c], s, n)
    BY <2>1 DEF Silent
  <2> QED
    BY <2>1, <2>4, <2>5 DEF Replayed
<1> QED
  BY <1>1, <1>2 DEF Says

-----------------------------------------------------------------------------
(***************************************************************************)
(* The policy document: the other programs' choices with a decision beside *)
(* them, without one, or unreadable.                                       *)
(***************************************************************************)
Decided(p, b) == [k \in DOMAIN p \cup {Flag} |-> IF k = Flag THEN b ELSE p[k]]

DocumentInv ==
    \A c \in Client :
        /\ others[c] \in OtherChoices
        /\ \/ policy[c] = Unreadable /\ c \in damaged
           \/ /\ policy[c] = others[c]
              /\ c \in damaged \/ Silent(trail[c], "mode", Len(trail[c]))
           \/ /\ policy[c] = Decided(others[c], TRUE)
              /\ Latest(trail[c], "mode", Len(trail[c]), "signed")
           \/ /\ policy[c] = Decided(others[c], FALSE)
              /\ Latest(trail[c], "mode", Len(trail[c]), "unsigned")

\* The other settings are what the trail says.
SettingsInv ==
    \A c \in Client, s \in Setting \ {"mode"} :
        Says(trail[c], s, Len(trail[c]), Stored(c, s))

OutsideTypes == others = [c \in Client |-> others[c]]

\* A decided document reads as it was decided, and keeps the choices.
LEMMA DecidedReads ==
    ASSUME NEW p \in OtherChoices
    PROVE  /\ StoredDCAPIMode(p) = "signed" /\ StoredDCAPIMode(Unreadable) = "signed"
           /\ StoredDCAPIMode(Decided(p, TRUE)) = "signed"
           /\ StoredDCAPIMode(Decided(p, FALSE)) = "unsigned"
           /\ p # Unreadable /\ Decided(p, TRUE) # Unreadable
           /\ Decided(p, FALSE) # Unreadable
<1>1. p # Unreadable /\ Flag \notin DOMAIN p
  BY PolicyAssumption
<1>2. Decided(p, TRUE) # Unreadable /\ Decided(p, FALSE) # Unreadable
  BY PolicyAssumption DEF Decided
<1>3. Decided(p, TRUE)[Flag] = TRUE /\ Decided(p, FALSE)[Flag] = FALSE
  BY DEF Decided
<1>4. Flag \in DOMAIN Decided(p, TRUE) /\ Flag \in DOMAIN Decided(p, FALSE)
  BY DEF Decided
<1> QED
  BY <1>1, <1>2, <1>3, <1>4 DEF StoredDCAPIMode

\* Merging a mode decides it, and leaves the choices alone.
LEMMA MergeDecides ==
    ASSUME NEW p \in OtherChoices, NEW d,
           d = p \/ d = Decided(p, TRUE) \/ d = Decided(p, FALSE)
    PROVE  /\ Merged(d, "signed") = Decided(p, TRUE)
           /\ Merged(d, "unsigned") = Decided(p, FALSE)
<1>1. Flag \notin DOMAIN p
  BY PolicyAssumption
<1>2. DOMAIN d \cup {Flag} = DOMAIN p \cup {Flag}
  BY DEF Decided
<1>3. \A k \in DOMAIN p : d[k] = p[k]
  BY <1>1 DEF Decided
<1> QED
  BY <1>1, <1>2, <1>3 DEF Merged, Decided

\* What other programs leave of a document is their choices, and its decision.
Rewritten(d, p) ==
    [k \in DOMAIN p \cup (IF d = Unreadable THEN {} ELSE DOMAIN d \cap {Flag}) |->
        IF k \in DOMAIN p THEN p[k] ELSE d[k]]

LEMMA RewriteKeeps ==
    ASSUME NEW p \in OtherChoices, NEW q \in OtherChoices
    PROVE  /\ Rewritten(Unreadable, q) = q /\ Rewritten(p, q) = q
           /\ Rewritten(Decided(p, TRUE), q) = Decided(q, TRUE)
           /\ Rewritten(Decided(p, FALSE), q) = Decided(q, FALSE)
<1>1. /\ Flag \notin DOMAIN p /\ Flag \notin DOMAIN q
      /\ p # Unreadable /\ q = [k \in DOMAIN q |-> q[k]]
  BY PolicyAssumption
<1>2. Rewritten(Unreadable, q) = q /\ Rewritten(p, q) = q
  BY <1>1 DEF Rewritten
<1>3. ASSUME NEW b \in BOOLEAN PROVE Rewritten(Decided(p, b), q) = Decided(q, b)
  <2>1. Decided(p, b) # Unreadable
    BY PolicyAssumption DEF Decided
  <2>2. DOMAIN Decided(p, b) \cap {Flag} = {Flag} /\ Decided(p, b)[Flag] = b
    BY DEF Decided
  <2> QED
    BY <1>1, <2>1, <2>2 DEF Rewritten, Decided
<1> QED
  BY <1>2, <1>3

\* The trail of the client that is written gains the entry, and no other does.
LEMMA TrailGrows ==
    ASSUME TypeInv, NEW c \in Client, NEW s \in Setting, NEW v \in Value, Writes(c, s, v)
    PROVE  /\ trail[c] \in Seq(Entry)
           /\ trail'[c] = Append(trail[c], [setting |-> s, value |-> v])
           /\ \A d \in Client \ {c} : trail'[d] = trail[d]
           /\ Latest(trail'[c], s, Len(trail'[c]), v)
           /\ \A z \in Setting : z # s /\ Silent(trail[c], z, Len(trail[c]))
                => Silent(trail'[c], z, Len(trail'[c]))
           /\ \A z \in Setting : \A w : z # s /\ Latest(trail[c], z, Len(trail[c]), w)
                => Latest(trail'[c], z, Len(trail'[c]), w)
           /\ trail'[c] \in Seq(Entry) /\ Len(trail'[c]) = Len(trail[c]) + 1
           /\ \A i \in 1..Len(trail[c]) : trail'[c][i] = trail[c][i]
           /\ \A z, w : \A n \in 0..Len(trail[c]) :
                 Says(trail[c], z, n, w) => Says(trail'[c], z, n, w)
<1>1. trail \in [Client -> Seq(Entry)]
  BY DEF TypeInv
<1>2. Audit(c, s, v)
  BY DEF Writes, Set, SetClientWebhook, SetClientAllowedOrigins,
         SetClientRegistrarIdentity, SetClientDCAPIMode
<1>3. /\ trail[c] \in Seq(Entry)
      /\ trail'[c] = Append(trail[c], [setting |-> s, value |-> v])
      /\ \A d \in Client \ {c} : trail'[d] = trail[d]
  BY <1>1, <1>2 DEF Audit
<1>4. GrowsTo(trail[c], s, v, trail'[c])
  BY <1>3, Appended
<1> QED
  BY <1>3, <1>4 DEF GrowsTo

\* Every step keeps the documents.
LEMMA DocumentStep ==
    TypeInv /\ DocumentInv /\ OutsideTypes /\ [Next]_vars => DocumentInv' /\ OutsideTypes'
<1> SUFFICES ASSUME TypeInv, DocumentInv, OutsideTypes, [Next]_vars
             PROVE  DocumentInv' /\ OutsideTypes'
  OBVIOUS
<1>0. policy = [c \in Client |-> policy[c]] /\ trail \in [Client -> Seq(Entry)]
  BY DEF TypeInv
<1>1. CASE UNCHANGED <<settings, trail, outside>>
  BY <1>1 DEF settings, outside, DocumentInv, OutsideTypes
<1>2. ASSUME NEW c \in Client, Damage(c), trail' = trail PROVE DocumentInv' /\ OutsideTypes'
  <2>1. /\ policy'[c] = Unreadable /\ c \in damaged' /\ damaged \subseteq damaged'
        /\ \A d \in Client \ {c} : policy'[d] = policy[d]
        /\ others' = others
    BY <1>0, <1>2 DEF Damage
  <2> QED
    BY <1>2, <2>1 DEF DocumentInv, OutsideTypes
<1>3. ASSUME NEW c \in Client, NEW p \in OtherChoices, WriteOtherChoices(c, p), trail' = trail
      PROVE  DocumentInv' /\ OutsideTypes'
  <2>1. /\ policy'[c] = Rewritten(policy[c], p) /\ others'[c] = p
        /\ \A d \in Client \ {c} : policy'[d] = policy[d] /\ others'[d] = others[d]
        /\ damaged' = damaged /\ OutsideTypes'
    BY <1>0, <1>3 DEF WriteOtherChoices, Rewritten, OutsideTypes
  <2>2. others[c] \in OtherChoices
    BY DEF DocumentInv
  <2>3. /\ Rewritten(Unreadable, p) = p /\ Rewritten(others[c], p) = p
        /\ Rewritten(Decided(others[c], TRUE), p) = Decided(p, TRUE)
        /\ Rewritten(Decided(others[c], FALSE), p) = Decided(p, FALSE)
    BY <2>2, RewriteKeeps
  <2>4. \/ policy'[c] = p /\ (c \in damaged \/ Silent(trail[c], "mode", Len(trail[c])))
        \/ policy'[c] = Decided(p, TRUE) /\ Latest(trail[c], "mode", Len(trail[c]), "signed")
        \/ policy'[c] = Decided(p, FALSE) /\ Latest(trail[c], "mode", Len(trail[c]), "unsigned")
    BY <2>1, <2>3 DEF DocumentInv
  <2> QED
    BY <1>3, <2>1, <2>4 DEF DocumentInv
<1>4. ASSUME NEW c \in Client, NEW s \in Setting, NEW v \in Value, Writes(c, s, v)
      PROVE  DocumentInv' /\ OutsideTypes'
  <2>1. /\ Accepted(s, v) /\ Set(c, s, v)
        /\ s = "mode" => policy[c] # Unreadable
        /\ UNCHANGED outside
    BY <1>4 DEF Writes
  <2>2. /\ Latest(trail'[c], s, Len(trail'[c]), v)
        /\ s # "mode" /\ Silent(trail[c], "mode", Len(trail[c]))
             => Silent(trail'[c], "mode", Len(trail'[c]))
        /\ \A w : s # "mode" /\ Latest(trail[c], "mode", Len(trail[c]), w)
             => Latest(trail'[c], "mode", Len(trail'[c]), w)
        /\ \A d \in Client \ {c} : trail'[d] = trail[d]
    BY <1>4, TrailGrows DEF Setting
  <2>4. others' = others /\ damaged' = damaged /\ OutsideTypes'
    BY <2>1 DEF outside, OutsideTypes
  <2>5. CASE s # "mode"
    <3>1. policy' = policy
      BY <2>1, <2>5 DEF Set, SetClientWebhook, SetClientAllowedOrigins,
                        SetClientRegistrarIdentity
    <3> QED
      BY <2>2, <2>4, <2>5, <3>1 DEF DocumentInv
  <2>6. CASE s = "mode"
    <3>1. policy'[c] = Merged(policy[c], v) /\ \A d \in Client \ {c} : policy'[d] = policy[d]
      BY <1>0, <2>1, <2>6 DEF Set, SetClientDCAPIMode
    <3>2. others[c] \in OtherChoices /\ policy[c] # Unreadable
      BY <2>1, <2>6 DEF DocumentInv
    <3>3. \/ policy[c] = others[c] \/ policy[c] = Decided(others[c], TRUE)
          \/ policy[c] = Decided(others[c], FALSE)
      BY <3>2 DEF DocumentInv
    <3>4. v = "signed" \/ v = "unsigned"
      BY <2>1, <2>6 DEF Accepted, Modes
    <3>5. \/ policy'[c] = Decided(others[c], TRUE) /\ v = "signed"
          \/ policy'[c] = Decided(others[c], FALSE) /\ v = "unsigned"
      BY <3>1, <3>2, <3>3, <3>4, MergeDecides
    <3> QED
      BY <2>2, <2>4, <2>6, <3>1, <3>2, <3>5 DEF DocumentInv
  <2> QED
    BY <2>5, <2>6
<1> QED
  BY <1>1, <1>2, <1>3, <1>4, StepsWrite DEF Meddles

\* A setter changes what is stored of its own setting, and of its client.
LEMMA WritesItsSetting ==
    ASSUME TypeInv, NEW c \in Client, NEW s \in Setting, NEW v \in Value, Writes(c, s, v)
    PROVE  /\ s # "mode" => Stored(c, s)' = v
           /\ \A z \in Setting : z # s => Stored(c, z)' = Stored(c, z)
           /\ \A d \in Client \ {c}, z \in Setting : Stored(d, z)' = Stored(d, z)
<1>0. StoreTypes
  BY DEF TypeInv, StoreTypes
<1>1. Set(c, s, v)
  BY DEF Writes
<1>2. CASE s = "webhook" /\ SetClientWebhook(c, v)
  BY <1>0, <1>2 DEF StoreTypes, SetClientWebhook, Stored, Setting
<1>3. CASE s = "origins" /\ SetClientAllowedOrigins(c, v)
  BY <1>0, <1>3 DEF StoreTypes, SetClientAllowedOrigins, Stored, Setting
<1>4. CASE s = "identity" /\ SetClientRegistrarIdentity(c, v)
  BY <1>0, <1>4 DEF StoreTypes, SetClientRegistrarIdentity, Stored, Setting
<1>5. CASE s = "mode" /\ SetClientDCAPIMode(c, v)
  BY <1>0, <1>5 DEF StoreTypes, SetClientDCAPIMode, Stored, Setting
<1> QED
  BY <1>1, <1>2, <1>3, <1>4, <1>5 DEF Set

\* Every step keeps the settings in accord with the trail.
LEMMA SettingsStep == TypeInv /\ SettingsInv /\ [Next]_vars => SettingsInv'
<1> SUFFICES ASSUME TypeInv, SettingsInv, [Next]_vars PROVE SettingsInv'
  OBVIOUS
<1>1. CASE UNCHANGED <<webhook, origins, identity, trail>>
  <2>1. \A c \in Client, s \in Setting \ {"mode"} : Stored(c, s)' = Stored(c, s)
    BY <1>1 DEF Stored, Setting
  <2> QED
    BY <1>1, <2>1 DEF SettingsInv
<1>2. ASSUME NEW c \in Client, NEW s \in Setting, NEW v \in Value, Writes(c, s, v)
      PROVE  SettingsInv'
  <2>1. /\ Latest(trail'[c], s, Len(trail'[c]), v)
        /\ \A z \in Setting : \A w : z # s /\ Says(trail[c], z, Len(trail[c]), w)
             => Says(trail'[c], z, Len(trail'[c]), w)
        /\ \A d \in Client \ {c} : trail'[d] = trail[d]
    BY <1>2, TrailGrows DEF Says
  <2>2. ASSUME NEW z \in Setting \ {"mode"}
        PROVE  Says(trail'[c], z, Len(trail'[c]), Stored(c, z)')
    <3>1. CASE z = s
      BY <1>2, <2>1, <2>2, <3>1, WritesItsSetting DEF Says
    <3>2. CASE z # s
      <4>1. Stored(c, z)' = Stored(c, z)
        BY <1>2, <3>2, WritesItsSetting
      <4> QED
        BY <2>1, <3>2, <4>1 DEF SettingsInv
    <3> QED
      BY <3>1, <3>2
  <2>3. ASSUME NEW d \in Client \ {c}, NEW z \in Setting \ {"mode"}
        PROVE  Says(trail'[d], z, Len(trail'[d]), Stored(d, z)')
    <3>1. Stored(d, z)' = Stored(d, z)
      BY <1>2, WritesItsSetting
    <3> QED
      BY <2>1, <3>1 DEF SettingsInv
  <2> QED
    BY <2>2, <2>3 DEF SettingsInv
<1> QED
  BY <1>1, <1>2, StepsWrite DEF settings, Meddles

-----------------------------------------------------------------------------
(***************************************************************************)
(* What requests answer is on the trail.                                   *)
(***************************************************************************)

\* The job's write is on the trail.
Kept(j) ==
    /\ j.client \in Client /\ j.setting \in Setting
    /\ j.wrote \in 1..Len(trail[j.client])
    /\ trail[j.client][j.wrote].setting = j.setting
    /\ trail[j.client][j.wrote].value = j.value

\* What the job was told is what the trail said when it was told.
Truthful(j) ==
    j.setting # "identity" /\ Trusted(j.client, j.setting) =>
        /\ j.saw \in j.wrote..Len(trail[j.client])
        /\ Says(trail[j.client], j.setting, j.saw, j.told)

AnswerInv ==
    \A r \in Request :
        /\ pc[r] = "readback" => Kept(job[r])
        /\ pc[r] = "done" /\ resp[r] = "ok" => Kept(job[r]) /\ Truthful(job[r])

\* Nothing leaves the trail, nor changes what it said, nor is a client trusted
\* again.
LEMMA TrailKeeps ==
    ASSUME TypeInv, [Next]_vars, NEW c \in Client
    PROVE  /\ trail[c] \in Seq(Entry) /\ trail'[c] \in Seq(Entry)
           /\ Len(trail[c]) \in Nat /\ Len(trail'[c]) \in Nat
           /\ Len(trail[c]) <= Len(trail'[c])
           /\ \A i \in 1..Len(trail[c]) : trail'[c][i] = trail[c][i]
           /\ \A z, w : \A n \in 0..Len(trail[c]) :
                 Says(trail[c], z, n, w) => Says(trail'[c], z, n, w)
           /\ damaged \subseteq damaged'
<1>0. trail[c] \in Seq(Entry) /\ Len(trail[c]) \in Nat
  BY DEF TypeInv
<1>1. ASSUME trail'[c] = trail[c], damaged \subseteq damaged'
      PROVE  /\ trail'[c] \in Seq(Entry) /\ Len(trail'[c]) \in Nat
             /\ Len(trail[c]) <= Len(trail'[c])
             /\ \A i \in 1..Len(trail[c]) : trail'[c][i] = trail[c][i]
             /\ \A z, w : \A n \in 0..Len(trail[c]) :
                   Says(trail[c], z, n, w) => Says(trail'[c], z, n, w)
  BY <1>0, <1>1
<1>2. CASE UNCHANGED <<settings, trail, outside>>
  BY <1>0, <1>1, <1>2 DEF outside
<1>3. CASE Meddles
  BY <1>0, <1>1, <1>3 DEF Meddles, Damage, WriteOtherChoices
<1>4. ASSUME NEW d \in Client, NEW s \in Setting, NEW v \in Value, Writes(d, s, v)
      PROVE  /\ trail'[c] \in Seq(Entry) /\ Len(trail'[c]) \in Nat
             /\ Len(trail[c]) <= Len(trail'[c])
             /\ \A i \in 1..Len(trail[c]) : trail'[c][i] = trail[c][i]
             /\ \A z, w : \A n \in 0..Len(trail[c]) :
                   Says(trail[c], z, n, w) => Says(trail'[c], z, n, w)
             /\ damaged \subseteq damaged'
  <2>1. damaged \subseteq damaged'
    BY <1>4 DEF Writes, outside
  <2>2. CASE d # c
    <3>1. trail'[c] = trail[c]
      BY <1>4, <2>2, TrailGrows
    <3> QED
      BY <1>1, <2>1, <3>1
  <2>3. CASE d = c
    <3>1. /\ trail'[c] \in Seq(Entry) /\ Len(trail'[c]) = Len(trail[c]) + 1
          /\ \A i \in 1..Len(trail[c]) : trail'[c][i] = trail[c][i]
          /\ \A z, w : \A n \in 0..Len(trail[c]) :
                Says(trail[c], z, n, w) => Says(trail'[c], z, n, w)
      BY <1>4, <2>3, TrailGrows
    <3> QED
      BY <1>0, <2>1, <3>1
  <2> QED
    BY <2>2, <2>3
<1> QED
  BY <1>0, <1>2, <1>3, <1>4, StepsWrite

\* A setting nobody else decides is what the trail says of it.
LEMMA StoredIsSaid ==
    ASSUME DocumentInv, SettingsInv, NEW c \in Client, NEW s \in Setting, Trusted(c, s)
    PROVE  Says(trail[c], s, Len(trail[c]), Stored(c, s))
<1>1. CASE s # "mode"
  BY <1>1 DEF SettingsInv
<1>2. CASE s = "mode"
  <2>1. Stored(c, s) = StoredDCAPIMode(policy[c])
    BY <1>2 DEF Stored
  <2>2. others[c] \in OtherChoices /\ c \notin damaged
    BY <1>2 DEF DocumentInv, Trusted
  <2>3. Initial[s] = "signed"
    BY <1>2 DEF Initial
  <2> QED
    BY <1>2, <2>1, <2>2, <2>3, DecidedReads DEF DocumentInv, Says
<1> QED
  BY <1>1, <1>2

\* Every step keeps the answers.
LEMMA AnswerStep ==
    TypeInv /\ DocumentInv /\ SettingsInv /\ AnswerInv /\ [Next]_vars => AnswerInv'
<1> SUFFICES ASSUME TypeInv, DocumentInv, SettingsInv, AnswerInv, [Next]_vars,
                    NEW r \in Request
             PROVE  /\ pc'[r] = "readback" => Kept(job[r])'
                    /\ pc'[r] = "done" /\ resp'[r] = "ok" =>
                          Kept(job[r])' /\ Truthful(job[r])'
  BY DEF AnswerInv
<1>1. ASSUME Kept(job[r]), job'[r].client = job[r].client, job'[r].setting = job[r].setting,
             job'[r].value = job[r].value, job'[r].wrote = job[r].wrote
      PROVE  Kept(job[r])'
  <2>1. job[r].client \in Client /\ job[r].wrote \in 1..Len(trail[job[r].client])
    BY <1>1 DEF Kept
  <2>2. /\ job[r].wrote \in 1..Len(trail'[job[r].client])
        /\ trail'[job[r].client][job[r].wrote] = trail[job[r].client][job[r].wrote]
    BY <2>1, TrailKeeps
  <2> QED
    BY <1>1, <2>2 DEF Kept
<1>2. CASE Stays(r)
  <2>1. ASSUME Kept(job[r]), Truthful(job[r]) PROVE Truthful(job[r])'
    <3>1. job[r].client \in Client /\ job[r].wrote \in 1..Len(trail[job[r].client])
      BY <2>1 DEF Kept
    <3>2. job'[r] = job[r]
      BY <1>2 DEF Stays
    <3> SUFFICES ASSUME job[r].setting # "identity",
                        job[r].setting # "mode" \/ job[r].client \notin damaged'
                 PROVE  /\ job[r].saw \in job[r].wrote..Len(trail'[job[r].client])
                        /\ Says(trail'[job[r].client], job[r].setting, job[r].saw, job[r].told)
      BY <3>2 DEF Truthful, Trusted
    <3>3. Trusted(job[r].client, job[r].setting)
      BY <3>1, TrailKeeps DEF Trusted
    <3>4. /\ job[r].saw \in job[r].wrote..Len(trail[job[r].client])
          /\ Says(trail[job[r].client], job[r].setting, job[r].saw, job[r].told)
      BY <2>1, <3>3 DEF Truthful
    <3>5. job[r].saw \in 0..Len(trail[job[r].client])
      BY <3>1, <3>4, TrailKeeps
    <3>6. /\ Len(trail[job[r].client]) \in Nat /\ Len(trail'[job[r].client]) \in Nat
          /\ Len(trail[job[r].client]) <= Len(trail'[job[r].client])
          /\ Says(trail'[job[r].client], job[r].setting, job[r].saw, job[r].told)
      BY <3>1, <3>4, <3>5, TrailKeeps
    <3> QED
      BY <3>1, <3>4, <3>6
  <2> QED
    BY <1>1, <1>2, <2>1 DEF Stays, AnswerInv
<1>3. CASE Wrote(r)
  <2> DEFINE c == job[r].client  s == job[r].setting  v == job[r].value
  <2>1. c \in Client /\ Writes(c, s, v)
    BY <1>3 DEF Wrote, Sets
  <2>2. s \in Setting /\ v \in Value
    BY <2>1 DEF Writes, Accepted
  <2>3. /\ trail[c] \in Seq(Entry)
        /\ trail'[c] = Append(trail[c], [setting |-> s, value |-> v])
    BY <2>1, <2>2, TrailGrows
  <2>4. [setting |-> s, value |-> v] \in Entry
    BY <2>2 DEF Entry
  <2>5. /\ Len(trail[c]) + 1 \in 1..Len(trail'[c])
        /\ trail'[c][Len(trail[c]) + 1] = [setting |-> s, value |-> v]
    BY <2>3, <2>4
  <2>6. Kept(job[r])'
    BY <1>3, <2>1, <2>2, <2>5 DEF Wrote, Kept
  <2>7. Truthful(job[r])' \/ s # "identity"
    BY <1>3 DEF Wrote, Truthful
  <2> QED
    BY <1>3, <2>6, <2>7 DEF Wrote
<1>4. CASE Reads(r)
  <2>1. Kept(job[r])
    BY <1>4 DEF Reads, AnswerInv
  <2>2. Kept(job[r])'
    BY <1>1, <1>4, <2>1 DEF Reads
  <2>3. /\ job[r].client \in Client /\ job[r].setting \in Setting
        /\ job[r].wrote \in 1..Len(trail[job[r].client])
    BY <2>1 DEF Kept
  <2>4. Len(trail[job[r].client]) \in Nat
    BY <2>3, TrailKeeps
  <2>5. trail' = trail /\ damaged' = damaged
    BY <1>4 DEF Reads, outside
  <2>6. Trusted(job[r].client, job[r].setting) =>
          Says(trail[job[r].client], job[r].setting, Len(trail[job[r].client]),
               Stored(job[r].client, job[r].setting))
    BY <2>3, StoredIsSaid
  <2>7. Truthful(job[r])'
    BY <1>4, <2>3, <2>4, <2>5, <2>6 DEF Reads, Truthful, Trusted
  <2> QED
    BY <1>4, <2>2, <2>7 DEF Reads
<1>5. CASE Turns(r)
  BY <1>5 DEF Turns
<1> QED
  BY <1>2, <1>3, <1>4, <1>5, RequestsStep

-----------------------------------------------------------------------------
(***************************************************************************)
(* The inductive invariant, and what follows from it.                      *)
(***************************************************************************)
IInv ==
    /\ TypeInv /\ StoredIsWellFormed
    /\ DocumentInv /\ OutsideTypes /\ SettingsInv
    /\ AnswerInv

\* Nothing is set, said or answered at first.
LEMMA InitIInv == Init => IInv
<1> SUFFICES ASSUME Init PROVE IInv
  OBVIOUS
<1>1. TypeInv /\ StoredIsWellFormed
  BY Initially, WellFormedInit
<1>2. \A c \in Client : \A s : trail[c] = <<>> /\ Silent(trail[c], s, Len(trail[c]))
  BY DEF Init, Silent
<1>3. DocumentInv /\ OutsideTypes
  BY <1>2, PolicyAssumption DEF Init, DocumentInv, OutsideTypes, NoPolicy
<1>4. \A c \in Client, s \in Setting \ {"mode"} : Stored(c, s) = Initial[s]
  BY DEF Init, Stored, Setting, Initial
<1>5. SettingsInv
  BY <1>2, <1>4 DEF SettingsInv, Says
<1>6. AnswerInv
  BY DEF Init, AnswerInv
<1> QED
  BY <1>1, <1>3, <1>5, <1>6 DEF IInv

LEMMA StepIInv == IInv /\ [Next]_vars => IInv'
  BY TypeStep, WellFormedStep, DocumentStep, SettingsStep, AnswerStep DEF IInv

LEMMA Inductive == Spec => []IInv
  BY InitIInv, StepIInv, PTL DEF Spec

-----------------------------------------------------------------------------
(***************************************************************************)
(* How long a trail can be: every entry of a client, and every request     *)
(* that is still waiting to write one, is a request that was made.         *)
(***************************************************************************)
Writing == {r \in Request : pc[r] = "write"}

CountInv ==
    /\ known \subseteq Client /\ damaged \subseteq known
    /\ arrived \in 0..MaxArrivals
    /\ IsFiniteSet(Writing)
    /\ \A c \in Client : Len(trail[c]) + Cardinality(Writing) <= arrived

\* A request more, and one more that may write.
LEMMA ArrivalCounts ==
    ASSUME TypeInv, CountInv, NEW r \in Request, NEW c, NEW s, NEW v, NEW a,
           Arrives(r, c, s, v, a)
    PROVE  CountInv'
<1>1. /\ arrived' = arrived + 1 /\ arrived < MaxArrivals
      /\ UNCHANGED <<known, trail, damaged>>
      /\ \A q \in Request \ {r} : pc'[q] = pc[q]
  BY DEF Arrives, Answers, TypeInv, store, outside
<1>2. Writing' \in SUBSET (Writing \cup {r})
  BY <1>1 DEF Writing
<1>3. /\ IsFiniteSet(Writing \cup {r}) /\ Cardinality(Writing) \in Nat
      /\ Cardinality(Writing \cup {r}) <= Cardinality(Writing) + 1
  <2>1. IsFiniteSet(Writing) /\ Cardinality(Writing) \in Nat
    BY FS_CardinalityType DEF CountInv
  <2>2. /\ IsFiniteSet(Writing \cup {r})
        /\ Cardinality(Writing \cup {r}) = IF r \in Writing THEN Cardinality(Writing)
                                                            ELSE Cardinality(Writing) + 1
    BY <2>1, FS_AddElement
  <2> QED
    BY <2>1, <2>2
<1>4. /\ IsFiniteSet(Writing') /\ Cardinality(Writing') \in Nat
      /\ Cardinality(Writing') <= Cardinality(Writing \cup {r})
      /\ Cardinality(Writing \cup {r}) \in Nat
  BY <1>2, <1>3, FS_Subset, FS_CardinalityType
<1>5. arrived \in Nat /\ arrived' \in 0..MaxArrivals
  BY <1>1, BoundAssumption DEF CountInv
<1>6. \A d \in Client : Len(trail[d]) \in Nat /\ Len(trail[d]) + Cardinality(Writing) <= arrived
  BY DEF CountInv, TypeInv
<1>7. \A d \in Client : Len(trail'[d]) + Cardinality(Writing') <= arrived'
  BY <1>1, <1>3, <1>4, <1>5, <1>6
<1> QED
  BY <1>1, <1>4, <1>5, <1>7 DEF CountInv

\* A request that waited has written its entry.
LEMMA CommitCounts ==
    ASSUME TypeInv, CountInv, NEW r \in Request, Commits(r), UNCHANGED <<arrived, outside>>,
           pc'[r] # "write", \A q \in Request \ {r} : pc'[q] = pc[q]
    PROVE  CountInv'
<1>1. Sets(r) /\ r \in Writing /\ known' = known
  BY CommitStep DEF Commits, Writing
<1>2. Writing' = Writing \ {r}
  BY DEF Writing
<1>3. /\ IsFiniteSet(Writing') /\ Cardinality(Writing) \in Nat
      /\ Cardinality(Writing') = Cardinality(Writing) - 1
  BY <1>1, <1>2, FS_RemoveElement, FS_CardinalityType DEF CountInv
<1>4. /\ job[r].client \in Client
      /\ Writes(job[r].client, job[r].setting, job[r].value)
      /\ job[r].setting \in Setting /\ job[r].value \in Value
  BY <1>1 DEF Sets, Writes, Accepted
<1>5. /\ Len(trail'[job[r].client]) = Len(trail[job[r].client]) + 1
      /\ \A d \in Client \ {job[r].client} : trail'[d] = trail[d]
  BY <1>4, TrailGrows
<1>6. \A d \in Client : Len(trail[d]) \in Nat /\ Len(trail[d]) + Cardinality(Writing) <= arrived
  BY DEF CountInv, TypeInv
<1>7. arrived \in Nat /\ arrived' = arrived /\ damaged' = damaged
  BY BoundAssumption DEF CountInv, outside
<1>8. ASSUME NEW d \in Client PROVE Len(trail'[d]) + Cardinality(Writing') <= arrived'
  <2>1. Len(trail[d]) \in Nat /\ Len(trail[d]) + Cardinality(Writing) <= arrived
    BY <1>6
  <2>2. Len(trail'[d]) \in {Len(trail[d]), Len(trail[d]) + 1}
    BY <1>5
  <2> QED
    BY <1>3, <1>7, <2>1, <2>2
<1> QED
  BY <1>1, <1>3, <1>7, <1>8 DEF CountInv

\* Whatever else happens, nobody else comes to write, and nothing is written.
LEMMA OthersCount ==
    ASSUME TypeInv, CountInv, UNCHANGED <<arrived, trail>>,
           known' \subseteq Client, damaged' \subseteq known',
           \A q \in Request : pc'[q] = "write" => pc[q] = "write"
    PROVE  CountInv'
<1>1. Writing' \in SUBSET Writing
  BY DEF Writing
<1>2. /\ IsFiniteSet(Writing') /\ Cardinality(Writing') \in Nat
      /\ Cardinality(Writing') <= Cardinality(Writing) /\ Cardinality(Writing) \in Nat
  BY <1>1, FS_Subset, FS_CardinalityType DEF CountInv
<1>3. \A d \in Client : Len(trail[d]) \in Nat /\ Len(trail[d]) + Cardinality(Writing) <= arrived
  BY DEF CountInv, TypeInv
<1>4. arrived \in Nat
  BY BoundAssumption DEF CountInv
<1>5. \A d \in Client : Len(trail'[d]) + Cardinality(Writing') <= arrived'
  BY <1>2, <1>3, <1>4
<1> QED
  BY <1>2, <1>5 DEF CountInv

LEMMA CountInit == Init => CountInv
<1> SUFFICES ASSUME Init PROVE CountInv
  OBVIOUS
<1>1. Writing = {}
  BY DEF Init, Writing
<1>2. IsFiniteSet(Writing) /\ Cardinality(Writing) = 0
  BY <1>1, FS_EmptySet
<1>3. \A c \in Client : Len(trail[c]) = 0
  BY DEF Init
<1> QED
  BY <1>2, <1>3, BoundAssumption DEF Init, CountInv

LEMMA CountStep == TypeInv /\ CountInv /\ [Next]_vars => CountInv'
<1> SUFFICES ASSUME TypeInv, CountInv, [Next]_vars PROVE CountInv'
  OBVIOUS
<1>0. pc \in [Request -> {"idle", "write", "readback", "done"}] /\ damaged \subseteq known
      /\ known \subseteq Client
  BY DEF TypeInv, CountInv
<1>1. ASSUME NEW r \in Request, NEW c \in Client,
             \/ \E url \in Webhook : PutWebhook(r, c, url)
             \/ \E list \in Origins : PutAllowedOrigins(r, c, list)
             \/ \E mode \in Modes \cup {"other"} : PutDCAPIRequestMode(r, c, mode)
             \/ \E ident \in Identity : PutRegistrarIdentity(r, c, ident)
      PROVE  CountInv'
  BY <1>1, ArrivalCounts
     DEF PutWebhook, PutAllowedOrigins, PutDCAPIRequestMode, PutRegistrarIdentity
<1>2. ASSUME NEW r \in Request, Write(r) \/ AnswerLost(r) PROVE CountInv'
  <2>1. Commits(r) /\ UNCHANGED <<arrived, outside>>
    BY <1>2 DEF Write, AnswerLost
  <2>2. pc'[r] # "write" /\ \A q \in Request \ {r} : pc'[q] = pc[q]
    BY <1>0, <1>2 DEF Write, AnswerLost, Answers, Goto
  <2> QED
    BY <2>1, <2>2, CommitCounts
<1>3. ASSUME NEW r \in Request, WriteRefused(r) \/ ReadBack(r) \/ CallFails(r) PROVE CountInv'
  <2>1. UNCHANGED <<store, arrived, outside>> /\ Answers(r, resp'[r])
    BY <1>3 DEF WriteRefused, ReadBack, CallFails, Answers, TypeInv
  <2> QED
    BY <1>0, <2>1, OthersCount DEF Answers, store, outside
<1>4. ASSUME NEW c \in Client, CreateDraftClient(c) PROVE CountInv'
  BY <1>0, <1>4, OthersCount DEF CreateDraftClient, requests, outside
<1>5. ASSUME NEW c \in Client, Damage(c) \/ \E p \in OtherChoices : WriteOtherChoices(c, p)
      PROVE  CountInv'
  BY <1>0, <1>5, OthersCount DEF Damage, WriteOtherChoices, requests
<1>6. ASSUME Crash PROVE CountInv'
  BY <1>0, <1>6, OthersCount DEF Crash, store, outside
<1>7. ASSUME UNCHANGED vars PROVE CountInv'
  BY <1>0, <1>7, OthersCount DEF vars, store, requests, outside
<1> QED
  BY <1>1, <1>2, <1>3, <1>4, <1>5, <1>6, <1>7 DEF Next

\* Every variable keeps its type: in particular a readable policy document has
\* a truth value for the flag or none, and no trail has more entries than
\* requests were made.
THEOREM TypeCorrect == Spec => []TypeOK
<1>1. IInv /\ CountInv => TypeOK
  <2> SUFFICES ASSUME IInv, CountInv PROVE TypeOK
    OBVIOUS
  <2>1. ASSUME NEW c \in Client, policy[c] # Unreadable, Flag \in DOMAIN policy[c]
        PROVE  policy[c][Flag] \in BOOLEAN
    <3>1. others[c] \in OtherChoices /\ Flag \notin DOMAIN others[c]
      BY PolicyAssumption DEF IInv, DocumentInv
    <3>2. PICK b \in BOOLEAN : policy[c] = Decided(others[c], b)
      BY <2>1, <3>1 DEF IInv, DocumentInv
    <3> QED
      BY <3>2 DEF Decided
  <2>2. \A c \in Client : Len(trail[c]) \in 0..arrived
    <3>1. Cardinality(Writing) \in Nat
      BY FS_CardinalityType DEF CountInv
    <3>2. arrived \in Nat
      BY BoundAssumption DEF CountInv
    <3>3. \A c \in Client : Len(trail[c]) \in Nat
                            /\ Len(trail[c]) + Cardinality(Writing) <= arrived
      BY DEF CountInv, IInv, TypeInv
    <3> QED
      BY <3>1, <3>2, <3>3
  <2> QED
    BY <2>1, <2>2 DEF TypeOK, IInv, TypeInv, CountInv
<1>2. Init => IInv /\ CountInv
  BY InitIInv, CountInit
<1>3. IInv /\ CountInv /\ [Next]_vars => (IInv /\ CountInv)'
  BY StepIInv, CountStep DEF IInv
<1> QED
  BY <1>1, <1>2, <1>3, PTL DEF Spec

\* Whatever callers send and however their requests race or fail, no stored
\* webhook is without https, no stored origin has more than scheme, host and
\* port, no list is over-long and no identity is half of one: handlers and
\* store together let nothing else through.
THEOREM WellFormed == Spec => []StoredIsWellFormed
  BY Inductive, PTL DEF IInv

\* Merging the mode into a policy document keeps the choices other programs
\* left in it, and their rewriting keeps the decision.
THEOREM ChoicesSurvive == Spec => []OtherChoicesSurvive
<1>1. ASSUME IInv, NEW c \in Client, policy[c] # Unreadable
      PROVE  [k \in DOMAIN policy[c] \ {Flag} |-> policy[c][k]] = others[c]
  <2> DEFINE p         == others[c]
             Choices(d) == [k \in DOMAIN d \ {Flag} |-> d[k]]
  <2>1. p = [k \in DOMAIN p |-> p[k]] /\ Flag \notin DOMAIN p
    BY <1>1, PolicyAssumption DEF IInv, DocumentInv
  <2>2. policy[c] = p \/ policy[c] = Decided(p, TRUE) \/ policy[c] = Decided(p, FALSE)
    BY <1>1 DEF IInv, DocumentInv
  <2> HIDE DEF p
  <2>3. Choices(p) = p
    <3>1. DOMAIN p \ {Flag} = DOMAIN p
      BY <2>1
    <3> QED
      BY <2>1, <3>1
  <2>4. ASSUME NEW b PROVE Choices(Decided(p, b)) = p
    <3>1. DOMAIN Decided(p, b) \ {Flag} = DOMAIN p
      BY <2>1 DEF Decided
    <3>2. \A k \in DOMAIN p : Decided(p, b)[k] = p[k]
      BY <2>1 DEF Decided
    <3>3. [k \in DOMAIN p |-> Decided(p, b)[k]] = [k \in DOMAIN p |-> p[k]]
      BY <3>2
    <3> QED
      BY <2>1, <3>1, <3>3, Zenon
  <2> HIDE DEF Choices
  <2>5. Choices(policy[c]) = p
    BY <2>2, <2>3, <2>4
  <2> QED
    BY <2>5, Zenon DEF Choices, p
<1>2. IInv => OtherChoicesSurvive
  BY <1>1 DEF OtherChoicesSurvive
<1> QED
  BY <1>2, Inductive, PTL

\* In an undamaged policy, "deliberately signed" and "never decided" stay
\* apart: the flag is there exactly when a decision is on the trail.
THEOREM DecisionsStay == Spec => []DecisionsAreRecorded
<1>1. IInv => DecisionsAreRecorded
  <2> SUFFICES ASSUME IInv, NEW c \in Client \ damaged
               PROVE  Flag \in DOMAIN policy[c] <=> NewestAt(c, "mode", Len(trail[c])) # 0
    BY DEF DecisionsAreRecorded
  <2>1. Trusted(c, "mode") /\ "mode" \in Setting
    BY DEF Trusted, Setting
  <2>2. Says(trail[c], "mode", Len(trail[c]), Stored(c, "mode"))
    BY <2>1, StoredIsSaid DEF IInv
  <2>3. Len(trail[c]) \in Nat
    BY DEF IInv, TypeInv
  <2>4. NewestAt(c, "mode", Len(trail[c])) = 0 <=> Silent(trail[c], "mode", Len(trail[c]))
    BY <2>2, <2>3, ReplayedIsSaid
  <2>5. Flag \notin DOMAIN others[c]
    BY PolicyAssumption DEF IInv, DocumentInv
  <2>6. Flag \in DOMAIN policy[c] <=> ~Silent(trail[c], "mode", Len(trail[c]))
    BY <2>5 DEF IInv, DocumentInv, Decided, Silent, Latest
  <2> QED
    BY <2>4, <2>6
<1> QED
  BY <1>1, Inductive, PTL

\* The audit trail alone tells every setting; a damaged policy reads as what
\* was last decided about the mode, or as signed.
THEOREM TrailTells == Spec => []TrailTellsSettings
<1>1. IInv => TrailTellsSettings
  <2> SUFFICES ASSUME IInv, NEW c \in Client, NEW s \in Setting
               PROVE  LET last == Replayed(c, s, Len(trail[c]))
                      IN  Stored(c, s) \in IF Trusted(c, s) THEN {last} ELSE {last, "signed"}
    BY DEF TrailTellsSettings
  <2>1. Len(trail[c]) \in Nat
    BY DEF IInv, TypeInv
  <2>2. ASSUME Says(trail[c], s, Len(trail[c]), Stored(c, s))
        PROVE  Stored(c, s) = Replayed(c, s, Len(trail[c]))
    BY <2>1, <2>2, ReplayedIsSaid
  <2>3. CASE Trusted(c, s)
    BY <2>2, <2>3, StoredIsSaid DEF IInv
  <2>4. CASE ~Trusted(c, s)
    <3>1. s = "mode" /\ Stored(c, s) = StoredDCAPIMode(policy[c])
      BY <2>4 DEF Trusted, Stored
    <3>2. others[c] \in OtherChoices
      BY DEF IInv, DocumentInv
    <3>3. Stored(c, s) = "signed" \/ Says(trail[c], s, Len(trail[c]), Stored(c, s))
      BY <3>1, <3>2, DecidedReads DEF IInv, DocumentInv, Says
    <3> QED
      BY <2>2, <2>4, <3>3
  <2> QED
    BY <2>3, <2>4
<1> QED
  BY <1>1, Inductive, PTL

\* A setter that answers 200 wrote its value, and tells what the trail said
\* when it read back: its value, or that of a write after it.
THEOREM AnswersAreTrue == Spec => []AnswersAreOnTrail
<1>1. IInv => AnswersAreOnTrail
  <2> SUFFICES ASSUME IInv, NEW r \in Request, pc[r] = "done", resp[r] = "ok"
               PROVE  /\ Kept(job[r])
                      /\ job[r].setting # "identity" /\ Trusted(job[r].client, job[r].setting) =>
                            /\ job[r].saw \in job[r].wrote..Len(trail[job[r].client])
                            /\ job[r].told = Replayed(job[r].client, job[r].setting, job[r].saw)
    BY DEF AnswersAreOnTrail, Kept
  <2>1. Kept(job[r]) /\ Truthful(job[r])
    BY DEF IInv, AnswerInv
  <2>2. job[r].client \in Client /\ job[r].wrote \in 1..Len(trail[job[r].client])
    BY <2>1 DEF Kept
  <2>3. Len(trail[job[r].client]) \in Nat
    BY <2>2 DEF IInv, TypeInv
  <2>4. ASSUME job[r].saw \in job[r].wrote..Len(trail[job[r].client]),
               Says(trail[job[r].client], job[r].setting, job[r].saw, job[r].told)
        PROVE  job[r].told = Replayed(job[r].client, job[r].setting, job[r].saw)
    <3>1. job[r].saw \in Nat
      BY <2>2, <2>3, <2>4
    <3> QED
      BY <2>2, <2>4, <3>1, ReplayedIsSaid
  <2> QED
    BY <2>1, <2>4 DEF Truthful
<1> QED
  BY <1>1, Inductive, PTL

-----------------------------------------------------------------------------
(***************************************************************************)
(* The setters implement single audited writes.                            *)
(***************************************************************************)
Values == [c \in Client |-> [s \in Setting |-> Stored(c, s)]]

\* At first every setting has its initial value.
LEMMA InitAudited == Init => Trail!Init
<1> SUFFICES ASSUME Init PROVE Trail!Init
  OBVIOUS
<1>1. ASSUME NEW c \in Client PROVE [s \in Setting |-> Stored(c, s)] = Initial
  <2>1. Flag \notin DOMAIN NoPolicy
    BY DEF NoPolicy, NoChoices
  <2>2. StoredDCAPIMode(NoPolicy) = "signed"
    BY <2>1 DEF StoredDCAPIMode
  <2>3. /\ Stored(c, "webhook") = NoAddress /\ Stored(c, "origins") = <<>>
        /\ Stored(c, "identity") = NoIdentity
    BY DEF Init, Stored
  <2>4. Stored(c, "mode") = "signed"
    BY <2>2 DEF Init, Stored
  <2>5. \A s \in Setting : Stored(c, s) = Initial[s]
    BY <2>3, <2>4 DEF Setting, Initial
  <2>6. Initial = [s \in Setting |-> Initial[s]]
    BY DEF Setting, Initial
  <2> QED
    BY <2>5, <2>6
<1> QED
  BY <1>1 DEF Trail!Init, Init

\* A value is decided by what is stored.
LEMMA SameValues ==
    ASSUME NEW c \in Client, NEW s \in Setting,
           \A z \in Setting : z # s => Stored(c, z)' = Stored(c, z),
           \A d \in Client \ {c}, z \in Setting : Stored(d, z)' = Stored(d, z)
    PROVE  Values' = [Values EXCEPT ![c] = [@ EXCEPT ![s] = Values'[c][s]]]
  BY DEF Values

\* The mode that is set is the mode that is read.
LEMMA WritesTheMode ==
    ASSUME TypeInv, DocumentInv, NEW c \in Client, NEW v \in Value, Writes(c, "mode", v)
    PROVE  Stored(c, "mode")' = v
<1>1. /\ v \in Modes /\ policy[c] # Unreadable /\ SetClientDCAPIMode(c, v)
      /\ policy = [d \in Client |-> policy[d]]
  BY DEF Writes, Accepted, Set, TypeInv
<1>2. policy'[c] = Merged(policy[c], v)
  BY <1>1 DEF SetClientDCAPIMode
<1>3. others[c] \in OtherChoices
  BY DEF DocumentInv
<1>4. \/ policy[c] = others[c] \/ policy[c] = Decided(others[c], TRUE)
      \/ policy[c] = Decided(others[c], FALSE)
  BY <1>1 DEF DocumentInv
<1>5. \/ policy'[c] = Decided(others[c], TRUE) /\ v = "signed"
      \/ policy'[c] = Decided(others[c], FALSE) /\ v = "unsigned"
  BY <1>1, <1>2, <1>3, <1>4, MergeDecides DEF Modes
<1>6. StoredDCAPIMode(policy'[c]) = v
  BY <1>3, <1>5, DecidedReads
<1> QED
  BY <1>6 DEF Stored, StoredDCAPIMode

\* A setter's write is a write.
LEMMA WriteAudited ==
    ASSUME TypeInv, DocumentInv,
           NEW c \in Client, NEW s \in Setting, NEW v \in Value, Writes(c, s, v)
    PROVE  Trail!Write(c, s)
<1>1. Stored(c, s)' = v
  BY WritesItsSetting, WritesTheMode
<1>2. Values' = [Values EXCEPT ![c] = [@ EXCEPT ![s] = Values'[c][s]]]
  BY WritesItsSetting, SameValues
<1>3. Values'[c][s] = v
  BY <1>1 DEF Values
<1>4. Audit(c, s, v)
  BY DEF Writes, Set, SetClientWebhook, SetClientAllowedOrigins,
         SetClientRegistrarIdentity, SetClientDCAPIMode
<1>5. trail' = [trail EXCEPT ![c] =
                  Append(@, [setting |-> s, value |-> Values'[c][s]])]
  BY <1>3, <1>4 DEF Audit
<1> QED
  BY <1>2, <1>5 DEF Trail!Write, Values

\* Other programs can only lose the mode.
LEMMA MeddlingAudited ==
    ASSUME TypeInv, DocumentInv, Meddles
    PROVE  [Trail!Next]_<<Values, trail>>
<1>1. /\ policy = [d \in Client |-> policy[d]] /\ trail' = trail
      /\ \A d \in Client, z \in Setting \ {"mode"} : Stored(d, z)' = Stored(d, z)
  BY DEF TypeInv, Meddles, Stored, Setting
<1>2. ASSUME NEW c \in Client, Damage(c) PROVE Trail!Next
  <2>1. policy'[c] = Unreadable /\ \A d \in Client \ {c} : policy'[d] = policy[d]
    BY <1>1, <1>2 DEF Damage
  <2>2. \A d \in Client \ {c} : Stored(d, "mode")' = Stored(d, "mode")
    BY <2>1 DEF Stored, StoredDCAPIMode
  <2>3. Stored(c, "mode")' = "signed"
    BY <2>1 DEF Stored, StoredDCAPIMode
  <2>4. Values' = [Values EXCEPT ![c] = [@ EXCEPT !["mode"] = Values'[c]["mode"]]]
    BY <1>1, <2>2, SameValues DEF Setting
  <2>5. Values'[c]["mode"] = "signed"
    BY <2>3 DEF Values, Setting
  <2> QED
    BY <1>1, <2>4, <2>5 DEF Trail!Next, Trail!Lose, Values
<1>3. ASSUME NEW c \in Client, NEW p \in OtherChoices, WriteOtherChoices(c, p)
      PROVE  UNCHANGED <<Values, trail>>
  <2>1. /\ policy'[c] = Rewritten(policy[c], p)
        /\ \A d \in Client \ {c} : policy'[d] = policy[d]
    BY <1>1, <1>3 DEF WriteOtherChoices, Rewritten
  <2>2. others[c] \in OtherChoices
    BY DEF DocumentInv
  <2>3. StoredDCAPIMode(policy'[c]) = StoredDCAPIMode(policy[c])
    <3>1. /\ Rewritten(Unreadable, p) = p /\ Rewritten(others[c], p) = p
          /\ Rewritten(Decided(others[c], TRUE), p) = Decided(p, TRUE)
          /\ Rewritten(Decided(others[c], FALSE), p) = Decided(p, FALSE)
      BY <2>2, RewriteKeeps
    <3>2. \/ policy[c] = Unreadable \/ policy[c] = others[c]
          \/ policy[c] = Decided(others[c], TRUE) \/ policy[c] = Decided(others[c], FALSE)
      BY DEF DocumentInv
    <3> QED
      BY <2>1, <2>2, <3>1, <3>2, DecidedReads
  <2>4. \A d \in Client : Stored(d, "mode")' = Stored(d, "mode")
    BY <2>1, <2>3 DEF Stored, StoredDCAPIMode
  <2>5. \A d \in Client, z \in Setting : Stored(d, z)' = Stored(d, z)
    BY <1>1, <2>4
  <2> QED
    BY <1>1, <2>5 DEF Values
<1> QED
  BY <1>2, <1>3 DEF Meddles

\* Every step is a write, a loss, or none of the settings' business.
LEMMA StepAudited ==
    TypeInv /\ DocumentInv /\ [Next]_vars => [Trail!Next]_<<Values, trail>>
<1> SUFFICES ASSUME TypeInv, DocumentInv, [Next]_vars
             PROVE  [Trail!Next]_<<Values, trail>>
  OBVIOUS
<1>1. CASE UNCHANGED <<settings, trail, outside>>
  BY <1>1 DEF settings, Values, Stored, StoredDCAPIMode
<1>2. ASSUME NEW c \in Client, NEW s \in Setting, NEW v \in Value, Writes(c, s, v)
      PROVE  Trail!Next
  BY <1>2, WriteAudited DEF Trail!Next
<1> QED
  BY <1>1, <1>2, MeddlingAudited, StepsWrite

\* However requests race, fail, lose their answers or die, every change of a
\* setting is one write of it that is on the trail; only the mode can be lost,
\* and then it is the safe one.
THEOREM SettersAreAudited == Spec => ImplementsAuditedSettings
<1>1. Init => Trail!Init
  BY InitAudited
<1>2. IInv /\ [Next]_vars => [Trail!Next]_<<Values, trail>>
  BY StepAudited DEF IInv
<1> QED
  BY <1>1, <1>2, Inductive, PTL DEF Spec, ImplementsAuditedSettings, Trail!Spec, Values
=============================================================================
