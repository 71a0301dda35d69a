--------------------------- MODULE Server_proofs ---------------------------
(***************************************************************************)
(* What a process serves with and whom its gate lets in, for any keys,     *)
(* addresses, pool, number of requests, edits and starts.                  *)
(***************************************************************************)
EXTENDS Server, TLAPS

\* What holds while the process starts: the files are among what was seen of
\* them, and so is every default that was already read.
StartInv ==
    /\ process.phase \in Starting => \A s \in Secrets : file[s] \in seen[s]
    /\ process.phase \in {"admin_api_key", "bound"} =>
          process.defaults["postgres_dsn"] \in seen["postgres_dsn"]
    /\ process.phase = "bound" =>
          process.defaults["admin_api_key"] \in seen["admin_api_key"]

\* What was resolved is deployed, and the gate has captured its key.
ConfigInv ==
    /\ process.phase \in {"built", "serving"} =>
          /\ \A s \in Secrets : process.config[s] \in Deployed(s)
          /\ process.config["postgres_dsn"] # Malformed
    /\ process.phase = "serving" => process.want = process.config["admin_api_key"]

\* Only a serving process has requests, and one under way has no status yet.
RequestInv ==
    \A r \in Requests :
        /\ process.phase # "serving" => requests[r] = Idle
        /\ requests[r].phase = "idle" => requests[r] = Idle
        /\ requests[r].phase # "done" => requests[r].status = 0

\* The gate decides by the captured key, once.
GateInv ==
    \A r \in Requests : requests[r].kind = "api" =>
        /\ requests[r].phase \in {"waiting", "holding"} \/ requests[r].status \in {200, 500}
             => requests[r].key = process.want
        /\ requests[r].status = 401 => requests[r].key # process.want

\* A probe under way while the database is up has met it.
ProbeInv ==
    \A r \in Requests : requests[r].kind = "readyz" =>
        /\ requests[r].phase \in {"arrived", "waiting", "holding"} /\ database = "up"
             => r \in met
        /\ requests[r].status = 200 => r \in met

IInv == TypeOK /\ StartInv /\ ConfigInv /\ RequestInv /\ GateInv /\ ProbeInv

-----------------------------------------------------------------------------
\* The process that is down, and the request slot that is empty, are typed.
LEMMA DownTyped ==
    /\ Nothing \in Settings
    /\ Down \in [phase : Phases, env : Settings, defaults : Settings,
                 config : Settings, want : Keys \cup {Unset}]
    /\ Idle \in Slot
<1>1. Nothing \in Settings
  BY DEF Nothing, Settings, Secrets, AnyValue, Values
<1> QED
  BY <1>1 DEF Down, Idle, Phases, Slot, Steps, Statuses

\* The initial states satisfy the invariant.
LEMMA Initially == Init => IInv
<1> SUFFICES ASSUME Init PROVE IInv
  OBVIOUS
<1>1. TypeOK
  BY DownTyped, ServerAssumption DEF Init, TypeOK
<1>2. StartInv /\ ConfigInv
  BY DEF Init, StartInv, ConfigInv, Down, Starting, Phases
<1>3. RequestInv /\ GateInv /\ ProbeInv
  BY DEF Init, RequestInv, GateInv, ProbeInv, Idle, Down
<1> QED
  BY <1>1, <1>2, <1>3 DEF IInv

-----------------------------------------------------------------------------
\* The invariant is preserved, part by part.

\* What the invariant asks about a slot without a request.
LEMMA QuietSlot == Idle.phase = "idle" /\ Idle.kind = "api" /\ Idle.status = 0
BY DEF Idle

\* Outside, start and end of a process.
LEMMA OutsideKeeps ==
    ASSUME IInv,
           \/ \E s \in Secrets, v \in AnyValue :
                v \in Values(s) \cup {Unset} /\ (EditPlain(s, v) \/ EditFile(s, v))
           \/ Start \/ Die
           \/ \E d \in {"up", "stalled", "down"} : DatabaseTurns(d)
    PROVE  IInv'
<1> USE DEF IInv
<1>1. ASSUME NEW s \in Secrets, NEW v \in AnyValue, v \in Values(s) \cup {Unset},
             EditPlain(s, v)
      PROVE  IInv'
  <2>1. TypeOK'
    BY <1>1, ServerAssumption DEF TypeOK, EditPlain, Settings
  <2>2. StartInv' /\ ConfigInv'
    BY <1>1 DEF EditPlain, StartInv, ConfigInv, Deployed
  <2>3. RequestInv' /\ GateInv' /\ ProbeInv'
    BY <1>1 DEF EditPlain, RequestInv, GateInv, ProbeInv
  <2> QED
    BY <2>1, <2>2, <2>3
<1>2. ASSUME NEW s \in Secrets, NEW v \in AnyValue, v \in Values(s) \cup {Unset},
             EditFile(s, v)
      PROVE  IInv'
  <2>1. TypeOK'
    BY <1>2, ServerAssumption DEF TypeOK, EditFile, Settings
  <2>2. \A t \in Secrets : seen[t] \subseteq seen'[t]
    BY <1>2 DEF TypeOK, EditFile
  <2>3. StartInv'
    BY <1>2, <2>2 DEF TypeOK, EditFile, StartInv, Settings
  <2>4. ConfigInv'
    BY <1>2, <2>2 DEF EditFile, ConfigInv, Deployed
  <2>5. RequestInv' /\ GateInv' /\ ProbeInv'
    BY <1>2 DEF EditFile, RequestInv, GateInv, ProbeInv
  <2> QED
    BY <2>1, <2>3, <2>4, <2>5
<1>3. CASE Start
  <2>1. TypeOK'
    <3>1. process' \in [phase : Phases, env : Settings, defaults : Settings,
                        config : Settings, want : Keys \cup {Unset}]
      BY <1>3, DownTyped DEF TypeOK, Start, Down, Phases
    <3>2. seen' \in [Secrets -> SUBSET AnyValue]
      BY <1>3 DEF TypeOK, Start, Settings
    <3>3. boots' \in 0..MaxBoots
      BY <1>3, ServerAssumption DEF TypeOK, Start
    <3> QED
      BY <1>3, <3>1, <3>2, <3>3 DEF TypeOK, Start
  <2>2. StartInv' /\ ConfigInv'
    BY <1>3 DEF Start, StartInv, ConfigInv, Down, Starting, Phases
  <2>3. RequestInv' /\ GateInv' /\ ProbeInv'
    <3>1. \A r \in Requests : requests'[r] = Idle
      BY <1>3 DEF Start, RequestInv
    <3> QED
      BY <3>1, QuietSlot DEF RequestInv, GateInv, ProbeInv
  <2> QED
    BY <2>1, <2>2, <2>3
<1>4. CASE Die
  <2>1. TypeOK'
    BY <1>4, DownTyped, ServerAssumption DEF TypeOK, Die
  <2>2. StartInv' /\ ConfigInv'
    BY <1>4 DEF Die, StartInv, ConfigInv, Down, Starting
  <2>3. RequestInv' /\ GateInv' /\ ProbeInv'
    <3>1. \A r \in Requests : requests'[r] = Idle
      BY <1>4 DEF Die
    <3> QED
      BY <3>1, QuietSlot DEF RequestInv, GateInv, ProbeInv
  <2> QED
    BY <2>1, <2>2, <2>3
<1>5. ASSUME NEW d \in {"up", "stalled", "down"}, DatabaseTurns(d)
      PROVE  IInv'
  <2>1. TypeOK'
    BY <1>5, ServerAssumption DEF TypeOK, DatabaseTurns
  <2>2. StartInv' /\ ConfigInv'
    BY <1>5 DEF DatabaseTurns, StartInv, ConfigInv, Deployed
  <2>3. RequestInv' /\ GateInv'
    BY <1>5 DEF DatabaseTurns, RequestInv, GateInv
  <2>4. ProbeInv'
    BY <1>5 DEF DatabaseTurns, ProbeInv
  <2> QED
    BY <2>1, <2>2, <2>3, <2>4
<1> QED
  BY <1>1, <1>2, <1>3, <1>4, <1>5

\* The steps of a start.
LEMMA StartKeeps ==
    ASSUME IInv, (\E s \in Secrets : LoadSecret(s)) \/ Build \/ Serve
    PROVE  IInv'
<1> USE DEF IInv
<1>1. ASSUME NEW s \in Secrets, LoadSecret(s)
      PROVE  IInv'
  <2>1. process.defaults \in Settings /\ [process.defaults EXCEPT ![s] = file[s]] \in Settings
    BY DEF TypeOK, Settings
  <2>2. TypeOK'
    BY <1>1, <2>1 DEF TypeOK, LoadSecret, Phases
  <2>3. StartInv' /\ ConfigInv'
    BY <1>1, <2>1 DEF TypeOK, LoadSecret, StartInv, ConfigInv, Secrets, Starting, Phases, Settings
  <2>4. RequestInv' /\ GateInv' /\ ProbeInv'
    <3>1. \A r \in Requests : requests'[r] = Idle
      BY <1>1 DEF LoadSecret, RequestInv, Secrets
    <3> QED
      BY <3>1, QuietSlot DEF RequestInv, GateInv, ProbeInv
  <2> QED
    BY <2>2, <2>3, <2>4
<1>2. CASE Build
  <2> DEFINE config == [s \in Secrets |-> Resolve(process.env[s], process.defaults[s])]
  <2>1. config \in Settings
    BY DEF TypeOK, Settings, Resolve
  <2>2. TypeOK'
    BY <1>2, <2>1, DownTyped DEF TypeOK, Build, Phases
  <2>3. StartInv' /\ ConfigInv'
    <3>1. CASE process' = Down
      BY <3>1 DEF StartInv, ConfigInv, Down, Starting
    <3>2. CASE /\ Complete(config) /\ config["postgres_dsn"] # Malformed
               /\ process' = [process EXCEPT !.phase = "built", !.config = config]
      <4>1. /\ process'.phase = "built" /\ process'.config = config
            /\ process'.env = process.env
        BY <3>2 DEF TypeOK
      <4>2. \A s \in Secrets : config[s] \in Deployed(s)'
        BY <1>2, <3>2, <4>1 DEF Build, StartInv, Deployed, Complete, Resolve, Secrets
      <4>3. StartInv'
        BY <1>2, <4>1 DEF Build, StartInv, Starting, Phases
      <4> QED
        BY <3>2, <4>1, <4>2, <4>3 DEF ConfigInv
    <3> QED
      BY <1>2, <3>1, <3>2 DEF Build
  <2>4. RequestInv' /\ GateInv' /\ ProbeInv'
    <3>1. \A r \in Requests : requests'[r] = Idle
      BY <1>2 DEF Build, RequestInv
    <3> QED
      BY <3>1, QuietSlot DEF RequestInv, GateInv, ProbeInv
  <2> QED
    BY <2>2, <2>3, <2>4
<1>3. CASE Serve
  <2>1. TypeOK'
    BY <1>3 DEF TypeOK, Serve, Phases, Settings, Secrets, Values
  <2>2. StartInv' /\ ConfigInv'
    BY <1>3 DEF TypeOK, Serve, StartInv, ConfigInv, Deployed, Starting
  <2>3. RequestInv' /\ GateInv' /\ ProbeInv'
    <3>1. \A r \in Requests : requests'[r] = Idle
      BY <1>3 DEF Serve, RequestInv
    <3> QED
      BY <3>1, QuietSlot DEF RequestInv, GateInv, ProbeInv
  <2> QED
    BY <2>1, <2>2, <2>3
<1> QED
  BY <1>1, <1>2, <1>3

\* What a slot may become, with what its probe has met by then.
Admissible(r, q) ==
    /\ q \in Slot
    /\ q.phase = "idle" => q = Idle
    /\ q.phase # "done" => q.status = 0
    /\ q.kind = "api" =>
          /\ q.phase \in {"waiting", "holding"} \/ q.status \in {200, 500}
               => q.key = process.want
          /\ q.status = 401 => q.key # process.want
    /\ q.kind = "readyz" =>
          /\ q.phase \in {"arrived", "waiting", "holding"} /\ database = "up" => r \in met'
          /\ q.status = 200 => r \in met'

\* A step of one request leaves the process and the other requests alone.
Moves(r, q) ==
    /\ process.phase = "serving"
    /\ requests' = [requests EXCEPT ![r] = q]
    /\ met' \subseteq Requests
    /\ \A x \in Requests \ {r} : x \in met => x \in met'
    /\ UNCHANGED <<plain, file, process, database, seen, edits, boots>>

LEMMA RequestKeeps ==
    ASSUME IInv, NEW r \in Requests, NEW q, Admissible(r, q), Moves(r, q)
    PROVE  IInv'
<1> USE DEF IInv, Moves
<1>1. TypeOK'
  BY DEF TypeOK, Admissible
<1>2. StartInv' /\ ConfigInv'
  BY DEF StartInv, ConfigInv, Deployed
<1>3. requests'[r] = q /\ \A x \in Requests \ {r} : requests'[x] = requests[x]
  BY DEF TypeOK
<1>4. RequestInv'
  BY <1>3 DEF RequestInv, Admissible
<1>5. GateInv'
  BY <1>3 DEF GateInv, Admissible
<1>6. ProbeInv'
  BY <1>3 DEF ProbeInv, Admissible
<1> QED
  BY <1>1, <1>2, <1>4, <1>5, <1>6

\* Moving a slot leaves a slot.
LEMMA SlotMoves ==
    ASSUME NEW x \in Slot, NEW p \in Steps, NEW s \in Statuses
    PROVE  [x EXCEPT !.phase = p, !.status = s] \in Slot
BY DEF Slot

\* The steps of the requests.
LEMMA TurnKeeps ==
    ASSUME IInv, NEW r \in Requests,
           \/ \E kind \in Kinds, key \in Keys \cup {Unset} : Arrive(r, kind, key)
           \/ Turns(r)
    PROVE  IInv'
<1>0. TypeOK /\ ConfigInv /\ GateInv /\ ProbeInv
  BY DEF IInv
<1>1. ASSUME NEW kind \in Kinds, NEW key \in Keys \cup {Unset}, Arrive(r, kind, key)
      PROVE  IInv'
  <2> DEFINE q == [phase |-> "arrived", kind |-> kind, key |-> key, status |-> 0]
  <2>1. kind \in {"api", "readyz", "healthz"}
    BY ServerAssumption
  <2>2. Moves(r, q)
    BY <1>0, <1>1 DEF Arrive, TypeOK, Moves
  <2>3. kind = "readyz" /\ database = "up" => r \in met'
    BY <1>1 DEF Arrive
  <2>4. Admissible(r, q)
    BY <2>1, <2>3 DEF Admissible, Slot, Steps, Statuses
  <2> QED
    BY <2>2, <2>4, RequestKeeps
<1>2. ASSUME NEW phase \in Steps \ {"idle", "arrived"},
             NEW status \in Statuses,
             Step(r, phase, status),
             phase # "done" => status = 0,
             requests[r].kind = "api" =>
                /\ phase \in {"waiting", "holding"} \/ status \in {200, 500}
                     => requests[r].key = process.want
                /\ status = 401 => requests[r].key # process.want,
             requests[r].kind = "readyz" =>
                /\ phase \in {"waiting", "holding"} /\ database = "up" => r \in met
                /\ status = 200 => r \in met
      PROVE  IInv'
  <2> DEFINE q == [requests[r] EXCEPT !.phase = phase, !.status = status]
  <2>1. requests[r] \in Slot
    BY <1>0 DEF TypeOK
  <2>2. q \in Slot
    BY <2>1, SlotMoves
  <2>3. q.phase = phase /\ q.status = status
    BY <2>1
  <2>4. q.kind = requests[r].kind /\ q.key = requests[r].key
    BY <2>1
  <2>5. requests' = [requests EXCEPT ![r] = q] /\ met' = met
    BY <1>2 DEF Step
  <2> HIDE DEF q
  <2>6. Moves(r, q)
    BY <1>0, <1>2, <2>5 DEF Step, Moves, TypeOK
  <2>7. Admissible(r, q)
    BY <1>2, <2>2, <2>3, <2>4, <2>5 DEF Admissible
  <2> QED
    BY <2>6, <2>7, RequestKeeps
<1>3. CASE RequireAPIKey(r)
  <2>1. process.phase = "serving"
    BY <1>3 DEF RequireAPIKey, Step
  <2>2. process.want # Unset
    BY <1>0, <2>1, ServerAssumption DEF ConfigInv, Deployed, Secrets, TypeOK
  <2> QED
    BY <1>2, <1>3, <2>2 DEF RequireAPIKey, Opens, Steps, Statuses
<1>4. CASE Healthz(r)
  BY <1>2, <1>4 DEF Healthz, Steps, Statuses
<1>5. CASE Readyz(r)
  BY <1>0, <1>2, <1>5 DEF Readyz, ProbeInv, Steps, Statuses
<1>6. CASE Acquire(r)
  BY <1>0, <1>2, <1>6 DEF Acquire, GateInv, ProbeInv, Steps, Statuses
<1>7. CASE Answer(r)
  BY <1>0, <1>2, <1>7 DEF Answer, GateInv, ProbeInv, TypeOK, Steps, Statuses
<1>8. CASE Expire(r)
  BY <1>2, <1>8 DEF Expire, Steps, Statuses
<1>9. CASE Leave(r)
  <2>1. Moves(r, Idle)
    BY <1>0, <1>9 DEF Leave, TypeOK, Moves
  <2>2. Admissible(r, Idle)
    BY DownTyped, QuietSlot DEF Admissible
  <2> QED
    BY <2>1, <2>2, RequestKeeps
<1> QED
  BY <1>1, <1>3, <1>4, <1>5, <1>6, <1>7, <1>8, <1>9 DEF Turns

\* Every step preserves the invariant.
LEMMA Inductive == IInv /\ [Next]_vars => IInv'
<1> SUFFICES ASSUME IInv, [Next]_vars PROVE IInv'
  OBVIOUS
<1>1. CASE UNCHANGED vars
  <2>1. TypeOK' /\ StartInv' /\ ConfigInv'
    BY <1>1 DEF vars, IInv, TypeOK, StartInv, ConfigInv, Deployed
  <2>2. RequestInv' /\ GateInv' /\ ProbeInv'
    BY <1>1 DEF vars, IInv, RequestInv, GateInv, ProbeInv
  <2> QED
    BY <2>1, <2>2 DEF IInv
<1>2. CASE Next
  BY <1>2, OutsideKeeps, StartKeeps, TurnKeeps DEF Next
<1> QED
  BY <1>1, <1>2

THEOREM Invariance == Spec => []IInv
BY Initially, Inductive, PTL DEF Spec

-----------------------------------------------------------------------------
\* The type invariant (run server).
THEOREM Typed == Spec => []TypeOK
BY Invariance, PTL DEF IInv

\* config.go:40-60: a process that takes requests serves with what its own
\* start read, whatever was edited before, during and after it.
THEOREM ServesWithItsOwnSecrets == Spec => []ServesAsDeployed
<1>1. IInv => ServesAsDeployed
  BY DEF IInv, ConfigInv, ServesAsDeployed, Deployed, Secrets
<1> QED
  BY <1>1, Invariance, PTL

\* apiauth.go:22-32: the gate lets in the deployed key and no other.
THEOREM TheGateKeepsItsKey == Spec => []KeysOpenAsDeployed
<1>1. ASSUME IInv, NEW r \in Requests, requests[r].kind = "api",
             \/ requests[r].phase \in {"waiting", "holding"}
             \/ requests[r].status \in {200, 401, 500}
      PROVE  process.want \in Deployed("admin_api_key")
  <2>1. process.phase = "serving"
    BY <1>1, QuietSlot DEF IInv, RequestInv
  <2> QED
    BY <1>1, <2>1 DEF IInv, ConfigInv, Secrets
<1>2. IInv => KeysOpenAsDeployed
  BY <1>1 DEF IInv, GateInv, KeysOpenAsDeployed
<1> QED
  BY <1>2, Invariance, PTL

\* health.go:20-31: ready is said only of a database that was up.
THEOREM ReadyIsNoGuess == Spec => []ReadyIsVouched
<1>1. IInv => ReadyIsVouched
  BY DEF IInv, ProbeInv, ReadyIsVouched
<1> QED
  BY <1>1, Invariance, PTL
=============================================================================
