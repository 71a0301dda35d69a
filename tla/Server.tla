------------------------------- MODULE Server -------------------------------
(***************************************************************************)
(* The process around the admin API: it reads its two secrets, refuses to  *)
(* start without either, captures the admin key for its gate, and then     *)
(* answers requests over a database pool of PoolSize connections.  Config  *)
(* loading is config.go, the start app.go and cmd/server/web.go, the gate  *)
(* routes/apiauth.go, the probes routes/health.go.  An operator rewrites   *)
(* the secrets at any time, the database stalls or goes away, and the      *)
(* process may die at any step; what a request does in the store is the    *)
(* matter of the other modules.                                            *)
(***************************************************************************)
EXTENDS Naturals, FiniteSets

CONSTANTS
    Keys,       \* the admin keys an operator deploys
    DSNs,       \* the database addresses, well formed
    Malformed,  \* an address pgxpool.New cannot parse
    Unset,      \* no value; also the header of a request that has none
    Requests,   \* the requests in flight at a time
    Kinds,      \* which of "api", "readyz" and "healthz" arrive
    PoolSize,   \* connections of the pool
    MaxEdits,   \* bound on the operator's edits
    MaxBoots    \* bound on the starts of the process

ASSUME ServerAssumption ==
    /\ Unset \notin Keys \cup DSNs \cup {Malformed}
    /\ Malformed \notin DSNs
    /\ PoolSize \in Nat \ {0}
    /\ MaxEdits \in Nat /\ MaxBoots \in Nat
    /\ Kinds \subseteq {"api", "readyz", "healthz"}

Secrets == {"postgres_dsn", "admin_api_key"}
Values(s) == IF s = "admin_api_key" THEN Keys ELSE DSNs \cup {Malformed}
AnyValue == Keys \cup DSNs \cup {Malformed, Unset}
Settings == {v \in [Secrets -> AnyValue] :
               \A s \in Secrets : v[s] \in Values(s) \cup {Unset}}
Nothing == [s \in Secrets |-> Unset]

VARIABLES
    plain,     \* the plain variables the next start inherits
    file,      \* what the <NAME>_FILE secrets hold; Unset also when unreadable
    process,   \* [phase, env, defaults, config, want]
    database,  \* "up", "stalled" or "down"
    requests,  \* Requests -> [phase, kind, key, status]
    seen,      \* history: what each file held while this process started
    met,       \* history: the readiness probes that met a database that was up
    edits, boots

vars == <<plain, file, process, database, requests, seen, met, edits, boots>>

Phases == {"down", "postgres_dsn", "admin_api_key", "bound", "built", "serving"}
Starting == Phases \ {"down", "serving"}
Down == [phase |-> "down", env |-> Nothing, defaults |-> Nothing,
         config |-> Nothing, want |-> Unset]
Steps == {"idle", "arrived", "waiting", "holding", "done"}
Statuses == {0, 200, 401, 500, 503}
Slot == [phase : Steps, kind : {"api", "readyz", "healthz"},
         key : Keys \cup {Unset}, status : Statuses]
Idle == [phase |-> "idle", kind |-> "api", key |-> Unset, status |-> 0]

TypeOK ==
    /\ plain \in Settings /\ file \in Settings
    /\ process \in [phase : Phases, env : Settings, defaults : Settings,
                    config : Settings, want : Keys \cup {Unset}]
    /\ database \in {"up", "stalled", "down"}
    /\ requests \in [Requests -> Slot]
    /\ met \subseteq Requests
    /\ seen \in [Secrets -> SUBSET AnyValue]
    /\ edits \in 0..MaxEdits /\ boots \in 0..MaxBoots

Init ==
    /\ plain \in Settings /\ file \in Settings
    /\ process = Down
    /\ database \in {"up", "stalled", "down"}
    /\ requests = [r \in Requests |-> Idle]
    /\ seen = [s \in Secrets |-> {}]
    /\ met = {}
    /\ edits = 0 /\ boots = 0

-----------------------------------------------------------------------------
(* The operator and the platform.                                          *)

EditPlain(s, v) ==
    /\ edits < MaxEdits
    /\ plain' = [plain EXCEPT ![s] = v]
    /\ edits' = edits + 1
    /\ UNCHANGED <<file, process, database, requests, seen, met, boots>>

EditFile(s, v) ==
    /\ edits < MaxEdits
    /\ file' = [file EXCEPT ![s] = v]
    /\ edits' = edits + 1
    /\ seen' = IF process.phase \in Starting
               THEN [seen EXCEPT ![s] = @ \cup {v}] ELSE seen
    /\ UNCHANGED <<plain, process, database, requests, met, boots>>

Start ==
    /\ process.phase = "down" /\ boots < MaxBoots
    /\ process' = [Down EXCEPT !.phase = "postgres_dsn", !.env = plain]
    /\ boots' = boots + 1
    /\ seen' = [s \in Secrets |-> {file[s]}]
    /\ UNCHANGED <<plain, file, database, requests, met, edits>>

Die ==
    /\ process.phase # "down"
    /\ process' = Down
    /\ requests' = [r \in Requests |-> Idle]
    /\ met' = {}
    /\ UNCHANGED <<plain, file, database, seen, edits, boots>>

(* A probe that is under way when the database answers again has met it.   *)
DatabaseTurns(d) ==
    /\ database # d
    /\ database' = d
    /\ met' = IF d = "up" THEN met \cup {r \in Requests : requests[r].kind = "readyz"}
                          ELSE met
    /\ UNCHANGED <<plain, file, process, requests, seen, edits, boots>>

-----------------------------------------------------------------------------
(* Starting.                                                               *)

(* Bind reads the two files one after the other; a secret it cannot read   *)
(* or that is blank leaves no default.                                     *)
LoadSecret(s) ==
    /\ process.phase = s
    /\ process' = [process EXCEPT
         !.phase = IF s = "postgres_dsn" THEN "admin_api_key" ELSE "bound",
         !.defaults[s] = file[s]]
    /\ UNCHANGED <<plain, file, database, requests, seen, met, edits, boots>>

Resolve_FileFirst(env, default) == IF default # Unset THEN default ELSE env

(* viper: a bound variable that is set and not empty, else the default.    *)
Resolve(env, default) == IF env # Unset THEN env ELSE default

Complete_DSNOnly(config) == config["postgres_dsn"] # Unset

(* Validate: both fields are `required`. *)
Complete(config) == \A s \in Secrets : config[s] # Unset

(* New: the configuration is loaded and validated, and the pool is built   *)
(* from it without dialling.  Any failure ends the process.                *)
Build ==
    /\ process.phase = "bound"
    /\ LET config == [s \in Secrets |-> Resolve(process.env[s], process.defaults[s])]
       IN  process' = IF Complete(config) /\ config["postgres_dsn"] # Malformed
                      THEN [process EXCEPT !.phase = "built", !.config = config]
                      ELSE Down
    /\ UNCHANGED <<plain, file, database, requests, seen, met, edits, boots>>

(* routes.Init: the gate captures the key once, then the server listens.   *)
Serve ==
    /\ process.phase = "built"
    /\ process' = [process EXCEPT !.phase = "serving",
                                  !.want = process.config["admin_api_key"]]
    /\ UNCHANGED <<plain, file, database, requests, seen, met, edits, boots>>

-----------------------------------------------------------------------------
(* Serving.                                                                *)

Step(r, phase, status) ==
    /\ process.phase = "serving"
    /\ requests' = [requests EXCEPT
         ![r] = [@ EXCEPT !.phase = phase, !.status = status]]
    /\ UNCHANGED <<plain, file, process, database, seen, met, edits, boots>>

Arrive(r, kind, key) ==
    /\ process.phase = "serving" /\ requests[r].phase = "idle"
    /\ kind # "api" => key = Unset
    /\ requests' = [requests EXCEPT ![r] =
         [phase |-> "arrived", kind |-> kind, key |-> key, status |-> 0]]
    /\ met' = IF kind = "readyz" /\ database = "up" THEN met \cup {r} ELSE met \ {r}
    /\ UNCHANGED <<plain, file, process, database, seen, edits, boots>>

Opens_FileNow(key) == file["admin_api_key"] # Unset /\ key = file["admin_api_key"]

(* The comparison of the gate, closed on an empty captured key.            *)
Opens(key) == process.want # Unset /\ key = process.want

RequireAPIKey(r) ==
    /\ requests[r].phase = "arrived" /\ requests[r].kind = "api"
    /\ IF Opens(requests[r].key) THEN Step(r, "waiting", 0) ELSE Step(r, "done", 401)

Healthz(r) ==
    /\ requests[r].phase = "arrived" /\ requests[r].kind = "healthz"
    /\ Step(r, "done", 200)

Readyz_PoolIsEnough(r) ==
    /\ requests[r].phase = "arrived" /\ requests[r].kind = "readyz"
    /\ Step(r, "done", 200)

Readyz(r) ==
    /\ requests[r].phase = "arrived" /\ requests[r].kind = "readyz"
    /\ Step(r, "waiting", 0)

Holding == {r \in Requests : requests[r].phase = "holding"}

(* The pool hands out a connection, first come or not.                     *)
Acquire(r) ==
    /\ requests[r].phase = "waiting" /\ Cardinality(Holding) < PoolSize
    /\ Step(r, "holding", 0)

(* The database answers the handler's call or the ping, or refuses it; a   *)
(* stalled one does neither, and the handler's context has no deadline.    *)
Answer(r) ==
    /\ requests[r].phase = "holding" /\ database # "stalled"
    /\ Step(r, "done", IF database = "up" THEN 200
                       ELSE IF requests[r].kind = "api" THEN 500 ELSE 503)

Expire_PingOnly(r) ==
    /\ requests[r].kind = "readyz" /\ requests[r].phase = "holding"
    /\ Step(r, "done", 503)

(* The probe's two seconds, for the connection and the ping together.      *)
Expire(r) ==
    /\ requests[r].kind = "readyz" /\ requests[r].phase \in {"waiting", "holding"}
    /\ Step(r, "done", 503)

Leave(r) ==
    /\ process.phase = "serving" /\ requests[r].phase = "done"
    /\ requests' = [requests EXCEPT ![r] = Idle]
    /\ met' = met \ {r}
    /\ UNCHANGED <<plain, file, process, database, seen, edits, boots>>

-----------------------------------------------------------------------------
Turns(r) ==
    \/ RequireAPIKey(r) \/ Healthz(r) \/ Readyz(r)
    \/ Acquire(r) \/ Answer(r) \/ Expire(r) \/ Leave(r)

Next ==
    \/ \E s \in Secrets, v \in AnyValue :
         v \in Values(s) \cup {Unset} /\ (EditPlain(s, v) \/ EditFile(s, v))
    \/ \E s \in Secrets : LoadSecret(s)
    \/ Start \/ Die \/ Build \/ Serve
    \/ \E d \in {"up", "stalled", "down"} : DatabaseTurns(d)
    \/ \E r \in Requests, kind \in Kinds, key \in Keys \cup {Unset} : Arrive(r, kind, key)
    \/ \E r \in Requests : Turns(r)

Spec == Init /\ [][Next]_vars

(* The process runs the handlers it has accepted, and time passes.  The    *)
(* pool owes nobody a connection and the database nobody an answer.        *)
Fairness == \A r \in Requests : WF_vars(Healthz(r)) /\ WF_vars(Readyz(r)) /\ WF_vars(Expire(r))

FairSpec == Spec /\ Fairness

-----------------------------------------------------------------------------
(* The secret a started process may have taken: the plain variable it was  *)
(* started with, else something the file held while it was starting.       *)
Deployed(s) == IF process.env[s] # Unset THEN {process.env[s]} ELSE seen[s] \ {Unset}

(* A process that takes requests has a key and a usable address, both from *)
(* its own start: config.go:40-60 lets a plain variable override the file, *)
(* and nothing of an earlier start, or of an edit made later, gets in.     *)
ServesAsDeployed ==
    process.phase = "serving" =>
        /\ process.want \in Deployed("admin_api_key")
        /\ process.config["postgres_dsn"] \in Deployed("postgres_dsn") \ {Malformed}

(* A request gets past the gate of apiauth.go:22-32, to the pool or to an  *)
(* answer of the store, only with a key the start deployed, and is refused *)
(* only when that key, or another the start could as well have read, is    *)
(* not the one it carries: rotating a secret under a running process       *)
(* neither opens it to the new key nor closes it to the old one.           *)
KeysOpenAsDeployed ==
    \A r \in Requests : requests[r].kind = "api" =>
        /\ requests[r].phase \in {"waiting", "holding"} \/ requests[r].status \in {200, 500}
             => requests[r].key \in Deployed("admin_api_key")
        /\ requests[r].status = 401
             => Deployed("admin_api_key") # {requests[r].key}

(* The readiness probe says ok only if the database was up at some moment  *)
(* since the probe came in (health.go:20-31 fails closed): being built,    *)
(* or having been ready before, is not enough.                             *)
ReadyIsVouched ==
    \A r \in Requests :
        requests[r].kind = "readyz" /\ requests[r].status = 200 => r \in met

(* Every probe is answered, whatever the database does and however long    *)
(* admin requests hold every connection of the pool: the two seconds of    *)
(* health.go:22 cover the wait for a connection as well as the ping.       *)
ProbesAnswer ==
    \A r \in Requests :
        (requests[r].kind # "api" /\ requests[r].phase \in {"arrived", "waiting", "holding"})
            ~> requests[r].phase \in {"done", "idle"}
=============================================================================
