----------------------------- MODULE HealthCheck -----------------------------
(***************************************************************************)
(* GET /health/ as Docker and a load balancer or monitor use it, against a *)
(* PostgreSQL and a Redis that stop and start.                             *)
(*                                                                         *)
(* Each thread of the web server owns a database connection and keeps it   *)
(* from request to request (CONN_MAX_AGE), unchecked: the probe only opens *)
(* a connection where there is none.  All probes share one cache key.      *)
(***************************************************************************)
EXTENDS Integers

CONSTANTS
    Threads,        \* threads that serve one HTTP connection each
    Docker,         \* the one among them that serves Docker's probes
    MaxAge,         \* CONN_MAX_AGE
    KeyTimeout,     \* timeout of the key "health_check"
    Retries         \* retries of the health check in docker-compose.yml

ASSUME HealthAssumption ==
    /\ Docker \in Threads
    /\ MaxAge \in Nat \ {0}
    /\ KeyTimeout \in Nat \ {0}
    /\ Retries \in Nat \ {0}

VARIABLES
    database,       \* "up" or "down"
    redis,          \* "up" or "down"
    connection,     \* each thread's connection: "none", "alive" or "broken"
    age,            \* time since it was opened, up to MaxAge
    key,            \* time the key has left, 0 when it is not there
    pc,             \* where each thread is in get()
    health,         \* what get() has found so far
    answer,         \* the last status each other thread returned, 0 before
    container,      \* what Docker shows: "starting", "healthy", "unhealthy"
    streak,         \* failures in a row that Docker has counted
    downFor,        \* history: time since the database was up, up to MaxAge
    seen,           \* history: downFor when a probe began, 0 if up since then
    waited,         \* history: time since a probe set the key, up to KeyTimeout
    mishap,         \* history: a call failed or the key was lost since then
    failures        \* history: requests failed in a row with the database up

dockerVars  == <<container, streak>>
historyVars == <<downFor, seen, waited, mishap, failures>>
probeVars   == <<pc, health, answer>>
serverVars  == <<database, redis, key>>
vars == <<serverVars, connection, age, probeVars, dockerVars, historyVars>>

Found == {"unknown", "ok", "error"}
Nothing == [database |-> "unknown", cache |-> "unknown"]

TypeOK ==
    /\ database \in {"up", "down"}
    /\ redis \in {"up", "down"}
    /\ connection \in [Threads -> {"none", "alive", "broken"}]
    /\ age \in [Threads -> 0 .. MaxAge]
    /\ key \in 0 .. KeyTimeout
    /\ pc \in [Threads -> {"idle", "database", "set", "get", "answer"}]
    /\ health \in [Threads -> [database : Found, cache : Found]]
    /\ answer \in [Threads -> {0, 200, 503}]
    /\ container \in {"starting", "healthy", "unhealthy"}
    /\ streak \in 0 .. Retries
    /\ downFor \in 0 .. MaxAge
    /\ seen \in [Threads -> 0 .. MaxAge]
    /\ waited \in [Threads -> 0 .. KeyTimeout]
    /\ mishap \in [Threads -> BOOLEAN]
    /\ failures \in [Threads -> 0 .. 2]

Init ==
    /\ database = "up" /\ redis = "up"
    /\ connection = [t \in Threads |-> "none"]
    /\ age = [t \in Threads |-> 0]
    /\ key = 0
    /\ pc = [t \in Threads |-> "idle"]
    /\ health = [t \in Threads |-> Nothing]
    /\ answer = [t \in Threads |-> 0]
    /\ container = "starting" /\ streak = 0
    /\ downFor = 0
    /\ seen = [t \in Threads |-> 0]
    /\ waited = [t \in Threads |-> 0]
    /\ mishap = [t \in Threads |-> FALSE]
    /\ failures = [t \in Threads |-> 0]

-----------------------------------------------------------------------------
(* The connection of a thread.                                             *)

(* Mutant of Kept: CONN_MAX_AGE is None.                                   *)
KeptForever(t) == connection[t]

(* What close_old_connections leaves at the start and the end of a         *)
(* request: a connection older than CONN_MAX_AGE is closed.                *)
Kept(t) == IF age[t] = MaxAge THEN "none" ELSE connection[t]

(* Mutant of AfterQuery: the broken connection stays.                      *)
BrokenStays(c) == IF c # "broken" /\ database = "up" THEN "alive" ELSE c

(* A query connects where there is no connection.  On a connection the     *)
(* database has dropped it fails, and the end of the request closes that.  *)
AfterQuery(c) == IF c # "broken" /\ database = "up" THEN "alive" ELSE "none"

(* Thread t goes on with connection c, having started from connection old. *)
Connect(t, old, c) ==
    /\ connection' = [connection EXCEPT ![t] = c]
    /\ age' = [age EXCEPT ![t] = IF "none" \in {old, c} THEN 0 ELSE @]

-----------------------------------------------------------------------------
(* The probe.                                                              *)

Begin(t) ==
    /\ pc[t] = "idle"
    /\ Connect(t, connection[t], Kept(t))
    /\ pc' = [pc EXCEPT ![t] = "database"]
    /\ seen' = [seen EXCEPT ![t] = downFor]
    /\ UNCHANGED <<serverVars, health, answer, dockerVars, downFor, waited, mishap,
                   failures>>

(* connection.ensure_connection(): nothing happens where one is open.      *)
CheckDatabase(t) ==
    /\ pc[t] = "database"
    /\ LET open == connection[t] # "none" \/ database = "up" IN
        /\ health' = [health EXCEPT ![t].database = IF open THEN "ok" ELSE "error"]
        /\ Connect(t, connection[t],
                   IF open /\ connection[t] = "none" THEN "alive" ELSE connection[t])
    /\ pc' = [pc EXCEPT ![t] = "set"]
    /\ UNCHANGED <<serverVars, answer, dockerVars, historyVars>>

(* Mutant of SetKey: the key gets the default timeout of the cache.        *)
SetWithDefault(t) ==
    /\ pc[t] = "set"
    /\ redis = "up"
    /\ key' = KeyTimeout + MaxAge
    /\ pc' = [pc EXCEPT ![t] = "get"]
    /\ waited' = [waited EXCEPT ![t] = 0]
    /\ mishap' = [mishap EXCEPT ![t] = FALSE]
    /\ UNCHANGED <<database, redis, connection, age, health, answer, dockerVars, downFor,
                   seen, failures>>

SetKey(t) ==
    /\ pc[t] = "set"
    /\ redis = "up"
    /\ key' = KeyTimeout
    /\ pc' = [pc EXCEPT ![t] = "get"]
    /\ waited' = [waited EXCEPT ![t] = 0]
    /\ mishap' = [mishap EXCEPT ![t] = FALSE]
    /\ UNCHANGED <<database, redis, connection, age, health, answer, dockerVars,
                   downFor, seen, failures>>

(* Mutant of GetKey: the probe cleans up after itself.                     *)
GetAndDelete(t) ==
    /\ pc[t] = "get"
    /\ redis = "up"
    /\ health' = [health EXCEPT ![t].cache = IF key > 0 THEN "ok" ELSE "error"]
    /\ key' = 0
    /\ pc' = [pc EXCEPT ![t] = "answer"]
    /\ UNCHANGED <<database, redis, connection, age, answer, dockerVars, historyVars>>

GetKey(t) ==
    /\ pc[t] = "get"
    /\ redis = "up"
    /\ health' = [health EXCEPT ![t].cache = IF key > 0 THEN "ok" ELSE "error"]
    /\ pc' = [pc EXCEPT ![t] = "answer"]
    /\ UNCHANGED <<serverVars, connection, age, answer, dockerVars, historyVars>>

(* A call to Redis raises: Redis is down, or its reply is late and a set   *)
(* may have taken effect all the same.  The rest of the try is skipped.    *)
CacheFails(t) ==
    /\ pc[t] \in {"set", "get"}
    /\ health' = [health EXCEPT ![t].cache = "error"]
    /\ key' \in IF redis = "up" /\ pc[t] = "set" THEN {key, KeyTimeout} ELSE {key}
    /\ pc' = [pc EXCEPT ![t] = "answer"]
    /\ mishap' = [mishap EXCEPT ![t] = TRUE]
    /\ UNCHANGED <<database, redis, connection, age, answer, dockerVars, downFor,
                   seen, waited, failures>>

(* What Docker makes of a probe, once start_period is over.                *)
Count(ok) ==
    IF ok
    THEN streak' = 0 /\ container' = "healthy"
    ELSE /\ streak' = IF streak = Retries THEN streak ELSE streak + 1
         /\ container' = IF streak' = Retries THEN "unhealthy" ELSE container

(* A probe is over: what it has found is of no use any more.               *)
Forget(t) ==
    /\ health' = [health EXCEPT ![t] = Nothing]
    /\ seen' = [seen EXCEPT ![t] = 0]
    /\ waited' = [waited EXCEPT ![t] = 0]
    /\ mishap' = [mishap EXCEPT ![t] = FALSE]
    /\ UNCHANGED <<downFor, failures>>

(* The answer is sent.  Docker closes its HTTP connection, which ends the  *)
(* thread and closes the database connection with it.                      *)
Answer(t) ==
    LET ok == health[t] = [database |-> "ok", cache |-> "ok"] IN
    /\ pc[t] = "answer"
    /\ pc' = [pc EXCEPT ![t] = "idle"]
    /\ Connect(t, connection[t], IF t = Docker THEN "none" ELSE Kept(t))
    /\ IF t = Docker
       THEN Count(ok) /\ UNCHANGED answer
       ELSE answer' = [answer EXCEPT ![t] = IF ok THEN 200 ELSE 503] /\ UNCHANGED dockerVars
    /\ Forget(t)
    /\ UNCHANGED serverVars

(* Docker's timeout: the failure counts, whatever the thread still finds.  *)
TimeOut ==
    /\ pc[Docker] # "idle"
    /\ pc' = [pc EXCEPT ![Docker] = "idle"]
    /\ Connect(Docker, connection[Docker], "none")
    /\ Count(FALSE)
    /\ Forget(Docker)
    /\ UNCHANGED <<serverVars, answer>>

-----------------------------------------------------------------------------
(* Everything else.                                                        *)

(* A thread serves another request of its HTTP connection, with queries.   *)
Serve(t) ==
    /\ pc[t] = "idle" /\ t # Docker
    /\ Connect(t, Kept(t), AfterQuery(Kept(t)))
    /\ failures' = [failures EXCEPT ![t] =
            IF database = "up" /\ Kept(t) = "broken" THEN IF @ < 2 THEN @ + 1 ELSE 2 ELSE 0]
    /\ UNCHANGED <<serverVars, probeVars, dockerVars, downFor, seen, waited, mishap>>

(* The client closes the HTTP connection; the next one gets a new thread.  *)
ThreadEnds(t) ==
    /\ pc[t] = "idle"
    /\ Connect(t, connection[t], "none")
    /\ failures' = [failures EXCEPT ![t] = 0]
    /\ UNCHANGED <<serverVars, probeVars, dockerVars, downFor, seen, waited, mishap>>

DatabaseStops ==
    /\ database = "up"
    /\ database' = "down"
    /\ connection' = [t \in Threads |-> IF connection[t] = "alive" THEN "broken" ELSE connection[t]]
    /\ failures' = [t \in Threads |-> 0]
    /\ UNCHANGED <<redis, key, age, probeVars, dockerVars, downFor, seen, waited, mishap>>

DatabaseStarts ==
    /\ database = "down"
    /\ database' = "up"
    /\ downFor' = 0
    /\ seen' = [t \in Threads |-> 0]
    /\ UNCHANGED <<redis, key, connection, age, probeVars, dockerVars, waited, mishap,
                   failures>>

RedisStops ==
    /\ redis = "up"
    /\ redis' = "down"
    /\ mishap' = [t \in Threads |-> mishap[t] \/ pc[t] = "get"]
    /\ UNCHANGED <<database, key, connection, age, probeVars, dockerVars, downFor, seen,
                   waited, failures>>

(* The append-only file brings the key back unless it was written last.    *)
RedisStarts ==
    /\ redis = "down"
    /\ redis' = "up"
    /\ key' \in {0, key}
    /\ UNCHANGED <<database, connection, age, probeVars, dockerVars, historyVars>>

(* Redis is at maxmemory and evicts the key (allkeys-lru).                 *)
Evict ==
    /\ redis = "up" /\ key > 0
    /\ key' = 0
    /\ mishap' = [t \in Threads |-> mishap[t] \/ pc[t] = "get"]
    /\ UNCHANGED <<database, redis, connection, age, probeVars, dockerVars, downFor,
                   seen, waited, failures>>

(* Time passes.                                                            *)
Tick ==
    /\ key' = IF key = 0 THEN 0 ELSE key - 1
    /\ age' = [t \in Threads |->
            IF connection[t] = "none" \/ age[t] = MaxAge THEN age[t] ELSE age[t] + 1]
    /\ downFor' = IF database = "up" \/ downFor = MaxAge THEN downFor ELSE downFor + 1
    /\ waited' = [t \in Threads |->
            IF pc[t] = "get" /\ waited[t] < KeyTimeout THEN waited[t] + 1 ELSE waited[t]]
    /\ UNCHANGED <<database, redis, connection, probeVars, dockerVars, seen, mishap,
                   failures>>

-----------------------------------------------------------------------------

Probe(t) ==
    \/ Begin(t) \/ CheckDatabase(t) \/ SetKey(t) \/ GetKey(t)
    \/ CacheFails(t) \/ Answer(t)

Environment ==
    \/ DatabaseStops \/ DatabaseStarts \/ RedisStops \/ RedisStarts
    \/ Evict \/ TimeOut

Next ==
    \/ \E t \in Threads : Probe(t) \/ Serve(t) \/ ThreadEnds(t)
    \/ Tick
    \/ Environment

Spec == Init /\ [][Next]_vars

(* Docker and the monitor probe at their intervals, a probe that has begun *)
(* goes on, and clocks run.  No fault and no other request is obliged to   *)
(* happen.                                                                 *)
Fairness ==
    /\ \A t \in Threads : WF_vars(Probe(t))
    /\ WF_vars(Tick)

FairSpec == Spec /\ Fairness

-----------------------------------------------------------------------------
(* Properties.                                                             *)

(* "database: ok" may be stale, as an open connection is not tried, but    *)
(* not by more than CONN_MAX_AGE: the database was up within that time     *)
(* before the probe began, or since.                                       *)
DatabaseOkRecent ==
    \A t \in Threads : health[t].database = "ok" => seen[t] < MaxAge

(* Probes that share the key do not disturb each other: "cache: error"     *)
(* takes a call that fails, a key Redis loses after this probe has set it, *)
(* or a probe that is itself slower than the key's timeout.                *)
CacheErrorExplained ==
    \A t \in Threads :
        health[t].cache = "error" => mishap[t] \/ waited[t] = KeyTimeout

(* After the database has come back, a thread fails one request at most on *)
(* the connection it had before.                                           *)
OneFailurePerOutage == \A t \in Threads : failures[t] < 2

(* When the database stays down, Docker shows it, and every thread says so *)
(* once the connection it had is old enough.                               *)
OutageNoticed ==
    <>[](database = "down") =>
        <>[](container = "unhealthy" /\ \A t \in Threads \ {Docker} : answer[t] = 503)

(* A call that is late, a key that is lost, or one that expires before the *)
(* probe that has set it can read it.                                      *)
Disturbance ==
    \/ Evict \/ TimeOut
    \/ \E t \in Threads : CacheFails(t)
    \/ Tick /\ \E t \in Threads : waited'[t] = KeyTimeout

(* When both stay up and respond, the container becomes healthy again.     *)
RecoveryNoticed ==
    <>[](database = "up" /\ redis = "up") /\ <>[][~Disturbance]_vars =>
        <>[](container = "healthy" /\ \A t \in Threads \ {Docker} : answer[t] = 200)
=============================================================================
