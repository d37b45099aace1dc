-------------------------- MODULE HealthCheckProofs --------------------------
(***************************************************************************)
(* What a probe reports, for any number of threads, any CONN_MAX_AGE and   *)
(* any timeout of the key.                                                 *)
(***************************************************************************)
EXTENDS HealthCheck, TLAPS

(* What a probe has found so far goes with where it is.                    *)
Progress ==
    \A t \in Threads :
        /\ pc[t] \in {"idle", "database"} => health[t].database = "unknown"
        /\ pc[t] # "answer" => health[t].cache = "unknown"

(* A connection was opened while the database was up, so the database has  *)
(* not been down for longer than the connection is old.                    *)
Connections ==
    /\ database = "up" => downFor = 0 /\ \A t \in Threads : seen[t] = 0
    /\ \A t \in Threads :
        /\ connection[t] = "alive" => database = "up"
        /\ connection[t] # "none" => downFor <= age[t]
        /\ pc[t] = "database" /\ connection[t] # "none" => seen[t] < MaxAge

(* Between its set and its get a probe finds the key for as long as it     *)
(* lasts; other probes only make it last longer.                           *)
KeyLasts ==
    \A t \in Threads :
        pc[t] = "get" /\ ~mishap[t] => redis = "up" /\ key + waited[t] >= KeyTimeout

(* The request that fails takes the broken connection with it.             *)
BrokenOnce ==
    \A t \in Threads : failures[t] > 0 => database = "up" /\ connection[t] # "broken"

Safe == DatabaseOkRecent /\ CacheErrorExplained /\ OneFailurePerOutage

IInv == TypeOK /\ Progress /\ Connections /\ KeyLasts /\ BrokenOnce /\ Safe

(* The constants as numbers.                                               *)
LEMMA Bounds ==
    /\ Docker \in Threads
    /\ MaxAge \in Nat /\ MaxAge > 0
    /\ KeyTimeout \in Nat /\ KeyTimeout > 0
    /\ Retries \in Nat /\ Retries > 0
BY HealthAssumption

USE Bounds

LEMMA InitIInv == Init => IInv
BY DEF Init, IInv, TypeOK, Progress, Connections, KeyLasts, BrokenOnce, Safe, Found, Nothing,
       DatabaseOkRecent, CacheErrorExplained, OneFailurePerOutage

LEMMA Saturates ==
    ASSUME NEW n \in Nat, NEW a \in 0 .. n
    PROVE  (IF a = n THEN a ELSE a + 1) \in 0 .. n
OBVIOUS

LEMMA TypeStep == TypeOK /\ [Next]_vars => TypeOK'
<1> SUFFICES ASSUME TypeOK, [Next]_vars PROVE TypeOK'
  OBVIOUS
<1> USE DEF TypeOK, Found, Nothing
<1>1. ASSUME NEW t \in Threads, Begin(t) PROVE TypeOK'
  BY <1>1 DEF Begin, Connect, Kept, serverVars, dockerVars
<1>2. ASSUME NEW t \in Threads, CheckDatabase(t) PROVE TypeOK'
  BY <1>2 DEF CheckDatabase, Connect, serverVars, dockerVars, historyVars
<1>3. ASSUME NEW t \in Threads, SetKey(t) PROVE TypeOK'
  BY <1>3 DEF SetKey, dockerVars
<1>4. ASSUME NEW t \in Threads, GetKey(t) PROVE TypeOK'
  BY <1>4 DEF GetKey, serverVars, dockerVars, historyVars
<1>5. ASSUME NEW t \in Threads, CacheFails(t) PROVE TypeOK'
  BY <1>5 DEF CacheFails, dockerVars
<1>6. ASSUME NEW t \in Threads, Answer(t) PROVE TypeOK'
  BY <1>6 DEF Answer, Count, Forget, Connect, Kept, serverVars, dockerVars
<1>7. ASSUME NEW t \in Threads, Serve(t) PROVE TypeOK'
  BY <1>7 DEF Serve, Connect, Kept, AfterQuery, serverVars, probeVars, dockerVars
<1>8. ASSUME NEW t \in Threads, ThreadEnds(t) PROVE TypeOK'
  BY <1>8 DEF ThreadEnds, Connect, serverVars, probeVars, dockerVars
<1>9. ASSUME Tick PROVE TypeOK'
  <2>1. key' \in 0 .. KeyTimeout /\ downFor' \in 0 .. MaxAge
    BY <1>9 DEF Tick
  <2>2. age' \in [Threads -> 0 .. MaxAge]
    <3>1. ASSUME NEW t \in Threads
          PROVE  (IF connection[t] = "none" \/ age[t] = MaxAge THEN age[t] ELSE age[t] + 1)
                    \in 0 .. MaxAge
      <4>1. age[t] \in 0 .. MaxAge
        OBVIOUS
      <4> HIDE DEF TypeOK
      <4>2. QED
        BY <4>1, Saturates
    <3>2. QED
      BY <1>9, <3>1 DEF Tick
  <2>3. waited' \in [Threads -> 0 .. KeyTimeout]
    BY <1>9 DEF Tick
  <2>4. QED
    BY <1>9, <2>1, <2>2, <2>3, Zenon DEF Tick, probeVars, dockerVars
<1>10. ASSUME TimeOut PROVE TypeOK'
  BY <1>10 DEF TimeOut, Count, Forget, Connect, serverVars
<1>11. ASSUME DatabaseStops \/ DatabaseStarts PROVE TypeOK'
  BY <1>11 DEF DatabaseStops, DatabaseStarts, probeVars, dockerVars
<1>12. ASSUME RedisStops \/ RedisStarts \/ Evict PROVE TypeOK'
  <2>1. CASE RedisStarts
    BY <2>1 DEF RedisStarts, probeVars, dockerVars, historyVars
  <2>2. CASE RedisStops \/ Evict
    <3>1. mishap' = [t \in Threads |-> mishap[t] \/ pc[t] = "get"]
      BY <2>2, Zenon DEF RedisStops, Evict
    <3> HIDE DEF TypeOK
    <3>a. \A t \in Threads : (mishap[t] \/ pc[t] = "get") \in BOOLEAN
      BY Zenon
    <3>b. mishap' \in [Threads -> BOOLEAN]
      BY <3>1, <3>a, Zenon
    <3> USE DEF TypeOK
    <3>2. QED
      BY <2>2, <3>b DEF RedisStops, Evict, probeVars, dockerVars
  <2>3. QED
    BY <1>12, <2>1, <2>2
<1>13. ASSUME UNCHANGED vars PROVE TypeOK'
  BY <1>13 DEF vars, serverVars, probeVars, dockerVars, historyVars
<1>14. QED
  BY <1>1, <1>2, <1>3, <1>4, <1>5, <1>6, <1>7, <1>8, <1>9, <1>10, <1>11, <1>12, <1>13
     DEF Next, Probe, Environment

LEMMA SafeStep == IInv /\ TypeOK' /\ [Next]_vars =>
    Progress' /\ Connections' /\ KeyLasts' /\ BrokenOnce' /\ Safe'
<1> DEFINE Goal == Progress' /\ Connections' /\ KeyLasts' /\ BrokenOnce' /\ Safe'
<1> SUFFICES ASSUME IInv, TypeOK', [Next]_vars PROVE Goal
  OBVIOUS
<1> USE DEF IInv, TypeOK, Found, Nothing, Progress, Connections, KeyLasts, BrokenOnce, Safe,
            DatabaseOkRecent, CacheErrorExplained, OneFailurePerOutage
<1>1. ASSUME NEW t \in Threads, Begin(t) PROVE Goal
  <2>1. Progress' /\ KeyLasts' /\ CacheErrorExplained'
    BY <1>1 DEF Begin, serverVars
  <2>2. Connections'
    <3>1. UNCHANGED <<database, downFor>>
      BY <1>1 DEF Begin, serverVars
    <3>2. ASSUME NEW s \in Threads, s # t
          PROVE  UNCHANGED <<connection[s], age[s], seen[s], pc[s]>>
      BY <1>1, <3>2 DEF Begin, Connect
    <3>3. /\ seen'[t] = downFor
          /\ connection'[t] \in {"none", connection[t]}
          /\ connection'[t] # "none" => age'[t] = age[t] /\ age[t] # MaxAge
      BY <1>1 DEF Begin, Connect, Kept
    <3>4. Connections /\ downFor \in 0 .. MaxAge /\ age[t] \in 0 .. MaxAge
      OBVIOUS
    <3> HIDE DEF IInv, TypeOK
    <3>5. QED
      BY <3>1, <3>2, <3>3, <3>4
  <2>3. BrokenOnce' /\ OneFailurePerOutage'
    BY <1>1 DEF Begin, Connect, Kept, serverVars
  <2>4. DatabaseOkRecent'
    BY <1>1 DEF Begin
  <2>5. QED
    BY <2>1, <2>2, <2>3, <2>4
<1>2. ASSUME NEW t \in Threads, CheckDatabase(t) PROVE Goal
  BY <1>2 DEF CheckDatabase, Connect, serverVars, dockerVars, historyVars
<1>3. ASSUME NEW t \in Threads, SetKey(t) PROVE Goal
  BY <1>3 DEF SetKey, dockerVars
<1>4. ASSUME NEW t \in Threads, GetKey(t) PROVE Goal
  <2>1. Progress' /\ DatabaseOkRecent'
    BY <1>4 DEF GetKey, historyVars
  <2>2. Connections' /\ KeyLasts' /\ BrokenOnce' /\ OneFailurePerOutage'
    BY <1>4 DEF GetKey, serverVars, historyVars
  <2>3. key = 0 => mishap[t] \/ waited[t] = KeyTimeout
    <3>1. mishap[t] \/ key + waited[t] >= KeyTimeout
      BY <1>4, Zenon DEF GetKey
    <3>2. waited[t] \in 0 .. KeyTimeout
      OBVIOUS
    <3> HIDE DEF IInv, TypeOK
    <3>3. QED
      BY <3>1, <3>2
  <2>4. CacheErrorExplained'
    BY <1>4, <2>3 DEF GetKey, historyVars
  <2>5. QED
    BY <2>1, <2>2, <2>4
<1>5. ASSUME NEW t \in Threads, CacheFails(t) PROVE Goal
  BY <1>5 DEF CacheFails, dockerVars
<1>6. ASSUME NEW t \in Threads, Answer(t) PROVE Goal
  BY <1>6 DEF Answer, Forget, Connect, Kept, serverVars
<1>7. ASSUME NEW t \in Threads, Serve(t) PROVE Goal
  BY <1>7 DEF Serve, Connect, Kept, AfterQuery, serverVars, probeVars, dockerVars
<1>8. ASSUME NEW t \in Threads, ThreadEnds(t) PROVE Goal
  BY <1>8 DEF ThreadEnds, Connect, serverVars, probeVars, dockerVars
<1>9. ASSUME Tick PROVE Goal
  BY <1>9 DEF Tick, probeVars, dockerVars
<1>10. ASSUME TimeOut PROVE Goal
  BY <1>10 DEF TimeOut, Forget, Connect, serverVars
<1>11. ASSUME DatabaseStops \/ DatabaseStarts PROVE Goal
  BY <1>11 DEF DatabaseStops, DatabaseStarts, probeVars, dockerVars
<1>12. ASSUME RedisStops \/ RedisStarts \/ Evict PROVE Goal
  BY <1>12 DEF RedisStops, RedisStarts, Evict, probeVars, dockerVars, historyVars
<1>13. ASSUME UNCHANGED vars PROVE Goal
  BY <1>13 DEF vars, serverVars, probeVars, dockerVars, historyVars
<1>14. QED
  BY <1>1, <1>2, <1>3, <1>4, <1>5, <1>6, <1>7, <1>8, <1>9, <1>10, <1>11, <1>12, <1>13
     DEF Next, Probe, Environment

LEMMA Inductive == Spec => []IInv
<1>1. IInv /\ [Next]_vars => IInv'
  BY TypeStep, SafeStep DEF IInv
<1>2. QED
  BY InitIInv, <1>1, PTL DEF Spec

-----------------------------------------------------------------------------

(* Types, of the health check's threads, probes and dependencies.          *)
THEOREM TypesCorrect == Spec => []TypeOK
<1>1. IInv => TypeOK
  BY DEF IInv
<1>2. QED
  BY Inductive, <1>1, PTL

(* The outdated "database: ok" of ensure_connection is never older than    *)
(* CONN_MAX_AGE.                                                           *)
THEOREM OkIsRecent == Spec => []DatabaseOkRecent
<1>1. IInv => DatabaseOkRecent
  BY DEF IInv, Safe
<1>2. QED
  BY Inductive, <1>1, PTL

(* Any number of probes share the key without disturbing each other.       *)
THEOREM ErrorsAreExplained == Spec => []CacheErrorExplained
<1>1. IInv => CacheErrorExplained
  BY DEF IInv, Safe
<1>2. QED
  BY Inductive, <1>1, PTL

(* A restart of the database costs each thread one request at most.        *)
THEOREM OneFailure == Spec => []OneFailurePerOutage
<1>1. IInv => OneFailurePerOutage
  BY DEF IInv, Safe
<1>2. QED
  BY Inductive, <1>1, PTL
=============================================================================
