------------------------- MODULE AlertEngineProofs -------------------------
(***************************************************************************)
(* Type correctness of AlertEngine, and that every behavioural alert is    *)
(* emitted at most once and never lost before the dispatcher, for every    *)
(* number of sessions, states, concurrent hooks and every threshold.       *)
(***************************************************************************)
EXTENDS AlertEngine, SequenceTheorems, FiniteSetTheorems, TLAPS

\* A hook past LoadSession has a request and a state, and an event to emit
\* once it is past its detectors.
CallsOK ==
  \A c \in Calls :
    /\ pc[c] # "idle" => req[c] \in Request /\ ref[c] \in States
    /\ pc[c] = "emit" => evt[c] \in Behaviours

\* Where the one event of each raised pattern is.
OnceInv ==
  \A s \in States, p \in Behaviours :
    /\ emitted[s][p] <= 1
    /\ p \notin alerted[s] => emitted[s][p] = 0 /\ \A c \in Calls : ~Holds(c, s, p)
    /\ p \in alerted[s] => emitted[s][p] = 1 \/ \E c \in Calls : Holds(c, s, p)
    /\ \A c \in Calls : Holds(c, s, p) => emitted[s][p] = 0
    /\ \A c, d \in Calls : Holds(c, s, p) /\ Holds(d, s, p) => c = d

EngineInv == TypeOK /\ CallsOK /\ OnceInv
-----------------------------------------------------------------------------
LEMMA TrimType ==
  ASSUME NEW q \in Seq(Nat), NEW cutoff \in Int
  PROVE  Trim(q, cutoff) \in Seq(Nat)
<1> DEFINE dropped == {i \in 1..Len(q) : \A j \in 1..i : q[j] < cutoff}
<1>1. Cardinality(dropped) \in Nat
  <2>1. IsFiniteSet(1..Len(q))
    BY FS_Interval
  <2> QED BY <2>1, FS_Subset, FS_CardinalityType
<1> HIDE DEF dropped
<1>2. SubSeq(q, Cardinality(dropped) + 1, Len(q)) \in Seq(Nat)
  <2>1. \A i \in (Cardinality(dropped) + 1)..Len(q) : q[i] \in Nat
    BY <1>1
  <2> QED BY <1>1, <2>1, SubSeqProperties
<1> QED BY <1>2 DEF Trim, dropped

\* Setting one counter of a two-level table.
LEMMA SetCounter ==
  ASSUME NEW A, NEW B, NEW f \in [A -> [B -> Nat]], NEW a \in A, NEW b \in B,
         NEW n \in Nat, NEW g, g = [f EXCEPT ![a][b] = n]
  PROVE  /\ g \in [A -> [B -> Nat]]
         /\ \A x \in A, y \in B : g[x][y] = IF x = a /\ y = b THEN n ELSE f[x][y]
<1> DEFINE row == [f[a] EXCEPT ![b] = n]
<1>1. row \in [B -> Nat] /\ \A y \in B : row[y] = IF y = b THEN n ELSE f[a][y]
  OBVIOUS
<1>2. g = [f EXCEPT ![a] = row]
  OBVIOUS
<1> HIDE DEF row
<1> QED BY <1>1, <1>2

\* A request and its state, as every hook in its detectors has them.
LEMMA Observing ==
  ASSUME EngineInv, NEW c \in Calls, pc[c] = "observe"
  PROVE  /\ req[c] \in Request /\ ref[c] \in States
         /\ req[c].tool \in Tools /\ req[c].path \in Paths \cup {None}
BY DEF EngineInv, CallsOK, Request

LEMMA ClassType == ASSUME NEW t PROVE ClassOf(t) \in SUBSET Classes
BY DEF ClassOf, Classes

\* What a successful call does to the fields stays in their types.
LEMMA FieldTypes ==
  ASSUME EngineInv, NEW s \in States, NEW r \in Request
  PROVE  /\ ReconAfter(s, r) \in SUBSET Paths
         /\ HasAfter(s, r) \in SUBSET Classes
         /\ RecentAfter(s) \in Seq(Nat)
<1>1. ReconAfter(s, r) \in SUBSET Paths
  BY SetAssumption DEF EngineInv, TypeOK, ReconAfter
<1>2. HasAfter(s, r) \in SUBSET Classes
  BY ClassType DEF EngineInv, TypeOK, HasAfter
<1>3. RecentAfter(s) \in Seq(Nat)
  <2>1. recentReads[s] \in Seq(Nat) /\ clock \in Nat
    BY DEF EngineInv, TypeOK
  <2>2. Append(recentReads[s], clock) \in Seq(Nat)
    BY <2>1, AppendProperties
  <2>3. clock - ReadWindow \in Int
    BY <2>1, ThresholdAssumption
  <2> QED BY <2>2, <2>3, TrimType DEF RecentAfter
<1> QED BY <1>1, <1>2, <1>3
-----------------------------------------------------------------------------
\* The two ways a hook leaves its detectors.
LEMMA DetectInv ==
  ASSUME EngineInv, NEW c \in Calls, NEW p \in Behaviours, pc[c] = "observe",
         p \notin alerted[ref[c]], Detect(c, p), UNCHANGED emitted
  PROVE  /\ CallsOK' /\ OnceInv'
         /\ alerted' \in [States -> SUBSET Behaviours]
         /\ pc' \in [Calls -> {"idle", "observe", "emit"}]
         /\ req' \in [Calls -> Request \cup {None}]
         /\ ref' \in [Calls -> States \cup {None}]
         /\ evt' \in [Calls -> Behaviours \cup {None}]
<1> DEFINE s0 == ref[c]
<1>1. s0 \in States /\ req[c] \in Request
  BY Observing
<1>2. CallsOK'
  BY <1>1 DEF EngineInv, TypeOK, CallsOK, Detect
<1>3. \A s \in States, q \in Behaviours, d \in Calls :
        Holds(d, s, q)' <=> (Holds(d, s, q) \/ (d = c /\ s = s0 /\ q = p))
  BY <1>1 DEF EngineInv, TypeOK, Detect, Holds
<1>4. \A s \in States, q \in Behaviours :
        q \in alerted'[s] <=> (q \in alerted[s] \/ (s = s0 /\ q = p))
  BY <1>1 DEF EngineInv, TypeOK, Detect
<1>5. OnceInv'
  BY <1>1, <1>3, <1>4 DEF EngineInv, OnceInv
<1> QED BY <1>1, <1>2, <1>5 DEF EngineInv, TypeOK, Detect

LEMMA ReturnInv ==
  ASSUME EngineInv, NEW c \in Calls, pc[c] = "observe", Return(c),
         UNCHANGED <<alerted, emitted>>
  PROVE  /\ CallsOK' /\ OnceInv'
         /\ alerted' \in [States -> SUBSET Behaviours]
         /\ pc' \in [Calls -> {"idle", "observe", "emit"}]
         /\ req' \in [Calls -> Request \cup {None}]
         /\ ref' \in [Calls -> States \cup {None}]
         /\ evt' \in [Calls -> Behaviours \cup {None}]
<1>1. CallsOK'
  BY DEF EngineInv, TypeOK, CallsOK, Return
<1>2. \A s \in States, q \in Behaviours, d \in Calls :
        Holds(d, s, q)' <=> Holds(d, s, q)
  BY DEF EngineInv, TypeOK, Return, Holds
<1>3. OnceInv'
  BY <1>2 DEF EngineInv, OnceInv
<1> QED BY <1>1, <1>3 DEF EngineInv, TypeOK, Return

\* Steps that leave the hooks and the alerts alone.
LEMMA QuietInv ==
  ASSUME EngineInv, UNCHANGED <<callVars, alerted, emitted>>
  PROVE  CallsOK' /\ OnceInv'
BY DEF EngineInv, CallsOK, OnceInv, Holds, callVars

LEMMA LoadInv ==
  ASSUME EngineInv, NEW c \in Calls, NEW r \in Inputs, LoadSession(c, r)
  PROVE  EngineInv'
<1> USE DEF LoadSession, Inputs, vars
<1>1. CASE sessions[r.sid] = None
  <2>1. CallsOK' /\ OnceInv'
    BY <1>1, QuietInv DEF emitVars, stateVars, callVars
  <2>2. TypeOK'
    BY <1>1 DEF EngineInv, TypeOK, emitVars, stateVars, callVars
  <2> QED BY <2>1, <2>2 DEF EngineInv
<1>2. CASE sessions[r.sid] # None
  <2>1. r \in Request /\ sessions[r.sid] \in States
    BY <1>2 DEF EngineInv, TypeOK, Request
  <2>2. TypeOK'
    <3>1. /\ pc' \in [Calls -> {"idle", "observe", "emit"}]
          /\ req' \in [Calls -> Request \cup {None}]
          /\ ref' \in [Calls -> States \cup {None}]
          /\ evt' \in [Calls -> Behaviours \cup {None}]
          /\ started' \in Nat
      <4>1. /\ pc' = [pc EXCEPT ![c] = "observe"]
            /\ req' = [req EXCEPT ![c] = r]
            /\ ref' = [ref EXCEPT ![c] = sessions[r.sid]]
            /\ evt' = evt /\ started' = started + 1
        BY <1>2
      <4> HIDE DEF LoadSession, Inputs, vars
      <4> QED BY <2>1, <4>1 DEF EngineInv, TypeOK
    <3>2. UNCHANGED <<clock, sessions, phase, created, reconPaths, has, recentReads,
                      errCounts, alerted, emitted, connections, canaryAlerts>>
      BY DEF emitVars, stateVars
    <3> HIDE DEF LoadSession, Inputs, vars
    <3> QED BY <3>1, <3>2 DEF EngineInv, TypeOK
  <2>3. CallsOK'
    BY <1>2, <2>1 DEF EngineInv, TypeOK, CallsOK
  <2>4. \A s \in States, q \in Behaviours, d \in Calls :
          Holds(d, s, q)' <=> Holds(d, s, q)
    BY <1>2 DEF EngineInv, TypeOK, Holds
  <2>5. OnceInv'
    BY <2>4 DEF EngineInv, OnceInv, emitVars, stateVars
  <2> QED BY <2>2, <2>3, <2>5 DEF EngineInv
<1> QED BY <1>1, <1>2

LEMMA ObserveErrorInv ==
  ASSUME EngineInv, NEW c \in Calls, ObserveError(c)
  PROVE  EngineInv'
<1> DEFINE s == ref[c]
           t == req[c].tool
<1>1. pc[c] = "observe" /\ UNCHANGED emitted
  BY DEF ObserveError, emitVars
<1>2. s \in States /\ t \in Tools
  BY <1>1, Observing
<1>3. errCounts' \in [States -> [Tools -> Nat]]
  <2>1. errCounts' = [errCounts EXCEPT ![s][t] = errCounts[s][t] + 1]
    BY DEF ObserveError
  <2>2. errCounts \in [States -> [Tools -> Nat]] /\ errCounts[s][t] + 1 \in Nat
    BY <1>2 DEF EngineInv, TypeOK
  <2> QED BY <1>2, <2>1, <2>2, SetCounter
<1>4. /\ CallsOK' /\ OnceInv'
      /\ alerted' \in [States -> SUBSET Behaviours]
      /\ pc' \in [Calls -> {"idle", "observe", "emit"}]
      /\ req' \in [Calls -> Request \cup {None}]
      /\ ref' \in [Calls -> States \cup {None}]
      /\ evt' \in [Calls -> Behaviours \cup {None}]
  <2>1. CASE RetryFires(s, t) /\ Detect(c, "retry")
    BY <1>1, <2>1, DetectInv DEF RetryFires, Behaviours
  <2>2. CASE Return(c) /\ UNCHANGED alerted
    BY <1>1, <2>2, ReturnInv
  <2> QED BY <2>1, <2>2 DEF ObserveError
<1> QED
  BY <1>3, <1>4 DEF ObserveError, EngineInv, TypeOK, emitVars

LEMMA SucceedTypes ==
  ASSUME EngineInv, NEW c \in Calls, Succeed(c)
  PROVE  /\ pc[c] = "observe" /\ UNCHANGED emitted
         /\ ref[c] \in States /\ req[c] \in Request /\ req[c].tool \in Tools
         /\ errCounts' \in [States -> [Tools -> Nat]]
         /\ reconPaths' \in [States -> SUBSET Paths]
<1>1. pc[c] = "observe" /\ UNCHANGED emitted
  BY DEF Succeed, emitVars
<1>2. ref[c] \in States /\ req[c] \in Request /\ req[c].tool \in Tools
  BY <1>1, Observing
<1>3. errCounts' \in [States -> [Tools -> Nat]]
  BY <1>2 DEF Succeed, EngineInv, TypeOK
<1>4. reconPaths' \in [States -> SUBSET Paths]
  BY <1>2, FieldTypes DEF Succeed, EngineInv, TypeOK
<1> QED BY <1>1, <1>2, <1>3, <1>4

LEMMA ObserveReconInv ==
  ASSUME EngineInv, NEW c \in Calls, ObserveRecon(c)
  PROVE  EngineInv'
<1>1. Succeed(c) /\ ReconFires(ref[c], req[c]) /\ Detect(c, "recon")
  BY DEF ObserveRecon
<1>2. /\ CallsOK' /\ OnceInv'
      /\ alerted' \in [States -> SUBSET Behaviours]
      /\ pc' \in [Calls -> {"idle", "observe", "emit"}]
      /\ req' \in [Calls -> Request \cup {None}]
      /\ ref' \in [Calls -> States \cup {None}]
      /\ evt' \in [Calls -> Behaviours \cup {None}]
  BY <1>1, SucceedTypes, DetectInv DEF ReconFires, Behaviours
<1>3. UNCHANGED <<clock, sessions, phase, created, has, recentReads, started, emitVars>>
  BY DEF ObserveRecon, Succeed
<1> QED
  BY <1>1, <1>2, <1>3, SucceedTypes DEF EngineInv, TypeOK, emitVars

LEMMA PastReconTypes ==
  ASSUME EngineInv, NEW c \in Calls, PastRecon(c)
  PROVE  has' \in [States -> SUBSET Classes]
<1>1. ref[c] \in States /\ req[c] \in Request
  BY SucceedTypes DEF PastRecon
<1> QED BY <1>1, FieldTypes DEF PastRecon, EngineInv, TypeOK

LEMMA ObserveEscalationInv ==
  ASSUME EngineInv, NEW c \in Calls, ObserveEscalation(c)
  PROVE  EngineInv'
<1>1. PastRecon(c) /\ Succeed(c) /\ EscalationFires(ref[c], req[c]) /\ Detect(c, "escalation")
  BY DEF ObserveEscalation, PastRecon
<1>2. /\ CallsOK' /\ OnceInv'
      /\ alerted' \in [States -> SUBSET Behaviours]
      /\ pc' \in [Calls -> {"idle", "observe", "emit"}]
      /\ req' \in [Calls -> Request \cup {None}]
      /\ ref' \in [Calls -> States \cup {None}]
      /\ evt' \in [Calls -> Behaviours \cup {None}]
  BY <1>1, SucceedTypes, DetectInv DEF EscalationFires, Behaviours
<1> QED
  BY <1>1, <1>2, SucceedTypes, PastReconTypes
  DEF ObserveEscalation, Succeed, EngineInv, TypeOK, emitVars

LEMMA ObserveCredentialInv ==
  ASSUME EngineInv, NEW c \in Calls, ObserveCredential(c)
  PROVE  EngineInv'
<1>1. PastRecon(c) /\ Succeed(c) /\ CredentialFires(ref[c], req[c]) /\ Detect(c, "exfil")
  BY DEF ObserveCredential, PastRecon
<1>2. /\ CallsOK' /\ OnceInv'
      /\ alerted' \in [States -> SUBSET Behaviours]
      /\ pc' \in [Calls -> {"idle", "observe", "emit"}]
      /\ req' \in [Calls -> Request \cup {None}]
      /\ ref' \in [Calls -> States \cup {None}]
      /\ evt' \in [Calls -> Behaviours \cup {None}]
  BY <1>1, SucceedTypes, DetectInv DEF CredentialFires, Behaviours
<1> QED
  BY <1>1, <1>2, SucceedTypes, PastReconTypes
  DEF ObserveCredential, Succeed, EngineInv, TypeOK, emitVars

LEMMA ObserveRestInv ==
  ASSUME EngineInv, NEW c \in Calls, ObserveRest(c)
  PROVE  EngineInv'
<1> DEFINE s == ref[c]
           r == req[c]
<1>1. PastRecon(c) /\ Succeed(c)
  BY DEF ObserveRest, PastRecon
<1>2. s \in States /\ r \in Request /\ pc[c] = "observe" /\ UNCHANGED emitted
  BY <1>1, SucceedTypes
<1>3. recentReads' \in [States -> Seq(Nat)]
  BY <1>2, FieldTypes DEF ObserveRest, EngineInv, TypeOK
<1>4. /\ CallsOK' /\ OnceInv'
      /\ alerted' \in [States -> SUBSET Behaviours]
      /\ pc' \in [Calls -> {"idle", "observe", "emit"}]
      /\ req' \in [Calls -> Request \cup {None}]
      /\ ref' \in [Calls -> States \cup {None}]
      /\ evt' \in [Calls -> Behaviours \cup {None}]
  <2>1. CASE BulkFires(s, r) /\ Detect(c, "exfil")
    BY <1>2, <2>1, DetectInv DEF BulkFires, Behaviours
  <2>2. CASE Return(c) /\ UNCHANGED alerted
    BY <1>2, <2>2, ReturnInv
  <2> QED BY <2>1, <2>2 DEF ObserveRest
<1> QED
  BY <1>1, <1>3, <1>4, SucceedTypes, PastReconTypes
  DEF Succeed, EngineInv, TypeOK, emitVars

LEMMA EmitInv ==
  ASSUME EngineInv, NEW c \in Calls, Emit(c)
  PROVE  EngineInv'
<1> DEFINE s0 == ref[c]
           p0 == evt[c]
<1>1. s0 \in States /\ p0 \in Behaviours /\ pc[c] = "emit"
  BY DEF Emit, EngineInv, CallsOK
<1>2. /\ emitted' \in [States -> [Behaviours -> Nat]]
      /\ \A s \in States, p \in Behaviours :
           emitted'[s][p] = IF s = s0 /\ p = p0 THEN emitted[s0][p0] + 1 ELSE emitted[s][p]
  <2>1. emitted' = [emitted EXCEPT ![s0][p0] = emitted[s0][p0] + 1]
    BY DEF Emit
  <2>2. /\ emitted \in [States -> [Behaviours -> Nat]]
        /\ emitted[s0][p0] + 1 \in Nat
    BY <1>1 DEF EngineInv, TypeOK
  <2> QED BY <1>1, <2>1, <2>2, SetCounter
<1>3. CallsOK'
  BY DEF Emit, Return, EngineInv, TypeOK, CallsOK
<1>4. \A s \in States, p \in Behaviours, d \in Calls :
        Holds(d, s, p)' <=> Holds(d, s, p) /\ d # c
  BY DEF Emit, Return, EngineInv, TypeOK, Holds
<1>5. TypeOK'
  BY <1>1, <1>2 DEF Emit, Return, EngineInv, TypeOK, stateVars
<1>6. Holds(c, s0, p0) /\ emitted[s0][p0] = 0 /\ p0 \in alerted[s0]
  BY <1>1 DEF EngineInv, OnceInv, Holds
<1>7. \A s \in States, p \in Behaviours : Holds(c, s, p) => s = s0 /\ p = p0
  BY DEF Holds
<1>8. alerted' = alerted
  BY DEF Emit, stateVars
<1>9. ASSUME NEW s \in States, NEW p \in Behaviours
      PROVE  /\ emitted'[s][p] <= 1
             /\ p \notin alerted'[s] => emitted'[s][p] = 0 /\ \A d \in Calls : ~Holds(d, s, p)'
             /\ p \in alerted'[s] => emitted'[s][p] = 1 \/ \E d \in Calls : Holds(d, s, p)'
             /\ \A d \in Calls : Holds(d, s, p)' => emitted'[s][p] = 0
             /\ \A d, e \in Calls : Holds(d, s, p)' /\ Holds(e, s, p)' => d = e
  <2>1. CASE s = s0 /\ p = p0
    BY <2>1, <1>1, <1>2, <1>4, <1>6, <1>8 DEF EngineInv, OnceInv
  <2>2. CASE ~(s = s0 /\ p = p0)
    BY <2>2, <1>1, <1>2, <1>4, <1>7, <1>8 DEF EngineInv, OnceInv
  <2> QED BY <2>1, <2>2
<1>10. OnceInv'
  BY <1>9 DEF OnceInv
<1> QED BY <1>3, <1>5, <1>10 DEF EngineInv
-----------------------------------------------------------------------------
LEMMA LifecycleInv ==
  ASSUME EngineInv, Lifecycle
  PROVE  EngineInv'
<1>1. ASSUME NEW i \in Sessions, NEW s \in States, InitSession(i, s)
      PROVE  EngineInv'
  <2>1. TypeOK'
    BY <1>1 DEF InitSession, EngineInv, TypeOK, stateVars, callVars, emitVars
  <2>2. CallsOK' /\ OnceInv'
    BY <1>1, QuietInv DEF InitSession, stateVars, emitVars
  <2> QED BY <2>1, <2>2 DEF EngineInv
<1>2. ASSUME NEW i \in Sessions, EmitConnection(i)
      PROVE  EngineInv'
  <2>1. TypeOK'
    BY <1>2 DEF EmitConnection, EngineInv, TypeOK, stateVars, callVars
  <2>2. CallsOK' /\ OnceInv'
    BY <1>2, QuietInv DEF EmitConnection, stateVars
  <2> QED BY <2>1, <2>2 DEF EngineInv
<1>3. ASSUME NEW i \in Sessions, FinalizeSession(i)
      PROVE  EngineInv'
  <2>1. TypeOK'
    BY <1>3 DEF FinalizeSession, EngineInv, TypeOK, stateVars, callVars, emitVars
  <2>2. CallsOK' /\ OnceInv'
    BY <1>3, QuietInv DEF FinalizeSession, stateVars, emitVars
  <2> QED BY <2>1, <2>2 DEF EngineInv
<1>4. ASSUME NEW i \in Sessions, ObserveCanaryFire(i)
      PROVE  EngineInv'
  <2>1. TypeOK'
    BY <1>4 DEF ObserveCanaryFire, EngineInv, TypeOK, stateVars, callVars
  <2>2. CallsOK' /\ OnceInv'
    BY <1>4, QuietInv DEF ObserveCanaryFire, stateVars
  <2> QED BY <2>1, <2>2 DEF EngineInv
<1> QED BY <1>1, <1>2, <1>3, <1>4 DEF Lifecycle

LEMMA TickInv ==
  ASSUME EngineInv, Tick
  PROVE  EngineInv'
<1>1. TypeOK'
  BY DEF Tick, EngineInv, TypeOK, stateVars, callVars, emitVars
<1>2. CallsOK' /\ OnceInv'
  BY QuietInv DEF Tick, stateVars, emitVars
<1> QED BY <1>1, <1>2 DEF EngineInv

LEMMA ObserveInv ==
  ASSUME EngineInv, NEW c \in Calls, Observe(c)
  PROVE  EngineInv'
BY ObserveErrorInv, ObserveReconInv, ObserveEscalationInv, ObserveCredentialInv,
   ObserveRestInv DEF Observe

LEMMA EngineInit == Init => EngineInv
<1> SUFFICES ASSUME Init PROVE EngineInv
  OBVIOUS
<1>1. TypeOK
  BY DEF Init, TypeOK
<1>2. CallsOK /\ OnceInv
  BY DEF Init, CallsOK, OnceInv, Holds
<1> QED BY <1>1, <1>2 DEF EngineInv

LEMMA EngineStep == EngineInv /\ [Next]_vars => EngineInv'
<1> SUFFICES ASSUME EngineInv, [Next]_vars PROVE EngineInv'
  OBVIOUS
<1>1. CASE Next
  BY <1>1, TickInv, LifecycleInv, LoadInv, ObserveInv, EmitInv DEF Next, Load
<1>2. CASE UNCHANGED vars
  <2>1. TypeOK'
    BY <1>2 DEF EngineInv, TypeOK, vars, stateVars, callVars, emitVars
  <2>2. CallsOK' /\ OnceInv'
    BY <1>2, QuietInv DEF vars, stateVars, emitVars
  <2> QED BY <2>1, <2>2 DEF EngineInv
<1> QED BY <1>1, <1>2

LEMMA EngineInvariant == Spec => []EngineInv
BY EngineInit, EngineStep, PTL DEF Spec

\* Every variable keeps its type in every behaviour of the engine.
THEOREM TypeCorrect == Spec => []TypeOK
BY EngineInvariant, PTL DEF EngineInv

\* However hooks and (un)registrations interleave, no registration emits a
\* behavioural pattern twice.
THEOREM EmittedAtMostOnce == Spec => []AtMostOncePerState
<1>1. EngineInv => AtMostOncePerState
  BY DEF EngineInv, OnceInv, AtMostOncePerState
<1> QED BY <1>1, EngineInvariant, PTL

\* A raised pattern has been emitted, or a hook is on its way to emit it.
THEOREM NoAlertLost == Spec => []AlertAccounted
<1>1. EngineInv => AlertAccounted
  BY DEF EngineInv, OnceInv, AlertAccounted
<1> QED BY <1>1, EngineInvariant, PTL
=============================================================================
