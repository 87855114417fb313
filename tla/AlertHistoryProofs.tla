------------------------- MODULE AlertHistoryProofs -------------------------
(***************************************************************************)
(* What the detectors may not miss and may not report, for every set of    *)
(* sessions, tools and paths, every number of concurrent hooks and every   *)
(* threshold and window the assumptions allow: the escalation pattern      *)
(* although the recon detector returns before the class of its call is     *)
(* noted, the recon pattern, the reads that escape the count, at most two  *)
(* of a session, and that every alert follows what it reports.             *)
(***************************************************************************)
EXTENDS AlertHistory, AlertEngineProofs

HistoryTypeOK ==
  /\ seen \in [States -> SUBSET Classes]
  /\ pathsRead \in [States -> SUBSET Paths]

\* The engine's fields agree with the history, and the read class is noted by
\* the time a system path is: so a recon alert finds it noted already.
Agrees ==
  \A s \in States :
    /\ seen[s] = has[s]
    /\ pathsRead[s] = reconPaths[s]
    /\ IsFiniteSet(reconPaths[s])
    /\ reconPaths[s] # {} => "read" \in has[s]
    /\ Cardinality(reconPaths[s]) >= ReconThreshold => "recon" \in alerted[s]
    /\ has[s] = Classes => "escalation" \in alerted[s]

HistoryInv == EngineInv /\ HistoryTypeOK /\ Agrees
-----------------------------------------------------------------------------
\* One path more, or none: what the recon detector sees.
LEMMA ReconCount ==
  ASSUME HistoryInv, NEW s \in States, NEW r \in Request
  PROVE  /\ IsFiniteSet(ReconAfter(s, r))
         /\ reconPaths[s] = {} => Cardinality(ReconAfter(s, r)) < ReconThreshold
         /\ ReconAfter(s, r) # reconPaths[s] => r.tool \in ReadTools /\ r.path # None
<1> DEFINE new == IF r.tool \in ReadTools THEN {r.path} \cap SystemPaths ELSE {}
<1>1. ReconAfter(s, r) = reconPaths[s] \cup new
  BY DEF ReconAfter
<1>2. new = {} \/ new = {r.path}
  OBVIOUS
<1>3. new # {} => r.tool \in ReadTools /\ r.path # None
  BY SetAssumption
<1>4. IsFiniteSet(reconPaths[s])
  BY DEF HistoryInv, Agrees
<1>5. IsFiniteSet(new) /\ Cardinality(new) < ReconThreshold
  <2>1. CASE new = {}
    <3> HIDE DEF new
    <3>1. IsFiniteSet({}) /\ Cardinality({}) = 0
      BY FS_EmptySet
    <3> QED BY <2>1, <3>1, ThresholdAssumption
  <2>2. CASE new = {r.path}
    <3> HIDE DEF new
    <3>1. IsFiniteSet({r.path}) /\ Cardinality({r.path}) = 1
      BY FS_Singleton
    <3> QED BY <2>2, <3>1, ThresholdAssumption
  <2> QED BY <1>2, <2>1, <2>2
<1> HIDE DEF new
<1>6. IsFiniteSet(reconPaths[s] \cup new)
  BY <1>2, <1>4, FS_AddElement
<1> QED BY <1>1, <1>3, <1>5, <1>6

\* A call of the read class adds that class, and no other.
LEMMA ReadClass == ASSUME NEW t \in ReadTools PROVE ClassOf(t) = {"read"}
BY DEF ClassOf

\* What Record does to the classes and the paths, in the engine's terms.
LEMMA RecordSuccess ==
  ASSUME HistoryInv, NEW c \in Calls, Succeed(c), Record(ref[c], req[c])
  PROVE  /\ HistoryTypeOK'
         /\ \A s \in States :
              /\ seen'[s] = IF s = ref[c] THEN HasAfter(s, req[c]) ELSE seen[s]
              /\ pathsRead'[s] = IF s = ref[c] THEN ReconAfter(s, req[c]) ELSE pathsRead[s]
              /\ reconPaths'[s] = IF s = ref[c] THEN ReconAfter(s, req[c]) ELSE reconPaths[s]
<1> DEFINE s0 == ref[c]
           r == req[c]
<1>1. EngineInv
  BY DEF HistoryInv
<1>2. s0 \in States /\ r \in Request
  BY <1>1, SucceedTypes
<1>3. ObservedAsSuccess(r)
  BY DEF Succeed
<1>4. /\ seen' = [seen EXCEPT ![s0] = @ \cup ClassOf(r.tool)]
      /\ seen' \in [States -> SUBSET Classes]
  BY <1>2, <1>3, ClassType DEF Record, HistoryInv, HistoryTypeOK
<1>5. \A s \in States : seen'[s] = IF s = s0 THEN HasAfter(s, r) ELSE seen[s]
  BY <1>2, <1>4 DEF HasAfter, HistoryInv, HistoryTypeOK, Agrees
<1>6. /\ pathsRead' \in [States -> SUBSET Paths]
      /\ \A s \in States : pathsRead'[s] = IF s = s0 THEN ReconAfter(s, r) ELSE pathsRead[s]
  <2>1. pathsRead[s0] = reconPaths[s0] /\ pathsRead \in [States -> SUBSET Paths]
    BY <1>2 DEF HistoryInv, HistoryTypeOK, Agrees
  <2>2. CASE r.tool \in ReadTools
    BY <1>2, <1>3, <2>1, <2>2, SetAssumption DEF Record, ReconAfter
  <2>3. CASE r.tool \notin ReadTools
    BY <1>2, <1>3, <2>1, <2>3 DEF Record, ReconAfter
  <2> QED BY <2>2, <2>3
<1>7. \A s \in States : reconPaths'[s] = IF s = s0 THEN ReconAfter(s, r) ELSE reconPaths[s]
  BY <1>1, <1>2 DEF Succeed, EngineInv, TypeOK
<1> QED BY <1>4, <1>5, <1>6, <1>7 DEF HistoryTypeOK

\* Alerts only accumulate.
LEMMA AlertedGrows ==
  ASSUME EngineInv, NEW c \in Calls, NEW p \in Behaviours, pc[c] = "observe", Detect(c, p)
  PROVE  /\ \A s \in States : alerted[s] \subseteq alerted'[s]
         /\ p \in alerted'[ref[c]]
BY Observing DEF EngineInv, TypeOK, Detect

\* The recon detector returns early: the class of its call was noted before.
LEMMA ReconAgrees ==
  ASSUME HistoryInv, NEW c \in Calls, ObserveRecon(c), Record(ref[c], req[c])
  PROVE  HistoryTypeOK' /\ Agrees'
<1> DEFINE s0 == ref[c]
           r == req[c]
<1>1. EngineInv /\ Succeed(c) /\ ReconFires(s0, r) /\ Detect(c, "recon") /\ has' = has
  BY DEF HistoryInv, ObserveRecon
<1>2. s0 \in States /\ r \in Request /\ pc[c] = "observe"
  BY <1>1, SucceedTypes
<1>3. /\ \A s \in States : alerted[s] \subseteq alerted'[s]
      /\ "recon" \in alerted'[s0]
  BY <1>1, <1>2, AlertedGrows DEF Behaviours
<1>4. reconPaths[s0] # {}
  BY <1>1, <1>2, ReconCount, FS_CardinalityType, ThresholdAssumption DEF ReconFires
<1>5. HasAfter(s0, r) = has[s0]
  BY <1>1, <1>2, <1>4, ReadClass DEF HasAfter, ReconFires, HistoryInv, Agrees
<1>6. Agrees'
  BY <1>1, <1>2, <1>3, <1>4, <1>5, RecordSuccess, ReconCount DEF Agrees, HistoryInv
<1> QED BY <1>1, <1>6, RecordSuccess

\* Every other success notes the class, and had no recon alert to raise.
LEMMA PastReconAgrees ==
  ASSUME HistoryInv, NEW c \in Calls, PastRecon(c), Record(ref[c], req[c]),
         \A s \in States : alerted[s] \subseteq alerted'[s],
         EscalationFires(ref[c], req[c]) => "escalation" \in alerted'[ref[c]]
  PROVE  HistoryTypeOK' /\ Agrees'
<1> DEFINE s0 == ref[c]
           r == req[c]
<1>1. EngineInv /\ Succeed(c) /\ ~ReconFires(s0, r)
  BY DEF HistoryInv, PastRecon
<1>2. s0 \in States /\ r \in Request
  BY <1>1, SucceedTypes
<1>3. \A s \in States : has'[s] = IF s = s0 THEN HasAfter(s, r) ELSE has[s]
  BY <1>2 DEF PastRecon, HistoryInv, EngineInv, TypeOK
<1>4. ReconAfter(s0, r) # {} => "read" \in HasAfter(s0, r)
  BY <1>2, ReconCount, ReadClass DEF HasAfter, HistoryInv, Agrees
<1>5. Cardinality(ReconAfter(s0, r)) >= ReconThreshold => "recon" \in alerted'[s0]
  <2>1. CASE ReconAfter(s0, r) = reconPaths[s0]
    BY <1>2, <2>1 DEF HistoryInv, Agrees
  <2>2. CASE ReconAfter(s0, r) # reconPaths[s0]
    BY <1>1, <1>2, <2>2, ReconCount DEF ReconFires
  <2> QED BY <2>1, <2>2
<1>6. HasAfter(s0, r) = Classes => "escalation" \in alerted'[s0]
  BY <1>2 DEF EscalationFires
<1>7. IsFiniteSet(ReconAfter(s0, r))
  BY <1>2, ReconCount
<1>8. Agrees'
  BY <1>1, <1>2, <1>3, <1>4, <1>5, <1>6, <1>7, RecordSuccess DEF Agrees, HistoryInv
<1> QED BY <1>1, <1>8, RecordSuccess

\* An error notes nothing but its tool's count.
LEMMA ErrorAgrees ==
  ASSUME HistoryInv, NEW c \in Calls, ObserveError(c), Record(ref[c], req[c])
  PROVE  HistoryTypeOK' /\ Agrees'
<1>1. UNCHANGED <<reconPaths, has>>
  BY DEF ObserveError
<1>2. UNCHANGED <<seen, pathsRead>>
  BY DEF ObserveError, Record
<1>3. \A s \in States : alerted[s] \subseteq alerted'[s]
  <2>1. pc[c] = "observe"
    BY DEF ObserveError
  <2>2. CASE Detect(c, "retry")
    BY <2>1, <2>2, AlertedGrows DEF HistoryInv, Behaviours
  <2>3. CASE UNCHANGED alerted
    BY <2>3
  <2> QED BY <2>2, <2>3 DEF ObserveError
<1> QED BY <1>1, <1>2, <1>3 DEF HistoryInv, HistoryTypeOK, Agrees

LEMMA ObserveAgrees ==
  ASSUME HistoryInv, NEW c \in Calls, Observe(c), Record(ref[c], req[c])
  PROVE  HistoryTypeOK' /\ Agrees'
<1>0. EngineInv
  BY DEF HistoryInv
<1>1. CASE ObserveError(c)
  BY <1>1, ErrorAgrees
<1>2. CASE ObserveRecon(c)
  BY <1>2, ReconAgrees
<1>3. CASE ObserveEscalation(c)
  <2>1. PastRecon(c) /\ Detect(c, "escalation") /\ pc[c] = "observe"
    BY <1>3 DEF ObserveEscalation, PastRecon, Succeed
  <2> QED BY <1>0, <2>1, AlertedGrows, PastReconAgrees DEF Behaviours
<1>4. CASE ObserveCredential(c)
  <2>1. /\ PastRecon(c) /\ Detect(c, "exfil") /\ pc[c] = "observe"
        /\ ~EscalationFires(ref[c], req[c])
    BY <1>4 DEF ObserveCredential, PastRecon, Succeed
  <2> QED BY <1>0, <2>1, AlertedGrows, PastReconAgrees DEF Behaviours
<1>5. CASE ObserveRest(c)
  <2>1. PastRecon(c) /\ pc[c] = "observe" /\ ~EscalationFires(ref[c], req[c])
    BY <1>5 DEF ObserveRest, PastRecon, Succeed
  <2>2. CASE Detect(c, "exfil")
    BY <1>0, <2>1, <2>2, AlertedGrows, PastReconAgrees DEF Behaviours
  <2>3. CASE UNCHANGED alerted
    BY <2>1, <2>3, PastReconAgrees
  <2> QED BY <1>5, <2>2, <2>3 DEF ObserveRest
<1> QED BY <1>1, <1>2, <1>3, <1>4, <1>5 DEF Observe

LEMMA QuietAgrees ==
  ASSUME HistoryInv, Quiet, UNCHANGED history
  PROVE  HistoryTypeOK' /\ Agrees'
<1>1. UNCHANGED stateVars
  BY DEF Quiet, Tick, Lifecycle, InitSession, EmitConnection, FinalizeSession,
         ObserveCanaryFire, Load, LoadSession, Emit
<1> QED BY <1>1 DEF HistoryInv, HistoryTypeOK, Agrees, stateVars, history

\* The history only watches: every step is a step of the engine.
LEMMA HistoryWatches == HNext => Next
BY DEF HNext, Quiet, Next

LEMMA HistoryInitially == HInit => HistoryInv
BY EngineInit, FS_EmptySet, ThresholdAssumption
DEF HInit, HistoryInit, HistoryInv, HistoryTypeOK, Agrees, Init, Classes

LEMMA HistoryStep == HistoryInv /\ [HNext]_<<vars, history>> => HistoryInv'
<1> SUFFICES ASSUME HistoryInv, [HNext]_<<vars, history>> PROVE HistoryInv'
  OBVIOUS
<1>1. EngineInv'
  BY HistoryWatches, EngineStep DEF HistoryInv
<1>2. HistoryTypeOK' /\ Agrees'
  <2>1. CASE HNext
    BY <2>1, ObserveAgrees, QuietAgrees DEF HNext
  <2>2. CASE UNCHANGED <<vars, history>>
    BY <2>2 DEF HistoryInv, HistoryTypeOK, Agrees, vars, stateVars, history
  <2> QED BY <2>1, <2>2
<1> QED BY <1>1, <1>2 DEF HistoryInv

LEMMA HistoryInvariant == HSpec => []HistoryInv
BY HistoryInitially, HistoryStep, PTL DEF HSpec

\* A session whose successful calls used all three classes has the
\* escalation pattern, whatever the recon detector returned in between.
THEOREM EscalationCaught == HSpec => []EscalationNeverMissed
<1>1. HistoryInv => EscalationNeverMissed
  BY DEF HistoryInv, Agrees, EscalationNeverMissed
<1> QED BY <1>1, HistoryInvariant, PTL

\* As many distinct system paths as the threshold have the recon pattern.
THEOREM ReconCaught == HSpec => []ReconNeverMissed
<1>1. HistoryInv => ReconNeverMissed
  BY DEF HistoryInv, Agrees, ReconNeverMissed
<1> QED BY <1>1, HistoryInvariant, PTL
-----------------------------------------------------------------------------
\* A set of numbers that has with each all smaller ones is an interval.
LEMMA Interval ==
  ASSUME NEW n \in Nat, NEW D \in SUBSET (1..n), \A i \in D : \A j \in 1..i : j \in D
  PROVE  Cardinality(D) \in 0..n /\ D = 1..Cardinality(D)
<1>1. IsFiniteSet(1..n) /\ Cardinality(1..n) = n
  BY FS_Interval
<1>2. IsFiniteSet(D) /\ Cardinality(D) <= n
  BY <1>1, FS_Subset
<1>3. PICK d \in 0..n : d = Cardinality(D)
  BY <1>2, FS_CardinalityType
<1>4. IsFiniteSet(1..d) /\ Cardinality(1..d) = d /\ Cardinality(1..(d + 1)) = d + 1
  BY FS_Interval
<1>5. d + 1 \notin D
  <2> SUFFICES ASSUME d + 1 \in D PROVE FALSE
    OBVIOUS
  <2>1. 1..(d + 1) \in SUBSET D
    OBVIOUS
  <2>2. Cardinality(1..(d + 1)) <= Cardinality(D)
    BY <1>2, <2>1, FS_Subset
  <2> QED BY <1>3, <1>4, <2>2
<1>6. D \in SUBSET (1..d)
  <2> SUFFICES ASSUME NEW i \in D, i > d PROVE FALSE
    OBVIOUS
  <2>1. d + 1 \in 1..i
    OBVIOUS
  <2> QED BY <1>5, <2>1
<1>7. D = 1..d
  BY <1>3, <1>4, <1>6, FS_Subset
<1> QED BY <1>3, <1>7

\* Trim drops a number of leading entries, all of them older than the cutoff,
\* and what it leaves begins with one that is not.
LEMMA TrimDrops ==
  ASSUME NEW q \in Seq(Nat), NEW cutoff \in Int
  PROVE  \E d \in 0..Len(q) :
           /\ Trim(q, cutoff) = SubSeq(q, d + 1, Len(q))
           /\ \A j \in 1..d : q[j] < cutoff
           /\ d < Len(q) => q[d + 1] >= cutoff
<1> DEFINE dropped == {i \in 1..Len(q) : \A j \in 1..i : q[j] < cutoff}
<1>1. Len(q) \in Nat /\ \A i \in 1..Len(q) : q[i] \in Nat
  OBVIOUS
<1>2. dropped \in SUBSET (1..Len(q)) /\ \A i \in dropped : \A j \in 1..i : j \in dropped
  BY <1>1
<1>3. PICK d \in 0..Len(q) : d = Cardinality(dropped) /\ dropped = 1..d
  <2> HIDE DEF dropped
  <2> QED BY <1>1, <1>2, Interval
<1>4. \A j \in 1..d : q[j] < cutoff
  <2> SUFFICES ASSUME NEW j \in 1..d PROVE q[j] < cutoff
    OBVIOUS
  <2>1. j \in dropped
    BY <1>3
  <2> QED BY <1>1, <2>1
<1>5. ASSUME d < Len(q) PROVE q[d + 1] >= cutoff
  <2>1. d + 1 \in 1..Len(q) /\ d + 1 \notin dropped
    <3>1. d + 1 \in 1..Len(q)
      BY <1>1, <1>5
    <3>2. d + 1 \notin 1..d
      OBVIOUS
    <3> HIDE DEF dropped
    <3> QED BY <1>3, <3>1, <3>2, Zenon
  <2>2. PICK j \in 1..(d + 1) : ~(q[j] < cutoff)
    BY <2>1
  <2>3. j = d + 1
    BY <1>4, <2>2
  <2> QED BY <1>1, <2>1, <2>2, <2>3
<1>6. Trim(q, cutoff) = SubSeq(q, d + 1, Len(q))
  BY <1>3 DEF Trim
<1> QED BY <1>4, <1>5, <1>6
-----------------------------------------------------------------------------
\* The k-th entry from the end.
Late(q, k) == q[Len(q) - k + 1]

LEMMA LateType ==
  ASSUME NEW q \in Seq(Nat), NEW k \in 1..Len(q)
  PROVE  Len(q) - k + 1 \in 1..Len(q) /\ Late(q, k) \in Nat
<1>1. Len(q) \in Nat /\ \A i \in 1..Len(q) : q[i] \in Nat
  OBVIOUS
<1>2. Len(q) - k + 1 \in 1..Len(q)
  BY <1>1
<1> QED BY <1>1, <1>2 DEF Late

LEMMA LateAppend ==
  ASSUME NEW q \in Seq(Nat), NEW t \in Nat
  PROVE  /\ Append(q, t) \in Seq(Nat) /\ Len(q) \in Nat /\ Len(Append(q, t)) = Len(q) + 1
         /\ Late(Append(q, t), 1) = t
         /\ \A k \in 1..Len(q) : Late(Append(q, t), k + 1) = Late(q, k)
<1>1. PICK p : p = Append(q, t)
  OBVIOUS
<1>2. p \in Seq(Nat) /\ Len(q) \in Nat /\ Len(p) = Len(q) + 1 /\ p[Len(q) + 1] = t
  BY <1>1
<1>3. \A i \in 1..Len(q) : p[i] = q[i]
  BY <1>1
<1>4. Late(p, 1) = t
  BY <1>2 DEF Late
<1>5. ASSUME NEW k \in 1..Len(q) PROVE Late(p, k + 1) = Late(q, k)
  <2>1. Len(q) - k + 1 \in 1..Len(q) /\ Len(p) - (k + 1) + 1 = Len(q) - k + 1
    BY <1>2
  <2> QED BY <1>3, <2>1 DEF Late
<1> QED BY <1>1, <1>2, <1>4, <1>5

LEMMA LateTrim ==
  ASSUME NEW q \in Seq(Nat), NEW cutoff \in Int, NEW t, t = Trim(q, cutoff)
  PROVE  /\ t \in Seq(Nat) /\ Len(t) \in Nat /\ Len(t) <= Len(q)
         /\ \A k \in 1..Len(t) : Late(t, k) = Late(q, k)
         /\ Len(t) > 0 => Late(t, Len(t)) >= cutoff
         /\ \A k \in 1..Len(q) : Late(q, k) >= cutoff => k <= Len(t)
<1>1. PICK d \in 0..Len(q) :
        /\ t = SubSeq(q, d + 1, Len(q))
        /\ \A j \in 1..d : q[j] < cutoff
        /\ d < Len(q) => q[d + 1] >= cutoff
  BY TrimDrops
<1>2. Len(q) \in Nat /\ \A i \in 1..Len(q) : q[i] \in Nat
  OBVIOUS
<1>3. t \in Seq(Nat)
  BY TrimType
<1>4. Len(t) = Len(q) - d /\ \A i \in 1..Len(q) - d : t[i] = q[d + i]
  BY <1>1, <1>2, SubSeqProperties
<1>5. ASSUME NEW k \in 1..Len(t) PROVE Late(t, k) = Late(q, k)
  <2>1. Len(t) - k + 1 \in 1..Len(q) - d /\ d + (Len(t) - k + 1) = Len(q) - k + 1
    BY <1>2, <1>4
  <2> QED BY <1>4, <2>1 DEF Late
<1>6. Len(t) > 0 => Late(t, Len(t)) >= cutoff
  <2> SUFFICES ASSUME Len(t) > 0 PROVE t[1] >= cutoff
    BY <1>2, <1>4 DEF Late
  <2> QED BY <1>1, <1>2, <1>4
<1>7. ASSUME NEW k \in 1..Len(q), Late(q, k) >= cutoff PROVE k <= Len(t)
  <2>1. Len(q) - k + 1 \in 1..Len(q) /\ q[Len(q) - k + 1] >= cutoff /\ q[Len(q) - k + 1] \in Nat
    BY <1>2, <1>7, LateType DEF Late
  <2>2. ~(Len(q) - k + 1 \in 1..d)
    BY <1>1, <2>1
  <2> QED BY <1>2, <1>4, <2>1, <2>2
<1> QED BY <1>2, <1>3, <1>4, <1>5, <1>6, <1>7
-----------------------------------------------------------------------------
\* The times of reads are in order, and not in the future.
Sorted(q, now) ==
  \A k \in 1..Len(q) : Late(q, k) <= now /\ \A j \in 1..k : Late(q, k) <= Late(q, j)

\* Counting from the end, each entry of the window is of a read as late or later:
\* what is counted happened.
Counted(q, r) ==
  \A k \in 1..Len(r) : k <= Len(q) /\ Late(r, k) <= Late(q, k)

\* All reads but b of them have been counted: those in the window of the last one
\* are there, and the entries are as late as the reads b places further back.
Missed(q, r, b) ==
  /\ \A k \in 1..Len(r) : k + b <= Len(q) => Late(q, k + b) <= Late(r, k)
  /\ \A k \in 1..Len(q) : Late(q, k) >= Late(q, 1) - ReadWindow => Len(r) + b >= k

LEMMA SortedAppend ==
  ASSUME NEW q \in Seq(Nat), NEW t \in Nat, Sorted(q, t)
  PROVE  Sorted(Append(q, t), t)
<1>1. PICK p : p = Append(q, t)
  OBVIOUS
<1>2. Len(q) \in Nat /\ Len(p) = Len(q) + 1 /\ Late(p, 1) = t
      /\ \A k \in 1..Len(q) : Late(p, k + 1) = Late(q, k)
  BY <1>1, LateAppend
<1>3. \A k \in 1..Len(p) : Late(p, k) <= t /\ Late(p, k) \in Nat
  <2> TAKE k \in 1..Len(p)
  <2>1. CASE k = 1
    BY <1>2, <2>1
  <2>2. CASE k # 1
    <3>1. k - 1 \in 1..Len(q) /\ (k - 1) + 1 = k
      BY <1>2, <2>2
    <3> QED BY <1>2, <3>1, LateType DEF Sorted
  <2> QED BY <2>1, <2>2
<1>4. ASSUME NEW k \in 1..Len(p), NEW j \in 1..k PROVE Late(p, k) <= Late(p, j)
  <2>1. CASE j = 1
    BY <1>2, <1>3, <2>1
  <2>2. CASE j # 1
    <3>1. /\ k - 1 \in 1..Len(q) /\ (k - 1) + 1 = k
          /\ j - 1 \in 1..(k - 1) /\ (j - 1) + 1 = j /\ j - 1 \in 1..Len(q)
      BY <1>2, <2>2
    <3>2. Late(q, k - 1) <= Late(q, j - 1)
      BY <3>1 DEF Sorted
    <3> QED BY <1>2, <3>1, <3>2
  <2> QED BY <2>1, <2>2
<1>5. Sorted(p, t)
  BY <1>3, <1>4 DEF Sorted
<1> QED BY <1>1, <1>5

\* In order, each read is at most as late as the one that takes its place from the
\* end when a read is added.
LEMMA Shifted ==
  ASSUME NEW q \in Seq(Nat), NEW t \in Nat, Sorted(q, t), NEW k \in 1..Len(q)
  PROVE  /\ Late(Append(q, t), k) \in Nat /\ Late(q, k) \in Nat
         /\ Late(q, k) <= Late(Append(q, t), k)
<1>1. Len(q) \in Nat /\ Late(Append(q, t), 1) = t
      /\ \A j \in 1..Len(q) : Late(Append(q, t), j + 1) = Late(q, j)
  BY LateAppend
<1>2. Late(q, k) \in Nat
  BY LateType
<1>3. CASE k = 1
  BY <1>1, <1>2, <1>3 DEF Sorted
<1>4. CASE k # 1
  <2>1. k - 1 \in 1..Len(q) /\ (k - 1) + 1 = k /\ k - 1 \in 1..k
    BY <1>1, <1>4
  <2>2. Late(Append(q, t), k) = Late(q, k - 1) /\ Late(q, k - 1) \in Nat
    BY <1>1, <2>1, LateType
  <2>3. Late(q, k) <= Late(q, k - 1)
    BY <2>1 DEF Sorted
  <2> QED BY <1>2, <2>2, <2>3
<1> QED BY <1>3, <1>4

\* A read that is not counted.
LEMMA CountedSkip ==
  ASSUME NEW q \in Seq(Nat), NEW r \in Seq(Nat), NEW t \in Nat, Sorted(q, t), Counted(q, r)
  PROVE  Counted(Append(q, t), r)
<1>1. Len(q) \in Nat /\ Len(Append(q, t)) = Len(q) + 1
  BY LateAppend
<1> SUFFICES ASSUME NEW k \in 1..Len(r)
             PROVE  k <= Len(Append(q, t)) /\ Late(r, k) <= Late(Append(q, t), k)
  BY DEF Counted
<1>2. k \in Nat /\ k <= Len(q) /\ k \in 1..Len(q) /\ Late(r, k) <= Late(q, k)
  BY <1>1 DEF Counted
<1>3. Late(r, k) \in Nat
  BY LateType
<1> QED BY <1>1, <1>2, <1>3, Shifted

\* A read that is counted.
LEMMA CountedRead ==
  ASSUME NEW q \in Seq(Nat), NEW r \in Seq(Nat), NEW t \in Nat, NEW cutoff \in Int, Counted(q, r)
  PROVE  Counted(Append(q, t), Trim(Append(r, t), cutoff))
<1>1. PICK p, a, z : p = Append(q, t) /\ a = Append(r, t) /\ z = Trim(a, cutoff)
  OBVIOUS
<1>2. Len(q) \in Nat /\ Len(p) = Len(q) + 1 /\ Late(p, 1) = t
      /\ \A k \in 1..Len(q) : Late(p, k + 1) = Late(q, k)
  BY <1>1, LateAppend
<1>3. a \in Seq(Nat) /\ Len(r) \in Nat /\ Len(a) = Len(r) + 1 /\ Late(a, 1) = t
      /\ \A k \in 1..Len(r) : Late(a, k + 1) = Late(r, k)
  BY <1>1, LateAppend
<1>4. \A k \in 1..Len(a) : k <= Len(p) /\ Late(a, k) <= Late(p, k)
  <2> TAKE k \in 1..Len(a)
  <2>1. CASE k = 1
    BY <1>2, <1>3, <2>1
  <2>2. CASE k # 1
    <3>1. k - 1 \in 1..Len(r) /\ (k - 1) + 1 = k
      BY <1>3, <2>2
    <3>2. k - 1 <= Len(q) /\ Late(r, k - 1) <= Late(q, k - 1) /\ k - 1 \in 1..Len(q)
      BY <1>2, <3>1 DEF Counted
    <3>3. Late(p, k) = Late(q, k - 1) /\ Late(a, k) = Late(r, k - 1)
      BY <1>2, <1>3, <3>1, <3>2
    <3> QED BY <1>2, <3>1, <3>2, <3>3
  <2> QED BY <2>1, <2>2
<1>5. Len(z) \in Nat /\ Len(z) <= Len(a) /\ \A k \in 1..Len(z) : Late(z, k) = Late(a, k)
  <2>1. z = Trim(a, cutoff) /\ a \in Seq(Nat)
    BY <1>1, <1>3
  <2> QED BY ONLY <2>1, cutoff \in Int, LateTrim
<1>6. Counted(p, z)
  BY <1>3, <1>4, <1>5 DEF Counted
<1> QED BY <1>1, <1>6

\* One more read that is not counted.
LEMMA MissedSkip ==
  ASSUME NEW q \in Seq(Nat), NEW r \in Seq(Nat), NEW t \in Nat, NEW b \in Nat,
         Sorted(q, t), Missed(q, r, b)
  PROVE  Missed(Append(q, t), r, b + 1)
<1>1. PICK p : p = Append(q, t)
  OBVIOUS
<1>2. Len(q) \in Nat /\ Len(p) = Len(q) + 1 /\ Late(p, 1) = t /\ p \in Seq(Nat)
      /\ \A k \in 1..Len(q) : Late(p, k + 1) = Late(q, k)
  BY <1>1, LateAppend
<1>3. Len(r) \in Nat
  OBVIOUS
<1>4. ASSUME NEW k \in 1..Len(r), k + (b + 1) <= Len(p) PROVE Late(p, k + (b + 1)) <= Late(r, k)
  <2>1. k + b \in 1..Len(q) /\ k + (b + 1) = (k + b) + 1 /\ k + b <= Len(q)
    BY <1>2, <1>3, <1>4
  <2>2. Late(q, k + b) <= Late(r, k)
    BY <2>1 DEF Missed
  <2> QED BY <1>2, <2>1, <2>2
<1>5. ASSUME NEW k \in 1..Len(p), Late(p, k) >= t - ReadWindow PROVE Len(r) + (b + 1) >= k
  <2>1. CASE k = 1
    BY <1>3, <2>1
  <2>2. CASE k # 1
    <3>1. k - 1 \in 1..Len(q) /\ (k - 1) + 1 = k /\ 1 \in 1..Len(q)
      BY <1>2, <2>2
    <3>2. Late(q, k - 1) = Late(p, k) /\ Late(q, k - 1) \in Nat /\ Late(q, 1) \in Nat /\ Late(q, 1) <= t
      BY <1>2, <3>1, LateType DEF Sorted
    <3>3. Late(q, k - 1) >= Late(q, 1) - ReadWindow
      BY <1>5, <3>2, ThresholdAssumption
    <3>4. Len(r) + b >= k - 1
      BY <3>1, <3>3 DEF Missed
    <3> QED BY <1>2, <1>3, <3>1, <3>4
  <2> QED BY <2>1, <2>2
<1>6. Missed(p, r, b + 1)
  BY <1>2, <1>4, <1>5 DEF Missed
<1> QED BY <1>1, <1>6

\* A greater number is as true.
LEMMA MissedMore ==
  ASSUME NEW q \in Seq(Nat), NEW r \in Seq(Nat), NEW t \in Nat, NEW b \in Nat,
         Sorted(q, t), Missed(q, r, b)
  PROVE  Missed(q, r, b + 1)
<1>1. Len(q) \in Nat /\ Len(r) \in Nat
  OBVIOUS
<1>2. ASSUME NEW k \in 1..Len(r), k + (b + 1) <= Len(q) PROVE Late(q, k + (b + 1)) <= Late(r, k)
  <2>1. k + b \in 1..Len(q) /\ k + b <= Len(q) /\ k + (b + 1) \in 1..Len(q) /\ k + b \in 1..(k + (b + 1))
    BY <1>1, <1>2
  <2>2. Late(q, k + b) <= Late(r, k)
    BY <2>1 DEF Missed
  <2>3. Late(q, k + (b + 1)) <= Late(q, k + b)
    BY <2>1 DEF Sorted
  <2>4. Late(q, k + b) \in Nat /\ Late(q, k + (b + 1)) \in Nat /\ Late(r, k) \in Nat
    BY <2>1, LateType
  <2> QED BY <2>2, <2>3, <2>4
<1>3. ASSUME NEW k \in 1..Len(q), Late(q, k) >= Late(q, 1) - ReadWindow PROVE Len(r) + (b + 1) >= k
  <2>1. Len(r) + b >= k
    BY <1>3 DEF Missed
  <2> QED BY <1>1, <2>1
<1> QED BY <1>2, <1>3 DEF Missed

\* A read that is counted, after which the window is trimmed.
LEMMA MissedRead ==
  ASSUME NEW q \in Seq(Nat), NEW r \in Seq(Nat), NEW t \in Nat, NEW b \in Nat,
         Sorted(q, t), Missed(q, r, b)
  PROVE  Missed(Append(q, t), Trim(Append(r, t), t - ReadWindow), b)
<1>1. PICK p, a, z : p = Append(q, t) /\ a = Append(r, t) /\ z = Trim(a, t - ReadWindow)
  OBVIOUS
<1>2. Len(q) \in Nat /\ Len(p) = Len(q) + 1 /\ Late(p, 1) = t /\ p \in Seq(Nat)
      /\ \A k \in 1..Len(q) : Late(p, k + 1) = Late(q, k)
  BY <1>1, LateAppend
<1>3. a \in Seq(Nat) /\ Len(r) \in Nat /\ Len(a) = Len(r) + 1 /\ Late(a, 1) = t
      /\ \A k \in 1..Len(r) : Late(a, k + 1) = Late(r, k)
  BY <1>1, LateAppend
<1>4. t - ReadWindow \in Int /\ ReadWindow \in Nat
  BY ThresholdAssumption
<1>5. /\ Len(z) \in Nat /\ Len(z) <= Len(a) /\ \A k \in 1..Len(z) : Late(z, k) = Late(a, k)
      /\ \A k \in 1..Len(a) : Late(a, k) >= t - ReadWindow => k <= Len(z)
  <2>1. z = Trim(a, t - ReadWindow) /\ a \in Seq(Nat) /\ t - ReadWindow \in Int
    BY <1>1, <1>3, <1>4
  <2> QED BY ONLY <2>1, LateTrim
<1>6. ASSUME NEW k \in 1..Len(p) PROVE Late(p, k) \in Nat /\ Late(p, k) <= t
  <2>1. Sorted(p, t)
    BY <1>1, SortedAppend
  <2> QED BY <1>2, <2>1, LateType DEF Sorted
<1>7. ASSUME NEW k \in 1..Len(a), k + b <= Len(p) PROVE Late(p, k + b) <= Late(a, k)
  <2>1. CASE k = 1
    <3>1. k + b \in 1..Len(p)
      BY <1>2, <1>7
    <3> QED BY <1>3, <1>6, <2>1, <3>1
  <2>2. CASE k # 1
    <3>1. /\ k - 1 \in 1..Len(r) /\ (k - 1) + 1 = k
          /\ (k - 1) + b \in 1..Len(q) /\ ((k - 1) + b) + 1 = k + b /\ (k - 1) + b <= Len(q)
      BY <1>2, <1>3, <1>7, <2>2
    <3>2. Late(q, (k - 1) + b) <= Late(r, k - 1)
      BY <3>1 DEF Missed
    <3>3. Late(p, k + b) = Late(q, (k - 1) + b) /\ Late(a, k) = Late(r, k - 1)
      BY <1>2, <1>3, <3>1
    <3> QED BY <3>2, <3>3
  <2> QED BY <2>1, <2>2
<1>8. ASSUME NEW k \in 1..Len(z), k + b <= Len(p) PROVE Late(p, k + b) <= Late(z, k)
  <2>1. k \in 1..Len(a)
    BY <1>3, <1>5
  <2> QED BY <1>5, <1>7, <1>8, <2>1
<1>9. ASSUME NEW k \in 1..Len(p), Late(p, k) >= t - ReadWindow PROVE Len(z) + b >= k
  <2>1. CASE k <= b
    BY <1>5, <2>1
  <2>2. CASE k > b
    <3>1. Len(a) + b >= k
      <4>1. CASE k = 1
        BY <1>3, <4>1
      <4>2. CASE k # 1
        <5>1. k - 1 \in 1..Len(q) /\ (k - 1) + 1 = k /\ 1 \in 1..Len(q)
          BY <1>2, <4>2
        <5>2. Late(q, k - 1) = Late(p, k) /\ Late(q, k - 1) \in Nat /\ Late(q, 1) \in Nat /\ Late(q, 1) <= t
          BY <1>2, <5>1, LateType DEF Sorted
        <5>3. Late(q, k - 1) >= Late(q, 1) - ReadWindow
          BY <1>4, <1>9, <5>2
        <5>4. Len(r) + b >= k - 1
          BY <5>1, <5>3 DEF Missed
        <5> QED BY <1>2, <1>3, <5>1, <5>4
      <4> QED BY <4>1, <4>2
    <3>2. k - b \in 1..Len(a) /\ (k - b) + b = k /\ k <= Len(p)
      BY <1>2, <1>3, <2>2, <3>1
    <3>3. Late(p, k) <= Late(a, k - b)
      BY <1>7, <3>2
    <3>4. Late(a, k - b) \in Nat /\ Late(p, k) \in Nat
      BY <1>2, <1>3, <3>2, LateType
    <3>5. Late(a, k - b) >= t - ReadWindow
      BY <1>4, <1>9, <3>3, <3>4
    <3>6. k - b <= Len(z)
      BY <1>5, <3>2, <3>5
    <3> QED BY <1>5, <3>2, <3>6
  <2> QED BY <1>2, <2>1, <2>2
<1>10. Missed(p, z, b)
  BY <1>2, <1>8, <1>9 DEF Missed
<1> QED BY <1>1, <1>10
-----------------------------------------------------------------------------
\* n entries in a row that fit in the window.
BurstIn(q, n) ==
  \E i \in 1..Len(q) : i + n - 1 <= Len(q) /\ q[i + n - 1] - q[i] <= ReadWindow

LEMMA BurstGrows ==
  ASSUME NEW q \in Seq(Nat), NEW t \in Nat, NEW n \in Nat \ {0}, BurstIn(q, n)
  PROVE  BurstIn(Append(q, t), n)
<1>1. PICK i \in 1..Len(q) : i + n - 1 <= Len(q) /\ q[i + n - 1] - q[i] <= ReadWindow
  BY DEF BurstIn
<1>2. PICK p : p = Append(q, t)
  OBVIOUS
<1>3. Len(q) \in Nat /\ Len(p) = Len(q) + 1 /\ \A j \in 1..Len(q) : p[j] = q[j]
  BY <1>2
<1>4. PICK j \in 1..Len(q) : j = i + n - 1
  BY <1>1, <1>3
<1>5. i \in 1..Len(p) /\ i + n - 1 <= Len(p)
  BY <1>1, <1>3
<1>6. p[i + n - 1] - p[i] <= ReadWindow
  BY <1>1, <1>3, <1>4
<1>7. BurstIn(p, n)
  BY <1>5, <1>6 DEF BurstIn
<1> QED BY <1>2, <1>7

\* n entries of the window make a burst that ends now.
LEMMA BurstNow ==
  ASSUME NEW p \in Seq(Nat), NEW z \in Seq(Nat), NEW t \in Nat, NEW n \in Nat \ {0},
         Sorted(p, t), Counted(p, z), Late(p, 1) = t, Len(z) >= n, Late(z, Len(z)) >= t - ReadWindow
  PROVE  BurstIn(p, n)
<1>1. Len(p) \in Nat /\ Len(z) \in Nat /\ Len(z) \in 1..Len(z) /\ ReadWindow \in Nat
  BY ThresholdAssumption
<1>2. Len(z) <= Len(p) /\ Late(z, Len(z)) <= Late(p, Len(z))
  BY <1>1 DEF Counted
<1>3. Len(z) \in 1..Len(p) /\ n \in 1..Len(z) /\ n \in 1..Len(p)
  BY <1>1, <1>2
<1>4. Late(p, Len(z)) <= Late(p, n)
  BY <1>3 DEF Sorted
<1>5. Late(p, n) \in Nat /\ Late(p, Len(z)) \in Nat /\ Late(z, Len(z)) \in Nat
  BY <1>1, <1>3, LateType
<1>6. t - Late(p, n) <= ReadWindow
  BY <1>1, <1>2, <1>4, <1>5
<1>7. PICK i \in 1..Len(p) : i = Len(p) - n + 1
  <2>1. n \in Nat /\ 1 <= n /\ n <= Len(p)
    BY <1>1, <1>3
  <2>2. Len(p) - n + 1 \in 1..Len(p)
    BY <1>1, <2>1
  <2> QED BY <2>2, Zenon
<1>8. i + n - 1 = Len(p) /\ Len(p) - 1 + 1 = Len(p)
  BY <1>1, <1>7
<1>9. p[i] = Late(p, n) /\ p[i + n - 1] = t
  BY <1>7, <1>8 DEF Late
<1> QED BY <1>1, <1>6, <1>8, <1>9 DEF BurstIn

\* A burst that was not there ends with the new read.
LEMMA NewBurst ==
  ASSUME NEW q \in Seq(Nat), NEW t \in Nat, NEW n \in Nat \ {0},
         ~BurstIn(q, n), BurstIn(Append(q, t), n)
  PROVE  n \in 1..Len(Append(q, t)) /\ Late(Append(q, t), n) >= t - ReadWindow
<1>1. PICK p : p = Append(q, t)
  OBVIOUS
<1>2. /\ p \in Seq(Nat) /\ Len(q) \in Nat /\ Len(p) = Len(q) + 1 /\ p[Len(q) + 1] = t
      /\ \A j \in 1..Len(q) : p[j] = q[j]
      /\ ReadWindow \in Nat
  BY <1>1, ThresholdAssumption
<1>3. PICK i \in 1..Len(p) : i + n - 1 <= Len(p) /\ p[i + n - 1] - p[i] <= ReadWindow
  BY <1>1 DEF BurstIn
<1>4. i + n - 1 = Len(p)
  <2> SUFFICES ASSUME i + n - 1 # Len(p) PROVE FALSE
    OBVIOUS
  <2>1. i \in 1..Len(q) /\ i + n - 1 \in 1..Len(q)
    <3>1. n \in Nat /\ n >= 1 /\ i \in Nat /\ i >= 1 /\ i + n - 1 \in Nat /\ i + n - 1 >= i
      BY <1>2, <1>3
    <3>2. i + n - 1 <= Len(q)
      BY <1>2, <1>3, <3>1
    <3> QED BY <1>2, <3>1, <3>2
  <2>2. q[i + n - 1] - q[i] <= ReadWindow
    BY <1>2, <1>3, <2>1
  <2> QED BY <2>1, <2>2 DEF BurstIn
<1>5. n \in 1..Len(p) /\ i = Len(p) - n + 1
  BY <1>2, <1>3, <1>4
<1>6. t - p[i] <= ReadWindow /\ p[i] \in Nat
  BY <1>2, <1>3, <1>4
<1>7. Late(p, n) = p[i]
  BY <1>5 DEF Late
<1> QED BY <1>1, <1>2, <1>5, <1>6, <1>7

\* If at most two reads were not counted, a new burst of two more than the
\* threshold leaves as many entries in the window as the threshold.
LEMMA LateBurst ==
  ASSUME NEW q \in Seq(Nat), NEW z \in Seq(Nat), NEW t \in Nat, NEW b \in 0..2,
         ~BurstIn(q, BulkThreshold + 2), Missed(Append(q, t), z, b), Len(z) < BulkThreshold
  PROVE  ~BurstIn(Append(q, t), BulkThreshold + 2)
<1> SUFFICES ASSUME BurstIn(Append(q, t), BulkThreshold + 2) PROVE FALSE
  OBVIOUS
<1>1. BulkThreshold \in Nat /\ BulkThreshold + 2 \in Nat \ {0} /\ Len(z) \in Nat
  BY ThresholdAssumption
<1>2. /\ BulkThreshold + 2 \in 1..Len(Append(q, t))
      /\ Late(Append(q, t), BulkThreshold + 2) >= t - ReadWindow
  BY <1>1, NewBurst
<1>3. Late(Append(q, t), 1) = t
  BY LateAppend
<1>4. Len(z) + b >= BulkThreshold + 2
  BY <1>2, <1>3 DEF Missed
<1> QED BY <1>1, <1>4
-----------------------------------------------------------------------------
\* What escaped the count: the reads that raised these two.  (The call that
\* raised escalation need not have been a read; one read more is allowed for then.)
Skips(s) ==
  (IF "recon" \in alerted[s] THEN 1 ELSE 0) + (IF "escalation" \in alerted[s] THEN 1 ELSE 0)

ReadsType == credRead \in [States -> BOOLEAN] /\ reads \in [States -> Seq(Nat)]

\* The window agrees with the reads, and until it raised its pattern it holds fewer
\* entries than the threshold and no burst was missed but by the reads that escaped.
Tracked(s) ==
  /\ Sorted(reads[s], clock)
  /\ Counted(reads[s], recentReads[s])
  /\ "exfil" \notin alerted[s] =>
       /\ Missed(reads[s], recentReads[s], Skips(s))
       /\ Len(recentReads[s]) < BulkThreshold
       /\ ~BurstIn(reads[s], BulkThreshold + 2)

\* Each alert follows what it reports.
Justified(s) ==
  /\ "recon" \in alerted[s] => Cardinality(pathsRead[s]) >= ReconThreshold
  /\ "escalation" \in alerted[s] => seen[s] = Classes
  /\ "exfil" \in alerted[s] => credRead[s] \/ BurstIn(reads[s], BulkThreshold)

ReadsInv == ReadsType /\ \A s \in States : Tracked(s) /\ Justified(s)

\* Nothing happens to a state but that time goes by, or that it gets the retry
\* pattern.
LEMMA Untouched ==
  ASSUME HistoryInv, ReadsInv, NEW s \in States,
         clock' \in Nat, clock' >= clock,
         \A p \in {"recon", "escalation", "exfil"} : p \in alerted'[s] <=> p \in alerted[s],
         recentReads'[s] = recentReads[s],
         pathsRead'[s] = pathsRead[s], seen'[s] = seen[s],
         credRead'[s] = credRead[s], reads'[s] = reads[s]
  PROVE  Tracked(s)' /\ Justified(s)'
<1>1. Sorted(reads[s], clock')
  <2>1. reads[s] \in Seq(Nat) /\ Sorted(reads[s], clock) /\ clock \in Nat
    BY DEF ReadsInv, ReadsType, Tracked, HistoryInv, EngineInv, TypeOK
  <2> SUFFICES ASSUME NEW k \in 1..Len(reads[s])
               PROVE  Late(reads[s], k) <= clock' /\ \A j \in 1..k : Late(reads[s], k) <= Late(reads[s], j)
    BY DEF Sorted
  <2>2. Late(reads[s], k) \in Nat
    BY <2>1, LateType
  <2> QED BY <2>1, <2>2 DEF Sorted
<1>2. Tracked(s)'
  BY <1>1 DEF ReadsInv, Tracked, Skips
<1>3. Justified(s)'
  BY DEF ReadsInv, Justified
<1> QED BY <1>2, <1>3

\* What Record does to the reads, in the engine's terms.
LEMMA RecordReads ==
  ASSUME HistoryInv, ReadsType, NEW c \in Calls, Succeed(c), Record(ref[c], req[c])
  PROVE  /\ ReadsType'
         /\ \A s \in States : s # ref[c] => reads'[s] = reads[s] /\ credRead'[s] = credRead[s]
         /\ req[c].tool \in ReadTools =>
              /\ reads'[ref[c]] = Append(reads[ref[c]], clock)
              /\ credRead'[ref[c]] = (credRead[ref[c]] \/ req[c].path \in CredPaths)
         /\ req[c].tool \notin ReadTools =>
              reads'[ref[c]] = reads[ref[c]] /\ credRead'[ref[c]] = credRead[ref[c]]
<1>1. EngineInv /\ ref[c] \in States /\ clock \in Nat
  BY SucceedTypes DEF HistoryInv, EngineInv, TypeOK
<1>2. ObservedAsSuccess(req[c])
  BY DEF Succeed
<1>3. CASE req[c].tool \in ReadTools
  <2>1. /\ credRead' = [credRead EXCEPT ![ref[c]] = @ \/ req[c].path \in CredPaths]
        /\ reads' = [reads EXCEPT ![ref[c]] = Append(@, clock)]
    BY <1>2, <1>3 DEF Record
  <2>2. Append(reads[ref[c]], clock) \in Seq(Nat)
    BY <1>1 DEF ReadsType
  <2> QED BY <1>1, <1>3, <2>1, <2>2 DEF ReadsType
<1>4. CASE req[c].tool \notin ReadTools
  BY <1>2, <1>4 DEF Record, ReadsType
<1> QED BY <1>3, <1>4
-----------------------------------------------------------------------------
\* What was alerted stays justified, and so is what this call raises.
LEMMA StaysJustified ==
  ASSUME HistoryInv, ReadsInv, NEW c \in Calls, NEW s0 \in States, s0 = ref[c],
         Succeed(c), Record(ref[c], req[c]),
         \A p \in alerted'[s0] \ alerted[s0] :
           /\ p = "recon" => Cardinality(ReconAfter(s0, req[c])) >= ReconThreshold
           /\ p = "escalation" => HasAfter(s0, req[c]) = Classes
           /\ p = "exfil" => credRead'[s0] \/ BurstIn(reads'[s0], BulkThreshold)
  PROVE  Justified(s0)'
<1>2. req[c] \in Request /\ Justified(s0) /\ reads[s0] \in Seq(Nat) /\ clock \in Nat
  BY SucceedTypes DEF HistoryInv, EngineInv, TypeOK, ReadsInv, ReadsType
<1>3. "recon" \in alerted'[s0] => Cardinality(pathsRead'[s0]) >= ReconThreshold
  <2>1. pathsRead'[s0] = ReconAfter(s0, req[c]) /\ pathsRead[s0] \in SUBSET ReconAfter(s0, req[c])
    BY <1>2, RecordSuccess DEF ReconAfter, HistoryInv, Agrees
  <2>2. IsFiniteSet(ReconAfter(s0, req[c]))
    BY <1>2, ReconCount
  <2>3. /\ Cardinality(pathsRead[s0]) <= Cardinality(ReconAfter(s0, req[c]))
        /\ Cardinality(pathsRead[s0]) \in Nat /\ Cardinality(ReconAfter(s0, req[c])) \in Nat
    BY <2>1, <2>2, FS_Subset, FS_CardinalityType
  <2>4. CASE "recon" \in alerted[s0]
    BY <1>2, <2>1, <2>3, <2>4, ThresholdAssumption DEF Justified
  <2>5. CASE "recon" \notin alerted[s0]
    BY <2>1, <2>5
  <2> QED BY <2>4, <2>5
<1>4. "escalation" \in alerted'[s0] => seen'[s0] = Classes
  <2>1. /\ seen'[s0] = HasAfter(s0, req[c]) /\ seen'[s0] \in SUBSET Classes
        /\ seen[s0] \in SUBSET seen'[s0]
    BY <1>2, RecordSuccess DEF HasAfter, HistoryInv, HistoryTypeOK, Agrees
  <2> QED BY <1>2, <2>1 DEF Justified
<1>5. "exfil" \in alerted'[s0] => credRead'[s0] \/ BurstIn(reads'[s0], BulkThreshold)
  <2>1. CASE "exfil" \in alerted[s0]
    <3>1. ReadsType
      BY DEF ReadsInv
    <3>2. credRead[s0] => credRead'[s0]
      BY <3>1, RecordReads
    <3>3. reads'[s0] \in {reads[s0], Append(reads[s0], clock)}
      BY <3>1, RecordReads
    <3>4. BurstIn(reads[s0], BulkThreshold) => BurstIn(reads'[s0], BulkThreshold)
      <4>1. BulkThreshold \in Nat \ {0}
        BY ThresholdAssumption
      <4> QED BY <1>2, <3>3, <4>1, BurstGrows
    <3> QED BY <1>2, <2>1, <3>2, <3>4 DEF Justified
  <2>2. CASE "exfil" \notin alerted[s0]
    BY <2>2
  <2> QED BY <2>1, <2>2
<1> QED BY <1>3, <1>4, <1>5 DEF Justified

\* A call that raises recon or escalation returns before its read is counted.
LEMMA SkipTracked ==
  ASSUME HistoryInv, ReadsInv, NEW c \in Calls, NEW s0 \in States, s0 = ref[c],
         Succeed(c), Record(ref[c], req[c]),
         recentReads'[s0] = recentReads[s0],
         "exfil" \in alerted'[s0] <=> "exfil" \in alerted[s0],
         NEW b \in 0..1, b = Skips(s0), Skips(s0)' = b + 1
  PROVE  Tracked(s0)'
<1>2. PICK q, r : q = reads[s0] /\ r = recentReads[s0]
  OBVIOUS
<1>3. q \in Seq(Nat) /\ r \in Seq(Nat) /\ clock \in Nat /\ clock' = clock /\ ReadsType
  BY <1>2 DEF HistoryInv, EngineInv, TypeOK, ReadsInv, ReadsType, Succeed
<1>4. Tracked(s0)
  BY DEF ReadsInv
<1>5. /\ Sorted(q, clock) /\ Counted(q, r)
      /\ "exfil" \notin alerted[s0] =>
           Missed(q, r, b) /\ Len(r) < BulkThreshold /\ ~BurstIn(q, BulkThreshold + 2)
  BY <1>2, <1>4 DEF Tracked
<1>6. CASE req[c].tool \in ReadTools
  <2>1. PICK p : p = Append(q, clock)
    OBVIOUS
  <2>2. reads'[s0] = p
    BY <1>2, <1>3, <1>6, <2>1, RecordReads
  <2>3. Sorted(p, clock) /\ Counted(p, r)
    BY <1>3, <1>5, <2>1, SortedAppend, CountedSkip
  <2>4. ASSUME "exfil" \notin alerted[s0]
        PROVE  Missed(p, r, b + 1) /\ Len(r) < BulkThreshold /\ ~BurstIn(p, BulkThreshold + 2)
    <3>1. b \in Nat /\ b + 1 \in 0..2
      OBVIOUS
    <3>2. Missed(p, r, b + 1)
      BY <1>3, <1>5, <2>1, <2>4, <3>1, MissedSkip
    <3> QED BY <1>3, <1>5, <2>1, <2>4, <3>1, <3>2, LateBurst
  <2> QED BY <1>2, <1>3, <2>2, <2>3, <2>4 DEF Tracked
<1>7. CASE req[c].tool \notin ReadTools
  <2>1. reads'[s0] = q
    BY <1>2, <1>3, <1>7, RecordReads
  <2>2. b \in Nat
    OBVIOUS
  <2>3. "exfil" \notin alerted[s0] => Missed(q, r, b + 1)
    BY <1>3, <1>5, <2>2, MissedMore
  <2> QED BY <1>2, <1>3, <1>5, <2>1, <2>3 DEF Tracked
<1> QED BY <1>6, <1>7

LEMMA SkipsType == ASSUME NEW s \in States PROVE Skips(s) \in 0..2
BY DEF Skips

LEMMA ReconTracked ==
  ASSUME HistoryInv, ReadsInv, NEW c \in Calls, NEW s0 \in States, s0 = ref[c],
         ObserveRecon(c), Record(ref[c], req[c])
  PROVE  Tracked(s0)' /\ Justified(s0)'
<1>1. Succeed(c) /\ ReconFires(ref[c], req[c]) /\ recentReads' = recentReads
  BY DEF ObserveRecon
<1>2. alerted'[s0] = alerted[s0] \cup {"recon"} /\ "recon" \notin alerted[s0]
  BY <1>1, SucceedTypes DEF ObserveRecon, Detect, ReconFires, HistoryInv, EngineInv, TypeOK
<1>3. Justified(s0)'
  BY <1>1, <1>2, StaysJustified DEF ReconFires
<1>4. PICK b \in 0..1 : b = Skips(s0) /\ Skips(s0)' = b + 1
  BY <1>2 DEF Skips
<1> QED BY <1>1, <1>2, <1>3, <1>4, SkipTracked

LEMMA EscalationTracked ==
  ASSUME HistoryInv, ReadsInv, NEW c \in Calls, NEW s0 \in States, s0 = ref[c],
         ObserveEscalation(c), Record(ref[c], req[c])
  PROVE  Tracked(s0)' /\ Justified(s0)'
<1>1. Succeed(c) /\ EscalationFires(ref[c], req[c]) /\ recentReads' = recentReads
  BY DEF ObserveEscalation, PastRecon
<1>2. alerted'[s0] = alerted[s0] \cup {"escalation"} /\ "escalation" \notin alerted[s0]
  BY <1>1, SucceedTypes DEF ObserveEscalation, Detect, EscalationFires, HistoryInv, EngineInv, TypeOK
<1>3. Justified(s0)'
  BY <1>1, <1>2, StaysJustified DEF EscalationFires
<1>4. PICK b \in 0..1 : b = Skips(s0) /\ Skips(s0)' = b + 1
  BY <1>2 DEF Skips
<1> QED BY <1>1, <1>2, <1>3, <1>4, SkipTracked

LEMMA CredentialTracked ==
  ASSUME HistoryInv, ReadsInv, NEW c \in Calls, NEW s0 \in States, s0 = ref[c],
         ObserveCredential(c), Record(ref[c], req[c])
  PROVE  Tracked(s0)' /\ Justified(s0)'
<1>1. /\ Succeed(c) /\ req[c].tool \in ReadTools /\ req[c].path \in CredPaths
      /\ recentReads' = recentReads /\ ReadsType /\ clock' = clock
  BY DEF ObserveCredential, PastRecon, Succeed, CredentialFires, ReadsInv
<1>3. alerted'[s0] = alerted[s0] \cup {"exfil"}
  BY DEF ObserveCredential, Detect, HistoryInv, EngineInv, TypeOK
<1>4. reads'[s0] = Append(reads[s0], clock) /\ credRead'[s0]
  BY <1>1, RecordReads
<1>5. Justified(s0)'
  BY <1>1, <1>3, <1>4, StaysJustified
<1>6. /\ reads[s0] \in Seq(Nat) /\ recentReads[s0] \in Seq(Nat) /\ clock \in Nat
      /\ Sorted(reads[s0], clock) /\ Counted(reads[s0], recentReads[s0])
  BY DEF HistoryInv, EngineInv, TypeOK, ReadsInv, ReadsType, Tracked
<1>7. Sorted(reads'[s0], clock) /\ Counted(reads'[s0], recentReads[s0])
  BY <1>4, <1>6, SortedAppend, CountedSkip
<1>8. Tracked(s0)'
  BY <1>1, <1>3, <1>7 DEF Tracked
<1> QED BY <1>5, <1>8

\* The read is counted.
LEMMA RestTracked ==
  ASSUME HistoryInv, ReadsInv, NEW c \in Calls, NEW s0 \in States, s0 = ref[c],
         ObserveRest(c), Record(ref[c], req[c]),
         req[c].tool \in ReadTools
  PROVE  Tracked(s0)' /\ Justified(s0)'
<1>1. Succeed(c) /\ ReadsType /\ clock' = clock
  BY DEF ObserveRest, PastRecon, Succeed, ReadsInv
<1>3. PICK q, r, p, a, z :
        /\ q = reads[s0] /\ r = recentReads[s0] /\ p = Append(q, clock) /\ a = Append(r, clock)
        /\ z = Trim(a, clock - ReadWindow)
  OBVIOUS
<1>4. /\ q \in Seq(Nat) /\ r \in Seq(Nat) /\ clock \in Nat
      /\ Sorted(q, clock) /\ Counted(q, r)
      /\ "exfil" \notin alerted[s0] =>
           Missed(q, r, Skips(s0)) /\ Len(r) < BulkThreshold /\ ~BurstIn(q, BulkThreshold + 2)
  BY <1>3 DEF HistoryInv, EngineInv, TypeOK, ReadsInv, ReadsType, Tracked
<1>5. reads'[s0] = p /\ recentReads'[s0] = z
  <2>1. reads'[s0] = p
    BY <1>1, <1>3, RecordReads
  <2>2. recentReads'[s0] = RecentAfter(s0)
    BY DEF ObserveRest, HistoryInv, EngineInv, TypeOK
  <2> QED BY <1>3, <2>1, <2>2 DEF RecentAfter
<1>6. ReadWindow \in Nat /\ clock - ReadWindow \in Int /\ BulkThreshold \in Nat \ {0}
  BY <1>4, ThresholdAssumption
<1>7. Sorted(p, clock) /\ Counted(p, z) /\ p \in Seq(Nat) /\ Late(p, 1) = clock
  BY <1>3, <1>4, <1>6, SortedAppend, CountedRead, LateAppend
<1>8. a \in Seq(Nat)
  BY <1>3, <1>4
<1>9. z \in Seq(Nat) /\ (Len(z) > 0 => Late(z, Len(z)) >= clock - ReadWindow)
  BY ONLY <1>3, <1>6, <1>8, LateTrim
<1>10. CASE Len(z) >= BulkThreshold /\ "exfil" \notin alerted[s0]
  <2>1. alerted'[s0] = alerted[s0] \cup {"exfil"}
    BY <1>3, <1>10 DEF ObserveRest, BulkFires, RecentAfter, Detect, HistoryInv, EngineInv, TypeOK
  <2>2. Len(z) > 0
    BY <1>6, <1>9, <1>10
  <2>3. BurstIn(p, BulkThreshold)
    BY <1>4, <1>6, <1>7, <1>9, <1>10, <2>2, BurstNow
  <2>4. Justified(s0)'
    BY <1>1, <1>5, <2>1, <2>3, StaysJustified
  <2>5. Tracked(s0)'
    BY <1>1, <1>5, <1>7, <2>1 DEF Tracked
  <2> QED BY <2>4, <2>5
<1>11. CASE ~(Len(z) >= BulkThreshold /\ "exfil" \notin alerted[s0])
  <2>1. alerted' = alerted
    BY <1>3, <1>11 DEF ObserveRest, BulkFires, RecentAfter
  <2>2. Justified(s0)'
    BY <1>1, <2>1, StaysJustified
  <2>3. ASSUME "exfil" \notin alerted[s0]
        PROVE  /\ Missed(p, z, Skips(s0)) /\ Len(z) < BulkThreshold
               /\ ~BurstIn(p, BulkThreshold + 2)
    <3>1. Skips(s0) \in 0..2 /\ Skips(s0) \in Nat
      BY SkipsType
    <3>2. Missed(p, z, Skips(s0))
      BY <1>3, <1>4, <2>3, <3>1, MissedRead
    <3>3. Len(z) < BulkThreshold
      BY <1>6, <1>9, <1>11, <2>3
    <3> QED BY <1>3, <1>4, <1>9, <2>3, <3>1, <3>2, <3>3, LateBurst
  <2>4. Skips(s0)' = Skips(s0)
    BY <2>1 DEF Skips
  <2>5. Tracked(s0)'
    BY <1>1, <1>5, <1>7, <2>1, <2>3, <2>4 DEF Tracked
  <2> QED BY <2>2, <2>5
<1> QED BY <1>10, <1>11

\* A call of another class counts nothing and can raise nothing here.
LEMMA RestOther ==
  ASSUME HistoryInv, ReadsInv, NEW c \in Calls, NEW s0 \in States, s0 = ref[c],
         ObserveRest(c), Record(ref[c], req[c]),
         req[c].tool \notin ReadTools
  PROVE  Tracked(s0)' /\ Justified(s0)'
<1>1. /\ Succeed(c) /\ ReadsType /\ clock' = clock /\ alerted' = alerted
      /\ recentReads' = recentReads
  BY DEF ObserveRest, PastRecon, Succeed, ReadsInv, BulkFires
<1>3. reads'[s0] = reads[s0]
  BY <1>1, RecordReads
<1>4. Justified(s0)'
  BY <1>1, StaysJustified
<1>5. Tracked(s0)'
  BY <1>1, <1>3 DEF ReadsInv, Tracked, Skips
<1> QED BY <1>4, <1>5

\* A call leaves the other sessions alone.
LEMMA Elsewhere ==
  ASSUME HistoryInv, ReadsInv, NEW c \in Calls, Succeed(c), Observe(c), Record(ref[c], req[c]),
         NEW s \in States, s # ref[c]
  PROVE  Tracked(s)' /\ Justified(s)'
<1>1. EngineInv /\ ReadsType /\ clock \in Nat /\ clock' = clock
  BY DEF HistoryInv, EngineInv, TypeOK, ReadsInv, Succeed
<1>2. ~ObserveError(c)
  BY DEF Succeed, ObserveError
<1>3. alerted'[s] = alerted[s]
  BY <1>1, <1>2 DEF Observe, ObserveRecon, ObserveEscalation, ObserveCredential, ObserveRest, Detect,
     EngineInv, TypeOK
<1>4. recentReads'[s] = recentReads[s]
  BY <1>1, <1>2 DEF Observe, ObserveRecon, ObserveEscalation, ObserveCredential, ObserveRest,
     EngineInv, TypeOK
<1>5. seen'[s] = seen[s] /\ pathsRead'[s] = pathsRead[s]
  BY RecordSuccess
<1>6. reads'[s] = reads[s] /\ credRead'[s] = credRead[s]
  BY <1>1, RecordReads
<1>7. clock' >= clock
  BY <1>1
<1> QED BY <1>1, <1>3, <1>4, <1>5, <1>6, <1>7, Untouched

\* An error can raise the retry pattern alone.
LEMMA ErrorReads ==
  ASSUME HistoryInv, ReadsInv, NEW c \in Calls, ObserveError(c), Record(ref[c], req[c])
  PROVE  ReadsInv'
<1>1. /\ clock \in Nat /\ clock' = clock /\ UNCHANGED recentReads
      /\ UNCHANGED <<seen, pathsRead, credRead, reads>>
  BY DEF HistoryInv, EngineInv, TypeOK, ObserveError, Record
<1>2. \A s \in States : \A p \in {"recon", "escalation", "exfil"} :
        p \in alerted'[s] <=> p \in alerted[s]
  <2>1. alerted \in [States -> SUBSET Behaviours]
    BY DEF HistoryInv, EngineInv, TypeOK
  <2>2. alerted' = alerted \/ alerted' = [alerted EXCEPT ![ref[c]] = @ \cup {"retry"}]
    BY DEF ObserveError, Detect
  <2> QED BY <2>1, <2>2
<1>3. clock' >= clock
  BY <1>1
<1>4. \A s \in States : Tracked(s)' /\ Justified(s)'
  BY <1>1, <1>2, <1>3, Untouched
<1> QED BY <1>1, <1>4 DEF ReadsInv, ReadsType

LEMMA ObserveReads ==
  ASSUME HistoryInv, ReadsInv, NEW c \in Calls, Observe(c), Record(ref[c], req[c])
  PROVE  ReadsInv'
<1>1. CASE ObserveError(c)
  BY <1>1, ErrorReads
<1>2. CASE ~ObserveError(c)
  <2>1. Succeed(c)
    BY <1>2 DEF Observe, ObserveRecon, ObserveEscalation, ObserveCredential, ObserveRest, PastRecon
  <2>2. PICK s0 \in States : s0 = ref[c]
    BY <2>1, SucceedTypes DEF HistoryInv
  <2>3. Tracked(s0)' /\ Justified(s0)'
    BY <1>2, <2>2, ReconTracked, EscalationTracked, CredentialTracked, RestTracked, RestOther DEF Observe
  <2>4. ReadsType'
    BY <2>1, RecordReads DEF ReadsInv
  <2>5. \A s \in States : s # ref[c] => Tracked(s)' /\ Justified(s)'
    BY <2>1, Elsewhere
  <2>6. \A s \in States : Tracked(s)' /\ Justified(s)'
    BY <2>2, <2>3, <2>5
  <2> QED BY <2>4, <2>6 DEF ReadsInv
<1> QED BY <1>1, <1>2

LEMMA QuietReads ==
  ASSUME HistoryInv, ReadsInv, Quiet, UNCHANGED history
  PROVE  ReadsInv'
<1>1. UNCHANGED stateVars
  BY DEF Quiet, Tick, Lifecycle, InitSession, EmitConnection, FinalizeSession,
         ObserveCanaryFire, Load, LoadSession, Emit
<1>2. clock \in Nat /\ clock' \in Nat /\ clock' >= clock
  <2>1. clock \in Nat
    BY DEF HistoryInv, EngineInv, TypeOK
  <2>2. clock' = clock \/ clock' = clock + 1
    BY DEF Quiet, Tick, Lifecycle, InitSession, EmitConnection, FinalizeSession,
           ObserveCanaryFire, Load, LoadSession, Emit
  <2> QED BY <2>1, <2>2
<1>3. \A s \in States : Tracked(s)' /\ Justified(s)'
  BY <1>1, <1>2, Untouched DEF stateVars, history
<1> QED BY <1>3 DEF ReadsInv, ReadsType, history

LEMMA ReadsInitially == HInit => ReadsInv
<1> SUFFICES ASSUME HInit PROVE ReadsInv
  OBVIOUS
<1>1. ReadsType
  BY DEF HInit, HistoryInit, ReadsType
<1>2. ASSUME NEW s \in States PROVE Tracked(s) /\ Justified(s)
  <2>1. reads[s] = <<>> /\ recentReads[s] = <<>> /\ alerted[s] = {}
    BY DEF HInit, HistoryInit, Init
  <2>2. ~BurstIn(<<>>, BulkThreshold + 2)
    BY DEF BurstIn
  <2>3. 0 < BulkThreshold
    BY ThresholdAssumption
  <2> QED BY <2>1, <2>2, <2>3 DEF Tracked, Justified, Sorted, Counted, Missed
<1> QED BY <1>1, <1>2 DEF ReadsInv

LEMMA ReadsStep == HistoryInv /\ ReadsInv /\ [HNext]_<<vars, history>> => ReadsInv'
<1> SUFFICES ASSUME HistoryInv, ReadsInv, [HNext]_<<vars, history>> PROVE ReadsInv'
  OBVIOUS
<1>1. CASE HNext
  BY <1>1, ObserveReads, QuietReads DEF HNext
<1>2. CASE UNCHANGED <<vars, history>>
  <2>1. UNCHANGED <<clock, recentReads, alerted, seen, pathsRead, credRead, reads>>
    BY <1>2 DEF vars, stateVars, history
  <2> QED BY <2>1 DEF ReadsInv, ReadsType, Tracked, Justified, Skips
<1> QED BY <1>1, <1>2

LEMMA ReadsInvariant == HSpec => []ReadsInv
BY ReadsInitially, ReadsStep, HistoryInvariant, PTL DEF HSpec

LEMMA BurstMeans ==
  ASSUME NEW s \in States, NEW n \in Nat PROVE Burst(s, n) <=> BurstIn(reads[s], n)
BY DEF Burst, Within, BurstIn

\* No false alarm: a recon alert follows as many system paths as the threshold,
\* an escalation alert a call of each class, an exfiltration alert a credential
\* path or a burst of reads.
THEOREM AlertsAreJustified == HSpec => []AlertsJustified
<1>1. ReadsInv => AlertsJustified
  BY BurstMeans, ThresholdAssumption DEF ReadsInv, Justified, AlertsJustified
<1> QED BY <1>1, ReadsInvariant, PTL

\* At most two reads of a session escape the count, so two more than the
\* threshold in one window always raise the exfiltration pattern.
THEOREM BurstsCaught == HSpec => []BulkReadsAlertedLate
<1>1. ReadsInv => BulkReadsAlertedLate
  <2> SUFFICES ASSUME ReadsInv, NEW s \in States, Burst(s, BulkThreshold + 2)
               PROVE  "exfil" \in alerted[s]
    BY DEF BulkReadsAlertedLate
  <2>1. BulkThreshold + 2 \in Nat
    BY ThresholdAssumption
  <2> QED BY <2>1, BurstMeans DEF ReadsInv, Tracked
<1> QED BY <1>1, ReadsInvariant, PTL
=============================================================================
