---------------------------- MODULE AlertHistory ----------------------------
(***************************************************************************)
(* The alert engine with a history of everything its sessions observed,    *)
(* so that what the detectors report can be compared with what happened.   *)
(* The history reads no clock and keeps no window of its own: the          *)
(* properties below are about the calls, not about the engine's fields.    *)
(***************************************************************************)
EXTENDS AlertEngine

VARIABLES
  seen,       \* classes of the tools that were called with success
  pathsRead,  \* system paths that were read
  credRead,   \* a credential path was read
  reads,      \* times of all reads, oldest first
  failures    \* per tool, calls in a row whose client saw an error

history == <<seen, pathsRead, credRead, reads, failures>>

HistoryInit ==
  /\ seen = [s \in States |-> {}]
  /\ pathsRead = [s \in States |-> {}]
  /\ credRead = [s \in States |-> FALSE]
  /\ reads = [s \in States |-> <<>>]
  /\ failures = [s \in States |-> [t \in Tools |-> 0]]

Record(s, r) ==
  /\ failures' = [failures EXCEPT ![s][r.tool] = IF r.outcome = "result" THEN 0 ELSE @ + 1]
  /\ IF ObservedAsSuccess(r)
     THEN /\ seen' = [seen EXCEPT ![s] = @ \cup ClassOf(r.tool)]
          /\ IF r.tool \in ReadTools
             THEN /\ pathsRead' = [pathsRead EXCEPT ![s] = @ \cup ({r.path} \cap SystemPaths)]
                  /\ credRead' = [credRead EXCEPT ![s] = @ \/ r.path \in CredPaths]
                  /\ reads' = [reads EXCEPT ![s] = Append(@, clock)]
             ELSE UNCHANGED <<pathsRead, credRead, reads>>
     ELSE UNCHANGED <<seen, pathsRead, credRead, reads>>

HInit == Init /\ HistoryInit

Quiet == Tick \/ Lifecycle \/ Load \/ \E c \in Calls : Emit(c)

HNext ==
  \/ \E c \in Calls : Observe(c) /\ Record(ref[c], req[c])
  \/ Quiet /\ UNCHANGED history

HSpec == HInit /\ [][HNext]_<<vars, history>>

HTypeOK ==
  /\ TypeOK
  /\ seen \in [States -> SUBSET Classes]
  /\ pathsRead \in [States -> SUBSET Paths]
  /\ credRead \in [States -> BOOLEAN]
  /\ reads \in [States -> Seq(Nat)]
  /\ failures \in [States -> [Tools -> Nat]]
-----------------------------------------------------------------------------
\* n reads of s, consecutive ones starting at the i-th, fit in the window.
Within(s, i, n) ==
  i + n - 1 <= Len(reads[s]) /\ reads[s][i + n - 1] - reads[s][i] <= ReadWindow

Burst(s, n) == \E i \in 1..Len(reads[s]) : Within(s, i, n)

\* A session whose calls used all three classes has the escalation pattern,
\* although the recon detector returns before the class of its own call is
\* noted: the read that completes the paths is never the first read.
EscalationNeverMissed ==
  \A s \in States : seen[s] = Classes => "escalation" \in alerted[s]

\* As many distinct system paths as the threshold raise the recon pattern,
\* whichever order, repeats and other alerts come between.
ReconNeverMissed ==
  \A s \in States :
    Cardinality(pathsRead[s]) >= ReconThreshold => "recon" \in alerted[s]

\* Two reads at most escape the count, the one that raises recon and the one
\* that raises escalation: two more than the threshold in one window always
\* raise the exfiltration pattern.
BulkReadsAlertedLate ==
  \A s \in States : Burst(s, BulkThreshold + 2) => "exfil" \in alerted[s]

\* No false alarm: whatever was alerted really happened in that session.
AlertsJustified ==
  \A s \in States :
    /\ "recon" \in alerted[s] => Cardinality(pathsRead[s]) >= ReconThreshold
    /\ "escalation" \in alerted[s] => seen[s] = Classes
    /\ "exfil" \in alerted[s] => credRead[s] \/ Burst(s, BulkThreshold)
-----------------------------------------------------------------------------
\* docs/detection.md on retry: "3 or more consecutive errors on the same
\* tool", and internal/mcp/server.go: "Tool call error -> retry detection".
FailuresAlerted ==
  \A s \in States, t \in Tools :
    failures[s][t] >= RetryThreshold => "retry" \in alerted[s]
=============================================================================
