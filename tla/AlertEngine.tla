---------------------------- MODULE AlertEngine ----------------------------
(***************************************************************************)
(* The behavioural alert engine of internal/alert/alert.go, driven by the  *)
(* MCP hooks of internal/mcp/server.go.                                    *)
(*                                                                         *)
(* A sync.Map takes a session id to a *sessionState.  Every finished tool  *)
(* call runs a hook on a goroutine of its own: the hook loads the pointer, *)
(* runs all detectors under the state's mutex, and, the mutex released,    *)
(* emits the event the detectors returned.  Sessions are registered and    *)
(* unregistered meanwhile, so a hook may work on a state the map has       *)
(* already dropped or replaced.                                            *)
(*                                                                         *)
(* Paths are abstracted to the keyword lists they match (SystemPaths,      *)
(* CredPaths), milliseconds to ticks of a monotone clock.                  *)
(***************************************************************************)
EXTENDS Integers, Sequences, FiniteSets

CONSTANTS
  Sessions,         \* MCP session ids
  States,           \* sessionState objects, one per InitSession
  Calls,            \* goroutines that run hooks concurrently
  Tools, ReadTools, WriteTools, ExecuteTools,
  Paths, SystemPaths, CredPaths,
  Outcomes,         \* how the calls of an instance may end
  ReconThreshold,   \* 3 in the code
  BulkThreshold,    \* 5 in the code
  RetryThreshold,   \* 3 in the code
  ReadWindow,       \* 60_000 ms in the code
  MaxCalls,         \* bound: tool calls in a behaviour
  MaxClock,         \* bound: ticks of the clock
  MaxCanaryFires,   \* bound: canary alerts per session
  None              \* nil pointer, empty path, no event

ASSUME ThresholdAssumption ==
  /\ ReconThreshold \in Nat /\ ReconThreshold >= 2
  /\ BulkThreshold \in Nat /\ BulkThreshold >= 1
  /\ RetryThreshold \in Nat /\ RetryThreshold >= 1
  /\ ReadWindow \in Nat

ASSUME SetAssumption ==
  /\ ReadTools \subseteq Tools
  /\ WriteTools \subseteq Tools
  /\ ExecuteTools \subseteq Tools
  /\ SystemPaths \subseteq Paths
  /\ CredPaths \subseteq Paths
  \* A result, a result that carries an error (NewToolResultError with a nil
  \* error), or a JSON-RPC error.
  /\ Outcomes \subseteq {"result", "toolError", "rpcError"}
  /\ None \notin Paths /\ None \notin States

ASSUME BoundAssumption ==
  MaxCalls \in Nat /\ MaxClock \in Nat /\ MaxCanaryFires \in Nat

VARIABLES
  clock,        \* time.Now().UnixMilli()
  sessions,     \* Engine.sessions: session id -> state, None if absent
  phase,        \* where the session's register/unregister hooks stand
  created,      \* the sessionState objects made so far
  reconPaths,   \* the fields of each sessionState
  has,          \* hasRead, hasWrite, hasExecute as a set of classes
  recentReads,
  errCounts,
  alerted,
  pc, req, ref, evt,   \* the hook each goroutine runs
  started,      \* calls so far
  emitted,      \* times Dispatcher.Emit got a pattern, per state
  connections,  \* "connection" events, per session
  canaryAlerts  \* "canary" events, per session

stateVars == <<reconPaths, has, recentReads, errCounts, alerted>>
callVars  == <<pc, req, ref, evt>>
emitVars  == <<emitted, connections, canaryAlerts>>
vars == <<clock, sessions, phase, created, stateVars, callVars, started, emitVars>>

Behaviours == {"recon", "escalation", "exfil", "retry"}
Classes    == {"read", "write", "execute"}

Request == [sid: Sessions, tool: Tools, path: Paths \cup {None}, outcome: Outcomes]

\* extractPathParam matters for read-class tools alone, and ObserveError is
\* given no parameters at all.
Inputs == {r \in Request : r.path # None => r.tool \in ReadTools /\ r.outcome # "rpcError"}

\* AfterCallTool runs whenever the handler returned a nil error.
ObservedAsSuccess(r) == r.outcome # "rpcError"

ClassOf(t) ==
  CASE t \in ReadTools    -> {"read"}
    [] t \notin ReadTools /\ t \in WriteTools -> {"write"}
    [] t \notin ReadTools \cup WriteTools /\ t \in ExecuteTools -> {"execute"}
    [] OTHER -> {}

TypeOK ==
  /\ clock \in Nat
  /\ sessions \in [Sessions -> States \cup {None}]
  /\ phase \in [Sessions -> {"absent", "stored", "live"}]
  /\ created \subseteq States
  /\ reconPaths \in [States -> SUBSET Paths]
  /\ has \in [States -> SUBSET Classes]
  /\ recentReads \in [States -> Seq(Nat)]
  /\ errCounts \in [States -> [Tools -> Nat]]
  /\ alerted \in [States -> SUBSET Behaviours]
  /\ pc \in [Calls -> {"idle", "observe", "emit"}]
  /\ req \in [Calls -> Request \cup {None}]
  /\ ref \in [Calls -> States \cup {None}]
  /\ evt \in [Calls -> Behaviours \cup {None}]
  /\ started \in Nat
  /\ emitted \in [States -> [Behaviours -> Nat]]
  /\ connections \in [Sessions -> Nat]
  /\ canaryAlerts \in [Sessions -> Nat]

Init ==
  /\ clock = 0
  /\ sessions = [i \in Sessions |-> None]
  /\ phase = [i \in Sessions |-> "absent"]
  /\ created = {}
  /\ reconPaths = [s \in States |-> {}]
  /\ has = [s \in States |-> {}]
  /\ recentReads = [s \in States |-> <<>>]
  /\ errCounts = [s \in States |-> [t \in Tools |-> 0]]
  /\ alerted = [s \in States |-> {}]
  /\ pc = [c \in Calls |-> "idle"]
  /\ req = [c \in Calls |-> None]
  /\ ref = [c \in Calls |-> None]
  /\ evt = [c \in Calls |-> None]
  /\ started = 0
  /\ emitted = [s \in States |-> [p \in Behaviours |-> 0]]
  /\ connections = [i \in Sessions |-> 0]
  /\ canaryAlerts = [i \in Sessions |-> 0]
-----------------------------------------------------------------------------
Tick ==
  /\ clock < MaxClock
  /\ clock' = clock + 1
  /\ UNCHANGED <<sessions, phase, created, stateVars, callVars, started, emitVars>>

\* OnRegisterSession, first half: Store replaces whatever the id had with a
\* new object, its fields as Init gives them.
InitSession(i, s) ==
  /\ phase[i] = "absent"
  /\ s \notin created
  /\ created' = created \cup {s}
  /\ sessions' = [sessions EXCEPT ![i] = s]
  /\ phase' = [phase EXCEPT ![i] = "stored"]
  /\ UNCHANGED <<clock, stateVars, callVars, started, emitVars>>

\* OnRegisterSession, second half.
EmitConnection(i) ==
  /\ phase[i] = "stored"
  /\ phase' = [phase EXCEPT ![i] = "live"]
  /\ connections' = [connections EXCEPT ![i] = @ + 1]
  /\ UNCHANGED <<clock, sessions, created, stateVars, callVars, started, emitted, canaryAlerts>>

\* OnUnregisterSession: the hooks in flight keep their pointer.
FinalizeSession(i) ==
  /\ phase[i] = "live"
  /\ sessions' = [sessions EXCEPT ![i] = None]
  /\ phase' = [phase EXCEPT ![i] = "absent"]
  /\ UNCHANGED <<clock, created, stateVars, callVars, started, emitVars>>

\* ObserveCanaryFire: called by the listener and the proxy for any session
\* id, registered or not; it consults no state.
ObserveCanaryFire(i) ==
  /\ canaryAlerts[i] < MaxCanaryFires
  /\ canaryAlerts' = [canaryAlerts EXCEPT ![i] = @ + 1]
  /\ UNCHANGED <<clock, sessions, phase, created, stateVars, callVars, started, emitted, connections>>
-----------------------------------------------------------------------------
\* The hook starts: loadSession.  An unknown session is logged and dropped.
LoadSession(c, r) ==
  /\ pc[c] = "idle"
  /\ started < MaxCalls
  /\ started' = started + 1
  /\ \/ /\ sessions[r.sid] = None
        /\ UNCHANGED callVars
     \/ /\ sessions[r.sid] # None
        /\ pc' = [pc EXCEPT ![c] = "observe"]
        /\ req' = [req EXCEPT ![c] = r]
        /\ ref' = [ref EXCEPT ![c] = sessions[r.sid]]
        /\ UNCHANGED evt
  /\ UNCHANGED <<clock, sessions, phase, created, stateVars, emitVars>>

\* observe returns an event: the pattern is marked, and is yet to be emitted.
Detect(c, p) ==
  /\ alerted' = [alerted EXCEPT ![ref[c]] = @ \cup {p}]
  /\ evt' = [evt EXCEPT ![c] = p]
  /\ pc' = [pc EXCEPT ![c] = "emit"]
  /\ UNCHANGED <<req, ref>>

Return(c) ==
  /\ pc' = [pc EXCEPT ![c] = "idle"]
  /\ req' = [req EXCEPT ![c] = None]
  /\ ref' = [ref EXCEPT ![c] = None]
  /\ evt' = [evt EXCEPT ![c] = None]

\* Mutant: the pattern is reported again on every further error.
RetryFiresAgain(s, t) == errCounts[s][t] + 1 >= RetryThreshold

\* SR-05: consecutive errors on one tool.
RetryFires(s, t) ==
  errCounts[s][t] + 1 >= RetryThreshold /\ "retry" \notin alerted[s]

ObserveError(c) ==
  LET s == ref[c]  t == req[c].tool IN
  /\ pc[c] = "observe"
  /\ ~ObservedAsSuccess(req[c])
  /\ errCounts' = [errCounts EXCEPT ![s][t] = @ + 1]
  /\ \/ RetryFires(s, t) /\ Detect(c, "retry")
     \/ ~RetryFires(s, t) /\ Return(c) /\ UNCHANGED alerted
  /\ UNCHANGED <<clock, sessions, phase, created, reconPaths, has, recentReads, started, emitVars>>

\* Mutant: the path replaces the set.
ReconAfterForgets(s, r) ==
  IF r.tool \in ReadTools THEN {r.path} \cap SystemPaths ELSE reconPaths[s]

\* SR-02: the system paths read so far, this call's included.
ReconAfter(s, r) ==
  reconPaths[s] \cup (IF r.tool \in ReadTools THEN {r.path} \cap SystemPaths ELSE {})

\* Mutant: off by one in the threshold.
ReconFiresEarly(s, r) ==
  /\ r.tool \in ReadTools /\ r.path # None
  /\ Cardinality(ReconAfter(s, r)) >= ReconThreshold - 1
  /\ "recon" \notin alerted[s]

ReconFires(s, r) ==
  /\ r.tool \in ReadTools /\ r.path # None
  /\ Cardinality(ReconAfter(s, r)) >= ReconThreshold
  /\ "recon" \notin alerted[s]

\* SR-03: the classes used so far, this call's included.
HasAfter(s, r) == has[s] \cup ClassOf(r.tool)

\* Mutant: only the class of a call that adds nothing new is checked.
EscalationFiresLate(s, r) ==
  has[s] = Classes /\ "escalation" \notin alerted[s]

EscalationFires(s, r) ==
  HasAfter(s, r) = Classes /\ "escalation" \notin alerted[s]

\* SR-04, first half: a credential path.
CredentialFires(s, r) ==
  r.tool \in ReadTools /\ r.path \in CredPaths /\ "exfil" \notin alerted[s]

\* Mutant: the window is never trimmed.
TrimNothing(q, cutoff) == q

\* Mutant: an entry is dropped before it is as old as the window.
TrimEarly(q, cutoff) ==
  LET dropped == {i \in 1..Len(q) : \A j \in 1..i : q[j] <= cutoff}
  IN  SubSeq(q, Cardinality(dropped) + 1, Len(q))

\* The loop that drops the leading entries older than the window.
Trim(q, cutoff) ==
  LET dropped == {i \in 1..Len(q) : \A j \in 1..i : q[j] < cutoff}
  IN  SubSeq(q, Cardinality(dropped) + 1, Len(q))

RecentAfter(s) == Trim(Append(recentReads[s], clock), clock - ReadWindow)

\* SR-04, second half: many reads in a short time.
BulkFires(s, r) ==
  /\ r.tool \in ReadTools
  /\ Len(RecentAfter(s)) >= BulkThreshold
  /\ "exfil" \notin alerted[s]

\* Mutant: a success takes one error off the count, which may not have any.
SucceedDecrements(c) ==
  LET s == ref[c]  r == req[c] IN
  /\ pc[c] = "observe"
  /\ ObservedAsSuccess(r)
  /\ errCounts' = [errCounts EXCEPT ![s][r.tool] = @ - 1]
  /\ reconPaths' = [reconPaths EXCEPT ![s] = ReconAfter(s, r)]
  /\ UNCHANGED <<clock, sessions, phase, created, started, emitVars>>

\* What every successful observation does before a detector can return.
Succeed(c) ==
  LET s == ref[c]  r == req[c] IN
  /\ pc[c] = "observe"
  /\ ObservedAsSuccess(r)
  /\ errCounts' = [errCounts EXCEPT ![s][r.tool] = 0]
  /\ reconPaths' = [reconPaths EXCEPT ![s] = ReconAfter(s, r)]
  /\ UNCHANGED <<clock, sessions, phase, created, started, emitVars>>

ObserveRecon(c) ==
  /\ Succeed(c)
  /\ ReconFires(ref[c], req[c])
  /\ Detect(c, "recon")
  /\ UNCHANGED <<has, recentReads>>

\* The detectors after recon run only when it did not return.
PastRecon(c) ==
  LET s == ref[c]  r == req[c] IN
  /\ Succeed(c)
  /\ ~ReconFires(s, r)
  /\ has' = [has EXCEPT ![s] = HasAfter(s, r)]

ObserveEscalation(c) ==
  /\ PastRecon(c)
  /\ EscalationFires(ref[c], req[c])
  /\ Detect(c, "escalation")
  /\ UNCHANGED recentReads

ObserveCredential(c) ==
  /\ PastRecon(c)
  /\ ~EscalationFires(ref[c], req[c])
  /\ CredentialFires(ref[c], req[c])
  /\ Detect(c, "exfil")
  /\ UNCHANGED recentReads

\* The read is counted only when no detector has returned before this one.
ObserveRest(c) ==
  LET s == ref[c]  r == req[c] IN
  /\ PastRecon(c)
  /\ ~EscalationFires(s, r)
  /\ ~CredentialFires(s, r)
  /\ recentReads' = IF r.tool \in ReadTools
                    THEN [recentReads EXCEPT ![s] = RecentAfter(s)]
                    ELSE recentReads
  /\ \/ BulkFires(s, r) /\ Detect(c, "exfil")
     \/ ~BulkFires(s, r) /\ Return(c) /\ UNCHANGED alerted

Observe(c) ==
  \/ ObserveError(c)
  \/ ObserveRecon(c)
  \/ ObserveEscalation(c)
  \/ ObserveCredential(c)
  \/ ObserveRest(c)

\* Mutant: the session is looked up again, and its alert dropped when the
\* map has lost or replaced it meanwhile.
EmitIfRegistered(c) ==
  /\ pc[c] = "emit"
  /\ emitted' = IF \E i \in Sessions : sessions[i] = ref[c]
                THEN [emitted EXCEPT ![ref[c]][evt[c]] = @ + 1]
                ELSE emitted
  /\ Return(c)
  /\ UNCHANGED <<clock, sessions, phase, created, stateVars, started, connections, canaryAlerts>>

\* The mutex is released; Dispatcher.Emit gets the event.
Emit(c) ==
  /\ pc[c] = "emit"
  /\ emitted' = [emitted EXCEPT ![ref[c]][evt[c]] = @ + 1]
  /\ Return(c)
  /\ UNCHANGED <<clock, sessions, phase, created, stateVars, started, connections, canaryAlerts>>
-----------------------------------------------------------------------------
Lifecycle ==
  \E i \in Sessions :
    \/ \E s \in States : InitSession(i, s)
    \/ EmitConnection(i)
    \/ FinalizeSession(i)
    \/ ObserveCanaryFire(i)

Load == \E c \in Calls, r \in Inputs : LoadSession(c, r)

Next ==
  \/ Tick
  \/ Lifecycle
  \/ Load
  \/ \E c \in Calls : Observe(c) \/ Emit(c)

\* A hook that started runs to its end: goroutines are scheduled, and the
\* mutex is never held across a blocking call.  Nothing else is fair.
Fairness == \A c \in Calls : WF_vars(Observe(c)) /\ WF_vars(Emit(c))

Spec == Init /\ [][Next]_vars /\ Fairness
-----------------------------------------------------------------------------
\* However the hooks of one session interleave, each behavioural pattern
\* reaches the dispatcher at most once per registration: the flag is tested
\* and set under the mutex, the event emitted after it.
AtMostOncePerState ==
  \A s \in States, p \in Behaviours : emitted[s][p] <= 1

Holds(c, s, p) == pc[c] = "emit" /\ ref[c] = s /\ evt[c] = p

\* No alert is lost between the unlock and the dispatcher: once its flag is
\* set it has been emitted or one hook still holds it, also when the session
\* was finalised or registered anew meanwhile.
AlertAccounted ==
  \A s \in States, p \in Behaviours :
    p \in alerted[s] => emitted[s][p] = 1 \/ \E c \in Calls : Holds(c, s, p)

\* Every alert that was decided is emitted in the end, even when the session is
\* finalised or registered anew between the detection and the emission.  (Flags
\* and counts are never taken back, so one <>[] stands for a ~> per pattern.)
AlertedThenEmitted ==
  <>[](\A s \in States : \A p \in alerted[s] : emitted[s][p] = 1)

\* docs/detection.md: "Each pattern fires at most once per session".  The
\* canary pattern consults no state, so every use of a token alerts.
CanaryAtMostOnce == \A i \in Sessions : canaryAlerts[i] <= 1
=============================================================================
