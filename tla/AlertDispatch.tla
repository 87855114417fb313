---------------------------- MODULE AlertDispatch ----------------------------
(***************************************************************************)
(* From an event to its readers: Dispatcher.Emit and NewEngine             *)
(* (internal/alert/alert.go) and the sinks (internal/alert/sinks.go).      *)
(*                                                                         *)
(* Emit starts a goroutine per sink and event.  The webhook sink honours   *)
(* the five seconds of its context; the others write to stdout or a file   *)
(* for as long as it takes.  Nothing is retried, and nobody waits for the  *)
(* goroutines when the process exits.  A POST that is under way may reach  *)
(* its server after the sink has given up, or the process is gone.         *)
(***************************************************************************)
EXTENDS Naturals, FiniteSets, Sequences

CONSTANTS
  Events,    \* the events the engine emits, each of them once
  Entries,   \* the entries of alerts.sinks, and what each says:
  Conf,      \* type, enabled, and if url and path are set
  Hangs,     \* the entries whose file or pipe may block a writer for ever
  None

\* NewEngine: entries that are disabled, of another type, or webhooks without
\* a URL make no sink.
Sinks ==
  {n \in Entries :
     /\ Conf[n].enabled
     /\ Conf[n].type \in {"stdout", "siem"} \/ (Conf[n].type = "webhook" /\ Conf[n].url)}

OfType(type) == {s \in Sinks : Conf[s].type = type}

ASSUME DispatchAssumption ==
  /\ Conf \in [Entries -> [type: STRING, enabled: BOOLEAN, url: BOOLEAN, path: BOOLEAN]]
  /\ Hangs \subseteq Entries
  /\ None \notin Events

VARIABLES
  job,      \* what the goroutine of each event and sink does
  out,      \* what each sink has put out, in order
  wire,     \* the POSTs of each sink that may still reach their server
  file,     \* SIEMSink.file: nil or the open file
  lock,     \* SIEMSink.mu: the event whose goroutine holds it
  dest,     \* where the holder writes to
  ragged,   \* the file ends within a line
  faults,   \* the events whose own delivery met an error, by sink
  running

siemVars == <<file, lock, dest, ragged>>
vars == <<job, out, wire, siemVars, faults, running>>

Places == {"stdout", "server", "file", "stderr"}
Chunk  == [event: Events, place: Places, part: {"line", "cut", "glued"}]
Ended  == {"done", "failed", "lost"}

TypeOK ==
  /\ job \in [Events -> [Sinks -> {"none", "started", "locked", "ready", "posted"} \cup Ended]]
  /\ out \in [Sinks -> Seq(Chunk)]
  /\ wire \in [Sinks -> SUBSET Events]
  /\ file \in [Sinks -> {"nil", "file"}]
  /\ lock \in [Sinks -> Events \cup {None}]
  /\ dest \in [Sinks -> Places]
  /\ ragged \in [Sinks -> BOOLEAN]
  /\ faults \in [Sinks -> SUBSET Events]
  /\ running \in BOOLEAN
  /\ \A s \in Sinks, e \in Events :
       job[e][s] \in {"locked", "ready"} => lock[s] = e

Init ==
  /\ job = [e \in Events |-> [s \in Sinks |-> "none"]]
  /\ out = [s \in Sinks |-> <<>>]
  /\ wire = [s \in Sinks |-> {}]
  /\ file = [s \in Sinks |-> "nil"]
  /\ lock = [s \in Sinks |-> None]
  /\ dest = [s \in Sinks |-> "stderr"]
  /\ ragged = [s \in Sinks |-> FALSE]
  /\ faults = [s \in Sinks |-> {}]
  /\ running = TRUE
-----------------------------------------------------------------------------
\* Emit: the go statements do not wait for the goroutines they start.
Emit(e) ==
  /\ running
  /\ \A s \in Sinks : job[e][s] = "none"
  /\ job' = [job EXCEPT ![e] = [s \in Sinks |-> "started"]]
  /\ UNCHANGED <<out, wire, siemVars, faults, running>>

At(e, s, step) == running /\ job[e][s] = step
Go(e, s, step) == job' = [job EXCEPT ![e][s] = step]

Put(e, s, place, part) ==
  out' = [out EXCEPT ![s] = Append(@, [event |-> e, place |-> place, part |-> part])]

Fault(e, s) == faults' = [faults EXCEPT ![s] = @ \cup {e}]

\* StdoutSink.Send: the error of Println is dropped.
Println(e, s) ==
  /\ s \in OfType("stdout")
  /\ At(e, s, "started")
  /\ Go(e, s, "done")
  /\ \/ Put(e, s, "stdout", "line") /\ UNCHANGED faults
     \/ Fault(e, s) /\ UNCHANGED out
  /\ UNCHANGED <<wire, siemVars, running>>
-----------------------------------------------------------------------------
\* Mutant: the sinks are served one after the other.
PostInTurn(e, s) ==
  /\ s \in OfType("webhook")
  /\ At(e, s, "started")
  /\ \A r \in Sinks \ OfType("webhook") : job[e][r] \in Ended
  /\ Go(e, s, "posted")
  /\ wire' = [wire EXCEPT ![s] = @ \cup {e}]
  /\ UNCHANGED <<out, siemVars, faults, running>>

\* WebhookSink.Send: one POST, signed or not.
Post(e, s) ==
  /\ s \in OfType("webhook")
  /\ At(e, s, "started")
  /\ Go(e, s, "posted")
  /\ wire' = [wire EXCEPT ![s] = @ \cup {e}]
  /\ UNCHANGED <<out, siemVars, faults, running>>

\* The server takes the event, whatever has become of its sender.
Receive(e, s) ==
  /\ e \in wire[s]
  /\ wire' = [wire EXCEPT ![s] = @ \ {e}]
  /\ Put(e, s, "server", "line")
  /\ UNCHANGED <<job, siemVars, faults, running>>

\* The answer to an event the server has taken: a status of 300 or more is an
\* error.
Answer(e, s) ==
  /\ At(e, s, "posted")
  /\ e \notin wire[s]
  /\ \/ Go(e, s, "done") /\ UNCHANGED faults
     \/ Go(e, s, "failed") /\ Fault(e, s)
  /\ UNCHANGED <<out, wire, siemVars, running>>

\* Mutant: a POST that fails is sent again.
ExpireRetries(e, s) ==
  /\ At(e, s, "posted")
  /\ Go(e, s, "started")
  /\ Fault(e, s)
  /\ UNCHANGED <<out, wire, siemVars, running>>

\* The connection fails, or the five seconds are over: the server may have the
\* event, or get it yet, or not.  The error is logged by Emit's goroutine.
Expire(e, s) ==
  /\ At(e, s, "posted")
  /\ Go(e, s, "failed")
  /\ Fault(e, s)
  /\ UNCHANGED <<out, wire, siemVars, running>>
-----------------------------------------------------------------------------
\* Mutant: the mutex is not taken.
LockFree(e, s) ==
  /\ s \in OfType("siem")
  /\ At(e, s, "started")
  /\ lock' = [lock EXCEPT ![s] = e]
  /\ Go(e, s, "locked")
  /\ UNCHANGED <<out, wire, file, dest, ragged, faults, running>>

\* SIEMSink.Send: the line is formatted before the mutex is taken.
Lock(e, s) ==
  /\ s \in OfType("siem")
  /\ At(e, s, "started")
  /\ lock[s] = None
  /\ lock' = [lock EXCEPT ![s] = e]
  /\ Go(e, s, "locked")
  /\ UNCHANGED <<out, wire, file, dest, ragged, faults, running>>

\* Mutant: the file is opened for each event, its handle not kept.
WriterForgets(e, s) ==
  /\ At(e, s, "locked")
  /\ Go(e, s, "ready")
  /\ file' = [file EXCEPT ![s] = "file"]
  /\ \/ dest' = [dest EXCEPT ![s] = IF Conf[s].path THEN "file" ELSE "stderr"] /\ UNCHANGED faults
     \/ Conf[s].path /\ dest' = [dest EXCEPT ![s] = "stderr"] /\ Fault(e, s)
  /\ UNCHANGED <<out, wire, lock, ragged, running>>

\* Mutant: after one failed open the sink stays with stderr.
WriterGivesUp(e, s) ==
  /\ At(e, s, "locked")
  /\ Go(e, s, "ready")
  /\ \/ /\ faults[s] # {} \/ ~Conf[s].path
        /\ dest' = [dest EXCEPT ![s] = "stderr"]
        /\ UNCHANGED <<file, faults>>
     \/ /\ faults[s] = {} /\ Conf[s].path
        /\ dest' = [dest EXCEPT ![s] = "file"]
        /\ file' = [file EXCEPT ![s] = "file"]
        /\ UNCHANGED faults
     \/ /\ faults[s] = {} /\ Conf[s].path
        /\ dest' = [dest EXCEPT ![s] = "stderr"]
        /\ Fault(e, s)
        /\ UNCHANGED file
  /\ UNCHANGED <<out, wire, lock, ragged, running>>

\* writer: stderr without a path; the open file; or else the file is opened,
\* and when that fails this event goes to stderr and the next tries again.
Writer(e, s) ==
  /\ At(e, s, "locked")
  /\ Go(e, s, "ready")
  /\ \/ /\ ~Conf[s].path
        /\ dest' = [dest EXCEPT ![s] = "stderr"]
        /\ UNCHANGED <<file, faults>>
     \/ /\ Conf[s].path
        /\ dest' = [dest EXCEPT ![s] = "file"]
        /\ file' = [file EXCEPT ![s] = "file"]
        /\ UNCHANGED faults
     \/ /\ Conf[s].path /\ file[s] = "nil"
        /\ dest' = [dest EXCEPT ![s] = "stderr"]
        /\ Fault(e, s)
        /\ UNCHANGED file
  /\ UNCHANGED <<out, wire, lock, ragged, running>>

\* Mutant: a write that fails returns before the unlock.
WriteLineKeeps(e, s) ==
  LET glued == dest[s] = "file" /\ ragged[s] IN
  /\ At(e, s, "ready")
  /\ \/ /\ Go(e, s, "done")
        /\ lock' = [lock EXCEPT ![s] = None]
        /\ Put(e, s, dest[s], IF glued THEN "glued" ELSE "line")
        /\ ragged' = [ragged EXCEPT ![s] = @ /\ ~glued]
        /\ UNCHANGED faults
     \/ Go(e, s, "failed") /\ Fault(e, s) /\ UNCHANGED <<lock, out, ragged>>
  /\ UNCHANGED <<wire, file, dest, running>>

\* Mutant: an event whose write fails goes to stderr instead.
WriteLineFallsBack(e, s) ==
  LET glued == dest[s] = "file" /\ ragged[s]
      chunk(place, part) == [event |-> e, place |-> place, part |-> part]
  IN
  /\ At(e, s, "ready")
  /\ lock' = [lock EXCEPT ![s] = None]
  /\ Go(e, s, "done")
  /\ \/ /\ Put(e, s, dest[s], IF glued THEN "glued" ELSE "line")
        /\ ragged' = [ragged EXCEPT ![s] = @ /\ ~glued]
        /\ UNCHANGED faults
     \/ /\ out' = [out EXCEPT ![s] = @ \o <<chunk(dest[s], "cut"), chunk("stderr", "line")>>]
        /\ ragged' = [ragged EXCEPT ![s] = @ \/ dest[s] = "file"]
        /\ Fault(e, s)
  /\ UNCHANGED <<wire, file, dest, running>>

\* Fprintln, then the unlock.  A short write leaves the file within a line, to
\* which the next event is glued.
WriteLine(e, s) ==
  LET glued == dest[s] = "file" /\ ragged[s] IN
  /\ At(e, s, "ready")
  /\ lock' = [lock EXCEPT ![s] = None]
  /\ \/ /\ Go(e, s, "done")
        /\ Put(e, s, dest[s], IF glued THEN "glued" ELSE "line")
        /\ ragged' = [ragged EXCEPT ![s] = @ /\ ~glued]
        /\ UNCHANGED faults
     \/ /\ Go(e, s, "failed")
        /\ Fault(e, s)
        /\ \/ Put(e, s, dest[s], "cut") /\ ragged' = [ragged EXCEPT ![s] = @ \/ dest[s] = "file"]
           \/ UNCHANGED <<out, ragged>>
  /\ UNCHANGED <<wire, file, dest, running>>
-----------------------------------------------------------------------------
\* main returns, and with it every goroutine.
Exit ==
  /\ running
  /\ running' = FALSE
  /\ job' = [e \in Events |-> [s \in Sinks |->
               IF job[e][s] \in {"none"} \cup Ended THEN job[e][s] ELSE "lost"]]
  /\ UNCHANGED <<out, wire, siemVars, faults>>

Webhook(e, s) == Post(e, s) \/ Answer(e, s) \/ Expire(e, s)
Siem(e, s) == Lock(e, s) \/ Writer(e, s) \/ WriteLine(e, s)
Send(e, s) == Println(e, s) \/ Webhook(e, s) \/ Siem(e, s)

Next ==
  \/ \E e \in Events : Emit(e) \/ \E s \in Sinks : Send(e, s) \/ Receive(e, s)
  \/ Exit

\* The scheduler runs what can run and the deadline comes; the webhook's server
\* owes nothing, nor does a file or pipe that may hang.
Local(e, s) == Post(e, s) \/ Expire(e, s) \/ (s \notin Hangs /\ (Println(e, s) \/ Siem(e, s)))

Fairness == \A e \in Events, s \in Sinks : WF_vars(Local(e, s))

Spec == Init /\ [][Next]_vars /\ Fairness
-----------------------------------------------------------------------------
\* The abstract dispatcher: what is between the go statement and the result of
\* Send is pending, and a chunk of the output is a copy.
Progress(step) ==
  CASE step = "none" -> "none"
    [] step = "done" -> "sent"
    [] step \in {"failed", "lost"} -> step
    [] OTHER -> "pending"

Copies(s, e) == {i \in DOMAIN out[s] : out[s][i].event = e}

Delivery == INSTANCE AlertDelivery WITH
  Remote <- OfType("webhook"),
  try    <- [e \in Events |-> [s \in Sinks |-> Progress(job[e][s])]],
  copies <- [e \in Events |-> [s \in Sinks |-> Cardinality(Copies(s, e))]],
  up     <- running

\* The sinks, with their locks, deadlines and files, deliver as AlertDelivery
\* says: each event at most once per sink, in any order, each sink on its own,
\* and after the result of Send only what a webhook's server gets late.
DeliversOnce == Delivery!Spec

\* No sink puts an event out twice, wherever it went to: a deadline that meets
\* a late answer, or a fallback to stderr, repeats nothing.
AtMostOnce ==
  \A s \in Sinks : \A i, j \in DOMAIN out[s] : out[s][i].event = out[s][j].event => i = j

Place(s) ==
  IF Conf[s].type = "stdout" THEN "stdout"
  ELSE IF Conf[s].type = "webhook" THEN "server"
  ELSE IF Conf[s].path THEN "file" ELSE "stderr"

\* A failure costs its own event, and at most the next line of the file: an
\* event whose sending met no error of its own has been put out where the
\* configuration says, on a line of its own, or else glued to a line cut short.
UnharmedDelivered ==
  \A s \in Sinks, e \in Events :
    job[e][s] = "done" /\ e \notin faults[s] =>
      \E i \in DOMAIN out[s] :
        /\ out[s][i].event = e /\ out[s][i].place = Place(s)
        /\ \/ out[s][i].part = "line"
           \/ /\ out[s][i].part = "glued"
              /\ \E j \in 1..i - 1 :
                   /\ out[s][j].place = "file" /\ out[s][j].part = "cut"
                   /\ \A k \in j + 1..i - 1 : out[s][k].place # "file" \/ out[s][k].part = "cut"

\* Once the SIEM file was opened, no event of the sink goes to stderr.
FileForGood ==
  [][\A s \in Sinks : file[s] = "file" =>
       \A i \in DOMAIN out'[s] \ DOMAIN out[s] : out'[s][i].place = "file"]_vars

\* The mutex of a SIEM sink is held only by a goroutine between its Lock and its
\* Unlock: none ends, or fails, with it.
MutexInUse ==
  running => \A s \in Sinks : lock[s] # None => job[lock[s]][s] \in {"locked", "ready"}

\* docs/configuration.md: "Each sink receives alert events independently."  A
\* sink that hangs, or is slow, keeps no other from ending its sending.
SlowSinkDelaysNoOther ==
  \A e \in Events, s \in Sinks \ Hangs : job[e][s] = "started" ~> job[e][s] \in Ended
=============================================================================
