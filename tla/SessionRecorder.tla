-------------------------- MODULE SessionRecorder --------------------------
(***************************************************************************)
(* The session recorder of internal/session/recorder.go, the hooks of      *)
(* internal/mcp/server.go that call it, and the reader of its files,       *)
(* Export (replay.go), behind ExportReplay and `wasphole replay`.  The     *)
(* listing of cmd_sessions.go scans the files in the same way.             *)
(*                                                                         *)
(* Every MCP request runs on a goroutine of its own, which records the     *)
(* request before the handler and the response or error after it.  Each    *)
(* record is two steps: the entry is stamped and marshalled, then written  *)
(* under the recorder's mutex.  The files outlive the process.             *)
(*                                                                         *)
(* A file is a sequence of chunks, each what one write added: the line, or *)
(* the bytes of it that a short write leaves, to which the next chunk is   *)
(* glued.  Of an entry's content only its size matters.                    *)
(***************************************************************************)
EXTENDS Integers, FiniteSets, Sequences

CONSTANTS
  Sessions,   \* session ids
  Hooks,      \* goroutines that serve a request
  Sizes,      \* bytes an entry is marshalled to, 0 if it is no JSON
  LineMax,    \* bytes of a line that the reader's buffer holds: 64 KiB less one
  MaxFiles,   \* descriptors the recorder's process may hold open
  ShortWrites,\* TRUE if a write may stop in the middle (the disk is full)
  MaxCalls,   \* bound: MCP requests
  MaxClock,   \* bound: ticks of the clock
  MaxRuns,    \* bound: processes, one after the other
  None

ASSUME SizeAssumption == Sizes \subseteq Nat /\ LineMax \in Nat

ASSUME RecorderAssumption ==
  /\ MaxFiles \in Nat /\ MaxCalls \in Nat /\ MaxClock \in Nat /\ MaxRuns \in Nat
  /\ ShortWrites \in BOOLEAN
  /\ None \notin Sessions

VARIABLES
  clock,   \* time.Now().UnixMilli()
  log,     \* the file of each session: a sequence of chunks
  files,   \* FileRecorder.files: "absent", "open", or "closed" handles
  pc,      \* where each goroutine is between two requests
  call,    \* the request it serves
  entry,   \* the entry it has stamped and not written
  calls,   \* requests so far, which number them
  runs,    \* processes so far
  closing, \* Close was called: the process is about to exit
  made,    \* per session, the entries whose write returned
  lost     \* and those of them that did not get into the file in full

procVars == <<files, pc, call, entry, closing>>
vars == <<clock, log, procVars, calls, runs, made, lost>>

\* A result is the response or error of a request that was recorded, a refusal
\* the error of one that was not.
Kinds == {"request", "result", "refusal"}
Call  == [sid: Sessions, id: Nat]
Entry == [id: Nat, type: Kinds, ts: Nat, size: Sizes]

\* The bytes of the entry that were written, whether its newline was, and how
\* long the line is with them, the remains it is glued to included.
Chunk == [entry: Entry, bytes: Nat, newline: BOOLEAN, end: Nat]

ASSUME NilAssumption == None \notin Call /\ None \notin Entry

TypeOK ==
  /\ clock \in Nat /\ calls \in Nat /\ runs \in Nat
  /\ log \in [Sessions -> Seq(Chunk)]
  /\ files \in [Sessions -> {"absent", "open", "closed"}]
  /\ pc \in [Hooks -> {"idle", "request", "handler", "response"}]
  /\ call \in [Hooks -> Call \cup {None}]
  /\ entry \in [Hooks -> Entry \cup {None}]
  /\ closing \in BOOLEAN
  /\ made \in [Sessions -> SUBSET Entry]
  /\ lost \in [Sessions -> SUBSET Entry]
  /\ \A h \in Hooks :
       /\ call[h] = None <=> pc[h] = "idle"
       /\ entry[h] = None <=> pc[h] \in {"idle", "handler"}

ProcessInit ==
  /\ files = [s \in Sessions |-> "absent"]
  /\ pc = [h \in Hooks |-> "idle"]
  /\ call = [h \in Hooks |-> None]
  /\ entry = [h \in Hooks |-> None]
  /\ closing = FALSE

Init ==
  /\ clock = 1
  /\ log = [s \in Sessions |-> <<>>]
  /\ ProcessInit
  /\ calls = 0
  /\ runs = 1
  /\ made = [s \in Sessions |-> {}]
  /\ lost = [s \in Sessions |-> {}]
-----------------------------------------------------------------------------
Tick ==
  /\ clock < MaxClock
  /\ clock' = clock + 1
  /\ UNCHANGED <<log, procVars, calls, runs, made, lost>>

\* RecordRequest, RecordResponse, RecordError: the entry takes its time here,
\* before the mutex.  An entry that is no JSON is dropped in write.
Stamp(h, type, size) ==
  entry' = [entry EXCEPT ![h] =
    [id |-> call'[h].id, type |-> type, ts |-> clock, size |-> size]]

\* BeforeAny.  A server that has shut down takes no more requests.
RecordRequest(h, s, size) ==
  /\ pc[h] = "idle" /\ ~closing
  /\ calls < MaxCalls
  /\ calls' = calls + 1
  /\ call' = [call EXCEPT ![h] = [sid |-> s, id |-> calls']]
  /\ Stamp(h, "request", size)
  /\ pc' = [pc EXCEPT ![h] = "request"]
  /\ UNCHANGED <<clock, log, files, runs, closing, made, lost>>

\* OnError, for a message that is unparsable or asks for what the server does
\* not support: BeforeAny is not called for it.
RecordRefusal(h, s, size) ==
  /\ pc[h] = "idle" /\ ~closing
  /\ calls < MaxCalls
  /\ calls' = calls + 1
  /\ call' = [call EXCEPT ![h] = [sid |-> s, id |-> calls']]
  /\ Stamp(h, "refusal", size)
  /\ pc' = [pc EXCEPT ![h] = "response"]
  /\ UNCHANGED <<clock, log, files, runs, closing, made, lost>>

\* Mutant: the request is recorded in the background, and its result may be
\* stamped first and take its place.
RecordResultEarly(h, size) ==
  /\ pc[h] \in {"request", "handler"}
  /\ UNCHANGED call
  /\ Stamp(h, "result", size)
  /\ pc' = [pc EXCEPT ![h] = "response"]
  /\ UNCHANGED <<clock, log, files, calls, runs, closing, made, lost>>

\* OnSuccess or OnError: the handler has returned.
RecordResult(h, size) ==
  /\ pc[h] = "handler"
  /\ UNCHANGED call
  /\ Stamp(h, "result", size)
  /\ pc' = [pc EXCEPT ![h] = "response"]
  /\ UNCHANGED <<clock, log, files, calls, runs, closing, made, lost>>

Held == {s \in Sessions : files[s] = "open"}

\* A session's first entry opens its file, if a descriptor is left.
CanOpen(s) == files[s] # "absent" \/ Cardinality(Held) < MaxFiles

\* The bytes already on the line to which the next write adds.
Column(f) == IF f = <<>> THEN 0 ELSE IF f[Len(f)].newline THEN 0 ELSE f[Len(f)].end

Piece(f, e, n, newline) ==
  [entry |-> e, bytes |-> n, newline |-> newline, end |-> Column(f) + n]

\* The file after f.Write took the whole line of e, or all or some of it but
\* the newline.
Whole(f, e)   == Append(f, Piece(f, e, e.size, TRUE))
Cut(f, e, n)  == IF n = 0 THEN f ELSE Append(f, Piece(f, e, n, FALSE))

WriteLine(s, f, e) == log' = [log EXCEPT ![s] = Whole(f, e)] /\ UNCHANGED lost

Lose(s, e) == lost' = [lost EXCEPT ![s] = @ \cup {e}]

WriteShort(s, f, e) ==
  /\ ShortWrites
  /\ \E n \in 0..e.size : log' = [log EXCEPT ![s] = Cut(f, e, n)]
  /\ Lose(s, e)

\* Mutant: the file is opened with O_TRUNC and without O_APPEND.
WriteEntryTruncating(s, e) ==
  IF e.size > 0 /\ CanOpen(s)
  THEN LET f == IF files[s] = "absent" THEN <<>> ELSE log[s] IN
       /\ files' = [files EXCEPT ![s] = IF @ = "absent" THEN "open" ELSE @]
       /\ IF files[s] = "closed" THEN UNCHANGED <<log, lost>>
          ELSE WriteLine(s, f, e) \/ WriteShort(s, f, e)
  ELSE Lose(s, e) /\ UNCHANGED <<files, log>>

\* An entry that is no JSON is dropped, a failed open loses it; the error of a
\* write that is short, or to a closed handle, is ignored.
WriteEntry(s, e) ==
  IF e.size > 0 /\ CanOpen(s)
  THEN /\ files' = [files EXCEPT ![s] = IF @ = "absent" THEN "open" ELSE @]
       /\ IF files[s] = "closed" THEN UNCHANGED <<log, lost>>
          ELSE WriteLine(s, log[s], e) \/ WriteShort(s, log[s], e)
  ELSE Lose(s, e) /\ UNCHANGED <<files, log>>

\* Mutant: the entry is kept after it was written.
WriteKeepsEntry(h) ==
  LET s == call[h].sid IN
  /\ pc[h] \in {"request", "response"}
  /\ WriteEntry(s, entry[h])
  /\ made' = [made EXCEPT ![s] = @ \cup {entry[h]}]
  /\ UNCHANGED entry
  /\ IF pc[h] = "request"
     THEN pc' = [pc EXCEPT ![h] = "handler"] /\ UNCHANGED call
     ELSE pc' = [pc EXCEPT ![h] = "idle"] /\ call' = [call EXCEPT ![h] = None]
  /\ UNCHANGED <<clock, calls, runs, closing>>

\* write, its mutex held.
Write(h) ==
  LET s == call[h].sid IN
  /\ pc[h] \in {"request", "response"}
  /\ WriteEntry(s, entry[h])
  /\ made' = [made EXCEPT ![s] = @ \cup {entry[h]}]
  /\ entry' = [entry EXCEPT ![h] = None]
  /\ IF pc[h] = "request"
     THEN pc' = [pc EXCEPT ![h] = "handler"] /\ UNCHANGED call
     ELSE pc' = [pc EXCEPT ![h] = "idle"] /\ call' = [call EXCEPT ![h] = None]
  /\ UNCHANGED <<clock, calls, runs, closing>>

\* Mutant: Close leaves its closed handles in the map.
CloseKeepsMap ==
  /\ ~closing
  /\ closing' = TRUE
  /\ files' = [s \in Sessions |-> IF files[s] = "open" THEN "closed" ELSE files[s]]
  /\ UNCHANGED <<clock, log, pc, call, entry, calls, runs, made, lost>>

\* The server's last step, while handlers that outlived the five seconds of
\* Shutdown still run: their next entry opens the file again.
Close ==
  /\ ~closing
  /\ closing' = TRUE
  /\ files' = [s \in Sessions |-> "absent"]
  /\ UNCHANGED <<clock, log, pc, call, entry, calls, runs, made, lost>>

\* The process exits after Close, or is killed; another one is started.
Restart ==
  /\ runs < MaxRuns
  /\ runs' = runs + 1
  /\ files' = [s \in Sessions |-> "absent"]
  /\ pc' = [h \in Hooks |-> "idle"]
  /\ call' = [h \in Hooks |-> None]
  /\ entry' = [h \in Hooks |-> None]
  /\ closing' = FALSE
  /\ UNCHANGED <<clock, log, calls, made, lost>>

Hook(h) ==
  \/ \E s \in Sessions, size \in Sizes : RecordRequest(h, s, size) \/ RecordRefusal(h, s, size)
  \/ \E size \in Sizes : RecordResult(h, size)
  \/ Write(h)

Next == Tick \/ Close \/ Restart \/ \E h \in Hooks : Hook(h)

Spec == Init /\ [][Next]_vars
-----------------------------------------------------------------------------
\* The reader's line that ends with chunk i holds its entry and nothing else:
\* the last line of a file needs no newline.
Intact(f, i) ==
  /\ f[i].newline \/ (f[i].bytes = f[i].entry.size /\ i = Len(f))
  /\ i > 1 => f[i - 1].newline

\* A line the scanner's buffer does not hold ends the scan with an error.
TooLong(f, i) == f[i].end > LineMax

\* The chunks whose entries Export has in its session when the scan ends, the
\* malformed lines skipped: with an error, if a line was too long.
Scanned(f)    == {i \in 1..Len(f) : Intact(f, i) /\ \A j \in 1..i : ~TooLong(f, j)}
Unreadable(f) == \E j \in 1..Len(f) : TooLong(f, j)

\* ExportReplay: on an error there is no replay, of the lines before it either.
Replayed(f) == IF Unreadable(f) THEN {} ELSE Scanned(f)

-----------------------------------------------------------------------------
\* The chunk is glued to what an entry that was lost has left of its own.
Glued(s, i) == i > 1 /\ log[s][i - 1].entry \in lost[s]

\* A line is too long for a reason: its entry alone is, or it is glued.
Oversized(s, j) == TooLong(log[s], j) /\ (log[s][j].entry.size > LineMax \/ Glued(s, j))

\* The record is complete: once write has returned, an entry that was not lost to
\* a fault of the disk, to the limit of descriptors or to JSON is replayed, also
\* when Close or a restart comes between the entries of one call.  Two things
\* undo it: what was lost costs the entry glued to it, and one line too long costs
\* the whole session its replay.
\* (README.md: "record complete MCP sessions as JSONL for replay".)
Complete ==
  \A s \in Sessions : \A e \in made[s] \ lost[s] :
    \E i \in 1..Len(log[s]) :
      /\ log[s][i].entry = e /\ log[s][i].newline
      /\ \/ i \in Replayed(log[s])
         \/ Glued(s, i)
         \/ \E j \in 1..Len(log[s]) : Oversized(s, j)

\* Later writes, Close and new processes leave every whole line that a scan came
\* to where it was and within its reach; and a session that can be replayed
\* remains so, until a line too long is written to it.  (A last line that lacks
\* only its newline is read until the next entry is glued to it.)
ReplayStable ==
  [][\A s \in Sessions : \A i \in Scanned(log[s]) :
       log[s][i].newline =>
         /\ i \in Scanned(log'[s]) /\ log'[s][i] = log[s][i]
         /\ i \in Replayed(log[s]) =>
              i \in Replayed(log'[s]) \/ Oversized(s, Len(log[s]))']_vars

\* A result is read after its request, never without it and never as earlier,
\* unless the request was lost, or glued to what was: by Export, and so in a
\* replay.  (A refusal has no request.)
CallsInOrder ==
  \A s \in Sessions : \A j \in Scanned(log[s]) :
    LET result == log[s][j].entry IN
    result.type = "result" =>
      \/ \E e \in lost[s] : e.type = "request" /\ e.id = result.id
      \/ \E i \in 1..j - 1 :
           LET request == log[s][i].entry IN
           /\ request.type = "request" /\ request.id = result.id
           /\ request.ts <= result.ts
           /\ log[s][i].newline
           /\ i \in Scanned(log[s]) \/ Glued(s, i)
=============================================================================
