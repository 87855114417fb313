----------------------- MODULE SessionRecorderProofs -----------------------
(***************************************************************************)
(* Proofs about the session recorder: its types, that nothing it does      *)
(* moves a line or takes it out of a reader's reach except a line too long,*)
(* that its record is complete but for what the disk refused and what that *)
(* costs, and that results follow their requests.                          *)
(***************************************************************************)
EXTENDS SessionRecorder, TLAPS

\* Sizes are numbers.
LEMMA SizeType ==
  ASSUME NEW e \in Entry
  PROVE  e.size \in Nat
  BY SizeAssumption DEF Entry

\* What a write adds is a chunk.
LEMMA PieceType ==
  ASSUME NEW f \in Seq(Chunk), NEW e \in Entry, NEW n \in 0..e.size, NEW newline \in BOOLEAN
  PROVE  Piece(f, e, n, newline) \in Chunk
  <1>1. e.size \in Nat /\ n \in Nat
    <2>1. e.size \in Nat
      BY SizeType
    <2> QED
      BY <2>1
  <1>2. Column(f) \in Nat
    <2>1. CASE f = <<>>
      BY <2>1 DEF Column
    <2>2. CASE f # <<>>
      <3>1. f[Len(f)] \in Chunk
        BY <2>2
      <3> QED
        BY <3>1, <2>2 DEF Column, Chunk
    <2> QED
      BY <2>1, <2>2
  <1> QED
    BY <1>1, <1>2 DEF Piece, Chunk

\* What an append leaves: the chunks of before, and the new one.
LEMMA Appended ==
  ASSUME NEW f \in Seq(Chunk), NEW c
  PROVE  /\ Len(Append(f, c)) = Len(f) + 1
         /\ Append(f, c)[Len(f) + 1] = c
         /\ \A i \in 1..Len(f) : Append(f, c)[i] = f[i]
         /\ Len(f) \in Nat
  OBVIOUS

\* What one write does to the files: nothing, or it adds one piece to its own.
Grown(s, e) ==
  \/ log' = log
  \/ \E n \in 0..e.size, newline \in BOOLEAN :
       log' = [log EXCEPT ![s] = Append(@, Piece(log[s], e, n, newline))]

\* It loses the entry and may leave some of it, or it adds the whole line; a
\* closed handle it never meets: see NoneClosed.
Outcome(s, e) ==
  \/ /\ lost' = [lost EXCEPT ![s] = @ \cup {e}]
     /\ \/ log' = log
        \/ \E n \in 0..e.size :
             log' = [log EXCEPT ![s] = Append(@, Piece(log[s], e, n, FALSE))]
  \/ /\ lost' = lost
     /\ log' = [log EXCEPT ![s] = Append(@, Piece(log[s], e, e.size, TRUE))]

LEMMA WriteOutcome ==
  ASSUME NEW s \in Sessions, NEW e \in Entry, WriteEntry(s, e),
         log \in [Sessions -> Seq(Chunk)]
  PROVE  files[s] # "closed" => Outcome(s, e)
  <1> SUFFICES ASSUME files[s] # "closed" PROVE Outcome(s, e)
    OBVIOUS
  <1>1. CASE e.size > 0 /\ CanOpen(s)
    <2>1. WriteLine(s, log[s], e) \/ WriteShort(s, log[s], e)
      BY <1>1 DEF WriteEntry
    <2>2. CASE WriteLine(s, log[s], e)
      BY <2>2 DEF WriteLine, Whole, Outcome
    <2>3. CASE WriteShort(s, log[s], e)
      <3>1. PICK n \in 0..e.size : log' = [log EXCEPT ![s] = Cut(log[s], e, n)]
        BY <2>3 DEF WriteShort
      <3>2. lost' = [lost EXCEPT ![s] = @ \cup {e}]
        BY <2>3 DEF WriteShort, Lose
      <3>3. CASE n = 0
        <4>1. log' = log
          BY <3>1, <3>3 DEF Cut
        <4> QED
          BY <3>2, <4>1 DEF Outcome
      <3>4. CASE n # 0
        <4>1. log' = [log EXCEPT ![s] = Append(@, Piece(log[s], e, n, FALSE))]
          BY <3>1, <3>4 DEF Cut
        <4> QED
          BY <3>2, <4>1 DEF Outcome
      <3> QED
        BY <3>3, <3>4
    <2> QED
      BY <2>1, <2>2, <2>3
  <1>2. CASE ~(e.size > 0 /\ CanOpen(s))
    BY <1>2 DEF WriteEntry, Lose, Outcome
  <1> QED
    BY <1>1, <1>2

LEMMA WriteGrows ==
  ASSUME NEW s \in Sessions, NEW e \in Entry, WriteEntry(s, e),
         log \in [Sessions -> Seq(Chunk)]
  PROVE  Grown(s, e)
  <1>1. e.size \in Nat
    BY SizeType
  <1>2. CASE files[s] = "closed"
    BY <1>2 DEF WriteEntry, Grown
  <1>3. CASE files[s] # "closed"
    <2>1. Outcome(s, e)
      BY <1>3, WriteOutcome
    <2>2. \A n \in 0..e.size : n \in Nat
      BY <1>1
    <2>3. e.size \in 0..e.size
      BY <1>1
    <2>4. CASE log' = log
      BY <2>4 DEF Grown
    <2>5. ASSUME NEW n \in 0..e.size, NEW newline \in BOOLEAN,
                 log' = [log EXCEPT ![s] = Append(@, Piece(log[s], e, n, newline))]
          PROVE  Grown(s, e)
      BY <2>5 DEF Grown
    <2> QED
      BY <2>1, <2>3, <2>4, <2>5 DEF Outcome
  <1> QED
    BY <1>2, <1>3

\* A step adds at most one chunk to the file of a session.
Extended(s) == log'[s] = log[s] \/ \E c \in Chunk : log'[s] = Append(log[s], c)

\* write keeps the types of the files, of the handles and of what was lost.
LEMMA WriteEntryType ==
  ASSUME TypeOK, NEW s \in Sessions, NEW e \in Entry, WriteEntry(s, e)
  PROVE  /\ log' \in [Sessions -> Seq(Chunk)]
         /\ files' \in [Sessions -> {"absent", "open", "closed"}]
         /\ lost' \in [Sessions -> SUBSET Entry]
         /\ \A r \in Sessions : Extended(r)
  <1>1. /\ log \in [Sessions -> Seq(Chunk)] /\ lost \in [Sessions -> SUBSET Entry]
        /\ files \in [Sessions -> {"absent", "open", "closed"}]
    BY DEF TypeOK
  <1>2. log' \in [Sessions -> Seq(Chunk)] /\ \A r \in Sessions : Extended(r)
    <2>1. CASE log' = log
      BY <1>1, <2>1 DEF Extended
    <2>2. CASE \E n \in 0..e.size, newline \in BOOLEAN :
                 log' = [log EXCEPT ![s] = Append(@, Piece(log[s], e, n, newline))]
      <3>1. PICK n \in 0..e.size, newline \in BOOLEAN :
              log' = [log EXCEPT ![s] = Append(@, Piece(log[s], e, n, newline))]
        BY <2>2
      <3>2. log[s] \in Seq(Chunk)
        BY <1>1
      <3>3. PICK c \in Chunk : c = Piece(log[s], e, n, newline)
        BY <3>2, PieceType
      <3>4. log' = [log EXCEPT ![s] = Append(@, c)]
        BY <3>1, <3>3
      <3> QED
        BY <1>1, <3>4 DEF Extended
    <2> QED
      BY <1>1, <2>1, <2>2, WriteGrows DEF Grown
  <1>3. files' \in [Sessions -> {"absent", "open", "closed"}]
    <2>1. \/ files' = files
          \/ files' = [files EXCEPT ![s] = IF @ = "absent" THEN "open" ELSE @]
      BY DEF WriteEntry
    <2> QED
      BY <1>1, <2>1
  <1>4. lost' \in [Sessions -> SUBSET Entry]
    <2>1. lost' = lost \/ lost' = [lost EXCEPT ![s] = @ \cup {e}]
      BY DEF WriteEntry, WriteLine, WriteShort, Lose
    <2> QED
      BY <1>1, <2>1
  <1> QED
    BY <1>2, <1>3, <1>4

LEMMA TypeInit == Init => TypeOK
  <1> SUFFICES ASSUME Init PROVE TypeOK
    OBVIOUS
  <1>1. log \in [Sessions -> Seq(Chunk)]
    <2>1. <<>> \in Seq(Chunk)
      OBVIOUS
    <2> QED
      BY <2>1 DEF Init
  <1>2. made \in [Sessions -> SUBSET Entry] /\ lost \in [Sessions -> SUBSET Entry]
    BY DEF Init
  <1> QED
    BY <1>1, <1>2 DEF Init, ProcessInit, TypeOK

LEMMA TypeRequest ==
  ASSUME TypeOK, NEW h \in Hooks, NEW s \in Sessions, NEW size \in Sizes,
         RecordRequest(h, s, size) \/ RecordRefusal(h, s, size)
  PROVE  TypeOK'
  <1> DEFINE new == [sid |-> s, id |-> calls']
  <1>1. calls' \in Nat /\ new \in Call
    BY DEF TypeOK, RecordRequest, RecordRefusal, Call
  <1>2. call' = [call EXCEPT ![h] = new] /\ call'[h] = new
    BY DEF TypeOK, RecordRequest, RecordRefusal
  <1>3. PICK type \in Kinds : Stamp(h, type, size)
    BY DEF RecordRequest, RecordRefusal, Kinds
  <1> DEFINE line == [id |-> call'[h].id, type |-> type, ts |-> clock, size |-> size]
  <1>4. line \in Entry
    BY <1>1, <1>2 DEF TypeOK, Entry
  <1>5. entry' = [entry EXCEPT ![h] = line]
    BY <1>3 DEF Stamp
  <1>6. /\ \E at \in {"request", "response"} : pc' = [pc EXCEPT ![h] = at]
        /\ UNCHANGED <<clock, log, files, runs, closing, made, lost>>
    BY DEF RecordRequest, RecordRefusal
  <1> HIDE DEF new, line
  <1> QED
    BY <1>1, <1>2, <1>4, <1>5, <1>6, NilAssumption DEF TypeOK

LEMMA TypeResult ==
  ASSUME TypeOK, NEW h \in Hooks, NEW size \in Sizes, RecordResult(h, size)
  PROVE  TypeOK'
  <1>1. pc[h] = "handler" /\ call[h] \in Call /\ call'[h] = call[h]
    BY DEF TypeOK, RecordResult
  <1> DEFINE line == [id |-> call'[h].id, type |-> "result", ts |-> clock, size |-> size]
  <1>2. line \in Entry
    BY <1>1 DEF TypeOK, Entry, Kinds, Call
  <1>3. entry' = [entry EXCEPT ![h] = line]
    BY DEF RecordResult, Stamp
  <1>4. pc' = [pc EXCEPT ![h] = "response"]
        /\ UNCHANGED <<clock, call, log, files, calls, runs, closing, made, lost>>
    BY DEF RecordResult
  <1> HIDE DEF line
  <1> QED
    BY <1>1, <1>2, <1>3, <1>4, NilAssumption DEF TypeOK

\* A hook that writes has an entry and knows its session.
LEMMA Writing ==
  ASSUME TypeOK, NEW h \in Hooks, Write(h)
  PROVE  /\ call[h].sid \in Sessions
         /\ entry[h] \in Entry
         /\ WriteEntry(call[h].sid, entry[h])
  <1>1. call[h] \in Call /\ entry[h] \in Entry
    BY DEF TypeOK, Write
  <1> QED
    BY <1>1 DEF Write, Call

LEMMA TypeWrite ==
  ASSUME TypeOK, NEW h \in Hooks, Write(h)
  PROVE  TypeOK'
  <1>1. PICK s \in Sessions : s = call[h].sid
    BY Writing
  <1>2. entry[h] \in Entry /\ WriteEntry(s, entry[h])
    BY Writing, <1>1
  <1>3. /\ log' \in [Sessions -> Seq(Chunk)]
        /\ files' \in [Sessions -> {"absent", "open", "closed"}]
        /\ lost' \in [Sessions -> SUBSET Entry]
    BY <1>2, WriteEntryType
  <1>4. made' \in [Sessions -> SUBSET Entry]
    BY <1>1, <1>2 DEF Write, TypeOK
  <1>5. UNCHANGED <<clock, calls, runs, closing>> /\ entry' = [entry EXCEPT ![h] = None]
    BY DEF Write
  <1>6. CASE pc[h] = "request"
    <2>1. pc' = [pc EXCEPT ![h] = "handler"] /\ UNCHANGED call
      BY <1>6 DEF Write
    <2> QED
      BY <1>3, <1>4, <1>5, <1>6, <2>1 DEF TypeOK
  <1>7. CASE pc[h] = "response"
    <2>1. pc' = [pc EXCEPT ![h] = "idle"] /\ call' = [call EXCEPT ![h] = None]
      BY <1>7 DEF Write
    <2> QED
      BY <1>3, <1>4, <1>5, <1>7, <2>1 DEF TypeOK
  <1> QED
    BY <1>6, <1>7 DEF Write

LEMMA TypeNext == TypeOK /\ [Next]_vars => TypeOK'
  <1> SUFFICES ASSUME TypeOK, [Next]_vars PROVE TypeOK'
    OBVIOUS
  <1>1. CASE Tick
    BY <1>1 DEF TypeOK, Tick, procVars
  <1>2. CASE Close
    BY <1>2 DEF TypeOK, Close
  <1>3. CASE Restart
    <2>1. runs' \in Nat
      BY <1>3 DEF TypeOK, Restart
    <2>2. /\ files' \in [Sessions -> {"absent", "open", "closed"}]
          /\ pc' \in [Hooks -> {"idle", "request", "handler", "response"}]
          /\ closing' \in BOOLEAN
      BY <1>3 DEF Restart
    <2>3. /\ call' \in [Hooks -> Call \cup {None}]
          /\ entry' \in [Hooks -> Entry \cup {None}]
          /\ \A h \in Hooks : call'[h] = None /\ entry'[h] = None /\ pc'[h] = "idle"
      BY <1>3 DEF Restart
    <2>4. UNCHANGED <<clock, log, calls, made, lost>>
      BY <1>3 DEF Restart
    <2> QED
      BY <2>1, <2>2, <2>3, <2>4 DEF TypeOK
  <1>4. CASE \E h \in Hooks : Hook(h)
    BY <1>4, TypeRequest, TypeResult, TypeWrite DEF Hook
  <1>5. CASE UNCHANGED vars
    BY <1>5 DEF TypeOK, vars, procVars
  <1> QED
    BY <1>1, <1>2, <1>3, <1>4, <1>5 DEF Next

\* The recorder's state and its files keep their types, and a hook holds an
\* entry exactly between its stamp and its write.
THEOREM RecorderTypeCorrect == Spec => []TypeOK
  BY TypeInit, TypeNext, PTL DEF Spec
-----------------------------------------------------------------------------
\* A step that is no write leaves the files and the two records alone.
LEMMA OnlyWrites ==
  ASSUME [Next]_vars
  PROVE  (\E h \in Hooks : Write(h)) \/ UNCHANGED <<log, made, lost>>
  BY DEF Next, Hook, Tick, Close, Restart, RecordRequest, RecordRefusal, RecordResult, vars

\* The record's inductive invariant tells why it is complete: no handle in the
\* map is ever closed, whatever lacks its newline is left of an entry that was
\* lost, a line is no longer than its entry unless it is glued to such remains,
\* and any entry whose write has returned and that was not lost has its line.
HasLine(s, e) == \E i \in 1..Len(log[s]) : log[s][i].entry = e /\ log[s][i].newline

ChunkFits(s, i) ==
  /\ ~log[s][i].newline => log[s][i].entry \in lost[s]
  /\ log[s][i].end <= log[s][i].entry.size \/ Glued(s, i)

RecordInv ==
  /\ \A s \in Sessions : files[s] # "closed"
  /\ \A s \in Sessions : \A i \in 1..Len(log[s]) : ChunkFits(s, i)
  /\ \A s \in Sessions : \A e \in made[s] \ lost[s] : HasLine(s, e)

\* No step closes a handle and keeps it.
LEMMA NoneClosed ==
  ASSUME TypeOK, [Next]_vars, NEW s \in Sessions, files[s] # "closed"
  PROVE  files'[s] # "closed"
  <1>1. files \in [Sessions -> {"absent", "open", "closed"}]
    BY DEF TypeOK
  <1>2. CASE \E h \in Hooks : Write(h)
    <2>1. PICK h \in Hooks : Write(h)
      BY <1>2
    <2>2. PICK r \in Sessions : r = call[h].sid
      BY <2>1, Writing
    <2>3. WriteEntry(r, entry[h])
      BY <2>1, <2>2, Writing
    <2>4. \/ UNCHANGED files
          \/ files' = [files EXCEPT ![r] = IF @ = "absent" THEN "open" ELSE @]
      BY <2>3 DEF WriteEntry
    <2> QED
      BY <1>1, <2>4
  <1>3. CASE files' = [r \in Sessions |-> "absent"]
    BY <1>3
  <1>4. CASE UNCHANGED files
    BY <1>4
  <1>5. (\E h \in Hooks : Write(h)) \/ files' = [r \in Sessions |-> "absent"] \/ UNCHANGED files
    BY DEF Next, Hook, Tick, Close, Restart, RecordRequest, RecordRefusal, RecordResult, vars, procVars
  <1> QED
    BY <1>2, <1>3, <1>4, <1>5

\* A write, seen from any session: it is another session's, it loses the entry
\* without a trace or with one, or it writes the line.
Untouched(s) == log'[s] = log[s] /\ lost'[s] = lost[s] /\ made'[s] = made[s]
Dropped(s, e) ==
  made'[s] = made[s] \cup {e} /\ lost'[s] = lost[s] \cup {e} /\ log'[s] = log[s]
CutShort(s, e) ==
  /\ made'[s] = made[s] \cup {e} /\ lost'[s] = lost[s] \cup {e}
  /\ \E n \in 0..e.size : log'[s] = Append(log[s], Piece(log[s], e, n, FALSE))
Recorded(s, e) ==
  /\ made'[s] = made[s] \cup {e} /\ lost'[s] = lost[s]
  /\ log'[s] = Append(log[s], Piece(log[s], e, e.size, TRUE))

LEMMA WriteSeen ==
  ASSUME TypeOK, NEW h \in Hooks, Write(h), NEW s \in Sessions, files[s] # "closed",
         NEW e, e = entry[h]
  PROVE  \/ s # call[h].sid /\ Untouched(s)
         \/ s = call[h].sid /\ e \in Entry /\ (Dropped(s, e) \/ CutShort(s, e) \/ Recorded(s, e))
  <1>1. PICK r \in Sessions : r = call[h].sid
    BY Writing
  <1>2. e \in Entry /\ WriteEntry(r, e)
    BY <1>1, Writing
  <1>3. /\ log \in [Sessions -> Seq(Chunk)] /\ lost \in [Sessions -> SUBSET Entry]
        /\ made \in [Sessions -> SUBSET Entry]
    BY DEF TypeOK
  <1>4. made' = [made EXCEPT ![r] = @ \cup {e}]
    BY <1>1 DEF Write
  <1>5. CASE s = r
    <2>1. files[r] # "closed"
      BY <1>5
    <2>2. Outcome(r, e)
      BY <1>2, <1>3, <2>1, WriteOutcome
    <2>3. made'[s] = made[s] \cup {e}
      BY <1>3, <1>4, <1>5
    <2>4. CASE lost' = [lost EXCEPT ![r] = @ \cup {e}] /\ log' = log
      BY <1>1, <1>2, <1>3, <1>5, <2>3, <2>4 DEF Dropped
    <2>5. ASSUME lost' = [lost EXCEPT ![r] = @ \cup {e}], NEW n \in 0..e.size,
                 log' = [log EXCEPT ![r] = Append(@, Piece(log[r], e, n, FALSE))]
          PROVE  CutShort(s, e)
      <3>1. PICK c : c = Piece(log[r], e, n, FALSE)
        OBVIOUS
      <3>2. log'[s] = Append(log[s], c)
        BY <1>3, <1>5, <2>5, <3>1
      <3>3. lost'[s] = lost[s] \cup {e}
        BY <1>3, <1>5, <2>5
      <3> QED
        BY <1>5, <2>3, <3>1, <3>2, <3>3 DEF CutShort
    <2>6. ASSUME lost' = lost,
                 log' = [log EXCEPT ![r] = Append(@, Piece(log[r], e, e.size, TRUE))]
          PROVE  Recorded(s, e)
      <3>1. PICK c : c = Piece(log[r], e, e.size, TRUE)
        OBVIOUS
      <3>2. log'[s] = Append(log[s], c)
        BY <1>3, <1>5, <2>6, <3>1
      <3> QED
        BY <1>5, <2>3, <2>6, <3>1, <3>2 DEF Recorded
    <2> QED
      BY <1>1, <1>2, <1>5, <2>2, <2>4, <2>5, <2>6 DEF Outcome
  <1>6. CASE s # r
    <2>1. log'[s] = log[s] /\ lost'[s] = lost[s]
      BY <1>2, <1>3, <1>6 DEF WriteEntry, WriteLine, WriteShort, Lose
    <2>2. made'[s] = made[s]
      BY <1>3, <1>4, <1>6
    <2> QED
      BY <1>1, <1>6, <2>1, <2>2 DEF Untouched
  <1> QED
    BY <1>5, <1>6

\* A line stays where it is while its file grows.
LEMMA HasLineGrows ==
  ASSUME NEW s \in Sessions, NEW e, log[s] \in Seq(Chunk), HasLine(s, e),
         log'[s] = log[s] \/ \E c : log'[s] = Append(log[s], c)
  PROVE  HasLine(s, e)'
  <1>1. PICK i \in 1..Len(log[s]) : log[s][i].entry = e /\ log[s][i].newline
    BY DEF HasLine
  <1>2. i \in 1..Len(log'[s]) /\ log'[s][i] = log[s][i]
    BY Appended
  <1> QED
    BY <1>1, <1>2 DEF HasLine

\* So does a chunk that fits, while more is lost.
LEMMA FitsGrows ==
  ASSUME NEW s \in Sessions, log[s] \in Seq(Chunk), NEW i \in 1..Len(log[s]), ChunkFits(s, i),
         log'[s] = log[s] \/ \E c : log'[s] = Append(log[s], c), lost[s] \subseteq lost'[s]
  PROVE  ChunkFits(s, i)'
  <1>1. log'[s][i] = log[s][i]
    BY Appended
  <1>2. i > 1 => i - 1 \in 1..Len(log[s])
    OBVIOUS
  <1>3. i > 1 => log'[s][i - 1] = log[s][i - 1]
    BY <1>2, Appended
  <1> QED
    BY <1>1, <1>3 DEF ChunkFits, Glued

\* The piece a write adds fits: what it is glued to was lost.
LEMMA PieceFits ==
  ASSUME NEW s \in Sessions, log[s] \in Seq(Chunk), NEW e \in Entry, NEW n \in 0..e.size,
         NEW newline \in BOOLEAN,
         \A k \in 1..Len(log[s]) : ChunkFits(s, k),
         log'[s] = Append(log[s], Piece(log[s], e, n, newline)),
         lost[s] \subseteq lost'[s], newline \/ e \in lost'[s],
         NEW i, i = Len(log[s]) + 1
  PROVE  ChunkFits(s, i)'
  <1> DEFINE f == log[s]
             c == Piece(f, e, n, newline)
  <1>1. /\ c.entry = e /\ c.newline = newline /\ c.end = Column(f) + n
    BY DEF Piece
  <1>2. log'[s][i] = c
    BY Appended
  <1>3. e.size \in Nat /\ n \in Nat /\ n <= e.size
    <2>1. e.size \in Nat
      BY SizeType
    <2> QED
      BY <2>1
  <1>4. CASE Column(f) = 0
    BY <1>1, <1>2, <1>3, <1>4 DEF ChunkFits
  <1>5. CASE Column(f) # 0
    <2>1. f # <<>> /\ ~f[Len(f)].newline
      BY <1>5 DEF Column
    <2>2. Len(f) \in 1..Len(f)
      BY <2>1
    <2>3. f[Len(f)].entry \in lost[s]
      BY <2>1, <2>2 DEF ChunkFits
    <2>4. log'[s][Len(f)] = f[Len(f)] /\ i > 1 /\ i - 1 = Len(f)
      BY <2>2, Appended
    <2>5. Glued(s, i)'
      BY <2>3, <2>4 DEF Glued
    <2> QED
      BY <1>1, <1>2, <2>5 DEF ChunkFits
  <1> QED
    BY <1>4, <1>5

LEMMA RecordInvWrite ==
  ASSUME TypeOK, RecordInv, NEW h \in Hooks, Write(h), NEW s \in Sessions
  PROVE  /\ \A i \in 1..Len(log'[s]) : ChunkFits(s, i)'
         /\ \A e \in made'[s] \ lost'[s] : HasLine(s, e)'
  <1> DEFINE Fit  == \A i \in 1..Len(log'[s]) : ChunkFits(s, i)'
             Kept == \A d \in made'[s] \ lost'[s] : HasLine(s, d)'
  <1>1. PICK e : e = entry[h]
    OBVIOUS
  <1>2. /\ files[s] # "closed" /\ log[s] \in Seq(Chunk)
        /\ \A i \in 1..Len(log[s]) : ChunkFits(s, i)
        /\ \A d \in made[s] \ lost[s] : HasLine(s, d)
    BY DEF RecordInv, TypeOK
  <1>3. ASSUME Untouched(s) PROVE Fit /\ Kept
    <2>1. Fit
      BY <1>2, <1>3, FitsGrows DEF Untouched
    <2>2. Kept
      BY <1>2, <1>3, HasLineGrows DEF Untouched
    <2> QED
      BY <2>1, <2>2
  <1>4. ASSUME Dropped(s, e) PROVE Fit /\ Kept
    <2>1. Fit
      BY <1>2, <1>4, FitsGrows DEF Dropped
    <2>2. Kept
      BY <1>2, <1>4, HasLineGrows DEF Dropped
    <2> QED
      BY <2>1, <2>2
  <1>5. ASSUME NEW n \in 0..e.size, NEW newline \in BOOLEAN, e \in Entry,
               log'[s] = Append(log[s], Piece(log[s], e, n, newline)),
               lost[s] \subseteq lost'[s], newline \/ e \in lost'[s]
        PROVE  Fit
    <2> SUFFICES ASSUME NEW i \in 1..Len(log'[s]) PROVE ChunkFits(s, i)'
      OBVIOUS
    <2>1. i \in 1..Len(log[s]) \/ i = Len(log[s]) + 1
      BY <1>2, <1>5, Appended
    <2>2. CASE i \in 1..Len(log[s])
      BY <2>2, <1>2, <1>5, FitsGrows
    <2>3. CASE i = Len(log[s]) + 1
      BY <2>3, <1>2, <1>5, PieceFits
    <2> QED
      BY <2>1, <2>2, <2>3
  <1>6. ASSUME CutShort(s, e), e \in Entry PROVE Fit /\ Kept
    <2>1. PICK n \in 0..e.size : log'[s] = Append(log[s], Piece(log[s], e, n, FALSE))
      BY <1>6 DEF CutShort
    <2>2. Fit
      BY <1>5, <1>6, <2>1 DEF CutShort
    <2>3. Kept
      BY <1>2, <1>6, <2>1, HasLineGrows DEF CutShort
    <2> QED
      BY <2>2, <2>3
  <1>7. ASSUME Recorded(s, e), e \in Entry PROVE Fit /\ Kept
    <2>1. e.size \in 0..e.size
      <3>1. e.size \in Nat
        BY <1>7, SizeType
      <3> QED
        BY <3>1
    <2>2. Fit
      BY <1>5, <1>7, <2>1 DEF Recorded
    <2>3. HasLine(s, e)'
      <3>1. PICK c : c = Piece(log[s], e, e.size, TRUE)
        OBVIOUS
      <3>2. c.entry = e /\ c.newline
        BY <3>1 DEF Piece
      <3>4. log'[s] = Append(log[s], c)
        BY <1>7, <3>1 DEF Recorded
      <3>3. Len(log[s]) + 1 \in 1..Len(log'[s]) /\ log'[s][Len(log[s]) + 1] = c
        BY <1>2, <3>4, Appended
      <3> QED
        BY <3>2, <3>3 DEF HasLine
    <2>4. Kept
      BY <1>2, <1>7, <2>3, HasLineGrows DEF Recorded
    <2> QED
      BY <2>2, <2>4
  <1>8. Untouched(s) \/ (e \in Entry /\ (Dropped(s, e) \/ CutShort(s, e) \/ Recorded(s, e)))
    BY <1>1, <1>2, WriteSeen
  <1> HIDE DEF Fit, Kept
  <1>9. Fit /\ Kept
    BY <1>3, <1>4, <1>6, <1>7, <1>8
  <1> QED
    BY <1>9 DEF Fit, Kept

LEMMA RecordInvInit == Init => RecordInv
  BY DEF Init, ProcessInit, RecordInv

LEMMA RecordInvNext == TypeOK /\ RecordInv /\ [Next]_vars => RecordInv'
  <1> SUFFICES ASSUME TypeOK, RecordInv, [Next]_vars PROVE RecordInv'
    OBVIOUS
  <1>1. \A s \in Sessions : files'[s] # "closed"
    BY NoneClosed DEF RecordInv
  <1>2. CASE \E h \in Hooks : Write(h)
    BY <1>1, <1>2, RecordInvWrite DEF RecordInv
  <1>3. CASE UNCHANGED <<log, made, lost>>
    BY <1>1, <1>3 DEF RecordInv, HasLine, ChunkFits, Glued
  <1> QED
    BY <1>2, <1>3, OnlyWrites

LEMMA RecordInvAlways == Spec => []RecordInv
  BY RecordInvInit, RecordInvNext, RecorderTypeCorrect, PTL DEF Spec

\* A line is too long for one of the two reasons only.
NoOtherTooLong ==
  \A s \in Sessions : \A j \in 1..Len(log[s]) : TooLong(log[s], j) => Oversized(s, j)

LEMMA TooLongIsOversized == TypeOK /\ RecordInv => NoOtherTooLong
  <1> SUFFICES ASSUME TypeOK, RecordInv, NEW s \in Sessions, NEW j \in 1..Len(log[s]),
                      TooLong(log[s], j)
               PROVE  Oversized(s, j)
    BY DEF NoOtherTooLong
  <1>1. log[s][j] \in Chunk
    BY DEF TypeOK
  <1>2. log[s][j].end \in Nat /\ log[s][j].entry.size \in Nat /\ LineMax \in Nat
    BY <1>1, SizeType, SizeAssumption DEF Chunk
  <1>3. ChunkFits(s, j)
    BY DEF RecordInv
  <1> QED
    BY <1>2, <1>3 DEF ChunkFits, TooLong, Oversized

LEMMA RecordIsComplete == TypeOK /\ RecordInv => Complete
  <1> SUFFICES ASSUME TypeOK, RecordInv, NEW s \in Sessions, NEW e \in made[s] \ lost[s]
               PROVE  \E i \in 1..Len(log[s]) :
                        /\ log[s][i].entry = e /\ log[s][i].newline
                        /\ \/ i \in Replayed(log[s])
                           \/ Glued(s, i)
                           \/ \E j \in 1..Len(log[s]) : Oversized(s, j)
    BY DEF Complete
  <1>1. PICK i \in 1..Len(log[s]) : log[s][i].entry = e /\ log[s][i].newline
    BY DEF RecordInv, HasLine
  <1>2. CASE i > 1 /\ ~log[s][i - 1].newline
    <2>1. i - 1 \in 1..Len(log[s])
      BY <1>2
    <2>2. Glued(s, i)
      BY <1>2, <2>1 DEF RecordInv, ChunkFits, Glued
    <2> QED
      BY <1>1, <2>2
  <1>3. CASE Unreadable(log[s])
    BY <1>1, <1>3, TooLongIsOversized DEF Unreadable, NoOtherTooLong
  <1>4. CASE (i > 1 => log[s][i - 1].newline) /\ ~Unreadable(log[s])
    <2>1. Intact(log[s], i)
      BY <1>1, <1>4 DEF Intact
    <2>2. \A j \in 1..i : j \in 1..Len(log[s])
      OBVIOUS
    <2>3. \A j \in 1..i : ~TooLong(log[s], j)
      BY <1>4, <2>2 DEF Unreadable
    <2>4. i \in Replayed(log[s])
      BY <1>4, <2>1, <2>3 DEF Scanned, Replayed
    <2> QED
      BY <1>1, <2>4
  <1> QED
    BY <1>2, <1>3, <1>4

\* Every entry whose write returned and that no fault lost is replayed, unless it
\* is glued to what was lost, or a line of its session is too long: whatever
\* Close, restarts and late handlers do.
THEOREM RecordComplete == Spec => []Complete
  BY RecordInvAlways, RecordIsComplete, RecorderTypeCorrect, PTL
-----------------------------------------------------------------------------
\* Every step adds at most one chunk to a file.
LEMMA FilesGrow ==
  ASSUME TypeOK, [Next]_vars, NEW s \in Sessions
  PROVE  Extended(s)
  <1>1. CASE \E h \in Hooks : Write(h)
    BY <1>1, Writing, WriteEntryType
  <1>2. CASE UNCHANGED log
    BY <1>2 DEF Extended
  <1> QED
    BY <1>1, <1>2, OnlyWrites

\* A whole line that a scan came to is within its reach in the longer file too.
LEMMA ScannedGrows ==
  ASSUME NEW f \in Seq(Chunk), NEW c, NEW i \in Scanned(f), f[i].newline
  PROVE  i \in Scanned(Append(f, c)) /\ Append(f, c)[i] = f[i]
  <1> DEFINE g == Append(f, c)
  <1>1. i \in 1..Len(f) /\ Intact(f, i) /\ \A j \in 1..i : ~TooLong(f, j)
    BY DEF Scanned
  <1>2. /\ Len(g) = Len(f) + 1 /\ Len(f) \in Nat
        /\ \A j \in 1..Len(f) : g[j] = f[j]
    BY Appended
  <1> HIDE DEF g
  <1>3. i \in 1..Len(g)
    BY <1>1, <1>2
  <1>4. Intact(g, i)
    <2>1. i > 1 => i - 1 \in 1..Len(f)
      BY <1>1, <1>2
    <2> QED
      BY <1>1, <1>2, <2>1 DEF Intact
  <1>5. \A j \in 1..i : ~TooLong(g, j)
    <2>1. \A j \in 1..i : j \in 1..Len(f)
      BY <1>1, <1>2
    <2> QED
      BY <1>1, <1>2, <2>1 DEF TooLong
  <1>6. i \in Scanned(g) /\ g[i] = f[i]
    BY <1>1, <1>2, <1>3, <1>4, <1>5 DEF Scanned
  <1> QED
    BY <1>6 DEF g

\* A file that can be replayed stays so while the chunks it gets fit.
LEMMA ReadableGrows ==
  ASSUME NEW f \in Seq(Chunk), NEW c, ~Unreadable(f), Unreadable(Append(f, c))
  PROVE  TooLong(Append(f, c), Len(Append(f, c)))
  <1>1. /\ Len(Append(f, c)) = Len(f) + 1 /\ Len(f) \in Nat
        /\ \A j \in 1..Len(f) : Append(f, c)[j] = f[j]
    BY Appended
  <1>2. PICK j \in 1..Len(f) + 1 : TooLong(Append(f, c), j)
    BY <1>1 DEF Unreadable
  <1>3. j \notin 1..Len(f)
    BY <1>1, <1>2 DEF Unreadable, TooLong
  <1>4. j = Len(f) + 1
    BY <1>1, <1>3
  <1> QED
    BY <1>1, <1>2, <1>4

\* No write, short or whole, no Close and no new process moves a whole line or
\* takes it out of a scan's reach, and only a line too long ends a session's
\* replay: an entry's own, or one glued to what was lost.
THEOREM ReplayIsStable == Spec => ReplayStable
  <1> DEFINE Stable(s, i) ==
               /\ i \in Scanned(log'[s]) /\ log'[s][i] = log[s][i]
               /\ i \in Replayed(log[s]) =>
                    i \in Replayed(log'[s]) \/ Oversized(s, Len(log[s]))'
             StableStep == \A s \in Sessions : \A i \in Scanned(log[s]) :
                             log[s][i].newline => Stable(s, i)
  <1>1. TypeOK /\ TypeOK' /\ NoOtherTooLong' /\ [Next]_vars => [StableStep]_vars
    <2> SUFFICES ASSUME TypeOK, TypeOK', NoOtherTooLong', [Next]_vars,
                        NEW s \in Sessions, NEW i \in Scanned(log[s]), log[s][i].newline
                 PROVE  Stable(s, i)
      OBVIOUS
    <2>1. log[s] \in Seq(Chunk) /\ log'[s] \in Seq(Chunk)
      BY DEF TypeOK
    <2>2. CASE log'[s] = log[s]
      BY <2>2
    <2>3. CASE \E c \in Chunk : log'[s] = Append(log[s], c)
      <3>1. PICK c \in Chunk : log'[s] = Append(log[s], c)
        BY <2>3
      <3>2. i \in Scanned(log'[s]) /\ log'[s][i] = log[s][i]
        <4>1. PICK f \in Seq(Chunk) : f = log[s]
          BY <2>1
        <4>2. i \in Scanned(Append(f, c)) /\ Append(f, c)[i] = f[i]
          BY <4>1, ScannedGrows
        <4> QED
          BY <3>1, <4>1, <4>2
      <3>3. ASSUME i \in Replayed(log[s]), i \notin Replayed(log'[s])
            PROVE  Oversized(s, Len(log[s]))'
        <4>1. ~Unreadable(log[s]) /\ Unreadable(log'[s])
          BY <3>2, <3>3 DEF Replayed
        <4>2. TooLong(log'[s], Len(log'[s]))
          BY <2>1, <3>1, <4>1, ReadableGrows
        <4>3. Len(log'[s]) \in 1..Len(log'[s])
          BY <2>1, <3>1, Appended
        <4> QED
          BY <4>2, <4>3 DEF NoOtherTooLong, Oversized, Glued
      <3> QED
        BY <3>2, <3>3
    <2> QED
      BY <2>2, <2>3, FilesGrow DEF Extended
  <1> QED
    BY <1>1, TooLongIsOversized, RecorderTypeCorrect, RecordInvAlways, PTL DEF Spec, ReplayStable
-----------------------------------------------------------------------------
\* Results follow their requests.  Inductively: from the write of its request on,
\* a goroutine's call has the request in the file, or among what was lost.
Kept(s, id, ts, n) ==
  \/ \E e \in lost[s] : e.type = "request" /\ e.id = id
  \/ \E i \in 1..n :
       /\ log[s][i].newline
       /\ log[s][i].entry.type = "request" /\ log[s][i].entry.id = id
       /\ log[s][i].entry.ts <= ts

RequestKept(s, id, ts) == Kept(s, id, ts, Len(log[s]))

HookOK(h) ==
  /\ pc[h] = "request" =>
       entry[h].type = "request" /\ entry[h].id = call[h].id /\ entry[h].ts <= clock
  /\ pc[h] = "handler" => RequestKept(call[h].sid, call[h].id, clock)
  /\ pc[h] = "response" =>
       /\ entry[h].type \in {"result", "refusal"} /\ entry[h].id = call[h].id
       /\ entry[h].type = "result" => RequestKept(call[h].sid, call[h].id, entry[h].ts)

ChunkOK(s, j) ==
  log[s][j].entry.type = "result" =>
    Kept(s, log[s][j].entry.id, log[s][j].entry.ts, j - 1)

OrderInv ==
  /\ \A h \in Hooks : HookOK(h)
  /\ \A s \in Sessions : \A j \in 1..Len(log[s]) : ChunkOK(s, j)

\* A step forgets nothing of a session, and adds at most one chunk.
Extends(s) == lost[s] \subseteq lost'[s] /\ (log'[s] = log[s] \/ \E c : log'[s] = Append(log[s], c))

LEMMA StepExtends ==
  ASSUME TypeOK, RecordInv, [Next]_vars, NEW s \in Sessions
  PROVE  Extends(s)
  <1>1. CASE \E h \in Hooks : Write(h)
    <2>1. PICK h \in Hooks : Write(h)
      BY <1>1
    <2>2. PICK e : e = entry[h]
      OBVIOUS
    <2>3. files[s] # "closed"
      BY DEF RecordInv
    <2>4. Untouched(s) \/ Dropped(s, e) \/ CutShort(s, e) \/ Recorded(s, e)
      BY <2>1, <2>2, <2>3, WriteSeen
    <2> QED
      BY <2>4 DEF Untouched, Dropped, CutShort, Recorded, Extends
  <1>2. CASE UNCHANGED <<log, made, lost>>
    BY <1>2 DEF Extends
  <1> QED
    BY <1>1, <1>2, OnlyWrites

\* What a chunk holds.
LEMMA ChunkFacts ==
  ASSUME TypeOK, NEW s \in Sessions, NEW i \in 1..Len(log[s])
  PROVE  log[s][i].entry \in Entry /\ log[s][i].entry.ts \in Nat
  <1>1. log[s] \in Seq(Chunk)
    BY DEF TypeOK
  <1>2. log[s][i] \in Chunk
    BY <1>1
  <1> QED
    BY <1>2 DEF Chunk, Entry

\* A request that is kept stays so, for a later time and a longer file.
LEMMA KeptStays ==
  ASSUME TypeOK, NEW s \in Sessions, Extends(s), NEW id, NEW ts \in Nat, NEW u \in Nat,
         NEW n \in 0..Len(log[s]), NEW m \in Nat, n <= m, ts <= u, Kept(s, id, ts, n)
  PROVE  Kept(s, id, u, m)'
  <1>1. CASE \E e \in lost[s] : e.type = "request" /\ e.id = id
    BY <1>1 DEF Extends, Kept
  <1>2. CASE \E i \in 1..n :
               /\ log[s][i].newline
               /\ log[s][i].entry.type = "request" /\ log[s][i].entry.id = id
               /\ log[s][i].entry.ts <= ts
    <2>1. PICK i \in 1..n :
            /\ log[s][i].newline
            /\ log[s][i].entry.type = "request" /\ log[s][i].entry.id = id
            /\ log[s][i].entry.ts <= ts
      BY <1>2
    <2>2. log[s] \in Seq(Chunk) /\ Len(log[s]) \in Nat
      BY DEF TypeOK
    <2>3. i \in 1..Len(log[s]) /\ i \in 1..m
      BY <2>2
    <2>4. log'[s][i] = log[s][i]
      BY <2>2, <2>3, Appended DEF Extends
    <2>5. log[s][i].entry.ts <= u
      BY <2>1, <2>3, ChunkFacts
    <2> QED
      BY <2>1, <2>3, <2>4, <2>5 DEF Kept
  <1> QED
    BY <1>1, <1>2 DEF Kept

LEMMA RequestStays ==
  ASSUME TypeOK, NEW s \in Sessions, Extends(s), NEW id, NEW ts \in Nat, NEW u \in Nat,
         ts <= u, RequestKept(s, id, ts)
  PROVE  RequestKept(s, id, u)'
  <1>1. log[s] \in Seq(Chunk) /\ Len(log[s]) \in Nat
    BY DEF TypeOK
  <1>2. Len(log'[s]) \in Nat /\ Len(log[s]) <= Len(log'[s])
    BY <1>1, Appended DEF Extends
  <1>3. PICK m : m = Len(log'[s])
    OBVIOUS
  <1>4. PICK n : n = Len(log[s])
    OBVIOUS
  <1>5. Kept(s, id, ts, n)
    BY <1>4 DEF RequestKept
  <1>6. n \in 0..Len(log[s]) /\ m \in Nat /\ n <= m
    BY <1>1, <1>2, <1>3, <1>4
  <1>7. Kept(s, id, u, m)'
    BY <1>5, <1>6, KeptStays
  <1> QED
    BY <1>3, <1>7 DEF RequestKept, Kept

\* What a goroutine that serves a call has at hand.
LEMMA HookFacts ==
  ASSUME TypeOK, NEW h \in Hooks
  PROVE  /\ clock \in Nat
         /\ pc[h] # "idle" => call[h] \in Call /\ call[h].sid \in Sessions /\ call[h].id \in Nat
         /\ pc[h] \in {"request", "response"} => entry[h] \in Entry /\ entry[h].ts \in Nat
  BY DEF TypeOK, Call, Entry

\* A goroutine that a step does not move stays as it should be.
LEMMA HookFrame ==
  ASSUME TypeOK, RecordInv, [Next]_vars, NEW h \in Hooks, HookOK(h),
         pc'[h] = pc[h], entry'[h] = entry[h], call'[h] = call[h],
         clock' \in Nat, clock <= clock'
  PROVE  HookOK(h)'
  <1>1. CASE pc[h] = "request"
    BY <1>1, HookFacts DEF HookOK
  <1>2. CASE pc[h] = "handler"
    <2>1. PICK s \in Sessions : s = call[h].sid
      BY <1>2, HookFacts
    <2>2. PICK id : id = call[h].id
      OBVIOUS
    <2>3. PICK t \in Nat : t = clock
      BY HookFacts
    <2>4. PICK u \in Nat : u = clock'
      OBVIOUS
    <2>5. RequestKept(s, id, t)
      BY <1>2, <2>1, <2>2, <2>3 DEF HookOK
    <2>6. RequestKept(s, id, u)'
      BY <2>3, <2>4, <2>5, StepExtends, RequestStays
    <2> QED
      BY <1>2, <2>1, <2>2, <2>4, <2>6 DEF HookOK, RequestKept, Kept
  <1>3. CASE pc[h] = "response" /\ entry[h].type = "result"
    <2>1. PICK s \in Sessions : s = call[h].sid
      BY <1>3, HookFacts
    <2>2. PICK id : id = call[h].id
      OBVIOUS
    <2>3. PICK t \in Nat : t = entry[h].ts
      BY <1>3, HookFacts
    <2>4. RequestKept(s, id, t)
      BY <1>3, <2>1, <2>2, <2>3 DEF HookOK
    <2>5. RequestKept(s, id, t)'
      BY <2>3, <2>4, StepExtends, RequestStays
    <2>6. RequestKept(call[h].sid, call[h].id, entry[h].ts)'
      BY <2>1, <2>2, <2>3, <2>5 DEF RequestKept, Kept
    <2>7. entry[h].type = "result" /\ entry[h].id = call[h].id
      BY <1>3 DEF HookOK
    <2> QED
      BY <1>3, <2>6, <2>7 DEF HookOK
  <1>4. CASE pc[h] = "idle" \/ (pc[h] = "response" /\ entry[h].type # "result")
    BY <1>4 DEF HookOK
  <1> QED
    BY <1>1, <1>2, <1>3, <1>4 DEF TypeOK

\* So does a chunk that was there before the step.
LEMMA ChunkFrame ==
  ASSUME TypeOK, RecordInv, [Next]_vars, NEW s \in Sessions, NEW j \in 1..Len(log[s]), ChunkOK(s, j)
  PROVE  ChunkOK(s, j)'
  <1>1. log[s] \in Seq(Chunk) /\ Len(log[s]) \in Nat
    BY DEF TypeOK
  <1>2. log'[s][j] = log[s][j]
    BY <1>1, StepExtends, Appended DEF Extends
  <1>3. PICK t \in Nat : t = log[s][j].entry.ts
    BY ChunkFacts
  <1>4. PICK id : id = log[s][j].entry.id
    OBVIOUS
  <1>5. PICK n : n = j - 1
    OBVIOUS
  <1>6. n \in 0..Len(log[s]) /\ n \in Nat /\ n <= n /\ t <= t
    BY <1>1, <1>5
  <1>7. CASE log[s][j].entry.type = "result"
    <2>1. Kept(s, id, t, n)
      BY <1>3, <1>4, <1>5, <1>7 DEF ChunkOK
    <2>2. Kept(s, id, t, n)'
      BY <1>6, <2>1, StepExtends, KeptStays
    <2> QED
      BY <1>2, <1>3, <1>4, <1>5, <2>2 DEF ChunkOK, Kept
  <1>8. CASE log[s][j].entry.type # "result"
    BY <1>2, <1>8 DEF ChunkOK
  <1> QED
    BY <1>7, <1>8

\* A write's own goroutine: its request is kept, or its call is over.
LEMMA WriteKeeps ==
  ASSUME TypeOK, RecordInv, NEW h \in Hooks, Write(h), HookOK(h)
  PROVE  HookOK(h)'
  <1>1. PICK s \in Sessions : s = call[h].sid
    BY Writing
  <1>2. PICK e \in Entry : e = entry[h]
    BY Writing
  <1>3. pc \in [Hooks -> {"idle", "request", "handler", "response"}]
    BY DEF TypeOK
  <1>4. CASE pc[h] = "request"
    <2>1. pc'[h] = "handler" /\ call'[h] = call[h] /\ clock' = clock
      BY <1>3, <1>4 DEF Write
    <2>2. e.type = "request" /\ e.id = call[h].id /\ e.ts <= clock
      BY <1>2, <1>4 DEF HookOK
    <2>3. PICK t : t = clock
      OBVIOUS
    <2>4. PICK id : id = call[h].id
      OBVIOUS
    <2>5. Dropped(s, e) \/ CutShort(s, e) \/ Recorded(s, e)
      BY <1>1, <1>2, WriteSeen DEF RecordInv
    <2>6. CASE e \in lost'[s]
      <3>1. RequestKept(s, id, t)'
        BY <2>2, <2>4, <2>6 DEF RequestKept, Kept
      <3> QED
        BY <1>1, <2>1, <2>3, <2>4, <3>1 DEF HookOK, RequestKept, Kept
    <2>7. CASE Recorded(s, e)
      <3>0. PICK c : c = Piece(log[s], e, e.size, TRUE)
        OBVIOUS
      <3>1. c.entry = e /\ c.newline
        BY <3>0 DEF Piece
      <3>2. log'[s] = Append(log[s], c)
        BY <2>7, <3>0 DEF Recorded
      <3>3. Len(log[s]) + 1 \in 1..Len(log'[s]) /\ log'[s][Len(log[s]) + 1] = c
        <4>1. log[s] \in Seq(Chunk)
          BY DEF TypeOK
        <4> QED
          BY <3>2, <4>1, Appended
      <3>4. RequestKept(s, id, t)'
        BY <2>2, <2>3, <2>4, <3>1, <3>3 DEF RequestKept, Kept
      <3> QED
        BY <1>1, <2>1, <2>3, <2>4, <3>4 DEF HookOK, RequestKept, Kept
    <2> QED
      BY <2>5, <2>6, <2>7 DEF Dropped, CutShort
  <1>5. CASE pc[h] = "response"
    <2>1. pc'[h] = "idle"
      BY <1>3, <1>5 DEF Write
    <2> QED
      BY <2>1 DEF HookOK
  <1> QED
    BY <1>4, <1>5 DEF Write

\* The chunk a write adds: a result's request is kept before it.
LEMMA NewChunk ==
  ASSUME TypeOK, RecordInv, OrderInv, NEW h \in Hooks, Write(h), NEW s \in Sessions,
         s = call[h].sid, NEW e \in Entry, e = entry[h],
         NEW c, c.entry = e, log'[s] = Append(log[s], c), Extends(s),
         NEW j, j = Len(log[s]) + 1
  PROVE  ChunkOK(s, j)'
  <1>1. c.entry = e
    OBVIOUS
  <1>2. log'[s] = Append(log[s], c)
    OBVIOUS
  <1>3. log[s] \in Seq(Chunk) /\ Len(log[s]) \in Nat
    BY DEF TypeOK
  <1>4. log'[s][j] = c
    BY <1>2, <1>3, Appended
  <1>5. CASE e.type = "result"
    <2>1. pc[h] = "response"
      BY <1>5 DEF OrderInv, HookOK, Write
    <2>2. PICK t \in Nat : t = e.ts
      BY DEF Entry
    <2>3. PICK id : id = e.id
      OBVIOUS
    <2>4. PICK n : n = Len(log[s])
      OBVIOUS
    <2>5. Kept(s, id, t, n)
      <3>1. HookOK(h)
        BY DEF OrderInv
      <3>2. RequestKept(call[h].sid, call[h].id, entry[h].ts) /\ entry[h].id = call[h].id
        BY <1>5, <2>1, <3>1 DEF HookOK
      <3>3. RequestKept(s, id, t)
        BY <2>2, <2>3, <3>2
      <3> QED
        BY <2>4, <3>3 DEF RequestKept
    <2>6. n \in 0..Len(log[s]) /\ n \in Nat /\ n <= n /\ t <= t
      BY <1>3, <2>4
    <2>7. Kept(s, id, t, n)'
      BY <2>5, <2>6, KeptStays
    <2>8. j - 1 = n
      BY <1>3, <2>4
    <2> QED
      <3>1. log'[s][j].entry.id = id /\ log'[s][j].entry.ts = t
        BY <1>1, <1>4, <2>2, <2>3
      <3>2. (Kept(s, log[s][j].entry.id, log[s][j].entry.ts, j - 1))'
        BY <2>7, <2>8, <3>1 DEF Kept
      <3> QED
        BY <3>2 DEF ChunkOK
  <1>6. CASE e.type # "result"
    BY <1>1, <1>4, <1>6 DEF ChunkOK
  <1> QED
    BY <1>5, <1>6

LEMMA ChunksNext ==
  ASSUME TypeOK, RecordInv, OrderInv, [Next]_vars, NEW s \in Sessions, NEW j \in 1..Len(log'[s])
  PROVE  ChunkOK(s, j)'
  <1>1. log[s] \in Seq(Chunk) /\ Len(log[s]) \in Nat
    BY DEF TypeOK
  <1>2. Extends(s)
    BY StepExtends
  <1>3. CASE j \in 1..Len(log[s])
    BY <1>3, ChunkFrame DEF OrderInv
  <1>4. CASE j \notin 1..Len(log[s])
    <2>1. j = Len(log[s]) + 1 /\ log'[s] # log[s]
      BY <1>1, <1>2, <1>4, Appended DEF Extends
    <2>2. PICK h \in Hooks : Write(h)
      BY <2>1, OnlyWrites
    <2>3. PICK e : e = entry[h]
      OBVIOUS
    <2>4. files[s] # "closed"
      BY DEF RecordInv
    <2>5. s = call[h].sid /\ e \in Entry /\ (CutShort(s, e) \/ Recorded(s, e))
      BY <2>1, <2>2, <2>3, <2>4, WriteSeen DEF Untouched, Dropped
    <2>6. PICK c : c.entry = e /\ log'[s] = Append(log[s], c)
      <3>1. PICK n, newline : log'[s] = Append(log[s], Piece(log[s], e, n, newline))
        BY <2>5 DEF CutShort, Recorded
      <3>2. PICK c : c = Piece(log[s], e, n, newline)
        OBVIOUS
      <3>3. c.entry = e /\ log'[s] = Append(log[s], c)
        BY <3>1, <3>2 DEF Piece
      <3> QED
        BY <3>3
    <2> QED
      BY <1>2, <2>1, <2>2, <2>3, <2>5, <2>6, NewChunk
  <1> QED
    BY <1>3, <1>4

LEMMA HooksNext ==
  ASSUME TypeOK, RecordInv, OrderInv, [Next]_vars, NEW h \in Hooks
  PROVE  HookOK(h)'
  <1> DEFINE Moved(g) == pc'[g] # pc[g] \/ entry'[g] # entry[g] \/ call'[g] # call[g]
  <1>1. HookOK(h) /\ clock \in Nat
    BY DEF OrderInv, TypeOK
  <1>2. CASE Tick \/ Close \/ UNCHANGED vars
    <2>1. UNCHANGED <<pc, entry, call>> /\ clock' \in Nat /\ clock <= clock'
      BY <1>1, <1>2 DEF Tick, Close, vars, procVars
    <2> QED
      BY <1>1, <2>1, HookFrame
  <1>3. CASE Restart
    BY <1>3 DEF Restart, HookOK
  <1>4. ASSUME NEW g \in Hooks, Hook(g) PROVE HookOK(h)'
    <2>1. clock' = clock
      BY <1>4 DEF Hook, RecordRequest, RecordRefusal, RecordResult, Write
    <2>2. CASE g # h
      <3>1. pc'[h] = pc[h] /\ entry'[h] = entry[h] /\ call'[h] = call[h]
        <4>1. CASE \E s \in Sessions, size \in Sizes :
                     RecordRequest(g, s, size) \/ RecordRefusal(g, s, size)
          BY <2>2, <4>1 DEF RecordRequest, RecordRefusal, Stamp, TypeOK
        <4>2. CASE \E size \in Sizes : RecordResult(g, size)
          BY <2>2, <4>2 DEF RecordResult, Stamp, TypeOK
        <4>3. CASE Write(g)
          BY <2>2, <4>3 DEF Write, TypeOK
        <4> QED
          BY <1>4, <4>1, <4>2, <4>3 DEF Hook
      <3> QED
        BY <1>1, <2>1, <3>1, HookFrame
    <2>3. ASSUME g = h, NEW s \in Sessions, NEW size \in Sizes, RecordRequest(h, s, size)
          PROVE  HookOK(h)'
      <3> DEFINE line == [id |-> call'[h].id, type |-> "request", ts |-> clock, size |-> size]
      <3>1. entry'[h] = line /\ pc'[h] = "request"
        BY <2>3 DEF RecordRequest, Stamp, TypeOK
      <3>2. line.type = "request" /\ line.id = call'[h].id /\ line.ts = clock
        OBVIOUS
      <3> QED
        BY <1>1, <2>1, <3>1, <3>2 DEF HookOK
    <2>6. ASSUME g = h, NEW s \in Sessions, NEW size \in Sizes, RecordRefusal(h, s, size)
          PROVE  HookOK(h)'
      <3> DEFINE line == [id |-> call'[h].id, type |-> "refusal", ts |-> clock, size |-> size]
      <3>1. entry'[h] = line /\ pc'[h] = "response"
        BY <2>6 DEF RecordRefusal, Stamp, TypeOK
      <3>2. line.type = "refusal" /\ line.id = call'[h].id
        OBVIOUS
      <3> QED
        BY <3>1, <3>2 DEF HookOK
    <2>4. ASSUME g = h, NEW size \in Sizes, RecordResult(h, size)
          PROVE  HookOK(h)'
      <3> DEFINE line == [id |-> call'[h].id, type |-> "result", ts |-> clock, size |-> size]
      <3>1. entry'[h] = line /\ pc'[h] = "response" /\ call'[h] = call[h]
        BY <2>4 DEF RecordResult, Stamp, TypeOK
      <3>2. line.type = "result" /\ line.id = call'[h].id /\ line.ts = clock
        OBVIOUS
      <3>3. UNCHANGED <<log, lost>>
        BY <2>4 DEF RecordResult
      <3>4. PICK s, id, u : s = call[h].sid /\ id = call[h].id /\ u = clock
        OBVIOUS
      <3>5. RequestKept(s, id, u)
        BY <1>1, <2>4, <3>4 DEF RecordResult, HookOK
      <3>6. RequestKept(s, id, u)'
        BY <3>3, <3>5 DEF RequestKept, Kept
      <3>7. RequestKept(call[h].sid, call[h].id, entry[h].ts)'
        BY <3>1, <3>2, <3>4, <3>6 DEF RequestKept, Kept
      <3> QED
        BY <3>1, <3>2, <3>7 DEF HookOK
    <2>5. ASSUME g = h, Write(h) PROVE HookOK(h)'
      BY <1>1, <2>5, WriteKeeps
    <2> QED
      BY <1>4, <2>2, <2>3, <2>4, <2>5, <2>6 DEF Hook
  <1> QED
    BY <1>2, <1>3, <1>4 DEF Next

LEMMA OrderInit == Init => OrderInv
  BY DEF Init, ProcessInit, OrderInv, HookOK

LEMMA OrderNext == TypeOK /\ RecordInv /\ OrderInv /\ [Next]_vars => OrderInv'
  BY HooksNext, ChunksNext DEF OrderInv

LEMMA OrderedCalls == TypeOK /\ RecordInv /\ OrderInv => CallsInOrder
  <1> SUFFICES ASSUME TypeOK, RecordInv, OrderInv, NEW s \in Sessions, NEW j \in Scanned(log[s]),
                      log[s][j].entry.type = "result",
                      ~\E e \in lost[s] : e.type = "request" /\ e.id = log[s][j].entry.id
               PROVE  \E i \in 1..j - 1 :
                        /\ log[s][i].entry.type = "request"
                        /\ log[s][i].entry.id = log[s][j].entry.id
                        /\ log[s][i].entry.ts <= log[s][j].entry.ts
                        /\ log[s][i].newline
                        /\ i \in Scanned(log[s]) \/ Glued(s, i)
    BY DEF CallsInOrder
  <1>1. j \in 1..Len(log[s]) /\ \A k \in 1..j : ~TooLong(log[s], k)
    BY DEF Scanned
  <1>2. PICK i \in 1..j - 1 :
          /\ log[s][i].newline
          /\ log[s][i].entry.type = "request" /\ log[s][i].entry.id = log[s][j].entry.id
          /\ log[s][i].entry.ts <= log[s][j].entry.ts
    BY <1>1 DEF OrderInv, ChunkOK, Kept
  <1>3. log[s] \in Seq(Chunk) /\ Len(log[s]) \in Nat
    BY DEF TypeOK
  <1>4. i \in 1..Len(log[s]) /\ \A k \in 1..i : ~TooLong(log[s], k)
    BY <1>1, <1>3
  <1>5. i \in Scanned(log[s]) \/ Glued(s, i)
    <2>1. CASE i > 1 /\ ~log[s][i - 1].newline
      <3>1. i - 1 \in 1..Len(log[s])
        BY <1>4, <1>3, <2>1
      <3> QED
        BY <2>1, <3>1 DEF RecordInv, ChunkFits, Glued
    <2>2. CASE i > 1 => log[s][i - 1].newline
      BY <1>2, <1>4, <2>2 DEF Intact, Scanned
    <2> QED
      BY <2>1, <2>2
  <1> QED
    BY <1>2, <1>5

\* A result that a scan comes to stands behind its request and is no older,
\* whatever other goroutines write between the stamp and the write of either.
THEOREM ResultsFollowRequests == Spec => []CallsInOrder
  <1>1. Spec => []OrderInv
    BY RecordInvAlways, OrderInit, OrderNext, RecorderTypeCorrect, PTL DEF Spec
  <1> QED
    BY <1>1, RecordInvAlways, OrderedCalls, RecorderTypeCorrect, PTL
=============================================================================
