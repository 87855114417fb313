------------------------- MODULE AlertDispatchProofs -------------------------
(***************************************************************************)
(* Proofs about the alert dispatcher and its sinks: types and the mutex of *)
(* a SIEM sink, at most one copy of an event per sink, what a failure      *)
(* costs, the place the events go to, and the refinement of AlertDelivery. *)
(***************************************************************************)
EXTENDS AlertDispatch, FiniteSetTheorems, TLAPS

Step == {"none", "started", "locked", "ready", "posted"} \cup Ended

\* A goroutine's next step changes its own entry of job and no other.
LEMMA JobGo ==
  ASSUME job \in [Events -> [Sinks -> Step]],
         NEW e \in Events, NEW s \in Sinks, NEW step \in Step, Go(e, s, step)
  PROVE  /\ job' \in [Events -> [Sinks -> Step]]
         /\ job'[e][s] = step
         /\ \A f \in Events, r \in Sinks : f # e \/ r # s => job'[f][r] = job[f][r]
  <1>1. job' = [job EXCEPT ![e] = [job[e] EXCEPT ![s] = step]]
    BY DEF Go
  <1>2. job[e] \in [Sinks -> Step]
    OBVIOUS
  <1>3. [job[e] EXCEPT ![s] = step] \in [Sinks -> Step]
    BY <1>2
  <1> QED
    BY <1>1, <1>2, <1>3

\* What is put out is added at the end of the sink's output.
LEMMA PutAppends ==
  ASSUME out \in [Sinks -> Seq(Chunk)], NEW e \in Events, NEW s \in Sinks,
         NEW place \in Places, NEW part \in {"line", "cut", "glued"}, Put(e, s, place, part)
  PROVE  /\ out' \in [Sinks -> Seq(Chunk)]
         /\ \A r \in Sinks : r # s => out'[r] = out[r]
         /\ Len(out[s]) \in Nat
         /\ DOMAIN out[s] = 1..Len(out[s])
         /\ Len(out'[s]) = Len(out[s]) + 1
         /\ \A i \in 1..Len(out[s]) : out'[s][i] = out[s][i]
         /\ out'[s][Len(out[s]) + 1] = [event |-> e, place |-> place, part |-> part]
  <1> DEFINE c == [event |-> e, place |-> place, part |-> part]
  <1>1. c \in Chunk
    BY DEF Chunk
  <1>2. out[s] \in Seq(Chunk)
    OBVIOUS
  <1>3. out' = [out EXCEPT ![s] = Append(out[s], c)]
    BY DEF Put
  <1>4. Append(out[s], c) \in Seq(Chunk)
    BY <1>1, <1>2
  <1>5. out'[s] = Append(out[s], c)
    BY <1>3
  <1> HIDE DEF c
  <1>6. Len(Append(out[s], c)) = Len(out[s]) + 1
    BY <1>1, <1>2
  <1>7. \A i \in 1..Len(out[s]) : Append(out[s], c)[i] = out[s][i]
    BY <1>1, <1>2
  <1>8. Append(out[s], c)[Len(out[s]) + 1] = c
    BY <1>1, <1>2
  <1>9. Len(out[s]) \in Nat /\ DOMAIN out[s] = 1..Len(out[s])
    BY <1>2
  <1>10. out' \in [Sinks -> Seq(Chunk)] /\ \A r \in Sinks : r # s => out'[r] = out[r]
    BY <1>3, <1>4
  <1> QED
    BY <1>5, <1>6, <1>7, <1>8, <1>9, <1>10 DEF c

\* A fault is noted for the event and the sink it was met by.
LEMMA FaultAdds ==
  ASSUME faults \in [Sinks -> SUBSET Events], NEW e \in Events, NEW s \in Sinks, Fault(e, s)
  PROVE  /\ faults' \in [Sinks -> SUBSET Events]
         /\ faults'[s] = faults[s] \cup {e}
         /\ \A r \in Sinks : faults[r] \subseteq faults'[r]
         /\ \A r \in Sinks, f \in Events : f # e \/ r # s => (f \in faults'[r] <=> f \in faults[r])
  BY DEF Fault
-----------------------------------------------------------------------------
\* The mutex: who is between the Lock and the Unlock holds it.
Holds == \A s \in Sinks, e \in Events : job[e][s] \in {"locked", "ready"} => lock[s] = e

LEMMA TypeInit == Init => TypeOK
  <1> SUFFICES ASSUME Init PROVE TypeOK
    OBVIOUS
  <1>1. <<>> \in Seq(Chunk)
    OBVIOUS
  <1>2. \A s \in Sinks, e \in Events : job[e][s] = "none"
    BY DEF Init
  <1>3. Holds
    BY <1>2 DEF Holds
  <1> QED
    BY <1>1, <1>3 DEF Init, TypeOK, Holds, Places

LEMMA TypeEmit ==
  ASSUME TypeOK, NEW e \in Events, Emit(e)
  PROVE  TypeOK'
  <1>1. job' \in [Events -> [Sinks -> Step]]
    BY DEF TypeOK, Emit, Step
  <1>2. \A f \in Events, s \in Sinks : job'[f][s] = IF f = e THEN "started" ELSE job[f][s]
    BY DEF TypeOK, Emit
  <1>3. Holds'
    BY <1>2 DEF TypeOK, Emit, Holds, siemVars
  <1> QED
    BY <1>1, <1>3 DEF TypeOK, Emit, Holds, siemVars, Step

LEMMA TypeReceive ==
  ASSUME TypeOK, NEW e \in Events, NEW s \in Sinks, Receive(e, s)
  PROVE  TypeOK'
  <1>1. "server" \in Places /\ out \in [Sinks -> Seq(Chunk)] /\ Put(e, s, "server", "line")
    BY DEF Places, TypeOK, Receive
  <1>2. out' \in [Sinks -> Seq(Chunk)]
    BY <1>1, PutAppends
  <1>3. wire' \in [Sinks -> SUBSET Events]
    BY DEF TypeOK, Receive
  <1>4. UNCHANGED <<job, file, lock, dest, ragged, faults, running>>
    BY DEF Receive, siemVars
  <1> QED
    BY <1>2, <1>3, <1>4 DEF TypeOK

LEMMA TypePrint ==
  ASSUME TypeOK, NEW e \in Events, NEW s \in Sinks, Println(e, s)
  PROVE  TypeOK'
  <1>1. Go(e, s, "done") /\ job \in [Events -> [Sinks -> Step]]
    BY DEF Println, TypeOK, Step
  <1>2. /\ job' \in [Events -> [Sinks -> Step]] /\ job'[e][s] = "done"
        /\ \A f \in Events, r \in Sinks : f # e \/ r # s => job'[f][r] = job[f][r]
    BY <1>1, JobGo DEF Step, Ended
  <1>3. UNCHANGED <<wire, file, lock, dest, ragged, running>>
    BY DEF Println, siemVars
  <1>4. out' \in [Sinks -> Seq(Chunk)]
    <2>1. CASE Put(e, s, "stdout", "line")
      <3>1. "stdout" \in Places /\ out \in [Sinks -> Seq(Chunk)]
        BY DEF Places, TypeOK
      <3> QED
        BY <2>1, <3>1, PutAppends
    <2>2. CASE UNCHANGED out
      BY <2>2 DEF TypeOK
    <2> QED
      BY <2>1, <2>2 DEF Println
  <1>5. faults' \in [Sinks -> SUBSET Events]
    BY FaultAdds DEF Println, TypeOK
  <1>6. Holds'
    BY <1>2, <1>3 DEF TypeOK, Holds
  <1> QED
    BY <1>2, <1>3, <1>4, <1>5, <1>6 DEF TypeOK, Step, Holds

LEMMA TypeWebhook ==
  ASSUME TypeOK, NEW e \in Events, NEW s \in Sinks, Webhook(e, s)
  PROVE  TypeOK'
  <1>1. PICK step \in {"posted", "done", "failed"} : Go(e, s, step)
    BY DEF Webhook, Post, Answer, Expire
  <1>2. step \in Step /\ step \notin {"locked", "ready"}
    BY DEF Step, Ended
  <1>3. job \in [Events -> [Sinks -> Step]]
    BY DEF TypeOK, Step
  <1>4. /\ job' \in [Events -> [Sinks -> Step]] /\ job'[e][s] = step
        /\ \A f \in Events, r \in Sinks : f # e \/ r # s => job'[f][r] = job[f][r]
    BY <1>1, <1>2, <1>3, JobGo
  <1>5. UNCHANGED <<file, lock, dest, ragged, running>>
    BY DEF Webhook, Post, Answer, Expire, siemVars
  <1>6. out' \in [Sinks -> Seq(Chunk)] /\ wire' \in [Sinks -> SUBSET Events]
    <2>1. UNCHANGED out /\ (UNCHANGED wire \/ wire' = [wire EXCEPT ![s] = wire[s] \cup {e}])
      BY DEF Webhook, Post, Answer, Expire
    <2>2. out \in [Sinks -> Seq(Chunk)] /\ wire \in [Sinks -> SUBSET Events]
      BY DEF TypeOK
    <2>3. [wire EXCEPT ![s] = wire[s] \cup {e}] \in [Sinks -> SUBSET Events]
      BY <2>2
    <2> QED
      BY <2>1, <2>2, <2>3
  <1>7. faults' \in [Sinks -> SUBSET Events]
    <2>1. UNCHANGED faults \/ Fault(e, s)
      BY DEF Webhook, Post, Answer, Expire
    <2> QED
      BY <2>1, FaultAdds DEF TypeOK
  <1>8. Holds'
    BY <1>2, <1>4, <1>5 DEF TypeOK, Holds
  <1> QED
    BY <1>4, <1>5, <1>6, <1>7, <1>8 DEF TypeOK, Step, Holds

LEMMA TypeLock ==
  ASSUME TypeOK, NEW e \in Events, NEW s \in Sinks, Lock(e, s)
  PROVE  TypeOK'
  <1>1. Go(e, s, "locked") /\ job \in [Events -> [Sinks -> Step]]
    BY DEF Lock, TypeOK, Step
  <1>2. /\ job' \in [Events -> [Sinks -> Step]] /\ job'[e][s] = "locked"
        /\ \A f \in Events, r \in Sinks : f # e \/ r # s => job'[f][r] = job[f][r]
    BY <1>1, JobGo DEF Step
  <1>3. UNCHANGED <<out, wire, file, dest, ragged, faults, running>>
    BY DEF Lock
  <1>4. /\ lock' \in [Sinks -> Events \cup {None}]
        /\ lock'[s] = e /\ \A r \in Sinks : r # s => lock'[r] = lock[r]
    BY DEF Lock, TypeOK
  <1>5. Holds'
    <2> SUFFICES ASSUME NEW r \in Sinks, NEW f \in Events, job'[f][r] \in {"locked", "ready"}
                 PROVE  lock'[r] = f
      BY DEF Holds
    <2>1. lock[s] = None
      BY DEF Lock
    <2>2. CASE r = s
      BY <2>1, <2>2, <1>2, <1>4, DispatchAssumption DEF TypeOK
    <2>3. CASE r # s
      BY <2>3, <1>2, <1>4 DEF TypeOK
    <2> QED
      BY <2>2, <2>3
  <1> QED
    BY <1>2, <1>3, <1>4, <1>5 DEF TypeOK, Step, Holds

LEMMA TypeWriter ==
  ASSUME TypeOK, NEW e \in Events, NEW s \in Sinks, Writer(e, s)
  PROVE  TypeOK'
  <1>1. Go(e, s, "ready") /\ job \in [Events -> [Sinks -> Step]] /\ job[e][s] = "locked"
    BY DEF Writer, TypeOK, Step, At
  <1>2. /\ job' \in [Events -> [Sinks -> Step]] /\ job'[e][s] = "ready"
        /\ \A f \in Events, r \in Sinks : f # e \/ r # s => job'[f][r] = job[f][r]
    BY <1>1, JobGo DEF Step
  <1>3. UNCHANGED <<out, wire, lock, ragged, running>>
    BY DEF Writer
  <1>4. dest' \in [Sinks -> Places]
    <2>1. \E place \in Places : dest' = [dest EXCEPT ![s] = place]
      BY DEF Writer, Places
    <2> QED
      BY <2>1 DEF TypeOK
  <1>5. file' \in [Sinks -> {"nil", "file"}]
    <2>1. UNCHANGED file \/ file' = [file EXCEPT ![s] = "file"]
      BY DEF Writer
    <2> QED
      BY <2>1 DEF TypeOK
  <1>6. faults' \in [Sinks -> SUBSET Events]
    <2>1. UNCHANGED faults \/ Fault(e, s)
      BY DEF Writer
    <2> QED
      BY <2>1, FaultAdds DEF TypeOK
  <1>7. Holds'
    <2> SUFFICES ASSUME NEW r \in Sinks, NEW f \in Events, job'[f][r] \in {"locked", "ready"}
                 PROVE  lock'[r] = f
      BY DEF Holds
    <2>1. job[f][r] \in {"locked", "ready"}
      BY <1>1, <1>2
    <2> QED
      BY <2>1, <1>3 DEF TypeOK
  <1> QED
    BY <1>2, <1>3, <1>4, <1>5, <1>6, <1>7 DEF TypeOK, Step, Holds

LEMMA TypeWriteLine ==
  ASSUME TypeOK, NEW e \in Events, NEW s \in Sinks, WriteLine(e, s)
  PROVE  TypeOK'
  <1>1. PICK step \in {"done", "failed"} : Go(e, s, step)
    BY DEF WriteLine
  <1>2. job \in [Events -> [Sinks -> Step]] /\ job[e][s] = "ready" /\ step \in Step
    BY DEF WriteLine, TypeOK, Step, Ended, At
  <1>3. /\ job' \in [Events -> [Sinks -> Step]] /\ job'[e][s] = step
        /\ \A f \in Events, r \in Sinks : f # e \/ r # s => job'[f][r] = job[f][r]
    BY <1>1, <1>2, JobGo
  <1>4. UNCHANGED <<wire, file, dest, running>>
    BY DEF WriteLine
  <1>5. /\ lock' \in [Sinks -> Events \cup {None}]
        /\ \A r \in Sinks : r # s => lock'[r] = lock[r]
    BY DEF WriteLine, TypeOK
  <1>6. ragged' \in [Sinks -> BOOLEAN]
    BY DEF WriteLine, TypeOK
  <1>7. faults' \in [Sinks -> SUBSET Events]
    <2>1. UNCHANGED faults \/ Fault(e, s)
      BY DEF WriteLine
    <2> QED
      BY <2>1, FaultAdds DEF TypeOK
  <1>8. out' \in [Sinks -> Seq(Chunk)]
    <2>1. UNCHANGED out \/ \E part \in {"line", "cut", "glued"} : Put(e, s, dest[s], part)
      BY DEF WriteLine
    <2>2. dest[s] \in Places /\ out \in [Sinks -> Seq(Chunk)]
      BY DEF TypeOK
    <2> QED
      BY <2>1, <2>2, PutAppends
  <1>9. Holds'
    <2> SUFFICES ASSUME NEW r \in Sinks, NEW f \in Events, job'[f][r] \in {"locked", "ready"}
                 PROVE  lock'[r] = f
      BY DEF Holds
    <2>1. f # e \/ r # s
      BY <1>3
    <2>2. job[f][r] \in {"locked", "ready"} /\ lock[r] = f
      BY <2>1, <1>3 DEF TypeOK
    <2>3. lock[s] = e
      BY <1>2 DEF TypeOK
    <2> QED
      BY <2>1, <2>2, <2>3, <1>5
  <1> QED
    BY <1>3, <1>4, <1>5, <1>6, <1>7, <1>8, <1>9 DEF TypeOK, Step, Holds

LEMMA TypeExit ==
  ASSUME TypeOK, Exit
  PROVE  TypeOK'
  <1>1. job' \in [Events -> [Sinks -> Step]]
    BY DEF Exit, TypeOK, Step, Ended
  <1>2. \A e \in Events, s \in Sinks : job'[e][s] \notin {"locked", "ready"}
    BY DEF Exit, TypeOK, Ended
  <1>3. UNCHANGED <<out, wire, file, lock, dest, ragged, faults>> /\ running' = FALSE
    BY DEF Exit, siemVars
  <1> QED
    BY <1>1, <1>2, <1>3 DEF TypeOK, Step

LEMMA TypeNext ==
  ASSUME TypeOK, [Next]_vars
  PROVE  TypeOK'
  <1>1. CASE UNCHANGED vars
    BY <1>1 DEF TypeOK, vars, siemVars
  <1>2. CASE \E e \in Events : Emit(e)
    BY <1>2, TypeEmit
  <1>3. CASE \E e \in Events, s \in Sinks : Send(e, s)
    <2>1. PICK e \in Events, s \in Sinks : Send(e, s)
      BY <1>3
    <2> QED
      BY <2>1, TypePrint, TypeWebhook, TypeLock, TypeWriter, TypeWriteLine DEF Send, Siem
  <1>4. CASE \E e \in Events, s \in Sinks : Receive(e, s)
    BY <1>4, TypeReceive
  <1>5. CASE Exit
    BY <1>5, TypeExit
  <1> QED
    BY <1>1, <1>2, <1>3, <1>4, <1>5 DEF Next

\* The dispatcher's state keeps its types, and no two goroutines are between
\* SIEMSink's Lock and Unlock.
THEOREM DispatchTypeCorrect == Spec => []TypeOK
  <1>1. TypeOK /\ [Next]_vars => TypeOK'
    BY TypeNext
  <1> QED
    BY <1>1, TypeInit, PTL DEF Spec

\* A step that keeps the mutexes is not one of a holder, or the holder keeps on.
LEMMA MutexKept ==
  ASSUME TypeOK, MutexInUse, running, UNCHANGED lock,
         \A f \in Events, r \in Sinks :
           job[f][r] \in {"locked", "ready"} => job'[f][r] \in {"locked", "ready"}
  PROVE  MutexInUse'
  <1> SUFFICES ASSUME NEW s \in Sinks, lock'[s] # None
               PROVE  job'[lock'[s]][s] \in {"locked", "ready"}
    BY DEF MutexInUse
  <1>1. PICK f \in Events : f = lock[s]
    BY DEF TypeOK
  <1>2. job[f][s] \in {"locked", "ready"}
    BY <1>1 DEF MutexInUse
  <1> QED
    BY <1>1, <1>2

LEMMA MutexSend ==
  ASSUME TypeOK, MutexInUse, NEW e \in Events, NEW s \in Sinks, Send(e, s)
  PROVE  MutexInUse'
  <1>1. PICK step \in Step : Go(e, s, step)
    BY DEF Send, Println, Webhook, Post, Answer, Expire, Siem, Lock, Writer, WriteLine,
           Step, Ended
  <1>2. job \in [Events -> [Sinks -> Step]] /\ running
    BY DEF TypeOK, Step, Send, Println, Webhook, Post, Answer, Expire, Siem, Lock, Writer,
           WriteLine, At
  <1>3. job'[e][s] = step /\ \A f \in Events, r \in Sinks : f # e \/ r # s => job'[f][r] = job[f][r]
    BY <1>1, <1>2, JobGo
  <1>4. CASE Println(e, s) \/ Webhook(e, s)
    <2>1. UNCHANGED lock /\ job[e][s] \notin {"locked", "ready"}
      BY <1>4 DEF Println, Webhook, Post, Answer, Expire, At, siemVars
    <2> QED
      BY <2>1, <1>2, <1>3, MutexKept
  <1>5. CASE Writer(e, s)
    <2>1. UNCHANGED lock /\ Go(e, s, "ready")
      BY <1>5 DEF Writer
    <2>2. job'[e][s] = "ready"
      BY <2>1, <1>2, JobGo DEF Step
    <2> QED
      BY <2>1, <2>2, <1>2, <1>3, MutexKept
  <1>6. CASE Lock(e, s)
    <2>1. Go(e, s, "locked") /\ lock' = [lock EXCEPT ![s] = e] /\ lock \in [Sinks -> Events \cup {None}]
      BY <1>6 DEF Lock, TypeOK
    <2>2. job'[e][s] = "locked"
      BY <2>1, <1>2, JobGo DEF Step
    <2> SUFFICES ASSUME NEW r \in Sinks, lock'[r] # None
                 PROVE  job'[lock'[r]][r] \in {"locked", "ready"}
      BY DEF MutexInUse
    <2>3. CASE r = s
      BY <2>1, <2>2, <2>3
    <2>4. CASE r # s
      <3>1. lock'[r] = lock[r] /\ lock[r] \in Events
        BY <2>1, <2>4
      <3> QED
        BY <3>1, <2>4, <1>2, <1>3 DEF MutexInUse
    <2> QED
      BY <2>3, <2>4
  <1>7. CASE WriteLine(e, s)
    <2>1. lock' = [lock EXCEPT ![s] = None] /\ lock \in [Sinks -> Events \cup {None}]
      BY <1>7 DEF WriteLine, TypeOK
    <2> SUFFICES ASSUME NEW r \in Sinks, lock'[r] # None
                 PROVE  job'[lock'[r]][r] \in {"locked", "ready"}
      BY DEF MutexInUse
    <2>2. r # s /\ lock'[r] = lock[r] /\ lock[r] \in Events
      BY <2>1
    <2> QED
      BY <2>2, <1>2, <1>3 DEF MutexInUse
  <1> QED
    BY <1>4, <1>5, <1>6, <1>7 DEF Send, Siem

\* Whether its write succeeds, is cut short or fails, and wherever it went to, a
\* goroutine leaves Send without the mutex of its sink.
THEOREM MutexReleased == Spec => []MutexInUse
  <1>1. Init => MutexInUse
    BY DEF Init, MutexInUse
  <1>2. TypeOK /\ MutexInUse /\ [Next]_vars => MutexInUse'
    <2> SUFFICES ASSUME TypeOK, MutexInUse, [Next]_vars PROVE MutexInUse'
      OBVIOUS
    <2>1. ASSUME NEW e \in Events, Emit(e) PROVE MutexInUse'
      <3>1. running /\ UNCHANGED lock
        BY <2>1 DEF Emit, siemVars
      <3>2. \A f \in Events, s \in Sinks :
              job[f][s] \in {"locked", "ready"} => job'[f][s] \in {"locked", "ready"}
        BY <2>1 DEF Emit, TypeOK
      <3> QED
        BY <3>1, <3>2, MutexKept
    <2>2. CASE Exit
      BY <2>2 DEF Exit, MutexInUse
    <2>3. CASE UNCHANGED vars
      BY <2>3 DEF vars, siemVars, MutexInUse
    <2>4. ASSUME NEW e \in Events, NEW s \in Sinks, Receive(e, s) PROVE MutexInUse'
      BY <2>4 DEF Receive, siemVars, MutexInUse
    <2> QED
      BY <2>1, <2>2, <2>3, <2>4, MutexSend DEF Next
  <1> QED
    BY <1>1, <1>2, DispatchTypeCorrect, PTL DEF Spec
-----------------------------------------------------------------------------
(* Sinks share nothing, so the inductive invariant is about one sink:      *)
(* which steps its type takes, which POSTs are under way, which goroutines *)
(* have put their event out, where the holder of the mutex is about to     *)
(* write, and why its file ends within a line.                             *)
Kind(s) ==
  /\ \A e \in Events : job[e][s] = "posted" => Conf[s].type = "webhook" /\ running
  /\ \A e \in Events : job[e][s] \in {"locked", "ready"} => Conf[s].type = "siem"
  /\ file[s] = "file" => Conf[s].type = "siem" /\ Conf[s].path
  /\ ragged[s] => Conf[s].type = "siem"

Tried(s) ==
  \A i \in DOMAIN out[s] : job[out[s][i].event][s] \in {"posted", "done", "failed", "lost"}

Wired(s) ==
  \A e \in wire[s] :
    /\ Conf[s].type = "webhook" /\ job[e][s] \in {"posted", "failed", "lost"}
    /\ \A i \in DOMAIN out[s] : out[s][i].event # e

Once(s) ==
  \A i, j \in DOMAIN out[s] : out[s][i].event = out[s][j].event => i = j

Posted(s) ==
  \A e \in Events : job[e][s] = "posted" /\ e \notin wire[s] =>
    \E i \in DOMAIN out[s] :
      out[s][i].event = e /\ out[s][i].place = "server" /\ out[s][i].part = "line"

Aimed(s) ==
  \A e \in Events : job[e][s] = "ready" =>
    /\ e \notin faults[s] => dest[s] = Place(s)
    /\ file[s] = "file" => dest[s] = "file"

CutBefore(s, n) ==
  \E j \in 1..n :
    /\ out[s][j].place = "file" /\ out[s][j].part = "cut"
    /\ \A k \in j + 1..n : out[s][k].place # "file" \/ out[s][k].part = "cut"

Cut(s) == ragged[s] => CutBefore(s, Len(out[s]))

Unharmed(s) ==
  \A e \in Events :
    job[e][s] = "done" /\ e \notin faults[s] =>
      \E i \in DOMAIN out[s] :
        /\ out[s][i].event = e /\ out[s][i].place = Place(s)
        /\ out[s][i].part = "line" \/ (out[s][i].part = "glued" /\ CutBefore(s, i - 1))

SinkInv(s) ==
  /\ Kind(s) /\ Tried(s) /\ Once(s) /\ Wired(s)
  /\ Posted(s) /\ Aimed(s) /\ Cut(s) /\ Unharmed(s)

IInv == TypeOK /\ \A s \in Sinks : SinkInv(s)

\* Nothing of sink r changes.
Frame(r) ==
  /\ \A f \in Events : job'[f][r] = job[f][r]
  /\ out'[r] = out[r] /\ wire'[r] = wire[r] /\ file'[r] = file[r] /\ dest'[r] = dest[r]
  /\ ragged'[r] = ragged[r] /\ faults'[r] = faults[r] /\ running' = running

LEMMA OutEvents ==
  ASSUME TypeOK, NEW s \in Sinks
  PROVE  /\ DOMAIN out[s] = 1..Len(out[s]) /\ Len(out[s]) \in Nat
         /\ \A i \in DOMAIN out[s] : out[s][i].event \in Events
  <1>1. out[s] \in Seq(Chunk)
    BY DEF TypeOK
  <1>2. \A i \in DOMAIN out[s] : out[s][i] \in Chunk
    BY <1>1
  <1> QED
    BY <1>1, <1>2 DEF Chunk

LEMMA FrameKeeps ==
  ASSUME TypeOK, NEW r \in Sinks, SinkInv(r), Frame(r)
  PROVE  SinkInv(r)'
  <1>1. Kind(r)' /\ Aimed(r)'
    BY DEF SinkInv, Frame, Kind, Aimed, Place
  <1>2. Once(r)' /\ Posted(r)'
    BY DEF SinkInv, Frame, Once, Posted
  <1>3. Tried(r)'
    <2>1. \A i \in DOMAIN out[r] : out[r][i].event \in Events
      BY OutEvents
    <2> QED
      BY <2>1 DEF SinkInv, Frame, Tried
  <1>4. Cut(r)'
    BY DEF SinkInv, Frame, Cut, CutBefore
  <1>5. Unharmed(r)'
    BY DEF SinkInv, Frame, Unharmed, CutBefore, Place
  <1>6. Wired(r)'
    BY DEF SinkInv, Frame, Wired, TypeOK
  <1> QED
    BY <1>1, <1>2, <1>3, <1>4, <1>5, <1>6 DEF SinkInv

\* A goroutine's step changes nothing of the other sinks.
LEMMA SendFrames ==
  ASSUME TypeOK, NEW e \in Events, NEW s \in Sinks, Send(e, s), NEW r \in Sinks, r # s
  PROVE  Frame(r)
  <1>1. \E step \in Step : Go(e, s, step)
    BY DEF Send, Println, Webhook, Post, Answer, Expire, Siem, Lock, Writer, WriteLine, Step, Ended
  <1>2. \A f \in Events : job'[f][r] = job[f][r]
    BY <1>1, JobGo DEF TypeOK, Step
  <1>3. out'[r] = out[r]
    <2>1. CASE UNCHANGED out
      BY <2>1
    <2>2. CASE Println(e, s) /\ ~UNCHANGED out
      BY <2>2, PutAppends DEF Println, TypeOK, Places
    <2>3. CASE Webhook(e, s)
      BY <2>3 DEF Webhook, Post, Answer, Expire
    <2>4. CASE Siem(e, s) /\ ~UNCHANGED out
      <3>1. dest[s] \in Places /\ out \in [Sinks -> Seq(Chunk)]
        BY DEF TypeOK
      <3>2. \E part \in {"line", "cut", "glued"} : Put(e, s, dest[s], part)
        BY <2>4 DEF Siem, Lock, Writer, WriteLine
      <3> QED
        BY <3>1, <3>2, PutAppends
    <2> QED
      BY <2>1, <2>2, <2>3, <2>4 DEF Send
  <1>4. faults'[r] = faults[r]
    <2>1. UNCHANGED faults \/ Fault(e, s)
      BY DEF Send, Println, Webhook, Post, Answer, Expire, Siem, Lock, Writer, WriteLine
    <2> QED
      BY <2>1 DEF TypeOK, Fault
  <1>5. file'[r] = file[r]
    <2>1. UNCHANGED file \/ file' = [file EXCEPT ![s] = "file"]
      BY DEF Send, Println, Webhook, Post, Answer, Expire, Siem, Lock, Writer, WriteLine, siemVars
    <2> QED
      BY <2>1 DEF TypeOK
  <1>6. dest'[r] = dest[r]
    <2>1. UNCHANGED dest \/ \E place \in Places : dest' = [dest EXCEPT ![s] = place]
      BY DEF Send, Println, Webhook, Post, Answer, Expire, Siem, Lock, Writer, WriteLine, siemVars, Places
    <2> QED
      BY <2>1 DEF TypeOK
  <1>7. ragged'[r] = ragged[r]
    BY DEF Send, Println, Webhook, Post, Answer, Expire, Siem, Lock, Writer, WriteLine, siemVars, TypeOK
  <1>8. wire'[r] = wire[r] /\ running' = running
    BY DEF Send, Println, Webhook, Post, Answer, Expire, Siem, Lock, Writer, WriteLine, TypeOK
  <1> QED
    BY <1>2, <1>3, <1>4, <1>5, <1>6, <1>7, <1>8 DEF Frame

\* Nor does an event that arrives at its server.
LEMMA ReceiveFrames ==
  ASSUME TypeOK, NEW e \in Events, NEW s \in Sinks, Receive(e, s), NEW r \in Sinks, r # s
  PROVE  Frame(r)
  <1>1. "server" \in Places /\ out \in [Sinks -> Seq(Chunk)] /\ Put(e, s, "server", "line")
    BY DEF Places, TypeOK, Receive
  <1>2. out'[r] = out[r]
    BY <1>1, PutAppends
  <1>3. wire'[r] = wire[r] /\ UNCHANGED <<job, file, dest, ragged, faults, running>>
    BY DEF Receive, siemVars, TypeOK
  <1> QED
    BY <1>2, <1>3 DEF Frame
-----------------------------------------------------------------------------
Out == {"posted", "done", "failed", "lost"}

\* What goroutine (e, s) does to its own sink's jobs.
Moves(e, s, step) ==
  /\ job'[e][s] = step
  /\ \A f \in Events : f # e => job'[f][s] = job[f][s]

LEMMA SendMoves ==
  ASSUME TypeOK, NEW e \in Events, NEW s \in Sinks, NEW step \in Step, Go(e, s, step)
  PROVE  Moves(e, s, step)
  BY JobGo DEF Moves, TypeOK, Step

\* The output ends with the chunk that was put.
PutEnds(e, s, place, part) ==
  \E n \in DOMAIN out'[s] : out'[s][n] = [event |-> e, place |-> place, part |-> part]

LEMMA PutLast ==
  ASSUME TypeOK, NEW e \in Events, NEW s \in Sinks,
         NEW place \in Places, NEW part \in {"line", "cut", "glued"}, Put(e, s, place, part)
  PROVE  PutEnds(e, s, place, part)
  <1>1. out \in [Sinks -> Seq(Chunk)]
    BY DEF TypeOK
  <1>2. out' \in [Sinks -> Seq(Chunk)] /\ Len(out'[s]) = Len(out[s]) + 1 /\ Len(out[s]) \in Nat
    BY <1>1, PutAppends
  <1>3. out'[s][Len(out[s]) + 1] = [event |-> e, place |-> place, part |-> part]
    BY <1>1, PutAppends
  <1>4. out'[s] \in Seq(Chunk)
    BY <1>2
  <1>5. Len(out[s]) + 1 \in DOMAIN out'[s]
    BY <1>2, <1>4
  <1> QED
    BY <1>3, <1>5 DEF PutEnds

LEMMA PutKeeps ==
  ASSUME TypeOK, NEW e \in Events, NEW s \in Sinks,
         NEW place \in Places, NEW part \in {"line", "cut", "glued"}, Put(e, s, place, part)
  PROVE  \A i \in DOMAIN out[s] : i \in DOMAIN out'[s] /\ out'[s][i] = out[s][i]
  <1>1. out \in [Sinks -> Seq(Chunk)]
    BY DEF TypeOK
  <1>2. out' \in [Sinks -> Seq(Chunk)] /\ Len(out'[s]) = Len(out[s]) + 1
    BY <1>1, PutAppends
  <1>3. \A k \in 1..Len(out[s]) : out'[s][k] = out[s][k]
    BY <1>1, PutAppends
  <1>4. out'[s] \in Seq(Chunk)
    BY <1>2
  <1>5. DOMAIN out[s] = 1..Len(out[s]) /\ Len(out[s]) \in Nat
    BY OutEvents
  <1> QED
    BY <1>2, <1>3, <1>4, <1>5

\* What is added to the output of one sink is one chunk at its end.
LEMMA PutAdds ==
  ASSUME TypeOK, NEW e \in Events, NEW s \in Sinks,
         NEW place \in Places, NEW part \in {"line", "cut", "glued"}, Put(e, s, place, part)
  PROVE  \A i \in DOMAIN out'[s] \ DOMAIN out[s] :
           out'[s][i] = [event |-> e, place |-> place, part |-> part]
  <1>1. out \in [Sinks -> Seq(Chunk)]
    BY DEF TypeOK
  <1>2. out' \in [Sinks -> Seq(Chunk)] /\ Len(out'[s]) = Len(out[s]) + 1 /\ Len(out[s]) \in Nat
    BY <1>1, PutAppends
  <1>3. out'[s][Len(out[s]) + 1] = [event |-> e, place |-> place, part |-> part]
    BY <1>1, PutAppends
  <1>4. DOMAIN out[s] = 1..Len(out[s])
    BY OutEvents
  <1>5. out'[s] \in Seq(Chunk)
    BY <1>2
  <1>6. \A i \in DOMAIN out'[s] : i \in DOMAIN out[s] \/ i = Len(out[s]) + 1
    BY <1>2, <1>4, <1>5
  <1> QED
    BY <1>3, <1>6

\* While a goroutine is between Lock and Unlock, no other is.
LEMMA NoOther ==
  ASSUME TypeOK, NEW e \in Events, NEW s \in Sinks, job[e][s] \in {"locked", "ready"}
  PROVE  \A f \in Events : f # e => job[f][s] \notin {"locked", "ready"}
  BY DEF TypeOK

\* A first chunk of an event, added when the event's goroutine has put it out.
LEMMA PutOnce ==
  ASSUME TypeOK, NEW e \in Events, NEW s \in Sinks, NEW step \in Out,
         NEW place \in Places, NEW part \in {"line", "cut", "glued"},
         Tried(s), Once(s), \A i \in DOMAIN out[s] : out[s][i].event # e,
         Put(e, s, place, part), Moves(e, s, step)
  PROVE  Tried(s)' /\ Once(s)'
  <1>0. out \in [Sinks -> Seq(Chunk)]
    BY DEF TypeOK
  <1>a. Len(out[s]) \in Nat
    BY <1>0, PutAppends
  <1>b. DOMAIN out[s] = 1..Len(out[s])
    BY <1>0, PutAppends
  <1>c. DOMAIN out'[s] = 1..Len(out[s]) + 1
    <2>1. out'[s] \in Seq(Chunk) /\ Len(out'[s]) = Len(out[s]) + 1
      BY <1>0, PutAppends
    <2> QED
      BY <2>1
  <1>d. \A i \in 1..Len(out[s]) : out'[s][i] = out[s][i]
    BY <1>0, PutAppends
  <1>e. out'[s][Len(out[s]) + 1] = [event |-> e, place |-> place, part |-> part]
    BY <1>0, PutAppends
  <1> DEFINE n == Len(out[s])
  <1>1. /\ n \in Nat /\ DOMAIN out[s] = 1..n /\ DOMAIN out'[s] = 1..n + 1
        /\ \A i \in 1..n : out'[s][i] = out[s][i]
        /\ out'[s][n + 1] = [event |-> e, place |-> place, part |-> part]
    BY <1>a, <1>b, <1>c, <1>d, <1>e
  <1>2. \A i \in 1..n : out[s][i].event # e
    BY <1>1
  <1>3. \A i \in 1..n : out[s][i].event \in Events
    BY <1>1, OutEvents
  <1> HIDE DEF n
  <1>4. \A i \in 1..n + 1 : i \in 1..n \/ i = n + 1
    BY <1>1
  <1>5. Tried(s)'
    <2> SUFFICES ASSUME NEW i \in 1..n + 1
                 PROVE  job'[out'[s][i].event][s] \in Out
      BY <1>1 DEF Tried, Out
    <2>1. CASE i \in 1..n
      BY <2>1, <1>1, <1>2, <1>3 DEF Moves, Tried, Out
    <2>2. CASE i = n + 1
      BY <2>2, <1>1 DEF Moves, Out
    <2> QED
      BY <2>1, <2>2, <1>4
  <1>6. Once(s)'
    <2> SUFFICES ASSUME NEW i \in 1..n + 1, NEW j \in 1..n + 1, out'[s][i].event = out'[s][j].event
                 PROVE  i = j
      BY <1>1 DEF Once
    <2>1. CASE i \in 1..n /\ j \in 1..n
      BY <2>1, <1>1 DEF Once
    <2>2. CASE i = n + 1 \/ j = n + 1
      <3>1. out'[s][n + 1].event = e
        BY <1>1
      <3>2. \A k \in 1..n : out'[s][k].event # e
        BY <1>1, <1>2
      <3> QED
        BY <2>2, <3>1, <3>2, <1>4
    <2> QED
      BY <2>1, <2>2, <1>4
  <1> QED
    BY <1>5, <1>6

\* An event whose goroutine has not put it out is not among its sink's output.
LEMMA NotYet ==
  ASSUME TypeOK, NEW e \in Events, NEW s \in Sinks, Tried(s), job[e][s] \notin Out
  PROVE  \A i \in DOMAIN out[s] : out[s][i].event # e
  BY DEF Tried, Out

\* No sink but a webhook has POSTs under way.
LEMMA NoWire ==
  ASSUME NEW s \in Sinks, Wired(s), Conf[s].type # "webhook", wire'[s] = wire[s]
  PROVE  Wired(s)'
  BY DEF Wired

\* Nothing put out: the outputs' part of the invariant only needs that no
\* event that is out goes back.
LEMMA SilentOnce ==
  ASSUME TypeOK, NEW e \in Events, NEW s \in Sinks, NEW step \in Step,
         Tried(s), Once(s), UNCHANGED out, Moves(e, s, step),
         job[e][s] \in Out => step \in Out
  PROVE  Tried(s)' /\ Once(s)'
  <1>1. \A i \in DOMAIN out[s] : out[s][i].event \in Events
    BY OutEvents
  <1>2. Tried(s)'
    BY <1>1 DEF Tried, Moves, Out
  <1> QED
    BY <1>2 DEF Once

\* What was cut before place n stays so when the output grows.
LEMMA CutStays ==
  ASSUME TypeOK, NEW e \in Events, NEW s \in Sinks,
         NEW place \in Places, NEW part \in {"line", "cut", "glued"}, Put(e, s, place, part),
         NEW m \in 0..Len(out[s]), CutBefore(s, m)
  PROVE  \E j \in 1..m :
           /\ out'[s][j].place = "file" /\ out'[s][j].part = "cut"
           /\ \A k \in j + 1..m : out'[s][k].place # "file" \/ out'[s][k].part = "cut"
  <1> DEFINE n == Len(out[s])
  <1>0. out \in [Sinks -> Seq(Chunk)]
    BY DEF TypeOK
  <1>1. n \in Nat /\ \A i \in 1..n : out'[s][i] = out[s][i]
    BY <1>0, PutAppends
  <1>2. PICK j \in 1..m : /\ out[s][j].place = "file" /\ out[s][j].part = "cut"
                           /\ \A k \in j + 1..m : out[s][k].place # "file" \/ out[s][k].part = "cut"
    BY DEF CutBefore
  <1>3. \A k \in 1..m : k \in 1..n
    BY <1>1
  <1>4. \A k \in j + 1..m : k \in 1..m
    BY <1>2
  <1> QED
    BY <1>1, <1>2, <1>3, <1>4

\* Events that were put out as they should stay so.
LEMMA UnharmedStays ==
  ASSUME TypeOK, NEW e \in Events, NEW s \in Sinks, Unharmed(s), NEW f \in Events,
         NEW place \in Places, NEW part \in {"line", "cut", "glued"},
         job[f][s] = "done", f \notin faults[s],
         UNCHANGED out \/ Put(e, s, place, part)
  PROVE  \E i \in DOMAIN out'[s] :
           /\ out'[s][i].event = f /\ out'[s][i].place = Place(s)
           /\ out'[s][i].part = "line" \/ (out'[s][i].part = "glued" /\ CutBefore(s, i - 1)')
  <1>1. PICK i \in DOMAIN out[s] :
          /\ out[s][i].event = f /\ out[s][i].place = Place(s)
          /\ out[s][i].part = "line" \/ (out[s][i].part = "glued" /\ CutBefore(s, i - 1))
    BY DEF Unharmed
  <1>2. CASE UNCHANGED out
    BY <1>1, <1>2 DEF CutBefore
  <1>3. CASE Put(e, s, place, part)
    <2>1. out \in [Sinks -> Seq(Chunk)]
      BY DEF TypeOK
    <2>2. Len(out[s]) \in Nat /\ DOMAIN out[s] = 1..Len(out[s])
      BY OutEvents
    <2>3. out' \in [Sinks -> Seq(Chunk)] /\ Len(out'[s]) = Len(out[s]) + 1
      BY <2>1, <1>3, PutAppends
    <2>4. \A k \in 1..Len(out[s]) : out'[s][k] = out[s][k]
      BY <2>1, <1>3, PutAppends
    <2>5. out'[s] \in Seq(Chunk)
      BY <2>3
    <2>6. DOMAIN out'[s] = 1..Len(out[s]) + 1 /\ out'[s][i] = out[s][i]
      BY <2>2, <2>3, <2>4, <2>5, <1>1
    <2>7. i \in DOMAIN out'[s] /\ i - 1 \in 0..Len(out[s])
      BY <2>6, <2>2, <1>1
    <2>8. CASE out[s][i].part = "glued" /\ CutBefore(s, i - 1)
      <3>1. CutBefore(s, i - 1)'
        BY <1>3, <2>7, <2>8, CutStays DEF CutBefore
      <3> QED
        BY <3>1, <2>6, <2>7, <2>8, <1>1
    <2>9. CASE out[s][i].part = "line"
      BY <2>6, <2>7, <2>9, <1>1
    <2> QED
      BY <2>8, <2>9, <1>1
  <1> QED
    BY <1>2, <1>3
\* A step keeps the others' events unharmed, if its own is when it is done.
LEMMA UnharmedNext ==
  ASSUME TypeOK, NEW e \in Events, NEW s \in Sinks, NEW step \in Step, Unharmed(s),
         NEW place \in Places, NEW part \in {"line", "cut", "glued"},
         Moves(e, s, step), UNCHANGED out \/ Put(e, s, place, part),
         UNCHANGED faults \/ Fault(e, s),
         step = "done" /\ e \notin faults'[s] =>
           \E i \in DOMAIN out'[s] :
             /\ out'[s][i].event = e /\ out'[s][i].place = Place(s)
             /\ out'[s][i].part = "line" \/ (out'[s][i].part = "glued" /\ CutBefore(s, i - 1)')
  PROVE  Unharmed(s)'
  <1> SUFFICES ASSUME NEW f \in Events, job'[f][s] = "done", f \notin faults'[s]
               PROVE  \E i \in DOMAIN out'[s] :
                        /\ out'[s][i].event = f /\ out'[s][i].place = Place(s)
                        /\ out'[s][i].part = "line" \/ (out'[s][i].part = "glued" /\ CutBefore(s, i - 1)')
    BY DEF Unharmed, Place
  <1>1. CASE f = e
    BY <1>1 DEF Moves
  <1>2. CASE f # e
    <2>1. job[f][s] = "done" /\ f \notin faults[s]
      BY <1>2, FaultAdds DEF Moves, TypeOK
    <2> QED
      BY <2>1, UnharmedStays
  <1> QED
    BY <1>1, <1>2
-----------------------------------------------------------------------------
LEMMA InvInit == Init => IInv
  <1> SUFFICES ASSUME Init PROVE IInv
    OBVIOUS
  <1>1. TypeOK
    BY TypeInit
  <1>2. ASSUME NEW s \in Sinks PROVE SinkInv(s)
    <2>1. /\ \A e \in Events : job[e][s] = "none"
          /\ out[s] = <<>> /\ file[s] = "nil" /\ ragged[s] = FALSE
      BY DEF Init
    <2>2. DOMAIN out[s] = {}
      BY <2>1
    <2> QED
      BY <2>1, <2>2 DEF Init, SinkInv, Kind, Tried, Once, Wired, Posted, Aimed, Cut, Unharmed
  <1> QED
    BY <1>1, <1>2 DEF IInv

LEMMA InvEmit ==
  ASSUME IInv, NEW e \in Events, Emit(e), NEW s \in Sinks
  PROVE  SinkInv(s)'
  <1>1. TypeOK /\ SinkInv(s)
    BY DEF IInv
  <1>2. /\ \A f \in Events : f # e => job'[f][s] = job[f][s]
        /\ job[e][s] = "none" /\ job'[e][s] = "started"
    BY <1>1 DEF Emit, TypeOK
  <1>3. UNCHANGED <<out, wire, file, dest, ragged, faults, running>>
    BY DEF Emit, siemVars
  <1>4. \A i \in DOMAIN out[s] : out[s][i].event \in Events
    BY <1>1, OutEvents
  <1>5. Tried(s)'
    BY <1>1, <1>2, <1>3, <1>4 DEF SinkInv, Tried
  <1>6. Kind(s)' /\ Aimed(s)'
    BY <1>1, <1>2, <1>3 DEF SinkInv, Kind, Aimed, Place
  <1>7. Once(s)' /\ Posted(s)' /\ Cut(s)'
    BY <1>1, <1>2, <1>3 DEF SinkInv, Once, Posted, Cut, CutBefore
  <1>8. Unharmed(s)'
    BY <1>1, <1>2, <1>3 DEF SinkInv, Unharmed, CutBefore, Place
  <1>9. Wired(s)'
    BY <1>1, <1>2, <1>3 DEF SinkInv, Wired, TypeOK
  <1> QED
    BY <1>5, <1>6, <1>7, <1>8, <1>9 DEF SinkInv

LEMMA InvExit ==
  ASSUME IInv, Exit, NEW s \in Sinks
  PROVE  SinkInv(s)'
  <1>1. TypeOK /\ SinkInv(s)
    BY DEF IInv
  <1>2. \A f \in Events : job'[f][s] = IF job[f][s] \in {"none"} \cup Ended THEN job[f][s] ELSE "lost"
    BY <1>1 DEF Exit, TypeOK
  <1>3. UNCHANGED <<out, wire, file, dest, ragged, faults>>
    BY DEF Exit, siemVars
  <1>4. \A i \in DOMAIN out[s] : out[s][i].event \in Events
    BY <1>1, OutEvents
  <1>5. Tried(s)'
    BY <1>1, <1>2, <1>3, <1>4 DEF SinkInv, Tried, Ended
  <1>6. Kind(s)' /\ Aimed(s)' /\ Posted(s)'
    BY <1>1, <1>2, <1>3 DEF SinkInv, Kind, Aimed, Posted, Ended
  <1>7. Once(s)' /\ Cut(s)'
    BY <1>1, <1>3 DEF SinkInv, Once, Cut, CutBefore
  <1>8. Unharmed(s)'
    BY <1>1, <1>2, <1>3 DEF SinkInv, Unharmed, CutBefore, Place, Ended
  <1>9. Wired(s)'
    BY <1>1, <1>2, <1>3 DEF SinkInv, Wired, TypeOK, Ended
  <1> QED
    BY <1>5, <1>6, <1>7, <1>8, <1>9 DEF SinkInv

LEMMA InvPrint ==
  ASSUME TypeOK, NEW e \in Events, NEW s \in Sinks, SinkInv(s), Println(e, s)
  PROVE  SinkInv(s)'
  <1>1. Moves(e, s, "done") /\ job[e][s] = "started" /\ Conf[s].type = "stdout"
    BY SendMoves DEF Println, At, OfType, Step, Ended
  <1>2. UNCHANGED <<wire, file, dest, ragged, running>>
    BY DEF Println, siemVars
  <1>3. Kind(s)'
    BY <1>1, <1>2 DEF SinkInv, Kind, Moves
  <1>4. \A f \in Events : job'[f][s] \notin {"ready", "posted"}
    BY <1>1 DEF SinkInv, Kind, Moves
  <1>5. Aimed(s)' /\ Posted(s)'
    BY <1>4 DEF Aimed, Posted
  <1>6. Cut(s)'
    BY <1>1, <1>2 DEF SinkInv, Kind, Cut
  <1>7. Tried(s)' /\ Once(s)'
    <2>1. CASE Put(e, s, "stdout", "line")
      <3>1. \A i \in DOMAIN out[s] : out[s][i].event # e
        BY <1>1, NotYet DEF SinkInv, Out
      <3> QED
        BY <1>1, <2>1, <3>1, PutOnce DEF SinkInv, Places, Out
    <2>2. CASE UNCHANGED out
      BY <1>1, <2>2, SilentOnce DEF SinkInv, Out, Step, Ended
    <2> QED
      BY <2>1, <2>2 DEF Println
  <1>8. e \notin faults'[s] =>
           \E i \in DOMAIN out'[s] :
             out'[s][i].event = e /\ out'[s][i].place = Place(s) /\ out'[s][i].part = "line"
    <2> SUFFICES ASSUME e \notin faults'[s]
                 PROVE  \E i \in DOMAIN out'[s] :
                          out'[s][i].event = e /\ out'[s][i].place = Place(s) /\ out'[s][i].part = "line"
      OBVIOUS
    <2>1. Put(e, s, "stdout", "line")
      BY FaultAdds DEF Println, TypeOK
    <2>2. PutEnds(e, s, "stdout", "line")
      BY <2>1, PutLast DEF Places
    <2> QED
      BY <2>2, <1>1 DEF PutEnds, Place
  <1>9. Unharmed(s)'
    <2>1. UNCHANGED out \/ Put(e, s, "stdout", "line")
      BY DEF Println
    <2>2. UNCHANGED faults \/ Fault(e, s)
      BY DEF Println
    <2>3. "stdout" \in Places /\ "done" \in Step /\ Unharmed(s)
      BY DEF SinkInv, Places, Step, Ended
    <2> QED
      BY <1>1, <1>8, <2>1, <2>2, <2>3, UnharmedNext
  <1>10. Wired(s)'
    BY <1>1, <1>2, NoWire DEF SinkInv
  <1> QED
    BY <1>3, <1>5, <1>6, <1>7, <1>9, <1>10 DEF SinkInv

LEMMA InvPost ==
  ASSUME TypeOK, NEW e \in Events, NEW s \in Sinks, SinkInv(s), Post(e, s)
  PROVE  SinkInv(s)'
  <1>1. Moves(e, s, "posted") /\ job[e][s] = "started" /\ Conf[s].type = "webhook" /\ running
    BY SendMoves DEF Post, At, OfType, Step, Ended
  <1>2. /\ UNCHANGED <<out, file, dest, ragged, faults, running>>
        /\ wire'[s] = wire[s] \cup {e}
    BY DEF Post, siemVars, TypeOK
  <1>3. Kind(s)' /\ Aimed(s)' /\ Posted(s)'
    BY <1>1, <1>2 DEF SinkInv, Kind, Aimed, Posted, Moves, Place
  <1>4. Tried(s)' /\ Once(s)'
    BY <1>1, <1>2, SilentOnce DEF SinkInv, Out, Step
  <1>5. Cut(s)'
    BY <1>2 DEF SinkInv, Cut, CutBefore
  <1>6. Unharmed(s)'
    BY <1>1, <1>2 DEF SinkInv, Unharmed, CutBefore, Moves, Place
  <1>7. Wired(s)'
    <2>1. \A i \in DOMAIN out[s] : out[s][i].event # e
      BY <1>1, NotYet DEF SinkInv, Out
    <2> QED
      BY <1>1, <1>2, <2>1 DEF SinkInv, Wired, Moves, TypeOK
  <1> QED
    BY <1>3, <1>4, <1>5, <1>6, <1>7 DEF SinkInv

LEMMA InvReceive ==
  ASSUME TypeOK, NEW e \in Events, NEW s \in Sinks, SinkInv(s), Receive(e, s)
  PROVE  SinkInv(s)'
  <1>1. PICK step \in {"posted", "failed", "lost"} : step = job[e][s]
    BY DEF Receive, SinkInv, Wired
  <1>2. /\ Conf[s].type = "webhook" /\ e \in wire[s]
        /\ \A i \in DOMAIN out[s] : out[s][i].event # e
    BY DEF Receive, SinkInv, Wired
  <1>3. /\ UNCHANGED <<job, file, dest, ragged, faults, running>> /\ Put(e, s, "server", "line")
        /\ wire'[s] = wire[s] \ {e}
    BY DEF Receive, siemVars, TypeOK
  <1>4. Moves(e, s, step) /\ step \in Out /\ step \in Step /\ "server" \in Places
    BY <1>1, <1>3 DEF Moves, Out, Step, Ended, Places
  <1>5. Kind(s)' /\ Aimed(s)'
    BY <1>3 DEF SinkInv, Kind, Aimed, Place
  <1>6. Cut(s)'
    BY <1>2, <1>3 DEF SinkInv, Kind, Cut
  <1>7. Tried(s)' /\ Once(s)'
    BY <1>2, <1>3, <1>4, PutOnce DEF SinkInv
  <1>8. PutEnds(e, s, "server", "line")
    BY <1>3, <1>4, PutLast
  <1>9. \A i \in DOMAIN out[s] : i \in DOMAIN out'[s] /\ out'[s][i] = out[s][i]
    BY <1>3, <1>4, PutKeeps
  <1>10. Posted(s)'
    <2> SUFFICES ASSUME NEW f \in Events, job'[f][s] = "posted", f \notin wire'[s]
                 PROVE  \E i \in DOMAIN out'[s] :
                          out'[s][i].event = f /\ out'[s][i].place = "server" /\ out'[s][i].part = "line"
      BY DEF Posted
    <2>1. CASE f = e
      BY <2>1, <1>8 DEF PutEnds
    <2>2. CASE f # e
      <3>1. PICK i \in DOMAIN out[s] :
              out[s][i].event = f /\ out[s][i].place = "server" /\ out[s][i].part = "line"
        BY <2>2, <1>3 DEF SinkInv, Posted
      <3> QED
        BY <3>1, <1>9
    <2> QED
      BY <2>1, <2>2
  <1>11. Wired(s)'
    <2>1. \A i \in DOMAIN out'[s] \ DOMAIN out[s] :
            out'[s][i] = [event |-> e, place |-> "server", part |-> "line"]
      BY <1>3, <1>4, PutAdds
    <2>2. \A i \in DOMAIN out'[s] \ DOMAIN out[s] : out'[s][i].event = e
      BY <2>1
    <2> QED
      BY <2>2, <1>3, <1>9 DEF SinkInv, Wired
  <1>12. Unharmed(s)'
    <2>1. step # "done" /\ Unharmed(s)
      BY DEF SinkInv
    <2> QED
      BY <1>3, <1>4, <2>1, UnharmedNext
  <1> QED
    BY <1>5, <1>6, <1>7, <1>10, <1>11, <1>12 DEF SinkInv

LEMMA InvAnswer ==
  ASSUME TypeOK, NEW e \in Events, NEW s \in Sinks, SinkInv(s), Answer(e, s) \/ Expire(e, s)
  PROVE  SinkInv(s)'
  <1>1. PICK step \in {"done", "failed"} :
          /\ Go(e, s, step)
          /\ step = "done" => UNCHANGED faults /\ e \notin wire[s]
          /\ step = "failed" => Fault(e, s)
    BY DEF Answer, Expire, At
  <1>2. Moves(e, s, step) /\ step \in Step /\ step \in Out
    BY <1>1, SendMoves DEF Step, Ended, Out
  <1>3. UNCHANGED <<out, wire, file, dest, ragged, running>> /\ job[e][s] = "posted"
    BY DEF Answer, Expire, siemVars, At
  <1>4. Conf[s].type = "webhook"
    BY <1>3 DEF SinkInv, Kind
  <1>5. Kind(s)' /\ Posted(s)'
    BY <1>1, <1>2, <1>3 DEF SinkInv, Kind, Posted, Moves
  <1>6. Aimed(s)'
    <2>1. \A f \in Events : job'[f][s] # "ready"
      BY <1>1, <1>2, <1>4 DEF SinkInv, Kind, Moves
    <2> QED
      BY <2>1 DEF Aimed
  <1>7. Cut(s)'
    BY <1>3, <1>4 DEF SinkInv, Kind, Cut
  <1>8. Tried(s)' /\ Once(s)'
    BY <1>2, <1>3, SilentOnce DEF SinkInv
  <1>9. Unharmed(s)'
    <2>1. UNCHANGED faults \/ Fault(e, s)
      BY <1>1
    <2>2. step = "done" => \E i \in DOMAIN out'[s] :
             out'[s][i].event = e /\ out'[s][i].place = Place(s) /\ out'[s][i].part = "line"
      BY <1>1, <1>3, <1>4 DEF SinkInv, Posted, Place
    <2>3. "server" \in Places /\ "line" \in {"line", "cut", "glued"} /\ Unharmed(s) /\ UNCHANGED out
      BY <1>3 DEF SinkInv, Places
    <2> QED
      BY <1>2, <2>1, <2>2, <2>3, UnharmedNext
  <1>10. Wired(s)'
    BY <1>1, <1>2, <1>3 DEF SinkInv, Wired, Moves, TypeOK
  <1> QED
    BY <1>5, <1>6, <1>7, <1>8, <1>9, <1>10 DEF SinkInv

LEMMA InvLock ==
  ASSUME TypeOK, NEW e \in Events, NEW s \in Sinks, SinkInv(s), Lock(e, s)
  PROVE  SinkInv(s)'
  <1>1. Moves(e, s, "locked") /\ job[e][s] = "started" /\ Conf[s].type = "siem"
    BY SendMoves DEF Lock, At, OfType, Step, Ended
  <1>2. UNCHANGED <<out, wire, file, dest, ragged, faults, running>>
    BY DEF Lock
  <1>3. Kind(s)' /\ Aimed(s)' /\ Posted(s)'
    BY <1>1, <1>2 DEF SinkInv, Kind, Aimed, Posted, Moves, Place
  <1>4. Tried(s)' /\ Once(s)'
    BY <1>1, <1>2, SilentOnce DEF SinkInv, Out, Step
  <1>5. Cut(s)'
    BY <1>2 DEF SinkInv, Cut, CutBefore
  <1>6. Unharmed(s)'
    BY <1>1, <1>2 DEF SinkInv, Unharmed, CutBefore, Moves, Place
  <1>7. Wired(s)'
    BY <1>1, <1>2, NoWire DEF SinkInv
  <1> QED
    BY <1>3, <1>4, <1>5, <1>6, <1>7 DEF SinkInv

\* Nobody but e's goroutine, which holds the mutex, is about to write.
LEMMA InvWriter ==
  ASSUME TypeOK, NEW e \in Events, NEW s \in Sinks, SinkInv(s), Writer(e, s)
  PROVE  SinkInv(s)'
  <1>1. Moves(e, s, "ready") /\ job[e][s] = "locked" /\ Conf[s].type = "siem"
    BY SendMoves DEF Writer, At, Step, SinkInv, Kind
  <1>2. UNCHANGED <<out, wire, ragged, running>> /\ (UNCHANGED faults \/ Fault(e, s))
    BY DEF Writer
  <1>3. file[s] = "file" => Conf[s].path
    BY DEF SinkInv, Kind
  <1>4. \/ ~Conf[s].path /\ dest'[s] = "stderr" /\ file'[s] = file[s] /\ faults'[s] = faults[s]
        \/ Conf[s].path /\ dest'[s] = "file" /\ file'[s] = "file" /\ faults'[s] = faults[s]
        \/ Conf[s].path /\ file'[s] = "nil" /\ e \in faults'[s]
    <2>1. file \in [Sinks -> {"nil", "file"}] /\ dest \in [Sinks -> Places] /\ faults \in [Sinks -> SUBSET Events]
      BY DEF TypeOK
    <2> QED
      BY <2>1, FaultAdds DEF Writer
  <1>5. Kind(s)' /\ Posted(s)'
    BY <1>1, <1>2, <1>4 DEF SinkInv, Kind, Posted, Moves
  <1>6. Aimed(s)'
    <2>1. \A f \in Events : f # e => job'[f][s] # "ready"
      BY <1>1, NoOther DEF Moves
    <2>2. e \notin faults'[s] => dest'[s] = Place(s)
      BY <1>1, <1>4 DEF Place
    <2>3. file'[s] = "file" => dest'[s] = "file"
      BY <1>3, <1>4
    <2> QED
      BY <2>1, <2>2, <2>3 DEF Aimed, Place
  <1>7. Tried(s)' /\ Once(s)'
    BY <1>1, <1>2, SilentOnce DEF SinkInv, Out, Step
  <1>8. Cut(s)'
    BY <1>2 DEF SinkInv, Cut, CutBefore
  <1>9. Unharmed(s)'
    <2>1. "server" \in Places /\ "line" \in {"line", "cut", "glued"} /\ "ready" \in Step /\ Unharmed(s)
      BY DEF SinkInv, Places, Step
    <2> QED
      BY <1>1, <1>2, <2>1, UnharmedNext
  <1>10. Wired(s)'
    BY <1>1, <1>2, NoWire DEF SinkInv
  <1> QED
    BY <1>5, <1>6, <1>7, <1>8, <1>9, <1>10 DEF SinkInv

\* A line that is put, cut or glued keeps the account of the file's end.
LEMMA CutNext ==
  ASSUME TypeOK, NEW e \in Events, NEW s \in Sinks, Cut(s),
         NEW place \in Places, NEW part \in {"line", "cut", "glued"}, Put(e, s, place, part),
         ragged'[s] => \/ place = "file" /\ part = "cut"
                       \/ ragged[s] /\ place # "file"
  PROVE  Cut(s)'
  <1> SUFFICES ASSUME ragged'[s]
               PROVE  CutBefore(s, Len(out[s]))'
    BY DEF Cut
  <1>1. out \in [Sinks -> Seq(Chunk)]
    BY DEF TypeOK
  <1>2. Len(out'[s]) = Len(out[s]) + 1 /\ Len(out[s]) \in Nat
    BY <1>1, PutAppends
  <1>3. out'[s][Len(out[s]) + 1] = [event |-> e, place |-> place, part |-> part]
    BY <1>1, PutAppends
  <1>4. CASE place = "file" /\ part = "cut"
    BY <1>2, <1>3, <1>4 DEF CutBefore
  <1>5. CASE ragged[s] /\ place # "file"
    <2>1. CutBefore(s, Len(out[s])) /\ Len(out[s]) \in 0..Len(out[s])
      BY <1>2, <1>5 DEF Cut
    <2>2. PICK j \in 1..Len(out[s]) :
            /\ out'[s][j].place = "file" /\ out'[s][j].part = "cut"
            /\ \A k \in j + 1..Len(out[s]) : out'[s][k].place # "file" \/ out'[s][k].part = "cut"
      BY <2>1, CutStays
    <2>3. \A k \in j + 1..Len(out[s]) + 1 : k \in j + 1..Len(out[s]) \/ k = Len(out[s]) + 1
      BY <1>2
    <2>4. \A k \in j + 1..Len(out[s]) + 1 : out'[s][k].place # "file" \/ out'[s][k].part = "cut"
      BY <2>2, <2>3, <1>3, <1>5
    <2>5. j \in 1..Len(out'[s])
      BY <1>2
    <2> QED
      BY <2>2, <2>4, <2>5, <1>2 DEF CutBefore
  <1> QED
    BY <1>4, <1>5

LEMMA InvWriteLine ==
  ASSUME TypeOK, NEW e \in Events, NEW s \in Sinks, SinkInv(s), WriteLine(e, s)
  PROVE  SinkInv(s)'
  <1> DEFINE glued == dest[s] = "file" /\ ragged[s]
  <1>1. PICK step \in {"done", "failed"} : Go(e, s, step)
    BY DEF WriteLine
  <1>2. /\ Moves(e, s, step) /\ step \in Step /\ step \in Out
        /\ job[e][s] = "ready" /\ Conf[s].type = "siem" /\ dest[s] \in Places
    BY <1>1, SendMoves DEF WriteLine, At, Step, Ended, Out, SinkInv, Kind, TypeOK
  <1>3. UNCHANGED <<wire, file, dest, running>> /\ (UNCHANGED faults \/ Fault(e, s))
    BY DEF WriteLine
  <1>4. ragged \in [Sinks -> BOOLEAN] /\ faults \in [Sinks -> SUBSET Events]
    BY DEF TypeOK
  <1>5. \/ /\ UNCHANGED out /\ ragged'[s] = ragged[s] /\ Fault(e, s)
        \/ /\ Put(e, s, dest[s], IF glued THEN "glued" ELSE "line")
           /\ ragged'[s] = (ragged[s] /\ ~glued)
        \/ /\ Put(e, s, dest[s], "cut") /\ Fault(e, s)
           /\ ragged'[s] = (ragged[s] \/ dest[s] = "file")
    BY <1>4 DEF WriteLine
  <1> HIDE DEF glued
  <1>6. \A f \in Events : job'[f][s] \notin {"locked", "ready"}
    BY <1>1, <1>2, NoOther DEF Moves
  <1>7. Kind(s)' /\ Aimed(s)'
    BY <1>1, <1>2, <1>3, <1>6 DEF SinkInv, Kind, Aimed, Moves
  <1>8. Posted(s)'
    <2>1. \A f \in Events : job'[f][s] # "posted"
      BY <1>1, <1>2 DEF SinkInv, Kind, Moves
    <2> QED
      BY <2>1 DEF Posted
  <1>9. Tried(s)' /\ Once(s)'
    <2>1. CASE UNCHANGED out
      BY <1>2, <2>1, SilentOnce DEF SinkInv
    <2>2. CASE \E part \in {"line", "cut", "glued"} : Put(e, s, dest[s], part)
      <3>1. \A i \in DOMAIN out[s] : out[s][i].event # e
        BY <1>2, NotYet DEF SinkInv, Out
      <3> QED
        BY <1>2, <2>2, <3>1, PutOnce DEF SinkInv, Out
    <2> QED
      BY <1>5, <2>1, <2>2
  <1>10. Cut(s)'
    <2>1. CASE UNCHANGED out /\ ragged'[s] = ragged[s]
      BY <2>1 DEF SinkInv, Cut, CutBefore
    <2>2. CASE /\ Put(e, s, dest[s], IF glued THEN "glued" ELSE "line")
               /\ ragged'[s] = (ragged[s] /\ ~glued)
      <3>1. PICK part \in {"line", "cut", "glued"} : Put(e, s, dest[s], part)
        BY <2>2
      <3>2. ragged'[s] => ragged[s] /\ dest[s] # "file"
        BY <2>2 DEF glued
      <3> QED
        BY <3>1, <3>2, <1>2, CutNext DEF SinkInv
    <2>3. CASE Put(e, s, dest[s], "cut") /\ ragged'[s] = (ragged[s] \/ dest[s] = "file")
      <3>1. ragged'[s] => dest[s] = "file" \/ (ragged[s] /\ dest[s] # "file")
        BY <2>3
      <3> QED
        BY <3>1, <2>3, <1>2, CutNext DEF SinkInv
    <2> QED
      BY <1>5, <2>1, <2>2, <2>3
  <1>11. Unharmed(s)'
    <2>1. CASE Fault(e, s) /\ (UNCHANGED out \/ Put(e, s, dest[s], "cut"))
      <3>1. e \in faults'[s]
        BY <2>1, <1>4, FaultAdds
      <3>2. "cut" \in {"line", "cut", "glued"} /\ Unharmed(s)
        BY DEF SinkInv
      <3> QED
        BY <2>1, <3>1, <3>2, <1>2, UnharmedNext
    <2>2. CASE Put(e, s, dest[s], IF glued THEN "glued" ELSE "line")
      <3>1. PICK part \in {"line", "glued"} :
              part = (IF glued THEN "glued" ELSE "line") /\ Put(e, s, dest[s], part)
        BY <2>2
      <3>2. e \notin faults'[s] => dest[s] = Place(s)
        BY <1>2, <1>3, <1>4, FaultAdds DEF SinkInv, Aimed
      <3>3. part = "glued" => CutBefore(s, Len(out[s]))
        BY <3>1 DEF SinkInv, Cut, glued
      <3>4. e \notin faults'[s] => \E i \in DOMAIN out'[s] :
              /\ out'[s][i].event = e /\ out'[s][i].place = Place(s)
              /\ out'[s][i].part = "line" \/ (out'[s][i].part = "glued" /\ CutBefore(s, i - 1)')
        <4> SUFFICES ASSUME e \notin faults'[s]
                     PROVE  \E i \in DOMAIN out'[s] :
                              /\ out'[s][i].event = e /\ out'[s][i].place = Place(s)
                              /\ out'[s][i].part = "line" \/ (out'[s][i].part = "glued" /\ CutBefore(s, i - 1)')
          OBVIOUS
        <4>1. out \in [Sinks -> Seq(Chunk)]
          BY DEF TypeOK
        <4>2. /\ out' \in [Sinks -> Seq(Chunk)]
              /\ Len(out'[s]) = Len(out[s]) + 1 /\ Len(out[s]) \in Nat
          BY <4>1, <3>1, <1>2, PutAppends
        <4>3. out'[s][Len(out[s]) + 1] = [event |-> e, place |-> dest[s], part |-> part]
          BY <4>1, <3>1, <1>2, PutAppends
        <4>4. PICK m \in Nat : m = Len(out[s])
          BY <4>2
        <4>5. m + 1 \in DOMAIN out'[s] /\ (m + 1) - 1 = m /\ m \in 0..Len(out[s])
          BY <4>2, <4>4
        <4>6. part = "glued" => CutBefore(s, m)'
          BY <3>1, <3>3, <4>4, <4>5, <1>2, CutStays DEF CutBefore
        <4>7. part = "glued" => CutBefore(s, (m + 1) - 1)'
          BY <4>5, <4>6
        <4> QED
          BY <4>3, <4>4, <4>5, <4>7, <3>1, <3>2
      <3> QED
        BY <3>1, <3>4, <1>2, <1>3, UnharmedNext DEF SinkInv
    <2> QED
      BY <1>5, <2>1, <2>2
  <1>12. Wired(s)'
    BY <1>2, <1>3, NoWire DEF SinkInv
  <1> QED
    BY <1>7, <1>8, <1>9, <1>10, <1>11, <1>12 DEF SinkInv

LEMMA InvNext ==
  ASSUME IInv, [Next]_vars
  PROVE  IInv'
  <1>1. TypeOK'
    BY TypeNext DEF IInv
  <1>2. ASSUME NEW r \in Sinks PROVE SinkInv(r)'
    <2>1. CASE UNCHANGED vars
      <3>1. Frame(r) /\ TypeOK /\ SinkInv(r)
        BY <2>1 DEF IInv, Frame, vars, siemVars
      <3> QED
        BY <3>1, FrameKeeps
    <2>2. CASE \E e \in Events : Emit(e)
      BY <2>2, InvEmit
    <2>3. CASE \E e \in Events, s \in Sinks : Send(e, s)
      <3>1. PICK e \in Events, s \in Sinks : Send(e, s)
        BY <2>3
      <3>2. TypeOK /\ SinkInv(s) /\ SinkInv(r)
        BY DEF IInv
      <3>3. CASE r = s
        BY <3>1, <3>2, <3>3, InvPrint, InvPost, InvAnswer, InvLock, InvWriter, InvWriteLine
           DEF Send, Webhook, Siem
      <3>4. CASE r # s
        BY <3>1, <3>2, <3>4, SendFrames, FrameKeeps
      <3> QED
        BY <3>3, <3>4
    <2>4. CASE \E e \in Events, s \in Sinks : Receive(e, s)
      <3>1. PICK e \in Events, s \in Sinks : Receive(e, s)
        BY <2>4
      <3>2. TypeOK /\ SinkInv(s) /\ SinkInv(r)
        BY DEF IInv
      <3>3. CASE r = s
        BY <3>1, <3>2, <3>3, InvReceive
      <3>4. CASE r # s
        BY <3>1, <3>2, <3>4, ReceiveFrames, FrameKeeps
      <3> QED
        BY <3>3, <3>4
    <2>5. CASE Exit
      BY <2>5, InvExit
    <2> QED
      BY <2>1, <2>2, <2>3, <2>4, <2>5 DEF Next
  <1> QED
    BY <1>1, <1>2 DEF IInv

THEOREM DispatchInvariant == Spec => []IInv
  <1>1. IInv /\ [Next]_vars => IInv'
    BY InvNext
  <1> QED
    BY <1>1, InvInit, PTL DEF Spec

\* No sink puts an event out twice, for any number of events and sinks: no
\* goroutine that has put its event out writes or posts again.
THEOREM OneCopy == Spec => []AtMostOnce
  <1>1. IInv => AtMostOnce
    BY DEF IInv, SinkInv, Once, AtMostOnce
  <1> QED
    BY <1>1, DispatchInvariant, PTL

\* An event whose sending met no error was put out where it belongs, on its
\* own line or glued to one that was cut short.
THEOREM FailuresAreLocal == Spec => []UnharmedDelivered
  <1>1. IInv => UnharmedDelivered
    BY DEF IInv, SinkInv, Unharmed, CutBefore, UnharmedDelivered
  <1> QED
    BY <1>1, DispatchInvariant, PTL
-----------------------------------------------------------------------------
\* Once the SIEM file is open, what its sink puts out goes there.
THEOREM FileStays == Spec => FileForGood
  <1> DEFINE ToFile(r) == file[r] = "file" =>
        \A i \in DOMAIN out'[r] \ DOMAIN out[r] : out'[r][i].place = "file"
  <1>1. IInv /\ [Next]_vars => [\A r \in Sinks : ToFile(r)]_vars
    <2> SUFFICES ASSUME IInv, Next, NEW r \in Sinks PROVE ToFile(r)
      OBVIOUS
    <2>1. CASE out'[r] = out[r]
      BY <2>1
    <2>2. CASE \E e \in Events : Emit(e)
      BY <2>2, <2>1 DEF Emit
    <2>3. CASE Exit
      BY <2>3, <2>1 DEF Exit
    <2>4. CASE \E e \in Events, s \in Sinks : Send(e, s)
      <3>1. PICK e \in Events, s \in Sinks : Send(e, s)
        BY <2>4
      <3>2. TypeOK /\ SinkInv(s)
        BY DEF IInv
      <3>3. CASE r # s
        BY <3>1, <3>2, <3>3, <2>1, SendFrames DEF Frame
      <3>4. CASE r = s /\ file[s] = "file"
        <4>1. Conf[s].type = "siem"
          BY <3>2, <3>4 DEF SinkInv, Kind
        <4>2. ~Println(e, s)
          BY <4>1 DEF Println, OfType
        <4>3. CASE WriteLine(e, s)
          <5>1. dest[s] = "file"
            BY <3>2, <3>4, <4>3 DEF WriteLine, At, SinkInv, Aimed
          <5>2. UNCHANGED out \/ \E part \in {"line", "cut", "glued"} : Put(e, s, "file", part)
            BY <4>3, <5>1 DEF WriteLine
          <5>3. "file" \in Places
            BY DEF Places
          <5>4. ASSUME NEW part \in {"line", "cut", "glued"}, Put(e, s, "file", part)
                PROVE  ToFile(s)
            <6>1. \A i \in DOMAIN out'[s] \ DOMAIN out[s] :
                    out'[s][i] = [event |-> e, place |-> "file", part |-> part]
              BY <5>3, <5>4, <3>2, PutAdds
            <6> QED
              BY <6>1
          <5> QED
            BY <5>2, <5>4, <3>4
        <4>4. CASE UNCHANGED out
          BY <4>4
        <4> QED
          BY <3>1, <4>2, <4>3, <4>4 DEF Send, Webhook, Siem, Post, Answer, Expire, Lock, Writer
      <3>5. CASE r = s /\ file[s] # "file"
        BY <3>5
      <3> QED
        BY <3>3, <3>4, <3>5
    <2>5. CASE \E e \in Events, s \in Sinks : Receive(e, s)
      <3>1. PICK e \in Events, s \in Sinks : Receive(e, s)
        BY <2>5
      <3>2. TypeOK /\ SinkInv(s)
        BY DEF IInv
      <3>3. CASE r # s
        BY <3>1, <3>2, <3>3, <2>1, ReceiveFrames DEF Frame
      <3>4. CASE r = s
        BY <3>1, <3>2, <3>4 DEF Receive, SinkInv, Wired, Kind
      <3> QED
        BY <3>3, <3>4
    <2> QED
      BY <2>2, <2>3, <2>4, <2>5 DEF Next
  <1>2. IInv /\ [Next]_vars => [\A s \in Sinks : file[s] = "file" =>
          \A i \in DOMAIN out'[s] \ DOMAIN out[s] : out'[s][i].place = "file"]_vars
    BY <1>1
  <1> QED
    BY <1>2, DispatchInvariant, PTL DEF Spec, FileForGood
-----------------------------------------------------------------------------
\* How the abstract dispatcher sees a step of one goroutine: a first chunk of
\* an event makes one copy, and leaves the others' copies as they are.
NCopies(s, e) == Cardinality(Copies(s, e))

LEMMA CopiesAfter ==
  ASSUME TypeOK, NEW e \in Events, NEW s \in Sinks, Copies(s, e) = {},
         NEW place \in Places, NEW part \in {"line", "cut", "glued"}, Put(e, s, place, part)
  PROVE  /\ NCopies(s, e) = 0
         /\ NCopies(s, e)' = 1
         /\ \A f \in Events, r \in Sinks : f # e \/ r # s => NCopies(r, f)' = NCopies(r, f)
  <1>1. out \in [Sinks -> Seq(Chunk)]
    BY DEF TypeOK
  <1>2. \A i \in DOMAIN out[s] : i \in DOMAIN out'[s] /\ out'[s][i] = out[s][i]
    BY PutKeeps
  <1>3. \A i \in DOMAIN out'[s] : i \notin DOMAIN out[s] => out'[s][i].event = e
    <2>1. \A i \in DOMAIN out'[s] \ DOMAIN out[s] :
            out'[s][i] = [event |-> e, place |-> place, part |-> part]
      BY PutAdds
    <2> QED
      BY <2>1
  <1>4. Copies(s, e)' = {Len(out[s]) + 1}
    <2>a. out' \in [Sinks -> Seq(Chunk)] /\ Len(out'[s]) = Len(out[s]) + 1
      BY <1>1, PutAppends
    <2>b. Len(out[s]) \in Nat /\ DOMAIN out[s] = 1..Len(out[s])
      BY OutEvents
    <2>1. Len(out'[s]) = Len(out[s]) + 1 /\ Len(out[s]) \in Nat /\ DOMAIN out[s] = 1..Len(out[s])
      BY <2>a, <2>b
    <2>2. out'[s] \in Seq(Chunk)
      BY <2>a
    <2>3. \A i \in DOMAIN out'[s] : i \notin DOMAIN out[s] <=> i = Len(out[s]) + 1
      BY <2>1, <2>2
    <2>4. Len(out[s]) + 1 \in DOMAIN out'[s]
      BY <2>1, <2>2
    <2>5. \A i \in DOMAIN out[s] : out[s][i].event # e
      BY DEF Copies
    <2>6. \A i \in DOMAIN out'[s] : out'[s][i].event = e <=> i = Len(out[s]) + 1
      BY <2>3, <2>5, <1>2, <1>3
    <2> QED
      BY <2>4, <2>6 DEF Copies
  <1>5. ASSUME NEW f \in Events, NEW r \in Sinks, r # s
        PROVE  NCopies(r, f)' = NCopies(r, f)
    <2>1. out'[r] = out[r]
      BY <1>1, <1>5, PutAppends
    <2> QED
      BY <2>1 DEF NCopies, Copies
  <1>6. ASSUME NEW f \in Events, f # e
        PROVE  NCopies(s, f)' = NCopies(s, f)
    <2>1. \A i : i \in Copies(s, f)' <=> i \in Copies(s, f)
      BY <1>2, <1>3, <1>6 DEF Copies
    <2>2. Copies(s, f)' = Copies(s, f)
      BY <2>1 DEF Copies
    <2> QED
      BY <2>2 DEF NCopies
  <1>7. NCopies(s, e)' = 1
    BY <1>4, FS_Singleton DEF NCopies
  <1>8. NCopies(s, e) = 0
    BY FS_EmptySet DEF NCopies
  <1> QED
    BY <1>5, <1>6, <1>7, <1>8

LEMMA RefinesInit == Init => Delivery!Init
  <1> SUFFICES ASSUME Init PROVE Delivery!Init
    OBVIOUS
  <1>1. \A e \in Events, s \in Sinks : Progress(job[e][s]) = "none"
    BY DEF Init, Progress
  <1>2. \A e \in Events, s \in Sinks : Copies(s, e) = {}
    BY DEF Init, Copies
  <1>3. \A e \in Events, s \in Sinks : Cardinality(Copies(s, e)) = 0
    BY <1>2, FS_EmptySet
  <1> QED
    BY <1>1, <1>3 DEF Init, Delivery!Init

LEMMA RefinesEmit ==
  ASSUME TypeOK, NEW e \in Events, Emit(e)
  PROVE  Delivery!Emit(e)
  <1>1. running /\ \A s \in Sinks : Progress(job[e][s]) = "none"
    BY DEF Emit, Progress
  <1>2. \A f \in Events, s \in Sinks :
          Progress(job[f][s])' = IF f = e THEN "pending" ELSE Progress(job[f][s])
    BY DEF Emit, Progress, TypeOK
  <1>3. UNCHANGED <<out, running>>
    BY DEF Emit
  <1> DEFINE try == [f \in Events |-> [s \in Sinks |-> Progress(job[f][s])]]
  <1>4. try' = [try EXCEPT ![e] = [s \in Sinks |-> "pending"]]
    BY <1>2
  <1>5. \A f \in Events, s \in Sinks : Copies(s, f)' = Copies(s, f)
    BY <1>3 DEF Copies
  <1> QED
    BY <1>1, <1>3, <1>4, <1>5 DEF Delivery!Emit

LEMMA RefinesExit ==
  ASSUME TypeOK, Exit
  PROVE  Delivery!Exit
  <1>1. \A f \in Events, s \in Sinks :
          Progress(job[f][s])' = IF Progress(job[f][s]) = "pending" THEN "lost" ELSE Progress(job[f][s])
    BY DEF Exit, Progress, TypeOK, Ended
  <1>2. running /\ running' = FALSE /\ UNCHANGED out
    BY DEF Exit
  <1>3. \A f \in Events, s \in Sinks : Copies(s, f)' = Copies(s, f)
    BY <1>2 DEF Copies
  <1> QED
    BY <1>1, <1>2, <1>3 DEF Delivery!Exit

\* A step of a goroutine whose try goes on or ends, with a copy or without.
Counts == [e \in Events |-> [s \in Sinks |-> NCopies(s, e)]]

CopiesGo(e, s) ==
  \/ UNCHANGED out
  \/ /\ Copies(s, e) = {}
     /\ \E place \in Places, part \in {"line", "cut", "glued"} : Put(e, s, place, part)

LEMMA CountsOne ==
  ASSUME NEW e \in Events, NEW s \in Sinks, NCopies(s, e) = 0, NCopies(s, e)' = 1,
         \A f \in Events, r \in Sinks : f # e \/ r # s => NCopies(r, f)' = NCopies(r, f)
  PROVE  Counts[e][s] = 0 /\ Counts' = [Counts EXCEPT ![e][s] = 1]
  <1> DEFINE after == [f \in Events |-> [r \in Sinks |-> IF f = e /\ r = s THEN 1 ELSE NCopies(r, f)]]
  <1>1. \A f \in Events, r \in Sinks :
          NCopies(r, f)' = IF f = e /\ r = s THEN 1 ELSE NCopies(r, f)
    OBVIOUS
  <1>2. Counts' = [f \in Events |-> [r \in Sinks |-> NCopies(r, f)']]
    BY DEF Counts
  <1>3. Counts' = after
    BY <1>1, <1>2
  <1>4. [Counts EXCEPT ![e][s] = 1] = after
    BY DEF Counts
  <1>5. Counts[e][s] = 0
    BY DEF Counts
  <1> QED
    BY <1>3, <1>4, <1>5

LEMMA RefinesCopies ==
  ASSUME TypeOK, NEW e \in Events, NEW s \in Sinks, CopiesGo(e, s)
  PROVE  \/ UNCHANGED Counts
         \/ Counts[e][s] = 0 /\ Counts' = [Counts EXCEPT ![e][s] = 1]
  <1>1. CASE UNCHANGED out
    <2>1. \A f \in Events, r \in Sinks : NCopies(r, f)' = NCopies(r, f)
      BY <1>1 DEF NCopies, Copies
    <2> QED
      BY <2>1 DEF Counts
  <1>2. CASE Copies(s, e) = {} /\ \E place \in Places, part \in {"line", "cut", "glued"} :
                                    Put(e, s, place, part)
    <2>1. /\ NCopies(s, e) = 0
          /\ NCopies(s, e)' = 1
          /\ \A f \in Events, r \in Sinks : f # e \/ r # s => NCopies(r, f)' = NCopies(r, f)
      BY <1>2, CopiesAfter
    <2> QED
      BY <2>1, CountsOne
  <1> QED
    BY <1>1, <1>2 DEF CopiesGo

LEMMA CountsMap ==
  /\ Counts = [e \in Events |-> [s \in Sinks |-> Cardinality(Copies(s, e))]]
  /\ Counts' = [e \in Events |-> [s \in Sinks |-> Cardinality(Copies(s, e))]]'
  BY DEF Counts, NCopies

LEMMA RefinesTry ==
  ASSUME TypeOK, NEW e \in Events, NEW s \in Sinks, NEW step \in Step,
         Go(e, s, step) \/ (step = job[e][s] /\ UNCHANGED job),
         running, running' = running, Progress(job[e][s]) = "pending",
         Progress(step) \in {"pending", "sent", "failed"}, CopiesGo(e, s)
  PROVE  Delivery!Try(e, s)
  <1> DEFINE try == [f \in Events |-> [r \in Sinks |-> Progress(job[f][r])]]
  <1>1. \A f \in Events, r \in Sinks :
          Progress(job[f][r])' = IF f = e /\ r = s THEN Progress(step) ELSE Progress(job[f][r])
    <2>1. CASE Go(e, s, step)
      BY <2>1, JobGo DEF Progress, TypeOK, Step
    <2>2. CASE step = job[e][s] /\ UNCHANGED job
      BY <2>2 DEF Progress
    <2> QED
      BY <2>1, <2>2
  <1>2. try' = [try EXCEPT ![e][s] = Progress(step)]
    BY <1>1
  <1>3. try[e][s] = "pending"
    OBVIOUS
  <1>4. \/ UNCHANGED Counts
        \/ Counts[e][s] = 0 /\ Counts' = [Counts EXCEPT ![e][s] = 1]
    BY RefinesCopies
  <1> HIDE DEF try
  <1> QED
    BY <1>2, <1>3, <1>4, CountsMap DEF Delivery!Try, try

LEMMA RefinesSend ==
  ASSUME IInv, NEW e \in Events, NEW s \in Sinks, Send(e, s)
  PROVE  Delivery!Try(e, s)
  <1>1. TypeOK /\ SinkInv(s)
    BY DEF IInv
  <1>2. running /\ running' = running
    BY DEF Send, Println, Webhook, Post, Answer, Expire, Siem, Lock, Writer, WriteLine, At
  <1>3. job[e][s] \in {"started", "locked", "ready", "posted"}
    BY DEF Send, Println, Webhook, Post, Answer, Expire, Siem, Lock, Writer, WriteLine, At
  <1>4. Progress(job[e][s]) = "pending"
    BY <1>3 DEF Progress
  <1>5. job[e][s] # "posted" => Copies(s, e) = {}
    BY <1>1, <1>3, NotYet DEF SinkInv, Out, Copies
  <1>6. ASSUME NEW step \in {"locked", "ready", "posted", "done", "failed"}
        PROVE  step \in Step /\ Progress(step) \in {"pending", "sent", "failed"}
    BY DEF Step, Ended, Progress
  <1>7. CASE Println(e, s)
    <2>1. Go(e, s, "done") /\ Copies(s, e) = {}
      BY <1>5, <1>7 DEF Println, At
    <2>2. CopiesGo(e, s)
      BY <1>7, <2>1 DEF Println, CopiesGo, Places
    <2> QED
      BY <1>1, <1>2, <1>4, <1>6, <2>1, <2>2, RefinesTry
  <1>8. CASE WriteLine(e, s)
    <2>1. PICK step \in {"done", "failed"} : Go(e, s, step)
      BY <1>8 DEF WriteLine
    <2>2. UNCHANGED out \/ \E part \in {"line", "cut", "glued"} : Put(e, s, dest[s], part)
      BY <1>8 DEF WriteLine
    <2>3. dest[s] \in Places /\ Copies(s, e) = {}
      BY <1>1, <1>5, <1>8 DEF WriteLine, At, TypeOK
    <2>4. CopiesGo(e, s)
      BY <2>2, <2>3 DEF CopiesGo
    <2> QED
      BY <1>1, <1>2, <1>4, <1>6, <2>1, <2>4, RefinesTry
  <1>9. CASE UNCHANGED out /\ \E step \in {"locked", "ready", "posted", "done", "failed"} : Go(e, s, step)
    <2>1. CopiesGo(e, s)
      BY <1>9 DEF CopiesGo
    <2> QED
      BY <1>1, <1>2, <1>4, <1>6, <1>9, <2>1, RefinesTry
  <1> QED
    BY <1>7, <1>8, <1>9 DEF Send, Webhook, Siem, Post, Answer, Expire, Lock, Writer

\* A POST that arrives: its goroutine waits for the answer, or has given up, or
\* went with the process.
LEMMA RefinesReceive ==
  ASSUME IInv, NEW e \in Events, NEW s \in Sinks, Receive(e, s)
  PROVE  Delivery!Try(e, s) \/ Delivery!Late(e, s)
  <1>1. TypeOK /\ SinkInv(s)
    BY DEF IInv
  <1>2. /\ Conf[s].type = "webhook" /\ job[e][s] \in {"posted", "failed", "lost"}
        /\ Copies(s, e) = {}
    BY <1>1 DEF Receive, SinkInv, Wired, Copies
  <1>3. UNCHANGED <<job, running>> /\ Put(e, s, "server", "line") /\ "server" \in Places
    BY DEF Receive, Places
  <1>4. CASE job[e][s] = "posted"
    <2>1. running /\ Progress(job[e][s]) = "pending" /\ job[e][s] \in Step
      BY <1>1, <1>4 DEF SinkInv, Kind, Progress, Step
    <2>2. CopiesGo(e, s)
      BY <1>2, <1>3 DEF CopiesGo
    <2> QED
      BY <1>1, <1>3, <2>1, <2>2, RefinesTry
  <1>5. CASE job[e][s] \in {"failed", "lost"}
    <2>1. Progress(job[e][s]) \in {"failed", "lost"} /\ s \in OfType("webhook")
      BY <1>2, <1>5 DEF Progress, OfType
    <2>2. /\ NCopies(s, e) = 0
          /\ NCopies(s, e)' = 1
          /\ \A f \in Events, r \in Sinks : f # e \/ r # s => NCopies(r, f)' = NCopies(r, f)
      BY <1>1, <1>2, <1>3, CopiesAfter
    <2>3. Counts[e][s] = 0 /\ Counts' = [Counts EXCEPT ![e][s] = 1]
      BY <2>2, CountsOne
    <2> DEFINE try == [f \in Events |-> [r \in Sinks |-> Progress(job[f][r])]]
    <2>4. try[e][s] \in {"failed", "lost"} /\ try' = try
      BY <1>3, <2>1
    <2> HIDE DEF try
    <2> QED
      BY <1>3, <2>1, <2>3, <2>4, CountsMap DEF Delivery!Late, try
  <1> QED
    BY <1>2, <1>4, <1>5

\* The dispatcher and its sinks deliver as AlertDelivery says: an event is
\* tried once by each sink, and put out by it once or not at all; after the
\* result only a webhook's server may still get it.
THEOREM DispatchImplementsDelivery == Spec => DeliversOnce
  <1>1. IInv /\ [Next]_vars => [Delivery!Next]_(Delivery!vars)
    <2> SUFFICES ASSUME IInv, [Next]_vars
                 PROVE  Delivery!Next \/ UNCHANGED Delivery!vars
      OBVIOUS
    <2>1. TypeOK
      BY DEF IInv
    <2>2. CASE UNCHANGED vars
      BY <2>2 DEF vars, siemVars, Delivery!vars, Progress, Copies
    <2>3. CASE \E e \in Events : Emit(e)
      BY <2>1, <2>3, RefinesEmit DEF Delivery!Next
    <2>4. CASE \E e \in Events, s \in Sinks : Send(e, s)
      BY <2>4, RefinesSend DEF Delivery!Next
    <2>5. CASE \E e \in Events, s \in Sinks : Receive(e, s)
      BY <2>5, RefinesReceive DEF Delivery!Next
    <2>6. CASE Exit
      BY <2>1, <2>6, RefinesExit DEF Delivery!Next
    <2> QED
      BY <2>2, <2>3, <2>4, <2>5, <2>6 DEF Next
  <1> QED
    BY <1>1, RefinesInit, DispatchInvariant, PTL DEF Spec, DeliversOnce, Delivery!Spec
=============================================================================
