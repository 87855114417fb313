------------------------ MODULE ResponseCacheProofs ------------------------
(***************************************************************************)
(* The cache for any number of callers and keys and any faults: its types, *)
(* that one flight at most runs per key, and that nobody waits for none;   *)
(* and, when every failed read means that the file is not there, that it   *)
(* generates a key once and implements the write-once store.               *)
(***************************************************************************)
EXTENDS ResponseCache, TLAPS

\* What a caller carries at each step.
CallerOK ==
  \A c \in Callers :
    /\ pc[c] = "idle" <=> key[c] = None
    /\ pc[c] = "done" <=> got[c] # None
    /\ pc[c] \in {"mkdir", "open", "write"} => text[c] \in Texts
    /\ pc[c] = "finish" => text[c] # None

\* The caller in flight is the one its key's entry names.
FlightOK ==
  \A c \in Callers : InFlight(c) => flight[key[c]] = c

FlightInv == TypeOK /\ CallerOK /\ FlightOK
-----------------------------------------------------------------------------
LEMMA FlightInit == Init => FlightInv
BY ValueAssumption DEF Init, MemInit, FlightInv, TypeOK, CallerOK, FlightOK, InFlight, Files, Steps

LEMMA GetFlight ==
  ASSUME FlightInv, NEW c \in Callers, NEW k \in Keys, Get(c, k)
  PROVE  FlightInv'
<1> USE ValueAssumption DEF Get, Goto, FlightInv
<1>1. TypeOK'
  BY DEF TypeOK, Steps
<1>2. CallerOK'
  BY DEF TypeOK, CallerOK
<1>3. FlightOK'
  BY DEF TypeOK, FlightOK, InFlight
<1> QED BY <1>1, <1>2, <1>3

LEMMA LookupFlight ==
  ASSUME FlightInv, NEW c \in Callers, Lookup(c)
  PROVE  FlightInv'
<1> USE ValueAssumption DEF Lookup, DiskHit, DiskMiss, Goto, FlightInv, countVars
<1>0. key[c] \in Keys
  BY DEF TypeOK, CallerOK
<1>1. TypeOK'
  BY <1>0 DEF TypeOK, Steps, Files
<1>2. CallerOK'
  BY <1>0 DEF TypeOK, CallerOK, Files
<1>3. FlightOK'
  BY DEF TypeOK, FlightOK, InFlight
<1> QED BY <1>1, <1>2, <1>3

LEMMA JoinFlight ==
  ASSUME FlightInv, NEW c \in Callers, Join(c)
  PROVE  FlightInv'
<1> USE ValueAssumption DEF Join, Lead, Follow, Goto, FlightInv, countVars
<1>0. key[c] \in Keys
  BY DEF TypeOK, CallerOK
<1>1. TypeOK'
  BY <1>0 DEF TypeOK, Steps
<1>2. CallerOK'
  BY DEF TypeOK, CallerOK
<1>3. FlightOK'
  BY <1>0 DEF TypeOK, CallerOK, FlightOK, InFlight
<1> QED BY <1>1, <1>2, <1>3

LEMMA RecheckFlight ==
  ASSUME FlightInv, NEW c \in Callers, Recheck(c)
  PROVE  FlightInv'
<1> USE ValueAssumption DEF Recheck, RecheckHit, RecheckMiss, Goto, FlightInv, countVars
<1>0. key[c] \in Keys
  BY DEF TypeOK, CallerOK
<1>1. TypeOK'
  BY <1>0 DEF TypeOK, Steps, Files
<1>2. CallerOK'
  BY <1>0 DEF TypeOK, CallerOK, Files
<1>3. FlightOK'
  BY DEF TypeOK, FlightOK, InFlight
<1> QED BY <1>1, <1>2, <1>3

LEMMA ProduceFlight ==
  ASSUME FlightInv, NEW c \in Callers, Produce(c)
  PROVE  FlightInv'
<1> USE ValueAssumption
    DEF Produce, Generate, Mkdir, Open, Write, Fail, Goto, FlightInv, countVars
<1>0. key[c] \in Keys
  BY DEF TypeOK, CallerOK
<1>1. TypeOK'
  BY <1>0 DEF TypeOK, CallerOK, Steps, Files, Texts
<1>2. CallerOK'
  BY <1>0 DEF TypeOK, CallerOK, Texts
<1>3. FlightOK'
  BY DEF TypeOK, FlightOK, InFlight
<1> QED BY <1>1, <1>2, <1>3

LEMMA FinishFlight ==
  ASSUME FlightInv, NEW c \in Callers, Finish(c)
  PROVE  FlightInv'
<1> USE ValueAssumption DEF Finish, FlightInv, countVars
<1>0. key[c] \in Keys /\ text[c] # None
  BY DEF TypeOK, CallerOK
<1>1. TypeOK'
  BY <1>0 DEF TypeOK, Steps
<1>2. CallerOK'
  BY <1>0 DEF TypeOK, CallerOK
<1>3. FlightOK'
  BY <1>0 DEF TypeOK, FlightOK, InFlight
<1> QED BY <1>1, <1>2, <1>3

LEMMA ReturnFlight ==
  ASSUME FlightInv, NEW c \in Callers, Return(c)
  PROVE  FlightInv'
<1> USE ValueAssumption DEF Return, Goto, FlightInv, countVars
<1>1. TypeOK'
  BY DEF TypeOK, Steps
<1>2. CallerOK'
  BY DEF TypeOK, CallerOK
<1>3. FlightOK'
  BY DEF TypeOK, FlightOK, InFlight
<1> QED BY <1>1, <1>2, <1>3

LEMMA CrashFlight ==
  ASSUME FlightInv, Crash
  PROVE  FlightInv'
BY ValueAssumption DEF Crash, FlightInv, TypeOK, CallerOK, FlightOK, InFlight, Steps

LEMMA FlightStep == FlightInv /\ [Next]_vars => FlightInv'
<1> SUFFICES ASSUME FlightInv, [Next]_vars PROVE FlightInv'
  OBVIOUS
<1>1. CASE Next
  BY <1>1, GetFlight, LookupFlight, JoinFlight, RecheckFlight, ProduceFlight,
     FinishFlight, ReturnFlight, CrashFlight DEF Next, Step
<1>2. CASE UNCHANGED vars
  BY <1>2 DEF vars, memVars, countVars, FlightInv, TypeOK, CallerOK, FlightOK, InFlight
<1> QED BY <1>1, <1>2

LEMMA FlightInvariant == Spec => []FlightInv
BY FlightInit, FlightStep, PTL DEF Spec

\* Every variable keeps its type in every behaviour of the cache.
THEOREM CacheTypeCorrect == Spec => []TypeOK
BY FlightInvariant, PTL DEF FlightInv

\* Whatever fails, one caller at most works on a key: singleflight's promise
\* as cache.go uses it.
THEOREM OneFlightPerKey == Spec => []OneFlight
<1>1. FlightInv => OneFlight
  BY DEF FlightInv, FlightOK, OneFlight
<1> QED BY <1>1, FlightInvariant, PTL

\* The entry of a key names a caller in flight for it, and who waits has one.
Led ==
  /\ \A k \in Keys : flight[k] # None => InFlight(flight[k]) /\ key[flight[k]] = k
  /\ \A c \in Callers : pc[c] = "waiting" => flight[key[c]] # None

\* A caller that stays in flight, if it is, and does not begin to wait.
LEMMA LedMoves ==
  ASSUME FlightInv, Led, NEW c \in Callers, UNCHANGED flight,
         \A d \in Callers \ {c} : pc'[d] = pc[d] /\ key'[d] = key[d],
         InFlight(c) => InFlight(c)' /\ key'[c] = key[c],
         pc'[c] # "waiting"
  PROVE  Led'
<1>1. ASSUME NEW k \in Keys, flight'[k] # None
      PROVE  (InFlight(flight[k]) /\ key[flight[k]] = k)'
  <2>1. PICK d \in Callers : d = flight[k]
    BY <1>1 DEF FlightInv, TypeOK
  <2>2. InFlight(d) /\ key[d] = k
    BY <1>1, <2>1 DEF Led
  <2>3. InFlight(d)' /\ key'[d] = k
    BY <2>2 DEF InFlight
  <2> QED BY <2>1, <2>3 DEF InFlight
<1>2. ASSUME NEW d \in Callers, pc'[d] = "waiting"
      PROVE  flight'[key'[d]] # None
  BY <1>2 DEF Led
<1> QED BY <1>1, <1>2 DEF Led

LEMMA LedJoin ==
  ASSUME FlightInv, Led, NEW c \in Callers, Join(c)
  PROVE  Led'
<1>1. /\ key[c] \in Keys /\ UNCHANGED key /\ pc[c] = "join"
      /\ flight \in [Keys -> Callers \cup {None}] /\ pc \in [Callers -> Steps]
      /\ None \notin Callers
  BY ValueAssumption DEF Join, Lead, Follow, FlightInv, TypeOK, CallerOK
<1>2. \A d \in Callers : InFlight(d) => d # c
  BY <1>1 DEF InFlight
<1>3. CASE Lead(c)
  <2>1. /\ flight' = [flight EXCEPT ![key[c]] = c] /\ pc' = [pc EXCEPT ![c] = "recheck"]
    BY <1>3 DEF Lead, Goto
  <2>2. ASSUME NEW k \in Keys, flight'[k] # None
        PROVE  (InFlight(flight[k]) /\ key[flight[k]] = k)'
    <3>1. CASE k = key[c]
      BY <1>1, <2>1, <3>1 DEF InFlight
    <3>2. CASE k # key[c]
      <4>1. flight'[k] = flight[k] /\ flight[k] \in Callers
        BY <1>1, <2>1, <2>2, <3>2
      <4>2. InFlight(flight[k]) /\ key[flight[k]] = k
        BY <2>2, <4>1 DEF Led
      <4> QED BY <1>1, <1>2, <2>1, <4>1, <4>2 DEF InFlight
    <3> QED BY <3>1, <3>2
  <2>3. ASSUME NEW d \in Callers, pc'[d] = "waiting"
        PROVE  flight'[key'[d]] # None
    <3>1. pc[d] = "waiting" /\ key[d] \in Keys
      BY <1>1, <2>1, <2>3 DEF FlightInv, TypeOK, CallerOK
    <3> QED BY <1>1, <2>1, <3>1 DEF Led
  <2> QED BY <2>2, <2>3 DEF Led
<1>4. CASE Follow(c)
  <2>1. UNCHANGED flight /\ flight[key[c]] # None /\ pc' = [pc EXCEPT ![c] = "waiting"]
    BY <1>4 DEF Follow, Goto
  <2>2. \A k \in Keys : flight[k] # None => flight[k] \in Callers /\ flight[k] # c
    BY <1>1, <1>2 DEF Led
  <2> QED BY <1>1, <2>1, <2>2 DEF Led, InFlight
<1> QED BY <1>3, <1>4 DEF Join

\* Who waits for a flight leaves with it.
LEMMA LedFinish ==
  ASSUME FlightInv, Led, NEW c \in Callers, Finish(c)
  PROVE  Led'
<1>1. /\ key[c] \in Keys /\ UNCHANGED key /\ InFlight(c)
      /\ flight \in [Keys -> Callers \cup {None}] /\ pc \in [Callers -> Steps]
  BY DEF Finish, FlightInv, TypeOK, CallerOK, InFlight
<1>2. /\ flight' = [flight EXCEPT ![key[c]] = None]
      /\ \A d \in Callers : pc'[d] = IF d = c \/ (pc[d] = "waiting" /\ key[d] = key[c])
                                    THEN "done" ELSE pc[d]
  BY DEF Finish
<1>3. ASSUME NEW k \in Keys, flight'[k] # None
      PROVE  (InFlight(flight[k]) /\ key[flight[k]] = k)'
  <2>1. k # key[c] /\ flight'[k] = flight[k] /\ flight[k] \in Callers
    BY <1>1, <1>2, <1>3
  <2>2. PICK d \in Callers : d = flight[k]
    BY <2>1
  <2>3. InFlight(d) /\ key[d] = k /\ d # c
    BY <1>3, <2>1, <2>2 DEF Led
  <2>4. pc'[d] = pc[d]
    BY <1>2, <2>3 DEF InFlight
  <2> QED BY <1>1, <2>1, <2>2, <2>3, <2>4 DEF InFlight
<1>4. ASSUME NEW d \in Callers, pc'[d] = "waiting"
      PROVE  flight'[key'[d]] # None
  <2>1. pc[d] = "waiting" /\ key[d] # key[c] /\ key[d] \in Keys
    BY <1>2, <1>4 DEF FlightInv, TypeOK, CallerOK
  <2> QED BY <1>1, <1>2, <2>1 DEF Led
<1> QED BY <1>3, <1>4 DEF Led

LEMMA LedStep == FlightInv /\ Led /\ [Next]_vars => Led'
<1> SUFFICES ASSUME FlightInv, Led, [Next]_vars PROVE Led'
  OBVIOUS
<1>1. pc \in [Callers -> Steps] /\ key \in [Callers -> Keys \cup {None}]
  BY DEF FlightInv, TypeOK
<1>2. ASSUME NEW c \in Callers, (\E k \in Keys : Get(c, k)) \/ Lookup(c) \/ Return(c)
      PROVE  Led'
  <2>1. UNCHANGED flight /\ ~InFlight(c) /\ pc'[c] # "waiting"
    BY <1>1, <1>2 DEF Get, Lookup, DiskHit, DiskMiss, Return, Goto, InFlight
  <2>2. \A d \in Callers \ {c} : pc'[d] = pc[d] /\ key'[d] = key[d]
    BY <1>1, <1>2 DEF Get, Lookup, DiskHit, DiskMiss, Return, Goto
  <2> QED BY <2>1, <2>2, LedMoves
<1>3. ASSUME NEW c \in Callers, Recheck(c) \/ Produce(c)
      PROVE  Led'
  <2>1. UNCHANGED <<flight, key>>
    BY <1>3 DEF Recheck, RecheckHit, RecheckMiss, Produce, Generate, Mkdir, Open, Write, Fail
  <2>2. \E step \in {"finish", "generate", "mkdir", "open", "write"} : Goto(c, step)
    BY <1>3 DEF Recheck, RecheckHit, RecheckMiss, Produce, Generate, Mkdir, Open, Write, Fail
  <2>3. InFlight(c)' /\ pc'[c] # "waiting"
    BY <1>1, <2>2 DEF InFlight, Goto
  <2>4. \A d \in Callers \ {c} : pc'[d] = pc[d]
    BY <1>1, <2>2 DEF Goto
  <2> QED BY <2>1, <2>3, <2>4, LedMoves
<1>4. CASE Crash
  BY <1>4 DEF Crash, Led
<1>5. CASE UNCHANGED vars
  BY <1>5 DEF vars, memVars, Led, InFlight
<1> QED BY <1>2, <1>3, <1>4, <1>5, LedJoin, LedFinish DEF Next, Step

\* No flight, however it ends, leaves somebody waiting: the safety that the return
\* of every Get rests on.
THEOREM WaitersAreLed == Spec => []NobodyAbandoned
<1>1. Init => Led
  BY DEF Init, MemInit, Led
<1>2. FlightInv /\ Led => NobodyAbandoned
  <2> SUFFICES ASSUME FlightInv, Led, NEW c \in Callers, pc[c] = "waiting"
               PROVE  \E d \in Callers : InFlight(d) /\ key[d] = key[c]
    BY DEF NobodyAbandoned
  <2>1. key[c] \in Keys /\ flight[key[c]] # None
    BY DEF FlightInv, TypeOK, CallerOK, Led
  <2>2. flight[key[c]] \in Callers
    BY <2>1 DEF FlightInv, TypeOK
  <2> QED BY <2>1, <2>2 DEF Led
<1> QED BY <1>1, <1>2, FlightInvariant, LedStep, PTL DEF Spec
-----------------------------------------------------------------------------
\* What each caller in flight knows of its file, and the debt of each key: an
\* unfinished or lost generation was paid for by a failure or a crash.
Working(c) == pc[c] \in {"generate", "mkdir", "open", "write"}

DiskOK ==
  \A c \in Callers :
    /\ pc[c] \in {"generate", "mkdir", "open"} => disk[key[c]] = Absent
    /\ pc[c] = "write" => disk[key[c]] = Torn
    /\ pc[c] = "finish" /\ text[c] # Error => text[c] = disk[key[c]] /\ disk[key[c]] # Absent

CallsOK ==
  \A k \in Keys :
    /\ calls[k] <= 1 + failed[k] + crashes
    /\ disk[k] = Absent /\ (\A c \in Callers : Working(c) => key[c] # k)
         => calls[k] <= failed[k] + crashes

CacheInv == FlightInv /\ DiskOK /\ CallsOK

\* A failed read means that the file is not there.
TrueMisses == "read" \notin Faults

\* Nobody but the caller in flight touches the key's file.
LEMMA Alone ==
  ASSUME FlightInv, NEW c \in Callers, NEW d \in Callers,
         InFlight(c), InFlight(d), key[c] = key[d]
  PROVE  c = d
BY DEF FlightInv, FlightOK

LEMMA CacheInit == Init => CacheInv
BY FlightInit DEF Init, MemInit, CacheInv, DiskOK, CallsOK

\* Steps that touch neither files nor counts, and start no work.
LEMMA CalmInv ==
  ASSUME CacheInv, UNCHANGED <<disk, generated, calls, failed, crashes>>,
         \A c \in Callers : pc'[c] \in {"generate", "mkdir", "open", "write", "finish"} =>
           pc'[c] = pc[c] /\ key'[c] = key[c] /\ text'[c] = text[c],
         \A c \in Callers : Working(c) => pc'[c] = pc[c] /\ key'[c] = key[c]
  PROVE  DiskOK' /\ CallsOK'
<1>1. DiskOK'
  BY DEF CacheInv, DiskOK
<1>2. CallsOK'
  BY DEF CacheInv, CallsOK, Working
<1> QED BY <1>1, <1>2

LEMMA GetCache ==
  ASSUME CacheInv, NEW c \in Callers, NEW k \in Keys, Get(c, k)
  PROVE  DiskOK' /\ CallsOK'
BY CalmInv DEF Get, Goto, CacheInv, FlightInv, TypeOK, Working

LEMMA LookupCache ==
  ASSUME CacheInv, NEW c \in Callers, Lookup(c)
  PROVE  DiskOK' /\ CallsOK'
BY CalmInv DEF Lookup, DiskHit, DiskMiss, Goto, CacheInv, FlightInv, TypeOK, Working, countVars

LEMMA JoinCache ==
  ASSUME CacheInv, NEW c \in Callers, Join(c)
  PROVE  DiskOK' /\ CallsOK'
BY CalmInv DEF Join, Lead, Follow, Goto, CacheInv, FlightInv, TypeOK, Working, countVars

LEMMA FinishCache ==
  ASSUME CacheInv, NEW c \in Callers, Finish(c)
  PROVE  DiskOK' /\ CallsOK'
BY CalmInv DEF Finish, CacheInv, FlightInv, TypeOK, Working, countVars

LEMMA ReturnCache ==
  ASSUME CacheInv, NEW c \in Callers, Return(c)
  PROVE  DiskOK' /\ CallsOK'
BY CalmInv DEF Return, Goto, CacheInv, FlightInv, TypeOK, Working, countVars

LEMMA RecheckCache ==
  ASSUME CacheInv, TrueMisses, NEW c \in Callers, Recheck(c)
  PROVE  DiskOK' /\ CallsOK'
<1>0. key[c] \in Keys /\ FlightInv /\ InFlight(c)
  BY DEF CacheInv, FlightInv, TypeOK, CallerOK, Recheck, RecheckHit, RecheckMiss, InFlight
<1>1. CASE RecheckHit(c)
  <2>1. DiskOK'
    BY <1>0, <1>1 DEF RecheckHit, Goto, CacheInv, FlightInv, TypeOK, DiskOK
  <2>2. CallsOK'
    BY <1>0, <1>1 DEF RecheckHit, Goto, CacheInv, FlightInv, TypeOK, CallsOK, Working, countVars
  <2> QED BY <2>1, <2>2
<1>2. CASE RecheckMiss(c)
  <2>1. disk[key[c]] = Absent
    BY <1>2 DEF RecheckMiss, Misses, Fails, TrueMisses
  <2>2. DiskOK'
    BY <1>0, <1>2, <2>1 DEF RecheckMiss, Goto, CacheInv, FlightInv, TypeOK, DiskOK
  <2>3. \A d \in Callers : Working(d) => key[d] # key[c]
    BY <1>0, <1>2, Alone DEF RecheckMiss, Working, InFlight
  <2>4. calls[key[c]] <= failed[key[c]] + crashes
    BY <1>0, <2>1, <2>3 DEF CacheInv, CallsOK
  <2>5. CallsOK'
    BY <1>0, <1>2, <2>1, <2>4 DEF RecheckMiss, Goto, CacheInv, FlightInv, TypeOK, CallsOK, Working
  <2> QED BY <2>2, <2>5
<1> QED BY <1>1, <1>2 DEF Recheck

LEMMA ProduceCache ==
  ASSUME CacheInv, NEW c \in Callers, Produce(c)
  PROVE  DiskOK' /\ CallsOK'
<1> DEFINE k == key[c]
<1>0. k \in Keys /\ FlightInv /\ Working(c) /\ InFlight(c)
  BY DEF CacheInv, FlightInv, TypeOK, CallerOK, Produce, Generate, Mkdir, Open, Write,
         InFlight, Working
<1>1. \A d \in Callers : InFlight(d) /\ d # c => key[d] # k
  BY <1>0, Alone
<1>2. /\ calls' = calls /\ crashes' = crashes /\ key' = key
      /\ failed' = failed \/ failed' = [failed EXCEPT ![k] = @ + 1]
  BY DEF Produce, Generate, Mkdir, Open, Write, Fail, countVars
<1>3. \A j \in Keys : j # k => disk'[j] = disk[j]
  BY <1>0 DEF Produce, Generate, Mkdir, Open, Write, FlightInv, TypeOK
<1>4. \A d \in Callers : d # c => pc'[d] = pc[d] /\ text'[d] = text[d]
  BY DEF Produce, Generate, Mkdir, Open, Write, Fail, Goto, countVars, CacheInv, FlightInv, TypeOK
<1>5. ASSUME NEW d \in Callers, d # c
      PROVE  /\ pc'[d] \in {"generate", "mkdir", "open"} => disk'[key'[d]] = Absent
             /\ pc'[d] = "write" => disk'[key'[d]] = Torn
             /\ pc'[d] = "finish" /\ text'[d] # Error =>
                  text'[d] = disk'[key'[d]] /\ disk'[key'[d]] # Absent
  <2>1. CASE InFlight(d)
    <3>1. key[d] \in Keys /\ key[d] # k
      BY <1>1, <1>5, <2>1 DEF CacheInv, FlightInv, TypeOK, CallerOK, InFlight
    <3> QED BY <1>2, <1>3, <1>4, <1>5, <3>1 DEF CacheInv, DiskOK
  <2>2. CASE ~InFlight(d)
    BY <1>4, <1>5, <2>2 DEF InFlight
  <2> QED BY <2>1, <2>2
<1>6. /\ pc'[c] \in {"generate", "mkdir", "open"} => disk'[key'[c]] = Absent
      /\ pc'[c] = "write" => disk'[key'[c]] = Torn
      /\ pc'[c] = "finish" /\ text'[c] # Error =>
           text'[c] = disk'[key'[c]] /\ disk'[key'[c]] # Absent
  BY <1>0, <1>2, ValueAssumption
  DEF Produce, Generate, Mkdir, Open, Write, Fail, Goto, countVars, CacheInv, FlightInv,
      TypeOK, CallerOK, DiskOK
<1>7. DiskOK'
  BY <1>5, <1>6 DEF DiskOK
<1>8. /\ calls'[k] <= 1 + failed'[k] + crashes'
      /\ Working(c)' \/ disk'[k] # Absent \/ calls'[k] <= failed'[k] + crashes'
  BY <1>0, ValueAssumption
  DEF Produce, Generate, Mkdir, Open, Write, Fail, Goto, countVars, CacheInv, FlightInv,
      TypeOK, CallerOK, CallsOK, DiskOK, Working
<1>9. CallsOK'
  <2>1. ASSUME NEW j \in Keys, j # k
        PROVE  /\ calls'[j] <= 1 + failed'[j] + crashes'
               /\ disk'[j] = Absent /\ (\A d \in Callers : Working(d)' => key'[d] # j)
                    => calls'[j] <= failed'[j] + crashes'
    BY <1>2, <1>3, <1>4, <2>1 DEF CacheInv, FlightInv, TypeOK, CallsOK, Working
  <2> QED BY <1>2, <1>8, <2>1 DEF CallsOK
<1> QED BY <1>7, <1>9

LEMMA CrashCache ==
  ASSUME CacheInv, Crash
  PROVE  DiskOK' /\ CallsOK'
BY DEF Crash, CacheInv, FlightInv, TypeOK, DiskOK, CallsOK

LEMMA CacheStep == TrueMisses /\ CacheInv /\ [Next]_vars => CacheInv'
<1> SUFFICES ASSUME TrueMisses, CacheInv, [Next]_vars PROVE CacheInv'
  OBVIOUS
<1>1. FlightInv'
  BY FlightStep DEF CacheInv
<1>2. DiskOK' /\ CallsOK'
  <2>1. CASE Next
    BY <2>1, GetCache, LookupCache, JoinCache, RecheckCache, ProduceCache, FinishCache,
       ReturnCache, CrashCache DEF Next, Step
  <2>2. CASE UNCHANGED vars
    BY <2>2 DEF vars, memVars, countVars, CacheInv, DiskOK, CallsOK, Working
  <2> QED BY <2>1, <2>2
<1> QED BY <1>1, <1>2 DEF CacheInv

LEMMA CacheInvariant == ASSUME TrueMisses PROVE Spec => []CacheInv
<1>1. CacheInv /\ [Next]_vars => CacheInv'
  BY CacheStep
<1> QED BY <1>1, CacheInit, PTL DEF Spec

\* No key is generated again unless a flight failed or the process died.
THEOREM GeneratedOnce == ASSUME TrueMisses PROVE Spec => []CallsBounded
<1>1. CacheInv => CallsBounded
  BY DEF CacheInv, CallsOK, CallsBounded
<1> QED BY <1>1, CacheInvariant, PTL
-----------------------------------------------------------------------------
\* The keys being written, as the refinement mapping has them.
Writing == {k \in Keys : \E c \in Callers : pc[c] = "write" /\ key[c] = k}

\* A step that starts, ends and leaves no write keeps the set.
LEMMA WritingKept ==
  ASSUME \A d \in Callers : pc'[d] = "write" <=> pc[d] = "write",
         \A d \in Callers : pc[d] = "write" => key'[d] = key[d]
  PROVE  Writing' = Writing
BY DEF Writing

LEMMA GetRefines ==
  ASSUME CacheInv, NEW c \in Callers, NEW k \in Keys, Get(c, k)
  PROVE  Store!Ask(c, k)
<1>1. Writing' = Writing
  BY WritingKept DEF Get, Goto, CacheInv, FlightInv, TypeOK
<1>2. key[c] = None
  BY DEF Get, CacheInv, FlightInv, CallerOK
<1> QED BY <1>1, <1>2 DEF Get, Store!Ask, Writing

LEMMA LookupRefines ==
  ASSUME CacheInv, NEW c \in Callers, Lookup(c)
  PROVE  Store!StoreNext \/ UNCHANGED Store!storeVars
<1> DEFINE k == key[c]
<1>1. k \in Keys /\ got[c] = None
  BY DEF Lookup, DiskHit, DiskMiss, CacheInv, FlightInv, TypeOK, CallerOK
<1>2. Writing' = Writing
  BY WritingKept DEF Lookup, DiskHit, DiskMiss, Goto, CacheInv, FlightInv, TypeOK
<1>3. CASE DiskHit(c)
  <2>1. got' = [d \in Callers |-> IF d \in {c} THEN disk[k] ELSE got[d]]
    BY <1>3 DEF DiskHit, CacheInv, FlightInv, TypeOK
  <2>2. Store!Answer({c}, k)
    BY <1>1, <1>2, <1>3, <2>1 DEF DiskHit, Store!Answer, Store!Waiting, Writing
  <2> QED BY <1>1, <2>2 DEF Store!StoreNext
<1>4. CASE DiskMiss(c)
  BY <1>2, <1>4 DEF DiskMiss, Store!storeVars, Writing
<1> QED BY <1>3, <1>4 DEF Lookup

LEMMA JoinRefines ==
  ASSUME CacheInv, NEW c \in Callers, Join(c) \/ Recheck(c)
  PROVE  UNCHANGED Store!storeVars
<1>1. Writing' = Writing
  BY WritingKept DEF Join, Lead, Follow, Recheck, RecheckHit, RecheckMiss, Goto, CacheInv,
     FlightInv, TypeOK
<1> QED
  BY <1>1 DEF Join, Lead, Follow, Recheck, RecheckHit, RecheckMiss, Store!storeVars, Writing

LEMMA OpenRefines ==
  ASSUME CacheInv, NEW c \in Callers, Open(c)
  PROVE  Store!StoreNext \/ UNCHANGED Store!storeVars
<1>1. PICK k \in Keys : k = key[c] /\ disk[k] = Absent
  BY DEF Open, CacheInv, FlightInv, TypeOK, CallerOK, DiskOK
<1>2. CASE pc' = [pc EXCEPT ![c] = "write"] /\ disk' = [disk EXCEPT ![k] = Torn]
  <2>1. k \notin Writing
    BY <1>1, ValueAssumption DEF Writing, CacheInv, DiskOK
  <2>2. key' = key /\ got' = got
    BY DEF Open, Fail, countVars
  <2>3. Writing' = Writing \cup {k}
    BY <1>1, <1>2, <2>2 DEF Writing, CacheInv, FlightInv, TypeOK
  <2>4. Store!Begin(k)
    BY <1>1, <1>2, <2>1, <2>2, <2>3 DEF Store!Begin, Writing
  <2> QED BY <2>4 DEF Store!StoreNext
<1>3. CASE pc' = [pc EXCEPT ![c] = "finish"] /\ disk' = disk
  <2>1. key' = key /\ got' = got
    BY DEF Open, Fail, countVars
  <2>2. Writing' = Writing
    BY <1>3, <2>1, WritingKept DEF Open, CacheInv, FlightInv, TypeOK
  <2> QED BY <1>3, <2>1, <2>2 DEF Store!storeVars, Writing
<1> QED BY <1>1, <1>2, <1>3 DEF Open, Fail, Goto

LEMMA WriteRefines ==
  ASSUME CacheInv, NEW c \in Callers, Write(c)
  PROVE  Store!StoreNext
<1>1. PICK k \in Keys : k = key[c] /\ text[c] \in Texts /\ pc[c] = "write"
  BY DEF Write, CacheInv, FlightInv, TypeOK, CallerOK
<1>2. k \in Writing
  BY <1>1 DEF Writing
<1>3. key' = key /\ got' = got /\ pc' = [pc EXCEPT ![c] = "finish"]
  BY DEF Write, Fail, Goto, countVars
<1>4. Writing' = Writing \ {k}
  <2>1. \A d \in Callers : pc[d] = "write" /\ key[d] = k => d = c
    BY <1>1, Alone DEF InFlight, CacheInv
  <2> QED BY <1>1, <1>3, <2>1 DEF Writing, CacheInv, FlightInv, TypeOK
<1>5. CASE disk' = [disk EXCEPT ![k] = text[c]]
  <2>1. disk'[k] = text[c]
    BY <1>1, <1>5 DEF CacheInv, FlightInv, TypeOK
  <2>2. Store!Settle(k)
    BY <1>1, <1>2, <1>3, <1>4, <1>5, <2>1 DEF Store!Settle, Writing
  <2> QED BY <2>2 DEF Store!StoreNext
<1>6. CASE disk' = disk
  <2>1. Store!Abandon(k)
    BY <1>2, <1>3, <1>4, <1>6 DEF Store!Abandon, Writing
  <2> QED BY <2>1 DEF Store!StoreNext
<1> QED BY <1>1, <1>5, <1>6 DEF Write

LEMMA GenerateRefines ==
  ASSUME CacheInv, NEW c \in Callers, Generate(c) \/ Mkdir(c)
  PROVE  UNCHANGED Store!storeVars
<1>1. key' = key /\ got' = got /\ disk' = disk
  BY DEF Generate, Mkdir, Fail, countVars
<1>2. Writing' = Writing
  BY <1>1, WritingKept DEF Generate, Mkdir, Fail, Goto, CacheInv, FlightInv, TypeOK
<1> QED BY <1>1, <1>2 DEF Store!storeVars, Writing

LEMMA FinishRefines ==
  ASSUME CacheInv, NEW c \in Callers, Finish(c)
  PROVE  Store!StoreNext
<1> DEFINE k == key[c]
           party == {c} \cup {d \in Callers : pc[d] = "waiting" /\ key[d] = k}
<1>1. k \in Keys /\ party \in SUBSET Callers /\ party # {}
  BY DEF Finish, CacheInv, FlightInv, TypeOK, CallerOK
<1>2. \A d \in party : key[d] = k /\ got[d] = None
  BY DEF Finish, CacheInv, FlightInv, CallerOK
<1>3. got' = [d \in Callers |-> IF d \in party THEN text[c] ELSE got[d]]
  BY DEF Finish
<1>4. Writing' = Writing
  BY WritingKept DEF Finish, CacheInv, FlightInv, TypeOK
<1>5. disk' = disk /\ key' = key
  BY DEF Finish
<1> HIDE DEF party
<1>6. CASE text[c] = Error
  <2>1. Store!Refuse(party, k)
    BY <1>1, <1>2, <1>3, <1>4, <1>5, <1>6 DEF Store!Refuse, Store!Waiting, Writing
  <2> QED BY <1>1, <2>1 DEF Store!StoreNext
<1>7. CASE text[c] # Error
  <2>1. text[c] = disk[k] /\ disk[k] # Absent
    BY <1>7 DEF Finish, CacheInv, DiskOK
  <2>2. Store!Answer(party, k)
    BY <1>1, <1>2, <1>3, <1>4, <1>5, <2>1 DEF Store!Answer, Store!Waiting, Writing
  <2> QED BY <1>1, <2>2 DEF Store!StoreNext
<1> QED BY <1>6, <1>7

LEMMA ReturnRefines ==
  ASSUME CacheInv, NEW c \in Callers, Return(c)
  PROVE  Store!Leave(c)
<1>1. Writing' = Writing
  BY WritingKept DEF Return, Goto, CacheInv, FlightInv, TypeOK
<1>2. got[c] # None
  BY DEF Return, CacheInv, FlightInv, CallerOK
<1> QED BY <1>1, <1>2 DEF Return, Store!Leave, Writing

LEMMA CrashRefines ==
  ASSUME Crash
  PROVE  Store!Crash
<1>1. Writing' = {}
  BY DEF Crash, Writing
<1> QED BY <1>1 DEF Crash, Store!Crash, Writing

LEMMA InitRefines == Init => Store!StoreInit
BY DEF Init, MemInit, Store!StoreInit

LEMMA StepRefines == CacheInv /\ [Next]_vars => [Store!StoreNext]_(Store!storeVars)
<1> SUFFICES ASSUME CacheInv, [Next]_vars
             PROVE  Store!StoreNext \/ UNCHANGED Store!storeVars
  OBVIOUS
<1>1. CASE UNCHANGED vars
  BY <1>1 DEF vars, memVars, Store!storeVars
<1>2. ASSUME NEW c \in Callers, NEW k \in Keys, Get(c, k)
      PROVE  Store!StoreNext
  BY <1>2, GetRefines DEF Store!StoreNext
<1>3. ASSUME NEW c \in Callers, Step(c)
      PROVE  Store!StoreNext \/ UNCHANGED Store!storeVars
  <2>1. CASE Produce(c)
    BY <2>1, GenerateRefines, OpenRefines, WriteRefines DEF Produce
  <2>2. CASE Return(c)
    BY <2>2, ReturnRefines DEF Store!StoreNext
  <2> QED BY <1>3, <2>1, <2>2, LookupRefines, JoinRefines, FinishRefines DEF Step
<1>4. CASE Crash
  BY <1>4, CrashRefines DEF Store!StoreNext
<1> QED BY <1>1, <1>2, <1>3, <1>4 DEF Next

\* The cache implements the write-once store.
THEOREM CacheIsWriteOnce == ASSUME TrueMisses PROVE Spec => WriteOnceStore
<1>1. CacheInv /\ [Next]_vars => [Store!StoreNext]_(Store!storeVars)
  BY StepRefines
<1> QED BY <1>1, InitRefines, CacheInvariant, PTL DEF Spec, WriteOnceStore, Store!StoreSpec
=============================================================================
