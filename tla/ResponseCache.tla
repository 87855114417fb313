--------------------------- MODULE ResponseCache ---------------------------
(***************************************************************************)
(* ResponseCache.Get of internal/ai/cache.go: a disk lookup, then one      *)
(* flight per key that looks again, asks the AI provider and writes the    *)
(* file.  Callers are the goroutines of tool and resource handlers.        *)
(*                                                                         *)
(* os.WriteFile is two steps, for another goroutine can read between them: *)
(* the open truncates the file, the write fills it.  A file in between, or *)
(* left there, is Torn.  Texts are numbered by the Generate call that      *)
(* returned them, so two generations never agree.                          *)
(***************************************************************************)
EXTENDS Integers

CONSTANTS
  Callers, Keys,
  Faults,        \* which calls may fail: see FaultAssumption
  MaxGets,       \* bound: calls of Get
  MaxCrashes,    \* bound: kills of the process
  Absent, Torn,  \* a file that is not there, one that is not whole
  Error, None

ASSUME FaultAssumption ==
  Faults \subseteq {"read", "generate", "mkdir", "open", "write"}

Texts == Nat

ASSUME ValueAssumption ==
  /\ Absent \notin Texts /\ Torn \notin Texts /\ Error \notin Texts /\ None \notin Texts
  /\ Absent # Torn /\ Error \notin {Absent, Torn, None} /\ None \notin {Absent, Torn}
  /\ None \notin Keys /\ None \notin Callers

ASSUME CacheBoundAssumption == MaxGets \in Nat /\ MaxCrashes \in Nat

VARIABLES
  disk,       \* the file of each key; survives a crash
  flight,     \* singleflight.Group: the caller whose function runs, per key
  pc,         \* where each caller is in Get
  key,        \* the key it asked for
  text,       \* what its function of the flight returned or will return
  got,        \* what Get returned to it
  gets,       \* calls of Get so far
  generated,  \* calls of Generate, of which the last gave the latest text
  calls,      \* the same per key
  failed,     \* flights per key that ended in an error
  crashes

memVars  == <<flight, pc, key, text, got>>
countVars == <<gets, generated, calls, failed, crashes>>
vars == <<disk, memVars, countVars>>

Files == {Absent, Torn} \cup Texts
Steps == {"idle", "lookup", "join", "waiting", "recheck", "generate", "mkdir",
          "open", "write", "finish", "done"}

TypeOK ==
  /\ disk \in [Keys -> Files]
  /\ flight \in [Keys -> Callers \cup {None}]
  /\ pc \in [Callers -> Steps]
  /\ key \in [Callers -> Keys \cup {None}]
  /\ text \in [Callers -> {None, Error, Torn} \cup Texts]
  /\ got \in [Callers -> {None, Error, Torn} \cup Texts]
  /\ gets \in Nat /\ generated \in Nat /\ crashes \in Nat
  /\ calls \in [Keys -> Nat]
  /\ failed \in [Keys -> Nat]

MemInit ==
  /\ flight = [k \in Keys |-> None]
  /\ pc = [c \in Callers |-> "idle"]
  /\ key = [c \in Callers |-> None]
  /\ text = [c \in Callers |-> None]
  /\ got = [c \in Callers |-> None]

Init ==
  /\ disk = [k \in Keys |-> Absent]
  /\ MemInit
  /\ gets = 0 /\ generated = 0 /\ crashes = 0
  /\ calls = [k \in Keys |-> 0]
  /\ failed = [k \in Keys |-> 0]

Goto(c, step) == pc' = [pc EXCEPT ![c] = step]

Fails(f) == f \in Faults
-----------------------------------------------------------------------------
Get(c, k) ==
  /\ pc[c] = "idle"
  /\ gets < MaxGets
  /\ gets' = gets + 1
  /\ key' = [key EXCEPT ![c] = k]
  /\ Goto(c, "lookup")
  /\ UNCHANGED <<disk, flight, text, got, generated, calls, failed, crashes>>

\* Fast path.
DiskHit(c) ==
  /\ pc[c] = "lookup"
  /\ disk[key[c]] # Absent
  /\ got' = [got EXCEPT ![c] = disk[key[c]]]
  /\ Goto(c, "done")
  /\ UNCHANGED <<disk, flight, key, text, countVars>>

\* Any error of ReadFile counts as a miss.
Misses(k) == disk[k] = Absent \/ Fails("read")

DiskMiss(c) ==
  /\ pc[c] = "lookup"
  /\ Misses(key[c])
  /\ Goto(c, "join")
  /\ UNCHANGED <<disk, flight, key, text, got, countVars>>

\* Mutant: every caller runs the function.
LeadAlways(c) ==
  /\ pc[c] = "join"
  /\ flight' = [flight EXCEPT ![key[c]] = c]
  /\ Goto(c, "recheck")
  /\ UNCHANGED <<disk, key, text, got, countVars>>

\* flight.Do: run the function, or wait for the caller that does.
Lead(c) ==
  /\ pc[c] = "join"
  /\ flight[key[c]] = None
  /\ flight' = [flight EXCEPT ![key[c]] = c]
  /\ Goto(c, "recheck")
  /\ UNCHANGED <<disk, key, text, got, countVars>>

Follow(c) ==
  /\ pc[c] = "join"
  /\ flight[key[c]] # None
  /\ Goto(c, "waiting")
  /\ UNCHANGED <<disk, flight, key, text, got, countVars>>

\* Mutant: the second ReadFile's error is ignored.
RecheckHitBlind(c) ==
  /\ pc[c] = "recheck"
  /\ text' = [text EXCEPT ![c] = disk[key[c]]]
  /\ Goto(c, "finish")
  /\ UNCHANGED <<disk, flight, key, got, countVars>>

RecheckHit(c) ==
  /\ pc[c] = "recheck"
  /\ disk[key[c]] # Absent
  /\ text' = [text EXCEPT ![c] = disk[key[c]]]
  /\ Goto(c, "finish")
  /\ UNCHANGED <<disk, flight, key, got, countVars>>

\* Mutant: the disk is not looked at again.
RecheckMissAlways(c) ==
  /\ pc[c] = "recheck"
  /\ calls' = [calls EXCEPT ![key[c]] = @ + 1]
  /\ Goto(c, "generate")
  /\ UNCHANGED <<disk, flight, key, text, got, gets, generated, failed, crashes>>

RecheckMiss(c) ==
  /\ pc[c] = "recheck"
  /\ Misses(key[c])
  /\ calls' = [calls EXCEPT ![key[c]] = @ + 1]
  /\ Goto(c, "generate")
  /\ UNCHANGED <<disk, flight, key, text, got, gets, generated, failed, crashes>>

\* The function returns an error; the flight is still to be finished.
Fail(c, f) ==
  /\ Fails(f)
  /\ text' = [text EXCEPT ![c] = Error]
  /\ failed' = [failed EXCEPT ![key[c]] = @ + 1]
  /\ Goto(c, "finish")
  /\ UNCHANGED <<flight, key, got, gets, calls, crashes>>

Generate(c) ==
  /\ pc[c] = "generate"
  /\ \/ /\ generated' = generated + 1
        /\ text' = [text EXCEPT ![c] = generated']
        /\ Goto(c, "mkdir")
        /\ UNCHANGED <<flight, key, got, gets, calls, failed, crashes>>
     \/ Fail(c, "generate") /\ UNCHANGED generated
  /\ UNCHANGED disk

Mkdir(c) ==
  /\ pc[c] = "mkdir"
  /\ \/ Goto(c, "open") /\ UNCHANGED <<flight, key, text, got, countVars>>
     \/ Fail(c, "mkdir") /\ UNCHANGED generated
  /\ UNCHANGED disk

\* os.WriteFile, first half: O_TRUNC.
Open(c) ==
  /\ pc[c] = "open"
  /\ \/ /\ disk' = [disk EXCEPT ![key[c]] = Torn]
        /\ Goto(c, "write")
        /\ UNCHANGED <<flight, key, text, got, countVars>>
     \/ Fail(c, "open") /\ UNCHANGED <<disk, generated>>

\* Second half.  An error may leave part of the text, or, from Close, all.
Write(c) ==
  /\ pc[c] = "write"
  /\ \/ /\ disk' = [disk EXCEPT ![key[c]] = text[c]]
        /\ Goto(c, "finish")
        /\ UNCHANGED <<flight, key, text, got, countVars>>
     \/ /\ Fail(c, "write")
        /\ disk' \in {disk, [disk EXCEPT ![key[c]] = text[c]]}
        /\ UNCHANGED generated

\* Mutant: one flight for all keys, whoever waits gets the result.
FinishAnyKey(c) ==
  LET party == {c} \cup {d \in Callers : pc[d] = "waiting"}
  IN
  /\ pc[c] = "finish"
  /\ flight' = [flight EXCEPT ![key[c]] = None]
  /\ got' = [d \in Callers |-> IF d \in party THEN text[c] ELSE got[d]]
  /\ pc' = [d \in Callers |-> IF d \in party THEN "done" ELSE pc[d]]
  /\ text' = [text EXCEPT ![c] = None]
  /\ UNCHANGED <<disk, key, countVars>>

\* Mutant: an error wakes only the caller that led.
FinishErrorAlone(c) ==
  LET k == key[c]
      others == {d \in Callers : pc[d] = "waiting" /\ key[d] = k}
      party == {c} \cup (IF text[c] = Error THEN {} ELSE others)
  IN
  /\ pc[c] = "finish"
  /\ flight' = [flight EXCEPT ![k] = None]
  /\ got' = [d \in Callers |-> IF d \in party THEN text[c] ELSE got[d]]
  /\ pc' = [d \in Callers |-> IF d \in party THEN "done" ELSE pc[d]]
  /\ text' = [text EXCEPT ![c] = None]
  /\ UNCHANGED <<disk, key, countVars>>

\* The flight is forgotten and its result handed to everyone in it.
Finish(c) ==
  LET k == key[c]
      party == {c} \cup {d \in Callers : pc[d] = "waiting" /\ key[d] = k}
  IN
  /\ pc[c] = "finish"
  /\ flight' = [flight EXCEPT ![k] = None]
  /\ got' = [d \in Callers |-> IF d \in party THEN text[c] ELSE got[d]]
  /\ pc' = [d \in Callers |-> IF d \in party THEN "done" ELSE pc[d]]
  /\ text' = [text EXCEPT ![c] = None]
  /\ UNCHANGED <<disk, key, countVars>>

\* Get returns.
Return(c) ==
  /\ pc[c] = "done"
  /\ key' = [key EXCEPT ![c] = None]
  /\ got' = [got EXCEPT ![c] = None]
  /\ Goto(c, "idle")
  /\ UNCHANGED <<disk, flight, text, countVars>>

\* The process is killed: the files are all that stays.
Crash ==
  /\ crashes < MaxCrashes
  /\ crashes' = crashes + 1
  /\ flight' = [k \in Keys |-> None]
  /\ pc' = [c \in Callers |-> "idle"]
  /\ key' = [c \in Callers |-> None]
  /\ text' = [c \in Callers |-> None]
  /\ got' = [c \in Callers |-> None]
  /\ UNCHANGED <<disk, gets, generated, calls, failed>>
-----------------------------------------------------------------------------
Lookup(c) == DiskHit(c) \/ DiskMiss(c)
Join(c)   == Lead(c) \/ Follow(c)
Recheck(c) == RecheckHit(c) \/ RecheckMiss(c)
Produce(c) == Generate(c) \/ Mkdir(c) \/ Open(c) \/ Write(c)

\* One caller's goroutine.
Step(c) == Lookup(c) \/ Join(c) \/ Recheck(c) \/ Produce(c) \/ Finish(c) \/ Return(c)

Next ==
  \/ \E c \in Callers : Step(c) \/ \E k \in Keys : Get(c, k)
  \/ Crash

\* What waits for this machine alone.
Local(c) ==
  Lookup(c) \/ Join(c) \/ Recheck(c) \/ Mkdir(c) \/ Open(c) \/ Write(c) \/ Finish(c) \/ Return(c)

\* A goroutine that can run runs.  The provider may never answer: the clients
\* set no time limit of their own.
Fairness == \A c \in Callers : WF_vars(Local(c))

Spec == Init /\ [][Next]_vars /\ Fairness
-----------------------------------------------------------------------------
InFlight(c) == pc[c] \in {"recheck", "generate", "mkdir", "open", "write", "finish"}

\* Concurrent misses of one key are deduplicated: one caller at most is past
\* flight.Do for it, so no two write the same file.
OneFlight ==
  \A c, d \in Callers : InFlight(c) /\ InFlight(d) /\ key[c] = key[d] => c = d

\* A key is generated once: a further API call needs a flight that failed or
\* a process that died.  ("Subsequent identical calls read from disk", the
\* comment of ResponseCache says, "no further API calls".)
CallsBounded == \A k \in Keys : calls[k] <= 1 + failed[k] + crashes

\* The cache is a write-once store, whoever asks, waits, fails or is killed:
\* answers are what the key's file holds, and a text once whole is final.
Store == INSTANCE ResponseStore WITH
  memo    <- disk,
  writing <- {k \in Keys : \E c \in Callers : pc[c] = "write" /\ key[c] = k},
  asked   <- key,
  answer  <- got

WriteOnceStore == Store!StoreSpec

\* Who waits, waits for a caller of the same key that is at work: a flight is not
\* forgotten with somebody in it, whatever failed on the way.
NobodyAbandoned ==
  \A c \in Callers : pc[c] = "waiting" => \E d \in Callers : InFlight(d) /\ key[d] = key[c]

\* A Get waits for the provider and for nothing else: it returns, or somebody's
\* request for its key is unanswered.  No one is left behind by a flight that
\* failed, by a crash, or by a file that appeared meanwhile.
EveryGetReturns ==
  \A c \in Callers :
    []<>(pc[c] = "idle" \/ \E d \in Callers : pc[d] = "generate" /\ key[d] = key[c])

\* cache.go: "Get returns the cached response ..., generating and caching it
\* on first call": never a part of one.
WholeAnswers == \A c \in Callers : got[c] # Torn

\* config.yaml.example: "Cached responses ensure consistency across
\* restarts": a file nobody is writing is a whole response.
WholeFiles ==
  \A k \in Keys :
    disk[k] = Torn => \E c \in Callers : pc[c] = "write" /\ key[c] = k
=============================================================================
