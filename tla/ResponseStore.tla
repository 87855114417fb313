--------------------------- MODULE ResponseStore ---------------------------
(***************************************************************************)
(* What the response cache promises its callers, without flights, steps or *)
(* files: each key is absent, then being written, then settled for good.   *)
(* A question is answered with what the key holds, never with what it may  *)
(* hold later, or refused.  A write that is abandoned, by an error or a    *)
(* crash, leaves a torn value, and the key is not written again.           *)
(***************************************************************************)
CONSTANTS Callers, Keys, Texts, Absent, Torn, Error, None

VARIABLES
  memo,     \* what each key holds: Absent, Torn or a text
  writing,  \* the keys being written
  asked,    \* the key each caller waits for
  answer    \* what it got

storeVars == <<memo, writing, asked, answer>>

StoreInit ==
  /\ memo = [k \in Keys |-> Absent]
  /\ writing = {}
  /\ asked = [c \in Callers |-> None]
  /\ answer = [c \in Callers |-> None]

Ask(c, k) ==
  /\ asked[c] = None
  /\ asked' = [asked EXCEPT ![c] = k]
  /\ UNCHANGED <<memo, writing, answer>>

\* Everyone in C waits for k and has no answer yet.
Waiting(C, k) == \A c \in C : asked[c] = k /\ answer[c] = None

Answer(C, k) ==
  /\ C # {} /\ Waiting(C, k)
  /\ memo[k] # Absent
  /\ answer' = [c \in Callers |-> IF c \in C THEN memo[k] ELSE answer[c]]
  /\ UNCHANGED <<memo, writing, asked>>

Refuse(C, k) ==
  /\ C # {} /\ Waiting(C, k)
  /\ answer' = [c \in Callers |-> IF c \in C THEN Error ELSE answer[c]]
  /\ UNCHANGED <<memo, writing, asked>>

Leave(c) ==
  /\ answer[c] # None
  /\ asked' = [asked EXCEPT ![c] = None]
  /\ answer' = [answer EXCEPT ![c] = None]
  /\ UNCHANGED <<memo, writing>>

Begin(k) ==
  /\ memo[k] = Absent /\ k \notin writing
  /\ memo' = [memo EXCEPT ![k] = Torn]
  /\ writing' = writing \cup {k}
  /\ UNCHANGED <<asked, answer>>

\* Some text or other: which one is the writer's business.
Settle(k) ==
  /\ k \in writing
  /\ memo'[k] \in Texts
  /\ memo' = [memo EXCEPT ![k] = memo'[k]]
  /\ writing' = writing \ {k}
  /\ UNCHANGED <<asked, answer>>

Abandon(k) ==
  /\ k \in writing
  /\ writing' = writing \ {k}
  /\ UNCHANGED <<memo, asked, answer>>

\* The server is killed and started again.
Crash ==
  /\ writing' = {}
  /\ asked' = [c \in Callers |-> None]
  /\ answer' = [c \in Callers |-> None]
  /\ UNCHANGED memo

StoreNext ==
  \/ \E c \in Callers : Leave(c) \/ \E k \in Keys : Ask(c, k)
  \/ \E C \in SUBSET Callers, k \in Keys : Answer(C, k) \/ Refuse(C, k)
  \/ \E k \in Keys : Begin(k) \/ Settle(k) \/ Abandon(k)
  \/ Crash

StoreSpec == StoreInit /\ [][StoreNext]_storeVars
=============================================================================
