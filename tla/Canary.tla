------------------------------- MODULE Canary -------------------------------
(***************************************************************************)
(* Canary tokens: the issuer (internal/canary/canary.go), the handlers     *)
(* that plant tokens (internal/mcp/tools.go, resources.go), the listener   *)
(* (listener.go) and the proxy (internal/proxy/proxy.go) that notice their *)
(* use.                                                                    *)
(*                                                                         *)
(* A token stands for its id and its credential, which crypto/rand makes   *)
(* unique.  A text is the set of the credentials, and the placeholder, it  *)
(* contains.  The maps of the issuer and the files agents write are shared *)
(* by all sessions and live in memory: a restart clears them, while agents *)
(* keep what they have seen and may use it together.                       *)
(***************************************************************************)
EXTENDS Integers, FiniteSets

CONSTANTS
  Sessions, Tokens,
  Handlers,     \* goroutines that run tool and resource handlers
  Requests,     \* goroutines that serve the proxy or the listener
  Files, SecretFiles,
  Callback,     \* TRUE if canary.http_callback is set
  Garbled,      \* TRUE if files have fences or unfinished JSON: see Injected
  MaxUses,      \* bound: requests to the proxy and the listener
  MaxWrites,    \* bound: files written
  MaxRuns,      \* bound: processes, one after the other
  Placeholder, None

ASSUME CanaryAssumption ==
  /\ SecretFiles \subseteq Files
  /\ Callback \in BOOLEAN /\ Garbled \in BOOLEAN
  /\ MaxUses \in Nat /\ MaxWrites \in Nat /\ MaxRuns \in Nat
  /\ Placeholder \notin Tokens /\ None \notin Sessions \cup Tokens

VARIABLES
  tokens,    \* Issuer.tokens and creds: token -> session, None if absent
  written,   \* SystemState.writtenFiles: file -> text, None if not written
  pc, sid, text,          \* what each handler does, for whom, its response
  rpc, via, body, match,  \* what each request does, its input, what it found
  posting,   \* callbacks under way
  held,      \* what the agent of each session has seen
  issued,    \* the session and the run each token was issued in
  shared,    \* credentials agents wrote to files
  alerts,    \* canary alerts: session and token, with repetitions
  posted,    \* tokens http_callback was called for
  uses, writes, run

issuerVars  == <<tokens, written>>
handlerVars == <<pc, sid, text>>
requestVars == <<rpc, via, body, match>>
logVars     == <<alerts, posted>>
vars == <<issuerVars, handlerVars, requestVars, posting, held, issued, shared, logVars,
          uses, writes, run>>

Text   == SUBSET (Tokens \cup {Placeholder})
Issued == [session: Sessions, run: Nat]
Alert  == Sessions \X Tokens

ASSUME NilAssumption == None \notin Issued

TypeOK ==
  /\ tokens \in [Tokens -> Sessions \cup {None}]
  /\ written \in [Files -> Text \cup {None}]
  /\ pc \in [Handlers -> {"idle", "inject", "replace", "respond"}]
  /\ sid \in [Handlers -> Sessions \cup {None}]
  /\ text \in [Handlers -> Text]
  /\ rpc \in [Requests -> {"idle", "search", "fire", "answer"}]
  /\ via \in [Requests -> {"proxy", "listener", "none"}]
  /\ body \in [Requests -> SUBSET Tokens]
  /\ match \in [Requests -> Tokens \cup {None}]
  /\ posting \in SUBSET Tokens
  /\ held \in [Sessions -> Text]
  /\ issued \in [Tokens -> Issued \cup {None}]
  /\ shared \in SUBSET Tokens
  /\ alerts \in [Alert -> Nat]
  /\ posted \in SUBSET Tokens
  /\ uses \in Nat /\ writes \in Nat /\ run \in Nat
  /\ \A q \in Requests : rpc[q] = "fire" => match[q] # None /\ tokens[match[q]] # None

Init ==
  /\ tokens = [t \in Tokens |-> None]
  /\ written = [f \in Files |-> None]
  /\ pc = [h \in Handlers |-> "idle"]
  /\ sid = [h \in Handlers |-> None]
  /\ text = [h \in Handlers |-> {}]
  /\ rpc = [q \in Requests |-> "idle"]
  /\ via = [q \in Requests |-> "none"]
  /\ body = [q \in Requests |-> {}]
  /\ match = [q \in Requests |-> None]
  /\ posting = {}
  /\ held = [s \in Sessions |-> {}]
  /\ issued = [t \in Tokens |-> None]
  /\ shared = {}
  /\ alerts = [a \in Alert |-> 0]
  /\ posted = {}
  /\ uses = 0 /\ writes = 0 /\ run = 1
-----------------------------------------------------------------------------
\* A handler has the text it will return, and plants a token in it first, in one
\* of two ways, or not.
Handle(h, s, content, step) ==
  /\ pc[h] = "idle"
  /\ sid' = [sid EXCEPT ![h] = s]
  /\ text' = [text EXCEPT ![h] = content]
  /\ pc' = [pc EXCEPT ![h] = step]
  /\ UNCHANGED <<issuerVars, requestVars, posting, held, issued, shared, logVars,
                 uses, writes, run>>

\* read_file: what an agent wrote comes before what the system simulates,
\* and what is simulated contains no token.
FileText(f) == IF written[f] = None THEN {} ELSE written[f]

ReadFile(h, s, f) == Handle(h, s, FileText(f), IF f \in SecretFiles THEN "inject" ELSE "respond")

\* execute_shell with cat returns the file as it is.
ExecShell(h, s, f) == Handle(h, s, FileText(f), "respond")

\* Mutant: the text is cached with its credential in place of the placeholder.
CallToolCached(h, s) ==
  LET old == {t \in Tokens : tokens[t] # None} IN
  \/ \E t \in old : Handle(h, s, {t}, "respond")
  \/ old = {} /\ Handle(h, s, {Placeholder}, "replace")

\* query_database and the business tools: the cache has one text for all
\* sessions, with or without the placeholder.
CallTool(h, s) ==
  Handle(h, s, {}, "respond") \/ Handle(h, s, {Placeholder}, "replace")

\* A resource returns the cached text as it is.
ReadResource(h, s) ==
  \E content \in {{}, {Placeholder}} : Handle(h, s, content, "respond")

WriteFile(s, f, content) ==
  /\ writes < MaxWrites
  /\ writes' = writes + 1
  /\ written' = [written EXCEPT ![f] = content]
  /\ shared' = shared \cup (content \ {Placeholder})
  /\ UNCHANGED <<tokens, handlerVars, requestVars, posting, held, issued, logVars, uses, run>>

\* InjectCredential adds the credential and leaves a placeholder as it is.  It
\* drops what follows the last code fence, and adds nothing to a text that
\* begins like JSON and has no brace to add it before.
Injected(content, t) ==
  IF Garbled THEN {kept \cup new : kept \in SUBSET content, new \in {{t}, {}}}
  ELSE {content \cup {t}}

\* ReplaceAll puts it where the placeholders are.
Replaced(content, t) == (content \ {Placeholder}) \cup {t}

Planted(step, content, t) ==
  IF step = "inject" THEN Injected(content, t) ELSE {Replaced(content, t)}

Planting(h) == pc[h] \in {"inject", "replace"}

\* Mutant: the text is returned before the token is in the maps.
IssueUnrecorded(h, t) ==
  /\ Planting(h)
  /\ issued[t] = None
  /\ issued' = [issued EXCEPT ![t] = [session |-> sid[h], run |-> run]]
  /\ \E content \in Planted(pc[h], text[h], t) : text' = [text EXCEPT ![h] = content]
  /\ pc' = [pc EXCEPT ![h] = "respond"]
  /\ UNCHANGED <<tokens, written, sid, requestVars, posting, held, shared, logVars, uses, writes, run>>

\* Issue, then the text with its token.
Issue(h, t) ==
  /\ Planting(h)
  /\ issued[t] = None
  /\ issued' = [issued EXCEPT ![t] = [session |-> sid[h], run |-> run]]
  /\ tokens' = [tokens EXCEPT ![t] = sid[h]]
  /\ \E content \in Planted(pc[h], text[h], t) : text' = [text EXCEPT ![h] = content]
  /\ pc' = [pc EXCEPT ![h] = "respond"]
  /\ UNCHANGED <<written, sid, requestVars, posting, held, shared, logVars, uses, writes, run>>

\* The agent sees the response.
Respond(h) ==
  /\ pc[h] = "respond"
  /\ held' = [held EXCEPT ![sid[h]] = @ \cup text[h]]
  /\ pc' = [pc EXCEPT ![h] = "idle"]
  /\ sid' = [sid EXCEPT ![h] = None]
  /\ text' = [text EXCEPT ![h] = {}]
  /\ UNCHANGED <<issuerVars, requestVars, posting, issued, shared, logVars, uses, writes, run>>
-----------------------------------------------------------------------------
Known == (UNION {held[s] : s \in Sessions}) \ {Placeholder}

Use(q, where, content) ==
  /\ rpc[q] = "idle"
  /\ uses < MaxUses
  /\ uses' = uses + 1
  /\ via' = [via EXCEPT ![q] = where]
  /\ body' = [body EXCEPT ![q] = content]
  /\ rpc' = [rpc EXCEPT ![q] = "search"]
  /\ UNCHANGED <<issuerVars, handlerVars, match, posting, held, issued, shared, logVars,
                 writes, run>>

\* A chat request that mentions what agents have seen, or nothing of it.
Prompt(q, content) == content \subseteq Known /\ Use(q, "proxy", content)

\* A canary URL, with an id that was planted at some time, or with none: ids
\* appear in alerts, callbacks and the listener's own answers.
Fetch(q, content) ==
  /\ content = {} \/ \E t \in Tokens : issued[t] # None /\ content = {t}
  /\ Use(q, "listener", content)

Found(q, t) ==
  /\ match' = [match EXCEPT ![q] = t]
  /\ rpc' = [rpc EXCEPT ![q] = "fire"]

\* Mutant: whether anything was found is not asked.
NothingFoundFires(q) ==
  /\ rpc' = [rpc EXCEPT ![q] = "fire"]
  /\ UNCHANGED match

NothingFound(q) ==
  /\ rpc' = [rpc EXCEPT ![q] = "answer"]
  /\ UNCHANGED match

Hits(q) == {t \in body[q] : tokens[t] # None}

\* Mutant: only one credential is compared with the text.
ScanFirstOnly(q) ==
  /\ rpc[q] = "search" /\ via[q] = "proxy"
  /\ \E t \in {u \in Tokens : tokens[u] # None} :
       IF t \in body[q] THEN Found(q, t) ELSE NothingFound(q)
  /\ UNCHANGED <<issuerVars, handlerVars, via, body, posting, held, issued, shared, logVars,
                 uses, writes, run>>

\* The first credential found, in the order of a Go map.
Scan(q) ==
  /\ rpc[q] = "search" /\ via[q] = "proxy"
  /\ (\E t \in Hits(q) : Found(q, t)) \/ (Hits(q) = {} /\ NothingFound(q))
  /\ UNCHANGED <<issuerVars, handlerVars, via, body, posting, held, issued, shared, logVars,
                 uses, writes, run>>

\* An id the map does not have gets 404.
Lookup(q) ==
  /\ rpc[q] = "search" /\ via[q] = "listener"
  /\ (\E t \in Hits(q) : Found(q, t)) \/ (Hits(q) = {} /\ NothingFound(q))
  /\ UNCHANGED <<issuerVars, handlerVars, via, body, posting, held, issued, shared, logVars,
                 uses, writes, run>>

\* Mutant: the alert names a session whose agent has seen the credential.
FireForReader(q) ==
  LET t == match[q] IN
  /\ rpc[q] = "fire"
  /\ \E s \in Sessions : t \in held[s] /\ alerts' = [alerts EXCEPT ![<<s, t>>] = @ + 1]
  /\ posting' = IF via[q] = "listener" /\ Callback THEN posting \cup {t} ELSE posting
  /\ rpc' = [rpc EXCEPT ![q] = "answer"]
  /\ UNCHANGED <<issuerVars, handlerVars, via, body, match, held, issued, shared, posted,
                 uses, writes, run>>

\* ObserveCanaryFire, and the listener's callback.
Fire(q) ==
  LET t == match[q] IN
  /\ rpc[q] = "fire"
  /\ alerts' = [alerts EXCEPT ![<<tokens[t], t>>] = @ + 1]
  /\ posting' = IF via[q] = "listener" /\ Callback THEN posting \cup {t} ELSE posting
  /\ rpc' = [rpc EXCEPT ![q] = "answer"]
  /\ UNCHANGED <<issuerVars, handlerVars, via, body, match, held, issued, shared, posted,
                 uses, writes, run>>

\* The model's or its stub's answer, the fake credentials, or 404.
AnswerRequest(q) ==
  /\ rpc[q] = "answer"
  /\ rpc' = [rpc EXCEPT ![q] = "idle"]
  /\ via' = [via EXCEPT ![q] = "none"]
  /\ body' = [body EXCEPT ![q] = {}]
  /\ match' = [match EXCEPT ![q] = None]
  /\ UNCHANGED <<issuerVars, handlerVars, posting, held, issued, shared, logVars,
                 uses, writes, run>>

\* fireCallback, on a goroutine of its own: one POST, whether or not it fails.
Post(t) ==
  /\ t \in posting
  /\ posting' = posting \ {t}
  /\ posted' = posted \cup {t}
  /\ UNCHANGED <<issuerVars, handlerVars, requestVars, held, issued, shared, alerts,
                 uses, writes, run>>

Restart ==
  /\ run < MaxRuns
  /\ run' = run + 1
  /\ tokens' = [t \in Tokens |-> None]
  /\ written' = [f \in Files |-> None]
  /\ pc' = [h \in Handlers |-> "idle"]
  /\ sid' = [h \in Handlers |-> None]
  /\ text' = [h \in Handlers |-> {}]
  /\ rpc' = [q \in Requests |-> "idle"]
  /\ via' = [q \in Requests |-> "none"]
  /\ body' = [q \in Requests |-> {}]
  /\ match' = [q \in Requests |-> None]
  /\ posting' = {}
  /\ UNCHANGED <<held, issued, shared, logVars, uses, writes>>
-----------------------------------------------------------------------------
Tool(h) ==
  \/ \E s \in Sessions : CallTool(h, s) \/ ReadResource(h, s)
  \/ \E s \in Sessions, f \in Files : ReadFile(h, s, f) \/ ExecShell(h, s, f)

Agent ==
  \/ \E s \in Sessions, f \in Files : \E content \in SUBSET held[s] : WriteFile(s, f, content)
  \/ \E q \in Requests : \E content \in SUBSET Known : Prompt(q, content)
  \/ \E q \in Requests : \E content \in SUBSET Tokens : Fetch(q, content)

Detect(q) == Scan(q) \/ Lookup(q) \/ Fire(q)

Next ==
  \/ \E h \in Handlers : Tool(h) \/ Respond(h) \/ \E t \in Tokens : Issue(h, t)
  \/ Agent
  \/ \E q \in Requests : Detect(q) \/ AnswerRequest(q)
  \/ \E t \in Tokens : Post(t)
  \/ Restart

\* A request that was accepted is searched and reported: until then it waits
\* for nothing but the issuer's lock, held briefly.  The upstream model and
\* the callback's server may hang: nothing else is fair.
Fairness == \A q \in Requests : WF_vars(Detect(q))

Spec == Init /\ [][Next]_vars /\ Fairness
-----------------------------------------------------------------------------
InThisRun(t) == issued[t] # None /\ issued[t].run = run

\* No window between planting and watching: a credential an agent has seen,
\* or will see in a response under way, is known to the issuer under the
\* session it was planted for, as long as the process lives.
PlantedIsWatched ==
  \A t \in Tokens :
    InThisRun(t) /\ (t \in Known \/ \E h \in Handlers : t \in text[h])
      => tokens[t] = issued[t].session

\* Attribution is never wrong: an alert names the session its token was
\* planted for, in whatever run, and only a token that was planted.
AlertsAttributed ==
  \A a \in Alert : alerts[a] > 0 => issued[a[2]] # None /\ issued[a[2]].session = a[1]

\* Cached texts are shared by sessions, credentials are not: a session sees
\* another's only if some agent wrote it to a file.
PlantedForOneSession ==
  \A s \in Sessions : \A t \in held[s] \ {Placeholder} :
    issued[t].session = s \/ t \in shared

Alerted(t) == alerts[<<issued[t].session, t>>] > 0

\* Nobody has an answer before the alert: a request that mentions credentials
\* planted in this run has raised one for a credential it mentions by the time it
\* is forwarded or answered.
AnsweredAfterAlert ==
  \A q \in Requests :
    rpc[q] = "answer" /\ (\E t \in body[q] : InThisRun(t))
      => match[q] \in body[q] /\ InThisRun(match[q]) /\ Alerted(match[q])

\* Whoever mentions credentials planted in this run to the proxy, or fetches
\* one's URL, raises an alert for one of them, unless the process ends.
UseIsAlerted ==
  \A q \in Requests, content \in SUBSET Tokens, n \in 1..MaxRuns :
    (rpc[q] = "search" /\ body[q] = content /\ run = n /\ \E t \in content : InThisRun(t))
      ~> (run # n \/ \E t \in content : InThisRun(t) /\ Alerted(t))
-----------------------------------------------------------------------------
\* docs/canary-tokens.md: "When an agent reads, copies, or uses one of these
\* values, the access is detected": every credential of an answered prompt.
EveryUseDetected ==
  \A q \in Requests : \A t \in body[q] :
    rpc[q] = "answer" /\ InThisRun(t) => Alerted(t)

\* docs/configuration.md: http_callback is the "URL to POST when any canary
\* fires".
CallbackOnFire ==
  Callback => \A t \in Tokens : issued[t] # None /\ Alerted(t) => t \in posting \cup posted

\* docs/canary-tokens.md: "configure canary.http_callback to record every
\* issued token externally".
IssuedRecorded ==
  Callback => \A t \in Tokens : t \in Known => t \in posting \cup posted
=============================================================================
