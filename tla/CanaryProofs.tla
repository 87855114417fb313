---------------------------- MODULE CanaryProofs ----------------------------
(***************************************************************************)
(* Proofs about canary tokens: what was planted is watched, alerts name    *)
(* the session a token was planted for, cached texts carry no token from   *)
(* one session to another, and nobody is answered before the alert.        *)
(***************************************************************************)
EXTENDS Canary, TLAPS

\* The issuer's maps hold exactly the tokens of this run, each under the
\* session it was planted for.
IssuerOK ==
  \A t \in Tokens :
    /\ tokens[t] # None => InThisRun(t)
    /\ InThisRun(t) => tokens[t] = issued[t].session
    /\ issued[t] # None => issued[t].run <= run

\* A token that s may see: its own, or one that an agent wrote to a file.
MayHold(s, t) == issued[t] # None /\ (issued[t].session = s \/ t \in shared)

HandlersOK ==
  \A h \in Handlers :
    /\ pc[h] # "idle" => sid[h] # None
    /\ \A t \in text[h] \ {Placeholder} : MayHold(sid[h], t)

FilesOK ==
  \A f \in Files : \A t \in FileText(f) \ {Placeholder} : issued[t] # None /\ t \in shared

HeldOK == \A s \in Sessions : \A t \in held[s] \ {Placeholder} : MayHold(s, t)

CanaryInv ==
  /\ TypeOK
  /\ IssuerOK
  /\ HandlersOK
  /\ FilesOK
  /\ HeldOK
  /\ AlertsAttributed
-----------------------------------------------------------------------------
LEMMA KnownType == TypeOK => Known \subseteq Tokens
  BY DEF TypeOK, Known, Text

LEMMA FileTextType == ASSUME TypeOK, NEW f \in Files PROVE FileText(f) \in Text
  BY DEF TypeOK, FileText, Text

LEMMA PlantedType ==
  ASSUME NEW step, NEW content \in Text, NEW t \in Tokens, NEW planted \in Planted(step, content, t)
  PROVE  planted \in Text /\ planted \subseteq content \cup {t}
  <1>1. planted \in Injected(content, t) => planted \subseteq content \cup {t}
    BY DEF Injected
  <1>2. Replaced(content, t) \subseteq content \cup {t}
    BY DEF Replaced
  <1>3. planted \subseteq content \cup {t}
    BY <1>1, <1>2 DEF Planted
  <1> QED
    BY <1>3 DEF Text

\* What a handler does once it has its text.
Steps == {"inject", "replace", "respond"}

LEMMA TypeInit == Init => TypeOK
  <1> SUFFICES ASSUME Init PROVE TypeOK
    OBVIOUS
  <1>1. {} \in Text
    BY DEF Text
  <1> QED
    BY <1>1 DEF Init, TypeOK

LEMMA TypeHandle ==
  ASSUME TypeOK, NEW h \in Handlers, NEW s \in Sessions, NEW content \in Text,
         NEW step \in Steps, Handle(h, s, content, step)
  PROVE  TypeOK'
  BY DEF TypeOK, Steps, Handle, issuerVars, requestVars, logVars

\* Every tool call and every resource is a Handle whose text is of the file
\* or of the cache.
LEMMA ToolHandles ==
  ASSUME TypeOK, NEW h \in Handlers, Tool(h)
  PROVE  \E s \in Sessions, content \in Text, step \in Steps :
           /\ Handle(h, s, content, step)
           /\ content \subseteq {Placeholder} \/ \E f \in Files : content = FileText(f)
  <1>1. ASSUME NEW s \in Sessions, CallTool(h, s) \/ ReadResource(h, s)
        PROVE  \E content \in Text, step \in Steps :
                 Handle(h, s, content, step) /\ content \subseteq {Placeholder}
    BY <1>1 DEF CallTool, ReadResource, Text, Steps
  <1>2. ASSUME NEW s \in Sessions, NEW f \in Files, ReadFile(h, s, f) \/ ExecShell(h, s, f)
        PROVE  \E step \in Steps : Handle(h, s, FileText(f), step)
    BY <1>2 DEF ReadFile, ExecShell, Steps
  <1> QED
    BY <1>1, <1>2, FileTextType DEF Tool

LEMMA TypeWriteFile ==
  ASSUME TypeOK, NEW s \in Sessions, NEW f \in Files, NEW content \in SUBSET held[s],
         WriteFile(s, f, content)
  PROVE  TypeOK'
  <1>1. content \in Text /\ content \ {Placeholder} \subseteq Tokens
    BY DEF TypeOK, Text
  <1> QED
    BY <1>1 DEF TypeOK, WriteFile, handlerVars, requestVars, logVars

LEMMA TypeIssue ==
  ASSUME TypeOK, HandlersOK, NEW h \in Handlers, NEW t \in Tokens, Issue(h, t)
  PROVE  TypeOK'
  <1>1. PICK s \in Sessions : s = sid[h]
    BY DEF TypeOK, HandlersOK, Issue, Planting
  <1>2. PICK content \in Planted(pc[h], text[h], t) : text' = [text EXCEPT ![h] = content]
    BY DEF Issue
  <1>3. content \in Text
    BY PlantedType DEF TypeOK
  <1>4. [session |-> s, run |-> run] \in Issued
    BY DEF Issued, TypeOK
  <1>5. /\ issued' = [issued EXCEPT ![t] = [session |-> s, run |-> run]]
        /\ tokens' = [tokens EXCEPT ![t] = s]
        /\ pc' = [pc EXCEPT ![h] = "respond"]
        /\ UNCHANGED <<written, sid, requestVars, posting, held, shared, logVars, uses, writes, run>>
    BY <1>1 DEF Issue
  <1>6. /\ tokens' \in [Tokens -> Sessions \cup {None}]
        /\ issued' \in [Tokens -> Issued \cup {None}]
        /\ text' \in [Handlers -> Text]
        /\ pc' \in [Handlers -> {"idle", "inject", "replace", "respond"}]
    BY <1>2, <1>3, <1>4, <1>5 DEF TypeOK
  <1>7. \A q \in Requests : rpc'[q] = "fire" => match'[q] # None /\ tokens'[match'[q]] # None
    BY <1>5, CanaryAssumption DEF TypeOK, requestVars
  <1> QED
    BY <1>5, <1>6, <1>7 DEF TypeOK, requestVars, logVars

LEMMA TypeRespond ==
  ASSUME TypeOK, HandlersOK, NEW h \in Handlers, Respond(h)
  PROVE  TypeOK'
  <1>1. PICK s \in Sessions : s = sid[h]
    BY DEF TypeOK, HandlersOK, Respond
  <1>2. held' \in [Sessions -> Text]
    BY <1>1 DEF TypeOK, Respond, Text
  <1>3. {} \in Text
    BY DEF Text
  <1> QED
    BY <1>2, <1>3 DEF TypeOK, Respond, issuerVars, requestVars, logVars

LEMMA TypeUse ==
  ASSUME TypeOK, NEW q \in Requests, NEW where \in {"proxy", "listener"},
         NEW content \in SUBSET Tokens, Use(q, where, content)
  PROVE  TypeOK'
  BY DEF TypeOK, Use, issuerVars, handlerVars, logVars

LEMMA TypeSearch ==
  ASSUME TypeOK, NEW q \in Requests, Scan(q) \/ Lookup(q)
  PROVE  TypeOK'
  <1>1. UNCHANGED <<issuerVars, handlerVars, via, body, posting, held, issued, shared, logVars,
                    uses, writes, run>>
    BY DEF Scan, Lookup
  <1>2. CASE \E t \in Hits(q) : Found(q, t)
    <2>1. PICK t \in Tokens : Found(q, t) /\ tokens[t] # None
      BY <1>2 DEF Hits, TypeOK
    <2>2. /\ match' \in [Requests -> Tokens \cup {None}]
          /\ rpc' \in [Requests -> {"idle", "search", "fire", "answer"}]
      BY <2>1 DEF TypeOK, Found
    <2>3. \A r \in Requests : rpc'[r] = "fire" => match'[r] # None /\ tokens[match'[r]] # None
      BY <2>1, CanaryAssumption DEF TypeOK, Found
    <2> QED
      BY <1>1, <2>2, <2>3 DEF TypeOK, issuerVars, handlerVars, logVars
  <1>3. CASE NothingFound(q)
    BY <1>1, <1>3 DEF TypeOK, NothingFound, issuerVars, handlerVars, logVars
  <1> QED
    BY <1>2, <1>3 DEF Scan, Lookup

\* A request about to fire has found a token of the maps.
LEMMA Firing ==
  ASSUME TypeOK, IssuerOK, NEW q \in Requests, rpc[q] = "fire"
  PROVE  /\ match[q] \in Tokens
         /\ tokens[match[q]] \in Sessions
         /\ issued[match[q]] # None
         /\ issued[match[q]].session = tokens[match[q]]
  BY DEF TypeOK, IssuerOK, InThisRun

LEMMA TypeFire ==
  ASSUME TypeOK, IssuerOK, NEW q \in Requests, Fire(q)
  PROVE  TypeOK'
  <1>1. PICK t \in Tokens : t = match[q]
    BY Firing DEF Fire
  <1>2. PICK a \in Alert : a = <<tokens[t], t>>
    BY <1>1, Firing DEF Fire, Alert
  <1>3. alerts' = [alerts EXCEPT ![a] = @ + 1]
    BY <1>1, <1>2 DEF Fire
  <1>4. alerts' \in [Alert -> Nat] /\ posting' \in SUBSET Tokens
    BY <1>1, <1>3 DEF Fire, TypeOK
  <1>5. rpc' = [rpc EXCEPT ![q] = "answer"]
        /\ UNCHANGED <<issuerVars, handlerVars, via, body, match, held, issued, shared, posted,
                       uses, writes, run>>
    BY DEF Fire
  <1> QED
    BY <1>4, <1>5 DEF TypeOK, issuerVars, handlerVars

LEMMA TypeAnswer ==
  ASSUME TypeOK, NEW q \in Requests, AnswerRequest(q)
  PROVE  TypeOK'
  BY DEF TypeOK, AnswerRequest, issuerVars, handlerVars, logVars

LEMMA TypePost ==
  ASSUME TypeOK, NEW t \in Tokens, Post(t)
  PROVE  TypeOK'
  BY DEF TypeOK, Post, issuerVars, handlerVars, requestVars

LEMMA TypeRestart == ASSUME TypeOK, Restart PROVE TypeOK'
  <1>1. {} \in Text
    BY DEF Text
  <1> QED
    BY <1>1 DEF TypeOK, Restart, logVars

LEMMA TypeNext ==
  ASSUME TypeOK, IssuerOK, HandlersOK, [Next]_vars
  PROVE  TypeOK'
  <1>1. ASSUME NEW h \in Handlers, Tool(h) PROVE TypeOK'
    BY <1>1, ToolHandles, TypeHandle
  <1>2. CASE Agent
    <2>1. ASSUME NEW q \in Requests, NEW content \in SUBSET Known, Prompt(q, content)
          PROVE  TypeOK'
      BY <2>1, KnownType, TypeUse DEF Prompt
    <2>2. ASSUME NEW q \in Requests, NEW content \in SUBSET Tokens, Fetch(q, content)
          PROVE  TypeOK'
      BY <2>2, TypeUse DEF Fetch
    <2> QED
      BY <1>2, <2>1, <2>2, TypeWriteFile DEF Agent
  <1>3. CASE UNCHANGED vars
    BY <1>3 DEF TypeOK, vars, issuerVars, handlerVars, requestVars, logVars
  <1> QED
    BY <1>1, <1>2, <1>3, TypeIssue, TypeRespond, TypeSearch, TypeFire, TypeAnswer,
       TypePost, TypeRestart DEF Next, Detect
-----------------------------------------------------------------------------
\* Tokens are planted once and files shared for good.
Grows ==
  /\ \A t \in Tokens : issued[t] # None => issued'[t] = issued[t]
  /\ shared \subseteq shared'

LEMMA Growing == ASSUME TypeOK, [Next]_vars PROVE Grows
  <1>1. ASSUME NEW h \in Handlers, NEW t \in Tokens, Issue(h, t) PROVE Grows
    BY <1>1 DEF Issue, TypeOK, Grows
  <1>2. ASSUME NEW s \in Sessions, NEW f \in Files, NEW content \in SUBSET held[s],
               WriteFile(s, f, content)
        PROVE  Grows
    BY <1>2 DEF WriteFile, Grows
  <1>3. CASE UNCHANGED <<issued, shared>>
    BY <1>3 DEF Grows
  <1>4. \/ \E h \in Handlers, t \in Tokens : Issue(h, t)
        \/ \E s \in Sessions, f \in Files : \E content \in SUBSET held[s] : WriteFile(s, f, content)
        \/ UNCHANGED <<issued, shared>>
    BY DEF Next, Tool, CallTool, ReadResource, ReadFile, ExecShell, Handle, Respond, Agent,
           Prompt, Fetch, Use, Detect, Scan, Lookup, Fire, AnswerRequest, Post, Restart, vars
  <1> QED
    BY <1>1, <1>2, <1>3, <1>4

LEMMA HoldsOn ==
  ASSUME Grows, NEW s, NEW t \in Tokens, MayHold(s, t)
  PROVE  MayHold(s, t)'
  BY DEF Grows, MayHold

\* Only planting and a new process change what the issuer knows of tokens.
LEMMA IssuerNext == ASSUME TypeOK, IssuerOK, HandlersOK, [Next]_vars PROVE IssuerOK'
  <1>1. ASSUME NEW h \in Handlers, NEW t \in Tokens, Issue(h, t) PROVE IssuerOK'
    <2>1. PICK s \in Sessions : s = sid[h]
      BY <1>1 DEF TypeOK, HandlersOK, Issue, Planting
    <2>2. [session |-> s, run |-> run] \in Issued /\ run \in Nat
      BY DEF Issued, TypeOK
    <2>3. PICK new \in Issued : new = [session |-> s, run |-> run]
      BY <2>2
    <2>4. new # None /\ new.session = s /\ new.run = run
      BY <2>3, NilAssumption
    <2>5. /\ issued' = [issued EXCEPT ![t] = new]
          /\ tokens' = [tokens EXCEPT ![t] = s]
          /\ run' = run
      BY <1>1, <2>1, <2>3 DEF Issue
    <2> QED
      BY <2>2, <2>4, <2>5 DEF IssuerOK, InThisRun, TypeOK
  <1>2. CASE Restart
    <2>1. \A t \in Tokens : issued[t] # None => issued[t].run \in Nat
      BY DEF TypeOK, Issued
    <2>2. run \in Nat /\ run' = run + 1 /\ issued' = issued /\ tokens' = [t \in Tokens |-> None]
      BY <1>2 DEF TypeOK, Restart
    <2> QED
      BY <2>1, <2>2 DEF IssuerOK, InThisRun
  <1>3. CASE UNCHANGED <<tokens, issued, run>>
    BY <1>3 DEF IssuerOK, InThisRun
  <1>4. \/ \E h \in Handlers, t \in Tokens : Issue(h, t)
        \/ Restart
        \/ UNCHANGED <<tokens, issued, run>>
    BY DEF Next, Tool, CallTool, ReadResource, ReadFile, ExecShell, Handle, Respond, Agent,
           WriteFile, Prompt, Fetch, Use, Detect, Scan, Lookup, Fire, AnswerRequest, Post,
           vars, issuerVars
  <1> QED
    BY <1>1, <1>2, <1>3, <1>4

\* A handler's text has no token but its session's own and those of files.
LEMMA HandlersNext ==
  ASSUME TypeOK, HandlersOK, FilesOK, [Next]_vars
  PROVE  HandlersOK'
  <1>0. Grows
    BY Growing
  <1>1. ASSUME NEW h \in Handlers, Tool(h) PROVE HandlersOK'
    <2>1. PICK s \in Sessions, content \in Text, step \in Steps :
            /\ Handle(h, s, content, step)
            /\ content \subseteq {Placeholder} \/ \E f \in Files : content = FileText(f)
      BY <1>1, ToolHandles
    <2>2. \A t \in content \ {Placeholder} : t \in Tokens /\ MayHold(s, t)
      BY <2>1 DEF FilesOK, MayHold, Text
    <2>3. \A t \in content \ {Placeholder} : MayHold(s, t)'
      BY <1>0, <2>2, HoldsOn
    <2>4. /\ sid' = [sid EXCEPT ![h] = s]
          /\ text' = [text EXCEPT ![h] = content]
          /\ \A g \in Handlers : g # h => pc'[g] = pc[g]
      BY <2>1 DEF Handle, TypeOK
    <2>5. s # None
      BY CanaryAssumption
    <2>6. /\ sid'[h] = s /\ text'[h] = content
          /\ \A g \in Handlers : g # h => sid'[g] = sid[g] /\ text'[g] = text[g]
      BY <2>4 DEF TypeOK
    <2>7. \A g \in Handlers : pc'[g] # "idle" => sid'[g] # None
      BY <2>4, <2>5, <2>6 DEF HandlersOK
    <2>8. ASSUME NEW g \in Handlers, NEW t \in text'[g] \ {Placeholder}
          PROVE  MayHold(sid[g], t)'
      <3>1. CASE g = h
        BY <2>3, <2>6, <2>8, <3>1 DEF MayHold
      <3>2. CASE g # h
        <4>1. t \in Tokens /\ MayHold(sid[g], t) /\ sid'[g] = sid[g]
          BY <2>6, <2>8, <3>2 DEF HandlersOK, TypeOK, Text
        <4> QED
          BY <1>0, <4>1 DEF MayHold, Grows
      <3> QED
        BY <3>1, <3>2
    <2> QED
      BY <2>7, <2>8 DEF HandlersOK
  <1>2. ASSUME NEW h \in Handlers, NEW t \in Tokens, Issue(h, t) PROVE HandlersOK'
    <2>1. PICK s \in Sessions : s = sid[h]
      BY <1>2 DEF TypeOK, HandlersOK, Issue, Planting
    <2>2. PICK content \in Planted(pc[h], text[h], t) : text' = [text EXCEPT ![h] = content]
      BY <1>2 DEF Issue
    <2>3. content \in Text /\ content \subseteq text[h] \cup {t}
      BY PlantedType DEF TypeOK
    <2>4. issued'[t] # None /\ issued'[t].session = s
      <3>1. [session |-> s, run |-> run] \in Issued
        BY DEF TypeOK, Issued
      <3>2. issued'[t] = [session |-> s, run |-> run]
        BY <1>2, <2>1 DEF Issue, TypeOK
      <3> QED
        BY <3>1, <3>2, NilAssumption
    <2>5. sid' = sid /\ shared' = shared
      BY <1>2 DEF Issue
    <2>6. \A g \in Handlers : \A u \in text[g] \ {Placeholder} : MayHold(sid[g], u)'
      <3> SUFFICES ASSUME NEW g \in Handlers, NEW u \in text[g] \ {Placeholder}
                   PROVE  MayHold(sid[g], u)'
        BY <2>5 DEF MayHold
      <3>1. u \in Tokens /\ MayHold(sid[g], u)
        BY DEF HandlersOK, TypeOK, Text
      <3> QED
        BY <1>0, <2>5, <3>1, HoldsOn DEF MayHold, Grows
    <2>7. \A g \in Handlers : \A u \in text'[g] \ {Placeholder} :
            u \in text[g] \/ (g = h /\ u = t)
      BY <2>2, <2>3 DEF TypeOK
    <2>8. \A g \in Handlers : pc'[g] # "idle" => sid'[g] # None
      BY <1>2, <2>5 DEF Issue, Planting, HandlersOK, TypeOK
    <2> QED
      BY <2>1, <2>4, <2>5, <2>6, <2>7, <2>8 DEF HandlersOK, MayHold
  <1>3. CASE Restart
    BY <1>3 DEF HandlersOK, Restart
  <1>4. ASSUME NEW h \in Handlers, Respond(h) PROVE HandlersOK'
    BY <1>4 DEF HandlersOK, Respond, TypeOK, MayHold
  <1>5. CASE UNCHANGED handlerVars
    <2>1. \A h \in Handlers : \A t \in text[h] \ {Placeholder} : MayHold(sid[h], t)'
      BY <1>0, <1>5, HoldsOn DEF HandlersOK, TypeOK, Text, handlerVars
    <2> QED
      BY <1>5, <2>1 DEF HandlersOK, MayHold, handlerVars
  <1>6. \/ \E h \in Handlers : Tool(h) \/ Respond(h) \/ \E t \in Tokens : Issue(h, t)
        \/ Restart
        \/ UNCHANGED handlerVars
    BY DEF Next, Agent, WriteFile, Prompt, Fetch, Use, Detect, Scan, Lookup, Fire,
           AnswerRequest, Post, vars, handlerVars
  <1> QED
    BY <1>1, <1>2, <1>3, <1>4, <1>5, <1>6

\* Files hold nothing but what agents wrote.
LEMMA FilesNext == ASSUME TypeOK, FilesOK, HeldOK, [Next]_vars PROVE FilesOK'
  <1>0. Grows
    BY Growing
  <1>1. ASSUME NEW f \in Files, NEW t \in FileText(f) \ {Placeholder}
        PROVE  issued'[t] # None /\ t \in shared'
    <2>1. t \in Tokens /\ issued[t] # None /\ t \in shared
      BY <1>1, FileTextType DEF FilesOK, Text
    <2> QED
      BY <1>0, <2>1 DEF Grows
  <1>2. ASSUME NEW s \in Sessions, NEW f \in Files, NEW content \in SUBSET held[s],
               WriteFile(s, f, content)
        PROVE  FilesOK'
    <2>1. \A t \in content \ {Placeholder} : issued'[t] # None /\ t \in shared'
      BY <1>2 DEF WriteFile, HeldOK, MayHold
    <2>2. written' = [written EXCEPT ![f] = content]
      BY <1>2 DEF WriteFile
    <2>3. \A g \in Files : FileText(g)' = FileText(g) \/ FileText(g)' \subseteq content
      BY <2>2 DEF FileText, TypeOK
    <2> QED
      BY <1>1, <2>1, <2>3 DEF FilesOK
  <1>3. CASE Restart
    BY <1>3 DEF FilesOK, FileText, Restart
  <1>4. CASE UNCHANGED written
    BY <1>1, <1>4 DEF FilesOK, FileText
  <1>5. \/ \E s \in Sessions, f \in Files : \E content \in SUBSET held[s] : WriteFile(s, f, content)
        \/ Restart
        \/ UNCHANGED written
    BY DEF Next, Tool, CallTool, ReadResource, ReadFile, ExecShell, Handle, Respond, Issue,
           Agent, Prompt, Fetch, Use, Detect, Scan, Lookup, Fire, AnswerRequest, Post,
           vars, issuerVars
  <1> QED
    BY <1>2, <1>3, <1>4, <1>5

\* An agent sees what the responses of its session had.
LEMMA HeldNext == ASSUME TypeOK, HandlersOK, HeldOK, [Next]_vars PROVE HeldOK'
  <1>0. Grows
    BY Growing
  <1>1. \A s \in Sessions : \A t \in held[s] \ {Placeholder} : MayHold(s, t)'
    <2> SUFFICES ASSUME NEW s \in Sessions, NEW t \in held[s] \ {Placeholder}
                 PROVE  MayHold(s, t)'
      OBVIOUS
    <2>1. t \in Tokens /\ MayHold(s, t)
      BY DEF HeldOK, TypeOK, Text
    <2> QED
      BY <1>0, <2>1, HoldsOn
  <1>2. ASSUME NEW h \in Handlers, Respond(h) PROVE HeldOK'
    <2>1. PICK s \in Sessions : s = sid[h]
      BY <1>2 DEF TypeOK, HandlersOK, Respond
    <2>2. \A t \in text[h] \ {Placeholder} : MayHold(s, t)'
      <3> SUFFICES ASSUME NEW t \in text[h] \ {Placeholder} PROVE MayHold(s, t)'
        OBVIOUS
      <3>1. t \in Tokens /\ MayHold(s, t)
        BY <2>1 DEF HandlersOK, TypeOK, Text
      <3> QED
        BY <1>0, <3>1, HoldsOn
    <2>3. held' = [held EXCEPT ![s] = @ \cup text[h]]
      BY <1>2, <2>1 DEF Respond
    <2>4. \A r \in Sessions : \A t \in held'[r] :
            t \in held[r] \/ (r = s /\ t \in text[h])
      BY <2>3 DEF TypeOK
    <2> QED
      BY <1>1, <2>2, <2>4 DEF HeldOK
  <1>3. CASE UNCHANGED held
    BY <1>1, <1>3 DEF HeldOK
  <1>4. (\E h \in Handlers : Respond(h)) \/ UNCHANGED held
    BY DEF Next, Tool, CallTool, ReadResource, ReadFile, ExecShell, Handle, Issue, Agent,
           WriteFile, Prompt, Fetch, Use, Detect, Scan, Lookup, Fire, AnswerRequest, Post,
           Restart, vars
  <1> QED
    BY <1>2, <1>3, <1>4

\* What fires is in the maps, under the session it was planted for.
LEMMA AlertsNext == ASSUME TypeOK, IssuerOK, AlertsAttributed, [Next]_vars PROVE AlertsAttributed'
  <1>1. \A a \in Alert : alerts[a] > 0 => issued'[a[2]] # None /\ issued'[a[2]].session = a[1]
    BY Growing DEF Grows, AlertsAttributed, Alert
  <1>2. ASSUME NEW q \in Requests, Fire(q) PROVE AlertsAttributed'
    <2>1. PICK t \in Tokens : t = match[q]
      BY <1>2, Firing DEF Fire
    <2>2. PICK s \in Sessions : s = tokens[t]
      BY <1>2, <2>1, Firing DEF Fire
    <2>3. issued[t] # None /\ issued[t].session = s /\ issued' = issued
      BY <1>2, <2>1, <2>2, Firing DEF Fire
    <2>4. alerts' = [alerts EXCEPT ![<<s, t>>] = @ + 1]
      BY <1>2, <2>1, <2>2 DEF Fire
    <2>5. \A a \in Alert : a = <<s, t>> \/ alerts'[a] = alerts[a]
      BY <2>4 DEF TypeOK
    <2> QED
      BY <1>1, <2>3, <2>5 DEF AlertsAttributed
  <1>3. CASE UNCHANGED alerts
    BY <1>1, <1>3 DEF AlertsAttributed
  <1>4. (\E q \in Requests : Fire(q)) \/ UNCHANGED alerts
    BY DEF Next, Tool, CallTool, ReadResource, ReadFile, ExecShell, Handle, Issue, Respond,
           Agent, WriteFile, Prompt, Fetch, Use, Detect, Scan, Lookup, AnswerRequest, Post,
           Restart, vars, logVars
  <1> QED
    BY <1>2, <1>3, <1>4
-----------------------------------------------------------------------------
LEMMA CanaryInduction == Spec => []CanaryInv
  <1>1. Init => CanaryInv
    <2> SUFFICES ASSUME Init PROVE CanaryInv
      OBVIOUS
    <2>1. IssuerOK /\ HandlersOK /\ FilesOK /\ HeldOK /\ AlertsAttributed
      BY DEF Init, IssuerOK, InThisRun, HandlersOK, FilesOK, FileText, HeldOK, AlertsAttributed
    <2> QED
      BY <2>1, TypeInit DEF CanaryInv
  <1>2. CanaryInv /\ [Next]_vars => CanaryInv'
    BY TypeNext, IssuerNext, HandlersNext, FilesNext, HeldNext, AlertsNext DEF CanaryInv
  <1> QED
    BY <1>1, <1>2, PTL DEF Spec

\* The state of the issuer, of handlers and of requests keeps its types, and
\* what is about to fire is in the maps.
THEOREM CanaryTypeCorrect == Spec => []TypeOK
  <1>1. CanaryInv => TypeOK
    BY DEF CanaryInv
  <1> QED
    BY <1>1, CanaryInduction, PTL

\* Whatever agents have seen, or are about to see, of this run's credentials
\* is in the issuer's maps under the session it was planted for.
THEOREM Watched == Spec => []PlantedIsWatched
  <1>1. CanaryInv => PlantedIsWatched
    BY DEF CanaryInv, IssuerOK, PlantedIsWatched
  <1> QED
    BY <1>1, CanaryInduction, PTL

\* Every alert names the session its token was planted for, in whatever run.
THEOREM Attributed == Spec => []AlertsAttributed
  <1>1. CanaryInv => AlertsAttributed
    BY DEF CanaryInv
  <1> QED
    BY <1>1, CanaryInduction, PTL

\* A session sees another's credential only if an agent wrote it to a file.
THEOREM NotShared == Spec => []PlantedForOneSession
  <1>1. CanaryInv => PlantedForOneSession
    BY DEF CanaryInv, HeldOK, MayHold, PlantedForOneSession
  <1> QED
    BY <1>1, CanaryInduction, PTL
-----------------------------------------------------------------------------
\* What a request mentions was planted; what it is about to report it mentions;
\* what it answers it has reported.
AnsweredOK(q) ==
  rpc[q] = "answer" /\ (\E t \in body[q] : InThisRun(t))
    => match[q] \in body[q] /\ InThisRun(match[q]) /\ Alerted(match[q])

RequestOK(q) ==
  /\ \A t \in body[q] : issued[t] # None
  /\ rpc[q] = "fire" => match[q] \in body[q]
  /\ AnsweredOK(q)

RequestsOK == \A q \in Requests : RequestOK(q)

\* Tokens are planted once and alerts are not withdrawn.
LEMMA AlertsGrow ==
  ASSUME TypeOK, IssuerOK, [Next]_vars
  PROVE  \A a \in Alert : alerts'[a] >= alerts[a]
  <1>1. ASSUME NEW q \in Requests, Fire(q)
        PROVE  \A a \in Alert : alerts'[a] >= alerts[a]
    <2>1. PICK a \in Alert : a = <<tokens[match[q]], match[q]>>
      BY <1>1, Firing DEF Fire, Alert
    <2>2. alerts' = [alerts EXCEPT ![a] = @ + 1]
      BY <1>1, <2>1 DEF Fire
    <2> QED
      BY <2>2 DEF TypeOK
  <1>2. CASE UNCHANGED alerts
    BY <1>2 DEF TypeOK
  <1>3. (\E q \in Requests : Fire(q)) \/ UNCHANGED alerts
    BY DEF Next, Tool, CallTool, ReadResource, ReadFile, ExecShell, Handle, Issue, Respond,
           Agent, WriteFile, Prompt, Fetch, Use, Detect, Scan, Lookup, AnswerRequest, Post,
           Restart, vars, logVars
  <1> QED
    BY <1>1, <1>2, <1>3

\* What a credential of this run was and whether it was reported stays so.
LEMMA AlertedOn ==
  ASSUME TypeOK, TypeOK', Grows, UNCHANGED run, NEW t \in Tokens, issued[t] # None,
         \A a \in Alert : alerts'[a] >= alerts[a]
  PROVE  /\ issued'[t] = issued[t] /\ (InThisRun(t)' <=> InThisRun(t))
         /\ Alerted(t) => Alerted(t)'
  <1>1. issued'[t] = issued[t] /\ (InThisRun(t)' <=> InThisRun(t))
    BY DEF Grows, InThisRun
  <1>2. PICK a \in Alert : a = <<issued[t].session, t>>
    BY DEF TypeOK, Issued, Alert
  <1>3. alerts[a] \in Nat /\ alerts'[a] \in Nat /\ alerts'[a] >= alerts[a]
    BY DEF TypeOK
  <1>4. Alerted(t) => Alerted(t)'
    BY <1>1, <1>2, <1>3 DEF Alerted
  <1> QED
    BY <1>1, <1>4

\* A request that nothing happens to.
LEMMA RequestWaits ==
  ASSUME TypeOK, TypeOK', Grows, UNCHANGED run, NEW q \in Requests, RequestOK(q),
         \A a \in Alert : alerts'[a] >= alerts[a],
         rpc'[q] = rpc[q], body'[q] = body[q], match'[q] = match[q]
  PROVE  RequestOK(q)'
  <1>1. body[q] \subseteq Tokens
    BY DEF TypeOK
  <1>2. \A t \in body[q] :
          /\ issued'[t] # None /\ (InThisRun(t)' <=> InThisRun(t))
          /\ Alerted(t) => Alerted(t)'
    BY <1>1, AlertedOn DEF RequestOK
  <1>3. AnsweredOK(q)'
    <2> SUFFICES ASSUME rpc'[q] = "answer", NEW t \in body[q], InThisRun(t)'
                 PROVE  match[q] \in body[q] /\ InThisRun(match[q])' /\ Alerted(match[q])'
      BY DEF AnsweredOK, InThisRun, Alerted
    <2>1. match[q] \in body[q] /\ InThisRun(match[q]) /\ Alerted(match[q])
      BY <1>2 DEF RequestOK, AnsweredOK
    <2> QED
      BY <1>2, <2>1
  <1> QED
    BY <1>2, <1>3 DEF RequestOK

\* A request is searched as it was sent, and what agents know was planted.
LEMMA RequestSent ==
  ASSUME TypeOK, NEW q \in Requests, NEW where \in {"proxy", "listener"},
         NEW content \in SUBSET Tokens, Use(q, where, content), \A t \in content : issued[t] # None
  PROVE  RequestOK(q)'
  <1>1. body'[q] = content /\ rpc'[q] = "search" /\ issued' = issued
    BY DEF Use, TypeOK
  <1> QED
    BY <1>1 DEF RequestOK, AnsweredOK

\* A request that finds nothing mentions nothing of this run.
LEMMA RequestSearched ==
  ASSUME TypeOK, IssuerOK, NEW q \in Requests, RequestOK(q), Scan(q) \/ Lookup(q)
  PROVE  RequestOK(q)'
  <1>1. UNCHANGED <<body, issued, run, alerts, tokens>> /\ body[q] \subseteq Tokens
    BY DEF Scan, Lookup, TypeOK, issuerVars, logVars
  <1>2. CASE \E t \in Hits(q) : Found(q, t)
    <2>1. PICK t \in body[q] : match'[q] = t /\ rpc'[q] = "fire"
      BY <1>2 DEF Hits, Found, TypeOK
    <2> QED
      BY <1>1, <2>1 DEF RequestOK, AnsweredOK
  <1>3. CASE Hits(q) = {} /\ NothingFound(q)
    <2>1. \A t \in body[q] : ~InThisRun(t)
      <3> SUFFICES ASSUME NEW t \in body[q], InThisRun(t) PROVE FALSE
        OBVIOUS
      <3>1. t \in Tokens /\ tokens[t] = None
        BY <1>1, <1>3 DEF Hits
      <3>2. issued[t] \in Issued /\ tokens[t] = issued[t].session
        BY <3>1 DEF IssuerOK, InThisRun, TypeOK
      <3> QED
        BY <3>1, <3>2, CanaryAssumption DEF Issued
    <2>2. \A t \in body'[q] : ~InThisRun(t)'
      BY <1>1, <2>1 DEF InThisRun
    <2>3. rpc'[q] = "answer"
      BY <1>3 DEF NothingFound, TypeOK
    <2> QED
      BY <1>1, <2>2, <2>3 DEF RequestOK, AnsweredOK
  <1> QED
    BY <1>2, <1>3 DEF Scan, Lookup

\* A request that fires is answered with the alert for what it mentions.
LEMMA RequestFired ==
  ASSUME TypeOK, IssuerOK, NEW q \in Requests, RequestOK(q), Fire(q)
  PROVE  RequestOK(q)'
  <1>1. PICK t \in Tokens : t = match[q]
    BY Firing DEF Fire
  <1>2. t \in body[q] /\ InThisRun(t) /\ issued[t].session = tokens[t] /\ tokens[t] \in Sessions
    BY <1>1, Firing DEF Fire, RequestOK, IssuerOK, TypeOK
  <1>3. UNCHANGED <<body, match, issued, run>> /\ rpc'[q] = "answer"
    BY DEF Fire, TypeOK
  <1>4. PICK a \in Alert : a = <<issued[t].session, t>>
    BY <1>2 DEF Alert
  <1>5. alerts' = [alerts EXCEPT ![a] = @ + 1] /\ alerts[a] \in Nat
    BY <1>1, <1>2, <1>4 DEF Fire, TypeOK
  <1>6. Alerted(t)' /\ InThisRun(t)'
    <2>1. alerts'[a] > 0
      BY <1>5 DEF TypeOK
    <2> QED
      BY <1>2, <1>3, <1>4, <2>1 DEF Alerted, InThisRun
  <1> QED
    BY <1>1, <1>2, <1>3, <1>6 DEF RequestOK, AnsweredOK, InThisRun, Alerted

LEMMA RequestsNext ==
  ASSUME CanaryInv, CanaryInv', RequestsOK, [Next]_vars
  PROVE  RequestsOK'
  <1> SUFFICES ASSUME NEW q \in Requests PROVE RequestOK(q)'
    BY DEF RequestsOK
  <1>1. TypeOK /\ TypeOK' /\ IssuerOK /\ HeldOK /\ Grows /\ RequestOK(q)
    BY Growing DEF CanaryInv, RequestsOK
  <1>2. \A a \in Alert : alerts'[a] >= alerts[a]
    BY <1>1, AlertsGrow DEF TypeOK
  <1>3. ASSUME NEW p \in Requests, p # q, Detect(p) \/ AnswerRequest(p)
        PROVE  RequestOK(q)'
    <2>1. UNCHANGED run /\ rpc'[q] = rpc[q] /\ body'[q] = body[q] /\ match'[q] = match[q]
      BY <1>1, <1>3 DEF Detect, Scan, Lookup, Found, NothingFound, Fire, AnswerRequest, TypeOK
    <2> QED
      BY <1>1, <1>2, <2>1, RequestWaits
  <1>4. CASE AnswerRequest(q)
    <2>1. body'[q] = {} /\ rpc'[q] = "idle"
      BY <1>1, <1>4 DEF AnswerRequest, TypeOK
    <2> QED
      BY <2>1 DEF RequestOK, AnsweredOK
  <1>5. CASE Detect(q)
    BY <1>1, <1>5, RequestSearched, RequestFired DEF Detect
  <1>6. ASSUME NEW p \in Requests, NEW where \in {"proxy", "listener"},
               NEW content \in SUBSET Tokens, Use(p, where, content),
               \A t \in content : issued[t] # None
        PROVE  RequestOK(q)'
    <2>1. CASE p = q
      BY <1>1, <1>6, <2>1, RequestSent
    <2>2. CASE p # q
      <3>1. UNCHANGED run /\ rpc'[q] = rpc[q] /\ body'[q] = body[q] /\ match'[q] = match[q]
        BY <1>1, <1>6, <2>2 DEF Use, TypeOK
      <3> QED
        BY <1>1, <1>2, <3>1, RequestWaits
    <2> QED
      BY <2>1, <2>2
  <1>7. CASE Restart
    <2>1. body'[q] = {} /\ rpc'[q] = "idle"
      BY <1>7 DEF Restart
    <2> QED
      BY <2>1 DEF RequestOK, AnsweredOK
  <1>8. CASE UNCHANGED <<rpc, body, match, run>>
    BY <1>1, <1>2, <1>8, RequestWaits
  <1>9. ASSUME NEW p \in Requests, NEW content \in SUBSET Known, Prompt(p, content)
        PROVE  RequestOK(q)'
    <2>1. content \subseteq Tokens /\ \A t \in content : issued[t] # None
      BY <1>1, KnownType DEF HeldOK, MayHold, Known
    <2> QED
      BY <1>6, <1>9, <2>1 DEF Prompt
  <1>10. ASSUME NEW p \in Requests, NEW content \in SUBSET Tokens, Fetch(p, content)
         PROVE  RequestOK(q)'
    BY <1>6, <1>10 DEF Fetch
  <1>11. \/ \E p \in Requests : Detect(p) \/ AnswerRequest(p)
         \/ \E p \in Requests : \E content \in SUBSET Known : Prompt(p, content)
         \/ \E p \in Requests : \E content \in SUBSET Tokens : Fetch(p, content)
         \/ Restart
         \/ UNCHANGED <<rpc, body, match, run>>
    BY DEF Next, Tool, CallTool, ReadResource, ReadFile, ExecShell, Handle, Issue, Respond,
           Agent, WriteFile, Post, vars, requestVars
  <1> QED
    BY <1>3, <1>4, <1>5, <1>7, <1>8, <1>9, <1>10, <1>11

\* The proxy forwards and the listener answers a use of this run's credentials
\* only after an alert that names one of those used.
THEOREM NoSilentUse == Spec => []AnsweredAfterAlert
  <1>1. Init => RequestsOK
    BY DEF Init, RequestsOK, RequestOK, AnsweredOK
  <1>2. CanaryInv /\ CanaryInv' /\ RequestsOK /\ [Next]_vars => RequestsOK'
    BY RequestsNext
  <1>3. RequestsOK => AnsweredAfterAlert
    BY DEF RequestsOK, RequestOK, AnsweredOK, AnsweredAfterAlert
  <1> QED
    BY <1>1, <1>2, <1>3, CanaryInduction, PTL DEF Spec
=============================================================================
