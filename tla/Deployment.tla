----------------------------- MODULE Deployment -----------------------------
(***************************************************************************)
(* An installation: the wizard (runSetup, cmd/wasphole/cmd_setup.go)       *)
(* writes config.yaml, servers (runServer, cmd_server.go) load it, and     *)
(* find or create identity.json (LoadOrCreate, internal/ai/identity.go) in *)
(* the cache directory.                                                    *)
(*                                                                         *)
(* Wizard and servers are processes of their own that share only the       *)
(* files.  Files are written in place, in two steps, and every process may *)
(* be killed between any two of its steps.                                 *)
(***************************************************************************)
EXTENDS Configuration, FiniteSets

CONSTANTS
  Procs,        \* server processes
  Inputs,       \* the lines that may be typed, by question
  Numbers,      \* those of them that Atoi takes for positive numbers, with what Itoa makes of them
  BadURLs,      \* upstream URLs that url.Parse refuses
  HandWritten,  \* documents written by hand, one of which may be there at first
  None, Torn,
  Cut,          \* what is left of a line of which the end is missing
  MaxSetups, MaxStarts, MaxFaults  \* bounds

ASSUME DeploymentAssumption ==
  /\ IsFiniteSet(Procs)
  /\ \A doc \in HandWritten : DOMAIN doc \subseteq Keys
  /\ None # Torn /\ Torn \notin Nat /\ None \notin Nat
  /\ MaxSetups \in Nat /\ MaxStarts \in Nat /\ MaxFaults \in Nat

VARIABLES
  step,     \* the wizard: idle, a question, or a step after the last
  answers, eof, setups,
  file,     \* config.yaml: None, or a document
  written,  \* the answers that it holds in full, or None
  pc, conf, heard,  \* the servers: step, configuration, the answers it stems from
  id,       \* the identity a server has; identities are numbered as they are generated
  idFile,   \* identity.json: None, Torn or an identity
  count,    \* generated identities
  starts, faults,
  raced,    \* two servers were creating the identity at once
  spoilt    \* a whole identity.json could not be read

wizard == <<step, answers, eof, setups>>
config == <<file, written>>
server == <<pc, conf, heard, id>>
bounds == <<starts, faults>>
vars == <<wizard, config, server, idFile, count, bounds, raced, spoilt>>

Blank == [i \in {Questions[j] : j \in DOMAIN Questions} |-> ""]
Running == {"stdio", "plain", "tls", "acme", "deaf"}
Creating == {"generate", "open", "write"}

TypeOK ==
  /\ step \in {"idle", "stat", "overwrite", "truncate", "fill"} \cup DOMAIN Blank
  /\ DOMAIN answers = DOMAIN Blank
  /\ eof \in BOOLEAN /\ setups \in 0..MaxSetups
  /\ file = None \/ DOMAIN file \subseteq Keys
  /\ written # None => file = Document(written)
  /\ pc \in [Procs -> {"off", "prepare", "find", "serve"} \cup Creating \cup Running]
  /\ \A p \in Procs : pc[p] # "off" => DOMAIN conf[p] = Keys /\ Valid(conf[p])
  /\ \A p \in Procs : pc[p] \in {"open", "write", "serve"} \cup Running => id[p] \in 1..count
  /\ idFile \in {None, Torn} \cup 1..count
  /\ count \in 0..MaxStarts /\ starts \in 0..MaxStarts /\ faults \in 0..MaxFaults
  /\ raced \in BOOLEAN /\ spoilt \in BOOLEAN

Init ==
  /\ step = "idle" /\ answers = Blank /\ eof = FALSE /\ setups = 0
  /\ file \in {None} \cup HandWritten /\ written = None
  /\ pc = [p \in Procs |-> "off"]
  /\ conf = [p \in Procs |-> Refused]
  /\ heard = [p \in Procs |-> None]
  /\ id = [p \in Procs |-> 0]
  /\ idFile = None /\ count = 0
  /\ starts = 0 /\ faults = 0
  /\ raced = FALSE /\ spoilt = FALSE
-----------------------------------------------------------------------------
Fault == faults < MaxFaults /\ faults' = faults + 1
Others == <<server, idFile, count, bounds, raced, spoilt>>

\* The wizard's process ends, and its answers with it.
Leave == step' = "idle" /\ answers' = Blank /\ eof' = FALSE

Setup ==
  /\ step = "idle" /\ setups < MaxSetups
  /\ step' = Questions[1] /\ answers' = Blank /\ eof' = FALSE /\ setups' = setups + 1
  /\ UNCHANGED <<config, Others>>

\* pickOne asks until it gets one of its options; askFree has a default; a port
\* that is no positive number is replaced by the default, and one that is by the
\* number.
Accepted(q, line) ==
  IF Options(q) # {} THEN line \in Options(q) ELSE TRUE
Value(q, line) ==
  IF line = "" \/ (q = "port" /\ line \notin DOMAIN Numbers) THEN Default(q, answers)
  ELSE IF q = "port" THEN Numbers[line] ELSE line

NextQuestion(a) ==
  LET open == {i \in DOMAIN Questions : Asked(Questions[i], a) /\ \E j \in 1..i - 1 : Questions[j] = step}
  IN IF open = {} THEN "stat" ELSE Questions[CHOOSE i \in open : \A j \in open : i <= j]

\* A line is typed.  At the end of the input every line reads as blank: askFree
\* takes its default, and pickOne asks for ever.
Reply ==
  /\ step \in DOMAIN Blank
  /\ \E line \in (IF eof THEN {""} ELSE Inputs[step]) :
       /\ Accepted(step, line)
       /\ answers' = [answers EXCEPT ![step] = Value(step, line)]
       /\ step' = NextQuestion(answers')
  /\ UNCHANGED <<eof, setups, config, Others>>

EndOfInput ==
  /\ step \in {"overwrite"} \cup DOMAIN Blank
  /\ ~eof /\ eof' = TRUE
  /\ UNCHANGED <<step, answers, setups, config, Others>>

Stat ==
  /\ step = "stat"
  /\ step' = IF file = None THEN "truncate" ELSE "overwrite"
  /\ UNCHANGED <<answers, eof, setups, config, Others>>

\* The default is no.
Overwrite ==
  /\ step = "overwrite"
  /\ \/ ~eof /\ step' = "truncate" /\ UNCHANGED <<answers, eof>>
     \/ Leave
  /\ UNCHANGED <<setups, config, Others>>

\* os.WriteFile: the file is emptied, or cannot be opened,
Truncate ==
  /\ step = "truncate"
  /\ \/ step' = "fill" /\ file' = Empty /\ written' = None /\ UNCHANGED <<answers, eof, faults>>
     \/ Fault /\ Leave /\ UNCHANGED config
  /\ UNCHANGED <<setups, server, idFile, count, starts, raced, spoilt>>

\* What may be there of a document after its writer was stopped: the lines before
\* one, alone or with a part of it.
Ruins(doc) ==
  UNION {LET before == {Lines[j] : j \in 1..i - 1} \cap DOMAIN doc IN
         {[key \in before |-> doc[key]]}
           \cup {[key \in before \cup {Lines[i]} |-> IF key = Lines[i] THEN t ELSE doc[key]] : t \in {Cut, Broken}}
         : i \in {k \in DOMAIN Lines : Lines[k] \in DOMAIN doc}}

\* and filled, or left with a part.
Fill ==
  /\ step = "fill" /\ Leave
  /\ \/ file' = Document(answers) /\ written' = answers /\ UNCHANGED faults
     \/ Fault /\ file' \in Ruins(Document(answers)) /\ written' = None
  /\ UNCHANGED <<setups, server, idFile, count, starts, raced, spoilt>>

KillSetup ==
  /\ step # "idle" /\ Leave
  /\ UNCHANGED <<setups, config, Others>>
-----------------------------------------------------------------------------
Rest == <<wizard, config>>
Go(p, s) == pc' = [pc EXCEPT ![p] = s]
\* A server's process ends.
Exit(p) ==
  /\ Go(p, "off")
  /\ conf' = [conf EXCEPT ![p] = Refused]
  /\ heard' = [heard EXCEPT ![p] = None]
  /\ id' = [id EXCEPT ![p] = 0]

\* config.Load; a server that cannot load it exits.
LoadConfig(p) ==
  /\ pc[p] = "off" /\ starts < MaxStarts
  /\ file # None
  /\ LET c == Load(file) IN
     /\ c # Refused
     /\ conf' = [conf EXCEPT ![p] = c]
  /\ heard' = [heard EXCEPT ![p] = written]
  /\ Go(p, "prepare")
  /\ starts' = starts + 1
  /\ UNCHANGED <<Rest, id, idFile, count, faults, raced, spoilt>>

\* NewFileRecorder, sim.New (see SimulatedHost) and NewClient.
Prepare(p) ==
  /\ pc[p] = "prepare"
  /\ \/ Go(p, "find") /\ UNCHANGED <<conf, heard, id, faults>>
     \/ Exit(p) /\ Fault
  /\ UNCHANGED <<Rest, idFile, count, starts, raced, spoilt>>

\* Mutant: the file is taken for absent when it was written long ago.
FindNothing(p) ==
  /\ pc[p] = "find"
  /\ Go(p, "generate")
  /\ UNCHANGED <<Rest, conf, heard, id, idFile, count, bounds, raced, spoilt>>

\* LoadOrCreate: an identity that is found whole is taken; one that is torn, or
\* cannot be read, is made anew.
Find(p) ==
  /\ pc[p] = "find"
  /\ \/ /\ idFile \notin {None, Torn}
        /\ id' = [id EXCEPT ![p] = idFile]
        /\ Go(p, "serve")
        /\ UNCHANGED <<faults, raced, spoilt>>
     \/ /\ Go(p, "generate")
        /\ raced' = (raced \/ \E q \in Procs : pc[q] \in Creating)
        /\ spoilt' = (spoilt \/ idFile \notin {None, Torn})
        /\ IF idFile \notin {None, Torn} THEN Fault ELSE UNCHANGED faults
        /\ UNCHANGED id
  /\ UNCHANGED <<Rest, conf, heard, idFile, count, starts>>

\* generate: the provider answers in the form asked for, or the server exits.
Generate(p) ==
  /\ pc[p] = "generate"
  /\ \/ Go(p, "open") /\ count' = count + 1 /\ id' = [id EXCEPT ![p] = count'] /\ UNCHANGED <<conf, heard, faults>>
     \/ Exit(p) /\ Fault /\ UNCHANGED count
  /\ UNCHANGED <<Rest, idFile, starts, raced, spoilt>>

\* MkdirAll, and the first half of WriteFile.
OpenIdentity(p) ==
  /\ pc[p] = "open"
  /\ \/ Go(p, "write") /\ idFile' = Torn /\ UNCHANGED <<conf, heard, id, faults>>
     \/ Exit(p) /\ Fault /\ UNCHANGED idFile
  /\ UNCHANGED <<Rest, count, starts, raced, spoilt>>

\* The second half of WriteFile.
WriteIdentity(p) ==
  /\ pc[p] = "write"
  /\ \/ Go(p, "serve") /\ idFile' = id[p] /\ UNCHANGED <<conf, heard, id, faults>>
     \/ Exit(p) /\ Fault /\ UNCHANGED idFile
  /\ UNCHANGED <<Rest, count, starts, raced, spoilt>>

\* The rest of runServer: a proxy with a bad upstream is fatal; a listener that
\* fails, for want of a key, a free port or a readable certificate, is an error in
\* the log of a process that goes on waiting for its signal.
Serve(p) ==
  /\ pc[p] = "serve"
  /\ IF conf[p]["proxyAddr"] # "" /\ conf[p]["upstream"] \in BadURLs
     THEN Exit(p) /\ UNCHANGED faults
     ELSE /\ LET keyless == Listens(conf[p]) = "tls" /\ conf[p]["key"] = "" IN
             \/ Go(p, IF keyless THEN "deaf" ELSE Listens(conf[p])) /\ UNCHANGED faults
             \/ Listens(conf[p]) # "stdio" /\ ~keyless /\ Go(p, "deaf") /\ Fault
          /\ UNCHANGED <<conf, heard, id>>
  /\ UNCHANGED <<Rest, idFile, count, starts, raced, spoilt>>

\* A signal, the end of standard input, or a kill at any step.
End(p) ==
  /\ pc[p] # "off" /\ Exit(p)
  /\ UNCHANGED <<Rest, idFile, count, bounds, raced, spoilt>>

Wizard == Setup \/ Reply \/ EndOfInput \/ Stat \/ Overwrite \/ Truncate \/ Fill \/ KillSetup
Server(p) ==
  \/ LoadConfig(p) \/ Prepare(p) \/ Find(p) \/ Generate(p) \/ OpenIdentity(p)
  \/ WriteIdentity(p) \/ Serve(p) \/ End(p)

Next == Wizard \/ \E p \in Procs : Server(p)

Spec == Init /\ [][Next]_vars
-----------------------------------------------------------------------------
\* What is asked of YAML: it reads what the wizard writes of its own as it stands,
\* and does not take for nothing a name for which the server has a default, or
\* whose absence means something else.
ReadsBack ==
  /\ Broken # "" /\ Bare[""] = "" /\ Quoted[""] = ""
  /\ \A w \in {"http", "true", "443", "8080"} \cup {Numbers[n] : n \in DOMAIN Numbers} :
       w \notin {"", Broken} /\ Bare[w] = w
  /\ \A q \in {"model", "cacheDir", "logDir"} :
       \A v \in Inputs[q] \cup {"gpt-4o", "claude-sonnet-4-6", "./cache", "./sessions"} : v # "" => Bare[v] # ""
  /\ \A q \in {"cert", "acmeDomain"} : \A v \in Inputs[q] : v # "" => Quoted[v] # ""

\* YAML leaves a line as it stands, the way the wizard writes it for q: a bare one
\* has no number sign after a space, a quoted one no backslash.
Stands(q, line) == Reads(q, line) = line

\* How a server listens that was asked for TLS in full, or for none.
Serves(c, a) ==
  /\ a["tls"] = "none" => Listens(c) = "plain"
  /\ a["tls"] = "cert + key" /\ a["cert"] # "" /\ a["key"] # "" => Listens(c) = "tls"
  /\ a["tls"] = "Let's Encrypt" /\ a["acmeDomain"] # "" => Listens(c) = "acme"

\* Configuration c has the answers a as they were typed, and nothing for what was
\* not asked.
Has(c, a) ==
  /\ \A q \in DOMAIN a \ {"tls", "siem", "port"} : Stands(q, a[q]) => c[q] = a[q]
  /\ a["transport"] = "http" =>
       /\ Serves(c, a)
       /\ c["port"] = IF a["tls"] = "Let's Encrypt" THEN "443" ELSE a["port"]
  /\ c["stdoutOn"] = "true"
  /\ (c["webhookOn"] = "true") <=> (a["webhook"] # "")
  /\ (c["siemOn"] = "true") <=> (a["siem"] # "none")
  /\ a["siem"] # "none" /\ Stands("siem", a["siem"]) => c["siem"] = a["siem"]

\* A server that loaded what a wizard wrote in full runs with what was typed, where
\* YAML leaves it as it stands: buildConfig and Load agree, also on a question that
\* was not asked.  Of the TLS answers only complete ones are spoken of: for a
\* certificate without a key see HalfTLSDoesNotStart.
AnswersKept ==
  \A p \in Procs : pc[p] # "off" /\ heard[p] # None => Has(conf[p], heard[p])

\* identity.go: "Subsequent startups with the same cacheDir will always return the
\* cached identity".  Every server that is up has the identity of the file, and so
\* the same as any that was up before it, also after crashes and failures at every
\* step; unless two servers created it at once, or a read of it failed.
IdentityReused ==
  ~raced /\ ~spoilt => \A p \in Procs : pc[p] \in {"serve"} \cup Running => idFile = id[p]

\* docs/transports.md: "Both cert_file and key_file must be provided together.
\* wasphole will not start if one is missing."  A server with a key alone serves
\* plain HTTP, and one with a certificate alone goes on without listening.
HalfTLSDoesNotStart ==
  \A p \in Procs : pc[p] \in Running => ~HalfTLS(conf[p])
=============================================================================
