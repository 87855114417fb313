# wasphole in TLA+

wasphole is a honeypot for AI agents. One process serves the MCP protocol: it
simulates a computer, answers from an AI model, plants credentials nobody
should use, and reports what its visitors do. This directory models it in TLA+,
checks the models with TLC and proves their main properties with TLAPS.
Sources are cited by path under the repository; `PROJECT.json` gives for each
definition the lines it translates.

    tlc -workers 2 -config Cache.cfg MCResponseCache     # one run
    tlapm ResponseCacheProofs.tla                        # one module's proofs

## The system

| component | state | operations | interacts by |
|---|---|---|---|
| alert engine, `internal/alert/alert.go` | `sync.Map` session id -> `*sessionState`: paths read, tool classes used, read times, errors per tool, patterns raised; a mutex per state | InitSession, FinalizeSession, EmitConnection, ObserveSuccess, ObserveError, ObserveCanaryFire | called by MCP hooks, by the canary listener and the proxy; calls Dispatcher.Emit |
| dispatcher and sinks, `alert.go`, `sinks.go` | the handle of the SIEM file, opened by its first event, and a mutex | Emit: one goroutine per sink and event, five seconds each; Send of stdout, webhook and SIEM sinks | fed by the engine |
| response cache, `internal/ai/cache.go` | one file per key, a single-flight group | Get | called by tool and resource handlers; calls the AI provider |
| identity, `internal/ai/identity.go` | `identity.json` in the cache directory | LoadOrCreate at startup | read by tools, resources, simulation |
| AI clients, `internal/ai/ai.go` | none | Generate | called by the cache and at startup |
| session recorder, `internal/session/recorder.go` | one append-only file and handle per session, one mutex | RecordRequest, RecordResponse, RecordError, Close | called by MCP hooks |
| export and replay, `internal/session/replay.go` | none | Export, ExportReplay | read the recorder's files, also while it writes |
| canary issuer, `internal/canary/canary.go` | maps id -> token and credential -> token, an RWMutex | Issue, Lookup, Scan, InjectCredential | handlers plant, listener and proxy look up |
| canary listener, `internal/canary/listener.go` | callbacks under way | ServeHTTP, fireCallback | issuer, engine, an outside server |
| proxy, `internal/proxy/proxy.go` | none | ServeHTTP: scan, alert, forward | issuer, engine, upstream model |
| tools and resources, `internal/mcp/tools.go`, `resources.go` | none of their own | the handlers | cache, issuer, simulated system |
| MCP server, `internal/mcp/server.go` | sessions (mcp-go) | hooks around each request | engine, recorder |
| simulated system, `internal/sim` | what was drawn at startup, `sim_state.json`, the files agents wrote and a mutex | New, read, write, shell commands, registry, WMI | tools, resources |
| configuration, `internal/config` | none | Load, defaults, validation | reads `config.yaml` at startup |
| setup wizard, `cmd/wasphole/cmd_setup.go` | the answers so far | a dialogue of up to 25 questions, buildConfig | writes `config.yaml` |
| commands, `cmd/wasphole` | none | server, sessions, replay | everything |

Every MCP request, HTTP request, callback and event delivery runs on a goroutine
of its own. What is hard:

- *Interleaving.* The engine loads a pointer, then locks, then unlocks, then
  emits, while the session may be finalised or registered anew. The cache reads
  the disk outside any lock. The recorder stamps an entry before it locks. Wizard
  and servers share files and nothing else.
- *Order inside one call.* The detectors return at the first that fires.
  A credential must be in the maps before an agent can see it.
- *Failure.* The provider, the disk, the callback's and the webhook's servers may
  fail or hang; writes may be short; every file but the recorder's is written in
  place; a process may be killed between any two steps.
- *Memory and disk.* Tokens and agents' files live in memory; cached responses,
  records, identity and persisted host state outlive the process; agents keep
  what they have seen.
- *Sharing.* Cached texts and files are shared by all sessions, tokens are not.

## What correct means, by component

- *engine*: each behavioural pattern is emitted once per registration and never
  lost; a pattern that happened is raised, one that is raised happened.
- *dispatcher*: each sink tries each event once and puts it out at most once; a
  failure costs its own event; a slow sink delays no other.
- *cache*: one generation per key; an answer is what the file holds, and a whole
  file is final; nobody is left waiting behind a flight that failed.
- *recorder*: what was written can be replayed, in order, and stays so; where that
  fails, it does for a reason that is named.
- *canary*: no window between planting and watching; alerts name the right
  session; credentials do not leak through caches; a use raises an alert.
- *host*: a read gives what was stored last (through `read_file` on a secret path,
  without code fences); listings show what was stored;
  what the host says of itself agrees, in one process and across restarts.
- *deployment*: a server runs with what was typed into the wizard; the identity is
  made once and never replaced.

## Modules

| module | what it is |
|---|---|
| `AlertEngine` | the engine and the hooks that drive it |
| `AlertHistory` | extends it with a record of what was observed, to compare with what was raised |
| `AlertDelivery` | abstract specification: each event once per sink |
| `AlertDispatch` | Emit's goroutines and the sinks; implements `AlertDelivery` |
| `ResponseStore` | abstract specification: a write-once store |
| `ResponseCache` | `Get` step by step; implements `ResponseStore` |
| `SessionRecorder` | the recorder, its files, the operators that read them |
| `Canary` | issuer, planting handlers, listener, proxy, and agents that remember and share |
| `SimulatedHost` | the simulated Linux and Windows computers, their files and their persisted state |
| `Configuration` | operators: the wizard's questions, the document it writes, what Load makes of one |
| `Deployment` | extends it: wizard and servers as processes, `config.yaml`, `identity.json` |
| `MC*` | constants and symmetry for TLC |
| `*Proofs` | theorems about the module they are named for |

Operators named "Mutant" in their comment are plausible mistakes (a dropped
guard, an off-by-one); put in place of the definition that follows them they
make the property they are meant for fail, which shows the property is not
vacuous. They are used by no specification.

### AlertEngine, AlertHistory

`sessions` is the map, `States` the heap objects it points to: one object per
InitSession, its fields the functions `reconPaths`, `has`, `recentReads`,
`errCounts`, `alerted`. A hook (`Calls`) does three steps: `LoadSession` (the
pointer), one `Observe*` action (all detectors under the mutex; one action per
way of returning), `Emit` (after the unlock). `FinalizeSession` and
`InitSession` may come between any two of them. OnRegisterSession is two steps
too, InitSession and EmitConnection. A call of a failed tool is observed as a
success unless the handler returned a Go error (`ObservedAsSuccess`), as the
`AfterCallTool` hook has it.

Paths stand for the keyword lists they match. `Inputs` are the requests the
hooks can pass. `AlertHistory` adds variables that are never read by the engine:
classes used, paths and credential paths read, times of all reads, failures as
the client sees them.

### AlertDelivery, AlertDispatch

`Conf` are the configured sinks; `Sinks` those which NewEngine takes, so not the
disabled ones and no webhook without a URL. `job[e][s]` is where the goroutine of
event `e` and sink `s` is. The webhook's POST, its arrival, its answer and the
deadline are steps of their own: `wire[s]` are the events on their way to the
server, which may take them after the deadline, or after the process has exited. The SIEM sink takes its mutex (`Lock`), chooses its writer (`Writer`: the
open file, or one it opens now, or stderr), and writes (`WriteLine`), whole, in part
or not at all. `out[s]` is what has left the sink and where to. `faults` is a ghost:
the events whose own sending met an error. `Exit` loses what is under way.

`AlertDelivery` has a state per event and sink (none, pending, sent, failed, lost)
and puts an event out (`Try`) only if it has not yet. After the result of a try, or
the exit, one copy may still arrive at a sink that is on another machine (`Late`).
The refinement maps `copies` to the number of chunks of the event in `out[s]`,
whatever it is, so a second one would break it. Locks, files and deadlines are
mapped away. What net/http does within one POST (redirects, a connection that
breaks) counts as one request.

### ResponseStore, ResponseCache

`ResponseStore` knows neither flights nor files: a key is absent, being written,
or settled; a question is answered with what the key holds or refused.
`ResponseCache` has an action per step of `Get`: lookup, join (lead or follow),
recheck, generate, mkdir, open (truncates), write, finish, return. Texts are
numbered by generation, so a second generation is visible. `Faults` names the
calls that may fail. The refinement maps `disk`, the callers in `write`, `key`
and `got`; a crash is a `Crash` of the store.

The cache key is a perfect hash, and prompts and fence stripping are data.

### SessionRecorder

A goroutine stamps an entry (`RecordRequest`; `RecordResult` for a response or an
error; `RecordRefusal` for the error of a message that is unparsable or not
supported, for which BeforeAny is not called), then writes it under the mutex
(`Write`). The file of a session is a sequence of chunks, each what one `f.Write`
added: how many bytes of which entry, whether the newline too, and how long the line
is with them, so that lines glued by short writes have their true length. `Scanned`
are the chunks whose entries Export has read when its scan ends: those alone on
their line, up to the first line longer than the scanner's 64 KiB. `Replayed` is
ExportReplay, which returns nothing when the scan ended with an error
(`Unreadable`), so one line too long also costs the lines before it. `Close` empties the map, so an entry written
later opens the file anew; `Restart` covers both a clean exit and a kill. Two
ghosts: `made` are the entries whose write returned, `lost` those of them that did
not get into the file in full, since it could not be opened or the write was short.

### Canary

A token is its id and its credential; a text is the set of credentials (and
perhaps the placeholder) in it. A handler takes a text from a file, the cache or
nothing, plants a token in it (`Issue`) in one of two ways, and responds. read_file
injects (`Injected`): the placeholder stays, what is outside of code fences may go,
and a text that begins like JSON may have no place for the credential. The other
tools replace the placeholder (`Replaced`). `held` is what the agents
of each session have seen. Agents write what they hold to files, which are
shared, send prompts that mention any of it to the proxy, and fetch canary URLs.
A request is searched (`Scan`, `Lookup`), reported (`Fire`) and answered; `Scan`
picks any match, as ranging over a Go map does. `Restart` clears the maps and
the files, not what agents hold. mcp-go, net/http and the upstream model appear
only as the freedom of these steps.

### SimulatedHost

`Start` is `sim.New` with `loadOrCreatePersisted`: `drawn` is what the faker draws,
the same in every process if the configuration has a seed, and `kept` boot time and
machine id, taken from `sim_state.json` if it is whole. A process that dies while it
writes that file leaves it torn. `Handle` is a tool or resource handler: a call takes
the mutex at most once, and what it reads beside is constant, so it is one step.
`Text` are the strings, and `Fenced` says what stripFences leaves of those with code
fences: read_file shows that on secret paths (`Stripped`), cat the whole. `Stores` is what it leaves in the map of written files, `LinuxAnswer` and
`WindowsAnswer` what it answers: every command of the two shells, every fixed file,
registry keys and WMI classes. An answer is abstracted to the facts an agent learns
from it, pairs of a topic and a value. `Panic` is the one command that panics.

### Configuration, Deployment

A document maps the keys that have a line to the text of it; the wizard writes them
in the order of `Lines`, so one cut short (`Ruins`) has the first of them, with
perhaps part of one more. What YAML makes of a text, bare or quoted, is a pair of
functions given as constants, and so is what Atoi and Itoa make of a port. `Asked`,
`Default`, `Options` are the dialogue, `Document` is buildConfig, `Load` reads,
applies defaults and validates, `Listens` is runServer's choice of a listener.

In `Deployment` the wizard takes a line at a time (`Reply`), may meet the end of its
input, asks before it overwrites, and writes in two steps. A server loads the
configuration, prepares, finds or generates and writes an identity, and serves.
Identities are numbered by generation. `Fault` steps are the errors: disk, provider,
port. `heard` and `written` are ghosts: the answers a configuration stems from.

## Runs

| run | module, cfg | shows |
|---|---|---|
| `alert_sequential` | `MCAlertHistory`, `AlertSequential.cfg` | the code's thresholds (3 paths, 5 reads, 3 errors), every sequence of nine calls and three ticks: escalation and recon are never missed, seven reads in a window raise exfil, nothing false is raised |
| `alert_concurrent` | `MCAlert`, `AlertConcurrent.cfg` | two hooks, two registrations of one id, canary alerts: once per registration, nothing lost, and what is decided is emitted |
| `dispatch` | `MCAlertDispatch`, `Dispatch.cfg` | two events; a console that may hang, a webhook, a SIEM file, a disabled sink and a webhook without URL: implements `AlertDelivery` also with late arrivals, failures are local, the mutex is released, no sink holds up another |
| `cache` | `MCResponseCache`, `Cache.cfg` | three callers, two keys, failures, a crash: one flight, one generation, write-once store, nobody left in a flight that is over, every Get returns |
| `recorder` | `MCSessionRecorder`, `Recorder.cfg` | two hooks, two sessions, one descriptor, short writes, long lines, no JSON, refusals, Close and a restart: what was not lost is replayed, in order, and stays so, but for a line too long |
| `canary_safety` | `MCCanary`, `CanarySafety.cfg` | two sessions that share a cache and files, and a restart: planted is watched, alerts name the right session and precede the answer, credentials stay with their session |
| `canary_liveness` | `MCCanary`, `CanaryLiveness.cfg` | a use of this run's credentials raises an alert |
| `host` | `MCSimulatedHost`, `Host.cfg` | any three calls to either host, in up to two processes, one fault: last store as `read_file` and `cat` show it, listings, agreement of facts |
| `deployment` | `MCDeployment`, `Deployment.cfg` | a wizard, two servers, kills and a fault anywhere: what was typed and YAML keeps is what runs, one identity |
| `alert_failures_missed`, `cache_torn_file`, `half_tls` | | refute a statement of the repository, see below |

### Bounds, and why they are enough

- `alert_sequential`: nine calls are the three paths, the three classes, and
  two more reads than the bulk threshold; a window of one tick and three ticks
  of time let reads fall in and out of it. One session, one hook: the detectors
  run under one mutex per state, and share nothing between states.
- `alert_concurrent`: thresholds of two let a pattern be completed by two hooks
  that overlap; two states let the second registration come while a hook holds
  the first. The third call comes after the pattern was raised, or for the
  second registration. No symmetry, since liveness is checked.
- `dispatch`: a second event is what a mutex, an open file, a torn line and a
  hanging sink can affect; sinks of one type share nothing with each other. The
  state grows with the product of the sinks, so a SIEM sink that goes to stderr
  for want of a path is left to the proofs, and failures are not bounded.
- `cache`: three callers are a leader, a follower, and one who comes late
  or for another key; two keys show flights do not mix; three Gets and one crash
  let a flight fail, a second succeed and a third find the file or its ruin.
  No symmetry, since liveness is checked.
- `recorder`: two goroutines and two sessions interleave; two calls are four
  entries, which lets lines follow each other, be glued to what a short write
  left, and stand behind a long one; two processes put a restart and a Close
  anywhere. One descriptor for two sessions is the limit of open files. Entries have
  one byte or three where a line may have two: one that fits, two that do not once
  glued, one that does not alone; zero is no JSON.
- `canary_*`: two sessions and two tokens are what wrong attribution and sharing
  need; one write carries one token across; two runs make a token of an earlier
  process be used in a later one. The liveness run drops the second session and
  files, on which detection does not depend, and has two requests at once.
- `host`: three calls are a store, what may disturb it, and a read or listing;
  two facts that disagree need two calls. Two processes and one fault tear or hide
  `sim_state.json` between them. The calls cover each kind of command, file and
  directory; two hosts to draw from differ in every value.
- `deployment`: one run of the wizard, over all its branches; three starts of two
  servers race for the identity and come back after a failure; one fault or any
  number of kills, anywhere. Typed values include one that YAML changes bare and
  one it changes quoted, of which nothing is claimed, and certificates with and
  without a name.

The counters are bounded by constants in the guards (`MaxClock`, `MaxCalls`,
`MaxCanaryFires`, `MaxGets`, `MaxCrashes`, `MaxRuns`, `MaxUses`, `MaxWrites`,
`MaxSetups`, `MaxStarts`, `MaxFaults`, the length of `Epochs`). A model that has
spent its bounds stops, so deadlock is not checked. Symmetry is used where no
liveness property is: session ids, states, hooks, callers, tokens and processes
are never compared but for equality.

### Fairness

- `AlertEngine`: weak fairness of `Observe` and `Emit` of each hook that has
  started. Goroutines are scheduled, and no mutex is held across a blocking
  call. Calls, ticks, registrations are not fair.
- `AlertDispatch`: weak fairness, per event and sink, of the steps of this machine
  (`Local`): starting the POST, the five seconds running out, and the writes of
  sinks outside `Hangs`. The webhook's server is not fair, nor are writers that
  may hang: stdout and the SIEM file heed no deadline. `Exit` may come any time,
  and counts as the end of a try.
- `ResponseCache`: weak fairness of the steps that need this machine only
  (`Local`). `Generate` is not fair: the clients set no time limit. Hence
  `EveryGetReturns` says that a caller returns *or* somebody's request for its
  key is unanswered.
- `Canary`: weak fairness of `Scan`, `Lookup` and `Fire`, which wait for the
  issuer's lock at most. The upstream model, the callback's server, handlers and
  agents are not fair.
- `SimulatedHost`, `Deployment`, `SessionRecorder` assume none.

## Statements the code does not keep

Checked by runs that TLC must find violated; `PROJECT.json` quotes the lines.

- `FailuresAlerted`: tool handlers return their errors as results, which the
  hook observes as successes; clients that see only errors raise no retry alert.
- `WholeFiles`: a cached response is written in place; what a crash or a full
  disk leaves of it is served for good.
- `HalfTLSDoesNotStart` (docs/transports.md:74): with a key alone the server
  serves plain HTTP, with a certificate alone it goes on without a listener.

The models refute more statements, which are defined beside the properties and
can be seen by adding them to a configuration: `CanaryAtMostOnce`
(docs/detection.md, "at most once per session": true of behavioural patterns, not
of canaries), `WholeAnswers` (the lookup without a lock may read a file between its
truncation and its write), `EveryUseDetected` (docs/canary-tokens.md: of several
credentials in one prompt one is reported), `CallbackOnFire` and `IssuedRecorded`
(only the listener posts), and `CallsBounded` with `"read"` in `Faults` (any read
error is a miss, and a stored text is generated again and replaced).

Others show in the models and are noted here only:

- alerts: "5+ reads within 60 seconds" (docs/detection.md) may take seven, since the
  reads that raise recon and escalation are not counted; a credential path whose
  read completes recon or escalation raises no exfil alert (`alert.go:240`).
- sinks: `enabled` "defaults to true" (`config.go:69`), but one without the key is
  disabled (`alert.go:339`); an invalid webhook secret sends unsigned
  (`sinks.go:50`); stdout's errors are dropped (`sinks.go:27`); an event whose open
  failed goes to stderr (`sinks.go:106`); with the stdio transport a stdout sink
  writes into the MCP stream.
- recorder: lines are stamped before the mutex (`recorder.go:55`), so a session's
  first line may not be its earliest and replay deltas may be negative; an entry
  beyond 64 KiB, or shorter ones glued to as much by short writes, make the replay of
  their whole session fail, the lines before included (`replay.go:28`, `65`), against
  "record complete MCP sessions as JSONL for replay" (README.md:26). `Complete`
  names these cases as its exceptions.
- host: uname and `/proc/version` say Ubuntu whatever was drawn (`linux.go:190`,
  `357`), and `$PSVersionTable` names one release (`windows.go:220`), against
  `state.go:12`; `free` and `/proc/meminfo` disagree, as do `set` and
  `echo %PATH%`; touch empties a file that exists (`linux.go:472`); `read_file` of a secret path does
  not give back code fences that an agent wrote, nor what follows the last
  (`canary.go:48`), while `cat` does; plain `dir`
  and `ls` on Windows are errors (`windows.go:249`, `279`), `ls X` and `cat X`
  lose a character (`142`, `149`), and `ping` without a host panics (`128`).
- startup: two servers may create the identity at once, and the second to write
  wins (`identity.go:40`); the hint to run setup is never reached
  (`cmd_server.go:56`); `pickOne` asks for ever at the end of its input
  (`cmd_setup.go:190`); a torn `config.yaml` may be valid YAML, with which a server
  starts; some answers are changed by YAML on their way (`saas #1` written bare runs as
  `saas`, a backslash in quotes is an escape: `cmd_setup.go:249`, `259`); a generated tool that
  has the name of a host tool replaces its handler (`tools.go:164`).

## Proofs

TLAPS proves these for every value of the constants that meets the modules'
assumptions, so for any number of sessions, hooks, calls, events, sinks, keys,
tokens, files and processes, and any thresholds.

| theorem | of | inductive invariant |
|---|---|---|
| `TypeCorrect`, `EmittedAtMostOnce`, `NoAlertLost` | `AlertEngine` | `EngineInv` |
| `EscalationCaught`, `ReconCaught` | `AlertHistory` | `HistoryInv` |
| `AlertsAreJustified`, `BurstsCaught` | `AlertHistory` | `ReadsInv` |
| `DispatchTypeCorrect`, `MutexReleased` | `AlertDispatch` | `TypeOK`, `MutexInUse` |
| `OneCopy`, `FailuresAreLocal`, `FileStays`, `DispatchImplementsDelivery` | `AlertDispatch` | `IInv` |
| `CacheTypeCorrect`, `OneFlightPerKey` | `ResponseCache` | `FlightInv` |
| `WaitersAreLed` | `ResponseCache` | `FlightInv`, `Led` |
| `GeneratedOnce`, `CacheIsWriteOnce` | `ResponseCache` | `CacheInv` |
| `RecorderTypeCorrect` | `SessionRecorder` | `TypeOK` |
| `RecordComplete`, `ReplayIsStable` | `SessionRecorder` | `RecordInv` |
| `ResultsFollowRequests` | `SessionRecorder` | `OrderInv` |
| `CanaryTypeCorrect`, `Watched`, `Attributed`, `NotShared` | `Canary` | `CanaryInv` |
| `NoSilentUse` | `Canary` | `CanaryInv`, `RequestsOK` |
| `HostTypeCorrect` | `SimulatedHost` | `TypeOK` |
| `AnswersAgree` | `SimulatedHost` | `FactInv` |
| `LatestIsRead` | `SimulatedHost` | `ReadInv` |
| `ListingsAreExact` | `SimulatedHost` | `ListInv` |
| `DeploymentTypeCorrect` | `Deployment` | `TypeInv` |
| `OneIdentity` | `Deployment` | `IdInv` |
| `AnswersSurvive` | `Deployment` | `KeptInv` |

- `EngineInv`: that a pattern is emitted at most once does not follow from
  itself. `OnceInv` says where its one event is: nowhere before the flag is set,
  then with exactly one hook, then emitted. `CallsOK` says a hook past its load
  has a request and a state.
- `HistoryInv` adds `Agrees`: the engine's fields agree with the history, and
  the read class is noted by the time a system path is. So the read that raises
  recon, whose class the detectors never note, is not the first read. For this
  `ReconThreshold` must be two or more, an assumption of `AlertEngine`.
- `ReadsInv` relates the window to the reads, counted from the end (`Late`): each
  entry is of a read as late or later (`Counted`, so a burst that raised the
  pattern happened), and until the pattern is raised all reads but as many as
  raised recon or escalation are in it, those of the last window at least
  (`Missed`). A new burst of two more than the threshold would then leave the
  threshold in the window (`LateBurst`), which raises the pattern. What Trim
  leaves is lemma `LateTrim`.
- `IInv` of the dispatcher is `TypeOK` and, of each sink by type (`SinkInv`),
  which steps its goroutines can be at, that an event is in the output only if its
  goroutine is past the step that puts it there, what the last chunk of the
  file is when the file is within a line, and that an event on its way to a
  webhook's server has not arrived yet (`Wired`), however its sender ended. So each
  sink's output has at most one chunk of an event, which `CopiesAfter` and `CountsOne`
  turn into the count the refinement asks for. `UnharmedDelivered` needs this last
  part: a glued line follows a cut one. The refinement maps each step to a step of
  `AlertDelivery` or a stutter. `MutexInUse` is inductive with `TypeOK`: each holds
  one direction of "the holder of the mutex is between Lock and Unlock".
- `FlightInv`: a caller inside a flight is the one the group names, and carries
  what its step needs. `Led` is the converse: whom the group names is in flight for
  that key, and who waits has an entry; `Finish` removes it with everyone who waits,
  error or not. `CacheInv` adds what the disk holds while a flight works
  and how calls and failures are accounted. `GeneratedOnce` and
  `CacheIsWriteOnce` assume `TrueMisses` (`"read" \notin Faults`); without it
  they are false, as said above. The refinement maps each step to a step of the
  store or a stutter, one lemma per step.
- `RecordInv` says that each entry made and not lost is a whole line of its file,
  that a chunk without a newline is of a lost entry, and that a line is longer than
  its entry only if it is glued to such a chunk (`ChunkFits`), so that one too long
  has a reason.
  `ReplayIsStable`: every step appends to a file or leaves it (`FilesGrow`), and
  what a scan came to in a file it comes to in the longer one (`ScannedGrows`); a
  file that could be replayed stops to be only by a chunk that makes a line too long. `OrderInv` says that
  from the write of its request on, a call has the request in its file, as a whole
  line with no later time, or among what was lost, and each result in a file comes
  after its request likewise.
- `CanaryInv`: the maps hold exactly this run's tokens (`IssuerOK`), and
  whatever handlers, files and agents hold was planted for that session or
  written to a file by an agent (`HandlersOK`, `FilesOK`, `HeldOK`). It holds
  because planted and written are never taken back (`Grows`). `RequestsOK` follows a
  request from use to answer: it mentions planted credentials only, none of this run
  if nothing was found, and after `Fire` an alert stands for one it mentions, also
  while tokens are planted and other requests fire.
- `FactInv`: every answer of the log tells, of each topic, the value of its process
  (lemmas go through all commands of both shells), and what processes of one
  installation tell is bound by the file and the seed. `ReadInv` says that the map
  holds, for each path, what the last store of this process stored (`MapInv`), next
  to the property itself. `ListInv` adds that the map has a key for just what was
  stored (`FilesInv`), which makes a listing of now right; those of the log stay
  right since calls are only appended. Both invariants rest on `TypeOK` and `FactInv`.
- `TypeInv` of the deployment counts: identities made, and servers that may yet make
  one (`Early`), are no more than the starts; so `count` stays within `MaxStarts`
  although `Generate` has no bound of its own. `Procs` is assumed finite for this.
- `IdInv`: but for a race or an unreadable file, one server at most is creating,
  `identity.json` holds no whole identity while one is, and every server that is
  up has the identity the file holds.
- `KeptInv`: the dialogue is described from where it is (`Dialogue`): what is behind was
  answered properly, or not asked and is blank, and what lies ahead is blank. Its
  step (`DialogueGoesOn`) needs that the answers which decide whether a question is
  asked come before it (`QuestionsOrdered`, `AskedBefore`). So the answers at the end
  are `Finished`, and so are those of every document known to be whole and of every
  server that loaded one (`Told`). `LoadHas` is the lemma that buildConfig and Load
  agree on finished answers. `AnswersKept` compares with what was typed, for each
  answer that YAML leaves as it stands (`Stands`). Of the listener it speaks when TLS
  was refused, or its answers are complete; a certificate without a key is
  `HalfTLSDoesNotStart`'s. The theorem assumes `ReadsBack` of YAML, which TLC
  evaluates for the constants of the runs: numbers and the wizard's own words read as
  they stand, and no name of a model, directory, certificate or domain reads as
  nothing. Without it the property is false: a certificate typed such that YAML makes
  nothing of it would leave a server that was asked for TLS with plain HTTP.

Only model-checked are the liveness properties (`AlertedThenEmitted`,
`SlowSinkDelaysNoOther`, `EveryGetReturns`, `UseIsAlerted`), which this prover does
not reach. What three of them rest on is proved: `MutexInUse`, `NobodyAbandoned` and
`AnsweredAfterAlert` say that no step leaves a mutex with a goroutine that has ended, a
caller waiting for a flight that is over, or a use answered without its alert; the fair
steps then only have to be taken. Every invariant and every other action property of the passing runs is a
theorem.

## Not modelled, and why

- AI clients: one request through an SDK, no state; the answer, error or silence
  of one is a `Generate` step of cache and deployment.
- mcp-go, net/http, the upstream model, the callback's and webhook's servers:
  outside code, present as what they may do.
- Wording of simulated answers, prompts, formats of tokens and events, JSON schemas,
  signatures, logging, artificial latency: data no property is about.
- ExportReplay's times, and the sessions and replay commands, which print what
  `Replayed` returns, or the error.
- Faker: that a seed gives the same host in every process is an assumption of `Start`.
- The hooks of one request together: recorder and engine share no state, so each
  is modelled with the hooks it needs.
- The start of canary listener and proxy, and realIP: goroutines and headers that no
  other part waits for.
- Growth without bound of the token maps: a bounded model cannot show it.

## What could follow

A module that composes engine and dispatcher, so that "emitted" becomes "delivered or
failed"; one for the hooks of one request, that an alert's call is on record.
