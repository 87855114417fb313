---------------------------- MODULE SimulatedHost ----------------------------
(***************************************************************************)
(* The computer the honeypot plays: sim.New and sim_state.json             *)
(* (internal/sim/sim.go, persist.go), the files agents write (state.go),   *)
(* the shells (linux.go, windows.go), and the tools and resources that     *)
(* lead to them (internal/mcp/tools.go, resources.go).                     *)
(*                                                                         *)
(* All sessions share one SystemState.  The written files are a map under  *)
(* a mutex, which a call takes at most once, so a call is one step.  An    *)
(* answer is abstracted to what an agent learns from it: pairs of a topic  *)
(* and a value.                                                            *)
(***************************************************************************)
EXTENDS Naturals, Sequences

CONSTANTS
  Text,       \* the strings
  Modes,      \* instance.mode
  Hosts,      \* what generateLinuxState and generateWindowsState may draw, by mode
  Calls,      \* the calls the agents make, by mode
  Secrets,    \* paths with a keyword of shouldInjectCredentialForPath
  Fenced,     \* the texts that stripFences changes, and what it leaves of them
  Epochs,     \* the boot times and machine ids that the processes make up, in order;
              \* its length bounds the number of processes
  MaxCalls, MaxFaults,  \* bounds
  None

Path == Seq(Text)
Call == [tool: Text, word: Text, arg: Path, text: Text]

Persisted == {"boot", "machine"}
Drawn(mode) ==
  IF mode = "linux"
  THEN {"hostname", "user", "kernel", "distribution", "memory"}
  ELSE {"hostname", "user", "domain", "sid", "release", "address"}

\* What an answer can be about, and what is shown whatever was drawn.
Topics ==
  Persisted \cup Drawn("linux") \cup Drawn("windows")
    \cup {"text", "free", "listing", "entry", "path"}
Fixed ==
  {"Ubuntu", "10.0.20348", "an eighth", "two fifths", "three entries", "four entries", "app"}

ASSUME HostAssumption ==
  /\ {"", ".dir"} \cup Fixed \subseteq Text
  /\ Modes \subseteq {"linux", "windows"}
  /\ DOMAIN Fenced \subseteq Text /\ \A t \in DOMAIN Fenced : Fenced[t] \in Text
  /\ \A m \in Modes : Calls[m] \subseteq Call /\ Hosts[m] \subseteq [Drawn(m) -> Text]
  /\ Epochs \in Seq(Text) /\ \A i, j \in DOMAIN Epochs : Epochs[i] = Epochs[j] => i = j
  /\ MaxCalls \in Nat /\ MaxFaults \in Nat
  /\ None \notin [Persisted -> Text]

VARIABLES
  mode, seeded,  \* the configuration: instance.mode, and whether instance.seed is set
  drawn,         \* hostname and the rest of the state the faker draws
  kept,          \* boot time and machine id
  saved,         \* sim_state.json: whole, or None when absent or torn
  up, runs,      \* the process, and how often it was started
  written,       \* writtenFiles: path |-> content
  log,           \* the calls answered, with their answers
  faults,
  spoilt         \* a whole sim_state.json could not be read

conf == <<mode, seeded>>
system == <<drawn, kept, saved, runs, spoilt>>
vars == <<conf, system, up, written, log, faults>>

Answer == [status: {"ok", "error"}, shows: SUBSET (Topics \X Text)]

TypeOK ==
  /\ mode \in Modes /\ seeded \in BOOLEAN
  /\ drawn \in [Drawn(mode) -> Text]
  /\ kept \in [Persisted -> Text]
  /\ saved \in [Persisted -> Text] \cup {None}
  /\ up \in BOOLEAN /\ runs \in 0..Len(Epochs)
  /\ DOMAIN written \subseteq Path
  /\ \A p \in DOMAIN written : written[p] \in Text
  /\ log \in Seq([run: Nat, call: Call, answer: Answer])
  /\ faults \in 0..MaxFaults /\ spoilt \in BOOLEAN

NoFiles == [p \in {} |-> ""]

Init ==
  /\ mode \in Modes /\ seeded \in BOOLEAN
  /\ drawn \in Hosts[mode]
  /\ kept = [t \in Persisted |-> ""]
  /\ saved = None
  /\ up = FALSE /\ runs = 0
  /\ written = NoFiles
  /\ log = <<>>
  /\ faults = 0 /\ spoilt = FALSE
-----------------------------------------------------------------------------
\* Mutant: every process makes up a new boot time and machine id.
StartForgets ==
  /\ ~up /\ runs < Len(Epochs)
  /\ runs' = runs + 1
  /\ up' = TRUE
  /\ kept' = [t \in Persisted |-> Epochs[runs + 1]]
  /\ saved' = kept'
  /\ drawn' \in (IF seeded THEN {drawn} ELSE Hosts[mode])
  /\ written' = NoFiles
  /\ UNCHANGED <<conf, log, faults, spoilt>>

\* Mutant: what is found is taken for whole.
KeptUnseen(found) == found

Kept(found) ==
  IF found # None THEN found ELSE [t \in Persisted |-> Epochs[runs + 1]]

\* New and loadOrCreatePersisted: values found whole are kept; otherwise new ones
\* are written in place, and a process that fails to, or is killed on the way,
\* leaves the file as it was, or torn.  The seed decides what is drawn; without
\* one the hostname and the rest change with every process.
Start ==
  /\ ~up /\ runs < Len(Epochs)
  /\ runs' = runs + 1
  /\ \E readable \in BOOLEAN :
       LET found == IF readable THEN saved ELSE None IN
       /\ readable \/ faults < MaxFaults
       /\ spoilt' = (spoilt \/ (saved # None /\ ~readable))
       /\ \/ /\ kept' = Kept(found)
             /\ saved' = kept'
             /\ drawn' \in (IF seeded THEN {drawn} ELSE Hosts[mode])
             /\ up' = TRUE
             /\ faults' = faults + (IF readable THEN 0 ELSE 1)
          \/ /\ found = None /\ faults < MaxFaults
             /\ saved' \in {saved, None}
             /\ faults' = faults + 1
             /\ UNCHANGED <<drawn, kept, up>>
  /\ written' = NoFiles
  /\ UNCHANGED <<conf, log>>

\* The process ends, or is killed; the written files are in its memory.
Stop ==
  /\ up /\ up' = FALSE
  /\ written' = NoFiles
  /\ UNCHANGED <<conf, system, log, faults>>
-----------------------------------------------------------------------------
Ok(shows) == [status |-> "ok", shows |-> shows]
Error == [status |-> "error", shows |-> {}]
Shown(topics) ==
  Ok({<<t, drawn[t]>> : t \in topics \ Persisted} \cup {<<t, kept[t]>> : t \in topics \cap Persisted})
And(answer, more) == [answer EXCEPT !.shows = @ \cup more]

\* Mutant: everything below the directory is listed.
WrittenBelow(dir) ==
  {p[Len(dir) + 1] : p \in {q \in DOMAIN written : Len(q) > Len(dir) /\ SubSeq(q, 1, Len(dir)) = dir}}

\* The names of the files written directly under dir; a path that ends in a slash
\* has none.
WrittenInDir(dir) ==
  {p[Len(p)] : p \in {q \in DOMAIN written : Len(q) = Len(dir) + 1 /\ SubSeq(q, 1, Len(dir)) = dir}} \ {""}

Listing(dir, names) == Ok({<<"listing", dir>>} \cup {<<"entry", n>> : n \in names})

\* The files linux.go makes up.
FixedFile(path) ==
  CASE path = <<"etc", "hostname">> -> Shown({"hostname"})
    [] path = <<"etc", "machine-id">> -> Shown({"machine"})
    [] path = <<"etc", "passwd">> -> Shown({"user"})
    [] path = <<"proc", "version">> -> And(Shown({"kernel"}), {<<"distribution", "Ubuntu">>})
    [] path = <<"etc", "os-release">> -> Shown({"distribution"})
    [] path = <<"proc", "uptime">> -> Shown({"boot"})
    [] path = <<"proc", "meminfo">> -> And(Shown({"memory"}), {<<"free", "an eighth">>})
    [] path = <<"proc", "self", "environ">> -> Shown({"user"})
    [] path = <<"var", "log", "auth.log">> -> Shown({"hostname", "user", "boot"})
    [] path = <<"etc", "hosts">> -> Shown({"hostname"})
    [] path \in {<<"etc", "cron.d", "app">>, <<"etc", "cron.d", "backup">>} -> Shown({"user"})
    [] path \in {<<"proc", "net", "tcp">>, <<"proc", "1", "cmdline">>, <<"etc", "fstab">>,
                 <<"etc", "ssh", "sshd_config">>} -> Ok({})
    [] OTHER -> Error  \* /etc/shadow: permission denied; the rest: no such file

\* ReadFile: the files of the agents come before those of the system.
ReadFile(path) ==
  IF path \in DOMAIN written THEN Ok({<<"text", written[path]>>}) ELSE FixedFile(path)

\* The text that the tool read_file plants a credential in (see Canary), on secret
\* paths: stripFences takes code fences and spaces from around it, and all that
\* follows the last fence.
Stripped(path, text) ==
  IF path \in Secrets /\ text \in DOMAIN Fenced THEN Fenced[text] ELSE text

\* The files linux.go makes up have no fences.
ReadFileTool(path) ==
  IF path \in DOMAIN written THEN Ok({<<"text", Stripped(path, written[path])>>}) ELSE ReadFile(path)
-----------------------------------------------------------------------------
\* ls: flags are passed over; the home directory and no argument stand for /app.
Ls(arg) ==
  IF arg \in {<<>>, <<"app">>, <<"home", drawn["user"]>>} THEN Listing("app", WrittenInDir(<<"app">>))
  ELSE IF arg \in {<<"tmp">>, <<"var", "log">>, <<"root">>} THEN Listing(arg[Len(arg)], WrittenInDir(arg))
  ELSE IF arg \in {<<"etc">>, <<"var", "www">>, <<"var", "www", "html">>} THEN Listing(arg[1], {})
  ELSE Error

\* Words compared whole, and words of which a prefix is compared: lsof lists
\* files and psql lists processes.
ExactWords == {"hostname", "whoami", "id", "uname -r", "uname -a", "uptime", "pwd", "date",
               "env", "printenv", "history"}
Family(word) ==
  CASE word \in {"lsof", "lsblk"} -> "ls"
    [] word \in {"psql", "pstree"} -> "ps"
    [] OTHER -> word

\* ExecShell, what it answers.  rm succeeds in silence and removes nothing; which
\* stands for the programs it knows.
ExecShell(word, arg) ==
  LET w == Family(word) IN
  IF w \in ExactWords /\ arg # <<>> THEN Error
  ELSE
  CASE w = "hostname" -> Shown({"hostname"})
    [] w \in {"whoami", "id", "env", "printenv"} -> Shown({"user"})
    [] w = "uname -r" -> Shown({"kernel"})
    [] w = "uname -a" -> And(Shown({"hostname", "kernel"}), {<<"distribution", "Ubuntu">>})
    [] w = "uptime" -> Shown({"boot"})
    [] w = "ps" -> Shown({"user", "boot"})
    [] w = "free" -> And(Shown({"memory"}), {<<"free", "two fifths">>})
    [] w = "ls" -> Ls(arg)
    [] w = "cat" /\ arg # <<>> -> ReadFile(arg)
    [] w \in {"pwd", "date", "history", "df"} -> Ok({})
    [] w \in {"mkdir", "touch", "rm", "echo", "curl", "which"} /\ arg # <<>> -> Ok({})
    [] OTHER -> Error

LinuxAnswer(c) ==
  CASE c.tool = "execute_shell" -> ExecShell(c.word, c.arg)
    [] c.tool = "read_file" -> ReadFileTool(c.arg)
    [] c.tool = "list_processes" -> ExecShell("ps", <<>>)
    [] c.tool = "resource" -> Shown({"hostname"})  \* file:///etc/config.yaml
    [] OTHER -> Ok({})  \* write_file
-----------------------------------------------------------------------------
Home == <<"c:", "users", "svc-deploy">>

\* dirOutput.  Without a path it takes the home directory, in mixed case, and
\* compares it with names in upper case; flags are looked for after their
\* slashes have become backslashes.  Both end in the error.
DirOutput(arg) ==
  IF arg \in {<<"c:">>, <<"c:", "users">>, Home, Append(Home, ".ssh")} THEN Listing(arg[Len(arg)], {})
  ELSE IF Len(arg) > 1 /\ arg[1] = "c:" /\ arg[2] \in {"windows", "program files"} THEN Listing(arg[2], {})
  ELSE Error

\* readWindowsFile: two names, in whatever directory; agents' files are not among them.
ReadWindowsFile(arg) ==
  IF arg = <<>> THEN Error
  ELSE IF arg[Len(arg)] = "notes.txt" THEN Shown({"hostname", "domain", "user"})
  ELSE IF arg[Len(arg)] = ".bash_history" THEN Ok({})
  ELSE Error

ReadRegistry(key) ==
  CASE key = "CurrentVersion" -> Shown({"release", "domain"})
    [] key = "Environment" -> Ok({})
    [] OTHER -> Error

QueryWMI(class) ==
  CASE class = "Win32_ComputerSystem" -> Shown({"domain", "hostname", "user"})
    [] class = "Win32_OperatingSystem" -> Shown({"release", "hostname", "boot"})
    [] OTHER -> Error

\* echoExpand, for the variables it replaces.
EchoExpand(name) ==
  CASE name = "USERNAME" -> Shown({"user"})
    [] name = "USERDOMAIN" -> Shown({"domain"})
    [] name = "COMPUTERNAME" -> Shown({"hostname"})
    [] name = "PATH" -> Ok({<<"path", "three entries">>})
    [] OTHER -> Ok({})

\* RunCommand.  "ls X" and "cat X" lose the first character of X, the drive's
\* letter; ping without a host panics, see Panic.
RunCommand(c) ==
  LET w == c.word IN
  CASE w \in {"hostname", "net localgroup"} -> Shown({"hostname"})
    [] w \in {"whoami", "tasklist", "get-process"} -> Shown({"user", "domain"})
    [] w = "whoami /all" -> Shown({"user", "domain", "sid"})
    [] w = "net user" -> Shown({"hostname", "user"})
    [] w = "net user <name>" -> Shown({"user", "domain"})
    [] w = "net localgroup <name>" -> Shown({"hostname", "user", "domain"})
    [] w = "get-localuser" -> Shown({"user"})
    [] w = "ver" -> Shown({"release"})
    [] w = "$psversiontable" -> Ok({<<"release", "10.0.20348">>})
    [] w \in {"systeminfo", "get-computerinfo"} -> Shown({"hostname", "release", "domain"})
    [] w = "ipconfig" -> Shown({"domain", "address"})
    [] w = "ipconfig /all" -> Shown({"hostname", "domain", "address"})
    [] w = "nslookup" -> Shown({"hostname", "domain", "address"})
    [] w \in {"netstat", "arp", "get-netipaddress"} -> Shown({"address"})
    [] w = "set" -> And(Shown({"hostname", "domain", "user"}), {<<"path", "four entries">>})
    [] w = "dir" -> DirOutput(c.arg)
    [] w = "ls" -> Error
    [] w = "type" -> ReadWindowsFile(c.arg)
    [] w = "cat" -> IF Len(c.arg) > 1 THEN ReadWindowsFile(c.arg) ELSE Error
    [] w \in {"echo", "$env:"} -> EchoExpand(c.text)
    [] w = "reg query" -> ReadRegistry(c.text)
    [] w \in {"cd", "pwd", "net use", "net share", "ping", "sc query", "sc qc", "get-service", "get-date"} -> Ok({})
    [] OTHER -> Error

WindowsAnswer(c) ==
  CASE c.tool = "run_command" -> RunCommand(c)
    [] c.tool = "read_registry" -> ReadRegistry(c.text)
    [] c.tool = "query_wmi" -> QueryWMI(c.text)
    [] c.tool = "get_process_info" -> Shown({"user", "domain"})
    [] c.tool = "resource" -> Shown({"hostname"})  \* file:///C:/config/app.config
    [] OTHER -> Ok({})  \* write_file
-----------------------------------------------------------------------------
\* Mutant: an existing file is left as it is.
StoreFirst(path, text) ==
  [p \in DOMAIN written \cup {path} |-> IF p \in DOMAIN written THEN written[p] ELSE text]

\* storeWritten
Store(path, text) ==
  [p \in DOMAIN written \cup {path} |-> IF p = path THEN text ELSE written[p]]

\* What a call leaves in the map: touch empties a file that exists, and mkdir
\* stores a file named .dir.
Stores(c) ==
  IF c.tool = "write_file" THEN Store(c.arg, c.text)
  ELSE IF mode = "linux" /\ c.tool = "execute_shell" /\ c.word = "touch" /\ c.arg # <<>> THEN Store(c.arg, "")
  ELSE IF mode = "linux" /\ c.tool = "execute_shell" /\ c.word = "mkdir" /\ c.arg # <<>> THEN Store(Append(c.arg, ".dir"), "")
  ELSE written

Panics(c) == mode = "windows" /\ c.tool = "run_command" /\ c.word = "ping" /\ c.arg = <<>>

\* A tool or resource handler.
Handle(c) ==
  /\ up /\ Len(log) < MaxCalls
  /\ ~Panics(c)
  /\ written' = Stores(c)
  /\ log' = Append(log, [run |-> runs, call |-> c,
                         answer |-> IF mode = "linux" THEN LinuxAnswer(c) ELSE WindowsAnswer(c)])
  /\ UNCHANGED <<conf, system, up, faults>>

\* strings.Fields(host)[0] of an empty list.  The call is not answered; unless
\* net/http recovers the panic, which changes nothing, the process ends.
Panic(c) ==
  /\ up /\ Panics(c)
  /\ up' = FALSE
  /\ written' = NoFiles
  /\ UNCHANGED <<conf, system, log, faults>>

Next ==
  \/ Start \/ Stop
  \/ \E c \in Calls[mode] : Handle(c)
  \/ \E c \in Calls[mode] : Panic(c)

Spec == Init /\ [][Next]_vars
-----------------------------------------------------------------------------
\* What a call says about a file, on the Linux host: the stores of write_file, touch
\* and mkdir ...
StoredBy(c) ==
  CASE c.tool = "write_file" -> {<<c.arg, c.text>>}
    [] c.tool = "execute_shell" /\ c.word = "touch" /\ c.arg # <<>> -> {<<c.arg, "">>}
    [] c.tool = "execute_shell" /\ c.word = "mkdir" /\ c.arg # <<>> -> {<<Append(c.arg, ".dir"), "">>}
    [] OTHER -> {}

\* ... and the paths that reads ask for.
ReadBy(c) ==
  CASE c.tool = "read_file" -> {c.arg}
    [] c.tool = "execute_shell" /\ c.word = "cat" /\ c.arg # <<>> -> {c.arg}
    [] OTHER -> {}

\* The calls of the same process, before the i-th one, that stored something at path.
StoresBefore(i, path) ==
  {j \in 1..i - 1 : log[j].run = log[i].run /\ \E s \in StoredBy(log[j].call) : s[1] = path}

\* What a read answers of a stored text: cat all of it, read_file what the planting
\* of a credential leaves.
Seen(c, text) ==
  IF c.tool = "read_file" /\ c.arg \in Secrets /\ text \in DOMAIN Fenced THEN Fenced[text] ELSE text

Texts(answer) == {v[2] : v \in {x \in answer.shows : x[1] = "text"}}

\* The i-th call tells what the j-th stored at path.
Tells(i, j, path) ==
  \E s \in StoredBy(log[j].call) : s[1] = path /\ Texts(log[i].answer) = {Seen(log[i].call, s[2])}

\* On the Linux host, a read after stores in the same process answers with what
\* the last of them stored, whichever session stored it, whatever was removed in
\* between, and also where the simulation has a file of its own: linux.go,
\* "WriteFile stores content for later reads", "so a read-after-rm still works".
\* The exception are the fences that read_file strips on secret paths, where cat
\* shows them.  (The Windows host never shows what was stored.)
LinuxReadsLatest ==
  \A i \in DOMAIN log : \A path \in ReadBy(log[i].call) : \A j \in StoresBefore(i, path) :
    mode = "linux" /\ (\A k \in StoresBefore(i, path) : k <= j) => Tells(i, j, path)

StoredPaths(i) == {path \in {s[1] : s \in UNION {StoredBy(log[j].call) : j \in 1..i - 1}} : StoresBefore(i, path) # {}}

ListedDirs == {<<"app">>, <<"tmp">>, <<"var", "log">>, <<"root">>}

\* ls of the directories that have written files shows those which this process
\* stored directly under it, each of them that has a name and no other, and nothing
\* that earlier processes were given.
ListsWhatWasWritten ==
  \A i \in DOMAIN log : \A dir \in ListedDirs :
    mode = "linux" /\ log[i].call.tool = "execute_shell" /\ log[i].call.word = "ls" /\ log[i].call.arg = dir =>
      {s[2] : s \in {x \in log[i].answer.shows : x[1] = "entry"}}
        = {n \in {path[Len(path)] : path \in StoredPaths(i)} : n # "" /\ Append(dir, n) \in StoredPaths(i)}

\* Two answers, of any two calls, tell the same of a topic: always within a
\* process; across processes, of boot time and machine id as long as sim_state.json
\* could be read, and of what is drawn if the configuration has a seed.
Agree(topics) ==
  \A i, j \in DOMAIN log : \A v \in log[i].answer.shows, w \in log[j].answer.shows :
    /\ v[1] = w[1] /\ v[1] \in topics
    /\ \/ log[i].run = log[j].run
       \/ v[1] \in Persisted /\ ~spoilt
       \/ v[1] \in Drawn(mode) /\ seeded
    => v[2] = w[2]

\* What the simulation draws and persists is the same wherever it is shown, also
\* after crashes in the middle of writing sim_state.json; state.go and persist.go,
\* "values that must survive process restarts".  Release and distribution are left
\* out: uname and /proc/version say Ubuntu whatever distribution was drawn, and
\* $PSVersionTable names one release.
FactsAgree ==
  Agree(Persisted \cup {"hostname", "user", "kernel", "memory", "domain", "sid", "address"})
=============================================================================
