------------------------ MODULE SimulatedHostProofs ------------------------
(***************************************************************************)
(* Proofs about the simulated computer: types, no two answers contradict   *)
(* each other, the Linux host reads back what was last written and lists   *)
(* exactly the files that were written.                                    *)
(***************************************************************************)
EXTENDS SimulatedHost, TLAPS

\* The topics on which all answers agree, and what is true of them.
Facts == Persisted \cup {"hostname", "user", "kernel", "memory", "domain", "sid", "address"}
Value(t) == IF t \in Persisted THEN kept[t] ELSE drawn[t]

\* Pairs that tell nothing of the facts.
Silent(pairs) == \A v \in pairs : v[1] \notin Facts

\* A record of the form of an answer, which tells nothing but the truth.
Good(a) ==
  /\ a = [status |-> a.status, shows |-> a.shows]
  /\ \A v \in a.shows : v[1] \in Facts => v[2] = Value(v[1])

LEMMA OkGood ==
  ASSUME NEW pairs, Silent(pairs)
  PROVE  Good(Ok(pairs)) /\ Ok(pairs).shows = pairs
  BY DEF Ok, Good, Silent

LEMMA ErrorGood == Good(Error)
  BY DEF Error, Good

LEMMA AndGood ==
  ASSUME NEW a, Good(a), NEW pairs, Silent(pairs)
  PROVE  Good(And(a, pairs)) /\ And(a, pairs).shows = a.shows \cup pairs
  <1>1. PICK s, p : a = [status |-> s, shows |-> p]
    BY DEF Good
  <1>2. And(a, pairs) = [status |-> s, shows |-> p \cup pairs]
    BY <1>1 DEF And
  <1>3. a.shows = p
    BY <1>1
  <1> QED
    BY <1>2, <1>3 DEF Good, Silent

LEMMA ShownGood ==
  ASSUME NEW topics
  PROVE  Good(Shown(topics))
  <1> DEFINE pairs == {<<t, drawn[t]>> : t \in topics \ Persisted} \cup {<<t, kept[t]>> : t \in topics \cap Persisted}
  <1>1. \A v \in pairs : v[2] = Value(v[1])
    BY DEF Value
  <1>2. Shown(topics) = [status |-> "ok", shows |-> pairs]
    BY DEF Shown, Ok
  <1> HIDE DEF pairs
  <1> QED
    BY <1>1, <1>2 DEF Good

LEMMA ListingGood ==
  ASSUME NEW dir, NEW names
  PROVE  Good(Listing(dir, names))
  <1> DEFINE pairs == {<<"listing", dir>>} \cup {<<"entry", n>> : n \in names}
  <1>1. Silent(pairs)
    <2>1. "listing" \notin Facts /\ "entry" \notin Facts
      BY DEF Facts, Persisted
    <2>2. \A v \in pairs : v[1] \in {"listing", "entry"}
      OBVIOUS
    <2> QED
      BY <2>1, <2>2 DEF Silent
  <1> HIDE DEF pairs
  <1>2. Good(Ok(pairs))
    BY <1>1, OkGood
  <1> QED
    BY <1>2 DEF Listing, pairs

\* A pair about anything else is silent.
LEMMA SilentPair ==
  ASSUME NEW topic \in {"text", "distribution", "free", "release", "path"}, NEW value
  PROVE  Silent({<<topic, value>>})
  BY DEF Silent, Facts, Persisted

LEMMA NothingGood == Good(Ok({}))
  BY OkGood DEF Silent
-----------------------------------------------------------------------------
\* Every answer of the Linux host is good.
LEMMA FixedFileGood == ASSUME NEW path PROVE Good(FixedFile(path))
  <1>1. /\ Good(And(Shown({"kernel"}), {<<"distribution", "Ubuntu">>}))
        /\ Good(And(Shown({"memory"}), {<<"free", "an eighth">>}))
    BY ShownGood, AndGood, SilentPair
  <1> HIDE DEF Good
  <1> QED
    BY <1>1, ShownGood, NothingGood, ErrorGood DEF FixedFile

LEMMA ReadFileGood == ASSUME NEW path PROVE Good(ReadFile(path))
  <1>1. ASSUME NEW text PROVE Good(Ok({<<"text", text>>}))
    BY SilentPair, OkGood
  <1> QED
    BY <1>1, FixedFileGood DEF ReadFile

LEMMA ReadFileToolGood == ASSUME NEW path PROVE Good(ReadFileTool(path))
  <1>1. ASSUME NEW text PROVE Good(Ok({<<"text", text>>}))
    BY SilentPair, OkGood
  <1> QED
    BY <1>1, ReadFileGood DEF ReadFileTool

LEMMA LsGood == ASSUME NEW arg PROVE Good(Ls(arg))
  BY ListingGood, ErrorGood DEF Ls

LEMMA ExecShellGood == ASSUME NEW word, NEW arg PROVE Good(ExecShell(word, arg))
  <1>1. /\ Good(And(Shown({"hostname", "kernel"}), {<<"distribution", "Ubuntu">>}))
        /\ Good(And(Shown({"memory"}), {<<"free", "two fifths">>}))
    BY ShownGood, AndGood, SilentPair
  <1> QED
    BY <1>1, ShownGood, NothingGood, ErrorGood, LsGood, ReadFileGood DEF ExecShell

LEMMA LinuxGood == ASSUME NEW c PROVE Good(LinuxAnswer(c))
  BY ExecShellGood, ReadFileToolGood, ShownGood, NothingGood DEF LinuxAnswer

\* And of the Windows host.
LEMMA FilesGood == ASSUME NEW arg PROVE Good(DirOutput(arg)) /\ Good(ReadWindowsFile(arg))
  BY ListingGood, ErrorGood, ShownGood, NothingGood DEF DirOutput, ReadWindowsFile

LEMMA QueriesGood == ASSUME NEW text PROVE Good(ReadRegistry(text)) /\ Good(QueryWMI(text)) /\ Good(EchoExpand(text))
  <1>1. Good(Ok({<<"path", "three entries">>}))
    BY SilentPair, OkGood
  <1> QED
    BY <1>1, ErrorGood, ShownGood, NothingGood DEF ReadRegistry, QueryWMI, EchoExpand

LEMMA RunCommandGood == ASSUME NEW c PROVE Good(RunCommand(c))
  <1>1. /\ Good(And(Shown({"hostname", "domain", "user"}), {<<"path", "four entries">>}))
        /\ Good(Ok({<<"release", "10.0.20348">>}))
    BY ShownGood, AndGood, SilentPair, OkGood
  <1> QED
    BY <1>1, ErrorGood, ShownGood, NothingGood, FilesGood, QueriesGood DEF RunCommand

LEMMA WindowsGood == ASSUME NEW c PROVE Good(WindowsAnswer(c))
  BY RunCommandGood, QueriesGood, ShownGood, NothingGood DEF WindowsAnswer
-----------------------------------------------------------------------------
\* The types of answers.  What may be shown depends on the system played: each has
\* drawn its own topics.
Pairs == SUBSET (Topics \X Text)

LEMMA TextsOfTheCode == "" \in Text /\ ".dir" \in Text /\ Fixed \subseteq Text
  BY HostAssumption

LEMMA EpochsTyped == Epochs \in Seq(Text) /\ Len(Epochs) \in Nat
  <1>1. Epochs \in Seq(Text)
    BY HostAssumption
  <1> QED
    BY <1>1

LEMMA OkTyped ==
  ASSUME NEW pairs \in Pairs
  PROVE  Ok(pairs) \in Answer
  BY DEF Ok, Answer, Pairs

LEMMA NothingTyped == Ok({}) \in Answer
  BY OkTyped DEF Pairs

LEMMA ErrorTyped == Error \in Answer
  BY DEF Error, Answer

LEMMA AndTyped ==
  ASSUME NEW a \in Answer, NEW pairs \in Pairs
  PROVE  And(a, pairs) \in Answer
  BY DEF And, Answer, Pairs

LEMMA ShownTyped ==
  ASSUME TypeOK, NEW topics, topics \subseteq Persisted \cup Drawn(mode)
  PROVE  Shown(topics) \in Answer
  <1>1. mode \in {"linux", "windows"}
    BY HostAssumption DEF TypeOK
  <1>2. Persisted \cup Drawn(mode) \subseteq Topics
    BY <1>1 DEF Topics, Drawn
  <1>3. \A t \in topics \ Persisted : t \in Drawn(mode) /\ drawn[t] \in Text
    BY DEF TypeOK
  <1>4. \A t \in topics \cap Persisted : kept[t] \in Text
    BY DEF TypeOK
  <1> DEFINE pairs == {<<t, drawn[t]>> : t \in topics \ Persisted} \cup {<<t, kept[t]>> : t \in topics \cap Persisted}
  <1>5. pairs \in Pairs
    BY <1>2, <1>3, <1>4 DEF Pairs
  <1> QED
    BY <1>5, OkTyped DEF Shown

\* A pair whose text the code spells out, or that is known to be a text.
LEMMA PairTyped ==
  ASSUME NEW topic \in {"text", "free", "listing", "entry", "path", "distribution", "release"},
         NEW value \in Text \cup Fixed
  PROVE  {<<topic, value>>} \in Pairs
  <1>1. topic \in Topics
    BY DEF Topics, Drawn
  <1>2. value \in Text
    BY HostAssumption
  <1> QED
    BY <1>1, <1>2 DEF Pairs

LEMMA ListingTyped ==
  ASSUME NEW dir \in Text \cup {"app"}, NEW names \in SUBSET Text
  PROVE  Listing(dir, names) \in Answer
  <1>1. {<<"listing", dir>>} \in Pairs
    BY PairTyped DEF Fixed
  <1>2. \A n \in names : {<<"entry", n>>} \in Pairs
    BY PairTyped
  <1>3. {<<"listing", dir>>} \cup {<<"entry", n>> : n \in names} \in Pairs
    BY <1>1, <1>2 DEF Pairs
  <1> QED
    BY <1>3, OkTyped DEF Listing

LEMMA NamesTyped ==
  ASSUME TypeOK, NEW dir \in Path
  PROVE  WrittenInDir(dir) \in SUBSET Text
  <1>1. ASSUME NEW p \in DOMAIN written, Len(p) = Len(dir) + 1 PROVE p[Len(p)] \in Text
    <2>1. p \in Seq(Text) /\ Len(dir) \in Nat
      BY DEF TypeOK, Path
    <2> QED
      BY <1>1, <2>1
  <1> QED
    BY <1>1 DEF WrittenInDir

LEMMA LastTyped ==
  ASSUME NEW arg \in Path, arg # <<>>
  PROVE  arg[Len(arg)] \in Text /\ arg[1] \in Text /\ (Len(arg) > 1 => arg[2] \in Text)
  BY DEF Path

\* Linux.
LEMMA FixedFileTyped ==
  ASSUME TypeOK, mode = "linux", NEW path
  PROVE  FixedFile(path) \in Answer
  <1>1. \A topics : topics \subseteq Persisted \cup Drawn("linux") => Shown(topics) \in Answer
    BY ShownTyped
  <1>2. /\ Shown({"hostname"}) \in Answer /\ Shown({"machine"}) \in Answer /\ Shown({"user"}) \in Answer
        /\ Shown({"kernel"}) \in Answer /\ Shown({"distribution"}) \in Answer /\ Shown({"boot"}) \in Answer
        /\ Shown({"memory"}) \in Answer /\ Shown({"hostname", "user", "boot"}) \in Answer
    BY <1>1 DEF Persisted, Drawn
  <1>3. And(Shown({"kernel"}), {<<"distribution", "Ubuntu">>}) \in Answer
    BY <1>2, AndTyped, PairTyped DEF Fixed
  <1>4. And(Shown({"memory"}), {<<"free", "an eighth">>}) \in Answer
    BY <1>2, AndTyped, PairTyped DEF Fixed
  <1> QED
    BY <1>2, <1>3, <1>4, NothingTyped, ErrorTyped DEF FixedFile

LEMMA ReadFileTyped ==
  ASSUME TypeOK, mode = "linux", NEW path
  PROVE  ReadFile(path) \in Answer
  <1>1. CASE path \in DOMAIN written
    <2>1. written[path] \in Text
      BY <1>1 DEF TypeOK
    <2>2. Ok({<<"text", written[path]>>}) \in Answer
      BY <2>1, PairTyped, OkTyped
    <2> QED
      BY <1>1, <2>2 DEF ReadFile
  <1> QED
    BY <1>1, FixedFileTyped DEF ReadFile

LEMMA LsTyped ==
  ASSUME TypeOK, NEW arg \in Path
  PROVE  Ls(arg) \in Answer
  <1>1. <<"app">> \in Path
    <2>1. PICK t \in Text : t = "app"
      BY TextsOfTheCode DEF Fixed
    <2>2. <<t>> \in Seq(Text)
      OBVIOUS
    <2> QED
      BY <2>1, <2>2, Zenon DEF Path
  <1>2. Listing("app", WrittenInDir(<<"app">>)) \in Answer
    BY <1>1, NamesTyped, ListingTyped
  <1>3. arg # <<>> => Listing(arg[Len(arg)], WrittenInDir(arg)) \in Answer /\ Listing(arg[1], {}) \in Answer
    BY NamesTyped, ListingTyped, LastTyped
  <1>4. arg \in {<<"tmp">>, <<"var", "log">>, <<"root">>} \cup {<<"etc">>, <<"var", "www">>, <<"var", "www", "html">>}
          => arg # <<>>
    OBVIOUS
  <1> QED
    BY <1>2, <1>3, <1>4, ErrorTyped DEF Ls

LEMMA ExecShellTyped ==
  ASSUME TypeOK, mode = "linux", NEW word, NEW arg \in Path
  PROVE  ExecShell(word, arg) \in Answer
  <1>1. \A topics : topics \subseteq Persisted \cup Drawn("linux") => Shown(topics) \in Answer
    BY ShownTyped
  <1>2. /\ Shown({"hostname"}) \in Answer /\ Shown({"user"}) \in Answer /\ Shown({"kernel"}) \in Answer
        /\ Shown({"hostname", "kernel"}) \in Answer /\ Shown({"boot"}) \in Answer
        /\ Shown({"user", "boot"}) \in Answer /\ Shown({"memory"}) \in Answer
    BY <1>1 DEF Persisted, Drawn
  <1>3. And(Shown({"hostname", "kernel"}), {<<"distribution", "Ubuntu">>}) \in Answer
    BY <1>2, AndTyped, PairTyped DEF Fixed
  <1>4. And(Shown({"memory"}), {<<"free", "two fifths">>}) \in Answer
    BY <1>2, AndTyped, PairTyped DEF Fixed
  <1> QED
    BY <1>2, <1>3, <1>4, NothingTyped, ErrorTyped, LsTyped, ReadFileTyped DEF ExecShell

LEMMA LinuxTyped ==
  ASSUME TypeOK, mode = "linux", NEW c \in Call
  PROVE  LinuxAnswer(c) \in Answer
  <1>1. c.arg \in Path /\ <<>> \in Path
    BY DEF Call, Path
  <1>2. ReadFileTool(c.arg) \in Answer
    <2>1. CASE c.arg \in DOMAIN written
      <3>1. Stripped(c.arg, written[c.arg]) \in Text
        BY <2>1, HostAssumption DEF TypeOK, Stripped
      <3>2. Ok({<<"text", Stripped(c.arg, written[c.arg])>>}) \in Answer
        BY <3>1, PairTyped, OkTyped
      <3> QED
        BY <2>1, <3>2 DEF ReadFileTool
    <2>2. CASE c.arg \notin DOMAIN written
      BY <2>2, ReadFileTyped DEF ReadFileTool
    <2> QED
      BY <2>1, <2>2
  <1>3. Shown({"hostname"}) \in Answer
    BY ShownTyped DEF Drawn
  <1> QED
    BY <1>1, <1>2, <1>3, ExecShellTyped, NothingTyped DEF LinuxAnswer

\* Windows.
LEMMA WindowsFilesTyped ==
  ASSUME TypeOK, mode = "windows", NEW arg \in Path
  PROVE  DirOutput(arg) \in Answer /\ ReadWindowsFile(arg) \in Answer
  <1>1. arg # <<>> => /\ Listing(arg[Len(arg)], {}) \in Answer
                      /\ Len(arg) > 1 => Listing(arg[2], {}) \in Answer
    BY LastTyped, ListingTyped
  <1>2. arg \in {<<"c:">>, <<"c:", "users">>, Home, Append(Home, ".ssh")} => arg # <<>>
    BY DEF Home
  <1>3. Len(arg) > 1 => arg # <<>>
    OBVIOUS
  <1>4. Shown({"hostname", "domain", "user"}) \in Answer
    BY ShownTyped DEF Drawn
  <1>5. DirOutput(arg) \in Answer
    BY <1>1, <1>2, <1>3, ErrorTyped DEF DirOutput
  <1>6. ReadWindowsFile(arg) \in Answer
    BY <1>4, ErrorTyped, NothingTyped DEF ReadWindowsFile
  <1> QED
    BY <1>5, <1>6

LEMMA QueriesTyped ==
  ASSUME TypeOK, mode = "windows", NEW text
  PROVE  ReadRegistry(text) \in Answer /\ QueryWMI(text) \in Answer /\ EchoExpand(text) \in Answer
  <1>1. \A topics : topics \subseteq Persisted \cup Drawn("windows") => Shown(topics) \in Answer
    BY ShownTyped
  <1>2. /\ Shown({"release", "domain"}) \in Answer /\ Shown({"domain", "hostname", "user"}) \in Answer
        /\ Shown({"release", "hostname", "boot"}) \in Answer /\ Shown({"user"}) \in Answer
        /\ Shown({"domain"}) \in Answer /\ Shown({"hostname"}) \in Answer
    BY <1>1 DEF Persisted, Drawn
  <1>3. Ok({<<"path", "three entries">>}) \in Answer
    BY PairTyped, OkTyped DEF Fixed
  <1> QED
    BY <1>2, <1>3, NothingTyped, ErrorTyped DEF ReadRegistry, QueryWMI, EchoExpand

LEMMA RunCommandTyped ==
  ASSUME TypeOK, mode = "windows", NEW c \in Call
  PROVE  RunCommand(c) \in Answer
  <1>1. \A topics : topics \subseteq Persisted \cup Drawn("windows") => Shown(topics) \in Answer
    BY ShownTyped
  <1>2. /\ Shown({"hostname"}) \in Answer /\ Shown({"user", "domain"}) \in Answer
        /\ Shown({"user", "domain", "sid"}) \in Answer /\ Shown({"hostname", "user"}) \in Answer
        /\ Shown({"hostname", "user", "domain"}) \in Answer /\ Shown({"user"}) \in Answer
        /\ Shown({"release"}) \in Answer /\ Shown({"hostname", "release", "domain"}) \in Answer
        /\ Shown({"domain", "address"}) \in Answer /\ Shown({"hostname", "domain", "address"}) \in Answer
        /\ Shown({"address"}) \in Answer /\ Shown({"hostname", "domain", "user"}) \in Answer
    BY <1>1 DEF Drawn
  <1>3. Ok({<<"release", "10.0.20348">>}) \in Answer
    BY PairTyped, OkTyped DEF Fixed
  <1>4. And(Shown({"hostname", "domain", "user"}), {<<"path", "four entries">>}) \in Answer
    BY <1>2, AndTyped, PairTyped DEF Fixed
  <1>5. c.arg \in Path
    BY DEF Call
  <1> QED
    BY <1>2, <1>3, <1>4, <1>5, NothingTyped, ErrorTyped, WindowsFilesTyped, QueriesTyped DEF RunCommand

LEMMA WindowsTyped ==
  ASSUME TypeOK, mode = "windows", NEW c \in Call
  PROVE  WindowsAnswer(c) \in Answer
  <1>1. Shown({"hostname"}) \in Answer /\ Shown({"user", "domain"}) \in Answer
    BY ShownTyped DEF Drawn
  <1> QED
    BY <1>1, RunCommandTyped, QueriesTyped, NothingTyped DEF WindowsAnswer

\* The files: a call stores a text at a path.
LEMMA StoresTyped ==
  ASSUME TypeOK, NEW c \in Call
  PROVE  DOMAIN Stores(c) \subseteq Path /\ \A p \in DOMAIN Stores(c) : Stores(c)[p] \in Text
  <1>1. ASSUME NEW path \in Path, NEW text \in Text
        PROVE  DOMAIN Store(path, text) \subseteq Path /\ \A p \in DOMAIN Store(path, text) : Store(path, text)[p] \in Text
    BY DEF Store, TypeOK
  <1>2. c.arg \in Path /\ c.text \in Text /\ "" \in Text
    BY HostAssumption DEF Call
  <1>3. Append(c.arg, ".dir") \in Path
    <2>1. PICK t \in Text : t = ".dir"
      BY TextsOfTheCode
    <2>2. \A s \in Seq(Text) : Append(s, t) \in Seq(Text)
      OBVIOUS
    <2> QED
      BY <1>2, <2>1, <2>2, Zenon DEF Path
  <1>4. DOMAIN written \subseteq Path /\ \A p \in DOMAIN written : written[p] \in Text
    BY DEF TypeOK
  <1> QED
    BY <1>1, <1>2, <1>3, <1>4 DEF Stores

LEMMA NoFilesTyped == DOMAIN NoFiles \subseteq Path /\ \A p \in DOMAIN NoFiles : NoFiles[p] \in Text
  BY DEF NoFiles

LEMMA TypeInit == Init => TypeOK
  <1> SUFFICES ASSUME Init PROVE TypeOK
    OBVIOUS
  <1>1. mode \in Modes /\ seeded \in BOOLEAN /\ drawn \in [Drawn(mode) -> Text]
    BY HostAssumption DEF Init
  <1>2. kept \in [Persisted -> Text]
    BY HostAssumption DEF Init
  <1>3. 0 \in 0..Len(Epochs) /\ 0 \in 0..MaxFaults
    <2>1. MaxFaults \in Nat
      BY HostAssumption
    <2> QED
      BY <2>1, EpochsTyped
  <1>4. \A S : <<>> \in Seq(S)
    OBVIOUS
  <1>5. log \in Seq([run: Nat, call: Call, answer: Answer])
    BY <1>4 DEF Init
  <1> QED
    BY <1>1, <1>2, <1>3, <1>5, NoFilesTyped DEF Init, TypeOK

LEMMA TypeStart ==
  ASSUME TypeOK, Start
  PROVE  TypeOK'
  <1>1. runs' = runs + 1 /\ runs < Len(Epochs) /\ written' = NoFiles /\ UNCHANGED <<mode, seeded, log>>
    BY DEF Start, conf
  <1>2. Epochs \in Seq(Text) /\ MaxFaults \in Nat /\ runs \in 0..Len(Epochs) /\ faults \in 0..MaxFaults
    BY HostAssumption DEF TypeOK
  <1>3. Epochs[runs + 1] \in Text /\ runs' \in 0..Len(Epochs)
    BY <1>1, <1>2
  <1>4. \A found \in [Persisted -> Text] \cup {None} : Kept(found) \in [Persisted -> Text]
    BY <1>3 DEF Kept
  <1>5. Hosts[mode] \subseteq [Drawn(mode) -> Text]
    BY HostAssumption DEF TypeOK
  <1>6. PICK readable, found :
          /\ readable \in BOOLEAN
          /\ found = IF readable THEN saved ELSE None
          /\ readable \/ faults < MaxFaults
          /\ spoilt' = (spoilt \/ (saved # None /\ ~readable))
          /\ \/ /\ kept' = Kept(found)
                /\ saved' = kept'
                /\ drawn' \in (IF seeded THEN {drawn} ELSE Hosts[mode])
                /\ up' = TRUE
                /\ faults' = faults + (IF readable THEN 0 ELSE 1)
             \/ /\ found = None /\ faults < MaxFaults
                /\ saved' \in {saved, None}
                /\ faults' = faults + 1
                /\ UNCHANGED <<drawn, kept, up>>
    BY DEF Start
  <1>7. found \in [Persisted -> Text] \cup {None}
    BY <1>6 DEF TypeOK
  <1>8. kept' \in [Persisted -> Text] /\ saved' \in [Persisted -> Text] \cup {None} /\ up' \in BOOLEAN
    BY <1>4, <1>6, <1>7 DEF TypeOK
  <1>9. drawn' \in [Drawn(mode) -> Text]
    BY <1>5, <1>6 DEF TypeOK
  <1>10. faults' \in 0..MaxFaults
    BY <1>2, <1>6
  <1>11. spoilt' \in BOOLEAN
    BY <1>6 DEF TypeOK
  <1>12. drawn' \in [Drawn(mode)' -> Text]
    BY <1>1, <1>9 DEF Drawn
  <1> QED
    BY <1>1, <1>3, <1>8, <1>10, <1>11, <1>12, NoFilesTyped DEF TypeOK

LEMMA TypeHandle ==
  ASSUME TypeOK, NEW c \in Calls[mode], Handle(c)
  PROVE  TypeOK'
  <1> DEFINE a == IF mode = "linux" THEN LinuxAnswer(c) ELSE WindowsAnswer(c)
  <1>1. c \in Call /\ mode \in {"linux", "windows"}
    BY HostAssumption DEF TypeOK
  <1>2. a \in Answer
    BY <1>1, LinuxTyped, WindowsTyped
  <1>3. written' = Stores(c) /\ log' = Append(log, [run |-> runs, call |-> c, answer |-> a])
    BY DEF Handle
  <1> HIDE DEF a
  <1>4. runs \in Nat
    BY EpochsTyped DEF TypeOK
  <1>5. log' \in Seq([run: Nat, call: Call, answer: Answer])
    BY <1>1, <1>2, <1>3, <1>4 DEF TypeOK
  <1>6. DOMAIN written' \subseteq Path /\ \A p \in DOMAIN written' : written'[p] \in Text
    BY <1>1, <1>3, StoresTyped
  <1>7. UNCHANGED <<mode, seeded, drawn, kept, saved, runs, spoilt, up, faults>>
    BY DEF Handle, conf, system
  <1> QED
    BY <1>5, <1>6, <1>7 DEF TypeOK, Drawn

LEMMA TypeNext == TypeOK /\ [Next]_vars => TypeOK'
  <1> SUFFICES ASSUME TypeOK, [Next]_vars PROVE TypeOK'
    OBVIOUS
  <1>1. CASE Start
    BY <1>1, TypeStart
  <1>2. CASE Stop \/ \E c \in Calls[mode] : Panic(c)
    <2>1. UNCHANGED <<mode, seeded, drawn, kept, saved, runs, spoilt, log, faults>> /\ up' = FALSE /\ written' = NoFiles
      BY <1>2 DEF Stop, Panic, conf, system
    <2> QED
      BY <2>1, NoFilesTyped DEF TypeOK, Drawn
  <1>3. CASE \E c \in Calls[mode] : Handle(c)
    BY <1>3, TypeHandle
  <1>4. CASE UNCHANGED vars
    BY <1>4 DEF vars, conf, system, TypeOK, Drawn
  <1> QED
    BY <1>1, <1>2, <1>3, <1>4 DEF Next

\* Every answer that the tools and resources give is one of a shell: it is about the
\* topics that the system played has drawn, and every file written has a path and
\* a text.
THEOREM HostTypeCorrect == Spec => []TypeOK
  BY TypeInit, TypeNext, PTL DEF Spec
-----------------------------------------------------------------------------
\* What the answers have told is true yet, where it must be: for the process that
\* runs, of what is persisted as long as the file could be read, and of what is
\* drawn if there is a seed.
LogSeq == \E S : log \in Seq(S)

Bound(i, t) ==
  \/ log[i].run = runs
  \/ t \in Persisted /\ ~spoilt
  \/ t \in Drawn(mode) /\ seeded

TrueYet(i) ==
  \A v \in log[i].answer.shows : v[1] \in Facts /\ Bound(i, v[1]) => v[2] = Value(v[1])

SameRunAgrees ==
  \A i, j \in DOMAIN log : log[i].run = log[j].run =>
    \A v \in log[i].answer.shows, w \in log[j].answer.shows :
      v[1] = w[1] /\ v[1] \in Facts => v[2] = w[2]

\* The file holds what the processes were given, once one of them has run.
FileHolds ==
  (up \/ log # <<>>) /\ ~spoilt => saved = kept /\ kept \in [Persisted -> Text]

FactInv ==
  /\ LogSeq /\ runs \in Nat /\ spoilt \in BOOLEAN
  /\ saved \in [Persisted -> Text] \cup {None}
  /\ FileHolds
  /\ \A i \in DOMAIN log : log[i].run \in Nat /\ log[i].run <= runs
  /\ \A i \in DOMAIN log : TrueYet(i)
  /\ SameRunAgrees

\* The log grows by one entry.
LEMMA Logged ==
  ASSUME LogSeq, NEW e, log' = Append(log, e)
  PROVE  /\ LogSeq'
         /\ Len(log) \in Nat /\ DOMAIN log = 1..Len(log) /\ Len(log') = Len(log) + 1
         /\ DOMAIN log' = 1..Len(log) + 1
         /\ log'[Len(log) + 1] = e
         /\ \A i \in 1..Len(log) : log'[i] = log[i]
  <1>1. PICK S : log \in Seq(S)
    BY DEF LogSeq
  <1> DEFINE T == S \cup {e}
  <1>2. S \subseteq T /\ e \in T
    OBVIOUS
  <1> HIDE DEF T
  <1>3. log \in Seq(T)
    BY <1>1, <1>2
  <1>4. log' \in Seq(T)
    BY <1>2, <1>3
  <1>5. LogSeq'
    BY <1>4 DEF LogSeq
  <1>6. /\ Len(log) \in Nat /\ DOMAIN log = 1..Len(log) /\ Len(log') = Len(log) + 1
        /\ log'[Len(log) + 1] = e
    BY <1>1, <1>2, <1>3
  <1>7. DOMAIN log' = 1..Len(log')
    BY <1>4
  <1>8. ASSUME NEW i \in 1..Len(log) PROVE log'[i] = log[i]
    BY <1>2, <1>3
  <1> QED
    BY <1>5, <1>6, <1>7, <1>8

LEMMA FactInvInit == Init => FactInv
  <1> SUFFICES ASSUME Init PROVE FactInv
    OBVIOUS
  <1>1. log = <<>> /\ runs = 0 /\ spoilt = FALSE /\ saved = None /\ up = FALSE
    BY DEF Init
  <1>2. LogSeq
    <2>1. log \in Seq({})
      BY <1>1
    <2> QED
      BY <2>1 DEF LogSeq
  <1>3. DOMAIN log = {}
    BY <1>1
  <1>4. FileHolds /\ SameRunAgrees
    BY <1>1, <1>3 DEF FileHolds, SameRunAgrees
  <1> QED
    BY <1>1, <1>2, <1>3, <1>4 DEF FactInv

\* A step that changes neither the log nor the facts.
LEMMA FactFrame ==
  ASSUME FactInv, UNCHANGED <<log, runs, spoilt, saved, kept, drawn, mode, seeded>>, up' => up
  PROVE  FactInv'
  <1>1. LogSeq'
    BY DEF FactInv, LogSeq
  <1>2. FileHolds'
    BY DEF FactInv, FileHolds
  <1>3. \A i \in DOMAIN log : TrueYet(i)'
    BY DEF FactInv, TrueYet, Bound, Value
  <1>4. SameRunAgrees'
    BY DEF FactInv, SameRunAgrees
  <1> QED
    BY <1>1, <1>2, <1>3, <1>4 DEF FactInv

\* An answer is true when it is given, and agrees with those given before by the
\* same process, which are true yet.
LEMMA FactHandle ==
  ASSUME FactInv, NEW c, Handle(c)
  PROVE  FactInv'
  <1> DEFINE a == IF mode = "linux" THEN LinuxAnswer(c) ELSE WindowsAnswer(c)
             e == [run |-> runs, call |-> c, answer |-> a]
             n == Len(log) + 1
  <1>1. log' = Append(log, e) /\ up /\ UNCHANGED <<mode, seeded, drawn, kept, saved, runs, spoilt, up>>
    BY DEF Handle, conf, system
  <1>2. Good(a)
    BY LinuxGood, WindowsGood
  <1>3. e.run = runs /\ e.answer = a
    OBVIOUS
  <1> HIDE DEF e, a
  <1>4. /\ LogSeq' /\ Len(log) \in Nat /\ DOMAIN log = 1..Len(log) /\ DOMAIN log' = 1..n
        /\ log'[n] = e /\ \A i \in 1..Len(log) : log'[i] = log[i]
    BY <1>1, Logged DEF FactInv
  <1> HIDE DEF n
  <1>5. n \in Nat /\ \A i \in 1..n : i \in 1..Len(log) \/ i = n
    BY <1>4 DEF n
  <1>6. FileHolds'
    BY <1>1 DEF FactInv, FileHolds
  <1>7. \A i \in DOMAIN log' : log'[i].run \in Nat /\ log'[i].run <= runs'
    BY <1>1, <1>3, <1>4, <1>5 DEF FactInv
  <1>8. \A i \in DOMAIN log' : TrueYet(i)'
    <2> SUFFICES ASSUME NEW i \in 1..n PROVE TrueYet(i)'
      BY <1>4
    <2>1. CASE i \in 1..Len(log)
      <3>1. TrueYet(i)
        BY <2>1, <1>4 DEF FactInv
      <3> QED
        BY <1>1, <1>4, <2>1, <3>1 DEF TrueYet, Bound, Value
    <2>2. CASE i = n
      BY <1>1, <1>2, <1>3, <1>4, <2>2 DEF TrueYet, Value, Good
    <2> QED
      BY <1>5, <2>1, <2>2
  <1>9. SameRunAgrees'
    <2> SUFFICES ASSUME NEW i \in 1..n, NEW j \in 1..n, log'[i].run = log'[j].run,
                        NEW v \in log'[i].answer.shows, NEW w \in log'[j].answer.shows,
                        v[1] = w[1], v[1] \in Facts
                 PROVE  v[2] = w[2]
      BY <1>4 DEF SameRunAgrees
    <2>1. CASE i \in 1..Len(log) /\ j \in 1..Len(log)
      BY <1>4, <2>1 DEF FactInv, SameRunAgrees
    <2>2. CASE i = n \/ j = n
      <3>1. log'[i].run = runs' /\ log'[j].run = runs'
        BY <1>1, <1>3, <1>4, <2>2
      <3>2. TrueYet(i)' /\ TrueYet(j)'
        BY <1>4, <1>8
      <3>3. v[2] = Value(v[1])'
        BY <3>1, <3>2 DEF TrueYet, Bound
      <3>4. w[2] = Value(w[1])'
        BY <3>1, <3>2 DEF TrueYet, Bound
      <3> QED
        BY <3>3, <3>4
    <2> QED
      BY <1>5, <2>1, <2>2
  <1> QED
    BY <1>1, <1>4, <1>6, <1>7, <1>8, <1>9 DEF FactInv

\* A new process, or one that fails to start, gives no answer yet; what earlier
\* answers told of what is persisted, it finds in the file.
LEMMA FactStart ==
  ASSUME FactInv, Start
  PROVE  FactInv'
  <1>1. runs \in Nat /\ runs < Len(Epochs) /\ runs' = runs + 1 /\ UNCHANGED <<log, mode, seeded>> /\ ~up
    BY DEF Start, FactInv, conf
  <1>2. PICK readable, found :
          /\ readable \in BOOLEAN
          /\ found = IF readable THEN saved ELSE None
          /\ spoilt' = (spoilt \/ (saved # None /\ ~readable))
          /\ \/ /\ kept' = Kept(found)
                /\ saved' = kept'
                /\ drawn' \in (IF seeded THEN {drawn} ELSE Hosts[mode])
                /\ up' = TRUE
             \/ /\ found = None
                /\ saved' \in {saved, None}
                /\ UNCHANGED <<drawn, kept, up>>
    BY DEF Start
  <1>3. LogSeq'
    BY <1>1 DEF FactInv, LogSeq
  <1>4. Kept(found) \in [Persisted -> Text]
    <2>1. CASE found # None
      BY <1>2, <2>1 DEF Kept, FactInv
    <2>2. CASE found = None
      <3>1. Epochs[runs + 1] \in Text
        BY <1>1, EpochsTyped
      <3> QED
        BY <2>2, <3>1 DEF Kept
    <2> QED
      BY <2>1, <2>2
  <1>5. saved' \in [Persisted -> Text] \cup {None} /\ spoilt' \in BOOLEAN
    BY <1>2, <1>4 DEF FactInv
  <1>6. ASSUME log # <<>>, ~spoilt'
        PROVE  /\ saved = kept /\ kept \in [Persisted -> Text] /\ kept' = kept /\ saved' = kept'
    <2>1. saved = kept /\ kept \in [Persisted -> Text] /\ ~spoilt
      BY <1>2, <1>6 DEF FactInv, FileHolds
    <2>2. saved # None
      BY <2>1, HostAssumption
    <2>3. found = saved
      BY <1>2, <1>6, <2>2
    <2> QED
      BY <1>2, <2>1, <2>2, <2>3 DEF Kept
  <1>7. FileHolds'
    <2> SUFFICES ASSUME up' \/ log # <<>>, ~spoilt'
                 PROVE  saved' = kept' /\ kept' \in [Persisted -> Text]
      BY <1>1 DEF FileHolds
    <2>1. CASE log # <<>>
      BY <1>6, <2>1
    <2>2. CASE log = <<>>
      <3>1. up'
        BY <1>1, <2>2
      <3>2. ~UNCHANGED up
        BY <1>1, <3>1, Zenon
      <3>3. kept' = Kept(found) /\ saved' = kept'
        BY <1>2, <3>2, Zenon
      <3> QED
        BY <1>4, <3>3, Zenon
    <2> QED
      BY <2>1, <2>2
  <1>8. ASSUME NEW i \in DOMAIN log PROVE TrueYet(i)'
    <2>1. log # <<>> /\ log[i].run # runs' /\ TrueYet(i)
      <3>1. DOMAIN <<>> = {}
        OBVIOUS
      <3> QED
        BY <1>1, <3>1 DEF FactInv
    <2> SUFFICES ASSUME NEW v \in log[i].answer.shows, v[1] \in Facts, Bound(i, v[1])'
                 PROVE  v[2] = Value(v[1])'
      BY <1>1 DEF TrueYet
    <2>2. CASE v[1] \in Persisted /\ ~spoilt'
      <3>1. ~spoilt
        BY <1>2, <2>2
      <3>2. kept' = kept
        BY <1>6, <2>1, <2>2
      <3>3. v[2] = Value(v[1])
        BY <2>1, <2>2, <3>1 DEF TrueYet, Bound
      <3> QED
        BY <2>2, <3>2, <3>3 DEF Value
    <2>3. CASE v[1] \in Drawn(mode) /\ seeded
      <3>1. drawn' = drawn
        BY <1>2, <2>3
      <3>2. v[2] = Value(v[1])
        BY <2>1, <2>3 DEF TrueYet, Bound
      <3>3. v[1] \notin Persisted
        BY <2>3 DEF Drawn, Persisted
      <3> QED
        BY <3>1, <3>2, <3>3 DEF Value
    <2> QED
      BY <1>1, <2>1, <2>2, <2>3 DEF Bound, Drawn
  <1>9. SameRunAgrees'
    BY <1>1 DEF FactInv, SameRunAgrees
  <1>10. \A i \in DOMAIN log' : log'[i].run \in Nat /\ log'[i].run <= runs'
    BY <1>1 DEF FactInv
  <1> QED
    BY <1>1, <1>3, <1>5, <1>7, <1>8, <1>9, <1>10 DEF FactInv

LEMMA FactInvNext == FactInv /\ [Next]_vars => FactInv'
  <1> SUFFICES ASSUME FactInv, [Next]_vars PROVE FactInv'
    OBVIOUS
  <1>1. CASE Start
    BY <1>1, FactStart
  <1>2. CASE Stop \/ \E c \in Calls[mode] : Panic(c)
    BY <1>2, FactFrame DEF Stop, Panic, conf, system
  <1>3. CASE \E c \in Calls[mode] : Handle(c)
    BY <1>3, FactHandle
  <1>4. CASE UNCHANGED vars
    BY <1>4, FactFrame DEF vars, conf, system
  <1> QED
    BY <1>1, <1>2, <1>3, <1>4 DEF Next

\* No answer contradicts another about what is drawn or persisted, whichever calls
\* asked, and across processes as far as the file and the seed reach.
THEOREM AnswersAgree == Spec => []FactsAgree
  <1>1. FactInv => FactsAgree
    <2> SUFFICES ASSUME FactInv, NEW i \in DOMAIN log, NEW j \in DOMAIN log,
                        NEW v \in log[i].answer.shows, NEW w \in log[j].answer.shows,
                        v[1] = w[1], v[1] \in Facts,
                        \/ log[i].run = log[j].run
                        \/ v[1] \in Persisted /\ ~spoilt
                        \/ v[1] \in Drawn(mode) /\ seeded
                 PROVE  v[2] = w[2]
      BY DEF FactsAgree, Agree, Facts
    <2>1. CASE log[i].run = log[j].run
      BY <2>1 DEF FactInv, SameRunAgrees
    <2>2. CASE (v[1] \in Persisted /\ ~spoilt) \/ (v[1] \in Drawn(mode) /\ seeded)
      BY <2>2 DEF FactInv, TrueYet, Bound
    <2> QED
      BY <2>1, <2>2
  <1> QED
    BY <1>1, FactInvInit, FactInvNext, PTL DEF Spec
-----------------------------------------------------------------------------
\* What the map holds is what the last store of this process left there.
StoresHere(j, path) == log[j].run = runs /\ \E s \in StoredBy(log[j].call) : s[1] = path

Latest(j, path) == StoresHere(j, path) /\ \A k \in DOMAIN log : StoresHere(k, path) => k <= j

MapInv ==
  up /\ mode = "linux" =>
    \A j \in DOMAIN log : \A s \in StoredBy(log[j].call) :
      Latest(j, s[1]) => s[1] \in DOMAIN written /\ written[s[1]] = s[2]

ReadInv == MapInv /\ LinuxReadsLatest

\* A call stores under one path what it is said to, or nothing.
LEMMA StoreEffect ==
  ASSUME mode = "linux", NEW c
  PROVE  \/ StoredBy(c) = {} /\ Stores(c) = written
         \/ \E p, t : StoredBy(c) = {<<p, t>>} /\ Stores(c) = Store(p, t)
  <1>1. CASE c.tool = "write_file"
    BY <1>1 DEF StoredBy, Stores
  <1>2. CASE c.tool = "execute_shell" /\ c.word = "touch" /\ c.arg # <<>>
    BY <1>2 DEF StoredBy, Stores
  <1>3. CASE c.tool = "execute_shell" /\ c.word = "mkdir" /\ c.arg # <<>>
    BY <1>3 DEF StoredBy, Stores
  <1>4. CASE /\ c.tool # "write_file"
             /\ ~(c.tool = "execute_shell" /\ c.word = "touch" /\ c.arg # <<>>)
             /\ ~(c.tool = "execute_shell" /\ c.word = "mkdir" /\ c.arg # <<>>)
    BY <1>4 DEF StoredBy, Stores
  <1> QED
    BY <1>1, <1>2, <1>3, <1>4

\* A read shows what the map holds.
LEMMA ReadShows ==
  ASSUME NEW c, NEW path \in ReadBy(c), path \in DOMAIN written
  PROVE  Texts(LinuxAnswer(c)) = {Seen(c, written[path])}
  <1>1. ASSUME NEW text PROVE Texts(Ok({<<"text", text>>})) = {text}
    <2>1. Ok({<<"text", text>>}).shows = {<<"text", text>>}
      BY DEF Ok
    <2>2. {x \in {<<"text", text>>} : x[1] = "text"} = {<<"text", text>>}
      OBVIOUS
    <2>3. {v[2] : v \in {<<"text", text>>}} = {text}
      OBVIOUS
    <2> QED
      BY <2>1, <2>2, <2>3 DEF Texts
  <1>2. PICK text : text = written[path]
    OBVIOUS
  <1>3. CASE c.tool = "read_file"
    <2>1. path = c.arg /\ LinuxAnswer(c) = ReadFileTool(path)
      BY <1>3 DEF ReadBy, LinuxAnswer
    <2>2. ReadFileTool(path) = Ok({<<"text", Stripped(path, text)>>})
      BY <1>2 DEF ReadFileTool
    <2>3. Stripped(path, text) = Seen(c, text)
      BY <1>3, <2>1 DEF Stripped, Seen
    <2> QED
      BY <1>1, <1>2, <2>1, <2>2, <2>3
  <1>4. CASE c.tool = "execute_shell" /\ c.word = "cat" /\ c.arg # <<>>
    <2>1. path = c.arg /\ LinuxAnswer(c) = ExecShell("cat", path) /\ path # <<>>
      BY <1>4 DEF ReadBy, LinuxAnswer
    <2>2. ExecShell("cat", path) = ReadFile(path)
      BY <2>1 DEF ExecShell, Family, ExactWords
    <2>3. ReadFile(path) = Ok({<<"text", text>>})
      BY <1>2 DEF ReadFile
    <2>4. Seen(c, text) = text
      BY <1>4 DEF Seen
    <2> QED
      BY <1>1, <1>2, <2>1, <2>2, <2>3, <2>4
  <1> QED
    BY <1>3, <1>4 DEF ReadBy

LEMMA MapHandle ==
  ASSUME FactInv, MapInv, NEW c, Handle(c)
  PROVE  MapInv'
  <1>0. PICK n : n = Len(log) + 1
    OBVIOUS
  <1>1. PICK a : log' = Append(log, [run |-> runs, call |-> c, answer |-> a])
    BY DEF Handle
  <1>2. written' = Stores(c) /\ up /\ UNCHANGED <<mode, runs, up>>
    BY DEF Handle, conf, system
  <1>3. PICK e : e.run = runs /\ e.call = c /\ log' = Append(log, e)
    BY <1>1
  <1>4. /\ Len(log) \in Nat /\ DOMAIN log = 1..Len(log) /\ DOMAIN log' = 1..n
        /\ log'[n] = e /\ \A i \in 1..Len(log) : log'[i] = log[i]
    BY <1>0, <1>3, Logged DEF FactInv
  <1>5. n \in 1..n /\ (\A i \in 1..n : i \in 1..Len(log) \/ i = n) /\ \A i \in 1..Len(log) : ~(n <= i)
    BY <1>0, <1>4
  <1> SUFFICES ASSUME mode = "linux", NEW j \in 1..n, NEW s \in StoredBy(log'[j].call), Latest(j, s[1])'
               PROVE  s[1] \in DOMAIN written' /\ written'[s[1]] = s[2]
    BY <1>2, <1>4 DEF MapInv
  <1>6. CASE j = n
    <2>1. s \in StoredBy(c)
      BY <1>3, <1>4, <1>6
    <2>2. PICK p, t : StoredBy(c) = {<<p, t>>} /\ Stores(c) = Store(p, t)
      BY <2>1, StoreEffect
    <2>3. s[1] = p /\ s[2] = t
      BY <2>1, <2>2
    <2> QED
      BY <1>2, <2>2, <2>3 DEF Store
  <1>7. CASE j \in 1..Len(log)
    <2>1. s \in StoredBy(log[j].call) /\ log[j].run = runs
      BY <1>2, <1>4, <1>7 DEF Latest, StoresHere
    <2>2. ASSUME NEW k \in 1..Len(log), StoresHere(k, s[1]) PROVE k <= j
      <3>1. StoresHere(k, s[1])' /\ k \in 1..n
        BY <1>2, <1>4, <1>5, <2>2 DEF StoresHere
      <3> QED
        BY <1>4, <3>1 DEF Latest
    <2>3. Latest(j, s[1])
      BY <1>4, <2>1, <2>2 DEF Latest, StoresHere
    <2>4. s[1] \in DOMAIN written /\ written[s[1]] = s[2]
      BY <1>2, <1>4, <1>7, <2>1, <2>3 DEF MapInv
    <2>5. ASSUME NEW r \in StoredBy(c) PROVE r[1] # s[1]
      <3>1. SUFFICES ASSUME r[1] = s[1] PROVE FALSE
        OBVIOUS
      <3>2. StoresHere(n, s[1])'
        BY <1>2, <1>3, <1>4, <2>5, <3>1 DEF StoresHere
      <3>3. n <= j
        BY <1>4, <1>5, <3>2 DEF Latest
      <3> QED
        BY <1>5, <1>7, <3>3
    <2>6. CASE Stores(c) = written
      BY <1>2, <2>4, <2>6
    <2>7. ASSUME NEW p, NEW t, StoredBy(c) = {<<p, t>>}, Stores(c) = Store(p, t)
          PROVE  s[1] \in DOMAIN written' /\ written'[s[1]] = s[2]
      <3>1. s[1] # p
        BY <2>5, <2>7
      <3> QED
        BY <1>2, <2>4, <2>7, <3>1 DEF Store
    <2> QED
      BY <2>6, <2>7, StoreEffect
  <1> QED
    BY <1>5, <1>6, <1>7

LEMMA ReadsHandle ==
  ASSUME FactInv, MapInv, LinuxReadsLatest, NEW c, Handle(c)
  PROVE  LinuxReadsLatest'
  <1>0. PICK n : n = Len(log) + 1
    OBVIOUS
  <1> DEFINE a == IF mode = "linux" THEN LinuxAnswer(c) ELSE WindowsAnswer(c)
  <1>1. log' = Append(log, [run |-> runs, call |-> c, answer |-> a])
    BY DEF Handle
  <1>2. up /\ UNCHANGED <<mode, runs, up>>
    BY DEF Handle, conf, system
  <1> HIDE DEF a
  <1>3. PICK e : e.run = runs /\ e.call = c /\ e.answer = a /\ log' = Append(log, e)
    BY <1>1
  <1>4. /\ Len(log) \in Nat /\ DOMAIN log = 1..Len(log) /\ DOMAIN log' = 1..n
        /\ log'[n] = e /\ \A i \in 1..Len(log) : log'[i] = log[i]
    BY <1>0, <1>3, Logged DEF FactInv
  <1>5. (\A i \in 1..n : i \in 1..Len(log) \/ i = n) /\ n - 1 = Len(log)
    BY <1>0, <1>4
  <1> SUFFICES ASSUME mode = "linux", NEW i \in 1..n, NEW path \in ReadBy(log'[i].call),
                      NEW j \in StoresBefore(i, path)',
                      \A k \in StoresBefore(i, path)' : k <= j
               PROVE  Tells(i, j, path)'
    BY <1>2, <1>4 DEF LinuxReadsLatest
  <1>6. \A k \in 1..i - 1 : k \in 1..Len(log) /\ log'[k] = log[k]
    BY <1>4, <1>5
  <1>7. j \in 1..i - 1
    BY DEF StoresBefore
  <1>8. CASE i \in 1..Len(log)
    <2>1. log'[i] = log[i]
      BY <1>4, <1>8
    <2>2. StoresBefore(i, path)' = StoresBefore(i, path)
      BY <1>6, <2>1 DEF StoresBefore
    <2>3. i \in DOMAIN log /\ path \in ReadBy(log[i].call) /\ j \in StoresBefore(i, path)
      BY <1>4, <1>8, <2>1, <2>2
    <2>4. \A k \in StoresBefore(i, path) : k <= j
      BY <2>2
    <2>5. Tells(i, j, path)
      BY <2>3, <2>4 DEF LinuxReadsLatest
    <2>6. log'[j] = log[j]
      BY <1>6, <1>7
    <2> QED
      BY <2>1, <2>5, <2>6 DEF Tells, Texts, Seen
  <1>9. CASE i = n
    <2>1. log'[i] = e /\ path \in ReadBy(c)
      BY <1>3, <1>4, <1>9
    <2>2. j \in 1..Len(log) /\ StoresHere(j, path)
      BY <1>3, <1>6, <1>7, <2>1 DEF StoresBefore, StoresHere
    <2>3. ASSUME NEW k \in 1..Len(log), StoresHere(k, path) PROVE k <= j
      <3>1. k \in 1..i - 1
        BY <1>5, <1>9
      <3>2. k \in StoresBefore(i, path)'
        BY <1>3, <1>6, <2>1, <2>3, <3>1 DEF StoresBefore, StoresHere
      <3> QED
        BY <3>2
    <2>4. Latest(j, path)
      BY <1>4, <2>2, <2>3 DEF Latest
    <2>5. PICK s \in StoredBy(log[j].call) : s[1] = path
      BY <2>2 DEF StoresHere
    <2>6. path \in DOMAIN written /\ written[path] = s[2]
      BY <1>2, <1>4, <2>2, <2>4, <2>5 DEF MapInv
    <2>7. Texts(LinuxAnswer(c)) = {Seen(c, s[2])}
      BY <2>1, <2>6, ReadShows
    <2> QED
      BY <1>3, <1>6, <1>7, <2>1, <2>5, <2>7 DEF a, Tells
  <1> QED
    BY <1>5, <1>8, <1>9

\* A step that leaves the log alone: no process is up after it, or it is the same,
\* or a new one that has answered nothing yet.
LEMMA ReadFrame ==
  ASSUME FactInv, ReadInv, UNCHANGED <<log, mode>>,
         ~up' \/ UNCHANGED <<written, runs, up>> \/ runs' = runs + 1
  PROVE  ReadInv'
  <1>1. LinuxReadsLatest'
    BY DEF ReadInv, LinuxReadsLatest, StoresBefore, Tells
  <1>2. MapInv'
    <2>1. CASE ~up'
      BY <2>1 DEF MapInv
    <2>2. CASE UNCHANGED <<written, runs, up>>
      BY <2>2 DEF ReadInv, MapInv, Latest, StoresHere
    <2>3. CASE runs' = runs + 1
      <3>1. \A j \in DOMAIN log : log[j].run # runs'
        BY <2>3 DEF FactInv
      <3> QED
        BY <3>1 DEF MapInv, Latest, StoresHere
    <2> QED
      BY <2>1, <2>2, <2>3
  <1> QED
    BY <1>1, <1>2 DEF ReadInv

LEMMA ReadInvNext == FactInv /\ ReadInv /\ [Next]_vars => ReadInv'
  <1> SUFFICES ASSUME FactInv, ReadInv, [Next]_vars PROVE ReadInv'
    OBVIOUS
  <1>1. CASE Start
    BY <1>1, ReadFrame DEF Start, conf
  <1>2. CASE Stop \/ \E c \in Calls[mode] : Panic(c)
    BY <1>2, ReadFrame DEF Stop, Panic, conf, system
  <1>3. CASE \E c \in Calls[mode] : Handle(c)
    BY <1>3, MapHandle, ReadsHandle DEF ReadInv
  <1>4. CASE UNCHANGED vars
    BY <1>4, ReadFrame DEF vars, conf, system
  <1> QED
    BY <1>1, <1>2, <1>3, <1>4 DEF Next

\* On the Linux host a read returns what was stored last, under any path, by any
\* session of the process; read_file of a secret path what is left of it without
\* its fences.
THEOREM LatestIsRead == Spec => []LinuxReadsLatest
  <1>1. Init => ReadInv
    <2> SUFFICES ASSUME Init PROVE ReadInv
      OBVIOUS
    <2>0. log = <<>> /\ up = FALSE
      BY DEF Init
    <2>1. DOMAIN log = {} /\ up = FALSE
      BY <2>0
    <2>2. MapInv
      BY <2>1 DEF MapInv
    <2>3. LinuxReadsLatest
      BY <2>1 DEF LinuxReadsLatest
    <2> QED
      BY <2>2, <2>3 DEF ReadInv
  <1>2. Spec => []FactInv
    BY FactInvInit, FactInvNext, PTL DEF Spec
  <1>3. Spec => []ReadInv
    BY <1>1, <1>2, ReadInvNext, PTL DEF Spec
  <1>4. ReadInv => LinuxReadsLatest
    BY DEF ReadInv
  <1> QED
    BY <1>3, <1>4, PTL
-----------------------------------------------------------------------------
\* The files of the map are those that this process stored.
StoredNow == {s[1] : s \in UNION {StoredBy(log[j].call) : j \in {k \in DOMAIN log : log[k].run = runs}}}

FilesInv == up /\ mode = "linux" => DOMAIN written = StoredNow

ListInv == FilesInv /\ ListsWhatWasWritten

LEMMA StoredNowIs ==
  ASSUME NEW path
  PROVE  path \in StoredNow <=> \E j \in DOMAIN log : StoresHere(j, path)
  BY DEF StoredNow, StoresHere

\* A path is directly under a directory when it is the directory and one name more.
LEMMA DirectlyUnder ==
  ASSUME NEW S, NEW p \in Seq(S), NEW dir \in Seq(S)
  PROVE  /\ Len(p) = Len(dir) + 1 /\ SubSeq(p, 1, Len(dir)) = dir <=> p # <<>> /\ p = Append(dir, p[Len(p)])
         /\ \A n : p = Append(dir, n) => p # <<>> /\ p[Len(p)] = n
  <1>1. ASSUME NEW n, p = Append(dir, n)
        PROVE  /\ p # <<>> /\ p[Len(p)] = n
               /\ Len(p) = Len(dir) + 1 /\ SubSeq(p, 1, Len(dir)) = dir
    <2>1. n \in S
      <3>1. Len(dir) + 1 \in 1..Len(p) /\ p[Len(dir) + 1] = n
        BY <1>1
      <3> QED
        BY <3>1
    <2>2. Len(p) = Len(dir) + 1 /\ p[Len(p)] = n
      BY <1>1, <2>1
    <2>3. SubSeq(p, 1, Len(dir)) = dir
      BY <1>1, <2>1
    <2> QED
      BY <2>2, <2>3
  <1>2. ASSUME Len(p) = Len(dir) + 1, SubSeq(p, 1, Len(dir)) = dir
        PROVE  p # <<>> /\ p = Append(dir, p[Len(p)])
    <2>1. p # <<>> /\ p[Len(p)] \in S
      BY <1>2
    <2>2. Append(dir, p[Len(p)]) \in Seq(S) /\ Len(Append(dir, p[Len(p)])) = Len(p)
      BY <1>2, <2>1
    <2>3. ASSUME NEW k \in 1..Len(p) PROVE p[k] = Append(dir, p[Len(p)])[k]
      <3>1. CASE k = Len(p)
        BY <1>2, <2>1, <3>1
      <3>2. CASE k # Len(p)
        <4>1. k \in 1..Len(dir)
          BY <1>2, <3>2
        <4>2. SubSeq(p, 1, Len(dir))[k] = p[k]
          BY <1>2, <4>1
        <4> QED
          BY <1>2, <2>1, <4>1, <4>2
      <3> QED
        BY <3>1, <3>2
    <2> QED
      BY <2>1, <2>2, <2>3
  <1> QED
    BY <1>1, <1>2

LEMMA NamesAre ==
  ASSUME TypeOK, NEW dir \in Path
  PROVE  WrittenInDir(dir)
           = {n \in {path[Len(path)] : path \in DOMAIN written} : n # "" /\ Append(dir, n) \in DOMAIN written}
  <1>1. \A p \in DOMAIN written : p \in Seq(Text)
    BY DEF TypeOK, Path
  <1>2. dir \in Seq(Text)
    BY DEF Path
  <1>3. ASSUME NEW p \in DOMAIN written, Len(p) = Len(dir) + 1, SubSeq(p, 1, Len(dir)) = dir
        PROVE  Append(dir, p[Len(p)]) \in DOMAIN written
    <2>1. p \in Seq(Text) /\ dir \in Seq(Text)
      BY <1>1, <1>2
    <2>2. p = Append(dir, p[Len(p)])
      BY <1>3, <2>1, DirectlyUnder
    <2> QED
      BY <2>2
  <1>4. ASSUME NEW n, Append(dir, n) \in DOMAIN written
        PROVE  \E p \in DOMAIN written : n = p[Len(p)] /\ Len(p) = Len(dir) + 1 /\ SubSeq(p, 1, Len(dir)) = dir
    <2> DEFINE p == Append(dir, n)
    <2>1. p \in DOMAIN written /\ p \in Seq(Text)
      BY <1>1, <1>4
    <2>2. p # <<>> /\ p[Len(p)] = n /\ p = Append(dir, p[Len(p)])
      BY <1>2, <2>1, DirectlyUnder
    <2> HIDE DEF p
    <2> QED
      BY <1>2, <2>1, <2>2, DirectlyUnder
  <1> QED
    BY <1>3, <1>4 DEF WrittenInDir

\* ls of a directory that has written files shows their names.
LEMMA LsShows ==
  ASSUME NEW dir \in ListedDirs
  PROVE  {s[2] : s \in {x \in ExecShell("ls", dir).shows : x[1] = "entry"}} = WrittenInDir(dir)
  <1>1. ExecShell("ls", dir) = Ls(dir)
    BY DEF ExecShell, Family, ExactWords
  <1>2. PICK title : Ls(dir) = Listing(title, WrittenInDir(dir))
    <2>1. CASE dir = <<"app">>
      BY <2>1 DEF Ls
    <2>2. CASE dir \in {<<"tmp">>, <<"var", "log">>, <<"root">>}
      <3>1. dir \notin {<<>>, <<"app">>, <<"home", drawn["user"]>>}
        BY <2>2
      <3> QED
        BY <2>2, <3>1 DEF Ls
    <2> QED
      BY <2>1, <2>2 DEF ListedDirs
  <1> DEFINE names == WrittenInDir(dir)
             shows == {<<"listing", title>>} \cup {<<"entry", n>> : n \in names}
  <1>3. Listing(title, names).shows = shows
    BY DEF Listing, Ok
  <1> HIDE DEF names
  <1>4. {s[2] : s \in {x \in shows : x[1] = "entry"}} = names
    <2>1. {x \in shows : x[1] = "entry"} = {<<"entry", n>> : n \in names}
      <3>1. <<"listing", title>>[1] # "entry"
        OBVIOUS
      <3>2. \A n \in names : <<"entry", n>>[1] = "entry"
        OBVIOUS
      <3> QED
        BY <3>1, <3>2
    <2>2. {s[2] : s \in {<<"entry", n>> : n \in names}} = names
      <3>1. \A s \in {<<"entry", n>> : n \in names} : s[2] \in names
        OBVIOUS
      <3>2. \A n \in names : \E s \in {<<"entry", m>> : m \in names} : s[2] = n
        <4> TAKE n \in names
        <4> WITNESS <<"entry", n>> \in {<<"entry", m>> : m \in names}
        <4> QED
          OBVIOUS
      <3> QED
        BY <3>1, <3>2
    <2> QED
      BY <2>1, <2>2, Zenon
  <1> QED
    BY <1>1, <1>2, <1>3, <1>4 DEF names

LEMMA FilesHandle ==
  ASSUME FactInv, FilesInv, NEW c, Handle(c)
  PROVE  FilesInv'
  <1>0. PICK n : n = Len(log) + 1
    OBVIOUS
  <1>1. PICK a : log' = Append(log, [run |-> runs, call |-> c, answer |-> a])
    BY DEF Handle
  <1>2. written' = Stores(c) /\ up /\ UNCHANGED <<mode, runs, up>>
    BY DEF Handle, conf, system
  <1>3. PICK e : e.run = runs /\ e.call = c /\ log' = Append(log, e)
    BY <1>1
  <1>4. /\ Len(log) \in Nat /\ DOMAIN log = 1..Len(log) /\ DOMAIN log' = 1..n
        /\ log'[n] = e /\ \A i \in 1..Len(log) : log'[i] = log[i]
    BY <1>0, <1>3, Logged DEF FactInv
  <1>5. 1..n = (1..Len(log)) \cup {n}
    BY <1>0, <1>4
  <1> SUFFICES ASSUME mode = "linux" PROVE DOMAIN written' = StoredNow'
    BY <1>2 DEF FilesInv
  <1>6. StoredNow' = StoredNow \cup {s[1] : s \in StoredBy(c)}
    BY <1>2, <1>3, <1>4, <1>5 DEF StoredNow
  <1>7. DOMAIN written = StoredNow
    BY <1>2 DEF FilesInv
  <1>8. DOMAIN Stores(c) = DOMAIN written \cup {s[1] : s \in StoredBy(c)}
    <2>1. CASE StoredBy(c) = {} /\ Stores(c) = written
      BY <2>1
    <2>2. ASSUME NEW p, NEW t, StoredBy(c) = {<<p, t>>}, Stores(c) = Store(p, t)
          PROVE  DOMAIN Stores(c) = DOMAIN written \cup {s[1] : s \in StoredBy(c)}
      <3>1. {s[1] : s \in StoredBy(c)} = {p}
        BY <2>2
      <3>2. DOMAIN Store(p, t) = DOMAIN written \cup {p}
        BY DEF Store
      <3> QED
        BY <2>2, <3>1, <3>2
    <2> QED
      BY <2>1, <2>2, StoreEffect
  <1> QED
    BY <1>2, <1>6, <1>7, <1>8

LEMMA ListsHandle ==
  ASSUME TypeOK, FactInv, FilesInv, ListsWhatWasWritten, NEW c \in Call, Handle(c)
  PROVE  ListsWhatWasWritten'
  <1>0. PICK n : n = Len(log) + 1
    OBVIOUS
  <1> DEFINE a == IF mode = "linux" THEN LinuxAnswer(c) ELSE WindowsAnswer(c)
  <1>1. log' = Append(log, [run |-> runs, call |-> c, answer |-> a])
    BY DEF Handle
  <1>2. up /\ UNCHANGED <<mode, runs, up>>
    BY DEF Handle, conf, system
  <1> HIDE DEF a
  <1>3. PICK e : e.run = runs /\ e.call = c /\ e.answer = a /\ log' = Append(log, e)
    BY <1>1
  <1>4. /\ Len(log) \in Nat /\ DOMAIN log = 1..Len(log) /\ DOMAIN log' = 1..n
        /\ log'[n] = e /\ \A i \in 1..Len(log) : log'[i] = log[i]
    BY <1>0, <1>3, Logged DEF FactInv
  <1>5. (\A i \in 1..n : i \in 1..Len(log) \/ i = n) /\ n - 1 = Len(log)
    BY <1>0, <1>4
  <1> SUFFICES ASSUME mode = "linux", NEW i \in 1..n, NEW dir \in ListedDirs,
                      log'[i].call.tool = "execute_shell", log'[i].call.word = "ls", log'[i].call.arg = dir
               PROVE  {s[2] : s \in {x \in log'[i].answer.shows : x[1] = "entry"}}
                        = {m \in {path[Len(path)] : path \in StoredPaths(i)'} :
                             m # "" /\ Append(dir, m) \in StoredPaths(i)'}
    BY <1>2, <1>4 DEF ListsWhatWasWritten
  <1>6. \A k \in 1..i - 1 : k \in 1..Len(log) /\ log'[k] = log[k]
    BY <1>4, <1>5
  <1>7. CASE i \in 1..Len(log)
    <2>1. log'[i] = log[i]
      BY <1>4, <1>7
    <2>2. StoredPaths(i)' = StoredPaths(i)
      <3>1. \A path : StoresBefore(i, path)' = StoresBefore(i, path)
        BY <1>6, <2>1 DEF StoresBefore
      <3>2. \A j \in 1..i - 1 : StoredBy(log[j].call)' = StoredBy(log[j].call)
        BY <1>6 DEF StoredBy
      <3>3. {StoredBy(log[j].call)' : j \in 1..i - 1} = {StoredBy(log[j].call) : j \in 1..i - 1}
        BY <3>2
      <3> QED
        BY <3>1, <3>3 DEF StoredPaths
    <2>3. /\ i \in DOMAIN log
          /\ log[i].call.tool = "execute_shell" /\ log[i].call.word = "ls" /\ log[i].call.arg = dir
      BY <1>4, <1>7, <2>1
    <2>4. {s[2] : s \in {x \in log[i].answer.shows : x[1] = "entry"}}
            = {m \in {path[Len(path)] : path \in StoredPaths(i)} :
                 m # "" /\ Append(dir, m) \in StoredPaths(i)}
      BY <2>3, Zenon DEF ListsWhatWasWritten
    <2> QED
      BY <2>1, <2>2, <2>4, Zenon
  <1>8. CASE i = n
    <2>1. log'[i] = e /\ c.tool = "execute_shell" /\ c.word = "ls" /\ c.arg = dir
      BY <1>3, <1>4, <1>8
    <2>2. dir \in Path
      BY <2>1 DEF Call
    <2>3. ASSUME NEW path PROVE path \in StoredPaths(i)' <=> path \in StoredNow
      <3>1. path \in StoredPaths(i)' <=>
              \E j \in 1..i - 1 : log'[j].run = log'[i].run /\ \E s \in StoredBy(log'[j].call) : s[1] = path
        BY DEF StoredPaths, StoresBefore
      <3>2. 1..i - 1 = DOMAIN log
        BY <1>4, <1>5, <1>8
      <3> QED
        BY <1>3, <1>6, <2>1, <3>1, <3>2, StoredNowIs DEF StoresHere
    <2>4. StoredPaths(i)' = DOMAIN written
      BY <1>2, <2>3 DEF FilesInv
    <2>5. e.answer = ExecShell("ls", dir)
      BY <1>3, <2>1 DEF a, LinuxAnswer
    <2> QED
      BY <2>1, <2>2, <2>4, <2>5, LsShows, NamesAre
  <1> QED
    BY <1>5, <1>7, <1>8

\* A step that leaves the log alone, as in ReadFrame; a new process has no files.
LEMMA ListFrame ==
  ASSUME FactInv, ListInv, UNCHANGED <<log, mode>>,
         ~up' \/ UNCHANGED <<written, runs, up>> \/ (runs' = runs + 1 /\ written' = NoFiles)
  PROVE  ListInv'
  <1>1. ListsWhatWasWritten'
    <2>1. \A i : StoredPaths(i)' = StoredPaths(i)
      BY DEF StoredPaths, StoresBefore
    <2> QED
      BY <2>1 DEF ListInv, ListsWhatWasWritten
  <1>2. FilesInv'
    <2>1. CASE ~up'
      BY <2>1 DEF FilesInv
    <2>2. CASE UNCHANGED <<written, runs, up>>
      BY <2>2 DEF ListInv, FilesInv, StoredNow
    <2>3. CASE runs' = runs + 1 /\ written' = NoFiles
      <3>1. \A j \in DOMAIN log : log[j].run # runs'
        BY <2>3 DEF FactInv
      <3>2. StoredNow' = {}
        BY <3>1 DEF StoredNow
      <3> QED
        BY <2>3, <3>2 DEF FilesInv, NoFiles
    <2> QED
      BY <2>1, <2>2, <2>3
  <1> QED
    BY <1>1, <1>2 DEF ListInv

LEMMA ListInvNext == TypeOK /\ FactInv /\ ListInv /\ [Next]_vars => ListInv'
  <1> SUFFICES ASSUME TypeOK, FactInv, ListInv, [Next]_vars PROVE ListInv'
    OBVIOUS
  <1>1. CASE Start
    BY <1>1, ListFrame DEF Start, conf
  <1>2. CASE Stop \/ \E c \in Calls[mode] : Panic(c)
    BY <1>2, ListFrame DEF Stop, Panic, conf, system
  <1>3. CASE \E c \in Calls[mode] : Handle(c)
    <2>1. PICK c \in Calls[mode] : Handle(c)
      BY <1>3
    <2>2. c \in Call
      BY HostAssumption DEF TypeOK
    <2> QED
      BY <2>1, <2>2, FilesHandle, ListsHandle DEF ListInv
  <1>4. CASE UNCHANGED vars
    BY <1>4, ListFrame DEF vars, conf, system
  <1> QED
    BY <1>1, <1>2, <1>3, <1>4 DEF Next

\* On the Linux host ls shows the files that the process was given directly under
\* the directory, all of them and no other: nothing of an earlier process, nothing
\* of a directory further down.
THEOREM ListingsAreExact == Spec => []ListsWhatWasWritten
  <1>1. Init => ListInv
    <2> SUFFICES ASSUME Init PROVE ListInv
      OBVIOUS
    <2>0. log = <<>> /\ up = FALSE
      BY DEF Init
    <2>1. DOMAIN log = {} /\ up = FALSE
      BY <2>0
    <2>2. FilesInv
      BY <2>1 DEF FilesInv
    <2>3. ListsWhatWasWritten
      BY <2>1 DEF ListsWhatWasWritten
    <2> QED
      BY <2>2, <2>3 DEF ListInv
  <1>2. Spec => []FactInv
    BY FactInvInit, FactInvNext, PTL DEF Spec
  <1>3. Spec => []ListInv
    BY <1>1, <1>2, HostTypeCorrect, ListInvNext, PTL DEF Spec
  <1>4. ListInv => ListsWhatWasWritten
    BY DEF ListInv
  <1> QED
    BY <1>3, <1>4, PTL
=============================================================================
