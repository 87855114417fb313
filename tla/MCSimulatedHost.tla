-------------------------- MODULE MCSimulatedHost --------------------------
EXTENDS SimulatedHost

MCText == STRING

On(tool, word, arg, text) == [tool |-> tool, word |-> word, arg |-> arg, text |-> text]
Sh(word, arg) == On("execute_shell", word, arg, "")
Run(word, arg, text) == On("run_command", word, arg, text)

Notes == <<"tmp", "notes">>
Deep  == <<"tmp", "x", "y">>

FileCalls ==
  {On("write_file", "", p, "A") : p \in {Notes, Deep, <<"etc", "hostname">>}}
    \cup {On("write_file", "", p, "B in fences, C") : p \in {Notes, Deep}}
    \cup {Sh(w, Notes) : w \in {"touch", "rm", "cat"}}
    \cup {Sh("touch", <<"tmp", "">>)}
    \cup {Sh("mkdir", p) : p \in {<<"tmp">>, <<"tmp", "x">>}}
    \cup {Sh("lsof", <<"tmp">>), Sh("ls", <<"tmp">>), Sh("ls", <<>>)}
    \cup {On("read_file", "", p, "") : p \in {Notes, Deep, <<"etc", "hostname">>}}

FactCalls ==
  {Sh(w, <<>>) : w \in {"uname -a", "uptime", "free", "id"}}
    \cup {On("read_file", "", p, "") : p \in {<<"etc", "machine-id">>, <<"etc", "os-release">>, <<"proc", "meminfo">>}}
    \cup {On("resource", "", <<>>, "")}

WindowsCalls ==
  {On("write_file", "", Append(Home, n), "A") : n \in {"notes.txt", "a.txt"}}
    \cup {Run("type", Append(Home, n), "") : n \in {"notes.txt", "a.txt"}}
    \cup {Run("dir", p, "") : p \in {<<>>, Home}}
    \cup {Run(w, <<>>, "") : w \in {"ver", "$psversiontable", "set", "whoami /all", "ipconfig /all", "ping"}}
    \cup {Run("echo", <<>>, n) : n \in {"USERDOMAIN", "PATH"}}
    \cup {On("read_registry", "", <<>>, "CurrentVersion"), On("query_wmi", "", <<>>, "Win32_OperatingSystem"),
          On("get_process_info", "", <<>>, ""), On("resource", "", <<>>, "")}

MCCalls == [m \in {"linux", "windows"} |-> IF m = "linux" THEN FileCalls \cup FactCalls ELSE WindowsCalls]

MCHosts ==
  [m \in {"linux", "windows"} |->
     IF m = "linux"
     THEN {[hostname |-> "web-01", user |-> "ada", kernel |-> "6.1", distribution |-> "Debian", memory |-> "8"],
           [hostname |-> "db-07", user |-> "bob", kernel |-> "5.15", distribution |-> "Ubuntu", memory |-> "4"]}
     ELSE {[hostname |-> "DC0101", user |-> "svc-deploy", domain |-> "acme", sid |-> "1", release |-> "10.0.20348", address |-> "1"],
           [hostname |-> "SRV-APP02", user |-> "svc-deploy", domain |-> "bits", sid |-> "2", release |-> "10.0.17763", address |-> "2"]}]

MCSecrets == {Notes}

MCFenced == [t \in {"B in fences, C"} |-> "B"]

MCEpochs == <<"first", "second">>
=============================================================================
