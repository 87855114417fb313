---------------------------- MODULE Configuration ----------------------------
(***************************************************************************)
(* config.yaml: what the wizard writes (buildConfig,                       *)
(* cmd/wasphole/cmd_setup.go) and what a server makes of it (Load,         *)
(* internal/config/loader.go).                                             *)
(*                                                                         *)
(* A document maps the keys that have a line to the text of the line; the  *)
(* wizard writes them in the order of Lines, so one that was cut short has *)
(* the first of them.  A key bears the name of the wizard's question; the  *)
(* lines "enabled: true" of the sinks have keys of their own.              *)
(***************************************************************************)
EXTENDS Naturals, Sequences

CONSTANTS
  Bare,    \* what the YAML reader makes of a value written without quotes
  Quoted,  \* and of one between double quotes
  Broken   \* it makes nothing of the document

Questions ==
  <<"mode", "industry", "seed", "provider", "baseURL", "apiKey", "model", "cacheDir", "transport",
    "tls", "cert", "key", "acmeDomain", "acmeCacheDir", "port", "webhook", "secret", "siem", "siemPath",
    "domain", "callback", "canaryAddr", "proxyAddr", "upstream", "logDir">>

\* The order of the document; tls is not written.
Lines ==
  <<"mode", "industry", "seed", "provider", "baseURL", "apiKey", "model", "cacheDir", "transport",
    "port", "cert", "key", "acmeDomain", "acmeCacheDir", "stdoutOn", "webhook", "secret", "webhookOn",
    "siem", "siemPath", "siemOn", "domain", "callback", "canaryAddr", "proxyAddr", "upstream", "logDir">>

Keys == {Lines[i] : i \in DOMAIN Lines}
Unquoted ==
  {"mode", "industry", "seed", "provider", "model", "cacheDir", "transport", "port", "webhook", "siem",
   "logDir", "stdoutOn", "webhookOn", "siemOn"}

Reads(key, text) ==
  IF text = Broken THEN Broken ELSE IF key \in Unquoted THEN Bare[text] ELSE Quoted[text]

\* The options of pickOne; askFree takes anything.
Options(q) ==
  CASE q = "mode" -> {"linux", "windows"}
    [] q = "provider" -> {"anthropic", "openai"}
    [] q = "transport" -> {"http", "stdio"}
    [] q = "tls" -> {"none", "cert + key", "Let's Encrypt"}
    [] q = "siem" -> {"none", "cef", "json"}
    [] OTHER -> {}

\* Which questions the answers so far leave to be asked.
Asked(q, a) ==
  CASE q = "tls" -> a["transport"] = "http"
    [] q \in {"cert", "key"} -> a["tls"] = "cert + key"
    [] q \in {"acmeDomain", "acmeCacheDir"} -> a["tls"] = "Let's Encrypt"
    [] q = "port" -> a["tls"] \in {"none", "cert + key"}
    [] q = "secret" -> a["webhook"] # ""
    [] q = "siemPath" -> a["siem"] # "none"
    [] q = "upstream" -> a["proxyAddr"] # ""
    [] OTHER -> TRUE

Default(q, a) ==
  CASE q = "model" -> IF a["provider"] = "openai" THEN "gpt-4o" ELSE "claude-sonnet-4-6"
    [] q = "cacheDir" -> "./cache"
    [] q = "acmeCacheDir" -> "./acme-cache"
    [] q = "port" -> IF a["tls"] = "none" THEN "8080" ELSE "443"
    [] q = "logDir" -> "./sessions"
    [] OTHER -> ""

\* What is written for a key; blank answers make no line, or an empty one.
TextOf(key, a) ==
  CASE key = "stdoutOn" -> "true"
    [] key = "webhookOn" -> IF a["webhook"] # "" THEN "true" ELSE ""
    [] key = "siemOn" -> IF a["siem"] # "none" THEN "true" ELSE ""
    [] key = "siem" -> IF a["siem"] # "none" THEN a["siem"] ELSE ""
    [] key = "port" -> IF a["tls"] = "Let's Encrypt" THEN "443" ELSE a["port"]
    [] OTHER -> a[key]

\* Mutant: the two files of a certificate change places.
DocumentSwaps(a) ==
  LET text(key) == IF key = "cert" THEN a["key"] ELSE IF key = "key" THEN a["cert"] ELSE TextOf(key, a)
  IN [key \in {k \in Keys : text(k) # ""} |-> text(key)]

\* buildConfig
Document(a) == [key \in {k \in Keys : TextOf(k, a) # ""} |-> TextOf(key, a)]
-----------------------------------------------------------------------------
\* What yaml.Unmarshal leaves in a field: the zero value without a line.
Field(doc, key) == IF key \in DOMAIN doc THEN Reads(key, doc[key]) ELSE ""

\* applyDefaults; enabled has none.
WithDefault(key, value) ==
  IF value # "" THEN value
  ELSE CASE key = "cacheDir" -> "./cache"
         [] key = "logDir" -> "./sessions"
         [] key = "model" -> "claude-sonnet-4-6"
         [] key = "port" -> "8080"
         [] OTHER -> ""

\* validate
Valid(c) ==
  /\ c["mode"] \in {"linux", "windows"}
  /\ c["transport"] \in {"stdio", "http"}
  /\ c["provider"] \in {"anthropic", "openai"}

Empty == [key \in {} |-> ""]
Refused == Empty
Unreadable(doc) == \E key \in DOMAIN doc : Reads(key, doc[key]) = Broken

\* Mutant: what was read is not validated.
LoadUnchecked(doc) ==
  IF Unreadable(doc) THEN Refused
  ELSE [key \in Keys |-> WithDefault(key, Field(doc, key))]

\* Load: the configuration, or Refused.
Load(doc) ==
  LET c == [key \in Keys |-> WithDefault(key, Field(doc, key))] IN
  IF Unreadable(doc) \/ ~Valid(c) THEN Refused ELSE c

\* How runServer listens: a domain comes before a certificate, and a key without
\* a certificate counts for nothing.
Listens(c) ==
  IF c["transport"] = "stdio" THEN "stdio"
  ELSE IF c["acmeDomain"] # "" THEN "acme"
  ELSE IF c["cert"] # "" THEN "tls" ELSE "plain"

\* A certificate without a key, or a key without a certificate.
HalfTLS(c) == c["transport"] = "http" /\ c["acmeDomain"] = "" /\ (c["cert"] = "") # (c["key"] = "")
=============================================================================
