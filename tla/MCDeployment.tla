---------------------------- MODULE MCDeployment ----------------------------
EXTENDS Deployment, TLC

CONSTANTS p1, p2

MCSymmetry == Permutations(Procs)

\* Lines typed, by question; blank where none is given.
MCInputs ==
  [q \in DOMAIN Blank |->
     CASE q = "mode" -> {"linux"}
       [] q = "provider" -> {"openai"}
       [] q = "transport" -> {"http", "stdio"}
       [] q = "tls" -> Options("tls")
       [] q = "industry" -> {"saas #1"}
       [] q = "cert" -> {"", "c.pem"}
       [] q = "key" -> {"k.pem"}
       [] q = "acmeDomain" -> {"host.org"}
       [] q = "webhook" -> {"", "http://w"}
       [] q = "secret" -> {"C:\\t"}
       [] q = "siem" -> {"none", "cef"}
       [] q = "port" -> {"ssh", "08443"}
       [] OTHER -> {""}]

MCNumbers == [line \in {"08443"} |-> "8443"]
MCBadURLs == {"://"}

Texts ==
  UNION {MCInputs[q] \cup Options(q) : q \in DOMAIN Blank}
    \cup {"", "gpt-4o", "claude-sonnet-4-6", "./cache", "./acme-cache", "8080", "443", "8443", "./sessions", "true", ":8081", "://", Cut}

\* A number sign after a space ends a bare value, a backslash changes a quoted one,
\* and a quoted one that is cut has no end.
MCBare == [t \in Texts |-> IF t = "saas #1" THEN "saas" ELSE t]
MCQuoted == [t \in Texts |-> IF t = Cut THEN Broken ELSE IF t = "C:\\t" THEN "C:<tab>" ELSE t]

ByHand(c, k, hook) ==
  [mode |-> "linux", provider |-> "openai", transport |-> "http"]
    @@ (IF c THEN [cert |-> "c.pem"] ELSE Empty)
    @@ (IF k THEN [key |-> "k.pem"] ELSE Empty)
    @@ (IF hook THEN [webhook |-> "http://w"] ELSE Empty)

ASSUME MCReadsBack == ReadsBack

Plain ==
  {ByHand(FALSE, FALSE, TRUE),
   ByHand(FALSE, FALSE, FALSE) @@ [proxyAddr |-> ":8081", upstream |-> "://"]}
Half == {ByHand(TRUE, FALSE, FALSE), ByHand(FALSE, TRUE, FALSE)}
=============================================================================
