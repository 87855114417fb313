--------------------------- MODULE MCAlertDispatch ---------------------------
EXTENDS AlertDispatch

CONSTANTS e1, e2, console, hook, siem, pipe, off, noURL

Sink(type, enabled, url, path) ==
  [type |-> type, enabled |-> enabled, url |-> url, path |-> path]

MCConf ==
  [n \in Entries |->
     CASE n = console -> Sink("stdout", TRUE, FALSE, FALSE)
       [] n = hook    -> Sink("webhook", TRUE, TRUE, FALSE)
       [] n = siem    -> Sink("siem", TRUE, FALSE, TRUE)
       [] n = pipe    -> Sink("siem", TRUE, FALSE, FALSE)
       [] n = off     -> Sink("siem", FALSE, FALSE, TRUE)
       [] n = noURL   -> Sink("webhook", TRUE, FALSE, FALSE)]
=============================================================================
