---------------------------- MODULE AlertDelivery ----------------------------
(***************************************************************************)
(* What the alert dispatcher promises of every event and sink: the event   *)
(* is tried once, on its own; the sink puts it out once or not at all; and *)
(* a try ends as sent or failed, or is lost with the process.  What ended  *)
(* as failed or lost is not put out any more, except that an event on its  *)
(* way to another machine may still arrive.                                *)
(***************************************************************************)
EXTENDS Naturals

CONSTANTS
  Events,
  Sinks,
  Remote  \* the sinks that put events out on another machine

VARIABLES
  try,     \* how far each sink is with each event
  copies,  \* how often each sink has put out each event
  up       \* the process runs

vars == <<try, copies, up>>

Init ==
  /\ try = [e \in Events |-> [s \in Sinks |-> "none"]]
  /\ copies = [e \in Events |-> [s \in Sinks |-> 0]]
  /\ up = TRUE

Emit(e) ==
  /\ up
  /\ \A s \in Sinks : try[e][s] = "none"
  /\ try' = [try EXCEPT ![e] = [s \in Sinks |-> "pending"]]
  /\ UNCHANGED <<copies, up>>

\* A step of a try: it may put the event out, and it may end.
Try(e, s) ==
  /\ up
  /\ try[e][s] = "pending"
  /\ \E result \in {"pending", "sent", "failed"} : try' = [try EXCEPT ![e][s] = result]
  /\ \/ UNCHANGED copies
     \/ copies[e][s] = 0 /\ copies' = [copies EXCEPT ![e][s] = 1]
  /\ UNCHANGED up

\* An event arrives of which the sink, or the process, has not heard again.
Late(e, s) ==
  /\ s \in Remote
  /\ try[e][s] \in {"failed", "lost"}
  /\ copies[e][s] = 0
  /\ copies' = [copies EXCEPT ![e][s] = 1]
  /\ UNCHANGED <<try, up>>

Exit ==
  /\ up
  /\ up' = FALSE
  /\ try' = [e \in Events |-> [s \in Sinks |->
               IF try[e][s] = "pending" THEN "lost" ELSE try[e][s]]]
  /\ UNCHANGED copies

Next ==
  \/ \E e \in Events : Emit(e) \/ \E s \in Sinks : Try(e, s) \/ Late(e, s)
  \/ Exit

Spec == Init /\ [][Next]_vars
=============================================================================
