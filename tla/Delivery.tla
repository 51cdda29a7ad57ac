------------------------------ MODULE Delivery ------------------------------
(* What the outbox promises its callers: a message is delivered at least      *)
(* once or, after Limit failed tries, given up; every copy beyond the first   *)
(* is owed to a try that failed; and what is delivered or given up stays so.  *)
(* Outbox implements it (its definition Delivers).                            *)
EXTENDS Naturals

CONSTANTS
  Messages,
  Limit         \* tries a message has

VARIABLES
  state,        \* what has become of each message
  tries,        \* its failed tries
  copies        \* its copies sent

vars == <<state, tries, copies>>

Init ==
  /\ state = [m \in Messages |-> "unwritten"]
  /\ tries = [m \in Messages |-> 0]
  /\ copies = [m \in Messages |-> 0]

\* A caller leaves the message with the outbox.
Write(m) ==
  /\ state[m] = "unwritten"
  /\ state' = [state EXCEPT ![m] = "waiting"]
  /\ UNCHANGED <<tries, copies>>

\* One copy goes out for each try.
Send(m) ==
  /\ state[m] = "waiting" /\ copies[m] <= tries[m]
  /\ copies' = [copies EXCEPT ![m] = @ + 1]
  /\ UNCHANGED <<state, tries>>

Confirm(m) ==
  /\ state[m] = "waiting" /\ copies[m] > 0
  /\ state' = [state EXCEPT ![m] = "delivered"]
  /\ UNCHANGED <<tries, copies>>

\* A try failed, or seems to have failed; the last one gives the message up.
Miss(m) ==
  /\ state[m] = "waiting"
  /\ tries' = [tries EXCEPT ![m] = @ + 1]
  /\ state' = IF tries'[m] = Limit THEN [state EXCEPT ![m] = "given up"] ELSE state
  /\ UNCHANGED copies

Next == \E m \in Messages : Write(m) \/ Send(m) \/ Confirm(m) \/ Miss(m)

Spec == Init /\ [][Next]_vars
=============================================================================
