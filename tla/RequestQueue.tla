---------------------------- MODULE RequestQueue ----------------------------
(***************************************************************************)
(* What ModbusSerial promises to its callers: a request handed over with   *)
(* send() gets a ticket, requests are settled in the order of their        *)
(* tickets, each exactly once, and a settled request stays settled.        *)
(***************************************************************************)
EXTENDS Naturals

CONSTANT Requests      \* the request objects callers hand to send()

VARIABLES
  outcome,   \* outcome[r]: what the promise of send(r) has become
  ticket,    \* ticket[r]: place of r in the order of the calls, 0 before
  tickets    \* number of tickets given out

vars == <<outcome, ticket, tickets>>

Init ==
  /\ outcome = [r \in Requests |-> "unsent"]
  /\ ticket = [r \in Requests |-> 0]
  /\ tickets = 0

Open == {r \in Requests : outcome[r] = "open"}

Oldest(r) == \A s \in Open : ticket[r] <= ticket[s]

Submit(r) ==
  /\ outcome[r] = "unsent"
  /\ outcome' = [outcome EXCEPT ![r] = "open"]
  /\ tickets' = tickets + 1
  /\ ticket' = [ticket EXCEPT ![r] = tickets + 1]

Refuse(r) ==
  /\ outcome[r] = "unsent"
  /\ outcome' = [outcome EXCEPT ![r] = "refused"]
  /\ UNCHANGED <<ticket, tickets>>

Settle(r) ==
  /\ r \in Open
  /\ Oldest(r)
  /\ \E o \in {"resolved", "rejected"} : outcome' = [outcome EXCEPT ![r] = o]
  /\ UNCHANGED <<ticket, tickets>>

Next == \E r \in Requests : Submit(r) \/ Refuse(r) \/ Settle(r)

Safety == Init /\ [][Next]_vars

\* The promise with liveness: while a request is open, one gets settled.
Spec == Safety /\ WF_vars(\E r \in Requests : Settle(r))
=============================================================================
