------------------------------ MODULE Delivery ------------------------------
(***************************************************************************)
(* What the outbox promises, whoever flushes it and whatever the network   *)
(* does: the platform processes an item only after it was queued and at    *)
(* most once, and the agent calls it sent only after that, whether the     *)
(* platform accepted all of it or rejected a part.  The agent's own view   *)
(* of an item may go back to "not sent"; the platform's books never        *)
(* change.                                                                 *)
(***************************************************************************)
EXTENDS Naturals

CONSTANT Item

VARIABLES
  queued,     \* items the agent has written down for the platform
  ledger,     \* how many times the platform has processed each item
  partial,    \* items of which it rejected a part
  confirmed   \* items the agent regards as sent

vars == <<queued, ledger, partial, confirmed>>

Init ==
  /\ queued = {}
  /\ ledger = [i \in Item |-> 0]
  /\ partial = {}
  /\ confirmed = {}

Enqueue(i) ==
  /\ i \in Item \ queued
  /\ queued' = queued \union {i}
  /\ UNCHANGED <<ledger, partial, confirmed>>

Record(i) ==
  /\ i \in queued
  /\ ledger[i] = 0
  /\ ledger' = [ledger EXCEPT ![i] = 1]
  /\ partial' \in {partial, partial \union {i}}
  /\ UNCHANGED <<queued, confirmed>>

Confirm(i) ==
  /\ i \in queued
  /\ ledger[i] = 1
  /\ confirmed' = confirmed \union {i}
  /\ UNCHANGED <<queued, ledger, partial>>

Reopen(i) ==
  /\ i \in confirmed
  /\ confirmed' = confirmed \ {i}
  /\ UNCHANGED <<queued, ledger, partial>>

Next == \E i \in Item : Enqueue(i) \/ Record(i) \/ Confirm(i) \/ Reopen(i)

Spec == Init /\ [][Next]_vars
=============================================================================
