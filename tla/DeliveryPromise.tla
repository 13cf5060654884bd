--------------------------- MODULE DeliveryPromise ---------------------------
(***************************************************************************)
(* What the coordinator promises a reporting browser about one event,      *)
(* without sequences, alarms, retries, requests or restarts:               *)
(*                                                                         *)
(*   - an event reaches the canonical store only after it was accepted;    *)
(*   - it is confirmed only when it is in the canonical store;             *)
(*   - every other verdict is final too, and an event is accepted once;    *)
(*   - nothing leaves the canonical store.                                 *)
(*                                                                         *)
(* The promise is deliberately silent on one point: an event that was      *)
(* rejected or given up may still turn up in the store afterwards, because *)
(* an attempt nobody waits for any more can go through.                    *)
(***************************************************************************)
CONSTANTS
  Events,    \* events browsers submit
  Planned    \* rows the planned-rotation server action writes on its own

VARIABLES
  status,    \* the coordinator's verdict on each event
  canonical  \* the events that have a row

Ids == Events \cup Planned

Init ==
  /\ status = [i \in Ids |-> "none"]
  /\ canonical = {}

Decide(i, verdict) ==
  /\ status[i] = "pending"
  /\ status' = [status EXCEPT ![i] = verdict]
  /\ UNCHANGED canonical

Accept(i) ==
  /\ status[i] = "none"
  /\ status' = [status EXCEPT ![i] = "pending"]
  /\ UNCHANGED canonical

Commit(i) ==
  /\ i \in Events => status[i] # "none"
  /\ canonical' = canonical \cup {i}
  /\ UNCHANGED status

Confirm(i) == i \in canonical /\ Decide(i, "persisted")
Reject(i) == Decide(i, "failed_terminal")
GiveUp(i) == Decide(i, "failed_exhausted")

\* The initial reconciliation finds rows it did not accept.
Discover(S) ==
  /\ S \subseteq canonical
  /\ \A i \in S : status[i] = "none"
  /\ status' = [i \in Ids |-> IF i \in S THEN "persisted" ELSE status[i]]
  /\ UNCHANGED canonical

Next ==
  \/ \E e \in Events : Accept(e) \/ Confirm(e) \/ Reject(e) \/ GiveUp(e)
  \/ \E i \in Ids : Commit(i)
  \/ \E S \in SUBSET Planned : Discover(S)

Spec == Init /\ [][Next]_<< status, canonical >>

=============================================================================
