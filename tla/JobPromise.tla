----------------------------- MODULE JobPromise -----------------------------
(***************************************************************************)
(* What the job queue promises whoever asks for a review, without          *)
(* contents, statements, batches or requests, about each of its rows:      *)
(*                                                                         *)
(*   - a row is worked on by one runner at a time, and only that runner    *)
(*     decides it;                                                         *)
(*   - a row that succeeded is never queued again, and one that failed     *)
(*     only when somebody asks for it again;                               *)
(*   - a retry is one of fewer than MaxAttempts.                           *)
(*                                                                         *)
(* The promise is deliberately silent on two points: a runner may let go   *)
(* of its rows without deciding them, and then nobody takes them up again; *)
(* and a row may have its count of attempts reset at any time.             *)
(***************************************************************************)
EXTENDS Naturals

CONSTANTS Rows, Runners, MaxAttempts

VARIABLES
    status,    \* "ABSENT", "QUEUED", "RUNNING", "SUCCEEDED" or "FAILED"
    hands,     \* the runners that have the row
    attempts   \* how often it has been tried

vars == <<status, hands, attempts>>

Init ==
    /\ status = [j \in Rows |-> "ABSENT"]
    /\ hands = [j \in Rows |-> {}]
    /\ attempts = [j \in Rows |-> 0]

\* Somebody asks for a review: a new row, or one that failed.
Ask(j) ==
    /\ status[j] \in {"ABSENT", "FAILED"}
    /\ status' = [status EXCEPT ![j] = "QUEUED"]
    /\ attempts' = [attempts EXCEPT ![j] = 0]
    /\ UNCHANGED hands

\* What the row asks for is replaced.
Replace(j) ==
    /\ status[j] # "ABSENT"
    /\ attempts' = [attempts EXCEPT ![j] = 0]
    /\ UNCHANGED <<status, hands>>

Take(r, S) ==
    /\ \A j \in S : status[j] = "QUEUED"
    /\ status' = [j \in Rows |-> IF j \in S THEN "RUNNING" ELSE status[j]]
    /\ hands' = [j \in Rows |-> IF j \in S THEN {r} ELSE hands[j]]
    /\ UNCHANGED attempts

Decide(r, j, outcome) ==
    /\ status[j] = "RUNNING" /\ hands[j] = {r}
    /\ status' = [status EXCEPT ![j] = outcome]
    /\ hands' = [hands EXCEPT ![j] = {}]
    /\ UNCHANGED attempts

TryAgain(r, j, n) ==
    /\ status[j] = "RUNNING" /\ hands[j] = {r}
    /\ status' = [status EXCEPT ![j] = "QUEUED"]
    /\ hands' = [hands EXCEPT ![j] = {}]
    /\ attempts' = [attempts EXCEPT ![j] = n]

LetGo(r, S) ==
    /\ \A j \in S : hands[j] = {r}
    /\ hands' = [j \in Rows |-> IF j \in S THEN {} ELSE hands[j]]
    /\ UNCHANGED <<status, attempts>>

Next ==
    \/ \E j \in Rows : Ask(j) \/ Replace(j)
    \/ \E r \in Runners : \E S \in SUBSET Rows : Take(r, S) \/ LetGo(r, S)
    \/ \E r \in Runners : \E j \in Rows :
          \/ \E outcome \in {"SUCCEEDED", "FAILED"} : Decide(r, j, outcome)
          \/ \E n \in 1..(MaxAttempts - 1) : TryAgain(r, j, n)

Spec == Init /\ [][Next]_vars

=============================================================================
