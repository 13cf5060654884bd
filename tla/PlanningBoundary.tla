-------------------------- MODULE PlanningBoundary --------------------------
(***************************************************************************)
(* The planning boundary of one match round: when a match kicks off, or    *)
(* its live reporting starts, its plan becomes the historical baseline.    *)
(* No process watches the clock: whoever reads or edits the plan notices   *)
(* that the boundary has passed and captures.  Coaches meanwhile edit,     *)
(* reschedule, cancel, restore, create and move matches, and any of these  *)
(* calls may die between two statements.                                   *)
(*                                                                         *)
(* Limits.  Another round, and a match not created yet, is "away".  A      *)
(* transaction takes effect at its commit; only the capture's is split,    *)
(* because its count decides.  Guard reads of cancelling and restoring go  *)
(* with their update.  No post-match report exists (one would only forbid  *)
(* rescheduling and cancelling).  The rule version, the movement ledger    *)
(* and the availability rows follow the same writes and are left out.      *)
(***************************************************************************)
EXTENDS Naturals, FiniteSets

CONSTANTS Matches, Players,
          Callers,      \* requests served at the same time
          MaxOps,       \* starts, reschedules, cancellations and arrivals
          MaxFaults     \* requests that die

ASSUME PlanningAssumption ==
    /\ Matches # {} /\ Callers # {}
    /\ MaxOps \in Nat /\ MaxFaults \in Nat

VARIABLES
    here,       \* matches that belong to the round
    cancelled,  \* Match.status
    due,        \* startsAt has passed
    closed,     \* planningClosedAt is set
    live,       \* the live session of each match
    drafts,     \* its selections that are DRAFT
    finals,     \* and those that are FINALIZED
    final,      \* MatchRound.status is FINALIZED
    pc,         \* the next statement of each request
    on,         \* the match it is about
    took,       \* the drafts its transaction has seen
    whole,      \* its transaction has counted no open match in a round that is DRAFT
    opens,      \* the matches reconcileStaleRoundFinalization found never closed
    ops, faults,
    late,       \* ghost: selections made by an edit that was checked before the close
    undone,     \* ghost: matches whose capture died or was reverted by the healing of the round
    excused,    \* ghost: matches that were left open in a final round, in one of the known ways
    stranded    \* ghost: the round lost its last chance to become final while all is closed

matchVars == <<here, cancelled, due, closed, live>>
planVars  == <<drafts, finals, final>>
callVars  == <<pc, on, took, whole, opens>>
ghosts    == <<late, undone, excused, stranded>>
vars == <<matchVars, planVars, callVars, ops, faults, ghosts>>

AnyMatch == CHOOSE m \in Matches : TRUE

\* Nothing has closed yet.  The round may be FINALIZED nevertheless, by the coach's action that
\* there was before the boundary.
Init ==
    /\ here \in (SUBSET Matches) \ {{}}
    /\ cancelled = {} /\ due = {} /\ closed = {}
    /\ live = [m \in Matches |-> "NONE"]
    /\ final \in BOOLEAN
    /\ drafts = [m \in Matches |-> IF final /\ m \in here THEN {} ELSE Players]
    /\ finals = [m \in Matches |-> IF final /\ m \in here THEN Players ELSE {}]
    /\ pc = [c \in Callers |-> "idle"]
    /\ on = [c \in Callers |-> AnyMatch]
    /\ took = [c \in Callers |-> {}]
    /\ whole = [c \in Callers |-> FALSE]
    /\ opens = [c \in Callers |-> {}]
    /\ ops = 0 /\ faults = 0
    /\ late = [m \in Matches |-> {}] /\ undone = {} /\ stranded = FALSE
    /\ excused = IF final THEN here ELSE {}

Playable == here \ cancelled

\* "remainingOpen": matches of the round whose boundary has not been captured.
Open == Playable \ closed

At(c, step) == pc' = [pc EXCEPT ![c] = step]

\* The request is over; what it has read goes with it.
Finish(c) ==
    /\ At(c, "idle")
    /\ on' = [on EXCEPT ![c] = AnyMatch]
    /\ took' = [took EXCEPT ![c] = {}]
    /\ whole' = [whole EXCEPT ![c] = FALSE]
    /\ opens' = [opens EXCEPT ![c] = {}]

\* What follows is about the round alone.
Trail(c) ==
    /\ At(c, "reconcile")
    /\ on' = [on EXCEPT ![c] = AnyMatch]
    /\ UNCHANGED <<took, whole, opens>>

Goto(c, step) == At(c, step) /\ UNCHANGED <<on, took, whole, opens>>

Starts(c, m, step) ==
    /\ pc[c] = "idle"
    /\ At(c, step)
    /\ on' = [on EXCEPT ![c] = m]
    /\ UNCHANGED <<took, whole, opens>>

Operation == ops < MaxOps /\ ops' = ops + 1

\* An open match, or a final round, makes up for what happened before.
Strand(happened) == stranded' = (Open' = {} /\ ~final' /\ (stranded \/ happened))

-----------------------------------------------------------------------------
(* The world.                                                              *)

Kickoff(m) ==
    /\ m \in here \ due
    /\ due' = due \cup {m}
    /\ UNCHANGED <<here, cancelled, closed, live, planVars, callVars, ops, faults, ghosts>>

EndLive(m) ==
    /\ live[m] = "ACTIVE"
    /\ live' = [live EXCEPT ![m] = "ENDED"]
    /\ UNCHANGED <<here, cancelled, due, closed, planVars, callVars, ops, faults, ghosts>>

\* A request dies; the matches whose capture it had claimed are captured no more.
Die(c) ==
    /\ pc[c] # "idle"
    /\ faults < MaxFaults
    /\ faults' = faults + 1
    /\ undone' = IF pc[c] \in {"fold", "commit"} THEN undone \cup {on[c]} ELSE undone
    /\ Finish(c)
    /\ UNCHANGED <<matchVars, planVars, ops, late, excused>>
    /\ Strand(pc[c] \in {"fold", "commit"})

-----------------------------------------------------------------------------
(* ensureMatchPlanningBaselineCaptured.                                    *)

LiveOnly(m) == live[m] = "ACTIVE"

Passed(m) == m \in due \/ live[m] = "ACTIVE"

\* isMatchPlanningEditable, isMatchRoundPlanningEditable: a page or an edit meets a passed boundary.
Notice(c, m) ==
    /\ m \in Open /\ Passed(m)
    /\ Starts(c, m, "claim")
    /\ UNCHANGED <<matchVars, planVars, ops, faults, ghosts>>

\* startLiveSession creates the session, of a cancelled match too...
StartLive(c, m) ==
    /\ m \in here /\ live[m] = "NONE"
    /\ Operation
    /\ live' = [live EXCEPT ![m] = "ACTIVE"]
    /\ Starts(c, m, "forced")
    /\ UNCHANGED <<here, cancelled, due, closed, planVars, faults, ghosts>>

\* ... and forces the capture, which a cancelled match is spared.
ForceCapture(c) ==
    /\ pc[c] = "forced"
    /\ IF on[c] \in Open THEN Goto(c, "claim") ELSE Finish(c)
    /\ UNCHANGED <<matchVars, planVars, ops, faults, ghosts>>

\* The claim is a statement of its own: whoever finds planningClosedAt null captures.
Claim(c) ==
    /\ pc[c] = "claim"
    /\ IF on[c] \in closed
       THEN Finish(c) /\ UNCHANGED <<closed, excused>>
       ELSE /\ closed' = closed \cup {on[c]}
            /\ excused' = excused \ {on[c]}
            /\ Goto(c, "fold")
    /\ UNCHANGED <<here, cancelled, due, live, planVars, ops, faults, late, undone, stranded>>

\* A cancelled match counts as open.
FoldCountingCancelled(c) ==
    /\ pc[c] = "fold"
    /\ took' = [took EXCEPT ![c] = drafts[on[c]]]
    /\ whole' = [whole EXCEPT ![c] = here \subseteq closed /\ ~final]
    /\ At(c, "commit")
    /\ UNCHANGED <<matchVars, planVars, on, opens, ops, faults, ghosts>>

\* The transaction finalizes the drafts it sees, counts the open matches, reads the round...
Fold(c) ==
    /\ pc[c] = "fold"
    /\ took' = [took EXCEPT ![c] = drafts[on[c]]]
    /\ whole' = [whole EXCEPT ![c] = Open = {} /\ ~final]
    /\ At(c, "commit")
    /\ UNCHANGED <<matchVars, planVars, on, opens, ops, faults, ghosts>>

\* ... and commits; what it counted may no longer hold.
Commit(c) ==
    /\ pc[c] = "commit"
    /\ finals' = [finals EXCEPT ![on[c]] = @ \cup (drafts[on[c]] \cap took[c])]
    /\ drafts' = [drafts EXCEPT ![on[c]] = @ \ took[c]]
    /\ final' = (final \/ whole[c])
    /\ excused' = IF whole[c] THEN excused \cup Open ELSE excused
    /\ Finish(c)
    /\ UNCHANGED <<matchVars, ops, faults, late, undone>>
    /\ Strand(FALSE)

-----------------------------------------------------------------------------
(* Editing the plan.                                                       *)

\* isMatchPlanningEditable lets the edit pass, and the edit goes on to its other reads.
Check(c, m) ==
    /\ m \in Open /\ ~Passed(m)
    /\ Starts(c, m, "edit")
    /\ UNCHANGED <<matchVars, planVars, ops, faults, ghosts>>

\* The edit is refused for another reason.
Refuse(c) ==
    /\ pc[c] = "edit"
    /\ Finish(c)
    /\ UNCHANGED <<matchVars, planVars, ops, faults, ghosts>>

\* A selection made now, into a match that may have closed since the check.
Drafted(c, S) ==
    /\ drafts' = [drafts EXCEPT ![on[c]] = S]
    /\ late' = IF on[c] \in closed THEN [late EXCEPT ![on[c]] = @ \cup (S \ drafts[on[c]])] ELSE late
    /\ UNCHANGED <<matchVars, finals, final, ops, faults, undone, excused, stranded>>

AddPlayer(c) ==
    /\ pc[c] = "edit"
    /\ \E p \in Players : Drafted(c, drafts[on[c]] \cup {p})
    /\ Finish(c)

\* Only rows that are DRAFT are removed, whatever the match has become.
ClearPlan(c) ==
    /\ pc[c] = "edit"
    /\ Drafted(c, {})
    /\ Finish(c)

\* A generated plan replaces the drafts; the round is looked at again.
Regenerate(c) ==
    /\ pc[c] = "edit"
    /\ \E S \in SUBSET Players : Drafted(c, S)
    /\ Trail(c)

-----------------------------------------------------------------------------
(* The round's status.                                                     *)

\* The round returns to DRAFT; if all its matches are closed, nothing will finalize it again.
Demote ==
    /\ final' = FALSE
    /\ excused' = {}
    /\ UNCHANGED matchVars
    /\ Strand(TRUE)

\* reconcileRoundAfterDraftMutation: a round without FINALIZED selections but with drafts,
\* or with blockers, is to be DRAFT...
Reconcile(c) ==
    /\ pc[c] = "reconcile"
    /\ \/ Finish(c)
       \/ (\A m \in here : finals[m] = {}) /\ Goto(c, "demote")
    /\ UNCHANGED <<matchVars, planVars, ops, faults, ghosts>>

\* ... whatever it holds when the update is made.
DemoteRound(c) ==
    /\ pc[c] = "demote"
    /\ Demote
    /\ Finish(c)
    /\ UNCHANGED <<drafts, finals, ops, faults, late, undone>>

\* reconcileStaleRoundFinalization, before a match is created in or moved to the round.
Arrive(c, m) ==
    /\ m \notin here \cup closed
    /\ Operation
    /\ pc[c] = "idle"
    /\ At(c, IF final /\ Open # {} THEN "heal" ELSE "arrive")
    /\ on' = [on EXCEPT ![c] = m]
    /\ opens' = [opens EXCEPT ![c] = IF final THEN Open ELSE {}]
    /\ UNCHANGED <<matchVars, planVars, took, whole, faults, ghosts>>

\* Its transaction reverts the matches it found never closed, and the round.
Heal(c) ==
    /\ pc[c] = "heal"
    /\ drafts' = [m \in Matches |-> IF m \in opens[c] THEN drafts[m] \cup finals[m] ELSE drafts[m]]
    /\ finals' = [m \in Matches |-> IF m \in opens[c] THEN {} ELSE finals[m]]
    /\ undone' = undone \cup (opens[c] \cap closed)
    /\ Demote
    /\ Goto(c, "arrive")
    /\ UNCHANGED <<ops, faults, late>>

\* The match arrives, with the drafts it had; a final round that was sound stays final.
Enter(c) ==
    /\ pc[c] = "arrive"
    /\ here' = here \cup {on[c]}
    /\ due' = due \ {on[c]}
    /\ excused' = IF final THEN excused \cup ({on[c]} \ closed) ELSE excused
    /\ Finish(c)
    /\ UNCHANGED <<cancelled, closed, live, planVars, ops, faults, late, undone>>
    /\ Strand(FALSE)

-----------------------------------------------------------------------------
(* Moving, cancelling and restoring matches.                               *)

\* Nothing captures a round whose last open match is cancelled.
Cancel(c, m) ==
    /\ m \in Playable
    /\ Operation
    /\ cancelled' = cancelled \cup {m}
    /\ excused' = excused \ {m}
    /\ pc[c] = "idle" /\ Trail(c)
    /\ UNCHANGED <<here, due, closed, live, planVars, faults, late, undone>>
    /\ Strand(m \notin closed)

\* A match that is restored while the round is final is open in it.
Restore(c, m) ==
    /\ m \in here \cap cancelled
    /\ cancelled' = cancelled \ {m}
    /\ excused' = IF final /\ m \notin closed THEN excused \cup {m} ELSE excused
    /\ pc[c] = "idle" /\ Trail(c)
    /\ UNCHANGED <<here, due, closed, live, planVars, ops, faults, late, undone>>
    /\ Strand(FALSE)

\* A new date: a closed plan is reopened first, unless the match has a live session.
Reschedule(c, m) ==
    /\ m \in Playable
    /\ m \in closed => live[m] = "NONE"
    /\ Operation
    /\ Starts(c, m, IF m \in closed THEN "reopen" ELSE "date")
    /\ UNCHANGED <<matchVars, planVars, faults, ghosts>>

\* The plan alone is reopened, a round that is final stays so.
ReopenPlanOnly(c) ==
    /\ pc[c] = "reopen"
    /\ closed' = closed \ {on[c]}
    /\ drafts' = [drafts EXCEPT ![on[c]] = @ \cup finals[on[c]]]
    /\ finals' = [finals EXCEPT ![on[c]] = {}]
    /\ late' = [late EXCEPT ![on[c]] = {}]
    /\ undone' = undone \ {on[c]}
    /\ Goto(c, "date")
    /\ UNCHANGED <<here, cancelled, due, live, final, ops, faults, excused>>
    /\ Strand(TRUE)

\* The selections are reopened, the match stays closed.
ReopenSelectionsOnly(c) ==
    /\ pc[c] = "reopen"
    /\ drafts' = [drafts EXCEPT ![on[c]] = @ \cup finals[on[c]]]
    /\ finals' = [finals EXCEPT ![on[c]] = {}]
    /\ final' = FALSE
    /\ late' = [late EXCEPT ![on[c]] = {}]
    /\ undone' = undone \ {on[c]}
    /\ excused' = {}
    /\ Goto(c, "date")
    /\ UNCHANGED <<matchVars, ops, faults>>
    /\ Strand(TRUE)

\* reopenMatchPlanningForReschedule: the match, its selections and the round, in a transaction.
\* The match may have been cancelled since, and then nothing is open.
Reopen(c) ==
    /\ pc[c] = "reopen"
    /\ closed' = closed \ {on[c]}
    /\ drafts' = [drafts EXCEPT ![on[c]] = @ \cup finals[on[c]]]
    /\ finals' = [finals EXCEPT ![on[c]] = {}]
    /\ final' = FALSE
    /\ late' = [late EXCEPT ![on[c]] = {}]
    /\ undone' = undone \ {on[c]}
    /\ excused' = {}
    /\ Goto(c, "date")
    /\ UNCHANGED <<here, cancelled, due, live, ops, faults>>
    /\ Strand(TRUE)

\* In the same week only the date changes; a date in the past is one that passes at once.
SetDate(c) ==
    /\ pc[c] = "date"
    /\ due' = due \ {on[c]}
    /\ Finish(c)
    /\ UNCHANGED <<here, cancelled, closed, live, planVars, ops, faults, ghosts>>

\* In another week the match leaves for that week's round, and its drafts with it.
MoveAway(c) ==
    /\ pc[c] = "date"
    /\ here' = here \ {on[c]}
    /\ excused' = excused \ {on[c]}
    /\ Trail(c)
    /\ UNCHANGED <<cancelled, due, closed, live, planVars, ops, faults, late, undone>>
    /\ Strand(on[c] \notin closed)

-----------------------------------------------------------------------------
CallStep(c) ==
    \/ ForceCapture(c) \/ Claim(c) \/ Fold(c) \/ Commit(c)
    \/ Refuse(c) \/ AddPlayer(c) \/ ClearPlan(c) \/ Regenerate(c)
    \/ Reconcile(c) \/ DemoteRound(c) \/ Heal(c) \/ Enter(c)
    \/ Reopen(c) \/ SetDate(c) \/ MoveAway(c)

Call(c, m) ==
    \/ Notice(c, m) \/ StartLive(c, m) \/ Check(c, m)
    \/ Arrive(c, m) \/ Cancel(c, m) \/ Restore(c, m) \/ Reschedule(c, m)

Next ==
    \/ \E m \in Matches : Kickoff(m) \/ EndLive(m)
    \/ \E c \in Callers : CallStep(c) \/ Die(c) \/ \E m \in Matches : Call(c, m)

\* Requests go on, and pages that show a match whose boundary has passed are read.
Fairness ==
    /\ \A c \in Callers : WF_vars(CallStep(c))
    /\ \A m \in Matches : SF_vars(\E c \in Callers : Notice(c, m))

Spec == Init /\ [][Next]_vars /\ Fairness

-----------------------------------------------------------------------------
(* Properties.                                                             *)

Steps == {"idle", "forced", "claim", "fold", "commit", "edit", "reconcile", "demote", "heal",
          "arrive", "reopen", "date"}

\* The variables have their types.
TypeOK ==
    /\ here \subseteq Matches /\ cancelled \subseteq Matches
    /\ due \subseteq Matches /\ closed \subseteq Matches
    /\ live \in [Matches -> {"NONE", "ACTIVE", "ENDED"}]
    /\ drafts \in [Matches -> SUBSET Players] /\ finals \in [Matches -> SUBSET Players]
    /\ final \in BOOLEAN
    /\ pc \in [Callers -> Steps] /\ on \in [Callers -> Matches]
    /\ took \in [Callers -> SUBSET Players] /\ whole \in [Callers -> BOOLEAN]
    /\ opens \in [Callers -> SUBSET Matches]
    /\ ops \in Nat /\ faults \in Nat
    /\ late \in [Matches -> SUBSET Players]
    /\ undone \subseteq Matches /\ excused \subseteq Matches
    /\ stranded \in BOOLEAN

Capturing(m) == \E c \in Callers : pc[c] \in {"fold", "commit"} /\ on[c] = m

\* When nobody is capturing it, the plan of a closed match holds no draft: everything planned by
\* then is in the baseline, whatever claims, reopens and edits raced (ensureMatchPlanningBaseline-
\* Captured: "a race ... never produces two contradictory baselines").  The exceptions are a
\* selection whose edit was checked before the close, and a capture that died or was healed away.
ClosedPlanIsFrozen ==
    \A m \in closed \cap here :
        Capturing(m) \/ m \in undone \/ drafts[m] \subseteq late[m]

\* A round that is FINALIZED has no open match ("a round is only validly FINALIZED once every
\* constituent match has closed"), but for one that came or was restored into a final round, or
\* was reopened between the count of a capture and its commit.
FinalizedRoundIsClosed == final => Open \subseteq excused

\* Nothing watches the clock, requests die half-way, and yet a match whose kickoff passes is
\* closed, unless it is rescheduled, moved or cancelled first.
KickoffCloses == \A m \in Matches : m \in due \cap Open ~> m \notin due \cap Open

\* When all its matches are closed and no capture is under way, the round is FINALIZED: of two
\* matches captured at once, one capture counts both closed because each claims before it counts.
\* The exceptions: the capture died, the last open match was cancelled or moved away, or the
\* round was returned to DRAFT when all was closed already.
ClosedRoundIsFinalized ==
    Playable # {} /\ Open = {} => final \/ stranded \/ \E m \in Matches : Capturing(m)

=============================================================================
