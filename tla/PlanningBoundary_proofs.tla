----------------------- MODULE PlanningBoundary_proofs -----------------------
(***************************************************************************)
(* Proofs about PlanningBoundary: the types, its three invariants, and     *)
(* that a baseline stands.                                                 *)
(***************************************************************************)
EXTENDS PlanningBoundary, TLAPS

-----------------------------------------------------------------------------
(* Types.                                                                  *)

LEMMA AnyMatchType == AnyMatch \in Matches
BY PlanningAssumption DEF AnyMatch

CallType ==
    /\ pc \in [Callers -> Steps] /\ on \in [Callers -> Matches]
    /\ took \in [Callers -> SUBSET Players] /\ whole \in [Callers -> BOOLEAN]
    /\ opens \in [Callers -> SUBSET Matches]

MatchType ==
    /\ here \subseteq Matches /\ cancelled \subseteq Matches
    /\ due \subseteq Matches /\ closed \subseteq Matches
    /\ live \in [Matches -> {"NONE", "ACTIVE", "ENDED"}]

PlanType ==
    /\ drafts \in [Matches -> SUBSET Players] /\ finals \in [Matches -> SUBSET Players]
    /\ final \in BOOLEAN

GhostType ==
    /\ ops \in Nat /\ faults \in Nat
    /\ late \in [Matches -> SUBSET Players]
    /\ undone \subseteq Matches /\ excused \subseteq Matches
    /\ stranded \in BOOLEAN

LEMMA TypeParts == TypeOK <=> CallType /\ MatchType /\ PlanType /\ GhostType
BY DEF TypeOK, CallType, MatchType, PlanType, GhostType

LEMMA InitType == Init => TypeOK
<1> SUFFICES ASSUME Init PROVE TypeOK
  OBVIOUS
<1>1. CallType
  BY AnyMatchType DEF Init, CallType, Steps
<1>2. MatchType
  BY DEF Init, MatchType
<1>3. PlanType
  BY DEF Init, PlanType
<1>4. GhostType
  BY DEF Init, GhostType
<1> QED
  BY <1>1, <1>2, <1>3, <1>4, TypeParts

\* What a request reads and where it goes.
LEMMA CallTypeStep ==
  ASSUME TypeOK, NEW c \in Callers, CallStep(c) \/ Die(c) \/ \E m \in Matches : Call(c, m)
  PROVE  CallType'
<1> USE AnyMatchType, TypeParts DEF CallType, Steps, At, Goto, Finish, Trail, Starts
<1>1. CASE ForceCapture(c)
  BY <1>1 DEF ForceCapture
<1>2. CASE Claim(c)
  BY <1>2 DEF Claim
<1>3. CASE Fold(c)
  <2>1. drafts[on[c]] \in SUBSET Players /\ (Open = {} /\ ~final) \in BOOLEAN
    BY DEF PlanType
  <2> QED
    BY <1>3, <2>1 DEF Fold
<1>4. CASE Commit(c) \/ Refuse(c) \/ AddPlayer(c) \/ ClearPlan(c) \/ DemoteRound(c) \/ Enter(c)
           \/ SetDate(c) \/ Die(c)
  <2>1. Finish(c)
    BY <1>4 DEF Commit, Refuse, AddPlayer, ClearPlan, DemoteRound, Enter, SetDate, Die
  <2> QED
    BY <2>1
<1>5. CASE Regenerate(c) \/ MoveAway(c)
  <2>1. Trail(c)
    BY <1>5 DEF Regenerate, MoveAway
  <2> QED
    BY <2>1
<1>6. CASE Reconcile(c) \/ Heal(c) \/ Reopen(c)
  <2>1. Finish(c) \/ Goto(c, "demote") \/ Goto(c, "arrive") \/ Goto(c, "date")
    BY <1>6 DEF Reconcile, Heal, Reopen
  <2> QED
    BY <2>1
<1>7. ASSUME NEW m \in Matches, Call(c, m) PROVE CallType'
  <2>1. CASE Notice(c, m) \/ StartLive(c, m) \/ Check(c, m) \/ Reschedule(c, m)
    <3>1. \E step \in Steps : Starts(c, m, step)
      BY <2>1 DEF Notice, StartLive, Check, Reschedule
    <3> QED
      BY <3>1
  <2>2. CASE Cancel(c, m) \/ Restore(c, m)
    <3>1. Trail(c)
      BY <2>2 DEF Cancel, Restore
    <3> QED
      BY <3>1
  <2>3. CASE Arrive(c, m)
    <3>1. Open \subseteq Matches
      BY DEF Open, Playable, MatchType
    <3> QED
      BY <2>3, <3>1 DEF Arrive
  <2> QED
    BY <1>7, <2>1, <2>2, <2>3 DEF Call
<1> QED
  BY <1>1, <1>2, <1>3, <1>4, <1>5, <1>6, <1>7 DEF CallStep

\* The matches.
LEMMA MatchTypeStep == TypeOK /\ Next => MatchType'
<1> SUFFICES ASSUME TypeOK, Next PROVE MatchType'
  OBVIOUS
<1>0. CallType /\ MatchType
  BY TypeParts
<1>1. ASSUME NEW m \in Matches, Kickoff(m) \/ EndLive(m) PROVE MatchType'
  BY <1>0, <1>1 DEF MatchType, Kickoff, EndLive
<1>2. ASSUME NEW c \in Callers, CallStep(c) \/ Die(c) PROVE MatchType'
  <2>1. on[c] \in Matches
    BY <1>0 DEF CallType
  <2> QED
    BY <1>0, <1>2, <2>1
    DEF MatchType, CallStep, Die, ForceCapture, Claim, Fold, Commit, Refuse, AddPlayer, ClearPlan,
        Drafted, Regenerate, Reconcile, DemoteRound, Demote, Heal, Enter, Reopen, SetDate, MoveAway, matchVars
<1>3. ASSUME NEW c \in Callers, NEW m \in Matches, Call(c, m) PROVE MatchType'
  BY <1>0, <1>3 DEF MatchType, Call, Notice, StartLive, Check, Arrive, Cancel, Restore, Reschedule,
                    matchVars
<1> QED
  BY <1>1, <1>2, <1>3 DEF Next

\* The plan.
LEMMA PlanTypeStep == TypeOK /\ Next => PlanType'
<1> SUFFICES ASSUME TypeOK, Next PROVE PlanType'
  OBVIOUS
<1> USE DEF PlanType
<1>0. CallType /\ PlanType
  BY TypeParts
<1>1. ASSUME NEW m \in Matches, Kickoff(m) \/ EndLive(m) PROVE PlanType'
  BY <1>0, <1>1 DEF Kickoff, EndLive, planVars
<1>2. ASSUME NEW c \in Callers, CallStep(c) \/ Die(c) PROVE PlanType'
  <2>0. on[c] \in Matches /\ took[c] \subseteq Players /\ whole[c] \in BOOLEAN
    BY <1>0 DEF CallType
  <2>1. CASE Commit(c)
    <3>1. final' \in BOOLEAN
      BY <1>0, <2>0, <2>1 DEF Commit
    <3> QED
      BY <1>0, <2>0, <2>1, <3>1 DEF Commit
  <2>2. ASSUME NEW S \in SUBSET Players, Drafted(c, S) PROVE PlanType'
    BY <1>0, <2>0, <2>2 DEF Drafted
  <2>3. CASE AddPlayer(c) \/ ClearPlan(c) \/ Regenerate(c)
    <3>1. \A p \in Players : drafts[on[c]] \cup {p} \in SUBSET Players
      BY <1>0, <2>0
    <3> QED
      BY <2>2, <2>3, <3>1 DEF AddPlayer, ClearPlan, Regenerate
  <2>4. CASE Heal(c)
    BY <1>0, <2>4 DEF Heal, Demote
  <2>5. CASE Reopen(c)
    BY <1>0, <2>0, <2>5 DEF Reopen
  <2>6. CASE DemoteRound(c)
    BY <1>0, <2>6 DEF DemoteRound, Demote
  <2>7. CASE ForceCapture(c) \/ Claim(c) \/ Fold(c) \/ Refuse(c) \/ Reconcile(c) \/ Enter(c) \/ SetDate(c)
             \/ MoveAway(c) \/ Die(c)
    BY <1>0, <2>7 DEF ForceCapture, Claim, Fold, Refuse, Reconcile, Enter, SetDate, MoveAway, Die, planVars
  <2> QED
    BY <1>2, <2>1, <2>3, <2>4, <2>5, <2>6, <2>7 DEF CallStep
<1>3. ASSUME NEW c \in Callers, NEW m \in Matches, Call(c, m) PROVE PlanType'
  BY <1>0, <1>3 DEF Call, Notice, StartLive, Check, Arrive, Cancel, Restore, Reschedule, planVars
<1> QED
  BY <1>1, <1>2, <1>3 DEF Next

\* Bounds and ghosts.
LEMMA GhostTypeStep == TypeOK /\ Next => GhostType'
<1> SUFFICES ASSUME TypeOK, Next PROVE GhostType'
  OBVIOUS
<1> USE DEF GhostType
<1>0. CallType /\ MatchType /\ PlanType /\ GhostType
  BY TypeParts
<1>1. ASSUME NEW m \in Matches, Kickoff(m) \/ EndLive(m) PROVE GhostType'
  BY <1>0, <1>1 DEF Kickoff, EndLive, ghosts
<1>2. ASSUME NEW c \in Callers, CallStep(c) \/ Die(c) PROVE GhostType'
  <2>0. on[c] \in Matches /\ opens[c] \subseteq Matches /\ Open \subseteq Matches
    BY <1>0 DEF CallType, MatchType, Open, Playable
  <2>1. \A b : Strand(b) => stranded' \in BOOLEAN
    BY DEF Strand
  <2>2. ASSUME NEW S \in SUBSET Players, Drafted(c, S) PROVE GhostType'
    <3>1. late' \in [Matches -> SUBSET Players]
      BY <1>0, <2>0, <2>2 DEF Drafted
    <3> QED
      BY <1>0, <2>2, <3>1 DEF Drafted
  <2>3. CASE AddPlayer(c) \/ ClearPlan(c) \/ Regenerate(c)
    <3>1. \A p \in Players : drafts[on[c]] \cup {p} \in SUBSET Players
      BY <1>0, <2>0 DEF PlanType
    <3> QED
      BY <2>2, <2>3, <3>1 DEF AddPlayer, ClearPlan, Regenerate
  <2>4. CASE Commit(c) \/ Enter(c) \/ MoveAway(c) \/ Die(c)
    <3>1. stranded' \in BOOLEAN
      BY <2>1, <2>4 DEF Commit, Enter, MoveAway, Die
    <3>2. ops' = ops /\ late' = late /\ (faults' = faults \/ faults' = faults + 1)
      BY <2>4 DEF Commit, Enter, MoveAway, Die
    <3>3. undone' \subseteq Matches /\ excused' \subseteq Matches
      BY <1>0, <2>0, <2>4 DEF Commit, Enter, MoveAway, Die
    <3> QED
      BY <1>0, <3>1, <3>2, <3>3
  <2>5. CASE Heal(c) \/ DemoteRound(c)
    BY <1>0, <2>0, <2>1, <2>5 DEF Heal, DemoteRound, Demote
  <2>6. CASE Reopen(c)
    BY <1>0, <2>0, <2>1, <2>6 DEF Reopen
  <2>7. CASE ForceCapture(c) \/ Claim(c) \/ Fold(c) \/ Refuse(c) \/ Reconcile(c) \/ SetDate(c)
    BY <1>0, <2>7 DEF ForceCapture, Claim, Fold, Refuse, Reconcile, SetDate, ghosts
  <2> QED
    BY <1>2, <2>3, <2>4, <2>5, <2>6, <2>7 DEF CallStep
<1>3. ASSUME NEW c \in Callers, NEW m \in Matches, Call(c, m) PROVE GhostType'
  <2>1. \A b : Strand(b) => stranded' \in BOOLEAN
    BY DEF Strand
  <2>2. ops' \in Nat
    <3>1. ops' = ops \/ ops' = ops + 1
      BY <1>3 DEF Call, Notice, StartLive, Check, Arrive, Cancel, Restore, Reschedule, Operation
    <3> QED
      BY <1>0, <3>1
  <2> QED
    BY <1>0, <1>3, <2>1, <2>2
    DEF Call, Notice, StartLive, Check, Arrive, Cancel, Restore, Reschedule, ghosts
<1> QED
  BY <1>1, <1>2, <1>3 DEF Next

LEMMA TypeStep == TypeOK /\ [Next]_vars => TypeOK'
<1> SUFFICES ASSUME TypeOK, [Next]_vars PROVE TypeOK'
  OBVIOUS
<1>1. CASE UNCHANGED vars
  BY <1>1 DEF TypeOK, vars, matchVars, planVars, callVars, ghosts
<1>2. CASE Next
  <2>1. CallType'
    <3>1. CASE \E m \in Matches : Kickoff(m) \/ EndLive(m)
      BY <3>1, TypeParts DEF Kickoff, EndLive, CallType, callVars
    <3> QED
      BY <1>2, <3>1, CallTypeStep DEF Next
  <2>2. MatchType' /\ PlanType' /\ GhostType'
    BY <1>2, MatchTypeStep, PlanTypeStep, GhostTypeStep
  <2> QED
    BY <2>1, <2>2 DEF TypeOK, CallType, MatchType, PlanType, GhostType
<1> QED
  BY <1>1, <1>2

\* The variables have their types in every state of every behaviour.
THEOREM TypeCorrect == Spec => []TypeOK
BY InitType, TypeStep, PTL DEF Spec

-----------------------------------------------------------------------------
(* The plan of a closed match.  A capture that has taken every draft that  *)
(* is not late stays good for as long as the match is closed: only late    *)
(* selections can be added, and a reopening starts afresh.                 *)

Captures(c, m) ==
    /\ on[c] = m
    /\ \/ pc[c] = "fold"
       \/ pc[c] = "commit" /\ drafts[m] \ took[c] \subseteq late[m]

WillFreeze(m) == (\E c \in Callers : Captures(c, m)) \/ m \in undone \/ drafts[m] \subseteq late[m]

Frozen == \A m \in closed : WillFreeze(m)

\* Nothing changes for a match whose drafts and capturers stay what they are.
LEMMA FrozenFrame ==
  ASSUME TypeOK, Frozen, NEW c \in Callers, pc[c] \notin {"fold", "commit"},
         closed' \subseteq closed, undone \subseteq undone',
         UNCHANGED <<drafts, late>>,
         \A d \in Callers : d # c => pc'[d] = pc[d] /\ on'[d] = on[d] /\ took'[d] = took[d]
  PROVE  Frozen'
BY DEF Frozen, WillFreeze, Captures

\* A request changes its own reads only.
LEMMA OthersKeep ==
  ASSUME TypeOK, NEW c \in Callers, NEW m,
         \/ \E step : At(c, step) /\ UNCHANGED <<on, took>>
         \/ Finish(c) \/ Trail(c) \/ (\E step : Goto(c, step)) \/ (\E step : Starts(c, m, step))
  PROVE  \A d \in Callers : d # c => pc'[d] = pc[d] /\ on'[d] = on[d] /\ took'[d] = took[d]
BY DEF TypeOK, At, Finish, Trail, Goto, Starts

LEMMA FrozenDrafted ==
  ASSUME TypeOK, Frozen, NEW c \in Callers, pc[c] = "edit", NEW S \in SUBSET Players, Drafted(c, S),
         Finish(c) \/ Trail(c), UNCHANGED <<closed, undone>>
  PROVE  Frozen'
<1>1. \A d \in Callers : d # c => pc'[d] = pc[d] /\ on'[d] = on[d] /\ took'[d] = took[d]
  BY OthersKeep
<1>2. SUFFICES ASSUME NEW m \in closed PROVE WillFreeze(m)'
  BY DEF Frozen
<1>3. m \in Matches /\ on[c] \in Matches /\ WillFreeze(m)
  BY DEF TypeOK, Frozen
<1>4. CASE m # on[c]
  <2>1. drafts'[m] = drafts[m] /\ late'[m] = late[m]
    BY <1>3, <1>4 DEF Drafted, TypeOK
  <2> QED
    BY <1>1, <1>3, <2>1 DEF WillFreeze, Captures
<1>5. CASE m = on[c]
  <2>1. drafts'[m] = S /\ late'[m] = late[m] \cup (S \ drafts[m])
    BY <1>3, <1>5 DEF Drafted, TypeOK
  <2>2. \A T : drafts[m] \ T \subseteq late[m] => drafts'[m] \ T \subseteq late'[m]
    BY <2>1
  <2>3. drafts[m] \subseteq late[m] => drafts'[m] \subseteq late'[m]
    BY <2>1
  <2> QED
    BY <1>1, <1>3, <2>2, <2>3 DEF WillFreeze, Captures
<1> QED
  BY <1>4, <1>5

LEMMA FrozenStep ==
  ASSUME TypeOK, Frozen, NEW c \in Callers, CallStep(c) \/ Die(c) \/ \E m \in Matches : Call(c, m)
  PROVE  Frozen'
<1>0. on[c] \in Matches
  BY DEF TypeOK
<1>1. CASE Claim(c)
  <2>1. \A d \in Callers : d # c => pc'[d] = pc[d] /\ on'[d] = on[d] /\ took'[d] = took[d]
    BY <1>1, OthersKeep DEF Claim
  <2>2. CASE on[c] \in closed
    BY <1>1, <2>1, <2>2, FrozenFrame DEF Claim, planVars
  <2>3. CASE on[c] \notin closed
    <3>1. pc'[c] = "fold" /\ on'[c] = on[c]
      BY <1>1, <2>3 DEF Claim, Goto, At, TypeOK
    <3> QED
      BY <1>1, <2>1, <2>3, <3>1 DEF Claim, Frozen, WillFreeze, Captures, planVars
  <2> QED
    BY <2>2, <2>3
<1>2. CASE Fold(c)
  <2>1. /\ pc'[c] = "commit" /\ on' = on /\ took'[c] = drafts[on[c]]
        /\ \A d \in Callers : d # c => pc'[d] = pc[d] /\ took'[d] = took[d]
    BY <1>2 DEF Fold, At, TypeOK
  <2> QED
    BY <1>2, <2>1 DEF Fold, Frozen, WillFreeze, Captures, matchVars, planVars, ghosts
<1>3. CASE Commit(c)
  <2>1. \A d \in Callers : d # c => pc'[d] = pc[d] /\ on'[d] = on[d] /\ took'[d] = took[d]
    BY <1>3, OthersKeep DEF Commit
  <2>2. \A m \in Matches : drafts'[m] = IF m = on[c] THEN drafts[m] \ took[c] ELSE drafts[m]
    BY <1>3 DEF Commit, TypeOK
  <2>3. UNCHANGED <<closed, late, undone>>
    BY <1>3 DEF Commit, matchVars
  <2>4. closed \subseteq Matches
    BY DEF TypeOK
  <2>5. ASSUME NEW m \in closed PROVE WillFreeze(m)'
    <3>1. WillFreeze(m) /\ m \in Matches
      BY <2>4, <2>5 DEF Frozen
    <3>2. CASE Captures(c, m)
      <4>1. drafts'[m] \subseteq late'[m]
        BY <1>3, <2>2, <2>3, <3>1, <3>2 DEF Captures, Commit
      <4> QED
        BY <4>1 DEF WillFreeze
    <3>3. ASSUME NEW d \in Callers, d # c, Captures(d, m) PROVE WillFreeze(m)'
      <4>1. drafts'[m] \subseteq drafts[m] /\ late'[m] = late[m]
        BY <2>2, <2>3, <3>1
      <4>2. Captures(d, m)'
        BY <2>1, <3>3, <4>1 DEF Captures
      <4> QED
        BY <4>2 DEF WillFreeze
    <3>4. CASE m \in undone \/ drafts[m] \subseteq late[m]
      BY <2>2, <2>3, <3>1, <3>4 DEF WillFreeze
    <3> QED
      BY <3>1, <3>2, <3>3, <3>4 DEF WillFreeze
  <2> QED
    BY <2>3, <2>5 DEF Frozen
<1>4. CASE AddPlayer(c) \/ ClearPlan(c) \/ Regenerate(c)
  <2>1. \E S \in SUBSET Players : Drafted(c, S) /\ (Finish(c) \/ Trail(c))
    <3>1. drafts[on[c]] \in SUBSET Players
      BY <1>0 DEF TypeOK
    <3>2. CASE AddPlayer(c)
      BY <3>1, <3>2 DEF AddPlayer
    <3>3. CASE ClearPlan(c)
      BY <3>3 DEF ClearPlan
    <3>4. CASE Regenerate(c)
      BY <3>4 DEF Regenerate
    <3> QED
      BY <1>4, <3>2, <3>3, <3>4
  <2>2. pc[c] = "edit" /\ UNCHANGED <<closed, undone>>
    BY <1>4 DEF AddPlayer, ClearPlan, Regenerate, Drafted, matchVars
  <2> QED
    BY <2>1, <2>2, FrozenDrafted
<1>5. CASE Heal(c)
  <2>1. \A d \in Callers : d # c => pc'[d] = pc[d] /\ on'[d] = on[d] /\ took'[d] = took[d]
    BY <1>5, OthersKeep DEF Heal
  <2>2. \A m \in Matches : m \notin opens[c] => drafts'[m] = drafts[m]
    BY <1>5 DEF Heal
  <2>3. closed' = closed /\ late' = late /\ undone' = undone \cup (opens[c] \cap closed)
    BY <1>5 DEF Heal, Demote, matchVars
  <2>4. pc[c] = "heal" /\ closed \subseteq Matches
    BY <1>5 DEF Heal, TypeOK
  <2> QED
    BY <2>1, <2>2, <2>3, <2>4 DEF Frozen, WillFreeze, Captures
<1>6. CASE Reopen(c)
  <2>1. \A d \in Callers : d # c => pc'[d] = pc[d] /\ on'[d] = on[d] /\ took'[d] = took[d]
    BY <1>6, OthersKeep DEF Reopen
  <2>2. \A m \in Matches : m # on[c] => drafts'[m] = drafts[m] /\ late'[m] = late[m]
    BY <1>6 DEF Reopen, TypeOK
  <2>3. closed' = closed \ {on[c]} /\ undone' = undone \ {on[c]} /\ pc[c] = "reopen"
    BY <1>6 DEF Reopen
  <2>4. closed \subseteq Matches
    BY DEF TypeOK
  <2> QED
    BY <2>1, <2>2, <2>3, <2>4 DEF Frozen, WillFreeze, Captures
<1>7. CASE Die(c)
  <2>1. \A d \in Callers : d # c => pc'[d] = pc[d] /\ on'[d] = on[d] /\ took'[d] = took[d]
    BY <1>7, OthersKeep DEF Die
  <2>2. UNCHANGED <<closed, drafts, late>>
    BY <1>7 DEF Die, matchVars, planVars
  <2>3. undone' = IF pc[c] \in {"fold", "commit"} THEN undone \cup {on[c]} ELSE undone
    BY <1>7 DEF Die
  <2> QED
    BY <2>1, <2>2, <2>3 DEF Frozen, WillFreeze, Captures
<1>8. CASE ForceCapture(c) \/ Refuse(c) \/ Reconcile(c) \/ DemoteRound(c) \/ Enter(c) \/ SetDate(c)
           \/ MoveAway(c)
  <2>1. \A d \in Callers : d # c => pc'[d] = pc[d] /\ on'[d] = on[d] /\ took'[d] = took[d]
    BY <1>8, OthersKeep
    DEF ForceCapture, Refuse, Reconcile, DemoteRound, Enter, SetDate, MoveAway
  <2>2. pc[c] \notin {"fold", "commit"} /\ UNCHANGED <<closed, drafts, late, undone>>
    BY <1>8 DEF ForceCapture, Refuse, Reconcile, DemoteRound, Demote, Enter, SetDate, MoveAway,
                matchVars, planVars, ghosts
  <2> QED
    BY <2>1, <2>2, FrozenFrame
<1>9. ASSUME NEW m \in Matches, Call(c, m) PROVE Frozen'
  <2>1. \A d \in Callers : d # c => pc'[d] = pc[d] /\ on'[d] = on[d] /\ took'[d] = took[d]
    <3>1. CASE Arrive(c, m)
      BY <3>1 DEF Arrive, At, TypeOK
    <3>2. CASE ~Arrive(c, m)
      BY <1>9, <3>2, OthersKeep DEF Call, Notice, StartLive, Check, Cancel, Restore, Reschedule
    <3> QED
      BY <3>1, <3>2
  <2>2. pc[c] = "idle" /\ UNCHANGED <<closed, drafts, late, undone>>
    BY <1>9 DEF Call, Notice, StartLive, Check, Arrive, Cancel, Restore, Reschedule, Starts,
                matchVars, planVars, ghosts
  <2> QED
    BY <2>1, <2>2, FrozenFrame
<1> QED
  BY <1>1, <1>2, <1>3, <1>4, <1>5, <1>6, <1>7, <1>8, <1>9 DEF CallStep

LEMMA FrozenNext == TypeOK /\ Frozen /\ [Next]_vars => Frozen'
<1> SUFFICES ASSUME TypeOK, Frozen, [Next]_vars PROVE Frozen'
  OBVIOUS
<1>1. CASE UNCHANGED <<closed, drafts, late, undone, pc, on, took>>
  BY <1>1 DEF Frozen, WillFreeze, Captures
<1>2. CASE UNCHANGED vars \/ \E m \in Matches : Kickoff(m) \/ EndLive(m)
  BY <1>1, <1>2 DEF vars, matchVars, planVars, callVars, ghosts, Kickoff, EndLive
<1>3. CASE \E c \in Callers : CallStep(c) \/ Die(c) \/ \E m \in Matches : Call(c, m)
  BY <1>3, FrozenStep
<1> QED
  BY <1>2, <1>3 DEF Next

\* When nobody is capturing it, the plan of a closed match holds no draft but a late one, or its
\* capture died or was healed away.
THEOREM ClosedPlansFrozen == Spec => []ClosedPlanIsFrozen
<1>1. Init => Frozen
  BY DEF Init, Frozen
<1>2. Frozen => ClosedPlanIsFrozen
  BY DEF Frozen, WillFreeze, Captures, ClosedPlanIsFrozen, Capturing
<1> QED
  BY <1>1, <1>2, InitType, TypeStep, FrozenNext, PTL DEF Spec

-----------------------------------------------------------------------------
(* A final round.  The invariant is inductive as it stands.                *)

LEMMA ClosedRoundStep ==
  ASSUME TypeOK, FinalizedRoundIsClosed, NEW c \in Callers, CallStep(c) \/ Die(c)
  PROVE  FinalizedRoundIsClosed'
<1> USE DEF FinalizedRoundIsClosed, Open, Playable
<1>1. CASE Claim(c)
  BY <1>1 DEF Claim, planVars
<1>2. CASE Commit(c)
  BY <1>2 DEF Commit, matchVars
<1>3. CASE DemoteRound(c) \/ Heal(c) \/ Reopen(c)
  BY <1>3 DEF DemoteRound, Heal, Demote, Reopen
<1>4. CASE Enter(c)
  BY <1>4 DEF Enter, planVars
<1>5. CASE MoveAway(c)
  BY <1>5 DEF MoveAway, planVars
<1>6. CASE ForceCapture(c) \/ Fold(c) \/ Refuse(c) \/ Reconcile(c) \/ SetDate(c) \/ Die(c)
  <2>1. UNCHANGED <<here, cancelled, closed, final, excused>>
    BY <1>6 DEF ForceCapture, Fold, Refuse, Reconcile, SetDate, Die, matchVars, planVars, ghosts
  <2> QED
    BY <2>1
<1>7. CASE AddPlayer(c) \/ ClearPlan(c) \/ Regenerate(c)
  <2>1. UNCHANGED <<here, cancelled, closed, final, excused>>
    BY <1>7 DEF AddPlayer, ClearPlan, Regenerate, Drafted, matchVars
  <2> QED
    BY <2>1
<1> QED
  BY <1>1, <1>2, <1>3, <1>4, <1>5, <1>6, <1>7 DEF CallStep

LEMMA ClosedRoundNext == TypeOK /\ FinalizedRoundIsClosed /\ [Next]_vars => FinalizedRoundIsClosed'
<1> SUFFICES ASSUME TypeOK, FinalizedRoundIsClosed, [Next]_vars PROVE FinalizedRoundIsClosed'
  OBVIOUS
<1> USE DEF FinalizedRoundIsClosed, Open, Playable
<1>1. CASE UNCHANGED vars \/ \E m \in Matches : Kickoff(m) \/ EndLive(m)
  <2>1. UNCHANGED <<here, cancelled, closed, final, excused>>
    BY <1>1 DEF vars, matchVars, planVars, ghosts, Kickoff, EndLive
  <2> QED
    BY <2>1
<1>2. ASSUME NEW c \in Callers, NEW m \in Matches, Call(c, m) PROVE FinalizedRoundIsClosed'
  <2>1. CASE Cancel(c, m)
    BY <2>1 DEF Cancel, planVars
  <2>2. CASE Restore(c, m)
    BY <2>2 DEF Restore, planVars
  <2>3. CASE Notice(c, m) \/ StartLive(c, m) \/ Check(c, m) \/ Arrive(c, m) \/ Reschedule(c, m)
    <3>1. UNCHANGED <<here, cancelled, closed, final, excused>>
      BY <2>3 DEF Notice, StartLive, Check, Arrive, Reschedule, matchVars, planVars, ghosts
    <3> QED
      BY <3>1
  <2> QED
    BY <1>2, <2>1, <2>2, <2>3 DEF Call
<1> QED
  BY <1>1, <1>2, ClosedRoundStep DEF Next

\* A FINALIZED round has no open match but the excused ones.
THEOREM FinalRoundsClosed == Spec => []FinalizedRoundIsClosed
<1>1. Init => FinalizedRoundIsClosed
  BY DEF Init, FinalizedRoundIsClosed, Open, Playable
<1> QED
  BY <1>1, InitType, TypeStep, ClosedRoundNext, PTL DEF Spec

-----------------------------------------------------------------------------
(* A closed round.  While it is not final, some capture under way has yet  *)
(* to count its open matches, or has counted none.                         *)

Counts(c) == pc[c] = "fold" \/ (pc[c] = "commit" /\ whole[c])

WillFinalize == Open = {} => final \/ stranded \/ \E c \in Callers : Counts(c)

\* The round and the matches stay what they are, and so do the captures.
LEMMA FinalizeFrame ==
  ASSUME WillFinalize, NEW c \in Callers, ~Counts(c),
         Open' = Open, final' = final, stranded => stranded',
         \A d \in Callers : d # c => pc'[d] = pc[d] /\ whole'[d] = whole[d]
  PROVE  WillFinalize'
BY DEF WillFinalize, Counts

LEMMA OthersCount ==
  ASSUME TypeOK, NEW c \in Callers, NEW m,
         \/ \E step : At(c, step) /\ UNCHANGED whole
         \/ Finish(c) \/ Trail(c) \/ (\E step : Goto(c, step)) \/ (\E step : Starts(c, m, step))
  PROVE  \A d \in Callers : d # c => pc'[d] = pc[d] /\ whole'[d] = whole[d]
BY DEF TypeOK, At, Finish, Trail, Goto, Starts

LEMMA FinalizeStep ==
  ASSUME TypeOK, WillFinalize, NEW c \in Callers,
         CallStep(c) \/ Die(c) \/ \E m \in Matches : Call(c, m)
  PROVE  WillFinalize'
<1>1. CASE Claim(c)
  <2>1. \A d \in Callers : d # c => pc'[d] = pc[d] /\ whole'[d] = whole[d]
    BY <1>1, OthersCount DEF Claim
  <2>2. CASE on[c] \in closed
    <3>1. Open' = Open /\ final' = final /\ stranded' = stranded /\ ~Counts(c)
      BY <1>1, <2>2 DEF Claim, planVars, Open, Playable, Counts
    <3> QED
      BY <2>1, <3>1, FinalizeFrame
  <2>3. CASE on[c] \notin closed
    <3>1. pc'[c] = "fold"
      BY <1>1, <2>3 DEF Claim, Goto, At, TypeOK
    <3> QED
      BY <3>1 DEF WillFinalize, Counts
  <2> QED
    BY <2>2, <2>3
<1>2. CASE Fold(c)
  <2>1. pc'[c] = "commit" /\ whole'[c] = (Open = {} /\ ~final)
    BY <1>2 DEF Fold, At, TypeOK
  <2>2. Open' = Open /\ final' = final
    BY <1>2 DEF Fold, matchVars, planVars, Open, Playable
  <2> QED
    BY <2>1, <2>2 DEF WillFinalize, Counts
<1>3. CASE Commit(c)
  <2>1. \A d \in Callers : d # c => pc'[d] = pc[d] /\ whole'[d] = whole[d]
    BY <1>3, OthersCount DEF Commit
  <2>2. Open' = Open
    BY <1>3 DEF Commit, matchVars, Open, Playable
  <2>3. CASE final'
    BY <2>3 DEF WillFinalize
  <2>4. CASE ~final'
    <3>1. ~final /\ ~Counts(c) /\ (Open' = {} /\ stranded => stranded')
      BY <1>3, <2>4 DEF Commit, Strand, Counts
    <3> QED
      BY <2>1, <2>2, <3>1 DEF WillFinalize, Counts
  <2> QED
    BY <2>3, <2>4
<1>4. CASE Heal(c) \/ DemoteRound(c) \/ Reopen(c)
  <2>1. Strand(TRUE)
    BY <1>4 DEF Heal, DemoteRound, Demote, Reopen
  <2> QED
    BY <2>1 DEF Strand, WillFinalize
<1>5. CASE Enter(c)
  <2>1. \A d \in Callers : d # c => pc'[d] = pc[d] /\ whole'[d] = whole[d]
    BY <1>5, OthersCount DEF Enter
  <2>2. Open \subseteq Open' /\ final' = final /\ Strand(FALSE) /\ ~Counts(c)
    BY <1>5 DEF Enter, planVars, Open, Playable, Counts
  <2> QED
    BY <2>1, <2>2 DEF Strand, WillFinalize, Counts
<1>6. CASE MoveAway(c)
  <2>1. \A d \in Callers : d # c => pc'[d] = pc[d] /\ whole'[d] = whole[d]
    BY <1>6, OthersCount DEF MoveAway
  <2>2. Strand(on[c] \notin closed) /\ final' = final /\ ~Counts(c)
    BY <1>6 DEF MoveAway, planVars, Counts
  <2>3. on[c] \in closed => Open' = Open
    BY <1>6 DEF MoveAway, Open, Playable
  <2> QED
    BY <2>1, <2>2, <2>3 DEF Strand, WillFinalize, Counts
<1>7. CASE Die(c)
  <2>1. \A d \in Callers : d # c => pc'[d] = pc[d] /\ whole'[d] = whole[d]
    BY <1>7, OthersCount DEF Die
  <2>2. Strand(pc[c] \in {"fold", "commit"}) /\ final' = final /\ Open' = Open
    BY <1>7 DEF Die, matchVars, planVars, Open, Playable
  <2> QED
    BY <2>1, <2>2 DEF Strand, WillFinalize, Counts
<1>8. CASE ForceCapture(c) \/ Refuse(c) \/ Reconcile(c) \/ SetDate(c)
  <2>1. \A d \in Callers : d # c => pc'[d] = pc[d] /\ whole'[d] = whole[d]
    BY <1>8, OthersCount DEF ForceCapture, Refuse, Reconcile, SetDate
  <2>2. Open' = Open /\ final' = final /\ stranded' = stranded /\ ~Counts(c)
    BY <1>8 DEF ForceCapture, Refuse, Reconcile, SetDate, matchVars, planVars, ghosts, Open, Playable,
                Counts
  <2> QED
    BY <2>1, <2>2, FinalizeFrame
<1>9. CASE AddPlayer(c) \/ ClearPlan(c) \/ Regenerate(c)
  <2>1. \A d \in Callers : d # c => pc'[d] = pc[d] /\ whole'[d] = whole[d]
    BY <1>9, OthersCount DEF AddPlayer, ClearPlan, Regenerate
  <2>2. Open' = Open /\ final' = final /\ stranded' = stranded /\ ~Counts(c)
    BY <1>9 DEF AddPlayer, ClearPlan, Regenerate, Drafted, matchVars, Open, Playable, Counts
  <2> QED
    BY <2>1, <2>2, FinalizeFrame
<1>10. ASSUME NEW m \in Matches, Call(c, m) PROVE WillFinalize'
  <2>1. \A d \in Callers : d # c => pc'[d] = pc[d] /\ whole'[d] = whole[d]
    <3>1. CASE Arrive(c, m)
      BY <3>1 DEF Arrive, At, TypeOK
    <3>2. CASE ~Arrive(c, m)
      BY <1>10, <3>2, OthersCount DEF Call, Notice, StartLive, Check, Cancel, Restore, Reschedule
    <3> QED
      BY <3>1, <3>2
  <2>2. ~Counts(c) /\ final' = final
    BY <1>10 DEF Call, Notice, StartLive, Check, Arrive, Cancel, Restore, Reschedule, Starts, planVars,
                 Counts
  <2>3. CASE Cancel(c, m)
    <3>1. Strand(m \notin closed) /\ (m \in closed => Open' = Open)
      BY <2>3 DEF Cancel, Open, Playable
    <3> QED
      BY <2>1, <2>2, <3>1 DEF Strand, WillFinalize, Counts
  <2>4. CASE Restore(c, m)
    <3>1. Strand(FALSE) /\ Open \subseteq Open'
      BY <2>4 DEF Restore, Open, Playable
    <3> QED
      BY <2>1, <2>2, <3>1 DEF Strand, WillFinalize, Counts
  <2>5. CASE Notice(c, m) \/ StartLive(c, m) \/ Check(c, m) \/ Arrive(c, m) \/ Reschedule(c, m)
    <3>1. Open' = Open /\ stranded' = stranded
      BY <2>5 DEF Notice, StartLive, Check, Arrive, Reschedule, matchVars, ghosts, Open, Playable
    <3> QED
      BY <2>1, <2>2, <3>1, FinalizeFrame
  <2> QED
    BY <1>10, <2>3, <2>4, <2>5 DEF Call
<1> QED
  BY <1>1, <1>2, <1>3, <1>4, <1>5, <1>6, <1>7, <1>8, <1>9, <1>10 DEF CallStep

LEMMA FinalizeNext == TypeOK /\ WillFinalize /\ [Next]_vars => WillFinalize'
<1> SUFFICES ASSUME TypeOK, WillFinalize, [Next]_vars PROVE WillFinalize'
  OBVIOUS
<1>1. CASE UNCHANGED vars \/ \E m \in Matches : Kickoff(m) \/ EndLive(m)
  <2>1. UNCHANGED <<here, cancelled, closed, final, stranded, pc, whole>>
    BY <1>1 DEF vars, matchVars, planVars, callVars, ghosts, Kickoff, EndLive
  <2> QED
    BY <2>1 DEF WillFinalize, Counts, Open, Playable
<1>2. CASE \E c \in Callers : CallStep(c) \/ Die(c) \/ \E m \in Matches : Call(c, m)
  BY <1>2, FinalizeStep
<1> QED
  BY <1>1, <1>2 DEF Next

\* When all its matches are closed and no capture is under way, the round is FINALIZED, or was
\* stranded.
THEOREM ClosedRoundsFinal == Spec => []ClosedRoundIsFinalized
<1>1. Init => WillFinalize
  BY DEF Init, WillFinalize, Open, Playable
<1>2. TypeOK /\ WillFinalize => ClosedRoundIsFinalized
  BY DEF TypeOK, WillFinalize, Counts, ClosedRoundIsFinalized, Capturing
<1> QED
  BY <1>1, <1>2, InitType, TypeStep, FinalizeNext, PTL DEF Spec

-----------------------------------------------------------------------------
(* A baseline stands.                                                      *)

\* While a match stays closed, its baseline changes in two ways only: a capture under way adds
\* selections that were drafts of the match, and a healing takes back a match that it had found
\* open, which is then one of the undone.
BaselineStands ==
    \A m \in closed \cap closed' : finals'[m] # finals[m] =>
        \/ Capturing(m) /\ finals[m] \subseteq finals'[m] /\ finals'[m] \ finals[m] \subseteq drafts[m]
        \/ m \in undone'

LEMMA StandsIfSame ==
  ASSUME finals' = finals
  PROVE  BaselineStands
BY DEF BaselineStands

LEMMA BaselineStep ==
  ASSUME TypeOK, [Next]_vars
  PROVE  BaselineStands
<1> USE DEF TypeOK
<1>1. ASSUME NEW c \in Callers, Commit(c) PROVE BaselineStands
  <2>1. finals' = [finals EXCEPT ![on[c]] = @ \cup (drafts[on[c]] \cap took[c])]
    BY <1>1 DEF Commit
  <2>2. Capturing(on[c])
    BY <1>1 DEF Commit, Capturing
  <2>3. \A m \in Matches \ {on[c]} : finals'[m] = finals[m]
    BY <2>1
  <2>4. finals'[on[c]] = finals[on[c]] \cup (drafts[on[c]] \cap took[c])
    BY <2>1
  <2> QED
    BY <2>2, <2>3, <2>4 DEF BaselineStands
<1>2. ASSUME NEW c \in Callers, Heal(c) PROVE BaselineStands
  <2>1. \A m \in Matches \ opens[c] : finals'[m] = finals[m]
    BY <1>2 DEF Heal
  <2>2. opens[c] \cap closed \subseteq undone'
    BY <1>2 DEF Heal
  <2> QED
    BY <2>1, <2>2 DEF BaselineStands
<1>3. ASSUME NEW c \in Callers, Reopen(c) PROVE BaselineStands
  <2>1. on[c] \notin closed'
    BY <1>3 DEF Reopen
  <2>2. \A m \in Matches \ {on[c]} : finals'[m] = finals[m]
    BY <1>3 DEF Reopen
  <2> QED
    BY <2>1, <2>2 DEF BaselineStands
<1>4. CASE finals' = finals
  BY <1>4, StandsIfSame
<1>5. \/ finals' = finals
      \/ \E c \in Callers : Commit(c) \/ Heal(c) \/ Reopen(c)
  <2>1. ASSUME NEW c \in Callers, CallStep(c) \/ Die(c) PROVE finals' = finals \/ Commit(c) \/ Heal(c) \/ Reopen(c)
    BY <2>1 DEF CallStep, Die, ForceCapture, Claim, Fold, Refuse, AddPlayer, ClearPlan, Regenerate, Drafted,
                Reconcile, DemoteRound, Enter, SetDate, MoveAway, planVars
  <2>2. ASSUME NEW c \in Callers, NEW m \in Matches, Call(c, m) PROVE finals' = finals
    BY <2>2 DEF Call, Notice, StartLive, Check, Arrive, Cancel, Restore, Reschedule, planVars
  <2>3. ASSUME NEW m \in Matches, Kickoff(m) \/ EndLive(m) PROVE finals' = finals
    BY <2>3 DEF Kickoff, EndLive, planVars
  <2> QED
    BY <2>1, <2>2, <2>3 DEF Next, vars, planVars
<1> QED
  BY <1>1, <1>2, <1>3, <1>4, <1>5

\* The baseline of a closed match is not touched by edits, moves, cancellations, other captures or
\* what comes of the round: it changes as BaselineStands says, or when the match is reopened.
THEOREM BaselinesStand == Spec => [][BaselineStands]_vars
BY InitType, TypeStep, BaselineStep, PTL DEF Spec

=============================================================================
