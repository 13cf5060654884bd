----------------------- MODULE FinishReporting_proofs -----------------------
(***************************************************************************)
(* Proofs about FinishReporting: the types, its five invariants, and that  *)
(* it implements HandoffPromise.                                           *)
(***************************************************************************)
EXTENDS FinishReporting, TLAPS

-----------------------------------------------------------------------------
(* What the steps leave alone.  Work is what a finisher does between the   *)
(* compare-and-set and the result.                                         *)

Work(f) ==
    \/ Resolve(f) \/ Look(f) \/ Gather(f) \/ Sift(f) \/ Create(f) \/ Score(f)
    \/ ReadAttendance(f) \/ MarkPresent(f) \/ Rebuild(f)
    \/ \E c \in Categories : CountCategory(f, c) \/ FillCategory(f, c)

Busy(f) == pc[f] \in Working \cup {"revert"}

LEMMA NextCases ==
  ASSUME Next
  PROVE  \/ \E w \in Writes : CheckWrite(w) \/ InsertWrite(w)
         \/ \E f \in Finishers : \/ Begin(f) \/ Claim(f) \/ Await(f) \/ Work(f)
                                 \/ Fail(f) \/ Revert(f) \/ Lose(f)
         \/ Review
BY DEF Next, FinishStep, Work

LEMMA WriteFrame ==
  ASSUME NEW w \in Writes, CheckWrite(w) \/ InsertWrite(w)
  PROVE  /\ rows \subseteq rows' /\ reversed \subseteq reversed'
         /\ UNCHANGED <<session, reportVars, reviewVars, finVars, ghostVars>>
BY DEF CheckWrite, InsertWrite

LEMMA ReviewFrame ==
  ASSUME Review
  PROVE  UNCHANGED <<liveVars, finVars, faults, stranded, atEnd, retried>>
BY DEF Review, SeedFromSquad, EnterScore, AddGoal, ReviewTiming, SubmitDebrief, CheckComplete, Lock,
       Reopen, ReopenDebrief, MarkAttendance, RemoveGoal, Editing, ghostVars

LEMMA WorkFrame ==
  ASSUME NEW f, Work(f)
  PROVE  pc[f] \in Working /\ UNCHANGED <<liveVars, typed, debrief, coach, edits, ghostVars>>
BY DEF Work, Resolve, Look, Gather, Sift, Create, Score, ReadAttendance, MarkPresent, Rebuild,
       CountCategory, FillCategory, Working, reportVars, reviewVars

-----------------------------------------------------------------------------
(* Types.                                                                  *)

Statuses == {"NONE", "DRAFT", "REPORTED", "LOCKED"}
Presence == {"NONE", "UNKNOWN", "PRESENT", "NO_SHOW"}

LiveType ==
    /\ session \in {"ACTIVE", "ENDED"}
    /\ rows \subseteq Events /\ reversed \subseteq Events
    /\ writing \subseteq Writes

ReportType ==
    /\ status \in Statuses
    /\ scoreBy \in {"nobody", "coach", "live"} /\ score \subseteq Events
    /\ copies \in [Events -> Nat]
    /\ typed \in BOOLEAN
    /\ attendance \in Presence

ReviewType ==
    /\ unreviewed \in BOOLEAN
    /\ debrief \in {"DRAFT", "SUBMITTED"}
    /\ coach \in {"free", "completing", "reopening"}
    /\ edits \in 0..MaxEdits

FinType ==
    /\ pc \in [Finishers -> Steps]
    /\ saw \in [Finishers -> [status : Statuses, scoreless : BOOLEAN, attendance : Presence]]
    /\ got \in [Finishers -> SUBSET Events]
    /\ todo \in [Finishers -> SUBSET Categories]

GhostType ==
    /\ faults \in 0..MaxFaults
    /\ stranded \in BOOLEAN /\ retried \in BOOLEAN /\ settled \in BOOLEAN
    /\ atEnd \in [rows : SUBSET Events, reversed : SUBSET Events]

LEMMA TypeParts == TypeOK <=> LiveType /\ ReportType /\ ReviewType /\ FinType /\ GhostType
BY DEF TypeOK, LiveType, ReportType, ReviewType, FinType, GhostType, Statuses, Presence

LEMMA InitType == Init => TypeOK
<1> SUFFICES ASSUME Init PROVE TypeOK
  OBVIOUS
<1> USE FinishAssumption DEF Init
<1>0. 0 \in 0..MaxFaults /\ 0 \in 0..MaxEdits
  <2>1. MaxFaults \in Nat /\ MaxEdits \in Nat
    OBVIOUS
  <2> QED
    BY <2>1
<1>1. LiveType
  BY DEF LiveType, Writes
<1>2. ReportType
  BY DEF ReportType, Statuses, Presence
<1>3. ReviewType
  BY <1>0 DEF ReviewType
<1>4. FinType
  BY DEF FinType, Unread, Steps, Statuses, Presence
<1>5. GhostType
  BY <1>0 DEF GhostType
<1> QED
  BY <1>1, <1>2, <1>3, <1>4, <1>5, TypeParts

LEMMA WriteType ==
  ASSUME TypeOK, NEW w \in Writes, CheckWrite(w) \/ InsertWrite(w)
  PROVE  LiveType'
BY TypeParts DEF LiveType, CheckWrite, InsertWrite, Writes

LEMMA ReviewReportType ==
  ASSUME TypeOK, Review
  PROVE  ReportType'
<1> USE TypeParts DEF ReportType, Statuses, Presence
<1>1. CASE SeedFromSquad
  BY <1>1 DEF SeedFromSquad
<1>2. CASE EnterScore
  BY <1>2 DEF EnterScore
<1>3. CASE AddGoal
  BY <1>3 DEF AddGoal
<1>4. CASE Lock \/ Reopen
  BY <1>4 DEF Lock, Reopen
<1>5. CASE ReviewTiming \/ SubmitDebrief \/ CheckComplete \/ ReopenDebrief
  BY <1>5 DEF ReviewTiming, SubmitDebrief, CheckComplete, ReopenDebrief, reportVars
<1>6. CASE \E a \in {"UNKNOWN", "PRESENT", "NO_SHOW"} : MarkAttendance(a)
  BY <1>6 DEF MarkAttendance
<1>7. ASSUME NEW e \in Events, RemoveGoal(e) PROVE ReportType'
  <2>1. copies[e] \in Nat /\ copies[e] > 0
    BY <1>7 DEF RemoveGoal
  <2>2. copies' \in [Events -> Nat]
    BY <1>7, <2>1 DEF RemoveGoal
  <2> QED
    BY <1>7, <2>2 DEF RemoveGoal
<1> QED
  BY <1>1, <1>2, <1>3, <1>4, <1>5, <1>6, <1>7 DEF Review

LEMMA ReviewReviewType ==
  ASSUME TypeOK, Review
  PROVE  ReviewType' /\ settled' \in BOOLEAN
<1> USE FinishAssumption, TypeParts DEF ReviewType
<1>0. settled \in BOOLEAN
  BY DEF GhostType
<1>1. CASE EnterScore \/ AddGoal \/ (\E a \in {"UNKNOWN", "PRESENT", "NO_SHOW"} : MarkAttendance(a))
           \/ (\E e \in Events : RemoveGoal(e)) \/ Reopen
  <2>1. edits < MaxEdits /\ edits' = edits + 1 /\ UNCHANGED <<unreviewed, debrief, settled>>
        /\ coach' \in {coach, "reopening"}
    BY <1>1 DEF EnterScore, AddGoal, MarkAttendance, RemoveGoal, Reopen, Editing, ghostVars
  <2> QED
    BY <1>0, <2>1
<1>2. CASE SeedFromSquad \/ ReviewTiming \/ SubmitDebrief \/ CheckComplete \/ Lock \/ ReopenDebrief
  BY <1>0, <1>2 DEF SeedFromSquad, ReviewTiming, SubmitDebrief, CheckComplete, Lock, ReopenDebrief,
                    HandoffOver, reviewVars, ghostVars
<1> QED
  BY <1>1, <1>2 DEF Review

LEMMA AddCopiesType ==
  ASSUME TypeOK, NEW S
  PROVE  AddCopies(S) \in [Events -> Nat]
BY TypeParts DEF ReportType, AddCopies

LEMMA OfKindType ==
  ASSUME NEW S \in SUBSET Events, NEW kinds
  PROVE  OfKind(S, kinds) \subseteq S /\ \A e \in OfKind(S, kinds) : Kind[e] \in kinds
BY DEF OfKind

LEMMA FilledType ==
  ASSUME NEW S, NEW kinds \in SUBSET Categories
  PROVE  Filled(S, kinds) \subseteq Categories
BY DEF Filled, OfKind

LEMMA WorkReportType ==
  ASSUME TypeOK, NEW f \in Finishers, Work(f)
  PROVE  ReportType' /\ unreviewed' \in BOOLEAN
<1> USE TypeParts DEF ReportType, ReviewType, Statuses, Presence
<1>0. got[f] \subseteq Events /\ typed' = typed
  BY WorkFrame DEF FinType
<1>1. CASE Create(f)
  <2>1. AddCopies(OfKind(got[f], ReportScoped)) \in [Events -> Nat]
    BY AddCopiesType
  <2>2. OfKind(got[f], {"score"}) \subseteq Events
    BY <1>0, OfKindType
  <2> QED
    BY <1>1, <2>1, <2>2 DEF Create, reviewVars
<1>2. CASE Score(f)
  <2>1. OfKind(got[f], {"score"}) \subseteq Events
    BY <1>0, OfKindType
  <2> QED
    BY <1>2, <2>1 DEF Score, reviewVars
<1>3. CASE MarkPresent(f)
  BY <1>3 DEF MarkPresent, reviewVars
<1>4. ASSUME NEW c \in Categories, FillCategory(f, c) PROVE ReportType' /\ unreviewed' \in BOOLEAN
  <2>1. AddCopies(OfKind(got[f], {c})) \in [Events -> Nat]
    BY AddCopiesType
  <2> QED
    BY <1>4, <2>1 DEF FillCategory, reviewVars
<1>5. CASE Resolve(f)
  BY <1>5 DEF Resolve, reportVars
<1>6. CASE Look(f) \/ Gather(f) \/ Sift(f) \/ ReadAttendance(f) \/ Rebuild(f)
           \/ \E c \in Categories : CountCategory(f, c)
  BY <1>6 DEF Look, Gather, Sift, ReadAttendance, Rebuild, CountCategory, reportVars, reviewVars
<1> QED
  BY <1>1, <1>2, <1>3, <1>4, <1>5, <1>6 DEF Work

LEMMA ForgetType ==
  ASSUME TypeOK, NEW f \in Finishers, Forget(f)
  PROVE  /\ saw' \in [Finishers -> [status : Statuses, scoreless : BOOLEAN, attendance : Presence]]
         /\ got' \in [Finishers -> SUBSET Events]
         /\ todo' \in [Finishers -> SUBSET Categories]
<1>1. Unread \in [status : Statuses, scoreless : BOOLEAN, attendance : Presence]
  BY DEF Unread, Statuses, Presence
<1> QED
  BY <1>1, TypeParts DEF FinType, Forget

LEMMA GotoType ==
  ASSUME TypeOK, NEW f \in Finishers, NEW step \in Steps, Goto(f, step)
  PROVE  pc' \in [Finishers -> Steps]
BY TypeParts DEF FinType, Goto

LEMMA SeedingType ==
  ASSUME TypeOK, NEW f \in Finishers, NEW cats \in SUBSET Categories, Seeding(f, cats)
  PROVE  pc' \in [Finishers -> Steps] /\ todo' \in [Finishers -> SUBSET Categories]
BY TypeParts DEF FinType, Seeding, Goto, Steps, Working

LEMMA SawType ==
  ASSUME TypeOK, NEW f \in Finishers, NEW st \in Statuses, NEW b \in BOOLEAN, NEW a \in Presence
  PROVE  /\ [saw[f] EXCEPT !.status = st, !.scoreless = b] \in
                [status : Statuses, scoreless : BOOLEAN, attendance : Presence]
         /\ [saw[f] EXCEPT !.attendance = a] \in
                [status : Statuses, scoreless : BOOLEAN, attendance : Presence]
BY TypeParts DEF FinType

LEMMA WorkFinType ==
  ASSUME TypeOK, NEW f \in Finishers, Work(f)
  PROVE  FinType'
<1> USE TypeParts DEF FinType
<1>0. Working \subseteq Steps /\ "finished" \in Steps
  BY DEF Steps
<1>1. CASE Resolve(f)
  BY <1>0, <1>1, GotoType DEF Resolve, Working
<1>2. CASE Look(f)
  <2>1. [saw[f] EXCEPT !.status = status, !.scoreless = (scoreBy = "nobody")] \in
            [status : Statuses, scoreless : BOOLEAN, attendance : Presence]
    BY SawType DEF ReportType
  <2>2. saw' = [saw EXCEPT ![f] = [saw[f] EXCEPT !.status = status, !.scoreless = (scoreBy = "nobody")]]
    BY <1>2 DEF Look
  <2>3. pc' \in [Finishers -> Steps]
    BY <1>0, <1>2, GotoType DEF Look, Working
  <2>4. saw' \in [Finishers -> [status : Statuses, scoreless : BOOLEAN, attendance : Presence]]
    BY <2>1, <2>2
  <2> QED
    BY <1>2, <2>3, <2>4 DEF Look
<1>3. CASE Gather(f)
  <2>1. pc' \in [Finishers -> Steps]
    BY <1>0, <1>3, GotoType DEF Gather, Working
  <2> QED
    BY <1>3, <2>1 DEF Gather, LiveType
<1>4. CASE Sift(f)
  <2>1. pc' \in [Finishers -> Steps]
    BY <1>0, <1>4, GotoType DEF Sift, Working
  <2> QED
    BY <1>4, <2>1 DEF Sift, Unreversed
<1>5. CASE Create(f)
  <2>1. \E cats \in SUBSET Categories : Seeding(f, cats)
    BY <1>5, FilledType DEF Create, Categories
  <2> QED
    BY <1>5, <2>1, SeedingType DEF Create
<1>6. CASE Score(f)
  <2>1. pc' \in [Finishers -> Steps]
    BY <1>0, <1>6, GotoType DEF Score, Working
  <2> QED
    BY <1>6, <2>1 DEF Score
<1>7. CASE ReadAttendance(f)
  <2>1. [saw[f] EXCEPT !.attendance = attendance] \in
            [status : Statuses, scoreless : BOOLEAN, attendance : Presence]
    BY SawType DEF ReportType
  <2>2. saw' = [saw EXCEPT ![f] = [saw[f] EXCEPT !.attendance = attendance]]
    BY <1>7 DEF ReadAttendance
  <2>3. pc' \in [Finishers -> Steps]
    BY <1>0, <1>7, GotoType DEF ReadAttendance, Working
  <2> QED
    BY <1>7, <2>1, <2>2, <2>3 DEF ReadAttendance
<1>8. CASE MarkPresent(f)
  <2>1. \E cats \in SUBSET Categories : Seeding(f, cats)
    BY <1>8, FilledType DEF MarkPresent
  <2> QED
    BY <1>8, <2>1, SeedingType DEF MarkPresent
<1>9. CASE Rebuild(f)
  BY <1>0, <1>9, GotoType, ForgetType DEF Rebuild
<1>10. ASSUME NEW c \in Categories, CountCategory(f, c) PROVE FinType'
  <2>1. CASE Goto(f, "fill") /\ UNCHANGED todo
    BY <1>0, <1>10, <2>1, GotoType DEF CountCategory, Working
  <2>2. CASE Seeding(f, todo[f] \ {c})
    <3>1. todo[f] \ {c} \in SUBSET Categories
      OBVIOUS
    <3> QED
      BY <1>10, <2>2, <3>1, SeedingType DEF CountCategory
  <2> QED
    BY <1>10, <2>1, <2>2 DEF CountCategory
<1>11. ASSUME NEW c \in Categories, FillCategory(f, c) PROVE FinType'
  <2>1. todo[f] \ {c} \in SUBSET Categories
    OBVIOUS
  <2> QED
    BY <1>11, <2>1, SeedingType DEF FillCategory
<1> QED
  BY <1>1, <1>2, <1>3, <1>4, <1>5, <1>6, <1>7, <1>8, <1>9, <1>10, <1>11 DEF Work

LEMMA FinishType ==
  ASSUME TypeOK, NEW f \in Finishers,
         Begin(f) \/ Claim(f) \/ Await(f) \/ Fail(f) \/ Revert(f) \/ Lose(f)
  PROVE  session' \in {"ACTIVE", "ENDED"} /\ FinType' /\ GhostType'
<1> USE TypeParts DEF FinType, GhostType, LiveType
<1>1. CASE Begin(f)
  <2>1. pc' \in [Finishers -> Steps]
    BY <1>1, GotoType DEF Begin, Steps
  <2> QED
    BY <1>1, <2>1 DEF Begin, liveVars, ghostVars
<1>2. CASE Claim(f)
  <2>1. pc' \in [Finishers -> Steps]
    BY <1>2, GotoType DEF Claim, Steps, Working
  <2>2. StoredScore \in [rows : SUBSET Events, reversed : SUBSET Events]
    BY DEF StoredScore, OfKind
  <2> QED
    BY <1>2, <2>1, <2>2 DEF Claim
<1>3. CASE Await(f)
  <2>1. pc' \in [Finishers -> Steps]
    BY <1>3, GotoType DEF Await, Steps
  <2> QED
    BY <1>3, <2>1 DEF Await, liveVars, ghostVars
<1>4. CASE Fail(f) \/ Lose(f)
  <2>1. pc' \in [Finishers -> Steps]
    BY <1>4, GotoType DEF Fail, Lose, Steps
  <2>2. faults' \in 0..MaxFaults
    BY <1>4, FinishAssumption DEF Fail, Lose
  <2> QED
    BY <1>4, <2>1, <2>2, ForgetType DEF Fail, Lose, liveVars
<1>5. CASE Revert(f)
  <2>1. pc' \in [Finishers -> Steps]
    BY <1>5, GotoType DEF Revert, Steps
  <2>2. retried' \in BOOLEAN
    BY <1>5 DEF Revert
  <2> QED
    BY <1>5, <2>1, <2>2 DEF Revert
<1> QED
  BY <1>1, <1>2, <1>3, <1>4, <1>5

LEMMA TypeStep == TypeOK /\ [Next]_vars => TypeOK'
<1> SUFFICES ASSUME TypeOK, [Next]_vars PROVE TypeOK'
  OBVIOUS
<1>0. LiveType /\ ReportType /\ ReviewType /\ FinType /\ GhostType
  BY TypeParts
<1> DEFINE Goal == LiveType' /\ ReportType' /\ ReviewType' /\ FinType' /\ GhostType'
<1>1. Goal => TypeOK'
  BY DEF TypeOK, LiveType, ReportType, ReviewType, FinType, GhostType, Statuses, Presence
<1>2. CASE UNCHANGED vars
  BY <1>0, <1>1, <1>2 DEF LiveType, ReportType, ReviewType, FinType, GhostType, vars, liveVars,
                          reportVars, reviewVars, finVars, ghostVars
<1>3. ASSUME NEW w \in Writes, CheckWrite(w) \/ InsertWrite(w) PROVE Goal
  BY <1>0, <1>3, WriteType, WriteFrame DEF ReportType, ReviewType, FinType, GhostType, reportVars,
                                           reviewVars, finVars, ghostVars
<1>4. ASSUME NEW f \in Finishers, Work(f) PROVE Goal
  BY <1>0, <1>4, WorkFrame, WorkReportType, WorkFinType
  DEF LiveType, ReviewType, GhostType, liveVars, ghostVars
<1>5. ASSUME NEW f \in Finishers, Begin(f) \/ Claim(f) \/ Await(f) \/ Fail(f) \/ Revert(f) \/ Lose(f)
      PROVE Goal
  <2>1. UNCHANGED <<rows, reversed, writing, reportVars, reviewVars>>
    BY <1>5 DEF Begin, Claim, Await, Fail, Revert, Lose, liveVars
  <2> QED
    BY <1>0, <1>5, <2>1, FinishType DEF LiveType, ReportType, ReviewType, reportVars, reviewVars
<1>6. CASE Review
  <2>1. UNCHANGED <<liveVars, finVars, faults, stranded, atEnd, retried>>
    BY <1>6, ReviewFrame
  <2>2. LiveType' /\ FinType'
    BY <1>0, <2>1 DEF LiveType, FinType, liveVars, finVars
  <2>3. ReportType' /\ ReviewType' /\ settled' \in BOOLEAN
    BY <1>6, ReviewReportType, ReviewReviewType
  <2>4. GhostType'
    BY <1>0, <2>1, <2>3 DEF GhostType
  <2> QED
    BY <1>1, <2>2, <2>3, <2>4
<1> HIDE DEF Goal
<1> QED
  BY <1>1, <1>2, <1>3, <1>4, <1>5, <1>6, NextCases

\* The variables have their types in every state of every behaviour.
THEOREM TypeCorrect == Spec => []TypeOK
BY InitType, TypeStep, PTL DEF Spec

-----------------------------------------------------------------------------
(* One finisher at a time is past the compare-and-set, the session is      *)
(* ended while it is, and from its create or merge on there is a report.   *)
(* Whoever finished did so with nobody else at it.                         *)

OneBusy == \A f, g \in Finishers : Busy(f) /\ Busy(g) => f = g

BusyEnds == \A f \in Finishers : Busy(f) => session = "ENDED"

FinishedAlone ==
    \A f \in Finishers : pc[f] = "finished" => session = "ENDED" /\ \A g \in Finishers : ~Busy(g)

AfterReport == {"score", "attend", "mark", "count", "fill", "rebuild", "finished"}

ReportThere ==
    \A f \in Finishers : pc[f] \in AfterReport \/ saw[f].status # "NONE" => status # "NONE"

SessionInv ==
    /\ TypeOK /\ OneBusy /\ BusyEnds /\ FinishedAlone /\ ReportThere /\ EndedMeansReported

LEMMA InitSession == Init => SessionInv
<1> SUFFICES ASSUME Init PROVE SessionInv
  OBVIOUS
<1>1. \A f \in Finishers : pc[f] = "idle" /\ saw[f].status = "NONE"
  BY DEF Init, Unread
<1> QED
  BY <1>1, InitType DEF Init, SessionInv, OneBusy, BusyEnds, FinishedAlone, ReportThere, AfterReport,
                        EndedMeansReported, HandoffOver, Busy, Working

\* Where work leads.
LEMMA WorkMoves ==
  ASSUME TypeOK, NEW f \in Finishers, Work(f)
  PROVE  /\ pc'[f] \in Working \cup {"finished"}
         /\ pc'[f] = "finished" => pc[f] = "rebuild"
         /\ \A g \in Finishers : g # f => /\ pc'[g] = pc[g] /\ saw'[g] = saw[g]
                                         /\ got'[g] = got[g] /\ todo'[g] = todo[g]
<1> USE TypeParts DEF FinType, Working, Goto
<1>1. CASE Resolve(f)
  BY <1>1 DEF Resolve
<1>2. CASE Look(f)
  BY <1>2 DEF Look
<1>3. CASE Gather(f)
  BY <1>3 DEF Gather
<1>4. CASE Sift(f)
  BY <1>4 DEF Sift
<1>5. CASE Create(f)
  BY <1>5 DEF Create, Seeding
<1>6. CASE Score(f)
  BY <1>6 DEF Score
<1>7. CASE ReadAttendance(f)
  BY <1>7 DEF ReadAttendance
<1>8. CASE MarkPresent(f)
  BY <1>8 DEF MarkPresent, Seeding
<1>9. CASE Rebuild(f)
  BY <1>9 DEF Rebuild, Forget
<1>10. ASSUME NEW c \in Categories, CountCategory(f, c) \/ FillCategory(f, c)
       PROVE /\ pc'[f] \in Working \cup {"finished"}
             /\ pc'[f] = "finished" => pc[f] = "rebuild"
             /\ \A g \in Finishers : g # f => /\ pc'[g] = pc[g] /\ saw'[g] = saw[g]
                                             /\ got'[g] = got[g] /\ todo'[g] = todo[g]
  BY <1>10 DEF CountCategory, FillCategory, Seeding
<1> QED
  BY <1>1, <1>2, <1>3, <1>4, <1>5, <1>6, <1>7, <1>8, <1>9, <1>10 DEF Work

\* A report never disappears, and whoever gets past its create or merge has it.
LEMMA WorkReports ==
  ASSUME TypeOK, ReportThere, NEW f \in Finishers, Work(f)
  PROVE  /\ status # "NONE" => status' # "NONE"
         /\ pc'[f] \in AfterReport \/ saw'[f].status # "NONE" => status' # "NONE"
<1> USE TypeParts DEF FinType, ReportThere, AfterReport, Goto
<1>1. CASE Resolve(f)
  BY <1>1 DEF Resolve, reportVars
<1>2. CASE Look(f)
  <2>1. saw'[f].status = status /\ status' = status
    BY <1>2 DEF Look, reportVars
  <2>2. pc'[f] = IF status \in {"REPORTED", "LOCKED"} THEN "rebuild" ELSE "gather"
    BY <1>2 DEF Look
  <2> QED
    BY <2>1, <2>2
<1>3. CASE Gather(f)
  BY <1>3 DEF Gather, reportVars
<1>4. CASE Sift(f)
  BY <1>4 DEF Sift, reportVars
<1>5. CASE Create(f)
  BY <1>5 DEF Create
<1>6. CASE Score(f)
  BY <1>6 DEF Score
<1>7. CASE ReadAttendance(f)
  BY <1>7 DEF ReadAttendance, reportVars
<1>8. CASE MarkPresent(f)
  BY <1>8 DEF MarkPresent
<1>9. CASE Rebuild(f)
  BY <1>9 DEF Rebuild, reportVars
<1>10. ASSUME NEW c \in Categories, CountCategory(f, c) \/ FillCategory(f, c)
       PROVE status # "NONE" /\ status' = status
  BY <1>10 DEF CountCategory, FillCategory, reportVars
<1> QED
  BY <1>1, <1>2, <1>3, <1>4, <1>5, <1>6, <1>7, <1>8, <1>9, <1>10 DEF Work

LEMMA WorkSession ==
  ASSUME SessionInv, TypeOK', NEW f \in Finishers, Work(f)
  PROVE  SessionInv'
<1>0. TypeOK /\ session' = session /\ stranded' = stranded /\ Busy(f) /\ session = "ENDED"
  BY WorkFrame DEF SessionInv, BusyEnds, Busy, liveVars, ghostVars
<1>1. \A g \in Finishers : g # f => ~Busy(g) /\ pc[g] # "finished" /\ pc'[g] = pc[g] /\ saw'[g] = saw[g]
  BY <1>0, WorkMoves DEF SessionInv, OneBusy, FinishedAlone
<1>2. \A g \in Finishers : g # f => ~Busy(g)' /\ pc'[g] # "finished"
  BY <1>1 DEF Busy
<1>3. pc'[f] \in Working \/ pc'[f] = "finished"
  BY <1>0, WorkMoves
<1>4. pc'[f] = "finished" => ~Busy(f)'
  BY DEF Busy, Working
<1>5. OneBusy' /\ BusyEnds' /\ FinishedAlone'
  BY <1>0, <1>2, <1>4 DEF OneBusy, BusyEnds, FinishedAlone
<1>6. ReportThere'
  BY <1>0, <1>1, WorkReports DEF SessionInv, ReportThere
<1>7. EndedMeansReported'
  <2>1. CASE pc'[f] \in Working
    BY <2>1 DEF EndedMeansReported, HandoffOver
  <2>2. CASE pc'[f] = "finished"
    BY <1>6, <2>2 DEF ReportThere, AfterReport, EndedMeansReported
  <2> QED
    BY <1>3, <2>1, <2>2
<1> QED
  BY <1>5, <1>6, <1>7 DEF SessionInv

\* The other steps of a finisher.
LEMMA FinishSession ==
  ASSUME SessionInv, TypeOK', NEW f \in Finishers,
         Begin(f) \/ Claim(f) \/ Await(f) \/ Fail(f) \/ Revert(f) \/ Lose(f)
  PROVE  SessionInv'
<1>0. TypeOK /\ status' = status
  BY DEF SessionInv, Begin, Claim, Await, Fail, Revert, Lose, reportVars
<1>1. \A g \in Finishers : g # f => pc'[g] = pc[g] /\ saw'[g] = saw[g]
  BY <1>0, TypeParts DEF FinType, Begin, Claim, Await, Fail, Revert, Lose, Goto, Forget
<1>2. saw'[f].status \in {saw[f].status, "NONE"}
  BY <1>0, TypeParts DEF FinType, Begin, Claim, Await, Fail, Revert, Lose, Goto, Forget, Unread
<1>3. pc'[f] \in {"idle", "claim", "await", "resolve", "revert"}
  BY <1>0, TypeParts DEF FinType, Begin, Claim, Await, Fail, Revert, Lose, Goto
<1>4. ReportThere'
  BY <1>0, <1>1, <1>2, <1>3 DEF SessionInv, ReportThere, AfterReport
<1>5. CASE ~Busy(f) /\ ~Busy(f)' /\ UNCHANGED <<session, stranded>>
  <2>1. \A g \in Finishers : Busy(g)' <=> Busy(g)
    BY <1>1, <1>5 DEF Busy
  <2>2. \A g \in Finishers : pc'[g] = "finished" => pc[g] = "finished"
    BY <1>1, <1>3
  <2>3. OneBusy' /\ BusyEnds' /\ FinishedAlone'
    BY <1>5, <2>1, <2>2 DEF SessionInv, OneBusy, BusyEnds, FinishedAlone
  <2>4. HandoffOver' <=> HandoffOver
    BY <1>5, <2>1 DEF HandoffOver, Busy
  <2> QED
    BY <1>0, <1>4, <1>5, <2>3, <2>4 DEF SessionInv, EndedMeansReported
<1>6. CASE Begin(f) \/ Await(f)
  <2>1. ~Busy(f) /\ ~Busy(f)' /\ UNCHANGED <<session, stranded>>
    BY <1>0, <1>6, TypeParts DEF FinType, Begin, Await, Goto, Busy, Working, liveVars, ghostVars
  <2> QED
    BY <1>5, <2>1
<1>7. CASE Claim(f)
  <2>1. CASE session = "ACTIVE"
    <3>1. pc'[f] = "resolve" /\ session' = "ENDED" /\ stranded' = stranded
      BY <1>0, <1>7, <2>1, TypeParts DEF FinType, Claim, Goto
    <3>2. \A g \in Finishers : g # f => ~Busy(g)' /\ pc'[g] # "finished"
      BY <1>1, <2>1 DEF SessionInv, BusyEnds, FinishedAlone, Busy
    <3>3. OneBusy' /\ BusyEnds' /\ FinishedAlone'
      BY <3>1, <3>2 DEF OneBusy, BusyEnds, FinishedAlone
    <3>4. EndedMeansReported'
      BY <3>1 DEF EndedMeansReported, HandoffOver, Working
    <3> QED
      BY <1>4, <3>3, <3>4 DEF SessionInv
  <2>2. CASE session # "ACTIVE"
    <3>1. ~Busy(f) /\ ~Busy(f)' /\ UNCHANGED <<session, stranded>>
      BY <1>0, <1>7, <2>2, TypeParts DEF FinType, Claim, Goto, Busy, Working
    <3> QED
      BY <1>5, <3>1
  <2> QED
    BY <2>1, <2>2
<1>8. CASE Fail(f) \/ Revert(f) \/ Lose(f)
  <2>1. Busy(f) /\ session = "ENDED" /\ \A g \in Finishers : pc[g] # "finished"
    BY <1>8 DEF Fail, Revert, Lose, SessionInv, BusyEnds, FinishedAlone, Busy
  <2>2. \A g \in Finishers : g # f => ~Busy(g)' /\ pc'[g] # "finished"
    BY <1>1, <2>1 DEF SessionInv, OneBusy, Busy
  <2>3. pc'[f] # "finished"
    BY <1>3
  <2>4. OneBusy' /\ FinishedAlone'
    BY <2>2, <2>3 DEF OneBusy, FinishedAlone
  <2>5. CASE Fail(f)
    <3>1. session' = session /\ pc'[f] = "revert"
      BY <1>0, <2>5, TypeParts DEF FinType, Fail, Goto, liveVars
    <3> QED
      BY <1>4, <2>1, <2>2, <2>4, <3>1 DEF SessionInv, BusyEnds, EndedMeansReported, HandoffOver
  <2>6. CASE Revert(f)
    <3>1. session' = "ACTIVE" /\ pc'[f] = "idle"
      BY <1>0, <2>1, <2>6, TypeParts DEF FinType, Revert, Goto
    <3> QED
      BY <1>4, <2>2, <2>4, <3>1
      DEF SessionInv, BusyEnds, EndedMeansReported, HandoffOver, Busy, Working
  <2>7. CASE Lose(f)
    <3>1. stranded' /\ session' = session
      BY <2>7 DEF Lose, liveVars
    <3> QED
      BY <1>4, <2>1, <2>4, <3>1 DEF SessionInv, BusyEnds, EndedMeansReported
  <2> QED
    BY <1>8, <2>5, <2>6, <2>7
<1> QED
  BY <1>6, <1>7, <1>8

LEMMA SessionFrame ==
  ASSUME SessionInv, TypeOK', UNCHANGED <<session, pc, saw, stranded>>,
         status # "NONE" => status' # "NONE"
  PROVE  SessionInv'
BY DEF SessionInv, OneBusy, BusyEnds, FinishedAlone, ReportThere, EndedMeansReported, HandoffOver, Busy

LEMMA ReviewKeepsReport ==
  ASSUME TypeOK, Review
  PROVE  status # "NONE" => status' # "NONE"
BY DEF Review, SeedFromSquad, EnterScore, AddGoal, ReviewTiming, SubmitDebrief, CheckComplete, Lock,
       Reopen, ReopenDebrief, MarkAttendance, RemoveGoal, Editing, reportVars

LEMMA SessionStep == SessionInv /\ [Next]_vars => SessionInv'
<1> SUFFICES ASSUME SessionInv, [Next]_vars PROVE SessionInv'
  OBVIOUS
<1>0. TypeOK /\ TypeOK'
  BY TypeStep DEF SessionInv
<1>1. CASE UNCHANGED vars
  BY <1>0, <1>1, SessionFrame DEF vars, liveVars, reportVars, finVars, ghostVars
<1>2. ASSUME NEW w \in Writes, CheckWrite(w) \/ InsertWrite(w) PROVE SessionInv'
  BY <1>0, <1>2, WriteFrame, SessionFrame DEF reportVars, finVars, ghostVars
<1>3. ASSUME NEW f \in Finishers, Begin(f) \/ Claim(f) \/ Await(f) \/ Fail(f) \/ Revert(f) \/ Lose(f)
      PROVE SessionInv'
  BY <1>0, <1>3, FinishSession
<1>4. ASSUME NEW f \in Finishers, Work(f) PROVE SessionInv'
  BY <1>0, <1>4, WorkSession
<1>5. CASE Review
  BY <1>0, <1>5, ReviewFrame, ReviewKeepsReport, SessionFrame DEF liveVars, finVars
<1> QED
  BY <1>1, <1>2, <1>3, <1>4, <1>5, NextCases

\* Whoever was told that the match is finished can rely on it.
THEOREM FinishHolds == Spec => []FinishedStaysFinished
<1>1. SessionInv => FinishedStaysFinished
  BY DEF SessionInv, FinishedAlone, ReportThere, AfterReport, FinishedStaysFinished
<1> QED
  BY <1>1, InitSession, SessionStep, PTL DEF Spec

\* A session is ended without a report only while somebody works on it, or after a crash or a
\* failed revert.
THEOREM EndedReported == Spec => []EndedMeansReported
<1>1. SessionInv => EndedMeansReported
  BY DEF SessionInv
<1> QED
  BY <1>1, InitSession, SessionStep, PTL DEF Spec

-----------------------------------------------------------------------------
(* Nothing is seeded twice: between the count of a table and the filling   *)
(* of it nobody else adds a live event to it.                              *)

NothingYet == status = "NONE" => \A e \in Events : copies[e] = 0

StillEmpty ==
    \A f \in Finishers : \A c \in Categories :
        pc[f] = "fill" /\ First(c, todo[f]) => \A e \in Events : Kind[e] = c => copies[e] = 0

SeedInv == SessionInv /\ NothingYet /\ StillEmpty /\ NothingSeededTwice

LEMMA InitSeed == Init => SeedInv
BY InitSession DEF Init, SeedInv, NothingYet, StillEmpty, NothingSeededTwice

\* Copies that only shrink are harmless.
LEMMA SeedFrame ==
  ASSUME SeedInv, TypeOK', \A e \in Events : copies'[e] <= copies[e],
         \A f \in Finishers : pc'[f] = "fill" => pc[f] = "fill" /\ todo'[f] = todo[f],
         status' = "NONE" => status = "NONE"
  PROVE  NothingYet' /\ StillEmpty' /\ NothingSeededTwice'
<1>1. \A e \in Events : copies[e] \in Nat /\ copies'[e] \in Nat
  BY DEF SeedInv, SessionInv, TypeOK
<1>2. \A e \in Events : copies[e] = 0 => copies'[e] = 0
  BY <1>1
<1>3. \A e \in Events : copies[e] <= 1 => copies'[e] <= 1
  BY <1>1
<1>4. NothingYet' /\ NothingSeededTwice'
  BY <1>2, <1>3 DEF SeedInv, NothingYet, NothingSeededTwice
<1>5. StillEmpty'
  BY <1>2 DEF SeedInv, StillEmpty, First
<1> QED
  BY <1>4, <1>5

LEMMA WorkSeed ==
  ASSUME SeedInv, TypeOK', NEW f \in Finishers, Work(f)
  PROVE  NothingYet' /\ StillEmpty' /\ NothingSeededTwice'
<1>0. TypeOK /\ SessionInv /\ ReportThere
  BY DEF SeedInv, SessionInv
<1>1. \A g \in Finishers : g # f => pc'[g] # "fill"
  <2>1. \A g \in Finishers : g # f => ~Busy(g) /\ pc'[g] = pc[g]
    BY <1>0, WorkFrame, WorkMoves DEF SessionInv, OneBusy, Busy
  <2> QED
    BY <2>1 DEF Busy, Working
<1>2. status # "NONE" => status' # "NONE"
  BY <1>0, WorkReports
<1>3. \A e \in Events : copies[e] \in Nat
  BY <1>0 DEF TypeOK
<1>4. CASE Create(f)
  <2>1. pc'[f] # "fill"
    BY <1>0, <1>4, TypeParts DEF FinType, Create, Seeding, Goto
  <2>2. CASE status = "NONE"
    <3>1. \A e \in Events : copies'[e] \in {0, 1} /\ status' # "NONE"
      BY <1>3, <1>4, <2>2 DEF Create, AddCopies, SeedInv, NothingYet
    <3> QED
      BY <1>1, <2>1, <3>1 DEF NothingYet, StillEmpty, NothingSeededTwice
  <2>3. CASE status # "NONE"
    <3>1. copies' = copies
      BY <1>4, <2>3 DEF Create
    <3> QED
      BY <1>1, <1>2, <1>3, <2>1, <3>1, SeedFrame
  <2> QED
    BY <2>2, <2>3
<1>5. ASSUME NEW c \in Categories, CountCategory(f, c)
      PROVE NothingYet' /\ StillEmpty' /\ NothingSeededTwice'
  <2>1. copies' = copies /\ status' = status
    BY <1>5 DEF CountCategory, reportVars
  <2>2. CASE Empty(c)
    <3>1. todo' = todo
      BY <1>5, <2>2 DEF CountCategory
    <3>2. \A d \in Categories : First(d, todo[f]) => d = c
      BY <1>5 DEF CountCategory, First, Categories, ReportScoped, MatchScoped, Rank
    <3>3. StillEmpty'
      BY <1>1, <2>1, <2>2, <3>1, <3>2 DEF StillEmpty, Empty
    <3> QED
      BY <2>1, <3>3 DEF SeedInv, NothingYet, NothingSeededTwice
  <2>3. CASE ~Empty(c)
    <3>1. pc'[f] # "fill"
      BY <1>0, <1>5, <2>3, TypeParts DEF FinType, CountCategory, Seeding, Goto
    <3> QED
      BY <1>1, <1>3, <2>1, <3>1, SeedFrame
  <2> QED
    BY <2>2, <2>3
<1>6. ASSUME NEW c \in Categories, FillCategory(f, c)
      PROVE NothingYet' /\ StillEmpty' /\ NothingSeededTwice'
  <2>1. pc'[f] # "fill" /\ status' = status /\ status # "NONE"
    BY <1>0, <1>6, TypeParts DEF FinType, FillCategory, Seeding, Goto, ReportThere, AfterReport
  <2>2. \A e \in Events : Kind[e] = c => copies[e] = 0
    BY <1>6 DEF FillCategory, SeedInv, StillEmpty
  <2>3. \A e \in Events : copies'[e] = IF e \in OfKind(got[f], {c}) THEN copies[e] + 1 ELSE copies[e]
    BY <1>6 DEF FillCategory, AddCopies
  <2>4. \A e \in Events : e \in OfKind(got[f], {c}) => Kind[e] = c
    BY DEF OfKind
  <2>5. ASSUME NEW e \in Events PROVE copies'[e] <= 1
    <3>1. CASE e \in OfKind(got[f], {c})
      <4>1. copies[e] = 0 /\ copies'[e] = copies[e] + 1
        BY <2>2, <2>3, <2>4, <3>1
      <4> QED
        BY <4>1
    <3>2. CASE e \notin OfKind(got[f], {c})
      BY <2>3, <3>2 DEF SeedInv, NothingSeededTwice
    <3> QED
      BY <3>1, <3>2
  <2> QED
    BY <1>1, <2>1, <2>5 DEF NothingYet, StillEmpty, NothingSeededTwice
<1>7. CASE Resolve(f) \/ Look(f) \/ Gather(f) \/ Sift(f) \/ Score(f) \/ ReadAttendance(f)
           \/ MarkPresent(f) \/ Rebuild(f)
  <2>1. copies' = copies
    BY <1>7 DEF Resolve, Look, Gather, Sift, Score, ReadAttendance, MarkPresent, Rebuild, reportVars
  <2>2. pc'[f] # "fill"
    BY <1>0, <1>7, TypeParts DEF FinType, Resolve, Look, Gather, Sift, Score, ReadAttendance,
                                 MarkPresent, Rebuild, Seeding, Goto
  <2> QED
    BY <1>1, <1>2, <1>3, <2>1, <2>2, SeedFrame
<1> QED
  BY <1>4, <1>5, <1>6, <1>7 DEF Work

LEMMA OtherSeed ==
  ASSUME SeedInv, TypeOK', NEW f \in Finishers,
         Begin(f) \/ Claim(f) \/ Await(f) \/ Fail(f) \/ Revert(f) \/ Lose(f)
  PROVE  NothingYet' /\ StillEmpty' /\ NothingSeededTwice'
<1>0. TypeOK
  BY DEF SeedInv, SessionInv
<1>1. copies' = copies /\ status' = status
  BY DEF Begin, Claim, Await, Fail, Revert, Lose, reportVars
<1>2. \A g \in Finishers : pc'[g] = "fill" => pc[g] = "fill" /\ todo'[g] = todo[g]
  BY <1>0, TypeParts DEF FinType, Begin, Claim, Await, Fail, Revert, Lose, Goto, Forget
<1>3. \A e \in Events : copies[e] \in Nat
  BY <1>0 DEF TypeOK
<1> QED
  BY <1>1, <1>2, <1>3, SeedFrame

\* The coach only removes what was derived.
LEMMA ReviewShrinks ==
  ASSUME TypeOK, Review
  PROVE  \A e \in Events : copies'[e] <= copies[e]
<1>0. \A e \in Events : copies[e] \in Nat
  BY DEF TypeOK
<1>1. ASSUME NEW d \in Events, RemoveGoal(d) PROVE \A e \in Events : copies'[e] <= copies[e]
  <2>1. \A e \in Events : copies'[e] = IF e = d THEN copies[d] - 1 ELSE copies[e]
    BY <1>1 DEF TypeOK, RemoveGoal
  <2> QED
    BY <1>0, <2>1
<1>2. CASE ~\E d \in Events : RemoveGoal(d)
  <2>1. copies' = copies
    BY <1>2 DEF Review, SeedFromSquad, EnterScore, AddGoal, ReviewTiming, SubmitDebrief, CheckComplete,
                Lock, Reopen, ReopenDebrief, MarkAttendance, reportVars
  <2> QED
    BY <1>0, <2>1
<1> QED
  BY <1>1, <1>2

LEMMA ReviewSeed ==
  ASSUME SeedInv, TypeOK', Review
  PROVE  NothingYet' /\ StillEmpty' /\ NothingSeededTwice'
<1>0. TypeOK /\ pc' = pc /\ todo' = todo
  BY ReviewFrame DEF SeedInv, SessionInv, finVars
<1>1. \A e \in Events : copies'[e] <= copies[e]
  BY <1>0, ReviewShrinks
<1>2. status # "NONE" => status' # "NONE"
  BY <1>0, ReviewKeepsReport
<1> QED
  BY <1>0, <1>1, <1>2, SeedFrame

LEMMA SeedStep == SeedInv /\ [Next]_vars => SeedInv'
<1> SUFFICES ASSUME SeedInv, [Next]_vars PROVE SeedInv'
  OBVIOUS
<1>0. SessionInv' /\ TypeOK' /\ \A e \in Events : copies[e] \in Nat
  BY SessionStep DEF SeedInv, SessionInv, TypeOK
<1>1. CASE UNCHANGED <<copies, pc, todo, status>>
  BY <1>0, <1>1, SeedFrame DEF SeedInv
<1>2. CASE UNCHANGED vars
  BY <1>1, <1>2 DEF vars, reportVars, finVars
<1>3. ASSUME NEW w \in Writes, CheckWrite(w) \/ InsertWrite(w) PROVE SeedInv'
  BY <1>1, <1>3, WriteFrame DEF reportVars, finVars
<1>4. ASSUME NEW f \in Finishers, Begin(f) \/ Claim(f) \/ Await(f) \/ Fail(f) \/ Revert(f) \/ Lose(f)
      PROVE SeedInv'
  BY <1>0, <1>4, OtherSeed DEF SeedInv
<1>5. ASSUME NEW f \in Finishers, Work(f) PROVE SeedInv'
  BY <1>0, <1>5, WorkSeed DEF SeedInv
<1>6. CASE Review
  BY <1>0, <1>6, ReviewSeed DEF SeedInv
<1> QED
  BY <1>2, <1>3, <1>4, <1>5, <1>6, NextCases

\* No live event is turned into two rows of the report, however often a finish is retried.
THEOREM SeededOnce == Spec => []NothingSeededTwice
<1>1. SeedInv => NothingSeededTwice
  BY DEF SeedInv
<1> QED
  BY <1>1, InitSeed, SeedStep, PTL DEF Spec

-----------------------------------------------------------------------------
(* A lock checked after the handoff.  Once the handoff is over it stays    *)
(* over, so nothing but the coach touches what the check has read, and the *)
(* coach touches it only in a report that is not locked.                   *)

ReopeningUnlocked == coach = "reopening" => status \in {"DRAFT", "REPORTED"}

CheckStands ==
    settled /\ (coach = "completing" \/ status = "LOCKED") =>
        HandoffOver /\ attendance # "UNKNOWN" /\ ~unreviewed /\ debrief = "SUBMITTED"

LockInv == TypeOK /\ ReopeningUnlocked /\ CheckStands

\* No finisher starts work on a session that is ended.
LEMMA HandoffStaysOver ==
  ASSUME TypeOK, HandoffOver, [Next]_vars
  PROVE  HandoffOver' /\ \A f \in Finishers : ~Work(f) /\ ~Fail(f) /\ ~Revert(f) /\ ~Lose(f)
<1>1. \A f \in Finishers : ~Work(f) /\ ~Fail(f) /\ ~Revert(f) /\ ~Lose(f)
  BY WorkFrame DEF HandoffOver, Fail, Revert, Lose
<1>2. CASE UNCHANGED <<session, pc>>
  BY <1>1, <1>2 DEF HandoffOver
<1>3. ASSUME NEW f \in Finishers, Begin(f) \/ Claim(f) \/ Await(f) PROVE HandoffOver'
  <2>1. session' = session /\ session = "ENDED"
    BY <1>3 DEF HandoffOver, Begin, Claim, Await, liveVars
  <2>2. pc'[f] \in {"await", "idle"} /\ \A g \in Finishers : g # f => pc'[g] = pc[g]
    BY <1>3, <2>1, TypeParts DEF FinType, Begin, Claim, Await, Goto
  <2> QED
    BY <2>1, <2>2 DEF HandoffOver, Working
<1>4. UNCHANGED <<session, pc>> \/ \E f \in Finishers : Begin(f) \/ Claim(f) \/ Await(f)
  BY <1>1, NextCases, WriteFrame, ReviewFrame DEF vars, liveVars, finVars
<1> QED
  BY <1>1, <1>2, <1>3, <1>4

LEMMA InitLock == Init => LockInv
BY InitType DEF Init, LockInv, ReopeningUnlocked, CheckStands

LEMMA WorkStatus ==
  ASSUME NEW f \in Finishers, Work(f)
  PROVE  status' = status \/ status' = "DRAFT"
BY DEF Work, Resolve, Look, Gather, Sift, Create, Score, ReadAttendance, MarkPresent, Rebuild,
       CountCategory, FillCategory, reportVars

LEMMA LockReview ==
  ASSUME LockInv, TypeOK', Review, HandoffOver => HandoffOver'
  PROVE  ReopeningUnlocked' /\ CheckStands'
<1> USE DEF LockInv, ReopeningUnlocked, CheckStands
<1>1. CASE EnterScore \/ AddGoal \/ (\E e \in Events : RemoveGoal(e))
           \/ (\E a \in {"UNKNOWN", "PRESENT", "NO_SHOW"} : MarkAttendance(a))
  <2>1. coach = "free" /\ status # "LOCKED" /\ status' = status /\ coach' = coach
    BY <1>1 DEF EnterScore, AddGoal, RemoveGoal, MarkAttendance, Editing
  <2> QED
    BY <2>1
<1>2. CASE SeedFromSquad
  BY <1>2 DEF SeedFromSquad, reviewVars
<1>3. CASE ReviewTiming \/ SubmitDebrief
  BY <1>3 DEF ReviewTiming, SubmitDebrief, reportVars, ghostVars
<1>4. CASE CheckComplete
  <2>1. settled' = HandoffOver /\ coach' = "completing" /\ attendance # "UNKNOWN" /\ ~unreviewed
        /\ debrief = "SUBMITTED" /\ UNCHANGED <<attendance, unreviewed, debrief>>
    BY <1>4 DEF CheckComplete, reportVars
  <2> QED
    BY <2>1
<1>5. CASE Lock
  BY <1>5 DEF Lock, ghostVars
<1>6. CASE Reopen
  BY <1>6 DEF Reopen
<1>7. CASE ReopenDebrief
  BY <1>7 DEF ReopenDebrief, reportVars
<1> QED
  BY <1>1, <1>2, <1>3, <1>4, <1>5, <1>6, <1>7 DEF Review

LEMMA LockStep == LockInv /\ [Next]_vars => LockInv'
<1> SUFFICES ASSUME LockInv, [Next]_vars PROVE LockInv'
  OBVIOUS
<1>0. TypeOK /\ TypeOK'
  BY TypeStep DEF LockInv
<1>1. HandoffOver => HandoffOver' /\ \A f \in Finishers : ~Work(f)
  BY <1>0, HandoffStaysOver
<1>2. CASE UNCHANGED <<status, attendance, unreviewed, debrief, coach, settled>>
  BY <1>0, <1>1, <1>2 DEF LockInv, ReopeningUnlocked, CheckStands
<1>3. CASE UNCHANGED vars
  BY <1>2, <1>3 DEF vars, reportVars, reviewVars, ghostVars
<1>4. ASSUME NEW w \in Writes, CheckWrite(w) \/ InsertWrite(w) PROVE LockInv'
  BY <1>2, <1>4, WriteFrame DEF reportVars, reviewVars, ghostVars
<1>5. ASSUME NEW f \in Finishers, Begin(f) \/ Claim(f) \/ Await(f) \/ Fail(f) \/ Revert(f) \/ Lose(f)
      PROVE LockInv'
  BY <1>2, <1>5 DEF Begin, Claim, Await, Fail, Revert, Lose, reportVars, reviewVars, ghostVars
<1>6. ASSUME NEW f \in Finishers, Work(f) PROVE LockInv'
  <2>1. ~HandoffOver /\ coach' = coach /\ settled' = settled /\ (status' = status \/ status' = "DRAFT")
    BY <1>1, <1>6, WorkFrame, WorkStatus DEF ghostVars
  <2> QED
    BY <1>0, <2>1 DEF LockInv, ReopeningUnlocked, CheckStands
<1>7. CASE Review
  BY <1>0, <1>1, <1>7, LockReview DEF LockInv
<1> QED
  BY <1>3, <1>4, <1>5, <1>6, <1>7, NextCases

\* A report locked by a check made after the handoff was over rests on known attendance, reviewed
\* timing and a submitted debrief.
THEOREM LocksReviewed == Spec => []LockedAfterHandoffIsReviewed
<1>1. LockInv => LockedAfterHandoffIsReviewed
  BY DEF LockInv, CheckStands, LockedAfterHandoffIsReviewed
<1> QED
  BY <1>1, InitLock, LockStep, PTL DEF Spec

-----------------------------------------------------------------------------
(* The score of the ended match.  The rows are read first and the          *)
(* reversals after them, both after the session was ended: what was stored *)
(* by then is in, what was reversed by then is out.                        *)

EndBehind ==
    /\ atEnd.rows \subseteq rows /\ atEnd.reversed \subseteq reversed
    /\ \A e \in atEnd.rows : Kind[e] = "score"

Counted(S) == atEnd.rows \ reversed \subseteq S /\ S \cap atEnd.reversed = {}

ReadsEnough ==
    \A f \in Finishers :
        /\ pc[f] = "sift" => atEnd.rows \subseteq got[f]
        /\ pc[f] \in {"create", "score"} => Counted(got[f])

ScoreStands == scoreBy = "live" /\ ~retried => session = "ENDED" /\ Counted(score)

ScoreInv == SessionInv /\ EndBehind /\ ReadsEnough /\ ScoreStands

LEMMA InitScore == Init => ScoreInv
<1> SUFFICES ASSUME Init PROVE ScoreInv
  OBVIOUS
<1>1. atEnd.rows = {} /\ atEnd.reversed = {} /\ \A f \in Finishers : pc[f] = "idle"
  BY DEF Init
<1> QED
  BY <1>1, InitSession DEF Init, ScoreInv, EndBehind, ReadsEnough, ScoreStands

\* Rows and reversals may be added.
LEMMA ScoreFrame ==
  ASSUME ScoreInv, rows \subseteq rows', reversed \subseteq reversed', UNCHANGED <<atEnd, session>>,
         \A f \in Finishers : pc'[f] \in {"sift", "create", "score"} => pc'[f] = pc[f] /\ got'[f] = got[f],
         scoreBy' = "live" /\ ~retried' => scoreBy = "live" /\ ~retried /\ score' = score
  PROVE  EndBehind' /\ ReadsEnough' /\ ScoreStands'
BY DEF ScoreInv, EndBehind, ReadsEnough, ScoreStands, Counted

LEMMA WorkScore ==
  ASSUME ScoreInv, NEW f \in Finishers, Work(f)
  PROVE  EndBehind' /\ ReadsEnough' /\ ScoreStands'
<1>0. /\ TypeOK /\ SessionInv /\ UNCHANGED <<rows, reversed, session, atEnd, retried>>
      /\ Busy(f) /\ session = "ENDED"
  BY WorkFrame DEF ScoreInv, SessionInv, BusyEnds, Busy, liveVars, ghostVars
<1>1. \A g \in Finishers : g # f => pc'[g] \notin {"sift", "create", "score"}
  <2>1. \A g \in Finishers : g # f => ~Busy(g) /\ pc'[g] = pc[g]
    BY <1>0, WorkMoves DEF SessionInv, OneBusy
  <2> QED
    BY <2>1 DEF Busy, Working
<1>2. EndBehind'
  BY <1>0 DEF ScoreInv, EndBehind
<1>3. ASSUME NEW S, Counted(S) PROVE Counted(OfKind(S, {"score"}))
  BY <1>3 DEF ScoreInv, EndBehind, Counted, OfKind
<1>4. \A S : Counted(S)' <=> Counted(S)
  BY <1>0 DEF Counted
<1>5. CASE Gather(f)
  <2>1. pc'[f] = "sift" /\ got'[f] = rows /\ UNCHANGED <<scoreBy, score>>
    BY <1>0, <1>5, TypeParts DEF FinType, Gather, Goto, reportVars
  <2> QED
    BY <1>0, <1>1, <1>2, <1>4, <2>1 DEF ScoreInv, EndBehind, ReadsEnough, ScoreStands
<1>6. CASE Sift(f)
  <2>1. pc'[f] \in {"create", "score"} /\ got'[f] = got[f] \ reversed /\ UNCHANGED <<scoreBy, score>>
    BY <1>0, <1>6, TypeParts DEF FinType, Sift, Unreversed, Goto, reportVars
  <2>2. atEnd.rows \subseteq got[f] /\ atEnd.reversed \subseteq reversed
    BY <1>6 DEF Sift, ScoreInv, ReadsEnough, EndBehind
  <2>3. Counted(got'[f])
    BY <2>1, <2>2 DEF Counted
  <2> QED
    BY <1>0, <1>1, <1>2, <1>4, <2>1, <2>3 DEF ScoreInv, ReadsEnough, ScoreStands
<1>7. CASE Create(f) \/ Score(f)
  <2>1. pc'[f] \notin {"sift", "create", "score"}
    BY <1>0, <1>7, TypeParts DEF FinType, Create, Score, Seeding, Goto
  <2>2. Counted(OfKind(got[f], {"score"}))
    BY <1>3, <1>7 DEF Create, Score, ScoreInv, ReadsEnough
  <2>3. score' = OfKind(got[f], {"score"}) \/ UNCHANGED <<scoreBy, score>>
    BY <1>7 DEF Create, Score
  <2> QED
    BY <1>0, <1>1, <1>2, <1>4, <2>1, <2>2, <2>3 DEF ScoreInv, ReadsEnough, ScoreStands
<1>8. CASE Resolve(f) \/ Look(f) \/ ReadAttendance(f) \/ MarkPresent(f) \/ Rebuild(f)
           \/ \E c \in Categories : CountCategory(f, c) \/ FillCategory(f, c)
  <2>1. UNCHANGED <<scoreBy, score>>
    BY <1>8 DEF Resolve, Look, ReadAttendance, MarkPresent, Rebuild, CountCategory, FillCategory,
                reportVars
  <2>2. pc'[f] \notin {"sift", "create", "score"}
    BY <1>0, <1>8, TypeParts DEF FinType, Resolve, Look, ReadAttendance, MarkPresent, Rebuild,
                                 CountCategory, FillCategory, Seeding, Goto
  <2> QED
    BY <1>0, <1>1, <1>2, <1>4, <2>1, <2>2 DEF ScoreInv, ReadsEnough, ScoreStands
<1> QED
  BY <1>5, <1>6, <1>7, <1>8 DEF Work

LEMMA OtherScore ==
  ASSUME ScoreInv, NEW f \in Finishers,
         Begin(f) \/ Claim(f) \/ Await(f) \/ Fail(f) \/ Revert(f) \/ Lose(f)
  PROVE  EndBehind' /\ ReadsEnough' /\ ScoreStands'
<1>0. TypeOK /\ SessionInv /\ UNCHANGED <<rows, reversed, score, scoreBy>>
  BY DEF ScoreInv, SessionInv, Begin, Claim, Await, Fail, Revert, Lose, liveVars, reportVars
<1>1. \A g \in Finishers :
          pc'[g] \in {"sift", "create", "score"} => pc'[g] = pc[g] /\ got'[g] = got[g]
  BY <1>0, TypeParts DEF FinType, Begin, Claim, Await, Fail, Revert, Lose, Goto, Forget
<1>2. CASE UNCHANGED <<session, atEnd, retried>>
  BY <1>0, <1>1, <1>2, ScoreFrame
<1>3. CASE Claim(f) /\ session = "ACTIVE"
  <2>1. atEnd' = StoredScore
    BY <1>3 DEF Claim
  <2>2. EndBehind'
    BY <1>0, <2>1 DEF EndBehind, StoredScore, OfKind
  <2>3. \A g \in Finishers : pc'[g] \notin {"sift", "create", "score"}
    BY <1>1, <1>3 DEF ScoreInv, SessionInv, BusyEnds, Busy, Working
  <2>4. ~(scoreBy' = "live" /\ ~retried')
    BY <1>0, <1>3 DEF Claim, ScoreInv, ScoreStands
  <2> QED
    BY <2>2, <2>3, <2>4 DEF ReadsEnough, ScoreStands
<1>4. CASE Revert(f)
  <2>1. atEnd' = atEnd /\ (retried' <=> retried \/ scoreBy = "live")
    BY <1>0, <1>4, TypeParts DEF Revert, GhostType
  <2>2. ReadsEnough' /\ EndBehind'
    BY <1>0, <1>1, <2>1 DEF ScoreInv, ReadsEnough, EndBehind, Counted
  <2> QED
    BY <1>0, <2>1, <2>2 DEF ScoreStands
<1>5. UNCHANGED <<session, atEnd, retried>> \/ (Claim(f) /\ session = "ACTIVE") \/ Revert(f)
  BY DEF Begin, Claim, Await, Fail, Lose, liveVars, ghostVars
<1> QED
  BY <1>2, <1>3, <1>4, <1>5

LEMMA ReviewScore ==
  ASSUME ScoreInv, Review
  PROVE  EndBehind' /\ ReadsEnough' /\ ScoreStands'
<1>1. UNCHANGED <<rows, reversed, session, pc, got, atEnd, retried>>
  BY ReviewFrame DEF liveVars, finVars
<1>2. scoreBy' = "coach" \/ UNCHANGED <<scoreBy, score>>
  BY DEF Review, SeedFromSquad, EnterScore, AddGoal, ReviewTiming, SubmitDebrief, CheckComplete, Lock,
         Reopen, ReopenDebrief, MarkAttendance, RemoveGoal, reportVars
<1> QED
  BY <1>1, <1>2, ScoreFrame

LEMMA ScoreStep == ScoreInv /\ [Next]_vars => ScoreInv'
<1> SUFFICES ASSUME ScoreInv, [Next]_vars PROVE ScoreInv'
  OBVIOUS
<1>0. SessionInv'
  BY SessionStep DEF ScoreInv
<1>1. CASE UNCHANGED vars
  BY <1>0, <1>1, ScoreFrame DEF ScoreInv, vars, liveVars, reportVars, finVars, ghostVars
<1>2. ASSUME NEW w \in Writes, CheckWrite(w) \/ InsertWrite(w) PROVE ScoreInv'
  BY <1>0, <1>2, WriteFrame, ScoreFrame DEF ScoreInv, reportVars, finVars, ghostVars
<1>3. ASSUME NEW f \in Finishers, Begin(f) \/ Claim(f) \/ Await(f) \/ Fail(f) \/ Revert(f) \/ Lose(f)
      PROVE ScoreInv'
  BY <1>0, <1>3, OtherScore DEF ScoreInv
<1>4. ASSUME NEW f \in Finishers, Work(f) PROVE ScoreInv'
  BY <1>0, <1>4, WorkScore DEF ScoreInv
<1>5. CASE Review
  BY <1>0, <1>5, ReviewScore DEF ScoreInv
<1> QED
  BY <1>1, <1>2, <1>3, <1>4, <1>5, NextCases

\* A score that a handoff filled in counts every event stored when the session was ended that
\* has not been reversed, and none that was reversed by then.
THEOREM ScoreOfEndedMatch == Spec => []ReportCountsEndedMatch
<1>1. ScoreInv => ReportCountsEndedMatch
  BY DEF ScoreInv, ScoreStands, Counted, ReportCountsEndedMatch
<1> QED
  BY <1>1, InitScore, ScoreStep, PTL DEF Spec

-----------------------------------------------------------------------------
(* The handoff keeps its promise: the invariants above say which of the    *)
(* promise's steps a statement may be, and what it finds when it is.       *)

Phase == IF session = "ACTIVE" THEN "playing" ELSE IF HandoffOver THEN "over" ELSE "finishing"

Shown == IF status = "NONE" THEN "none" ELSE IF status = "LOCKED" THEN "locked" ELSE "open"

Derived == {e \in Events : copies[e] > 0}

\* What a finisher has read is stored.
ReadIsStored == \A f \in Finishers : got[f] \subseteq rows

\* What is about to be locked is there.
ReportToLock == coach = "completing" => status # "NONE"

HandoffInv == SeedInv /\ ReadIsStored /\ ReportToLock

LEMMA ReadFrame ==
  ASSUME ReadIsStored, rows \subseteq rows', \A f \in Finishers : got'[f] \subseteq got[f] \cup rows
  PROVE  ReadIsStored'
BY DEF ReadIsStored

LEMMA HandoffStep == HandoffInv /\ [Next]_vars => HandoffInv'
<1> SUFFICES ASSUME HandoffInv, [Next]_vars PROVE HandoffInv'
  OBVIOUS
<1>0. SeedInv' /\ TypeOK /\ ReadIsStored
  BY SeedStep DEF HandoffInv, SeedInv, SessionInv
<1>1. rows \subseteq rows'
  <2>1. ASSUME NEW f \in Finishers, Begin(f) \/ Claim(f) \/ Await(f) \/ Fail(f) \/ Revert(f) \/ Lose(f)
        PROVE rows' = rows
    BY <2>1 DEF Begin, Claim, Await, Fail, Revert, Lose, liveVars
  <2> QED
    BY <2>1, NextCases, WriteFrame, WorkFrame, ReviewFrame DEF vars, liveVars
<1>2. \A f \in Finishers : got'[f] \subseteq got[f] \cup rows
  <2>1. ASSUME NEW f \in Finishers, Begin(f) \/ Claim(f) \/ Await(f) \/ Fail(f) \/ Revert(f) \/ Lose(f)
        PROVE \A g \in Finishers : got'[g] \subseteq got[g]
    BY <1>0, <2>1, TypeParts DEF FinType, Begin, Claim, Await, Fail, Revert, Lose, Forget
  <2>2. ASSUME NEW f \in Finishers, Work(f) PROVE \A g \in Finishers : got'[g] \subseteq got[g] \cup rows
    <3>1. got'[f] \subseteq got[f] \cup rows
      BY <1>0, <2>2, TypeParts DEF FinType, Work, Resolve, Look, Gather, Sift, Unreversed, Create, Score,
           ReadAttendance, MarkPresent, Rebuild, Forget, CountCategory, FillCategory
    <3> QED
      BY <1>0, <2>2, <3>1, WorkMoves
  <2> QED
    BY <2>1, <2>2, NextCases, WriteFrame, ReviewFrame DEF vars, finVars
<1>3. ReportToLock'
  <2>1. CASE UNCHANGED <<coach, status>>
    BY <2>1 DEF HandoffInv, ReportToLock
  <2>2. ASSUME NEW f \in Finishers, Work(f) PROVE ReportToLock'
    BY <1>0, <2>2, WorkFrame, WorkReports DEF HandoffInv, SeedInv, SessionInv, ReportToLock
  <2>3. CASE Review
    <3>1. coach' = "completing" => (status' # "NONE" /\ status' = status) \/ coach = "completing"
      BY <2>3 DEF Review, SeedFromSquad, EnterScore, AddGoal, ReviewTiming, SubmitDebrief, CheckComplete,
           Lock, Reopen, ReopenDebrief, MarkAttendance, RemoveGoal, Editing, reportVars, reviewVars
    <3> QED
      BY <1>0, <2>3, <3>1, ReviewKeepsReport DEF HandoffInv, ReportToLock
  <2>4. ASSUME NEW f \in Finishers, Begin(f) \/ Claim(f) \/ Await(f) \/ Fail(f) \/ Revert(f) \/ Lose(f)
        PROVE UNCHANGED <<coach, status>>
    BY <2>4 DEF Begin, Claim, Await, Fail, Revert, Lose, reportVars, reviewVars
  <2> QED
    BY <2>1, <2>2, <2>3, <2>4, NextCases, WriteFrame DEF vars, reportVars, reviewVars
<1> QED
  BY <1>0, <1>1, <1>2, <1>3, ReadFrame DEF HandoffInv

LEMMA InitHandoff == Init => HandoffInv
BY InitSeed DEF Init, HandoffInv, ReadIsStored, ReportToLock

\* A step that shows nothing.
Hidden == UNCHANGED <<Phase, rows, Shown, Derived, scoreBy, score, stranded>>

LEMMA HiddenMaps == Hidden => UNCHANGED Promise!vars
BY DEF Hidden, Phase, Shown, Derived, Promise!vars, Promise!contents

\* While somebody is past the compare-and-set the match is being finished.
LEMMA BusyPhase ==
  ASSUME SessionInv, NEW f \in Finishers, Busy(f)
  PROVE  Phase = "finishing"
BY DEF SessionInv, BusyEnds, Busy, Phase, HandoffOver

\* The phase is a matter of who is busy.
LEMMA SamePhase ==
  ASSUME session' = session, \A f \in Finishers : Busy(f)' <=> Busy(f)
  PROVE  Phase' = Phase
BY DEF Phase, HandoffOver, Busy

LEMMA WorkPhase ==
  ASSUME SessionInv, SessionInv', NEW f \in Finishers, Work(f), pc'[f] # "finished"
  PROVE  Phase = "finishing" /\ Phase' = "finishing"
<1>1. TypeOK
  BY DEF SessionInv
<1>2. Busy(f) /\ Busy(f)'
  BY <1>1, WorkFrame, WorkMoves DEF Busy
<1> QED
  BY <1>2, BusyPhase DEF SessionInv, BusyEnds, Busy, Phase, HandoffOver

\* The steps of the coach: opening, the score, striking a row, locking and reopening.
LEMMA ReviewMaps ==
  ASSUME HandoffInv, HandoffInv', Review
  PROVE  Hidden \/ Promise!Next
<1>0. TypeOK /\ UNCHANGED <<rows, stranded>> /\ Phase' = Phase
  BY ReviewFrame, SamePhase DEF HandoffInv, SeedInv, SessionInv, liveVars, finVars, Busy
<1>1. status \in Statuses /\ copies \in [Events -> Nat]
  BY <1>0 DEF TypeOK, Statuses
<1>2. CASE SeedFromSquad
  <2>1. Shown = "none" /\ Shown' = "open" /\ UNCHANGED <<copies, scoreBy, score>>
    BY <1>2 DEF SeedFromSquad, Shown
  <2>2. Promise!OpenByHand
    BY <1>0, <2>1 DEF Promise!OpenByHand, Promise!contents, Shown, Phase, Derived
  <2> QED
    BY <2>2 DEF Promise!Next
<1>3. CASE EnterScore
  <2>1. /\ Shown = "open" /\ scoreBy' = "coach" /\ score' = {} /\ UNCHANGED <<copies, status>>
    BY <1>3 DEF EnterScore, Editing, Shown
  <2>2. Promise!EnterScore
    BY <1>0, <2>1 DEF Promise!EnterScore, Shown, Phase, Derived
  <2> QED
    BY <2>2 DEF Promise!Next
<1>4. ASSUME NEW e \in Events, RemoveGoal(e) PROVE Promise!Next
  <2>1. Shown = "open" /\ copies[e] > 0 /\ UNCHANGED <<status, scoreBy, score>>
    BY <1>4 DEF RemoveGoal, Editing, Shown
  <2>2. copies'[e] = copies[e] - 1 /\ \A d \in Events : d # e => copies'[d] = copies[d]
    BY <1>1, <1>4 DEF RemoveGoal
  <2>3. ~(copies'[e] > 0)
    <3>1. copies[e] \in Nat /\ copies[e] <= 1
      BY <1>1 DEF HandoffInv, SeedInv, NothingSeededTwice
    <3> QED
      BY <2>1, <2>2, <3>1
  <2>4. e \in Derived /\ Derived' = Derived \ {e}
    BY <2>1, <2>2, <2>3 DEF Derived
  <2>5. Promise!Strike(e)
    BY <1>0, <2>1, <2>4 DEF Promise!Strike, Shown, Phase, Derived
  <2> QED
    BY <2>5 DEF Promise!Next
<1>5. CASE Lock
  <2>1. UNCHANGED <<copies, scoreBy, score>> /\ Shown # "none" /\ Shown' = "locked"
    BY <1>5 DEF Lock, Shown, HandoffInv, ReportToLock
  <2>2. Promise!Lock
    BY <1>0, <2>1 DEF Promise!Lock, Promise!contents, Shown, Phase, Derived
  <2> QED
    BY <2>2 DEF Promise!Next
<1>6. CASE Reopen
  <2>1. UNCHANGED <<copies, scoreBy, score>> /\ Shown \in {"open", "locked"} /\ Shown' = "open"
    BY <1>6 DEF Reopen, Shown
  <2>2. CASE Shown = "locked"
    <3>1. Promise!Reopen
      BY <1>0, <2>1, <2>2 DEF Promise!Reopen, Promise!contents, Shown, Phase, Derived
    <3> QED
      BY <3>1 DEF Promise!Next
  <2>3. CASE Shown = "open"
    BY <1>0, <2>1, <2>3 DEF Hidden, Derived
  <2> QED
    BY <2>1, <2>2, <2>3
<1>7. CASE AddGoal \/ ReviewTiming \/ SubmitDebrief \/ CheckComplete \/ ReopenDebrief
           \/ \E a \in {"UNKNOWN", "PRESENT", "NO_SHOW"} : MarkAttendance(a)
  <2>1. UNCHANGED <<status, copies, scoreBy, score>>
    BY <1>7 DEF AddGoal, ReviewTiming, SubmitDebrief, CheckComplete, ReopenDebrief, MarkAttendance, reportVars
  <2> QED
    BY <1>0, <2>1 DEF Hidden, Shown, Derived
<1> QED
  BY <1>2, <1>3, <1>4, <1>5, <1>6, <1>7 DEF Review

\* A row arrives, or a reversal, which the promise does not show.
LEMMA WriteMaps ==
  ASSUME NEW w \in Writes, CheckWrite(w) \/ InsertWrite(w)
  PROVE  Hidden \/ Promise!Next
<1>0. w.of \in Events
  BY DEF Writes
<1>1. UNCHANGED <<status, copies, scoreBy, score, stranded>> /\ Phase' = Phase
  BY WriteFrame, SamePhase DEF reportVars, finVars, ghostVars, Busy
<1>2. CASE rows' = rows \cup {w.of}
  <2>1. Promise!Store(w.of)
    BY <1>1, <1>2 DEF Promise!Store, Promise!contents, Phase
  <2> QED
    BY <1>0, <2>1 DEF Promise!Next
<1>3. rows' = rows \/ rows' = rows \cup {w.of}
  BY DEF CheckWrite, InsertWrite
<1> QED
  BY <1>1, <1>2, <1>3 DEF Hidden, Shown, Derived

\* Ending the match, taking that back, losing it; beginning and waiting show nothing.
LEMMA OtherMaps ==
  ASSUME HandoffInv, HandoffInv', NEW f \in Finishers,
         Begin(f) \/ Claim(f) \/ Await(f) \/ Fail(f) \/ Revert(f) \/ Lose(f)
  PROVE  Hidden \/ Promise!Next
<1>0. /\ TypeOK /\ SessionInv /\ SessionInv'
      /\ UNCHANGED <<rows, status, copies, scoreBy, score>>
  BY DEF HandoffInv, SeedInv, SessionInv, Begin, Claim, Await, Fail, Revert, Lose, liveVars, reportVars
<1>1. \A g \in Finishers : g # f => pc'[g] = pc[g]
  BY <1>0, TypeParts DEF FinType, Begin, Claim, Await, Fail, Revert, Lose, Goto
<1>2. ASSUME Busy(f)' <=> Busy(f), session' = session, stranded' = stranded PROVE Hidden
  <2>1. \A g \in Finishers : Busy(g)' <=> Busy(g)
    BY <1>1, <1>2 DEF Busy
  <2> QED
    BY <1>0, <1>2, <2>1, SamePhase DEF Hidden, Shown, Derived
<1>3. CASE Begin(f) \/ Await(f) \/ Fail(f) \/ (Claim(f) /\ session # "ACTIVE")
  <2>1. session' = session /\ stranded' = stranded
    BY <1>3 DEF Begin, Await, Fail, Claim, liveVars, ghostVars
  <2>2. Busy(f)' <=> Busy(f)
    BY <1>0, <1>3, TypeParts DEF FinType, Begin, Await, Fail, Claim, Goto, Busy, Working
  <2> QED
    BY <1>2, <2>1, <2>2
<1>4. CASE Claim(f) /\ session = "ACTIVE"
  <2>1. session' = "ENDED" /\ stranded' = stranded /\ pc'[f] = "resolve"
    BY <1>0, <1>4, TypeParts DEF FinType, Claim, Goto
  <2>2. Phase = "playing" /\ Phase' = "finishing"
    BY <1>4, <2>1 DEF Phase, HandoffOver, Working
  <2>3. Promise!End
    BY <1>0, <2>1, <2>2 DEF Promise!End, Promise!contents, Phase
  <2> QED
    BY <2>3 DEF Promise!Next
<1>5. CASE Revert(f)
  <2>1. Phase = "finishing" /\ session = "ENDED"
    BY <1>0, <1>5, BusyPhase DEF Revert, Busy, SessionInv, BusyEnds
  <2>2. session' = "ACTIVE" /\ stranded' = stranded
    BY <1>5, <2>1 DEF Revert
  <2>3. Phase' = "playing"
    BY <2>2 DEF Phase
  <2>4. Promise!TakeBack
    BY <1>0, <2>1, <2>2, <2>3 DEF Promise!TakeBack, Promise!contents, Phase
  <2> QED
    BY <2>4 DEF Promise!Next
<1>6. CASE Lose(f)
  <2>1. Busy(f) /\ Phase = "finishing" /\ session = "ENDED"
    BY <1>0, <1>6, BusyPhase DEF Lose, Busy, SessionInv, BusyEnds
  <2>2. session' = session /\ stranded' = TRUE /\ pc'[f] = "idle"
    BY <1>0, <1>6, TypeParts DEF FinType, Lose, Goto, liveVars
  <2>3. Phase' = "over"
    BY <1>0, <1>1, <2>1, <2>2 DEF SessionInv, OneBusy, Busy, Phase, HandoffOver, Working
  <2>4. Promise!Lose
    BY <1>0, <2>1, <2>2, <2>3 DEF Promise!Lose, Promise!contents, Phase
  <2> QED
    BY <2>4 DEF Promise!Next
<1> QED
  BY <1>3, <1>4, <1>5, <1>6

\* The statements past the compare-and-set.
LEMMA WorkMaps ==
  ASSUME HandoffInv, HandoffInv', NEW f \in Finishers, Work(f)
  PROVE  Hidden \/ Promise!Next
<1>0. /\ TypeOK /\ SessionInv /\ SessionInv' /\ ReadIsStored
      /\ UNCHANGED <<rows, session, stranded>>
      /\ Phase = "finishing"
  BY WorkFrame, BusyPhase DEF HandoffInv, SeedInv, SessionInv, liveVars, ghostVars, Busy
<1>1. pc'[f] # "finished" => Phase' = "finishing"
  BY <1>0, WorkPhase
<1>2. \A kinds : OfKind(got[f], kinds) \in SUBSET rows
  BY <1>0 DEF ReadIsStored, OfKind
<1>3. copies \in [Events -> Nat] /\ rows \subseteq Events
  BY <1>0 DEF TypeOK
<1>4. ASSUME UNCHANGED <<status, copies, scoreBy, score>>, pc'[f] # "finished" PROVE Hidden
  BY <1>0, <1>1, <1>4 DEF Hidden, Shown, Derived
<1>5. CASE Create(f)
  <2>1. pc'[f] # "finished"
    BY <1>0, <1>5, TypeParts DEF FinType, Create, Seeding, Goto
  <2>2. CASE status = "NONE"
    <3> DEFINE S == OfKind(got[f], ReportScoped)
               T == OfKind(got[f], {"score"})
    <3>1. status' = "DRAFT" /\ scoreBy' = "live" /\ score' = T /\ copies' = AddCopies(S)
      BY <1>5, <2>2 DEF Create
    <3>2. \A e \in Events : copies[e] = 0
      BY <2>2 DEF HandoffInv, SeedInv, NothingYet
    <3>3. \A e \in Events : copies'[e] = IF e \in S THEN 1 ELSE 0
      BY <3>1, <3>2 DEF AddCopies
    <3>4. Derived' = S
      BY <1>2, <1>3, <3>3 DEF Derived
    <3>5. Shown = "none" /\ Shown' = "open"
      BY <2>2, <3>1 DEF Shown
    <3>6. Promise!Open(S, T)
      BY <1>0, <1>1, <2>1, <3>1, <3>4, <3>5 DEF Promise!Open, Phase, Shown, Derived
    <3>7. S \in SUBSET rows /\ T \in SUBSET rows
      BY <1>2
    <3> HIDE DEF S, T
    <3>8. \E U \in SUBSET rows, V \in SUBSET rows : Promise!Open(U, V)
      BY <3>6, <3>7 DEF Promise!Open
    <3> QED
      BY <3>8 DEF Promise!Next
  <2>3. CASE status # "NONE"
    BY <1>4, <1>5, <2>1, <2>3 DEF Create
  <2> QED
    BY <2>2, <2>3
<1>6. CASE Score(f)
  <2>1. pc'[f] # "finished" /\ UNCHANGED <<status, copies>> /\ status # "NONE"
    BY <1>0, <1>6, TypeParts DEF FinType, Score, Goto, SessionInv, ReportThere, AfterReport
  <2>2. CASE saw[f].scoreless
    <3> DEFINE T == OfKind(got[f], {"score"})
    <3>1. scoreBy' = "live" /\ score' = T
      BY <1>6, <2>2 DEF Score
    <3>2. Promise!Tally(T)
      BY <1>0, <1>1, <2>1, <3>1 DEF Promise!Tally, Phase, Shown, Derived
    <3> QED
      BY <1>2, <3>2 DEF Promise!Next
  <2>3. CASE ~saw[f].scoreless
    BY <1>4, <1>6, <2>1, <2>3 DEF Score
  <2> QED
    BY <2>2, <2>3
<1>7. ASSUME NEW c \in Categories, FillCategory(f, c) PROVE Promise!Next
  <2> DEFINE S == OfKind(got[f], {c})
  <2>1. /\ pc'[f] # "finished" /\ UNCHANGED <<status, scoreBy, score>>
        /\ status # "NONE" /\ copies' = AddCopies(S)
    BY <1>0, <1>7, TypeParts
    DEF FinType, FillCategory, Seeding, Goto, SessionInv, ReportThere, AfterReport
  <2>2. \A e \in S : copies[e] = 0
    BY <1>2, <1>3, <1>7 DEF FillCategory, HandoffInv, SeedInv, StillEmpty, OfKind
  <2>3. \A e \in Events : copies'[e] = IF e \in S THEN copies[e] + 1 ELSE copies[e]
    BY <2>1 DEF AddCopies
  <2>4. \A e \in Events : copies'[e] > 0 <=> e \in S \/ copies[e] > 0
    BY <1>3, <2>3
  <2>5. S \cap Derived = {} /\ Derived' = Derived \cup S
    BY <1>2, <1>3, <2>2, <2>4 DEF Derived
  <2>6. Promise!Derive(S)
    BY <1>0, <1>1, <2>1, <2>5 DEF Promise!Derive, Phase, Shown, Derived
  <2>7. S \in SUBSET rows
    BY <1>2
  <2> HIDE DEF S
  <2>8. \E U \in SUBSET rows : Promise!Derive(U)
    BY <2>6, <2>7 DEF Promise!Derive
  <2> QED
    BY <2>8 DEF Promise!Next
<1>8. CASE Rebuild(f)
  <2>1. pc[f] = "rebuild" /\ pc'[f] = "finished" /\ UNCHANGED <<status, copies, scoreBy, score>>
    BY <1>0, <1>8, TypeParts DEF FinType, Rebuild, Goto, reportVars
  <2>2. Phase' = "over"
    BY <1>0, <2>1 DEF SessionInv, FinishedAlone, Phase, HandoffOver, Busy
  <2>3. Shown # "none"
    BY <1>0, <2>1 DEF SessionInv, ReportThere, AfterReport, Shown
  <2>4. Promise!Conclude
    BY <1>0, <2>1, <2>2, <2>3 DEF Promise!Conclude, Promise!contents, Phase, Shown, Derived
  <2> QED
    BY <2>4 DEF Promise!Next
<1>9. CASE Resolve(f) \/ Look(f) \/ Gather(f) \/ Sift(f) \/ ReadAttendance(f) \/ MarkPresent(f)
           \/ \E c \in Categories : CountCategory(f, c)
  <2>1. UNCHANGED <<status, copies, scoreBy, score>>
    BY <1>9 DEF Resolve, Look, Gather, Sift, ReadAttendance, MarkPresent, CountCategory, reportVars
  <2>2. pc'[f] # "finished"
    BY <1>0, <1>9, TypeParts DEF FinType, Resolve, Look, Gather, Sift, ReadAttendance, MarkPresent,
                                 CountCategory, Seeding, Goto
  <2> QED
    BY <1>4, <2>1, <2>2
<1> QED
  BY <1>5, <1>6, <1>7, <1>8, <1>9 DEF Work

LEMMA PromiseStep == HandoffInv /\ HandoffInv' /\ [Next]_vars => [Promise!Next]_(Promise!vars)
<1> SUFFICES ASSUME HandoffInv, HandoffInv', [Next]_vars PROVE [Promise!Next]_(Promise!vars)
  OBVIOUS
<1>1. CASE UNCHANGED vars
  <2>1. UNCHANGED <<session, pc, rows, status, copies, scoreBy, score, stranded>>
    BY <1>1 DEF vars, liveVars, reportVars, finVars, ghostVars
  <2> QED
    BY <2>1, HiddenMaps, SamePhase DEF Hidden, Shown, Derived, Busy
<1>2. Next => Hidden \/ Promise!Next
  BY NextCases, WriteMaps, OtherMaps, WorkMaps, ReviewMaps
<1> QED
  BY <1>1, <1>2, HiddenMaps

\* However callers race, statements fail, processes die, rows arrive and the coach works on the
\* report, the handoff is one of HandoffPromise: a match is over once and for good and then has its
\* report, and live events reach the report only while the match is being finished.
THEOREM HandoffIsKept == Spec => KeepsHandoff
<1>1. Init => Promise!Init
  BY DEF Init, Promise!Init
<1> QED
  BY <1>1, InitHandoff, HandoffStep, PromiseStep, PTL DEF Spec, KeepsHandoff, Promise!Spec

\* What is in the report once the match is over is the coach's: no caller, retry or late row puts a
\* live event or a live score into it any more, and the match does not become active again.
LeftToTheCoach ==
    HandoffOver =>
        /\ HandoffOver'
        /\ Derived' \subseteq Derived
        /\ scoreBy' = "live" => scoreBy = "live" /\ score' = score

\* Once a match is over, what a late statement of a finish or of the job would write never comes.
THEOREM OverIsFinal == Spec => [][LeftToTheCoach]_vars
<1>1. ASSUME HandoffInv, [Next]_vars, HandoffOver PROVE LeftToTheCoach
  <2>0. TypeOK /\ TypeOK' /\ SeedInv
    BY <1>1, TypeStep DEF HandoffInv, SeedInv, SessionInv
  <2>1. HandoffOver' /\ \A f \in Finishers : ~Work(f)
    BY <1>1, <2>0, HandoffStaysOver
  <2>2. CASE UNCHANGED <<copies, scoreBy, score>>
    BY <2>1, <2>2 DEF LeftToTheCoach, Derived
  <2>3. CASE Review
    <3>1. copies \in [Events -> Nat] /\ copies' \in [Events -> Nat]
      BY <2>0 DEF TypeOK
    <3>2. \A e \in Events : copies'[e] <= copies[e]
      BY <2>0, <2>3, ReviewShrinks
    <3>3. \A e \in Events : copies'[e] > 0 => copies[e] > 0
      BY <3>1, <3>2
    <3>4. scoreBy' = "coach" \/ UNCHANGED <<scoreBy, score>>
      BY <2>3 DEF Review, SeedFromSquad, EnterScore, AddGoal, ReviewTiming, SubmitDebrief, CheckComplete,
           Lock, Reopen, ReopenDebrief, MarkAttendance, RemoveGoal, reportVars
    <3> QED
      BY <2>1, <3>3, <3>4 DEF LeftToTheCoach, Derived
  <2>4. ASSUME NEW f \in Finishers, Begin(f) \/ Claim(f) \/ Await(f) \/ Fail(f) \/ Revert(f) \/ Lose(f)
        PROVE UNCHANGED <<copies, scoreBy, score>>
    BY <2>4 DEF Begin, Claim, Await, Fail, Revert, Lose, reportVars
  <2> QED
    BY <1>1, <2>1, <2>2, <2>3, <2>4, NextCases, WriteFrame DEF vars, reportVars
<1>2. HandoffInv /\ [Next]_vars => [LeftToTheCoach]_vars
  BY <1>1 DEF LeftToTheCoach
<1> QED
  BY <1>2, InitHandoff, HandoffStep, PTL DEF Spec

=============================================================================
