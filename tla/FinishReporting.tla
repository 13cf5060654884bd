--------------------------- MODULE FinishReporting ---------------------------
(***************************************************************************)
(* How a live match becomes a post-match report.  finishLiveReporting is   *)
(* called by the coach and by the five-minute time-out job; the callers    *)
(* race, each database statement of theirs is a step of its own, any of    *)
(* them may fail, and meanwhile rows are still inserted, and the coach     *)
(* works on the report.                                                    *)
(*                                                                         *)
(* Limits.  One League match.  A coach's edit is one step (its check and   *)
(* its write are not separated); completing and reopening are two.  The    *)
(* coach sends one request at a time.  One planned player stands for the   *)
(* squad.  The duration a timing resolution carries is left out; whether   *)
(* one of the periods still has to be reviewed is kept.                    *)
(***************************************************************************)
EXTENDS Naturals, FiniteSets

CONSTANTS Finishers,    \* callers of finishLiveReporting
          Cron,         \* the one that is the time-out job
          Events,       \* live events that can be stored for the match
          Kind,         \* what the report derives from each of them
          MaxFaults,    \* bound: statements of a finish that fail, and processes that die
          MaxRows,      \* bound: rows inserted or being inserted, reversals included
          MaxEdits      \* bound: changes the coach makes to the report, reopenings included

ReportScoped == {"goals", "assists"}
MatchScoped  == {"fairPlay", "rotations"}
Categories   == ReportScoped \cup MatchScoped

ASSUME FinishAssumption ==
    /\ Cron \in Finishers
    /\ Kind \in [Events -> Categories \cup {"score"}]
    /\ {MaxFaults, MaxRows, MaxEdits} \subseteq Nat

VARIABLES
    session,     \* LiveMatchSession.status
    rows,        \* LiveMatchEvent rows other than reversals
    reversed,    \* targets of stored EVENT_REVERSED rows
    writing,     \* rows whose session check has passed and whose insert has not run
    status,      \* PostMatchReport.status, "NONE" while there is no row
    scoreBy,     \* who filled homeGoals/awayGoals in
    score,       \* the events counted in a score filled in by the handoff
    copies,      \* how many derived rows each event has produced
    typed,       \* the coach has typed a goal into the report
    attendance,  \* of the planned player, "NONE" without a row
    unreviewed,  \* some MatchPeriodTimingResolution row still needs review
    debrief,     \* PostMatchDebrief.status
    coach,       \* what the coach's request on the report is in the middle of
    pc,          \* the next step of each finisher
    saw,         \* the report as the finisher read it
    got,         \* the events it derives the report from
    todo,        \* the categories it still has to seed
    edits,       \* ghost: changes by the coach so far
    faults,      \* ghost: failed statements so far
    stranded,    \* ghost: a finish died or its revert failed
    atEnd,       \* ghost: the scores stored and reversed when the session was last ended
    retried,     \* ghost: a finish was reverted after the handoff had filled the score in
    settled      \* ghost: the last check to complete was made after the handoff was over

liveVars   == <<session, rows, reversed, writing>>
reportVars == <<status, scoreBy, score, copies, typed, attendance>>
reviewVars == <<unreviewed, debrief, coach, edits>>
finVars    == <<pc, saw, got, todo>>
ghostVars  == <<faults, stranded, atEnd, retried, settled>>
vars == <<liveVars, reportVars, reviewVars, finVars, ghostVars>>

Writes == [what : {"row", "reversal"}, of : Events]

\* Between the compare-and-set and the result.
Working == {"resolve", "look", "gather", "sift", "create", "score", "attend", "mark",
            "count", "fill", "rebuild"}
Steps   == Working \cup {"idle", "claim", "await", "revert", "finished"}

Unread == [status |-> "NONE", scoreless |-> TRUE, attendance |-> "NONE"]

Init ==
    /\ session = "ACTIVE"
    /\ rows = {} /\ reversed = {} /\ writing = {}
    /\ status = "NONE" /\ scoreBy = "nobody" /\ score = {}
    /\ copies = [e \in Events |-> 0]
    /\ typed = FALSE /\ attendance = "NONE"
    /\ unreviewed = FALSE /\ debrief = "DRAFT" /\ coach = "free" /\ edits = 0
    /\ pc = [f \in Finishers |-> "idle"]
    /\ saw = [f \in Finishers |-> Unread]
    /\ got = [f \in Finishers |-> {}]
    /\ todo = [f \in Finishers |-> {}]
    /\ faults = 0 /\ stranded = FALSE /\ retried = FALSE /\ settled = FALSE
    /\ atEnd = [rows |-> {}, reversed |-> {}]

-----------------------------------------------------------------------------
(* Rows that arrive: recordEventForActor reads the session's status, then  *)
(* inserts; nothing ties the two together.                                 *)

CheckWrite(w) ==
    /\ session = "ACTIVE"
    /\ w \notin writing
    /\ Cardinality(rows) + Cardinality(reversed) + Cardinality(writing) < MaxRows
    /\ IF w.what = "row" THEN w.of \notin rows ELSE w.of \in rows \ reversed
    /\ writing' = writing \cup {w}
    /\ UNCHANGED <<session, rows, reversed, reportVars, reviewVars, finVars, ghostVars>>

InsertWrite(w) ==
    /\ w \in writing
    /\ writing' = writing \ {w}
    /\ rows' = IF w.what = "row" THEN rows \cup {w.of} ELSE rows
    /\ reversed' = IF w.what = "reversal" THEN reversed \cup {w.of} ELSE reversed
    /\ UNCHANGED <<session, reportVars, reviewVars, finVars, ghostVars>>

-----------------------------------------------------------------------------
(* finishLiveReporting, one action per database statement.                 *)

Goto(f, step) == pc' = [pc EXCEPT ![f] = step]

\* What a call has read goes with it.
Forget(f) ==
    /\ saw' = [saw EXCEPT ![f] = Unread]
    /\ got' = [got EXCEPT ![f] = {}]
    /\ todo' = [todo EXCEPT ![f] = {}]

\* Read the match and the session.  The job only takes sessions that were active when it
\* looked for them.
Begin(f) ==
    /\ pc[f] \in {"idle", "finished"}
    /\ f = Cron => session = "ACTIVE"
    /\ Goto(f, IF session = "ACTIVE" THEN "claim" ELSE "await")
    /\ UNCHANGED <<liveVars, reportVars, reviewVars, saw, got, todo, ghostVars>>

OfKind(S, kinds) == {e \in S : Kind[e] \in kinds}

StoredScore == [rows |-> OfKind(rows, {"score"}), reversed |-> OfKind(reversed, {"score"})]

ClaimUnlocked(f) ==
    /\ pc[f] = "claim"
    /\ session' = "ENDED"
    /\ atEnd' = StoredScore
    /\ Goto(f, "resolve")
    /\ UNCHANGED <<rows, reversed, writing, reportVars, reviewVars, saw, got, todo,
                   faults, stranded, retried, settled>>

\* The compare-and-set on status: whoever makes the row ENDED does the work.
Claim(f) ==
    /\ pc[f] = "claim"
    /\ IF session = "ACTIVE"
       THEN /\ session' = "ENDED"
            /\ atEnd' = StoredScore
            /\ Goto(f, "resolve")
       ELSE /\ Goto(f, "await")
            /\ UNCHANGED <<session, atEnd>>
    /\ UNCHANGED <<rows, reversed, writing, reportVars, reviewVars, saw, got, todo,
                   faults, stranded, retried, settled>>

AwaitSeeding(f) ==
    /\ pc[f] = "await"
    /\ Goto(f, IF status = "NONE" THEN "look" ELSE "idle")
    /\ UNCHANGED <<liveVars, reportVars, reviewVars, saw, got, todo, ghostVars>>

\* The loser polls for a report for half a second and answers with what it found, which may
\* be no report yet; it changes nothing.
Await(f) ==
    /\ pc[f] = "await"
    /\ Goto(f, "idle")
    /\ UNCHANGED <<liveVars, reportVars, reviewVars, saw, got, todo, ghostVars>>

\* resolveAndPersistActivePeriod: nothing when the clock is not in a playing period; an upsert
\* that updates nothing when the period has its row; a new row, bounded or not, otherwise.
Resolve(f) ==
    /\ pc[f] = "resolve"
    /\ Goto(f, "look")
    /\ unreviewed' \in {unreviewed, TRUE}
    /\ UNCHANGED <<liveVars, reportVars, debrief, coach, edits, saw, got, todo, ghostVars>>

\* seedReportFromLiveSession reads the report; a completed one is left alone.
Look(f) ==
    /\ pc[f] = "look"
    /\ saw' = [saw EXCEPT ![f].status = status, ![f].scoreless = scoreBy = "nobody"]
    /\ Goto(f, IF status \in {"REPORTED", "LOCKED"} THEN "rebuild" ELSE "gather")
    /\ UNCHANGED <<liveVars, reportVars, reviewVars, got, todo, ghostVars>>

\* The rows are read first, the reversals after them.
Gather(f) ==
    /\ pc[f] = "gather"
    /\ got' = [got EXCEPT ![f] = rows]
    /\ Goto(f, "sift")
    /\ UNCHANGED <<liveVars, reportVars, reviewVars, saw, todo, ghostVars>>

ReversedToo(S) == S

Unreversed(S) == S \ reversed

Sift(f) ==
    /\ pc[f] = "sift"
    /\ got' = [got EXCEPT ![f] = Unreversed(@)]
    /\ Goto(f, IF saw[f].status = "NONE" THEN "create" ELSE "score")
    /\ UNCHANGED <<liveVars, reportVars, reviewVars, saw, todo, ghostVars>>

\* A category without events costs no statement.
Filled(S, kinds) == {Kind[e] : e \in OfKind(S, kinds)}

AddCopies(S) == [e \in Events |-> IF e \in S THEN copies[e] + 1 ELSE copies[e]]

\* Go through the categories that are left, then rebuild the timeline.
Seeding(f, cats) ==
    /\ todo' = [todo EXCEPT ![f] = cats]
    /\ Goto(f, IF cats = {} THEN "rebuild" ELSE "count")

\* One nested create; the unique matchId makes it fail when somebody was faster, and the
\* row that is there is adopted as it is.
Create(f) ==
    /\ pc[f] = "create"
    /\ \/ /\ status = "NONE"
          /\ status' = "DRAFT"
          /\ scoreBy' = "live"
          /\ score' = OfKind(got[f], {"score"})
          /\ copies' = AddCopies(OfKind(got[f], ReportScoped))
          /\ attendance' = "PRESENT"
          /\ Seeding(f, Filled(got[f], MatchScoped))
       \/ /\ status # "NONE"
          /\ Seeding(f, {})
          /\ UNCHANGED <<status, scoreBy, score, copies, attendance>>
    /\ UNCHANGED <<liveVars, typed, reviewVars, saw, got, ghostVars>>

\* Merge: the score, unless the report had one when it was read.
Score(f) ==
    /\ pc[f] = "score"
    /\ IF saw[f].scoreless
       THEN /\ scoreBy' = "live"
            /\ score' = OfKind(got[f], {"score"})
       ELSE UNCHANGED <<scoreBy, score>>
    /\ Goto(f, "attend")
    /\ UNCHANGED <<liveVars, status, copies, typed, attendance, reviewVars, saw, got, todo, ghostVars>>

\* Merge: the attendance rows are read; a missing one is created, UNKNOWN becomes PRESENT,
\* anything else stays.
ReadAttendance(f) ==
    /\ pc[f] = "attend"
    /\ saw' = [saw EXCEPT ![f].attendance = attendance]
    /\ Goto(f, "mark")
    /\ UNCHANGED <<liveVars, reportVars, reviewVars, got, todo, ghostVars>>

MarkPresent(f) ==
    /\ pc[f] = "mark"
    /\ attendance' = IF saw[f].attendance \in {"NONE", "UNKNOWN"} THEN "PRESENT" ELSE attendance
    /\ Seeding(f, Filled(got[f], Categories))
    /\ UNCHANGED <<liveVars, status, scoreBy, score, copies, typed, reviewVars, saw, got, ghostVars>>

Rank == [goals |-> 1, assists |-> 2, fairPlay |-> 3, rotations |-> 4]

First(c, cats) == c \in cats /\ \A d \in cats : Rank[c] <= Rank[d]

EmptyButTyped(c) == c = "goals" => ~typed

\* The table of a category is empty: no derived row, and for goals none typed by the coach.
Empty(c) ==
    /\ \A e \in Events : Kind[e] = c => copies[e] = 0
    /\ c = "goals" => ~typed

\* A category is filled only when its table was counted empty.
CountCategory(f, c) ==
    /\ pc[f] = "count"
    /\ First(c, todo[f])
    /\ IF Empty(c)
       THEN Goto(f, "fill") /\ UNCHANGED todo
       ELSE Seeding(f, todo[f] \ {c})
    /\ UNCHANGED <<liveVars, reportVars, reviewVars, saw, got, ghostVars>>

FillCategory(f, c) ==
    /\ pc[f] = "fill"
    /\ First(c, todo[f])
    /\ copies' = AddCopies(OfKind(got[f], {c}))
    /\ Seeding(f, todo[f] \ {c})
    /\ UNCHANGED <<liveVars, status, scoreBy, score, typed, attendance, reviewVars, saw, got, ghostVars>>

\* rebuildActualTimelineForRef, then the result.
Rebuild(f) ==
    /\ pc[f] = "rebuild"
    /\ Goto(f, "finished")
    /\ Forget(f)
    /\ UNCHANGED <<liveVars, reportVars, reviewVars, ghostVars>>

\* Any statement after the compare-and-set may throw.
Fail(f) ==
    /\ pc[f] \in Working
    /\ faults < MaxFaults
    /\ faults' = faults + 1
    /\ Goto(f, "revert")
    /\ Forget(f)
    /\ UNCHANGED <<liveVars, reportVars, reviewVars, stranded, atEnd, retried, settled>>

RevertForgotten(f) ==
    /\ pc[f] = "revert"
    /\ Goto(f, "idle")
    /\ UNCHANGED <<liveVars, reportVars, reviewVars, saw, got, todo, ghostVars>>

\* revertLeagueSessionToActiveOnFailure, then the error is thrown again.
Revert(f) ==
    /\ pc[f] = "revert"
    /\ session' = IF session = "ENDED" THEN "ACTIVE" ELSE session
    /\ retried' = (retried \/ scoreBy = "live")
    /\ Goto(f, "idle")
    /\ UNCHANGED <<rows, reversed, writing, reportVars, reviewVars, saw, got, todo, faults,
                   stranded, atEnd, settled>>

\* The process dies, or the revert itself fails, which is only logged.
Lose(f) ==
    /\ pc[f] \in Working \cup {"revert"}
    /\ faults < MaxFaults
    /\ faults' = faults + 1
    /\ stranded' = TRUE
    /\ Goto(f, "idle")
    /\ Forget(f)
    /\ UNCHANGED <<liveVars, reportVars, reviewVars, atEnd, retried, settled>>

FinishStep(f) ==
    \/ Claim(f) \/ Await(f) \/ Resolve(f) \/ Look(f) \/ Gather(f) \/ Sift(f)
    \/ Create(f) \/ Score(f) \/ ReadAttendance(f) \/ MarkPresent(f) \/ Rebuild(f) \/ Revert(f)
    \/ \E c \in Categories : CountCategory(f, c) \/ FillCategory(f, c)

-----------------------------------------------------------------------------
(* The coach on the report.  A locked report refuses every edit.           *)

Editing ==
    /\ coach = "free"
    /\ status \in {"DRAFT", "REPORTED"}
    /\ edits < MaxEdits
    /\ edits' = edits + 1
    /\ UNCHANGED <<liveVars, finVars, ghostVars, coach>>

\* seedReportFromFinalizedSquad, from the "after match" page or for an absence.
SeedFromSquad ==
    /\ coach = "free"
    /\ status = "NONE"
    /\ status' = "DRAFT"
    /\ attendance' \in {"UNKNOWN", "PRESENT", "NO_SHOW"}
    /\ UNCHANGED <<liveVars, finVars, ghostVars, reviewVars, scoreBy, score, copies, typed>>

EnterScore ==
    /\ Editing
    /\ scoreBy' = "coach" /\ score' = {}
    /\ UNCHANGED <<status, copies, typed, attendance, unreviewed, debrief>>

MarkAttendance(a) ==
    /\ Editing
    /\ attendance # "NONE"
    /\ attendance' = a
    /\ UNCHANGED <<status, scoreBy, score, copies, typed, unreviewed, debrief>>

AddGoal ==
    /\ Editing
    /\ typed' = TRUE
    /\ UNCHANGED <<status, scoreBy, score, copies, attendance, unreviewed, debrief>>

RemoveGoal(e) ==
    /\ Editing
    /\ Kind[e] = "goals" /\ copies[e] > 0
    /\ copies' = [copies EXCEPT ![e] = @ - 1]
    /\ UNCHANGED <<status, scoreBy, score, typed, attendance, unreviewed, debrief>>

\* reviewMatchPeriodTiming does not ask for the report's status.
ReviewTiming ==
    /\ coach = "free"
    /\ unreviewed
    /\ unreviewed' = FALSE
    /\ UNCHANGED <<liveVars, reportVars, debrief, coach, edits, finVars, ghostVars>>

SubmitDebrief ==
    /\ coach = "free"
    /\ status # "NONE" /\ debrief = "DRAFT"
    /\ debrief' = "SUBMITTED"
    /\ UNCHANGED <<liveVars, reportVars, unreviewed, coach, edits, finVars, ghostVars>>

\* Nobody is finishing the match, and nobody can start to.
HandoffOver == session = "ENDED" /\ \A f \in Finishers : pc[f] \notin Working \cup {"revert"}

CompleteWithoutTiming ==
    /\ coach = "free"
    /\ status \in {"DRAFT", "REPORTED"}
    /\ attendance # "UNKNOWN"
    /\ debrief = "SUBMITTED"
    /\ coach' = "completing"
    /\ settled' = HandoffOver
    /\ UNCHANGED <<liveVars, reportVars, unreviewed, debrief, edits, finVars, faults, stranded, atEnd, retried>>

\* completeReport reads the report, the attendance, the timing and the debrief; it does not
\* read the session.
CheckComplete ==
    /\ coach = "free"
    /\ status \in {"DRAFT", "REPORTED"}
    /\ attendance # "UNKNOWN"
    /\ ~unreviewed
    /\ debrief = "SUBMITTED"
    /\ coach' = "completing"
    /\ settled' = HandoffOver
    /\ UNCHANGED <<liveVars, reportVars, unreviewed, debrief, edits, finVars, faults, stranded, atEnd,
                   retried>>

\* The update that locks is unconditional.
Lock ==
    /\ coach = "completing"
    /\ status' = "LOCKED"
    /\ coach' = "free"
    /\ UNCHANGED <<liveVars, scoreBy, score, copies, typed, attendance, unreviewed, debrief, edits,
                   finVars, ghostVars>>

\* reopenReport: the report first, its debrief after it.
Reopen ==
    /\ coach = "free"
    /\ \/ status = "LOCKED" /\ status' \in {"DRAFT", "REPORTED"}
       \/ status = "REPORTED" /\ status' = "DRAFT"
    /\ coach' = "reopening"
    /\ edits < MaxEdits
    /\ edits' = edits + 1
    /\ UNCHANGED <<liveVars, scoreBy, score, copies, typed, attendance, unreviewed, debrief, finVars,
                   ghostVars>>

ReopenDebrief ==
    /\ coach = "reopening"
    /\ coach' = "free"
    /\ debrief' \in {"DRAFT", debrief}   \* the request may die before this write
    /\ UNCHANGED <<liveVars, reportVars, unreviewed, edits, finVars, ghostVars>>

Review ==
    \/ SeedFromSquad \/ EnterScore \/ AddGoal \/ ReviewTiming \/ SubmitDebrief
    \/ CheckComplete \/ Lock \/ Reopen \/ ReopenDebrief
    \/ \E a \in {"UNKNOWN", "PRESENT", "NO_SHOW"} : MarkAttendance(a)
    \/ \E e \in Events : RemoveGoal(e)

-----------------------------------------------------------------------------
Next ==
    \/ \E w \in Writes : CheckWrite(w) \/ InsertWrite(w)
    \/ \E f \in Finishers : Begin(f) \/ FinishStep(f) \/ Fail(f) \/ Lose(f)
    \/ Review

\* The job runs every five minutes, and a request that is running goes on.
Fairness == WF_vars(Begin(Cron)) /\ \A f \in Finishers : WF_vars(FinishStep(f))

Spec == Init /\ [][Next]_vars /\ Fairness

-----------------------------------------------------------------------------
(* Properties.                                                             *)

\* The variables have their types.
TypeOK ==
    /\ session \in {"ACTIVE", "ENDED"}
    /\ rows \subseteq Events /\ reversed \subseteq Events
    /\ writing \subseteq Writes
    /\ status \in {"NONE", "DRAFT", "REPORTED", "LOCKED"}
    /\ scoreBy \in {"nobody", "coach", "live"} /\ score \subseteq Events
    /\ copies \in [Events -> Nat]
    /\ typed \in BOOLEAN
    /\ attendance \in {"NONE", "UNKNOWN", "PRESENT", "NO_SHOW"}
    /\ unreviewed \in BOOLEAN
    /\ debrief \in {"DRAFT", "SUBMITTED"}
    /\ coach \in {"free", "completing", "reopening"}
    /\ pc \in [Finishers -> Steps]
    /\ saw \in [Finishers -> [status : {"NONE", "DRAFT", "REPORTED", "LOCKED"},
                              scoreless : BOOLEAN,
                              attendance : {"NONE", "UNKNOWN", "PRESENT", "NO_SHOW"}]]
    /\ got \in [Finishers -> SUBSET Events]
    /\ todo \in [Finishers -> SUBSET Categories]
    /\ edits \in 0..MaxEdits /\ faults \in 0..MaxFaults
    /\ stranded \in BOOLEAN /\ retried \in BOOLEAN /\ settled \in BOOLEAN
    /\ atEnd \in [rows : SUBSET Events, reversed : SUBSET Events]

\* The revert takes back nobody else's success: whoever was told that the match is finished
\* can rely on it, the session is still ended and there is a report.  The revert only looks at
\* the session's status, so this rests on there never being two callers past the
\* compare-and-set (finishLeagueLiveReporting, revertLeagueSessionToActiveOnFailure).
FinishedStaysFinished ==
    (\E f \in Finishers : pc[f] = "finished") => session = "ENDED" /\ status # "NONE"

\* A session is ended without a report only while somebody is working on it, or after a crash
\* or a failed revert: every other way out of finishLiveReporting leaves an active session for
\* the job, or a report.
EndedMeansReported ==
    ~stranded /\ HandoffOver => status # "NONE"

\* A retry after a failed finish adds nothing to what the failed one had seeded: no live event
\* is turned into two rows of the report (seedReportFromLiveSession's counts before createMany).
NothingSeededTwice == \A e \in Events : copies[e] <= 1

\* A score the handoff filled in is the score of the ended match: it counts every event stored
\* when the session was ended that has not been reversed, and none that was reversed by then.
\* Rows may arrive between the reads.  A retry keeps the first attempt's score and is left out.
ReportCountsEndedMatch ==
    HandoffOver /\ scoreBy = "live" /\ ~retried =>
        /\ atEnd.rows \ reversed \subseteq score
        /\ score \cap atEnd.reversed = {}

\* A report locked by a check made after the handoff was over rests on known attendance, on
\* timing that somebody has reviewed and on a submitted debrief, and stays so (completeReport;
\* a lock checked before that has no such guarantee).
LockedAfterHandoffIsReviewed ==
    status = "LOCKED" /\ settled =>
        attendance # "UNKNOWN" /\ ~unreviewed /\ debrief = "SUBMITTED"

\* The callers, the failures and the coach together keep the promise of HandoffPromise: every
\* step of theirs is a step of it or leaves it alone (finishLeagueLiveReporting as a whole).
Promise ==
    INSTANCE HandoffPromise WITH
        phase <- IF session = "ACTIVE" THEN "playing"
                 ELSE IF HandoffOver THEN "over" ELSE "finishing",
        played <- rows,
        report <- IF status = "NONE" THEN "none" ELSE IF status = "LOCKED" THEN "locked" ELSE "open",
        derived <- {e \in Events : copies[e] > 0},
        lost <- stranded

KeepsHandoff == Promise!Spec

\* Unless a process dies or a revert fails, every session ends with a report, whether or not
\* the coach ever ends it and whatever else fails (the five-minute job).
EventuallyReported ==
    ([]~stranded) => <>[](session = "ENDED" /\ status # "NONE")

=============================================================================
