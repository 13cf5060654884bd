----------------------------- MODULE ReviewJobs -----------------------------
(***************************************************************************)
(* The AI job queue, for one scope of one capability (a match's line-up, a *)
(* round...).  A domain change triggers an enqueue, which asks whether the *)
(* content has been reviewed and creates, revives or rewrites a job row.   *)
(* Runners started by a cron claim the due rows, rebuild the content, ask  *)
(* the provider and store a review.  Runners overlap, triggers overlap,    *)
(* any statement may throw, any process may die.                           *)
(*                                                                         *)
(* Limits.  A content and its fingerprint are the same thing.  Time is     *)
(* left out: a queued row may be claimed at any moment, however long its   *)
(* nextAttemptAt lies ahead.  A batch takes every queued row.  Settings,   *)
(* credential and handler checks are one refusal.  The Assistant Coach's   *)
(* own tables are not modelled.                                            *)
(***************************************************************************)
EXTENDS Naturals, Sequences

CONSTANTS Contents,     \* fingerprints the scope's content can have
          Triggers,     \* calls of triggerAiCapability; a job row is named after its creator
          Runners       \* overlapping runs of processAiJobsBatch

ASSUME JobsAssumption == Contents # {} /\ Triggers # {}

MaxAttempts == 3

VARIABLES
    content,    \* what the scope looks like now
    debounced,  \* which of the two enqueue functions its capability uses
    rows,       \* AiAdvisorJob rows: status "ABSENT" before they are created
    reviews,    \* AiAdvisorReview rows in the order of their commits
    tpc,        \* the next step of each trigger
    tfp,        \* the fingerprint it computed
    target,     \* the queued row it wants to rewrite
    rpc,        \* the next step of each runner
    batch,      \* rows it has claimed and not finished, with the attempts they had
    job,        \* the one it is working on
    snapshot,   \* the content it rebuilt
    olds,       \* the reviews its open transaction has superseded
    seen,       \* ghost: contents the scope has had
    mishaps     \* ghost: which of the things the code does not recover from have happened

triggerVars == <<tpc, tfp, target>>
runnerVars  == <<rpc, batch, job, snapshot, olds>>
vars == <<content, debounced, rows, reviews, triggerVars, runnerVars, seen, mishaps>>

Finished == {"SUCCEEDED", "FAILED"}
AnyContent == CHOOSE c \in Contents : TRUE
AnyRow     == CHOOSE t \in Triggers : TRUE
Absent == [status |-> "ABSENT", fp |-> AnyContent, attempts |-> 0]
NoJob  == [row |-> AnyRow, attempts |-> 0]

Init ==
    /\ content \in Contents
    /\ debounced \in BOOLEAN
    /\ rows = [t \in Triggers |-> Absent]
    /\ reviews = <<>>
    /\ tpc = [t \in Triggers |-> "idle"]
    /\ tfp = [t \in Triggers |-> AnyContent]
    /\ target = [t \in Triggers |-> AnyRow]
    /\ rpc = [r \in Runners |-> "idle"]
    /\ batch = [r \in Runners |-> {}]
    /\ job = [r \in Runners |-> NoJob]
    /\ snapshot = [r \in Runners |-> AnyContent]
    /\ olds = [r \in Runners |-> {}]
    /\ seen = {content}
    /\ mishaps = {}

Standing == {i \in DOMAIN reviews : reviews[i].status = "SUCCEEDED"}

\* The query both sides make: a SUCCEEDED review of this very content.
Reviewed(c) == \E i \in Standing : reviews[i].fp = c

HeldForScope(c, j) == c \in Contents /\ rows[j].status # "ABSENT"

Held(c, j) == rows[j].status # "ABSENT" /\ rows[j].fp = c

\* The unique index on the fingerprint.
Exists(c) == \E j \in Triggers : Held(c, j)

Mishap(what, happened) == mishaps' = IF happened THEN mishaps \cup {what} ELSE mishaps

-----------------------------------------------------------------------------
(* Triggers.                                                               *)

TriggerAt(t, step) == tpc' = [tpc EXCEPT ![t] = step]

\* The call returns, and what it has read goes with it.
Return(t) ==
    /\ TriggerAt(t, "done")
    /\ tfp' = [tfp EXCEPT ![t] = AnyContent]
    /\ target' = [target EXCEPT ![t] = AnyRow]

GoOn(t, step) == TriggerAt(t, step) /\ UNCHANGED <<tfp, target>>

\* A mutation commits, and its caller goes on to triggerAiCapability.  Content may be as it was.
Edit(t, c) ==
    /\ tpc[t] = "idle"
    /\ content' = c
    /\ seen' = seen \cup {c}
    /\ Mishap("returned", c \in seen \ {content})
    /\ GoOn(t, "build")
    /\ UNCHANGED <<debounced, rows, reviews, runnerVars>>

\* triggerAiCapability builds the context to compute the fingerprint.
BuildContext(t) ==
    /\ tpc[t] = "build"
    /\ tfp' = [tfp EXCEPT ![t] = content]
    /\ TriggerAt(t, "look")
    /\ UNCHANGED <<content, debounced, rows, reviews, target, runnerVars, seen, mishaps>>

\* "ALREADY_SUCCEEDED", or on to the rows.
LookForReview(t) ==
    /\ tpc[t] = "look"
    /\ IF Reviewed(tfp[t]) THEN Return(t) ELSE GoOn(t, IF debounced THEN "find" ELSE "revive")
    /\ UNCHANGED <<content, debounced, rows, reviews, runnerVars, seen, mishaps>>

\* enqueueDebouncedAiJob: the scope's queued row, if it has one.
FindQueued(t) ==
    /\ tpc[t] = "find"
    /\ \/ \E j \in Triggers :
             /\ rows[j].status = "QUEUED"
             /\ target' = [target EXCEPT ![t] = j]
             /\ TriggerAt(t, "collapse")
             /\ UNCHANGED tfp
       \/ /\ \A j \in Triggers : rows[j].status # "QUEUED"
          /\ GoOn(t, "revive")
    /\ UNCHANGED <<content, debounced, rows, reviews, runnerVars, seen, mishaps>>

\* The update goes by the row's id, whatever has become of the row; the unique index may refuse.
Collapse(t) ==
    /\ tpc[t] = "collapse"
    /\ IF \E j \in Triggers \ {target[t]} : Held(tfp[t], j)
       THEN UNCHANGED <<rows, mishaps>>
       ELSE /\ rows' = [rows EXCEPT ![target[t]].fp = tfp[t], ![target[t]].attempts = 0]
            /\ Mishap("misdirected", \/ rows[target[t]].status # "QUEUED"
                                     \/ Held(content, target[t]) /\ tfp[t] # content)
    /\ Return(t)
    /\ UNCHANGED <<content, debounced, reviews, runnerVars, seen>>

\* Whatever has become of the row of the same content, it is queued again.
ReviveAnyStatus(t) ==
    /\ tpc[t] = "revive"
    /\ IF Exists(tfp[t])
       THEN /\ rows' = [j \in Triggers |-> IF Held(tfp[t], j)
                            THEN [rows[j] EXCEPT !.status = "QUEUED", !.attempts = 0]
                            ELSE rows[j]]
            /\ Return(t)
       ELSE GoOn(t, "create") /\ UNCHANGED rows
    /\ UNCHANGED <<content, debounced, reviews, runnerVars, seen, mishaps>>

\* reviveFailedJobIfPresent: a failed row of the same content is queued again.
Revive(t) ==
    /\ tpc[t] = "revive"
    /\ IF \E j \in Triggers : Held(tfp[t], j) /\ rows[j].status = "FAILED"
       THEN /\ rows' = [j \in Triggers |-> IF Held(tfp[t], j)
                            THEN [rows[j] EXCEPT !.status = "QUEUED", !.attempts = 0]
                            ELSE rows[j]]
            /\ Return(t)
       ELSE GoOn(t, "create") /\ UNCHANGED rows
    /\ UNCHANGED <<content, debounced, reviews, runnerVars, seen, mishaps>>

\* A new row, or the unique index refuses and the caller is told that a job is under way.
CreateRow(t) ==
    /\ tpc[t] = "create"
    /\ rows' = IF Exists(tfp[t]) THEN rows
               ELSE [rows EXCEPT ![t] = [status |-> "QUEUED", fp |-> tfp[t], attempts |-> 0]]
    /\ Return(t)
    /\ UNCHANGED <<content, debounced, reviews, runnerVars, seen, mishaps>>

\* The process dies, or a statement throws and triggerAiCapability swallows it.
LoseTrigger(t) ==
    /\ tpc[t] \notin {"idle", "done"}
    /\ Return(t)
    /\ Mishap("died", TRUE)
    /\ UNCHANGED <<content, debounced, rows, reviews, runnerVars, seen>>

TriggerStep(t) ==
    BuildContext(t) \/ LookForReview(t) \/ FindQueued(t) \/ Collapse(t) \/ Revive(t) \/ CreateRow(t)

-----------------------------------------------------------------------------
(* Runners: processAiJobsBatch.                                            *)

RunnerAt(r, step) == rpc' = [rpc EXCEPT ![r] = step]

OthersStay == UNCHANGED <<content, debounced, triggerVars, seen>>

DueOrRunning == {j \in Triggers : rows[j].status \in {"QUEUED", "RUNNING"}}

Due == {j \in Triggers : rows[j].status = "QUEUED"}

\* claimDueJobs: one statement selects the rows and marks them.
Claim(r) ==
    /\ rpc[r] = "idle" /\ batch[r] = {} /\ Due # {}
    /\ rows' = [j \in Triggers |->
                   IF j \in Due THEN [rows[j] EXCEPT !.status = "RUNNING"] ELSE rows[j]]
    /\ batch' = [batch EXCEPT ![r] = {[row |-> j, attempts |-> rows[j].attempts] : j \in Due}]
    /\ OthersStay /\ UNCHANGED <<reviews, rpc, job, snapshot, olds, mishaps>>

\* The next job of the batch.
Take(r) ==
    /\ rpc[r] = "idle"
    /\ \E j \in batch[r] : job' = [job EXCEPT ![r] = j]
    /\ RunnerAt(r, "rebuild")
    /\ OthersStay /\ UNCHANGED <<rows, reviews, batch, snapshot, olds, mishaps>>

\* Settings, connection and scope are checked, and the content is built anew.
Rebuild(r) ==
    /\ rpc[r] = "rebuild"
    /\ \/ RunnerAt(r, "fail") /\ UNCHANGED snapshot
       \/ RunnerAt(r, "look") /\ snapshot' = [snapshot EXCEPT ![r] = content]
    /\ OthersStay /\ UNCHANGED <<rows, reviews, batch, job, olds, mishaps>>

\* Somebody may have reviewed this very content already.
LookAgain(r) ==
    /\ rpc[r] = "look"
    /\ RunnerAt(r, IF Reviewed(snapshot[r]) THEN "succeed" ELSE "ask")
    /\ OthersStay /\ UNCHANGED <<rows, reviews, batch, job, snapshot, olds, mishaps>>

\* The provider answers usefully, fails for the moment, or fails for good.
AskProvider(r) ==
    /\ rpc[r] = "ask"
    /\ \/ RunnerAt(r, "persist")
       \/ RunnerAt(r, IF job[r].attempts + 1 < MaxAttempts THEN "retry" ELSE "fail")
       \/ RunnerAt(r, "fail")
    /\ OthersStay /\ UNCHANGED <<rows, reviews, batch, job, snapshot, olds, mishaps>>

\* persistSuccessfulReview, one transaction: the update sees what is committed when it starts...
Supersede(r) ==
    /\ rpc[r] = "persist"
    /\ olds' = [olds EXCEPT ![r] = Standing]
    /\ RunnerAt(r, "commit")
    /\ OthersStay /\ UNCHANGED <<rows, reviews, batch, job, snapshot, mishaps>>

Outdated(S) == [i \in DOMAIN reviews |-> IF i \in S THEN [reviews[i] EXCEPT !.status = "SUPERSEDED"]
                                          ELSE reviews[i]]

CommitThenSupersede(r) ==
    /\ rpc[r] = "commit"
    /\ reviews' = Append(Outdated(olds[r]), [fp |-> snapshot[r], status |-> "SUPERSEDED"])
    /\ olds' = [olds EXCEPT ![r] = {}]
    /\ RunnerAt(r, "succeed")
    /\ OthersStay /\ UNCHANGED <<rows, batch, job, snapshot, mishaps>>

\* ... and what it superseded and the new review appear together.
Commit(r) ==
    /\ rpc[r] = "commit"
    /\ reviews' = Append(Outdated(olds[r]), [fp |-> snapshot[r], status |-> "SUCCEEDED"])
    /\ Mishap("overtaken", snapshot[r] # content /\ \E i \in olds[r] : reviews[i].fp = content)
    /\ olds' = [olds EXCEPT ![r] = {}]
    /\ RunnerAt(r, "succeed")
    /\ OthersStay /\ UNCHANGED <<rows, batch, job, snapshot>>

\* The job is over; what was read for it goes with it.
Leave(r) ==
    /\ batch' = [batch EXCEPT ![r] = @ \ {job[r]}]
    /\ job' = [job EXCEPT ![r] = NoJob]
    /\ snapshot' = [snapshot EXCEPT ![r] = AnyContent]
    /\ olds' = [olds EXCEPT ![r] = {}]
    /\ RunnerAt(r, "idle")

\* The three updates go by the row's id.
MarkSucceeded(r) ==
    /\ rpc[r] = "succeed"
    /\ rows' = [rows EXCEPT ![job[r].row].status = "SUCCEEDED"]
    /\ Leave(r)
    /\ OthersStay /\ UNCHANGED <<reviews, mishaps>>

MarkFailed(r) ==
    /\ rpc[r] = "fail"
    /\ rows' = [rows EXCEPT ![job[r].row].status = "FAILED"]
    /\ Leave(r)
    /\ OthersStay /\ UNCHANGED <<reviews, mishaps>>

RetryUncounted(r) ==
    /\ rpc[r] = "retry"
    /\ rows' = [rows EXCEPT ![job[r].row].status = "QUEUED"]
    /\ Leave(r)
    /\ OthersStay /\ UNCHANGED <<reviews, mishaps>>

\* The number of attempts is the one the claim returned, plus one.
MarkRetry(r) ==
    /\ rpc[r] = "retry"
    /\ rows' = [rows EXCEPT ![job[r].row].status = "QUEUED",
                            ![job[r].row].attempts = job[r].attempts + 1]
    /\ Leave(r)
    /\ OthersStay /\ UNCHANGED <<reviews, mishaps>>

\* Any statement may throw, which rolls an open transaction back; the job is then marked failed.
Throw(r) ==
    /\ rpc[r] \notin {"idle", "fail"}
    /\ olds' = [olds EXCEPT ![r] = {}]
    /\ RunnerAt(r, "fail")
    /\ OthersStay /\ UNCHANGED <<rows, reviews, batch, job, snapshot, mishaps>>

\* Marking a job failed fails too, which is only logged: the row stays RUNNING.
LoseMark(r) ==
    /\ rpc[r] = "fail"
    /\ Leave(r)
    /\ Mishap("died", TRUE)
    /\ OthersStay /\ UNCHANGED <<rows, reviews>>

\* The process dies; every row of its batch stays RUNNING.
Die(r) ==
    /\ batch[r] # {}
    /\ batch' = [batch EXCEPT ![r] = {}]
    /\ job' = [job EXCEPT ![r] = NoJob]
    /\ snapshot' = [snapshot EXCEPT ![r] = AnyContent]
    /\ olds' = [olds EXCEPT ![r] = {}]
    /\ RunnerAt(r, "idle")
    /\ Mishap("died", TRUE)
    /\ OthersStay /\ UNCHANGED <<rows, reviews>>

RunnerStep(r) ==
    \/ Claim(r) \/ Take(r) \/ Rebuild(r) \/ LookAgain(r) \/ AskProvider(r)
    \/ Supersede(r) \/ Commit(r) \/ MarkSucceeded(r) \/ MarkFailed(r) \/ MarkRetry(r)

-----------------------------------------------------------------------------
Next ==
    \/ \E t \in Triggers : TriggerStep(t) \/ LoseTrigger(t) \/ \E c \in Contents : Edit(t, c)
    \/ \E r \in Runners : RunnerStep(r) \/ Throw(r) \/ LoseMark(r) \/ Die(r)

\* A request goes on, a cron comes back and a batch goes on.
Fairness ==
    /\ \A t \in Triggers : WF_vars(TriggerStep(t))
    /\ \A r \in Runners : WF_vars(RunnerStep(r))

Spec == Init /\ [][Next]_vars /\ Fairness

-----------------------------------------------------------------------------
(* Properties.                                                             *)

Row    == [status : {"ABSENT", "QUEUED", "RUNNING"} \cup Finished, fp : Contents, attempts : Nat]
Review == [fp : Contents, status : {"SUCCEEDED", "SUPERSEDED"}]
Claimed == [row : Triggers, attempts : Nat]

\* The variables have their types.
TypeOK ==
    /\ content \in Contents /\ debounced \in BOOLEAN
    /\ rows \in [Triggers -> Row]
    /\ reviews \in Seq(Review)
    /\ tpc \in [Triggers -> {"idle", "build", "look", "find", "collapse", "revive", "create", "done"}]
    /\ tfp \in [Triggers -> Contents] /\ target \in [Triggers -> Triggers]
    /\ rpc \in [Runners -> {"idle", "rebuild", "look", "ask", "persist", "commit", "succeed",
                            "retry", "fail"}]
    /\ batch \in [Runners -> SUBSET Claimed] /\ job \in [Runners -> Claimed]
    /\ snapshot \in [Runners -> Contents]
    /\ olds \in [Runners -> SUBSET Nat]
    /\ seen \subseteq Contents
    /\ mishaps \subseteq {"died", "returned", "misdirected", "overtaken"}

\* A row that somebody works on is RUNNING and nobody else works on it, whatever revives,
\* rewrites or claims the rows meanwhile: the updates that end a job go by the row's id alone,
\* so a second owner would undo the first one's outcome (claimDueJobs).
ClaimedOnce ==
    \A r \in Runners : \A a \in batch[r] :
        /\ rows[a.row].status = "RUNNING"
        /\ \A s \in Runners : \A b \in batch[s] : a.row = b.row => r = s /\ a = b

\* Once something has been reviewed, the newest review stands: two transactions that overlap
\* may leave two reviews standing but never none (persistSuccessfulReview: "nothing is ever
\* without content").
NewestStands == reviews # <<>> => reviews[Len(reviews)].status = "SUCCEEDED"

\* Statement by statement, the triggers and the runners keep JobPromise: one runner at a time has
\* a row and decides it, success is final, and a failure is taken up again only when asked for
\* (claimDueJobs: "concurrent cron invocations can never claim the same job twice").
Having(j) == {r \in Runners : \E a \in batch[r] : a.row = j}

Promise == INSTANCE JobPromise WITH
    Rows     <- Triggers,
    status   <- [j \in Triggers |-> rows[j].status],
    hands    <- [j \in Triggers |-> Having(j)],
    attempts <- [j \in Triggers |-> rows[j].attempts]

KeepsJobPromise == Promise!Spec

\* Unless a process dies or a mark is lost, every row that was queued is decided: retries end.
JobsConclude ==
    ([]("died" \notin mishaps)) =>
        \A j \in Triggers : rows[j].status \in {"QUEUED", "RUNNING"} ~> rows[j].status \in Finished

\* Once the edits end, the scope's content has a standing review, or a row that says that it
\* failed.  It takes one of four mishaps to prevent that: a process died, an edit went back to
\* an earlier content, a rewrite hit a row that was no longer queued, or a slower runner's
\* review of an earlier content replaced this one.
CurrentContentReviewed ==
    ([](mishaps = {})) =>
        <>[]((\E t \in Triggers : tpc[t] # "idle") =>
                \/ Reviewed(content)
                \/ \E j \in Triggers : Held(content, j) /\ rows[j].status = "FAILED")

=============================================================================
