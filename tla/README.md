# Matchboard in TLA+

Matchboard is a team-management application for youth football: rounds and
matches are planned, squads selected, matches reported live from the touchline,
and the live events become a post-match report. Much of the code is ordinary
request/response work on one database transaction at a time. Five parts are not,
because several callers work on the same rows with awaits in between, die
half-way, or are called again:

* **live reporting**: browsers with unreliable connections record events, a
  Cloudflare Durable Object puts them in order, a Postgres database keeps them;
* **the handoff** of a finished match to its report, by the coach and a job;
* **the planning boundary**, which turns a plan into a baseline when a match
  starts although nothing watches the clock;
* **the AI job queue** with overlapping triggers and runners;
* **the mail outbox** with overlapping senders and repeated webhooks.

This project models these parts, checks them with TLC and proves what matters
most with TLAPS.

All source paths below are relative to the repository root; "coordinator" is
`workers/live-match/src/match-session-object.ts` with its decisions in
`state.ts`.

## 1. The system

### Components, state, operations

| Component | State it keeps | Operations | Model |
|---|---|---|---|
| **Coordinator** (Durable Object, one per match) | `meta` (version, clock anchor, end), one record per accepted event (status, version, retry time, attempts), one alarm slot, attached sockets | `authenticate` (with the first reconciliation), `recordEvent`, `endSession`, `getSnapshot`, `syncPending`, alarm (lifecycle expiry, retry sweep) | `MatchSession` |
| **Live domain rules** (`state.ts`, `src/lib/live-match/live-match-domain.ts`, `session-clock.ts`) | none | classification of events; clock, line-up and annotation preconditions; the running-period guard | `LiveMatchDomain` |
| **Canonical live store** (`live-match-event-store.ts`, `live-match-session.ts`, internal API routes, planned-rotation action) | session row (status, clock), event rows with two unique indexes | `recordEventForActor`, `persistLiveSessionClock`, snapshot, planned changes | `CanonicalStore` |
| **Browser outbox** (`live-local-store.ts`, `live-match-client.tsx`, `use-live-realtime.ts`, `realtime-client.ts`) | one IndexedDB row per command (six statuses), local ordinals, socket, handlers in progress | record, send loops, answers and broadcasts, healing, settle a conflict, finish, reload | `LiveOutbox` |
| **Finish live reporting** (`finish-live-reporting.ts`, `reconcile-expired-live-reporting-sessions.ts`) and **post-match report** (`reports/report-mutations.ts`, `post-match/debrief/service.ts`, `timing-review.ts`) | session status, event rows and reversals, the report with score, derived rows, attendance, timing, debrief | compare-and-set, timing, seed (create, merge, lost race), rebuild, revert, wait for the winner, time-out job; edit, review, complete, lock, reopen | `FinishReporting` |
| **Selection planning** (`selection/planning-boundary.ts`, `capture-planning-baseline.ts`, `round-finalization-transitions.ts`, `reconcile-integrity.ts`, draft edits, `matches/actions.ts`, `match-domain.ts`) | round status; per match: planning closed, cancelled, live session, draft and final selections | capture (claim, fold, commit), edit, regenerate, reschedule and reopen, move, cancel, restore, create, heal | `PlanningBoundary` |
| **AI job queue** (`ai/jobs/enqueue.ts`, `runner.ts`, `triggers.ts`) | job rows (unique content), reviews | trigger, enqueue, collapse, revive, claim, review, supersede, retry, fail | `ReviewJobs` |
| **Email outbox** (`email/outbox.ts`, `webhook-handler.ts`, `brevo-provider.ts`) | entry, delivery, webhook event rows | send now, batch, retry, give up, cancel, apply provider events | `EmailOutbox` |
| Projection and reversal, organisations and invitations, seasons, policies, insights, opponents, UI, security broker | — | pure folds, single transactions, stateless rules, read-only views, a separate service | not modelled (section 7) |

### How they interact

    browser A --recordEvent--> coordinator --persistEvent (HTTP)--> canonical store
       ^  |                      |   ^                                  ^  ^
       |  +--- broadcasts <------+   +--- snapshot (first authenticate) |  |
       |                                                                |  |
       +--- getRecentEvents, persistClock, finish, planned rotation ----+  |
    browser B ---------------------------------------------------------------

A command is written to the browser's outbox *before* it is sent. The
coordinator makes it durable, gives it the next version and only then tries to
persist it; a failed attempt is retried from the alarm with a bounded number of
attempts. The answer to the browser may be "pending", so the outcome also comes
as a broadcast, which may be lost; the browser then *heals* its outbox against
the canonical rows. Three writers bypass the coordinator: the planned-rotation
action, the stored clock, and finishing, which ends the session row with a
compare-and-set and reopens it when a later step fails.

The other parts meet the live session at one row or one call each: finishing
reads the rows `recordEvent` may still be inserting and writes the report;
starting a live session forces the capture of the plan; mutations of reports and
plans trigger AI jobs; inviting a member writes an outbox entry and sends it.

### What is hard

* **Awaits**: the coordinator reads its metadata, awaits a fetch, and writes;
  the browser reads its outbox, awaits a fetch, and writes; the store reads the
  session row, then inserts.
* **Two clocks, two orders**: acceptance order at the coordinator, insertion
  order at the store, press order on the device.
* **Loss**: requests that go on after their caller gave up, answers and
  broadcasts lost with a socket, restarts in the middle of an attempt.
* **Statements, not transactions**: a finish, a capture, an enqueue and a send
  are sequences of statements, each of which may fail, with others in between;
  most updates go by a row's id, whatever its status has become.
* **Claims**: a compare-and-set (session, plan), a locking update (jobs), a
  unique index (report, content, webhook event) or nothing at all (mail).
* **One alarm slot** for two purposes.
* **Convergence**: accepted events are decided, abandoned sessions end, a coach
  can finish.

`PROJECT.json` lists the most important hazards at the lines where they bite.

### What makes each component correct

* Coordinator: an event is accepted once, its version and verdict are final;
  "persisted" means stored; retries and lifecycle checks are always scheduled;
  a session ended by hand has nothing pending; an ended session stays ended;
  the period given to clients never goes back; versions are unique.
* Domain rules: rotations of one player alternate; clock transitions go forward.
* Store: every coordinator row was accepted first and carries its version.
* Browser: what the device calls persisted is stored; only stored commands are
  deleted; an answer is never taken for another send's; a loop keeps the order
  of dependent commands; finishing succeeds in the end.
* Handoff: a finish that was reported stands; an ended session has its report;
  nothing is seeded twice; the score is the ended match's; a locked report has
  been reviewed; a report comes in the end.
* Planning: a closed plan is a whole baseline; a round is final exactly when its
  matches are closed; a kickoff is noticed.
* Jobs: a row has one owner; a reviewed scope keeps a review; claimed rows end;
  the current content is reviewed.
* Mail: one message per entry unless something went wrong on the way; an event
  is applied once; sending ends.

Where the code does not quite provide this, the property names the exceptions
one by one (ghost variables `stranded`, `late`, `undone`, `excused`, `mishaps`,
`risk`...). Each exception is a hazard of the code, listed as such.

## 2. The modules

| Module | What it is |
|---|---|
| `LiveMatchDomain` | constants (`Events`, `Planned`, `Command`), records, classification, preconditions — pure operators |
| `CanonicalStore` | session row, rows, requests in progress; `recordEventForActor` as two steps |
| `MatchSession` | the coordinator, EXTENDS `CanonicalStore`: the composed system |
| `DeliveryPromise` | abstract specification: what a browser is promised about one event |
| `HandoffPromise` | abstract specification: what a coach is promised about the end of a match and its report |
| `JobPromise` | abstract specification: what the job queue promises about each row |
| `LiveOutbox` | the browser; its other end is `DeliveryPromise` through `INSTANCE` |
| `FinishReporting` | the handoff to the report, with the coach's work on the report |
| `PlanningBoundary` | the planning boundary of one round |
| `ReviewJobs` | the AI job queue, for one scope |
| `EmailOutbox` | one entry of the mail outbox, with the provider's webhooks |
| `MC…` | small instances for TLC, one module per component |
| `MatchSession_proofs` → `DeliveryPromise_proofs` → `SessionOrder_proofs` | proofs about the coordinator and the store |
| `LiveOutbox_proofs` | proofs about the browser |
| `FinishReporting_proofs`, `PlanningBoundary_proofs`, `ReviewJobs_proofs`, `EmailOutbox_proofs` | proofs about the other four components |

The live part is composed of two halves that meet at `DeliveryPromise`. The coordinator
and the store are *proved* to implement it (`KeepsPromise`), so the browser is
modelled against the promise instead of against alarms, sequences and retries.
The promise leaves one thing open on purpose: a rejected or abandoned event may
still turn up in the store, because an attempt nobody waits for can go through.
The browser's model must, and does, live with that.

`HandoffPromise` does the same for the handoff. It knows no callers, statements or
retries: a match is playing, being finished, or over for good; a report is none,
open or locked; live events reach it only while the match is being finished, each
once; what is over has a report unless the handoff was *lost* on the way. In
`FinishReporting` the phase is read off the session row, the callers' positions and
`finished`, the report's rows off `copies`, and `KeepsHandoff` is the refinement. The promise
is silent on two points where the code promises nothing: the live score may
replace the coach's while the match is being finished, and a match that was taken
back goes on with whatever its report has got by then.

`JobPromise` is the state machine of one job row as whoever asks for a review may see
it, without contents, statements or batches: one runner at a time has a row and
decides it, success is final, a failure is taken up again only when asked for, and a retry is one of
fewer than `MaxAttempts`. In `ReviewJobs` the runner that has a row is read off the batches, and
`KeepsJobPromise` is the refinement. The promise names the weakness, too: a runner may let go of its
rows without deciding them, and such a row is RUNNING in nobody's hands for ever.

### Correspondence to the code

**Atomicity.** In the coordinator a stretch between two outbound fetches is one
action: the runtime's gates admit no other message while a handler waits for its
own storage. Three awaits let others in — `persistEvent` in `recordEvent`, the
same call in the sweep, `fetchSnapshot` during initialisation — and are split.
In the store a request is checked (session, guard, duplicate) and inserted in
two steps. In the browser one IndexedDB transaction, or one message with the
writes it causes, is one action.

**Coordinator.** `records[i]` is the stored `AcceptedEventRecord`;
`retry` is its `nextRetryAt` ("unset", "future", "due"). `Authenticate`,
`ReadSnapshot`, `FinishReconcile`/`FailReconcile` are `handleAuthenticate` with
`reconcileFromCanonicalSnapshot`; `RecordEvent` and `PersistSucceeds` /
`PersistRejected` / `PersistFails` are `handleRecordEvent` before and after its
fetch; `AlarmFires` and `Resume` are `alarm()`. `refreshAlarm` is part of every
action whose handler calls it. A request whose caller has gone
(`awaited = FALSE`) goes on and may still write its row. `Crash` drops
handlers and sockets, keeps storage and fires an interrupted alarm again.
Time is reduced to comparisons: a backoff is over or not, the deadline has
passed or not, reporting has been quiet or not.

**Browser.** `outbox[e]` is the row's status, `ordinal[e]` its `localOrdinal`.
A loop is one `syncPendingCommands` (or the single send of
`recordEventLocal`): `todo` what it still has to send of the list it read,
`passed` what it has gone past, `current` the call it waits for, `blocked` its
local `blockedOnStateSensitive`. `healing[h]` is one
`reconcileOutboxWithServer`, from the five-second poll or from the finish
handler, with what it listed and what it fetched. `finish` is the position in
`handleEndSession`. `link` is the realtime client: "up" means authenticated,
"retrying" that a backoff timer or handshake is running, "down" that the client
was thrown away. A socket that goes takes the wire with it; calls under way may
still arrive (`strays`) with nobody to hear the answer.

**Handoff** (`FinishReporting`). One action per database statement of
`finishLeagueLiveReporting` and of `seedReportFromLiveSession` inside it: `Claim`
(the compare-and-set), `Resolve` (timing), `Look`, `Gather`, `Sift` (report,
rows, reversals — three reads), `Create` or `Score`, `ReadAttendance`,
`MarkPresent`, then `CountCategory`/`FillCategory` for each table, `Rebuild`.
`Fail` is any of them throwing, `Revert` the catch, `Lose` a process that dies or
a revert that fails. `Begin(Cron)` is the five-minute job. `copies[e]` counts the
report rows an event has produced, `score` is the set of events in the score
that was written: a wrong sum is a wrong set. Rows arrive by `CheckWrite` and
`InsertWrite`, as in `CanonicalStore`; `FinishSession` and `RevertSession` there
are this module seen from the session row. The coach's mutations of the report
are one step each, except completing and reopening, which are two.

**Planning** (`PlanningBoundary`). One round; `here` are its matches, everything
else is "away". `Claim` sets `planningClosedAt` in a statement of its own; `Fold`
and `Commit` are the capture's transaction, split because it counts the open
matches without seeing captures that have not committed. `Notice` is any page or
edit whose boundary check finds the kickoff passed, `StartLive` the forced
capture. `Check` … `AddPlayer`/`ClearPlan`/`Regenerate` are an edit with its
check before. `Reschedule` → `Reopen` → `SetDate`/`MoveAway`, `Arrive` → `Heal` →
`Enter`, `Cancel`, `Restore` and `Reconcile` → `DemoteRound` are the server
actions with their transactions as single steps.

**Jobs** (`ReviewJobs`). A row is named after the trigger that created it; its
content is the unique fingerprint. `debounced` selects `enqueueAiJob` or
`enqueueDebouncedAiJob`, whose collapse rewrites a queued row. `Claim` is one SQL
statement; `Supersede` and `Commit` are the two ends of one transaction. `Edit`
changes the content, `BuildContext` and `Rebuild` read it.

**Mail** (`EmailOutbox`). `Pick` reads the entry (the request's send and the
cron's batch differ in what they accept), then `Mark`, `Send`, `MarkSent`,
`MarkDelivery`, or `Retry`; `Throw` is the catch around all of them. `Send`
includes the lost answer. `Post` … `Look`, `Record`, `Match`, `Apply` are the
statements of `processBrevoWebhookEvents`.

**Bounds.** `MaxFaults`, `MaxRows`, `MaxEdits`, `MaxOps`, `MaxMessages` bound the
environment in these four modules; `MaxAttempts` (3) and `MaxRetries` are the
code's own. In the live part, `MaxRetry` is the program's own ceiling (5 in the code).
`MaxCrashes`, `MaxFinishes`, `MaxOutages`, `MaxReloads` and the number of
`Loops` bound the environment and appear in guards only. `Possible` selects which of
the mishaps of the browser's world can occur, so that a run can say under what
conditions it holds. In the code any number of loops can run at once; a run has
the finish handler's and one other.

## 3. The runs

Times are for two workers.

| Run | Instance | Checks |
|---|---|---|
| `coordinator` | two period transitions, one reporter, retry ceiling 1, a restart, one finish that may be reverted (697k states, 67 s) | `TypeOK`, `PersistedIsCanonical`, `RowWasAccepted`, `AlarmCoversRetries`, `LifecycleCheckArmed`, `ManualEndIsSettled`, `DecisionsAreFinal`, `PeriodNeverMovesBack`, and the refinement `KeepsPromise` |
| `two_devices` | two reporters, three rotations of one player (498k, 34 s) | `NoSequenceCollision`, `RotationsAlternate`, `EndIsFinal` |
| `planned_rotation` | a reporter and a viewer, a row written past the coordinator, a restart, fairness (129k, 50 s) | `RetriesConclude`, `AcceptedIsDecided`, `AbandonedSessionEnds` |
| `outbox` | one command, every mishap, an outage, a reload (1.7M, 55 s) | `TypeOK`, `ConfirmedOnDeviceIsStored`, `OnlyStoredIsDeleted` |
| `outbox_pair` | a substitution's two halves, an outage, replaced sockets (791k, 30 s) | `LoopKeepsOrder`, `AnswersMatchSends` |
| `outbox_finish` | one command, poll, refused finishes, an outage, a reload, fairness (112k, 35 s) | `FinishGetsThrough` |
| `finish` | the coach and the job, one scoring event and one with a scorer, two inserts (reversals included), one fault, one edit, fairness (882k, 96 s) | `FinishedStaysFinished`, `EndedMeansReported`, `NothingSeededTwice`, `ReportCountsEndedMatch`, `LockedAfterHandoffIsReviewed`, the refinement `KeepsHandoff`, `EventuallyReported` |
| `planning` | two matches, one player, two requests, one operation, one dying request, fairness (304k, 108 s) | `ClosedPlanIsFrozen`, `FinalizedRoundIsClosed`, `ClosedRoundIsFinalized`, `KickoffCloses` |
| `jobs` | two contents, two triggers, two runners, any number of throws and crashes, fairness (184k, 62 s) | `ClaimedOnce`, `NewestStands`, the refinement `KeepsJobPromise`, `JobsConclude`, `CurrentContentReviewed` |
| `mail` | the request and one cron, two posts of one event, two retries, two messages, one crash, fairness (934k, 108 s) | `SentOnce`, `EventAppliedOnce`, `MailConcludes` |

Why the bounds suffice for what is asked: the record-level properties concern
one event against concurrent attempts, so one retry and one restart already give
two overlapping attempts, one of them abandoned, and an exhausted ceiling. The
order properties need two events (versions, periods) or three (two rotations in
one direction and the one between). In the browser, the races for one row need
one command with two loops and two healers; order and mixed-up answers need two
commands. A finish needs two callers for the compare-and-set, one fault for the
revert and one retry after it, and two event kinds for what the nested create
and the later tables seed. A round needs two matches for captures that overlap
and two requests for an edit, a reopen or a healing that races one; with two
operations per behaviour the safety properties of `planning` were checked too
(2.4M states). A job needs two triggers and two contents for a collapse and two
runners for overlapping transactions; a mail a second sender and a second
message to be sent twice, two posts to be applied twice. The theorems of
section 5 remove the bounds for most of them.

The coordinator's runs check deadlock. The others say `CHECK_DEADLOCK FALSE`:
a finished session, a locked report, a closed round, a queue without edits and an
entry that is sent really stop.

### Runs that end in a violation

Each checks one sentence of a comment against the code.

| Run | Sentence | What happens instead |
|---|---|---|
| `stale_reconcile` | `state.ts:902`: the object resumes "at the correct next sequence instead of colliding" | metadata read before the snapshot fetch is written back over commands accepted meanwhile |
| `finish_wedged` | `match-session-object.ts:484`: an exhausted event is "reconnect-recoverable … a later duplicate resend … can still succeed" | the resend is answered "pending" without an attempt; healing, resending and refusing to finish repeat for ever |

`finish_wedged` is worth reading beside `FinishGetsThrough` in the passing run:
finishing does get through as long as the coordinator never gives up.

### Other disagreements found

Seen while modelling, or in earlier runs of these models. They have no run of
their own; `PROJECT.json` lists most of them at their lines, with the property
that comes closest.

*Live part.* `state.ts:353`: a terminally failed event "will never exist in
Neon" — it does when the attempt was committed, its answer lost and the session
ended before the retry. `state.ts:828`: a pending event without a retry time has
its first attempt "still in flight" — after a restart nothing is in flight and it
blocks `endSession`. `live-match-session.ts:159`: a stale client "cannot move the
stored period backwards" — two devices that pass the check together can.
`live-match-client.tsx:759`: dependent commands wait rather than "racing ahead" —
a fresh command is sent at once, past one still waiting.

*Handoff.* "Never clobber a manually entered" score holds for a score there when
the report was read; one entered before the write is overwritten. When the
squad's report is created between the reading and the create, it is adopted as
it is and the live score, goals and rotations are not merged. A retry keeps the
score of the failed attempt although the session was open in between. A lock
checked while a finish is still running can end with timing nobody reviewed.

*Planning.* A request that dies between the claim and the transaction leaves a
closed match with drafts for ever. The last open match of a round being
cancelled or moved away leaves the round a draft for ever. A reopened plan can be
closed again before its new date is written.

*Jobs.* A row whose runner died stays RUNNING, and its content is refused as
already under way, for ever. Content that returns to an earlier state is never
reviewed again once that row is over and its review superseded. A slow run can
replace the review of newer content.

*Mail.* Entries are not claimed, so overlapping senders send twice ("No duplicate
notifications from retries"). A webhook that dies between its two writes loses
the event. A cancelled mail may still go out and its status be overwritten.

## 4. Fairness

*Coordinator* (`planned_rotation`): an awaited fetch resolves or rejects, a
backoff elapses, a due alarm fires (the runtime redelivers alarms),
reconciliation ends, time passes. Nothing is assumed about people, sockets, or
requests nobody waits for.

*Browser* (`outbox_finish`): the browser's own continuations run; a backoff timer
reconnects; messages on a working socket arrive; the coordinator answers and its
alarm retries. In addition, as assumptions about the world: the page becomes
visible or online again after the client was thrown away (`Revisit`), the coach
keeps pressing finish, and fetching the events and finishing succeed if tried
again and again (strong fairness). Recording, the poll and new loops get no
fairness: nothing may depend on them. An attempt is assumed to reach the store
in the end only for events the coordinator still retries (`StorePending`).

`FinishGetsThrough` is checked without "exhausted" (the run `finish_wedged` shows
why), without "expired" (a session that expired refuses commands, and nothing in
the code promises they are settled), and without "rejected": together with the
poll a rejection can be undone again and again — healing finds no row and writes
LOCAL_PENDING over FAILED_TERMINAL when the broadcast comes between its reading
and its writing — so that only fairness on the order of those steps would end
it, which the code does not give.

*Handoff* (`finish`): the job comes back as long as it has a session to take
(`WF` of `Begin(Cron)`, a cron schedule), and a finish that is running goes on or
fails. The coach never has to do anything. `EventuallyReported` excuses a process
that died in the middle and a revert that failed: nothing in the code picks such
a session up.

*Planning* (`planning`): requests go on, and a page that shows a match whose
boundary has passed is read again and again (strong fairness of `Notice`, since
requests come and go and a plan may be reopened). No background process does it
in the code, so this is an assumption about people, and the only one:
`KickoffCloses` says that it suffices.

*Jobs* (`jobs`): a trigger's request goes on and the cron's runs come back.
Edits end by themselves (each trigger makes one). Throws and crashes are not
limited; `JobsConclude` is about behaviours without a crash and without a failed
mark, `CurrentContentReviewed` about those without any of the four mishaps.

*Mail* (`mail`): the cron comes back, a send goes on, a retry time comes. The
provider promises nothing, and webhooks get no fairness.

## 5. What is proved

For every set of events, sockets, players, every retry ceiling and every bound,
from the named assumptions on the constants (`DomainAssumption`, `StoreAssumption`,
`SessionAssumption`, `OutboxAssumption`,
`FinishAssumption`, `PlanningAssumption`, `JobsAssumption`, `MailAssumption`, which TLC evaluates in every run).

| Theorem | States | Invariant it rests on |
|---|---|---|
| `TypeCorrect` | `Spec => []TypeOK` (coordinator) | `TypeInv`: also, rows and snapshot are finite; a running reconciliation has a socket |
| `RetriesAreScheduled`, `LifecycleIsScheduled` | a waiting event always has an armed alarm or a running sweep; an attached open session has its check ahead | `AlarmInv`: also, sockets and alarms exist only once the session is established |
| `VerdictsAreFinal` | `Spec => DecisionsAreFinal` | `AttemptInv`: an awaited attempt belongs to a pending event; at most one is awaited per event; what the sweep still has to do is due; a decided event has no retry time |
| `RowsWereAccepted`, `ConfirmedIsStored` | rows were accepted under their version; "persisted" is stored | `RequestInv`: every request carries the accepted version, "ok" means a row, the snapshot is a subset of the rows |
| `PromiseIsKept` | `Spec => KeepsPromise`: the coordinator and the store implement `DeliveryPromise` | all of the above; every action maps to a step of the promise or a stutter |
| `ManualEndIsSafe` | a session ended by hand has nothing pending | type and attempt invariants: only `RecordEvent` makes an event pending |
| `SequencesNeverCollide`, `EndedStaysEnded`, `PeriodIsMonotone` | versions unique against rows; end final; period forward | `SequenceInv`, under `Planned = {}` |
| `NobodyMovesTwice` | a player's rotations alternate | the same, also under `Planned = {}`: the last rotation of the player before a new version is the one the precondition looked at |
| `OutboxTypes` | `Spec => []TypeOK` (browser) | itself |
| `DeviceTellsTheTruth` | `Spec => []ConfirmedOnDeviceIsStored` | `OutboxInv` |
| `NothingUnstoredIsDeleted` | `Spec => []OnlyStoredIsDeleted` | `OutboxInv` |
| `AnswersReachTheirSends`, `OneAnswerEach` | an answer is for the command its loop waits for; a send has one answer at most | `PairInv`: every call, attempt and reply of a loop is for its current command, and they exclude each other; `FinishLoopRests`: the finish loop is idle unless finishing waits for it |
| `SendsKeepTheirOrder` | a loop sends nothing past a command the coordinator has not taken | `OrderInv`: also, an answer under way says what the coordinator decided, and what a loop has gone past unblocked was accepted |
| `TypeCorrect` in each of the four newer proof modules | `Spec => []TypeOK` | itself |
| `FinishHolds`, `EndedReported` | a reported finish stands; an ended session is reported | `SessionInv`: at most one caller is past the compare-and-set, it ended the session, nobody is past it once a finish is over, a report is there from the seeding on |
| `SeededOnce` | no event has two derived rows | `SeedInv`: while a finish fills a category, nothing of it has been derived; without a report nothing has been derived at all |
| `LocksReviewed` | a report locked after the handoff rests on its review | `LockInv`: a settled check still holds when it locks; a report being reopened is not locked |
| `ScoreOfEndedMatch` | the live score counts the ended match | `ScoreInv`: what was there at the end is still there, and what the finish has read, or written, is enough and has nothing reversed by then |
| `HandoffIsKept` | `Spec => KeepsHandoff`: the statements implement `HandoffPromise` | `HandoffInv`: `SeedInv`; what a finish has read is stored; what the coach is about to lock is there |
| `OverIsFinal` | once over, only the coach changes the report | `HandoffInv` |
| `OneOwner` | a claimed row has one owner | `OwnerInv`: one row per content, a row of a trigger that has not created it is absent, a runner's job is in its own batch |
| `SomethingStands` | the newest review stands | what an open transaction has superseded was committed before it |
| `AttemptsStayBounded` | attempts stay below `MaxAttempts` | `RetriesHaveRoom`: so does every count a claim took with it, and a retry is decided on only with room for one more |
| `SuccessIsFinal` | a job that succeeded is never taken up again | `OwnerInv`: an update by id meets a row its owner still has, and a revival finds the only row of its content |
| `JobPromiseIsKept` | `Spec => KeepsJobPromise`: the statements implement `JobPromise` | `PromiseInv`: `OwnerInv`, `RetriesHaveRoom`, and the row a rewrite is about to hit exists |
| `NoRowForgotten` | a RUNNING row is in somebody's hands, or a process died | itself, with `PromiseInv`: the part of `JobsConclude` that needs no fairness |
| `ClosedPlansFrozen` | closed plans hold no draft but the named ones | `Frozen`, with what a capture that has folded will freeze (`WillFreeze`) |
| `FinalRoundsClosed` | a final round has no open match but the excused ones | itself |
| `ClosedRoundsFinal` | a closed round is final | `WillFinalize`: if everything is closed, some capture under way has yet to count, or has counted, everything closed |
| `BaselinesStand` | a closed match's baseline changes by its own capture, a healing that found it open, or a reopening | types only: an action property |
| `MailSentOnce` | a second mail needs one of four causes | `MailInv`: without them one sender works at a time, at most one message is out, and once it is out the entry is over |
| `EventsAppliedOnce` | an event is applied once | an event that is applied, or about to be, has its row; one post holds it |
| `SentIsAccepted` | what is SENT, or has an outcome, was accepted by the provider | `AcceptedInv`: the same of senders past the send and of posts under way |
| `RetriesStayBounded` | `retries <= MaxRetries + 1` | `CeilingInv`: while the request is to come the count is in range; a cron that has the entry read a count below the ceiling |

`DecisionsAreFinal` shows why strengthening is needed: an abandoned attempt and
a retry of the same event can be in the store together, and only the fact that
the object *awaits* at most one of them keeps a late answer from changing a
verdict. `Planned = {}` in the last coordinator theorems means that no row is written past the
coordinator, so the first reconciliation has nothing to merge; `stale_reconcile`
is the counterexample without it.

`OutboxInv` is needed because a row of the outbox is written from three sources.
"Persisted on the device is stored" is not inductive by itself: the next answer
on the wire, or a healing that listed the outbox minutes ago, may write it. The
invariant therefore says the same of the coordinator's verdicts, of every
message on the wire and of every reading of the outbox, and uses that the store
only grows (`RowsStay`). Deleting rows is then safe because the deletion rests on
such a reading.

The handoff rests on a single fact that no statement of the code checks again:
the compare-and-set lets one caller through, and only that caller can revert. The
revert itself looks at the session's status alone, so `OneBusy` has to be carried
through every step for `FinishedStaysFinished`. `ClosedRoundsFinal` is the
argument why captures that overlap without seeing each other do not all count
the other's match as open: each commits its claim before it counts, so the one
that counts last counts everything closed.

`AnswersMatchSends` looks like a matter of matching ids, but the ids are of
commands, not of sends: two loops may send one command at once, and a loop may
send a command again after an outage. It holds because a socket that goes takes
its pending calls with it, and because finishing uses the finish loop only when
its last send is over. The invariant carries both. `LoopKeepsOrder` needs, in
addition, that what a loop hears is what the coordinator decided.

`HandoffIsKept` needs surprisingly little beyond `SeedInv`, because the compare-and-set
makes a step of a finish a step of *the* finish. `OverIsFinal` is what the promise
means for a coach who corrects the report afterwards: no late statement of a finish,
of the job or of a retry puts anything back.

The ceiling of the mail outbox is proved as the code keeps it: the cron compares the
count with `MAX_RETRIES`, the request's own send does not, and both write back
the count they read plus one. The count may thus exceed the ceiling by one; the
bound without the `+ 1` fails on the instance of `mail`.

**Only model-checked:** everything under fairness (`RetriesConclude`,
`AcceptedIsDecided`, `AbandonedSessionEnds`, `FinishGetsThrough`,
`EventuallyReported`, `KickoffCloses`, `JobsConclude`, `CurrentContentReviewed`,
`MailConcludes`), which the proof
system's temporal reasoning does not reach, and the violations. Every invariant,
action property and refinement that a run checks has its theorem; four of them, marked
in the table, hold under `Planned = {}` only.

## 6. Limits

* The event-match path (`recordEventForActorEvent` and its twins) is a parallel
  copy of the league path; the league path is the one translated.
* Broadcasts to other devices, presence, the per-domain revision counters and protocol errors of the
  coordinator are left out; so are HMAC, tenancy and authorisation.
* Field validation is one bit per command. Match seconds and the arithmetic of
  the clock are not modelled; only periods are.
* The coordinator's storage is never lost; the runtime's limit of 128 keys per
  `storage.get` is not modelled.
* Browser: one tab, one finish handler at a time; prepared offline packages, the
  migration of the legacy store and the session row are left out; marking a row
  SENDING and sending it are one action (an outage between them looks like one
  just before).
* The observation in section 4 that healing can overwrite a settled status with
  LOCAL_PENDING, and that a command recorded while the finish request is on its
  way stays on the device unsent (it is never deleted), are recorded as hazards;
  no run isolates them.
* Handoff: a coach's edit is one step, the duration of a period and the pairing
  of rotations by nearness in time are arithmetic and left out, one planned
  player stands for the squad, rows typed by hand other than goals are left out.
* Planning: a transaction takes effect at its commit (the capture's is split);
  guard reads of cancelling and restoring go with their update; no report exists,
  which would only forbid some calls; the rule version, the movement ledger and
  availability follow the same writes.
* Jobs: time is left out, so a queued row may be claimed at once; a batch takes
  every queued row; settings, credential and handler checks are one refusal.
* Mail: one entry with one recipient; ages and retry times are events that come.

## 7. Not modelled

* **Event matches**: `recordEventForActorEvent`, `finishEventLiveReporting` and
  their twins repeat the league path statement by statement on other tables.
* **Projection and reversal resolution**, policies, candidate scoring, team
  composition, schedule generation, insights: functions of data without a state
  of their own. What they compute is arithmetic over large records that their
  unit tests compare with examples; a model would repeat the code.
* **Organisations, invitations, tenancy, seasons, groups, opponents**: single
  transactions with a guard read before them. The two invitation hazards listed
  are one statement each.
* **User interface** (most of the lines of the repository): rendering and forms.
  The live client's state machine is in `LiveOutbox`.
* **Security broker**: a separate service.

## 8. Plan

1. An abstract specification of the planning boundary (a plan is open, being captured or
   a baseline; a baseline changes only when its match is reopened or restored)
   that `PlanningBoundary` implements but for its named exceptions.
2. The same for one mail: unsent, sent, over.
3. Planning: a reschedule that reopens a match while a capture is between its
   count and its commit, which can leave final selections in an open plan.
4. A storage-loss action of the coordinator, for the snapshot fetch that fails.
