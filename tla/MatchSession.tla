---------------------------- MODULE MatchSession ----------------------------
(***************************************************************************)
(* The live-match coordinator: one Durable Object per match, which accepts *)
(* events from reporting browsers, gives each the next sequence number,    *)
(* and forwards it to the canonical store with bounded retries.            *)
(*                                                                         *)
(* Atomicity.  The object's runtime delivers no other message while a      *)
(* handler waits for its own storage, so a stretch of code between two     *)
(* outbound fetches is one action here.  Only three awaits let others in:  *)
(* persistEvent in recordEvent, persistEvent in the alarm's sweep, and     *)
(* fetchSnapshot while the session is initialised.  A fetch leaves the     *)
(* object only once the writes before it are durable.                      *)
(*                                                                         *)
(* Crash.  An eviction, deploy or exception drops every handler in         *)
(* progress and every socket and keeps storage; requests already sent go   *)
(* on in the store.  An alarm that was running is fired again.             *)
(*                                                                         *)
(* Time.  Only the outcomes of comparisons matter: a backoff is in the     *)
(* future or due, the lifecycle deadline has passed or not, reporting has  *)
(* been quiet for fifteen minutes or not.                                  *)
(***************************************************************************)
EXTENDS CanonicalStore, FiniteSets

CONSTANTS
  Conns,       \* authenticated sockets
  Reporters,   \* those whose ticket carries the "report" capability
  MaxRetry,    \* MAX_RETRY_ATTEMPTS
  MaxCrashes   \* bound: how often the object is restarted

VARIABLES
  meta,           \* SessionMeta: version, period of the clock anchor, how it ended
  overdue,        \* the lifecycle deadline has passed
  quiet,          \* no event accepted for LIFECYCLE_INACTIVITY_AFTER_DEADLINE_MS
  records,        \* the accepted events in storage
  alarm,          \* the object's single alarm slot
  sweep,          \* the running alarm handler: the event it awaits, those still due
  reconcile,      \* the running "initialize" handler and the snapshot it fetched
  authenticated,  \* sockets past authenticate
  crashes         \* restarts so far (bounds the model)

objectVars ==
  << meta, overdue, quiet, records, alarm, sweep, reconcile, authenticated, crashes >>
vars == << storeVars, objectVars >>

ASSUME SessionAssumption ==
  /\ Reporters \subseteq Conns
  /\ None \notin Conns
  /\ MaxRetry \in Nat
  /\ MaxCrashes \in Nat

Meta ==
  [established : BOOLEAN, version : Nat, period : Periods,
   ended : {"no", "MANUAL", "AUTO_EXPIRED"}]

NoMeta == [established |-> FALSE, version |-> 0, period |-> "BEFORE", ended |-> "no"]
FreshMeta == [NoMeta EXCEPT !.established = TRUE]

NoSweep == [current |-> None, todo |-> {}]
NoReconcile == [conn |-> None, stage |-> "idle", found |-> {}]

Pending == { i \in Ids : records[i].status = "pending" }
CanReport == authenticated \cap Reporters # {}

-----------------------------------------------------------------------------
(* Outbox bookkeeping *)

WaitingForRetry(recs) ==
  { e \in Events : recs[e].status = "pending" /\ recs[e].retry # "unset" }

\* Faulty variant: every pending event is due, the one in flight included.
DueRetriesIgnoringSchedule(recs) == { e \in Events : recs[e].status = "pending" }

\* selectDueRetries: an event that has not failed yet has no retry time.
DueRetries(recs) ==
  { e \in Events : recs[e].status = "pending" /\ recs[e].retry = "due" }

\* Faulty variant: the slot serves the lifecycle check of an open session only.
RefreshedAlarmForLifecycleOnly(recs, m) ==
  IF m.established /\ m.ended = "no" THEN "armed" ELSE "none"

\* Faulty variant: the slot serves retries only.
RefreshedAlarmForRetriesOnly(recs, m) ==
  IF WaitingForRetry(recs) # {} THEN "armed" ELSE "none"

\* refreshAlarm: one slot, for the next retry and for the next lifecycle check.
RefreshedAlarm(recs, m) ==
  IF WaitingForRetry(recs) # {} \/ (m.established /\ m.ended = "no")
  THEN "armed"
  ELSE "none"

\* Faulty variant: an attempt carries the session's version, not the event's.
AttemptAtSessionVersion(e, recs) ==
  [id |-> e, sequence |-> meta.version, count |-> recs[e].count, epoch |-> crashes,
   stage |-> "sent", awaited |-> TRUE]

Attempt(e, recs) ==
  [id |-> e, sequence |-> recs[e].version, count |-> recs[e].count, epoch |-> crashes,
   stage |-> "sent", awaited |-> TRUE]

\* The alarm handler goes on to the next due event, or ends and re-arms the slot.
SweepOn(todo, recs, m, remaining, slot) ==
  \/ /\ todo = {}
     /\ sweep' = NoSweep
     /\ requests' = remaining
     /\ alarm' = RefreshedAlarm(recs, m)
  \/ \E e \in todo :
       /\ sweep' = [current |-> e, todo |-> todo \ {e}]
       /\ requests' = remaining \cup { Attempt(e, recs) }
       /\ alarm' = slot

\* What follows an attempt at event e: the sweep's next step, or nothing.
Resume(e, recs, remaining, slot) ==
  \/ /\ sweep.current = e
     /\ SweepOn(sweep.todo, recs, meta, remaining, slot)
  \/ /\ sweep.current # e
     /\ requests' = remaining
     /\ alarm' = slot
     /\ UNCHANGED sweep

Settle(e, status) ==
  records' = [records EXCEPT ![e] = [@ EXCEPT !.status = status, !.retry = "unset"]]

-----------------------------------------------------------------------------
(* Attempts to reach the canonical store *)

PersistSucceeds(r) ==
  /\ r.awaited /\ r.stage = "ok"
  /\ Settle(r.id, "persisted")
  /\ Resume(r.id, records', requests \ {r}, alarm)
  /\ UNCHANGED << session, clock, clockWrites, rows, begun, finishes,
                  meta, overdue, quiet, reconcile, authenticated, crashes >>

PersistRejected(r) ==
  /\ r.awaited /\ r.stage = "terminal"
  /\ Settle(r.id, "failed_terminal")
  /\ Resume(r.id, records', requests \ {r}, alarm)
  /\ UNCHANGED << session, clock, clockWrites, rows, begun, finishes,
                  meta, overdue, quiet, reconcile, authenticated, crashes >>

\* evaluateRetry: the attempt ceiling, or an age of 24 hours since the first failure.
Exhausted(record, aged) == record.count >= MaxRetry \/ (aged /\ record.count > 0)

\* Faulty variant: the attempt is not counted, so the ceiling is never reached.
ScheduleRetryUncounted(e, aged) ==
  IF Exhausted(records[e], aged)
  THEN Settle(e, "failed_exhausted")
  ELSE records' = [records EXCEPT ![e] = [@ EXCEPT !.retry = "future"]]

\* Faulty variant: the failure is counted and no retry time is set.
ScheduleRetryWithoutTime(e, aged) ==
  IF Exhausted(records[e], aged)
  THEN Settle(e, "failed_exhausted")
  ELSE records' = [records EXCEPT ![e] = [@ EXCEPT !.count = records[e].count + 1]]

ScheduleRetry(e, aged) ==
  IF Exhausted(records[e], aged)
  THEN Settle(e, "failed_exhausted")
  ELSE records' = [records EXCEPT ![e] = [@ EXCEPT !.retry = "future",
                                                        !.count = records[e].count + 1]]

\* A network error or a 5xx: the request died, or it goes on with nobody waiting.
PersistFails(r) ==
  /\ r.awaited
  /\ \E aged \in BOOLEAN : ScheduleRetry(r.id, aged)
  /\ \E left \in {{}} \cup IF r.stage \in {"sent", "checked"}
                           THEN {{[r EXCEPT !.awaited = FALSE]}} ELSE {} :
       Resume(r.id, records', (requests \ {r}) \cup left, RefreshedAlarm(records', meta))
  /\ UNCHANGED << session, clock, clockWrites, rows, begun, finishes,
                  meta, overdue, quiet, reconcile, authenticated, crashes >>

-----------------------------------------------------------------------------
(* Remote calls from the browser *)

\* The first authenticate creates the session and goes to fetch the snapshot;
\* every later one attaches to what is there.
Authenticate(c) ==
  /\ c \notin authenticated
  /\ reconcile.conn # c
  /\ \/ /\ ~ meta.established
        /\ meta' = FreshMeta
        /\ reconcile' = [conn |-> c, stage |-> "requested", found |-> {}]
        /\ UNCHANGED << alarm, authenticated >>
     \/ /\ meta.established
        /\ authenticated' = authenticated \cup {c}
        /\ alarm' = RefreshedAlarm(records, meta)
        /\ UNCHANGED << meta, reconcile >>
  /\ UNCHANGED << storeVars, overdue, quiet, records, sweep, crashes >>

\* The snapshot route reads the rows; the answer travels back.
ReadSnapshot ==
  /\ reconcile.stage = "requested"
  /\ reconcile' = [reconcile EXCEPT !.stage = "read", !.found = rows]
  /\ UNCHANGED << storeVars, meta, overdue, quiet, records, alarm, sweep,
                  authenticated, crashes >>

AttachInitialiser(recs, m) ==
  /\ authenticated' = authenticated \cup {reconcile.conn}
  /\ reconcile' = NoReconcile
  /\ alarm' = RefreshedAlarm(recs, m)

\* Rows the object does not know become persisted records: a sequenced row keeps
\* its sequence, the others are numbered after the highest sequence in the
\* snapshot.  The meta written back is the one read before the fetch.
UnknownRows == { row \in reconcile.found : records[row.id].status = "none" }
UnnumberedRows == { row \in UnknownRows : row.sequence = NoSequence }

HighestSequence(found) ==
  { n \in {0} \cup { row.sequence : row \in found } : \A row \in found : row.sequence <= n }

Numberings(S) ==
  { f \in [S -> 1..Cardinality(S)] : \A a, b \in S : f[a] = f[b] => a = b }

Discovered(row, base, number) ==
  [NoRecord EXCEPT !.status = "persisted",
                   !.version = IF row \in UnnumberedRows THEN base + number[row]
                               ELSE row.sequence]

\* Faulty variant: the early return for "nothing new" is missing, so the metadata
\* read before the fetch is always written back.
FinishReconcileAlwaysWriting ==
  /\ reconcile.stage = "read"
  /\ UnknownRows = {}
  /\ \E base \in HighestSequence(reconcile.found) :
       meta' = [FreshMeta EXCEPT !.version = base]
  /\ AttachInitialiser(records, meta')
  /\ UNCHANGED << storeVars, records, quiet, overdue, sweep, crashes >>

FinishReconcile ==
  /\ reconcile.stage = "read"
  /\ \/ /\ UnknownRows = {}
        /\ UNCHANGED << meta, records, quiet >>
     \/ /\ UnknownRows # {}
        /\ \E base \in HighestSequence(reconcile.found),
              number \in Numberings(UnnumberedRows) :
             /\ records' = [i \in Ids |->
                  IF \E row \in UnknownRows : row.id = i
                  THEN Discovered(CHOOSE row \in UnknownRows : row.id = i, base, number)
                  ELSE records[i]]
             /\ meta' = [FreshMeta EXCEPT !.version = base + Cardinality(UnnumberedRows)]
        /\ quiet' \in {quiet, TRUE}
  /\ AttachInitialiser(records', meta')
  /\ UNCHANGED << storeVars, overdue, sweep, crashes >>

\* Faulty variant: a late failure of a handler that is no longer running.
FailReconcileUnguarded ==
  /\ AttachInitialiser(records, meta)
  /\ UNCHANGED << storeVars, meta, overdue, quiet, records, sweep, crashes >>

\* A failed fetch is logged and authentication goes on without the rows.
FailReconcile ==
  /\ reconcile.stage # "idle"
  /\ AttachInitialiser(records, meta)
  /\ UNCHANGED << storeVars, meta, overdue, quiet, records, sweep, crashes >>

\* Faulty variant: a resent event is accepted a second time.
RecordEventWithoutDuplicateCheck(e) ==
  /\ CanReport
  /\ meta.ended = "no"
  /\ meta.version < 3
  /\ PreconditionHolds(e, meta.period, records)
  /\ records' = [records EXCEPT ![e] =
                   [NoRecord EXCEPT !.status = "pending", !.version = meta.version + 1]]
  /\ meta' = [meta EXCEPT !.version = @ + 1, !.period = AdvanceClockAnchor(@, e)]
  /\ quiet' = FALSE
  /\ requests' = requests \cup { Attempt(e, records') }
  /\ UNCHANGED << session, clock, clockWrites, rows, begun, finishes,
                  overdue, alarm, sweep, reconcile, authenticated, crashes >>

\* Accept: record, sequence number, activity and clock are durable before the
\* first attempt is sent.  A duplicate, a conflict or an ended session changes
\* nothing here.
RecordEvent(e) ==
  /\ CanReport
  /\ meta.ended = "no"
  /\ records[e].status = "none"
  /\ PreconditionHolds(e, meta.period, records)
  /\ records' = [records EXCEPT ![e] =
                   [NoRecord EXCEPT !.status = "pending", !.version = meta.version + 1]]
  /\ meta' = [meta EXCEPT !.version = @ + 1, !.period = AdvanceClockAnchor(@, e)]
  /\ quiet' = FALSE
  /\ requests' = requests \cup { Attempt(e, records') }
  /\ UNCHANGED << session, clock, clockWrites, rows, begun, finishes,
                  overdue, alarm, sweep, reconcile, authenticated, crashes >>

\* Faulty variant: pending events do not block the end.
EndSessionWhilePending ==
  /\ CanReport
  /\ meta.ended = "no"
  /\ meta' = [meta EXCEPT !.ended = "MANUAL"]
  /\ alarm' = RefreshedAlarm(records, meta')
  /\ UNCHANGED << storeVars, overdue, quiet, records, sweep, reconcile,
                  authenticated, crashes >>

\* endSession with the current version; refused while an event is pending.
EndSession ==
  /\ CanReport
  /\ meta.ended = "no"
  /\ Pending = {}
  /\ meta' = [meta EXCEPT !.ended = "MANUAL"]
  /\ alarm' = RefreshedAlarm(records, meta')
  /\ UNCHANGED << storeVars, overdue, quiet, records, sweep, reconcile,
                  authenticated, crashes >>

-----------------------------------------------------------------------------
(* The alarm *)

\* Faulty variant: a connected viewer keeps an abandoned session open.
AlarmFiresWhenAlone ==
  /\ alarm = "armed"
  /\ sweep = NoSweep
  /\ DueRetries(records) # {} \/ (overdue /\ meta.ended = "no")
  /\ meta' = IF meta.ended = "no" /\ overdue /\ quiet /\ authenticated = {}
             THEN [meta EXCEPT !.ended = "AUTO_EXPIRED"]
             ELSE meta
  /\ SweepOn(DueRetries(records), records, meta', requests, "none")
  /\ UNCHANGED << session, clock, clockWrites, rows, begun, finishes,
                  overdue, quiet, records, reconcile, authenticated, crashes >>

\* Lifecycle expiry first, whatever is still pending; then the sweep.
AlarmFires ==
  /\ alarm = "armed"
  /\ sweep = NoSweep
  /\ DueRetries(records) # {} \/ (overdue /\ meta.ended = "no")
  /\ meta' = IF meta.ended = "no" /\ overdue /\ quiet
             THEN [meta EXCEPT !.ended = "AUTO_EXPIRED"]
             ELSE meta
  /\ SweepOn(DueRetries(records), records, meta', requests, "none")
  /\ UNCHANGED << session, clock, clockWrites, rows, begun, finishes,
                  overdue, quiet, records, reconcile, authenticated, crashes >>

-----------------------------------------------------------------------------
(* Environment: time, sockets, restarts *)

BackoffElapses(e) ==
  /\ records[e].retry = "future"
  /\ records' = [records EXCEPT ![e].retry = "due"]
  /\ UNCHANGED << storeVars, meta, overdue, quiet, alarm, sweep, reconcile,
                  authenticated, crashes >>

DeadlinePasses ==
  /\ meta.established /\ ~ overdue
  /\ overdue' = TRUE
  /\ UNCHANGED << storeVars, meta, quiet, records, alarm, sweep, reconcile,
                  authenticated, crashes >>

\* Inactivity is looked at only once the deadline has passed.
GoesQuiet ==
  /\ overdue /\ ~ quiet
  /\ quiet' = TRUE
  /\ UNCHANGED << storeVars, meta, overdue, records, alarm, sweep, reconcile,
                  authenticated, crashes >>

Disconnect(c) ==
  /\ c \in authenticated
  /\ authenticated' = authenticated \ {c}
  /\ UNCHANGED << storeVars, meta, overdue, quiet, records, alarm, sweep, reconcile,
                  crashes >>

Orphaned(r) == [r EXCEPT !.awaited = FALSE]

\* Faulty variant: an accepted event is held in memory until its first attempt
\* returns, and a restart forgets it.
CrashForgettingUnconfirmed ==
  /\ crashes < MaxCrashes
  /\ crashes' = crashes + 1
  /\ records' = [i \in Ids |->
       IF records[i].status = "pending" /\ records[i].retry = "unset"
       THEN NoRecord ELSE records[i]]
  /\ requests' = { r \in requests : ~ r.awaited }
                   \cup { Orphaned(r) : r \in { q \in requests : q.stage \in {"sent", "checked"} } }
  /\ alarm' = IF sweep # NoSweep THEN "armed" ELSE alarm
  /\ sweep' = NoSweep
  /\ reconcile' = NoReconcile
  /\ authenticated' = {}
  /\ UNCHANGED << session, clock, clockWrites, rows, begun, finishes,
                  meta, overdue, quiet >>

Crash ==
  /\ crashes < MaxCrashes
  /\ crashes' = crashes + 1
  /\ requests' = { r \in requests : ~ r.awaited }
                   \cup { Orphaned(r) : r \in { q \in requests : q.stage \in {"sent", "checked"} } }
  /\ alarm' = IF sweep # NoSweep THEN "armed" ELSE alarm
  /\ sweep' = NoSweep
  /\ reconcile' = NoReconcile
  /\ authenticated' = {}
  /\ UNCHANGED << session, clock, clockWrites, rows, begun, finishes,
                  meta, overdue, quiet, records >>

-----------------------------------------------------------------------------

Init ==
  /\ StoreInit
  /\ meta = NoMeta
  /\ overdue = FALSE
  /\ quiet = FALSE
  /\ records = [i \in Ids |-> NoRecord]
  /\ alarm = "none"
  /\ sweep = NoSweep
  /\ reconcile = NoReconcile
  /\ authenticated = {}
  /\ crashes = 0

Persistence(r) == PersistSucceeds(r) \/ PersistRejected(r) \/ PersistFails(r)

Next ==
  \/ StoreNext /\ UNCHANGED objectVars
  \/ \E r \in requests : Persistence(r)
  \/ \E c \in Conns : Authenticate(c) \/ Disconnect(c)
  \/ ReadSnapshot \/ FinishReconcile \/ FailReconcile
  \/ \E e \in Events : RecordEvent(e) \/ BackoffElapses(e)
  \/ EndSession
  \/ AlarmFires
  \/ DeadlinePasses \/ GoesQuiet
  \/ Crash

Spec == Init /\ [][Next]_vars

\* A fetch resolves or rejects in the end, a due alarm fires, and time passes.
\* Nothing is promised about people, sockets, or the store's own requests.
Fairness ==
  /\ \A e \in Events :
       /\ WF_vars(\E r \in requests : r.id = e /\ Persistence(r))
       /\ WF_vars(BackoffElapses(e))
  /\ WF_vars(AlarmFires)
  /\ WF_vars(FinishReconcile \/ FailReconcile)
  /\ WF_vars(DeadlinePasses)
  /\ WF_vars(GoesQuiet)

FairSpec == Spec /\ Fairness

-----------------------------------------------------------------------------
(* Properties *)

\* Every variable holds a value of its kind; a request that is awaited belongs
\* to an event, and the slot and the sweep are well formed.
TypeOK ==
  /\ StoreTypeOK
  /\ meta \in Meta
  /\ overdue \in BOOLEAN
  /\ quiet \in BOOLEAN
  /\ records \in [Ids -> AcceptedEventRecord]
  /\ alarm \in {"none", "armed"}
  /\ sweep \in [current : Events \cup {None}, todo : SUBSET Events]
  /\ reconcile \in [conn : Conns \cup {None}, stage : {"idle", "requested", "read"},
                    found : SUBSET Row]
  /\ authenticated \subseteq Conns
  /\ crashes \in 0..MaxCrashes

\* What the object reports as persisted has a row, under the sequence the object
\* gave it: no crash, late answer or abandoned attempt makes it claim more.
PersistedIsCanonical ==
  \A i \in Ids : records[i].status = "persisted" =>
    \E row \in rows : /\ row.id = i
                      /\ row.sequence \in {records[i].version, NoSequence}

\* Every row of a coordinator event was accepted here first and carries the
\* accepted version: the record is durable before the first request leaves.
RowWasAccepted ==
  \A row \in rows : row.id \in Events =>
    /\ records[row.id].status # "none"
    /\ row.sequence = records[row.id].version

\* A pending event never holds a sequence that another event's row already has
\* (the integrity error the store says can only mean a broken coordinator).
NoSequenceCollision ==
  \A i \in Pending, row \in rows : row.sequence = records[i].version => row.id = i

\* An event that waits for a retry is never left without an alarm to retry it:
\* the slot is armed, or the sweep that will re-arm it is still running.
AlarmCoversRetries ==
  WaitingForRetry(records) # {} => alarm = "armed" \/ sweep # NoSweep

\* While anyone is connected to an open session its lifecycle check is scheduled.
LifecycleCheckArmed ==
  authenticated # {} /\ meta.ended = "no" => alarm = "armed" \/ sweep # NoSweep

\* Ending by hand leaves no event between the object and the store.
ManualEndIsSettled == meta.ended = "MANUAL" => Pending = {}

\* A verdict on an event is final, and an accepted event keeps its version: no
\* second attempt, sweep or late answer changes it, and no event is forgotten.
DecisionsAreFinal ==
  [][\A i \in Ids : records[i].status # "none" =>
       /\ records'[i].version = records[i].version
       /\ records'[i].status # "none"
       /\ records[i].status # "pending" => records'[i] = records[i]]_vars

\* An ended session stays ended and takes no further event.
EndIsFinal ==
  [][meta.ended # "no" => meta' = meta]_vars

\* The clock that reconnecting clients are given never goes back to an earlier
\* period, whichever devices send transitions.
PeriodNeverMovesBack ==
  [][PeriodIndex(meta'.period) >= PeriodIndex(meta.period)]_vars

\* Between two rotations of one player in the same direction there is one in the
\* other direction, unless the first of them was rejected for good.
RotationsAlternate ==
  \A i, j \in Accepted(records) :
    /\ Command[i].type \in {"ROTATION_OUT", "ROTATION_IN"} /\ Command[i].player # None
    /\ Command[j].type = Command[i].type
    /\ Command[j].player = Command[i].player
    /\ records[i].version < records[j].version
    /\ records[i].status # "failed_terminal"
    => \E k \in Accepted(records) :
         /\ Command[k].player = Command[i].player
         /\ Command[k].type \in {"ROTATION_OUT", "ROTATION_IN"} \ {Command[i].type}
         /\ records[i].version < records[k].version
         /\ records[k].version < records[j].version

\* The coordinator and the store together keep the promise of DeliveryPromise:
\* every step of theirs is a step of it or leaves it alone.
Promise ==
  INSTANCE DeliveryPromise WITH
    status <- [i \in Ids |-> records[i].status],
    canonical <- { row.id : row \in rows }

KeepsPromise == Promise!Spec

-----------------------------------------------------------------------------
(* Liveness *)

\* An event that waits for a retry is decided in the end, whatever the network
\* does and whether or not anybody is connected.
RetriesConclude ==
  \A e \in Events :
    (records[e].status = "pending" /\ records[e].retry # "unset")
      ~> (records[e].status # "pending")

\* An accepted event is decided in the end unless the object was restarted.
AcceptedIsDecided ==
  \A e \in Events :
    (records[e].status = "pending") ~> (records[e].status # "pending" \/ crashes > 0)

\* A session nobody ends is ended by its own alarm.
AbandonedSessionEnds ==
  (authenticated # {} /\ meta.ended = "no") ~> (meta.ended # "no")

=============================================================================
