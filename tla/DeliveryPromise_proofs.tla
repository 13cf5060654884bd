----------------------- MODULE DeliveryPromise_proofs -----------------------
(***************************************************************************)
(* Proof that the coordinator and the store keep the promise of            *)
(* DeliveryPromise, and of the properties it rests on, for every set of    *)
(* events, planned rows and sockets and every value of the bounds.         *)
(*                                                                         *)
(* Two inductive invariants carry it.  AttemptInv says that at most one    *)
(* attempt at an event is awaited and that the event is pending while it   *)
(* is; RequestInv says that every request, awaited or abandoned, carries   *)
(* the version its event was accepted at, and that an answer "ok" stands   *)
(* for a row.                                                              *)
(***************************************************************************)
EXTENDS MatchSession_proofs

\* An awaited attempt is at a pending event.  Only the sweep awaits an event that
\* has failed before, and the events it still has to do are due.
AwaitedIsPending ==
  \A r \in requests : r.awaited =>
    /\ r.id \in Events
    /\ records[r.id].status = "pending"
    /\ records[r.id].retry # "unset" => sweep.current = r.id

OneAttemptEach ==
  \A r, q \in requests : r.awaited /\ q.awaited /\ r.id = q.id => r = q

TodoIsDue ==
  \A e \in sweep.todo :
    /\ records[e].status = "pending"
    /\ records[e].retry = "due"
    /\ e # sweep.current

DecidedHasNoRetry ==
  \A i \in Ids : records[i].status # "pending" => records[i].retry = "unset"

AttemptInv == AwaitedIsPending /\ OneAttemptEach /\ TodoIsDue /\ DecidedHasNoRetry

\* A request of a browser's event carries the accepted version, a planned row's
\* carries none; an answer has somebody waiting for it, and "ok" means a row.
Faithful(r) ==
  /\ r.id \in Events => /\ records[r.id].status # "none"
                        /\ r.sequence = records[r.id].version
  /\ r.id \in Planned => r.sequence = NoSequence
  /\ r.stage \in {"ok", "terminal"} => r.awaited
  /\ r.stage = "ok" => Stored(r.id)

RequestInv ==
  /\ \A r \in requests : Faithful(r)
  /\ \A row \in rows : row.id \in Planned => row.sequence = NoSequence
  /\ reconcile.found \subseteq rows
  /\ RowWasAccepted
  /\ PersistedIsCanonical

-----------------------------------------------------------------------------
(* What a step does to the requests *)

\* A request that is only taken one stage further, or let go by its caller, keeps
\* the event and the sequence it was sent with.
LEMMA RequestFields ==
  ASSUME NEW r \in Request, NEW stage \in Stage
  PROVE  LET answered == [r EXCEPT !.stage = stage]
         IN  /\ answered \in Request
             /\ answered.id = r.id
             /\ answered.sequence = r.sequence
             /\ answered.stage = stage
             /\ answered.awaited = r.awaited
  BY DEF Request

LEMMA OrphanFields ==
  ASSUME NEW r \in Request
  PROVE  /\ Orphaned(r).id = r.id
         /\ Orphaned(r).sequence = r.sequence
         /\ Orphaned(r).stage = r.stage
         /\ Orphaned(r).awaited = FALSE
  BY DEF Orphaned, Request

LEMMA PlannedFields ==
  ASSUME NEW p \in Planned
  PROVE  /\ PlannedRequest(p).id = p
         /\ p \notin Events
         /\ PlannedRequest(p).sequence = NoSequence
         /\ PlannedRequest(p).stage = "sent"
         /\ PlannedRequest(p).awaited = FALSE
  BY DomainAssumption DEF PlannedRequest

LEMMA AttemptFields ==
  ASSUME NEW e, NEW recs
  PROVE  /\ Attempt(e, recs).id = e
         /\ Attempt(e, recs).sequence = recs[e].version
         /\ Attempt(e, recs).stage = "sent"
         /\ Attempt(e, recs).awaited = TRUE
  BY DEF Attempt

\* After a request was handled at most one request takes its place, at some stage,
\* and a planned change may have sent its next one.
Replaced(r, stage, q) ==
  \/ q \in requests \ {r}
  \/ q = [r EXCEPT !.stage = stage] /\ (stage # "checked" => r.awaited)
  \/ \E p \in Planned : q = PlannedRequest(p)

LEMMA AnswerShape ==
  ASSUME NEW r, NEW outcome, Answer(r, outcome), NEW q \in requests'
  PROVE  Replaced(r, outcome, q)
<1>1. \A p \in DOMAIN SecondWrite : SecondWrite[p] \in Planned
  BY StoreAssumption
<1> QED
  BY <1>1 DEF Answer, NextPlannedWrite, Replaced

\* The store answers a request or takes it past the checks; "ok" means a row.
LEMMA HandlingShape ==
  ASSUME NEW r \in requests, HandleCheck(r) \/ HandleInsert(r)
  PROVE  \E stage \in {"checked", "terminal", "ok"} :
           /\ \A q \in requests' : Replaced(r, stage, q)
           /\ stage = "ok" => Stored(r.id)'
<1>1. CASE Answer(r, "terminal")
  BY <1>1, AnswerShape
<1>2. CASE Answer(r, "ok") /\ Stored(r.id)'
  BY <1>2, AnswerShape
<1>3. CASE requests' = (requests \ {r}) \cup { [r EXCEPT !.stage = "checked"] }
  BY <1>3 DEF Replaced
<1>4. CASE HandleCheck(r)
  <2>1. \/ Answer(r, "terminal")
        \/ Answer(r, "ok") /\ Stored(r.id)
        \/ requests' = (requests \ {r}) \cup { [r EXCEPT !.stage = "checked"] }
    <3> DEFINE rejected == \/ session # "ACTIVE"
                           \/ ~ Command[r.id].wellFormed
                           \/ ~ GuardAdmits(r.id, clock)
    <3>1. IF rejected THEN Answer(r, "terminal")
          ELSE IF Stored(r.id) THEN Answer(r, "ok")
          ELSE requests' = (requests \ {r}) \cup { [r EXCEPT !.stage = "checked"] }
      BY <1>4, Zenon DEF HandleCheck
    <3> HIDE DEF rejected
    <3> QED
      BY <3>1, Zenon
  <2>2. Stored(r.id) => Stored(r.id)'
    BY <1>4 DEF HandleCheck, Stored
  <2> QED
    BY <1>1, <1>2, <1>3, <2>1, <2>2
<1>5. CASE HandleInsert(r)
  <2>1. \/ Answer(r, "terminal")
        \/ Answer(r, "ok") /\ Stored(r.id)'
    <3>1. CASE Stored(r.id) /\ Answer(r, "ok") /\ rows' = rows
      BY <3>1 DEF Stored
    <3>2. CASE Answer(r, "terminal")
      BY <3>2
    <3>3. CASE rows' = rows \cup { [id |-> r.id, sequence |-> r.sequence] } /\ Answer(r, "ok")
      <4> DEFINE row == [id |-> r.id, sequence |-> r.sequence]
      <4>1. row \in rows' /\ row.id = r.id
        BY <3>3
      <4>2. Stored(r.id)'
        BY <4>1 DEF Stored
      <4> QED
        BY <3>3, <4>2
    <3>4. \/ Stored(r.id) /\ Answer(r, "ok") /\ rows' = rows
          \/ Answer(r, "terminal")
          \/ rows' = rows \cup { [id |-> r.id, sequence |-> r.sequence] } /\ Answer(r, "ok")
      BY <1>5, Zenon DEF HandleInsert
    <3> QED
      BY <3>1, <3>2, <3>3, <3>4, Zenon
  <2> QED
    BY <1>1, <1>2, <2>1
<1> QED
  BY <1>4, <1>5

\* Where the sweep goes after an attempt: nowhere, to its end, or to the next event.
LEMMA ResumeShape ==
  ASSUME NEW e, NEW recs, NEW remaining, NEW slot, Resume(e, recs, remaining, slot)
  PROVE  \/ requests' = remaining /\ sweep' = sweep /\ sweep.current # e
         \/ requests' = remaining /\ sweep' = NoSweep /\ sweep.current = e
         \/ \E f \in sweep.todo : /\ sweep.current = e
                                  /\ requests' = remaining \cup {Attempt(f, recs)}
                                  /\ sweep' = [current |-> f, todo |-> sweep.todo \ {f}]
  BY DEF Resume, SweepOn

-----------------------------------------------------------------------------
(* At most one attempt at an event is awaited *)

LEMMA AttemptInit == Init => AttemptInv
  BY DEF Init, StoreInit, AttemptInv, AwaitedIsPending, OneAttemptEach, TodoIsDue,
         DecidedHasNoRetry, NoSweep, NoRecord

LEMMA AttemptStore ==
  ASSUME TypeInv, AttemptInv, StoreNext, UNCHANGED objectVars
  PROVE  AttemptInv'
<1>1. UNCHANGED << records, sweep >>
  BY DEF objectVars
<1>2. TodoIsDue' /\ DecidedHasNoRetry'
  BY <1>1 DEF AttemptInv, TodoIsDue, DecidedHasNoRetry
<1>3. ASSUME NEW r \in requests, HandleCheck(r) \/ HandleInsert(r)
      PROVE  AwaitedIsPending' /\ OneAttemptEach'
  <2>1. r \in Request
    BY DEF TypeInv, TypeOK, StoreTypeOK
  <2>2. PICK stage \in {"checked", "terminal", "ok"} :
          \A q \in requests' : Replaced(r, stage, q)
    BY <1>3, HandlingShape
  <2> DEFINE answered == [r EXCEPT !.stage = stage]
  <2>3. answered.id = r.id /\ answered.awaited = r.awaited
    BY <2>1, RequestFields DEF Stage
  <2>4. \A q \in requests' : q.awaited => q \in requests \ {r} \/ q = answered
    BY <2>2, PlannedFields DEF Replaced
  <2> HIDE DEF answered
  <2>5. AwaitedIsPending'
    BY <1>1, <2>3, <2>4 DEF AttemptInv, AwaitedIsPending
  <2>6. OneAttemptEach'
    BY <2>3, <2>4 DEF AttemptInv, OneAttemptEach
  <2> QED
    BY <2>5, <2>6
<1>4. ASSUME NEW p \in Planned, ApplyPlannedChange(p)
      PROVE  AwaitedIsPending' /\ OneAttemptEach'
  <2>1. \A q \in requests' : q.awaited => q \in requests
    BY <1>4, PlannedFields DEF ApplyPlannedChange
  <2> QED
    BY <1>1, <2>1 DEF AttemptInv, AwaitedIsPending, OneAttemptEach
<1>5. CASE requests' = requests
  BY <1>1, <1>2, <1>5 DEF AttemptInv, AwaitedIsPending, OneAttemptEach
<1>6. \/ \E r \in requests : HandleCheck(r) \/ HandleInsert(r)
      \/ \E p \in Planned : ApplyPlannedChange(p)
      \/ requests' = requests
  BY DEF StoreNext, CheckClockWrite, CommitClockWrite, FinishSession, RevertSession
<1> QED
  BY <1>2, <1>3, <1>4, <1>5, <1>6 DEF AttemptInv

\* What an answered or failed attempt makes of the event's record: a verdict, or a
\* later retry under the same version.  Only the answer "ok" confirms it.
Outcome(r, new) ==
  /\ records' = [records EXCEPT ![r.id] = new]
  /\ new.version = records[r.id].version
  /\ \/ new.status = "persisted" /\ new.retry = "unset" /\ r.stage = "ok"
     \/ new.status \in {"failed_terminal", "failed_exhausted"} /\ new.retry = "unset"
     \/ new.status = records[r.id].status /\ new.retry = "future"

\* What it leaves of the requests: r is gone, or goes on with nobody waiting.
Left(r, remaining) ==
  \A q \in remaining :
    q \in requests \ {r} \/ (q = Orphaned(r) /\ r.stage \in {"sent", "checked"})

LEMMA SettleOutcome ==
  ASSUME TypeInv, NEW r \in requests, NEW verdict \in RecordStatus, Settle(r.id, verdict)
  PROVE  \E new : /\ records' = [records EXCEPT ![r.id] = new]
                  /\ new.version = records[r.id].version
                  /\ new.status = verdict
                  /\ new.retry = "unset"
<1> DEFINE new == [records[r.id] EXCEPT !.status = verdict, !.retry = "unset"]
<1>1. records[r.id] \in AcceptedEventRecord
  BY DEF TypeInv, TypeOK, StoreTypeOK, Request
<1>2. /\ new.version = records[r.id].version
      /\ new.status = verdict
      /\ new.retry = "unset"
  BY <1>1 DEF AcceptedEventRecord
<1>3. records' = [records EXCEPT ![r.id] = new]
  BY DEF Settle
<1> QED
  BY <1>2, <1>3

LEMMA PersistenceShape ==
  ASSUME TypeInv, NEW r \in requests, Persistence(r)
  PROVE  /\ r.awaited
         /\ \E new : Outcome(r, new)
         /\ \E remaining, slot : Left(r, remaining) /\ Resume(r.id, records', remaining, slot)
<1>1. CASE PersistSucceeds(r)
  <2>1. \E new : Outcome(r, new)
    BY <1>1, SettleOutcome DEF PersistSucceeds, Outcome, RecordStatus
  <2>2. Left(r, requests \ {r})
    BY DEF Left
  <2> QED
    BY <1>1, <2>1, <2>2 DEF PersistSucceeds
<1>2. CASE PersistRejected(r)
  <2>1. \E new : Outcome(r, new)
    BY <1>2, SettleOutcome DEF PersistRejected, Outcome, RecordStatus
  <2>2. Left(r, requests \ {r})
    BY DEF Left
  <2> QED
    BY <1>2, <2>1, <2>2 DEF PersistRejected
<1>3. CASE PersistFails(r)
  <2>1. PICK aged \in BOOLEAN : ScheduleRetry(r.id, aged)
    BY <1>3 DEF PersistFails
  <2>2. \E new : Outcome(r, new)
    <3>1. CASE Settle(r.id, "failed_exhausted")
      BY <3>1, SettleOutcome DEF Outcome, RecordStatus
    <3>2. CASE ~ Exhausted(records[r.id], aged)
      <4> DEFINE new == [records[r.id] EXCEPT !.retry = "future",
                                              !.count = records[r.id].count + 1]
      <4>1. records[r.id] \in AcceptedEventRecord
        BY DEF TypeInv, TypeOK, StoreTypeOK, Request
      <4>2. /\ new.version = records[r.id].version
            /\ new.status = records[r.id].status
            /\ new.retry = "future"
        BY <4>1 DEF AcceptedEventRecord
      <4>3. records' = [records EXCEPT ![r.id] = new]
        BY <2>1, <3>2, Zenon DEF ScheduleRetry
      <4> HIDE DEF new
      <4> QED
        BY <4>2, <4>3 DEF Outcome
    <3> QED
      BY <2>1, <3>1, <3>2, Zenon DEF ScheduleRetry
  <2>3. PICK left \in {{}} \cup IF r.stage \in {"sent", "checked"}
                                THEN {{[r EXCEPT !.awaited = FALSE]}} ELSE {} :
          Resume(r.id, records', (requests \ {r}) \cup left, RefreshedAlarm(records', meta))
    BY <1>3 DEF PersistFails
  <2>4. Left(r, (requests \ {r}) \cup left)
    BY <2>3 DEF Left, Orphaned
  <2> QED
    BY <1>3, <2>2, <2>3, <2>4 DEF PersistFails
<1> QED
  BY <1>1, <1>2, <1>3 DEF Persistence

LEMMA AttemptPersistence ==
  ASSUME TypeInv, AttemptInv, NEW r \in requests, Persistence(r)
  PROVE  AttemptInv'
<1>1. /\ r \in Request /\ r.awaited /\ r.id \in Events /\ r.id \in Ids
      /\ records \in [Ids -> AcceptedEventRecord]
      /\ \A e \in sweep.todo : e \in Events /\ e \in Ids
  BY PersistenceShape DEF AttemptInv, AwaitedIsPending, TypeInv, TypeOK, StoreTypeOK, Ids
<1>2. PICK new : Outcome(r, new)
  BY PersistenceShape
<1>3. PICK remaining, slot : Left(r, remaining) /\ Resume(r.id, records', remaining, slot)
  BY PersistenceShape
<1>4. \A i \in Ids : i # r.id => records'[i] = records[i]
  BY <1>1, <1>2 DEF Outcome
<1>5. DecidedHasNoRetry'
  <2>1. records'[r.id] = new /\ (new.status # "pending" => new.retry = "unset")
    BY <1>1, <1>2 DEF Outcome, AttemptInv, AwaitedIsPending
  <2> QED
    BY <1>1, <1>4, <2>1 DEF AttemptInv, DecidedHasNoRetry
<1>6. \A q \in remaining : q.awaited => /\ q \in requests
                                        /\ q.id # r.id
                                        /\ q.id \in Events /\ q.id \in Ids
                                        /\ records'[q.id] = records[q.id]
  <2>1. Orphaned(r).awaited = FALSE
    BY <1>1, OrphanFields
  <2>2. \A q \in remaining : q.awaited => q \in requests \ {r}
    BY <1>3, <2>1 DEF Left
  <2> QED
    BY <1>1, <1>4, <2>2 DEF AttemptInv, OneAttemptEach, AwaitedIsPending, Ids
<1>7. \A f \in sweep.todo : f # r.id /\ records'[f] = records[f]
  BY <1>1, <1>4 DEF AttemptInv, TodoIsDue, AwaitedIsPending
<1>8. CASE requests' = remaining /\ sweep' = sweep /\ sweep.current # r.id
  BY <1>5, <1>6, <1>7, <1>8
     DEF AttemptInv, AwaitedIsPending, OneAttemptEach, TodoIsDue
<1>9. CASE requests' = remaining /\ sweep' = NoSweep /\ sweep.current = r.id
  <2>1. TodoIsDue'
    BY <1>9 DEF TodoIsDue, NoSweep
  <2> QED
    BY <1>5, <1>6, <1>9, <2>1 DEF AttemptInv, AwaitedIsPending, OneAttemptEach
<1>10. ASSUME NEW f \in sweep.todo, sweep.current = r.id,
              requests' = remaining \cup {Attempt(f, records')},
              sweep' = [current |-> f, todo |-> sweep.todo \ {f}]
       PROVE  AttemptInv'
  <2>1. TodoIsDue'
    BY <1>7, <1>10 DEF AttemptInv, TodoIsDue
  <2>2. /\ records'[f].status = "pending" /\ records'[f].retry = "due"
        /\ f \in Events
    BY <1>1, <1>7 DEF AttemptInv, TodoIsDue
  <2>3. \A q \in remaining : q.awaited => q.id # f
    BY <1>6, <1>7, <1>10, <2>2 DEF AttemptInv, TodoIsDue, AwaitedIsPending
  <2> DEFINE next == Attempt(f, records')
  <2>a. next.id = f /\ requests' = remaining \cup {next} /\ sweep'.current = f
    BY <1>10, AttemptFields
  <2> HIDE DEF next
  <2>4. AwaitedIsPending'
    <3>1. \A q \in remaining : q.awaited => records'[q.id].retry = "unset"
      BY <1>6, <1>10 DEF AttemptInv, AwaitedIsPending
    <3> QED
      BY <1>6, <2>a, <2>2, <3>1 DEF AttemptInv, AwaitedIsPending
  <2>5. OneAttemptEach'
    BY <1>6, <2>a, <2>3 DEF AttemptInv, OneAttemptEach
  <2> QED
    BY <1>5, <2>1, <2>4, <2>5 DEF AttemptInv
<1> QED
  BY <1>3, <1>8, <1>9, <1>10, ResumeShape

\* The initial reconciliation turns unknown rows into confirmed records and leaves
\* every other record alone.
LEMMA ReconcileShape ==
  ASSUME TypeInv, FinishReconcile
  PROVE  \A i \in Ids :
           \/ records'[i] = records[i] /\ \A row \in UnknownRows : row.id # i
           \/ \E row \in UnknownRows :
                /\ row.id = i
                /\ records'[i].status = "persisted"
                /\ records'[i].retry = "unset"
                /\ row.sequence = NoSequence \/ row.sequence = records'[i].version
<1>1. CASE UnknownRows = {}
  BY <1>1 DEF FinishReconcile
<1>2. CASE UnknownRows # {}
  <2>1. PICK base \in HighestSequence(reconcile.found),
             number \in Numberings(UnnumberedRows) :
               records' = [i \in Ids |->
                 IF \E row \in UnknownRows : row.id = i
                 THEN Discovered(CHOOSE row \in UnknownRows : row.id = i, base, number)
                 ELSE records[i]]
    BY <1>2 DEF FinishReconcile
  <2>2. ASSUME NEW i \in Ids, \E row \in UnknownRows : row.id = i
        PROVE  \E row \in UnknownRows :
                /\ row.id = i
                /\ records'[i].status = "persisted"
                /\ records'[i].retry = "unset"
                /\ row.sequence = NoSequence \/ row.sequence = records'[i].version
    <3> DEFINE row == CHOOSE row \in UnknownRows : row.id = i
    <3>1. row \in UnknownRows /\ row.id = i
      BY <2>2
    <3>2. records'[i] = Discovered(row, base, number)
      BY <2>1, <2>2
    <3> HIDE DEF row
    <3>3. /\ records'[i].status = "persisted"
          /\ records'[i].retry = "unset"
          /\ row \notin UnnumberedRows => records'[i].version = row.sequence
      BY <3>2 DEF Discovered, NoRecord
    <3>4. row \notin UnnumberedRows => row.sequence # NoSequence
      BY <3>1 DEF UnnumberedRows
    <3> QED
      BY <3>1, <3>3 DEF UnnumberedRows
  <2> QED
    BY <2>1, <2>2
<1> QED
  BY <1>1, <1>2

LEMMA AttemptReconcile ==
  ASSUME TypeInv, AttemptInv, FinishReconcile
  PROVE  AttemptInv'
<1>1. UNCHANGED << requests, sweep >>
  BY DEF FinishReconcile, storeVars
<1>2. \A i \in Ids : records[i].status # "none" => records'[i] = records[i]
  BY ReconcileShape DEF UnknownRows
<1>3. \A i \in Ids : records'[i] = records[i] \/ records'[i].retry = "unset"
  BY ReconcileShape
<1>4. Events \subseteq Ids /\ sweep.todo \subseteq Events
  BY DEF TypeInv, TypeOK, Ids
<1>5. AwaitedIsPending'
  BY <1>1, <1>2, <1>4 DEF AttemptInv, AwaitedIsPending
<1>6. TodoIsDue'
  BY <1>1, <1>2, <1>4 DEF AttemptInv, TodoIsDue
<1>7. DecidedHasNoRetry'
  BY <1>3 DEF AttemptInv, DecidedHasNoRetry
<1> QED
  BY <1>1, <1>5, <1>6, <1>7 DEF AttemptInv, OneAttemptEach

LEMMA AttemptRecordEvent ==
  ASSUME TypeInv, AttemptInv, NEW e \in Events, RecordEvent(e)
  PROVE  AttemptInv'
<1>1. /\ e \in Ids /\ records \in [Ids -> AcceptedEventRecord] /\ sweep' = sweep
      /\ records[e].status = "none" /\ Events \subseteq Ids /\ sweep.todo \subseteq Events
  BY DEF Ids, TypeInv, TypeOK, RecordEvent
<1>2. /\ records'[e].status = "pending" /\ records'[e].retry = "unset"
      /\ \A i \in Ids : i # e => records'[i] = records[i]
  BY <1>1 DEF RecordEvent, NoRecord
<1> DEFINE first == Attempt(e, records')
<1>3. first.id = e /\ first.awaited /\ requests' = requests \cup {first}
  BY AttemptFields DEF RecordEvent
<1> HIDE DEF first
<1>4. \A q \in requests : q.awaited => q.id # e
  BY <1>1 DEF AttemptInv, AwaitedIsPending
<1>5. AwaitedIsPending'
  BY <1>1, <1>2, <1>3, <1>4 DEF AttemptInv, AwaitedIsPending
<1>6. OneAttemptEach'
  BY <1>3, <1>4 DEF AttemptInv, OneAttemptEach
<1>7. TodoIsDue'
  BY <1>1, <1>2 DEF AttemptInv, TodoIsDue
<1>8. DecidedHasNoRetry'
  BY <1>2 DEF AttemptInv, DecidedHasNoRetry
<1> QED
  BY <1>5, <1>6, <1>7, <1>8 DEF AttemptInv

LEMMA AttemptBackoffElapses ==
  ASSUME TypeInv, AttemptInv, NEW e \in Events, BackoffElapses(e)
  PROVE  AttemptInv'
<1>1. /\ e \in Ids /\ records[e] \in AcceptedEventRecord /\ Events \subseteq Ids
      /\ sweep.todo \subseteq Events /\ UNCHANGED << requests, sweep >>
  BY DEF Ids, TypeInv, TypeOK, BackoffElapses, storeVars
<1>2. /\ records[e].retry = "future" /\ records[e].status = "pending"
      /\ records'[e].status = "pending" /\ records'[e].retry = "due"
      /\ \A i \in Ids : i # e => records'[i] = records[i]
  BY <1>1 DEF BackoffElapses, AttemptInv, DecidedHasNoRetry, TypeInv, TypeOK, AcceptedEventRecord
<1>3. AwaitedIsPending'
  BY <1>1, <1>2 DEF AttemptInv, AwaitedIsPending
<1>4. TodoIsDue'
  BY <1>1, <1>2 DEF AttemptInv, TodoIsDue
<1>5. DecidedHasNoRetry'
  BY <1>2 DEF AttemptInv, DecidedHasNoRetry
<1> QED
  BY <1>1, <1>3, <1>4, <1>5 DEF AttemptInv, OneAttemptEach

LEMMA AttemptAlarmFires ==
  ASSUME TypeInv, AttemptInv, AlarmFires
  PROVE  AttemptInv'
<1>1. /\ sweep = NoSweep /\ records' = records
      /\ SweepOn(DueRetries(records), records, meta', requests, "none")
  BY DEF AlarmFires
<1>2. DecidedHasNoRetry'
  BY <1>1 DEF AttemptInv, DecidedHasNoRetry
<1>3. None \notin Events
  BY DomainAssumption DEF Ids
<1>4. \A q \in requests : q.awaited => records[q.id].retry = "unset"
  BY <1>1, <1>3 DEF AttemptInv, AwaitedIsPending, NoSweep
<1>5. CASE requests' = requests /\ sweep' = NoSweep
  BY <1>1, <1>2, <1>5
     DEF AttemptInv, AwaitedIsPending, OneAttemptEach, TodoIsDue
<1>6. ASSUME NEW e \in DueRetries(records),
             sweep' = [current |-> e, todo |-> DueRetries(records) \ {e}],
             requests' = requests \cup {Attempt(e, records)}
      PROVE  AttemptInv'
  <2>1. e \in Events /\ records[e].status = "pending" /\ records[e].retry = "due"
    BY DEF DueRetries
  <2> DEFINE next == Attempt(e, records)
  <2>2. next.id = e /\ requests' = requests \cup {next} /\ sweep'.current = e
    BY <1>6, AttemptFields
  <2> HIDE DEF next
  <2>3. AwaitedIsPending'
    BY <1>1, <1>4, <2>1, <2>2 DEF AttemptInv, AwaitedIsPending
  <2>4. OneAttemptEach'
    BY <1>4, <2>1, <2>2 DEF AttemptInv, OneAttemptEach
  <2>5. TodoIsDue'
    BY <1>1, <1>6 DEF TodoIsDue, DueRetries
  <2> QED
    BY <1>2, <2>3, <2>4, <2>5 DEF AttemptInv
<1> QED
  BY <1>1, <1>5, <1>6 DEF SweepOn

LEMMA AttemptCrash ==
  ASSUME TypeInv, AttemptInv, Crash
  PROVE  AttemptInv'
<1>1. \A q \in requests' : ~ q.awaited
  BY OrphanFields DEF Crash, TypeInv, TypeOK, StoreTypeOK
<1>2. sweep'.todo = {} /\ records' = records
  BY DEF Crash, NoSweep
<1> QED
  BY <1>1, <1>2
     DEF AttemptInv, AwaitedIsPending, OneAttemptEach, TodoIsDue, DecidedHasNoRetry

LEMMA AttemptStep == TypeInv /\ AttemptInv /\ [Next]_vars => AttemptInv'
<1> SUFFICES ASSUME TypeInv, AttemptInv, [Next]_vars PROVE AttemptInv'
  OBVIOUS
<1>1. CASE UNCHANGED << requests, records, sweep >>
  BY <1>1 DEF AttemptInv, AwaitedIsPending, OneAttemptEach, TodoIsDue, DecidedHasNoRetry
<1>2. CASE StoreNext /\ UNCHANGED objectVars
  BY <1>2, AttemptStore
<1>3. ASSUME NEW r \in requests, Persistence(r) PROVE AttemptInv'
  BY <1>3, AttemptPersistence
<1>4. ASSUME NEW e \in Events, RecordEvent(e) \/ BackoffElapses(e) PROVE AttemptInv'
  BY <1>4, AttemptRecordEvent, AttemptBackoffElapses
<1>5. CASE FinishReconcile \/ AlarmFires \/ Crash
  BY <1>5, AttemptReconcile, AttemptAlarmFires, AttemptCrash
<1>6. ASSUME NEW c \in Conns, Authenticate(c) \/ Disconnect(c) PROVE AttemptInv'
  BY <1>1, <1>6 DEF Authenticate, Disconnect, storeVars
<1>7. CASE ReadSnapshot \/ FailReconcile \/ EndSession \/ DeadlinePasses \/ GoesQuiet
  BY <1>1, <1>7 DEF ReadSnapshot, FailReconcile, EndSession, DeadlinePasses, GoesQuiet, storeVars
<1>8. CASE UNCHANGED vars
  BY <1>1, <1>8 DEF vars, storeVars, objectVars
<1> QED
  BY <1>2, <1>3, <1>4, <1>5, <1>6, <1>7, <1>8 DEF Next

LEMMA AttemptInvariant == Spec => []AttemptInv
  BY AttemptInit, AttemptStep, TypeInvariant, PTL DEF Spec

-----------------------------------------------------------------------------
(* Decisions are final *)

\* One step's worth of DecisionsAreFinal.
DecisionsKept ==
  \A i \in Ids : records[i].status # "none" =>
    /\ records'[i].version = records[i].version
    /\ records'[i].status # "none"
    /\ records[i].status # "pending" => records'[i] = records[i]

LEMMA DecisionsStep == TypeInv /\ AttemptInv /\ [Next]_vars => DecisionsKept
<1> SUFFICES ASSUME TypeInv, AttemptInv, [Next]_vars PROVE DecisionsKept
  OBVIOUS
<1>1. CASE UNCHANGED records
  BY <1>1 DEF DecisionsKept
<1>2. ASSUME NEW r \in requests, Persistence(r) PROVE DecisionsKept
  <2>1. r.id \in Ids /\ records[r.id].status = "pending"
    BY <1>2, PersistenceShape DEF AttemptInv, AwaitedIsPending, Ids
  <2>2. PICK new : Outcome(r, new)
    BY <1>2, PersistenceShape
  <2>3. records'[r.id] = new /\ \A i \in Ids : i # r.id => records'[i] = records[i]
    BY <2>1, <2>2 DEF Outcome, TypeInv, TypeOK
  <2> QED
    BY <2>1, <2>2, <2>3 DEF Outcome, DecisionsKept
<1>3. CASE FinishReconcile
  BY <1>3, ReconcileShape DEF DecisionsKept, UnknownRows
<1>4. ASSUME NEW e \in Events, RecordEvent(e) PROVE DecisionsKept
  <2>1. \A i \in Ids : i # e => records'[i] = records[i]
    BY <1>4 DEF RecordEvent, TypeInv, TypeOK
  <2>2. records[e].status = "none"
    BY <1>4 DEF RecordEvent
  <2> QED
    BY <2>1, <2>2 DEF DecisionsKept
<1>5. ASSUME NEW e \in Events, BackoffElapses(e) PROVE DecisionsKept
  <2>1. e \in Ids /\ records \in [Ids -> AcceptedEventRecord]
    BY DEF Ids, TypeInv, TypeOK
  <2>2. records[e].status = "pending"
    BY <1>5, <2>1 DEF BackoffElapses, AttemptInv, DecidedHasNoRetry
  <2>3. /\ records'[e].status = records[e].status
        /\ records'[e].version = records[e].version
        /\ \A i \in Ids : i # e => records'[i] = records[i]
    BY <1>5, <2>1 DEF BackoffElapses, AcceptedEventRecord
  <2> QED
    BY <2>2, <2>3 DEF DecisionsKept
<1>6. CASE \/ StoreNext /\ UNCHANGED objectVars
           \/ \E c \in Conns : Authenticate(c) \/ Disconnect(c)
           \/ ReadSnapshot \/ FailReconcile \/ EndSession \/ AlarmFires
           \/ DeadlinePasses \/ GoesQuiet \/ Crash
           \/ UNCHANGED vars
  BY <1>1, <1>6
     DEF objectVars, vars, Authenticate, Disconnect, ReadSnapshot, FailReconcile, EndSession,
         AlarmFires, DeadlinePasses, GoesQuiet, Crash
<1> QED
  BY <1>2, <1>3, <1>4, <1>5, <1>6 DEF Next

\* No late answer, retry, restart or reconciliation changes a verdict, and an
\* accepted event keeps its version, for any number of events and retries.
THEOREM VerdictsAreFinal == Spec => DecisionsAreFinal
<1>1. TypeInv /\ AttemptInv /\ [Next]_vars
        => [\A i \in Ids : records[i].status # "none" =>
              /\ records'[i].version = records[i].version
              /\ records'[i].status # "none"
              /\ records[i].status # "pending" => records'[i] = records[i]]_vars
  BY DecisionsStep DEF DecisionsKept
<1> QED
  BY <1>1, TypeInvariant, AttemptInvariant, PTL DEF Spec, DecisionsAreFinal

-----------------------------------------------------------------------------
(* Requests, rows and confirmations *)

LEMMA RequestInit == Init => RequestInv
  BY DEF Init, StoreInit, RequestInv, NoReconcile, RowWasAccepted, PersistedIsCanonical, NoRecord

\* A step of the object: rows stay, decisions are kept, and every request is an
\* old one, an abandoned one or a new attempt.
LEMMA RequestObjectStep ==
  ASSUME TypeInv, AttemptInv, RequestInv, DecisionsKept, rows' = rows,
         \A q \in requests' :
           \/ q \in requests
           \/ \E r \in requests : q = Orphaned(r) /\ r.stage \in {"sent", "checked"}
           \/ \E e \in Events : q = Attempt(e, records') /\ records'[e].status # "none"
  PROVE  /\ \A q \in requests' : Faithful(q)'
         /\ (\A row \in rows : row.id \in Planned => row.sequence = NoSequence)'
         /\ RowWasAccepted'
<1>1. Events \subseteq Ids /\ requests \subseteq Request /\ \A e \in Events : e \notin Planned
  BY DomainAssumption DEF Ids, TypeInv, TypeOK, StoreTypeOK
<1>2. ASSUME NEW q \in requests PROVE Faithful(q)'
  BY <1>1, <1>2 DEF RequestInv, Faithful, DecisionsKept, Stored
<1>3. ASSUME NEW r \in requests, r.stage \in {"sent", "checked"} PROVE Faithful(Orphaned(r))'
  <2> DEFINE left == Orphaned(r)
  <2>1. left.id = r.id /\ left.sequence = r.sequence /\ left.stage = r.stage
    BY <1>1, OrphanFields
  <2> HIDE DEF left
  <2>2. Faithful(left)'
    BY <1>1, <1>3, <2>1 DEF RequestInv, Faithful, DecisionsKept, Stored
  <2> QED
    BY <2>2 DEF left
<1>4. ASSUME NEW q, NEW e \in Events, records'[e].status # "none",
             q.id = e, q.sequence = records'[e].version, q.stage = "sent"
      PROVE  Faithful(q)'
  BY <1>1, <1>4 DEF Faithful
<1>5. ASSUME NEW q \in requests' PROVE Faithful(q)'
  <2>1. ASSUME NEW e \in Events, q = Attempt(e, records'), records'[e].status # "none"
        PROVE  Faithful(q)'
    <3>1. q.id = e /\ q.sequence = records'[e].version /\ q.stage = "sent"
      BY <2>1, AttemptFields
    <3> QED
      BY <1>4, <2>1, <3>1
  <2> QED
    BY <1>2, <1>3, <2>1
<1>6. RowWasAccepted'
  BY <1>1 DEF RequestInv, RowWasAccepted, DecisionsKept
<1> QED
  BY <1>5, <1>6 DEF RequestInv

\* What is confirmed anew has a row, so RequestInv goes on to hold.
LEMMA RequestConfirmStep ==
  ASSUME TypeInv, AttemptInv, RequestInv, DecisionsKept, rows' = rows,
         \A q \in requests' :
           \/ q \in requests
           \/ \E r \in requests : q = Orphaned(r) /\ r.stage \in {"sent", "checked"}
           \/ \E e \in Events : q = Attempt(e, records') /\ records'[e].status # "none",
         reconcile'.found \subseteq rows,
         \A i \in Ids : records'[i].status = "persisted" =>
           \/ records[i].status = "persisted"
           \/ \E row \in rows : row.id = i /\ row.sequence \in {records'[i].version, NoSequence}
  PROVE  RequestInv'
<1>1. /\ \A q \in requests' : Faithful(q)'
      /\ (\A row \in rows : row.id \in Planned => row.sequence = NoSequence)'
      /\ RowWasAccepted'
  BY RequestObjectStep
<1>2. PersistedIsCanonical'
  <2>1. ASSUME NEW i \in Ids, records'[i].status = "persisted"
        PROVE  \E row \in rows' : /\ row.id = i
                                  /\ row.sequence \in {records'[i].version, NoSequence}
    <3>1. CASE records[i].status = "persisted"
      <4>1. records'[i] = records[i]
        BY <3>1 DEF DecisionsKept
      <4>2. PICK row \in rows : row.id = i /\ row.sequence \in {records[i].version, NoSequence}
        BY <3>1 DEF RequestInv, PersistedIsCanonical
      <4> QED
        BY <4>1, <4>2
    <3>2. CASE records[i].status # "persisted"
      BY <2>1, <3>2
    <3> QED
      BY <3>1, <3>2
  <2> QED
    BY <2>1 DEF PersistedIsCanonical
<1> QED
  BY <1>1, <1>2 DEF RequestInv

LEMMA RequestStore ==
  ASSUME TypeInv, RequestInv, StoreNext, UNCHANGED objectVars
  PROVE  RequestInv'
<1>1. /\ UNCHANGED << records, reconcile >>
      /\ requests \subseteq Request
      /\ \A p \in Planned : p \notin Events
  BY DomainAssumption DEF objectVars, TypeInv, TypeOK, StoreTypeOK
<1>2. ASSUME rows \subseteq rows', NEW q \in requests PROVE Faithful(q)'
  <2>1. Stored(q.id) => Stored(q.id)'
    BY <1>2 DEF Stored
  <2>2. Faithful(q)
    BY DEF RequestInv
  <2> QED
    BY <1>1, <2>1, <2>2 DEF Faithful
<1>3. ASSUME NEW p \in Planned PROVE Faithful(PlannedRequest(p))'
  BY <1>1, PlannedFields DEF Faithful
<1>4. ASSUME rows \subseteq rows'
      PROVE  PersistedIsCanonical' /\ (reconcile.found \subseteq rows)'
  BY <1>1, <1>4 DEF RequestInv, PersistedIsCanonical
<1>5. ASSUME NEW r \in requests, HandleCheck(r) \/ HandleInsert(r)
      PROVE  RequestInv'
  <2>1. r \in Request /\ Faithful(r)
    BY <1>1 DEF RequestInv
  <2> DEFINE new == [id |-> r.id, sequence |-> r.sequence]
  <2>2. rows' = rows \/ rows' = rows \cup {new}
    BY <1>5 DEF HandleCheck, HandleInsert
  <2>3. rows \subseteq rows' /\ new.id = r.id /\ new.sequence = r.sequence
    BY <2>2
  <2> HIDE DEF new
  <2>4. RowWasAccepted' /\ (\A row \in rows : row.id \in Planned => row.sequence = NoSequence)'
    BY <1>1, <2>1, <2>2, <2>3 DEF RequestInv, RowWasAccepted, Faithful
  <2>5. PICK stage \in {"checked", "terminal", "ok"} :
          (\A q \in requests' : Replaced(r, stage, q)) /\ (stage = "ok" => Stored(r.id)')
    BY <1>5, HandlingShape
  <2> DEFINE answered == [r EXCEPT !.stage = stage]
  <2>6. /\ answered.id = r.id /\ answered.sequence = r.sequence
        /\ answered.stage = stage /\ answered.awaited = r.awaited
    BY <2>1, RequestFields DEF Stage
  <2>7. \A q \in requests' :
          \/ q \in requests
          \/ q = answered /\ (stage # "checked" => r.awaited)
          \/ \E p \in Planned : q = PlannedRequest(p)
    BY <2>5 DEF Replaced
  <2> HIDE DEF answered
  <2>8. ASSUME stage # "checked" => r.awaited
        PROVE  Faithful(answered)'
    <3>1. answered.stage \in {"ok", "terminal"} => answered.awaited
      BY <2>6, <2>8
    <3>2. answered.stage = "ok" => Stored(answered.id)'
      BY <2>5, <2>6
    <3> QED
      BY <1>1, <2>1, <2>6, <3>1, <3>2 DEF Faithful
  <2>9. \A q \in requests' : Faithful(q)'
    BY <1>2, <1>3, <2>3, <2>7, <2>8
  <2> QED
    BY <1>4, <2>3, <2>4, <2>9 DEF RequestInv
<1>6. ASSUME NEW p \in Planned, ApplyPlannedChange(p)
      PROVE  RequestInv'
  <2>1. rows' = rows /\ requests' = requests \cup {PlannedRequest(p)}
    BY <1>6 DEF ApplyPlannedChange
  <2>2. \A q \in requests' : Faithful(q)'
    BY <1>2, <1>3, <2>1
  <2> QED
    BY <1>1, <1>4, <2>1, <2>2 DEF RequestInv, RowWasAccepted
<1>7. CASE requests' = requests /\ rows' = rows
  <2>1. \A q \in requests' : Faithful(q)'
    BY <1>2, <1>7
  <2> QED
    BY <1>1, <1>4, <1>7, <2>1 DEF RequestInv, RowWasAccepted
<1>8. \/ \E r \in requests : HandleCheck(r) \/ HandleInsert(r)
      \/ \E p \in Planned : ApplyPlannedChange(p)
      \/ requests' = requests /\ rows' = rows
  BY DEF StoreNext, CheckClockWrite, CommitClockWrite, FinishSession, RevertSession
<1> QED
  BY <1>5, <1>6, <1>7, <1>8

LEMMA RequestPersistence ==
  ASSUME TypeInv, AttemptInv, RequestInv, DecisionsKept, NEW r \in requests, Persistence(r)
  PROVE  RequestInv'
<1>1. /\ rows' = rows /\ reconcile' = reconcile
      /\ r.id \in Events /\ r.id \in Ids /\ records \in [Ids -> AcceptedEventRecord]
      /\ records[r.id].status = "pending"
      /\ \A e \in sweep.todo : e \in Events /\ e \in Ids
  BY PersistenceShape
     DEF Persistence, PersistSucceeds, PersistRejected, PersistFails, AttemptInv,
         AwaitedIsPending, Ids, TypeInv, TypeOK
<1>2. PICK new : Outcome(r, new)
  BY PersistenceShape
<1>3. PICK remaining, slot : Left(r, remaining) /\ Resume(r.id, records', remaining, slot)
  BY PersistenceShape
<1>4. ASSUME NEW q \in requests'
      PROVE  \/ q \in requests
             \/ \E s \in requests : q = Orphaned(s) /\ s.stage \in {"sent", "checked"}
             \/ \E e \in Events : q = Attempt(e, records') /\ records'[e].status # "none"
  <2>1. ASSUME q \in remaining
        PROVE  \/ q \in requests
               \/ \E s \in requests : q = Orphaned(s) /\ s.stage \in {"sent", "checked"}
    BY <1>3, <2>1 DEF Left
  <2>2. ASSUME NEW f \in sweep.todo, q = Attempt(f, records')
        PROVE  f \in Events /\ records'[f].status # "none"
    BY <1>1 DEF AttemptInv, TodoIsDue, DecisionsKept
  <2>3. q \in remaining \/ \E f \in sweep.todo : q = Attempt(f, records')
    BY <1>3, ResumeShape
  <2> QED
    BY <2>1, <2>2, <2>3
<1>5. ASSUME NEW i \in Ids, records'[i].status = "persisted"
      PROVE  \/ records[i].status = "persisted"
             \/ \E row \in rows : row.id = i /\ row.sequence \in {records'[i].version, NoSequence}
  <2>1. CASE i # r.id
    BY <1>1, <1>2, <1>5, <2>1 DEF Outcome
  <2>2. CASE i = r.id
    <3>1. records'[i] = new /\ r.stage = "ok"
      BY <1>1, <1>2, <1>5, <2>2 DEF Outcome
    <3>2. PICK row \in rows : row.id = r.id
      BY <3>1 DEF RequestInv, Faithful, Stored
    <3>3. row.sequence = records[r.id].version
      BY <1>1, <3>2 DEF RequestInv, RowWasAccepted
    <3> QED
      BY <1>2, <2>2, <3>1, <3>2, <3>3 DEF Outcome
  <2> QED
    BY <2>1, <2>2
<1>6. reconcile'.found \subseteq rows
  BY <1>1 DEF RequestInv
<1> QED
  BY <1>1, <1>4, <1>5, <1>6, RequestConfirmStep

\* What the reconciliation confirms are planned rows: every row of a browser's
\* event has a record already.
LEMMA UnknownIsPlanned ==
  ASSUME TypeInv, RequestInv, NEW row \in UnknownRows
  PROVE  row \in rows /\ row.id \in Planned /\ row.sequence = NoSequence
<1>1. row \in rows /\ row.id \in Ids /\ records[row.id].status = "none"
  BY DEF UnknownRows, RequestInv, TypeInv, TypeOK, StoreTypeOK, Row
<1>2. row.id \notin Events
  BY <1>1 DEF RequestInv, RowWasAccepted
<1> QED
  BY <1>1, <1>2 DEF RequestInv, Ids

LEMMA RequestReconcile ==
  ASSUME TypeInv, AttemptInv, RequestInv, DecisionsKept, ReadSnapshot \/ FinishReconcile
  PROVE  RequestInv'
<1>1. rows' = rows /\ requests' = requests
  BY DEF ReadSnapshot, FinishReconcile, storeVars
<1>2. reconcile'.found \subseteq rows
  <2>1. reconcile.found \in SUBSET Row /\ reconcile.stage \in {"idle", "requested", "read"}
    BY DEF TypeInv, TypeOK
  <2>2. CASE ReadSnapshot
    BY <2>2 DEF ReadSnapshot, TypeInv, TypeOK
  <2>3. CASE FinishReconcile
    BY <2>3 DEF FinishReconcile, AttachInitialiser, NoReconcile
  <2> QED
    BY <2>2, <2>3
<1>3. ASSUME NEW i \in Ids, records'[i].status = "persisted"
      PROVE  \/ records[i].status = "persisted"
             \/ \E row \in rows : row.id = i /\ row.sequence \in {records'[i].version, NoSequence}
  <2>1. CASE ReadSnapshot
    BY <1>3, <2>1 DEF ReadSnapshot
  <2>2. CASE FinishReconcile
    BY <1>3, <2>2, ReconcileShape, UnknownIsPlanned
  <2> QED
    BY <2>1, <2>2
<1> QED
  BY <1>1, <1>2, <1>3, RequestConfirmStep

LEMMA RequestStep == TypeInv /\ AttemptInv /\ RequestInv /\ [Next]_vars => RequestInv'
<1> SUFFICES ASSUME TypeInv, AttemptInv, RequestInv, [Next]_vars PROVE RequestInv'
  OBVIOUS
<1>k. DecisionsKept
  BY DecisionsStep
<1>1. CASE StoreNext /\ UNCHANGED objectVars
  BY <1>1, RequestStore
<1>2. ASSUME NEW r \in requests, Persistence(r) PROVE RequestInv'
  BY <1>k, <1>2, RequestPersistence
<1>3. CASE ReadSnapshot \/ FinishReconcile
  BY <1>k, <1>3, RequestReconcile
<1>4. ASSUME NEW e \in Events, RecordEvent(e) PROVE RequestInv'
  <2>1. rows' = rows /\ reconcile' = reconcile /\ requests' = requests \cup {Attempt(e, records')}
    BY <1>4 DEF RecordEvent
  <2>2. records'[e].status = "pending" /\ \A i \in Ids : i # e => records'[i] = records[i]
    BY <1>4 DEF RecordEvent, NoRecord, TypeInv, TypeOK, Ids
  <2>3. reconcile'.found \subseteq rows
    BY <2>1 DEF RequestInv
  <2> QED
    BY <1>k, <2>1, <2>2, <2>3, RequestConfirmStep
<1>5. ASSUME NEW e \in Events, BackoffElapses(e) PROVE RequestInv'
  <2>1. rows' = rows /\ reconcile' = reconcile /\ requests' = requests
    BY <1>5 DEF BackoffElapses, storeVars
  <2>2. \A i \in Ids : records'[i].status = records[i].status
    BY <1>5 DEF BackoffElapses, TypeInv, TypeOK, AcceptedEventRecord
  <2>3. reconcile'.found \subseteq rows
    BY <2>1 DEF RequestInv
  <2> QED
    BY <1>k, <2>1, <2>2, <2>3, RequestConfirmStep
<1>6. CASE AlarmFires
  <2>1. rows' = rows /\ reconcile' = reconcile /\ records' = records
    BY <1>6 DEF AlarmFires
  <2>2. ASSUME NEW q \in requests'
        PROVE  \/ q \in requests
               \/ \E e \in Events : q = Attempt(e, records') /\ records'[e].status # "none"
    BY <1>6, <2>1 DEF AlarmFires, SweepOn, DueRetries
  <2>3. reconcile'.found \subseteq rows
    BY <2>1 DEF RequestInv
  <2> QED
    BY <1>k, <2>1, <2>2, <2>3, RequestConfirmStep
<1>7. CASE Crash
  <2>1. rows' = rows /\ records' = records
    BY <1>7 DEF Crash
  <2>2. \A q \in requests' : \/ q \in requests
                             \/ \E r \in requests : q = Orphaned(r) /\ r.stage \in {"sent", "checked"}
    BY <1>7 DEF Crash
  <2>3. reconcile'.found \subseteq rows
    BY <1>7 DEF Crash, NoReconcile
  <2> QED
    BY <1>k, <2>1, <2>2, <2>3, RequestConfirmStep
<1>8. CASE \/ \E c \in Conns : Authenticate(c) \/ Disconnect(c)
           \/ FailReconcile \/ EndSession \/ DeadlinePasses \/ GoesQuiet \/ UNCHANGED vars
  <2>1. rows' = rows /\ requests' = requests /\ records' = records
    BY <1>8 DEF Authenticate, Disconnect, FailReconcile, EndSession, DeadlinePasses, GoesQuiet,
                vars, storeVars, objectVars
  <2>2. reconcile'.found \subseteq rows
    BY <1>8 DEF Authenticate, Disconnect, FailReconcile, AttachInitialiser, NoReconcile,
                EndSession, DeadlinePasses, GoesQuiet, vars, objectVars, RequestInv
  <2> QED
    BY <1>k, <2>1, <2>2, RequestConfirmStep
<1> QED
  BY <1>1, <1>2, <1>3, <1>4, <1>5, <1>6, <1>7, <1>8 DEF Next

LEMMA RequestInvariant == Spec => []RequestInv
  BY RequestInit, RequestStep, TypeInvariant, AttemptInvariant, PTL DEF Spec

\* Whatever answers are lost, late or abandoned, a row exists only for an event
\* that was accepted first, under the version it was accepted at.
THEOREM RowsWereAccepted == Spec => []RowWasAccepted
  BY RequestInvariant, PTL DEF RequestInv

\* Whatever is reported as persisted is in the canonical store.
THEOREM ConfirmedIsStored == Spec => []PersistedIsCanonical
  BY RequestInvariant, PTL DEF RequestInv

-----------------------------------------------------------------------------
(* The promise *)

LEMMA PromiseInit == Init => Promise!Init
  BY DEF Init, StoreInit, Promise!Init, Promise!Ids, Ids, NoRecord

\* A step that leaves every status and the rows alone is a stutter.
LEMMA PromiseStutter ==
  ASSUME \A i \in Ids : records'[i].status = records[i].status, rows' = rows
  PROVE  UNCHANGED << [i \in Ids |-> records[i].status], { row.id : row \in rows } >>
  OBVIOUS

\* A step that decides or accepts one event.
LEMMA PromiseOne ==
  ASSUME NEW e \in Ids, rows' = rows,
         \A i \in Ids : i # e => records'[i].status = records[i].status,
         NEW verdict, records'[e].status = verdict
  PROVE  /\ [i \in Ids |-> records[i].status]'
              = [[i \in Ids |-> records[i].status] EXCEPT ![e] = verdict]
         /\ UNCHANGED { row.id : row \in rows }
  OBVIOUS

LEMMA PromiseStep ==
  ASSUME TypeInv, AttemptInv, RequestInv, [Next]_vars
  PROVE  [Promise!Next]_<< [i \in Ids |-> records[i].status], { row.id : row \in rows } >>
<1> DEFINE Kept == UNCHANGED << [i \in Ids |-> records[i].status], { row.id : row \in rows } >>
<1>1. ASSUME NEW r \in requests, HandleInsert(r), records' = records
      PROVE  Kept \/ Promise!Next
  <2>1. r.id \in Ids /\ (r.id \in Events => records[r.id].status # "none")
    BY DEF RequestInv, Faithful, TypeInv, TypeOK, StoreTypeOK, Request
  <2>2. CASE rows' = rows
    BY <1>1, <2>2, PromiseStutter
  <2>3. CASE rows' = rows \cup { [id |-> r.id, sequence |-> r.sequence] }
    <3>1. { row.id : row \in rows' } = { row.id : row \in rows } \cup {r.id}
      <4> DEFINE new == [id |-> r.id, sequence |-> r.sequence]
      <4>1. new.id = r.id /\ rows' = rows \cup {new}
        BY <2>3
      <4> HIDE DEF new
      <4> QED
        BY <4>1
    <3>2. Promise!Commit(r.id)
      BY <1>1, <2>1, <3>1 DEF Promise!Commit
    <3> QED
      BY <2>1, <3>2 DEF Promise!Next, Promise!Ids, Ids
  <2> QED
    BY <1>1, <2>2, <2>3 DEF HandleInsert
<1>2. ASSUME NEW r \in requests, Persistence(r)
      PROVE  Kept \/ Promise!Next
  <2>1. /\ r.id \in Events /\ r.id \in Ids /\ records \in [Ids -> AcceptedEventRecord]
        /\ records[r.id].status = "pending"
    BY <1>2, PersistenceShape DEF AttemptInv, AwaitedIsPending, Ids, TypeInv, TypeOK
  <2>2. PICK new : Outcome(r, new)
    BY <1>2, PersistenceShape
  <2>3. /\ rows' = rows
        /\ \A i \in Ids : i # r.id => records'[i].status = records[i].status
        /\ records'[r.id] = new
    BY <1>2, <2>1, <2>2
       DEF Outcome, Persistence, PersistSucceeds, PersistRejected, PersistFails
  <2>4. CASE new.status = "persisted" /\ r.stage = "ok"
    <3>1. r.id \in { row.id : row \in rows }
      BY <2>4 DEF RequestInv, Faithful, Stored
    <3>2. Promise!Confirm(r.id)
      BY <2>1, <2>3, <2>4, <3>1, PromiseOne DEF Promise!Confirm, Promise!Decide
    <3> QED
      BY <2>1, <3>2 DEF Promise!Next
  <2>5. CASE new.status = "failed_terminal"
    <3>1. Promise!Reject(r.id)
      BY <2>1, <2>3, <2>5, PromiseOne DEF Promise!Reject, Promise!Decide
    <3> QED
      BY <2>1, <3>1 DEF Promise!Next
  <2>6. CASE new.status = "failed_exhausted"
    <3>1. Promise!GiveUp(r.id)
      BY <2>1, <2>3, <2>6, PromiseOne DEF Promise!GiveUp, Promise!Decide
    <3> QED
      BY <2>1, <3>1 DEF Promise!Next
  <2>7. CASE new.status = records[r.id].status
    BY <2>3, <2>7, PromiseStutter
  <2> QED
    BY <2>2, <2>4, <2>5, <2>6, <2>7 DEF Outcome
<1>3. ASSUME NEW e \in Events, RecordEvent(e)
      PROVE  Promise!Next
  <2>1. /\ e \in Ids /\ rows' = rows /\ records[e].status = "none"
        /\ records'[e].status = "pending"
        /\ \A i \in Ids : i # e => records'[i].status = records[i].status
    BY <1>3 DEF RecordEvent, NoRecord, Ids, TypeInv, TypeOK
  <2>2. Promise!Accept(e)
    BY <2>1, PromiseOne DEF Promise!Accept
  <2> QED
    BY <2>2 DEF Promise!Next
<1>4. CASE FinishReconcile
  <2>s. PICK S : S = { row.id : row \in UnknownRows }
    OBVIOUS
  <2>1. rows' = rows
    BY <1>4 DEF FinishReconcile, storeVars
  <2>2. S \subseteq Planned /\ S \subseteq { row.id : row \in rows }
    BY <2>s, UnknownIsPlanned
  <2>3. \A i \in S : i \in Ids /\ records[i].status = "none"
    BY <2>s, <2>2 DEF UnknownRows, Ids
  <2>4. \A i \in Ids : records'[i].status = IF i \in S THEN "persisted" ELSE records[i].status
    BY <1>4, <2>s, ReconcileShape
  <2>5. Promise!Discover(S)
    BY <2>1, <2>2, <2>3, <2>4 DEF Promise!Discover, Promise!Ids, Ids
  <2> QED
    BY <2>2, <2>5 DEF Promise!Next
<1>5. ASSUME NEW e \in Events, BackoffElapses(e)
      PROVE  Kept
  <2>1. rows' = rows /\ \A i \in Ids : records'[i].status = records[i].status
    BY <1>5 DEF BackoffElapses, storeVars, TypeInv, TypeOK, AcceptedEventRecord
  <2> QED
    BY <2>1, PromiseStutter
<1>6. ASSUME rows' = rows, records' = records
      PROVE  Kept
  BY <1>6, PromiseStutter
<1>7. ASSUME StoreNext, UNCHANGED objectVars
      PROVE  Kept \/ Promise!Next
  <2>1. records' = records
    BY <1>7 DEF objectVars
  <2>2. \/ \E r \in requests : HandleInsert(r)
        \/ rows' = rows
    BY <1>7 DEF StoreNext, HandleCheck, ApplyPlannedChange, CheckClockWrite, CommitClockWrite,
                FinishSession, RevertSession
  <2> QED
    BY <1>1, <1>6, <2>1, <2>2
<1>8. CASE \/ \E c \in Conns : Authenticate(c) \/ Disconnect(c)
           \/ ReadSnapshot \/ FailReconcile \/ EndSession \/ AlarmFires
           \/ DeadlinePasses \/ GoesQuiet \/ Crash
           \/ UNCHANGED vars
  <2>1. rows' = rows /\ records' = records
    BY <1>8 DEF Authenticate, Disconnect, ReadSnapshot, FailReconcile, EndSession, AlarmFires,
                DeadlinePasses, GoesQuiet, Crash, vars, storeVars, objectVars
  <2> QED
    BY <1>6, <2>1
<1> QED
  BY <1>2, <1>3, <1>4, <1>5, <1>7, <1>8 DEF Next

\* The coordinator and the store implement the promise made to the browser:
\* accepted once, confirmed only when stored, every verdict final.
THEOREM PromiseIsKept == Spec => KeepsPromise
<1>1. TypeInv /\ AttemptInv /\ RequestInv /\ [Next]_vars
        => [Promise!Next]_<< [i \in Ids |-> records[i].status], { row.id : row \in rows } >>
  BY PromiseStep
<1> QED
  BY <1>1, PromiseInit, TypeInvariant, AttemptInvariant, RequestInvariant, PTL
     DEF Spec, KeepsPromise, Promise!Spec

=============================================================================
