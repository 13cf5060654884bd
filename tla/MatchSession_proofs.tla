------------------------ MODULE MatchSession_proofs ------------------------
(***************************************************************************)
(* Proofs about the coordinator, for every set of events, planned rows,    *)
(* sockets and clock inputs and every value of the bounds.                 *)
(***************************************************************************)
EXTENDS MatchSession, FiniteSetTheorems, TLAPS

\* The type invariant, strengthened until a step preserves it: what the
\* initialising handler read is finite, and the handler has a socket.
TypeInv ==
  /\ TypeOK
  /\ IsFiniteSet(rows)
  /\ IsFiniteSet(reconcile.found)
  /\ reconcile.stage # "idle" => reconcile.conn \in Conns

-----------------------------------------------------------------------------
(* Facts about the operators *)

LEMMA BeforeIsPeriod == "BEFORE" \in Periods
  BY SMT DEF Periods, PeriodOrder

\* The clock anchor an accepted event leaves is a period again.
LEMMA AdvanceType ==
  ASSUME NEW p \in Periods, NEW i \in Ids
  PROVE  AdvanceClockAnchor(p, i) \in Periods
  BY DomainAssumption DEF AdvanceClockAnchor

\* An attempt is a request, for the event and with the version it was accepted at.
LEMMA AttemptType ==
  ASSUME TypeOK, NEW e \in Events, NEW recs \in [Ids -> AcceptedEventRecord]
  PROVE  Attempt(e, recs) \in Request
<1>1. e \in Ids /\ crashes \in Nat
  BY SessionAssumption DEF TypeOK, Ids
<1>2. recs[e] \in AcceptedEventRecord
  BY <1>1
<1> QED
  BY <1>1, <1>2 DEF Attempt, Request, Stage, AcceptedEventRecord

LEMMA SettleType ==
  ASSUME TypeOK, NEW e \in Ids, NEW verdict \in RecordStatus, Settle(e, verdict)
  PROVE  records' \in [Ids -> AcceptedEventRecord]
  BY DEF Settle, TypeOK, AcceptedEventRecord

\* Whatever the sweep does next keeps the sweep, the requests and the slot typed.
LEMMA SweepOnType ==
  ASSUME TypeOK, NEW todo \in SUBSET Events, NEW recs \in [Ids -> AcceptedEventRecord],
         NEW m, NEW remaining \in SUBSET Request, NEW slot \in {"none", "armed"},
         SweepOn(todo, recs, m, remaining, slot)
  PROVE  /\ sweep' \in [current : Events \cup {None}, todo : SUBSET Events]
         /\ requests' \subseteq Request
         /\ alarm' \in {"none", "armed"}
<1>1. CASE /\ todo = {}
           /\ sweep' = NoSweep
           /\ requests' = remaining
           /\ alarm' = RefreshedAlarm(recs, m)
  BY <1>1 DEF NoSweep, RefreshedAlarm
<1>2. CASE \E e \in todo :
             /\ sweep' = [current |-> e, todo |-> todo \ {e}]
             /\ requests' = remaining \cup { Attempt(e, recs) }
             /\ alarm' = slot
  BY <1>2, AttemptType
<1> QED
  BY <1>1, <1>2 DEF SweepOn

LEMMA ResumeType ==
  ASSUME TypeOK, NEW e, NEW recs \in [Ids -> AcceptedEventRecord],
         NEW remaining \in SUBSET Request, NEW slot \in {"none", "armed"},
         Resume(e, recs, remaining, slot)
  PROVE  /\ sweep' \in [current : Events \cup {None}, todo : SUBSET Events]
         /\ requests' \subseteq Request
         /\ alarm' \in {"none", "armed"}
<1>1. CASE SweepOn(sweep.todo, recs, meta, remaining, slot)
  <2>1. sweep.todo \in SUBSET Events
    BY DEF TypeOK
  <2> QED
    BY <1>1, <2>1, SweepOnType
<1>2. CASE requests' = remaining /\ alarm' = slot /\ UNCHANGED sweep
  BY <1>2 DEF TypeOK
<1> QED
  BY <1>1, <1>2 DEF Resume

LEMMA AnswerType ==
  ASSUME StoreTypeOK, NEW r \in requests, NEW outcome \in Stage, Answer(r, outcome)
  PROVE  requests' \subseteq Request
<1>1. r \in Request
  BY DEF StoreTypeOK
<1>2. [r EXCEPT !.stage = outcome] \in Request
  BY <1>1 DEF Request
<1>3. NextPlannedWrite(r, outcome) \subseteq Request
  <2>1. ASSUME r.id \in DOMAIN SecondWrite
        PROVE  PlannedRequest(SecondWrite[r.id]) \in Request
    BY <2>1, StoreAssumption DEF PlannedRequest, Request, Stage, Ids, NoSequence
  <2> QED
    BY <2>1 DEF NextPlannedWrite
<1> QED
  BY <1>1, <1>2, <1>3 DEF Answer, StoreTypeOK

-----------------------------------------------------------------------------
(* Type correctness *)

LEMMA TypeInit == Init => TypeInv
<1> SUFFICES ASSUME Init PROVE TypeInv
  OBVIOUS
<1>1. StoreTypeOK
  BY BeforeIsPeriod, StoreAssumption
     DEF Init, StoreInit, StoreTypeOK, InitialClock, Clock, Row, Request
<1>2. meta \in Meta
  BY BeforeIsPeriod DEF Init, NoMeta, Meta
<1>3. records \in [Ids -> AcceptedEventRecord]
  BY DEF Init, NoRecord, AcceptedEventRecord, RecordStatus
<1>4. /\ reconcile \in [conn : Conns \cup {None}, stage : {"idle", "requested", "read"},
                        found : SUBSET Row]
      /\ reconcile.stage = "idle"
      /\ reconcile.found = {}
  BY DEF Init, NoReconcile
<1>5. sweep \in [current : Events \cup {None}, todo : SUBSET Events]
  BY DEF Init, NoSweep
<1>6. IsFiniteSet(rows) /\ IsFiniteSet(reconcile.found)
  BY <1>4, FS_EmptySet DEF Init, StoreInit
<1>7. /\ overdue \in BOOLEAN
      /\ quiet \in BOOLEAN
      /\ alarm \in {"none", "armed"}
      /\ authenticated \subseteq Conns
      /\ crashes \in 0..MaxCrashes
  <2>1. overdue \in BOOLEAN /\ quiet \in BOOLEAN
    BY Zenon DEF Init
  <2>2. alarm \in {"none", "armed"} /\ authenticated \subseteq Conns
    BY DEF Init
  <2>3. crashes \in 0..MaxCrashes
    BY SessionAssumption DEF Init
  <2> QED
    BY <2>1, <2>2, <2>3
<1>8. TypeOK
  BY <1>1, <1>2, <1>3, <1>4, <1>5, <1>7, Zenon DEF TypeOK
<1> QED
  BY <1>4, <1>6, <1>8 DEF TypeInv

\* The store's own steps, with the object standing still.
LEMMA TypeStore ==
  ASSUME TypeInv, StoreNext, UNCHANGED objectVars
  PROVE  TypeInv'
<1>1. StoreTypeOK /\ IsFiniteSet(rows)
  BY DEF TypeInv, TypeOK
<1>2. StoreTypeOK' /\ IsFiniteSet(rows')
  <2>1. ASSUME NEW r \in requests, HandleCheck(r)
        PROVE  StoreTypeOK' /\ IsFiniteSet(rows')
    <3>1. r \in Request /\ [r EXCEPT !.stage = "checked"] \in Request
      BY <1>1 DEF StoreTypeOK, Request, Stage
    <3>2. requests' \subseteq Request
      BY <2>1, <1>1, <3>1, AnswerType DEF HandleCheck, Stage, StoreTypeOK
    <3> QED
      BY <2>1, <1>1, <3>2 DEF HandleCheck, StoreTypeOK
  <2>2. ASSUME NEW r \in requests, HandleInsert(r)
        PROVE  StoreTypeOK' /\ IsFiniteSet(rows')
    <3>1. requests' \subseteq Request
      BY <2>2, <1>1, AnswerType DEF HandleInsert, Stage
    <3>2. r.id \in Ids /\ r.sequence \in Nat
      BY <1>1 DEF StoreTypeOK, Request
    <3>3. rows' \subseteq Row /\ IsFiniteSet(rows')
      <4> DEFINE row == [id |-> r.id, sequence |-> r.sequence]
      <4>1. rows' = rows \/ rows' = rows \cup {row}
        BY <2>2 DEF HandleInsert
      <4>2. IsFiniteSet(rows \cup {row})
        BY <1>1, FS_AddElement
      <4>3. row \in Row
        BY <3>2 DEF Row
      <4> QED
        BY <4>1, <4>2, <4>3, <1>1 DEF StoreTypeOK
    <3> QED
      BY <2>2, <1>1, <3>1, <3>3 DEF HandleInsert, StoreTypeOK
  <2>3. ASSUME NEW p \in Planned, ApplyPlannedChange(p)
        PROVE  StoreTypeOK' /\ IsFiniteSet(rows')
    <3>1. PlannedRequest(p) \in Request
      BY DEF PlannedRequest, Request, Stage, Ids, NoSequence
    <3> QED
      BY <2>3, <1>1, <3>1 DEF ApplyPlannedChange, StoreTypeOK
  <2>4. ASSUME NEW next \in ClockInputs, CheckClockWrite(next)
        PROVE  StoreTypeOK' /\ IsFiniteSet(rows')
    BY <2>4, <1>1 DEF CheckClockWrite, StoreTypeOK
  <2>5. ASSUME NEW next \in clockWrites, CommitClockWrite(next)
        PROVE  StoreTypeOK' /\ IsFiniteSet(rows')
    BY <2>5, <1>1, StoreAssumption DEF CommitClockWrite, StoreTypeOK
  <2>6. CASE FinishSession
    BY <2>6, <1>1, StoreAssumption DEF FinishSession, StoreTypeOK
  <2>7. CASE RevertSession
    BY <2>7, <1>1 DEF RevertSession, StoreTypeOK
  <2> QED
    BY <2>1, <2>2, <2>3, <2>4, <2>5, <2>6, <2>7 DEF StoreNext
<1> QED
  BY <1>2 DEF TypeInv, TypeOK, objectVars

\* An attempt's answer or failure.
LEMMA TypePersistence ==
  ASSUME TypeInv, NEW r \in requests, Persistence(r)
  PROVE  TypeInv'
<1> USE DEF TypeInv
<1>1. /\ r \in Request /\ r.id \in Ids /\ requests \ {r} \subseteq Request
      /\ alarm \in {"none", "armed"}
  BY DEF TypeOK, StoreTypeOK, Request
<1>2. /\ records' \in [Ids -> AcceptedEventRecord]
      /\ sweep' \in [current : Events \cup {None}, todo : SUBSET Events]
      /\ requests' \subseteq Request
      /\ alarm' \in {"none", "armed"}
  <2>1. CASE PersistSucceeds(r)
    <3>1. records' \in [Ids -> AcceptedEventRecord]
      BY <2>1, <1>1, SettleType DEF PersistSucceeds, RecordStatus
    <3> QED
      BY <2>1, <1>1, <3>1, ResumeType DEF PersistSucceeds
  <2>2. CASE PersistRejected(r)
    <3>1. records' \in [Ids -> AcceptedEventRecord]
      BY <2>2, <1>1, SettleType DEF PersistRejected, RecordStatus
    <3> QED
      BY <2>2, <1>1, <3>1, ResumeType DEF PersistRejected
  <2>3. CASE PersistFails(r)
    <3>1. records' \in [Ids -> AcceptedEventRecord]
      <4>1. PICK aged \in BOOLEAN : ScheduleRetry(r.id, aged)
        BY <2>3 DEF PersistFails
      <4>2. CASE Exhausted(records[r.id], aged)
        BY <4>1, <4>2, <1>1, SettleType DEF ScheduleRetry, RecordStatus
      <4>3. CASE ~ Exhausted(records[r.id], aged)
        <5>1. /\ records \in [Ids -> AcceptedEventRecord]
              /\ records[r.id] \in AcceptedEventRecord
          BY <1>1 DEF TypeOK
        <5> DEFINE next == [records[r.id] EXCEPT !.retry = "future",
                                                 !.count = records[r.id].count + 1]
        <5>2. next \in AcceptedEventRecord
          <6> DEFINE n == records[r.id].count + 1
          <6>1. n \in Nat
            BY <5>1 DEF AcceptedEventRecord
          <6> HIDE DEF n
          <6>2. \A rec \in AcceptedEventRecord :
                  [rec EXCEPT !.retry = "future", !.count = n] \in AcceptedEventRecord
            BY <6>1 DEF AcceptedEventRecord
          <6>3. next = [records[r.id] EXCEPT !.retry = "future", !.count = n]
            BY DEF n
          <6> QED
            BY <5>1, <6>2, <6>3
        <5>3. records' = [records EXCEPT ![r.id] = next]
          BY <4>1, <4>3, Zenon DEF ScheduleRetry
        <5> HIDE DEF next
        <5> QED
          BY <1>1, <5>1, <5>2, <5>3
      <4> QED
        BY <4>2, <4>3
    <3>2. [r EXCEPT !.awaited = FALSE] \in Request
      BY <1>1 DEF Request
    <3>3. PICK left \in {{}} \cup IF r.stage \in {"sent", "checked"}
                                  THEN {{[r EXCEPT !.awaited = FALSE]}} ELSE {} :
            Resume(r.id, records', (requests \ {r}) \cup left, RefreshedAlarm(records', meta))
      BY <2>3 DEF PersistFails
    <3>4. (requests \ {r}) \cup left \subseteq Request
      BY <1>1, <3>2, <3>3
    <3>5. RefreshedAlarm(records', meta) \in {"none", "armed"}
      BY DEF RefreshedAlarm
    <3> QED
      BY <3>1, <3>3, <3>4, <3>5, ResumeType
  <2> QED
    BY <2>1, <2>2, <2>3 DEF Persistence
<1>3. UNCHANGED << session, clock, clockWrites, rows, begun, finishes,
                   meta, overdue, quiet, reconcile, authenticated, crashes >>
  BY DEF Persistence, PersistSucceeds, PersistRejected, PersistFails
<1> QED
  BY <1>2, <1>3 DEF TypeOK, StoreTypeOK

LEMMA TypeAuthenticate ==
  ASSUME TypeInv, NEW c \in Conns, Authenticate(c)
  PROVE  TypeInv'
<1> USE DEF TypeInv
<1>1. FreshMeta \in Meta
  BY BeforeIsPeriod DEF FreshMeta, NoMeta, Meta
<1>2. CASE ~ meta.established
  <2>1. /\ meta' = FreshMeta
        /\ reconcile' = [conn |-> c, stage |-> "requested", found |-> {}]
        /\ UNCHANGED << alarm, authenticated >>
        /\ UNCHANGED << storeVars, overdue, quiet, records, sweep, crashes >>
    BY <1>2, Zenon DEF Authenticate
  <2>2. IsFiniteSet({})
    BY FS_EmptySet
  <2> QED
    BY <1>1, <2>1, <2>2 DEF TypeOK, StoreTypeOK, storeVars
<1>3. CASE meta.established
  <2>1. /\ authenticated' = authenticated \cup {c}
        /\ alarm' = RefreshedAlarm(records, meta)
        /\ UNCHANGED << meta, reconcile >>
        /\ UNCHANGED << storeVars, overdue, quiet, records, sweep, crashes >>
    BY <1>3, Zenon DEF Authenticate
  <2> QED
    BY <2>1 DEF TypeOK, StoreTypeOK, storeVars, RefreshedAlarm
<1> QED
  BY <1>2, <1>3

\* What the initialising handler leaves: a socket attached, nothing in progress.
LEMMA AttachType ==
  ASSUME TypeInv, reconcile.stage # "idle", NEW recs, NEW m, AttachInitialiser(recs, m)
  PROVE  /\ authenticated' \subseteq Conns
         /\ reconcile' \in [conn : Conns \cup {None}, stage : {"idle", "requested", "read"},
                            found : SUBSET Row]
         /\ reconcile'.stage = "idle"
         /\ IsFiniteSet(reconcile'.found)
         /\ alarm' \in {"none", "armed"}
<1>1. IsFiniteSet({})
  BY FS_EmptySet
<1> QED
  BY <1>1 DEF TypeInv, TypeOK, AttachInitialiser, NoReconcile, RefreshedAlarm

\* The version that is written back after a snapshot with new rows is a number.
LEMMA DiscoveredVersion ==
  ASSUME TypeInv, NEW base \in HighestSequence(reconcile.found)
  PROVE  /\ base \in Nat
         /\ Cardinality(UnnumberedRows) \in Nat
<1>1. reconcile.found \subseteq Row /\ IsFiniteSet(reconcile.found)
  BY DEF TypeInv, TypeOK
<1>2. IsFiniteSet(UnnumberedRows)
  BY <1>1, FS_Subset DEF UnnumberedRows, UnknownRows
<1> QED
  BY <1>1, <1>2, FS_CardinalityType DEF HighestSequence, Row

\* A row the snapshot brings becomes a well-formed record.
LEMMA DiscoveredType ==
  ASSUME TypeInv, NEW row \in UnknownRows, NEW base \in HighestSequence(reconcile.found),
         NEW number \in Numberings(UnnumberedRows)
  PROVE  Discovered(row, base, number) \in AcceptedEventRecord
<1>1. row.sequence \in Nat
  BY DEF TypeInv, TypeOK, UnknownRows, Row
<1>2. number \in [UnnumberedRows -> 1..Cardinality(UnnumberedRows)]
  BY DEF Numberings
<1>3. (IF row \in UnnumberedRows THEN base + number[row] ELSE row.sequence) \in Nat
  BY <1>1, <1>2, DiscoveredVersion
<1> QED
  BY <1>3 DEF Discovered, NoRecord, AcceptedEventRecord, RecordStatus

LEMMA TypeReconcile ==
  ASSUME TypeInv, ReadSnapshot \/ FinishReconcile \/ FailReconcile
  PROVE  TypeInv'
<1>1. CASE ReadSnapshot
  <2>1. /\ reconcile' = [reconcile EXCEPT !.stage = "read", !.found = rows]
        /\ reconcile.stage # "idle"
        /\ UNCHANGED << storeVars, meta, overdue, quiet, records, alarm, sweep,
                        authenticated, crashes >>
    BY <1>1, Zenon DEF ReadSnapshot
  <2>2. rows \subseteq Row /\ IsFiniteSet(rows) /\ reconcile.conn \in Conns
    BY <2>1 DEF TypeInv, TypeOK, StoreTypeOK
  <2>3. /\ reconcile' \in [conn : Conns \cup {None}, stage : {"idle", "requested", "read"},
                           found : SUBSET Row]
        /\ reconcile'.conn \in Conns
        /\ IsFiniteSet(reconcile'.found)
    BY <2>1, <2>2 DEF TypeInv, TypeOK
  <2> QED
    BY <2>1, <2>3 DEF TypeInv, TypeOK, StoreTypeOK, storeVars
<1>2. CASE FinishReconcile
  <2>1. reconcile.stage # "idle" /\ AttachInitialiser(records', meta')
    BY <1>2 DEF FinishReconcile
  <2>2. records' \in [Ids -> AcceptedEventRecord] /\ meta' \in Meta /\ quiet' \in BOOLEAN
    <3>1. CASE UnknownRows = {}
      BY <1>2, <3>1 DEF TypeInv, TypeOK, FinishReconcile
    <3>2. CASE UnknownRows # {}
      <4>1. PICK base \in HighestSequence(reconcile.found),
                 number \in Numberings(UnnumberedRows) :
                   /\ records' = [i \in Ids |->
                        IF \E row \in UnknownRows : row.id = i
                        THEN Discovered(CHOOSE row \in UnknownRows : row.id = i, base, number)
                        ELSE records[i]]
                   /\ meta' = [FreshMeta EXCEPT !.version = base + Cardinality(UnnumberedRows)]
        BY <1>2, <3>2 DEF FinishReconcile
      <4>2. ASSUME NEW i \in Ids
            PROVE  (IF \E row \in UnknownRows : row.id = i
                    THEN Discovered(CHOOSE row \in UnknownRows : row.id = i, base, number)
                    ELSE records[i]) \in AcceptedEventRecord
        <5>1. records[i] \in AcceptedEventRecord
          BY DEF TypeInv, TypeOK
        <5>2. ASSUME \E row \in UnknownRows : row.id = i
              PROVE  Discovered(CHOOSE row \in UnknownRows : row.id = i, base, number)
                       \in AcceptedEventRecord
          <6>1. (CHOOSE row \in UnknownRows : row.id = i) \in UnknownRows
            BY <5>2
          <6> QED
            BY <6>1, DiscoveredType
        <5> QED
          BY <5>1, <5>2
      <4>3. records' \in [Ids -> AcceptedEventRecord]
        BY <4>1, <4>2
      <4>4. meta' \in Meta
        <5>1. base + Cardinality(UnnumberedRows) \in Nat
          BY DiscoveredVersion
        <5> QED
          BY <4>1, <5>1, BeforeIsPeriod DEF FreshMeta, NoMeta, Meta
      <4>5. quiet' \in BOOLEAN
        <5>1. quiet \in BOOLEAN /\ quiet' \in {quiet, TRUE}
          BY <1>2, <3>2, Zenon DEF FinishReconcile, TypeInv, TypeOK
        <5> QED
          BY <5>1, Zenon
      <4> QED
        BY <4>3, <4>4, <4>5
    <3> QED
      BY <3>1, <3>2
  <2>3. UNCHANGED << storeVars, overdue, sweep, crashes >>
    BY <1>2 DEF FinishReconcile
  <2> QED
    BY <2>1, <2>2, <2>3, AttachType DEF TypeInv, TypeOK, StoreTypeOK, storeVars
<1>3. CASE FailReconcile
  <2>1. /\ reconcile.stage # "idle"
        /\ AttachInitialiser(records, meta)
        /\ UNCHANGED << storeVars, meta, overdue, quiet, records, sweep, crashes >>
    BY <1>3, Zenon DEF FailReconcile
  <2> QED
    BY <2>1, AttachType DEF TypeInv, TypeOK, StoreTypeOK, storeVars
<1> QED
  BY <1>1, <1>2, <1>3

LEMMA TypeRecordEvent ==
  ASSUME TypeInv, NEW e \in Events, RecordEvent(e)
  PROVE  TypeInv'
<1>1. e \in Ids /\ meta \in Meta /\ meta.version \in Nat /\ meta.period \in Periods
  BY DEF Ids, TypeInv, TypeOK, Meta
<1> DEFINE n == meta.version + 1
           accepted == [NoRecord EXCEPT !.status = "pending", !.version = n]
<1>2. records' = [records EXCEPT ![e] = accepted]
  BY Zenon DEF RecordEvent
<1>n. n \in Nat
  BY <1>1
<1> HIDE DEF n
<1>3. accepted \in AcceptedEventRecord
  BY <1>n DEF NoRecord, AcceptedEventRecord, RecordStatus
<1> HIDE DEF accepted
<1>4. records' \in [Ids -> AcceptedEventRecord]
  BY <1>1, <1>2, <1>3 DEF TypeInv, TypeOK
<1>5. meta' \in Meta
  <2>1. AdvanceClockAnchor(meta.period, e) \in Periods
    BY <1>1, AdvanceType
  <2>2. meta' = [meta EXCEPT !.version = n, !.period = AdvanceClockAnchor(meta.period, e)]
    BY DEF RecordEvent, n
  <2> QED
    BY <1>1, <1>n, <2>1, <2>2 DEF Meta
<1>6. requests' \subseteq Request
  <2>1. Attempt(e, records') \in Request
    BY <1>4, AttemptType DEF TypeInv
  <2> QED
    BY <2>1 DEF RecordEvent, TypeInv, TypeOK, StoreTypeOK
<1>7. /\ quiet' = FALSE
      /\ UNCHANGED << session, clock, clockWrites, rows, begun, finishes,
                      overdue, alarm, sweep, reconcile, authenticated, crashes >>
  BY DEF RecordEvent
<1> QED
  BY <1>4, <1>5, <1>6, <1>7 DEF TypeInv, TypeOK, StoreTypeOK

LEMMA TypeEndSession ==
  ASSUME TypeInv, EndSession
  PROVE  TypeInv'
<1>1. meta' \in Meta
  BY DEF EndSession, TypeInv, TypeOK, Meta
<1>2. alarm' \in {"none", "armed"}
  BY DEF EndSession, RefreshedAlarm
<1> QED
  BY <1>1, <1>2 DEF EndSession, TypeInv, TypeOK, StoreTypeOK, storeVars

LEMMA TypeAlarmFires ==
  ASSUME TypeInv, AlarmFires
  PROVE  TypeInv'
<1>1. meta' \in Meta
  BY DEF AlarmFires, TypeInv, TypeOK, Meta
<1>2. /\ requests' \subseteq Request
      /\ sweep' \in [current : Events \cup {None}, todo : SUBSET Events]
      /\ alarm' \in {"none", "armed"}
  <2>1. DueRetries(records) \in SUBSET Events
    BY DEF DueRetries
  <2>2. records \in [Ids -> AcceptedEventRecord] /\ requests \in SUBSET Request
    BY DEF TypeInv, TypeOK, StoreTypeOK
  <2>3. SweepOn(DueRetries(records), records, meta', requests, "none")
    BY DEF AlarmFires
  <2> QED
    BY <2>1, <2>2, <2>3, SweepOnType DEF TypeInv
<1>3. UNCHANGED << session, clock, clockWrites, rows, begun, finishes,
                   overdue, quiet, records, reconcile, authenticated, crashes >>
  BY DEF AlarmFires
<1> QED
  BY <1>1, <1>2, <1>3 DEF TypeInv, TypeOK, StoreTypeOK

\* Time, sockets and restarts.
LEMMA TypeEnvironment ==
  ASSUME TypeInv,
         \/ \E e \in Events : BackoffElapses(e)
         \/ DeadlinePasses
         \/ GoesQuiet
         \/ \E c \in Conns : Disconnect(c)
         \/ Crash
  PROVE  TypeInv'
<1>1. ASSUME NEW e \in Events, BackoffElapses(e)
      PROVE  TypeInv'
  <2>1. e \in Ids /\ records \in [Ids -> AcceptedEventRecord]
    BY DEF Ids, TypeInv, TypeOK
  <2>2. records' \in [Ids -> AcceptedEventRecord]
    BY <1>1, <2>1 DEF BackoffElapses, AcceptedEventRecord
  <2> QED
    BY <1>1, <2>2 DEF BackoffElapses, TypeInv, TypeOK, StoreTypeOK, storeVars
<1>2. CASE DeadlinePasses
  BY <1>2 DEF DeadlinePasses, TypeInv, TypeOK, StoreTypeOK, storeVars
<1>3. CASE GoesQuiet
  BY <1>3 DEF GoesQuiet, TypeInv, TypeOK, StoreTypeOK, storeVars
<1>4. ASSUME NEW c \in Conns, Disconnect(c)
      PROVE  TypeInv'
  BY <1>4 DEF Disconnect, TypeInv, TypeOK, StoreTypeOK, storeVars
<1>5. CASE Crash
  <2>1. \A r \in Request : Orphaned(r) \in Request
    BY DEF Orphaned, Request
  <2>2. requests' \subseteq Request
    BY <1>5, <2>1 DEF Crash, TypeInv, TypeOK, StoreTypeOK
  <2>3. crashes' \in 0..MaxCrashes
    BY <1>5, SessionAssumption DEF Crash, TypeInv, TypeOK
  <2>4. /\ alarm' \in {"none", "armed"}
        /\ sweep' \in [current : Events \cup {None}, todo : SUBSET Events]
        /\ reconcile' \in [conn : Conns \cup {None}, stage : {"idle", "requested", "read"},
                           found : SUBSET Row]
        /\ reconcile'.stage = "idle"
        /\ IsFiniteSet(reconcile'.found)
    <3>1. IsFiniteSet({})
      BY FS_EmptySet
    <3> QED
      BY <1>5, <3>1 DEF Crash, NoSweep, NoReconcile, TypeInv, TypeOK
  <2> QED
    BY <1>5, <2>2, <2>3, <2>4 DEF Crash, TypeInv, TypeOK, StoreTypeOK
<1> QED
  BY <1>1, <1>2, <1>3, <1>4, <1>5

\* The type invariant is inductive.
LEMMA TypeStep == TypeInv /\ [Next]_vars => TypeInv'
<1> SUFFICES ASSUME TypeInv, [Next]_vars PROVE TypeInv'
  OBVIOUS
<1>1. CASE StoreNext /\ UNCHANGED objectVars
  BY <1>1, TypeStore
<1>2. ASSUME NEW r \in requests, Persistence(r) PROVE TypeInv'
  BY <1>2, TypePersistence
<1>3. ASSUME NEW c \in Conns, Authenticate(c) \/ Disconnect(c) PROVE TypeInv'
  BY <1>3, TypeAuthenticate, TypeEnvironment
<1>4. CASE ReadSnapshot \/ FinishReconcile \/ FailReconcile
  BY <1>4, TypeReconcile
<1>5. ASSUME NEW e \in Events, RecordEvent(e) \/ BackoffElapses(e) PROVE TypeInv'
  BY <1>5, TypeRecordEvent, TypeEnvironment
<1>6. CASE EndSession
  BY <1>6, TypeEndSession
<1>7. CASE AlarmFires
  BY <1>7, TypeAlarmFires
<1>8. CASE DeadlinePasses \/ GoesQuiet \/ Crash
  BY <1>8, TypeEnvironment
<1>9. CASE UNCHANGED vars
  BY <1>9 DEF vars, storeVars, objectVars, TypeInv, TypeOK, StoreTypeOK
<1> QED
  BY <1>1, <1>2, <1>3, <1>4, <1>5, <1>6, <1>7, <1>8, <1>9 DEF Next

LEMMA TypeInvariant == Spec => []TypeInv
  BY TypeInit, TypeStep, PTL DEF Spec

\* Every variable of the coordinator and the store always holds a value of its
\* kind: in particular the initialising handler never attaches a socket it has
\* not got, whatever answers arrive late or after a restart.
THEOREM TypeCorrect == Spec => []TypeOK
<1>1. TypeInv => TypeOK
  BY DEF TypeInv
<1> QED
  BY <1>1, TypeInvariant, PTL

-----------------------------------------------------------------------------
(* The alarm slot *)

\* Nobody is attached, and nothing is being initialised, before a session exists.
Established ==
  authenticated # {} \/ reconcile.stage # "idle" => meta.established

AlarmInv ==
  /\ AlarmCoversRetries
  /\ LifecycleCheckArmed
  /\ Established

\* The alarm handler either goes on to another event or re-arms the slot.
LEMMA SweepOnCovers ==
  ASSUME NEW todo \in SUBSET Events, NEW recs, NEW m, NEW remaining, NEW slot,
         SweepOn(todo, recs, m, remaining, slot)
  PROVE  sweep' # NoSweep \/ alarm' = RefreshedAlarm(recs, m)
<1>1. None \notin Events
  BY DomainAssumption DEF Ids
<1> QED
  BY <1>1 DEF SweepOn, NoSweep

LEMMA ResumeCovers ==
  ASSUME TypeOK, NEW e, NEW recs, NEW remaining, NEW slot,
         Resume(e, recs, remaining, slot)
  PROVE  \/ sweep' # NoSweep
         \/ alarm' = RefreshedAlarm(recs, meta)
         \/ alarm' = slot /\ sweep' = sweep
<1>1. CASE SweepOn(sweep.todo, recs, meta, remaining, slot)
  <2>1. sweep.todo \in SUBSET Events
    BY DEF TypeOK
  <2> QED
    BY <1>1, <2>1, SweepOnCovers
<1>2. CASE alarm' = slot /\ sweep' = sweep
  BY <1>2
<1> QED
  BY <1>1, <1>2 DEF Resume

\* A refreshed slot serves whoever needs it.
LEMMA RefreshedCovers ==
  ASSUME alarm' = RefreshedAlarm(records', meta'), Established'
  PROVE  AlarmInv'
  BY DEF AlarmInv, AlarmCoversRetries, LifecycleCheckArmed, RefreshedAlarm, Established

\* A step that creates no new waiter and leaves the slot and the sweep alone.
LEMMA NoNewWaiter ==
  ASSUME AlarmInv,
         WaitingForRetry(records') \subseteq WaitingForRetry(records),
         UNCHANGED << alarm, sweep >>,
         authenticated' \subseteq authenticated, meta'.ended = meta.ended,
         Established'
  PROVE  AlarmInv'
  BY DEF AlarmInv, AlarmCoversRetries, LifecycleCheckArmed

\* A verdict ends the waiting of one event and starts nobody's.
LEMMA SettleWaiters ==
  ASSUME TypeOK, NEW e \in Ids, NEW verdict, Settle(e, verdict)
  PROVE  WaitingForRetry(records') \subseteq WaitingForRetry(records)
<1>1. \A i \in Events : i \in Ids
  BY DEF Ids
<1> QED
  BY <1>1 DEF Settle, WaitingForRetry, TypeOK

LEMMA AlarmInit == Init => AlarmInv
  BY DEF Init, AlarmInv, AlarmCoversRetries, LifecycleCheckArmed, WaitingForRetry, NoRecord, Ids,
         Established, NoReconcile

\* After an attempt the slot serves the event it concerned and all the others.
LEMMA AlarmPersistence ==
  ASSUME TypeInv, AlarmInv, NEW r \in requests, Persistence(r)
  PROVE  AlarmInv'
<1>1. TypeOK /\ r.id \in Ids
  BY DEF TypeInv, TypeOK, StoreTypeOK, Request
<1>2. UNCHANGED << meta, authenticated, reconcile >>
  BY DEF Persistence, PersistSucceeds, PersistRejected, PersistFails
<1>e. Established'
  BY <1>2 DEF AlarmInv, Established
<1>3. CASE PersistSucceeds(r) \/ PersistRejected(r)
  <2>1. WaitingForRetry(records') \subseteq WaitingForRetry(records)
    BY <1>1, <1>3, SettleWaiters DEF PersistSucceeds, PersistRejected
  <2>2. \/ sweep' # NoSweep
        \/ alarm' = RefreshedAlarm(records', meta)
        \/ alarm' = alarm /\ sweep' = sweep
    BY <1>1, <1>3, ResumeCovers DEF PersistSucceeds, PersistRejected
  <2>3. CASE sweep' # NoSweep
    BY <1>2, <1>e, <2>3 DEF AlarmInv, AlarmCoversRetries, LifecycleCheckArmed
  <2>4. CASE alarm' = RefreshedAlarm(records', meta)
    BY <1>2, <1>e, <2>4, RefreshedCovers
  <2>5. CASE alarm' = alarm /\ sweep' = sweep
    BY <1>2, <1>e, <2>1, <2>5, NoNewWaiter
  <2> QED
    BY <2>2, <2>3, <2>4, <2>5
<1>4. CASE PersistFails(r)
  <2>1. sweep' # NoSweep \/ alarm' = RefreshedAlarm(records', meta)
    BY <1>1, <1>4, ResumeCovers DEF PersistFails
  <2>2. CASE sweep' # NoSweep
    BY <1>2, <1>e, <2>2 DEF AlarmInv, AlarmCoversRetries, LifecycleCheckArmed
  <2>3. CASE alarm' = RefreshedAlarm(records', meta)
    BY <1>2, <1>e, <2>3, RefreshedCovers
  <2> QED
    BY <2>1, <2>2, <2>3
<1> QED
  BY <1>3, <1>4 DEF Persistence

\* A session is established before anybody is attached to it, and stays so.
LEMMA EstablishedStep ==
  ASSUME TypeInv, Established, [Next]_vars
  PROVE  Established' /\ (meta.established => meta'.established)
<1>1. CASE StoreNext /\ UNCHANGED objectVars
  BY <1>1 DEF objectVars, Established
<1>2. ASSUME NEW r \in requests, Persistence(r)
      PROVE  Established' /\ meta' = meta
  BY <1>2 DEF Persistence, PersistSucceeds, PersistRejected, PersistFails, Established
<1>3. ASSUME NEW c \in Conns, Authenticate(c) \/ Disconnect(c)
      PROVE  Established' /\ meta'.established
  <2>1. meta.established = TRUE \/ meta.established = FALSE
    BY DEF TypeInv, TypeOK, Meta
  <2>2. FreshMeta.established
    BY DEF FreshMeta, NoMeta
  <2>3. CASE Authenticate(c)
    BY <2>1, <2>2, <2>3, Zenon DEF Authenticate, Established
  <2>4. CASE Disconnect(c)
    BY <2>4 DEF Disconnect, Established
  <2> QED
    BY <1>3, <2>3, <2>4
<1>4. CASE ReadSnapshot \/ FailReconcile
  BY <1>4 DEF ReadSnapshot, FailReconcile, AttachInitialiser, NoReconcile, Established
<1>5. CASE FinishReconcile
  <2>1. meta.established
    BY <1>5 DEF FinishReconcile, Established
  <2>2. CASE UnknownRows = {}
    BY <1>5, <2>1, <2>2 DEF FinishReconcile, Established
  <2>3. CASE UnknownRows # {}
    <3>1. PICK n : meta' = [FreshMeta EXCEPT !.version = n]
      BY <1>5, <2>3 DEF FinishReconcile
    <3> QED
      BY <3>1, Zenon DEF FreshMeta, NoMeta, Established
  <2> QED
    BY <2>2, <2>3
<1>6. ASSUME NEW e \in Events, RecordEvent(e) \/ BackoffElapses(e)
      PROVE  Established' /\ meta'.established = meta.established
  BY <1>6 DEF RecordEvent, BackoffElapses, Established, TypeInv, TypeOK, Meta
<1>7. CASE EndSession \/ AlarmFires
  BY <1>7 DEF EndSession, AlarmFires, Established, TypeInv, TypeOK, Meta
<1>8. CASE DeadlinePasses \/ GoesQuiet \/ Crash
  BY <1>8 DEF DeadlinePasses, GoesQuiet, Crash, NoReconcile, Established
<1>9. CASE UNCHANGED vars
  BY <1>9 DEF vars, objectVars, Established
<1> QED
  BY <1>1, <1>2, <1>3, <1>4, <1>5, <1>6, <1>7, <1>8, <1>9 DEF Next

LEMMA AlarmStep == TypeInv /\ AlarmInv /\ [Next]_vars => AlarmInv'
<1> SUFFICES ASSUME TypeInv, AlarmInv, [Next]_vars PROVE AlarmInv'
  OBVIOUS
<1>e. Established'
  BY EstablishedStep DEF AlarmInv
<1>1. CASE UNCHANGED << records, meta, alarm, sweep, authenticated >>
  BY <1>1, <1>e, NoNewWaiter
<1>2. ASSUME NEW r \in requests, Persistence(r) PROVE AlarmInv'
  BY <1>2, AlarmPersistence
<1>3. ASSUME NEW c \in Conns, Authenticate(c) PROVE AlarmInv'
  <2>1. CASE meta.established
    BY <1>3, <1>e, <2>1, RefreshedCovers DEF Authenticate
  <2>2. CASE ~ meta.established
    <3>1. authenticated = {} /\ UNCHANGED << records, alarm, sweep, authenticated >>
      BY <1>3, <2>2 DEF Authenticate, AlarmInv, Established
    <3> QED
      BY <1>e, <3>1 DEF AlarmInv, AlarmCoversRetries, LifecycleCheckArmed
  <2> QED
    BY <2>1, <2>2
<1>4. CASE FinishReconcile \/ FailReconcile
  BY <1>4, <1>e, RefreshedCovers DEF FinishReconcile, FailReconcile, AttachInitialiser
<1>5. ASSUME NEW e \in Events, RecordEvent(e) PROVE AlarmInv'
  <2>1. WaitingForRetry(records') \subseteq WaitingForRetry(records)
    BY <1>5 DEF RecordEvent, WaitingForRetry, NoRecord, Ids, TypeInv, TypeOK
  <2> QED
    BY <1>5, <1>e, <2>1, NoNewWaiter DEF RecordEvent, TypeInv, TypeOK, Meta
<1>6. ASSUME NEW e \in Events, BackoffElapses(e) PROVE AlarmInv'
  <2>1. WaitingForRetry(records') \subseteq WaitingForRetry(records)
    BY <1>6 DEF BackoffElapses, WaitingForRetry, Ids, TypeInv, TypeOK, AcceptedEventRecord
  <2> QED
    BY <1>6, <1>e, <2>1, NoNewWaiter DEF BackoffElapses
<1>7. CASE EndSession
  BY <1>7, <1>e, RefreshedCovers DEF EndSession
<1>8. CASE AlarmFires
  <2>1. sweep' # NoSweep \/ alarm' = RefreshedAlarm(records', meta')
    <3>1. records' = records /\ SweepOn(DueRetries(records), records, meta', requests, "none")
      BY <1>8 DEF AlarmFires
    <3> QED
      BY <3>1, SweepOnCovers DEF DueRetries
  <2>2. CASE sweep' # NoSweep
    BY <1>e, <2>2 DEF AlarmInv, AlarmCoversRetries, LifecycleCheckArmed
  <2> QED
    BY <1>e, <2>1, <2>2, RefreshedCovers
<1>9. CASE Crash
  <2>1. /\ alarm = "armed" \/ sweep # NoSweep => alarm' = "armed"
        /\ authenticated' = {}
        /\ records' = records
    BY <1>9 DEF Crash
  <2> QED
    BY <1>e, <2>1 DEF AlarmInv, AlarmCoversRetries, LifecycleCheckArmed
<1>10. ASSUME NEW c \in Conns, Disconnect(c) PROVE AlarmInv'
  BY <1>10, <1>e, NoNewWaiter DEF Disconnect
<1>11. CASE ReadSnapshot \/ DeadlinePasses \/ GoesQuiet
  BY <1>11, <1>1 DEF ReadSnapshot, DeadlinePasses, GoesQuiet
<1>12. CASE (StoreNext /\ UNCHANGED objectVars) \/ UNCHANGED vars
  BY <1>12, <1>1 DEF vars, objectVars
<1> QED
  BY <1>2, <1>3, <1>4, <1>5, <1>6, <1>7, <1>8, <1>9, <1>10, <1>11, <1>12 DEF Next

LEMMA AlarmInvariant == Spec => []AlarmInv
  BY AlarmInit, AlarmStep, TypeInvariant, PTL DEF Spec

\* No waiting event is ever left without an alarm, for any number of events,
\* sockets, retries and restarts.
THEOREM RetriesAreScheduled == Spec => []AlarmCoversRetries
  BY AlarmInvariant, PTL DEF AlarmInv

\* An open session somebody is attached to always has its lifecycle check ahead.
THEOREM LifecycleIsScheduled == Spec => []LifecycleCheckArmed
  BY AlarmInvariant, PTL DEF AlarmInv

=============================================================================
