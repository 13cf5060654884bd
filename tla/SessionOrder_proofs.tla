------------------------- MODULE SessionOrder_proofs -------------------------
(***************************************************************************)
(* Proofs about how a session moves on: ending by hand is safe, and, as    *)
(* long as the initial reconciliation has nothing to merge, sequence       *)
(* numbers are never given twice, the period never goes back and an ended  *)
(* session stays ended.                                                    *)
(*                                                                         *)
(* "Nothing to merge" is the assumption Planned = {}: no planned rotation  *)
(* writes rows past the coordinator.  The run stale_reconcile shows that   *)
(* the assumption cannot be dropped.                                       *)
(***************************************************************************)
EXTENDS DeliveryPromise_proofs

-----------------------------------------------------------------------------
(* Ending by hand *)

\* Only an accepted command makes an event pending.
LEMMA PendingStep ==
  ASSUME TypeInv, AttemptInv, [Next]_vars, NEW i \in Ids,
         records'[i].status = "pending", records[i].status # "pending"
  PROVE  meta.ended = "no" /\ meta'.ended = "no"
<1>1. records[i].status = "none"
  BY DecisionsStep DEF DecisionsKept
<1>2. ASSUME NEW r \in requests, Persistence(r) PROVE FALSE
  <2>1. r.id \in Ids /\ records[r.id].status = "pending"
    BY <1>2, PersistenceShape DEF AttemptInv, AwaitedIsPending, Ids
  <2>2. PICK new : Outcome(r, new)
    BY <1>2, PersistenceShape
  <2>3. records'[i] = records[i]
    BY <1>1, <2>1, <2>2 DEF Outcome, TypeInv, TypeOK
  <2> QED
    BY <2>3
<1>3. CASE FinishReconcile
  BY <1>3, ReconcileShape
<1>4. ASSUME NEW e \in Events, RecordEvent(e) PROVE meta.ended = "no" /\ meta'.ended = "no"
  BY <1>4 DEF RecordEvent, TypeInv, TypeOK, Meta
<1>5. ASSUME NEW e \in Events, BackoffElapses(e) PROVE FALSE
  BY <1>5 DEF BackoffElapses, TypeInv, TypeOK, AcceptedEventRecord
<1>6. CASE \/ StoreNext /\ UNCHANGED objectVars
           \/ \E c \in Conns : Authenticate(c) \/ Disconnect(c)
           \/ ReadSnapshot \/ FailReconcile \/ EndSession \/ AlarmFires
           \/ DeadlinePasses \/ GoesQuiet \/ Crash
           \/ UNCHANGED vars
  <2>1. records' = records
    BY <1>6
       DEF objectVars, vars, Authenticate, Disconnect, ReadSnapshot, FailReconcile, EndSession,
           AlarmFires, DeadlinePasses, GoesQuiet, Crash
  <2> QED
    BY <2>1
<1> QED
  BY <1>2, <1>3, <1>4, <1>5, <1>6 DEF Next

\* The session is ended by hand only when nothing is pending.
LEMMA ManualEndStep ==
  ASSUME TypeInv, [Next]_vars, meta'.ended = "MANUAL", meta.ended # "MANUAL"
  PROVE  Pending = {}
<1>1. ASSUME NEW c \in Conns, Authenticate(c) PROVE FALSE
  BY <1>1 DEF Authenticate, FreshMeta, NoMeta
<1>2. CASE FinishReconcile
  <2>1. CASE UnknownRows # {}
    <3>1. PICK n : meta' = [FreshMeta EXCEPT !.version = n]
      BY <1>2, <2>1 DEF FinishReconcile
    <3> QED
      BY <3>1 DEF FreshMeta, NoMeta
  <2> QED
    BY <1>2, <2>1 DEF FinishReconcile
<1>3. ASSUME NEW e \in Events, RecordEvent(e) PROVE FALSE
  BY <1>3 DEF RecordEvent, TypeInv, TypeOK, Meta
<1>4. CASE EndSession
  BY <1>4 DEF EndSession
<1>5. CASE AlarmFires
  BY <1>5 DEF AlarmFires, TypeInv, TypeOK, Meta
<1>6. CASE \/ StoreNext /\ UNCHANGED objectVars
           \/ \E r \in requests : Persistence(r)
           \/ \E e \in Events : BackoffElapses(e)
           \/ \E c \in Conns : Disconnect(c)
           \/ ReadSnapshot \/ FailReconcile \/ DeadlinePasses \/ GoesQuiet \/ Crash
           \/ UNCHANGED vars
  <2>1. meta' = meta
    BY <1>6
       DEF objectVars, vars, Persistence, PersistSucceeds, PersistRejected, PersistFails,
           BackoffElapses, Disconnect, ReadSnapshot, FailReconcile, DeadlinePasses, GoesQuiet, Crash
  <2> QED
    BY <2>1
<1> QED
  BY <1>1, <1>2, <1>3, <1>4, <1>5, <1>6 DEF Next

\* Ending by hand leaves nothing unsettled, however many events and devices.
THEOREM ManualEndIsSafe == Spec => []ManualEndIsSettled
<1>1. Init => ManualEndIsSettled
  BY DEF Init, NoMeta, ManualEndIsSettled
<1>2. TypeInv /\ AttemptInv /\ ManualEndIsSettled /\ [Next]_vars => ManualEndIsSettled'
  <2> SUFFICES ASSUME TypeInv, AttemptInv, ManualEndIsSettled, [Next]_vars,
                      meta'.ended = "MANUAL"
               PROVE  Pending' = {}
    BY DEF ManualEndIsSettled
  <2>1. Pending = {}
    BY ManualEndStep DEF ManualEndIsSettled
  <2>2. ASSUME NEW i \in Ids, records'[i].status = "pending" PROVE FALSE
    <3>1. records[i].status # "pending"
      BY <2>1 DEF Pending
    <3> QED
      BY <2>2, <3>1, PendingStep
  <2> QED
    BY <2>2 DEF Pending
<1> QED
  BY <1>1, <1>2, TypeInvariant, AttemptInvariant, PTL DEF Spec

-----------------------------------------------------------------------------
(* Sequence numbers, when there is nothing to merge *)

\* Accepted events have different versions, none above the session's; before the
\* session exists there is nothing, and no deadline to pass.
SequenceInv ==
  /\ \A i \in Accepted(records) : records[i].version <= meta.version
  /\ \A i, j \in Accepted(records) : records[i].version = records[j].version => i = j
  /\ ~ meta.established => meta = NoMeta /\ Accepted(records) = {} /\ ~ overdue

LEMMA SequenceInit == Init => SequenceInv
  BY DEF Init, SequenceInv, Accepted, NoRecord

LEMMA NothingToMerge ==
  ASSUME Planned = {}, TypeInv, RequestInv
  PROVE  UnknownRows = {}
  BY UnknownIsPlanned

LEMMA SequenceStep ==
  ASSUME Planned = {}, TypeInv, AlarmInv, AttemptInv, RequestInv, SequenceInv, [Next]_vars
  PROVE  SequenceInv'
<1>0. records \in [Ids -> AcceptedEventRecord] /\ meta \in Meta /\ Events \subseteq Ids
  BY DEF TypeInv, TypeOK, Ids
<1>k. DecisionsKept
  BY DecisionsStep
<1>1. ASSUME meta' = meta, Accepted(records') \subseteq Accepted(records),
             overdue' => overdue \/ meta.established
      PROVE  SequenceInv'
  <2>1. \A i \in Accepted(records') : records'[i].version = records[i].version
    BY <1>1, <1>k DEF DecisionsKept, Accepted
  <2> QED
    BY <1>1, <2>1 DEF SequenceInv
<1>2. ASSUME NEW r \in requests, Persistence(r) PROVE SequenceInv'
  <2>1. r.id \in Ids /\ records[r.id].status = "pending"
    BY <1>2, PersistenceShape DEF AttemptInv, AwaitedIsPending, Ids
  <2>2. PICK new : Outcome(r, new)
    BY <1>2, PersistenceShape
  <2>3. \A i \in Ids : i # r.id => records'[i] = records[i]
    BY <1>0, <2>2 DEF Outcome
  <2>4. Accepted(records') \subseteq Accepted(records)
    BY <2>1, <2>3 DEF Accepted
  <2>5. meta' = meta /\ overdue' = overdue
    BY <1>2 DEF Persistence, PersistSucceeds, PersistRejected, PersistFails
  <2> QED
    BY <1>1, <2>4, <2>5
<1>3. ASSUME NEW c \in Conns, Authenticate(c) PROVE SequenceInv'
  <2>1. records' = records /\ overdue' = overdue
    BY <1>3 DEF Authenticate
  <2>2. CASE meta.established
    BY <1>1, <1>3, <2>1, <2>2 DEF Authenticate
  <2>3. CASE ~ meta.established
    <3>1. meta'.established
      BY <1>3, <2>3 DEF Authenticate, FreshMeta, NoMeta
    <3> QED
      BY <2>1, <2>3, <3>1 DEF SequenceInv
  <2> QED
    BY <2>2, <2>3
<1>4. CASE FinishReconcile
  <2>1. meta' = meta /\ records' = records /\ overdue' = overdue
    BY <1>4, NothingToMerge DEF FinishReconcile
  <2> QED
    BY <1>1, <2>1
<1>5. ASSUME NEW e \in Events, RecordEvent(e) PROVE SequenceInv'
  <2>1. meta.established
    BY <1>5 DEF RecordEvent, CanReport, AlarmInv, Established
  <2>2. /\ meta'.version = meta.version + 1 /\ meta'.established
        /\ meta.version \in Nat
    BY <1>0, <1>5, <2>1 DEF RecordEvent, Meta
  <2>3. records[e].status = "none" /\ records'[e].version = meta.version + 1
    BY <1>0, <1>5 DEF RecordEvent, NoRecord
  <2>4. \A i \in Ids : i # e => records'[i] = records[i]
    BY <1>0, <1>5 DEF RecordEvent
  <2>5. \A i \in Ids : records[i].version \in Nat
    BY <1>0 DEF AcceptedEventRecord
  <2>6. \A i \in Accepted(records') : i = e \/ (i # e /\ i \in Accepted(records))
    BY <2>4 DEF Accepted
  <2>7. \A i \in Accepted(records) : i \in Ids /\ records[i].version <= meta.version
    BY DEF SequenceInv, Accepted
  <2>8. \A i \in Accepted(records') : records'[i].version <= meta'.version
    BY <2>2, <2>3, <2>4, <2>5, <2>6, <2>7
  <2>9. ASSUME NEW i \in Accepted(records'), NEW j \in Accepted(records'),
               records'[i].version = records'[j].version
        PROVE  i = j
    <3>1. CASE i = e /\ j # e
      BY <2>2, <2>3, <2>4, <2>5, <2>6, <2>7, <2>9, <3>1
    <3>2. CASE i # e /\ j = e
      BY <2>2, <2>3, <2>4, <2>5, <2>6, <2>7, <2>9, <3>2
    <3>3. CASE i # e /\ j # e
      BY <2>4, <2>6, <2>7, <2>9, <3>3 DEF SequenceInv
    <3> QED
      BY <3>1, <3>2, <3>3
  <2> QED
    BY <2>2, <2>8, <2>9 DEF SequenceInv
<1>6. CASE EndSession \/ AlarmFires
  <2>1. records' = records /\ overdue' = overdue
    BY <1>6 DEF EndSession, AlarmFires, storeVars
  <2>2. meta.established
    <3>1. CASE EndSession
      BY <3>1 DEF EndSession, CanReport, AlarmInv, Established
    <3>2. CASE AlarmFires
      <4>1. DueRetries(records) # {} \/ overdue
        BY <3>2 DEF AlarmFires
      <4>2. DueRetries(records) \subseteq Accepted(records)
        BY <1>0 DEF DueRetries, Accepted
      <4> QED
        BY <4>1, <4>2 DEF SequenceInv
    <3> QED
      BY <1>6, <3>1, <3>2
  <2>3. meta'.version = meta.version /\ meta'.established
    BY <1>0, <1>6, <2>2 DEF EndSession, AlarmFires, Meta
  <2> QED
    BY <2>1, <2>3 DEF SequenceInv
<1>7. ASSUME NEW e \in Events, BackoffElapses(e) PROVE SequenceInv'
  <2>1. meta' = meta /\ overdue' = overdue
    BY <1>7 DEF BackoffElapses
  <2>2. Accepted(records') \subseteq Accepted(records)
    BY <1>0, <1>7 DEF BackoffElapses, Accepted, AcceptedEventRecord
  <2> QED
    BY <1>1, <2>1, <2>2
<1>8. CASE \/ StoreNext /\ UNCHANGED objectVars
           \/ \E c \in Conns : Disconnect(c)
           \/ ReadSnapshot \/ FailReconcile \/ DeadlinePasses \/ GoesQuiet \/ Crash
           \/ UNCHANGED vars
  <2>1. meta' = meta /\ records' = records /\ (overdue' => overdue \/ meta.established)
    BY <1>8 DEF objectVars, vars, Disconnect, ReadSnapshot, FailReconcile, DeadlinePasses,
                GoesQuiet, Crash
  <2> QED
    BY <1>1, <2>1
<1> QED
  BY <1>2, <1>3, <1>4, <1>5, <1>6, <1>7, <1>8 DEF Next

LEMMA SequenceInvariant ==
  ASSUME Planned = {}
  PROVE  Spec => []SequenceInv
<1>1. TypeInv /\ AlarmInv /\ AttemptInv /\ RequestInv /\ SequenceInv /\ [Next]_vars
        => SequenceInv'
  BY SequenceStep
<1> QED
  BY <1>1, SequenceInit, TypeInvariant, AlarmInvariant, AttemptInvariant, RequestInvariant, PTL
     DEF Spec

\* With nothing to merge, no pending event holds a sequence another event's row
\* has, so the integrity error of the store cannot come from the coordinator.
THEOREM SequencesNeverCollide ==
  ASSUME Planned = {}
  PROVE  Spec => []NoSequenceCollision
<1>1. TypeInv /\ RequestInv /\ SequenceInv => NoSequenceCollision
  <2> SUFFICES ASSUME TypeInv, RequestInv, SequenceInv,
                      NEW i \in Pending, NEW row \in rows, row.sequence = records[i].version
               PROVE  row.id = i
    BY DEF NoSequenceCollision
  <2>1. i \in Accepted(records)
    BY DEF Pending, Accepted
  <2>2. row.id \in Events /\ row.id \in Ids
    BY DEF TypeInv, TypeOK, StoreTypeOK, Row, Ids
  <2>3. row.id \in Accepted(records) /\ row.sequence = records[row.id].version
    BY <2>2 DEF RequestInv, RowWasAccepted, Accepted
  <2> QED
    BY <2>1, <2>3 DEF SequenceInv
<1> QED
  BY <1>1, TypeInvariant, RequestInvariant, SequenceInvariant, PTL

-----------------------------------------------------------------------------
(* The session's clock and its end, when there is nothing to merge *)

\* What each step does to the session's metadata.
LEMMA MetaStep ==
  ASSUME Planned = {}, TypeInv, RequestInv, [Next]_vars
  PROVE  \/ meta' = meta
         \/ ~ meta.established
         \/ \E e \in Events : RecordEvent(e)
         \/ /\ meta.ended = "no"
            /\ meta'.period = meta.period
<1>0. meta \in Meta
  BY DEF TypeInv, TypeOK
<1>1. ASSUME NEW c \in Conns, Authenticate(c) PROVE meta' = meta \/ ~ meta.established
  BY <1>1 DEF Authenticate
<1>2. CASE FinishReconcile
  BY <1>2, NothingToMerge DEF FinishReconcile
<1>3. CASE EndSession \/ AlarmFires
  BY <1>0, <1>3 DEF EndSession, AlarmFires, Meta
<1>4. CASE \/ StoreNext /\ UNCHANGED objectVars
           \/ \E r \in requests : Persistence(r)
           \/ \E e \in Events : BackoffElapses(e)
           \/ \E c \in Conns : Disconnect(c)
           \/ ReadSnapshot \/ FailReconcile \/ DeadlinePasses \/ GoesQuiet \/ Crash
           \/ UNCHANGED vars
  BY <1>4
     DEF objectVars, vars, Persistence, PersistSucceeds, PersistRejected, PersistFails,
         BackoffElapses, Disconnect, ReadSnapshot, FailReconcile, DeadlinePasses, GoesQuiet, Crash
<1> QED
  BY <1>1, <1>2, <1>3, <1>4 DEF Next

\* With nothing to merge, an ended session stays as it ended.
THEOREM EndedStaysEnded ==
  ASSUME Planned = {}
  PROVE  Spec => EndIsFinal
<1>1. TypeInv /\ RequestInv /\ SequenceInv /\ [Next]_vars
        => [meta.ended # "no" => meta' = meta]_vars
  <2> SUFFICES ASSUME TypeInv, RequestInv, SequenceInv, [Next]_vars, meta.ended # "no"
               PROVE  meta' = meta
    OBVIOUS
  <2>1. meta.established
    BY DEF SequenceInv, NoMeta
  <2>2. ~ \E e \in Events : RecordEvent(e)
    BY DEF RecordEvent
  <2> QED
    BY <2>1, <2>2, MetaStep
<1> QED
  BY <1>1, TypeInvariant, RequestInvariant, SequenceInvariant, PTL DEF Spec, EndIsFinal

LEMMA PeriodIndexType ==
  /\ \A p \in Periods : PeriodIndex(p) \in 1..8 /\ PeriodOrder[PeriodIndex(p)] = p
  /\ PeriodIndex("BEFORE") = 1
  BY DEF Periods, PeriodIndex, PeriodOrder

\* With nothing to merge, the period clients are given never goes back.
THEOREM PeriodIsMonotone ==
  ASSUME Planned = {}
  PROVE  Spec => PeriodNeverMovesBack
<1>1. ASSUME TypeInv, NEW e \in Events, RecordEvent(e)
      PROVE  PeriodIndex(meta'.period) >= PeriodIndex(meta.period)
  <2>1. meta.period \in Periods /\ e \in Ids
    BY <1>1 DEF TypeInv, TypeOK, Meta, Ids
  <2>2. meta'.period = AdvanceClockAnchor(meta.period, e)
    <3>1. meta' = [meta EXCEPT !.version = meta.version + 1,
                               !.period = AdvanceClockAnchor(meta.period, e)]
      BY <1>1 DEF RecordEvent
    <3> QED
      BY <1>1, <3>1 DEF TypeInv, TypeOK, Meta
  <2>3. CASE Command[e].type \in PeriodTransitions /\ Command[e].period # None
    <3>1. Command[e].type \in ClockTypes => ClockAdmits(e, meta.period)
      BY <1>1 DEF RecordEvent, PreconditionHolds
    <3>2. ClockAdmits(e, meta.period) /\ meta'.period = Command[e].period
      BY <2>2, <2>3, <3>1 DEF ClockTypes, AdvanceClockAnchor
    <3>3. Command[e].period \in Periods
      BY <2>1, <2>3, DomainAssumption
    <3> QED
      BY <2>3, <3>2, <3>3, PeriodIndexType DEF ClockAdmits
  <2>4. CASE ~ (Command[e].type \in PeriodTransitions /\ Command[e].period # None)
    BY <2>1, <2>2, <2>4, PeriodIndexType DEF AdvanceClockAnchor
  <2> QED
    BY <2>3, <2>4
<1>2. TypeInv /\ RequestInv /\ SequenceInv /\ [Next]_vars
        => [PeriodIndex(meta'.period) >= PeriodIndex(meta.period)]_vars
  <2> SUFFICES ASSUME TypeInv, RequestInv, SequenceInv, [Next]_vars
               PROVE  PeriodIndex(meta'.period) >= PeriodIndex(meta.period)
    OBVIOUS
  <2>1. meta.period \in Periods /\ meta'.period \in Periods
    BY TypeStep DEF TypeInv, TypeOK, Meta
  <2>2. CASE ~ meta.established
    BY <2>1, <2>2, PeriodIndexType DEF SequenceInv, NoMeta
  <2>3. CASE meta'.period = meta.period
    BY <2>1, <2>3, PeriodIndexType
  <2> QED
    BY <1>1, <2>2, <2>3, MetaStep
<1> QED
  BY <1>2, TypeInvariant, RequestInvariant, SequenceInvariant, PTL DEF Spec, PeriodNeverMovesBack

-----------------------------------------------------------------------------
(* Where a player is, when there is nothing to merge *)

\* With nothing to merge, only the coordinator's own acceptance makes a record.
LEMMA AcceptedByCommand ==
  ASSUME Planned = {}, TypeInv, AttemptInv, RequestInv, [Next]_vars,
         NEW i \in Accepted(records'), i \notin Accepted(records)
  PROVE  i \in Events /\ RecordEvent(i)
<1>0. records \in [Ids -> AcceptedEventRecord] /\ i \in Ids /\ records[i].status = "none"
  BY DEF TypeInv, TypeOK, Accepted
<1>1. ASSUME NEW r \in requests, Persistence(r) PROVE FALSE
  <2>1. r.id \in Ids /\ records[r.id].status = "pending"
    BY <1>1, PersistenceShape DEF AttemptInv, AwaitedIsPending, Ids
  <2>2. PICK new : Outcome(r, new)
    BY <1>1, PersistenceShape
  <2>3. records'[i] = records[i]
    BY <1>0, <2>1, <2>2 DEF Outcome
  <2> QED
    BY <1>0, <2>3 DEF Accepted
<1>2. CASE FinishReconcile
  BY <1>2, NothingToMerge DEF FinishReconcile
<1>3. ASSUME NEW e \in Events, RecordEvent(e) PROVE i = e
  <2>1. i # e => records'[i] = records[i]
    BY <1>0, <1>3 DEF RecordEvent
  <2> QED
    BY <1>0, <2>1 DEF Accepted
<1>4. ASSUME NEW e \in Events, BackoffElapses(e) PROVE FALSE
  BY <1>0, <1>4 DEF BackoffElapses, Accepted, AcceptedEventRecord
<1>5. CASE \/ StoreNext /\ UNCHANGED objectVars
           \/ \E c \in Conns : Authenticate(c) \/ Disconnect(c)
           \/ ReadSnapshot \/ FailReconcile \/ EndSession \/ AlarmFires
           \/ DeadlinePasses \/ GoesQuiet \/ Crash
           \/ UNCHANGED vars
  <2>1. records' = records
    BY <1>5
       DEF objectVars, vars, Authenticate, Disconnect, ReadSnapshot, FailReconcile, EndSession,
           AlarmFires, DeadlinePasses, GoesQuiet, Crash
  <2> QED
    BY <2>1
<1> QED
  BY <1>1, <1>2, <1>3, <1>4, <1>5 DEF Next

Directions == {"ROTATION_OUT", "ROTATION_IN"}

\* The rotation the precondition looked at lies between any earlier one in the
\* same direction and the one now accepted.
LEMMA LastIsBetween ==
  ASSUME TypeInv, SequenceInv, NEW e \in Events, RecordEvent(e),
         Command[e].type \in Directions, Command[e].player # None,
         NEW i \in Active(records), Command[i].type = Command[e].type,
         Command[i].player = Command[e].player
  PROVE  \E k \in Accepted(records) :
           /\ Command[k].player = Command[e].player
           /\ Command[k].type \in Directions \ {Command[e].type}
           /\ records[i].version < records[k].version /\ records[k].version <= meta.version
<1>1. LineupAdmits(e, records)
  BY DEF RecordEvent, PreconditionHolds, LineupTypes, Directions
<1>2. i \in Rotations(Command[e].player, records)
  BY DEF Rotations, Directions
<1>3. PICK k \in LastRotations(Command[e].player, records) :
        IF Command[e].type = "ROTATION_IN"
        THEN Command[k].type = "ROTATION_OUT" ELSE Command[k].type = "ROTATION_IN"
  BY <1>1, <1>2 DEF LineupAdmits
<1>4. /\ k \in Accepted(records) /\ i \in Accepted(records)
      /\ Command[k].player = Command[e].player /\ records[i].version <= records[k].version
  BY <1>2, <1>3 DEF LastRotations, Rotations, Active
<1>5. Command[k].type \in Directions \ {Command[e].type}
  BY <1>3 DEF Directions
<1>6. records[i].version # records[k].version
  BY <1>4, <1>5 DEF SequenceInv
<1>7. records[i].version \in Nat /\ records[k].version \in Nat
  BY <1>4 DEF TypeInv, TypeOK, AcceptedEventRecord, Accepted
<1> QED
  BY <1>4, <1>5, <1>6, <1>7 DEF SequenceInv

LEMMA RotationStep ==
  ASSUME Planned = {}, TypeInv, AttemptInv, RequestInv, SequenceInv, RotationsAlternate,
         [Next]_vars
  PROVE  RotationsAlternate'
<1> SUFFICES
      ASSUME NEW i \in Accepted(records'), NEW j \in Accepted(records'),
             Command[i].type \in Directions, Command[i].player # None,
             Command[j].type = Command[i].type, Command[j].player = Command[i].player,
             records'[i].version < records'[j].version,
             records'[i].status # "failed_terminal"
      PROVE  \E k \in Accepted(records') :
               /\ Command[k].player = Command[i].player
               /\ Command[k].type \in Directions \ {Command[i].type}
               /\ records'[i].version < records'[k].version
               /\ records'[k].version < records'[j].version
  BY DEF RotationsAlternate, Directions
<1>1. \A k \in Accepted(records) : /\ k \in Accepted(records')
                                   /\ records'[k].version = records[k].version
  BY DecisionsStep DEF DecisionsKept, Accepted
<1>2. ASSUME NEW e \in Events, RecordEvent(e)
      PROVE  records'[e].version = meta.version + 1 /\ meta.version \in Nat
  BY <1>2 DEF RecordEvent, TypeInv, TypeOK, Meta, Ids, NoRecord
<1>3. i \in Accepted(records)
  <2>1. SUFFICES ASSUME i \notin Accepted(records) PROVE FALSE
    OBVIOUS
  <2>2. RecordEvent(i) /\ i \in Events
    BY <2>1, AcceptedByCommand
  <2>3. CASE j = i
    BY <1>2, <2>2, <2>3
  <2>4. CASE j # i
    <3>1. j \in Accepted(records)
      <4>1. j \in Ids /\ records'[j] = records[j]
        BY <2>2, <2>4 DEF RecordEvent, TypeInv, TypeOK, Accepted
      <4> QED
        BY <4>1 DEF Accepted
    <3>2. records'[j].version <= meta.version /\ records[j].version \in Nat
      BY <1>1, <3>1 DEF SequenceInv, TypeInv, TypeOK, AcceptedEventRecord, Accepted
    <3> QED
      BY <1>1, <1>2, <2>2, <3>1, <3>2
  <2> QED
    BY <2>3, <2>4
<1>4. i \in Active(records) /\ records[i].status # "failed_terminal"
  <2>1. records[i].status = "failed_terminal" => records'[i] = records[i]
    BY <1>3, DecisionsStep DEF DecisionsKept, Accepted
  <2> QED
    BY <1>3, <2>1 DEF Active
<1>5. CASE j \in Accepted(records)
  <2>1. PICK k \in Accepted(records) :
          /\ Command[k].player = Command[i].player
          /\ Command[k].type \in Directions \ {Command[i].type}
          /\ records[i].version < records[k].version
          /\ records[k].version < records[j].version
    BY <1>1, <1>3, <1>4, <1>5 DEF RotationsAlternate, Directions
  <2> QED
    BY <1>1, <1>3, <1>5, <2>1
<1>6. CASE j \notin Accepted(records)
  <2>1. j \in Events /\ RecordEvent(j)
    BY <1>6, AcceptedByCommand
  <2>2. PICK k \in Accepted(records) :
          /\ Command[k].player = Command[j].player
          /\ Command[k].type \in Directions \ {Command[j].type}
          /\ records[i].version < records[k].version /\ records[k].version <= meta.version
    BY <1>4, <2>1, LastIsBetween
  <2>3. records[k].version \in Nat
    BY <2>2 DEF TypeInv, TypeOK, AcceptedEventRecord, Accepted
  <2> QED
    BY <1>1, <1>2, <1>3, <2>1, <2>2, <2>3
<1> QED
  BY <1>5, <1>6

\* With nothing to merge, nobody is taken off twice or brought on twice: between
\* two rotations of one player in the same direction the coordinator accepted one
\* in the other direction, whichever devices sent them and whatever has since
\* become of the attempts, unless the first was rejected for good.
THEOREM NobodyMovesTwice ==
  ASSUME Planned = {}
  PROVE  Spec => []RotationsAlternate
<1>1. Init => RotationsAlternate
  BY DEF Init, RotationsAlternate, Accepted, NoRecord
<1>2. TypeInv /\ AttemptInv /\ RequestInv /\ SequenceInv /\ RotationsAlternate /\ [Next]_vars
        => RotationsAlternate'
  BY RotationStep
<1> QED
  BY <1>1, <1>2, TypeInvariant, AttemptInvariant, RequestInvariant, SequenceInvariant, PTL
     DEF Spec

=============================================================================
