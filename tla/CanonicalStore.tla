--------------------------- MODULE CanonicalStore ---------------------------
(***************************************************************************)
(* The canonical side of live reporting: the Postgres rows of one match's  *)
(* live session and the server code that reads and writes them.            *)
(*                                                                         *)
(* recordEventForActor is not one transaction.  It reads the session row   *)
(* (status and clock), then looks for a row with the same clientEventId,   *)
(* then inserts; the database enforces only the two unique indexes at the  *)
(* insert.  A request is therefore a small process with the stages         *)
(*                                                                         *)
(*    "sent" --HandleCheck--> "checked" --HandleInsert--> "ok"/"terminal"  *)
(*                                                                         *)
(* and the session may be ended, reopened or its clock moved between the   *)
(* two steps.  A request whose caller has stopped waiting (awaited =       *)
(* FALSE) goes on and may still write its row.  No fairness is ever        *)
(* assumed on such a request, so it may also be lost.                      *)
(***************************************************************************)
EXTENDS LiveMatchDomain

CONSTANTS
  SecondWrite,   \* [first row of a planned change -> its second row], Planned to Planned
  ClockInputs,   \* clock states a browser tries to persist
  MaxFinishes    \* bound: how often finish live reporting ends the session

VARIABLES
  session,      \* LiveMatchSession.status
  clock,        \* LiveMatchSession.clockPeriod / clockRunning
  rows,         \* LiveMatchEvent rows; sequence 0 stands for NULL
  requests,     \* recordEventForActor calls in progress, or answered and not yet read
  clockWrites,  \* clock updates checked and not yet written
  begun,        \* planned changes already applied by the server action
  finishes      \* how often the session was ended (bounds the model)

storeVars == << session, clock, clockWrites, rows, requests, begun, finishes >>

ASSUME StoreAssumption ==
  /\ DOMAIN SecondWrite \subseteq Planned
  /\ \A p \in DOMAIN SecondWrite : SecondWrite[p] \in Planned \ DOMAIN SecondWrite
  /\ ClockInputs \subseteq Clock
  /\ MaxFinishes \in Nat

NoSequence == 0

Row == [id : Ids, sequence : Nat]
Stage == {"sent", "checked", "ok", "terminal"}
Request ==
  [id : Ids, sequence : Nat, count : Nat, epoch : Nat, stage : Stage, awaited : BOOLEAN]

Stored(i) == \E row \in rows : row.id = i
SequenceTaken(s) == s # NoSequence /\ \E row \in rows : row.sequence = s

-----------------------------------------------------------------------------
(* Requests *)

\* The server action that applies a planned change calls recordEvent in its
\* own process, without a sequence; no coordinator waits for it.
PlannedRequest(p) ==
  [id |-> p, sequence |-> NoSequence, count |-> 0, epoch |-> 0,
   stage |-> "sent", awaited |-> FALSE]

\* The substitution's ROTATION_IN is written only after its ROTATION_OUT.
NextPlannedWrite(r, outcome) ==
  IF outcome = "ok" /\ r.id \in DOMAIN SecondWrite
  THEN { PlannedRequest(SecondWrite[r.id]) }
  ELSE {}

\* The answer waits for the caller, if there still is one.
Answer(r, outcome) ==
  requests' = (requests \ {r})
                \cup (IF r.awaited THEN { [r EXCEPT !.stage = outcome] } ELSE {})
                \cup NextPlannedWrite(r, outcome)

\* Session and clock are read, the domain checks made, the duplicate looked up.
HandleCheck(r) ==
  /\ r.stage = "sent"
  /\ IF \/ session # "ACTIVE"
        \/ ~ Command[r.id].wellFormed
        \/ ~ GuardAdmits(r.id, clock)
     THEN Answer(r, "terminal")
     ELSE IF Stored(r.id)
     THEN Answer(r, "ok")
     ELSE requests' = (requests \ {r}) \cup { [r EXCEPT !.stage = "checked"] }
  /\ UNCHANGED << session, clock, clockWrites, rows, begun, finishes >>

\* The insert.  The clientEventId index is the older one and is reported first:
\* that race is idempotent.  A sequence held by another event is terminal.
HandleInsert(r) ==
  /\ r.stage = "checked"
  /\ \/ /\ Stored(r.id)
        /\ Answer(r, "ok")
        /\ UNCHANGED rows
     \/ /\ ~ Stored(r.id)
        /\ SequenceTaken(r.sequence)
        /\ Answer(r, "terminal")
        /\ UNCHANGED rows
     \/ /\ ~ Stored(r.id)
        /\ ~ SequenceTaken(r.sequence)
        /\ rows' = rows \cup { [id |-> r.id, sequence |-> r.sequence] }
        /\ Answer(r, "ok")
  /\ UNCHANGED << session, clock, clockWrites, begun, finishes >>

-----------------------------------------------------------------------------
(* Server actions of the browser that do not pass through the coordinator *)

\* applyPlannedChange needs an active session; its rows are checked later.
ApplyPlannedChange(p) ==
  /\ p \in Planned \ begun
  /\ \A q \in DOMAIN SecondWrite : SecondWrite[q] # p
  /\ session = "ACTIVE"
  /\ begun' = begun \cup {p}
  /\ requests' = requests \cup { PlannedRequest(p) }
  /\ UNCHANGED << session, clock, clockWrites, rows, finishes >>

\* persistLiveSessionClock reads the row and checks it, then updates it by id
\* with no condition: another device may have moved the clock in between.
CheckClockWrite(next) ==
  /\ session = "ACTIVE"
  /\ IsForwardClockTransition(clock.period, next.period)
  /\ clockWrites' = clockWrites \cup {next}
  /\ UNCHANGED << session, clock, rows, requests, begun, finishes >>

CommitClockWrite(next) ==
  /\ clock' = next
  /\ clockWrites' = clockWrites \ {next}
  /\ UNCHANGED << session, rows, requests, begun, finishes >>

\* finishLiveReporting's compare-and-set, and its revert when a later step fails.
FinishSession ==
  /\ session = "ACTIVE"
  /\ finishes < MaxFinishes
  /\ session' = "ENDED"
  /\ finishes' = finishes + 1
  /\ UNCHANGED << clock, clockWrites, rows, requests, begun >>

RevertSession ==
  /\ session = "ENDED"
  /\ session' = "ACTIVE"
  /\ UNCHANGED << clock, clockWrites, rows, requests, begun, finishes >>

-----------------------------------------------------------------------------

StoreInit ==
  /\ session = "ACTIVE"
  /\ clock = InitialClock
  /\ clockWrites = {}
  /\ rows = {}
  /\ requests = {}
  /\ begun = {}
  /\ finishes = 0

StoreTypeOK ==
  /\ session \in {"ACTIVE", "ENDED"}
  /\ clock \in Clock
  /\ clockWrites \subseteq ClockInputs
  /\ rows \subseteq Row
  /\ requests \subseteq Request
  /\ begun \subseteq Planned
  /\ finishes \in 0..MaxFinishes

StoreNext ==
  \/ \E r \in requests : HandleCheck(r) \/ HandleInsert(r)
  \/ \E p \in Planned : ApplyPlannedChange(p)
  \/ \E next \in ClockInputs : CheckClockWrite(next)
  \/ \E next \in clockWrites : CommitClockWrite(next)
  \/ FinishSession
  \/ RevertSession

=============================================================================
