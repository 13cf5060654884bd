-------------------------- MODULE LiveMatchDomain --------------------------
(***************************************************************************)
(* The pure rules of live match reporting: how an event type is            *)
(* classified, which semantic precondition the coordinator checks before   *)
(* it accepts a command, and which clock guard the database path checks    *)
(* before it writes a row.                                                 *)
(*                                                                         *)
(* A command is identified by its clientEventId.  Everything the rules     *)
(* look at (type, resulting period, player, target event) is fixed when    *)
(* the coach presses the button and never changes on a retry, so it is a   *)
(* constant function of the identifier.  Payloads, match seconds and names *)
(* are left out: no rule reads them.                                       *)
(***************************************************************************)
EXTENDS Naturals, Sequences

CONSTANTS
  Events,     \* clientEventIds submitted to the coordinator by reporting browsers
  Planned,    \* clientEventIds of rows the planned-rotation server action writes itself
  Command,    \* [Events \cup Planned -> command record]
  None        \* "field absent"

Ids == Events \cup Planned

-----------------------------------------------------------------------------
(* Event types and match periods *)

PeriodTransitions == {"MATCH_START", "PERIOD_START", "PERIOD_END", "MATCH_END"}
ClockTypes == PeriodTransitions \cup {"CLOCK_ADJUSTMENT"}
LineupTypes == {"ROTATION_OUT", "ROTATION_IN", "POSITIONS_CHANGED"}
AnnotationTypes == {"SCORER_SET", "ASSIST_SET", "EVENT_CORRECTED", "EVENT_REVERSED"}
AppendSafeTypes ==
  {"GOAL_FOR", "GOAL_AGAINST", "FAIR_PLAY_POSITIVE", "FAIR_PLAY_CONCERN", "MOMENT_MARKED"}

EventTypes == ClockTypes \cup LineupTypes \cup AnnotationTypes \cup AppendSafeTypes

PeriodOrder ==
  << "BEFORE", "FIRST_HALF", "HALF_TIME", "SECOND_HALF",
     "EXTRA_FIRST_HALF", "EXTRA_HALF_TIME", "EXTRA_SECOND_HALF", "FULL_TIME" >>

Periods == { PeriodOrder[i] : i \in DOMAIN PeriodOrder }
PlayingPeriods == {"FIRST_HALF", "SECOND_HALF", "EXTRA_FIRST_HALF", "EXTRA_SECOND_HALF"}

PeriodIndex(p) == CHOOSE i \in DOMAIN PeriodOrder : PeriodOrder[i] = p

ASSUME DomainAssumption ==
  /\ Events \cap Planned = {}
  /\ None \notin Ids \cup Periods
  /\ DOMAIN Command = Ids
  /\ \A i \in Ids :
       /\ Command[i].type \in EventTypes
       /\ Command[i].period \in Periods \cup {None}
       /\ Command[i].target \in Ids \cup {None}
       /\ Command[i].wellFormed \in BOOLEAN

Clock == [period : Periods, running : BOOLEAN]
InitialClock == [period |-> "BEFORE", running |-> FALSE]

-----------------------------------------------------------------------------
(* The coordinator's record of one accepted event.  "none" means there is no
   record; "retry" abstracts nextRetryAt to absent, in the future, or due. *)

RecordStatus == {"none", "pending", "persisted", "failed_terminal", "failed_exhausted"}

AcceptedEventRecord ==
  [version : Nat, status : RecordStatus, retry : {"unset", "future", "due"}, count : Nat]

NoRecord == [version |-> 0, status |-> "none", retry |-> "unset", count |-> 0]

Accepted(recs) == { i \in Ids : recs[i].status # "none" }
Active(recs) == { i \in Accepted(recs) : recs[i].status # "failed_terminal" }

-----------------------------------------------------------------------------
(* The coordinator's clock and preconditions *)

\* A period transition moves the anchor to the period the event carries.
AdvanceClockAnchor(period, i) ==
  IF Command[i].type \in PeriodTransitions /\ Command[i].period # None
  THEN Command[i].period
  ELSE period

\* Faulty variant: any transition is taken in any period.
ClockAdmitsAnything(i, period) == TRUE

\* MATCH_START only from BEFORE; every other transition forward or equal.
ClockAdmits(i, period) ==
  \/ Command[i].type \notin PeriodTransitions
  \/ Command[i].period = None
  \/ /\ Command[i].type = "MATCH_START"
     /\ period = "BEFORE"
  \/ /\ Command[i].type # "MATCH_START"
     /\ PeriodIndex(Command[i].period) >= PeriodIndex(period)

\* Faulty variant: only rotations that have reached the store are looked at.
PersistedRotations(player, recs) ==
  { i \in Ids : /\ recs[i].status = "persisted"
                /\ Command[i].player = player
                /\ Command[i].type \in {"ROTATION_OUT", "ROTATION_IN"} }

\* The rotations of a player, and the one that decides where the player is:
\* the highest version.  Equal versions are replayed in the order of the
\* storage keys, which are random identifiers, so either may be the last.
Rotations(player, recs) ==
  { i \in Active(recs) : /\ Command[i].player = player
                         /\ Command[i].type \in {"ROTATION_OUT", "ROTATION_IN"} }

LastRotations(player, recs) ==
  { i \in Rotations(player, recs) :
      \A j \in Rotations(player, recs) : recs[j].version <= recs[i].version }

\* A player no event has mentioned is unknown and may move either way.
LineupAdmits(i, recs) ==
  \/ Command[i].player = None
  \/ Rotations(Command[i].player, recs) = {}
  \/ \E last \in LastRotations(Command[i].player, recs) :
       IF Command[i].type = "ROTATION_IN"
       THEN Command[last].type = "ROTATION_OUT"
       ELSE Command[last].type = "ROTATION_IN"

\* The target must be an active record; a reversal must be its first.
AnnotationAdmits(i, recs) ==
  \/ Command[i].target = None
  \/ /\ Command[i].target \in Active(recs)
     /\ Command[i].type = "EVENT_REVERSED" =>
          ~ \E j \in Active(recs) : /\ Command[j].type = "EVENT_REVERSED"
                                    /\ Command[j].target = Command[i].target

PreconditionHolds(i, period, recs) ==
  /\ Command[i].type \in ClockTypes => ClockAdmits(i, period)
  /\ Command[i].type \in LineupTypes => LineupAdmits(i, recs)
  /\ Command[i].type \in AnnotationTypes => AnnotationAdmits(i, recs)

-----------------------------------------------------------------------------
(* The database path's guards *)

RequiresRunningPeriod(i) ==
  Command[i].type \notin ClockTypes \cup {"EVENT_CORRECTED", "EVENT_REVERSED"}

\* checkNormalLiveEventGuard: a normal event needs a running playing period.
GuardAdmits(i, clock) ==
  RequiresRunningPeriod(i) => clock.running /\ clock.period \in PlayingPeriods

IsForwardClockTransition(current, next) ==
  \/ current = "BEFORE"
  \/ PeriodIndex(next) >= PeriodIndex(current)

=============================================================================
