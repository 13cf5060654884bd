---------------------------- MODULE HandoffPromise ----------------------------
(***************************************************************************)
(* What the handoff promises a coach about a match that was reported live, *)
(* without callers, statements, retries or requests:                       *)
(*                                                                         *)
(*   - a match is over once and for good, and then it has a report, unless *)
(*     the handoff was lost on the way;                                    *)
(*   - live events reach the report only while the match is being          *)
(*     finished: what is in it when the match is over is the coach's, and  *)
(*     so is every later change;                                           *)
(*   - the report is opened once, and an event that is in it is not put    *)
(*     into it again.                                                      *)
(*                                                                         *)
(* The promise is deliberately silent on two points: while the match is    *)
(* being finished the live score may replace the coach's, and a match that *)
(* could not be finished goes on with whatever its report has got by then. *)
(***************************************************************************)
CONSTANT Events   \* live events of the match

VARIABLES
    phase,     \* "playing", "finishing" or "over"
    played,    \* the events that are stored
    report,    \* "none", "open" or "locked"
    derived,   \* the events that have a row of the report
    scoreBy,   \* whose score the report has: "nobody", "coach" or "live"
    score,     \* the events counted in a live score
    lost       \* a handoff was lost on the way

contents == <<derived, scoreBy, score>>
vars == <<phase, played, report, contents, lost>>

Init ==
    /\ phase = "playing" /\ played = {}
    /\ report = "none" /\ derived = {} /\ scoreBy = "nobody" /\ score = {}
    /\ lost = FALSE

Store(e) ==
    /\ played' = played \cup {e}
    /\ UNCHANGED <<phase, report, contents, lost>>

-----------------------------------------------------------------------------
(* The handoff.                                                            *)

End ==
    /\ phase = "playing"
    /\ phase' = "finishing"
    /\ UNCHANGED <<played, report, contents, lost>>

TakeBack ==
    /\ phase = "finishing"
    /\ phase' = "playing"
    /\ UNCHANGED <<played, report, contents, lost>>

Conclude ==
    /\ phase = "finishing"
    /\ report # "none"
    /\ phase' = "over"
    /\ UNCHANGED <<played, report, contents, lost>>

Lose ==
    /\ phase = "finishing"
    /\ phase' = "over"
    /\ lost' = TRUE
    /\ UNCHANGED <<played, report, contents>>

Open(S, T) ==
    /\ phase = "finishing"
    /\ report = "none"
    /\ report' = "open"
    /\ derived' = S /\ scoreBy' = "live" /\ score' = T
    /\ UNCHANGED <<phase, played, lost>>

Derive(S) ==
    /\ phase = "finishing"
    /\ report # "none"
    /\ S \cap derived = {}
    /\ derived' = derived \cup S
    /\ UNCHANGED <<phase, played, report, scoreBy, score, lost>>

Tally(T) ==
    /\ phase = "finishing"
    /\ report # "none"
    /\ scoreBy' = "live" /\ score' = T
    /\ UNCHANGED <<phase, played, report, derived, lost>>

-----------------------------------------------------------------------------
(* The coach.                                                              *)

OpenByHand ==
    /\ report = "none"
    /\ report' = "open"
    /\ UNCHANGED <<phase, played, contents, lost>>

EnterScore ==
    /\ report = "open"
    /\ scoreBy' = "coach" /\ score' = {}
    /\ UNCHANGED <<phase, played, report, derived, lost>>

Strike(e) ==
    /\ report = "open"
    /\ e \in derived
    /\ derived' = derived \ {e}
    /\ UNCHANGED <<phase, played, report, scoreBy, score, lost>>

Lock ==
    /\ report # "none"
    /\ report' = "locked"
    /\ UNCHANGED <<phase, played, contents, lost>>

Reopen ==
    /\ report = "locked"
    /\ report' = "open"
    /\ UNCHANGED <<phase, played, contents, lost>>

Next ==
    \/ \E e \in Events : Store(e) \/ Strike(e)
    \/ End \/ TakeBack \/ Conclude \/ Lose
    \/ \E S \in SUBSET played : Derive(S) \/ Tally(S) \/ \E T \in SUBSET played : Open(S, T)
    \/ OpenByHand \/ EnterScore \/ Lock \/ Reopen

Spec == Init /\ [][Next]_vars

=============================================================================
