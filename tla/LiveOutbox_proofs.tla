------------------------- MODULE LiveOutbox_proofs -------------------------
(***************************************************************************)
(* What the device says of a command is true, for any number of commands,  *)
(* send loops, outages and reloads; an answer reaches the send it belongs  *)
(* to; and a loop that has not skipped a command sends them in order.      *)
(*                                                                         *)
(* The first two claims are not inductive: a row is also written from      *)
(* answers in flight and from an older reading of the outbox, so the       *)
(* invariant says of those, too, that they never claim more than the store *)
(* holds.                                                                  *)
(***************************************************************************)
EXTENDS LiveOutbox, SequenceTheorems, TLAPS

VerdictIsTrue == \A e \in Events : verdict[e] = "persisted" => e \in canonical

\* Messages that claim nothing but what is in the given rows.
TrueMessage(rows) ==
  { m \in Replies \cup Notices : m.answer = "persisted" => m.id \in rows }

WireIsTrue == wire \in Seq(TrueMessage(canonical))

ReadingIsTrue ==
  \A h \in Healers :
    /\ healing[h].seen \subseteq canonical
    /\ \A e \in Events : healing[h].listed[e] = "PERSISTED" => e \in canonical

OutboxInv ==
  /\ TypeOK
  /\ VerdictIsTrue
  /\ WireIsTrue
  /\ ReadingIsTrue
  /\ ConfirmedOnDeviceIsStored
  /\ OnlyStoredIsDeleted

-----------------------------------------------------------------------------
(* Types *)

LEMMA SeqGrows ==
  ASSUME NEW S, NEW T, S \subseteq T
  PROVE  Seq(S) \subseteq Seq(T)
OBVIOUS

LEMMA SocketLostTypes ==
  ASSUME TypeOK, SocketLost
  PROVE  /\ sent' = << >> /\ wire' = << >>
         /\ sent' \in Seq(Calls) /\ strays' \subseteq Events /\ attempts' \subseteq Calls
         /\ wire' \in Seq(Replies \cup Notices)
<1>1. sent' = << >> /\ wire' = << >>
  BY DEF SocketLost
<1>2. ASSUME NEW n \in DOMAIN sent PROVE sent[n].id \in Events
  <2>1. sent[n] \in Calls
    BY DEF TypeOK
  <2> QED
    BY <2>1 DEF Calls
<1>3. strays' \subseteq Events
  BY <1>2 DEF TypeOK, SocketLost
<1>4. ASSUME NEW a \in attempts PROVE [a EXCEPT !.loop = None] \in Calls
  BY DEF TypeOK, Calls
<1>5. attempts' \subseteq Calls
  BY <1>4 DEF SocketLost
<1> QED
  BY <1>1, <1>3, <1>5

LEMMA RemainingTypes ==
  ASSUME NEW loop \in LoopState
  PROVE  Remaining(loop) \in LoopState
  BY DEF Remaining, Idle, LoopState

LEMMA AfterAnswerTypes ==
  ASSUME NEW loop \in LoopState, NEW answer
  PROVE  AfterAnswer(loop, answer) \in LoopState
<1>1. [loop EXCEPT !.current = None,
                   !.blocked = @ \/ (/\ answer \in {"conflict", "error"}
                                     /\ loop.current \notin AppendSafe)] \in LoopState
  BY DEF LoopState
<1> QED
  BY <1>1, RemainingTypes DEF AfterAnswer

LEMMA StatusAfterTypes ==
  ASSUME NEW answer
  PROVE  StatusAfter(answer) \in CommandStatus /\ StatusAfter(answer) # "absent"
  BY DEF StatusAfter, CommandStatus, Converging

LEMMA ReplyTypes ==
  ASSUME NEW c \in Calls,
         NEW answer \in {"pending", "persisted", "failed_terminal", "conflict", "error"}
  PROVE  Reply(c, answer) \in Seq(Replies)
<1>1. CASE c.loop = None
  BY <1>1 DEF Reply
<1>2. CASE c.loop # None
  <2>1. [loop |-> c.loop, id |-> c.id, answer |-> answer] \in Replies
    BY <1>2 DEF Calls, Replies
  <2> QED
    BY <1>2, <2>1 DEF Reply
<1> QED
  BY <1>1, <1>2

LEMMA MarkedTypes ==
  ASSUME TypeOK, NEW e, NEW status \in CommandStatus
  PROVE  Marked(e, status) \in [Events -> Rows]
  BY DEF Marked, TypeOK, Rows

\* Messages are added to the wire only while it exists.
LEMMA ReachedTypes ==
  ASSUME TypeOK, NEW messages \in Seq(Replies \cup Notices), Reached(messages)
  PROVE  wire' \in Seq(Replies \cup Notices)
  BY DEF TypeOK, Reached

LEMMA AnswerTypes ==
  ASSUME TypeOK, NEW c \in Calls, NEW answer,
         Reached(Reply(c, answer)),
         answer \in {"pending", "persisted", "failed_terminal", "conflict", "error"}
  PROVE  wire' \in Seq(Replies \cup Notices)
<1>1. Reply(c, answer) \in Seq(Replies \cup Notices)
  BY ReplyTypes, SeqGrows
<1> QED
  BY <1>1, ReachedTypes

LEMMA OutcomeTypes ==
  ASSUME TypeOK, NEW c \in Calls, NEW answer,
         Reached(<< Notice(c.id, answer) >> \o Reply(c, answer)),
         answer \in {"persisted", "failed_terminal"}
  PROVE  wire' \in Seq(Replies \cup Notices)
<1>1. Reply(c, answer) \in Seq(Replies \cup Notices)
  BY ReplyTypes, SeqGrows
<1>2. Notice(c.id, answer) \in Replies \cup Notices
  BY DEF Notice, Notices, Calls
<1>3. << Notice(c.id, answer) >> \in Seq(Replies \cup Notices)
  BY <1>2
<1>4. << Notice(c.id, answer) >> \o Reply(c, answer) \in Seq(Replies \cup Notices)
  BY <1>1, <1>3
<1> QED
  BY <1>4, ReachedTypes

LEMMA NoticeTypes ==
  ASSUME TypeOK, NEW e \in Events, NEW answer,
         Reached(<< Notice(e, answer) >>),
         answer \in {"persisted", "failed_terminal", "failed_exhausted"}
  PROVE  wire' \in Seq(Replies \cup Notices)
<1>1. Notice(e, answer) \in Replies \cup Notices
  BY DEF Notice, Notices
<1>2. << Notice(e, answer) >> \in Seq(Replies \cup Notices)
  BY <1>1
<1> QED
  BY <1>2, ReachedTypes

\* The coordinator changes verdicts and rows only within their types.
CoordinatorTypes == verdict' \in [Events -> Verdicts] /\ canonical' \subseteq Events

LEMMA VerdictTypes ==
  ASSUME TypeOK, NEW e \in Events,
         \/ Coordinator!Accept(e) \/ Coordinator!Confirm(e) \/ Coordinator!Reject(e)
         \/ Coordinator!GiveUp(e) \/ Coordinator!Commit(e)
  PROVE  CoordinatorTypes
  BY DEF TypeOK, CoordinatorTypes, Verdicts, Coordinator!Accept, Coordinator!Confirm,
         Coordinator!Reject, Coordinator!GiveUp, Coordinator!Commit, Coordinator!Decide

Rest(l, e) == [loops[l] EXCEPT !.todo = @ \ {e}, !.passed = @ \cup {e}]

LEMMA DeviceStepTypes ==
  ASSUME TypeOK
  PROVE  /\ \A e \in Events : Record(e) \/ Dismiss(e) => TypeOK'
         /\ \A l \in Loops : StartSync(l) \/ SendNext(l) => TypeOK'
         /\ Deliver => TypeOK'
<1> USE OutboxAssumption
<1> USE DEF deviceVars, handlerVars, networkVars, serverVars, boundVars
<1>1. ASSUME NEW e \in Events, Record(e) PROVE TypeOK'
  <2>1. [Idle EXCEPT !.todo = {e}] \in LoopState
    BY DEF Idle, LoopState
  <2>2. loops' \in [Loops -> LoopState]
    BY <1>1, <2>1 DEF Record, TypeOK
  <2>3. counter' \in Nat /\ ordinal' \in [Events -> 0..counter']
    BY <1>1 DEF Record, TypeOK
  <2>4. outbox' \in [Events -> Rows]
    BY <1>1 DEF Record, TypeOK, Rows, CommandStatus, Converging
  <2> QED
    BY <1>1, <2>2, <2>3, <2>4 DEF Record, TypeOK
<1>2. ASSUME NEW e \in Events, Dismiss(e) PROVE TypeOK'
  BY <1>2 DEF Dismiss, TypeOK, Rows, CommandStatus
<1>3. ASSUME NEW l \in Loops, StartSync(l) PROVE TypeOK'
  <2>1. [Idle EXCEPT !.todo = Retryable] \in LoopState
    BY DEF Idle, LoopState, Retryable
  <2>2. loops' \in [Loops -> LoopState]
    BY <1>3, <2>1 DEF StartSync, TypeOK
  <2> QED
    BY <1>3, <2>2 DEF StartSync, TypeOK
<1>4. ASSUME NEW l \in Loops, SendNext(l) PROVE TypeOK'
  <2>1. PICK e \in loops[l].todo :
          \/ /\ loops' = [loops EXCEPT ![l] = Remaining(Rest(l, e))]
             /\ UNCHANGED << outbox, sent >>
          \/ /\ outbox' = Marked(e, "SENDING")
             /\ loops' = [loops EXCEPT ![l] = [Rest(l, e) EXCEPT !.current = e]]
             /\ sent' = Append(sent, [loop |-> l, id |-> e])
          \/ /\ outbox' = Marked(e, "LOCAL_PENDING")
             /\ loops' = [loops EXCEPT ![l] =
                  Remaining([Rest(l, e) EXCEPT !.blocked = @ \/ e \notin AppendSafe])]
             /\ UNCHANGED sent
    BY <1>4 DEF SendNext, Rest
  <2>2. loops[l] \in LoopState /\ e \in Events
    BY <2>1 DEF TypeOK, LoopState
  <2>3. Rest(l, e) \in LoopState /\ [Rest(l, e) EXCEPT !.current = e] \in LoopState
    BY <2>2 DEF Rest, LoopState
  <2>4. [Rest(l, e) EXCEPT !.blocked = @ \/ e \notin AppendSafe] \in LoopState
    <3>1. (Rest(l, e).blocked \/ e \notin AppendSafe) \in BOOLEAN
      OBVIOUS
    <3> QED
      BY <2>3, <3>1 DEF LoopState
  <2>5. loops' \in [Loops -> LoopState]
    BY <2>1, <2>3, <2>4, RemainingTypes DEF TypeOK
  <2>6. outbox' \in [Events -> Rows]
    BY <2>1, MarkedTypes DEF TypeOK, CommandStatus, Converging
  <2>7. [loop |-> l, id |-> e] \in Calls
    BY <2>2 DEF Calls
  <2>8. sent' = sent \/ sent' = Append(sent, [loop |-> l, id |-> e])
    BY <2>1
  <2>9. sent' \in Seq(Calls)
    <3>1. sent \in Seq(Calls)
      BY DEF TypeOK
    <3>2. Append(sent, [loop |-> l, id |-> e]) \in Seq(Calls)
      BY <2>7, <3>1
    <3> QED
      BY <2>8, <3>1, <3>2
  <2> QED
    BY <1>4, <2>5, <2>6, <2>9 DEF SendNext, TypeOK
<1>5. ASSUME Deliver PROVE TypeOK'
  <2>1. wire' \in Seq(Replies \cup Notices) /\ Head(wire) \in Replies \cup Notices
    BY <1>5 DEF Deliver, TypeOK
  <2>2. outbox' \in [Events -> Rows]
    BY <1>5, MarkedTypes, StatusAfterTypes DEF Deliver
  <2>3. loops' \in [Loops -> LoopState]
    BY <1>5, AfterAnswerTypes DEF Deliver, TypeOK
  <2> QED
    BY <1>5, <2>1, <2>2, <2>3 DEF Deliver, TypeOK
<1> QED
  BY <1>1, <1>2, <1>3, <1>4, <1>5

LEMMA FinishStepTypes ==
  ASSUME TypeOK
  PROVE  /\ \A h \in Healers : ListOutbox(h) \/ ApplyHealing(h) => TypeOK'
         /\ \A h \in Healers, reached \in BOOLEAN : AskServer(h, reached) => TypeOK'
         /\ PressFinish \/ DecideFinish \/ FinishSucceeds \/ FinishFails \/ ClearPersisted
              => TypeOK'
<1> USE OutboxAssumption
<1> USE DEF deviceVars, handlerVars, networkVars, serverVars, boundVars
<1>1. NotHealing \in Reading
  BY DEF NotHealing, Reading, Rows
<1>2. ASSUME NEW h \in Healers, healing[h].listed \in [Events -> Rows]
      PROVE  Healed(h) \in [Events -> Rows]
  BY <1>2 DEF Healed, Rows, CommandStatus, Converging
<1>3. ASSUME NEW h \in Healers PROVE healing[h] \in Reading /\ healing[h].listed \in [Events -> Rows]
  BY DEF TypeOK, Reading
<1>4. ASSUME NEW h \in Healers, ListOutbox(h) PROVE TypeOK'
  <2>1. [stage |-> IF Unsettled THEN "listed" ELSE "done", listed |-> outbox, seen |-> {}] \in Reading
    BY DEF Reading, TypeOK
  <2>2. healing' \in [Healers -> Reading]
    BY <1>4, <2>1 DEF ListOutbox, TypeOK
  <2> QED
    BY <1>4, <2>2 DEF ListOutbox, TypeOK
<1>5. ASSUME NEW h \in Healers, ApplyHealing(h) PROVE TypeOK'
  <2>1. Healed(h) \in [Events -> Rows]
    BY <1>2, <1>3
  <2>2. [stage |-> "done", listed |-> Healed(h), seen |-> {}] \in Reading
    BY <2>1 DEF Reading
  <2>3. healing' \in [Healers -> Reading]
    BY <1>1, <1>5, <2>2 DEF ApplyHealing, TypeOK
  <2>4. outbox' \in [Events -> Rows]
    BY <1>5, <2>1 DEF ApplyHealing, TypeOK
  <2> QED
    BY <1>5, <2>3, <2>4 DEF ApplyHealing, TypeOK
<1>6. ASSUME NEW h \in Healers, NEW reached \in BOOLEAN, AskServer(h, reached) PROVE TypeOK'
  <2>1. [[healing[h] EXCEPT !.stage = "fetched"] EXCEPT !.seen = canonical] \in Reading
    BY <1>3 DEF Reading, TypeOK
  <2>2. [healing[h] EXCEPT !.stage = "done"] \in Reading
    BY <1>3 DEF Reading
  <2>3. [healing[h] EXCEPT !.stage = "fetched", !.seen = canonical] \in Reading
    BY <2>1
  <2>4. healing' \in [Healers -> Reading]
    BY <1>1, <1>6, <2>2, <2>3 DEF AskServer, TypeOK
  <2> QED
    BY <1>6, <2>4 DEF AskServer, TypeOK
<1>7. Idle \in LoopState
  BY DEF Idle, LoopState
<1>8. CASE PressFinish
  <2>1. [Idle EXCEPT !.todo = Retryable] \in LoopState
    BY DEF Idle, LoopState, Retryable
  <2>2. loops' \in [Loops -> LoopState]
    BY <1>8, <2>1 DEF PressFinish, TypeOK
  <2> QED
    BY <1>8, <2>2 DEF PressFinish, TypeOK
<1>9. CASE DecideFinish
  <2>1. finish' \in {"no", "ending"}
    BY <1>9 DEF DecideFinish
  <2>2. healing' \in [Healers -> Reading]
    BY <1>1, <1>9 DEF DecideFinish, TypeOK
  <2> QED
    BY <1>9, <2>1, <2>2 DEF DecideFinish, TypeOK
<1>10. ASSUME DropClient
       PROVE  /\ link' = "down" /\ loops' \in [Loops -> LoopState]
              /\ sent' \in Seq(Calls) /\ strays' \subseteq Events /\ attempts' \subseteq Calls
              /\ wire' \in Seq(Replies \cup Notices)
  BY <1>7, <1>10, SocketLostTypes DEF DropClient, TypeOK
<1>11. CASE FinishSucceeds
  <2>1. [healing["finish"] EXCEPT !.listed = outbox] \in Reading
    BY <1>3 DEF Healers, Reading, TypeOK
  <2>2. healing' \in [Healers -> Reading]
    BY <1>1, <1>11, <2>1 DEF FinishSucceeds, TypeOK
  <2>3. finish' \in {"clearing", "finished"} /\ open' = FALSE
    BY <1>11 DEF FinishSucceeds
  <2> QED
    BY <1>10, <1>11, <2>2, <2>3 DEF FinishSucceeds, TypeOK
<1>12. CASE FinishFails
  BY <1>1, <1>10, <1>12 DEF FinishFails, TypeOK
<1>13. CASE ClearPersisted
  <2>1. outbox' \in [Events -> Rows]
    BY <1>13 DEF ClearPersisted, TypeOK, Rows
  <2> QED
    BY <1>1, <1>13, <2>1 DEF ClearPersisted, TypeOK
<1> QED
  BY <1>4, <1>5, <1>6, <1>8, <1>9, <1>11, <1>12, <1>13

LEMMA NetworkStepTypes ==
  ASSUME TypeOK, Network
  PROVE  TypeOK'
<1> USE OutboxAssumption
<1> USE DEF deviceVars, handlerVars, networkVars, serverVars, boundVars
<1>1. CASE Connect \/ Revisit
  BY <1>1 DEF Connect, Revisit, TypeOK
<1>2. CASE Drop
  <2>1. outbox' \in [Events -> Rows]
    BY <1>2 DEF Drop, TypeOK, Rows, CommandStatus, Converging
  <2>2. loops' \in [Loops -> LoopState]
    BY <1>2, AfterAnswerTypes DEF Drop, TypeOK
  <2>3. outages' \in 0..MaxOutages
    BY <1>2 DEF Drop, TypeOK
  <2> QED
    BY <1>2, <2>1, <2>2, <2>3, SocketLostTypes DEF Drop, TypeOK
<1>3. CASE Supersede
  <2>1. outages' \in 0..MaxOutages
    BY <1>3 DEF Supersede, TypeOK
  <2> QED
    BY <1>3, <2>1, SocketLostTypes DEF Supersede, TypeOK
<1>4. CASE Reload
  <2>1. Idle \in LoopState /\ NotHealing \in Reading
    BY DEF Idle, LoopState, NotHealing, Reading, Rows
  <2>2. outbox' \in [Events -> Rows]
    BY <1>4 DEF Reload, TypeOK, Rows, CommandStatus, Converging
  <2>3. reloads' \in 0..MaxReloads
    BY <1>4 DEF Reload, TypeOK
  <2>4. open' \in BOOLEAN /\ link' \in {"up", "retrying", "down"} /\ finish' \in {"no", "finished"}
    BY <1>4 DEF Reload
  <2> QED
    BY <1>4, <2>1, <2>2, <2>3, <2>4, SocketLostTypes DEF Reload, TypeOK
<1> QED
  BY <1>1, <1>2, <1>3, <1>4 DEF Network

\* Where the coordinator takes a call.
LEMMA TakenTypes ==
  ASSUME TypeOK, NEW c \in Calls, Taken(c)
  PROVE  /\ CoordinatorTypes /\ attempts' \subseteq Calls
         /\ wire' \in Seq(Replies \cup Notices)
<1>1. CASE Coordinator!Accept(c.id) /\ attempts' = attempts \cup {c} /\ UNCHANGED wire
  <2>1. c.id \in Events
    BY DEF Calls
  <2>2. CoordinatorTypes
    BY <1>1, <2>1, VerdictTypes
  <2> QED
    BY <1>1, <2>2 DEF TypeOK
<1>2. ASSUME UNCHANGED << attempts, verdict, canonical >>,
             \/ Reached(Reply(c, "error")) \/ Reached(Reply(c, "conflict"))
             \/ Reached(Reply(c, DuplicateAnswer(c.id)))
      PROVE  /\ CoordinatorTypes /\ attempts' \subseteq Calls
             /\ wire' \in Seq(Replies \cup Notices)
  <2>1. DuplicateAnswer(c.id) \in {"pending", "persisted", "failed_terminal"}
    BY DEF DuplicateAnswer
  <2>2. wire' \in Seq(Replies \cup Notices)
    BY <1>2, <2>1, AnswerTypes
  <2> QED
    BY <1>2, <2>2 DEF CoordinatorTypes, TypeOK
<1> QED
  BY <1>1, <1>2 DEF Taken

LEMMA ServerStepTypes ==
  ASSUME TypeOK, Server
  PROVE  TypeOK'
<1> USE OutboxAssumption
<1> USE DEF deviceVars, handlerVars, networkVars, serverVars, boundVars
<1>1. CASE TakeCall
  <2>1. Head(sent) \in Calls /\ Tail(sent) \in Seq(Calls)
    BY <1>1 DEF TakeCall, TypeOK
  <2>2. /\ CoordinatorTypes /\ attempts' \subseteq Calls
        /\ wire' \in Seq(Replies \cup Notices)
    BY <1>1, <2>1, TakenTypes DEF TakeCall
  <2> QED
    BY <1>1, <2>1, <2>2 DEF TakeCall, CoordinatorTypes, TypeOK
<1>2. ASSUME NEW e \in Events, TakeStray(e) PROVE TypeOK'
  <2>1. [loop |-> None, id |-> e] \in Calls
    BY DEF Calls
  <2>2. /\ CoordinatorTypes /\ attempts' \subseteq Calls
        /\ wire' \in Seq(Replies \cup Notices)
    BY <1>2, <2>1, TakenTypes DEF TakeStray
  <2> QED
    BY <1>2, <2>2 DEF TakeStray, CoordinatorTypes, TypeOK
<1>3. ASSUME NEW c \in attempts, FirstAttempt(c) PROVE TypeOK'
  <2>1. c \in Calls /\ c.id \in Events
    BY DEF TypeOK, Calls
  <2>2. CoordinatorTypes
    BY <1>3, <2>1, VerdictTypes DEF FirstAttempt, CoordinatorTypes, TypeOK
  <2>3. wire' \in Seq(Replies \cup Notices)
    BY <1>3, <2>1, OutcomeTypes, AnswerTypes DEF FirstAttempt
  <2> QED
    BY <1>3, <2>2, <2>3 DEF FirstAttempt, CoordinatorTypes, TypeOK
<1>4. ASSUME NEW e \in Events, Retry(e) PROVE TypeOK'
  <2>1. CoordinatorTypes
    BY <1>4, VerdictTypes DEF Retry
  <2>2. wire' \in Seq(Replies \cup Notices)
    BY <1>4, NoticeTypes DEF Retry
  <2> QED
    BY <1>4, <2>1, <2>2 DEF Retry, CoordinatorTypes, TypeOK
<1>5. ASSUME NEW e \in Events, Store(e) PROVE TypeOK'
  <2>1. CoordinatorTypes
    BY <1>5, VerdictTypes DEF Store
  <2> QED
    BY <1>5, <2>1 DEF Store, CoordinatorTypes, TypeOK
<1>6. CASE Expire
  BY <1>6 DEF Expire, TypeOK
<1> QED
  BY <1>1, <1>2, <1>3, <1>4, <1>5, <1>6 DEF Server

LEMMA InitTypes == Init => TypeOK
<1> SUFFICES ASSUME Init PROVE TypeOK
  OBVIOUS
<1>1. Idle \in LoopState /\ NotHealing \in Reading
  BY DEF Idle, LoopState, NotHealing, Reading, Rows
<1>2. verdict \in [Events -> Verdicts] /\ canonical = {}
  BY DEF Init, Coordinator!Init, Coordinator!Ids, Verdicts
<1>3. outbox \in [Events -> Rows] /\ counter \in Nat /\ ordinal \in [Events -> 0..counter]
  BY DEF Init, Rows
<1>4. sent \in Seq(Calls) /\ wire \in Seq(Replies \cup Notices)
  BY DEF Init
<1>5. loops \in [Loops -> LoopState] /\ healing \in [Healers -> Reading]
  BY <1>1 DEF Init
<1>6. /\ dismissed \subseteq Events /\ strays \subseteq Events /\ attempts \subseteq Calls
      /\ finish = "no" /\ open = TRUE /\ link = "retrying" /\ ended = FALSE
      /\ outages = 0 /\ reloads = 0
  BY DEF Init
<1>7. 0 \in 0..MaxOutages /\ 0 \in 0..MaxReloads
  BY OutboxAssumption DEF OutboxAssumption
<1> QED
  BY <1>2, <1>3, <1>4, <1>5, <1>6, <1>7 DEF TypeOK

LEMMA StepTypes == TypeOK /\ [Next]_vars => TypeOK'
<1> SUFFICES ASSUME TypeOK, [Next]_vars PROVE TypeOK'
  OBVIOUS
<1>1. CASE Browser
  BY <1>1, DeviceStepTypes, FinishStepTypes DEF Browser
<1>2. CASE UNCHANGED vars
  BY <1>2 DEF vars, deviceVars, handlerVars, networkVars, serverVars, boundVars, TypeOK
<1> QED
  BY <1>1, <1>2, NetworkStepTypes, ServerStepTypes DEF Next

\* Every reachable state of the outbox is well typed; in particular no direct
\* answer ever says "failed_exhausted".
THEOREM OutboxTypes == Spec => []TypeOK
  BY InitTypes, StepTypes, PTL DEF Spec

-----------------------------------------------------------------------------
(* What the device says is true *)

\* What was true of the store stays true: rows are only added.
LEMMA RowsStay ==
  ASSUME TypeOK, VerdictIsTrue, [Next]_vars
  PROVE  canonical \subseteq canonical' /\ VerdictIsTrue'
<1> USE DEF deviceVars, handlerVars, networkVars, serverVars, boundVars
<1>1. CASE UNCHANGED << verdict, canonical >>
  BY <1>1 DEF VerdictIsTrue
<1>2. ASSUME NEW e \in Events,
             \/ Coordinator!Accept(e) \/ Coordinator!Confirm(e) \/ Coordinator!Reject(e)
             \/ Coordinator!GiveUp(e) \/ Coordinator!Commit(e)
      PROVE  canonical \subseteq canonical' /\ VerdictIsTrue'
  BY <1>2
     DEF VerdictIsTrue, TypeOK, Coordinator!Accept, Coordinator!Confirm, Coordinator!Reject,
         Coordinator!GiveUp, Coordinator!Commit, Coordinator!Decide
<1>3. ASSUME NEW c \in Calls, Taken(c)
      PROVE  canonical \subseteq canonical' /\ VerdictIsTrue'
  <2>1. c.id \in Events
    BY DEF Calls
  <2> QED
    BY <1>1, <1>2, <1>3, <2>1 DEF Taken
<1>4. CASE Browser \/ Network \/ Expire \/ UNCHANGED vars
  <2>1. UNCHANGED << verdict, canonical >>
    BY <1>4
       DEF Browser, Network, Expire, vars, Record, Dismiss, StartSync, SendNext, ListOutbox,
           ApplyHealing, AskServer, Deliver, PressFinish, DecideFinish, FinishSucceeds,
           FinishFails, ClearPersisted, Connect, Revisit, Drop, Supersede, Reload
  <2> QED
    BY <1>1, <2>1
<1>5. CASE Server
  <2>1. CASE TakeCall
    <3>1. Head(sent) \in Calls
      BY <2>1 DEF TakeCall, TypeOK
    <3> QED
      BY <1>3, <2>1, <3>1 DEF TakeCall
  <2>2. ASSUME NEW e \in Events, TakeStray(e) PROVE canonical \subseteq canonical' /\ VerdictIsTrue'
    <3>1. [loop |-> None, id |-> e] \in Calls
      BY DEF Calls
    <3> QED
      BY <1>3, <2>2, <3>1 DEF TakeStray
  <2>3. ASSUME NEW c \in attempts, FirstAttempt(c)
        PROVE  canonical \subseteq canonical' /\ VerdictIsTrue'
    <3>1. c.id \in Events
      BY DEF TypeOK, Calls
    <3> QED
      BY <1>1, <1>2, <2>3, <3>1 DEF FirstAttempt
  <2>4. ASSUME NEW e \in Events, Retry(e) \/ Store(e)
        PROVE  canonical \subseteq canonical' /\ VerdictIsTrue'
    BY <1>2, <2>4 DEF Retry, Store
  <2> QED
    BY <1>4, <1>5, <2>1, <2>2, <2>3, <2>4 DEF Server
<1> QED
  BY <1>4, <1>5 DEF Next

\* A step that sends only true messages, or none, leaves a true wire.
LEMMA TrueAnswer ==
  ASSUME TypeOK, WireIsTrue, canonical \subseteq canonical', NEW c \in Calls, NEW answer,
         answer \in {"pending", "persisted", "failed_terminal", "conflict", "error"},
         answer = "persisted" => c.id \in canonical'
  PROVE  /\ Reply(c, answer) \in Seq(TrueMessage(canonical'))
         /\ Reached(Reply(c, answer)) => WireIsTrue'
<1>1. wire \in Seq(TrueMessage(canonical'))
  <2>1. TrueMessage(canonical) \subseteq TrueMessage(canonical')
    BY DEF TrueMessage
  <2> QED
    BY <2>1, SeqGrows DEF WireIsTrue
<1>2. Reply(c, answer) \in Seq(TrueMessage(canonical'))
  <2>1. CASE c.loop = None
    BY <2>1 DEF Reply
  <2>2. CASE c.loop # None
    <3>1. [loop |-> c.loop, id |-> c.id, answer |-> answer] \in TrueMessage(canonical')
      BY <2>2 DEF Calls, Replies, TrueMessage
    <3> QED
      BY <2>2, <3>1 DEF Reply
  <2> QED
    BY <2>1, <2>2
<1>3. wire \o Reply(c, answer) \in Seq(TrueMessage(canonical'))
  BY <1>1, <1>2
<1>4. Reached(Reply(c, answer)) => wire' \in Seq(TrueMessage(canonical'))
  BY <1>1, <1>3 DEF Reached
<1> QED
  BY <1>2, <1>4 DEF WireIsTrue

LEMMA TrueNotice ==
  ASSUME TypeOK, WireIsTrue, canonical \subseteq canonical', NEW e \in Events, NEW answer,
         answer \in {"persisted", "failed_terminal", "failed_exhausted"},
         answer = "persisted" => e \in canonical',
         NEW more \in Seq(TrueMessage(canonical'))
  PROVE  /\ Reached(<< Notice(e, answer) >>) => WireIsTrue'
         /\ Reached(<< Notice(e, answer) >> \o more) => WireIsTrue'
<1>1. wire \in Seq(TrueMessage(canonical'))
  <2>1. TrueMessage(canonical) \subseteq TrueMessage(canonical')
    BY DEF TrueMessage
  <2> QED
    BY <2>1, SeqGrows DEF WireIsTrue
<1>2. Notice(e, answer) \in TrueMessage(canonical')
  BY DEF Notice, Notices, TrueMessage
<1>3. /\ << Notice(e, answer) >> \in Seq(TrueMessage(canonical'))
      /\ << Notice(e, answer) >> \o more \in Seq(TrueMessage(canonical'))
  <2>1. << Notice(e, answer) >> \in Seq(TrueMessage(canonical'))
    BY <1>2
  <2> QED
    BY <2>1
<1>4. /\ wire \o << Notice(e, answer) >> \in Seq(TrueMessage(canonical'))
      /\ wire \o (<< Notice(e, answer) >> \o more) \in Seq(TrueMessage(canonical'))
  BY <1>1, <1>3
<1>5. /\ Reached(<< Notice(e, answer) >>) => wire' \in Seq(TrueMessage(canonical'))
      /\ Reached(<< Notice(e, answer) >> \o more) => wire' \in Seq(TrueMessage(canonical'))
  BY <1>1, <1>4 DEF Reached
<1> QED
  BY <1>5 DEF WireIsTrue

LEMMA WireUnchanged ==
  ASSUME WireIsTrue, canonical \subseteq canonical', UNCHANGED wire
  PROVE  WireIsTrue'
<1>1. TrueMessage(canonical) \subseteq TrueMessage(canonical')
  BY DEF TrueMessage
<1> QED
  BY <1>1, SeqGrows DEF WireIsTrue

LEMMA TrueWhenTaken ==
  ASSUME TypeOK, VerdictIsTrue, WireIsTrue, canonical \subseteq canonical',
         NEW c \in Calls, Taken(c)
  PROVE  WireIsTrue'
<1>1. CASE UNCHANGED wire
  BY <1>1, WireUnchanged
<1>2. CASE \/ Reached(Reply(c, "error")) \/ Reached(Reply(c, "conflict"))
           \/ Reached(Reply(c, DuplicateAnswer(c.id)))
  <2>1. c.id \in Events
    BY DEF Calls
  <2>2. /\ DuplicateAnswer(c.id) \in {"pending", "persisted", "failed_terminal"}
        /\ DuplicateAnswer(c.id) = "persisted" => c.id \in canonical'
    BY <2>1 DEF DuplicateAnswer, VerdictIsTrue
  <2> QED
    BY <1>2, <2>2, TrueAnswer
<1> QED
  BY <1>1, <1>2 DEF Taken

LEMMA WireStep ==
  ASSUME TypeOK, VerdictIsTrue, WireIsTrue, [Next]_vars
  PROVE  WireIsTrue'
<1> USE DEF deviceVars, handlerVars, networkVars, serverVars, boundVars
<1>1. canonical \subseteq canonical'
  BY RowsStay
<1>2. CASE Deliver
  <2>1. canonical' = canonical /\ wire' = Tail(wire) /\ wire # << >>
    BY <1>2 DEF Deliver
  <2> QED
    BY <2>1 DEF WireIsTrue
<1>3. CASE DropClient \/ Drop \/ Supersede \/ Reload
  <2>1. wire' = << >>
    BY <1>3, SocketLostTypes DEF DropClient, Drop, Supersede, Reload
  <2> QED
    BY <2>1 DEF WireIsTrue
<1>4. CASE TakeCall
  <2>1. Head(sent) \in Calls
    BY <1>4 DEF TakeCall, TypeOK
  <2> QED
    BY <1>1, <1>4, <2>1, TrueWhenTaken DEF TakeCall
<1>5. ASSUME NEW e \in Events, TakeStray(e) PROVE WireIsTrue'
  <2>1. [loop |-> None, id |-> e] \in Calls
    BY DEF Calls
  <2> QED
    BY <1>1, <1>5, <2>1, TrueWhenTaken DEF TakeStray
<1>6. ASSUME NEW c \in attempts, FirstAttempt(c) PROVE WireIsTrue'
  <2>1. c \in Calls /\ c.id \in Events
    BY DEF TypeOK, Calls
  <2>2. CASE Coordinator!Confirm(c.id)
             /\ Reached(<< Notice(c.id, "persisted") >> \o Reply(c, "persisted"))
    <3>1. c.id \in canonical'
      BY <1>1, <2>2 DEF Coordinator!Confirm
    <3>2. Reply(c, "persisted") \in Seq(TrueMessage(canonical'))
      BY <1>1, <2>1, <3>1, TrueAnswer
    <3> QED
      BY <1>1, <2>1, <2>2, <3>1, <3>2, TrueNotice
  <2>3. CASE Reached(<< Notice(c.id, "failed_terminal") >> \o Reply(c, "failed_terminal"))
    <3>1. Reply(c, "failed_terminal") \in Seq(TrueMessage(canonical'))
      BY <1>1, <2>1, TrueAnswer
    <3> QED
      BY <1>1, <2>1, <2>3, <3>1, TrueNotice
  <2>4. CASE Reached(Reply(c, "pending"))
    BY <1>1, <2>1, <2>4, TrueAnswer
  <2> QED
    BY <1>6, <2>2, <2>3, <2>4 DEF FirstAttempt
<1>7. ASSUME NEW e \in Events, Retry(e) PROVE WireIsTrue'
  <2>1. << >> \in Seq(TrueMessage(canonical'))
    OBVIOUS
  <2>2. CASE Coordinator!Confirm(e) /\ Reached(<< Notice(e, "persisted") >>)
    <3>1. e \in canonical'
      BY <1>1, <2>2 DEF Coordinator!Confirm
    <3> QED
      BY <1>1, <2>1, <2>2, <3>1, TrueNotice
  <2>3. CASE \/ Reached(<< Notice(e, "failed_terminal") >>)
             \/ Reached(<< Notice(e, "failed_exhausted") >>)
    BY <1>1, <2>1, <2>3, TrueNotice
  <2> QED
    BY <1>7, <2>2, <2>3 DEF Retry
<1>8. CASE \/ \E e \in Events : Record(e) \/ Dismiss(e) \/ Store(e)
           \/ \E l \in Loops : StartSync(l) \/ SendNext(l)
           \/ \E h \in Healers : ListOutbox(h) \/ ApplyHealing(h)
           \/ \E h \in Healers, reached \in BOOLEAN : AskServer(h, reached)
           \/ PressFinish \/ DecideFinish \/ ClearPersisted
           \/ Connect \/ Revisit \/ Expire \/ UNCHANGED vars
  <2>1. UNCHANGED wire
    BY <1>8
       DEF Record, Dismiss, Store, StartSync, SendNext, ListOutbox, ApplyHealing, AskServer,
           PressFinish, DecideFinish, ClearPersisted, Connect, Revisit, Expire, vars
  <2> QED
    BY <1>1, <2>1, WireUnchanged
<1> QED
  BY <1>2, <1>3, <1>4, <1>5, <1>6, <1>7, <1>8
     DEF Next, Browser, Network, Server, FinishSucceeds, FinishFails

\* Rows of the outbox that a step deletes or calls persisted are in the store.
LEMMA RowsStep ==
  ASSUME TypeOK, ConfirmedOnDeviceIsStored, OnlyStoredIsDeleted, canonical \subseteq canonical',
         \A e \in Events : outbox'[e] = "PERSISTED" => outbox[e] = "PERSISTED" \/ e \in canonical',
         \A e \in Events : outbox'[e] = "absent" /\ ordinal'[e] > 0
                            => (outbox[e] = "absent" /\ ordinal[e] > 0) \/ e \in canonical'
  PROVE  ConfirmedOnDeviceIsStored' /\ OnlyStoredIsDeleted'
  BY DEF ConfirmedOnDeviceIsStored, OnlyStoredIsDeleted, Recorded

LEMMA MarkedRows ==
  ASSUME TypeOK, NEW e, NEW status \in CommandStatus, outbox' = Marked(e, status),
         NEW d \in Events
  PROVE  /\ outbox'[d] = "absent" => outbox[d] = "absent"
         /\ outbox'[d] = "PERSISTED" => outbox[d] = "PERSISTED" \/ (d = e /\ status = "PERSISTED")
  BY DEF Marked, TypeOK, CommandStatus, Converging

LEMMA DeviceStep ==
  ASSUME TypeOK, VerdictIsTrue, WireIsTrue, ReadingIsTrue,
         ConfirmedOnDeviceIsStored, OnlyStoredIsDeleted, [Next]_vars
  PROVE  ConfirmedOnDeviceIsStored' /\ OnlyStoredIsDeleted'
<1> USE DEF deviceVars, handlerVars, networkVars, serverVars, boundVars
<1>1. canonical \subseteq canonical'
  BY RowsStay
<1>2. ASSUME UNCHANGED << outbox, ordinal >>
      PROVE  ConfirmedOnDeviceIsStored' /\ OnlyStoredIsDeleted'
  BY <1>1, <1>2, RowsStep
<1>3. ASSUME NEW e \in Events, Record(e)
      PROVE  ConfirmedOnDeviceIsStored' /\ OnlyStoredIsDeleted'
  <2>1. /\ outbox' = [outbox EXCEPT ![e] = "LOCAL_PENDING"]
        /\ ordinal' = [ordinal EXCEPT ![e] = counter + 1]
    BY <1>3 DEF Record
  <2> QED
    BY <1>1, <2>1, RowsStep DEF TypeOK
<1>4. ASSUME NEW e \in Events, Dismiss(e)
      PROVE  ConfirmedOnDeviceIsStored' /\ OnlyStoredIsDeleted'
  BY <1>1, <1>4, RowsStep DEF Dismiss, TypeOK
<1>5. ASSUME NEW l \in Loops, SendNext(l)
      PROVE  ConfirmedOnDeviceIsStored' /\ OnlyStoredIsDeleted'
  <2>1. /\ UNCHANGED ordinal
        /\ UNCHANGED outbox \/ \E e \in loops[l].todo : \E status \in {"SENDING", "LOCAL_PENDING"} :
                                  outbox' = Marked(e, status)
    BY <1>5 DEF SendNext
  <2>2. {"SENDING", "LOCAL_PENDING"} \subseteq CommandStatus \ {"PERSISTED"}
    BY DEF CommandStatus, Converging
  <2> QED
    BY <1>1, <1>2, <2>1, <2>2, RowsStep, MarkedRows
<1>6. CASE Deliver
  <2>1. /\ UNCHANGED ordinal /\ Head(wire) \in TrueMessage(canonical)
        /\ outbox' = Marked(Head(wire).id, StatusAfter(Head(wire).answer))
    BY <1>6 DEF Deliver, WireIsTrue
  <2>2. StatusAfter(Head(wire).answer) = "PERSISTED" => Head(wire).id \in canonical
    BY <2>1 DEF StatusAfter, TrueMessage
  <2> QED
    BY <1>1, <2>1, <2>2, StatusAfterTypes, RowsStep, MarkedRows
<1>7. ASSUME NEW h \in Healers, ApplyHealing(h)
      PROVE  ConfirmedOnDeviceIsStored' /\ OnlyStoredIsDeleted'
  <2>1. /\ UNCHANGED ordinal
        /\ outbox' = [e \in Events |->
              IF Healed(h)[e] = healing[h].listed[e] \/ outbox[e] = "absent"
              THEN outbox[e] ELSE Healed(h)[e]]
    BY <1>7 DEF ApplyHealing
  <2>2. ASSUME NEW e \in Events, Healed(h)[e] # healing[h].listed[e]
        PROVE  \/ Healed(h)[e] = "LOCAL_PENDING"
               \/ Healed(h)[e] = "PERSISTED" /\ e \in canonical
    BY <2>2 DEF Healed, ReadingIsTrue
  <2> QED
    BY <1>1, <2>1, <2>2, RowsStep
<1>8. CASE ClearPersisted
  <2>1. /\ UNCHANGED ordinal
        /\ outbox' = [e \in Events |->
              IF healing["finish"].listed[e] = "PERSISTED" THEN "absent" ELSE outbox[e]]
    BY <1>8 DEF ClearPersisted
  <2>2. \A e \in Events : healing["finish"].listed[e] = "PERSISTED" => e \in canonical
    BY DEF ReadingIsTrue, Healers
  <2> QED
    BY <1>1, <2>1, <2>2, RowsStep
<1>9. CASE Drop
  <2>1. UNCHANGED ordinal /\ \A e \in Events :
          \/ outbox'[e] = outbox[e]
          \/ outbox'[e] = "LOCAL_PENDING"
    BY <1>9 DEF Drop
  <2> QED
    BY <1>1, <2>1, RowsStep
<1>10. CASE Reload
  <2>1. UNCHANGED ordinal /\ \A e \in Events :
          \/ outbox'[e] = outbox[e]
          \/ outbox'[e] = "LOCAL_PENDING"
    BY <1>10 DEF Reload
  <2> QED
    BY <1>1, <2>1, RowsStep
<1>11. CASE \/ \E l \in Loops : StartSync(l)
            \/ \E h \in Healers : ListOutbox(h)
            \/ \E h \in Healers, reached \in BOOLEAN : AskServer(h, reached)
            \/ PressFinish \/ DecideFinish \/ FinishSucceeds \/ FinishFails
            \/ Connect \/ Revisit \/ Supersede \/ Server \/ UNCHANGED vars
  <2>1. UNCHANGED << outbox, ordinal >>
    BY <1>11
       DEF StartSync, ListOutbox, AskServer, PressFinish, DecideFinish, FinishSucceeds,
           FinishFails, Connect, Revisit, Supersede, Server, TakeCall, TakeStray, FirstAttempt,
           Retry, Store, Expire, vars
  <2> QED
    BY <1>2, <2>1
<1> QED
  BY <1>3, <1>4, <1>5, <1>6, <1>7, <1>8, <1>9, <1>10, <1>11 DEF Next, Browser, Network

\* A reading of the outbox, healed or not, calls persisted only what is stored.
LEMMA ReadingStep ==
  ASSUME TypeOK, VerdictIsTrue, ReadingIsTrue, ConfirmedOnDeviceIsStored, [Next]_vars
  PROVE  ReadingIsTrue'
<1> USE DEF deviceVars, handlerVars, networkVars, serverVars, boundVars
<1> DEFINE True(r) == /\ r.seen \subseteq canonical
                      /\ \A e \in Events : r.listed[e] = "PERSISTED" => e \in canonical
<1>1. canonical \subseteq canonical'
  BY RowsStay
<1>2. True(NotHealing) /\ \A h \in Healers : True(healing[h])
  BY DEF NotHealing, ReadingIsTrue
<1>3. ASSUME \A h \in Healers : True(healing'[h])
      PROVE  ReadingIsTrue'
  BY <1>1, <1>3 DEF ReadingIsTrue
<1>4. healing \in [Healers -> Reading]
  BY DEF TypeOK
<1>5. ASSUME NEW h \in Healers, NEW r, True(r), healing' = [healing EXCEPT ![h] = r]
      PROVE  ReadingIsTrue'
  <2>1. \A g \in Healers : healing'[g] = healing[g] \/ healing'[g] = r
    BY <1>4, <1>5
  <2>2. \A g \in Healers : True(healing'[g])
    BY <1>2, <1>5, <2>1
  <2> QED
    BY <1>3, <2>2
<1>6. ASSUME NEW h \in Healers, ListOutbox(h) PROVE ReadingIsTrue'
  <2>1. healing' = [healing EXCEPT ![h] =
          [stage |-> IF Unsettled THEN "listed" ELSE "done", listed |-> outbox, seen |-> {}]]
    BY <1>6 DEF ListOutbox
  <2>2. True([stage |-> IF Unsettled THEN "listed" ELSE "done", listed |-> outbox, seen |-> {}])
    BY DEF ConfirmedOnDeviceIsStored
  <2> QED
    BY <1>5, <2>1, <2>2
<1>7. ASSUME NEW h \in Healers, ApplyHealing(h) PROVE ReadingIsTrue'
  <2>1. True([stage |-> "done", listed |-> Healed(h), seen |-> {}])
    BY <1>2 DEF Healed
  <2>2. \/ healing' = [healing EXCEPT ![h] = NotHealing]
        \/ healing' = [healing EXCEPT ![h] =
             [stage |-> "done", listed |-> Healed(h), seen |-> {}]]
    BY <1>7 DEF ApplyHealing
  <2> QED
    BY <1>2, <1>5, <2>1, <2>2
<1>8. ASSUME NEW h \in Healers, NEW reached \in BOOLEAN, AskServer(h, reached)
      PROVE  ReadingIsTrue'
  <2>1. healing[h] \in Reading
    BY <1>4
  <2>2. /\ True([healing[h] EXCEPT !.stage = "fetched", !.seen = canonical])
        /\ True([healing[h] EXCEPT !.stage = "done"])
    BY <1>2, <2>1 DEF Reading
  <2>3. \/ healing' = [healing EXCEPT ![h] = NotHealing]
        \/ healing' = [healing EXCEPT ![h] =
             [healing[h] EXCEPT !.stage = "fetched", !.seen = canonical]]
        \/ healing' = [healing EXCEPT ![h] = [healing[h] EXCEPT !.stage = "done"]]
    BY <1>8 DEF AskServer
  <2> QED
    BY <1>2, <1>5, <2>2, <2>3
<1>9. CASE DecideFinish \/ FinishFails \/ ClearPersisted
  <2>1. UNCHANGED healing \/ healing' = [healing EXCEPT !["finish"] = NotHealing]
    BY <1>9 DEF DecideFinish, FinishFails, ClearPersisted
  <2>2. "finish" \in Healers
    BY DEF Healers
  <2> QED
    BY <1>2, <1>3, <1>5, <2>1, <2>2
<1>10. CASE FinishSucceeds
  <2>1. "finish" \in Healers
    BY DEF Healers
  <2>2. \/ healing' = [healing EXCEPT !["finish"] = NotHealing]
        \/ healing' = [healing EXCEPT !["finish"] = [healing["finish"] EXCEPT !.listed = outbox]]
    BY <1>10 DEF FinishSucceeds
  <2>3. healing["finish"] \in Reading
    BY <1>4, <2>1
  <2>4. True([healing["finish"] EXCEPT !.listed = outbox])
    BY <1>2, <2>1, <2>3 DEF Reading, ConfirmedOnDeviceIsStored
  <2> QED
    BY <1>2, <1>5, <2>1, <2>2, <2>4
<1>11. CASE Reload
  BY <1>2, <1>3, <1>11 DEF Reload
<1>12. CASE \/ \E e \in Events : Record(e) \/ Dismiss(e)
            \/ \E l \in Loops : StartSync(l) \/ SendNext(l)
            \/ Deliver \/ PressFinish
            \/ Connect \/ Revisit \/ Drop \/ Supersede \/ Server \/ UNCHANGED vars
  <2>1. UNCHANGED healing
    BY <1>12
       DEF Record, Dismiss, StartSync, SendNext, Deliver, PressFinish, Connect, Revisit, Drop,
           Supersede, Server, TakeCall, TakeStray, FirstAttempt, Retry, Store, Expire, vars
  <2> QED
    BY <1>2, <1>3, <2>1
<1> QED
  BY <1>6, <1>7, <1>8, <1>9, <1>10, <1>11, <1>12 DEF Next, Browser, Network

LEMMA InitTruth == Init => OutboxInv
<1> SUFFICES ASSUME Init PROVE OutboxInv
  OBVIOUS
<1>1. \A e \in Events : verdict[e] = "none"
  BY DEF Init, Coordinator!Init, Coordinator!Ids
<1>2. WireIsTrue
  BY DEF Init, WireIsTrue
<1>3. \A h \in Healers : healing[h] = NotHealing
  BY DEF Init
<1>4. ReadingIsTrue
  BY <1>3 DEF ReadingIsTrue, NotHealing
<1>5. ConfirmedOnDeviceIsStored /\ OnlyStoredIsDeleted
  BY DEF Init, ConfirmedOnDeviceIsStored, OnlyStoredIsDeleted, Recorded
<1> QED
  BY <1>1, <1>2, <1>4, <1>5, InitTypes DEF OutboxInv, VerdictIsTrue

LEMMA StepTruth == OutboxInv /\ [Next]_vars => OutboxInv'
  BY StepTypes, RowsStay, WireStep, ReadingStep, DeviceStep DEF OutboxInv

\* A command shown as persisted has its canonical row: neither an answer or a
\* broadcast handled late, nor a healing that writes over whatever the row has
\* become since it was read, makes the device claim more than is stored.
THEOREM DeviceTellsTheTruth == Spec => []ConfirmedOnDeviceIsStored
<1>1. OutboxInv => ConfirmedOnDeviceIsStored
  BY DEF OutboxInv
<1> QED
  BY <1>1, InitTruth, StepTruth, PTL DEF Spec

\* Finishing a session deletes no command that the canonical store does not have.
THEOREM NothingUnstoredIsDeleted == Spec => []OnlyStoredIsDeleted
<1>1. OutboxInv => OnlyStoredIsDeleted
  BY DEF OutboxInv
<1> QED
  BY <1>1, InitTruth, StepTruth, PTL DEF Spec

-----------------------------------------------------------------------------
(* Answers reach the send that waits for them *)

(***************************************************************************)
(* An answer can only settle the right send if there is never a second one *)
(* about: for each waiting send, its call on the socket, the attempt at    *)
(* the coordinator and the reply exclude each other, and each is for the   *)
(* command the send is waiting for.  The send loop of the finish handler   *)
(* is started over without asking whether it is idle, so the invariant     *)
(* also says that it is, whenever the handler can start it.                *)
(***************************************************************************)
Matches(m) == m.loop # None => loops[m.loop].current = m.id

CallsMatch ==
  /\ \A n \in DOMAIN sent : sent[n].loop # None /\ Matches(sent[n])
  /\ \A c \in attempts : Matches(c)
  /\ AnswersMatchSends

NoneFor(messages, l) == \A n \in DOMAIN messages : messages[n].loop # l

OneFor(messages) ==
  \A m, n \in DOMAIN messages :
    messages[m].loop # None /\ messages[m].loop = messages[n].loop => m = n

OneAnswerPerSend ==
  /\ OneFor(sent) /\ OneFor(wire)
  /\ \A n \in DOMAIN sent :
       NoneFor(wire, sent[n].loop) /\ \A c \in attempts : c.loop # sent[n].loop
  /\ \A c \in attempts : c.loop # None => NoneFor(wire, c.loop)

FinishLoopRests ==
  /\ finish # "syncing" => ~ Busy(FinishLoop)
  /\ healing["finish"].stage # "idle" => ~ Busy(FinishLoop)
  /\ finish = "no" => healing["finish"].stage = "idle"

\* Messages only disappear, and no waiting send is replaced.
LEMMA PairKept ==
  ASSUME TypeOK, CallsMatch, OneAnswerPerSend,
         UNCHANGED << sent, attempts, wire >>,
         \A l \in Loops : loops[l].current # None => loops'[l].current = loops[l].current
  PROVE  CallsMatch' /\ OneAnswerPerSend'
<1> USE OutboxAssumption DEF OutboxAssumption
<1>1. ASSUME NEW m, m.loop \in Loops \cup {None}, m.id \in Events, Matches(m)
      PROVE  Matches(m)'
  BY <1>1 DEF Matches
<1>2. /\ \A n \in DOMAIN sent : sent[n].loop \in Loops \cup {None} /\ sent[n].id \in Events
      /\ \A c \in attempts : c.loop \in Loops \cup {None} /\ c.id \in Events
      /\ \A n \in DOMAIN wire : wire[n].loop \in Loops \cup {None} /\ wire[n].id \in Events
  <2>1. /\ \A n \in DOMAIN sent : sent[n] \in Calls
        /\ \A c \in attempts : c \in Calls
        /\ \A n \in DOMAIN wire : wire[n] \in Replies \cup Notices
    BY DEF TypeOK
  <2> QED
    BY <2>1 DEF Calls, Replies, Notices
<1>3. /\ \A n \in DOMAIN sent : sent[n].loop # None /\ Matches(sent[n])'
      /\ \A c \in attempts : Matches(c)'
  BY <1>1, <1>2 DEF CallsMatch
<1>4. AnswersMatchSends'
  <2>1. \A n \in DOMAIN wire : Matches(wire[n])
    BY DEF CallsMatch, AnswersMatchSends, Matches
  <2>2. \A n \in DOMAIN wire : Matches(wire[n])'
    BY <1>1, <1>2, <2>1
  <2> QED
    BY <2>2 DEF AnswersMatchSends, Matches
<1>5. CallsMatch'
  BY <1>3, <1>4 DEF CallsMatch
<1> QED
  BY <1>5 DEF OneAnswerPerSend, OneFor, NoneFor

LEMMA PairLost ==
  ASSUME TypeOK, SocketLost
  PROVE  CallsMatch' /\ OneAnswerPerSend'
<1>1. sent' = << >> /\ wire' = << >>
  BY DEF SocketLost
<1>2. \A c \in attempts' : c.loop = None
  BY DEF SocketLost, TypeOK, Calls
<1> QED
  BY <1>1, <1>2 DEF CallsMatch, AnswersMatchSends, Matches, OneAnswerPerSend, OneFor, NoneFor

Answered(c, answer, news) ==
  Reached(Reply(c, answer)) \/ Reached(<< Notice(c.id, news) >> \o Reply(c, answer))

\* What the wire gains ends in at most one reply.
Gained(c, answer, news) ==
  \A n \in DOMAIN wire' :
    \/ n \in DOMAIN wire /\ wire'[n] = wire[n]
    \/ wire'[n] = Notice(c.id, news)
    \/ /\ n = Len(wire') /\ Len(wire) < Len(wire') /\ c.loop # None
       /\ wire'[n] = [loop |-> c.loop, id |-> c.id, answer |-> answer]

LEMMA WireGains ==
  ASSUME TypeOK, NEW c \in Calls, NEW answer, NEW news, Answered(c, answer, news)
  PROVE  Gained(c, answer, news)
<1> DEFINE reply == [loop |-> c.loop, id |-> c.id, answer |-> answer]
           note == Notice(c.id, news)
           all == Replies \cup Notices \cup {note, reply}
           Fits(s) == /\ s \in Seq(all)
                      /\ \A n \in 1..Len(s) :
                           s[n] = note \/ (n = Len(s) /\ s[n] = reply /\ c.loop # None)
<1>1. wire \in Seq(all) /\ note \in all /\ reply \in all
  <2>1. Replies \cup Notices \subseteq all
    OBVIOUS
  <2> QED
    BY <2>1, SeqGrows DEF TypeOK
<1>2. Reply(c, answer) = IF c.loop = None THEN << >> ELSE << reply >>
  BY DEF Reply
<1> HIDE DEF reply, note, all
<1>3. Fits(Reply(c, answer))
  BY <1>1, <1>2
<1>4. << note >> \in Seq(all) /\ Len(<< note >>) = 1 /\ << note >>[1] = note
  BY <1>1
<1>5. Fits(<< note >> \o Reply(c, answer))
  BY <1>3, <1>4, ConcatProperties
<1>6. ASSUME NEW s, Fits(s), wire' = wire \o s, NEW n \in DOMAIN wire'
      PROVE  \/ n \in DOMAIN wire /\ wire'[n] = wire[n]
             \/ wire'[n] = note
             \/ n = Len(wire') /\ Len(wire) < Len(wire') /\ c.loop # None /\ wire'[n] = reply
  <2>1. /\ wire' \in Seq(all) /\ Len(wire') = Len(wire) + Len(s)
        /\ \A i \in 1..Len(wire) + Len(s) :
             wire'[i] = IF i <= Len(wire) THEN wire[i] ELSE s[i - Len(wire)]
    BY <1>1, <1>6, ConcatProperties
  <2>2. /\ Len(wire) \in Nat /\ DOMAIN wire = 1..Len(wire)
        /\ Len(s) \in Nat /\ n \in 1..Len(wire) + Len(s)
    BY <1>1, <1>6, <2>1, LenProperties
  <2>3. CASE n <= Len(wire)
    BY <2>1, <2>2, <2>3
  <2>4. CASE n > Len(wire)
    BY <1>6, <2>1, <2>2, <2>4
  <2> QED
    BY <2>2, <2>3, <2>4
<1>7. wire' = wire \/ \E s : Fits(s) /\ wire' = wire \o s
  BY <1>3, <1>5 DEF Answered, Reached, note
<1> QED
  BY <1>6, <1>7 DEF Gained, note, reply

\* So a reply to the only message about for its loop leaves one there.
LEMMA WireMatches ==
  ASSUME TypeOK, AnswersMatchSends, OneFor(wire), NEW c \in Calls, NEW answer, NEW news,
         Answered(c, answer, news), UNCHANGED loops, Matches(c), c.loop # None => NoneFor(wire, c.loop)
  PROVE  /\ AnswersMatchSends' /\ OneFor(wire')
         /\ \A l \in Loops : l # c.loop /\ NoneFor(wire, l) => NoneFor(wire', l)
<1> USE OutboxAssumption DEF OutboxAssumption
<1>1. \A n \in DOMAIN wire' :
        \/ n \in DOMAIN wire /\ wire'[n] = wire[n]
        \/ wire'[n].loop = None
        \/ /\ n = Len(wire') /\ wire'[n].loop = c.loop /\ wire'[n].id = c.id /\ c.loop # None
           /\ Len(wire) < Len(wire')
  <2>1. Gained(c, answer, news)
    BY WireGains
  <2> QED
    BY <2>1 DEF Gained, Notice
<1>2. AnswersMatchSends'
  BY <1>1 DEF AnswersMatchSends, Matches
<1>3. OneFor(wire')
  BY <1>1 DEF OneFor, NoneFor
<1>4. \A l \in Loops : l # c.loop /\ NoneFor(wire, l) => NoneFor(wire', l)
  BY <1>1 DEF NoneFor
<1> QED
  BY <1>2, <1>3, <1>4

PairInv == TypeOK /\ CallsMatch /\ OneAnswerPerSend

\* Where the coordinator takes a call from the socket, or one nobody waits for.
LEMMA TakenMatches ==
  ASSUME PairInv, NEW c \in Calls, Taken(c), UNCHANGED loops, Matches(c),
         c.loop # None => NoneFor(wire, c.loop) /\ \A d \in attempts : d.loop # c.loop,
         NEW S, \A m \in S : m.loop \in Loops /\ m.loop # c.loop /\ NoneFor(wire, m.loop)
                             /\ \A d \in attempts : d.loop # m.loop
  PROVE  /\ \A d \in attempts' : Matches(d)'
         /\ AnswersMatchSends' /\ OneFor(wire')
         /\ \A d \in attempts' : d.loop # None => NoneFor(wire', d.loop)
         /\ \A m \in S : NoneFor(wire', m.loop) /\ \A d \in attempts' : d.loop # m.loop
<1> USE OutboxAssumption DEF OutboxAssumption
<1>1. /\ \A d \in attempts : Matches(d)' /\ d.loop \in Loops \cup {None}
      /\ Matches(c)'
  BY DEF PairInv, CallsMatch, Matches, TypeOK, Calls
<1>2. CASE attempts' = attempts \cup {c} /\ UNCHANGED wire
  BY <1>1, <1>2 DEF PairInv, CallsMatch, AnswersMatchSends, OneAnswerPerSend, OneFor, NoneFor
<1>3. ASSUME UNCHANGED attempts, NEW answer, Reached(Reply(c, answer))
      PROVE  /\ \A d \in attempts' : Matches(d)'
             /\ AnswersMatchSends' /\ OneFor(wire')
             /\ \A d \in attempts' : d.loop # None => NoneFor(wire', d.loop)
             /\ \A m \in S : NoneFor(wire', m.loop) /\ \A d \in attempts' : d.loop # m.loop
  <2>1. /\ AnswersMatchSends' /\ OneFor(wire')
        /\ \A l \in Loops : l # c.loop /\ NoneFor(wire, l) => NoneFor(wire', l)
    <3>1. Answered(c, answer, answer)
      BY <1>3 DEF Answered
    <3> QED
      BY <1>3, <3>1, WireMatches DEF PairInv, CallsMatch, OneAnswerPerSend
  <2>2. ASSUME NEW d \in attempts, d.loop # None
        PROVE  NoneFor(wire', d.loop)
    BY <1>1, <2>1, <2>2 DEF PairInv, OneAnswerPerSend
  <2> QED
    BY <1>1, <1>3, <2>1, <2>2
<1> QED
  BY <1>2, <1>3 DEF Taken

LEMMA SendMatches ==
  ASSUME PairInv, NEW l \in Loops, SendNext(l)
  PROVE  CallsMatch' /\ OneAnswerPerSend'
<1> USE OutboxAssumption DEF OutboxAssumption
<1>1. loops[l].current = None /\ UNCHANGED << attempts, wire >> /\ loops \in [Loops -> LoopState]
  BY DEF SendNext, networkVars, PairInv, TypeOK
<1>2. CASE UNCHANGED sent
  <2>1. \A k \in Loops : k # l => loops'[k] = loops[k]
    BY <1>1 DEF SendNext
  <2> QED
    BY <1>1, <1>2, <2>1, PairKept DEF PairInv
<1>3. ASSUME NEW e \in Events, sent' = Append(sent, [loop |-> l, id |-> e]),
             loops' = [loops EXCEPT ![l] = [Rest(l, e) EXCEPT !.current = e]]
      PROVE  CallsMatch' /\ OneAnswerPerSend'
  <2> DEFINE call == [loop |-> l, id |-> e]
             StillFor(m) == m.loop # None => loops'[m.loop].current = m.id
  <2>1. loops'[l].current = e /\ \A k \in Loops : k # l => loops'[k] = loops[k]
    BY <1>1, <1>3 DEF Rest, LoopState
  <2>2. \A m : m.loop \in Loops \cup {None} /\ m.id \in Events /\ Matches(m)
                 => m.loop # l /\ StillFor(m)
    BY <1>1, <2>1 DEF Matches
  <2>3. /\ \A n \in DOMAIN sent : sent[n].loop # None /\ sent[n].loop # l /\ StillFor(sent[n])
        /\ \A c \in attempts : c.loop # l /\ StillFor(c)
        /\ \A n \in DOMAIN wire : wire[n].loop # l /\ StillFor(wire[n])
    <3>1. /\ \A n \in DOMAIN sent : sent[n] \in Calls
          /\ \A c \in attempts : c \in Calls
          /\ \A n \in DOMAIN wire : wire[n] \in Replies \cup Notices
      BY DEF PairInv, TypeOK
    <3>2. \A m \in Calls \cup Replies \cup Notices : m.loop \in Loops \cup {None} /\ m.id \in Events
      BY DEF Calls, Replies, Notices
    <3>3. \A n \in DOMAIN wire : Matches(wire[n])
      BY DEF PairInv, CallsMatch, AnswersMatchSends, Matches
    <3>4. \A n \in DOMAIN sent : sent[n].loop # None /\ Matches(sent[n])
      BY DEF PairInv, CallsMatch
    <3>5. \A c \in attempts : Matches(c)
      BY DEF PairInv, CallsMatch
    <3>6. \A n \in DOMAIN sent : sent[n].loop # None /\ sent[n].loop # l /\ StillFor(sent[n])
      BY <2>2, <3>1, <3>2, <3>4
    <3>7. \A c \in attempts : c.loop # l /\ StillFor(c)
      BY <2>2, <3>1, <3>2, <3>5
    <3>8. \A n \in DOMAIN wire : wire[n].loop # l /\ StillFor(wire[n])
      BY <2>2, <3>1, <3>2, <3>3
    <3> QED
      BY <3>6, <3>7, <3>8
  <2>4. /\ DOMAIN sent' = 1..Len(sent) + 1 /\ DOMAIN sent = 1..Len(sent) /\ Len(sent) \in Nat
        /\ sent'[Len(sent) + 1] = call /\ \A n \in DOMAIN sent : sent'[n] = sent[n]
    <3>1. sent \in Seq(Calls) /\ call \in Calls
      BY DEF PairInv, TypeOK, Calls
    <3> QED
      BY <1>3, <3>1
  <2>5. \A n \in DOMAIN sent' : \/ n \in DOMAIN sent /\ sent'[n] = sent[n]
                                \/ n = Len(sent) + 1 /\ sent'[n] = call
    BY <2>4
  <2>6. CallsMatch'
    <3>1. StillFor(call)
      BY <2>1
    <3>2. AnswersMatchSends'
      BY <1>1, <2>3 DEF AnswersMatchSends, Matches
    <3> QED
      BY <1>1, <2>3, <2>5, <3>1, <3>2 DEF CallsMatch, Matches
  <2>7. OneFor(sent')
    BY <2>3, <2>5 DEF PairInv, OneAnswerPerSend, OneFor
  <2> QED
    BY <1>1, <2>3, <2>5, <2>6, <2>7 DEF PairInv, OneAnswerPerSend, NoneFor
<1> QED
  <2>1. \/ UNCHANGED sent
        \/ \E e \in loops[l].todo :
             /\ sent' = Append(sent, [loop |-> l, id |-> e])
             /\ loops' = [loops EXCEPT ![l] = [Rest(l, e) EXCEPT !.current = e]]
    BY DEF SendNext, Rest
  <2>2. loops[l].todo \subseteq Events
    BY <1>1 DEF LoopState
  <2> QED
    BY <1>2, <1>3, <2>1, <2>2

LEMMA DeliverMatches ==
  ASSUME PairInv, Deliver
  PROVE  CallsMatch' /\ OneAnswerPerSend'
<1> USE OutboxAssumption DEF OutboxAssumption
<1> DEFINE m == Head(wire)
<1>1. /\ wire \in Seq(Replies \cup Notices) /\ wire # << >> /\ wire' = Tail(wire)
      /\ UNCHANGED << sent, attempts >>
  BY DEF Deliver, PairInv, TypeOK
<1>2. /\ m = wire[1] /\ 1 \in DOMAIN wire /\ m \in Replies \cup Notices
      /\ \A n \in DOMAIN wire' : n + 1 \in DOMAIN wire /\ n + 1 # 1 /\ wire'[n] = wire[n + 1]
      /\ \A i, j \in DOMAIN wire' : i + 1 = j + 1 => i = j
  BY <1>1
<1>3. \A n \in DOMAIN wire' : wire'[n].loop # None => wire'[n].loop # m.loop
  BY <1>2 DEF PairInv, OneAnswerPerSend, OneFor
<1>4. \A k \in Loops : k # m.loop => loops'[k] = loops[k]
  BY DEF Deliver, PairInv, TypeOK
<1>5. /\ \A n \in DOMAIN sent : sent[n].loop # m.loop /\ sent[n].loop \in Loops
      /\ \A c \in attempts : c.loop # None => c.loop # m.loop /\ c.loop \in Loops
  <2>1. /\ \A n \in DOMAIN sent : sent[n].loop # m.loop
        /\ \A c \in attempts : c.loop # None => c.loop # m.loop
    BY <1>2 DEF PairInv, OneAnswerPerSend, NoneFor
  <2>2. /\ \A n \in DOMAIN sent : sent[n] \in Calls /\ sent[n].loop # None
        /\ \A c \in attempts : c \in Calls
    BY DEF PairInv, TypeOK, CallsMatch
  <2> QED
    BY <2>1, <2>2 DEF Calls
<1>6. \A n \in DOMAIN wire' : wire'[n].loop # None => wire'[n].loop \in Loops
  <2>1. \A n \in DOMAIN wire : wire[n] \in Replies \cup Notices
    BY <1>1
  <2> QED
    BY <1>2, <2>1 DEF Replies, Notices
<1>7. AnswersMatchSends'
  BY <1>2, <1>3, <1>4, <1>6 DEF PairInv, CallsMatch, AnswersMatchSends
<1>8. CallsMatch'
  BY <1>1, <1>4, <1>5, <1>7 DEF PairInv, CallsMatch, Matches
<1>9. OneFor(wire')
  BY <1>2 DEF PairInv, OneAnswerPerSend, OneFor
<1>10. \A k : NoneFor(wire, k) => NoneFor(wire', k)
  BY <1>2 DEF NoneFor
<1> QED
  BY <1>1, <1>8, <1>9, <1>10 DEF PairInv, OneAnswerPerSend

LEMMA TakeMatches ==
  ASSUME PairInv, TakeCall \/ \E e \in Events : TakeStray(e)
  PROVE  CallsMatch' /\ OneAnswerPerSend'
<1> USE OutboxAssumption DEF OutboxAssumption
<1> USE DEF handlerVars
<1> DEFINE S == { sent'[n] : n \in DOMAIN sent' }
<1>1. ASSUME NEW c \in Calls, Taken(c), UNCHANGED loops, Matches(c),
             c.loop # None => NoneFor(wire, c.loop) /\ \A d \in attempts : d.loop # c.loop,
             \A m \in S : m.loop \in Loops /\ m.loop # c.loop /\ NoneFor(wire, m.loop)
                          /\ Matches(m) /\ \A d \in attempts : d.loop # m.loop,
             OneFor(sent')
      PROVE  CallsMatch' /\ OneAnswerPerSend'
  <2>1. /\ \A d \in attempts' : Matches(d)'
        /\ AnswersMatchSends' /\ OneFor(wire')
        /\ \A d \in attempts' : d.loop # None => NoneFor(wire', d.loop)
        /\ \A m \in S : NoneFor(wire', m.loop) /\ \A d \in attempts' : d.loop # m.loop
    BY <1>1, TakenMatches
  <2>2. \A m \in S : m.loop # None /\ Matches(m)'
    BY <1>1 DEF Matches
  <2> QED
    BY <1>1, <2>1, <2>2 DEF CallsMatch, OneAnswerPerSend
<1>2. CASE TakeCall
  <2> DEFINE c == sent[1]
  <2>1. /\ sent \in Seq(Calls) /\ sent # << >> /\ Taken(Head(sent)) /\ sent' = Tail(sent)
        /\ UNCHANGED loops
    BY <1>2 DEF TakeCall, PairInv, TypeOK
  <2>2. /\ c \in Calls /\ Taken(c) /\ 1 \in DOMAIN sent
        /\ \A n \in DOMAIN sent' : n + 1 \in DOMAIN sent /\ n + 1 # 1 /\ sent'[n] = sent[n + 1]
        /\ \A i, j \in DOMAIN sent' : i + 1 = j + 1 => i = j
    BY <2>1
  <2>3. Matches(c) /\ NoneFor(wire, c.loop) /\ \A d \in attempts : d.loop # c.loop
    BY <2>2 DEF PairInv, CallsMatch, OneAnswerPerSend
  <2>4. OneFor(sent')
    BY <2>2 DEF PairInv, OneAnswerPerSend, OneFor
  <2>5. ASSUME NEW n \in DOMAIN sent
        PROVE  /\ sent[n].loop \in Loops /\ Matches(sent[n]) /\ NoneFor(wire, sent[n].loop)
               /\ \A d \in attempts : d.loop # sent[n].loop
    <3>1. sent[n] \in Calls /\ sent[n].loop # None
      BY <2>1 DEF PairInv, CallsMatch
    <3> QED
      BY <3>1 DEF Calls, PairInv, CallsMatch, OneAnswerPerSend
  <2>6. \A n \in DOMAIN sent : n # 1 => sent[n].loop # c.loop
    BY <2>2 DEF PairInv, CallsMatch, OneAnswerPerSend, OneFor
  <2>7. \A m \in S : /\ m.loop \in Loops /\ m.loop # c.loop /\ NoneFor(wire, m.loop)
                     /\ Matches(m) /\ \A d \in attempts : d.loop # m.loop
    BY <2>2, <2>5, <2>6
  <2> QED
    BY <1>1, <2>1, <2>2, <2>3, <2>4, <2>7
<1>3. ASSUME NEW e \in Events, TakeStray(e)
      PROVE  CallsMatch' /\ OneAnswerPerSend'
  <2> DEFINE c == [loop |-> None, id |-> e]
  <2>1. c \in Calls /\ c.loop = None /\ Taken(c) /\ UNCHANGED << sent, loops >> /\ Matches(c)
    BY <1>3 DEF TakeStray, Calls, Matches
  <2>2. ASSUME NEW n \in DOMAIN sent
        PROVE  /\ sent[n].loop \in Loops /\ Matches(sent[n]) /\ NoneFor(wire, sent[n].loop)
               /\ \A d \in attempts : d.loop # sent[n].loop
    <3>1. sent[n] \in Calls /\ sent[n].loop # None
      BY DEF PairInv, TypeOK, CallsMatch
    <3> QED
      BY <3>1 DEF Calls, PairInv, CallsMatch, OneAnswerPerSend
  <2>3. \A m \in S : /\ m.loop \in Loops /\ m.loop # c.loop /\ NoneFor(wire, m.loop)
                     /\ Matches(m) /\ \A d \in attempts : d.loop # m.loop
    BY <2>1, <2>2
  <2>4. OneFor(sent')
    BY <2>1 DEF PairInv, OneAnswerPerSend, OneFor
  <2> HIDE DEF c
  <2> QED
    BY <1>1, <2>1, <2>3, <2>4
<1> QED
  BY <1>2, <1>3

LEMMA AttemptMatches ==
  ASSUME PairInv,
         (\E c \in attempts : FirstAttempt(c)) \/ \E e \in Events : Retry(e)
  PROVE  CallsMatch' /\ OneAnswerPerSend'
<1> USE OutboxAssumption DEF OutboxAssumption
<1> USE DEF handlerVars
<1>1. ASSUME NEW c \in Calls, NEW answer, NEW news, Answered(c, answer, news),
             UNCHANGED << loops, sent >>, Matches(c), attempts' \subseteq attempts,
             c.loop # None => NoneFor(wire, c.loop),
             \A d \in attempts' : d.loop # None => d.loop # c.loop,
             \A n \in DOMAIN sent : sent[n].loop # c.loop
      PROVE  CallsMatch' /\ OneAnswerPerSend'
  <2>1. /\ AnswersMatchSends' /\ OneFor(wire')
        /\ \A l \in Loops : l # c.loop /\ NoneFor(wire, l) => NoneFor(wire', l)
    BY <1>1, WireMatches DEF PairInv, CallsMatch, OneAnswerPerSend
  <2>2. CallsMatch'
    BY <1>1, <2>1 DEF PairInv, CallsMatch, Matches
  <2>3. /\ \A n \in DOMAIN sent : sent[n].loop \in Loops
        /\ \A d \in attempts : d.loop \in Loops \cup {None}
    <3>1. /\ \A n \in DOMAIN sent : sent[n] \in Calls /\ sent[n].loop # None
          /\ \A d \in attempts : d \in Calls
      BY DEF PairInv, TypeOK, CallsMatch
    <3> QED
      BY <3>1 DEF Calls
  <2>4. \A n \in DOMAIN sent : NoneFor(wire', sent[n].loop)
    BY <1>1, <2>1, <2>3 DEF PairInv, OneAnswerPerSend
  <2>5. \A d \in attempts' : d.loop # None => NoneFor(wire', d.loop)
    BY <1>1, <2>1, <2>3 DEF PairInv, OneAnswerPerSend
  <2> QED
    BY <1>1, <2>1, <2>2, <2>4, <2>5 DEF PairInv, OneAnswerPerSend
<1>2. ASSUME NEW c \in attempts, FirstAttempt(c)
      PROVE  CallsMatch' /\ OneAnswerPerSend'
  <2>1. PICK answer, news : Answered(c, answer, news)
    BY <1>2, Zenon DEF FirstAttempt, Answered
  <2>2. /\ c \in Calls /\ UNCHANGED << loops, sent >> /\ attempts' = attempts \ {c}
        /\ Matches(c) /\ (c.loop # None => NoneFor(wire, c.loop))
        /\ \A n \in DOMAIN sent : sent[n].loop # c.loop
    BY <1>2 DEF FirstAttempt, PairInv, TypeOK, CallsMatch, OneAnswerPerSend
  <2>3. ASSUME NEW d \in attempts', d.loop # None PROVE d.loop # c.loop
    <3>1. d \in Calls /\ d # c /\ Matches(d)
      BY <2>2 DEF PairInv, TypeOK, CallsMatch
    <3>2. d.loop = c.loop => d.id = c.id
      BY <2>2, <2>3, <3>1 DEF Matches
    <3> QED
      BY <2>2, <3>1, <3>2 DEF Calls
  <2> QED
    BY <1>1, <2>1, <2>2, <2>3
<1>3. ASSUME NEW e \in Events, Retry(e)
      PROVE  CallsMatch' /\ OneAnswerPerSend'
  <2> DEFINE c == [loop |-> None, id |-> e]
  <2>1. /\ c \in Calls /\ c.loop = None /\ c.id = e /\ Matches(c)
        /\ UNCHANGED << loops, sent, attempts >>
    BY <1>3 DEF Retry, Calls, Matches
  <2>2. PICK news : Reached(<< Notice(e, news) >>)
    BY <1>3 DEF Retry
  <2>3. Answered(c, news, news)
    <3>1. Reply(c, news) = << >>
      BY <2>1 DEF Reply
    <3>2. << Notice(e, news) >> \o << >> = << Notice(e, news) >>
      OBVIOUS
    <3> QED
      BY <2>1, <2>2, <3>1, <3>2 DEF Answered
  <2> HIDE DEF c
  <2>4. \A n \in DOMAIN sent : sent[n].loop # c.loop
    BY <2>1 DEF PairInv, CallsMatch
  <2> QED
    BY <1>1, <2>1, <2>3, <2>4
<1> QED
  BY <1>2, <1>3

LEMMA FinishLoopStep ==
  ASSUME TypeOK, CallsMatch, FinishLoopRests, [Next]_vars
  PROVE  FinishLoopRests'
<1> USE OutboxAssumption DEF OutboxAssumption
<1> USE DEF deviceVars, handlerVars, networkVars, serverVars, boundVars
<1> DEFINE Resting == ~ Busy(FinishLoop)
<1>1. /\ loops \in [Loops -> LoopState] /\ healing \in [Healers -> Reading]
      /\ "finish" \in Healers /\ "poll" \in Healers
  BY DEF TypeOK, Healers
<1>2. ASSUME UNCHANGED << healing, finish >>, loops'[FinishLoop] = loops[FinishLoop]
      PROVE  FinishLoopRests'
  BY <1>2 DEF FinishLoopRests, Busy
<1>3. ASSUME NEW e \in Events, Record(e) PROVE FinishLoopRests'
  BY <1>1, <1>2, <1>3 DEF Record
<1>4. ASSUME NEW l \in Loops, StartSync(l) PROVE FinishLoopRests'
  BY <1>1, <1>2, <1>4 DEF StartSync
<1>5. ASSUME NEW l \in Loops, SendNext(l) PROVE FinishLoopRests'
  <2>1. /\ UNCHANGED << healing, finish >> /\ loops[l].todo # {}
        /\ \A k \in Loops : k # l => loops'[k] = loops[k]
    BY <1>1, <1>5 DEF SendNext
  <2>2. CASE l = FinishLoop
    BY <2>1, <2>2 DEF FinishLoopRests, Busy
  <2> QED
    BY <1>2, <2>1, <2>2
<1>6. CASE Deliver
  <2>1. /\ UNCHANGED << healing, finish >> /\ Head(wire) = wire[1] /\ 1 \in DOMAIN wire
        /\ \A k \in Loops : k # Head(wire).loop => loops'[k] = loops[k]
        /\ wire[1] \in Replies \cup Notices
        /\ wire[1].loop = None => loops' = loops
    BY <1>6 DEF Deliver, TypeOK
  <2>2. CASE wire[1].loop = FinishLoop
    <3>1. loops[FinishLoop].current = wire[1].id /\ wire[1].id \in Events
      BY <2>1, <2>2 DEF CallsMatch, AnswersMatchSends, Replies, Notices
    <3> QED
      BY <2>1, <3>1 DEF FinishLoopRests, Busy
  <2> QED
    BY <1>2, <2>1, <2>2
<1>7. ASSUME NEW h \in Healers, ListOutbox(h) PROVE FinishLoopRests'
  <2>1. UNCHANGED << loops, finish >> /\ (h = "finish" => ~ Busy(FinishLoop) /\ finish = "syncing")
        /\ \A g \in Healers : g # h => healing'[g] = healing[g]
    BY <1>1, <1>7 DEF ListOutbox
  <2> QED
    BY <1>1, <2>1 DEF FinishLoopRests, Busy
<1>8. ASSUME NEW h \in Healers, \/ ApplyHealing(h)
                                \/ \E reached \in BOOLEAN : AskServer(h, reached)
      PROVE  FinishLoopRests'
  <2>1. /\ UNCHANGED << loops, finish >> /\ healing[h].stage # "idle"
        /\ \A g \in Healers : g # h => healing'[g] = healing[g]
    BY <1>1, <1>8 DEF ApplyHealing, AskServer
  <2> QED
    BY <1>1, <2>1 DEF FinishLoopRests, Busy
<1>9. CASE PressFinish
  BY <1>1, <1>9 DEF PressFinish, FinishLoopRests
<1>10. CASE DecideFinish \/ ClearPersisted
  <2>1. /\ UNCHANGED loops
        /\ \/ finish' \in {"no", "finished"} /\ healing'["finish"].stage = "idle"
           \/ finish' = "ending" /\ UNCHANGED healing
        /\ Resting
    BY <1>1, <1>10 DEF DecideFinish, ClearPersisted, FinishLoopRests, NotHealing
  <2> QED
    BY <2>1 DEF FinishLoopRests, Busy
<1>11. CASE FinishSucceeds \/ FinishFails
  <2>1. Resting
    BY <1>11 DEF FinishSucceeds, FinishFails, FinishLoopRests
  <2>2. loops'[FinishLoop] \in {Idle, loops[FinishLoop]}
    BY <1>11 DEF FinishSucceeds, FinishFails, DropClient
  <2>3. Resting'
    BY <2>1, <2>2 DEF Busy, Idle
  <2>4. finish' = "no" => healing'["finish"].stage = "idle"
    BY <1>1, <1>11 DEF FinishSucceeds, FinishFails, NotHealing
  <2> QED
    BY <2>3, <2>4 DEF FinishLoopRests
<1>12. CASE Drop
  <2>1. UNCHANGED << healing, finish >>
        /\ loops'[FinishLoop] = IF loops[FinishLoop].current # None
                                THEN AfterAnswer(loops[FinishLoop], "error")
                                ELSE loops[FinishLoop]
    BY <1>12 DEF Drop
  <2>2. CASE Resting
    BY <1>2, <2>1, <2>2 DEF Busy
  <2> QED
    BY <2>1, <2>2 DEF FinishLoopRests
<1>13. CASE Reload
  BY <1>1, <1>13 DEF Reload, FinishLoopRests, Busy, Idle, NotHealing
<1>14. CASE \/ \E e \in Events : Dismiss(e)
            \/ Connect \/ Revisit \/ Supersede \/ Server \/ UNCHANGED vars
  <2>1. UNCHANGED << loops, healing, finish >>
    BY <1>14
       DEF Dismiss, Connect, Revisit, Supersede, Server, TakeCall, TakeStray, FirstAttempt,
           Retry, Store, Expire, vars
  <2> QED
    BY <1>2, <2>1
<1> QED
  BY <1>3, <1>4, <1>5, <1>6, <1>7, <1>8, <1>9, <1>10, <1>11, <1>12, <1>13, <1>14
     DEF Next, Browser, Network

LEMMA PairStep ==
  ASSUME PairInv, FinishLoopRests, [Next]_vars
  PROVE  CallsMatch' /\ OneAnswerPerSend'
<1> USE OutboxAssumption DEF OutboxAssumption
<1> USE DEF deviceVars, handlerVars, networkVars, serverVars, boundVars
<1>1. loops \in [Loops -> LoopState] /\ TypeOK /\ CallsMatch /\ OneAnswerPerSend
  BY DEF PairInv, TypeOK
<1>2. CASE DropClient \/ Drop \/ Supersede \/ Reload
  BY <1>1, <1>2, PairLost DEF DropClient, Drop, Supersede, Reload
<1>3. ASSUME NEW e \in Events, Record(e) PROVE CallsMatch' /\ OneAnswerPerSend'
  <2>1. /\ UNCHANGED << sent, attempts, wire >>
        /\ \A l \in Loops : loops[l].current # None => loops'[l] = loops[l]
    BY <1>1, <1>3 DEF Record, Busy
  <2> QED
    BY <1>1, <2>1, PairKept
<1>4. ASSUME NEW k \in Loops, StartSync(k) PROVE CallsMatch' /\ OneAnswerPerSend'
  <2>1. /\ UNCHANGED << sent, attempts, wire >>
        /\ \A l \in Loops : loops[l].current # None => loops'[l] = loops[l]
    BY <1>1, <1>4 DEF StartSync, Busy
  <2> QED
    BY <1>1, <2>1, PairKept
<1>5. CASE PressFinish
  <2>1. /\ UNCHANGED << sent, attempts, wire >>
        /\ \A l \in Loops : loops[l].current # None => loops'[l] = loops[l]
    BY <1>1, <1>5 DEF PressFinish, Busy, FinishLoopRests
  <2> QED
    BY <1>1, <2>1, PairKept
<1>6. CASE \/ \E e \in Events : Dismiss(e) \/ Store(e)
           \/ \E h \in Healers : ListOutbox(h) \/ ApplyHealing(h)
           \/ \E h \in Healers, reached \in BOOLEAN : AskServer(h, reached)
           \/ DecideFinish \/ ClearPersisted \/ Connect \/ Revisit \/ Expire \/ UNCHANGED vars
  <2>1. UNCHANGED << sent, attempts, wire, loops >>
    BY <1>6
       DEF Dismiss, Store, ListOutbox, ApplyHealing, AskServer, DecideFinish, ClearPersisted,
           Connect, Revisit, Expire, vars
  <2> QED
    BY <1>1, <2>1, PairKept
<1> QED
  BY <1>2, <1>3, <1>4, <1>5, <1>6, SendMatches, DeliverMatches, TakeMatches, AttemptMatches
     DEF Next, Browser, Network, Server, FinishSucceeds, FinishFails

LEMMA InitPairs == Init => PairInv /\ FinishLoopRests
<1> SUFFICES ASSUME Init PROVE PairInv /\ FinishLoopRests
  OBVIOUS
<1>1. sent = << >> /\ wire = << >> /\ attempts = {}
  BY DEF Init
<1>2. CallsMatch /\ OneAnswerPerSend
  BY <1>1 DEF CallsMatch, AnswersMatchSends, OneAnswerPerSend, OneFor, NoneFor
<1>3. FinishLoopRests
  BY OutboxAssumption
     DEF Init, FinishLoopRests, Busy, Idle, Healers, NotHealing, OutboxAssumption
<1> QED
  BY <1>2, <1>3, InitTypes DEF PairInv

LEMMA StepPairs == PairInv /\ FinishLoopRests /\ [Next]_vars => (PairInv /\ FinishLoopRests)'
  BY PairStep, FinishLoopStep, StepTypes DEF PairInv

\* What comes back to a waiting send is the answer to its own call, however many
\* loops send at once and however often the socket is lost, replaced or thrown
\* away: the pending calls of two sends are never mixed up, and no answer of an
\* earlier send is left to settle a later one of the same loop.
THEOREM AnswersReachTheirSends == Spec => []AnswersMatchSends
<1>1. PairInv /\ FinishLoopRests => AnswersMatchSends
  BY DEF PairInv, CallsMatch
<1> QED
  BY <1>1, InitPairs, StepPairs, PTL DEF Spec

\* A waiting send is never answered twice: its call, its attempt and its reply
\* exclude each other.
THEOREM OneAnswerEach == Spec => []OneAnswerPerSend
<1>1. PairInv /\ FinishLoopRests => OneAnswerPerSend
  BY DEF PairInv
<1> QED
  BY <1>1, InitPairs, StepPairs, PTL DEF Spec

-----------------------------------------------------------------------------
(* A loop sends nothing ahead of a command that did not get through *)

(***************************************************************************)
(* A loop that is not blocked has had an answer for every earlier command  *)
(* that matters, and an answer other than a conflict or an error means     *)
(* that the coordinator has accepted the command.  The second half is true *)
(* of a loop only because the answer it gets is for the command it sent.   *)
(***************************************************************************)
InOrder(loop) ==
  /\ loop.current \in Events \ AppendSafe => ~ loop.blocked
  /\ ~ loop.blocked =>
       \A d \in loop.passed \ AppendSafe : d # loop.current => verdict[d] # "none"

AnswersAreVerdicts ==
  /\ \A c \in attempts : verdict[c.id] # "none"
  /\ \A n \in DOMAIN wire :
       wire[n].answer \notin {"conflict", "error"} => verdict[wire[n].id] # "none"

LoopsInOrder == \A l \in Loops : InOrder(loops[l])

VerdictsStay == \A e \in Events : verdict[e] # "none" => verdict'[e] # "none"

LEMMA NoVerdictIsWithdrawn ==
  ASSUME TypeOK, [Next]_vars
  PROVE  VerdictsStay
<1> USE DEF deviceVars, handlerVars, networkVars, serverVars, boundVars
<1>1. CASE UNCHANGED verdict
  BY <1>1 DEF VerdictsStay
<1>2. ASSUME NEW e \in Events,
             \/ Coordinator!Accept(e) \/ Coordinator!Confirm(e) \/ Coordinator!Reject(e)
             \/ Coordinator!GiveUp(e) \/ Coordinator!Commit(e)
      PROVE  VerdictsStay
  BY <1>2
     DEF VerdictsStay, TypeOK, Coordinator!Accept, Coordinator!Confirm, Coordinator!Reject,
         Coordinator!GiveUp, Coordinator!Commit, Coordinator!Decide
<1>3. ASSUME NEW c \in Calls, Taken(c) PROVE VerdictsStay
  <2>1. c.id \in Events
    BY DEF Calls
  <2> QED
    BY <1>1, <1>2, <1>3, <2>1 DEF Taken
<1>4. CASE TakeCall \/ \E e \in Events : TakeStray(e)
  <2>1. TakeCall => Head(sent) \in Calls /\ Taken(Head(sent))
    BY DEF TakeCall, TypeOK
  <2>2. \A e \in Events : TakeStray(e) => [loop |-> None, id |-> e] \in Calls
                                          /\ Taken([loop |-> None, id |-> e])
    BY DEF TakeStray, Calls
  <2> QED
    BY <1>3, <1>4, <2>1, <2>2
<1>5. ASSUME NEW c \in attempts, FirstAttempt(c) PROVE VerdictsStay
  <2>1. c.id \in Events
    BY DEF TypeOK, Calls
  <2> QED
    BY <1>1, <1>2, <1>5, <2>1 DEF FirstAttempt
<1>6. ASSUME NEW e \in Events, Retry(e) \/ Store(e) PROVE VerdictsStay
  BY <1>2, <1>6 DEF Retry, Store
<1>7. CASE Browser \/ Network \/ Expire \/ UNCHANGED vars
  <2>1. UNCHANGED verdict
    BY <1>7
       DEF Browser, Network, Expire, vars, Record, Dismiss, StartSync, SendNext, ListOutbox,
           ApplyHealing, AskServer, Deliver, PressFinish, DecideFinish, FinishSucceeds,
           FinishFails, ClearPersisted, Connect, Revisit, Drop, Supersede, Reload
  <2> QED
    BY <1>1, <2>1
<1> QED
  BY <1>4, <1>5, <1>6, <1>7 DEF Next, Server

LEMMA AnswerIsVerdict ==
  ASSUME TypeOK, AnswersAreVerdicts, VerdictsStay,
         NEW c \in Calls, NEW answer, NEW news, Answered(c, answer, news),
         answer \in {"conflict", "error"} \/ verdict'[c.id] # "none",
         news \in {"conflict", "error"} \/ verdict'[c.id] # "none"
  PROVE  \A n \in DOMAIN wire' :
           wire'[n].answer \notin {"conflict", "error"} => verdict'[wire'[n].id] # "none"
<1>1. Gained(c, answer, news)
  BY WireGains
<1>2. \A n \in DOMAIN wire : wire[n].id \in Events
  <2>1. \A n \in DOMAIN wire : wire[n] \in Replies \cup Notices
    BY DEF TypeOK
  <2> QED
    BY <2>1 DEF Replies, Notices
<1> QED
  BY <1>1, <1>2 DEF Gained, Notice, AnswersAreVerdicts, VerdictsStay

LEMMA TakenIsVerdict ==
  ASSUME TypeOK, AnswersAreVerdicts, VerdictsStay, NEW c \in Calls, Taken(c)
  PROVE  AnswersAreVerdicts'
<1>1. /\ c.id \in Events /\ \A d \in attempts : d.id \in Events
      /\ \A n \in DOMAIN wire : wire[n].id \in Events
  <2>1. \A n \in DOMAIN wire : wire[n] \in Replies \cup Notices
    BY DEF TypeOK
  <2> QED
    BY <2>1 DEF TypeOK, Calls, Replies, Notices
<1>2. CASE Coordinator!Accept(c.id) /\ attempts' = attempts \cup {c} /\ UNCHANGED wire
  <2>1. verdict'[c.id] # "none"
    BY <1>1, <1>2 DEF Coordinator!Accept, TypeOK
  <2> QED
    BY <1>1, <1>2, <2>1 DEF AnswersAreVerdicts, VerdictsStay
<1>3. ASSUME UNCHANGED << attempts, verdict >>, NEW answer, Reached(Reply(c, answer)),
             answer \in {"conflict", "error"} \/ verdict[c.id] # "none"
      PROVE  AnswersAreVerdicts'
  <2>1. Answered(c, answer, answer)
    BY <1>3 DEF Answered
  <2>2. \A n \in DOMAIN wire' :
          wire'[n].answer \notin {"conflict", "error"} => verdict'[wire'[n].id] # "none"
    BY <1>3, <2>1, AnswerIsVerdict
  <2> QED
    BY <1>3, <2>2 DEF AnswersAreVerdicts
<1> QED
  BY <1>2, <1>3 DEF Taken

LEMMA AnswersStep ==
  ASSUME TypeOK, AnswersAreVerdicts, [Next]_vars
  PROVE  AnswersAreVerdicts'
<1> USE DEF deviceVars, handlerVars, networkVars, serverVars, boundVars
<1>1. VerdictsStay
  BY NoVerdictIsWithdrawn
<1>2. /\ \A d \in attempts : d \in Calls /\ d.id \in Events
      /\ \A n \in DOMAIN wire : wire[n].id \in Events
  <2>1. \A n \in DOMAIN wire : wire[n] \in Replies \cup Notices
    BY DEF TypeOK
  <2> QED
    BY <2>1 DEF TypeOK, Calls, Replies, Notices
<1>3. CASE Deliver
  <2>1. /\ \A n \in DOMAIN wire' : n + 1 \in DOMAIN wire /\ wire'[n] = wire[n + 1]
        /\ UNCHANGED << attempts, verdict >>
    BY <1>3 DEF Deliver, TypeOK
  <2> QED
    BY <2>1 DEF AnswersAreVerdicts
<1>4. CASE DropClient \/ Drop \/ Supersede \/ Reload
  <2>1. SocketLost
    BY <1>4 DEF DropClient, Drop, Supersede, Reload
  <2>2. wire' = << >> /\ attempts' = { [a EXCEPT !.loop = None] : a \in attempts }
    BY <2>1 DEF SocketLost
  <2>3. \A d \in attempts' : \E a \in attempts : d.id = a.id
    BY <1>2, <2>2 DEF Calls
  <2> QED
    BY <1>1, <1>2, <2>2, <2>3 DEF AnswersAreVerdicts, VerdictsStay
<1>5. CASE TakeCall \/ \E e \in Events : TakeStray(e)
  <2>1. TakeCall => Head(sent) \in Calls /\ Taken(Head(sent))
    BY DEF TakeCall, TypeOK
  <2>2. \A e \in Events : TakeStray(e) => [loop |-> None, id |-> e] \in Calls
                                          /\ Taken([loop |-> None, id |-> e])
    BY DEF TakeStray, Calls
  <2> QED
    BY <1>1, <1>5, <2>1, <2>2, TakenIsVerdict
<1>6. ASSUME NEW c \in attempts, FirstAttempt(c) PROVE AnswersAreVerdicts'
  <2>1. PICK answer, news : Answered(c, answer, news)
    BY <1>6, Zenon DEF FirstAttempt, Answered
  <2>2. attempts' \subseteq attempts /\ verdict'[c.id] # "none"
    BY <1>1, <1>2, <1>6 DEF FirstAttempt, AnswersAreVerdicts, VerdictsStay
  <2>3. \A n \in DOMAIN wire' :
          wire'[n].answer \notin {"conflict", "error"} => verdict'[wire'[n].id] # "none"
    BY <1>1, <1>2, <2>1, <2>2, AnswerIsVerdict
  <2> QED
    BY <1>1, <1>2, <2>2, <2>3 DEF AnswersAreVerdicts, VerdictsStay
<1>7. ASSUME NEW e \in Events, Retry(e) PROVE AnswersAreVerdicts'
  <2> DEFINE c == [loop |-> None, id |-> e]
  <2>1. c \in Calls /\ c.loop = None /\ c.id = e /\ UNCHANGED attempts
    BY <1>7 DEF Retry, Calls
  <2>2. PICK news : Reached(<< Notice(e, news) >>)
    BY <1>7 DEF Retry
  <2>3. Answered(c, news, news)
    <3>1. Reply(c, news) = << >>
      BY <2>1 DEF Reply
    <3>2. << Notice(e, news) >> \o << >> = << Notice(e, news) >>
      OBVIOUS
    <3> QED
      BY <2>1, <2>2, <3>1, <3>2 DEF Answered
  <2>4. verdict'[e] # "none"
    BY <1>7
       DEF Retry, Coordinator!Confirm, Coordinator!Reject, Coordinator!GiveUp,
           Coordinator!Decide, TypeOK
  <2> HIDE DEF c
  <2>5. \A n \in DOMAIN wire' :
          wire'[n].answer \notin {"conflict", "error"} => verdict'[wire'[n].id] # "none"
    BY <1>1, <2>1, <2>3, <2>4, AnswerIsVerdict
  <2> QED
    BY <1>1, <1>2, <2>1, <2>5 DEF AnswersAreVerdicts, VerdictsStay
<1>8. CASE \/ \E e \in Events : Record(e) \/ Dismiss(e) \/ Store(e)
           \/ \E l \in Loops : StartSync(l) \/ SendNext(l)
           \/ \E h \in Healers : ListOutbox(h) \/ ApplyHealing(h)
           \/ \E h \in Healers, reached \in BOOLEAN : AskServer(h, reached)
           \/ PressFinish \/ DecideFinish \/ ClearPersisted
           \/ Connect \/ Revisit \/ Expire \/ UNCHANGED vars
  <2>1. UNCHANGED << attempts, wire >>
    BY <1>8
       DEF Record, Dismiss, Store, StartSync, SendNext, ListOutbox, ApplyHealing, AskServer,
           PressFinish, DecideFinish, ClearPersisted, Connect, Revisit, Expire, vars
  <2> QED
    BY <1>1, <1>2, <2>1 DEF AnswersAreVerdicts, VerdictsStay
<1> QED
  BY <1>3, <1>4, <1>5, <1>6, <1>7, <1>8
     DEF Next, Browser, Network, Server, FinishSucceeds, FinishFails

LEMMA RestInOrder ==
  ASSUME NEW loop \in LoopState, InOrder(loop)
  PROVE  InOrder(Remaining(loop))
  BY DEF Remaining, Idle, InOrder

\* An answer releases its loop only if it settles the command it was sent for.
LEMMA AnsweredInOrder ==
  ASSUME NEW loop \in LoopState, InOrder(loop), NEW answer,
         \/ answer \in {"conflict", "error"}
         \/ loop.current \notin Events \/ verdict[loop.current] # "none"
  PROVE  InOrder(AfterAnswer(loop, answer))
<1> USE OutboxAssumption DEF OutboxAssumption
<1> DEFINE next == [loop EXCEPT !.current = None,
                      !.blocked = @ \/ (/\ answer \in {"conflict", "error"}
                                        /\ loop.current \notin AppendSafe)]
<1>1. /\ next \in LoopState /\ next.current = None /\ next.passed = loop.passed
      /\ next.blocked = (loop.blocked \/ (/\ answer \in {"conflict", "error"}
                                          /\ loop.current \notin AppendSafe))
  BY DEF LoopState
<1>2. loop.passed \subseteq Events
  BY DEF LoopState
<1> HIDE DEF next
<1>3. InOrder(next)
  BY <1>1, <1>2 DEF InOrder
<1> QED
  BY <1>1, <1>3, RestInOrder DEF AfterAnswer, next

LEMMA LoopsStep ==
  ASSUME PairInv, AnswersAreVerdicts, LoopsInOrder, [Next]_vars
  PROVE  LoopsInOrder'
<1> USE OutboxAssumption DEF OutboxAssumption
<1> USE DEF deviceVars, handlerVars, networkVars, serverVars, boundVars
<1>1. /\ TypeOK /\ VerdictsStay /\ loops \in [Loops -> LoopState]
      /\ \A l \in Loops : loops[l].passed \subseteq Events
  BY NoVerdictIsWithdrawn DEF PairInv, TypeOK, LoopState
<1>2. ASSUME NEW loop \in LoopState, InOrder(loop), NEW l \in Loops, loops'[l] = loop
      PROVE  InOrder(loops[l])'
  BY <1>1, <1>2 DEF InOrder, VerdictsStay, LoopState
<1>3. ASSUME \A l \in Loops : loops'[l] \in LoopState /\ InOrder(loops'[l])
      PROVE  LoopsInOrder'
  BY <1>2, <1>3 DEF LoopsInOrder
<1>4. ASSUME NEW l \in Loops, NEW loop \in LoopState, InOrder(loop),
             loops' = [loops EXCEPT ![l] = loop]
      PROVE  LoopsInOrder'
  BY <1>1, <1>3, <1>4 DEF LoopsInOrder
<1>5. /\ Idle \in LoopState /\ InOrder(Idle)
      /\ \A S \in SUBSET Events : [Idle EXCEPT !.todo = S] \in LoopState
                                  /\ InOrder([Idle EXCEPT !.todo = S])
  BY DEF Idle, LoopState, InOrder
<1>6. \A l \in Loops : InOrder(loops[l])
  BY DEF LoopsInOrder
<1>7. ASSUME NEW e \in Events, Record(e) PROVE LoopsInOrder'
  BY <1>4, <1>5, <1>7 DEF Record
<1>8. CASE PressFinish \/ \E l \in Loops : StartSync(l)
  <2>1. Retryable \in SUBSET Events
    BY DEF Retryable
  <2> QED
    BY <1>4, <1>5, <1>8, <2>1 DEF PressFinish, StartSync
<1>9. ASSUME NEW l \in Loops, SendNext(l) PROVE LoopsInOrder'
  <2>1. PICK e \in loops[l].todo :
          \/ /\ loops[l].blocked /\ e \notin AppendSafe
             /\ loops' = [loops EXCEPT ![l] = Remaining(Rest(l, e))]
          \/ /\ ~ loops[l].blocked \/ e \in AppendSafe
             /\ loops' = [loops EXCEPT ![l] = [Rest(l, e) EXCEPT !.current = e]]
          \/ /\ ~ loops[l].blocked \/ e \in AppendSafe
             /\ loops' = [loops EXCEPT ![l] =
                  Remaining([Rest(l, e) EXCEPT !.blocked = @ \/ e \notin AppendSafe])]
    BY <1>9 DEF SendNext, Rest
  <2>2. loops[l] \in LoopState /\ e \in Events /\ loops[l].current = None
    BY <1>1, <1>9, <2>1 DEF SendNext, LoopState
  <2> DEFINE skipped == Rest(l, e)
             going == [Rest(l, e) EXCEPT !.current = e]
             unsent == [Rest(l, e) EXCEPT !.blocked = @ \/ e \notin AppendSafe]
  <2>3. /\ skipped \in LoopState /\ skipped.current = None
        /\ skipped.blocked = loops[l].blocked /\ skipped.passed = loops[l].passed \cup {e}
    BY <2>2 DEF Rest, LoopState
  <2>4. /\ going \in LoopState /\ going.current = e
        /\ going.blocked = loops[l].blocked /\ going.passed = loops[l].passed \cup {e}
    BY <2>2, <2>3 DEF LoopState
  <2>5. (skipped.blocked \/ e \notin AppendSafe) \in BOOLEAN
    OBVIOUS
  <2>6. /\ unsent \in LoopState /\ unsent.current = None
        /\ unsent.blocked = (loops[l].blocked \/ e \notin AppendSafe)
        /\ unsent.passed = loops[l].passed \cup {e}
    BY <2>3, <2>5 DEF LoopState
  <2> HIDE DEF skipped, going, unsent
  <2>7. loops[l].blocked => InOrder(skipped)
    BY <2>2, <2>3 DEF InOrder
  <2>8. ~ loops[l].blocked \/ e \in AppendSafe => InOrder(going)
    BY <1>1, <1>6, <2>2, <2>4 DEF InOrder
  <2>9. ~ loops[l].blocked \/ e \in AppendSafe => InOrder(unsent)
    BY <1>6, <2>2, <2>6 DEF InOrder
  <2> QED
    BY <1>4, <2>1, <2>3, <2>4, <2>6, <2>7, <2>8, <2>9, RestInOrder, RemainingTypes
       DEF skipped, going, unsent
<1>10. CASE Deliver
  <2> DEFINE m == Head(wire)
  <2>1. /\ m = wire[1] /\ 1 \in DOMAIN wire /\ m \in Replies \cup Notices
        /\ loops' = IF m.loop = None THEN loops
                    ELSE [loops EXCEPT ![m.loop] = AfterAnswer(@, m.answer)]
    BY <1>1, <1>10 DEF Deliver, TypeOK
  <2> HIDE DEF m
  <2>2. CASE m.loop = None
    BY <1>1, <1>3, <1>6, <2>1, <2>2
  <2>3. CASE m.loop # None
    <3>1. m.loop \in Loops
      BY <2>1, <2>3 DEF Replies, Notices
    <3>2. loops[m.loop].current = m.id
      BY <2>1, <2>3 DEF PairInv, CallsMatch, AnswersMatchSends
    <3>3. m.answer \in {"conflict", "error"} \/ verdict[m.id] # "none"
      BY <2>1 DEF AnswersAreVerdicts
    <3>4. /\ AfterAnswer(loops[m.loop], m.answer) \in LoopState
          /\ InOrder(AfterAnswer(loops[m.loop], m.answer))
      BY <1>1, <1>6, <3>1, <3>2, <3>3, AnsweredInOrder, AfterAnswerTypes
    <3> QED
      BY <1>4, <2>1, <2>3, <3>1, <3>4
  <2> QED
    BY <2>2, <2>3
<1>11. CASE DropClient
  <2>1. loops' = [l \in Loops |-> IF loops[l].current # None THEN Idle ELSE loops[l]]
    BY <1>11 DEF DropClient
  <2> QED
    BY <1>1, <1>3, <1>5, <1>6, <2>1
<1>12. CASE Drop
  <2>1. \A l \in Loops : loops'[l] \in {loops[l], AfterAnswer(loops[l], "error")}
    BY <1>12 DEF Drop
  <2>2. \A l \in Loops : /\ AfterAnswer(loops[l], "error") \in LoopState
                         /\ InOrder(AfterAnswer(loops[l], "error"))
    BY <1>1, <1>6, AnsweredInOrder, AfterAnswerTypes
  <2> QED
    BY <1>1, <1>3, <1>6, <2>1, <2>2
<1>13. CASE Reload
  BY <1>3, <1>5, <1>13 DEF Reload
<1>14. CASE \/ \E e \in Events : Dismiss(e)
            \/ \E h \in Healers : ListOutbox(h) \/ ApplyHealing(h)
            \/ \E h \in Healers, reached \in BOOLEAN : AskServer(h, reached)
            \/ DecideFinish \/ ClearPersisted
            \/ Connect \/ Revisit \/ Supersede \/ Server \/ UNCHANGED vars
  <2>1. UNCHANGED loops
    BY <1>14
       DEF Dismiss, ListOutbox, ApplyHealing, AskServer, DecideFinish, ClearPersisted, Connect,
           Revisit, Supersede, Server, TakeCall, TakeStray, FirstAttempt, Retry, Store, Expire,
           vars
  <2> QED
    BY <1>1, <1>3, <1>6, <2>1
<1> QED
  BY <1>7, <1>8, <1>9, <1>10, <1>11, <1>12, <1>13, <1>14
     DEF Next, Browser, Network, FinishSucceeds, FinishFails

OrderInv == PairInv /\ FinishLoopRests /\ AnswersAreVerdicts /\ LoopsInOrder

LEMMA InitOrder == Init => OrderInv
<1> SUFFICES ASSUME Init PROVE OrderInv
  OBVIOUS
<1>1. AnswersAreVerdicts
  BY DEF Init, AnswersAreVerdicts
<1>2. LoopsInOrder
  BY DEF Init, LoopsInOrder, InOrder, Idle
<1> QED
  BY <1>1, <1>2, InitPairs DEF OrderInv

LEMMA StepOrder == OrderInv /\ [Next]_vars => OrderInv'
  BY StepPairs, AnswersStep, LoopsStep DEF OrderInv, PairInv

\* Within one loop no command that may depend on earlier ones is sent before the
\* coordinator has accepted those, whatever answers were lost and however many
\* other loops send the same commands meanwhile.
THEOREM SendsKeepTheirOrder == Spec => []LoopKeepsOrder
<1>1. OrderInv => LoopKeepsOrder
  BY DEF OrderInv, LoopsInOrder, InOrder, LoopKeepsOrder
<1> QED
  BY <1>1, InitOrder, StepOrder, PTL DEF Spec

=============================================================================
