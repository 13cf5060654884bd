------------------------------ MODULE LiveOutbox ------------------------------
(***************************************************************************)
(* The reporting browser: the durable outbox of one device and one match,  *)
(* the loops that send its commands, the healing of statuses against the   *)
(* canonical events, and the handler that finishes the session.            *)
(*                                                                         *)
(* The other end is not the coordinator itself but its promise:            *)
(* DeliveryPromise, which MatchSession is shown to keep, gives every       *)
(* verdict the browser can be told about.                                  *)
(*                                                                         *)
(* Atomicity.  One IndexedDB transaction, or one delivered message with    *)
(* the writes it causes, is one action.  Handlers interleave at every      *)
(* await of a call, of a fetch and of a read of the outbox.                *)
(*                                                                         *)
(* Messages to the browser keep their order on one socket and are lost     *)
(* with it.  A message to the coordinator may arrive after its socket has  *)
(* been replaced; nobody then hears the answer.                            *)
(***************************************************************************)
EXTENDS Naturals, FiniteSets, Sequences

CONSTANTS
  Events,       \* commands the coach may record on this device
  AppendSafe,   \* those with no precondition
  Loops,        \* bound: sends and send loops in progress at once
  FinishLoop,   \* the send loop handleEndSession waits for
  Possible,     \* what may happen besides recording, sending and storing: Mishaps
  MaxOutages,   \* bound: losses of the socket
  MaxReloads,   \* bound: page reloads
  None

VARIABLES
  outbox,       \* IndexedDB: the status of each command, "absent" when there is no row
  dismissed,    \* rows with resolvedByCoach
  ordinal,      \* localOrdinal of each recorded command, 0 before it is recorded
  counter,      \* the last ordinal given out
  loops,        \* attemptSend calls and the send loops around them
  healing,      \* reconcileOutboxWithServer, from the poll and from the finish handler
  finish,       \* where handleEndSession is
  open,         \* sessionActive in this browser
  link,         \* the realtime client: "up" when it has an authenticated socket
  sent,         \* recordEvent calls on their way, in the order of the socket
  strays,       \* commands of calls sent on sockets that are gone
  attempts,     \* first attempts in progress at the coordinator
  wire,         \* answers and broadcasts on their way to this browser
  verdict,      \* the coordinator's verdicts
  canonical,    \* events with a row
  ended,        \* the coordinator refuses further commands
  outages, reloads

deviceVars == << outbox, dismissed, ordinal, counter >>
handlerVars == << loops, healing, finish, open >>
networkVars == << link, sent, strays, attempts, wire >>
serverVars == << verdict, canonical, ended >>
boundVars == << outages, reloads >>
vars == << deviceVars, handlerVars, networkVars, serverVars, boundVars >>

Mishaps ==
  {"poll", "conflict", "rejected", "exhausted", "expired", "refused", "supersede"}

ASSUME OutboxAssumption ==
  /\ AppendSafe \subseteq Events
  /\ FinishLoop \in Loops
  /\ None \notin Events \cup Loops
  /\ Possible \subseteq Mishaps
  /\ MaxOutages \in Nat /\ MaxReloads \in Nat

Coordinator == INSTANCE DeliveryPromise WITH status <- verdict, Planned <- {}

Converging == {"LOCAL_PENDING", "SENDING", "ACCEPTED_PENDING_PERSISTENCE"}
CommandStatus == Converging \cup {"PERSISTED", "NEEDS_REVIEW", "FAILED_TERMINAL"}

Healers == {"poll", "finish"}
Idle == [todo |-> {}, passed |-> {}, blocked |-> FALSE, current |-> None]
NotHealing == [stage |-> "idle", listed |-> [e \in Events |-> "absent"], seen |-> {}]

\* A loop that has nothing left to send is over.
Remaining(loop) == IF loop.current = None /\ loop.todo = {} THEN Idle ELSE loop

Busy(l) == loops[l].current # None \/ loops[l].todo # {}
Recorded == { e \in Events : ordinal[e] > 0 }

\* updateCommandStatus: a row that has been deleted stays deleted.
Marked(e, status) ==
  IF outbox[e] = "absent" THEN outbox ELSE [outbox EXCEPT ![e] = status]

Retryable == { e \in Events : outbox[e] = "LOCAL_PENDING" }

-----------------------------------------------------------------------------
(* Recording and sending *)

\* A new command is durable on the device, then sent at once by itself.
Record(e) ==
  /\ open
  /\ e \notin Recorded
  /\ counter' = counter + 1
  /\ ordinal' = [ordinal EXCEPT ![e] = counter + 1]
  /\ outbox' = [outbox EXCEPT ![e] = "LOCAL_PENDING"]
  /\ \E l \in Loops \ {FinishLoop} :
       /\ ~ Busy(l)
       /\ loops' = [loops EXCEPT ![l] = [Idle EXCEPT !.todo = {e}]]
  /\ UNCHANGED << dismissed, healing, finish, open, networkVars, serverVars, boundVars >>

\* Reconnects, broadcasts, the page becoming visible: each starts a loop over
\* the commands that are retryable at this moment.
StartSync(l) ==
  /\ open
  /\ l # FinishLoop /\ ~ Busy(l)
  /\ Retryable # {}
  /\ loops' = [loops EXCEPT ![l] = [Idle EXCEPT !.todo = Retryable]]
  /\ UNCHANGED << deviceVars, healing, finish, open, networkVars, serverVars, boundVars >>

\* The loop goes on, in order, with what it read at its start; behind a command
\* that did not get through only append-safe ones are sent.
SendNext(l) ==
  /\ loops[l].current = None
  /\ \E e \in loops[l].todo :
       LET rest == [loops[l] EXCEPT !.todo = @ \ {e}, !.passed = @ \cup {e}]
       IN /\ \A d \in loops[l].todo : ordinal[e] <= ordinal[d]
          /\ \/ /\ loops[l].blocked /\ e \notin AppendSafe
                /\ loops' = [loops EXCEPT ![l] = Remaining(rest)]
                /\ UNCHANGED << outbox, sent >>
             \/ /\ ~ loops[l].blocked \/ e \in AppendSafe
                /\ link = "up"
                /\ outbox' = Marked(e, "SENDING")
                /\ loops' = [loops EXCEPT ![l] = [rest EXCEPT !.current = e]]
                /\ sent' = Append(sent, [loop |-> l, id |-> e])
             \/ /\ ~ loops[l].blocked \/ e \in AppendSafe
                /\ link # "up"
                /\ outbox' = Marked(e, "LOCAL_PENDING")
                /\ loops' = [loops EXCEPT ![l] =
                     Remaining([rest EXCEPT !.blocked = @ \/ e \notin AppendSafe])]
                /\ UNCHANGED sent
  /\ UNCHANGED << dismissed, ordinal, counter, healing, finish, open, link, strays,
                  attempts, wire, serverVars, boundVars >>

\* Faulty variant: accepted by the coordinator is taken for persisted.
StatusAfterOptimistic(answer) ==
  CASE answer \in {"pending", "persisted"} -> "PERSISTED"
    [] answer = "failed_terminal" -> "FAILED_TERMINAL"
    [] answer = "conflict"        -> "NEEDS_REVIEW"
    [] OTHER                      -> "LOCAL_PENDING"

\* What attemptSend makes of an answer, and the listener of a broadcast.
StatusAfter(answer) ==
  CASE answer = "persisted"       -> "PERSISTED"
    [] answer = "pending"         -> "ACCEPTED_PENDING_PERSISTENCE"
    [] answer = "failed_terminal" -> "FAILED_TERMINAL"
    [] answer = "conflict"        -> "NEEDS_REVIEW"
    [] OTHER                      -> "LOCAL_PENDING"

\* Faulty variant: only a conflict holds up the loop, a lost answer does not.
AfterAnswerErrorIsSent(loop, answer) ==
  Remaining([loop EXCEPT !.current = None,
                         !.blocked = @ \/ (/\ answer = "conflict"
                                           /\ loop.current \notin AppendSafe)])

\* attemptSend returns false, and holds up its loop, only without a result.
AfterAnswer(loop, answer) ==
  Remaining([loop EXCEPT !.current = None,
                         !.blocked = @ \/ (/\ answer \in {"conflict", "error"}
                                           /\ loop.current \notin AppendSafe)])

Deliver ==
  /\ wire # << >>
  /\ wire' = Tail(wire)
  /\ LET m == Head(wire)
     IN /\ outbox' = Marked(m.id, StatusAfter(m.answer))
        /\ loops' = IF m.loop = None THEN loops
                    ELSE [loops EXCEPT ![m.loop] = AfterAnswer(@, m.answer)]
  /\ UNCHANGED << dismissed, ordinal, counter, healing, finish, open, link, sent, strays,
                  attempts, serverVars, boundVars >>

\* The coach settles a conflict or acknowledges a rejection.
Dismiss(e) ==
  /\ outbox[e] = "NEEDS_REVIEW" \/ (outbox[e] = "FAILED_TERMINAL" /\ e \notin dismissed)
  /\ outbox' = [outbox EXCEPT ![e] = "FAILED_TERMINAL"]
  /\ dismissed' = dismissed \cup {e}
  /\ UNCHANGED << ordinal, counter, handlerVars, networkVars, serverVars, boundVars >>

-----------------------------------------------------------------------------
(* Healing against the canonical events *)

Unsettled == \E e \in Events : outbox[e] \in Converging

\* The outbox is read; with nothing converging the read is the result.
ListOutbox(h) ==
  /\ healing[h].stage = "idle"
  /\ \/ h = "poll" /\ h \in Possible /\ open /\ Unsettled
     \/ h = "finish" /\ finish = "syncing" /\ ~ Busy(FinishLoop)
  /\ healing' = [healing EXCEPT ![h] =
       [stage |-> IF Unsettled THEN "listed" ELSE "done", listed |-> outbox, seen |-> {}]]
  /\ UNCHANGED << deviceVars, loops, finish, open, networkVars, serverVars, boundVars >>

\* The canonical events are fetched, or the fetch fails and the read stands.
AskServer(h, reached) ==
  /\ healing[h].stage = "listed"
  /\ healing' = [healing EXCEPT ![h] =
       IF reached THEN [@ EXCEPT !.stage = "fetched", !.seen = canonical]
       ELSE IF h = "poll" THEN NotHealing
       ELSE [@ EXCEPT !.stage = "done"]]
  /\ UNCHANGED << deviceVars, loops, finish, open, networkVars, serverVars, boundVars >>

\* Faulty variant: only a broadcast ever settles a command.
HealedNever(h) == healing[h].listed

\* A converging command with a row is persisted; one without is to be sent again.
Healed(h) ==
  [e \in Events |->
    IF healing[h].listed[e] \notin Converging THEN healing[h].listed[e]
    ELSE IF e \in healing[h].seen THEN "PERSISTED" ELSE "LOCAL_PENDING"]

\* Only changed statuses are written, over whatever the rows hold by now.
ApplyHealing(h) ==
  /\ healing[h].stage = "fetched"
  /\ outbox' = [e \in Events |->
       IF Healed(h)[e] = healing[h].listed[e] \/ outbox[e] = "absent"
       THEN outbox[e] ELSE Healed(h)[e]]
  /\ healing' = [healing EXCEPT ![h] =
       IF h = "poll" THEN NotHealing
       ELSE [stage |-> "done", listed |-> Healed(h), seen |-> {}]]
  /\ UNCHANGED << dismissed, ordinal, counter, loops, finish, open, networkVars,
                  serverVars, boundVars >>

-----------------------------------------------------------------------------
(* Finishing the session *)

PressFinish ==
  /\ open /\ finish = "no"
  /\ finish' = "syncing"
  /\ loops' = [loops EXCEPT ![FinishLoop] = [Idle EXCEPT !.todo = Retryable]]
  /\ UNCHANGED << deviceVars, healing, open, networkVars, serverVars, boundVars >>

\* handleEndSession refuses while the healed reading has a converging command.
DecideFinish ==
  /\ healing["finish"].stage = "done" /\ finish = "syncing"
  /\ IF \E e \in Events : healing["finish"].listed[e] \in Converging
     THEN finish' = "no" /\ healing' = [healing EXCEPT !["finish"] = NotHealing]
     ELSE finish' = "ending" /\ UNCHANGED healing
  /\ UNCHANGED << deviceVars, loops, open, networkVars, serverVars, boundVars >>

\* Faulty variant: what arrived on the old socket is still handled.
SocketLostStillHeard ==
  /\ UNCHANGED wire
  /\ sent' = << >>
  /\ strays' = strays \cup { sent[n].id : n \in DOMAIN sent }
  /\ attempts' = { [a EXCEPT !.loop = None] : a \in attempts }

\* Nobody hears what becomes of the calls made so far; they may still arrive.
SocketLost ==
  /\ wire' = << >>
  /\ sent' = << >>
  /\ strays' = strays \cup { sent[n].id : n \in DOMAIN sent }
  /\ attempts' = { [a EXCEPT !.loop = None] : a \in attempts }

\* realtime.disconnect: the client is thrown away with its pending calls, whose
\* callers never hear of them again.
DropClient ==
  /\ link' = "down"
  /\ SocketLost
  /\ loops' = [l \in Loops |-> IF loops[l].current # None THEN Idle ELSE loops[l]]

\* Rows are deleted only if the healed reading leaves nothing for the coach.
FinishSucceeds ==
  /\ finish = "ending"
  /\ DropClient
  /\ open' = FALSE
  /\ LET listed == healing["finish"].listed
         unresolved == { e \in Events : \/ listed[e] = "NEEDS_REVIEW"
                                        \/ listed[e] = "FAILED_TERMINAL" /\ e \notin dismissed }
     IN IF unresolved = {}
        THEN /\ finish' = "clearing"
             /\ healing' = [healing EXCEPT !["finish"].listed = outbox]
        ELSE /\ finish' = "finished"
             /\ healing' = [healing EXCEPT !["finish"] = NotHealing]
  /\ UNCHANGED << deviceVars, serverVars, boundVars >>

FinishFails ==
  /\ "refused" \in Possible
  /\ finish = "ending"
  /\ DropClient
  /\ finish' = "no"
  /\ healing' = [healing EXCEPT !["finish"] = NotHealing]
  /\ UNCHANGED << deviceVars, open, serverVars, boundVars >>

\* Faulty variant: every row of the match is deleted.
ClearEverything ==
  /\ finish = "clearing"
  /\ outbox' = [e \in Events |-> "absent"]
  /\ finish' = "finished"
  /\ healing' = [healing EXCEPT !["finish"] = NotHealing]
  /\ UNCHANGED << dismissed, ordinal, counter, loops, open, networkVars, serverVars,
                  boundVars >>

\* clearPersistedCommands deletes the rows its own reading found persisted.
ClearPersisted ==
  /\ finish = "clearing"
  /\ outbox' = [e \in Events |->
       IF healing["finish"].listed[e] = "PERSISTED" THEN "absent" ELSE outbox[e]]
  /\ finish' = "finished"
  /\ healing' = [healing EXCEPT !["finish"] = NotHealing]
  /\ UNCHANGED << dismissed, ordinal, counter, loops, open, networkVars, serverVars,
                  boundVars >>

-----------------------------------------------------------------------------
(* The connection *)

Connect ==
  /\ link = "retrying"
  /\ link' = "up"
  /\ UNCHANGED << deviceVars, handlerVars, sent, strays, attempts, wire, serverVars, boundVars >>

\* A client that was thrown away is replaced only when the browser reports
\* "online" or the page becomes visible.
Revisit ==
  /\ open
  /\ link = "down"
  /\ link' = "retrying"
  /\ UNCHANGED << deviceVars, handlerVars, sent, strays, attempts, wire, serverVars, boundVars >>

\* The socket closes: every waiting caller is rejected, the backoff timer starts.
Drop ==
  /\ outages < MaxOutages
  /\ link = "up" \/ \E l \in Loops : loops[l].current # None
  /\ link' = "retrying"
  /\ SocketLost
  /\ LET waiting == { l \in Loops : loops[l].current # None }
     IN /\ loops' = [l \in Loops |-> IF l \in waiting THEN AfterAnswer(loops[l], "error")
                                     ELSE loops[l]]
        /\ outbox' = [e \in Events |->
             IF outbox[e] # "absent" /\ \E l \in waiting : loops[l].current = e
             THEN "LOCAL_PENDING" ELSE outbox[e]]
  /\ outages' = outages + 1
  /\ UNCHANGED << dismissed, ordinal, counter, healing, finish, open, serverVars, reloads >>

\* reconnectNow replaces an open socket; the old one's calls stay pending until
\* the new one closes.
Supersede ==
  /\ "supersede" \in Possible
  /\ outages < MaxOutages
  /\ open /\ link = "up"
  /\ link' = "retrying"
  /\ SocketLost
  /\ outages' = outages + 1
  /\ UNCHANGED << deviceVars, handlerVars, serverVars, reloads >>

\* The page is loaded again and demotes interrupted sends.  Of a finish request
\* on its way it learns only whether the session is still active.
Reload ==
  /\ reloads < MaxReloads
  /\ open
  /\ open' \in IF finish = "ending" THEN BOOLEAN ELSE {TRUE}
  /\ finish' = IF open' THEN "no" ELSE "finished"
  /\ loops' = [l \in Loops |-> Idle]
  /\ healing' = [h \in Healers |-> NotHealing]
  /\ link' = IF open' THEN "retrying" ELSE "down"
  /\ SocketLost
  /\ outbox' = [e \in Events |->
       IF open' /\ outbox[e] = "SENDING" THEN "LOCAL_PENDING" ELSE outbox[e]]
  /\ reloads' = reloads + 1
  /\ UNCHANGED << dismissed, ordinal, counter, serverVars, outages >>

-----------------------------------------------------------------------------
(* The coordinator, as far as a browser can tell *)

\* Faulty variant: the internal status is sent as it is.
DuplicateAnswerAsStored(e) == verdict[e]

\* A duplicate is told the outcome, but exhausted retries are told as pending.
DuplicateAnswer(e) ==
  IF verdict[e] \in {"persisted", "failed_terminal"} THEN verdict[e] ELSE "pending"

Notice(e, answer) == [loop |-> None, id |-> e, answer |-> answer]
Reply(c, answer) ==
  IF c.loop = None THEN << >> ELSE << [loop |-> c.loop, id |-> c.id, answer |-> answer] >>

Reached(messages) == wire' = IF link = "up" THEN wire \o messages ELSE wire

\* A conflict is answered without a record; an accepted command is stored and
\* its first attempt begins.
Taken(c) ==
  \/ /\ ~ ended /\ verdict[c.id] = "none"
     /\ Coordinator!Accept(c.id)
     /\ attempts' = attempts \cup {c}
     /\ UNCHANGED wire
  \/ /\ \/ ended /\ Reached(Reply(c, "error"))
        \/ /\ ~ ended /\ verdict[c.id] # "none"
           /\ Reached(Reply(c, DuplicateAnswer(c.id)))
        \/ /\ ~ ended /\ verdict[c.id] = "none"
           /\ "conflict" \in Possible /\ c.id \notin AppendSafe
           /\ Reached(Reply(c, "conflict"))
     /\ UNCHANGED << attempts, verdict, canonical >>

TakeCall ==
  /\ sent # << >>
  /\ Taken(Head(sent))
  /\ sent' = Tail(sent)
  /\ UNCHANGED << deviceVars, handlerVars, link, strays, ended, boundVars >>

TakeStray(e) ==
  /\ e \in strays
  /\ Taken([loop |-> None, id |-> e])
  /\ strays' = strays \ {e}
  /\ UNCHANGED << deviceVars, handlerVars, link, sent, ended, boundVars >>

\* The first attempt is confirmed, rejected, or left to the alarm.
FirstAttempt(c) ==
  /\ c \in attempts
  /\ attempts' = attempts \ {c}
  /\ \/ /\ Coordinator!Confirm(c.id)
        /\ Reached(<< Notice(c.id, "persisted") >> \o Reply(c, "persisted"))
     \/ /\ "rejected" \in Possible
        /\ Coordinator!Reject(c.id)
        /\ Reached(<< Notice(c.id, "failed_terminal") >> \o Reply(c, "failed_terminal"))
     \/ /\ Reached(Reply(c, "pending"))
        /\ UNCHANGED << verdict, canonical >>
  /\ UNCHANGED << deviceVars, handlerVars, link, sent, strays, ended, boundVars >>

\* The alarm decides an event whose first attempt did not.
Retry(e) ==
  /\ \A c \in attempts : c.id # e
  /\ \/ Coordinator!Confirm(e) /\ Reached(<< Notice(e, "persisted") >>)
     \/ /\ "rejected" \in Possible
        /\ Coordinator!Reject(e) /\ Reached(<< Notice(e, "failed_terminal") >>)
     \/ /\ "exhausted" \in Possible
        /\ Coordinator!GiveUp(e) /\ Reached(<< Notice(e, "failed_exhausted") >>)
  /\ UNCHANGED << deviceVars, handlerVars, link, sent, strays, attempts, ended, boundVars >>

Store(e) ==
  /\ e \notin canonical
  /\ Coordinator!Commit(e)
  /\ UNCHANGED << deviceVars, handlerVars, networkVars, ended, boundVars >>

\* The session ends without this browser: by its own alarm or another device.
Expire ==
  /\ "expired" \in Possible
  /\ ~ ended
  /\ ended' = TRUE
  /\ UNCHANGED << deviceVars, handlerVars, networkVars, verdict, canonical, boundVars >>

-----------------------------------------------------------------------------
Init ==
  /\ outbox = [e \in Events |-> "absent"]
  /\ dismissed = {}
  /\ ordinal = [e \in Events |-> 0]
  /\ counter = 0
  /\ loops = [l \in Loops |-> Idle]
  /\ healing = [h \in Healers |-> NotHealing]
  /\ finish = "no"
  /\ open = TRUE
  /\ link = "retrying"
  /\ sent = << >> /\ strays = {} /\ attempts = {}
  /\ wire = << >>
  /\ Coordinator!Init
  /\ ended = FALSE
  /\ outages = 0 /\ reloads = 0

Browser ==
  \/ \E e \in Events : Record(e) \/ Dismiss(e)
  \/ \E l \in Loops : StartSync(l) \/ SendNext(l)
  \/ \E h \in Healers : ListOutbox(h) \/ ApplyHealing(h)
  \/ \E h \in Healers, reached \in BOOLEAN : AskServer(h, reached)
  \/ Deliver
  \/ PressFinish \/ DecideFinish \/ FinishSucceeds \/ FinishFails \/ ClearPersisted

Network == Connect \/ Revisit \/ Drop \/ Supersede \/ Reload

Server ==
  \/ TakeCall
  \/ \E c \in attempts : FirstAttempt(c)
  \/ \E e \in Events : TakeStray(e) \/ Retry(e) \/ Store(e)
  \/ Expire

Next == Browser \/ Network \/ Server

Spec == Init /\ [][Next]_vars

\* Retried events are attempted until they are stored; nobody attempts the others.
StorePending(e) == verdict[e] = "pending" /\ Store(e)

Calls == [loop : Loops \cup {None}, id : Events]

\* The browser's own steps happen, a usable connection comes back, answers on a
\* working socket arrive, and the alarm retries.  The coach keeps pressing
\* finish; fetching and finishing succeed if tried again and again.  Recording,
\* new send loops and the poll are not assumed to happen.
Fairness ==
  /\ WF_vars(Connect) /\ WF_vars(Revisit) /\ WF_vars(Deliver)
  /\ \A l \in Loops : WF_vars(SendNext(l))
  /\ WF_vars(TakeCall) /\ \A c \in Calls : WF_vars(FirstAttempt(c))
  /\ \A e \in Events : WF_vars(Retry(e)) /\ WF_vars(StorePending(e))
  /\ WF_vars(PressFinish) /\ WF_vars(ListOutbox("finish"))
  /\ WF_vars(AskServer("finish", TRUE) \/ AskServer("finish", FALSE))
  /\ SF_vars(AskServer("finish", TRUE))
  /\ WF_vars(ApplyHealing("finish")) /\ WF_vars(DecideFinish)
  /\ WF_vars(FinishSucceeds \/ FinishFails) /\ SF_vars(FinishSucceeds)
  /\ WF_vars(ClearPersisted)

FairSpec == Spec /\ Fairness

-----------------------------------------------------------------------------
(* Properties *)

Replies ==
  [loop : Loops, id : Events,
   answer : {"pending", "persisted", "failed_terminal", "conflict", "error"}]
Notices ==
  [loop : {None}, id : Events, answer : {"persisted", "failed_terminal", "failed_exhausted"}]

Rows == CommandStatus \cup {"absent"}
LoopState ==
  [todo : SUBSET Events, passed : SUBSET Events, blocked : BOOLEAN,
   current : Events \cup {None}]
Reading == [stage : {"idle", "listed", "fetched", "done"}, listed : [Events -> Rows],
            seen : SUBSET Events]
Verdicts == {"none", "pending", "persisted", "failed_terminal", "failed_exhausted"}

\* The outbox, the handlers and the connection keep their shape.
TypeOK ==
  /\ outbox \in [Events -> Rows]
  /\ dismissed \subseteq Events
  /\ counter \in Nat /\ ordinal \in [Events -> 0..counter]
  /\ loops \in [Loops -> LoopState]
  /\ healing \in [Healers -> Reading]
  /\ finish \in {"no", "syncing", "ending", "clearing", "finished"}
  /\ open \in BOOLEAN /\ ended \in BOOLEAN
  /\ link \in {"up", "retrying", "down"}
  /\ sent \in Seq(Calls) /\ strays \subseteq Events /\ attempts \subseteq Calls
  /\ wire \in Seq(Replies \cup Notices)
  /\ verdict \in [Events -> Verdicts]
  /\ canonical \subseteq Events
  /\ outages \in 0..MaxOutages /\ reloads \in 0..MaxReloads

\* What the device shows as persisted is in the canonical store, although three
\* writers (answers, broadcasts, healing from an older reading) race for the row.
ConfirmedOnDeviceIsStored ==
  \A e \in Events : outbox[e] = "PERSISTED" => e \in canonical

\* A command leaves the device only when the canonical store has it; an
\* unresolved row is never deleted, whatever happened while finishing.
OnlyStoredIsDeleted ==
  \A e \in Recorded : outbox[e] = "absent" => e \in canonical

\* What is on its way back to a waiting send is for the command it sent: answers
\* of a lost socket never settle a later send.
AnswersMatchSends ==
  \A n \in DOMAIN wire :
    wire[n].loop # None => loops[wire[n].loop].current = wire[n].id

\* Within one send loop a command that may depend on earlier ones is sent only
\* after the coordinator has accepted those, however their sends came back.
LoopKeepsOrder ==
  \A l \in Loops :
    loops[l].current \in Events \ AppendSafe =>
      \A d \in loops[l].passed \ AppendSafe :
        d # loops[l].current => verdict[d] # "none"

\* A coach who keeps pressing finish ends the session.
FinishGetsThrough == open ~> ~ open

=============================================================================
