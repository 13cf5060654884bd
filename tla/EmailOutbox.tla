----------------------------- MODULE EmailOutbox -----------------------------
(***************************************************************************)
(* One entry of the notification outbox with its delivery: an invitation's *)
(* mail.  It is sent at once by the request that created it, and by every  *)
(* run of the cron until it is SENT, FAILED, CANCELLED or three days old.  *)
(* Runs overlap; revoking or declining the invitation cancels the entry;   *)
(* the provider reports what becomes of each message it accepted, at least *)
(* once, by posting events.  Any statement may throw, any process may die. *)
(*                                                                         *)
(* Limits.  Entries do not interact, so one is enough.  The provider's     *)
(* messages are numbered; nextRetryAt and the age limit are times that     *)
(* come.  The email address an event names is the delivery's.              *)
(***************************************************************************)
EXTENDS Naturals, FiniteSets

CONSTANTS Request,      \* the request that created the entry
          Crons,        \* overlapping runs of processOutboxBatch
          Posts,        \* webhook requests served at the same time
          Events,       \* events the provider reports
          Outcomes,     \* what they can say: DELIVERED, BOUNCED, OPENED...
          MaxRetries,   \* NotificationOutbox.maxRetries
          MaxMessages,  \* bound: messages the provider accepts
          MaxFaults     \* bound: processes that die

ASSUME MailAssumption ==
    /\ Request \notin Crons
    /\ Events # {}
    /\ MaxRetries \in Nat /\ MaxMessages \in Nat /\ MaxFaults \in Nat

Senders == {Request} \cup Crons

VARIABLES
    status,     \* NotificationOutbox.status
    retries,    \* retryCount
    parked,     \* nextRetryAt lies ahead
    aged,       \* the entry is older than the cron looks
    delivery,   \* NotificationDelivery: its status and providerMessageId
    spc,        \* the next step of each sender
    seen,       \* the retryCount it read
    message,    \* the message the provider gave it
    cancelling, \* the next step of the call that cancels
    messages,   \* messages the provider has accepted
    about,      \* the message an event is about, 0 before it happens
    recorded,   \* ProviderWebhookEvent rows
    ppc,        \* the next step of each post, and its event
    faults,
    risk,       \* ghost: something has happened that may send a mail twice
    applied     \* ghost: how often an event was applied

entryVars  == <<status, retries, parked, aged, delivery>>
senderVars == <<spc, seen, message>>
hookVars   == <<about, recorded, ppc, applied>>
vars == <<entryVars, senderVars, cancelling, messages, hookVars, faults, risk>>

Queued   == {"PENDING", "PROCESSING"}
NoPost   == [step |-> "idle", event |-> CHOOSE e \in Events : TRUE]

\* enqueueNotification has committed with the invitation.
Init ==
    /\ status = "PENDING" /\ retries = 0 /\ parked = FALSE /\ aged = FALSE
    /\ delivery = [status |-> "QUEUED", message |-> 0]
    /\ spc = [s \in Senders |-> "idle"]
    /\ seen = [s \in Senders |-> 0]
    /\ message = [s \in Senders |-> 0]
    /\ cancelling = "idle"
    /\ messages = 0
    /\ about = [e \in Events |-> 0]
    /\ recorded = {}
    /\ ppc = [p \in Posts |-> NoPost]
    /\ faults = 0 /\ risk = FALSE /\ applied = [e \in Events |-> 0]

-----------------------------------------------------------------------------
(* Time.                                                                   *)

RetryTimeComes ==
    /\ parked
    /\ parked' = FALSE
    /\ UNCHANGED <<status, retries, aged, delivery, senderVars, cancelling, messages, hookVars,
                   faults, risk>>

\* Age matters to an entry that is queued.
Age ==
    /\ ~aged /\ status \in Queued
    /\ aged' = TRUE
    /\ UNCHANGED <<status, retries, parked, delivery, senderVars, cancelling, messages, hookVars,
                   faults, risk>>

-----------------------------------------------------------------------------
(* Senders: sendNotificationNow and processOutboxBatch.                    *)

At(s, step) == spc' = [spc EXCEPT ![s] = step]

Over(s, step) ==
    /\ At(s, step)
    /\ seen' = [seen EXCEPT ![s] = 0]
    /\ message' = [message EXCEPT ![s] = 0]

Risk(happened) == risk' = (risk \/ happened)

\* Between the reading of the entry and the last update of it.
Working(s) == spc[s] \notin {"idle", "done"}

DueOrSent == status \in Queued \cup {"SENT"} /\ ~aged /\ ~parked

\* The rows a cron selects.
Due == status \in Queued /\ ~aged /\ ~parked

\* The entry is read once; another sender may be at it.
Pick(s) ==
    /\ spc[s] = "idle"
    /\ IF s = Request THEN status \in Queued ELSE Due
    /\ seen' = [seen EXCEPT ![s] = retries]
    /\ At(s, IF s # Request /\ retries >= MaxRetries THEN "giveup" ELSE "mark")
    /\ Risk(\E o \in Senders : Working(o))
    /\ UNCHANGED <<entryVars, message, cancelling, messages, hookVars, faults>>

\* The request finds an entry that is over, and sends nothing.
PassBy ==
    /\ spc[Request] = "idle"
    /\ status \notin Queued
    /\ Over(Request, "done")
    /\ UNCHANGED <<entryVars, cancelling, messages, hookVars, faults, risk>>

Rest(s) == IF s = Request THEN "done" ELSE "idle"

\* Every update goes by the entry's id, whatever its status has become.
GiveUp(s) ==
    /\ spc[s] = "giveup"
    /\ status' = "FAILED"
    /\ Over(s, Rest(s))
    /\ UNCHANGED <<retries, parked, aged, delivery, cancelling, messages, hookVars, faults, risk>>

Mark(s) ==
    /\ spc[s] = "mark"
    /\ status' = "PROCESSING"
    /\ At(s, "send")
    /\ UNCHANGED <<retries, parked, aged, delivery, seen, message, cancelling, messages, hookVars,
                   faults, risk>>

\* The provider accepts, refuses, or accepts and the answer is lost.
Send(s) ==
    /\ spc[s] = "send"
    /\ \/ /\ messages < MaxMessages
          /\ messages' = messages + 1
          /\ message' = [message EXCEPT ![s] = messages']
          /\ \/ At(s, "sent") /\ UNCHANGED risk
             \/ At(s, "retry") /\ Risk(TRUE)
       \/ At(s, "retry") /\ UNCHANGED <<messages, message, risk>>
    /\ UNCHANGED <<entryVars, seen, cancelling, hookVars, faults>>

MarkSent(s) ==
    /\ spc[s] = "sent"
    /\ status' = "SENT"
    /\ At(s, "deliver")
    /\ UNCHANGED <<retries, parked, aged, delivery, seen, message, cancelling, messages, hookVars,
                   faults, risk>>

\* The delivery learns the message's number.
MarkDelivery(s) ==
    /\ spc[s] = "deliver"
    /\ delivery' = [status |-> "SENT", message |-> message[s]]
    /\ Over(s, Rest(s))
    /\ UNCHANGED <<status, retries, parked, aged, cancelling, messages, hookVars, faults, risk>>

\* A statement after the send throws: the catch treats it as a failed send.
Throw(s) ==
    /\ spc[s] \in {"sent", "deliver"}
    /\ At(s, "retry")
    /\ Risk(TRUE)
    /\ UNCHANGED <<entryVars, seen, message, cancelling, messages, hookVars, faults>>

RetryUncounted(s) ==
    /\ spc[s] = "retry"
    /\ status' = "PENDING" /\ parked' = TRUE
    /\ Over(s, Rest(s))
    /\ UNCHANGED <<retries, aged, delivery, cancelling, messages, hookVars, faults, risk>>

\* Later again, with one more than the count that was read.
Retry(s) ==
    /\ spc[s] = "retry"
    /\ status' = "PENDING" /\ retries' = seen[s] + 1 /\ parked' = TRUE
    /\ Over(s, Rest(s))
    /\ UNCHANGED <<aged, delivery, cancelling, messages, hookVars, faults, risk>>

\* The process dies, or a statement throws where nothing catches.
Die(s) ==
    /\ Working(s)
    /\ faults < MaxFaults
    /\ faults' = faults + 1
    /\ Risk(message[s] # 0)
    /\ Over(s, Rest(s))
    /\ UNCHANGED <<entryVars, cancelling, messages, hookVars>>

SenderStep(s) ==
    \/ Pick(s) \/ GiveUp(s) \/ Mark(s) \/ Send(s) \/ MarkSent(s) \/ MarkDelivery(s) \/ Retry(s)

-----------------------------------------------------------------------------
(* cancelNotificationByIdempotencyKey.                                     *)

ReadToCancel ==
    /\ cancelling = "idle"
    /\ cancelling' = IF status = "SENT" THEN "done" ELSE "write"
    /\ UNCHANGED <<entryVars, senderVars, messages, hookVars, faults, risk>>

WriteCancelled ==
    /\ cancelling = "write"
    /\ status' = "CANCELLED"
    /\ cancelling' = "done"
    /\ UNCHANGED <<retries, parked, aged, delivery, senderVars, messages, hookVars, faults, risk>>

-----------------------------------------------------------------------------
(* The provider and processBrevoWebhookEvents.                             *)

\* Something happens to an accepted message; the provider will report it.
Happen(e) ==
    /\ about[e] = 0
    /\ \E k \in 1..messages : about' = [about EXCEPT ![e] = k]
    /\ UNCHANGED <<entryVars, senderVars, cancelling, messages, recorded, ppc, applied, faults,
                   risk>>

HooksOnly == UNCHANGED <<senderVars, cancelling, messages, about, faults, risk>>

PostAt(p, step) == ppc' = [ppc EXCEPT ![p].step = step]
Answer(p) == ppc' = [ppc EXCEPT ![p] = NoPost]

\* An event is posted, for the first time or again.
Post(p, e) ==
    /\ ppc[p].step = "idle"
    /\ about[e] # 0
    /\ ppc' = [ppc EXCEPT ![p] = [step |-> "look", event |-> e]]
    /\ UNCHANGED <<entryVars, recorded, applied>> /\ HooksOnly

\* An event that has a row is skipped.
Look(p) ==
    /\ ppc[p].step = "look"
    /\ IF ppc[p].event \in recorded THEN Answer(p) ELSE PostAt(p, "record")
    /\ UNCHANGED <<entryVars, recorded, applied>> /\ HooksOnly

RecordAnyway(p) ==
    /\ ppc[p].step = "record"
    /\ recorded' = recorded \cup {ppc[p].event}
    /\ PostAt(p, "match")
    /\ UNCHANGED <<entryVars, applied>> /\ HooksOnly

\* The unique index on eventId refuses a second row, and the post fails.
Record(p) ==
    /\ ppc[p].step = "record"
    /\ IF ppc[p].event \in recorded
       THEN Answer(p) /\ UNCHANGED recorded
       ELSE recorded' = recorded \cup {ppc[p].event} /\ PostAt(p, "match")
    /\ UNCHANGED <<entryVars, applied>> /\ HooksOnly

\* The delivery that names the message, if there is one by now.
Match(p) ==
    /\ ppc[p].step = "match"
    /\ IF delivery.message = about[ppc[p].event] THEN PostAt(p, "apply") ELSE Answer(p)
    /\ UNCHANGED <<entryVars, recorded, applied>> /\ HooksOnly

\* Its status becomes what the event says, whatever it was.
Apply(p) ==
    /\ ppc[p].step = "apply"
    /\ \E o \in Outcomes : delivery' = [delivery EXCEPT !.status = o]
    /\ applied' = [applied EXCEPT ![ppc[p].event] = @ + 1]
    /\ Answer(p)
    /\ UNCHANGED <<status, retries, parked, aged, recorded>> /\ HooksOnly

\* The post dies; the provider will post the event again.
LosePost(p) ==
    /\ ppc[p].step # "idle"
    /\ Answer(p)
    /\ UNCHANGED <<entryVars, recorded, applied>> /\ HooksOnly

-----------------------------------------------------------------------------
Next ==
    \/ RetryTimeComes \/ Age \/ PassBy \/ ReadToCancel \/ WriteCancelled
    \/ \E s \in Senders : SenderStep(s) \/ Throw(s) \/ Die(s)
    \/ \E e \in Events : Happen(e) \/ \E p \in Posts : Post(p, e)
    \/ \E p \in Posts : Look(p) \/ Record(p) \/ Match(p) \/ Apply(p) \/ LosePost(p)

\* The cron comes back and a call goes on; retry times come.
Fairness ==
    /\ WF_vars(RetryTimeComes)
    /\ \A s \in Senders : WF_vars(SenderStep(s))

Spec == Init /\ [][Next]_vars /\ Fairness

-----------------------------------------------------------------------------
(* Properties.                                                             *)

\* The variables have their types.
TypeOK ==
    /\ status \in Queued \cup {"SENT", "FAILED", "CANCELLED"}
    /\ retries \in Nat /\ parked \in BOOLEAN /\ aged \in BOOLEAN
    /\ delivery \in [status : {"QUEUED", "SENT"} \cup Outcomes, message : Nat]
    /\ spc \in [Senders -> {"idle", "done", "giveup", "mark", "send", "sent", "deliver", "retry"}]
    /\ seen \in [Senders -> Nat] /\ message \in [Senders -> Nat]
    /\ cancelling \in {"idle", "write", "done"}
    /\ messages \in Nat /\ faults \in Nat
    /\ about \in [Events -> Nat] /\ recorded \subseteq Events
    /\ ppc \in [Posts -> [step : {"idle", "look", "record", "match", "apply"}, event : Events]]
    /\ risk \in BOOLEAN
    /\ applied \in [Events -> Nat]

\* However often retries run, the mail goes out once ("No duplicate notifications from retries"),
\* but for four things: two senders at the same entry, an answer of the provider that is lost, a
\* statement after the send that throws, a process that dies after the send.
SentOnce == messages > 1 => risk

\* An event that the provider posts again, or twice at the same time, is applied at most once,
\* though the row that remembers it is looked for before it is written ("Idempotent by event ID").
EventAppliedOnce == \A e \in Events : applied[e] <= 1

\* Retries end: an entry is SENT, FAILED, CANCELLED or too old one day, though overlapping senders
\* write counts they read before and may put an entry that is over back in the queue.
MailConcludes == status \in Queued ~> status \notin Queued \/ aged

=============================================================================
