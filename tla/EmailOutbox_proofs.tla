-------------------------- MODULE EmailOutbox_proofs --------------------------
(***************************************************************************)
(* Proofs about EmailOutbox: the types, that a mail goes out once but for  *)
(* the four named causes, that an event is applied once, that retries      *)
(* exceed their ceiling by one at most, and that what is recorded as sent  *)
(* was accepted.                                                           *)
(***************************************************************************)
EXTENDS EmailOutbox, TLAPS

-----------------------------------------------------------------------------
(* Types.                                                                  *)

LEMMA NoPostType == NoPost \in [step : {"idle", "look", "record", "match", "apply"}, event : Events]
<1>1. (CHOOSE e \in Events : TRUE) \in Events
  BY MailAssumption
<1> QED
  BY <1>1 DEF NoPost

LEMMA InitType == Init => TypeOK
<1> SUFFICES ASSUME Init PROVE TypeOK
  OBVIOUS
<1>1. ppc \in [Posts -> [step : {"idle", "look", "record", "match", "apply"}, event : Events]]
  BY NoPostType DEF Init
<1>2. spc \in [Senders -> {"idle", "done", "giveup", "mark", "send", "sent", "deliver", "retry"}]
  BY DEF Init
<1>3. delivery \in [status : {"QUEUED", "SENT"} \cup Outcomes, message : Nat]
  BY DEF Init
<1>4. /\ seen \in [Senders -> Nat] /\ message \in [Senders -> Nat]
      /\ about \in [Events -> Nat] /\ applied \in [Events -> Nat]
  BY DEF Init
<1> QED
  BY <1>1, <1>2, <1>3, <1>4 DEF Init, TypeOK, Queued

\* What a sender does keeps the types.
LEMMA SenderType ==
  ASSUME TypeOK, NEW s \in Senders, SenderStep(s) \/ Throw(s) \/ Die(s)
  PROVE  TypeOK'
<1> USE MailAssumption DEF TypeOK, Queued
<1>1. CASE Pick(s)
  <2>1. spc' \in [Senders -> {"idle", "done", "giveup", "mark", "send", "sent", "deliver", "retry"}]
    BY <1>1 DEF Pick, At
  <2>2. seen' \in [Senders -> Nat]
    BY <1>1 DEF Pick
  <2>3. risk' \in BOOLEAN
    BY <1>1 DEF Pick, Risk
  <2> QED
    BY <1>1, <2>1, <2>2, <2>3 DEF Pick, entryVars, hookVars
<1>2. CASE GiveUp(s)
  BY <1>2 DEF GiveUp, Over, At, Rest, hookVars
<1>3. CASE Mark(s)
  BY <1>3 DEF Mark, At, hookVars
<1>4. CASE Send(s)
  <2>1. spc' \in [Senders -> {"idle", "done", "giveup", "mark", "send", "sent", "deliver", "retry"}]
    BY <1>4 DEF Send, At
  <2>2. messages' \in Nat /\ message' \in [Senders -> Nat]
    <3>1. CASE messages' = messages + 1 /\ message' = [message EXCEPT ![s] = messages']
      <4>1. messages' \in Nat
        BY <3>1
      <4> QED
        BY <3>1, <4>1
    <3> QED
      BY <1>4, <3>1 DEF Send
  <2>3. risk' \in BOOLEAN
    BY <1>4 DEF Send, Risk
  <2> QED
    BY <1>4, <2>1, <2>2, <2>3 DEF Send, entryVars, hookVars
<1>5. CASE MarkSent(s)
  BY <1>5 DEF MarkSent, At, hookVars
<1>6. CASE MarkDelivery(s)
  BY <1>6 DEF MarkDelivery, Over, At, Rest, hookVars
<1>7. CASE Retry(s)
  BY <1>7 DEF Retry, Over, At, Rest, hookVars
<1>8. CASE Throw(s)
  BY <1>8 DEF Throw, At, Risk, entryVars, hookVars
<1>9. CASE Die(s)
  <2>1. spc' \in [Senders -> {"idle", "done", "giveup", "mark", "send", "sent", "deliver", "retry"}]
    BY <1>9 DEF Die, Over, At, Rest
  <2>2. seen' \in [Senders -> Nat] /\ message' \in [Senders -> Nat]
    BY <1>9 DEF Die, Over
  <2>3. risk' \in BOOLEAN
    BY <1>9 DEF Die, Risk
  <2> QED
    BY <1>9, <2>1, <2>2, <2>3 DEF Die, entryVars, hookVars
<1> QED
  BY <1>1, <1>2, <1>3, <1>4, <1>5, <1>6, <1>7, <1>8, <1>9 DEF SenderStep

\* What a post does keeps the types.
LEMMA PostType ==
  ASSUME TypeOK, NEW p \in Posts,
         (\E e \in Events : Post(p, e)) \/ Look(p) \/ Record(p) \/ Match(p) \/ Apply(p) \/ LosePost(p)
  PROVE  TypeOK'
<1> USE MailAssumption DEF TypeOK, Queued, PostAt, Answer, HooksOnly, entryVars, senderVars
<1>1. ASSUME NEW e \in Events, Post(p, e) PROVE TypeOK'
  BY <1>1 DEF Post
<1>2. CASE Look(p)
  BY <1>2, NoPostType DEF Look
<1>3. CASE Record(p)
  BY <1>3, NoPostType DEF Record
<1>4. CASE Match(p)
  BY <1>4, NoPostType DEF Match
<1>5. CASE Apply(p)
  BY <1>5, NoPostType DEF Apply
<1>6. CASE LosePost(p)
  BY <1>6, NoPostType DEF LosePost
<1> QED
  BY <1>1, <1>2, <1>3, <1>4, <1>5, <1>6

\* Time, the request that passes by, cancelling and the provider keep the types.
LEMMA RestType ==
  ASSUME TypeOK,
         \/ RetryTimeComes \/ Age \/ PassBy \/ ReadToCancel \/ WriteCancelled
         \/ \E e \in Events : Happen(e)
  PROVE  TypeOK'
<1> USE MailAssumption DEF TypeOK, Queued, entryVars, senderVars, hookVars
<1>1. CASE RetryTimeComes
  BY <1>1 DEF RetryTimeComes
<1>2. CASE Age
  BY <1>2 DEF Age
<1>3. CASE PassBy
  BY <1>3 DEF PassBy, Over, At, Senders
<1>4. CASE ReadToCancel
  BY <1>4 DEF ReadToCancel
<1>5. CASE WriteCancelled
  BY <1>5 DEF WriteCancelled
<1>6. ASSUME NEW e \in Events, Happen(e) PROVE TypeOK'
  BY <1>6 DEF Happen
<1> QED
  BY <1>1, <1>2, <1>3, <1>4, <1>5, <1>6

LEMMA TypeStep == TypeOK /\ [Next]_vars => TypeOK'
<1> SUFFICES ASSUME TypeOK, [Next]_vars PROVE TypeOK'
  OBVIOUS
<1>1. CASE UNCHANGED vars
  BY <1>1 DEF TypeOK, Queued, vars, entryVars, senderVars, hookVars
<1>2. CASE Next
  BY <1>2, SenderType, PostType, RestType DEF Next
<1> QED
  BY <1>1, <1>2

\* The variables have their types in every state of every behaviour.
THEOREM TypeCorrect == Spec => []TypeOK
BY InitType, TypeStep, PTL DEF Spec

-----------------------------------------------------------------------------
(* One mail.  As long as nothing risky has happened, one sender at most is *)
(* at the entry, and once a message has been accepted nobody is on the way *)
(* to sending another: a queued entry is then only the one the sender that *)
(* got the message is about to mark.                                       *)

Numbered == \A s \in Senders : spc[s] \in {"sent", "deliver"} => message[s] # 0

OneSender == ~risk => \A s, o \in Senders : Working(s) /\ Working(o) => s = o

OneMessage ==
    ~risk /\ messages > 0 =>
        /\ messages = 1
        /\ \A s \in Senders : spc[s] \notin {"giveup", "mark", "send", "retry"}
        /\ status \in Queued => \E s \in Senders : spc[s] = "sent"

MailInv == TypeOK /\ Numbered /\ OneSender /\ OneMessage

LEMMA InitMail == Init => MailInv
BY InitType, MailAssumption DEF Init, MailInv, Numbered, OneSender, OneMessage, Working

LEMMA SenderMail ==
  ASSUME MailInv, NEW s \in Senders, SenderStep(s) \/ Throw(s) \/ Die(s)
  PROVE  Numbered' /\ OneSender' /\ OneMessage'
<1> USE DEF MailInv, TypeOK, Numbered, OneSender, OneMessage, Working, Queued
<1>1. CASE Pick(s)
  BY <1>1 DEF Pick, At, Risk, entryVars, hookVars, Due
<1>2. CASE GiveUp(s)
  BY <1>2 DEF GiveUp, Over, At, Rest, hookVars
<1>3. CASE Mark(s)
  BY <1>3 DEF Mark, At, hookVars
<1>4. CASE Send(s)
  <2>1. CASE messages' = messages + 1 /\ spc' = [spc EXCEPT ![s] = "sent"]
    BY <1>4, <2>1 DEF Send, At, Risk, entryVars, hookVars
  <2>2. CASE risk'
    <3>1. \A o \in Senders : spc'[o] \in {"sent", "deliver"} => message'[o] # 0
      <4>1. CASE /\ messages' = messages + 1 /\ message' = [message EXCEPT ![s] = messages']
                 /\ At(s, "sent") \/ At(s, "retry")
        <5>1. messages' # 0
          BY <4>1
        <5> QED
          BY <4>1, <5>1 DEF At
      <4>2. CASE At(s, "retry") /\ UNCHANGED message
        BY <4>2 DEF At
      <4> QED
        BY <1>4, <4>1, <4>2 DEF Send
    <3> QED
      BY <2>2, <3>1
  <2>3. CASE messages' = messages /\ spc' = [spc EXCEPT ![s] = "retry"] /\ risk' = risk
    BY <1>4, <2>3 DEF Send, At, Risk, entryVars, hookVars
  <2> QED
    BY <1>4, <2>1, <2>2, <2>3 DEF Send, At, Risk
<1>5. CASE MarkSent(s)
  BY <1>5 DEF MarkSent, At, hookVars
<1>6. CASE MarkDelivery(s)
  BY <1>6 DEF MarkDelivery, Over, At, Rest, hookVars
<1>7. CASE Retry(s)
  BY <1>7 DEF Retry, Over, At, Rest, hookVars
<1>8. CASE Throw(s)
  BY <1>8 DEF Throw, At, Risk, entryVars, hookVars
<1>9. CASE Die(s)
  <2>1. Numbered'
    BY <1>9 DEF Die, Over, At, Rest
  <2>2. CASE risk'
    BY <2>1, <2>2
  <2>3. CASE ~risk'
    <3>1. ~risk /\ message[s] = 0 /\ messages' = messages /\ status' = status
      BY <1>9, <2>3 DEF Die, Risk, entryVars
    <3>2. spc' = [spc EXCEPT ![s] = "idle"] \/ spc' = [spc EXCEPT ![s] = "done"]
      BY <1>9 DEF Die, Over, At, Rest
    <3>3. spc[s] # "sent"
      BY <3>1
    <3> QED
      BY <2>1, <3>1, <3>2, <3>3
  <2> QED
    BY <2>2, <2>3
<1> QED
  BY <1>1, <1>2, <1>3, <1>4, <1>5, <1>6, <1>7, <1>8, <1>9 DEF SenderStep

LEMMA PostMail ==
  ASSUME MailInv, NEW p \in Posts,
         (\E e \in Events : Post(p, e)) \/ Look(p) \/ Record(p) \/ Match(p) \/ Apply(p) \/ LosePost(p)
  PROVE  Numbered' /\ OneSender' /\ OneMessage'
<1>1. UNCHANGED <<spc, message, messages, risk, status>>
  BY DEF Post, Look, Record, Match, Apply, LosePost, HooksOnly, entryVars, senderVars
<1> QED
  BY <1>1 DEF MailInv, Numbered, OneSender, OneMessage, Working

LEMMA RestMail ==
  ASSUME MailInv,
         \/ RetryTimeComes \/ Age \/ PassBy \/ ReadToCancel \/ WriteCancelled
         \/ \E e \in Events : Happen(e)
  PROVE  Numbered' /\ OneSender' /\ OneMessage'
<1> USE DEF MailInv, TypeOK, Numbered, OneSender, OneMessage, Working, Queued
<1>1. CASE PassBy
  BY <1>1 DEF PassBy, Over, At, Senders, entryVars, hookVars
<1>2. CASE WriteCancelled
  BY <1>2 DEF WriteCancelled, senderVars, hookVars
<1>3. CASE RetryTimeComes \/ Age \/ ReadToCancel \/ \E e \in Events : Happen(e)
  <2>1. UNCHANGED <<spc, message, messages, risk, status>>
    BY <1>3 DEF RetryTimeComes, Age, ReadToCancel, Happen, entryVars, senderVars
  <2> QED
    BY <2>1
<1> QED
  BY <1>1, <1>2, <1>3

LEMMA MailStep == MailInv /\ [Next]_vars => MailInv'
<1> SUFFICES ASSUME MailInv, [Next]_vars PROVE MailInv'
  OBVIOUS
<1>1. TypeOK'
  BY TypeStep DEF MailInv
<1>2. CASE UNCHANGED vars
  BY <1>1, <1>2 DEF MailInv, Numbered, OneSender, OneMessage, Working,
                    vars, entryVars, senderVars, hookVars
<1>3. CASE Next
  BY <1>1, <1>3, SenderMail, PostMail, RestMail DEF Next, MailInv
<1> QED
  BY <1>2, <1>3

\* However often retries run, the mail goes out once, but for the four causes that set risk.
THEOREM MailSentOnce == Spec => []SentOnce
<1>1. MailInv => SentOnce
  BY DEF MailInv, TypeOK, OneMessage, SentOnce
<1> QED
  BY <1>1, InitMail, MailStep, PTL DEF Spec

-----------------------------------------------------------------------------
(* One application of an event.  The row is the lock: only the post that   *)
(* wrote it goes on to match and apply.                                    *)

Holds(p, e) == ppc[p].step \in {"match", "apply"} /\ ppc[p].event = e

RowBehind ==
    \A e \in Events : applied[e] # 0 \/ (\E p \in Posts : Holds(p, e)) => e \in recorded

OneHolder == \A e \in Events : \A p, q \in Posts : Holds(p, e) /\ Holds(q, e) => p = q

HeldNotApplied == \A e \in Events : \A p \in Posts : Holds(p, e) => applied[e] = 0

EventInv == TypeOK /\ RowBehind /\ OneHolder /\ HeldNotApplied /\ EventAppliedOnce

LEMMA InitEvent == Init => EventInv
<1> SUFFICES ASSUME Init PROVE EventInv
  OBVIOUS
<1>1. \A p \in Posts : ppc[p].step = "idle"
  BY DEF Init, NoPost
<1>2. \A e \in Events : applied[e] = 0
  BY DEF Init
<1> QED
  BY <1>1, <1>2, InitType
  DEF EventInv, RowBehind, OneHolder, HeldNotApplied, EventAppliedOnce, Holds

\* A step after which nobody holds an event he did not hold, and nothing was applied or recorded.
LEMMA NothingNew ==
  ASSUME EventInv, UNCHANGED <<recorded, applied>>,
         \A q \in Posts : \A e \in Events : Holds(q, e)' => Holds(q, e)
  PROVE  RowBehind' /\ OneHolder' /\ HeldNotApplied' /\ EventAppliedOnce'
BY DEF EventInv, RowBehind, OneHolder, HeldNotApplied, EventAppliedOnce

LEMMA AnswerHolds ==
  ASSUME TypeOK, NEW p \in Posts, Answer(p), NEW q \in Posts, NEW e \in Events
  PROVE  Holds(q, e)' <=> q # p /\ Holds(q, e)
<1>1. ppc'[p].step = "idle"
  BY DEF TypeOK, Answer, NoPost
<1>2. q # p => ppc'[q] = ppc[q]
  BY DEF TypeOK, Answer
<1> QED
  BY <1>1, <1>2 DEF Holds

LEMMA PostAtHolds ==
  ASSUME TypeOK, NEW p \in Posts, NEW step, PostAt(p, step), NEW q \in Posts, NEW e \in Events
  PROVE  Holds(q, e)' <=> \/ q # p /\ Holds(q, e)
                          \/ q = p /\ step \in {"match", "apply"} /\ ppc[p].event = e
<1>1. ppc'[p].step = step /\ ppc'[p].event = ppc[p].event
  BY DEF TypeOK, PostAt
<1>2. q # p => ppc'[q] = ppc[q]
  BY DEF TypeOK, PostAt
<1> QED
  BY <1>1, <1>2 DEF Holds

LEMMA PostEvent ==
  ASSUME EventInv, NEW p \in Posts,
         (\E e \in Events : Post(p, e)) \/ Look(p) \/ Record(p) \/ Match(p) \/ Apply(p) \/ LosePost(p)
  PROVE  RowBehind' /\ OneHolder' /\ HeldNotApplied' /\ EventAppliedOnce'
<1>0. TypeOK
  BY DEF EventInv
<1>1. ASSUME NEW e \in Events, Post(p, e)
      PROVE RowBehind' /\ OneHolder' /\ HeldNotApplied' /\ EventAppliedOnce'
  <2>1. ppc'[p].step = "look" /\ \A q \in Posts : q # p => ppc'[q] = ppc[q]
    BY <1>0, <1>1 DEF TypeOK, Post
  <2>2. \A q \in Posts : \A d \in Events : Holds(q, d)' => Holds(q, d)
    BY <2>1 DEF Holds
  <2> QED
    BY <1>1, <2>2, NothingNew DEF Post
<1>2. CASE Look(p)
  <2>1. Answer(p) \/ PostAt(p, "record")
    BY <1>2 DEF Look
  <2>2. \A q \in Posts : \A e \in Events : Holds(q, e)' => Holds(q, e)
    BY <1>0, <2>1, AnswerHolds, PostAtHolds
  <2> QED
    BY <1>2, <2>2, NothingNew DEF Look
<1>3. CASE Record(p)
  <2>1. CASE ppc[p].event \in recorded
    <3>1. \A q \in Posts : \A e \in Events : Holds(q, e)' => Holds(q, e)
      BY <1>0, <1>3, <2>1, AnswerHolds DEF Record
    <3> QED
      BY <1>3, <2>1, <3>1, NothingNew DEF Record
  <2>2. CASE ppc[p].event \notin recorded
    <3>1. \A q \in Posts : \A e \in Events :
              Holds(q, e)' <=> (q # p /\ Holds(q, e)) \/ (q = p /\ ppc[p].event = e)
      BY <1>0, <1>3, <2>2, PostAtHolds DEF Record
    <3>2. recorded' = recorded \cup {ppc[p].event} /\ applied' = applied
      BY <1>3, <2>2 DEF Record
    <3>3. applied[ppc[p].event] = 0 /\ \A q \in Posts : ~Holds(q, ppc[p].event)
      BY <1>0, <2>2 DEF EventInv, RowBehind, TypeOK
    <3> QED
      BY <3>1, <3>2, <3>3 DEF EventInv, RowBehind, OneHolder, HeldNotApplied, EventAppliedOnce
  <2> QED
    BY <2>1, <2>2
<1>4. CASE Match(p)
  <2>1. Answer(p) \/ PostAt(p, "apply")
    BY <1>4 DEF Match
  <2>2. \A e \in Events : ppc[p].event = e => Holds(p, e)
    BY <1>4 DEF Match, Holds
  <2>3. \A q \in Posts : \A e \in Events : Holds(q, e)' => Holds(q, e)
    BY <1>0, <2>1, <2>2, AnswerHolds, PostAtHolds
  <2> QED
    BY <1>4, <2>3, NothingNew DEF Match
<1>5. CASE Apply(p)
  <2> DEFINE d == ppc[p].event
  <2>1. d \in Events /\ Holds(p, d)
    BY <1>0, <1>5 DEF TypeOK, Apply, Holds
  <2>2. \A q \in Posts : \A e \in Events : Holds(q, e)' <=> q # p /\ Holds(q, e)
    BY <1>0, <1>5, AnswerHolds DEF Apply
  <2>3. recorded' = recorded
    BY <1>5 DEF Apply
  <2>4. applied[d] = 0 /\ applied' = [applied EXCEPT ![d] = @ + 1]
    BY <1>5, <2>1 DEF Apply, EventInv, HeldNotApplied
  <2>5. \A e \in Events : applied'[e] = IF e = d THEN 1 ELSE applied[e]
    BY <1>0, <2>1, <2>4 DEF TypeOK
  <2>6. \A q \in Posts : q # p => ~Holds(q, d)
    BY <2>1 DEF EventInv, OneHolder
  <2>7. d \in recorded
    BY <2>1 DEF EventInv, RowBehind
  <2> HIDE DEF d
  <2> QED
    BY <2>2, <2>3, <2>5, <2>6, <2>7
    DEF EventInv, RowBehind, OneHolder, HeldNotApplied, EventAppliedOnce
<1>6. CASE LosePost(p)
  <2>1. \A q \in Posts : \A e \in Events : Holds(q, e)' => Holds(q, e)
    BY <1>0, <1>6, AnswerHolds DEF LosePost
  <2> QED
    BY <1>6, <2>1, NothingNew DEF LosePost
<1> QED
  BY <1>1, <1>2, <1>3, <1>4, <1>5, <1>6

\* Nobody else touches the events.
LEMMA OthersLeaveEvents ==
  ASSUME \/ RetryTimeComes \/ Age \/ PassBy \/ ReadToCancel \/ WriteCancelled
         \/ \E s \in Senders : SenderStep(s) \/ Throw(s) \/ Die(s)
         \/ \E e \in Events : Happen(e)
  PROVE  UNCHANGED <<recorded, ppc, applied>>
BY DEF RetryTimeComes, Age, PassBy, ReadToCancel, WriteCancelled, SenderStep, Throw, Die, Happen,
       Pick, GiveUp, Mark, Send, MarkSent, MarkDelivery, Retry, hookVars

LEMMA EventStep == EventInv /\ [Next]_vars => EventInv'
<1> SUFFICES ASSUME EventInv, [Next]_vars PROVE EventInv'
  OBVIOUS
<1>1. TypeOK'
  BY TypeStep DEF EventInv
<1>2. CASE UNCHANGED <<recorded, ppc, applied>>
  BY <1>1, <1>2 DEF EventInv, RowBehind, OneHolder, HeldNotApplied, EventAppliedOnce, Holds
<1>3. CASE UNCHANGED vars
  BY <1>2, <1>3 DEF vars, hookVars
<1>4. ASSUME NEW p \in Posts,
             (\E e \in Events : Post(p, e)) \/ Look(p) \/ Record(p) \/ Match(p) \/ Apply(p) \/ LosePost(p)
      PROVE EventInv'
  BY <1>1, <1>4, PostEvent DEF EventInv
<1>5. CASE Next
  BY <1>2, <1>4, <1>5, OthersLeaveEvents DEF Next
<1> QED
  BY <1>3, <1>5

\* An event is applied at most once, however often and concurrently it is posted.
THEOREM EventsAppliedOnce == Spec => []EventAppliedOnce
<1>1. EventInv => EventAppliedOnce
  BY DEF EventInv
<1> QED
  BY <1>1, InitEvent, EventStep, PTL DEF Spec

-----------------------------------------------------------------------------
(* The ceiling.  Senders write back the count that they read plus one,     *)
(* whatever it is by now.  The cron compares it with the ceiling, the      *)
(* request does not, but it comes once.                                    *)

RetriesEnd == retries <= MaxRetries + 1

InHand == {"mark", "send", "sent", "deliver", "retry"}

RequestToCome ==
    spc[Request] # "done" => retries <= MaxRetries /\ seen[Request] <= MaxRetries

CronsBelow == \A s \in Crons : spc[s] \in InHand => seen[s] < MaxRetries

CeilingInv == TypeOK /\ RetriesEnd /\ RequestToCome /\ CronsBelow

LEMMA InitCeiling == Init => CeilingInv
<1> SUFFICES ASSUME Init PROVE CeilingInv
  OBVIOUS
<1>1. retries = 0 /\ seen[Request] = 0 /\ \A s \in Crons : spc[s] = "idle"
  BY DEF Init, Senders
<1> QED
  BY <1>1, InitType, MailAssumption DEF CeilingInv, RetriesEnd, RequestToCome, CronsBelow, InHand

\* The request's own steps.
LEMMA RequestCeiling ==
  ASSUME CeilingInv, SenderStep(Request) \/ Throw(Request) \/ Die(Request)
  PROVE  RetriesEnd' /\ RequestToCome' /\ CronsBelow'
<1>0. TypeOK /\ Request \in Senders /\ MaxRetries \in Nat /\ retries \in Nat /\ seen[Request] \in Nat
  BY MailAssumption DEF CeilingInv, TypeOK, Senders
<1>1. \A s \in Crons : spc'[s] = spc[s] /\ seen'[s] = seen[s]
  BY <1>0, MailAssumption DEF TypeOK, SenderStep, Throw, Die, Pick, GiveUp, Mark, Send, MarkSent,
     MarkDelivery, Retry, At, Over, Senders
<1>2. CronsBelow'
  BY <1>1 DEF CeilingInv, CronsBelow
<1>3. CASE Retry(Request)
  <2>1. spc[Request] = "retry" /\ spc'[Request] = "done" /\ retries' = seen[Request] + 1
    BY <1>0, <1>3 DEF TypeOK, Retry, Over, At, Rest
  <2> QED
    BY <1>0, <1>2, <2>1 DEF CeilingInv, RequestToCome, RetriesEnd
<1>4. CASE Pick(Request)
  <2>1. spc[Request] = "idle" /\ retries' = retries /\ seen'[Request] = retries
    BY <1>0, <1>4 DEF TypeOK, Pick, entryVars
  <2> QED
    BY <1>0, <1>2, <2>1 DEF CeilingInv, RequestToCome, RetriesEnd
<1>5. CASE GiveUp(Request) \/ MarkDelivery(Request) \/ Die(Request)
  <2>1. spc'[Request] = "done" /\ retries' = retries
    BY <1>0, <1>5 DEF TypeOK, GiveUp, MarkDelivery, Die, Over, At, Rest, entryVars
  <2> QED
    BY <1>2, <2>1 DEF CeilingInv, RequestToCome, RetriesEnd
<1>6. CASE Mark(Request) \/ Send(Request) \/ MarkSent(Request) \/ Throw(Request)
  <2>1. spc[Request] # "done" /\ UNCHANGED <<retries, seen>>
    BY <1>6 DEF Mark, Send, MarkSent, Throw, entryVars
  <2> QED
    BY <1>0, <1>2, <2>1 DEF CeilingInv, RequestToCome, RetriesEnd
<1> QED
  BY <1>3, <1>4, <1>5, <1>6 DEF SenderStep

\* A cron's steps.
LEMMA CronCeiling ==
  ASSUME CeilingInv, NEW s \in Crons, SenderStep(s) \/ Throw(s) \/ Die(s)
  PROVE  RetriesEnd' /\ RequestToCome' /\ CronsBelow'
<1>0. TypeOK /\ s \in Senders /\ s # Request /\ MaxRetries \in Nat /\ retries \in Nat /\ seen[s] \in Nat
  BY MailAssumption DEF CeilingInv, TypeOK, Senders
<1>1. spc'[Request] = spc[Request] /\ seen'[Request] = seen[Request]
  BY <1>0 DEF TypeOK, SenderStep, Throw, Die, Pick, GiveUp, Mark, Send, MarkSent, MarkDelivery, Retry,
     At, Over, Senders
<1>2. \A t \in Crons : t # s => spc'[t] = spc[t] /\ seen'[t] = seen[t]
  BY <1>0 DEF TypeOK, SenderStep, Throw, Die, Pick, GiveUp, Mark, Send, MarkSent, MarkDelivery, Retry,
     At, Over, Senders
<1>3. CASE Retry(s)
  <2>1. spc[s] = "retry" /\ spc'[s] = "idle" /\ retries' = seen[s] + 1
    BY <1>0, <1>3 DEF TypeOK, Retry, Over, At, Rest
  <2>2. retries' <= MaxRetries
    BY <1>0, <2>1 DEF CeilingInv, CronsBelow, InHand
  <2>3. CronsBelow'
    BY <1>2, <2>1 DEF CeilingInv, CronsBelow, InHand
  <2> QED
    BY <1>0, <1>1, <2>1, <2>2, <2>3 DEF CeilingInv, RequestToCome, RetriesEnd
<1>4. CASE Pick(s)
  <2>1. retries' = retries /\ seen'[s] = retries /\ (spc'[s] \in InHand => retries < MaxRetries)
    BY <1>0, <1>4 DEF TypeOK, Pick, At, InHand, entryVars
  <2> QED
    BY <1>1, <1>2, <2>1 DEF CeilingInv, CronsBelow, RequestToCome, RetriesEnd
<1>5. CASE GiveUp(s) \/ MarkDelivery(s) \/ Die(s)
  <2>1. spc'[s] = "idle" /\ retries' = retries
    BY <1>0, <1>5 DEF TypeOK, GiveUp, MarkDelivery, Die, Over, At, Rest, entryVars
  <2> QED
    BY <1>1, <1>2, <2>1 DEF CeilingInv, CronsBelow, RequestToCome, RetriesEnd, InHand
<1>6. CASE Mark(s) \/ Send(s) \/ MarkSent(s) \/ Throw(s)
  <2>1. spc[s] \in InHand /\ UNCHANGED <<retries, seen>>
    BY <1>6 DEF Mark, Send, MarkSent, Throw, InHand, entryVars
  <2> QED
    BY <1>1, <1>2, <2>1 DEF CeilingInv, CronsBelow, RequestToCome, RetriesEnd
<1> QED
  BY <1>3, <1>4, <1>5, <1>6 DEF SenderStep

LEMMA CeilingFrame ==
  ASSUME CeilingInv, retries' = retries, seen' = seen \/ PassBy, spc' = spc \/ PassBy
  PROVE  RetriesEnd' /\ RequestToCome' /\ CronsBelow'
<1>1. CASE UNCHANGED <<spc, seen>>
  BY <1>1 DEF CeilingInv, RetriesEnd, RequestToCome, CronsBelow
<1>2. CASE PassBy
  <2>1. spc'[Request] = "done" /\ \A s \in Crons : spc'[s] = spc[s] /\ seen'[s] = seen[s]
    BY <1>2, MailAssumption DEF CeilingInv, TypeOK, PassBy, Over, At, Senders
  <2> QED
    BY <2>1 DEF CeilingInv, RetriesEnd, RequestToCome, CronsBelow
<1> QED
  BY <1>1, <1>2

LEMMA CeilingStep == CeilingInv /\ [Next]_vars => CeilingInv'
<1> SUFFICES ASSUME CeilingInv, [Next]_vars PROVE CeilingInv'
  OBVIOUS
<1>1. TypeOK'
  BY TypeStep DEF CeilingInv
<1>2. ASSUME NEW s \in Senders, SenderStep(s) \/ Throw(s) \/ Die(s) PROVE CeilingInv'
  BY <1>1, <1>2, RequestCeiling, CronCeiling DEF CeilingInv, Senders
<1>3. ASSUME NEW p \in Posts,
             (\E e \in Events : Post(p, e)) \/ Look(p) \/ Record(p) \/ Match(p) \/ Apply(p) \/ LosePost(p)
      PROVE UNCHANGED <<retries, spc, seen>>
  BY <1>3 DEF Post, Look, Record, Match, Apply, LosePost, HooksOnly, entryVars, senderVars
<1>4. CASE RetryTimeComes \/ Age \/ PassBy \/ ReadToCancel \/ WriteCancelled
           \/ \E e \in Events : Happen(e)
  <2>1. retries' = retries /\ (UNCHANGED <<spc, seen>> \/ PassBy)
    BY <1>4 DEF RetryTimeComes, Age, PassBy, ReadToCancel, WriteCancelled, Happen, entryVars, senderVars
  <2> QED
    BY <1>1, <2>1, CeilingFrame DEF CeilingInv
<1>5. CASE UNCHANGED vars
  BY <1>1, <1>5, CeilingFrame DEF CeilingInv, vars, entryVars, senderVars
<1>6. CASE Next
  BY <1>1, <1>2, <1>3, <1>4, <1>6, CeilingFrame DEF Next, CeilingInv
<1> QED
  BY <1>5, <1>6

\* However many senders overlap with counts they read before, an entry's count never passes the
\* ceiling by more than the one try that the request makes without looking at it.
THEOREM RetriesStayBounded == Spec => []RetriesEnd
<1>1. CeilingInv => RetriesEnd
  BY DEF CeilingInv
<1> QED
  BY <1>1, InitCeiling, CeilingStep, PTL DEF Spec

-----------------------------------------------------------------------------
(* What the entry and its delivery say of the provider.                    *)

\* An entry is SENT, and a delivery names a message or has an outcome, only when the provider has
\* accepted one: the entry is marked by id, whatever it has become since it was read, by several
\* senders, and events find the delivery by the message's number.
SentWasAccepted ==
    /\ status = "SENT" => messages > 0
    /\ delivery.message <= messages
    /\ delivery.status \in Outcomes \ {"QUEUED", "SENT"} => messages > 0

AcceptedInv ==
    /\ TypeOK /\ SentWasAccepted
    /\ \A s \in Senders : message[s] <= messages
    /\ \A s \in Senders : spc[s] \in {"sent", "deliver"} => messages > 0
    /\ \A e \in Events : about[e] <= messages
    /\ \A p \in Posts : ppc[p].step # "idle" => messages > 0

LEMMA InitAccepted == Init => AcceptedInv
<1> SUFFICES ASSUME Init PROVE AcceptedInv
  OBVIOUS
<1>1. \A p \in Posts : ppc[p].step = "idle"
  BY DEF Init, NoPost
<1> QED
  BY <1>1, InitType DEF Init, AcceptedInv, SentWasAccepted

LEMMA AcceptedStep == AcceptedInv /\ [Next]_vars => AcceptedInv'
<1> SUFFICES ASSUME AcceptedInv, [Next]_vars PROVE AcceptedInv'
  OBVIOUS
<1>0. TypeOK /\ TypeOK'
  BY TypeStep DEF AcceptedInv
<1> USE DEF AcceptedInv, SentWasAccepted
<1>1. CASE UNCHANGED vars
  BY <1>0, <1>1 DEF vars, entryVars, senderVars, hookVars
<1>2. CASE RetryTimeComes \/ Age \/ PassBy \/ ReadToCancel \/ WriteCancelled
  BY <1>0, <1>2 DEF TypeOK, RetryTimeComes, Age, PassBy, ReadToCancel, WriteCancelled, Over, At,
     entryVars, senderVars, hookVars
<1>3. ASSUME NEW s \in Senders, SenderStep(s) \/ Throw(s) \/ Die(s) PROVE AcceptedInv'
  <2>1. CASE Send(s)
    <3>1. messages' \in Nat /\ messages <= messages'
      <4>1. messages' = messages \/ messages' = messages + 1
        BY <2>1 DEF Send
      <4> QED
        BY <1>0, <4>1 DEF TypeOK
    <3>2. \A o \in Senders : message'[o] = message[o] \/ message'[o] = messages'
      BY <1>0, <2>1 DEF TypeOK, Send
    <3>3. \A o \in Senders : message'[o] <= messages'
      BY <1>0, <3>1, <3>2 DEF TypeOK
    <3>4. \A o \in Senders : spc'[o] \in {"sent", "deliver"} => messages' > 0
      <4>1. \A o \in Senders : spc'[o] \in {spc[o], "retry"} \/ messages' = messages + 1
        BY <1>0, <2>1 DEF TypeOK, Send, At
      <4> QED
        BY <1>0, <3>1, <4>1 DEF TypeOK
    <3>5. UNCHANGED <<status, delivery, about, ppc>>
      BY <2>1 DEF Send, entryVars, hookVars
    <3>6. SentWasAccepted' /\ \A e \in Events : about'[e] <= messages'
      BY <1>0, <3>1, <3>5 DEF TypeOK
    <3> QED
      BY <1>0, <3>1, <3>3, <3>4, <3>5, <3>6 DEF TypeOK
  <2>2. CASE MarkDelivery(s)
    BY <1>0, <2>2 DEF TypeOK, MarkDelivery, Over, At, hookVars
  <2>3. CASE Pick(s) \/ GiveUp(s) \/ Mark(s) \/ MarkSent(s) \/ Retry(s) \/ Throw(s) \/ Die(s)
    <3>1. UNCHANGED <<messages, delivery, about, ppc>>
      BY <2>3 DEF Pick, GiveUp, Mark, MarkSent, Retry, Throw, Die, entryVars, hookVars
    <3>2. \A o \in Senders : message'[o] \in {message[o], 0}
      BY <1>0, <2>3 DEF TypeOK, Pick, GiveUp, Mark, MarkSent, Retry, Throw, Die, Over
    <3>3. \A o \in Senders : spc'[o] \in {"sent", "deliver"} => spc[o] \in {"sent", "deliver"}
      <4>1. \A o \in Senders \ {s} : spc'[o] = spc[o]
        BY <1>0, <2>3 DEF TypeOK, Pick, GiveUp, Mark, MarkSent, Retry, Throw, Die, Over, At
      <4>2. spc'[s] \in {"sent", "deliver"} => spc[s] \in {"sent", "deliver"}
        BY <1>0, <2>3 DEF TypeOK, Pick, GiveUp, Mark, MarkSent, Retry, Throw, Die, Over, At, Rest
      <4> QED
        BY <4>1, <4>2
    <3>4. status' = "SENT" => status = "SENT" \/ spc[s] = "sent"
      BY <2>3 DEF Pick, GiveUp, Mark, MarkSent, Retry, Throw, Die, entryVars
    <3> QED
      BY <1>0, <3>1, <3>2, <3>3, <3>4 DEF TypeOK
  <2> QED
    BY <1>3, <2>1, <2>2, <2>3 DEF SenderStep
<1>4. ASSUME NEW e \in Events, Happen(e) PROVE AcceptedInv'
  BY <1>0, <1>4 DEF TypeOK, Happen, entryVars, senderVars
<1>5. ASSUME NEW e \in Events, NEW p \in Posts, Post(p, e) PROVE AcceptedInv'
  BY <1>0, <1>5 DEF TypeOK, Post, HooksOnly, entryVars, senderVars
<1>6. ASSUME NEW p \in Posts, Look(p) \/ Record(p) \/ Match(p) \/ Apply(p) \/ LosePost(p)
      PROVE AcceptedInv'
  <2>1. CASE Apply(p)
    BY <1>0, <2>1 DEF TypeOK, Apply, Answer, NoPost, HooksOnly, senderVars
  <2>2. CASE Look(p) \/ Record(p) \/ Match(p) \/ LosePost(p)
    BY <1>0, <2>2 DEF TypeOK, Look, Record, Match, LosePost, Answer, PostAt, NoPost, HooksOnly,
       entryVars, senderVars
  <2> QED
    BY <1>6, <2>1, <2>2
<1> QED
  BY <1>1, <1>2, <1>3, <1>4, <1>5, <1>6 DEF Next

\* What is recorded as sent was accepted by the provider.
THEOREM SentIsAccepted == Spec => []SentWasAccepted
<1>1. AcceptedInv => SentWasAccepted
  BY DEF AcceptedInv
<1> QED
  BY <1>1, InitAccepted, AcceptedStep, PTL DEF Spec

=============================================================================
