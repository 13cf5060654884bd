-------------------------- MODULE ReviewJobs_proofs --------------------------
(***************************************************************************)
(* Proofs about ReviewJobs: the types, that a claimed row has one owner,   *)
(* that the newest review stands, that retries end, that a job that        *)
(* succeeded is never taken up again, that all of it together implements   *)
(* JobPromise, and that no row is forgotten unless a process dies.         *)
(***************************************************************************)
EXTENDS ReviewJobs, TLAPS

-----------------------------------------------------------------------------
(* Types.                                                                  *)

TriggerSteps == {"idle", "build", "look", "find", "collapse", "revive", "create", "done"}
RunnerSteps  == {"idle", "rebuild", "look", "ask", "persist", "commit", "succeed", "retry", "fail"}

TriggerType ==
    /\ tpc \in [Triggers -> TriggerSteps]
    /\ tfp \in [Triggers -> Contents]
    /\ target \in [Triggers -> Triggers]

RunnerType ==
    /\ rpc \in [Runners -> RunnerSteps]
    /\ batch \in [Runners -> SUBSET Claimed]
    /\ job \in [Runners -> Claimed]
    /\ snapshot \in [Runners -> Contents]
    /\ olds \in [Runners -> SUBSET Nat]

StoreType ==
    /\ content \in Contents /\ debounced \in BOOLEAN
    /\ rows \in [Triggers -> Row]
    /\ reviews \in Seq(Review)
    /\ seen \subseteq Contents
    /\ mishaps \subseteq {"died", "returned", "misdirected", "overtaken"}

LEMMA TypeParts == TypeOK <=> TriggerType /\ RunnerType /\ StoreType
BY DEF TypeOK, TriggerType, RunnerType, StoreType, TriggerSteps, RunnerSteps

LEMMA Defaults == AnyContent \in Contents /\ AnyRow \in Triggers /\ NoJob \in Claimed /\ Absent \in Row
<1>1. AnyContent \in Contents /\ AnyRow \in Triggers
  BY JobsAssumption DEF AnyContent, AnyRow
<1> QED
  BY <1>1 DEF NoJob, Claimed, Absent, Row

LEMMA InitType == Init => TypeOK
<1> SUFFICES ASSUME Init PROVE TypeOK
  OBVIOUS
<1>1. TriggerType
  BY Defaults DEF Init, TriggerType, TriggerSteps
<1>2. RunnerType
  BY Defaults DEF Init, RunnerType, RunnerSteps
<1>3. StoreType
  BY Defaults DEF Init, StoreType
<1> QED
  BY <1>1, <1>2, <1>3, TypeParts

\* A trigger's own variables, whichever of its steps it takes.
LEMMA TriggerOwn ==
  ASSUME TypeOK, NEW t \in Triggers,
         TriggerStep(t) \/ LoseTrigger(t) \/ \E c \in Contents : Edit(t, c)
  PROVE  TriggerType' /\ UNCHANGED runnerVars
<1> USE Defaults, TypeParts DEF TriggerType, StoreType, TriggerSteps, Return, GoOn, TriggerAt
<1>1. CASE BuildContext(t)
  BY <1>1 DEF BuildContext
<1>2. CASE LookForReview(t)
  BY <1>2 DEF LookForReview
<1>3. CASE FindQueued(t)
  BY <1>3 DEF FindQueued
<1>4. CASE Collapse(t)
  BY <1>4 DEF Collapse
<1>5. CASE Revive(t)
  <2>1. Return(t) \/ GoOn(t, "create")
    BY <1>5 DEF Revive
  <2>2. UNCHANGED runnerVars
    BY <1>5 DEF Revive
  <2> QED
    BY <2>1, <2>2
<1>6. CASE CreateRow(t)
  BY <1>6 DEF CreateRow
<1>7. CASE LoseTrigger(t)
  BY <1>7 DEF LoseTrigger
<1>8. ASSUME NEW c \in Contents, Edit(t, c) PROVE TriggerType' /\ UNCHANGED runnerVars
  BY <1>8 DEF Edit
<1> QED
  BY <1>1, <1>2, <1>3, <1>4, <1>5, <1>6, <1>7, <1>8 DEF TriggerStep

\* Changing the fields of one row.
LEMMA RowChange ==
  ASSUME NEW row \in Row, NEW status \in {"QUEUED", "RUNNING", "SUCCEEDED", "FAILED"},
         NEW fp \in Contents, NEW attempts \in Nat
  PROVE  /\ [row EXCEPT !.status = status] \in Row
         /\ [row EXCEPT !.status = status, !.attempts = attempts] \in Row
         /\ [row EXCEPT !.fp = fp, !.attempts = attempts] \in Row
         /\ [status |-> status, fp |-> fp, attempts |-> attempts] \in Row
BY DEF Row, Finished

\* What a trigger does to the store.
LEMMA TriggerStore ==
  ASSUME TypeOK, NEW t \in Triggers,
         TriggerStep(t) \/ LoseTrigger(t) \/ \E c \in Contents : Edit(t, c)
  PROVE  StoreType'
<1> USE TypeParts DEF TriggerType, StoreType, Mishap
<1>1. CASE BuildContext(t) \/ LookForReview(t) \/ FindQueued(t)
  BY <1>1 DEF BuildContext, LookForReview, FindQueued
<1>2. CASE Collapse(t)
  <2>1. rows' \in [Triggers -> Row]
    <3>1. rows[target[t]] \in Row /\ target[t] \in Triggers /\ tfp[t] \in Contents
      OBVIOUS
    <3>2. [rows[target[t]] EXCEPT !.fp = tfp[t], !.attempts = 0] \in Row
      BY <3>1, RowChange
    <3>3. \/ rows' = rows
          \/ rows' = [rows EXCEPT ![target[t]] = [rows[target[t]] EXCEPT !.fp = tfp[t], !.attempts = 0]]
      BY <1>2, <3>1 DEF Collapse, Row
    <3> QED
      BY <3>2, <3>3
  <2>2. mishaps' \subseteq {"died", "returned", "misdirected", "overtaken"}
    BY <1>2 DEF Collapse
  <2> QED
    BY <1>2, <2>1, <2>2 DEF Collapse
<1>3. CASE Revive(t)
  <2>1. rows' \in [Triggers -> Row]
    <3>1. \A j \in Triggers : [rows[j] EXCEPT !.status = "QUEUED", !.attempts = 0] \in Row
      BY RowChange
    <3>2. \/ rows' = rows
          \/ rows' = [j \in Triggers |-> IF Held(tfp[t], j)
                           THEN [rows[j] EXCEPT !.status = "QUEUED", !.attempts = 0] ELSE rows[j]]
      BY <1>3 DEF Revive
    <3> QED
      BY <3>1, <3>2
  <2> QED
    BY <1>3, <2>1 DEF Revive
<1>4. CASE CreateRow(t)
  <2>1. rows' \in [Triggers -> Row]
    BY <1>4 DEF CreateRow, Row
  <2> QED
    BY <1>4, <2>1 DEF CreateRow
<1>5. CASE LoseTrigger(t)
  BY <1>5 DEF LoseTrigger
<1>6. ASSUME NEW c \in Contents, Edit(t, c) PROVE StoreType'
  BY <1>6 DEF Edit
<1> QED
  BY <1>1, <1>2, <1>3, <1>4, <1>5, <1>6 DEF TriggerStep

\* A runner's own variables.
LEMMA RunnerOwn ==
  ASSUME TypeOK, NEW r \in Runners, RunnerStep(r) \/ Throw(r) \/ LoseMark(r) \/ Die(r)
  PROVE  RunnerType' /\ UNCHANGED triggerVars
<1> USE Defaults, TypeParts DEF RunnerType, StoreType, RunnerSteps, RunnerAt, Leave, OthersStay
<1>1. CASE Claim(r)
  <2>1. \A j \in Triggers : rows[j].attempts \in Nat
    BY DEF Row
  <2>2. {[row |-> j, attempts |-> rows[j].attempts] : j \in Due} \in SUBSET Claimed
    BY <2>1 DEF Due, Claimed
  <2> QED
    BY <1>1, <2>2 DEF Claim
<1>2. CASE Take(r)
  BY <1>2 DEF Take
<1>3. CASE Rebuild(r)
  BY <1>3 DEF Rebuild
<1>4. CASE LookAgain(r)
  BY <1>4 DEF LookAgain
<1>5. CASE AskProvider(r)
  BY <1>5 DEF AskProvider
<1>6. CASE Supersede(r)
  <2>1. Standing \in SUBSET Nat
    BY DEF Standing
  <2> QED
    BY <1>6, <2>1 DEF Supersede
<1>7. CASE Commit(r)
  BY <1>7 DEF Commit
<1>8. CASE MarkSucceeded(r) \/ MarkFailed(r) \/ MarkRetry(r)
  <2>1. Leave(r) /\ UNCHANGED triggerVars
    BY <1>8 DEF MarkSucceeded, MarkFailed, MarkRetry
  <2> QED
    BY <2>1
<1>9. CASE Throw(r)
  BY <1>9 DEF Throw
<1>10. CASE LoseMark(r)
  BY <1>10 DEF LoseMark
<1>11. CASE Die(r)
  BY <1>11 DEF Die
<1> QED
  BY <1>1, <1>2, <1>3, <1>4, <1>5, <1>6, <1>7, <1>8, <1>9, <1>10, <1>11 DEF RunnerStep

\* Superseding changes no length and no fingerprint.
LEMMA OutdatedType ==
  ASSUME reviews \in Seq(Review), NEW S
  PROVE  Outdated(S) \in Seq(Review) /\ Len(Outdated(S)) = Len(reviews)
<1> DEFINE After(i) == IF i \in S THEN [reviews[i] EXCEPT !.status = "SUPERSEDED"] ELSE reviews[i]
<1>1. \A i \in 1..Len(reviews) : reviews[i] \in Review
  OBVIOUS
<1>2. \A i \in 1..Len(reviews) : After(i) \in Review
  BY <1>1 DEF Review
<1>3. Outdated(S) = [i \in 1..Len(reviews) |-> After(i)]
  BY DEF Outdated
<1>4. Len(reviews) \in Nat
  OBVIOUS
<1> HIDE DEF After
<1> QED
  BY <1>2, <1>3, <1>4

\* What a runner does to the store.
LEMMA RunnerStore ==
  ASSUME TypeOK, NEW r \in Runners, RunnerStep(r) \/ Throw(r) \/ LoseMark(r) \/ Die(r)
  PROVE  StoreType'
<1> USE TypeParts DEF StoreType, Mishap, OthersStay
<1>0. job[r].row \in Triggers /\ job[r].attempts \in Nat
  BY DEF RunnerType, Claimed
<1>1. CASE Claim(r)
  <2>1. rows' \in [Triggers -> Row]
    BY <1>1 DEF Claim, Row
  <2> QED
    BY <1>1, <2>1 DEF Claim
<1>2. CASE Take(r) \/ Rebuild(r) \/ LookAgain(r) \/ AskProvider(r) \/ Supersede(r) \/ Throw(r)
           \/ LoseMark(r) \/ Die(r)
  BY <1>2 DEF Take, Rebuild, LookAgain, AskProvider, Supersede, Throw, LoseMark, Die
<1>3. CASE Commit(r)
  <2>1. [fp |-> snapshot[r], status |-> "SUCCEEDED"] \in Review
    BY DEF RunnerType, Review
  <2>2. reviews' \in Seq(Review)
    BY <1>3, <2>1, OutdatedType DEF Commit
  <2>3. mishaps' \subseteq {"died", "returned", "misdirected", "overtaken"}
    BY <1>3 DEF Commit
  <2> QED
    BY <1>3, <2>2, <2>3 DEF Commit
<1>4. CASE MarkSucceeded(r) \/ MarkFailed(r) \/ MarkRetry(r)
  <2>1. rows' \in [Triggers -> Row]
    <3> DEFINE j == job[r].row
               n == job[r].attempts + 1
    <3>1. rows[j] \in Row /\ j \in Triggers /\ n \in Nat
      BY <1>0
    <3>2. /\ [rows[j] EXCEPT !.status = "SUCCEEDED"] \in Row
          /\ [rows[j] EXCEPT !.status = "FAILED"] \in Row
          /\ [rows[j] EXCEPT !.status = "QUEUED", !.attempts = n] \in Row
      <4> HIDE DEF j, n
      <4> QED
        BY <3>1, RowChange
    <3>3. \/ rows' = [rows EXCEPT ![j] = [rows[j] EXCEPT !.status = "SUCCEEDED"]]
          \/ rows' = [rows EXCEPT ![j] = [rows[j] EXCEPT !.status = "FAILED"]]
          \/ rows' = [rows EXCEPT ![j] = [rows[j] EXCEPT !.status = "QUEUED", !.attempts = n]]
      BY <1>4, <3>1 DEF MarkSucceeded, MarkFailed, MarkRetry, Row
    <3> HIDE DEF j, n
    <3> QED
      BY <3>2, <3>3
  <2> QED
    BY <1>4, <2>1 DEF MarkSucceeded, MarkFailed, MarkRetry
<1> QED
  BY <1>1, <1>2, <1>3, <1>4 DEF RunnerStep

LEMMA TypeStep == TypeOK /\ [Next]_vars => TypeOK'
<1> SUFFICES ASSUME TypeOK, [Next]_vars PROVE TypeOK'
  OBVIOUS
<1> USE TypeParts
<1>1. CASE UNCHANGED vars
  BY <1>1 DEF TypeOK, vars, triggerVars, runnerVars
<1>2. ASSUME NEW t \in Triggers, TriggerStep(t) \/ LoseTrigger(t) \/ \E c \in Contents : Edit(t, c)
      PROVE TypeOK'
  <2>1. TriggerType' /\ StoreType' /\ UNCHANGED runnerVars
    BY <1>2, TriggerOwn, TriggerStore
  <2>2. RunnerType'
    BY <2>1 DEF RunnerType, runnerVars
  <2> QED
    BY <2>1, <2>2 DEF TypeOK, TriggerType, RunnerType, StoreType, TriggerSteps, RunnerSteps
<1>3. ASSUME NEW r \in Runners, RunnerStep(r) \/ Throw(r) \/ LoseMark(r) \/ Die(r)
      PROVE TypeOK'
  <2>1. RunnerType' /\ StoreType' /\ UNCHANGED triggerVars
    BY <1>3, RunnerOwn, RunnerStore
  <2>2. TriggerType'
    BY <2>1 DEF TriggerType, triggerVars
  <2> QED
    BY <2>1, <2>2 DEF TypeOK, TriggerType, RunnerType, StoreType, TriggerSteps, RunnerSteps
<1> QED
  BY <1>1, <1>2, <1>3 DEF Next

\* The variables have their types in every state of every behaviour.
THEOREM TypeCorrect == Spec => []TypeOK
BY InitType, TypeStep, PTL DEF Spec

-----------------------------------------------------------------------------
(* One owner.  The claim only takes rows that are QUEUED, and a row gets   *)
(* back there by its owner's hand or by a revival, which needs it FAILED:  *)
(* that rests on one row per fingerprint, since a revival requeues all the *)
(* rows of the content it found a failed one for.                          *)

OneRowPerContent == \A i, j \in Triggers : \A c \in Contents : Held(c, i) /\ Held(c, j) => i = j

NotCreatedYet == \A t \in Triggers : tpc[t] # "done" => rows[t].status = "ABSENT"

WorksOnItsOwn == \A r \in Runners : rpc[r] # "idle" => job[r] \in batch[r]

OwnerInv == TypeOK /\ ClaimedOnce /\ OneRowPerContent /\ NotCreatedYet /\ WorksOnItsOwn

LEMMA InitOwner == Init => OwnerInv
<1> SUFFICES ASSUME Init PROVE OwnerInv
  OBVIOUS
<1>1. \A t \in Triggers : rows[t].status = "ABSENT"
  BY DEF Init, Absent
<1> QED
  BY <1>1, InitType DEF Init, OwnerInv, ClaimedOnce, OneRowPerContent, NotCreatedYet, WorksOnItsOwn,
                        Held

\* Nothing of what the invariant is about changes.
LEMMA OwnerFrame ==
  ASSUME OwnerInv, TypeOK', UNCHANGED <<rows, batch>>,
         \A t \in Triggers : tpc'[t] # "done" => tpc[t] # "done",
         \A r \in Runners : rpc'[r] # "idle" => job'[r] \in batch[r]
  PROVE  OwnerInv'
BY DEF OwnerInv, ClaimedOnce, OneRowPerContent, NotCreatedYet, WorksOnItsOwn, Held

LEMMA OwnedRow ==
  ASSUME TypeOK, NEW r \in Runners, NEW a \in batch[r]
  PROVE  a.row \in Triggers
BY DEF TypeOK, Claimed

\* A step that touches no batch, and no row that is RUNNING.
LEMMA StillClaimed ==
  ASSUME TypeOK, ClaimedOnce, UNCHANGED batch,
         \A j \in Triggers : rows[j].status = "RUNNING" => rows'[j].status = "RUNNING"
  PROVE  ClaimedOnce'
BY OwnedRow DEF ClaimedOnce

LEMMA TriggerOwner ==
  ASSUME OwnerInv, TypeOK', NEW t \in Triggers,
         TriggerStep(t) \/ LoseTrigger(t) \/ \E c \in Contents : Edit(t, c)
  PROVE  OwnerInv'
<1>0. TypeOK /\ UNCHANGED runnerVars /\ WorksOnItsOwn
  BY TriggerOwn DEF OwnerInv
<1>1. \A u \in Triggers : tpc'[u] # "done" => tpc[u] # "done"
  BY <1>0 DEF TypeOK, TriggerStep, LoseTrigger, Edit, BuildContext, LookForReview, FindQueued,
              Collapse, Revive, CreateRow, Return, GoOn, TriggerAt
<1>2. CASE rows' = rows
  BY <1>0, <1>1, <1>2, OwnerFrame DEF runnerVars, WorksOnItsOwn
<1>3. CASE Collapse(t) /\ rows' # rows
  <2> DEFINE k == target[t]
  <2>1. k \in Triggers /\ tfp[t] \in Contents
    BY <1>0 DEF TypeOK
  <2>2. /\ \A j \in Triggers : rows'[j].status = rows[j].status
        /\ \A j \in Triggers : rows'[j].fp = IF j = k THEN tfp[t] ELSE rows[j].fp
        /\ \A j \in Triggers : j # k => ~Held(tfp[t], j)
    <3>1. rows' = [rows EXCEPT ![k] = [rows[k] EXCEPT !.fp = tfp[t], !.attempts = 0]]
      BY <1>0, <1>3, <2>1 DEF Collapse, TypeOK
    <3>2. \A j \in Triggers : rows[j] \in Row
      BY <1>0 DEF TypeOK
    <3>3. \A j \in Triggers : j # k => ~Held(tfp[t], j)
      BY <1>3 DEF Collapse
    <3> HIDE DEF k
    <3>4. rows'[k] = [rows[k] EXCEPT !.fp = tfp[t], !.attempts = 0]
      BY <1>0, <2>1, <3>1 DEF TypeOK
    <3>5. rows'[k].fp = tfp[t] /\ rows'[k].status = rows[k].status
      BY <2>1, <3>2, <3>4 DEF Row
    <3>6. \A j \in Triggers : j # k => rows'[j] = rows[j]
      BY <1>0, <3>1 DEF TypeOK
    <3> QED
      BY <3>3, <3>5, <3>6
  <2>3. ClaimedOnce' /\ NotCreatedYet' /\ WorksOnItsOwn'
    BY <1>0, <1>1, <2>2, StillClaimed DEF OwnerInv, NotCreatedYet, WorksOnItsOwn, runnerVars
  <2>4. OneRowPerContent'
    <3> HIDE DEF k
    <3> QED
      BY <2>1, <2>2 DEF OwnerInv, OneRowPerContent, Held
  <2> QED
    BY <2>3, <2>4 DEF OwnerInv
<1>4. CASE Revive(t) /\ rows' # rows
  <2>1. PICK k \in Triggers : Held(tfp[t], k) /\ rows[k].status = "FAILED"
    BY <1>4 DEF Revive
  <2>2. \A j \in Triggers : Held(tfp[t], j) => j = k
    BY <1>0, <2>1 DEF OwnerInv, OneRowPerContent, TypeOK
  <2>3. /\ \A j \in Triggers : rows'[j].fp = rows[j].fp
        /\ \A j \in Triggers : rows'[j].status = IF j = k THEN "QUEUED" ELSE rows[j].status
    <3>1. rows' = [j \in Triggers |-> IF Held(tfp[t], j)
                       THEN [rows[j] EXCEPT !.status = "QUEUED", !.attempts = 0] ELSE rows[j]]
      BY <1>4 DEF Revive
    <3>2. \A j \in Triggers : rows[j] \in Row
      BY <1>0 DEF TypeOK
    <3> QED
      BY <2>1, <2>2, <3>1, <3>2 DEF Row
  <2>4. ClaimedOnce'
    BY <1>0, <2>1, <2>3, StillClaimed DEF OwnerInv, runnerVars
  <2>5. NotCreatedYet' /\ WorksOnItsOwn' /\ OneRowPerContent'
    BY <1>0, <1>1, <2>1, <2>3 DEF OwnerInv, NotCreatedYet, WorksOnItsOwn, OneRowPerContent, Held,
                                  runnerVars
  <2> QED
    BY <2>4, <2>5 DEF OwnerInv
<1>5. CASE CreateRow(t) /\ rows' # rows
  <2>1. /\ rows' = [rows EXCEPT ![t] = [status |-> "QUEUED", fp |-> tfp[t], attempts |-> 0]]
        /\ \A j \in Triggers : ~Held(tfp[t], j)
    BY <1>5 DEF CreateRow, Exists
  <2>2. rows[t].status = "ABSENT" /\ tpc'[t] = "done"
    BY <1>0, <1>5 DEF CreateRow, OwnerInv, NotCreatedYet, Return, TriggerAt, TypeOK
  <2>3. \A j \in Triggers : IF j = t THEN rows'[j].fp = tfp[t] /\ rows'[j].status = "QUEUED"
                                      ELSE rows'[j] = rows[j]
    BY <1>0, <2>1 DEF TypeOK
  <2>4. ClaimedOnce'
    BY <1>0, <2>2, <2>3, StillClaimed DEF OwnerInv, runnerVars
  <2>5. NotCreatedYet' /\ WorksOnItsOwn'
    BY <1>0, <1>1, <2>2, <2>3 DEF OwnerInv, NotCreatedYet, WorksOnItsOwn, runnerVars
  <2>6. OneRowPerContent'
    BY <2>1, <2>3 DEF OwnerInv, OneRowPerContent, Held
  <2> QED
    BY <2>4, <2>5, <2>6 DEF OwnerInv
<1>6. rows' = rows \/ Collapse(t) \/ Revive(t) \/ CreateRow(t)
  BY DEF TriggerStep, LoseTrigger, Edit, BuildContext, LookForReview, FindQueued
<1> QED
  BY <1>2, <1>3, <1>4, <1>5, <1>6

\* A row leaves the hands of its owner: nobody else had it, so any status will do that is not
\* ABSENT.
LEMMA LeaveOwner ==
  ASSUME OwnerInv, TypeOK', NEW r \in Runners, rpc[r] # "idle", Leave(r), UNCHANGED tpc,
         \A j \in Triggers : rows'[j].fp = rows[j].fp,
         \A j \in Triggers : j # job[r].row => rows'[j].status = rows[j].status,
         rows'[job[r].row].status # "ABSENT"
  PROVE  OwnerInv'
<1>1. /\ job[r] \in batch[r] /\ rows[job[r].row].status = "RUNNING" /\ job[r].row \in Triggers
      /\ \A s \in Runners : \A b \in batch[s] : b.row = job[r].row => s = r /\ b = job[r]
  BY DEF OwnerInv, WorksOnItsOwn, ClaimedOnce, TypeOK, Claimed
<1>2. \A s \in Runners : batch'[s] = IF s = r THEN batch[s] \ {job[r]} ELSE batch[s]
  BY DEF Leave, OwnerInv, TypeOK
<1>3. ClaimedOnce'
  <2>1. ASSUME NEW s \in Runners, NEW a \in batch'[s]
        PROVE  /\ rows'[a.row].status = "RUNNING"
               /\ \A q \in Runners : \A b \in batch'[q] : a.row = b.row => s = q /\ a = b
    <3>1. a \in batch[s] /\ a.row \in Triggers
      BY <1>2, OwnedRow DEF OwnerInv
    <3>2. a.row # job[r].row
      BY <1>1, <1>2, <3>1
    <3>3. rows'[a.row].status = rows[a.row].status
      BY <3>1, <3>2
    <3>4. \A q \in Runners : batch'[q] \subseteq batch[q]
      BY <1>2
    <3>5. rows[a.row].status = "RUNNING"
      BY <3>1 DEF OwnerInv, ClaimedOnce
    <3>6. \A q \in Runners : \A b \in batch[q] : a.row = b.row => s = q /\ a = b
      BY <3>1 DEF OwnerInv, ClaimedOnce
    <3> QED
      BY <3>3, <3>4, <3>5, <3>6
  <2> QED
    BY <2>1 DEF ClaimedOnce
<1>4. \A s \in Runners : rpc'[s] # "idle" => s # r /\ rpc[s] # "idle" /\ job'[s] = job[s]
  BY DEF Leave, RunnerAt, OwnerInv, TypeOK
<1>5. WorksOnItsOwn'
  BY <1>2, <1>4 DEF OwnerInv, WorksOnItsOwn
<1>6. NotCreatedYet' /\ OneRowPerContent'
  BY <1>1 DEF OwnerInv, NotCreatedYet, OneRowPerContent, Held
<1> QED
  BY <1>3, <1>5, <1>6 DEF OwnerInv

LEMMA RunnerOwner ==
  ASSUME OwnerInv, TypeOK', NEW r \in Runners, RunnerStep(r) \/ Throw(r) \/ LoseMark(r) \/ Die(r)
  PROVE  OwnerInv'
<1>0. TypeOK /\ UNCHANGED tpc /\ WorksOnItsOwn
  BY RunnerOwn DEF OwnerInv, triggerVars
<1>1. CASE Claim(r)
  <2>1. \A j \in Triggers : /\ rows'[j].fp = rows[j].fp
                            /\ rows'[j].status = IF rows[j].status = "QUEUED" THEN "RUNNING"
                                                 ELSE rows[j].status
    <3>1. \A j \in Triggers : rows[j] \in Row
      BY <1>0 DEF TypeOK
    <3> QED
      BY <1>1, <3>1 DEF Claim, Due, Row
  <2>2. \A a \in batch'[r] : /\ a.row \in Triggers /\ rows[a.row].status = "QUEUED"
                             /\ a = [row |-> a.row, attempts |-> rows[a.row].attempts]
    BY <1>0, <1>1 DEF Claim, Due, TypeOK
  <2>3. \A s \in Runners : s # r => batch'[s] = batch[s]
    BY <1>0, <1>1 DEF Claim, TypeOK
  <2>4. ClaimedOnce'
    <3>1. ASSUME NEW s \in Runners, NEW a \in batch'[s]
          PROVE  /\ rows'[a.row].status = "RUNNING"
                 /\ \A q \in Runners : \A b \in batch'[q] : a.row = b.row => s = q /\ a = b
      <4>1. \A q \in Runners : \A b \in batch'[q] :
                b.row \in Triggers /\ rows[b.row].status = IF q = r THEN "QUEUED" ELSE "RUNNING"
        BY <1>0, <2>2, <2>3, OwnedRow DEF OwnerInv, ClaimedOnce
      <4>2. CASE s = r
        BY <2>1, <2>2, <4>1, <4>2
      <4>3. CASE s # r
        BY <2>1, <2>3, <4>1, <4>3 DEF OwnerInv, ClaimedOnce
      <4> QED
        BY <4>2, <4>3
    <3> QED
      BY <3>1 DEF ClaimedOnce
  <2>5. WorksOnItsOwn'
    BY <1>0, <1>1, <2>3 DEF Claim, WorksOnItsOwn
  <2>6. NotCreatedYet' /\ OneRowPerContent'
    BY <1>0, <2>1 DEF OwnerInv, NotCreatedYet, OneRowPerContent, Held
  <2> QED
    BY <2>4, <2>5, <2>6 DEF OwnerInv
<1>2. CASE Take(r) \/ Rebuild(r) \/ LookAgain(r) \/ AskProvider(r) \/ Supersede(r) \/ Commit(r)
           \/ Throw(r)
  <2>1. UNCHANGED <<rows, batch>>
    BY <1>2 DEF Take, Rebuild, LookAgain, AskProvider, Supersede, Commit, Throw, OthersStay
  <2>2. \A s \in Runners : rpc'[s] # "idle" => job'[s] \in batch[s]
    <3>1. CASE Take(r)
      BY <1>0, <3>1 DEF Take, RunnerAt, TypeOK, WorksOnItsOwn
    <3>2. CASE ~Take(r)
      <4>1. rpc[r] # "idle" /\ job' = job /\ \A s \in Runners : s # r => rpc'[s] = rpc[s]
        BY <1>0, <1>2, <3>2 DEF Rebuild, LookAgain, AskProvider, Supersede, Commit, Throw, RunnerAt,
                                TypeOK
      <4> QED
        BY <1>0, <4>1 DEF WorksOnItsOwn
    <3> QED
      BY <3>1, <3>2
  <2> QED
    BY <1>0, <2>1, <2>2, OwnerFrame
<1>3. CASE MarkSucceeded(r) \/ MarkFailed(r) \/ MarkRetry(r) \/ LoseMark(r)
  <2>1. rpc[r] # "idle" /\ Leave(r)
    BY <1>3 DEF MarkSucceeded, MarkFailed, MarkRetry, LoseMark
  <2>2. job[r].row \in Triggers /\ rows[job[r].row].status = "RUNNING"
    BY <2>1 DEF OwnerInv, WorksOnItsOwn, ClaimedOnce, TypeOK, Claimed
  <2>3. \A j \in Triggers : rows[j] \in Row
    BY <1>0 DEF TypeOK
  <2>4. /\ \A j \in Triggers : rows'[j].fp = rows[j].fp
        /\ \A j \in Triggers : j # job[r].row => rows'[j].status = rows[j].status
        /\ rows'[job[r].row].status # "ABSENT"
    <3>1. CASE MarkSucceeded(r)
      BY <1>0, <2>2, <2>3, <3>1 DEF MarkSucceeded, Row, TypeOK
    <3>2. CASE MarkFailed(r)
      BY <1>0, <2>2, <2>3, <3>2 DEF MarkFailed, Row, TypeOK
    <3>3. CASE MarkRetry(r)
      BY <1>0, <2>2, <2>3, <3>3 DEF MarkRetry, Row, TypeOK
    <3>4. CASE LoseMark(r)
      BY <2>2, <3>4 DEF LoseMark
    <3> QED
      BY <1>3, <3>1, <3>2, <3>3, <3>4
  <2> QED
    BY <1>0, <2>1, <2>4, LeaveOwner
<1>4. CASE Die(r)
  <2>1. \A s \in Runners : batch'[s] = IF s = r THEN {} ELSE batch[s]
    BY <1>0, <1>4 DEF Die, TypeOK
  <2>2. \A s \in Runners : rpc'[s] # "idle" => s # r /\ rpc[s] # "idle" /\ job'[s] = job[s]
    BY <1>0, <1>4 DEF Die, RunnerAt, TypeOK
  <2>3. rows' = rows
    BY <1>4 DEF Die
  <2> QED
    BY <1>0, <2>1, <2>2, <2>3
    DEF OwnerInv, ClaimedOnce, WorksOnItsOwn, NotCreatedYet, OneRowPerContent, Held
<1> QED
  BY <1>1, <1>2, <1>3, <1>4 DEF RunnerStep

LEMMA OwnerStep == OwnerInv /\ [Next]_vars => OwnerInv'
<1> SUFFICES ASSUME OwnerInv, [Next]_vars PROVE OwnerInv'
  OBVIOUS
<1>1. TypeOK'
  BY TypeStep DEF OwnerInv
<1>2. CASE UNCHANGED vars
  BY <1>1, <1>2, OwnerFrame DEF OwnerInv, WorksOnItsOwn, vars, triggerVars, runnerVars
<1>3. CASE Next
  BY <1>1, <1>3, TriggerOwner, RunnerOwner DEF Next
<1> QED
  BY <1>2, <1>3

\* A row that somebody works on is RUNNING and has one owner, whatever revives, rewrites or
\* claims the rows meanwhile.
THEOREM OneOwner == Spec => []ClaimedOnce
<1>1. OwnerInv => ClaimedOnce
  BY DEF OwnerInv
<1> QED
  BY <1>1, InitOwner, OwnerStep, PTL DEF Spec

-----------------------------------------------------------------------------
(* The newest review stands.                                               *)

LEMMA CommitStands ==
  ASSUME TypeOK, NEW r \in Runners, Commit(r)
  PROVE  NewestStands'
<1> DEFINE old == Outdated(olds[r])
           new == [fp |-> snapshot[r], status |-> "SUCCEEDED"]
<1>1. old \in Seq(Review)
  BY OutdatedType DEF TypeOK
<1>2. new \in Review /\ new.status = "SUCCEEDED"
  BY DEF TypeOK, Review
<1>3. reviews' = Append(old, new)
  BY DEF Commit
<1> HIDE DEF old, new
<1>4. Len(reviews') = Len(old) + 1 /\ reviews'[Len(old) + 1] = new
  BY <1>1, <1>2, <1>3
<1> QED
  BY <1>2, <1>4 DEF NewestStands

LEMMA StandsStep == TypeOK /\ NewestStands /\ [Next]_vars => NewestStands'
<1> SUFFICES ASSUME TypeOK, NewestStands, [Next]_vars PROVE NewestStands'
  OBVIOUS
<1>1. CASE UNCHANGED reviews
  BY <1>1 DEF NewestStands
<1>2. ASSUME NEW r \in Runners, Commit(r) PROVE NewestStands'
  BY <1>2, CommitStands
<1>3. UNCHANGED reviews \/ \E r \in Runners : Commit(r)
  BY DEF Next, vars, TriggerStep, LoseTrigger, Edit, BuildContext, LookForReview, FindQueued,
         Collapse, Revive, CreateRow, RunnerStep, Throw, LoseMark, Die, Claim, Take, Rebuild,
         LookAgain, AskProvider, Supersede, MarkSucceeded, MarkFailed, MarkRetry
<1> QED
  BY <1>1, <1>2, <1>3

\* Once something has been reviewed, the newest review stands.
THEOREM SomethingStands == Spec => []NewestStands
<1>1. Init => NewestStands
  BY DEF Init, NewestStands
<1> QED
  BY <1>1, InitType, TypeStep, StandsStep, PTL DEF Spec

-----------------------------------------------------------------------------
(* Retries end, and success is final.                                      *)

\* What a claim returned is not more than a row may count, and a retry is only decided on
\* while there is room for one more.
RetriesHaveRoom ==
    /\ \A j \in Triggers : rows[j].attempts < MaxAttempts
    /\ \A r \in Runners : \A a \in batch[r] : a.attempts < MaxAttempts
    /\ \A r \in Runners : job[r].attempts < MaxAttempts
    /\ \A r \in Runners : rpc[r] = "retry" => job[r].attempts + 1 < MaxAttempts

LEMMA InitRoom == Init => RetriesHaveRoom
BY DEF Init, RetriesHaveRoom, Absent, NoJob, MaxAttempts

\* A rewrite decides nothing and only ever starts a count anew.
LEMMA Rewritten ==
  ASSUME TypeOK, NEW t \in Triggers, Collapse(t), NEW j \in Triggers
  PROVE  /\ rows'[j].status = rows[j].status
         /\ rows'[j].attempts \in {rows[j].attempts, 0}
<1> DEFINE k == target[t]
<1>1. k \in Triggers /\ rows \in [Triggers -> Row]
  BY DEF TypeOK
<1>2. \/ rows' = rows
      \/ rows' = [rows EXCEPT ![k] = [rows[k] EXCEPT !.fp = tfp[t], !.attempts = 0]]
  BY <1>1 DEF Collapse
<1>3. rows[k] \in Row
  BY <1>1
<1> HIDE DEF k
<1>4. CASE rows' = rows
  BY <1>4
<1>5. CASE rows' = [rows EXCEPT ![k] = [rows[k] EXCEPT !.fp = tfp[t], !.attempts = 0]]
  <2>1. CASE j # k
    BY <1>1, <1>5, <2>1
  <2>2. CASE j = k
    <3>1. rows'[j] = [rows[k] EXCEPT !.fp = tfp[t], !.attempts = 0]
      BY <1>1, <1>5, <2>2
    <3>2. rows'[j].status = rows[k].status /\ rows'[j].attempts = 0
      BY <1>3, <3>1 DEF Row
    <3> QED
      BY <2>2, <3>2
  <2> QED
    BY <2>1, <2>2
<1> QED
  BY <1>2, <1>4, <1>5

LEMMA TriggerRoom ==
  ASSUME TypeOK, RetriesHaveRoom, NEW t \in Triggers,
         TriggerStep(t) \/ LoseTrigger(t) \/ \E c \in Contents : Edit(t, c)
  PROVE  RetriesHaveRoom'
<1>1. UNCHANGED runnerVars
  BY TriggerOwn
<1>2. \A j \in Triggers : rows'[j].attempts < MaxAttempts
  <2>1. \A j \in Triggers : rows'[j].attempts \in {rows[j].attempts, 0}
    <3>1. \A j \in Triggers : rows[j] \in Row
      BY DEF TypeOK
    <3>2. CASE Collapse(t)
      BY <3>2, Rewritten
    <3>3. CASE Revive(t)
      <4>1. \A j \in Triggers : rows'[j] \in {rows[j], [rows[j] EXCEPT !.status = "QUEUED", !.attempts = 0]}
        BY <3>3 DEF Revive
      <4>2. \A j \in Triggers : [rows[j] EXCEPT !.status = "QUEUED", !.attempts = 0].attempts = 0
        BY <3>1 DEF Row
      <4> QED
        BY <4>1, <4>2
    <3>4. CASE CreateRow(t)
      BY <3>4 DEF CreateRow, TypeOK
    <3>5. CASE UNCHANGED rows
      BY <3>5
    <3> QED
      BY <3>2, <3>3, <3>4, <3>5
      DEF TriggerStep, LoseTrigger, Edit, BuildContext, LookForReview, FindQueued
  <2>2. \A j \in Triggers : rows[j].attempts < MaxAttempts
    BY DEF RetriesHaveRoom
  <2> QED
    BY <2>1, <2>2 DEF MaxAttempts
<1> QED
  BY <1>1, <1>2 DEF RetriesHaveRoom, runnerVars

LEMMA RunnerRoom ==
  ASSUME TypeOK, RetriesHaveRoom, NEW r \in Runners,
         RunnerStep(r) \/ Throw(r) \/ LoseMark(r) \/ Die(r)
  PROVE  RetriesHaveRoom'
<1> USE DEF TypeOK, RetriesHaveRoom, RunnerAt
<1>0. NoJob.attempts < MaxAttempts
  BY DEF NoJob, MaxAttempts
<1>1. CASE Claim(r)
  <2>1. \A j \in Triggers : rows'[j].attempts = rows[j].attempts
    BY <1>1 DEF Claim, Row
  <2>2. \A s \in Runners : \A a \in batch'[s] : a.attempts < MaxAttempts
    BY <1>1 DEF Claim, Due
  <2> QED
    BY <1>1, <2>1, <2>2 DEF Claim
<1>2. CASE Take(r)
  BY <1>2 DEF Take
<1>3. CASE AskProvider(r)
  BY <1>3 DEF AskProvider
<1>4. CASE Rebuild(r) \/ LookAgain(r) \/ Supersede(r) \/ Commit(r) \/ Throw(r)
  BY <1>4 DEF Rebuild, LookAgain, Supersede, Commit, Throw
<1>5. CASE MarkSucceeded(r) \/ MarkFailed(r) \/ MarkRetry(r)
  <2>1. \A j \in Triggers : rows'[j].attempts < MaxAttempts
    <3> DEFINE k == job[r].row
               n == job[r].attempts + 1
    <3>1. k \in Triggers /\ rows \in [Triggers -> Row]
      BY DEF Claimed
    <3>2. \/ rows' = [rows EXCEPT ![k] = [rows[k] EXCEPT !.status = "SUCCEEDED"]]
          \/ rows' = [rows EXCEPT ![k] = [rows[k] EXCEPT !.status = "FAILED"]]
          \/ n < MaxAttempts /\ rows' = [rows EXCEPT ![k] = [rows[k] EXCEPT !.status = "QUEUED", !.attempts = n]]
      BY <1>5, <3>1 DEF MarkSucceeded, MarkFailed, MarkRetry
    <3>3. rows[k].attempts < MaxAttempts /\ rows[k] \in Row
      BY <3>1
    <3> HIDE DEF k, n
    <3>4. rows'[k].attempts < MaxAttempts
      <4>1. \/ rows'[k] = [rows[k] EXCEPT !.status = "SUCCEEDED"]
            \/ rows'[k] = [rows[k] EXCEPT !.status = "FAILED"]
            \/ n < MaxAttempts /\ rows'[k] = [rows[k] EXCEPT !.status = "QUEUED", !.attempts = n]
        BY <3>1, <3>2
      <4>2. rows'[k].attempts = rows[k].attempts \/ (n < MaxAttempts /\ rows'[k].attempts = n)
        BY <3>3, <4>1 DEF Row
      <4> QED
        BY <3>3, <4>2
    <3>5. \A j \in Triggers : j # k => rows'[j] = rows[j]
      BY <3>1, <3>2
    <3> QED
      BY <3>4, <3>5
  <2>2. Leave(r)
    BY <1>5 DEF MarkSucceeded, MarkFailed, MarkRetry
  <2> QED
    BY <1>0, <2>1, <2>2 DEF Leave
<1>6. CASE LoseMark(r)
  BY <1>0, <1>6 DEF LoseMark, Leave
<1>7. CASE Die(r)
  BY <1>0, <1>7 DEF Die
<1> QED
  BY <1>1, <1>2, <1>3, <1>4, <1>5, <1>6, <1>7 DEF RunnerStep

LEMMA RoomStep == TypeOK /\ RetriesHaveRoom /\ [Next]_vars => RetriesHaveRoom'
<1> SUFFICES ASSUME TypeOK, RetriesHaveRoom, [Next]_vars PROVE RetriesHaveRoom'
  OBVIOUS
<1>1. CASE UNCHANGED vars
  BY <1>1 DEF RetriesHaveRoom, vars, runnerVars
<1> QED
  BY <1>1, TriggerRoom, RunnerRoom DEF Next

\* The ceiling of MAX_ATTEMPTS: no row, and no claim of one, ever counts up to it, although
\* the count is read when the row is claimed and written back when the job is over, however
\* many runners share the rows and whatever a rewrite or a revival does meanwhile.
AttemptsEnd ==
    /\ \A j \in Triggers : rows[j].attempts < MaxAttempts
    /\ \A r \in Runners : \A a \in batch[r] : a.attempts < MaxAttempts

\* The attempts a row counts stay below the ceiling.
THEOREM AttemptsStayBounded == Spec => []AttemptsEnd
<1>1. RetriesHaveRoom => AttemptsEnd
  BY DEF RetriesHaveRoom, AttemptsEnd
<1> QED
  BY <1>1, InitType, InitRoom, TypeStep, RoomStep, PTL DEF Spec

\* A job that succeeded is not queued, claimed or failed again: a revival looks for failed
\* rows, and the updates that end a job, which go by the row's id alone, never meet a row
\* that somebody else has ended.
StaysDone == \A j \in Triggers : rows[j].status = "SUCCEEDED" => rows'[j].status = "SUCCEEDED"

LEMMA TriggerKeepsDone ==
  ASSUME OwnerInv, NEW t \in Triggers,
         TriggerStep(t) \/ LoseTrigger(t) \/ \E c \in Contents : Edit(t, c)
  PROVE  StaysDone
<1> USE DEF OwnerInv, TypeOK, StaysDone, Row
<1>1. CASE Collapse(t)
  BY <1>1, Rewritten
<1>2. CASE Revive(t)
  <2>1. CASE \E i \in Triggers : Held(tfp[t], i) /\ rows[i].status = "FAILED"
    <3>1. \A j \in Triggers : Held(tfp[t], j) => rows[j].status = "FAILED"
      BY <2>1 DEF OneRowPerContent
    <3>2. \A j \in Triggers : ~ Held(tfp[t], j) => rows'[j] = rows[j]
      BY <1>2, <2>1 DEF Revive
    <3> QED
      BY <3>1, <3>2
  <2>2. CASE ~ \E i \in Triggers : Held(tfp[t], i) /\ rows[i].status = "FAILED"
    BY <1>2, <2>2 DEF Revive
  <2> QED
    BY <2>1, <2>2
<1>3. CASE CreateRow(t)
  <2>1. rows[t].status = "ABSENT"
    BY <1>3 DEF CreateRow, NotCreatedYet
  <2> QED
    BY <1>3, <2>1 DEF CreateRow
<1>4. CASE UNCHANGED rows
  BY <1>4
<1> QED
  BY <1>1, <1>2, <1>3, <1>4
  DEF TriggerStep, LoseTrigger, Edit, BuildContext, LookForReview, FindQueued

LEMMA RunnerKeepsDone ==
  ASSUME OwnerInv, NEW r \in Runners, RunnerStep(r) \/ Throw(r) \/ LoseMark(r) \/ Die(r)
  PROVE  StaysDone
<1> USE DEF OwnerInv, TypeOK, StaysDone, Row
<1>1. CASE Claim(r)
  BY <1>1 DEF Claim, Due
<1>2. CASE MarkSucceeded(r) \/ MarkFailed(r) \/ MarkRetry(r)
  <2>1. job[r] \in batch[r]
    BY <1>2 DEF MarkSucceeded, MarkFailed, MarkRetry, WorksOnItsOwn
  <2>2. rows[job[r].row].status = "RUNNING"
    BY <2>1 DEF ClaimedOnce
  <2>3. \A j \in Triggers : j # job[r].row => rows'[j] = rows[j]
    BY <1>2 DEF MarkSucceeded, MarkFailed, MarkRetry
  <2> QED
    BY <2>2, <2>3
<1>3. CASE UNCHANGED rows
  BY <1>3
<1> QED
  BY <1>1, <1>2, <1>3
  DEF RunnerStep, Throw, LoseMark, Die, Take, Rebuild, LookAgain, AskProvider, Supersede, Commit

\* A job that succeeded stays so.
THEOREM SuccessIsFinal == Spec => [][StaysDone]_vars
<1>1. OwnerInv /\ [Next]_vars => [StaysDone]_vars
  BY TriggerKeepsDone, RunnerKeepsDone DEF Next
<1> QED
  BY <1>1, InitOwner, OwnerStep, PTL DEF Spec

-----------------------------------------------------------------------------
(* The promise is kept.                                                    *)

\* What is about to be rewritten is there: a row never disappears.
TargetExists == \A t \in Triggers : tpc[t] = "collapse" => rows[target[t]].status # "ABSENT"

PromiseInv == OwnerInv /\ RetriesHaveRoom /\ TargetExists

LEMMA InitJobPromise == Init => PromiseInv
BY InitOwner, InitRoom DEF Init, PromiseInv, TargetExists

\* A runner's updates meet the row it has.
LEMMA EndsItsOwn ==
  ASSUME OwnerInv, NEW r \in Runners, rpc[r] # "idle"
  PROVE  /\ job[r] \in batch[r] /\ job[r].row \in Triggers
         /\ rows[job[r].row].status = "RUNNING"
         /\ Having(job[r].row) = {r}
<1>1. job[r] \in batch[r]
  BY DEF OwnerInv, WorksOnItsOwn
<1>2. \A s \in Runners : \A b \in batch[s] : b.row = job[r].row => s = r
  BY <1>1 DEF OwnerInv, ClaimedOnce
<1> QED
  BY <1>1, <1>2, OwnedRow DEF OwnerInv, ClaimedOnce, Having

LEMMA RowsStay ==
  ASSUME PromiseInv, [Next]_vars, NEW j \in Triggers, rows[j].status # "ABSENT"
  PROVE  rows'[j].status # "ABSENT"
<1> USE DEF PromiseInv, OwnerInv, TypeOK, Row
<1>1. ASSUME NEW t \in Triggers, Collapse(t) PROVE rows'[j].status # "ABSENT"
  BY <1>1, Rewritten
<1>2. ASSUME NEW t \in Triggers, Revive(t) \/ CreateRow(t) PROVE rows'[j].status # "ABSENT"
  <2>1. CASE Revive(t)
    <3>1. rows'[j] \in {rows[j], [rows[j] EXCEPT !.status = "QUEUED", !.attempts = 0]}
      BY <2>1 DEF Revive
    <3>2. rows[j] \in Row
      OBVIOUS
    <3> QED
      BY <3>1, <3>2
  <2>2. CASE CreateRow(t)
    BY <2>2 DEF CreateRow
  <2> QED
    BY <1>2, <2>1, <2>2
<1>3. ASSUME NEW r \in Runners, Claim(r) PROVE rows'[j].status # "ABSENT"
  BY <1>3 DEF Claim
<1>4. ASSUME NEW r \in Runners, MarkSucceeded(r) \/ MarkFailed(r) \/ MarkRetry(r)
      PROVE rows'[j].status # "ABSENT"
  <2>1. job[r].row \in Triggers
    BY DEF Claimed
  <2>2. CASE j = job[r].row
    BY <1>4, <2>1, <2>2 DEF MarkSucceeded, MarkFailed, MarkRetry
  <2>3. CASE j # job[r].row
    BY <1>4, <2>1, <2>3 DEF MarkSucceeded, MarkFailed, MarkRetry
  <2> QED
    BY <2>2, <2>3
<1>5. CASE UNCHANGED rows
  BY <1>5
<1> QED
  BY <1>1, <1>2, <1>3, <1>4, <1>5
  DEF Next, vars, TriggerStep, LoseTrigger, Edit, BuildContext, LookForReview, FindQueued,
      RunnerStep, Throw, LoseMark, Die, Take, Rebuild, LookAgain, AskProvider, Supersede, Commit

LEMMA TargetStep == PromiseInv /\ [Next]_vars => TargetExists'
<1> SUFFICES ASSUME PromiseInv, [Next]_vars, NEW t \in Triggers, tpc'[t] = "collapse"
             PROVE rows'[target'[t]].status # "ABSENT"
  BY DEF TargetExists
<1> USE DEF PromiseInv, OwnerInv
<1>1. target[t] \in Triggers
  BY DEF TypeOK
<1>2. CASE tpc[t] = "collapse" /\ target'[t] = target[t]
  BY <1>1, <1>2, RowsStay DEF TargetExists
<1>3. ASSUME NEW u \in Triggers, TriggerStep(u) \/ LoseTrigger(u) \/ \E c \in Contents : Edit(u, c)
      PROVE \/ tpc[t] = "collapse" /\ target'[t] = target[t]
            \/ FindQueued(t)
  BY <1>3 DEF TypeOK, TriggerStep, LoseTrigger, Edit, BuildContext, LookForReview, FindQueued,
              Collapse, Revive, CreateRow, Return, GoOn, TriggerAt
<1>4. CASE FindQueued(t)
  <2>1. \E j \in Triggers : rows[j].status = "QUEUED" /\ target' = [target EXCEPT ![t] = j]
    BY <1>4 DEF FindQueued, GoOn, TriggerAt, TypeOK
  <2>2. rows' = rows
    BY <1>4 DEF FindQueued
  <2> QED
    BY <2>1, <2>2 DEF TypeOK
<1>5. UNCHANGED triggerVars \/ \E u \in Triggers : \/ TriggerStep(u) \/ LoseTrigger(u)
                                                   \/ \E c \in Contents : Edit(u, c)
  BY RunnerOwn DEF Next, vars
<1> QED
  BY <1>2, <1>3, <1>4, <1>5 DEF triggerVars

LEMMA PromiseInvStep == PromiseInv /\ [Next]_vars => PromiseInv'
BY OwnerStep, RoomStep, TargetStep DEF PromiseInv, OwnerInv

LEMMA HiddenMaps ==
  ASSUME UNCHANGED <<rows, batch>>
  PROVE  UNCHANGED Promise!vars
BY DEF Promise!vars, Having

LEMMA TriggerMaps ==
  ASSUME PromiseInv, NEW t \in Triggers,
         TriggerStep(t) \/ LoseTrigger(t) \/ \E c \in Contents : Edit(t, c)
  PROVE  [Promise!Next]_(Promise!vars)
<1>0. rows \in [Triggers -> Row] /\ target[t] \in Triggers /\ batch' = batch
  BY TriggerOwn DEF PromiseInv, OwnerInv, TypeOK, runnerVars
<1>1. UNCHANGED [j \in Triggers |-> Having(j)]
  BY <1>0 DEF Having
<1>2. CASE UNCHANGED rows
  BY <1>0, <1>2, HiddenMaps
<1>3. CASE Collapse(t) /\ rows' # rows
  <2>0. PICK k \in Triggers : k = target[t]
    BY <1>0
  <2>1. rows' = [rows EXCEPT ![k] = [rows[k] EXCEPT !.fp = tfp[t], !.attempts = 0]]
    BY <1>0, <1>3, <2>0 DEF Collapse
  <2>2. rows[k].status # "ABSENT"
    BY <1>3, <2>0 DEF PromiseInv, TargetExists, Collapse
  <2>3. \A j \in Triggers : rows'[j].status = rows[j].status
    BY <1>3, Rewritten DEF PromiseInv, OwnerInv
  <2>4. rows'[k].attempts = 0 /\ \A j \in Triggers \ {k} : rows'[j] = rows[j]
    <3>1. rows[k] \in Row
      BY <1>0
    <3>2. rows'[k] = [rows[k] EXCEPT !.fp = tfp[t], !.attempts = 0]
      BY <1>0, <2>1, <3>1
    <3> QED
      BY <1>0, <2>1, <3>1, <3>2 DEF Row
  <2>5. Promise!Replace(k)
    BY <1>0, <1>1, <2>2, <2>3, <2>4 DEF Promise!Replace
  <2> QED
    BY <2>5 DEF Promise!Next
<1>4. CASE Revive(t) /\ rows' # rows
  <2>1. PICK i \in Triggers : Held(tfp[t], i) /\ rows[i].status = "FAILED"
    BY <1>4 DEF Revive
  <2>2. \A j \in Triggers : Held(tfp[t], j) <=> j = i
    BY <2>1 DEF PromiseInv, OwnerInv, OneRowPerContent, TypeOK
  <2>3. \A j \in Triggers : rows'[j] = IF j = i THEN [rows[i] EXCEPT !.status = "QUEUED", !.attempts = 0]
                                               ELSE rows[j]
    BY <1>4, <2>1, <2>2 DEF Revive
  <2>4. rows'[i].status = "QUEUED" /\ rows'[i].attempts = 0
    BY <1>0, <2>3 DEF Row
  <2>5. Promise!Ask(i)
    BY <1>1, <2>1, <2>3, <2>4 DEF Promise!Ask
  <2> QED
    BY <2>5 DEF Promise!Next
<1>5. CASE CreateRow(t) /\ rows' # rows
  <2>1. rows[t].status = "ABSENT"
    BY <1>5 DEF PromiseInv, OwnerInv, CreateRow, NotCreatedYet
  <2>2. rows' = [rows EXCEPT ![t] = [status |-> "QUEUED", fp |-> tfp[t], attempts |-> 0]]
    BY <1>5 DEF CreateRow
  <2>3. Promise!Ask(t)
    BY <1>0, <1>1, <2>1, <2>2 DEF Promise!Ask
  <2> QED
    BY <2>3 DEF Promise!Next
<1> QED
  BY <1>2, <1>3, <1>4, <1>5
  DEF TriggerStep, LoseTrigger, Edit, BuildContext, LookForReview, FindQueued

LEMMA ClaimMaps ==
  ASSUME PromiseInv, NEW r \in Runners, Claim(r)
  PROVE  \E S \in SUBSET Triggers : Promise!Take(r, S)
<1> USE DEF PromiseInv, OwnerInv, TypeOK
<1>0. PICK S \in SUBSET Triggers : S = Due
  BY DEF Due
<1>1. \A j \in Triggers : /\ rows'[j].status = IF j \in Due THEN "RUNNING" ELSE rows[j].status
                          /\ rows'[j].attempts = rows[j].attempts
  BY DEF Claim, Row
<1>2. batch[r] = {} /\ batch' = [batch EXCEPT ![r] = {[row |-> j, attempts |-> rows[j].attempts] : j \in Due}]
  BY DEF Claim
<1>3. \A j \in Triggers \ Due : Having(j)' = Having(j)
  BY <1>2 DEF Having
<1>4. ASSUME NEW j \in Due PROVE Having(j)' = {r}
  <2>1. rows[j].status = "QUEUED" /\ j \in Triggers
    BY DEF Due
  <2>2. \A s \in Runners : \A a \in batch[s] : a.row # j
    BY <2>1 DEF ClaimedOnce
  <2>3. \E a \in batch'[r] : a.row = j
    <3> DEFINE a == [row |-> j, attempts |-> rows[j].attempts]
    <3>1. a \in batch'[r]
      BY <1>2
    <3> QED
      BY <3>1
  <2>4. \A s \in Runners \ {r} : batch'[s] = batch[s]
    BY <1>2
  <2> QED
    BY <2>2, <2>3, <2>4 DEF Having
<1> QED
  <2>1. Promise!Take(r, S)
    BY <1>0, <1>1, <1>3, <1>4 DEF Promise!Take, Due
  <2> QED
    BY <2>1

\* Where a runner has done with its job.
LEMMA LeaveHands ==
  ASSUME OwnerInv, NEW r \in Runners, rpc[r] # "idle",
         batch' = [batch EXCEPT ![r] = @ \ {job[r]}]
  PROVE  \A j \in Triggers : Having(j)' = IF j = job[r].row THEN {} ELSE Having(j)
<1> USE DEF OwnerInv, TypeOK
<1>1. job[r] \in batch[r]
  BY EndsItsOwn
<1>2. \A s \in Runners \ {r} : batch'[s] = batch[s]
  OBVIOUS
<1>3. batch'[r] = batch[r] \ {job[r]}
  OBVIOUS
<1>4. ASSUME NEW j \in Triggers, j # job[r].row PROVE Having(j)' = Having(j)
  BY <1>2, <1>3, <1>4 DEF Having
<1>5. \A s \in Runners : \A b \in batch'[s] : b.row # job[r].row
  BY <1>1, <1>2, <1>3 DEF ClaimedOnce
<1> QED
  BY <1>4, <1>5 DEF Having

LEMMA MarkMaps ==
  ASSUME PromiseInv, NEW r \in Runners, MarkSucceeded(r) \/ MarkFailed(r) \/ MarkRetry(r)
  PROVE  Promise!Next
<1>0. OwnerInv /\ rows \in [Triggers -> Row] /\ rpc[r] # "idle"
  BY DEF PromiseInv, OwnerInv, TypeOK, MarkSucceeded, MarkFailed, MarkRetry
<1> PICK k \in Triggers : k = job[r].row
  BY <1>0, EndsItsOwn
<1> DEFINE n == job[r].attempts + 1
<1>1. rows[k].status = "RUNNING" /\ Having(k) = {r}
  BY <1>0, EndsItsOwn
<1>2. \A j \in Triggers : Having(j)' = IF j = k THEN {} ELSE Having(j)
  BY <1>0, LeaveHands DEF MarkSucceeded, MarkFailed, MarkRetry, Leave
<1>3. MarkRetry(r) => n \in 1..(MaxAttempts - 1)
  BY DEF PromiseInv, OwnerInv, TypeOK, RetriesHaveRoom, MarkRetry, Claimed, MaxAttempts
<1>4. \/ rows' = [rows EXCEPT ![k] = [rows[k] EXCEPT !.status = "SUCCEEDED"]]
      \/ rows' = [rows EXCEPT ![k] = [rows[k] EXCEPT !.status = "FAILED"]]
      \/ MarkRetry(r) /\ rows' = [rows EXCEPT ![k] = [rows[k] EXCEPT !.status = "QUEUED", !.attempts = n]]
  BY <1>0, <1>1 DEF MarkSucceeded, MarkFailed, MarkRetry
<1> HIDE DEF n
<1>5. \A j \in Triggers \ {k} : rows'[j] = rows[j]
  BY <1>0, <1>1, <1>4
<1>6. rows[k] \in Row
  BY <1>0, <1>1
<1>7. ASSUME NEW outcome \in {"SUCCEEDED", "FAILED"},
             rows' = [rows EXCEPT ![k] = [rows[k] EXCEPT !.status = outcome]]
      PROVE Promise!Decide(r, k, outcome)
  <2>1. rows'[k] = [rows[k] EXCEPT !.status = outcome]
    BY <1>0, <1>1, <1>7
  <2>2. rows'[k].status = outcome /\ rows'[k].attempts = rows[k].attempts
    BY <1>6, <2>1 DEF Row
  <2> QED
    BY <1>1, <1>2, <1>5, <2>2 DEF Promise!Decide
<1>8. ASSUME NEW c \in 1..(MaxAttempts - 1),
             rows' = [rows EXCEPT ![k] = [rows[k] EXCEPT !.status = "QUEUED", !.attempts = c]]
      PROVE Promise!TryAgain(r, k, c)
  <2>1. rows'[k] = [rows[k] EXCEPT !.status = "QUEUED", !.attempts = c]
    BY <1>0, <1>1, <1>8
  <2>2. rows'[k].status = "QUEUED" /\ rows'[k].attempts = c
    BY <1>6, <2>1 DEF Row
  <2> QED
    BY <1>1, <1>2, <1>5, <2>2 DEF Promise!TryAgain
<1>9. CASE MarkRetry(r) /\ rows' = [rows EXCEPT ![k] = [rows[k] EXCEPT !.status = "QUEUED", !.attempts = n]]
  <2>1. PICK c \in 1..(MaxAttempts - 1) : c = n
    BY <1>3, <1>9
  <2>2. Promise!TryAgain(r, k, c)
    BY <1>8, <1>9, <2>1
  <2> QED
    BY <2>2 DEF Promise!Next
<1> QED
  BY <1>4, <1>7, <1>9 DEF Promise!Next

LEMMA RunnerMaps ==
  ASSUME PromiseInv, NEW r \in Runners, RunnerStep(r) \/ Throw(r) \/ LoseMark(r) \/ Die(r)
  PROVE  [Promise!Next]_(Promise!vars)
<1>0. OwnerInv /\ batch \in [Runners -> SUBSET Claimed]
  BY DEF PromiseInv, OwnerInv, TypeOK
<1>1. CASE UNCHANGED <<rows, batch>>
  BY <1>1, HiddenMaps
<1>2. CASE Claim(r)
  BY <1>2, ClaimMaps DEF Promise!Next
<1>3. CASE MarkSucceeded(r) \/ MarkFailed(r) \/ MarkRetry(r)
  BY <1>3, MarkMaps
<1>4. CASE LoseMark(r)
  <2> DEFINE S == {job[r].row}
  <2>1. rpc[r] # "idle" /\ rows' = rows
    BY <1>4 DEF LoseMark
  <2>2. \A j \in Triggers : Having(j)' = IF j \in S THEN {} ELSE Having(j)
    BY <1>0, <1>4, <2>1, LeaveHands DEF LoseMark, Leave
  <2>3. S \in SUBSET Triggers /\ \A j \in S : Having(j) = {r}
    BY <1>0, <2>1, EndsItsOwn
  <2>4. Promise!LetGo(r, S)
    BY <2>1, <2>2, <2>3 DEF Promise!LetGo
  <2> QED
    BY <2>3, <2>4 DEF Promise!Next
<1>5. CASE Die(r)
  <2> DEFINE S == {j \in Triggers : \E a \in batch[r] : a.row = j}
  <2>1. rows' = rows /\ batch' = [batch EXCEPT ![r] = {}]
    BY <1>5 DEF Die
  <2>2. \A j \in S : Having(j) = {r}
    BY <1>0 DEF OwnerInv, ClaimedOnce, Having
  <2>3. \A s \in Runners \ {r} : batch'[s] = batch[s]
    BY <1>0, <2>1
  <2>4. \A j \in Triggers : Having(j)' = IF j \in S THEN {} ELSE Having(j)
    <3>1. \A j \in Triggers : Having(j)' = Having(j) \ {r}
      BY <1>0, <2>1, <2>3 DEF Having
    <3>2. \A j \in Triggers \ S : r \notin Having(j)
      BY DEF Having
    <3> QED
      BY <2>2, <3>1, <3>2
  <2>5. Promise!LetGo(r, S)
    BY <2>1, <2>2, <2>4 DEF Promise!LetGo
  <2> QED
    BY <2>5 DEF Promise!Next
<1> QED
  BY <1>1, <1>2, <1>3, <1>4, <1>5
  DEF RunnerStep, Throw, Take, Rebuild, LookAgain, AskProvider, Supersede, Commit

LEMMA JobPromiseStep == PromiseInv /\ [Next]_vars => [Promise!Next]_(Promise!vars)
<1> SUFFICES ASSUME PromiseInv, [Next]_vars PROVE [Promise!Next]_(Promise!vars)
  OBVIOUS
<1>1. CASE UNCHANGED vars
  BY <1>1, HiddenMaps DEF vars, runnerVars
<1> QED
  BY <1>1, TriggerMaps, RunnerMaps DEF Next

\* The triggers and the runners implement the promise of the queue, for any number of them and of
\* contents: overlapping claims, revivals, rewrites by a row's id, throws and deaths included.
THEOREM JobPromiseIsKept == Spec => KeepsJobPromise
<1>1. Init => Promise!Init
  <2> SUFFICES ASSUME Init PROVE Promise!Init
    OBVIOUS
  <2>1. \A j \in Triggers : Having(j) = {}
    BY DEF Init, Having
  <2> QED
    BY <2>1 DEF Init, Absent, Promise!Init
<1> QED
  BY <1>1, InitJobPromise, PromiseInvStep, JobPromiseStep, PTL DEF Spec, KeepsJobPromise, Promise!Spec

-----------------------------------------------------------------------------
(* What is left of JobsConclude without its fairness.                      *)

\* A row that is RUNNING is in somebody's hands, unless a process died or a mark was lost: there
\* is no other way for a row to be forgotten, and none of the rows a cron would not find.
RunningIsHeld == \A j \in Triggers : rows[j].status = "RUNNING" /\ Having(j) = {} => "died" \in mishaps

LEMMA MishapsStay ==
  ASSUME [Next]_vars, "died" \in mishaps
  PROVE  "died" \in mishaps'
BY DEF Next, vars, TriggerStep, LoseTrigger, Edit, BuildContext, LookForReview, FindQueued, Collapse,
       Revive, CreateRow, RunnerStep, Throw, LoseMark, Die, Claim, Take, Rebuild, LookAgain, AskProvider,
       Supersede, Commit, MarkSucceeded, MarkFailed, MarkRetry, Mishap

\* A step that makes no row RUNNING and takes none out of a runner's hands but when it ends it.
LEMMA HeldStep ==
  ASSUME [Next]_vars, RunningIsHeld,
         \A j \in Triggers : rows'[j].status = "RUNNING" /\ Having(j)' = {} =>
                                rows[j].status = "RUNNING" /\ Having(j) = {}
  PROVE  RunningIsHeld'
BY MishapsStay DEF RunningIsHeld

LEMMA TriggerHolds ==
  ASSUME PromiseInv, RunningIsHeld, [Next]_vars, NEW t \in Triggers,
         TriggerStep(t) \/ LoseTrigger(t) \/ \E c \in Contents : Edit(t, c)
  PROVE  RunningIsHeld'
<1>1. \A j \in Triggers : Having(j)' = Having(j)
  BY TriggerOwn DEF PromiseInv, OwnerInv, runnerVars, Having
<1>2. ASSUME NEW j \in Triggers, rows'[j].status = "RUNNING" PROVE rows[j].status = "RUNNING"
  <2>0. rows \in [Triggers -> Row]
    BY DEF PromiseInv, OwnerInv, TypeOK
  <2>1. CASE Collapse(t)
    BY <1>2, <2>1, Rewritten DEF PromiseInv, OwnerInv
  <2>2. CASE Revive(t)
    <3>1. rows'[j] \in {rows[j], [rows[j] EXCEPT !.status = "QUEUED", !.attempts = 0]}
      BY <2>2 DEF Revive
    <3>2. rows[j] \in Row
      BY <2>0
    <3> QED
      BY <1>2, <3>1, <3>2 DEF Row
  <2>3. CASE CreateRow(t)
    BY <1>2, <2>0, <2>3 DEF CreateRow
  <2>4. CASE UNCHANGED rows
    BY <1>2, <2>4
  <2> QED
    BY <2>1, <2>2, <2>3, <2>4
    DEF TriggerStep, LoseTrigger, Edit, BuildContext, LookForReview, FindQueued
<1> QED
  BY <1>1, <1>2, HeldStep

LEMMA RunnerHolds ==
  ASSUME PromiseInv, RunningIsHeld, [Next]_vars, NEW r \in Runners,
         RunnerStep(r) \/ Throw(r) \/ LoseMark(r) \/ Die(r)
  PROVE  RunningIsHeld'
<1>0. OwnerInv /\ rows \in [Triggers -> Row]
  BY DEF PromiseInv, OwnerInv, TypeOK
<1>1. CASE UNCHANGED <<rows, batch>>
  BY <1>1, HeldStep DEF Having
<1>2. CASE Claim(r)
  <2>1. PICK S \in SUBSET Triggers : Promise!Take(r, S)
    BY <1>2, ClaimMaps
  <2>2. \A j \in Triggers : /\ rows'[j].status = IF j \in S THEN "RUNNING" ELSE rows[j].status
                            /\ Having(j)' = IF j \in S THEN {r} ELSE Having(j)
    BY <2>1 DEF Promise!Take
  <2> QED
    BY <2>2, HeldStep
<1>3. CASE MarkSucceeded(r) \/ MarkFailed(r) \/ MarkRetry(r)
  <2>1. PICK k \in Triggers : k = job[r].row
    BY <1>0, <1>3, EndsItsOwn DEF MarkSucceeded, MarkFailed, MarkRetry
  <2>2. \A j \in Triggers : Having(j)' = IF j = k THEN {} ELSE Having(j)
    BY <1>0, <1>3, <2>1, LeaveHands DEF MarkSucceeded, MarkFailed, MarkRetry, Leave
  <2>3. rows'[k].status \in {"SUCCEEDED", "FAILED", "QUEUED"}
    BY <1>0, <1>3, <2>1 DEF MarkSucceeded, MarkFailed, MarkRetry, Row
  <2>4. \A j \in Triggers \ {k} : rows'[j] = rows[j]
    BY <1>0, <1>3, <2>1 DEF MarkSucceeded, MarkFailed, MarkRetry
  <2> QED
    BY <2>2, <2>3, <2>4, HeldStep
<1>4. CASE LoseMark(r) \/ Die(r)
  BY <1>4 DEF LoseMark, Die, Mishap, RunningIsHeld
<1> QED
  BY <1>1, <1>2, <1>3, <1>4
  DEF RunnerStep, Throw, Take, Rebuild, LookAgain, AskProvider, Supersede, Commit

\* Without a death or a lost mark, every claimed row is in the hands of a runner that will end it.
THEOREM NoRowForgotten == Spec => []RunningIsHeld
<1>1. Init => RunningIsHeld
  BY DEF Init, RunningIsHeld, Absent
<1>2. PromiseInv /\ RunningIsHeld /\ [Next]_vars => RunningIsHeld'
  <2> SUFFICES ASSUME PromiseInv, RunningIsHeld, [Next]_vars PROVE RunningIsHeld'
    OBVIOUS
  <2>1. CASE UNCHANGED vars
    BY <2>1 DEF vars, runnerVars, RunningIsHeld, Having
  <2> QED
    BY <2>1, TriggerHolds, RunnerHolds DEF Next
<1> QED
  BY <1>1, <1>2, InitJobPromise, PromiseInvStep, PTL DEF Spec

=============================================================================
