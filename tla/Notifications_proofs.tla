------------------------ MODULE Notifications_proofs ------------------------
(***************************************************************************)
(* Theorems about Notifications for every number of users, facts, orders,  *)
(* handlers, attempts and failures: its state is well typed, and it        *)
(* implements the mailbox, so a fact that was handled to its end left no   *)
(* recipient out.                                                          *)
(***************************************************************************)
EXTENDS Notifications, FunctionTheorems, FiniteSetTheorems, TLAPS

-----------------------------------------------------------------------------
(* What the messages carry. *)

LEMMA FactShape ==
    ASSUME NEW m \in Facts
    PROVE  /\ m \in Messages /\ m.kind \in FactKinds /\ m.key \in Keys
           /\ m.channel \in Channels /\ m.to \subseteq Users
  BY FactsAssumption DEF AllFacts, Messages

LEMMA OrderShape ==
    ASSUME NEW m \in Orders
    PROVE  /\ m \in Messages
           /\ m.kind \in {"retry", "prefer", "edit"}
           /\ m.kind = "retry" => m.row \in Rows
           /\ m.kind = "prefer" => /\ m.user \in Users /\ m.key \in Keys
                                   /\ m.enabled \in BOOLEAN
           /\ m.kind = "edit" => /\ m.key \in Keys /\ m.channel \in Channels
                                 /\ m.content \in Contents \cup {Missing}
  BY OrdersAssumption DEF Retries, Choices, Edits, Messages

LEMMA KindsTell ==
    ASSUME NEW m \in Messages \cup {NoMessage}
    PROVE  /\ m.kind \in FactKinds <=> m \in Facts
           /\ m.kind \in {"retry", "prefer", "edit"} <=> m \in Orders
           /\ m.kind = "none" <=> m = NoMessage
  BY FactShape, OrderShape DEF Messages, NoMessage, FactKinds

LEMMA RowShape ==
    ASSUME NEW r \in Rows
    PROVE  /\ r[1] \in Facts /\ r[2] \in Users /\ r[2] \in r[1].to
           /\ r = <<r[1], r[2]>>
  BY DEF Rows

LEMMA RowOf ==
    ASSUME NEW f \in Facts, NEW u \in f.to
    PROVE  /\ <<f, u>> \in Rows /\ <<f, u>>[1] = f /\ <<f, u>>[2] = u
  BY FactShape DEF Rows

-----------------------------------------------------------------------------
(* How a handler goes on. *)
LEMMA SlotShape ==
    ASSUME TypeOK, NEW s \in Slots
    PROVE  /\ slots[s] \in Slot /\ slots[s].msg \in Messages \cup {NoMessage}
           /\ slots[s].todo \subseteq Users
  BY DEF TypeOK, Slot

LEMMA GoTyped ==
    ASSUME TypeOK, NEW s \in Slots,
           NEW step \in {"record", "add", "forget", "ack"}, Go(s, step)
    PROVE  slots' \in [Slots -> Slot]
  <1>1. slots[s] \in Slot
    BY SlotShape
  <1>2. [slots[s] EXCEPT !.step = step] \in Slot
    BY <1>1 DEF Slot
  <1>3. slots' = [slots EXCEPT ![s] = [slots[s] EXCEPT !.step = step]]
    BY DEF Go
  <1> QED
    BY <1>2, <1>3 DEF TypeOK

LEMMA NextTyped ==
    ASSUME TypeOK, NEW s \in Slots, NEW todo \in SUBSET Users,
           NEW step \in {"preference", "record"}, NextRecipient(s, todo, step)
    PROVE  slots' \in [Slots -> Slot]
  <1>1. slots[s] \in Slot
    BY SlotShape
  <1>2. CASE slots' = [slots EXCEPT ![s] = [@ EXCEPT !.step = "ack",
                                                      !.user = Nobody]]
    <2>1. [slots[s] EXCEPT !.step = "ack", !.user = Nobody] \in Slot
      BY <1>1 DEF Slot
    <2> QED
      BY <1>2, <2>1 DEF TypeOK
  <1>3. ASSUME NEW u \in todo,
               slots' = [slots EXCEPT ![s] = [@ EXCEPT !.step = step, !.user = u,
                                                       !.todo = todo \ {u}]]
        PROVE  slots' \in [Slots -> Slot]
    <2>1. [slots[s] EXCEPT !.step = step, !.user = u, !.todo = todo \ {u}] \in Slot
      BY <1>1 DEF Slot
    <2> QED
      BY <1>3, <2>1 DEF TypeOK
  <1> QED
    BY <1>2, <1>3 DEF NextRecipient

LEMMA FreeTyped == FreeSlot \in Slot
  BY DEF FreeSlot, Slot

-----------------------------------------------------------------------------
(* The queue. *)

JobsOK ==
    /\ jobs \subseteq Job
    /\ worker \in Worker
    /\ \A i, j \in jobs : i.nr = j.nr => i = j
    /\ {j.nr : j \in {i \in jobs : i.active}} =
          (IF worker.step = "idle" THEN {} ELSE {worker.nr})

(* Below the bound there is a number for one more job. *)
LEMMA NumberFree ==
    ASSUME JobsOK, Cardinality(jobs) < MaxJobs
    PROVE  FreeNr \in 1..MaxJobs /\ \A j \in jobs : j.nr # FreeNr
  <1> DEFINE f == [j \in jobs |-> j.nr]
             N == 1..MaxJobs
  <1>1. IsFiniteSet(N) /\ Cardinality(N) = MaxJobs
    BY LimitsAssumption, FS_Interval
  <1>2. f \in [jobs -> N]
    BY DEF JobsOK, Job
  <1>3. f \in Injection(jobs, N)
    BY <1>2 DEF JobsOK, Injection, IsInjective
  <1>4. IsFiniteSet(jobs) /\ Cardinality(jobs) \in Nat
    BY <1>1, <1>3, FS_Injection, FS_CardinalityType
  <1>5. \E n \in N : \A j \in jobs : j.nr # n
    <2> SUFFICES ASSUME \A n \in N : \E j \in jobs : j.nr = n
                 PROVE  FALSE
      OBVIOUS
    <2>1. f \in Surjection(jobs, N)
      BY <1>2 DEF Surjection
    <2>2. Cardinality(N) <= Cardinality(jobs)
      BY <1>4, <2>1, FS_Surjection
    <2> QED
      BY <1>1, <1>4, <2>2, LimitsAssumption
  <1> QED
    BY <1>5 DEF FreeNr

LEMMA AddJobTyped ==
    ASSUME JobsOK, NEW row \in Rows, NEW n \in {Attempts, RetryAttempts},
           AddJob(row, n), worker' = worker
    PROVE  JobsOK'
  <1> DEFINE new == [nr |-> FreeNr, row |-> row, attempts |-> n, made |-> 0,
                     stalls |-> 0, active |-> FALSE]
  <1>1. FreeNr \in 1..MaxJobs /\ \A j \in jobs : j.nr # FreeNr
    BY NumberFree DEF AddJob
  <1>2. new \in Job
    BY <1>1, LimitsAssumption DEF Job
  <1>3. jobs' = jobs \cup {new}
    BY DEF AddJob
  <1>4. {i \in jobs' : i.active} = {i \in jobs : i.active}
    BY <1>3
  <1> HIDE DEF new
  <1>5. new.nr = FreeNr
    BY DEF new
  <1> QED
    BY <1>1, <1>2, <1>3, <1>4, <1>5 DEF JobsOK

(* The worker's job is in the queue. *)
LEMMA WorkersJob ==
    ASSUME JobsOK, worker.step # "idle"
    PROVE  /\ JobOf(worker.nr) \in jobs /\ JobOf(worker.nr).active
           /\ JobOf(worker.nr).nr = worker.nr
           /\ \A j \in jobs : j.active => j = JobOf(worker.nr)
           /\ WorkRow \in Rows
  <1>1. PICK j \in jobs : j.active /\ j.nr = worker.nr
    BY DEF JobsOK
  <1>2. JobOf(worker.nr) = j
    BY <1>1 DEF JobOf, JobsOK
  <1>3. \A i \in jobs : i.active => i.nr = worker.nr
    BY DEF JobsOK
  <1> QED
    BY <1>1, <1>2, <1>3 DEF JobsOK, WorkRow, Job

(* The worker goes on with its job. *)
LEMMA WorkTyped ==
    ASSUME JobsOK, worker.step # "idle", jobs' = jobs,
           worker' \in Worker, worker'.step # "idle", worker'.nr = worker.nr
    PROVE  JobsOK'
  BY DEF JobsOK

LEMMA JobsTyped == TypeOK => JobsOK
  BY DEF TypeOK, JobsOK

-----------------------------------------------------------------------------
(* TypeOK, action by action. *)

(* A handler that works on a fact has a recipient of that fact.            *)
Working == {"preference", "record", "add"}
Shape(s) ==
    /\ slots[s].step = "idle" <=> slots[s].msg = NoMessage
    /\ slots[s].step \in Working /\ slots[s].msg \in Facts =>
          /\ slots[s].user \in slots[s].msg.to
          /\ slots[s].todo \subseteq slots[s].msg.to
    /\ slots[s].step \in {"preference", "record"} => slots[s].msg \in Facts
    /\ slots[s].step = "add" => \/ slots[s].msg \in Facts
                               \/ slots[s].msg.kind = "retry"
    /\ slots[s].step = "forget" => slots[s].msg \in Orders
SlotInv == \A s \in Slots : Shape(s)

LEMMA RecipientRow ==
    ASSUME TypeOK, SlotInv, NEW s \in Slots, slots[s].step \in Working
    PROVE  /\ slots[s].msg \in Facts => Row(s) \in Rows /\ Row(s)[1] = slots[s].msg
           /\ slots[s].step # "add" => slots[s].msg \in Facts
           /\ slots[s].msg \in Messages
  <1>1. slots[s].msg \in Messages
    BY SlotShape DEF SlotInv, Shape, Working
  <1>2. slots[s].msg \in Facts => Row(s) \in Rows /\ Row(s)[1] = slots[s].msg
    BY RowOf DEF SlotInv, Shape, Working, Row
  <1> QED
    BY <1>1, <1>2 DEF SlotInv, Shape, Working

LEMMA AddedRow ==
    ASSUME TypeOK, SlotInv, NEW s \in Slots, slots[s].step = "add"
    PROVE  AddedTo(s) \in Rows
  <1>1. slots[s].msg \in Messages /\ slots[s].step \in Working
    BY RecipientRow DEF Working
  <1>2. CASE slots[s].msg \in Facts
    <2>1. slots[s].msg.kind # "retry"
      BY <1>2, FactShape DEF FactKinds
    <2> QED
      BY <1>1, <1>2, <2>1, RecipientRow DEF AddedTo
  <1>3. CASE slots[s].msg.kind = "retry"
    <2>1. slots[s].msg \in Orders
      BY <1>1, <1>3, KindsTell
    <2> QED
      BY <1>3, <2>1, OrderShape DEF AddedTo
  <1> QED
    BY <1>2, <1>3 DEF SlotInv, Shape

(* Where a message is, when a handler or a publisher moves it.             *)
LEMMA FateTyped ==
    ASSUME TypeOK, NEW m, NEW f \in Fates, fate' = [fate EXCEPT ![m] = f]
    PROVE  fate' \in [Messages -> Fates]
  BY DEF TypeOK

LEMMA PublishTyped ==
    ASSUME TypeOK, NEW m \in Messages, Publish(m)
    PROVE  TypeOK'
  <1>1. fate' \in [Messages -> Fates]
    BY FateTyped DEF Publish, Fates
  <1>2. declined' \subseteq Rows
    BY DEF Publish, TypeOK
  <1> QED
    BY <1>1, <1>2 DEF Publish, TypeOK, wording, TemplatesTypeOK

LEMMA ReceiveTyped ==
    ASSUME TypeOK, NEW s \in Slots, Receive(s)
    PROVE  TypeOK'
  <1>1. PICK m \in Messages :
           /\ fate' = [fate EXCEPT ![m] = "held"]
           /\ slots' = [slots EXCEPT ![s] = [FreeSlot EXCEPT !.msg = m,
                                                             !.step = "start"]]
    BY DEF Receive
  <1>2. [FreeSlot EXCEPT !.msg = m, !.step = "start"] \in Slot
    BY DEF FreeSlot, Slot
  <1>3. slots' \in [Slots -> Slot]
    BY <1>1, <1>2 DEF TypeOK
  <1>4. fate' \in [Messages -> Fates]
    BY <1>1, FateTyped DEF Fates
  <1> QED
    BY <1>3, <1>4 DEF Receive, TypeOK, wording, history, TemplatesTypeOK

LEMMA SlotStepTyped ==
    ASSUME TypeOK, SlotInv, NEW s \in Slots, SlotStep(s)
    PROVE  TypeOK'
  <1> DEFINE m == slots[s].msg
  <1>j. JobsOK
    BY JobsTyped
  <1>k. ASSUME NEW kinds, NEW step, At(s, kinds, step)
        PROVE  m.kind \in kinds /\ m \in Messages \cup {NoMessage}
    BY <1>k, SlotShape DEF At
  <1>t. slots[s].todo \in SUBSET Users
    BY SlotShape
  <1>1. CASE Acknowledge(s)
    <2>1. slots' \in [Slots -> Slot]
      BY <1>1, FreeTyped DEF Acknowledge, TypeOK
    <2>2. fate' \in [Messages -> Fates]
      BY <1>1, FateTyped DEF Acknowledge, Fates
    <2> QED
      BY <1>1, <2>1, <2>2 DEF Acknowledge, TypeOK, wording, history, TemplatesTypeOK
  <1>2. CASE Consume(s)
    <2>1. m \in Facts
      BY <1>2, <1>k, KindsTell DEF Consume
    <2>2. slots' \in [Slots -> Slot]
      BY <1>2, <2>1, FactShape, NextTyped DEF Consume
    <2> QED
      BY <1>2, <2>2 DEF Consume, TypeOK, wording, history, TemplatesTypeOK
  <1>3. CASE ReadPreference(s)
    <2>1. slots' \in [Slots -> Slot]
      BY <1>3, GoTyped DEF ReadPreference
    <2> QED
      BY <1>3, <2>1 DEF ReadPreference, TypeOK, wording, history, TemplatesTypeOK
  <1>4. CASE SkipOptedOut(s)
    <2>1. slots' \in [Slots -> Slot]
      BY <1>4, <1>t, NextTyped DEF SkipOptedOut
    <2>2. Row(s) \in Rows
      BY <1>4, RecipientRow DEF SkipOptedOut, Working
    <2> QED
      BY <1>4, <2>1, <2>2 DEF SkipOptedOut, TypeOK, wording, TemplatesTypeOK
  <1>5. CASE RecordRow(s)
    <2>1. slots' \in [Slots -> Slot]
      BY <1>5, GoTyped DEF RecordRow
    <2>2. rows' \in [Rows -> Statuses]
      BY <1>5 DEF RecordRow, TypeOK, Statuses
    <2> QED
      BY <1>5, <2>1, <2>2 DEF RecordRow, TypeOK, wording, history, TemplatesTypeOK
  <1>6. CASE SuppressDuplicate(s)
    <2>1. slots' \in [Slots -> Slot]
      BY <1>6, <1>t, NextTyped DEF SuppressDuplicate
    <2> QED
      BY <1>6, <2>1 DEF SuppressDuplicate, TypeOK, wording, history, TemplatesTypeOK
  <1>7. CASE QueueDelivery(s)
    <2>1. slots' \in [Slots -> Slot]
      BY <1>7, <1>t, NextTyped DEF QueueDelivery
    <2>2. m \in Facts
      BY <1>7, <1>k, KindsTell DEF QueueDelivery
    <2>3. Row(s) \in Rows
      BY <1>7, <2>2, RecipientRow DEF QueueDelivery, At, Working
    <2>4. JobsOK'
      BY <1>7, <1>j, <2>3, AddJobTyped DEF QueueDelivery
    <2> QED
      BY <1>7, <2>1, <2>4
         DEF QueueDelivery, AddJob, JobsOK, TypeOK, wording, TemplatesTypeOK
  <1>8. CASE RetryWrites(s)
    <2>1. slots' \in [Slots -> Slot]
      BY <1>8, GoTyped DEF RetryWrites
    <2>2. m \in Orders /\ m.kind = "retry"
      BY <1>8, <1>k, KindsTell DEF RetryWrites
    <2>3. m.row \in Rows
      BY <2>2, OrderShape
    <2>4. rows' \in [Rows -> Statuses]
      BY <1>8, <2>3 DEF RetryWrites, TypeOK, Statuses
    <2>5. excuses' \in [Rows -> Nat]
      <3>1. \/ excuses' = excuses
            \/ excuses' = [excuses EXCEPT ![m.row] = excuses[m.row] + 1]
        BY <1>8 DEF RetryWrites
      <3>2. excuses \in [Rows -> Nat] /\ excuses[m.row] + 1 \in Nat
        BY <2>3 DEF TypeOK
      <3> HIDE DEF m
      <3> QED
        BY <3>1, <3>2
    <2> QED
      BY <1>8, <2>1, <2>4, <2>5 DEF RetryWrites, TypeOK, wording, TemplatesTypeOK
  <1>9. CASE RetryAdds(s)
    <2>1. slots' \in [Slots -> Slot]
      BY <1>9, GoTyped DEF RetryAdds
    <2>2. m \in Orders /\ m.kind = "retry"
      BY <1>9, <1>k, KindsTell DEF RetryAdds
    <2>3. m.row \in Rows
      BY <2>2, OrderShape
    <2>4. JobsOK'
      BY <1>9, <1>j, <2>3, AddJobTyped DEF RetryAdds
    <2> QED
      BY <1>9, <2>1, <2>4
         DEF RetryAdds, AddJob, JobsOK, TypeOK, wording, TemplatesTypeOK
  <1>10. CASE UpdatePreference(s)
    <2>1. slots' \in [Slots -> Slot]
      BY <1>10, GoTyped DEF UpdatePreference
    <2>2. m \in Orders /\ m.kind = "prefer"
      BY <1>10, <1>k, KindsTell DEF UpdatePreference
    <2>3. <<m.user, m.key>> \in Users \X Keys
      BY <2>2, OrderShape
    <2>4. optedOut' \subseteq Users \X Keys /\ declined' \subseteq Rows
      BY <1>10, <2>3 DEF UpdatePreference, TypeOK
    <2> QED
      BY <1>10, <2>1, <2>4 DEF UpdatePreference, TypeOK, wording, TemplatesTypeOK
  <1>11. CASE UpsertTemplate(s)
    <2>1. slots' \in [Slots -> Slot]
      BY <1>11, GoTyped DEF UpsertTemplate
    <2>2. m \in Orders /\ m.kind = "edit"
      BY <1>11, <1>k, KindsTell DEF UpsertTemplate
    <2>3. TemplatesTypeOK'
      BY <1>11, <2>2, OrderShape
         DEF UpsertTemplate, StoreTemplate, TypeOK, TemplatesTypeOK
    <2>4. worker' \in Worker /\ worker'.step = worker.step /\ worker'.nr = worker.nr
      <3>1. worker \in Worker
        BY DEF TypeOK
      <3>2. /\ [worker EXCEPT !.overtaken = TRUE] \in Worker
            /\ [worker EXCEPT !.overtaken = TRUE].step = worker.step
            /\ [worker EXCEPT !.overtaken = TRUE].nr = worker.nr
        BY <3>1 DEF Worker
      <3>3. worker' = worker \/ worker' = [worker EXCEPT !.overtaken = TRUE]
        BY <1>11 DEF UpsertTemplate
      <3> QED
        BY <3>1, <3>2, <3>3
    <2> QED
      BY <1>11, <2>1, <2>3, <2>4 DEF UpsertTemplate, TypeOK, history
  <1>12. CASE ForgetTemplate(s)
    <2>1. slots' \in [Slots -> Slot]
      BY <1>12, GoTyped DEF ForgetTemplate
    <2>2. TemplatesTypeOK'
      BY <1>12 DEF ForgetTemplate, Forget, TypeOK, TemplatesTypeOK
    <2> QED
      BY <1>12, <2>1, <2>2 DEF ForgetTemplate, TypeOK, history
  <1> QED
    BY <1>1, <1>2, <1>3, <1>4, <1>5, <1>6, <1>7, <1>8, <1>9, <1>10, <1>11, <1>12
       DEF SlotStep

LEMMA RestingTyped == Resting \in Worker /\ Resting.step = "idle"
  BY LimitsAssumption DEF Resting, Worker

LEMMA WorkerAt ==
    ASSUME NEW j \in Job, NEW step \in {"render", "done", "failed"}
    PROVE  LET w == [Resting EXCEPT !.step = step, !.nr = j.nr]
           IN  w \in Worker /\ w.step = step /\ w.nr = j.nr
  <1>1. j.nr \in 0..MaxJobs
    BY LimitsAssumption DEF Job
  <1>2. \A w \in Worker : LET v == [w EXCEPT !.step = step, !.nr = j.nr]
                         IN  v \in Worker /\ v.step = step /\ v.nr = j.nr
    BY <1>1 DEF Worker
  <1> QED
    BY <1>2, RestingTyped

(* A job the worker takes up, or gives back.                               *)
LEMMA TakenTyped ==
    ASSUME JobsOK, NEW j \in jobs, ~j.active, worker.step = "idle",
           jobs' = (jobs \ {j}) \cup {[j EXCEPT !.active = TRUE]},
           worker' \in Worker, worker'.step # "idle", worker'.nr = j.nr
    PROVE  JobsOK'
  <1> DEFINE taken == [j EXCEPT !.active = TRUE]
  <1>0. j \in Job
    BY DEF JobsOK
  <1>1. j \in Job /\ taken \in Job /\ taken.nr = j.nr /\ taken.active
    BY <1>0 DEF Job
  <1>2. \A i \in jobs : ~i.active
    BY DEF JobsOK
  <1>5. jobs' = (jobs \ {j}) \cup {taken}
    OBVIOUS
  <1> HIDE DEF taken
  <1>3. {i \in jobs' : i.active} = {taken}
    BY <1>1, <1>2, <1>5
  <1>4. {i.nr : i \in {i \in jobs' : i.active}} = {worker'.nr}
    BY <1>1, <1>3
  <1> QED
    BY <1>1, <1>4, <1>5 DEF JobsOK

LEMMA ClosedTyped ==
    ASSUME JobsOK, worker.step # "idle", CloseJob
    PROVE  JobsOK'
  <1> DEFINE j == JobOf(worker.nr)
             back == [j EXCEPT !.made = @ + 1, !.active = FALSE]
  <1>1. j \in jobs /\ \A i \in jobs : i.active => i = j
    BY WorkersJob
  <1>2. worker' = Resting
    BY DEF CloseJob
  <1>3. CASE jobs' = jobs \ {j}
    <2>1. \A i \in jobs' : ~i.active
      BY <1>1, <1>3
    <2> QED
      BY <1>2, <1>3, <2>1, RestingTyped DEF JobsOK
  <1>4. CASE jobs' = (jobs \ {j}) \cup {back} /\ j.made + 1 < j.attempts
    <2>1. j \in Job
      BY <1>1 DEF JobsOK
    <2>2. j.made + 1 \in 0..(Attempts + RetryAttempts)
      BY <1>4, <2>1, LimitsAssumption DEF Job
    <2>3. back \in Job /\ back.nr = j.nr /\ ~back.active
      BY <2>1, <2>2 DEF Job
    <2> HIDE DEF back
    <2>4. \A i \in jobs' : ~i.active
      BY <1>1, <1>4, <2>3
    <2> QED
      BY <1>1, <1>2, <1>4, <2>3, <2>4, RestingTyped DEF JobsOK
  <1>5. \/ jobs' = jobs \ {j}
        \/ jobs' = (jobs \ {j}) \cup {back} /\ ~(j.made + 1 >= j.attempts)
    BY DEF CloseJob
  <1>6. ~(j.made + 1 >= j.attempts) => j.made + 1 < j.attempts
    BY <1>1, LimitsAssumption DEF JobsOK, Job
  <1> QED
    BY <1>3, <1>4, <1>5, <1>6

LEMMA WorkerStepTyped ==
    ASSUME TypeOK, WorkerStep
    PROVE  TypeOK'
  <1>j. JobsOK
    BY JobsTyped
  <1>w. worker \in Worker
    BY DEF TypeOK
  <1>e. ASSUME NEW step \in {"compile", "send", "mark", "catch", "done", "failed"},
               Work(step)
        PROVE  worker' \in Worker /\ worker'.step # "idle" /\ worker'.nr = worker.nr
    BY <1>w, <1>e DEF Work, Worker
  <1>1. ASSUME NEW j \in jobs, TakeJob(j)
        PROVE  TypeOK'
    <2>1. j \in Job
      BY DEF TypeOK
    <2>2. /\ worker' \in Worker /\ worker'.step # "idle" /\ worker'.nr = j.nr
      BY <1>1, <2>1, WorkerAt DEF TakeJob
    <2>3. JobsOK'
      BY <1>1, <1>j, <2>2, TakenTyped DEF TakeJob
    <2>4. rows' \in [Rows -> Statuses]
      BY <1>1 DEF TakeJob, TypeOK, Statuses
    <2> QED
      BY <1>1, <2>3, <2>4 DEF TakeJob, JobsOK, TypeOK, wording, history, TemplatesTypeOK
  <1>2. CASE ReadTemplate
    <2>1. WorkRow[1] \in Facts
      BY <1>2, <1>j, WorkersJob, RowShape DEF ReadTemplate
    <2>2. Source(WorkRow[1].key, WorkRow[1].channel) \in Contents \cup {Missing}
      BY <2>1, FactShape, DefaultsAssumption DEF Source, TypeOK, TemplatesTypeOK
    <2>3. worker' \in Worker /\ worker'.step # "idle" /\ worker'.nr = worker.nr
      BY <1>2, <1>w, <2>2 DEF ReadTemplate, Worker
    <2>4. JobsOK'
      BY <1>2, <1>j, <2>3, WorkTyped DEF ReadTemplate
    <2> QED
      BY <1>2, <2>4 DEF ReadTemplate, JobsOK, TypeOK, wording, history, TemplatesTypeOK
  <1>3. CASE CompileTemplate
    <2>1. WorkRow[1].key \in Keys
      BY <1>3, <1>j, WorkersJob, RowShape, FactShape DEF CompileTemplate
    <2>2. TemplatesTypeOK'
      BY <1>3, <1>w, <2>1
         DEF CompileTemplate, Compile, Compiled, TypeOK, TemplatesTypeOK, Worker
    <2>3. Work("send") \/ Work("catch")
      BY <1>3 DEF CompileTemplate
    <2>4. JobsOK'
      BY <1>3, <1>e, <1>j, <2>3, WorkTyped DEF CompileTemplate
    <2> QED
      BY <1>3, <2>2, <2>4 DEF CompileTemplate, JobsOK, TypeOK, history
  <1>4. CASE SendMail
    <2>1. JobsOK'
      BY <1>4, <1>e, <1>j, WorkTyped DEF SendMail
    <2>2. mails' \in [Rows -> Nat]
      BY <1>4, <1>j, WorkersJob DEF SendMail, Accepted, TypeOK
    <2> QED
      BY <1>4, <2>1, <2>2 DEF SendMail, JobsOK, TypeOK, wording, TemplatesTypeOK
  <1>5. CASE MarkSent
    <2>1. JobsOK'
      BY <1>5, <1>e, <1>j, WorkTyped DEF MarkSent
    <2>2. rows' \in [Rows -> Statuses] /\ stranded' \subseteq Rows
      BY <1>5 DEF MarkSent, TypeOK, Statuses
    <2> QED
      BY <1>5, <2>1, <2>2 DEF MarkSent, JobsOK, TypeOK, wording, TemplatesTypeOK
  <1>6. CASE CatchFailure
    <2>1. JobsOK'
      BY <1>6, <1>e, <1>j, WorkTyped DEF CatchFailure
    <2>2. rows' \in [Rows -> Statuses] /\ stranded' \subseteq Rows
      BY <1>6 DEF CatchFailure, TypeOK, Statuses
    <2> QED
      BY <1>6, <2>1, <2>2 DEF CatchFailure, JobsOK, TypeOK, wording, TemplatesTypeOK
  <1>7. CASE CloseJob
    <2>1. JobsOK'
      BY <1>7, <1>j, ClosedTyped DEF CloseJob
    <2> QED
      BY <1>7, <2>1 DEF CloseJob, JobsOK, TypeOK, wording, history, TemplatesTypeOK
  <1> QED
    BY <1>1, <1>2, <1>3, <1>4, <1>5, <1>6, <1>7 DEF WorkerStep

LEMMA FaultTyped ==
    ASSUME TypeOK, Fault
    PROVE  failures' \in 0..MaxFailures
  BY LimitsAssumption DEF TypeOK, Fault

(* After a crash no job is being processed. *)
LEMMA CrashedTyped ==
    ASSUME TypeOK, Crash
    PROVE  JobsOK'
  <1> DEFINE running == {j \in jobs : j.active}
             givenUp == {j \in running : j.stalls = 1}
             again == {Resumed(j) : j \in running \ givenUp}
  <1>1. jobs' = (jobs \ running) \cup again /\ worker' = Resting
    BY DEF Crash
  <1>2. \A j \in jobs : /\ j \in Job /\ Resumed(j) \in Job
                        /\ Resumed(j).nr = j.nr /\ ~Resumed(j).active
    <2> TAKE j \in jobs
    <2>1. j \in Job
      BY DEF TypeOK
    <2>2. Resumed(j) \in Job
      <3>1. 1 \in 0..1
        OBVIOUS
      <3>2. [j EXCEPT !.active = FALSE] \in Job
        BY <2>1 DEF Job
      <3>3. [[j EXCEPT !.active = FALSE] EXCEPT !.stalls = 1] \in Job
        BY <3>1, <3>2 DEF Job
      <3>4. Resumed(j) = [[j EXCEPT !.active = FALSE] EXCEPT !.stalls = 1]
        BY <2>1 DEF Resumed, Job
      <3> QED
        BY <3>3, <3>4
    <2>3. Resumed(j).nr = j.nr
      BY <2>1 DEF Job, Resumed
    <2>4. ~Resumed(j).active
      BY <2>1 DEF Job, Resumed
    <2> QED
      BY <2>1, <2>2, <2>3, <2>4
  <1>3. \A i \in jobs' : /\ i \in Job /\ ~i.active
                         /\ \/ i \in jobs \ running
                            \/ \E j \in running : i = Resumed(j)
    BY <1>1, <1>2
  <1>4. \A i, j \in jobs' : i.nr = j.nr => i = j
    <2> SUFFICES ASSUME NEW i \in jobs', NEW j \in jobs', i.nr = j.nr
                 PROVE  i = j
      OBVIOUS
    <2>1. ASSUME NEW l \in jobs'
          PROVE  \E k \in jobs : k.nr = l.nr /\ l = IF k.active THEN Resumed(k) ELSE k
      <3>1. CASE l \in jobs \ running
        <4>1. l \in jobs /\ l = IF l.active THEN Resumed(l) ELSE l
          BY <3>1
        <4> QED
          BY <4>1
      <3>2. ASSUME NEW k \in running, l = Resumed(k)
            PROVE  k \in jobs /\ k.nr = l.nr /\ l = IF k.active THEN Resumed(k) ELSE k
        BY <1>2, <3>2
      <3> QED
        BY <1>3, <3>1, <3>2
    <2>2. PICK k \in jobs : k.nr = i.nr /\ i = IF k.active THEN Resumed(k) ELSE k
      BY <2>1
    <2>3. PICK l \in jobs : l.nr = j.nr /\ j = IF l.active THEN Resumed(l) ELSE l
      BY <2>1
    <2>4. k = l
      BY <2>2, <2>3 DEF TypeOK
    <2> QED
      BY <2>2, <2>3, <2>4
  <1>5. {i.nr : i \in {i \in jobs' : i.active}} = {}
    BY <1>3
  <1> QED
    BY <1>1, <1>3, <1>4, <1>5, RestingTyped DEF JobsOK

LEMMA FailuresTyped ==
    ASSUME TypeOK, SlotInv, Failures
    PROVE  TypeOK'
  <1>j. JobsOK
    BY JobsTyped
  <1>w. worker \in Worker
    BY DEF TypeOK
  <1>e. ASSUME NEW step \in {"compile", "send", "mark", "catch", "done", "failed"},
               Work(step)
        PROVE  worker' \in Worker /\ worker'.step # "idle" /\ worker'.nr = worker.nr
    BY <1>w, <1>e DEF Work, Worker
  <1>1. ASSUME NEW s \in Slots, HandlerFails(s)
        PROVE  TypeOK'
    <2>1. slots' \in [Slots -> Slot]
      BY <1>1, FreeTyped DEF HandlerFails, TypeOK
    <2>2. fate' \in [Messages -> Fates]
      BY <1>1, FateTyped DEF HandlerFails, Fates
    <2>3. stranded' \subseteq Rows
      BY <1>1, AddedRow DEF HandlerFails, TypeOK
    <2>4. failures' \in 0..MaxFailures
      BY <1>1, FaultTyped DEF HandlerFails
    <2> QED
      BY <1>1, <2>1, <2>2, <2>3, <2>4 DEF HandlerFails, TypeOK, wording, TemplatesTypeOK
  <1>2. ASSUME NEW j \in jobs, TakeBreaks(j)
        PROVE  TypeOK'
    <2>1. j \in Job
      BY DEF TypeOK
    <2>2. /\ worker' \in Worker /\ worker'.step # "idle" /\ worker'.nr = j.nr
      BY <1>2, <2>1, WorkerAt DEF TakeBreaks
    <2>3. JobsOK'
      BY <1>2, <1>j, <2>2, TakenTyped DEF TakeBreaks
    <2>4. stranded' \subseteq Rows
      BY <1>2, <2>1 DEF TakeBreaks, Attempted, TypeOK, Job
    <2>5. failures' \in 0..MaxFailures
      BY <1>2, FaultTyped DEF TakeBreaks
    <2> QED
      BY <1>2, <2>3, <2>4, <2>5 DEF TakeBreaks, JobsOK, TypeOK, wording, TemplatesTypeOK
  <1>3. CASE ReadFails
    <2>1. JobsOK'
      BY <1>3, <1>e, <1>j, WorkTyped DEF ReadFails
    <2>2. failures' \in 0..MaxFailures
      BY <1>3, FaultTyped DEF ReadFails
    <2> QED
      BY <1>3, <2>1, <2>2 DEF ReadFails, JobsOK, TypeOK, wording, history, TemplatesTypeOK
  <1>4. CASE SendFails
    <2>1. JobsOK'
      BY <1>4, <1>e, <1>j, WorkTyped DEF SendFails
    <2>2. failures' \in 0..MaxFailures
      BY <1>4, FaultTyped DEF SendFails
    <2>3. mails' \in [Rows -> Nat] /\ excuses' \in [Rows -> Nat]
      BY <1>4, <1>j, WorkersJob DEF SendFails, Accepted, Excused, TypeOK
    <2> QED
      BY <1>4, <2>1, <2>2, <2>3 DEF SendFails, JobsOK, TypeOK, wording, TemplatesTypeOK
  <1>5. CASE MarkFails
    <2>1. JobsOK'
      BY <1>5, <1>e, <1>j, WorkTyped DEF MarkFails
    <2>2. failures' \in 0..MaxFailures
      BY <1>5, FaultTyped DEF MarkFails
    <2>3. excuses' \in [Rows -> Nat]
      BY <1>5, <1>j, WorkersJob DEF MarkFails, Excused, TypeOK
    <2> QED
      BY <1>5, <2>1, <2>2, <2>3 DEF MarkFails, JobsOK, TypeOK, wording, TemplatesTypeOK
  <1>6. CASE CatchBreaks
    <2>1. JobsOK'
      BY <1>6, <1>e, <1>j, WorkTyped DEF CatchBreaks
    <2>2. failures' \in 0..MaxFailures
      BY <1>6, FaultTyped DEF CatchBreaks
    <2>3. stranded' \subseteq Rows
      BY <1>6, <1>j, WorkersJob DEF CatchBreaks, Attempted, TypeOK, WorkRow
    <2> QED
      BY <1>6, <2>1, <2>2, <2>3 DEF CatchBreaks, JobsOK, TypeOK, wording, TemplatesTypeOK
  <1>7. CASE Crash
    <2>1. JobsOK'
      BY <1>7, CrashedTyped
    <2>2. failures' \in 0..MaxFailures
      BY <1>7, FaultTyped DEF Crash
    <2>3. fate' \in [Messages -> Fates]
      BY <1>7 DEF Crash, TypeOK, Fates
    <2>4. slots' \in [Slots -> Slot]
      BY <1>7, FreeTyped DEF Crash
    <2>5. excuses' \in [Rows -> Nat]
      <3>1. CASE worker.step = "mark" /\ Excused
        BY <1>j, <3>1, WorkersJob DEF Excused, TypeOK
      <3>2. CASE UNCHANGED excuses
        BY <3>2 DEF TypeOK
      <3> QED
        BY <1>7, <3>1, <3>2 DEF Crash
    <2>6. stranded' \subseteq Rows
      <3>1. \A s \in Slots : slots[s].step = "add" => AddedTo(s) \in Rows
        BY AddedRow
      <3>2. \A j \in jobs : j.row \in Rows
        BY DEF TypeOK, Job
      <3> QED
        BY <1>7, <3>1, <3>2 DEF Crash, TypeOK
    <2>7. TemplatesTypeOK'
      BY <1>7 DEF Crash, ForgetAll, TypeOK, TemplatesTypeOK
    <2> QED
      BY <1>7, <2>1, <2>2, <2>3, <2>4, <2>5, <2>6, <2>7 DEF Crash, JobsOK, TypeOK
  <1> QED
    BY <1>1, <1>2, <1>3, <1>4, <1>5, <1>6, <1>7 DEF Failures

THEOREM InitTyped == Init => TypeOK
  <1> SUFFICES ASSUME Init PROVE TypeOK
    OBVIOUS
  <1>1. TemplatesTypeOK
    BY DEF Init, TemplatesInit, TemplatesTypeOK
  <1>2. fate \in [Messages -> Fates] /\ rows \in [Rows -> Statuses]
    BY DEF Init, Fates, Statuses
  <1>3. slots \in [Slots -> Slot]
    BY FreeTyped DEF Init
  <1>4. JobsOK
    BY RestingTyped DEF Init, JobsOK
  <1>5. failures \in 0..MaxFailures
    BY LimitsAssumption DEF Init
  <1> QED
    BY <1>1, <1>2, <1>3, <1>4, <1>5 DEF Init, TypeOK, JobsOK

-----------------------------------------------------------------------------
(***************************************************************************)
(* What makes the service a mailbox.  A handler holds its message alone,   *)
(* and the recipients it has passed are covered: each has a row or was     *)
(* skipped.  A row is there before a job or a retry is about it.           *)
(***************************************************************************)
Covered == {r \in Rows : rows[r] # "NONE" \/ r \in skipped}

Holds(s) ==
    /\ slots[s].step # "idle" => fate[slots[s].msg] = "held"
    /\ slots[s].step = "add" =>
          /\ slots[s].msg \in Facts =>
                rows[<<slots[s].msg, slots[s].user>>] # "NONE"
          /\ slots[s].msg.kind = "retry" => rows[slots[s].msg.row] # "NONE"
    /\ slots[s].step \in Working /\ slots[s].msg \in Facts =>
          \A u \in slots[s].msg.to :
              u \in slots[s].todo \/ u = slots[s].user
                \/ <<slots[s].msg, u>> \in Covered
    /\ slots[s].step = "ack" /\ slots[s].msg \in Facts =>
          \A u \in slots[s].msg.to : <<slots[s].msg, u>> \in Covered

HoldsInv == \A s \in Slots : Holds(s)

Alone == \A s, t \in Slots :
            slots[s].step # "idle" /\ slots[s].msg = slots[t].msg => s = t

JobRows == \A j \in jobs : rows[j.row] # "NONE"

RetryRows == \A m \in Messages :
                m.kind = "retry" /\ fate[m] # "unsent" => rows[m.row] # "NONE"

BoxInv == SlotInv /\ HoldsInv /\ Alone /\ JobRows /\ RetryRows

(* No step takes a row or a refusal back.                                  *)
Grows == /\ \A r \in Rows : rows[r] # "NONE" => rows'[r] # "NONE"
         /\ skipped \subseteq skipped'

LEMMA CoveredGrows == Grows => Covered \subseteq Covered'
  BY DEF Grows, Covered

LEMMA StatusGrows ==
    ASSUME TypeOK, NEW r, NEW status \in Statuses \ {"NONE"},
           rows' = [rows EXCEPT ![r] = status], skipped' = skipped
    PROVE  Grows
  BY DEF TypeOK, Grows

LEMMA SameGrows == rows' = rows /\ skipped \subseteq skipped' => Grows
  BY DEF Grows

(* The handler of a slot goes on, the others stay where they are.          *)
LEMMA GoFields ==
    ASSUME TypeOK, NEW s \in Slots, NEW step, Go(s, step)
    PROVE  /\ slots'[s].msg = slots[s].msg /\ slots'[s].step = step
           /\ slots'[s].user = slots[s].user /\ slots'[s].todo = slots[s].todo
           /\ \A t \in Slots : t # s => slots'[t] = slots[t]
  <1>1. slots \in [Slots -> Slot] /\ slots[s] \in Slot
    BY SlotShape DEF TypeOK
  <1>2. slots'[s] = [slots[s] EXCEPT !.step = step]
    BY <1>1 DEF Go
  <1>3. \A t \in Slots : t # s => slots'[t] = slots[t]
    BY <1>1 DEF Go
  <1> QED
    BY <1>1, <1>2, <1>3 DEF Slot

LEMMA NextFields ==
    ASSUME TypeOK, NEW s \in Slots, NEW todo, NEW step,
           NextRecipient(s, todo, step)
    PROVE  /\ slots'[s].msg = slots[s].msg
           /\ \/ todo = {} /\ slots'[s].step = "ack"
              \/ /\ slots'[s].step = step /\ slots'[s].user \in todo
                 /\ slots'[s].todo = todo \ {slots'[s].user}
           /\ \A t \in Slots : t # s => slots'[t] = slots[t]
  <1>1. slots \in [Slots -> Slot] /\ slots[s] \in Slot
    BY SlotShape DEF TypeOK
  <1>2. CASE todo = {} /\ slots' = [slots EXCEPT ![s] = [@ EXCEPT !.step = "ack",
                                                                  !.user = Nobody]]
    <2>1. slots'[s] = [slots[s] EXCEPT !.step = "ack", !.user = Nobody]
      BY <1>1, <1>2
    <2> QED
      BY <1>1, <1>2, <2>1 DEF Slot
  <1>3. ASSUME NEW u \in todo,
               slots' = [slots EXCEPT ![s] = [@ EXCEPT !.step = step, !.user = u,
                                                       !.todo = todo \ {u}]]
        PROVE  /\ slots'[s].msg = slots[s].msg
               /\ slots'[s].step = step /\ slots'[s].user \in todo
               /\ slots'[s].todo = todo \ {slots'[s].user}
               /\ \A t \in Slots : t # s => slots'[t] = slots[t]
    <2>1. slots'[s] = [slots[s] EXCEPT !.step = step, !.user = u, !.todo = todo \ {u}]
      BY <1>1, <1>3
    <2> QED
      BY <1>1, <1>3, <2>1 DEF Slot
  <1> QED
    BY <1>2, <1>3 DEF NextRecipient

LEMMA FreeFields ==
    ASSUME TypeOK, NEW s \in Slots, slots' = [slots EXCEPT ![s] = FreeSlot]
    PROVE  /\ slots'[s].msg = NoMessage /\ slots'[s].step = "idle"
           /\ \A t \in Slots : t # s => slots'[t] = slots[t]
  BY DEF TypeOK, FreeSlot

(* ... which leaves the others as they are.                                *)
LEMMA OthersHold ==
    ASSUME TypeOK, BoxInv, NEW s \in Slots, Grows,
           \A t \in Slots : t # s => slots'[t] = slots[t],
           \A m \in Messages : fate[m] = "held" /\ m # slots[s].msg
                                  => fate'[m] = "held",
           NEW t \in Slots, t # s
    PROVE  Shape(t)' /\ Holds(t)'
  <1>1. slots'[t] = slots[t] /\ Shape(t) /\ Holds(t)
    BY DEF BoxInv, SlotInv, HoldsInv
  <1>2. Shape(t)'
    BY <1>1 DEF Shape
  <1>3. slots[t].step # "idle" => slots[t].msg \in Messages
                                    /\ slots[t].msg # slots[s].msg
    BY <1>1, SlotShape DEF Shape, BoxInv, Alone
  <1>4. slots[t].step # "idle" => fate'[slots[t].msg] = "held"
    BY <1>1, <1>3 DEF Holds
  <1>5. ASSUME slots[t].step = "add"
        PROVE  /\ slots[t].msg \in Facts =>
                     rows'[<<slots[t].msg, slots[t].user>>] # "NONE"
               /\ slots[t].msg.kind = "retry" => rows'[slots[t].msg.row] # "NONE"
    <2>1. slots[t].msg \in Facts => <<slots[t].msg, slots[t].user>> \in Rows
      BY <1>5, RecipientRow DEF BoxInv, Working, Row
    <2>2. slots[t].msg.kind = "retry" => slots[t].msg.row \in Rows
      BY <1>3, <1>5, KindsTell, OrderShape
    <2> QED
      BY <1>1, <1>5, <2>1, <2>2 DEF Holds, Grows
  <1> QED
    BY <1>1, <1>2, <1>4, <1>5, CoveredGrows DEF Holds

(* A handler that holds a message and goes on holds it still.              *)
LEMMA StaysAlone ==
    ASSUME TypeOK, BoxInv, NEW s \in Slots, slots[s].step # "idle",
           \A t \in Slots : t # s => slots'[t] = slots[t],
           slots'[s].msg = slots[s].msg \/ slots'[s] = FreeSlot
    PROVE  Alone'
  <1> SUFFICES ASSUME NEW a \in Slots, NEW b \in Slots,
                      slots'[a].step # "idle", slots'[a].msg = slots'[b].msg
               PROVE  a = b
    BY DEF Alone
  <1>1. \A t \in Slots : slots[t].step # "idle" => slots[t].msg # NoMessage
    BY DEF BoxInv, SlotInv, Shape
  <1>2. CASE slots'[s].msg = slots[s].msg
    BY <1>2 DEF BoxInv, Alone
  <1>3. CASE slots'[s] = FreeSlot
    BY <1>1, <1>3 DEF BoxInv, Alone, FreeSlot
  <1> QED
    BY <1>2, <1>3

(* On to the next recipient: whom it leaves behind must be covered.        *)
LEMMA NextHolds ==
    ASSUME TypeOK, BoxInv, NEW s \in Slots, slots[s].msg \in Facts,
           slots[s].step # "idle",
           NEW todo \in SUBSET slots[s].msg.to,
           NEW step \in {"preference", "record"}, NextRecipient(s, todo, step),
           \A u \in slots[s].msg.to : u \in todo \/ <<slots[s].msg, u>> \in Covered',
           fate' = fate, Grows
    PROVE  SlotInv' /\ HoldsInv' /\ Alone'
  <1>1. /\ slots'[s].msg = slots[s].msg
        /\ \/ todo = {} /\ slots'[s].step = "ack"
           \/ /\ slots'[s].step = step /\ slots'[s].user \in todo
              /\ slots'[s].todo = todo \ {slots'[s].user}
        /\ \A t \in Slots : t # s => slots'[t] = slots[t]
    BY NextFields
  <1>2. fate[slots[s].msg] = "held" /\ slots[s].msg # NoMessage
    BY DEF BoxInv, HoldsInv, Holds, SlotInv, Shape
  <1>3. Shape(s)'
    BY <1>1, <1>2 DEF Shape, Working
  <1>4. Holds(s)'
    BY <1>1, <1>2 DEF Holds, Working
  <1>5. \A t \in Slots : t # s => Shape(t)' /\ Holds(t)'
    BY <1>1, OthersHold
  <1>6. Alone'
    BY <1>1, StaysAlone
  <1> QED
    BY <1>3, <1>4, <1>5, <1>6 DEF SlotInv, HoldsInv

(* A step of the handler's own message.                                    *)
LEMMA GoHolds ==
    ASSUME TypeOK, BoxInv, NEW s \in Slots, slots[s].step # "idle",
           NEW step \in {"record", "add", "forget", "ack"}, Go(s, step),
           fate' = fate, Grows,
           step = "record" => slots[s].step = "preference",
           step = "add" => \/ /\ slots[s].step = "record"
                              /\ rows'[Row(s)] # "NONE"
                           \/ /\ slots[s].msg.kind = "retry"
                              /\ rows'[slots[s].msg.row] # "NONE",
           step \in {"forget", "ack"} => slots[s].msg \in Orders
    PROVE  SlotInv' /\ HoldsInv' /\ Alone'
  <1>1. /\ slots'[s].msg = slots[s].msg /\ slots'[s].step = step
        /\ slots'[s].user = slots[s].user /\ slots'[s].todo = slots[s].todo
        /\ \A t \in Slots : t # s => slots'[t] = slots[t]
    BY GoFields
  <1>2. Shape(s) /\ Holds(s)
    BY DEF BoxInv, SlotInv, HoldsInv
  <1>3. /\ slots[s].msg \in Messages
        /\ slots[s].msg \in Facts => slots[s].msg \notin Orders
                                        /\ slots[s].msg.kind # "retry"
    BY <1>2, SlotShape, FactShape, KindsTell DEF Shape, FactKinds
  <1>4. Shape(s)'
    BY <1>1, <1>2, <1>3 DEF Shape, Working
  <1>5. Holds(s)'
    <2>1. fate'[slots'[s].msg] = "held"
      BY <1>1, <1>2 DEF Holds
    <2>2. ASSUME slots'[s].step = "add"
          PROVE  /\ slots'[s].msg \in Facts =>
                       rows'[<<slots'[s].msg, slots'[s].user>>] # "NONE"
                 /\ slots'[s].msg.kind = "retry" => rows'[slots'[s].msg.row] # "NONE"
      <3>1. CASE slots[s].step = "record" /\ rows'[Row(s)] # "NONE"
        BY <1>1, <1>2, <1>3, <3>1 DEF Row, Shape
      <3>2. CASE slots[s].msg.kind = "retry" /\ rows'[slots[s].msg.row] # "NONE"
        BY <1>1, <1>3, <3>2
      <3> QED
        BY <1>1, <2>2, <3>1, <3>2
    <2>3. ASSUME slots'[s].step \in Working, slots'[s].msg \in Facts
          PROVE  /\ slots[s].step \in Working
                 /\ \A u \in slots'[s].msg.to :
                       u \in slots'[s].todo \/ u = slots'[s].user
                         \/ <<slots'[s].msg, u>> \in Covered'
      <3>1. slots[s].step \in Working
        BY <1>1, <1>3, <2>3 DEF Working
      <3> QED
        BY <1>1, <1>2, <2>3, <3>1, CoveredGrows DEF Holds
    <2>4. slots'[s].step = "ack" => slots'[s].msg \notin Facts
      BY <1>1, <1>3
    <2> QED
      BY <2>1, <2>2, <2>3, <2>4 DEF Holds
  <1>6. \A t \in Slots : t # s => Shape(t)' /\ Holds(t)'
    BY <1>1, OthersHold
  <1>7. Alone'
    BY <1>1, StaysAlone
  <1> QED
    BY <1>4, <1>5, <1>6, <1>7 DEF SlotInv, HoldsInv

(* A handler that is done with its message.                                *)
LEMMA FreeHolds ==
    ASSUME TypeOK, BoxInv, NEW s \in Slots, slots[s].step # "idle",
           slots' = [slots EXCEPT ![s] = FreeSlot], NEW f,
           fate' = [fate EXCEPT ![slots[s].msg] = f], Grows
    PROVE  SlotInv' /\ HoldsInv' /\ Alone'
  <1>1. /\ slots'[s].msg = NoMessage /\ slots'[s].step = "idle"
        /\ \A t \in Slots : t # s => slots'[t] = slots[t]
    BY FreeFields
  <1>2. Shape(s)' /\ Holds(s)'
    BY <1>1 DEF Shape, Holds, Working
  <1>3. \A m \in Messages : fate[m] = "held" /\ m # slots[s].msg => fate'[m] = "held"
    BY DEF TypeOK
  <1>4. \A t \in Slots : t # s => Shape(t)' /\ Holds(t)'
    BY <1>1, <1>3, OthersHold
  <1>5. slots'[s] = FreeSlot
    BY DEF TypeOK
  <1>6. Alone'
    BY <1>1, <1>5, StaysAlone
  <1> QED
    BY <1>2, <1>4, <1>6 DEF SlotInv, HoldsInv

(* Nobody moves.                                                           *)
LEMMA QuietHolds ==
    ASSUME TypeOK, BoxInv, slots' = slots, Grows,
           \A m \in Messages : fate[m] = "held" => fate'[m] = "held"
    PROVE  SlotInv' /\ HoldsInv' /\ Alone'
  <1>1. ASSUME NEW s \in Slots
        PROVE  Shape(s)' /\ Holds(s)'
    <2>1. Shape(s) /\ Holds(s) /\ slots[s].msg \in Messages \cup {NoMessage}
      BY SlotShape DEF BoxInv, SlotInv, HoldsInv
    <2>2. Shape(s)'
      BY <2>1 DEF Shape
    <2>3. slots[s].step = "add" => slots[s].msg \in Messages
      BY <2>1 DEF Shape
    <2>4. ASSUME slots[s].step = "add"
          PROVE  /\ slots[s].msg \in Facts =>
                       rows'[<<slots[s].msg, slots[s].user>>] # "NONE"
                 /\ slots[s].msg.kind = "retry" => rows'[slots[s].msg.row] # "NONE"
      <3>1. slots[s].msg \in Facts => <<slots[s].msg, slots[s].user>> \in Rows
        BY <2>4, RecipientRow DEF BoxInv, Working, Row
      <3>2. slots[s].msg.kind = "retry" => slots[s].msg.row \in Rows
        BY <2>3, <2>4, KindsTell, OrderShape
      <3> QED
        BY <2>1, <2>4, <3>1, <3>2 DEF Holds, Grows
    <2>5. slots[s].step # "idle" => fate'[slots[s].msg] = "held"
      BY <2>1 DEF Holds, Shape
    <2> QED
      BY <2>1, <2>2, <2>4, <2>5, CoveredGrows DEF Holds
  <1>2. Alone'
    BY DEF BoxInv, Alone
  <1> QED
    BY <1>1, <1>2 DEF SlotInv, HoldsInv

(* The rows of jobs and retries.                                           *)
LEMMA RowsHold ==
    ASSUME TypeOK, BoxInv, Grows,
           \A j \in jobs' : \/ \E i \in jobs : j.row = i.row
                            \/ j.row \in Rows /\ rows'[j.row] # "NONE",
           \A m \in Messages : m.kind = "retry" /\ fate[m] = "unsent"
                    /\ fate'[m] # "unsent" => rows[m.row] # "NONE"
    PROVE  JobRows' /\ RetryRows'
  <1>1. \A i \in jobs : i.row \in Rows
    BY DEF TypeOK, Job
  <1>2. JobRows'
    BY <1>1 DEF BoxInv, JobRows, Grows
  <1>3. \A m \in Messages : m.kind = "retry" => m.row \in Rows
    BY KindsTell, OrderShape
  <1>4. RetryRows'
    BY <1>3 DEF BoxInv, RetryRows, Grows
  <1> QED
    BY <1>2, <1>4

-----------------------------------------------------------------------------
(* BoxInv, action by action. *)

LEMMA AtOwn ==
    ASSUME TypeOK, NEW s \in Slots, NEW kinds, NEW step, At(s, kinds, step)
    PROVE  /\ slots[s].msg \in Messages \cup {NoMessage}
           /\ slots[s].step = step /\ slots[s].msg.kind \in kinds
           /\ kinds = FactKinds => slots[s].msg \in Facts
           /\ kinds \in {{"retry"}, {"prefer"}, {"edit"}} => slots[s].msg \in Orders
  <1>1. /\ slots[s].msg \in Messages \cup {NoMessage}
        /\ slots[s].step = step /\ slots[s].msg.kind \in kinds
    BY SlotShape DEF At
  <1> QED
    BY <1>1, KindsTell

LEMMA RowCovered ==
    ASSUME TypeOK, NEW s \in Slots, Row(s) \in Rows,
           rows'[Row(s)] # "NONE" \/ Row(s) \in skipped'
    PROVE  <<slots[s].msg, slots[s].user>> \in Covered'
  BY DEF Covered, Row

(* Those a working handler has passed are covered, its own recipient too   *)
(* when it leaves them behind.                                             *)
LEMMA PassedCovered ==
    ASSUME TypeOK, BoxInv, NEW s \in Slots, slots[s].step \in Working,
           slots[s].msg \in Facts, Grows,
           rows'[Row(s)] # "NONE" \/ Row(s) \in skipped'
    PROVE  /\ slots[s].todo \in SUBSET slots[s].msg.to
           /\ \A u \in slots[s].msg.to :
                 u \in slots[s].todo \/ <<slots[s].msg, u>> \in Covered'
  <1>1. Shape(s) /\ Holds(s)
    BY DEF BoxInv, SlotInv, HoldsInv
  <1>2. Row(s) \in Rows
    BY RecipientRow DEF BoxInv
  <1>3. <<slots[s].msg, slots[s].user>> \in Covered'
    BY <1>2, RowCovered
  <1> QED
    BY <1>1, <1>3, CoveredGrows DEF Shape, Holds

LEMMA SlotStepHolds ==
    ASSUME TypeOK, BoxInv, NEW s \in Slots, SlotStep(s)
    PROVE  BoxInv'
  <1> DEFINE m == slots[s].msg
             Handlers == SlotInv' /\ HoldsInv' /\ Alone'
  <1>a. Shape(s) /\ Holds(s)
    BY DEF BoxInv, SlotInv, HoldsInv
  <1>q. ASSUME Grows, Handlers, jobs' = jobs, fate' = fate
        PROVE  BoxInv'
    BY <1>q, RowsHold DEF BoxInv
  <1>1. CASE Acknowledge(s)
    <2>1. Grows
      BY <1>1, SameGrows DEF Acknowledge, history
    <2>2. Handlers
      BY <1>1, <2>1, FreeHolds DEF Acknowledge
    <2>3. \A n \in Messages : fate[n] = "unsent" => n # m
      BY <1>1, <1>a DEF Acknowledge, Holds
    <2>4. \A n \in Messages : fate[n] = "unsent" => fate'[n] = "unsent"
      BY <1>1, <2>3 DEF Acknowledge, TypeOK
    <2> QED
      BY <1>1, <2>1, <2>2, <2>4, RowsHold DEF Acknowledge, BoxInv
  <1>2. CASE Consume(s)
    <2>1. m \in Facts /\ slots[s].step # "idle"
      BY <1>2, AtOwn DEF Consume
    <2>2. Grows
      BY <1>2, SameGrows DEF Consume, history
    <2>3. m.to \in SUBSET m.to /\ \A u \in m.to : u \in m.to
      OBVIOUS
    <2>4. NextRecipient(s, m.to, IF m.kind = "direct" THEN "record" ELSE "preference")
      BY <1>2 DEF Consume
    <2>5. (IF m.kind = "direct" THEN "record" ELSE "preference")
             \in {"preference", "record"}
      OBVIOUS
    <2>6. Handlers
      BY <1>2, <2>1, <2>2, <2>3, <2>4, <2>5, NextHolds DEF Consume
    <2> QED
      BY <1>2, <1>q, <2>2, <2>6 DEF Consume
  <1>3. CASE ReadPreference(s)
    <2>1. Grows
      BY <1>3, SameGrows DEF ReadPreference, history
    <2>2. Handlers
      BY <1>3, <2>1, GoHolds DEF ReadPreference
    <2> QED
      BY <1>3, <1>q, <2>1, <2>2 DEF ReadPreference
  <1>4. CASE SkipOptedOut(s)
    <2>1. Grows /\ Row(s) \in skipped'
      BY <1>4, SameGrows DEF SkipOptedOut
    <2>2. slots[s].step \in Working /\ m \in Facts /\ slots[s].step # "idle"
      BY <1>4, <1>a DEF SkipOptedOut, Shape, Working
    <2>3. Handlers
      BY <1>4, <2>1, <2>2, PassedCovered, NextHolds DEF SkipOptedOut
    <2> QED
      BY <1>4, <1>q, <2>1, <2>3 DEF SkipOptedOut
  <1>5. CASE RecordRow(s)
    <2>1. Grows
      BY <1>5, StatusGrows DEF RecordRow, history, Statuses
    <2>2. slots[s].step \in Working /\ m \in Facts
      BY <1>5, <1>a DEF RecordRow, Shape, Working
    <2>3. rows'[Row(s)] # "NONE"
      BY <1>5, <2>2, RecipientRow DEF RecordRow, TypeOK, BoxInv
    <2>4. Handlers
      BY <1>5, <2>1, <2>3, GoHolds DEF RecordRow
    <2> QED
      BY <1>5, <1>q, <2>1, <2>4 DEF RecordRow, history
  <1>6. CASE SuppressDuplicate(s)
    <2>1. Grows /\ rows'[Row(s)] # "NONE"
      BY <1>6, SameGrows DEF SuppressDuplicate, history
    <2>2. slots[s].step \in Working /\ m \in Facts /\ slots[s].step # "idle"
      BY <1>6, <1>a DEF SuppressDuplicate, Shape, Working
    <2>3. Handlers
      BY <1>6, <2>1, <2>2, PassedCovered, NextHolds DEF SuppressDuplicate
    <2> QED
      BY <1>6, <1>q, <2>1, <2>3 DEF SuppressDuplicate
  <1>7. CASE QueueDelivery(s)
    <2>1. m \in Facts /\ slots[s].step \in Working /\ slots[s].step = "add"
      BY <1>7, AtOwn DEF QueueDelivery, Working
    <2>2. Row(s) \in Rows
      BY <2>1, RecipientRow DEF BoxInv
    <2>3. rows[Row(s)] # "NONE"
      BY <1>a, <2>1 DEF Holds, Row
    <2>4. Grows
      BY <1>7, SameGrows DEF QueueDelivery
    <2>5. Handlers
      BY <1>7, <2>1, <2>3, <2>4, PassedCovered, NextHolds DEF QueueDelivery
    <2>6. \A j \in jobs' : (\E i \in jobs : j.row = i.row) \/ j.row = Row(s)
      BY <1>7 DEF QueueDelivery, AddJob
    <2> QED
      BY <1>7, <2>2, <2>3, <2>4, <2>5, <2>6, RowsHold DEF QueueDelivery, BoxInv
  <1>8. CASE RetryWrites(s)
    <2>1. m \in Orders /\ m.kind = "retry" /\ slots[s].step # "idle"
      BY <1>8, AtOwn DEF RetryWrites
    <2>2. m.row \in Rows
      BY <2>1, OrderShape
    <2>3. Grows
      BY <1>8, StatusGrows DEF RetryWrites, Statuses
    <2>4. rows'[m.row] # "NONE"
      BY <1>8, <2>2 DEF RetryWrites, TypeOK
    <2>5. Handlers
      BY <1>8, <2>1, <2>3, <2>4, GoHolds DEF RetryWrites
    <2> QED
      BY <1>8, <1>q, <2>3, <2>5 DEF RetryWrites
  <1>9. CASE RetryAdds(s)
    <2>1. m \in Orders /\ m.kind = "retry" /\ slots[s].step = "add"
      BY <1>9, AtOwn DEF RetryAdds
    <2>2. m.row \in Rows
      BY <2>1, OrderShape
    <2>3. rows[m.row] # "NONE"
      BY <1>a, <2>1 DEF Holds
    <2>4. Grows
      BY <1>9, SameGrows DEF RetryAdds
    <2>5. Handlers
      BY <1>9, <2>1, <2>4, GoHolds DEF RetryAdds
    <2>6. \A j \in jobs' : (\E i \in jobs : j.row = i.row) \/ j.row = m.row
      BY <1>9 DEF RetryAdds, AddJob
    <2> QED
      BY <1>9, <2>2, <2>3, <2>4, <2>5, <2>6, RowsHold DEF RetryAdds, BoxInv
  <1>10. CASE UpdatePreference(s)
    <2>1. m \in Orders /\ slots[s].step # "idle"
      BY <1>10, AtOwn DEF UpdatePreference
    <2>2. Grows
      BY <1>10, SameGrows DEF UpdatePreference
    <2>3. Handlers
      BY <1>10, <2>1, <2>2, GoHolds DEF UpdatePreference
    <2> QED
      BY <1>10, <1>q, <2>2, <2>3 DEF UpdatePreference
  <1>11. CASE UpsertTemplate(s)
    <2>1. m \in Orders /\ slots[s].step # "idle"
      BY <1>11, AtOwn DEF UpsertTemplate
    <2>2. Grows
      BY <1>11, SameGrows DEF UpsertTemplate, history
    <2>3. Handlers
      BY <1>11, <2>1, <2>2, GoHolds DEF UpsertTemplate
    <2> QED
      BY <1>11, <1>q, <2>2, <2>3 DEF UpsertTemplate
  <1>12. CASE ForgetTemplate(s)
    <2>1. m \in Orders /\ slots[s].step # "idle"
      BY <1>12, <1>a, SlotShape DEF ForgetTemplate, Shape, Messages
    <2>2. Grows
      BY <1>12, SameGrows DEF ForgetTemplate, history
    <2>3. Handlers
      BY <1>12, <2>1, <2>2, GoHolds DEF ForgetTemplate
    <2> QED
      BY <1>12, <1>q, <2>2, <2>3 DEF ForgetTemplate
  <1> QED
    BY <1>1, <1>2, <1>3, <1>4, <1>5, <1>6, <1>7, <1>8, <1>9, <1>10, <1>11, <1>12
       DEF SlotStep

LEMMA PublishHolds ==
    ASSUME TypeOK, BoxInv, NEW m \in Messages, Publish(m)
    PROVE  BoxInv'
  <1>1. Grows
    BY SameGrows DEF Publish
  <1>2. \A n \in Messages : n # m => fate'[n] = fate[n]
    BY DEF Publish, TypeOK
  <1>3. \A n \in Messages : fate[n] = "held" => fate'[n] = "held"
    BY <1>2 DEF Publish
  <1>4. SlotInv' /\ HoldsInv' /\ Alone'
    BY <1>1, <1>3, QuietHolds DEF Publish
  <1>5. JobRows' /\ RetryRows'
    BY <1>1, <1>2, RowsHold DEF Publish
  <1> QED
    BY <1>4, <1>5 DEF BoxInv

LEMMA ReceiveHolds ==
    ASSUME TypeOK, BoxInv, NEW s \in Slots, Receive(s)
    PROVE  BoxInv'
  <1>1. PICK m \in Messages :
           /\ fate[m] = "waiting"
           /\ fate' = [fate EXCEPT ![m] = "held"]
           /\ slots' = [slots EXCEPT ![s] = [FreeSlot EXCEPT !.msg = m,
                                                             !.step = "start"]]
    BY DEF Receive
  <1>2. slots'[s].msg = m /\ slots'[s].step = "start"
    BY <1>1 DEF TypeOK, FreeSlot
  <1>3. \A t \in Slots : t # s => slots'[t] = slots[t]
    BY <1>1 DEF TypeOK
  <1>4. Grows
    BY SameGrows DEF Receive, history
  <1>5. fate'[m] = "held" /\ \A n \in Messages : n # m => fate'[n] = fate[n]
    BY <1>1 DEF TypeOK
  <1>6. \A n \in Messages : fate[n] = "held" => fate'[n] = "held"
    BY <1>1, <1>5
  <1>7. m # NoMessage
    BY KindsTell, FactShape, OrderShape DEF Messages, NoMessage, FactKinds
  <1>8. Shape(s)' /\ Holds(s)'
    BY <1>2, <1>5, <1>7 DEF Shape, Holds, Working
  <1>9. \A t \in Slots : t # s => Shape(t)' /\ Holds(t)'
    BY <1>3, <1>4, <1>6, OthersHold
  <1>10. Alone'
    <2>1. \A t \in Slots : slots[t].msg # m
      BY <1>1, <1>7 DEF BoxInv, SlotInv, HoldsInv, Shape, Holds
    <2> QED
      BY <1>2, <1>3, <2>1 DEF BoxInv, Alone
  <1>11. JobRows' /\ RetryRows'
    BY <1>1, <1>4, <1>5, RowsHold DEF Receive
  <1> QED
    BY <1>8, <1>9, <1>10, <1>11 DEF BoxInv, SlotInv, HoldsInv

(* The worker writes over the row of its job, which is there.              *)
LEMMA WorkerHolds ==
    ASSUME TypeOK, BoxInv, slots' = slots, fate' = fate, Grows,
           \A j \in jobs' : \E i \in jobs : j.row = i.row
    PROVE  BoxInv'
  <1>1. SlotInv' /\ HoldsInv' /\ Alone'
    BY QuietHolds
  <1>2. JobRows' /\ RetryRows'
    BY RowsHold
  <1> QED
    BY <1>1, <1>2 DEF BoxInv

LEMMA TakenRow ==
    ASSUME TypeOK, NEW j \in jobs,
           jobs' = (jobs \ {j}) \cup {[j EXCEPT !.active = TRUE]}
    PROVE  \A k \in jobs' : \E i \in jobs : k.row = i.row
  <1>1. j \in Job
    BY DEF TypeOK
  <1>2. [j EXCEPT !.active = TRUE].row = j.row
    BY <1>1 DEF Job
  <1> QED
    BY <1>2

LEMMA WorkerStepHolds ==
    ASSUME TypeOK, BoxInv, WorkerStep
    PROVE  BoxInv'
  <1>1. ASSUME NEW j \in jobs, TakeJob(j)
        PROVE  BoxInv'
    <2>1. Grows
      <3>1. CASE rows' = rows
        BY <1>1, <3>1, SameGrows DEF TakeJob, history
      <3>2. CASE rows' = [rows EXCEPT ![j.row] = "SENDING"]
        BY <1>1, <3>2, StatusGrows DEF TakeJob, history, Statuses
      <3> QED
        BY <1>1, <3>1, <3>2 DEF TakeJob
    <2> QED
      BY <1>1, <2>1, TakenRow, WorkerHolds DEF TakeJob
  <1>2. CASE ReadTemplate
    BY <1>2, SameGrows, WorkerHolds DEF ReadTemplate, history
  <1>3. CASE CompileTemplate
    BY <1>3, SameGrows, WorkerHolds DEF CompileTemplate, history
  <1>4. CASE SendMail
    BY <1>4, SameGrows, WorkerHolds DEF SendMail
  <1>5. CASE MarkSent
    <2>1. Grows
      BY <1>5, StatusGrows DEF MarkSent, Statuses
    <2> QED
      BY <1>5, <2>1, WorkerHolds DEF MarkSent
  <1>6. CASE CatchFailure
    <2>1. rows' = [rows EXCEPT ![WorkRow] = "FAILED"]
            \/ rows' = [rows EXCEPT ![WorkRow] = "QUEUED"]
      BY <1>6 DEF CatchFailure
    <2>2. Grows
      BY <1>6, <2>1, StatusGrows DEF CatchFailure, Statuses
    <2> QED
      BY <1>6, <2>2, WorkerHolds DEF CatchFailure
  <1>7. CASE CloseJob
    <2>1. JobOf(worker.nr) \in jobs
      BY <1>7, JobsTyped, WorkersJob DEF CloseJob
    <2>2. \A j \in jobs : [j EXCEPT !.made = @ + 1, !.active = FALSE].row = j.row
      BY DEF TypeOK, Job
    <2>3. \A k \in jobs' : \E i \in jobs : k.row = i.row
      BY <1>7, <2>1, <2>2 DEF CloseJob
    <2> QED
      BY <1>7, <2>3, SameGrows, WorkerHolds DEF CloseJob, history
  <1> QED
    BY <1>1, <1>2, <1>3, <1>4, <1>5, <1>6, <1>7 DEF WorkerStep

LEMMA FailuresHold ==
    ASSUME TypeOK, BoxInv, Failures
    PROVE  BoxInv'
  <1>1. ASSUME NEW s \in Slots, HandlerFails(s)
        PROVE  BoxInv'
    <2>1. Grows /\ slots[s].step # "idle"
      BY <1>1, SameGrows DEF HandlerFails
    <2>2. SlotInv' /\ HoldsInv' /\ Alone'
      BY <1>1, <2>1, FreeHolds DEF HandlerFails
    <2>3. fate[slots[s].msg] = "held"
      BY <2>1 DEF BoxInv, HoldsInv, Holds
    <2>4. \A n \in Messages : fate[n] = "unsent" => fate'[n] = "unsent"
      BY <1>1, <2>3 DEF HandlerFails, TypeOK
    <2>5. JobRows' /\ RetryRows'
      BY <1>1, <2>1, <2>4, RowsHold DEF HandlerFails
    <2> QED
      BY <2>2, <2>5 DEF BoxInv
  <1>2. ASSUME NEW j \in jobs, TakeBreaks(j)
        PROVE  BoxInv'
    BY <1>2, SameGrows, TakenRow, WorkerHolds DEF TakeBreaks
  <1>3. CASE ReadFails
    BY <1>3, SameGrows, WorkerHolds DEF ReadFails, history
  <1>4. CASE SendFails
    BY <1>4, SameGrows, WorkerHolds DEF SendFails
  <1>5. CASE MarkFails
    BY <1>5, SameGrows, WorkerHolds DEF MarkFails
  <1>6. CASE CatchBreaks
    BY <1>6, SameGrows, WorkerHolds DEF CatchBreaks
  <1>7. CASE Crash
    <2>1. \A s \in Slots : slots'[s] = FreeSlot
      BY <1>7 DEF Crash
    <2>2. SlotInv' /\ HoldsInv' /\ Alone'
      BY <2>1 DEF SlotInv, Shape, HoldsInv, Holds, Alone, Working, FreeSlot
    <2>3. \A j \in jobs : Resumed(j).row = j.row
      BY DEF TypeOK, Job, Resumed
    <2>4. \A k \in jobs' : \E i \in jobs : k.row = i.row
      BY <1>7, <2>3 DEF Crash
    <2>5. \A n \in Messages : fate[n] = "unsent" => fate'[n] = "unsent"
      BY <1>7 DEF Crash
    <2>6. JobRows' /\ RetryRows'
      BY <1>7, <2>4, <2>5, SameGrows, RowsHold DEF Crash
    <2> QED
      BY <2>2, <2>6 DEF BoxInv
  <1> QED
    BY <1>1, <1>2, <1>3, <1>4, <1>5, <1>6, <1>7 DEF Failures

-----------------------------------------------------------------------------
LEMMA MailboxBooks == Spec => [](TypeOK /\ BoxInv)
  <1>1. Init => TypeOK /\ BoxInv
    <2> SUFFICES ASSUME Init PROVE TypeOK /\ BoxInv
      OBVIOUS
    <2>1. \A s \in Slots : slots[s] = FreeSlot
      BY DEF Init
    <2>2. SlotInv /\ HoldsInv /\ Alone
      BY <2>1 DEF SlotInv, Shape, HoldsInv, Holds, Alone, Working, FreeSlot
    <2>3. JobRows /\ RetryRows
      BY DEF Init, JobRows, RetryRows
    <2> QED
      BY <2>2, <2>3, InitTyped DEF BoxInv
  <1>2. TypeOK /\ BoxInv /\ [Next]_vars => (TypeOK /\ BoxInv)'
    <2> SUFFICES ASSUME TypeOK, BoxInv, [Next]_vars
                 PROVE  TypeOK' /\ BoxInv'
      OBVIOUS
    <2>0. SlotInv
      BY DEF BoxInv
    <2>1. ASSUME NEW m \in Messages, Publish(m)
          PROVE  TypeOK' /\ BoxInv'
      BY <2>1, PublishTyped, PublishHolds
    <2>2. ASSUME NEW s \in Slots, Receive(s)
          PROVE  TypeOK' /\ BoxInv'
      BY <2>2, ReceiveTyped, ReceiveHolds
    <2>3. ASSUME NEW s \in Slots, SlotStep(s)
          PROVE  TypeOK' /\ BoxInv'
      BY <2>0, <2>3, SlotStepTyped, SlotStepHolds
    <2>4. CASE WorkerStep
      BY <2>4, WorkerStepTyped, WorkerStepHolds
    <2>5. CASE Failures
      BY <2>0, <2>5, FailuresTyped, FailuresHold
    <2>6. CASE UNCHANGED vars
      <3>1. TypeOK'
        BY <2>6 DEF vars, history, wording, TypeOK, TemplatesTypeOK
      <3>2. BoxInv'
        BY <2>6, SameGrows, WorkerHolds DEF vars, history
      <3> QED
        BY <3>1, <3>2
    <2> QED
      BY <2>1, <2>2, <2>3, <2>4, <2>5, <2>6 DEF Next, ServiceStep
  <1> QED
    BY <1>1, <1>2, PTL DEF Spec

(* Every reachable state is well typed, whatever crashes and fails: the    *)
(* worker's job is in the queue and the only active one, and jobs have     *)
(* numbers of their own.                                                   *)
THEOREM NotificationsTyped == Spec => []TypeOK
  BY MailboxBooks, PTL

-----------------------------------------------------------------------------
(* The refinement, action by action. *)
BoxPhase == [f \in Facts |-> Phase(f)]
BoxEntry == [r \in Rows |-> Entry(r)]

LEMMA EntriesAreRows == Box!Entries = Rows
  BY DEF Box!Entries, Rows

LEMMA SamePhase ==
    ASSUME \A f \in Facts : Phase(f)' = Phase(f)
    PROVE  BoxPhase' = BoxPhase
  BY DEF BoxPhase

LEMMA SameFate ==
    ASSUME fate' = fate
    PROVE  BoxPhase' = BoxPhase
  BY SamePhase DEF Phase

(* A message that is no fact changes no phase.                             *)
LEMMA OrderFate ==
    ASSUME TypeOK, NEW m, m \notin Facts, NEW to, fate' = [fate EXCEPT ![m] = to]
    PROVE  BoxPhase' = BoxPhase
  <1>1. \A f \in Facts : fate'[f] = fate[f]
    BY FactShape DEF TypeOK
  <1> QED
    BY <1>1, SamePhase DEF Phase

LEMMA FactFate ==
    ASSUME TypeOK, NEW f \in Facts, NEW to, fate' = [fate EXCEPT ![f] = to]
    PROVE  BoxPhase' = [BoxPhase EXCEPT ![f] = Phase(f)'] /\ fate'[f] = to
  <1>1. fate'[f] = to /\ \A g \in Facts : g # f => fate'[g] = fate[g]
    BY FactShape DEF TypeOK
  <1>2. \A g \in Facts : g # f => Phase(g)' = Phase(g)
    BY <1>1 DEF Phase
  <1> QED
    BY <1>1, <1>2 DEF BoxPhase

(* A row written over, or a status left alone, changes no entry.           *)
LEMMA SameEntry ==
    ASSUME skipped' = skipped,
           \A r \in Rows : rows[r] = "NONE" <=> rows'[r] = "NONE"
    PROVE  BoxEntry' = BoxEntry
  BY DEF BoxEntry, Entry

LEMMA SameRows ==
    ASSUME skipped' = skipped, rows' = rows
    PROVE  BoxEntry' = BoxEntry
  BY SameEntry

LEMMA Overwritten ==
    ASSUME TypeOK, NEW r \in Rows, rows[r] # "NONE", skipped' = skipped,
           NEW status \in Statuses \ {"NONE"}, rows' = [rows EXCEPT ![r] = status]
    PROVE  BoxEntry' = BoxEntry
  <1>1. \A q \in Rows : rows[q] = "NONE" <=> rows'[q] = "NONE"
    BY DEF TypeOK
  <1> QED
    BY <1>1, SameEntry

BoxStep == [Box!Next]_(Box!mailbox)

LEMMA Stutters ==
    ASSUME BoxPhase' = BoxPhase, BoxEntry' = BoxEntry
    PROVE  BoxStep
  BY DEF BoxStep, Box!mailbox, BoxPhase, BoxEntry, Rows

LEMMA HeldPhase ==
    ASSUME TypeOK, BoxInv, NEW s \in Slots, slots[s].step # "idle",
           slots[s].msg \in Facts
    PROVE  fate[slots[s].msg] = "held" /\ Phase(slots[s].msg) = "published"
  <1>1. fate[slots[s].msg] = "held"
    BY DEF BoxInv, HoldsInv, Holds
  <1> QED
    BY <1>1 DEF Phase

LEMMA PublishRefines ==
    ASSUME TypeOK, BoxInv, NEW m \in Messages, Publish(m)
    PROVE  BoxStep
  <1>1. BoxEntry' = BoxEntry
    BY SameRows DEF Publish
  <1>2. fate[m] = "unsent" /\ fate' = [fate EXCEPT ![m] = "waiting"]
    BY DEF Publish
  <1>3. CASE m \notin Facts
    BY <1>1, <1>2, <1>3, OrderFate, Stutters
  <1>4. CASE m \in Facts
    <2>1. BoxPhase' = [BoxPhase EXCEPT ![m] = Phase(m)'] /\ fate'[m] = "waiting"
      BY <1>2, <1>4, FactFate
    <2>2. Phase(m) = "unsent" /\ Phase(m)' = "published"
      BY <1>2, <2>1 DEF Phase
    <2>3. Box!Publish(m)
      BY <1>1, <1>4, <2>1, <2>2 DEF Box!Publish, BoxPhase, BoxEntry, Rows
    <2> QED
      BY <1>4, <2>3 DEF BoxStep, Box!Next
  <1> QED
    BY <1>3, <1>4

LEMMA ReceiveRefines ==
    ASSUME TypeOK, BoxInv, NEW s \in Slots, Receive(s)
    PROVE  BoxStep
  <1>1. PICK m \in Messages : fate[m] = "waiting" /\ fate' = [fate EXCEPT ![m] = "held"]
    BY DEF Receive
  <1>2. \A f \in Facts : Phase(f)' = Phase(f)
    BY <1>1, FactShape DEF Phase, TypeOK
  <1>3. BoxEntry' = BoxEntry
    BY SameRows DEF Receive, history
  <1> QED
    BY <1>2, <1>3, SamePhase, Stutters

(* The acknowledgement of a fact is the only step that needs the books:    *)
(* all its recipients are covered.                                         *)
LEMMA AcknowledgeRefines ==
    ASSUME TypeOK, BoxInv, NEW s \in Slots, Acknowledge(s)
    PROVE  BoxStep
  <1> DEFINE m == slots[s].msg
  <1>1. BoxEntry' = BoxEntry
    BY SameRows DEF Acknowledge, history
  <1>2. slots[s].step = "ack" /\ fate' = [fate EXCEPT ![m] = "acked"]
    BY DEF Acknowledge
  <1>3. CASE m \notin Facts
    BY <1>1, <1>2, <1>3, OrderFate, Stutters
  <1>4. CASE m \in Facts
    <2>0. PICK f \in Facts : f = m
      BY <1>4
    <2>1. BoxPhase' = [BoxPhase EXCEPT ![f] = Phase(f)'] /\ fate'[f] = "acked"
      BY <1>2, <2>0, FactFate
    <2>2. Phase(f) = "published" /\ Phase(f)' = "handled"
      BY <1>2, <2>0, <2>1, HeldPhase DEF Phase
    <2>3. \A r \in Rows : r[1] = f => r \in Covered
      BY <1>2, <2>0, RowShape DEF BoxInv, HoldsInv, Holds
    <2>4. \A r \in Rows : r[1] = f => Entry(r) # "none"
      BY <2>3 DEF Covered, Entry
    <2>5. Box!Handle(f)
      BY <1>1, <2>1, <2>2, <2>4, EntriesAreRows
         DEF Box!Handle, BoxPhase, BoxEntry, Rows
    <2> QED
      BY <2>5 DEF BoxStep, Box!Next
  <1> QED
    BY <1>3, <1>4

LEMMA DropRefines ==
    ASSUME TypeOK, BoxInv, NEW s \in Slots, HandlerFails(s)
    PROVE  BoxStep
  <1> DEFINE m == slots[s].msg
  <1>1. BoxEntry' = BoxEntry
    BY SameRows DEF HandlerFails
  <1>2. slots[s].step # "idle" /\ fate' = [fate EXCEPT ![m] = "dropped"]
    BY DEF HandlerFails
  <1>3. CASE m \notin Facts
    BY <1>1, <1>2, <1>3, OrderFate, Stutters
  <1>4. CASE m \in Facts
    <2>0. PICK f \in Facts : f = m
      BY <1>4
    <2>1. BoxPhase' = [BoxPhase EXCEPT ![f] = Phase(f)'] /\ fate'[f] = "dropped"
      BY <1>2, <2>0, FactFate
    <2>2. Phase(f) = "published" /\ Phase(f)' = "dropped"
      BY <1>2, <2>0, <2>1, HeldPhase DEF Phase
    <2>3. Box!Drop(f)
      BY <1>1, <2>1, <2>2 DEF Box!Drop, BoxPhase, BoxEntry, Rows
    <2> QED
      BY <2>3 DEF BoxStep, Box!Next
  <1> QED
    BY <1>3, <1>4

LEMMA SkipRefines ==
    ASSUME TypeOK, BoxInv, NEW s \in Slots, SkipOptedOut(s)
    PROVE  BoxStep
  <1>1. slots[s].step \in Working /\ slots[s].msg \in Facts /\ slots[s].step # "idle"
    BY DEF SkipOptedOut, BoxInv, SlotInv, Shape, Working
  <1>2. PICK r \in Rows : r = Row(s) /\ r[1] = slots[s].msg
    BY <1>1, RecipientRow DEF BoxInv
  <1>3. Phase(r[1]) = "published" /\ BoxPhase' = BoxPhase
    BY <1>1, <1>2, HeldPhase, SameFate DEF SkipOptedOut
  <1>4. rows' = rows /\ skipped' = skipped \cup {r}
    BY <1>2 DEF SkipOptedOut
  <1>5. r[1] \in Facts
    BY <1>1, <1>2
  <1>6. CASE Entry(r) # "none"
    <2>1. \A q \in Rows : Entry(q)' = Entry(q)
      BY <1>4, <1>6 DEF Entry
    <2>2. BoxEntry' = BoxEntry
      BY <2>1 DEF BoxEntry
    <2> QED
      BY <1>3, <2>2, Stutters
  <1>7. CASE Entry(r) = "none"
    <2>1. Entry(r)' = "skipped" /\ \A q \in Rows : q # r => Entry(q)' = Entry(q)
      BY <1>4, <1>7 DEF Entry
    <2>2. BoxEntry' = [BoxEntry EXCEPT ![r] = "skipped"]
      BY <2>1 DEF BoxEntry
    <2>3. Box!Skip(r)
      BY <1>2, <1>3, <1>5, <1>7, <2>2 DEF Box!Skip, BoxPhase, BoxEntry, Rows
    <2> QED
      BY <1>2, <2>3, EntriesAreRows DEF BoxStep, Box!Next
  <1> QED
    BY <1>6, <1>7

LEMMA WriteRefines ==
    ASSUME TypeOK, BoxInv, NEW s \in Slots, RecordRow(s)
    PROVE  BoxStep
  <1>1. slots[s].step \in Working /\ slots[s].msg \in Facts /\ slots[s].step # "idle"
    BY DEF RecordRow, BoxInv, SlotInv, Shape, Working
  <1>2. PICK r \in Rows : r = Row(s) /\ r[1] = slots[s].msg
    BY <1>1, RecipientRow DEF BoxInv
  <1>3. Phase(r[1]) = "published" /\ BoxPhase' = BoxPhase
    BY <1>1, <1>2, HeldPhase, SameFate DEF RecordRow
  <1>4. /\ rows[r] = "NONE" /\ rows' = [rows EXCEPT ![r] = "QUEUED"]
        /\ skipped' = skipped
    BY <1>2 DEF RecordRow, history
  <1>5. r[1] \in Facts
    BY <1>1, <1>2
  <1>6. rows'[r] = "QUEUED" /\ \A q \in Rows : q # r => rows'[q] = rows[q]
    BY <1>2, <1>4 DEF TypeOK
  <1>7. /\ Entry(r) # "written" /\ Entry(r)' = "written"
        /\ \A q \in Rows : q # r => Entry(q)' = Entry(q)
    BY <1>4, <1>6 DEF Entry
  <1>8. BoxEntry' = [BoxEntry EXCEPT ![r] = "written"]
    BY <1>7 DEF BoxEntry
  <1>9. Box!Write(r)
    BY <1>2, <1>3, <1>5, <1>7, <1>8 DEF Box!Write, BoxPhase, BoxEntry, Rows
  <1> QED
    BY <1>2, <1>9, EntriesAreRows DEF BoxStep, Box!Next

LEMMA SlotStepRefines ==
    ASSUME TypeOK, BoxInv, NEW s \in Slots, SlotStep(s)
    PROVE  BoxStep
  <1>1. CASE RetryWrites(s)
    <2>1. /\ slots[s].msg \in Orders /\ slots[s].msg.kind = "retry"
          /\ slots[s].step = "start"
      BY <1>1, AtOwn DEF RetryWrites
    <2>2. fate[slots[s].msg] = "held"
      BY <2>1 DEF BoxInv, HoldsInv, Holds
    <2>3. slots[s].msg.row \in Rows /\ rows[slots[s].msg.row] # "NONE"
      BY <2>1, <2>2, OrderShape DEF BoxInv, RetryRows
    <2>4. BoxEntry' = BoxEntry
      BY <1>1, <2>3, Overwritten DEF RetryWrites, Statuses
    <2> QED
      BY <1>1, <2>4, SameFate, Stutters DEF RetryWrites
  <1>2. CASE Consume(s) \/ ReadPreference(s) \/ SuppressDuplicate(s) \/ QueueDelivery(s)
    BY <1>2, SameFate, SameRows, Stutters
       DEF Consume, ReadPreference, SuppressDuplicate, QueueDelivery, history
  <1>3. CASE RetryAdds(s) \/ UpdatePreference(s) \/ UpsertTemplate(s) \/ ForgetTemplate(s)
    BY <1>3, SameFate, SameRows, Stutters
       DEF RetryAdds, UpdatePreference, UpsertTemplate, ForgetTemplate, history
  <1> QED
    BY <1>1, <1>2, <1>3, AcknowledgeRefines, SkipRefines, WriteRefines DEF SlotStep

LEMMA WorkerStepRefines ==
    ASSUME TypeOK, BoxInv, WorkerStep
    PROVE  BoxStep
  <1> SUFFICES BoxPhase' = BoxPhase /\ BoxEntry' = BoxEntry
    BY Stutters
  <1>j. \A j \in jobs : j.row \in Rows /\ rows[j.row] # "NONE"
    BY DEF TypeOK, Job, BoxInv, JobRows
  <1>w. worker.step # "idle" => WorkRow \in Rows /\ rows[WorkRow] # "NONE"
    BY JobsTyped, WorkersJob DEF BoxInv, JobRows, WorkRow
  <1>f. BoxPhase' = BoxPhase
    BY SameFate DEF WorkerStep, TakeJob, ReadTemplate, CompileTemplate, SendMail,
                    MarkSent, CatchFailure, CloseJob
  <1>1. ASSUME NEW j \in jobs, TakeJob(j)
        PROVE  BoxEntry' = BoxEntry
    <2>1. skipped' = skipped
      BY <1>1 DEF TakeJob, history
    <2>2. CASE rows' = rows
      BY <2>1, <2>2, SameRows
    <2>3. CASE rows' = [rows EXCEPT ![j.row] = "SENDING"]
      BY <1>j, <2>1, <2>3, Overwritten DEF Statuses
    <2> QED
      BY <1>1, <2>2, <2>3 DEF TakeJob
  <1>2. ReadTemplate \/ CompileTemplate \/ SendMail \/ CloseJob => BoxEntry' = BoxEntry
    BY SameRows DEF ReadTemplate, CompileTemplate, SendMail, CloseJob, history
  <1>3. MarkSent => BoxEntry' = BoxEntry
    BY <1>w, Overwritten DEF MarkSent, Statuses
  <1>4. ASSUME CatchFailure PROVE BoxEntry' = BoxEntry
    <2>1. rows' = [rows EXCEPT ![WorkRow] = "FAILED"]
            \/ rows' = [rows EXCEPT ![WorkRow] = "QUEUED"]
      BY <1>4 DEF CatchFailure
    <2> QED
      BY <1>4, <1>w, <2>1, Overwritten DEF CatchFailure, Statuses
  <1> QED
    BY <1>f, <1>1, <1>2, <1>3, <1>4 DEF WorkerStep

LEMMA FailuresRefine ==
    ASSUME TypeOK, BoxInv, Failures
    PROVE  BoxStep
  <1>1. CASE Crash
    <2>1. \A f \in Facts : Phase(f)' = Phase(f)
      BY <1>1, FactShape DEF Crash, Phase
    <2>2. BoxEntry' = BoxEntry
      BY <1>1, SameRows DEF Crash
    <2> QED
      BY <2>1, <2>2, SamePhase, Stutters
  <1>2. CASE (\E j \in jobs : TakeBreaks(j)) \/ ReadFails \/ SendFails \/ MarkFails
               \/ CatchBreaks
    BY <1>2, SameFate, SameRows, Stutters
       DEF TakeBreaks, ReadFails, SendFails, MarkFails, CatchBreaks, history
  <1> QED
    BY <1>1, <1>2, DropRefines DEF Failures

(* The notification service implements the mailbox, for every number of    *)
(* users, facts, handlers and attempts and through any crash and failure:  *)
(* a fact whose message was acknowledged has an entry, or a refusal, for   *)
(* each of its recipients.                                                 *)
THEOREM ServiceIsAMailbox == Spec => ImplementsMailbox
  <1>1. Init => Box!Init
    <2> SUFFICES ASSUME Init PROVE Box!Init
      OBVIOUS
    <2>1. \A f \in Facts : Phase(f) = "unsent"
      BY FactShape DEF Init, Phase
    <2>2. \A r \in Rows : Entry(r) = "none"
      BY DEF Init, Entry
    <2> QED
      BY <2>1, <2>2, EntriesAreRows DEF Box!Init, Rows
  <1>2. TypeOK /\ BoxInv /\ [Next]_vars => [Box!Next]_(Box!mailbox)
    <2> SUFFICES ASSUME TypeOK, BoxInv, [Next]_vars
                 PROVE  BoxStep
      BY DEF BoxStep
    <2>1. CASE UNCHANGED vars
      BY <2>1, SameFate, SameRows, Stutters DEF vars, history
    <2> QED
      BY <2>1, PublishRefines, ReceiveRefines, SlotStepRefines, WorkerStepRefines,
         FailuresRefine DEF Next, ServiceStep
  <1> QED
    BY <1>1, <1>2, MailboxBooks, PTL DEF Spec, ImplementsMailbox, Box!Spec
=============================================================================
