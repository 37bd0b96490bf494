--------------------------- MODULE Delivery_proofs ---------------------------
(***************************************************************************)
(* More theorems about Notifications: no mail goes out twice and no        *)
(* delivery is left lying without a reason on record, an opt-out is        *)
(* respected, and the copies of the templates are current.                 *)
(***************************************************************************)
EXTENDS Notifications_proofs

-----------------------------------------------------------------------------
(* The inductive invariants, on top of those that make it a mailbox.       *)

(* The worker's delivery is not done yet ...                               *)
Delivering == {"render", "compile", "send", "mark", "catch"}
AtMark(r) == worker.step = "mark" /\ WorkRow = r

(* ... and no mail is without excuse but that of a row marked SENT, or     *)
(* about to be.                                                            *)
MailInv ==
    /\ worker.step \in Delivering => rows[WorkRow] # "SENT"
    /\ \A r \in Rows :
          mails[r] <= excuses[r] + (IF rows[r] = "SENT" \/ AtMark(r) THEN 1 ELSE 0)

(* Some job, handler or record accounts for the row of an unfinished       *)
(* delivery.                                                               *)
Adding(r) == \E s \in Slots : slots[s].step = "add" /\ AddedTo(s) = r
Explained(r, queue) ==
    (\E j \in queue : j.row = r) \/ Adding(r) \/ r \in stranded

(* The attempt that is about to be closed ends its job: then something     *)
(* else must account for the row, should it be unfinished again.           *)
Ending == \/ worker.step = "done"
          \/ /\ worker.step = "failed"
             /\ JobOf(worker.nr).made + 1 >= JobOf(worker.nr).attempts

JobInv ==
    /\ \A r \in Rows : Unfinished(r) => Explained(r, jobs)
    /\ Ending /\ Unfinished(WorkRow)
          => Explained(WorkRow, jobs \ {JobOf(worker.nr)})

(* Whoever declined is opted out still, and no handler has got past        *)
(* reading the preference; rows are made of facts that were published.     *)
DeclinedInv ==
    /\ \A r \in declined : /\ rows[r] = "NONE" /\ fate[r[1]] # "unsent"
                           /\ r[1].kind # "direct"
                           /\ <<r[2], r[1].key>> \in optedOut
    /\ \A s \in Slots : slots[s].step = "record" => Row(s) \notin declined
    /\ \A r \in Rows : fate[r[1]] = "unsent" => rows[r] = "NONE"

(* What the worker has read of a template is the wording, or was           *)
(* overtaken.                                                              *)
WordingInv ==
    /\ worker.step = "compile" =>
          /\ worker.source # Missing
          /\ \/ worker.overtaken
             \/ worker.source = Source(WorkRow[1].key, WorkRow[1].channel)
    /\ CacheExplained

-----------------------------------------------------------------------------
(* The job the worker is at, while the queue changes around it.            *)

LEMMA SameJob ==
    ASSUME TypeOK, TypeOK', worker.step # "idle", worker'.step # "idle",
           worker'.nr = worker.nr, JobOf(worker.nr) \in jobs'
    PROVE  JobOf(worker.nr)' = JobOf(worker.nr) /\ WorkRow' = WorkRow
  <1>1. JobOf(worker.nr).nr = worker.nr
    BY JobsTyped, WorkersJob
  <1>2. JobOf(worker.nr)' = JobOf(worker.nr)
    BY <1>1 DEF JobOf, TypeOK
  <1> QED
    BY <1>2 DEF WorkRow

LEMMA TakenJob ==
    ASSUME TypeOK, TypeOK', NEW j \in jobs, worker'.nr = j.nr,
           jobs' = (jobs \ {j}) \cup {[j EXCEPT !.active = TRUE]}
    PROVE  JobOf(worker.nr)' = [j EXCEPT !.active = TRUE] /\ WorkRow' = j.row
  <1>1. j \in Job
    BY DEF TypeOK
  <1>2. PICK k \in jobs' : k = [j EXCEPT !.active = TRUE]
    OBVIOUS
  <1>3. k.nr = j.nr /\ k.row = j.row
    BY <1>1, <1>2 DEF Job
  <1>4. JobOf(worker.nr)' = k
    BY <1>3 DEF JobOf, TypeOK
  <1> QED
    BY <1>2, <1>3, <1>4 DEF WorkRow

(* A handler's step leaves the worker at its job.                          *)
Aside == /\ worker'.step = worker.step /\ worker'.nr = worker.nr
         /\ jobs \subseteq jobs'

LEMMA StaysAtJob ==
    ASSUME TypeOK, TypeOK', Aside, worker.step # "idle"
    PROVE  JobOf(worker.nr)' = JobOf(worker.nr) /\ WorkRow' = WorkRow
  BY SameJob, JobsTyped, WorkersJob DEF Aside

(* Its own step may take it on with the job.                               *)
Onward == /\ worker.step # "idle" /\ worker'.step # "idle"
          /\ worker'.nr = worker.nr /\ jobs' = jobs

LEMMA GoesOn ==
    ASSUME TypeOK, TypeOK', Onward
    PROVE  /\ JobOf(worker.nr)' = JobOf(worker.nr) /\ WorkRow' = WorkRow
           /\ WorkRow \in Rows
  BY SameJob, JobsTyped, WorkersJob DEF Onward

LEMMA WorkOnward ==
    ASSUME TypeOK, worker.step # "idle", jobs' = jobs,
           NEW step \in {"send", "mark", "catch", "done", "failed"}, Work(step)
    PROVE  Onward /\ worker'.step = step
  <1>1. worker \in Worker
    BY DEF TypeOK
  <1> QED
    BY <1>1 DEF Work, Worker, Onward

LEMMA ReadOnward ==
    ASSUME TypeOK, ReadTemplate
    PROVE  Onward /\ worker'.step \in {"catch", "compile"}
  <1>1. worker \in Worker
    BY DEF TypeOK
  <1> QED
    BY <1>1 DEF ReadTemplate, Worker, Onward

LEMMA TakeOn ==
    ASSUME TypeOK, TypeOK', NEW j \in jobs, TakeJob(j)
    PROVE  /\ WorkRow' = j.row /\ j.row \in Rows
           /\ JobOf(worker.nr)' = [j EXCEPT !.active = TRUE]
           /\ \/ worker'.step = "done" /\ rows[j.row] = "SENT" /\ rows' = rows
              \/ /\ worker'.step = "render" /\ rows[j.row] # "SENT"
                 /\ rows' = [rows EXCEPT ![j.row] = "SENDING"]
  <1>1. j \in Job
    BY DEF TypeOK
  <1>2. /\ worker'.nr = j.nr
        /\ \/ worker'.step = "done" /\ rows[j.row] = "SENT" /\ rows' = rows
           \/ /\ worker'.step = "render" /\ rows[j.row] # "SENT"
              /\ rows' = [rows EXCEPT ![j.row] = "SENDING"]
    <2>1. CASE rows[j.row] = "SENT"
      <3>1. worker' = [Resting EXCEPT !.step = "done", !.nr = j.nr] /\ rows' = rows
        BY <2>1 DEF TakeJob, AlreadySent
      <3> QED
        BY <1>1, <2>1, <3>1, WorkerAt
    <2>2. CASE rows[j.row] # "SENT"
      <3>1. /\ worker' = [Resting EXCEPT !.step = "render", !.nr = j.nr]
            /\ rows' = [rows EXCEPT ![j.row] = "SENDING"]
        BY <2>2 DEF TakeJob, AlreadySent
      <3> QED
        BY <1>1, <2>2, <3>1, WorkerAt
    <2> QED
      BY <2>1, <2>2
  <1> QED
    BY <1>1, <1>2, TakenJob DEF TakeJob, Job

LEMMA BreakOn ==
    ASSUME TypeOK, TypeOK', NEW j \in jobs, TakeBreaks(j)
    PROVE  /\ WorkRow' = j.row /\ j.row \in Rows
           /\ JobOf(worker.nr)' = [j EXCEPT !.active = TRUE]
           /\ worker'.step = "failed"
  <1>1. j \in Job
    BY DEF TypeOK
  <1>2. worker'.nr = j.nr /\ worker'.step = "failed"
    BY <1>1, WorkerAt DEF TakeBreaks
  <1> QED
    BY <1>1, <1>2, TakenJob DEF TakeBreaks, Job

(* The steps of handlers and publishers are aside of the worker.           *)
LEMMA HandlerAside ==
    ASSUME TypeOK, NEW s \in Slots,
           Receive(s) \/ SlotStep(s) \/ HandlerFails(s)
    PROVE  Aside
  <1>1. worker \in Worker
    BY DEF TypeOK
  <1>2. CASE UpsertTemplate(s)
    BY <1>1, <1>2 DEF UpsertTemplate, Aside, Worker
  <1>3. CASE QueueDelivery(s) \/ RetryAdds(s)
    BY <1>3 DEF QueueDelivery, RetryAdds, AddJob, Aside
  <1>4. CASE \/ Receive(s) \/ HandlerFails(s) \/ Acknowledge(s) \/ Consume(s)
             \/ ReadPreference(s) \/ SkipOptedOut(s) \/ RecordRow(s)
             \/ SuppressDuplicate(s) \/ RetryWrites(s) \/ UpdatePreference(s)
             \/ ForgetTemplate(s)
    BY <1>4 DEF Receive, HandlerFails, Acknowledge, Consume, ReadPreference,
                SkipOptedOut, RecordRow, SuppressDuplicate, RetryWrites,
                UpdatePreference, ForgetTemplate, Aside
  <1> QED
    BY <1>2, <1>3, <1>4 DEF SlotStep

-----------------------------------------------------------------------------
(* MailInv, action by action. *)

(* Nothing is mailed and nothing excused: the worker stays at its delivery *)
(* or leaves it.                                                           *)
LEMMA NoMail ==
    ASSUME TypeOK, MailInv, UNCHANGED <<rows, mails, excuses>>,
           worker'.step \in Delivering =>
              worker.step \in Delivering /\ WorkRow' = WorkRow,
           worker.step = "mark" => worker'.step = "mark" /\ WorkRow' = WorkRow
    PROVE  MailInv'
  <1>1. \A r \in Rows : AtMark(r) => AtMark(r)'
    BY DEF AtMark
  <1>2. \A r \in Rows : mails'[r] <= excuses'[r]
                          + (IF rows'[r] = "SENT" \/ AtMark(r)' THEN 1 ELSE 0)
    BY <1>1 DEF MailInv, TypeOK
  <1> QED
    BY <1>2 DEF MailInv

LEMMA MailAside ==
    ASSUME TypeOK, TypeOK', MailInv, Aside, UNCHANGED <<rows, mails, excuses>>
    PROVE  MailInv'
  BY NoMail, StaysAtJob DEF Aside, Delivering

LEMMA SlotStepMails ==
    ASSUME TypeOK, TypeOK', BoxInv, MailInv, NEW s \in Slots, SlotStep(s)
    PROVE  MailInv'
  <1>0. Aside
    BY HandlerAside
  <1>1. CASE RecordRow(s)
    <2>1. rows' = [rows EXCEPT ![Row(s)] = "QUEUED"] /\ rows[Row(s)] = "NONE"
      BY <1>1 DEF RecordRow
    <2>2. mails' = mails /\ excuses' = excuses
      BY <1>1 DEF RecordRow, history
    <2>3. \A r \in Rows : /\ rows'[r] = rows[r] \/ rows'[r] = "QUEUED"
                          /\ rows'[r] = "SENT" <=> rows[r] = "SENT"
      BY <2>1 DEF TypeOK
    <2>4. worker.step # "idle" => WorkRow \in Rows
      BY JobsTyped, WorkersJob
    <2>5. worker'.step \in Delivering => rows'[WorkRow'] # "SENT"
      BY <1>0, <2>3, <2>4, StaysAtJob DEF Aside, Delivering, MailInv
    <2>6. \A r \in Rows : AtMark(r)' <=> AtMark(r)
      BY <1>0, StaysAtJob DEF AtMark, Aside
    <2> QED
      BY <2>2, <2>3, <2>5, <2>6 DEF MailInv
  <1>2. CASE RetryWrites(s)
    <2> DEFINE q == slots[s].msg.row
    <2>1. q \in Rows
      BY <1>2, AtOwn, OrderShape DEF RetryWrites
    <2>2. /\ rows'[q] = "QUEUED" /\ mails' = mails
          /\ \A r \in Rows : r # q => rows'[r] = rows[r] /\ excuses'[r] = excuses[r]
          /\ rows[q] = "SENT" => excuses'[q] = excuses[q] + 1
          /\ rows[q] # "SENT" => excuses'[q] = excuses[q]
      BY <1>2, <2>1 DEF RetryWrites, TypeOK
    <2>3. worker.step # "idle" => WorkRow \in Rows
      BY JobsTyped, WorkersJob
    <2>4. worker'.step \in Delivering => rows'[WorkRow'] # "SENT"
      BY <1>0, <2>2, <2>3, StaysAtJob DEF Aside, Delivering, MailInv
    <2>5. \A r \in Rows : AtMark(r)' <=> AtMark(r)
      BY <1>0, StaysAtJob DEF AtMark, Aside
    <2>6. AtMark(q) => rows[q] # "SENT"
      BY DEF AtMark, MailInv, Delivering
    <2>7. \A r \in Rows : mails[r] \in Nat /\ excuses[r] \in Nat
      BY DEF TypeOK
    <2>8. \A r \in Rows : mails'[r] <= excuses'[r]
                          + (IF rows'[r] = "SENT" \/ AtMark(r)' THEN 1 ELSE 0)
      BY <2>2, <2>5, <2>6, <2>7 DEF MailInv
    <2> QED
      BY <2>4, <2>8 DEF MailInv
  <1>3. CASE \/ Acknowledge(s) \/ Consume(s) \/ ReadPreference(s)
             \/ SkipOptedOut(s) \/ SuppressDuplicate(s) \/ QueueDelivery(s)
             \/ RetryAdds(s) \/ UpdatePreference(s) \/ UpsertTemplate(s)
             \/ ForgetTemplate(s)
    BY <1>0, <1>3, MailAside
       DEF Acknowledge, Consume, ReadPreference, SkipOptedOut, SuppressDuplicate,
           QueueDelivery, RetryAdds, UpdatePreference, UpsertTemplate,
           ForgetTemplate, history
  <1> QED
    BY <1>1, <1>2, <1>3 DEF SlotStep

LEMMA WorkerStepMails ==
    ASSUME TypeOK, TypeOK', MailInv, WorkerStep
    PROVE  MailInv'
  <1>n. \A r \in Rows : mails[r] \in Nat /\ excuses[r] \in Nat
    BY DEF TypeOK
  <1>1. ASSUME NEW j \in jobs, TakeJob(j)
        PROVE  MailInv'
    <2>1. /\ worker.step = "idle" /\ mails' = mails /\ excuses' = excuses
          /\ worker'.step \in {"done", "render"}
          /\ worker'.step = "render" => rows'[WorkRow'] = "SENDING"
          /\ \A r \in Rows : rows'[r] = "SENT" <=> rows[r] = "SENT"
      <3>1. worker.step = "idle" /\ mails' = mails /\ excuses' = excuses
        BY <1>1 DEF TakeJob, history
      <3>2. rows \in [Rows -> Statuses]
        BY DEF TypeOK
      <3> QED
        BY <1>1, <3>1, <3>2, TakeOn
    <2>2. \A r \in Rows : ~AtMark(r) /\ ~AtMark(r)'
      BY <2>1 DEF AtMark
    <2> QED
      BY <2>1, <2>2 DEF MailInv, Delivering
  <1>2. CASE ReadTemplate
    BY <1>2, ReadOnward, GoesOn, NoMail DEF ReadTemplate, history, Delivering
  <1>3. CASE CompileTemplate
    <2>1. Work("send") \/ Work("catch")
      BY <1>3 DEF CompileTemplate
    <2>2. Onward /\ worker'.step \in {"send", "catch"}
      BY <1>3, <2>1, WorkOnward DEF CompileTemplate
    <2> QED
      BY <1>3, <2>2, GoesOn, NoMail DEF CompileTemplate, history, Delivering
  <1>4. CASE SendMail
    <2>1. Onward /\ worker'.step = "mark"
      BY <1>4, WorkOnward DEF SendMail
    <2>2. WorkRow' = WorkRow /\ WorkRow \in Rows
      BY <2>1, GoesOn
    <2>3. /\ mails'[WorkRow] = mails[WorkRow] + 1
          /\ \A r \in Rows : r # WorkRow => mails'[r] = mails[r]
          /\ rows' = rows /\ excuses' = excuses
      BY <1>4, <2>2 DEF SendMail, Accepted, TypeOK
    <2>4. \A r \in Rows : ~AtMark(r) /\ (AtMark(r)' <=> r = WorkRow)
      BY <1>4, <2>1, <2>2 DEF AtMark, SendMail
    <2>5. rows[WorkRow] # "SENT"
      BY <1>4 DEF MailInv, Delivering, SendMail
    <2>6. \A r \in Rows : mails'[r] <= excuses'[r]
                          + (IF rows'[r] = "SENT" \/ AtMark(r)' THEN 1 ELSE 0)
      BY <1>n, <2>2, <2>3, <2>4, <2>5 DEF MailInv
    <2> QED
      BY <2>2, <2>3, <2>5, <2>6 DEF MailInv
  <1>5. CASE MarkSent
    <2>1. Onward /\ worker'.step = "done"
      BY <1>5, WorkOnward DEF MarkSent
    <2>2. WorkRow' = WorkRow /\ WorkRow \in Rows
      BY <2>1, GoesOn
    <2>3. /\ rows'[WorkRow] = "SENT" /\ mails' = mails /\ excuses' = excuses
          /\ \A r \in Rows : r # WorkRow => rows'[r] = rows[r]
      BY <1>5, <2>2 DEF MarkSent, TypeOK
    <2>4. \A r \in Rows : ~AtMark(r)' /\ (AtMark(r) => r = WorkRow)
      BY <2>1 DEF AtMark
    <2>5. \A r \in Rows : mails'[r] <= excuses'[r]
                          + (IF rows'[r] = "SENT" \/ AtMark(r)' THEN 1 ELSE 0)
      BY <1>n, <2>2, <2>3, <2>4 DEF MailInv
    <2> QED
      BY <2>1, <2>5 DEF MailInv, Delivering
  <1>6. CASE CatchFailure
    <2>1. Onward /\ worker'.step = "failed" /\ worker.step = "catch"
      BY <1>6, WorkOnward DEF CatchFailure
    <2>2. WorkRow' = WorkRow /\ WorkRow \in Rows
      BY <2>1, GoesOn
    <2>3. rows[WorkRow] # "SENT"
      BY <2>1 DEF MailInv, Delivering
    <2>4. /\ rows'[WorkRow] # "SENT" /\ mails' = mails /\ excuses' = excuses
          /\ \A r \in Rows : r # WorkRow => rows'[r] = rows[r]
      BY <1>6, <2>2 DEF CatchFailure, TypeOK
    <2>5. \A r \in Rows : ~AtMark(r)' /\ ~AtMark(r)
      BY <2>1 DEF AtMark
    <2>6. \A r \in Rows : mails'[r] <= excuses'[r]
                          + (IF rows'[r] = "SENT" \/ AtMark(r)' THEN 1 ELSE 0)
      BY <1>n, <2>2, <2>3, <2>4, <2>5 DEF MailInv
    <2> QED
      BY <2>1, <2>6 DEF MailInv, Delivering
  <1>7. CASE CloseJob
    BY <1>7, RestingTyped, NoMail DEF CloseJob, history, Delivering
  <1> QED
    BY <1>1, <1>2, <1>3, <1>4, <1>5, <1>6, <1>7 DEF WorkerStep

LEMMA FailuresMail ==
    ASSUME TypeOK, TypeOK', MailInv, Failures
    PROVE  MailInv'
  <1>n. \A r \in Rows : mails[r] \in Nat /\ excuses[r] \in Nat
    BY DEF TypeOK
  <1>1. ASSUME NEW s \in Slots, HandlerFails(s)
        PROVE  MailInv'
    BY <1>1, HandlerAside, MailAside DEF HandlerFails
  <1>2. ASSUME NEW j \in jobs, TakeBreaks(j)
        PROVE  MailInv'
    BY <1>2, BreakOn, NoMail DEF TakeBreaks, Delivering
  <1>3. CASE ReadFails
    <2>1. Onward /\ worker'.step = "catch"
      BY <1>3, WorkOnward DEF ReadFails
    <2> QED
      BY <1>3, <2>1, GoesOn, NoMail DEF ReadFails, history, Delivering
  <1>4. CASE SendFails
    <2>1. Onward /\ worker'.step = "catch" /\ worker.step = "send"
      BY <1>4, WorkOnward DEF SendFails
    <2>2. WorkRow' = WorkRow /\ WorkRow \in Rows
      BY <2>1, GoesOn
    <2>3. CASE UNCHANGED <<mails, excuses>>
      BY <1>4, <2>1, <2>2, <2>3, NoMail DEF SendFails, Delivering
    <2>4. CASE Accepted /\ Excused
      <3>1. /\ mails'[WorkRow] = mails[WorkRow] + 1
            /\ excuses'[WorkRow] = excuses[WorkRow] + 1
            /\ \A r \in Rows : r # WorkRow => /\ mails'[r] = mails[r]
                                              /\ excuses'[r] = excuses[r]
            /\ rows' = rows
        BY <1>4, <2>2, <2>4 DEF SendFails, Accepted, Excused, TypeOK
      <3>2. \A r \in Rows : ~AtMark(r)' /\ ~AtMark(r)
        BY <2>1 DEF AtMark
      <3>3. \A r \in Rows : mails'[r] <= excuses'[r]
                            + (IF rows'[r] = "SENT" \/ AtMark(r)' THEN 1 ELSE 0)
        BY <1>n, <2>2, <3>1, <3>2 DEF MailInv
      <3> QED
        BY <2>1, <2>2, <3>1, <3>3 DEF MailInv, Delivering
    <2> QED
      BY <1>4, <2>3, <2>4 DEF SendFails
  <1>5. CASE MarkFails
    <2>1. Onward /\ worker'.step = "catch" /\ worker.step = "mark"
      BY <1>5, WorkOnward DEF MarkFails
    <2>2. WorkRow' = WorkRow /\ WorkRow \in Rows
      BY <2>1, GoesOn
    <2>3. /\ excuses'[WorkRow] = excuses[WorkRow] + 1 /\ mails' = mails
          /\ \A r \in Rows : r # WorkRow => excuses'[r] = excuses[r]
          /\ rows' = rows /\ rows[WorkRow] # "SENT"
      BY <1>5, <2>1, <2>2 DEF MarkFails, Excused, TypeOK, MailInv, Delivering
    <2>4. \A r \in Rows : ~AtMark(r)' /\ (AtMark(r) => r = WorkRow)
      BY <2>1 DEF AtMark
    <2>5. \A r \in Rows : mails'[r] <= excuses'[r]
                          + (IF rows'[r] = "SENT" \/ AtMark(r)' THEN 1 ELSE 0)
      BY <1>n, <2>2, <2>3, <2>4 DEF MailInv
    <2> QED
      BY <2>2, <2>3, <2>5 DEF MailInv
  <1>6. CASE CatchBreaks
    <2>1. worker'.step = "failed" /\ worker.step = "catch"
      BY <1>6, WorkOnward DEF CatchBreaks
    <2> QED
      BY <1>6, <2>1, NoMail DEF CatchBreaks, Delivering
  <1>7. CASE Crash
    <2>1. worker'.step = "idle" /\ rows' = rows /\ mails' = mails
      BY <1>7, RestingTyped DEF Crash
    <2>2. CASE worker.step = "mark"
      <3>1. WorkRow \in Rows
        BY <2>2, JobsTyped, WorkersJob
      <3>2. /\ excuses'[WorkRow] = excuses[WorkRow] + 1
            /\ \A r \in Rows : r # WorkRow => excuses'[r] = excuses[r]
        BY <1>7, <2>2, <3>1 DEF Crash, Excused, TypeOK
      <3>3. \A r \in Rows : AtMark(r) => r = WorkRow
        BY DEF AtMark
      <3>4. \A r \in Rows : mails'[r] <= excuses'[r]
                            + (IF rows'[r] = "SENT" \/ AtMark(r)' THEN 1 ELSE 0)
        BY <1>n, <2>1, <3>1, <3>2, <3>3 DEF MailInv
      <3> QED
        BY <2>1, <3>4 DEF MailInv, Delivering
    <2>3. CASE worker.step # "mark"
      <3>1. excuses' = excuses
        BY <1>7, <2>3 DEF Crash
      <3> QED
        BY <2>1, <2>3, <3>1, NoMail DEF Delivering
    <2> QED
      BY <2>2, <2>3
  <1> QED
    BY <1>1, <1>2, <1>3, <1>4, <1>5, <1>6, <1>7 DEF Failures

LEMMA PublishAside ==
    ASSUME TypeOK, NEW m \in Messages, Publish(m)
    PROVE  Aside
  BY DEF Publish, Aside

LEMMA MailKept ==
    ASSUME TypeOK, TypeOK', BoxInv, MailInv, [Next]_vars
    PROVE  MailInv'
  <1>1. ASSUME NEW m \in Messages, Publish(m)
        PROVE  MailInv'
    BY <1>1, PublishAside, MailAside DEF Publish
  <1>2. ASSUME NEW s \in Slots, Receive(s)
        PROVE  MailInv'
    BY <1>2, HandlerAside, MailAside DEF Receive, history
  <1>3. CASE UNCHANGED vars
    <2>1. Aside
      BY <1>3 DEF vars, Aside
    <2> QED
      BY <1>3, <2>1, MailAside DEF vars, history
  <1> QED
    BY <1>1, <1>2, <1>3, SlotStepMails, WorkerStepMails, FailuresMail
       DEF Next, ServiceStep

(* No second mail goes out for the same fact unless it is accounted for:   *)
(* the mail server took the first and the service could not note it, or an *)
(* admin sent it again; whatever crashes, fails and is delivered twice.    *)
THEOREM MailsAccountedFor == Spec => []SecondMailExplained
  <1>1. Init => MailInv
    <2> SUFFICES ASSUME Init PROVE MailInv
      OBVIOUS
    <2>1. worker.step = "idle" /\ \A r \in Rows : mails[r] = 0 /\ excuses[r] = 0
      BY RestingTyped DEF Init
    <2> QED
      BY <2>1 DEF MailInv, Delivering
  <1>2. TypeOK /\ BoxInv /\ TypeOK' /\ MailInv /\ [Next]_vars => MailInv'
    BY MailKept
  <1>3. TypeOK /\ MailInv => SecondMailExplained
    <2> SUFFICES ASSUME TypeOK, MailInv, NEW r \in Rows
                 PROVE  mails[r] <= 1 + excuses[r]
      BY DEF SecondMailExplained
    <2>1. mails[r] \in Nat /\ excuses[r] \in Nat
      BY DEF TypeOK
    <2> QED
      BY <2>1 DEF MailInv
  <1> QED
    BY <1>1, <1>2, <1>3, MailboxBooks, PTL DEF Spec

-----------------------------------------------------------------------------
(* JobInv, action by action.  A handler's step keeps every delivery that   *)
(* is accounted for so, or makes the row it is about to add a job for.     *)
LEMMA JobsAside ==
    ASSUME TypeOK, TypeOK', JobInv, Aside,
           \A r \in Rows :
              /\ Unfinished(r)' => Unfinished(r) \/ Adding(r)'
              /\ Adding(r) \/ r \in stranded
                    => Adding(r)' \/ r \in stranded'
                          \/ \E j \in jobs' \ jobs : j.row = r
    PROVE  JobInv'
  <1>1. ASSUME NEW r \in Rows, Unfinished(r)'
        PROVE  Explained(r, jobs)'
    BY <1>1 DEF JobInv, Explained, Aside
  <1>2. ASSUME Ending', Unfinished(WorkRow)'
        PROVE  Explained(WorkRow, jobs \ {JobOf(worker.nr)})'
    <2>1. worker.step # "idle"
      BY <1>2 DEF Ending, Aside
    <2>2. JobOf(worker.nr)' = JobOf(worker.nr) /\ WorkRow' = WorkRow
      BY <2>1, StaysAtJob
    <2>3. Ending /\ WorkRow \in Rows /\ JobOf(worker.nr) \in jobs
      BY <1>2, <2>1, <2>2, JobsTyped, WorkersJob DEF Ending, Aside
    <2>4. PICK r \in Rows : r = WorkRow
      BY <2>3
    <2>5. Unfinished(r)'
      BY <1>2, <2>2, <2>4 DEF Unfinished
    <2>6. Adding(r)' \/ r \in stranded' \/ \E j \in jobs' \ {JobOf(worker.nr)} : j.row = r
      <3>1. CASE Unfinished(r)
        <4>1. Explained(r, jobs \ {JobOf(worker.nr)})
          BY <2>3, <2>4, <3>1 DEF JobInv
        <4> QED
          BY <2>3, <4>1 DEF Explained, Aside
      <3>2. CASE Adding(r)'
        BY <3>2
      <3> QED
        BY <2>5, <3>1, <3>2
    <2>7. Adding(WorkRow)' <=> Adding(r)'
      BY <2>2, <2>4 DEF Adding
    <2> QED
      BY <2>2, <2>4, <2>6, <2>7 DEF Explained
  <1> QED
    BY <1>1, <1>2 DEF JobInv

LEMMA JobAdded ==
    ASSUME TypeOK, NEW row, NEW n, AddJob(row, n)
    PROVE  /\ \E j \in jobs' \ jobs : j.row = row
           /\ \A r \in stranded : r \in stranded' \/ r = row
  <1> DEFINE new == [nr |-> FreeNr, row |-> row, attempts |-> n, made |-> 0,
                     stalls |-> 0, active |-> FALSE]
  <1>1. jobs' = jobs \cup {new} /\ new.nr = FreeNr /\ new.row = row
    BY DEF AddJob
  <1>2. \A j \in jobs : j.nr # FreeNr
    BY JobsTyped, NumberFree DEF AddJob
  <1> HIDE DEF new
  <1>3. new \in jobs' \ jobs
    BY <1>1, <1>2
  <1> QED
    BY <1>1, <1>3 DEF AddJob

(* Another handler adds what it added.                                     *)
LEMMA AddsStill ==
    ASSUME TypeOK, NEW s \in Slots, \A t \in Slots : t # s => slots'[t] = slots[t],
           NEW r, Adding(r), slots[s].step = "add" => AddedTo(s) # r
    PROVE  Adding(r)'
  BY DEF Adding, AddedTo, Row

LEMMA AddsNow ==
    ASSUME TypeOK, NEW s \in Slots, Go(s, "add"), NEW r, r = AddedTo(s)
    PROVE  Adding(r)'
  <1>1. /\ slots'[s].msg = slots[s].msg /\ slots'[s].step = "add"
        /\ slots'[s].user = slots[s].user
    BY GoFields
  <1> QED
    BY <1>1 DEF Adding, AddedTo, Row

LEMMA SlotStepJobs ==
    ASSUME TypeOK, TypeOK', BoxInv, JobInv, NEW s \in Slots, SlotStep(s)
    PROVE  JobInv'
  <1>0. Aside
    BY HandlerAside
  <1>s. SlotInv
    BY DEF BoxInv
  <1>q. ASSUME rows' = rows, stranded' = stranded, slots[s].step # "add",
               \A t \in Slots : t # s => slots'[t] = slots[t]
        PROVE  JobInv'
    <2>1. \A r \in Rows : /\ Adding(r) => Adding(r)'
                          /\ Unfinished(r)' => Unfinished(r)
      BY <1>q, AddsStill DEF Unfinished
    <2> QED
      BY <1>0, <1>q, <2>1, JobsAside
  <1>1. CASE Acknowledge(s)
    BY <1>1, <1>q, FreeFields DEF Acknowledge, history
  <1>2. CASE Consume(s)
    <2>1. \A t \in Slots : t # s => slots'[t] = slots[t]
      BY <1>2, NextFields DEF Consume
    <2> QED
      BY <1>2, <1>q, <2>1 DEF Consume, At, history
  <1>3. CASE ReadPreference(s)
    BY <1>3, <1>q, GoFields DEF ReadPreference, history
  <1>4. CASE SkipOptedOut(s)
    BY <1>4, <1>q, NextFields DEF SkipOptedOut
  <1>5. CASE RecordRow(s)
    <2>1. slots[s].msg \in Facts /\ Row(s) \in Rows
      BY <1>5, <1>s, RecipientRow DEF RecordRow, Working
    <2>2. AddedTo(s) = Row(s)
      BY <2>1, FactShape DEF AddedTo, FactKinds
    <2>3. \A r \in Rows : Unfinished(r)' => Unfinished(r) \/ r = Row(s)
      BY <1>5 DEF RecordRow, Unfinished, TypeOK
    <2>4. \A r \in Rows : r = Row(s) => Adding(r)'
      BY <1>5, <2>2, AddsNow DEF RecordRow
    <2>5. slots[s].step # "add" /\ \A t \in Slots : t # s => slots'[t] = slots[t]
      BY <1>5, GoFields DEF RecordRow
    <2>6. \A r \in Rows : Adding(r) => Adding(r)'
      BY <2>5, AddsStill
    <2>7. stranded' = stranded
      BY <1>5 DEF RecordRow, history
    <2> QED
      BY <1>0, <2>3, <2>4, <2>6, <2>7, JobsAside
  <1>6. CASE SuppressDuplicate(s)
    BY <1>6, <1>q, NextFields DEF SuppressDuplicate, history
  <1>7. CASE QueueDelivery(s)
    <2>1. slots[s].msg \in Facts /\ slots[s].step = "add"
      BY <1>7, AtOwn DEF QueueDelivery
    <2>2. AddedTo(s) = Row(s)
      BY <2>1, FactShape DEF AddedTo, FactKinds
    <2>3. /\ \E j \in jobs' \ jobs : j.row = AddedTo(s)
          /\ \A r \in stranded : r \in stranded' \/ r = AddedTo(s)
      BY <1>7, <2>2, JobAdded DEF QueueDelivery
    <2>4. \A t \in Slots : t # s => slots'[t] = slots[t]
      BY <1>7, NextFields DEF QueueDelivery
    <2>5. \A r \in Rows : Adding(r) => Adding(r)' \/ r = AddedTo(s)
      BY <2>4, AddsStill
    <2>6. \A r \in Rows : Unfinished(r)' => Unfinished(r)
      BY <1>7 DEF QueueDelivery, Unfinished
    <2> QED
      BY <1>0, <2>3, <2>5, <2>6, JobsAside
  <1>8. CASE RetryWrites(s)
    <2>1. slots[s].msg.kind = "retry" /\ slots[s].step = "start"
      BY <1>8, AtOwn DEF RetryWrites
    <2>2. AddedTo(s) = slots[s].msg.row
      BY <2>1 DEF AddedTo
    <2>3. \A r \in Rows : Unfinished(r)' => Unfinished(r) \/ r = AddedTo(s)
      BY <1>8, <2>2 DEF RetryWrites, Unfinished, TypeOK
    <2>4. \A r \in Rows : r = AddedTo(s) => Adding(r)'
      BY <1>8, AddsNow DEF RetryWrites
    <2>5. \A t \in Slots : t # s => slots'[t] = slots[t]
      BY <1>8, GoFields DEF RetryWrites
    <2>6. \A r \in Rows : Adding(r) => Adding(r)'
      BY <2>1, <2>5, AddsStill
    <2>7. stranded' = stranded
      BY <1>8 DEF RetryWrites
    <2> QED
      BY <1>0, <2>3, <2>4, <2>6, <2>7, JobsAside
  <1>9. CASE RetryAdds(s)
    <2>1. slots[s].msg.kind = "retry" /\ slots[s].step = "add"
      BY <1>9, AtOwn DEF RetryAdds
    <2>2. AddedTo(s) = slots[s].msg.row
      BY <2>1 DEF AddedTo
    <2>3. /\ \E j \in jobs' \ jobs : j.row = AddedTo(s)
          /\ \A r \in stranded : r \in stranded' \/ r = AddedTo(s)
      BY <1>9, <2>2, JobAdded DEF RetryAdds
    <2>4. \A t \in Slots : t # s => slots'[t] = slots[t]
      BY <1>9, GoFields DEF RetryAdds
    <2>5. \A r \in Rows : Adding(r) => Adding(r)' \/ r = AddedTo(s)
      BY <2>4, AddsStill
    <2>6. \A r \in Rows : Unfinished(r)' => Unfinished(r)
      BY <1>9 DEF RetryAdds, Unfinished
    <2> QED
      BY <1>0, <2>3, <2>5, <2>6, JobsAside
  <1>10. CASE UpdatePreference(s)
    <2>1. \A t \in Slots : t # s => slots'[t] = slots[t]
      BY <1>10, GoFields DEF UpdatePreference
    <2> QED
      BY <1>10, <1>q, <2>1 DEF UpdatePreference, At
  <1>11. CASE UpsertTemplate(s)
    <2>1. \A t \in Slots : t # s => slots'[t] = slots[t]
      BY <1>11, GoFields DEF UpsertTemplate
    <2> QED
      BY <1>11, <1>q, <2>1 DEF UpsertTemplate, At, history
  <1>12. CASE ForgetTemplate(s)
    BY <1>12, <1>q, GoFields DEF ForgetTemplate, history
  <1> QED
    BY <1>1, <1>2, <1>3, <1>4, <1>5, <1>6, <1>7, <1>8, <1>9, <1>10, <1>11, <1>12
       DEF SlotStep

(* A step of the worker that changes no row and does not end its job.      *)
LEMMA JobsOnward ==
    ASSUME TypeOK, JobInv, UNCHANGED <<rows, slots, jobs, stranded>>, ~Ending'
    PROVE  JobInv'
  BY DEF JobInv, Explained, Adding, AddedTo, Row, Unfinished

(* A job taken up is one of the same row, and no other is touched.         *)
LEMMA TakenKeeps ==
    ASSUME TypeOK, NEW j \in jobs,
           jobs' = (jobs \ {j}) \cup {[j EXCEPT !.active = TRUE]}
    PROVE  /\ \A i \in jobs : \E k \in jobs' : k.row = i.row
           /\ jobs \ {j} \subseteq jobs' \ {[j EXCEPT !.active = TRUE]}
           /\ [j EXCEPT !.active = TRUE].made = j.made
           /\ [j EXCEPT !.active = TRUE].attempts = j.attempts
  <1>1. j \in Job /\ \A i \in jobs : i.nr = j.nr => i = j
    BY DEF TypeOK
  <1>2. PICK k \in jobs' : k = [j EXCEPT !.active = TRUE]
    OBVIOUS
  <1>3. k.nr = j.nr /\ k.row = j.row /\ k.made = j.made /\ k.attempts = j.attempts
    BY <1>1, <1>2 DEF Job
  <1> QED
    BY <1>1, <1>2, <1>3

LEMMA WorkerStepJobs ==
    ASSUME TypeOK, TypeOK', JobInv, WorkerStep
    PROVE  JobInv'
  <1>1. ASSUME NEW j \in jobs, TakeJob(j)
        PROVE  JobInv'
    <2>1. /\ WorkRow' = j.row /\ j.row \in Rows
          /\ \/ worker'.step = "done" /\ rows[j.row] = "SENT" /\ rows' = rows
             \/ /\ worker'.step = "render" /\ rows[j.row] # "SENT"
                /\ rows' = [rows EXCEPT ![j.row] = "SENDING"]
      BY <1>1, TakeOn
    <2>2. /\ \A i \in jobs : \E k \in jobs' : k.row = i.row
          /\ \E k \in jobs' : k.row = j.row
      BY <1>1, TakenKeeps DEF TakeJob
    <2>3. slots' = slots /\ stranded' = stranded
      BY <1>1 DEF TakeJob, history
    <2>4. \A r \in Rows : Unfinished(r)' => Unfinished(r) \/ r = j.row
      BY <2>1 DEF Unfinished, TypeOK
    <2>5. \A r \in Rows : Adding(r) => Adding(r)'
      BY <2>3 DEF Adding, AddedTo, Row
    <2>6. \A r \in Rows : Unfinished(r)' => Explained(r, jobs)'
      BY <2>2, <2>3, <2>4, <2>5 DEF JobInv, Explained
    <2>7. ~(Ending /\ Unfinished(WorkRow))'
      BY <2>1 DEF Ending, Unfinished
    <2> QED
      BY <2>6, <2>7 DEF JobInv
  <1>2. CASE ReadTemplate
    <2>1. ~Ending'
      BY <1>2, ReadOnward DEF Ending
    <2> QED
      BY <1>2, <2>1, JobsOnward DEF ReadTemplate, history
  <1>3. CASE CompileTemplate
    <2>1. Work("send") \/ Work("catch")
      BY <1>3 DEF CompileTemplate
    <2>2. worker'.step \in {"send", "catch"}
      BY <1>3, <2>1, WorkOnward DEF CompileTemplate
    <2>3. ~Ending'
      BY <2>2 DEF Ending
    <2> QED
      BY <1>3, <2>3, JobsOnward DEF CompileTemplate, history
  <1>4. CASE SendMail
    <2>1. ~Ending'
      BY <1>4, WorkOnward DEF SendMail, Ending
    <2> QED
      BY <1>4, <2>1, JobsOnward DEF SendMail
  <1>5. CASE MarkSent
    <2>1. Onward
      BY <1>5, WorkOnward DEF MarkSent
    <2>2. WorkRow' = WorkRow /\ WorkRow \in Rows
      BY <2>1, GoesOn
    <2>3. /\ rows'[WorkRow] = "SENT" /\ slots' = slots /\ jobs' = jobs
          /\ \A r \in Rows : r # WorkRow => rows'[r] = rows[r]
          /\ \A r \in stranded : r # WorkRow => r \in stranded'
      BY <1>5, <2>2 DEF MarkSent, TypeOK
    <2>4. \A r \in Rows : Unfinished(r)' => Unfinished(r) /\ r # WorkRow
      BY <2>3 DEF Unfinished
    <2>5. \A r \in Rows : Adding(r) => Adding(r)'
      BY <2>3 DEF Adding, AddedTo, Row
    <2>6. \A r \in Rows : Unfinished(r)' => Explained(r, jobs)'
      BY <2>3, <2>4, <2>5 DEF JobInv, Explained
    <2>7. ~Unfinished(WorkRow)'
      BY <2>2, <2>3 DEF Unfinished
    <2> QED
      BY <2>6, <2>7 DEF JobInv
  <1>6. CASE CatchFailure
    <2>1. Onward /\ worker'.step = "failed"
      BY <1>6, WorkOnward DEF CatchFailure
    <2>2. /\ WorkRow' = WorkRow /\ WorkRow \in Rows
          /\ JobOf(worker.nr)' = JobOf(worker.nr)
          /\ JobOf(worker.nr) \in jobs
      BY <2>1, GoesOn, JobsTyped, WorkersJob DEF Onward
    <2>3. /\ rows'[WorkRow] = IF IsLastAttempt(JobOf(worker.nr)) THEN "FAILED"
                                                              ELSE "QUEUED"
          /\ slots' = slots /\ jobs' = jobs
          /\ \A r \in Rows : r # WorkRow => rows'[r] = rows[r]
          /\ \A r \in stranded : r # WorkRow => r \in stranded'
      BY <1>6, <2>2 DEF CatchFailure, TypeOK
    <2>4. \A r \in Rows : Unfinished(r)' => Unfinished(r) \/ r = WorkRow
      BY <2>3 DEF Unfinished
    <2>5. \A r \in Rows : Adding(r) => Adding(r)'
      BY <2>3 DEF Adding, AddedTo, Row
    <2>6. \E j \in jobs' : j.row = WorkRow
      BY <2>2, <2>3 DEF WorkRow
    <2>7. \A r \in Rows : Unfinished(r)' => Explained(r, jobs)'
      BY <2>3, <2>4, <2>5, <2>6 DEF JobInv, Explained
    <2>8. Ending' => ~Unfinished(WorkRow)'
      BY <2>1, <2>2, <2>3 DEF Ending, Unfinished, IsLastAttempt
    <2> QED
      BY <2>7, <2>8 DEF JobInv
  <1>7. CASE CloseJob
    <2> DEFINE j == JobOf(worker.nr)
               back == [j EXCEPT !.made = @ + 1, !.active = FALSE]
    <2>1. worker.step \in {"done", "failed"} /\ worker'.step = "idle"
      BY <1>7, RestingTyped DEF CloseJob
    <2>2. j \in jobs /\ j \in Job /\ WorkRow = j.row /\ j.row \in Rows
      BY <2>1, JobsTyped, WorkersJob DEF WorkRow, TypeOK
    <2>3. back.row = j.row
      BY <2>2 DEF Job
    <2>4. \/ Ending /\ jobs' = jobs \ {j}
          \/ jobs' = (jobs \ {j}) \cup {back}
      BY <1>7 DEF CloseJob, Ending
    <2>5. rows' = rows /\ slots' = slots /\ stranded' = stranded
      BY <1>7 DEF CloseJob, history
    <2>6. \A r \in Rows : Adding(r) => Adding(r)'
      BY <2>5 DEF Adding, AddedTo, Row
    <2> HIDE DEF back
    <2>7. ASSUME NEW r \in Rows, Unfinished(r)'
          PROVE  Explained(r, jobs)'
      <3>1. Unfinished(r)
        BY <2>5, <2>7 DEF Unfinished
      <3>2. CASE r = j.row /\ Ending /\ jobs' = jobs \ {j}
        <4>1. Explained(WorkRow, jobs \ {j})
          BY <2>2, <3>1, <3>2 DEF JobInv
        <4> QED
          BY <2>2, <2>5, <2>6, <3>2, <4>1 DEF Explained
      <3>3. CASE r = j.row /\ jobs' = (jobs \ {j}) \cup {back}
        BY <2>3, <3>3 DEF Explained
      <3>4. CASE r # j.row
        <4>1. Explained(r, jobs)
          BY <3>1 DEF JobInv
        <4> QED
          BY <2>4, <2>5, <2>6, <3>4, <4>1 DEF Explained
      <3> QED
        BY <2>4, <3>2, <3>3, <3>4
    <2>8. ~Ending'
      BY <2>1 DEF Ending
    <2> QED
      BY <2>7, <2>8 DEF JobInv
  <1> QED
    BY <1>1, <1>2, <1>3, <1>4, <1>5, <1>6, <1>7 DEF WorkerStep

(* Whatever fails, the row keeps its job or its handler, or is noted as    *)
(* stranded.                                                               *)
LEMMA FailuresJobs ==
    ASSUME TypeOK, TypeOK', JobInv, Failures
    PROVE  JobInv'
  <1>1. ASSUME NEW s \in Slots, HandlerFails(s)
        PROVE  JobInv'
    <2>1. \A t \in Slots : t # s => slots'[t] = slots[t]
      BY <1>1, FreeFields DEF HandlerFails
    <2>2. \A r \in Rows : Adding(r) => Adding(r)' \/ r \in stranded'
      <3>1. slots[s].step = "add" => AddedTo(s) \in stranded'
        BY <1>1 DEF HandlerFails
      <3> QED
        BY <2>1, <3>1, AddsStill
    <2>3. stranded \subseteq stranded' /\ rows' = rows
      BY <1>1 DEF HandlerFails
    <2> QED
      BY <1>1, <2>2, <2>3, HandlerAside, JobsAside DEF Unfinished
  <1>2. ASSUME NEW j \in jobs, TakeBreaks(j)
        PROVE  JobInv'
    <2> DEFINE taken == [j EXCEPT !.active = TRUE]
    <2>1. /\ WorkRow' = j.row /\ j.row \in Rows /\ JobOf(worker.nr)' = taken
          /\ worker'.step = "failed"
      BY <1>2, BreakOn
    <2>2. /\ \A i \in jobs : \E k \in jobs' : k.row = i.row
          /\ jobs \ {j} \subseteq jobs' \ {taken}
          /\ taken.made = j.made /\ taken.attempts = j.attempts
      BY <1>2, TakenKeeps DEF TakeBreaks
    <2>3. rows' = rows /\ slots' = slots /\ Attempted(j)
      BY <1>2 DEF TakeBreaks
    <2>4. \A r \in Rows : Adding(r) => Adding(r)'
      BY <2>3 DEF Adding, AddedTo, Row
    <2>5. stranded \subseteq stranded'
      BY <2>3 DEF Attempted
    <2>6. \A r \in Rows : Unfinished(r)' => Explained(r, jobs)'
      BY <2>2, <2>3, <2>4, <2>5 DEF JobInv, Explained, Unfinished
    <2> HIDE DEF taken
    <2>7. Ending' => taken.made + 1 >= taken.attempts
      BY <2>1 DEF Ending
    <2>8. Ending' => ~(j.made + 1 < j.attempts)
      <3>1. j.made \in Nat /\ j.attempts \in Nat
        BY LimitsAssumption DEF TypeOK, Job
      <3> QED
        BY <2>2, <2>7, <3>1
    <2>9. Ending' => j.row \in stranded' \/ \E i \in jobs' \ {taken} : i.row = j.row
      BY <2>2, <2>3, <2>8 DEF Attempted
    <2>10. Ending' => Explained(WorkRow, jobs \ {JobOf(worker.nr)})'
      BY <2>1, <2>9 DEF Explained
    <2> QED
      BY <2>6, <2>10 DEF JobInv
  <1>3. CASE ReadFails \/ SendFails \/ MarkFails
    <2>1. worker'.step = "catch"
      BY <1>3, WorkOnward DEF ReadFails, SendFails, MarkFails
    <2>2. ~Ending'
      BY <2>1 DEF Ending
    <2> QED
      BY <1>3, <2>2, JobsOnward DEF ReadFails, SendFails, MarkFails, history
  <1>4. CASE CatchBreaks
    <2>1. Onward /\ worker'.step = "failed"
      BY <1>4, WorkOnward DEF CatchBreaks
    <2> DEFINE j == JobOf(worker.nr)
    <2>2. /\ WorkRow' = j.row /\ j.row \in Rows /\ JobOf(worker.nr)' = j
          /\ j \in jobs
      BY <2>1, GoesOn, JobsTyped, WorkersJob DEF Onward, WorkRow
    <2>3. rows' = rows /\ slots' = slots /\ jobs' = jobs /\ Attempted(j)
      BY <1>4 DEF CatchBreaks
    <2> HIDE DEF j
    <2>4. \A r \in Rows : Adding(r) => Adding(r)'
      BY <2>3 DEF Adding, AddedTo, Row
    <2>5. stranded \subseteq stranded'
      BY <2>3 DEF Attempted
    <2>6. \A r \in Rows : Unfinished(r)' => Explained(r, jobs)'
      BY <2>3, <2>4, <2>5 DEF JobInv, Explained, Unfinished
    <2>7. Ending' => ~(j.made + 1 < j.attempts)
      <3>1. j.made \in Nat /\ j.attempts \in Nat
        BY <2>2, LimitsAssumption DEF TypeOK, Job
      <3> QED
        BY <2>1, <2>2, <3>1 DEF Ending
    <2>8. Ending' => j.row \in stranded' \/ \E i \in jobs' \ {j} : i.row = j.row
      BY <2>3, <2>7 DEF Attempted
    <2>9. Ending' => Explained(WorkRow, jobs \ {JobOf(worker.nr)})'
      BY <2>2, <2>8 DEF Explained
    <2> QED
      BY <2>6, <2>9 DEF JobInv
  <1>5. CASE Crash
    <2> DEFINE running == {j \in jobs : j.active}
               givenUp == {j \in running : j.stalls = 1}
               again == {Resumed(j) : j \in running \ givenUp}
    <2>1. /\ jobs' = (jobs \ running) \cup again /\ rows' = rows
          /\ stranded \subseteq stranded'
          /\ \A j \in givenUp : j.row \in stranded'
          /\ \A s \in Slots : slots[s].step = "add" => AddedTo(s) \in stranded'
      BY <1>5 DEF Crash
    <2>2. \A j \in jobs : Resumed(j).row = j.row
      BY DEF TypeOK, Job, Resumed
    <2>3. \A j \in jobs : j.row \in stranded' \/ \E k \in jobs' : k.row = j.row
      BY <2>1, <2>2
    <2>4. \A r \in Rows : Adding(r) => r \in stranded'
      BY <2>1 DEF Adding
    <2>5. \A r \in Rows : Unfinished(r)' => Explained(r, jobs)'
      BY <2>1, <2>3, <2>4 DEF JobInv, Explained, Unfinished
    <2>6. ~Ending'
      BY <1>5, RestingTyped DEF Crash, Ending
    <2> QED
      BY <2>5, <2>6 DEF JobInv
  <1> QED
    BY <1>1, <1>2, <1>3, <1>4, <1>5 DEF Failures

LEMMA JobsKept ==
    ASSUME TypeOK, TypeOK', BoxInv, JobInv, [Next]_vars
    PROVE  JobInv'
  <1>q. ASSUME Aside, UNCHANGED <<slots, rows, stranded>>
        PROVE  JobInv'
    <2>1. \A r \in Rows : /\ Adding(r) => Adding(r)'
                          /\ Unfinished(r)' => Unfinished(r)
      BY <1>q DEF Adding, AddedTo, Row, Unfinished
    <2> QED
      BY <1>q, <2>1, JobsAside
  <1>1. ASSUME NEW m \in Messages, Publish(m)
        PROVE  JobInv'
    BY <1>1, <1>q, PublishAside DEF Publish
  <1>2. ASSUME NEW s \in Slots, Receive(s)
        PROVE  JobInv'
    <2>1. /\ slots[s].step # "add" /\ rows' = rows /\ stranded' = stranded
          /\ \A t \in Slots : t # s => slots'[t] = slots[t]
      BY <1>2 DEF Receive, TypeOK, history
    <2>2. \A r \in Rows : /\ Adding(r) => Adding(r)'
                          /\ Unfinished(r)' => Unfinished(r)
      BY <2>1, AddsStill DEF Unfinished
    <2> QED
      BY <1>2, <2>1, <2>2, HandlerAside, JobsAside
  <1>3. CASE UNCHANGED vars
    <2>1. Aside
      BY <1>3 DEF vars, Aside
    <2> QED
      BY <1>3, <1>q, <2>1 DEF vars, history
  <1> QED
    BY <1>1, <1>2, <1>3, SlotStepJobs, WorkerStepJobs, FailuresJobs
       DEF Next, ServiceStep

(* An unfinished delivery always has a job that will finish it or a        *)
(* handler about to add one, unless the process died or the queue failed   *)
(* between the row and the job, or the last attempt could not be noted.    *)
THEOREM DeliveriesAccountedFor == Spec => []NoneForgotten
  <1>1. Init => JobInv
    <2> SUFFICES ASSUME Init PROVE JobInv
      OBVIOUS
    <2>1. worker.step = "idle" /\ \A r \in Rows : rows[r] = "NONE"
      BY RestingTyped DEF Init
    <2> QED
      BY <2>1 DEF JobInv, Ending, Unfinished
  <1>2. TypeOK /\ BoxInv /\ TypeOK' /\ JobInv /\ [Next]_vars => JobInv'
    BY JobsKept
  <1>3. JobInv => NoneForgotten
    BY DEF JobInv, NoneForgotten, Explained, Adding
  <1> QED
    BY <1>1, <1>2, <1>3, MailboxBooks, PTL DEF Spec

-----------------------------------------------------------------------------
(* DeclinedInv, action by action. *)
LEMMA DeclinedStays ==
    ASSUME DeclinedInv, TypeOK, declined' \subseteq declined,
           \A r \in declined' : <<r[2], r[1].key>> \in optedOut',
           \A m \in Messages : fate'[m] = "unsent" <=> fate[m] = "unsent",
           \A r \in Rows : rows[r] = "NONE" /\ rows'[r] # "NONE"
                              => r \notin declined' /\ fate[r[1]] # "unsent",
           \A s \in Slots : slots'[s].step = "record" => Row(s)' \notin declined'
    PROVE  DeclinedInv'
  <1>1. \A r \in Rows : r[1] \in Messages
    BY RowShape, FactShape
  <1>2. declined \subseteq Rows
    BY DEF TypeOK
  <1> QED
    BY <1>1, <1>2 DEF DeclinedInv

(* A handler goes on, and nobody is opted in.                              *)
LEMMA DeclinedAside ==
    ASSUME DeclinedInv, TypeOK, NEW s \in Slots,
           \A t \in Slots : t # s => slots'[t] = slots[t],
           slots'[s].step = "record" => Row(s)' \notin declined,
           \A m \in Messages : fate'[m] = "unsent" <=> fate[m] = "unsent",
           UNCHANGED <<rows, declined, optedOut>>
    PROVE  DeclinedInv'
  <1>1. ASSUME NEW t \in Slots, slots'[t].step = "record"
        PROVE  Row(t)' \notin declined
    BY <1>1 DEF DeclinedInv, Row
  <1>2. \A r \in declined : <<r[2], r[1].key>> \in optedOut
    BY DEF DeclinedInv
  <1> QED
    BY <1>1, <1>2, DeclinedStays

(* No handler goes on, and rows are written over only where they are.      *)
LEMMA DeclinedQuiet ==
    ASSUME DeclinedInv, TypeOK, UNCHANGED <<slots, declined, optedOut, fate>>,
           \A r \in Rows : rows[r] = "NONE" => rows'[r] = "NONE"
    PROVE  DeclinedInv'
  <1>1. \A s \in Slots : slots'[s].step = "record" => Row(s)' \notin declined
    BY DEF DeclinedInv, Row
  <1>2. \A r \in declined : <<r[2], r[1].key>> \in optedOut
    BY DEF DeclinedInv
  <1> QED
    BY <1>1, <1>2, DeclinedStays

LEMMA SlotStepDeclines ==
    ASSUME TypeOK, BoxInv, DeclinedInv, NEW s \in Slots, SlotStep(s)
    PROVE  DeclinedInv'
  <1> DEFINE m == slots[s].msg
  <1>a. Shape(s) /\ Holds(s)
    BY DEF BoxInv, SlotInv, HoldsInv
  <1>o. \A r \in declined : r \in Rows /\ <<r[2], r[1].key>> \in optedOut
    BY DEF DeclinedInv, TypeOK
  <1>1. CASE Acknowledge(s)
    <2>1. fate[m] = "held" /\ fate' = [fate EXCEPT ![m] = "acked"]
      BY <1>1, <1>a DEF Acknowledge, Holds
    <2>2. \A n \in Messages : fate'[n] = "unsent" <=> fate[n] = "unsent"
      BY <2>1 DEF TypeOK
    <2> QED
      BY <1>1, <2>2, FreeFields, DeclinedAside DEF Acknowledge, history
  <1>2. CASE Consume(s)
    <2>1. /\ slots'[s].msg = m
          /\ slots'[s].step = "record" => m.kind = "direct"
          /\ \A t \in Slots : t # s => slots'[t] = slots[t]
      BY <1>2, NextFields DEF Consume
    <2>2. Row(s)'[1] = m
      BY <2>1 DEF Row
    <2>3. slots'[s].step = "record" => Row(s)' \notin declined
      BY <2>1, <2>2 DEF DeclinedInv
    <2> QED
      BY <1>2, <2>1, <2>3, DeclinedAside DEF Consume, history
  <1>3. CASE ReadPreference(s)
    <2>1. /\ slots'[s].msg = m /\ slots'[s].user = slots[s].user
          /\ \A t \in Slots : t # s => slots'[t] = slots[t]
      BY <1>3, GoFields DEF ReadPreference
    <2>2. Row(s)[1] = m /\ Row(s)[2] = slots[s].user
      BY DEF Row
    <2>3. <<slots[s].user, m.key>> \notin optedOut
      BY <1>3 DEF ReadPreference, Refuses
    <2>4. Row(s) \notin declined
      BY <1>o, <2>2, <2>3
    <2>5. Row(s)' = Row(s)
      BY <2>1 DEF Row
    <2> QED
      BY <1>3, <2>1, <2>4, <2>5, DeclinedAside DEF ReadPreference, history
  <1>4. CASE SkipOptedOut(s)
    BY <1>4, NextFields, DeclinedAside DEF SkipOptedOut
  <1>5. CASE RecordRow(s)
    <2>1. m \in Facts /\ Row(s) \in Rows /\ Row(s)[1] = m /\ fate[m] = "held"
      BY <1>5, <1>a, RecipientRow DEF RecordRow, Working, BoxInv, Holds
    <2>2. Row(s) \notin declined
      BY <1>5 DEF RecordRow, DeclinedInv
    <2>3. \A r \in Rows : r # Row(s) => rows'[r] = rows[r]
      BY <1>5 DEF RecordRow, TypeOK
    <2>4. /\ slots'[s].step = "add"
          /\ \A t \in Slots : t # s => slots'[t] = slots[t]
      BY <1>5, GoFields DEF RecordRow
    <2>5. \A t \in Slots : slots'[t].step = "record" => Row(t)' \notin declined
      BY <2>4 DEF DeclinedInv, Row
    <2>6. fate' = fate /\ declined' = declined /\ optedOut' = optedOut
      BY <1>5 DEF RecordRow, history
    <2> QED
      BY <1>o, <2>1, <2>2, <2>3, <2>5, <2>6, DeclinedStays
  <1>6. CASE SuppressDuplicate(s)
    BY <1>6, NextFields, DeclinedAside DEF SuppressDuplicate, history
  <1>7. CASE QueueDelivery(s)
    BY <1>7, NextFields, DeclinedAside DEF QueueDelivery
  <1>8. CASE RetryWrites(s)
    <2>1. m \in Orders /\ m.kind = "retry" /\ slots[s].step = "start"
      BY <1>8, AtOwn DEF RetryWrites
    <2>2. m.row \in Rows /\ rows[m.row] # "NONE"
      BY <1>a, <2>1, OrderShape DEF Holds, BoxInv, RetryRows
    <2>3. \A r \in Rows : rows[r] = "NONE" => rows'[r] = "NONE"
      BY <1>8, <2>2 DEF RetryWrites, TypeOK
    <2>4. /\ slots'[s].step = "add"
          /\ \A t \in Slots : t # s => slots'[t] = slots[t]
      BY <1>8, GoFields DEF RetryWrites
    <2>5. \A t \in Slots : slots'[t].step = "record" => Row(t)' \notin declined
      BY <2>4 DEF DeclinedInv, Row
    <2>6. fate' = fate /\ declined' = declined /\ optedOut' = optedOut
      BY <1>8 DEF RetryWrites
    <2> QED
      BY <1>o, <2>3, <2>5, <2>6, DeclinedStays
  <1>9. CASE RetryAdds(s)
    BY <1>9, GoFields, DeclinedAside DEF RetryAdds
  <1>10. CASE UpdatePreference(s)
    <2>1. /\ slots'[s].step = "ack"
          /\ \A t \in Slots : t # s => slots'[t] = slots[t]
      BY <1>10, GoFields DEF UpdatePreference
    <2>2. declined' \subseteq declined /\ fate' = fate /\ rows' = rows
      BY <1>10 DEF UpdatePreference
    <2>3. ASSUME NEW r \in declined'
          PROVE  <<r[2], r[1].key>> \in optedOut'
      <3>1. <<r[2], r[1].key>> \in optedOut
        BY <1>o, <2>2
      <3>2. m.enabled => <<r[2], r[1].key>> # <<m.user, m.key>>
        BY <1>10 DEF UpdatePreference
      <3> QED
        BY <1>10, <3>1, <3>2 DEF UpdatePreference
    <2>4. \A t \in Slots : slots'[t].step = "record" => Row(t)' \notin declined'
      BY <2>1, <2>2 DEF DeclinedInv, Row
    <2> QED
      BY <2>2, <2>3, <2>4, DeclinedStays
  <1>11. CASE UpsertTemplate(s) \/ ForgetTemplate(s)
    <2>1. UpsertTemplate(s) => slots'[s].step = "forget"
                               /\ \A t \in Slots : t # s => slots'[t] = slots[t]
      BY GoFields DEF UpsertTemplate
    <2>2. ForgetTemplate(s) => slots'[s].step = "ack"
                               /\ \A t \in Slots : t # s => slots'[t] = slots[t]
      BY GoFields DEF ForgetTemplate
    <2> QED
      BY <1>11, <2>1, <2>2, DeclinedAside DEF UpsertTemplate, ForgetTemplate, history
  <1> QED
    BY <1>1, <1>2, <1>3, <1>4, <1>5, <1>6, <1>7, <1>8, <1>9, <1>10, <1>11
       DEF SlotStep

LEMMA WorkerStepDeclines ==
    ASSUME TypeOK, BoxInv, DeclinedInv, WorkerStep
    PROVE  DeclinedInv'
  <1>1. \A j \in jobs : j.row \in Rows /\ rows[j.row] # "NONE"
    BY DEF BoxInv, JobRows, TypeOK, Job
  <1>2. worker.step # "idle" => WorkRow \in Rows /\ rows[WorkRow] # "NONE"
    BY <1>1, JobsTyped, WorkersJob DEF WorkRow
  <1>3. ASSUME NEW j \in jobs, TakeJob(j)
        PROVE  DeclinedInv'
    <2>1. rows' = rows \/ rows' = [rows EXCEPT ![j.row] = "SENDING"]
      BY <1>3 DEF TakeJob
    <2>2. \A r \in Rows : rows[r] = "NONE" => rows'[r] = "NONE"
      BY <1>1, <2>1 DEF TypeOK
    <2> QED
      BY <1>3, <2>2, DeclinedQuiet DEF TakeJob, history
  <1>4. CASE MarkSent \/ CatchFailure
    <2>1. \A r \in Rows : r # WorkRow => rows'[r] = rows[r]
      BY <1>4 DEF MarkSent, CatchFailure, TypeOK
    <2>2. \A r \in Rows : rows[r] = "NONE" => rows'[r] = "NONE"
      BY <1>2, <1>4, <2>1 DEF MarkSent, CatchFailure
    <2> QED
      BY <1>4, <2>2, DeclinedQuiet DEF MarkSent, CatchFailure
  <1>5. CASE ReadTemplate \/ CompileTemplate \/ SendMail \/ CloseJob
    BY <1>5, DeclinedQuiet
       DEF ReadTemplate, CompileTemplate, SendMail, CloseJob, history
  <1> QED
    BY <1>3, <1>4, <1>5 DEF WorkerStep

LEMMA FailuresDecline ==
    ASSUME TypeOK, BoxInv, DeclinedInv, Failures
    PROVE  DeclinedInv'
  <1>1. ASSUME NEW s \in Slots, HandlerFails(s)
        PROVE  DeclinedInv'
    <2>1. /\ fate[slots[s].msg] = "held"
          /\ fate' = [fate EXCEPT ![slots[s].msg] = "dropped"]
      BY <1>1 DEF HandlerFails, BoxInv, HoldsInv, Holds
    <2>2. \A n \in Messages : fate'[n] = "unsent" <=> fate[n] = "unsent"
      BY <2>1 DEF TypeOK
    <2> QED
      BY <1>1, <2>2, FreeFields, DeclinedAside DEF HandlerFails
  <1>2. CASE Crash
    <2>1. \A s \in Slots : slots'[s].step = "idle"
      BY <1>2 DEF Crash, FreeSlot
    <2>2. \A n \in Messages : fate'[n] = "unsent" <=> fate[n] = "unsent"
      BY <1>2 DEF Crash
    <2>3. \A r \in declined : <<r[2], r[1].key>> \in optedOut
      BY DEF DeclinedInv
    <2> QED
      BY <1>2, <2>1, <2>2, <2>3, DeclinedStays DEF Crash
  <1>3. CASE \/ \E j \in jobs : TakeBreaks(j)
             \/ ReadFails \/ SendFails \/ MarkFails \/ CatchBreaks
    BY <1>3, DeclinedQuiet
       DEF TakeBreaks, ReadFails, SendFails, MarkFails, CatchBreaks, history
  <1> QED
    BY <1>1, <1>2, <1>3 DEF Failures

LEMMA PublishDeclines ==
    ASSUME TypeOK, BoxInv, DeclinedInv, NEW m \in Messages, Publish(m)
    PROVE  DeclinedInv'
  <1>1. /\ fate'[m] = "waiting" /\ fate[m] = "unsent"
        /\ \A n \in Messages : n # m => fate'[n] = fate[n]
        /\ rows' = rows /\ slots' = slots /\ optedOut' = optedOut
    BY DEF Publish, TypeOK
  <1>2. \A r \in declined' : \/ r \in declined
                             \/ /\ r \in Rows /\ r[1] = m /\ m.kind # "direct"
                                /\ <<r[2], m.key>> \in optedOut
    BY DEF Publish
  <1>3. \A r \in Rows : r[1] \in Messages
    BY RowShape, FactShape
  <1>4. declined \subseteq Rows
    BY DEF TypeOK
  <1>5. \A r \in declined' : /\ rows'[r] = "NONE" /\ fate'[r[1]] # "unsent"
                             /\ r[1].kind # "direct"
                             /\ <<r[2], r[1].key>> \in optedOut'
    BY <1>1, <1>2, <1>3, <1>4 DEF DeclinedInv
  <1>6. ASSUME NEW s \in Slots, slots'[s].step = "record"
        PROVE  Row(s)' \notin declined'
    <2>1. Row(s)' = Row(s) /\ Row(s) \notin declined
      BY <1>1, <1>6 DEF DeclinedInv, Row
    <2>2. fate[slots[s].msg] = "held" /\ Row(s)[1] = slots[s].msg
      BY <1>1, <1>6 DEF BoxInv, HoldsInv, Holds, Row
    <2> QED
      BY <1>1, <1>2, <2>1, <2>2
  <1>7. \A r \in Rows : fate'[r[1]] = "unsent" => rows'[r] = "NONE"
    BY <1>1, <1>3 DEF DeclinedInv
  <1> QED
    BY <1>5, <1>6, <1>7 DEF DeclinedInv

LEMMA DeclinedKept ==
    ASSUME TypeOK, BoxInv, DeclinedInv, [Next]_vars
    PROVE  DeclinedInv'
  <1>1. ASSUME NEW s \in Slots, Receive(s)
        PROVE  DeclinedInv'
    <2>1. PICK m \in Messages :
             /\ fate[m] = "waiting" /\ fate' = [fate EXCEPT ![m] = "held"]
             /\ slots' = [slots EXCEPT ![s] = [FreeSlot EXCEPT !.msg = m,
                                                               !.step = "start"]]
      BY <1>1 DEF Receive
    <2>2. \A n \in Messages : fate'[n] = "unsent" <=> fate[n] = "unsent"
      BY <2>1 DEF TypeOK
    <2>3. /\ slots'[s].step = "start"
          /\ \A t \in Slots : t # s => slots'[t] = slots[t]
      BY <2>1 DEF TypeOK, FreeSlot
    <2> QED
      BY <1>1, <2>2, <2>3, DeclinedAside DEF Receive, history
  <1>2. CASE UNCHANGED vars
    BY <1>2, DeclinedQuiet DEF vars, history
  <1> QED
    BY <1>1, <1>2, PublishDeclines, SlotStepDeclines, WorkerStepDeclines,
       FailuresDecline DEF Next, ServiceStep

(* Who had opted out before a fact was published and did not opt in again  *)
(* is not written to, whatever else changes the preferences meanwhile.     *)
THEOREM OptOutsRespected == Spec => []OptOutRespected
  <1>1. Init => DeclinedInv
    BY DEF Init, DeclinedInv, FreeSlot
  <1>2. TypeOK /\ BoxInv /\ DeclinedInv /\ [Next]_vars => DeclinedInv'
    BY DeclinedKept
  <1>3. DeclinedInv => OptOutRespected
    BY DEF DeclinedInv, OptOutRespected
  <1> QED
    BY <1>1, <1>2, <1>3, MailboxBooks, PTL DEF Spec

-----------------------------------------------------------------------------
(* WordingInv, action by action. *)
Forgetting(k) == \E s \in Slots : slots[s].step = "forget" /\ slots[s].msg.key = k

(* The templates stay, the handlers that are about to forget a copy too,   *)
(* and the worker reads nothing.                                           *)
LEMMA WordingStays ==
    ASSUME WordingInv, wording' = wording,
           \A k \in Keys : Forgetting(k) => Forgetting(k)',
           worker'.step = "compile" =>
              /\ worker.step = "compile" /\ worker'.source = worker.source
              /\ worker'.overtaken = worker.overtaken /\ WorkRow' = WorkRow
    PROVE  WordingInv'
  <1>1. stored' = stored /\ compiled' = compiled /\ strayed' = strayed
    BY DEF wording
  <1>2. CacheExplained'
    BY <1>1 DEF WordingInv, CacheExplained, Forgetting, Source
  <1> QED
    BY <1>1, <1>2 DEF WordingInv, Source

LEMMA WordingAside ==
    ASSUME TypeOK, TypeOK', WordingInv, wording' = wording, Aside,
           worker' = worker, \A k \in Keys : Forgetting(k) => Forgetting(k)'
    PROVE  WordingInv'
  BY StaysAtJob, WordingStays

LEMMA ForgettersStay ==
    ASSUME NEW s \in Slots, slots[s].step # "forget",
           \A t \in Slots : t # s => slots'[t] = slots[t]
    PROVE  \A k \in Keys : Forgetting(k) => Forgetting(k)'
  BY DEF Forgetting

LEMMA SlotStepWords ==
    ASSUME TypeOK, TypeOK', BoxInv, WordingInv, NEW s \in Slots, SlotStep(s)
    PROVE  WordingInv'
  <1> DEFINE m == slots[s].msg
  <1>0. Aside
    BY HandlerAside
  <1>q. ASSUME wording' = wording, worker' = worker, slots[s].step # "forget",
               \A t \in Slots : t # s => slots'[t] = slots[t]
        PROVE  WordingInv'
    BY <1>0, <1>q, ForgettersStay, WordingAside
  <1>1. CASE Acknowledge(s)
    BY <1>1, <1>q, FreeFields DEF Acknowledge, history
  <1>2. CASE Consume(s)
    <2>1. \A t \in Slots : t # s => slots'[t] = slots[t]
      BY <1>2, NextFields DEF Consume
    <2> QED
      BY <1>2, <1>q, <2>1 DEF Consume, At
  <1>3. CASE ReadPreference(s)
    BY <1>3, <1>q, GoFields DEF ReadPreference
  <1>4. CASE SkipOptedOut(s)
    BY <1>4, <1>q, NextFields DEF SkipOptedOut
  <1>5. CASE RecordRow(s)
    BY <1>5, <1>q, GoFields DEF RecordRow
  <1>6. CASE SuppressDuplicate(s)
    BY <1>6, <1>q, NextFields DEF SuppressDuplicate
  <1>7. CASE QueueDelivery(s)
    BY <1>7, <1>q, NextFields DEF QueueDelivery, At
  <1>8. CASE RetryWrites(s) \/ RetryAdds(s) \/ UpdatePreference(s)
    <2>1. \A t \in Slots : t # s => slots'[t] = slots[t]
      BY <1>8, GoFields DEF RetryWrites, RetryAdds, UpdatePreference
    <2> QED
      BY <1>8, <1>q, <2>1 DEF RetryWrites, RetryAdds, UpdatePreference, At
  <1>9. CASE UpsertTemplate(s)
    <2>1. m \in Orders /\ m.kind = "edit" /\ slots[s].step = "start"
      BY <1>9, AtOwn DEF UpsertTemplate
    <2>2. m.key \in Keys /\ m.channel \in Channels
      BY <2>1, OrderShape
    <2>3. /\ slots'[s].msg = m /\ slots'[s].step = "forget"
          /\ \A t \in Slots : t # s => slots'[t] = slots[t]
      BY <1>9, GoFields DEF UpsertTemplate
    <2>4. /\ \A k \in Keys : Forgetting(k) => Forgetting(k)'
          /\ Forgetting(m.key)'
      BY <2>1, <2>3, ForgettersStay DEF Forgetting
    <2>5. /\ stored' = [stored EXCEPT ![<<m.key, m.channel>>] = m.content]
          /\ compiled' = compiled /\ strayed' = strayed
      BY <1>9 DEF UpsertTemplate, StoreTemplate
    <2>6. ASSUME NEW k \in Keys, NEW c \in Channels, k # m.key
          PROVE  Source(k, c)' = Source(k, c)
      <3>1. <<k, c>> # <<m.key, m.channel>> /\ <<k, c>> \in Keys \X Channels
        BY <2>6
      <3>2. stored'[<<k, c>>] = stored[<<k, c>>]
        BY <2>5, <3>1 DEF TypeOK, TemplatesTypeOK
      <3> QED
        BY <3>2 DEF Source
    <2>7. CacheExplained'
      <3> SUFFICES ASSUME NEW k \in Keys
                   PROVE  \/ compiled'[k] \in {Missing, Source(k, "EMAIL")'}
                          \/ k \in strayed' \/ Forgetting(k)'
        BY DEF CacheExplained, Forgetting
      <3>1. \/ compiled[k] \in {Missing, Source(k, "EMAIL")}
            \/ k \in strayed \/ Forgetting(k)
        BY DEF WordingInv, CacheExplained, Forgetting
      <3>2. k = m.key => Forgetting(k)'
        BY <2>3 DEF Forgetting
      <3> QED
        BY <2>4, <2>5, <2>6, <3>1, <3>2, ChannelsAssumption
    <2>8. ASSUME worker'.step = "compile"
          PROVE  /\ worker'.source # Missing
                 /\ \/ worker'.overtaken
                    \/ worker'.source
                          = Source(WorkRow[1].key, WorkRow[1].channel)'
      <3>1. worker.step = "compile"
        BY <1>0, <2>8 DEF Aside
      <3>2. WorkRow' = WorkRow /\ WorkRow \in Rows
        BY <1>0, <3>1, StaysAtJob, JobsTyped, WorkersJob
      <3>3. WorkRow[1].key \in Keys /\ WorkRow[1].channel \in Channels
        BY <3>2, RowShape, FactShape
      <3>4. worker \in Worker
        BY DEF TypeOK
      <3>5. CASE WorkRow[1].key = m.key
        <4>1. worker' = [worker EXCEPT !.overtaken = TRUE]
          BY <1>9, <3>1, <3>5 DEF UpsertTemplate
        <4>2. worker'.overtaken /\ worker'.source = worker.source
          BY <3>4, <4>1 DEF Worker
        <4> QED
          BY <3>1, <4>2 DEF WordingInv
      <3>6. CASE WorkRow[1].key # m.key
        <4>1. worker' = worker
          BY <1>9, <3>6 DEF UpsertTemplate
        <4>2. PICK k \in Keys : k = WorkRow[1].key
          BY <3>3
        <4>3. PICK c \in Channels : c = WorkRow[1].channel
          BY <3>3
        <4>4. Source(k, c)' = Source(k, c)
          BY <2>6, <3>6, <4>2
        <4>5. Source(WorkRow[1].key, WorkRow[1].channel)'
                 = Source(WorkRow[1].key, WorkRow[1].channel)
          BY <3>2, <4>2, <4>3, <4>4 DEF Source
        <4> QED
          BY <3>1, <4>1, <4>5 DEF WordingInv
      <3> QED
        BY <3>5, <3>6
    <2> QED
      BY <2>7, <2>8 DEF WordingInv
  <1>10. CASE ForgetTemplate(s)
    <2>1. \A t \in Slots : t # s => slots'[t] = slots[t]
      BY <1>10, GoFields DEF ForgetTemplate
    <2>2. /\ compiled' = [compiled EXCEPT ![m.key] = Missing]
          /\ strayed' = strayed \ {m.key} /\ stored' = stored /\ worker' = worker
      BY <1>10 DEF ForgetTemplate, Forget
    <2>3. \A k \in Keys : Forgetting(k) => Forgetting(k)' \/ k = m.key
      BY <2>1 DEF Forgetting
    <2>4. CacheExplained'
      <3> SUFFICES ASSUME NEW k \in Keys
                   PROVE  \/ compiled'[k] \in {Missing, Source(k, "EMAIL")'}
                          \/ k \in strayed' \/ Forgetting(k)'
        BY DEF CacheExplained, Forgetting
      <3>1. \/ compiled[k] \in {Missing, Source(k, "EMAIL")}
            \/ k \in strayed \/ Forgetting(k)
        BY DEF WordingInv, CacheExplained, Forgetting
      <3>2. k = m.key => compiled'[k] = Missing
        BY <2>2 DEF TypeOK, TemplatesTypeOK
      <3>3. k # m.key => compiled'[k] = compiled[k]
        BY <2>2 DEF TypeOK, TemplatesTypeOK
      <3>4. Source(k, "EMAIL")' = Source(k, "EMAIL")
        BY <2>2 DEF Source
      <3> QED
        BY <2>2, <2>3, <3>1, <3>2, <3>3, <3>4
    <2>5. worker.step # "idle" => WorkRow' = WorkRow
      BY <1>0, StaysAtJob
    <2> QED
      BY <2>2, <2>4, <2>5 DEF WordingInv, Source
  <1> QED
    BY <1>1, <1>2, <1>3, <1>4, <1>5, <1>6, <1>7, <1>8, <1>9, <1>10 DEF SlotStep

LEMMA WorkerStepWords ==
    ASSUME TypeOK, TypeOK', WordingInv, WorkerStep
    PROVE  WordingInv'
  <1>w. worker \in Worker
    BY DEF TypeOK
  <1>q. ASSUME wording' = wording, slots' = slots, worker'.step # "compile"
        PROVE  WordingInv'
    BY <1>q, WordingStays DEF Forgetting
  <1>1. ASSUME NEW j \in jobs, TakeJob(j)
        PROVE  WordingInv'
    <2>1. worker'.step # "compile"
      BY <1>1, TakeOn
    <2> QED
      BY <1>1, <1>q, <2>1 DEF TakeJob
  <1>2. CASE ReadTemplate
    <2> DEFINE source == Source(WorkRow[1].key, WorkRow[1].channel)
    <2>1. wording' = wording /\ slots' = slots
      BY <1>2 DEF ReadTemplate
    <2>2. stored' = stored /\ compiled' = compiled /\ strayed' = strayed
      BY <2>1 DEF wording
    <2>3. WorkRow' = WorkRow
      BY <1>2, ReadOnward, GoesOn
    <2>4. worker'.step = "compile" => worker'.source = source /\ source # Missing
      <3>1. CASE source = Missing
        BY <1>2, <1>w, <3>1 DEF ReadTemplate, Worker
      <3>2. CASE source # Missing
        <4>1. worker' = [worker EXCEPT !.step = "compile", !.source = source]
          BY <1>2, <3>2 DEF ReadTemplate
        <4>2. worker'.source = source
          BY <1>w, <4>1 DEF Worker
        <4> QED
          BY <3>2, <4>2
      <3> QED
        BY <3>1, <3>2
    <2>5. source' = source
      BY <2>2, <2>3 DEF Source
    <2>6. CacheExplained'
      BY <2>1, <2>2 DEF WordingInv, CacheExplained, Source
    <2> QED
      BY <2>4, <2>5, <2>6 DEF WordingInv
  <1>3. CASE CompileTemplate
    <2> DEFINE m == WorkRow[1]
    <2>1. worker.step = "compile"
      BY <1>3 DEF CompileTemplate
    <2>2. m.key \in Keys /\ m.channel \in Channels
      BY <2>1, JobsTyped, WorkersJob, RowShape, FactShape
    <2>3. /\ compiled' = [compiled EXCEPT
                             ![m.key] = Compiled(m.key, worker.source)]
          /\ strayed' = IF /\ compiled[m.key] = Missing
                           /\ m.channel # "EMAIL" \/ worker.overtaken
                        THEN strayed \cup {m.key} ELSE strayed
          /\ stored' = stored /\ slots' = slots
      BY <1>3 DEF CompileTemplate, Compile
    <2>4. Work("send") \/ Work("catch")
      BY <1>3 DEF CompileTemplate
    <2>5. worker'.step # "compile"
      BY <1>w, <2>4 DEF Work, Worker
    <2>6. CacheExplained'
      <3> SUFFICES ASSUME NEW k \in Keys
                   PROVE  \/ compiled'[k] \in {Missing, Source(k, "EMAIL")'}
                          \/ k \in strayed' \/ Forgetting(k)'
        BY DEF CacheExplained, Forgetting
      <3>1. \/ compiled[k] \in {Missing, Source(k, "EMAIL")}
            \/ k \in strayed \/ Forgetting(k)
        BY DEF WordingInv, CacheExplained, Forgetting
      <3>2. /\ Source(k, "EMAIL")' = Source(k, "EMAIL")
            /\ Forgetting(k) => Forgetting(k)'
            /\ strayed \subseteq strayed'
        BY <2>3 DEF Source, Forgetting
      <3>3. CASE k # m.key \/ compiled[m.key] # Missing
        <4>1. compiled'[k] = compiled[k]
          BY <2>3, <3>3 DEF Compiled, TypeOK, TemplatesTypeOK
        <4> QED
          BY <3>1, <3>2, <4>1
      <3>4. CASE k = m.key /\ compiled[m.key] = Missing
        <4>1. compiled'[k] = worker.source
          BY <2>3, <3>4 DEF Compiled, TypeOK, TemplatesTypeOK
        <4>2. CASE m.channel # "EMAIL" \/ worker.overtaken
          BY <2>3, <3>4, <4>2
        <4>3. CASE m.channel = "EMAIL" /\ ~worker.overtaken
          <5>1. worker.source = Source(m.key, m.channel)
            BY <2>1, <4>3 DEF WordingInv
          <5> QED
            BY <3>2, <3>4, <4>1, <4>3, <5>1
        <4> QED
          BY <4>2, <4>3
      <3> QED
        BY <3>3, <3>4
    <2> QED
      BY <2>5, <2>6 DEF WordingInv
  <1>4. CASE SendMail \/ MarkSent \/ CatchFailure
    <2>1. worker'.step # "compile"
      BY <1>4, WorkOnward DEF SendMail, MarkSent, CatchFailure
    <2> QED
      BY <1>4, <1>q, <2>1 DEF SendMail, MarkSent, CatchFailure
  <1>5. CASE CloseJob
    BY <1>5, <1>q, RestingTyped DEF CloseJob
  <1> QED
    BY <1>1, <1>2, <1>3, <1>4, <1>5 DEF WorkerStep

LEMMA FailuresWord ==
    ASSUME TypeOK, TypeOK', WordingInv, Failures
    PROVE  WordingInv'
  <1>q. ASSUME wording' = wording, slots' = slots, worker'.step # "compile"
        PROVE  WordingInv'
    BY <1>q, WordingStays DEF Forgetting
  <1>1. ASSUME NEW s \in Slots, HandlerFails(s)
        PROVE  WordingInv'
    <2>1. /\ slots[s].step # "forget"
          /\ \A t \in Slots : t # s => slots'[t] = slots[t]
      BY <1>1, FreeFields DEF HandlerFails
    <2> QED
      BY <1>1, <2>1, ForgettersStay, HandlerAside, WordingAside DEF HandlerFails
  <1>2. ASSUME NEW j \in jobs, TakeBreaks(j)
        PROVE  WordingInv'
    <2>1. worker'.step # "compile"
      BY <1>2, BreakOn
    <2> QED
      BY <1>2, <1>q, <2>1 DEF TakeBreaks
  <1>3. CASE ReadFails \/ SendFails \/ MarkFails \/ CatchBreaks
    <2>1. worker'.step # "compile"
      BY <1>3, WorkOnward DEF ReadFails, SendFails, MarkFails, CatchBreaks
    <2> QED
      BY <1>3, <1>q, <2>1 DEF ReadFails, SendFails, MarkFails, CatchBreaks
  <1>4. CASE Crash
    <2>1. worker'.step = "idle" /\ \A k \in Keys : compiled'[k] = Missing
      BY <1>4, RestingTyped DEF Crash, ForgetAll
    <2> QED
      BY <2>1 DEF WordingInv, CacheExplained
  <1> QED
    BY <1>1, <1>2, <1>3, <1>4 DEF Failures

LEMMA WordingKept ==
    ASSUME TypeOK, TypeOK', BoxInv, WordingInv, [Next]_vars
    PROVE  WordingInv'
  <1>q. ASSUME Aside, worker' = worker, UNCHANGED <<wording, slots>>
        PROVE  WordingInv'
    BY <1>q, WordingAside DEF Forgetting
  <1>1. ASSUME NEW m \in Messages, Publish(m)
        PROVE  WordingInv'
    BY <1>1, <1>q, PublishAside DEF Publish
  <1>2. ASSUME NEW s \in Slots, Receive(s)
        PROVE  WordingInv'
    <2>1. /\ slots[s].step # "forget" /\ wording' = wording /\ worker' = worker
          /\ \A t \in Slots : t # s => slots'[t] = slots[t]
      BY <1>2 DEF Receive, TypeOK
    <2> QED
      BY <1>2, <2>1, ForgettersStay, HandlerAside, WordingAside
  <1>3. CASE UNCHANGED vars
    <2>1. Aside
      BY <1>3 DEF vars, Aside
    <2> QED
      BY <1>3, <1>q, <2>1 DEF vars
  <1> QED
    BY <1>1, <1>2, <1>3, SlotStepWords, WorkerStepWords, FailuresWord
       DEF Next, ServiceStep

(* A compiled template is the current wording of the mail, but for the     *)
(* moment between an edit and its forgetting the copy, and for a copy that *)
(* comes from a render the edit overtook or from another channel.          *)
THEOREM CopiesExplained == Spec => []CacheExplained
  <1>1. Init => WordingInv
    <2> SUFFICES ASSUME Init PROVE WordingInv
      OBVIOUS
    <2>1. worker.step = "idle" /\ \A k \in Keys : compiled[k] = Missing
      BY RestingTyped DEF Init, TemplatesInit
    <2> QED
      BY <2>1 DEF WordingInv, CacheExplained
  <1>2. TypeOK /\ BoxInv /\ TypeOK' /\ WordingInv /\ [Next]_vars => WordingInv'
    BY WordingKept
  <1>3. WordingInv => CacheExplained
    BY DEF WordingInv
  <1> QED
    BY <1>1, <1>2, <1>3, MailboxBooks, PTL DEF Spec

=============================================================================
