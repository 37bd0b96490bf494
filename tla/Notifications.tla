---------------------------- MODULE Notifications ----------------------------
(***************************************************************************)
(* The notification service: consumers turn published facts into rows of   *)
(* the notifications table and jobs of the delivery queue, one worker      *)
(* works the queue off, an admin retries deliveries, users set their       *)
(* preferences, organisers edit templates.                                 *)
(*                                                                         *)
(* RabbitMQ keeps a message until its handler is done and delivers it      *)
(* again if the process dies first; a handler that fails drops it.  The    *)
(* queue (BullMQ, in Redis) outlives the process too: a job that was being *)
(* processed is taken up again once, the second time it is given up.       *)
(*                                                                         *)
(* An account fact carries the address and a direct message its recipient; *)
(* a fact about registrations names users, whose addresses the auth        *)
(* service is asked for.  Accounts are never deleted, so a user who is     *)
(* asked for is found, unless the call fails.                              *)
(***************************************************************************)
EXTENDS Templates

CONSTANTS
    Users,         \* recipients
    Nobody,        \* no user
    Facts,         \* what other services publish, and direct messages
    Orders,        \* requests to this service
    Slots,         \* messages handled at once (prefetch)
    Attempts,      \* attempts of a new job (5 in the code)
    RetryAttempts, \* attempts of a job an admin adds (3 in the code)
    MaxJobs,       \* bound: jobs in the queue at once
    MaxFailures    \* bound: crashes of the process and failing calls to
                   \* PostgreSQL, Redis, the auth service, SMTP

(* A fact is one message of the bus; its id is the eventId of the envelope *)
(* and enters the unique key of every row made from it.                    *)
FactKinds == {"account", "registration", "many", "direct"}
AllFacts == [id : Nat, kind : FactKinds, key : Keys, channel : Channels,
             to : SUBSET Users]

(* A row: @@unique([sourceEventId, templateKey, recipient]) *)
Rows == {r \in Facts \X Users : r[2] \in r[1].to}

Retries == [id : Nat, kind : {"retry"}, row : Rows]
Choices == [id : Nat, kind : {"prefer"}, user : Users, key : Keys,
            enabled : BOOLEAN]
Edits   == [id : Nat, kind : {"edit"}, key : Keys, channel : Channels,
            content : Contents \cup {Missing}]

Messages == Facts \cup Orders
NoMessage == [kind |-> "none"]
NoRow == <<NoMessage, Nobody>>

ASSUME FactsAssumption == Facts \subseteq AllFacts
ASSUME OrdersAssumption == Orders \subseteq Retries \cup Choices \cup Edits
ASSUME NobodyAssumption == Nobody \notin Users
ASSUME LimitsAssumption ==
    /\ Attempts \in Nat \ {0} /\ RetryAttempts \in Nat \ {0}
    /\ MaxJobs \in Nat /\ MaxFailures \in Nat

-----------------------------------------------------------------------------
VARIABLES
    fate,       \* where each message is
    slots,      \* the handlers: the message, the step, the recipients left
    rows,       \* the status column of each notification, "NONE" without row
    jobs,       \* the delivery queue
    worker,     \* the delivery worker (its concurrency is 1)
    optedOut,   \* preferences switched off
    failures,   \* crashes and failed calls so far
    mails,      \* history: mails the mail server accepted, per row
    excuses,    \* history: of these, accepted but not known to be, or sent
                \* again on an admin's order
    skipped,    \* history: rows not made because the user had opted out
    declined,   \* history: rows whose user had opted out before the fact was
                \* published and has not opted in since
    stranded    \* history: rows that lost the job which was to finish them

history == <<mails, excuses, skipped, declined, stranded>>
vars == <<wording, fate, slots, rows, jobs, worker, optedOut, failures, history>>

Fates == {"unsent", "waiting", "held", "acked", "dropped"}
Statuses == {"NONE", "QUEUED", "SENDING", "SENT", "FAILED"}

Job == [nr : 1..MaxJobs, row : Rows, attempts : {Attempts, RetryAttempts},
        made : 0..(Attempts + RetryAttempts), stalls : 0..1,
        active : BOOLEAN]

Slot == [msg  : Messages \cup {NoMessage},
         step : {"idle", "start", "preference", "record", "add", "forget", "ack"},
         user : Users \cup {Nobody},    \* the recipient being written to
         todo : SUBSET Users]           \* the recipients still to come

Worker == [step      : {"idle", "render", "compile", "send", "mark", "catch",
                        "done", "failed"},
           nr        : 0..MaxJobs,      \* its job
           source    : Contents \cup {Missing},
           overtaken : BOOLEAN]         \* the template was edited since its read

FreeSlot == [msg |-> NoMessage, step |-> "idle", user |-> Nobody, todo |-> {}]
Resting == [step |-> "idle", nr |-> 0, source |-> Missing, overtaken |-> FALSE]

TypeOK ==
    /\ TemplatesTypeOK
    /\ fate \in [Messages -> Fates]
    /\ slots \in [Slots -> Slot]
    /\ rows \in [Rows -> Statuses]
    /\ jobs \subseteq Job
    /\ worker \in Worker
    /\ optedOut \subseteq Users \X Keys
    /\ failures \in 0..MaxFailures
    /\ mails \in [Rows -> Nat]
    /\ excuses \in [Rows -> Nat]
    /\ skipped \subseteq Rows /\ declined \subseteq Rows /\ stranded \subseteq Rows
    /\ \A i, j \in jobs : i.nr = j.nr => i = j
    /\ {j.nr : j \in {i \in jobs : i.active}} =
          (IF worker.step = "idle" THEN {} ELSE {worker.nr})

Init ==
    /\ TemplatesInit
    /\ fate = [m \in Messages |-> "unsent"]
    /\ slots = [s \in Slots |-> FreeSlot]
    /\ rows = [r \in Rows |-> "NONE"]
    /\ jobs = {}
    /\ worker = Resting
    /\ optedOut = {}
    /\ failures = 0
    /\ mails = [r \in Rows |-> 0]
    /\ excuses = [r \in Rows |-> 0]
    /\ skipped = {} /\ declined = {} /\ stranded = {}

-----------------------------------------------------------------------------
(* Messages. *)

(* Somebody publishes a message, each at most once: an envelope has an id  *)
(* of its own.  Retries come for rows that exist.                          *)
Publish(m) ==
    /\ fate[m] = "unsent"
    /\ m.kind = "retry" => rows[m.row] # "NONE"
    /\ fate' = [fate EXCEPT ![m] = "waiting"]
    /\ declined' = declined \cup
          {r \in Rows : r[1] = m /\ m.kind # "direct" /\ <<r[2], m.key>> \in optedOut}
    /\ UNCHANGED <<wording, slots, rows, jobs, worker, optedOut, failures, mails,
                   excuses, skipped, stranded>>

Receive(s) ==
    /\ slots[s].step = "idle"
    /\ \E m \in Messages :
          /\ fate[m] = "waiting"
          /\ fate' = [fate EXCEPT ![m] = "held"]
          /\ slots' = [slots EXCEPT ![s] = [FreeSlot EXCEPT !.msg = m,
                                                            !.step = "start"]]
    /\ UNCHANGED <<wording, rows, jobs, worker, optedOut, failures, history>>

At(s, kinds, step) == slots[s].msg.kind \in kinds /\ slots[s].step = step
Go(s, step) == slots' = [slots EXCEPT ![s].step = step]

(* on to the next recipient, in whatever order, or to the acknowledgement  *)
NextRecipient(s, todo, step) ==
    \/ /\ todo = {}
       /\ slots' = [slots EXCEPT ![s] = [@ EXCEPT !.step = "ack",
                                                  !.user = Nobody]]
    \/ \E u \in todo :
          slots' = [slots EXCEPT ![s] = [@ EXCEPT !.step = step, !.user = u,
                                                  !.todo = todo \ {u}]]

Acknowledge(s) ==
    /\ slots[s].step = "ack"
    /\ fate' = [fate EXCEPT ![slots[s].msg] = "acked"]
    /\ slots' = [slots EXCEPT ![s] = FreeSlot]
    /\ UNCHANGED <<wording, rows, jobs, worker, optedOut, failures, history>>

-----------------------------------------------------------------------------
(* The consumers.  Those of account facts know the address; those of       *)
(* registration facts ask the auth service first, for all users at once;   *)
(* event.published has no recipients; a direct message has no userId and   *)
(* skips the preference.                                                   *)
Consume(s) ==
    LET m == slots[s].msg IN
    /\ At(s, FactKinds, "start")
    /\ NextRecipient(s, m.to, IF m.kind = "direct" THEN "record" ELSE "preference")
    /\ UNCHANGED <<wording, fate, rows, jobs, worker, optedOut, failures, history>>

(* enqueue: the preference is read, and may end it ...                     *)
Row(s) == <<slots[s].msg, slots[s].user>>
Refuses_Never(u, key) == FALSE
Refuses(u, key) == <<u, key>> \in optedOut

ReadPreference(s) ==
    /\ slots[s].step = "preference"
    /\ ~Refuses(slots[s].user, slots[s].msg.key)
    /\ Go(s, "record")
    /\ UNCHANGED <<wording, fate, rows, jobs, worker, optedOut, failures, history>>

SkipOptedOut(s) ==
    /\ slots[s].step = "preference"
    /\ Refuses(slots[s].user, slots[s].msg.key)
    /\ skipped' = skipped \cup {Row(s)}
    /\ NextRecipient(s, slots[s].todo, "preference")
    /\ UNCHANGED <<wording, fate, rows, jobs, worker, optedOut, failures, mails,
                   excuses, declined, stranded>>

(* ... then the row is written; a second one of the same key is suppressed *)
RecordRow(s) ==
    /\ slots[s].step = "record"
    /\ rows[Row(s)] = "NONE"
    /\ rows' = [rows EXCEPT ![Row(s)] = "QUEUED"]
    /\ Go(s, "add")
    /\ UNCHANGED <<wording, fate, jobs, worker, optedOut, failures, history>>

SuppressDuplicate_EndsFanOut(s) ==
    /\ slots[s].step = "record"
    /\ rows[Row(s)] # "NONE"
    /\ NextRecipient(s, {}, "preference")
    /\ UNCHANGED <<wording, fate, rows, jobs, worker, optedOut, failures, history>>
SuppressDuplicate(s) ==
    /\ slots[s].step = "record"
    /\ rows[Row(s)] # "NONE"
    /\ NextRecipient(s, slots[s].todo, "preference")
    /\ UNCHANGED <<wording, fate, rows, jobs, worker, optedOut, failures, history>>

(* ... and the job is added                                                *)
FreeNr == CHOOSE n \in 1..MaxJobs : \A j \in jobs : j.nr # n

AddJob(row, attempts) ==
    /\ Cardinality(jobs) < MaxJobs
    /\ jobs' = jobs \cup {[nr |-> FreeNr, row |-> row, attempts |-> attempts,
                           made |-> 0, stalls |-> 0, active |-> FALSE]}
    /\ stranded' = stranded \ {row}

QueueDelivery(s) ==
    /\ At(s, FactKinds, "add")
    /\ AddJob(Row(s), Attempts)
    /\ NextRecipient(s, slots[s].todo, "preference")
    /\ UNCHANGED <<wording, fate, rows, worker, optedOut, failures, mails,
                   excuses, skipped, declined>>

-----------------------------------------------------------------------------
(* Requests. *)

(* retry writes QUEUED over any status, SENT too, and adds a job           *)
RetryWrites(s) ==
    LET r == slots[s].msg.row IN
    /\ At(s, {"retry"}, "start")
    /\ rows' = [rows EXCEPT ![r] = "QUEUED"]
    /\ excuses' = IF rows[r] = "SENT" THEN [excuses EXCEPT ![r] = @ + 1]
                                      ELSE excuses
    /\ Go(s, "add")
    /\ UNCHANGED <<wording, fate, jobs, worker, optedOut, failures, mails,
                   skipped, declined, stranded>>

RetryAdds(s) ==
    /\ At(s, {"retry"}, "add")
    /\ AddJob(slots[s].msg.row, RetryAttempts)
    /\ Go(s, "ack")
    /\ UNCHANGED <<wording, fate, rows, worker, optedOut, failures, mails,
                   excuses, skipped, declined>>

UpdatePreference(s) ==
    LET m == slots[s].msg IN
    /\ At(s, {"prefer"}, "start")
    /\ optedOut' = IF m.enabled THEN optedOut \ {<<m.user, m.key>>}
                                ELSE optedOut \cup {<<m.user, m.key>>}
    /\ declined' = IF m.enabled
                   THEN {r \in declined : ~(r[2] = m.user /\ r[1].key = m.key)}
                   ELSE declined
    /\ Go(s, "ack")
    /\ UNCHANGED <<wording, fate, rows, jobs, worker, failures, mails, excuses,
                   skipped, stranded>>

(* the worker's job, and the key of the template it renders                *)
JobOf(nr) == CHOOSE j \in jobs : j.nr = nr
WorkRow == JobOf(worker.nr).row

UpsertTemplate(s) ==
    LET m == slots[s].msg IN
    /\ At(s, {"edit"}, "start")
    /\ StoreTemplate(m.key, m.channel, m.content)
    /\ worker' = IF worker.step = "compile" /\ WorkRow[1].key = m.key
                 THEN [worker EXCEPT !.overtaken = TRUE] ELSE worker
    /\ Go(s, "forget")
    /\ UNCHANGED <<fate, rows, jobs, optedOut, failures, history>>

ForgetTemplate(s) ==
    /\ slots[s].step = "forget"
    /\ Forget(slots[s].msg.key)
    /\ Go(s, "ack")
    /\ UNCHANGED <<fate, rows, jobs, worker, optedOut, failures, history>>

-----------------------------------------------------------------------------
(* The delivery worker. *)
Work(step) == worker' = [worker EXCEPT !.step = step]

(* process reads the row, stops if it was delivered already, and otherwise *)
(* marks it SENDING                                                        *)
AlreadySent_Never(r) == FALSE
AlreadySent(r) == rows[r] = "SENT"

TakeJob(j) ==
    /\ worker.step = "idle"
    /\ ~j.active
    /\ jobs' = (jobs \ {j}) \cup {[j EXCEPT !.active = TRUE]}
    /\ IF AlreadySent(j.row)
       THEN /\ worker' = [Resting EXCEPT !.step = "done", !.nr = j.nr]
            /\ UNCHANGED rows
       ELSE /\ worker' = [Resting EXCEPT !.step = "render", !.nr = j.nr]
            /\ rows' = [rows EXCEPT ![j.row] = "SENDING"]
    /\ UNCHANGED <<wording, fate, slots, optedOut, failures, history>>

ReadTemplate ==
    LET m == WorkRow[1]
        source == Source(m.key, m.channel)
    IN
    /\ worker.step = "render"
    /\ worker' = IF source = Missing THEN [worker EXCEPT !.step = "catch"]
                 ELSE [worker EXCEPT !.step = "compile", !.source = source]
    /\ UNCHANGED <<wording, fate, slots, rows, jobs, optedOut, failures, history>>

(* only EMAIL has an adapter; any other channel has been rendered for      *)
(* nothing                                                                 *)
CompileTemplate ==
    LET m == WorkRow[1] IN
    /\ worker.step = "compile"
    /\ Compile(m.key, m.channel, worker.source, worker.overtaken)
    /\ Work(IF m.channel = "EMAIL" THEN "send" ELSE "catch")
    /\ UNCHANGED <<fate, slots, rows, jobs, optedOut, failures, history>>

Accepted == mails' = [mails EXCEPT ![WorkRow] = @ + 1]
Excused == excuses' = [excuses EXCEPT ![WorkRow] = @ + 1]
Fault == failures < MaxFailures /\ failures' = failures + 1

SendMail ==
    /\ worker.step = "send"
    /\ Accepted
    /\ Work("mark")
    /\ UNCHANGED <<wording, fate, slots, rows, jobs, optedOut, failures, excuses,
                   skipped, declined, stranded>>

(* the mail server refuses, or its answer is lost after it accepted        *)
SendFails ==
    /\ worker.step = "send"
    /\ Fault
    /\ \/ UNCHANGED <<mails, excuses>>
       \/ Accepted /\ Excused
    /\ Work("catch")
    /\ UNCHANGED <<wording, fate, slots, rows, jobs, optedOut,
                   skipped, declined, stranded>>

MarkSent ==
    /\ worker.step = "mark"
    /\ rows' = [rows EXCEPT ![WorkRow] = "SENT"]
    /\ stranded' = stranded \ {WorkRow}
    /\ Work("done")
    /\ UNCHANGED <<wording, fate, slots, jobs, optedOut, failures, mails, excuses,
                   skipped, declined>>

(* the update to SENT is inside the try: its failure counts as one of the  *)
(* delivery                                                                *)
MarkFails ==
    /\ worker.step = "mark"
    /\ Fault
    /\ Excused
    /\ Work("catch")
    /\ UNCHANGED <<wording, fate, slots, rows, jobs, optedOut, mails,
                   skipped, declined, stranded>>

IsLastAttempt_OffByOne(j) == j.made >= j.attempts
IsLastAttempt(j) == j.made + 1 >= j.attempts

CatchFailure_Swallows ==
    /\ worker.step = "catch"
    /\ rows' = [rows EXCEPT ![WorkRow] =
                   IF IsLastAttempt(JobOf(worker.nr)) THEN "FAILED" ELSE "QUEUED"]
    /\ stranded' = stranded \ {WorkRow}
    /\ Work("done")
    /\ UNCHANGED <<wording, fate, slots, jobs, optedOut, failures, mails, excuses,
                   skipped, declined>>
CatchFailure ==
    /\ worker.step = "catch"
    /\ rows' = [rows EXCEPT ![WorkRow] =
                   IF IsLastAttempt(JobOf(worker.nr)) THEN "FAILED" ELSE "QUEUED"]
    /\ stranded' = stranded \ {WorkRow}
    /\ Work("failed")
    /\ UNCHANGED <<wording, fate, slots, jobs, optedOut, failures, mails, excuses,
                   skipped, declined>>

(* BullMQ closes the attempt: the job is over, or waits for its next one   *)
CloseJob ==
    LET j == JobOf(worker.nr) IN
    /\ worker.step \in {"done", "failed"}
    /\ jobs' = IF worker.step = "done" \/ j.made + 1 >= j.attempts
               THEN jobs \ {j}
               ELSE (jobs \ {j}) \cup {[j EXCEPT !.made = @ + 1, !.active = FALSE]}
    /\ worker' = Resting
    /\ UNCHANGED <<wording, fate, slots, rows, optedOut, failures, history>>
WorkerStep ==
    \/ \E j \in jobs : TakeJob(j)
    \/ ReadTemplate \/ CompileTemplate \/ SendMail \/ MarkSent \/ CatchFailure
    \/ CloseJob

-----------------------------------------------------------------------------
(* Failures. *)

(* A call of a handler fails: to the auth service (or it takes more than   *)
(* ten seconds), to the database, to the queue.  The message is dropped,   *)
(* and a row already written gets no job.                                  *)
AddedTo(s) == IF slots[s].msg.kind = "retry" THEN slots[s].msg.row ELSE Row(s)

HandlerFails(s) ==
    /\ slots[s].step \in {"start", "preference", "record", "add"}
    /\ Fault
    /\ fate' = [fate EXCEPT ![slots[s].msg] = "dropped"]
    /\ slots' = [slots EXCEPT ![s] = FreeSlot]
    /\ stranded' = IF slots[s].step = "add" THEN stranded \cup {AddedTo(s)}
                   ELSE stranded
    /\ UNCHANGED <<wording, rows, jobs, worker, optedOut, mails,
                   excuses, skipped, declined>>

(* The template cannot be read: a failure of the delivery. *)
ReadFails ==
    /\ worker.step = "render"
    /\ Fault
    /\ Work("catch")
    /\ UNCHANGED <<wording, fate, slots, rows, jobs, optedOut, history>>

(* Outside the try, an error fails the attempt and nothing else: at the    *)
(* update to SENDING, or at the update in the catch.  The row keeps its    *)
(* status, and after the last attempt it keeps it for good.                *)
Attempted(j) ==
    stranded' = IF j.made + 1 < j.attempts \/ \E i \in jobs \ {j} : i.row = j.row
                THEN stranded ELSE stranded \cup {j.row}

TakeBreaks(j) ==
    /\ worker.step = "idle"
    /\ ~j.active
    /\ Fault
    /\ jobs' = (jobs \ {j}) \cup {[j EXCEPT !.active = TRUE]}
    /\ worker' = [Resting EXCEPT !.step = "failed", !.nr = j.nr]
    /\ Attempted(j)
    /\ UNCHANGED <<wording, fate, slots, rows, optedOut, mails,
                   excuses, skipped, declined>>

CatchBreaks ==
    /\ worker.step = "catch"
    /\ Fault
    /\ Work("failed")
    /\ Attempted(JobOf(worker.nr))
    /\ UNCHANGED <<wording, fate, slots, rows, jobs, optedOut, mails,
                   excuses, skipped, declined>>

(* The process dies.  RabbitMQ delivers again what was not acknowledged;   *)
(* BullMQ takes a job that was being processed up again, but only once;    *)
(* the compiled templates are gone.                                        *)
Resumed_Never(j) == j
Resumed(j) == [j EXCEPT !.active = FALSE, !.stalls = 1]

Crash ==
    LET running == {j \in jobs : j.active}
        givenUp == {j \in running : j.stalls = 1}
        again == {Resumed(j) : j \in running \ givenUp}
    IN
    /\ Fault
    /\ fate' = [m \in Messages |-> IF fate[m] = "held" THEN "waiting" ELSE fate[m]]
    /\ slots' = [s \in Slots |-> FreeSlot]
    /\ jobs' = (jobs \ running) \cup again
    /\ worker' = Resting
    /\ IF worker.step = "mark" THEN Excused ELSE UNCHANGED excuses
    /\ stranded' = stranded \cup {AddedTo(s) : s \in {i \in Slots : slots[i].step = "add"}}
                     \cup {j.row : j \in givenUp}
    /\ ForgetAll
    /\ UNCHANGED <<rows, optedOut, mails, skipped, declined>>

-----------------------------------------------------------------------------
SlotStep(s) ==
    \/ Acknowledge(s) \/ Consume(s)
    \/ ReadPreference(s) \/ SkipOptedOut(s) \/ RecordRow(s)
    \/ SuppressDuplicate(s) \/ QueueDelivery(s)
    \/ RetryWrites(s) \/ RetryAdds(s) \/ UpdatePreference(s)
    \/ UpsertTemplate(s) \/ ForgetTemplate(s)

Failures ==
    \/ \E s \in Slots : HandlerFails(s)
    \/ \E j \in jobs : TakeBreaks(j)
    \/ ReadFails \/ SendFails \/ MarkFails \/ CatchBreaks \/ Crash

ServiceStep == (\E s \in Slots : Receive(s) \/ SlotStep(s)) \/ WorkerStep \/ Failures

Next == (\E m \in Messages : Publish(m)) \/ ServiceStep

Spec == Init /\ [][Next]_vars

(* Node runs what is ready, and so does the worker; publishers owe nothing *)
(* and nothing has to fail.                                                *)
Fairness == /\ \A s \in Slots : WF_vars(Receive(s) \/ SlotStep(s))
            /\ WF_vars(WorkerStep)

FairSpec == Spec /\ Fairness
-----------------------------------------------------------------------------
(***************************************************************************)
(* Safety.                                                                 *)
(***************************************************************************)

(* The service implements the mailbox: a fact is handled to its end only   *)
(* when each of its recipients has a row or had opted out, through crashes *)
(* in the middle of a fan-out and redeliveries ("nothing is silently       *)
(* lost"), and a row stays.  Only a failed call, which drops the message,  *)
(* leaves somebody out.                                                    *)
Phase(f) == CASE fate[f] = "unsent" -> "unsent"
              [] fate[f] \in {"waiting", "held"} -> "published"
              [] fate[f] = "acked" -> "handled"
              [] OTHER -> "dropped"
Entry(r) == IF rows[r] # "NONE" THEN "written"
            ELSE IF r \in skipped THEN "skipped" ELSE "none"
Box == INSTANCE Mailbox WITH phase <- [f \in Facts |-> Phase(f)],
                             entry <- [r \in Rows |-> Entry(r)]
ImplementsMailbox == Box!Spec

(* No second mail goes out for the same fact, unless the mail server took  *)
(* one and the service could not note it, or an admin sends it again.      *)
SecondMailExplained == \A r \in Rows : mails[r] <= 1 + excuses[r]

(* A delivery not finished has a job that will finish it, or a handler     *)
(* about to add one, unless the process died or the queue failed between   *)
(* the row and the job, or the last attempt could not be noted.            *)
Unfinished(r) == rows[r] \in {"QUEUED", "SENDING"}
NoneForgotten ==
    \A r \in Rows : Unfinished(r) =>
        \/ \E j \in jobs : j.row = r
        \/ \E s \in Slots : slots[s].step = "add" /\ AddedTo(s) = r
        \/ r \in stranded

(* Who had opted out before a fact was published, and did not opt in       *)
(* again, is not written to.                                               *)
OptOutRespected == \A r \in declined : rows[r] = "NONE"

(* A compiled template is the current wording of the mail, but for the     *)
(* moment between an edit and its forgetting the copy, and for a copy that *)
(* comes from a render the edit overtook or from another channel.          *)
CacheExplained ==
    \A k \in Keys :
        \/ compiled[k] \in {Missing, Source(k, "EMAIL")}
        \/ k \in strayed
        \/ \E s \in Slots : slots[s].step = "forget" /\ slots[s].msg.key = k

(***************************************************************************)
(* Liveness, under FairSpec.                                               *)
(***************************************************************************)

(* The service comes to rest: every message that was published has been    *)
(* handled or dropped, and every delivery ended SENT or FAILED or has lost *)
(* its job, whatever failed on the way.                                    *)
AtRest ==
    /\ \A m \in Messages : fate[m] \in {"unsent", "acked", "dropped"}
    /\ \A r \in Rows : Unfinished(r) => r \in stranded
ComesToRest == []<>AtRest
=============================================================================
