------------------------------- MODULE Events -------------------------------
(***************************************************************************)
(* EventsService: the handlers that change the event itself, its workshop  *)
(* tracks and its registration form while registrations come in.           *)
(* assertCanManage is abstracted: a caller it refuses changes nothing.     *)
(***************************************************************************)
EXTENDS EventsDb

(* Capacities are compared with 0 meaning unlimited. *)
Larger(a, b) == IF a = 0 \/ b = 0 THEN 0 ELSE IF a > b THEN a ELSE b

SetCapacity(p, cap) ==
    /\ capacity' = [capacity EXCEPT ![p] = cap]
    /\ peak' = [peak EXCEPT ![p] = Larger(peak[p], cap)]

(* update (event level) and updateSession write the capacity they are      *)
(* given; neither looks at the seats taken                                 *)
UpdateCapacity(c) ==
    /\ At(c, "update", "start")
    /\ PlaceExists(calls[c].req.place)
    /\ SetCapacity(calls[c].req.place, calls[c].req.capacity)
    /\ Reply(c, "ok")
    /\ UNCHANGED <<eventStatus, session, form, regs, waitlist, created,
                   warned, crashes, told, uncounted, revived, unwarned>>

UpdateNotFound(c) ==
    /\ At(c, "update", "start")
    /\ ~PlaceExists(calls[c].req.place)
    /\ Reply(c, "refused")
    /\ UNCHANGED <<eventStatus, capacity, session, form, regs, waitlist,
                   created, warned, crashes, history>>

(* a new row, with an id never used before *)
CreateSession(c) ==
    LET w == calls[c].req.place IN
    /\ At(c, "createSession", "start")
    /\ session[w] = "unborn"
    /\ session' = [session EXCEPT ![w] = "live"]
    /\ capacity' = [capacity EXCEPT ![w] = calls[c].req.capacity]
    /\ peak' = [peak EXCEPT ![w] = calls[c].req.capacity]
    /\ Reply(c, "ok")
    /\ UNCHANGED <<eventStatus, form, regs, waitlist, created, warned,
                   crashes, told, uncounted, revived, unwarned>>

-----------------------------------------------------------------------------
(* deleteSession counts the registrations of any status ...                *)
DeleteReads(c) ==
    LET w == calls[c].req.place IN
    /\ At(c, "deleteSession", "start")
    /\ session[w] = "live"
    /\ \A r \in RegIds : regs[r].place # w
    /\ Go(c, "write")
    /\ UNCHANGED <<eventStatus, capacity, session, form, regs, waitlist,
                   created, warned, crashes, history>>

(* SESSION_NOT_FOUND, or CONFLICT: it already has registrations *)
DeleteRefused(c) ==
    LET w == calls[c].req.place IN
    /\ At(c, "deleteSession", "start")
    /\ session[w] # "live" \/ \E r \in RegIds : regs[r].place = w
    /\ Reply(c, "refused")
    /\ UNCHANGED <<eventStatus, capacity, session, form, regs, waitlist,
                   created, warned, crashes, history>>

(* ... and then deletes the row; onDelete: Cascade takes every             *)
(* registration and waitlist row there is by then                          *)
Cascaded_KeepsQueue(w) == waitlist
Cascaded(w) == waitlist \ QueueAt(w)

DeleteWrites(c) ==
    LET w == calls[c].req.place IN
    /\ At(c, "deleteSession", "write")
    /\ session[w] = "live"
    /\ session' = [session EXCEPT ![w] = "deleted"]
    /\ regs' = [r \in RegIds |-> IF regs[r].place = w THEN NoRow ELSE regs[r]]
    /\ waitlist' = Cascaded(w)
    /\ Reply(c, "ok")
    /\ UNCHANGED <<eventStatus, capacity, form, created, warned, crashes,
                   history>>

(* deleted by another request in between: P2025 *)
DeleteMissing(c) ==
    /\ At(c, "deleteSession", "write")
    /\ session[calls[c].req.place] # "live"
    /\ Reply(c, "refused")
    /\ UNCHANGED <<eventStatus, capacity, session, form, regs, waitlist,
                   created, warned, crashes, history>>

-----------------------------------------------------------------------------
(* publish reads the status; publishing twice is not an error ...          *)
PublishReads(c) ==
    /\ At(c, "publish", "start")
    /\ \/ eventStatus = "DRAFT" /\ Go(c, "write")
       \/ eventStatus = "PUBLISHED" /\ Reply(c, "ok")
       \/ eventStatus = "CANCELLED" /\ Reply(c, "refused")
    /\ UNCHANGED <<eventStatus, capacity, session, form, regs, waitlist,
                   created, warned, crashes, history>>

(* ... and writes PUBLISHED over whatever the status is by now             *)
PublishWrites(c) ==
    /\ At(c, "publish", "write")
    /\ eventStatus' = "PUBLISHED"
    /\ Reply(c, "ok")
    /\ UNCHANGED <<capacity, session, form, regs, waitlist, created, warned,
                   crashes, history>>

(* cancel marks the event first ...                                        *)
CancelEvent(c) ==
    /\ At(c, "cancelEvent", "start")
    /\ eventStatus' = "CANCELLED"
    /\ Go(c, "announce")
    /\ UNCHANGED <<capacity, session, form, regs, waitlist, created, warned,
                   crashes, history>>

(* ... then collects who is affected and publishes event.cancelled         *)
UsersWith(statuses) ==
    {regs[r].user : r \in {i \in RegIds : regs[i].status \in statuses}}
Affected_NotWaiting == UsersWith({"CONFIRMED", "PENDING"})
Affected == UsersWith(WARNED)

AnnounceCancelledEvent(c) ==
    /\ At(c, "cancelEvent", "announce")
    /\ warned' = warned \cup Affected
    /\ unwarned' = {}
    /\ Reply(c, "ok")
    /\ UNCHANGED <<eventStatus, capacity, session, form, regs, waitlist,
                   created, crashes, told, peak, uncounted, revived>>

(* if that query fails the event stays cancelled, and nobody is told       *)
CancelledEventFails(c) ==
    /\ At(c, "cancelEvent", "announce")
    /\ Reply(c, "INTERNAL")
    /\ unwarned' = unwarned \cup {r \in RegIds : regs[r].status \in WARNED
                                                 /\ regs[r].user \notin warned}
    /\ UNCHANGED <<eventStatus, capacity, session, form, regs, waitlist,
                   created, warned, crashes, told, peak, uncounted, revived>>

(* upsertForm: whether registration is open now (isOpen and the opensAt..  *)
(* closesAt window) and whether it needs approval                          *)
UpsertForm(c) ==
    LET q == calls[c].req IN
    /\ At(c, "upsertForm", "start")
    /\ form' = [isOpen |-> q.isOpen, requiresApproval |-> q.requiresApproval]
    /\ Reply(c, "ok")
    /\ UNCHANGED <<eventStatus, capacity, session, regs, waitlist, created,
                   warned, crashes, history>>

EventStep(c) ==
    \/ UpdateCapacity(c) \/ UpdateNotFound(c) \/ CreateSession(c)
    \/ DeleteReads(c) \/ DeleteRefused(c) \/ DeleteWrites(c)
    \/ DeleteMissing(c) \/ PublishReads(c) \/ PublishWrites(c)
    \/ CancelEvent(c) \/ AnnounceCancelledEvent(c) \/ CancelledEventFails(c)
    \/ UpsertForm(c)
=============================================================================
