---------------------------- MODULE Registrations ----------------------------
(***************************************************************************)
(* RegistrationsService: the handlers that create, approve, reject, cancel *)
(* and check in registrations.  One action per database access of a        *)
(* handler; a transaction is one action (it runs Serializable, see the     *)
(* README on why one atomic step is what PostgreSQL then provides).        *)
(***************************************************************************)
EXTENDS EventsDb

tables == <<eventStatus, capacity, session, form>>
rows == <<regs, waitlist, created>>

-----------------------------------------------------------------------------
(* create: the event, its form and its sessions are read first ...         *)

(* registration may start: published, the track is one of this event's,    *)
(* and the form (if any) is open at this moment                            *)
RegistrationOpen(p) ==
    eventStatus = "PUBLISHED" /\ PlaceExists(p) /\ form.isOpen

CreateReads(c) ==
    /\ At(c, "create", "start")
    /\ RegistrationOpen(calls[c].req.place)
    /\ calls[c].req.answered
    /\ calls' = [calls EXCEPT ![c] =
                    [@ EXCEPT !.step = "tx",
                              !.cap = capacity[calls[c].req.place],
                              !.approval = form.requiresApproval]]
    /\ UNCHANGED <<tables, rows, warned, crashes, history>>

(* EVENT_CANCELLED, EVENT_NOT_PUBLISHED, SESSION_NOT_FOUND,                *)
(* REGISTRATION_CLOSED, REGISTRATION_NOT_OPEN_YET, REQUIRED_FIELD_MISSING  *)
CreateRefused(c) ==
    /\ At(c, "create", "start")
    /\ ~RegistrationOpen(calls[c].req.place) \/ ~calls[c].req.answered
    /\ Reply(c, "refused")
    /\ UNCHANGED <<tables, rows, warned, crashes, history>>

(* ... then the transaction decides, with the capacity and the approval    *)
(* rule read before it began.                                              *)

(* ALREADY_REGISTERED: the user has a registration here not cancelled      *)
CreateDuplicate(c) ==
    /\ At(c, "create", "tx")
    /\ LiveRowsOf(calls[c].req.user, calls[c].req.place) # {}
    /\ Reply(c, "refused")
    /\ UNCHANGED <<tables, rows, warned, crashes, history>>

(* CONFLICT: @@unique([eventId, sessionId, userId]) also counts cancelled  *)
(* rows; NULL session ids are distinct to it, so only a workshop can clash *)
CreateUniqueViolation(c) ==
    LET q == calls[c].req IN
    /\ At(c, "create", "tx")
    /\ LiveRowsOf(q.user, q.place) = {}
    /\ q.place # EventLevel
    /\ RowsOf(q.user, q.place) # {}
    /\ Reply(c, "refused")
    /\ UNCHANGED <<tables, rows, warned, crashes, history>>

(* the workshop was deleted since it was read: the foreign key fails       *)
CreateForeignKeyViolation(c) ==
    /\ At(c, "create", "tx")
    /\ ~PlaceExists(calls[c].req.place)
    /\ Reply(c, "INTERNAL")
    /\ UNCHANGED <<tables, rows, warned, crashes, history>>

CanInsert(u, p) ==
    /\ LiveRowsOf(u, p) = {}
    /\ p # EventLevel => RowsOf(u, p) = {}
    /\ PlaceExists(p)
    /\ created < MaxRegs      \* bound

Insert(u, p, status) ==
    /\ created' = created + 1
    /\ regs' = [regs EXCEPT ![created + 1] =
                   [user |-> u, place |-> p, status |-> status]]
    /\ unwarned' = unwarned \cup TooLate(created + 1, u, status)
    /\ UNCHANGED <<told, peak, uncounted, revived>>

(* full: a waitlist row at position count + 1 and a WAITLISTED row         *)
NextPosition_FromZero(p) == Cardinality(QueueAt(p))
NextPosition(p) == Cardinality(QueueAt(p)) + 1

CreateWaitlisted(c) ==
    LET u == calls[c].req.user
        p == calls[c].req.place
    IN
    /\ At(c, "create", "tx")
    /\ CanInsert(u, p)
    /\ Full(p, calls[c].cap)
    /\ Insert(u, p, "WAITLISTED")
    /\ waitlist' = waitlist \cup
          {[id |-> created + 1, user |-> u, place |-> p,
            position |-> NextPosition(p)]}
    /\ GoAnnounce(c, created + 1, "WAITLISTED", Nobody)
    /\ UNCHANGED <<tables, warned, crashes>>

(* a seat is free: PENDING, answered at once and not announced ...         *)
CreatePending(c) ==
    LET u == calls[c].req.user
        p == calls[c].req.place
    IN
    /\ At(c, "create", "tx")
    /\ CanInsert(u, p)
    /\ ~Full(p, calls[c].cap)
    /\ calls[c].approval
    /\ Insert(u, p, "PENDING")
    /\ Reply(c, "ok")
    /\ UNCHANGED <<tables, waitlist, warned, crashes>>

(* ... or CONFIRMED *)
CreateConfirmed(c) ==
    LET u == calls[c].req.user
        p == calls[c].req.place
    IN
    /\ At(c, "create", "tx")
    /\ CanInsert(u, p)
    /\ ~Full(p, calls[c].cap)
    /\ ~calls[c].approval
    /\ Insert(u, p, "CONFIRMED")
    /\ GoAnnounce(c, created + 1, "CONFIRMED", Nobody)
    /\ UNCHANGED <<tables, waitlist, warned, crashes>>

-----------------------------------------------------------------------------
(* A row is written without looking at the status it has: approve, reject  *)
(* and the second half of checkIn.  A registration that gains a seat this  *)
(* way, or leaves CANCELLED, never passed the test of create.              *)
SetStatus(r, status) ==
    /\ regs' = [regs EXCEPT ![r].status = status]
    /\ uncounted' = IF \/ status \in SEAT_TAKING
                            /\ regs[r].status \notin SEAT_TAKING
                       \/ regs[r].status = "CANCELLED"
                    THEN uncounted \cup {r} ELSE uncounted
    /\ revived' = IF regs[r].status = "CANCELLED" THEN revived \cup {r}
                  ELSE revived
    /\ unwarned' = unwarned \cup TooLate(r, regs[r].user, status)

BlindWrite(c, op, step, status) ==
    LET r == calls[c].req.reg IN
    /\ At(c, op, step)
    /\ RowExists(r)
    /\ SetStatus(r, status)
    /\ GoAnnounce(c, r, status, Nobody)
    /\ UNCHANGED <<tables, waitlist, created, warned, crashes, told, peak>>

Approve(c) == BlindWrite(c, "approve", "start", "CONFIRMED")
Reject(c) == BlindWrite(c, "reject", "start", "REJECTED")

(* checkIn reads the row by its ticket; only a CONFIRMED one goes on ...   *)
CheckInReads(c) ==
    /\ At(c, "checkIn", "start")
    /\ regs[calls[c].req.reg].status = "CONFIRMED"
    /\ Go(c, "write")
    /\ UNCHANGED <<tables, rows, warned, crashes, history>>

(* ... INVALID_TICKET, ALREADY_CHECKED_IN or VALIDATION_FAILED otherwise   *)
CheckInRefused(c) ==
    /\ At(c, "checkIn", "start")
    /\ regs[calls[c].req.reg].status # "CONFIRMED"
    /\ Reply(c, "refused")
    /\ UNCHANGED <<tables, rows, warned, crashes, history>>

(* ... and the row is updated by id, whatever its status is by now         *)
CheckInWrites(c) == BlindWrite(c, "checkIn", "write", "CHECKED_IN")

-----------------------------------------------------------------------------
(* cancel: one transaction marks the row, drops the user's waitlist rows   *)
(* at that place and promotes the waiting user of the lowest position.     *)

(* the waitlist without this user's rows at this place                     *)
Without_DropsAll(u, p) == {w \in waitlist : w.place # p}
Without(u, p) == {w \in waitlist : ~(w.user = u /\ w.place = p)}

(* orderBy position asc: among equal positions any row may come first      *)
First(queue) == {w \in queue : \A v \in queue : w.position <= v.position}

(* updateMany: the WAITLISTED registrations of that user there             *)
Promoted_Pending(w) ==
    {r \in RowsOf(w.user, w.place) : regs[r].status = "PENDING"}
Promoted(w) == {r \in RowsOf(w.user, w.place) : regs[r].status = "WAITLISTED"}

CancelTx_OnlyMarks(c) ==
    /\ At(c, "cancel", "start")
    /\ RowExists(calls[c].req.reg)
    /\ regs' = [regs EXCEPT ![calls[c].req.reg].status = "CANCELLED"]
    /\ GoAnnounce(c, calls[c].req.reg, "CANCELLED", Nobody)
    /\ UNCHANGED <<tables, waitlist, created, warned, crashes, history>>
CancelTx(c) ==
    LET r == calls[c].req.reg
        u == regs[r].user
        p == regs[r].place
        left == Without(u, p)
        queue == {w \in left : w.place = p}
        off == [regs EXCEPT ![r].status = "CANCELLED"]
        passesSeat == regs[r].status \in SEAT_TAKING /\ r \notin uncounted
    IN
    /\ At(c, "cancel", "start")
    /\ RowExists(r)
    /\ \/ /\ queue = {}
          /\ regs' = off
          /\ waitlist' = left
          /\ GoAnnounce(c, r, "CANCELLED", Nobody)
          /\ UNCHANGED uncounted
       \/ \E w \in First(queue) :
             /\ regs' = [i \in RegIds |->
                            IF i \in Promoted(w)
                            THEN [regs[i] EXCEPT !.status = "CONFIRMED"]
                            ELSE off[i]]
             /\ waitlist' = left \ {w}
             /\ GoAnnounce(c, r, "CANCELLED", w.user)
             /\ uncounted' = IF passesSeat THEN uncounted
                             ELSE uncounted \cup Promoted(w)
    /\ revived' = revived \ {r}
    /\ UNCHANGED <<tables, created, warned, crashes, told, peak, unwarned>>

-----------------------------------------------------------------------------
(* REGISTRATION_NOT_FOUND, or P2025 when the row went away since its read  *)
RowMissing_NotOnUpdate(c) ==
    /\ \E op \in {"approve", "reject", "cancel"} : At(c, op, "start")
    /\ ~RowExists(calls[c].req.reg)
    /\ Reply(c, "refused")
    /\ UNCHANGED <<tables, rows, warned, crashes, history>>
RowMissing(c) ==
    /\ \/ \E op \in {"approve", "reject", "cancel"} : At(c, op, "start")
       \/ At(c, "checkIn", "write")
    /\ ~RowExists(calls[c].req.reg)
    /\ Reply(c, "refused")
    /\ UNCHANGED <<tables, rows, warned, crashes, history>>

(* A Serializable transaction PostgreSQL aborts surfaces as an unexpected  *)
(* error; nothing tries it again.                                          *)
TxAborts(c) ==
    /\ At(c, "create", "tx") \/ At(c, "cancel", "start")
    /\ Reply(c, "INTERNAL")
    /\ UNCHANGED <<tables, rows, warned, crashes, history>>

(* The publish that follows the commit, with the row as the write left it. *)
Announce(c) ==
    LET call == calls[c] IN
    /\ call.step = "announce"
    /\ call.row # 0
    /\ told' = [told EXCEPT ![call.row] =
                   IF regs[call.row].status = call.says THEN call.says
                   ELSE "ASTRAY"]
    /\ IF call.next = Nobody THEN Reply(c, "ok") ELSE Go(c, "promoted")
    /\ UNCHANGED <<tables, rows, warned, crashes, peak, uncounted, revived,
                   unwarned>>

(* cancel looks for a CONFIRMED registration of the promoted user (any     *)
(* one: the query has no order) and announces it, if there still is one    *)
AnnouncePromoted_Silent(c) ==
    /\ At(c, "cancel", "promoted")
    /\ Reply(c, "ok")
    /\ UNCHANGED <<tables, rows, warned, crashes, history>>
AnnouncePromoted(c) ==
    LET call == calls[c]
        p == regs[call.row].place
        found == {r \in RowsOf(call.next, p) : regs[r].status = "CONFIRMED"}
    IN
    /\ At(c, "cancel", "promoted")
    /\ \/ found = {} /\ UNCHANGED told
       \/ \E r \in found : told' = [Lost(Owed(c)) EXCEPT ![r] = "CONFIRMED"]
    /\ Reply(c, "ok")
    /\ UNCHANGED <<tables, rows, warned, crashes, peak, uncounted, revived,
                   unwarned>>

(* Before they publish, approve, reject and cancel read the event and, for *)
(* a ticket, the workshop and the promoted registration.  If such a read   *)
(* fails the caller sees INTERNAL although the write stands, and nothing   *)
(* more is announced.                                                      *)
AnnounceFails(c) ==
    /\ \/ \E op \in {"approve", "reject", "cancel"} : At(c, op, "announce")
       \/ At(c, "cancel", "promoted")
    /\ Reply(c, "INTERNAL")
    /\ told' = Lost(Owed(c))
    /\ UNCHANGED <<tables, rows, warned, crashes, peak, uncounted, revived,
                   unwarned>>

RegistrationStep(c) ==
    \/ CreateReads(c) \/ CreateRefused(c) \/ CreateDuplicate(c)
    \/ CreateUniqueViolation(c) \/ CreateForeignKeyViolation(c)
    \/ CreateWaitlisted(c) \/ CreatePending(c) \/ CreateConfirmed(c)
    \/ Approve(c) \/ Reject(c)
    \/ CheckInReads(c) \/ CheckInRefused(c) \/ CheckInWrites(c)
    \/ CancelTx(c) \/ RowMissing(c) \/ TxAborts(c)
    \/ Announce(c) \/ AnnouncePromoted(c) \/ AnnounceFails(c)
=============================================================================
