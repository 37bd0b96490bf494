------------------------------ MODULE EventsDb ------------------------------
(***************************************************************************)
(* What every handler of the events service shares: the tables of its      *)
(* database (events, sessions, registration_forms, registrations,          *)
(* waitlist), the requests RabbitMQ delivers to it, and the state of the   *)
(* requests being handled.                                                 *)
(*                                                                         *)
(* The model follows ONE event and the workshop tracks below it.  Every    *)
(* query of the service that touches registrations or waitlist rows        *)
(* filters on one eventId, so two events never read each other's rows.     *)
(*                                                                         *)
(* A handler runs up to its next await on the database, so its database    *)
(* accesses are the steps other handlers interleave with.  A request in    *)
(* flight is a record of the reads it still holds:                         *)
(*                                                                         *)
(*   req       the request, as delivered                                   *)
(*   step      where the handler is                                        *)
(*   cap       create: the capacity read before the transaction            *)
(*   approval  create: requiresApproval read before the transaction        *)
(*   row       the registration its announcement is about                  *)
(*   says      the announcement it still has to publish, or "NONE"         *)
(*   next      cancel: the user taken off the waitlist, still to announce  *)
(*   reply     how the last request of this slot was answered              *)
(***************************************************************************)
EXTENDS Integers, FiniteSets

CONSTANTS
    Users,        \* people who register
    Workshops,    \* sessions of the event
    EventLevel,   \* stands for sessionId = null: registering for the event
    Nobody,       \* no user
    Nowhere,      \* no place: the place of a registration never created
    Slots,        \* messages the service handles at once (RabbitMQ prefetch)
    Requests,     \* the requests that may be delivered: the workload
    Capacities,   \* values the capacity column takes
    MaxRegs,      \* bound: registrations ever created
    MaxCrashes    \* bound: crashes of the process

Places == Workshops \cup {EventLevel}
RegIds == 1..MaxRegs

SEAT_TAKING == {"PENDING", "CONFIRMED", "CHECKED_IN"}
RegistrationStatus == SEAT_TAKING \cup {"WAITLISTED", "CANCELLED", "REJECTED"}

Registration == [user : Users, place : Places, status : RegistrationStatus]

(* a registration not created yet, or deleted with its workshop            *)
NoRow == [user |-> Nobody, place |-> Nowhere, status |-> "NONE"]

WaitlistRow == [id : RegIds, user : Users, place : Places, position : Nat \ {0}]

(* The RPC patterns of the service that change state.  A create request is *)
(* answered when its answers cover the required questions.                 *)
CreateRequests   == [op : {"create"}, user : Users, place : Places,
                     answered : BOOLEAN]
RowRequests      == [op : {"approve", "reject", "cancel", "checkIn"},
                     reg : RegIds]
CapacityRequests == [op : {"update"}, place : Places, capacity : Capacities]
SessionRequests  == [op : {"createSession"}, place : Workshops,
                     capacity : Capacities]
DropRequests     == [op : {"deleteSession"}, place : Workshops]
EventRequests    == [op : {"publish", "cancelEvent"}]
FormRequests     == [op : {"upsertForm"}, isOpen : BOOLEAN,
                     requiresApproval : BOOLEAN]

AllRequests == CreateRequests \cup RowRequests \cup CapacityRequests
                 \cup SessionRequests \cup DropRequests \cup EventRequests
                 \cup FormRequests
NoRequest == [op |-> "none"]

ASSUME PlacesAssumption  == EventLevel \notin Workshops /\ Nowhere \notin Places
ASSUME UsersAssumption   == Nobody \notin Users
ASSUME BoundsAssumption  == MaxRegs \in Nat /\ MaxCrashes \in Nat
ASSUME CapacityAssumption == Capacities \subseteq Nat
ASSUME RequestsAssumption == Requests \subseteq AllRequests

-----------------------------------------------------------------------------
VARIABLES
    eventStatus,  \* the event's status column
    capacity,     \* the capacity column, per place; null and 0 both mean none
    session,      \* each workshop's row: not "unborn" yet, "live", "deleted"
    form,         \* the event's registration form
    regs,         \* the registrations table, by id
    waitlist,     \* the waitlist table
    created,      \* how many registrations were ever created
    calls,        \* the requests being handled, per slot
    warned,       \* users told that the event was cancelled
    crashes,      \* crashes so far
    told,         \* history: the last announcement about each registration,
                  \* "ASTRAY" if it was lost after the commit or published
                  \* when the row had moved on
    peak,         \* history: the largest capacity a place ever had
    uncounted,    \* history: registrations that got their seat, or came back
                  \* from CANCELLED, without create's admission test
    revived,      \* history: registrations brought back from CANCELLED and
                  \* not cancelled since
    unwarned      \* history: registrations that the last event.cancelled
                  \* came too early for, or was not published for

history == <<told, peak, uncounted, revived, unwarned>>
vars == <<eventStatus, capacity, session, form, regs, waitlist, created,
          calls, warned, crashes, history>>

Announcements == {"NONE", "CONFIRMED", "WAITLISTED", "REJECTED", "CANCELLED",
                  "CHECKED_IN"}

Steps == {"idle", "start", "tx", "write", "announce", "promoted"}
Replies == {"none", "ok", "refused", "INTERNAL"}

Call == [req      : Requests \cup {NoRequest},
         step     : Steps,
         cap      : Nat,
         approval : BOOLEAN,
         row      : RegIds \cup {0},
         says     : Announcements,
         next     : Users \cup {Nobody},
         reply    : Replies]

Idle == [req |-> NoRequest, step |-> "idle", cap |-> 0, approval |-> FALSE,
         row |-> 0, says |-> "NONE", next |-> Nobody, reply |-> "none"]

TypeOK ==
    /\ eventStatus \in {"DRAFT", "PUBLISHED", "CANCELLED"}
    /\ capacity \in [Places -> Nat]
    /\ session \in [Workshops -> {"unborn", "live", "deleted"}]
    /\ form \in [isOpen : BOOLEAN, requiresApproval : BOOLEAN]
    /\ regs \in [RegIds -> Registration \cup {NoRow}]
    /\ waitlist \subseteq WaitlistRow
    /\ IsFiniteSet(waitlist)
    /\ created \in 0..MaxRegs
    /\ calls \in [Slots -> Call]
    /\ warned \subseteq Users
    /\ crashes \in 0..MaxCrashes
    /\ told \in [RegIds -> Announcements \cup {"ASTRAY"}]
    /\ peak \in [Places -> Nat]
    /\ uncounted \subseteq RegIds
    /\ revived \subseteq RegIds
    /\ unwarned \subseteq RegIds
-----------------------------------------------------------------------------
(* Queries. *)
At(c, op, step) == calls[c].req.op = op /\ calls[c].step = step

RowExists(r) == regs[r].status # "NONE"
PlaceExists(p) == p = EventLevel \/ (p \in Workshops /\ session[p] = "live")

RowsOf(u, p) == {r \in RegIds : regs[r].user = u /\ regs[r].place = p}
SeatsTaken(p) == {r \in RegIds : regs[r].place = p
                                   /\ regs[r].status \in SEAT_TAKING}
QueueAt(p) == {w \in waitlist : w.place = p}

(* whom event.cancelled is for, and whether somebody still collects them   *)
WARNED == {"CONFIRMED", "PENDING", "WAITLISTED"}
Collecting == \E c \in Slots : calls[c].req.op = "cancelEvent"

(* History: r, given this status now, is among them after the collection.  *)
TooLate(r, user, status) ==
    IF /\ eventStatus = "CANCELLED" /\ ~Collecting /\ user \notin warned
       /\ status \in WARNED /\ regs[r].status \notin WARNED
    THEN {r} ELSE {}

(* History: the registrations handler c has still to announce: the one it  *)
(* wrote and, for a cancellation, the one promoted in its place.           *)
Owed(c) ==
    {r \in RegIds :
        \/ calls[c].step = "announce" /\ calls[c].row = r
        \/ /\ calls[c].step \in {"announce", "promoted"}
           /\ calls[c].next \in Users
           /\ regs[r].user = calls[c].next
           /\ regs[r].place = regs[calls[c].row].place
           /\ regs[r].status = "CONFIRMED" /\ told[r] # "CONFIRMED"}
Lost(ids) == [r \in RegIds |-> IF r \in ids THEN "ASTRAY" ELSE told[r]]

(* A definition named X_Fault is X with a plausible slip in it.  No action *)
(* uses it: the mutation runs put it in the place of X, and a property has *)
(* to notice.                                                              *)

(* the existing registration create looks for: any not cancelled           *)
LiveRowsOf_OnlySeated(u, p) ==
    {r \in RowsOf(u, p) : regs[r].status \in SEAT_TAKING}
LiveRowsOf(u, p) == {r \in RowsOf(u, p) : regs[r].status # "CANCELLED"}

(* capacity !== null && capacity > 0 && taken >= capacity                  *)
Full_OffByOne(p, cap) == cap > 0 /\ Cardinality(SeatsTaken(p)) > cap
Full_NotCheckedIn(p, cap) ==
    cap > 0 /\ Cardinality({r \in SeatsTaken(p) :
                              regs[r].status # "CHECKED_IN"}) >= cap
Full(p, cap) == cap > 0 /\ Cardinality(SeatsTaken(p)) >= cap

-----------------------------------------------------------------------------
(* How a handler goes on: to its next database access, or to its answer. *)
Go(c, step) == calls' = [calls EXCEPT ![c].step = step]
Reply(c, reply) == calls' = [calls EXCEPT ![c] = [Idle EXCEPT !.reply = reply]]
GoAnnounce(c, row, says, next) ==
    calls' = [calls EXCEPT ![c] = [@ EXCEPT !.step = "announce", !.row = row,
                                            !.says = says, !.next = next]]
=============================================================================
