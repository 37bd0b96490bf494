---------------------------- MODULE EventsService ----------------------------
(***************************************************************************)
(* The events service as a whole: RabbitMQ delivers requests to its slots, *)
(* the handlers of RegistrationsService and EventsService interleave at    *)
(* their database accesses, and the process may crash, upon which RabbitMQ *)
(* delivers again whatever was not acknowledged.                           *)
(***************************************************************************)
EXTENDS Registrations, Events

(* An event at any point before its first registration. *)
Init ==
    /\ eventStatus \in {"DRAFT", "PUBLISHED"}
    /\ session \in [Workshops -> {"unborn", "live"}]
    /\ capacity \in [Places -> Capacities \cup {0}]
    /\ \A p \in Places :
          capacity[p] \in IF PlaceExists(p) THEN Capacities ELSE {0}
    /\ form \in [isOpen : BOOLEAN, requiresApproval : BOOLEAN]
    /\ regs = [r \in RegIds |-> NoRow]
    /\ waitlist = {}
    /\ created = 0
    /\ calls = [c \in Slots |-> Idle]
    /\ warned = {}
    /\ crashes = 0
    /\ told = [r \in RegIds |-> "NONE"]
    /\ peak = capacity
    /\ uncounted = {}
    /\ revived = {}
    /\ unwarned = {}

(* A message arrives at a free slot.  Clients may send any request of the  *)
(* workload at any time, also one sent before: a retry after a timeout is  *)
(* such a message.  Bounds: a registration is named once it was created, a *)
(* workshop is created once.                                               *)
Deliverable(q) ==
    /\ q \in RowRequests => q.reg <= created
    /\ q \in SessionRequests => /\ session[q.place] = "unborn"
                                /\ \A c \in Slots : calls[c].req # q

Delivered(q) == [Idle EXCEPT !.req = q, !.step = "start"]

Receive(c) ==
    /\ calls[c].step = "idle"
    /\ \E q \in Requests :
          /\ Deliverable(q)
          /\ calls' = [calls EXCEPT ![c] = Delivered(q)]
    /\ UNCHANGED <<eventStatus, capacity, session, form, regs, waitlist,
                   created, warned, crashes, history>>

(* The process dies: what its handlers had read is gone, and each message  *)
(* not acknowledged is delivered from the start.                           *)
Crash ==
    /\ crashes < MaxCrashes
    /\ crashes' = crashes + 1
    /\ calls' = [c \in Slots |->
                    IF calls[c].step = "idle" THEN calls[c]
                    ELSE Delivered(calls[c].req)]
    /\ told' = Lost(UNION {Owed(c) : c \in Slots})
    /\ UNCHANGED <<eventStatus, capacity, session, form, regs, waitlist,
                   created, warned, peak, uncounted, revived, unwarned>>

Next == (\E c \in Slots : Receive(c) \/ RegistrationStep(c) \/ EventStep(c))
            \/ Crash

Spec == Init /\ [][Next]_vars

(* Node runs every handler that is ready; clients owe nothing. *)
FairSpec == Spec /\ \A c \in Slots : WF_vars(RegistrationStep(c) \/ EventStep(c))
-----------------------------------------------------------------------------
(***************************************************************************)
(* Safety, whatever requests arrive in whatever order.                     *)
(***************************************************************************)

(* create never admits beyond a capacity the place really had: of the seat *)
(* holders, those who passed its test are at most the largest capacity the *)
(* place ever had, although the capacity is read before the transaction    *)
(* and may have changed since.  Overbooking has no other source than the   *)
(* writes that count nothing (approve, checkIn, a promotion that nobody's  *)
(* seat paid for).                                                         *)
SeatAccounting ==
    \A p \in Places : peak[p] # 0 =>
        Cardinality(SeatsTaken(p) \ uncounted) <= peak[p]

(* Nobody holds two registrations at one place that are not cancelled,     *)
(* unless one of them was brought back from CANCELLED (approve, reject and *)
(* a late check-in write over it): the test for an existing registration   *)
(* and the insert are one transaction, and for the event itself no unique  *)
(* constraint backs it up.                                                 *)
OneLiveRegistration ==
    \A r, s \in RegIds :
        /\ r # s
        /\ RowExists(r) /\ regs[r].status # "CANCELLED"
        /\ RowExists(s) /\ regs[s].status # "CANCELLED"
        /\ regs[r].user = regs[s].user /\ regs[r].place = regs[s].place
        => r \in revived \/ s \in revived

(* A place in the queue is always somebody's: the registration created     *)
(* with a waitlist row exists, is that user's, is not cancelled, and no    *)
(* user queues twice at a place.                                           *)
WaitlistBacked ==
    /\ \A w \in waitlist :
          /\ regs[w.id].user = w.user /\ regs[w.id].place = w.place
          /\ regs[w.id].status \notin {"NONE", "CANCELLED"}
    /\ \A v, w \in waitlist :
          v.user = w.user /\ v.place = w.place => v = w

(* Whoever waits for a workshop is in its queue, so some cancellation can  *)
(* reach them.  (For the event itself a second cancellation of an old      *)
(* registration takes the newer one of the same person out of the queue.)  *)
WorkshopWaitersQueue ==
    \A r \in RegIds :
        regs[r].status = "WAITLISTED" /\ regs[r].place \in Workshops
        => \E w \in waitlist : w.id = r

(* One cancellation lets at most one waiting registration in, and only if  *)
(* it takes a row off the same queue.                                      *)
LetIn == {r \in RegIds : regs[r].status = "WAITLISTED"
                           /\ regs'[r].status \in SEAT_TAKING}
SinglePromotion ==
    [][\A c \in Slots :
          At(c, "cancel", "start") /\ calls'[c].step = "announce" =>
             /\ Cardinality(LetIn) <= 1
             /\ \A r \in LetIn : Cardinality({w \in waitlist \ waitlist' :
                                      w.place = regs[r].place}) >= 1]_vars

(* The service implements the ledger of seats at each place: a seat is     *)
(* given below the limit, passed on one for one, or given by the desk.     *)
Ledger(p) == INSTANCE SeatLedger WITH
    Ids     <- RegIds,
    counted <- SeatsTaken(p) \ uncounted,
    extra   <- SeatsTaken(p) \cap uncounted,
    waiting <- {r \in RegIds : regs[r].place = p /\ regs[r].status = "WAITLISTED"},
    limit   <- peak[p]
ImplementsLedger ==
    /\ \A p \in Places : Ledger(p)!Init
    /\ [][\A p \in Places : [Ledger(p)!Next]_(Ledger(p)!ledger)]_vars

Quiet == \A c \in Slots : calls[c].step = "idle"

(* When everything has been handled, the last thing published about a      *)
(* registration is what its row says, whatever handlers wrote it in turn,  *)
(* died and ran again: but for a registration whose last announcement was  *)
(* lost after the commit, or overtaken by another write to the row.        *)
WordFor(status) == IF status = "PENDING" THEN "NONE" ELSE status
ToldTheTruth ==
    Quiet => \A r \in RegIds :
        RowExists(r) => told[r] \in {WordFor(regs[r].status), "ASTRAY"}

(* When everything has been handled, whoever waits, is confirmed or is     *)
(* pending at a cancelled event was told of the cancellation, also if they *)
(* registered while it was being cancelled: but for a registration made or *)
(* brought back after the recipients were collected, or if collecting them *)
(* failed.  (Who is CHECKED_IN is told nothing: the query leaves them out.)*)
AttendeesWarned ==
    Quiet /\ eventStatus = "CANCELLED" =>
        \A r \in RegIds : regs[r].status \in WARNED =>
            regs[r].user \in warned \/ r \in unwarned

(***************************************************************************)
(* Safety for parts of the traffic.                                        *)
(***************************************************************************)

(* If attendees only register and cancel, a workshop of fixed capacity     *)
(* never has a free seat while somebody waits for it.                      *)
NoIdleSeat ==
    \A w \in Workshops :
        (\E r \in RegIds : regs[r].place = w /\ regs[r].status = "WAITLISTED")
        => Full(w, capacity[w])

(***************************************************************************)
(* Liveness, under FairSpec.                                               *)
(***************************************************************************)

(* Every request that is delivered is answered. *)
EveryRequestAnswered ==
    \A c \in Slots : calls[c].step # "idle" ~> calls[c].step = "idle"

(* Whoever is confirmed, at once or off the waitlist, is told so, unless   *)
(* the confirmation is taken from them first or its announcement is lost.  *)
ConfirmedIsTold ==
    \A r \in RegIds :
        regs[r].status = "CONFIRMED" ~>
            told[r] \in {"CONFIRMED", "ASTRAY"} \/ regs[r].status # "CONFIRMED"

(***************************************************************************)
(* What comments and messages in the source say of the service, and runs   *)
(* refute.                                                                 *)
(***************************************************************************)

(* The capacity is "enforced inside a transaction": the seat holders of a  *)
(* place whose capacity never changes are never more than its capacity.    *)
CapacityEnforced ==
    \A p \in Places : capacity[p] # 0 =>
        Cardinality(SeatsTaken(p)) <= capacity[p]

(* Promotion follows the order in which people joined the queue. *)
FirstInFirstPromoted ==
    [][\A v, w \in waitlist :
          /\ v.place = w.place /\ v.id < w.id
          /\ regs[w.id].status = "WAITLISTED"
          /\ regs[v.id].status = "WAITLISTED"
          => ~(regs'[w.id].status = "CONFIRMED"
                 /\ regs'[v.id].status = "WAITLISTED")]_vars

(* What a handler refuses by what it read is still refused by the time it  *)
(* writes: "A cancelled event cannot be published", so it stays cancelled; *)
(* a session that "already has registrations" cannot be deleted, so that   *)
(* no registration is cascaded away; and "Cannot check in a registration   *)
(* with status ..." but CONFIRMED, so that nobody else gets CHECKED_IN.    *)
RefusalsHold ==
    [][/\ eventStatus = "CANCELLED" => eventStatus' = "CANCELLED"
       /\ \A r \in RegIds :
             /\ RowExists(r) => RowExists(r)'
             /\ regs'[r].status = "CHECKED_IN" =>
                   regs[r].status \in {"CONFIRMED", "CHECKED_IN"}]_vars
-----------------------------------------------------------------------------
(***************************************************************************)
(* What the safety properties rest on; the proofs strengthen them by these *)
(***************************************************************************)

(* Registrations exist only for workshops that were created. *)
PlacesBorn ==
    \A r \in RegIds :
        regs[r].place \in Workshops => session[regs[r].place] # "unborn"

(* A limited place never had a larger capacity than its peak, nor does a   *)
(* create that is about to decide remember one.                            *)
CapacityBelowPeak ==
    \A p \in Places : peak[p] # 0 => capacity[p] \in 1..peak[p]

SnapshotBelowPeak ==
    \A c \in Slots : At(c, "create", "tx") =>
        LET p == calls[c].req.place
        IN  /\ p \in Workshops => session[p] # "unborn"
            /\ peak[p] # 0 => calls[c].cap \in 1..peak[p]

(* Nobody waits twice for the same place. *)
OneWaiting ==
    \A r, s \in RegIds :
        /\ regs[r].status = "WAITLISTED" /\ regs[s].status = "WAITLISTED"
        /\ regs[r].user = regs[s].user /\ regs[r].place = regs[s].place
        => r = s

(* A waitlist row carries the id of a registration already created. *)
IdsCreated == \A w \in waitlist : w.id <= created

(* The unique constraint: one registration of a user per workshop. *)
OneRowPerWorkshop ==
    \A r, s \in RegIds :
        /\ regs[r].place \in Workshops
        /\ regs[r].user = regs[s].user /\ regs[r].place = regs[s].place
        => r = s

(* Registrations are numbered in the order they are created. *)
FreshRows == \A r \in RegIds : r > created => regs[r] = NoRow

(* Who got a seat without create's test exists and does not wait. *)
UncountedKnown ==
    \A r \in uncounted : r <= created /\ regs[r].status # "WAITLISTED"
=============================================================================
