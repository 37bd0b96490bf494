-------------------------- MODULE Admission_proofs --------------------------
(***************************************************************************)
(* How the events service admits people: seats, the waitlist and the one   *)
(* live registration per person, for all constants and all workloads.      *)
(***************************************************************************)
EXTENDS EventsService_proofs

-----------------------------------------------------------------------------
(* What one handler's step leaves alone.                                   *)

Step(c) == RegistrationStep(c) \/ EventStep(c)

(* Only its own slot, and only CreateReads enters the transaction step.    *)
LEMMA CallsOfOthers ==
    ASSUME TypeOK, NEW c \in Slots, Step(c) \/ Receive(c)
    PROVE  /\ \A d \in Slots \ {c} : calls'[d] = calls[d]
           /\ calls'[c].step = "tx" => CreateReads(c)
  <1>1. ASSUME NEW call, calls' = [calls EXCEPT ![c] = call]
        PROVE  /\ \A d \in Slots \ {c} : calls'[d] = calls[d]
               /\ calls'[c] = call
    <2>1. DOMAIN calls = Slots
      BY DEF TypeOK
    <2> QED
      BY <1>1, <2>1
  <1>2. ASSUME NEW a, Reply(c, a)
        PROVE  /\ \A d \in Slots \ {c} : calls'[d] = calls[d]
               /\ calls'[c].step # "tx"
    <2>1. [Idle EXCEPT !.reply = a].step = "idle"
      BY DEF Idle
    <2> QED
      BY <1>2, <1>1, <2>1 DEF Reply
  <1>3. calls[c] \in Call
    BY DEF TypeOK
  <1>4. ASSUME NEW s \in Steps, Go(c, s)
        PROVE  /\ \A d \in Slots \ {c} : calls'[d] = calls[d]
               /\ calls'[c].step = s
    BY <1>4, <1>3 DEF Go, TypeOK, Call
  <1>5. ASSUME NEW r, NEW says, NEW next, GoAnnounce(c, r, says, next)
        PROVE  /\ \A d \in Slots \ {c} : calls'[d] = calls[d]
               /\ calls'[c].step # "tx"
    <2>1. [calls[c] EXCEPT !.step = "announce", !.row = r, !.says = says,
                           !.next = next].step = "announce"
      BY <1>3 DEF Call
    <2> QED
      BY <1>5, <1>1, <2>1 DEF GoAnnounce
  <1>6. CASE CreateReads(c)
    BY <1>6 DEF CreateReads, TypeOK
  <1>7. CASE RegistrationStep(c) /\ ~CreateReads(c)
    BY <1>7, <1>2, <1>4, <1>5
       DEF RegistrationStep, CreateRefused, CreateDuplicate,
           CreateUniqueViolation, CreateForeignKeyViolation,
           CreateWaitlisted, CreatePending, CreateConfirmed, Approve, Reject,
           BlindWrite, CheckInReads, CheckInRefused, CheckInWrites, CancelTx,
           RowMissing, TxAborts, Announce, AnnouncePromoted, AnnounceFails,
           Steps
  <1>8. CASE EventStep(c)
    BY <1>8, <1>2, <1>4
       DEF EventStep, UpdateCapacity, UpdateNotFound, CreateSession,
           DeleteReads, DeleteRefused, DeleteWrites, DeleteMissing,
           PublishReads, PublishWrites, CancelEvent, AnnounceCancelledEvent,
           CancelledEventFails, UpsertForm, Steps
  <1>9. CASE Receive(c)
    <2>1. \A q : Delivered(q).step = "start"
      BY DEF Delivered, Idle
    <2> QED
      BY <1>9, <1>1, <2>1 DEF Receive
  <1> QED
    BY <1>6, <1>7, <1>8, <1>9 DEF Step

(* The steps that write registrations or waitlist rows.                    *)
LEMMA RowsUntouched ==
    ASSUME NEW c \in Slots, Step(c),
           ~CreateWaitlisted(c), ~CreatePending(c), ~CreateConfirmed(c),
           ~Approve(c), ~Reject(c), ~CheckInWrites(c), ~CancelTx(c),
           ~DeleteWrites(c)
    PROVE  UNCHANGED <<regs, waitlist, created, uncounted, revived>>
  BY DEF Step, RegistrationStep, EventStep, rows, history, CreateReads,
         CreateRefused, CreateDuplicate, CreateUniqueViolation,
         CreateForeignKeyViolation, CheckInReads, CheckInRefused, RowMissing,
         TxAborts, Announce, AnnouncePromoted, AnnounceFails, UpdateCapacity,
         UpdateNotFound, CreateSession, DeleteReads, DeleteRefused,
         DeleteMissing, PublishReads, PublishWrites, CancelEvent,
         AnnounceCancelledEvent, CancelledEventFails, UpsertForm

(* The steps that change capacities or workshops.                          *)
LEMMA PlacesUntouched ==
    ASSUME NEW c \in Slots, Step(c),
           ~UpdateCapacity(c), ~CreateSession(c), ~DeleteWrites(c)
    PROVE  UNCHANGED <<capacity, session, peak>>
  BY DEF Step, RegistrationStep, EventStep, tables, history, CreateReads,
         CreateRefused, CreateDuplicate, CreateUniqueViolation,
         CreateForeignKeyViolation, CreateWaitlisted, CreatePending,
         CreateConfirmed, Insert, Approve, Reject, BlindWrite, CheckInReads,
         CheckInRefused, CheckInWrites, CancelTx, RowMissing, TxAborts,
         Announce, AnnouncePromoted, AnnounceFails, UpdateNotFound,
         DeleteReads, DeleteRefused, DeleteMissing, PublishReads,
         PublishWrites, CancelEvent, AnnounceCancelledEvent,
         CancelledEventFails, UpsertForm

(* A row is the same but for its status.                                   *)
Restatused(r, s) ==
    /\ regs'[r].user = regs[r].user
    /\ regs'[r].place = regs[r].place
    /\ regs'[r].status = s

(* What a cancellation does, row by row: r is cancelled and the set P of   *)
(* the first waiting user's registrations, if any user waits, confirmed.   *)
CancelEffect(r, P) ==
    LET left == Without(regs[r].user, regs[r].place)
        queue == {w \in left : w.place = regs[r].place}
    IN
    /\ r \in RegIds /\ RowExists(r) /\ r \notin P /\ created' = created
    /\ revived' = revived \ {r}
    /\ Restatused(r, "CANCELLED")
    /\ \A i \in P : Restatused(i, "CONFIRMED") /\ regs[i].place = regs[r].place
    /\ \A i \in RegIds \ (P \cup {r}) : regs'[i] = regs[i]
    /\ \/ P = {} /\ queue = {} /\ waitlist' = left /\ uncounted' = uncounted
       \/ \E w \in queue :
             /\ P = Promoted(w)
             /\ waitlist' = left \ {w}
             /\ uncounted' = IF regs[r].status \in SEAT_TAKING
                                /\ r \notin uncounted
                             THEN uncounted ELSE uncounted \cup P

LEMMA CancelRowByRow ==
    ASSUME TypeOK, NEW c \in Slots, CancelTx(c)
    PROVE  \E P \in SUBSET RegIds : CancelEffect(calls[c].req.reg, P)
  <1> DEFINE r == calls[c].req.reg
             off == [regs EXCEPT ![r].status = "CANCELLED"]
             left == Without(regs[r].user, regs[r].place)
             queue == {w \in left : w.place = regs[r].place}
  <1>1. /\ r \in RegIds /\ RowExists(r) /\ created' = created
        /\ revived' = revived \ {r}
    BY RowShape DEF CancelTx, At
  <1>2. \A i \in RegIds : RowExists(i) => regs[i] \in Registration
    BY DEF TypeOK, RowExists, NoRow
  <1>3. ASSUME NEW i \in RegIds, NEW s, RowExists(i)
        PROVE  /\ [regs[i] EXCEPT !.status = s].user = regs[i].user
               /\ [regs[i] EXCEPT !.status = s].place = regs[i].place
               /\ [regs[i] EXCEPT !.status = s].status = s
    BY <1>2, <1>3 DEF Registration
  <1>4. /\ off[r] = [regs[r] EXCEPT !.status = "CANCELLED"]
        /\ \A i \in RegIds \ {r} : off[i] = regs[i]
    BY <1>1 DEF TypeOK
  <1>5. \/ /\ queue = {} /\ regs' = off
           /\ waitlist' = left /\ uncounted' = uncounted
        \/ \E w \in queue :
              /\ regs' = [i \in RegIds |-> IF i \in Promoted(w)
                             THEN [regs[i] EXCEPT !.status = "CONFIRMED"]
                             ELSE off[i]]
              /\ waitlist' = left \ {w}
              /\ uncounted' = IF regs[r].status \in SEAT_TAKING
                                 /\ r \notin uncounted
                              THEN uncounted ELSE uncounted \cup Promoted(w)
    BY DEF CancelTx, First
  <1>6. CASE /\ queue = {} /\ regs' = off
             /\ waitlist' = left /\ uncounted' = uncounted
    <2> HIDE DEF off
    <2>1. Restatused(r, "CANCELLED")
      <3>1. regs'[r] = [regs[r] EXCEPT !.status = "CANCELLED"]
        BY <1>4, <1>6
      <3> QED
        BY <1>1, <1>2, <3>1 DEF Restatused, Registration
    <2>2. CancelEffect(r, {})
      BY <1>1, <1>4, <1>6, <2>1 DEF CancelEffect
    <2> QED
      BY <2>2
  <1>7. ASSUME NEW w \in queue,
               regs' = [i \in RegIds |-> IF i \in Promoted(w)
                             THEN [regs[i] EXCEPT !.status = "CONFIRMED"]
                             ELSE off[i]],
               waitlist' = left \ {w},
               uncounted' = IF regs[r].status \in SEAT_TAKING
                              /\ r \notin uncounted
                           THEN uncounted ELSE uncounted \cup Promoted(w)
        PROVE  \E P \in SUBSET RegIds : CancelEffect(r, P)
    <2> HIDE DEF off
    <2>1. Promoted(w) \in SUBSET RegIds
      BY DEF Promoted, RowsOf
    <2>2. r \notin Promoted(w)
      BY DEF Promoted, RowsOf, Without
    <2>3. Restatused(r, "CANCELLED")
      <3>1. regs'[r] = [regs[r] EXCEPT !.status = "CANCELLED"]
        BY <1>1, <1>4, <1>7, <2>2
      <3> QED
        BY <1>1, <1>2, <3>1 DEF Restatused, Registration
    <2>4. ASSUME NEW i \in Promoted(w)
          PROVE  Restatused(i, "CONFIRMED") /\ regs[i].place = regs[r].place
      <3>1. i \in RegIds /\ RowExists(i) /\ regs[i].place = regs[r].place
        BY DEF Promoted, RowsOf, RowExists
      <3>2. regs'[i] = [regs[i] EXCEPT !.status = "CONFIRMED"]
        BY <1>7, <3>1
      <3> QED
        BY <1>3, <3>1, <3>2 DEF Restatused
    <2>5. \A i \in RegIds \ (Promoted(w) \cup {r}) : regs'[i] = regs[i]
      BY <1>4, <1>7
    <2>6. CancelEffect(r, Promoted(w))
      BY <1>1, <1>7, <2>2, <2>3, <2>4, <2>5 DEF CancelEffect
    <2> QED
      BY <2>1, <2>6
  <1> QED
    BY <1>5, <1>6, <1>7

(* What approve, reject and the second half of checkIn do to their row.    *)
BlindEffect(r, s) ==
    /\ r \in RegIds /\ RowExists(r)
    /\ Restatused(r, s)
    /\ \A i \in RegIds \ {r} : regs'[i] = regs[i]
    /\ uncounted' = IF \/ s \in SEAT_TAKING /\ regs[r].status \notin SEAT_TAKING
                       \/ regs[r].status = "CANCELLED"
                    THEN uncounted \cup {r} ELSE uncounted
    /\ revived' = IF regs[r].status = "CANCELLED" THEN revived \cup {r}
                  ELSE revived
    /\ UNCHANGED <<waitlist, created>>

LEMMA BlindRowByRow ==
    ASSUME TypeOK, NEW c \in Slots,
           Approve(c) \/ Reject(c) \/ CheckInWrites(c)
    PROVE  \E s \in {"CONFIRMED", "REJECTED", "CHECKED_IN"} :
              BlindEffect(calls[c].req.reg, s)
  <1> DEFINE r == calls[c].req.reg
  <1>1. r \in RegIds /\ RowExists(r)
    BY RowShape DEF Approve, Reject, CheckInWrites, BlindWrite, At
  <1>2. regs[r] \in Registration
    BY <1>1 DEF TypeOK, RowExists, NoRow
  <1>3. PICK s \in {"CONFIRMED", "REJECTED", "CHECKED_IN"} :
           SetStatus(r, s) /\ UNCHANGED <<waitlist, created>>
    BY DEF Approve, Reject, CheckInWrites, BlindWrite
  <1>4. regs' = [regs EXCEPT ![r].status = s]
    BY <1>3 DEF SetStatus
  <1>5. Restatused(r, s) /\ \A i \in RegIds \ {r} : regs'[i] = regs[i]
    BY <1>1, <1>2, <1>4 DEF Restatused, TypeOK, Registration
  <1>6. BlindEffect(r, s)
    BY <1>1, <1>3, <1>5 DEF BlindEffect, SetStatus
  <1> QED
    BY <1>6

(* What the transaction of create does when it inserts.                    *)
InsertEffect(u, p, s) ==
    /\ created + 1 \in RegIds
    /\ u \in Users /\ p \in Places /\ CanInsert(u, p)
    /\ regs'[created + 1] = [user |-> u, place |-> p, status |-> s]
    /\ \A i \in RegIds \ {created + 1} : regs'[i] = regs[i]
    /\ created' = created + 1
    /\ UNCHANGED <<uncounted, revived>>
    /\ IF s = "WAITLISTED"
       THEN waitlist' = waitlist \cup
               {[id |-> created + 1, user |-> u, place |-> p,
                 position |-> NextPosition(p)]}
       ELSE waitlist' = waitlist

LEMMA InsertRowByRow ==
    ASSUME TypeOK, NEW c \in Slots,
           CreateWaitlisted(c) \/ CreatePending(c) \/ CreateConfirmed(c)
    PROVE  /\ At(c, "create", "tx")
           /\ \E s \in {"WAITLISTED", "PENDING", "CONFIRMED"} :
                 /\ InsertEffect(calls[c].req.user, calls[c].req.place, s)
                 /\ s # "WAITLISTED" =>
                       ~Full(calls[c].req.place, calls[c].cap)
  <1> DEFINE u == calls[c].req.user
             p == calls[c].req.place
  <1>1. At(c, "create", "tx") /\ CanInsert(u, p)
    BY DEF CreateWaitlisted, CreatePending, CreateConfirmed
  <1>2. u \in Users /\ p \in Places /\ created + 1 \in RegIds
    BY <1>1, CreateShape, NextId DEF At, CanInsert
  <1>3. UNCHANGED <<uncounted, revived>>
    BY DEF CreateWaitlisted, CreatePending, CreateConfirmed, Insert
  <1>4. ASSUME NEW s, Insert(u, p, s)
        PROVE  /\ regs'[created + 1] = [user |-> u, place |-> p, status |-> s]
               /\ \A i \in RegIds \ {created + 1} : regs'[i] = regs[i]
               /\ created' = created + 1
    BY <1>2, <1>4 DEF Insert, TypeOK
  <1>5. CASE CreateWaitlisted(c)
    <2>1. Insert(u, p, "WAITLISTED")
      BY <1>5 DEF CreateWaitlisted
    <2>2. InsertEffect(u, p, "WAITLISTED")
      BY <1>1, <1>2, <1>3, <1>4, <1>5, <2>1 DEF InsertEffect, CreateWaitlisted
    <2> QED
      BY <1>1, <2>2
  <1>6. CASE CreatePending(c)
    <2>1. Insert(u, p, "PENDING") /\ ~Full(p, calls[c].cap)
      BY <1>6 DEF CreatePending
    <2>2. InsertEffect(u, p, "PENDING")
      BY <1>1, <1>2, <1>3, <1>4, <1>6, <2>1 DEF InsertEffect, CreatePending
    <2> QED
      BY <1>1, <2>1, <2>2
  <1>7. CASE CreateConfirmed(c)
    <2>1. Insert(u, p, "CONFIRMED") /\ ~Full(p, calls[c].cap)
      BY <1>7 DEF CreateConfirmed
    <2>2. InsertEffect(u, p, "CONFIRMED")
      BY <1>1, <1>2, <1>3, <1>4, <1>7, <2>1 DEF InsertEffect, CreateConfirmed
    <2> QED
      BY <1>1, <2>1, <2>2
  <1> QED
    BY <1>5, <1>6, <1>7

(* deleteSession: the rows of the workshop are gone.                       *)
DeleteEffect(w) ==
    /\ \A i \in RegIds : regs'[i] = IF regs[i].place = w THEN NoRow ELSE regs[i]
    /\ waitlist' = Cascaded(w)
    /\ UNCHANGED <<created, uncounted, revived>>

LEMMA DeleteRowByRow ==
    ASSUME NEW c \in Slots, DeleteWrites(c)
    PROVE  DeleteEffect(calls[c].req.place)
  BY DEF DeleteWrites, DeleteEffect, history

(* All a step can do to the registrations.                                 *)
LEMMA StepEffects ==
    ASSUME TypeOK, NEW c \in Slots, Step(c)
    PROVE  \/ /\ At(c, "create", "tx")
              /\ \E s \in {"WAITLISTED", "PENDING", "CONFIRMED"} :
                    /\ InsertEffect(calls[c].req.user, calls[c].req.place, s)
                    /\ s # "WAITLISTED" =>
                          ~Full(calls[c].req.place, calls[c].cap)
           \/ \E r \in RegIds, s \in {"CONFIRMED", "REJECTED", "CHECKED_IN"} :
                 BlindEffect(r, s)
           \/ \E r \in RegIds, P \in SUBSET RegIds : CancelEffect(r, P)
           \/ \E w \in Workshops : DeleteEffect(w)
           \/ UNCHANGED <<regs, waitlist, created, uncounted, revived>>
  <1>1. CASE CreateWaitlisted(c) \/ CreatePending(c) \/ CreateConfirmed(c)
    BY <1>1, InsertRowByRow
  <1>2. CASE Approve(c) \/ Reject(c) \/ CheckInWrites(c)
    BY <1>2, BlindRowByRow DEF BlindEffect
  <1>3. CASE CancelTx(c)
    BY <1>3, CancelRowByRow DEF CancelEffect
  <1>4. CASE DeleteWrites(c)
    <2>1. calls[c].req.place \in Workshops
      BY <1>4, RequestShapes DEF DeleteWrites, At
    <2> QED
      BY <1>4, <2>1, DeleteRowByRow
  <1> QED
    BY <1>1, <1>2, <1>3, <1>4, RowsUntouched

LEMMA OtherEffects ==
    ASSUME (\E c \in Slots : Receive(c)) \/ Crash \/ UNCHANGED vars
    PROVE  UNCHANGED <<regs, waitlist, created, uncounted, revived, capacity,
                       peak>>
  BY DEF Receive, Crash, vars, history

-----------------------------------------------------------------------------
(* Capacities, what create remembers of them, and the largest there was.   *)

CapacityInv == PlacesBorn /\ CapacityBelowPeak /\ SnapshotBelowPeak

(* Existing registrations keep their place; a new one gets a place that    *)
(* exists.                                                                 *)
LEMMA PlacesOfRows ==
    ASSUME TypeOK, TypeOK', NEW c \in Slots, Step(c)
    PROVE  \A r \in RegIds :
              \/ regs'[r].place = regs[r].place
              \/ regs'[r] = NoRow
              \/ At(c, "create", "tx") /\ regs'[r].place = calls[c].req.place
                   /\ PlaceExists(calls[c].req.place)
  <1>1. CASE CreateWaitlisted(c) \/ CreatePending(c) \/ CreateConfirmed(c)
    BY <1>1, NextId DEF CreateWaitlisted, CreatePending, CreateConfirmed,
                        CanInsert, Insert, TypeOK
  <1>2. CASE Approve(c) \/ Reject(c) \/ CheckInWrites(c)
    BY <1>2, BlindRowByRow DEF BlindEffect, Restatused
  <1>3. CASE CancelTx(c)
    BY <1>3, CancelRowByRow DEF CancelEffect, Restatused
  <1>4. CASE DeleteWrites(c)
    BY <1>4 DEF DeleteWrites
  <1>5. CASE UNCHANGED regs
    BY <1>5
  <1> QED
    BY <1>1, <1>2, <1>3, <1>4, <1>5, RowsUntouched

(* A workshop once created stays created, and no peak falls below an       *)
(* earlier one, but for a workshop that is only just being created.        *)
LEMMA PlacesGrow ==
    ASSUME TypeOK, TypeOK', CapacityInv, NEW c \in Slots, Step(c)
    PROVE  /\ \A w \in Workshops : session[w] # "unborn" => session'[w] # "unborn"
           /\ \A p \in Places : \/ peak'[p] = 0
                                \/ peak[p] # 0 /\ peak'[p] >= peak[p]
                                \/ p \in Workshops /\ session[p] = "unborn"
           /\ CapacityBelowPeak'
  <1> USE DEF CapacityInv
  <1>1. CASE UpdateCapacity(c)
    <2> DEFINE p == calls[c].req.place
               cap == calls[c].req.capacity
    <2>1. p \in Places /\ cap \in Nat
      BY <1>1, RequestShapes DEF UpdateCapacity, At
    <2>2. /\ capacity' = [capacity EXCEPT ![p] = cap]
          /\ peak' = [peak EXCEPT ![p] = Larger(peak[p], cap)]
          /\ session' = session
      BY <1>1 DEF UpdateCapacity, SetCapacity
    <2>3. Larger(peak[p], cap) # 0 =>
             /\ peak[p] # 0 /\ Larger(peak[p], cap) >= peak[p]
             /\ cap \in 1..Larger(peak[p], cap)
      BY <2>1 DEF Larger, TypeOK
    <2> QED
      BY <2>1, <2>2, <2>3 DEF CapacityBelowPeak, TypeOK
  <1>2. CASE CreateSession(c)
    <2> DEFINE w == calls[c].req.place
               cap == calls[c].req.capacity
    <2>1. w \in Workshops /\ w \in Places /\ cap \in Nat
      BY <1>2, RequestShapes DEF CreateSession, At, Places
    <2>2. /\ capacity' = [capacity EXCEPT ![w] = cap]
          /\ peak' = [peak EXCEPT ![w] = cap]
          /\ session' = [session EXCEPT ![w] = "live"]
          /\ session[w] = "unborn"
      BY <1>2 DEF CreateSession
    <2> QED
      BY <2>1, <2>2 DEF CapacityBelowPeak, TypeOK
  <1>3. CASE DeleteWrites(c)
    BY <1>3 DEF DeleteWrites, history, CapacityBelowPeak, TypeOK
  <1>4. CASE UNCHANGED <<capacity, session, peak>>
    BY <1>4 DEF CapacityBelowPeak, TypeOK
  <1> QED
    BY <1>1, <1>2, <1>3, <1>4, PlacesUntouched

(* Every step keeps the capacities below their peaks.                      *)
LEMMA CapacityStep ==
    ASSUME TypeOK, TypeOK', CapacityInv, NEW c \in Slots, Step(c)
    PROVE  CapacityInv'
  <1> USE DEF CapacityInv
  <1>1. /\ \A w \in Workshops : session[w] # "unborn" => session'[w] # "unborn"
        /\ \A p \in Places : \/ peak'[p] = 0
                             \/ peak[p] # 0 /\ peak'[p] >= peak[p]
                             \/ p \in Workshops /\ session[p] = "unborn"
        /\ CapacityBelowPeak'
    BY PlacesGrow
  <1>2. PlacesBorn'
    <2> SUFFICES ASSUME NEW r \in RegIds, regs'[r].place \in Workshops
                 PROVE  session'[regs'[r].place] # "unborn"
      BY DEF PlacesBorn
    <2>1. CASE regs'[r].place = regs[r].place
      BY <1>1, <2>1 DEF PlacesBorn
    <2>2. CASE regs'[r] = NoRow
      BY <2>2, PlacesAssumption DEF NoRow, Places
    <2>3. CASE /\ regs'[r].place = calls[c].req.place
               /\ PlaceExists(calls[c].req.place)
      BY <1>1, <2>3, PlacesAssumption DEF PlaceExists
    <2> QED
      BY <2>1, <2>2, <2>3, PlacesOfRows
  <1>3. SnapshotBelowPeak'
    <2> SUFFICES ASSUME NEW d \in Slots, At(d, "create", "tx")'
                 PROVE  LET p == calls'[d].req.place
                        IN  /\ p \in Workshops => session'[p] # "unborn"
                            /\ peak'[p] # 0 => calls'[d].cap \in 1..peak'[p]
      BY DEF SnapshotBelowPeak, At
    <2>1. CASE d # c
      <3> DEFINE p == calls[d].req.place
      <3>1. calls'[d] = calls[d] /\ At(d, "create", "tx")
        BY <2>1, CallsOfOthers DEF At
      <3>2. p \in Places
        BY <3>1, CreateShape DEF At
      <3>3. /\ p \in Workshops => session[p] # "unborn"
            /\ peak[p] # 0 => calls[d].cap \in 1..peak[p]
        BY <3>1 DEF SnapshotBelowPeak
      <3>4. peak[p] \in Nat /\ peak'[p] \in Nat
        BY <3>2 DEF TypeOK
      <3>5. peak'[p] = 0 \/ (peak[p] # 0 /\ peak'[p] >= peak[p])
        BY <1>1, <3>2, <3>3
      <3> QED
        BY <1>1, <3>1, <3>3, <3>4, <3>5
    <2>2. CASE d = c
      <3> DEFINE p == calls[c].req.place
      <3>1. CreateReads(c)
        BY <2>2, CallsOfOthers DEF At
      <3>2. p \in Places
        BY <3>1, CreateShape DEF CreateReads, At
      <3>3. calls[c] \in Call /\ capacity[p] \in Nat
        BY <3>2 DEF TypeOK
      <3>4. calls'[c].req = calls[c].req /\ calls'[c].cap = capacity[p]
        BY <3>1, <3>3 DEF CreateReads, TypeOK, Call
      <3>5. peak' = peak /\ session' = session
        BY <3>1 DEF CreateReads, tables, history
      <3> QED
        BY <2>2, <3>1, <3>2, <3>4, <3>5, PlacesAssumption
           DEF CreateReads, RegistrationOpen, PlaceExists, CapacityBelowPeak
    <2> QED
      BY <2>1, <2>2
  <1> QED
    BY <1>1, <1>2, <1>3

(* Receiving a message, or crashing, leaves no create about to decide.     *)
LEMMA CapacityOther ==
    ASSUME TypeOK, TypeOK', CapacityInv,
           (\E c \in Slots : Receive(c)) \/ Crash \/ UNCHANGED vars
    PROVE  CapacityInv'
  <1> USE DEF CapacityInv
  <1>1. UNCHANGED <<capacity, session, peak, regs>>
    BY DEF Receive, Crash, vars, history
  <1>2. \A d \in Slots : calls'[d].step = "tx" => calls'[d] = calls[d]
    <2>1. CASE \E c \in Slots : Receive(c)
      BY <2>1, CallsOfOthers DEF CreateReads, Receive, At
    <2>2. CASE Crash
      <3>1. \A q : Delivered(q).step = "start"
        BY DEF Delivered, Idle
      <3> QED
        BY <2>2, <3>1 DEF Crash
    <2>3. CASE UNCHANGED vars
      BY <2>3 DEF vars
    <2> QED
      BY <2>1, <2>2, <2>3
  <1>3. SnapshotBelowPeak'
    BY <1>1, <1>2 DEF SnapshotBelowPeak, At
  <1> QED
    BY <1>1, <1>3 DEF PlacesBorn, CapacityBelowPeak

(* The capacity a create decides with was never above the largest one the  *)
(* place had, however the organiser changes it in between.                 *)
THEOREM CapacityRemembered == Spec => []CapacityInv
  <1>1. Init => CapacityInv
    <2> SUFFICES ASSUME Init PROVE CapacityInv
      OBVIOUS
    <2>1. TypeOK
      BY InitTyped
    <2>2. PlacesBorn
      BY PlacesAssumption DEF Init, PlacesBorn, NoRow, Places
    <2>3. CapacityBelowPeak
      BY <2>1 DEF Init, CapacityBelowPeak, TypeOK
    <2>4. SnapshotBelowPeak
      BY DEF Init, SnapshotBelowPeak, At, Idle
    <2> QED
      BY <2>2, <2>3, <2>4 DEF CapacityInv
  <1>2. TypeOK /\ TypeOK' /\ CapacityInv /\ [Next]_vars => CapacityInv'
    BY CapacityStep, CapacityOther DEF Next, Step
  <1> QED
    BY <1>1, <1>2, TypeCorrect, PTL DEF Spec

-----------------------------------------------------------------------------
(* Nobody waits twice for a place: create refuses whoever waits already,   *)
(* and nothing else makes a registration WAITLISTED.                       *)
THEOREM NobodyWaitsTwice == Spec => []OneWaiting
  <1>1. Init => OneWaiting
    BY DEF Init, OneWaiting, NoRow
  <1>2. ASSUME TypeOK, OneWaiting, NEW c \in Slots, Step(c)
        PROVE  OneWaiting'
    <2>1. ASSUME NEW u, NEW p, NEW s, InsertEffect(u, p, s)
          PROVE  OneWaiting'
      <3>1. \A r \in RegIds : regs[r].user = u /\ regs[r].place = p
                                => regs[r].status = "CANCELLED"
        BY <2>1 DEF InsertEffect, CanInsert, LiveRowsOf, RowsOf
      <3> QED
        BY <1>2, <2>1, <3>1 DEF InsertEffect, OneWaiting
    <2>2. ASSUME NEW r, NEW s \in {"CONFIRMED", "REJECTED", "CHECKED_IN"},
                 BlindEffect(r, s)
          PROVE  OneWaiting'
      BY <1>2, <2>2 DEF BlindEffect, Restatused, OneWaiting
    <2>3. ASSUME NEW r, NEW P, CancelEffect(r, P)
          PROVE  OneWaiting'
      BY <1>2, <2>3 DEF CancelEffect, Restatused, OneWaiting
    <2>4. ASSUME NEW w, DeleteEffect(w)
          PROVE  OneWaiting'
      BY <1>2, <2>4 DEF DeleteEffect, NoRow, OneWaiting
    <2>5. CASE UNCHANGED regs
      BY <1>2, <2>5 DEF OneWaiting
    <2> QED
      BY <1>2, <2>1, <2>2, <2>3, <2>4, <2>5, StepEffects
  <1>3. TypeOK /\ OneWaiting /\ [Next]_vars => OneWaiting'
    <2> SUFFICES ASSUME TypeOK, OneWaiting, [Next]_vars
                 PROVE  OneWaiting'
      OBVIOUS
    <2>1. CASE \E c \in Slots : Step(c)
      BY <1>2, <2>1
    <2>2. CASE (\E c \in Slots : Receive(c)) \/ Crash \/ UNCHANGED vars
      BY <2>2, OtherEffects DEF OneWaiting
    <2> QED
      BY <2>1, <2>2 DEF Next, Step
  <1> QED
    BY <1>1, <1>3, TypeCorrect, PTL DEF Spec

-----------------------------------------------------------------------------
(* Seats. *)

Counted(p) == SeatsTaken(p) \ uncounted

LEMMA RegIdsFinite == IsFiniteSet(RegIds)
  BY BoundsAssumption, FS_Interval DEF RegIds

LEMMA SeatsFinite ==
    ASSUME NEW p
    PROVE  /\ SeatsTaken(p) \subseteq RegIds
           /\ IsFiniteSet(SeatsTaken(p)) /\ IsFiniteSet(Counted(p))
           /\ Cardinality(SeatsTaken(p)) \in Nat
           /\ Cardinality(Counted(p)) \in Nat
  <1>1. SeatsTaken(p) \subseteq RegIds /\ Counted(p) \subseteq RegIds
    BY DEF SeatsTaken, Counted
  <1> QED
    BY <1>1, RegIdsFinite, FS_Subset, FS_CardinalityType

LEMMA AtMostOne ==
    ASSUME NEW P \in SUBSET RegIds, \A r, s \in P : r = s
    PROVE  IsFiniteSet(P) /\ Cardinality(P) <= 1
  <1>1. CASE P = {}
    BY <1>1, FS_EmptySet
  <1>2. CASE P # {}
    <2>1. PICK r \in P : TRUE
      BY <1>2
    <2>2. P = {r}
      BY <2>1
    <2> QED
      BY <2>2, FS_Singleton
  <1> QED
    BY <1>1, <1>2

LEMMA AddOne ==
    ASSUME NEW S, IsFiniteSet(S), NEW x
    PROVE  /\ IsFiniteSet(S \cup {x})
           /\ Cardinality(S \cup {x}) <= Cardinality(S) + 1
  <1>1. Cardinality(S) \in Nat
    BY FS_CardinalityType
  <1> QED
    BY <1>1, FS_AddElement

(* One element out and at most one in: the set does not grow.              *)
LEMMA Exchange ==
    ASSUME NEW S \in SUBSET RegIds, NEW T, NEW r \in S, NEW P \in SUBSET RegIds,
           T \subseteq (S \ {r}) \cup P, \A i, j \in P : i = j
    PROVE  Cardinality(T) <= Cardinality(S)
  <1>1. IsFiniteSet(S) /\ Cardinality(S) \in Nat
    BY RegIdsFinite, FS_Subset, FS_CardinalityType
  <1>2. /\ IsFiniteSet(S \ {r})
        /\ Cardinality(S \ {r}) = Cardinality(S) - 1
    BY <1>1, FS_RemoveElement
  <1>3. CASE P = {}
    <2>1. T \subseteq S
      BY <1>3
    <2> QED
      BY <2>1, <1>1, FS_Subset
  <1>4. CASE P # {}
    <2>1. PICK i \in P : P = {i}
      BY <1>4
    <2>2. /\ IsFiniteSet((S \ {r}) \cup {i})
          /\ Cardinality((S \ {r}) \cup {i}) <= Cardinality(S)
      BY <1>1, <1>2, FS_AddElement
    <2>3. Cardinality(T) \in Nat /\ Cardinality(T) <= Cardinality((S \ {r}) \cup {i})
      <3>1. T \subseteq (S \ {r}) \cup {i}
        BY <2>1
      <3> QED
        BY <3>1, <2>2, FS_Subset, FS_CardinalityType
    <2>4. Cardinality((S \ {r}) \cup {i}) \in Nat
      BY <2>2, FS_CardinalityType
    <2> QED
      BY <1>1, <2>2, <2>3, <2>4
  <1> QED
    BY <1>3, <1>4

(* Of the registrations that got their seat from create, or from a         *)
(* cancellation that gave one up, a step adds one only if create counted   *)
(* fewer seats than the capacity it remembered.                            *)
LEMMA CountedStep ==
    ASSUME TypeOK, TypeOK', CapacityInv, OneWaiting, NEW c \in Slots, Step(c),
           NEW p \in Places
    PROVE  \/ Cardinality(Counted(p))' <= Cardinality(Counted(p))
           \/ /\ At(c, "create", "tx") /\ calls[c].req.place = p
              /\ ~Full(p, calls[c].cap)
              /\ Cardinality(Counted(p))' <= Cardinality(SeatsTaken(p)) + 1
              /\ peak' = peak
  <1>1. ASSUME Counted(p)' \subseteq Counted(p)
        PROVE  Cardinality(Counted(p))' <= Cardinality(Counted(p))
    BY <1>1, SeatsFinite, FS_Subset
  <1>2. ASSUME NEW u, NEW q, NEW s \in {"WAITLISTED", "PENDING", "CONFIRMED"},
               InsertEffect(u, q, s), s = "WAITLISTED" \/ q # p
        PROVE  Counted(p)' \subseteq Counted(p)
    BY <1>2 DEF InsertEffect, Counted, SeatsTaken, SEAT_TAKING
  <1>3. ASSUME NEW u, NEW s \in {"PENDING", "CONFIRMED"},
               InsertEffect(u, p, s)
        PROVE  Cardinality(Counted(p))' <= Cardinality(SeatsTaken(p)) + 1
    <2> DEFINE S == SeatsTaken(p) \cup {created + 1}
    <2>1. Counted(p)' \subseteq S
      BY <1>3 DEF InsertEffect, Counted, SeatsTaken
    <2>2. IsFiniteSet(S) /\ Cardinality(S) <= Cardinality(SeatsTaken(p)) + 1
      BY SeatsFinite, AddOne
    <2>3. Cardinality(Counted(p)') <= Cardinality(S)
      BY <2>1, <2>2, FS_Subset
    <2>4. Cardinality(Counted(p)') \in Nat /\ Cardinality(S) \in Nat
      BY <2>1, <2>2, FS_Subset, FS_CardinalityType
    <2> QED
      BY <2>2, <2>3, <2>4, SeatsFinite
  <1>4. ASSUME NEW r \in RegIds, NEW s, BlindEffect(r, s)
        PROVE  Counted(p)' \subseteq Counted(p)
    BY <1>4 DEF BlindEffect, Restatused, Counted, SeatsTaken, SEAT_TAKING
  <1>5. ASSUME NEW r \in RegIds, NEW P \in SUBSET RegIds, CancelEffect(r, P)
        PROVE  Cardinality(Counted(p))' <= Cardinality(Counted(p))
    <2>1. CASE r \in Counted(p)
      <3>1. Counted(p)' \subseteq (Counted(p) \ {r}) \cup P
        BY <1>5 DEF CancelEffect, Restatused, Counted, SeatsTaken, SEAT_TAKING
      <3>2. \A i, j \in P : i = j
        BY <1>5 DEF CancelEffect, OneWaiting, Promoted, RowsOf
      <3>3. Counted(p) \in SUBSET RegIds
        BY DEF Counted, SeatsTaken
      <3> QED
        BY <2>1, <3>1, <3>2, <3>3, Exchange
    <2>2. CASE r \notin Counted(p)
      <3>1. Counted(p)' \subseteq Counted(p)
        BY <1>5, <2>2
           DEF CancelEffect, Restatused, Counted, SeatsTaken, SEAT_TAKING
      <3> QED
        BY <3>1, <1>1
    <2> QED
      BY <2>1, <2>2
  <1>6. ASSUME NEW w, DeleteEffect(w)
        PROVE  Counted(p)' \subseteq Counted(p)
    BY <1>6 DEF DeleteEffect, NoRow, Counted, SeatsTaken, SEAT_TAKING
  <1>7. CASE UNCHANGED <<regs, uncounted>>
    BY <1>7, <1>1 DEF Counted, SeatsTaken
  <1>8. ASSUME At(c, "create", "tx") PROVE peak' = peak
    BY <1>8, PlacesUntouched DEF At, UpdateCapacity, CreateSession, DeleteWrites
  <1> QED
    BY <1>1, <1>2, <1>3, <1>4, <1>5, <1>6, <1>7, <1>8, StepEffects

(* SeatAccounting: create never admits beyond the largest capacity a place *)
(* had, whatever is approved, cancelled, deleted or resized in between.    *)
THEOREM SeatsAccounted == Spec => []SeatAccounting
  <1>1. Init => SeatAccounting
    <2> SUFFICES ASSUME Init, NEW p \in Places, peak[p] # 0
                 PROVE  Cardinality(Counted(p)) <= peak[p]
      BY DEF SeatAccounting, Counted
    <2>1. Counted(p) = {}
      BY DEF Init, Counted, SeatsTaken, NoRow, SEAT_TAKING
    <2>2. peak[p] \in Nat
      BY InitTyped DEF TypeOK
    <2> QED
      BY <2>1, <2>2, FS_EmptySet
  <1>2. ASSUME TypeOK, TypeOK', CapacityInv, OneWaiting, SeatAccounting,
               NEW c \in Slots, Step(c)
        PROVE  SeatAccounting'
    <2> SUFFICES ASSUME NEW p \in Places, peak'[p] # 0
                 PROVE  Cardinality(Counted(p)') <= peak'[p]
      BY DEF SeatAccounting, Counted, SeatsTaken
    <2>1. /\ peak[p] \in Nat /\ peak'[p] \in Nat
          /\ Cardinality(Counted(p)) \in Nat
          /\ Cardinality(SeatsTaken(p)) \in Nat
          /\ Cardinality(Counted(p)') \in Nat
      <3>1. Counted(p)' \subseteq RegIds
        BY DEF Counted, SeatsTaken
      <3> QED
        BY <1>2, <3>1, RegIdsFinite, FS_Subset, FS_CardinalityType, SeatsFinite
           DEF TypeOK
    <2>2. CASE peak[p] # 0 /\ peak'[p] >= peak[p]
      <3>1. Cardinality(Counted(p)) <= peak[p]
        BY <1>2, <2>2 DEF SeatAccounting, Counted
      <3>2. CASE Cardinality(Counted(p))' <= Cardinality(Counted(p))
        BY <2>1, <2>2, <3>1, <3>2
      <3>3. CASE /\ At(c, "create", "tx") /\ calls[c].req.place = p
                 /\ ~Full(p, calls[c].cap)
                 /\ Cardinality(Counted(p))' <= Cardinality(SeatsTaken(p)) + 1
        <4>1. calls[c].cap \in 1..peak[p]
          BY <1>2, <2>2, <3>3 DEF CapacityInv, SnapshotBelowPeak
        <4>2. Cardinality(SeatsTaken(p)) < calls[c].cap
          BY <2>1, <3>3, <4>1 DEF Full
        <4> QED
          BY <2>1, <2>2, <3>3, <4>1, <4>2
      <3> QED
        BY <1>2, <3>2, <3>3, CountedStep
    <2>3. CASE p \in Workshops /\ session[p] = "unborn" /\ peak'[p] # peak[p]
      <3>1. Counted(p) = {}
        BY <1>2, <2>3 DEF CapacityInv, PlacesBorn, Counted, SeatsTaken
      <3>2. Cardinality(Counted(p)) = 0
        BY <3>1, FS_EmptySet
      <3>3. Cardinality(Counted(p))' <= Cardinality(Counted(p))
        BY <1>2, <2>3, CountedStep
      <3> QED
        BY <2>1, <3>2, <3>3
    <2>4. CASE peak'[p] = peak[p]
      BY <2>1, <2>2, <2>4
    <2> QED
      BY <1>2, <2>2, <2>3, <2>4, PlacesGrow
  <1>3. TypeOK /\ TypeOK' /\ CapacityInv /\ OneWaiting /\ SeatAccounting
          /\ [Next]_vars => SeatAccounting'
    BY <1>2, OtherEffects DEF Next, Step, SeatAccounting, SeatsTaken
  <1> QED
    BY <1>1, <1>3, TypeCorrect, CapacityRemembered, NobodyWaitsTwice,
       PTL DEF Spec

-----------------------------------------------------------------------------
(***************************************************************************)
(* Who is registered and who waits: one live registration per person, a    *)
(* waitlist that agrees with the registrations, and one promotion per      *)
(* cancellation.                                                           *)
(***************************************************************************)

(* A state predicate that every effect on the registrations keeps is kept  *)
(* by the steps that have none.                                            *)
LEMMA NextIsStep ==
    ASSUME [Next]_vars
    PROVE  \/ \E c \in Slots : Step(c)
           \/ UNCHANGED <<regs, waitlist, created, uncounted, revived>>
  BY OtherEffects DEF Next, Step

-----------------------------------------------------------------------------
(* OneLiveRegistration: create looks for an existing registration and      *)
(* inserts in one transaction, and the only other way to a second one,     *)
(* bringing one back from CANCELLED, marks it until it is cancelled again. *)
THEOREM OneRegistrationEach == Spec => []OneLiveRegistration
  <1>1. Init => OneLiveRegistration
    BY DEF Init, OneLiveRegistration, NoRow, RowExists
  <1>2. ASSUME TypeOK, OneLiveRegistration, NEW c \in Slots, Step(c)
        PROVE  OneLiveRegistration'
    <2>1. ASSUME NEW u, NEW p, NEW s, InsertEffect(u, p, s)
          PROVE  OneLiveRegistration'
      <3>1. \A r \in RegIds : regs[r].user = u /\ regs[r].place = p
                                => regs[r].status = "CANCELLED"
        BY <2>1 DEF InsertEffect, CanInsert, LiveRowsOf, RowsOf
      <3> QED
        BY <1>2, <2>1, <3>1 DEF InsertEffect, OneLiveRegistration, RowExists
    <2>2. ASSUME NEW r, NEW s \in {"CONFIRMED", "REJECTED", "CHECKED_IN"},
                 BlindEffect(r, s)
          PROVE  OneLiveRegistration'
      BY <1>2, <2>2 DEF BlindEffect, Restatused, OneLiveRegistration, RowExists
    <2>3. ASSUME NEW r, NEW P, CancelEffect(r, P)
          PROVE  OneLiveRegistration'
      <3>1. /\ revived' = revived \ {r}
            /\ \A i \in P : regs[i].status = "WAITLISTED"
        BY <2>3 DEF CancelEffect, Promoted
      <3> QED
        BY <1>2, <2>3, <3>1
           DEF CancelEffect, Restatused, OneLiveRegistration, RowExists
    <2>4. ASSUME NEW w, DeleteEffect(w)
          PROVE  OneLiveRegistration'
      BY <1>2, <2>4 DEF DeleteEffect, NoRow, OneLiveRegistration, RowExists
    <2>5. CASE UNCHANGED <<regs, revived>>
      BY <1>2, <2>5 DEF OneLiveRegistration, RowExists
    <2> QED
      BY <1>2, <2>1, <2>2, <2>3, <2>4, <2>5, StepEffects
  <1>3. TypeOK /\ OneLiveRegistration /\ [Next]_vars => OneLiveRegistration'
    BY <1>2, NextIsStep DEF OneLiveRegistration, RowExists
  <1> QED
    BY <1>1, <1>3, TypeCorrect, PTL DEF Spec

-----------------------------------------------------------------------------
(* The waitlist and the registrations it is about. *)

WaitlistInv == WaitlistBacked /\ IdsCreated

LEMMA RowsOfTheWaitlist ==
    ASSUME TypeOK, NEW w \in waitlist
    PROVE  w.id \in RegIds /\ w.user \in Users /\ w.place \in Places
  BY DEF TypeOK, WaitlistRow

(* WaitlistBacked: a row of the waitlist always has its registration, and  *)
(* goes when that registration is cancelled or its workshop deleted.       *)
THEOREM WaitlistIsBacked == Spec => [](WaitlistBacked /\ IdsCreated)
  <1> USE DEF WaitlistInv
  <1>1. Init => WaitlistInv
    BY DEF Init, WaitlistBacked, IdsCreated
  <1>2. ASSUME TypeOK, WaitlistInv, NEW c \in Slots, Step(c)
        PROVE  WaitlistInv'
    <2>1. ASSUME NEW u, NEW p, NEW s, InsertEffect(u, p, s)
          PROVE  WaitlistInv'
      <3> DEFINE new == [id |-> created + 1, user |-> u, place |-> p,
                         position |-> NextPosition(p)]
      <3>1. waitlist' = waitlist \/ waitlist' = waitlist \cup {new}
        BY <2>1 DEF InsertEffect
      <3>2. \A w \in waitlist : /\ w.id # created + 1 /\ regs'[w.id] = regs[w.id]
                                /\ w.id <= created'
        BY <1>2, <2>1, RowsOfTheWaitlist DEF InsertEffect, IdsCreated, TypeOK, RegIds
      <3>3. \A w \in waitlist : ~(w.user = u /\ w.place = p)
        BY <1>2, <2>1, RowsOfTheWaitlist
           DEF InsertEffect, CanInsert, LiveRowsOf, RowsOf, WaitlistBacked
      <3>4. CASE waitlist' = waitlist
        BY <1>2, <3>2, <3>4 DEF WaitlistBacked, IdsCreated
      <3>5. CASE waitlist' = waitlist \cup {new} /\ s = "WAITLISTED"
        <4>1. /\ new.id = created + 1 /\ new.user = u /\ new.place = p
              /\ regs'[new.id].user = u /\ regs'[new.id].place = p
              /\ regs'[new.id].status = "WAITLISTED"
              /\ new.id <= created'
          BY <1>2, <2>1, <3>5 DEF InsertEffect, TypeOK
        <4> HIDE DEF new
        <4> QED
          BY <1>2, <3>2, <3>3, <3>5, <4>1 DEF WaitlistBacked, IdsCreated
      <3> QED
        BY <2>1, <3>4, <3>5 DEF InsertEffect
    <2>2. ASSUME NEW r, NEW s \in {"CONFIRMED", "REJECTED", "CHECKED_IN"},
                 BlindEffect(r, s)
          PROVE  WaitlistInv'
      BY <1>2, <2>2, RowsOfTheWaitlist
         DEF BlindEffect, Restatused, WaitlistBacked, IdsCreated
    <2>3. ASSUME NEW r, NEW P, CancelEffect(r, P)
          PROVE  WaitlistInv'
      <3>1. \A w \in waitlist' :
               /\ w \in waitlist
               /\ ~(w.user = regs[r].user /\ w.place = regs[r].place)
        BY <2>3 DEF CancelEffect, Without
      <3>2. \A w \in waitlist' : w.id # r
        BY <1>2, <3>1 DEF WaitlistBacked
      <3> QED
        BY <1>2, <2>3, <3>1, <3>2, RowsOfTheWaitlist
           DEF CancelEffect, Restatused, WaitlistBacked, IdsCreated
    <2>4. ASSUME NEW w, DeleteEffect(w)
          PROVE  WaitlistInv'
      <3>1. \A v \in waitlist' : v \in waitlist /\ v.place # w
        BY <2>4 DEF DeleteEffect, Cascaded, QueueAt
      <3> QED
        BY <1>2, <2>4, <3>1, RowsOfTheWaitlist
           DEF DeleteEffect, WaitlistBacked, IdsCreated
    <2>5. CASE UNCHANGED <<regs, waitlist, created>>
      BY <1>2, <2>5 DEF WaitlistBacked, IdsCreated
    <2> QED
      BY <1>2, <2>1, <2>2, <2>3, <2>4, <2>5, StepEffects
  <1>3. TypeOK /\ WaitlistInv /\ [Next]_vars => WaitlistInv'
    BY <1>2, NextIsStep DEF WaitlistBacked, IdsCreated
  <1> QED
    BY <1>1, <1>3, TypeCorrect, PTL DEF Spec

(* The unique constraint on (event, workshop, user) does its part.         *)
THEOREM OneRowEachWorkshop == Spec => []OneRowPerWorkshop
  <1>1. Init => OneRowPerWorkshop
    BY PlacesAssumption DEF Init, OneRowPerWorkshop, NoRow, Places
  <1>2. ASSUME TypeOK, OneRowPerWorkshop, NEW c \in Slots, Step(c)
        PROVE  OneRowPerWorkshop'
    <2>1. ASSUME NEW u, NEW p, NEW s, InsertEffect(u, p, s)
          PROVE  OneRowPerWorkshop'
      <3>1. p \in Workshops => \A r \in RegIds :
                ~(regs[r].user = u /\ regs[r].place = p)
        BY <2>1, PlacesAssumption DEF InsertEffect, CanInsert, RowsOf
      <3> QED
        BY <1>2, <2>1, <3>1 DEF InsertEffect, OneRowPerWorkshop
    <2>2. ASSUME NEW r, NEW s, BlindEffect(r, s)
          PROVE  OneRowPerWorkshop'
      BY <1>2, <2>2 DEF BlindEffect, Restatused, OneRowPerWorkshop
    <2>3. ASSUME NEW r, NEW P, CancelEffect(r, P)
          PROVE  OneRowPerWorkshop'
      BY <1>2, <2>3 DEF CancelEffect, Restatused, OneRowPerWorkshop
    <2>4. ASSUME NEW w, DeleteEffect(w)
          PROVE  OneRowPerWorkshop'
      <3>1. NoRow.place \notin Workshops
        BY PlacesAssumption DEF NoRow, Places
      <3> QED
        BY <1>2, <2>4, <3>1 DEF DeleteEffect, OneRowPerWorkshop
    <2>5. CASE UNCHANGED regs
      BY <1>2, <2>5 DEF OneRowPerWorkshop
    <2> QED
      BY <1>2, <2>1, <2>2, <2>3, <2>4, <2>5, StepEffects
  <1>3. TypeOK /\ OneRowPerWorkshop /\ [Next]_vars => OneRowPerWorkshop'
    BY <1>2, NextIsStep DEF OneRowPerWorkshop
  <1> QED
    BY <1>1, <1>3, TypeCorrect, PTL DEF Spec

(* WorkshopWaitersQueue: whoever waits for a workshop can be reached by a  *)
(* cancellation.                                                           *)
THEOREM WaitersKeepTheirPlace == Spec => []WorkshopWaitersQueue
  <1>1. Init => WorkshopWaitersQueue
    BY DEF Init, WorkshopWaitersQueue, NoRow
  <1>2. ASSUME TypeOK, WaitlistInv, OneRowPerWorkshop, WorkshopWaitersQueue,
               NEW c \in Slots, Step(c)
        PROVE  WorkshopWaitersQueue'
    <2>1. ASSUME NEW u, NEW p, NEW s, InsertEffect(u, p, s)
          PROVE  WorkshopWaitersQueue'
      <3>1. waitlist \subseteq waitlist'
        BY <2>1 DEF InsertEffect
      <3>2. s = "WAITLISTED" => \E w \in waitlist' : w.id = created + 1
        <4> DEFINE new == [id |-> created + 1, user |-> u, place |-> p,
                           position |-> NextPosition(p)]
        <4>1. s = "WAITLISTED" => new \in waitlist'
          BY <2>1 DEF InsertEffect
        <4>2. new.id = created + 1
          OBVIOUS
        <4> QED
          BY <4>1, <4>2
      <3> QED
        BY <1>2, <2>1, <3>1, <3>2 DEF InsertEffect, WorkshopWaitersQueue
    <2>2. ASSUME NEW r, NEW s \in {"CONFIRMED", "REJECTED", "CHECKED_IN"},
                 BlindEffect(r, s)
          PROVE  WorkshopWaitersQueue'
      BY <1>2, <2>2 DEF BlindEffect, Restatused, WorkshopWaitersQueue
    <2>3. ASSUME NEW r, NEW P, CancelEffect(r, P)
          PROVE  WorkshopWaitersQueue'
      <3> SUFFICES ASSUME NEW i \in RegIds, regs'[i].status = "WAITLISTED",
                          regs'[i].place \in Workshops
                   PROVE  \E w \in waitlist' : w.id = i
        BY DEF WorkshopWaitersQueue
      <3>1. i # r /\ i \notin P /\ regs'[i] = regs[i]
        BY <2>3 DEF CancelEffect, Restatused
      <3>2. PICK w \in waitlist : w.id = i
        BY <1>2, <3>1 DEF WorkshopWaitersQueue
      <3>3. w.user = regs[i].user /\ w.place = regs[i].place
        BY <1>2, <3>2 DEF WaitlistInv, WaitlistBacked
      <3>4. ~(w.user = regs[r].user /\ w.place = regs[r].place)
        BY <1>2, <2>3, <3>1, <3>3 DEF CancelEffect, OneRowPerWorkshop
      <3>5. w \in Without(regs[r].user, regs[r].place)
        BY <3>4 DEF Without
      <3>6. i \in Promoted(w)
        BY <3>1, <3>3 DEF Promoted, RowsOf
      <3> QED
        BY <2>3, <3>1, <3>2, <3>5, <3>6 DEF CancelEffect
    <2>4. ASSUME NEW w \in Workshops, DeleteEffect(w)
          PROVE  WorkshopWaitersQueue'
      <3> SUFFICES ASSUME NEW i \in RegIds, regs'[i].status = "WAITLISTED",
                          regs'[i].place \in Workshops
                   PROVE  \E v \in waitlist' : v.id = i
        BY DEF WorkshopWaitersQueue
      <3>1. regs[i].place # w /\ regs'[i] = regs[i]
        BY <2>4 DEF DeleteEffect, NoRow
      <3>2. PICK v \in waitlist : v.id = i
        BY <1>2, <3>1 DEF WorkshopWaitersQueue
      <3>3. v.place # w
        BY <1>2, <3>1, <3>2 DEF WaitlistInv, WaitlistBacked
      <3> QED
        BY <2>4, <3>2, <3>3 DEF DeleteEffect, Cascaded, QueueAt
    <2>5. CASE UNCHANGED <<regs, waitlist>>
      BY <1>2, <2>5 DEF WorkshopWaitersQueue
    <2> QED
      BY <1>2, <2>1, <2>2, <2>3, <2>4, <2>5, StepEffects
  <1>3. TypeOK /\ WaitlistInv /\ OneRowPerWorkshop /\ WorkshopWaitersQueue
          /\ [Next]_vars => WorkshopWaitersQueue'
    BY <1>2, NextIsStep DEF WorkshopWaitersQueue
  <1>4. WaitlistBacked /\ IdsCreated => WaitlistInv
    BY DEF WaitlistInv
  <1> QED
    BY <1>1, <1>3, <1>4, TypeCorrect, WaitlistIsBacked, OneRowEachWorkshop,
       PTL DEF Spec

-----------------------------------------------------------------------------
(* One cancellation, one promotion. *)

(* Of all steps only the transaction of cancel takes a cancel request from *)
(* its start to its announcement.                                          *)
LEMMA OnlyCancelCancels ==
    ASSUME TypeOK, [Next]_vars, NEW c \in Slots,
           At(c, "cancel", "start"), calls'[c].step = "announce"
    PROVE  CancelTx(c)
  <1>1. ASSUME NEW a, Reply(c, a) PROVE FALSE
    <2>1. [Idle EXCEPT !.reply = a].step = "idle"
      BY DEF Idle
    <2> QED
      BY <1>1, <2>1 DEF Reply, TypeOK
  <1>2. CASE Step(c)
    BY <1>1, <1>2
       DEF Step, RegistrationStep, EventStep, At, CreateReads, CreateRefused,
           CreateDuplicate, CreateUniqueViolation, CreateForeignKeyViolation,
           CreateWaitlisted, CreatePending, CreateConfirmed, Approve, Reject,
           BlindWrite, CheckInReads, CheckInRefused, CheckInWrites,
           RowMissing, TxAborts, Announce, AnnouncePromoted, AnnounceFails,
           UpdateCapacity, UpdateNotFound, CreateSession, DeleteReads,
           DeleteRefused, DeleteWrites, DeleteMissing, PublishReads,
           PublishWrites, CancelEvent, AnnounceCancelledEvent,
           CancelledEventFails, UpsertForm
  <1>3. ASSUME NEW d \in Slots, d # c, Step(d) \/ Receive(d)
        PROVE  FALSE
    BY <1>3, CallsOfOthers DEF At
  <1>4. CASE Receive(c)
    BY <1>4 DEF Receive, At
  <1>5. CASE Crash
    <2>1. \A q : Delivered(q).step = "start"
      BY DEF Delivered, Idle
    <2> QED
      BY <1>5, <2>1 DEF Crash, At
  <1>6. CASE UNCHANGED vars
    BY <1>6 DEF vars, At
  <1> QED
    BY <1>2, <1>3, <1>4, <1>5, <1>6 DEF Next, Step

(* SinglePromotion: updateMany in cancel looks like it could promote many  *)
(* registrations; it finds at most one, and pays for it with a row of the  *)
(* same queue.                                                             *)
THEOREM OnePromotionAtATime == Spec => SinglePromotion
  <1> DEFINE Single(c) ==
        /\ Cardinality(LetIn) <= 1
        /\ \A r \in LetIn : Cardinality({w \in waitlist \ waitlist' :
                                  w.place = regs[r].place}) >= 1
  <1>1. ASSUME TypeOK, OneWaiting, [Next]_vars, NEW c \in Slots,
               At(c, "cancel", "start"), calls'[c].step = "announce"
        PROVE  Single(c)
    <2>1. CancelTx(c)
      BY <1>1, OnlyCancelCancels
    <2>2. PICK r \in RegIds, P \in SUBSET RegIds : CancelEffect(r, P)
      BY <1>1, <2>1, CancelRowByRow DEF CancelEffect
    <2>3. LetIn \subseteq P
      BY <2>2 DEF CancelEffect, Restatused, LetIn, SEAT_TAKING
    <2>4. \A i, j \in LetIn : i = j
      BY <1>1, <2>2, <2>3 DEF CancelEffect, Promoted, RowsOf, OneWaiting
    <2>5. Cardinality(LetIn) <= 1
      BY <2>3, <2>4, AtMostOne
    <2>6. ASSUME NEW i \in LetIn
          PROVE  Cardinality({w \in waitlist \ waitlist' :
                                 w.place = regs[i].place}) >= 1
      <3> DEFINE G == {w \in waitlist \ waitlist' : w.place = regs[i].place}
      <3>1. G # {}
        BY <2>2, <2>3, <2>6 DEF CancelEffect, Without
      <3>2. IsFiniteSet(waitlist)
        BY <1>1 DEF TypeOK
      <3>3. G \subseteq waitlist
        OBVIOUS
      <3> HIDE DEF G
      <3>4. IsFiniteSet(G)
        BY <3>2, <3>3, FS_Subset
      <3>5. Cardinality(G) \in Nat /\ Cardinality(G) # 0
        BY <3>1, <3>4, FS_CardinalityType, FS_EmptySet
      <3>6. Cardinality(G) >= 1
        BY <3>5
      <3> QED
        BY <3>6 DEF G
    <2> QED
      BY <2>5, <2>6
  <1>2. TypeOK /\ OneWaiting /\ [Next]_vars =>
          [\A c \in Slots :
             At(c, "cancel", "start") /\ calls'[c].step = "announce" =>
                /\ Cardinality(LetIn) <= 1
                /\ \A r \in LetIn : Cardinality({w \in waitlist \ waitlist' :
                                          w.place = regs[r].place}) >= 1]_vars
    BY <1>1
  <1> QED
    BY <1>2, TypeCorrect, NobodyWaitsTwice, PTL DEF Spec, SinglePromotion

-----------------------------------------------------------------------------
(* Registrations are numbered in order, and whoever got a seat without the *)
(* test of create is one of them and does not wait.                        *)
LedgerInv == FreshRows /\ UncountedKnown

THEOREM LedgerBooks == Spec => []LedgerInv
  <1>1. Init => LedgerInv
    BY DEF Init, LedgerInv, FreshRows, UncountedKnown
  <1>2. ASSUME TypeOK, TypeOK', LedgerInv, NEW c \in Slots, Step(c)
        PROVE  LedgerInv'
    <2> USE <1>2 DEF LedgerInv
    <2>1. created \in Nat /\ uncounted \subseteq RegIds /\ RegIds \subseteq Nat
      BY BoundsAssumption DEF TypeOK, RegIds
    <2>2. ASSUME NEW r \in RegIds, RowExists(r)
          PROVE  r <= created
      BY <2>1, <2>2 DEF FreshRows, RowExists, NoRow
    <2>3. ASSUME NEW u, NEW p, NEW s, InsertEffect(u, p, s)
          PROVE  LedgerInv'
      <3>1. created' = created + 1 /\ uncounted' = uncounted
        BY <2>3 DEF InsertEffect
      <3>2. FreshRows'
        BY <2>1, <2>3, <3>1 DEF InsertEffect, FreshRows
      <3>3. UncountedKnown'
        <4> SUFFICES ASSUME NEW r \in uncounted
                     PROVE  r <= created + 1 /\ regs'[r].status # "WAITLISTED"
          BY <3>1 DEF UncountedKnown
        <4>1. r \in RegIds /\ r <= created /\ regs[r].status # "WAITLISTED"
          BY <2>1 DEF UncountedKnown
        <4>2. r # created + 1
          BY <2>1, <4>1
        <4> QED
          BY <2>1, <2>3, <4>1, <4>2 DEF InsertEffect
      <3> QED
        BY <3>2, <3>3
    <2>4. ASSUME NEW r \in RegIds, NEW s \in {"CONFIRMED", "REJECTED", "CHECKED_IN"},
                 BlindEffect(r, s)
          PROVE  LedgerInv'
      <3>1. r <= created /\ created' = created /\ uncounted' \subseteq uncounted \cup {r}
        BY <2>2, <2>4 DEF BlindEffect
      <3>2. FreshRows'
        <4>1. \A i \in RegIds \ {r} : regs'[i] = regs[i]
          BY <2>4 DEF BlindEffect
        <4>2. ~(r > created)
          BY <2>1, <3>1
        <4> QED
          BY <3>1, <4>1, <4>2 DEF FreshRows
      <3>3. UncountedKnown'
        BY <2>1, <2>4, <3>1 DEF BlindEffect, Restatused, UncountedKnown
      <3> QED
        BY <3>2, <3>3
    <2>5. ASSUME NEW r \in RegIds, NEW P \in SUBSET RegIds, CancelEffect(r, P)
          PROVE  LedgerInv'
      <3>1. /\ created' = created /\ uncounted' \subseteq uncounted \cup P
            /\ r <= created
        BY <2>2, <2>5 DEF CancelEffect
      <3>2. \A i \in P : regs[i].status = "WAITLISTED"
        BY <2>5 DEF CancelEffect, Promoted
      <3>3. \A i \in P : i <= created
        BY <2>2, <3>2 DEF RowExists
      <3>4. FreshRows'
        BY <2>1, <2>5, <3>1, <3>3 DEF CancelEffect, FreshRows
      <3>5. UncountedKnown'
        <4> SUFFICES ASSUME NEW i \in uncounted'
                     PROVE  i <= created /\ regs'[i].status # "WAITLISTED"
          BY <3>1 DEF UncountedKnown
        <4>1. CASE i \in P
          BY <2>5, <3>3, <4>1 DEF CancelEffect, Restatused
        <4>2. CASE i = r
          BY <2>5, <3>1, <4>2 DEF CancelEffect, Restatused
        <4>3. CASE i \in uncounted /\ i \notin P /\ i # r
          BY <2>1, <2>5, <4>3 DEF CancelEffect, UncountedKnown
        <4> QED
          BY <3>1, <4>1, <4>2, <4>3
      <3> QED
        BY <3>4, <3>5
    <2>6. ASSUME NEW w, DeleteEffect(w)
          PROVE  LedgerInv'
      BY <2>1, <2>6 DEF DeleteEffect, FreshRows, UncountedKnown, NoRow
    <2>7. CASE UNCHANGED <<regs, created, uncounted>>
      BY <2>7 DEF FreshRows, UncountedKnown
    <2> QED
      BY <2>3, <2>4, <2>5, <2>6, <2>7, StepEffects
  <1>3. TypeOK /\ TypeOK' /\ LedgerInv /\ [Next]_vars => LedgerInv'
    BY <1>2, OtherEffects DEF Next, Step, LedgerInv, FreshRows, UncountedKnown
  <1> QED
    BY <1>1, <1>3, TypeCorrect, PTL DEF Spec

(* A registration that exists keeps its user and its place, or goes with   *)
(* all others at its workshop.                                             *)
LEMMA RowsMove ==
    ASSUME TypeOK, FreshRows, NEW c \in Slots, Step(c) \/ Receive(c)
    PROVE  /\ created \in Nat /\ created' \in Nat /\ created <= created'
           /\ \A r \in RegIds : r <= created =>
                 \/ /\ regs'[r].user = regs[r].user
                    /\ regs'[r].place = regs[r].place
                 \/ \E w \in Workshops : regs[r].place = w /\ DeleteEffect(w)
  <1>1. created \in Nat /\ RegIds \subseteq Nat
    BY BoundsAssumption DEF TypeOK, RegIds
  <1>2. ASSUME NEW u, NEW p, NEW s, InsertEffect(u, p, s)
        PROVE  /\ created' = created + 1
               /\ \A r \in RegIds : r <= created => regs'[r] = regs[r]
    <2>1. \A r \in RegIds : r <= created => r # created + 1
      BY <1>1
    <2> QED
      BY <1>2, <2>1 DEF InsertEffect
  <1>3. ASSUME NEW r, NEW s, BlindEffect(r, s)
        PROVE  /\ created' = created
               /\ \A i \in RegIds : /\ regs'[i].user = regs[i].user
                                    /\ regs'[i].place = regs[i].place
    BY <1>3 DEF BlindEffect, Restatused
  <1>4. ASSUME NEW r, NEW P, CancelEffect(r, P)
        PROVE  /\ created' = created
               /\ \A i \in RegIds : /\ regs'[i].user = regs[i].user
                                    /\ regs'[i].place = regs[i].place
    BY <1>4 DEF CancelEffect, Restatused
  <1>5. ASSUME NEW w \in Workshops, DeleteEffect(w)
        PROVE  /\ created' = created
               /\ \A r \in RegIds : regs[r].place # w => regs'[r] = regs[r]
    BY <1>5 DEF DeleteEffect
  <1>6. CASE UNCHANGED <<regs, created>>
    BY <1>1, <1>6
  <1>7. CASE Receive(c)
    BY <1>6, <1>7 DEF Receive
  <1> QED
    BY <1>1, <1>2, <1>3, <1>4, <1>5, <1>6, <1>7, StepEffects

-----------------------------------------------------------------------------
(* How a handler goes on. *)

(* How the handler goes on that wrote a row and will announce it.          *)
LEMMA WillAnnounce ==
    ASSUME TypeOK, NEW c \in Slots, NEW r, NEW says, NEW next,
           GoAnnounce(c, r, says, next)
    PROVE  /\ calls'[c].step = "announce" /\ calls'[c].req = calls[c].req
           /\ calls'[c].row = r /\ calls'[c].says = says
           /\ calls'[c].next = next
  <1> DEFINE call == [calls[c] EXCEPT !.step = "announce", !.row = r,
                                      !.says = says, !.next = next]
  <1>1. calls[c] \in Call
    BY DEF TypeOK
  <1>2. /\ call.step = "announce" /\ call.req = calls[c].req
        /\ call.row = r /\ call.says = says /\ call.next = next
    BY <1>1 DEF Call
  <1>3. calls' = [calls EXCEPT ![c] = call]
    BY DEF GoAnnounce
  <1> HIDE DEF call
  <1> QED
    BY <1>2, <1>3 DEF TypeOK

LEMMA Answered ==
    ASSUME TypeOK, NEW c \in Slots, NEW a, Reply(c, a)
    PROVE  /\ calls'[c].step = "idle" /\ calls'[c].req = NoRequest
           /\ calls'[c].row = 0 /\ calls'[c].next = Nobody
  <1> DEFINE call == [Idle EXCEPT !.reply = a]
  <1>1. /\ call.step = "idle" /\ call.req = NoRequest
        /\ call.row = 0 /\ call.next = Nobody
    BY DEF Idle
  <1> QED
    BY <1>1 DEF Reply, TypeOK

LEMMA GoesOn ==
    ASSUME TypeOK, NEW c \in Slots, NEW step, Go(c, step)
    PROVE  /\ calls'[c].step = step /\ calls'[c].req = calls[c].req
           /\ calls'[c].row = calls[c].row /\ calls'[c].next = calls[c].next
  <1>1. calls[c] \in Call
    BY DEF TypeOK
  <1>2. calls'[c] = [calls[c] EXCEPT !.step = step]
    BY DEF Go, TypeOK
  <1> QED
    BY <1>1, <1>2 DEF Call

(* Only a read leads to a write or to a transaction.                       *)
LEMMA ReadsFirst ==
    ASSUME TypeOK, NEW c \in Slots, Step(c) \/ Receive(c),
           calls'[c].step \in {"write", "tx"}
    PROVE  CheckInReads(c) \/ DeleteReads(c) \/ PublishReads(c) \/ CreateReads(c)
  <1>1. \A q : Delivered(q).step = "start"
    BY DEF Delivered, Idle
  <1>2. CASE Receive(c)
    BY <1>1, <1>2 DEF Receive, TypeOK
  <1>3. ASSUME NEW a, Reply(c, a) PROVE FALSE
    BY <1>3, Answered
  <1>4. ASSUME NEW r, NEW says, NEW next, GoAnnounce(c, r, says, next) PROVE FALSE
    BY <1>4, WillAnnounce
  <1>5. ASSUME NEW step \in {"announce", "promoted"}, Go(c, step) PROVE FALSE
    BY <1>5, GoesOn
  <1>6. CASE RegistrationStep(c)
    BY <1>3, <1>4, <1>5, <1>6
       DEF RegistrationStep, CreateRefused, CreateDuplicate,
           CreateUniqueViolation, CreateForeignKeyViolation,
           CreateWaitlisted, CreatePending, CreateConfirmed, Approve, Reject,
           BlindWrite, CheckInRefused, CheckInWrites, CancelTx, RowMissing,
           TxAborts, Announce, AnnouncePromoted, AnnounceFails
  <1>7. CASE EventStep(c)
    BY <1>3, <1>5, <1>7
       DEF EventStep, UpdateCapacity, UpdateNotFound, CreateSession,
           DeleteRefused, DeleteWrites, DeleteMissing, PublishWrites,
           CancelEvent, AnnounceCancelledEvent, CancelledEventFails,
           UpsertForm
  <1> QED
    BY <1>2, <1>6, <1>7 DEF Step

-----------------------------------------------------------------------------
(***************************************************************************)
(* What people were told: of a cancelled event, and of their registrations.*)
(***************************************************************************)

(* A call at rest holds no request; the announcement of a cancelled event  *)
(* names no registration, and only a call that names one has somebody      *)
(* promoted to announce.                                                   *)
NamesWell(c) ==
    /\ calls[c].step = "idle" => calls[c].req = NoRequest
    /\ calls[c].req.op = "cancelEvent" => calls[c].row = 0
    /\ calls[c].next # Nobody => calls[c].row # 0
NamesInv == \A c \in Slots : NamesWell(c)

LEMMA StillNamesWell ==
    ASSUME TypeOK, NEW c \in Slots, Step(c) \/ Receive(c), NamesWell(c)
    PROVE  NamesWell(c)'
  <1>1. ASSUME NEW a, Reply(c, a) PROVE NamesWell(c)'
    BY <1>1, Answered DEF NamesWell, NoRequest
  <1>2. ASSUME NEW step, Go(c, step), step # "idle" PROVE NamesWell(c)'
    BY <1>2, GoesOn DEF NamesWell
  <1>3. ASSUME NEW r \in RegIds, NEW says, NEW next,
               GoAnnounce(c, r, says, next), calls[c].req.op # "cancelEvent"
        PROVE  NamesWell(c)'
    BY <1>3, WillAnnounce DEF NamesWell, RegIds
  <1>4. CASE CreateReads(c)
    <2>1. calls'[c] = [calls[c] EXCEPT !.step = "tx",
                                       !.cap = capacity[calls[c].req.place],
                                       !.approval = form.requiresApproval]
      BY <1>4 DEF CreateReads, TypeOK
    <2>2. /\ calls'[c].req.op = "create" /\ calls'[c].step = "tx"
          /\ calls'[c].row = calls[c].row /\ calls'[c].next = calls[c].next
      BY <1>4, <2>1 DEF CreateReads, At, TypeOK, Call
    <2> QED
      BY <2>2 DEF NamesWell
  <1>5. CASE Receive(c)
    <2>1. \A q : /\ Delivered(q).row = 0 /\ Delivered(q).next = Nobody
                 /\ Delivered(q).step = "start"
      BY DEF Delivered, Idle
    <2> QED
      BY <1>5, <2>1 DEF Receive, TypeOK, NamesWell
  <1>6. CASE CreateWaitlisted(c) \/ CreatePending(c) \/ CreateConfirmed(c)
    <2>1. created + 1 \in RegIds /\ calls[c].req.op # "cancelEvent"
      BY <1>6, NextId
         DEF CreateWaitlisted, CreatePending, CreateConfirmed, CanInsert, At
    <2> QED
      BY <1>1, <1>3, <1>6, <2>1
         DEF CreateWaitlisted, CreatePending, CreateConfirmed
  <1>7. CASE Approve(c) \/ Reject(c) \/ CheckInWrites(c) \/ CancelTx(c)
    <2>1. calls[c].req.reg \in RegIds /\ calls[c].req.op # "cancelEvent"
      BY <1>7, RowShape
         DEF Approve, Reject, CheckInWrites, BlindWrite, CancelTx, At
    <2> QED
      BY <1>3, <1>7, <2>1
         DEF Approve, Reject, CheckInWrites, BlindWrite, CancelTx
  <1>8. CASE \/ CreateRefused(c) \/ CreateDuplicate(c)
             \/ CreateUniqueViolation(c) \/ CreateForeignKeyViolation(c)
             \/ CheckInReads(c) \/ CheckInRefused(c) \/ RowMissing(c)
             \/ TxAborts(c) \/ Announce(c) \/ AnnouncePromoted(c)
             \/ AnnounceFails(c)
    BY <1>1, <1>2, <1>8
       DEF CreateRefused, CreateDuplicate, CreateUniqueViolation,
           CreateForeignKeyViolation, CheckInReads, CheckInRefused,
           RowMissing, TxAborts, Announce, AnnouncePromoted, AnnounceFails
  <1>9. CASE EventStep(c)
    BY <1>1, <1>2, <1>9
       DEF EventStep, UpdateCapacity, UpdateNotFound, CreateSession,
           DeleteReads, DeleteRefused, DeleteWrites, DeleteMissing,
           PublishReads, PublishWrites, CancelEvent, AnnounceCancelledEvent,
           CancelledEventFails, UpsertForm
  <1> QED
    BY <1>4, <1>5, <1>6, <1>7, <1>8, <1>9 DEF Step, RegistrationStep

LEMMA CallsNameWell == Spec => []NamesInv
  <1>1. Init => NamesInv
    BY DEF Init, NamesInv, NamesWell, Idle, NoRequest
  <1>2. TypeOK /\ NamesInv /\ [Next]_vars => NamesInv'
    <2> SUFFICES ASSUME TypeOK, NamesInv, [Next]_vars PROVE NamesInv'
      OBVIOUS
    <2>1. ASSUME NEW c \in Slots, Step(c) \/ Receive(c)
          PROVE  NamesInv'
      <3>1. NamesWell(c)'
        BY <2>1, StillNamesWell DEF NamesInv
      <3>2. \A d \in Slots \ {c} : calls'[d] = calls[d]
        BY <2>1, CallsOfOthers
      <3> QED
        BY <3>1, <3>2 DEF NamesInv, NamesWell
    <2>2. CASE Crash
      <3>1. \A q : /\ Delivered(q).row = 0 /\ Delivered(q).next = Nobody
                   /\ Delivered(q).step = "start"
        BY DEF Delivered, Idle
      <3> QED
        BY <2>2, <3>1 DEF Crash, NamesInv, NamesWell
    <2>3. CASE UNCHANGED vars
      BY <2>3 DEF vars, NamesInv, NamesWell
    <2> QED
      BY <2>1, <2>2, <2>3 DEF Next, Step
  <1> QED
    BY <1>1, <1>2, TypeCorrect, PTL DEF Spec

-----------------------------------------------------------------------------
(* Who is told of a cancelled event.  Until its handler has collected who  *)
(* is affected, cancelEvent is still to be answered; whoever turns up      *)
(* after that is marked.                                                   *)
Warned(r) == regs[r].status \in WARNED =>
                 regs[r].user \in warned \/ r \in unwarned
WarnedInv ==
    eventStatus = "CANCELLED" => Collecting \/ \A r \in RegIds : Warned(r)

(* Once the recipients are collected, whoever joins them is marked.        *)
LEMMA WarnedStay ==
    ASSUME TypeOK, FreshRows, eventStatus = "CANCELLED", ~Collecting,
           \A r \in RegIds : Warned(r), NEW c \in Slots, Step(c)
    PROVE  \A r \in RegIds : Warned(r)'
  <1>1. ~CancelEvent(c) /\ ~AnnounceCancelledEvent(c) /\ ~CancelledEventFails(c)
    BY DEF CancelEvent, AnnounceCancelledEvent, CancelledEventFails, At,
           Collecting
  <1>2. UNCHANGED warned
    BY <1>1
       DEF Step, RegistrationStep, EventStep, CreateReads, CreateRefused,
           CreateDuplicate, CreateUniqueViolation, CreateForeignKeyViolation,
           CreateWaitlisted, CreatePending, CreateConfirmed, Approve, Reject,
           BlindWrite, CheckInReads, CheckInRefused, CheckInWrites, CancelTx,
           RowMissing, TxAborts, Announce, AnnouncePromoted, AnnounceFails,
           UpdateCapacity, UpdateNotFound, CreateSession, DeleteReads,
           DeleteRefused, DeleteWrites, DeleteMissing, PublishReads,
           PublishWrites, UpsertForm
  <1>3. CASE CreateWaitlisted(c) \/ CreatePending(c) \/ CreateConfirmed(c)
    <2>1. created + 1 \in RegIds /\ created \in Nat
      BY <1>3, NextId
         DEF CreateWaitlisted, CreatePending, CreateConfirmed, CanInsert, TypeOK
    <2>2. PICK u, p, status : Insert(u, p, status)
      BY <1>3 DEF CreateWaitlisted, CreatePending, CreateConfirmed
    <2>3. regs[created + 1].status \notin WARNED
      <3>1. created + 1 > created
        BY <2>1
      <3> QED
        BY <2>1, <3>1 DEF FreshRows, NoRow, WARNED
    <2>4. /\ regs'[created + 1] = [user |-> u, place |-> p, status |-> status]
          /\ \A r \in RegIds \ {created + 1} : regs'[r] = regs[r]
          /\ unwarned' = unwarned \cup TooLate(created + 1, u, status)
      BY <2>1, <2>2 DEF Insert, TypeOK
    <2> QED
      BY <1>2, <2>1, <2>3, <2>4 DEF Warned, TooLate
  <1>4. CASE Approve(c) \/ Reject(c) \/ CheckInWrites(c)
    <2>1. PICK i \in RegIds, status \in {"CONFIRMED", "REJECTED", "CHECKED_IN"} :
             SetStatus(i, status) /\ RowExists(i)
      BY <1>4, RowShape DEF Approve, Reject, CheckInWrites, BlindWrite, At
    <2>2. regs[i] \in Registration
      BY <2>1 DEF TypeOK, RowExists, NoRow
    <2>3. /\ regs'[i].status = status /\ regs'[i].user = regs[i].user
          /\ \A r \in RegIds \ {i} : regs'[r] = regs[r]
          /\ unwarned' = unwarned \cup TooLate(i, regs[i].user, status)
      BY <2>1, <2>2 DEF SetStatus, TypeOK, Registration
    <2> QED
      BY <1>2, <2>3 DEF Warned, TooLate
  <1>5. CASE CancelTx(c)
    <2>1. PICK i \in RegIds, P \in SUBSET RegIds : CancelEffect(i, P)
      BY <1>5, CancelRowByRow DEF CancelEffect
    <2>2. \A r \in P : /\ regs[r].status = "WAITLISTED"
                       /\ regs'[r].user = regs[r].user
      BY <2>1 DEF CancelEffect, Promoted, Restatused
    <2>3. /\ regs'[i].status = "CANCELLED"
          /\ \A r \in RegIds \ (P \cup {i}) : regs'[r] = regs[r]
      BY <2>1 DEF CancelEffect, Restatused
    <2>4. unwarned' = unwarned
      BY <1>5 DEF CancelTx
    <2> QED
      BY <1>2, <2>2, <2>3, <2>4 DEF Warned, WARNED
  <1>6. CASE DeleteWrites(c)
    <2>1. unwarned' = unwarned
      BY <1>6 DEF DeleteWrites, history
    <2> QED
      BY <1>2, <1>6, <2>1, DeleteRowByRow DEF DeleteEffect, Warned, NoRow, WARNED
  <1>7. CASE UNCHANGED <<regs, unwarned>>
    BY <1>2, <1>7 DEF Warned
  <1>8. ASSUME ~CreateWaitlisted(c), ~CreatePending(c), ~CreateConfirmed(c),
               ~Approve(c), ~Reject(c), ~CheckInWrites(c)
        PROVE  UNCHANGED unwarned
    BY <1>1, <1>8
       DEF Step, RegistrationStep, EventStep, history, CreateReads,
           CreateRefused, CreateDuplicate, CreateUniqueViolation,
           CreateForeignKeyViolation, CheckInReads, CheckInRefused, CancelTx,
           RowMissing, TxAborts, Announce, AnnouncePromoted, AnnounceFails,
           UpdateCapacity, UpdateNotFound, CreateSession, DeleteReads,
           DeleteRefused, DeleteWrites, DeleteMissing, PublishReads,
           PublishWrites, UpsertForm
  <1> QED
    BY <1>3, <1>4, <1>5, <1>6, <1>7, <1>8, RowsUntouched

(* A handler of cancelEvent goes on to its announcement, and makes it or   *)
(* leaves its mark on everybody it was for.                                *)
LEMMA WarningGoesOn ==
    ASSUME TypeOK, NamesInv, NEW c \in Slots, Step(c),
           calls[c].req.op = "cancelEvent"
    PROVE  Collecting' \/ \A r \in RegIds : Warned(r)'
  <1>1. calls[c].row = 0
    BY DEF NamesInv, NamesWell
  <1>2. CancelEvent(c) \/ AnnounceCancelledEvent(c) \/ CancelledEventFails(c)
    BY <1>1
       DEF Step, RegistrationStep, EventStep, At, CreateReads, CreateRefused,
           CreateDuplicate, CreateUniqueViolation, CreateForeignKeyViolation,
           CreateWaitlisted, CreatePending, CreateConfirmed, Approve, Reject,
           BlindWrite, CheckInReads, CheckInRefused, CheckInWrites, CancelTx,
           RowMissing, TxAborts, Announce, AnnouncePromoted, AnnounceFails,
           UpdateCapacity, UpdateNotFound, CreateSession, DeleteReads,
           DeleteRefused, DeleteWrites, DeleteMissing, PublishReads,
           PublishWrites, UpsertForm
  <1>3. CASE CancelEvent(c)
    BY <1>3, GoesOn DEF CancelEvent, Collecting
  <1>4. CASE AnnounceCancelledEvent(c)
    BY <1>4 DEF AnnounceCancelledEvent, Affected, UsersWith, Warned
  <1>5. CASE CancelledEventFails(c)
    BY <1>5 DEF CancelledEventFails, Warned
  <1> QED
    BY <1>2, <1>3, <1>4, <1>5

(* AttendeesWarned: when all is done, whoever waits, is confirmed or is    *)
(* pending at a cancelled event was told so, whatever interleaved with its *)
(* cancellation and whatever died: but for the registrations made or       *)
(* brought back after the recipients were collected, and those whose       *)
(* collection failed.                                                      *)
THEOREM CancellationsAreTold == Spec => []AttendeesWarned
  <1>1. Init => WarnedInv
    BY DEF Init, WarnedInv
  <1>2. TypeOK /\ LedgerInv /\ NamesInv /\ WarnedInv /\ [Next]_vars => WarnedInv'
    <2> SUFFICES ASSUME TypeOK, FreshRows, NamesInv, WarnedInv, [Next]_vars,
                        eventStatus' = "CANCELLED"
                 PROVE  Collecting' \/ \A r \in RegIds : Warned(r)'
      BY DEF WarnedInv, LedgerInv
    <2>1. ASSUME NEW c \in Slots, Step(c)
          PROVE  Collecting' \/ \A r \in RegIds : Warned(r)'
      <3>1. CASE calls[c].req.op = "cancelEvent"
        BY <2>1, <3>1, WarningGoesOn
      <3>2. ASSUME calls[c].req.op # "cancelEvent", Collecting
            PROVE  Collecting'
        BY <2>1, <3>2, CallsOfOthers DEF Collecting
      <3>3. ASSUME calls[c].req.op # "cancelEvent"
            PROVE  eventStatus = "CANCELLED"
        BY <2>1, <3>3
           DEF Step, RegistrationStep, EventStep, At, tables, CreateReads,
               CreateRefused, CreateDuplicate, CreateUniqueViolation,
               CreateForeignKeyViolation, CreateWaitlisted, CreatePending,
               CreateConfirmed, Approve, Reject, BlindWrite, CheckInReads,
               CheckInRefused, CheckInWrites, CancelTx, RowMissing,
               TxAborts, Announce, AnnouncePromoted, AnnounceFails,
               UpdateCapacity, UpdateNotFound, CreateSession, DeleteReads,
               DeleteRefused, DeleteWrites, DeleteMissing, PublishReads,
               PublishWrites, CancelEvent, AnnounceCancelledEvent,
               CancelledEventFails, UpsertForm
      <3> QED
        BY <2>1, <3>1, <3>2, <3>3, WarnedStay DEF WarnedInv
    <2>2. ASSUME NEW c \in Slots, Receive(c)
          PROVE  Collecting' \/ \A r \in RegIds : Warned(r)'
      <3>1. calls[c].req = NoRequest
        BY <2>2 DEF Receive, NamesInv, NamesWell
      <3>2. Collecting => Collecting'
        BY <2>2, <3>1, CallsOfOthers DEF Collecting, NoRequest
      <3>3. (\A r \in RegIds : Warned(r)) => \A r \in RegIds : Warned(r)'
        BY <2>2 DEF Receive, Warned, history
      <3> QED
        BY <2>2, <3>2, <3>3 DEF Receive, WarnedInv
    <2>3. CASE Crash
      <3>1. \A q : Delivered(q).req = q
        BY DEF Delivered, Idle
      <3>2. Collecting => Collecting'
        BY <2>3, <3>1 DEF Crash, Collecting
      <3>3. (\A r \in RegIds : Warned(r)) => \A r \in RegIds : Warned(r)'
        BY <2>3 DEF Crash, Warned
      <3> QED
        BY <2>3, <3>2, <3>3 DEF Crash, WarnedInv
    <2>4. CASE UNCHANGED vars
      BY <2>4 DEF vars, history, WarnedInv, Collecting, Warned
    <2> QED
      BY <2>1, <2>2, <2>3, <2>4 DEF Next, Step
  <1>3. NamesInv /\ WarnedInv => AttendeesWarned
    BY DEF WarnedInv, AttendeesWarned, Warned, Quiet, Collecting, NamesInv,
           NamesWell, NoRequest
  <1> QED
    BY <1>1, <1>2, <1>3, TypeCorrect, LedgerBooks, CallsNameWell, PTL DEF Spec

-----------------------------------------------------------------------------
(* What people were told of their registrations.  Who was not told what is *)
(* so is about to be, and only registrations that exist are announced.     *)
Told(r) == told[r] \in {WordFor(regs[r].status), "ASTRAY"}
Spoken(r) == Told(r) \/ \E c \in Slots : r \in Owed(c)
TruthInv ==
    /\ \A c \in Slots : calls[c].row <= created
    /\ \A r \in RegIds : r > created => told[r] = "NONE"
    /\ \A r \in RegIds : RowExists(r) => Spoken(r)

(* Nobody is owed word of a registration not created yet.                  *)
LEMMA OwedExist ==
    ASSUME TypeOK, FreshRows, TruthInv, NEW c \in Slots, NEW r \in Owed(c)
    PROVE  r \in RegIds /\ r <= created
  <1>1. r \in RegIds /\ r \in Nat /\ created \in Nat
    BY BoundsAssumption DEF Owed, RegIds, TypeOK
  <1>2. r > created => regs[r].status # "CONFIRMED"
    BY <1>1 DEF FreshRows, NoRow
  <1>3. CASE calls[c].row = r
    BY <1>1, <1>3 DEF TruthInv
  <1>4. CASE regs[r].status = "CONFIRMED"
    BY <1>1, <1>2, <1>4
  <1> QED
    BY <1>3, <1>4 DEF Owed

(* A handler that still has to announce takes no other step.               *)
LEMMA SaysNext ==
    ASSUME TypeOK, NamesInv, NEW c \in Slots, Step(c) \/ Receive(c),
           NEW r \in Owed(c)
    PROVE  Announce(c) \/ AnnouncePromoted(c) \/ AnnounceFails(c)
  <1>1. calls[c].step \in {"announce", "promoted"} /\ calls[c].row # 0
    BY UsersAssumption DEF Owed, RegIds, NamesInv, NamesWell
  <1>2. calls[c].req.op # "cancelEvent"
    BY <1>1 DEF NamesInv, NamesWell
  <1> QED
    BY <1>1, <1>2
       DEF Step, RegistrationStep, EventStep, At, CreateReads, CreateRefused,
           CreateDuplicate, CreateUniqueViolation, CreateForeignKeyViolation,
           CreateWaitlisted, CreatePending, CreateConfirmed, Approve, Reject,
           BlindWrite, CheckInReads, CheckInRefused, CheckInWrites, CancelTx,
           RowMissing, TxAborts, UpdateCapacity, UpdateNotFound,
           CreateSession, DeleteReads, DeleteRefused, DeleteWrites,
           DeleteMissing, PublishReads, PublishWrites, CancelEvent,
           AnnounceCancelledEvent, CancelledEventFails, UpsertForm, Receive

(* Only the announcements change what people were told.                    *)
LEMMA ToldUntouched ==
    ASSUME NEW c \in Slots, Step(c),
           ~Announce(c), ~AnnouncePromoted(c), ~AnnounceFails(c)
    PROVE  told' = told
  BY DEF Step, RegistrationStep, EventStep, history, CreateReads,
         CreateRefused, CreateDuplicate, CreateUniqueViolation,
         CreateForeignKeyViolation, CreateWaitlisted, CreatePending,
         CreateConfirmed, Insert, Approve, Reject, BlindWrite, CheckInReads,
         CheckInRefused, CheckInWrites, CancelTx, RowMissing, TxAborts,
         UpdateCapacity, UpdateNotFound, CreateSession, DeleteReads,
         DeleteRefused, DeleteWrites, DeleteMissing, PublishReads,
         PublishWrites, CancelEvent, AnnounceCancelledEvent,
         CancelledEventFails, UpsertForm

(* Whatever is written is to be announced, but for registrations that wait *)
(* for approval or are deleted, and a promotion announced already.         *)
WillSay(c, r) ==
    \/ regs'[r] = regs[r]
    \/ regs'[r] = NoRow
    \/ r \in Owed(c)'
    \/ r = created + 1 /\ created' = created + 1 /\ regs'[r].status = "PENDING"
    \/ regs'[r].status = "CONFIRMED" /\ told'[r] = "CONFIRMED"

(* The registration a handler names is one that was created.               *)
NamesCreated(c) == calls'[c].row \in {0, calls[c].row} \/ calls'[c].row <= created'

LEMMA CreateSays ==
    ASSUME TypeOK, NEW c \in Slots,
           CreateWaitlisted(c) \/ CreatePending(c) \/ CreateConfirmed(c)
    PROVE  NamesCreated(c) /\ \A r \in RegIds : WillSay(c, r)
  <1>1. created + 1 \in RegIds /\ created + 1 \in Nat
    BY NextId DEF CreateWaitlisted, CreatePending, CreateConfirmed, CanInsert
  <1>2. PICK status \in {"WAITLISTED", "PENDING", "CONFIRMED"} :
           /\ Insert(calls[c].req.user, calls[c].req.place, status)
           /\ IF status = "PENDING" THEN Reply(c, "ok")
              ELSE GoAnnounce(c, created + 1, status, Nobody)
    BY DEF CreateWaitlisted, CreatePending, CreateConfirmed
  <1>3. /\ regs'[created + 1].status = status /\ created' = created + 1
        /\ \A r \in RegIds \ {created + 1} : regs'[r] = regs[r]
    BY <1>1, <1>2 DEF Insert, TypeOK
  <1>4. CASE status = "PENDING"
    BY <1>2, <1>3, <1>4, Answered DEF NamesCreated, WillSay
  <1>5. CASE status # "PENDING"
    <2>1. calls'[c].step = "announce" /\ calls'[c].row = created + 1
      BY <1>2, <1>5, WillAnnounce
    <2>2. NamesCreated(c)
      BY <1>1, <1>3, <2>1 DEF NamesCreated
    <2> QED
      BY <1>1, <1>3, <2>1, <2>2 DEF Owed, WillSay
  <1> QED
    BY <1>4, <1>5

LEMMA BlindSays ==
    ASSUME TypeOK, FreshRows, NEW c \in Slots,
           Approve(c) \/ Reject(c) \/ CheckInWrites(c)
    PROVE  NamesCreated(c) /\ \A r \in RegIds : WillSay(c, r)
  <1> DEFINE i == calls[c].req.reg
  <1>1. PICK status \in {"CONFIRMED", "REJECTED", "CHECKED_IN"} :
           /\ regs' = [regs EXCEPT ![i].status = status]
           /\ GoAnnounce(c, i, status, Nobody)
           /\ RowExists(i) /\ i \in RegIds /\ created' = created
    BY RowShape DEF Approve, Reject, CheckInWrites, BlindWrite, SetStatus, At
  <1>2. \A r \in RegIds \ {i} : regs'[r] = regs[r]
    BY <1>1 DEF TypeOK
  <1>3. calls'[c].step = "announce" /\ calls'[c].row = i
    BY <1>1, WillAnnounce
  <1>4. i <= created
    <2>1. i \in Nat /\ created \in Nat
      BY <1>1, BoundsAssumption DEF RegIds, TypeOK
    <2> QED
      BY <1>1, <2>1 DEF FreshRows, RowExists, NoRow
  <1> QED
    BY <1>1, <1>2, <1>3, <1>4 DEF NamesCreated, Owed, WillSay

LEMMA CancelSays ==
    ASSUME TypeOK, FreshRows, NEW c \in Slots, CancelTx(c)
    PROVE  NamesCreated(c) /\ \A r \in RegIds : WillSay(c, r)
  <1> DEFINE i == calls[c].req.reg
             queue == {w \in Without(regs[i].user, regs[i].place) :
                          w.place = regs[i].place}
             off == [regs EXCEPT ![i].status = "CANCELLED"]
  <1>1. i \in RegIds /\ RowExists(i)
    BY RowShape DEF CancelTx, At
  <1>2. PICK P \in SUBSET RegIds : CancelEffect(i, P)
    BY CancelRowByRow
  <1>3. /\ regs'[i].place = regs[i].place
        /\ i \notin P /\ created' = created
        /\ \A r \in RegIds \ (P \cup {i}) : regs'[r] = regs[r]
        /\ \A r \in P : /\ regs'[r].status = "CONFIRMED"
                        /\ regs'[r].user = regs[r].user
                        /\ regs'[r].place = regs[i].place
                        /\ regs[r].status = "WAITLISTED"
    BY <1>2 DEF CancelEffect, Restatused, Promoted
  <1>4. \A r \in RegIds \ {i} : off[r] = regs[r]
    BY DEF TypeOK
  <1>5. \E next : GoAnnounce(c, i, "CANCELLED", next)
    BY DEF CancelTx
  <1>6. calls'[c].step = "announce" /\ calls'[c].row = i
    BY <1>5, WillAnnounce
  <1>7. NamesCreated(c)
    <2>1. i \in Nat /\ created \in Nat
      BY <1>1, BoundsAssumption DEF RegIds, TypeOK
    <2>2. i <= created
      BY <1>1, <2>1 DEF FreshRows, RowExists, NoRow
    <2> QED
      BY <1>3, <1>6, <2>2 DEF NamesCreated
  <1>8. \A r \in RegIds \ P : WillSay(c, r)
    BY <1>1, <1>3, <1>6 DEF Owed, WillSay
  <1>9. ASSUME NEW r \in P
        PROVE  WillSay(c, r)
    <2>1. \/ regs' = off
          \/ \E w \in First(queue) :
                /\ regs' = [j \in RegIds |-> IF j \in Promoted(w)
                               THEN [regs[j] EXCEPT !.status = "CONFIRMED"]
                               ELSE off[j]]
                /\ GoAnnounce(c, i, "CANCELLED", w.user)
      BY DEF CancelTx
    <2> HIDE DEF off
    <2>2. regs' # off
      BY <1>3, <1>4
    <2>3. PICK w \in First(queue) :
             /\ regs' = [j \in RegIds |-> IF j \in Promoted(w)
                            THEN [regs[j] EXCEPT !.status = "CONFIRMED"]
                            ELSE off[j]]
             /\ GoAnnounce(c, i, "CANCELLED", w.user)
      BY <2>1, <2>2
    <2>4. r \in Promoted(w)
      BY <1>3, <1>4, <2>3
    <2>5. regs[r].user = w.user
      BY <2>4 DEF Promoted, RowsOf
    <2>6. calls'[c].next = w.user
      BY <2>3, WillAnnounce
    <2>7. w.user \in Users
      BY RowsOfTheWaitlist DEF First, Without
    <2> QED
      BY <1>3, <1>6, <2>5, <2>6, <2>7 DEF WillSay, Owed
  <1> QED
    BY <1>7, <1>8, <1>9

(* Whatever a handler does.                                                *)
LEMMA StepSays ==
    ASSUME TypeOK, FreshRows, NEW c \in Slots, Step(c) \/ Receive(c)
    PROVE  NamesCreated(c) /\ \A r \in RegIds : WillSay(c, r)
  <1>1. CASE \/ CreateWaitlisted(c) \/ CreatePending(c) \/ CreateConfirmed(c)
             \/ Approve(c) \/ Reject(c) \/ CheckInWrites(c) \/ CancelTx(c)
    BY <1>1, CreateSays, BlindSays, CancelSays
  <1>2. ASSUME NEW a, Reply(c, a) PROVE NamesCreated(c)
    BY <1>2, Answered DEF NamesCreated
  <1>3. ASSUME NEW step, Go(c, step) PROVE NamesCreated(c)
    BY <1>3, GoesOn DEF NamesCreated
  <1>4. ASSUME CreateReads(c) PROVE NamesCreated(c)
    <2>1. calls'[c] = [calls[c] EXCEPT !.step = "tx",
                                       !.cap = capacity[calls[c].req.place],
                                       !.approval = form.requiresApproval]
      BY <1>4 DEF CreateReads, TypeOK
    <2> QED
      BY <2>1 DEF NamesCreated, TypeOK, Call
  <1>5. ASSUME Receive(c) PROVE NamesCreated(c)
    <2>1. \A q : Delivered(q).row = 0
      BY DEF Delivered, Idle
    <2> QED
      BY <1>5, <2>1 DEF Receive, TypeOK, NamesCreated
  <1>6. ASSUME EventStep(c) PROVE NamesCreated(c)
    BY <1>2, <1>3, <1>6
       DEF EventStep, UpdateCapacity, UpdateNotFound, CreateSession,
           DeleteReads, DeleteRefused, DeleteWrites, DeleteMissing,
           PublishReads, PublishWrites, CancelEvent, AnnounceCancelledEvent,
           CancelledEventFails, UpsertForm
  <1>7. ASSUME RegistrationStep(c),
               ~ (\/ CreateWaitlisted(c) \/ CreatePending(c)
                  \/ CreateConfirmed(c) \/ Approve(c) \/ Reject(c)
                  \/ CheckInWrites(c) \/ CancelTx(c))
        PROVE  NamesCreated(c)
    BY <1>2, <1>3, <1>4, <1>7
       DEF RegistrationStep, CreateRefused, CreateDuplicate,
           CreateUniqueViolation, CreateForeignKeyViolation, CheckInReads,
           CheckInRefused, RowMissing, TxAborts, Announce, AnnouncePromoted,
           AnnounceFails
  <1>8. ASSUME DeleteWrites(c), NEW r \in RegIds
        PROVE  WillSay(c, r)
    BY <1>8, DeleteRowByRow DEF DeleteEffect, WillSay
  <1>9. ASSUME regs' = regs, NEW r \in RegIds
        PROVE  WillSay(c, r)
    BY <1>9 DEF WillSay
  <1>10. \/ \/ CreateWaitlisted(c) \/ CreatePending(c) \/ CreateConfirmed(c)
            \/ Approve(c) \/ Reject(c) \/ CheckInWrites(c) \/ CancelTx(c)
         \/ DeleteWrites(c) \/ regs' = regs
    BY RowsUntouched DEF Receive
  <1> QED
    BY <1>1, <1>4, <1>5, <1>6, <1>7, <1>8, <1>9, <1>10 DEF Step

(* What another handler still has to announce it announces yet, unless the *)
(* registration was written over.                                          *)
LEMMA OwedStays ==
    ASSUME TypeOK, FreshRows, NamesInv, TruthInv, NEW c \in Slots,
           Step(c) \/ Receive(c), NEW d \in Slots \ {c}, NEW r \in Owed(d),
           RowExists(r), regs'[r] = regs[r],
           told'[r] = told[r] \/ Told(r)'
    PROVE  Spoken(r)'
  <1>1. calls'[d] = calls[d] /\ r \in RegIds
    BY CallsOfOthers DEF Owed
  <1>2. CASE Told(r)'
    BY <1>2 DEF Spoken
  <1>3. CASE calls[d].step = "announce" /\ calls[d].row = r
    BY <1>1, <1>3 DEF Owed, Spoken
  <1>4. ASSUME /\ calls[d].step \in {"announce", "promoted"}
               /\ calls[d].next \in Users
               /\ regs[r].user = calls[d].next
               /\ regs[r].place = regs[calls[d].row].place
               /\ regs[r].status = "CONFIRMED" /\ told[r] # "CONFIRMED",
               told'[r] = told[r]
        PROVE  Spoken(r)'
    <2>1. calls[d].row \in RegIds /\ calls[d].row <= created
      BY <1>4, UsersAssumption DEF NamesInv, NamesWell, TruthInv, TypeOK, Call
    <2>2. \A w : ~(regs[r].place = w /\ DeleteEffect(w))
      BY <1>1 DEF DeleteEffect, RowExists, NoRow
    <2>3. regs'[calls[d].row].place = regs[calls[d].row].place
      BY <1>4, <2>1, <2>2, RowsMove
    <2> QED
      BY <1>1, <1>4, <2>3 DEF Owed, Spoken
  <1> QED
    BY <1>2, <1>3, <1>4 DEF Owed

(* An announcement says what is so, or goes astray.                        *)
LEMMA AnnouncementTells ==
    ASSUME TypeOK, FreshRows, NamesInv, TruthInv, NEW c \in Slots,
           Announce(c) \/ AnnouncePromoted(c) \/ AnnounceFails(c),
           NEW r \in RegIds
    PROVE  /\ UNCHANGED <<regs, created>>
           /\ told'[r] = told[r] \/ (r <= created /\ Told(r)')
           /\ r \in Owed(c) => r \in Owed(c)' \/ Told(r)'
  <1>1. UNCHANGED <<regs, created>>
    BY DEF Announce, AnnouncePromoted, AnnounceFails, rows
  <1>2. r \in Owed(c) => r <= created
    BY OwedExist
  <1>3. CASE Announce(c)
    <2> DEFINE row == calls[c].row
    <2>1. /\ calls[c].step = "announce" /\ row \in RegIds /\ row <= created
          /\ calls[c].says # "PENDING"
      BY <1>3 DEF Announce, TypeOK, Call, Announcements, TruthInv
    <2>2. /\ told'[row] = IF regs[row].status = calls[c].says
                          THEN calls[c].says ELSE "ASTRAY"
          /\ r # row => told'[r] = told[r]
      BY <1>3, <2>1 DEF Announce, TypeOK
    <2>3. CASE r = row
      BY <1>1, <2>1, <2>2, <2>3 DEF Told, WordFor
    <2>4. ASSUME r # row, r \in Owed(c)
          PROVE  r \in Owed(c)'
      <3>1. /\ calls[c].next \in Users /\ regs[r].user = calls[c].next
            /\ regs[r].place = regs[row].place
            /\ regs[r].status = "CONFIRMED" /\ told[r] # "CONFIRMED"
        BY <2>4 DEF Owed
      <3>2. Go(c, "promoted")
        BY <1>3, <3>1, UsersAssumption DEF Announce
      <3>3. /\ calls'[c].step = "promoted" /\ calls'[c].row = row
            /\ calls'[c].next = calls[c].next
        BY <3>2, GoesOn
      <3> QED
        BY <1>1, <2>2, <2>4, <3>1, <3>3 DEF Owed
    <2> QED
      BY <1>1, <2>2, <2>3, <2>4
  <1>4. CASE AnnouncePromoted(c)
    <2> DEFINE found == {s \in RowsOf(calls[c].next, regs[calls[c].row].place) :
                            regs[s].status = "CONFIRMED"}
    <2>1. r \in Owed(c) => r \in found
      BY <1>4 DEF AnnouncePromoted, At, Owed, RowsOf
    <2>2. \/ found = {} /\ told' = told
          \/ \E s \in found : told' = [Lost(Owed(c)) EXCEPT ![s] = "CONFIRMED"]
      BY <1>4 DEF AnnouncePromoted
    <2>3. CASE found = {} /\ told' = told
      BY <1>1, <2>1, <2>3
    <2>4. ASSUME NEW s \in found,
                 told' = [Lost(Owed(c)) EXCEPT ![s] = "CONFIRMED"]
          PROVE  /\ told'[r] = told[r] \/ (r <= created /\ Told(r)')
                 /\ r \in Owed(c) => Told(r)'
      <3>1. told'[r] = IF r = s THEN "CONFIRMED"
                       ELSE IF r \in Owed(c) THEN "ASTRAY" ELSE told[r]
        BY <2>4 DEF Lost
      <3>2. CASE r = s
        <4>1. regs[r].status = "CONFIRMED"
          BY <2>4, <3>2
        <4>2. r <= created
          <5>1. r \in Nat /\ created \in Nat
            BY BoundsAssumption DEF RegIds, TypeOK
          <5> QED
            BY <4>1, <5>1 DEF FreshRows, NoRow
        <4> QED
          BY <1>1, <3>1, <3>2, <4>1, <4>2 DEF Told, WordFor
      <3>3. CASE r # s
        BY <1>2, <3>1, <3>3 DEF Told
      <3> QED
        BY <3>2, <3>3
    <2> QED
      BY <1>1, <2>2, <2>3, <2>4
  <1>5. CASE AnnounceFails(c)
    <2>1. told'[r] = IF r \in Owed(c) THEN "ASTRAY" ELSE told[r]
      BY <1>5 DEF AnnounceFails, Lost
    <2> QED
      BY <1>1, <1>2, <2>1 DEF Told
  <1> QED
    BY <1>3, <1>4, <1>5

(* Every step writes down no more than somebody will say.                  *)
LEMMA StepKeepsTruth ==
    ASSUME TypeOK, FreshRows, NamesInv, TruthInv, NEW c \in Slots,
           Step(c) \/ Receive(c)
    PROVE  TruthInv'
  <1>1. NamesCreated(c) /\ \A r \in RegIds : WillSay(c, r)
    BY StepSays
  <1>2. created \in Nat /\ created' \in Nat /\ created <= created'
    BY RowsMove
  <1>3. \A d \in Slots \ {c} : calls'[d] = calls[d]
    BY CallsOfOthers
  <1>4. ASSUME NEW d \in Slots
        PROVE  calls'[d].row <= created'
    <2>1. calls[d].row \in Nat /\ calls[d].row <= created
      BY BoundsAssumption DEF TypeOK, Call, RegIds, TruthInv
    <2>2. CASE d # c
      BY <1>2, <1>3, <2>1, <2>2
    <2>3. CASE d = c
      BY <1>1, <1>2, <2>1, <2>3 DEF NamesCreated
    <2> QED
      BY <2>2, <2>3
  <1>5. CASE Announce(c) \/ AnnouncePromoted(c) \/ AnnounceFails(c)
    <2>1. UNCHANGED <<regs, created>>
      BY <1>5 DEF Announce, AnnouncePromoted, AnnounceFails, rows
    <2>2. ASSUME NEW r \in RegIds, r > created
          PROVE  told'[r] = "NONE"
      <3>1. r \in Nat
        BY BoundsAssumption DEF RegIds
      <3>2. told[r] = "NONE"
        BY <2>2 DEF TruthInv
      <3>3. ~(r <= created)
        BY <1>2, <2>2, <3>1
      <3>4. told'[r] = told[r] \/ r <= created
        BY <1>5, AnnouncementTells
      <3> QED
        BY <3>2, <3>3, <3>4
    <2>3. ASSUME NEW r \in RegIds, RowExists(r)
          PROVE  Spoken(r)'
      <3>1. /\ told'[r] = told[r] \/ Told(r)'
            /\ r \in Owed(c) => r \in Owed(c)' \/ Told(r)'
        BY <1>5, AnnouncementTells
      <3>2. CASE Told(r)
        BY <2>1, <3>1, <3>2 DEF Told, Spoken
      <3>3. CASE r \in Owed(c)
        BY <3>1, <3>3 DEF Spoken
      <3>4. ASSUME NEW d \in Slots \ {c}, r \in Owed(d)
            PROVE  Spoken(r)'
        BY <2>1, <2>3, <3>1, <3>4, OwedStays
      <3> QED
        BY <2>3, <3>2, <3>3, <3>4 DEF TruthInv, Spoken
    <2> QED
      BY <1>4, <2>1, <2>2, <2>3 DEF TruthInv, RowExists
  <1>6. CASE ~Announce(c) /\ ~AnnouncePromoted(c) /\ ~AnnounceFails(c)
    <2>1. told' = told
      BY <1>6, ToldUntouched DEF Receive, history
    <2>2. Owed(c) = {}
      BY <1>6, SaysNext
    <2>3. ASSUME NEW r \in RegIds, r > created'
          PROVE  told'[r] = "NONE"
      <3>1. r \in Nat
        BY BoundsAssumption DEF RegIds
      <3> QED
        BY <1>2, <2>1, <2>3, <3>1 DEF TruthInv
    <2>4. ASSUME NEW r \in RegIds, RowExists(r)'
          PROVE  Spoken(r)'
      <3>1. CASE regs'[r] = regs[r]
        <4>1. RowExists(r)
          BY <2>4, <3>1 DEF RowExists
        <4>2. CASE Told(r)
          BY <2>1, <3>1, <4>2 DEF Told, Spoken
        <4>3. ASSUME NEW d \in Slots \ {c}, r \in Owed(d)
              PROVE  Spoken(r)'
          BY <2>1, <3>1, <4>1, <4>3, OwedStays
        <4> QED
          BY <2>2, <4>1, <4>2, <4>3 DEF TruthInv, Spoken
      <3>2. CASE regs'[r] = NoRow
        BY <2>4, <3>2 DEF RowExists, NoRow
      <3>3. CASE r \in Owed(c)'
        BY <3>3 DEF Spoken
      <3>4. CASE r = created + 1 /\ regs'[r].status = "PENDING"
        <4>1. r > created
          BY <1>2, <3>4
        <4>2. told'[r] = "NONE"
          BY <2>1, <4>1 DEF TruthInv
        <4> QED
          BY <3>4, <4>2 DEF Spoken, Told, WordFor
      <3>5. CASE regs'[r].status = "CONFIRMED" /\ told'[r] = "CONFIRMED"
        BY <3>5 DEF Spoken, Told, WordFor
      <3> QED
        BY <1>1, <3>1, <3>2, <3>3, <3>4, <3>5 DEF WillSay
    <2> QED
      BY <1>4, <2>3, <2>4 DEF TruthInv
  <1> QED
    BY <1>5, <1>6

(* A crash leaves its mark on whatever was still to be announced.          *)
LEMMA CrashKeepsTruth ==
    ASSUME TypeOK, FreshRows, TruthInv, Crash
    PROVE  TruthInv'
  <1>1. \A q : Delivered(q).row = 0
    BY DEF Delivered, Idle
  <1>2. /\ UNCHANGED <<regs, created>>
        /\ told' = Lost(UNION {Owed(c) : c \in Slots})
    BY DEF Crash
  <1>3. created \in Nat
    BY DEF TypeOK
  <1>4. \A c \in Slots : calls'[c].row <= created'
    BY <1>1, <1>2, <1>3 DEF Crash, TruthInv
  <1>5. \A r \in RegIds : told'[r] = IF \E c \in Slots : r \in Owed(c)
                                     THEN "ASTRAY" ELSE told[r]
    BY <1>2 DEF Lost
  <1>6. ASSUME NEW r \in RegIds, r > created
        PROVE  told'[r] = "NONE"
    <2>1. r \in Nat
      BY BoundsAssumption DEF RegIds
    <2>2. \A c \in Slots : r \notin Owed(c)
      BY <1>3, <1>6, <2>1, OwedExist
    <2> QED
      BY <1>5, <1>6, <2>2 DEF TruthInv
  <1>7. ASSUME NEW r \in RegIds, RowExists(r)
        PROVE  Spoken(r)'
    <2>1. Told(r)'
      BY <1>2, <1>5, <1>7 DEF TruthInv, Spoken, Told
    <2> QED
      BY <2>1 DEF Spoken
  <1> QED
    BY <1>2, <1>4, <1>6, <1>7 DEF TruthInv, RowExists

LEMMA AnnouncementsStayTrue == Spec => []TruthInv
  <1>1. Init => TruthInv
    BY BoundsAssumption DEF Init, TruthInv, Idle, NoRow, RowExists
  <1>2. TypeOK /\ LedgerInv /\ NamesInv /\ TruthInv /\ [Next]_vars => TruthInv'
    <2>1. ASSUME TypeOK, FreshRows, NamesInv, TruthInv, UNCHANGED vars
          PROVE  TruthInv'
      BY <2>1 DEF vars, history, TruthInv, Spoken, Told, Owed, RowExists
    <2> QED
      BY <2>1, StepKeepsTruth, CrashKeepsTruth DEF Next, Step, LedgerInv
  <1> QED
    BY <1>1, <1>2, TypeCorrect, LedgerBooks, CallsNameWell, PTL DEF Spec

(* ToldTheTruth: when all is done, the last announcement about every       *)
(* registration is what its row says, whatever handlers wrote it in turn   *)
(* and whatever died: but for those whose announcement was lost after the  *)
(* commit, or overtaken by another write.                                  *)
THEOREM AnnouncementsAreTrue == Spec => []ToldTheTruth
  <1>1. TruthInv => ToldTheTruth
    BY DEF TruthInv, ToldTheTruth, Quiet, Spoken, Told, Owed
  <1> QED
    BY <1>1, AnnouncementsStayTrue, PTL

-----------------------------------------------------------------------------
(***************************************************************************)
(* No seat is idle while somebody waits, if nobody approves, rejects or    *)
(* changes a capacity: the queue then holds only people who still wait,    *)
(* so that a cancellation that finds a queue passes its seat on.           *)
(***************************************************************************)
QueueWaits == \A w \in waitlist : regs[w.id].status = "WAITLISTED"

(* What checkIn and create go on to write with.                            *)
TicketRead(c) == At(c, "checkIn", "write") =>
    /\ calls[c].req.reg <= created
    /\ regs[calls[c].req.reg].status # "WAITLISTED"
CapacityRead(c) == At(c, "create", "tx") =>
    calls[c].cap = capacity[calls[c].req.place]
AsBooked == \A c \in Slots : TicketRead(c) /\ CapacityRead(c)

IdleInv == QueueWaits /\ AsBooked /\ NoIdleSeat

OnlyAttendance == \A q \in Requests : q.op \notin {"update", "approve", "reject"}

LEMMA NoDesk ==
    ASSUME TypeOK, OnlyAttendance, NEW c \in Slots
    PROVE  ~UpdateCapacity(c) /\ ~Approve(c) /\ ~Reject(c)
  <1>1. calls[c].req \in Requests \cup {NoRequest}
    BY DEF TypeOK, Call
  <1> QED
    BY <1>1 DEF OnlyAttendance, UpdateCapacity, Approve, Reject, BlindWrite,
                At, NoRequest

(* A workshop stays full if no seat of it is given up but for another.     *)
LEMMA StaysFull ==
    ASSUME NEW S \in SUBSET RegIds, NEW T \in SUBSET RegIds, NEW r,
           \/ S \subseteq T
           \/ \E x \in T \ S : S \ {r} \subseteq T
    PROVE  /\ Cardinality(S) \in Nat /\ Cardinality(T) \in Nat
           /\ Cardinality(S) <= Cardinality(T)
  <1>1. /\ IsFiniteSet(S) /\ Cardinality(S) \in Nat
        /\ IsFiniteSet(T) /\ Cardinality(T) \in Nat
    BY RegIdsFinite, FS_Subset, FS_CardinalityType
  <1>2. CASE S \subseteq T
    BY <1>1, <1>2, FS_Subset
  <1>3. ASSUME NEW x \in T \ S, S \ {r} \subseteq T
        PROVE  Cardinality(S) <= Cardinality(T)
    <2>1. /\ IsFiniteSet(T \ {x})
          /\ Cardinality(T \ {x}) = Cardinality(T) - 1
      BY <1>1, FS_RemoveElement
    <2>2. S \ {r} \subseteq T \ {x}
      BY <1>3
    <2>3. Cardinality(S \ {r}) <= Cardinality(T \ {x})
      BY <2>1, <2>2, FS_Subset
    <2>4. CASE r \in S
      <3>1. Cardinality(S \ {r}) = Cardinality(S) - 1
        BY <1>1, <2>4, FS_RemoveElement
      <3> QED
        BY <1>1, <2>1, <2>3, <3>1
    <2>5. CASE r \notin S
      <3>1. S \ {r} = S
        BY <2>5
      <3> QED
        BY <1>1, <2>1, <2>3, <3>1
    <2> QED
      BY <2>4, <2>5
  <1> QED
    BY <1>1, <1>2, <1>3

(* The seats of a workshop after a step, and who still waits there.        *)
KeepsSeats(w) ==
    /\ \/ SeatsTaken(w) \subseteq SeatsTaken(w)'
       \/ \E r, x \in RegIds : /\ x \in SeatsTaken(w)' \ SeatsTaken(w)
                               /\ SeatsTaken(w) \ {r} \subseteq SeatsTaken(w)'
    /\ \A i \in RegIds : regs'[i].place = w /\ regs'[i].status = "WAITLISTED"
          => \E j \in RegIds : regs[j].place = w /\ regs[j].status = "WAITLISTED"

LEMMA FullSeats ==
    ASSUME TypeOK, NoIdleSeat, NEW w \in Workshops, KeepsSeats(w),
           capacity'[w] = capacity[w],
           NEW i \in RegIds, regs'[i].place = w, regs'[i].status = "WAITLISTED"
    PROVE  Full(w, capacity[w])'
  <1>1. capacity[w] > 0 /\ Cardinality(SeatsTaken(w)) >= capacity[w]
    BY DEF KeepsSeats, NoIdleSeat, Full
  <1>2. SeatsTaken(w) \in SUBSET RegIds /\ SeatsTaken(w)' \in SUBSET RegIds
    BY DEF SeatsTaken
  <1>3. PICK S \in SUBSET RegIds, T \in SUBSET RegIds :
           S = SeatsTaken(w) /\ T = SeatsTaken(w)'
    BY <1>2
  <1>4. Cardinality(S) <= Cardinality(T) /\ Cardinality(S) \in Nat
          /\ Cardinality(T) \in Nat
    <2>1. \/ S \subseteq T
          \/ \E r, x \in RegIds : x \in T \ S /\ S \ {r} \subseteq T
      BY <1>3 DEF KeepsSeats
    <2> QED
      BY <2>1, StaysFull
  <1>5. Cardinality(SeatsTaken(w)) = Cardinality(S)
        /\ Cardinality(SeatsTaken(w))' = Cardinality(T)
    BY <1>3
  <1>6. capacity[w] \in Nat
    BY DEF TypeOK, Places
  <1>7. Cardinality(T) >= capacity'[w] /\ capacity'[w] > 0
    BY <1>1, <1>4, <1>5, <1>6
  <1> QED
    BY <1>5, <1>7 DEF Full

(* A new registration takes no seat away; one that waits found none.       *)
LEMMA InsertKeepsSeats ==
    ASSUME TypeOK, FreshRows, IdleInv, NEW c \in Slots,
           CreateWaitlisted(c) \/ CreatePending(c) \/ CreateConfirmed(c),
           NEW w \in Workshops
    PROVE  \/ KeepsSeats(w)
           \/ Full(w, capacity[w]) /\ SeatsTaken(w)' = SeatsTaken(w)
  <1> DEFINE u == calls[c].req.user
             p == calls[c].req.place
  <1>1. At(c, "create", "tx") /\ created + 1 \in RegIds
    BY NextId DEF CreateWaitlisted, CreatePending, CreateConfirmed, CanInsert
  <1>2. PICK s \in {"WAITLISTED", "PENDING", "CONFIRMED"} :
           /\ Insert(u, p, s)
           /\ s = "WAITLISTED" => Full(p, calls[c].cap)
    BY DEF CreateWaitlisted, CreatePending, CreateConfirmed
  <1>3. /\ regs'[created + 1].place = p /\ regs'[created + 1].status = s
        /\ \A i \in RegIds \ {created + 1} : regs'[i] = regs[i]
    BY <1>1, <1>2 DEF Insert, TypeOK
  <1>4. regs[created + 1] = NoRow
    BY <1>1 DEF FreshRows, TypeOK
  <1>5. SeatsTaken(w) \subseteq SeatsTaken(w)'
    BY <1>3, <1>4, PlacesAssumption DEF SeatsTaken, SEAT_TAKING, NoRow, Places
  <1>6. CASE s = "WAITLISTED" /\ p = w
    <2>1. SeatsTaken(w)' = SeatsTaken(w)
      BY <1>1, <1>3, <1>4, <1>6 DEF SeatsTaken, SEAT_TAKING, NoRow
    <2>2. calls[c].cap = capacity[w]
      BY <1>1, <1>6 DEF IdleInv, AsBooked, CapacityRead
    <2> QED
      BY <1>2, <1>6, <2>1, <2>2
  <1>7. CASE s # "WAITLISTED" \/ p # w
    BY <1>1, <1>3, <1>5, <1>7 DEF KeepsSeats
  <1> QED
    BY <1>6, <1>7

(* A cancellation that frees a seat somebody waits for passes it on.       *)
LEMMA CancelKeepsSeats ==
    ASSUME TypeOK, WaitlistInv, OneRowPerWorkshop, WorkshopWaitersQueue,
           IdleInv, NEW r, NEW P \in SUBSET RegIds, CancelEffect(r, P),
           NEW w \in Workshops,
           NEW i \in RegIds, regs'[i].place = w, regs'[i].status = "WAITLISTED"
    PROVE  KeepsSeats(w)
  <1> DEFINE queue == {v \in Without(regs[r].user, regs[r].place) :
                          v.place = regs[r].place}
  <1>1. /\ r \in RegIds /\ r \notin P
        /\ regs'[r].status = "CANCELLED" /\ regs'[r].place = regs[r].place
        /\ \A j \in P : /\ regs'[j].status = "CONFIRMED"
                        /\ regs'[j].place = regs[r].place
                        /\ regs[j].place = regs[r].place
        /\ \A j \in RegIds \ (P \cup {r}) : regs'[j] = regs[j]
    BY DEF CancelEffect, Restatused
  <1>2. \A j \in RegIds : regs'[j].place = w /\ regs'[j].status = "WAITLISTED"
           => regs[j].place = w /\ regs[j].status = "WAITLISTED"
    BY <1>1
  <1>3. CASE regs[r].place # w
    <2>1. SeatsTaken(w) \subseteq SeatsTaken(w)'
      BY <1>1, <1>3 DEF SeatsTaken
    <2> QED
      BY <1>2, <2>1 DEF KeepsSeats
  <1>4. CASE regs[r].place = w
    <2>1. i # r /\ i \notin P /\ regs'[i] = regs[i]
      BY <1>1
    <2>2. PICK v \in waitlist : v.id = i
      BY <2>1 DEF WorkshopWaitersQueue
    <2>3. v.user = regs[i].user /\ v.place = regs[i].place
      BY <2>2 DEF WaitlistInv, WaitlistBacked
    <2>4. ~(v.user = regs[r].user /\ v.place = regs[r].place)
      BY <1>1, <1>4, <2>1, <2>3 DEF OneRowPerWorkshop
    <2>5. v \in queue
      BY <1>4, <2>1, <2>3, <2>4 DEF Without
    <2>6. PICK first \in queue : P = Promoted(first)
      BY <2>5 DEF CancelEffect
    <2>7. first \in waitlist /\ first.id \in RegIds
      BY DEF Without, TypeOK, WaitlistRow
    <2>8. first.id \in P /\ regs[first.id].status = "WAITLISTED"
      BY <2>6, <2>7
         DEF WaitlistInv, WaitlistBacked, IdleInv, QueueWaits, Promoted, RowsOf
    <2>9. first.id \in SeatsTaken(w)' \ SeatsTaken(w)
      BY <1>1, <1>4, <2>7, <2>8 DEF SeatsTaken, SEAT_TAKING
    <2>10. SeatsTaken(w) \ {r} \subseteq SeatsTaken(w)'
      BY <1>1, <1>4 DEF SeatsTaken, SEAT_TAKING
    <2> QED
      BY <1>1, <1>2, <2>7, <2>9, <2>10 DEF KeepsSeats
  <1> QED
    BY <1>3, <1>4

(* No step leaves a seat idle.                                             *)
LEMMA NoSeatIdles ==
    ASSUME TypeOK, CapacityInv, LedgerInv, WaitlistInv, OneRowPerWorkshop,
           WorkshopWaitersQueue, IdleInv, OnlyAttendance, NEW c \in Slots, Step(c)
    PROVE  NoIdleSeat'
  <1> SUFFICES ASSUME NEW w \in Workshops, NEW i \in RegIds,
                      regs'[i].place = w, regs'[i].status = "WAITLISTED"
               PROVE  Full(w, capacity[w])'
    BY DEF NoIdleSeat
  <1>1. CASE CreateSession(c)
    <2>1. /\ regs' = regs /\ session[calls[c].req.place] = "unborn"
          /\ capacity' = [capacity EXCEPT ![calls[c].req.place] = calls[c].req.capacity]
      BY <1>1 DEF CreateSession
    <2>2. w # calls[c].req.place
      BY <2>1 DEF CapacityInv, PlacesBorn
    <2>3. capacity'[w] = capacity[w]
      BY <2>1, <2>2 DEF TypeOK, Places
    <2>4. KeepsSeats(w)
      BY <2>1 DEF KeepsSeats, SeatsTaken
    <2> QED
      BY <2>3, <2>4, FullSeats DEF IdleInv
  <1>2. CASE ~CreateSession(c)
    <2>1. capacity' = capacity
      BY <1>2, NoDesk, PlacesUntouched DEF DeleteWrites
    <2>2. CASE KeepsSeats(w)
      BY <2>1, <2>2, FullSeats DEF IdleInv
    <2>3. CASE Full(w, capacity[w]) /\ SeatsTaken(w)' = SeatsTaken(w)
      BY <2>1, <2>3 DEF Full
    <2>4. CASE CreateWaitlisted(c) \/ CreatePending(c) \/ CreateConfirmed(c)
      BY <2>2, <2>3, <2>4, InsertKeepsSeats DEF LedgerInv
    <2>5. CASE CheckInWrites(c)
      <3> DEFINE r == calls[c].req.reg
      <3>1. /\ r \in RegIds /\ RowExists(r)
            /\ regs' = [regs EXCEPT ![r].status = "CHECKED_IN"]
        BY <2>5, RowShape DEF CheckInWrites, BlindWrite, SetStatus, At
      <3>2. regs[r] \in Registration
        BY <3>1 DEF TypeOK, RowExists, NoRow
      <3>3. /\ regs'[r].status = "CHECKED_IN" /\ regs'[r].place = regs[r].place
            /\ \A j \in RegIds \ {r} : regs'[j] = regs[j]
        BY <3>1, <3>2 DEF TypeOK, Registration
      <3>4. KeepsSeats(w)
        BY <3>3 DEF KeepsSeats, SeatsTaken, SEAT_TAKING
      <3> QED
        BY <2>2, <3>4
    <2>6. CASE CancelTx(c)
      BY <2>2, <2>6, CancelRowByRow, CancelKeepsSeats
    <2>7. CASE DeleteWrites(c)
      <3>1. PICK v : DeleteEffect(v)
        BY <2>7, DeleteRowByRow
      <3>2. v # w
        BY <3>1, PlacesAssumption DEF DeleteEffect, NoRow, Places
      <3>3. KeepsSeats(w)
        BY <3>1, <3>2, PlacesAssumption
           DEF DeleteEffect, KeepsSeats, SeatsTaken, NoRow, Places
      <3> QED
        BY <2>2, <3>3
    <2>8. CASE UNCHANGED regs
      <3>1. KeepsSeats(w)
        BY <2>8 DEF KeepsSeats, SeatsTaken
      <3> QED
        BY <2>2, <3>1
    <2> QED
      BY <2>4, <2>5, <2>6, <2>7, <2>8, NoDesk, RowsUntouched
  <1> QED
    BY <1>1, <1>2

(* The queue holds only people who still wait.                             *)
LEMMA QueueStillWaits ==
    ASSUME TypeOK, FreshRows, WaitlistInv, IdleInv, OnlyAttendance,
           NEW c \in Slots, Step(c)
    PROVE  QueueWaits'
  <1>1. CASE CreateWaitlisted(c) \/ CreatePending(c) \/ CreateConfirmed(c)
    <2>1. PICK u, p, s : InsertEffect(u, p, s)
      BY <1>1, InsertRowByRow
    <2> SUFFICES ASSUME NEW w \in waitlist' PROVE regs'[w.id].status = "WAITLISTED"
      BY DEF QueueWaits
    <2>2. CASE w \in waitlist
      <3>1. w.id \in RegIds /\ w.id # created + 1
        BY <2>2 DEF WaitlistInv, IdsCreated, TypeOK, WaitlistRow, RegIds
      <3> QED
        BY <2>1, <2>2, <3>1 DEF InsertEffect, IdleInv, QueueWaits
    <2>3. CASE w \notin waitlist
      <3>1. w.id = created + 1 /\ s = "WAITLISTED"
        BY <2>1, <2>3 DEF InsertEffect
      <3>2. regs'[created + 1] = [user |-> u, place |-> p, status |-> s]
        BY <2>1 DEF InsertEffect
      <3> QED
        BY <3>1, <3>2
    <2> QED
      BY <2>2, <2>3
  <1>2. CASE CheckInWrites(c)
    <2> DEFINE r == calls[c].req.reg
    <2>1. waitlist' = waitlist /\ \A i \in RegIds \ {r} : regs'[i] = regs[i]
      BY <1>2, BlindRowByRow DEF BlindEffect
    <2>2. regs[r].status # "WAITLISTED"
      BY <1>2 DEF CheckInWrites, BlindWrite, IdleInv, AsBooked, TicketRead
    <2> QED
      BY <2>1, <2>2 DEF IdleInv, QueueWaits, TypeOK, WaitlistRow
  <1>3. CASE CancelTx(c)
    <2>1. PICK r \in RegIds, P \in SUBSET RegIds : CancelEffect(r, P)
      BY <1>3, CancelRowByRow DEF CancelEffect
    <2> SUFFICES ASSUME NEW v \in waitlist' PROVE regs'[v.id].status = "WAITLISTED"
      BY DEF QueueWaits
    <2>2. v \in waitlist /\ ~(v.user = regs[r].user /\ v.place = regs[r].place)
      BY <2>1 DEF CancelEffect, Without
    <2>3. /\ v.id \in RegIds /\ regs[v.id].status = "WAITLISTED"
          /\ regs[v.id].user = v.user /\ regs[v.id].place = v.place
      BY <2>2 DEF WaitlistInv, WaitlistBacked, IdleInv, QueueWaits, TypeOK,
                  WaitlistRow
    <2>4. v.id # r
      BY <2>2, <2>3
    <2>5. v.id \notin P
      <3> SUFFICES ASSUME v.id \in P PROVE FALSE
        OBVIOUS
      <3>1. PICK w \in waitlist : P = Promoted(w) /\ v # w
        BY <2>1 DEF CancelEffect, Without
      <3>2. v.user = w.user /\ v.place = w.place
        BY <2>3, <3>1 DEF Promoted, RowsOf
      <3> QED
        BY <2>2, <3>1, <3>2 DEF WaitlistInv, WaitlistBacked
    <2> QED
      BY <2>1, <2>3, <2>4, <2>5 DEF CancelEffect
  <1>4. CASE DeleteWrites(c)
    <2>1. PICK p : DeleteEffect(p)
      BY <1>4, DeleteRowByRow
    <2> SUFFICES ASSUME NEW v \in waitlist' PROVE regs'[v.id].status = "WAITLISTED"
      BY DEF QueueWaits
    <2>2. v \in waitlist /\ v.place # p
      BY <2>1 DEF DeleteEffect, Cascaded, QueueAt
    <2>3. /\ v.id \in RegIds /\ regs[v.id].status = "WAITLISTED"
          /\ regs[v.id].place = v.place
      BY <2>2 DEF WaitlistInv, WaitlistBacked, IdleInv, QueueWaits, TypeOK,
                  WaitlistRow
    <2> QED
      BY <2>1, <2>2, <2>3 DEF DeleteEffect
  <1>5. CASE UNCHANGED <<regs, waitlist>>
    BY <1>5 DEF IdleInv, QueueWaits
  <1> QED
    BY <1>1, <1>2, <1>3, <1>4, <1>5, NoDesk, RowsUntouched

(* What a handler read stays as far true as it needs.                      *)
LEMMA StillAsBooked ==
    ASSUME TypeOK, FreshRows, CapacityInv, AsBooked, OnlyAttendance,
           NEW c \in Slots, Step(c)
    PROVE  AsBooked'
  <1>1. ASSUME NEW r \in RegIds, r <= created, regs[r].status # "WAITLISTED"
        PROVE  r <= created' /\ regs'[r].status # "WAITLISTED"
    <2>1. ASSUME NEW u, NEW p, NEW s, InsertEffect(u, p, s)
          PROVE  r <= created' /\ regs'[r].status # "WAITLISTED"
      <3>1. r # created + 1 /\ r <= created + 1
        BY <1>1 DEF TypeOK, RegIds
      <3> QED
        BY <1>1, <2>1, <3>1 DEF InsertEffect
    <2>2. ASSUME NEW i, NEW s \in {"CONFIRMED", "REJECTED", "CHECKED_IN"},
                 BlindEffect(i, s)
          PROVE  r <= created' /\ regs'[r].status # "WAITLISTED"
      BY <1>1, <2>2 DEF BlindEffect, Restatused
    <2>3. ASSUME NEW i, NEW P, CancelEffect(i, P)
          PROVE  r <= created' /\ regs'[r].status # "WAITLISTED"
      BY <1>1, <2>3 DEF CancelEffect, Restatused
    <2>4. ASSUME NEW w, DeleteEffect(w)
          PROVE  r <= created' /\ regs'[r].status # "WAITLISTED"
      BY <1>1, <2>4 DEF DeleteEffect, NoRow
    <2> QED
      BY <1>1, <2>1, <2>2, <2>3, <2>4, StepEffects
  <1>2. ASSUME NEW d \in Slots \ {c}
        PROVE  TicketRead(d)' /\ CapacityRead(d)'
    <2>1. calls'[d] = calls[d]
      BY <1>2, CallsOfOthers
    <2>2. TicketRead(d)'
      BY <1>1, <2>1, RowShape DEF AsBooked, TicketRead, At
    <2>3. CapacityRead(d)'
      <3> SUFFICES ASSUME At(d, "create", "tx")
                   PROVE  calls[d].cap = capacity'[calls[d].req.place]
        BY <2>1 DEF CapacityRead, At
      <3>1. calls[d].req.place \in Places
        BY CreateShape DEF At
      <3>2. calls[d].cap = capacity[calls[d].req.place]
        BY DEF AsBooked, CapacityRead
      <3>3. CASE CreateSession(c)
        <4>1. /\ session[calls[c].req.place] = "unborn"
              /\ calls[c].req.place \in Workshops
              /\ capacity' = [capacity EXCEPT ![calls[c].req.place] = calls[c].req.capacity]
          BY <3>3, RequestShapes DEF CreateSession, At
        <4>2. calls[d].req.place # calls[c].req.place
          BY <4>1 DEF CapacityInv, SnapshotBelowPeak
        <4> QED
          BY <3>1, <3>2, <4>1, <4>2 DEF TypeOK
      <3>4. CASE ~CreateSession(c)
        <4>1. capacity' = capacity
          BY <3>4, NoDesk, PlacesUntouched DEF DeleteWrites
        <4> QED
          BY <3>2, <4>1
      <3> QED
        BY <3>3, <3>4
    <2> QED
      BY <2>2, <2>3
  <1>3. TicketRead(c)'
    <2> SUFFICES ASSUME At(c, "checkIn", "write")' PROVE TicketRead(c)'
      BY DEF TicketRead
    <2>1. CheckInReads(c) \/ DeleteReads(c) \/ PublishReads(c) \/ CreateReads(c)
      BY ReadsFirst DEF At
    <2>2. calls'[c].step = "write"
      BY DEF At
    <2>3. CASE DeleteReads(c) \/ PublishReads(c)
      BY <2>2, <2>3, GoesOn, Answered DEF DeleteReads, PublishReads, At
    <2>4. CASE CreateReads(c)
      <3>1. calls'[c] = [calls[c] EXCEPT !.step = "tx",
                                       !.cap = capacity[calls[c].req.place],
                                       !.approval = form.requiresApproval]
        BY <2>4 DEF CreateReads, TypeOK
      <3>2. calls'[c].step = "tx"
        BY <3>1 DEF TypeOK, Call
      <3> QED
        BY <2>2, <3>2
    <2>5. CASE CheckInReads(c)
      <3>1. regs' = regs /\ created' = created /\ calls'[c].req = calls[c].req
        BY <2>5, GoesOn DEF CheckInReads, rows
      <3>2. regs[calls[c].req.reg].status = "CONFIRMED" /\ calls[c].req.reg \in RegIds
        BY <2>5, RowShape DEF CheckInReads, At
      <3>3. ~(calls[c].req.reg > created)
        BY <3>2 DEF FreshRows, NoRow
      <3>4. calls[c].req.reg <= created
        BY <3>2, <3>3 DEF TypeOK, RegIds
      <3> QED
        BY <3>1, <3>2, <3>4 DEF TicketRead
    <2> QED
      BY <2>1, <2>3, <2>4, <2>5
  <1>4. CapacityRead(c)'
    <2> SUFFICES ASSUME At(c, "create", "tx")'
                 PROVE  calls'[c].cap = capacity'[calls'[c].req.place]
      BY DEF CapacityRead
    <2>1. CreateReads(c)
      BY CallsOfOthers DEF At
    <2>2. /\ capacity' = capacity
          /\ calls'[c] = [calls[c] EXCEPT !.step = "tx",
                                          !.cap = capacity[calls[c].req.place],
                                          !.approval = form.requiresApproval]
      BY <2>1 DEF CreateReads, tables, TypeOK
    <2>3. calls[c] \in Call
      BY DEF TypeOK
    <2>4. /\ calls'[c].cap = capacity[calls[c].req.place]
          /\ calls'[c].req = calls[c].req
      BY <2>2, <2>3 DEF Call
    <2> QED
      BY <2>2, <2>4
  <1> QED
    BY <1>2, <1>3, <1>4 DEF AsBooked

(* If nobody approves, rejects or changes a capacity, a workshop with free *)
(* seats has nobody waiting for it: whatever is cancelled, checked in or   *)
(* deleted, in whatever order, with crashes and retries.                   *)
THEOREM SeatsAreNotIdle ==
    ASSUME OnlyAttendance
    PROVE  Spec => []NoIdleSeat
  <1>1. Init => IdleInv
    BY DEF Init, IdleInv, QueueWaits, AsBooked, TicketRead, CapacityRead, At,
           Idle, NoIdleSeat, NoRow
  <1>2. TypeOK /\ CapacityInv /\ LedgerInv /\ WaitlistInv /\ OneRowPerWorkshop
          /\ WorkshopWaitersQueue /\ IdleInv /\ [Next]_vars => IdleInv'
    <2> SUFFICES ASSUME TypeOK, CapacityInv, LedgerInv, WaitlistInv,
                        OneRowPerWorkshop, WorkshopWaitersQueue, IdleInv,
                        [Next]_vars
                 PROVE  IdleInv'
      OBVIOUS
    <2>1. ASSUME NEW c \in Slots, Step(c)
          PROVE  IdleInv'
      <3>1. NoIdleSeat'
        BY <2>1, NoSeatIdles
      <3>2. QueueWaits'
        BY <2>1, QueueStillWaits DEF LedgerInv
      <3>3. AsBooked'
        BY <2>1, StillAsBooked DEF LedgerInv, IdleInv
      <3> QED
        BY <3>1, <3>2, <3>3 DEF IdleInv
    <2>2. ASSUME UNCHANGED <<regs, waitlist, created, capacity>>,
                 \A c \in Slots : \/ calls'[c] = calls[c]
                                  \/ calls'[c].step = "start"
          PROVE  IdleInv'
      <3>1. QueueWaits' /\ NoIdleSeat'
        BY <2>2 DEF IdleInv, QueueWaits, NoIdleSeat, Full, SeatsTaken
      <3>2. AsBooked'
        BY <2>2 DEF IdleInv, AsBooked, TicketRead, CapacityRead, At
      <3> QED
        BY <3>1, <3>2 DEF IdleInv
    <2>3. \A q : Delivered(q).step = "start"
      BY DEF Delivered, Idle
    <2>4. ASSUME NEW c \in Slots, Receive(c)
          PROVE  IdleInv'
      BY <2>2, <2>3, <2>4 DEF Receive, TypeOK
    <2>5. CASE Crash
      BY <2>2, <2>3, <2>5 DEF Crash
    <2>6. CASE UNCHANGED vars
      BY <2>2, <2>6 DEF vars
    <2> QED
      BY <2>1, <2>4, <2>5, <2>6 DEF Next, Step
  <1>3. IdleInv => NoIdleSeat
    BY DEF IdleInv
  <1>4. WaitlistBacked /\ IdsCreated => WaitlistInv
    BY DEF WaitlistInv
  <1> QED
    BY <1>1, <1>2, <1>3, <1>4, TypeCorrect, CapacityRemembered, LedgerBooks,
       WaitlistIsBacked, OneRowEachWorkshop, WaitersKeepTheirPlace,
       PTL DEF Spec

=============================================================================
