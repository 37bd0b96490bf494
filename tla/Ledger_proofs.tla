---------------------------- MODULE Ledger_proofs ----------------------------
(***************************************************************************)
(* The events service implements the ledger of seats at each of its        *)
(* places: every step of a handler, seen from one place, is one step of    *)
(* the ledger or none.                                                     *)
(***************************************************************************)
EXTENDS Admission_proofs

(* The ledger of a place, in terms of the registrations.                   *)
Seated(p)  == SeatsTaken(p) \ uncounted
Extra(p)   == SeatsTaken(p) \cap uncounted
Waiting(p) == {r \in RegIds : regs[r].place = p /\ regs[r].status = "WAITLISTED"}

Same(p) == /\ Seated(p)' = Seated(p) /\ Extra(p)' = Extra(p)
           /\ Waiting(p)' = Waiting(p)

LedgerStep(p) == [Ledger(p)!Next]_(Ledger(p)!ledger)

-----------------------------------------------------------------------------
(* What the ledger's steps ask of the registrations of its place.          *)

LEMMA CardinalityIs ==
    ASSUME NEW p, NEW S
    PROVE  Ledger(p)!Cardinality(S) = Cardinality(S)
  BY ZenonT(20) DEF Ledger!Cardinality, Cardinality, Ledger!IsFiniteSet, IsFiniteSet

LEMMA StutterIs ==
    ASSUME NEW p \in Places, Same(p), peak'[p] = peak[p]
    PROVE  LedgerStep(p)
  BY DEF LedgerStep, Ledger!ledger, Same, Seated, Extra, Waiting

LEMMA AdmitIs ==
    ASSUME NEW p \in Places, NEW r \in RegIds,
           r \notin SeatsTaken(p), r \notin Waiting(p),
           peak[p] # 0 => Cardinality(SeatsTaken(p)) < peak[p],
           Seated(p)' = Seated(p) \cup {r},
           Extra(p)' = Extra(p), Waiting(p)' = Waiting(p), peak' = peak
    PROVE  LedgerStep(p)
  <1>1. Seated(p) \cup Extra(p) = SeatsTaken(p)
    BY DEF Seated, Extra
  <1>2. Ledger(p)!Unknown(r)
    BY DEF Ledger!Unknown, Seated, Extra, Waiting
  <1>3. peak[p] # 0 => Ledger(p)!Cardinality(Seated(p) \cup Extra(p)) < peak[p]
    BY <1>1, CardinalityIs
  <1>4. Ledger(p)!Admit(r)
    BY <1>2, <1>3 DEF Ledger!Admit, Seated, Extra, Waiting
  <1> QED
    BY <1>4 DEF LedgerStep, Ledger!Next

LEMMA QueueIs ==
    ASSUME NEW p \in Places, NEW r \in RegIds,
           r \notin SeatsTaken(p), r \notin Waiting(p),
           Waiting(p)' = Waiting(p) \cup {r},
           Seated(p)' = Seated(p), Extra(p)' = Extra(p), peak' = peak
    PROVE  LedgerStep(p)
  <1>1. Ledger(p)!Unknown(r)
    BY DEF Ledger!Unknown, Seated, Extra, Waiting
  <1>2. Ledger(p)!Queue(r)
    BY <1>1 DEF Ledger!Queue, Seated, Extra, Waiting
  <1> QED
    BY <1>2 DEF LedgerStep, Ledger!Next

LEMMA LeaveIs ==
    ASSUME NEW p \in Places, NEW r \in RegIds, NEW P \in SUBSET (Waiting(p) \ {r}),
           \A i, j \in P : i = j,
           Waiting(p)' = Waiting(p) \ ({r} \cup P),
           r \in Seated(p) => /\ Seated(p)' = (Seated(p) \ {r}) \cup P
                              /\ Extra(p)' = Extra(p),
           r \notin Seated(p) => /\ Seated(p)' = Seated(p)
                                 /\ Extra(p)' = (Extra(p) \ {r}) \cup P,
           peak' = peak
    PROVE  LedgerStep(p)
  <1>1. P \in {{}} \cup {{w} : w \in Waiting(p) \ {r}}
    <2>1. CASE P = {}
      BY <2>1
    <2>2. CASE P # {}
      <3>1. PICK i \in P : P = {i}
        BY <2>2
      <3> QED
        BY <3>1
    <2> QED
      BY <2>1, <2>2
  <1>2. Ledger(p)!Leave(r)
    BY <1>1 DEF Ledger!Leave, Seated, Extra, Waiting
  <1> QED
    BY <1>2 DEF LedgerStep, Ledger!Next

LEMMA SeatIs ==
    ASSUME NEW p \in Places, NEW r \in RegIds, r \notin Seated(p),
           Extra(p)' = Extra(p) \cup {r}, Waiting(p)' = Waiting(p) \ {r},
           Seated(p)' = Seated(p), peak' = peak
    PROVE  LedgerStep(p)
  <1>1. Ledger(p)!Seat(r)
    BY DEF Ledger!Seat, Seated, Extra, Waiting
  <1> QED
    BY <1>1 DEF LedgerStep, Ledger!Next

LEMMA TurnAwayIs ==
    ASSUME NEW p \in Places, NEW r \in RegIds,
           Seated(p)' = Seated(p) \ {r}, Extra(p)' = Extra(p) \ {r},
           Waiting(p)' = Waiting(p) \ {r}, peak' = peak
    PROVE  LedgerStep(p)
  <1>1. Ledger(p)!TurnAway(r)
    BY DEF Ledger!TurnAway, Seated, Extra, Waiting
  <1> QED
    BY <1>1 DEF LedgerStep, Ledger!Next

LEMMA ResizeIs ==
    ASSUME NEW p \in Places, Same(p),
           peak'[p] = 0 \/ (peak[p] # 0 /\ peak'[p] > peak[p])
    PROVE  LedgerStep(p)
  <1>1. Ledger(p)!Resize
    BY DEF Ledger!Resize, Same, Seated, Extra, Waiting
  <1> QED
    BY <1>1 DEF LedgerStep, Ledger!Next

LEMMA OpenIs ==
    ASSUME NEW p \in Places, Same(p), SeatsTaken(p) \cup Waiting(p) = {},
           peak'[p] \in Nat
    PROVE  LedgerStep(p)
  <1>1. Ledger(p)!Open
    BY DEF Ledger!Open, Same, Seated, Extra, Waiting
  <1> QED
    BY <1>1 DEF LedgerStep, Ledger!Next

LEMMA CloseIs ==
    ASSUME NEW p \in Places, Seated(p)' = {}, Extra(p)' = {}, Waiting(p)' = {},
           peak' = peak
    PROVE  LedgerStep(p)
  <1>1. Ledger(p)!Close
    BY DEF Ledger!Close, Seated, Extra, Waiting
  <1> QED
    BY <1>1 DEF LedgerStep, Ledger!Next

-----------------------------------------------------------------------------
(* The steps, seen from one place. *)

(* Only update and createSession change a limit, and they touch no         *)
(* registration.                                                           *)
LEMMA LimitSteps ==
    ASSUME TypeOK, TypeOK', CapacityInv, NEW c \in Slots, Step(c),
           NEW p \in Places, UpdateCapacity(c) \/ CreateSession(c)
    PROVE  LedgerStep(p)
  <1>1. UNCHANGED <<regs, uncounted>>
    BY DEF UpdateCapacity, CreateSession
  <1>2. Same(p)
    BY <1>1 DEF Same, Seated, Extra, Waiting, SeatsTaken
  <1>3. peak[p] \in Nat /\ peak'[p] \in Nat
    BY DEF TypeOK
  <1>4. CASE peak'[p] = peak[p]
    BY <1>2, <1>4, StutterIs
  <1>5. CASE peak'[p] = 0 \/ (peak[p] # 0 /\ peak'[p] > peak[p])
    BY <1>2, <1>5, ResizeIs
  <1>6. CASE p \in Workshops /\ session[p] = "unborn"
    <2>1. SeatsTaken(p) \cup Waiting(p) = {}
      BY <1>6 DEF CapacityInv, PlacesBorn, SeatsTaken, Waiting
    <2> QED
      BY <1>2, <1>3, <2>1, OpenIs
  <1> QED
    BY <1>3, <1>4, <1>5, <1>6, PlacesGrow

LEMMA LimitKept ==
    ASSUME NEW c \in Slots, Step(c), ~UpdateCapacity(c), ~CreateSession(c)
    PROVE  peak' = peak
  <1>1. CASE DeleteWrites(c)
    BY <1>1 DEF DeleteWrites, history
  <1> QED
    BY <1>1, PlacesUntouched

(* create: the newcomer is admitted below the limit, or waits.             *)
LEMMA InsertSteps ==
    ASSUME TypeOK, TypeOK', CapacityInv, LedgerInv, NEW c \in Slots, Step(c),
           At(c, "create", "tx"), peak' = peak, NEW p \in Places,
           NEW s \in {"WAITLISTED", "PENDING", "CONFIRMED"},
           InsertEffect(calls[c].req.user, calls[c].req.place, s),
           s # "WAITLISTED" => ~Full(calls[c].req.place, calls[c].cap)
    PROVE  LedgerStep(p)
  <1> DEFINE q == calls[c].req.place
             n == created + 1
  <1>1. /\ n \in RegIds /\ created \in Nat
        /\ n \notin uncounted /\ regs[n] = NoRow
        /\ uncounted' = uncounted
    BY DEF InsertEffect, LedgerInv, FreshRows, UncountedKnown, TypeOK
  <1>2. /\ regs'[n].place = q /\ regs'[n].status = s
        /\ \A i \in RegIds \ {n} : regs'[i] = regs[i]
    BY DEF InsertEffect
  <1>3. n \notin SeatsTaken(p) /\ n \notin Waiting(p)
    BY <1>1 DEF SeatsTaken, Waiting, NoRow, SEAT_TAKING
  <1>4. CASE q # p
    <2>1. Same(p)
      BY <1>1, <1>2, <1>3, <1>4 DEF Same, Seated, Extra, Waiting, SeatsTaken
    <2> QED
      BY <2>1, StutterIs
  <1>5. CASE q = p /\ s = "WAITLISTED"
    <2>1. SeatsTaken(p)' = SeatsTaken(p)
      BY <1>1, <1>2, <1>3, <1>5 DEF SeatsTaken, SEAT_TAKING
    <2>2. Waiting(p)' = Waiting(p) \cup {n}
      BY <1>1, <1>2, <1>5 DEF Waiting
    <2>3. Seated(p)' = Seated(p) /\ Extra(p)' = Extra(p)
      BY <1>1, <2>1 DEF Seated, Extra
    <2> QED
      BY <1>1, <1>3, <2>2, <2>3, QueueIs
  <1>6. CASE q = p /\ s # "WAITLISTED"
    <2>1. SeatsTaken(p)' = SeatsTaken(p) \cup {n}
      BY <1>1, <1>2, <1>6 DEF SeatsTaken, SEAT_TAKING
    <2>2. Waiting(p)' = Waiting(p)
      BY <1>1, <1>2, <1>3, <1>6 DEF Waiting
    <2>3. Seated(p)' = Seated(p) \cup {n} /\ Extra(p)' = Extra(p)
      BY <1>1, <2>1 DEF Seated, Extra
    <2>4. peak[p] # 0 => Cardinality(SeatsTaken(p)) < peak[p]
      <3> SUFFICES ASSUME peak[p] # 0
                   PROVE  Cardinality(SeatsTaken(p)) < peak[p]
        OBVIOUS
      <3>1. calls[c].cap \in 1..peak[p]
        BY <1>6 DEF CapacityInv, SnapshotBelowPeak
      <3>2. peak[p] \in Nat /\ Cardinality(SeatsTaken(p)) \in Nat
        BY SeatsFinite DEF TypeOK
      <3> QED
        BY <1>6, <3>1, <3>2 DEF Full
    <2> QED
      BY <1>1, <1>3, <2>2, <2>3, <2>4, AdmitIs
  <1> QED
    BY <1>4, <1>5, <1>6

(* approve and checkIn seat somebody, reject turns them away.              *)
LEMMA BlindSteps ==
    ASSUME TypeOK, NEW p \in Places, NEW r \in RegIds,
           NEW s \in {"CONFIRMED", "REJECTED", "CHECKED_IN"},
           BlindEffect(r, s), peak' = peak
    PROVE  LedgerStep(p)
  <1>1. /\ regs'[r].place = regs[r].place /\ regs'[r].status = s
        /\ \A i \in RegIds \ {r} : regs'[i] = regs[i]
    BY DEF BlindEffect, Restatused
  <1>2. uncounted' = IF \/ s \in SEAT_TAKING /\ regs[r].status \notin SEAT_TAKING
                        \/ regs[r].status = "CANCELLED"
                     THEN uncounted \cup {r} ELSE uncounted
    BY DEF BlindEffect
  <1>3. CASE regs[r].place # p
    <2>1. SeatsTaken(p)' = SeatsTaken(p) /\ Waiting(p)' = Waiting(p)
      BY <1>1, <1>3 DEF Waiting, SeatsTaken
    <2>2. r \notin SeatsTaken(p)
      BY <1>3 DEF SeatsTaken
    <2>3. Same(p)
      BY <1>2, <2>1, <2>2 DEF Same, Seated, Extra
    <2> QED
      BY <2>3, StutterIs
  <1>4. CASE regs[r].place = p /\ s = "REJECTED"
    <2>1. SeatsTaken(p)' = SeatsTaken(p) \ {r} /\ Waiting(p)' = Waiting(p) \ {r}
      BY <1>1, <1>4 DEF Waiting, SeatsTaken, SEAT_TAKING
    <2>2. Seated(p)' = Seated(p) \ {r} /\ Extra(p)' = Extra(p) \ {r}
      BY <1>2, <2>1 DEF Seated, Extra
    <2> QED
      BY <2>1, <2>2, TurnAwayIs
  <1>5. CASE regs[r].place = p /\ s # "REJECTED" /\ regs[r].status \in SEAT_TAKING
    <2>1. SeatsTaken(p)' = SeatsTaken(p) /\ Waiting(p)' = Waiting(p)
      BY <1>1, <1>5 DEF Waiting, SeatsTaken, SEAT_TAKING
    <2>2. uncounted' = uncounted
      BY <1>2, <1>5 DEF SEAT_TAKING
    <2>3. Same(p)
      BY <2>1, <2>2 DEF Same, Seated, Extra
    <2> QED
      BY <2>3, StutterIs
  <1>6. CASE regs[r].place = p /\ s # "REJECTED" /\ regs[r].status \notin SEAT_TAKING
    <2>1. s \in SEAT_TAKING
      BY <1>6 DEF SEAT_TAKING
    <2>2. SeatsTaken(p)' = SeatsTaken(p) \cup {r} /\ r \notin SeatsTaken(p)
      BY <1>1, <1>6, <2>1 DEF SeatsTaken
    <2>3. Waiting(p)' = Waiting(p) \ {r}
      BY <1>1, <1>6 DEF Waiting
    <2>4. uncounted' = uncounted \cup {r}
      BY <1>2, <1>6, <2>1
    <2>5. /\ Seated(p)' = Seated(p) /\ Extra(p)' = Extra(p) \cup {r}
          /\ r \notin Seated(p)
      BY <2>2, <2>4 DEF Seated, Extra
    <2> QED
      BY <2>3, <2>5, SeatIs
  <1> QED
    BY <1>3, <1>4, <1>5, <1>6

(* cancel: whoever leaves lets at most one in.                             *)
LEMMA CancelSteps ==
    ASSUME TypeOK, LedgerInv, OneWaiting, NEW p \in Places, NEW r \in RegIds,
           NEW P \in SUBSET RegIds, CancelEffect(r, P), peak' = peak
    PROVE  LedgerStep(p)
  <1>1. /\ regs'[r].place = regs[r].place /\ regs'[r].status = "CANCELLED"
        /\ r \notin P
        /\ \A i \in P : /\ regs'[i].place = regs[r].place
                        /\ regs'[i].status = "CONFIRMED"
                        /\ regs[i].place = regs[r].place
        /\ \A i \in RegIds \ (P \cup {r}) : regs'[i] = regs[i]
    BY DEF CancelEffect, Restatused
  <1>2. /\ \A i \in P : regs[i].status = "WAITLISTED"
        /\ \A i, j \in P : i = j
    BY DEF CancelEffect, OneWaiting, Promoted, RowsOf
  <1>3. \A i \in P : i \notin uncounted
    BY <1>2 DEF LedgerInv, UncountedKnown
  <1>4. uncounted' = uncounted \/ uncounted' = uncounted \cup P
    BY DEF CancelEffect
  <1>5. regs[r].status \in SEAT_TAKING /\ r \notin uncounted => uncounted' = uncounted
    BY DEF CancelEffect
  <1>6. P # {} /\ ~(regs[r].status \in SEAT_TAKING /\ r \notin uncounted)
          => uncounted' = uncounted \cup P
    BY DEF CancelEffect
  <1>7. CASE regs[r].place # p
    <2>1. SeatsTaken(p)' = SeatsTaken(p) /\ Waiting(p)' = Waiting(p)
      BY <1>1, <1>7 DEF Waiting, SeatsTaken
    <2>2. \A i \in P : i \notin SeatsTaken(p)
      BY <1>1, <1>7 DEF SeatsTaken
    <2>3. Same(p)
      BY <1>4, <2>1, <2>2 DEF Same, Seated, Extra
    <2> QED
      BY <2>3, StutterIs
  <1>8. CASE regs[r].place = p
    <2>1. SeatsTaken(p)' = (SeatsTaken(p) \ {r}) \cup P
      BY <1>1, <1>8 DEF SeatsTaken, SEAT_TAKING
    <2>2. Waiting(p)' = Waiting(p) \ ({r} \cup P)
      BY <1>1, <1>8 DEF Waiting
    <2>3. P \in SUBSET (Waiting(p) \ {r})
      BY <1>1, <1>2, <1>8 DEF Waiting
    <2>4. r \in Seated(p) <=> regs[r].status \in SEAT_TAKING /\ r \notin uncounted
      BY <1>8 DEF Seated, SeatsTaken
    <2>5. ASSUME r \in Seated(p)
          PROVE  Seated(p)' = (Seated(p) \ {r}) \cup P /\ Extra(p)' = Extra(p)
      BY <1>3, <1>5, <2>1, <2>4, <2>5 DEF Seated, Extra
    <2>6. ASSUME r \notin Seated(p)
          PROVE  Seated(p)' = Seated(p) /\ Extra(p)' = (Extra(p) \ {r}) \cup P
      <3>1. CASE P = {}
        <4>1. uncounted' = uncounted
          BY <1>4, <3>1
        <4> QED
          BY <2>1, <2>6, <3>1, <4>1 DEF Seated, Extra
      <3>2. CASE P # {}
        <4>1. uncounted' = uncounted \cup P
          BY <1>6, <2>4, <2>6, <3>2
        <4>2. \A i \in P : i \notin SeatsTaken(p)
          BY <1>2 DEF SeatsTaken, SEAT_TAKING
        <4> QED
          BY <1>1, <2>1, <2>6, <4>1, <4>2 DEF Seated, Extra
      <3> QED
        BY <3>1, <3>2
    <2> QED
      BY <1>2, <2>2, <2>3, <2>5, <2>6, LeaveIs
  <1> QED
    BY <1>7, <1>8

(* deleteSession closes the place.                                         *)
LEMMA DeleteSteps ==
    ASSUME NEW p \in Places, NEW w \in Workshops, DeleteEffect(w), peak' = peak
    PROVE  LedgerStep(p)
  <1>1. NoRow.place # p /\ NoRow.status = "NONE"
    BY PlacesAssumption DEF NoRow
  <1>2. CASE p = w
    <2>1. SeatsTaken(p)' = {} /\ Waiting(p)' = {}
      BY <1>1, <1>2 DEF DeleteEffect, SeatsTaken, Waiting
    <2>2. Seated(p)' = {} /\ Extra(p)' = {}
      BY <2>1 DEF Seated, Extra
    <2> QED
      BY <2>1, <2>2, CloseIs
  <1>3. CASE p # w
    <2>1. SeatsTaken(p)' = SeatsTaken(p) /\ Waiting(p)' = Waiting(p)
      BY <1>1, <1>3 DEF DeleteEffect, SeatsTaken, Waiting
    <2>2. Same(p)
      BY <2>1 DEF DeleteEffect, Same, Seated, Extra
    <2> QED
      BY <2>2, StutterIs
  <1> QED
    BY <1>2, <1>3

-----------------------------------------------------------------------------
(* ImplementsLedger: seats are given below the limit, passed on one for    *)
(* one, or given by the desk, and by nothing else, at every place, however *)
(* the handlers interleave and crash.                                      *)
THEOREM SeatsFollowTheLedger == Spec => ImplementsLedger
  <1>1. ASSUME Init, NEW p \in Places
        PROVE  Ledger(p)!Init
    <2>1. SeatsTaken(p) = {} /\ Waiting(p) = {}
      BY <1>1 DEF Init, SeatsTaken, Waiting, NoRow, SEAT_TAKING
    <2>2. peak[p] \in Nat
      BY <1>1, InitTyped DEF TypeOK
    <2> QED
      BY <2>1, <2>2 DEF Ledger!Init, Waiting
  <1>2. ASSUME TypeOK, TypeOK', CapacityInv, OneWaiting, LedgerInv,
               NEW c \in Slots, Step(c), NEW p \in Places
        PROVE  LedgerStep(p)
    <2>1. CASE UpdateCapacity(c) \/ CreateSession(c)
      BY <1>2, <2>1, LimitSteps
    <2>2. CASE ~UpdateCapacity(c) /\ ~CreateSession(c)
      <3>1. peak' = peak
        BY <1>2, <2>2, LimitKept
      <3>2. CASE UNCHANGED <<regs, uncounted>>
        <4>1. Same(p)
          BY <3>2 DEF Same, Seated, Extra, Waiting, SeatsTaken
        <4> QED
          BY <3>1, <4>1, StutterIs
      <3> QED
        BY <1>2, <3>1, <3>2, StepEffects, InsertSteps, BlindSteps, CancelSteps,
           DeleteSteps
    <2> QED
      BY <2>1, <2>2
  <1>3. ASSUME UNCHANGED <<regs, uncounted, peak>>, NEW p \in Places
        PROVE  LedgerStep(p)
    <2>1. Same(p)
      BY <1>3 DEF Same, Seated, Extra, Waiting, SeatsTaken
    <2> QED
      BY <1>3, <2>1, StutterIs
  <1>4. TypeOK /\ TypeOK' /\ CapacityInv /\ OneWaiting /\ LedgerInv /\ [Next]_vars
          => \A p \in Places : LedgerStep(p)
    BY <1>2, <1>3, OtherEffects DEF Next, Step
  <1>5. TypeOK /\ TypeOK' /\ CapacityInv /\ OneWaiting /\ LedgerInv /\ [Next]_vars
          => [\A p \in Places : [Ledger(p)!Next]_(Ledger(p)!ledger)]_vars
    BY <1>4 DEF LedgerStep
  <1>6. Init => \A p \in Places : Ledger(p)!Init
    BY <1>1
  <1> QED
    BY <1>5, <1>6, TypeCorrect, CapacityRemembered, NobodyWaitsTwice, LedgerBooks,
       PTL DEF Spec, ImplementsLedger
=============================================================================
