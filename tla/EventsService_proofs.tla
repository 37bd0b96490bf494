------------------------ MODULE EventsService_proofs ------------------------
(***************************************************************************)
(* Theorems about EventsService for every number of users, workshops,      *)
(* slots, registrations and crashes, and for every workload.               *)
(***************************************************************************)
EXTENDS EventsService, FiniteSetTheorems, TLAPS

-----------------------------------------------------------------------------
(* What a request of each kind carries.                                    *)
LEMMA RequestShapes ==
    ASSUME TypeOK, NEW c \in Slots, NEW q, q = calls[c].req
    PROVE  /\ q.op = "create" => q.user \in Users /\ q.place \in Places
           /\ q.op \in {"approve", "reject", "cancel", "checkIn"} =>
                 q.reg \in RegIds
           /\ q.op = "update" => q.place \in Places /\ q.capacity \in Nat
           /\ q.op = "createSession" =>
                 q.place \in Workshops /\ q.capacity \in Nat
           /\ q.op = "deleteSession" => q.place \in Workshops
           /\ q.op = "upsertForm" =>
                 q.isOpen \in BOOLEAN /\ q.requiresApproval \in BOOLEAN
  <1>1. q \in Requests \cup {NoRequest}
    BY DEF TypeOK, Call
  <1>2. CASE q = NoRequest
    BY <1>2 DEF NoRequest
  <1>3. CASE q \in AllRequests
    BY <1>3, CapacityAssumption
       DEF AllRequests, CreateRequests, RowRequests, CapacityRequests,
           SessionRequests, DropRequests, EventRequests, FormRequests
  <1> QED
    BY <1>1, <1>2, <1>3, RequestsAssumption

LEMMA CreateShape ==
    ASSUME TypeOK, NEW c \in Slots, calls[c].req.op = "create"
    PROVE  calls[c].req.user \in Users /\ calls[c].req.place \in Places
  BY RequestShapes

LEMMA RowShape ==
    ASSUME TypeOK, NEW c \in Slots,
           calls[c].req.op \in {"approve", "reject", "cancel", "checkIn"}
    PROVE  calls[c].req.reg \in RegIds
  BY RequestShapes

(* The next registration id is free to use below the bound.                *)
LEMMA NextId ==
    ASSUME TypeOK, created < MaxRegs
    PROVE  created + 1 \in RegIds /\ created + 1 \in 0..MaxRegs
  BY BoundsAssumption DEF TypeOK, RegIds

(* Each way a handler goes on leaves well-typed calls.                     *)
LEMMA GoTyped ==
    ASSUME TypeOK, NEW c \in Slots, NEW s \in Steps, Go(c, s)
    PROVE  calls' \in [Slots -> Call]
  BY DEF TypeOK, Go, Call

LEMMA ReplyTyped ==
    ASSUME TypeOK, NEW c \in Slots, NEW a \in Replies, Reply(c, a)
    PROVE  calls' \in [Slots -> Call]
  BY DEF TypeOK, Reply, Call, Idle, Steps, Announcements

LEMMA GoAnnounceTyped ==
    ASSUME TypeOK, NEW c \in Slots, NEW r \in RegIds, NEW says \in Announcements,
           NEW next \in Users \cup {Nobody}, GoAnnounce(c, r, says, next)
    PROVE  calls' \in [Slots -> Call]
  <1> DEFINE call == [calls[c] EXCEPT !.step = "announce", !.row = r,
                                      !.says = says, !.next = next]
  <1>1. calls[c] \in Call
    BY DEF TypeOK
  <1>2. call \in Call
    BY <1>1 DEF Call, Steps
  <1>3. calls' = [calls EXCEPT ![c] = call]
    BY DEF GoAnnounce
  <1> HIDE DEF call
  <1> QED
    BY <1>2, <1>3 DEF TypeOK

LEMMA QueueFinite ==
    ASSUME TypeOK, NEW p
    PROVE  IsFiniteSet(QueueAt(p)) /\ Cardinality(QueueAt(p)) \in Nat
  <1>1. IsFiniteSet(waitlist) /\ QueueAt(p) \subseteq waitlist
    BY DEF TypeOK, QueueAt
  <1> QED
    BY <1>1, FS_Subset, FS_CardinalityType

LEMMA StatusInsert ==
    ASSUME TypeOK, NEW u \in Users, NEW p \in Places,
           NEW s \in RegistrationStatus, created < MaxRegs, Insert(u, p, s)
    PROVE  /\ regs' \in [RegIds -> Registration \cup {NoRow}]
           /\ created' \in 0..MaxRegs
           /\ unwarned' \subseteq RegIds
  BY NextId DEF TypeOK, Insert, Registration, TooLate

LEMMA LostTyped ==
    ASSUME TypeOK, NEW ids
    PROVE  Lost(ids) \in [RegIds -> Announcements \cup {"ASTRAY"}]
  BY DEF TypeOK, Lost

LEMMA StatusWritten ==
    ASSUME TypeOK, NEW r \in RegIds, RowExists(r),
           NEW s \in RegistrationStatus
    PROVE  [regs[r] EXCEPT !.status = s] \in Registration
  <1>1. regs[r] \in Registration
    BY DEF TypeOK, RowExists, NoRow
  <1> QED
    BY <1>1 DEF Registration

-----------------------------------------------------------------------------
(* Every step of RegistrationsService keeps the types.                     *)
LEMMA RegistrationStepTyped ==
    ASSUME TypeOK, NEW c \in Slots, RegistrationStep(c)
    PROVE  TypeOK'
  <1> USE DEF tables, rows, history
  <1>1. CASE CreateReads(c)
    <2>1. capacity[calls[c].req.place] \in Nat
      BY <1>1, CreateShape DEF CreateReads, At, TypeOK
    <2> DEFINE call == [calls[c] EXCEPT !.step = "tx",
                                        !.cap = capacity[calls[c].req.place],
                                        !.approval = form.requiresApproval]
    <2>2. calls[c] \in Call
      BY DEF TypeOK
    <2>3. call \in Call
      BY <2>1, <2>2 DEF Call, Steps, TypeOK
    <2>4. calls' = [calls EXCEPT ![c] = call]
      BY <1>1 DEF CreateReads
    <2> HIDE DEF call
    <2>5. calls' \in [Slots -> Call]
      BY <2>3, <2>4 DEF TypeOK
    <2> QED
      BY <1>1, <2>5 DEF CreateReads, TypeOK
  <1>2. CASE CreateRefused(c) \/ CreateDuplicate(c) \/ CreateUniqueViolation(c)
               \/ CreateForeignKeyViolation(c) \/ CheckInRefused(c)
               \/ RowMissing(c) \/ TxAborts(c)
    <2>1. \E a \in Replies : Reply(c, a)
      BY <1>2 DEF CreateRefused, CreateDuplicate, CreateUniqueViolation,
                  CreateForeignKeyViolation, CheckInRefused, RowMissing,
                  TxAborts, Replies
    <2>2. calls' \in [Slots -> Call]
      BY <2>1, ReplyTyped
    <2>3. UNCHANGED <<tables, rows, warned, crashes, history>>
      BY <1>2 DEF CreateRefused, CreateDuplicate, CreateUniqueViolation,
                  CreateForeignKeyViolation, CheckInRefused, RowMissing,
                  TxAborts
    <2> QED
      BY <2>2, <2>3 DEF TypeOK
  <1>3. CASE CreateWaitlisted(c)
    <2> DEFINE u == calls[c].req.user
               p == calls[c].req.place
               row == [id |-> created + 1, user |-> u, place |-> p,
                       position |-> NextPosition(p)]
    <2>1. u \in Users /\ p \in Places /\ created < MaxRegs
      BY <1>3, CreateShape DEF CreateWaitlisted, At, CanInsert
    <2>2. /\ regs' \in [RegIds -> Registration \cup {NoRow}]
          /\ created' \in 0..MaxRegs
          /\ unwarned' \subseteq RegIds
      BY <1>3, <2>1, StatusInsert DEF CreateWaitlisted, RegistrationStatus
    <2>3. NextPosition(p) \in Nat \ {0}
      BY QueueFinite DEF NextPosition
    <2>4. row \in WaitlistRow
      BY <2>1, <2>3, NextId DEF WaitlistRow
    <2>5. waitlist' = waitlist \cup {row}
      BY <1>3 DEF CreateWaitlisted
    <2>6. waitlist' \subseteq WaitlistRow /\ IsFiniteSet(waitlist')
      BY <2>4, <2>5, FS_AddElement DEF TypeOK
    <2>7. calls' \in [Slots -> Call]
      BY <1>3, <2>1, NextId, GoAnnounceTyped
         DEF CreateWaitlisted, Announcements
    <2> QED
      BY <1>3, <2>2, <2>6, <2>7 DEF CreateWaitlisted, Insert, TypeOK
  <1>4. CASE CreatePending(c)
    <2>1. /\ regs' \in [RegIds -> Registration \cup {NoRow}]
          /\ created' \in 0..MaxRegs
          /\ unwarned' \subseteq RegIds
      BY <1>4, CreateShape, StatusInsert
         DEF CreatePending, At, CanInsert, RegistrationStatus, SEAT_TAKING
    <2>2. calls' \in [Slots -> Call]
      BY <1>4, ReplyTyped DEF CreatePending, Replies
    <2> QED
      BY <1>4, <2>1, <2>2 DEF CreatePending, Insert, TypeOK
  <1>5. CASE CreateConfirmed(c)
    <2>1. /\ regs' \in [RegIds -> Registration \cup {NoRow}]
          /\ created' \in 0..MaxRegs
          /\ unwarned' \subseteq RegIds
      BY <1>5, CreateShape, StatusInsert
         DEF CreateConfirmed, At, CanInsert, RegistrationStatus, SEAT_TAKING
    <2>2. calls' \in [Slots -> Call]
      BY <1>5, NextId, GoAnnounceTyped
         DEF CreateConfirmed, CanInsert, Announcements
    <2> QED
      BY <1>5, <2>1, <2>2 DEF CreateConfirmed, Insert, TypeOK
  <1>6. ASSUME NEW op \in {"approve", "reject", "cancel", "checkIn"},
               NEW step, NEW s \in RegistrationStatus \cap Announcements,
               BlindWrite(c, op, step, s)
        PROVE  TypeOK'
    <2>1. calls[c].req.reg \in RegIds
      BY <1>6, RowShape DEF BlindWrite, At
    <2>2. regs' \in [RegIds -> Registration \cup {NoRow}]
      BY <1>6, <2>1, StatusWritten DEF BlindWrite, SetStatus, TypeOK
    <2>3. /\ uncounted' \subseteq RegIds /\ revived' \subseteq RegIds
          /\ unwarned' \subseteq RegIds
      BY <1>6, <2>1 DEF BlindWrite, SetStatus, TooLate, TypeOK
    <2>4. calls' \in [Slots -> Call]
      BY <1>6, <2>1, GoAnnounceTyped DEF BlindWrite
    <2> QED
      BY <1>6, <2>2, <2>3, <2>4 DEF BlindWrite, TypeOK
  <1>7. CASE Approve(c) \/ Reject(c) \/ CheckInWrites(c)
    BY <1>6, <1>7 DEF Approve, Reject, CheckInWrites, RegistrationStatus,
                      SEAT_TAKING, Announcements
  <1>8. CASE CheckInReads(c)
    BY <1>8, GoTyped DEF CheckInReads, TypeOK, Steps
  <1>9. CASE CancelTx(c)
    <2> DEFINE r == calls[c].req.reg
               left == Without(regs[r].user, regs[r].place)
    <2>1. r \in RegIds /\ RowExists(r)
      BY <1>9, RowShape DEF CancelTx, At
    <2>2. left \subseteq WaitlistRow /\ IsFiniteSet(left)
      BY FS_Subset DEF TypeOK, Without
    <2>3. CASE /\ regs' = [regs EXCEPT ![r].status = "CANCELLED"]
               /\ waitlist' = left
               /\ GoAnnounce(c, r, "CANCELLED", Nobody)
               /\ UNCHANGED uncounted
      <3>1. regs' \in [RegIds -> Registration \cup {NoRow}]
        BY <2>1, <2>3, StatusWritten DEF TypeOK, RegistrationStatus
      <3>2. calls' \in [Slots -> Call]
        BY <2>1, <2>3, GoAnnounceTyped DEF Announcements
      <3> QED
        BY <1>9, <2>2, <2>3, <3>1, <3>2 DEF CancelTx, TypeOK
    <2>4. ASSUME NEW w \in left,
                 regs' = [i \in RegIds |-> IF i \in Promoted(w)
                             THEN [regs[i] EXCEPT !.status = "CONFIRMED"]
                             ELSE [regs EXCEPT ![r].status = "CANCELLED"][i]],
                 waitlist' = left \ {w},
                 GoAnnounce(c, r, "CANCELLED", w.user),
                 uncounted' \in {uncounted, uncounted \cup Promoted(w)}
          PROVE  TypeOK'
      <3>1. \A i \in Promoted(w) : i \in RegIds /\ RowExists(i)
        BY DEF Promoted, RowsOf, RowExists
      <3>2. regs' \in [RegIds -> Registration \cup {NoRow}]
        BY <2>1, <2>4, <3>1, StatusWritten
           DEF TypeOK, RegistrationStatus, SEAT_TAKING
      <3>3. calls' \in [Slots -> Call]
        BY <2>1, <2>2, <2>4, GoAnnounceTyped DEF Announcements, WaitlistRow
      <3>4. waitlist' \subseteq WaitlistRow /\ IsFiniteSet(waitlist')
        BY <2>2, <2>4, FS_Subset
      <3>5. uncounted' \subseteq RegIds
        BY <2>4 DEF TypeOK, Promoted, RowsOf
      <3> QED
        BY <1>9, <3>2, <3>3, <3>4, <3>5 DEF CancelTx, TypeOK
    <2> QED
      BY <1>9, <2>3, <2>4 DEF CancelTx, First
  <1>10. CASE Announce(c)
    <2>1. calls[c].row \in RegIds /\ calls[c].says \in Announcements
      BY <1>10 DEF Announce, TypeOK, Call
    <2>2. calls' \in [Slots -> Call]
      BY <1>10, ReplyTyped, GoTyped DEF Announce, Replies, Steps
    <2> QED
      BY <1>10, <2>1, <2>2 DEF Announce, TypeOK
  <1>11. CASE AnnouncePromoted(c)
    <2>1. calls' \in [Slots -> Call]
      BY <1>11, ReplyTyped DEF AnnouncePromoted, Replies
    <2>2. told' \in [RegIds -> Announcements \cup {"ASTRAY"}]
      BY <1>11, LostTyped DEF AnnouncePromoted, TypeOK, Announcements
    <2> QED
      BY <1>11, <2>1, <2>2 DEF AnnouncePromoted, TypeOK
  <1>12. CASE AnnounceFails(c)
    <2>1. calls' \in [Slots -> Call]
      BY <1>12, ReplyTyped DEF AnnounceFails, Replies
    <2> QED
      BY <1>12, <2>1, LostTyped DEF AnnounceFails, TypeOK
  <1> QED
    BY <1>1, <1>2, <1>3, <1>4, <1>5, <1>7, <1>8, <1>9, <1>10, <1>11, <1>12
       DEF RegistrationStep

(* Every step of EventsService keeps them, too.                            *)
LEMMA EventStepTyped ==
    ASSUME TypeOK, NEW c \in Slots, EventStep(c)
    PROVE  TypeOK'
  <1> USE DEF history
  <1>1. CASE UpdateCapacity(c)
    <2> DEFINE q == calls[c].req
    <2>1. q.place \in Places /\ q.capacity \in Nat
      BY <1>1, RequestShapes DEF UpdateCapacity, At
    <2>2. Larger(peak[q.place], q.capacity) \in Nat
      BY <2>1 DEF TypeOK, Larger
    <2>3. capacity' \in [Places -> Nat] /\ peak' \in [Places -> Nat]
      BY <1>1, <2>1, <2>2 DEF UpdateCapacity, SetCapacity, TypeOK
    <2>4. calls' \in [Slots -> Call]
      BY <1>1, ReplyTyped DEF UpdateCapacity, Replies
    <2> QED
      BY <1>1, <2>3, <2>4 DEF UpdateCapacity, TypeOK
  <1>2. CASE CreateSession(c)
    <2> DEFINE q == calls[c].req
    <2>1. q.place \in Workshops /\ q.capacity \in Nat
      BY <1>2, RequestShapes DEF CreateSession, At
    <2>2. /\ session' \in [Workshops -> {"unborn", "live", "deleted"}]
          /\ capacity' \in [Places -> Nat] /\ peak' \in [Places -> Nat]
      BY <1>2, <2>1 DEF CreateSession, TypeOK, Places
    <2>3. calls' \in [Slots -> Call]
      BY <1>2, ReplyTyped DEF CreateSession, Replies
    <2> QED
      BY <1>2, <2>2, <2>3 DEF CreateSession, TypeOK
  <1>3. CASE UpdateNotFound(c) \/ DeleteReads(c) \/ DeleteRefused(c)
               \/ DeleteMissing(c) \/ PublishReads(c)
    <2>1. (\E a \in Replies : Reply(c, a)) \/ (\E s \in Steps : Go(c, s))
      BY <1>3 DEF UpdateNotFound, DeleteReads, DeleteRefused, DeleteMissing,
                  PublishReads, Replies, Steps
    <2>2. calls' \in [Slots -> Call]
      BY <2>1, ReplyTyped, GoTyped
    <2> QED
      BY <1>3, <2>2 DEF UpdateNotFound, DeleteReads, DeleteRefused,
                        DeleteMissing, PublishReads, TypeOK
  <1>4. CASE DeleteWrites(c)
    <2> DEFINE w == calls[c].req.place
    <2>1. w \in Workshops
      BY <1>4, RequestShapes DEF DeleteWrites, At
    <2>2. session' \in [Workshops -> {"unborn", "live", "deleted"}]
      BY <1>4, <2>1 DEF DeleteWrites, TypeOK
    <2>3. regs' \in [RegIds -> Registration \cup {NoRow}]
      BY <1>4 DEF DeleteWrites, TypeOK, NoRow, Registration
    <2>4. waitlist' \subseteq WaitlistRow /\ IsFiniteSet(waitlist')
      BY <1>4, FS_Subset DEF DeleteWrites, Cascaded, TypeOK
    <2>5. calls' \in [Slots -> Call]
      BY <1>4, ReplyTyped DEF DeleteWrites, Replies
    <2> QED
      BY <1>4, <2>2, <2>3, <2>4, <2>5 DEF DeleteWrites, TypeOK
  <1>5. CASE PublishWrites(c)
    <2>1. calls' \in [Slots -> Call]
      BY <1>5, ReplyTyped DEF PublishWrites, Replies
    <2> QED
      BY <1>5, <2>1 DEF PublishWrites, TypeOK
  <1>6. CASE CancelEvent(c)
    <2>1. calls' \in [Slots -> Call]
      BY <1>6, GoTyped DEF CancelEvent, Steps
    <2> QED
      BY <1>6, <2>1 DEF CancelEvent, TypeOK
  <1>7. CASE AnnounceCancelledEvent(c)
    <2>1. Affected \subseteq Users
      BY DEF Affected, UsersWith, TypeOK, Registration, NoRow, WARNED
    <2>2. calls' \in [Slots -> Call]
      BY <1>7, ReplyTyped DEF AnnounceCancelledEvent, Replies
    <2> QED
      BY <1>7, <2>1, <2>2 DEF AnnounceCancelledEvent, TypeOK
  <1>8. CASE UpsertForm(c)
    <2>1. form' \in [isOpen : BOOLEAN, requiresApproval : BOOLEAN]
      BY <1>8, RequestShapes DEF UpsertForm, At
    <2>2. calls' \in [Slots -> Call]
      BY <1>8, ReplyTyped DEF UpsertForm, Replies
    <2> QED
      BY <1>8, <2>1, <2>2 DEF UpsertForm, TypeOK
  <1>9. CASE CancelledEventFails(c)
    <2>1. calls' \in [Slots -> Call]
      BY <1>9, ReplyTyped DEF CancelledEventFails, Replies
    <2> QED
      BY <1>9, <2>1 DEF CancelledEventFails, TypeOK
  <1> QED
    BY <1>1, <1>2, <1>3, <1>4, <1>5, <1>6, <1>7, <1>8, <1>9 DEF EventStep

LEMMA DeliveredTyped ==
    ASSUME NEW q \in Requests \cup {NoRequest}
    PROVE  Delivered(q) \in Call
  <1>1. Idle \in Call
    BY DEF Idle, Call, Steps, Announcements, Replies
  <1> QED
    BY <1>1 DEF Delivered, Call, Steps

LEMMA ReceiveTyped ==
    ASSUME TypeOK, NEW c \in Slots, Receive(c)
    PROVE  TypeOK'
  <1>1. calls' \in [Slots -> Call]
    BY DeliveredTyped DEF Receive, TypeOK
  <1> QED
    BY <1>1 DEF Receive, TypeOK, history

LEMMA CrashTyped ==
    ASSUME TypeOK, Crash
    PROVE  TypeOK'
  <1>1. \A c \in Slots : /\ calls[c] \in Call
                         /\ calls[c].req \in Requests \cup {NoRequest}
    BY DEF TypeOK, Call
  <1>2. calls' \in [Slots -> Call]
    BY <1>1, DeliveredTyped DEF Crash, TypeOK
  <1>3. crashes' \in 0..MaxCrashes
    BY BoundsAssumption DEF Crash, TypeOK
  <1> QED
    BY <1>2, <1>3, LostTyped DEF Crash, TypeOK, history

LEMMA InitTyped == Init => TypeOK
  <1> SUFFICES ASSUME Init PROVE TypeOK
    OBVIOUS
  <1>1. capacity \in [Places -> Nat]
    <2>1. capacity \in [Places -> Capacities \cup {0}]
      BY DEF Init
    <2>2. Capacities \cup {0} \subseteq Nat
      BY CapacityAssumption
    <2> QED
      BY <2>1, <2>2
  <1>2. regs \in [RegIds -> Registration \cup {NoRow}]
    BY DEF Init, NoRow, Registration
  <1>3. calls \in [Slots -> Call]
    BY DEF Init, Idle, Call, Steps, Announcements, Replies
  <1>4. IsFiniteSet(waitlist)
    BY FS_EmptySet DEF Init
  <1> QED
    BY <1>1, <1>2, <1>3, <1>4, BoundsAssumption
       DEF Init, TypeOK, Announcements

(* The service never leaves its types: the tables hold rows of the schema, *)
(* a request in flight is at a step its handler has, with the reads that   *)
(* step needs.                                                             *)
THEOREM TypeCorrect == Spec => []TypeOK
  <1>1. TypeOK /\ [Next]_vars => TypeOK'
    <2> SUFFICES ASSUME TypeOK, [Next]_vars PROVE TypeOK'
      OBVIOUS
    <2>1. CASE UNCHANGED vars
      BY <2>1 DEF vars, history, TypeOK
    <2> QED
      BY <2>1, RegistrationStepTyped, EventStepTyped, ReceiveTyped, CrashTyped
         DEF Next
  <1> QED
    BY InitTyped, <1>1, PTL DEF Spec
=============================================================================
