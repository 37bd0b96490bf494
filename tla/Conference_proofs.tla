--------------------------- MODULE Conference_proofs ---------------------------
(***************************************************************************)
(* Theorems about the events service, its reminders and the notification   *)
(* service together, for every number of users, workshops, handlers,       *)
(* registrations, requests, lost facts and missed runs.                    *)
(***************************************************************************)
EXTENDS Conference, Ledger_proofs

-----------------------------------------------------------------------------
(* The parts of the composition. *)

(* What the composition does to the events service is a step of it.        *)
LEMMA HandleIsStep ==
    ASSUME NEW c \in Slots, Handle(c)
    PROVE  Step(c)
  BY DEF Handle, AnnounceCall, PromotedCall, CancelledEventCall, SilentCall,
         Step, RegistrationStep, EventStep

LEMMA AskIsReceive ==
    ASSUME NEW c \in Slots, Ask(c)
    PROVE  Receive(c)
  BY DEF Ask

LEMMA ServiceStep ==
    ASSUME [ConferenceNext]_conferenceVars
    PROVE  [Next]_vars
  BY HandleIsStep, AskIsReceive
     DEF ConferenceNext, EventsServiceStep, RemindersStep, NotificationsStep,
         conferenceVars, Next, Step

(* Joined to the others, the events service does nothing it could not do   *)
(* alone: whatever is proved of it holds in the composition.               *)
THEOREM ServiceTakesPart == ConferenceSpec => Spec
  <1>1. ConferenceInit => Init
    BY DEF ConferenceInit
  <1>2. [ConferenceNext]_conferenceVars => [Next]_vars
    BY ServiceStep
  <1> QED
    BY <1>1, <1>2, PTL DEF ConferenceSpec, Spec

(* What the bus does to a fact is a step of the mailbox.                   *)
LEMMA MailboxStep ==
    ASSUME [ConferenceNext]_conferenceVars
    PROVE  [Outbox!Next]_(Outbox!mailbox)
  <1>1. ASSUME NEW key, NEW to, Publish(key, to)
        PROVE  Outbox!Next
    BY <1>1 DEF Publish, Outbox!Next
  <1>2. ASSUME NEW c \in Slots, Ask(c) \/ Handle(c)
        PROVE  Outbox!Next \/ UNCHANGED outbox
    BY <1>1, <1>2 DEF Ask, Handle, AnnounceCall, PromotedCall,
                      CancelledEventCall, SilentCall
  <1>3. CASE RemindersStep
    BY <1>1, <1>3 DEF RemindersStep, outbox, Outbox!mailbox
  <1>4. CASE NotificationsStep
    BY <1>4 DEF NotificationsStep, Outbox!Next
  <1>5. CASE UNCHANGED conferenceVars
    BY <1>5 DEF conferenceVars, outbox, Outbox!mailbox
  <1> QED
    BY <1>2, <1>3, <1>4, <1>5
       DEF ConferenceNext, EventsServiceStep, outbox, Outbox!mailbox

-----------------------------------------------------------------------------
(* The inductive invariants. *)

(* What was published stays so, and what is handled reached everybody.     *)
PhasesOK == phase \in [Facts -> {"unsent", "published", "handled", "dropped"}]
OutboxOK ==
    /\ PhasesOK
    /\ entry \in [Outbox!Entries -> {"none", "skipped", "written"}]
    /\ \A f \in Facts : phase[f] = "handled" =>
          \A r \in Outbox!Entries : r[1] = f => entry[r] # "none"

(* Of whoever was last told to be confirmed there is such a fact.          *)
TicketInv ==
    \A r \in RegIds : RowExists(r) /\ told[r] = "CONFIRMED"
                        => FactsFor("CONFIRMED", regs[r].user) # {}

(* Whoever holds out is reminded, is about to be, or is still to be found  *)
(* by a run; a run that is missed leaves one more.                         *)
ReminderAhead(r) ==
    \/ FactsFor("REMINDER", regs[r].user) # {}
    \/ Start > clock + 48
    \/ Start > clock + 46 /\ (missed >= 1 \/ regs[r].user \in due)
    \/ missed >= 1 /\ regs[r].user \in due
ReminderInv ==
    \A r \in steadfast :
        /\ eventStatus = "PUBLISHED" /\ regs[r].status = "CONFIRMED"
        /\ missed <= 1 => ReminderAhead(r)

-----------------------------------------------------------------------------
(* Types, and the facts on the bus. *)

LEMMA ServiceTyped ==
    ASSUME TypeOK, [ConferenceNext]_conferenceVars
    PROVE  TypeOK'
  <1>1. [Next]_vars
    BY ServiceStep
  <1>2. CASE UNCHANGED vars
    BY <1>2 DEF vars, history, TypeOK
  <1> QED
    BY <1>1, <1>2, RegistrationStepTyped, EventStepTyped, ReceiveTyped, CrashTyped
       DEF Next

LEMMA RemindersTyped ==
    ASSUME TypeOK, RemindersTypeOK, [ConferenceNext]_conferenceVars
    PROVE  RemindersTypeOK'
  <1>1. ASSUME NEW c \in Slots, HoldsOut, UNCHANGED <<clock, due, missed>>
        PROVE  RemindersTypeOK'
    BY <1>1 DEF HoldsOut, RemindersTypeOK
  <1>2. \A r \in Confirmed : regs[r].user \in Users
    BY DEF TypeOK, Confirmed, Registration, NoRow
  <1>3. clock + 2 \in Nat
    BY DEF RemindersTypeOK
  <1>4. CASE EmitDueReminders
    BY <1>2, <1>3, <1>4 DEF EmitDueReminders, Recipients, RemindersTypeOK
  <1>5. CASE MissRun
    <2>1. missed' \in 0..MaxMissed
      BY <1>5, TimesAssumption DEF MissRun, RemindersTypeOK
    <2> QED
      BY <1>3, <1>5, <2>1 DEF MissRun, RemindersTypeOK
  <1>6. CASE Reminded
    BY <1>6 DEF Reminded, RemindersTypeOK
  <1>7. CASE UNCHANGED reminderVars
    BY <1>7 DEF reminderVars, RemindersTypeOK
  <1> QED
    BY <1>1, <1>4, <1>5, <1>6, <1>7
       DEF ConferenceNext, EventsServiceStep, RemindersStep, NotificationsStep,
           conferenceVars

LEMMA OutboxKept ==
    ASSUME OutboxOK, [Outbox!Next]_(Outbox!mailbox)
    PROVE  OutboxOK' /\ Sent \subseteq Sent'
  <1>1. ASSUME NEW f \in Facts, Outbox!Publish(f)
        PROVE  OutboxOK' /\ Sent \subseteq Sent'
    BY <1>1 DEF OutboxOK, PhasesOK, Sent, Outbox!Publish
  <1>2. ASSUME NEW f \in Facts, Outbox!Handle(f)
        PROVE  OutboxOK' /\ Sent \subseteq Sent'
    BY <1>2 DEF OutboxOK, PhasesOK, Sent, Outbox!Handle
  <1>3. ASSUME NEW f \in Facts, Outbox!Drop(f)
        PROVE  OutboxOK' /\ Sent \subseteq Sent'
    BY <1>3 DEF OutboxOK, PhasesOK, Sent, Outbox!Drop
  <1>4. ASSUME NEW r \in Outbox!Entries, Outbox!Write(r)
        PROVE  OutboxOK' /\ Sent \subseteq Sent'
    BY <1>4 DEF OutboxOK, PhasesOK, Sent, Outbox!Write
  <1>5. ASSUME NEW r \in Outbox!Entries, Outbox!Skip(r)
        PROVE  OutboxOK' /\ Sent \subseteq Sent'
    BY <1>5 DEF OutboxOK, PhasesOK, Sent, Outbox!Skip
  <1>6. CASE UNCHANGED Outbox!mailbox
    BY <1>6 DEF OutboxOK, PhasesOK, Sent, Outbox!mailbox
  <1> QED
    BY <1>1, <1>2, <1>3, <1>4, <1>5, <1>6 DEF Outbox!Next

LEMMA ConferenceBooks ==
    ConferenceSpec => [](TypeOK /\ RemindersTypeOK /\ OutboxOK /\ asked \in 0..MaxRequests)
  <1> DEFINE Typed == TypeOK /\ RemindersTypeOK /\ OutboxOK /\ asked \in 0..MaxRequests
  <1>1. ConferenceInit => Typed
    <2> SUFFICES ASSUME ConferenceInit PROVE Typed
      OBVIOUS
    <2>1. TypeOK
      BY InitTyped DEF ConferenceInit
    <2>2. RemindersTypeOK
      BY TimesAssumption DEF ConferenceInit, RemindersInit, RemindersTypeOK
    <2>3. OutboxOK
      BY DEF ConferenceInit, Outbox!Init, OutboxOK, PhasesOK
    <2>4. asked \in 0..MaxRequests
      BY BusAssumption DEF ConferenceInit
    <2> QED
      BY <2>1, <2>2, <2>3, <2>4
  <1>2. Typed /\ [ConferenceNext]_conferenceVars => Typed'
    <2> SUFFICES ASSUME Typed, [ConferenceNext]_conferenceVars PROVE Typed'
      OBVIOUS
    <2>1. asked' \in 0..MaxRequests
      <3>1. asked' = asked \/ (asked < MaxRequests /\ asked' = asked + 1)
        BY DEF ConferenceNext, EventsServiceStep, RemindersStep,
               NotificationsStep, conferenceVars, Ask, Handle
      <3> QED
        BY <3>1, BusAssumption
    <2> QED
      BY <2>1, ServiceTyped, RemindersTyped, MailboxStep, OutboxKept
  <1> QED
    BY <1>1, <1>2, PTL DEF ConferenceSpec

(* However the services interleave, each keeps to its types: the job never *)
(* has anybody but users to remind, the outbox an entry for each recipient *)
(* of each fact, and no more requests come in than the bound.              *)
THEOREM ConferenceTyped == ConferenceSpec => []ConferenceTypeOK
  <1>1. TypeOK /\ RemindersTypeOK /\ OutboxOK /\ asked \in 0..MaxRequests
          => ConferenceTypeOK
    BY DEF OutboxOK, PhasesOK, ConferenceTypeOK
  <1> QED
    BY <1>1, ConferenceBooks, PTL

(* A fact once published is there for good ...                             *)
LEMMA FactsStay ==
    ASSUME Sent \subseteq Sent', NEW key, NEW u, FactsFor(key, u) # {}
    PROVE  FactsFor(key, u)' # {}
  BY DEF FactsFor

(* ... and reaches whom it is published to.                                *)
LEMMA PublishReaches ==
    ASSUME PhasesOK, NEW key, NEW to, NEW u \in to, Publish(key, to)
    PROVE  FactsFor(key, u)' # {}
  <1>1. PICK f \in Facts : f.key = key /\ f.to = to /\ Outbox!Publish(f)
    BY DEF Publish
  <1>2. phase'[f] = "published"
    BY <1>1 DEF Outbox!Publish, PhasesOK
  <1>3. f \in FactsFor(key, u)'
    BY <1>1, <1>2 DEF FactsFor, Sent
  <1> QED
    BY <1>3

-----------------------------------------------------------------------------
(* Who is announced. *)

LEMMA ConfirmedRow ==
    ASSUME TypeOK, FreshRows, NEW r \in Confirmed
    PROVE  /\ r \in RegIds /\ r <= created
           /\ regs[r].user \in Users /\ regs[r].place \in Places
  <1>1. r \in RegIds /\ regs[r] \in Registration
    BY DEF TypeOK, Confirmed, NoRow
  <1>2. r <= created
    BY <1>1, BoundsAssumption DEF FreshRows, Confirmed, NoRow, TypeOK, RegIds
  <1> QED
    BY <1>1, <1>2 DEF Registration

(* Only an announcement tells somebody of a confirmation, and it publishes *)
(* the fact of it.                                                         *)
LEMMA TellingPublishes ==
    ASSUME TypeOK, NEW c \in Slots, Ask(c) \/ Handle(c), NEW r \in RegIds,
           told[r] # "CONFIRMED", told'[r] = "CONFIRMED"
    PROVE  regs' = regs /\ Publish("CONFIRMED", {regs[r].user})
  <1>1. CASE Ask(c)
    BY <1>1 DEF Ask, Receive, history
  <1>2. CASE AnnounceCall(c)
    <2>1. /\ regs' = regs /\ calls[c].row \in RegIds
          /\ told' = [told EXCEPT ![calls[c].row] =
                         IF regs[calls[c].row].status = calls[c].says
                         THEN calls[c].says ELSE "ASTRAY"]
      BY <1>2 DEF AnnounceCall, Announce, rows, TypeOK, Call
    <2>2. r = calls[c].row /\ calls[c].says = "CONFIRMED"
      BY <2>1 DEF TypeOK
    <2> QED
      BY <1>2, <2>1, <2>2 DEF AnnounceCall
  <1>3. CASE PromotedCall(c)
    <2> DEFINE found == {s \in RowsOf(calls[c].next, regs[calls[c].row].place) :
                            regs[s].status = "CONFIRMED"}
    <2>1. /\ regs' = regs
          /\ \/ told' = told
             \/ \E s \in found : told' = [Lost(Owed(c)) EXCEPT ![s] = "CONFIRMED"]
      BY <1>3 DEF PromotedCall, AnnouncePromoted, rows
    <2>2. PICK s \in found : told' = [Lost(Owed(c)) EXCEPT ![s] = "CONFIRMED"]
      BY <2>1
    <2>3. r = s
      BY <2>2 DEF Lost
    <2>4. /\ r \in Confirmed /\ regs[r].user = calls[c].next
          /\ regs[r].place = regs[calls[c].row].place
      BY <2>3 DEF RowsOf, Confirmed
    <2> QED
      BY <1>3, <2>1, <2>4 DEF PromotedCall
  <1>4. ASSUME told' = told
        PROVE  FALSE
    BY <1>4
  <1>5. CASE CancelledEventCall(c)
    BY <1>4, <1>5 DEF CancelledEventCall, AnnounceCancelledEvent
  <1>6. CASE AnnounceFails(c)
    BY <1>6 DEF AnnounceFails, Lost
  <1>7. CASE CancelledEventFails(c)
    BY <1>4, <1>7 DEF CancelledEventFails
  <1>8. CASE /\ calls[c].step \notin {"announce", "promoted"}
             /\ RegistrationStep(c) \/ EventStep(c)
    <2>1. Step(c) /\ ~Announce(c) /\ ~AnnouncePromoted(c) /\ ~AnnounceFails(c)
      BY <1>8 DEF Step, Announce, AnnouncePromoted, AnnounceFails, At
    <2> QED
      BY <1>4, <2>1, ToldUntouched
  <1> QED
    BY <1>1, <1>2, <1>3, <1>5, <1>6, <1>7, <1>8 DEF Handle, SilentCall

LEMMA TicketsKept ==
    ASSUME TypeOK, TypeOK', OutboxOK, FreshRows, TruthInv, TicketInv,
           [ConferenceNext]_conferenceVars
    PROVE  TicketInv'
  <1>1. Sent \subseteq Sent' /\ PhasesOK
    BY MailboxStep, OutboxKept DEF OutboxOK
  <1>2. CASE UNCHANGED vars
    <2>1. regs' = regs /\ told' = told
      BY <1>2 DEF vars, history
    <2>2. \A u : FactsFor("CONFIRMED", u) # {} => FactsFor("CONFIRMED", u)' # {}
      BY <1>1, FactsStay
    <2> QED
      BY <2>1, <2>2 DEF TicketInv, RowExists
  <1>3. ASSUME NEW c \in Slots, Ask(c) \/ Handle(c),
               NEW r \in RegIds, RowExists(r)', told'[r] = "CONFIRMED"
        PROVE  FactsFor("CONFIRMED", regs[r].user)' # {}
    <2>1. Step(c) \/ Receive(c)
      BY <1>3, HandleIsStep, AskIsReceive
    <2>2. CASE told[r] = "CONFIRMED"
      <3>1. r <= created
        <4>1. r \in Nat /\ created \in Nat
          BY BoundsAssumption DEF RegIds, TypeOK
        <4>2. ~(r > created)
          BY <2>2 DEF TruthInv
        <4> QED
          BY <4>1, <4>2
      <3>2. \A w : ~(regs[r].place = w /\ DeleteEffect(w))
        BY <1>3 DEF DeleteEffect, RowExists, NoRow
      <3>3. regs'[r].user = regs[r].user
        BY <2>1, <3>1, <3>2, RowsMove
      <3>4. regs'[r].user # Nobody
        BY <1>3, UsersAssumption DEF TypeOK, RowExists, NoRow, Registration
      <3>5. RowExists(r)
        BY <3>3, <3>4, UsersAssumption
           DEF TypeOK, RowExists, NoRow, Registration, RegistrationStatus,
               SEAT_TAKING
      <3>6. FactsFor("CONFIRMED", regs[r].user) # {}
        BY <2>2, <3>5 DEF TicketInv
      <3> QED
        BY <1>1, <3>3, <3>6, FactsStay
    <2>3. CASE told[r] # "CONFIRMED"
      <3>1. regs' = regs /\ Publish("CONFIRMED", {regs[r].user})
        BY <1>3, <2>3, TellingPublishes
      <3> QED
        BY <1>1, <3>1, PublishReaches
    <2> QED
      BY <2>2, <2>3
  <1> QED
    BY <1>2, <1>3 DEF TicketInv, ConferenceNext, EventsServiceStep,
                      RemindersStep, NotificationsStep, conferenceVars

(* ConfirmedIsMailed: when all is done, whoever holds a confirmed          *)
(* registration, by the test of create, by an approval or by a promotion,  *)
(* has a ticket in the outbox, or opted out, or the message about it was   *)
(* dropped; with any number of handlers at once, unless an announcement    *)
(* went astray before it was published.                                    *)
THEOREM TicketsAreMailed == ConferenceSpec => []ConfirmedIsMailed
  <1>1. ConferenceInit => TicketInv
    BY DEF ConferenceInit, Init, TicketInv
  <1>2. /\ TypeOK /\ TypeOK' /\ OutboxOK /\ LedgerInv /\ TruthInv /\ TicketInv
        /\ [ConferenceNext]_conferenceVars
        => TicketInv'
    BY TicketsKept DEF LedgerInv
  <1>3. TypeOK /\ OutboxOK /\ ToldTheTruth /\ TicketInv => ConfirmedIsMailed
    <2> SUFFICES ASSUME TypeOK, OutboxOK, ToldTheTruth, TicketInv, Settled,
                        NEW r \in Confirmed, told[r] # "ASTRAY"
                 PROVE  \E f \in FactsFor("CONFIRMED", regs[r].user) :
                           \/ entry[<<f, regs[r].user>>] # "none"
                           \/ phase[f] = "dropped"
      BY DEF ConfirmedIsMailed
    <2>1. RowExists(r) /\ told[r] = "CONFIRMED" /\ r \in RegIds
      BY DEF Settled, ToldTheTruth, WordFor, Confirmed, RowExists
    <2>2. PICK f \in FactsFor("CONFIRMED", regs[r].user) : TRUE
      BY <2>1 DEF TicketInv
    <2>3. f \in Facts /\ regs[r].user \in f.to /\ phase[f] \in {"handled", "dropped"}
      BY <2>2 DEF FactsFor, Sent, Settled, OutboxOK, PhasesOK
    <2>4. <<f, regs[r].user>> \in Outbox!Entries
      <3>1. regs[r].user \in Users
        BY DEF TypeOK, Registration, NoRow, Confirmed
      <3> QED
        BY <2>3, <3>1 DEF Outbox!Entries
    <2>5. phase[f] = "handled" => entry[<<f, regs[r].user>>] # "none"
      BY <2>3, <2>4 DEF OutboxOK
    <2> QED
      BY <2>2, <2>3, <2>5
  <1> QED
    BY <1>1, <1>2, <1>3, ServiceTakesPart, TypeCorrect, LedgerBooks,
       AnnouncementsStayTrue, AnnouncementsAreTrue, ConferenceBooks,
       PTL DEF ConferenceSpec

-----------------------------------------------------------------------------
(* Who is reminded. *)

(* A step of the events service: who held out before has the same user,    *)
(* and who begins to does so before the window opens.                      *)
LEMMA ServiceReminds ==
    ASSUME TypeOK, RemindersTypeOK, FreshRows, ReminderInv, Sent \subseteq Sent',
           EventsServiceStep
    PROVE  ReminderInv'
  <1>1. PICK c \in Slots : Ask(c) \/ Handle(c)
    BY DEF EventsServiceStep
  <1>2. Step(c) \/ Receive(c)
    BY <1>1, HandleIsStep, AskIsReceive
  <1>3. UNCHANGED <<clock, due, missed>> /\ HoldsOut
    BY DEF EventsServiceStep
  <1>4. ASSUME NEW r \in steadfast'
        PROVE  /\ eventStatus' = "PUBLISHED" /\ regs'[r].status = "CONFIRMED"
               /\ r \in RegIds
               /\ BeforeWindow \/ r \in steadfast
    BY <1>3, <1>4 DEF HoldsOut
  <1>5. ASSUME NEW r \in steadfast', missed' <= 1
        PROVE  ReminderAhead(r)'
    <2>1. CASE BeforeWindow
      <3>1. Start > clock + 48
        BY <2>1, TimesAssumption DEF BeforeWindow, RemindersTypeOK
      <3> QED
        BY <1>3, <3>1 DEF ReminderAhead
    <2>2. CASE r \in steadfast
      <3>1. r \in Confirmed /\ ReminderAhead(r)
        BY <1>3, <1>4, <1>5, <2>2 DEF ReminderInv, Confirmed
      <3>2. \A w : ~(regs[r].place = w /\ DeleteEffect(w))
        BY <1>4 DEF DeleteEffect, NoRow
      <3>3. regs'[r].user = regs[r].user
        BY <1>2, <3>1, <3>2, RowsMove, ConfirmedRow
      <3>4. FactsFor("REMINDER", regs[r].user) # {}
              => FactsFor("REMINDER", regs[r].user)' # {}
        BY <3>3, FactsStay
      <3> QED
        BY <1>3, <3>1, <3>3, <3>4 DEF ReminderAhead
    <2> QED
      BY <1>4, <2>1, <2>2
  <1> QED
    BY <1>4, <1>5 DEF ReminderInv

(* A run of the job: before the window has closed it finds everybody.      *)
LEMMA RunReminds ==
    ASSUME TypeOK, RemindersTypeOK, PhasesOK, FreshRows, ReminderInv,
           Sent \subseteq Sent', RemindersStep, NEW r \in steadfast, missed' <= 1
    PROVE  ReminderAhead(r)'
  <1>1. /\ clock \in Nat /\ Start \in Nat /\ missed \in Nat
        /\ r \in Confirmed /\ eventStatus = "PUBLISHED"
    BY TimesAssumption DEF RemindersTypeOK, ReminderInv, Confirmed
  <1>2. regs' = regs
    BY DEF RemindersStep, vars
  <1>3. ASSUME missed <= 1 PROVE ReminderAhead(r)
    BY <1>3 DEF ReminderInv
  <1>4. CASE FactsFor("REMINDER", regs[r].user) # {}
    BY <1>2, <1>4, FactsStay DEF ReminderAhead
  <1>5. CASE EmitDueReminders /\ FactsFor("REMINDER", regs[r].user) = {}
    <2>1. missed' = missed /\ clock' = clock + 2 /\ due = {}
      BY <1>5 DEF EmitDueReminders
    <2>2. \/ Start > clock + 50
          \/ Start >= clock + 47 /\ Start <= clock + 50 /\ (Start > clock + 48 \/ missed >= 1)
      BY <1>1, <1>3, <1>5, <2>1 DEF ReminderAhead
    <2>3. CASE Start > clock + 50
      BY <1>1, <2>1, <2>3 DEF ReminderAhead
    <2>4. CASE Start >= clock + 47 /\ Start <= clock + 50
      <3>1. \A late \in BOOLEAN : InWindow(late)
        BY <1>1, <2>4 DEF InWindow
      <3>2. regs[r].user \in due'
        BY <1>1, <1>5, <3>1 DEF EmitDueReminders, Recipients
      <3>3. Start > clock + 48 => Start > clock' + 46
        BY <1>1, <2>1
      <3> QED
        BY <1>1, <1>2, <2>1, <2>2, <2>4, <3>2, <3>3 DEF ReminderAhead
    <2> QED
      BY <2>2, <2>3, <2>4
  <1>6. CASE MissRun /\ FactsFor("REMINDER", regs[r].user) = {}
    <2>1. missed' = missed + 1 /\ missed = 0
      BY <1>1, <1>6 DEF MissRun
    <2>2. Start > clock + 48 \/ (Start > clock + 46 /\ due # {})
      BY <1>3, <1>6, <2>1 DEF ReminderAhead
    <2>3. clock' = clock \/ (clock' = clock + 2 /\ due = {})
      BY <1>6 DEF MissRun
    <2>4. Start > clock' + 46 /\ missed' >= 1
      BY <1>1, <2>1, <2>2, <2>3
    <2> QED
      BY <2>4 DEF ReminderAhead
  <1>7. CASE Reminded /\ Publish("REMINDER", due)
    <2>1. CASE regs[r].user \in due
      BY <1>2, <1>7, <2>1, PublishReaches DEF ReminderAhead
    <2>2. CASE regs[r].user \notin due
      BY <1>2, <1>3, <1>4, <1>7, <2>2 DEF ReminderAhead, Reminded
    <2> QED
      BY <2>1, <2>2
  <1> QED
    BY <1>4, <1>5, <1>6, <1>7 DEF RemindersStep

LEMMA RemindersKept ==
    ASSUME TypeOK, RemindersTypeOK, OutboxOK, FreshRows, ReminderInv,
           [ConferenceNext]_conferenceVars
    PROVE  ReminderInv'
  <1>1. Sent \subseteq Sent' /\ PhasesOK
    BY MailboxStep, OutboxKept DEF OutboxOK
  <1>2. CASE EventsServiceStep
    BY <1>1, <1>2, ServiceReminds
  <1>3. CASE RemindersStep
    <2>1. steadfast' = steadfast /\ regs' = regs /\ eventStatus' = eventStatus
      BY <1>3 DEF RemindersStep, EmitDueReminders, MissRun, Reminded, vars
    <2> QED
      BY <1>1, <1>3, <2>1, RunReminds DEF ReminderInv
  <1>4. CASE UNCHANGED <<vars, reminderVars>>
    <2>1. /\ steadfast' = steadfast /\ regs' = regs /\ eventStatus' = eventStatus
          /\ missed' = missed /\ due' = due /\ clock' = clock
      BY <1>4 DEF vars, reminderVars
    <2>2. ASSUME NEW r \in steadfast, missed <= 1
          PROVE  ReminderAhead(r)'
      <3>1. ReminderAhead(r)
        BY <2>2 DEF ReminderInv
      <3>2. FactsFor("REMINDER", regs[r].user) # {}
              => FactsFor("REMINDER", regs[r].user)' # {}
        BY <1>1, <2>1, FactsStay
      <3> QED
        BY <2>1, <3>1, <3>2 DEF ReminderAhead
    <2> QED
      BY <2>1, <2>2 DEF ReminderInv
  <1> QED
    BY <1>2, <1>3, <1>4 DEF ConferenceNext, NotificationsStep, conferenceVars

(* Whoever is confirmed from before the window of an event that stays      *)
(* published is named in a reminder by the time the window has closed, as  *)
(* long as at most one run was missed, be it skipped or broken off before  *)
(* it published, and however late the others start.                        *)
THEOREM RemindersAreTimely ==
    ConferenceSpec => [](missed <= 1 => RemindedInTime)
  <1>1. ConferenceInit => ReminderInv
    BY DEF ConferenceInit, RemindersInit, ReminderInv
  <1>2. /\ TypeOK /\ RemindersTypeOK /\ OutboxOK /\ LedgerInv /\ ReminderInv
        /\ [ConferenceNext]_conferenceVars
        => ReminderInv'
    BY RemindersKept DEF LedgerInv
  <1>3. RemindersTypeOK /\ ReminderInv => (missed <= 1 => RemindedInTime)
    <2> SUFFICES ASSUME RemindersTypeOK, ReminderInv, missed <= 1, AfterWindow,
                        NEW r \in steadfast
                 PROVE  FactsFor("REMINDER", regs[r].user) # {}
      BY DEF RemindedInTime
    <2>1. ReminderAhead(r) /\ due = {} /\ Start < clock + 46
      BY DEF ReminderInv, AfterWindow
    <2>2. ~(Start > clock + 46) /\ ~(Start > clock + 48)
      BY <2>1, TimesAssumption DEF RemindersTypeOK
    <2> QED
      BY <2>1, <2>2 DEF ReminderAhead
  <1> QED
    BY <1>1, <1>2, <1>3, ServiceTakesPart, LedgerBooks, ConferenceBooks,
       PTL DEF ConferenceSpec

=============================================================================
