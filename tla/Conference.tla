----------------------------- MODULE Conference -----------------------------
(***************************************************************************)
(* The events service, its hourly reminders and the notification service,  *)
(* joined by the bus: what a handler announces after its commit, and what  *)
(* the reminder job finds due, is a fact the notification service turns    *)
(* into entries of its outbox.  Of that service there is only what it      *)
(* promises, the Mailbox, which Notifications implements.                  *)
(*                                                                         *)
(* A user has the same id in both services.  registration.checked_in has   *)
(* no consumer, and that of event.published writes to nobody.              *)
(***************************************************************************)
EXTENDS EventsService, Reminders

CONSTANTS
    Facts,        \* bound: the facts that can be published
    MaxRequests,  \* bound: requests delivered to the events service
    MaxLost       \* bound: facts the notification service drops with an error
                  \* and recipients it skips

RegistrationKeys == {"CONFIRMED", "WAITLISTED", "REJECTED", "CANCELLED"}
FanOutKeys == {"EVENT_CANCELLED", "REMINDER"}

ASSUME FactsAssumption ==
    Facts \subseteq [id : Nat, key : RegistrationKeys \cup FanOutKeys,
                     to : SUBSET Users]
ASSUME BusAssumption == MaxRequests \in Nat /\ MaxLost \in Nat

VARIABLES
    asked,        \* requests delivered so far
    phase,        \* the mailbox: what became of each fact
    entry         \* the mailbox: what became of each of its recipients

Outbox == INSTANCE Mailbox
outbox == <<phase, entry>>
conferenceVars == <<vars, reminderVars, asked, outbox>>

ConferenceTypeOK ==
    /\ TypeOK /\ RemindersTypeOK /\ asked \in 0..MaxRequests
    /\ phase \in [Facts -> {"unsent", "published", "handled", "dropped"}]
    /\ entry \in [Outbox!Entries -> {"none", "skipped", "written"}]

ConferenceInit == Init /\ RemindersInit /\ asked = 0 /\ Outbox!Init

-----------------------------------------------------------------------------
(* publish wraps a payload in an envelope with an id of its own            *)
Sent == {f \in Facts : phase[f] # "unsent"}
Publish(key, to) ==
    \E f \in Facts \ Sent :
        /\ f.key = key /\ f.to = to
        /\ \A g \in Facts \ Sent : g.key = key /\ g.to = to => f.id <= g.id
        /\ Outbox!Publish(f)

(* the steps of a handler that publish ...                                 *)
AnnounceCall(c) ==
    /\ Announce(c)
    /\ IF calls[c].says = "CHECKED_IN" THEN UNCHANGED outbox
       ELSE Publish(calls[c].says, {regs[calls[c].row].user})

PromotedCall_Silent(c) == AnnouncePromoted(c) /\ UNCHANGED outbox
PromotedCall(c) ==
    /\ AnnouncePromoted(c)
    /\ IF \E r \in Confirmed : /\ regs[r].user = calls[c].next
                               /\ regs[r].place = regs[calls[c].row].place
       THEN Publish("CONFIRMED", {calls[c].next})
       ELSE UNCHANGED outbox

CancelledEventCall(c) ==
    AnnounceCancelledEvent(c) /\ Publish("EVENT_CANCELLED", Affected)

(* ... and those that do not, or fail before they do                       *)
SilentCall(c) ==
    /\ \/ /\ calls[c].step \notin {"announce", "promoted"}
          /\ RegistrationStep(c) \/ EventStep(c)
       \/ AnnounceFails(c) \/ CancelledEventFails(c)
    /\ UNCHANGED outbox

Ask(c) ==
    /\ asked < MaxRequests
    /\ asked' = asked + 1
    /\ Receive(c)
    /\ UNCHANGED outbox

Handle(c) ==
    /\ AnnounceCall(c) \/ PromotedCall(c) \/ CancelledEventCall(c) \/ SilentCall(c)
    /\ UNCHANGED asked

EventsServiceStep ==
    /\ \E c \in Slots : Ask(c) \/ Handle(c)
    /\ HoldsOut
    /\ UNCHANGED <<clock, due, missed>>

(* A person confirmed for several places is among the recipients more than *)
(* once, and written to once: the rows would have the same key.            *)
RemindersStep ==
    /\ \/ (EmitDueReminders \/ MissRun) /\ UNCHANGED outbox
       \/ Reminded /\ Publish("REMINDER", due)
    /\ UNCHANGED <<vars, asked>>

Dropped == {f \in Facts : phase[f] = "dropped"}
Skipped == {r \in Outbox!Entries : entry[r] = "skipped"}
NotificationsStep ==
    /\ \/ \E f \in Facts : Outbox!Handle(f)
       \/ \E r \in Outbox!Entries : Outbox!Write(r)
       \/ /\ Cardinality(Dropped) + Cardinality(Skipped) < MaxLost
          /\ \/ \E f \in Facts : Outbox!Drop(f)
             \/ \E r \in Outbox!Entries : Outbox!Skip(r)
    /\ UNCHANGED <<vars, reminderVars, asked>>

ConferenceNext == EventsServiceStep \/ RemindersStep \/ NotificationsStep

ConferenceSpec == ConferenceInit /\ [][ConferenceNext]_conferenceVars
-----------------------------------------------------------------------------
(***************************************************************************)
(* Safety, across the services.                                            *)
(***************************************************************************)

FactsFor(key, u) == {f \in Sent : f.key = key /\ u \in f.to}
Settled == Quiet /\ \A f \in Facts : phase[f] # "published"

(* When all is done, whoever holds a confirmed registration, by the test   *)
(* of create, by an approval or by a promotion, has a ticket in the        *)
(* outbox, or opted out, or the message about it was dropped, or went      *)
(* astray before it was published.                                         *)
ConfirmedIsMailed ==
    Settled => \A r \in Confirmed :
        \/ told[r] = "ASTRAY"
        \/ \E f \in FactsFor("CONFIRMED", regs[r].user) :
              entry[<<f, regs[r].user>>] # "none" \/ phase[f] = "dropped"

(* Who is confirmed from before the window of an event that stays          *)
(* published is named in a reminder by the time the window has closed,     *)
(* though a run was missed.                                                *)
RemindedInTime ==
    AfterWindow => \A r \in steadfast : FactsFor("REMINDER", regs[r].user) # {}
=============================================================================
