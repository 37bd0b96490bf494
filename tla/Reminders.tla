------------------------------ MODULE Reminders ------------------------------
(***************************************************************************)
(* RemindersService: the hourly job that looks for published events about  *)
(* a day away and publishes event.reminder_due with the users who hold a   *)
(* CONFIRMED registration, at whatever place.                              *)
(*                                                                         *)
(* Time is counted in half hours.  The job is due on every full hour and   *)
(* computes its window from the time it really starts, which may be a      *)
(* little late.  Nothing records what was reminded: a run that was missed  *)
(* is not made up for, and each run publishes a fact of its own.           *)
(***************************************************************************)
EXTENDS EventsDb

CONSTANTS
    Start,        \* the event's startsAt, in half hours
    LastHour,     \* bound: the last run of the job
    MaxMissed     \* bound: runs missed because the process is down

ASSUME TimesAssumption ==
    Start \in Nat /\ LastHour \in Nat /\ MaxMissed \in Nat

VARIABLES
    clock,        \* the next full hour, in half hours
    due,          \* what the run in progress has read: users to be reminded
    missed,       \* runs missed so far
    steadfast     \* history: registrations CONFIRMED, with the event PUBLISHED,
                  \* ever since before its window opened

reminderVars == <<clock, due, missed, steadfast>>

RemindersTypeOK ==
    /\ clock \in Nat
    /\ due \subseteq Users
    /\ missed \in 0..MaxMissed
    /\ steadfast \subseteq RegIds

RemindersInit == clock = 0 /\ due = {} /\ missed = 0 /\ steadfast = {}

(* startsAt: { gte: now + 23h, lte: now + 25h }, inclusive at both ends;   *)
(* a late run has just lost the lower one                                  *)
InWindow_OneHour(late) ==
    Start >= clock + 46 + (IF late THEN 1 ELSE 0) /\ Start <= clock + 48
InWindow(late) ==
    Start >= clock + 46 + (IF late THEN 1 ELSE 0) /\ Start <= clock + 50

Confirmed == {r \in RegIds : regs[r].status = "CONFIRMED"}

(* the users among the recipients *)
Recipients_ById == Confirmed
Recipients == {regs[r].user : r \in Confirmed}

(* emitDueReminders reads the event and its confirmed registrations at     *)
(* once; an event without any is passed over                               *)
EmitDueReminders ==
    /\ due = {} /\ clock <= LastHour
    /\ \E late \in BOOLEAN :
          due' = IF eventStatus = "PUBLISHED" /\ InWindow(late)
                 THEN Recipients ELSE {}
    /\ clock' = clock + 2
    /\ UNCHANGED <<missed, steadfast>>

(* ... and publishes; the conference says what becomes of the message      *)
Reminded ==
    /\ due # {}
    /\ due' = {}
    /\ UNCHANGED <<clock, missed, steadfast>>

(* the process is down at the hour, or dies before it has published        *)
MissRun ==
    /\ missed < MaxMissed
    /\ missed' = missed + 1
    /\ due' = {}
    /\ clock' = IF due = {} THEN clock + 2 ELSE clock
    /\ due = {} => clock <= LastHour
    /\ UNCHANGED steadfast

(* the window opens 25 hours before the event and has closed after 23      *)
BeforeWindow == Start > clock + 50
AfterWindow == due = {} /\ Start < clock + 46

(* what a step of the events service does to who has held out *)
HoldsOut ==
    steadfast' =
        IF eventStatus' # "PUBLISHED" THEN {}
        ELSE {r \in RegIds : /\ regs'[r].status = "CONFIRMED"
                             /\ BeforeWindow \/ r \in steadfast}
=============================================================================
