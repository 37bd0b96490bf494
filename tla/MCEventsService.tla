--------------------------- MODULE MCEventsService ---------------------------
(***************************************************************************)
(* Small instances of EventsService: the workloads that the runs choose    *)
(* from, and the symmetry of users and slots.                              *)
(***************************************************************************)
EXTENDS EventsService, TLC

(* Attendees register and cancel: at a workshop or for the event itself.   *)
AnsweredRequests == {q \in CreateRequests : q.answered}
Joining == {q \in AnsweredRequests : q.place # EventLevel}
JoiningEvent == {q \in AnsweredRequests : q.place = EventLevel}
Doing(ops) == {q \in RowRequests : q.op \in ops}

WorkshopAttendees == Joining \cup Doing({"cancel"})

(* The registration desk of the event: everything done to registrations.   *)
EventDesk == JoiningEvent \cup RowRequests

(* Attendees of the workshops while the event comes and goes around them:  *)
(* published and cancelled, workshops created, resized and deleted, the    *)
(* form opened, closed and given questions.                                *)
Resizing == {q \in CapacityRequests : q.place # EventLevel}
Lifecycle == WorkshopAttendees \cup Resizing \cup SessionRequests
                \cup DropRequests \cup EventRequests \cup FormRequests

(* Bound of that run: nobody registers for the event itself, so that its   *)
(* capacity may as well be the smallest.                                   *)
SmallHall == capacity[EventLevel] = 1

(* Attendees who also show up, at a workshop that may be deleted.          *)
Attendance == Joining \cup Doing({"cancel", "checkIn"}) \cup DropRequests

(* Handlers that decide on what they read, each beside one that changes it *)
Refusing == Attendance \cup EventRequests

Peers == Permutations(Users) \cup Permutations(Slots)
=============================================================================
