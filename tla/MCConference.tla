---------------------------- MODULE MCConference ----------------------------
(***************************************************************************)
(* A small instance of Conference: two people, one workshop with one seat. *)
(***************************************************************************)
EXTENDS Conference, TLC

AtTheDoor ==
    [op : {"create"}, user : Users, place : Workshops, answered : {TRUE}]
      \cup [op : {"cancel", "approve"}, reg : RegIds]
TheEventToo == AtTheDoor \cup {[op |-> "cancelEvent"]}

(* All that MaxRequests of these can publish: each may confirm somebody, a *)
(* person joins the workshop's queue once, a cancellation needs a          *)
(* registration, the event may be cancelled by each request that registers *)
(* nobody it has to warn; it is found due twice.                           *)
Person == {{u} : u \in Users}
FactsOfTheEvent ==
    [id : 1..MaxRequests, key : {"CONFIRMED"}, to : Person]
    \cup [id : {1}, key : {"WAITLISTED"}, to : Person]
    \cup [id : 1..(MaxRequests - 1), key : {"CANCELLED"}, to : Person]
    \cup {f \in [id : 1..MaxRequests, key : {"EVENT_CANCELLED"}, to : SUBSET Users] :
              f.id + Cardinality(f.to) <= MaxRequests}
    \cup [id : 1..2, key : {"REMINDER"}, to : (SUBSET Users) \ {{}}]

(* Bound: one run is missed, or one fact or recipient lost, but not both.  *)
OneFailure == missed + Cardinality(Dropped) + Cardinality(Skipped) <= 1

People == Permutations(Users)
=============================================================================
