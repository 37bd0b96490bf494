--------------------------- MODULE MCNotifications ---------------------------
(***************************************************************************)
(* Small instances of Notifications: what the other services publish, what *)
(* people ask of this one.                                                 *)
(***************************************************************************)
EXTENDS Notifications, TLC

CONSTANTS u1, u2,              \* two users
          ticket, notice,      \* template keys with a default
          plain, fresh         \* wordings: the default and an edited one

TwoUsers == {u1, u2}
Templated == {ticket, notice}
Wordings == {plain, fresh}
FileDefaults == [k \in Templated |-> IF k = ticket THEN plain ELSE Missing]

Fact(id, kind, key, channel, to) ==
    [id |-> id, kind |-> kind, key |-> key, channel |-> channel, to |-> to]

(* Intake and delivery: a fan-out to both users, one of whose deliveries   *)
(* an admin retries.                                                       *)
FanOut == Fact(1, "many", ticket, "EMAIL", {u1, u2})
IntakeFacts == {FanOut}
IntakeOrders == {[id |-> 10, kind |-> "retry", row |-> <<FanOut, u1>>]}

(* Wording: a mail and a text message of one template while it is edited   *)
(* and the user opts out and in.                                           *)
WordingFacts ==
    {Fact(1, "registration", ticket, "EMAIL", {u1}),
     Fact(2, "direct", ticket, "SMS", {u2})}
WordingOrders ==
    {[id |-> 10, kind |-> "edit", key |-> ticket, channel |-> "EMAIL", content |-> fresh],
     [id |-> 11, kind |-> "prefer", user |-> u1, key |-> ticket, enabled |-> FALSE],
     [id |-> 12, kind |-> "prefer", user |-> u1, key |-> ticket, enabled |-> TRUE]}

Peers == Permutations(Slots)
=============================================================================
