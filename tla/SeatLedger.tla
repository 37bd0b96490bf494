----------------------------- MODULE SeatLedger -----------------------------
(***************************************************************************)
(* What the events service promises about the seats of one place, without  *)
(* requests, tables or a queue: who holds a seat and who waits for one.    *)
(*                                                                         *)
(* A seat is counted if it was given while fewer were taken than the place *)
(* has, or passed on by whoever held a counted one.  The others are extra: *)
(* the desk gave them, or somebody left who held none.                     *)
(***************************************************************************)
EXTENDS Naturals, FiniteSets

CONSTANT Ids             \* registrations

VARIABLES
    counted, extra,      \* registrations with a seat
    waiting,             \* registrations without one, in the queue
    limit                \* the most seats the place ever had; 0 is no limit

ledger == <<counted, extra, waiting, limit>>

Init == /\ counted = {} /\ extra = {} /\ waiting = {}
        /\ limit \in Nat

Unknown(r) == r \notin counted \cup extra \cup waiting

(* a newcomer takes a free seat, or waits *)
Admit(r) ==
    /\ Unknown(r)
    /\ limit # 0 => Cardinality(counted \cup extra) < limit
    /\ counted' = counted \cup {r}
    /\ UNCHANGED <<extra, waiting, limit>>

Queue(r) ==
    /\ Unknown(r)
    /\ waiting' = waiting \cup {r}
    /\ UNCHANGED <<counted, extra, limit>>

(* whoever leaves lets at most one in, whose seat is counted if theirs was *)
Leave(r) ==
    \E next \in {{}} \cup {{w} : w \in waiting \ {r}} :
        /\ waiting' = waiting \ ({r} \cup next)
        /\ IF r \in counted
           THEN counted' = (counted \ {r}) \cup next /\ extra' = extra
           ELSE counted' = counted /\ extra' = (extra \ {r}) \cup next
        /\ UNCHANGED limit

(* the desk gives a seat to somebody without one, or takes it away *)
Seat(r) ==
    /\ r \notin counted
    /\ extra' = extra \cup {r}
    /\ waiting' = waiting \ {r}
    /\ UNCHANGED <<counted, limit>>

TurnAway(r) ==
    /\ counted' = counted \ {r}
    /\ extra' = extra \ {r}
    /\ waiting' = waiting \ {r}
    /\ UNCHANGED limit

(* the capacity is changed: the largest there was can only grow *)
Resize ==
    /\ limit' = 0 \/ (limit # 0 /\ limit' > limit)
    /\ UNCHANGED <<counted, extra, waiting>>

(* the place opens with a capacity, and closes for good *)
Open ==
    /\ counted \cup extra \cup waiting = {}
    /\ limit' \in Nat
    /\ UNCHANGED <<counted, extra, waiting>>

Close ==
    /\ counted' = {} /\ extra' = {} /\ waiting' = {}
    /\ UNCHANGED limit

Next == \/ \E r \in Ids : Admit(r) \/ Queue(r) \/ Leave(r) \/ Seat(r) \/ TurnAway(r)
        \/ Resize \/ Open \/ Close

Spec == Init /\ [][Next]_ledger
=============================================================================
