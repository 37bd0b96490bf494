----------------------------- MODULE MCPlanning -----------------------------
(***************************************************************************)
(* A small instance of Planning.                                           *)
(***************************************************************************)
EXTENDS Planning, TLC

CONSTANTS talk, two, three, four, item, xarun, size, laptop

(* 'Talk', 'Talk 2' and a name without a Latin letter *)
SomeNames == {<<talk>>, <<talk, two>>, <<xarun>>}
LatinWords == {talk, two, three, four, item}
Numerals == <<item, two, three, four>>

Organiser == [user |-> "o1", role |-> "ORGANIZER"]
Stranger  == [user |-> "o2", role |-> "ORGANIZER"]
Admin     == [user |-> "a", role |-> "ADMIN"]
Planners  == {Organiser, Stranger, Admin}

Lists == {Kept, <<>>, <<size>>, <<laptop>>, <<size, laptop>>, <<size, size>>}

(* Public and private categories are made, renamed and moved; the titles   *)
(* of events clash; dates change together and alone; forms exchange keys.  *)
Naming == {q \in CreateCategoryRequests : q.public \/ q.parent = Top}
            \cup {q \in CreateRequests : q.category = 1 /\ q.by = Organiser}
Moving == {q \in UpdateCategoryRequests :
              q.name \in {Kept, <<talk, two>>, <<xarun>>} /\ (q.public \/ q.name = Kept)}
Dating == {q \in UpdateRequests : q.by \in {Organiser, Stranger}}
            \cup {q \in RetimeRequests \cup TrackRequests : q.by = Organiser}
Asking == {q \in FormRequests \cup TrackFormRequests \cup DropRequests :
              q.by = Admin /\ (q.op = "deleteSession" \/ q.fields \in Lists)}
Workload == Naming \cup Moving \cup Dating \cup Asking

Peers == Permutations(Slots)
=============================================================================
