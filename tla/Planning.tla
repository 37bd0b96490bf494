------------------------------ MODULE Planning ------------------------------
(***************************************************************************)
(* The organisers' side of the events service: requests are delivered to   *)
(* its slots and their handlers interleave at their database accesses.     *)
(* A crash only starts a request again, as a client that repeats it does.  *)
(***************************************************************************)
EXTENDS Categories, EventPlans

(* Nothing yet, or a category with an event of some organiser and one of   *)
(* its tracks, each with a form that has no fields yet.                    *)
AnyName == CHOOSE name \in Names : TRUE
AnySpan == CHOOSE span \in Spans : span.starts < span.ends

ASSUME PlanningStart ==
    /\ Names # {} /\ \E span \in Spans : span.starts < span.ends
    /\ MaxEvents >= 1

SomeCategory == [exists |-> TRUE, slug |-> Root(AnyName), parent |-> Top,
                 public |-> TRUE]
SomeEvent == [exists |-> TRUE, slug |-> Root(AnyName), span |-> AnySpan,
              fields |-> {}, version |-> 1]
SomeTrack == [exists |-> TRUE, event |-> 1, span |-> AnySpan, fields |-> {},
              version |-> 1]

Init ==
    /\ \/ /\ categories = [i \in CatIds |-> NoRow]
          /\ events = [i \in EventIds |-> NoRow]
          /\ tracks = [i \in TrackIds |-> NoRow]
          /\ roles = [r \in EventIds \X {a.user : a \in Actors} |-> "NONE"]
       \/ /\ categories = [i \in CatIds |-> IF i = 1 THEN SomeCategory ELSE NoRow]
          /\ events = [i \in EventIds |-> IF i = 1 THEN SomeEvent ELSE NoRow]
          /\ tracks = [i \in TrackIds |-> IF i = 1 THEN SomeTrack ELSE NoRow]
          /\ \E a \in Actors :
                roles = [r \in EventIds \X {b.user : b \in Actors} |->
                            IF r = <<1, a.user>> THEN "OWNER" ELSE "NONE"]
    /\ calls = [c \in Slots |-> Idle]
    /\ requests = 0
    /\ looped = {} /\ unchecked = {}

(* Ids are random: a request names rows that were created.                 *)
Nameable(q) ==
    /\ q.op = "createCategory" =>
          (q.parent \in CatIds => categories[q.parent].exists)
    /\ q.op = "updateCategory" =>
          /\ categories[q.id].exists
          /\ q.parent \in CatIds => categories[q.parent].exists
    /\ q.op = "create" => categories[q.category].exists
    /\ q.op \in {"update", "createSession", "upsertForm"} => events[q.event].exists
    /\ q.op \in {"updateSession", "deleteSession", "upsertSessionForm"} =>
          tracks[q.track] # NoRow

Receive(c) ==
    /\ calls[c].step = "idle"
    /\ requests < MaxRequests
    /\ requests' = requests + 1
    /\ \E q \in {r \in Requests : Nameable(r)} :
          calls' = [calls EXCEPT ![c] = [Idle EXCEPT !.req = q, !.step = "start"]]
    /\ UNCHANGED <<categories, events, roles, tracks, looped, unchecked>>

Next == \E c \in Slots : Receive(c) \/ CategoryStep(c) \/ PlanStep(c)

Spec == Init /\ [][Next]_vars
-----------------------------------------------------------------------------
(***************************************************************************)
(* Safety.                                                                 *)
(***************************************************************************)

(* An insert meets its slug taken (CONFLICT, not retried) only if another  *)
(* creation or a rename took the very candidate after uniqueSlug looked    *)
(* for it: `exists` looks into the table the insert goes to, and the slug  *)
(* inserted is the candidate looked for.                                   *)
ConflictNeedsRace ==
    \A c \in Slots, op \in {"createCategory", "create"} :
        At(c, {op}, "insert") /\ Taken(TableOf(op), SlugOf(c))
        => calls[c].beaten

(* The tree shows every category it listed, the children of private ones   *)
(* at the top of the public tree, unless a category above it was moved     *)
(* below itself: update refuses a category as its own parent and no        *)
(* longer loop, and a loop takes what hangs on it out of the tree.         *)
TreeComplete ==
    \A includePrivate \in BOOLEAN :
        LET rows == Listed(includePrivate) IN
        \A i \in rows \ Tree(rows) : \E l \in looped : i \in Below(l)

(* An answer has one question: a track's form asks under no key of its     *)
(* event's form, unless that very question of the event was inserted after *)
(* the track's was compared, also where two upserts of a form overlap and  *)
(* leave the fields of both.                                               *)
KeysApart ==
    \A t \in TrackIds : tracks[t].exists =>
        \A f \in tracks[t].fields, g \in events[tracks[t].event].fields :
            f.key = g.key => f.against < g.no

(* Events and tracks end after they start, unless an event was given only  *)
(* one of its dates, or a track was given any, since both were compared.   *)
EndsAfterStart(row) == row.span.starts < row.span.ends
DatesInOrder ==
    /\ \A e \in EventIds : events[e].exists =>
          EndsAfterStart(events[e]) \/ <<"event", e>> \in unchecked
    /\ \A t \in TrackIds : tracks[t].exists =>
          EndsAfterStart(tracks[t]) \/ <<"track", t>> \in unchecked
=============================================================================
