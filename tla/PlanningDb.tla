----------------------------- MODULE PlanningDb -----------------------------
(***************************************************************************)
(* What the organisers' side of the events service shares: categories,     *)
(* events with their roles and forms, workshop tracks with theirs, and the *)
(* requests being handled.  Columns that no decision reads are left out;   *)
(* registrations are the subject of EventsService.                         *)
(***************************************************************************)
EXTENDS Slugs, FiniteSets

CONSTANTS
    Names,        \* titles and category names
    Top,          \* no parent category
    Kept,         \* a field the request leaves alone
    Times,        \* instants
    Keys,         \* keys of form fields
    Actors,       \* whoever plans events, with the role in their token
    MaxCategories, MaxEvents, MaxTracks,  \* bounds: rows ever created
    Slots,        \* messages the service handles at once
    Requests,     \* the workload
    MaxRequests   \* bound: requests ever made

CatIds == 1..MaxCategories
EventIds == 1..MaxEvents
TrackIds == 1..MaxTracks

Spans == [starts : Times, ends : Times]
PartSpans == [starts : Times \cup {Kept}, ends : Times \cup {Kept}]

(* The fields of a form, as the keys listed: a list may name one twice.    *)
Fields == UNION {[1..n -> Keys] : n \in 0..2}

CreateCategoryRequests == [op : {"createCategory"}, name : Names,
                           parent : CatIds \cup {Top}, public : BOOLEAN]
UpdateCategoryRequests == [op : {"updateCategory"}, id : CatIds,
                           name : Names \cup {Kept},
                           parent : CatIds \cup {Top, Kept}, public : BOOLEAN]
CreateRequests  == [op : {"create"}, by : Actors, name : Names,
                    category : CatIds, span : Spans]
UpdateRequests  == [op : {"update"}, by : Actors, event : EventIds, span : PartSpans]
TrackRequests   == [op : {"createSession"}, by : Actors, event : EventIds,
                    span : Spans]
RetimeRequests  == [op : {"updateSession"}, by : Actors, track : TrackIds,
                    span : PartSpans]
DropRequests    == [op : {"deleteSession"}, by : Actors, track : TrackIds]
FormRequests    == [op : {"upsertForm"}, by : Actors, event : EventIds,
                    fields : Fields \cup {Kept}]
TrackFormRequests == [op : {"upsertSessionForm"}, by : Actors, track : TrackIds,
                      fields : Fields \cup {Kept}]

AllRequests == CreateCategoryRequests \cup UpdateCategoryRequests
    \cup CreateRequests \cup UpdateRequests \cup TrackRequests
    \cup RetimeRequests \cup DropRequests \cup FormRequests \cup TrackFormRequests
NoRequest == [op |-> "none"]

ASSUME PlanningBounds == /\ MaxCategories \in Nat /\ MaxEvents \in Nat
                         /\ MaxTracks \in Nat /\ MaxRequests \in Nat
ASSUME PlanningValues == /\ Times \subseteq Nat /\ Kept \notin Times
                         /\ Top \notin CatIds /\ Kept \notin CatIds
                         /\ Actors \subseteq [user : STRING, role : {"ADMIN", "ORGANIZER"}]
ASSUME PlanningRequests == Requests \subseteq AllRequests

-----------------------------------------------------------------------------
VARIABLES
    categories,   \* the categories table
    events,       \* the events table, each with the fields of its form
    roles,        \* the event_roles table: <<event, user>> to role
    tracks,       \* the sessions table, each with the fields of its form
    calls,        \* the requests being handled, per slot
    requests,     \* requests made so far
    looped,       \* history: categories moved below themselves
    unchecked     \* history: <<"event" or "track", id>> whose dates were last
                  \* written without a look at their order

vars == <<categories, events, roles, tracks, calls, requests, looped, unchecked>>

NoRow == [exists |-> FALSE]
Deleted == [exists |-> FALSE, deleted |-> TRUE]      \* its id is not used again
(* what uniqueSlug finds for a name, and what a rename makes of one        *)
Slug == {Candidate(name, n) : name \in Names, n \in 1..Len(Numeral)}
           \cup {slugify(name) : name \in Names}

Category == [exists : {TRUE}, slug : Slug, parent : CatIds \cup {Top},
             public : BOOLEAN]
(* A row of form_fields: its key and the transaction that inserted it, by  *)
(* the number of that transaction on its form.  History: the number the    *)
(* event's form had reached when a track's field was compared with it.     *)
Field == [key : Keys, no : Nat, against : Nat]
(* version counts the upserts of the form committed: 0 is no form yet *)
Event == [exists : {TRUE}, slug : Slug, span : Spans, fields : SUBSET Field,
          version : Nat]
Track == [exists : {TRUE}, event : EventIds, span : Spans,
          fields : SUBSET Field, version : Nat]

Role == {"NONE", "OWNER", "ORGANIZER", "REVIEWER"}
Steps == {"idle", "start", "look", "insert", "write", "commit"}

(* n: the candidate looked for; beaten: it was taken since; against: the   *)
(* version of the event's form as read; seen: the fields as deleted        *)
Call == [req : Requests \cup {NoRequest}, step : Steps, n : 1..Len(Numeral),
         beaten : BOOLEAN, against : Nat, seen : SUBSET Field]
Idle == [req |-> NoRequest, step |-> "idle", n |-> 1, beaten |-> FALSE,
         against |-> 0, seen |-> {}]

TypeOK ==
    /\ categories \in [CatIds -> Category \cup {NoRow}]
    /\ events \in [EventIds -> Event \cup {NoRow}]
    /\ roles \in [EventIds \X {a.user : a \in Actors} -> Role]
    /\ tracks \in [TrackIds -> Track \cup {NoRow, Deleted}]
    /\ calls \in [Slots -> Call]
    /\ requests \in 0..MaxRequests
    /\ looped \subseteq CatIds
    /\ unchecked \subseteq ({"event"} \X EventIds) \cup ({"track"} \X TrackIds)
-----------------------------------------------------------------------------
At(c, ops, step) == calls[c].req.op \in ops /\ calls[c].step = step
Go(c, step) == calls' = [calls EXCEPT ![c].step = step]
Answer(c) == calls' = [calls EXCEPT ![c] = Idle]

Free(table) == CHOOSE i \in DOMAIN table : table[i] = NoRow
HasRoom(table) == \E i \in DOMAIN table : table[i] = NoRow      \* bound

(* slug String @unique, in each of the two tables that have one *)
Taken(table, slug) == \E i \in DOMAIN table : table[i].exists /\ table[i].slug = slug

TableOf(op) == IF op = "createCategory" THEN categories ELSE events

(* the table that the `exists` handed to uniqueSlug looks into *)
Looked_InCategories(op) == categories
Looked(op) == TableOf(op)

SlugOf(c) == Candidate(calls[c].req.name, calls[c].n)

(* create looks for one candidate at a time; the first that is free is     *)
(* the one to insert                                                       *)
LooksForSlug(c, op) ==
    /\ At(c, {op}, "look")
    /\ IF Taken(Looked(op), SlugOf(c))
       THEN /\ calls[c].n < Len(Numeral)                          \* bound
            /\ calls' = [calls EXCEPT ![c].n = @ + 1]
       ELSE Go(c, "insert")
    /\ UNCHANGED <<categories, events, roles, tracks, requests, looped, unchecked>>

(* P2002, answered with CONFLICT *)
SlugConflict(c, op) ==
    /\ At(c, {op}, "insert")
    /\ Taken(TableOf(op), SlugOf(c))
    /\ Answer(c)
    /\ UNCHANGED <<categories, events, roles, tracks, requests, looped, unchecked>>

(* c is answered and has taken this slug: others about to insert it lost   *)
AnswerHavingTaken(c, op, slug) ==
    calls' = [d \in Slots |->
                 IF d = c THEN Idle
                 ELSE IF At(d, {op}, "insert") /\ SlugOf(d) = slug
                      THEN [calls[d] EXCEPT !.beaten = TRUE]
                      ELSE calls[d]]
=============================================================================
