---------------------------- MODULE EventPlans ----------------------------
(***************************************************************************)
(* EventsService, the organisers' side: an event is created with its slug  *)
(* and its owner, its dates and its tracks change, forms get their fields. *)
(***************************************************************************)
EXTENDS PlanningDb

(* assertCanManage: a platform ADMIN, or a role on the event that is not   *)
(* REVIEWER                                                                *)
CanManage(actor, e) ==
    \/ actor.role = "ADMIN"
    \/ roles[<<e, actor.user>>] \notin {"NONE", "REVIEWER"}

(* assertDateOrder *)
InOrder_Same(span) == span.starts <= span.ends
InOrder(span) == span.starts < span.ends

Refuse(c) ==
    /\ Answer(c)
    /\ UNCHANGED <<categories, events, roles, tracks, requests, looped, unchecked>>

-----------------------------------------------------------------------------
(* create reads the category, checks the dates ...                         *)
CreateReads(c) ==
    LET q == calls[c].req IN
    /\ At(c, {"create"}, "start")
    /\ IF categories[q.category].exists /\ InOrder(q.span)
       THEN Go(c, "look") ELSE Answer(c)
    /\ UNCHANGED <<categories, events, roles, tracks, requests, looped, unchecked>>

(* ... looks for a slug, and inserts the event with its OWNER              *)
CreateInserts(c) ==
    LET q == calls[c].req
        e == Free(events)
    IN
    /\ At(c, {"create"}, "insert")
    /\ ~Taken(events, SlugOf(c))
    /\ HasRoom(events)
    /\ events' = [events EXCEPT ![e] =
          [exists |-> TRUE, slug |-> SlugOf(c), span |-> q.span,
           fields |-> {}, version |-> 0]]
    /\ roles' = [roles EXCEPT ![<<e, q.by.user>>] = "OWNER"]
    /\ AnswerHavingTaken(c, "create", SlugOf(c))
    /\ UNCHANGED <<categories, tracks, requests, looped, unchecked>>

(* update writes the dates it is given; only both together are compared.   *)
Given_Blindly(new, old) == new
Given(new, old) == IF new = Kept THEN old ELSE new
Retimed(span, part) == [starts |-> Given(part.starts, span.starts),
                        ends |-> Given(part.ends, span.ends)]
Whole(part) == part.starts # Kept /\ part.ends # Kept
Untouched(part) == part.starts = Kept /\ part.ends = Kept

Update(c) ==
    LET q == calls[c].req IN
    /\ At(c, {"update"}, "start")
    /\ \/ /\ events[q.event].exists /\ CanManage(q.by, q.event)
          /\ Whole(q.span) => InOrder(q.span)
          /\ events' = [events EXCEPT ![q.event].span = Retimed(@, q.span)]
          /\ unchecked' = IF Whole(q.span) THEN unchecked \ {<<"event", q.event>>}
                          ELSE IF Untouched(q.span) THEN unchecked
                          ELSE unchecked \cup {<<"event", q.event>>}
          /\ Answer(c)
          /\ UNCHANGED <<categories, roles, tracks, requests, looped>>
       \/ /\ \/ ~events[q.event].exists
             \/ ~CanManage(q.by, q.event)
             \/ Whole(q.span) /\ ~InOrder(q.span)
          /\ Refuse(c)

-----------------------------------------------------------------------------
(* Workshop tracks: dates are compared when one is created, never again.   *)
CreateTrack(c) ==
    LET q == calls[c].req
        ok == events[q.event].exists /\ CanManage(q.by, q.event) /\ InOrder(q.span)
    IN
    /\ At(c, {"createSession"}, "start")
    /\ \/ /\ ok /\ HasRoom(tracks)
          /\ tracks' = [tracks EXCEPT ![Free(tracks)] =
                [exists |-> TRUE, event |-> q.event, span |-> q.span,
                 fields |-> {}, version |-> 0]]
          /\ Answer(c)
          /\ UNCHANGED <<categories, events, roles, requests, looped, unchecked>>
       \/ ~ok /\ Refuse(c)

(* The other operations on a track read it first, for its event.           *)
Manages(c, op) ==
    LET q == calls[c].req IN
    /\ At(c, {op}, "start")
    /\ tracks[q.track].exists
    /\ CanManage(q.by, tracks[q.track].event)

UpdateTrack(c) ==
    LET q == calls[c].req IN
    /\ Manages(c, "updateSession")
    /\ tracks' = [tracks EXCEPT ![q.track].span = Retimed(@, q.span)]
    /\ unchecked' = IF Untouched(q.span) THEN unchecked
                    ELSE unchecked \cup {<<"track", q.track>>}
    /\ Answer(c)
    /\ UNCHANGED <<categories, events, roles, requests, looped>>

(* A track without registrations goes, and its form with it: onDelete      *)
(* Cascade.  EventsService models the check; here it may go either way.    *)
DropTrack(c) ==
    /\ Manages(c, "deleteSession")
    /\ \/ /\ tracks' = [tracks EXCEPT ![calls[c].req.track] = Deleted]
          /\ Answer(c)
          /\ UNCHANGED <<categories, events, roles, requests, looped, unchecked>>
       \/ Refuse(c)

TrackRefused(c) ==
    /\ At(c, {"updateSession", "deleteSession", "upsertSessionForm"}, "start")
    /\ ~Manages(c, calls[c].req.op)
    /\ Refuse(c)

-----------------------------------------------------------------------------
(* Forms.  Both upserts run in one transaction at READ COMMITTED: the form *)
(* row, then deleteMany, which takes the field rows committed by then, and *)
(* createMany, whose rows join whatever another upsert committed since.    *)
(* An upsert that changes a column of the form row locks it, one with      *)
(* fields alone does not: the former are the behaviours here in which the  *)
(* two steps follow each other.                                            *)
KeysOf(fields) == IF fields = Kept THEN {} ELSE {fields[i] : i \in DOMAIN fields}
Distinct(fields) == fields # Kept => Cardinality(KeysOf(fields)) = Len(fields)
KeysIn(rows) == {f.key : f \in rows}

(* Another upsert has inserted the form row and not committed yet: to its  *)
(* unique index a second insertion waits, or fails (CONFLICT).             *)
Target(c) == LET q == calls[c].req IN IF q.op = "upsertForm" THEN q.event ELSE q.track
BeingCreated(c, form) ==
    /\ form.version = 0
    /\ \E d \in Slots \ {c} : /\ At(d, {calls[c].req.op}, "commit")
                              /\ Target(d) = Target(c)

ClearFields(c, form) ==
    LET seen == IF calls[c].req.fields = Kept THEN {} ELSE form.fields IN
    /\ \/ /\ ~BeingCreated(c, form)
          /\ calls' = [calls EXCEPT ![c] = [@ EXCEPT !.step = "commit", !.seen = seen]]
       \/ BeingCreated(c, form) /\ Answer(c)
    /\ UNCHANGED <<categories, events, roles, tracks, requests, looped, unchecked>>

(* the form once c has committed *)
Refilled(c, form) ==
    LET number == form.version + 1
        new == {[key |-> k, no |-> number, against |-> calls[c].against] :
                   k \in KeysOf(calls[c].req.fields)}
    IN  [form EXCEPT !.fields = (@ \ calls[c].seen) \cup new, !.version = number]

(* A key listed twice, or inserted by another since the deletion, violates *)
(* @@unique([formId, key]), and the whole transaction is undone.           *)
Insertable(c, form) ==
    /\ Distinct(calls[c].req.fields)
    /\ KeysOf(calls[c].req.fields)
           \cap KeysIn(form.fields \ calls[c].seen) = {}

UpsertFormClears(c) ==
    LET e == calls[c].req.event
        ok == events[e].exists /\ CanManage(calls[c].req.by, e)
    IN
    /\ At(c, {"upsertForm"}, "start")
    /\ IF ok THEN ClearFields(c, events[e]) ELSE Refuse(c)

UpsertForm(c) ==
    LET e == calls[c].req.event
        ok == events[e].exists /\ Insertable(c, events[e])
    IN
    /\ At(c, {"upsertForm"}, "commit")
    /\ \/ /\ ok
          /\ events' = [events EXCEPT ![e] = Refilled(c, @)]
          /\ Answer(c)
          /\ UNCHANGED <<categories, roles, tracks, requests, looped, unchecked>>
       \/ ~ok /\ Refuse(c)

(* A track's keys are first compared with those of the event's form ...    *)
Clashes_Never(e, fields) == FALSE
Clashes(e, fields) == KeysOf(fields) \cap KeysIn(events[e].fields) # {}

CheckKeys(c) ==
    LET q == calls[c].req
        e == tracks[q.track].event
    IN
    /\ Manages(c, "upsertSessionForm")
    /\ IF Clashes(e, q.fields) THEN Answer(c)
       ELSE calls' = [calls EXCEPT ![c] = [@ EXCEPT !.step = "write",
                                                    !.against = events[e].version]]
    /\ UNCHANGED <<categories, events, roles, tracks, requests, looped, unchecked>>

(* ... and then written.  The track, and its form, may be gone by now, or  *)
(* go before the transaction commits: a foreign key fails.                 *)
UpsertTrackFormClears(c) ==
    LET t == calls[c].req.track IN
    /\ At(c, {"upsertSessionForm"}, "write")
    /\ IF tracks[t].exists THEN ClearFields(c, tracks[t]) ELSE Refuse(c)

UpsertTrackForm(c) ==
    LET t == calls[c].req.track
        ok == tracks[t].exists /\ Insertable(c, tracks[t])
    IN
    /\ At(c, {"upsertSessionForm"}, "commit")
    /\ \/ /\ ok
          /\ tracks' = [tracks EXCEPT ![t] = Refilled(c, @)]
          /\ Answer(c)
          /\ UNCHANGED <<categories, events, roles, requests, looped, unchecked>>
       \/ ~ok /\ Refuse(c)

PlanStep(c) ==
    \/ CreateReads(c) \/ LooksForSlug(c, "create") \/ SlugConflict(c, "create")
    \/ CreateInserts(c) \/ Update(c)
    \/ CreateTrack(c) \/ UpdateTrack(c) \/ DropTrack(c) \/ TrackRefused(c)
    \/ UpsertFormClears(c) \/ UpsertForm(c)
    \/ CheckKeys(c) \/ UpsertTrackFormClears(c) \/ UpsertTrackForm(c)
=============================================================================
