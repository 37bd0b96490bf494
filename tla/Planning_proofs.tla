--------------------------- MODULE Planning_proofs ---------------------------
(***************************************************************************)
(* Theorems about Planning for every number of categories, events, tracks  *)
(* and requests at once: its state is well typed, a slug is refused only   *)
(* after a race, dates are in order unless they were written unchecked,    *)
(* and a track's form asks under no key of its event's form, unless the    *)
(* event's question was inserted after the track's was compared.           *)
(***************************************************************************)
EXTENDS Planning, FiniteSetTheorems, WellFoundedInduction, TLAPS

-----------------------------------------------------------------------------
(* The inductive invariants, on top of TypeOK. *)

(* A category about to be written is there, and so is the event of a       *)
(* track: neither is ever deleted.                                         *)
NamedInv ==
    /\ \A c \in Slots : At(c, {"updateCategory"}, "write")
                             => categories[calls[c].req.id].exists
    /\ \A t \in TrackIds : tracks[t].exists => events[tracks[t].event].exists

(* An event about to be inserted has its dates in order.                   *)
DatesInv ==
    /\ DatesInOrder
    /\ \A c \in Slots : At(c, {"create"}, "look") \/ At(c, {"create"}, "insert")
                           => InOrder(calls[c].req.span)

(* These keys were compared with an event's form as its upsert number      *)
(* `against` left it: it was upserted as often or more often since, and    *)
(* what it asks under one of them was inserted by a later upsert.          *)
Apart(keys, against, e) ==
    /\ against <= events[e].version
    /\ \A g \in events[e].fields : g.key \in keys => against < g.no

(* So it is with the fields a track's form has, and with those a handler   *)
(* is about to give it.                                                    *)
Sound(t) ==
    \A f \in tracks[t].fields : Apart({f.key}, f.against, tracks[t].event)

Writing(c) == \/ At(c, {"upsertSessionForm"}, "write")
              \/ At(c, {"upsertSessionForm"}, "commit")
Compared(c) ==
    LET q == calls[c].req
        t == tracks[q.track]
    IN  /\ t # NoRow
        /\ t.exists => Apart(KeysOf(q.fields), calls[c].against, t.event)

FormInv ==
    /\ \A t \in TrackIds : tracks[t].exists => Sound(t)
    /\ \A c \in Slots : Writing(c) => Compared(c)

-----------------------------------------------------------------------------
(* What the requests carry. *)
LEMMA RequestShape ==
    ASSUME NEW q \in Requests \cup {NoRequest}
    PROVE  /\ q.op = "createCategory" => q \in CreateCategoryRequests
           /\ q.op = "updateCategory" => q \in UpdateCategoryRequests
           /\ q.op = "create" => q \in CreateRequests
           /\ q.op = "update" => q \in UpdateRequests
           /\ q.op = "createSession" => q \in TrackRequests
           /\ q.op = "updateSession" => q \in RetimeRequests
           /\ q.op = "deleteSession" => q \in DropRequests
           /\ q.op = "upsertForm" => q \in FormRequests
           /\ q.op = "upsertSessionForm" => q \in TrackFormRequests
  <1>1. CASE q = NoRequest
    BY <1>1 DEF NoRequest
  <1>2. CASE q \in AllRequests
    <2>1. CASE q \in CreateCategoryRequests \cup UpdateCategoryRequests \cup CreateRequests
      BY <2>1 DEF CreateCategoryRequests, UpdateCategoryRequests, CreateRequests
    <2>2. CASE q \in UpdateRequests \cup TrackRequests \cup RetimeRequests
      BY <2>2 DEF UpdateRequests, TrackRequests, RetimeRequests
    <2>3. CASE q \in DropRequests \cup FormRequests \cup TrackFormRequests
      BY <2>3 DEF DropRequests, FormRequests, TrackFormRequests
    <2> QED
      BY <1>2, <2>1, <2>2, <2>3 DEF AllRequests
  <1> QED
    BY <1>1, <1>2, PlanningRequests

(* A handler at a step of an operation has a request for it.               *)
LEMMA CallShape ==
    ASSUME TypeOK, NEW c \in Slots
    PROVE  /\ calls[c] \in Call /\ calls[c].req \in Requests \cup {NoRequest}
           /\ calls[c].n \in 1..Len(Numeral)
  BY DEF TypeOK, Call

LEMMA AtRequest ==
    ASSUME TypeOK, NEW c \in Slots, NEW op, NEW step, At(c, {op}, step)
    PROVE  /\ calls[c].req.op = op /\ calls[c].step = step
           /\ calls[c].req \in Requests \cup {NoRequest}
           /\ calls[c].req \in Requests \/ op = "none"
  BY CallShape DEF At, NoRequest

LEMMA SlugTyped ==
    ASSUME TypeOK, NEW c \in Slots,
           calls[c].req.op \in {"createCategory", "create"}
    PROVE  SlugOf(c) \in Slug
  <1>1. calls[c].req.name \in Names
    BY CallShape, RequestShape DEF CreateCategoryRequests, CreateRequests
  <1>2. calls[c].n \in 1..Len(Numeral)
    BY CallShape
  <1> QED
    BY <1>1, <1>2 DEF SlugOf, Slug

-----------------------------------------------------------------------------
(* How a handler goes on, and the others with it.                          *)
Steady(d) == /\ calls'[d].req = calls[d].req /\ calls'[d].step = calls[d].step
             /\ calls'[d].n = calls[d].n /\ calls'[d].against = calls[d].against
             /\ calls[d].beaten => calls'[d].beaten
OthersSteady(c) == \A d \in Slots : d # c => Steady(d)

LEMMA IdleTyped ==
    /\ Idle \in Call /\ Idle.req = NoRequest /\ Idle.step = "idle"
    /\ Idle.req.op = "none"
  <1>1. 1 \in 1..Len(Numeral)
    BY SlugWords
  <1> QED
    BY <1>1 DEF Idle, Call, Steps, NoRequest

LEMMA GoFields ==
    ASSUME TypeOK, NEW c \in Slots, NEW step \in Steps, Go(c, step)
    PROVE  /\ calls' \in [Slots -> Call]
           /\ calls'[c].req = calls[c].req /\ calls'[c].step = step
           /\ calls'[c].n = calls[c].n /\ calls'[c].against = calls[c].against
           /\ calls'[c].beaten = calls[c].beaten
           /\ OthersSteady(c)
  <1>1. calls \in [Slots -> Call] /\ calls[c] \in Call
    BY DEF TypeOK
  <1>2. PICK d \in Call : d = [calls[c] EXCEPT !.step = step]
    BY <1>1 DEF Call
  <1>3. /\ d.req = calls[c].req /\ d.step = step /\ d.n = calls[c].n
        /\ d.against = calls[c].against /\ d.beaten = calls[c].beaten
    BY <1>1, <1>2 DEF Call
  <1>4. calls' = [calls EXCEPT ![c] = d]
    BY <1>2 DEF Go
  <1> QED
    BY <1>1, <1>3, <1>4 DEF OthersSteady, Steady

LEMMA AnswerFields ==
    ASSUME TypeOK, NEW c \in Slots, Answer(c)
    PROVE  /\ calls' \in [Slots -> Call] /\ calls'[c] = Idle /\ OthersSteady(c)
  <1>1. calls \in [Slots -> Call]
    BY DEF TypeOK
  <1> QED
    BY <1>1, IdleTyped DEF Answer, OthersSteady, Steady

(* Those that were about to insert a slug just taken are beaten.           *)
LEMMA TakenFields ==
    ASSUME TypeOK, NEW c \in Slots, NEW op, NEW slug,
           AnswerHavingTaken(c, op, slug)
    PROVE  /\ calls' \in [Slots -> Call] /\ calls'[c] = Idle /\ OthersSteady(c)
           /\ \A d \in Slots : d # c /\ At(d, {op}, "insert") /\ SlugOf(d) = slug
                                  => calls'[d].beaten
  <1>1. calls \in [Slots -> Call]
    BY DEF TypeOK
  <1>2. calls'[c] = Idle
    BY DEF AnswerHavingTaken
  <1>3. ASSUME NEW d \in Slots, d # c
        PROVE  /\ calls'[d] \in Call /\ Steady(d)
               /\ At(d, {op}, "insert") /\ SlugOf(d) = slug => calls'[d].beaten
    <2>1. calls[d] \in Call
      BY <1>1
    <2>2. \/ calls'[d] = calls[d] /\ ~(At(d, {op}, "insert") /\ SlugOf(d) = slug)
          \/ calls'[d] = [calls[d] EXCEPT !.beaten = TRUE]
      BY <1>3 DEF AnswerHavingTaken
    <2>3. PICK e \in Call : e = [calls[d] EXCEPT !.beaten = TRUE]
      BY <2>1 DEF Call
    <2>4. /\ e.req = calls[d].req /\ e.step = calls[d].step /\ e.n = calls[d].n
          /\ e.against = calls[d].against /\ e.beaten
      BY <2>1, <2>3 DEF Call
    <2> QED
      BY <2>1, <2>2, <2>3, <2>4 DEF Steady
  <1>4. calls' \in [Slots -> Call]
    <2>1. \A d \in Slots : calls'[d] \in Call
      BY <1>2, <1>3, IdleTyped
    <2> QED
      BY <2>1 DEF AnswerHavingTaken
  <1> QED
    BY <1>2, <1>3, <1>4 DEF OthersSteady

(* uniqueSlug goes on to the next candidate.                               *)
LEMMA LookFields ==
    ASSUME TypeOK, NEW c \in Slots, NEW op, LooksForSlug(c, op)
    PROVE  /\ calls' \in [Slots -> Call] /\ OthersSteady(c)
           /\ calls'[c].req = calls[c].req
           /\ \/ calls'[c].step = "look" /\ Taken(TableOf(op), SlugOf(c))
              \/ /\ calls'[c].step = "insert" /\ calls'[c].n = calls[c].n
                 /\ ~Taken(TableOf(op), SlugOf(c))
  <1>1. calls \in [Slots -> Call] /\ calls[c] \in Call /\ calls[c].step = "look"
    BY DEF TypeOK, LooksForSlug, At
  <1>2. CASE Taken(TableOf(op), SlugOf(c))
    <2>1. calls[c].n + 1 \in 1..Len(Numeral)
      BY <1>1, <1>2, SlugWords DEF LooksForSlug, Looked, Call
    <2>2. PICK d \in Call : d = [calls[c] EXCEPT !.n = calls[c].n + 1]
      BY <1>1, <2>1 DEF Call
    <2>3. d.req = calls[c].req /\ d.step = "look"
      BY <1>1, <2>2 DEF Call
    <2>4. calls' = [calls EXCEPT ![c] = d]
      BY <1>2, <2>2 DEF LooksForSlug, Looked
    <2> QED
      BY <1>1, <1>2, <2>3, <2>4 DEF OthersSteady, Steady
  <1>3. CASE ~Taken(TableOf(op), SlugOf(c))
    <2>1. Go(c, "insert")
      BY <1>3 DEF LooksForSlug, Looked
    <2> QED
      BY <1>3, <2>1, GoFields DEF Steps
  <1> QED
    BY <1>2, <1>3

-----------------------------------------------------------------------------
(* Rows, and how an operation changes one.                                 *)
LEMMA RowsTell ==
    /\ ~NoRow.exists /\ ~Deleted.exists /\ Deleted # NoRow
    /\ \A row \in Category \cup Event \cup Track : row.exists /\ row # NoRow
  <1>1. DOMAIN NoRow = {"exists"} /\ DOMAIN Deleted = {"exists", "deleted"}
    BY DEF NoRow, Deleted
  <1>2. Deleted # NoRow
    BY <1>1
  <1>3. ~NoRow.exists /\ ~Deleted.exists
    BY DEF NoRow, Deleted
  <1>4. \A row \in Category \cup Event \cup Track : row.exists
    BY DEF Category, Event, Track
  <1> QED
    BY <1>2, <1>3, <1>4

LEMMA RowTyped ==
    ASSUME TypeOK
    PROVE  /\ \A i \in CatIds : categories[i].exists <=> categories[i] \in Category
           /\ \A e \in EventIds : events[e].exists <=> events[e] \in Event
           /\ \A t \in TrackIds : tracks[t].exists <=> tracks[t] \in Track
  BY RowsTell DEF TypeOK

LEMMA FreeRow ==
    ASSUME NEW table, HasRoom(table)
    PROVE  Free(table) \in DOMAIN table /\ table[Free(table)] = NoRow
  BY DEF HasRoom, Free

LEMMA RetimedTyped ==
    ASSUME NEW span \in Spans, NEW part \in PartSpans
    PROVE  /\ Retimed(span, part) \in Spans
           /\ Untouched(part) => Retimed(span, part) = span
           /\ Whole(part) => part \in Spans /\ Retimed(span, part) = part
  <1>1. Retimed(span, part) \in Spans
    BY DEF Retimed, Given, Spans, PartSpans
  <1>2. Untouched(part) => Retimed(span, part) = span
    BY DEF Retimed, Given, Spans, Untouched
  <1>3. Whole(part) => part \in Spans /\ Retimed(span, part) = part
    BY DEF Retimed, Given, Spans, PartSpans, Whole
  <1> QED
    BY <1>1, <1>2, <1>3

LEMMA EventRetimed ==
    ASSUME TypeOK, NEW e \in EventIds, events[e].exists, NEW part \in PartSpans,
           events' = [events EXCEPT ![e].span = Retimed(@, part)]
    PROVE  /\ events' \in [EventIds -> Event \cup {NoRow}]
           /\ events'[e].exists /\ events'[e].span = Retimed(events[e].span, part)
           /\ events'[e].slug = events[e].slug /\ events'[e].fields = events[e].fields
           /\ events'[e].version = events[e].version
           /\ \A d \in EventIds : d # e => events'[d] = events[d]
  <1>1. events[e] \in Event /\ events[e].span \in Spans
    BY RowTyped DEF Event
  <1>2. Retimed(events[e].span, part) \in Spans
    BY <1>1, RetimedTyped
  <1>3. PICK row \in Event :
           row = [events[e] EXCEPT !.span = Retimed(events[e].span, part)]
    BY <1>1, <1>2 DEF Event
  <1>4. /\ row.exists /\ row.span = Retimed(events[e].span, part)
        /\ row.slug = events[e].slug /\ row.fields = events[e].fields
        /\ row.version = events[e].version
    BY <1>1, <1>3 DEF Event
  <1>5. events' = [events EXCEPT ![e] = row]
    BY <1>3
  <1> QED
    BY <1>4, <1>5 DEF TypeOK

LEMMA TrackRetimed ==
    ASSUME TypeOK, NEW t \in TrackIds, tracks[t].exists, NEW part \in PartSpans,
           tracks' = [tracks EXCEPT ![t].span = Retimed(@, part)]
    PROVE  /\ tracks' \in [TrackIds -> Track \cup {NoRow, Deleted}]
           /\ tracks'[t].exists /\ tracks'[t].span = Retimed(tracks[t].span, part)
           /\ tracks'[t].event = tracks[t].event
           /\ tracks'[t].fields = tracks[t].fields
           /\ \A u \in TrackIds : u # t => tracks'[u] = tracks[u]
  <1>1. tracks[t] \in Track /\ tracks[t].span \in Spans
    BY RowTyped DEF Track
  <1>2. Retimed(tracks[t].span, part) \in Spans
    BY <1>1, RetimedTyped
  <1>3. PICK row \in Track :
           row = [tracks[t] EXCEPT !.span = Retimed(tracks[t].span, part)]
    BY <1>1, <1>2 DEF Track
  <1>4. /\ row.exists /\ row.span = Retimed(tracks[t].span, part)
        /\ row.event = tracks[t].event /\ row.fields = tracks[t].fields
    BY <1>1, <1>3 DEF Track
  <1>5. tracks' = [tracks EXCEPT ![t] = row]
    BY <1>3
  <1> QED
    BY <1>4, <1>5 DEF TypeOK

(* The keys of a list of fields. *)
LEMMA KeysTyped ==
    ASSUME NEW fields \in Fields \cup {Kept}
    PROVE  KeysOf(fields) \in SUBSET Keys
  <1>1. CASE fields = Kept
    BY <1>1 DEF KeysOf
  <1>2. CASE fields # Kept
    <2>1. PICK n \in 0..2 : fields \in [1..n -> Keys]
      BY <1>2 DEF Fields
    <2> QED
      BY <1>2, <2>1 DEF KeysOf
  <1> QED
    BY <1>1, <1>2

(* The fields of a form once a handler has written its own.                *)
LEMMA RefilledFields ==
    ASSUME TypeOK, NEW c \in Slots, calls[c].req.fields \in Fields \cup {Kept},
           NEW number \in Nat, NEW old \in SUBSET Field
    PROVE  LET new == {[key |-> k, no |-> number, against |-> calls[c].against] :
                          k \in KeysOf(calls[c].req.fields)}
               all == (old \ calls[c].seen) \cup new
           IN  /\ all \in SUBSET Field
               /\ \A f \in all : \/ f \in old
                                 \/ /\ f.no = number
                                    /\ f.against = calls[c].against
                                    /\ f.key \in KeysOf(calls[c].req.fields)
  <1> DEFINE new == {[key |-> k, no |-> number, against |-> calls[c].against] :
                        k \in KeysOf(calls[c].req.fields)}
  <1>1. KeysOf(calls[c].req.fields) \in SUBSET Keys
    BY KeysTyped
  <1>2. calls[c].against \in Nat
    BY CallShape DEF Call
  <1>3. ASSUME NEW f \in new
        PROVE  /\ f \in Field /\ f.no = number /\ f.against = calls[c].against
               /\ f.key \in KeysOf(calls[c].req.fields)
    BY <1>1, <1>2 DEF Field
  <1> QED
    BY <1>3

LEMMA EventRefilled ==
    ASSUME TypeOK, NEW c \in Slots, calls[c].req.fields \in Fields \cup {Kept},
           NEW form \in Event
    PROVE  LET row == Refilled(c, form) IN
           /\ row \in Event /\ row.slug = form.slug /\ row.span = form.span
           /\ form.version \in Nat /\ row.version = form.version + 1
           /\ \A f \in row.fields : f \in form.fields \/ f.no = form.version + 1
  <1>1. form.version \in Nat /\ form.fields \in SUBSET Field
    BY DEF Event
  <1>2. PICK number \in Nat : number = form.version + 1
    BY <1>1
  <1> DEFINE new == {[key |-> k, no |-> number, against |-> calls[c].against] :
                        k \in KeysOf(calls[c].req.fields)}
             all == (form.fields \ calls[c].seen) \cup new
  <1>3. /\ all \in SUBSET Field
        /\ \A f \in all : f \in form.fields \/ f.no = number
    BY <1>1, RefilledFields
  <1>4. Refilled(c, form) = [form EXCEPT !.fields = all, !.version = number]
    BY <1>2 DEF Refilled
  <1> HIDE DEF all
  <1>5. PICK row \in Event : row = [form EXCEPT !.fields = all, !.version = number]
    BY <1>3 DEF Event
  <1>6. /\ row.slug = form.slug /\ row.span = form.span
        /\ row.version = number /\ row.fields = all
    BY <1>5 DEF Event
  <1> QED
    BY <1>1, <1>2, <1>3, <1>4, <1>5, <1>6

LEMMA TrackRefilled ==
    ASSUME TypeOK, NEW c \in Slots, calls[c].req.fields \in Fields \cup {Kept},
           NEW form \in Track
    PROVE  LET row == Refilled(c, form) IN
           /\ row \in Track /\ row.event = form.event /\ row.span = form.span
           /\ \A f \in row.fields :
                 \/ f \in form.fields
                 \/ /\ f.against = calls[c].against
                    /\ f.key \in KeysOf(calls[c].req.fields)
  <1>1. form.version \in Nat /\ form.fields \in SUBSET Field
    BY DEF Track
  <1>2. PICK number \in Nat : number = form.version + 1
    BY <1>1
  <1> DEFINE new == {[key |-> k, no |-> number, against |-> calls[c].against] :
                        k \in KeysOf(calls[c].req.fields)}
             all == (form.fields \ calls[c].seen) \cup new
  <1>3. /\ all \in SUBSET Field
        /\ \A f \in all : \/ f \in form.fields
                          \/ /\ f.against = calls[c].against
                             /\ f.key \in KeysOf(calls[c].req.fields)
    BY <1>1, RefilledFields
  <1>4. Refilled(c, form) = [form EXCEPT !.fields = all, !.version = number]
    BY <1>2 DEF Refilled
  <1> HIDE DEF all
  <1>5. PICK row \in Track : row = [form EXCEPT !.fields = all, !.version = number]
    BY <1>3 DEF Track
  <1>6. row.event = form.event /\ row.span = form.span /\ row.fields = all
    BY <1>5 DEF Track
  <1> QED
    BY <1>3, <1>4, <1>5, <1>6

-----------------------------------------------------------------------------
(* What the operations do to the tables, in terms of their columns.        *)
LEMMA CreateDoes ==
    ASSUME TypeOK, NEW c \in Slots, CreateInserts(c)
    PROVE  \E e \in EventIds :
              /\ events[e] = NoRow /\ events'[e] \in Event
              /\ events'[e].slug = SlugOf(c) /\ events'[e].span = calls[c].req.span
              /\ \A d \in EventIds : d # e => events'[d] = events[d]
              /\ events' \in [EventIds -> Event \cup {NoRow}]
  <1> DEFINE e == Free(events)
  <1>1. e \in EventIds /\ events[e] = NoRow
    BY FreeRow DEF CreateInserts, TypeOK
  <1>2. calls[c].req \in CreateRequests /\ calls[c].req.op = "create"
    BY AtRequest, RequestShape DEF CreateInserts
  <1>3. SlugOf(c) \in Slug /\ calls[c].req.span \in Spans
    BY <1>2, SlugTyped DEF CreateRequests
  <1>4. PICK row \in Event : row = [exists |-> TRUE, slug |-> SlugOf(c),
                                    span |-> calls[c].req.span, fields |-> {},
                                    version |-> 0]
    BY <1>3 DEF Event
  <1>5. events' = [events EXCEPT ![e] = row]
    BY <1>4 DEF CreateInserts
  <1>6. row.slug = SlugOf(c) /\ row.span = calls[c].req.span
    BY <1>4
  <1> HIDE DEF e
  <1> QED
    BY <1>1, <1>5, <1>6 DEF TypeOK

LEMMA CreateCategoryDoes ==
    ASSUME TypeOK, NEW c \in Slots, CreateCategoryInserts(c)
    PROVE  \E i \in CatIds :
              /\ categories[i] = NoRow /\ categories'[i] \in Category
              /\ categories'[i].slug = SlugOf(c)
              /\ categories'[i].parent = calls[c].req.parent
              /\ \A j \in CatIds : j # i => categories'[j] = categories[j]
              /\ categories' \in [CatIds -> Category \cup {NoRow}]
  <1> DEFINE i == Free(categories)
             q == calls[c].req
  <1>1. i \in CatIds /\ categories[i] = NoRow
    BY FreeRow DEF CreateCategoryInserts, TypeOK
  <1>2. q \in CreateCategoryRequests /\ q.op = "createCategory"
    BY AtRequest, RequestShape DEF CreateCategoryInserts
  <1>3. SlugOf(c) \in Slug /\ q.parent \in CatIds \cup {Top} /\ q.public \in BOOLEAN
    BY <1>2, SlugTyped DEF CreateCategoryRequests
  <1>4. PICK row \in Category : row = [exists |-> TRUE, slug |-> SlugOf(c),
                                       parent |-> q.parent, public |-> q.public]
    BY <1>3 DEF Category
  <1>5. categories' = [categories EXCEPT ![i] = row]
    BY <1>4 DEF CreateCategoryInserts
  <1>6. row.slug = SlugOf(c) /\ row.parent = q.parent
    BY <1>4
  <1> HIDE DEF i
  <1> QED
    BY <1>1, <1>5, <1>6 DEF TypeOK

LEMMA UpdateCategoryDoes ==
    ASSUME TypeOK, NamedInv, NEW c \in Slots, UpdateCategoryWrites(c)
    PROVE  LET q == calls[c].req IN
           /\ q.id \in CatIds /\ categories[q.id].exists
           /\ categories'[q.id] \in Category
           /\ categories'[q.id].slug = Renamed(q)
           /\ categories'[q.id].parent = IF q.parent # Kept THEN q.parent
                                         ELSE categories[q.id].parent
           /\ \A j \in CatIds : j # q.id => categories'[j] = categories[j]
           /\ categories' \in [CatIds -> Category \cup {NoRow}]
           /\ looped' \subseteq looped \cup {q.id}
  <1> DEFINE q == calls[c].req
             row == categories[q.id]
             parent == IF q.parent # Kept THEN q.parent ELSE row.parent
  <1>1. q \in UpdateCategoryRequests
    BY AtRequest, RequestShape DEF UpdateCategoryWrites
  <1>2. /\ q.id \in CatIds /\ q.name \in Names \cup {Kept}
        /\ q.parent \in CatIds \cup {Top, Kept} /\ q.public \in BOOLEAN
    BY <1>1 DEF UpdateCategoryRequests
  <1>3. row.exists /\ row \in Category
    BY <1>2, RowTyped DEF NamedInv, UpdateCategoryWrites
  <1>4. Renamed(q) \in Slug /\ parent \in CatIds \cup {Top}
    <2>1. \A name \in Names : slugify(name) \in Slug
      BY DEF Slug
    <2>2. row.slug \in Slug /\ row.parent \in CatIds \cup {Top}
      BY <1>3 DEF Category
    <2>3. Renamed(q) = IF q.name = Kept THEN row.slug ELSE slugify(q.name)
      BY DEF Renamed
    <2>4. Renamed(q) \in Slug
      BY <1>2, <2>1, <2>2, <2>3
    <2>5. parent \in CatIds \cup {Top}
      BY <1>2, <2>2
    <2> QED
      BY <2>4, <2>5
  <1>5. PICK new \in Category : new = [row EXCEPT !.slug = Renamed(q),
                                        !.public = q.public, !.parent = parent]
    <2>1. \A slug \in Slug, up \in CatIds \cup {Top}, public \in BOOLEAN :
             [row EXCEPT !.slug = slug, !.public = public, !.parent = up]
                \in Category
      BY <1>3 DEF Category
    <2> HIDE DEF parent
    <2> QED
      BY <1>2, <1>4, <2>1
  <1>6. new.slug = Renamed(q) /\ new.parent = parent
    <2> HIDE DEF parent
    <2> QED
      BY <1>3, <1>5 DEF Category
  <1>7. categories' = [categories EXCEPT ![q.id] = new]
    BY <1>5 DEF UpdateCategoryWrites
  <1>8. looped' \subseteq looped \cup {q.id}
    BY DEF UpdateCategoryWrites
  <1> QED
    BY <1>2, <1>3, <1>6, <1>7, <1>8 DEF TypeOK

LEMMA CreateTrackDoes ==
    ASSUME TypeOK, NEW c \in Slots, CreateTrack(c), tracks' # tracks
    PROVE  LET q == calls[c].req IN
           /\ q.event \in EventIds /\ events[q.event].exists
           /\ InOrder(q.span) /\ q.span \in Spans
           /\ UNCHANGED <<events, unchecked>> /\ Answer(c)
           /\ \E t \in TrackIds :
                 /\ tracks[t] = NoRow /\ tracks'[t] \in Track
                 /\ tracks'[t].event = q.event /\ tracks'[t].span = q.span
                 /\ tracks'[t].fields = {}
                 /\ \A u \in TrackIds : u # t => tracks'[u] = tracks[u]
                 /\ tracks' \in [TrackIds -> Track \cup {NoRow, Deleted}]
  <1> DEFINE q == calls[c].req
             t == Free(tracks)
  <1>1. /\ events[q.event].exists /\ InOrder(q.span) /\ HasRoom(tracks)
        /\ tracks' = [tracks EXCEPT ![t] =
              [exists |-> TRUE, event |-> q.event, span |-> q.span,
               fields |-> {}, version |-> 0]]
        /\ UNCHANGED <<events, unchecked>> /\ Answer(c)
    BY DEF CreateTrack, Refuse
  <1>2. t \in TrackIds /\ tracks[t] = NoRow
    BY <1>1, FreeRow DEF TypeOK
  <1>3. q \in TrackRequests
    BY AtRequest, RequestShape DEF CreateTrack
  <1>4. q.event \in EventIds /\ q.span \in Spans
    BY <1>3 DEF TrackRequests
  <1>5. PICK row \in Track : row = [exists |-> TRUE, event |-> q.event,
                                    span |-> q.span, fields |-> {}, version |-> 0]
    BY <1>4 DEF Track
  <1>6. /\ row.event = q.event /\ row.span = q.span /\ row.fields = {}
    BY <1>5
  <1>7. tracks' = [tracks EXCEPT ![t] = row]
    BY <1>1, <1>5
  <1> HIDE DEF t, q
  <1>8. /\ tracks[t] = NoRow /\ tracks'[t] \in Track
        /\ tracks'[t].event = q.event /\ tracks'[t].span = q.span
        /\ tracks'[t].fields = {}
        /\ \A u \in TrackIds : u # t => tracks'[u] = tracks[u]
        /\ tracks' \in [TrackIds -> Track \cup {NoRow, Deleted}]
    BY <1>2, <1>6, <1>7 DEF TypeOK
  <1> QED
    BY <1>1, <1>2, <1>4, <1>8 DEF q

LEMMA UpdateDoes ==
    ASSUME TypeOK, NEW c \in Slots, Update(c), ~Refuse(c)
    PROVE  LET q == calls[c].req IN
           /\ q.event \in EventIds /\ q.span \in PartSpans
           /\ events[q.event] \in Event /\ events[q.event].exists
           /\ Whole(q.span) => InOrder(q.span)
           /\ events' \in [EventIds -> Event \cup {NoRow}]
           /\ events'[q.event].exists
           /\ events'[q.event].span = Retimed(events[q.event].span, q.span)
           /\ events'[q.event].slug = events[q.event].slug
           /\ events'[q.event].fields = events[q.event].fields
           /\ events'[q.event].version = events[q.event].version
           /\ \A d \in EventIds : d # q.event => events'[d] = events[d]
           /\ unchecked' = IF Whole(q.span) THEN unchecked \ {<<"event", q.event>>}
                           ELSE IF Untouched(q.span) THEN unchecked
                           ELSE unchecked \cup {<<"event", q.event>>}
           /\ Answer(c)
           /\ UNCHANGED <<categories, roles, tracks, requests, looped>>
  <1> DEFINE q == calls[c].req
  <1>1. q \in UpdateRequests
    BY AtRequest, RequestShape DEF Update
  <1>2. q.event \in EventIds /\ q.span \in PartSpans
    BY <1>1 DEF UpdateRequests
  <1>3. /\ events[q.event].exists
        /\ Whole(q.span) => InOrder(q.span)
        /\ events' = [events EXCEPT ![q.event].span = Retimed(@, q.span)]
        /\ unchecked' = IF Whole(q.span) THEN unchecked \ {<<"event", q.event>>}
                        ELSE IF Untouched(q.span) THEN unchecked
                        ELSE unchecked \cup {<<"event", q.event>>}
        /\ Answer(c)
        /\ UNCHANGED <<categories, roles, tracks, requests, looped>>
    BY DEF Update
  <1>4. events[q.event] \in Event
    BY <1>2, <1>3, RowTyped
  <1> QED
    BY <1>2, <1>3, <1>4, EventRetimed

LEMMA UpdateTrackDoes ==
    ASSUME TypeOK, NEW c \in Slots, UpdateTrack(c)
    PROVE  LET q == calls[c].req IN
           /\ q.track \in TrackIds /\ q.span \in PartSpans
           /\ tracks[q.track] \in Track /\ tracks[q.track].exists
           /\ tracks' \in [TrackIds -> Track \cup {NoRow, Deleted}]
           /\ tracks'[q.track].exists
           /\ tracks'[q.track].span = Retimed(tracks[q.track].span, q.span)
           /\ tracks'[q.track].event = tracks[q.track].event
           /\ tracks'[q.track].fields = tracks[q.track].fields
           /\ \A u \in TrackIds : u # q.track => tracks'[u] = tracks[u]
           /\ unchecked' = IF Untouched(q.span) THEN unchecked
                           ELSE unchecked \cup {<<"track", q.track>>}
           /\ Answer(c)
           /\ UNCHANGED <<categories, events, roles, requests, looped>>
  <1> DEFINE q == calls[c].req
  <1>1. q \in RetimeRequests /\ tracks[q.track].exists
    BY AtRequest, RequestShape DEF UpdateTrack, Manages
  <1>2. q.track \in TrackIds /\ q.span \in PartSpans
    BY <1>1 DEF RetimeRequests
  <1>3. /\ tracks' = [tracks EXCEPT ![q.track].span = Retimed(@, q.span)]
        /\ unchecked' = IF Untouched(q.span) THEN unchecked
                        ELSE unchecked \cup {<<"track", q.track>>}
        /\ Answer(c)
        /\ UNCHANGED <<categories, events, roles, requests, looped>>
    BY DEF UpdateTrack
  <1>4. tracks[q.track] \in Track
    BY <1>1, <1>2, RowTyped
  <1> QED
    BY <1>1, <1>2, <1>3, <1>4, TrackRetimed

LEMMA DropTrackDoes ==
    ASSUME TypeOK, NEW c \in Slots, DropTrack(c), ~Refuse(c)
    PROVE  /\ tracks' \in [TrackIds -> Track \cup {NoRow, Deleted}]
           /\ \A u \in TrackIds : tracks'[u] \in {tracks[u], Deleted}
           /\ Answer(c)
           /\ UNCHANGED <<categories, events, roles, requests, looped, unchecked>>
  BY DEF DropTrack, TypeOK

(* An upsert of a form deletes its rows first, which nobody sees yet.      *)
LEMMA ClearingDoes ==
    ASSUME TypeOK, NEW c \in Slots, UpsertFormClears(c) \/ UpsertTrackFormClears(c)
    PROVE  /\ UNCHANGED <<categories, events, roles, tracks, requests, looped,
                          unchecked>>
           /\ calls[c].req.op \in {"upsertForm", "upsertSessionForm"}
           /\ calls[c].req.op = "upsertSessionForm" => Writing(c)
           /\ \/ Answer(c)
              \/ /\ calls' \in [Slots -> Call] /\ OthersSteady(c)
                 /\ calls'[c].req = calls[c].req /\ calls'[c].step = "commit"
                 /\ calls'[c].against = calls[c].against
  <1> DEFINE q == calls[c].req
  <1>1. ASSUME NEW form, form.fields \in SUBSET Field, ClearFields(c, form)
        PROVE  /\ UNCHANGED <<categories, events, roles, tracks, requests, looped,
                              unchecked>>
               /\ \/ Answer(c)
                  \/ /\ calls' \in [Slots -> Call] /\ OthersSteady(c)
                     /\ calls'[c].req = q /\ calls'[c].step = "commit"
                     /\ calls'[c].against = calls[c].against
    <2>1. calls[c] \in Call /\ calls \in [Slots -> Call]
      BY DEF TypeOK
    <2>2. PICK seen \in SUBSET Field :
             \/ Answer(c)
             \/ calls' = [calls EXCEPT ![c] =
                             [calls[c] EXCEPT !.step = "commit", !.seen = seen]]
      BY <1>1 DEF ClearFields
    <2>3. PICK d \in Call : d = [calls[c] EXCEPT !.step = "commit", !.seen = seen]
      BY <2>1 DEF Call, Steps
    <2>4. d.req = q /\ d.step = "commit" /\ d.against = calls[c].against
      BY <2>1, <2>3 DEF Call
    <2>5. CASE calls' = [calls EXCEPT ![c] = d]
      <3>1. calls' \in [Slots -> Call] /\ calls'[c] = d /\ OthersSteady(c)
        BY <2>1, <2>5 DEF OthersSteady, Steady
      <3> QED
        BY <1>1, <2>4, <3>1 DEF ClearFields
    <2> QED
      BY <1>1, <2>2, <2>3, <2>5 DEF ClearFields
  <1>2. CASE UpsertFormClears(c)
    <2>1. q.op = "upsertForm" /\ q \in FormRequests
      BY <1>2, AtRequest, RequestShape DEF UpsertFormClears
    <2>2. CASE Refuse(c)
      BY <2>1, <2>2 DEF Refuse
    <2>3. CASE ~Refuse(c)
      <3>1. events[q.event].exists /\ ClearFields(c, events[q.event])
        BY <1>2, <2>3 DEF UpsertFormClears
      <3>2. events[q.event].fields \in SUBSET Field
        BY <2>1, <3>1, RowTyped DEF FormRequests, Event
      <3> QED
        BY <1>1, <2>1, <3>1, <3>2
    <2> QED
      BY <2>2, <2>3
  <1>3. CASE UpsertTrackFormClears(c)
    <2>1. q.op = "upsertSessionForm" /\ q \in TrackFormRequests /\ Writing(c)
      BY <1>3, AtRequest, RequestShape DEF UpsertTrackFormClears, Writing
    <2>2. CASE Refuse(c)
      BY <2>1, <2>2 DEF Refuse
    <2>3. CASE ~Refuse(c)
      <3>1. tracks[q.track].exists /\ ClearFields(c, tracks[q.track])
        BY <1>3, <2>3 DEF UpsertTrackFormClears
      <3>2. tracks[q.track].fields \in SUBSET Field
        BY <2>1, <3>1, RowTyped DEF TrackFormRequests, Track
      <3> QED
        BY <1>1, <2>1, <3>1, <3>2
    <2> QED
      BY <2>2, <2>3
  <1> QED
    BY <1>2, <1>3

LEMMA UpsertFormDoes ==
    ASSUME TypeOK, NEW c \in Slots, UpsertForm(c), ~Refuse(c)
    PROVE  LET q == calls[c].req IN
           /\ q.event \in EventIds
           /\ events[q.event] \in Event /\ events[q.event].exists
           /\ events' \in [EventIds -> Event \cup {NoRow}]
           /\ events'[q.event].exists
           /\ events'[q.event].span = events[q.event].span
           /\ events'[q.event].slug = events[q.event].slug
           /\ events[q.event].version \in Nat
           /\ events'[q.event].version = events[q.event].version + 1
           /\ \A g \in events'[q.event].fields :
                 \/ g \in events[q.event].fields
                 \/ g.no = events[q.event].version + 1
           /\ \A d \in EventIds : d # q.event => events'[d] = events[d]
           /\ Answer(c)
           /\ UNCHANGED <<categories, roles, tracks, requests, looped, unchecked>>
  <1> DEFINE q == calls[c].req
  <1>1. q \in FormRequests
    BY AtRequest, RequestShape DEF UpsertForm
  <1>2. q.event \in EventIds /\ q.fields \in Fields \cup {Kept}
    BY <1>1 DEF FormRequests
  <1>3. /\ events[q.event].exists
        /\ events' = [events EXCEPT ![q.event] = Refilled(c, events[q.event])]
        /\ Answer(c)
        /\ UNCHANGED <<categories, roles, tracks, requests, looped, unchecked>>
    BY DEF UpsertForm
  <1>4. PICK old \in Event : old = events[q.event]
    BY <1>2, <1>3, RowTyped
  <1>5. /\ Refilled(c, old) \in Event
        /\ Refilled(c, old).span = old.span /\ Refilled(c, old).slug = old.slug
        /\ old.version \in Nat /\ Refilled(c, old).version = old.version + 1
        /\ \A g \in Refilled(c, old).fields :
              g \in old.fields \/ g.no = old.version + 1
    BY <1>2, EventRefilled
  <1>6. PICK row : row = Refilled(c, old)
    OBVIOUS
  <1>7. /\ row \in Event /\ row.exists
        /\ row.span = old.span /\ row.slug = old.slug
        /\ old.version \in Nat /\ row.version = old.version + 1
        /\ \A g \in row.fields : g \in old.fields \/ g.no = old.version + 1
    BY <1>5, <1>6, RowsTell
  <1>8. events' = [events EXCEPT ![q.event] = row]
    BY <1>3, <1>4, <1>6
  <1> HIDE DEF q
  <1>9. /\ events' \in [EventIds -> Event \cup {NoRow}] /\ events'[q.event] = row
        /\ \A d \in EventIds : d # q.event => events'[d] = events[d]
    BY <1>2, <1>7, <1>8 DEF TypeOK
  <1> QED
    BY <1>2, <1>3, <1>4, <1>7, <1>9 DEF q

LEMMA UpsertTrackFormDoes ==
    ASSUME TypeOK, NEW c \in Slots, UpsertTrackForm(c), ~Refuse(c)
    PROVE  LET q == calls[c].req IN
           /\ q.op = "upsertSessionForm" /\ Writing(c)
           /\ q.track \in TrackIds
           /\ tracks[q.track] \in Track /\ tracks[q.track].exists
           /\ tracks' \in [TrackIds -> Track \cup {NoRow, Deleted}]
           /\ tracks'[q.track].exists
           /\ tracks'[q.track].span = tracks[q.track].span
           /\ tracks'[q.track].event = tracks[q.track].event
           /\ \A f \in tracks'[q.track].fields :
                 \/ f \in tracks[q.track].fields
                 \/ f.against = calls[c].against /\ f.key \in KeysOf(q.fields)
           /\ \A u \in TrackIds : u # q.track => tracks'[u] = tracks[u]
           /\ Answer(c)
           /\ UNCHANGED <<categories, events, roles, requests, looped, unchecked>>
  <1> DEFINE q == calls[c].req
  <1>1. /\ q \in TrackFormRequests /\ q.op = "upsertSessionForm" /\ Writing(c)
    BY AtRequest, RequestShape DEF UpsertTrackForm, Writing
  <1>2. q.track \in TrackIds /\ q.fields \in Fields \cup {Kept}
    BY <1>1 DEF TrackFormRequests
  <1>3. /\ tracks[q.track].exists
        /\ tracks' = [tracks EXCEPT ![q.track] = Refilled(c, tracks[q.track])]
        /\ Answer(c)
        /\ UNCHANGED <<categories, events, roles, requests, looped, unchecked>>
    BY DEF UpsertTrackForm
  <1>4. PICK old \in Track : old = tracks[q.track]
    BY <1>2, <1>3, RowTyped
  <1>5. /\ Refilled(c, old) \in Track
        /\ Refilled(c, old).span = old.span /\ Refilled(c, old).event = old.event
        /\ \A f \in Refilled(c, old).fields :
              \/ f \in old.fields
              \/ f.against = calls[c].against /\ f.key \in KeysOf(calls[c].req.fields)
    BY <1>2, TrackRefilled
  <1>6. PICK row : row = Refilled(c, old)
    OBVIOUS
  <1>7. /\ row \in Track /\ row.exists
        /\ row.span = old.span /\ row.event = old.event
        /\ \A f \in row.fields :
              \/ f \in old.fields
              \/ f.against = calls[c].against /\ f.key \in KeysOf(calls[c].req.fields)
    BY <1>5, <1>6, RowsTell
  <1>8. tracks' = [tracks EXCEPT ![q.track] = row]
    BY <1>3, <1>4, <1>6
  <1>9. /\ tracks' \in [TrackIds -> Track \cup {NoRow, Deleted}]
        /\ tracks'[q.track] = row
        /\ \A u \in TrackIds : u # q.track => tracks'[u] = tracks[u]
    <2> HIDE DEF q
    <2> QED
      BY <1>2, <1>7, <1>8 DEF TypeOK
  <1> QED
    BY <1>1, <1>2, <1>3, <1>4, <1>7, <1>9

-----------------------------------------------------------------------------
(* TypeOK and NamedInv, action by action. *)
LEMMA TypeAside ==
    ASSUME TypeOK, calls' \in [Slots -> Call], requests' \in 0..MaxRequests,
           UNCHANGED <<categories, events, roles, tracks, looped, unchecked>>
    PROVE  TypeOK'
  BY DEF TypeOK

(* Rows stay, and the handler that goes on is not about to write over a    *)
(* category that is not there.                                             *)
RowsStay == /\ \A i \in CatIds : categories[i].exists => categories'[i].exists
            /\ \A e \in EventIds : events[e].exists => events'[e].exists

LEMMA NamedStays ==
    ASSUME TypeOK, NamedInv, RowsStay, NEW c \in Slots, OthersSteady(c),
           At(c, {"updateCategory"}, "write")'
              => calls'[c].req.id \in CatIds /\ categories'[calls'[c].req.id].exists,
           \A t \in TrackIds : tracks'[t].exists =>
              \/ tracks[t].exists /\ tracks'[t].event = tracks[t].event
              \/ events'[tracks'[t].event].exists
    PROVE  NamedInv'
  <1>1. ASSUME NEW d \in Slots, At(d, {"updateCategory"}, "write")'
        PROVE  categories'[calls'[d].req.id].exists
    <2>1. CASE d = c
      BY <1>1, <2>1
    <2>2. CASE d # c
      <3>1. Steady(d)
        BY <2>2 DEF OthersSteady
      <3>2. At(d, {"updateCategory"}, "write")
        BY <1>1, <3>1 DEF At, Steady
      <3>3. calls[d].req \in UpdateCategoryRequests
        BY <3>2, AtRequest, RequestShape
      <3>4. calls[d].req.id \in CatIds
        BY <3>3 DEF UpdateCategoryRequests
      <3> QED
        BY <3>1, <3>2, <3>4 DEF NamedInv, Steady, RowsStay
    <2> QED
      BY <2>1, <2>2
  <1>2. \A t \in TrackIds : tracks[t].exists => tracks[t].event \in EventIds
    BY RowTyped DEF Track
  <1>3. \A t \in TrackIds : tracks'[t].exists => events'[tracks'[t].event].exists
    BY <1>2 DEF NamedInv, RowsStay
  <1> QED
    BY <1>1, <1>3 DEF NamedInv

(* ... which is so when no row changes and it is not about to write one.   *)
LEMMA NamedAside ==
    ASSUME TypeOK, NamedInv, NEW c \in Slots, OthersSteady(c),
           UNCHANGED <<categories, events, tracks>>,
           At(c, {"updateCategory"}, "write")'
              => calls'[c].req.id \in CatIds /\ categories[calls'[c].req.id].exists
    PROVE  NamedInv'
  BY NamedStays DEF RowsStay

LEMMA AnswerKept ==
    ASSUME TypeOK, NamedInv, NEW c \in Slots, Answer(c), requests' = requests,
           UNCHANGED <<categories, events, roles, tracks, looped, unchecked>>
    PROVE  TypeOK' /\ NamedInv'
  <1>1. calls' \in [Slots -> Call] /\ calls'[c] = Idle /\ OthersSteady(c)
    BY AnswerFields
  <1>2. ~At(c, {"updateCategory"}, "write")'
    BY <1>1, IdleTyped DEF At
  <1>3. TypeOK'
    BY <1>1, TypeAside DEF TypeOK
  <1> QED
    BY <1>1, <1>2, <1>3, NamedAside

LEMMA GoKept ==
    ASSUME TypeOK, NamedInv, NEW c \in Slots, NEW step \in Steps, Go(c, step),
           requests' = requests,
           calls[c].req.op = "updateCategory" /\ step = "write"
              => categories[calls[c].req.id].exists,
           UNCHANGED <<categories, events, roles, tracks, looped, unchecked>>
    PROVE  TypeOK' /\ NamedInv'
  <1>1. /\ calls' \in [Slots -> Call] /\ OthersSteady(c)
        /\ calls'[c].req = calls[c].req /\ calls'[c].step = step
    BY GoFields
  <1>2. calls[c].req.op = "updateCategory" => calls[c].req.id \in CatIds
    BY CallShape, RequestShape DEF UpdateCategoryRequests
  <1>3. TypeOK'
    BY <1>1, TypeAside DEF TypeOK
  <1> QED
    BY <1>1, <1>2, <1>3, NamedAside DEF At

LEMMA ReceiveFields ==
    ASSUME TypeOK, NEW c \in Slots, Receive(c)
    PROVE  /\ calls' \in [Slots -> Call] /\ calls'[c].step = "start"
           /\ OthersSteady(c)
           /\ UNCHANGED <<categories, events, roles, tracks, looped, unchecked>>
  <1>1. PICK q \in Requests :
           calls' = [calls EXCEPT ![c] = [Idle EXCEPT !.req = q, !.step = "start"]]
    BY DEF Receive
  <1>2. PICK d \in Call : d = [Idle EXCEPT !.req = q, !.step = "start"]
    BY IdleTyped DEF Call, Steps
  <1>3. d.step = "start"
    BY <1>2, IdleTyped DEF Call
  <1>4. calls' = [calls EXCEPT ![c] = d]
    BY <1>1, <1>2
  <1> QED
    BY <1>3, <1>4 DEF TypeOK, OthersSteady, Steady, Receive

LEMMA ReceiveKept ==
    ASSUME TypeOK, NamedInv, NEW c \in Slots, Receive(c)
    PROVE  TypeOK' /\ NamedInv'
  <1>1. requests' \in 0..MaxRequests
    BY PlanningBounds DEF Receive, TypeOK
  <1>2. TypeOK'
    BY <1>1, ReceiveFields, TypeAside
  <1> QED
    BY <1>2, ReceiveFields, NamedAside DEF At

LEMMA LookKept ==
    ASSUME TypeOK, NamedInv, NEW c \in Slots, NEW op, LooksForSlug(c, op)
    PROVE  TypeOK' /\ NamedInv'
  <1>1. /\ calls' \in [Slots -> Call] /\ OthersSteady(c)
        /\ calls'[c].step \in {"look", "insert"}
    BY LookFields
  <1>2. TypeOK'
    BY <1>1, TypeAside DEF LooksForSlug, TypeOK
  <1> QED
    BY <1>1, <1>2, NamedAside DEF LooksForSlug, At

LEMMA CategoryStepKept ==
    ASSUME TypeOK, NamedInv, NEW c \in Slots, CategoryStep(c)
    PROVE  TypeOK' /\ NamedInv'
  <1>1. CASE CreateCategoryReads(c)
    <2>1. calls[c].req.op = "createCategory"
      BY <1>1, AtRequest DEF CreateCategoryReads
    <2>2. CASE Go(c, "look")
      BY <1>1, <2>1, <2>2, GoKept DEF CreateCategoryReads, Steps
    <2>3. CASE Answer(c)
      BY <1>1, <2>3, AnswerKept DEF CreateCategoryReads
    <2> QED
      BY <1>1, <2>2, <2>3 DEF CreateCategoryReads
  <1>2. CASE LooksForSlug(c, "createCategory")
    BY <1>2, LookKept
  <1>3. CASE SlugConflict(c, "createCategory")
    BY <1>3, AnswerKept DEF SlugConflict
  <1>4. CASE CreateCategoryInserts(c)
    <2>1. calls' \in [Slots -> Call] /\ calls'[c] = Idle /\ OthersSteady(c)
      BY <1>4, TakenFields DEF CreateCategoryInserts
    <2>2. PICK i \in CatIds :
              /\ categories[i] = NoRow /\ categories'[i] \in Category
              /\ \A j \in CatIds : j # i => categories'[j] = categories[j]
              /\ categories' \in [CatIds -> Category \cup {NoRow}]
      BY <1>4, CreateCategoryDoes
    <2>3. TypeOK'
      BY <1>4, <2>1, <2>2 DEF CreateCategoryInserts, TypeOK
    <2>4. RowsStay
      BY <1>4, <2>2, RowsTell DEF CreateCategoryInserts, RowsStay
    <2>5. ~At(c, {"updateCategory"}, "write")'
      BY <2>1, IdleTyped DEF At
    <2> QED
      BY <1>4, <2>1, <2>3, <2>4, <2>5, NamedStays DEF CreateCategoryInserts
  <1>5. CASE UpdateCategoryReads(c)
    <2>1. CASE categories[calls[c].req.id].exists /\ Go(c, "write")
      BY <1>5, <2>1, GoKept DEF UpdateCategoryReads, Steps
    <2>2. CASE Answer(c)
      BY <1>5, <2>2, AnswerKept DEF UpdateCategoryReads
    <2> QED
      BY <1>5, <2>1, <2>2 DEF UpdateCategoryReads
  <1>6. CASE UpdateCategoryWrites(c)
    <2> DEFINE q == calls[c].req
    <2>1. calls' \in [Slots -> Call] /\ calls'[c] = Idle /\ OthersSteady(c)
      BY <1>6, TakenFields DEF UpdateCategoryWrites
    <2>2. /\ q.id \in CatIds
          /\ categories'[q.id] \in Category
          /\ \A j \in CatIds : j # q.id => categories'[j] = categories[j]
          /\ categories' \in [CatIds -> Category \cup {NoRow}]
          /\ looped' \subseteq looped \cup {q.id}
      BY <1>6, UpdateCategoryDoes
    <2>3. UNCHANGED <<events, roles, tracks, requests, unchecked>>
      BY <1>6 DEF UpdateCategoryWrites
    <2> HIDE DEF q
    <2>4. TypeOK'
      BY <2>1, <2>2, <2>3 DEF TypeOK
    <2>5. RowsStay
      BY <2>2, <2>3, RowsTell DEF RowsStay
    <2>6. ~At(c, {"updateCategory"}, "write")'
      BY <2>1, IdleTyped DEF At
    <2> QED
      BY <2>1, <2>3, <2>4, <2>5, <2>6, NamedStays
  <1>7. CASE UpdateCategoryFails(c)
    BY <1>7, AnswerKept DEF UpdateCategoryFails
  <1> QED
    BY <1>1, <1>2, <1>3, <1>4, <1>5, <1>6, <1>7 DEF CategoryStep

(* The track a request names, and its event.                               *)
LEMMA NamedTrack ==
    ASSUME TypeOK, NamedInv, NEW c \in Slots,
           calls[c].req.op \in {"updateSession", "deleteSession", "upsertSessionForm"}
    PROVE  LET t == calls[c].req.track IN
           /\ t \in TrackIds
           /\ tracks[t].exists => /\ tracks[t] \in Track
                                  /\ tracks[t].event \in EventIds
                                  /\ events[tracks[t].event].exists
                                  /\ events[tracks[t].event] \in Event
                                  /\ events[tracks[t].event].version \in Nat
  <1> DEFINE t == calls[c].req.track
  <1>1. t \in TrackIds
    BY CallShape, RequestShape DEF RetimeRequests, DropRequests, TrackFormRequests
  <1>2. ASSUME tracks[t].exists
        PROVE  /\ tracks[t] \in Track /\ tracks[t].event \in EventIds
               /\ events[tracks[t].event].exists
    BY <1>1, <1>2, RowTyped DEF Track, NamedInv
  <1>3. ASSUME tracks[t].exists
        PROVE  /\ events[tracks[t].event] \in Event
               /\ events[tracks[t].event].version \in Nat
    BY <1>2, <1>3, RowTyped DEF Event
  <1> QED
    BY <1>1, <1>2, <1>3

LEMMA CheckFields ==
    ASSUME TypeOK, NamedInv, NEW c \in Slots, CheckKeys(c)
    PROVE  LET q == calls[c].req
               e == tracks[q.track].event
           IN
           /\ q.op = "upsertSessionForm" /\ tracks[q.track].exists
           /\ q.track \in TrackIds /\ e \in EventIds
           /\ \/ Answer(c)
              \/ /\ calls' \in [Slots -> Call] /\ OthersSteady(c)
                 /\ calls'[c].req = q /\ calls'[c].step = "write"
                 /\ calls'[c].against = events[e].version
                 /\ ~Clashes(e, q.fields)
  <1> DEFINE q == calls[c].req
             e == tracks[q.track].event
  <1>1. q.op = "upsertSessionForm" /\ tracks[q.track].exists
    BY AtRequest DEF CheckKeys, Manages
  <1>2. /\ q.track \in TrackIds /\ e \in EventIds /\ events[e].version \in Nat
    BY <1>1, NamedTrack
  <1>3. CASE Clashes(e, q.fields)
    BY <1>1, <1>2, <1>3 DEF CheckKeys
  <1>4. CASE ~Clashes(e, q.fields)
    <2>1. calls[c] \in Call /\ calls \in [Slots -> Call]
      BY DEF TypeOK
    <2>2. PICK d \in Call : d = [calls[c] EXCEPT !.step = "write",
                                                 !.against = events[e].version]
      BY <1>2, <2>1 DEF Call, Steps
    <2>3. d.req = q /\ d.step = "write" /\ d.against = events[e].version
      BY <2>1, <2>2 DEF Call
    <2>4. calls' = [calls EXCEPT ![c] = d]
      BY <1>4, <2>2 DEF CheckKeys
    <2>5. calls' \in [Slots -> Call] /\ calls'[c] = d /\ OthersSteady(c)
      BY <2>1, <2>4 DEF OthersSteady, Steady
    <2> QED
      BY <1>1, <1>2, <1>4, <2>3, <2>5
  <1> QED
    BY <1>3, <1>4

LEMMA PlanStepKept ==
    ASSUME TypeOK, NamedInv, NEW c \in Slots, PlanStep(c)
    PROVE  TypeOK' /\ NamedInv'
  <1> DEFINE q == calls[c].req
  <1>r. ASSUME Refuse(c)
        PROVE  TypeOK' /\ NamedInv'
    BY <1>r, AnswerKept DEF Refuse
  <1>a. ASSUME Answer(c)
        PROVE  /\ calls' \in [Slots -> Call] /\ OthersSteady(c)
               /\ ~At(c, {"updateCategory"}, "write")'
    <2>1. calls' \in [Slots -> Call] /\ OthersSteady(c) /\ calls'[c] = Idle
      BY <1>a, AnswerFields
    <2> QED
      BY <2>1, IdleTyped DEF At
  <1>1. CASE CreateReads(c)
    <2>1. calls[c].req.op = "create"
      BY <1>1, AtRequest DEF CreateReads
    <2>2. CASE Go(c, "look")
      BY <1>1, <2>1, <2>2, GoKept DEF CreateReads, Steps
    <2>3. CASE Answer(c)
      BY <1>1, <2>3, AnswerKept DEF CreateReads
    <2> QED
      BY <1>1, <2>2, <2>3 DEF CreateReads
  <1>2. CASE LooksForSlug(c, "create")
    BY <1>2, LookKept
  <1>3. CASE SlugConflict(c, "create")
    BY <1>3, AnswerKept DEF SlugConflict
  <1>4. CASE CreateInserts(c)
    <2>1. calls' \in [Slots -> Call] /\ calls'[c] = Idle /\ OthersSteady(c)
      BY <1>4, TakenFields DEF CreateInserts
    <2>2. PICK e \in EventIds :
              /\ events[e] = NoRow /\ events'[e] \in Event
              /\ \A d \in EventIds : d # e => events'[d] = events[d]
              /\ events' \in [EventIds -> Event \cup {NoRow}]
      BY <1>4, CreateDoes
    <2>3. roles' \in [EventIds \X {a.user : a \in Actors} -> Role]
      BY <1>4 DEF CreateInserts, TypeOK, Role
    <2>4. UNCHANGED <<categories, tracks, requests, looped, unchecked>>
      BY <1>4 DEF CreateInserts
    <2>5. TypeOK'
      BY <2>1, <2>2, <2>3, <2>4 DEF TypeOK
    <2>6. RowsStay
      BY <2>2, <2>4, RowsTell DEF RowsStay
    <2>7. ~At(c, {"updateCategory"}, "write")'
      BY <2>1, IdleTyped DEF At
    <2> QED
      BY <2>1, <2>4, <2>5, <2>6, <2>7, NamedStays
  <1>5. CASE Update(c)
    <2> SUFFICES ASSUME ~Refuse(c)
                 PROVE  TypeOK' /\ NamedInv'
      BY <1>r
    <2>2. q.event \in EventIds
      BY <1>5, UpdateDoes
    <2>3. /\ unchecked' \subseteq unchecked \cup {<<"event", q.event>>}
          /\ Answer(c)
          /\ UNCHANGED <<categories, roles, tracks, requests, looped>>
      BY <1>5 DEF Update
    <2>4. /\ events' \in [EventIds -> Event \cup {NoRow}] /\ events'[q.event].exists
          /\ \A d \in EventIds : d # q.event => events'[d] = events[d]
      BY <1>5, UpdateDoes
    <2>5. unchecked' \subseteq ({"event"} \X EventIds) \cup ({"track"} \X TrackIds)
      BY <2>2, <2>3 DEF TypeOK
    <2>6. TypeOK'
      BY <1>a, <2>3, <2>4, <2>5 DEF TypeOK
    <2>7. RowsStay
      BY <2>3, <2>4 DEF RowsStay
    <2> QED
      BY <1>a, <2>3, <2>6, <2>7, NamedStays
  <1>6. CASE CreateTrack(c)
    <2>1. CASE tracks' = tracks
      <3>1. Answer(c) /\ UNCHANGED <<categories, events, roles, requests,
                                     looped, unchecked>>
        BY <1>6 DEF CreateTrack, Refuse
      <3> QED
        BY <2>1, <3>1, AnswerKept
    <2>2. CASE tracks' # tracks
      <3>1. PICK t \in TrackIds :
                 /\ tracks'[t] \in Track /\ tracks'[t].event = q.event
                 /\ \A u \in TrackIds : u # t => tracks'[u] = tracks[u]
                 /\ tracks' \in [TrackIds -> Track \cup {NoRow, Deleted}]
        BY <1>6, <2>2, CreateTrackDoes
      <3>2. /\ q.event \in EventIds /\ events[q.event].exists /\ Answer(c)
            /\ UNCHANGED <<events, unchecked>>
        BY <1>6, <2>2, CreateTrackDoes
      <3>3. UNCHANGED <<categories, roles, requests, looped>>
        BY <1>6 DEF CreateTrack, Refuse
      <3>4. TypeOK'
        BY <1>a, <3>1, <3>2, <3>3 DEF TypeOK
      <3>5. RowsStay
        BY <3>2, <3>3 DEF RowsStay
      <3>6. \A u \in TrackIds : tracks'[u].exists =>
               \/ tracks[u].exists /\ tracks'[u].event = tracks[u].event
               \/ events'[tracks'[u].event].exists
        BY <3>1, <3>2
      <3> QED
        BY <1>a, <3>2, <3>4, <3>5, <3>6, NamedStays
    <2> QED
      BY <2>1, <2>2
  <1>7. CASE UpdateTrack(c)
    <2>2. q.track \in TrackIds /\ tracks[q.track].exists
      BY <1>7, UpdateTrackDoes
    <2>3. /\ unchecked' \subseteq unchecked \cup {<<"track", q.track>>}
          /\ Answer(c)
          /\ UNCHANGED <<categories, events, roles, requests, looped>>
      BY <1>7 DEF UpdateTrack
    <2>4. /\ tracks' \in [TrackIds -> Track \cup {NoRow, Deleted}]
          /\ tracks'[q.track].event = tracks[q.track].event
          /\ \A u \in TrackIds : u # q.track => tracks'[u] = tracks[u]
      BY <1>7, UpdateTrackDoes
    <2>5. unchecked' \subseteq ({"event"} \X EventIds) \cup ({"track"} \X TrackIds)
      BY <2>2, <2>3 DEF TypeOK
    <2>6. TypeOK'
      BY <1>a, <2>3, <2>4, <2>5 DEF TypeOK
    <2>7. RowsStay
      BY <2>3 DEF RowsStay
    <2>8. \A u \in TrackIds : tracks'[u].exists =>
             tracks[u].exists /\ tracks'[u].event = tracks[u].event
      BY <2>2, <2>4
    <2> QED
      BY <1>a, <2>3, <2>6, <2>7, <2>8, NamedStays
  <1>8. CASE DropTrack(c)
    <2> SUFFICES ASSUME ~Refuse(c)
                 PROVE  TypeOK' /\ NamedInv'
      BY <1>r
    <2>1. /\ Answer(c)
          /\ UNCHANGED <<categories, events, roles, requests, looped, unchecked>>
      BY <1>8, DropTrackDoes
    <2>2. /\ tracks' \in [TrackIds -> Track \cup {NoRow, Deleted}]
          /\ \A u \in TrackIds : tracks'[u] \in {tracks[u], Deleted}
      BY <1>8, DropTrackDoes
    <2>3. TypeOK'
      BY <1>a, <2>1, <2>2 DEF TypeOK
    <2>5. \A u \in TrackIds : tracks'[u].exists =>
             tracks[u].exists /\ tracks'[u].event = tracks[u].event
      BY <2>2, RowsTell
    <2>6. RowsStay
      BY <2>1 DEF RowsStay
    <2> QED
      BY <1>a, <2>1, <2>3, <2>5, <2>6, NamedStays
  <1>9. CASE TrackRefused(c)
    BY <1>9, <1>r DEF TrackRefused
  <1>10. CASE UpsertForm(c)
    <2> SUFFICES ASSUME ~Refuse(c)
                 PROVE  TypeOK' /\ NamedInv'
      BY <1>r
    <2>3. /\ Answer(c)
          /\ UNCHANGED <<categories, roles, tracks, requests, looped, unchecked>>
      BY <1>10, UpsertFormDoes
    <2>5. /\ q.event \in EventIds
          /\ events' \in [EventIds -> Event \cup {NoRow}] /\ events'[q.event].exists
          /\ \A d \in EventIds : d # q.event => events'[d] = events[d]
      BY <1>10, UpsertFormDoes
    <2>6. TypeOK'
      BY <1>a, <2>3, <2>5 DEF TypeOK
    <2>7. RowsStay
      BY <2>3, <2>5 DEF RowsStay
    <2> QED
      BY <1>a, <2>3, <2>6, <2>7, NamedStays
  <1>11. CASE CheckKeys(c)
    <2>1. UNCHANGED <<categories, events, roles, tracks, requests, looped, unchecked>>
      BY <1>11 DEF CheckKeys
    <2>2. CASE Answer(c)
      BY <2>1, <2>2, AnswerKept
    <2>3. CASE ~Answer(c)
      <3>1. /\ calls' \in [Slots -> Call] /\ OthersSteady(c)
            /\ calls'[c].req = q /\ q.op = "upsertSessionForm"
        BY <1>11, <2>3, CheckFields
      <3>2. ~At(c, {"updateCategory"}, "write")'
        BY <3>1 DEF At
      <3>3. TypeOK'
        BY <2>1, <3>1, TypeAside DEF TypeOK
      <3> QED
        BY <2>1, <3>1, <3>2, <3>3, NamedAside
    <2> QED
      BY <2>2, <2>3
  <1>12. CASE UpsertTrackForm(c)
    <2> SUFFICES ASSUME ~Refuse(c)
                 PROVE  TypeOK' /\ NamedInv'
      BY <1>r
    <2>3. /\ Answer(c)
          /\ UNCHANGED <<categories, events, roles, requests, looped, unchecked>>
      BY <1>12, UpsertTrackFormDoes
    <2>5. /\ q.track \in TrackIds /\ tracks[q.track].exists
          /\ tracks' \in [TrackIds -> Track \cup {NoRow, Deleted}]
          /\ tracks'[q.track].event = tracks[q.track].event
          /\ \A u \in TrackIds : u # q.track => tracks'[u] = tracks[u]
      BY <1>12, UpsertTrackFormDoes
    <2>6. TypeOK'
      BY <1>a, <2>3, <2>5 DEF TypeOK
    <2>7. RowsStay
      BY <2>3 DEF RowsStay
    <2>8. \A u \in TrackIds : tracks'[u].exists =>
             tracks[u].exists /\ tracks'[u].event = tracks[u].event
      BY <2>5
    <2> QED
      BY <1>a, <2>3, <2>6, <2>7, <2>8, NamedStays
  <1>13. CASE UpsertFormClears(c) \/ UpsertTrackFormClears(c)
    <2>1. CASE Answer(c)
      BY <1>13, <2>1, ClearingDoes, AnswerKept
    <2>2. CASE ~Answer(c)
      <3>1. /\ calls' \in [Slots -> Call] /\ OthersSteady(c)
            /\ ~At(c, {"updateCategory"}, "write")'
        BY <1>13, <2>2, ClearingDoes DEF At
      <3>2. TypeOK'
        BY <1>13, <3>1, ClearingDoes, TypeAside DEF TypeOK
      <3> QED
        BY <1>13, <3>1, <3>2, ClearingDoes, NamedAside
    <2> QED
      BY <2>1, <2>2
  <1> QED
    BY <1>1, <1>2, <1>3, <1>4, <1>5, <1>6, <1>7, <1>8, <1>9, <1>10, <1>11, <1>12,
       <1>13 DEF PlanStep

-----------------------------------------------------------------------------
(* The rows there may be at the start. *)
LEMMA SomeRows ==
    /\ SomeCategory \in Category /\ SomeEvent \in Event /\ SomeTrack \in Track
    /\ SomeTrack.fields = {}
    /\ SomeTrack.event = 1 /\ 1 \in EventIds
    /\ EndsAfterStart(SomeEvent) /\ EndsAfterStart(SomeTrack)
  <1>1. AnyName \in Names
    BY PlanningStart DEF AnyName
  <1>2. AnySpan \in Spans /\ AnySpan.starts < AnySpan.ends
    BY PlanningStart DEF AnySpan
  <1>3. 1 \in EventIds
    BY PlanningStart, PlanningBounds DEF EventIds
  <1>4. Root(AnyName) \in Slug
    <2>1. 1 \in 1..Len(Numeral)
      BY SlugWords
    <2>2. Candidate(AnyName, 1) \in Slug
      BY <1>1, <2>1 DEF Slug
    <2> QED
      BY <2>2 DEF Candidate
  <1> HIDE DEF AnyName, AnySpan
  <1>5. SomeCategory \in Category
    BY <1>4 DEF SomeCategory, Category
  <1>6. SomeEvent \in Event /\ SomeEvent.span = AnySpan
    BY <1>2, <1>4 DEF SomeEvent, Event
  <1>7. /\ SomeTrack \in Track /\ SomeTrack.fields = {}
        /\ SomeTrack.event = 1 /\ SomeTrack.span = AnySpan
    BY <1>2, <1>3 DEF SomeTrack, Track
  <1> QED
    BY <1>2, <1>3, <1>5, <1>6, <1>7 DEF EndsAfterStart

LEMMA StartTables ==
    ASSUME Init
    PROVE  /\ \A i \in CatIds : categories[i] \in {NoRow, SomeCategory}
           /\ \A e \in EventIds : events[e] \in {NoRow, SomeEvent}
           /\ \A t \in TrackIds : tracks[t] \in {NoRow, SomeTrack}
           /\ (\E t \in TrackIds : tracks[t] = SomeTrack) => events[1] = SomeEvent
           /\ \A c \in Slots : calls[c] = Idle
  <1>1. \A c \in Slots : calls[c] = Idle
    BY DEF Init
  <1>2. CASE categories = [i \in CatIds |-> NoRow]
    <2>1. \/ /\ events = [i \in EventIds |-> NoRow]
             /\ tracks = [i \in TrackIds |-> NoRow]
          \/ /\ events = [i \in EventIds |-> IF i = 1 THEN SomeEvent ELSE NoRow]
             /\ tracks = [i \in TrackIds |-> IF i = 1 THEN SomeTrack ELSE NoRow]
      BY DEF Init
    <2> QED
      BY <1>1, <1>2, <2>1, SomeRows, RowsTell
  <1>3. CASE /\ categories = [i \in CatIds |-> IF i = 1 THEN SomeCategory ELSE NoRow]
             /\ events = [i \in EventIds |-> IF i = 1 THEN SomeEvent ELSE NoRow]
             /\ tracks = [i \in TrackIds |-> IF i = 1 THEN SomeTrack ELSE NoRow]
    BY <1>1, <1>3, SomeRows
  <1> QED
    BY <1>2, <1>3 DEF Init

LEMMA PlanningStarts ==
    ASSUME Init
    PROVE  TypeOK /\ NamedInv
  <1>1. categories \in [CatIds -> Category \cup {NoRow}]
    BY SomeRows DEF Init
  <1>2. events \in [EventIds -> Event \cup {NoRow}]
    BY SomeRows DEF Init
  <1>3. tracks \in [TrackIds -> Track \cup {NoRow, Deleted}]
    BY SomeRows DEF Init
  <1>4. roles \in [EventIds \X {a.user : a \in Actors} -> Role]
    BY DEF Init, Role
  <1>5. calls \in [Slots -> Call] /\ requests \in 0..MaxRequests
        /\ looped = {} /\ unchecked = {}
    BY IdleTyped, PlanningBounds DEF Init
  <1>6. TypeOK
    BY <1>1, <1>2, <1>3, <1>4, <1>5 DEF TypeOK
  <1>7. \A c \in Slots : ~At(c, {"updateCategory"}, "write")
    BY StartTables, IdleTyped DEF At
  <1>8. \A t \in TrackIds : tracks[t].exists =>
           /\ tracks[t] = SomeTrack /\ events[1] = SomeEvent
    BY StartTables, RowsTell
  <1>9. \A t \in TrackIds : tracks[t].exists => events[tracks[t].event].exists
    BY <1>8, SomeRows, RowsTell
  <1> QED
    BY <1>6, <1>7, <1>9 DEF NamedInv

LEMMA PlanningBooks == Spec => [](TypeOK /\ NamedInv)
  <1>1. Init => TypeOK /\ NamedInv
    BY PlanningStarts
  <1>2. TypeOK /\ NamedInv /\ [Next]_vars => (TypeOK /\ NamedInv)'
    <2> SUFFICES ASSUME TypeOK, NamedInv, [Next]_vars
                 PROVE  TypeOK' /\ NamedInv'
      OBVIOUS
    <2>1. CASE Next
      <3>1. PICK c \in Slots : Receive(c) \/ CategoryStep(c) \/ PlanStep(c)
        BY <2>1 DEF Next
      <3> QED
        BY <3>1, ReceiveKept, CategoryStepKept, PlanStepKept
    <2>2. CASE UNCHANGED vars
      BY <2>2 DEF vars, TypeOK, NamedInv, At
    <2> QED
      BY <2>1, <2>2
  <1> QED
    BY <1>1, <1>2, PTL DEF Spec

(* However requests interleave at the database, the tables hold whole rows *)
(* with slugs that uniqueSlug or a rename made, roles are roles, and a     *)
(* handler keeps the request it was given.                                 *)
THEOREM PlanningTyped == Spec => []TypeOK
  BY PlanningBooks, PTL

-----------------------------------------------------------------------------
(* DatesInOrder, action by action. *)

(* What concerns a single handler: its request's dates were compared.      *)
Creating(c) == At(c, {"create"}, "look") \/ At(c, {"create"}, "insert")

LEMMA DatesStay ==
    ASSUME DatesInv, DatesInOrder', NEW c \in Slots, OthersSteady(c),
           Creating(c)' => InOrder(calls'[c].req.span)
    PROVE  DatesInv'
  <1>1. ASSUME NEW d \in Slots, Creating(d)'
        PROVE  InOrder(calls'[d].req.span)
    <2>1. CASE d = c
      BY <1>1, <2>1
    <2>2. CASE d # c
      <3>1. calls'[d].req = calls[d].req /\ calls'[d].step = calls[d].step
        BY <2>2 DEF OthersSteady, Steady
      <3>2. Creating(d)
        BY <1>1, <3>1 DEF Creating, At
      <3> QED
        BY <3>1, <3>2 DEF DatesInv, Creating
    <2> QED
      BY <2>1, <2>2
  <1>2. \A d \in Slots : Creating(d)' => InOrder(calls[d].req.span)'
    BY <1>1 DEF InOrder
  <1> QED
    BY <1>2 DEF DatesInv, Creating

(* Nothing is written but to a handler. *)
LEMMA DatesAside ==
    ASSUME DatesInv, UNCHANGED <<events, tracks, unchecked>>,
           NEW c \in Slots, OthersSteady(c),
           Creating(c)' => InOrder(calls'[c].req.span)
    PROVE  DatesInv'
  <1>1. DatesInOrder'
    BY DEF DatesInv, DatesInOrder, EndsAfterStart
  <1> QED
    BY <1>1, DatesStay

LEMMA AnsweredDates ==
    ASSUME TypeOK, NEW c \in Slots, calls'[c] = Idle
    PROVE  ~Creating(c)'
  BY IdleTyped DEF Creating, At

(* Handling a category's request is no matter of dates or forms.           *)
LEMMA CategoriesApart ==
    ASSUME TypeOK, NEW c \in Slots, CategoryStep(c)
    PROVE  /\ UNCHANGED <<events, roles, tracks, unchecked>> /\ OthersSteady(c)
           /\ calls'[c].req.op \in {"none", "createCategory", "updateCategory"}
  <1>1. ASSUME Answer(c) \/ \E slug : AnswerHavingTaken(c, "createCategory", slug)
        PROVE  /\ OthersSteady(c)
               /\ calls'[c].req.op \in {"none", "createCategory", "updateCategory"}
    <2>1. calls'[c] = Idle /\ OthersSteady(c)
      BY <1>1, AnswerFields, TakenFields
    <2> QED
      BY <2>1, IdleTyped
  <1>2. ASSUME NEW step \in Steps, Go(c, step),
               calls[c].req.op \in {"createCategory", "updateCategory"}
        PROVE  /\ OthersSteady(c)
               /\ calls'[c].req.op \in {"none", "createCategory", "updateCategory"}
    BY <1>2, GoFields
  <1>3. CASE CreateCategoryReads(c)
    BY <1>1, <1>2, <1>3 DEF CreateCategoryReads, At, Steps
  <1>4. CASE LooksForSlug(c, "createCategory")
    BY <1>4, LookFields DEF LooksForSlug, At
  <1>5. CASE SlugConflict(c, "createCategory")
    BY <1>1, <1>5 DEF SlugConflict
  <1>6. CASE CreateCategoryInserts(c)
    BY <1>1, <1>6 DEF CreateCategoryInserts
  <1>7. CASE UpdateCategoryReads(c)
    BY <1>1, <1>2, <1>7 DEF UpdateCategoryReads, At, Steps
  <1>8. CASE UpdateCategoryWrites(c)
    BY <1>1, <1>8 DEF UpdateCategoryWrites
  <1>9. CASE UpdateCategoryFails(c)
    BY <1>1, <1>9 DEF UpdateCategoryFails
  <1> QED
    BY <1>3, <1>4, <1>5, <1>6, <1>7, <1>8, <1>9 DEF CategoryStep

LEMMA DatesStart ==
    ASSUME Init
    PROVE  DatesInv
  <1>1. \A c \in Slots : ~Creating(c)
    BY StartTables, IdleTyped DEF Creating, At
  <1>2. \A e \in EventIds : events[e].exists => EndsAfterStart(events[e])
    BY StartTables, SomeRows, RowsTell
  <1>3. \A t \in TrackIds : tracks[t].exists => EndsAfterStart(tracks[t])
    BY StartTables, SomeRows, RowsTell
  <1> QED
    BY <1>1, <1>2, <1>3 DEF DatesInv, DatesInOrder, Creating

LEMMA DatesKept ==
    ASSUME TypeOK, NamedInv, DatesInv, NEW c \in Slots, PlanStep(c)
    PROVE  DatesInv'
  <1> DEFINE q == calls[c].req
  <1>a. ASSUME Answer(c)
        PROVE  OthersSteady(c) /\ ~Creating(c)'
    BY <1>a, AnswerFields, AnsweredDates
  <1>r. ASSUME Refuse(c)
        PROVE  DatesInv'
    BY <1>a, <1>r, DatesAside DEF Refuse
  <1>o. /\ \A e \in EventIds : events[e].exists =>
              EndsAfterStart(events[e]) \/ <<"event", e>> \in unchecked
        /\ \A t \in TrackIds : tracks[t].exists =>
              EndsAfterStart(tracks[t]) \/ <<"track", t>> \in unchecked
    BY DEF DatesInv, DatesInOrder
  <1>1. CASE CreateReads(c)
    <2>1. UNCHANGED <<events, tracks, unchecked>>
      BY <1>1 DEF CreateReads
    <2>2. CASE InOrder(q.span) /\ Go(c, "look")
      <3>1. OthersSteady(c) /\ calls'[c].req = q
        BY <2>2, GoFields DEF Steps
      <3> QED
        BY <2>1, <2>2, <3>1, DatesAside
    <2>3. CASE Answer(c)
      BY <1>a, <2>1, <2>3, DatesAside
    <2> QED
      BY <1>1, <2>2, <2>3 DEF CreateReads
  <1>2. CASE LooksForSlug(c, "create")
    <2>1. OthersSteady(c) /\ calls'[c].req = q
      BY <1>2, LookFields
    <2>2. InOrder(q.span)
      BY <1>2 DEF LooksForSlug, DatesInv
    <2>3. UNCHANGED <<events, tracks, unchecked>>
      BY <1>2 DEF LooksForSlug
    <2> QED
      BY <2>1, <2>2, <2>3, DatesAside
  <1>3. CASE SlugConflict(c, "create")
    BY <1>a, <1>3, DatesAside DEF SlugConflict
  <1>4. CASE CreateInserts(c)
    <2>1. calls'[c] = Idle /\ OthersSteady(c)
      BY <1>4, TakenFields DEF CreateInserts
    <2>2. PICK e \in EventIds :
              /\ events'[e].span = q.span
              /\ \A d \in EventIds : d # e => events'[d] = events[d]
      BY <1>4, CreateDoes
    <2>3. InOrder(q.span)
      BY <1>4 DEF CreateInserts, DatesInv
    <2>4. EndsAfterStart(events'[e])
      BY <2>2, <2>3 DEF EndsAfterStart, InOrder
    <2>5. UNCHANGED <<tracks, unchecked>>
      BY <1>4 DEF CreateInserts
    <2>6. \A d \in EventIds : events'[d].exists =>
              EndsAfterStart(events'[d]) \/ <<"event", d>> \in unchecked'
      BY <1>o, <2>2, <2>4, <2>5
    <2>7. DatesInOrder'
      BY <1>o, <2>5, <2>6 DEF DatesInOrder, EndsAfterStart
    <2> QED
      BY <2>1, <2>7, AnsweredDates, DatesStay
  <1>5. CASE Update(c)
    <2> SUFFICES ASSUME ~Refuse(c)
                 PROVE  DatesInv'
      BY <1>r
    <2>1. /\ q.event \in EventIds /\ q.span \in PartSpans
          /\ events[q.event] \in Event /\ events[q.event].exists
          /\ Whole(q.span) => InOrder(q.span)
          /\ events'[q.event].span = Retimed(events[q.event].span, q.span)
          /\ \A d \in EventIds : d # q.event => events'[d] = events[d]
          /\ unchecked' = IF Whole(q.span) THEN unchecked \ {<<"event", q.event>>}
                          ELSE IF Untouched(q.span) THEN unchecked
                          ELSE unchecked \cup {<<"event", q.event>>}
      BY <1>5, UpdateDoes
    <2>2. Answer(c) /\ tracks' = tracks
      BY <1>5, UpdateDoes
    <2>3. events[q.event].span \in Spans
      BY <2>1 DEF Event
    <2>4. EndsAfterStart(events'[q.event]) \/ <<"event", q.event>> \in unchecked'
      <3>1. CASE Whole(q.span)
        BY <2>1, <2>3, <3>1, RetimedTyped DEF EndsAfterStart, InOrder
      <3>2. CASE Untouched(q.span)
        <4>1. events'[q.event].span = events[q.event].span
          BY <2>1, <2>3, <3>2, RetimedTyped
        <4>2. unchecked' = unchecked
          BY <2>1, <3>2 DEF Whole, Untouched
        <4> QED
          BY <1>o, <2>1, <4>1, <4>2 DEF EndsAfterStart
      <3>3. CASE ~Whole(q.span) /\ ~Untouched(q.span)
        BY <2>1, <3>3
      <3> QED
        BY <3>1, <3>2, <3>3
    <2>5. \A d \in EventIds : d # q.event /\ <<"event", d>> \in unchecked
                                 => <<"event", d>> \in unchecked'
      BY <2>1
    <2>6. \A t : <<"track", t>> \in unchecked => <<"track", t>> \in unchecked'
      BY <2>1
    <2>7. \A d \in EventIds : events'[d].exists =>
              EndsAfterStart(events'[d]) \/ <<"event", d>> \in unchecked'
      BY <1>o, <2>1, <2>4, <2>5
    <2>8. DatesInOrder'
      BY <1>o, <2>2, <2>6, <2>7 DEF DatesInOrder, EndsAfterStart
    <2> QED
      BY <1>a, <2>2, <2>8, DatesStay
  <1>6. CASE CreateTrack(c)
    <2> SUFFICES ASSUME tracks' # tracks
                 PROVE  DatesInv'
      <3>1. ASSUME tracks' = tracks
            PROVE  UNCHANGED <<events, unchecked>> /\ Answer(c)
        BY <1>6, <3>1 DEF CreateTrack, Refuse
      <3> QED
        BY <1>a, <3>1, DatesAside
    <2>1. /\ InOrder(q.span) /\ UNCHANGED <<events, unchecked>> /\ Answer(c)
          /\ \E t \in TrackIds :
                /\ tracks'[t].span = q.span
                /\ \A u \in TrackIds : u # t => tracks'[u] = tracks[u]
      BY <1>6, CreateTrackDoes
    <2>2. PICK t \in TrackIds :
                /\ tracks'[t].span = q.span
                /\ \A u \in TrackIds : u # t => tracks'[u] = tracks[u]
      BY <2>1
    <2>3. EndsAfterStart(tracks'[t])
      BY <2>1, <2>2 DEF EndsAfterStart, InOrder
    <2>4. \A u \in TrackIds : tracks'[u].exists =>
              EndsAfterStart(tracks'[u]) \/ <<"track", u>> \in unchecked'
      BY <1>o, <2>1, <2>2, <2>3
    <2>5. DatesInOrder'
      BY <1>o, <2>1, <2>4 DEF DatesInOrder, EndsAfterStart
    <2> QED
      BY <1>a, <2>1, <2>5, DatesStay
  <1>7. CASE UpdateTrack(c)
    <2>1. /\ q.track \in TrackIds /\ q.span \in PartSpans
          /\ tracks[q.track] \in Track /\ tracks[q.track].exists
          /\ tracks'[q.track].span = Retimed(tracks[q.track].span, q.span)
          /\ \A u \in TrackIds : u # q.track => tracks'[u] = tracks[u]
          /\ unchecked' = IF Untouched(q.span) THEN unchecked
                          ELSE unchecked \cup {<<"track", q.track>>}
      BY <1>7, UpdateTrackDoes
    <2>2. Answer(c) /\ events' = events
      BY <1>7, UpdateTrackDoes
    <2>3. tracks[q.track].span \in Spans
      BY <2>1 DEF Track
    <2>4. EndsAfterStart(tracks'[q.track]) \/ <<"track", q.track>> \in unchecked'
      <3>1. CASE Untouched(q.span)
        <4>1. tracks'[q.track].span = tracks[q.track].span
          BY <2>1, <2>3, <3>1, RetimedTyped
        <4> QED
          BY <1>o, <2>1, <3>1, <4>1 DEF EndsAfterStart
      <3>2. CASE ~Untouched(q.span)
        BY <2>1, <3>2
      <3> QED
        BY <3>1, <3>2
    <2>5. \A d \in EventIds, u \in TrackIds :
             /\ <<"event", d>> \in unchecked => <<"event", d>> \in unchecked'
             /\ <<"track", u>> \in unchecked => <<"track", u>> \in unchecked'
      BY <2>1
    <2>6. \A u \in TrackIds : tracks'[u].exists =>
              EndsAfterStart(tracks'[u]) \/ <<"track", u>> \in unchecked'
      BY <1>o, <2>1, <2>4, <2>5
    <2>7. DatesInOrder'
      <3>1. \A d \in EventIds : events'[d].exists =>
               EndsAfterStart(events'[d]) \/ <<"event", d>> \in unchecked'
        BY <1>o, <2>1, <2>2
      <3> QED
        BY <2>6, <3>1 DEF DatesInOrder, EndsAfterStart
    <2> QED
      BY <1>a, <2>2, <2>7, DatesStay
  <1>8. CASE DropTrack(c)
    <2> SUFFICES ASSUME ~Refuse(c)
                 PROVE  DatesInv'
      BY <1>r
    <2>1. /\ \A u \in TrackIds : tracks'[u] \in {tracks[u], Deleted}
          /\ Answer(c) /\ UNCHANGED <<events, unchecked>>
      BY <1>8, DropTrackDoes
    <2>2. \A u \in TrackIds : tracks'[u].exists =>
              EndsAfterStart(tracks'[u]) \/ <<"track", u>> \in unchecked'
      BY <1>o, <2>1, RowsTell
    <2>3. DatesInOrder'
      BY <1>o, <2>1, <2>2 DEF DatesInOrder, EndsAfterStart
    <2> QED
      BY <1>a, <2>1, <2>3, DatesStay
  <1>9. CASE TrackRefused(c)
    BY <1>9, <1>r DEF TrackRefused
  <1>10. CASE UpsertForm(c)
    <2>1. CASE Refuse(c)
      BY <1>r, <2>1
    <2>2. CASE ~Refuse(c)
      <3>1. /\ q.event \in EventIds /\ events[q.event].exists
            /\ events'[q.event].span = events[q.event].span
            /\ \A d \in EventIds : d # q.event => events'[d] = events[d]
            /\ Answer(c) /\ UNCHANGED <<tracks, unchecked>>
        BY <1>10, <2>2, UpsertFormDoes
      <3>2. \A d \in EventIds : events'[d].exists =>
                EndsAfterStart(events'[d]) \/ <<"event", d>> \in unchecked'
        BY <1>o, <3>1 DEF EndsAfterStart
      <3>3. DatesInOrder'
        BY <1>o, <3>1, <3>2 DEF DatesInOrder, EndsAfterStart
      <3> QED
        BY <1>a, <3>1, <3>3, DatesStay
    <2> QED
      BY <2>1, <2>2
  <1>11. CASE CheckKeys(c)
    <2>1. UNCHANGED <<events, tracks, unchecked>>
      BY <1>11 DEF CheckKeys
    <2>2. OthersSteady(c) /\ ~Creating(c)'
      BY <1>11, <1>a, CheckFields DEF Creating, At
    <2> QED
      BY <2>1, <2>2, DatesAside
  <1>12. CASE UpsertTrackForm(c)
    <2>1. CASE Refuse(c)
      BY <1>r, <2>1
    <2>2. CASE ~Refuse(c)
      <3>1. /\ q.track \in TrackIds /\ tracks[q.track].exists
            /\ tracks'[q.track].span = tracks[q.track].span
            /\ \A u \in TrackIds : u # q.track => tracks'[u] = tracks[u]
            /\ Answer(c) /\ UNCHANGED <<events, unchecked>>
        BY <1>12, <2>2, UpsertTrackFormDoes
      <3>2. \A u \in TrackIds : tracks'[u].exists =>
                EndsAfterStart(tracks'[u]) \/ <<"track", u>> \in unchecked'
        BY <1>o, <3>1 DEF EndsAfterStart
      <3>3. DatesInOrder'
        BY <1>o, <3>1, <3>2 DEF DatesInOrder, EndsAfterStart
      <3> QED
        BY <1>a, <3>1, <3>3, DatesStay
    <2> QED
      BY <2>1, <2>2
  <1>13. CASE UpsertFormClears(c) \/ UpsertTrackFormClears(c)
    <2>1. UNCHANGED <<events, tracks, unchecked>>
      BY <1>13, ClearingDoes
    <2>2. OthersSteady(c) /\ ~Creating(c)'
      BY <1>13, <1>a, ClearingDoes DEF Creating, At
    <2> QED
      BY <2>1, <2>2, DatesAside
  <1> QED
    BY <1>1, <1>2, <1>3, <1>4, <1>5, <1>6, <1>7, <1>8, <1>9, <1>10, <1>11, <1>12,
       <1>13 DEF PlanStep

(* Whatever dates requests carry and whichever interleave, an event ends   *)
(* after it starts unless update was given only one of its dates since     *)
(* both were compared, and a track unless updateSession was given any.     *)
THEOREM DatesAreInOrder == Spec => []DatesInOrder
  <1>1. Init => DatesInv
    BY DatesStart
  <1>2. TypeOK /\ NamedInv /\ DatesInv /\ [Next]_vars => DatesInv'
    <2> SUFFICES ASSUME TypeOK, NamedInv, DatesInv, [Next]_vars
                 PROVE  DatesInv'
      OBVIOUS
    <2>1. CASE Next
      <3>1. PICK c \in Slots : Receive(c) \/ CategoryStep(c) \/ PlanStep(c)
        BY <2>1 DEF Next
      <3>2. CASE Receive(c)
        BY <3>2, ReceiveFields, DatesAside DEF Creating, At
      <3>3. CASE CategoryStep(c)
        BY <3>3, CategoriesApart, DatesAside DEF Creating, At
      <3> QED
        BY <3>1, <3>2, <3>3, DatesKept
    <2>2. CASE UNCHANGED vars
      BY <2>2 DEF vars, DatesInv, DatesInOrder, EndsAfterStart, At, InOrder
    <2> QED
      BY <2>1, <2>2
  <1>3. DatesInv => DatesInOrder
    BY DEF DatesInv
  <1> QED
    BY <1>1, <1>2, <1>3, PlanningBooks, PTL DEF Spec

-----------------------------------------------------------------------------
(* KeysApart, action by action. *)

(* A track's event stays its event, and what is added to an event's form   *)
(* gets a number that no upsert of it had.                                 *)
TracksStay ==
    \A u \in TrackIds : tracks[u] # NoRow =>
        /\ tracks'[u] # NoRow
        /\ tracks'[u].exists => tracks[u].exists /\ tracks'[u].event = tracks[u].event
FormsGrow ==
    \A e \in EventIds : events[e].exists =>
        /\ events'[e].version \in {events[e].version, events[e].version + 1}
        /\ \A g \in events'[e].fields :
              g \in events[e].fields \/ g.no = events[e].version + 1

LEMMA TrackEvent ==
    ASSUME TypeOK, NamedInv, NEW t \in TrackIds, tracks[t].exists
    PROVE  /\ tracks[t].event \in EventIds
           /\ \A f \in tracks[t].fields : f.against \in Nat
           /\ events[tracks[t].event].exists
           /\ events[tracks[t].event].version \in Nat
  <1>1. /\ tracks[t].event \in EventIds
        /\ \A f \in tracks[t].fields : f.against \in Nat
    BY RowTyped DEF Track, Field
  <1>2. events[tracks[t].event].exists
    BY DEF NamedInv
  <1>3. events[tracks[t].event] \in Event
    BY <1>1, <1>2, RowTyped
  <1> QED
    BY <1>1, <1>2, <1>3 DEF Event

(* What was compared with an event's form stays apart from it.             *)
LEMMA ApartStays ==
    ASSUME TypeOK, FormsGrow, NEW e \in EventIds, events[e].exists,
           NEW keys, NEW against \in Nat, Apart(keys, against, e)
    PROVE  Apart(keys, against, e)'
  <1>1. events[e] \in Event
    BY RowTyped
  <1>2. PICK n \in Nat : n = events[e].version
    BY <1>1 DEF Event
  <1>3. against <= n /\ against < n + 1 /\ against <= n + 1
    BY <1>2 DEF Apart
  <1>4. against <= events'[e].version
    BY <1>2, <1>3 DEF FormsGrow
  <1>5. ASSUME NEW g \in events'[e].fields, g.key \in keys
        PROVE  against < g.no
    <2>1. CASE g \in events[e].fields
      BY <1>5, <2>1 DEF Apart
    <2>2. CASE g.no = n + 1
      BY <1>3, <2>2
    <2> QED
      BY <1>2, <2>1, <2>2 DEF FormsGrow
  <1> QED
    BY <1>4, <1>5 DEF Apart

LEMMA SoundStays ==
    ASSUME TypeOK, NamedInv, FormsGrow, NEW t \in TrackIds, tracks[t].exists,
           Sound(t), tracks'[t].event = tracks[t].event,
           tracks'[t].fields = tracks[t].fields
    PROVE  Sound(t)'
  <1> SUFFICES ASSUME NEW f \in tracks[t].fields
               PROVE  Apart({f.key}, f.against, tracks[t].event)'
    BY DEF Sound
  <1>1. PICK e \in EventIds : e = tracks[t].event /\ events[e].exists
    BY TrackEvent
  <1>2. f.against \in Nat /\ Apart({f.key}, f.against, e)
    BY <1>1, TrackEvent DEF Sound
  <1>3. Apart({f.key}, f.against, e)'
    BY <1>1, <1>2, ApartStays
  <1> QED
    BY <1>1, <1>3 DEF Apart

LEMMA ComparedStays ==
    ASSUME TypeOK, NamedInv, TracksStay, FormsGrow, NEW d \in Slots, Steady(d),
           calls[d].req.op = "upsertSessionForm", Compared(d)
    PROVE  Compared(d)'
  <1>1. PICK t \in TrackIds : t = calls[d].req.track
    BY NamedTrack
  <1>2. PICK against \in Nat : against = calls[d].against
    BY CallShape DEF Call
  <1>3. PICK keys : keys = KeysOf(calls[d].req.fields)
    OBVIOUS
  <1>4. /\ calls'[d].req = calls[d].req /\ calls'[d].against = against
        /\ keys = KeysOf(calls[d].req.fields)'
    BY <1>2, <1>3 DEF Steady, KeysOf
  <1>5. tracks[t] # NoRow /\ tracks'[t] # NoRow
    BY <1>1 DEF Compared, TracksStay
  <1>6. ASSUME tracks'[t].exists
        PROVE  Apart(keys, against, tracks[t].event)'
    <2>1. tracks[t].exists /\ tracks'[t].event = tracks[t].event
      BY <1>5, <1>6 DEF TracksStay
    <2>2. PICK e \in EventIds : e = tracks[t].event /\ events[e].exists
      BY <2>1, TrackEvent
    <2>3. Apart(keys, against, e)
      BY <1>1, <1>2, <1>3, <2>1, <2>2 DEF Compared
    <2>4. Apart(keys, against, e)'
      BY <2>2, <2>3, ApartStays
    <2> QED
      BY <2>1, <2>2, <2>4 DEF Apart
  <1> QED
    BY <1>1, <1>4, <1>5, <1>6 DEF Compared, Apart

(* An operation that answers its request, or that leaves the forms alone,  *)
(* has only the track it writes to account for.                            *)
LEMMA FormsStay ==
    ASSUME TypeOK, NamedInv, FormInv, TracksStay, FormsGrow,
           NEW c \in Slots, OthersSteady(c), Writing(c)' => Compared(c)',
           \A t \in TrackIds : tracks'[t].exists =>
              \/ tracks[t].exists /\ tracks'[t].event = tracks[t].event
                 /\ tracks'[t].fields = tracks[t].fields
              \/ Sound(t)'
    PROVE  FormInv'
  <1>1. ASSUME NEW d \in Slots, Writing(d)'
        PROVE  Compared(d)'
    <2>1. CASE d = c
      BY <1>1, <2>1
    <2>2. CASE d # c
      <3>1. Steady(d)
        BY <2>2 DEF OthersSteady
      <3>2. Writing(d) /\ calls[d].req.op = "upsertSessionForm"
        BY <1>1, <3>1 DEF Writing, At, Steady
      <3>3. Compared(d)
        BY <3>2 DEF FormInv
      <3> QED
        BY <3>1, <3>2, <3>3, ComparedStays
    <2> QED
      BY <2>1, <2>2
  <1>2. ASSUME NEW t \in TrackIds, tracks'[t].exists
        PROVE  Sound(t)'
    BY <1>2, SoundStays DEF FormInv
  <1> QED
    BY <1>1, <1>2 DEF FormInv

LEMMA FormsAside ==
    ASSUME TypeOK, NamedInv, FormInv, UNCHANGED <<events, tracks>>,
           NEW c \in Slots, OthersSteady(c), Writing(c)' => Compared(c)'
    PROVE  FormInv'
  <1>1. TracksStay /\ FormsGrow
    BY DEF TracksStay, FormsGrow
  <1> QED
    BY <1>1, FormsStay

LEMMA FormsStart ==
    ASSUME Init
    PROVE  FormInv
  <1>1. \A c \in Slots : ~Writing(c)
    BY StartTables, IdleTyped DEF Writing, At
  <1>2. ASSUME NEW t \in TrackIds, tracks[t].exists
        PROVE  Sound(t)
    <2>1. tracks[t] = SomeTrack
      BY <1>2, StartTables, RowsTell
    <2>2. tracks[t].fields = {}
      BY <2>1, SomeRows
    <2> QED
      BY <2>2 DEF Sound
  <1> QED
    BY <1>1, <1>2 DEF FormInv

LEMMA FormsKept ==
    ASSUME TypeOK, NamedInv, FormInv, NEW c \in Slots, PlanStep(c)
    PROVE  FormInv'
  <1> DEFINE q == calls[c].req
  <1>a. ASSUME Answer(c)
        PROVE  OthersSteady(c) /\ ~Writing(c)'
    <2>1. OthersSteady(c) /\ calls'[c] = Idle
      BY <1>a, AnswerFields
    <2> QED
      BY <2>1, IdleTyped DEF Writing, At
  <1>b. ASSUME Answer(c), UNCHANGED <<events, tracks>>
        PROVE  FormInv'
    BY <1>a, <1>b, FormsAside
  <1>c. ASSUME tracks' = tracks
        PROVE  TracksStay
    BY <1>c DEF TracksStay
  <1>e. ASSUME events' = events
        PROVE  FormsGrow
    BY <1>e DEF FormsGrow
  <1>1. CASE CreateReads(c)
    <2>1. UNCHANGED <<events, tracks>>
      BY <1>1 DEF CreateReads
    <2>2. CASE Go(c, "look")
      <3>1. OthersSteady(c) /\ calls'[c].step = "look"
        BY <2>2, GoFields DEF Steps
      <3> QED
        BY <2>1, <3>1, FormsAside DEF Writing, At
    <2>3. CASE Answer(c)
      BY <1>b, <2>1, <2>3
    <2> QED
      BY <1>1, <2>2, <2>3 DEF CreateReads
  <1>2. CASE LooksForSlug(c, "create")
    <2>1. OthersSteady(c) /\ calls'[c].step \in {"look", "insert"}
      BY <1>2, LookFields
    <2>2. UNCHANGED <<events, tracks>>
      BY <1>2 DEF LooksForSlug
    <2> QED
      BY <2>1, <2>2, FormsAside DEF Writing, At
  <1>3. CASE SlugConflict(c, "create")
    BY <1>b, <1>3 DEF SlugConflict
  <1>4. CASE CreateInserts(c)
    <2>1. calls'[c] = Idle /\ OthersSteady(c)
      BY <1>4, TakenFields DEF CreateInserts
    <2>2. PICK e \in EventIds :
              /\ events[e] = NoRow
              /\ \A d \in EventIds : d # e => events'[d] = events[d]
      BY <1>4, CreateDoes
    <2>3. tracks' = tracks
      BY <1>4 DEF CreateInserts
    <2>4. FormsGrow
      BY <2>2, RowsTell DEF FormsGrow
    <2>5. ~Writing(c)'
      BY <2>1, IdleTyped DEF Writing, At
    <2> QED
      BY <1>c, <2>1, <2>3, <2>4, <2>5, FormsStay
  <1>5. CASE Update(c)
    <2>1. CASE Refuse(c)
      BY <1>b, <2>1 DEF Refuse
    <2>2. CASE ~Refuse(c)
      <3>1. /\ q.event \in EventIds /\ events'[q.event].fields = events[q.event].fields
            /\ events'[q.event].version = events[q.event].version
            /\ \A d \in EventIds : d # q.event => events'[d] = events[d]
            /\ Answer(c) /\ tracks' = tracks
        BY <1>5, <2>2, UpdateDoes
      <3>2. FormsGrow
        BY <3>1 DEF FormsGrow
      <3> QED
        BY <1>a, <1>c, <3>1, <3>2, FormsStay
    <2> QED
      BY <2>1, <2>2
  <1>6. CASE CreateTrack(c)
    <2>1. CASE tracks' = tracks
      BY <1>b, <1>6, <2>1 DEF CreateTrack, Refuse
    <2>2. CASE tracks' # tracks
      <3>1. q.event \in EventIds /\ events[q.event].exists
            /\ events' = events /\ Answer(c)
        BY <1>6, <2>2, CreateTrackDoes
      <3>2. PICK t \in TrackIds :
                 /\ tracks[t] = NoRow /\ tracks'[t] \in Track
                 /\ tracks'[t].event = q.event
                 /\ tracks'[t].fields = {}
                 /\ \A u \in TrackIds : u # t => tracks'[u] = tracks[u]
        BY <1>6, <2>2, CreateTrackDoes
      <3>4. Sound(t)'
        BY <3>2 DEF Sound
      <3>5. TracksStay
        BY <3>2 DEF TracksStay
      <3>6. \A u \in TrackIds : tracks'[u].exists => tracks'[u] = tracks[u] \/ u = t
        BY <3>2
      <3> QED
        BY <1>a, <1>e, <3>1, <3>4, <3>5, <3>6, FormsStay
    <2> QED
      BY <2>1, <2>2
  <1>7. CASE UpdateTrack(c)
    <2>1. /\ q.track \in TrackIds
          /\ tracks[q.track].exists /\ tracks'[q.track].exists
          /\ tracks'[q.track].event = tracks[q.track].event
          /\ tracks'[q.track].fields = tracks[q.track].fields
          /\ \A u \in TrackIds : u # q.track => tracks'[u] = tracks[u]
          /\ Answer(c) /\ events' = events
      BY <1>7, UpdateTrackDoes
    <2>2. TracksStay
      BY <2>1, RowsTell DEF TracksStay
    <2>3. \A u \in TrackIds : tracks'[u].exists =>
             /\ tracks[u].exists /\ tracks'[u].event = tracks[u].event
             /\ tracks'[u].fields = tracks[u].fields
      BY <2>1
    <2> QED
      BY <1>a, <1>e, <2>1, <2>2, <2>3, FormsStay
  <1>8. CASE DropTrack(c)
    <2>1. CASE Refuse(c)
      BY <1>b, <2>1 DEF Refuse
    <2>2. CASE ~Refuse(c)
      <3>1. /\ \A u \in TrackIds : tracks'[u] \in {tracks[u], Deleted}
            /\ Answer(c) /\ events' = events
        BY <1>8, <2>2, DropTrackDoes
      <3>2. TracksStay
        BY <3>1, RowsTell DEF TracksStay
      <3>3. \A u \in TrackIds : tracks'[u].exists => tracks'[u] = tracks[u]
        BY <3>1, RowsTell
      <3> QED
        BY <1>a, <1>e, <3>1, <3>2, <3>3, FormsStay
    <2> QED
      BY <2>1, <2>2
  <1>9. CASE TrackRefused(c)
    BY <1>b, <1>9 DEF TrackRefused, Refuse
  <1>10. CASE UpsertForm(c)
    <2>1. CASE Refuse(c)
      BY <1>b, <2>1 DEF Refuse
    <2>2. CASE ~Refuse(c)
      <3>1. /\ q.event \in EventIds
            /\ events'[q.event].version = events[q.event].version + 1
            /\ \A g \in events'[q.event].fields :
                  \/ g \in events[q.event].fields
                  \/ g.no = events[q.event].version + 1
            /\ \A d \in EventIds : d # q.event => events'[d] = events[d]
            /\ Answer(c) /\ tracks' = tracks
        BY <1>10, <2>2, UpsertFormDoes
      <3>2. FormsGrow
        BY <3>1 DEF FormsGrow
      <3> QED
        BY <1>a, <1>c, <3>1, <3>2, FormsStay
    <2> QED
      BY <2>1, <2>2
  <1>11. CASE CheckKeys(c)
    <2>1. UNCHANGED <<events, tracks>>
      BY <1>11 DEF CheckKeys
    <2>2. CASE Answer(c)
      BY <1>b, <2>1, <2>2
    <2>3. CASE ~Answer(c)
      <3>1. /\ q.op = "upsertSessionForm" /\ tracks[q.track].exists
            /\ OthersSteady(c) /\ calls'[c].req = q
            /\ calls'[c].against = events[tracks[q.track].event].version
            /\ ~Clashes(tracks[q.track].event, q.fields)
        BY <1>11, <2>3, CheckFields
      <3>2. PICK e \in EventIds, against \in Nat :
               e = tracks[q.track].event /\ against = events[e].version
        BY <3>1, NamedTrack
      <3>3. PICK keys : keys = KeysOf(q.fields)
        OBVIOUS
      <3>4. /\ against <= events[e].version
            /\ \A g \in events[e].fields : g.key \notin keys
        <4>1. against <= events[e].version
          BY <3>2
        <4>2. keys \cap KeysIn(events[e].fields) = {}
          BY <3>1, <3>2, <3>3 DEF Clashes
        <4> QED
          BY <4>1, <4>2 DEF KeysIn
      <3>5. Apart(keys, against, e)'
        BY <2>1, <3>4 DEF Apart
      <3>6. tracks'[q.track] # NoRow
        BY <2>1, <3>1, RowsTell
      <3>7. /\ calls'[c].req = q /\ calls'[c].against = against
            /\ tracks'[q.track].event = e /\ KeysOf(q.fields)' = keys
        BY <2>1, <3>1, <3>2, <3>3 DEF KeysOf
      <3>8. Compared(c)'
        BY <3>5, <3>6, <3>7 DEF Compared, Apart, KeysOf
      <3> QED
        BY <2>1, <3>1, <3>8, FormsAside
    <2> QED
      BY <2>2, <2>3
  <1>12. CASE UpsertTrackForm(c)
    <2>1. CASE Refuse(c)
      BY <1>b, <2>1 DEF Refuse
    <2>2. CASE ~Refuse(c)
      <3>1. PICK t \in TrackIds, e \in EventIds :
               t = q.track /\ e = tracks[t].event /\ tracks[t].exists
        BY <1>12, <2>2, UpsertTrackFormDoes, TrackEvent
      <3>2. /\ tracks'[t].exists /\ tracks'[t].event = e
            /\ \A f \in tracks'[t].fields :
                  \/ f \in tracks[t].fields
                  \/ f.against = calls[c].against /\ f.key \in KeysOf(q.fields)
            /\ \A u \in TrackIds : u # t => tracks'[u] = tracks[u]
            /\ Answer(c) /\ events' = events
        BY <1>12, <2>2, <3>1, UpsertTrackFormDoes
      <3>3. Apart(KeysOf(q.fields), calls[c].against, e)
        BY <1>12, <2>2, <3>1, UpsertTrackFormDoes DEF FormInv, Compared
      <3>4. Sound(t)
        BY <3>1 DEF FormInv
      <3>5. ASSUME NEW f \in tracks'[t].fields
            PROVE  Apart({f.key}, f.against, e)
        BY <3>1, <3>2, <3>3, <3>4 DEF Sound, Apart
      <3>6. Sound(t)'
        BY <3>2, <3>5 DEF Sound, Apart
      <3>7. TracksStay
        BY <3>1, <3>2, RowsTell DEF TracksStay
      <3>8. \A u \in TrackIds : tracks'[u].exists =>
               \/ tracks[u].exists /\ tracks'[u].event = tracks[u].event
                  /\ tracks'[u].fields = tracks[u].fields
               \/ Sound(u)'
        BY <3>2, <3>6
      <3> QED
        BY <1>a, <1>e, <3>2, <3>7, <3>8, FormsStay
    <2> QED
      BY <2>1, <2>2
  <1>13. CASE UpsertFormClears(c) \/ UpsertTrackFormClears(c)
    <2>1. UNCHANGED <<events, tracks>>
      BY <1>13, ClearingDoes
    <2>2. CASE Answer(c)
      BY <1>b, <2>1, <2>2
    <2>3. CASE ~Answer(c)
      <3>1. /\ OthersSteady(c) /\ calls'[c].req = q
            /\ calls'[c].against = calls[c].against
        BY <1>13, <2>3, ClearingDoes
      <3>2. Writing(c)' => Compared(c)
        BY <1>13, <3>1, ClearingDoes DEF FormInv, Writing, At
      <3>3. Writing(c)' => Compared(c)'
        BY <2>1, <3>1, <3>2 DEF Compared, Apart, KeysOf
      <3> QED
        BY <2>1, <3>1, <3>3, FormsAside
    <2> QED
      BY <2>2, <2>3
  <1> QED
    BY <1>1, <1>2, <1>3, <1>4, <1>5, <1>6, <1>7, <1>8, <1>9, <1>10, <1>11, <1>12,
       <1>13 DEF PlanStep

(* Between the comparison of a track's keys with those of its event's form *)
(* and the commit of the track's, and between the deletion and the         *)
(* insertion of any form's fields, anyone may write either form or drop    *)
(* the track, and two overlapping upserts leave the fields of both; still, *)
(* if a track's question has the key of one of its event's, the event's    *)
(* was inserted after the track's was compared.                            *)
THEOREM FormsKeepApart == Spec => []KeysApart
  <1>1. Init => FormInv
    BY FormsStart
  <1>2. TypeOK /\ NamedInv /\ FormInv /\ [Next]_vars => FormInv'
    <2> SUFFICES ASSUME TypeOK, NamedInv, FormInv, [Next]_vars
                 PROVE  FormInv'
      OBVIOUS
    <2>1. CASE Next
      <3>1. PICK c \in Slots : Receive(c) \/ CategoryStep(c) \/ PlanStep(c)
        BY <2>1 DEF Next
      <3>2. CASE Receive(c)
        BY <3>2, ReceiveFields, FormsAside DEF Writing, At
      <3>3. CASE CategoryStep(c)
        BY <3>3, CategoriesApart, FormsAside DEF Writing, At
      <3> QED
        BY <3>1, <3>2, <3>3, FormsKept
    <2>2. CASE UNCHANGED vars
      BY <2>2 DEF vars, FormInv, Sound, Compared, Apart, Writing, At, KeysOf
    <2> QED
      BY <2>1, <2>2
  <1>3. FormInv => KeysApart
    BY DEF FormInv, Sound, Apart, KeysApart
  <1> QED
    BY <1>1, <1>2, <1>3, PlanningBooks, PTL DEF Spec

-----------------------------------------------------------------------------
(* ConflictNeedsRace, action by action. *)
Held(op, slug) == Taken(TableOf(op), slug)
Inserting(d, op) == At(d, {op}, "insert")
Ops == {"createCategory", "create"}

LEMMA RaceByHeld ==
    ConflictNeedsRace <=>
        \A c \in Slots, op \in Ops :
            Inserting(c, op) /\ Held(op, SlugOf(c)) => calls[c].beaten
  BY DEF ConflictNeedsRace, Held, Inserting, Ops

(* A slug taken by c beats whoever is about to insert it, and c itself has *)
(* not found it taken when it goes on to insert one.                       *)
LEMMA RaceStays ==
    ASSUME ConflictNeedsRace, NEW c \in Slots, OthersSteady(c),
           \A op \in Ops : ~(Inserting(c, op) /\ Held(op, SlugOf(c)))',
           \A op \in Ops : \A slug : Held(op, slug)' =>
              \/ Held(op, slug)
              \/ \A d \in Slots : d # c /\ Inserting(d, op) /\ SlugOf(d) = slug
                                     => calls'[d].beaten
    PROVE  ConflictNeedsRace'
  <1>1. ASSUME NEW d \in Slots, NEW op \in Ops,
               (Inserting(d, op) /\ Held(op, SlugOf(d)))'
        PROVE  calls'[d].beaten
    <2>1. d # c
      BY <1>1
    <2>2. Steady(d)
      BY <2>1 DEF OthersSteady
    <2>3. PICK slug : slug = SlugOf(d)
      OBVIOUS
    <2>4. SlugOf(d)' = slug
      BY <2>2, <2>3 DEF SlugOf, Steady
    <2>5. Held(op, slug)'
      BY <1>1, <2>4 DEF Held, Taken
    <2>6. Inserting(d, op)
      BY <1>1, <2>2 DEF Inserting, At, Steady
    <2>7. CASE Held(op, slug)
      <3>1. calls[d].beaten
        BY <2>3, <2>6, <2>7, RaceByHeld
      <3> QED
        BY <2>2, <3>1 DEF Steady
    <2>8. CASE ~Held(op, slug)
      BY <2>1, <2>3, <2>5, <2>6, <2>8
    <2> QED
      BY <2>7, <2>8
  <1>2. (\A d \in Slots, op \in Ops :
            Inserting(d, op) /\ Held(op, SlugOf(d)) => calls[d].beaten)'
    BY <1>1
  <1> QED
    BY <1>2 DEF ConflictNeedsRace, Held, Inserting, Ops

(* The slugs in the tables stay what they are, and c does not go on to     *)
(* insert one.                                                             *)
SlugsStay ==
    /\ \A i \in CatIds : categories'[i].exists =>
          categories[i].exists /\ categories'[i].slug = categories[i].slug
    /\ \A e \in EventIds : events'[e].exists =>
          events[e].exists /\ events'[e].slug = events[e].slug

LEMMA HeldStays ==
    ASSUME TypeOK, TypeOK', SlugsStay, NEW op \in Ops, NEW slug, Held(op, slug)'
    PROVE  Held(op, slug)
  <1>1. /\ DOMAIN categories = CatIds /\ DOMAIN categories' = CatIds
        /\ DOMAIN events = EventIds /\ DOMAIN events' = EventIds
    BY DEF TypeOK
  <1>2. CASE op = "createCategory"
    <2>1. PICK i \in CatIds : categories'[i].exists /\ categories'[i].slug = slug
      BY <1>1, <1>2 DEF Held, Taken, TableOf
    <2> QED
      BY <1>1, <1>2, <2>1 DEF SlugsStay, Held, Taken, TableOf
  <1>3. CASE op = "create"
    <2>1. PICK e \in EventIds : events'[e].exists /\ events'[e].slug = slug
      BY <1>1, <1>3 DEF Held, Taken, TableOf
    <2> QED
      BY <1>1, <1>3, <2>1 DEF SlugsStay, Held, Taken, TableOf
  <1> QED
    BY <1>2, <1>3 DEF Ops

LEMMA RaceAside ==
    ASSUME TypeOK, TypeOK', ConflictNeedsRace, SlugsStay,
           NEW c \in Slots, OthersSteady(c), calls'[c].step # "insert"
    PROVE  ConflictNeedsRace'
  <1>1. \A op \in Ops : \A slug : Held(op, slug)' => Held(op, slug)
    BY HeldStays
  <1>2. \A op \in Ops : ~Inserting(c, op)'
    BY DEF Inserting, At
  <1> QED
    BY <1>1, <1>2, RaceStays

LEMMA AnswerRaces ==
    ASSUME TypeOK, TypeOK', ConflictNeedsRace, SlugsStay, NEW c \in Slots, Answer(c)
    PROVE  ConflictNeedsRace'
  <1>1. OthersSteady(c) /\ calls'[c].step = "idle"
    BY AnswerFields, IdleTyped
  <1> QED
    BY <1>1, RaceAside

LEMMA GoRaces ==
    ASSUME TypeOK, TypeOK', ConflictNeedsRace, SlugsStay, NEW c \in Slots,
           NEW step \in Steps \ {"insert"}, Go(c, step)
    PROVE  ConflictNeedsRace'
  <1>1. OthersSteady(c) /\ calls'[c].step = step
    BY GoFields
  <1> QED
    BY <1>1, RaceAside

LEMMA LookRaces ==
    ASSUME TypeOK, TypeOK', ConflictNeedsRace, NEW c \in Slots, NEW op \in Ops,
           LooksForSlug(c, op)
    PROVE  ConflictNeedsRace'
  <1>1. /\ OthersSteady(c) /\ calls'[c].req = calls[c].req
        /\ \/ calls'[c].step = "look" /\ Taken(TableOf(op), SlugOf(c))
           \/ /\ calls'[c].step = "insert" /\ calls'[c].n = calls[c].n
              /\ ~Taken(TableOf(op), SlugOf(c))
    BY LookFields
  <1>2. UNCHANGED <<categories, events>> /\ calls[c].req.op = op
    BY DEF LooksForSlug, At
  <1>3. SlugsStay
    BY <1>2 DEF SlugsStay
  <1>4. ASSUME NEW p \in Ops, Inserting(c, p)'
        PROVE  ~Held(p, SlugOf(c))'
    <2>1. p = op /\ calls'[c].step = "insert"
      BY <1>1, <1>2, <1>4 DEF Inserting, At
    <2>2. PICK slug : slug = SlugOf(c)
      OBVIOUS
    <2>3. ~Held(op, slug)
      BY <1>1, <2>1, <2>2 DEF Held
    <2>4. SlugOf(c)' = slug
      BY <1>1, <2>1, <2>2 DEF SlugOf
    <2>5. ~Held(op, slug)'
      BY <1>3, <2>3, HeldStays
    <2> QED
      BY <2>1, <2>4, <2>5 DEF Held, Taken, TableOf
  <1>5. \A p \in Ops : ~(Inserting(c, p) /\ Held(p, SlugOf(c)))'
    BY <1>4
  <1>6. \A p \in Ops : \A slug : Held(p, slug)' => Held(p, slug)
    BY <1>3, HeldStays
  <1> QED
    BY <1>1, <1>5, <1>6, RaceStays

(* Whoever takes a slug beats those about to insert the same one.          *)
LEMMA TakenRaces ==
    ASSUME TypeOK, TypeOK', ConflictNeedsRace, NEW c \in Slots, NEW op \in Ops,
           NEW slug, AnswerHavingTaken(c, op, slug),
           \A p \in Ops : \A s : Held(p, s)' => Held(p, s) \/ (p = op /\ s = slug)
    PROVE  ConflictNeedsRace'
  <1>1. /\ OthersSteady(c) /\ calls'[c] = Idle
        /\ \A d \in Slots : d # c /\ At(d, {op}, "insert") /\ SlugOf(d) = slug
                               => calls'[d].beaten
    BY TakenFields
  <1>2. \A p \in Ops : ~Inserting(c, p)'
    BY <1>1, IdleTyped DEF Inserting, At
  <1>3. ASSUME NEW p \in Ops, NEW s, Held(p, s)'
        PROVE  \/ Held(p, s)
               \/ \A d \in Slots : d # c /\ Inserting(d, p) /\ SlugOf(d) = s
                                      => calls'[d].beaten
    BY <1>1, <1>3 DEF Inserting
  <1> QED
    BY <1>1, <1>2, <1>3, RaceStays

(* A row is written: the table holds its slug now, and no other new one.   *)
LEMMA CategoryHeld ==
    ASSUME TypeOK, TypeOK', events' = events, NEW i \in CatIds,
           \A j \in CatIds : j # i => categories'[j] = categories[j]
    PROVE  \A p \in Ops : \A s : Held(p, s)' =>
              Held(p, s) \/ (p = "createCategory" /\ s = categories'[i].slug)
  <1> SUFFICES ASSUME NEW p \in Ops, NEW s, Held(p, s)', ~Held(p, s)
               PROVE  p = "createCategory" /\ s = categories'[i].slug
    OBVIOUS
  <1>1. DOMAIN categories = CatIds /\ DOMAIN categories' = CatIds
    BY DEF TypeOK
  <1>2. p = "createCategory"
    BY DEF Held, Taken, TableOf, Ops
  <1>3. PICK j \in CatIds : categories'[j].exists /\ categories'[j].slug = s
    BY <1>1, <1>2 DEF Held, Taken, TableOf
  <1>4. j = i
    BY <1>1, <1>2, <1>3 DEF Held, Taken, TableOf
  <1> QED
    BY <1>2, <1>3, <1>4

LEMMA EventHeld ==
    ASSUME TypeOK, TypeOK', categories' = categories, NEW e \in EventIds,
           \A d \in EventIds : d # e => events'[d] = events[d]
    PROVE  \A p \in Ops : \A s : Held(p, s)' =>
              Held(p, s) \/ (p = "create" /\ s = events'[e].slug)
  <1> SUFFICES ASSUME NEW p \in Ops, NEW s, Held(p, s)', ~Held(p, s)
               PROVE  p = "create" /\ s = events'[e].slug
    OBVIOUS
  <1>1. DOMAIN events = EventIds /\ DOMAIN events' = EventIds
    BY DEF TypeOK
  <1>2. p = "create"
    BY DEF Held, Taken, TableOf, Ops
  <1>3. PICK d \in EventIds : events'[d].exists /\ events'[d].slug = s
    BY <1>1, <1>2 DEF Held, Taken, TableOf
  <1>4. d = e
    BY <1>1, <1>2, <1>3 DEF Held, Taken, TableOf
  <1> QED
    BY <1>2, <1>3, <1>4

LEMMA CategoriesRace ==
    ASSUME TypeOK, TypeOK', NamedInv, ConflictNeedsRace, NEW c \in Slots,
           CategoryStep(c)
    PROVE  ConflictNeedsRace'
  <1> DEFINE q == calls[c].req
  <1>s. ASSUME UNCHANGED <<categories, events>>
        PROVE  SlugsStay
    BY <1>s DEF SlugsStay
  <1>1. CASE CreateCategoryReads(c)
    <2>1. SlugsStay
      BY <1>1, <1>s DEF CreateCategoryReads
    <2> QED
      BY <1>1, <2>1, GoRaces, AnswerRaces DEF CreateCategoryReads, Steps
  <1>2. CASE LooksForSlug(c, "createCategory")
    BY <1>2, LookRaces DEF Ops
  <1>3. CASE SlugConflict(c, "createCategory")
    BY <1>3, <1>s, AnswerRaces DEF SlugConflict
  <1>4. CASE CreateCategoryInserts(c)
    <2>1. PICK i \in CatIds :
              /\ categories'[i].slug = SlugOf(c)
              /\ \A j \in CatIds : j # i => categories'[j] = categories[j]
      BY <1>4, CreateCategoryDoes
    <2>2. events' = events /\ AnswerHavingTaken(c, "createCategory", SlugOf(c))
      BY <1>4 DEF CreateCategoryInserts
    <2>3. \A p \in Ops : \A s : Held(p, s)' =>
             Held(p, s) \/ (p = "createCategory" /\ s = SlugOf(c))
      BY <2>1, <2>2, CategoryHeld
    <2> QED
      BY <2>2, <2>3, TakenRaces DEF Ops
  <1>5. CASE UpdateCategoryReads(c)
    <2>1. SlugsStay
      BY <1>5, <1>s DEF UpdateCategoryReads
    <2> QED
      BY <1>5, <2>1, GoRaces, AnswerRaces DEF UpdateCategoryReads, Steps
  <1>6. CASE UpdateCategoryWrites(c)
    <2>1. /\ q.id \in CatIds /\ categories'[q.id].slug = Renamed(q)
          /\ \A j \in CatIds : j # q.id => categories'[j] = categories[j]
      BY <1>6, UpdateCategoryDoes
    <2>2. events' = events /\ AnswerHavingTaken(c, "createCategory", Renamed(q))
      BY <1>6 DEF UpdateCategoryWrites
    <2>3. PICK i \in CatIds : i = q.id
      BY <2>1
    <2>4. PICK slug : slug = Renamed(q)
      OBVIOUS
    <2>5. \A p \in Ops : \A s : Held(p, s)' =>
             Held(p, s) \/ (p = "createCategory" /\ s = slug)
      BY <2>1, <2>2, <2>3, <2>4, CategoryHeld
    <2> QED
      BY <2>2, <2>4, <2>5, TakenRaces DEF Ops
  <1>7. CASE UpdateCategoryFails(c)
    BY <1>7, <1>s, AnswerRaces DEF UpdateCategoryFails
  <1> QED
    BY <1>1, <1>2, <1>3, <1>4, <1>5, <1>6, <1>7 DEF CategoryStep

LEMMA PlansRace ==
    ASSUME TypeOK, TypeOK', NamedInv, ConflictNeedsRace, NEW c \in Slots,
           PlanStep(c)
    PROVE  ConflictNeedsRace'
  <1> DEFINE q == calls[c].req
  <1>s. ASSUME UNCHANGED <<categories, events>>
        PROVE  SlugsStay
    BY <1>s DEF SlugsStay
  <1>a. ASSUME UNCHANGED <<categories, events>>, Answer(c)
        PROVE  ConflictNeedsRace'
    BY <1>a, <1>s, AnswerRaces
  <1>1. CASE CreateReads(c)
    <2>1. SlugsStay
      BY <1>1, <1>s DEF CreateReads
    <2> QED
      BY <1>1, <2>1, GoRaces, AnswerRaces DEF CreateReads, Steps
  <1>2. CASE LooksForSlug(c, "create")
    BY <1>2, LookRaces DEF Ops
  <1>3. CASE SlugConflict(c, "create")
    BY <1>a, <1>3 DEF SlugConflict
  <1>4. CASE CreateInserts(c)
    <2>1. PICK e \in EventIds :
              /\ events'[e].slug = SlugOf(c)
              /\ \A d \in EventIds : d # e => events'[d] = events[d]
      BY <1>4, CreateDoes
    <2>2. categories' = categories /\ AnswerHavingTaken(c, "create", SlugOf(c))
      BY <1>4 DEF CreateInserts
    <2>3. \A p \in Ops : \A s : Held(p, s)' =>
             Held(p, s) \/ (p = "create" /\ s = SlugOf(c))
      BY <2>1, <2>2, EventHeld
    <2> QED
      BY <2>2, <2>3, TakenRaces DEF Ops
  <1>5. CASE Update(c)
    <2>1. CASE Refuse(c)
      BY <1>a, <2>1 DEF Refuse
    <2>2. CASE ~Refuse(c)
      <3>1. /\ q.event \in EventIds /\ events[q.event].exists
            /\ events'[q.event].slug = events[q.event].slug
            /\ \A d \in EventIds : d # q.event => events'[d] = events[d]
            /\ Answer(c) /\ categories' = categories
        BY <1>5, <2>2, UpdateDoes
      <3>2. SlugsStay
        BY <3>1 DEF SlugsStay
      <3> QED
        BY <3>1, <3>2, AnswerRaces
    <2> QED
      BY <2>1, <2>2
  <1>6. CASE CreateTrack(c)
    BY <1>a, <1>6 DEF CreateTrack, Refuse
  <1>7. CASE UpdateTrack(c)
    BY <1>a, <1>7 DEF UpdateTrack
  <1>8. CASE DropTrack(c)
    BY <1>a, <1>8 DEF DropTrack, Refuse
  <1>9. CASE TrackRefused(c)
    BY <1>a, <1>9 DEF TrackRefused, Refuse
  <1>10. CASE UpsertForm(c)
    <2>1. CASE Refuse(c)
      BY <1>a, <2>1 DEF Refuse
    <2>2. CASE ~Refuse(c)
      <3>1. /\ q.event \in EventIds /\ events[q.event].exists
            /\ events'[q.event].slug = events[q.event].slug
            /\ \A d \in EventIds : d # q.event => events'[d] = events[d]
            /\ Answer(c) /\ categories' = categories
        BY <1>10, <2>2, UpsertFormDoes
      <3>2. SlugsStay
        BY <3>1 DEF SlugsStay
      <3> QED
        BY <3>1, <3>2, AnswerRaces
    <2> QED
      BY <2>1, <2>2
  <1>11. CASE CheckKeys(c)
    <2>1. UNCHANGED <<categories, events>>
      BY <1>11 DEF CheckKeys
    <2>2. CASE Answer(c)
      BY <1>a, <2>1, <2>2
    <2>3. CASE ~Answer(c)
      <3>1. OthersSteady(c) /\ calls'[c].step = "write"
        BY <1>11, <2>3, CheckFields
      <3> QED
        BY <1>s, <2>1, <3>1, RaceAside
    <2> QED
      BY <2>2, <2>3
  <1>12. CASE UpsertTrackForm(c)
    BY <1>a, <1>12 DEF UpsertTrackForm, Refuse
  <1>13. CASE UpsertFormClears(c) \/ UpsertTrackFormClears(c)
    <2>1. UNCHANGED <<categories, events>>
      BY <1>13, ClearingDoes
    <2>2. CASE Answer(c)
      BY <1>a, <2>1, <2>2
    <2>3. CASE ~Answer(c)
      <3>1. OthersSteady(c) /\ calls'[c].step = "commit"
        BY <1>13, <2>3, ClearingDoes
      <3> QED
        BY <1>s, <2>1, <3>1, RaceAside
    <2> QED
      BY <2>2, <2>3
  <1> QED
    BY <1>1, <1>2, <1>3, <1>4, <1>5, <1>6, <1>7, <1>8, <1>9, <1>10, <1>11, <1>12,
       <1>13 DEF PlanStep

(* Whatever the names, the numbers words are written with and the slugs    *)
(* renames make, creating a category or an event is refused for its slug   *)
(* only after another creation or a rename took that very slug between the *)
(* look and the insert.                                                    *)
THEOREM ConflictsAreRaces == Spec => []ConflictNeedsRace
  <1>1. Init => ConflictNeedsRace
    <2> SUFFICES ASSUME Init
                 PROVE  \A c \in Slots : ~\E op : At(c, {op}, "insert")
      BY DEF ConflictNeedsRace
    <2> QED
      BY StartTables, IdleTyped DEF At
  <1>2. /\ TypeOK /\ NamedInv /\ TypeOK' /\ ConflictNeedsRace /\ [Next]_vars
        => ConflictNeedsRace'
    <2> SUFFICES ASSUME TypeOK, NamedInv, TypeOK', ConflictNeedsRace, [Next]_vars
                 PROVE  ConflictNeedsRace'
      OBVIOUS
    <2>1. CASE Next
      <3>1. PICK c \in Slots : Receive(c) \/ CategoryStep(c) \/ PlanStep(c)
        BY <2>1 DEF Next
      <3>2. CASE Receive(c)
        <4>1. SlugsStay
          BY <3>2, ReceiveFields DEF SlugsStay
        <4> QED
          BY <3>2, <4>1, ReceiveFields, RaceAside
      <3> QED
        BY <3>1, <3>2, CategoriesRace, PlansRace
    <2>2. CASE UNCHANGED vars
      BY <2>2 DEF vars, ConflictNeedsRace, At, Taken, TableOf, SlugOf
    <2> QED
      BY <2>1, <2>2
  <1> QED
    BY <1>1, <1>2, PlanningBooks, PTL DEF Spec

-----------------------------------------------------------------------------
(* The tree of categories.  Counting up to a bound: the least number for   *)
(* which something fails would not be the least.                           *)
LEMMA LeastNumber ==
    ASSUME NEW S \in SUBSET Nat, S # {}
    PROVE  \E n \in S : \A m \in S : n <= m
  <1>1. PICK n \in S : \A m \in S : <<m, n>> \notin OpToRel(<, Nat)
    BY NatLessThanWellFounded, WFMin, Zenon
  <1>2. \A k, m \in Nat : k < m => <<k, m>> \in OpToRel(<, Nat)
    BY DEF OpToRel
  <1>3. \A m \in S : ~ (m < n)
    BY <1>1, <1>2
  <1> QED
    BY <1>3

LEMMA CountingUp ==
    ASSUME NEW bound \in Nat, NEW S, 0 \in S,
           \A n \in 0..(bound - 1) : n \in S => n + 1 \in S
    PROVE  \A n \in 0..bound : n \in S
  <1> DEFINE left == {n \in 0..bound : n \notin S}
  <1> SUFFICES ASSUME left # {} PROVE FALSE
    OBVIOUS
  <1>1. left \in SUBSET Nat
    OBVIOUS
  <1>2. PICK n \in left : \A k \in left : n <= k
    <2> HIDE DEF left
    <2> QED
      BY <1>1, LeastNumber
  <1>3. n # 0 /\ n - 1 \in 0..(bound - 1)
    BY <1>2
  <1>4. n - 1 \in S
    BY <1>2, <1>3
  <1> QED
    BY <1>2, <1>3, <1>4

(* The levels that Under goes down.                                        *)
Deeper(X, rows) == X \cup {j \in rows : categories[j].parent \in X}
Levels(f, start, rows, m) ==
    f = [n \in 0..m |-> IF n = 0 THEN start ELSE Deeper(f[n - 1], rows)]

LEMMA UnderIsALevel ==
    ASSUME NEW start, NEW rows
    PROVE  Under(start, rows)
              = (CHOOSE f : Levels(f, start, rows, MaxCategories))[MaxCategories]
  BY DEF Under, Levels, Deeper

LEMMA LevelsExist ==
    ASSUME NEW start, NEW rows
    PROVE  \E f : Levels(f, start, rows, MaxCategories)
  <1> DEFINE S == {m \in Nat : \E f : Levels(f, start, rows, m)}
  <1>1. 0 \in S
    <2> DEFINE f == [n \in 0..0 |-> start]
    <2>1. f = [n \in 0..0 |-> IF n = 0 THEN start ELSE Deeper(f[n - 1], rows)]
      OBVIOUS
    <2> QED
      BY <2>1 DEF Levels
  <1>2. ASSUME NEW m \in Nat, m \in S
        PROVE  m + 1 \in S
    <2>1. PICK f : Levels(f, start, rows, m)
      BY <1>2
    <2> DEFINE g == [n \in 0..(m + 1) |->
                        IF n = 0 THEN start ELSE Deeper(f[n - 1], rows)]
    <2>2. \A n \in 0..m : g[n] = f[n]
      BY <2>1 DEF Levels
    <2>3. \A n \in 0..(m + 1) : n # 0 => n - 1 \in 0..m
      OBVIOUS
    <2>4. g = [n \in 0..(m + 1) |->
                  IF n = 0 THEN start ELSE Deeper(g[n - 1], rows)]
      BY <2>2, <2>3
    <2> HIDE DEF g
    <2> QED
      BY <2>4 DEF Levels
  <1> HIDE DEF S
  <1>3. MaxCategories \in S
    BY <1>1, <1>2, CountingUp, PlanningBounds
  <1> QED
    BY <1>3 DEF S

LEMMA UnderLevels ==
    ASSUME NEW start, NEW rows
    PROVE  \E f : /\ Under(start, rows) = f[MaxCategories]
                  /\ f[0] = start
                  /\ \A n \in 1..MaxCategories : f[n] = Deeper(f[n - 1], rows)
  <1> DEFINE f == CHOOSE f : Levels(f, start, rows, MaxCategories)
  <1>1. Levels(f, start, rows, MaxCategories)
    BY LevelsExist
  <1>2. Under(start, rows) = f[MaxCategories]
    BY UnderIsALevel
  <1> HIDE DEF f
  <1>3. f[0] = start
    BY <1>1, PlanningBounds DEF Levels
  <1>4. \A n \in 1..MaxCategories : f[n] = Deeper(f[n - 1], rows)
    BY <1>1, PlanningBounds DEF Levels
  <1> QED
    BY <1>2, <1>3, <1>4

(* Under is the least set with start that children of its members are in.  *)
LEMMA UnderWithin ==
    ASSUME NEW start, NEW rows, NEW T, start \subseteq T,
           \A j \in rows : categories[j].parent \in T => j \in T
    PROVE  start \subseteq Under(start, rows) /\ Under(start, rows) \subseteq T
  <1>1. PICK f : /\ Under(start, rows) = f[MaxCategories]
                 /\ f[0] = start
                 /\ \A n \in 1..MaxCategories : f[n] = Deeper(f[n - 1], rows)
    BY UnderLevels
  <1> DEFINE S == {n \in Nat : start \subseteq f[n] /\ f[n] \subseteq T}
  <1>2. 0 \in S
    BY <1>1
  <1>3. ASSUME NEW n \in 0..(MaxCategories - 1), n \in S
        PROVE  n + 1 \in S
    <2>1. n + 1 \in 1..MaxCategories /\ (n + 1) - 1 = n
      BY PlanningBounds
    <2>2. f[n + 1] = Deeper(f[n], rows)
      BY <1>1, <2>1
    <2>3. start \subseteq f[n] /\ f[n] \subseteq T
      BY <1>3
    <2>4. start \subseteq f[n + 1] /\ f[n + 1] \subseteq T
      BY <2>2, <2>3 DEF Deeper
    <2> QED
      BY <2>4
  <1>4. MaxCategories \in S
    <2> HIDE DEF S
    <2> QED
      BY <1>2, <1>3, CountingUp, PlanningBounds
  <1> QED
    BY <1>1, <1>4

(* A set of categories has at most MaxCategories members.                  *)
LEMMA CategoriesAreFinite ==
    ASSUME NEW X \in SUBSET CatIds
    PROVE  /\ IsFiniteSet(X)
           /\ Cardinality(X) \in Nat
           /\ Cardinality(X) <= MaxCategories
  <1>1. MaxCategories \in Nat /\ 1 \in Int /\ MaxCategories \in Int
    BY PlanningBounds
  <1>2. /\ IsFiniteSet(1..MaxCategories)
        /\ Cardinality(1..MaxCategories)
              = (IF 1 > MaxCategories THEN 0 ELSE MaxCategories - 1 + 1)
    BY <1>1, FS_Interval
  <1>3. IsFiniteSet(CatIds)
    BY <1>2 DEF CatIds
  <1>4. Cardinality(CatIds) = MaxCategories
    BY <1>1, <1>2 DEF CatIds
  <1>5. IsFiniteSet(X) /\ Cardinality(X) <= Cardinality(CatIds)
    BY <1>3, FS_Subset
  <1>6. Cardinality(X) \in Nat
    BY <1>5, FS_CardinalityType
  <1> QED
    BY <1>4, <1>5, <1>6

(* A level that is not yet all has at least as many members as its number. *)
LEMMA LevelsGrow ==
    ASSUME NEW start \in SUBSET CatIds, NEW rows \in SUBSET CatIds, NEW f,
           f[0] = start,
           \A n \in 1..MaxCategories : f[n] = Deeper(f[n - 1], rows)
    PROVE  \A n \in 0..MaxCategories :
              /\ f[n] \in SUBSET CatIds
              /\ f[n] = Deeper(f[n], rows) \/ Cardinality(f[n]) >= n + 1
  <1> DEFINE S == {n \in Nat :
                     /\ f[n] \in SUBSET CatIds
                     /\ f[n] = Deeper(f[n], rows) \/ Cardinality(f[n]) >= n + 1}
  <1>1. \A X \in SUBSET CatIds : IsFiniteSet(X) /\ Cardinality(X) \in Nat
    BY CategoriesAreFinite
  <1>2. 0 \in S
    <2>1. CASE start = {}
      BY <2>1 DEF Deeper
    <2>2. CASE start # {}
      <3>1. Cardinality(start) # 0
        BY <1>1, <2>2, FS_EmptySet
      <3>2. Cardinality(start) >= 0 + 1
        BY <1>1, <3>1
      <3> QED
        BY <3>2
    <2> QED
      BY <2>1, <2>2
  <1>3. ASSUME NEW n \in 0..(MaxCategories - 1), n \in S
        PROVE  n + 1 \in S
    <2>1. n + 1 \in 1..MaxCategories /\ (n + 1) - 1 = n /\ n \in Nat
      BY PlanningBounds
    <2>2. f[n + 1] = Deeper(f[n], rows)
      BY <2>1
    <2>3. /\ f[n] \in SUBSET CatIds
          /\ f[n] = Deeper(f[n], rows) \/ Cardinality(f[n]) >= n + 1
      BY <1>3
    <2>4. f[n + 1] \in SUBSET CatIds
      BY <2>2, <2>3 DEF Deeper
    <2>5. CASE f[n] = Deeper(f[n], rows)
      <3>1. f[n + 1] = Deeper(f[n + 1], rows)
        BY <2>2, <2>5
      <3> QED
        BY <2>1, <2>4, <3>1
    <2>6. CASE f[n] # Deeper(f[n], rows) /\ Cardinality(f[n]) >= n + 1
      <3>1. PICK j \in f[n + 1] : j \notin f[n]
        BY <2>2, <2>6 DEF Deeper
      <3>2. f[n] \cup {j} \subseteq f[n + 1]
        BY <2>2, <3>1 DEF Deeper
      <3>3. Cardinality(f[n] \cup {j}) = Cardinality(f[n]) + 1
        BY <1>1, <2>3, <3>1, FS_AddElement
      <3>4. Cardinality(f[n] \cup {j}) <= Cardinality(f[n + 1])
        BY <1>1, <2>4, <3>2, FS_Subset
      <3>5. /\ Cardinality(f[n]) \in Nat /\ Cardinality(f[n + 1]) \in Nat
        BY <1>1, <2>3, <2>4
      <3>6. Cardinality(f[n + 1]) >= (n + 1) + 1
        BY <2>1, <2>6, <3>3, <3>4, <3>5
      <3> QED
        BY <2>1, <2>4, <3>6
    <2> QED
      BY <2>3, <2>5, <2>6
  <1> HIDE DEF S
  <1>4. \A n \in 0..MaxCategories : n \in S
    BY <1>2, <1>3, CountingUp, PlanningBounds
  <1> QED
    BY <1>4 DEF S

(* There are no more categories than levels: the last level is all.        *)
LEMMA UnderClosed ==
    ASSUME NEW start \in SUBSET CatIds, NEW rows \in SUBSET CatIds,
           NEW j \in rows, categories[j].parent \in Under(start, rows)
    PROVE  j \in Under(start, rows)
  <1>1. PICK f : /\ Under(start, rows) = f[MaxCategories]
                 /\ f[0] = start
                 /\ \A n \in 1..MaxCategories : f[n] = Deeper(f[n - 1], rows)
    BY UnderLevels
  <1> DEFINE last == f[MaxCategories]
  <1>2. /\ last \in SUBSET CatIds
        /\ last = Deeper(last, rows) \/ Cardinality(last) >= MaxCategories + 1
    <2>1. MaxCategories \in 0..MaxCategories
      BY PlanningBounds
    <2> QED
      BY <1>1, <2>1, LevelsGrow
  <1>3. Cardinality(last) \in Nat /\ Cardinality(last) <= MaxCategories
    BY <1>2, CategoriesAreFinite
  <1>4. ~ (Cardinality(last) >= MaxCategories + 1)
    BY <1>3, PlanningBounds
  <1> QED
    BY <1>1, <1>2, <1>4 DEF Deeper

(* Below a category is what an ancestor line leads from to it.             *)
Live == {j \in CatIds : categories[j].exists}

LEMMA BelowHolds ==
    ASSUME NEW i \in CatIds
    PROVE  /\ i \in Below(i) /\ Below(i) \subseteq CatIds
           /\ \A j \in Live : categories[j].parent \in Below(i) => j \in Below(i)
  <1>1. Below(i) = Under({i}, Live) /\ {i} \in SUBSET CatIds /\ Live \in SUBSET CatIds
    BY DEF Below, Live
  <1>2. {i} \subseteq Under({i}, Live) /\ Under({i}, Live) \subseteq CatIds
    BY <1>1, UnderWithin
  <1>3. \A j \in Live : categories[j].parent \in Under({i}, Live)
                           => j \in Under({i}, Live)
    BY <1>1, UnderClosed
  <1> QED
    BY <1>1, <1>2, <1>3

LEMMA BelowWithin ==
    ASSUME NEW i \in CatIds, NEW T, i \in T,
           \A j \in Live : categories[j].parent \in T => j \in T
    PROVE  Below(i) \subseteq T
  <1>1. Below(i) = Under({i}, Live) /\ {i} \subseteq T
    BY DEF Below, Live
  <1> QED
    BY <1>1, UnderWithin

(* A set of categories whose parents are all in it is a loop, with what    *)
(* hangs on it.                                                            *)
Rootless(C) == \A i \in C : categories[i].exists /\ categories[i].parent \in C

(* Parents are there; a new category's parent is, too, once it was looked  *)
(* up; and a loop has a member that was moved below itself.                *)
ParentsThere ==
    \A i \in CatIds : categories[i].exists /\ categories[i].parent \in CatIds
                         => categories[categories[i].parent].exists
ParentLookedUp(c) ==
    At(c, {"createCategory"}, "look") \/ At(c, {"createCategory"}, "insert")
       => (calls[c].req.parent \in CatIds
              => categories[calls[c].req.parent].exists)
LoopsKnown ==
    \A C \in SUBSET CatIds : C # {} /\ Rootless(C) => \E l \in C : l \in looped
LoopInv == ParentsThere /\ (\A c \in Slots : ParentLookedUp(c)) /\ LoopsKnown

(* What is not in the tree hangs below a category that was moved below     *)
(* itself.                                                                 *)
LEMMA LostIsLooped ==
    ASSUME TypeOK, LoopsKnown, NEW rows \in SUBSET CatIds, rows \subseteq Live,
           NEW i \in rows, i \notin Tree(rows)
    PROVE  \E l \in looped : i \in Below(l)
  <1>1. Roots(rows) \in SUBSET CatIds /\ Roots(rows) \subseteq rows
    BY DEF Roots
  <1>2. Roots(rows) \subseteq Tree(rows)
    <2>1. \A j \in rows : categories[j].parent \in CatIds => j \in CatIds
      OBVIOUS
    <2> QED
      BY <1>1, <2>1, UnderWithin DEF Tree
  <1>3. \A j \in rows : categories[j].parent \in Tree(rows) => j \in Tree(rows)
    BY <1>1, UnderClosed DEF Tree
  <1>4. \A j \in rows \ Tree(rows) : categories[j].parent \in rows \ Tree(rows)
    BY <1>2, <1>3 DEF Roots
  <1> DEFINE C == {j \in rows \ Tree(rows) : i \in Below(j)}
  <1>5. i \in C
    BY BelowHolds
  <1>6. \A j \in C : categories[j].exists /\ categories[j].parent \in C
    <2> SUFFICES ASSUME NEW j \in C
                 PROVE  categories[j].exists /\ categories[j].parent \in C
      OBVIOUS
    <2>1. PICK p \in rows \ Tree(rows) : p = categories[j].parent
      BY <1>4
    <2>2. j \in Live /\ j \in CatIds /\ p \in CatIds
      OBVIOUS
    <2>3. j \in Below(p)
      BY <2>1, <2>2, BelowHolds
    <2>4. Below(j) \subseteq Below(p)
      <3>1. \A k \in Live : categories[k].parent \in Below(p) => k \in Below(p)
        BY <2>2, BelowHolds
      <3> QED
        BY <2>2, <2>3, <3>1, BelowWithin
    <2>5. i \in Below(p)
      BY <2>4
    <2> QED
      BY <2>1, <2>2, <2>5 DEF Live
  <1>7. C \in SUBSET CatIds
    OBVIOUS
  <1> HIDE DEF C
  <1>8. PICK l \in C : l \in looped
    BY <1>5, <1>6, <1>7 DEF LoopsKnown, Rootless
  <1> QED
    BY <1>8 DEF C

LEMMA LoopsTell ==
    ASSUME TypeOK, LoopInv
    PROVE  TreeComplete
  <1> SUFFICES ASSUME NEW p \in BOOLEAN, NEW i \in Listed(p) \ Tree(Listed(p))
               PROVE  \E l \in looped : i \in Below(l)
    BY DEF TreeComplete
  <1>1. Listed(p) \in SUBSET CatIds /\ Listed(p) \subseteq Live
    BY DEF Listed, Live
  <1> QED
    BY <1>1, LostIsLooped DEF LoopInv

-----------------------------------------------------------------------------
(* How the parents change.                                                 *)
(* A lookup outlives what other handlers do.                               *)
LEMMA LookupsStay ==
    ASSUME TypeOK, NEW c \in Slots, OthersSteady(c),
           \A d \in Slots : ParentLookedUp(d), ParentLookedUp(c)',
           \A i \in CatIds : categories[i].exists => categories'[i].exists
    PROVE  (\A d \in Slots : ParentLookedUp(d))'
  <1> SUFFICES ASSUME NEW d \in Slots
               PROVE  ParentLookedUp(d)'
    OBVIOUS
  <1>1. CASE d = c
    BY <1>1
  <1>2. CASE d # c
    <2>1. calls'[d].req = calls[d].req /\ calls'[d].step = calls[d].step
      BY <1>2 DEF OthersSteady, Steady
    <2>2. ParentLookedUp(d)
      OBVIOUS
    <2> QED
      BY <2>1, <2>2 DEF ParentLookedUp, At
  <1> QED
    BY <1>1, <1>2

LEMMA LoopsAside ==
    ASSUME TypeOK, LoopInv, NEW c \in Slots, OthersSteady(c),
           UNCHANGED <<categories, looped>>, ParentLookedUp(c)'
    PROVE  LoopInv'
  <1>1. (\A d \in Slots : ParentLookedUp(d))'
    BY LookupsStay DEF LoopInv
  <1>2. ParentsThere' /\ LoopsKnown'
    BY DEF LoopInv, ParentsThere, LoopsKnown, Rootless
  <1> QED
    BY <1>1, <1>2 DEF LoopInv

LEMMA DoneLookingUp ==
    ASSUME NEW c \in Slots,
           \/ calls'[c].req.op # "createCategory"
           \/ calls'[c].step \notin {"look", "insert"}
    PROVE  ParentLookedUp(c)'
  BY DEF ParentLookedUp, At

(* A new category is a leaf: it closes no loop.                            *)
LEMMA LeavesCloseNoLoop ==
    ASSUME TypeOK, LoopInv, NEW i \in CatIds, NEW p,
           categories[i] = NoRow, categories'[i].parent = p,
           p \in CatIds => categories[p].exists,
           \A j \in CatIds : j # i => categories'[j] = categories[j],
           looped' = looped
    PROVE  LoopsKnown'
  <1>1. ~categories[i].exists
    BY RowsTell
  <1> SUFFICES ASSUME NEW C \in SUBSET CatIds, C # {},
                      \A j \in C : categories'[j].exists /\ categories'[j].parent \in C
               PROVE  \E l \in C : l \in looped
    BY DEF LoopsKnown, Rootless
  <1>2. \A j \in C : j # i => /\ categories[j].exists
                              /\ categories[j].parent \in C \ {i}
    <2> SUFFICES ASSUME NEW j \in C, j # i
                 PROVE  categories[j].exists /\ categories[j].parent \in C \ {i}
      OBVIOUS
    <2>1. categories[j].exists /\ categories[j].parent \in C
      OBVIOUS
    <2>2. categories[categories[j].parent].exists
      BY <2>1 DEF LoopInv, ParentsThere
    <2> QED
      BY <1>1, <2>1, <2>2
  <1>3. i \in C => p \in C \ {i}
    BY <1>1
  <1>4. C \ {i} # {} /\ C \ {i} \in SUBSET CatIds
    BY <1>3
  <1>5. \A j \in C \ {i} : categories[j].exists /\ categories[j].parent \in C \ {i}
    BY <1>2
  <1> HIDE DEF LoopInv
  <1>6. \E l \in C \ {i} : l \in looped
    BY <1>4, <1>5 DEF LoopInv, LoopsKnown, Rootless
  <1> QED
    BY <1>6

(* A category that is not moved changes no loop; one that is moved below   *)
(* itself is known; one that is moved elsewhere takes what hangs on it out *)
(* of every loop, and a loop is left if there was one.                     *)
LEMMA MovesAreKnown ==
    ASSUME TypeOK, LoopInv, NEW i \in CatIds, NEW p,
           categories[i].exists, categories'[i].parent = p,
           \A j \in CatIds : categories'[j].exists => categories[j].exists,
           \A j \in CatIds : j # i => categories'[j] = categories[j],
           \/ /\ p = categories[i].parent /\ looped' = looped
           \/ /\ p \in Below(i) /\ looped' = looped \cup {i}
           \/ /\ p \notin Below(i) /\ looped' = looped \ {i}
    PROVE  LoopsKnown'
  <1> SUFFICES ASSUME NEW C \in SUBSET CatIds, C # {},
                      \A j \in C : categories'[j].exists /\ categories'[j].parent \in C
               PROVE  \E l \in C : l \in looped'
    BY DEF LoopsKnown, Rootless
  <1>0. LoopsKnown
    BY DEF LoopInv
  <1>1. \A j \in C : j # i => /\ categories[j].exists
                              /\ categories[j].parent \in C
    OBVIOUS
  <1>2. CASE p = categories[i].parent /\ looped' = looped
    <2>1. Rootless(C)
      BY <1>1, <1>2 DEF Rootless
    <2> QED
      BY <1>0, <1>2, <2>1 DEF LoopsKnown
  <1>3. CASE p \in Below(i) /\ looped' = looped \cup {i}
    <2>1. CASE i \in C
      BY <1>3, <2>1
    <2>2. CASE i \notin C
      <3>1. Rootless(C)
        BY <1>1, <2>2 DEF Rootless
      <3> QED
        BY <1>0, <1>3, <3>1 DEF LoopsKnown
    <2> QED
      BY <2>1, <2>2
  <1>4. CASE p \notin Below(i) /\ looped' = looped \ {i}
    <2>1. i \in Below(i) /\ \A j \in Live : categories[j].parent \in Below(i)
                                                => j \in Below(i)
      BY BelowHolds
    <2> DEFINE R == C \ Below(i)
    <2>2. \A j \in R : categories[j].exists /\ categories[j].parent \in R
      <3> SUFFICES ASSUME NEW j \in R
                   PROVE  categories[j].exists /\ categories[j].parent \in R
        OBVIOUS
      <3>1. j # i /\ j \in C /\ j \notin Below(i)
        BY <2>1
      <3>2. categories[j].exists /\ categories[j].parent \in C
        BY <1>1, <3>1
      <3>3. j \in Live
        BY <3>2 DEF Live
      <3> QED
        BY <2>1, <3>1, <3>2, <3>3
    <2>3. R # {}
      <3>1. CASE i \in C
        BY <1>4, <3>1
      <3>2. CASE i \notin C
        <4>1. \A j \in Live : categories[j].parent \in CatIds \ C => j \in CatIds \ C
          BY <1>1, <3>2 DEF Live
        <4>2. Below(i) \subseteq CatIds \ C
          BY <3>2, <4>1, BelowWithin
        <4> QED
          BY <4>2
      <3> QED
        BY <3>1, <3>2
    <2>4. R \in SUBSET CatIds /\ i \notin R /\ R \subseteq C
      BY <2>1
    <2> HIDE DEF R
    <2>5. \E l \in R : l \in looped
      BY <1>0, <2>2, <2>3, <2>4 DEF LoopsKnown, Rootless
    <2> QED
      BY <1>4, <2>4, <2>5
  <1> QED
    BY <1>2, <1>3, <1>4

LEMMA CategoriesLoop ==
    ASSUME TypeOK, NamedInv, LoopInv, NEW c \in Slots, CategoryStep(c)
    PROVE  LoopInv'
  <1> DEFINE q == calls[c].req
  <1>a. ASSUME UNCHANGED <<categories, looped>>, Answer(c)
        PROVE  LoopInv'
    <2>1. OthersSteady(c) /\ calls'[c] = Idle
      BY <1>a, AnswerFields
    <2>2. ParentLookedUp(c)'
      BY <2>1, IdleTyped, DoneLookingUp
    <2> QED
      BY <1>a, <2>1, <2>2, LoopsAside
  <1>1. CASE CreateCategoryReads(c)
    <2>1. UNCHANGED <<categories, looped>>
      BY <1>1 DEF CreateCategoryReads
    <2>2. CASE Answer(c)
      BY <1>a, <2>1, <2>2
    <2>3. CASE ~Answer(c)
      <3>1. Go(c, "look") /\ (q.parent = Top \/ categories[q.parent].exists)
        BY <1>1, <2>3 DEF CreateCategoryReads
      <3>2. OthersSteady(c) /\ calls'[c].req = q
        BY <3>1, GoFields DEF Steps
      <3>3. ParentLookedUp(c)'
        BY <2>1, <3>1, <3>2, PlanningValues DEF ParentLookedUp
      <3> QED
        BY <2>1, <3>2, <3>3, LoopsAside
    <2> QED
      BY <2>2, <2>3
  <1>2. CASE LooksForSlug(c, "createCategory")
    <2>1. /\ OthersSteady(c) /\ calls'[c].req = q
          /\ UNCHANGED <<categories, looped>> /\ At(c, {"createCategory"}, "look")
      BY <1>2, LookFields DEF LooksForSlug
    <2>2. ParentLookedUp(c)
      BY DEF LoopInv
    <2>3. ParentLookedUp(c)'
      BY <2>1, <2>2 DEF ParentLookedUp
    <2> QED
      BY <2>1, <2>3, LoopsAside
  <1>3. CASE SlugConflict(c, "createCategory")
    BY <1>a, <1>3 DEF SlugConflict
  <1>4. CASE CreateCategoryInserts(c)
    <2>1. PICK i \in CatIds :
              /\ categories[i] = NoRow /\ categories'[i] \in Category
              /\ categories'[i].parent = q.parent
              /\ \A j \in CatIds : j # i => categories'[j] = categories[j]
      BY <1>4, CreateCategoryDoes
    <2>2. q.parent \in CatIds => categories[q.parent].exists
      BY <1>4 DEF CreateCategoryInserts, LoopInv, ParentLookedUp
    <2>3. LoopsKnown'
      BY <1>4, <2>1, <2>2, LeavesCloseNoLoop DEF CreateCategoryInserts
    <2>4. \A j \in CatIds : categories[j].exists => categories'[j].exists
      BY <2>1, RowsTell
    <2>5. ParentsThere'
      BY <2>1, <2>2, <2>4 DEF LoopInv, ParentsThere
    <2>6. OthersSteady(c) /\ calls'[c] = Idle
      BY <1>4, TakenFields DEF CreateCategoryInserts
    <2>7. ParentLookedUp(c)'
      BY <2>6, IdleTyped, DoneLookingUp
    <2>8. (\A d \in Slots : ParentLookedUp(d))'
      BY <2>4, <2>6, <2>7, LookupsStay DEF LoopInv
    <2> QED
      BY <2>3, <2>5, <2>8 DEF LoopInv
  <1>5. CASE UpdateCategoryReads(c)
    <2>1. UNCHANGED <<categories, looped>>
      BY <1>5 DEF UpdateCategoryReads
    <2>2. CASE Answer(c)
      BY <1>a, <2>1, <2>2
    <2>3. CASE ~Answer(c)
      <3>1. Go(c, "write")
        BY <1>5, <2>3 DEF UpdateCategoryReads
      <3>2. OthersSteady(c) /\ calls'[c].step = "write"
        BY <3>1, GoFields DEF Steps
      <3> QED
        BY <2>1, <3>2, DoneLookingUp, LoopsAside
    <2> QED
      BY <2>2, <2>3
  <1>6. CASE UpdateCategoryWrites(c)
    <2>1. /\ q.id \in CatIds /\ categories[q.id].exists
          /\ categories'[q.id] \in Category
          /\ categories'[q.id].parent = IF q.parent # Kept THEN q.parent
                                        ELSE categories[q.id].parent
          /\ \A j \in CatIds : j # q.id => categories'[j] = categories[j]
      BY <1>6, UpdateCategoryDoes
    <2>2. \A j \in CatIds : categories'[j].exists <=> categories[j].exists
      BY <2>1, RowsTell
    <2>3. q.parent \in CatIds => categories[q.parent].exists
      BY <1>6 DEF UpdateCategoryWrites, Writable
    <2>4. looped' = IF q.parent # Kept /\ q.parent \in Below(q.id)
                    THEN looped \cup {q.id}
                    ELSE IF q.parent # Kept THEN looped \ {q.id} ELSE looped
      BY <1>6 DEF UpdateCategoryWrites
    <2>5. OthersSteady(c) /\ calls'[c] = Idle
      BY <1>6, TakenFields DEF UpdateCategoryWrites
    <2>6. ParentLookedUp(c)'
      BY <2>5, IdleTyped, DoneLookingUp
    <2>7. (\A d \in Slots : ParentLookedUp(d))'
      BY <2>2, <2>5, <2>6, LookupsStay DEF LoopInv
    <2>8. ParentsThere'
      BY <2>1, <2>2, <2>3 DEF LoopInv, ParentsThere
    <2>9. PICK i \in CatIds : i = q.id
      BY <2>1
    <2>10. PICK p : p = categories'[q.id].parent
      OBVIOUS
    <2>11. \/ p = categories[i].parent /\ looped' = looped
           \/ p \in Below(i) /\ looped' = looped \cup {i}
           \/ p \notin Below(i) /\ looped' = looped \ {i}
      BY <2>1, <2>4, <2>9, <2>10
    <2>12. LoopsKnown'
      BY <2>1, <2>2, <2>9, <2>10, <2>11, MovesAreKnown
    <2> QED
      BY <2>7, <2>8, <2>12 DEF LoopInv
  <1>7. CASE UpdateCategoryFails(c)
    BY <1>a, <1>7 DEF UpdateCategoryFails
  <1> QED
    BY <1>1, <1>2, <1>3, <1>4, <1>5, <1>6, <1>7 DEF CategoryStep

LEMMA PlansLoop ==
    ASSUME TypeOK, NamedInv, LoopInv, NEW c \in Slots, PlanStep(c)
    PROVE  LoopInv'
  <1>a. ASSUME UNCHANGED <<categories, looped>>,
               \/ Answer(c)
               \/ OthersSteady(c) /\ calls'[c] = Idle
               \/ OthersSteady(c) /\ calls'[c].req.op # "createCategory"
        PROVE  LoopInv'
    <2>1. /\ OthersSteady(c)
          /\ calls'[c] = Idle \/ calls'[c].req.op # "createCategory"
      BY <1>a, AnswerFields
    <2>2. ParentLookedUp(c)'
      BY <2>1, IdleTyped, DoneLookingUp
    <2> QED
      BY <1>a, <2>1, <2>2, LoopsAside
  <1>1. CASE CreateReads(c)
    <2>1. UNCHANGED <<categories, looped>> /\ calls[c].req.op = "create"
      BY <1>1, AtRequest DEF CreateReads
    <2>2. CASE Answer(c)
      BY <1>a, <2>1, <2>2
    <2>3. CASE Go(c, "look")
      <3>1. OthersSteady(c) /\ calls'[c].req = calls[c].req
        BY <2>3, GoFields DEF Steps
      <3> QED
        BY <1>a, <2>1, <3>1
    <2> QED
      BY <1>1, <2>2, <2>3 DEF CreateReads
  <1>2. CASE LooksForSlug(c, "create")
    <2>1. /\ UNCHANGED <<categories, looped>> /\ calls[c].req.op = "create"
          /\ OthersSteady(c) /\ calls'[c].req = calls[c].req
      BY <1>2, AtRequest, LookFields DEF LooksForSlug
    <2> QED
      BY <1>a, <2>1
  <1>3. CASE SlugConflict(c, "create")
    BY <1>a, <1>3 DEF SlugConflict
  <1>4. CASE CreateInserts(c)
    <2>1. OthersSteady(c) /\ calls'[c] = Idle
      BY <1>4, TakenFields DEF CreateInserts
    <2> QED
      BY <1>a, <1>4, <2>1 DEF CreateInserts
  <1>5. CASE Update(c)
    BY <1>a, <1>5 DEF Update, Refuse
  <1>6. CASE CreateTrack(c)
    BY <1>a, <1>6 DEF CreateTrack, Refuse
  <1>7. CASE UpdateTrack(c)
    BY <1>a, <1>7 DEF UpdateTrack
  <1>8. CASE DropTrack(c)
    BY <1>a, <1>8 DEF DropTrack, Refuse
  <1>9. CASE TrackRefused(c)
    BY <1>a, <1>9 DEF TrackRefused, Refuse
  <1>10. CASE UpsertForm(c)
    BY <1>a, <1>10 DEF UpsertForm, Refuse
  <1>11. CASE CheckKeys(c)
    <2>1. UNCHANGED <<categories, looped>>
      BY <1>11 DEF CheckKeys
    <2>2. \/ Answer(c)
          \/ OthersSteady(c) /\ calls'[c].req.op # "createCategory"
      BY <1>11, CheckFields
    <2> QED
      BY <1>a, <2>1, <2>2
  <1>12. CASE UpsertTrackForm(c)
    BY <1>a, <1>12 DEF UpsertTrackForm, Refuse
  <1>13. CASE UpsertFormClears(c) \/ UpsertTrackFormClears(c)
    <2>1. UNCHANGED <<categories, looped>>
      BY <1>13, ClearingDoes
    <2>2. \/ Answer(c)
          \/ OthersSteady(c) /\ calls'[c].req.op # "createCategory"
      BY <1>13, ClearingDoes
    <2> QED
      BY <1>a, <2>1, <2>2
  <1> QED
    BY <1>1, <1>2, <1>3, <1>4, <1>5, <1>6, <1>7, <1>8, <1>9, <1>10, <1>11, <1>12,
       <1>13 DEF PlanStep

LEMMA LoopsStart ==
    ASSUME Init
    PROVE  LoopInv
  <1>1. \A i \in CatIds : categories[i].exists => categories[i].parent = Top
    BY StartTables, RowsTell DEF SomeCategory
  <1>2. ParentsThere
    BY <1>1, PlanningValues DEF ParentsThere
  <1>3. LoopsKnown
    <2> SUFFICES ASSUME NEW C \in SUBSET CatIds, NEW i \in C, Rootless(C)
                 PROVE  FALSE
      BY DEF LoopsKnown
    <2> QED
      BY <1>1, PlanningValues DEF Rootless
  <1>4. \A c \in Slots : ParentLookedUp(c)
    BY StartTables, IdleTyped DEF ParentLookedUp, At
  <1> QED
    BY <1>2, <1>3, <1>4 DEF LoopInv

(* However categories are created and moved, a category that tree() lists  *)
(* but does not show hangs below one that update moved below itself: only  *)
(* such a move takes categories out of the tree, and no depth of the tree  *)
(* or private parent does.                                                 *)
THEOREM TreesAreComplete == Spec => []TreeComplete
  <1>1. Init => LoopInv
    BY LoopsStart
  <1>2. TypeOK /\ NamedInv /\ LoopInv /\ [Next]_vars => LoopInv'
    <2> SUFFICES ASSUME TypeOK, NamedInv, LoopInv, [Next]_vars
                 PROVE  LoopInv'
      OBVIOUS
    <2>1. CASE Next
      <3>1. PICK c \in Slots : Receive(c) \/ CategoryStep(c) \/ PlanStep(c)
        BY <2>1 DEF Next
      <3>2. CASE Receive(c)
        <4>1. /\ OthersSteady(c) /\ UNCHANGED <<categories, looped>>
              /\ calls'[c].step = "start"
          BY <3>2, ReceiveFields
        <4> QED
          BY <4>1, DoneLookingUp, LoopsAside
      <3> QED
        BY <3>1, <3>2, CategoriesLoop, PlansLoop
    <2>2. CASE UNCHANGED vars
      BY <2>2 DEF vars, LoopInv, ParentsThere, ParentLookedUp, LoopsKnown,
                  Rootless, At
    <2> QED
      BY <2>1, <2>2
  <1>3. TypeOK /\ LoopInv => TreeComplete
    BY LoopsTell
  <1> QED
    BY <1>1, <1>2, <1>3, PlanningBooks, PTL DEF Spec

=============================================================================
