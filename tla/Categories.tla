---------------------------- MODULE Categories ----------------------------
(***************************************************************************)
(* CategoriesService: create, update, and the tree of what there is.       *)
(***************************************************************************)
EXTENDS PlanningDb

(* create reads the parent ...                                             *)
CreateCategoryReads(c) ==
    LET p == calls[c].req.parent IN
    /\ At(c, {"createCategory"}, "start")
    /\ IF p = Top \/ (p \in CatIds /\ categories[p].exists)
       THEN Go(c, "look") ELSE Answer(c)
    /\ UNCHANGED <<categories, events, roles, tracks, requests, looped, unchecked>>

(* ... looks for a slug, and inserts                                       *)
CreateCategoryInserts(c) ==
    LET q == calls[c].req IN
    /\ At(c, {"createCategory"}, "insert")
    /\ ~Taken(categories, SlugOf(c))
    /\ HasRoom(categories)
    /\ categories' = [categories EXCEPT ![Free(categories)] =
          [exists |-> TRUE, slug |-> SlugOf(c), parent |-> q.parent,
           public |-> q.public]]
    /\ AnswerHavingTaken(c, "createCategory", SlugOf(c))
    /\ UNCHANGED <<events, roles, tracks, requests, looped, unchecked>>

(* update reads the row and refuses a category as its own parent ...       *)
UpdateCategoryReads(c) ==
    LET q == calls[c].req IN
    /\ At(c, {"updateCategory"}, "start")
    /\ IF categories[q.id].exists /\ q.parent # q.id
       THEN Go(c, "write") ELSE Answer(c)
    /\ UNCHANGED <<categories, events, roles, tracks, requests, looped, unchecked>>

(* these categories and what hangs below them, down MaxCategories levels   *)
Under(start, rows) ==
    LET level[n \in 0..MaxCategories] ==
            IF n = 0 THEN start
            ELSE level[n - 1] \cup
                    {j \in rows : categories[j].parent \in level[n - 1]}
    IN  level[MaxCategories]

Below(i) == Under({i}, {j \in CatIds : categories[j].exists})

(* ... then writes whatever was given: the slug of a new name is not       *)
(* looked for, and the parent may be anything.  A slug already taken is    *)
(* CONFLICT, a parent that does not exist an unexpected error.             *)
Renamed(q) == IF q.name = Kept THEN categories[q.id].slug ELSE slugify(q.name)
Writable(q) ==
    /\ \A i \in CatIds \ {q.id} :
          categories[i].exists => categories[i].slug # Renamed(q)
    /\ q.parent \in CatIds => categories[q.parent].exists

UpdateCategoryWrites(c) ==
    LET q == calls[c].req
        row == categories[q.id]
        moved == q.parent # Kept
    IN
    /\ At(c, {"updateCategory"}, "write")
    /\ Writable(q)
    /\ categories' = [categories EXCEPT ![q.id] =
          [row EXCEPT !.slug = Renamed(q), !.public = q.public,
                      !.parent = IF moved THEN q.parent ELSE row.parent]]
    /\ looped' = IF moved /\ q.parent \in Below(q.id) THEN looped \cup {q.id}
                 ELSE IF moved THEN looped \ {q.id} ELSE looped
    /\ AnswerHavingTaken(c, "createCategory", Renamed(q))
    /\ UNCHANGED <<events, roles, tracks, requests, unchecked>>

UpdateCategoryFails(c) ==
    /\ At(c, {"updateCategory"}, "write")
    /\ ~Writable(calls[c].req)
    /\ Answer(c)
    /\ UNCHANGED <<categories, events, roles, tracks, requests, looped, unchecked>>

CategoryStep(c) ==
    \/ CreateCategoryReads(c) \/ LooksForSlug(c, "createCategory")
    \/ SlugConflict(c, "createCategory") \/ CreateCategoryInserts(c)
    \/ UpdateCategoryReads(c) \/ UpdateCategoryWrites(c) \/ UpdateCategoryFails(c)
-----------------------------------------------------------------------------
(* tree() fetches the rows and links them in memory: a row whose parent is *)
(* not among them is a root.                                               *)
Listed(includePrivate) ==
    {i \in CatIds : categories[i].exists /\ (includePrivate \/ categories[i].public)}

Roots_OnlyTop(rows) == {i \in rows : categories[i].parent = Top}
Roots(rows) == {i \in rows : categories[i].parent \notin rows}

(* The nodes the caller finds, going from the roots to children. *)
Tree(rows) == Under(Roots(rows), rows)
=============================================================================
