------------------------------- MODULE Slugs -------------------------------
(***************************************************************************)
(* utils/slug.ts.  A name is a sequence of words, and so is a slug: the    *)
(* words slugify keeps, joined by '-'.  'Talk 2' and the second candidate  *)
(* for 'Talk' are the same slug.  The cut after 80 characters is left out. *)
(***************************************************************************)
EXTENDS Naturals, Sequences

CONSTANTS
    Latin,      \* words with a letter or digit that slugify keeps
    Item,       \* the word 'item'
    Numeral     \* how the numbers are written, as words; bound: those tried

ASSUME SlugWords == /\ Item \in Latin
                    /\ Numeral \in Seq(Latin) /\ Len(Numeral) >= 1

(* words without Latin letters or digits vanish; nothing may be left *)
slugify(name) == SelectSeq(name, LAMBDA word : word \in Latin)

Root(name) == IF slugify(name) = <<>> THEN <<Item>> ELSE slugify(name)

(* uniqueSlug tries root, root-2, root-3, ... *)
Candidate(name, n) ==
    IF n = 1 THEN Root(name) ELSE Append(Root(name), Numeral[n])
=============================================================================
