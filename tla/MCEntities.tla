----------------------------- MODULE MCEntities -----------------------------
(***************************************************************************)
(* An instance of Entities for TLC: two names of one slug, so that the id  *)
(* of the one that comes second has a suffix, and a third id to run into.  *)
(***************************************************************************)
EXTENDS Entities, TLC

CONSTANTS
  Again            (* the sources that are derived twice                   *)

Ids == {"open-ai", "open-ai-2", "open-ai-3"}
OneSlug == [n \in Name |-> <<"open-ai", "open-ai-2", "open-ai-3">>]
OnceOrMore == [s \in Source |-> IF s \in Again THEN 2 ELSE 1]

Symmetry == Permutations(Name)
=============================================================================
