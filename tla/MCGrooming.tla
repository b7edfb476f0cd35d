----------------------------- MODULE MCGrooming -----------------------------
(***************************************************************************)
(* An instance of Grooming for TLC: one claim per source, on a line; the   *)
(* claim in the middle is near both others.                                *)
(***************************************************************************)
EXTENDS Grooming

CONSTANTS
  s1, s2, s3,
  Again            (* the sources that are derived twice                   *)

ThreeSources == {s1, s2, s3}
OwnAuthors == [s \in Source |-> s]
OneEach == [s \in Source |-> {1}]
OnceOrTwice == [s \in Source |-> IF s \in Again THEN 2 ELSE 1]

(* s1 -1- s2 --2-- s3                                                      *)
Place(c) == CASE c[1] = s1 -> 0 [] c[1] = s2 -> 1 [] c[1] = s3 -> 3
OnALine == [c \in ClaimId |-> [m \in ClaimId |->
              IF Place(c) < Place(m) THEN Place(m) - Place(c) ELSE Place(c) - Place(m)]]
=============================================================================
