------------------------------ MODULE MCCorpus ------------------------------
(***************************************************************************)
(* Instances of Corpus for TLC.                                            *)
(***************************************************************************)
EXTENDS Corpus

CONSTANTS
  Unsigned,        (* the sources nobody says the author of                *)
  Long,            (* the sources of two claims; the others have one      *)
  Again            (* the sources that are derived twice                   *)

(* The other sources are all by one author, or each by its own.            *)
OneAuthor == [s \in Source |-> IF s \in Unsigned THEN NoAuthor ELSE "author"]
OwnAuthors == [s \in Source |-> IF s \in Unsigned THEN NoAuthor ELSE s]

(* A pass that ends early has had fewer candidates.                        *)
LongOrShort == [s \in Source |-> IF s \in Long THEN {2} ELSE {1}]
OnceOrTwice == [s \in Source |-> IF s \in Again THEN 2 ELSE 1]
=============================================================================
