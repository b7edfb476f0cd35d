----------------------------- MODULE MCBacklog ------------------------------
(***************************************************************************)
(* An instance of Backlog for TLC. An edition is delivered twice, the      *)
(* second time with other headers and the same text; two messages without  *)
(* a Message-ID are somebody else's copy of that text, and empty.          *)
(***************************************************************************)
EXTENDS Backlog, TLC

CONSTANTS edition, again, anonymous, empty

Messages == {edition, again, anonymous, empty}

Ids == [m \in Messages |-> IF m \in {edition, again} THEN "id" ELSE NoId]

Texts == [m \in Messages |-> IF m = empty THEN NoText ELSE "article"]

Pieces == [m \in Messages |-> NoText]
Authors == [m \in Messages |-> IF m = anonymous THEN "unknown" ELSE "author"]
Times == [m \in Messages |-> IF m = again THEN 2 ELSE IF m = empty THEN 3 ELSE 1]

Directly == {{edition, empty}}

Cheap == [s \in Stage |-> "cheap"]
Chain == [default |-> <<"source_note">>]
Emails == [a \in Artifact |-> "email"]

Symmetry == Permutations(Ingestor)
=============================================================================
