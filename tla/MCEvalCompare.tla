--------------------------- MODULE MCEvalCompare ---------------------------
(***************************************************************************)
(* An instance of EvalCompare for TLC: the evaluated stage between the one *)
(* whose rerun asks for it again and the one that commits what it          *)
(* produces. The model in use is one of the variants.                      *)
(***************************************************************************)
EXTENDS EvalCompare, TLC

CONSTANTS
  InUse, Other     (* where the two variants' intermediates go             *)

EvalStages == {"source_note", "extract_claims", "dedup"}
EvalClasses == {"cheap"}
EvalResource == [s \in EvalStages |-> "cheap"]
EvalChains == [default |-> <<"source_note", "extract_claims", "dedup">>]

EvalEmails == [a \in Artifact |-> "email"]
EvalWorkers == [w \in Worker |-> "cheap"]
PauseExtraction == {<<"stage", "extract_claims">>}
NoScopes == {}

TwoVariants == <<InUse, Other>>
=============================================================================
