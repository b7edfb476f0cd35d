---------------------------- MODULE MCDashboard ----------------------------
(***************************************************************************)
(* Instances of Dashboard for TLC.                                         *)
(***************************************************************************)
EXTENDS Dashboard, TLC

Classes == {"cheap", "llm", "io"}

(* The first two stages of the default chain, served by the same workers.  *)
Stages2 == {"source_note", "extract_claims"}
AllCheap2 == [s \in Stages2 |-> "cheap"]
Chains2 == [default |-> <<"source_note", "extract_claims">>]

Stages1 == {"source_note"}
AllCheap1 == [s \in Stages1 |-> "cheap"]
Chains1 == [default |-> <<"source_note">>]

Emails == [a \in Artifact |-> "email"]
CheapWorkers == [w \in Worker |-> "cheap"]
NoKeys == {}

Symmetry == Permutations(Thread) \cup Permutations(Artifact)
=============================================================================
