--------------------------- MODULE MCOrchestrator ---------------------------
(***************************************************************************)
(* Instances of Orchestrator for TLC. The stage registry is the program's, *)
(* cut to the stages a run needs: the default chain and its one-stage      *)
(* neighbour for personal notes.                                           *)
(***************************************************************************)
EXTENDS Orchestrator, TLC

Classes == {"cheap", "llm", "io"}

Registry ==
  [source_note |-> "cheap", extract_claims |-> "llm", dedup |-> "cheap",
   entities |-> "llm", personal |-> "io"]

(* The first n stages of the default chain. *)
DefaultChain(n) ==
  SubSeq(<<"source_note", "extract_claims", "dedup", "entities">>, 1, n)

(* Two stages, one of them expensive. *)
Stages2 == {"source_note", "extract_claims"}
Resource2 == [s \in Stages2 |-> Registry[s]]
Chains2 == [default |-> DefaultChain(2)]

(* Three stages: the first and the last share their workers. *)
Stages3 == Stages2 \cup {"dedup"}
Resource3 == [s \in Stages3 |-> Registry[s]]
Chains3 == [default |-> DefaultChain(3)]

(* One stage only, for runs about claiming. *)
Stages1 == {"source_note"}
Resource1 == [s \in Stages1 |-> Registry[s]]
Chains1 == [default |-> DefaultChain(1)]

(* The resource classes of two stages served alike, so that every worker   *)
(* competes for every row.                                                 *)
AllCheap2 == [s \in Stages2 |-> "cheap"]
AllCheap3 == [s \in Stages3 |-> "cheap"]

Emails == [a \in Artifact |-> "email"]
EmailAndPaste ==
  CHOOSE f \in [Artifact -> SourceType] : \A a, b \in Artifact : a # b => f[a] # f[b]
CheapWorkers == [w \in Worker |-> "cheap"]

PauseExtract == {<<"stage", "extract_claims">>}
PauseEmail == {<<"source_type", "email">>}
NoKeys == {}

(* A worker of each class. *)
OneEach ==
  CHOOSE f \in [Worker -> {"cheap", "llm"}] : \A c \in {"cheap", "llm"} :
    \E w \in Worker : f[w] = c

Symmetry == Permutations(Worker) \cup Permutations(Artifact)
=============================================================================
