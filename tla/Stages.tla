------------------------------- MODULE Stages -------------------------------
(***************************************************************************)
(* The stage registry (pipeline/orchestrator/stages.py): which stages      *)
(* exist, the ordered chain of stages each source type runs through, and   *)
(* the resource class whose workers run a stage.                           *)
(*                                                                         *)
(* The registry is a table of the program, so it is a table here: the      *)
(* constants carry it and the operators are the functions that read it.    *)
(***************************************************************************)
EXTENDS Naturals, Sequences

CONSTANTS
  Stage,           (* the stage names, the keys of STAGE_RESOURCE          *)
  SourceType,      (* the source types an ingestor writes                  *)
  ResourceClass,   (* io, llm, cheap, gpu                                  *)
  STAGE_RESOURCE,  (* stage -> resource class                              *)
  CHAINS,          (* source type or "default" -> sequence of stages       *)
  NoStage          (* what next_stage returns at the end of a chain        *)

ASSUME StagesAssumption ==
  /\ STAGE_RESOURCE \in [Stage -> ResourceClass]
  /\ "default" \in DOMAIN CHAINS
  /\ \A t \in DOMAIN CHAINS :               (* chains are non-empty and hold *)
        /\ CHAINS[t] \in Seq(Stage)         (* each stage at most once       *)
        /\ CHAINS[t] # << >>
        /\ \A i, j \in DOMAIN CHAINS[t] : CHAINS[t][i] = CHAINS[t][j] => i = j
  /\ NoStage \notin Stage
-----------------------------------------------------------------------------
chain_for(t) == IF t \in DOMAIN CHAINS THEN CHAINS[t] ELSE CHAINS["default"]

first_stage(t) == chain_for(t)[1]

(* The stages that directly follow s in the chain: one, or none at its end. *)
Followers(t, s) ==
  {chain_for(t)[i + 1] : i \in {j \in DOMAIN chain_for(t) :
                                  /\ chain_for(t)[j] = s
                                  /\ j + 1 \in DOMAIN chain_for(t)}}

next_stage(t, s) ==
  IF Followers(t, s) = {} THEN NoStage ELSE CHOOSE n \in Followers(t, s) : TRUE

stages_for_resource(c) == {s \in Stage : STAGE_RESOURCE[s] = c}
=============================================================================
