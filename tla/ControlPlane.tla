---------------------------- MODULE ControlPlane ----------------------------
(***************************************************************************)
(* The control plane (pipeline/db/controls.py): rows of the `controls`     *)
(* table keyed by scope and key, the most specific row that matches a job  *)
(* decides whether it is paused, and a row may cap a scope's throughput.   *)
(*                                                                         *)
(* A table is a function from ControlKey to rows; a row that is not there  *)
(* is NoRow. The operators take the table as a parameter c, so that a      *)
(* reader can be given the table it saw rather than the table of now.      *)
(***************************************************************************)
EXTENDS Stages, Integers

CONSTANT Artifact   (* artifact hashes *)

GlobalKey == <<"global", "*">>

LimitScope == ({"stage"} \X Stage) \cup ({"source_type"} \X SourceType)

ControlKey == ({"artifact"} \X Artifact) \cup LimitScope \cup {GlobalKey}

NULL == -1          (* batch_limit IS NULL *)

NoRow == [state |-> "absent", limit |-> NULL]

ControlRow == [state : {"running", "paused"}, limit : Nat \cup {NULL}]

ControlTable == [ControlKey -> ControlRow \cup {NoRow}]
-----------------------------------------------------------------------------
(* The row set_control writes: what it is given, and for what it is not    *)
(* given ("keep") what it read before; a new row starts as running.        *)
MergedRow(c, key, state, limit) ==
  [state |-> IF state # "keep" THEN state
             ELSE IF c[key] # NoRow THEN c[key].state ELSE "running",
   limit |-> IF limit # NULL THEN limit ELSE c[key].limit]

(* The control keys that match one job, from the most specific to the least. *)
Lookups(s, t, a) ==
  <<<<"artifact", a>>, <<"source_type", t>>, <<"stage", s>>, GlobalKey>>

(* Mutant: any matching row counts as a pause, a resumed one too. *)
effective_state_ignores_resume(c, s, t, a) ==
  LET keys == Lookups(s, t, a)
  IN  IF \E i \in DOMAIN keys : c[keys[i]] # NoRow THEN "paused" ELSE "running"

effective_state(c, s, t, a) ==
  LET keys == Lookups(s, t, a)
      hits == {i \in DOMAIN keys : c[keys[i]] # NoRow}
  IN  IF hits = {} THEN "running"
      ELSE c[keys[CHOOSE i \in hits : \A j \in hits : i <= j]].state

(* The caps in force, as the rows (scope and key, limit) of the query. *)
batch_limits(c) ==
  {<<key, c[key].limit>> : key \in {q \in LimitScope : c[q].limit # NULL}}

is_frozen(c, a) == c[<<"artifact", a>>].state = "paused"
=============================================================================
