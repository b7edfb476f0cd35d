----------------------------- MODULE StageChain -----------------------------
(***************************************************************************)
(* What the job queue promises, without workers, claims, controls or       *)
(* retries: every artifact walks its chain of stages one stage at a time.  *)
(* A stage is opened when the artifact is ingested or when the stage       *)
(* before it is done, and while one stage of an artifact is unfinished no  *)
(* other stage of it is. A dead stage is one the pipeline has given up on  *)
(* until somebody asks for it again; a finished stage may be reopened when *)
(* nothing of the artifact is unfinished.                                  *)
(***************************************************************************)
EXTENDS Stages

CONSTANTS Artifact, SourceOf

VARIABLE phase      (* phase[<<a, s>>]: how far stage s of artifact a is *)

Job == Artifact \X Stage

Phase == {"absent", "open", "dead", "done"}

Unfinished(k) == phase[k] \in {"open", "dead"}

(* No stage of k's artifact but perhaps k itself is unfinished. *)
OthersFinished(k) == \A j \in Job : j[1] = k[1] /\ j # k => ~Unfinished(j)

FirstJob(a) == <<a, first_stage(SourceOf[a])>>

Follows(k, n) ==
  /\ n[1] = k[1]
  /\ n[2] = next_stage(SourceOf[k[1]], k[2])
-----------------------------------------------------------------------------
Init == phase = [k \in Job |-> "absent"]

(* The artifact is ingested. *)
Begin(a) ==
  /\ \A s \in Stage : phase[<<a, s>>] = "absent"
  /\ phase' = [phase EXCEPT ![FirstJob(a)] = "open"]

(* The stage produced its output. *)
Complete(k) ==
  /\ phase[k] = "open"
  /\ phase' = [phase EXCEPT ![k] = "done"]

(* The next stage is opened, for the first time or again. *)
Advance(k, n) ==
  /\ phase[k] = "done"
  /\ Follows(k, n)
  /\ \A j \in Job : j[1] = k[1] => ~Unfinished(j)
  /\ phase' = [phase EXCEPT ![n] = "open"]

(* The stage ran out of attempts. *)
Die(k) ==
  /\ phase[k] = "open"
  /\ phase' = [phase EXCEPT ![k] = "dead"]

(* A dead or finished stage is asked for again. *)
Reopen(k) ==
  /\ phase[k] \in {"dead", "done"}
  /\ OthersFinished(k)
  /\ phase' = [phase EXCEPT ![k] = "open"]

(* Queueing the next stage failed for the last time: the stage is given up *)
(* on although its output is there.                                        *)
DieLate(k) ==
  /\ phase[k] = "done"
  /\ OthersFinished(k)
  /\ phase' = [phase EXCEPT ![k] = "dead"]

Next ==
  \/ \E a \in Artifact : Begin(a)
  \/ \E k \in Job : Complete(k) \/ Die(k) \/ Reopen(k) \/ DieLate(k)
  \/ \E k, n \in Job : Advance(k, n)

Spec == Init /\ [][Next]_phase
=============================================================================
