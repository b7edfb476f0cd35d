------------------------------ MODULE JobTable ------------------------------
(***************************************************************************)
(* The `jobs` table and the statements that change it (pipeline/db/jobs.py *)
(* and the UPDATEs the CLI and the dashboard issue themselves).            *)
(*                                                                         *)
(* The connections are in autocommit mode, so each operator below is one   *)
(* transaction: what a function of the program does in several statements  *)
(* is several operators here, and the modules that use them decide what    *)
(* may happen in between. A row that is not there has status "absent".     *)
(* `created` stands for created_at, whose order is the claim order; rows   *)
(* inserted within one second of each other keep the order of insertion.   *)
(*                                                                         *)
(* Left out: the columns no statement reads back (claimed_by, error,       *)
(* updated_at), output_path and input_path (the path of a stage's          *)
(* intermediate depends on the job alone) and source_type, which is the    *)
(* same in all rows of an artifact.                                        *)
(***************************************************************************)
EXTENDS ControlPlane, FiniteSets

CONSTANTS
  SourceOf,        (* artifact -> its source type                          *)
  MaxAttempts,     (* settings.max_attempts                                *)
  ClaimWindow      (* the LIMIT of claim_next's query                      *)

ASSUME JobTableAssumption ==
  /\ SourceOf \in [Artifact -> SourceType]
  /\ MaxAttempts \in Nat \ {0}
  /\ ClaimWindow \in Nat \ {0}

VARIABLES
  jobs,            (* jobs[<<a, s>>]: the row of stage s of artifact a     *)
  clock,           (* created_at of the next row to be inserted            *)
  ctl              (* the controls table                                   *)

Job == Artifact \X Stage

Status == {"ready", "running", "done", "failed", "held"}

Absent == [status |-> "absent", attempts |-> 0, created |-> 0]

Row == [status : Status \cup {"absent"}, attempts : Nat, created : Nat]

Exists(k) == jobs[k].status # "absent"

(* Present and not done: the artifact still has work to do in this stage.  *)
Unfinished(k) == jobs[k].status \in {"ready", "running", "held", "failed"}

FirstJob(a) == <<a, first_stage(SourceOf[a])>>

HasNext(k) == next_stage(SourceOf[k[1]], k[2]) # NoStage

NextJob(k) == <<k[1], next_stage(SourceOf[k[1]], k[2])>>

Paused(k) == effective_state(ctl, k[2], SourceOf[k[1]], k[1]) = "paused"
-----------------------------------------------------------------------------
(* Queue job k. A row that is there is reset, unless it is done and the    *)
(* caller did not ask for it to be done again; it keeps its created_at.    *)
insert_job(k, status, reprocess) ==
  \/ /\ ~Exists(k)
     /\ jobs' = [jobs EXCEPT ![k] = [status |-> status, attempts |-> 0, created |-> clock]]
     /\ clock' = clock + 1
  \/ /\ Exists(k)
     /\ reprocess \/ jobs[k].status # "done"
     /\ jobs' = [jobs EXCEPT ![k] = [@ EXCEPT !.status = status, !.attempts = 0]]
     /\ UNCHANGED clock
  \/ /\ jobs[k].status = "done" /\ ~reprocess
     /\ UNCHANGED <<jobs, clock>>

(* UPDATE jobs SET status = to WHERE artifact_hash = a AND status IN from; *)
(* the requeueing ones also reset the attempts.                            *)
MoveRows(a, from, to) ==
  /\ jobs' = [k \in Job |-> IF k[1] = a /\ jobs[k].status \in from
                            THEN [jobs[k] EXCEPT !.status = to] ELSE jobs[k]]
  /\ UNCHANGED clock

RequeueRows(a, from) ==
  /\ jobs' = [k \in Job |-> IF k[1] = a /\ jobs[k].status \in from
                            THEN [jobs[k] EXCEPT !.status = "ready", !.attempts = 0]
                            ELSE jobs[k]]
  /\ UNCHANGED clock

(* The same for one stage, whatever its status.                            *)
RequeueStage(k) ==
  /\ jobs' = [jobs EXCEPT ![k] = [@ EXCEPT !.status = "ready", !.attempts = 0]]
  /\ UNCHANGED clock

mark_done(k) ==
  /\ jobs' = [jobs EXCEPT ![k].status = "done"]
  /\ UNCHANGED clock

(* Mutants: the dead letter comes one attempt late; the retry keeps status. *)
WriteAttempt_late(k, n) ==
  /\ jobs' = [jobs EXCEPT ![k] =
               [@ EXCEPT !.status = IF n > MaxAttempts THEN "failed" ELSE "ready",
                         !.attempts = n]]
  /\ UNCHANGED clock

WriteAttempt_stuck(k, n) ==
  /\ jobs' = [jobs EXCEPT ![k] =
               [@ EXCEPT !.status = IF n >= MaxAttempts THEN "failed" ELSE jobs[k].status,
                         !.attempts = n]]
  /\ UNCHANGED clock

(* The second statement of record_attempt_failure: n is the attempt count  *)
(* its first statement computed.                                           *)
WriteAttempt(k, n) ==
  /\ jobs' = [jobs EXCEPT ![k] =
               [@ EXCEPT !.status = IF n >= MaxAttempts THEN "failed" ELSE "ready",
                         !.attempts = n]]
  /\ UNCHANGED clock
-----------------------------------------------------------------------------
(* The rows claim_next's query returns for a worker of resource class c:   *)
(* the first ClaimWindow of its ready rows, oldest first.                  *)
Candidates(c) ==
  {k \in Job : jobs[k].status = "ready" /\ k[2] \in stages_for_resource(c)}

Window(c) ==
  {k \in Candidates(c) :
     Cardinality({j \in Candidates(c) : jobs[j].created < jobs[k].created}) < ClaimWindow}

(* limits are the caps the caller read before the transaction, count its   *)
(* tally of finished jobs per scope.                                       *)
over_limit(k, limits, count) ==
  \E lim \in limits :
    /\ lim[1] \in {<<"stage", k[2]>>, <<"source_type", SourceOf[k[1]]>>}
    /\ count[lim[1]] >= lim[2]

Runnable(c, limits, count) ==
  {k \in Window(c) : ~Paused(k) /\ ~over_limit(k, limits, count)}

(* The first runnable row in claim order.                                  *)
Oldest(K, k) == \A j \in K : jobs[k].created <= jobs[j].created

(* Mutant: the claim does not flip the row. *)
ClaimRow_unflipped(k) == UNCHANGED <<jobs, clock>>

ClaimRow(k) ==
  /\ jobs' = [jobs EXCEPT ![k].status = "running"]
  /\ UNCHANGED clock
=============================================================================
