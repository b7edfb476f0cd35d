------------------------------ MODULE RunStage ------------------------------
(***************************************************************************)
(* run_stage (pipeline/orchestrator/executor.py), the engine shared by     *)
(* the worker loop, `pipeline step`, `pipeline walk` and the dashboard's   *)
(* threads. A runner is one of these processes; run_stage reads the job    *)
(* row, runs the handler, which persists the stage's intermediate, marks   *)
(* the job done, reads whether the artifact is frozen and queues the next  *)
(* stage: five transactions, between which every other process may act.    *)
(*                                                                         *)
(* What a handler does beyond reading its input and writing its            *)
(* intermediate is another module's business. An intermediate is not there *)
(* ("none"), made from the intermediate of the stage before it as that is  *)
(* now ("fresh") or from one that has been overwritten since ("stale").    *)
(***************************************************************************)
EXTENDS JobTable

CONSTANTS
  Worker,          (* worker processes                                     *)
  Cli,             (* `pipeline step` and `pipeline walk` processes        *)
  Thread,          (* the dashboard's executor threads                     *)
  NoJob            (* what a runner works on when it works on nothing      *)

Runner == Worker \cup Cli \cup Thread

ASSUME RunStageAssumption ==
  /\ Worker \cap Cli = {} /\ Worker \cap Thread = {} /\ Cli \cap Thread = {}
  /\ NoJob \notin Artifact \X Stage

VARIABLES
  files,           (* files[k]: the intermediate job k wrote               *)
  pc,              (* pc[r]: the next statement of runner r                *)
  task,            (* task[r]: the job r executes                          *)
  loc              (* loc[r]: what r has read and not used yet             *)

runVars == <<files, pc, task, loc>>

(* The statements of run_stage that come before mark_done has been issued, *)
(* those after it, and those of the failure path.                          *)
Before == {"start", "handle", "mark"}
After == {"advance", "insert"}
Failing == {"fail", "record"}

Locals == [limits : SUBSET (LimitScope \X Nat), status : {"ready", "held"},
           tries : Nat, input : {"fresh", "stale"}]

Label ==
  {"idle", "claim"} \cup Before \cup After \cup Failing
    \cup {"look", "cas", "give up", "leave", "unload"}     (* the dashboard's *)

NoLocals == [limits |-> {}, status |-> "ready", tries |-> 0, input |-> "fresh"]

Busy(r, a) == task[r] # NoJob /\ task[r][1] = a

RunInit ==
  /\ files = [k \in Job |-> "none"]
  /\ pc = [r \in Runner |-> "idle"]
  /\ task = [r \in Runner |-> NoJob]
  /\ loc = [r \in Runner |-> NoLocals]

Goto(r, l) == pc' = [pc EXCEPT ![r] = l]

(* r begins run_stage for k. *)
Take(r, k) ==
  /\ Goto(r, "start")
  /\ task' = [task EXCEPT ![r] = k]
  /\ loc' = [loc EXCEPT ![r] = NoLocals]

(* r's run of a stage is over, in one way or another, and r goes on at l.  *)
DropTo(r, l) ==
  /\ Goto(r, l)
  /\ task' = [task EXCEPT ![r] = NoJob]
  /\ loc' = [loc EXCEPT ![r] = NoLocals]

Drop(r) == DropTo(r, "idle")
-----------------------------------------------------------------------------
(* Mutant: a handler that returns without writing its intermediate. *)
Start_no_output(r) ==
  /\ pc[r] = "start"
  /\ Goto(r, "mark")
  /\ UNCHANGED <<jobs, clock, ctl, files, task, loc>>

(* get_job, StageContext.build, and the handler reading its input. *)
Start(r) ==
  /\ pc[r] = "start"
  /\ Goto(r, "handle")
  /\ loc' = [loc EXCEPT ![r].input = "fresh"]
  /\ UNCHANGED <<jobs, clock, ctl, files, task>>

(* The handler writes its intermediate. The next stage's intermediate, if  *)
(* there is one, no longer matches, and whoever has read this one and is   *)
(* still running the next stage works on outdated input.                   *)
Persist(r) ==
  /\ pc[r] = "handle"
  /\ Goto(r, "mark")
  /\ files' = [k \in Job |->
                 IF k = task[r] THEN loc[r].input
                 ELSE IF k = NextJob(task[r]) /\ files[k] # "none" THEN "stale"
                 ELSE files[k]]
  /\ loc' = [q \in Runner |->
               IF pc[q] = "handle" /\ task[q] = NextJob(task[r])
               THEN [loc[q] EXCEPT !.input = "stale"] ELSE loc[q]]
  /\ UNCHANGED <<jobs, clock, ctl, task>>

(* mark_done, when a stage follows.                                        *)
MarkDone(r) ==
  /\ pc[r] = "mark" /\ HasNext(task[r])
  /\ mark_done(task[r])
  /\ Goto(r, "advance")
  /\ UNCHANGED <<ctl, files, task, loc>>

(* mark_done at the end of the chain: run_stage returns, and the caller    *)
(* decides how r goes on, as it does after InsertNext.                     *)
MarkLast(r) ==
  /\ pc[r] = "mark" /\ ~HasNext(task[r])
  /\ mark_done(task[r])
  /\ UNCHANGED <<ctl, files>>

ReadFrozen(r) ==
  /\ pc[r] = "advance"
  /\ loc' = [loc EXCEPT ![r].status =
                IF is_frozen(ctl, task[r][1]) THEN "held" ELSE "ready"]
  /\ Goto(r, "insert")
  /\ UNCHANGED <<jobs, clock, ctl, files, task>>

(* Mutant: finished downstream work is left alone. *)
InsertNext_keeps_done(r) ==
  /\ pc[r] = "insert"
  /\ insert_job(NextJob(task[r]), loc[r].status, FALSE)
  /\ UNCHANGED <<ctl, files>>

(* The next stage is queued with the status read a statement earlier.      *)
InsertNext(r) ==
  /\ pc[r] = "insert"
  /\ insert_job(NextJob(task[r]), loc[r].status, TRUE)
  /\ UNCHANGED <<ctl, files>>

Returns(r) == MarkLast(r) \/ InsertNext(r)

(* run_stage raises: the handler does, or the database stays locked beyond *)
(* its timeout for one of the statements after it.                         *)
Raises(r) == pc[r] \in {"handle", "mark"} \cup After
=============================================================================
