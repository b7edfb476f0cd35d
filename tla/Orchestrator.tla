---------------------------- MODULE Orchestrator ----------------------------
(***************************************************************************)
(* The worker processes (pipeline/orchestrator/worker.py) and the commands *)
(* an operator gives them through the CLI and the dashboard while they     *)
(* run (pipeline/cli.py, dashboard/app.py), over one database.             *)
(*                                                                         *)
(* A worker loops: read the batch limits, claim a job, run the stage; a    *)
(* stage that raises costs an attempt. It may die at any statement, and    *)
(* docker restarts it: a crashed worker is one that starts afresh, and the *)
(* row it was running stays as it is.                                      *)
(*                                                                         *)
(* Commands of two statements leave the second one pending: `flips` and    *)
(* `writes` hold those of the commands under way. Nothing makes a command  *)
(* issue its second statement, so a command may also die in between.       *)
(***************************************************************************)
EXTENDS RunStage

CONSTANTS
  WorkerClass,     (* worker -> the resource class it was started with     *)
  Commands,        (* the kinds of command that are given                  *)
  Careful,         (* requeueing commands are given to quiet jobs only     *)
  Pausable,        (* control keys that are paused and resumed             *)
  Throttled,       (* scopes that are throttled                            *)
  Limits,          (* the limits they are given                            *)
  MaxCommands,     (* bound on the commands given                          *)
  MaxCrashes       (* bound on the crashes                                 *)

ASSUME OrchestratorAssumption ==
  /\ WorkerClass \in [Worker -> ResourceClass]
  /\ Careful \in BOOLEAN
  /\ Pausable \subseteq LimitScope \cup {GlobalKey}
  /\ Throttled \subseteq LimitScope
  /\ Limits \subseteq Nat
  /\ MaxCommands \in Nat /\ MaxCrashes \in Nat

VARIABLES
  processed,       (* a worker's tally of finished jobs, per scope         *)
  flips,           (* row updates of hold and release commands under way   *)
  writes,          (* control rows set_control has computed, not written   *)
  issued,          (* commands given so far                                *)
  crashes          (* crashes so far                                       *)

cmdVars == <<flips, writes, issued>>
vars == <<jobs, clock, ctl, runVars, processed, cmdVars, crashes>>

NoTally == [sc \in Throttled |-> 0]

Init ==
  /\ jobs = [k \in Job |-> Absent]
  /\ clock = 1
  /\ ctl = [key \in ControlKey |-> NoRow]
  /\ RunInit
  /\ processed = [w \in Worker |-> NoTally]
  /\ flips = {} /\ writes = {}
  /\ issued = 0 /\ crashes = 0
-----------------------------------------------------------------------------
(* The worker loop *)

(* claim_next reads the batch limits before its transaction begins. *)
ReadLimits(w) ==
  /\ pc[w] = "idle"
  /\ loc' = [loc EXCEPT ![w].limits = batch_limits(ctl)]
  /\ Goto(w, "claim")
  /\ UNCHANGED <<jobs, clock, ctl, files, task, processed, cmdVars, crashes>>

RunnableBy(w) == Runnable(WorkerClass[w], loc[w].limits, processed[w])

Claim(w) ==
  /\ pc[w] = "claim"
  /\ LET K == RunnableBy(w)
     IN  \E k \in K : Oldest(K, k) /\ ClaimRow(k) /\ Take(w, k)
  /\ UNCHANGED <<ctl, files, processed, cmdVars, crashes>>

(* Nothing to claim: the worker sleeps and polls again (with --once it     *)
(* exits instead, which is a crash of an idle worker).                     *)
ClaimNothing(w) ==
  /\ pc[w] = "claim"
  /\ RunnableBy(w) = {}
  /\ Drop(w)
  /\ UNCHANGED <<jobs, clock, ctl, files, processed, cmdVars, crashes>>

(* The body of run_stage up to its return, for any runner. *)
RunBody(r) ==
  /\ Start(r) \/ Persist(r) \/ MarkDone(r) \/ ReadFrozen(r)
  /\ UNCHANGED <<processed, cmdVars, crashes>>

(* count_processed *)
Tally(w, k) ==
  [processed EXCEPT ![w] = [sc \in Throttled |->
     IF sc \in {<<"stage", k[2]>>, <<"source_type", SourceOf[k[1]]>>}
     THEN processed[w][sc] + 1 ELSE processed[w][sc]]]

WorkerReturns(w) ==
  /\ Returns(w)
  /\ processed' = Tally(w, task[w])
  /\ Drop(w)
  /\ UNCHANGED <<cmdVars, crashes>>

WorkerRaises(w) ==
  /\ Raises(w)
  /\ Goto(w, "fail")
  /\ UNCHANGED <<jobs, clock, ctl, files, task, loc, processed, cmdVars, crashes>>

(* record_attempt_failure: read the attempts, then write row and attempts. *)
ReadAttempts(w) ==
  /\ pc[w] = "fail"
  /\ loc' = [loc EXCEPT ![w].tries = jobs[task[w]].attempts + 1]
  /\ Goto(w, "record")
  /\ UNCHANGED <<jobs, clock, ctl, files, task, processed, cmdVars, crashes>>

RecordFailure(w) ==
  /\ pc[w] = "record"
  /\ WriteAttempt(task[w], loc[w].tries)
  /\ Drop(w)
  /\ UNCHANGED <<ctl, files, processed, cmdVars, crashes>>

WorkerStep(w) ==
  \/ ReadLimits(w) \/ ClaimNothing(w) \/ Claim(w)
  \/ RunBody(w) \/ WorkerReturns(w)
  \/ WorkerRaises(w) \/ ReadAttempts(w) \/ RecordFailure(w)

(* The process of r dies between two statements; or, of a step or walk,    *)
(* one of them raises, which ends the command just so.                     *)
Crash(r) ==
  /\ crashes < MaxCrashes
  /\ pc[r] # "idle"
  /\ crashes' = crashes + 1
  /\ Drop(r)
  /\ processed' = [w \in Worker |-> IF w = r THEN NoTally ELSE processed[w]]
  /\ UNCHANGED <<jobs, clock, ctl, files, cmdVars>>
-----------------------------------------------------------------------------
(* Commands *)

Give(cmd) ==
  /\ cmd \in Commands /\ issued < MaxCommands
  /\ issued' = issued + 1

(* What a careful operator waits for before asking for job k again, or for *)
(* a hold to be lifted: no process runs a stage of the artifact, and no    *)
(* other stage of it is unfinished. The program does not check it.         *)
Quiet(k) ==
  /\ \A r \in Runner : ~Busy(r, k[1])
  /\ \A j \in Job : j[1] = k[1] /\ j # k => ~Unfinished(j)

NotWalked(a) == \A c \in Cli : ~Busy(c, a)

(* An ingestor stores the artifact and queues its first stage. *)
Ingest(a) ==
  /\ ~Exists(FirstJob(a))
  /\ insert_job(FirstJob(a), "ready", FALSE)
  /\ UNCHANGED <<ctl, runVars, processed, cmdVars, crashes>>

(* It does so again for identical bytes; only the email ingestor's         *)
(* --reprocess asks for finished work to be redone.                        *)
Reingest(a, reprocess) ==
  /\ Give("reingest")
  /\ Exists(FirstJob(a))
  /\ Careful => Quiet(FirstJob(a)) \/ (jobs[FirstJob(a)].status = "done" /\ ~reprocess)
  /\ insert_job(FirstJob(a), "ready", reprocess)
  /\ UNCHANGED <<ctl, runVars, processed, flips, writes, crashes>>

(* hold: pause the artifact, then flip its ready rows to held. *)
Hold(a) ==
  /\ Give("hold")
  /\ ctl' = [ctl EXCEPT ![<<"artifact", a>>] =
               MergedRow(ctl, <<"artifact", a>>, "paused", NULL)]
  /\ flips' = flips \cup {<<"hold", a>>}
  /\ UNCHANGED <<jobs, clock, runVars, processed, writes, crashes>>

(* Mutant: the control state is written where the job status belongs. *)
HoldRows_paused(a) ==
  /\ <<"hold", a>> \in flips
  /\ flips' = flips \ {<<"hold", a>>}
  /\ MoveRows(a, {"ready"}, "paused")
  /\ UNCHANGED <<ctl, runVars, processed, writes, issued, crashes>>

HoldRows(a) ==
  /\ <<"hold", a>> \in flips
  /\ flips' = flips \ {<<"hold", a>>}
  /\ MoveRows(a, {"ready"}, "held")
  /\ UNCHANGED <<ctl, runVars, processed, writes, issued, crashes>>

(* release: drop the pause, then flip the held rows to ready. *)
Release(a) ==
  /\ Give("release")
  /\ Careful => NotWalked(a)
  /\ ctl' = [ctl EXCEPT ![<<"artifact", a>>] = NoRow]
  /\ flips' = flips \cup {<<"release", a>>}
  /\ UNCHANGED <<jobs, clock, runVars, processed, writes, crashes>>

ReleaseRows(a) ==
  /\ <<"release", a>> \in flips
  /\ flips' = flips \ {<<"release", a>>}
  /\ MoveRows(a, {"held"}, "ready")
  /\ UNCHANGED <<ctl, runVars, processed, writes, issued, crashes>>

(* pause, resume and throttle: set_control reads the row it merges with,   *)
(* then writes the merged row.                                             *)
ReadControl(key, state, limit) ==
  /\ writes' = writes \cup {<<key, MergedRow(ctl, key, state, limit)>>}
  /\ UNCHANGED <<jobs, clock, ctl, runVars, processed, flips, crashes>>

Pause(key) == Give("pause") /\ ReadControl(key, "paused", NULL)

Resume(key) == Give("pause") /\ ReadControl(key, "running", NULL)

Throttle(sc, n) == Give("throttle") /\ ReadControl(sc, "keep", n)

WriteControl(wr) ==
  /\ wr \in writes
  /\ writes' = writes \ {wr}
  /\ ctl' = [ctl EXCEPT ![wr[1]] = wr[2]]
  /\ UNCHANGED <<jobs, clock, runVars, processed, flips, issued, crashes>>

(* Mutant: retry requeues finished stages as well. *)
Retry_all(a) ==
  /\ Give("retry")
  /\ RequeueRows(a, {"failed", "done"})
  /\ UNCHANGED <<ctl, runVars, processed, flips, writes, crashes>>

(* retry, and the dashboard's retry button, which also takes held rows. *)
Retry(a) ==
  /\ Give("retry")
  /\ RequeueRows(a, {"failed"})
  /\ UNCHANGED <<ctl, runVars, processed, flips, writes, crashes>>

RetryButton(a) ==
  /\ Give("retry")
  /\ Careful => NotWalked(a)
  /\ RequeueRows(a, {"failed", "held"})
  /\ UNCHANGED <<ctl, runVars, processed, flips, writes, crashes>>

(* retry --stage and retract --rederive requeue the row whatever it is. *)
RetryStage(k) ==
  /\ Give("retry_stage")
  /\ Exists(k)
  /\ Careful => Quiet(k)
  /\ RequeueStage(k)
  /\ UNCHANGED <<ctl, runVars, processed, flips, writes, crashes>>

(* step, and each round of walk: run_stage, with no claim. A careful       *)
(* operator holds the artifact first and walks its held stage.             *)
Step(c, k) ==
  /\ pc[c] = "idle"
  /\ Give("step")
  /\ Exists(k)
  /\ Careful => /\ Quiet(k) /\ jobs[k].status = "held"
                /\ <<"release", k[1]>> \notin flips
  /\ Take(c, k)
  /\ UNCHANGED <<jobs, clock, ctl, files, processed, flips, writes, crashes>>

StepReturns(c) ==
  /\ Returns(c)
  /\ Drop(c)
  /\ UNCHANGED <<processed, cmdVars, crashes>>

(* An exception ends the command with a traceback and no change of state;  *)
(* one after mark_done is a crash of the command.                          *)
StepRaises(c) ==
  /\ pc[c] = "handle"
  /\ Drop(c)
  /\ UNCHANGED <<jobs, clock, ctl, files, processed, cmdVars, crashes>>

Command ==
  \/ \E a \in Artifact :
       \/ Ingest(a) \/ \E reprocess \in BOOLEAN : Reingest(a, reprocess)
       \/ Hold(a) \/ HoldRows(a) \/ Release(a) \/ ReleaseRows(a)
       \/ Retry(a) \/ RetryButton(a)
  \/ \E key \in Pausable : Pause(key) \/ Resume(key)
  \/ \E sc \in Throttled, n \in Limits : Throttle(sc, n)
  \/ \E wr \in writes : WriteControl(wr)
  \/ \E k \in Job : RetryStage(k) \/ \E c \in Cli : Step(c, k)

Next ==
  \/ \E w \in Worker : WorkerStep(w)
  \/ \E c \in Cli : RunBody(c) \/ StepReturns(c) \/ StepRaises(c)
  \/ \E r \in Worker \cup Cli : Crash(r)
  \/ Command

Spec == Init /\ [][Next]_vars

(* The worker processes are kept running: docker restarts one that dies.   *)
Fairness == \A w \in Worker : WF_vars(WorkerStep(w))

FairSpec == Spec /\ Fairness
-----------------------------------------------------------------------------
(* Properties *)

TypeOK ==
  /\ jobs \in [Job -> Row]
  /\ clock \in Nat
  /\ ctl \in ControlTable
  /\ files \in [Job -> {"none", "fresh", "stale"}]
  /\ pc \in [Runner -> Label]
  /\ task \in [Runner -> Job \cup {NoJob}]
  /\ loc \in [Runner -> Locals]
  /\ processed \in [Worker -> [Throttled -> Nat]]
  /\ flips \subseteq {"hold", "release"} \X Artifact
  /\ writes \subseteq ControlKey \X ControlRow
  /\ issued \in 0..MaxCommands
  /\ crashes \in 0..MaxCrashes

(* No two processes ever run stages of the same artifact at the same time, *)
(* neither the same stage twice nor one stage and the next: the claim's    *)
(* BEGIN IMMEDIATE keeps two workers off one row, and the chain is queued  *)
(* so that only one row of an artifact can be claimed.                     *)
OneRunnerPerArtifact ==
  \A p, q \in Runner :
    p # q /\ task[p] # NoJob /\ task[q] # NoJob => task[p][1] # task[q][1]

(* Every stage transition persists its intermediate before it advances     *)
(* state: where a job is done, or the job after it has a row, its          *)
(* intermediate is there, whatever failed, died or was requeued.           *)
PersistedBeforeAdvance ==
  \A k \in Job :
    jobs[k].status = "done" \/ (HasNext(k) /\ Exists(NextJob(k))) => files[k] # "none"

(* A job is dead-lettered when, and only when, its attempts are used up:   *)
(* no job that may still be claimed has none left, and none fails early.   *)
DeadLettered ==
  \A k \in Job :
    /\ jobs[k].status = "failed" => jobs[k].attempts >= MaxAttempts
    /\ jobs[k].status \in {"ready", "held", "running"} => jobs[k].attempts < MaxAttempts

(* Some process is between mark_done for k and queueing the next stage, or *)
(* about to record that it could not.                                      *)
Advancing(k) ==
  \E r \in Runner : task[r] = k /\ pc[r] \in After \cup Failing

(* Without a crash no work is lost: a running row has its process, and a   *)
(* done stage has its next stage queued or about to be.                    *)
NothingLost ==
  crashes = 0 =>
    \A k \in Job :
      /\ jobs[k].status = "running" => \E r \in Runner : task[r] = k
      /\ jobs[k].status = "done" /\ HasNext(k) /\ ~Exists(NextJob(k)) => Advancing(k)

(* Without a crash no stage stays done on outdated input: when the stage   *)
(* before it has produced new output since, it is about to be run again.   *)
NoStaleResult ==
  crashes = 0 =>
    \A k \in Job :
      HasNext(k) /\ jobs[NextJob(k)].status = "done" /\ files[NextJob(k)] = "stale"
        => jobs[k].status # "done" \/ Advancing(k)

(* The queue implements the promise of StageChain.                         *)
PhaseOf(status) ==
  CASE status = "absent" -> "absent"
    [] status \in {"ready", "running", "held"} -> "open"
    [] status = "failed" -> "dead"
    [] status = "done" -> "done"

Chain == INSTANCE StageChain WITH phase <- [k \in Job |-> PhaseOf(jobs[k].status)]

ImplementsStageChain == Chain!Spec

(* A row is held only while its artifact is frozen, or while the release   *)
(* that lifts the freeze is about to flip it back.                         *)
HeldMeansFrozen ==
  \A k \in Job :
    jobs[k].status = "held" => is_frozen(ctl, k[1]) \/ <<"release", k[1]>> \in flips

(* A worker that finds nothing to claim has no runnable job: every ready   *)
(* job of its stages is paused or over its limit.                          *)
ClaimsWhatIsRunnable ==
  [][\A w \in Worker :
       ClaimNothing(w) =>
         \A k \in Candidates(WorkerClass[w]) :
           Paused(k) \/ over_limit(k, loc[w].limits, processed[w])]_vars

(* Every artifact that is ingested comes to the end of its chain or to a   *)
(* dead-lettered stage, if from some time on nothing is paused, capped or  *)
(* held.                                                                   *)
Unblocked ==
  /\ \A key \in ControlKey : ctl[key].state # "paused" /\ ctl[key].limit = NULL
  /\ \A k \in Job : jobs[k].status # "held"

Settled(a) ==
  \/ \E k \in Job : k[1] = a /\ jobs[k].status = "failed"
  \/ \E k \in Job : k[1] = a /\ jobs[k].status = "done" /\ ~HasNext(k)

EveryArtifactSettles ==
  <>[]Unblocked => \A a \in Artifact : Exists(FirstJob(a)) ~> Settled(a)
=============================================================================
