------------------------- MODULE EvalCompare_proofs -------------------------
(***************************************************************************)
(* Eval-compare next to the workers and commands: the outputs the rows     *)
(* name are there, the chain goes on with the one that was approved, and   *)
(* the two eval commands keep what holds of the queue. For any number of   *)
(* workers, commands, variants and artifacts, and any sequence of crashes. *)
(*                                                                         *)
(* But for its own commands eval-compare adds no step to Orchestrator's:   *)
(* what is proved of those is used here as it stands.                      *)
(***************************************************************************)
EXTENDS EvalCompare, Exclusion_proofs

(* Which steps are whose. *)
LEMMA RunCases ==
  ASSUME NEW r \in Worker \cup Cli, RunWithPaths(r)
  PROVE  /\ UNCHANGED <<eval, report>> /\ ApprovalsEnd
         /\ \/ ReadInput(r) \/ WriteOutput(r)
            \/ NamePaths(r) /\ (ReadFrozen(r) \/ MarkDone(r))
            \/ NamePaths(r) /\ (MarkLast(r) \/ InsertNext(r)) /\ Drop(r)
         /\ UNCHANGED <<flips, writes, crashes>>
  BY DEF RunWithPaths, WorkerReturns, StepReturns, Returns, cmdVars

LEMMA RunIsNext ==
  ASSUME NEW r \in Worker \cup Cli, RunWithPaths(r)
  PROVE  Next
  BY DEF RunWithPaths, ReadInput, WriteOutput, Next, WorkerStep, RunBody

LEMMA ElsewhereIsNext ==
  ASSUME Elsewhere
  PROVE  Next
  BY DEF Elsewhere, OtherCommand, Next, WorkerStep

(* The rows of Elsewhere's steps: none is finished, and none is queued but *)
(* first ones.                                                             *)
LEMMA ElsewhereRows ==
  ASSUME TypeInv, RunnersHaveRows, Elsewhere
  PROVE  \A k \in Job :
           \/ jobs'[k] = jobs[k]
           \/ Exists(k) /\ jobs'[k].status \in {"ready", "held", "running", "failed"}
           \/ jobs'[k].status = "ready" /\ \E a \in Artifact : k = FirstJob(a)
  <1> DEFINE Fine(k) == \/ jobs'[k] = jobs[k]
                        \/ Exists(k) /\ jobs'[k].status \in {"ready", "held", "running", "failed"}
                        \/ jobs'[k].status = "ready" /\ \E a \in Artifact : k = FirstJob(a)
  <1> USE DEF TypeInv, TypeOK
  <1>1. ASSUME NEW w \in Worker, NEW j \in Job,
               ReadLimits(w) \/ ClaimNothing(w) \/ WorkerRaises(w) \/ ReadAttempts(w)
        PROVE  Fine(j)
    BY <1>1 DEF ReadLimits, ClaimNothing, WorkerRaises, ReadAttempts
  <1>2. ASSUME NEW w \in Worker, Claim(w), NEW j \in Job
        PROVE  Fine(j)
    <2>1. PICK k \in Job : jobs[k].status = "ready" /\ ClaimRow(k)
      BY <1>2 DEF Claim, RunnableBy, Runnable, Window, Candidates
    <2> QED
      BY <2>1 DEF ClaimRow, Exists, Row
  <1>3. ASSUME NEW w \in Worker, RecordFailure(w), NEW j \in Job
        PROVE  Fine(j)
    <2>1. task[w] \in Job /\ Exists(task[w])
      BY <1>3, RunStageAssumption
         DEF RecordFailure, Control, AtWork, Failing, RunnersHaveRows, Job, Runner
    <2>2. PICK st \in {"failed", "ready"} :
            jobs' = [jobs EXCEPT ![task[w]] =
                       [jobs[task[w]] EXCEPT !.status = st, !.attempts = loc[w].tries]]
      BY <1>3 DEF RecordFailure, WriteAttempt
    <2>3. [jobs[task[w]] EXCEPT !.status = st, !.attempts = loc[w].tries].status = st
      BY <2>1 DEF Row
    <2> QED
      BY <2>1, <2>2, <2>3
  <1>4. ASSUME NEW j \in Job,
               (\E c \in Cli : StepRaises(c)) \/ (\E r \in Worker \cup Cli : Crash(r))
        PROVE  Fine(j)
    BY <1>4 DEF StepRaises, Crash
  <1>5. ASSUME NEW a \in Artifact, NEW re \in BOOLEAN, NEW j \in Job,
               insert_job(FirstJob(a), "ready", re)
        PROVE  Fine(j)
    <2>1. PICK k \in Job : k = FirstJob(a)
      BY FirstJobIsJob
    <2>2. /\ \A i \in Job : i # k => jobs'[i] = jobs[i]
          /\ jobs'[k] = jobs[k] \/ jobs'[k].status = "ready"
      BY <1>5, <2>1, InsertRow
    <2> QED
      BY <2>1, <2>2
  <1>6. ASSUME NEW a, NEW from \in SUBSET (Status \ {"done"}), NEW to \in {"ready", "held"},
               NEW j \in Job, MoveRows(a, from, to) \/ RequeueRows(a, from)
        PROVE  Fine(j)
    <2>1. \A k \in Job : /\ [jobs[k] EXCEPT !.status = to].status = to
                         /\ [jobs[k] EXCEPT !.status = "ready", !.attempts = 0].status = "ready"
      BY DEF Row
    <2> QED
      BY <1>6, <2>1 DEF MoveRows, RequeueRows, Exists, Status
  <1>7. ASSUME NEW k \in Job, RetryStage(k), NEW j \in Job
        PROVE  Fine(j)
    <2>1. [jobs[k] EXCEPT !.status = "ready", !.attempts = 0].status = "ready"
      BY DEF Row
    <2> QED
      BY <1>7, <2>1 DEF RetryStage, RequeueStage, Exists
  <1>8. ASSUME NEW a \in Artifact, NEW j \in Job,
               HoldRows(a) \/ ReleaseRows(a) \/ Retry(a) \/ RetryButton(a)
        PROVE  Fine(j)
    <2>1. {"ready"} \subseteq Status \ {"done"} /\ {"held"} \subseteq Status \ {"done"}
           /\ {"failed"} \subseteq Status \ {"done"}
           /\ {"failed", "held"} \subseteq Status \ {"done"}
      BY DEF Status
    <2> QED
      BY <1>6, <1>8, <2>1 DEF HoldRows, ReleaseRows, Retry, RetryButton
  <1>9. ASSUME NEW a \in Artifact, NEW re \in BOOLEAN, NEW j \in Job, Ingest(a) \/ Reingest(a, re)
        PROVE  Fine(j)
    BY <1>5, <1>9 DEF Ingest, Reingest
  <1>10. ASSUME UNCHANGED jobs, NEW j \in Job
         PROVE  Fine(j)
    BY <1>10
  <1>11. Command =>
           \/ \E a \in Artifact :
                \/ Ingest(a) \/ \E reprocess \in BOOLEAN : Reingest(a, reprocess)
                \/ HoldRows(a) \/ ReleaseRows(a) \/ Retry(a) \/ RetryButton(a)
           \/ \E k \in Job : RetryStage(k)
           \/ UNCHANGED jobs
    BY DEF Command, Hold, Release, Pause, Resume, Throttle, ReadControl, WriteControl, Step
  <1>12. ASSUME Command, NEW j \in Job
         PROVE  Fine(j)
    BY <1>7, <1>8, <1>9, <1>10, <1>11, <1>12
  <1> QED
    BY <1>1, <1>2, <1>3, <1>4, <1>12 DEF Elsewhere, OtherCommand

(* Its runners: one that enters run_stage does so for a row that is there, *)
(* and none comes past a statement of it.                                  *)
LEMMA ElsewhereRunners ==
  ASSUME TypeInv, Elsewhere
  PROVE  \A r \in Runner :
           \/ task'[r] = task[r] /\ pc'[r] = pc[r]
           \/ /\ pc'[r] \notin {"handle", "mark"} \cup After
              /\ task'[r] \in {task[r], NoJob}
           \/ pc'[r] = "start" /\ task'[r] \in Job /\ Exists(task'[r])
  <1> DEFINE Fine(r) == \/ task'[r] = task[r] /\ pc'[r] = pc[r]
                        \/ /\ pc'[r] \notin {"handle", "mark"} \cup After
                           /\ task'[r] \in {task[r], NoJob}
                        \/ pc'[r] = "start" /\ task'[r] \in Job /\ Exists(task'[r])
  <1> SUFFICES ASSUME NEW r \in Runner  PROVE Fine(r)
    OBVIOUS
  <1> USE DEF TypeInv, TypeOK
  <1>1. ASSUME NEW q \in Runner, Drop(q)
        PROVE  Fine(r)
    BY <1>1 DEF Drop, DropTo, Goto, After
  <1>2. ASSUME NEW q \in Runner, NEW k \in Job, Take(q, k), Exists(k)
        PROVE  Fine(r)
    BY <1>2 DEF Take, Goto
  <1>3. ASSUME NEW w \in Worker, ReadLimits(w) \/ WorkerRaises(w) \/ ReadAttempts(w)
        PROVE  Fine(r)
    BY <1>3 DEF ReadLimits, WorkerRaises, ReadAttempts, Goto, After
  <1>4. ASSUME NEW w \in Worker, Claim(w)
        PROVE  Fine(r)
    <2>1. PICK k \in Job : jobs[k].status = "ready" /\ Take(w, k)
      BY <1>4 DEF Claim, RunnableBy, Runnable, Window, Candidates
    <2> QED
      BY <1>2, <2>1 DEF Exists, Runner
  <1>5. CASE \/ \E w \in Worker : ClaimNothing(w) \/ RecordFailure(w)
             \/ \E c \in Cli : StepRaises(c)
             \/ \E q \in Worker \cup Cli : Crash(q)
    BY <1>1, <1>5 DEF ClaimNothing, RecordFailure, StepRaises, Crash, Runner
  <1>6. CASE Command
    <2>1. UNCHANGED runVars \/ \E k \in Job, c \in Cli : Step(c, k)
      BY <1>6 DEF Command, Ingest, Reingest, Hold, HoldRows, Release, ReleaseRows, Retry,
                  RetryButton, Pause, Resume, Throttle, ReadControl, WriteControl, RetryStage
    <2>2. ASSUME NEW k \in Job, NEW c \in Cli, Step(c, k)
          PROVE  Fine(r)
      BY <1>2, <2>2 DEF Step, Runner
    <2> QED
      BY <2>1, <2>2 DEF runVars
  <1> QED
    BY <1>3, <1>4, <1>5, <1>6 DEF Elsewhere, OtherCommand
-----------------------------------------------------------------------------
(* Types, and that what a row names has been written. *)

(* A command is at one of its variants; the outputs it has collected, and  *)
(* those that have been reported, are there.                               *)
Written(a, p) == p \in Path /\ content[a][p] > 0

EvalAt ==
  \A a \in Artifact :
    /\ eval[a].step \in {"generate", "collect"} => eval[a].at \in Variant
    /\ eval[a].step \in {"lift", "mark", "advance"} => eval[a].at \in DOMAIN report[a]

OutputsAreThere ==
  \A a \in Artifact :
    /\ eval[a].step = "collect" => Written(a, Variants[eval[a].at])
    /\ \A i \in DOMAIN eval[a].outputs : Written(a, eval[a].outputs[i].path)
    /\ \A i \in DOMAIN report[a] : Written(a, report[a][i].path)

ProducersWrote ==
  \A r \in Runner : Produces(r) /\ pc[r] \in {"mark"} \cup After
                      => Written(task[r][1], DefaultPath)

EvalBase ==
  /\ EvalTypeOK /\ Control /\ RunnersHaveRows
  /\ EvalAt /\ OutputsAreThere /\ ProducersWrote /\ PathsLead

(* What has been written stays written.                                    *)
Grows == \A a \in Artifact, p \in Path : content[a][p] > 0 => content'[a][p] > 0

LEMMA EvalStageIsStage ==
  ASSUME NEW a \in Artifact
  PROVE  EvalJob(a) \in Job /\ EvalJob(a)[1] = a
  BY EvalAssumption DEF EvalJob, Job

(* The stage after the evaluated one follows no other stage.               *)
LEMMA NextIsItsOwn ==
  ASSUME NEW a \in Artifact, NEW k \in Job, HasNext(EvalJob(a)), NextJob(k) = NextJob(EvalJob(a))
  PROVE  k = EvalJob(a)
  <1>1. EvalJob(a) \in Job /\ NextJob(EvalJob(a)) \in Job
    BY NextJobIsJob, EvalStageIsStage
  <1>2. HasNext(k)
    BY <1>1, StagesAssumption DEF NextJob, HasNext, Job
  <1> QED
    BY <1>1, <1>2, NextJobInjective

(* Who consumes the output of the evaluated stage runs the one after it.   *)
LEMMA ConsumerIsNext ==
  ASSUME NEW r \in Runner, task[r] \in Job \cup {NoJob}, Consumes(r)
  PROVE  /\ task[r] \in Job /\ task[r][1] \in Artifact
         /\ HasNext(EvalJob(task[r][1]))
         /\ task[r] = NextJob(EvalJob(task[r][1]))
  BY StagesAssumption DEF Consumes, HasNext, NextJob, Job, EvalJob

LEMMA RunRows ==
  ASSUME TypeInv, RunnersHaveRows, NEW r \in Worker \cup Cli, RunWithPaths(r),
         out \in [Artifact -> Path \cup {NoPath}], inp \in [Artifact -> Path \cup {NoPath}]
  PROVE  /\ \A k \in Job : Exists(k) => jobs'[k].status # "absent"
         /\ \A a \in Artifact :
              /\ \/ jobs'[EvalJob(a)].status # "done"
                 \/ jobs[EvalJob(a)].status = "done" /\ out'[a] = out[a]
                 \/ task[r] = EvalJob(a) /\ pc[r] = "mark" /\ out'[a] = DefaultPath
              /\ \/ ~HasNext(EvalJob(a))
                 \/ jobs'[NextJob(EvalJob(a))].status = "absent"
                 \/ Exists(NextJob(EvalJob(a))) /\ inp'[a] = inp[a]
                 \/ task[r] = EvalJob(a) /\ pc[r] = "insert" /\ inp'[a] = DefaultPath
  <1> USE DEF TypeInv, TypeOK, Runner
  <1>1. CASE ReadInput(r) \/ WriteOutput(r) \/ (NamePaths(r) /\ ReadFrozen(r))
    BY <1>1, EvalStageIsStage
       DEF ReadInput, WriteOutput, Start, Persist, ReadFrozen, NamePaths, Exists
  <1>2. CASE NamePaths(r) /\ (MarkDone(r) \/ MarkLast(r))
    <2>1. PICK t \in Job : t = task[r] /\ t[1] \in Artifact
      BY <1>2, BusyFacts DEF MarkDone, MarkLast, Control, AtWork, Before
    <2>2. Exists(t) /\ jobs'[t].status = "done" /\ \A k \in Job : k # t => jobs'[k] = jobs[k]
      BY <1>2, <2>1, RunStageAssumption
         DEF MarkDone, MarkLast, mark_done, RunnersHaveRows, Row, Job
    <2>3. inp' = inp /\ \A a \in Artifact : IF t = EvalJob(a) THEN out'[a] = DefaultPath
                                                            ELSE out'[a] = out[a]
      BY <1>2, <2>1, RunStageAssumption
         DEF NamePaths, MarkDone, MarkLast, Produces, EvalJob, Job
    <2>4. pc[r] = "mark"
      BY <1>2 DEF MarkDone, MarkLast
    <2> QED
      BY <2>1, <2>2, <2>3, <2>4, EvalStageIsStage, NextJobIsJob DEF Exists
  <1>3. CASE NamePaths(r) /\ InsertNext(r)
    <2>1. PICK t \in Job : t = task[r] /\ t[1] \in Artifact
      BY <1>3, BusyFacts DEF InsertNext, Control, AtWork, After
    <2>2. /\ loc[r].status \in {"ready", "held"}
          /\ insert_job(NextJob(t), loc[r].status, TRUE)
      BY <1>3, <2>1 DEF InsertNext, Locals
    <2>3. \A k \in Job : k # NextJob(t) => jobs'[k] = jobs[k]
      BY <2>2 DEF insert_job
    <2>4. ASSUME NextJob(t) \in Job
          PROVE  jobs'[NextJob(t)].status \in {"ready", "held"}
      BY <2>2, <2>4, InsertRow
    <2>5. out' = out /\ \A a \in Artifact : IF t = EvalJob(a) THEN inp'[a] = DefaultPath
                                                            ELSE inp'[a] = inp[a]
      BY <1>3, <2>1, RunStageAssumption DEF NamePaths, InsertNext, Produces, EvalJob, Job
    <2>6. pc[r] = "insert"
      BY <1>3 DEF InsertNext
    <2>7. ASSUME NEW a \in Artifact, HasNext(EvalJob(a)), t # EvalJob(a)
          PROVE  jobs'[NextJob(EvalJob(a))] = jobs[NextJob(EvalJob(a))]
      BY <2>3, <2>7, NextIsItsOwn, NextJobIsJob, EvalStageIsStage
    <2> QED
      BY <2>1, <2>3, <2>4, <2>5, <2>6, <2>7, EvalStageIsStage DEF Exists
  <1> QED
    BY <1>1, <1>2, <1>3, RunCases

(* In its runners: one that comes to its output having been written, came  *)
(* there before or writes it now.                                          *)
LEMMA RunRunners ==
  ASSUME TypeInv, NEW r \in Worker \cup Cli, RunWithPaths(r)
  PROVE  /\ \A q \in Runner \ {r} : task'[q] = task[q] /\ pc'[q] = pc[q]
         /\ \/ task'[r] = task[r] /\ pc[r] \in {"start"} /\ pc'[r] = "handle"
            \/ task'[r] = task[r] /\ pc[r] = "handle" /\ pc'[r] = "mark" /\ WriteOutput(r)
            \/ task'[r] = task[r] /\ pc[r] \in {"mark", "advance"} /\ pc'[r] \in After
            \/ task'[r] = NoJob /\ pc'[r] = "idle"
  <1> USE DEF TypeInv, TypeOK, Runner
  <1>1. CASE ReadInput(r)
    BY <1>1 DEF ReadInput, Start, Goto
  <1>2. CASE WriteOutput(r)
    <2>1. Persist(r)
      BY <1>2 DEF WriteOutput
    <2> QED
      BY <1>2, <2>1 DEF Persist, Goto
  <1>3. CASE ReadFrozen(r) \/ MarkDone(r)
    BY <1>3 DEF ReadFrozen, MarkDone, Goto, After
  <1>4. CASE Drop(r)
    BY <1>4 DEF Drop, DropTo, Goto
  <1> QED
    BY <1>1, <1>2, <1>3, <1>4, RunCases

(* What the run of a stage does to the paths.                              *)
LEMMA RunPaths ==
  ASSUME EvalBase, NEW r \in Worker \cup Cli, RunWithPaths(r)
  PROVE  /\ content' \in [Artifact -> [Path -> Nat]]
         /\ out' \in [Artifact -> Path \cup {NoPath}]
         /\ inp' \in [Artifact -> Path \cup {NoPath}]
         /\ read' \in [Runner -> Output \cup {NoOutput}]
         /\ taken' \in [Artifact -> Output \cup {NoOutput}]
         /\ Grows
         /\ WriteOutput(r) /\ Produces(r) => Written(task[r][1], DefaultPath)'
  <1> USE EvalAssumption DEF EvalBase, EvalTypeOK, TypeOK, Runner, Grows
  <1>1. CASE ReadInput(r)
    <2>1. Consumes(r) => inp[task[r][1]] \in Path /\ task[r][1] \in Artifact
      BY ConsumerIsNext DEF PathsLead, RunnersHaveRows, Consumes
    <2>2. Consumes(r) => OutputAt(task[r][1], inp[task[r][1]]) \in Output
      BY <2>1 DEF OutputAt, Output
    <2>3. pc[r] # "handle" /\ UNCHANGED <<content, out, inp, taken>>
      BY <1>1 DEF ReadInput, Start
    <2>4. read' \in [Runner -> Output \cup {NoOutput}]
      BY <1>1, <2>2 DEF ReadInput
    <2> QED
      BY <2>3, <2>4 DEF WriteOutput, Persist
  <1>2. CASE WriteOutput(r)
    <2>1. task[r] \in Job /\ task[r][1] \in Artifact
      BY <1>2, BusyFacts DEF TypeInv, WriteOutput, Persist, Control, AtWork, Before
    <2>2. read' \in [Runner -> Output \cup {NoOutput}] /\ UNCHANGED <<out, inp>>
      BY <1>2 DEF WriteOutput
    <2>3. taken' \in [Artifact -> Output \cup {NoOutput}]
      BY <1>2, <2>1 DEF WriteOutput
    <2>4. \/ UNCHANGED content
          \/ content' = [content EXCEPT ![task[r][1]][DefaultPath] = @ + 1]
      BY <1>2 DEF WriteOutput
    <2>5. Produces(r) => content' = [content EXCEPT ![task[r][1]][DefaultPath] = @ + 1]
      BY <1>2 DEF WriteOutput
    <2>6. content \in [Artifact -> [Path -> Nat]] /\ DefaultPath \in Path
      OBVIOUS
    <2>7. ASSUME NEW a \in Artifact, content' = [content EXCEPT ![a][DefaultPath] = @ + 1]
          PROVE  /\ content' \in [Artifact -> [Path -> Nat]]
                 /\ content'[a][DefaultPath] > 0
                 /\ \A b \in Artifact, p \in Path : content[b][p] > 0 => content'[b][p] > 0
      BY ONLY <2>6, <2>7
    <2>8. content' \in [Artifact -> [Path -> Nat]] /\ Grows
      BY <2>1, <2>4, <2>6, <2>7
    <2>9. Produces(r) => Written(task[r][1], DefaultPath)'
      <3>1. task' = task
        BY <1>2 DEF WriteOutput, Persist
      <3> QED
        BY <3>1, <2>1, <2>5, <2>6, <2>7 DEF Written
    <2> QED
      BY <2>2, <2>3, <2>8, <2>9
  <1>3. CASE NamePaths(r) /\ pc[r] # "handle"
    <2>1. UNCHANGED <<content, read, taken>>
      BY <1>3 DEF NamePaths
    <2>2. ~WriteOutput(r)
      BY <1>3 DEF WriteOutput, Persist
    <2>3. out' \in [Artifact -> Path \cup {NoPath}] /\ inp' \in [Artifact -> Path \cup {NoPath}]
      BY <1>3 DEF NamePaths
    <2> QED
      BY <2>1, <2>2, <2>3
  <1> QED
    BY <1>1, <1>2, <1>3, RunCases DEF ReadFrozen, MarkDone, MarkLast, InsertNext

(* A step that deletes no row and enters none but those that are there.    *)
LEMMA RowsStay ==
  ASSUME RunnersHaveRows, \A k \in Job : Exists(k) => jobs'[k].status # "absent",
         task \in [Runner -> Job \cup {NoJob}],
         \A r \in Runner : \/ task'[r] \in {task[r], NoJob}
                           \/ task'[r] \in Job /\ Exists(task'[r])
  PROVE  RunnersHaveRows'
  BY RunStageAssumption DEF RunnersHaveRows, Exists, Job

LEMMA RunBase ==
  ASSUME EvalBase, NEW r \in Worker \cup Cli, RunWithPaths(r)
  PROVE  EvalBase'
  <1>1. TypeInv /\ Next /\ RunnersHaveRows
    BY RunIsNext DEF EvalBase, EvalTypeOK, TypeInv
  <1>2. UNCHANGED <<eval, report>> /\ ApprovalsEnd
    BY RunCases
  <1>3. EvalTypeOK'
    BY <1>1, <1>2, StepType, RunPaths DEF EvalBase, EvalTypeOK, ApprovalsEnd
  <1>4. Control'
    BY <1>1, StepControl
  <1>5. RunnersHaveRows'
    BY <1>1, RunRows, RunRunners, RowsStay DEF EvalBase, EvalTypeOK, TypeOK, Runner
  <1>6. EvalAt'
    BY <1>2 DEF EvalBase, EvalAt
  <1>7. Grows
    BY RunPaths
  <1>8. \A a \in Artifact : \A p : Written(a, p) => Written(a, p)'
    BY <1>7 DEF Grows, Written
  <1>9. OutputsAreThere'
    <2> SUFFICES ASSUME NEW a \in Artifact
                 PROVE  /\ eval[a].step = "collect" => Written(a, Variants[eval[a].at])'
                        /\ \A i \in DOMAIN eval[a].outputs : Written(a, eval[a].outputs[i].path)'
                        /\ \A i \in DOMAIN report[a] : Written(a, report[a][i].path)'
      BY <1>2 DEF OutputsAreThere, Written
    <2> QED
      BY <1>2, <1>7 DEF EvalBase, OutputsAreThere, Written, Grows
  <1>10. ProducersWrote'
    <2> SUFFICES ASSUME NEW q \in Runner, Produces(q)', pc'[q] \in {"mark"} \cup After
                 PROVE  task'[q][1] \in Artifact /\ content'[task'[q][1]][DefaultPath] > 0
      BY EvalAssumption DEF ProducersWrote, Written
    <2>1. task'[q] = task[q] /\ task[q] # NoJob /\ Produces(q) /\ task[q][1] \in Artifact
      BY <1>1, RunRunners, BusyFacts DEF Produces, After
    <2>2. CASE pc[q] \in {"mark"} \cup After
      BY <1>7, <2>1, <2>2, EvalAssumption DEF EvalBase, ProducersWrote, Written, Grows
    <2>3. CASE q = r /\ WriteOutput(r)
      BY <2>1, <2>3, RunPaths DEF Written
    <2> QED
      BY <1>1, <2>2, <2>3, RunRunners DEF After
  <1>11. PathsLead'
    <2> SUFFICES ASSUME NEW a \in Artifact
                 PROVE  /\ jobs'[EvalJob(a)].status = "done"
                             => out'[a] \in Path /\ content'[a][out'[a]] > 0
                        /\ HasNext(EvalJob(a)) /\ jobs'[NextJob(EvalJob(a))].status # "absent"
                             => inp'[a] \in Path /\ content'[a][inp'[a]] > 0
      BY DEF PathsLead, Exists, HasNext, NextJob, EvalJob
    <2>1. ASSUME task[r] = EvalJob(a), pc[r] \in {"mark", "insert"}
          PROVE  DefaultPath \in Path /\ content'[a][DefaultPath] > 0
      <3>1. Produces(r) /\ task[r][1] = a
        BY <1>1, <2>1, RunStageAssumption, EvalStageIsStage DEF Produces, EvalJob, Job
      <3> QED
        BY <1>7, <2>1, <3>1, EvalAssumption
           DEF EvalBase, ProducersWrote, Written, Grows, After, Runner
    <2>2. PathsLead
      BY DEF EvalBase
    <2> QED
      BY <1>1, <1>7, <2>1, <2>2, RunRows DEF PathsLead, EvalBase, EvalTypeOK, Grows
  <1> QED
    BY <1>3, <1>4, <1>5, <1>6, <1>9, <1>10, <1>11 DEF EvalBase

LEMMA ElsewherePaths ==
  ASSUME EvalBase, Elsewhere
  PROVE  /\ UNCHANGED <<content, out, inp, taken, report>>
         /\ read' \in [Runner -> Output \cup {NoOutput}]
         /\ chosen' \in [Artifact -> Output \cup {NoOutput}]
         /\ eval' \in [Artifact -> [step : EvalStep, at : Nat, outputs : Seq(Output),
                                    current : BOOLEAN]]
         /\ \A a \in Artifact : /\ eval'[a].step = eval[a].step /\ eval'[a].at = eval[a].at
                                /\ eval'[a].outputs = eval[a].outputs
                                /\ eval'[a].current => eval[a].current
  <1> USE DEF EvalBase, EvalTypeOK
  <1>1. /\ UNCHANGED <<content, out, inp, taken, report>>
        /\ read' \in [Runner -> Output \cup {NoOutput}]
        /\ chosen' \in [Artifact -> Output \cup {NoOutput}]
    BY DEF Elsewhere, ApprovalsEnd
  <1>2. CASE UNCHANGED eval
    BY <1>1, <1>2
  <1>3. CASE OtherCommand
    <2>1. \A a \in Artifact : Touches(a) \in BOOLEAN
      BY DEF Touches
    <2>2. eval' = [a \in Artifact |-> [eval[a] EXCEPT !.current = @ /\ ~Touches(a)]]
      BY <1>3 DEF OtherCommand
    <2>3. ASSUME NEW a \in Artifact
          PROVE  /\ eval'[a] \in [step : EvalStep, at : Nat, outputs : Seq(Output),
                                  current : BOOLEAN]
                 /\ eval'[a].step = eval[a].step /\ eval'[a].at = eval[a].at
                 /\ eval'[a].outputs = eval[a].outputs
                 /\ eval'[a].current => eval[a].current
      <3> DEFINE t == eval[a].current /\ ~Touches(a)
      <3>1. t \in BOOLEAN /\ (t => eval[a].current)
        OBVIOUS
      <3>2. eval'[a] = [eval[a] EXCEPT !.current = t]
        BY <2>2
      <3> HIDE DEF t
      <3> QED
        BY <3>1, <3>2
    <2>4. eval' \in [Artifact -> [step : EvalStep, at : Nat, outputs : Seq(Output),
                                  current : BOOLEAN]]
      BY <2>2, <2>3
    <2> QED
      BY <1>1, <2>3, <2>4
  <1> QED
    BY <1>2, <1>3 DEF Elsewhere

LEMMA ElsewhereBase ==
  ASSUME EvalBase, Elsewhere
  PROVE  EvalBase'
  <1>1. TypeInv /\ Next /\ RunnersHaveRows
    BY ElsewhereIsNext DEF EvalBase, EvalTypeOK, TypeInv
  <1>2. EvalTypeOK'
    BY <1>1, StepType, ElsewherePaths DEF EvalBase, EvalTypeOK
  <1>3. Control'
    BY <1>1, StepControl
  <1>4. \A k \in Job : Exists(k) => jobs'[k].status # "absent"
    BY <1>1, ElsewhereRows DEF Exists
  <1>5. RunnersHaveRows'
    BY <1>1, <1>4, ElsewhereRunners, RowsStay DEF TypeInv, TypeOK
  <1>6. EvalAt'
    BY ElsewherePaths DEF EvalBase, EvalAt
  <1>7. OutputsAreThere'
    BY ElsewherePaths DEF EvalBase, OutputsAreThere, Written
  <1>8. ProducersWrote'
    BY <1>1, ElsewhereRunners, ElsewherePaths
       DEF EvalBase, ProducersWrote, Produces, Written, After
  <1>9. PathsLead'
    <2> SUFFICES ASSUME NEW a \in Artifact
                 PROVE  /\ jobs'[EvalJob(a)].status = "done"
                             => out'[a] \in Path /\ content'[a][out'[a]] > 0
                        /\ HasNext(EvalJob(a)) /\ jobs'[NextJob(EvalJob(a))].status # "absent"
                             => inp'[a] \in Path /\ content'[a][inp'[a]] > 0
      BY DEF PathsLead, Exists, HasNext, NextJob, EvalJob
    <2>1. EvalJob(a) \in Job
      BY EvalStageIsStage
    <2>2. jobs'[EvalJob(a)].status = "done" => jobs[EvalJob(a)].status = "done"
      BY <1>1, <2>1, ElsewhereRows
    <2>3. ASSUME HasNext(EvalJob(a)), jobs'[NextJob(EvalJob(a))].status # "absent"
          PROVE  Exists(NextJob(EvalJob(a)))
      BY <1>1, <2>1, <2>3, ElsewhereRows, NextJobIsJob, FirstJobIsFirst DEF Exists
    <2> QED
      BY <2>2, <2>3, ElsewherePaths DEF EvalBase, PathsLead
  <1> QED
    BY <1>2, <1>3, <1>5, <1>6, <1>7, <1>8, <1>9 DEF EvalBase

(* An eval command at artifact a changes rows and outputs of a alone.      *)
LEMMA EvalCommandType ==
  ASSUME EvalBase, NEW a \in Artifact, EvalCommand(a)
  PROVE  EvalTypeOK'
  <1> USE EvalAssumption DEF EvalBase, EvalTypeOK, EvalGoto, Evaluating
  <1> DEFINE Evals == [step : EvalStep, at : Nat, outputs : Seq(Output), current : BOOLEAN]
  <1>1. TypeOK => EvalJob(a) \in Job /\ jobs[EvalJob(a)] \in Row
    BY EvalStageIsStage DEF TypeOK
  <1>2. \A st \in EvalStep, i \in Nat, o \in Seq(Output), b \in BOOLEAN :
           [step |-> st, at |-> i, outputs |-> o, current |-> b] \in Evals
    OBVIOUS
  <1>3. << >> \in Seq(Output)
    OBVIOUS
  <1>4. \A st \in EvalStep, i \in Nat :
          /\ NoEval \in Evals
          /\ [NoEval EXCEPT !.step = st] \in Evals
          /\ [NoEval EXCEPT !.step = st, !.at = i] \in Evals
          /\ [NoEval EXCEPT !.current = TRUE] \in Evals
    <2>1. "idle" \in EvalStep /\ 1 \in Nat
      BY DEF EvalStep
    <2>2. NoEval \in Evals
      BY <1>2, <1>3, <2>1 DEF NoEval
    <2>3. \A e \in Evals, st \in EvalStep, i \in Nat :
            /\ [e EXCEPT !.step = st] \in Evals
            /\ [e EXCEPT !.step = st, !.at = i] \in Evals
            /\ [e EXCEPT !.current = TRUE] \in Evals
      OBVIOUS
    <2> QED
      BY <2>2, <2>3
  <1>5. \A st \in EvalStep : EvalGoto(a, st) => eval' \in [Artifact -> Evals]
    <2>1. \A st \in EvalStep : [eval[a] EXCEPT !.step = st] \in Evals
      OBVIOUS
    <2>2. \A st \in EvalStep :
            EvalGoto(a, st) => eval' = [eval EXCEPT ![a] = [eval[a] EXCEPT !.step = st]]
      OBVIOUS
    <2> QED
      BY <2>1, <2>2
  <1>6. Give("eval") \/ Give("approve") => issued' \in 0..MaxCommands
    BY OrchestratorAssumption DEF Give, TypeOK
  <1>7. CASE EvalRun(a)
    BY <1>4, <1>6, <1>7 DEF EvalRun, TypeOK, runVars, pathVars, EvalStep
  <1>8. CASE Generate(a)
    <2>1. Variants[eval[a].at] \in Path
      BY <1>8 DEF Generate, EvalAt, Variant
    <2> DEFINE p == Variants[eval[a].at]
    <2>2. content' = [content EXCEPT ![a][p] = @ + 1]
      BY <1>8 DEF Generate
    <2> HIDE DEF p
    <2>3. content' \in [Artifact -> [Path -> Nat]]
      <3>1. content \in [Artifact -> [Path -> Nat]] /\ a \in Artifact /\ p \in Path
        BY <2>1 DEF p
      <3> QED
        BY ONLY <2>2, <3>1
    <2>4. eval' \in [Artifact -> Evals]
      BY <1>5, <1>8 DEF Generate, EvalStep
    <2> QED
      BY <1>8, <2>3, <2>4 DEF Generate, TypeOK, vars, cmdVars, runVars
  <1>9. CASE Collect(a)
    <2> DEFINE p == Variants[eval[a].at]
               st == IF eval[a].at + 1 \in Variant THEN "generate" ELSE "hold"
    <2>1. p \in Path
      BY <1>9 DEF Collect, EvalAt, Variant
    <2>2. OutputAt(a, p) \in Output
      BY <2>1 DEF OutputAt, Output
    <2>3. Append(eval[a].outputs, OutputAt(a, p)) \in Seq(Output)
      BY <2>2
    <2>4. st \in EvalStep
      BY DEF EvalStep
    <2>5. eval' = [eval EXCEPT ![a] =
            [eval[a] EXCEPT !.outputs = Append(eval[a].outputs, OutputAt(a, p)),
                            !.at = eval[a].at + 1, !.step = st]]
      BY <1>9 DEF Collect
    <2> HIDE DEF p, st
    <2>6. eval' \in [Artifact -> Evals]
      <3>1. eval \in [Artifact -> Evals] /\ eval[a].at + 1 \in Nat
        OBVIOUS
      <3>2. PICK o \in Seq(Output), n \in Nat :
              o = Append(eval[a].outputs, OutputAt(a, p)) /\ n = eval[a].at + 1
        BY <2>3, <3>1
      <3>3. [eval[a] EXCEPT !.outputs = o, !.at = n, !.step = st] \in Evals
        BY <2>4, <3>1
      <3> QED
        BY <2>5, <3>1, <3>2, <3>3
    <2> QED
      BY <1>9, <2>6 DEF Collect, TypeOK, vars, cmdVars, runVars, pathVars
  <1>10. CASE EvalHold(a)
    <2>1. <<"artifact", a>> \in ControlKey
      BY DEF ControlKey
    <2>2. MergedRow(ctl, <<"artifact", a>>, "paused", NULL) \in ControlRow
      BY <2>1, MergedType
    <2>3. ctl' \in ControlTable
      BY <1>10, <2>2 DEF EvalHold, TypeOK, ControlTable
    <2>4. eval' \in [Artifact -> Evals]
      BY <1>5, <1>10 DEF EvalHold, EvalStep
    <2> QED
      BY <1>10, <2>3, <2>4 DEF EvalHold, TypeOK, cmdVars, runVars, pathVars
  <1>11. CASE EvalHoldRows(a)
    <2>1. jobs' \in [Job -> Row] /\ clock' \in Nat
      BY <1>11, MoveRowsType DEF EvalHoldRows, TypeOK, Status
    <2>2. eval' \in [Artifact -> Evals]
      BY <1>5, <1>11 DEF EvalHoldRows, EvalStep
    <2> QED
      BY <1>11, <2>1, <2>2 DEF EvalHoldRows, TypeOK, cmdVars, runVars, pathVars
  <1>12. CASE WriteReport(a)
    <2>1. eval' \in [Artifact -> Evals]
      <3>1. [NoEval EXCEPT !.current = TRUE] \in Evals
        BY <1>4 DEF EvalStep
      <3> QED
        BY <1>12, <3>1 DEF WriteReport
    <2>2. report' \in [Artifact -> Seq(Output)]
      BY <1>12 DEF WriteReport
    <2> QED
      BY <1>12, <2>1, <2>2 DEF WriteReport, TypeOK, vars, cmdVars, runVars, pathVars
  <1>13. CASE EvalRaises(a)
    BY <1>4, <1>13 DEF EvalRaises, TypeOK, vars, cmdVars, runVars, pathVars, EvalStep
  <1>14. ASSUME NEW i \in Variant, Approve(a, i)
         PROVE  EvalTypeOK'
    <2>1. i \in Nat
      BY DEF Variant
    <2>2. eval' \in [Artifact -> Evals]
      BY <1>4, <1>14, <2>1 DEF Approve, EvalStep
    <2> QED
      BY <1>6, <1>14, <2>2 DEF Approve, TypeOK, runVars, pathVars
  <1>15. CASE LiftHold(a)
    <2>1. ctl' \in ControlTable
      BY <1>15 DEF LiftHold, TypeOK, ControlTable
    <2>2. eval' \in [Artifact -> Evals]
      BY <1>5, <1>15 DEF LiftHold, EvalStep
    <2> QED
      BY <1>15, <2>1, <2>2 DEF LiftHold, TypeOK, cmdVars, runVars, pathVars
  <1>16. CASE MarkApproved(a)
    <2>1. Picked(a) \in Output /\ Picked(a).path \in Path
      <3>1. eval[a].at \in DOMAIN report[a] /\ report[a] \in Seq(Output)
        BY <1>16 DEF MarkApproved, EvalAt
      <3>2. Picked(a) \in Output
        BY <3>1 DEF Picked
      <3> QED
        BY <3>2 DEF Output
    <2>2. jobs' \in [Job -> Row] /\ clock' \in Nat
      BY <1>1, <1>16 DEF MarkApproved, mark_done, TypeOK, Row, Status
    <2>3. eval' \in [Artifact -> Evals]
      BY <1>5, <1>16 DEF MarkApproved, EvalStep
    <2> QED
      BY <1>16, <2>1, <2>2, <2>3 DEF MarkApproved, TypeOK, cmdVars, runVars
  <1>17. CASE ResumeChain(a)
    <2>1. Picked(a) \in Output /\ Picked(a).path \in Path
      <3>1. eval[a].at \in DOMAIN report[a] /\ report[a] \in Seq(Output)
        BY <1>17 DEF ResumeChain, EvalAt
      <3>2. Picked(a) \in Output
        BY <3>1 DEF Picked
      <3> QED
        BY <3>2 DEF Output
    <2>2. jobs' \in [Job -> Row] /\ clock' \in Nat
      BY <1>17, InsertType DEF ResumeChain, Status
    <2>3. eval' \in [Artifact -> Evals]
      BY <1>5, <1>17 DEF ResumeChain, EvalStep
    <2> QED
      BY <1>17, <2>1, <2>2, <2>3 DEF ResumeChain, TypeOK, cmdVars, runVars
  <1>18. CASE EvalDies(a)
    <2>1. crashes' \in 0..MaxCrashes
      BY <1>18, OrchestratorAssumption DEF EvalDies, TypeOK
    <2> QED
      BY <1>4, <1>18, <2>1 DEF EvalDies, TypeOK, cmdVars, runVars, pathVars, EvalStep
  <1> QED
    BY <1>7, <1>8, <1>9, <1>10, <1>11, <1>12, <1>13, <1>14, <1>15, <1>16, <1>17, <1>18
       DEF EvalCommand

(* What each statement of the two commands does to the row of the stage    *)
(* and to that of the stage after it.                                      *)
LEMMA EvalCommandRows ==
  ASSUME EvalBase, NEW a \in Artifact, EvalCommand(a)
  PROVE  /\ UNCHANGED <<pc, task, loc, files, flips, writes, processed, read, taken>>
         /\ \A k \in Job : Exists(k) => jobs'[k].status # "absent"
         /\ \A k \in Job : k[1] # a => jobs'[k] = jobs[k]
         /\ Grows
         /\ \A b \in Artifact :
              /\ \/ jobs'[EvalJob(b)].status # "done"
                 \/ jobs[EvalJob(b)].status = "done" /\ out'[b] = out[b]
                 \/ b = a /\ Evaluating(a, "mark") /\ out'[b] = Picked(a).path
              /\ \/ ~HasNext(EvalJob(b))
                 \/ jobs'[NextJob(EvalJob(b))].status = "absent"
                 \/ Exists(NextJob(EvalJob(b))) /\ inp'[b] = inp[b]
                 \/ b = a /\ Evaluating(a, "advance") /\ inp'[b] = Picked(a).path
  <1> DEFINE Rows == /\ \A k \in Job : Exists(k) => jobs'[k].status # "absent"
                     /\ \A k \in Job : k[1] # a => jobs'[k] = jobs[k]
             Named(b) ==
               /\ \/ jobs'[EvalJob(b)].status # "done"
                  \/ jobs[EvalJob(b)].status = "done" /\ out'[b] = out[b]
                  \/ b = a /\ Evaluating(a, "mark") /\ out'[b] = Picked(a).path
               /\ \/ ~HasNext(EvalJob(b))
                  \/ jobs'[NextJob(EvalJob(b))].status = "absent"
                  \/ Exists(NextJob(EvalJob(b))) /\ inp'[b] = inp[b]
                  \/ b = a /\ Evaluating(a, "advance") /\ inp'[b] = Picked(a).path
  <1> USE DEF EvalBase, EvalTypeOK, TypeOK
  <1>1. CASE Generate(a)
    <2>1. Variants[eval[a].at] \in Path
      BY <1>1, EvalAssumption DEF Generate, EvalAt, Variant, Evaluating
    <2> DEFINE p == Variants[eval[a].at]
    <2>2. content' = [content EXCEPT ![a][p] = @ + 1]
      BY <1>1 DEF Generate
    <2> HIDE DEF p
    <2>3. content \in [Artifact -> [Path -> Nat]] /\ p \in Path
      BY <2>1 DEF p
    <2>4. \A b \in Artifact, q \in Path : content[b][q] > 0 => content'[b][q] > 0
      BY ONLY <2>2, <2>3
    <2> QED
      BY <1>1, <2>4 DEF Generate, vars, runVars, cmdVars, Grows, Exists
  <1>2. CASE EvalHoldRows(a)
    <2>1. \A k \in Job : jobs'[k].status = "done" => jobs[k].status = "done"
      BY <1>2 DEF EvalHoldRows, MoveRows, Row, Status
    <2>2. \A k \in Job : Exists(k) <=> jobs'[k].status # "absent"
      BY <1>2 DEF EvalHoldRows, MoveRows, Row, Status, Exists
    <2>3. \A k \in Job : k[1] # a => jobs'[k] = jobs[k]
      BY <1>2 DEF EvalHoldRows, MoveRows
    <2> QED
      BY <1>2, <2>1, <2>2, <2>3, EvalStageIsStage, NextJobIsJob
         DEF EvalHoldRows, runVars, cmdVars, pathVars, Grows
  <1>3. CASE MarkApproved(a)
    <2>1. /\ \A k \in Job : k # EvalJob(a) => jobs'[k] = jobs[k]
          /\ jobs'[EvalJob(a)].status = "done"
      BY <1>3, EvalStageIsStage DEF MarkApproved, mark_done, Row
    <2>2. Rows
      BY <2>1, EvalStageIsStage DEF Exists
    <2>3. /\ out'[a] = Picked(a).path /\ Evaluating(a, "mark")
          /\ \A b \in Artifact : b # a => out'[b] = out[b]
          /\ UNCHANGED inp
      BY <1>3 DEF MarkApproved
    <2>4. \A b \in Artifact : HasNext(EvalJob(b)) /\ jobs'[NextJob(EvalJob(b))].status # "absent"
                                => Exists(NextJob(EvalJob(b))) \/ NextJob(EvalJob(b)) = EvalJob(a)
      BY <2>1, EvalStageIsStage, NextJobIsJob DEF Exists
    <2>5. \A b \in Artifact : HasNext(EvalJob(b)) => NextJob(EvalJob(b)) # EvalJob(a)
      <3>1. ASSUME NEW b \in Artifact, HasNext(EvalJob(b)), NextJob(EvalJob(b)) = EvalJob(a)
            PROVE  FALSE
        <4>1. EvalJob(b) = EvalJob(a)
          BY <3>1 DEF NextJob, EvalJob
        <4> QED
          BY <3>1, <4>1, NextJobDiffers, EvalStageIsStage
      <3> QED
        BY <3>1
    <2>6. \A b \in Artifact : Named(b)
      <3>1. ASSUME NEW b \in Artifact, b # a
            PROVE  jobs'[EvalJob(b)] = jobs[EvalJob(b)]
        BY <2>1, <3>1, EvalStageIsStage DEF EvalJob
      <3> QED
        BY <2>3, <2>4, <2>5, <3>1
    <2> QED
      BY <1>3, <2>2, <2>6 DEF MarkApproved, runVars, cmdVars, Grows
  <1>4. CASE ResumeChain(a)
    <2> DEFINE n == NextJob(EvalJob(a))
    <2>1. insert_job(n, "ready", TRUE)
      BY <1>4 DEF ResumeChain
    <2>2. \A k \in Job : k # n => jobs'[k] = jobs[k]
      BY <2>1 DEF insert_job
    <2>3. n \in Job => jobs'[n].status = "ready"
      BY <2>1, InsertRow DEF TypeInv
    <2>4. n[1] = a
      BY DEF NextJob, EvalJob
    <2> HIDE DEF n
    <2>5. Rows
      BY <2>2, <2>3, <2>4 DEF Exists
    <2>6. /\ inp'[a] = Picked(a).path /\ Evaluating(a, "advance")
          /\ \A b \in Artifact : b # a => inp'[b] = inp[b]
          /\ UNCHANGED out
      BY <1>4 DEF ResumeChain
    <2>7. \A b \in Artifact : Named(b)
      <3>1. ASSUME NEW b \in Artifact, b # a
            PROVE  \A k \in Job : k[1] = b => jobs'[k] = jobs[k]
        BY <2>2, <2>4, <3>1
      <3>2. ASSUME NEW b \in Artifact, b # a
            PROVE  Named(b)
        <4>1. HasNext(EvalJob(b)) => NextJob(EvalJob(b)) \in Job /\ NextJob(EvalJob(b))[1] = b
          BY NextJobIsJob, EvalStageIsStage DEF NextJob, EvalJob
        <4> QED
          BY <2>6, <3>1, <3>2, <4>1, EvalStageIsStage DEF Exists
      <3>3. \/ jobs'[EvalJob(a)].status # "done"
            \/ jobs[EvalJob(a)].status = "done"
        BY <2>2, <2>3, EvalStageIsStage
      <3> QED
        BY <2>6, <3>2, <3>3
    <2> QED
      BY <1>4, <2>5, <2>7 DEF ResumeChain, runVars, cmdVars, Grows
  <1>5. CASE \/ EvalRun(a) \/ Collect(a) \/ EvalHold(a) \/ WriteReport(a) \/ EvalRaises(a)
             \/ (\E i \in Variant : Approve(a, i)) \/ LiftHold(a) \/ EvalDies(a)
    <2>1. UNCHANGED <<jobs, runVars, flips, writes, processed, pathVars>>
      BY <1>5 DEF EvalRun, Collect, EvalHold, WriteReport, EvalRaises, Approve, LiftHold,
                  EvalDies, vars, cmdVars
    <2> QED
      BY <2>1 DEF runVars, pathVars, Grows, Exists
  <1> QED
    BY <1>1, <1>2, <1>3, <1>4, <1>5 DEF EvalCommand

(* Where a statement leaves its command.                                   *)
LEMMA EvalMoves ==
  ASSUME EvalTypeOK, NEW a \in Artifact
  PROVE  /\ \A st : EvalGoto(a, st) =>
              /\ eval'[a].step = st /\ eval'[a].at = eval[a].at
              /\ eval'[a].outputs = eval[a].outputs /\ eval'[a].current = eval[a].current
         /\ EvalRaises(a) \/ EvalDies(a) =>
              /\ eval'[a].step = "idle" /\ eval'[a].at = 1 /\ eval'[a].outputs = << >>
              /\ ~eval'[a].current
         /\ WriteReport(a) =>
              /\ eval'[a].step = "idle" /\ eval'[a].at = 1 /\ eval'[a].outputs = << >>
              /\ eval'[a].current
         /\ EvalRun(a) =>
              /\ eval'[a].step = "generate" /\ eval'[a].at = 1 /\ eval'[a].outputs = << >>
              /\ ~eval'[a].current
         /\ \A i \in Nat : Approve(a, i) =>
              /\ eval'[a].step = "lift" /\ eval'[a].at = i /\ eval'[a].outputs = << >>
              /\ ~eval'[a].current
         /\ Collect(a) =>
              /\ eval'[a].outputs = Append(eval[a].outputs, OutputAt(a, Variants[eval[a].at]))
              /\ eval'[a].at = eval[a].at + 1
              /\ eval'[a].step = IF eval'[a].at \in Variant THEN "generate" ELSE "hold"
              /\ eval'[a].current = eval[a].current
  <1> DEFINE Evals == [step : EvalStep, at : Nat, outputs : Seq(Output), current : BOOLEAN]
  <1>1. eval \in [Artifact -> Evals]
    BY DEF EvalTypeOK
  <1> PICK no : no = NoEval
    OBVIOUS
  <1>2. no \in Evals
    <2>1. << >> \in Seq(Output)
      OBVIOUS
    <2>2. \A o \in Seq(Output) :
             [step |-> "idle", at |-> 1, outputs |-> o, current |-> FALSE] \in Evals
      BY DEF EvalStep
    <2> QED
      BY <2>1, <2>2 DEF NoEval
  <1>3. no.step = "idle" /\ no.at = 1 /\ no.outputs = << >> /\ ~no.current
    BY DEF NoEval
  <1>5. \A e : eval' = [eval EXCEPT ![a] = e] => eval'[a] = e
    BY <1>1
  <1>6. ASSUME NEW st, EvalGoto(a, st)
        PROVE  eval'[a] = [eval[a] EXCEPT !.step = st]
    BY <1>1, <1>6 DEF EvalGoto
  <1>7. EvalRaises(a) \/ EvalDies(a) => eval'[a] = no
    BY <1>5 DEF EvalRaises, EvalDies
  <1>8. WriteReport(a) => eval'[a] = [no EXCEPT !.current = TRUE]
    BY <1>5 DEF WriteReport
  <1>9. EvalRun(a) => eval'[a] = [no EXCEPT !.step = "generate"]
    BY <1>5 DEF EvalRun
  <1>10. ASSUME NEW i, Approve(a, i)
         PROVE  eval'[a] = [no EXCEPT !.step = "lift", !.at = i]
    BY <1>5, <1>10 DEF Approve
  <1>11. ASSUME Collect(a)
         PROVE  eval'[a] = [eval[a] EXCEPT
                  !.outputs = Append(eval[a].outputs, OutputAt(a, Variants[eval[a].at])),
                  !.at = eval[a].at + 1,
                  !.step = IF eval[a].at + 1 \in Variant THEN "generate" ELSE "hold"]
    BY <1>5, <1>11 DEF Collect
  <1> HIDE DEF Evals
  <1>12. eval[a] \in Evals
    BY <1>1 DEF Evals
  <1>13. ASSUME NEW st, EvalGoto(a, st)
         PROVE  /\ eval'[a].step = st /\ eval'[a].at = eval[a].at
                /\ eval'[a].outputs = eval[a].outputs /\ eval'[a].current = eval[a].current
    BY ONLY <1>6, <1>12, <1>13 DEF Evals
  <1>14. ASSUME WriteReport(a)
         PROVE  /\ eval'[a].step = "idle" /\ eval'[a].at = 1 /\ eval'[a].outputs = << >>
                /\ eval'[a].current
    BY ONLY <1>2, <1>3, <1>8, <1>14 DEF Evals
  <1>15. ASSUME EvalRun(a)
         PROVE  /\ eval'[a].step = "generate" /\ eval'[a].at = 1 /\ eval'[a].outputs = << >>
                /\ ~eval'[a].current
    BY ONLY <1>2, <1>3, <1>9, <1>15 DEF Evals
  <1>16. ASSUME NEW i \in Nat, Approve(a, i)
         PROVE  /\ eval'[a].step = "lift" /\ eval'[a].at = i /\ eval'[a].outputs = << >>
                /\ ~eval'[a].current
    <2>1. /\ [no EXCEPT !.step = "lift", !.at = i].step = "lift"
          /\ [no EXCEPT !.step = "lift", !.at = i].at = i
          /\ [no EXCEPT !.step = "lift", !.at = i].outputs = no.outputs
          /\ [no EXCEPT !.step = "lift", !.at = i].current = no.current
      BY ONLY <1>2, i \in Nat DEF Evals
    <2>2. eval'[a] = [no EXCEPT !.step = "lift", !.at = i]
      BY <1>10, <1>16
    <2> QED
      BY ONLY <1>3, <2>1, <2>2
  <1>17. ASSUME Collect(a)
         PROVE  /\ eval'[a].outputs = Append(eval[a].outputs, OutputAt(a, Variants[eval[a].at]))
                /\ eval'[a].at = eval[a].at + 1
                /\ eval'[a].step = IF eval'[a].at \in Variant THEN "generate" ELSE "hold"
                /\ eval'[a].current = eval[a].current
    <2> DEFINE o == Append(eval[a].outputs, OutputAt(a, Variants[eval[a].at]))
               i == eval[a].at + 1
               st == IF i \in Variant THEN "generate" ELSE "hold"
    <2>1. eval'[a] = [eval[a] EXCEPT !.outputs = o, !.at = i, !.step = st]
      BY <1>11, <1>17
    <2> HIDE DEF o, i, st
    <2>2. /\ eval'[a].outputs = o /\ eval'[a].at = i /\ eval'[a].step = st
          /\ eval'[a].current = eval[a].current
      BY ONLY <1>12, <2>1 DEF Evals
    <2> QED
      BY <2>2 DEF o, i, st
  <1> QED
    BY <1>3, <1>7, <1>13, <1>14, <1>15, <1>16, <1>17

(* It leaves the other artifacts alone.                                    *)
LEMMA EvalOthers ==
  ASSUME EvalTypeOK, NEW a \in Artifact, EvalCommand(a), NEW b \in Artifact, b # a
  PROVE  /\ eval'[b] = eval[b] /\ report'[b] = report[b] /\ chosen'[b] = chosen[b]
         /\ content'[b] = content[b] /\ out'[b] = out[b] /\ inp'[b] = inp[b]
  <1> USE DEF EvalTypeOK
  <1>1. ASSUME NEW st, EvalGoto(a, st)
        PROVE  eval'[b] = eval[b]
    BY <1>1 DEF EvalGoto
  <1>2. CASE EvalRun(a) \/ EvalRaises(a) \/ EvalDies(a) \/ WriteReport(a)
    BY <1>2 DEF EvalRun, EvalRaises, EvalDies, WriteReport, pathVars
  <1>3. CASE Collect(a) \/ \E i \in Variant : Approve(a, i)
    BY <1>3 DEF Collect, Approve, pathVars
  <1>4. CASE Generate(a)
    BY <1>1, <1>4 DEF Generate
  <1>5. CASE EvalHold(a) \/ EvalHoldRows(a) \/ LiftHold(a)
    BY <1>1, <1>5 DEF EvalHold, EvalHoldRows, LiftHold, pathVars
  <1>6. CASE MarkApproved(a)
    BY <1>1, <1>6 DEF MarkApproved
  <1>7. CASE ResumeChain(a)
    BY <1>1, <1>7 DEF ResumeChain
  <1> QED
    BY <1>2, <1>3, <1>4, <1>5, <1>6, <1>7 DEF EvalCommand

(* The commands: where they are, and what they have at hand.               *)
LEMMA EvalCommandOutputs ==
  ASSUME EvalBase, EvalTypeOK', NEW a \in Artifact, EvalCommand(a)
  PROVE  EvalAt' /\ OutputsAreThere'
  <1> DEFINE At(b) == /\ eval[b].step \in {"generate", "collect"} => eval[b].at \in Variant
                      /\ eval[b].step \in {"lift", "mark", "advance"}
                           => eval[b].at \in DOMAIN report[b]
             There(b) == /\ eval[b].step = "collect" => Written(b, Variants[eval[b].at])
                         /\ \A i \in DOMAIN eval[b].outputs : Written(b, eval[b].outputs[i].path)
                         /\ \A i \in DOMAIN report[b] : Written(b, report[b][i].path)
  <1> SUFFICES ASSUME NEW b \in Artifact
               PROVE  At(b)' /\ There(b)'
    BY DEF EvalAt, OutputsAreThere
  <1> USE EvalAssumption DEF Evaluating
  <1>0. DOMAIN << >> = {}
    OBVIOUS
  <1>1. At(b) /\ There(b)
    BY DEF EvalBase, EvalAt, OutputsAreThere
  <1>2. \A c \in Artifact : \A p : Written(c, p) => p \in Path /\ content'[c][p] > 0
    BY EvalCommandRows DEF Grows, Written
  <1>3. EvalTypeOK
    BY DEF EvalBase
  <1>4. CASE b # a
    <2>1. eval'[b] = eval[b] /\ report'[b] = report[b]
      BY <1>3, <1>4, EvalOthers
    <2> QED
      BY <1>1, <1>2, <2>1 DEF Written
  <1>5. CASE b = a /\ \/ EvalRaises(a) \/ EvalDies(a) \/ EvalRun(a)
                      \/ \E i \in Variant : Approve(a, i)
    <2>1. /\ eval'[a].outputs = << >>
          /\ \/ eval'[a].step = "idle"
             \/ eval'[a].step = "generate" /\ eval'[a].at = 1
             \/ eval'[a].step = "lift" /\ eval'[a].at \in DOMAIN report[a]
      <3>1. ASSUME NEW i \in Variant, Approve(a, i)
            PROVE  i \in DOMAIN report[a] /\ i \in Nat
        BY <3>1 DEF Approve, Variant
      <3> QED
        BY <1>3, <1>5, <3>1, EvalMoves
    <2>2. UNCHANGED report
      BY <1>5 DEF EvalRaises, EvalDies, EvalRun, Approve
    <2>3. 1 \in Variant
      BY DEF Variant
    <2>4. At(b)'
      <3>1. eval'[b].step \in {"generate", "collect"} => eval'[b].at \in Variant
        BY <1>5, <2>1, <2>3
      <3>2. eval'[b].step \in {"lift", "mark", "advance"} => eval'[b].at \in DOMAIN report'[b]
        BY <1>5, <2>1, <2>2
      <3> QED
        BY <3>1, <3>2
    <2> QED
      BY <1>0, <1>1, <1>2, <1>5, <2>1, <2>2, <2>4 DEF Written
  <1>6. CASE b = a /\ WriteReport(a)
    <2>1. eval'[a].step = "idle" /\ eval'[a].outputs = << >> /\ report'[a] = eval[a].outputs
      <3>1. report' = [report EXCEPT ![a] = eval[a].outputs] /\ report \in [Artifact -> Seq(Output)]
        BY <1>3, <1>6 DEF WriteReport, EvalTypeOK
      <3> QED
        BY <1>3, <1>6, <3>1, EvalMoves
    <2> QED
      BY <1>0, <1>1, <1>2, <1>6, <2>1 DEF Written
  <1>7. CASE b = a /\ Generate(a)
    <2>1. /\ eval'[a].step = "collect" /\ eval'[a].at = eval[a].at
          /\ eval'[a].outputs = eval[a].outputs /\ UNCHANGED report
      BY <1>3, <1>7, EvalMoves DEF Generate
    <2>2. eval[a].at \in Variant /\ Variants[eval[a].at] \in Path
      BY <1>1, <1>7 DEF Generate, Variant
    <2>3. content'[a][Variants[eval[a].at]] > 0
      <3> DEFINE p == Variants[eval[a].at]
      <3>1. content' = [content EXCEPT ![a][p] = @ + 1]
        BY <1>7 DEF Generate
      <3>2. content \in [Artifact -> [Path -> Nat]] /\ p \in Path
        BY <1>3, <2>2 DEF EvalTypeOK
      <3> HIDE DEF p
      <3>3. content'[a][p] > 0
        BY ONLY <3>1, <3>2, a \in Artifact
      <3> QED
        BY <3>3 DEF p
    <2> QED
      BY <1>1, <1>2, <1>7, <2>1, <2>2, <2>3 DEF Written
  <1>8. CASE b = a /\ Collect(a)
    <2> DEFINE p == Variants[eval[a].at]
               o == OutputAt(a, p)
               n == eval[a].at + 1
               st == IF n \in Variant THEN "generate" ELSE "hold"
    <2>1. /\ eval'[a].outputs = Append(eval[a].outputs, o)
          /\ eval'[a].step = st /\ eval'[a].at = n
      BY <1>3, <1>8, EvalMoves
    <2>2. Written(a, p) /\ o.path = p
      BY <1>1, <1>8 DEF Collect, OutputAt
    <2>3. o \in Output /\ eval[a].outputs \in Seq(Output)
      <3>1. p \in Path
        BY <2>2 DEF Written
      <3> HIDE DEF p
      <3>2. content[a][p] \in Nat
        <4>1. content \in [Artifact -> [Path -> Nat]]
          BY <1>3 DEF EvalTypeOK
        <4> QED
          BY <3>1, <4>1
      <3>3. eval[a].outputs \in Seq(Output)
        BY <1>3 DEF EvalTypeOK
      <3> QED
        BY <3>1, <3>2, <3>3 DEF OutputAt, Output
    <2>4. UNCHANGED report
      BY <1>8 DEF Collect
    <2> HIDE DEF o, st, n
    <2>5. st \in {"generate", "hold"} /\ (st = "generate" => n \in Variant)
      BY DEF st
    <2>6. \A i \in DOMAIN eval'[a].outputs :
            \/ i \in DOMAIN eval[a].outputs /\ eval'[a].outputs[i] = eval[a].outputs[i]
            \/ eval'[a].outputs[i] = o
      BY <2>1, <2>3
    <2> QED
      BY <1>1, <1>2, <1>8, <2>1, <2>2, <2>4, <2>5, <2>6 DEF Written
  <1>9. CASE b = a /\ (EvalHold(a) \/ EvalHoldRows(a) \/ LiftHold(a) \/ MarkApproved(a)
                        \/ ResumeChain(a))
    <2>1. /\ eval'[a].outputs = eval[a].outputs /\ eval'[a].at = eval[a].at
          /\ UNCHANGED report
          /\ \/ eval'[a].step \in {"flip", "report", "idle"}
             \/ eval'[a].step \in {"mark", "advance"} /\ eval[a].step \in {"lift", "mark"}
      <3>2. CASE EvalHold(a) \/ EvalHoldRows(a) \/ ResumeChain(a)
        BY <1>3, <3>2, EvalMoves DEF EvalHold, EvalHoldRows, ResumeChain
      <3>3. CASE LiftHold(a) \/ MarkApproved(a)
        BY <1>3, <3>3, EvalMoves DEF LiftHold, MarkApproved
      <3> QED
        BY <1>9, <3>2, <3>3
    <2> QED
      BY <1>1, <1>2, <1>9, <2>1 DEF Written
  <1> QED
    BY <1>4, <1>5, <1>6, <1>7, <1>8, <1>9 DEF EvalCommand

LEMMA EvalCommandBase ==
  ASSUME EvalBase, NEW a \in Artifact, EvalCommand(a)
  PROVE  EvalBase'
  <1>1. EvalTypeOK'
    BY EvalCommandType
  <1>2. Control'
    BY EvalCommandRows DEF EvalBase, Control
  <1>3. RunnersHaveRows'
    BY EvalCommandRows, RowsStay DEF EvalBase, EvalTypeOK, TypeOK
  <1>4. EvalAt' /\ OutputsAreThere'
    BY <1>1, EvalCommandOutputs
  <1>5. ProducersWrote'
    <2> SUFFICES ASSUME NEW r \in Runner, Produces(r)', pc'[r] \in {"mark"} \cup After
                 PROVE  Written(task[r][1], DefaultPath)'
      BY DEF ProducersWrote
    <2>1. UNCHANGED <<pc, task>> /\ Grows
      BY EvalCommandRows
    <2>2. task[r][1] \in Artifact /\ Written(task[r][1], DefaultPath)
      BY <2>1, BusyFacts DEF EvalBase, EvalTypeOK, TypeInv, ProducersWrote, Produces
    <2> QED
      BY <2>1, <2>2, EvalAssumption DEF Written, Grows
  <1>6. PathsLead'
    <2> SUFFICES ASSUME NEW b \in Artifact
                 PROVE  /\ jobs'[EvalJob(b)].status = "done"
                             => out'[b] \in Path /\ content'[b][out'[b]] > 0
                        /\ HasNext(EvalJob(b)) /\ jobs'[NextJob(EvalJob(b))].status # "absent"
                             => inp'[b] \in Path /\ content'[b][inp'[b]] > 0
      BY DEF PathsLead, Exists, HasNext, NextJob, EvalJob
    <2>1. ASSUME Evaluating(a, "mark") \/ Evaluating(a, "advance")
          PROVE  Picked(a).path \in Path /\ content'[a][Picked(a).path] > 0
      <3>1. Written(a, Picked(a).path)
        BY <2>1 DEF EvalBase, EvalAt, OutputsAreThere, Evaluating, Picked
      <3> QED
        BY <3>1, EvalCommandRows DEF Written, Grows
    <2>2. \A p \in Path : content[b][p] > 0 => content'[b][p] > 0
      BY EvalCommandRows DEF Grows
    <2>3. jobs'[EvalJob(b)].status = "done" => out'[b] \in Path /\ content'[b][out'[b]] > 0
      BY <2>1, <2>2, EvalCommandRows DEF EvalBase, PathsLead
    <2>4. HasNext(EvalJob(b)) /\ jobs'[NextJob(EvalJob(b))].status # "absent"
             => inp'[b] \in Path /\ content'[b][inp'[b]] > 0
      BY <2>1, <2>2, EvalCommandRows DEF EvalBase, PathsLead
    <2> QED
      BY <2>3, <2>4
  <1> QED
    BY <1>1, <1>2, <1>3, <1>4, <1>5, <1>6 DEF EvalBase

LEMMA EvalStutter ==
  ASSUME EvalBase, UNCHANGED everything
  PROVE  EvalBase'
  BY DEF everything, evalVars, pathVars, vars, runVars, cmdVars, EvalBase, EvalTypeOK, TypeOK,
         Control, RunnersHaveRows, Exists, EvalAt, OutputsAreThere, Written, ProducersWrote,
         Produces, PathsLead

LEMMA EvalStart == EvalInit => EvalBase
  <1> SUFFICES ASSUME EvalInit  PROVE EvalBase
    OBVIOUS
  <1>1. Init
    BY DEF EvalInit
  <1>2. TypeInv
    BY <1>1, TypeInit
  <1>3. RunnersHaveRows
    BY <1>1, PersistInit DEF PersistInv
  <1>4. << >> \in Seq(Output) /\ DOMAIN << >> = {}
    OBVIOUS
  <1>5. eval \in [Artifact -> [step : EvalStep, at : Nat, outputs : Seq(Output),
                               current : BOOLEAN]]
    <2>1. \A o \in Seq(Output) :
            [step |-> "idle", at |-> 1, outputs |-> o, current |-> FALSE]
              \in [step : EvalStep, at : Nat, outputs : Seq(Output), current : BOOLEAN]
      BY DEF EvalStep
    <2> QED
      BY <1>4, <2>1 DEF EvalInit, NoEval
  <1>6. report \in [Artifact -> Seq(Output)] /\ \A a \in Artifact : report[a] = << >>
    BY <1>4 DEF EvalInit
  <1>7. \A a \in Artifact : eval[a].step = "idle" /\ eval[a].outputs = << >>
    BY DEF EvalInit, NoEval
  <1>8. EvalTypeOK
    BY <1>2, <1>5, <1>6 DEF EvalTypeOK, TypeInv, EvalInit
  <1>9. EvalAt /\ OutputsAreThere
    BY <1>4, <1>6, <1>7 DEF EvalAt, OutputsAreThere
  <1>10. ProducersWrote
    BY <1>1 DEF Init, RunInit, ProducersWrote, Produces
  <1>11. PathsLead
    BY <1>1, EvalStageIsStage, NextJobIsJob DEF Init, Absent, PathsLead, Exists
  <1> QED
    BY <1>2, <1>3, <1>8, <1>9, <1>10, <1>11 DEF EvalBase, TypeInv

LEMMA EvalInvariant == EvalSpec => []EvalBase
  <1>1. EvalBase /\ [EvalNext]_everything => EvalBase'
    BY RunBase, ElsewhereBase, EvalCommandBase, EvalStutter DEF EvalNext
  <1> QED
    BY <1>1, EvalStart, PTL DEF EvalSpec

(* Eval-compare's own state keeps its types next to everything the workers *)
(* and commands do: in particular the manifest a report left names outputs *)
(* only, and a command is at one of its variants.                          *)
THEOREM EvalTypeCorrect == EvalSpec => []EvalTypeOK
  <1>1. EvalBase => EvalTypeOK
    BY DEF EvalBase
  <1> QED
    BY <1>1, EvalInvariant, PTL

(* Whichever way the evaluated stage came to be done, by its handler or by *)
(* an approval, and whatever died, the output its row names has been       *)
(* written, and so has the input of the row after it.                      *)
THEOREM PathsAreThere == EvalSpec => []PathsLead
  <1>1. EvalBase => PathsLead
    BY DEF EvalBase
  <1> QED
    BY <1>1, EvalInvariant, PTL
-----------------------------------------------------------------------------
(* An eval command has its artifact to itself, when the operator is        *)
(* careful; so whatever holds of the queue goes on to hold.                *)

(* The artifact is under an eval command, or its report is to be approved. *)
Engaged(a) == eval[a].step # "idle" \/ eval[a].current

AloneAt(a) ==
  Engaged(a) =>
    /\ \A r \in Runner : ~Busy(r, a)
    /\ \A f \in flips : f[2] # a
    /\ \A k \in Job : k[1] = a /\ k # EvalJob(a) => ~Unfinished(k)
    /\ eval[a].step \in {"generate", "collect", "hold", "flip"}
         => jobs[EvalJob(a)].status \in {"ready", "held"} /\ Paused(EvalJob(a))
    /\ eval[a].step \in {"report", "idle", "lift", "mark"} => jobs[EvalJob(a)].status = "held"
    /\ eval[a].step = "advance" => jobs[EvalJob(a)].status = "done" /\ HasNext(EvalJob(a))
    /\ eval[a].current => eval[a].step = "idle"

EvalAlone == \A a \in Artifact : AloneAt(a)

LEMMA AloneStays ==
  ASSUME NEW a \in Artifact, AloneAt(a), Engaged(a), eval'[a].step = eval[a].step,
         eval'[a].current => eval[a].current,
         \A k \in Job : k[1] = a => jobs'[k] = jobs[k],
         \A r \in Runner : \/ task'[r] \in {task[r], NoJob}
                           \/ task'[r][1] # a,
         \A f \in flips' : f \in flips \/ f[2] # a,
         eval[a].step \in {"generate", "collect", "hold", "flip"} /\ Paused(EvalJob(a))
           => Paused(EvalJob(a))'
  PROVE  AloneAt(a)'
  <1>1. \A r \in Runner : ~Busy(r, a)'
    BY DEF AloneAt, Busy
  <1>2. jobs'[EvalJob(a)] = jobs[EvalJob(a)] /\ HasNext(EvalJob(a))' = HasNext(EvalJob(a))
    BY EvalStageIsStage DEF HasNext, EvalJob
  <1>3. \A k \in Job : k[1] = a /\ k # EvalJob(a) => ~Unfinished(k)'
    BY DEF AloneAt, Unfinished
  <1>4. \A f \in flips' : f[2] # a
    BY DEF AloneAt
  <1> QED
    BY <1>1, <1>2, <1>3, <1>4 DEF AloneAt, Engaged, EvalJob

(* The most specific of the four rows that may match a job.                *)
LEMMA LeastOfFour ==
  ASSUME NEW H, H \subseteq 1..4, H # {}
  PROVE  \E i \in H : \A j \in H : i <= j
  <1>1. CASE 1 \in H
    BY <1>1
  <1>2. CASE 1 \notin H /\ 2 \in H
    <2>1. \A j \in H : 2 <= j
      BY <1>2
    <2> QED
      BY <1>2, <2>1
  <1>3. CASE 1 \notin H /\ 2 \notin H /\ 3 \in H
    <2>1. \A j \in H : 3 <= j
      BY <1>3
    <2> QED
      BY <1>3, <2>1
  <1>4. CASE 1 \notin H /\ 2 \notin H /\ 3 \notin H
    <2>1. \A j \in H : 4 <= j
      BY <1>4
    <2>2. PICK h \in H : TRUE
      OBVIOUS
    <2>3. h = 4
      BY <1>4
    <2> QED
      BY <2>1, <2>2, <2>3
  <1> QED
    BY <1>1, <1>2, <1>3, <1>4

(* The controls of one artifact say nothing of another.                    *)
LEMMA OthersPaused ==
  ASSUME NEW a \in Artifact, NEW b \in Artifact, b # a,
         \A key \in ControlKey : key # <<"artifact", a>> => ctl'[key] = ctl[key],
         Paused(EvalJob(b))
  PROVE  Paused(EvalJob(b))'
  <1> DEFINE keys == Lookups(EvalStage, SourceOf[b], b)
             hits(c) == {i \in DOMAIN keys : c[keys[i]] # NoRow}
             least(H) == CHOOSE i \in H : \A j \in H : i <= j
  <1>1. SourceOf[b] \in SourceType /\ EvalStage \in Stage
    BY JobTableAssumption, EvalAssumption
  <1>2. \A i \in DOMAIN keys : keys[i] \in ControlKey /\ keys[i] # <<"artifact", a>>
    BY <1>1 DEF Lookups, ControlKey, LimitScope, GlobalKey
  <1>3. \A i \in DOMAIN keys : ctl'[keys[i]] = ctl[keys[i]]
    BY <1>2
  <1>4. \A c : effective_state(c, EvalStage, SourceOf[b], b)
                 = IF hits(c) = {} THEN "running" ELSE c[keys[least(hits(c))]].state
    BY DEF effective_state
  <1>5. hits(ctl) \subseteq 1..4
    BY DEF Lookups
  <1> HIDE DEF keys
  <1>6. hits(ctl') = hits(ctl) /\ hits(ctl) \subseteq DOMAIN keys
    BY <1>3
  <1> HIDE DEF hits
  <1>7. hits(ctl) # {} => least(hits(ctl)) \in hits(ctl)
    BY <1>5, LeastOfFour
  <1> HIDE DEF least
  <1>8. least(hits(ctl')) = least(hits(ctl))
    BY <1>6
  <1>9. hits(ctl) # {} => ctl'[keys[least(hits(ctl))]] = ctl[keys[least(hits(ctl))]]
    BY <1>3, <1>6, <1>7
  <1> QED
    BY <1>4, <1>6, <1>8, <1>9 DEF Paused, EvalJob

(* The run of a stage touches its own artifact alone.                      *)
LEMMA RunTouches ==
  ASSUME TypeInv, NEW r \in Worker \cup Cli, RunWithPaths(r)
  PROVE  /\ task[r] # NoJob /\ task[r] \in Job
         /\ \A k \in Job : k[1] # task[r][1] => jobs'[k] = jobs[k]
         /\ UNCHANGED <<ctl, flips, eval, report>>
  <1>1. pc[r] \in {"start", "handle", "mark", "advance", "insert"}
    BY RunCases
       DEF ReadInput, WriteOutput, Start, Persist, ReadFrozen, MarkDone, MarkLast, InsertNext
  <1>2. task[r] # NoJob /\ task[r] \in Job
    BY <1>1 DEF TypeInv, TypeOK, Control, AtWork, Before, After, Runner
  <1>3. UNCHANGED <<ctl, flips, eval, report>>
    BY RunCases
       DEF ReadInput, WriteOutput, Start, Persist, ReadFrozen, MarkDone, MarkLast, InsertNext
  <1>4. CASE UNCHANGED jobs
    BY <1>2, <1>3, <1>4
  <1>5. CASE mark_done(task[r])
    BY <1>2, <1>3, <1>5 DEF mark_done
  <1>6. ASSUME NEW st, insert_job(NextJob(task[r]), st, TRUE)
        PROVE  \A k \in Job : k[1] # task[r][1] => jobs'[k] = jobs[k]
    <2>1. \A k \in Job : k # NextJob(task[r]) => jobs'[k] = jobs[k]
      BY <1>6 DEF insert_job, TypeInv, TypeOK
    <2> QED
      BY <2>1 DEF NextJob
  <1> QED
    BY <1>2, <1>3, <1>4, <1>5, <1>6, RunCases
       DEF ReadInput, WriteOutput, Start, Persist, ReadFrozen, MarkDone, MarkLast, InsertNext

LEMMA RunAlone ==
  ASSUME EvalBase, EvalAlone, NEW r \in Worker \cup Cli, RunWithPaths(r)
  PROVE  EvalAlone'
  <1> SUFFICES ASSUME NEW a \in Artifact  PROVE AloneAt(a)'
    BY DEF EvalAlone
  <1>1. TypeInv /\ AloneAt(a)
    BY DEF EvalBase, EvalTypeOK, TypeInv, EvalAlone
  <1>2. CASE ~Engaged(a)
    <2>1. ~Engaged(a)'
      BY <1>1, <1>2, RunTouches DEF Engaged
    <2> QED
      BY <2>1 DEF AloneAt
  <1>3. CASE Engaged(a)
    <2>1. task[r][1] # a /\ UNCHANGED <<ctl, flips, eval>>
      BY <1>1, <1>3, RunTouches DEF AloneAt, Busy, Runner
    <2>2. \A q \in Runner : task'[q] \in {task[q], NoJob}
      BY <1>1, RunRunners
    <2>3. Paused(EvalJob(a)) => Paused(EvalJob(a))'
      BY <2>1 DEF Paused, EvalJob
    <2>4. \A k \in Job : k[1] = a => jobs'[k] = jobs[k]
      BY <1>1, <2>1, RunTouches
    <2> QED
      BY <1>1, <1>3, <2>1, <2>2, <2>3, <2>4, AloneStays
  <1> QED
    BY <1>2, <1>3

(* A worker that claims does not find the evaluated artifact: its only row *)
(* in the queue is paused.                                                 *)
LEMMA ElsewhereAlone ==
  ASSUME EvalBase, EvalAlone, Careful, Elsewhere
  PROVE  EvalAlone'
  <1> SUFFICES ASSUME NEW a \in Artifact  PROVE AloneAt(a)'
    BY DEF EvalAlone
  <1>1. TypeInv /\ AloneAt(a)
    BY DEF EvalBase, EvalTypeOK, TypeInv, EvalAlone
  <1>2. /\ eval'[a].step = eval[a].step
        /\ eval'[a].current => eval[a].current
    BY ElsewherePaths
  <1>3. CASE ~Engaged(a)
    <2>1. ~Engaged(a)'
      BY <1>2, <1>3 DEF Engaged
    <2> QED
      BY <2>1 DEF AloneAt
  <1>4. CASE Engaged(a) /\ OtherCommand
    <2>1. CASE Touches(a)
      <3>1. eval[a].step = "idle"
        BY <1>4, <2>1 DEF OtherCommand, LeftAlone, Evaluating
      <3>2. ~eval'[a].current
        <4>1. eval'[a] = [eval[a] EXCEPT !.current = eval[a].current /\ ~Touches(a)]
          BY <1>4 DEF OtherCommand
        <4>2. eval[a] \in [step : EvalStep, at : Nat, outputs : Seq(Output), current : BOOLEAN]
          BY DEF EvalBase, EvalTypeOK
        <4> DEFINE t == eval[a].current /\ ~Touches(a)
        <4>3. ~t
          BY <2>1
        <4> HIDE DEF t
        <4>4. eval'[a] = [eval[a] EXCEPT !.current = t]
          BY <4>1 DEF t
        <4> QED
          BY <4>2, <4>3, <4>4
      <3>3. ~Engaged(a)'
        BY <1>2, <3>1, <3>2 DEF Engaged
      <3> QED
        BY <3>3 DEF AloneAt
    <2>2. CASE ~Touches(a)
      <3>1. \A k \in Job : k[1] = a => jobs'[k] = jobs[k]
        BY <2>2 DEF Touches
      <3>2. \A r \in Runner : task'[r] = task[r] \/ task'[r][1] # a
        BY <2>2 DEF Touches
      <3>3. \A f \in flips' : f \in flips \/ f[2] # a
        BY <2>2 DEF Touches
      <3>4. eval[a].step \in {"generate", "collect", "hold", "flip"} /\ Paused(EvalJob(a))
               => Paused(EvalJob(a))'
        BY <1>4 DEF OtherCommand, LeftAlone, Evaluating
      <3> QED
        BY <1>1, <1>2, <1>4, <3>1, <3>2, <3>3, <3>4, AloneStays
    <2> QED
      BY <2>1, <2>2
  <1>5. ASSUME Engaged(a), NEW w \in Worker, Claim(w)
        PROVE  AloneAt(a)'
    <2>1. PICK k \in Job : /\ jobs[k].status = "ready" /\ ~Paused(k)
                           /\ ClaimRow(k) /\ Take(w, k)
      BY <1>5 DEF Claim, RunnableBy, Runnable, Window, Candidates
    <2>2. k[1] # a
      <3>1. ASSUME k[1] = a
            PROVE  FALSE
        <4>1. k = EvalJob(a)
          BY <1>1, <1>5, <2>1, <3>1 DEF AloneAt, Unfinished
        <4>2. eval[a].step \in EvalStep
          BY DEF EvalBase, EvalTypeOK
        <4> QED
          BY <1>1, <1>5, <2>1, <4>1, <4>2 DEF AloneAt, EvalStep
      <3> QED
        BY <3>1
    <2>3. UNCHANGED <<ctl, flips>>
      BY <1>5 DEF Claim, cmdVars
    <2>4. Paused(EvalJob(a)) => Paused(EvalJob(a))'
      BY <2>3 DEF Paused, EvalJob
    <2>5. \A r \in Runner : task'[r] = task[r] \/ task'[r][1] # a
      BY <1>1, <2>1, <2>2 DEF Take, TypeInv, TypeOK, Runner
    <2>6. \A j \in Job : j[1] = a => jobs'[j] = jobs[j]
      BY <2>1, <2>2 DEF ClaimRow
    <2> QED
      BY <1>1, <1>2, <1>5, <2>3, <2>4, <2>5, <2>6, AloneStays
  <1>6. ASSUME Engaged(a), NEW w \in Worker, RecordFailure(w)
        PROVE  AloneAt(a)'
    <2>1. task[w] # NoJob /\ task[w][1] # a
      BY <1>1, <1>6 DEF RecordFailure, TypeInv, Control, AtWork, Failing, Runner, AloneAt, Busy
    <2>2. UNCHANGED <<ctl, flips>>
      BY <1>6 DEF RecordFailure, cmdVars
    <2>3. Paused(EvalJob(a)) => Paused(EvalJob(a))'
      BY <2>2 DEF Paused, EvalJob
    <2>4. \A r \in Runner : task'[r] \in {task[r], NoJob}
      BY <1>1, <1>6 DEF RecordFailure, Drop, DropTo, TypeInv, TypeOK, Runner
    <2>5. \A j \in Job : j[1] = a => jobs'[j] = jobs[j]
      BY <1>6, <2>1 DEF RecordFailure, WriteAttempt
    <2> QED
      BY <1>1, <1>2, <1>6, <2>2, <2>3, <2>4, <2>5, AloneStays
  <1>7. ASSUME Engaged(a),
               \/ \E w \in Worker : ReadLimits(w) \/ ClaimNothing(w) \/ WorkerRaises(w)
                                      \/ ReadAttempts(w)
               \/ \E c \in Cli : StepRaises(c)
               \/ \E r \in Worker \cup Cli : Crash(r)
        PROVE  AloneAt(a)'
    <2>1. UNCHANGED <<jobs, ctl, flips>>
      BY <1>7 DEF ReadLimits, ClaimNothing, WorkerRaises, ReadAttempts, StepRaises, Crash, cmdVars
    <2>2. Paused(EvalJob(a)) => Paused(EvalJob(a))'
      BY <2>1 DEF Paused, EvalJob
    <2>3. \A r \in Runner : task'[r] \in {task[r], NoJob}
      BY <1>1, <1>7 DEF ReadLimits, ClaimNothing, WorkerRaises, ReadAttempts, StepRaises, Crash,
                        Drop, DropTo, TypeInv, TypeOK, Runner
    <2> QED
      BY <1>1, <1>2, <1>7, <2>1, <2>2, <2>3, AloneStays
  <1> QED
    BY <1>3, <1>4, <1>5, <1>6, <1>7 DEF Elsewhere

LEMMA EvalCommandControls ==
  ASSUME EvalBase, NEW a \in Artifact, EvalCommand(a)
  PROVE  \A key \in ControlKey : key # <<"artifact", a>> => ctl'[key] = ctl[key]
  <1>1. ctl \in ControlTable
    BY DEF EvalBase, EvalTypeOK, TypeOK
  <1>2. CASE UNCHANGED ctl
    BY <1>2
  <1>3. CASE EvalHold(a) \/ LiftHold(a)
    BY <1>1, <1>3 DEF EvalHold, LiftHold, ControlTable
  <1> QED
    BY <1>2, <1>3
       DEF EvalCommand, EvalRun, Generate, Collect, EvalHoldRows, WriteReport, EvalRaises, Approve,
           MarkApproved, ResumeChain, EvalDies, vars

(* hold_artifact pauses the artifact.                                      *)
LEMMA HeldIsPaused ==
  ASSUME EvalBase, NEW a \in Artifact, EvalHold(a)
  PROVE  Paused(EvalJob(a))'
  <1> DEFINE keys == Lookups(EvalStage, SourceOf[a], a)
             hits == {i \in DOMAIN keys : ctl'[keys[i]] # NoRow}
  <1>1. ctl \in ControlTable /\ <<"artifact", a>> \in ControlKey
    BY DEF EvalBase, EvalTypeOK, TypeOK, ControlKey
  <1>2. ctl'[<<"artifact", a>>] = MergedRow(ctl, <<"artifact", a>>, "paused", NULL)
    BY <1>1 DEF EvalHold, ControlTable
  <1>3. ctl'[<<"artifact", a>>].state = "paused" /\ ctl'[<<"artifact", a>>] # NoRow
    <2>1. ctl'[<<"artifact", a>>].state = "paused"
      BY <1>2 DEF MergedRow
    <2> QED
      BY <2>1 DEF NoRow
  <1>4. DOMAIN keys = 1..4 /\ keys[1] = <<"artifact", a>>
    BY DEF Lookups
  <1>5. 1 \in hits /\ \A i \in hits : 1 <= i
    BY <1>3, <1>4
  <1>6. (CHOOSE i \in hits : \A j \in hits : i <= j) = 1
    <2>1. \A i \in hits : (\A j \in hits : i <= j) => i = 1
      BY <1>4, <1>5
    <2> QED
      BY <1>5, <2>1
  <1>7. effective_state(ctl', EvalStage, SourceOf[a], a) = "paused"
    BY <1>3, <1>4, <1>5, <1>6 DEF effective_state
  <1> QED
    BY <1>7 DEF Paused, EvalJob

LEMMA CommandAlone ==
  ASSUME EvalBase, EvalAlone, Careful, NEW a \in Artifact, EvalCommand(a)
  PROVE  EvalAlone'
  <1>1. TypeInv /\ EvalTypeOK /\ AloneAt(a)
    BY DEF EvalBase, EvalTypeOK, TypeInv, EvalAlone
  <1>2. ASSUME NEW b \in Artifact \ {a}
        PROVE  AloneAt(b)'
    <2>1. eval'[b] = eval[b] /\ AloneAt(b)
      BY <1>1, <1>2, EvalOthers DEF EvalAlone
    <2>2. CASE ~Engaged(b)
      <3>1. ~Engaged(b)'
        BY <2>1, <2>2 DEF Engaged
      <3> QED
        BY <3>1 DEF AloneAt
    <2>3. CASE Engaged(b)
      <3>1. UNCHANGED <<task, flips>> /\ \A k \in Job : k[1] = b => jobs'[k] = jobs[k]
        BY EvalCommandRows
      <3>2. Paused(EvalJob(b)) => Paused(EvalJob(b))'
        BY EvalCommandControls, OthersPaused
      <3> QED
        BY <2>1, <2>3, <3>1, <3>2, AloneStays
    <2> QED
      BY <2>2, <2>3
  <1>3. AloneAt(a)'
    <2> SUFFICES ASSUME Engaged(a)'
                 PROVE  /\ \A r \in Runner : ~Busy(r, a)
                        /\ \A f \in flips : f[2] # a
                        /\ \A k \in Job : k[1] = a /\ k # EvalJob(a) => ~Unfinished(k)'
                        /\ eval'[a].step \in {"generate", "collect", "hold", "flip"}
                             => /\ jobs'[EvalJob(a)].status \in {"ready", "held"}
                                /\ Paused(EvalJob(a))'
                        /\ eval'[a].step \in {"report", "idle", "lift", "mark"}
                             => jobs'[EvalJob(a)].status = "held"
                        /\ eval'[a].step = "advance"
                             => jobs'[EvalJob(a)].status = "done" /\ HasNext(EvalJob(a))
                        /\ eval'[a].current => eval'[a].step = "idle"
      <3>1. UNCHANGED <<task, flips>>
        BY EvalCommandRows
      <3>2. \A r \in Runner : ~Busy(r, a) => ~Busy(r, a)'
        BY <3>1 DEF Busy
      <3> QED
        BY <3>1, <3>2 DEF AloneAt, Unfinished, EvalJob, HasNext
    <2> DEFINE Rest == /\ \A r \in Runner : ~Busy(r, a)
                       /\ \A f \in flips : f[2] # a
                       /\ \A k \in Job : k[1] = a /\ k # EvalJob(a) => ~Unfinished(k)'
    <2>1. ASSUME Engaged(a), UNCHANGED jobs
          PROVE  Rest
      BY <1>1, <2>1 DEF AloneAt, Unfinished
    <2>2. CASE EvalRun(a)
      <3>1. Secured(EvalJob(a)) /\ UNCHANGED <<jobs, ctl>>
        BY <2>2 DEF EvalRun
      <3>2. Rest
        BY <3>1 DEF Secured, Quiet, Unfinished, EvalJob
      <3>3. eval'[a].step = "generate" /\ ~eval'[a].current
        BY <1>1, <2>2, EvalMoves
      <3>4. Paused(EvalJob(a))'
        BY <3>1 DEF Secured, Paused, EvalJob
      <3> QED
        BY <3>1, <3>2, <3>3, <3>4 DEF Secured
    <2>3. CASE Generate(a) \/ Collect(a)
      <3>1. UNCHANGED <<jobs, ctl>> /\ eval[a].step \in {"generate", "collect"}
        BY <2>3 DEF Generate, Collect, Evaluating, vars
      <3>2. /\ eval'[a].step \in {"generate", "collect", "hold"}
            /\ eval'[a].current = eval[a].current
        <4>1. CASE Generate(a)
          BY <1>1, <4>1, EvalMoves DEF Generate
        <4>2. CASE Collect(a)
          BY <1>1, <4>2, EvalMoves
        <4> QED
          BY <2>3, <4>1, <4>2
      <3>3. Engaged(a)
        BY <3>1 DEF Engaged
      <3>4. Paused(EvalJob(a)) => Paused(EvalJob(a))'
        BY <3>1 DEF Paused, EvalJob
      <3> QED
        BY <1>1, <2>1, <3>1, <3>2, <3>3, <3>4 DEF AloneAt
    <2>4. CASE EvalHold(a)
      <3>1. UNCHANGED jobs /\ eval[a].step = "hold"
        BY <2>4 DEF EvalHold, Evaluating
      <3>2. eval'[a].step = "flip" /\ eval'[a].current = eval[a].current
        BY <1>1, <2>4, EvalMoves DEF EvalHold
      <3>3. Engaged(a)
        BY <3>1 DEF Engaged
      <3> QED
        BY <1>1, <2>1, <2>4, <3>1, <3>2, <3>3, HeldIsPaused DEF AloneAt
    <2>5. CASE EvalHoldRows(a)
      <3>1. eval[a].step = "flip" /\ MoveRows(a, {"ready"}, "held")
        BY <2>5 DEF EvalHoldRows, Evaluating
      <3>2. eval'[a].step = "report" /\ eval'[a].current = eval[a].current
        BY <1>1, <2>5, EvalMoves DEF EvalHoldRows
      <3>3. Engaged(a)
        BY <3>1 DEF Engaged
      <3>4. jobs'[EvalJob(a)].status = "held"
        BY <1>1, <3>1, <3>3, EvalStageIsStage DEF AloneAt, MoveRows, TypeInv, TypeOK, Row
      <3>5. \A k \in Job : k[1] = a /\ k # EvalJob(a) => jobs'[k] = jobs[k]
        BY <1>1, <3>1, <3>3 DEF AloneAt, MoveRows, Unfinished
      <3>6. Rest
        BY <1>1, <3>3, <3>5 DEF AloneAt, Unfinished
      <3> QED
        BY <1>1, <3>1, <3>2, <3>3, <3>4, <3>6 DEF AloneAt
    <2>6. CASE WriteReport(a)
      <3>1. UNCHANGED jobs /\ eval[a].step = "report"
        BY <2>6 DEF WriteReport, Evaluating, vars
      <3>2. eval'[a].step = "idle"
        BY <1>1, <2>6, EvalMoves
      <3>3. Engaged(a)
        BY <3>1 DEF Engaged
      <3> QED
        BY <1>1, <2>1, <3>1, <3>2, <3>3 DEF AloneAt
    <2>7. CASE EvalRaises(a) \/ EvalDies(a)
      <3>1. eval'[a].step = "idle" /\ ~eval'[a].current
        BY <1>1, <2>7, EvalMoves
      <3> QED
        BY <3>1 DEF Engaged
    <2>8. ASSUME NEW i \in Variant, Approve(a, i)
          PROVE  /\ Rest /\ eval'[a].step = "lift" /\ ~eval'[a].current
                 /\ jobs'[EvalJob(a)].status = "held"
      <3>1. UNCHANGED jobs /\ eval[a].step = "idle" /\ eval[a].current
        BY <2>8 DEF Approve, Evaluating
      <3>2. eval'[a].step = "lift" /\ ~eval'[a].current
        <4>1. i \in Nat
          BY EvalAssumption DEF Variant
        <4> QED
          BY <1>1, <2>8, <4>1, EvalMoves
      <3>3. Engaged(a)
        BY <3>1 DEF Engaged
      <3> QED
        BY <1>1, <2>1, <3>1, <3>2, <3>3 DEF AloneAt
    <2>9. CASE LiftHold(a)
      <3>1. UNCHANGED jobs /\ eval[a].step = "lift"
        BY <2>9 DEF LiftHold, Evaluating
      <3>2. eval'[a].step = "mark" /\ eval'[a].current = eval[a].current
        BY <1>1, <2>9, EvalMoves DEF LiftHold
      <3>3. Engaged(a)
        BY <3>1 DEF Engaged
      <3> QED
        BY <1>1, <2>1, <3>1, <3>2, <3>3 DEF AloneAt
    <2>10. CASE MarkApproved(a)
      <3>1. eval[a].step = "mark" /\ mark_done(EvalJob(a))
        BY <2>10 DEF MarkApproved, Evaluating
      <3>2. /\ eval'[a].current = eval[a].current
            /\ eval'[a].step = IF HasNext(EvalJob(a)) THEN "advance" ELSE "idle"
        BY <1>1, <2>10, EvalMoves DEF MarkApproved
      <3>3. Engaged(a)
        BY <3>1 DEF Engaged
      <3>4. ~eval'[a].current
        BY <1>1, <3>1, <3>2, <3>3 DEF AloneAt
      <3>5. eval'[a].step = "advance" /\ HasNext(EvalJob(a))
        BY <3>2, <3>4 DEF Engaged
      <3>6. /\ \A k \in Job : k # EvalJob(a) => jobs'[k] = jobs[k]
            /\ jobs'[EvalJob(a)].status = "done"
        BY <1>1, <3>1, EvalStageIsStage DEF mark_done, TypeInv, TypeOK, Row
      <3>7. Rest
        BY <1>1, <3>3, <3>6 DEF AloneAt, Unfinished
      <3> QED
        BY <3>4, <3>5, <3>6, <3>7
    <2>11. CASE ResumeChain(a)
      <3>1. eval[a].step = "advance"
        BY <2>11 DEF ResumeChain, Evaluating
      <3>2. eval'[a].step = "idle" /\ eval'[a].current = eval[a].current
        BY <1>1, <2>11, EvalMoves DEF ResumeChain
      <3>3. Engaged(a)
        BY <3>1 DEF Engaged
      <3> QED
        BY <1>1, <3>1, <3>2, <3>3 DEF AloneAt, Engaged
    <2> QED
      BY <2>2, <2>3, <2>4, <2>5, <2>6, <2>7, <2>8, <2>9, <2>10, <2>11 DEF EvalCommand
  <1> QED
    BY <1>2, <1>3 DEF EvalAlone

(* The two commands keep one runner to an artifact and one stage open.     *)
LEMMA EvalCommandExcludes ==
  ASSUME EvalBase, EvalAlone, ExclusionInv, NEW a \in Artifact, EvalCommand(a)
  PROVE  ExclusionInv'
  <1>1. TypeInv /\ AloneAt(a) /\ ArtifactInv(a)
    BY DEF EvalBase, EvalTypeOK, TypeInv, EvalAlone, ExclusionInv
  <1>2. UNCHANGED <<pc, task, flips>>
    BY EvalCommandRows
  <1>3. CASE UNCHANGED jobs
    BY <1>1, <1>2, <1>3, StandStill
  <1>4. CASE EvalHoldRows(a)
    BY <1>1, <1>2, <1>4, MoveKeeps DEF EvalHoldRows
  <1>5. CASE MarkApproved(a)
    <2> DEFINE k == EvalJob(a)
    <2>1. k \in Job /\ k[1] = a
      BY EvalStageIsStage
    <2>2. Engaged(a) /\ eval[a].step = "mark"
      BY <1>5 DEF MarkApproved, Evaluating, Engaged
    <2>3. Quiet(k) /\ Exists(k)
      BY <1>1, <2>1, <2>2 DEF AloneAt, Quiet, Exists
    <2>4. /\ \A j \in Job : j # k => jobs'[j] = jobs[j]
          /\ jobs'[k].status # "absent"
      BY <1>1, <1>5, <2>1 DEF MarkApproved, mark_done, TypeInv, TypeOK, Row
    <2>5. Exists(FirstJob(k[1]))
      BY <1>1, <2>1, <2>3 DEF ArtifactInv, FirstThere
    <2> HIDE DEF k
    <2> QED
      BY <1>1, <1>2, <2>1, <2>3, <2>4, <2>5, QuietKeeps
  <1>6. CASE ResumeChain(a)
    <2> DEFINE n == NextJob(EvalJob(a))
    <2>1. Engaged(a) /\ eval[a].step = "advance"
      BY <1>6 DEF ResumeChain, Evaluating, Engaged
    <2>2. jobs[EvalJob(a)].status = "done" /\ HasNext(EvalJob(a))
      BY <1>1, <2>1 DEF AloneAt
    <2>3. n \in Job /\ n[1] = a
      BY <2>2, NextJobIsJob, EvalStageIsStage DEF NextJob, EvalJob
    <2>4. insert_job(n, "ready", TRUE)
      BY <1>6 DEF ResumeChain
    <2>5. Exists(FirstJob(a))
      BY <1>1, <2>2, EvalStageIsStage DEF ArtifactInv, FirstThere, Exists
    <2> HIDE DEF n
    <2>6. Quiet(n)
      BY <1>1, <2>1, <2>2, <2>3 DEF AloneAt, Quiet, Unfinished
    <2>7. /\ \A j \in Job : j # n => jobs'[j] = jobs[j]
          /\ jobs'[n].status # "absent"
      BY <1>1, <2>3, <2>4, InsertRow
    <2> QED
      BY <1>1, <1>2, <2>3, <2>5, <2>6, <2>7, QuietKeeps
  <1> QED
    BY <1>3, <1>4, <1>5, <1>6
       DEF EvalCommand, EvalRun, Generate, Collect, EvalHold, WriteReport, EvalRaises, Approve,
           LiftHold, EvalDies, vars

EvalInv == EvalBase /\ EvalAlone /\ ExclusionInv

LEMMA EvalInvStep ==
  ASSUME EvalInv, Careful, [EvalNext]_everything
  PROVE  EvalInv'
  <1> USE DEF EvalInv
  <1>0. TypeInv
    BY DEF EvalBase, EvalTypeOK, TypeInv
  <1>1. ASSUME NEW r \in Worker \cup Cli, RunWithPaths(r)
        PROVE  EvalInv'
    BY <1>0, <1>1, RunBase, RunAlone, RunIsNext, StepExcludes
  <1>2. CASE Elsewhere
    BY <1>0, <1>2, ElsewhereBase, ElsewhereAlone, ElsewhereIsNext, StepExcludes
  <1>3. ASSUME NEW a \in Artifact, EvalCommand(a)
        PROVE  EvalInv'
    BY <1>3, EvalCommandBase, CommandAlone, EvalCommandExcludes
  <1>4. CASE UNCHANGED everything
    <2>1. UNCHANGED <<jobs, ctl, pc, task, flips, eval>>
      BY <1>4 DEF everything, evalVars, vars, runVars, cmdVars
    <2>2. ExclusionInv'
      BY <1>0, <2>1, StandStill
    <2>3. EvalAlone'
      BY <2>1 DEF EvalAlone, AloneAt, Engaged, Busy, Unfinished, Paused
    <2> QED
      BY <1>4, <2>2, <2>3, EvalStutter
  <1> QED
    BY <1>1, <1>2, <1>3, <1>4 DEF EvalNext

LEMMA EvalInvInit == EvalInit => EvalInv
  <1>1. EvalInit => EvalAlone
    BY DEF EvalInit, NoEval, EvalAlone, AloneAt, Engaged
  <1> QED
    BY <1>1, EvalStart, ExclusionInit DEF EvalInv, EvalInit

LEMMA EvalExclusion ==
  ASSUME Careful
  PROVE  EvalSpec => []EvalInv
  <1>1. EvalInv /\ [EvalNext]_everything => EvalInv'
    BY EvalInvStep
  <1> QED
    BY <1>1, EvalInvInit, PTL DEF EvalSpec

LEMMA EvalCommandSteps ==
  ASSUME EvalInv, TypeOK', NEW a \in Artifact, EvalCommand(a)
  PROVE  Chain!Next \/ UNCHANGED PhaseBar
  <1>1. TypeInv /\ TypeOK /\ AloneAt(a) /\ ExclusionInv
    BY DEF EvalInv, EvalBase, EvalTypeOK, TypeInv, EvalAlone
  <1>2. CASE UNCHANGED jobs
    BY <1>2 DEF PhaseBar
  <1>3. CASE EvalHoldRows(a)
    BY <1>1, <1>3, MoveSteps DEF EvalHoldRows
  <1>4. CASE MarkApproved(a)
    <2> DEFINE k == EvalJob(a)
    <2>1. k \in Job
      BY EvalStageIsStage
    <2>2. Engaged(a) /\ eval[a].step = "mark"
      BY <1>4 DEF MarkApproved, Evaluating, Engaged
    <2>3. jobs[k].status = "held"
      BY <1>1, <2>2 DEF AloneAt
    <2>4. /\ \A j \in Job \ {k} : jobs'[j] = jobs[j]
          /\ jobs'[k].status = "done"
      BY <1>1, <1>4, <2>1 DEF MarkApproved, mark_done, TypeOK, Row
    <2> HIDE DEF k
    <2>5. RowStep(k)
      BY <2>3, <2>4 DEF RowStep, Open
    <2> QED
      BY <1>1, <2>1, <2>4, <2>5, ChainStep
  <1>5. CASE ResumeChain(a)
    <2> DEFINE n == NextJob(EvalJob(a))
    <2>1. Engaged(a) /\ eval[a].step = "advance"
      BY <1>5 DEF ResumeChain, Evaluating, Engaged
    <2>2. /\ jobs[EvalJob(a)].status = "done" /\ HasNext(EvalJob(a))
          /\ EvalJob(a) \in Job /\ EvalJob(a)[1] = a
      BY <1>1, <2>1, EvalStageIsStage DEF AloneAt
    <2>3. n \in Job
      BY <2>2, NextJobIsJob
    <2>4. \A i \in Job : i[1] = a => ~Unfinished(i)
      BY <1>1, <2>1, <2>2 DEF AloneAt, Unfinished
    <2>5. insert_job(n, "ready", TRUE)
      BY <1>5 DEF ResumeChain
    <2>6. \A j \in Job \ {n} : jobs'[j] = jobs[j]
      BY <1>1, <2>3, <2>5, InsertRow
    <2>7. jobs'[n].status = "ready"
      BY <1>1, <2>3, <2>5, InsertRow
    <2>8. RowStep(n)
      BY <2>2, <2>4, <2>7 DEF RowStep, Open
    <2> HIDE DEF n
    <2> QED
      BY <1>1, <2>3, <2>6, <2>8, ChainStep
  <1> QED
    BY <1>2, <1>3, <1>4, <1>5
       DEF EvalCommand, EvalRun, Generate, Collect, EvalHold, WriteReport, EvalRaises, Approve,
           LiftHold, EvalDies, vars

(* With the eval commands the queue is still the chain of stages it        *)
(* promises to be: an approval finishes a stage that is open and opens the *)
(* one after it while nothing of the artifact is unfinished.               *)
THEOREM EvalKeepsTheChain ==
  ASSUME Careful
  PROVE  EvalSpec => ImplementsStageChain
  <1>1. EvalInit => Chain!Init
    BY ChainInit DEF EvalInit
  <1>2. EvalInv /\ EvalInv' /\ [EvalNext]_everything => [Chain!Next]_PhaseBar
    <2> SUFFICES ASSUME EvalInv, EvalInv', [EvalNext]_everything
                 PROVE  Chain!Next \/ UNCHANGED PhaseBar
      BY DEF PhaseBar
    <2>1. TypeInv /\ ExclusionInv /\ TypeOK'
      BY DEF EvalInv, EvalBase, EvalTypeOK, TypeInv
    <2>2. CASE Next
      BY <2>1, <2>2, NextSteps
    <2>3. ASSUME NEW a \in Artifact, EvalCommand(a)
          PROVE  Chain!Next \/ UNCHANGED PhaseBar
      BY <2>1, <2>3, EvalCommandSteps
    <2>4. CASE UNCHANGED everything
      BY <2>4 DEF everything, vars, PhaseBar
    <2> QED
      BY <2>2, <2>3, <2>4, RunIsNext, ElsewhereIsNext DEF EvalNext
  <1> QED
    BY <1>1, <1>2, EvalExclusion, PTL DEF EvalSpec, ImplementsStageChain, Chain!Spec, PhaseBar

(* A runner may not be at a stage of an artifact that is being evaluated   *)
(* or approved, nor two of them at one artifact.                           *)
THEOREM EvalExclusive ==
  ASSUME Careful
  PROVE  EvalSpec => []OneRunnerPerArtifact
  <1>1. EvalInv => OneRunnerPerArtifact
    BY ExclusionImplies DEF EvalInv, EvalBase, EvalTypeOK, TypeInv
  <1> QED
    BY <1>1, EvalExclusion, PTL
-----------------------------------------------------------------------------
(* The stage after the evaluated one runs on the output that one names. *)

(* Who has finished the stage, a runner or an approval, has named its own  *)
(* output, and nobody else does until it has handed it on.                 *)
NamedOwn ==
  /\ \A r \in Runner : Produces(r) /\ pc[r] \in After => out[task[r][1]] = DefaultPath
  /\ \A a \in Artifact : eval[a].step = "advance" => out[a] = Picked(a).path

HandedOn(a) ==
  /\ jobs[EvalJob(a)].status = "done" /\ eval[a].step # "advance"
  /\ HasNext(EvalJob(a)) /\ ~Advancing(EvalJob(a))
  => inp[a] = out[a]

InputInv == NamedOwn /\ (crashes = 0 => \A a \in Artifact : HandedOn(a))

LEMMA ProducersRun ==
  ASSUME NEW r \in Runner, task[r] \in Job \cup {NoJob}
  PROVE  Produces(r) <=> task[r] # NoJob /\ task[r] = EvalJob(task[r][1])
  BY RunStageAssumption DEF Produces, EvalJob, Job

LEMMA RunInputs ==
  ASSUME EvalInv, InputInv, NEW r \in Worker \cup Cli, RunWithPaths(r)
  PROVE  InputInv'
  <1>1. TypeInv /\ ExclusionInv /\ RunnersHaveRows /\ EvalTypeOK
    BY DEF EvalInv, EvalBase, EvalTypeOK, TypeInv
  <1> DEFINE b == task[r][1]
  <1>2. /\ r \in Runner /\ task[r] \in Job /\ task[r] # NoJob /\ b \in Artifact
        /\ UNCHANGED <<ctl, flips, eval, report>>
    BY <1>1, RunTouches, BusyFacts DEF Runner
  <1>3. \A q \in Runner \ {r} : task[q] = NoJob \/ task[q][1] # b
    BY <1>1, <1>2, Alone
  <1>4. \A a \in Artifact \ {b} : out'[a] = out[a] /\ inp'[a] = inp[a]
    BY <1>1, <1>2, RunCases DEF ReadInput, WriteOutput, NamePaths, EvalTypeOK
  <1>5. ~Engaged(b)
    BY <1>2 DEF EvalInv, EvalAlone, AloneAt, Busy
  <1>6. /\ Produces(r) /\ pc[r] = "mark" => out'[b] = DefaultPath
        /\ ~(Produces(r) /\ pc[r] = "mark") => out'[b] = out[b]
        /\ Produces(r) /\ pc[r] = "insert" => inp'[b] = DefaultPath
        /\ ~(Produces(r) /\ pc[r] = "insert") => inp'[b] = inp[b]
    <2>1. CASE ReadInput(r) \/ WriteOutput(r)
      BY <2>1 DEF ReadInput, WriteOutput, Start, Persist
    <2>2. CASE NamePaths(r)
      BY <1>1, <1>2, <2>2 DEF NamePaths, EvalTypeOK
    <2> QED
      BY <2>1, <2>2, RunCases
  <1>7. NamedOwn'
    <2>1. ASSUME NEW q \in Runner, Produces(q)', pc'[q] \in After
          PROVE  out'[task'[q][1]] = DefaultPath
      <3>1. task'[q] = task[q] /\ task[q] # NoJob /\ Produces(q)
        BY <1>1, <2>1, RunRunners DEF Produces
      <3>2. CASE q # r
        <4>1. pc[q] \in After /\ task[q][1] # b /\ task[q][1] \in Artifact
          BY <1>1, <1>3, <2>1, <3>1, <3>2, RunRunners, BusyFacts
        <4> QED
          BY <1>4, <3>1, <4>1 DEF InputInv, NamedOwn
      <3>3. CASE q = r
        <4>1. pc[r] \in {"mark", "advance"}
          BY <1>1, <2>1, <3>3, RunRunners DEF After
        <4> QED
          BY <1>2, <1>6, <3>1, <3>3, <4>1 DEF InputInv, NamedOwn, After
      <3> QED
        BY <3>2, <3>3
    <2>2. ASSUME NEW a \in Artifact, eval'[a].step = "advance"
          PROVE  out'[a] = Picked(a)'.path
      <3>1. a # b
        BY <1>2, <1>5, <2>2 DEF Engaged
      <3> QED
        BY <1>2, <1>4, <2>2, <3>1 DEF InputInv, NamedOwn, Picked
    <2> QED
      BY <2>1, <2>2 DEF NamedOwn
  <1>8. ASSUME crashes' = 0, NEW a \in Artifact
        PROVE  HandedOn(a)'
    <2> SUFFICES ASSUME jobs'[EvalJob(a)].status = "done", eval'[a].step # "advance",
                        HasNext(EvalJob(a)), ~Advancing(EvalJob(a))'
                 PROVE  inp'[a] = out'[a]
      BY DEF HandedOn, HasNext, EvalJob
    <2>1. HandedOn(a) /\ eval[a].step # "advance"
      BY <1>2, <1>8, RunCases DEF InputInv
    <2>2. CASE task[r] # EvalJob(a)
      <3>1. jobs[EvalJob(a)].status = "done"
        BY <1>1, <2>2, RunRows DEF EvalTypeOK
      <3>2. ~Advancing(EvalJob(a))
        <4>1. ASSUME NEW q \in Runner, task[q] = EvalJob(a), pc[q] \in After \cup Failing
              PROVE  FALSE
          <5>1. task'[q] = task[q] /\ pc'[q] = pc[q]
            BY <1>1, <2>2, <4>1, RunRunners
          <5> QED
            BY <4>1, <5>1 DEF Advancing, EvalJob
        <4> QED
          BY <4>1 DEF Advancing
      <3>3. out'[a] = out[a] /\ inp'[a] = inp[a]
        <4>1. CASE a = b
          <5>1. ~Produces(r)
            BY <1>2, <2>2, <4>1, ProducersRun
          <5> QED
            BY <1>6, <4>1, <5>1
        <4> QED
          BY <1>4, <4>1
      <3> QED
        BY <2>1, <3>1, <3>2, <3>3 DEF HandedOn
    <2>3. CASE task[r] = EvalJob(a)
      <3>1. a = b /\ Produces(r)
        BY <1>2, <2>3, EvalStageIsStage, ProducersRun
      <3>2. ~(task'[r] = EvalJob(a) /\ pc'[r] \in After)
        BY <1>2 DEF Advancing, EvalJob
      <3>3. CASE pc[r] \in {"start", "handle"}
        <4>1. UNCHANGED jobs
          BY <3>3, RunCases DEF ReadInput, WriteOutput, Start, Persist, ReadFrozen, MarkDone,
                                MarkLast, InsertNext
        <4>2. jobs[task[r]].status # "done"
          BY <1>1, <1>2, <3>3, Alone DEF Expected, Before
        <4> QED
          BY <2>3, <4>1, <4>2
      <3>4. CASE pc[r] = "mark"
        <4>1. MarkDone(r)
          BY <2>3, <3>4, RunCases DEF ReadInput, WriteOutput, Start, Persist, ReadFrozen,
                                MarkLast, InsertNext
        <4> QED
          BY <1>1, <1>2, <2>3, <3>2, <4>1 DEF MarkDone, Goto, After, TypeInv, TypeOK
      <3>5. CASE pc[r] = "advance"
        <4>1. ReadFrozen(r)
          BY <3>5, RunCases DEF ReadInput, WriteOutput, Start, Persist, MarkDone, MarkLast,
                                InsertNext
        <4> QED
          BY <1>1, <1>2, <2>3, <3>2, <4>1 DEF ReadFrozen, Goto, After, TypeInv, TypeOK
      <3>6. CASE pc[r] = "insert"
        BY <1>2, <1>6, <3>1, <3>6 DEF InputInv, NamedOwn, After
      <3>7. pc[r] \in {"start", "handle", "mark", "advance", "insert"}
        BY RunCases DEF ReadInput, WriteOutput, Start, Persist, ReadFrozen, MarkDone, MarkLast,
                        InsertNext
      <3> QED
        BY <3>3, <3>4, <3>5, <3>6, <3>7
    <2> QED
      BY <2>2, <2>3
  <1> QED
    BY <1>7, <1>8 DEF InputInv

LEMMA ElsewhereInputs ==
  ASSUME EvalInv, InputInv, Elsewhere
  PROVE  InputInv'
  <1>1. TypeInv /\ EvalBase /\ RunnersHaveRows /\ crashes \in Nat
    BY DEF EvalInv, EvalBase, EvalTypeOK, TypeInv, TypeOK
  <1>2. NamedOwn'
    <2>1. ASSUME NEW q \in Runner, Produces(q)', pc'[q] \in After
          PROVE  out'[task'[q][1]] = DefaultPath
      <3>1. task'[q] = task[q] /\ pc'[q] = pc[q]
        BY <1>1, <2>1, ElsewhereRunners DEF After
      <3> QED
        BY <1>1, <2>1, <3>1, ElsewherePaths DEF InputInv, NamedOwn, Produces
    <2>2. ASSUME NEW a \in Artifact, eval'[a].step = "advance"
          PROVE  out'[a] = Picked(a)'.path
      BY <1>1, <2>2, ElsewherePaths DEF InputInv, NamedOwn, Picked
    <2> QED
      BY <2>1, <2>2 DEF NamedOwn
  <1>3. crashes' = 0 => crashes = 0
    <2>1. ASSUME NEW w \in Worker,
                 \/ ReadLimits(w) \/ Claim(w) \/ ClaimNothing(w)
                 \/ WorkerRaises(w) \/ ReadAttempts(w) \/ RecordFailure(w)
          PROVE  crashes' = crashes
      BY <2>1 DEF ReadLimits, Claim, ClaimNothing, WorkerRaises, ReadAttempts, RecordFailure
    <2>2. ASSUME NEW c \in Cli, StepRaises(c)
          PROVE  crashes' = crashes
      BY <2>2 DEF StepRaises
    <2>3. ASSUME NEW r \in Worker \cup Cli, Crash(r)
          PROVE  crashes' # 0
      BY <1>1, <2>3 DEF Crash
    <2>4. ASSUME Command
          PROVE  crashes' = crashes
      BY <2>4 DEF Command, Ingest, Reingest, Hold, HoldRows, Release, ReleaseRows, Retry,
                  RetryButton, Pause, Resume, Throttle, ReadControl, WriteControl, RetryStage, Step
    <2> QED
      BY <2>1, <2>2, <2>3, <2>4 DEF Elsewhere, OtherCommand
  <1>4. ASSUME crashes' = 0, NEW a \in Artifact
        PROVE  HandedOn(a)'
    <2> SUFFICES ASSUME jobs'[EvalJob(a)].status = "done", eval'[a].step # "advance",
                        HasNext(EvalJob(a)), ~Advancing(EvalJob(a))'
                 PROVE  inp'[a] = out'[a]
      BY DEF HandedOn, HasNext, EvalJob
    <2>1. HandedOn(a) /\ eval[a].step # "advance" /\ inp'[a] = inp[a] /\ out'[a] = out[a]
      BY <1>1, <1>3, <1>4, ElsewherePaths DEF InputInv
    <2>2. jobs[EvalJob(a)].status = "done"
      BY <1>1, EvalStageIsStage, ElsewhereRows
    <2>3. ASSUME NEW q \in Runner, task[q] = EvalJob(a), pc[q] \in After \cup Failing
          PROVE  FALSE
      <3>0. task'[q] = EvalJob(a) => pc'[q] \notin After \cup Failing
        BY DEF Advancing, EvalJob
      <3> USE DEF TypeInv, TypeOK, Goto, Drop, DropTo
      <3>1. ASSUME NEW w \in Worker, ReadLimits(w) \/ Claim(w) \/ ClaimNothing(w)
            PROVE  FALSE
        <4>1. w # q
          BY <2>3, <3>1 DEF ReadLimits, Claim, ClaimNothing, After, Failing
        <4>2. task'[q] = task[q] /\ pc'[q] = pc[q]
          BY <1>1, <3>1, <4>1 DEF ReadLimits, Claim, ClaimNothing, Take
        <4> QED
          BY <2>3, <3>0, <4>2
      <3>2. ASSUME NEW w \in Worker, WorkerRaises(w) \/ ReadAttempts(w)
            PROVE  FALSE
        BY <1>1, <2>3, <3>0, <3>2 DEF WorkerRaises, ReadAttempts, Failing
      <3>3. ASSUME NEW w \in Worker, RecordFailure(w)
            PROVE  FALSE
        <4>1. CASE w = q
          <5>1. jobs'[EvalJob(a)].status \in {"failed", "ready"}
            <6>1. PICK st \in {"failed", "ready"} :
                    jobs' = [jobs EXCEPT ![EvalJob(a)] =
                              [jobs[EvalJob(a)] EXCEPT !.status = st, !.attempts = loc[w].tries]]
              BY <2>3, <3>3, <4>1 DEF RecordFailure, WriteAttempt
            <6>2. [jobs[EvalJob(a)] EXCEPT !.status = st, !.attempts = loc[w].tries].status = st
              BY <1>1, EvalStageIsStage DEF Row
            <6> QED
              BY <1>1, <6>1, <6>2, EvalStageIsStage
          <5> QED
            BY <5>1
        <4>2. CASE w # q
          BY <1>1, <2>3, <3>0, <3>3, <4>2 DEF RecordFailure
        <4> QED
          BY <4>1, <4>2
      <3>4. ASSUME NEW c \in Cli, StepRaises(c)
            PROVE  FALSE
        BY <1>1, <2>3, <3>0, <3>4 DEF StepRaises, After, Failing
      <3>5. ASSUME NEW r \in Worker \cup Cli, Crash(r)
            PROVE  FALSE
        BY <1>1, <1>4, <3>5 DEF Crash
      <3>6. ASSUME Command
            PROVE  FALSE
        <4>1. UNCHANGED <<pc, task>> \/ \E k \in Job, c \in Cli : Step(c, k)
          BY <3>6 DEF Command, Ingest, Reingest, Hold, HoldRows, Release, ReleaseRows, Retry,
                      RetryButton, Pause, Resume, Throttle, ReadControl, WriteControl, RetryStage,
                      runVars
        <4>2. ASSUME NEW k \in Job, NEW c \in Cli, Step(c, k)
              PROVE  task'[q] = task[q] /\ pc'[q] = pc[q]
          BY <1>1, <2>3, <4>2 DEF Step, Take, After, Failing
        <4> QED
          BY <2>3, <3>0, <4>1, <4>2
      <3> QED
        BY <3>1, <3>2, <3>3, <3>4, <3>5, <3>6 DEF Elsewhere, OtherCommand
    <2> QED
      BY <2>1, <2>2, <2>3 DEF HandedOn, Advancing
  <1> QED
    BY <1>2, <1>4 DEF InputInv

LEMMA EvalCommandInputs ==
  ASSUME EvalInv, InputInv, NEW a \in Artifact, EvalCommand(a)
  PROVE  InputInv'
  <1>1. EvalBase /\ EvalTypeOK /\ AloneAt(a) /\ crashes \in Nat
    <2>1. EvalBase /\ EvalTypeOK /\ EvalAlone
      BY DEF EvalInv, EvalBase
    <2>2. AloneAt(a)
      BY <2>1 DEF EvalAlone
    <2>3. crashes \in Nat
      BY <2>1 DEF EvalTypeOK, TypeOK
    <2> QED
      BY <2>1, <2>2, <2>3
  <1>2. UNCHANGED <<pc, task>>
    BY <1>1, EvalCommandRows
  <1>3. CASE MarkApproved(a)
    <2>1. /\ out'[a] = Picked(a).path /\ Picked(a)' = Picked(a) /\ crashes' = crashes
          /\ HasNext(EvalJob(a)) => eval'[a].step = "advance"
          /\ ~HasNext(EvalJob(a)) => eval'[a].step = "idle"
      BY <1>1, <1>3, EvalMoves DEF MarkApproved, EvalTypeOK, Picked
    <2>2. \A r \in Runner : ~Busy(r, a)
      BY <1>1, <1>3 DEF AloneAt, Engaged, MarkApproved, Evaluating
    <2>3. NamedOwn'
      <3>1. ASSUME NEW r \in Runner, Produces(r)', pc'[r] \in After
            PROVE  out'[task'[r][1]] = DefaultPath
        <4>1. Produces(r) /\ pc[r] \in After /\ task[r][1] \in Artifact \ {a}
          BY <1>1, <1>2, <2>2, <3>1, BusyFacts
             DEF Produces, Busy, EvalInv, EvalBase, EvalTypeOK, TypeInv
        <4> QED
          BY <1>1, <1>2, <4>1, EvalOthers DEF InputInv, NamedOwn
      <3>2. ASSUME NEW b \in Artifact, eval'[b].step = "advance"
            PROVE  out'[b] = Picked(b)'.path
        BY <1>1, <2>1, <3>2, EvalOthers DEF InputInv, NamedOwn, Picked
      <3> QED
        BY <3>1, <3>2 DEF NamedOwn
    <2>4. ASSUME crashes' = 0, NEW b \in Artifact \ {a}
          PROVE  HandedOn(b)'
      <3>1. jobs'[EvalJob(b)] = jobs[EvalJob(b)]
        BY <1>1, EvalStageIsStage, EvalCommandRows
      <3> QED
        BY <1>1, <1>2, <2>1, <2>4, <3>1, EvalOthers
           DEF InputInv, HandedOn, HasNext, EvalJob, Advancing
    <2>5. HandedOn(a)'
      BY <2>1 DEF HandedOn, HasNext, EvalJob
    <2> QED
      BY <2>3, <2>4, <2>5 DEF InputInv
  <1>4. CASE ~MarkApproved(a)
    <2>1. out'[a] = out[a] /\ eval'[a].step # "advance"
      <3>0. \A st : EvalGoto(a, st) => eval'[a].step = st
        BY <1>1, EvalMoves
      <3>1. CASE Generate(a) \/ EvalHold(a) \/ EvalHoldRows(a) \/ LiftHold(a) \/ ResumeChain(a)
        <4>1. EvalGoto(a, "collect") \/ EvalGoto(a, "flip") \/ EvalGoto(a, "report")
              \/ EvalGoto(a, "mark") \/ EvalGoto(a, "idle")
          BY <3>1 DEF Generate, EvalHold, EvalHoldRows, LiftHold, ResumeChain
        <4>2. out' = out
          BY <3>1 DEF Generate, EvalHold, EvalHoldRows, LiftHold, ResumeChain, pathVars
        <4> QED
          BY <3>0, <4>1, <4>2
      <3>2. CASE EvalRun(a) \/ Collect(a) \/ WriteReport(a) \/ EvalRaises(a) \/ EvalDies(a)
        BY <1>1, <3>2, EvalMoves DEF EvalRun, Collect, WriteReport, EvalRaises, EvalDies, pathVars
      <3>3. CASE \E i \in Variant : Approve(a, i)
        <4>1. PICK i \in Nat : Approve(a, i)
          BY <3>3, EvalAssumption DEF Variant
        <4> QED
          BY <1>1, <4>1, EvalMoves DEF Approve, pathVars
      <3> QED
        BY <1>4, <3>1, <3>2, <3>3 DEF EvalCommand
    <2>2. NamedOwn'
      <3>1. ASSUME NEW b \in Artifact
            PROVE  out'[b] = out[b]
        BY <1>1, <2>1, EvalOthers
      <3>2. ASSUME NEW r \in Runner, Produces(r)', pc'[r] \in After
            PROVE  out'[task'[r][1]] = DefaultPath
        <4>1. Produces(r) /\ pc[r] \in After /\ task[r][1] \in Artifact
          BY <1>1, <1>2, <3>2, BusyFacts DEF Produces, EvalInv, EvalBase, EvalTypeOK, TypeInv
        <4> QED
          BY <1>2, <3>1, <4>1 DEF InputInv, NamedOwn
      <3>3. ASSUME NEW b \in Artifact, eval'[b].step = "advance"
            PROVE  out'[b] = Picked(b)'.path
        BY <1>1, <2>1, <3>3, EvalOthers DEF InputInv, NamedOwn, Picked
      <3> QED
        BY <3>2, <3>3 DEF NamedOwn
    <2>3. crashes' = 0 => crashes = 0 /\ ~EvalDies(a)
      <3>1. EvalDies(a) => crashes' # 0
        BY <1>1 DEF EvalDies
      <3>2. ~EvalDies(a) => crashes' = crashes
        BY <1>4 DEF EvalCommand, EvalRun, Generate, Collect, EvalHold, EvalHoldRows,
                    WriteReport, EvalRaises, Approve, LiftHold, ResumeChain, vars
      <3> QED
        BY <3>1, <3>2
    <2>4. ASSUME crashes' = 0, NEW b \in Artifact \ {a}
          PROVE  HandedOn(b)'
      <3>1. jobs'[EvalJob(b)] = jobs[EvalJob(b)]
        BY <1>1, EvalStageIsStage, EvalCommandRows
      <3> QED
        BY <1>1, <1>2, <2>3, <2>4, <3>1, EvalOthers
           DEF InputInv, HandedOn, HasNext, EvalJob, Advancing
    <2>5. ASSUME crashes' = 0
          PROVE  HandedOn(a)'
      <3>1. CASE ResumeChain(a)
        BY <1>1, <2>1, <3>1 DEF ResumeChain, InputInv, NamedOwn, EvalTypeOK, HandedOn, Evaluating
      <3>2. CASE ~ResumeChain(a)
        <4>1. eval[a].step # "advance" /\ inp'[a] = inp[a]
          BY <1>4, <2>3, <2>5, <3>2
             DEF EvalCommand, EvalRun, Generate, Collect, EvalHold, EvalHoldRows, WriteReport,
                 EvalRaises, Approve, LiftHold, Evaluating, pathVars
        <4>2. jobs'[EvalJob(a)].status = "done" => jobs[EvalJob(a)].status = "done"
          <5>1. CASE EvalHoldRows(a)
            <6>1. [jobs[EvalJob(a)] EXCEPT !.status = "held"].status = "held"
              BY <1>1, EvalStageIsStage DEF EvalTypeOK, TypeOK, Row
            <6> QED
              BY <1>1, <5>1, <6>1, EvalStageIsStage
                 DEF EvalHoldRows, MoveRows, EvalTypeOK, TypeOK
          <5>2. CASE ~EvalHoldRows(a)
            BY <1>4, <3>2, <5>2
               DEF EvalCommand, EvalRun, Generate, Collect, EvalHold, WriteReport,
                   EvalRaises, Approve, LiftHold, EvalDies, vars
          <5> QED
            BY <5>1, <5>2
        <4> QED
          BY <1>2, <2>1, <2>3, <2>5, <4>1, <4>2
             DEF InputInv, HandedOn, HasNext, EvalJob, Advancing
      <3> QED
        BY <3>1, <3>2
    <2> QED
      BY <2>2, <2>4, <2>5 DEF InputInv
  <1> QED
    BY <1>3, <1>4

LEMMA InputInvInit == EvalInit => InputInv
  <1> SUFFICES ASSUME EvalInit  PROVE InputInv
    OBVIOUS
  <1>1. \A a \in Artifact : jobs[EvalJob(a)].status = "absent" /\ eval[a].step = "idle"
    BY EvalStageIsStage DEF EvalInit, Init, Absent, NoEval
  <1>2. \A r \in Runner : task[r] = NoJob
    BY DEF EvalInit, Init, RunInit
  <1> QED
    BY <1>1, <1>2 DEF InputInv, NamedOwn, HandedOn, Produces

(* What comes after a stage that was evaluated is to run on the very       *)
(* output its row names, whether a runner finished it or an approval did,  *)
(* as long as nothing was killed. A runner that is past its stage has      *)
(* named the default output, an approval about to advance the picked one,  *)
(* and neither is disturbed before it has handed that on.                  *)
THEOREM TheOutputIsHandedOn ==
  ASSUME Careful
  PROVE  EvalSpec => []InputIsOutput
  <1>1. EvalInv /\ InputInv /\ [EvalNext]_everything => InputInv'
    <2> SUFFICES ASSUME EvalInv, InputInv, [EvalNext]_everything
                 PROVE  InputInv'
      OBVIOUS
    <2>1. CASE UNCHANGED everything
      BY <2>1 DEF InputInv, NamedOwn, HandedOn, Produces, Picked, Advancing, HasNext, EvalJob,
                  everything, vars, runVars, evalVars, pathVars
    <2> QED
      BY <2>1, RunInputs, ElsewhereInputs, EvalCommandInputs DEF EvalNext
  <1>2. InputInv => InputIsOutput
    BY DEF InputInv, HandedOn, InputIsOutput, Evaluating
  <1> QED
    BY <1>1, <1>2, InputInvInit, EvalExclusion, PTL DEF EvalSpec
-----------------------------------------------------------------------------
(* What is committed after an approval is what was approved. *)

(* A variant is told by its generating key, so no two entries of the       *)
(* configuration that differ write to the same file.                       *)
VariantsDiffer == \A i, j \in Variant : Variants[i] = Variants[j] => i = j

(* What an eval run has collected, and what a report tells that has not    *)
(* been overtaken, is still what is there.                                 *)
StillThere(a) ==
  /\ eval[a].step \in {"generate", "collect", "hold", "flip", "report"} =>
       /\ Len(eval[a].outputs) = eval[a].at - 1
       /\ \A i \in DOMAIN eval[a].outputs : eval[a].outputs[i] = OutputAt(a, Variants[i])
  /\ eval[a].step \in {"lift", "mark", "advance"} \/ eval[a].current =>
       \A i \in DOMAIN report[a] : report[a][i] = OutputAt(a, report[a][i].path)

(* An approval stands: the next stage is to run on the output approved,    *)
(* which is as it was, and nobody is about to give it another.             *)
Stands(a) ==
  chosen[a] # NoOutput =>
    /\ jobs[EvalJob(a)].status = "done"
    /\ \A r \in Runner : task[r] # EvalJob(a)
    /\ inp[a] = chosen[a].path /\ chosen[a] = OutputAt(a, inp[a])
    /\ \A r \in Runner : task[r] = NextJob(EvalJob(a)) /\ pc[r] = "handle"
                           => read[r] = chosen[a]

ApprovalInv == \A a \in Artifact : StillThere(a) /\ Stands(a)

LEMMA OthersProduce ==
  ASSUME EvalBase, NEW r \in Worker \cup Cli, RunWithPaths(r),
         NEW a \in Artifact, task[r] # EvalJob(a)
  PROVE  content'[a] = content[a] /\ inp'[a] = inp[a]
  <1> USE DEF EvalBase, EvalTypeOK
  <1>1. r \in Runner /\ task[r] \in Job /\ task[r] # NoJob
    BY RunTouches DEF TypeInv, Runner
  <1>2. Produces(r) => task[r][1] # a
    BY <1>1, ProducersRun
  <1>3. content'[a] = content[a]
    <2>1. \/ UNCHANGED content
          \/ Produces(r) /\ content' = [content EXCEPT ![task[r][1]][DefaultPath] = @ + 1]
      BY RunCases DEF ReadInput, WriteOutput, NamePaths
    <2> QED
      BY <1>2, <2>1
  <1>4. inp'[a] = inp[a]
    BY <1>2, RunCases DEF ReadInput, WriteOutput, NamePaths
  <1> QED
    BY <1>3, <1>4

LEMMA RunApprovals ==
  ASSUME EvalInv, ApprovalInv, NEW r \in Worker \cup Cli, RunWithPaths(r)
  PROVE  ApprovalInv'
  <1>1. /\ TypeInv /\ EvalTypeOK /\ EvalBase
        /\ UNCHANGED <<eval, report>> /\ ApprovalsEnd
    BY RunCases DEF EvalInv, EvalBase, EvalTypeOK, TypeInv
  <1>2. r \in Runner /\ task[r] # NoJob /\ task[r] \in Job
    BY <1>1, RunTouches DEF Runner
  <1> SUFFICES ASSUME NEW a \in Artifact
               PROVE  StillThere(a)' /\ Stands(a)'
    BY DEF ApprovalInv
  <1>3. StillThere(a)'
    <2>1. CASE task[r] = EvalJob(a)
      <3>1. ~Engaged(a)
        BY <1>2, <2>1, EvalStageIsStage DEF EvalInv, EvalAlone, AloneAt, Busy
      <3> QED
        BY <1>1, <3>1 DEF Engaged, StillThere
    <2>2. CASE task[r] # EvalJob(a)
      BY <1>1, <2>2, OthersProduce DEF ApprovalInv, StillThere, OutputAt
    <2> QED
      BY <2>1, <2>2
  <1>4. ASSUME chosen'[a] # NoOutput
        PROVE  Stands(a)'
    <2>1. chosen'[a] = chosen[a] /\ jobs'[EvalJob(a)].status = jobs[EvalJob(a)].status
      BY <1>1, <1>4 DEF ApprovalsEnd
    <2>2. /\ jobs'[EvalJob(a)].status = "done" /\ inp[a] = chosen[a].path
          /\ chosen[a] = OutputAt(a, inp[a])
          /\ \A q \in Runner : task[q] # EvalJob(a)
          /\ \A q \in Runner : task[q] = NextJob(EvalJob(a)) /\ pc[q] = "handle"
                                 => read[q] = chosen[a]
      BY <1>4, <2>1 DEF ApprovalInv, Stands
    <2>3. content'[a] = content[a] /\ inp'[a] = inp[a]
      BY <1>1, <1>2, <2>2, OthersProduce
    <2>4. \A q \in Runner : task'[q] # EvalJob(a)
      <3>1. EvalJob(a) # NoJob
        BY EvalStageIsStage, RunStageAssumption DEF Job
      <3> QED
        BY <1>1, <2>2, <3>1, RunRunners
    <2>5. ASSUME NEW q \in Runner, task'[q] = NextJob(EvalJob(a)), pc'[q] = "handle"
          PROVE  read'[q] = chosen[a]
      <3>1. CASE q # r
        <4>1. task[q] = NextJob(EvalJob(a)) /\ pc[q] = "handle"
          BY <1>1, <2>5, <3>1, RunRunners
        <4>2. read'[q] = read[q]
          BY <1>1, <3>1, RunCases DEF ReadInput, WriteOutput, NamePaths, EvalTypeOK
        <4> QED
          BY <2>2, <4>1, <4>2
      <3>2. CASE q = r
        <4>1. pc[r] = "start" /\ task[r] = NextJob(EvalJob(a))
          BY <1>1, <2>5, <3>2, RunRunners DEF After
        <4>2. ReadInput(r)
          BY <4>1, RunCases
             DEF WriteOutput, Persist, MarkDone, MarkLast, ReadFrozen, InsertNext
        <4>3. task[r][1] = a /\ Consumes(r)
          BY <1>2, <4>1 DEF NextJob, EvalJob, Consumes
        <4> QED
          BY <1>1, <1>2, <2>2, <3>2, <4>2, <4>3 DEF ReadInput, EvalTypeOK
      <3> QED
        BY <3>1, <3>2
    <2>6. OutputAt(a, inp[a])' = OutputAt(a, inp[a])
      BY <2>3 DEF OutputAt
    <2> QED
      BY <2>1, <2>2, <2>3, <2>4, <2>5, <2>6 DEF Stands, EvalJob, NextJob
  <1> QED
    BY <1>3, <1>4 DEF Stands

LEMMA ElsewhereApprovals ==
  ASSUME EvalInv, EvalInv', ApprovalInv, Elsewhere
  PROVE  ApprovalInv'
  <1>1. TypeInv /\ EvalBase /\ ApprovalsEnd /\ TypeInv' /\ ExclusionInv'
    BY DEF EvalInv, EvalBase, EvalTypeOK, TypeInv, Elsewhere
  <1> SUFFICES ASSUME NEW a \in Artifact
               PROVE  StillThere(a)' /\ Stands(a)'
    BY DEF ApprovalInv
  <1>2. StillThere(a)'
    <2>1. /\ eval'[a].step = eval[a].step /\ eval'[a].at = eval[a].at
          /\ eval'[a].outputs = eval[a].outputs /\ (eval'[a].current => eval[a].current)
          /\ report'[a] = report[a] /\ content'[a] = content[a]
      BY <1>1, ElsewherePaths
    <2>2. StillThere(a)
      BY DEF ApprovalInv
    <2> QED
      BY <2>1, <2>2 DEF StillThere, OutputAt
  <1>3. ASSUME chosen'[a] # NoOutput
        PROVE  Stands(a)'
    <2>1. chosen'[a] = chosen[a] /\ jobs'[EvalJob(a)].status = jobs[EvalJob(a)].status
      BY <1>1, <1>3 DEF ApprovalsEnd
    <2>2. /\ jobs'[EvalJob(a)].status = "done" /\ inp[a] = chosen[a].path
          /\ chosen[a] = OutputAt(a, inp[a])
          /\ \A q \in Runner : task[q] # EvalJob(a)
          /\ \A q \in Runner : task[q] = NextJob(EvalJob(a)) /\ pc[q] = "handle"
                                 => read[q] = chosen[a]
      BY <1>3, <2>1 DEF ApprovalInv, Stands
    <2>3. ASSUME NEW q \in Runner, task'[q] = EvalJob(a)
          PROVE  FALSE
      <3>1. task'[q] # task[q] /\ EvalJob(a) # NoJob
        BY <2>2, <2>3, EvalStageIsStage, RunStageAssumption DEF Job
      <3>2. pc'[q] = "start"
        BY <1>1, <2>3, <3>1, ElsewhereRunners
      <3>3. jobs'[EvalJob(a)].status \in {"held", "running"}
        <4>1. Expected(q)'
          BY <2>3, <3>1, <1>1, EvalStageIsStage, Alone DEF ExclusionInv, ArtifactInv, InStep, Busy
        <4> QED
          BY <2>3, <3>2, <4>1 DEF Expected, Before
      <3> QED
        BY <2>2, <3>3
    <2>4. ASSUME NEW q \in Runner, task'[q] = NextJob(EvalJob(a)), pc'[q] = "handle"
          PROVE  read'[q] = chosen[a]
      <3>1. task[q] = NextJob(EvalJob(a)) /\ pc[q] = "handle"
        BY <1>1, <2>4, ElsewhereRunners
      <3> QED
        BY <2>2, <2>4, <3>1 DEF Elsewhere
    <2>5. inp'[a] = inp[a] /\ OutputAt(a, inp[a])' = OutputAt(a, inp[a])
      BY <1>1, ElsewherePaths DEF OutputAt
    <2> QED
      BY <2>1, <2>2, <2>3, <2>4, <2>5 DEF Stands, EvalJob, NextJob
  <1> QED
    BY <1>2, <1>3 DEF Stands

(* The commands write one file at most, that of the variant at hand.       *)
LEMMA GenerateWrites ==
  ASSUME EvalBase, VariantsDiffer, NEW a \in Artifact, Generate(a)
  PROVE  /\ Len(eval[a].outputs) = eval[a].at - 1
           => \A i \in DOMAIN eval[a].outputs :
                OutputAt(a, Variants[i])' = OutputAt(a, Variants[i])
  <1> USE DEF EvalBase, EvalTypeOK
  <1> DEFINE p == Variants[eval[a].at]
  <1>1. eval[a].at \in Variant /\ p \in Path
    BY EvalAssumption DEF EvalAt, Generate, Evaluating, Variant
  <1>2. content' = [content EXCEPT ![a][p] = @ + 1]
    BY DEF Generate
  <1>3. ASSUME NEW q \in Path, q # p
        PROVE  content'[a][q] = content[a][q]
    BY <1>1, <1>2, <1>3
  <1>4. ASSUME Len(eval[a].outputs) = eval[a].at - 1, NEW i \in DOMAIN eval[a].outputs
        PROVE  OutputAt(a, Variants[i])' = OutputAt(a, Variants[i])
    <2>1. i \in Variant /\ i # eval[a].at
      <3>1. eval[a].outputs \in Seq(Output) /\ Variants \in Seq(Path)
        BY EvalAssumption
      <3> QED
        BY <1>1, <1>4, <3>1 DEF Variant
    <2>2. Variants[i] \in Path /\ Variants[i] # p
      BY <1>1, <2>1, EvalAssumption DEF VariantsDiffer, Variant
    <2> QED
      BY <1>3, <2>2 DEF OutputAt
  <1> QED
    BY <1>4

(* A sequence with one more.                                              *)
LEMMA OneMore ==
  ASSUME NEW S, NEW q \in Seq(S), NEW e
  PROVE  /\ Len(Append(q, e)) = Len(q) + 1
         /\ DOMAIN Append(q, e) = DOMAIN q \cup {Len(q) + 1}
         /\ Append(q, e)[Len(q) + 1] = e
         /\ \A i \in DOMAIN q : Append(q, e)[i] = q[i]
  <1>1. q \in Seq(S \cup {e}) /\ e \in S \cup {e} /\ DOMAIN q = 1..Len(q) /\ Len(q) \in Nat
    OBVIOUS
  <1>2. DOMAIN Append(q, e) = 1..(Len(q) + 1)
    BY <1>1
  <1>3. 1..(Len(q) + 1) = 1..Len(q) \cup {Len(q) + 1}
    BY <1>1
  <1> QED
    BY <1>1, <1>2, <1>3

LEMMA CommandReports ==
  ASSUME EvalInv, ApprovalInv, VariantsDiffer, Careful, NEW a \in Artifact, EvalCommand(a)
  PROVE  StillThere(a)'
  <1>1. EvalBase /\ EvalTypeOK /\ AloneAt(a) /\ StillThere(a)
    BY DEF EvalInv, EvalBase, EvalAlone, ApprovalInv
  <1>2. eval[a].step # "idle" => ~eval[a].current
    BY <1>1 DEF AloneAt, Engaged
  <1>3. \A st : EvalGoto(a, st) => /\ eval'[a].step = st /\ eval'[a].at = eval[a].at
                                   /\ eval'[a].outputs = eval[a].outputs
                                   /\ eval'[a].current = eval[a].current
    BY <1>1, EvalMoves
  <1>4. CASE Generate(a)
    <2>1. /\ eval'[a].step = "collect" /\ eval[a].step = "generate" /\ ~eval'[a].current
          /\ eval'[a].at = eval[a].at /\ eval'[a].outputs = eval[a].outputs
      BY <1>2, <1>3, <1>4 DEF Generate, Evaluating
    <2> QED
      BY <1>1, <1>4, <2>1, GenerateWrites DEF StillThere
  <1>5. CASE Collect(a)
    <2> DEFINE new == OutputAt(a, Variants[eval[a].at])
    <2>1. /\ eval[a].step = "collect" /\ ~eval'[a].current
          /\ eval'[a].outputs = Append(eval[a].outputs, new)
          /\ eval'[a].at = eval[a].at + 1 /\ eval'[a].step \in {"generate", "hold"}
          /\ UNCHANGED content
      BY <1>1, <1>2, <1>5, EvalMoves DEF Collect, Evaluating, pathVars
    <2>2. /\ Len(eval[a].outputs) = eval[a].at - 1
          /\ \A i \in DOMAIN eval[a].outputs : eval[a].outputs[i] = OutputAt(a, Variants[i])
      BY <1>1, <2>1 DEF StillThere
    <2>3. eval[a].outputs \in Seq(Output) /\ eval[a].at \in Nat
      BY <1>1 DEF EvalTypeOK
    <2>4. /\ Len(eval'[a].outputs) = eval'[a].at - 1
          /\ \A i \in DOMAIN eval'[a].outputs :
               eval'[a].outputs[i] = OutputAt(a, Variants[i])
      <3> HIDE DEF new
      <3>1. /\ Len(eval'[a].outputs) = Len(eval[a].outputs) + 1
            /\ DOMAIN eval'[a].outputs = DOMAIN eval[a].outputs \cup {eval[a].at}
            /\ eval'[a].outputs[eval[a].at] = new
            /\ \A i \in DOMAIN eval[a].outputs : eval'[a].outputs[i] = eval[a].outputs[i]
        <4>1. eval[a].at = Len(eval[a].outputs) + 1
          BY <2>2, <2>3
        <4> DEFINE q == eval[a].outputs
        <4>2. q \in Seq(Output) /\ eval'[a].outputs = Append(q, new)
          BY <2>1, <2>3
        <4> HIDE DEF q
        <4>3. /\ Len(Append(q, new)) = Len(q) + 1
              /\ DOMAIN Append(q, new) = DOMAIN q \cup {Len(q) + 1}
              /\ Append(q, new)[Len(q) + 1] = new
              /\ \A i \in DOMAIN q : Append(q, new)[i] = q[i]
          BY <4>2, OneMore
        <4> QED
          BY <4>1, <4>2, <4>3 DEF q
      <3>2. \A i \in DOMAIN eval'[a].outputs : i \in DOMAIN eval[a].outputs \/ i = eval[a].at
        BY <3>1
      <3>3. new = OutputAt(a, Variants[eval[a].at])
        BY DEF new
      <3>4. ASSUME NEW i \in DOMAIN eval'[a].outputs
            PROVE  eval'[a].outputs[i] = OutputAt(a, Variants[i])
        BY <2>2, <3>1, <3>2, <3>3
      <3>5. Len(eval'[a].outputs) = eval'[a].at - 1
        BY <2>1, <2>2, <2>3, <3>1
      <3> QED
        BY <3>4, <3>5
    <2> QED
      BY <2>1, <2>4 DEF StillThere, OutputAt
  <1>6. CASE EvalHold(a) \/ EvalHoldRows(a)
    <2>1. /\ eval[a].step \in {"hold", "flip"} /\ eval'[a].step \in {"flip", "report"}
          /\ ~eval'[a].current /\ UNCHANGED content
          /\ eval'[a].at = eval[a].at /\ eval'[a].outputs = eval[a].outputs
      BY <1>2, <1>3, <1>6 DEF EvalHold, EvalHoldRows, Evaluating, pathVars
    <2> QED
      BY <1>1, <2>1 DEF StillThere, OutputAt
  <1>7. CASE WriteReport(a)
    <2>1. /\ eval[a].step = "report" /\ eval'[a].step = "idle" /\ UNCHANGED content
          /\ report'[a] = eval[a].outputs
      BY <1>1, <1>7, EvalMoves DEF WriteReport, Evaluating, pathVars, EvalTypeOK
    <2>2. \A i \in DOMAIN report'[a] : /\ report'[a][i] = OutputAt(a, Variants[i])
                                       /\ report'[a][i].path = Variants[i]
      BY <1>1, <2>1 DEF StillThere, OutputAt
    <2> QED
      BY <2>1, <2>2 DEF StillThere, OutputAt
  <1>8. CASE EvalRaises(a) \/ EvalDies(a)
    <2>1. eval'[a].step = "idle" /\ ~eval'[a].current
      BY <1>1, <1>8, EvalMoves
    <2> QED
      BY <2>1 DEF StillThere
  <1>9. CASE EvalRun(a)
    <2>1. /\ eval'[a].step = "generate" /\ eval'[a].at = 1 /\ eval'[a].outputs = << >>
          /\ ~eval'[a].current
      BY <1>1, <1>9, EvalMoves
    <2> QED
      BY <2>1 DEF StillThere
  <1>10. CASE \E i \in Variant : Approve(a, i)
    <2>1. PICK i \in Nat : Approve(a, i)
      BY <1>10, EvalAssumption DEF Variant
    <2>2. eval'[a].step = "lift" /\ ~eval'[a].current /\ eval[a].current
          /\ UNCHANGED <<content, report>>
      BY <1>1, <2>1, EvalMoves DEF Approve, pathVars
    <2> QED
      BY <1>1, <2>2 DEF StillThere, OutputAt
  <1>11. CASE LiftHold(a) \/ MarkApproved(a) \/ ResumeChain(a)
    <2>1. /\ eval[a].step \in {"lift", "mark", "advance"} /\ ~eval'[a].current
          /\ eval'[a].step \in {"mark", "advance", "idle"} /\ UNCHANGED <<content, report>>
      BY <1>2, <1>3, <1>11
         DEF LiftHold, MarkApproved, ResumeChain, Evaluating, pathVars
    <2> QED
      BY <1>1, <2>1 DEF StillThere, OutputAt
  <1> QED
    BY <1>4, <1>5, <1>6, <1>7, <1>8, <1>9, <1>10, <1>11 DEF EvalCommand

LEMMA CommandStands ==
  ASSUME EvalInv, ApprovalInv, NEW a \in Artifact, EvalCommand(a)
  PROVE  Stands(a)'
  <1>1. /\ TypeInv /\ EvalBase /\ EvalTypeOK /\ AloneAt(a) /\ StillThere(a) /\ Stands(a)
        /\ UNCHANGED <<pc, task, read>>
    BY EvalCommandRows DEF EvalInv, EvalBase, EvalTypeOK, TypeInv, EvalAlone, ApprovalInv
  <1>2. CASE ResumeChain(a)
    <2> DEFINE n == NextJob(EvalJob(a))
    <2>1. eval[a].step = "advance" /\ Engaged(a)
      BY <1>2 DEF ResumeChain, Evaluating, Engaged
    <2>2. /\ jobs[EvalJob(a)].status = "done" /\ HasNext(EvalJob(a))
          /\ \A r \in Runner : ~Busy(r, a)
      BY <1>1, <2>1 DEF AloneAt
    <2>3. jobs'[EvalJob(a)] = jobs[EvalJob(a)]
      <3>1. insert_job(n, "ready", TRUE)
        BY <1>2 DEF ResumeChain
      <3>2. n \in Job /\ n # EvalJob(a)
        BY <2>2, EvalStageIsStage, NextJobIsJob, NextJobDiffers
      <3> QED
        BY <1>1, <3>1, <3>2, EvalStageIsStage, InsertRow
    <2>4. chosen'[a] = Picked(a) /\ inp'[a] = Picked(a).path /\ UNCHANGED content
      BY <1>1, <1>2 DEF ResumeChain, EvalTypeOK
    <2>5. Picked(a) = OutputAt(a, Picked(a).path)
      BY <1>1, <2>1 DEF StillThere, Picked, EvalBase, EvalAt
    <2>6. \A r \in Runner : task[r] # EvalJob(a) /\ task[r] # n
      BY <2>2, EvalStageIsStage, RunStageAssumption, NextJobIsJob DEF Busy, Job, NextJob
    <2> QED
      BY <1>1, <2>2, <2>3, <2>4, <2>5, <2>6 DEF Stands, OutputAt, EvalJob, NextJob
  <1>3. CASE MarkApproved(a)
    BY <1>1, <1>3 DEF MarkApproved, Stands, EvalTypeOK
  <1>4. CASE Generate(a) \/ EvalHoldRows(a)
    <2>1. Engaged(a) /\ eval[a].step \in {"generate", "flip"} /\ chosen' = chosen
      BY <1>4 DEF Generate, EvalHoldRows, Evaluating, Engaged
    <2>2. jobs[EvalJob(a)].status \in {"ready", "held"}
      BY <1>1, <2>1 DEF AloneAt
    <2> QED
      BY <1>1, <2>1, <2>2 DEF Stands
  <1>5. CASE UNCHANGED <<jobs, content, inp, chosen>>
    BY <1>1, <1>5 DEF Stands, OutputAt, EvalJob, NextJob
  <1> QED
    BY <1>2, <1>3, <1>4, <1>5
       DEF EvalCommand, EvalRun, Collect, EvalHold, WriteReport, EvalRaises, Approve, LiftHold,
           EvalDies, vars, pathVars

LEMMA EvalCommandApprovals ==
  ASSUME EvalInv, ApprovalInv, VariantsDiffer, Careful, NEW a \in Artifact, EvalCommand(a)
  PROVE  ApprovalInv'
  <1>1. EvalBase /\ EvalTypeOK /\ UNCHANGED <<pc, task, read>>
    BY EvalCommandRows DEF EvalInv, EvalBase
  <1>2. ASSUME NEW b \in Artifact \ {a}
        PROVE  StillThere(b)' /\ Stands(b)'
    <2>1. /\ eval'[b] = eval[b] /\ report'[b] = report[b] /\ chosen'[b] = chosen[b]
          /\ content'[b] = content[b] /\ inp'[b] = inp[b]
          /\ jobs'[EvalJob(b)] = jobs[EvalJob(b)]
      BY <1>1, EvalOthers, EvalCommandRows, EvalStageIsStage
    <2>2. StillThere(b) /\ Stands(b)
      BY DEF ApprovalInv
    <2> QED
      BY <1>1, <2>1, <2>2 DEF StillThere, Stands, OutputAt, EvalJob, NextJob
  <1> QED
    BY <1>2, CommandReports, CommandStands DEF ApprovalInv

LEMMA ApprovalInit == EvalInit => ApprovalInv
  BY DEF EvalInit, NoEval, ApprovalInv, StillThere, Stands

LEMMA Approvals ==
  ASSUME Careful, VariantsDiffer
  PROVE  EvalSpec => []ApprovalInv
  <1>1. EvalInv /\ EvalInv' /\ ApprovalInv /\ [EvalNext]_everything => ApprovalInv'
    <2> SUFFICES ASSUME EvalInv, EvalInv', ApprovalInv, [EvalNext]_everything
                 PROVE  ApprovalInv'
      OBVIOUS
    <2>1. CASE UNCHANGED everything
      BY <2>1 DEF ApprovalInv, StillThere, Stands, OutputAt, EvalJob, NextJob,
                  everything, vars, runVars, evalVars, pathVars
    <2> QED
      BY <2>1, RunApprovals, ElsewhereApprovals, EvalCommandApprovals DEF EvalNext
  <1> QED
    BY <1>1, ApprovalInit, EvalExclusion, PTL DEF EvalSpec

(* Approve picks the winner and the committer consumes it: while an        *)
(* approval stands, whatever the next stage commits is the output that was *)
(* approved, as it was when it was reported. This holds through kills of   *)
(* either command and of every process.                                    *)
THEOREM ApprovedIsCommitted ==
  ASSUME Careful, VariantsDiffer
  PROVE  EvalSpec => CommitsTheApproved
  <1> DEFINE Commits == \A a \in Artifact : taken'[a] # taken[a] /\ chosen[a] # NoOutput
                                              => taken'[a] = chosen[a]
  <1>1. EvalInv /\ ApprovalInv /\ [EvalNext]_everything => [Commits]_everything
    <2> SUFFICES ASSUME EvalInv, ApprovalInv, EvalNext,
                        NEW a \in Artifact, taken'[a] # taken[a], chosen[a] # NoOutput
                 PROVE  taken'[a] = chosen[a]
      OBVIOUS
    <2>1. EvalBase /\ EvalTypeOK /\ TypeInv
      BY DEF EvalInv, EvalBase, EvalTypeOK, TypeInv
    <2>2. PICK r \in Worker \cup Cli : RunWithPaths(r)
      BY <2>1, ElsewherePaths, EvalCommandRows DEF EvalNext
    <2>3. r \in Runner /\ task[r] \in Job
      BY <2>1, <2>2, RunTouches DEF Runner
    <2>4. /\ WriteOutput(r) /\ Consumes(r) /\ pc[r] = "handle"
          /\ taken' = [taken EXCEPT ![task[r][1]] = read[r]]
      BY <2>2, RunCases DEF ReadInput, NamePaths, WriteOutput, Persist
    <2>5. task[r][1] = a /\ taken'[a] = read[r]
      BY <2>1, <2>4 DEF EvalTypeOK
    <2>6. task[r] = NextJob(EvalJob(a))
      BY <2>4, <2>5 DEF Consumes
    <2> QED
      BY <2>3, <2>4, <2>5, <2>6 DEF ApprovalInv, Stands
  <1> QED
    BY <1>1, Approvals, EvalExclusion, PTL DEF EvalSpec, CommitsTheApproved

=============================================================================
