------------------------ MODULE Orchestrator_proofs ------------------------
(***************************************************************************)
(* Theorems about Orchestrator, for every registry of stages, every number *)
(* of workers and commands, and any sequence of crashes.                   *)
(***************************************************************************)
EXTENDS Orchestrator, TLAPS

(* The registry: facts about chains of distinct stages. *)

LEMMA ChainIsSequence ==
  ASSUME NEW t
  PROVE  /\ chain_for(t) \in Seq(Stage)
         /\ chain_for(t) # << >>
         /\ \A i, j \in DOMAIN chain_for(t) : chain_for(t)[i] = chain_for(t)[j] => i = j
  BY StagesAssumption DEF chain_for

(* Where there is a next stage, it is the successor of a position. *)
LEMMA NextStagePosition ==
  ASSUME NEW t, NEW s, next_stage(t, s) # NoStage
  PROVE  \E i \in DOMAIN chain_for(t) :
            /\ i + 1 \in DOMAIN chain_for(t)
            /\ chain_for(t)[i] = s
            /\ chain_for(t)[i + 1] = next_stage(t, s)
  <1>1. Followers(t, s) # {}
    BY DEF next_stage
  <1>2. next_stage(t, s) \in Followers(t, s)
    BY <1>1 DEF next_stage
  <1> QED
    BY <1>2 DEF Followers

(* The job after a job is a job of the same artifact. *)
LEMMA NextJobIsJob ==
  ASSUME NEW k \in Job, HasNext(k)
  PROVE  NextJob(k) \in Job
  <1> DEFINE c == chain_for(SourceOf[k[1]])
  <1>1. PICK i \in DOMAIN c : i + 1 \in DOMAIN c /\ c[i + 1] = next_stage(SourceOf[k[1]], k[2])
    BY NextStagePosition DEF HasNext
  <1>2. c \in Seq(Stage)
    BY ChainIsSequence
  <1>3. c[i + 1] \in Stage
    BY <1>1, <1>2
  <1> QED
    BY <1>1, <1>3 DEF NextJob, Job

(* No two jobs have the same next job. *)
LEMMA NextJobInjective ==
  ASSUME NEW j \in Job, NEW k \in Job, HasNext(j), HasNext(k), NextJob(j) = NextJob(k)
  PROVE  j = k
  <1> DEFINE t == SourceOf[k[1]]
             c == chain_for(t)
  <1>1. j[1] = k[1] /\ next_stage(t, j[2]) = next_stage(t, k[2])
    BY DEF NextJob
  <1>2. PICK i \in DOMAIN c :
          i + 1 \in DOMAIN c /\ c[i] = j[2] /\ c[i + 1] = next_stage(t, j[2])
    BY <1>1, NextStagePosition DEF HasNext
  <1>3. PICK m \in DOMAIN c :
          m + 1 \in DOMAIN c /\ c[m] = k[2] /\ c[m + 1] = next_stage(t, k[2])
    BY NextStagePosition DEF HasNext
  <1>4. i + 1 = m + 1
    BY <1>1, <1>2, <1>3, ChainIsSequence
  <1>5. i \in Int /\ m \in Int
    BY ChainIsSequence
  <1>6. j[2] = k[2]
    BY <1>2, <1>3, <1>4, <1>5
  <1> QED
    BY <1>1, <1>6 DEF Job

(* The first job of an artifact comes after no job. *)
LEMMA FirstJobIsFirst ==
  ASSUME NEW k \in Job, HasNext(k), NEW a
  PROVE  NextJob(k) # FirstJob(a)
  <1> DEFINE t == SourceOf[k[1]]
             c == chain_for(t)
  <1>1. SUFFICES ASSUME NextJob(k) = FirstJob(a)  PROVE FALSE
    OBVIOUS
  <1>2. a = k[1] /\ next_stage(t, k[2]) = c[1]
    BY <1>1 DEF NextJob, FirstJob, first_stage
  <1>3. PICK i \in DOMAIN c : i + 1 \in DOMAIN c /\ c[i + 1] = next_stage(t, k[2])
    BY NextStagePosition DEF HasNext
  <1>4. 1 \in DOMAIN c /\ i \in Nat \ {0}
    BY ChainIsSequence
  <1>5. i + 1 = 1
    BY <1>2, <1>3, <1>4, ChainIsSequence
  <1> QED
    BY <1>4, <1>5
-----------------------------------------------------------------------------
(* Types *)

(* A runner works on a job exactly while it is in the body of run_stage or *)
(* in its failure path, of which the workers have one and the dashboard's  *)
(* threads another.                                                        *)
AtWork == Before \cup After \cup Failing \cup {"give up"}

Control ==
  /\ \A r \in Runner : task[r] # NoJob <=> pc[r] \in AtWork
  /\ \A r \in Runner : pc[r] \in Failing => r \in Worker
  /\ \A r \in Runner : pc[r] = "give up" => r \in Thread

TypeInv == TypeOK /\ Control

LEMMA RowUpdate ==
  ASSUME NEW row \in Row, NEW st \in Status, NEW n \in Nat
  PROVE  [row EXCEPT !.status = st, !.attempts = n] \in Row
  BY DEF Row

LEMMA InsertType ==
  ASSUME TypeOK, NEW k, NEW st \in Status, NEW re, insert_job(k, st, re)
  PROVE  jobs' \in [Job -> Row] /\ clock' \in Nat
  <1>1. CASE ~Exists(k)
    BY <1>1 DEF insert_job, TypeOK, Row, Absent, Exists
  <1>2. CASE Exists(k) /\ k \in Job
    <2>1. [jobs[k] EXCEPT !.status = st, !.attempts = 0] \in Row
      BY <1>2, RowUpdate DEF TypeOK
    <2>2. \/ jobs' = [jobs EXCEPT ![k] = [jobs[k] EXCEPT !.status = st, !.attempts = 0]]
          \/ jobs' = jobs
      BY <1>2 DEF insert_job
    <2> QED
      BY <1>2, <2>1, <2>2 DEF insert_job, TypeOK
  <1>3. CASE k \notin Job
    BY <1>3 DEF insert_job, TypeOK
  <1> QED
    BY <1>1, <1>2, <1>3

LEMMA MergedType ==
  ASSUME TypeOK, NEW key \in ControlKey, NEW st \in {"paused", "running", "keep"},
         NEW n \in Nat \cup {NULL}
  PROVE  MergedRow(ctl, key, st, n) \in ControlRow
  <1>1. ctl[key] \in ControlRow \cup {NoRow}
    BY DEF TypeOK, ControlTable
  <1> QED
    BY <1>1 DEF MergedRow, ControlRow, NoRow, NULL

LEMMA DropType ==
  ASSUME TypeOK, NEW r \in Runner, NEW l \in Label, DropTo(r, l)
  PROVE  /\ pc' \in [Runner -> Label]
         /\ task' \in [Runner -> Job \cup {NoJob}]
         /\ loc' \in [Runner -> Locals]
  BY DEF DropTo, Goto, TypeOK, NoLocals, Locals

LEMMA TakeType ==
  ASSUME TypeOK, NEW r \in Runner, NEW k \in Job, Take(r, k)
  PROVE  /\ pc' \in [Runner -> Label]
         /\ task' \in [Runner -> Job \cup {NoJob}]
         /\ loc' \in [Runner -> Locals]
  BY DEF Take, Goto, TypeOK, NoLocals, Locals, Label, Before

LEMMA LabelFacts ==
  {"start", "handle", "mark", "advance", "insert", "fail", "record", "idle", "claim"}
    \subseteq Label
  BY DEF Label, Before, After, Failing

LEMMA BodyType ==
  ASSUME TypeInv, NEW r \in Runner, RunBody(r)
  PROVE  TypeOK'
  <1> TypeOK
    BY DEF TypeInv
  <1> USE LabelFacts
  <1> USE DEF TypeOK, cmdVars, Goto
  <1>1. CASE Start(r)
    BY <1>1 DEF RunBody, Start, Locals
  <1>2. CASE Persist(r)
    BY <1>2 DEF RunBody, Persist, Locals
  <1>3. CASE MarkDone(r)
    BY <1>3 DEF RunBody, MarkDone, mark_done, Row, Absent, Status
  <1>4. CASE ReadFrozen(r)
    <2>1. PICK st \in {"ready", "held"} : loc' = [loc EXCEPT ![r].status = st]
      BY <1>4 DEF ReadFrozen
    <2>2. [loc[r] EXCEPT !.status = st] \in Locals
      BY DEF Locals
    <2>3. loc' = [loc EXCEPT ![r] = [loc[r] EXCEPT !.status = st]]
      BY <2>1
    <2>4. loc' \in [Runner -> Locals]
      BY <2>2, <2>3
    <2> QED
      BY <1>4, <2>4 DEF RunBody, ReadFrozen
  <1> QED
    BY <1>1, <1>2, <1>3, <1>4 DEF RunBody

LEMMA ReturnsType ==
  ASSUME TypeInv, NEW r \in Runner, Returns(r)
  PROVE  /\ jobs' \in [Job -> Row]
         /\ clock' \in Nat
         /\ UNCHANGED <<ctl, files>>
  <1> TypeOK
    BY DEF TypeInv
  <1> USE DEF TypeOK
  <1>1. CASE MarkLast(r)
    BY <1>1 DEF MarkLast, mark_done, Row, Absent, Status
  <1>2. CASE InsertNext(r)
    <2>1. loc[r].status \in Status
      BY DEF Locals, Status
    <2>2. insert_job(NextJob(task[r]), loc[r].status, TRUE)
      BY <1>2 DEF InsertNext
    <2>3. jobs' \in [Job -> Row] /\ clock' \in Nat
      BY <2>1, <2>2, InsertType, Zenon
    <2> QED
      BY <1>2, <2>3 DEF InsertNext
  <1> QED
    BY <1>1, <1>2 DEF Returns, MarkLast, InsertNext

LEMMA WorkerType ==
  ASSUME TypeInv, NEW w \in Worker, WorkerStep(w)
  PROVE  TypeOK'
  <1> w \in Runner
    BY DEF Runner
  <1> USE LabelFacts
  <1> TypeOK
    BY DEF TypeInv
  <1> USE DEF TypeOK, cmdVars, Goto, Drop, DropTo
  <1>0. NoLocals \in Locals
    BY DEF NoLocals, Locals
  <1>1. CASE ReadLimits(w)
    <2>1. batch_limits(ctl) \subseteq LimitScope \X Nat
      BY DEF batch_limits, ControlTable, ControlRow, NoRow, ControlKey, NULL
    <2>2. PICK lim \in SUBSET (LimitScope \X Nat) : loc' = [loc EXCEPT ![w].limits = lim]
      BY <1>1, <2>1 DEF ReadLimits
    <2>3. [loc[w] EXCEPT !.limits = lim] \in Locals
      BY DEF Locals
    <2>4. loc' = [loc EXCEPT ![w] = [loc[w] EXCEPT !.limits = lim]]
      BY <2>2
    <2>5. loc' \in [Runner -> Locals]
      BY <2>3, <2>4
    <2> QED
      BY <1>1, <2>5 DEF ReadLimits
  <1>2. CASE ClaimNothing(w)
    BY <1>0, <1>2 DEF ClaimNothing
  <1>3. CASE Claim(w)
    <2>1. PICK k \in RunnableBy(w) : ClaimRow(k) /\ Take(w, k)
      BY <1>3 DEF Claim
    <2>2. k \in Job
      BY DEF RunnableBy, Runnable, Window, Candidates
    <2>3. jobs' \in [Job -> Row] /\ clock' \in Nat
      BY <2>1 DEF ClaimRow, Row, Absent, Status
    <2> QED
      BY <1>0, <1>3, <2>1, <2>2, <2>3 DEF Claim, Take
  <1>4. CASE RunBody(w)
    BY <1>4, BodyType
  <1>5. CASE WorkerReturns(w)
    <2>1. jobs' \in [Job -> Row] /\ clock' \in Nat /\ UNCHANGED <<ctl, files>>
      BY <1>5, ReturnsType DEF WorkerReturns
    <2>2. processed' \in [Worker -> [Throttled -> Nat]]
      BY <1>5 DEF WorkerReturns, Tally
    <2> QED
      BY <1>0, <1>5, <2>1, <2>2 DEF WorkerReturns
  <1>6. CASE WorkerRaises(w)
    BY <1>6 DEF WorkerRaises
  <1>7. CASE ReadAttempts(w)
    <2>1. task[w] \in Job
      BY <1>7 DEF ReadAttempts, TypeInv, Control, AtWork, Failing
    <2>2. jobs[task[w]].attempts + 1 \in Nat
      BY <2>1 DEF Row
    <2>3. PICK n \in Nat : loc' = [loc EXCEPT ![w].tries = n]
      BY <1>7, <2>2 DEF ReadAttempts
    <2>4. [loc[w] EXCEPT !.tries = n] \in Locals
      BY DEF Locals
    <2>5. loc' = [loc EXCEPT ![w] = [loc[w] EXCEPT !.tries = n]]
      BY <2>3
    <2>6. loc' \in [Runner -> Locals]
      BY <2>4, <2>5
    <2> QED
      BY <1>7, <2>6 DEF ReadAttempts
  <1>8. CASE RecordFailure(w)
    <2>1. loc[w].tries \in Nat
      BY DEF Locals
    <2>2. task[w] \in Job
      BY <1>8 DEF RecordFailure, TypeInv, Control, AtWork, Failing
    <2>3. jobs' \in [Job -> Row] /\ clock' \in Nat
      BY <1>8, <2>1, <2>2, RowUpdate DEF RecordFailure, WriteAttempt, Status
    <2> QED
      BY <1>0, <1>8, <2>3 DEF RecordFailure
  <1> QED
    BY <1>1, <1>2, <1>3, <1>4, <1>5, <1>6, <1>7, <1>8 DEF WorkerStep
(* What the commands write. *)
LEMMA MoveRowsType ==
  ASSUME jobs \in [Job -> Row], clock \in Nat, NEW a, NEW from, NEW to \in Status,
         MoveRows(a, from, to) \/ RequeueRows(a, from)
  PROVE  jobs' \in [Job -> Row] /\ clock' \in Nat
  <1>1. \A k \in Job : /\ [jobs[k] EXCEPT !.status = to] \in Row
                       /\ [jobs[k] EXCEPT !.status = "ready", !.attempts = 0] \in Row
    BY DEF Row, Status
  <1>2. CASE MoveRows(a, from, to)
    BY <1>1, <1>2 DEF MoveRows
  <1>3. CASE RequeueRows(a, from)
    BY <1>1, <1>3 DEF RequeueRows
  <1> QED
    BY <1>2, <1>3

LEMMA CommandType ==
  ASSUME TypeInv, Command
  PROVE  TypeOK'
  <1> TypeOK
    BY DEF TypeInv
  <1> USE DEF TypeOK, runVars, cmdVars
  <1>0. ASSUME NEW cmd, Give(cmd)
        PROVE  issued' \in 0..MaxCommands
    BY <1>0, OrchestratorAssumption DEF Give
  <1>1. ASSUME NEW a \in Artifact, Ingest(a)
        PROVE  TypeOK'
    <2>1. jobs' \in [Job -> Row] /\ clock' \in Nat
      BY <1>1, InsertType, Zenon DEF Ingest, Status
    <2> QED
      BY <1>1, <2>1 DEF Ingest
  <1>2. ASSUME NEW a \in Artifact, NEW reprocess \in BOOLEAN, Reingest(a, reprocess)
        PROVE  TypeOK'
    <2>1. insert_job(FirstJob(a), "ready", reprocess)
      BY <1>2 DEF Reingest
    <2>2. jobs' \in [Job -> Row] /\ clock' \in Nat
      BY <2>1, InsertType, Zenon DEF Status
    <2> QED
      BY <1>0, <1>2, <2>2 DEF Reingest
  <1>3. ASSUME NEW a \in Artifact, Hold(a) \/ Release(a)
        PROVE  TypeOK'
    <2>1. <<"artifact", a>> \in ControlKey
      BY DEF ControlKey
    <2>2. MergedRow(ctl, <<"artifact", a>>, "paused", NULL) \in ControlRow
      BY <2>1, MergedType DEF NULL
    <2>3. ctl' \in ControlTable
      BY <1>3, <2>2 DEF Hold, Release, ControlTable
    <2>4. CASE Hold(a)
      BY <1>0, <2>3, <2>4 DEF Hold
    <2>5. CASE Release(a)
      BY <1>0, <2>3, <2>5 DEF Release
    <2> QED
      BY <1>3, <2>4, <2>5
  <1>4. ASSUME NEW a \in Artifact, HoldRows(a) \/ ReleaseRows(a)
        PROVE  TypeOK'
    <2>1. jobs' \in [Job -> Row] /\ clock' \in Nat
      BY <1>4, MoveRowsType DEF HoldRows, ReleaseRows, Status
    <2> QED
      BY <1>4, <2>1 DEF HoldRows, ReleaseRows
  <1>5. ASSUME NEW a \in Artifact, Retry(a) \/ RetryButton(a)
        PROVE  TypeOK'
    <2>1. jobs' \in [Job -> Row] /\ clock' \in Nat
      BY <1>5, MoveRowsType DEF Retry, RetryButton, Status
    <2>2. issued' \in 0..MaxCommands
      BY <1>0, <1>5 DEF Retry, RetryButton
    <2> QED
      BY <1>5, <2>1, <2>2 DEF Retry, RetryButton
  <1>6. ASSUME NEW key \in ControlKey, NEW st \in {"paused", "running", "keep"},
               NEW n \in Nat \cup {NULL}, NEW cmd, Give(cmd), ReadControl(key, st, n)
        PROVE  TypeOK'
    <2>1. MergedRow(ctl, key, st, n) \in ControlRow
      BY MergedType
    <2> QED
      BY <1>0, <1>6, <2>1 DEF ReadControl
  <1>7. ASSUME NEW key \in Pausable, Pause(key) \/ Resume(key)
        PROVE  TypeOK'
    <2>1. key \in ControlKey
      BY OrchestratorAssumption DEF ControlKey
    <2> QED
      BY <1>6, <1>7, <2>1 DEF Pause, Resume, NULL
  <1>8. ASSUME NEW sc \in Throttled, NEW n \in Limits, Throttle(sc, n)
        PROVE  TypeOK'
    <2>1. sc \in ControlKey /\ n \in Nat
      BY OrchestratorAssumption DEF ControlKey
    <2> QED
      BY <1>6, <1>8, <2>1 DEF Throttle
  <1>9. ASSUME NEW wr \in writes, WriteControl(wr)
        PROVE  TypeOK'
    <2>1. wr[1] \in ControlKey /\ wr[2] \in ControlRow
      OBVIOUS
    <2>2. ctl' \in ControlTable
      BY <1>9, <2>1 DEF WriteControl, ControlTable
    <2> QED
      BY <1>9, <2>2 DEF WriteControl
  <1>10. ASSUME NEW k \in Job, RetryStage(k)
         PROVE  TypeOK'
    <2>1. jobs' \in [Job -> Row] /\ clock' \in Nat
      BY <1>10, RowUpdate DEF RetryStage, RequeueStage, Status
    <2> QED
      BY <1>0, <1>10, <2>1 DEF RetryStage
  <1>11. ASSUME NEW k \in Job, NEW c \in Cli, Step(c, k)
         PROVE  TypeOK'
    <2>1. NoLocals \in Locals /\ "start" \in Label
      BY DEF NoLocals, Locals, Label, Before
    <2>2. c \in Runner
      BY DEF Runner
    <2> QED
      BY <1>0, <1>11, <2>1, <2>2 DEF Step, Take, Goto
  <1> QED
    BY <1>1, <1>2, <1>3, <1>4, <1>5, <1>7, <1>8, <1>9, <1>10, <1>11 DEF Command
LEMMA StepType ==
  ASSUME TypeInv, Next
  PROVE  TypeOK'
  <1> TypeOK
    BY DEF TypeInv
  <1>0. NoLocals \in Locals /\ "idle" \in Label
    BY DEF NoLocals, Locals, Label
  <1>1. ASSUME NEW w \in Worker, WorkerStep(w)
        PROVE  TypeOK'
    BY <1>1, WorkerType
  <1>2. ASSUME NEW c \in Cli, RunBody(c)
        PROVE  TypeOK'
    BY <1>2, BodyType DEF Runner
  <1>3. ASSUME NEW c \in Cli, StepReturns(c)
        PROVE  TypeOK'
    <2>1. jobs' \in [Job -> Row] /\ clock' \in Nat /\ UNCHANGED <<ctl, files>>
      BY <1>3, ReturnsType DEF StepReturns, Runner
    <2> QED
      BY <1>0, <1>3, <2>1 DEF StepReturns, TypeOK, Drop, DropTo, Goto, cmdVars
  <1>4. ASSUME NEW c \in Cli, StepRaises(c)
        PROVE  TypeOK'
    BY <1>0, <1>4 DEF StepRaises, TypeOK, Drop, DropTo, Goto, cmdVars
  <1>5. ASSUME NEW r \in Worker \cup Cli, Crash(r)
        PROVE  TypeOK'
    <2>1. crashes' \in 0..MaxCrashes
      BY <1>5, OrchestratorAssumption DEF Crash, TypeOK
    <2>2. processed' \in [Worker -> [Throttled -> Nat]]
      BY <1>5 DEF Crash, TypeOK, NoTally
    <2> QED
      BY <1>0, <1>5, <2>1, <2>2 DEF Crash, TypeOK, Drop, DropTo, Goto, cmdVars
  <1>6. CASE Command
    BY <1>6, CommandType
  <1> QED
    BY <1>1, <1>2, <1>3, <1>4, <1>5, <1>6 DEF Next

(* Control: each step moves one runner at most, along run_stage, into it or *)
(* out of it.                                                               *)
LEMMA BodyControl ==
  ASSUME TypeInv, NEW r \in Runner, Start(r) \/ Persist(r) \/ MarkDone(r) \/ ReadFrozen(r)
  PROVE  Control'
  BY DEF Start, Persist, MarkDone, ReadFrozen, Goto, TypeInv, TypeOK, Control, AtWork, Before,
         After, Failing

LEMMA DropControl ==
  ASSUME TypeInv, NEW r \in Runner, NEW l \in Label \ AtWork, DropTo(r, l)
  PROVE  Control'
  BY DEF DropTo, Goto, TypeInv, TypeOK, Control, AtWork, Failing

LEMMA TakeControl ==
  ASSUME TypeInv, NEW r \in Runner, NEW k \in Job, Take(r, k)
  PROVE  Control'
  BY RunStageAssumption
     DEF Take, Goto, TypeInv, TypeOK, Control, AtWork, Before, Failing, Job

LEMMA StepControl ==
  ASSUME TypeInv, Next
  PROVE  Control'
  <1> TypeOK /\ Control
    BY DEF TypeInv
  <1> USE RunStageAssumption
  <1>1. ASSUME NEW r \in Worker \cup Cli,
               \/ Start(r) \/ Persist(r) \/ MarkDone(r) \/ ReadFrozen(r)
        PROVE  Control'
    BY <1>1, BodyControl DEF Runner
  <1>2. ASSUME NEW r \in Worker \cup Cli, Drop(r)
        PROVE  Control'
    <2>1. "idle" \in Label \ AtWork
      BY DEF Label, AtWork, Before, After, Failing
    <2> QED
      BY <1>2, <2>1, DropControl DEF Drop, Runner
  <1>3. ASSUME NEW r \in Worker \cup Cli, NEW k \in Job, Take(r, k)
        PROVE  Control'
    BY <1>3, TakeControl DEF Runner
  <1> USE DEF Control, AtWork, Before, After, Failing, Runner
  <1>4. ASSUME NEW w \in Worker, WorkerStep(w)
        PROVE  Control'
    <2>1. CASE RunBody(w)
      BY <1>1, <2>1 DEF RunBody
    <2>2. CASE ClaimNothing(w) \/ WorkerReturns(w) \/ RecordFailure(w)
      BY <1>2, <2>2 DEF ClaimNothing, WorkerReturns, RecordFailure
    <2>3. CASE Claim(w)
      <3>1. PICK k \in RunnableBy(w) : Take(w, k)
        BY <2>3 DEF Claim
      <3>2. k \in Job
        BY DEF RunnableBy, Runnable, Window, Candidates
      <3> QED
        BY <1>3, <3>1, <3>2
    <2>4. CASE ReadLimits(w)
      BY <2>4 DEF ReadLimits, Goto, TypeOK
    <2>5. CASE WorkerRaises(w)
      BY <2>5 DEF WorkerRaises, Raises, Goto, TypeOK
    <2>6. CASE ReadAttempts(w)
      BY <2>6 DEF ReadAttempts, Goto, TypeOK
    <2> QED
      BY <1>4, <2>1, <2>2, <2>3, <2>4, <2>5, <2>6 DEF WorkerStep
  <1>5. ASSUME NEW c \in Cli, RunBody(c) \/ StepReturns(c) \/ StepRaises(c)
        PROVE  Control'
    BY <1>1, <1>2, <1>5 DEF RunBody, StepReturns, StepRaises
  <1>6. ASSUME NEW r \in Worker \cup Cli, Crash(r)
        PROVE  Control'
    BY <1>2, <1>6 DEF Crash
  <1>7. ASSUME NEW c \in Cli, NEW k \in Job, Step(c, k)
        PROVE  Control'
    BY <1>3, <1>7 DEF Step
  <1>8. CASE Command /\ UNCHANGED runVars
    BY <1>8 DEF runVars
  <1>9. Command => UNCHANGED runVars \/ \E k \in Job, c \in Cli : Step(c, k)
    BY DEF Command, Ingest, Reingest, Hold, HoldRows, Release, ReleaseRows, Retry, RetryButton,
           Pause, Resume, Throttle, ReadControl, WriteControl, RetryStage
  <1> QED
    BY <1>4, <1>5, <1>6, <1>7, <1>8, <1>9 DEF Next

LEMMA TypeInit == Init => TypeInv
  <1>1. Init => TypeOK
    BY OrchestratorAssumption, RunStageAssumption
       DEF Init, RunInit, TypeOK, Runner, Row, Absent, ControlTable, Locals, NoLocals, Label,
           NoTally
  <1>2. Init => Control
    BY DEF Init, RunInit, Control, AtWork, Before, After, Failing
  <1> QED
    BY <1>1, <1>2 DEF TypeInv

LEMMA TypeInvariant == Spec => []TypeInv
  <1>1. TypeInv /\ [Next]_vars => TypeInv'
    <2>1. CASE Next
      BY <2>1, StepType, StepControl DEF TypeInv
    <2>2. CASE UNCHANGED vars
      BY <2>2 DEF vars, runVars, cmdVars, TypeInv, TypeOK, Control
    <2> QED
      BY <2>1, <2>2
  <1> QED
    BY <1>1, TypeInit, PTL DEF Spec

(* The type invariant of Orchestrator, for all values of its constants: no *)
(* interleaving of workers, commands and crashes takes a row, a control or *)
(* a process out of the values the program knows.                          *)
THEOREM TypeCorrect == Spec => []TypeOK
  BY TypeInvariant, PTL DEF TypeInv
-----------------------------------------------------------------------------
(* Persistence. PersistedBeforeAdvance speaks of finished jobs and queued  *)
(* next jobs; to be inductive it must also know of the runners: one that   *)
(* is past its handler has an intermediate, one that is past mark_done has *)
(* a next stage, and every runner has a row.                               *)

RunnersHaveRows == \A r \in Runner : task[r] # NoJob => Exists(task[r])

HandledIsPersisted ==
  \A r \in Runner : pc[r] \in {"mark"} \cup After => files[task[r]] # "none"

AdvancingHasNext == \A r \in Runner : pc[r] \in After => HasNext(task[r])

PersistInv ==
  /\ RunnersHaveRows
  /\ HandledIsPersisted
  /\ AdvancingHasNext
  /\ PersistedBeforeAdvance

(* What a step may do to rows and intermediates: it deletes neither, and   *)
(* what it finishes, or queues after a job, has the job's intermediate.    *)
Effect ==
  /\ \A k \in Job : Exists(k) => jobs'[k].status # "absent"
  /\ \A k \in Job : files[k] # "none" => files'[k] # "none"
  /\ \A k \in Job : jobs'[k].status = "done" => jobs[k].status = "done" \/ files[k] # "none"
  /\ \A k \in Job : HasNext(k) /\ jobs'[NextJob(k)].status # "absent"
                      => Exists(NextJob(k)) \/ files[k] # "none"

LEMMA EffectPersists ==
  ASSUME PersistedBeforeAdvance, Effect
  PROVE  PersistedBeforeAdvance'
  BY DEF PersistedBeforeAdvance, Effect, Exists, HasNext, NextJob

(* Steps that leave the runners alone. *)
LEMMA EffectKeepsRunners ==
  ASSUME TypeInv, PersistInv, Effect, UNCHANGED <<pc, task>>
  PROVE  PersistInv'
  <1>1. \A r \in Runner : task[r] # NoJob => task[r] \in Job
    BY DEF TypeInv, TypeOK
  <1>2. \A r \in Runner : pc[r] \in {"mark"} \cup After => task[r] \in Job
    BY <1>1 DEF TypeInv, Control, AtWork, Before
  <1>3. RunnersHaveRows'
    BY <1>1 DEF PersistInv, Effect, RunnersHaveRows, Exists
  <1>4. HandledIsPersisted'
    BY <1>2 DEF PersistInv, Effect, HandledIsPersisted
  <1>5. AdvancingHasNext'
    BY DEF PersistInv, AdvancingHasNext, HasNext
  <1> QED
    BY <1>3, <1>4, <1>5, EffectPersists DEF PersistInv

(* Steps in which a runner leaves run_stage. *)
LEMMA EffectDropTo ==
  ASSUME TypeInv, PersistInv, Effect, NEW r \in Runner, NEW l \in Label \ AtWork,
         DropTo(r, l)
  PROVE  PersistInv'
  <1>1. \A q \in Runner : task[q] # NoJob => task[q] \in Job
    BY DEF TypeInv, TypeOK
  <1>2. \A q \in Runner : pc[q] \in {"mark"} \cup After => task[q] \in Job
    BY <1>1 DEF TypeInv, Control, AtWork, Before
  <1>3. /\ \A q \in Runner \ {r} : pc'[q] = pc[q] /\ task'[q] = task[q]
        /\ pc'[r] \notin {"mark"} \cup After /\ task'[r] = NoJob
    BY DEF DropTo, Goto, TypeInv, TypeOK, AtWork, Before
  <1>4. RunnersHaveRows'
    BY <1>1, <1>3 DEF PersistInv, Effect, RunnersHaveRows, Exists
  <1>5. HandledIsPersisted'
    BY <1>2, <1>3 DEF PersistInv, Effect, HandledIsPersisted, After
  <1>6. AdvancingHasNext'
    BY <1>3 DEF PersistInv, AdvancingHasNext, HasNext, After
  <1> QED
    BY <1>4, <1>5, <1>6, EffectPersists DEF PersistInv

LEMMA EffectDrop ==
  ASSUME TypeInv, PersistInv, Effect, NEW r \in Runner, Drop(r)
  PROVE  PersistInv'
  <1>1. "idle" \in Label \ AtWork
    BY DEF Label, AtWork, Before, After, Failing
  <1> QED
    BY <1>1, EffectDropTo DEF Drop

(* Steps in which a runner enters it, for a row that is there. *)
LEMMA EffectTake ==
  ASSUME TypeInv, PersistInv, Effect, NEW r \in Runner, NEW k \in Job, Exists(k), Take(r, k)
  PROVE  PersistInv'
  <1>1. \A q \in Runner : task[q] # NoJob => task[q] \in Job
    BY DEF TypeInv, TypeOK
  <1>2. \A q \in Runner : pc[q] \in {"mark"} \cup After => task[q] \in Job
    BY <1>1 DEF TypeInv, Control, AtWork, Before
  <1>3. /\ \A q \in Runner \ {r} : pc'[q] = pc[q] /\ task'[q] = task[q]
        /\ pc'[r] = "start" /\ task'[r] = k
    BY DEF Take, Goto, TypeInv, TypeOK
  <1>4. RunnersHaveRows'
    BY <1>1, <1>3 DEF PersistInv, Effect, RunnersHaveRows, Exists
  <1>5. HandledIsPersisted'
    BY <1>2, <1>3 DEF PersistInv, Effect, HandledIsPersisted, After
  <1>6. AdvancingHasNext'
    BY <1>3 DEF PersistInv, AdvancingHasNext, HasNext, After
  <1> QED
    BY <1>4, <1>5, <1>6, EffectPersists DEF PersistInv
-----------------------------------------------------------------------------
(* Rows change, intermediates do not. *)

LEMMA RowsOnly ==
  ASSUME TypeInv, UNCHANGED files,
         \A k \in Job : /\ Exists(k) => jobs'[k].status # "absent"
                        /\ jobs'[k].status = "done" => jobs[k].status = "done" \/ files[k] # "none"
                        /\ jobs'[k].status # "absent" =>
                             \/ Exists(k)
                             \/ \A j \in Job : HasNext(j) /\ NextJob(j) = k => files[j] # "none"
  PROVE  Effect
  <1>1. ASSUME NEW k \in Job, HasNext(k), jobs'[NextJob(k)].status # "absent"
        PROVE  Exists(NextJob(k)) \/ files[k] # "none"
    <2>1. NextJob(k) \in Job
      BY <1>1, NextJobIsJob
    <2> QED
      BY <1>1, <2>1
  <1> QED
    BY <1>1 DEF Effect

LEMMA RowStatus ==
  ASSUME NEW row \in Row, NEW st \in Status
  PROVE  /\ [row EXCEPT !.status = st].status = st
         /\ [row EXCEPT !.status = st, !.attempts = 0].status = st
  BY DEF Row

LEMMA Unchanged ==
  ASSUME TypeInv, UNCHANGED <<jobs, files>>
  PROVE  Effect
  BY RowsOnly DEF Exists

(* One row, which is there, gets a status other than done. *)
LEMMA SetStatus ==
  ASSUME TypeInv, UNCHANGED files, NEW k \in Job, Exists(k), NEW row \in Row,
         row.status \notin {"absent", "done"}, jobs' = [jobs EXCEPT ![k] = row]
  PROVE  Effect
  BY RowsOnly DEF Exists, TypeInv, TypeOK

LEMMA MoveEffect ==
  ASSUME TypeInv, UNCHANGED files, NEW a, NEW from \in SUBSET (Status \ {"done"}),
         NEW to \in {"ready", "held"}, MoveRows(a, from, to) \/ RequeueRows(a, from)
  PROVE  Effect
  <1>1. \A k \in Job : \/ jobs'[k] = jobs[k]
                       \/ jobs[k].status \in from /\ jobs'[k].status \in {"ready", "held"}
    <2>1. to \in Status /\ "ready" \in Status /\ \A k \in Job : jobs[k] \in Row
      BY DEF TypeInv, TypeOK, Status
    <2>2. CASE MoveRows(a, from, to)
      BY <2>1, <2>2, RowStatus DEF MoveRows
    <2>3. CASE RequeueRows(a, from)
      BY <2>1, <2>3, RowStatus DEF RequeueRows
    <2> QED
      BY <2>2, <2>3
  <1> QED
    BY <1>1, RowsOnly DEF Exists, Status

LEMMA InsertEffect ==
  ASSUME TypeInv, UNCHANGED files, NEW k \in Job, NEW st \in {"ready", "held"},
         NEW re \in BOOLEAN, insert_job(k, st, re),
         Exists(k) \/ \A j \in Job : HasNext(j) /\ NextJob(j) = k => files[j] # "none"
  PROVE  Effect
  <1>1. \/ jobs' = jobs
        \/ jobs' = [jobs EXCEPT ![k] = [status |-> st, attempts |-> 0, created |-> clock]]
        \/ jobs' = [jobs EXCEPT ![k] = [jobs[k] EXCEPT !.status = st, !.attempts = 0]]
    BY DEF insert_job
  <1>2. \A j \in Job : \/ jobs'[j] = jobs[j]
                       \/ j = k /\ jobs'[j].status = st
    <2>1. st \in Status /\ jobs \in [Job -> Row] /\ jobs[k] \in Row
      BY DEF TypeInv, TypeOK, Status
    <2>2. [jobs[k] EXCEPT !.status = st, !.attempts = 0].status = st
      BY <2>1, RowStatus
    <2>3. [status |-> st, attempts |-> 0, created |-> clock].status = st
      OBVIOUS
    <2>4. jobs' = jobs \/ \E row : row.status = st /\ jobs' = [jobs EXCEPT ![k] = row]
      BY <1>1, <2>2, <2>3, Zenon
    <2> QED
      BY <2>1, <2>4
  <1> SUFFICES ASSUME NEW i \in Job
               PROVE  /\ Exists(i) => jobs'[i].status # "absent"
                      /\ jobs'[i].status = "done" => jobs[i].status = "done"
                      /\ jobs'[i].status # "absent" =>
                           \/ Exists(i)
                           \/ \A j \in Job : HasNext(j) /\ NextJob(j) = i => files[j] # "none"
    BY RowsOnly
  <1> QED
    BY <1>2 DEF Exists
-----------------------------------------------------------------------------
(* The steps of run_stage *)

LEMMA BodyPersists ==
  ASSUME TypeInv, PersistInv, NEW r \in Runner, RunBody(r)
  PROVE  PersistInv'
  <1>1. \A q \in Runner : task[q] # NoJob => task[q] \in Job
    BY DEF TypeInv, TypeOK
  <1>2. \A q \in Runner : pc[q] \in AtWork => task[q] \in Job
    BY <1>1 DEF TypeInv, Control
  <1>3. pc[r] \in AtWork /\ task[r] \in Job
    BY <1>2 DEF RunBody, Start, Persist, MarkDone, ReadFrozen, AtWork, Before, After
  <1>4. UNCHANGED task /\ \A q \in Runner \ {r} : pc'[q] = pc[q]
    BY DEF RunBody, Start, Persist, MarkDone, ReadFrozen, Goto, TypeInv, TypeOK
  <1>5. Effect
    <2>1. CASE Start(r) \/ ReadFrozen(r)
      BY <2>1, Unchanged DEF Start, ReadFrozen
    <2>2. CASE Persist(r)
      <3>1. loc[r].input # "none"
        BY DEF TypeInv, TypeOK, Locals
      <3>2. UNCHANGED jobs /\ \A k \in Job : files[k] # "none" => files'[k] # "none"
        BY <2>2, <3>1 DEF Persist
      <3> QED
        BY <3>2 DEF Effect, Exists
    <2>3. CASE MarkDone(r)
      <3>1. files[task[r]] # "none"
        BY <2>3 DEF MarkDone, PersistInv, HandledIsPersisted
      <3>2. Exists(task[r])
        BY <1>3, RunStageAssumption DEF PersistInv, RunnersHaveRows, Job
      <3>3. UNCHANGED files
        BY <2>3 DEF MarkDone
      <3>4. \A k \in Job : jobs'[k] = jobs[k] \/ (k = task[r] /\ jobs'[k].status = "done")
        BY <1>3, <2>3 DEF MarkDone, mark_done, TypeInv, TypeOK, Row
      <3> QED
        BY <3>1, <3>2, <3>3, <3>4, RowsOnly DEF Exists
    <2> QED
      BY <2>1, <2>2, <2>3 DEF RunBody
  <1>6. RunnersHaveRows'
    BY <1>1, <1>4, <1>5 DEF PersistInv, Effect, RunnersHaveRows, Exists
  <1>7. HandledIsPersisted'
    <2>1. pc'[r] \in {"mark"} \cup After => files'[task[r]] # "none"
      <3>1. CASE Start(r)
        BY <3>1 DEF Start, Goto, TypeInv, TypeOK, After
      <3>2. CASE Persist(r)
        <4>1. loc[r].input # "none"
          BY DEF TypeInv, TypeOK, Locals
        <4> QED
          BY <1>3, <3>2, <4>1 DEF Persist
      <3>3. CASE MarkDone(r) \/ ReadFrozen(r)
        BY <3>3 DEF MarkDone, ReadFrozen, PersistInv, HandledIsPersisted, After
      <3> QED
        BY <3>1, <3>2, <3>3 DEF RunBody
    <2> QED
      BY <1>2, <1>4, <1>5, <2>1
         DEF PersistInv, Effect, HandledIsPersisted, AtWork, Before
  <1>8. AdvancingHasNext'
    <2>1. pc'[r] \in After => HasNext(task[r])
      BY DEF RunBody, Start, Persist, MarkDone, ReadFrozen, Goto, TypeInv, TypeOK, After,
             PersistInv, AdvancingHasNext
    <2> QED
      BY <1>4, <2>1 DEF PersistInv, AdvancingHasNext, HasNext
  <1> QED
    BY <1>5, <1>6, <1>7, <1>8, EffectPersists DEF PersistInv

LEMMA ReturnsEffect ==
  ASSUME TypeInv, PersistInv, NEW r \in Runner, Returns(r)
  PROVE  Effect
  <1>1. task[r] \in Job /\ Exists(task[r]) /\ files[task[r]] # "none"
    BY RunStageAssumption
       DEF Returns, MarkLast, InsertNext, TypeInv, TypeOK, Control, AtWork, Before, After,
           PersistInv, RunnersHaveRows, HandledIsPersisted, Job
  <1>2. UNCHANGED files
    BY DEF Returns, MarkLast, InsertNext
  <1>3. CASE MarkLast(r)
    <2>1. \A k \in Job : jobs'[k] = jobs[k] \/ (k = task[r] /\ jobs'[k].status = "done")
      BY <1>1, <1>3 DEF MarkLast, mark_done, TypeInv, TypeOK, Row
    <2> QED
      BY <1>1, <1>2, <2>1, RowsOnly DEF Exists
  <1>4. CASE InsertNext(r)
    <2>1. HasNext(task[r])
      BY <1>4 DEF InsertNext, PersistInv, AdvancingHasNext, After
    <2>2. NextJob(task[r]) \in Job
      BY <1>1, <2>1, NextJobIsJob
    <2>3. \A j \in Job : HasNext(j) /\ NextJob(j) = NextJob(task[r]) => files[j] # "none"
      BY <1>1, <2>1, NextJobInjective
    <2>4. loc[r].status \in {"ready", "held"}
      BY DEF TypeInv, TypeOK, Locals
    <2>5. insert_job(NextJob(task[r]), loc[r].status, TRUE)
      BY <1>4 DEF InsertNext
    <2>6. TRUE \in BOOLEAN
      OBVIOUS
    <2> QED
      BY <1>2, <2>2, <2>3, <2>4, <2>5, <2>6, InsertEffect, Zenon
  <1> QED
    BY <1>3, <1>4 DEF Returns
LEMMA WorkerPersists ==
  ASSUME TypeInv, PersistInv, NEW w \in Worker, WorkerStep(w)
  PROVE  PersistInv'
  <1> w \in Runner
    BY DEF Runner
  <1>1. CASE RunBody(w)
    BY <1>1, BodyPersists
  <1>2. CASE ClaimNothing(w)
    BY <1>2, Unchanged, EffectDrop DEF ClaimNothing
  <1>3. CASE WorkerReturns(w)
    BY <1>3, ReturnsEffect, EffectDrop DEF WorkerReturns
  <1>4. CASE Claim(w)
    <2>1. PICK k \in RunnableBy(w) : ClaimRow(k) /\ Take(w, k)
      BY <1>4 DEF Claim
    <2>2. k \in Job /\ jobs[k].status = "ready"
      BY DEF RunnableBy, Runnable, Window, Candidates
    <2>3. UNCHANGED files
      BY <1>4 DEF Claim
    <2>4. \A j \in Job : jobs'[j] = jobs[j] \/ (j = k /\ jobs'[j].status = "running")
      BY <2>1, <2>2 DEF ClaimRow, TypeInv, TypeOK, Row
    <2>5. Effect
      BY <2>2, <2>3, <2>4, RowsOnly DEF Exists
    <2> QED
      BY <2>1, <2>2, <2>5, EffectTake DEF Exists
  <1>5. CASE RecordFailure(w)
    <2>1. task[w] \in Job /\ Exists(task[w])
      BY <1>5, RunStageAssumption
         DEF RecordFailure, TypeInv, TypeOK, Control, AtWork, Failing, PersistInv,
             RunnersHaveRows, Job
    <2>2. PICK st \in {"failed", "ready"} :
            jobs' = [jobs EXCEPT ![task[w]] =
                       [jobs[task[w]] EXCEPT !.status = st, !.attempts = loc[w].tries]]
      BY <1>5 DEF RecordFailure, WriteAttempt
    <2>3. [jobs[task[w]] EXCEPT !.status = st, !.attempts = loc[w].tries].status = st
      BY <2>1 DEF TypeInv, TypeOK, Row
    <2>4. \A j \in Job : jobs'[j] = jobs[j] \/ (j = task[w] /\ jobs'[j].status = st)
      BY <2>1, <2>2, <2>3 DEF TypeInv, TypeOK
    <2>5. UNCHANGED files
      BY <1>5 DEF RecordFailure
    <2>6. Effect
      BY <2>1, <2>4, <2>5, RowsOnly DEF Exists
    <2> QED
      BY <1>5, <2>6, EffectDrop DEF RecordFailure
  <1>6. CASE ReadLimits(w) \/ WorkerRaises(w) \/ ReadAttempts(w)
    <2>1. Effect
      BY <1>6, Unchanged DEF ReadLimits, WorkerRaises, ReadAttempts
    <2>2. /\ UNCHANGED task
          /\ \A q \in Runner \ {w} : pc'[q] = pc[q]
          /\ pc'[w] \notin {"mark"} \cup After
      BY <1>6 DEF ReadLimits, WorkerRaises, ReadAttempts, Goto, TypeInv, TypeOK, After
    <2>3. \A q \in Runner : task[q] # NoJob => task[q] \in Job
      BY DEF TypeInv, TypeOK
    <2>4. \A q \in Runner : pc[q] \in {"mark"} \cup After => task[q] \in Job
      BY <2>3 DEF TypeInv, Control, AtWork, Before
    <2>5. RunnersHaveRows'
      BY <2>1, <2>2, <2>3 DEF PersistInv, Effect, RunnersHaveRows, Exists
    <2>6. HandledIsPersisted'
      BY <2>1, <2>2, <2>4 DEF PersistInv, Effect, HandledIsPersisted
    <2>7. AdvancingHasNext'
      BY <2>2 DEF PersistInv, AdvancingHasNext, HasNext
    <2> QED
      BY <2>1, <2>5, <2>6, <2>7, EffectPersists DEF PersistInv
  <1> QED
    BY <1>1, <1>2, <1>3, <1>4, <1>5, <1>6 DEF WorkerStep

(* A command changes rows only: it requeues or holds those that are there, *)
(* and creates none but first ones.                                        *)
LEMMA CommandPersists ==
  ASSUME TypeInv, PersistInv, Command
  PROVE  PersistInv'
  <1>1. ASSUME NEW a \in Artifact, NEW re \in BOOLEAN, insert_job(FirstJob(a), "ready", re),
               UNCHANGED files
        PROVE  Effect
    <2>1. FirstJob(a) \in Job
      BY JobTableAssumption, ChainIsSequence DEF FirstJob, first_stage, Job
    <2>2. \A j \in Job : HasNext(j) => NextJob(j) # FirstJob(a)
      BY FirstJobIsFirst
    <2> QED
      BY <1>1, <2>1, <2>2, InsertEffect
  <1>2. ASSUME NEW a \in Artifact, Ingest(a)
        PROVE  Effect /\ UNCHANGED <<pc, task>>
    BY <1>1, <1>2 DEF Ingest, runVars
  <1>3. ASSUME NEW a \in Artifact, NEW re \in BOOLEAN, Reingest(a, re)
        PROVE  Effect /\ UNCHANGED <<pc, task>>
    BY <1>1, <1>3 DEF Reingest, runVars
  <1>4. ASSUME NEW a \in Artifact,
               HoldRows(a) \/ ReleaseRows(a) \/ Retry(a) \/ RetryButton(a)
        PROVE  Effect /\ UNCHANGED <<pc, task>>
    <2>1. {"ready"} \subseteq Status \ {"done"} /\ {"held"} \subseteq Status \ {"done"}
           /\ {"failed"} \subseteq Status \ {"done"}
           /\ {"failed", "held"} \subseteq Status \ {"done"}
      BY DEF Status
    <2> QED
      BY <1>4, <2>1, MoveEffect DEF HoldRows, ReleaseRows, Retry, RetryButton, runVars
  <1>5. ASSUME NEW k \in Job, RetryStage(k)
        PROVE  Effect /\ UNCHANGED <<pc, task>>
    <2>1. \A j \in Job : jobs'[j] = jobs[j] \/ (j = k /\ jobs'[j].status = "ready")
      BY <1>5 DEF RetryStage, RequeueStage, TypeInv, TypeOK, Row
    <2> QED
      BY <1>5, <2>1, RowsOnly DEF RetryStage, runVars, Exists
  <1>6. ASSUME NEW k \in Job, NEW c \in Cli, Step(c, k)
        PROVE  PersistInv'
    <2>1. Effect
      BY <1>6, Unchanged DEF Step
    <2> QED
      BY <1>6, <2>1, EffectTake DEF Step, Runner
  <1>7. CASE UNCHANGED <<jobs, runVars>>
    BY <1>7, Unchanged, EffectKeepsRunners DEF runVars
  <1>8. ASSUME NEW a \in Artifact, Hold(a) \/ Release(a)
        PROVE  UNCHANGED <<jobs, runVars>>
    BY <1>8 DEF Hold, Release
  <1>9. ASSUME NEW key \in Pausable, Pause(key) \/ Resume(key)
        PROVE  UNCHANGED <<jobs, runVars>>
    BY <1>9 DEF Pause, Resume, ReadControl
  <1>10. ASSUME NEW sc \in Throttled, NEW n \in Limits, Throttle(sc, n)
         PROVE  UNCHANGED <<jobs, runVars>>
    BY <1>10 DEF Throttle, ReadControl
  <1>11. ASSUME NEW wr \in writes, WriteControl(wr)
         PROVE  UNCHANGED <<jobs, runVars>>
    BY <1>11 DEF WriteControl
  <1> QED
    BY <1>2, <1>3, <1>4, <1>5, <1>6, <1>7, <1>8, <1>9, <1>10, <1>11, EffectKeepsRunners
       DEF Command

LEMMA StepPersists ==
  ASSUME TypeInv, PersistInv, Next
  PROVE  PersistInv'
  <1>1. ASSUME NEW c \in Cli, RunBody(c) \/ StepReturns(c) \/ StepRaises(c)
        PROVE  PersistInv'
    <2> c \in Runner
      BY DEF Runner
    <2>1. CASE RunBody(c)
      BY <2>1, BodyPersists
    <2>2. CASE StepReturns(c)
      BY <2>2, ReturnsEffect, EffectDrop DEF StepReturns
    <2>3. CASE StepRaises(c)
      BY <2>3, Unchanged, EffectDrop DEF StepRaises
    <2> QED
      BY <1>1, <2>1, <2>2, <2>3
  <1>2. ASSUME NEW r \in Worker \cup Cli, Crash(r)
        PROVE  PersistInv'
    BY <1>2, Unchanged, EffectDrop DEF Crash, Runner
  <1> QED
    BY <1>1, <1>2, WorkerPersists, CommandPersists DEF Next

LEMMA PersistInit == Init => PersistInv
  <1> SUFFICES ASSUME Init  PROVE PersistInv
    OBVIOUS
  <1>1. \A k \in Job : jobs[k].status = "absent"
    BY DEF Init, Absent
  <1>2. \A r \in Runner : pc[r] = "idle" /\ task[r] = NoJob
    BY DEF Init, RunInit
  <1>3. ASSUME NEW k \in Job, HasNext(k)
        PROVE  ~Exists(NextJob(k))
    BY <1>1, <1>3, NextJobIsJob DEF Exists
  <1>4. PersistedBeforeAdvance
    BY <1>1, <1>3 DEF PersistedBeforeAdvance
  <1> QED
    BY <1>2, <1>4 DEF PersistInv, RunnersHaveRows, HandledIsPersisted, AdvancingHasNext, After

LEMMA PersistInvariant == Spec => []PersistInv
  <1>1. TypeInv /\ PersistInv /\ [Next]_vars => PersistInv'
    <2>1. ASSUME TypeInv, PersistInv, UNCHANGED vars
          PROVE  PersistInv'
      BY <2>1, Unchanged, EffectKeepsRunners DEF vars, runVars
    <2> QED
      BY <2>1, StepPersists
  <1> QED
    BY <1>1, PersistInit, TypeInvariant, PTL DEF Spec

(* No stage is done, and none is queued after another, without the         *)
(* intermediate of the stage before it: for every registry, any number of  *)
(* processes, any commands at any time, and any sequence of crashes.       *)
THEOREM PersistBeforeAdvance == Spec => []PersistedBeforeAdvance
  <1>1. PersistInv => PersistedBeforeAdvance
    BY DEF PersistInv
  <1> QED
    BY <1>1, PersistInvariant, PTL
-----------------------------------------------------------------------------
(* Attempts *)

(* The attempts of a row agree with its status. *)
Counted(row) ==
  /\ row.status = "failed" => row.attempts >= MaxAttempts
  /\ row.status \in {"ready", "held", "running"} => row.attempts < MaxAttempts

(* What the statements that change a row make of it. *)
LEMMA CountedRows ==
  ASSUME NEW row \in Row
  PROVE  /\ \A st \in Status \ {"failed"} :
              Counted([row EXCEPT !.status = st, !.attempts = 0])
         /\ \A st \in {"ready", "held"}, n \in Nat :
              Counted([status |-> st, attempts |-> 0, created |-> n])
         /\ \A st \in {"ready", "held", "running"} :
              row.status \in {"ready", "held"} /\ Counted(row)
                => Counted([row EXCEPT !.status = st])
         /\ Counted([row EXCEPT !.status = "done"])
         /\ \A n \in Nat :
              Counted([row EXCEPT !.status = IF n >= MaxAttempts THEN "failed" ELSE "ready",
                                  !.attempts = n])
  BY JobTableAssumption DEF Row, Status, Counted

LEMMA InsertCounts ==
  ASSUME TypeOK, DeadLettered, NEW k, NEW st \in {"ready", "held"}, NEW re,
         insert_job(k, st, re)
  PROVE  DeadLettered'
  <1>1. \A j \in Job : jobs[j] \in Row /\ Counted(jobs[j])
    BY DEF TypeOK, DeadLettered, Counted
  <1>2. st \in Status \ {"failed"} /\ clock \in Nat
    BY DEF Status, TypeOK
  <1>3. \A j \in Job : Counted(jobs'[j])
    <2>1. CASE jobs' = jobs
      BY <1>1, <2>1
    <2>2. CASE jobs' = [jobs EXCEPT ![k] = [status |-> st, attempts |-> 0, created |-> clock]]
      <3>1. k \in Job => Counted([status |-> st, attempts |-> 0, created |-> clock])
        BY <1>1, <1>2, CountedRows
      <3> QED
        BY <1>1, <2>2, <3>1 DEF TypeOK
    <2>3. CASE jobs' = [jobs EXCEPT ![k] = [jobs[k] EXCEPT !.status = st, !.attempts = 0]]
      <3>1. k \in Job => Counted([jobs[k] EXCEPT !.status = st, !.attempts = 0])
        BY <1>1, <1>2, CountedRows
      <3> QED
        BY <1>1, <2>3, <3>1 DEF TypeOK
    <2> QED
      BY <2>1, <2>2, <2>3 DEF insert_job
  <1> QED
    BY <1>3 DEF DeadLettered, Counted

LEMMA RowCounts ==
  ASSUME TypeOK, DeadLettered, NEW k, NEW row, k \in Job => Counted(row),
         jobs' = [jobs EXCEPT ![k] = row]
  PROVE  DeadLettered'
  BY DEF TypeOK, DeadLettered, Counted

LEMMA MoveCounts ==
  ASSUME TypeOK, DeadLettered, NEW a, NEW from, NEW to \in {"ready", "held"},
         \/ RequeueRows(a, from)
         \/ MoveRows(a, from, to) /\ from \subseteq {"ready", "held"}
  PROVE  DeadLettered'
  <1>1. \A j \in Job : jobs[j] \in Row /\ Counted(jobs[j])
    BY DEF TypeOK, DeadLettered, Counted
  <1>2. "ready" \in Status \ {"failed"}
    BY DEF Status
  <1>3. CASE RequeueRows(a, from)
    <2>1. \A j \in Job : Counted([jobs[j] EXCEPT !.status = "ready", !.attempts = 0])
      BY <1>1, <1>2, CountedRows
    <2>2. \A j \in Job : Counted(jobs'[j])
      BY <1>1, <1>3, <2>1 DEF RequeueRows
    <2> QED
      BY <2>2 DEF DeadLettered, Counted
  <1>4. CASE MoveRows(a, from, to) /\ from \subseteq {"ready", "held"}
    <2>1. \A j \in Job : jobs[j].status \in from => Counted([jobs[j] EXCEPT !.status = to])
      BY <1>1, <1>4, CountedRows
    <2>2. \A j \in Job : Counted(jobs'[j])
      BY <1>1, <1>4, <2>1 DEF MoveRows
    <2> QED
      BY <2>2 DEF DeadLettered, Counted
  <1> QED
    BY <1>3, <1>4

LEMMA StepCounts ==
  ASSUME TypeInv, DeadLettered, Next
  PROVE  DeadLettered'
  <1>1. TypeOK /\ \A j \in Job : jobs[j] \in Row /\ Counted(jobs[j])
    BY DEF TypeInv, TypeOK, DeadLettered, Counted
  <1>2. ASSUME NEW r, MarkDone(r) \/ MarkLast(r)
        PROVE  DeadLettered'
    <2>1. jobs' = [jobs EXCEPT ![task[r]] = [jobs[task[r]] EXCEPT !.status = "done"]]
      BY <1>2 DEF MarkDone, MarkLast, mark_done
    <2>2. task[r] \in Job => Counted([jobs[task[r]] EXCEPT !.status = "done"])
      BY <1>1, CountedRows
    <2> QED
      BY <1>1, <2>1, <2>2, RowCounts
  <1>3. ASSUME NEW r \in Runner, InsertNext(r)
        PROVE  DeadLettered'
    <2>1. loc[r].status \in {"ready", "held"} /\ insert_job(NextJob(task[r]), loc[r].status, TRUE)
      BY <1>1, <1>3 DEF InsertNext, TypeOK, Locals
    <2> QED
      BY <1>1, <2>1, InsertCounts
  <1>4. CASE UNCHANGED jobs
    BY <1>4 DEF DeadLettered
  <1>5. ASSUME NEW r \in Runner, RunBody(r) \/ Returns(r)
        PROVE  DeadLettered'
    BY <1>2, <1>3, <1>4, <1>5 DEF RunBody, Returns, Start, Persist, ReadFrozen
  <1>6. ASSUME NEW w \in Worker, WorkerStep(w)
        PROVE  DeadLettered'
    <2> w \in Runner
      BY DEF Runner
    <2>1. CASE RunBody(w) \/ WorkerReturns(w)
      BY <1>5, <2>1 DEF WorkerReturns
    <2>2. CASE Claim(w)
      <3>1. PICK k \in RunnableBy(w) : ClaimRow(k)
        BY <2>2 DEF Claim
      <3>2. k \in Job /\ jobs[k].status = "ready"
        BY DEF RunnableBy, Runnable, Window, Candidates
      <3>3. Counted([jobs[k] EXCEPT !.status = "running"])
        BY <1>1, <3>2, CountedRows
      <3>4. jobs' = [jobs EXCEPT ![k] = [jobs[k] EXCEPT !.status = "running"]]
        BY <3>1 DEF ClaimRow
      <3> QED
        BY <1>1, <3>3, <3>4, RowCounts
    <2>3. CASE RecordFailure(w)
      <3> DEFINE n == loc[w].tries
      <3>1. n \in Nat
        BY <1>1 DEF TypeOK, Locals
      <3>2. jobs' = [jobs EXCEPT ![task[w]] =
                       [jobs[task[w]] EXCEPT
                          !.status = IF n >= MaxAttempts THEN "failed" ELSE "ready",
                          !.attempts = n]]
        BY <2>3 DEF RecordFailure, WriteAttempt
      <3>3. task[w] \in Job =>
              Counted([jobs[task[w]] EXCEPT
                         !.status = IF n >= MaxAttempts THEN "failed" ELSE "ready",
                         !.attempts = n])
        BY <1>1, <3>1, CountedRows
      <3> QED
        BY <1>1, <3>2, <3>3, RowCounts
    <2> QED
      BY <1>4, <1>6, <2>1, <2>2, <2>3
         DEF WorkerStep, ReadLimits, ClaimNothing, WorkerRaises, ReadAttempts
  <1>7. ASSUME NEW a \in Artifact,
               \/ Ingest(a) \/ \E reprocess \in BOOLEAN : Reingest(a, reprocess)
        PROVE  DeadLettered'
    BY <1>1, <1>7, InsertCounts DEF Ingest, Reingest
  <1>8. ASSUME NEW a \in Artifact, HoldRows(a) \/ ReleaseRows(a) \/ Retry(a) \/ RetryButton(a)
        PROVE  DeadLettered'
    BY <1>1, <1>8, MoveCounts DEF HoldRows, ReleaseRows, Retry, RetryButton
  <1>9. ASSUME NEW k \in Job, RetryStage(k)
        PROVE  DeadLettered'
    <2>1. Counted([jobs[k] EXCEPT !.status = "ready", !.attempts = 0])
      BY <1>1, CountedRows DEF Status
    <2> QED
      BY <1>1, <1>9, <2>1, RowCounts DEF RetryStage, RequeueStage
  <1>10. CASE Command
    BY <1>4, <1>7, <1>8, <1>9, <1>10
       DEF Command, Hold, Release, Pause, Resume, Throttle, ReadControl, WriteControl, Step
  <1>11. ASSUME NEW c \in Cli, RunBody(c) \/ StepReturns(c) \/ StepRaises(c)
         PROVE  DeadLettered'
    BY <1>4, <1>5, <1>11 DEF StepReturns, StepRaises, Runner
  <1> QED
    BY <1>4, <1>6, <1>10, <1>11 DEF Next, Crash

(* A job is dead-lettered exactly when its attempts are used up, although  *)
(* the count is read a statement before it is written: whatever resets or  *)
(* requeues the row in between, its status is written with the count it is *)
(* judged by, and no other statement leaves it claimable without attempts. *)
THEOREM AttemptsDecide == Spec => []DeadLettered
  <1>1. Init => DeadLettered
    BY DEF Init, Absent, DeadLettered
  <1>2. TypeInv /\ DeadLettered /\ [Next]_vars => DeadLettered'
    <2>1. ASSUME DeadLettered, UNCHANGED vars
          PROVE  DeadLettered'
      BY <2>1 DEF vars, DeadLettered
    <2> QED
      BY <2>1, StepCounts
  <1> QED
    BY <1>1, <1>2, TypeInvariant, PTL DEF Spec
=============================================================================
