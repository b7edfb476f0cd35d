-------------------------- MODULE Dashboard_proofs --------------------------
(***************************************************************************)
(* The dashboard's executor: what its lock keeps of _inflight and of the   *)
(* models in memory, and that its threads, which claim rows on their own   *)
(* and mark failures without counting them, break none of what holds of    *)
(* the workers and commands they run next to. For any number of threads,   *)
(* workers, artifacts and commands, and any sequence of crashes.           *)
(***************************************************************************)
EXTENDS Dashboard, Exclusion_proofs

(* Where a thread is when it has nothing in hand. *)
AtRest == {"idle", "unload"}

(* A thread has an artifact in hand from _q.get() to its finally clause,   *)
(* and a stage chosen when it tries to claim one.                          *)
Hands ==
  \A t \in Thread :
    /\ item[t] = NoItem <=> pc[t] \in AtRest
    /\ pc[t] = "cas" => item[t].stage \in Stage

DashTypeInv == DashTypeOK /\ Control /\ Hands

LEMMA DashFacts ==
  ASSUME DashTypeInv
  PROVE  TypeInv /\ TypeOK /\ Control /\ Hands
  BY DEF DashTypeInv, DashTypeOK, TypeInv

LEMMA ThreadRuns ==
  ASSUME NEW t \in Thread
  PROVE  t \in Runner /\ t \notin Worker /\ t \notin Cli
  BY RunStageAssumption DEF Runner

LEMMA DashLabels ==
  /\ {"idle", "look", "leave", "unload", "cas", "give up"} \subseteq Label
  /\ {"idle", "look", "leave", "unload"} \subseteq Label \ AtWork
  /\ AtRest \cap AtWork = {}
  BY DEF Label, AtRest, AtWork, Before, After, Failing

(* The steps of Orchestrator move no thread.                               *)
LEMMA NextMovesNoThread ==
  ASSUME TypeInv, Next, NEW t \in Thread
  PROVE  pc'[t] = pc[t] /\ task'[t] = task[t]
  <1> t \in Runner /\ t \notin Worker /\ t \notin Cli
    BY ThreadRuns
  <1>1. ASSUME NEW r \in Worker \cup Cli, RunBody(r)
        PROVE  pc'[t] = pc[t] /\ task'[t] = task[t]
    BY <1>1 DEF RunBody, Start, Persist, MarkDone, ReadFrozen, Goto, TypeInv, TypeOK
  <1>2. ASSUME NEW r \in Worker \cup Cli, Drop(r)
        PROVE  pc'[t] = pc[t] /\ task'[t] = task[t]
    BY <1>2 DEF Drop, DropTo, Goto, TypeInv, TypeOK
  <1>3. ASSUME NEW r \in Worker \cup Cli, NEW k, Take(r, k)
        PROVE  pc'[t] = pc[t] /\ task'[t] = task[t]
    BY <1>3 DEF Take, Goto, TypeInv, TypeOK
  <1>4. ASSUME NEW w \in Worker, WorkerStep(w)
        PROVE  pc'[t] = pc[t] /\ task'[t] = task[t]
    <2>1. CASE ReadLimits(w) \/ WorkerRaises(w) \/ ReadAttempts(w)
      BY <2>1 DEF ReadLimits, WorkerRaises, ReadAttempts, Goto, TypeInv, TypeOK
    <2> QED
      BY <1>1, <1>2, <1>3, <1>4, <2>1
         DEF WorkerStep, ClaimNothing, Claim, WorkerReturns, RecordFailure
  <1>5. ASSUME NEW c \in Cli, RunBody(c) \/ StepReturns(c) \/ StepRaises(c)
        PROVE  pc'[t] = pc[t] /\ task'[t] = task[t]
    BY <1>1, <1>2, <1>5 DEF StepReturns, StepRaises
  <1>6. ASSUME NEW r \in Worker \cup Cli, Crash(r)
        PROVE  pc'[t] = pc[t] /\ task'[t] = task[t]
    BY <1>2, <1>6 DEF Crash
  <1>7. Command => UNCHANGED runVars \/ \E k \in Job, c \in Cli : Step(c, k)
    BY DEF Command, Ingest, Reingest, Hold, HoldRows, Release, ReleaseRows, Retry, RetryButton,
           Pause, Resume, Throttle, ReadControl, WriteControl, RetryStage
  <1>8. ASSUME NEW c \in Cli, NEW k \in Job, Step(c, k)
        PROVE  pc'[t] = pc[t] /\ task'[t] = task[t]
    BY <1>3, <1>8 DEF Step
  <1>9. UNCHANGED runVars => pc'[t] = pc[t] /\ task'[t] = task[t]
    BY DEF runVars
  <1> QED
    BY <1>4, <1>5, <1>6, <1>7, <1>8, <1>9 DEF Next
-----------------------------------------------------------------------------
(* Types and control *)

(* A thread moves from place to place outside run_stage.                   *)
Stroll(t) ==
  /\ task[t] = NoJob
  /\ UNCHANGED <<jobs, clock, files, Others, issued, crashes>>
  /\ \E l \in {"idle", "look", "cas", "leave", "unload"} :
       DropTo(t, l) \/ (Goto(t, l) /\ UNCHANGED <<task, loc>>)

(* It gives up on the row it has claimed, without writing it, or leaves it *)
(* as it is.                                                               *)
Abandon(t) ==
  /\ pc[t] \in AtWork
  /\ UNCHANGED <<jobs, clock, files, Others, issued, crashes>>
  /\ \/ DropTo(t, "leave")
     \/ Goto(t, "give up") /\ UNCHANGED <<task, loc>>

LEMMA ThreadKinds ==
  ASSUME DashTypeInv, NEW t \in Thread, ThreadStep(t)
  PROVE  \/ Stroll(t) \/ Abandon(t)
         \/ ClaimChosen(t) \/ ThreadBody(t) \/ ThreadReturns(t) \/ MarkFailed(t)
         \/ UNCHANGED vars
  <1> t \in Runner
    BY ThreadRuns
  <1>1. CASE Get(t) \/ Look(t) \/ LookNothing(t) \/ LoseRace(t) \/ Leave(t) \/ Unload(t)
    <2>1. task[t] = NoJob
      BY <1>1, DashFacts DEF Get, Look, LookNothing, LoseRace, Leave, Unload, Control, AtWork,
                             Before, After, Failing
    <2> QED
      BY <1>1, <2>1 DEF Get, Look, LookNothing, LoseRace, Leave, Unload, Stroll
  <1>2. CASE Swallow(t)
    <2>1. CASE pc[t] = "give up"
      BY <1>2, <2>1 DEF Swallow, Abandon, AtWork
    <2>2. CASE pc[t] # "give up"
      <3>1. task[t] = NoJob
        BY <1>2, <2>2, DashFacts DEF Swallow, Control, AtWork, Before, After, Failing
      <3> QED
        BY <1>2, <3>1 DEF Swallow, Stroll
    <2> QED
      BY <2>1, <2>2
  <1>3. CASE ThreadRaises(t)
    BY <1>3 DEF ThreadRaises, Raises, Abandon, AtWork, Before
  <1>4. CASE LoadModel(t)
    BY <1>4 DEF LoadModel
  <1> QED
    BY <1>1, <1>2, <1>3, <1>4 DEF ThreadStep

LEMMA ThreadType ==
  ASSUME DashTypeInv, NEW t \in Thread, ThreadStep(t)
  PROVE  TypeOK'
  <1> t \in Runner /\ TypeInv /\ TypeOK
    BY ThreadRuns, DashFacts
  <1>1. CASE Stroll(t)
    <2>1. PICK l \in Label : DropTo(t, l) \/ (Goto(t, l) /\ UNCHANGED <<task, loc>>)
      BY <1>1, DashLabels DEF Stroll
    <2>2. /\ pc' \in [Runner -> Label]
          /\ task' \in [Runner -> Job \cup {NoJob}]
          /\ loc' \in [Runner -> Locals]
      BY <2>1, DropType DEF Goto, TypeOK
    <2> QED
      BY <1>1, <2>2 DEF Stroll, Others, TypeOK
  <1>2. CASE Abandon(t)
    <2>1. PICK l \in Label : DropTo(t, l) \/ (Goto(t, l) /\ UNCHANGED <<task, loc>>)
      BY <1>2, DashLabels DEF Abandon
    <2>2. /\ pc' \in [Runner -> Label]
          /\ task' \in [Runner -> Job \cup {NoJob}]
          /\ loc' \in [Runner -> Locals]
      BY <2>1, DropType DEF Goto, TypeOK
    <2> QED
      BY <1>2, <2>2 DEF Abandon, Others, TypeOK
  <1>3. CASE ClaimChosen(t)
    <2>1. PICK k \in Job : ClaimRow(k) /\ Take(t, k)
      BY <1>3, DashFacts DEF ClaimChosen, Chosen, DashTypeInv, DashTypeOK, Hands, AtRest, Job
    <2>2. jobs' \in [Job -> Row] /\ clock' \in Nat
      BY <2>1 DEF ClaimRow, TypeOK, Row, Status
    <2>3. /\ pc' \in [Runner -> Label]
          /\ task' \in [Runner -> Job \cup {NoJob}]
          /\ loc' \in [Runner -> Locals]
      BY <2>1, TakeType
    <2> QED
      BY <1>3, <2>2, <2>3 DEF ClaimChosen, Others, TypeOK
  <1>4. CASE ThreadBody(t)
    BY <1>4, BodyType DEF ThreadBody
  <1>5. CASE ThreadReturns(t)
    <2>1. PICK l \in Label : DropTo(t, l)
      BY <1>5, DashLabels DEF ThreadReturns
    <2>2. /\ pc' \in [Runner -> Label]
          /\ task' \in [Runner -> Job \cup {NoJob}]
          /\ loc' \in [Runner -> Locals]
      BY <2>1, DropType
    <2>3. jobs' \in [Job -> Row] /\ clock' \in Nat /\ UNCHANGED files
      BY <1>5, ReturnsType DEF ThreadReturns
    <2> QED
      BY <1>5, <2>2, <2>3 DEF ThreadReturns, Others, TypeOK
  <1>6. CASE MarkFailed(t)
    <2>1. /\ pc' \in [Runner -> Label]
          /\ task' \in [Runner -> Job \cup {NoJob}]
          /\ loc' \in [Runner -> Locals]
      BY <1>6, DropType, DashLabels DEF MarkFailed
    <2>2. jobs' \in [Job -> Row]
      BY <1>6 DEF MarkFailed, TypeOK, Row, Status
    <2> QED
      BY <1>6, <2>1, <2>2 DEF MarkFailed, Others, TypeOK
  <1>7. CASE UNCHANGED vars
    BY <1>7 DEF vars, runVars, cmdVars, TypeOK
  <1> QED
    BY <1>1, <1>2, <1>3, <1>4, <1>5, <1>6, <1>7, ThreadKinds

LEMMA ThreadControl ==
  ASSUME DashTypeInv, NEW t \in Thread, ThreadStep(t)
  PROVE  Control'
  <1> t \in Runner /\ TypeInv /\ TypeOK /\ Control
    BY ThreadRuns, DashFacts
  <1>1. CASE Stroll(t)
    <2>1. PICK l \in {"idle", "look", "cas", "leave", "unload"} :
            DropTo(t, l) \/ (Goto(t, l) /\ UNCHANGED <<task, loc>>)
      BY <1>1 DEF Stroll
    <2>2. l \in Label \ AtWork
      BY <2>1 DEF Label, AtWork, Before, After, Failing
    <2>3. CASE DropTo(t, l)
      BY <2>2, <2>3, DropControl
    <2>4. CASE Goto(t, l) /\ UNCHANGED task
      BY <1>1, <2>2, <2>4 DEF Stroll, Goto, TypeOK, Control, AtWork, Failing
    <2> QED
      BY <2>1, <2>3, <2>4
  <1>2. CASE Abandon(t)
    <2>1. CASE DropTo(t, "leave")
      BY <2>1, DropControl, DashLabels
    <2>2. CASE Goto(t, "give up") /\ UNCHANGED task
      BY <1>2, <2>2 DEF Abandon, Goto, TypeOK, Control, AtWork, Failing
    <2> QED
      BY <1>2, <2>1, <2>2 DEF Abandon
  <1>3. CASE ClaimChosen(t)
    <2>1. PICK k \in Job : Take(t, k)
      BY <1>3, DashFacts DEF ClaimChosen, Chosen, DashTypeInv, DashTypeOK, Hands, AtRest, Job
    <2> QED
      BY <2>1, TakeControl
  <1>4. CASE ThreadBody(t)
    BY <1>4, BodyControl DEF ThreadBody, RunBody
  <1>5. CASE ThreadReturns(t) \/ MarkFailed(t)
    <2>1. PICK l \in Label \ AtWork : DropTo(t, l)
      BY <1>5, DashLabels DEF ThreadReturns, MarkFailed
    <2> QED
      BY <2>1, DropControl
  <1>6. CASE UNCHANGED vars
    BY <1>6 DEF vars, runVars, Control
  <1> QED
    BY <1>1, <1>2, <1>3, <1>4, <1>5, <1>6, ThreadKinds

(* Taking from the queue. *)
LEMMA QueueTail ==
  ASSUME queue \in Seq(Artifact \X BOOLEAN), queue # << >>
  PROVE  /\ Head(queue) \in Artifact \X BOOLEAN
         /\ Tail(queue) \in Seq(Artifact \X BOOLEAN)
  OBVIOUS

Item == [art : Artifact, toDone : BOOLEAN, stage : Stage \cup {NoStage}]

LEMMA ItemIsItem ==
  ASSUME NEW i \in Item
  PROVE  i # NoItem
  BY DashboardAssumption DEF Item, NoItem

LEMMA ThreadHands ==
  ASSUME DashTypeInv, NEW t \in Thread, ThreadStep(t)
  PROVE  /\ queue' \in Seq(Artifact \X BOOLEAN)
         /\ inflight' \subseteq Artifact
         /\ item' \in [Thread -> Item \cup {NoItem}]
         /\ resident' \in {"none", "loaded", "kept"}
         /\ Hands'
  <1> t \in Runner /\ TypeInv /\ TypeOK /\ Control /\ Hands
    BY ThreadRuns, DashFacts
  <1>0. /\ queue \in Seq(Artifact \X BOOLEAN)
        /\ inflight \subseteq Artifact
        /\ item \in [Thread -> Item \cup {NoItem}]
        /\ resident \in {"none", "loaded", "kept"}
        /\ pc \in [Runner -> Label]
        /\ Thread \subseteq Runner
    BY ThreadRuns DEF DashTypeInv, DashTypeOK, Item, TypeOK
  <1>1. CASE Get(t)
    <2>1. PICK i \in Item : item' = [item EXCEPT ![t] = i]
      BY <1>0, <1>1, QueueTail DEF Get, Item
    <2>2. i # NoItem
      BY ItemIsItem
    <2> QED
      BY <1>0, <1>1, <2>1, <2>2, QueueTail DEF Get, Goto, Hands, AtRest
  <1>2. CASE Look(t)
    <2>1. item[t] \in Item
      BY <1>0, <1>2 DEF Look, Hands, AtRest
    <2>2. PICK s \in Stage : item' = [item EXCEPT ![t] = [item[t] EXCEPT !.stage = s]]
      BY <1>2 DEF Look, ReadyJobs, Job
    <2>3. PICK i : i = [item[t] EXCEPT !.stage = s]
      OBVIOUS
    <2>4. i \in Item /\ i.stage = s
      BY <2>1, <2>3 DEF Item
    <2>5. i # NoItem
      BY <2>4, ItemIsItem
    <2> QED
      BY <1>0, <1>2, <2>2, <2>3, <2>4, <2>5 DEF Look, Goto, Hands, AtRest
  <1>3. CASE Leave(t)
    BY <1>0, <1>3 DEF Leave, Goto, Hands, AtRest
  <1>4. CASE Unload(t) \/ LoadModel(t)
    BY <1>0, <1>4 DEF Unload, LoadModel, vars, runVars, Goto, Hands, AtRest
  <1>5. CASE /\ UNCHANGED dashVars /\ pc[t] \notin AtRest
             /\ \/ Goto(t, "start") \/ Goto(t, "handle") \/ Goto(t, "mark")
                \/ Goto(t, "advance") \/ Goto(t, "insert") \/ Goto(t, "look")
                \/ Goto(t, "leave") \/ Goto(t, "give up")
    BY <1>0, <1>5 DEF dashVars, Goto, Hands, AtRest
  <1>6. CASE \/ LookNothing(t) \/ ClaimChosen(t) \/ LoseRace(t) \/ ThreadBody(t)
             \/ ThreadReturns(t) \/ ThreadRaises(t) \/ MarkFailed(t) \/ Swallow(t)
    <2>1. UNCHANGED dashVars
      BY <1>6 DEF LookNothing, ClaimChosen, LoseRace, ThreadBody, ThreadReturns, ThreadRaises,
                  MarkFailed, Swallow
    <2>2. pc[t] \notin AtRest
      BY <1>6 DEF LookNothing, ClaimChosen, LoseRace, ThreadBody, ThreadReturns, ThreadRaises,
                  MarkFailed, Swallow, RunBody, Start, Persist, MarkDone, ReadFrozen, Returns,
                  MarkLast, InsertNext, Raises, After, AtRest
    <2>3. \/ Goto(t, "start") \/ Goto(t, "handle") \/ Goto(t, "mark")
          \/ Goto(t, "advance") \/ Goto(t, "insert") \/ Goto(t, "look")
          \/ Goto(t, "leave") \/ Goto(t, "give up")
      BY <1>6 DEF LookNothing, ClaimChosen, LoseRace, ThreadBody, ThreadReturns, ThreadRaises,
                  MarkFailed, Swallow, RunBody, Start, Persist, MarkDone, ReadFrozen, DropTo,
                  Take
    <2> QED
      BY <1>5, <2>1, <2>2, <2>3
  <1> QED
    BY <1>1, <1>2, <1>3, <1>4, <1>6 DEF ThreadStep

LEMMA DashTypeStep ==
  ASSUME DashTypeInv, [DashNext]_allVars
  PROVE  DashTypeInv'
  <1> TypeInv /\ TypeOK /\ Control /\ Hands
    BY DashFacts
  <1>0. Thread \subseteq Runner
    BY ThreadRuns
  <1>1. CASE Next /\ UNCHANGED dashVars
    <2>1. TypeOK' /\ Control'
      BY <1>1, StepType, StepControl
    <2>2. Hands'
      BY <1>1, NextMovesNoThread DEF Hands, dashVars
    <2> QED
      BY <1>1, <2>1, <2>2 DEF DashTypeInv, DashTypeOK, dashVars
  <1>2. CASE \E a \in Artifact, toDone \in BOOLEAN : Enqueue(a, toDone)
    <2>1. PICK a \in Artifact, toDone \in BOOLEAN : Enqueue(a, toDone)
      BY <1>2
    <2>2. issued' \in 0..MaxCommands
      BY <2>1, OrchestratorAssumption DEF Enqueue, Give, TypeOK
    <2>3. TypeOK' /\ Control' /\ Hands'
      BY <2>1, <2>2 DEF Enqueue, runVars, Others, TypeOK, Control, Hands
    <2>4. <<a, toDone>> \in Artifact \X BOOLEAN
      OBVIOUS
    <2>5. queue' \in Seq(Artifact \X BOOLEAN) /\ inflight' \subseteq Artifact
      BY <2>1, <2>4 DEF Enqueue, DashTypeInv, DashTypeOK
    <2> QED
      BY <2>1, <2>3, <2>5 DEF Enqueue, DashTypeInv, DashTypeOK
  <1>3. CASE \E t \in Thread : ThreadStep(t)
    BY <1>3, ThreadType, ThreadControl, ThreadHands DEF DashTypeInv, DashTypeOK, Item
  <1>4. CASE DashCrash
    <2>1. crashes' \in 0..MaxCrashes
      BY <1>4, OrchestratorAssumption DEF DashCrash, TypeOK
    <2>2. TypeOK'
      BY <1>4, <2>1 DEF DashCrash, Others, TypeOK, NoLocals, Locals, Label
    <2>3. Control'
      BY <1>4 DEF DashCrash, Control, AtWork, Before, After, Failing
    <2>4. Hands'
      BY <1>0, <1>4 DEF DashCrash, Hands, AtRest
    <2> QED
      BY <1>4, <2>2, <2>3, <2>4 DEF DashCrash, DashTypeInv, DashTypeOK
  <1>5. CASE UNCHANGED allVars
    BY <1>5 DEF allVars, vars, dashVars, runVars, cmdVars, DashTypeInv, DashTypeOK, TypeOK,
                Control, Hands
  <1> QED
    BY <1>1, <1>2, <1>3, <1>4, <1>5 DEF DashNext

LEMMA DashTypeInvariant == DashSpec => []DashTypeInv
  <1>1. DashInit => DashTypeInv
    <2> SUFFICES ASSUME DashInit  PROVE DashTypeInv
      OBVIOUS
    <2>0. << >> \in Seq(Artifact \X BOOLEAN)
      OBVIOUS
    <2>1. /\ queue \in Seq(Artifact \X BOOLEAN)
          /\ inflight \subseteq Artifact /\ resident \in {"none", "loaded", "kept"}
      BY <2>0 DEF DashInit
    <2>2. item \in [Thread -> Item \cup {NoItem}]
      BY DEF DashInit
    <2>3. Hands
      BY ThreadRuns DEF DashInit, Hands, AtRest, Init, RunInit
    <2> QED
      BY TypeInit, <2>1, <2>2, <2>3 DEF DashInit, DashTypeInv, DashTypeOK, TypeInv, Item
  <1>2. DashTypeInv /\ [DashNext]_allVars => DashTypeInv'
    BY DashTypeStep
  <1> QED
    BY <1>1, <1>2, PTL DEF DashSpec

(* The type invariant of Dashboard, for all values of its constants.       *)
THEOREM DashTypeCorrect == DashSpec => []DashTypeOK
  BY DashTypeInvariant, PTL DEF DashTypeInv
-----------------------------------------------------------------------------
(* One runner per artifact, and the chain *)

LEMMA StrollExcludes ==
  ASSUME TypeInv, ExclusionInv, NEW t \in Runner, Stroll(t)
  PROVE  ExclusionInv'
  <1>1. /\ task[t] = NoJob /\ task'[t] = NoJob /\ UNCHANGED <<jobs, flips>>
        /\ \A q \in Runner \ {t} : task'[q] = task[q] /\ pc'[q] = pc[q]
    BY DEF Stroll, DropTo, Goto, Others, TypeInv, TypeOK
  <1>2. ASSUME NEW a \in Artifact
        PROVE  ArtifactInv(a)'
    BY <1>1, Untouched, FirstJobIsJob DEF ExclusionInv, Busy
  <1> QED
    BY <1>2 DEF ExclusionInv

LEMMA AbandonExcludes ==
  ASSUME TypeInv, ExclusionInv, NEW t \in Thread, Abandon(t)
  PROVE  ExclusionInv'
  <1> t \in Runner /\ t \notin Worker /\ t \notin Cli
    BY ThreadRuns
  <1>1. task[t] # NoJob /\ UNCHANGED <<jobs, flips>>
    BY DEF Abandon, Others, TypeInv, Control
  <1>2. \A q \in Runner \ {t} : task'[q] = task[q] /\ pc'[q] = pc[q]
    BY DEF Abandon, DropTo, Goto, TypeInv, TypeOK
  <1>3. CASE DropTo(t, "leave")
    <2>1. task'[t] = NoJob
      BY <1>3 DEF DropTo, TypeInv, TypeOK
    <2> QED
      BY <1>1, <1>2, <2>1, MoveOn
  <1>4. CASE Goto(t, "give up") /\ UNCHANGED task
    <2>1. jobs[task[t]].status \in {"running", "done"}
      BY <1>1, BusyStatus
    <2>2. pc'[t] = "give up"
      BY <1>4 DEF Goto, TypeInv, TypeOK
    <2>3. Expected(t)'
      BY <1>1, <1>4, <2>1, <2>2 DEF Expected, Before, After
    <2> QED
      BY <1>1, <1>2, <1>4, <2>3, MoveOn
  <1> QED
    BY <1>3, <1>4 DEF Abandon

(* mark_failed writes the row the thread is at work on.                    *)
LEMMA MarkFailedRow ==
  ASSUME TypeInv, ExclusionInv, NEW t \in Thread, MarkFailed(t)
  PROVE  /\ task[t] # NoJob /\ task[t] \in Job
         /\ jobs[task[t]].status \in {"running", "done"}
         /\ \A j \in Job \ {task[t]} : jobs'[j] = jobs[j]
         /\ jobs'[task[t]].status = "failed"
  <1> t \in Runner /\ t \notin Worker /\ t \notin Cli
    BY ThreadRuns
  <1>1. task[t] # NoJob
    BY DEF MarkFailed, TypeInv, Control, AtWork
  <1>2. task[t] \in Job /\ jobs[task[t]].status \in {"running", "done"}
    BY <1>1, BusyFacts, BusyStatus
  <1> QED
    BY <1>1, <1>2 DEF MarkFailed, TypeInv, TypeOK, Row

(* A row is claimed by compare-and-set: it is one that is ready.           *)
LEMMA ClaimChosenRow ==
  ASSUME DashTypeInv, NEW t \in Thread, ClaimChosen(t)
  PROVE  \E k \in Job : /\ task[t] = NoJob /\ jobs[k].status = "ready"
                        /\ ClaimRow(k) /\ Take(t, k) /\ UNCHANGED <<files, flips>>
  <1> t \in Runner
    BY ThreadRuns
  <1>1. Chosen(t) \in Job
    BY DEF ClaimChosen, Chosen, DashTypeInv, DashTypeOK, Hands, AtRest, Job
  <1>2. task[t] = NoJob
    BY DEF ClaimChosen, DashTypeInv, Control, AtWork, Before, After, Failing
  <1> QED
    BY <1>1, <1>2 DEF ClaimChosen, Others

LEMMA ThreadExcludes ==
  ASSUME DashTypeInv, ExclusionInv, NEW t \in Thread, ThreadStep(t)
  PROVE  ExclusionInv'
  <1> t \in Runner /\ t \notin Cli /\ TypeInv
    BY ThreadRuns, DashFacts
  <1>1. CASE ClaimChosen(t)
    BY <1>1, ClaimChosenRow, ClaimExcludes
  <1>2. CASE ThreadBody(t)
    BY <1>2, BodyExcludes DEF ThreadBody
  <1>3. CASE ThreadReturns(t)
    BY <1>3, ReturnsExcludes DEF ThreadReturns, Others
  <1>4. CASE MarkFailed(t)
    <2>1. PICK n \in Job : n = task[t]
      BY <1>4, MarkFailedRow
    <2>2. \A k \in Job : k[1] = n[1] /\ Unfinished(k) => k = n
      BY <1>4, <2>1, MarkFailedRow, Alone DEF Unfinished
    <2>3. DropTo(t, "leave") /\ UNCHANGED flips
      BY <1>4 DEF MarkFailed, Others
    <2>4. /\ task[t] # NoJob
          /\ \A k \in Job : k # n => jobs'[k] = jobs[k]
          /\ jobs'[n].status # "absent"
      BY <1>4, <2>1, MarkFailedRow
    <2> QED
      BY <2>1, <2>2, <2>3, <2>4, LeaveRow
  <1>5. CASE UNCHANGED vars
    BY <1>5, StandStill DEF vars, runVars, cmdVars
  <1> QED
    BY <1>1, <1>2, <1>3, <1>4, <1>5, ThreadKinds, StrollExcludes, AbandonExcludes

(* The threads die together, and leave the rows as they are.               *)
LEMMA DashCrashExcludes ==
  ASSUME ExclusionInv, DashCrash
  PROVE  ExclusionInv'
  <1> SUFFICES ASSUME NEW a \in Artifact  PROVE ArtifactInv(a)'
    BY DEF ExclusionInv
  <1>1. ArtifactInv(a) /\ UNCHANGED <<jobs, flips>>
    BY DEF ExclusionInv, DashCrash, Others
  <1>2. \A r \in Runner : Busy(r, a)' => Busy(r, a) /\ task'[r] = task[r] /\ pc'[r] = pc[r]
    BY DEF DashCrash, Busy
  <1>3. OneOpen(a)' /\ FirstThere(a)'
    BY <1>1 DEF ArtifactInv, OneOpen, FirstThere, Unfinished, Exists, FirstJob
  <1>4. OneBusy(a)'
    BY <1>1, <1>2 DEF ArtifactInv, OneBusy
  <1>5. InStep(a)'
    BY <1>1, <1>2 DEF ArtifactInv, InStep, Expected, Unfinished
  <1> QED
    BY <1>3, <1>4, <1>5 DEF ArtifactInv

LEMMA DashExclusion ==
  ASSUME Careful
  PROVE  DashSpec => []ExclusionInv
  <1>1. DashTypeInv /\ ExclusionInv /\ [DashNext]_allVars => ExclusionInv'
    <2> SUFFICES ASSUME DashTypeInv, ExclusionInv, [DashNext]_allVars  PROVE ExclusionInv'
      OBVIOUS
    <2> TypeInv
      BY DashFacts
    <2>1. CASE \E a \in Artifact, toDone \in BOOLEAN : Enqueue(a, toDone)
      BY <2>1, StandStill DEF Enqueue, runVars, Others
    <2>2. CASE UNCHANGED allVars
      BY <2>2, StandStill DEF allVars, vars, runVars, cmdVars
    <2> QED
      BY <2>1, <2>2, StepExcludes, ThreadExcludes, DashCrashExcludes DEF DashNext
  <1>2. DashInit => ExclusionInv
    BY ExclusionInit DEF DashInit
  <1> QED
    BY <1>1, <1>2, DashTypeInvariant, PTL DEF DashSpec

(* The executor's threads run beside the workers and keep off each other's *)
(* artifacts: the compare-and-set on the row does for them what the        *)
(* claim's transaction does for a worker, although a thread takes its      *)
(* artifact from a queue, looks at no control and, in process, goes on to  *)
(* whatever stage is ready next.                                           *)
THEOREM DashExclusive ==
  ASSUME Careful
  PROVE  DashSpec => []OneRunnerPerArtifact
  <1>1. DashTypeInv /\ ExclusionInv => OneRunnerPerArtifact
    BY DashFacts, ExclusionImplies
  <1> QED
    BY <1>1, DashTypeInvariant, DashExclusion, PTL

LEMMA ThreadSteps ==
  ASSUME DashTypeInv, DashTypeInv', ExclusionInv, NEW t \in Thread, ThreadStep(t)
  PROVE  Chain!Next \/ UNCHANGED PhaseBar
  <1> t \in Runner /\ TypeInv /\ TypeOK'
    BY ThreadRuns, DashFacts DEF DashTypeInv, DashTypeOK
  <1>1. CASE Stroll(t) \/ Abandon(t) \/ UNCHANGED vars
    BY <1>1 DEF Stroll, Abandon, vars, PhaseBar
  <1>2. CASE ClaimChosen(t)
    BY <1>2, ClaimChosenRow, ClaimSteps
  <1>3. CASE ThreadBody(t)
    BY <1>3, BodySteps DEF ThreadBody
  <1>4. CASE ThreadReturns(t)
    BY <1>4, ReturnsSteps DEF ThreadReturns
  <1>5. CASE MarkFailed(t)
    <2>1. pc[t] \in Failing \cup {"give up"}
      BY <1>5 DEF MarkFailed
    <2> QED
      BY <1>5, <2>1, MarkFailedRow, FailSteps
  <1> QED
    BY <1>1, <1>2, <1>3, <1>4, <1>5, ThreadKinds

(* The executor keeps the promise of StageChain too: marking a stage       *)
(* failed in one statement, without looking at the row or its attempts,    *)
(* never opens a second stage of the artifact nor kills a finished one     *)
(* while another is under way.                                             *)
THEOREM DashKeepsTheChain ==
  ASSUME Careful
  PROVE  DashSpec => ImplementsStageChain
  <1>1. DashTypeInv /\ DashTypeInv' /\ ExclusionInv /\ [DashNext]_allVars
          => [Chain!Next]_PhaseBar
    <2> SUFFICES ASSUME DashTypeInv, DashTypeInv', ExclusionInv, [DashNext]_allVars
                 PROVE  Chain!Next \/ UNCHANGED PhaseBar
      OBVIOUS
    <2>1. TypeInv /\ TypeOK'
      BY DashFacts DEF DashTypeInv, DashTypeOK
    <2>2. CASE Next
      BY <2>1, <2>2, NextSteps
    <2>3. CASE \/ \E a \in Artifact, toDone \in BOOLEAN : Enqueue(a, toDone)
               \/ DashCrash \/ UNCHANGED allVars
      BY <2>3 DEF Enqueue, DashCrash, allVars, vars, PhaseBar
    <2> QED
      BY <2>2, <2>3, ThreadSteps DEF DashNext
  <1>2. DashInit => Chain!Init
    BY ChainInit DEF DashInit
  <1> QED
    BY <1>1, <1>2, DashTypeInvariant, DashExclusion, PTL
       DEF DashSpec, ImplementsStageChain, Chain!Spec, PhaseBar
-----------------------------------------------------------------------------
(* _inflight *)

LEMMA QueuedBy ==
  ASSUME NEW q \in Seq(Artifact \X BOOLEAN), NEW a \in Artifact, NEW b \in BOOLEAN
  PROVE  LET p == Append(q, <<a, b>>)
         IN  /\ DOMAIN p = DOMAIN q \cup {Len(q) + 1} /\ Len(q) + 1 \notin DOMAIN q
             /\ \A i \in DOMAIN q : p[i] = q[i]
             /\ p[Len(q) + 1] = <<a, b>>
  OBVIOUS

LEMMA TakenFrom ==
  ASSUME NEW q \in Seq(Artifact \X BOOLEAN), q # << >>
  PROVE  /\ 1 \in DOMAIN q /\ Head(q) = q[1]
         /\ \A i \in DOMAIN Tail(q) : i + 1 \in DOMAIN q /\ i + 1 # 1 /\ Tail(q)[i] = q[i + 1]
         /\ \A i \in DOMAIN q : i = 1 \/ i - 1 \in DOMAIN Tail(q)
         /\ \A i \in DOMAIN q : i \in Int
         /\ \A i \in DOMAIN Tail(q) : i \in Int
  OBVIOUS

LEMMA EnqueueKeeps ==
  ASSUME DashTypeInv, InflightIsWork, NEW a \in Artifact, NEW b \in BOOLEAN, Enqueue(a, b)
  PROVE  InflightIsWork'
  <1>1. /\ a \notin inflight /\ inflight' = inflight \cup {a} /\ UNCHANGED item
        /\ queue' = Append(queue, <<a, b>>) /\ queue \in Seq(Artifact \X BOOLEAN)
    BY DEF Enqueue, DashTypeInv, DashTypeOK
  <1>2. PICK n : /\ DOMAIN queue' = DOMAIN queue \cup {n} /\ n \notin DOMAIN queue
                 /\ \A i \in DOMAIN queue : queue'[i] = queue[i]
                 /\ queue'[n][1] = a
    BY <1>1, QueuedBy
  <1>3. Queued' = Queued \cup {a}
    BY <1>2 DEF Queued
  <1>4. UNCHANGED InHand
    BY <1>1 DEF InHand
  <1>5. a \notin Queued /\ a \notin InHand
    BY <1>1 DEF InflightIsWork
  <1>6. \A i, j \in DOMAIN queue' : queue'[i][1] = queue'[j][1] => i = j
    BY <1>2, <1>5 DEF InflightIsWork, Queued
  <1> QED
    BY <1>1, <1>3, <1>4, <1>5, <1>6 DEF InflightIsWork

LEMMA GetKeeps ==
  ASSUME DashTypeInv, InflightIsWork, NEW t \in Thread, Get(t)
  PROVE  InflightIsWork'
  <1>1. /\ queue # << >> /\ queue \in Seq(Artifact \X BOOLEAN) /\ queue' = Tail(queue)
        /\ UNCHANGED inflight
        /\ item \in [Thread -> Item \cup {NoItem}]
    BY DEF Get, DashTypeInv, DashTypeOK, Item
  <1>2. item[t] = NoItem
    BY DEF Get, DashTypeInv, Hands, AtRest
  <1>3. PICK i : i = [art |-> Head(queue)[1], toDone |-> Head(queue)[2], stage |-> NoStage]
    OBVIOUS
  <1>4. i.art = queue[1][1] /\ i \in Item /\ i # NoItem
    BY <1>1, <1>3, QueueTail, TakenFrom, ItemIsItem DEF Item
  <1>5. item' = [item EXCEPT ![t] = i]
    BY <1>3 DEF Get
  <1>6. item'[t] = i /\ \A u \in Thread \ {t} : item'[u] = item[u]
    BY <1>1, <1>5
  <1>7. InHand' = InHand \cup {queue[1][1]}
    BY <1>2, <1>4, <1>6 DEF InHand
  <1>8. Queued' = Queued \ {queue[1][1]} /\ queue[1][1] \in Queued
    <2>1. ASSUME NEW j \in DOMAIN queue'
          PROVE  queue'[j][1] \in Queued \ {queue[1][1]}
      BY <1>1, <2>1, TakenFrom DEF Queued, InflightIsWork
    <2>2. ASSUME NEW j \in DOMAIN queue, queue[j][1] # queue[1][1]
          PROVE  queue[j][1] \in Queued'
      <3>1. j - 1 \in DOMAIN queue'
        BY <1>1, <2>2, TakenFrom
      <3>2. queue'[j - 1] = queue[j]
        BY <1>1, <3>1, TakenFrom
      <3> QED
        BY <3>1, <3>2 DEF Queued
    <2>3. queue[1][1] \in Queued
      BY <1>1, TakenFrom DEF Queued
    <2> QED
      BY <2>1, <2>2, <2>3 DEF Queued
  <1>9. \A j, k \in DOMAIN queue' : queue'[j][1] = queue'[k][1] => j = k
    <2> SUFFICES ASSUME NEW j \in DOMAIN queue', NEW k \in DOMAIN queue',
                        queue'[j][1] = queue'[k][1]
                 PROVE  j = k
      OBVIOUS
    <2>1. /\ j + 1 \in DOMAIN queue /\ k + 1 \in DOMAIN queue /\ j \in Int /\ k \in Int
          /\ queue[j + 1][1] = queue[k + 1][1]
      BY <1>1, TakenFrom
    <2>2. j + 1 = k + 1
      BY <2>1 DEF InflightIsWork
    <2> QED
      BY <2>1, <2>2
  <1>10. \A u \in Thread \ {t} : item[u] # NoItem => item[u].art # i.art
    BY <1>4, <1>8 DEF InflightIsWork, InHand
  <1>11. \A u, v \in Thread :
           u # v /\ item'[u] # NoItem /\ item'[v] # NoItem => item'[u].art # item'[v].art
    BY <1>6, <1>10 DEF InflightIsWork
  <1>12. inflight' = Queued' \cup InHand' /\ Queued' \cap InHand' = {}
    BY <1>1, <1>7, <1>8 DEF InflightIsWork
  <1> QED
    BY <1>9, <1>11, <1>12 DEF InflightIsWork

(* The finally clause gives back what the thread had, and nothing else.    *)
LEMMA LeaveKeeps ==
  ASSUME DashTypeInv, InflightIsWork, NEW t \in Thread, Leave(t)
  PROVE  InflightIsWork'
  <1>1. /\ item[t] # NoItem /\ inflight' = inflight \ {item[t].art} /\ UNCHANGED queue
        /\ item'[t] = NoItem /\ \A u \in Thread \ {t} : item'[u] = item[u]
    BY DEF Leave, DashTypeInv, DashTypeOK, Hands, AtRest
  <1>2. InHand' = InHand \ {item[t].art} /\ item[t].art \in InHand
    BY <1>1 DEF InHand, InflightIsWork
  <1>3. UNCHANGED Queued
    BY <1>1 DEF Queued
  <1> QED
    BY <1>1, <1>2, <1>3 DEF InflightIsWork

LEMMA InflightStep ==
  ASSUME DashTypeInv, InflightIsWork, [DashNext]_allVars
  PROVE  InflightIsWork'
  <1>1. ASSUME UNCHANGED <<inflight, queue, item>>
        PROVE  InflightIsWork'
    BY <1>1 DEF InflightIsWork, Queued, InHand
  <1>2. ASSUME NEW t \in Thread, Look(t)
        PROVE  InflightIsWork'
    <2>1. item[t] # NoItem /\ item \in [Thread -> Item \cup {NoItem}]
      BY <1>2 DEF Look, DashTypeInv, DashTypeOK, Hands, AtRest, Item
    <2>2. PICK s \in Stage : item' = [item EXCEPT ![t] = [item[t] EXCEPT !.stage = s]]
      BY <1>2 DEF Look, ReadyJobs, Job
    <2>3. PICK i : i = [item[t] EXCEPT !.stage = s]
      OBVIOUS
    <2>4. i \in Item /\ i.art = item[t].art
      BY <2>1, <2>3 DEF Item
    <2>5. i # NoItem
      BY <2>4, ItemIsItem
    <2>6. item'[t] = i /\ \A u \in Thread \ {t} : item'[u] = item[u]
      BY <2>1, <2>2, <2>3
    <2>7. \A u \in Thread : /\ item'[u] # NoItem <=> item[u] # NoItem
                            /\ item'[u].art = item[u].art
      BY <2>1, <2>4, <2>5, <2>6
    <2>8. UNCHANGED InHand
      BY <2>7 DEF InHand
    <2>9. UNCHANGED <<inflight, queue, Queued>>
      BY <1>2 DEF Look, Queued
    <2> QED
      BY <2>7, <2>8, <2>9 DEF InflightIsWork
  <1>3. ASSUME NEW t \in Thread, ThreadStep(t)
        PROVE  InflightIsWork'
    BY <1>1, <1>2, <1>3, GetKeeps, LeaveKeeps
       DEF ThreadStep, LookNothing, ClaimChosen, LoseRace, ThreadBody, LoadModel, ThreadReturns,
           ThreadRaises, MarkFailed, Swallow, Unload, dashVars
  <1>4. CASE DashCrash
    BY <1>4 DEF DashCrash, InflightIsWork, Queued, InHand
  <1>5. CASE (Next /\ UNCHANGED dashVars) \/ UNCHANGED allVars
    BY <1>1, <1>5 DEF allVars, dashVars
  <1> QED
    BY <1>3, <1>4, <1>5, EnqueueKeeps DEF DashNext

(* _inflight is what is queued or in a thread's hands, each artifact once: *)
(* no order of button presses, threads, failures and restarts of the       *)
(* process runs an artifact twice or locks one out for good.               *)
THEOREM InflightIsExact == DashSpec => []InflightIsWork
  <1>1. DashInit => InflightIsWork
    BY DEF DashInit, InflightIsWork, Queued, InHand
  <1>2. DashTypeInv /\ InflightIsWork /\ [DashNext]_allVars => InflightIsWork'
    BY InflightStep
  <1> QED
    BY <1>1, <1>2, DashTypeInvariant, PTL DEF DashSpec
-----------------------------------------------------------------------------
(* Models in memory *)

LEMMA ResidentStep ==
  ASSUME DashTypeInv, InflightIsWork, InflightIsWork', EveryModelIsToldToStop, [DashNext]_allVars
  PROVE  EveryModelIsToldToStop'
  <1> TypeInv /\ TypeOK /\ Hands
    BY DashFacts
  <1>1. ASSUME NEW t \in Thread, UNCHANGED <<resident, crashes, inflight>>,
               pc[t] # "unload", \A u \in Runner \ {t} : pc'[u] = pc[u]
        PROVE  EveryModelIsToldToStop'
    BY <1>1, ThreadRuns DEF EveryModelIsToldToStop
  <1>2. ASSUME NEW t \in Thread, ThreadStep(t)
        PROVE  EveryModelIsToldToStop'
    <2> t \in Runner
      BY ThreadRuns
    <2>1. CASE \/ Get(t) \/ Look(t) \/ LookNothing(t) \/ ClaimChosen(t) \/ LoseRace(t)
               \/ ThreadReturns(t) \/ ThreadRaises(t) \/ MarkFailed(t) \/ Swallow(t)
      <3>1. UNCHANGED <<resident, crashes, inflight>>
        BY <2>1 DEF Get, Look, LookNothing, ClaimChosen, LoseRace, ThreadReturns, ThreadRaises,
                    MarkFailed, Swallow, dashVars
      <3>2. \A u \in Runner \ {t} : pc'[u] = pc[u]
        BY <2>1 DEF Get, Look, LookNothing, ClaimChosen, LoseRace, ThreadReturns, ThreadRaises,
                    MarkFailed, Swallow, Goto, DropTo, Take, TypeOK
      <3>3. pc[t] # "unload"
        BY <2>1 DEF Get, Look, LookNothing, ClaimChosen, LoseRace, ThreadReturns, ThreadRaises,
                    MarkFailed, Swallow, Returns, MarkLast, InsertNext, Raises, After
      <3> QED
        BY <1>1, <3>1, <3>2, <3>3
    <2>2. CASE ThreadBody(t)
      <3>1. /\ UNCHANGED <<resident, crashes, inflight>> /\ pc[t] # "unload"
            /\ \A u \in Runner \ {t} : pc'[u] = pc[u]
        BY <2>2 DEF ThreadBody, RunBody, Start, Persist, MarkDone, ReadFrozen, Goto, dashVars,
                    TypeOK
      <3> QED
        BY <1>1, <3>1
    <2>3. CASE LoadModel(t)
      <3>1. item[t] # NoItem
        BY <2>3 DEF LoadModel, Hands, AtRest
      <3>2. inflight # {} /\ UNCHANGED inflight
        BY <2>3, <3>1 DEF LoadModel, InflightIsWork, InHand
      <3> QED
        BY <3>2 DEF EveryModelIsToldToStop
    <2>4. CASE Leave(t)
      <3>1. CASE inflight' = {}
        <4>1. queue' = << >>
          <5>1. queue' = queue /\ queue \in Seq(Artifact \X BOOLEAN)
            BY <2>4 DEF Leave, DashTypeInv, DashTypeOK
          <5>2. queue # << >> => queue'[1][1] \in Queued'
            BY <5>1, TakenFrom DEF Queued
          <5> QED
            BY <3>1, <5>1, <5>2 DEF InflightIsWork
        <4>2. pc'[t] = "unload"
          BY <2>4, <3>1, <4>1 DEF Leave, Goto, TypeOK
        <4> QED
          BY <4>2 DEF EveryModelIsToldToStop
      <3> QED
        BY <3>1 DEF EveryModelIsToldToStop
    <2>5. CASE Unload(t)
      BY <2>5 DEF Unload, EveryModelIsToldToStop
    <2> QED
      BY <1>2, <2>1, <2>2, <2>3, <2>4, <2>5 DEF ThreadStep
  <1>3. CASE Next /\ UNCHANGED dashVars
    <2>1. \A t \in Thread : pc'[t] = pc[t]
      BY <1>3, NextMovesNoThread
    <2>2. crashes' = 0 => crashes = 0
      <3>1. crashes' = crashes \/ crashes' = crashes + 1
        BY <1>3 DEF Next, WorkerStep, ReadLimits, ClaimNothing, Claim, RunBody, WorkerReturns,
                    WorkerRaises, ReadAttempts, RecordFailure, StepReturns, StepRaises, Crash,
                    Command, Ingest, Reingest, Hold, HoldRows, Release, ReleaseRows, Retry,
                    RetryButton, Pause, Resume, Throttle, ReadControl, WriteControl, RetryStage,
                    Step
      <3> QED
        BY <3>1 DEF TypeOK
    <2> QED
      BY <1>3, <2>1, <2>2 DEF EveryModelIsToldToStop, dashVars
  <1>4. CASE DashCrash
    BY <1>4 DEF DashCrash, TypeOK, EveryModelIsToldToStop
  <1>5. CASE \E a \in Artifact, toDone \in BOOLEAN : Enqueue(a, toDone)
    BY <1>5 DEF Enqueue, EveryModelIsToldToStop
  <1>6. CASE UNCHANGED allVars
    BY <1>6 DEF allVars, vars, runVars, dashVars, EveryModelIsToldToStop
  <1> QED
    BY <1>2, <1>3, <1>4, <1>5, <1>6 DEF DashNext

(* While models have been used since the last stop an artifact is in       *)
(* flight or a thread is about to stop them: computing "idle" in the       *)
(* finally clause, after the artifact is discarded and under the same      *)
(* lock, appoints a thread whenever the executor is drained, whichever is  *)
(* the last. What the stop achieves is left open: it may fail unnoticed.   *)
THEOREM ModelsAreToldToStop == DashSpec => []EveryModelIsToldToStop
  <1>1. DashInit => EveryModelIsToldToStop
    BY DEF DashInit, EveryModelIsToldToStop
  <1>2. /\ DashTypeInv /\ InflightIsWork /\ InflightIsWork' /\ EveryModelIsToldToStop
        /\ [DashNext]_allVars
        => EveryModelIsToldToStop'
    BY ResidentStep
  <1> QED
    BY <1>1, <1>2, DashTypeInvariant, InflightIsExact, PTL DEF DashSpec
-----------------------------------------------------------------------------
(* Persistence *)

LEMMA ThreadPersists ==
  ASSUME DashTypeInv, PersistInv, NEW t \in Thread, ThreadStep(t)
  PROVE  PersistInv'
  <1> t \in Runner /\ TypeInv /\ TypeOK
    BY ThreadRuns, DashFacts
  <1>1. CASE Stroll(t) \/ Abandon(t)
    <2>1. Effect
      BY <1>1, Unchanged DEF Stroll, Abandon
    <2>2. CASE \E l \in Label \ AtWork : DropTo(t, l)
      BY <2>1, <2>2, EffectDropTo
    <2>3. CASE \E l \in Label \ ({"mark"} \cup After) : Goto(t, l) /\ UNCHANGED task
      <3>1. /\ pc'[t] \notin {"mark"} \cup After
            /\ UNCHANGED task /\ \A q \in Runner \ {t} : pc'[q] = pc[q]
        BY <2>3 DEF Goto, TypeOK
      <3>2. \A q \in Runner : task[q] # NoJob => task[q] \in Job
        BY DEF TypeOK
      <3>3. \A q \in Runner : pc[q] \in {"mark"} \cup After => task[q] \in Job
        BY <3>2 DEF TypeInv, Control, AtWork, Before
      <3>4. RunnersHaveRows'
        BY <2>1, <3>1, <3>2 DEF PersistInv, Effect, RunnersHaveRows, Exists
      <3>5. HandledIsPersisted'
        BY <2>1, <3>1, <3>3 DEF PersistInv, Effect, HandledIsPersisted
      <3>6. AdvancingHasNext'
        BY <3>1 DEF PersistInv, AdvancingHasNext, HasNext
      <3> QED
        BY <2>1, <3>4, <3>5, <3>6, EffectPersists DEF PersistInv
    <2>4. /\ {"idle", "look", "cas", "leave", "unload"} \subseteq Label \ AtWork
          /\ "give up" \in Label \ ({"mark"} \cup After)
          /\ Label \ AtWork \subseteq Label \ ({"mark"} \cup After)
      BY DEF Label, AtWork, Before, After, Failing
    <2> QED
      BY <1>1, <2>2, <2>3, <2>4 DEF Stroll, Abandon
  <1>2. CASE ClaimChosen(t)
    <2>1. PICK k \in Job : /\ jobs[k].status = "ready" /\ ClaimRow(k) /\ Take(t, k)
                           /\ UNCHANGED files
      BY <1>2, ClaimChosenRow
    <2>2. \A j \in Job : jobs'[j] = jobs[j] \/ (j = k /\ jobs'[j].status = "running")
      BY <2>1 DEF ClaimRow, TypeOK, Row
    <2>3. Effect
      BY <2>1, <2>2, RowsOnly DEF Exists
    <2> QED
      BY <2>1, <2>3, EffectTake DEF Exists
  <1>3. CASE ThreadBody(t)
    BY <1>3, BodyPersists DEF ThreadBody
  <1>4. CASE ThreadReturns(t)
    BY <1>4, ReturnsEffect, EffectDropTo, DashLabels DEF ThreadReturns
  <1>5. CASE MarkFailed(t)
    <2>1. task[t] \in Job /\ Exists(task[t])
      BY <1>5, RunStageAssumption
         DEF MarkFailed, TypeInv, TypeOK, Control, AtWork, PersistInv, RunnersHaveRows, Job
    <2>2. \A j \in Job : jobs'[j] = jobs[j] \/ (j = task[t] /\ jobs'[j].status = "failed")
      BY <1>5, <2>1 DEF MarkFailed, TypeOK, Row
    <2>3. Effect
      BY <1>5, <2>1, <2>2, RowsOnly DEF MarkFailed, Exists
    <2> QED
      BY <1>5, <2>3, EffectDropTo, DashLabels DEF MarkFailed
  <1>6. CASE UNCHANGED vars
    BY <1>6, Unchanged, EffectKeepsRunners DEF vars, runVars
  <1> QED
    BY <1>1, <1>2, <1>3, <1>4, <1>5, <1>6, ThreadKinds

(* No stage is done, and none is queued after another, without the         *)
(* intermediate of the stage before it, when the dashboard's threads run   *)
(* stages too, fail them in one statement or die with their process.       *)
THEOREM DashPersists == DashSpec => []PersistedBeforeAdvance
  <1>1. DashInit => PersistInv
    BY PersistInit DEF DashInit
  <1>2. DashTypeInv /\ PersistInv /\ [DashNext]_allVars => PersistInv'
    <2> SUFFICES ASSUME DashTypeInv, PersistInv, [DashNext]_allVars  PROVE PersistInv'
      OBVIOUS
    <2> TypeInv
      BY DashFacts
    <2>1. CASE \/ \E a \in Artifact, toDone \in BOOLEAN : Enqueue(a, toDone)
               \/ UNCHANGED allVars
      BY <2>1, Unchanged, EffectKeepsRunners DEF Enqueue, allVars, vars, runVars
    <2>2. CASE DashCrash
      <3>1. Effect
        BY <2>2, Unchanged DEF DashCrash
      <3>2. \A r \in Runner : \/ pc'[r] = pc[r] /\ task'[r] = task[r]
                              \/ pc'[r] = "idle" /\ task'[r] = NoJob
        BY <2>2 DEF DashCrash
      <3>3. \A q \in Runner : task[q] # NoJob => task[q] \in Job
        BY DEF TypeInv, TypeOK
      <3>4. \A q \in Runner : pc[q] \in {"mark"} \cup After => task[q] \in Job
        BY <3>3 DEF TypeInv, Control, AtWork, Before
      <3>5. RunnersHaveRows'
        BY <3>1, <3>2, <3>3 DEF PersistInv, Effect, RunnersHaveRows, Exists
      <3>6. HandledIsPersisted'
        BY <3>1, <3>2, <3>4 DEF PersistInv, Effect, HandledIsPersisted, After
      <3>7. AdvancingHasNext'
        BY <3>2 DEF PersistInv, AdvancingHasNext, HasNext, After
      <3> QED
        BY <3>1, <3>5, <3>6, <3>7, EffectPersists DEF PersistInv
    <2> QED
      BY <2>1, <2>2, StepPersists, ThreadPersists DEF DashNext
  <1>3. PersistInv => PersistedBeforeAdvance
    BY DEF PersistInv
  <1> QED
    BY <1>1, <1>2, <1>3, DashTypeInvariant, PTL DEF DashSpec
=============================================================================
