---------------------------- MODULE EvalCompare ----------------------------
(***************************************************************************)
(* Eval-compare (pipeline/eval_compare.py, `pipeline eval run` and `eval   *)
(* approve`) next to the workers and commands of Orchestrator: a producer  *)
(* stage is run under several variants of its model, its artifact is held, *)
(* and the output of one variant is approved for the chain to go on with.  *)
(*                                                                         *)
(* Here it matters which intermediate a row names. Those of the evaluated  *)
(* stage are keyed by variant; one is identified by its path and by how    *)
(* often that has been written. The stage that follows commits what it has *)
(* read; that it refuses an artifact whose claims are there is one of the  *)
(* ways in which it may raise.                                             *)
(*                                                                         *)
(* Both commands are taken statement by statement and may die in between.  *)
(* On one artifact one of them is given at a time, on several any number:  *)
(* the code does not see to that, it is an assumption on the operator.     *)
(* Costs, latencies and the text of the report are left out.               *)
(***************************************************************************)
EXTENDS Orchestrator

CONSTANTS
  EvalStage,       (* the stage in EVALABLE                                *)
  Path,            (* names of its keyed intermediates                     *)
  DefaultPath,     (* the one of the model the stage is configured with    *)
  Variants,        (* those of the variants under evals.<stage>            *)
  NoPath, NoOutput

ASSUME EvalAssumption ==
  /\ EvalStage \in Stage
  /\ DefaultPath \in Path /\ NoPath \notin Path
  /\ Variants \in Seq(Path) /\ Variants # << >>
  /\ NoOutput \notin [path : Path, version : Nat]

VARIABLES
  content,         (* content[a][p]: times written, 0 if it is not there   *)
  out,             (* output_path of the evaluated stage's row             *)
  inp,             (* input_path of the row of the stage after it          *)
  read,            (* what a runner of that stage has read                 *)
  taken,           (* what that stage has committed last                   *)
  eval,            (* the eval command under way for an artifact           *)
  report,          (* the manifest: the outputs of the variants            *)
  chosen           (* the output approved, for as long as it stands        *)

pathVars == <<content, out, inp, read, taken>>
evalVars == <<pathVars, eval, report, chosen>>
everything == <<vars, evalVars>>

Output == [path : Path, version : Nat]
Variant == DOMAIN Variants
EvalStep == {"idle", "generate", "collect", "hold", "flip", "report",
             "lift", "mark", "advance"}

(* An eval command: its next statement, the variant it is at, the outputs  *)
(* it has collected, and whether its report still describes the artifact.  *)
NoEval == [step |-> "idle", at |-> 1, outputs |-> << >>, current |-> FALSE]

EvalInit ==
  /\ Init
  /\ content = [a \in Artifact |-> [p \in Path |-> 0]]
  /\ out = [a \in Artifact |-> NoPath] /\ inp = [a \in Artifact |-> NoPath]
  /\ read = [r \in Runner |-> NoOutput]
  /\ taken = [a \in Artifact |-> NoOutput]
  /\ eval = [a \in Artifact |-> NoEval]
  /\ report = [a \in Artifact |-> << >>]
  /\ chosen = [a \in Artifact |-> NoOutput]

EvalJob(a) == <<a, EvalStage>>
OutputAt(a, p) == [path |-> p, version |-> content[a][p]]
Evaluating(a, step) == eval[a].step = step
EvalGoto(a, step) == eval' = [eval EXCEPT ![a].step = step]

Produces(r) == task[r] # NoJob /\ task[r][2] = EvalStage
Consumes(r) == task[r] # NoJob /\ task[r] = NextJob(EvalJob(task[r][1]))
-----------------------------------------------------------------------------
(* run_stage, with the paths it reads and writes *)

(* The path in the row and the file it leads to, which the code reads      *)
(* in two steps of its own, are read in one.                               *)
ReadInput(r) ==
  /\ Start(r)
  /\ read' = [read EXCEPT ![r] = IF Consumes(r)
                                 THEN OutputAt(task[r][1], inp[task[r][1]]) ELSE NoOutput]
  /\ UNCHANGED <<content, out, inp, taken>>

WriteOutput(r) ==
  /\ Persist(r)
  /\ read' = [read EXCEPT ![r] = NoOutput]
  /\ \/ /\ Produces(r)
        /\ content' = [content EXCEPT ![task[r][1]][DefaultPath] = @ + 1]
        /\ UNCHANGED taken
     \/ /\ ~Produces(r) /\ Consumes(r)
        /\ taken' = [taken EXCEPT ![task[r][1]] = read[r]]
        /\ UNCHANGED content
     \/ /\ ~Produces(r) /\ ~Consumes(r)
        /\ UNCHANGED <<content, taken>>
  /\ UNCHANGED <<out, inp>>

(* mark_done records the output, InsertNext hands it on.                   *)
NamePaths(r) ==
  /\ out' = IF pc[r] = "mark" /\ Produces(r)
            THEN [out EXCEPT ![task[r][1]] = DefaultPath] ELSE out
  /\ inp' = IF pc[r] = "insert" /\ Produces(r)
            THEN [inp EXCEPT ![task[r][1]] = DefaultPath] ELSE inp
  /\ UNCHANGED <<content, read, taken>>

(* An approval stands until the row of its stage is given another status:  *)
(* the stage is asked for again, or the one before it has been rerun.      *)
ApprovalsEnd ==
  chosen' = [a \in Artifact |-> IF jobs'[EvalJob(a)].status # jobs[EvalJob(a)].status
                                THEN NoOutput ELSE chosen[a]]

RunWithPaths(r) ==
  /\ \/ (ReadInput(r) \/ WriteOutput(r)) /\ UNCHANGED <<processed, cmdVars, crashes>>
     \/ /\ \/ (MarkDone(r) \/ ReadFrozen(r)) /\ UNCHANGED <<processed, cmdVars, crashes>>
           \/ r \in Worker /\ WorkerReturns(r)
           \/ r \in Cli /\ StepReturns(r)
        /\ NamePaths(r)
  /\ ApprovalsEnd
  /\ UNCHANGED <<eval, report>>

(* A command touches artifact a.                                           *)
Touches(a) ==
  \/ \E k \in Job : k[1] = a /\ jobs'[k] # jobs[k]
  \/ ctl'[<<"artifact", a>>] # ctl[<<"artifact", a>>]
  \/ \E f \in flips' \ flips : f[2] = a
  \/ \E r \in Runner : task'[r] # task[r] /\ task'[r][1] = a

(* A careful operator leaves an artifact alone while an eval command is at *)
(* it, and its stage paused until the artifact is held.                    *)
LeftAlone(a) ==
  /\ ~Touches(a)
  /\ eval[a].step \in {"generate", "collect", "hold", "flip"} /\ Paused(EvalJob(a))
       => Paused(EvalJob(a))'

(* Another command is given: no report describes what it changed.          *)
OtherCommand ==
  /\ Command
  /\ Careful => \A a \in Artifact : ~Evaluating(a, "idle") => LeftAlone(a)
  /\ eval' = [a \in Artifact |-> [eval[a] EXCEPT !.current = @ /\ ~Touches(a)]]

(* The steps in which no stage advances. What a dead runner has read is    *)
(* gone.                                                                   *)
Elsewhere ==
  /\ \/ /\ \/ \E w \in Worker : \/ ReadLimits(w) \/ Claim(w) \/ ClaimNothing(w)
                                \/ WorkerRaises(w) \/ ReadAttempts(w) \/ RecordFailure(w)
           \/ \E c \in Cli : StepRaises(c)
           \/ \E r \in Worker \cup Cli : Crash(r)
        /\ UNCHANGED eval
     \/ OtherCommand
  /\ read' = [r \in Runner |-> IF pc'[r] = "handle" THEN read[r] ELSE NoOutput]
  /\ ApprovalsEnd
  /\ UNCHANGED <<content, out, inp, taken, report>>
-----------------------------------------------------------------------------
(* eval run *)

(* What a careful operator sees to first: nothing is at work on the        *)
(* artifact, nor can be, its stage being paused.                           *)
Secured(k) ==
  /\ Quiet(k) /\ jobs[k].status \in {"ready", "held"} /\ Paused(k)
  /\ \A f \in flips : f[2] # k[1]

EvalRun(a) ==
  /\ Give("eval")
  /\ Evaluating(a, "idle")
  /\ Exists(EvalJob(a)) /\ jobs[EvalJob(a)].status # "done"
  /\ Careful => Secured(EvalJob(a))
  /\ eval' = [eval EXCEPT ![a] = [NoEval EXCEPT !.step = "generate"]]
  /\ UNCHANGED <<jobs, clock, ctl, runVars, processed, flips, writes, crashes,
                 pathVars, report, chosen>>

(* Mutant: a variant that fails is reported all the same.                  *)
Generate_failed(a) ==
  /\ Evaluating(a, "generate")
  /\ EvalGoto(a, "collect")
  /\ UNCHANGED <<vars, pathVars, report, chosen>>

(* The handler under one variant, and its intermediate read back.          *)
Generate(a) ==
  /\ Evaluating(a, "generate")
  /\ content' = [content EXCEPT ![a][Variants[eval[a].at]] = @ + 1]
  /\ EvalGoto(a, "collect")
  /\ UNCHANGED <<vars, out, inp, read, taken, report, chosen>>

Collect(a) ==
  /\ Evaluating(a, "collect")
  /\ LET next == eval[a].at + 1
         output == OutputAt(a, Variants[eval[a].at])
     IN  eval' = [eval EXCEPT ![a] =
           [@ EXCEPT !.outputs = Append(eval[a].outputs, output),
                     !.at = next,
                     !.step = IF next \in Variant THEN "generate" ELSE "hold"]]
  /\ UNCHANGED <<vars, pathVars, report, chosen>>

(* hold_artifact: the control, then the rows.                              *)
EvalHold(a) ==
  /\ Evaluating(a, "hold")
  /\ ctl' = [ctl EXCEPT ![<<"artifact", a>>] =
               MergedRow(ctl, <<"artifact", a>>, "paused", NULL)]
  /\ EvalGoto(a, "flip")
  /\ UNCHANGED <<jobs, clock, runVars, processed, cmdVars, crashes, pathVars, report, chosen>>

(* Mutants: the control alone is set; the rows are held whatever they are. *)
EvalHoldRows_none(a) ==
  /\ Evaluating(a, "flip")
  /\ EvalGoto(a, "report")
  /\ UNCHANGED <<vars, pathVars, report, chosen>>

EvalHoldRows_all(a) ==
  /\ Evaluating(a, "flip")
  /\ MoveRows(a, {"ready", "done"}, "held")
  /\ EvalGoto(a, "report")
  /\ UNCHANGED <<ctl, runVars, processed, cmdVars, crashes, pathVars, report, chosen>>

EvalHoldRows(a) ==
  /\ Evaluating(a, "flip")
  /\ MoveRows(a, {"ready"}, "held")
  /\ EvalGoto(a, "report")
  /\ UNCHANGED <<ctl, runVars, processed, cmdVars, crashes, pathVars, report, chosen>>

WriteReport(a) ==
  /\ Evaluating(a, "report")
  /\ report' = [report EXCEPT ![a] = eval[a].outputs]
  /\ eval' = [eval EXCEPT ![a] = [NoEval EXCEPT !.current = TRUE]]
  /\ UNCHANGED <<vars, pathVars, chosen>>

(* A variant's handler raises: nothing is held, nothing reported.          *)
EvalRaises(a) ==
  /\ eval[a].step \in {"generate", "collect"}
  /\ eval' = [eval EXCEPT ![a] = NoEval]
  /\ UNCHANGED <<vars, pathVars, report, chosen>>
-----------------------------------------------------------------------------
(* eval approve *)

(* The manifest is read. A careful operator approves from the report the   *)
(* last eval run gave, with nothing done to the artifact since.            *)
Approve(a, i) ==
  /\ Give("approve")
  /\ Evaluating(a, "idle")
  /\ i \in DOMAIN report[a]
  /\ Exists(EvalJob(a))
  /\ Careful => eval[a].current
  /\ eval' = [eval EXCEPT ![a] = [NoEval EXCEPT !.step = "lift", !.at = i]]
  /\ UNCHANGED <<jobs, clock, ctl, runVars, processed, flips, writes, crashes,
                 pathVars, report, chosen>>

LiftHold(a) ==
  /\ Evaluating(a, "lift")
  /\ ctl' = [ctl EXCEPT ![<<"artifact", a>>] = NoRow]
  /\ EvalGoto(a, "mark")
  /\ UNCHANGED <<jobs, clock, runVars, processed, cmdVars, crashes, pathVars, report, chosen>>

Picked(a) == report[a][eval[a].at]

(* Mutant: the number of the variant is recorded.                          *)
MarkApproved_number(a) ==
  /\ Evaluating(a, "mark")
  /\ mark_done(EvalJob(a))
  /\ out' = [out EXCEPT ![a] = eval[a].at]
  /\ chosen' = [chosen EXCEPT ![a] = NoOutput]
  /\ EvalGoto(a, IF HasNext(EvalJob(a)) THEN "advance" ELSE "idle")
  /\ UNCHANGED <<ctl, runVars, processed, cmdVars, crashes, content, inp, read, taken, report>>

MarkApproved(a) ==
  /\ Evaluating(a, "mark")
  /\ mark_done(EvalJob(a))
  /\ out' = [out EXCEPT ![a] = Picked(a).path]
  /\ chosen' = [chosen EXCEPT ![a] = NoOutput]
  /\ EvalGoto(a, IF HasNext(EvalJob(a)) THEN "advance" ELSE "idle")
  /\ UNCHANGED <<ctl, runVars, processed, cmdVars, crashes, content, inp, read, taken, report>>

(* Mutant: the row that is there keeps its input.                          *)
ResumeChain_old_input(a) ==
  /\ Evaluating(a, "advance")
  /\ insert_job(NextJob(EvalJob(a)), "ready", TRUE)
  /\ inp' = IF inp[a] = NoPath THEN [inp EXCEPT ![a] = Picked(a).path] ELSE inp
  /\ chosen' = [chosen EXCEPT ![a] = Picked(a)]
  /\ EvalGoto(a, "idle")
  /\ UNCHANGED <<ctl, runVars, processed, cmdVars, crashes, content, out, read, taken, report>>

(* The next stage is to run on the approved output, again if need be. From *)
(* here on the approval stands: one killed before leaves the row after it  *)
(* with the input it had.                                                  *)
ResumeChain(a) ==
  /\ Evaluating(a, "advance")
  /\ insert_job(NextJob(EvalJob(a)), "ready", TRUE)
  /\ inp' = [inp EXCEPT ![a] = Picked(a).path]
  /\ chosen' = [chosen EXCEPT ![a] = Picked(a)]
  /\ EvalGoto(a, "idle")
  /\ UNCHANGED <<ctl, runVars, processed, cmdVars, crashes, content, out, read, taken, report>>

(* Either command is killed between two statements.                        *)
EvalDies(a) ==
  /\ ~Evaluating(a, "idle")
  /\ crashes < MaxCrashes
  /\ crashes' = crashes + 1
  /\ eval' = [eval EXCEPT ![a] = NoEval]
  /\ UNCHANGED <<jobs, clock, ctl, runVars, processed, cmdVars, pathVars, report, chosen>>

EvalCommand(a) ==
  \/ EvalRun(a) \/ Generate(a) \/ Collect(a) \/ EvalHold(a) \/ EvalHoldRows(a)
  \/ WriteReport(a) \/ EvalRaises(a)
  \/ (\E i \in Variant : Approve(a, i)) \/ LiftHold(a) \/ MarkApproved(a) \/ ResumeChain(a)
  \/ EvalDies(a)

EvalNext ==
  \/ \E r \in Worker \cup Cli : RunWithPaths(r)
  \/ Elsewhere
  \/ \E a \in Artifact : EvalCommand(a)

EvalSpec == EvalInit /\ [][EvalNext]_everything
-----------------------------------------------------------------------------
(* Properties *)

EvalTypeOK ==
  /\ TypeOK
  /\ content \in [Artifact -> [Path -> Nat]]
  /\ out \in [Artifact -> Path \cup {NoPath}] /\ inp \in [Artifact -> Path \cup {NoPath}]
  /\ read \in [Runner -> Output \cup {NoOutput}]
  /\ taken \in [Artifact -> Output \cup {NoOutput}]
  /\ eval \in [Artifact -> [step : EvalStep, at : Nat, outputs : Seq(Output),
                            current : BOOLEAN]]
  /\ report \in [Artifact -> Seq(Output)]
  /\ chosen \in [Artifact -> Output \cup {NoOutput}]

(* Whoever finished the stage, a worker or an approval, the output its row *)
(* names has been written, and so has the input of the row after it.       *)
PathsLead ==
  \A a \in Artifact :
    /\ jobs[EvalJob(a)].status = "done" => out[a] \in Path /\ content[a][out[a]] > 0
    /\ HasNext(EvalJob(a)) /\ Exists(NextJob(EvalJob(a)))
         => inp[a] \in Path /\ content[a][inp[a]] > 0

(* The stage after a finished one is to run on the very output the         *)
(* finished one's row names, unless one of the two is about to change.     *)
InputIsOutput ==
  crashes = 0 =>
    \A a \in Artifact :
      /\ jobs[EvalJob(a)].status = "done" /\ ~Evaluating(a, "advance")
      /\ HasNext(EvalJob(a)) /\ ~Advancing(EvalJob(a))
      => inp[a] = out[a]

(* Approve picks the winner and the committer consumes it: while an        *)
(* approval stands, what the next stage commits is the output that was     *)
(* approved, as it was when it was reported.                               *)
CommitsTheApproved ==
  [][\A a \in Artifact : taken'[a] # taken[a] /\ chosen[a] # NoOutput
                           => taken'[a] = chosen[a]]_everything
=============================================================================
