-------------------------- MODULE Exclusion_proofs --------------------------
(***************************************************************************)
(* The queue for any number of workers and commands, when requeueing       *)
(* commands are given to quiet jobs only (Careful).                        *)
(*                                                                         *)
(* No two processes run stages of one artifact at the same time, whatever  *)
(* crashes. That the claim is atomic does not suffice. The invariant says, *)
(* artifact by artifact, that at most one row is unfinished, that a        *)
(* runner's row is in the status its statement expects, and that nothing   *)
(* is unfinished besides a runner that has marked its row done and not yet *)
(* queued the next: so a claim finds no ready row where somebody is at     *)
(* work.                                                                   *)
(*                                                                         *)
(* The queue keeps the promise of StageChain, and what it must not lose or *)
(* leave outdated it does not, as long as no process dies. Every statement *)
(* changes the phase of one row at most. Which change the chain allows     *)
(* depends on the other rows of the artifact, and that these are as it     *)
(* wants them is what that invariant says.                                 *)
(***************************************************************************)
EXTENDS Orchestrator_proofs

OneOpen(a) ==
  \A j, k \in Job : j[1] = a /\ k[1] = a /\ Unfinished(j) /\ Unfinished(k) => j = k

FirstThere(a) == \A k \in Job : k[1] = a /\ Exists(k) => Exists(FirstJob(a))

OneBusy(a) == \A p, q \in Runner : Busy(p, a) /\ Busy(q, a) => p = q

(* The status of the row r works on. *)
Expected(r) ==
  /\ pc[r] \in Before => jobs[task[r]].status = IF r \in Cli THEN "held" ELSE "running"
  /\ pc[r] \in After => jobs[task[r]].status = "done"
  /\ pc[r] \in Failing \cup {"give up"} => jobs[task[r]].status \in {"running", "done"}

InStep(a) ==
  \A r \in Runner : Busy(r, a) =>
    /\ Expected(r)
    /\ jobs[task[r]].status = "done" => \A k \in Job : k[1] = a => ~Unfinished(k)
    /\ r \in Cli => <<"release", a>> \notin flips

ArtifactInv(a) == OneOpen(a) /\ FirstThere(a) /\ OneBusy(a) /\ InStep(a)

ExclusionInv == \A a \in Artifact : ArtifactInv(a)

LEMMA ExclusionImplies ==
  ASSUME TypeInv, ExclusionInv
  PROVE  OneRunnerPerArtifact
  <1> SUFFICES ASSUME NEW p \in Runner, NEW q \in Runner, p # q,
                      task[p] # NoJob, task[q] # NoJob, task[p][1] = task[q][1]
               PROVE  FALSE
    BY DEF OneRunnerPerArtifact
  <1>1. task[p][1] \in Artifact
    BY DEF TypeInv, TypeOK, Job
  <1> QED
    BY <1>1 DEF ExclusionInv, ArtifactInv, OneBusy, Busy

LEMMA BusyFacts ==
  ASSUME TypeInv, NEW r \in Runner, task[r] # NoJob
  PROVE  /\ task[r] \in Job /\ task[r][1] \in Artifact
         /\ pc[r] \in AtWork
  BY DEF TypeInv, TypeOK, Control, Job

(* An artifact the step does not touch. *)
LEMMA Untouched ==
  ASSUME TypeInv, NEW a, ArtifactInv(a),
         \A k \in Job : k[1] = a => jobs'[k] = jobs[k],
         \A r \in Runner : \/ task'[r] = task[r] /\ pc'[r] = pc[r]
                           \/ ~Busy(r, a) /\ (task'[r] = NoJob \/ task'[r][1] # a),
         FirstJob(a) \in Job,
         <<"release", a>> \in flips' => <<"release", a>> \in flips
  PROVE  ArtifactInv(a)'
  <1>1. OneOpen(a)'
    BY DEF ArtifactInv, OneOpen, Unfinished
  <1>2. FirstThere(a)'
    BY DEF ArtifactInv, FirstThere, Exists, FirstJob
  <1>3. \A r \in Runner : Busy(r, a)' => Busy(r, a) /\ task'[r] = task[r] /\ pc'[r] = pc[r]
    BY DEF Busy
  <1>4. OneBusy(a)'
    BY <1>3 DEF ArtifactInv, OneBusy
  <1>5. InStep(a)'
    <2> SUFFICES ASSUME NEW r \in Runner, Busy(r, a)'
                 PROVE  /\ Expected(r)'
                        /\ jobs'[task'[r]].status = "done"
                             => \A k \in Job : k[1] = a => ~Unfinished(k)'
                        /\ r \in Cli => <<"release", a>> \notin flips'
      BY DEF InStep
    <2>1. Busy(r, a) /\ task'[r] = task[r] /\ pc'[r] = pc[r]
      BY <1>3
    <2>2. task[r] \in Job /\ task[r][1] = a
      BY <2>1, BusyFacts DEF Busy
    <2>3. jobs'[task'[r]] = jobs[task[r]]
      BY <2>1, <2>2
    <2> QED
      BY <2>1, <2>3 DEF ArtifactInv, InStep, Expected, Unfinished
  <1> QED
    BY <1>1, <1>2, <1>4, <1>5 DEF ArtifactInv

LEMMA FirstJobIsJob ==
  ASSUME NEW a \in Artifact
  PROVE  FirstJob(a) \in Job /\ FirstJob(a)[1] = a
  BY JobTableAssumption, ChainIsSequence DEF FirstJob, first_stage, Job

(* A step that touches the rows and the runners of one artifact only.      *)
LEMMA OneArtifact ==
  ASSUME TypeInv, ExclusionInv, NEW a \in Artifact, ArtifactInv(a)',
         \A k \in Job : k[1] # a => jobs'[k] = jobs[k],
         \A r \in Runner : \/ task'[r] = task[r] /\ pc'[r] = pc[r]
                           \/ /\ task[r] = NoJob \/ task[r][1] = a
                              /\ task'[r] = NoJob \/ task'[r][1] = a,
         \A b \in Artifact \ {a} : <<"release", b>> \in flips' => <<"release", b>> \in flips
  PROVE  ExclusionInv'
  <1> SUFFICES ASSUME NEW b \in Artifact, b # a  PROVE ArtifactInv(b)'
    BY DEF ExclusionInv
  <1>1. \A r \in Runner : \/ task'[r] = task[r] /\ pc'[r] = pc[r]
                          \/ ~Busy(r, b) /\ (task'[r] = NoJob \/ task'[r][1] # b)
    BY DEF Busy
  <1> QED
    BY <1>1, Untouched, FirstJobIsJob DEF ExclusionInv
-----------------------------------------------------------------------------
(* A runner's step keeps the other runners off its artifact. *)
LEMMA Alone ==
  ASSUME TypeInv, ExclusionInv, NEW r \in Runner, task[r] # NoJob
  PROVE  /\ ArtifactInv(task[r][1])
         /\ task[r] \in Job
         /\ Busy(r, task[r][1])
         /\ Expected(r)
         /\ \A q \in Runner \ {r} : task[q] = NoJob \/ task[q][1] # task[r][1]
         /\ Unfinished(task[r]) =>
              \A k \in Job : k[1] = task[r][1] /\ Unfinished(k) => k = task[r]
         /\ jobs[task[r]].status = "done" =>
              \A k \in Job : k[1] = task[r][1] => ~Unfinished(k)
  <1>1. task[r] \in Job /\ task[r][1] \in Artifact
    BY BusyFacts
  <1>2. ArtifactInv(task[r][1])
    BY <1>1 DEF ExclusionInv
  <1> QED
    BY <1>1, <1>2 DEF ArtifactInv, OneOpen, OneBusy, InStep, Busy

(* r goes on in run_stage, or leaves it, without touching a row. *)
LEMMA MoveOn ==
  ASSUME TypeInv, ExclusionInv, NEW r \in Runner, task[r] # NoJob, UNCHANGED <<jobs, flips>>,
         \A q \in Runner \ {r} : task'[q] = task[q] /\ pc'[q] = pc[q],
         \/ task'[r] = NoJob
         \/ task'[r] = task[r] /\ Expected(r)'
  PROVE  ExclusionInv'
  <1>1. PICK a \in Artifact : a = task[r][1]
    BY BusyFacts
  <1>2. /\ OneOpen(a) /\ FirstThere(a) /\ InStep(a)
        /\ Busy(r, a)
        /\ \A q \in Runner \ {r} : task[q] = NoJob \/ task[q][1] # a
    BY <1>1, Alone DEF ArtifactInv
  <1>3. OneOpen(a)' /\ FirstThere(a)'
    BY <1>2 DEF OneOpen, FirstThere, Unfinished, Exists, FirstJob
  <1>4. \A q \in Runner : Busy(q, a)' => q = r /\ task'[r] = task[r] /\ Expected(r)'
    BY <1>2 DEF Busy
  <1>5. OneBusy(a)'
    BY <1>4 DEF OneBusy
  <1>6. InStep(a)'
    BY <1>2, <1>4 DEF InStep, Unfinished
  <1>7. ArtifactInv(a)'
    BY <1>3, <1>5, <1>6 DEF ArtifactInv
  <1> QED
    BY <1>1, <1>2, <1>7, OneArtifact

(* r finishes its row, and goes on or leaves. *)
LEMMA Finish ==
  ASSUME TypeInv, ExclusionInv, NEW r \in Runner, pc[r] = "mark", mark_done(task[r]),
         UNCHANGED flips,
         \A q \in Runner \ {r} : task'[q] = task[q] /\ pc'[q] = pc[q],
         \/ task'[r] = NoJob
         \/ task'[r] = task[r] /\ pc'[r] = "advance"
  PROVE  ExclusionInv'
  <1>0. task[r] # NoJob
    BY DEF TypeInv, Control, AtWork, Before
  <1>1. PICK a \in Artifact : a = task[r][1]
    BY <1>0, BusyFacts
  <1>2. /\ OneOpen(a) /\ FirstThere(a) /\ InStep(a)
        /\ Busy(r, a) /\ task[r] \in Job
        /\ \A q \in Runner \ {r} : task[q] = NoJob \/ task[q][1] # a
    BY <1>0, <1>1, Alone DEF ArtifactInv
  <1>3. Unfinished(task[r])
    BY <1>2 DEF InStep, Expected, Before, Unfinished
  <1>4. \A k \in Job : k # task[r] => jobs'[k] = jobs[k]
    BY <1>2 DEF mark_done, TypeInv, TypeOK
  <1>5. jobs'[task[r]].status = "done"
    BY <1>2 DEF mark_done, TypeInv, TypeOK, Row
  <1>6. \A k \in Job : k[1] = a => ~Unfinished(k)'
    BY <1>1, <1>2, <1>3, <1>4, <1>5 DEF OneOpen, Unfinished
  <1>7. OneOpen(a)'
    BY <1>6 DEF OneOpen
  <1>8. FirstThere(a)'
    <2>1. FirstJob(a) \in Job /\ Exists(FirstJob(a))
      BY <1>1, <1>2, <1>3, FirstJobIsJob DEF FirstThere, Unfinished, Exists
    <2> QED
      BY <1>4, <1>5, <2>1 DEF FirstThere, Exists, FirstJob
  <1>9. \A q \in Runner : Busy(q, a)' => q = r /\ task'[r] = task[r] /\ pc'[r] = "advance"
    BY <1>2 DEF Busy
  <1>10. OneBusy(a)'
    BY <1>9 DEF OneBusy
  <1>11. InStep(a)'
    BY <1>2, <1>5, <1>6, <1>9 DEF InStep, Expected, Before, After, Failing
  <1>12. ArtifactInv(a)'
    BY <1>7, <1>8, <1>10, <1>11 DEF ArtifactInv
  <1> QED
    BY <1>1, <1>4, <1>12, OneArtifact

(* r leaves, and in doing so sets a row of its artifact, where no other is *)
(* unfinished.                                                             *)
LEMMA LeaveRow ==
  ASSUME TypeInv, ExclusionInv, NEW r \in Runner, task[r] # NoJob, NEW l, DropTo(r, l),
         UNCHANGED flips, NEW n \in Job, n[1] = task[r][1],
         \A k \in Job : k[1] = n[1] /\ Unfinished(k) => k = n,
         \A k \in Job : k # n => jobs'[k] = jobs[k],
         jobs'[n].status # "absent"
  PROVE  ExclusionInv'
  <1>1. PICK a \in Artifact : a = task[r][1]
    BY BusyFacts
  <1>2. /\ FirstThere(a) /\ Expected(r) /\ task[r] \in Job
        /\ \A q \in Runner \ {r} : task[q] = NoJob \/ task[q][1] # a
    BY <1>1, Alone DEF ArtifactInv
  <1>3. OneOpen(a)'
    BY <1>1 DEF OneOpen, Unfinished
  <1>4. FirstThere(a)'
    <2>1. Exists(task[r])
      BY <1>2, BusyFacts DEF Expected, AtWork, Exists
    <2>2. FirstJob(a) \in Job /\ Exists(FirstJob(a))
      BY <1>1, <1>2, <2>1, FirstJobIsJob DEF FirstThere
    <2> QED
      BY <2>2 DEF FirstThere, Exists, FirstJob
  <1>5. \A q \in Runner \ {r} : task'[q] = task[q] /\ pc'[q] = pc[q]
    BY DEF DropTo, Goto, TypeInv, TypeOK
  <1>6. task'[r] = NoJob
    BY DEF DropTo, TypeInv, TypeOK
  <1>7. \A q \in Runner : ~Busy(q, a)'
    BY <1>2, <1>5, <1>6 DEF Busy
  <1>8. ArtifactInv(a)'
    BY <1>3, <1>4, <1>7 DEF ArtifactInv, OneBusy, InStep
  <1> QED
    BY <1>1, <1>5, <1>6, <1>8, OneArtifact

(* r enters run_stage for a row no runner is at. *)
LEMMA EnterRow ==
  ASSUME TypeInv, ExclusionInv, NEW r \in Runner, task[r] = NoJob,
         NEW k \in Job, Take(r, k), UNCHANGED flips, Unfinished(k),
         \A q \in Runner : ~Busy(q, k[1]),
         \A j \in Job : j # k => jobs'[j] = jobs[j],
         jobs'[k].status = IF r \in Cli THEN "held" ELSE "running",
         r \in Cli => <<"release", k[1]>> \notin flips
  PROVE  ExclusionInv'
  <1>1. PICK a \in Artifact : a = k[1]
    BY DEF Job
  <1>2. OneOpen(a) /\ FirstThere(a)
    BY DEF ExclusionInv, ArtifactInv
  <1>3. /\ \A q \in Runner \ {r} : task'[q] = task[q] /\ pc'[q] = pc[q]
        /\ task'[r] = k /\ pc'[r] = "start"
    BY DEF Take, Goto, TypeInv, TypeOK
  <1>4. Unfinished(k)'
    BY DEF Unfinished
  <1>5. OneOpen(a)'
    BY <1>1, <1>2, <1>4 DEF OneOpen, Unfinished
  <1>6. FirstThere(a)'
    <2>1. FirstJob(a) \in Job /\ Exists(FirstJob(a))
      BY <1>1, <1>2, FirstJobIsJob DEF FirstThere, Unfinished, Exists
    <2> QED
      BY <2>1, <1>4 DEF FirstThere, Exists, Unfinished, FirstJob
  <1>7. \A q \in Runner : Busy(q, a)' => q = r
    BY <1>1, <1>3 DEF Busy
  <1>8. OneBusy(a)'
    BY <1>7 DEF OneBusy
  <1>9. InStep(a)'
    BY <1>1, <1>3, <1>7 DEF InStep, Expected, Before, After, Failing
  <1>10. ArtifactInv(a)'
    BY <1>5, <1>6, <1>8, <1>9 DEF ArtifactInv
  <1> QED
    BY <1>1, <1>3, <1>10, OneArtifact

(* The rows of a change under a command; the rows of runners do not. *)
LEMMA CommandRows ==
  ASSUME TypeInv, ExclusionInv, UNCHANGED <<pc, task>>, NEW a \in Artifact,
         \A k \in Job : k[1] # a => jobs'[k] = jobs[k],
         OneOpen(a)', FirstThere(a)',
         \A r \in Runner : Busy(r, a) =>
           /\ jobs'[task[r]] = jobs[task[r]]
           /\ \A k \in Job : k[1] = a /\ Unfinished(k)' => Unfinished(k)
           /\ r \in Cli => <<"release", a>> \notin flips',
         \A b \in Artifact \ {a} : <<"release", b>> \in flips' => <<"release", b>> \in flips
  PROVE  ExclusionInv'
  <1>1. OneBusy(a) /\ InStep(a)
    BY DEF ExclusionInv, ArtifactInv
  <1>2. OneBusy(a)'
    BY <1>1 DEF OneBusy, Busy
  <1>3. InStep(a)'
    <2> SUFFICES ASSUME NEW r \in Runner, Busy(r, a)
                 PROVE  /\ Expected(r)'
                        /\ jobs'[task[r]].status = "done"
                             => \A k \in Job : k[1] = a => ~Unfinished(k)'
                        /\ r \in Cli => <<"release", a>> \notin flips'
      BY DEF InStep, Busy
    <2> QED
      BY <1>1 DEF InStep, Expected
  <1>4. ArtifactInv(a)'
    BY <1>2, <1>3 DEF ArtifactInv
  <1> QED
    BY <1>4, OneArtifact

LEMMA BusyStatus ==
  ASSUME TypeInv, ExclusionInv, NEW r \in Runner, task[r] # NoJob
  PROVE  jobs[task[r]].status \in {IF r \in Cli THEN "held" ELSE "running", "done"}
  <1>1. Expected(r) /\ pc[r] \in AtWork
    BY Alone, BusyFacts
  <1>2. r \in Cli => pc[r] \notin Failing \cup {"give up"}
    BY RunStageAssumption DEF TypeInv, Control
  <1> QED
    BY <1>1, <1>2 DEF Expected, AtWork

(* A command that touches no row, and starts no release. *)
LEMMA StandStill ==
  ASSUME TypeInv, ExclusionInv, UNCHANGED <<jobs, pc, task>>,
         \A a \in Artifact : <<"release", a>> \in flips' => <<"release", a>> \in flips
  PROVE  ExclusionInv'
  <1>1. ASSUME NEW a \in Artifact
        PROVE  ArtifactInv(a)'
    BY Untouched, FirstJobIsJob DEF ExclusionInv
  <1> QED
    BY <1>1 DEF ExclusionInv

(* Commands that move rows from one unfinished status to another. *)
LEMMA MoveKeeps ==
  ASSUME TypeInv, ExclusionInv, UNCHANGED <<pc, task>>, NEW a \in Artifact,
         NEW from \in SUBSET {"ready", "failed", "held"}, NEW to \in {"ready", "held"},
         MoveRows(a, from, to) \/ RequeueRows(a, from),
         "held" \in from => NotWalked(a),
         flips' \subseteq flips
  PROVE  ExclusionInv'
  <1>1. \A k \in Job : \/ jobs'[k] = jobs[k]
                       \/ /\ k[1] = a
                          /\ jobs[k].status \in from
                          /\ jobs'[k].status \in {"ready", "held"}
    <2>1. \A k \in Job : /\ [jobs[k] EXCEPT !.status = to].status = to
                         /\ [jobs[k] EXCEPT !.status = "ready", !.attempts = 0].status = "ready"
      BY DEF TypeInv, TypeOK, Row
    <2>2. CASE MoveRows(a, from, to)
      BY <2>1, <2>2 DEF MoveRows
    <2>3. CASE RequeueRows(a, from)
      BY <2>1, <2>3 DEF RequeueRows
    <2> QED
      BY <2>2, <2>3
  <1>2. \A k \in Job : /\ Unfinished(k)' <=> Unfinished(k)
                       /\ Exists(k)' <=> Exists(k)
    BY <1>1 DEF Unfinished, Exists
  <1>3. OneOpen(a) /\ FirstThere(a)
    BY DEF ExclusionInv, ArtifactInv
  <1>4. OneOpen(a)'
    BY <1>2, <1>3 DEF OneOpen
  <1>5. FirstThere(a)'
    BY <1>2, <1>3, FirstJobIsJob DEF FirstThere, FirstJob
  <1>6. ASSUME NEW r \in Runner, Busy(r, a)
        PROVE  /\ jobs'[task[r]] = jobs[task[r]]
               /\ r \in Cli => <<"release", a>> \notin flips'
    <2>1. task[r] \in Job /\ task[r] # NoJob
      BY <1>6, BusyFacts DEF Busy
    <2>2. jobs[task[r]].status \notin from
      BY <1>6, <2>1, BusyStatus DEF NotWalked
    <2>3. r \in Cli => <<"release", a>> \notin flips
      BY <1>6 DEF ExclusionInv, ArtifactInv, InStep
    <2> QED
      BY <1>1, <2>1, <2>2, <2>3
  <1> QED
    BY <1>1, <1>2, <1>4, <1>5, <1>6, CommandRows

(* Commands that requeue a row of a quiet artifact. *)
LEMMA QuietKeeps ==
  ASSUME TypeInv, ExclusionInv, UNCHANGED <<pc, task, flips>>, NEW k \in Job, Quiet(k),
         Exists(FirstJob(k[1])) \/ k = FirstJob(k[1]),
         \A j \in Job : j # k => jobs'[j] = jobs[j],
         jobs'[k].status # "absent"
  PROVE  ExclusionInv'
  <1>1. PICK a \in Artifact : a = k[1]
    BY DEF Job
  <1>2. FirstThere(a)
    BY DEF ExclusionInv, ArtifactInv
  <1>3. OneOpen(a)'
    BY <1>1 DEF OneOpen, Quiet, Unfinished
  <1>4. FirstThere(a)'
    <2>1. Exists(FirstJob(a))'
      BY <1>1, FirstJobIsJob DEF Exists, FirstJob
    <2> QED
      BY <2>1 DEF FirstThere
  <1>5. \A r \in Runner : ~Busy(r, a)
    BY <1>1 DEF Quiet
  <1> QED
    BY <1>1, <1>3, <1>4, <1>5, CommandRows
-----------------------------------------------------------------------------
(* The steps of Next *)

(* What insert_job leaves in the row it is given, and in the others. *)
LEMMA InsertRow ==
  ASSUME TypeInv, NEW k \in Job, NEW status \in {"ready", "held"}, NEW reprocess \in BOOLEAN,
         insert_job(k, status, reprocess)
  PROVE  /\ \A j \in Job : j # k => jobs'[j] = jobs[j]
         /\ jobs'[k].status # "absent"
         /\ IF jobs[k].status = "done" /\ ~reprocess THEN jobs' = jobs
                                                     ELSE jobs'[k].status = status
  <1>1. [jobs[k] EXCEPT !.status = status, !.attempts = 0].status = status
    BY DEF TypeInv, TypeOK, Row
  <1>2. [status |-> status, attempts |-> 0, created |-> clock].status = status
    OBVIOUS
  <1>3. CASE jobs' = jobs /\ jobs[k].status = "done" /\ ~reprocess
    BY <1>3
  <1>4. CASE /\ ~(jobs[k].status = "done" /\ ~reprocess)
             /\ \E row : row.status = status /\ jobs' = [jobs EXCEPT ![k] = row]
    BY <1>4 DEF TypeInv, TypeOK
  <1> QED
    BY <1>1, <1>2, <1>3, <1>4, Zenon DEF insert_job, Exists

(* A ready row is of an artifact nobody is at work on, so to claim it is   *)
(* to enter it alone.                                                      *)
LEMMA ClaimExcludes ==
  ASSUME TypeInv, ExclusionInv, NEW r \in Runner \ Cli, task[r] = NoJob, NEW k \in Job,
         jobs[k].status = "ready", ClaimRow(k), Take(r, k), UNCHANGED flips
  PROVE  ExclusionInv'
  <1>1. \A j \in Job : j # k => jobs'[j] = jobs[j]
    BY DEF ClaimRow, TypeInv, TypeOK
  <1>2. jobs'[k].status = "running"
    BY DEF ClaimRow, TypeInv, TypeOK, Row
  <1>3. Unfinished(k)
    BY DEF Unfinished
  <1>4. ASSUME NEW q \in Runner, Busy(q, k[1])
        PROVE  FALSE
    <2>1. task[q] # NoJob /\ task[q][1] = k[1]
      BY <1>4 DEF Busy
    <2>2. jobs[task[q]].status \in {"running", "held", "done"}
      BY <2>1, BusyStatus
    <2>3. CASE jobs[task[q]].status = "done"
      BY <1>3, <2>1, <2>3, Alone
    <2>4. CASE jobs[task[q]].status \in {"running", "held"}
      <3>1. Unfinished(task[q])
        BY <2>4 DEF Unfinished
      <3>2. k = task[q]
        BY <1>3, <2>1, <3>1, Alone
      <3> QED
        BY <2>4, <3>2
    <2> QED
      BY <2>2, <2>3, <2>4
  <1> QED
    BY <1>1, <1>2, <1>3, <1>4, EnterRow

LEMMA BodyExcludes ==
  ASSUME TypeInv, ExclusionInv, NEW r \in Runner, RunBody(r)
  PROVE  ExclusionInv'
  <1>1. task[r] # NoJob
    BY DEF RunBody, Start, Persist, MarkDone, ReadFrozen, TypeInv, Control, AtWork, Before, After
  <1>2. /\ UNCHANGED <<task, flips>>
        /\ \A q \in Runner \ {r} : task'[q] = task[q] /\ pc'[q] = pc[q]
    BY DEF RunBody, Start, Persist, MarkDone, ReadFrozen, Goto, TypeInv, TypeOK, cmdVars
  <1>3. CASE Start(r) \/ Persist(r) \/ ReadFrozen(r)
    <2>1. UNCHANGED jobs
      BY <1>3 DEF Start, Persist, ReadFrozen
    <2>2. Expected(r)
      BY <1>1, Alone
    <2>3. Expected(r)'
      BY <1>2, <1>3, <2>1, <2>2
         DEF Expected, Start, Persist, ReadFrozen, Goto, Before, After, Failing, TypeInv, TypeOK
    <2> QED
      BY <1>1, <1>2, <2>1, <2>3, MoveOn
  <1>4. CASE MarkDone(r)
    <2>1. pc[r] = "mark" /\ mark_done(task[r]) /\ pc'[r] = "advance"
      BY <1>4 DEF MarkDone, Goto, TypeInv, TypeOK
    <2> QED
      BY <1>2, <2>1, Finish
  <1> QED
    BY <1>3, <1>4 DEF RunBody

LEMMA ReturnsExcludes ==
  ASSUME TypeInv, ExclusionInv, NEW r \in Runner, Returns(r), NEW l, DropTo(r, l),
         UNCHANGED flips
  PROVE  ExclusionInv'
  <1>1. /\ \A q \in Runner \ {r} : task'[q] = task[q] /\ pc'[q] = pc[q]
        /\ task'[r] = NoJob
    BY DEF DropTo, Goto, TypeInv, TypeOK
  <1>2. CASE MarkLast(r)
    <2>1. pc[r] = "mark" /\ mark_done(task[r])
      BY <1>2 DEF MarkLast
    <2> QED
      BY <1>1, <2>1, Finish
  <1>3. CASE InsertNext(r)
    <2>1. task[r] # NoJob /\ pc[r] \in After
      BY <1>3 DEF InsertNext, TypeInv, Control, AtWork, After
    <2>2. jobs[task[r]].status = "done" /\ task[r] \in Job
      BY <2>1, Alone DEF Expected
    <2>3. \A k \in Job : k[1] = task[r][1] => ~Unfinished(k)
      BY <2>1, <2>2, Alone
    <2> DEFINE n == NextJob(task[r])
    <2>4. CASE n \in Job
      <3>1. insert_job(n, loc[r].status, TRUE)
        BY <1>3 DEF InsertNext
      <3>2. loc[r].status \in {"ready", "held"}
        BY DEF TypeInv, TypeOK, Locals
      <3>3. PICK m \in Job : m = n
        BY <2>4
      <3>4. /\ \A k \in Job : k # m => jobs'[k] = jobs[k]
            /\ jobs'[m].status # "absent"
        BY <3>1, <3>2, <3>3, InsertRow
      <3>5. n[1] = task[r][1]
        BY DEF NextJob
      <3> QED
        BY <2>1, <2>3, <3>3, <3>4, <3>5, LeaveRow
    <2>5. CASE n \notin Job
      <3>1. UNCHANGED jobs
        BY <1>3, <2>5 DEF InsertNext, insert_job, TypeInv, TypeOK
      <3> QED
        BY <1>1, <2>1, <3>1, MoveOn
    <2> QED
      BY <2>4, <2>5
  <1> QED
    BY <1>2, <1>3 DEF Returns

LEMMA WorkerExcludes ==
  ASSUME TypeInv, ExclusionInv, NEW w \in Worker, WorkerStep(w)
  PROVE  ExclusionInv'
  <1> w \in Runner /\ w \in Worker \cup Cli
    BY DEF Runner
  <1>1. CASE RunBody(w)
    BY <1>1, BodyExcludes
  <1>2. CASE WorkerReturns(w)
    BY <1>2, ReturnsExcludes DEF WorkerReturns, Drop, cmdVars
  <1>3. CASE Claim(w)
    <2>1. PICK k \in RunnableBy(w) : ClaimRow(k) /\ Take(w, k)
      BY <1>3 DEF Claim
    <2>2. k \in Job /\ jobs[k].status = "ready"
      BY DEF RunnableBy, Runnable, Window, Candidates
    <2>3. task[w] = NoJob /\ UNCHANGED flips /\ w \notin Cli
      BY <1>3, RunStageAssumption
         DEF Claim, cmdVars, TypeInv, Control, AtWork, Before, After, Failing
    <2> QED
      BY <2>1, <2>2, <2>3, ClaimExcludes
  <1>4. CASE RecordFailure(w)
    <2>1. task[w] # NoJob /\ DropTo(w, "idle") /\ UNCHANGED flips
      BY <1>4 DEF RecordFailure, Drop, cmdVars, TypeInv, Control, AtWork, Failing
    <2>2. task[w] \in Job /\ jobs[task[w]].status \in {"running", "done"}
      BY <1>4, <2>1, Alone DEF RecordFailure, Expected, Failing
    <2>3. \A k \in Job : k[1] = task[w][1] /\ Unfinished(k) => k = task[w]
      BY <2>1, <2>2, Alone DEF Unfinished
    <2>4. PICK st \in {"failed", "ready"} :
            jobs' = [jobs EXCEPT ![task[w]] =
                       [jobs[task[w]] EXCEPT !.status = st, !.attempts = loc[w].tries]]
      BY <1>4 DEF RecordFailure, WriteAttempt
    <2>5. [jobs[task[w]] EXCEPT !.status = st, !.attempts = loc[w].tries].status = st
      BY <2>2 DEF TypeInv, TypeOK, Row
    <2>6. /\ \A k \in Job : k # task[w] => jobs'[k] = jobs[k]
          /\ jobs'[task[w]].status = st
      BY <2>2, <2>4, <2>5 DEF TypeInv, TypeOK
    <2> QED
      BY <2>1, <2>2, <2>3, <2>6, LeaveRow
  <1>5. CASE WorkerRaises(w) \/ ReadAttempts(w)
    <2>1. task[w] # NoJob
      BY <1>5 DEF WorkerRaises, ReadAttempts, Raises, TypeInv, Control, AtWork, Before, Failing
    <2>2. /\ UNCHANGED <<jobs, flips, task>>
          /\ \A q \in Runner \ {w} : task'[q] = task[q] /\ pc'[q] = pc[q]
          /\ pc'[w] \in Failing
      BY <1>5 DEF WorkerRaises, ReadAttempts, Goto, cmdVars, Failing, TypeInv, TypeOK
    <2>3. jobs[task[w]].status \in {"running", "done"}
      BY <2>1, BusyStatus, RunStageAssumption
    <2>4. Expected(w)'
      BY <2>2, <2>3 DEF Expected, Before, After, Failing
    <2> QED
      BY <2>1, <2>2, <2>4, MoveOn
  <1>6. CASE ReadLimits(w) \/ ClaimNothing(w)
    <2>1. task[w] = NoJob
      BY <1>6 DEF ReadLimits, ClaimNothing, TypeInv, Control, AtWork, Before, After, Failing
    <2>2. UNCHANGED <<jobs, flips, task>> /\ \A q \in Runner \ {w} : pc'[q] = pc[q]
      BY <1>6, <2>1 DEF ReadLimits, ClaimNothing, Drop, DropTo, Goto, cmdVars, TypeInv, TypeOK
    <2>3. ASSUME NEW a \in Artifact
          PROVE  ArtifactInv(a)'
      BY <2>1, <2>2, Untouched, FirstJobIsJob DEF ExclusionInv, Busy
    <2> QED
      BY <2>3 DEF ExclusionInv
  <1> QED
    BY <1>1, <1>2, <1>3, <1>4, <1>5, <1>6 DEF WorkerStep

LEMMA CommandExcludes ==
  ASSUME TypeInv, ExclusionInv, Careful, Command
  PROVE  ExclusionInv'
  <1>1. ASSUME NEW a \in Artifact, Ingest(a)
        PROVE  ExclusionInv'
    <2>1. PICK k \in Job : k = FirstJob(a) /\ k[1] = a
      BY FirstJobIsJob
    <2>2. \A j \in Job : j[1] = a => ~Exists(j)
      BY <1>1 DEF Ingest, ExclusionInv, ArtifactInv, FirstThere
    <2>3. \A r \in Runner : ~Busy(r, a)
      BY <2>2, BusyFacts, BusyStatus DEF Busy, Exists
    <2>4. Quiet(k)
      BY <2>1, <2>2, <2>3 DEF Quiet, Unfinished, Exists
    <2>5. insert_job(k, "ready", FALSE) /\ UNCHANGED <<pc, task, flips>>
      BY <1>1, <2>1 DEF Ingest, runVars, cmdVars
    <2> QED
      BY <2>1, <2>4, <2>5, InsertRow, QuietKeeps
  <1>2. ASSUME NEW a \in Artifact, NEW reprocess \in BOOLEAN, Reingest(a, reprocess)
        PROVE  ExclusionInv'
    <2>1. PICK k \in Job : k = FirstJob(a) /\ k[1] = a
      BY FirstJobIsJob
    <2>2. /\ insert_job(k, "ready", reprocess) /\ UNCHANGED <<pc, task, flips>>
          /\ Quiet(k) \/ (jobs[k].status = "done" /\ ~reprocess)
      BY <1>2, <2>1 DEF Reingest, runVars
    <2>3. CASE Quiet(k)
      BY <2>1, <2>2, <2>3, InsertRow, QuietKeeps
    <2>4. CASE jobs[k].status = "done" /\ ~reprocess
      <3>1. UNCHANGED jobs
        BY <2>2, <2>4, InsertRow
      <3> QED
        BY <2>2, <3>1, StandStill
    <2> QED
      BY <2>2, <2>3, <2>4
  <1>3. ASSUME NEW a \in Artifact, Hold(a)
        PROVE  ExclusionInv'
    <2>1. /\ UNCHANGED <<jobs, pc, task>>
          /\ \A b \in Artifact : <<"release", b>> \in flips' => <<"release", b>> \in flips
      BY <1>3 DEF Hold, runVars
    <2> QED
      BY <2>1, StandStill
  <1>4. ASSUME NEW a \in Artifact, HoldRows(a)
        PROVE  ExclusionInv'
    <2>1. MoveRows(a, {"ready"}, "held") /\ UNCHANGED <<pc, task>> /\ flips' \subseteq flips
      BY <1>4 DEF HoldRows, runVars
    <2> QED
      BY <2>1, MoveKeeps
  <1>5. ASSUME NEW a \in Artifact, Release(a)
        PROVE  ExclusionInv'
    <2>1. /\ NotWalked(a) /\ UNCHANGED <<jobs, pc, task>>
          /\ \A b \in Artifact \ {a} : <<"release", b>> \in flips' => <<"release", b>> \in flips
      BY <1>5 DEF Release, runVars
    <2>2. OneOpen(a)' /\ FirstThere(a)'
      BY <2>1 DEF ExclusionInv, ArtifactInv, OneOpen, FirstThere, Unfinished, Exists, FirstJob
    <2>3. \A k \in Job : Unfinished(k)' <=> Unfinished(k)
      BY <2>1 DEF Unfinished
    <2> QED
      BY <2>1, <2>2, <2>3, CommandRows DEF NotWalked
  <1>6. ASSUME NEW a \in Artifact, ReleaseRows(a)
        PROVE  ExclusionInv'
    <2>1. MoveRows(a, {"held"}, "ready") /\ UNCHANGED <<pc, task>> /\ flips' \subseteq flips
      BY <1>6 DEF ReleaseRows, runVars
    <2>2. NotWalked(a)
      BY <1>6 DEF ReleaseRows, NotWalked, ExclusionInv, ArtifactInv, InStep, Runner
    <2> QED
      BY <2>1, <2>2, MoveKeeps
  <1>7. ASSUME NEW a \in Artifact, Retry(a)
        PROVE  ExclusionInv'
    <2>1. RequeueRows(a, {"failed"}) /\ UNCHANGED <<pc, task, flips>>
      BY <1>7 DEF Retry, runVars
    <2> QED
      BY <2>1, MoveKeeps
  <1>8. ASSUME NEW a \in Artifact, RetryButton(a)
        PROVE  ExclusionInv'
    <2>1. RequeueRows(a, {"failed", "held"}) /\ NotWalked(a) /\ UNCHANGED <<pc, task, flips>>
      BY <1>8 DEF RetryButton, runVars
    <2> QED
      BY <2>1, MoveKeeps
  <1>9. ASSUME NEW k \in Job, RetryStage(k)
        PROVE  ExclusionInv'
    <2>1. Quiet(k) /\ Exists(k) /\ UNCHANGED <<pc, task, flips>>
      BY <1>9 DEF RetryStage, runVars
    <2>2. Exists(FirstJob(k[1]))
      BY <2>1 DEF ExclusionInv, ArtifactInv, FirstThere, Job
    <2>3. [jobs[k] EXCEPT !.status = "ready", !.attempts = 0].status = "ready"
      BY DEF TypeInv, TypeOK, Row
    <2>4. \A j \in Job : j # k => jobs'[j] = jobs[j]
      BY <1>9 DEF RetryStage, RequeueStage, TypeInv, TypeOK
    <2>5. jobs'[k].status = "ready"
      BY <1>9, <2>3 DEF RetryStage, RequeueStage, TypeInv, TypeOK
    <2> QED
      BY <2>1, <2>2, <2>4, <2>5, QuietKeeps
  <1>10. ASSUME NEW k \in Job, NEW c \in Cli, Step(c, k)
         PROVE  ExclusionInv'
    <2>1. /\ pc[c] = "idle" /\ Quiet(k) /\ jobs[k].status = "held"
          /\ <<"release", k[1]>> \notin flips
          /\ Take(c, k) /\ UNCHANGED <<jobs, flips>>
      BY <1>10 DEF Step
    <2>2. task[c] = NoJob
      BY <2>1 DEF TypeInv, Control, AtWork, Before, After, Failing, Runner
    <2>3. c \in Runner
      BY DEF Runner
    <2> QED
      BY <2>1, <2>2, <2>3, EnterRow DEF Quiet, Unfinished
  <1>11. ASSUME UNCHANGED <<jobs, pc, task, flips>>
         PROVE  ExclusionInv'
    BY <1>11, StandStill
  <1>12. Command =>
           \/ \E a \in Artifact :
                \/ Ingest(a) \/ \E reprocess \in BOOLEAN : Reingest(a, reprocess)
                \/ Hold(a) \/ HoldRows(a) \/ Release(a) \/ ReleaseRows(a)
                \/ Retry(a) \/ RetryButton(a)
           \/ \E k \in Job : RetryStage(k) \/ \E c \in Cli : Step(c, k)
           \/ UNCHANGED <<jobs, pc, task, flips>>
    BY DEF Command, Pause, Resume, Throttle, ReadControl, WriteControl, runVars
  <1> QED
    BY <1>1, <1>2, <1>3, <1>4, <1>5, <1>6, <1>7, <1>8, <1>9, <1>10, <1>11, <1>12

LEMMA StepExcludes ==
  ASSUME TypeInv, ExclusionInv, Careful, Next
  PROVE  ExclusionInv'
  <1>1. ASSUME NEW w \in Worker, WorkerStep(w)
        PROVE  ExclusionInv'
    BY <1>1, WorkerExcludes
  <1>2. ASSUME NEW c \in Cli, RunBody(c) \/ StepReturns(c) \/ StepRaises(c)
        PROVE  ExclusionInv'
    <2> c \in Runner
      BY DEF Runner
    <2>1. CASE RunBody(c)
      BY <2>1, BodyExcludes
    <2>2. CASE StepReturns(c)
      BY <2>2, ReturnsExcludes DEF StepReturns, Drop, cmdVars
    <2>3. CASE StepRaises(c)
      <3>1. task[c] # NoJob /\ UNCHANGED <<jobs, flips>> /\ Drop(c)
        BY <2>3 DEF StepRaises, cmdVars, TypeInv, Control, AtWork, Before
      <3>2. /\ \A q \in Runner \ {c} : task'[q] = task[q] /\ pc'[q] = pc[q]
            /\ task'[c] = NoJob
        BY <3>1 DEF Drop, DropTo, Goto, TypeInv, TypeOK
      <3> QED
        BY <3>1, <3>2, MoveOn
    <2> QED
      BY <1>2, <2>1, <2>2, <2>3
  <1>3. ASSUME NEW r \in Worker \cup Cli, Crash(r)
        PROVE  ExclusionInv'
    <2> r \in Runner
      BY DEF Runner
    <2>1. UNCHANGED <<jobs, flips>> /\ Drop(r)
      BY <1>3 DEF Crash, cmdVars
    <2>2. /\ \A q \in Runner \ {r} : task'[q] = task[q] /\ pc'[q] = pc[q]
          /\ task'[r] = NoJob
      BY <2>1 DEF Drop, DropTo, Goto, TypeInv, TypeOK
    <2>3. CASE task[r] # NoJob
      BY <2>1, <2>2, <2>3, MoveOn
    <2>4. CASE task[r] = NoJob
      <3>1. ASSUME NEW a \in Artifact
            PROVE  ArtifactInv(a)'
        BY <2>1, <2>2, <2>4, Untouched, FirstJobIsJob DEF ExclusionInv, Busy
      <3> QED
        BY <3>1 DEF ExclusionInv
    <2> QED
      BY <2>3, <2>4
  <1> QED
    BY <1>1, <1>2, <1>3, CommandExcludes DEF Next

LEMMA ExclusionInit == Init => ExclusionInv
  BY FirstJobIsJob
     DEF Init, RunInit, ExclusionInv, ArtifactInv, OneOpen, FirstThere, OneBusy, InStep,
         Busy, Unfinished, Exists, Absent

LEMMA ExclusionInvariant ==
  ASSUME Careful
  PROVE  Spec => []ExclusionInv
  <1>1. TypeInv /\ ExclusionInv /\ [Next]_vars => ExclusionInv'
    <2>1. CASE Next
      BY <2>1, StepExcludes
    <2>2. CASE UNCHANGED vars
      BY <2>2, StandStill DEF vars, runVars, cmdVars
    <2> QED
      BY <2>1, <2>2
  <1> QED
    BY <1>1, ExclusionInit, TypeInvariant, PTL DEF Spec

(* Where requeueing commands wait for the artifact to be quiet, no two     *)
(* processes ever run stages of one artifact at the same time: a claim's   *)
(* flip of the row, run_stage's order of mark_done and insert_job, hold    *)
(* and step keep every process off an artifact somebody is at work on.     *)
THEOREM Exclusive ==
  ASSUME Careful
  PROVE  Spec => []OneRunnerPerArtifact
  <1>1. TypeInv /\ ExclusionInv => OneRunnerPerArtifact
    BY ExclusionImplies
  <1> QED
    BY <1>1, TypeInvariant, ExclusionInvariant, PTL
-----------------------------------------------------------------------------
Open == {"ready", "running", "held"}

OthersFinished(k) == \A j \in Job : j[1] = k[1] /\ j # k => ~Unfinished(j)

(* What a step may make of row k, the other rows being as they are. *)
RowStep(k) ==
  \/ PhaseOf(jobs'[k].status) = PhaseOf(jobs[k].status)
  \/ jobs[k].status \in Open /\ jobs'[k].status \in {"done", "failed"}
  \/ jobs[k].status \in {"failed", "done"} /\ jobs'[k].status \in Open /\ OthersFinished(k)
  \/ jobs[k].status = "done" /\ jobs'[k].status = "failed" /\ OthersFinished(k)
  \/ /\ k = FirstJob(k[1]) /\ \A j \in Job : j[1] = k[1] => ~Exists(j)
     /\ jobs'[k].status \in Open
  \/ /\ \E j \in Job : /\ HasNext(j) /\ NextJob(j) = k /\ jobs[j].status = "done"
                       /\ \A i \in Job : i[1] = j[1] => ~Unfinished(i)
     /\ jobs'[k].status \in Open

PhaseBar == [k \in Job |-> PhaseOf(jobs[k].status)]

LEMMA PhaseFacts ==
  ASSUME TypeOK, NEW k \in Job
  PROVE  /\ PhaseBar[k] = PhaseOf(jobs[k].status)
         /\ PhaseBar[k] = "absent" <=> ~Exists(k)
         /\ PhaseBar[k] = "open" <=> jobs[k].status \in Open
         /\ PhaseBar[k] = "dead" <=> jobs[k].status = "failed"
         /\ PhaseBar[k] = "done" <=> jobs[k].status = "done"
         /\ PhaseBar[k] \in {"open", "dead"} <=> Unfinished(k)
  <1>1. jobs[k].status \in Status \cup {"absent"}
    BY DEF TypeOK, Row
  <1> QED
    BY <1>1 DEF PhaseBar, PhaseOf, Exists, Unfinished, Status, Open

(* Such a step is one of the chain, or none. *)
LEMMA ChainStep ==
  ASSUME TypeOK, TypeOK', NEW k \in Job, \A j \in Job \ {k} : jobs'[j] = jobs[j], RowStep(k)
  PROVE  Chain!Next \/ UNCHANGED PhaseBar
  <1>0. PICK p : p = PhaseBar'[k]
    OBVIOUS
  <1>1. PhaseBar' = [PhaseBar EXCEPT ![k] = p]
    BY <1>0 DEF PhaseBar
  <1>2. /\ jobs'[k].status \in Open => p = "open"
        /\ jobs'[k].status = "failed" => p = "dead"
        /\ jobs'[k].status = "done" => p = "done"
        /\ p = PhaseOf(jobs'[k].status)
    BY <1>0 DEF PhaseBar, PhaseOf, Open
  <1>3. OthersFinished(k) => Chain!OthersFinished(k)
    BY PhaseFacts DEF OthersFinished, Chain!OthersFinished, Chain!Unfinished, Chain!Job, Job,
                      PhaseBar
  <1>4. CASE PhaseOf(jobs'[k].status) = PhaseOf(jobs[k].status)
    BY <1>1, <1>2, <1>4 DEF PhaseBar
  <1>5. CASE jobs[k].status \in Open /\ jobs'[k].status \in {"done", "failed"}
    <2>1. PhaseBar[k] = "open" /\ p \in {"done", "dead"}
      BY <1>2, <1>5, PhaseFacts
    <2>2. Chain!Complete(k) \/ Chain!Die(k)
      BY <1>1, <2>1 DEF Chain!Complete, Chain!Die, PhaseBar
    <2> QED
      BY <2>2 DEF Chain!Next, Chain!Job, Job
  <1>6. CASE jobs[k].status \in {"failed", "done"} /\ jobs'[k].status \in Open /\ OthersFinished(k)
    <2>1. PhaseBar[k] \in {"dead", "done"} /\ p = "open"
      BY <1>2, <1>6, PhaseFacts
    <2>2. Chain!Reopen(k)
      BY <1>1, <1>3, <1>6, <2>1 DEF Chain!Reopen, PhaseBar
    <2> QED
      BY <2>2 DEF Chain!Next, Chain!Job, Job
  <1>7. CASE jobs[k].status = "done" /\ jobs'[k].status = "failed" /\ OthersFinished(k)
    <2>1. PhaseBar[k] = "done" /\ p = "dead"
      BY <1>2, <1>7, PhaseFacts
    <2>2. Chain!DieLate(k)
      BY <1>1, <1>3, <1>7, <2>1 DEF Chain!DieLate, PhaseBar
    <2> QED
      BY <2>2 DEF Chain!Next, Chain!Job, Job
  <1>8. CASE /\ k = FirstJob(k[1]) /\ \A j \in Job : j[1] = k[1] => ~Exists(j)
             /\ jobs'[k].status \in Open
    <2>1. PICK a \in Artifact : a = k[1]
      BY DEF Job
    <2>2. \A s \in Stage : PhaseBar[<<a, s>>] = "absent"
      BY <1>8, <2>1, PhaseFacts DEF Job
    <2>3. Chain!FirstJob(a) = k
      BY <1>8, <2>1
         DEF Chain!FirstJob, FirstJob, Chain!first_stage, first_stage, Chain!chain_for, chain_for
    <2>4. Chain!Begin(a)
      BY <1>1, <1>2, <1>8, <2>2, <2>3 DEF Chain!Begin, PhaseBar
    <2> QED
      BY <2>4 DEF Chain!Next
  <1>9. CASE /\ \E j \in Job : /\ HasNext(j) /\ NextJob(j) = k /\ jobs[j].status = "done"
                               /\ \A i \in Job : i[1] = j[1] => ~Unfinished(i)
             /\ jobs'[k].status \in Open
    <2>1. PICK j \in Job : /\ NextJob(j) = k /\ jobs[j].status = "done"
                           /\ \A i \in Job : i[1] = j[1] => ~Unfinished(i)
      BY <1>9
    <2>2. Chain!Follows(j, k)
      BY <2>1 DEF Chain!Follows, NextJob, Chain!next_stage, next_stage, Chain!Followers, Followers,
                  Chain!chain_for, chain_for
    <2>3. \A i \in Chain!Job : i[1] = j[1] => ~Chain!Unfinished(i)
      BY <2>1, PhaseFacts DEF Chain!Job, Job, Chain!Unfinished, PhaseBar
    <2>4. PhaseBar[j] = "done"
      BY <2>1, PhaseFacts
    <2>5. Chain!Advance(j, k)
      BY <1>1, <1>2, <1>9, <2>2, <2>3, <2>4 DEF Chain!Advance, PhaseBar
    <2> QED
      BY <2>5 DEF Chain!Next, Chain!Job, Job
  <1> QED
    BY <1>4, <1>5, <1>6, <1>7, <1>8, <1>9 DEF RowStep
-----------------------------------------------------------------------------
(* The statements of run_stage *)

LEMMA FinishSteps ==
  ASSUME TypeInv, TypeOK', ExclusionInv, NEW r \in Runner, pc[r] = "mark", mark_done(task[r])
  PROVE  Chain!Next \/ UNCHANGED PhaseBar
  <1>1. task[r] # NoJob
    BY DEF TypeInv, Control, AtWork, Before
  <1>2. task[r] \in Job /\ jobs[task[r]].status \in Open
    BY <1>1, Alone DEF Expected, Before, Open
  <1>3. \A j \in Job \ {task[r]} : jobs'[j] = jobs[j]
    BY <1>2 DEF mark_done, TypeInv, TypeOK
  <1>4. jobs'[task[r]].status = "done"
    BY <1>2 DEF mark_done, TypeInv, TypeOK, Row
  <1>5. RowStep(task[r])
    BY <1>2, <1>4 DEF RowStep
  <1> QED
    BY <1>2, <1>3, <1>5, ChainStep DEF TypeInv

LEMMA ReturnsSteps ==
  ASSUME TypeInv, TypeOK', ExclusionInv, NEW r \in Runner, Returns(r)
  PROVE  Chain!Next \/ UNCHANGED PhaseBar
  <1>1. CASE MarkLast(r)
    BY <1>1, FinishSteps DEF MarkLast
  <1>2. CASE InsertNext(r)
    <2>1. task[r] # NoJob /\ pc[r] \in After
      BY <1>2 DEF InsertNext, TypeInv, Control, AtWork, After
    <2>2. jobs[task[r]].status = "done" /\ task[r] \in Job
      BY <2>1, Alone DEF Expected
    <2>3. \A k \in Job : k[1] = task[r][1] => ~Unfinished(k)
      BY <2>1, <2>2, Alone
    <2> DEFINE n == NextJob(task[r])
    <2>4. CASE n \in Job
      <3>1. insert_job(n, loc[r].status, TRUE)
        BY <1>2 DEF InsertNext
      <3>2. loc[r].status \in {"ready", "held"}
        BY DEF TypeInv, TypeOK, Locals
      <3>3. PICK m \in Job : m = n
        BY <2>4
      <3>4. /\ \A k \in Job : k # m => jobs'[k] = jobs[k]
            /\ jobs'[m].status \in Open
        BY <3>1, <3>2, <3>3, InsertRow DEF Open
      <3>5. HasNext(task[r])
        BY <2>4, StagesAssumption DEF HasNext, NextJob, Job
      <3>6. RowStep(m)
        BY <2>2, <2>3, <3>3, <3>4, <3>5 DEF RowStep
      <3> QED
        BY <3>4, <3>6, ChainStep DEF TypeInv
    <2>5. CASE n \notin Job
      BY <1>2, <2>5 DEF InsertNext, insert_job, TypeInv, TypeOK, PhaseBar
    <2> QED
      BY <2>4, <2>5
  <1> QED
    BY <1>1, <1>2 DEF Returns

LEMMA BodySteps ==
  ASSUME TypeInv, TypeOK', ExclusionInv, NEW r \in Runner, RunBody(r)
  PROVE  Chain!Next \/ UNCHANGED PhaseBar
  <1>1. CASE MarkDone(r)
    BY <1>1, FinishSteps DEF MarkDone
  <1> QED
    BY <1>1 DEF RunBody, Start, Persist, ReadFrozen, PhaseBar

LEMMA ClaimSteps ==
  ASSUME TypeInv, TypeOK', NEW k \in Job, jobs[k].status = "ready", ClaimRow(k)
  PROVE  Chain!Next \/ UNCHANGED PhaseBar
  <1>1. \A j \in Job \ {k} : jobs'[j] = jobs[j]
    BY DEF ClaimRow, TypeInv, TypeOK
  <1>2. jobs'[k].status = "running"
    BY DEF ClaimRow, TypeInv, TypeOK, Row
  <1>3. RowStep(k)
    BY <1>2 DEF RowStep, PhaseOf
  <1> QED
    BY <1>1, <1>3, ChainStep DEF TypeInv

(* A row is given up on, or tried again, when its stage has raised.        *)
LEMMA FailSteps ==
  ASSUME TypeInv, TypeOK', ExclusionInv, NEW r \in Runner, pc[r] \in Failing \cup {"give up"},
         \A j \in Job \ {task[r]} : jobs'[j] = jobs[j],
         jobs'[task[r]].status \in {"failed", "ready"}
  PROVE  Chain!Next \/ UNCHANGED PhaseBar
  <1>1. task[r] # NoJob
    BY DEF TypeInv, Control, AtWork, Failing
  <1>2. task[r] \in Job /\ jobs[task[r]].status \in {"running", "done"}
    BY <1>1, Alone DEF Expected
  <1>3. jobs[task[r]].status = "done" => OthersFinished(task[r])
    BY <1>1, Alone DEF OthersFinished
  <1>4. RowStep(task[r])
    BY <1>2, <1>3 DEF RowStep, Open, PhaseOf
  <1> QED
    BY <1>2, <1>4, ChainStep DEF TypeInv

LEMMA WorkerSteps ==
  ASSUME TypeInv, TypeOK', ExclusionInv, NEW w \in Worker, WorkerStep(w)
  PROVE  Chain!Next \/ UNCHANGED PhaseBar
  <1> w \in Runner
    BY DEF Runner
  <1>1. CASE RunBody(w)
    BY <1>1, BodySteps
  <1>2. CASE WorkerReturns(w)
    BY <1>2, ReturnsSteps DEF WorkerReturns
  <1>3. CASE Claim(w)
    <2>1. PICK k \in RunnableBy(w) : ClaimRow(k)
      BY <1>3 DEF Claim
    <2>2. k \in Job /\ jobs[k].status = "ready"
      BY DEF RunnableBy, Runnable, Window, Candidates
    <2> QED
      BY <2>1, <2>2, ClaimSteps
  <1>4. CASE RecordFailure(w)
    <2>1. pc[w] \in Failing /\ task[w] \in Job
      BY <1>4 DEF RecordFailure, TypeInv, TypeOK, Control, AtWork, Failing
    <2>2. PICK st \in {"failed", "ready"} :
            jobs' = [jobs EXCEPT ![task[w]] =
                       [jobs[task[w]] EXCEPT !.status = st, !.attempts = loc[w].tries]]
      BY <1>4 DEF RecordFailure, WriteAttempt
    <2>3. [jobs[task[w]] EXCEPT !.status = st, !.attempts = loc[w].tries].status = st
      BY <2>1 DEF TypeInv, TypeOK, Row
    <2>4. /\ \A j \in Job \ {task[w]} : jobs'[j] = jobs[j]
          /\ jobs'[task[w]].status = st
      BY <2>1, <2>2, <2>3 DEF TypeInv, TypeOK
    <2> QED
      BY <2>1, <2>4, FailSteps
  <1> QED
    BY <1>1, <1>2, <1>3, <1>4
       DEF WorkerStep, ReadLimits, ClaimNothing, WorkerRaises, ReadAttempts, PhaseBar
-----------------------------------------------------------------------------
(* The commands *)

(* A row of a quiet artifact is queued.                                    *)
LEMMA QuietSteps ==
  ASSUME TypeInv, TypeOK', NEW k \in Job, Quiet(k), Exists(k),
         \A j \in Job \ {k} : jobs'[j] = jobs[j], jobs'[k].status = "ready"
  PROVE  Chain!Next \/ UNCHANGED PhaseBar
  <1>1. OthersFinished(k)
    BY DEF Quiet, OthersFinished
  <1>2. jobs[k].status \in Open \cup {"failed", "done"}
    BY DEF TypeInv, TypeOK, Row, Status, Exists, Open
  <1>3. RowStep(k)
    BY <1>1, <1>2 DEF RowStep, Open, PhaseOf
  <1> QED
    BY <1>3, ChainStep DEF TypeInv

(* The rows of an artifact are moved: one at most, since one at most is    *)
(* unfinished.                                                             *)
LEMMA MoveSteps ==
  ASSUME TypeInv, TypeOK', ExclusionInv, NEW a \in Artifact,
         NEW from \in SUBSET {"ready", "failed", "held"}, NEW to \in {"ready", "held"},
         MoveRows(a, from, to) \/ RequeueRows(a, from)
  PROVE  Chain!Next \/ UNCHANGED PhaseBar
  <1>1. \A k \in Job : \/ jobs'[k] = jobs[k]
                       \/ /\ k[1] = a
                          /\ jobs[k].status \in from
                          /\ jobs'[k].status \in {"ready", "held"}
    <2>1. \A k \in Job : /\ [jobs[k] EXCEPT !.status = to].status = to
                         /\ [jobs[k] EXCEPT !.status = "ready", !.attempts = 0].status = "ready"
      BY DEF TypeInv, TypeOK, Row
    <2>2. CASE MoveRows(a, from, to)
      BY <2>1, <2>2 DEF MoveRows
    <2>3. CASE RequeueRows(a, from)
      BY <2>1, <2>3 DEF RequeueRows
    <2> QED
      BY <2>2, <2>3
  <1>2. CASE \E k \in Job : k[1] = a /\ jobs[k].status \in from
    <2>1. PICK k \in Job : k[1] = a /\ jobs[k].status \in from
      BY <1>2
    <2>2. \A j \in Job : j[1] = a /\ Unfinished(j) => j = k
      BY <2>1 DEF ExclusionInv, ArtifactInv, OneOpen, Unfinished
    <2>3. \A j \in Job \ {k} : jobs'[j] = jobs[j]
      BY <1>1, <2>2 DEF Unfinished
    <2>4. OthersFinished(k)
      BY <2>1, <2>2 DEF OthersFinished
    <2>5. RowStep(k)
      BY <1>1, <2>1, <2>4 DEF RowStep, Open, PhaseOf
    <2> QED
      BY <2>3, <2>5, ChainStep DEF TypeInv
  <1>3. CASE ~\E k \in Job : k[1] = a /\ jobs[k].status \in from
    BY <1>1, <1>3 DEF PhaseBar
  <1> QED
    BY <1>2, <1>3

LEMMA CommandSteps ==
  ASSUME TypeInv, TypeOK', ExclusionInv, Careful, Command
  PROVE  Chain!Next \/ UNCHANGED PhaseBar
  <1>1. ASSUME NEW a \in Artifact, Ingest(a)
        PROVE  Chain!Next \/ UNCHANGED PhaseBar
    <2>1. PICK k \in Job : k = FirstJob(a) /\ k[1] = a
      BY FirstJobIsJob
    <2>2. \A j \in Job : j[1] = a => ~Exists(j)
      BY <1>1 DEF Ingest, ExclusionInv, ArtifactInv, FirstThere
    <2>3. /\ \A j \in Job \ {k} : jobs'[j] = jobs[j]
          /\ jobs'[k].status \in Open
      BY <1>1, <2>1, <2>2, InsertRow DEF Ingest, Exists, Open
    <2>4. RowStep(k)
      BY <2>1, <2>2, <2>3 DEF RowStep
    <2> QED
      BY <2>3, <2>4, ChainStep DEF TypeInv
  <1>2. ASSUME NEW a \in Artifact, NEW reprocess \in BOOLEAN, Reingest(a, reprocess)
        PROVE  Chain!Next \/ UNCHANGED PhaseBar
    <2>1. PICK k \in Job : k = FirstJob(a) /\ k[1] = a
      BY FirstJobIsJob
    <2>2. /\ insert_job(k, "ready", reprocess) /\ Exists(k)
          /\ Quiet(k) \/ (jobs[k].status = "done" /\ ~reprocess)
      BY <1>2, <2>1 DEF Reingest
    <2>3. CASE jobs' = jobs
      BY <2>3 DEF PhaseBar
    <2>4. CASE Quiet(k) /\ ~(jobs[k].status = "done" /\ ~reprocess)
      <3>1. jobs'[k].status = "ready" /\ \A j \in Job \ {k} : jobs'[j] = jobs[j]
        BY <2>2, <2>4, InsertRow
      <3> QED
        BY <2>2, <2>4, <3>1, QuietSteps
    <2> QED
      BY <2>2, <2>3, <2>4, InsertRow
  <1>3. ASSUME NEW a \in Artifact, HoldRows(a) \/ ReleaseRows(a) \/ Retry(a) \/ RetryButton(a)
        PROVE  Chain!Next \/ UNCHANGED PhaseBar
    BY <1>3, MoveSteps DEF HoldRows, ReleaseRows, Retry, RetryButton
  <1>4. ASSUME NEW k \in Job, RetryStage(k)
        PROVE  Chain!Next \/ UNCHANGED PhaseBar
    <2>1. [jobs[k] EXCEPT !.status = "ready", !.attempts = 0].status = "ready"
      BY DEF TypeInv, TypeOK, Row
    <2>2. jobs'[k].status = "ready" /\ \A j \in Job \ {k} : jobs'[j] = jobs[j]
      BY <1>4, <2>1 DEF RetryStage, RequeueStage, TypeInv, TypeOK
    <2> QED
      BY <1>4, <2>2, QuietSteps DEF RetryStage
  <1> QED
    BY <1>1, <1>2, <1>3, <1>4
       DEF Command, Hold, Release, Pause, Resume, Throttle, ReadControl, WriteControl, Step,
           PhaseBar

LEMMA NextSteps ==
  ASSUME TypeInv, TypeOK', ExclusionInv, Careful, Next
  PROVE  Chain!Next \/ UNCHANGED PhaseBar
  <1>1. ASSUME NEW c \in Cli, RunBody(c) \/ StepReturns(c) \/ StepRaises(c)
        PROVE  Chain!Next \/ UNCHANGED PhaseBar
    BY <1>1, BodySteps, ReturnsSteps DEF StepReturns, StepRaises, Runner, PhaseBar
  <1> QED
    BY <1>1, WorkerSteps, CommandSteps DEF Next, Crash, PhaseBar

LEMMA ChainInit == Init => Chain!Init
  BY DEF Init, Absent, PhaseOf, Chain!Init, Chain!Job, Job

(* Workers, operators and the controls do to an artifact's rows what       *)
(* StageChain allows and nothing else: stages are opened one at a time and *)
(* in order, and a finished or dead one again only when nothing of the     *)
(* artifact is unfinished, whatever is claimed, retried, held or killed.   *)
THEOREM QueueKeepsTheChain ==
  ASSUME Careful
  PROVE  Spec => ImplementsStageChain
  <1>1. TypeInv /\ TypeInv' /\ ExclusionInv /\ [Next]_vars => [Chain!Next]_PhaseBar
    <2>1. TypeInv' => TypeOK'
      BY DEF TypeInv
    <2>2. UNCHANGED vars => UNCHANGED PhaseBar
      BY DEF vars, PhaseBar
    <2> QED
      BY <2>1, <2>2, NextSteps
  <1> QED
    BY <1>1, ChainInit, TypeInvariant, ExclusionInvariant, PTL
       DEF Spec, ImplementsStageChain, Chain!Spec, PhaseBar
-----------------------------------------------------------------------------
(* Nothing lost, nothing outdated *)

LEMMA NextJobDiffers ==
  ASSUME NEW k \in Job, HasNext(k)
  PROVE  NextJob(k) # k
  <1> DEFINE c == chain_for(SourceOf[k[1]])
  <1>1. PICK i \in DOMAIN c :
          i + 1 \in DOMAIN c /\ c[i] = k[2] /\ c[i + 1] = next_stage(SourceOf[k[1]], k[2])
    BY NextStagePosition DEF HasNext
  <1>2. i # i + 1 /\ c[i] # c[i + 1]
    BY <1>1, ChainIsSequence
  <1> QED
    BY <1>1, <1>2 DEF NextJob

(* What NothingLost and NoStaleResult say of one job. *)
Kept(k) ==
  /\ jobs[k].status = "running" => \E r \in Runner : task[r] = k
  /\ jobs[k].status = "done" /\ HasNext(k) /\ ~Exists(NextJob(k)) => Advancing(k)
  /\ HasNext(k) /\ jobs[NextJob(k)].status = "done" /\ files[NextJob(k)] = "stale"
       => jobs[k].status # "done" \/ Advancing(k)

(* While a stage runs nobody replaces what it has read: it marks nothing   *)
(* done that is not made from its input as that is.                        *)
FreshAtWork ==
  \A r \in Runner :
    /\ pc[r] = "handle" => loc[r].input = "fresh"
    /\ pc[r] = "mark" => files[task[r]] = "fresh"

KeptInv == FreshAtWork /\ (crashes = 0 => \A k \in Job : Kept(k))

LEMMA KeptImplies ==
  ASSUME KeptInv
  PROVE  NothingLost /\ NoStaleResult
  BY DEF KeptInv, Kept, NothingLost, NoStaleResult

(* A job whose runner, if it has one, stays with it.                       *)
LEMMA KeptAtRest ==
  ASSUME TypeOK, NEW k \in Job, Kept(k),
         \/ jobs'[k] = jobs[k]
         \/ jobs'[k].status \in {"ready", "held", "failed"},
         \A n \in Job : HasNext(k) /\ n = NextJob(k) =>
           \/ jobs'[n] = jobs[n] /\ files'[n] = files[n]
           \/ jobs'[n].status \in Open \cup {"failed"}
           \/ jobs'[n].status = "done" /\ files'[n] = "fresh" /\ Exists(n),
         \A r \in Runner : task[r] = k =>
           task'[r] = k /\ (pc[r] \in After \cup Failing => pc'[r] \in After \cup Failing)
  PROVE  Kept(k)'
  <1>1. jobs'[k].status = "running" => \E r \in Runner : task'[r] = k
    BY DEF Kept
  <1>2. Advancing(k) => Advancing(k)'
    BY DEF Advancing
  <1>3. jobs'[k].status = "done" => jobs[k].status = "done"
    OBVIOUS
  <1>4. CASE HasNext(k)
    <2>1. PICK n \in Job : n = NextJob(k)
      BY <1>4, NextJobIsJob
    <2>2. NextJob(k)' = n /\ HasNext(k)'
      BY <1>4, <2>1 DEF NextJob, HasNext
    <2>3. Exists(n) => jobs'[n].status # "absent"
      BY <1>4, <2>1 DEF Exists, Open
    <2>4. jobs'[n].status = "done" /\ files'[n] = "stale" =>
            jobs[n].status = "done" /\ files[n] = "stale"
      BY <1>4, <2>1 DEF Open
    <2> QED
      BY <1>1, <1>2, <1>3, <1>4, <2>1, <2>2, <2>3, <2>4 DEF Kept, Exists
  <1>5. CASE ~HasNext(k)
    BY <1>1, <1>5 DEF Kept, HasNext
  <1> QED
    BY <1>4, <1>5

(* The rows of jobs nobody is at work on.                                  *)
LEMMA CommandKeeps ==
  ASSUME TypeInv, KeptInv, UNCHANGED files, crashes' = 0 => crashes = 0,
         \A k \in Job : \/ jobs'[k] = jobs[k]
                        \/ jobs'[k].status \in {"ready", "held"},
         \A r \in Runner : \/ task'[r] = task[r] /\ pc'[r] = pc[r] /\ loc'[r] = loc[r]
                           \/ /\ task[r] = NoJob
                              /\ pc'[r] \notin {"handle", "mark"}
  PROVE  KeptInv'
  <1>1. FreshAtWork'
    BY DEF KeptInv, FreshAtWork
  <1>2. \A k \in Job : k # NoJob
    BY RunStageAssumption DEF Job
  <1>3. ASSUME NEW k \in Job, crashes = 0
        PROVE  Kept(k)'
    BY <1>2, <1>3, KeptAtRest DEF KeptInv, TypeInv, Open
  <1> QED
    BY <1>1, <1>3 DEF KeptInv

(* A step of a runner that has a job, but for the writing of its output.   *)
LEMMA RunnerKeeps ==
  ASSUME TypeInv, ExclusionInv, KeptInv, UNCHANGED files, crashes' = 0 => crashes = 0,
         NEW r \in Runner, NEW t \in Job, task[r] = t,
         \A j \in Job : j # t => jobs'[j] = jobs[j] \/ jobs'[j].status \in {"ready", "held"},
         \A q \in Runner \ {r} : task'[q] = task[q] /\ pc'[q] = pc[q] /\ loc'[q] = loc[q],
         pc'[r] = "handle" => loc'[r].input = "fresh",
         pc'[r] # "mark",
         \/ jobs'[t] = jobs[t]
         \/ jobs'[t].status \in {"ready", "failed"}
         \/ jobs'[t].status = "done" /\ jobs[t].status # "absent" /\ files[t] = "fresh",
         crashes = 0 => Kept(t)'
  PROVE  KeptInv'
  <1>1. FreshAtWork'
    BY DEF KeptInv, FreshAtWork
  <1>2. ASSUME NEW k \in Job, crashes = 0, k # t
        PROVE  Kept(k)'
    <2>1. \A q \in Runner : task[q] = k => q # r
      BY <1>2
    <2>2. \A n \in Job : HasNext(k) /\ n = NextJob(k) =>
            \/ jobs'[n] = jobs[n] /\ files'[n] = files[n]
            \/ jobs'[n].status \in Open \cup {"failed"}
            \/ jobs'[n].status = "done" /\ files'[n] = "fresh" /\ Exists(n)
      BY DEF Open, Exists
    <2> QED
      BY <1>2, <2>1, <2>2, KeptAtRest DEF KeptInv, TypeInv
  <1>3. \A k \in Job : crashes = 0 => Kept(k)'
    <2> TAKE k \in Job
    <2>1. CASE k = t
      BY <2>1
    <2> QED
      BY <1>2, <2>1
  <1> QED
    BY <1>1, <1>3 DEF KeptInv

(* The output is written while the row is not done, and nobody but its     *)
(* runner is at work on the artifact.                                      *)
LEMMA PersistKeeps ==
  ASSUME TypeInv, ExclusionInv, KeptInv, NEW r \in Runner, Persist(r), UNCHANGED crashes
  PROVE  KeptInv'
  <1>1. task[r] # NoJob
    BY DEF Persist, TypeInv, Control, AtWork, Before
  <1>2. PICK t \in Job : t = task[r]
    BY <1>1, BusyFacts
  <1>3. jobs[t].status \in Open /\ \A q \in Runner \ {r} : task[q] = NoJob \/ task[q][1] # t[1]
    BY <1>1, <1>2, Alone DEF Persist, Expected, Before, Open
  <1>4. NextJob(t)[1] = t[1]
    BY DEF NextJob
  <1>5. \A q \in Runner : pc[q] = "handle" /\ task[q] = NextJob(t) => q = r
    <2> SUFFICES ASSUME NEW q \in Runner, pc[q] = "handle", task[q] = NextJob(t), q # r
                 PROVE  FALSE
      OBVIOUS
    <2>1. task[q] # NoJob
      BY DEF TypeInv, Control, AtWork, Before
    <2> QED
      BY <1>3, <1>4, <2>1
  <1>6. \A q \in Runner \ {r} : loc'[q] = loc[q] /\ pc'[q] = pc[q]
    BY <1>2, <1>5 DEF Persist, Goto, TypeInv, TypeOK
  <1>7. pc'[r] = "mark" /\ UNCHANGED task /\ files'[t] = "fresh"
    BY <1>2 DEF Persist, Goto, TypeInv, TypeOK, KeptInv, FreshAtWork
  <1>8. \A j \in Job : j[1] # t[1] => files'[j] = files[j]
    BY <1>2 DEF Persist, NextJob
  <1>9. FreshAtWork'
    <2> SUFFICES ASSUME NEW q \in Runner, q # r, pc[q] \in {"handle", "mark"}
                 PROVE  /\ pc[q] = "handle" => loc[q].input = "fresh"
                        /\ pc[q] = "mark" => files'[task[q]] = "fresh"
      BY <1>2, <1>6, <1>7 DEF FreshAtWork
    <2>1. task[q] # NoJob
      BY DEF TypeInv, Control, AtWork, Before
    <2>2. task[q] \in Job /\ task[q][1] # t[1]
      BY <1>3, <2>1, BusyFacts
    <2> QED
      BY <1>8, <2>2 DEF KeptInv, FreshAtWork
  <1>10. ASSUME NEW k \in Job, crashes = 0
         PROVE  Kept(k)'
    <2>1. UNCHANGED jobs
      BY DEF Persist
    <2>2. \A q \in Runner : task[q] = k =>
            task'[q] = k /\ (pc[q] \in After \cup Failing => pc'[q] \in After \cup Failing)
      BY <1>6, <1>7 DEF Persist, After, Failing
    <2>3. Kept(k)
      BY <1>10 DEF KeptInv
    <2>4. CASE k = t
      BY <1>2, <1>3, <1>7, <2>1, <2>4 DEF Kept, Open
    <2>5. CASE k # t
      <3>1. \A n \in Job : HasNext(k) /\ n = NextJob(k) =>
              files'[n] = files[n] \/ (files'[n] = "fresh" /\ n = t)
        <4> SUFFICES ASSUME NEW n \in Job, HasNext(k), n = NextJob(k), n # t
                     PROVE  files'[n] = files[n]
          BY <1>7
        <4>1. n # NextJob(t) \/ ~HasNext(t)
          BY <2>5, NextJobInjective
        <4>2. ~HasNext(t) => NextJob(t) \notin Job
          BY StagesAssumption DEF HasNext, NextJob, Job
        <4> QED
          BY <1>2, <4>1, <4>2 DEF Persist
      <3> QED
        BY <1>3, <2>1, <2>2, <2>3, <3>1, KeptAtRest DEF TypeInv
    <2> QED
      BY <2>4, <2>5
  <1> QED
    BY <1>9, <1>10 DEF KeptInv

(* The row is done before the next is queued, and r is there to queue it;  *)
(* at the end of the chain there is none to queue.                         *)
LEMMA MarkKeeps ==
  ASSUME TypeInv, ExclusionInv, KeptInv, NEW r \in Runner, NEW t \in Job, task[r] = t,
         pc[r] = "mark", mark_done(t), UNCHANGED files, UNCHANGED crashes,
         \A q \in Runner \ {r} : task'[q] = task[q] /\ pc'[q] = pc[q] /\ loc'[q] = loc[q],
         pc'[r] \notin {"handle", "mark"},
         HasNext(t) => task'[r] = t /\ pc'[r] = "advance"
  PROVE  KeptInv'
  <1>1. files[t] = "fresh"
    BY DEF KeptInv, FreshAtWork
  <1>2. t # NoJob
    BY RunStageAssumption DEF Job
  <1>3. jobs[t].status # "absent"
    BY <1>2, Alone DEF Expected, Before
  <1>4. /\ \A j \in Job : j # t => jobs'[j] = jobs[j]
        /\ jobs'[t].status = "done"
    BY DEF mark_done, TypeInv, TypeOK, Row
  <1>5. HasNext(t) => Advancing(t)'
    BY DEF Advancing, After
  <1>6. Kept(t)'
    BY <1>4, <1>5 DEF Kept, HasNext
  <1> QED
    BY <1>1, <1>3, <1>4, <1>6, RunnerKeeps

LEMMA BodyKeeps ==
  ASSUME TypeInv, ExclusionInv, KeptInv, NEW r \in Runner, RunBody(r)
  PROVE  KeptInv'
  <1>1. task[r] # NoJob
    BY DEF RunBody, Start, Persist, MarkDone, ReadFrozen, TypeInv, Control, AtWork, Before, After
  <1>2. PICK t \in Job : t = task[r]
    BY <1>1, BusyFacts
  <1>3. CASE Persist(r)
    BY <1>3, PersistKeeps DEF RunBody
  <1>4. CASE MarkDone(r)
    <2>1. /\ pc[r] = "mark" /\ mark_done(t) /\ UNCHANGED <<files, crashes, task>>
          /\ pc'[r] = "advance"
          /\ \A q \in Runner \ {r} : pc'[q] = pc[q] /\ loc'[q] = loc[q]
      BY <1>2, <1>4 DEF RunBody, MarkDone, Goto, TypeInv, TypeOK
    <2> QED
      BY <1>2, <2>1, MarkKeeps
  <1>5. CASE Start(r) \/ ReadFrozen(r)
    <2>1. /\ UNCHANGED <<jobs, files, crashes, task>>
          /\ \A q \in Runner \ {r} : pc'[q] = pc[q] /\ loc'[q] = loc[q]
          /\ pc'[r] = "handle" => loc'[r].input = "fresh"
          /\ pc'[r] # "mark"
          /\ pc[r] \in After => pc'[r] \in After
          /\ pc[r] \notin Failing
      BY <1>5 DEF RunBody, Start, ReadFrozen, Goto, TypeInv, TypeOK, Locals, After, Failing
    <2>2. \A q \in Runner : task[q] = t =>
            task'[q] = t /\ (pc[q] \in After \cup Failing => pc'[q] \in After \cup Failing)
      BY <2>1
    <2>3. crashes = 0 => Kept(t)'
      BY <2>1, <2>2, KeptAtRest DEF KeptInv, TypeInv
    <2> QED
      BY <1>2, <2>1, <2>3, RunnerKeeps
  <1> QED
    BY <1>3, <1>4, <1>5 DEF RunBody

LEMMA ReturnsKeeps ==
  ASSUME TypeInv, ExclusionInv, KeptInv, NEW r \in Runner, Returns(r), Drop(r),
         UNCHANGED crashes
  PROVE  KeptInv'
  <1>1. task[r] # NoJob
    BY DEF Returns, MarkLast, InsertNext, TypeInv, Control, AtWork, Before, After
  <1>2. PICK t \in Job : t = task[r]
    BY <1>1, BusyFacts
  <1>3. /\ \A q \in Runner \ {r} : task'[q] = task[q] /\ pc'[q] = pc[q] /\ loc'[q] = loc[q]
        /\ task'[r] = NoJob /\ pc'[r] = "idle"
    BY DEF Drop, DropTo, Goto, TypeInv, TypeOK
  <1>4. CASE MarkLast(r)
    <2>1. pc[r] = "mark" /\ mark_done(t) /\ UNCHANGED files /\ ~HasNext(t)
      BY <1>2, <1>4 DEF MarkLast
    <2> QED
      BY <1>2, <1>3, <2>1, MarkKeeps
  <1>5. CASE InsertNext(r)
    <2>1. jobs[t].status = "done" /\ UNCHANGED files
      BY <1>1, <1>2, <1>5, Alone DEF InsertNext, Expected, After
    <2>2. CASE HasNext(t)
      <3>1. PICK n \in Job : n = NextJob(t)
        BY <2>2, NextJobIsJob
      <3>2. n # t
        BY <2>2, <3>1, NextJobDiffers
      <3>3. insert_job(n, loc[r].status, TRUE) /\ loc[r].status \in {"ready", "held"}
        BY <1>2, <1>5, <3>1 DEF InsertNext, TypeInv, TypeOK, Locals
      <3>4. /\ \A k \in Job : k # n => jobs'[k] = jobs[k]
            /\ jobs'[n].status \in {"ready", "held"}
        BY <3>3, InsertRow
      <3>5. Kept(t)'
        <4>1. NextJob(t)' = n
          BY <3>1 DEF NextJob
        <4> QED
          BY <2>1, <3>2, <3>4, <4>1 DEF Kept, Exists
      <3> QED
        BY <1>2, <1>3, <2>1, <3>2, <3>4, <3>5, RunnerKeeps
    <2>3. CASE ~HasNext(t)
      <3>1. NextJob(t) \notin Job
        BY <2>3, StagesAssumption DEF HasNext, NextJob, Job
      <3>2. jobs' = jobs
        BY <1>2, <1>5, <3>1 DEF InsertNext, insert_job, TypeInv, TypeOK
      <3>3. Kept(t)'
        BY <2>1, <2>3, <3>2 DEF Kept, HasNext
      <3> QED
        BY <1>2, <1>3, <2>1, <3>2, <3>3, RunnerKeeps
    <2> QED
      BY <2>2, <2>3
  <1> QED
    BY <1>4, <1>5 DEF Returns

LEMMA WorkerKeeps ==
  ASSUME TypeInv, ExclusionInv, KeptInv, NEW w \in Worker, WorkerStep(w)
  PROVE  KeptInv'
  <1> w \in Runner
    BY DEF Runner
  <1>1. CASE RunBody(w)
    BY <1>1, BodyKeeps
  <1>2. CASE WorkerReturns(w)
    BY <1>2, ReturnsKeeps DEF WorkerReturns
  <1>3. CASE Claim(w)
    <2>1. PICK k \in Job : ClaimRow(k) /\ Take(w, k)
      BY <1>3 DEF Claim, RunnableBy, Runnable, Window, Candidates
    <2>2. task[w] = NoJob /\ UNCHANGED <<files, crashes>>
      BY <1>3 DEF Claim, TypeInv, Control, AtWork, Before, After, Failing
    <2>3. /\ \A q \in Runner \ {w} : task'[q] = task[q] /\ pc'[q] = pc[q] /\ loc'[q] = loc[q]
          /\ task'[w] = k /\ pc'[w] = "start"
      BY <2>1 DEF Take, Goto, TypeInv, TypeOK
    <2>4. /\ \A j \in Job : j # k => jobs'[j] = jobs[j]
          /\ jobs'[k].status = "running"
      BY <2>1 DEF ClaimRow, TypeInv, TypeOK, Row
    <2>5. FreshAtWork'
      BY <2>2, <2>3 DEF KeptInv, FreshAtWork
    <2>6. ASSUME crashes = 0, NEW j \in Job, j # k
          PROVE  Kept(j)'
      <3>1. \A q \in Runner : task[q] = j => q # w
        BY <2>2, RunStageAssumption DEF Job
      <3> QED
        BY <2>2, <2>3, <2>4, <2>6, <3>1, KeptAtRest DEF KeptInv, TypeInv, Open
    <2>7. Kept(k)'
      BY <2>3, <2>4 DEF Kept
    <2> QED
      BY <2>2, <2>5, <2>6, <2>7 DEF KeptInv
  <1>4. CASE RecordFailure(w)
    <2>1. PICK t \in Job : t = task[w]
      BY <1>4 DEF RecordFailure, TypeInv, TypeOK, Control, AtWork, Failing
    <2>2. PICK st \in {"failed", "ready"} :
            jobs' = [jobs EXCEPT ![t] =
                       [jobs[t] EXCEPT !.status = st, !.attempts = loc[w].tries]]
      BY <1>4, <2>1 DEF RecordFailure, WriteAttempt
    <2>3. [jobs[t] EXCEPT !.status = st, !.attempts = loc[w].tries].status = st
      BY DEF TypeInv, TypeOK, Row
    <2>4. /\ \A j \in Job : j # t => jobs'[j] = jobs[j]
          /\ jobs'[t].status = st
      BY <2>2, <2>3 DEF TypeInv, TypeOK
    <2>5. /\ \A q \in Runner \ {w} : task'[q] = task[q] /\ pc'[q] = pc[q] /\ loc'[q] = loc[q]
          /\ pc'[w] = "idle" /\ UNCHANGED <<files, crashes>>
      BY <1>4 DEF RecordFailure, Drop, DropTo, Goto, TypeInv, TypeOK
    <2>6. Kept(t)'
      BY <2>4 DEF Kept
    <2> QED
      BY <2>1, <2>4, <2>5, <2>6, RunnerKeeps
  <1>5. CASE WorkerRaises(w) \/ ReadAttempts(w)
    <2>1. PICK t \in Job : t = task[w]
      BY <1>5 DEF WorkerRaises, Raises, ReadAttempts, TypeInv, TypeOK, Control, AtWork,
                  Before, Failing
    <2>2. /\ UNCHANGED <<jobs, files, crashes, task>>
          /\ \A q \in Runner \ {w} : pc'[q] = pc[q] /\ loc'[q] = loc[q]
          /\ pc'[w] \in Failing
      BY <1>5 DEF WorkerRaises, ReadAttempts, Goto, Failing, TypeInv, TypeOK
    <2>3. crashes = 0 => Kept(t)'
      BY <2>2, KeptAtRest DEF KeptInv, TypeInv
    <2> QED
      BY <2>1, <2>2, <2>3, RunnerKeeps DEF Failing
  <1>6. CASE ReadLimits(w) \/ ClaimNothing(w)
    <2>1. task[w] = NoJob
      BY <1>6 DEF ReadLimits, ClaimNothing, TypeInv, Control, AtWork, Before, After, Failing
    <2>2. /\ UNCHANGED <<jobs, files, crashes>>
          /\ \A q \in Runner \ {w} : task'[q] = task[q] /\ pc'[q] = pc[q] /\ loc'[q] = loc[q]
          /\ pc'[w] \in {"idle", "claim"}
      BY <1>6 DEF ReadLimits, ClaimNothing, Drop, DropTo, Goto, TypeInv, TypeOK
    <2> QED
      BY <2>1, <2>2, CommandKeeps
  <1> QED
    BY <1>1, <1>2, <1>3, <1>4, <1>5, <1>6 DEF WorkerStep

LEMMA CommandsKeep ==
  ASSUME TypeInv, ExclusionInv, KeptInv, Command
  PROVE  KeptInv'
  <1>1. ASSUME NEW a \in Artifact, NEW re \in BOOLEAN, insert_job(FirstJob(a), "ready", re)
        PROVE  \A k \in Job : jobs'[k] = jobs[k] \/ jobs'[k].status \in {"ready", "held"}
    BY <1>1, FirstJobIsJob, InsertRow
  <1>2. ASSUME NEW a \in Artifact, NEW from, NEW to \in {"ready", "held"},
               MoveRows(a, from, to) \/ RequeueRows(a, from)
        PROVE  \A k \in Job : jobs'[k] = jobs[k] \/ jobs'[k].status \in {"ready", "held"}
    <2>1. \A k \in Job : /\ [jobs[k] EXCEPT !.status = to].status = to
                         /\ [jobs[k] EXCEPT !.status = "ready", !.attempts = 0].status = "ready"
      BY DEF TypeInv, TypeOK, Row
    <2> QED
      BY <1>2, <2>1 DEF MoveRows, RequeueRows
  <1>3. ASSUME NEW k \in Job, RequeueStage(k)
        PROVE  \A j \in Job : jobs'[j] = jobs[j] \/ jobs'[j].status \in {"ready", "held"}
    <2>1. [jobs[k] EXCEPT !.status = "ready", !.attempts = 0].status = "ready"
      BY DEF TypeInv, TypeOK, Row
    <2> QED
      BY <1>3, <2>1 DEF RequeueStage, TypeInv, TypeOK
  <1>4. ASSUME NEW k \in Job, NEW c \in Cli, Step(c, k)
        PROVE  KeptInv'
    <2>1. c \in Runner /\ task[c] = NoJob
      BY <1>4 DEF Step, Runner, TypeInv, Control, AtWork, Before, After, Failing
    <2>2. /\ UNCHANGED <<jobs, files, crashes>>
          /\ \A q \in Runner \ {c} : task'[q] = task[q] /\ pc'[q] = pc[q] /\ loc'[q] = loc[q]
          /\ pc'[c] = "start"
      BY <1>4, <2>1 DEF Step, Take, Goto, TypeInv, TypeOK
    <2> QED
      BY <2>1, <2>2, CommandKeeps
  <1>5. ASSUME UNCHANGED <<runVars, crashes>>,
               \A k \in Job : jobs'[k] = jobs[k] \/ jobs'[k].status \in {"ready", "held"}
        PROVE  KeptInv'
    BY <1>5, CommandKeeps DEF runVars
  <1>6. CASE \E a \in Artifact : Ingest(a) \/ \E reprocess \in BOOLEAN : Reingest(a, reprocess)
    BY <1>1, <1>5, <1>6 DEF Ingest, Reingest
  <1>7. CASE \E a \in Artifact : HoldRows(a) \/ ReleaseRows(a) \/ Retry(a) \/ RetryButton(a)
    BY <1>2, <1>5, <1>7 DEF HoldRows, ReleaseRows, Retry, RetryButton
  <1>8. CASE \E k \in Job : RetryStage(k)
    BY <1>3, <1>5, <1>8 DEF RetryStage
  <1>9. CASE UNCHANGED <<jobs, runVars, crashes>>
    BY <1>5, <1>9
  <1>10. Command =>
           \/ \E a \in Artifact : Ingest(a) \/ \E reprocess \in BOOLEAN : Reingest(a, reprocess)
           \/ \E a \in Artifact : HoldRows(a) \/ ReleaseRows(a) \/ Retry(a) \/ RetryButton(a)
           \/ \E k \in Job : RetryStage(k) \/ \E c \in Cli : Step(c, k)
           \/ UNCHANGED <<jobs, runVars, crashes>>
    BY DEF Command, Hold, Release, Pause, Resume, Throttle, ReadControl, WriteControl
  <1> QED
    BY <1>4, <1>6, <1>7, <1>8, <1>9, <1>10

LEMMA NextKeeps ==
  ASSUME TypeInv, ExclusionInv, KeptInv, Next
  PROVE  KeptInv'
  <1>1. ASSUME NEW c \in Cli, RunBody(c) \/ StepReturns(c) \/ StepRaises(c)
        PROVE  KeptInv'
    <2> c \in Runner
      BY DEF Runner
    <2>1. CASE RunBody(c)
      BY <2>1, BodyKeeps
    <2>2. CASE StepReturns(c)
      BY <2>2, ReturnsKeeps DEF StepReturns
    <2>3. CASE StepRaises(c)
      <3>1. PICK t \in Job : t = task[c]
        BY <2>3 DEF StepRaises, TypeInv, TypeOK, Control, AtWork, Before
      <3>2. /\ UNCHANGED <<jobs, files, crashes>> /\ pc'[c] = "idle"
            /\ \A q \in Runner \ {c} : task'[q] = task[q] /\ pc'[q] = pc[q] /\ loc'[q] = loc[q]
        BY <2>3 DEF StepRaises, Drop, DropTo, Goto, TypeInv, TypeOK
      <3>3. jobs[t].status = "held"
        BY <2>3, <3>1, Alone, RunStageAssumption DEF StepRaises, Expected, Before, Job
      <3>4. Kept(t)'
        BY <3>2, <3>3 DEF Kept
      <3> QED
        BY <3>1, <3>2, <3>4, RunnerKeeps
    <2> QED
      BY <1>1, <2>1, <2>2, <2>3
  <1>2. ASSUME NEW r \in Worker \cup Cli, Crash(r)
        PROVE  KeptInv'
    <2>1. crashes' # 0
      BY <1>2 DEF Crash, TypeInv, TypeOK
    <2>2. /\ UNCHANGED files /\ pc'[r] = "idle"
          /\ \A q \in Runner \ {r} : task'[q] = task[q] /\ pc'[q] = pc[q] /\ loc'[q] = loc[q]
      BY <1>2 DEF Crash, Drop, DropTo, Goto, TypeInv, TypeOK, Runner
    <2> QED
      BY <2>1, <2>2 DEF KeptInv, FreshAtWork
  <1> QED
    BY <1>1, <1>2, WorkerKeeps, CommandsKeep DEF Next

LEMMA KeptInit == Init => KeptInv
  BY DEF Init, RunInit, Absent, KeptInv, FreshAtWork, Kept

LEMMA KeptInvariant ==
  ASSUME Careful
  PROVE  Spec => []KeptInv
  <1>1. TypeInv /\ ExclusionInv /\ KeptInv /\ [Next]_vars => KeptInv'
    <2>1. CASE UNCHANGED vars
      BY <2>1, CommandKeeps DEF vars, runVars
    <2> QED
      BY <2>1, NextKeeps
  <1> QED
    BY <1>1, KeptInit, TypeInvariant, ExclusionInvariant, PTL DEF Spec

(* Until a process dies no work is lost: a running row has the process     *)
(* that is to finish it or to count its failure, and behind a done stage   *)
(* the next one is queued or about to be, whatever was held, released,     *)
(* retried, stepped or raised in between.                                  *)
THEOREM WorkIsKept ==
  ASSUME Careful
  PROVE  Spec => []NothingLost
  BY KeptImplies, KeptInvariant, PTL

(* Until a process dies no stage stays done on outdated input: behind one  *)
(* whose input has been replaced, the stage that replaced it is not done   *)
(* or about to queue it again.                                             *)
THEOREM ResultsAreRenewed ==
  ASSUME Careful
  PROVE  Spec => []NoStaleResult
  BY KeptImplies, KeptInvariant, PTL
=============================================================================
