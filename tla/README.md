# Verification of the knowledge pipeline

TLA+ specifications of the knowledge pipeline, the TLC runs that check them on
small instances, and proofs, checked by TLAPS, of what matters most for
instances of any size. Every definition is a translation of the Python source;
`PROJECT.json` names the lines each one stands for.

The pipeline turns sources (pasted text, web pages, e-mail) into notes of an
Obsidian vault. Each artifact walks a chain of stages; a stage is a row of the
SQLite table `jobs`, and a few independent processes (workers, an operator's
CLI commands, a dashboard) read and write that table with nothing between them
but single SQL statements. What the last stages make of an artifact, the claims of
the corpus, is kept in a table, a vector index and a directory of notes that
nothing but the order of the writes keeps in step, while grooming merges claims
and retract withdraws them; the entities it names are kept the same way. What
comes in by mail passes a ledger first, filled by a scan of the mailbox and
emptied batch by batch. And an operator may run a stage under several models,
compare, and approve one. These parts are where the difficulty lies, and what
this project is about: the *queue*, *eval-compare* on top of it, the *corpus*,
*grooming*, the *entities* and the *backlog*.

## 1. The system

| Part | State | Operations |
| --- | --- | --- |
| Stage registry `orchestrator/stages.py` | none: two tables | `first_stage`, `next_stage`, `stages_for_resource` |
| Job queue `db/jobs.py` | `jobs`: status, attempts, created_at per artifact and stage | `insert_job`, `claim_next`, `mark_done`, `mark_failed`, `record_attempt_failure`, `hold_artifact`, `release_artifact` |
| Control plane `db/controls.py` | `controls`: state, batch_limit per scope and key | `set_control`, `clear_control`, `effective_state`, `batch_limits` |
| Stage engine `orchestrator/executor.py`, `context.py` | intermediates on disk | `run_stage`: handler, `mark_done`, `is_frozen`, `insert_job` of the next stage |
| Worker `orchestrator/worker.py` | one process per resource class, its tally | claim, run, tally; on an exception count an attempt |
| Operator CLI `cli.py` | none | pause, resume, throttle, hold, release, retry, retract, step, walk, groom, backlog, eval |
| Dashboard `dashboard/executor.py`, `app.py` | queue, in-flight set, threads, loaded models | hold, release, retry; step and process through a queue |
| Ingestors `ingestors/` | raw store | store the artifact, queue its first stage; e-mail: archive first |
| Backlog ledger `db/backlog.py` | `backlog`: one row per archived message | add, triage, batch, ingest, requeue |
| Handlers `orchestrator/handlers.py` | vault notes, `claims`, `entities`, vectors | `source_note`, `extract_claims`, `dedup`, `entities`, `personal` |
| Grooming `corpus_dedup.py` | `dedup_verdicts`, plan files, merged notes | warm, plan, apply |
| Retraction `retract.py` | the above | undo what `dedup` and grooming did for one artifact |
| Eval-compare `eval_compare.py` | reports, keyed intermediates | run variants and hold; approve one |

How they interact. Connections are in autocommit mode (`db/connection.py`), so
**one SQL statement is one atomic step** and a function of several statements
may be interleaved with anything between them; only `claim_next` opens a
transaction. Workers, CLI and dashboard share the database; the dashboard's
threads also share memory under one lock. Handlers share the vault directory
and its git repository, with no lock at all.

What is hard here: two processes at one row or at one artifact; what was read a
statement ago (is the artifact frozen, how many attempts, which limits) used
after somebody changed it; processes that die between two statements; commands
that requeue rows somebody is running; finished work that newer upstream output
has made stale. `PROJECT.json` lists these hazards line by line.

What makes each part correct:

- queue and engine: a stage's intermediate is there before its row advances;
  an artifact is worked on by one process at a time and has one unfinished
  stage at a time; no work is lost, none left stale; a stage is dead-lettered
  exactly when its attempts are used up; in the end every artifact settles;
- control plane: the most specific row decides, and what is not paused runs;
- dashboard: an artifact is queued at most once and never locked out, its rows
  are claimed safely next to the workers, the models it has used are told to stop
  when it has drained;
- backlog: a finished scan has everything, each edition counts once, what is
  marked as ingested is stored, queued and registered, and what is queued is
  known to the ledger, wherever a command was broken off;
- eval-compare: whoever finishes a stage, its row and the next one name output
  that is there; what the next stage commits is what was approved;
- corpus: the note of every claim is where its row says; a row never counts
  more than its note shows, and exactly that when nothing was killed; support
  is only ever lost by retract; retract leaves nothing of a source and its
  claims; what was groomed away leads to a live claim; and of all this a kill
  breaks only what is said in section 5;
- grooming: planning costs no call that was paid for already; a plan merges
  nothing that it has merged away; a merge broken off loses no attestation;
- entities: a row counts what its note mentions; one name and type is one
  entity, and no entity takes the note of another of the same slug; what a pass
  reports is there.

## 2. Modules

| Module | Content |
| --- | --- |
| `Stages` | the registry: tables as constants, the functions that read them |
| `ControlPlane` | the controls table and its readers, as operators of a table |
| `JobTable` | the jobs table; one operator per SQL statement that writes it |
| `RunStage` | `run_stage`, for any kind of runner, statement by statement |
| `Orchestrator` | the worker loop, the crashes, the commands; the properties |
| `Dashboard` | the executor's queue and threads next to all of the above |
| `StageChain` | abstract: what the queue promises about an artifact's stages |
| `Backlog` | scans, triage, batches, ingestion; the properties of the ledger |
| `EvalCompare` | eval run and approve next to workers and commands, and the paths rows name |
| `Corpus` | dedup statement by statement, groom and retract with a kill between any two writes; the properties |
| `Grooming` | groom statement by statement: cache, planner, the writes of a pair |
| `Entities` | entity resolution statement by statement; the properties |
| `MCOrchestrator`, `MCDashboard`, `MCBacklog`, `MCEvalCompare`, `MCCorpus`, `MCGrooming`, `MCEntities` | instances for TLC |
| `Orchestrator_proofs` | the type and control invariant; persist before advance; dead letters |
| `Exclusion_proofs` | one runner per artifact; the queue implements `StageChain`; no work is lost, none left stale |
| `Dashboard_proofs` | the above with the executor's threads; its in-flight set, its models |
| `EvalCompare_proofs` | the above with eval commands; paths, inputs, approvals |
| `Corpus_proofs` | types of the corpus, rows and their notes, counts, origins; rows, vectors and notes agree; retraction is complete; merges lead to a live claim and keep the support |
| `Grooming_proofs` | a warmed pass plans off the cache; grooming implements `Corpus`; it loses nothing |
| `Backlog_proofs` | the ledger: complete, exact, queued, known |
| `Entities_proofs` | entities: types, counts, names, results, mentions |

`Stages` ← `ControlPlane` ← `JobTable` ← `RunStage` ← `Orchestrator` ←
`Dashboard`, each extending the one before. `EvalCompare` extends `Orchestrator`
as well, and composes the eval commands with its workers and commands. `Backlog`
extends `JobTable` and stands beside `Orchestrator`: it uses the same
statements, and of the workers only what they do to a row. `Corpus` and
`Entities` stand apart: what they need of the queue is that their stage runs for
a source, may fail or be killed, and may run again. `Grooming` extends `Corpus`
by what its groom and merge steps abstract from.

`StageChain` is the abstract specification of the queue: an artifact has at most
one unfinished stage, open or given up on; a stage opens when the one before it
is done, and again only while nothing else is unfinished. `Orchestrator`,
`Dashboard` and `EvalCompare` are shown to implement it. `Corpus` in turn is
what `Grooming` is shown to implement (`ImplementsCorpus`): a pair half merged
is mapped back to one that is not merged yet, a kill within it to `MergeKilled`.

*Queue*, state and code. `jobs`, `ctl` are the two tables; `files[k]` says whether the
intermediate of job `k` is there and whether it was made from the present
output of the stage before (`fresh`) or from one overwritten since (`stale`).
Each process `r` has a program counter `pc[r]` (its next statement), the job it
executes `task[r]`, and what it has read and not yet used, `loc[r]`. `flips`
and `writes` are second statements of hold, release and `set_control` that are
still to come; since nothing forces them to be taken, a command may also die
half way. `processed` is a worker's tally. A worker's life is ReadLimits,
Claim, Start, Persist, MarkDone, ReadFrozen, InsertNext, with WorkerRaises,
ReadAttempts, RecordFailure when the stage raises and Crash at any point.

*Queue*, abstractions. An artifact is a model value. What a handler does besides reading
its input and writing its intermediate is not in these modules. Rows inserted
within one second have equal `created_at` in SQLite; in the model they keep the
order of insertion. The status `pending` is in the schema's comment but never
written. An artifact-scope control never carries a limit, so a hold's read and
write of it are one step. All rows of an artifact carry one source type; the
same bytes added once as a paste and once as a personal note would break this.
The executor's threads exist from the start. `resident` are the models the
executor has used: `loaded`, or, once told to stop, `none` or `kept`, since
`_unload_ollama` looks at no exit code and swallows a timeout and an absent CLI.

*Corpus*, state and code. A claim's id is its source and its place in the
extraction, as in the code. `rows` is the table `claims` (attestation count and
`merged_into`), `vecs` the ids in `claims_vec`, `live` and `merged` the notes in
`corpus/claims` and `corpus/claims/merged`. A note is its set of attestations;
an attestation is the source, the pass over it and the candidate. `work[s]` is
the pass of dedup over `s`: its next statement, the candidate it is at, and,
between choosing a claim and writing, that claim and its note as it was read.
A candidate takes Match, Attest, Bump or Create, Insert, Index; End is the
commit, or anything that raises while a candidate is judged, and Crash a kill
at any statement. Begin has the guard against a second pass. `plan` is what the
plan saved in `file` has left; Merge is one pair of it, Skip a pair whose note is
gone. Retract is the command for one source that owns claims; for another it
does nothing (`cli.py:497-500`). MergeKilled is a pair of which the first writes
are done, RetractKilled a retraction that stops before any one of its writes: of
claims restored, cleaned or removed in one place of its order some are done, in
whatever order the database returned them. `withdrawn`, `killed` and `cut` are
history variables: who was withdrawn, which commands were killed, and which
sources' retraction was and has not been run again.

*Corpus*, abstractions. Which claim says the same as a candidate, and which
claims a plan merges, is arbitrary: the distances, the models' verdicts, their
cache and the order in which the planner goes through the claims only narrow
it. Texts, phrasings, quotes and dates are left out, and so are candidates
without text. These two commands are an operator's, and the operator gives one
of them at a time and while no dedup is under way, which the program does not
enforce. So a pair of a plan, or a retraction, that comes to its end is one step:
what lies between its writes is seen by nobody, unless it is killed there.
`OneWriter` says whether dedup runs for one source at a time, as it does with
one worker of its class and no step, walk or dashboard beside it; the program
does not enforce it (section 5).

*Grooming*, state and code. `verdicts` is the table `dedup_verdicts`, in the one
orientation in which it is written and read, neighbour first; `older` is the
order of `created_at`. `groom` is the
command under way: Warm collects the pairs (`candidate_pairs`) without a
verdict, Judged and NotJudged are the parallel answers, Warmed starts the
planner, which takes Examine per claim, oldest first, then PassOver or Compare
per neighbour, closest first, until NoneLeft, and in the end Planned. A pair is ReadPair, WriteSurvivor, WriteMerged, Unlink,
CountGained, MarkAbsorbed, one write each, or PairGone; GroomKilled is a kill
between any two, and the plan is then applied again from its file or forgotten.
Dedup and retract are those of `Corpus`; a retract that is killed is there only.

*Grooming*, abstractions. How far a claim is from another is a constant
(`Distance`), and no two are equally far from a third, as two of one wording, which
dedup makes one claim, would be; a verdict is arbitrary. Ties in `created_at` are taken in the
order of the rows, where the code takes the ids. There are plans of any length
the planner may come to: `MaxMerges` is no less than the number of claims, since
a claim is absorbed at most once. Only what is under way is serialized: nobody
derives or withdraws while a pair is at work. `--author`, which examines fewer
claims, costs and phrasings are left out.

*Entities*, state and code. `rows` is the table, `vecs` the ids in
`entities_vec`, `notes` the files under `corpus/entities`; a mention is the
source, the pass and the place of the candidate. `work[s]` is the pass over `s`:
Link or Miss (`by_name`), Confirm or Create (the nearest entities, judged by a
model; the first free id), AddMention and Bump, or Insert and Index, then
Finish. Raise is what may raise while a candidate is looked up or when the vault
commits; Crash a kill anywhere. `IdFor` gives the slugs of a name, which names
may share. `result` is `entities.json`.

*EvalCompare*, state and code. `content[a][p]` counts how often the keyed
intermediate `p` has been written, `out` and `inp` are the paths in the rows of
the evaluated stage and the next one, `read` and `taken` what the next stage has
read and committed. `eval[a]` is the command under way: EvalRun, then Generate
and Collect per variant, EvalHold, EvalHoldRows, WriteReport; or Approve, LiftHold,
MarkApproved, ResumeChain. EvalRaises is a handler that raises, EvalDies a kill.
`report` is the manifest, `chosen` a history variable. The steps of workers,
`step` and the other commands are those of `Orchestrator`, with the paths they
read and write (`RunWithPaths`) or none (`Elsewhere`).

*EvalCompare*, abstractions. Two variants of equal settings have one path, so
the model in use may be among the variants, as it is in the run. That dedup refuses
an artifact that owns claims is one of the ways a stage may raise. No two eval
commands are at one artifact at once: an assumption about the operator, for
which the code has no guard. That the next stage reads its row's path and then
the file is one step, as nobody changes the row in between. An approval
counts as standing from the moment the next row has its input, until the row of
its stage is given another status: the stage is asked for again, or the one
before it has been rerun and queues it.

*Backlog*, state and code. `archive` are the messages with a file under
`email/eml`, `torn` those whose file is incomplete; `ledger` is the table
`backlog` with state, artifact, triage and batch; `stored` and `artifacts` are
the raw store and the registry. `scan[p]` is a `backlog scan`: ScanBegin, then
Archive (the file is opened, unless it exists), Write, Check (`message_id_seen`)
and Add per message, ScanEnd. `ingest[p]` is a `backlog run`, or one of the
commands that ingest without the ledger (`ingest email`, `add paste`, `add web`):
RunBegin or AddBegin, then Derive, Queue, Register and Record per item, oldest
first. ScanDies and IngestDies are whatever ends a command early. Triage, batches
and `backlog retry` are one statement each. `scanned` and `added` are history
variables.

*Backlog*, abstractions. A message is a model value; of its text only the
artifact it normalizes to matters, which two messages may share, and of a part of
its bytes only what that part would normalize to. The normalizer does not change
during a behaviour. The test whether a file exists and its opening are one step,
as are the reading of a file, the normalization and the write of its text: a text
that was cut off in the raw store is written over by the next attempt, which an
archived message is not. Its file exists, so a second scan passes over it and a
backlog run ingests what is there; `email.py:236` calls a scan safe to re-run
without this exception. The properties say exactly when a file may be torn. Which
sets of items a command ingests directly is a constant. `set_triage` is called
only by tests and its decisions are taken as given. A limited run takes any of the
items that may come first, since the code leaves ties in `sent_at` open.

## 3. Runs

Runs that pass:

| Run | Instance | Shows |
| --- | --- | --- |
| `orchestrator_careful` | 2 workers, 1 walking operator, 1 artifact, 3 stages, 2 attempts, 4 commands, 1 crash | `TypeOK`, `OneRunnerPerArtifact`, `PersistedBeforeAdvance`, `DeadLettered`, `NothingLost`, `NoStaleResult`, `ImplementsStageChain` |
| `orchestrator_liveness` | a cheap and an llm worker, 1 artifact, 2 stages, 3 commands out of hold, release, pause, resume, throttle, retry | `EveryArtifactSettles` |
| `dashboard_claims` | 1 worker, 1 thread, 1 artifact, 2 stages, 4 commands, 1 crash | `DashTypeOK`, `OneRunnerPerArtifact`, `ImplementsStageChain` |
| `dashboard_queue` | 1 worker, 2 threads, 2 artifacts, 1 stage, 2 commands | `InflightIsWork`, `EveryModelIsToldToStop`, `EnqueuedIsDealtWith` |
| `eval_approval` | 1 worker, 1 stepping operator, 1 artifact, 3 stages of which the second is evaluated, 2 variants of which one is the model in use, 5 commands, 1 crash or kill | `EvalTypeOK`, `PathsLead`, `InputIsOutput`, `CommitsTheApproved`, `ImplementsStageChain` |
| `backlog_ledger` | 1 scanner, 2 ingestors, 4 messages of which two have one Message-ID and three one text, 3 commands, 1 kill | `BacklogTypeOK`, `ScanIsComplete`, `EditionCountedOnce`, `IngestedIsQueued`, `LedgerKnowsItsWork` |
| `corpus_lifecycle` | 3 sources, two by one author and one by nobody, one of 2 claims, which is derived twice, plans of 1 pair, 1 kill, of dedup, groom or retract | `CorpusTypeOK`, `RowsHaveNotes`, `CountNeverAhead`, `ClaimsKeepTheirOrigin`, `NotesAgreeWithRows`, `EverySurvivorLives`, `SupportIsKept`, `RetractionOfClaimsIsComplete` |
| `grooming_passes` | 3 sources of one claim each, on a line, one derived twice, 2 thresholds, plans of any length, 1 kill | `WarmedPlansAreFree`, `ImplementsCorpus`, `NothingIsLost` |
| `entities_mentions` | 2 sources, one derived twice, up to 2 candidates, 2 names of one slug, 2 types, 1 kill | `EntitiesTypeOK`, `MentionsAreCounted`, `OneEntityPerName`, `ResultIsTrue`, `MentionsAreKept` |

Runs that find a disagreement between the code and what it says of itself:

| Run | Shows |
| --- | --- |
| `claim_window` | 25 paused rows hide every runnable one from a worker (`ClaimsWhatIsRunnable`; the window is 1 here) |
| `release_race` | a release between the two statements of a hold leaves a held row nobody holds (`HeldMeansFrozen`) |
| `withdrawn_returns` | a withdrawn source's attestation is still in a note that was groomed away, and lives again when that merge is undone (`WithdrawnStaysSilent`) |

A release between a worker's `is_frozen` and its `insert_job` leaves such a row
too; the trace TLC finds is the shorter one, of two commands.

**Careful.** Re-ingestion, `retry --stage` and `retract --rederive` reset a row
whatever its status, and step and walk run a row without claiming it. While
somebody runs the row this breaks exclusion. The constant `Careful` restricts
these commands to artifacts nobody is at work on, and stepping to held stages
that are not being released. In `EvalCompare` it also has the operator pause the
stage before an eval run, leave the artifact alone while an eval command is at
it, and approve only from a report with nothing done to the artifact since. It
is an assumption about operators that the program does not enforce; the runs and
the theorems that need it say so. `PersistedBeforeAdvance`, `DeadLettered`,
`PathsLead` and what the dashboard keeps of its own state are proved without it.
The dashboard's runs give none of these commands, so that it restricts nothing
there.

**Bounds of the queue.** Every row of a job is independent of other artifacts' rows except
for the claim order, the window and the limits, so one artifact with all of its
interleavings is the interesting instance, and two where the queue matters.
Three stages are the least at which a stage has one before and one after it;
two attempts the least at which a retry differs from a dead letter; four
commands allow hold, step, release and a retry, or two requeueings, in one
behaviour. One crash is enough to stop any one process at any one statement.
An eval run and two approvals, or two eval runs and an approval, need three of
five commands, and leave two for a pause, a hold or a retry among them. The
evaluated stage has one before and one after it: that one rerun overtakes a
report or an approval from behind, this one runs on it. With one attempt a
failure is final, which the queue's run varies and this one does not.
`MaxCommands` and `MaxCrashes` are the only bounds on the behaviours; `clock`
and the tallies are bounded by them.

**Bounds of the corpus.** Three sources are the least with a chain of merges
over three owners, and with an attester, a survivor and an absorbed claim that
are all different. Two claims of one source are the least with a pass that has
committed one and is at another, and with a merge inside one source. Deriving
twice is the least at which ids are used again. Plans of one pair can be made
again and again, so chains arise from several plans; a plan of two pairs adds
only the order in which it is applied, and `grooming_passes` has it. One kill
stops any one command at any one statement, and each is then followed by
whatever else is given. The number of passes and of kills bounds every behaviour;
the number of plans is not bounded.

**Bounds of grooming.** On a line of three claims the middle one is near both
others and they are not near each other: the least instance in which what a plan
has merged changes what it may merge next, in which a chain could arise, and in
which the shorter threshold asks for fewer pairs than the longer. A shortlist of
two never cuts a neighbour off by itself, but does once a neighbour was groomed
away and its vector is still found. One source derived again gives an id with old
verdicts to another claim. Neither the number of passes nor the length of a plan
is bounded by anything but the claims there are.

**Bounds of entities.** Two names of one slug and two types are four candidates
of which two share an id's stem and two a name. A source derived twice and one
beside it are three passes of up to two candidates: up to six mentions, and up
to three entities since there are three ids. No row is ever deleted, so what a
fourth id would show, the third does.

**Bounds of the backlog.** Four messages are the least with two of one
Message-ID, one without any and one without text, of which the first three
normalize to one artifact. Two ingestors are the least that take the same rows;
three commands allow a scan and two ingestions, a scan and an ingestion with a
retry, or two scans and an ingestion, and one kill breaks off any of them. There
is one scanner: `message_id_seen` and the insert are two statements, so of two
scans at once each may count one copy of an edition. The code calls the scan a
one-time read, and the theorems name the assumption (`OneScanner`).

**Fairness.** `FairSpec` has weak fairness of each worker's steps: docker
restarts worker containers (`docker-compose.yml`, `restart: unless-stopped`)
and a worker always has a next statement, its poll included. It is no fairness
of success: a stage may raise each time, up to its attempts. `DashFairSpec` has
weak fairness of the dashboard's threads only, so what it shows does not depend
on workers. No command, and no second statement of a command, is fair.
`EveryArtifactSettles` assumes that from some time on nothing is paused, capped
or held: a limit is never lifted by the code, and an operator may forget a hold.

The runs of eval-compare, corpus, grooming, entities and backlog have safety
properties only and assume no fairness.

**Deadlock** is checked in the runs of the queue and of eval-compare, where
workers poll, and of grooming, where a pass may always be warmed. A corpus rests
when nothing is derived, groomed or withdrawn, entities when no pass is left to
begin, and a backlog when no command is given, so their runs do not check it.

**Mutants.** Next to the action it changes, each module has the mutated
operators that `PROJECT.json` pairs with the properties: a claim that does not
flip its row, a dead letter one attempt late, a finally clause left out, and so
on. TLC finds the property violated for each.

## 4. Proofs

| Theorem | Statement |
| --- | --- |
| `TypeCorrect` | `Spec => []TypeOK` |
| `PersistBeforeAdvance` | `Spec => []PersistedBeforeAdvance` |
| `AttemptsDecide` | `Spec => []DeadLettered` |
| `Exclusive` | `Careful` implies `Spec => []OneRunnerPerArtifact` |
| `QueueKeepsTheChain` | `Careful` implies `Spec => ImplementsStageChain` |
| `WorkIsKept` | `Careful` implies `Spec => []NothingLost` |
| `ResultsAreRenewed` | `Careful` implies `Spec => []NoStaleResult` |
| `DashTypeCorrect` | `DashSpec => []DashTypeOK` |
| `DashPersists` | `DashSpec => []PersistedBeforeAdvance` |
| `DashExclusive` | `Careful` implies `DashSpec => []OneRunnerPerArtifact` |
| `DashKeepsTheChain` | `Careful` implies `DashSpec => ImplementsStageChain` |
| `InflightIsExact` | `DashSpec => []InflightIsWork` |
| `ModelsAreToldToStop` | `DashSpec => []EveryModelIsToldToStop` |
| `EvalTypeCorrect` | `EvalSpec => []EvalTypeOK` |
| `PathsAreThere` | `EvalSpec => []PathsLead` |
| `EvalExclusive` | `Careful` implies `EvalSpec => []OneRunnerPerArtifact` |
| `EvalKeepsTheChain` | `Careful` implies `EvalSpec => ImplementsStageChain` |
| `TheOutputIsHandedOn` | `Careful` implies `EvalSpec => []InputIsOutput` |
| `ApprovedIsCommitted` | `Careful` and `VariantsDiffer` imply `EvalSpec => CommitsTheApproved` |
| `CorpusTyped` | `Spec => []CorpusTypeOK` |
| `NotesAreThere` | `OneWriter` implies `Spec => []RowsHaveNotes` |
| `CountsAreCovered` | `OneWriter` implies `Spec => []CountNeverAhead` |
| `OriginsStay` | `OneWriter` implies `Spec => []ClaimsKeepTheirOrigin` |
| `StoresAgree` | `OneWriter` implies `Spec => []NotesAgreeWithRows` |
| `RetractedClaimsLeaveNoTrace` | `OneWriter` implies `Spec => RetractionOfClaimsIsComplete` |
| `SurvivorsLive` | `OneWriter` implies `Spec => []EverySurvivorLives` |
| `SupportStaysWithClaims` | `OneWriter` implies `Spec => SupportIsKept` |
| `WarmingSuffices` | `GroomSpec => []WarmedPlansAreFree` |
| `GroomDoesWhatCorpusSays` | `GroomSpec => ImplementsCorpus` |
| `NothingGetsLost` | `OneWriter` implies `GroomSpec => NothingIsLost` |
| `BacklogTyped` | `Spec => []BacklogTypeOK` |
| `ScansComplete` | `OneScanner` implies `Spec => []ScanIsComplete` |
| `EditionsCountOnce` | `OneScanner` implies `Spec => []EditionCountedOnce` |
| `IngestedAreQueued` | `Spec => []IngestedIsQueued` |
| `WorkIsKnown` | `OneScanner` implies `Spec => []LedgerKnowsItsWork` |
| `EntitiesTyped` | `Spec => []EntitiesTypeOK` |
| `MentionsCounted` | `OneWriter` implies `Spec => []MentionsAreCounted` |
| `NamesAreEntities` | `OneWriter` implies `Spec => []OneEntityPerName` |
| `ResultsAreTrue` | `OneWriter` implies `Spec => []ResultIsTrue` |
| `MentionsStay` | `OneWriter` implies `Spec => MentionsAreKept` |

Those of the queue, the dashboard and eval-compare hold for all stages and
chains, any sets of workers, threads, operators, artifacts and variants, and any
bounds on commands and crashes; those of the corpus for any sources and authors,
any lengths of extractions and plans, and any number of passes and kills; those of
grooming for any distances, thresholds, shortlists and prompts as well; those of
the backlog for any mailbox, any number of ingestors, commands and kills; those
of the entities for any sources, names, types and slugs, and any number of
candidates, passes and kills. The
assumptions are the named ASSUMEs of the modules, which TLC evaluates in every
run: chains are non-empty sequences without repetition, every stage has a
resource class, the kinds of runner are disjoint; bounds are numbers; there is a
variant to run; and what stands for no row, no note, no output, nothing in hand
and nobody is none. `VariantsDiffer`, that no two variants write to one path, is
an assumption of one theorem: a path is keyed by what generated it
(`src/pipeline/orchestrator/context.py:43`), and the entries of the evaluation's
configuration are of different settings.

*TypeCorrect.* `TypeOK` is not inductive alone: an action of `run_stage` needs
that its runner has a job. `TypeInv` adds `Control` (a runner has a job exactly
when its program counter is inside `run_stage` or its failure path; only workers
count attempts, only threads give up), and is shown action by action.

*PersistBeforeAdvance.* The invariant adds that a runner past its handler has
its intermediate on disk. Intermediates are never removed, and a row becomes
done, or the next row comes to exist, only in a step of a runner past its
handler; every other step keeps rows or moves them between unfinished statuses
(lemma `Effect` for each). That `next_stage` is injective on a chain
(`NextJobInjective`) is needed to tell whose next job a row is.

*AttemptsDecide.* `DeadLettered` is inductive with the types: a worker reads the
attempts in one statement and writes row and count in a later one, but it writes
the status by the count it writes, and whatever else makes a row ready or failed
sets or keeps the count to match (`RetryStage`, `Reingest`, `Retry`).

*Exclusive.* That a claim is atomic is not enough: exclusion of stages of the
same artifact needs that no row of it is ready while somebody is at work. The
invariant, artifact by artifact (`ArtifactInv`): at most one row is unfinished
(`OneOpen`); if any row exists the first does (`FirstThere`); at most one
runner is at the artifact (`OneBusy`); its row has the status its statement
expects, nothing is unfinished beside a row it has marked done, and a stepping
operator is not raced by a release (`InStep`). Steps are grouped by what they
do to an artifact: touch nothing (`Untouched`), move on in `run_stage`
(`MoveOn`), finish the row (`Finish`), leave it (`LeaveRow`), enter one
(`EnterRow`), or be a command (`CommandRows` and its special cases).

*QueueKeepsTheChain.* Every statement changes the phase of one row at most, or of
some within what the chain does not tell apart (`RowStep`, `ChainStep`). Which
changes the chain allows depends on the other rows of the artifact, and that
these are finished is what `ArtifactInv` says: a row reopens only when nobody is
at the artifact, and a next one opens only under a runner whose own row is done.

*WorkIsKept, ResultsAreRenewed.* Shown together (`KeptInv`), since that a finished
stage has its next one queued is what renews the next one's result. The invariant
adds that while a stage runs nobody replaces what it has read (`FreshAtWork`):
the stage before would have to run, and `OneBusy` forbids it. `Advancing` is the
runner between `mark_done` and `insert_job`, the only time both are missing.

*The dashboard.* The steps of `Orchestrator` do not move a thread, so its lemmas
apply to them as they are; a thread's step is a statement of `run_stage`, a step
outside it that touches no row (`Stroll`), or leaves its row (`Abandon`), and the
lemmas of `Exclusion_proofs` are by kinds of step for that reason. The claim of a thread (`ClaimChosen`) is a single update that tests
whether the row it chose is still ready; if it is, it is the only unfinished one of
its artifact and nobody is there, however old the choice. `InflightIsExact` is inductive with the types and `Hands` (a thread has an
item exactly between `_q.get()` and its finally clause): what is taken from the
queue is the first of an artifact that is queued once (`TakenFrom`).

*Eval-compare.* `EvalBase` is types and control, that what a row names has been
written, and what this needs: what a command has collected and what a report
lists was written, nothing written is ever removed (`Grows`), and a runner past
its handler has written the default path. For exclusion, eval commands claim
nothing and hold the artifact last; what keeps the workers away is the pause and
the hold a careful operator leaves in place. `EvalAlone` says so: while an eval
command is at an artifact, or its report may still be approved, no runner and no
release is at it, its other stages are finished, and the evaluated one is paused
or held, or done between the two statements of an approval. Then marking the row
done is a step of the chain, and so is opening the next. `InputInv` adds for
`InputIsOutput` that who has finished the stage has named its own output and is
the only one to hand it on. `ApprovalInv` adds for `CommitsTheApproved` that what
a run has collected and a current report lists is still what is there
(`StillThere`: here two variants of one path would overwrite each other), and
that while an approval stands nobody is at the evaluated stage, the next row has
the approved path for its input, and who runs it has read that version
(`Stands`).

*The corpus.* `TypeInv` adds to the types what a pass has inside a candidate
(`Control`) and that notes are finite, without which counts mean nothing. Three
invariants are then shown together. `PastInv`: every attestation in any note is
of a pass and a candidate that are past, so the one a pass is about to write is
in no note and adds exactly one. `SoundInv`: at most one pass is under way; a
row's note is in one of the two places (`Shown`), holds an attestation of the
owner and covers the count (`Sound`), each part up to the kills that break it: a
retract of the owner cut short may leave the row without a note, any retract
killed the count ahead of the note, a groom killed the note in the other place;
and a pass finds at its next statement what it left
(`Underway`): the note it read is still the note, the row it inserts is not
there yet. Of a pair the first n writes, of a retraction the writes done so far
are taken claim by claim (`MergeWritesEffect`, `RetractWritesEffect`); a note is
never moved before it is restored (`RetractKilledWrites`), so that one of its
places always has it (`RetractKeepsOrigin`). For a merge, the survivor's note
grows by attestations it does not
have, so cardinalities add (`NewIsFinite`, `MergeEffect`); for a retraction, a
claim that outlasts it has another owner, whose attestation stays, so what is
kept of its note is not empty (`KeptHasOrigin`). The floor of one in
`_detach_attestations` and `_clean_survivor` may then be reached, when a kill of
dedup has left the count behind, but the count does not come to exceed the note
(`RetractCounts`). `Settled` says for kills of dedup alone that the note is where
the row says; the support theorem needs it. `ExactInv`, while nothing was killed: rows,
vectors and notes are of the same claims and counts are exact, but for the claim
a pass is between two statements with (`Fresh`, `Unindexed`, `Uncounted`).
`StoresAgree` and `RetractedClaimsLeaveNoTrace` follow: a row the retraction finds
is all there is of a claim.

*SurvivorsLive, SupportStaysWithClaims.* `resolve_live` is a recursive function
over chains of any length, and the induction theorems of the library are out of
the provers' reach. `SetInduction` is induction for a set of numbers, from the
least element of its complement; with it, that the first n hops from a claim exist
in one way only (`HopsAreUnique`), which is what the recursion unfolds to
(`ResolveHops`). Sources, hence claims, are finitely many, so `ForestInv` suffices:
some rank goes down along `merged_into`, whose target has a row (`Forest`). A merge
is of two live claims and puts the survivor below all (`ForestMerges`); a
retraction only removes hops (`ForestStays`); and among as many hops as there are
claims one is of a claim that is live (`ResolveEnds`). For the support, whoever
attests a live claim attests it afterwards or, in the one step that merges it, the
survivor, one hop away; `GoneInv` says that what is withdrawn owns nothing and is
not at work, so that a derivation which begins again finds no claim of its own.

*Grooming.* `GroomInv` is the types, that the command is alone with the corpus
while it is under way (`Alone`), that the pairs found so far are a plan of `Corpus`
and nothing still to examine is absorbed (`Planning`), and what the two notes of
the pair at work are before and after each statement (`Halfway`). It rests on the
type invariant of `Corpus` alone, so `WarmingSuffices` and `GroomDoesWhatCorpusSays`
need no `OneWriter` and hold through any kill of dedup and groom. `WarmInv`: from the end of a parallel
pass without a failure on, every candidate pair has a verdict; the corpus does not
change while a plan is made, so the pairs the planner looks up are among them. For
the refinement, a pair at work is mapped back to one that is not merged yet
(`LiveBefore`, `MergedBefore`, `RowsBefore`): ReadPair and the writes up to
CountGained are stutters, MarkAbsorbed is a Merge, PairGone a Skip and Planned a
MakePlan, and the steps of dedup and retract are those of `Corpus`, the mapping
being the identity while no pair is at work. A kill within a pair is a
MergeKilled: the notes and rows are those of as many writes as its statement has
behind it (`PairOf`, `PairWritten`, `RefineKilled`), and one before the first
write of a plan is a stutter.

*NothingGetsLost.* Here the invariants of `Corpus` do not help, as a kill within
a pair breaks them. `LossInv` adds to `GroomInv` and `GoneInv` that one pass is at
work and finds what it left (`PassInv`), that no attestation is of a pass to come
(`Begun`), and, as long as nothing but groom was killed, for every claim (`Whole`): its
notes have a row, but for the row that is about to be inserted; absorbed, it has no
live note; left with two notes, it has in the live one whatever stands; and what
stands of it, when it was absorbed, the claim that absorbed it has from the same
source. The second note is that of a pair killed before its unlink, which is why
the third part is needed: the survivor already has what that pair gained, and
applying the pair again, or never, takes nothing from either.

*The backlog.* `TypeInv` adds to the types what a command has at hand at each
step (`ScanControl`, `IngestControl`). Most steps leave a row of the ledger and a
row of the queue alone or move them one way only, which `LedgerEffect`,
`RowsStay` and `RowsBack` state once for all actions. `ScansComplete` adds that a
scan under way has rows for what it has passed (`ScanProgress`) and that a file
is torn only while it is written or after a death (`WriteInv`). For
`EditionsCountOnce` what a scan read of the ledger must still be true when it
inserts (`SeenIsTrue`): this is where one scanner is needed. `IngestedAreQueued`
needs no such assumption: an ingestion past a statement has its effect, and
nothing undoes it, whoever else works on the same rows (`RowInv`,
`IngestProgress`). For `WorkIsKnown` the text an ingestion holds is that of its
message and its row is there (`TextInv`), or is noted as added directly
(`DirectIsNoted`).

*The entities.* `TypeInv` adds what a pass has at hand at each step and that
notes are finite. `SoundInv` is shown for one pass at a time: every mention is of
a pass and a place that are past (`Past`), so the one about to be written is new
and adds one; a row's note is there and covers its count (`Sound`); a pass finds at its next statement what it left, the
note it read is still the note and the id it is to insert is still no row's
(`Underway`); two rows never have one candidate, which needs that while a pass
resolves or creates one no row has it (`OneEntityPerName`, `Underway`); what a
pass lists is there (`Results`); and, while nothing was killed, rows, vectors
and notes are of the same entities and counts exact, but for the entity the pass
is between two statements with (`Exact`). `MentionsStay` follows from `Underway`:
a write to a note is of the note as it is, or of an id no row has.

Only model-checked. Liveness (`EveryArtifactSettles`, `EnqueuedIsDealtWith`) is
out of the prover's reach, as is anything about ENABLED. Every other property
of the passing runs is a theorem. Of the runs that find a disagreement, TLC's
counterexample is what there is. Proved theorems are about the models; that a
definition is what its lines of the source do is read, not proved. No module has
recursive operators.

## 5. Known weaknesses

What the models show of the code, beside the runs that find a disagreement with
a text. Each is in the model; the setting named brings it out.

- *Requeueing a running row.* Ingesting identical bytes again, `retry --stage` and
  `retract --rederive` put a running row back to ready, and a second worker claims
  it: `OneRunnerPerArtifact` with `Careful` FALSE.
- *A crash stalls the artifact.* A killed worker leaves a running row, or a done
  stage whose next one has no row; nothing requeues either. `EveryArtifactSettles`
  fails with one crash. The plan's stale detection
  (`src/knowledge-pipeline-plan.md:420`) is for the burst worker, which is not
  implemented; there is none for workers.
- *Lost updates of notes.* Two dedups, or two entity passes, that write to one
  note lose one of the two attestations or mentions: `SupportIsKept`,
  `MentionsAreKept` with `OneWriter` FALSE. Two entity passes may also create one
  name twice (`OneEntityPerName`).
- *Repeated mentions.* dedup refuses a second pass over an artifact, `entities`
  does not: a retry mentions again what the pass before it had mentioned.
- *A groom killed within a pair,* between the unlink of the note and the update of
  `merged_into`, leaves a live row whose note is under `merged/`; the pair is then
  passed over, by the same plan and by every later one. `RowsHaveNotes` then says
  only that the note is in the other place, `NotesAgreeWithRows`,
  `EverySurvivorLives` and `SupportIsKept` nothing; `NothingIsLost` holds after it
  too. Killed after the survivor's note was written, the count stays behind: applied
  again, the pair has nothing to gain.
- *A retract killed half way.* Between the unlink of a note and the delete of its
  row (`retract.py:119-124`) it leaves a row without a note, between this and the
  next statement a vector without a row, and between the strip of a note and its count
  (`:167-168`, `:207-208`) a count ahead of the note. `RowsHaveNotes` and
  `CountNeverAhead` say so. Running it again repairs the first; the last is kept, as
  nothing is left to strip. If it was killed after its last row had gone, it cannot
  be completed: the command finds no claims and does nothing, and what the source
  attests of others stays.
- *Retract for a source that owns no claims.* All of its claims may have been found
  to say what others say. The command then changes nothing (`cli.py:497-500`),
  although its docstring says that it detaches the attestations the artifact left
  on other notes (`cli.py:488-489`, `retract.py:14`, `:89`, `:185-186`); the test that
  shows it (`tests/test_retract.py:47-65`) calls `retract.retract` and not the
  command. `RetractionOfClaimsIsComplete` is of sources that own claims for this
  reason: of the others the same statement would be false.
- *The floor of one.* A dedup killed between note and count leaves a count of one
  for two attestations; a retraction of either then stops at the floor, and the
  count happens to be right again. With more attestations it stays behind.
- *Models that stay.* `_unload_ollama` ignores what becomes of `ollama stop`
  (`executor.py:126-130`), so a model may stay in memory when the queue has drained,
  which its module's docstring says it frees (`:11-12`). `EveryModelIsToldToStop`
  is what the code does promise.
- *A stale plan and a killed dedup.* A dedup killed between writing a new claim's
  note and inserting its row leaves a note nobody counts. A saved plan that names
  this id, from before the source was withdrawn, merges onto that note, for it looks
  at files only; the next derivation writes over it, and the absorbed claim's
  attestations are then in its note under `merged/` alone. `NothingIsLost` is
  stated for behaviours without a killed dedup for this reason.
- *The newer claim survives.* `_live_claims` says that the earliest phrasing
  survives (`src/pipeline/corpus_dedup.py:78`), and the planner that the neighbour
  is older (`:245`). The oldest claim is examined first and goes into its
  neighbour, which is newer. The test for claims that are absorbed already (`:203`)
  never applies, since a claim is absorbed only when its turn has come.
- *Verdicts outlive their claims.* They are looked up by ids, which deriving again
  gives to other claims.
- *Eval next to workers.* `eval run` claims nothing and holds the artifact only
  at the end: on a stage that is not paused a worker may finish it meanwhile.
  `CommitsTheApproved`, `InputIsOutput` and `ImplementsStageChain` fail with
  `Careful` FALSE.
- *An old report.* A second eval run that fails has already written over the
  intermediates of the first, whose report can still be approved.
- *Approving late.* Once dedup has committed what was extracted before, an
  approval reopens it but dedup refuses, until the artifact is retracted.
- *A broken-off approval.* Killed between `mark_done` and `insert_job`, it leaves
  the next stage, if it had a row, on its old input. `InputIsOutput` is stated for
  behaviours without a crash for this reason.

## 6. Plan

In order of importance; each with its mutants and proofs.

1. *(done)* Queue, control plane, engine, workers, commands, dashboard.
2. *(done)* Corpus: dedup, grooming of saved plans, retraction.
3. *(done)* `Grooming`: the verdict cache, the planner, the writes of a pair, with
   kills and plans applied again, as an implementation of `Corpus`; and retract
   killed between any two writes. Left: phrasings and `merged_from`; a dedup next to
   a groom or a retract, which nothing in the program keeps apart.
4. *(done)* `Entities`: mentions, their order of writes, and what a retry repeats.
5. *(done)* Backlog: scan, duplicates, triage, ingestion in batches and directly.
   Left: what two scans at once do to the ledger, as a run.
6. *(done)* `EvalCompare`: run and approve next to the workers of `Orchestrator`.
7. Proofs. *(done)* Every property of the passing runs that is not liveness: the
   types, exclusion, the refinements of `StageChain` and of `Corpus`, dead letters,
   nothing lost and nothing stale, the dashboard's state, eval-compare, the corpus
   with its survivors and its support, grooming, entities, backlog. Left: the
   liveness properties, whose safety parts (a ready row is claimed by the worker of
   its class, attempts only grow) could be stated as steps of their own; and of the
   corpus after kills, what the invariants that assume none still give.

Not modelled, and why: the raw store and the registry appear as the sets of what
is in them, since both are written and never read back to decide anything, as
are the cost tables, which do not appear;
providers, prompts, parsing, frontmatter and configuration are pure or external
and appear as inputs; the deployment is represented by the fairness it gives.
