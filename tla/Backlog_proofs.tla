--------------------------- MODULE Backlog_proofs ---------------------------
(***************************************************************************)
(* Theorems about Backlog, for any mailbox, any texts and Message-IDs, any *)
(* number of commands, scans and ingestions, and any of them killed.       *)
(***************************************************************************)
EXTENDS Backlog, TLAPS

(* Types *)

LEMMA FirstJobIsJob ==
  ASSUME NEW a \in Artifact
  PROVE  FirstJob(a) \in Job
  <1>1. /\ chain_for(SourceOf[a]) \in Seq(Stage)
        /\ chain_for(SourceOf[a]) # << >>
    BY StagesAssumption DEF chain_for
  <1>2. chain_for(SourceOf[a])[1] \in Stage
    BY <1>1
  <1> QED
    BY <1>2 DEF FirstJob, first_stage, Job

LEMMA RowUpdate ==
  ASSUME NEW row \in Row, NEW st \in Status, NEW n \in Nat
  PROVE  /\ [row EXCEPT !.status = st] \in Row
         /\ [row EXCEPT !.status = st, !.attempts = n] \in Row
  BY DEF Row

(* insert_job leaves a row for the job and removes none.                   *)
LEMMA InsertEffect ==
  ASSUME jobs \in [Job -> Row], clock \in Nat, NEW k \in Job, NEW re, insert_job(k, "ready", re)
  PROVE  /\ jobs' \in [Job -> Row] /\ clock' \in Nat
         /\ Exists(k)'
         /\ \A j \in Job : j # k => jobs'[j] = jobs[j]
  <1>1. CASE ~Exists(k)
    BY <1>1 DEF insert_job, Row, Absent, Exists, Status
  <1>2. CASE Exists(k)
    <2>1. [jobs[k] EXCEPT !.status = "ready", !.attempts = 0] \in Row
      BY RowUpdate DEF Status
    <2>2. [jobs[k] EXCEPT !.status = "ready", !.attempts = 0].status = "ready"
      BY DEF Row
    <2>3. \/ jobs' = [jobs EXCEPT ![k] = [jobs[k] EXCEPT !.status = "ready", !.attempts = 0]]
          \/ jobs' = jobs
      BY <1>2 DEF insert_job
    <2> QED
      BY <1>2, <2>1, <2>2, <2>3 DEF insert_job, Exists
  <1> QED
    BY <1>1, <1>2

(* A worker's step changes no row but that of its job, and removes none.   *)
LEMMA WorkEffect ==
  ASSUME jobs \in [Job -> Row], clock \in Nat, NEW k \in Job, Work(k)
  PROVE  /\ jobs' \in [Job -> Row] /\ clock' \in Nat
         /\ \A j \in Job : Exists(j) <=> Exists(j)'
  <1>1. PICK st \in Status, n \in Nat :
          \/ jobs' = [jobs EXCEPT ![k] = [jobs[k] EXCEPT !.status = st]]
          \/ jobs' = [jobs EXCEPT ![k] = [jobs[k] EXCEPT !.status = st, !.attempts = n]]
    <2>1. jobs[k].attempts + 1 \in Nat
      BY DEF Row
    <2>2. CASE ClaimRow(k)
      BY <2>1, <2>2 DEF ClaimRow, Status
    <2>3. CASE mark_done(k)
      BY <2>1, <2>3 DEF mark_done, Status
    <2>4. CASE WriteAttempt(k, jobs[k].attempts + 1)
      <3>1. (IF jobs[k].attempts + 1 >= MaxAttempts THEN "failed" ELSE "ready") \in Status
        BY DEF Status
      <3> QED
        BY <2>1, <2>4, <3>1 DEF WriteAttempt
    <2> QED
      BY <2>2, <2>3, <2>4 DEF Work
  <1>2. Exists(k)
    BY DEF Work, Exists
  <1>3. clock' = clock
    BY DEF Work, ClaimRow, mark_done, WriteAttempt
  <1>4. /\ [jobs[k] EXCEPT !.status = st] \in Row
        /\ [jobs[k] EXCEPT !.status = st, !.attempts = n] \in Row
        /\ [jobs[k] EXCEPT !.status = st].status = st
        /\ [jobs[k] EXCEPT !.status = st, !.attempts = n].status = st
    BY RowUpdate DEF Row
  <1> QED
    BY <1>1, <1>2, <1>3, <1>4 DEF Exists, Status

LEMMA RequeueEffect ==
  ASSUME jobs \in [Job -> Row], NEW b, NEW stages, requeue_failed(b, stages)
  PROVE  /\ jobs' \in [Job -> Row]
         /\ \A j \in Job : Exists(j) <=> Exists(j)'
  <1> DEFINE Again(j) == [jobs[j] EXCEPT !.status = "ready", !.attempts = 0]
  <1>1. ASSUME NEW j \in Job
        PROVE  /\ \/ jobs'[j] = jobs[j]
                  \/ jobs'[j] = Again(j) /\ jobs[j].status = "failed"
               /\ Again(j) \in Row /\ Again(j).status = "ready"
    <2>1. jobs'[j] = IF jobs[j].status = "failed" /\ j[1] \in Known(b) /\ j[2] \in stages
                     THEN Again(j) ELSE jobs[j]
      BY DEF requeue_failed
    <2>2. Again(j) \in Row
      BY RowUpdate DEF Status
    <2>3. Again(j).status = "ready"
      BY DEF Row
    <2> QED
      BY <2>1, <2>2, <2>3
  <1>2. jobs' = [j \in Job |-> jobs'[j]]
    BY DEF requeue_failed
  <1> HIDE DEF Again
  <1>3. jobs' \in [Job -> Row]
    BY <1>1, <1>2
  <1> QED
    BY <1>1, <1>3 DEF Exists

LEMMA EntryUpdates ==
  ASSUME NEW e \in Entry, NEW m \in Mail
  PROVE  /\ \A d \in Triage : [e EXCEPT !.triage = d] \in Entry
         /\ [e EXCEPT !.batch = AuthorKey[m]] \in Entry
         /\ \A a \in Artifact \cup {NoText} : Recorded(e, a) \in Entry
  BY BacklogAssumption DEF Entry, Batch, Recorded, States

LEMMA ScanUpdates ==
  ASSUME NEW s \in Scan
  PROVE  /\ NoScan \in Scan
         /\ [NoScan EXCEPT !.step = "fetch", !.todo = Mail] \in Scan
         /\ \A m \in Mail, step \in {"write", "check"} :
              [s EXCEPT !.step = step, !.item = m] \in Scan
         /\ \A b \in BOOLEAN : [s EXCEPT !.step = "add", !.seen = b] \in Scan
         /\ \A m : [NoScan EXCEPT !.step = "fetch", !.todo = s.todo \ {m}] \in Scan
  BY BacklogAssumption DEF Scan, NoScan

LEMMA IngestUpdates ==
  ASSUME NEW p \in Ingestor, ingest[p] \in Ingest, NEW i \in Item
  PROVE  /\ NoIngest \in Ingest
         /\ Derived(p, i) \in Artifact \cup {NoText} =>
              At(p, i, "queue") \in Ingest /\ At(p, i, "record") \in Ingest
         /\ [ingest[p] EXCEPT !.step = "register"] \in Ingest
         /\ [ingest[p] EXCEPT !.step = "record"] \in Ingest
         /\ Past(p, i) \in Ingest
  BY DEF Ingest, NoIngest, At, Past

LEMMA TypeInit == Init => BacklogTypeOK
  <1> SUFFICES ASSUME Init PROVE BacklogTypeOK
    OBVIOUS
  <1>1. jobs \in [Job -> Row] /\ clock \in Nat
    BY DEF Init, Absent, Row
  <1>2. ledger \in [Mail -> Entry \cup {NoEntry}]
    BY DEF Init
  <1>3. NoScan \in Scan /\ NoIngest \in Ingest
    BY DEF NoScan, Scan, NoIngest, Ingest
  <1>4. scan \in [Scanner -> Scan] /\ ingest \in [Ingestor -> Ingest]
    BY <1>3 DEF Init
  <1>5. issued \in 0..MaxCommands /\ crashes \in 0..MaxCrashes
    BY BacklogAssumption DEF Init
  <1> QED
    BY <1>1, <1>2, <1>4, <1>5 DEF Init, BacklogTypeOK

(* What can be derived is an artifact, or nothing.                         *)
LEMMA DerivedIsText ==
  ASSUME BacklogTypeOK, NEW p \in Ingestor, NEW i \in Item
  PROVE  Derived(p, i) \in Artifact \cup {NoText}
  BY BacklogAssumption DEF BacklogTypeOK, Derived, Text

(* What a process has at hand is one of the items still to come, which are *)
(* rows of the ledger where the process records them, and not duplicates.  *)
ScanControl ==
  \A p \in Scanner : scan[p].step \in {"write", "check", "add"} =>
                         scan[p].item \in scan[p].todo

IngestControl ==
  \A p \in Ingestor :
    /\ ingest[p].step \in {"queue", "register", "record"} => ingest[p].item \in ingest[p].todo
    /\ ingest[p].step \in {"queue", "register"} => ingest[p].text # NoText
    /\ ingest[p].step = "record" => ingest[p].recorded
    /\ ingest[p].recorded => \A m \in ingest[p].todo : m \in Mail /\ Counted(m)

TypeInv == BacklogTypeOK /\ ScanControl /\ IngestControl

LEMMA TypeStep == TypeInv /\ [Next]_vars => BacklogTypeOK'
  <1> SUFFICES ASSUME TypeInv, [Next]_vars PROVE BacklogTypeOK'
    OBVIOUS
  <1> USE DEF BacklogTypeOK, TypeInv, files
  <1>g. Give => issued' \in 0..MaxCommands
    BY BacklogAssumption DEF Give
  <1>c. crashes < MaxCrashes /\ crashes' = crashes + 1 => crashes' \in 0..MaxCrashes
    BY BacklogAssumption
  <1>1. ASSUME NEW p \in Scanner, Scanning(p) PROVE BacklogTypeOK'
    <2>1. scan[p] \in Scan
      OBVIOUS
    <2>2. CASE ScanBegin(p)
      BY <1>g, <2>1, <2>2, ScanUpdates DEF ScanBegin, queue
    <2>3. CASE Archive(p)
      <3>1. PICK m \in scan[p].todo :
              \/ UNCHANGED files /\ scan' = Going(p, "check", m)
              \/ /\ archive' = archive \cup {m} /\ torn' = torn \cup {m}
                 /\ scan' = Going(p, "write", m)
        BY <2>3 DEF Archive
      <3>2. m \in Mail
        BY <2>1 DEF Scan
      <3>3. scan' \in [Scanner -> Scan]
        BY <2>1, <3>1, <3>2, ScanUpdates DEF Going
      <3>4. archive' \subseteq Mail /\ torn' \subseteq archive'
        BY <3>1, <3>2 DEF files
      <3> QED
        BY <2>3, <3>3, <3>4 DEF Archive, queue
    <2>8. CASE Write(p)
      <3>1. scan[p].item \in Mail
        BY <2>1, <2>8 DEF Write, ScanControl, Scan
      <3>2. scan' \in [Scanner -> Scan]
        BY <2>1, <2>8, <3>1, ScanUpdates DEF Write, Going
      <3> QED
        BY <2>8, <3>2 DEF Write, queue
    <2>4. CASE Check(p)
      <3>1. scan' = [scan EXCEPT ![p] = [scan[p] EXCEPT !.step = "add",
                                                        !.seen = message_id_seen(scan[p].item)]]
        BY <2>4 DEF Check
      <3>2. message_id_seen(scan[p].item) \in BOOLEAN
        BY DEF message_id_seen
      <3>3. [scan[p] EXCEPT !.step = "add", !.seen = message_id_seen(scan[p].item)] \in Scan
        BY <2>1, <3>2, ScanUpdates
      <3> QED
        BY <2>4, <3>1, <3>3 DEF Check, queue
    <2>5. CASE Add(p)
      <3>1. NewEntry(scan[p].seen) \in Entry
        BY DEF NewEntry, Entry, States
      <3>2. ledger' \in [Mail -> Entry \cup {NoEntry}]
        BY <2>5, <3>1 DEF Add
      <3>3. scan' \in [Scanner -> Scan]
        BY <2>1, <2>5, ScanUpdates DEF Add
      <3> QED
        BY <2>5, <3>2, <3>3 DEF Add, queue
    <2>6. CASE ScanEnd(p)
      BY <2>1, <2>6, ScanUpdates DEF ScanEnd, queue
    <2>7. CASE ScanDies(p)
      BY <1>c, <2>1, <2>7, ScanUpdates DEF ScanDies, queue
    <2> QED
      BY <1>1, <2>2, <2>3, <2>4, <2>5, <2>6, <2>7, <2>8 DEF Scanning
  <1>2. ASSUME NEW p \in Ingestor, Ingesting(p) PROVE BacklogTypeOK'
    <2>1. ingest[p] \in Ingest /\ ingest[p].item \in Item \cup {NoItem}
      BY DEF Ingest
    <2>2. ASSUME NEW b, NEW limit, NEW re \in BOOLEAN, RunBegin(p, b, limit, re)
          PROVE BacklogTypeOK'
      <3>1. PICK todo \in pending(b, limit) :
              ingest' = [ingest EXCEPT ![p] =
                [step |-> "derive", todo |-> todo, item |-> NoItem, text |-> NoText,
                 reprocess |-> re, recorded |-> TRUE]]
        BY <2>2 DEF RunBegin
      <3>2. todo \subseteq Item
        BY BacklogAssumption DEF pending, Archived
      <3>3. [step |-> "derive", todo |-> todo, item |-> NoItem, text |-> NoText,
             reprocess |-> re, recorded |-> TRUE] \in Ingest
        BY <3>2 DEF Ingest
      <3> QED
        BY <1>g, <2>2, <3>1, <3>3 DEF RunBegin, queue
    <2>3. ASSUME NEW items \in Direct, AddBegin(p, items) PROVE BacklogTypeOK'
      <3>1. [step |-> "derive", todo |-> items, item |-> NoItem, text |-> NoText,
             reprocess |-> FALSE, recorded |-> FALSE] \in Ingest
        BY BacklogAssumption DEF Ingest
      <3> QED
        BY <1>g, <2>3, <3>1 DEF AddBegin, queue
    <2>4. CASE Derive(p)
      <3>1. PICK i \in Item :
              \/ /\ Derived(p, i) # NoText
                 /\ stored' = stored \cup {Derived(p, i)}
                 /\ added' = IF ingest[p].recorded THEN added ELSE added \cup {Derived(p, i)}
                 /\ ingest' = [ingest EXCEPT ![p] = At(p, i, "queue")]
              \/ /\ ingest' = [ingest EXCEPT ![p] = IF ingest[p].recorded
                                                    THEN At(p, i, "record") ELSE Past(p, i)]
                 /\ UNCHANGED <<stored, added>>
        BY <2>4 DEF Derive
      <3>2. Derived(p, i) \in Artifact \cup {NoText}
        BY DerivedIsText
      <3>3. ingest' \in [Ingestor -> Ingest]
        BY <2>1, <3>1, <3>2, IngestUpdates
      <3>4. stored' \subseteq Artifact /\ added' \subseteq Artifact
        BY <3>1, <3>2
      <3> QED
        BY <2>4, <3>3, <3>4 DEF Derive, queue
    <2>5. ASSUME ~AtStep(p, "derive"), ~AtStep(p, "idle")
          PROVE  /\ ingest[p].item \in Item
                 /\ ingest[p].text \in Artifact \cup {NoText}
                 /\ ~AtStep(p, "record") => ingest[p].text \in Artifact
                 /\ AtStep(p, "record") => ingest[p].item \in Mail /\ InLedger(ingest[p].item)
      <3>1. ingest[p].step \in {"queue", "register", "record"}
        BY <2>1, <2>5 DEF Ingest, AtStep
      <3>2. ingest[p].item \in ingest[p].todo /\ ingest[p].todo \subseteq Item
        BY <2>1, <3>1 DEF Ingest, IngestControl
      <3>3. ingest[p].text \in Artifact \cup {NoText}
        BY <2>1 DEF Ingest
      <3> QED
        BY <3>1, <3>2, <3>3 DEF IngestControl, AtStep, Counted
    <2>6. CASE Queue(p)
      <3>1. FirstJob(ingest[p].text) \in Job
        BY <2>5, <2>6, FirstJobIsJob DEF Queue, AtStep
      <3>2. jobs' \in [Job -> Row] /\ clock' \in Nat
        BY <2>6, <3>1, InsertEffect DEF Queue
      <3>3. ingest' = [ingest EXCEPT ![p] = [ingest[p] EXCEPT !.step = "register"]]
        BY <2>6 DEF Queue
      <3>4. ingest' \in [Ingestor -> Ingest]
        BY <2>1, <2>5, <2>6, <3>3, IngestUpdates DEF Queue, AtStep
      <3> QED
        BY <2>6, <3>2, <3>4 DEF Queue
    <2>7. CASE Register(p)
      <3>1. artifacts' \subseteq Artifact
        BY <2>5, <2>7 DEF Register, AtStep
      <3>2. ingest' \in [Ingestor -> Ingest]
        BY <2>1, <2>5, <2>7, IngestUpdates DEF Register, AtStep
      <3> QED
        BY <2>7, <3>1, <3>2 DEF Register, queue
    <2>8. CASE Record(p)
      <3> DEFINE m == ingest[p].item
      <3>1. m \in Mail /\ ledger[m] \in Entry
        BY <2>5, <2>8 DEF Record, AtStep, InLedger
      <3>2. ledger' \in [Mail -> Entry \cup {NoEntry}]
        BY <2>5, <2>8, <3>1, EntryUpdates DEF Record, AtStep
      <3>3. ingest' \in [Ingestor -> Ingest]
        BY <2>1, <2>5, <2>8, IngestUpdates DEF Record, AtStep
      <3> QED
        BY <2>8, <3>2, <3>3 DEF Record, queue
    <2>9. CASE IngestDies(p)
      BY <1>c, <2>9 DEF IngestDies, queue, NoIngest, Ingest
    <2> QED
      BY <1>2, <2>2, <2>3, <2>4, <2>6, <2>7, <2>8, <2>9 DEF Ingesting
  <1>3. ASSUME Command PROVE BacklogTypeOK'
    <2>1. ASSUME NEW m \in Mail, NEW d \in Triage, set_triage(m, d) PROVE BacklogTypeOK'
      <3>1. ledger[m] \in Entry /\ [ledger[m] EXCEPT !.triage = d] \in Entry
        BY <2>1, EntryUpdates DEF set_triage, InLedger
      <3>2. ledger' \in [Mail -> Entry \cup {NoEntry}]
        BY <2>1, <3>1 DEF set_triage
      <3> QED
        BY <1>g, <2>1, <3>2 DEF set_triage, queue
    <2>2. ASSUME NEW all \in BOOLEAN, assign_batches(all) PROVE BacklogTypeOK'
      <3>1. ASSUME NEW m \in Mail, InLedger(m)
            PROVE  [ledger[m] EXCEPT !.batch = AuthorKey[m]] \in Entry
        BY <3>1, EntryUpdates DEF InLedger
      <3>2. ledger' \in [Mail -> Entry \cup {NoEntry}]
        BY <2>2, <3>1 DEF assign_batches
      <3> QED
        BY <1>g, <2>2, <3>2 DEF assign_batches, queue
    <2>3. ASSUME NEW b, NEW stages, requeue_failed(b, stages) PROVE BacklogTypeOK'
      <3>1. jobs' \in [Job -> Row]
        BY <2>3, RequeueEffect
      <3> QED
        BY <1>g, <2>3, <3>1 DEF requeue_failed
    <2> QED
      BY <1>3, <2>1, <2>2, <2>3 DEF Command
  <1>4. ASSUME NEW k \in Job, Work(k) PROVE BacklogTypeOK'
    <2>1. jobs' \in [Job -> Row] /\ clock' \in Nat
      BY <1>4, WorkEffect
    <2> QED
      BY <1>4, <2>1 DEF Work, backlogVars
  <1>5. CASE UNCHANGED vars
    BY <1>5 DEF vars, backlogVars
  <1> QED
    BY <1>1, <1>2, <1>3, <1>4, <1>5 DEF Next
-----------------------------------------------------------------------------
(* What a step does to a row: nothing; or a scan adds it; or a command sets*)
(* its triage or batch; or an ingestion records it.                        *)
RowAdded(m) ==
  \E p \in Scanner : /\ Add(p) /\ m = scan[p].item /\ ~InLedger(m)
                    /\ ledger'[m] = NewEntry(scan[p].seen)

RowSorted(m) ==
  /\ InLedger(m) /\ ledger'[m] # NoEntry
  /\ ledger'[m].state = ledger[m].state /\ ledger'[m].artifact = ledger[m].artifact

RowRecorded(m) ==
  \E p \in Ingestor : /\ Record(p) /\ m = ingest[p].item /\ InLedger(m)
                     /\ ledger'[m] = Recorded(ledger[m], ingest[p].text)

LEMMA LedgerEffect ==
  ASSUME TypeInv, [Next]_vars, NEW m \in Mail
  PROVE  ledger'[m] = ledger[m] \/ RowAdded(m) \/ RowSorted(m) \/ RowRecorded(m)
  <1> USE DEF TypeInv, BacklogTypeOK
  <1>1. ASSUME NEW p \in Scanner, Scanning(p)
        PROVE  ledger'[m] = ledger[m] \/ RowAdded(m)
    <2>1. CASE Add(p)
      BY <2>1 DEF Add, RowAdded
    <2> QED
      BY <1>1, <2>1 DEF Scanning, ScanBegin, Archive, Write, Check, ScanEnd, ScanDies
  <1>2. ASSUME NEW p \in Ingestor, Ingesting(p)
        PROVE  ledger'[m] = ledger[m] \/ RowRecorded(m)
    <2>1. CASE Record(p)
      <3>1. CASE m = ingest[p].item
        <4>1. InLedger(m)
          BY <2>1, <3>1 DEF Record, AtStep, IngestControl, Counted
        <4>2. ledger'[m] = Recorded(ledger[m], ingest[p].text)
          BY <2>1, <3>1 DEF Record
        <4> QED
          BY <2>1, <3>1, <4>1, <4>2 DEF RowRecorded
      <3>2. CASE m # ingest[p].item
        BY <2>1, <3>2 DEF Record
      <3> QED
        BY <3>1, <3>2
    <2> QED
      BY <1>2, <2>1 DEF Ingesting, RunBegin, AddBegin, Derive, Queue, Register, IngestDies
  <1>3. ASSUME Command PROVE ledger'[m] = ledger[m] \/ RowSorted(m)
    <2>1. ASSUME NEW n \in Mail, NEW d \in Triage, set_triage(n, d)
          PROVE  ledger'[m] = ledger[m] \/ RowSorted(m)
      <3>1. ASSUME m = n PROVE RowSorted(m)
        <4>1. ledger[m] \in Entry /\ ledger'[m] = [ledger[m] EXCEPT !.triage = d]
          BY <2>1, <3>1 DEF set_triage, InLedger
        <4>2. ledger'[m] \in Entry
          BY <4>1, EntryUpdates
        <4>3. ledger'[m] # NoEntry
          BY <4>2, EntryAssumption
        <4>4. ledger'[m].state = ledger[m].state /\ ledger'[m].artifact = ledger[m].artifact
          BY <4>1 DEF Entry
        <4> QED
          BY <2>1, <3>1, <4>3, <4>4 DEF RowSorted, set_triage
      <3> QED
        BY <2>1, <3>1 DEF set_triage
    <2>2. ASSUME NEW all, assign_batches(all)
          PROVE  ledger'[m] = ledger[m] \/ RowSorted(m)
      <3>1. ASSUME ledger'[m] # ledger[m] PROVE RowSorted(m)
        <4>1. /\ InLedger(m) /\ ledger[m] \in Entry
              /\ ledger'[m] = [ledger[m] EXCEPT !.batch = AuthorKey[m]]
          BY <2>2, <3>1 DEF assign_batches, InLedger
        <4>2. ledger'[m] # NoEntry
          BY <4>1, EntryUpdates, EntryAssumption
        <4>3. ledger'[m].state = ledger[m].state /\ ledger'[m].artifact = ledger[m].artifact
          BY <4>1 DEF Entry
        <4> QED
          BY <4>1, <4>2, <4>3 DEF RowSorted
      <3> QED
        BY <3>1
    <2> QED
      BY <1>3, <2>1, <2>2 DEF Command, requeue_failed
  <1>4. ASSUME NEW k \in Job, Work(k) PROVE ledger'[m] = ledger[m]
    BY <1>4 DEF Work, backlogVars
  <1>5. CASE UNCHANGED vars
    BY <1>5 DEF vars, backlogVars
  <1> QED
    BY <1>1, <1>2, <1>3, <1>4, <1>5 DEF Next

(* No row is lost, and no counted row becomes a duplicate.                 *)
LEMMA RowsStay ==
  ASSUME TypeInv, [Next]_vars, NEW m \in Mail
  PROVE  /\ InLedger(m) => InLedger(m)'
         /\ Counted(m) => Counted(m)'
  <1>1. CASE RowRecorded(m)
    <2>1. PICK a \in Artifact \cup {NoText} :
            ledger[m] \in Entry /\ ledger'[m] = Recorded(ledger[m], a)
      BY <1>1 DEF RowRecorded, InLedger, TypeInv, BacklogTypeOK, Ingest
    <2>2. ledger'[m] \in Entry
      BY <2>1, EntryUpdates
    <2>3. ledger'[m].state # "duplicate"
      BY <2>1 DEF Recorded, Entry
    <2> QED
      BY <2>2, <2>3, EntryAssumption DEF InLedger, Counted
  <1>2. CASE RowAdded(m)
    BY <1>2 DEF RowAdded, InLedger, Counted
  <1>3. CASE RowSorted(m)
    BY <1>3 DEF RowSorted, InLedger, Counted
  <1>4. CASE ledger'[m] = ledger[m]
    BY <1>4 DEF InLedger, Counted
  <1> QED
    BY <1>1, <1>2, <1>3, <1>4, LedgerEffect

(* Nothing is taken out of the archive, the stores or the queue.           *)
LEMMA StoresGrow ==
  ASSUME TypeInv, [Next]_vars
  PROVE  /\ archive \subseteq archive' /\ stored \subseteq stored'
         /\ artifacts \subseteq artifacts' /\ added \subseteq added'
         /\ \A k \in Job : Exists(k) => Exists(k)'
  <1> USE DEF TypeInv, BacklogTypeOK, files
  <1> DEFINE Grow == /\ archive \subseteq archive' /\ stored \subseteq stored'
                     /\ artifacts \subseteq artifacts' /\ added \subseteq added'
             Stay == \A k \in Job : Exists(k) => Exists(k)'
  <1>1. ASSUME NEW p \in Scanner, Scanning(p) PROVE Grow /\ Stay
    BY <1>1 DEF Scanning, ScanBegin, Archive, Write, Check, Add, ScanEnd, ScanDies, files, queue,
      Exists
  <1>2. ASSUME NEW p \in Ingestor, Ingesting(p) PROVE Grow /\ Stay
    <2>1. CASE Queue(p)
      <3>1. ingest[p].text \in Artifact
        BY <2>1 DEF Queue, AtStep, IngestControl, Ingest
      <3>2. Stay
        BY <2>1, <3>1, FirstJobIsJob, InsertEffect DEF Queue, Exists
      <3> QED
        BY <2>1, <3>2 DEF Queue
    <2>2. CASE Derive(p)
      BY <2>2 DEF Derive, queue, Exists
    <2> QED
      BY <1>2, <2>1, <2>2
      DEF Ingesting, RunBegin, AddBegin, Register, Record, IngestDies, queue, Exists
  <1>3. ASSUME Command PROVE Grow /\ Stay
    <2>1. ASSUME NEW b, NEW stages, requeue_failed(b, stages) PROVE Grow /\ Stay
      BY <2>1, RequeueEffect DEF requeue_failed
    <2> QED
      BY <1>3, <2>1 DEF Command, set_triage, assign_batches, queue, Exists
  <1>4. ASSUME NEW k \in Job, Work(k) PROVE Grow /\ Stay
    <2>1. Stay
      BY <1>4, WorkEffect
    <2> QED
      BY <1>4, <2>1 DEF Work, backlogVars
  <1>5. CASE UNCHANGED vars
    BY <1>5 DEF vars, backlogVars, Exists
  <1> QED
    BY <1>1, <1>2, <1>3, <1>4, <1>5 DEF Next
-----------------------------------------------------------------------------
LEMMA ScanControlStep == TypeInv /\ [Next]_vars => ScanControl'
  <1> SUFFICES ASSUME TypeInv, [Next]_vars, NEW q \in Scanner,
                      scan'[q].step \in {"write", "check", "add"}
               PROVE  scan'[q].item \in scan'[q].todo
    BY DEF ScanControl
  <1> USE DEF TypeInv, BacklogTypeOK
  <1>1. ASSUME NEW p \in Scanner, Scanning(p), scan'[q] # scan[q]
        PROVE  scan'[q].item \in scan'[q].todo
    <2>1. p = q /\ scan[p] \in Scan
      BY <1>1 DEF Scanning, ScanBegin, Archive, Write, Going, Check, Add, ScanEnd, ScanDies
    <2>2. CASE Archive(p) \/ Write(p)
      <3>1. PICK m \in scan[p].todo, step \in {"write", "check"} : scan' = Going(p, step, m)
        BY <2>2 DEF Archive, Write, ScanControl
      <3>2. scan'[q] = [scan[p] EXCEPT !.step = step, !.item = m]
        BY <2>1, <3>1 DEF Going
      <3> QED
        BY <2>1, <3>2 DEF Scan
    <2>3. CASE Check(p)
      <3>1. scan'[q] = [scan[p] EXCEPT !.step = "add", !.seen = message_id_seen(scan[p].item)]
        BY <2>1, <2>3 DEF Check
      <3>2. scan[p].item \in scan[p].todo
        BY <2>3 DEF Check, ScanControl
      <3> QED
        BY <2>1, <3>1, <3>2 DEF Scan
    <2>4. CASE ScanBegin(p) \/ Add(p) \/ ScanEnd(p) \/ ScanDies(p)
      <3>1. NoScan.step = "idle"
            /\ \A T : [NoScan EXCEPT !.step = "fetch", !.todo = T].step = "fetch"
        BY DEF NoScan
      <3>2. \/ scan'[q] = NoScan
            \/ \E T : scan'[q] = [NoScan EXCEPT !.step = "fetch", !.todo = T]
        BY <2>1, <2>4 DEF ScanBegin, Add, ScanEnd, ScanDies
      <3> QED
        BY <3>1, <3>2
    <2> QED
      BY <1>1, <2>2, <2>3, <2>4 DEF Scanning
  <1>2. CASE scan'[q] = scan[q]
    BY <1>2 DEF ScanControl
  <1>3. CASE UNCHANGED scan
    BY <1>2, <1>3
  <1>4. ASSUME NEW p \in Ingestor, Ingesting(p) PROVE UNCHANGED scan
    BY <1>4 DEF Ingesting, RunBegin, AddBegin, Derive, Queue, Register, Record, IngestDies
  <1>5. ASSUME Command PROVE UNCHANGED scan
    BY <1>5 DEF Command, set_triage, assign_batches, requeue_failed
  <1> QED
    BY <1>1, <1>2, <1>3, <1>4, <1>5 DEF Next, Work, vars, backlogVars

LEMMA IngestControlStep == TypeInv /\ [Next]_vars => IngestControl'
  <1> SUFFICES ASSUME TypeInv, [Next]_vars PROVE IngestControl'
    OBVIOUS
  <1> USE DEF TypeInv, BacklogTypeOK
  <1> DEFINE Good(r) ==
        /\ r.step \in {"queue", "register", "record"} => r.item \in r.todo
        /\ r.step \in {"queue", "register"} => r.text # NoText
        /\ r.step = "record" => r.recorded
        /\ r.recorded => \A m \in r.todo : m \in Mail /\ Counted(m)'
  <1>1. ASSUME NEW q \in Ingestor PROVE Good(ingest[q])
    BY RowsStay DEF IngestControl
  <1>2. Good(NoIngest)
    BY DEF NoIngest
  <1>3. ASSUME NEW q \in Ingestor, NEW i \in Item PROVE Good(Past(q, i))
    BY <1>1, <1>2 DEF Past, Ingest
  <1>4. SUFFICES ASSUME NEW q \in Ingestor, ingest'[q] # ingest[q] PROVE Good(ingest'[q])
    BY <1>1 DEF IngestControl
  <1>5. ASSUME NEW p \in Ingestor, Ingesting(p) PROVE Good(ingest'[q])
    <2>1. p = q /\ ingest[q] \in Ingest
      BY <1>4, <1>5
      DEF Ingesting, RunBegin, AddBegin, Derive, Queue, Register, Record, IngestDies
    <2>2. ASSUME NEW b, NEW limit, NEW re, RunBegin(p, b, limit, re) PROVE Good(ingest'[q])
      <3>1. PICK todo \in pending(b, limit) :
              ingest' = [ingest EXCEPT ![p] =
                [step |-> "derive", todo |-> todo, item |-> NoItem, text |-> NoText,
                 reprocess |-> re, recorded |-> TRUE]]
        BY <2>2 DEF RunBegin
      <3>2. \A m \in todo : m \in Mail /\ Counted(m)'
        <4>1. \A m \in todo : m \in Mail /\ Counted(m)
          BY DEF pending, Archived, Counted
        <4> QED
          BY <4>1, RowsStay
      <3> QED
        BY <2>1, <3>1, <3>2
    <2>3. ASSUME NEW items, AddBegin(p, items) PROVE Good(ingest'[q])
      BY <2>1, <2>3 DEF AddBegin
    <2>4. CASE Derive(p)
      <3>1. PICK i \in Item :
              /\ i \in ingest[q].todo
              /\ \/ /\ Derived(q, i) # NoText
                    /\ ingest'[q] = At(q, i, "queue")
                 \/ ingest'[q] = IF ingest[q].recorded THEN At(q, i, "record") ELSE Past(q, i)
        BY <2>1, <2>4 DEF Derive, Turn
      <3>2. CASE ingest'[q] = Past(q, i)
        BY <1>3, <3>2
      <3>3. CASE ingest'[q] = At(q, i, "queue") /\ Derived(q, i) # NoText
        BY <1>1, <2>1, <3>1, <3>3 DEF At, Ingest
      <3>4. CASE ingest'[q] = At(q, i, "record") /\ ingest[q].recorded
        BY <1>1, <2>1, <3>1, <3>4 DEF At, Ingest
      <3> QED
        BY <3>1, <3>2, <3>3, <3>4
    <2>5. CASE Queue(p)
      <3>1. ingest'[q] = [ingest[q] EXCEPT !.step = "register"]
        BY <2>1, <2>5 DEF Queue
      <3> QED
        BY <1>1, <2>1, <2>5, <3>1 DEF Queue, AtStep, Ingest
    <2>6. CASE Register(p) \/ Record(p)
      <3>1. /\ ingest[q].step \in {"register", "record"}
            /\ \/ ingest'[q] = [ingest[q] EXCEPT !.step = "record"] /\ ingest[q].recorded
               \/ ingest'[q] = Past(q, ingest[q].item)
        BY <2>1, <2>6 DEF Register, Record, AtStep
      <3>2. ingest[q].item \in ingest[q].todo
        BY <3>1 DEF IngestControl
      <3> QED
        BY <1>1, <1>3, <2>1, <3>1, <3>2 DEF Ingest
    <2>7. CASE IngestDies(p)
      BY <1>2, <2>1, <2>7 DEF IngestDies
    <2> QED
      BY <1>5, <2>2, <2>3, <2>4, <2>5, <2>6, <2>7 DEF Ingesting
  <1>6. ASSUME NEW p \in Scanner, Scanning(p) PROVE UNCHANGED ingest
    BY <1>6 DEF Scanning, ScanBegin, Archive, Write, Going, Check, Add, ScanEnd, ScanDies
  <1>7. ASSUME Command PROVE UNCHANGED ingest
    BY <1>7 DEF Command, set_triage, assign_batches, requeue_failed
  <1> QED
    BY <1>4, <1>5, <1>6, <1>7 DEF Next, Work, vars, backlogVars

LEMMA TypeInvariant == Spec => []TypeInv
  <1>1. Init => TypeInv
    BY TypeInit DEF Init, TypeInv, ScanControl, IngestControl, NoScan, NoIngest
  <1>2. TypeInv /\ [Next]_vars => TypeInv'
    BY TypeStep, ScanControlStep, IngestControlStep DEF TypeInv
  <1> QED
    BY <1>1, <1>2, PTL DEF Spec

(* Whatever is ingested, and wherever commands are broken off, the ledger, *)
(* the queue, the stores and the processes stay well formed.               *)
THEOREM BacklogTyped == Spec => []BacklogTypeOK
  BY TypeInvariant, PTL DEF TypeInv
-----------------------------------------------------------------------------
(* What is in the ledger, or counts, after a step did so before, or has    *)
(* been added by it.                                                       *)
LEMMA RowsBack ==
  ASSUME TypeInv, [Next]_vars, NEW m \in Mail
  PROVE  /\ InLedger(m)' => InLedger(m) \/ RowAdded(m)
         /\ Counted(m)' => Counted(m) \/ RowAdded(m)
  <1>1. CASE RowRecorded(m)
    <2>1. PICK p \in Ingestor : Record(p) /\ m = ingest[p].item
      BY <1>1 DEF RowRecorded
    <2>2. Counted(m)
      BY <2>1 DEF Record, AtStep, TypeInv, IngestControl
    <2> QED
      BY <2>2 DEF Counted
  <1>2. CASE RowSorted(m)
    BY <1>2 DEF RowSorted, InLedger, Counted
  <1>3. CASE ledger'[m] = ledger[m]
    BY <1>3 DEF InLedger, Counted
  <1> QED
    BY <1>1, <1>2, <1>3, LedgerEffect

(* What a scan has passed is in the ledger, and what it has at hand is in  *)
(* the archive.                                                            *)
ScanProgress ==
  \A p \in Scanner :
    /\ scan[p].step # "idle" => \A m \in Mail \ scan[p].todo : InLedger(m)
    /\ scan[p].step \in {"write", "check", "add"} => scan[p].item \in archive

(* A file that holds a part of its bytes is being written, before the row  *)
(* of the message is added, or something died.                             *)
WriteInv ==
  /\ \A p \in Scanner : scan[p].step = "write" => ~InLedger(scan[p].item)
  /\ \A m \in torn : \/ crashes > 0
                     \/ \E p \in Scanner : scan[p].step = "write" /\ scan[p].item = m

ScanInv == TypeInv /\ ScanIsComplete /\ ScanProgress /\ WriteInv

(* One scan runs at a time.                                                *)
OneScanner == \A p, q \in Scanner : p = q

LEMMA ScanProgressStep == ScanInv /\ [Next]_vars => ScanProgress'
  <1> SUFFICES ASSUME ScanInv, [Next]_vars, NEW q \in Scanner
               PROVE  /\ scan'[q].step # "idle" =>
                           \A m \in Mail \ scan'[q].todo : InLedger(m)'
                      /\ scan'[q].step \in {"write", "check", "add"} => scan'[q].item \in archive'
    BY DEF ScanProgress
  <1> USE DEF ScanInv, TypeInv, BacklogTypeOK
  <1> DEFINE Good(s) ==
        /\ s.step # "idle" => \A m \in Mail \ s.todo : InLedger(m)'
        /\ s.step \in {"write", "check", "add"} => s.item \in archive'
  <1>1. Good(scan[q])
    BY RowsStay, StoresGrow DEF ScanProgress
  <1>2. Good(NoScan)
    BY DEF NoScan
  <1>3. ASSUME NEW p \in Scanner, Scanning(p), scan'[q] # scan[q] PROVE Good(scan'[q])
    <2>1. p = q /\ scan[q] \in Scan
      BY <1>3 DEF Scanning, ScanBegin, Archive, Write, Going, Check, Add, ScanEnd, ScanDies
    <2>2. CASE ScanBegin(p)
      BY <2>1, <2>2 DEF ScanBegin, NoScan
    <2>3. CASE Archive(p) \/ Write(p)
      <3>1. PICK m \in archive', step \in {"write", "check"} : scan' = Going(p, step, m)
        BY <2>3, StoresGrow DEF Archive, Write, files, ScanProgress
      <3>2. scan'[q] = [scan[q] EXCEPT !.step = step, !.item = m]
        BY <2>1, <3>1 DEF Going
      <3> QED
        BY <1>1, <2>1, <2>3, <3>1, <3>2 DEF Archive, Write, Scan
    <2>4. CASE Check(p)
      <3>1. scan'[q] = [scan[q] EXCEPT !.step = "add", !.seen = message_id_seen(scan[q].item)]
        BY <2>1, <2>4 DEF Check
      <3> QED
        BY <1>1, <2>1, <2>4, <3>1 DEF Check, Scan
    <2>5. CASE Add(p)
      <3>1. scan[q].item \in Mail
        BY <2>1, <2>5 DEF Add, ScanControl, Scan
      <3>2. ledger'[scan[q].item] # NoEntry
        <4>1. NewEntry(scan[q].seen) \in Entry
          BY DEF NewEntry, Entry, States
        <4> QED
          BY <2>1, <2>5, <3>1, <4>1, EntryAssumption DEF Add, InLedger
      <3>3. scan'[q] = [NoScan EXCEPT !.step = "fetch", !.todo = scan[q].todo \ {scan[q].item}]
        BY <2>1, <2>5 DEF Add
      <3>4. scan'[q].step = "fetch" /\ scan'[q].todo = scan[q].todo \ {scan[q].item}
        BY <3>3 DEF NoScan
      <3>5. \A m \in Mail \ scan[q].todo : InLedger(m)'
        BY <1>1, <2>1, <2>5 DEF Add
      <3> QED
        BY <3>2, <3>4, <3>5 DEF InLedger
    <2>6. CASE ScanEnd(p) \/ ScanDies(p)
      BY <1>2, <2>1, <2>6 DEF ScanEnd, ScanDies
    <2> QED
      BY <1>3, <2>2, <2>3, <2>4, <2>5, <2>6 DEF Scanning
  <1>4. CASE scan'[q] = scan[q]
    BY <1>1, <1>4
  <1>5. ASSUME NEW p \in Ingestor, Ingesting(p) PROVE UNCHANGED scan
    BY <1>5 DEF Ingesting, RunBegin, AddBegin, Derive, Queue, Register, Record, IngestDies
  <1>6. ASSUME Command PROVE UNCHANGED scan
    BY <1>6 DEF Command, set_triage, assign_batches, requeue_failed
  <1>7. ASSUME \A p \in Scanner : ~Scanning(p) PROVE scan'[q] = scan[q]
    BY <1>5, <1>6, <1>7 DEF Next, Work, vars, backlogVars
  <1> QED
    BY <1>3, <1>4, <1>7

LEMMA WriteStep ==
  ASSUME OneScanner, ScanInv, [Next]_vars
  PROVE  WriteInv'
  <1> USE DEF ScanInv, TypeInv, BacklogTypeOK
  <1>c. crashes' = crashes \/ crashes' = crashes + 1
    BY DEF Next, Scanning, ScanBegin, Archive, Write, Check, Add, ScanEnd, ScanDies, Ingesting,
      RunBegin, AddBegin, Derive, Queue, Register, Record, IngestDies, Command, set_triage,
      assign_batches, requeue_failed, Work, vars, backlogVars
  <1>1. crashes' \in Nat /\ crashes' >= crashes
    BY <1>c, BacklogAssumption
  <1> DEFINE Unwritten == \A p \in Scanner :
                            scan'[p].step = "write" => ledger'[scan'[p].item] = NoEntry
             Explained == \A m \in torn' :
                            \/ crashes' > 0
                            \/ \E p \in Scanner : scan'[p].step = "write" /\ scan'[p].item = m
  <1>2. ASSUME NEW q \in Scanner, Scanning(q) PROVE Unwritten /\ Explained
    <2>1. scan[q] \in Scan /\ \A p \in Scanner : p = q
      BY DEF OneScanner
    <2>2. CASE Archive(q)
      <3>1. PICK m \in scan[q].todo :
              \/ UNCHANGED files /\ scan' = Going(q, "check", m)
              \/ /\ m \notin archive /\ torn' = torn \cup {m}
                 /\ scan' = Going(q, "write", m)
        BY <2>2 DEF Archive
      <3>2. UNCHANGED ledger /\ m \in Mail /\ scan[q].step = "fetch"
        BY <2>1, <2>2, <3>1 DEF Archive, Scan
      <3>3. CASE UNCHANGED files /\ scan' = Going(q, "check", m)
        <4>1. scan'[q].step = "check"
          BY <2>1, <3>3 DEF Going, Scan
        <4> QED
          BY <1>1, <2>1, <3>2, <3>3, <4>1 DEF WriteInv, files
      <3>4. CASE m \notin archive /\ torn' = torn \cup {m} /\ scan' = Going(q, "write", m)
        <4>1. scan'[q].step = "write" /\ scan'[q].item = m
          BY <2>1, <3>4 DEF Going, Scan
        <4> QED
          BY <1>1, <2>1, <3>2, <3>4, <4>1 DEF WriteInv, ScanIsComplete, InLedger
      <3> QED
        BY <3>1, <3>3, <3>4
    <2>3. CASE Write(q)
      <3>1. scan'[q].step = "check"
        BY <2>1, <2>3 DEF Write, Going, Scan
      <3> QED
        BY <1>1, <2>1, <2>3, <3>1 DEF Write, WriteInv
    <2>4. CASE ScanDies(q)
      <3>1. scan'[q].step = "idle" /\ crashes' > 0
        BY <1>1, <2>4 DEF ScanDies, NoScan
      <3> QED
        BY <2>1, <3>1
    <2>5. CASE ScanBegin(q) \/ Check(q) \/ Add(q) \/ ScanEnd(q)
      <3>1. UNCHANGED torn /\ scan[q].step # "write"
        BY <2>5 DEF ScanBegin, Check, Add, ScanEnd, files
      <3>2. scan'[q].step # "write"
        <4>1. CASE ScanBegin(q) \/ Add(q)
          <5>1. PICK T : scan'[q] = [NoScan EXCEPT !.step = "fetch", !.todo = T]
            BY <4>1 DEF ScanBegin, Add
          <5> QED
            BY <5>1 DEF NoScan
        <4>2. CASE Check(q)
          <5>1. scan'[q] = [scan[q] EXCEPT !.step = "add", !.seen = message_id_seen(scan[q].item)]
            BY <4>2 DEF Check
          <5> QED
            BY <2>1, <5>1 DEF Scan
        <4>3. CASE ScanEnd(q)
          BY <4>3 DEF ScanEnd, NoScan
        <4> QED
          BY <2>5, <4>1, <4>2, <4>3
      <3> QED
        BY <1>1, <2>1, <3>1, <3>2 DEF WriteInv
    <2> QED
      BY <1>2, <2>2, <2>3, <2>4, <2>5 DEF Scanning
  <1>3. ASSUME \A p \in Scanner : ~Scanning(p) PROVE Unwritten /\ Explained
    <2>1. UNCHANGED <<scan, torn>>
      BY <1>3 DEF Next, Ingesting, RunBegin, AddBegin, Derive, Queue, Register, Record,
        IngestDies, Command, set_triage, assign_batches, requeue_failed, Work, vars,
        backlogVars, files
    <2>2. \A m \in Mail : ~InLedger(m) => ledger'[m] = NoEntry
      BY <1>3, RowsBack DEF RowAdded, Scanning, InLedger
    <2>3. \A p \in Scanner : scan[p].step = "write" => scan[p].item \in Mail
      BY DEF ScanControl, Scan
    <2> QED
      BY <1>1, <2>1, <2>2, <2>3 DEF WriteInv
  <1> QED
    BY <1>2, <1>3 DEF WriteInv, InLedger

LEMMA ScanIsCompleteStep ==
  ASSUME OneScanner, ScanInv, [Next]_vars
  PROVE  ScanIsComplete'
  <1> USE DEF ScanInv
  <1>1. ASSUME NEW m \in Mail, InLedger(m)' PROVE m \in archive' /\ (m \in torn' => crashes' > 0)
    <2>1. CASE RowAdded(m)
      <3>1. PICK p \in Scanner : Add(p) /\ m = scan[p].item
        BY <2>1 DEF RowAdded
      <3>2. m \in archive /\ (m \in torn => crashes > 0)
        BY <3>1 DEF Add, ScanProgress, WriteInv, OneScanner
      <3> QED
        BY <3>1, <3>2 DEF Add, files
    <2>2. CASE InLedger(m)
      <3>1. m \in archive'
        BY <2>2, StoresGrow DEF ScanIsComplete
      <3>2. CASE m \in torn'
        <4>1. \/ crashes' > 0
              \/ \E p \in Scanner : scan'[p].step = "write" /\ scan'[p].item = m
          BY <3>2, WriteStep DEF WriteInv
        <4>2. \A p \in Scanner : scan'[p].step = "write" => ledger'[scan'[p].item] = NoEntry
          BY WriteStep DEF WriteInv, InLedger
        <4> QED
          BY <1>1, <3>1, <4>1, <4>2 DEF InLedger
      <3> QED
        BY <3>1, <3>2
    <2> QED
      BY <1>1, <2>1, <2>2, RowsBack
  <1>2. ASSUME scanned', NEW m \in Mail PROVE InLedger(m)'
    <2>1. scanned \/ \E p \in Scanner : ScanEnd(p)
      BY <1>2 DEF Next, Scanning, ScanBegin, Archive, Write, Check, Add, ScanDies, Ingesting,
        RunBegin, AddBegin, Derive, Queue, Register, Record, IngestDies, Command, set_triage,
        assign_batches, requeue_failed, Work, vars, backlogVars
    <2>2. InLedger(m)
      BY <2>1 DEF ScanEnd, ScanIsComplete, ScanProgress
    <2> QED
      BY <2>2, RowsStay
  <1> QED
    BY <1>1, <1>2 DEF ScanIsComplete

LEMMA ScanInvariant ==
  ASSUME OneScanner
  PROVE  Spec => []ScanInv
  <1>1. Init => ScanProgress /\ ScanIsComplete /\ WriteInv
    BY DEF Init, ScanProgress, ScanIsComplete, WriteInv, NoScan, InLedger
  <1>2. TypeInv /\ ScanIsComplete /\ ScanProgress /\ WriteInv /\ [Next]_vars
          => ScanIsComplete' /\ ScanProgress' /\ WriteInv'
    BY ScanProgressStep, ScanIsCompleteStep, WriteStep DEF ScanInv
  <1> QED
    BY <1>1, <1>2, TypeInvariant, PTL DEF Spec, ScanInv

(* While one scan runs at a time: a scan that comes to its end has put the *)
(* whole mailbox into the ledger, wherever others were broken off, and     *)
(* every row's file is there, whole if no command ever died.               *)
THEOREM ScansComplete ==
  ASSUME OneScanner
  PROVE  Spec => []ScanIsComplete
  BY ScanInvariant, PTL DEF ScanInv
-----------------------------------------------------------------------------
(* While one scan runs at a time, what it saw of a Message-ID is still so  *)
(* when it adds the row.                                                   *)
SeenIsTrue ==
  \A p \in Scanner : scan[p].step = "add" => scan[p].seen = message_id_seen(scan[p].item)

EditionInv == TypeInv /\ SeenIsTrue /\ EditionCountedOnce

LEMMA SeenIsTrueStep ==
  ASSUME OneScanner, EditionInv, [Next]_vars
  PROVE  SeenIsTrue'
  <1> SUFFICES ASSUME NEW q \in Scanner, scan'[q].step = "add"
               PROVE  scan'[q].seen = message_id_seen(scan[q].item)'
    BY DEF SeenIsTrue
  <1> USE DEF EditionInv, TypeInv, BacklogTypeOK
  <1>1. ASSUME ~Add(q) PROVE \A m \in Mail : InLedger(m) <=> InLedger(m)'
    <2>1. \A m \in Mail : ~RowAdded(m)
      BY <1>1 DEF OneScanner, RowAdded
    <2> QED
      BY <2>1, RowsStay, RowsBack
  <1>2. CASE Check(q)
    <2>1. scan'[q] = [scan[q] EXCEPT !.step = "add", !.seen = message_id_seen(scan[q].item)]
      BY <1>2 DEF Check
    <2>2. scan'[q].item = scan[q].item /\ scan'[q].seen = message_id_seen(scan[q].item)
      BY <2>1 DEF Scan
    <2>3. UNCHANGED ledger
      BY <1>2 DEF Check
    <2> QED
      BY <2>2, <2>3 DEF message_id_seen, InLedger
  <1>3. ASSUME scan'[q] = scan[q]
        PROVE  scan'[q].seen = message_id_seen(scan[q].item)'
    <2>1. ~Add(q)
      <3>1. Add(q) => scan'[q] = [NoScan EXCEPT !.step = "fetch",
                                                !.todo = scan[q].todo \ {scan[q].item}]
        BY DEF Add
      <3>2. [NoScan EXCEPT !.step = "fetch", !.todo = scan[q].todo \ {scan[q].item}].step
              = "fetch"
        BY DEF NoScan
      <3> QED
        BY <3>1, <3>2
    <2>2. message_id_seen(scan[q].item) <=> message_id_seen(scan[q].item)'
      BY <1>1, <1>3, <2>1 DEF message_id_seen
    <2>3. scan[q].seen = message_id_seen(scan[q].item)
      BY <1>3 DEF SeenIsTrue
    <2>4. scan[q].seen \in BOOLEAN
      BY DEF Scan
    <2> QED
      BY <1>3, <2>2, <2>3, <2>4 DEF message_id_seen
  <1>4. ASSUME NEW p \in Scanner, Scanning(p) PROVE Check(q) \/ scan'[q] = scan[q]
    <2>1. p = q
      BY DEF OneScanner
    <2>2. CASE ScanBegin(q) \/ Add(q)
      <3>1. PICK T : scan'[q] = [NoScan EXCEPT !.step = "fetch", !.todo = T]
        BY <2>2 DEF ScanBegin, Add
      <3> QED
        BY <3>1 DEF NoScan
    <2>3. CASE Archive(q) \/ Write(q)
      <3>1. PICK m \in Mail, step \in {"write", "check"} : scan' = Going(q, step, m)
        BY <2>3 DEF Archive, Write, ScanControl, Scan
      <3>2. scan'[q] = [scan[q] EXCEPT !.step = step, !.item = m]
        BY <3>1 DEF Going
      <3> QED
        BY <3>2 DEF Scan
    <2>4. CASE ScanEnd(q) \/ ScanDies(q)
      BY <2>4 DEF ScanEnd, ScanDies, NoScan
    <2> QED
      BY <1>4, <2>1, <2>2, <2>3, <2>4 DEF Scanning
  <1>5. ASSUME \A p \in Scanner : ~Scanning(p) PROVE scan'[q] = scan[q]
    BY <1>5 DEF Next, Ingesting, RunBegin, AddBegin, Derive, Queue, Register, Record,
      IngestDies, Command, set_triage, assign_batches, requeue_failed, Work, vars, backlogVars
  <1> QED
    BY <1>2, <1>3, <1>4, <1>5

LEMMA EditionStep ==
  ASSUME OneScanner, EditionInv, [Next]_vars
  PROVE  EditionCountedOnce'
  <1> USE DEF EditionInv
  <1> DEFINE Alone(n) == \A o \in Mail : Counted(o)' /\ MessageId[o] = MessageId[n] => o = n
  <1>1. SUFFICES ASSUME NEW m \in Mail, InLedger(m)'
                 PROVE  IF MessageId[m] = NoId THEN Counted(m)'
                        ELSE \E n \in Mail : /\ Counted(n)' /\ MessageId[n] = MessageId[m]
                                             /\ Alone(n)
    BY DEF EditionCountedOnce
  <1>2. ASSUME NEW n \in Mail, RowAdded(n)
        PROVE  /\ Counted(n)' <=> ~message_id_seen(n)
               /\ ~InLedger(n)
               /\ \A o \in Mail : RowAdded(o) => o = n
    <2>1. PICK p \in Scanner : /\ Add(p) /\ n = scan[p].item /\ ~InLedger(n)
                               /\ ledger'[n] = NewEntry(scan[p].seen)
      BY <1>2 DEF RowAdded
    <2>2. scan[p].seen = message_id_seen(n)
      BY <2>1 DEF Add, SeenIsTrue
    <2>3. NewEntry(scan[p].seen) # NoEntry
      BY EntryAssumption DEF NewEntry, Entry, States
    <2>4. NewEntry(scan[p].seen).state = IF scan[p].seen THEN "duplicate" ELSE "archived"
      BY DEF NewEntry
    <2>5. Counted(n)' <=> ~message_id_seen(n)
      BY <2>1, <2>2, <2>3, <2>4 DEF Counted, InLedger
    <2>6. \A o \in Mail : RowAdded(o) => o = n
      BY <2>1 DEF RowAdded, OneScanner
    <2> QED
      BY <2>1, <2>5, <2>6
  <1>3. CASE MessageId[m] = NoId
    <2>1. CASE RowAdded(m)
      BY <1>2, <1>3, <2>1 DEF message_id_seen
    <2>2. CASE InLedger(m)
      BY <1>3, <2>2, RowsStay DEF EditionCountedOnce
    <2> QED
      BY <1>1, <2>1, <2>2, RowsBack
  <1>4. ASSUME MessageId[m] # NoId, NEW o \in Mail, InLedger(o), MessageId[o] = MessageId[m]
        PROVE  \E n \in Mail : Counted(n)' /\ MessageId[n] = MessageId[m] /\ Alone(n)
    <2>1. PICK n \in Mail : /\ Counted(n) /\ MessageId[n] = MessageId[m]
                            /\ \A c \in Mail : Counted(c) /\ MessageId[c] = MessageId[m] => c = n
      BY <1>4 DEF EditionCountedOnce
    <2>2. ASSUME NEW c \in Mail, Counted(c)', MessageId[c] = MessageId[m] PROVE Counted(c)
      <3>1. CASE RowAdded(c)
        <4>1. c # n /\ InLedger(n)
          BY <1>2, <2>1, <3>1 DEF Counted
        <4>2. message_id_seen(c)
          BY <1>4, <2>1, <2>2, <4>1 DEF message_id_seen
        <4> QED
          BY <1>2, <2>2, <3>1, <4>2
      <3> QED
        BY <2>2, <3>1, RowsBack
    <2> QED
      BY <2>1, <2>2, RowsStay
  <1>5. ASSUME MessageId[m] # NoId, RowAdded(m), ~message_id_seen(m)
        PROVE  Counted(m)' /\ Alone(m)
    <2>1. ASSUME NEW o \in Mail, Counted(o)', MessageId[o] = MessageId[m] PROVE o = m
      <3>1. CASE RowAdded(o)
        BY <1>2, <1>5, <3>1
      <3>2. CASE Counted(o)
        BY <1>5, <2>1, <3>2 DEF message_id_seen, Counted
      <3> QED
        BY <2>1, <3>1, <3>2, RowsBack
    <2> QED
      BY <1>2, <1>5, <2>1
  <1>6. CASE MessageId[m] # NoId
    <2>1. CASE InLedger(m)
      BY <1>4, <1>6, <2>1
    <2>2. CASE RowAdded(m) /\ message_id_seen(m)
      BY <1>4, <1>6, <2>2 DEF message_id_seen
    <2>3. CASE RowAdded(m) /\ ~message_id_seen(m)
      BY <1>5, <1>6, <2>3
    <2> QED
      BY <1>1, <2>1, <2>2, <2>3, RowsBack
  <1> QED
    BY <1>3, <1>6

(* While one scan runs at a time, of the messages with one Message-ID      *)
(* exactly one counts, in whatever order they come, however often scans    *)
(* are broken off and whatever is ingested meanwhile.                      *)
THEOREM EditionsCountOnce ==
  ASSUME OneScanner
  PROVE  Spec => []EditionCountedOnce
  <1>1. Init => SeenIsTrue /\ EditionCountedOnce
    BY DEF Init, SeenIsTrue, EditionCountedOnce, NoScan, InLedger
  <1>2. TypeInv /\ SeenIsTrue /\ EditionCountedOnce /\ [Next]_vars
          => SeenIsTrue' /\ EditionCountedOnce'
    BY SeenIsTrueStep, EditionStep DEF EditionInv
  <1> QED
    BY <1>1, <1>2, TypeInvariant, PTL DEF Spec
-----------------------------------------------------------------------------
Kept(a) == a \in stored /\ a \in artifacts /\ Exists(FirstJob(a))

(* What a row says was done for its message.                               *)
RowInv ==
  \A m \in Mail : InLedger(m) /\ ledger[m].state = "ingested" =>
    ledger[m].artifact # NoText /\ Kept(ledger[m].artifact)

(* What an ingestion has done for the item at hand.                        *)
IngestProgress ==
  \A p \in Ingestor :
    /\ ingest[p].step \in {"queue", "register"} => ingest[p].text \in stored
    /\ ingest[p].step = "register" => Exists(FirstJob(ingest[p].text))
    /\ ingest[p].step = "record" /\ ingest[p].text # NoText =>
         Kept(ingest[p].text)

IngestInv == TypeInv /\ RowInv /\ IngestProgress

LEMMA ItemHasText ==
  ASSUME TypeInv, NEW p \in Ingestor, ingest[p].step \in {"queue", "register", "record"}
  PROVE  /\ ingest[p].item \in Item
         /\ ingest[p].text \in Artifact \cup {NoText}
         /\ ingest[p].step # "record" => ingest[p].text \in Artifact
  BY DEF TypeInv, BacklogTypeOK, IngestControl, Ingest

LEMMA KeptStays ==
  ASSUME TypeInv, [Next]_vars, NEW a \in Artifact, Kept(a)
  PROVE  Kept(a)'
  BY StoresGrow, FirstJobIsJob DEF Kept

LEMMA RowInvStep == IngestInv /\ [Next]_vars => RowInv'
  <1> SUFFICES ASSUME IngestInv, [Next]_vars, NEW m \in Mail,
                      ledger'[m] # NoEntry, ledger'[m].state = "ingested"
               PROVE  /\ ledger'[m].artifact # NoText
                      /\ ledger'[m].artifact \in stored'
                      /\ ledger'[m].artifact \in artifacts'
                      /\ jobs'[FirstJob(ledger'[m].artifact)].status # "absent"
    BY DEF RowInv, InLedger, Kept, Exists
  <1> USE DEF IngestInv
  <1>1. CASE RowAdded(m)
    <2>1. PICK s : ledger'[m] = NewEntry(s)
      BY <1>1 DEF RowAdded
    <2> QED
      BY <2>1 DEF NewEntry
  <1>2. CASE RowSorted(m) \/ ledger'[m] = ledger[m]
    <2>1. /\ InLedger(m) /\ ledger'[m].state = ledger[m].state
          /\ ledger'[m].artifact = ledger[m].artifact
      BY <1>2 DEF RowSorted, InLedger
    <2>2. ledger[m].artifact \in Artifact
      BY <2>1 DEF RowInv, InLedger, TypeInv, BacklogTypeOK, Entry
    <2> QED
      BY <2>1, <2>2, KeptStays DEF RowInv, Kept, Exists
  <1>3. CASE RowRecorded(m)
    <2>1. PICK p \in Ingestor : /\ ingest[p].step = "record" /\ InLedger(m)
                                /\ ledger'[m] = Recorded(ledger[m], ingest[p].text)
      BY <1>3 DEF RowRecorded, Record, AtStep
    <2>2. ledger[m] \in Entry
      BY <2>1 DEF InLedger, TypeInv, BacklogTypeOK
    <2>3. ingest[p].text # NoText /\ ledger'[m].artifact = ingest[p].text
      BY <2>1, <2>2 DEF Recorded, Entry
    <2>4. ingest[p].text \in Artifact /\ Kept(ingest[p].text)
      BY <2>1, <2>3, ItemHasText DEF IngestProgress
    <2> QED
      BY <2>3, <2>4, KeptStays, StoresGrow, FirstJobIsJob DEF Kept, Exists
  <1> QED
    BY <1>1, <1>2, <1>3, LedgerEffect

LEMMA IngestProgressStep == IngestInv /\ [Next]_vars => IngestProgress'
  <1> SUFFICES ASSUME IngestInv, [Next]_vars PROVE IngestProgress'
    OBVIOUS
  <1> USE DEF IngestInv, TypeInv, BacklogTypeOK
  <1> DEFINE Queued(a) == jobs'[FirstJob(a)].status # "absent"
             Good(r) ==
               /\ r.step \in {"queue", "register"} => r.text \in stored'
               /\ r.step = "register" => Queued(r.text)
               /\ r.step = "record" /\ r.text # NoText =>
                    /\ r.text \in stored' /\ r.text \in artifacts'
                    /\ Queued(r.text)
  <1>1. SUFFICES ASSUME NEW q \in Ingestor PROVE Good(ingest'[q])
    BY DEF IngestProgress, Kept, Exists
  <1>2. Good(ingest[q])
    <2>1. CASE ingest[q].step \in {"queue", "register", "record"}
      BY <2>1, ItemHasText, FirstJobIsJob, StoresGrow DEF IngestProgress, Kept, Exists
    <2> QED
      BY <2>1
  <1>3. \A r : r.step \in {"idle", "derive"} => Good(r)
    OBVIOUS
  <1>4. ASSUME NEW p \in Ingestor, Ingesting(p), ingest'[q] # ingest[q]
        PROVE  Good(ingest'[q])
    <2>1. p = q /\ ingest[q] \in Ingest
      BY <1>4
      DEF Ingesting, RunBegin, AddBegin, Derive, Queue, Register, Record, IngestDies
    <2>2. \A i : Past(q, i).step \in {"idle", "derive"}
      BY <2>1 DEF Past, NoIngest, Ingest
    <2>3. ASSUME NEW b, NEW limit, NEW re, RunBegin(p, b, limit, re)
          PROVE  Good(ingest'[q])
      BY <2>1, <2>3 DEF RunBegin
    <2>4. ASSUME NEW items, AddBegin(p, items) PROVE Good(ingest'[q])
      BY <2>1, <2>4 DEF AddBegin
    <2>5. CASE Derive(p)
      <3>1. PICK i \in Item :
              \/ Derived(q, i) \in stored' /\ ingest'[q] = At(q, i, "queue")
              \/ Derived(q, i) = NoText /\ ingest'[q] = At(q, i, "record")
              \/ ingest'[q] = Past(q, i)
        BY <2>1, <2>5 DEF Derive
      <3>2. /\ At(q, i, "queue").step = "queue" /\ At(q, i, "record").step = "record"
            /\ At(q, i, "queue").text = Derived(q, i) /\ At(q, i, "record").text = Derived(q, i)
        BY <2>1 DEF At, Ingest
      <3> QED
        BY <1>3, <2>2, <3>1, <3>2
    <2>6. CASE Queue(p)
      <3> DEFINE text == ingest[q].text
      <3>1. ingest'[q].step = "register" /\ ingest'[q].text = text
        BY <2>1, <2>6 DEF Queue, Ingest
      <3>2. text \in stored'
        BY <2>1, <2>6, StoresGrow DEF Queue, AtStep, IngestProgress
      <3>3. Queued(text)
        <4>1. FirstJob(text) \in Job
          BY <2>1, <2>6, ItemHasText, FirstJobIsJob DEF Queue, AtStep
        <4> QED
          BY <2>1, <2>6, <4>1, InsertEffect DEF Queue, Exists
      <3> QED
        BY <3>1, <3>2, <3>3
    <2>7. CASE Register(p)
      <3> DEFINE text == ingest[q].text
      <3>1. \/ ingest'[q] = [ingest[q] EXCEPT !.step = "record"]
            \/ ingest'[q] = Past(q, ingest[q].item)
        BY <2>1, <2>7 DEF Register
      <3>2. text \in artifacts' /\ text \in stored' /\ Queued(text)
        BY <1>2, <2>1, <2>7 DEF Register, AtStep
      <3>3. CASE ingest'[q] = [ingest[q] EXCEPT !.step = "record"]
        <4>1. ingest'[q].step = "record" /\ ingest'[q].text = text
          BY <2>1, <3>3 DEF Ingest
        <4> QED
          BY <3>2, <4>1
      <3> QED
        BY <1>3, <2>2, <3>1, <3>3
    <2>8. CASE Record(p)
      BY <1>3, <2>1, <2>2, <2>8 DEF Record
    <2>9. CASE IngestDies(p)
      BY <2>1, <2>9 DEF IngestDies, NoIngest
    <2> QED
      BY <1>4, <2>3, <2>4, <2>5, <2>6, <2>7, <2>8, <2>9 DEF Ingesting
  <1>5. ASSUME \A p \in Ingestor : ~Ingesting(p) PROVE ingest'[q] = ingest[q]
    BY <1>5 DEF Next, Scanning, ScanBegin, Archive, Write, Check, Add, ScanEnd, ScanDies, Command,
      set_triage, assign_batches, requeue_failed, Work, vars, backlogVars
  <1> QED
    BY <1>2, <1>4, <1>5

LEMMA IngestInvariant == Spec => []IngestInv
  <1>1. Init => RowInv /\ IngestProgress
    BY DEF Init, RowInv, IngestProgress, InLedger, NoIngest
  <1>2. TypeInv /\ RowInv /\ IngestProgress /\ [Next]_vars => RowInv' /\ IngestProgress'
    BY RowInvStep, IngestProgressStep DEF IngestInv
  <1> QED
    BY <1>1, <1>2, TypeInvariant, PTL DEF Spec, IngestInv

(* A row that says ingested names an artifact that is stored, queued and   *)
(* registered, wherever this or an earlier run was broken off.             *)
THEOREM IngestedAreQueued == Spec => []IngestedIsQueued
  <1>1. IngestInv => IngestedIsQueued
    BY DEF IngestInv, RowInv, Kept, IngestedIsQueued
  <1> QED
    BY <1>1, IngestInvariant, PTL
-----------------------------------------------------------------------------
(* Only an ingestion makes a row of the queue.                             *)
LEMMA QueueGrows ==
  ASSUME TypeInv, [Next]_vars, NEW k \in Job, jobs'[k].status # "absent", ~Exists(k)
  PROVE  \E p \in Ingestor : Queue(p) /\ k = FirstJob(ingest[p].text)
  <1> USE DEF TypeInv, BacklogTypeOK
  <1>1. jobs'[k] # jobs[k]
    BY DEF Exists
  <1>2. ASSUME NEW p \in Ingestor, Ingesting(p)
        PROVE  Queue(p) /\ k = FirstJob(ingest[p].text)
    <2>1. Queue(p)
      BY <1>1, <1>2
      DEF Ingesting, RunBegin, AddBegin, Derive, Register, Record, IngestDies, queue
    <2>2. FirstJob(ingest[p].text) \in Job
      BY <2>1, ItemHasText, FirstJobIsJob DEF Queue, AtStep
    <2> QED
      BY <1>1, <2>1, <2>2, InsertEffect DEF Queue
  <1>3. ASSUME NEW p \in Scanner, Scanning(p) PROVE FALSE
    BY <1>1, <1>3
    DEF Scanning, ScanBegin, Archive, Write, Going, Check, Add, ScanEnd, ScanDies, queue
  <1>4. ASSUME Command PROVE FALSE
    <2>1. ASSUME NEW b, NEW stages, requeue_failed(b, stages) PROVE FALSE
      BY <2>1, RequeueEffect DEF Exists
    <2> QED
      BY <1>1, <1>4, <2>1 DEF Command, set_triage, assign_batches, queue
  <1>5. ASSUME NEW j \in Job, Work(j) PROVE FALSE
    BY <1>5, WorkEffect DEF Exists
  <1> QED
    BY <1>1, <1>2, <1>3, <1>4, <1>5 DEF Next, vars

(* What is ingested directly has been noted before it is queued.           *)
DirectIsNoted ==
  \A p \in Ingestor : ingest[p].step \in {"queue", "register"} /\ ~ingest[p].recorded =>
    ingest[p].text \in added

(* What was derived from a row is what the archive still gives.            *)
TextInv ==
  /\ \A m \in Mail : InLedger(m) =>
       /\ ledger[m].state = "ingested" => ledger[m].artifact = Text(m)
       /\ ledger[m].state = "skipped" => Text(m) = NoText
  /\ \A p \in Ingestor :
       ingest[p].recorded /\ ingest[p].step \in {"queue", "register", "record"} =>
         ingest[p].text = Text(ingest[p].item)

LEMMA DirectIsNotedStep == TypeInv /\ DirectIsNoted /\ [Next]_vars => DirectIsNoted'
  <1> SUFFICES ASSUME TypeInv, DirectIsNoted, [Next]_vars, NEW q \in Ingestor,
                      ingest'[q].step \in {"queue", "register"}, ~ingest'[q].recorded
               PROVE  ingest'[q].text \in added'
    BY DEF DirectIsNoted
  <1> USE DEF TypeInv, BacklogTypeOK
  <1>1. CASE ingest'[q] = ingest[q]
    BY <1>1, StoresGrow DEF DirectIsNoted
  <1>2. ASSUME NEW p \in Ingestor, Ingesting(p), ingest'[q] # ingest[q]
        PROVE  ingest'[q].text \in added'
    <2>1. p = q /\ ingest[q] \in Ingest
      BY <1>2
      DEF Ingesting, RunBegin, AddBegin, Derive, Queue, Register, Record, IngestDies
    <2>2. \A i : Past(q, i).step \in {"idle", "derive"}
      BY <2>1 DEF Past, NoIngest, Ingest
    <2>3. ASSUME NEW b, NEW limit, NEW re, RunBegin(p, b, limit, re) PROVE FALSE
      BY <2>1, <2>3 DEF RunBegin
    <2>4. ASSUME NEW items, AddBegin(p, items) PROVE FALSE
      BY <2>1, <2>4 DEF AddBegin
    <2>5. CASE Derive(p)
      <3>1. PICK i \in Item :
              \/ /\ added' = IF ingest[q].recorded THEN added ELSE added \cup {Derived(q, i)}
                 /\ ingest'[q] = At(q, i, "queue")
              \/ ingest'[q] = At(q, i, "record")
              \/ ingest'[q] = Past(q, i)
        BY <2>1, <2>5 DEF Derive
      <3>2. /\ At(q, i, "queue").recorded = ingest[q].recorded
            /\ At(q, i, "queue").text = Derived(q, i)
            /\ At(q, i, "record").step = "record"
        BY <2>1 DEF At, Ingest
      <3> QED
        BY <2>2, <3>1, <3>2
    <2>6. CASE Queue(p)
      <3>1. /\ ingest'[q].text = ingest[q].text
            /\ ingest'[q].recorded = ingest[q].recorded
        BY <2>1, <2>6 DEF Queue, Ingest
      <3> QED
        BY <2>1, <2>6, <3>1 DEF Queue, AtStep, DirectIsNoted
    <2>7. CASE Register(p) \/ Record(p) \/ IngestDies(p)
      <3>1. \/ ingest'[q] = [ingest[q] EXCEPT !.step = "record"]
            \/ ingest'[q] = Past(q, ingest[q].item)
            \/ ingest'[q] = NoIngest
        BY <2>1, <2>7 DEF Register, Record, IngestDies
      <3>2. [ingest[q] EXCEPT !.step = "record"].step = "record" /\ NoIngest.step = "idle"
        BY <2>1 DEF Ingest, NoIngest
      <3> QED
        BY <2>2, <3>1, <3>2
    <2> QED
      BY <1>2, <2>3, <2>4, <2>5, <2>6, <2>7 DEF Ingesting
  <1>3. ASSUME \A p \in Ingestor : ~Ingesting(p) PROVE ingest'[q] = ingest[q]
    BY <1>3 DEF Next, Scanning, ScanBegin, Archive, Write, Check, Add, ScanEnd, ScanDies, Command,
      set_triage, assign_batches, requeue_failed, Work, vars, backlogVars
  <1> QED
    BY <1>1, <1>2, <1>3

(* A file does not change once its message has a row.                      *)
LEMMA TextStays ==
  ASSUME ScanInv, [Next]_vars, NEW m \in Mail, InLedger(m)
  PROVE  Text(m)' = Text(m)
  <1> USE DEF ScanInv
  <1>1. m \in torn' <=> m \in torn
    <2>1. ASSUME NEW p \in Scanner, Scanning(p) PROVE m \in torn' <=> m \in torn
      <3>1. CASE Archive(p)
        BY <3>1 DEF Archive, files, ScanIsComplete
      <3>2. CASE Write(p)
        BY <3>2 DEF Write, WriteInv
      <3> QED
        BY <2>1, <3>1, <3>2 DEF Scanning, ScanBegin, Check, Add, ScanEnd, ScanDies, files
    <2>2. ASSUME \A p \in Scanner : ~Scanning(p) PROVE UNCHANGED torn
      BY <2>2 DEF Next, Ingesting, RunBegin, AddBegin, Derive, Queue, Register, Record,
        IngestDies, Command, set_triage, assign_batches, requeue_failed, Work, vars,
        backlogVars, files
    <2> QED
      BY <2>1, <2>2
  <1> QED
    BY <1>1 DEF Text

LEMMA TextInvStep == ScanInv /\ TextInv /\ [Next]_vars => TextInv'
  <1> SUFFICES ASSUME ScanInv, TextInv, [Next]_vars PROVE TextInv'
    OBVIOUS
  <1> USE DEF ScanInv, TypeInv, BacklogTypeOK
  <1> DEFINE Then(m) == IF m \in torn' THEN CutText[m] ELSE TextOf[m]
  <1>t. \A m \in Mail : InLedger(m) => Then(m) = Text(m)
    BY TextStays DEF Text
  <1>1. ASSUME NEW m \in Mail, ledger'[m] # NoEntry
        PROVE  /\ ledger'[m].state = "ingested" => ledger'[m].artifact = Then(m)
               /\ ledger'[m].state = "skipped" => Then(m) = NoText
    <2>1. CASE RowAdded(m)
      <3>1. PICK b : ledger'[m] = NewEntry(b)
        BY <2>1 DEF RowAdded
      <3> QED
        BY <3>1 DEF NewEntry
    <2>2. CASE RowSorted(m) \/ ledger'[m] = ledger[m]
      BY <1>1, <1>t, <2>2 DEF RowSorted, InLedger, TextInv
    <2>3. CASE RowRecorded(m)
      <3>1. PICK p \in Ingestor : /\ Record(p) /\ m = ingest[p].item /\ InLedger(m)
                                  /\ ledger'[m] = Recorded(ledger[m], ingest[p].text)
        BY <2>3 DEF RowRecorded
      <3>2. ingest[p].text = Text(m)
        BY <3>1 DEF Record, AtStep, TextInv, IngestControl
      <3>3. ledger[m] \in Entry
        BY <3>1 DEF InLedger
      <3> QED
        BY <1>t, <3>1, <3>2, <3>3 DEF Recorded, Entry
    <2> QED
      BY <2>1, <2>2, <2>3, LedgerEffect
  <1>2. ASSUME NEW q \in Ingestor, ingest'[q].recorded,
               ingest'[q].step \in {"queue", "register", "record"}
        PROVE  ingest'[q].text = Then(ingest'[q].item)
    <2>1. ASSUME NEW m \in Mail, m \in ingest[q].todo, ingest[q].recorded PROVE Then(m) = Text(m)
      BY <1>t, <2>1 DEF IngestControl, Counted
    <2>2. CASE ingest'[q] = ingest[q]
      BY <1>2, <2>1, <2>2 DEF TextInv, IngestControl
    <2>3. ASSUME NEW p \in Ingestor, Ingesting(p), ingest'[q] # ingest[q]
          PROVE  ingest'[q].text = Then(ingest'[q].item)
      <3>1. p = q /\ ingest[q] \in Ingest
        BY <2>3
        DEF Ingesting, RunBegin, AddBegin, Derive, Queue, Register, Record, IngestDies
      <3>2. \A i : Past(q, i).step \in {"idle", "derive"}
        BY <3>1 DEF Past, NoIngest, Ingest
      <3>3. ASSUME NEW b, NEW limit, NEW re, RunBegin(p, b, limit, re) PROVE FALSE
        BY <1>2, <3>1, <3>3 DEF RunBegin
      <3>4. ASSUME NEW items, AddBegin(p, items) PROVE FALSE
        BY <1>2, <3>1, <3>4 DEF AddBegin
      <3>5. CASE Derive(p)
        <4>1. PICK i \in Item, step \in {"queue", "record"} :
                i \in ingest[q].todo /\ (ingest'[q] = At(q, i, step) \/ ingest'[q] = Past(q, i))
          BY <3>1, <3>5 DEF Derive, Turn
        <4>2. ingest'[q] = At(q, i, step)
          BY <1>2, <3>2, <4>1
        <4>3. /\ ingest'[q].text = Derived(q, i) /\ ingest'[q].item = i
              /\ ingest'[q].recorded = ingest[q].recorded
          BY <3>1, <4>2 DEF At, Ingest
        <4>4. ingest[q].recorded /\ i \in Mail
          BY <1>2, <4>1, <4>3 DEF IngestControl
        <4> QED
          BY <2>1, <4>1, <4>3, <4>4 DEF Derived
      <3>6. CASE Queue(p) \/ Register(p) \/ Record(p) \/ IngestDies(p)
        <4>1. \/ /\ ingest[q].step \in {"queue", "register"}
                 /\ \E step \in {"register", "record"} :
                      ingest'[q] = [ingest[q] EXCEPT !.step = step]
              \/ ingest'[q] = Past(q, ingest[q].item)
              \/ ingest'[q] = NoIngest
          BY <3>1, <3>6 DEF Queue, Register, Record, IngestDies, AtStep
        <4>2. PICK step \in {"register", "record"} :
                /\ ingest'[q] = [ingest[q] EXCEPT !.step = step]
                /\ ingest[q].step \in {"queue", "register"}
          BY <1>2, <3>2, <4>1 DEF NoIngest
        <4>3. /\ ingest'[q].text = ingest[q].text /\ ingest'[q].item = ingest[q].item
              /\ ingest[q].recorded
          BY <1>2, <3>1, <4>2 DEF Ingest
        <4>4. /\ ingest[q].item \in ingest[q].todo /\ ingest[q].item \in Mail
              /\ ingest[q].text = Text(ingest[q].item)
          BY <4>2, <4>3 DEF IngestControl, TextInv
        <4> QED
          BY <2>1, <4>3, <4>4
      <3> QED
        BY <2>3, <3>3, <3>4, <3>5, <3>6 DEF Ingesting
    <2>4. ASSUME \A p \in Ingestor : ~Ingesting(p) PROVE ingest'[q] = ingest[q]
      BY <2>4 DEF Next, Scanning, ScanBegin, Archive, Write, Check, Add, ScanEnd, ScanDies,
        Command, set_triage, assign_batches, requeue_failed, Work, vars, backlogVars
    <2> QED
      BY <2>2, <2>3, <2>4
  <1> QED
    BY <1>1, <1>2 DEF TextInv, Text, InLedger

LEMMA KnowsStep ==
  ASSUME ScanInv, DirectIsNoted, TextInv, LedgerKnowsItsWork, [Next]_vars
  PROVE  LedgerKnowsItsWork'
  <1> USE DEF ScanInv
  <1> DEFINE Then(m) == IF m \in torn' THEN CutText[m] ELSE TextOf[m]
  <1> SUFFICES ASSUME NEW k \in Job, jobs'[k].status # "absent", k[1] \notin added'
               PROVE  \E m \in Mail : /\ ledger'[m] # NoEntry
                                      /\ Then(m) = k[1]
                                      /\ \/ ledger'[m].state = "archived"
                                         \/ ledger'[m].artifact = k[1]
    BY DEF LedgerKnowsItsWork, Exists, InLedger, Text
  <1>1. k[1] \notin added /\ k[1] # NoText
    BY StoresGrow, BacklogAssumption DEF Job
  <1>2. PICK m \in Mail : /\ InLedger(m) /\ Text(m) = k[1]
                          /\ \/ ledger[m].state = "archived"
                             \/ ledger[m].artifact = k[1]
    <2>1. CASE Exists(k)
      BY <1>1, <2>1 DEF LedgerKnowsItsWork
    <2>2. CASE ~Exists(k)
      <3>1. PICK p \in Ingestor : Queue(p) /\ k = FirstJob(ingest[p].text)
        BY <2>2, QueueGrows
      <3> DEFINE m == ingest[p].item
      <3>2. ingest[p].step = "queue" /\ k[1] = ingest[p].text
        BY <3>1 DEF Queue, AtStep, FirstJob
      <3>3. ingest[p].recorded /\ k[1] = Text(m)
        BY <1>1, <3>2 DEF DirectIsNoted, TextInv
      <3>4. m \in Mail /\ Counted(m)
        BY <3>2, <3>3 DEF TypeInv, IngestControl
      <3>5. ledger[m].state \in {"archived", "ingested", "skipped"}
        BY <3>4 DEF Counted, InLedger, TypeInv, BacklogTypeOK, Entry, States
      <3> QED
        BY <1>1, <3>3, <3>4, <3>5 DEF Counted, TextInv
    <2> QED
      BY <2>1, <2>2
  <1>3. ledger'[m] # NoEntry /\ Then(m) = k[1]
    BY <1>2, RowsStay, TextStays DEF InLedger, Text
  <1>4. ledger'[m].state = "archived" \/ ledger'[m].artifact = k[1]
    <2>1. CASE RowRecorded(m)
      <3>1. PICK p \in Ingestor : /\ Record(p) /\ m = ingest[p].item
                                  /\ ledger'[m] = Recorded(ledger[m], ingest[p].text)
        BY <2>1 DEF RowRecorded
      <3>2. ingest[p].text = k[1]
        BY <1>2, <3>1 DEF Record, AtStep, TextInv, TypeInv, IngestControl
      <3>3. ledger[m] \in Entry
        BY <1>2 DEF InLedger, TypeInv, BacklogTypeOK
      <3> QED
        BY <1>1, <3>1, <3>2, <3>3 DEF Recorded, Entry
    <2>2. CASE RowAdded(m)
      BY <1>2, <2>2 DEF RowAdded
    <2>3. CASE RowSorted(m) \/ ledger'[m] = ledger[m]
      BY <1>2, <2>3 DEF RowSorted
    <2> QED
      BY <2>1, <2>2, <2>3, LedgerEffect
  <1> QED
    BY <1>2, <1>3, <1>4

(* While one scan runs at a time: what came to the queue through the       *)
(* ledger is known to it by name, or its message is still to be ingested:  *)
(* `retry` and `failures` find it all.                                     *)
THEOREM WorkIsKnown ==
  ASSUME OneScanner
  PROVE  Spec => []LedgerKnowsItsWork
  <1>1. Init => DirectIsNoted /\ TextInv /\ LedgerKnowsItsWork
    BY DEF Init, DirectIsNoted, TextInv, LedgerKnowsItsWork, NoIngest, Exists, Absent, InLedger
  <1>2. ScanInv /\ DirectIsNoted /\ TextInv /\ LedgerKnowsItsWork /\ [Next]_vars
          => DirectIsNoted' /\ TextInv' /\ LedgerKnowsItsWork'
    BY DirectIsNotedStep, TextInvStep, KnowsStep DEF ScanInv
  <1> QED
    BY <1>1, <1>2, ScanInvariant, PTL DEF Spec
=============================================================================
