------------------------------- MODULE Backlog -------------------------------
(***************************************************************************)
(* The ledger of archived e-mail (pipeline/db/backlog.py) and the commands *)
(* that fill and empty it (pipeline/ingestors/email.py, the `backlog`      *)
(* commands of pipeline/cli.py), with the other ingestors beside them.     *)
(*                                                                         *)
(* A scan reads the mailbox, message by message: the bytes are archived, a *)
(* row is added to the ledger, marked as a duplicate when another message  *)
(* with its Message-ID is there. A backlog run takes archived rows, derives*)
(* the artifact of each, queues its first stage, registers it and records  *)
(* it in the row. Each of these is a statement of its own, and the process *)
(* may raise or be killed between any two of them.                         *)
(*                                                                         *)
(* A message is a model value; what matters of its text is the artifact it *)
(* normalizes to, which two messages may share. The normalizer stays the   *)
(* same. Left out: subject, key and dates, but for the order of sent_at.   *)
(***************************************************************************)
EXTENDS JobTable

CONSTANTS
  Item,            (* what can be ingested: messages, pasted texts, pages  *)
  Mail,            (* the messages of the mailbox sent before the cutoff   *)
  MessageId,       (* message -> its Message-ID, or NoId                   *)
  TextOf,          (* item -> the artifact it normalizes to, or NoText     *)
  CutText,         (* message -> the same for a part of its bytes          *)
  AuthorKey,       (* message -> its author key: the name of its batch     *)
  SentAt,          (* message -> the order of its sent_at                  *)
  Scanner,         (* processes that scan the mailbox                      *)
  Ingestor,        (* processes that ingest                                *)
  Direct,          (* sets of items one command ingests without the ledger *)
  Limits,          (* the limits given to backlog runs                     *)
  MaxCommands,     (* bound on the commands given                          *)
  MaxCrashes,      (* bound on the commands that fail or are killed        *)
  NoId, NoText, NoItem, NoEntry, NoBatch, NoTriage

ASSUME BacklogAssumption ==
  /\ Mail \subseteq Item
  /\ TextOf \in [Item -> Artifact \cup {NoText}]
  /\ CutText \in [Mail -> Artifact \cup {NoText}]
  /\ SentAt \in [Mail -> Nat]
  /\ Direct \subseteq SUBSET Item /\ {} \notin Direct
  /\ Limits \subseteq Nat \ {0}
  /\ MaxCommands \in Nat /\ MaxCrashes \in Nat
  /\ NoText \notin Artifact /\ NoItem \notin Item

VARIABLES
  archive,         (* messages that have a file in email/eml               *)
  torn,            (* those whose file holds a part of their bytes         *)
  ledger,          (* the table backlog: message -> its row                *)
  stored,          (* artifacts in the raw store                           *)
  artifacts,       (* artifacts in the registry                            *)
  scan,            (* what each scanner does                               *)
  ingest,          (* what each ingestor does                              *)
  issued,          (* commands given so far                                *)
  crashes,         (* commands that died                                   *)
  scanned,         (* history: a scan has come to its end                  *)
  added            (* history: artifacts of items ingested directly        *)

files == <<archive, torn>>
backlogVars ==
  <<files, ledger, stored, artifacts, scan, ingest, issued, crashes, scanned, added>>
vars == <<jobs, clock, ctl, backlogVars>>
queue == <<jobs, clock, ctl>>

States == {"archived", "ingested", "duplicate", "skipped"}
Triage == {"process", "drop", "review"}
Batch == {AuthorKey[m] : m \in Mail}

Entry == [state : States, artifact : Artifact \cup {NoText},
          triage : Triage \cup {NoTriage}, batch : Batch \cup {NoBatch}]

ASSUME EntryAssumption == NoEntry \notin Entry /\ NoBatch \notin Batch

(* A scan: the messages still to come, the one at hand, and what was seen. *)
Scan == [step : {"idle", "fetch", "write", "check", "add"}, todo : SUBSET Mail,
         item : Item \cup {NoItem}, seen : BOOLEAN]

(* An ingestion: the items still to come, the one at hand included, and    *)
(* the artifact that was derived from it.                                  *)
Ingest == [step : {"idle", "derive", "queue", "register", "record"}, todo : SUBSET Item,
           item : Item \cup {NoItem}, text : Artifact \cup {NoText},
           reprocess : BOOLEAN, recorded : BOOLEAN]

NoScan == [step |-> "idle", todo |-> {}, item |-> NoItem, seen |-> FALSE]
NoIngest == [step |-> "idle", todo |-> {}, item |-> NoItem, text |-> NoText,
             reprocess |-> FALSE, recorded |-> FALSE]

InLedger(m) == ledger[m] # NoEntry

Init ==
  /\ jobs = [k \in Job |-> Absent] /\ clock = 1
  /\ ctl = [key \in ControlKey |-> NoRow]
  /\ archive = {} /\ torn = {} /\ stored = {} /\ artifacts = {}
  /\ ledger = [m \in Mail |-> NoEntry]
  /\ scan = [p \in Scanner |-> NoScan]
  /\ ingest = [p \in Ingestor |-> NoIngest]
  /\ issued = 0 /\ crashes = 0
  /\ scanned = FALSE /\ added = {}

Give == issued < MaxCommands /\ issued' = issued + 1

-----------------------------------------------------------------------------
(* backlog scan *)

ScanBegin(p) ==
  /\ Give
  /\ scan[p].step = "idle"
  /\ scan' = [scan EXCEPT ![p] = [NoScan EXCEPT !.step = "fetch", !.todo = Mail]]
  /\ UNCHANGED <<queue, files, ledger, stored, artifacts, ingest, crashes, scanned, added>>

(* The process has message m at hand and goes on with a step.              *)
Going(p, step, m) == [scan EXCEPT ![p] = [@ EXCEPT !.step = step, !.item = m]]

(* Mutant: a message whose bytes are archived already is passed over.      *)
Archive_known(p) ==
  /\ scan[p].step = "fetch"
  /\ \E m \in scan[p].todo :
       \/ /\ m \in archive
          /\ scan' = [scan EXCEPT ![p].todo = @ \ {m}]
          /\ UNCHANGED files
       \/ /\ m \notin archive
          /\ archive' = archive \cup {m} /\ torn' = torn \cup {m}
          /\ scan' = Going(p, "write", m)
  /\ UNCHANGED <<queue, ledger, stored, artifacts, ingest, issued, crashes, scanned, added>>

(* The next message: its file is opened for writing, unless it is there.   *)
Archive(p) ==
  /\ scan[p].step = "fetch"
  /\ \E m \in scan[p].todo :
       \/ /\ m \in archive
          /\ scan' = Going(p, "check", m)
          /\ UNCHANGED files
       \/ /\ m \notin archive
          /\ archive' = archive \cup {m} /\ torn' = torn \cup {m}
          /\ scan' = Going(p, "write", m)
  /\ UNCHANGED <<queue, ledger, stored, artifacts, ingest, issued, crashes, scanned, added>>

(* All its bytes are written.                                              *)
Write(p) ==
  /\ scan[p].step = "write"
  /\ torn' = torn \ {scan[p].item}
  /\ scan' = Going(p, "check", scan[p].item)
  /\ UNCHANGED <<queue, archive, ledger, stored, artifacts, ingest, issued, crashes>>
  /\ UNCHANGED <<scanned, added>>

(* Mutant: only rows that are still to be ingested are looked at.          *)
message_id_seen_pending(m) ==
  /\ MessageId[m] # NoId
  /\ \E n \in Mail \ {m} :
       InLedger(n) /\ MessageId[n] = MessageId[m] /\ ledger[n].state = "archived"

(* Another message of the ledger has the Message-ID of m.                  *)
message_id_seen(m) ==
  /\ MessageId[m] # NoId
  /\ \E n \in Mail \ {m} : InLedger(n) /\ MessageId[n] = MessageId[m]

Check(p) ==
  /\ scan[p].step = "check"
  /\ scan' = [scan EXCEPT ![p].step = "add", ![p].seen = message_id_seen(scan[p].item)]
  /\ UNCHANGED <<queue, files, ledger, stored, artifacts, ingest, issued, crashes>>
  /\ UNCHANGED <<scanned, added>>

(* The row is added, unless it is there.                                   *)
NewEntry(seen) ==
  [state |-> IF seen THEN "duplicate" ELSE "archived",
   artifact |-> NoText, triage |-> NoTriage, batch |-> NoBatch]

Add(p) ==
  /\ scan[p].step = "add"
  /\ LET m == scan[p].item
     IN /\ ledger' = [ledger EXCEPT ![m] =
                        IF InLedger(m) THEN @ ELSE NewEntry(scan[p].seen)]
        /\ scan' = [scan EXCEPT ![p] = [NoScan EXCEPT !.step = "fetch",
                                                      !.todo = scan[p].todo \ {m}]]
  /\ UNCHANGED <<queue, files, stored, artifacts, ingest, issued, crashes, scanned, added>>

ScanEnd(p) ==
  /\ scan[p].step = "fetch" /\ scan[p].todo = {}
  /\ scan' = [scan EXCEPT ![p] = NoScan]
  /\ scanned' = TRUE
  /\ UNCHANGED <<queue, files, ledger, stored, artifacts, ingest, issued, crashes, added>>

(* The mailbox hangs up, a write fails, or the process is killed: a file   *)
(* being written keeps what it has got.                                    *)
ScanDies(p) ==
  /\ scan[p].step # "idle"
  /\ crashes < MaxCrashes /\ crashes' = crashes + 1
  /\ scan' = [scan EXCEPT ![p] = NoScan]
  /\ UNCHANGED <<queue, files, ledger, stored, artifacts, ingest, issued, scanned, added>>

-----------------------------------------------------------------------------
(* Triage and batches *)

set_triage(m, decision) ==
  /\ Give
  /\ InLedger(m)
  /\ ledger' = [ledger EXCEPT ![m] = [@ EXCEPT !.triage = decision]]
  /\ UNCHANGED <<queue, files, stored, artifacts, scan, ingest, crashes, scanned, added>>

(* Rows without a batch get that of their author: all of them, or those    *)
(* triaged to be processed.                                                *)
assign_batches(all) ==
  /\ Give
  /\ ledger' = [m \in Mail |->
       IF InLedger(m) /\ ledger[m].batch = NoBatch /\ (all \/ ledger[m].triage = "process")
       THEN [ledger[m] EXCEPT !.batch = AuthorKey[m]] ELSE ledger[m]]
  /\ UNCHANGED <<queue, files, stored, artifacts, scan, ingest, crashes, scanned, added>>

-----------------------------------------------------------------------------
(* Ingestion: backlog run, and the ingestors that do without the ledger *)

Archived(b) ==
  {m \in Mail : /\ InLedger(m) /\ ledger[m].state = "archived"
                /\ b # NoBatch => ledger[m].batch = b}

(* The oldest archived rows, of batch b or of any, `limit` of them at most.*)
(* Which of equally old ones come last is left open.                       *)
pending(b, limit) ==
  {M \in SUBSET Archived(b) :
     /\ Cardinality(M) <= limit
     /\ M # Archived(b) => Cardinality(M) = limit
     /\ \A m \in M, n \in Archived(b) \ M : SentAt[m] <= SentAt[n]}

RunBegin(p, b, limit, reprocess) ==
  /\ Give
  /\ ingest[p].step = "idle"
  /\ \E todo \in pending(b, limit) \ {{}} :
       ingest' = [ingest EXCEPT ![p] =
         [step |-> "derive", todo |-> todo, item |-> NoItem, text |-> NoText,
          reprocess |-> reprocess, recorded |-> TRUE]]
  /\ UNCHANGED <<queue, files, ledger, stored, artifacts, scan, crashes, scanned, added>>

(* ingest email, add paste, add web: the same without a row.               *)
AddBegin(p, items) ==
  /\ Give
  /\ ingest[p].step = "idle"
  /\ ingest' = [ingest EXCEPT ![p] =
       [step |-> "derive", todo |-> items, item |-> NoItem, text |-> NoText,
        reprocess |-> FALSE, recorded |-> FALSE]]
  /\ UNCHANGED <<queue, files, ledger, stored, artifacts, scan, crashes, scanned, added>>

AtStep(p, step) == ingest[p].step = step

(* The artifact that message m normalizes to, as it is in the archive.     *)
Text(m) == IF m \in torn THEN CutText[m] ELSE TextOf[m]

(* A row is derived from the archived file, another item from what is given*)
Derived(p, i) == IF ingest[p].recorded THEN Text(i) ELSE TextOf[i]

At(p, i, step) == [ingest[p] EXCEPT !.step = step, !.item = i, !.text = Derived(p, i)]

(* The process is through with item i.                                     *)
Past(p, i) ==
  IF ingest[p].todo = {i} THEN NoIngest
  ELSE [ingest[p] EXCEPT !.step = "derive", !.todo = @ \ {i}, !.item = NoItem,
                         !.text = NoText]

(* Oldest first, where the items come from the ledger.                     *)
Turn(p, i) ==
  /\ i \in ingest[p].todo
  /\ ingest[p].recorded => \A j \in ingest[p].todo : SentAt[i] <= SentAt[j]

(* Mutant: what is in the raw store is taken to be queued and registered.  *)
Derive_known(p) ==
  /\ AtStep(p, "derive")
  /\ \E i \in Item :
       /\ Turn(p, i)
       /\ LET a == Derived(p, i)
          IN /\ stored' = stored \cup ({a} \ {NoText})
             /\ added' = IF ingest[p].recorded THEN added ELSE added \cup ({a} \ {NoText})
             /\ ingest' = [ingest EXCEPT ![p] =
                  IF a \notin stored \cup {NoText} THEN At(p, i, "queue")
                  ELSE IF @.recorded THEN At(p, i, "record") ELSE Past(p, i)]
  /\ UNCHANGED <<queue, files, ledger, artifacts, scan, issued, crashes, scanned>>

(* The text is extracted and normalized, and stored if there is any.       *)
Derive(p) ==
  /\ AtStep(p, "derive")
  /\ \E i \in Item :
       /\ Turn(p, i)
       /\ LET a == Derived(p, i)
          IN \/ /\ a # NoText
                /\ stored' = stored \cup {a}
                /\ added' = IF ingest[p].recorded THEN added ELSE added \cup {a}
                /\ ingest' = [ingest EXCEPT ![p] = At(p, i, "queue")]
             \/ /\ a = NoText
                /\ ingest' = [ingest EXCEPT ![p] = IF @.recorded THEN At(p, i, "record")
                                                   ELSE Past(p, i)]
                /\ UNCHANGED <<stored, added>>
  /\ UNCHANGED <<queue, files, ledger, artifacts, scan, issued, crashes, scanned>>

Queue(p) ==
  /\ AtStep(p, "queue")
  /\ insert_job(FirstJob(ingest[p].text), "ready", ingest[p].reprocess)
  /\ ingest' = [ingest EXCEPT ![p].step = "register"]
  /\ UNCHANGED <<ctl, files, ledger, stored, artifacts, scan, issued, crashes, scanned, added>>

Register(p) ==
  /\ AtStep(p, "register")
  /\ artifacts' = artifacts \cup {ingest[p].text}
  /\ ingest' = [ingest EXCEPT ![p] = IF @.recorded THEN [@ EXCEPT !.step = "record"]
                                     ELSE Past(p, @.item)]
  /\ UNCHANGED <<queue, files, ledger, stored, scan, issued, crashes, scanned, added>>

(* Mutant: the row does not say which artifact was derived from it.        *)
Recorded_bare(entry, a) ==
  [entry EXCEPT !.state = IF a = NoText THEN "skipped" ELSE "ingested"]

(* Mutant: a row without text is put aside.                                *)
Recorded_aside(entry, a) ==
  IF a = NoText THEN [entry EXCEPT !.state = "empty"]
  ELSE [entry EXCEPT !.state = "ingested", !.artifact = a]

(* set_state: a row without text is skipped, and keeps the artifact it has.*)
Recorded(entry, a) ==
  IF a = NoText THEN [entry EXCEPT !.state = "skipped"]
  ELSE [entry EXCEPT !.state = "ingested", !.artifact = a]

Record(p) ==
  /\ AtStep(p, "record")
  /\ LET m == ingest[p].item
     IN /\ ledger' = [ledger EXCEPT ![m] = Recorded(@, ingest[p].text)]
        /\ ingest' = [ingest EXCEPT ![p] = Past(p, m)]
  /\ UNCHANGED <<queue, files, stored, artifacts, scan, issued, crashes, scanned, added>>

(* A statement raises, or the process is killed: the loop is left.         *)
IngestDies(p) ==
  /\ ~AtStep(p, "idle")
  /\ crashes < MaxCrashes /\ crashes' = crashes + 1
  /\ ingest' = [ingest EXCEPT ![p] = NoIngest]
  /\ UNCHANGED <<queue, files, ledger, stored, artifacts, scan, issued, scanned, added>>

-----------------------------------------------------------------------------
(* The queue *)

Known(b) ==
  {ledger[m].artifact :
     m \in {n \in Mail : InLedger(n) /\ (b # NoBatch => ledger[n].batch = b)}}

(* backlog retry: the failed stages, or one of them, of artifacts that the *)
(* ledger knows.                                                           *)
requeue_failed(b, stages) ==
  /\ Give
  /\ jobs' = [k \in Job |->
       IF jobs[k].status = "failed" /\ k[1] \in Known(b) /\ k[2] \in stages
       THEN [jobs[k] EXCEPT !.status = "ready", !.attempts = 0] ELSE jobs[k]]
  /\ UNCHANGED <<clock, ctl, files, ledger, stored, artifacts, scan, ingest>>
  /\ UNCHANGED <<crashes, scanned, added>>

(* What the workers of Orchestrator do to a row that is there. They do not *)
(* look at the ledger; that they queue further stages makes no difference  *)
(* to it and is left out.                                                  *)
Work(k) ==
  /\ \/ jobs[k].status = "ready" /\ ClaimRow(k)
     \/ jobs[k].status = "running" /\ mark_done(k)
     \/ jobs[k].status = "running" /\ WriteAttempt(k, jobs[k].attempts + 1)
  /\ UNCHANGED <<ctl, backlogVars>>
-----------------------------------------------------------------------------
Scanning(p) ==
  \/ ScanBegin(p) \/ Archive(p) \/ Write(p) \/ Check(p) \/ Add(p)
  \/ ScanEnd(p) \/ ScanDies(p)

Ingesting(p) ==
  \/ \E b \in Batch \cup {NoBatch}, limit \in Limits, reprocess \in BOOLEAN :
       RunBegin(p, b, limit, reprocess)
  \/ \E items \in Direct : AddBegin(p, items)
  \/ Derive(p) \/ Queue(p) \/ Register(p) \/ Record(p) \/ IngestDies(p)

Command ==
  \/ \E m \in Mail, decision \in Triage : set_triage(m, decision)
  \/ \E all \in BOOLEAN : assign_batches(all)
  \/ \E b \in Batch \cup {NoBatch}, stages \in {Stage} \cup {{s} : s \in Stage} :
       requeue_failed(b, stages)

Next ==
  \/ \E p \in Scanner : Scanning(p)
  \/ \E p \in Ingestor : Ingesting(p)
  \/ Command
  \/ \E k \in Job : Work(k)

Spec == Init /\ [][Next]_vars
-----------------------------------------------------------------------------
(* What the ledger promises.                                               *)

BacklogTypeOK ==
  /\ jobs \in [Job -> Row] /\ clock \in Nat
  /\ archive \subseteq Mail /\ torn \subseteq archive
  /\ ledger \in [Mail -> Entry \cup {NoEntry}]
  /\ stored \subseteq Artifact /\ artifacts \subseteq Artifact /\ added \subseteq Artifact
  /\ scan \in [Scanner -> Scan]
  /\ ingest \in [Ingestor -> Ingest]
  /\ issued \in 0..MaxCommands /\ crashes \in 0..MaxCrashes
  /\ scanned \in BOOLEAN

(* Once a scan has come to its end every message of the mailbox has a row, *)
(* wherever the scans before it were broken off, and its file is there,    *)
(* whole if no command ever died: the mailbox need not be read again.      *)
ScanIsComplete ==
  /\ scanned => \A m \in Mail : InLedger(m)
  /\ \A m \in Mail : InLedger(m) => m \in archive /\ (m \in torn => crashes > 0)

Counted(m) == InLedger(m) /\ ledger[m].state # "duplicate"

(* Of the messages with one Message-ID exactly one counts, in whatever     *)
(* order they are seen and however often scans are broken off: an edition  *)
(* is neither counted twice nor lost. Messages without one all count.      *)
EditionCountedOnce ==
  \A m \in Mail : InLedger(m) =>
    IF MessageId[m] = NoId THEN Counted(m)
    ELSE \E n \in Mail : /\ Counted(n) /\ MessageId[n] = MessageId[m]
                         /\ \A o \in Mail : Counted(o) /\ MessageId[o] = MessageId[m] => o = n

(* A row says ingested only when the artifact it names is stored, queued   *)
(* and registered, whatever runs were broken off before.                   *)
IngestedIsQueued ==
  \A m \in Mail : InLedger(m) /\ ledger[m].state = "ingested" =>
    LET a == ledger[m].artifact
    IN a \in stored /\ a \in artifacts /\ Exists(FirstJob(a))

(* Work in the queue that came through the ledger is known to it by name,  *)
(* for `failures` and `retry` to find, or will be, its message being still *)
(* to be ingested.                                                         *)
LedgerKnowsItsWork ==
  \A k \in Job : Exists(k) /\ k[1] \notin added =>
    \E m \in Mail : /\ InLedger(m) /\ Text(m) = k[1]
                    /\ ledger[m].state = "archived" \/ ledger[m].artifact = k[1]
=============================================================================
