----------------------------- MODULE Dashboard -----------------------------
(***************************************************************************)
(* The dashboard's executor (dashboard/executor.py) next to the workers    *)
(* and commands of Orchestrator: a queue of artifacts fed by the cockpit's *)
(* step and process buttons, and a pool of threads of one process that run *)
(* the ready stages of an artifact, one (step) or all (process).           *)
(*                                                                         *)
(* The set of artifacts queued or in flight and the queue are guarded by   *)
(* one lock: what the code does holding it is one step. The threads claim  *)
(* rows by compare-and-set, look at no control, and mark a stage that      *)
(* raises as failed whatever its attempts.                                 *)
(***************************************************************************)
EXTENDS Orchestrator

VARIABLES
  queue,           (* _q: <<artifact, to_done>> in the order of enqueueing *)
  inflight,        (* _inflight                                            *)
  item,            (* item[t]: what thread t took from the queue, and the  *)
                   (* stage it has found ready                             *)
  resident         (* the pipeline's Ollama models: "loaded" since the last *)
                   (* stop, "kept" by a stop that failed, or "none" is in   *)
                   (* memory                                                *)

dashVars == <<queue, inflight, item, resident>>
allVars == <<vars, dashVars>>

NoItem == [art |-> "none", toDone |-> FALSE, stage |-> NoStage]

(* Artifacts are hex digests. *)
ASSUME DashboardAssumption == NoItem.art \notin Artifact

DashInit ==
  /\ Init
  /\ queue = << >> /\ inflight = {}
  /\ item = [t \in Thread |-> NoItem]
  /\ resident = "none"

(* What no thread step changes. *)
Others == <<ctl, processed, flips, writes>>
-----------------------------------------------------------------------------
(* Mutant: no look at _inflight. *)
Enqueue_twice(a, toDone) ==
  /\ Give("enqueue")
  /\ inflight' = inflight \cup {a}
  /\ queue' = Append(queue, <<a, toDone>>)
  /\ UNCHANGED <<jobs, clock, runVars, Others, crashes, item, resident>>

(* enqueue, for one artifact: nothing happens to one queued or in flight.  *)
Enqueue(a, toDone) ==
  /\ Give("enqueue")
  /\ a \notin inflight
  /\ inflight' = inflight \cup {a}
  /\ queue' = Append(queue, <<a, toDone>>)
  /\ UNCHANGED <<jobs, clock, runVars, Others, crashes, item, resident>>

(* _q.get() *)
Get(t) ==
  /\ pc[t] = "idle" /\ queue # << >>
  /\ item' = [item EXCEPT ![t] = [art |-> Head(queue)[1], toDone |-> Head(queue)[2],
                                  stage |-> NoStage]]
  /\ queue' = Tail(queue)
  /\ Goto(t, "look")
  /\ UNCHANGED <<jobs, clock, files, task, loc, Others, issued, crashes, inflight, resident>>

ReadyJobs(a) == {k \in Job : k[1] = a /\ jobs[k].status = "ready"}

(* _ready_stage finds the artifact's oldest ready row. *)
Look(t) ==
  /\ pc[t] = "look"
  /\ \E k \in ReadyJobs(item[t].art) :
       /\ Oldest(ReadyJobs(item[t].art), k)
       /\ item' = [item EXCEPT ![t].stage = k[2]]
  /\ Goto(t, "cas")
  /\ UNCHANGED <<jobs, clock, files, task, loc, Others, issued, crashes,
                 queue, inflight, resident>>

(* Mutant: the finally clause is skipped. *)
LookNothing_forgets(t) ==
  /\ pc[t] = "look"
  /\ ReadyJobs(item[t].art) = {}
  /\ Goto(t, "idle")
  /\ UNCHANGED <<jobs, clock, files, task, loc, Others, issued, crashes, dashVars>>

(* It finds none: run_frontier returns. *)
LookNothing(t) ==
  /\ pc[t] = "look"
  /\ ReadyJobs(item[t].art) = {}
  /\ Goto(t, "leave")
  /\ UNCHANGED <<jobs, clock, files, task, loc, Others, issued, crashes, dashVars>>

Chosen(t) == <<item[t].art, item[t].stage>>

(* Mutant: the UPDATE without AND status = 'ready'. *)
ClaimChosen_blind(t) ==
  /\ pc[t] = "cas"
  /\ ClaimRow(Chosen(t))
  /\ Take(t, Chosen(t))
  /\ UNCHANGED <<files, Others, issued, crashes, dashVars>>

(* _claim flips the row if it is still ready. *)
ClaimChosen(t) ==
  /\ pc[t] = "cas"
  /\ jobs[Chosen(t)].status = "ready"
  /\ ClaimRow(Chosen(t))
  /\ Take(t, Chosen(t))
  /\ UNCHANGED <<files, Others, issued, crashes, dashVars>>

(* A worker or another thread was faster: run_frontier gives up. *)
LoseRace(t) ==
  /\ pc[t] = "cas"
  /\ jobs[Chosen(t)].status # "ready"
  /\ Goto(t, "leave")
  /\ UNCHANGED <<jobs, clock, files, task, loc, Others, issued, crashes, dashVars>>

(* run_stage *)
ThreadBody(t) == RunBody(t) /\ UNCHANGED dashVars

(* A handler calls a model that is not in memory, at any time while it runs. *)
LoadModel(t) ==
  /\ pc[t] = "handle" /\ resident # "loaded"
  /\ resident' = "loaded"
  /\ UNCHANGED <<vars, queue, inflight, item>>

ThreadReturns(t) ==
  /\ Returns(t)
  /\ DropTo(t, IF item[t].toDone THEN "look" ELSE "leave")
  /\ UNCHANGED <<Others, issued, crashes, dashVars>>

ThreadRaises(t) ==
  /\ Raises(t)
  /\ Goto(t, "give up")
  /\ UNCHANGED <<jobs, clock, files, task, loc, Others, issued, crashes, dashVars>>

(* Mutant: the UPDATE without AND stage = ?. *)
MarkFailed_all(t) ==
  /\ pc[t] = "give up"
  /\ jobs' = [k \in Job |-> IF k[1] = item[t].art /\ Exists(k)
                            THEN [jobs[k] EXCEPT !.status = "failed"] ELSE jobs[k]]
  /\ DropTo(t, "leave")
  /\ UNCHANGED <<clock, files, Others, issued, crashes, dashVars>>

(* mark_failed: no attempt is counted. *)
MarkFailed(t) ==
  /\ pc[t] = "give up"
  /\ jobs' = [jobs EXCEPT ![task[t]].status = "failed"]
  /\ DropTo(t, "leave")
  /\ UNCHANGED <<clock, files, Others, issued, crashes, dashVars>>

(* One of run_frontier's own statements raises (the database is locked):   *)
(* _worker swallows it. The row of a claimed stage is left as it is.       *)
Swallow(t) ==
  /\ pc[t] \in {"look", "cas", "give up"}
  /\ DropTo(t, "leave")
  /\ UNCHANGED <<jobs, clock, files, Others, issued, crashes, dashVars>>

(* Mutant: idle is computed before the artifact is discarded. *)
Leave_early_test(t) ==
  /\ pc[t] = "leave"
  /\ Goto(t, IF queue = << >> /\ inflight = {} THEN "unload" ELSE "idle")
  /\ inflight' = inflight \ {item[t].art}
  /\ item' = [item EXCEPT ![t] = NoItem]
  /\ UNCHANGED <<jobs, clock, files, task, loc, Others, issued, crashes, queue, resident>>

(* The finally clause: the artifact may be enqueued again, and the thread  *)
(* that empties the executor is the one to unload the models.              *)
Leave(t) ==
  /\ pc[t] = "leave"
  /\ inflight' = inflight \ {item[t].art}
  /\ item' = [item EXCEPT ![t] = NoItem]
  /\ Goto(t, IF queue = << >> /\ inflight' = {} THEN "unload" ELSE "idle")
  /\ UNCHANGED <<jobs, clock, files, task, loc, Others, issued, crashes, queue, resident>>

(* _unload_ollama, without the lock. Each model's stop may find no CLI,    *)
(* time out or exit with an error, and nobody looks: the models may stay.  *)
Unload(t) ==
  /\ pc[t] = "unload"
  /\ resident' \in {"none"} \cup (IF resident = "none" THEN {} ELSE {"kept"})
  /\ Goto(t, "idle")
  /\ UNCHANGED <<jobs, clock, files, task, loc, Others, issued, crashes,
                 queue, inflight, item>>

ThreadStep(t) ==
  \/ Get(t) \/ Look(t) \/ LookNothing(t) \/ ClaimChosen(t) \/ LoseRace(t)
  \/ ThreadBody(t) \/ LoadModel(t) \/ ThreadReturns(t)
  \/ ThreadRaises(t) \/ MarkFailed(t) \/ Swallow(t)
  \/ Leave(t) \/ Unload(t)

(* The dashboard's process dies and is restarted: the queue was in memory. *)
DashCrash ==
  /\ crashes < MaxCrashes
  /\ inflight # {}
  /\ crashes' = crashes + 1
  /\ queue' = << >> /\ inflight' = {}
  /\ item' = [t \in Thread |-> NoItem]
  /\ pc' = [r \in Runner |-> IF r \in Thread THEN "idle" ELSE pc[r]]
  /\ task' = [r \in Runner |-> IF r \in Thread THEN NoJob ELSE task[r]]
  /\ loc' = [r \in Runner |-> IF r \in Thread THEN NoLocals ELSE loc[r]]
  /\ UNCHANGED <<jobs, clock, files, Others, issued, resident>>

DashNext ==
  \/ Next /\ UNCHANGED dashVars
  \/ \E a \in Artifact, toDone \in BOOLEAN : Enqueue(a, toDone)
  \/ \E t \in Thread : ThreadStep(t)
  \/ DashCrash

DashSpec == DashInit /\ [][DashNext]_allVars

(* Threads of a live process are scheduled. *)
DashFairness == \A t \in Thread : WF_allVars(ThreadStep(t))

DashFairSpec == DashSpec /\ DashFairness
-----------------------------------------------------------------------------
(* Properties *)

DashTypeOK ==
  /\ TypeOK
  /\ queue \in Seq(Artifact \X BOOLEAN)
  /\ inflight \subseteq Artifact
  /\ item \in [Thread -> [art : Artifact, toDone : BOOLEAN, stage : Stage \cup {NoStage}]
                            \cup {NoItem}]
  /\ resident \in {"none", "loaded", "kept"}

(* The executor's artifacts: those in the queue and those of its threads.  *)
Queued == {queue[i][1] : i \in DOMAIN queue}
InHand == {item[t].art : t \in {u \in Thread : item[u] # NoItem}}

(* Enqueueing is idempotent: _inflight is exactly what is queued or in a   *)
(* thread's hands, and nothing is there twice, so that no button pressed   *)
(* twice runs an artifact twice and none is locked out for good.           *)
InflightIsWork ==
  /\ inflight = Queued \cup InHand
  /\ Queued \cap InHand = {}
  /\ \A i, j \in DOMAIN queue : queue[i][1] = queue[j][1] => i = j
  /\ \A t, u \in Thread :
       t # u /\ item[t] # NoItem /\ item[u] # NoItem => item[t].art # item[u].art

(* A drained executor never forgets the models it has used: while there    *)
(* are models used since the last stop, an artifact is in flight or a      *)
(* thread is about to stop them. That the stop works is not promised: a    *)
(* model that was kept stays in memory until the queue drains again.       *)
EveryModelIsToldToStop ==
  resident = "loaded" /\ crashes = 0
  => inflight # {} \/ \E t \in Thread : pc[t] = "unload"

(* Whatever is enqueued is dealt with in the end. *)
EnqueuedIsDealtWith == \A a \in Artifact : a \in inflight ~> a \notin inflight
=============================================================================
