------------------------------ MODULE Entities ------------------------------
(***************************************************************************)
(* Entity resolution: the `entities` stage (handlers.py) over the table    *)
(* `entities`, its vectors (entities_index.py) and the notes under         *)
(* corpus/entities.                                                        *)
(*                                                                         *)
(* A candidate, a name and a type, is looked up by both, then among the    *)
(* nearest entities, where a language model has the last word; it links to *)
(* what is found, or an entity is created under the first free id of its   *)
(* name. Each statement below is one commit, and the process may be killed *)
(* between any two. Unlike dedup the stage refuses no second pass: a retry *)
(* asks the model again and mentions again.                                *)
(*                                                                         *)
(* Of a note only its mentions are kept; one is identified by the source,  *)
(* the pass over it and the place of the candidate. What the models find   *)
(* is arbitrary. URLs, dates, metadata and costs are left out.             *)
(***************************************************************************)
EXTENDS Naturals, FiniteSets

CONSTANTS
  Source,          (* artifacts entities are extracted from                *)
  Name, Type,      (* what a candidate is made of                          *)
  Id,              (* entity ids                                           *)
  IdFor,           (* name -> its slug, its slug with -2, with -3, ...     *)
  MaxCandidates,   (* bound: candidates in an extraction                   *)
  MaxRuns,         (* bound: source -> passes over it                      *)
  MaxCrashes,      (* bound: processes killed half way                     *)
  OneWriter,       (* whether the stage runs for one source at a time      *)
  NoRow, NoNote, NoId, NoCandidate

Candidate == Name \X Type

Place == 1..MaxCandidates

Mention == [src : Source, run : UNION {1..MaxRuns[s] : s \in Source}, pos : Place]

Row == [candidate : Candidate, mentions : Nat]

ASSUME EntitiesAssumption ==
  /\ {MaxCandidates, MaxCrashes} \subseteq Nat
  /\ MaxRuns \in [Source -> Nat]
  /\ OneWriter \in BOOLEAN
  /\ \A n \in Name : \A i \in DOMAIN IdFor[n] : IdFor[n][i] \in Id
  /\ NoRow \notin Row /\ NoId \notin Id /\ NoCandidate \notin Candidate
  /\ \A note \in SUBSET Mention : note # NoNote

VARIABLES
  rows,            (* the entities table                                   *)
  vecs,            (* ids in entities_vec                                  *)
  notes,           (* id -> the mentions in its note                       *)
  work,            (* what the stage is doing for each source              *)
  run,             (* passes begun, per source                             *)
  result,          (* entities.json: the ids the last whole pass linked    *)
  crashes

stores == <<rows, vecs, notes>>
vars == <<rows, vecs, notes, work, run, result, crashes>>

(* A pass: its next statement, the place it is at, the candidate there,    *)
(* the entity chosen for it with its note as it was read, and the ids it   *)
(* has created or linked.                                                  *)
Step == {"idle", "look", "resolve", "write", "bump", "insert", "index"}
Work == [step : Step, pos : 1..(MaxCandidates + 1), candidate : Candidate \cup {NoCandidate},
         id : Id \cup {NoId}, note : SUBSET Mention, ids : SUBSET Id]

Looking(p, ids) == [step |-> "look", pos |-> p, candidate |-> NoCandidate,
                    id |-> NoId, note |-> {}, ids |-> ids]
Idle == [Looking(1, {}) EXCEPT !.step = "idle"]

At(s, step) == work[s].step = step
AtWork == {s \in Source : ~At(s, "idle")}
Here(s) == [src |-> s, run |-> run[s], pos |-> work[s].pos]
Known(id) == rows[id] # NoRow
NextPlace(s) == Looking(work[s].pos + 1, work[s].ids \cup {work[s].id})

Init ==
  /\ rows = [id \in Id |-> NoRow]
  /\ vecs = {}
  /\ notes = [id \in Id |-> NoNote]
  /\ work = [s \in Source |-> Idle]
  /\ run = [s \in Source |-> 0]
  /\ result = [s \in Source |-> {}]
  /\ crashes = 0
-----------------------------------------------------------------------------
Begin(s) ==
  /\ At(s, "idle")
  /\ OneWriter => AtWork = {}
  /\ run[s] < MaxRuns[s]
  /\ work' = [work EXCEPT ![s] = Looking(1, {})]
  /\ run' = [run EXCEPT ![s] = @ + 1]
  /\ UNCHANGED <<stores, result, crashes>>

(* An entity is found, and its note is read.                               *)
Chosen(s, c, id) ==
  [work EXCEPT ![s] = [@ EXCEPT !.step = "write", !.candidate = c,
                                !.id = id, !.note = notes[id]]]

(* by_name: the next candidate is known by name and type.                  *)
Link(s, c) ==
  /\ At(s, "look") /\ work[s].pos \in Place
  /\ \E id \in Id : /\ Known(id) /\ rows[id].candidate = c
                    /\ notes[id] # NoNote
                    /\ work' = Chosen(s, c, id)
  /\ UNCHANGED <<stores, run, result, crashes>>

(* Mutant: by_name looks among the indexed entities.                       *)
Miss_unindexed(s, c) ==
  /\ At(s, "look") /\ work[s].pos \in Place
  /\ \A id \in vecs : Known(id) => rows[id].candidate # c
  /\ work' = [work EXCEPT ![s] = [@ EXCEPT !.step = "resolve", !.candidate = c]]
  /\ UNCHANGED <<stores, run, result, crashes>>

(* It is not.                                                              *)
Miss(s, c) ==
  /\ At(s, "look") /\ work[s].pos \in Place
  /\ \A id \in Id : Known(id) => rows[id].candidate # c
  /\ work' = [work EXCEPT ![s] = [@ EXCEPT !.step = "resolve", !.candidate = c]]
  /\ UNCHANGED <<stores, run, result, crashes>>

(* A near one is the same, says the model.                                 *)
Confirm(s, id) ==
  /\ At(s, "resolve")
  /\ id \in vecs /\ Known(id)
  /\ notes[id] # NoNote
  /\ work' = Chosen(s, work[s].candidate, id)
  /\ UNCHANGED <<stores, run, result, crashes>>

(* Mutant: the mentions of the entity start anew.                          *)
AddMention_replaces(s) ==
  /\ At(s, "write")
  /\ notes' = [notes EXCEPT ![work[s].id] = {Here(s)}]
  /\ work' = [work EXCEPT ![s].step = "bump"]
  /\ UNCHANGED <<rows, vecs, run, result, crashes>>

(* _add_mention: the note as it was read is written back with a mention,   *)
(* then the row counts it.                                                 *)
AddMention(s) ==
  /\ At(s, "write")
  /\ notes' = [notes EXCEPT ![work[s].id] = work[s].note \cup {Here(s)}]
  /\ work' = [work EXCEPT ![s].step = "bump"]
  /\ UNCHANGED <<rows, vecs, run, result, crashes>>

Bump(s) ==
  /\ At(s, "bump")
  /\ rows' = IF Known(work[s].id) THEN [rows EXCEPT ![work[s].id].mentions = @ + 1] ELSE rows
  /\ work' = [work EXCEPT ![s] = NextPlace(s)]
  /\ UNCHANGED <<vecs, notes, run, result, crashes>>

(* Mutant: the slug is taken, whoever has it.                              *)
UniqueId_slug(name, id) == id = IdFor[name][1]

(* _unique_entity_id: the first of the name's ids that no row has.         *)
UniqueId(name, id) ==
  \E i \in DOMAIN IdFor[name] :
    /\ id = IdFor[name][i] /\ ~Known(id)
    /\ \A j \in DOMAIN IdFor[name] : j < i => Known(IdFor[name][j])

(* None is the same: a new entity, its note first.                         *)
Create(s) ==
  /\ At(s, "resolve")
  /\ \E id \in Id :
       /\ UniqueId(work[s].candidate[1], id)
       /\ notes' = [notes EXCEPT ![id] = {Here(s)}]
       /\ work' = [work EXCEPT ![s] = [@ EXCEPT !.step = "insert", !.id = id]]
  /\ UNCHANGED <<rows, vecs, run, result, crashes>>

(* Mutant: the column's default is not what the caller counts on.          *)
Insert_zero(s) ==
  /\ At(s, "insert")
  /\ rows' = [rows EXCEPT ![work[s].id] = [candidate |-> work[s].candidate, mentions |-> 0]]
  /\ work' = [work EXCEPT ![s].step = "index"]
  /\ UNCHANGED <<vecs, notes, run, result, crashes>>

(* Mutant: the row has the name without the type.                          *)
Insert_untyped(s) ==
  /\ At(s, "insert")
  /\ rows' = [rows EXCEPT ![work[s].id] = [candidate |-> work[s].candidate[1], mentions |-> 1]]
  /\ work' = [work EXCEPT ![s].step = "index"]
  /\ UNCHANGED <<vecs, notes, run, result, crashes>>

Insert(s) ==
  /\ At(s, "insert")
  /\ rows' = [rows EXCEPT ![work[s].id] = [candidate |-> work[s].candidate, mentions |-> 1]]
  /\ work' = [work EXCEPT ![s].step = "index"]
  /\ UNCHANGED <<vecs, notes, run, result, crashes>>

Index(s) ==
  /\ At(s, "index")
  /\ vecs' = vecs \cup {work[s].id}
  /\ work' = [work EXCEPT ![s] = NextPlace(s)]
  /\ UNCHANGED <<rows, notes, run, result, crashes>>

(* All candidates are through: the vault commits, entities.json is written.*)
Finish(s) ==
  /\ At(s, "look")
  /\ result' = [result EXCEPT ![s] = work[s].ids]
  /\ work' = [work EXCEPT ![s] = Idle]
  /\ UNCHANGED <<stores, run, crashes>>

(* A model call or git raises: what is written so far stays. So it does    *)
(* when a write does, which is a Crash below: the pass goes no further.    *)
Raise(s) ==
  /\ At(s, "look") \/ At(s, "resolve")
  /\ work' = [work EXCEPT ![s] = Idle]
  /\ UNCHANGED <<stores, run, result, crashes>>

(* The process is killed between two statements, or one of them raises.    *)
Crash(s) ==
  /\ ~At(s, "idle")
  /\ crashes < MaxCrashes
  /\ crashes' = crashes + 1
  /\ work' = [work EXCEPT ![s] = Idle]
  /\ UNCHANGED <<stores, run, result>>

Entity(s) ==
  \/ Begin(s) \/ (\E c \in Candidate : Link(s, c) \/ Miss(s, c))
  \/ (\E id \in Id : Confirm(s, id)) \/ AddMention(s) \/ Bump(s)
  \/ Create(s) \/ Insert(s) \/ Index(s) \/ Finish(s) \/ Raise(s) \/ Crash(s)

Next == \E s \in Source : Entity(s)

Spec == Init /\ [][Next]_vars
-----------------------------------------------------------------------------
EntitiesTypeOK ==
  /\ rows \in [Id -> Row \cup {NoRow}]
  /\ vecs \subseteq Id
  /\ notes \in [Id -> {NoNote} \cup SUBSET Mention]
  /\ work \in [Source -> Work]
  /\ run \in [Source -> Nat] /\ \A s \in Source : run[s] <= MaxRuns[s]
  /\ result \in [Source -> SUBSET Id]
  /\ crashes \in 0..MaxCrashes

(* A row never counts more mentions than its note has, whatever is killed  *)
(* and however often the stage is retried; with no kill it counts all of   *)
(* them once nothing is under way, and has its vector, so that a later     *)
(* candidate of another spelling can find it.                              *)
MentionsAreCounted ==
  /\ \A id \in Id : Known(id) => /\ notes[id] # NoNote
                                 /\ rows[id].mentions <= Cardinality(notes[id])
  /\ crashes = 0 /\ AtWork = {} =>
       \A id \in Id : /\ Known(id) <=> notes[id] # NoNote
                      /\ Known(id) <=> id \in vecs
                      /\ Known(id) => rows[id].mentions = Cardinality(notes[id])

(* One name and type is one entity: by_name has at most one row to find,   *)
(* however creations are broken off and retried.                           *)
OneEntityPerName ==
  \A i, j \in Id : Known(i) /\ Known(j) /\ rows[i].candidate = rows[j].candidate => i = j

(* What an entity has been mentioned by it stays mentioned by: no entity   *)
(* takes the id, and with it the note, of another with the same slug.      *)
MentionsAreKept ==
  [][\A id \in Id : Known(id) =>
       /\ rows'[id] # NoRow /\ rows'[id].candidate = rows[id].candidate
       /\ notes[id] \subseteq notes'[id]]_vars

(* The ids that entities.json lists as created or linked are entities, and *)
(* their notes mention the source.                                         *)
ResultIsTrue ==
  \A s \in Source : \A id \in result[s] :
    Known(id) /\ \E m \in notes[id] : m.src = s
=============================================================================
