-------------------------- MODULE Entities_proofs --------------------------
(***************************************************************************)
(* Proofs about Entities: that rows count what their notes mention, that a *)
(* name and type is one entity, that mentions are kept and entities.json   *)
(* is true, for any sources, names and ids and any number of passes and    *)
(* kills, with one pass at a time.                                         *)
(***************************************************************************)
EXTENDS Entities, FiniteSetTheorems, TLAPS

(* What a pass has at hand at each statement.                              *)
Control ==
  \A s \in Source :
    /\ ~At(s, "idle") => run[s] \in 1..MaxRuns[s]
    /\ work[s].step \in {"resolve", "write", "bump", "insert", "index"} =>
         work[s].candidate \in Candidate /\ work[s].pos \in Place
    /\ work[s].step \in {"write", "bump", "insert", "index"} => work[s].id \in Id

(* Notes are finite, so that counting them means something.                *)
Finite ==
  /\ \A id \in Id : notes[id] # NoNote => IsFiniteSet(notes[id])
  /\ \A s \in Source : IsFiniteSet(work[s].note)

TypeInv == EntitiesTypeOK /\ Control /\ Finite

LEMMA LookingTyped ==
  ASSUME NEW p \in 1..(MaxCandidates + 1), NEW ids \in SUBSET Id
  PROVE  /\ Looking(p, ids) \in Work /\ Looking(p, ids).step = "look"
         /\ Looking(p, ids).ids = ids /\ Looking(p, ids).pos = p
         /\ IsFiniteSet(Looking(p, ids).note)
  BY FS_EmptySet DEF Looking, Work, Step

LEMMA IdleTyped == Idle \in Work /\ Idle.step = "idle" /\ Idle.ids = {} /\ IsFiniteSet(Idle.note)
<1> 1 \in 1..(MaxCandidates + 1) BY EntitiesAssumption
<1> QED BY FS_EmptySet DEF Idle, Looking, Work, Step

LEMMA HereIsMention ==
  ASSUME TypeInv, NEW s \in Source, ~At(s, "idle"), work[s].pos \in Place
  PROVE  Here(s) \in Mention
  BY DEF TypeInv, Control, Here, Mention

LEMMA NextPlaceTyped ==
  ASSUME TypeInv, NEW s \in Source, work[s].pos \in Place, work[s].id \in Id
  PROVE  /\ NextPlace(s) \in Work /\ NextPlace(s).step = "look"
         /\ NextPlace(s).ids = work[s].ids \cup {work[s].id}
         /\ NextPlace(s).pos = work[s].pos + 1
         /\ IsFiniteSet(NextPlace(s).note)
<1>1. work[s].pos + 1 \in 1..(MaxCandidates + 1)
  BY EntitiesAssumption DEF Place
<1>2. work[s].ids \cup {work[s].id} \in SUBSET Id
  BY DEF TypeInv, EntitiesTypeOK, Work
<1> QED BY <1>1, <1>2, LookingTyped DEF NextPlace

(* A step that gives s a new record of work keeps what the others have.    *)
LEMMA WorkTyped ==
  ASSUME TypeInv, NEW s \in Source, NEW w \in Work, work' = [work EXCEPT ![s] = w],
         IsFiniteSet(w.note), run' = run,
         w.step # "idle" => run[s] \in 1..MaxRuns[s],
         w.step \in {"resolve", "write", "bump", "insert", "index"} =>
           w.candidate \in Candidate /\ w.pos \in Place,
         w.step \in {"write", "bump", "insert", "index"} => w.id \in Id
  PROVE  work' \in [Source -> Work] /\ Control' /\ \A t \in Source : IsFiniteSet(work'[t].note)
  BY DEF TypeInv, EntitiesTypeOK, Control, Finite, At

LEMMA TypeInit == Init => TypeInv
  BY IdleTyped, EntitiesAssumption
  DEF Init, TypeInv, EntitiesTypeOK, Control, Finite, At

LEMMA TypeStep == TypeInv /\ [Next]_vars => TypeInv'
<1> SUFFICES ASSUME TypeInv, [Next]_vars PROVE TypeInv'
  OBVIOUS
<1> USE DEF At
<1>1. ASSUME NEW s \in Source, Begin(s) PROVE TypeInv'
  <2> 1 \in 1..(MaxCandidates + 1) /\ {} \in SUBSET Id
    BY EntitiesAssumption
  <2> Looking(1, {}) \in Work /\ Looking(1, {}).step = "look" /\ IsFiniteSet(Looking(1, {}).note)
    BY LookingTyped
  <2>0. \A t \in Source : MaxRuns[t] \in Nat /\ run[t] \in Nat /\ run[t] <= MaxRuns[t]
    BY EntitiesAssumption DEF TypeInv, EntitiesTypeOK
  <2>5. run' = [run EXCEPT ![s] = run[s] + 1] /\ run[s] < MaxRuns[s] /\ run \in [Source -> Nat]
    BY <1>1 DEF Begin, TypeInv, EntitiesTypeOK
  <2>1. run' \in [Source -> Nat] /\ \A t \in Source : run'[t] <= MaxRuns[t]
    BY <2>0, <2>5
  <2>2. run'[s] \in 1..MaxRuns[s]
    BY <2>0, <2>5
  <2>3. EntitiesTypeOK'
    BY <1>1, <2>1 DEF Begin, TypeInv, EntitiesTypeOK, stores
  <2>4. Control' /\ Finite'
    BY <1>1, <2>2 DEF Begin, TypeInv, EntitiesTypeOK, stores, Control, Finite
  <2> QED BY <2>3, <2>4 DEF TypeInv
<1>2. ASSUME NEW s \in Source, NEW c \in Candidate, Link(s, c) PROVE TypeInv'
  <2> PICK id \in Id : Known(id) /\ notes[id] # NoNote /\ work' = Chosen(s, c, id)
    BY <1>2 DEF Link
  <2> DEFINE w == [work[s] EXCEPT !.step = "write", !.candidate = c, !.id = id, !.note = notes[id]]
  <2>1. w \in Work /\ work' = [work EXCEPT ![s] = w] /\ IsFiniteSet(w.note)
        /\ w.step = "write" /\ w.candidate = c /\ w.id = id /\ w.pos = work[s].pos
    BY DEF Chosen, TypeInv, EntitiesTypeOK, Work, Step, Finite
  <2>2. work' \in [Source -> Work] /\ Control' /\ \A t \in Source : IsFiniteSet(work'[t].note)
    <3> HIDE DEF w
    <3> QED BY <1>2, <2>1, WorkTyped DEF Link, TypeInv, Control
  <2> QED BY <1>2, <2>2 DEF Link, TypeInv, EntitiesTypeOK, stores, Finite
<1>3. ASSUME NEW s \in Source, NEW c \in Candidate, Miss(s, c) PROVE TypeInv'
  <2> DEFINE w == [work[s] EXCEPT !.step = "resolve", !.candidate = c]
  <2>1. w \in Work /\ work' = [work EXCEPT ![s] = w] /\ IsFiniteSet(w.note)
        /\ w.step = "resolve" /\ w.candidate = c /\ w.pos = work[s].pos
    BY <1>3 DEF Miss, TypeInv, EntitiesTypeOK, Work, Step, Finite
  <2>2. work' \in [Source -> Work] /\ Control' /\ \A t \in Source : IsFiniteSet(work'[t].note)
    <3> HIDE DEF w
    <3> QED BY <1>3, <2>1, WorkTyped DEF Miss, TypeInv, Control
  <2> QED BY <1>3, <2>2 DEF Miss, TypeInv, EntitiesTypeOK, stores, Finite
<1>4. ASSUME NEW s \in Source, NEW id \in Id, Confirm(s, id) PROVE TypeInv'
  <2> DEFINE w == [work[s] EXCEPT !.step = "write", !.candidate = work[s].candidate,
                                  !.id = id, !.note = notes[id]]
  <2>1. w \in Work /\ work' = [work EXCEPT ![s] = w] /\ IsFiniteSet(w.note)
        /\ w.step = "write" /\ w.candidate = work[s].candidate /\ w.id = id
        /\ w.pos = work[s].pos
    BY <1>4 DEF Confirm, Chosen, TypeInv, EntitiesTypeOK, Work, Step, Finite
  <2>2. work' \in [Source -> Work] /\ Control' /\ \A t \in Source : IsFiniteSet(work'[t].note)
    <3> HIDE DEF w
    <3> QED BY <1>4, <2>1, WorkTyped DEF Confirm, TypeInv, Control
  <2> QED BY <1>4, <2>2 DEF Confirm, TypeInv, EntitiesTypeOK, stores, Finite
<1>5. ASSUME NEW s \in Source, AddMention(s) PROVE TypeInv'
  <2> DEFINE w == [work[s] EXCEPT !.step = "bump"]
  <2>1. w \in Work /\ work' = [work EXCEPT ![s] = w] /\ IsFiniteSet(w.note)
        /\ w.step = "bump" /\ w.candidate = work[s].candidate /\ w.id = work[s].id
        /\ w.pos = work[s].pos
    BY <1>5 DEF AddMention, TypeInv, EntitiesTypeOK, Work, Step, Finite
  <2>2. work' \in [Source -> Work] /\ Control' /\ \A t \in Source : IsFiniteSet(work'[t].note)
    <3> HIDE DEF w
    <3> QED BY <1>5, <2>1, WorkTyped DEF AddMention, TypeInv, Control
  <2>3. Here(s) \in Mention
    BY <1>5, HereIsMention DEF AddMention, TypeInv, Control
  <2>4. IsFiniteSet(work[s].note \cup {Here(s)}) /\ work[s].note \cup {Here(s)} \in SUBSET Mention
    BY <2>3, FS_AddElement DEF TypeInv, Finite, EntitiesTypeOK, Work
  <2>5. notes' \in [Id -> {NoNote} \cup SUBSET Mention]
        /\ \A id \in Id : notes'[id] # NoNote => IsFiniteSet(notes'[id])
    BY <1>5, <2>4 DEF AddMention, TypeInv, EntitiesTypeOK, Finite
  <2> QED BY <1>5, <2>2, <2>5 DEF AddMention, TypeInv, EntitiesTypeOK, Finite
<1>6. ASSUME NEW s \in Source, Bump(s) PROVE TypeInv'
  <2>1. work[s].id \in Id /\ work[s].pos \in Place
    BY <1>6 DEF Bump, TypeInv, Control
  <2>2. work' \in [Source -> Work] /\ Control' /\ \A t \in Source : IsFiniteSet(work'[t].note)
    BY <1>6, <2>1, NextPlaceTyped, WorkTyped DEF Bump, TypeInv, Control
  <2>3. rows' \in [Id -> Row \cup {NoRow}]
    BY <1>6, <2>1 DEF Bump, TypeInv, EntitiesTypeOK, Row, Known
  <2> QED BY <1>6, <2>2, <2>3 DEF Bump, TypeInv, EntitiesTypeOK, Finite
<1>7. ASSUME NEW s \in Source, Create(s) PROVE TypeInv'
  <2> PICK id \in Id : /\ notes' = [notes EXCEPT ![id] = {Here(s)}]
                       /\ work' = [work EXCEPT ![s] = [@ EXCEPT !.step = "insert", !.id = id]]
    BY <1>7 DEF Create
  <2> DEFINE w == [work[s] EXCEPT !.step = "insert", !.id = id]
  <2>1. w \in Work /\ work' = [work EXCEPT ![s] = w] /\ IsFiniteSet(w.note)
        /\ w.step = "insert" /\ w.candidate = work[s].candidate /\ w.id = id
        /\ w.pos = work[s].pos
    BY DEF TypeInv, EntitiesTypeOK, Work, Step, Finite
  <2>2. work' \in [Source -> Work] /\ Control' /\ \A t \in Source : IsFiniteSet(work'[t].note)
    <3> HIDE DEF w
    <3> QED BY <1>7, <2>1, WorkTyped DEF Create, TypeInv, Control
  <2>3. {Here(s)} \in SUBSET Mention /\ IsFiniteSet({Here(s)})
    BY <1>7, HereIsMention, FS_Singleton DEF Create, TypeInv, Control
  <2> QED BY <1>7, <2>2, <2>3 DEF Create, TypeInv, EntitiesTypeOK, Finite
<1>8. ASSUME NEW s \in Source, Insert(s) PROVE TypeInv'
  <2> DEFINE w == [work[s] EXCEPT !.step = "index"]
  <2>1. w \in Work /\ work' = [work EXCEPT ![s] = w] /\ IsFiniteSet(w.note)
        /\ w.step = "index" /\ w.candidate = work[s].candidate /\ w.id = work[s].id
        /\ w.pos = work[s].pos
    BY <1>8 DEF Insert, TypeInv, EntitiesTypeOK, Work, Step, Finite
  <2>2. work' \in [Source -> Work] /\ Control' /\ \A t \in Source : IsFiniteSet(work'[t].note)
    <3> HIDE DEF w
    <3> QED BY <1>8, <2>1, WorkTyped DEF Insert, TypeInv, Control
  <2>3. rows' \in [Id -> Row \cup {NoRow}]
    BY <1>8 DEF Insert, TypeInv, EntitiesTypeOK, Row, Control
  <2> QED BY <1>8, <2>2, <2>3 DEF Insert, TypeInv, EntitiesTypeOK, Finite
<1>9. ASSUME NEW s \in Source, Index(s) PROVE TypeInv'
  <2>1. work[s].id \in Id /\ work[s].pos \in Place
    BY <1>9 DEF Index, TypeInv, Control
  <2>2. work' \in [Source -> Work] /\ Control' /\ \A t \in Source : IsFiniteSet(work'[t].note)
    BY <1>9, <2>1, NextPlaceTyped, WorkTyped DEF Index, TypeInv, Control
  <2> QED BY <1>9, <2>1, <2>2 DEF Index, TypeInv, EntitiesTypeOK, Finite
<1>10. ASSUME NEW s \in Source, Finish(s) \/ Raise(s) \/ Crash(s) PROVE TypeInv'
  <2>1. work' = [work EXCEPT ![s] = Idle] /\ run' = run /\ rows' = rows /\ vecs' = vecs
        /\ notes' = notes /\ result' \in [Source -> SUBSET Id] /\ crashes' \in 0..MaxCrashes
    BY <1>10, EntitiesAssumption DEF Finish, Raise, Crash, stores, TypeInv, EntitiesTypeOK, Work
  <2>2. work' \in [Source -> Work] /\ Control' /\ \A t \in Source : IsFiniteSet(work'[t].note)
    BY <2>1, IdleTyped, WorkTyped
  <2> QED BY <2>1, <2>2 DEF TypeInv, EntitiesTypeOK, Finite
<1>11. CASE UNCHANGED vars
  BY <1>11 DEF vars, TypeInv, EntitiesTypeOK, Control, Finite
<1> QED
  BY <1>1, <1>2, <1>3, <1>4, <1>5, <1>6, <1>7, <1>8, <1>9, <1>10, <1>11 DEF Next, Entity

LEMMA TypeInvariant == Spec => []TypeInv
<1> QED BY TypeInit, TypeStep, PTL DEF Spec

(* Every variable keeps its type, for any constants.                       *)
THEOREM EntitiesTyped == Spec => []EntitiesTypeOK
<1> TypeInv => EntitiesTypeOK BY DEF TypeInv
<1> QED BY TypeInvariant, PTL
-----------------------------------------------------------------------------
(* The second invariant, of one pass at a time. At most one is at work; no *)
(* note has a mention of a place still ahead of its source.                *)
Solo == \A s, t \in AtWork : s = t

Past ==
  \A id \in Id : notes[id] # NoNote =>
    \A m \in notes[id] :
      /\ m.run <= run[m.src]
      /\ m.run = run[m.src] /\ ~At(m.src, "idle") =>
           \/ m.pos < work[m.src].pos
           \/ m.pos = work[m.src].pos /\ work[m.src].step \in {"bump", "insert", "index"}

(* What a statement can count on: that what was looked up is still so.     *)
Unnamed(s) == \A id \in Id : Known(id) => rows[id].candidate # work[s].candidate
Noted(s) == notes[work[s].id] # NoNote /\ Here(s) \in notes[work[s].id]

Underway ==
  \A s \in Source :
    /\ At(s, "resolve") => Unnamed(s)
    /\ At(s, "write") => /\ Known(work[s].id) /\ notes[work[s].id] # NoNote
                         /\ work[s].note = notes[work[s].id]
    /\ At(s, "bump") => /\ Known(work[s].id) /\ Noted(s)
                        /\ rows[work[s].id].mentions + 1 <= Cardinality(notes[work[s].id])
    /\ At(s, "insert") => /\ Unnamed(s) /\ ~Known(work[s].id)
                          /\ notes[work[s].id] = {Here(s)}
    /\ At(s, "index") => Known(work[s].id) /\ Noted(s)

Sound ==
  \A id \in Id : Known(id) => /\ notes[id] # NoNote
                              /\ rows[id].mentions <= Cardinality(notes[id])

MentionedBy(id, s) == Known(id) /\ \E m \in notes[id] : m.src = s
Results == \A s \in Source : \A id \in result[s] \cup work[s].ids : MentionedBy(id, s)

(* With no kill the three stores differ at most in the entity being        *)
(* written.                                                                *)
Doing(id, step) == \E s \in Source : At(s, step) /\ work[s].id = id

Exact ==
  crashes = 0 =>
    \A id \in Id :
      /\ ~Doing(id, "insert") => (Known(id) <=> notes[id] # NoNote)
      /\ ~Doing(id, "index") => (Known(id) <=> id \in vecs)
      /\ Known(id) => Cardinality(notes[id]) =
           IF Doing(id, "bump") THEN rows[id].mentions + 1 ELSE rows[id].mentions

Agreed == Solo /\ Past /\ Underway /\ Sound /\ OneEntityPerName /\ Results /\ Exact

SoundInv == TypeInv /\ Agreed

LEMMA SoundInit == Init => SoundInv
<1> SUFFICES ASSUME Init PROVE SoundInv
  OBVIOUS
<1>1. \A s \in Source : work[s].step = "idle" /\ work[s].ids = {} /\ result[s] = {}
  BY IdleTyped DEF Init
<1>2. \A id \in Id : rows[id] = NoRow /\ notes[id] = NoNote /\ id \notin vecs
  BY DEF Init
<1>3. Solo /\ Past /\ Underway /\ Sound /\ OneEntityPerName /\ Results /\ Exact
  BY <1>1, <1>2
  DEF Solo, AtWork, At, Past, Underway, Sound, OneEntityPerName, Results, Exact, Known
<1> QED BY TypeInit, <1>3 DEF SoundInv, Agreed

(* While a pass is at work the others rest, and go on resting.             *)
LEMMA Alone ==
  ASSUME SoundInv, NEW s \in Source, ~At(s, "idle")
  PROVE  /\ \A t \in Source : t # s => At(t, "idle")
         /\ \A id \in Id, step \in {"bump", "insert", "index"} :
              Doing(id, step) <=> At(s, step) /\ work[s].id = id
  BY DEF SoundInv, Agreed, Solo, AtWork, Doing, At

LEMMA StillAlone ==
  ASSUME SoundInv, NEW s \in Source, NEW w, work' = [work EXCEPT ![s] = w],
         \A t \in Source : t # s => At(t, "idle")
  PROVE  /\ work'[s] = w
         /\ \A t \in Source : t # s => work'[t] = work[t] /\ work'[t].step = "idle"
<1>1. work'[s] = w /\ \A t \in Source : t # s => work'[t] = work[t]
  BY DEF SoundInv, Agreed, TypeInv, EntitiesTypeOK
<1> QED BY <1>1 DEF At

LEMMA SoloStays ==
  ASSUME NEW s \in Source,
         \A t \in Source : t # s => work'[t].step = "idle"
  PROVE  /\ Solo'
         /\ \A id \in Id, step \in {"bump", "insert", "index"} :
              Doing(id, step)' <=> work'[s].step = step /\ work'[s].id = id
<1>1. Solo'
  BY DEF Solo, AtWork, At
<1>2. ASSUME NEW id \in Id, NEW step \in {"bump", "insert", "index"}
      PROVE  Doing(id, step)' <=> work'[s].step = step /\ work'[s].id = id
  BY DEF Doing, At
<1> QED BY <1>1, <1>2

(* A step that only goes on in the pass keeps what the stores say.         *)
LEMMA StoresSound ==
  ASSUME SoundInv, UNCHANGED stores
  PROVE  Sound' /\ OneEntityPerName'
  BY DEF SoundInv, Agreed, stores, Sound, OneEntityPerName, Known

LEMMA NoWorkSound ==
  ASSUME SoundInv, NEW s \in Source, work' = [work EXCEPT ![s] = Idle], ~At(s, "idle"),
         UNCHANGED <<stores, run>>, result' \in [Source -> SUBSET Id],
         \A t \in Source : result'[t] \subseteq result[t] \cup work[t].ids,
         crashes' = 0 => crashes = 0 /\ (At(s, "look") \/ At(s, "resolve"))
  PROVE  Agreed'
<1>1. \A t \in Source : work'[t].step = "idle" /\ work'[t].ids \subseteq work[t].ids
  <2>1. \A t \in Source : t # s => At(t, "idle")
    BY Alone
  <2>2. work'[s] = Idle /\ \A t \in Source : t # s => work'[t] = work[t]
    BY <2>1, StillAlone
  <2> QED BY <2>1, <2>2, IdleTyped DEF At
<1>2. Sound' /\ OneEntityPerName'
  BY StoresSound DEF stores
<1>3. Solo' /\ Underway'
  BY <1>1 DEF Solo, AtWork, Underway, At
<1>4. Past'
  <2> SUFFICES ASSUME NEW id \in Id, notes'[id] # NoNote, NEW m \in notes'[id]
               PROVE  m.run <= run'[m.src] /\ At(m.src, "idle")'
    BY DEF Past
  <2>1. m.src \in Source
    BY DEF SoundInv, Agreed, TypeInv, EntitiesTypeOK, stores, Mention
  <2> QED BY <1>1, <2>1 DEF SoundInv, Agreed, Past, stores, At
<1>5. Results'
  BY <1>1 DEF SoundInv, Agreed, Results, MentionedBy, Known, stores
<1>6. Exact'
  BY <1>1, Alone DEF SoundInv, Agreed, Exact, Doing, At, Known, stores
<1> QED BY <1>2, <1>3, <1>4, <1>5, <1>6 DEF Agreed

(* A mention ahead of its source when the next statement is due is none.   *)
LEMMA PastMoves ==
  ASSUME SoundInv, NEW s \in Source, ~At(s, "idle"), NEW w, work' = [work EXCEPT ![s] = w],
         run' = run, NEW id \in Id, notes'[id] # NoNote,
         \A m \in notes'[id] : m \in Mention,
         w.pos \in Nat, w.pos >= work[s].pos,
         w.pos = work[s].pos /\ work[s].step \in {"bump", "insert", "index"} =>
           w.step \in {"bump", "insert", "index"},
         \A m \in notes'[id] :
           \/ notes[id] # NoNote /\ m \in notes[id]
           \/ m = Here(s) /\ (w.pos > work[s].pos \/ w.step \in {"bump", "insert", "index"})
  PROVE  \A m \in notes'[id] :
           /\ m.run <= run'[m.src]
           /\ m.run = run'[m.src] /\ ~At(m.src, "idle")' =>
                \/ m.pos < work'[m.src].pos
                \/ m.pos = work'[m.src].pos
                     /\ work'[m.src].step \in {"bump", "insert", "index"}
<1> SUFFICES ASSUME NEW m \in notes'[id]
             PROVE  /\ m.run <= run'[m.src]
                    /\ m.run = run'[m.src] /\ ~At(m.src, "idle")' =>
                         \/ m.pos < work'[m.src].pos
                         \/ m.pos = work'[m.src].pos
                              /\ work'[m.src].step \in {"bump", "insert", "index"}
  OBVIOUS
<1>1. \A t \in Source : t # s => At(t, "idle")
  BY Alone
<1>2. work'[s] = w /\ \A t \in Source : t # s => work'[t].step = "idle"
  BY <1>1, StillAlone
<1>3. m.src \in Source /\ m.pos \in Nat /\ run \in [Source -> Nat] /\ work[s].pos \in Nat
  BY DEF SoundInv, Agreed, TypeInv, EntitiesTypeOK, Work, Mention, Place
<1>4. CASE notes[id] # NoNote /\ m \in notes[id]
  <2>1. m.run <= run[m.src]
        /\ (m.run = run[m.src] /\ ~At(m.src, "idle") =>
              \/ m.pos < work[m.src].pos
              \/ m.pos = work[m.src].pos /\ work[m.src].step \in {"bump", "insert", "index"})
    BY <1>3, <1>4 DEF SoundInv, Agreed, Past
  <2>2. CASE m.src = s
    BY <1>2, <1>3, <2>1, <2>2
  <2>3. CASE m.src # s
    BY <1>2, <1>3, <2>1, <2>3 DEF At
  <2> QED BY <2>2, <2>3
<1>5. CASE m = Here(s) /\ (w.pos > work[s].pos \/ w.step \in {"bump", "insert", "index"})
  BY <1>2, <1>3, <1>5 DEF Here
<1> QED BY <1>4, <1>5

LEMMA BeginSound ==
  ASSUME SoundInv, OneWriter, NEW s \in Source, Begin(s)
  PROVE  Agreed'
<1>1. \A t \in Source : At(t, "idle")
  BY DEF Begin, AtWork
<1>2. \A t \in Source : work'[t].step \in {"idle", "look"} /\ work'[t].ids \subseteq work[t].ids
  <2> 1 \in 1..(MaxCandidates + 1) /\ {} \in SUBSET Id
    BY EntitiesAssumption
  <2>1. Looking(1, {}).step = "look" /\ Looking(1, {}).ids = {}
    BY LookingTyped
  <2> QED BY <1>1, <2>1 DEF Begin, SoundInv, TypeInv, EntitiesTypeOK, At
<1>3. Solo' /\ \A t \in Source : t # s => work'[t].step = "idle"
  <2>1. \A t \in Source : t # s => work'[t] = work[t]
    BY DEF Begin, SoundInv, TypeInv, EntitiesTypeOK
  <2> QED BY <1>1, <2>1, SoloStays DEF At
<1>4. Sound' /\ OneEntityPerName'
  BY StoresSound DEF Begin
<1>5. Underway'
  BY <1>2 DEF Underway, At
<1>6. Past'
  <2> SUFFICES ASSUME NEW id \in Id, notes'[id] # NoNote, NEW m \in notes'[id]
               PROVE  m.run <= run'[m.src] /\ (m.run = run'[m.src] => At(m.src, "idle")')
    BY DEF Past
  <2>1. m.src \in Source /\ notes' = notes /\ m.run \in Nat
    <3>1. m \in Mention /\ notes' = notes
      BY DEF Begin, SoundInv, TypeInv, EntitiesTypeOK, stores
    <3>2. \A t \in Source : MaxRuns[t] \in Nat
      BY EntitiesAssumption
    <3> QED BY <3>1, <3>2 DEF Mention
  <2>2. m.run <= run[m.src] /\ run[m.src] \in Nat
    BY <2>1 DEF SoundInv, Agreed, Past, TypeInv, EntitiesTypeOK
  <2>3. CASE m.src = s
    <3> run'[s] = run[s] + 1
      BY DEF Begin, SoundInv, TypeInv, EntitiesTypeOK
    <3> QED BY <2>1, <2>2, <2>3
  <2>4. CASE m.src # s
    <3> run'[m.src] = run[m.src]
      BY <2>1, <2>4 DEF Begin, SoundInv, TypeInv, EntitiesTypeOK
    <3> QED BY <1>3, <2>1, <2>2, <2>4 DEF At
  <2> QED BY <2>3, <2>4
<1>7. Results'
  BY <1>2 DEF Begin, SoundInv, Agreed, Results, MentionedBy, Known, stores
<1>8. Exact'
  BY <1>1, <1>2 DEF Begin, SoundInv, Agreed, Exact, Doing, At, Known, stores
<1> QED BY <1>3, <1>4, <1>5, <1>6, <1>7, <1>8 DEF Agreed

(* Looking up and asking change no store, and what was looked up holds.    *)
LEMMA ReadSound ==
  ASSUME SoundInv, NEW s \in Source, At(s, "look") \/ At(s, "resolve"),
         NEW w \in Work, work' = [work EXCEPT ![s] = w],
         UNCHANGED <<stores, run, result, crashes>>,
         w.pos = work[s].pos, w.ids = work[s].ids, w.step \in {"resolve", "write"},
         w.step = "resolve" => \A id \in Id : Known(id) => rows[id].candidate # w.candidate,
         w.step = "write" => Known(w.id) /\ notes[w.id] # NoNote /\ w.note = notes[w.id]
  PROVE  Agreed'
<1>0. ~At(s, "idle") /\ ~At(s, "bump") /\ ~At(s, "insert") /\ ~At(s, "index")
  BY DEF At
<1>1. /\ work'[s] = w
      /\ \A t \in Source : t # s => At(t, "idle") /\ work'[t] = work[t] /\ work'[t].step = "idle"
  BY <1>0, Alone, StillAlone
<1>2. Solo'
  BY <1>1, SoloStays
<1>3. Sound' /\ OneEntityPerName'
  BY StoresSound DEF stores
<1>4. Underway'
  BY <1>1 DEF Underway, At, Unnamed, Known, stores
<1>5. Past'
  <2> SUFFICES ASSUME NEW id \in Id, notes'[id] # NoNote
               PROVE  \A m \in notes'[id] :
                        /\ m.run <= run'[m.src]
                        /\ m.run = run'[m.src] /\ ~At(m.src, "idle")' =>
                             \/ m.pos < work'[m.src].pos
                             \/ m.pos = work'[m.src].pos
                                  /\ work'[m.src].step \in {"bump", "insert", "index"}
    BY DEF Past
  <2>1. w.pos \in Nat /\ w.pos >= work[s].pos
    BY DEF Work
  <2>2. notes' = notes /\ \A m \in notes'[id] : m \in Mention
    BY DEF SoundInv, TypeInv, EntitiesTypeOK, stores
  <2> QED BY <1>0, <2>1, <2>2, PastMoves DEF At
<1>6. Results'
  BY <1>1 DEF SoundInv, Agreed, Results, MentionedBy, Known, stores
<1>7. Exact'
  BY <1>0, <1>1 DEF SoundInv, Agreed, Exact, Doing, At, Known, stores
<1> QED BY <1>2, <1>3, <1>4, <1>5, <1>6, <1>7 DEF Agreed

LEMMA AddMentionSound ==
  ASSUME SoundInv, NEW s \in Source, AddMention(s)
  PROVE  Agreed'
<1> DEFINE w == [work[s] EXCEPT !.step = "bump"]
           new == work[s].note \cup {Here(s)}
<1>0. /\ At(s, "write") /\ ~At(s, "idle") /\ ~At(s, "bump") /\ ~At(s, "insert") /\ ~At(s, "index")
      /\ UNCHANGED <<rows, vecs, run, result, crashes>>
  BY DEF AddMention, At
<1>1. /\ work[s] \in Work /\ work' = [work EXCEPT ![s] = w]
      /\ w.step = "bump" /\ w.pos = work[s].pos /\ w.id = work[s].id /\ w.ids = work[s].ids
      /\ w.candidate = work[s].candidate /\ w.pos \in Nat
  BY DEF AddMention, SoundInv, TypeInv, EntitiesTypeOK, Work
<1> HIDE DEF w
<1>2. /\ work'[s] = w
      /\ \A t \in Source : t # s => At(t, "idle") /\ work'[t] = work[t] /\ work'[t].step = "idle"
  BY <1>0, <1>1, Alone, StillAlone
<1>3. Solo'
  BY <1>2, SoloStays
<1>4. /\ work[s].id \in Id /\ Known(work[s].id) /\ notes[work[s].id] # NoNote
      /\ work[s].note = notes[work[s].id] /\ work[s].pos \in Place
  BY <1>0 DEF SoundInv, Agreed, Underway, TypeInv, Control, At
<1>5. Here(s) \in Mention /\ Here(s)' = Here(s)
  BY <1>0, <1>1, <1>2, <1>4, HereIsMention DEF SoundInv, Here
<1>6. /\ notes' = [notes EXCEPT ![work[s].id] = new] /\ new # NoNote /\ new \in SUBSET Mention
      /\ notes'[work[s].id] = new
      /\ \A id \in Id : id # work[s].id => notes'[id] = notes[id]
      /\ \A id \in Id : notes'[id] # NoNote <=> notes[id] # NoNote
      /\ \A id \in Id : notes[id] # NoNote => notes[id] \subseteq notes'[id]
  <2>1. new \in SUBSET Mention
    BY <1>4, <1>5 DEF SoundInv, TypeInv, EntitiesTypeOK
  <2>2. new # NoNote
    BY <2>1, EntitiesAssumption
  <2> QED BY <1>4, <2>1, <2>2 DEF AddMention, SoundInv, TypeInv, EntitiesTypeOK
<1>7. Cardinality(new) = Cardinality(notes[work[s].id]) + 1
      /\ Cardinality(notes[work[s].id]) \in Nat
  <2>1. Here(s) \notin notes[work[s].id]
    <3> SUFFICES ASSUME Here(s) \in notes[work[s].id] PROVE FALSE
      OBVIOUS
    <3>1. Here(s).src = s /\ Here(s).run = run[s] /\ Here(s).pos = work[s].pos
      BY DEF Here
    <3> QED BY <1>0, <1>1, <1>4, <3>1 DEF SoundInv, Agreed, Past, At
  <2> QED BY <1>4, <2>1, FS_AddElement, FS_CardinalityType DEF SoundInv, TypeInv, Finite
<1> HIDE DEF new
<1>8. Past'
  <2> SUFFICES ASSUME NEW id \in Id, notes'[id] # NoNote
               PROVE  \A m \in notes'[id] :
                        /\ m.run <= run'[m.src]
                        /\ m.run = run'[m.src] /\ ~At(m.src, "idle")' =>
                             \/ m.pos < work'[m.src].pos
                             \/ m.pos = work'[m.src].pos
                                  /\ work'[m.src].step \in {"bump", "insert", "index"}
    BY DEF Past
  <2>1. \A m \in notes'[id] :
          m \in Mention /\ ((notes[id] # NoNote /\ m \in notes[id]) \/ m = Here(s))
    BY <1>4, <1>6 DEF SoundInv, TypeInv, EntitiesTypeOK, new
  <2>2. run' = run /\ w.pos >= work[s].pos /\ w.step \in {"bump", "insert", "index"}
    BY <1>0, <1>1
  <2> QED BY <1>0, <1>1, <2>1, <2>2, PastMoves
<1>9. Sound' /\ OneEntityPerName'
  <2>1. \A id \in Id : Known(id) => rows[id].mentions \in Nat
    BY DEF SoundInv, TypeInv, EntitiesTypeOK, Known, Row
  <2> QED BY <1>0, <1>4, <1>6, <1>7, <2>1
        DEF SoundInv, Agreed, Sound, OneEntityPerName, Known
<1>10. Underway'
  <2>1. Noted(s)'
    BY <1>1, <1>2, <1>5, <1>6 DEF Noted, new
  <2>2. (Known(work[s].id) /\ rows[work[s].id].mentions + 1 <= Cardinality(notes[work[s].id]))'
    <3> rows[work[s].id].mentions \in Nat
        /\ rows[work[s].id].mentions <= Cardinality(notes[work[s].id])
      BY <1>4 DEF SoundInv, Agreed, Sound, TypeInv, EntitiesTypeOK, Known, Row
    <3> QED BY <1>0, <1>1, <1>2, <1>4, <1>6, <1>7 DEF Known
  <2> QED BY <1>1, <1>2, <2>1, <2>2 DEF Underway, At
<1>11. Results'
  <2>1. \A t \in Source : work'[t].ids = work[t].ids
    BY <1>1, <1>2
  <2> SUFFICES ASSUME NEW t \in Source, NEW id \in result[t] \cup work[t].ids
               PROVE  MentionedBy(id, t)'
    BY <1>0, <2>1 DEF Results
  <2>2. id \in Id /\ MentionedBy(id, t)
    BY DEF SoundInv, Agreed, Results, TypeInv, EntitiesTypeOK, Work
  <2> QED BY <1>0, <1>6, <2>2 DEF MentionedBy, Known, SoundInv, Agreed, Sound
<1>12. Exact'
  <2>1. \A id \in Id : ~Doing(id, "insert") /\ ~Doing(id, "index") /\ ~Doing(id, "bump")
    BY <1>0, Alone
  <2>2. \A id \in Id : /\ ~Doing(id, "insert")' /\ ~Doing(id, "index")'
                       /\ Doing(id, "bump")' <=> id = work[s].id
    BY <1>1, <1>2, SoloStays
  <2>3. \A id \in Id : Known(id)' <=> Known(id)
    BY <1>0 DEF Known
  <2> SUFFICES ASSUME crashes = 0, NEW id \in Id
               PROVE  /\ Known(id) <=> notes'[id] # NoNote
                      /\ Known(id) <=> id \in vecs'
                      /\ Known(id) => Cardinality(notes'[id]) =
                           IF id = work[s].id THEN rows'[id].mentions + 1 ELSE rows'[id].mentions
    BY <1>0, <2>2, <2>3 DEF Exact
  <2>4. /\ Known(id) <=> notes[id] # NoNote
        /\ Known(id) <=> id \in vecs
        /\ Known(id) => Cardinality(notes[id]) = rows[id].mentions
    BY <2>1 DEF SoundInv, Agreed, Exact
  <2> QED BY <1>0, <1>4, <1>6, <1>7, <2>4
<1> QED BY <1>3, <1>8, <1>9, <1>10, <1>11, <1>12 DEF Agreed

(* The next place is taken up: the entity that was chosen is in the result.*)
LEMMA NextPlaceSound ==
  ASSUME SoundInv, NEW s \in Source, At(s, "bump") \/ At(s, "index"),
         work' = [work EXCEPT ![s] = NextPlace(s)], UNCHANGED <<notes, run, result>>,
         \A id \in Id : Known(id)' <=> Known(id)
  PROVE  /\ Solo' /\ Past' /\ Underway' /\ Results'
         /\ \A id \in Id, step \in {"bump", "insert", "index"} : ~Doing(id, step)'
<1>0. ~At(s, "idle") /\ work[s].id \in Id /\ work[s].pos \in Place /\ work[s].pos \in Nat
  BY DEF SoundInv, TypeInv, Control, At, Place
<1>1. /\ NextPlace(s).step = "look" /\ NextPlace(s).pos = work[s].pos + 1
      /\ NextPlace(s).ids = work[s].ids \cup {work[s].id}
  BY <1>0, NextPlaceTyped DEF SoundInv
<1>2. /\ work'[s] = NextPlace(s)
      /\ \A t \in Source : t # s => At(t, "idle") /\ work'[t] = work[t] /\ work'[t].step = "idle"
  <2>1. \A t \in Source : t # s => At(t, "idle")
    BY <1>0, Alone
  <2> DEFINE w == NextPlace(s)
  <2>2. work' = [work EXCEPT ![s] = w]
    OBVIOUS
  <2> HIDE DEF w
  <2>3. work'[s] = w /\ \A t \in Source : t # s => work'[t] = work[t] /\ work'[t].step = "idle"
    BY <2>1, <2>2, StillAlone
  <2> QED BY <2>1, <2>3 DEF w
<1>3. Solo' /\ \A id \in Id, step \in {"bump", "insert", "index"} : ~Doing(id, step)'
  BY <1>1, <1>2, SoloStays
<1>4. Underway'
  BY <1>1, <1>2 DEF Underway, At
<1>5. Past'
  <2> SUFFICES ASSUME NEW id \in Id, notes'[id] # NoNote
               PROVE  \A m \in notes'[id] :
                        /\ m.run <= run'[m.src]
                        /\ m.run = run'[m.src] /\ ~At(m.src, "idle")' =>
                             \/ m.pos < work'[m.src].pos
                             \/ m.pos = work'[m.src].pos
                                  /\ work'[m.src].step \in {"bump", "insert", "index"}
    BY DEF Past
  <2>1. \A m \in notes'[id] : m \in Mention
    BY DEF SoundInv, TypeInv, EntitiesTypeOK
  <2>2. /\ NextPlace(s).pos \in Nat /\ NextPlace(s).pos >= work[s].pos
        /\ NextPlace(s).pos # work[s].pos
    BY <1>0, <1>1
  <2> QED BY <1>0, <2>1, <2>2, PastMoves
<1>6. Results'
  <2> SUFFICES ASSUME NEW t \in Source, NEW id \in result'[t] \cup work'[t].ids
               PROVE  MentionedBy(id, t)'
    BY DEF Results
  <2>1. CASE id \in result[t] \cup work[t].ids
    <3> id \in Id
      BY <2>1 DEF SoundInv, TypeInv, EntitiesTypeOK, Work
    <3> QED BY <2>1 DEF SoundInv, Agreed, Results, MentionedBy
  <2>2. CASE t = s /\ id = work[s].id
    <3> Known(work[s].id) /\ Here(s) \in notes[work[s].id] /\ Here(s).src = s
      BY DEF SoundInv, Agreed, Underway, Noted, Here
    <3> QED BY <1>0, <2>2 DEF MentionedBy
  <2> QED BY <1>1, <1>2, <2>1, <2>2
<1> QED BY <1>3, <1>4, <1>5, <1>6

LEMMA BumpSound ==
  ASSUME SoundInv, NEW s \in Source, Bump(s)
  PROVE  Agreed'
<1> DEFINE e == work[s].id
<1>1. /\ e \in Id /\ Known(e) /\ notes[e] # NoNote /\ rows[e].mentions \in Nat
      /\ rows[e].mentions + 1 <= Cardinality(notes[e])
  BY DEF Bump, SoundInv, Agreed, Underway, Noted, TypeInv, EntitiesTypeOK, Control, Known, Row, At
<1>2. /\ rows'[e].mentions = rows[e].mentions + 1
      /\ \A id \in Id : id # e => rows'[id] = rows[id]
      /\ \A id \in Id : Known(id)' <=> Known(id)
      /\ \A id \in Id : Known(id) => rows'[id].candidate = rows[id].candidate
  <2>1. rows[e] \in Row /\ rows' = [rows EXCEPT ![e].mentions = @ + 1]
    BY <1>1 DEF Bump, SoundInv, TypeInv, EntitiesTypeOK, Known
  <2>2. rows'[e] = [rows[e] EXCEPT !.mentions = @ + 1] /\ rows'[e] \in Row
        /\ rows'[e].candidate = rows[e].candidate
        /\ rows'[e].mentions = rows[e].mentions + 1
    BY <1>1, <2>1 DEF SoundInv, TypeInv, EntitiesTypeOK, Row
  <2>3. \A id \in Id : id # e => rows'[id] = rows[id]
    BY <2>1 DEF SoundInv, TypeInv, EntitiesTypeOK
  <2>4. rows'[e] # NoRow
    BY <2>2, EntitiesAssumption
  <2> QED BY <1>1, <2>2, <2>3, <2>4 DEF Known
<1>3. /\ Solo' /\ Past' /\ Underway' /\ Results'
      /\ \A id \in Id, step \in {"bump", "insert", "index"} : ~Doing(id, step)'
  BY <1>2, NextPlaceSound DEF Bump
<1>4. Sound'
  BY <1>1, <1>2 DEF Bump, SoundInv, Agreed, Sound
<1>5. OneEntityPerName'
  BY <1>2 DEF SoundInv, Agreed, OneEntityPerName
<1>6. Exact'
  <2>1. \A id \in Id : /\ ~Doing(id, "insert") /\ ~Doing(id, "index")
                       /\ Doing(id, "bump") <=> id = e
    BY Alone DEF Bump, At
  <2> SUFFICES ASSUME crashes = 0, NEW id \in Id
               PROVE  /\ Known(id) <=> notes[id] # NoNote
                      /\ Known(id) <=> id \in vecs
                      /\ Known(id) => Cardinality(notes[id]) = rows'[id].mentions
    BY <1>2, <1>3 DEF Bump, Exact
  <2>2. /\ Known(id) <=> notes[id] # NoNote
        /\ Known(id) <=> id \in vecs
        /\ Known(id) => Cardinality(notes[id]) =
             IF id = e THEN rows[id].mentions + 1 ELSE rows[id].mentions
    BY <2>1 DEF SoundInv, Agreed, Exact
  <2> QED BY <1>2, <2>2
<1> QED BY <1>3, <1>4, <1>5, <1>6 DEF Agreed

LEMMA IndexSound ==
  ASSUME SoundInv, NEW s \in Source, Index(s)
  PROVE  Agreed'
<1>1. \A id \in Id : Known(id)' <=> Known(id)
  BY DEF Index, Known
<1>2. /\ Solo' /\ Past' /\ Underway' /\ Results'
      /\ \A id \in Id, step \in {"bump", "insert", "index"} : ~Doing(id, step)'
  BY <1>1, NextPlaceSound DEF Index
<1>3. Sound' /\ OneEntityPerName'
  BY DEF Index, SoundInv, Agreed, Sound, OneEntityPerName, Known
<1>4. Exact'
  <2>1. \A id \in Id : /\ ~Doing(id, "insert") /\ ~Doing(id, "bump")
                       /\ Doing(id, "index") <=> id = work[s].id
    BY Alone DEF Index, At
  <2>2. Known(work[s].id)
    BY DEF Index, SoundInv, Agreed, Underway
  <2> SUFFICES ASSUME crashes = 0, NEW id \in Id
               PROVE  /\ Known(id) <=> notes[id] # NoNote
                      /\ Known(id) <=> id \in vecs \cup {work[s].id}
                      /\ Known(id) => Cardinality(notes[id]) = rows[id].mentions
    BY <1>1, <1>2 DEF Index, Exact
  <2>3. /\ Known(id) <=> notes[id] # NoNote
        /\ id # work[s].id => (Known(id) <=> id \in vecs)
        /\ Known(id) => Cardinality(notes[id]) = rows[id].mentions
    BY <2>1 DEF SoundInv, Agreed, Exact
  <2> QED BY <2>2, <2>3
<1> QED BY <1>2, <1>3, <1>4 DEF Agreed

LEMMA CreateSound ==
  ASSUME SoundInv, NEW s \in Source, Create(s)
  PROVE  Agreed'
<1> PICK e \in Id : /\ UniqueId(work[s].candidate[1], e)
                    /\ notes' = [notes EXCEPT ![e] = {Here(s)}]
                    /\ work' = [work EXCEPT ![s] = [@ EXCEPT !.step = "insert", !.id = e]]
  BY DEF Create
<1> DEFINE w == [work[s] EXCEPT !.step = "insert", !.id = e]
<1>0. /\ At(s, "resolve") /\ ~At(s, "idle") /\ ~At(s, "bump") /\ ~At(s, "insert")
      /\ ~At(s, "index") /\ UNCHANGED <<rows, vecs, run, result, crashes>>
  BY DEF Create, At
<1>1. /\ work[s] \in Work /\ work' = [work EXCEPT ![s] = w]
      /\ w.step = "insert" /\ w.pos = work[s].pos /\ w.id = e /\ w.ids = work[s].ids
      /\ w.candidate = work[s].candidate /\ w.pos \in Nat
  BY DEF SoundInv, TypeInv, EntitiesTypeOK, Work
<1> HIDE DEF w
<1>2. /\ work'[s] = w
      /\ \A t \in Source : t # s => At(t, "idle") /\ work'[t] = work[t] /\ work'[t].step = "idle"
  BY <1>0, <1>1, Alone, StillAlone
<1>3. Solo'
  BY <1>2, SoloStays
<1>4. ~Known(e) /\ Unnamed(s)
  BY <1>0 DEF UniqueId, SoundInv, Agreed, Underway
<1>5. Here(s) \in Mention /\ Here(s)' = Here(s)
  <2> work[s].pos \in Place
    BY <1>0 DEF SoundInv, TypeInv, Control, At
  <2> QED BY <1>0, <1>1, <1>2, HereIsMention DEF SoundInv, Here
<1>6. /\ notes'[e] = {Here(s)} /\ notes'[e] # NoNote
      /\ \A id \in Id : id # e => notes'[id] = notes[id]
      /\ \A id \in Id : Known(id) => notes'[id] = notes[id]
      /\ \A id \in Id : Known(id)' <=> Known(id)
  <2>1. {Here(s)} # NoNote
    BY <1>5, EntitiesAssumption
  <2> QED BY <1>0, <1>4, <2>1 DEF SoundInv, TypeInv, EntitiesTypeOK, Known
<1>7. Past'
  <2> SUFFICES ASSUME NEW id \in Id, notes'[id] # NoNote
               PROVE  \A m \in notes'[id] :
                        /\ m.run <= run'[m.src]
                        /\ m.run = run'[m.src] /\ ~At(m.src, "idle")' =>
                             \/ m.pos < work'[m.src].pos
                             \/ m.pos = work'[m.src].pos
                                  /\ work'[m.src].step \in {"bump", "insert", "index"}
    BY DEF Past
  <2>1. \A m \in notes'[id] :
          m \in Mention /\ ((notes[id] # NoNote /\ m \in notes[id]) \/ m = Here(s))
    BY <1>5, <1>6 DEF SoundInv, TypeInv, EntitiesTypeOK
  <2>2. run' = run /\ w.pos >= work[s].pos /\ w.step \in {"bump", "insert", "index"}
    BY <1>0, <1>1
  <2> QED BY <1>0, <1>1, <2>1, <2>2, PastMoves
<1>8. Sound' /\ OneEntityPerName'
  BY <1>0, <1>6 DEF SoundInv, Agreed, Sound, OneEntityPerName
<1>9. Underway'
  <2>1. /\ work'[s].candidate = work[s].candidate /\ work'[s].id = e
        /\ work'[s].step = "insert"
    BY <1>1, <1>2
  <2>2. \A id \in Id : Known(id)' => rows'[id].candidate # work'[s].candidate
    BY <1>0, <1>4, <1>6, <2>1 DEF Unnamed
  <2>3. ~(rows'[e] # NoRow)
    BY <1>4, <1>6 DEF Known
  <2>4. Unnamed(s)' /\ ~Known(work[s].id)' /\ (notes[work[s].id] = {Here(s)})'
    BY <1>5, <1>6, <2>1, <2>2, <2>3 DEF Unnamed, Known
  <2>5. \A t \in Source : t # s => work'[t].step = "idle"
    BY <1>2
  <2> QED BY <2>1, <2>4, <2>5 DEF Underway, At
<1>10. Results'
  <2>1. \A t \in Source : work'[t].ids = work[t].ids
    BY <1>1, <1>2
  <2> SUFFICES ASSUME NEW t \in Source, NEW id \in result[t] \cup work[t].ids
               PROVE  MentionedBy(id, t)'
    BY <1>0, <2>1 DEF Results
  <2>2. id \in Id /\ MentionedBy(id, t)
    BY DEF SoundInv, Agreed, Results, TypeInv, EntitiesTypeOK, Work
  <2> QED BY <1>6, <2>2 DEF MentionedBy
<1>11. Exact'
  <2>1. \A id \in Id : ~Doing(id, "insert") /\ ~Doing(id, "index") /\ ~Doing(id, "bump")
    BY <1>0, Alone
  <2>2. \A id \in Id : /\ ~Doing(id, "bump")' /\ ~Doing(id, "index")'
                       /\ Doing(id, "insert")' <=> id = e
    BY <1>1, <1>2, SoloStays
  <2> SUFFICES ASSUME crashes = 0, NEW id \in Id
               PROVE  /\ id # e => (Known(id) <=> notes'[id] # NoNote)
                      /\ Known(id) <=> id \in vecs
                      /\ Known(id) => Cardinality(notes'[id]) = rows[id].mentions
    BY <1>0, <1>6, <2>2 DEF Exact
  <2>3. /\ Known(id) <=> notes[id] # NoNote
        /\ Known(id) <=> id \in vecs
        /\ Known(id) => Cardinality(notes[id]) = rows[id].mentions
    BY <2>1 DEF SoundInv, Agreed, Exact
  <2> QED BY <1>6, <2>3
<1> QED BY <1>3, <1>7, <1>8, <1>9, <1>10, <1>11 DEF Agreed

LEMMA InsertSound ==
  ASSUME SoundInv, NEW s \in Source, Insert(s)
  PROVE  Agreed'
<1> DEFINE w == [work[s] EXCEPT !.step = "index"]
           e == work[s].id
<1>0. /\ At(s, "insert") /\ ~At(s, "idle") /\ ~At(s, "bump") /\ ~At(s, "index")
      /\ UNCHANGED <<vecs, notes, run, result, crashes>> /\ e \in Id
  BY DEF Insert, At, SoundInv, TypeInv, Control
<1>1. /\ work[s] \in Work /\ work' = [work EXCEPT ![s] = w]
      /\ w.step = "index" /\ w.pos = work[s].pos /\ w.id = e /\ w.ids = work[s].ids
      /\ w.pos \in Nat
  BY DEF Insert, SoundInv, TypeInv, EntitiesTypeOK, Work
<1> HIDE DEF w
<1>2. /\ work'[s] = w
      /\ \A t \in Source : t # s => At(t, "idle") /\ work'[t] = work[t] /\ work'[t].step = "idle"
  BY <1>0, <1>1, Alone, StillAlone
<1>3. Solo'
  BY <1>2, SoloStays
<1>4. ~Known(e) /\ Unnamed(s) /\ notes[e] = {Here(s)} /\ Here(s)' = Here(s)
  <2> ~Known(e) /\ Unnamed(s) /\ notes[e] = {Here(s)}
    BY <1>0 DEF SoundInv, Agreed, Underway
  <2> QED BY <1>0, <1>1, <1>2 DEF Here
<1>5. notes[e] # NoNote /\ Cardinality(notes[e]) = 1
  <2> Here(s) \in Mention
    BY <1>0, HereIsMention DEF SoundInv, TypeInv, Control, At
  <2> QED BY <1>4, FS_Singleton, EntitiesAssumption
<1>6. /\ rows'[e] = [candidate |-> work[s].candidate, mentions |-> 1]
      /\ \A id \in Id : id # e => rows'[id] = rows[id]
      /\ \A id \in Id : Known(id)' <=> Known(id) \/ id = e
  <2>1. work[s].candidate \in Candidate
    BY <1>0 DEF SoundInv, TypeInv, Control, At
  <2>2. rows'[e] = [candidate |-> work[s].candidate, mentions |-> 1]
        /\ \A id \in Id : id # e => rows'[id] = rows[id]
    BY <1>0 DEF Insert, SoundInv, TypeInv, EntitiesTypeOK
  <2>3. rows'[e] # NoRow
    BY <2>1, <2>2, EntitiesAssumption DEF Row
  <2> QED BY <2>2, <2>3 DEF Known
<1>7. Past'
  <2> SUFFICES ASSUME NEW id \in Id, notes'[id] # NoNote
               PROVE  \A m \in notes'[id] :
                        /\ m.run <= run'[m.src]
                        /\ m.run = run'[m.src] /\ ~At(m.src, "idle")' =>
                             \/ m.pos < work'[m.src].pos
                             \/ m.pos = work'[m.src].pos
                                  /\ work'[m.src].step \in {"bump", "insert", "index"}
    BY DEF Past
  <2>1. notes' = notes /\ \A m \in notes'[id] : m \in Mention
    BY <1>0 DEF SoundInv, TypeInv, EntitiesTypeOK
  <2>2. run' = run /\ w.pos >= work[s].pos /\ w.step \in {"bump", "insert", "index"}
    BY <1>0, <1>1
  <2> QED BY <1>0, <1>1, <2>1, <2>2, PastMoves
<1>8. Sound'
  BY <1>0, <1>5, <1>6 DEF SoundInv, Agreed, Sound
<1>9. OneEntityPerName'
  BY <1>4, <1>6 DEF SoundInv, Agreed, OneEntityPerName, Unnamed
<1>10. Underway'
  BY <1>0, <1>1, <1>2, <1>4, <1>5, <1>6 DEF Underway, At, Noted
<1>11. Results'
  <2>1. \A t \in Source : work'[t].ids = work[t].ids
    BY <1>1, <1>2
  <2> SUFFICES ASSUME NEW t \in Source, NEW id \in result[t] \cup work[t].ids
               PROVE  MentionedBy(id, t)'
    BY <1>0, <2>1 DEF Results
  <2>2. id \in Id /\ MentionedBy(id, t)
    BY DEF SoundInv, Agreed, Results, TypeInv, EntitiesTypeOK, Work
  <2> QED BY <1>0, <1>6, <2>2 DEF MentionedBy
<1>12. Exact'
  <2>1. \A id \in Id : /\ Doing(id, "insert") <=> id = e
                       /\ ~Doing(id, "index") /\ ~Doing(id, "bump")
    BY <1>0, Alone
  <2>2. \A id \in Id : /\ ~Doing(id, "bump")' /\ ~Doing(id, "insert")'
                       /\ Doing(id, "index")' <=> id = e
    BY <1>1, <1>2, SoloStays
  <2> SUFFICES ASSUME crashes = 0, NEW id \in Id
               PROVE  /\ Known(id) \/ id = e <=> notes[id] # NoNote
                      /\ id # e => (Known(id) <=> id \in vecs)
                      /\ Known(id) \/ id = e => Cardinality(notes[id]) = rows'[id].mentions
    BY <1>0, <1>6, <2>2 DEF Exact
  <2>3. /\ id # e => (Known(id) <=> notes[id] # NoNote)
        /\ Known(id) <=> id \in vecs
        /\ Known(id) => Cardinality(notes[id]) = rows[id].mentions
    BY <2>1 DEF SoundInv, Agreed, Exact
  <2>4. rows'[e].mentions = 1
    BY <1>6
  <2>5. CASE id = e
    BY <1>5, <2>4, <2>5
  <2>6. CASE id # e
    BY <1>6, <2>3, <2>6
  <2> QED BY <2>5, <2>6
<1> QED BY <1>3, <1>7, <1>8, <1>9, <1>10, <1>11, <1>12 DEF Agreed

LEMMA SoundStep == OneWriter /\ SoundInv /\ [Next]_vars => SoundInv'
<1> SUFFICES ASSUME OneWriter, SoundInv, [Next]_vars PROVE Agreed'
  BY TypeStep DEF SoundInv
<1>1. ASSUME NEW s \in Source, Begin(s) PROVE Agreed'
  BY <1>1, BeginSound
<1>2. ASSUME NEW s \in Source, NEW c \in Candidate, Link(s, c) PROVE Agreed'
  <2> PICK id \in Id : Known(id) /\ notes[id] # NoNote /\ work' = Chosen(s, c, id)
    BY <1>2 DEF Link
  <2> DEFINE w == [work[s] EXCEPT !.step = "write", !.candidate = c, !.id = id, !.note = notes[id]]
  <2>1. /\ w \in Work /\ work' = [work EXCEPT ![s] = w] /\ w.step = "write"
        /\ w.id = id /\ w.note = notes[id] /\ w.pos = work[s].pos /\ w.ids = work[s].ids
    BY DEF Chosen, SoundInv, TypeInv, EntitiesTypeOK, Work, Step
  <2> HIDE DEF w
  <2> QED BY <1>2, <2>1, ReadSound DEF Link
<1>3. ASSUME NEW s \in Source, NEW c \in Candidate, Miss(s, c) PROVE Agreed'
  <2> DEFINE w == [work[s] EXCEPT !.step = "resolve", !.candidate = c]
  <2>1. /\ w \in Work /\ work' = [work EXCEPT ![s] = w] /\ w.step = "resolve"
        /\ w.candidate = c /\ w.pos = work[s].pos /\ w.ids = work[s].ids
    BY <1>3 DEF Miss, SoundInv, TypeInv, EntitiesTypeOK, Work, Step
  <2> HIDE DEF w
  <2> QED BY <1>3, <2>1, ReadSound DEF Miss
<1>4. ASSUME NEW s \in Source, NEW id \in Id, Confirm(s, id) PROVE Agreed'
  <2> DEFINE w == [work[s] EXCEPT !.step = "write", !.candidate = work[s].candidate,
                                  !.id = id, !.note = notes[id]]
  <2>1. /\ w \in Work /\ work' = [work EXCEPT ![s] = w] /\ w.step = "write"
        /\ w.id = id /\ w.note = notes[id] /\ w.pos = work[s].pos /\ w.ids = work[s].ids
    BY <1>4 DEF Confirm, Chosen, SoundInv, TypeInv, EntitiesTypeOK, Work, Step
  <2> HIDE DEF w
  <2> QED BY <1>4, <2>1, ReadSound DEF Confirm
<1>5. ASSUME NEW s \in Source, AddMention(s) PROVE Agreed'
  BY <1>5, AddMentionSound
<1>6. ASSUME NEW s \in Source, Bump(s) PROVE Agreed'
  BY <1>6, BumpSound
<1>7. ASSUME NEW s \in Source, Create(s) PROVE Agreed'
  BY <1>7, CreateSound
<1>8. ASSUME NEW s \in Source, Insert(s) PROVE Agreed'
  BY <1>8, InsertSound
<1>9. ASSUME NEW s \in Source, Index(s) PROVE Agreed'
  BY <1>9, IndexSound
<1>10. ASSUME NEW s \in Source, Finish(s) PROVE Agreed'
  <2>1. /\ result' \in [Source -> SUBSET Id]
        /\ \A t \in Source : result'[t] \subseteq result[t] \cup work[t].ids
    BY <1>10 DEF Finish, SoundInv, TypeInv, EntitiesTypeOK, Work
  <2> QED BY <1>10, <2>1, NoWorkSound DEF Finish, At
<1>11. ASSUME NEW s \in Source, Raise(s) \/ Crash(s) PROVE Agreed'
  <2>1. /\ ~At(s, "idle") /\ work' = [work EXCEPT ![s] = Idle]
        /\ UNCHANGED <<stores, run, result>>
        /\ crashes' = 0 => crashes = 0 /\ (At(s, "look") \/ At(s, "resolve"))
    BY <1>11 DEF Raise, Crash, At, SoundInv, TypeInv, EntitiesTypeOK
  <2>2. /\ result' \in [Source -> SUBSET Id]
        /\ \A t \in Source : result'[t] \subseteq result[t] \cup work[t].ids
    BY <2>1 DEF SoundInv, TypeInv, EntitiesTypeOK
  <2> QED BY <2>1, <2>2, NoWorkSound
<1>12. CASE UNCHANGED vars
  <2> UNCHANGED stores /\ UNCHANGED <<work, run, result, crashes>>
    BY <1>12 DEF vars, stores
  <2>1. Solo' /\ Past' /\ Underway' /\ Results' /\ Exact'
    BY <1>12 DEF vars, SoundInv, Agreed, Solo, AtWork, Past, Underway, Unnamed, Noted, Here,
                 Results, MentionedBy, Exact, Doing, At, Known
  <2> QED BY <2>1, StoresSound DEF Agreed
<1> QED
  BY <1>1, <1>2, <1>3, <1>4, <1>5, <1>6, <1>7, <1>8, <1>9, <1>10, <1>11, <1>12 DEF Next, Entity

LEMMA SoundInvariant == OneWriter /\ Spec => []SoundInv
<1>1. OneWriter /\ SoundInv /\ [Next]_vars => SoundInv'
  BY SoundStep
<1>2. CASE OneWriter
  <2>1. SoundInv /\ [Next]_vars => SoundInv'
    BY <1>1, <1>2
  <2> QED BY <2>1, SoundInit, PTL DEF Spec
<1> QED BY <1>2

(* Rows, notes and vectors agree, whatever is killed (MentionsAreCounted). *)
THEOREM MentionsCounted == OneWriter /\ Spec => []MentionsAreCounted
<1> SoundInv => MentionsAreCounted
  <2> SUFFICES ASSUME SoundInv PROVE MentionsAreCounted
    OBVIOUS
  <2>1. \A id \in Id : Known(id) => notes[id] # NoNote
                                   /\ rows[id].mentions <= Cardinality(notes[id])
    BY DEF SoundInv, Agreed, Sound
  <2>2. AtWork = {} => \A id \in Id, step \in {"bump", "insert", "index"} : ~Doing(id, step)
    BY DEF AtWork, Doing, At
  <2> QED BY <2>1, <2>2 DEF SoundInv, Agreed, Exact, MentionsAreCounted
<1> QED BY SoundInvariant, PTL

(* A name and type is one entity (OneEntityPerName).                       *)
THEOREM NamesAreEntities == OneWriter /\ Spec => []OneEntityPerName
<1> SoundInv => OneEntityPerName BY DEF SoundInv, Agreed
<1> QED BY SoundInvariant, PTL

(* What entities.json lists is in the table and in the notes (ResultIsTrue)*)
THEOREM ResultsAreTrue == OneWriter /\ Spec => []ResultIsTrue
<1> SoundInv => ResultIsTrue
  BY DEF SoundInv, Agreed, Results, MentionedBy, ResultIsTrue
<1> QED BY SoundInvariant, PTL

(* No step takes a mention, a name or a row away (MentionsAreKept).        *)
THEOREM MentionsStay == OneWriter /\ Spec => MentionsAreKept
<1> DEFINE Kept == \A id \in Id : Known(id) =>
                     /\ rows'[id] # NoRow /\ rows'[id].candidate = rows[id].candidate
                     /\ notes[id] \subseteq notes'[id]
<1>1. SoundInv /\ [Next]_vars => [Kept]_vars
  <2> SUFFICES ASSUME SoundInv, Next, NEW id \in Id, Known(id)
               PROVE  /\ rows'[id] # NoRow /\ rows'[id].candidate = rows[id].candidate
                      /\ notes[id] \subseteq notes'[id]
    OBVIOUS
  <2>1. ASSUME NEW s \in Source, AddMention(s) PROVE rows' = rows /\ notes[id] \subseteq notes'[id]
    <3>1. work[s].id \in Id /\ work[s].note = notes[work[s].id]
      BY <2>1 DEF AddMention, SoundInv, Agreed, Underway, TypeInv, Control, At
    <3> QED BY <2>1, <3>1 DEF AddMention, SoundInv, TypeInv, EntitiesTypeOK
  <2>2. ASSUME NEW s \in Source, Bump(s)
        PROVE  rows'[id] \in Row /\ rows'[id].candidate = rows[id].candidate /\ notes' = notes
    <3>1. work[s].id \in Id
      BY <2>2 DEF Bump, SoundInv, TypeInv, Control, At
    <3> QED BY <2>2, <3>1 DEF Bump, SoundInv, TypeInv, EntitiesTypeOK, Known, Row
  <2>3. ASSUME NEW s \in Source, Create(s) PROVE rows' = rows /\ notes'[id] = notes[id]
    BY <2>3 DEF Create, UniqueId, Known, SoundInv, TypeInv, EntitiesTypeOK
  <2>4. ASSUME NEW s \in Source, Insert(s) PROVE rows'[id] = rows[id] /\ notes' = notes
    <3>1. work[s].id \in Id /\ ~Known(work[s].id)
      BY <2>4 DEF Insert, SoundInv, Agreed, Underway, TypeInv, Control, At
    <3> QED BY <2>4, <3>1 DEF Insert, SoundInv, TypeInv, EntitiesTypeOK
  <2>5. CASE UNCHANGED <<rows, notes>>
    BY <2>5 DEF Known
  <2>6. (\E s \in Source : AddMention(s) \/ Bump(s) \/ Create(s) \/ Insert(s))
        \/ UNCHANGED <<rows, notes>>
    BY DEF Next, Entity, Begin, Link, Miss, Confirm, Index, Finish, Raise, Crash, stores
  <2> QED BY <2>1, <2>2, <2>3, <2>4, <2>5, <2>6, EntitiesAssumption DEF Known
<1>2. CASE OneWriter
  BY <1>1, <1>2, SoundInvariant, PTL DEF Spec, MentionsAreKept
<1> QED BY <1>2
=============================================================================
