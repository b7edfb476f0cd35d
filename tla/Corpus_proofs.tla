---------------------------- MODULE Corpus_proofs ----------------------------
(***************************************************************************)
(* Proofs about Corpus, for all sources, authors and bounds.               *)
(***************************************************************************)
EXTENDS Corpus, FiniteSetTheorems, WellFoundedInduction, TLAPS

(* What a pass has while it is inside a candidate, what a plan pairs, and  *)
(* who is cut short.                                                       *)
Control ==
  /\ \A s \in Source :
       /\ ~ At(s, "idle") => run[s] \in 1..MaxRuns[s]
       /\ work[s].step \notin {"idle", "judge"} => work[s].claim \in ClaimId /\ Candidates(s)
  /\ \A p \in {plan, file} : \A i \in DOMAIN p : p[i][1] # p[i][2]
  /\ cut # {} => "retract" \in killed

FiniteNotes ==
  /\ \A c \in ClaimId : \A note \in {live[c], merged[c]} : note # NoNote => IsFiniteSet(note)
  /\ \A s \in Source : IsFiniteSet(work[s].note)

TypeInv == CorpusTypeOK /\ Control /\ FiniteNotes

(* At most one source is at work: what OneWriter gives.                    *)
OneBusy == \A s, t \in AtWork : s = t

(* A row and its note. Where a retraction of its owner was cut short the   *)
(* note may be gone; where any was, the count may be ahead of the note;    *)
(* where groom was killed, the note may be in the other place.             *)
Sound(c) ==
  rows[c] # NoRow =>
    /\ Owner(c) \notin cut =>
         /\ Shown(c) # NoNote
         /\ \E a \in Shown(c) : a.src = Owner(c)
         /\ ~ Live(c) /\ merged[c] # NoNote => \E a \in merged[c] : a.src = Owner(c)
    /\ "retract" \notin killed =>
         /\ ~ Live(c) => live[c] = NoNote
         /\ rows[c].count <= Cardinality(Shown(c))
    /\ killed \subseteq {"dedup"} /\ Live(c) => live[c] # NoNote

(* A row and its note when dedup alone was killed.                         *)
Settled(c) ==
  rows[c] # NoRow =>
    /\ NoteOf(c) # NoNote
    /\ ~ Live(c) => live[c] = NoNote
    /\ \E a \in NoteOf(c) : a.src = Owner(c)
    /\ rows[c].count <= Cardinality(NoteOf(c))

(* What a pass relies on at its next statement.                            *)
Underway(s) ==
  LET w == work[s]
  IN /\ ~ At(s, "idle") =>
          \A c \in Owned(s) : c[2] < w.pos \/ (At(s, "index") /\ c = w.claim)
     /\ At(s, "write") => live[w.claim] = w.note
     /\ At(s, "bump") =>
          /\ live[w.claim] # NoNote
          /\ rows[w.claim] # NoRow /\ "retract" \notin killed =>
               rows[w.claim].count + 1 <= Cardinality(live[w.claim])
     /\ At(s, "insert") => w.claim = <<s, w.pos>> /\ live[w.claim] = {Here(s)}
     /\ At(s, "index") => w.claim = <<s, w.pos>> /\ rows[w.claim] # NoRow

(* An attestation of a pass is of a candidate it is past.                  *)
Past(a) ==
  LET w == work[a.src]
  IN /\ a.run <= run[a.src]
     /\ a.run = run[a.src] /\ w.step # "idle" =>
          a.pos < w.pos \/ (a.pos = w.pos /\ w.step \notin {"judge", "write"})

PastInv ==
  \A c \in ClaimId : \A note \in {live[c], merged[c]} : note # NoNote => \A a \in note : Past(a)

SoundInv == OneBusy /\ (\A c \in ClaimId : Sound(c)) /\ (\A s \in Source : Underway(s))

-----------------------------------------------------------------------------
(* Types.                                                                  *)

LEMMA Bounds ==
  /\ MaxCandidates \in Nat /\ MaxMerges \in Nat /\ MaxCrashes \in Nat
  /\ \A s \in Source : MaxRuns[s] \in Nat /\ Sizes[s] \subseteq 0..MaxCandidates
  /\ {} \in Note
BY CorpusAssumption DEF CorpusAssumption, Note

(* The attestation a pass writes at its candidate. *)
LEMMA HereIsAttestation ==
  ASSUME TypeInv, NEW s \in Source, ~ At(s, "idle"), Candidates(s)
  PROVE  Here(s) \in Attestation /\ <<s, work[s].pos>> \in ClaimId
<1>1. work[s] \in Work /\ run[s] \in 1..MaxRuns[s]
  BY DEF TypeInv, CorpusTypeOK, Control
<1>2. work[s].pos \in Candidate
  BY <1>1, CorpusAssumption DEF Work, Candidates, Candidate, CorpusAssumption
<1>3. run[s] \in UNION {1..MaxRuns[t] : t \in Source}
  BY <1>1
<1> QED  BY <1>2, <1>3 DEF Here, Attestation, ClaimId

(* What is killed is one of the three, once more at most than before.      *)
LEMMA TypeKilled ==
  ASSUME TypeInv, NEW k \in {"dedup", "groom", "retract"},
         \/ UNCHANGED <<crashes, killed>>
         \/ crashes < MaxCrashes /\ crashes' = crashes + 1 /\ killed' = killed \cup {k}
  PROVE  crashes' \in 0..MaxCrashes /\ killed' \subseteq {"dedup", "groom", "retract"}
<1>1. crashes \in 0..MaxCrashes /\ killed \subseteq {"dedup", "groom", "retract"}
  BY DEF TypeInv, CorpusTypeOK
<1>2. crashes' \in 0..MaxCrashes
  BY <1>1, Bounds
<1> QED  BY <1>1, <1>2

LEMMA TypeJudging ==
  ASSUME NEW n \in 0..MaxCandidates, NEW p \in 1..(MaxCandidates + 1)
  PROVE  Judging(n, p) \in Work
BY Bounds DEF Judging, Work, Step

LEMMA TypeChosen ==
  ASSUME TypeInv, NEW s \in Source, NEW step \in Step, NEW c \in ClaimId, NEW note \in Note
  PROVE  Chosen(s, step, c, note) \in Work
<1>1. work[s] \in Work
  BY DEF TypeInv, CorpusTypeOK
<1> QED  BY <1>1 DEF Chosen, Work

LEMMA TypeNextCandidate ==
  ASSUME TypeInv, NEW s \in Source, Candidates(s)
  PROVE  NextCandidate(s) \in Work
<1>1. work[s] \in Work
  BY DEF TypeInv, CorpusTypeOK
<1>2. work[s].size \in 0..MaxCandidates /\ work[s].pos + 1 \in 1..(MaxCandidates + 1)
  BY <1>1, Bounds DEF Work, Candidates
<1> QED  BY <1>2, TypeJudging DEF NextCandidate

(* A pass goes on, at a candidate it has or to the next one. *)
LEMMA PassMoves ==
  ASSUME TypeInv, NEW s \in Source, NEW p \in Work,
         work' = [work EXCEPT ![s] = p], UNCHANGED <<run, plan, file>>,
         cut' # {} => "retract" \in killed',
         p.step # "idle" => ~ At(s, "idle"),
         p.step \notin {"idle", "judge"} => p.claim \in ClaimId /\ p.pos <= p.size
  PROVE  work' \in [Source -> Work] /\ Control'
<1>1. work \in [Source -> Work]
  BY DEF TypeInv, CorpusTypeOK
<1>2. /\ work' \in [Source -> Work]
      /\ work'[s] = p
      /\ \A t \in Source \ {s} : work'[t] = work[t]
  BY <1>1
<1> QED  BY <1>2 DEF TypeInv, Control, At, Candidates

LEMMA TypeBegin ==
  ASSUME TypeInv, NEW s \in Source, Begin(s)
  PROVE  TypeInv'
<1>1. PICK n \in Sizes[s] : work' = [work EXCEPT ![s] = Judging(n, 1)]
  BY DEF Begin
<1>2. Judging(n, 1) \in Work
  BY TypeJudging, Bounds
<1>3. CorpusTypeOK'
  BY <1>1, <1>2, Bounds DEF TypeInv, CorpusTypeOK, Begin, corpus
<1>4. Control'
  BY <1>1, <1>3, Bounds DEF TypeInv, CorpusTypeOK, Control, Begin, At, Candidates, Judging
<1>5. FiniteNotes'
  BY <1>1, <1>3, FS_EmptySet DEF TypeInv, CorpusTypeOK, FiniteNotes, Begin, corpus, Judging
<1> QED  BY <1>3, <1>4, <1>5 DEF TypeInv

LEMMA TypeMatch ==
  ASSUME TypeInv, NEW s \in Source, NEW m \in ClaimId, Match(s, m)
  PROVE  TypeInv'
<1>1. PICK c \in ClaimId :
        /\ live[c] # NoNote
        /\ work' = [work EXCEPT ![s] = Chosen(s, "write", c, live[c])]
  BY DEF Match
<1>2. Chosen(s, "write", c, live[c]) \in Work
  BY <1>1, TypeChosen DEF TypeInv, CorpusTypeOK, Step
<1>3. work' \in [Source -> Work] /\ Control'
  BY <1>1, <1>2, PassMoves DEF Match, At, Candidates, Chosen, TypeInv, Control
<1>4. CorpusTypeOK'
  BY <1>3 DEF TypeInv, CorpusTypeOK, Match, corpus
<1>5. FiniteNotes'
  BY <1>1, <1>4 DEF TypeInv, CorpusTypeOK, FiniteNotes, Match, corpus, Chosen
<1> QED  BY <1>3, <1>4, <1>5 DEF TypeInv

LEMMA TypeAttest ==
  ASSUME TypeInv, NEW s \in Source, Attest(s)
  PROVE  TypeInv'
<1>1. /\ work[s] \in Work /\ work[s].claim \in ClaimId
      /\ ~ At(s, "idle") /\ Candidates(s)
  BY DEF TypeInv, CorpusTypeOK, Control, Attest, At
<1>2. PICK note \in Note :
        live' = [live EXCEPT ![work[s].claim] = note] /\ IsFiniteSet(note)
  <2>1. work[s].note \in Note /\ work[s].note \cup {Here(s)} \in Note
    BY <1>1, HereIsAttestation DEF Work, Note
  <2>2. IsFiniteSet(work[s].note) /\ IsFiniteSet(work[s].note \cup {Here(s)})
    BY FS_AddElement DEF TypeInv, FiniteNotes
  <2> QED  BY <2>1, <2>2 DEF Attest
<1>3. PICK p \in Work :
        /\ work' = [work EXCEPT ![s] = p]
        /\ p.step \notin {"idle", "judge"} => p.claim \in ClaimId /\ p.pos <= p.size
        /\ IsFiniteSet(p.note)
  <2>1. NextCandidate(s) \in Work /\ NextCandidate(s).step = "judge" /\ NextCandidate(s).note = {}
    BY <1>1, TypeNextCandidate DEF NextCandidate, Judging
  <2>2. /\ [work[s] EXCEPT !.step = "bump"] \in Work
        /\ [work[s] EXCEPT !.step = "bump"].claim \in ClaimId
        /\ [work[s] EXCEPT !.step = "bump"].pos <= [work[s] EXCEPT !.step = "bump"].size
        /\ [work[s] EXCEPT !.step = "bump"].note = work[s].note
    BY <1>1 DEF Work, Step, Candidates
  <2> QED  BY <2>1, <2>2, FS_EmptySet DEF Attest, TypeInv, FiniteNotes
<1>4. work' \in [Source -> Work] /\ Control'
  BY <1>1, <1>3, PassMoves DEF Attest, TypeInv, Control
<1>5. CorpusTypeOK'
  BY <1>2, <1>4 DEF TypeInv, CorpusTypeOK, Attest
<1>6. FiniteNotes'
  BY <1>2, <1>3, <1>4 DEF TypeInv, CorpusTypeOK, FiniteNotes, Attest
<1> QED  BY <1>4, <1>5, <1>6 DEF TypeInv

LEMMA TypeWithCount ==
  ASSUME TypeInv, NEW c \in ClaimId
  PROVE  WithCount(c, 1) \in [ClaimId -> Row \cup {NoRow}]
<1>1. CASE rows[c] = NoRow
  BY <1>1 DEF TypeInv, CorpusTypeOK, WithCount
<1>2. CASE rows[c] # NoRow
  <2>1. rows \in [ClaimId -> Row \cup {NoRow}] /\ rows[c] \in Row
    BY <1>2 DEF TypeInv, CorpusTypeOK
  <2>2. [rows[c] EXCEPT !.count = @ + 1] \in Row
    BY <2>1 DEF Row
  <2>3. WithCount(c, 1) = [rows EXCEPT ![c] = [rows[c] EXCEPT !.count = @ + 1]]
    BY <1>2 DEF WithCount
  <2> QED  BY <2>1, <2>2, <2>3
<1> QED  BY <1>1, <1>2

LEMMA TypeBump ==
  ASSUME TypeInv, NEW s \in Source, Bump(s)
  PROVE  TypeInv'
<1>1. work[s].claim \in ClaimId /\ ~ At(s, "idle") /\ Candidates(s)
  BY DEF TypeInv, Control, Bump, At
<1>2. NextCandidate(s) \in Work /\ NextCandidate(s).step = "judge" /\ NextCandidate(s).note = {}
  BY <1>1, TypeNextCandidate DEF NextCandidate, Judging
<1>3. work' \in [Source -> Work] /\ Control'
  BY <1>1, <1>2, PassMoves DEF Bump, TypeInv, Control
<1>4. CorpusTypeOK'
  BY <1>1, <1>3, TypeWithCount DEF TypeInv, CorpusTypeOK, Bump
<1>5. FiniteNotes'
  BY <1>2, <1>3, FS_EmptySet DEF TypeInv, CorpusTypeOK, FiniteNotes, Bump
<1> QED  BY <1>3, <1>4, <1>5 DEF TypeInv

LEMMA TypeCreate ==
  ASSUME TypeInv, NEW s \in Source, Create(s)
  PROVE  TypeInv'
<1> DEFINE c == <<s, work[s].pos>>
<1>1. ~ At(s, "idle") /\ Candidates(s)
  BY DEF Create, At
<1>2. c \in ClaimId /\ {Here(s)} \in Note
  BY <1>1, HereIsAttestation DEF Note
<1>3. Chosen(s, "insert", c, {}) \in Work /\ Chosen(s, "insert", c, {}).note = {}
  BY <1>2, TypeChosen, Bounds DEF Step, Chosen
<1>4. /\ live' = [live EXCEPT ![c] = {Here(s)}]
      /\ work' = [work EXCEPT ![s] = Chosen(s, "insert", c, {})]
      /\ UNCHANGED <<rows, vecs, merged, run, plan, file, withdrawn, crashes, killed, cut>>
  BY DEF Create
<1>5. work' \in [Source -> Work] /\ Control'
  BY <1>1, <1>2, <1>3, <1>4, PassMoves DEF Candidates, Chosen, TypeInv, Control
<1>6. CorpusTypeOK'
  BY <1>2, <1>4, <1>5 DEF TypeInv, CorpusTypeOK
<1>7. FiniteNotes'
  <2>1. IsFiniteSet({Here(s)}) /\ IsFiniteSet({})
    BY FS_EmptySet, FS_Singleton
  <2>2. \A d \in ClaimId : live'[d] \in {live[d], {Here(s)}} /\ merged'[d] = merged[d]
    BY <1>2, <1>4 DEF TypeInv, CorpusTypeOK
  <2>3. \A t \in Source : work'[t].note \in {work[t].note, {}}
    BY <1>3, <1>4 DEF TypeInv, CorpusTypeOK
  <2> QED  BY <2>1, <2>2, <2>3 DEF TypeInv, FiniteNotes
<1> QED  BY <1>5, <1>6, <1>7 DEF TypeInv

LEMMA TypeInsert ==
  ASSUME TypeInv, NEW s \in Source, Insert(s)
  PROVE  TypeInv'
<1>1. /\ work[s] \in Work /\ work[s].claim \in ClaimId
      /\ ~ At(s, "idle") /\ Candidates(s)
  BY DEF TypeInv, CorpusTypeOK, Control, Insert, At
<1> DEFINE p == [work[s] EXCEPT !.step = "index"]
<1>2. /\ p \in Work /\ p.claim = work[s].claim /\ p.note = work[s].note
      /\ p.pos <= p.size /\ p.step = "index"
  BY <1>1 DEF Work, Step, Candidates
<1>3. work' = [work EXCEPT ![s] = p]
  BY DEF Insert
<1>4. work' \in [Source -> Work] /\ Control'
  BY <1>1, <1>2, <1>3, PassMoves DEF Insert, TypeInv, Control
<1>5. [count |-> 1, into |-> Nobody] \in Row
  BY DEF Row
<1>6. CorpusTypeOK'
  BY <1>1, <1>4, <1>5 DEF TypeInv, CorpusTypeOK, Insert
<1>7. FiniteNotes'
  BY <1>2, <1>3, <1>4 DEF TypeInv, CorpusTypeOK, FiniteNotes, Insert
<1> QED  BY <1>4, <1>6, <1>7 DEF TypeInv

LEMMA TypeIndex ==
  ASSUME TypeInv, NEW s \in Source, Index(s)
  PROVE  TypeInv'
<1>1. work[s].claim \in ClaimId /\ ~ At(s, "idle") /\ Candidates(s)
  BY DEF TypeInv, Control, Index, At
<1>2. NextCandidate(s) \in Work /\ NextCandidate(s).step = "judge" /\ NextCandidate(s).note = {}
  BY <1>1, TypeNextCandidate DEF NextCandidate, Judging
<1>3. work' \in [Source -> Work] /\ Control'
  BY <1>1, <1>2, PassMoves DEF Index, TypeInv, Control
<1>4. CorpusTypeOK'
  BY <1>1, <1>3 DEF TypeInv, CorpusTypeOK, Index
<1>5. FiniteNotes'
  BY <1>2, <1>3, FS_EmptySet DEF TypeInv, CorpusTypeOK, FiniteNotes, Index
<1> QED  BY <1>3, <1>4, <1>5 DEF TypeInv

(* A pass ends or is killed. *)
LEMMA TypeStops ==
  ASSUME TypeInv, NEW s \in Source, End(s) \/ Crash(s)
  PROVE  TypeInv'
<1>1. Idle \in Work /\ Idle.step = "idle" /\ Idle.note = {}
  BY Bounds DEF Idle, Work, Step
<1>2. /\ work' = [work EXCEPT ![s] = Idle]
      /\ UNCHANGED <<rows, vecs, live, merged, run, plan, file, withdrawn, cut>>
      /\ killed \subseteq killed'
  BY DEF End, Crash, corpus
<1>3. work' \in [Source -> Work] /\ Control'
  BY <1>1, <1>2, PassMoves DEF TypeInv, Control
<1>4. crashes' \in 0..MaxCrashes /\ killed' \subseteq {"dedup", "groom", "retract"}
  BY TypeKilled DEF End, Crash
<1>5. CorpusTypeOK'
  BY <1>2, <1>3, <1>4 DEF TypeInv, CorpusTypeOK
<1>6. FiniteNotes'
  BY <1>1, <1>2, <1>3, FS_EmptySet DEF TypeInv, CorpusTypeOK, FiniteNotes
<1> QED  BY <1>3, <1>5, <1>6 DEF TypeInv

LEMMA TypeMakePlan ==
  ASSUME TypeInv, MakePlan
  PROVE  TypeInv'
<1>1. PICK n \in 1..MaxMerges : plan' \in [1..n -> Indexed \X Indexed]
  BY DEF MakePlan, Plans
<1>2. Indexed \subseteq ClaimId
  BY DEF Indexed, TypeInv, CorpusTypeOK
<1>3. plan' \in Seq(ClaimId \X ClaimId)
  BY <1>1, <1>2, Bounds
<1>4. file' = plan' /\ \A i \in DOMAIN plan' : plan'[i][1] # plan'[i][2]
  BY DEF MakePlan, Plans
<1> QED  BY <1>3, <1>4 DEF TypeInv, CorpusTypeOK, Control, FiniteNotes, MakePlan, corpus,
                            At, Candidates

(* The first pair of a plan, and what is left of the plan without it. *)
LEMMA HeadOfPlan ==
  ASSUME TypeInv, plan # <<>>
  PROVE  /\ Head(plan)[1] \in ClaimId /\ Head(plan)[2] \in ClaimId
         /\ Head(plan)[1] # Head(plan)[2]
         /\ Tail(plan) \in Seq(ClaimId \X ClaimId)
         /\ \A i \in DOMAIN Tail(plan) : Tail(plan)[i][1] # Tail(plan)[i][2]
<1>1. plan \in Seq(ClaimId \X ClaimId) /\ Head(plan) = plan[1] /\ 1 \in DOMAIN plan
  BY DEF TypeInv, CorpusTypeOK
<1>2. plan[1] \in ClaimId \X ClaimId /\ Tail(plan) \in Seq(ClaimId \X ClaimId)
  BY <1>1
<1>3. \A i \in DOMAIN Tail(plan) : Tail(plan)[i] = plan[i + 1] /\ i + 1 \in DOMAIN plan
  BY <1>1
<1> QED  BY <1>1, <1>2, <1>3 DEF TypeInv, Control

(* Whether a plan is gone on with, applied again or forgotten, it is one.  *)
LEMMA TypePlan ==
  ASSUME TypeInv, plan # <<>>,
         NextPair \/ (plan' = file /\ file' = file) \/ (plan' = <<>> /\ file' = <<>>)
  PROVE  /\ {plan', file'} \subseteq Seq(ClaimId \X ClaimId)
         /\ \A p \in {plan', file'} : \A i \in DOMAIN p : p[i][1] # p[i][2]
<1>1. /\ file \in Seq(ClaimId \X ClaimId) /\ <<>> \in Seq(ClaimId \X ClaimId)
      /\ DOMAIN <<>> = {}
  BY DEF TypeInv, CorpusTypeOK
<1>2. \A p \in {file, Tail(plan), <<>>} : \A i \in DOMAIN p : p[i][1] # p[i][2]
  BY <1>1, HeadOfPlan DEF TypeInv, Control
<1>3. {plan', file'} \subseteq {file, Tail(plan), <<>>}
  BY DEF NextPair
<1> QED  BY <1>1, <1>2, <1>3, HeadOfPlan

(* What a merge adds to the survivor. *)
New(v, a) == {x \in live[a] : \A y \in live[v] : y.src # x.src}

LEMMA NewIsFinite ==
  ASSUME TypeInv, NEW v \in ClaimId, NEW a \in ClaimId, live[v] # NoNote, live[a] # NoNote
  PROVE  /\ New(v, a) \subseteq live[a] /\ New(v, a) \in Note
         /\ IsFiniteSet(New(v, a)) /\ Cardinality(New(v, a)) \in Nat
         /\ live[v] \cup New(v, a) \in Note /\ IsFiniteSet(live[v] \cup New(v, a))
         /\ Cardinality(live[v] \cup New(v, a)) = Cardinality(live[v]) + Cardinality(New(v, a))
<1>1. live[v] \in Note /\ live[a] \in Note
  BY DEF TypeInv, CorpusTypeOK
<1>2. IsFiniteSet(live[v]) /\ IsFiniteSet(live[a])
  BY DEF TypeInv, FiniteNotes
<1>3. New(v, a) \subseteq live[a] /\ New(v, a) \cap live[v] = {}
  BY DEF New
<1>4. IsFiniteSet(New(v, a)) /\ Cardinality(New(v, a)) \in Nat
  BY <1>2, <1>3, FS_Subset, FS_CardinalityType
<1>5. /\ IsFiniteSet(live[v] \cup New(v, a))
      /\ Cardinality(live[v] \cup New(v, a)) =
           Cardinality(live[v]) + Cardinality(New(v, a)) - Cardinality(live[v] \cap New(v, a))
  BY <1>2, <1>4, FS_Union
<1>6. Cardinality(live[v] \cap New(v, a)) = 0
  BY <1>3, FS_EmptySet
<1>7. Cardinality(live[v]) \in Nat
  BY <1>2, FS_CardinalityType
<1> QED  BY <1>1, <1>3, <1>4, <1>5, <1>6, <1>7 DEF Note

(* What the first n writes of a merge leave of the two claims. *)
LEMMA MergeWritesEffect ==
  ASSUME TypeInv, plan # <<>>, NEW n \in 0..5, MergeWrites(n)
  PROVE  \E v, a \in ClaimId :
           /\ v = Head(plan)[1] /\ a = Head(plan)[2]
           /\ v # a /\ live[v] # NoNote /\ live[a] # NoNote
           /\ live' = [live EXCEPT ![v] = IF n >= 1 THEN live[v] \cup New(v, a) ELSE live[v],
                                   ![a] = IF n >= 3 THEN NoNote ELSE live[a]]
           /\ merged' = [merged EXCEPT ![a] = IF n >= 2 THEN live[a] ELSE merged[a]]
           /\ rows' \in [ClaimId -> Row \cup {NoRow}]
           /\ \A c \in ClaimId : rows[c] = NoRow => rows'[c] = NoRow
           /\ \A c \in ClaimId \ {v, a} : rows'[c] = rows[c]
           /\ rows[a] # NoRow =>
                /\ rows'[a] # NoRow /\ rows'[a].count = rows[a].count
                /\ rows'[a].into = IF n = 5 THEN v ELSE rows[a].into
           /\ rows[v] # NoRow =>
                /\ rows'[v] # NoRow /\ rows'[v].into = rows[v].into
                /\ rows'[v].count = IF n >= 4 THEN rows[v].count + Cardinality(New(v, a))
                                    ELSE rows[v].count
<1>1. PICK v, a \in ClaimId : v = Head(plan)[1] /\ a = Head(plan)[2] /\ v # a
  BY HeadOfPlan
<1>2. /\ live[v] # NoNote /\ live[a] # NoNote
      /\ live' = [c \in ClaimId |-> IF c = v /\ n >= 1 THEN live[v] \cup New(v, a)
                                    ELSE IF c = a /\ n >= 3 THEN NoNote ELSE live[c]]
      /\ merged' = [c \in ClaimId |-> IF c = a /\ n >= 2 THEN live[a] ELSE merged[c]]
      /\ rows' = [c \in ClaimId |->
                    IF rows[c] = NoRow THEN NoRow
                    ELSE IF c = v /\ n >= 4
                         THEN [rows[v] EXCEPT !.count = @ + Cardinality(New(v, a))]
                    ELSE IF c = a /\ n = 5 THEN [rows[a] EXCEPT !.into = v]
                    ELSE rows[c]]
  BY <1>1 DEF MergeWrites, New
<1>3. /\ live' = [live EXCEPT ![v] = IF n >= 1 THEN live[v] \cup New(v, a) ELSE live[v],
                              ![a] = IF n >= 3 THEN NoNote ELSE live[a]]
      /\ merged' = [merged EXCEPT ![a] = IF n >= 2 THEN live[a] ELSE merged[a]]
  BY <1>1, <1>2 DEF TypeInv, CorpusTypeOK
<1>4. ASSUME rows[a] # NoRow
      PROVE  rows[a] \in Row /\ [rows[a] EXCEPT !.into = v] \in Row
  BY <1>1, <1>4 DEF TypeInv, CorpusTypeOK, Row
<1>5. ASSUME rows[v] # NoRow
      PROVE  rows[v] \in Row /\ [rows[v] EXCEPT !.count = @ + Cardinality(New(v, a))] \in Row
  <2>1. rows[v] \in Row /\ rows[v].count \in Nat \ {0} /\ Cardinality(New(v, a)) \in Nat
    BY <1>2, <1>5, NewIsFinite DEF TypeInv, CorpusTypeOK, Row
  <2>2. rows[v].count + Cardinality(New(v, a)) \in Nat \ {0}
    BY <2>1
  <2> QED  BY <2>1, <2>2 DEF Row
<1>6. rows' \in [ClaimId -> Row \cup {NoRow}]
  BY <1>2, <1>4, <1>5 DEF TypeInv, CorpusTypeOK
<1>7. rows[a] # NoRow => rows'[a] = IF n = 5 THEN [rows[a] EXCEPT !.into = v] ELSE rows[a]
  BY <1>1, <1>2
<1>8. rows[v] # NoRow =>
        rows'[v] = IF n >= 4 THEN [rows[v] EXCEPT !.count = @ + Cardinality(New(v, a))]
                   ELSE rows[v]
  BY <1>1, <1>2
<1>9. rows[a] # NoRow =>
        /\ rows'[a] # NoRow /\ rows'[a].count = rows[a].count
        /\ rows'[a].into = IF n = 5 THEN v ELSE rows[a].into
  BY <1>4, <1>7, NullAssumption DEF NullAssumption, Row
<1>10. rows[v] # NoRow =>
         /\ rows'[v] # NoRow /\ rows'[v].into = rows[v].into
         /\ rows'[v].count = IF n >= 4 THEN rows[v].count + Cardinality(New(v, a))
                             ELSE rows[v].count
  BY <1>5, <1>8, NullAssumption DEF NullAssumption, Row
<1>11. \A c \in ClaimId :
         /\ rows[c] = NoRow => rows'[c] = NoRow
         /\ c \notin {v, a} => rows'[c] = rows[c]
  BY <1>2
<1> WITNESS v \in ClaimId, a \in ClaimId
<1> HIDE DEF New
<1>12. live[v] # NoNote /\ live[a] # NoNote
  BY <1>2
<1>13. /\ \A c \in ClaimId : rows[c] = NoRow => rows'[c] = NoRow
       /\ \A c \in ClaimId \ {v, a} : rows'[c] = rows[c]
  BY <1>11
<1> QED  BY <1>1, <1>3, <1>6, <1>9, <1>10, <1>12, <1>13

LEMMA TypeMerge ==
  ASSUME TypeInv, Merge \/ MergeKilled
  PROVE  TypeInv'
<1>1. PICK n \in 0..5 : MergeWrites(n)
  BY DEF Merge, MergeKilled
<1>2. /\ plan # <<>> /\ UNCHANGED <<vecs, work, run, withdrawn, cut>>
      /\ NextPair \/ (plan' = file /\ file' = file) \/ (plan' = <<>> /\ file' = <<>>)
      /\ killed \subseteq killed'
  BY DEF Merge, MergeKilled
<1>3. crashes' \in 0..MaxCrashes /\ killed' \subseteq {"dedup", "groom", "retract"}
  BY TypeKilled DEF Merge, MergeKilled
<1>4. PICK v, a \in ClaimId :
        /\ v # a /\ live[v] # NoNote /\ live[a] # NoNote
        /\ live' = [live EXCEPT ![v] = IF n >= 1 THEN live[v] \cup New(v, a) ELSE live[v],
                                ![a] = IF n >= 3 THEN NoNote ELSE live[a]]
        /\ merged' = [merged EXCEPT ![a] = IF n >= 2 THEN live[a] ELSE merged[a]]
        /\ rows' \in [ClaimId -> Row \cup {NoRow}]
  BY <1>1, <1>2, MergeWritesEffect
<1>5. /\ live' \in [ClaimId -> {NoNote} \cup Note]
      /\ merged' \in [ClaimId -> {NoNote} \cup Note]
  BY <1>4, NewIsFinite DEF TypeInv, CorpusTypeOK
<1>6. CorpusTypeOK' /\ Control'
  BY <1>2, <1>3, <1>4, <1>5, TypePlan DEF TypeInv, CorpusTypeOK, Control, At, Candidates
<1>7. FiniteNotes'
  <2>1. IsFiniteSet(live[v] \cup New(v, a)) /\ IsFiniteSet(live[a])
    BY <1>4, NewIsFinite DEF TypeInv, FiniteNotes
  <2>2. /\ live'[v] \in {live[v], live[v] \cup New(v, a)} /\ live'[a] \in {live[a], NoNote}
        /\ \A d \in ClaimId \ {v, a} : live'[d] = live[d]
        /\ merged'[a] \in {merged[a], live[a]}
        /\ \A d \in ClaimId \ {a} : merged'[d] = merged[d]
    BY <1>4 DEF TypeInv, CorpusTypeOK
  <2> QED  BY <1>2, <2>1, <2>2 DEF TypeInv, FiniteNotes
<1> QED  BY <1>6, <1>7 DEF TypeInv

LEMMA TypeSkip ==
  ASSUME TypeInv, Skip
  PROVE  TypeInv'
BY TypePlan DEF Skip, TypeInv, CorpusTypeOK, Control, FiniteNotes, corpus, At, Candidates

(* What retract leaves of a note. *)
LEMMA KeptIsFinite ==
  ASSUME TypeInv, NEW s \in Source, NEW c \in ClaimId, Restored(s, c) # NoNote
  PROVE  /\ Restored(s, c) \in Note /\ IsFiniteSet(Restored(s, c))
         /\ Kept(s, c) \in Note /\ IsFiniteSet(Kept(s, c))
         /\ Cardinality(Restored(s, c) \ Kept(s, c)) \in Nat
         /\ Cardinality(Kept(s, c)) \in Nat
         /\ Cardinality(Restored(s, c)) =
              Cardinality(Kept(s, c)) + Cardinality(Restored(s, c) \ Kept(s, c))
<1> DEFINE R == Restored(s, c)
           K == Kept(s, c)
<1>1. R \in Note /\ IsFiniteSet(R)
  BY DEF TypeInv, CorpusTypeOK, FiniteNotes, Restored
<1>2. K \subseteq R
  BY DEF Kept
<1>3. IsFiniteSet(K) /\ K \in Note /\ IsFiniteSet(R \ K)
  BY <1>1, <1>2, FS_Subset DEF Note
<1>4. K = R \cap K /\ Cardinality(R \ K) = Cardinality(R) - Cardinality(R \cap K)
  BY <1>1, <1>2, <1>3, FS_Difference
<1>5. Cardinality(R \ K) = Cardinality(R) - Cardinality(K)
  BY <1>4
<1>6. Cardinality(K) \in Nat /\ Cardinality(R) \in Nat /\ Cardinality(R \ K) \in Nat
  BY <1>1, <1>3, FS_CardinalityType
<1> QED  BY <1>1, <1>3, <1>5, <1>6

(* What some writes of retract leave of a claim that the source does not   *)
(* own, and of one that it owns.                                           *)
LEMMA RetractWritesEffect ==
  ASSUME TypeInv, NEW s \in Source, NEW W \in SUBSET Writes(s), RetractWrites(s, W),
         NEW c \in ClaimId
  PROVE  /\ c \notin Owned(s) =>
              /\ live'[c] = IF <<"strip", c>> \in W THEN Kept(s, c)
                            ELSE IF <<"restore", c>> \in W THEN Restored(s, c) ELSE live[c]
              /\ merged'[c] = IF <<"move", c>> \in W THEN NoNote ELSE merged[c]
              /\ rows[c] = NoRow => rows'[c] = NoRow
              /\ rows[c] # NoRow =>
                   /\ rows'[c] \in Row
                   /\ rows'[c].count =
                        IF <<"lower", c>> \in W
                        THEN Less(rows[c].count, Cardinality(Restored(s, c) \ Kept(s, c)))
                        ELSE rows[c].count
                   /\ rows'[c].into = IF <<"unmerge", c>> \in W THEN Nobody ELSE rows[c].into
         /\ c \in Owned(s) =>
              /\ live'[c] \in {live[c], NoNote} /\ merged'[c] \in {merged[c], NoNote}
              /\ rows'[c] \in {rows[c], NoRow}
         /\ c \in vecs' => c \in vecs
<1>1. /\ live'[c] = IF <<"unlink", c>> \in W THEN NoNote
                   ELSE IF <<"strip", c>> \in W THEN Kept(s, c)
                   ELSE IF <<"restore", c>> \in W THEN Restored(s, c) ELSE live[c]
      /\ merged'[c] = IF <<"move", c>> \in W \/ <<"unput", c>> \in W THEN NoNote ELSE merged[c]
      /\ rows'[c] = IF <<"delete", c>> \in W \/ rows[c] = NoRow THEN NoRow
                    ELSE [count |-> IF <<"lower", c>> \in W
                                    THEN Less(rows[c].count,
                                              Cardinality(Restored(s, c) \ Kept(s, c)))
                                    ELSE rows[c].count,
                          into |-> IF <<"unmerge", c>> \in W THEN Nobody ELSE rows[c].into]
      /\ c \in vecs' => c \in vecs
  BY DEF RetractWrites
<1>2. /\ <<"unlink", c>> \in W \/ <<"unput", c>> \in W \/ <<"delete", c>> \in W
           => c \in Owned(s)
      /\ <<"strip", c>> \in W \/ <<"lower", c>> \in W => c \in Detached(s)
      /\ <<"restore", c>> \in W \/ <<"unmerge", c>> \in W => c \in Unmerged(s)
  BY DEF Writes, Restoring, Cleaning, Removing
<1>3. (c \in Detached(s) => c \notin Owned(s)) /\ (c \in Unmerged(s) => c \notin Owned(s))
  BY DEF Detached, Unmerged
<1>4. ASSUME rows[c] # NoRow
      PROVE  /\ rows[c] \in Row /\ rows[c].count \in Nat \ {0}
             /\ rows[c].into \in ClaimId \cup {Nobody}
             /\ rows[c] = [count |-> rows[c].count, into |-> rows[c].into]
             /\ c \in Detached(s) =>
                  Less(rows[c].count, Cardinality(Restored(s, c) \ Kept(s, c))) \in Nat \ {0}
  <2>1. /\ rows[c] \in Row /\ rows[c].count \in Nat \ {0}
        /\ rows[c].into \in ClaimId \cup {Nobody}
        /\ rows[c] = [count |-> rows[c].count, into |-> rows[c].into]
    BY <1>4 DEF TypeInv, CorpusTypeOK, Row
  <2>2. c \in Detached(s) => Cardinality(Restored(s, c) \ Kept(s, c)) \in Nat
    BY KeptIsFinite DEF Detached
  <2> QED  BY <2>1, <2>2 DEF Less
<1>5. CASE c \notin Owned(s)
  <2>1. rows[c] # NoRow =>
          /\ rows'[c].count = IF <<"lower", c>> \in W
                              THEN Less(rows[c].count, Cardinality(Restored(s, c) \ Kept(s, c)))
                              ELSE rows[c].count
          /\ rows'[c].into = IF <<"unmerge", c>> \in W THEN Nobody ELSE rows[c].into
          /\ rows'[c] = [count |-> rows'[c].count, into |-> rows'[c].into]
    BY <1>1, <1>2, <1>5
  <2>2. rows[c] # NoRow =>
          rows'[c].count \in Nat \ {0} /\ rows'[c].into \in ClaimId \cup {Nobody}
    BY <1>2, <1>4, <2>1
  <2>3. rows[c] # NoRow => rows'[c] \in Row
    BY <2>1, <2>2 DEF Row
  <2> QED  BY <1>1, <1>2, <1>5, <2>1, <2>3
<1>6. CASE c \in Owned(s)
  <2>1. rows[c] # NoRow
    BY <1>6 DEF Owned
  <2>2. /\ live'[c] = IF <<"unlink", c>> \in W THEN NoNote ELSE live[c]
        /\ merged'[c] = IF <<"unput", c>> \in W \/ <<"move", c>> \in W THEN NoNote ELSE merged[c]
        /\ rows'[c] = IF <<"delete", c>> \in W THEN NoRow
                      ELSE [count |-> rows[c].count, into |-> rows[c].into]
    BY <1>1, <1>2, <1>3, <1>6, <2>1
  <2> QED  BY <1>1, <1>4, <1>6, <2>1, <2>2
<1> QED  BY <1>5, <1>6

(* The writes of a retract that was killed: a note is moved back before    *)
(* the one under merged/ goes.                                             *)
LEMMA RetractKilledWrites ==
  ASSUME NEW s \in Source, RetractKilled(s)
  PROVE  \E W \in SUBSET Writes(s) :
           /\ RetractWrites(s, W)
           /\ \A c \in ClaimId : <<"move", c>> \in W => <<"restore", c>> \in W
<1>1. PICK w \in Writes(s) : \E done \in SUBSET Alike(s, w) :
        RetractWrites(s, WrittenBefore(s, w, done))
  BY DEF RetractKilled
<1>2. PICK done \in SUBSET Alike(s, w) : RetractWrites(s, WrittenBefore(s, w, done))
  BY <1>1
<1>3. WrittenBefore(s, w, done) \subseteq Writes(s)
  BY DEF WrittenBefore
<1>4. ASSUME NEW c \in ClaimId, <<"move", c>> \in WrittenBefore(s, w, done)
      PROVE  <<"restore", c>> \in WrittenBefore(s, w, done)
  <2>1. <<"restore", c>> \in Writes(s)
    BY <1>3, <1>4 DEF Writes, Restoring, Cleaning, Removing
  <2>2. PlaceOf(s, <<"restore", c>>) = PlaceOf(s, <<"move", c>>)
    BY DEF PlaceOf, TurnOf, Restoring, Removing
  <2>3. Rank["restore"] = 1 /\ Rank["move"] = 2
    BY DEF Rank
  <2>4. Rank[w[1]] \in Nat
    BY <1>1 DEF Writes, Restoring, Cleaning, Removing, Rank
  <2>5. c \in done \/ (c = w[2] /\ 2 < Rank[w[1]]) =>
          c \in done \/ (c = w[2] /\ 1 < Rank[w[1]])
    BY <2>4
  <2> QED  BY <1>4, <2>1, <2>2, <2>3, <2>5 DEF WrittenBefore
<1> QED  BY <1>2, <1>3, <1>4

LEMMA RetractTypes ==
  ASSUME TypeInv, NEW s \in Source, NEW W \in SUBSET Writes(s), RetractWrites(s, W)
  PROVE  /\ rows' \in [ClaimId -> Row \cup {NoRow}] /\ vecs' \subseteq ClaimId
         /\ live' \in [ClaimId -> {NoNote} \cup Note]
         /\ merged' \in [ClaimId -> {NoNote} \cup Note]
         /\ \A c \in ClaimId : \A note \in {live'[c], merged'[c]} :
              note # NoNote => IsFiniteSet(note)
<1>1. ASSUME NEW c \in ClaimId
      PROVE  /\ rows'[c] \in Row \cup {NoRow}
             /\ merged'[c] \in {merged[c], NoNote}
             /\ live'[c] # NoNote => live'[c] \in Note /\ IsFiniteSet(live'[c])
  <2>1. /\ rows[c] \in Row \cup {NoRow} /\ live[c] \in {NoNote} \cup Note
        /\ live[c] # NoNote => IsFiniteSet(live[c])
    BY DEF TypeInv, CorpusTypeOK, FiniteNotes
  <2>2. <<"strip", c>> \in W => Restored(s, c) # NoNote
    BY DEF Writes, Restoring, Cleaning, Removing, Detached
  <2>3. CASE c \in Owned(s)
    BY <2>1, <2>3, RetractWritesEffect
  <2>4. CASE c \notin Owned(s)
    <3>1. rows'[c] \in Row \cup {NoRow}
      BY <2>4, RetractWritesEffect
    <3>2. merged'[c] \in {merged[c], NoNote}
      BY <2>4, RetractWritesEffect
    <3>3. live'[c] = IF <<"strip", c>> \in W THEN Kept(s, c)
                     ELSE IF <<"restore", c>> \in W THEN Restored(s, c) ELSE live[c]
      <4>1. <<"unlink", c>> \notin W
        BY <2>4 DEF Writes, Restoring, Cleaning, Removing
      <4> QED  BY <4>1 DEF RetractWrites
    <3>4. ASSUME live'[c] # NoNote
          PROVE  live'[c] \in Note /\ IsFiniteSet(live'[c])
      <4>1. CASE <<"strip", c>> \in W
        BY <2>2, <3>3, <4>1, KeptIsFinite
      <4>2. CASE <<"strip", c>> \notin W /\ <<"restore", c>> \in W
        BY <3>3, <3>4, <4>2, KeptIsFinite
      <4>3. CASE <<"strip", c>> \notin W /\ <<"restore", c>> \notin W
        BY <2>1, <3>3, <3>4, <4>3
      <4> QED  BY <4>1, <4>2, <4>3
    <3> QED  BY <3>1, <3>2, <3>4
  <2> QED  BY <2>3, <2>4
<1>2. live' = [c \in ClaimId |-> live'[c]] /\ merged' = [c \in ClaimId |-> merged'[c]]
  BY DEF RetractWrites
<1>3. rows' = [c \in ClaimId |-> rows'[c]] /\ vecs' \subseteq vecs
  BY DEF RetractWrites
<1>4. live' \in [ClaimId -> {NoNote} \cup Note]
  BY <1>1, <1>2
<1>5. rows' \in [ClaimId -> Row \cup {NoRow}]
  BY <1>1, <1>3
<1>6. merged' \in [ClaimId -> {NoNote} \cup Note]
  BY <1>1, <1>2 DEF TypeInv, CorpusTypeOK
<1> QED  BY <1>1, <1>3, <1>4, <1>5, <1>6 DEF TypeInv, CorpusTypeOK, FiniteNotes

LEMMA TypeRetract ==
  ASSUME TypeInv, NEW s \in Source, Retract(s) \/ RetractKilled(s)
  PROVE  TypeInv'
<1>1. PICK W \in SUBSET Writes(s) : RetractWrites(s, W)
  BY RetractKilledWrites DEF Retract
<1>2. /\ UNCHANGED <<work, run, plan, file>>
      /\ cut' \subseteq cut \cup {s} /\ killed \subseteq killed'
      /\ cut' \subseteq cut \/ "retract" \in killed'
      /\ withdrawn' \subseteq withdrawn \cup {s}
  BY DEF Retract, RetractKilled
<1>3. crashes' \in 0..MaxCrashes /\ killed' \subseteq {"dedup", "groom", "retract"}
  BY TypeKilled DEF Retract, RetractKilled
<1>4. CorpusTypeOK'
  BY <1>1, <1>2, <1>3, RetractTypes DEF TypeInv, CorpusTypeOK
<1>5. Control'
  BY <1>2 DEF TypeInv, Control, At, Candidates
<1>6. FiniteNotes'
  BY <1>1, <1>2, RetractTypes DEF TypeInv, FiniteNotes
<1> QED  BY <1>4, <1>5, <1>6 DEF TypeInv

LEMMA TypeStep ==
  ASSUME TypeInv, [Next]_vars
  PROVE  TypeInv'
<1>1. CASE Groom
  BY <1>1, TypeMakePlan, TypeMerge, TypeSkip DEF Groom
<1>2. ASSUME NEW s \in Source, Dedup(s)  PROVE TypeInv'
  BY <1>2, TypeBegin, TypeMatch, TypeAttest, TypeBump, TypeCreate, TypeInsert, TypeIndex,
     TypeStops DEF Dedup
<1>3. ASSUME NEW s \in Source, Retract(s) \/ RetractKilled(s)  PROVE TypeInv'
  BY <1>3, TypeRetract
<1>4. CASE UNCHANGED vars
  BY <1>4 DEF vars, TypeInv, CorpusTypeOK, Control, FiniteNotes, At, Candidates
<1> QED  BY <1>1, <1>2, <1>3, <1>4 DEF Next

LEMMA TypeInit ==
  ASSUME Init
  PROVE  TypeInv
<1>1. Idle \in Work /\ Idle.note = {} /\ Idle.step = "idle"
  BY Bounds DEF Idle, Work, Step
<1>2. CorpusTypeOK
  BY <1>1, Bounds DEF Init, CorpusTypeOK
<1>3. \A s \in Source : work[s] = Idle
  BY DEF Init
<1>4. plan = <<>> /\ file = <<>> /\ DOMAIN <<>> = {} /\ cut = {}
  BY DEF Init
<1>5. Control
  BY <1>1, <1>3, <1>4 DEF Control, At
<1>6. FiniteNotes
  BY <1>1, <1>3, FS_EmptySet DEF Init, FiniteNotes
<1> QED  BY <1>2, <1>5, <1>6 DEF TypeInv

(* Every reachable state has the types the corpus is declared with.        *)
THEOREM CorpusTyped == Spec => []CorpusTypeOK
<1>1. TypeInv => CorpusTypeOK
  BY DEF TypeInv
<1> QED  BY TypeInit, TypeStep, <1>1, PTL DEF Spec

-----------------------------------------------------------------------------
(* No attestation is made twice.                                           *)

LEMMA PastHolds ==
  ASSUME TypeInv, PastInv, NEW c \in ClaimId, NEW note \in {live[c], merged[c]},
         note # NoNote, NEW a \in note
  PROVE  Past(a) /\ a \in Attestation
BY DEF PastInv, TypeInv, CorpusTypeOK, Note

(* An attestation that was made stays one of the past when a pass of its   *)
(* source goes on or another begins.                                       *)
LEMMA PastStays ==
  ASSUME TypeInv, TypeInv', NEW a \in Attestation, Past(a),
         \/ run'[a.src] = run[a.src] + 1
         \/ /\ run'[a.src] = run[a.src]
            /\ \/ work'[a.src] = work[a.src]
               \/ work'[a.src].step = "idle"
               \/ /\ ~ At(a.src, "idle")
                  /\ work'[a.src].pos = work[a.src].pos + 1
               \/ /\ ~ At(a.src, "idle")
                  /\ work'[a.src].pos = work[a.src].pos
                  /\ \/ At(a.src, "judge")
                     \/ work'[a.src].step \notin {"judge", "write"}
  PROVE  Past(a)'
<1>1. /\ a.src \in Source /\ a.run \in Nat /\ a.pos \in Nat
      /\ run[a.src] \in Nat /\ run'[a.src] \in Nat
      /\ work[a.src] \in Work /\ work'[a.src] \in Work
  BY Bounds DEF Attestation, Candidate, TypeInv, CorpusTypeOK
<1>2. work[a.src].pos \in Nat /\ work'[a.src].pos \in Nat
  BY <1>1, Bounds DEF Work
<1> QED  BY <1>1, <1>2 DEF Past, At

(* A step of one pass that leaves the notes alone, or adds Here to one.    *)
LEMMA PastStep ==
  ASSUME TypeInv, TypeInv', SoundInv, PastInv, [Next]_vars
  PROVE  PastInv'
<1>1. ASSUME NEW s \in Source, Begin(s) \/ (\E m \in ClaimId : Match(s, m)) \/ Bump(s)
                              \/ Insert(s) \/ Index(s) \/ End(s) \/ Crash(s)
      PROVE  PastInv'
  <2>1. /\ UNCHANGED <<live, merged>>
        /\ \A t \in Source \ {s} : work'[t] = work[t] /\ run'[t] = run[t]
    BY <1>1 DEF Begin, Match, Bump, Insert, Index, End, Crash, corpus, TypeInv, CorpusTypeOK
  <2>2. \/ run'[s] = run[s] + 1
        \/ /\ run'[s] = run[s]
           /\ \/ work'[s].step = "idle"
              \/ ~ At(s, "idle") /\ work'[s].pos = work[s].pos + 1
              \/ /\ ~ At(s, "idle") /\ work'[s].pos = work[s].pos
                 /\ At(s, "judge") \/ work'[s].step \notin {"judge", "write"}
    BY <1>1 DEF Begin, Match, Bump, Insert, Index, End, Crash, corpus, TypeInv, CorpusTypeOK,
                At, NextCandidate, Judging, Chosen, Idle, Work
  <2>3. ASSUME NEW a \in Attestation, Past(a)  PROVE Past(a)'
    <3>1. a.src \in Source
      BY DEF Attestation
    <3> QED  BY <2>1, <2>2, <2>3, <3>1, PastStays
  <2> QED  BY <2>1, <2>3, PastHolds DEF PastInv
<1>2. ASSUME NEW s \in Source, Attest(s) \/ Create(s)
      PROVE  PastInv'
  <2>1. /\ ~ At(s, "idle") /\ Candidates(s) /\ merged' = merged /\ run' = run
        /\ \A t \in Source \ {s} : work'[t] = work[t]
    BY <1>2 DEF Attest, Create, At, TypeInv, CorpusTypeOK, Control
  <2>2. \/ work'[s].pos = work[s].pos + 1
        \/ work'[s].pos = work[s].pos /\ work'[s].step \in {"bump", "insert"}
    BY <1>2 DEF Attest, Create, At, TypeInv, CorpusTypeOK, NextCandidate, Judging, Chosen, Work
  <2>3. ASSUME NEW a \in Attestation, Past(a)  PROVE Past(a)'
    <3>1. a.src \in Source
      BY DEF Attestation
    <3> QED  BY <2>1, <2>2, <2>3, <3>1, PastStays
  <2>4. PICK h \in Attestation : h = Here(s)
    BY <2>1, HereIsAttestation
  <2>5. Past(h)'
    <3>1. h.src = s /\ h.run = run[s] /\ h.pos = work[s].pos
      BY <2>4 DEF Here
    <3>2. run[s] \in Nat /\ work[s] \in Work /\ work[s].pos \in Nat
      BY Bounds DEF TypeInv, CorpusTypeOK, Work
    <3> QED  BY <2>1, <2>2, <3>1, <3>2 DEF Past
  <2>6. PICK d \in ClaimId :
          /\ \A c \in ClaimId \ {d} : live'[c] = live[c]
          /\ live'[d] \subseteq {h} \/ (live[d] # NoNote /\ live'[d] \subseteq live[d] \cup {h})
    <3>1. CASE Attest(s)
      <4>1. work[s].claim \in ClaimId /\ live[work[s].claim] = work[s].note
        BY <3>1 DEF Attest, At, TypeInv, Control, SoundInv, Underway
      <4>2. live[work[s].claim] # NoNote
        BY <4>1, NullAssumption DEF TypeInv, CorpusTypeOK, Work, NullAssumption
      <4>3. PICK note : /\ live' = [live EXCEPT ![work[s].claim] = note]
                        /\ note \subseteq work[s].note \cup {h}
        BY <3>1, <2>4 DEF Attest
      <4>4. /\ live' = [live EXCEPT ![work[s].claim] = note]
            /\ live \in [ClaimId -> {NoNote} \cup Note]
        BY <4>3 DEF TypeInv, CorpusTypeOK
      <4> QED  BY <4>1, <4>2, <4>3, <4>4
    <3>2. CASE Create(s)
      BY <3>2, <2>1, <2>4, HereIsAttestation DEF Create, TypeInv, CorpusTypeOK
    <3> QED  BY <1>2, <3>1, <3>2
  <2>7. ASSUME NEW c \in ClaimId, NEW note \in {live'[c], merged'[c]}, note # NoNote,
               NEW a \in note
        PROVE  Past(a)'
    <3>1. CASE a = h
      BY <3>1, <2>5
    <3>2. CASE a # h
      <4>1. PICK old \in {live[c], merged[c]} : old # NoNote /\ a \in old
        BY <3>2, <2>1, <2>6, <2>7
      <4> QED  BY <4>1, <2>3, PastHolds
    <3> QED  BY <3>1, <3>2
  <2> QED  BY <2>7 DEF PastInv
<1>3. CASE MakePlan \/ Skip
  BY <1>3 DEF MakePlan, Skip, corpus, PastInv, Past
<1>4. CASE Merge \/ MergeKilled
  <2>0. PICK n \in 0..5 : plan # <<>> /\ MergeWrites(n)
    BY <1>4 DEF Merge, MergeKilled
  <2>1. /\ work' = work /\ run' = run
        /\ Head(plan)[1] \in ClaimId /\ Head(plan)[2] \in ClaimId
        /\ live[Head(plan)[1]] # NoNote /\ live[Head(plan)[2]] # NoNote
    BY <1>4, <2>0, HeadOfPlan DEF Merge, MergeKilled, MergeWrites
  <2>2. \A a \in Attestation : Past(a) => Past(a)'
    BY <2>1 DEF Past
  <2>3. ASSUME NEW c \in ClaimId, NEW note \in {live'[c], merged'[c]}, note # NoNote,
               NEW a \in note
        PROVE  Past(a)'
    <3>1. PICK d \in ClaimId : \E old \in {live[d], merged[d]} : old # NoNote /\ a \in old
      BY <2>0, <2>1, <2>3 DEF MergeWrites
    <3> QED  BY <3>1, <2>2, PastHolds
  <2> QED  BY <2>3 DEF PastInv
<1>5. ASSUME NEW s \in Source, Retract(s) \/ RetractKilled(s)  PROVE PastInv'
  <2>0. PICK W \in SUBSET Writes(s) : RetractWrites(s, W)
    BY <1>5, RetractKilledWrites DEF Retract
  <2>1. work' = work /\ run' = run
    BY <1>5 DEF Retract, RetractKilled
  <2>2. \A a \in Attestation : Past(a) => Past(a)'
    BY <2>1 DEF Past
  <2>3. ASSUME NEW c \in ClaimId, NEW note \in {live'[c], merged'[c]}, note # NoNote,
               NEW a \in note
        PROVE  Past(a)'
    <3>1. PICK old \in {live[c], merged[c]} : old # NoNote /\ a \in old
      <4>1. <<"strip", c>> \in W => Restored(s, c) # NoNote
        BY DEF Writes, Restoring, Cleaning, Removing, Detached
      <4>2. Restored(s, c) \in {live[c], merged[c]} /\ Kept(s, c) \subseteq Restored(s, c)
        BY DEF Restored, Kept
      <4>3. merged'[c] \in {merged[c], NoNote}
        BY <2>0 DEF RetractWrites
      <4>4. /\ live'[c] \in {live[c], NoNote, Restored(s, c), Kept(s, c)}
            /\ live'[c] \in {live[c], NoNote, Restored(s, c)} \/ Restored(s, c) # NoNote
        BY <2>0, <4>1 DEF RetractWrites
      <4> QED  BY <2>3, <4>2, <4>3, <4>4
    <3> QED  BY <3>1, <2>2, PastHolds
  <2> QED  BY <2>3 DEF PastInv
<1>6. CASE UNCHANGED vars
  BY <1>6 DEF vars, PastInv, Past
<1> QED  BY <1>1, <1>2, <1>3, <1>4, <1>5, <1>6 DEF Next, Dedup, Groom

-----------------------------------------------------------------------------
(* Rows and their notes.                                                   *)

(* One pass goes on while every other source is idle.                      *)
LEMMA OthersRest ==
  ASSUME TypeInv, OneBusy, NEW s \in AtWork, NEW p, work' = [work EXCEPT ![s] = p]
  PROVE  /\ OneBusy'
         /\ \A t \in Source \ {s} : At(t, "idle") /\ At(t, "idle")'
<1>1. \A t \in Source \ {s} : At(t, "idle") /\ work'[t] = work[t]
  BY DEF TypeInv, CorpusTypeOK, OneBusy, AtWork, At
<1> QED  BY <1>1 DEF OneBusy, AtWork, At

LEMMA IdleUnderway ==
  ASSUME NEW s \in Source, At(s, "idle")'
  PROVE  Underway(s)'
BY DEF Underway, At

LEMMA SameNotes ==
  ASSUME UNCHANGED <<rows, live, merged, cut>>, killed \subseteq killed',
         \A c \in ClaimId : Sound(c)
  PROVE  \A c \in ClaimId : Sound(c)'
BY DEF Sound, Shown, Live

LEMMA SettledRow ==
  ASSUME TypeInv, killed \subseteq {"dedup"}, NEW c \in ClaimId, Sound(c), rows[c] # NoRow
  PROVE  Settled(c) /\ NoteOf(c) = Shown(c)
<1>1. Owner(c) \notin cut /\ "retract" \notin killed
  BY DEF TypeInv, Control
<1>2. NoteOf(c) = Shown(c)
  BY <1>1 DEF Sound, NoteOf, Shown
<1> QED  BY <1>1, <1>2 DEF Sound, Settled

LEMMA SoundBegin ==
  ASSUME OneWriter, TypeInv, SoundInv, NEW s \in Source, Begin(s)
  PROVE  SoundInv'
<1>1. PICK n \in Sizes[s] : work' = [work EXCEPT ![s] = Judging(n, 1)]
  BY DEF Begin
<1>2. /\ work'[s] = Judging(n, 1)
      /\ \A t \in Source \ {s} : work'[t] = work[t] /\ At(t, "idle")
  BY <1>1 DEF Begin, TypeInv, CorpusTypeOK, AtWork, At
<1>3. OneBusy' /\ \A t \in Source \ {s} : At(t, "idle")'
  BY <1>2 DEF OneBusy, AtWork, At
<1>4. ASSUME NEW c \in ClaimId  PROVE Sound(c)'
  <2>1. /\ UNCHANGED <<rows, live, merged, killed>> /\ cut' = cut \ {s}
        /\ rows[c] # NoRow => Owner(c) # s
    BY DEF Begin, corpus, Owned
  <2> QED  BY <2>1 DEF SoundInv, Sound, Shown, Live
<1>5. Underway(s)'
  BY <1>2 DEF Begin, corpus, Underway, At, Judging, Owned
<1> QED  BY <1>3, <1>4, <1>5, IdleUnderway DEF SoundInv

LEMMA SoundMatch ==
  ASSUME OneWriter, TypeInv, SoundInv, NEW s \in Source, NEW m \in ClaimId, Match(s, m)
  PROVE  SoundInv'
<1>1. PICK c \in ClaimId : work' = [work EXCEPT ![s] = Chosen(s, "write", c, live[c])]
  BY DEF Match
<1>2. s \in AtWork
  BY DEF Match, At, AtWork
<1>3. OneBusy' /\ \A t \in Source \ {s} : Underway(t)'
  BY <1>1, <1>2, OthersRest, IdleUnderway DEF SoundInv
<1>4. \A c2 \in ClaimId : Sound(c2)'
  BY SameNotes DEF Match, corpus, SoundInv
<1>5. work'[s] = Chosen(s, "write", c, live[c])
  BY <1>1 DEF TypeInv, CorpusTypeOK
<1>6. Underway(s)'
  BY <1>5 DEF Match, corpus, SoundInv, Underway, At, Chosen, Owned
<1> QED  BY <1>3, <1>4, <1>6 DEF SoundInv

(* An attestation is added to the note that was read, which is still there *)
(* and does not hold it.                                                   *)
LEMMA AttestAdds ==
  ASSUME TypeInv, SoundInv, PastInv, NEW s \in Source, Attest(s)
  PROVE  LET d == work[s].claim
         IN /\ d \in ClaimId /\ live[d] = work[s].note /\ live[d] # NoNote
            /\ rows[d] # NoRow /\ "retract" \notin killed => Live(d)
            /\ live[d] \cup {Here(s)} # NoNote
            /\ Cardinality(live[d]) \in Nat
            /\ Cardinality(live[d] \cup {Here(s)}) = Cardinality(live[d]) + 1
<1> DEFINE d == work[s].claim
<1>1. d \in ClaimId /\ live[d] = work[s].note /\ work[s].note \in Note
  BY DEF Attest, At, TypeInv, CorpusTypeOK, Control, Work, SoundInv, Underway
<1>2. live[d] # NoNote
  BY <1>1, NullAssumption DEF NullAssumption
<1>3. rows[d] # NoRow /\ "retract" \notin killed => Live(d)
  BY <1>1, <1>2 DEF SoundInv, Sound
<1>4. Here(s) \in Attestation
  BY HereIsAttestation DEF Attest, At, TypeInv, Control
<1>5. Here(s) \notin live[d]
  <2>1. SUFFICES ASSUME Here(s) \in live[d]  PROVE FALSE
    OBVIOUS
  <2>2. PICK a \in live[d] : a = Here(s)
    BY <2>1
  <2>3. Past(a) /\ a.src = s /\ a.run = run[s] /\ a.pos = work[s].pos
    BY <1>1, <1>2, <2>2, PastHolds DEF Here
  <2>4. work[s].pos \in Nat
    BY Bounds DEF TypeInv, CorpusTypeOK, Work
  <2> QED  BY <2>3, <2>4 DEF Past, Attest, At
<1>6. live[d] \cup {Here(s)} \in Note
  BY <1>1, <1>4 DEF Note
<1>7. IsFiniteSet(live[d])
  BY <1>1 DEF TypeInv, FiniteNotes
<1>8. /\ Cardinality(live[d]) \in Nat
      /\ Cardinality(live[d] \cup {Here(s)}) = Cardinality(live[d]) + 1
  BY <1>5, <1>7, FS_CardinalityType, FS_AddElement
<1> QED  BY <1>1, <1>2, <1>3, <1>6, <1>8, NullAssumption DEF NullAssumption

LEMMA SoundAttest ==
  ASSUME OneWriter, TypeInv, SoundInv, PastInv, NEW s \in Source, Attest(s)
  PROVE  SoundInv'
<1> DEFINE d == work[s].claim
<1>1. s \in AtWork /\ work[s] \in Work /\ work[s].pos \in Nat
  BY Bounds DEF Attest, At, AtWork, TypeInv, CorpusTypeOK, Work
<1>2. PICK p \in {NextCandidate(s), [work[s] EXCEPT !.step = "bump"]} :
        work' = [work EXCEPT ![s] = p]
  BY DEF Attest
<1>3. OneBusy' /\ \A t \in Source \ {s} : Underway(t)'
  BY <1>1, <1>2, OthersRest, IdleUnderway DEF SoundInv
<1>4. CASE Emphasis(s)
  <2>1. live' = live /\ work'[s] = NextCandidate(s)
    <3>1. live' = [live EXCEPT ![d] = work[s].note] /\ work' = [work EXCEPT ![s] = NextCandidate(s)]
      BY <1>4 DEF Attest
    <3>2. work[s].note = live[d]
      BY AttestAdds
    <3> QED  BY <3>1, <3>2 DEF TypeInv, CorpusTypeOK
  <2>2. \A c \in ClaimId : Sound(c)'
    BY <2>1, SameNotes DEF Attest, SoundInv
  <2>3. Underway(s)'
    BY <1>1, <2>1
       DEF Attest, SoundInv, Underway, At, NextCandidate, Judging, Owned, ClaimId, Candidate
  <2> QED  BY <1>3, <2>2, <2>3 DEF SoundInv
<1>5. CASE ~ Emphasis(s)
  <2>1. /\ live' = [live EXCEPT ![d] = live[d] \cup {Here(s)}]
        /\ work'[s] = [work[s] EXCEPT !.step = "bump"]
        /\ UNCHANGED <<rows, merged, run, killed, cut>>
    BY <1>5, AttestAdds DEF Attest, TypeInv, CorpusTypeOK
  <2>2. ASSUME NEW c \in ClaimId  PROVE Sound(c)'
    <3>1. CASE c # d
      BY <2>1, <3>1 DEF SoundInv, Sound, Shown, Live, TypeInv, CorpusTypeOK
    <3>2. CASE c = d
      <4>1. live'[c] = live[c] \cup {Here(s)} /\ rows' = rows /\ merged' = merged
        BY <2>1, <3>2, AttestAdds DEF TypeInv, CorpusTypeOK
      <4>2. rows[c] # NoRow => rows[c].count \in Nat
        BY DEF TypeInv, CorpusTypeOK, Row
      <4>3. /\ live[c] # NoNote /\ live[c] \cup {Here(s)} # NoNote
            /\ Cardinality(live[c]) \in Nat
            /\ Cardinality(live[c] \cup {Here(s)}) = Cardinality(live[c]) + 1
        BY <3>2, AttestAdds
      <4>4. /\ Shown(c) = live[c] /\ Shown(c)' = live[c] \cup {Here(s)}
            /\ live'[c] # NoNote /\ (Live(c)' <=> Live(c))
        BY <4>1, <4>3 DEF Shown, Live
      <4>5. Sound(c)
        BY DEF SoundInv
      <4> QED  BY <2>1, <4>1, <4>2, <4>3, <4>4, <4>5 DEF Sound
    <3> QED  BY <3>1, <3>2
  <2>3. Underway(s)'
    <3>1. /\ work'[s].step = "bump" /\ work'[s].pos = work[s].pos /\ work'[s].claim = d
      BY <1>1, <2>1 DEF Work
    <3>2. live'[d] = live[d] \cup {Here(s)}
      BY <2>1, AttestAdds DEF TypeInv, CorpusTypeOK
    <3>3. rows[d] # NoRow /\ "retract" \notin killed =>
            rows[d].count \in Nat /\ rows[d].count <= Cardinality(live[d])
      BY AttestAdds DEF TypeInv, CorpusTypeOK, Row, SoundInv, Sound, Shown
    <3>4. rows[d] # NoRow /\ "retract" \notin killed => rows[d].count + 1 <= Cardinality(live'[d])
      BY <3>2, <3>3, AttestAdds
    <3>5. \A c \in Owned(s) : c[2] < work[s].pos
      BY DEF SoundInv, Underway, Attest, At
    <3> QED  BY <2>1, <3>1, <3>2, <3>4, <3>5, AttestAdds DEF Underway, At, Owned
  <2> QED  BY <1>3, <2>2, <2>3 DEF SoundInv
<1> QED  BY <1>4, <1>5

LEMMA SoundBump ==
  ASSUME OneWriter, TypeInv, SoundInv, NEW s \in Source, Bump(s)
  PROVE  SoundInv'
<1>0. PICK d \in ClaimId : d = work[s].claim
  BY DEF Bump, At, TypeInv, Control
<1>1. s \in AtWork /\ work[s] \in Work /\ work[s].pos \in Nat /\ d \in ClaimId
  BY <1>0, Bounds DEF Bump, At, AtWork, TypeInv, CorpusTypeOK, Control, Work
<1>2. /\ work' = [work EXCEPT ![s] = NextCandidate(s)] /\ work'[s] = NextCandidate(s)
      /\ rows' = WithCount(d, 1)
      /\ UNCHANGED <<live, merged, run, killed, cut>>
  BY <1>0 DEF Bump, TypeInv, CorpusTypeOK
<1>3. OneBusy' /\ \A t \in Source \ {s} : Underway(t)'
  BY <1>1, <1>2, OthersRest, IdleUnderway DEF SoundInv
<1>4. CASE rows[d] = NoRow
  <2>1. rows' = rows
    BY <1>2, <1>4 DEF WithCount
  <2>2. \A c \in ClaimId : Sound(c)'
    BY <1>2, <2>1, SameNotes DEF SoundInv
  <2>3. Underway(s)'
    BY <1>1, <1>2, <2>1
       DEF SoundInv, Underway, Bump, At, NextCandidate, Judging, Owned, ClaimId, Candidate
  <2> QED  BY <1>3, <2>2, <2>3 DEF SoundInv
<1>5. CASE rows[d] # NoRow
  <2>1. rows' = [rows EXCEPT ![d] = [rows[d] EXCEPT !.count = @ + 1]]
    BY <1>2, <1>5 DEF WithCount
  <2>2. rows[d] \in Row /\ rows \in [ClaimId -> Row \cup {NoRow}]
    BY <1>1, <1>5 DEF TypeInv, CorpusTypeOK
  <2>3. /\ rows'[d] \in Row /\ rows'[d].count = rows[d].count + 1
        /\ rows'[d].into = rows[d].into
        /\ \A c \in ClaimId \ {d} : rows'[c] = rows[c]
    BY <1>1, <2>1, <2>2 DEF Row
  <2>4. rows'[d] # NoRow
    BY <2>3, NullAssumption DEF NullAssumption
  <2>5. /\ live[d] # NoNote /\ Shown(d) = live[d]
        /\ "retract" \notin killed => rows[d].count + 1 <= Cardinality(live[d])
    BY <1>0, <1>1, <1>5 DEF SoundInv, Underway, Shown, Bump, At
  <2>6. Sound(d)'
    <3>1. (Live(d)' <=> Live(d)) /\ Shown(d)' = Shown(d)
      BY <1>2, <1>5, <2>3, <2>4 DEF Live, Shown
    <3>2. Sound(d)
      BY <1>1 DEF SoundInv
    <3> QED  BY <1>2, <1>5, <2>3, <2>5, <3>1, <3>2 DEF Sound
  <2>7. \A c \in ClaimId \ {d} : Sound(c)'
    BY <1>2, <2>3 DEF SoundInv, Sound, Shown, Live
  <2>8. \A c \in ClaimId : rows'[c] # NoRow <=> rows[c] # NoRow
    BY <1>5, <2>3, <2>4
  <2>9. Underway(s)'
    BY <1>1, <1>2, <2>8
       DEF SoundInv, Underway, Bump, At, NextCandidate, Judging, Owned, ClaimId, Candidate
  <2> QED  BY <1>3, <2>6, <2>7, <2>9 DEF SoundInv
<1> QED  BY <1>4, <1>5

(* The row of a claim that is being created is not there yet.              *)
LEMMA RowIsFree ==
  ASSUME TypeInv, SoundInv, NEW s \in Source, At(s, "judge") \/ At(s, "insert"), Candidates(s)
  PROVE  rows[<<s, work[s].pos>>] = NoRow
<1>1. <<s, work[s].pos>> \in ClaimId /\ work[s].pos \in Nat
  BY HereIsAttestation, Bounds DEF At, TypeInv, CorpusTypeOK, Work
<1>2. <<s, work[s].pos>> \notin Owned(s)
  BY <1>1 DEF SoundInv, Underway, At
<1> QED  BY <1>1, <1>2 DEF Owned, Owner

LEMMA SoundCreate ==
  ASSUME OneWriter, TypeInv, SoundInv, NEW s \in Source, Create(s)
  PROVE  SoundInv'
<1> DEFINE d == <<s, work[s].pos>>
<1>1. /\ s \in AtWork /\ At(s, "judge") /\ Candidates(s) /\ work[s] \in Work
      /\ d \in ClaimId /\ rows[d] = NoRow
  BY HereIsAttestation, RowIsFree DEF Create, At, AtWork, TypeInv, CorpusTypeOK
<1>2. /\ work' = [work EXCEPT ![s] = Chosen(s, "insert", d, {})]
      /\ live' = [live EXCEPT ![d] = {Here(s)}]
      /\ UNCHANGED <<rows, merged, run, killed, cut>>
  BY DEF Create
<1>3. OneBusy' /\ \A t \in Source \ {s} : Underway(t)'
  BY <1>1, <1>2, OthersRest, IdleUnderway DEF SoundInv
<1>4. ASSUME NEW c \in ClaimId  PROVE Sound(c)'
  BY <1>1, <1>2, <1>4 DEF SoundInv, Sound, Shown, Live, TypeInv, CorpusTypeOK
<1>5. /\ work'[s] = Chosen(s, "insert", d, {}) /\ live'[d] = {Here(s)}
  BY <1>1, <1>2 DEF TypeInv, CorpusTypeOK
<1>6. /\ work'[s].step = "insert" /\ work'[s].claim = d /\ work'[s].pos = work[s].pos
  BY <1>5 DEF Chosen
<1>7. Here(s)' = Here(s)
  BY <1>2, <1>6 DEF Here
<1>8. Underway(s)'
  BY <1>1, <1>2, <1>5, <1>6, <1>7 DEF SoundInv, Underway, At, Owned
<1> QED  BY <1>3, <1>4, <1>8 DEF SoundInv

LEMMA SoundInsert ==
  ASSUME OneWriter, TypeInv, SoundInv, NEW s \in Source, Insert(s)
  PROVE  SoundInv'
<1>0. PICK d \in ClaimId : d = work[s].claim
  BY DEF Insert, At, TypeInv, Control
<1>1. /\ s \in AtWork /\ At(s, "insert") /\ work[s] \in Work /\ d \in ClaimId
      /\ d = <<s, work[s].pos>> /\ live[d] = {Here(s)}
  BY <1>0 DEF Insert, At, AtWork, TypeInv, CorpusTypeOK, Control, SoundInv, Underway
<1>2. /\ work' = [work EXCEPT ![s] = [work[s] EXCEPT !.step = "index"]]
      /\ rows' = [rows EXCEPT ![d] = [count |-> 1, into |-> Nobody]]
      /\ UNCHANGED <<live, merged, run, killed, cut>>
  BY <1>0 DEF Insert
<1>3. OneBusy' /\ \A t \in Source \ {s} : Underway(t)'
  BY <1>1, <1>2, OthersRest, IdleUnderway DEF SoundInv
<1>4. /\ rows'[d] = [count |-> 1, into |-> Nobody]
      /\ \A c \in ClaimId \ {d} : rows'[c] = rows[c]
  BY <1>1, <1>2 DEF TypeInv, CorpusTypeOK
<1>5. rows'[d] # NoRow /\ rows'[d].count = 1 /\ rows'[d].into = Nobody
  <2>1. [count |-> 1, into |-> Nobody] \in Row
    BY DEF Row
  <2> QED  BY <1>4, <2>1, NullAssumption DEF NullAssumption
<1>6. Sound(d)'
  <2>2. {Here(s)} # NoNote
    BY <1>1, NullAssumption, HereIsAttestation
       DEF NullAssumption, Note, At, TypeInv, Control
  <2>1. Shown(d)' = {Here(s)} /\ live'[d] # NoNote /\ Live(d)'
    BY <1>0, <1>1, <1>2, <1>5, <2>2 DEF Shown, Live
  <2>3. Here(s).src = s /\ Owner(d) = s
    BY <1>1 DEF Here, Owner
  <2>4. Cardinality({Here(s)}) = 1
    BY FS_Singleton
  <2> QED  BY <1>5, <2>1, <2>2, <2>3, <2>4 DEF Sound
<1>7. \A c \in ClaimId \ {d} : Sound(c)'
  BY <1>2, <1>4 DEF SoundInv, Sound, Shown, Live
<1>8. /\ work'[s].step = "index" /\ work'[s].claim = d /\ work'[s].pos = work[s].pos
  BY <1>0, <1>1, <1>2 DEF TypeInv, CorpusTypeOK, Work
<1>9. Underway(s)'
  BY <1>1, <1>4, <1>5, <1>8 DEF SoundInv, Underway, At, Owned
<1> QED  BY <1>3, <1>6, <1>7, <1>9 DEF SoundInv

LEMMA SoundIndex ==
  ASSUME OneWriter, TypeInv, SoundInv, NEW s \in Source, Index(s)
  PROVE  SoundInv'
<1>1. /\ s \in AtWork /\ At(s, "index") /\ work[s].pos \in Nat
      /\ work[s].claim = <<s, work[s].pos>>
  BY Bounds DEF Index, At, AtWork, TypeInv, CorpusTypeOK, Work, SoundInv, Underway
<1>2. /\ work' = [work EXCEPT ![s] = NextCandidate(s)] /\ work'[s] = NextCandidate(s)
      /\ UNCHANGED <<rows, live, merged, run, killed, cut>>
  BY DEF Index, TypeInv, CorpusTypeOK
<1>3. OneBusy' /\ \A t \in Source \ {s} : Underway(t)'
  BY <1>1, <1>2, OthersRest, IdleUnderway DEF SoundInv
<1>4. \A c \in ClaimId : Sound(c)'
  BY <1>2, SameNotes DEF SoundInv
<1>5. \A c \in Owned(s) : c[2] \in Nat /\ (c[2] < work[s].pos \/ c[2] = work[s].pos)
  BY <1>1 DEF SoundInv, Underway, At, Owned, ClaimId, Candidate
<1>6. Underway(s)'
  BY <1>1, <1>2, <1>5 DEF Underway, At, NextCandidate, Judging, Owned
<1> QED  BY <1>3, <1>4, <1>6 DEF SoundInv

LEMMA SoundStops ==
  ASSUME OneWriter, TypeInv, SoundInv, NEW s \in Source, End(s) \/ Crash(s)
  PROVE  SoundInv'
<1>1. /\ s \in AtWork /\ work' = [work EXCEPT ![s] = Idle]
      /\ UNCHANGED <<rows, live, merged, run, cut>> /\ killed \subseteq killed'
  BY DEF End, Crash, corpus, At, AtWork
<1>2. OneBusy' /\ \A t \in Source : Underway(t)'
  BY <1>1, OthersRest, IdleUnderway DEF SoundInv, TypeInv, CorpusTypeOK, At, Idle
<1> QED  BY <1>1, <1>2, SameNotes DEF SoundInv

(* Nothing is under way before and after a command of groom or retract.    *)
LEMMA NobodyAtWork ==
  ASSUME AtWork = {}, work' = work
  PROVE  OneBusy' /\ (\A s \in Source : Underway(s)')
<1>1. \A s \in Source : At(s, "idle")'
  BY DEF AtWork, At
<1> QED  BY <1>1, IdleUnderway DEF OneBusy, AtWork, At

(* What a merge does to the two claims, in terms of two constants. *)
LEMMA MergeEffect ==
  ASSUME TypeInv, Merge
  PROVE  \E v, a \in ClaimId :
           /\ v # a /\ live[v] # NoNote /\ live[a] # NoNote
           /\ live' = [live EXCEPT ![v] = live[v] \cup New(v, a), ![a] = NoNote]
           /\ merged' = [merged EXCEPT ![a] = live[a]]
           /\ \A c \in ClaimId : rows[c] = NoRow => rows'[c] = NoRow
           /\ \A c \in ClaimId \ {v, a} : rows'[c] = rows[c]
           /\ rows[a] # NoRow =>
                rows'[a] # NoRow /\ rows'[a].count = rows[a].count /\ rows'[a].into = v
           /\ rows[v] # NoRow =>
                /\ rows'[v] # NoRow /\ rows'[v].into = rows[v].into
                /\ rows'[v].count = rows[v].count + Cardinality(New(v, a))
<1>1. plan # <<>> /\ MergeWrites(5) /\ 5 \in 0..5
  BY DEF Merge
<1> QED  BY <1>1, MergeWritesEffect

(* Merge, as far as it comes.                                              *)
LEMMA SoundMerge ==
  ASSUME OneWriter, TypeInv, SoundInv, Merge \/ MergeKilled
  PROVE  SoundInv'
<1>1. PICK n \in 0..5 : MergeWrites(n) /\ (n = 5 \/ "groom" \in killed')
  BY DEF Merge, MergeKilled
<1>2. /\ plan # <<>> /\ AtWork = {} /\ work' = work /\ cut' = cut
      /\ killed \subseteq killed'
  BY DEF Merge, MergeKilled
<1>3. PICK v, a \in ClaimId :
        /\ v # a /\ live[v] # NoNote /\ live[a] # NoNote
        /\ live' = [live EXCEPT ![v] = IF n >= 1 THEN live[v] \cup New(v, a) ELSE live[v],
                                ![a] = IF n >= 3 THEN NoNote ELSE live[a]]
        /\ merged' = [merged EXCEPT ![a] = IF n >= 2 THEN live[a] ELSE merged[a]]
        /\ \A c \in ClaimId : rows[c] = NoRow => rows'[c] = NoRow
        /\ \A c \in ClaimId \ {v, a} : rows'[c] = rows[c]
        /\ rows[a] # NoRow =>
             /\ rows'[a] # NoRow /\ rows'[a].count = rows[a].count
             /\ rows'[a].into = IF n = 5 THEN v ELSE rows[a].into
        /\ rows[v] # NoRow =>
             /\ rows'[v] # NoRow /\ rows'[v].into = rows[v].into
             /\ rows'[v].count = IF n >= 4 THEN rows[v].count + Cardinality(New(v, a))
                                 ELSE rows[v].count
  BY <1>1, <1>2, MergeWritesEffect
<1>4. /\ live'[v] = IF n >= 1 THEN live[v] \cup New(v, a) ELSE live[v]
      /\ live'[a] = IF n >= 3 THEN NoNote ELSE live[a]
      /\ merged'[a] = IF n >= 2 THEN live[a] ELSE merged[a]
      /\ \A c \in ClaimId \ {v, a} : live'[c] = live[c] /\ merged'[c] = merged[c]
      /\ merged'[v] = merged[v]
  BY <1>3 DEF TypeInv, CorpusTypeOK
<1>5. OneBusy' /\ \A s \in Source : Underway(s)'
  BY <1>2, NobodyAtWork
<1>6. ASSUME rows[v] # NoRow  PROVE Sound(v)'
  <2>1. /\ Cardinality(live[v]) \in Nat /\ Cardinality(New(v, a)) \in Nat
        /\ Cardinality(live[v] \cup New(v, a)) = Cardinality(live[v]) + Cardinality(New(v, a))
        /\ live[v] \cup New(v, a) # NoNote
    BY <1>3, NewIsFinite, NullAssumption, FS_CardinalityType
       DEF NullAssumption, TypeInv, FiniteNotes
  <2>2. live'[v] # NoNote /\ Shown(v) = live[v] /\ Shown(v)' = live'[v]
    BY <1>3, <1>4, <2>1 DEF Shown
  <2>3. live[v] \subseteq live'[v] /\ (Live(v)' <=> Live(v))
    BY <1>3, <1>4, <1>6 DEF Live
  <2>4. rows[v].count \in Nat /\ Sound(v)
    BY <1>6 DEF TypeInv, CorpusTypeOK, Row, SoundInv
  <2>5. "retract" \notin killed => rows'[v].count <= Cardinality(live'[v])
    <3>1. "retract" \notin killed => rows[v].count <= Cardinality(live[v])
      BY <1>6, <2>2, <2>4 DEF Sound
    <3>2. CASE n >= 4
      <4>1. /\ live'[v] = live[v] \cup New(v, a)
            /\ rows'[v].count = rows[v].count + Cardinality(New(v, a))
        BY <1>3, <1>4, <1>6, <3>2
      <4> QED  BY <2>1, <2>4, <3>1, <4>1
    <3>3. CASE ~ (n >= 4)
      <4>1. rows'[v].count = rows[v].count
        BY <1>3, <1>6, <3>3
      <4>2. Cardinality(live'[v]) \in Nat /\ Cardinality(live'[v]) >= Cardinality(live[v])
        <5>1. CASE live'[v] = live[v]
          BY <2>1, <5>1
        <5>2. CASE live'[v] = live[v] \cup New(v, a)
          BY <2>1, <5>2
        <5> QED  BY <1>4, <5>1, <5>2
      <4> QED  BY <2>1, <2>4, <3>1, <4>1, <4>2
    <3> QED  BY <3>2, <3>3
  <2>6. "retract" \notin killed => Live(v)
    BY <1>3, <1>6, <2>4 DEF Sound
  <2> QED  BY <1>2, <1>4, <1>6, <2>2, <2>3, <2>4, <2>5, <2>6 DEF Sound
<1>7. ASSUME rows[a] # NoRow  PROVE Sound(a)'
  <2>1. Shown(a) = live[a] /\ Shown(a)' = live[a] /\ merged'[a] \in {merged[a], live[a]}
    BY <1>3, <1>4 DEF Shown
  <2>2. IF n = 5 THEN ~ Live(a)' /\ live'[a] = NoNote ELSE Live(a)' <=> Live(a)
    BY <1>3, <1>4, <1>7, NullAssumption DEF Live, NullAssumption
  <2>3. Sound(a) /\ rows'[a].count = rows[a].count
    BY <1>3, <1>7 DEF SoundInv
  <2>4. "retract" \notin killed => Live(a)
    BY <1>3, <1>7, <2>3 DEF Sound
  <2>5. Owner(a) \notin cut =>
          (~ Live(a)' /\ merged'[a] # NoNote => \E x \in merged'[a] : x.src = Owner(a))
    <3>1. Owner(a) \notin cut => \E x \in live[a] : x.src = Owner(a)
      BY <1>7, <2>1, <2>3 DEF Sound
    <3>2. n # 5 => (~ Live(a)' => ~ Live(a))
      BY <2>2
    <3>3. n = 5 => merged'[a] = live[a]
      BY <1>4
    <3> QED  BY <1>7, <2>1, <2>3, <3>1, <3>2, <3>3 DEF Sound
  <2>6. "groom" \notin killed' => ~ Live(a)'
    BY <1>1, <2>2
  <2> QED  BY <1>2, <1>7, <2>1, <2>2, <2>3, <2>4, <2>5, <2>6 DEF Sound
<1>8. ASSUME NEW c \in ClaimId \ {v, a}  PROVE Sound(c)'
  <2>1. rows'[c] = rows[c] /\ live'[c] = live[c] /\ merged'[c] = merged[c]
    BY <1>3, <1>4
  <2> QED  BY <1>2, <2>1 DEF SoundInv, Sound, Shown, Live
<1>9. \A c \in ClaimId : rows[c] = NoRow => Sound(c)'
  BY <1>3 DEF Sound
<1> QED  BY <1>5, <1>6, <1>7, <1>8, <1>9 DEF SoundInv

(* What the whole of a retract makes of the corpus.                        *)
Retracted(s) ==
  /\ live' = [c \in ClaimId |-> IF c \in Owned(s) THEN NoNote
                                ELSE IF c \in Detached(s) THEN Kept(s, c) ELSE Restored(s, c)]
  /\ merged' = [c \in ClaimId |-> IF c \in Owned(s) \cup Unmerged(s) THEN NoNote ELSE merged[c]]
  /\ rows' = [c \in ClaimId |->
                IF c \in Owned(s) \/ rows[c] = NoRow THEN NoRow
                ELSE [count |-> IF c \in Detached(s)
                                THEN Less(rows[c].count, Cardinality(Restored(s, c) \ Kept(s, c)))
                                ELSE rows[c].count,
                      into |-> IF c \in Unmerged(s) THEN Nobody ELSE rows[c].into]]
  /\ vecs' = vecs \ Owned(s)

LEMMA RetractForm ==
  ASSUME TypeInv, NEW s \in Source, Retract(s)
  PROVE  Retracted(s)
<1>1. RetractWrites(s, Writes(s))
  BY DEF Retract
<1>2. ASSUME NEW c \in ClaimId
      PROVE  /\ \A x \in Restoring : <<x, c>> \in Writes(s) <=> c \in Unmerged(s)
             /\ \A x \in Cleaning : <<x, c>> \in Writes(s) <=> c \in Detached(s)
             /\ \A x \in Removing : <<x, c>> \in Writes(s) <=> c \in Owned(s)
  BY DEF Writes, Restoring, Cleaning, Removing
<1>3. \A c \in ClaimId : c \notin Unmerged(s) => Restored(s, c) = live[c]
  BY DEF Restored
<1>4. /\ {"restore", "move", "unmerge"} \subseteq Restoring
      /\ {"strip", "lower"} \subseteq Cleaning
      /\ {"unlink", "unput", "delete", "unindex"} \subseteq Removing
  BY DEF Restoring, Cleaning, Removing
<1>5. vecs' = vecs \ Owned(s)
  BY <1>1, <1>2, <1>4 DEF RetractWrites, TypeInv, CorpusTypeOK
<1>6. live' = [c \in ClaimId |-> IF c \in Owned(s) THEN NoNote
                                ELSE IF c \in Detached(s) THEN Kept(s, c) ELSE Restored(s, c)]
  BY <1>1, <1>2, <1>3, <1>4 DEF RetractWrites
<1>7. merged' = [c \in ClaimId |-> IF c \in Owned(s) \cup Unmerged(s) THEN NoNote
                                  ELSE merged[c]]
  BY <1>1, <1>2, <1>4 DEF RetractWrites
<1>8. rows' = [c \in ClaimId |->
                IF c \in Owned(s) \/ rows[c] = NoRow THEN NoRow
                ELSE [count |-> IF c \in Detached(s)
                                THEN Less(rows[c].count, Cardinality(Restored(s, c) \ Kept(s, c)))
                                ELSE rows[c].count,
                      into |-> IF c \in Unmerged(s) THEN Nobody ELSE rows[c].into]]
  BY <1>1, <1>2, <1>4 DEF RetractWrites
<1> QED  BY <1>5, <1>6, <1>7, <1>8 DEF Retracted

(* Retract touches no row of another source but to lower and un-merge it.  *)
LEMMA RetractKeepsRow ==
  ASSUME TypeInv, NEW s \in Source, NEW c \in ClaimId, rows[c] # NoRow, c \notin Owned(s),
         NEW W \in SUBSET Writes(s), RetractWrites(s, W)
  PROVE  rows'[c] \in Row
BY RetractWritesEffect

(* A claim that outlasts the retraction of a source, and its note: it is   *)
(* the note it had, less the attestations of the source if it had any.     *)
LEMMA RetractShows ==
  ASSUME TypeInv, NEW s \in Source, Retract(s), NEW c \in ClaimId, rows'[c] # NoRow,
         ~ Live(c) => live[c] = NoNote,
         rows[c] # NoRow => Shown(c) # NoNote
  PROVE  /\ rows[c] # NoRow /\ c \notin Owned(s) /\ Owner(c) # s
         /\ IF c \in Detached(s)
            THEN /\ Restored(s, c) = Shown(c)
                 /\ Shown(c)' = Kept(s, c) /\ live'[c] # NoNote
                 /\ rows'[c].count = Less(rows[c].count,
                                          Cardinality(Restored(s, c) \ Kept(s, c)))
            ELSE Shown(c)' = Shown(c) /\ rows'[c].count = rows[c].count
         /\ ~ Live(c)' => ~ Live(c) /\ live'[c] = NoNote
         /\ Live(c)' => live'[c] # NoNote \/ (Live(c) /\ live[c] = NoNote)
<1>0. Retracted(s)
  BY RetractForm
<1>1. rows[c] # NoRow /\ c \notin Owned(s) /\ Owner(c) # s
  BY <1>0 DEF Retracted, Owned
<1>2. /\ rows'[c].count = IF c \in Detached(s)
                         THEN Less(rows[c].count, Cardinality(Restored(s, c) \ Kept(s, c)))
                         ELSE rows[c].count
      /\ rows'[c].into = IF c \in Unmerged(s) THEN Nobody ELSE rows[c].into
  BY <1>0, <1>1 DEF Retracted
<1>3. /\ live'[c] = IF c \in Detached(s) THEN Kept(s, c) ELSE Restored(s, c)
      /\ merged'[c] = IF c \in Unmerged(s) THEN NoNote ELSE merged[c]
  BY <1>0, <1>1 DEF Retracted
<1>4. c \in Detached(s) => Restored(s, c) # NoNote /\ Kept(s, c) # NoNote
  BY KeptIsFinite, NullAssumption DEF Detached, NullAssumption
<1>5. CASE c \in Unmerged(s)
  <2>1. ~ Live(c)
    <3>1. rows[c].into \in ClaimId
      BY <1>5 DEF Unmerged, Owned
    <3> QED  BY <3>1, NullAssumption DEF Live, NullAssumption
  <2>2. Shown(c) = merged[c] /\ merged[c] # NoNote /\ Restored(s, c) = merged[c]
    BY <1>1, <1>5, <2>1 DEF Shown, Restored
  <2>3. Live(c)' /\ live'[c] # NoNote /\ Shown(c)' = live'[c]
    BY <1>2, <1>3, <1>4, <1>5, <2>2 DEF Live, Shown
  <2> QED  BY <1>1, <1>2, <1>3, <2>2, <2>3
<1>6. CASE c \notin Unmerged(s)
  <2>1. Restored(s, c) = live[c] /\ (Live(c)' <=> Live(c)) /\ merged'[c] = merged[c]
    BY <1>1, <1>2, <1>3, <1>6 DEF Restored, Live
  <2>2. CASE c \in Detached(s)
    <3>1. Shown(c) = live[c] /\ live'[c] # NoNote /\ Shown(c)' = live'[c] /\ Live(c)
      BY <1>3, <1>4, <2>1, <2>2 DEF Shown
    <3> QED  BY <1>1, <1>2, <1>3, <2>1, <2>2, <3>1
  <2>3. CASE c \notin Detached(s)
    <3>1. live'[c] = live[c] /\ Shown(c)' = Shown(c)
      BY <1>3, <2>1, <2>3 DEF Shown
    <3> QED  BY <1>1, <1>2, <2>1, <2>3, <3>1
  <2> QED  BY <2>2, <2>3
<1> QED  BY <1>5, <1>6

(* Where dedup alone was killed, in terms of the place the row says.       *)
LEMMA RetractEffect ==
  ASSUME TypeInv, NEW s \in Source, Retract(s), NEW c \in ClaimId, Settled(c), rows'[c] # NoRow
  PROVE  /\ rows[c] # NoRow /\ c \notin Owned(s) /\ Owner(c) # s
         /\ Live(c)' => /\ Restored(s, c) = NoteOf(c)
                        /\ IF c \in Detached(s)
                           THEN /\ live'[c] = Kept(s, c)
                                /\ rows'[c].count = Less(rows[c].count,
                                      Cardinality(Restored(s, c) \ Kept(s, c)))
                           ELSE live'[c] = NoteOf(c) /\ rows'[c].count = rows[c].count
         /\ ~ Live(c)' => /\ ~ Live(c) /\ live'[c] = NoNote /\ c \notin Detached(s)
                          /\ merged'[c] = NoteOf(c) /\ rows'[c].count = rows[c].count
<1>0. Retracted(s)
  BY RetractForm
<1>1. rows[c] # NoRow /\ c \notin Owned(s) /\ Owner(c) # s
  BY <1>0 DEF Retracted, Owned
<1>2. rows[c] \in Row
  BY <1>1 DEF TypeInv, CorpusTypeOK
<1>3. /\ rows'[c].count = IF c \in Detached(s)
                         THEN Less(rows[c].count, Cardinality(Restored(s, c) \ Kept(s, c)))
                         ELSE rows[c].count
      /\ rows'[c].into = IF c \in Unmerged(s) THEN Nobody ELSE rows[c].into
  BY <1>0, <1>1 DEF Retracted
<1>4. /\ live'[c] = IF c \in Detached(s) THEN Kept(s, c) ELSE Restored(s, c)
      /\ merged'[c] = IF c \in Unmerged(s) THEN NoNote ELSE merged[c]
  BY <1>0, <1>1 DEF Retracted
<1>5. CASE c \in Unmerged(s)
  <2>1. ~ Live(c)
    <3>1. rows[c].into \in ClaimId
      BY <1>5 DEF Unmerged, Owned
    <3> QED  BY <3>1, NullAssumption DEF Live, NullAssumption
  <2>2. NoteOf(c) = merged[c] /\ merged[c] # NoNote /\ Restored(s, c) = merged[c]
    BY <1>1, <1>5, <2>1 DEF NoteOf, Settled, Restored
  <2>3. Live(c)'
    BY <1>3, <1>5 DEF Live
  <2> QED  BY <1>1, <1>3, <1>4, <2>2, <2>3
<1>6. CASE c \notin Unmerged(s)
  <2>1. Restored(s, c) = live[c] /\ (Live(c)' <=> Live(c))
    BY <1>1, <1>3, <1>6 DEF Restored, Live
  <2>2. CASE Live(c)
    BY <1>1, <1>3, <1>4, <2>1, <2>2 DEF NoteOf
  <2>3. CASE ~ Live(c)
    <3>1. live[c] = NoNote /\ c \notin Detached(s)
      BY <1>1, <2>1, <2>3 DEF Settled, Detached
    <3> QED  BY <1>1, <1>3, <1>4, <1>6, <2>1, <2>3, <3>1 DEF NoteOf
  <2> QED  BY <2>2, <2>3
<1> QED  BY <1>5, <1>6

(* What is kept of the note of a claim holds the attestation of its owner. *)
LEMMA KeptHasOrigin ==
  ASSUME TypeInv, NEW s \in Source, NEW c \in ClaimId, Owner(c) # s,
         Restored(s, c) # NoNote, \E a \in Restored(s, c) : a.src = Owner(c)
  PROVE  /\ \E a \in Kept(s, c) : a.src = Owner(c)
         /\ Cardinality(Kept(s, c)) \in Nat \ {0}
<1>1. \E a \in Kept(s, c) : a.src = Owner(c)
  BY DEF Kept
<1>2. Cardinality(Kept(s, c)) # 0
  BY <1>1, KeptIsFinite, FS_EmptySet
<1> QED  BY <1>1, <1>2, KeptIsFinite

(* However far a retract comes, the note of a claim of another source is   *)
(* in one of the two places and keeps the attestation of its owner.        *)
LEMMA RetractKeepsOrigin ==
  ASSUME TypeInv, NEW s \in Source, NEW W \in SUBSET Writes(s), RetractWrites(s, W),
         NEW c \in ClaimId, <<"move", c>> \in W => <<"restore", c>> \in W,
         rows[c] # NoRow, Owner(c) # s,
         Shown(c) # NoNote, \E a \in Shown(c) : a.src = Owner(c),
         ~ Live(c) /\ merged[c] # NoNote => \E a \in merged[c] : a.src = Owner(c)
  PROVE  /\ Shown(c)' # NoNote
         /\ \E a \in Shown(c)' : a.src = Owner(c)
         /\ ~ Live(c)' /\ merged'[c] # NoNote => \E a \in merged'[c] : a.src = Owner(c)
<1>1. c \notin Owned(s)
  BY DEF Owned
<1>2. /\ live'[c] = IF <<"strip", c>> \in W THEN Kept(s, c)
                   ELSE IF <<"restore", c>> \in W THEN Restored(s, c) ELSE live[c]
      /\ merged'[c] = IF <<"move", c>> \in W THEN NoNote ELSE merged[c]
      /\ rows'[c] \in Row
      /\ rows'[c].into = IF <<"unmerge", c>> \in W THEN Nobody ELSE rows[c].into
  BY <1>1, RetractWritesEffect
<1>3. /\ <<"restore", c>> \in W => c \in Unmerged(s)
      /\ <<"strip", c>> \in W => Restored(s, c) # NoNote
  BY DEF Writes, Restoring, Cleaning, Removing, Detached
<1>4. c \in Unmerged(s) => ~ Live(c)
  <2>1. c \in Unmerged(s) => rows[c].into \in ClaimId
    BY DEF Unmerged, Owned
  <2> QED  BY <2>1, NullAssumption DEF Live, NullAssumption
<1>5. c \in Unmerged(s) \/ Restored(s, c) # NoNote =>
        Restored(s, c) # NoNote /\ \E a \in Restored(s, c) : a.src = Owner(c)
  <2>1. CASE c \in Unmerged(s) /\ merged[c] # NoNote
    BY <1>4, <2>1 DEF Restored
  <2>2. CASE ~ (c \in Unmerged(s) /\ merged[c] # NoNote)
    BY <2>2 DEF Restored, Shown
  <2> QED  BY <2>1, <2>2
<1>6. ~ Live(c)' /\ merged'[c] # NoNote => \E a \in merged'[c] : a.src = Owner(c)
  <2>1. rows'[c] # NoRow
    BY <1>2, NullAssumption DEF NullAssumption
  <2>2. ~ Live(c)' => ~ Live(c)
    BY <1>2, <2>1 DEF Live
  <2> QED  BY <1>2, <2>2
<1>7. CASE <<"strip", c>> \in W
  <2>1. \E a \in Kept(s, c) : a.src = Owner(c)
    BY <1>3, <1>5, <1>7, KeptHasOrigin
  <2>2. Kept(s, c) # NoNote
    BY <1>3, <1>7, KeptIsFinite, NullAssumption DEF NullAssumption
  <2>3. Shown(c)' = Kept(s, c)
    BY <1>2, <1>7, <2>2 DEF Shown
  <2> QED  BY <1>6, <2>1, <2>2, <2>3
<1>8. CASE <<"strip", c>> \notin W /\ <<"restore", c>> \in W
  <2>1. Shown(c)' = Restored(s, c)
    BY <1>2, <1>3, <1>5, <1>8 DEF Shown
  <2> QED  BY <1>3, <1>5, <1>6, <1>8, <2>1
<1>9. CASE <<"strip", c>> \notin W /\ <<"restore", c>> \notin W
  <2>1. Shown(c)' = Shown(c)
    BY <1>2, <1>9 DEF Shown
  <2> QED  BY <1>6, <2>1
<1> QED  BY <1>7, <1>8, <1>9

(* A retract that ends leaves no count ahead of its note.                  *)
LEMMA RetractCounts ==
  ASSUME TypeInv, SoundInv, NEW s \in Source, Retract(s), "retract" \notin killed,
         NEW c \in ClaimId, rows'[c] # NoRow
  PROVE  /\ ~ Live(c)' => live'[c] = NoNote
         /\ rows'[c].count <= Cardinality(Shown(c)')
         /\ killed \subseteq {"dedup"} /\ Live(c)' => live'[c] # NoNote
<1>1. rows[c] # NoRow
  BY RetractForm DEF Retracted
<1>2. /\ Shown(c) # NoNote /\ \E a \in Shown(c) : a.src = Owner(c)
      /\ ~ Live(c) => live[c] = NoNote
      /\ rows[c].count \in Nat /\ rows[c].count <= Cardinality(Shown(c))
      /\ killed \subseteq {"dedup"} /\ Live(c) => live[c] # NoNote
  BY <1>1 DEF TypeInv, CorpusTypeOK, Row, Control, SoundInv, Sound
<1>3. CASE c \notin Detached(s)
  <2>1. /\ Shown(c)' = Shown(c) /\ rows'[c].count = rows[c].count
        /\ ~ Live(c)' => live'[c] = NoNote
        /\ Live(c)' => live'[c] # NoNote \/ (Live(c) /\ live[c] = NoNote)
    BY <1>2, <1>3, RetractShows
  <2> QED  BY <1>2, <2>1
<1>4. CASE c \in Detached(s)
  <2>1. /\ Restored(s, c) = Shown(c) /\ Shown(c)' = Kept(s, c)
        /\ rows'[c].count = Less(rows[c].count, Cardinality(Restored(s, c) \ Kept(s, c)))
        /\ ~ Live(c)' => live'[c] = NoNote
        /\ live'[c] # NoNote /\ Owner(c) # s
    BY <1>2, <1>4, RetractShows
  <2>2. /\ Cardinality(Kept(s, c)) \in Nat \ {0}
        /\ Cardinality(Restored(s, c) \ Kept(s, c)) \in Nat
        /\ Cardinality(Restored(s, c)) =
             Cardinality(Kept(s, c)) + Cardinality(Restored(s, c) \ Kept(s, c))
    BY <1>2, <2>1, KeptHasOrigin, KeptIsFinite
  <2>3. rows'[c].count <= Cardinality(Kept(s, c))
    BY <1>2, <2>1, <2>2 DEF Less
  <2> QED  BY <2>1, <2>3
<1> QED  BY <1>3, <1>4

LEMMA SoundRetract ==
  ASSUME OneWriter, TypeInv, SoundInv, NEW s \in Source, Retract(s) \/ RetractKilled(s)
  PROVE  SoundInv'
<1>1. OneBusy' /\ \A t \in Source : Underway(t)'
  BY NobodyAtWork DEF Retract, RetractKilled
<1>2. PICK W \in SUBSET Writes(s) :
        /\ RetractWrites(s, W)
        /\ \A c \in ClaimId : <<"move", c>> \in W => <<"restore", c>> \in W
  <2>1. ASSUME NEW c \in ClaimId, <<"move", c>> \in Writes(s)
        PROVE  <<"restore", c>> \in Writes(s)
    BY <2>1 DEF Writes, Restoring, Cleaning, Removing
  <2> QED  BY <2>1, RetractKilledWrites DEF Retract
<1>3. /\ Retract(s) => killed' = killed
      /\ RetractKilled(s) => "retract" \in killed'
      /\ \A t \in Source \ {s} : t \in cut' <=> t \in cut
  BY DEF Retract, RetractKilled
<1>4. ASSUME NEW c \in ClaimId, rows'[c] # NoRow  PROVE Sound(c)'
  <2>1. rows[c] # NoRow
    BY <1>2, <1>4 DEF RetractWrites
  <2>2. Sound(c) /\ Owner(c) \in Source
    BY DEF SoundInv, ClaimId, Owner
  <2>3. Owner(c) = s => Owner(c) \in cut'
    <3>1. Retract(s) => Owner(c) # s
      BY <1>4, <2>1, RetractForm DEF Retracted, Owned
    <3> QED  BY <3>1 DEF RetractKilled
  <2>4. ASSUME Owner(c) \notin cut'
        PROVE  /\ Shown(c)' # NoNote
               /\ \E a \in Shown(c)' : a.src = Owner(c)
               /\ ~ Live(c)' /\ merged'[c] # NoNote => \E a \in merged'[c] : a.src = Owner(c)
    <3>1. Owner(c) # s /\ Owner(c) \notin cut
      BY <1>3, <2>2, <2>3, <2>4
    <3> QED  BY <1>2, <2>1, <2>2, <3>1, RetractKeepsOrigin DEF Sound
  <2>5. CASE Retract(s)
    BY <1>3, <1>4, <2>4, <2>5, RetractCounts DEF Sound
  <2>6. CASE RetractKilled(s)
    BY <1>3, <2>4, <2>6 DEF Sound
  <2> QED  BY <2>5, <2>6
<1>5. \A c \in ClaimId : Sound(c)'
  BY <1>4 DEF Sound
<1> QED  BY <1>1, <1>5 DEF SoundInv

LEMMA SoundStep ==
  ASSUME OneWriter, TypeInv, SoundInv, PastInv, [Next]_vars
  PROVE  SoundInv'
<1>1. ASSUME MakePlan \/ Skip  PROVE SoundInv'
  BY <1>1, NobodyAtWork, SameNotes DEF MakePlan, Skip, corpus, SoundInv
<1>2. ASSUME NEW s \in Source, Dedup(s)  PROVE SoundInv'
  BY <1>2, SoundBegin, SoundMatch, SoundAttest, SoundBump, SoundCreate, SoundInsert, SoundIndex,
     SoundStops DEF Dedup
<1>3. CASE UNCHANGED vars
  <2>1. \A c \in ClaimId : Sound(c)'
    BY <1>3, SameNotes DEF vars, SoundInv
  <2> QED  BY <1>3, <2>1 DEF vars, SoundInv, OneBusy, AtWork, Underway, At, Owned, Here
<1> QED  BY <1>1, <1>2, <1>3, SoundMerge, SoundRetract DEF Next, Groom

LEMMA SoundInit ==
  ASSUME Init
  PROVE  SoundInv /\ PastInv
<1>1. \A s \in Source : work[s].step = "idle"
  BY DEF Init, Idle
<1> QED  BY <1>1 DEF Init, SoundInv, OneBusy, AtWork, Sound, Underway, At, PastInv

LEMMA SoundAlways ==
  ASSUME OneWriter
  PROVE  Spec => [](TypeInv /\ SoundInv /\ PastInv)
<1>1. TypeInv /\ SoundInv /\ PastInv /\ [Next]_vars => TypeInv' /\ SoundInv' /\ PastInv'
  BY TypeStep, SoundStep, PastStep
<1> QED  BY TypeInit, SoundInit, <1>1, PTL DEF Spec

(* One dedup at a time, killed anywhere or not: the note of every row is   *)
(* where its row says. And whatever is killed, dedup, groom or retract     *)
(* between any two of their writes, only the rows of a source whose own    *)
(* retraction was cut short can be without one.                            *)
THEOREM NotesAreThere ==
  ASSUME OneWriter
  PROVE  Spec => []RowsHaveNotes
<1>1. TypeInv /\ SoundInv => RowsHaveNotes
  BY SettledRow DEF SoundInv, Sound, Settled, RowsHaveNotes
<1> QED  BY SoundAlways, <1>1, PTL

(* One dedup at a time: no row counts more corroboration than its note     *)
(* shows, wherever dedup and groom are killed; a retract that is killed    *)
(* between a note and its count is the one exception.                      *)
THEOREM CountsAreCovered ==
  ASSUME OneWriter
  PROVE  Spec => []CountNeverAhead
<1>1. SoundInv => CountNeverAhead
  BY DEF SoundInv, Sound, CountNeverAhead
<1> QED  BY SoundAlways, <1>1, PTL

(* One dedup at a time: no grooming and no retraction, killed or not,      *)
(* takes the source that owns a claim out of its note, but the retraction  *)
(* of that source.                                                         *)
THEOREM OriginsStay ==
  ASSUME OneWriter
  PROVE  Spec => []ClaimsKeepTheirOrigin
<1>1. SoundInv => ClaimsKeepTheirOrigin
  BY DEF SoundInv, Sound, ClaimsKeepTheirOrigin
<1> QED  BY SoundAlways, <1>1, PTL
-----------------------------------------------------------------------------
(* Agreement: while nothing was killed, the stores agree.                  *)

(* Where rows, vectors and notes differ while a pass is between two of its *)
(* statements.                                                             *)
Fresh(c) == \E s \in Source : At(s, "insert") /\ work[s].claim = c
Unindexed(c) == \E s \in Source : At(s, "index") /\ work[s].claim = c
Uncounted(c) == \E s \in Source : At(s, "bump") /\ work[s].claim = c

Exact(c) ==
  /\ live[c] # NoNote <=> Live(c) \/ Fresh(c)
  /\ merged[c] # NoNote <=> rows[c] # NoRow /\ ~ Live(c)
  /\ c \in vecs <=> rows[c] # NoRow /\ ~ Unindexed(c)
  /\ rows[c] # NoRow =>
       Cardinality(NoteOf(c)) = rows[c].count + (IF Uncounted(c) THEN 1 ELSE 0)

ExactInv == killed = {} => \A c \in ClaimId : Exact(c)

(* Who was killed stays known: nothing was killed before either.           *)
LEMMA NothingKilled ==
  ASSUME [Next]_vars
  PROVE  /\ killed \subseteq killed'
         /\ "groom" \notin killed' => ~ MergeKilled
         /\ "dedup" \notin killed' => \A s \in Source : ~ Crash(s)
         /\ "retract" \notin killed' => \A s \in Source : ~ RetractKilled(s)
<1>1. Groom \/ UNCHANGED vars => killed \subseteq killed'
  BY DEF Groom, MakePlan, Merge, Skip, MergeKilled, vars
<1>2. ASSUME NEW s \in Source, Dedup(s)  PROVE killed \subseteq killed'
  BY <1>2 DEF Dedup, Begin, Match, Attest, Bump, Create, Insert, Index, End, Crash
<1>3. ASSUME NEW s \in Source, Retract(s) \/ RetractKilled(s)  PROVE killed \subseteq killed'
  BY <1>3 DEF Retract, RetractKilled
<1>4. killed \subseteq killed'
  BY <1>1, <1>2, <1>3 DEF Next
<1> QED  BY <1>4 DEF MergeKilled, Crash, RetractKilled

(* What pass s is at with claim c is all that is under way with c.         *)
LEMMA OneUnderway ==
  ASSUME OneBusy, NEW s \in AtWork, NEW c \in ClaimId
  PROVE  /\ Fresh(c) <=> At(s, "insert") /\ work[s].claim = c
         /\ Unindexed(c) <=> At(s, "index") /\ work[s].claim = c
         /\ Uncounted(c) <=> At(s, "bump") /\ work[s].claim = c
BY DEF OneBusy, AtWork, Fresh, Unindexed, Uncounted, At

LEMMA NothingUnderway ==
  ASSUME AtWork = {}, NEW c \in ClaimId
  PROVE  ~ Fresh(c) /\ ~ Unindexed(c) /\ ~ Uncounted(c)
BY DEF AtWork, Fresh, Unindexed, Uncounted, At

(* A statement of one pass that changes nothing of a claim. *)
LEMMA ExactStays ==
  ASSUME NEW c \in ClaimId, Exact(c),
         rows'[c] = rows[c], live'[c] = live[c], merged'[c] = merged[c],
         c \in vecs' <=> c \in vecs,
         Fresh(c)' <=> Fresh(c), Unindexed(c)' <=> Unindexed(c), Uncounted(c)' <=> Uncounted(c)
  PROVE  Exact(c)'
BY DEF Exact, NoteOf, Live

LEMMA ExactBegin ==
  ASSUME TypeInv, SoundInv, SoundInv', NEW s \in Source, Begin(s), NEW c \in ClaimId, Exact(c)
  PROVE  Exact(c)'
<1>1. PICK n \in Sizes[s] : work' = [work EXCEPT ![s] = Judging(n, 1)]
  BY DEF Begin
<1>2. \A t \in Source : work'[t] = work[t] \/ (At(t, "idle") /\ work'[t].step = "judge")
  BY <1>1 DEF Begin, Judging, TypeInv, CorpusTypeOK
<1>3. Fresh(c)' = Fresh(c) /\ Unindexed(c)' = Unindexed(c) /\ Uncounted(c)' = Uncounted(c)
  BY <1>2 DEF Fresh, Unindexed, Uncounted, At
<1> QED  BY <1>3, ExactStays DEF Begin, corpus

LEMMA ExactMatch ==
  ASSUME TypeInv, NEW s \in Source, (\E m \in ClaimId : Match(s, m)) \/ End(s),
         NEW c \in ClaimId, Exact(c)
  PROVE  Exact(c)'
<1>1. \A t \in Source :
        \/ work'[t] = work[t]
        \/ At(t, "judge") /\ work'[t].step \in {"write", "idle"}
  BY DEF Match, End, Chosen, Idle, TypeInv, CorpusTypeOK
<1>2. Fresh(c)' = Fresh(c) /\ Unindexed(c)' = Unindexed(c) /\ Uncounted(c)' = Uncounted(c)
  BY <1>1 DEF Fresh, Unindexed, Uncounted, At
<1> QED  BY <1>2, ExactStays DEF Match, End, corpus

LEMMA ExactAttest ==
  ASSUME TypeInv, TypeInv', SoundInv, SoundInv', PastInv, killed = {}, NEW s \in Source, Attest(s),
         NEW c \in ClaimId, Exact(c)
  PROVE  Exact(c)'
<1>1. s \in AtWork /\ At(s, "write")
  BY DEF Attest, At, AtWork
<1>2. ~ Fresh(c) /\ ~ Unindexed(c) /\ ~ Uncounted(c)
  BY <1>1, OneUnderway DEF SoundInv, At
<1>3. \A t \in Source \ {s} : work'[t] = work[t]
  BY DEF Attest, TypeInv, CorpusTypeOK
<1>4. ~ Fresh(c)' /\ ~ Unindexed(c)'
  <2>1. work'[s].step \in {"judge", "bump"}
    BY DEF Attest, NextCandidate, Judging, TypeInv, CorpusTypeOK, Work
  <2> QED  BY <1>2, <1>3, <2>1 DEF Fresh, Unindexed, At
<1>5. PICK d \in ClaimId : d = work[s].claim
  BY <1>1 DEF At, TypeInv, Control
<1>6. CASE Emphasis(s)
  <2>1. /\ live' = [live EXCEPT ![d] = work[s].note]
        /\ work' = [work EXCEPT ![s] = NextCandidate(s)]
        /\ work[s].note = live[d]
    BY <1>5, <1>6, AttestAdds DEF Attest
  <2>2. live' = live /\ work'[s].step = "judge"
    BY <2>1 DEF TypeInv, CorpusTypeOK, NextCandidate, Judging
  <2>3. ~ Uncounted(c)'
    BY <1>2, <1>3, <2>2 DEF Uncounted, At
  <2> QED  BY <1>2, <1>4, <2>2, <2>3, ExactStays DEF Attest
<1>7. CASE ~ Emphasis(s)
  <2>1. /\ live' = [live EXCEPT ![d] = work[s].note \cup {Here(s)}]
        /\ work' = [work EXCEPT ![s] = [work[s] EXCEPT !.step = "bump"]]
        /\ work[s].note = live[d] /\ live[d] # NoNote
        /\ rows[d] # NoRow => Live(d)
        /\ live[d] \cup {Here(s)} # NoNote
        /\ Cardinality(live[d] \cup {Here(s)}) = Cardinality(live[d]) + 1
        /\ Cardinality(live[d]) \in Nat
        /\ UNCHANGED <<rows, vecs, merged>>
    BY <1>5, <1>7, AttestAdds DEF Attest
  <2>2. /\ live'[d] = live[d] \cup {Here(s)} /\ \A e \in ClaimId \ {d} : live'[e] = live[e]
        /\ work'[s].step = "bump" /\ work'[s].claim = d
    BY <1>5, <2>1 DEF TypeInv, CorpusTypeOK, Work
  <2>3. Uncounted(c)' <=> c = d
    BY <1>2, <1>3, <2>2 DEF Uncounted, At
  <2>4. CASE c # d
    BY <1>2, <1>4, <2>1, <2>2, <2>3, <2>4, ExactStays
  <2>5. CASE c = d
    <3>1. Live(c) /\ Live(c)'
      BY <1>2, <2>1, <2>5 DEF Exact, Live
    <3>2. NoteOf(c) = live[d] /\ NoteOf(c)' = live[d] \cup {Here(s)}
      BY <2>2, <2>5, <3>1 DEF NoteOf
    <3>3. rows[c] # NoRow /\ Cardinality(live[d]) = rows[c].count + 0
      BY <1>2, <3>1, <3>2 DEF Exact, Live
    <3>4. rows[c].count \in Nat
      BY <3>3 DEF TypeInv, CorpusTypeOK, Row
    <3>5. Cardinality(NoteOf(c)') = rows'[c].count + 1
      BY <2>1, <3>2, <3>3, <3>4
    <3> QED  BY <1>2, <1>4, <2>1, <2>2, <2>3, <2>5, <3>1, <3>5 DEF Exact
  <2> QED  BY <2>4, <2>5
<1> QED  BY <1>6, <1>7

LEMMA ExactBump ==
  ASSUME TypeInv, TypeInv', SoundInv, SoundInv', NEW s \in Source, Bump(s),
         \A e \in ClaimId : Exact(e), NEW c \in ClaimId
  PROVE  Exact(c)'
<1>1. s \in AtWork /\ At(s, "bump")
  BY DEF Bump, At, AtWork
<1>2. PICK d \in ClaimId : d = work[s].claim
  BY <1>1 DEF At, TypeInv, Control
<1>3. ~ Fresh(c) /\ ~ Unindexed(c) /\ (Uncounted(c) <=> c = d) /\ ~ Fresh(d)
  BY <1>1, <1>2, OneUnderway DEF SoundInv, At
<1>4. /\ work'[s].step = "judge" /\ \A t \in Source \ {s} : work'[t] = work[t]
      /\ UNCHANGED <<vecs, live, merged>>
  BY DEF Bump, NextCandidate, Judging, TypeInv, CorpusTypeOK
<1>5. ~ Fresh(c)' /\ ~ Unindexed(c)' /\ ~ Uncounted(c)'
  <2>1. \A t \in Source \ {s} : At(t, "idle")
    BY <1>1 DEF SoundInv, OneBusy, AtWork, At
  <2> QED  BY <1>4, <2>1 DEF Fresh, Unindexed, Uncounted, At
<1>6. Live(d) /\ rows[d] # NoRow
  BY <1>1, <1>2, <1>3 DEF SoundInv, Underway, Exact, Live, At
<1>7. rows[d] \in Row /\ rows' = [rows EXCEPT ![d] = [rows[d] EXCEPT !.count = @ + 1]]
  BY <1>2, <1>6 DEF Bump, WithCount, TypeInv, CorpusTypeOK
<1>8. /\ rows'[d].count = rows[d].count + 1 /\ rows'[d].into = rows[d].into /\ rows'[d] # NoRow
      /\ \A e \in ClaimId \ {d} : rows'[e] = rows[e]
  <2>1. [rows[d] EXCEPT !.count = @ + 1] \in Row
    BY <1>7 DEF Row
  <2> QED  BY <1>7, <2>1, NullAssumption DEF NullAssumption, TypeInv, CorpusTypeOK, Row
<1>9. CASE c # d
  BY <1>3, <1>4, <1>5, <1>8, <1>9, ExactStays
<1>10. CASE c = d
  <2>1. Live(c)' /\ NoteOf(c)' = NoteOf(c)
    BY <1>4, <1>6, <1>8, <1>10 DEF Live, NoteOf
  <2>2. Cardinality(NoteOf(c)) = rows[c].count + 1
    BY <1>3, <1>6, <1>10 DEF Exact
  <2>3. Cardinality(NoteOf(c)') = rows'[c].count + 0
    BY <1>7, <1>8, <1>10, <2>1, <2>2 DEF Row
  <2> QED  BY <1>3, <1>4, <1>5, <1>6, <1>8, <1>10, <2>1, <2>3 DEF Exact
<1> QED  BY <1>9, <1>10

LEMMA ExactCreate ==
  ASSUME TypeInv, SoundInv, NEW s \in Source, Create(s), NEW c \in ClaimId, Exact(c)
  PROVE  Exact(c)'
<1>1. /\ s \in AtWork /\ At(s, "judge") /\ Candidates(s)
      /\ <<s, work[s].pos>> \in ClaimId /\ {Here(s)} \in Note
  BY HereIsAttestation DEF Create, At, AtWork, Note
<1>2. PICK d \in ClaimId : d = <<s, work[s].pos>>
  BY <1>1
<1>3. /\ live' = [live EXCEPT ![d] = {Here(s)}]
      /\ work' = [work EXCEPT ![s] = Chosen(s, "insert", d, {})]
      /\ UNCHANGED <<rows, vecs, merged>>
  BY <1>2 DEF Create
<1>4. /\ work'[s].step = "insert" /\ work'[s].claim = d
      /\ \A t \in Source \ {s} : work'[t] = work[t] /\ At(t, "idle")
      /\ live'[d] = {Here(s)} /\ \A e \in ClaimId \ {d} : live'[e] = live[e]
  BY <1>1, <1>3 DEF Chosen, TypeInv, CorpusTypeOK, SoundInv, OneBusy, AtWork, At
<1>5. ~ Fresh(c) /\ ~ Unindexed(c) /\ ~ Uncounted(c)
  BY <1>1, OneUnderway DEF SoundInv, At
<1>6. (Fresh(c)' <=> c = d) /\ ~ Unindexed(c)' /\ ~ Uncounted(c)'
  BY <1>4 DEF Fresh, Unindexed, Uncounted, At
<1>7. CASE c # d
  BY <1>3, <1>4, <1>5, <1>6, <1>7, ExactStays
<1>8. CASE c = d
  <2>1. rows[c] = NoRow /\ ~ Live(c)'
    BY <1>1, <1>2, <1>3, <1>8, RowIsFree DEF Live
  <2>2. live'[c] # NoNote
    BY <1>1, <1>4, <1>8, NullAssumption DEF NullAssumption
  <2> QED  BY <1>3, <1>5, <1>6, <1>8, <2>1, <2>2 DEF Exact
<1> QED  BY <1>7, <1>8

LEMMA ExactInsert ==
  ASSUME TypeInv, SoundInv, NEW s \in Source, Insert(s), NEW c \in ClaimId, Exact(c)
  PROVE  Exact(c)'
<1>1. s \in AtWork /\ At(s, "insert") /\ Candidates(s)
  BY DEF Insert, At, AtWork, TypeInv, Control
<1>2. PICK d \in ClaimId : d = work[s].claim
  BY <1>1 DEF At, TypeInv, Control
<1>3. d = <<s, work[s].pos>> /\ live[d] = {Here(s)} /\ rows[d] = NoRow
  BY <1>1, <1>2, RowIsFree DEF SoundInv, Underway
<1>4. /\ rows' = [rows EXCEPT ![d] = [count |-> 1, into |-> Nobody]]
      /\ UNCHANGED <<vecs, live, merged>>
  BY <1>2 DEF Insert
<1>5. /\ work'[s].step = "index" /\ work'[s].claim = d
      /\ \A t \in Source \ {s} : work'[t] = work[t] /\ At(t, "idle")
  BY <1>1, <1>2 DEF Insert, TypeInv, CorpusTypeOK, Work, SoundInv, OneBusy, AtWork, At
<1>6. (Fresh(c) <=> c = d) /\ ~ Unindexed(c) /\ ~ Uncounted(c)
  BY <1>1, <1>2, OneUnderway DEF SoundInv, At
<1>7. ~ Fresh(c)' /\ (Unindexed(c)' <=> c = d) /\ ~ Uncounted(c)'
  BY <1>5 DEF Fresh, Unindexed, Uncounted, At
<1>8. CASE c # d
  <2>1. rows'[c] = rows[c]
    BY <1>4, <1>8 DEF TypeInv, CorpusTypeOK
  <2> QED  BY <1>4, <1>6, <1>7, <1>8, <2>1, ExactStays
<1>9. CASE c = d
  <2>1. rows'[c] = [count |-> 1, into |-> Nobody] /\ rows'[c] # NoRow
    <3>1. [count |-> 1, into |-> Nobody] \in Row
      BY DEF Row
    <3> QED  BY <1>4, <1>9, <3>1, NullAssumption DEF NullAssumption, TypeInv, CorpusTypeOK
  <2>2. Live(c)' /\ rows'[c].count = 1
    BY <2>1 DEF Live
  <2>3. NoteOf(c)' = {Here(s)} /\ Cardinality({Here(s)}) = 1
    BY <1>3, <1>4, <1>9, <2>2, FS_Singleton DEF NoteOf
  <2>4. live'[c] # NoNote /\ merged'[c] = NoNote /\ c \notin vecs'
    BY <1>3, <1>4, <1>6, <1>9 DEF Exact
  <2>5. Cardinality(NoteOf(c)') = rows'[c].count + 0
    BY <2>2, <2>3
  <2> QED  BY <1>7, <1>9, <2>1, <2>2, <2>4, <2>5 DEF Exact
<1> QED  BY <1>8, <1>9

LEMMA ExactIndex ==
  ASSUME TypeInv, SoundInv, NEW s \in Source, Index(s), NEW c \in ClaimId, Exact(c)
  PROVE  Exact(c)'
<1>1. s \in AtWork /\ At(s, "index")
  BY DEF Index, At, AtWork
<1>2. PICK d \in ClaimId : d = work[s].claim
  BY <1>1 DEF At, TypeInv, Control
<1>3. rows[d] # NoRow
  BY <1>1, <1>2 DEF SoundInv, Underway
<1>4. /\ work'[s].step = "judge"
      /\ \A t \in Source \ {s} : work'[t] = work[t] /\ At(t, "idle")
      /\ vecs' = vecs \cup {d} /\ UNCHANGED <<rows, live, merged>>
  BY <1>1, <1>2
     DEF Index, NextCandidate, Judging, TypeInv, CorpusTypeOK, SoundInv, OneBusy, AtWork, At
<1>5. ~ Fresh(c) /\ (Unindexed(c) <=> c = d) /\ ~ Uncounted(c)
  BY <1>1, <1>2, OneUnderway DEF SoundInv, At
<1>6. ~ Fresh(c)' /\ ~ Unindexed(c)' /\ ~ Uncounted(c)'
  BY <1>4 DEF Fresh, Unindexed, Uncounted, At
<1>7. Live(c)' = Live(c) /\ NoteOf(c)' = NoteOf(c)
  BY <1>4 DEF Live, NoteOf
<1> QED  BY <1>3, <1>4, <1>5, <1>6, <1>7 DEF Exact

LEMMA ExactMerge ==
  ASSUME TypeInv, SoundInv, Merge, \A e \in ClaimId : Exact(e), NEW c \in ClaimId
  PROVE  Exact(c)'
<1>1. PICK v, a \in ClaimId :
        /\ v # a /\ live[v] # NoNote /\ live[a] # NoNote
        /\ live' = [live EXCEPT ![v] = live[v] \cup New(v, a), ![a] = NoNote]
        /\ merged' = [merged EXCEPT ![a] = live[a]]
        /\ \A e \in ClaimId : rows[e] = NoRow => rows'[e] = NoRow
        /\ \A e \in ClaimId \ {v, a} : rows'[e] = rows[e]
        /\ rows[a] # NoRow =>
             rows'[a] # NoRow /\ rows'[a].count = rows[a].count /\ rows'[a].into = v
        /\ rows[v] # NoRow =>
             /\ rows'[v] # NoRow /\ rows'[v].into = rows[v].into
             /\ rows'[v].count = rows[v].count + Cardinality(New(v, a))
  BY MergeEffect
<1>2. /\ live'[v] = live[v] \cup New(v, a) /\ live'[a] = NoNote /\ merged'[a] = live[a]
      /\ \A e \in ClaimId \ {v, a} : live'[e] = live[e] /\ merged'[e] = merged[e]
      /\ merged'[v] = merged[v]
  BY <1>1 DEF TypeInv, CorpusTypeOK
<1>3. AtWork = {} /\ work' = work /\ vecs' = vecs
  BY DEF Merge
<1>4. \A e \in ClaimId : ~ Fresh(e) /\ ~ Unindexed(e) /\ ~ Uncounted(e)
  BY <1>3, NothingUnderway
<1>5. ~ Fresh(c)' /\ ~ Unindexed(c)' /\ ~ Uncounted(c)'
  BY <1>3, <1>4 DEF Fresh, Unindexed, Uncounted, At
<1>6. Live(v) /\ Live(a)
  BY <1>1, <1>4 DEF Exact
<1>7. CASE c = v
  <2>1. Live(c)' /\ rows[c] # NoRow /\ rows'[c] # NoRow
    BY <1>1, <1>6, <1>7 DEF Live
  <2>2. NoteOf(c) = live[v] /\ NoteOf(c)' = live[v] \cup New(v, a)
    BY <1>2, <1>6, <1>7, <2>1 DEF NoteOf
  <2>3. live'[c] # NoNote
    BY <1>1, <1>2, <1>7, NewIsFinite, NullAssumption DEF NullAssumption
  <2>4. /\ Cardinality(live[v]) = rows[v].count + 0 /\ rows[v].count \in Nat
        /\ Cardinality(New(v, a)) \in Nat
        /\ Cardinality(live[v] \cup New(v, a)) = Cardinality(live[v]) + Cardinality(New(v, a))
    BY <1>1, <1>4, <1>7, <2>1, <2>2, NewIsFinite DEF Exact, TypeInv, CorpusTypeOK, Row
  <2>5. Cardinality(NoteOf(c)') = rows'[c].count + 0
    BY <1>1, <1>7, <2>1, <2>2, <2>4
  <2> QED  BY <1>2, <1>3, <1>4, <1>5, <1>6, <1>7, <2>1, <2>3, <2>5 DEF Exact
<1>8. CASE c = a
  <2>1. ~ Live(c)' /\ rows[c] # NoRow /\ rows'[c] # NoRow
    BY <1>1, <1>6, <1>8, NullAssumption DEF Live, NullAssumption
  <2>2. NoteOf(c) = live[a] /\ NoteOf(c)' = live[a] /\ rows'[c].count = rows[c].count
    BY <1>1, <1>2, <1>6, <1>8, <2>1 DEF NoteOf
  <2> QED  BY <1>1, <1>2, <1>3, <1>4, <1>5, <1>6, <1>8, <2>1, <2>2 DEF Exact
<1>9. CASE c \notin {v, a}
  BY <1>1, <1>2, <1>3, <1>4, <1>5, <1>9, ExactStays
<1> QED  BY <1>7, <1>8, <1>9

(* A claim no row is left of has neither vector nor note. *)
LEMMA RetractLeavesNothing ==
  ASSUME TypeInv, AtWork = {}, NEW s \in Source, Retract(s), NEW c \in ClaimId, Exact(c),
         rows'[c] = NoRow
  PROVE  c \notin vecs' /\ live'[c] = NoNote /\ merged'[c] = NoNote
<1>0. Retracted(s)
  BY RetractForm
<1>1. CASE c \in Owned(s)
  BY <1>0, <1>1 DEF Retracted
<1>2. CASE c \notin Owned(s)
  <2>1. rows[c] = NoRow
    <3>1. SUFFICES ASSUME rows[c] # NoRow  PROVE FALSE
      OBVIOUS
    <3>2. rows'[c] \in Row
      BY <1>2, <3>1, RetractKeepsRow DEF Retract
    <3> QED  BY <3>2, NullAssumption DEF NullAssumption
  <2>2. live[c] = NoNote /\ merged[c] = NoNote /\ c \notin vecs
    BY <2>1, NothingUnderway DEF Exact, Live
  <2>3. Restored(s, c) = NoNote /\ c \notin Detached(s)
    BY <2>2 DEF Restored, Detached
  <2> QED  BY <1>0, <1>2, <2>2, <2>3 DEF Retracted
<1> QED  BY <1>1, <1>2

LEMMA ExactRetract ==
  ASSUME TypeInv, SoundInv, killed = {}, NEW s \in Source, Retract(s), NEW c \in ClaimId, Exact(c)
  PROVE  Exact(c)'
<1>0. Retracted(s)
  BY RetractForm
<1>1. AtWork = {} /\ work' = work
  BY DEF Retract
<1>2. ~ Fresh(c) /\ ~ Unindexed(c) /\ ~ Uncounted(c)
  BY <1>1, NothingUnderway
<1>3. ~ Fresh(c)' /\ ~ Unindexed(c)' /\ ~ Uncounted(c)'
  BY <1>1, <1>2 DEF Fresh, Unindexed, Uncounted, At
<1>4. CASE rows'[c] = NoRow
  <2>1. c \notin vecs' /\ live'[c] = NoNote /\ merged'[c] = NoNote /\ ~ Live(c)'
    BY <1>1, <1>4, RetractLeavesNothing DEF Live
  <2> QED  BY <1>3, <1>4, <2>1 DEF Exact
<1>5. CASE rows'[c] # NoRow
  <2>0. Settled(c)
    BY <1>0, <1>5, SettledRow DEF SoundInv, Retracted
  <2>1. rows[c] # NoRow /\ c \notin Owned(s) /\ Owner(c) # s
    BY <1>5, <2>0, RetractEffect
  <2>2. /\ rows[c].count \in Nat \ {0} /\ NoteOf(c) # NoNote
        /\ Cardinality(NoteOf(c)) = rows[c].count
    BY <1>2, <2>0, <2>1 DEF TypeInv, CorpusTypeOK, Row, Settled, Exact
  <2>3. c \in vecs'
    BY <1>0, <1>2, <2>1 DEF Retracted, Exact
  <2>4. CASE ~ Live(c)'
    <3>1. /\ live'[c] = NoNote /\ merged'[c] = NoteOf(c) /\ rows'[c].count = rows[c].count
      BY <1>5, <2>0, <2>4, RetractEffect
    <3>2. NoteOf(c)' = NoteOf(c)
      BY <2>4, <3>1 DEF NoteOf
    <3> QED  BY <1>3, <1>5, <2>2, <2>3, <2>4, <3>1, <3>2 DEF Exact
  <2>5. CASE Live(c)'
    <3>1. merged'[c] = NoNote
      <4>1. CASE c \in Unmerged(s)
        BY <1>0, <4>1 DEF Retracted
      <4>2. CASE c \notin Unmerged(s)
        <5>1. Live(c)
          BY <1>0, <2>1, <2>5, <4>2 DEF Retracted, Live
        <5> QED  BY <1>0, <2>1, <4>2, <5>1 DEF Retracted, Exact
      <4> QED  BY <4>1, <4>2
    <3>2. CASE c \notin Detached(s)
      <4>1. live'[c] = NoteOf(c) /\ rows'[c].count = rows[c].count
        BY <1>5, <2>0, <2>5, <3>2, RetractEffect
      <4>2. NoteOf(c)' = NoteOf(c)
        BY <2>5, <4>1 DEF NoteOf
      <4> QED  BY <1>3, <1>5, <2>2, <2>3, <2>5, <3>1, <4>1, <4>2 DEF Exact
    <3>3. CASE c \in Detached(s)
      <4>1. /\ live'[c] = Kept(s, c) /\ Restored(s, c) = NoteOf(c)
            /\ rows'[c].count = Less(rows[c].count, Cardinality(Restored(s, c) \ Kept(s, c)))
        BY <1>5, <2>0, <2>5, <3>3, RetractEffect
      <4>2. NoteOf(c)' = Kept(s, c)
        BY <2>5, <4>1 DEF NoteOf
      <4>3. /\ Cardinality(Kept(s, c)) \in Nat \ {0}
            /\ Kept(s, c) # NoNote
            /\ Cardinality(Restored(s, c) \ Kept(s, c)) \in Nat
            /\ Cardinality(Restored(s, c)) =
                 Cardinality(Kept(s, c)) + Cardinality(Restored(s, c) \ Kept(s, c))
        BY <2>0, <2>1, <2>2, <4>1, KeptHasOrigin, KeptIsFinite, NullAssumption
           DEF NullAssumption, Settled
      <4>4. Cardinality(Kept(s, c)) = rows'[c].count + 0
        BY <2>2, <4>1, <4>3 DEF Less
      <4> QED  BY <1>3, <1>5, <2>3, <2>5, <3>1, <4>1, <4>2, <4>3, <4>4 DEF Exact
    <3> QED  BY <3>2, <3>3
  <2> QED  BY <2>4, <2>5
<1> QED  BY <1>4, <1>5

LEMMA ExactStep ==
  ASSUME OneWriter, TypeInv, SoundInv, PastInv, ExactInv, [Next]_vars
  PROVE  ExactInv'
<1>1. TypeInv' /\ SoundInv'
  BY TypeStep, SoundStep
<1>2. SUFFICES ASSUME killed' = {}, NEW c \in ClaimId  PROVE Exact(c)'
  BY DEF ExactInv
<1>3. ~ MergeKilled /\ \A s \in Source : ~ Crash(s) /\ ~ RetractKilled(s)
  BY <1>2, NothingKilled
<1>4. killed = {} /\ \A e \in ClaimId : Exact(e)
  BY <1>2, NothingKilled DEF ExactInv
<1>5. ASSUME MakePlan \/ Skip  PROVE Exact(c)'
  BY <1>4, <1>5, ExactStays
     DEF MakePlan, Skip, corpus, Fresh, Unindexed, Uncounted, At
<1>6. ASSUME NEW s \in Source, Dedup(s)  PROVE Exact(c)'
  BY <1>1, <1>3, <1>4, <1>6, ExactBegin, ExactMatch, ExactAttest, ExactBump, ExactCreate,
     ExactInsert, ExactIndex DEF Dedup
<1>7. ASSUME NEW s \in Source, Retract(s)  PROVE Exact(c)'
  BY <1>4, <1>7, ExactRetract
<1>8. CASE UNCHANGED vars
  BY <1>4, <1>8, ExactStays DEF vars, Fresh, Unindexed, Uncounted, At
<1> QED  BY <1>3, <1>4, <1>5, <1>6, <1>7, <1>8, ExactMerge DEF Next, Groom

(* Only the retraction of a source takes its rows away.                    *)
LEMMA RowsStay ==
  ASSUME TypeInv, [Next]_vars, killed' = {}, NEW s \in Source, ~ Retract(s),
         NEW c \in ClaimId, Owner(c) = s, rows[c] # NoRow
  PROVE  rows'[c] # NoRow
<1>1. ~ MergeKilled /\ \A t \in Source : ~ Crash(t) /\ ~ RetractKilled(t)
  BY NothingKilled
<1>2. CASE UNCHANGED rows
  BY <1>2
<1>3. CASE Merge
  <2>1. PICK v, a \in ClaimId :
          /\ \A d \in ClaimId \ {v, a} : rows'[d] = rows[d]
          /\ rows[a] # NoRow => rows'[a] # NoRow
          /\ rows[v] # NoRow => rows'[v] # NoRow
    BY <1>3, MergeEffect
  <2> QED  BY <2>1
<1>4. ASSUME NEW t \in Source, Bump(t)  PROVE rows'[c] # NoRow
  <2>1. PICK d \in ClaimId : d = work[t].claim
    BY <1>4 DEF Bump, At, TypeInv, Control
  <2>2. rows' = WithCount(d, 1)
    BY <1>4, <2>1 DEF Bump
  <2>3. CASE c # d \/ rows[d] = NoRow
    BY <2>2, <2>3 DEF WithCount, TypeInv, CorpusTypeOK
  <2>4. CASE c = d
    <3>1. rows[c] \in Row
      BY DEF TypeInv, CorpusTypeOK
    <3>2. [rows[c] EXCEPT !.count = rows[c].count + 1] \in Row
      BY <3>1 DEF Row
    <3>3. rows'[c] = [rows[c] EXCEPT !.count = rows[c].count + 1]
      BY <2>2, <2>4 DEF WithCount, TypeInv, CorpusTypeOK
    <3> QED  BY <3>2, <3>3, NullAssumption DEF NullAssumption
  <2> QED  BY <2>3, <2>4
<1>5. ASSUME NEW t \in Source, Insert(t)  PROVE rows'[c] # NoRow
  <2>1. [count |-> 1, into |-> Nobody] \in Row
    BY DEF Row
  <2> QED  BY <1>5, <2>1, NullAssumption DEF NullAssumption, Insert, TypeInv, CorpusTypeOK
<1>6. ASSUME NEW t \in Source, Retract(t)  PROVE rows'[c] # NoRow
  <2>1. c \notin Owned(t)
    BY <1>6 DEF Owned
  <2>2. rows'[c] \in Row
    BY <1>6, <2>1, RetractKeepsRow DEF Retract
  <2> QED  BY <2>2, NullAssumption DEF NullAssumption
<1>7. ASSUME NEW t \in Source, Dedup(t)  PROVE rows'[c] # NoRow
  <2>1. CASE \/ Begin(t) \/ (\E m \in ClaimId : Match(t, m)) \/ Attest(t) \/ Create(t)
             \/ Index(t) \/ End(t)
    BY <1>2, <2>1 DEF Begin, Match, Attest, Create, Index, End, corpus
  <2> QED  BY <1>1, <1>4, <1>5, <1>7, <2>1 DEF Dedup
<1>8. MakePlan \/ Skip \/ UNCHANGED vars => UNCHANGED rows
  BY DEF MakePlan, Skip, corpus, vars
<1> QED  BY <1>1, <1>2, <1>3, <1>6, <1>7, <1>8 DEF Next, Groom

LEMMA RetractionCompletes ==
  ASSUME TypeInv, SoundInv, ExactInv, [Next]_vars, killed' = {},
         NEW s \in Source, Owned(s) # {}, Owned(s)' = {}
  PROVE  TraceFree(s)'
<1>0. killed = {}
  BY NothingKilled
<1>1. Retract(s)
  <2>1. PICK c \in ClaimId : Owner(c) = s /\ rows[c] # NoRow
    BY DEF Owned
  <2>2. rows'[c] = NoRow
    BY <2>1 DEF Owned
  <2> QED  BY <2>1, <2>2, RowsStay
<1>2. Retracted(s) /\ AtWork = {} /\ \A c \in ClaimId : Exact(c)
  BY <1>0, <1>1, RetractForm DEF Retract, ExactInv
<1>3. ASSUME NEW c \in ClaimId, Owner(c) = s
      PROVE  rows'[c] = NoRow /\ c \notin vecs' /\ live'[c] = NoNote /\ merged'[c] = NoNote
  <2>1. rows'[c] = NoRow
    BY <1>2, <1>3 DEF Retracted, Owned
  <2> QED  BY <1>1, <1>2, <2>1, RetractLeavesNothing
<1>4. ASSUME NEW c \in ClaimId, live'[c] # NoNote, NEW a \in live'[c]
      PROVE  a.src # s
  <2>1. rows'[c] # NoRow
    BY <1>1, <1>2, <1>4, RetractLeavesNothing
  <2>0. Settled(c)
    BY <1>0, <1>2, <2>1, SettledRow DEF SoundInv, Retracted
  <2>2. rows[c] # NoRow /\ c \notin Owned(s) /\ Owner(c) # s /\ Live(c)'
    BY <1>1, <1>4, <2>0, <2>1, RetractEffect
  <2>3. CASE c \in Detached(s)
    BY <1>1, <1>4, <2>0, <2>1, <2>2, <2>3, RetractEffect DEF Kept
  <2>4. CASE c \notin Detached(s)
    <3>1. Restored(s, c) = NoteOf(c) /\ live'[c] = Restored(s, c)
      BY <1>1, <2>0, <2>1, <2>2, <2>4, RetractEffect
    <3>2. Kept(s, c) # {}
      BY <2>0, <2>2, <3>1, KeptHasOrigin DEF Settled
    <3>3. Live(c) \/ c \in Unmerged(s)
      BY <1>2, <2>2 DEF Retracted, Live
    <3>4. Kept(s, c) = Restored(s, c)
      BY <1>4, <2>2, <2>4, <3>1, <3>2, <3>3 DEF Detached
    <3> QED  BY <1>4, <3>1, <3>4 DEF Kept
  <2> QED  BY <2>3, <2>4
<1> QED  BY <1>3, <1>4 DEF TraceFree

LEMMA ExactAlways ==
  ASSUME OneWriter
  PROVE  Spec => [](TypeInv /\ SoundInv /\ ExactInv)
<1>1. TypeInv /\ SoundInv /\ PastInv /\ ExactInv /\ [Next]_vars
        => TypeInv' /\ SoundInv' /\ PastInv' /\ ExactInv'
  BY TypeStep, SoundStep, PastStep, ExactStep
<1>2. Init => ExactInv
  BY DEF Init, Idle, ExactInv, Exact, Fresh, Unindexed, Uncounted, At, Live
<1> QED  BY TypeInit, SoundInit, <1>1, <1>2, PTL DEF Spec

(* One dedup at a time and nothing killed: whenever no dedup is under way, *)
(* rows, vectors and notes are of the same claims and every count is its   *)
(* note's.                                                                 *)
THEOREM StoresAgree ==
  ASSUME OneWriter
  PROVE  Spec => []NotesAgreeWithRows
<1>1. TypeInv /\ ExactInv => NotesAgreeWithRows
  <2>1. SUFFICES ASSUME TypeInv, ExactInv, killed = {}, AtWork = {}, NEW c \in ClaimId
                 PROVE  /\ live[c] # NoNote <=> Live(c)
                        /\ merged[c] # NoNote <=> rows[c] # NoRow /\ ~ Live(c)
                        /\ c \in vecs <=> rows[c] # NoRow
                        /\ rows[c] # NoRow => rows[c].count = Cardinality(NoteOf(c))
    BY DEF NotesAgreeWithRows
  <2>2. ~ Fresh(c) /\ ~ Unindexed(c) /\ ~ Uncounted(c)
    BY <2>1, NothingUnderway
  <2>3. Exact(c) /\ (rows[c] # NoRow => rows[c].count \in Nat)
    BY <2>1 DEF ExactInv, TypeInv, CorpusTypeOK, Row
  <2> QED  BY <2>2, <2>3 DEF Exact
<1> QED  BY ExactAlways, <1>1, PTL

(* One dedup at a time and nothing killed: the retraction of a source that *)
(* owns claims, the only step that takes them away, leaves no trace of the *)
(* source among rows, vectors and live notes. (It does nothing for one     *)
(* that owns none, so that nothing is claimed of that.)                    *)
THEOREM RetractedClaimsLeaveNoTrace ==
  ASSUME OneWriter
  PROVE  Spec => RetractionOfClaimsIsComplete
<1>1. TypeInv /\ SoundInv /\ ExactInv /\ [Next]_vars =>
        [killed' = {} =>
           \A s \in Source : Owned(s) # {} /\ Owned(s)' = {} => TraceFree(s)']_vars
  BY RetractionCompletes
<1> QED  BY ExactAlways, <1>1, PTL DEF Spec, RetractionOfClaimsIsComplete
-----------------------------------------------------------------------------
(* resolve_live: what its recursion computes. *)

(* Induction over numbers, for a set of them.                              *)
LEMMA SetInduction ==
  ASSUME NEW S \in SUBSET Nat, 0 \in S, \A n \in S : n + 1 \in S
  PROVE  S = Nat
  <1> DEFINE R == OpToRel(<, Nat)
             T == Nat \ S
  <1>1. \A x, y \in Nat : <<y, x>> \in R <=> y < x
    BY DEF OpToRel
  <1>2. IsWellFoundedOn(R, Nat)
    BY NatLessThanWellFounded
  <1> HIDE DEF R
  <1> SUFFICES ASSUME T # {}  PROVE FALSE
    OBVIOUS
  <1>3. PICK x \in T : \A y \in T : <<y, x>> \notin R
    BY <1>2, WFMin
  <1>4. x # 0 /\ x - 1 \in Nat /\ x - 1 < x
    BY SMT
  <1>5. x - 1 \notin T
    BY <1>1, <1>3, <1>4
  <1> QED
    BY <1>4, <1>5

Rows == [ClaimId -> Row \cup {NoRow}]

LEMMA HopIsClaim ==
  ASSUME NEW R \in Rows, NEW c \in ClaimId
  PROVE  Hop(R, c) \in ClaimId
  <1>1. CASE R[c] # NoRow
    <2>1. R[c] \in Row
      BY <1>1 DEF Rows
    <2> QED
      BY <2>1 DEF Hop, Row
  <1> QED
    BY <1>1 DEF Hop

(* The first n hops from c; there is one way to make them.                 *)
Hops(R, c, n) ==
  {g \in [0..n -> ClaimId] : g[0] = c /\ \A i \in 1..n : g[i] = Hop(R, g[i - 1])}

LEMMA FewerHops ==
  ASSUME NEW R \in Rows, NEW c \in ClaimId, NEW n \in Nat, NEW g \in Hops(R, c, n + 1)
  PROVE  /\ [i \in 0..n |-> g[i]] \in Hops(R, c, n)
         /\ g[n + 1] = Hop(R, g[n])
  <1>1. \A i \in 0..n : i \in 0..(n + 1)
    OBVIOUS
  <1>2. \A i \in 1..n : i \in 1..(n + 1) /\ i - 1 \in 0..n
    OBVIOUS
  <1>3. n + 1 \in 1..(n + 1) /\ n + 1 - 1 = n
    OBVIOUS
  <1> QED
    BY <1>1, <1>2, <1>3 DEF Hops

LEMMA HopsAreUnique ==
  ASSUME NEW R \in Rows, NEW c \in ClaimId
  PROVE  \A n \in Nat : \E g \in Hops(R, c, n) : \A h \in Hops(R, c, n) : h = g
  <1> DEFINE S == {n \in Nat : \E g \in Hops(R, c, n) : \A h \in Hops(R, c, n) : h = g}
  <1>1. 0 \in S
    <2> DEFINE g == [i \in 0..0 |-> c]
    <2>1. g \in Hops(R, c, 0)
      BY DEF Hops
    <2>2. ASSUME NEW h \in Hops(R, c, 0)  PROVE h = g
      BY <2>2 DEF Hops
    <2> QED
      BY <2>1, <2>2
  <1>2. ASSUME NEW n \in S  PROVE n + 1 \in S
    <2>1. PICK g \in Hops(R, c, n) : \A h \in Hops(R, c, n) : h = g
      OBVIOUS
    <2>2. g \in [0..n -> ClaimId] /\ n \in Nat /\ n \in 0..n
      BY DEF Hops
    <2> DEFINE e == [i \in 0..(n + 1) |-> IF i = n + 1 THEN Hop(R, g[n]) ELSE g[i]]
    <2>3. e \in Hops(R, c, n + 1)
      <3>1. e \in [0..(n + 1) -> ClaimId]
        BY <2>2, HopIsClaim
      <3>2. e[0] = c
        BY <2>2 DEF Hops
      <3>3. ASSUME NEW i \in 1..(n + 1)  PROVE e[i] = Hop(R, e[i - 1])
        <4>1. CASE i = n + 1
          BY <2>2, <4>1
        <4>2. CASE i # n + 1
          <5>1. i \in 1..n /\ i \in 0..(n + 1) /\ i - 1 \in 0..(n + 1) /\ i - 1 # n + 1
            BY <2>2, <4>2
          <5>2. g[i] = Hop(R, g[i - 1])
            BY <5>1 DEF Hops
          <5> QED
            BY <4>2, <5>1, <5>2
        <4> QED
          BY <4>1, <4>2
      <3> QED
        BY <3>1, <3>2, <3>3 DEF Hops
    <2>4. ASSUME NEW h \in Hops(R, c, n + 1)  PROVE h = e
      <3>1. [i \in 0..n |-> h[i]] = g /\ h[n + 1] = Hop(R, h[n])
        BY <2>1, <2>2, FewerHops
      <3>2. \A i \in 0..n : h[i] = g[i]
        BY <3>1
      <3>3. h \in [0..(n + 1) -> ClaimId]
        BY DEF Hops
      <3>4. \A i \in 0..(n + 1) : h[i] = e[i]
        BY <2>2, <3>1, <3>2
      <3> QED
        BY <3>3, <3>4
    <2> HIDE DEF e
    <2> QED
      BY <2>2, <2>3, <2>4
  <1>3. S = Nat
    <2> HIDE DEF S
    <2>1. S \subseteq Nat
      BY DEF S
    <2> QED
      BY <1>1, <1>2, <2>1, SetInduction
  <1> QED
    BY <1>3

IsAfter(f, R, c) == f = [n \in Nat |-> IF n = 0 THEN c ELSE Hop(R, f[n - 1])]

LEMMA AfterExists ==
  ASSUME NEW R \in Rows, NEW c \in ClaimId
  PROVE  \E f : IsAfter(f, R, c)
  <1> DEFINE G(n) == CHOOSE g : g \in Hops(R, c, n)
             f == [n \in Nat |-> G(n)[n]]
  <1>1. ASSUME NEW n \in Nat
        PROVE  G(n) \in Hops(R, c, n) /\ \A h \in Hops(R, c, n) : h = G(n)
    <2>1. PICK g \in Hops(R, c, n) : \A h \in Hops(R, c, n) : h = g
      BY HopsAreUnique
    <2>2. G(n) \in Hops(R, c, n)
      BY <2>1
    <2> QED
      BY <2>1, <2>2
  <1> HIDE DEF G
  <1>2. f[0] = c
    BY <1>1 DEF Hops
  <1>3. ASSUME NEW n \in Nat  PROVE f[n + 1] = Hop(R, f[n])
    <2>1. G(n + 1) \in Hops(R, c, n + 1)
      BY <1>1
    <2>2. PICK g \in Hops(R, c, n + 1) : g = G(n + 1)
      BY <2>1
    <2>3. [i \in 0..n |-> g[i]] \in Hops(R, c, n) /\ g[n + 1] = Hop(R, g[n])
      BY FewerHops
    <2>4. [i \in 0..n |-> g[i]] = G(n)
      BY <1>1, <2>3
    <2>5. g[n] = G(n)[n]
      BY <2>4
    <2> QED
      BY <2>2, <2>3, <2>5
  <1>4. ASSUME NEW n \in Nat \ {0}  PROVE f[n] = Hop(R, f[n - 1])
    <2>1. n - 1 \in Nat /\ n - 1 + 1 = n
      OBVIOUS
    <2> HIDE DEF f
    <2> QED
      BY <1>3, <2>1
  <1>5. f = [n \in Nat |-> f[n]]
    OBVIOUS
  <1> HIDE DEF f
  <1>6. f = [n \in Nat |-> IF n = 0 THEN c ELSE Hop(R, f[n - 1])]
    BY <1>2, <1>4, <1>5
  <1> QED
    BY <1>6 DEF IsAfter

(* The recursion goes from claim to claim, and ends after so many hops.    *)
LEMMA ResolveHops ==
  ASSUME NEW R \in Rows, NEW c \in ClaimId
  PROVE  \E f \in [Nat -> ClaimId] :
           /\ f[0] = c
           /\ \A n \in Nat : f[n + 1] = Hop(R, f[n])
           /\ resolve_live(R, c) = f[Cardinality(ClaimId)]
  <1> DEFINE f == CHOOSE f : IsAfter(f, R, c)
  <1>1. IsAfter(f, R, c)
    BY AfterExists
  <1>2. resolve_live(R, c) = f[Cardinality(ClaimId)]
    BY DEF resolve_live, IsAfter
  <1> HIDE DEF f
  <1>3. f = [n \in Nat |-> IF n = 0 THEN c ELSE Hop(R, f[n - 1])]
    BY <1>1 DEF IsAfter
  <1>4. f[0] = c
    BY <1>3
  <1>5. ASSUME NEW n \in Nat  PROVE f[n + 1] = Hop(R, f[n])
    <2>1. n + 1 \in Nat /\ n + 1 # 0 /\ n + 1 - 1 = n
      OBVIOUS
    <2> QED
      BY <1>3, <2>1
  <1> DEFINE S == {n \in Nat : f[n] \in ClaimId}
  <1>6. 0 \in S /\ \A n \in S : n + 1 \in S
    BY <1>4, <1>5, HopIsClaim
  <1>7. S = Nat
    <2>1. S \subseteq Nat
      OBVIOUS
    <2> HIDE DEF S
    <2> QED
      BY <1>6, <2>1, SetInduction
  <1>8. \A n \in Nat : f[n] \in ClaimId
    BY <1>7
  <1>9. f \in [Nat -> ClaimId]
    BY <1>3, <1>8
  <1> QED
    BY <1>2, <1>4, <1>5, <1>9

LEMMA ClaimsAreFinite ==
  /\ IsFiniteSet(ClaimId)
  /\ Cardinality(ClaimId) \in Nat
  /\ \A c \in ClaimId : Cardinality(ClaimId) > 0
  <1>1. IsFiniteSet(Source) /\ MaxCandidates \in Nat
    BY CorpusAssumption
  <1>2. IsFiniteSet(1..MaxCandidates)
    BY <1>1, FS_Interval
  <1>3. IsFiniteSet(ClaimId)
    BY <1>1, <1>2, FS_Product DEF ClaimId, Candidate
  <1>4. Cardinality(ClaimId) \in Nat
    BY <1>3, FS_CardinalityType
  <1>5. ClaimId # {} => Cardinality(ClaimId) # 0
    BY <1>3, FS_EmptySet
  <1> QED
    BY <1>3, <1>4, <1>5

(* A claim that was not absorbed leads to itself, one that was absorbed by *)
(* such a claim to that.                                                   *)
LEMMA ResolveInOne ==
  ASSUME NEW R \in Rows, NEW c \in ClaimId, NEW v \in ClaimId, Hop(R, c) = v, Hop(R, v) = v
  PROVE  resolve_live(R, c) = v
  <1>1. PICK f \in [Nat -> ClaimId] :
           /\ f[0] = c
           /\ \A n \in Nat : f[n + 1] = Hop(R, f[n])
           /\ resolve_live(R, c) = f[Cardinality(ClaimId)]
    BY ResolveHops
  <1> DEFINE S == {n \in Nat : f[n + 1] = v}
  <1>2. 0 \in S
    <2>1. f[0 + 1] = Hop(R, f[0])
      BY <1>1
    <2> QED
      BY <1>1, <2>1
  <1>3. ASSUME NEW n \in S  PROVE n + 1 \in S
    <2>1. n + 1 \in Nat
      OBVIOUS
    <2>2. f[n + 1 + 1] = Hop(R, f[n + 1])
      BY <1>1, <2>1
    <2> QED
      BY <2>1, <2>2
  <1>4. S = Nat
    <2>1. S \subseteq Nat
      OBVIOUS
    <2> HIDE DEF S
    <2> QED
      BY <1>2, <1>3, <2>1, SetInduction
  <1>5. Cardinality(ClaimId) - 1 \in Nat
    BY ClaimsAreFinite
  <1>6. f[Cardinality(ClaimId) - 1 + 1] = v
    BY <1>4, <1>5
  <1>7. Cardinality(ClaimId) - 1 + 1 = Cardinality(ClaimId)
    BY ClaimsAreFinite
  <1> QED
    BY <1>1, <1>6, <1>7

(* No cycles: each absorbed claim points down.                             *)
Down(R, rank) ==
  \A c \in ClaimId : R[c] # NoRow /\ R[c].into # Nobody
                       => R[R[c].into] # NoRow /\ rank[R[c].into] < rank[c]

Forest(R) == \E rank \in [ClaimId -> Nat] : Down(R, rank)

LEMMA ResolveEnds ==
  ASSUME NEW R \in Rows, Forest(R), NEW c \in ClaimId, R[c] # NoRow
  PROVE  /\ resolve_live(R, c) \in ClaimId
         /\ R[resolve_live(R, c)] # NoRow
         /\ R[resolve_live(R, c)].into = Nobody
  <1> DEFINE N == Cardinality(ClaimId)
  <1>1. PICK rank \in [ClaimId -> Nat] : Down(R, rank)
    BY DEF Forest
  <1>2. PICK f \in [Nat -> ClaimId] :
           /\ f[0] = c
           /\ \A n \in Nat : f[n + 1] = Hop(R, f[n])
           /\ resolve_live(R, c) = f[N]
    BY ResolveHops
  <1>3. N \in Nat
    BY ClaimsAreFinite
  <1> HIDE DEF N
  <1>4. \A n \in Nat : R[f[n]] # NoRow
    <2> DEFINE S == {n \in Nat : R[f[n]] # NoRow}
    <2>1. 0 \in S
      BY <1>2
    <2>2. ASSUME NEW n \in S  PROVE n + 1 \in S
      <3>1. n + 1 \in Nat /\ f[n] \in ClaimId /\ f[n + 1] = Hop(R, f[n]) /\ R[f[n]] # NoRow
        BY <1>2
      <3>2. R[f[n + 1]] # NoRow
        BY <1>1, <3>1 DEF Hop, Down
      <3> QED
        BY <3>1, <3>2
    <2>3. S = Nat
      <3>1. S \subseteq Nat
        OBVIOUS
      <3> HIDE DEF S
      <3> QED
        BY <2>1, <2>2, <3>1, SetInduction
    <2> QED
      BY <2>3
  <1>5. SUFFICES ASSUME R[f[N]].into # Nobody  PROVE FALSE
    BY <1>2, <1>3, <1>4
  (* Then it has not ended before. *)
  <1>6. ASSUME NEW n \in 0..N  PROVE R[f[n]].into # Nobody
    <2> SUFFICES ASSUME R[f[n]].into = Nobody  PROVE FALSE
      OBVIOUS
    <2> DEFINE S == {d \in Nat : f[n + d] = f[n]}
    <2>1. 0 \in S
      <3>1. n + 0 = n
        BY <1>3
      <3> QED
        BY <3>1
    <2>2. ASSUME NEW d \in S  PROVE d + 1 \in S
      <3>1. n + d \in Nat /\ n + (d + 1) = n + d + 1 /\ d + 1 \in Nat
        BY <1>3
      <3>2. f[n + d + 1] = Hop(R, f[n + d])
        BY <1>2, <3>1
      <3>3. f[n + d + 1] = f[n]
        BY <3>2 DEF Hop
      <3> QED
        BY <3>1, <3>3
    <2>3. S = Nat
      <3>1. S \subseteq Nat
        OBVIOUS
      <3> HIDE DEF S
      <3> QED
        BY <2>1, <2>2, <3>1, SetInduction
    <2>4. N - n \in Nat /\ n + (N - n) = N
      BY <1>3
    <2>5. f[N] = f[n]
      BY <2>3, <2>4
    <2> QED
      BY <1>5, <2>5
  <1>7. ASSUME NEW n \in 0..(N - 1)  PROVE rank[f[n + 1]] < rank[f[n]]
    <2>1. n \in Nat /\ n \in 0..N /\ f[n] \in ClaimId
      BY <1>3
    <2>2. R[f[n]] # NoRow /\ R[f[n]].into # Nobody /\ f[n + 1] = Hop(R, f[n])
      BY <1>2, <1>4, <1>6, <2>1
    <2> QED
      BY <1>1, <2>1, <2>2 DEF Hop, Down
  (* So it goes down over more claims than there are. *)
  <1>8. ASSUME NEW i \in 0..N, NEW j \in 0..N, i < j  PROVE rank[f[j]] < rank[f[i]]
    <2> DEFINE S == {d \in Nat : i + d + 1 <= N => rank[f[i + d + 1]] < rank[f[i]]}
    <2>1. 0 \in S
      <3>1. i + 0 + 1 = i + 1
        BY <1>3
      <3>2. i + 1 <= N => i \in 0..(N - 1)
        BY <1>3
      <3> QED
        BY <1>7, <3>1, <3>2
    <2>2. ASSUME NEW d \in S  PROVE d + 1 \in S
      <3>1. d + 1 \in Nat /\ i + (d + 1) + 1 = i + d + 1 + 1 /\ i + d + 1 \in Nat
        BY <1>3
      <3>2. CASE i + (d + 1) + 1 <= N
        <4>1. i + d + 1 \in 0..(N - 1) /\ i + d + 1 <= N
          BY <1>3, <3>1, <3>2
        <4>2. rank[f[i + d + 1 + 1]] < rank[f[i + d + 1]] /\ rank[f[i + d + 1]] < rank[f[i]]
          BY <1>7, <4>1
        <4>3. /\ f[i] \in ClaimId /\ f[i + d + 1] \in ClaimId /\ f[i + d + 1 + 1] \in ClaimId
          BY <1>3, <3>1
        <4>4. rank[f[i]] \in Nat /\ rank[f[i + d + 1]] \in Nat /\ rank[f[i + d + 1 + 1]] \in Nat
          BY <4>3
        <4>5. rank[f[i + d + 1 + 1]] < rank[f[i]]
          BY <4>2, <4>4
        <4> QED
          BY <3>1, <4>5
      <3>3. CASE ~(i + (d + 1) + 1 <= N)
        BY <3>1, <3>3
      <3> QED
        BY <3>2, <3>3
    <2>3. S = Nat
      <3>1. S \subseteq Nat
        OBVIOUS
      <3> HIDE DEF S
      <3> QED
        BY <2>1, <2>2, <3>1, SetInduction
    <2>4. PICK d \in Nat : i + d + 1 = j
      <3>1. j - i - 1 \in Nat /\ i + (j - i - 1) + 1 = j
        BY <1>3, <1>8
      <3> QED
        BY <3>1
    <2>5. j <= N
      BY <1>3
    <2> QED
      BY <2>3, <2>4, <2>5
  <1>9. \A i, j \in 0..N : i # j => f[i] # f[j]
    <2> SUFFICES ASSUME NEW i \in 0..N, NEW j \in 0..N, i # j, f[i] = f[j]  PROVE FALSE
      OBVIOUS
    <2>1. i < j \/ j < i
      BY <1>3
    <2>2. rank[f[i]] < rank[f[i]]
      BY <1>8, <2>1
    <2>3. PICK n \in Nat : n = rank[f[i]]
      BY <1>3
    <2> QED
      BY <2>2, <2>3
  <1>10. IsFiniteSet(0..N) /\ Cardinality(0..N) = N + 1
    <2>1. 0 \in Int /\ N \in Int
      BY <1>3
    <2>2. IsFiniteSet(0..N) /\ Cardinality(0..N) = IF 0 > N THEN 0 ELSE N - 0 + 1
      BY <2>1, FS_Interval
    <2> QED
      BY <1>3, <2>2
  <1>11. IsFiniteSet(ClaimId) /\ Cardinality(ClaimId) < Cardinality(0..N)
    BY <1>3, <1>10, ClaimsAreFinite DEF N
  <1> DEFINE g == [n \in 0..N |-> f[n]]
  <1>12. g \in [0..N -> ClaimId]
    BY <1>3
  <1>13. \E x, y \in 0..N : x # y /\ g[x] = g[y]
    <2> HIDE DEF g
    <2> QED
      BY <1>10, <1>11, <1>12, FS_PigeonHole
  <1> QED
    BY <1>9, <1>13
-----------------------------------------------------------------------------
(* What was groomed away leads to a live claim. *)

(* What no row gains, a pointer, and no row loses that is pointed to,      *)
(* makes no cycle.                                                         *)
LEMMA ForestStays ==
  ASSUME NEW R, NEW Q, Forest(R),
         \A c \in ClaimId : Q[c] # NoRow /\ Q[c].into # Nobody =>
           R[c] # NoRow /\ Q[c].into = R[c].into /\ (R[R[c].into] # NoRow => Q[R[c].into] # NoRow)
  PROVE  Forest(Q)
  BY DEF Forest, Down

(* A claim that is absorbed by a live one points down if that one is put   *)
(* below all others.                                                       *)
LEMMA ForestMerges ==
  ASSUME NEW R \in Rows, NEW Q \in Rows, Forest(R), NEW v \in ClaimId, NEW a \in ClaimId,
         Q[v] # NoRow, Q[v].into = Nobody, Q[a].into = v,
         \A c \in ClaimId : R[c] # NoRow => Q[c] # NoRow,
         \A c \in ClaimId \ {a} : Q[c] # NoRow => R[c] # NoRow /\ Q[c].into = R[c].into
  PROVE  Forest(Q)
  <1>1. PICK rank \in [ClaimId -> Nat] : Down(R, rank)
    BY DEF Forest
  <1> DEFINE below == [c \in ClaimId |-> IF c = v THEN 0 ELSE rank[c] + 1]
  <1>2. below \in [ClaimId -> Nat]
    BY <1>1
  <1>3. ASSUME NEW c \in ClaimId, Q[c] # NoRow, Q[c].into # Nobody
        PROVE  Q[Q[c].into] # NoRow /\ below[Q[c].into] < below[c]
    <2>1. c # v /\ below[c] = rank[c] + 1 /\ rank[c] \in Nat /\ below[v] = 0
      BY <1>1, <1>3
    <2>2. CASE c = a
      BY <2>1, <2>2
    <2>3. CASE c # a
      <3>1. PICK d : d = R[c].into
        OBVIOUS
      <3>2. R[c] # NoRow /\ Q[c].into = d /\ d # Nobody
        BY <1>3, <2>3, <3>1
      <3>3. d \in ClaimId
        BY <3>1, <3>2 DEF Rows, Row
      <3>4. R[d] # NoRow /\ rank[d] < rank[c] /\ rank[d] \in Nat
        BY <1>1, <3>1, <3>2, <3>3 DEF Down
      <3>5. below[d] = 0 \/ below[d] = rank[d] + 1
        BY <3>3
      <3> QED
        BY <2>1, <3>2, <3>3, <3>4, <3>5
    <2> QED
      BY <2>2, <2>3
  <1> HIDE DEF below
  <1> QED
    BY <1>2, <1>3 DEF Forest, Down

ForestInv == killed = {} => Forest(rows)

LEMMA ForestStep ==
  ASSUME OneWriter, TypeInv, SoundInv, ExactInv, ForestInv, [Next]_vars
  PROVE  ForestInv'
  <1>1. TypeInv' /\ rows \in Rows /\ rows' \in Rows
    BY TypeStep DEF TypeInv, CorpusTypeOK, Rows
  <1>2. SUFFICES ASSUME killed' = {}  PROVE Forest(rows')
    BY DEF ForestInv
  <1>3. ~ MergeKilled /\ \A s \in Source : ~ Crash(s) /\ ~ RetractKilled(s)
    BY <1>2, NothingKilled
  <1>4. Forest(rows) /\ \A c \in ClaimId : Exact(c)
    BY <1>2, NothingKilled DEF ForestInv, ExactInv
  <1>5. CASE UNCHANGED rows
    BY <1>4, <1>5
  <1>6. ASSUME NEW s \in Source, Bump(s)  PROVE Forest(rows')
    <2>1. \A c \in ClaimId : rows'[c] # NoRow => rows[c] # NoRow /\ rows'[c].into = rows[c].into
      BY <1>6 DEF Bump, WithCount, TypeInv, CorpusTypeOK, Row
    <2>2. \A c \in ClaimId : rows[c] # NoRow => rows'[c] # NoRow
      <3>1. PICK d \in ClaimId : d = work[s].claim
        BY <1>6 DEF Bump, At, TypeInv, Control
      <3>2. CASE rows[d] = NoRow
        BY <1>6, <3>1, <3>2 DEF Bump, WithCount
      <3>3. CASE rows[d] # NoRow
        <4>1. rows[d] \in Row
          BY <1>1, <3>3 DEF Rows
        <4>2. [rows[d] EXCEPT !.count = rows[d].count + 1] \in Row
          BY <4>1 DEF Row
        <4>3. rows' = [rows EXCEPT ![d] = [rows[d] EXCEPT !.count = rows[d].count + 1]]
          BY <1>6, <3>1, <3>3 DEF Bump, WithCount
        <4> QED
          BY <1>1, <4>2, <4>3, NullAssumption DEF NullAssumption, Rows
      <3> QED
        BY <3>2, <3>3
    <2>3. \A c \in ClaimId : rows[c] # NoRow /\ rows[c].into # Nobody => rows[c].into \in ClaimId
      BY <1>1 DEF Rows, Row
    <2> QED
      BY <1>4, <2>1, <2>2, <2>3, ForestStays
  <1>7. ASSUME NEW s \in Source, Insert(s)  PROVE Forest(rows')
    <2>1. PICK d \in ClaimId : d = work[s].claim /\ rows[d] = NoRow
      BY <1>7, RowIsFree DEF Insert, At, TypeInv, Control, SoundInv, Underway
    <2>2. rows' = [rows EXCEPT ![d] = [count |-> 1, into |-> Nobody]]
      BY <1>7, <2>1 DEF Insert
    <2>3. rows'[d].into = Nobody /\ \A c \in ClaimId \ {d} : rows'[c] = rows[c]
      BY <1>1, <2>2 DEF Rows
    <2>4. \A c \in ClaimId : rows[c] # NoRow /\ rows[c].into # Nobody => rows[c].into \in ClaimId
      BY <1>1 DEF Rows, Row
    <2> QED
      BY <1>4, <2>1, <2>3, <2>4, ForestStays
  <1>8. CASE Merge
    <2>1. PICK v, a \in ClaimId :
            /\ v # a /\ live[v] # NoNote /\ live[a] # NoNote
            /\ \A c \in ClaimId : rows[c] = NoRow => rows'[c] = NoRow
            /\ \A c \in ClaimId \ {v, a} : rows'[c] = rows[c]
            /\ rows[a] # NoRow => rows'[a] # NoRow /\ rows'[a].into = v
            /\ rows[v] # NoRow => rows'[v] # NoRow /\ rows'[v].into = rows[v].into
      BY <1>8, MergeEffect
    <2>2. AtWork = {}
      BY <1>8 DEF Merge
    <2>3. ~ Fresh(v) /\ ~ Fresh(a)
      BY <2>2, NothingUnderway
    <2>4. Live(v) /\ Live(a)
      BY <1>4, <2>1, <2>3 DEF Exact
    <2> QED
      BY <1>1, <1>4, <2>1, <2>4, ForestMerges DEF Live
  <1>9. ASSUME NEW s \in Source, Retract(s)  PROVE Forest(rows')
    <2>1. ASSUME NEW c \in ClaimId, rows'[c] # NoRow, rows'[c].into # Nobody
          PROVE  /\ rows[c] # NoRow /\ rows'[c].into = rows[c].into
                 /\ rows[rows[c].into] # NoRow => rows'[rows[c].into] # NoRow
      <3>1. Retracted(s) /\ rows[c] # NoRow /\ c \notin Owned(s)
        BY <1>9, <2>1, RetractForm DEF Retracted
      <3>2. rows'[c].into = IF c \in Unmerged(s) THEN Nobody ELSE rows[c].into
        BY <3>1 DEF Retracted
      <3>3. c \notin Unmerged(s) /\ rows'[c].into = rows[c].into
        BY <2>1, <3>2
      <3>4. rows[c].into \in ClaimId \ Owned(s)
        BY <1>1, <2>1, <3>1, <3>3 DEF Unmerged, Rows, Row
      <3>5. rows[rows[c].into] # NoRow => rows'[rows[c].into] \in Row
        BY <1>9, <3>4, RetractKeepsRow DEF Retract
      <3> QED
        BY <3>1, <3>3, <3>5, NullAssumption DEF NullAssumption
    <2> QED
      BY <1>4, <2>1, ForestStays
  <1>10. ASSUME NEW s \in Source, Dedup(s)  PROVE Forest(rows')
    <2>1. CASE \/ Begin(s) \/ (\E m \in ClaimId : Match(s, m)) \/ Attest(s) \/ Create(s)
               \/ Index(s) \/ End(s)
      BY <1>5, <2>1 DEF Begin, Match, Attest, Create, Index, End, corpus
    <2> QED
      BY <1>3, <1>6, <1>7, <1>10, <2>1 DEF Dedup
  <1> QED
    BY <1>3, <1>5, <1>8, <1>9, <1>10 DEF Next, Groom, MakePlan, Skip, corpus, vars

LEMMA ForestAlways ==
  ASSUME OneWriter
  PROVE  Spec => [](TypeInv /\ ForestInv)
  <1>1. TypeInv /\ SoundInv /\ ExactInv /\ ForestInv /\ [Next]_vars => ForestInv'
    BY ForestStep
  <1>2. Init => ForestInv
    <2>1. [c \in ClaimId |-> 0] \in [ClaimId -> Nat]
      OBVIOUS
    <2> QED
      BY <2>1 DEF Init, ForestInv, Forest, Down
  <1> QED
    BY <1>1, <1>2, ExactAlways, PTL DEF Spec

(* One dedup at a time and nothing killed: a claim that was groomed away   *)
(* leads to a live one, through any chain of merges and whatever was       *)
(* withdrawn between them.                                                 *)
THEOREM SurvivorsLive ==
  ASSUME OneWriter
  PROVE  Spec => []EverySurvivorLives
  <1>1. TypeInv /\ ForestInv => EverySurvivorLives
    <2>1. SUFFICES ASSUME TypeInv, Forest(rows), NEW c \in ClaimId, rows[c] # NoRow
                   PROVE  Live(resolve_live(rows, c))
      BY DEF ForestInv, EverySurvivorLives
    <2>2. rows \in Rows
      BY <2>1 DEF TypeInv, CorpusTypeOK, Rows
    <2> QED
      BY <2>1, <2>2, ResolveEnds DEF Live
  <1> QED
    BY <1>1, ForestAlways, PTL
-----------------------------------------------------------------------------
(* Support moves with a merge, and is taken away by retract alone. *)

(* What is withdrawn has no claims and is not at work.                     *)
GoneInv == \A s \in withdrawn : Owned(s) = {} /\ At(s, "idle")

LEMMA GoneStep ==
  ASSUME TypeInv, GoneInv, [Next]_vars,
         \A t \in Source : At(t, "insert") => work[t].claim = <<t, work[t].pos>>
  PROVE  GoneInv'
  <1>1. SUFFICES ASSUME NEW s \in Source, s \in withdrawn'
                 PROVE  At(s, "idle")' /\ \A c \in ClaimId : Owner(c) = s => rows'[c] = NoRow
    BY TypeStep DEF GoneInv, Owned, TypeInv, CorpusTypeOK
  <1>2. s \in withdrawn =>
          At(s, "idle") /\ \A c \in ClaimId : Owner(c) = s => rows[c] = NoRow
    BY DEF GoneInv, Owned
  <1>3. ASSUME NEW t \in Source, Begin(t)
        PROVE  At(s, "idle")' /\ \A c \in ClaimId : Owner(c) = s => rows'[c] = NoRow
    BY <1>1, <1>2, <1>3 DEF Begin, corpus, At, TypeInv, CorpusTypeOK
  <1>4. ASSUME NEW t \in Source, \/ \E m \in ClaimId : Match(t, m)
                                 \/ Attest(t) \/ Create(t) \/ Index(t)
        PROVE  At(s, "idle")' /\ \A c \in ClaimId : Owner(c) = s => rows'[c] = NoRow
    <2>1. withdrawn' = withdrawn /\ rows' = rows /\ ~ At(t, "idle")
          /\ work'[s] = IF s = t THEN work'[t] ELSE work[s]
      BY <1>4 DEF Match, Attest, Create, Index, corpus, At, TypeInv, CorpusTypeOK
    <2> QED
      BY <1>1, <1>2, <2>1 DEF At
  <1>5. ASSUME NEW t \in Source, Bump(t) \/ Insert(t)
        PROVE  At(s, "idle")' /\ \A c \in ClaimId : Owner(c) = s => rows'[c] = NoRow
    <2>1. /\ withdrawn' = withdrawn /\ ~ At(t, "idle")
          /\ work'[s] = IF s = t THEN work'[t] ELSE work[s]
      BY <1>5 DEF Bump, Insert, At, TypeInv, CorpusTypeOK
    <2>2. s # t
      BY <1>1, <1>2, <2>1
    <2>3. ASSUME NEW c \in ClaimId, Owner(c) = s  PROVE rows'[c] = rows[c]
      <3>1. CASE Bump(t)
        BY <1>1, <1>2, <2>1, <2>3, <3>1 DEF Bump, WithCount, TypeInv, CorpusTypeOK
      <3>2. CASE Insert(t)
        <4>1. work[t].claim = <<t, work[t].pos>>
          BY <3>2 DEF Insert
        <4>2. c # work[t].claim
          BY <2>2, <2>3, <4>1 DEF Owner
        <4> QED
          BY <3>2, <4>2 DEF Insert, TypeInv, CorpusTypeOK
      <3> QED
        BY <1>5, <3>1, <3>2
    <2> QED
      BY <1>1, <1>2, <2>1, <2>2, <2>3 DEF At
  <1>6. ASSUME NEW t \in Source, End(t) \/ Crash(t)
        PROVE  At(s, "idle")' /\ \A c \in ClaimId : Owner(c) = s => rows'[c] = NoRow
    BY <1>1, <1>2, <1>6 DEF End, Crash, corpus, Idle, At, TypeInv, CorpusTypeOK
  <1>7. CASE Groom \/ UNCHANGED vars
    <2>1. withdrawn' = withdrawn /\ work' = work
      BY <1>7 DEF Groom, MakePlan, Merge, Skip, MergeKilled, vars
    <2>2. \A c \in ClaimId : rows[c] = NoRow => rows'[c] = NoRow
      BY <1>7 DEF Groom, MakePlan, Merge, Skip, MergeKilled, MergeWrites, corpus, vars
    <2> QED
      BY <1>1, <1>2, <2>1, <2>2 DEF At
  <1>8. ASSUME NEW t \in Source, Retract(t) \/ RetractKilled(t)
        PROVE  At(s, "idle")' /\ \A c \in ClaimId : Owner(c) = s => rows'[c] = NoRow
    <2>1. AtWork = {} /\ work' = work
      BY <1>8 DEF Retract, RetractKilled
    <2>2. \A c \in ClaimId : rows[c] = NoRow => rows'[c] = NoRow
      BY <1>8, RetractKilledWrites DEF Retract, RetractWrites
    <2>3. Retract(t) => Retracted(t)
      BY RetractForm
    <2>4. s \in withdrawn \/ (s = t /\ Retracted(t))
      BY <1>1, <1>8, <2>3 DEF Retract, RetractKilled
    <2>5. \A c \in ClaimId : s = t /\ Retracted(t) /\ Owner(c) = s => rows'[c] = NoRow
      BY DEF Retracted, Owned
    <2> QED
      BY <1>2, <2>1, <2>2, <2>4, <2>5 DEF AtWork, At
  <1> QED
    BY <1>3, <1>4, <1>5, <1>6, <1>7, <1>8 DEF Next, Dedup

(* Who supports a claim, supports it afterwards where it leads.            *)
Supported(c, a) ==
  LET d == resolve_live(rows', c)
  IN  live'[d] # NoNote /\ \E b \in live'[d] : b.src = a.src

(* A live claim that stays one, with the attestations that were there.     *)
LEMMA SupportStays ==
  ASSUME TypeInv', NEW c \in ClaimId, NEW a, rows'[c] # NoRow, rows'[c].into = Nobody,
         live'[c] # NoNote, a \in live'[c]
  PROVE  Supported(c, a)
  <1>1. rows' \in Rows
    BY DEF TypeInv, CorpusTypeOK, Rows
  <1>2. Hop(rows', c) = c
    BY DEF Hop
  <1>3. resolve_live(rows', c) = c
    BY <1>1, <1>2, ResolveInOne
  <1> QED
    BY <1>3 DEF Supported

LEMMA SupportStep ==
  ASSUME OneWriter, TypeInv, SoundInv, PastInv, GoneInv, [Next]_vars,
         withdrawn' \subseteq withdrawn, killed' \subseteq {"dedup"},
         NEW c \in ClaimId, Live(c), live[c] # NoNote, NEW a \in live[c]
  PROVE  Supported(c, a)
  <1>1. TypeInv' /\ rows' \in Rows /\ rows \in Rows
    BY TypeStep DEF TypeInv, CorpusTypeOK, Rows
  <1>2. rows[c] # NoRow /\ rows[c].into = Nobody /\ rows[c] \in Row
    BY <1>1 DEF Live, Rows
  <1>0. /\ killed \subseteq {"dedup"}
        /\ ~ MergeKilled /\ \A s \in Source : ~ RetractKilled(s)
    BY NothingKilled
  <1>3. CASE UNCHANGED <<rows, live>>
    BY <1>1, <1>2, <1>3, SupportStays
  <1>4. ASSUME NEW s \in Source, Attest(s)  PROVE Supported(c, a)
    <2>1. PICK d \in ClaimId : /\ d = work[s].claim /\ live[d] = work[s].note
                               /\ live[d] # NoNote /\ live[d] \cup {Here(s)} # NoNote
      BY <1>4, AttestAdds
    <2>2. \/ live' = [live EXCEPT ![d] = live[d]]
          \/ live' = [live EXCEPT ![d] = live[d] \cup {Here(s)}]
      BY <1>4, <2>1 DEF Attest
    <2>3. live'[c] # NoNote /\ a \in live'[c]
      BY <2>1, <2>2 DEF TypeInv, CorpusTypeOK
    <2> QED
      BY <1>1, <1>2, <1>4, <2>3, SupportStays DEF Attest
  <1>5. ASSUME NEW s \in Source, Bump(s)  PROVE Supported(c, a)
    <2>1. rows' = rows \/ rows' = [rows EXCEPT ![work[s].claim].count = @ + 1]
      BY <1>5 DEF Bump, WithCount
    <2>2. rows'[c] # NoRow /\ rows'[c].into = Nobody
      <3>1. PICK r : r = [rows[c] EXCEPT !.count = rows[c].count + 1]
        OBVIOUS
      <3>2. r \in Row /\ r.into = Nobody
        BY <1>2, <3>1 DEF Row
      <3>3. rows'[c] = rows[c] \/ rows'[c] = r
        BY <1>1, <2>1, <3>1 DEF Rows
      <3> QED
        BY <1>2, <3>2, <3>3, NullAssumption DEF NullAssumption
    <2> QED
      BY <1>1, <1>5, <2>2, SupportStays DEF Bump
  <1>6. ASSUME NEW s \in Source, Create(s)  PROVE Supported(c, a)
    <2>1. c # <<s, work[s].pos>>
      BY <1>2, <1>6, RowIsFree DEF Create
    <2>2. live'[c] = live[c] /\ rows' = rows
      BY <1>6, <2>1 DEF Create, TypeInv, CorpusTypeOK
    <2> QED
      BY <1>1, <1>2, <2>2, SupportStays
  <1>7. ASSUME NEW s \in Source, Insert(s)  PROVE Supported(c, a)
    <2>1. rows[work[s].claim] = NoRow
      <3>1. At(s, "insert") /\ Candidates(s)
        BY <1>7 DEF Insert, At, TypeInv, Control
      <3>2. work[s].claim = <<s, work[s].pos>>
        BY <3>1 DEF SoundInv, Underway
      <3> QED
        BY <3>1, <3>2, RowIsFree
    <2>2. rows'[c] = rows[c] /\ live' = live
      BY <1>2, <1>7, <2>1 DEF Insert, TypeInv, CorpusTypeOK
    <2> QED
      BY <1>1, <1>2, <2>2, SupportStays
  <1>8. CASE Merge
    <2>1. PICK v, d \in ClaimId :
            /\ v # d /\ live[v] # NoNote /\ live[d] # NoNote
            /\ live' = [live EXCEPT ![v] = live[v] \cup New(v, d), ![d] = NoNote]
            /\ \A e \in ClaimId : rows[e] = NoRow => rows'[e] = NoRow
            /\ \A e \in ClaimId \ {v, d} : rows'[e] = rows[e]
            /\ rows[d] # NoRow => rows'[d] # NoRow /\ rows'[d].into = v
            /\ rows[v] # NoRow => rows'[v] # NoRow /\ rows'[v].into = rows[v].into
      BY <1>8, MergeEffect
    <2>2. /\ live'[v] = live[v] \cup New(v, d) /\ live'[v] # NoNote
          /\ \A e \in ClaimId \ {v, d} : live'[e] = live[e]
      BY <2>1, NewIsFinite, NullAssumption DEF NullAssumption, TypeInv, CorpusTypeOK
    <2>3. CASE c # d
      BY <1>1, <1>2, <2>1, <2>2, <2>3, SupportStays
    <2>4. CASE c = d
      <3>1. rows[v] # NoRow => rows[v].into = Nobody
        BY <1>0, <2>1 DEF SoundInv, Sound, Live
      <3>2. Hop(rows', c) = v /\ Hop(rows', v) = v
        BY <1>2, <2>1, <2>4, <3>1, NullAssumption DEF Hop, NullAssumption
      <3>3. resolve_live(rows', c) = v
        BY <1>1, <3>2, ResolveInOne
      <3>4. \E b \in live'[v] : b.src = a.src
        BY <2>2, <2>4 DEF New
      <3> QED
        BY <2>2, <3>3, <3>4 DEF Supported
    <2> QED
      BY <2>3, <2>4
  <1>9. ASSUME NEW s \in Source, Retract(s)  PROVE FALSE
    BY <1>9 DEF Retract, GoneInv
  <1>10. ASSUME NEW s \in Source, Dedup(s)  PROVE Supported(c, a)
    <2>1. CASE Begin(s) \/ (\E m \in ClaimId : Match(s, m)) \/ Index(s) \/ End(s) \/ Crash(s)
      BY <1>3, <2>1 DEF Begin, Match, Index, End, Crash, corpus
    <2> QED
      BY <1>4, <1>5, <1>6, <1>7, <1>10, <2>1 DEF Dedup
  <1>11. MakePlan \/ Skip \/ UNCHANGED vars => UNCHANGED <<rows, live>>
    BY DEF MakePlan, Skip, corpus, vars
  <1> QED
    BY <1>0, <1>3, <1>8, <1>9, <1>10, <1>11 DEF Next, Groom

(* One dedup at a time, killed anywhere or not, and no groom or retract    *)
(* cut short: a source that attests a live claim attests, after any step   *)
(* but a retraction, the claim that one leads to.                          *)
THEOREM SupportStaysWithClaims ==
  ASSUME OneWriter
  PROVE  Spec => SupportIsKept
  <1>1. TypeInv /\ SoundInv /\ PastInv /\ GoneInv /\ [Next]_vars
          => TypeInv' /\ SoundInv' /\ PastInv' /\ GoneInv'
    <2>1. SoundInv => \A t \in Source : At(t, "insert") => work[t].claim = <<t, work[t].pos>>
      BY DEF SoundInv, Underway
    <2> QED
      BY <2>1, TypeStep, SoundStep, PastStep, GoneStep
  <1>2. Init => GoneInv
    BY DEF Init, GoneInv
  <1>3. TypeInv /\ SoundInv /\ PastInv /\ GoneInv /\ [Next]_vars =>
          [withdrawn' \subseteq withdrawn /\ killed' \subseteq {"dedup"} =>
             \A c \in ClaimId : Live(c) /\ live[c] # NoNote =>
               \A a \in live[c] :
                 LET d == resolve_live(rows', c)
                 IN live'[d] # NoNote /\ \E b \in live'[d] : b.src = a.src]_vars
    BY SupportStep DEF Supported
  <1> QED
    BY TypeInit, SoundInit, <1>1, <1>2, <1>3, PTL DEF Spec, SupportIsKept
=============================================================================
