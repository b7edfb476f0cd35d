------------------------------- MODULE Corpus -------------------------------
(***************************************************************************)
(* The claims of the corpus: what dedup commits (handlers.py), what        *)
(* grooming merges (corpus_dedup.py) and what retract withdraws            *)
(* (retract.py).                                                           *)
(*                                                                         *)
(* A claim exists three times: as a row of `claims`, as a vector in        *)
(* `claims_vec` and as a note in the vault, under corpus/claims or, once   *)
(* groomed away, under corpus/claims/merged. Nothing ties them together    *)
(* but the order of the statements below, each of which is one commit.     *)
(*                                                                         *)
(* Of a note only its attestations are kept; one is identified by the      *)
(* source, the pass over it and the candidate it comes from. Whether two   *)
(* claims say the same is for a language model to judge, so the choice is  *)
(* arbitrary here. Texts, phrasings and the verdict cache are left out, as *)
(* are candidates without text, which dedup skips.                         *)
(***************************************************************************)
EXTENDS Naturals, Sequences, FiniteSets

CONSTANTS
  Source,          (* artifacts claims are extracted from                  *)
  AuthorOf,        (* source -> its author key, or NoAuthor                *)
  NoAuthor,        (* neither a From header nor a URL                      *)
  MaxCandidates,   (* bound: candidates in an extraction                   *)
  Sizes,           (* source -> how many candidates it may have            *)
  MaxRuns,         (* bound: source -> passes of dedup over it             *)
  MaxMerges,       (* bound: pairs in a plan                               *)
  MaxCrashes,      (* bound: processes killed half way                     *)
  OneWriter,       (* whether dedup runs for one source at a time          *)
  NoRow, NoNote, Nobody

ASSUME CorpusAssumption ==
  /\ IsFiniteSet(Source)
  /\ AuthorOf \in [Source -> {AuthorOf[s] : s \in Source}]
  /\ {MaxCandidates, MaxMerges, MaxCrashes} \subseteq Nat
  /\ MaxRuns \in [Source -> Nat]
  /\ Sizes \in [Source -> SUBSET (0..MaxCandidates)]
  /\ OneWriter \in BOOLEAN

Candidate == 1..MaxCandidates

(* The id of a claim is its source and its place in the extraction.        *)
ClaimId == Source \X Candidate
Owner(c) == c[1]

Attestation == [src : Source, run : UNION {1..MaxRuns[s] : s \in Source}, pos : Candidate]
Note == SUBSET Attestation

Row == [count : Nat \ {0}, into : ClaimId \cup {Nobody}]

(* What stands for nothing is nothing else.                                *)
ASSUME NullAssumption ==
  /\ Nobody \notin ClaimId
  /\ NoRow \notin Row
  /\ \A note \in Note : note # NoNote

VARIABLES
  rows,            (* the claims table: attestations and merged_into       *)
  vecs,            (* ids in claims_vec                                    *)
  live,            (* notes in corpus/claims                               *)
  merged,          (* notes in corpus/claims/merged                        *)
  work,            (* what dedup is doing for each source                  *)
  run,             (* passes of dedup begun, per source                    *)
  plan,            (* the merges still to apply                            *)
  file,            (* the plan they are left of, as it was saved           *)
  withdrawn,       (* history: sources retracted and not derived again     *)
  crashes,
  killed,          (* history: the commands that were killed               *)
  cut              (* history: sources whose retraction was killed and has *)
                   (* not been run again                                   *)

vars == <<rows, vecs, live, merged, work, run, plan, file, withdrawn, crashes, killed, cut>>
corpus == <<rows, vecs, live, merged>>

(* A pass over a source: its number of candidates, the one it is at, its   *)
(* next statement and, once a claim is chosen, that claim and its note as  *)
(* it was read.                                                            *)
Step == {"idle", "judge", "write", "bump", "insert", "index"}
Work == [step : Step, size : 0..MaxCandidates, pos : 1..(MaxCandidates + 1),
         claim : ClaimId \cup {Nobody}, note : Note]

Idle == [step |-> "idle", size |-> 0, pos |-> 1, claim |-> Nobody, note |-> {}]
Judging(n, p) == [step |-> "judge", size |-> n, pos |-> p, claim |-> Nobody, note |-> {}]

AtWork == {s \in Source : work[s].step # "idle"}
Owned(s) == {c \in ClaimId : Owner(c) = s /\ rows[c] # NoRow}
Live(c) == rows[c] # NoRow /\ rows[c].into = Nobody

(* resolve_live: merged_into followed until it ends. It ends within as     *)
(* many hops as there are claims, unless there is a cycle, which the code  *)
(* leaves and EverySurvivorLives excludes.                                 *)
Hop(R, c) == IF R[c] # NoRow /\ R[c].into # Nobody THEN R[c].into ELSE c
resolve_live(R, c) ==
  LET after[n \in Nat] == IF n = 0 THEN c ELSE Hop(R, after[n - 1])
  IN after[Cardinality(ClaimId)]

(* Mutant: the count is forgotten.                                         *)
WithCount_lost(c, n) == rows

WithCount(c, n) ==
  IF rows[c] = NoRow THEN rows ELSE [rows EXCEPT ![c].count = @ + n]

Init ==
  /\ rows = [c \in ClaimId |-> NoRow]
  /\ vecs = {}
  /\ live = [c \in ClaimId |-> NoNote]
  /\ merged = [c \in ClaimId |-> NoNote]
  /\ work = [s \in Source |-> Idle]
  /\ run = [s \in Source |-> 0]
  /\ plan = <<>> /\ file = <<>>
  /\ withdrawn = {}
  /\ crashes = 0 /\ killed = {} /\ cut = {}

-----------------------------------------------------------------------------
(* dedup.                                                                  *)

At(s, step) == work[s].step = step
Candidates(s) == work[s].pos <= work[s].size
Here(s) == [src |-> s, run |-> run[s], pos |-> work[s].pos]
Chosen(s, step, c, note) ==
  [step |-> step, size |-> work[s].size, pos |-> work[s].pos, claim |-> c, note |-> note]
NextCandidate(s) == Judging(work[s].size, work[s].pos + 1)

(* Mutant: a source that has claims is not refused.                        *)
Begin_unguarded(s) ==
  /\ At(s, "idle")
  /\ OneWriter => AtWork = {}
  /\ run[s] < MaxRuns[s]
  /\ \E n \in Sizes[s] : work' = [work EXCEPT ![s] = Judging(n, 1)]
  /\ run' = [run EXCEPT ![s] = @ + 1]
  /\ withdrawn' = withdrawn \ {s} /\ cut' = cut \ {s}
  /\ UNCHANGED <<corpus, plan, file, crashes, killed>>

(* It refuses a source that has claims, and starts with an extraction of   *)
(* any size, the last one or, when the stage was derived again, a new one. *)
Begin(s) ==
  /\ At(s, "idle")
  /\ OneWriter => AtWork = {}
  /\ run[s] < MaxRuns[s]
  /\ Owned(s) = {}
  /\ \E n \in Sizes[s] : work' = [work EXCEPT ![s] = Judging(n, 1)]
  /\ run' = [run EXCEPT ![s] = @ + 1]
  /\ withdrawn' = withdrawn \ {s} /\ cut' = cut \ {s}
  /\ UNCHANGED <<corpus, plan, file, crashes, killed>>

(* The model finds the candidate to say what the claim m says; the note of *)
(* the claim that has absorbed m is read.                                  *)
Match(s, m) ==
  /\ At(s, "judge") /\ Candidates(s)
  /\ m \in vecs /\ rows[m] # NoRow
  /\ \E c \in ClaimId :
       /\ c = resolve_live(rows, m)
       /\ live[c] # NoNote
       /\ work' = [work EXCEPT ![s] = Chosen(s, "write", c, live[c])]
  /\ UNCHANGED <<corpus, run, plan, file, withdrawn, crashes, killed, cut>>

SameAuthor(a, b) == AuthorOf[a] = AuthorOf[b] /\ AuthorOf[a] # NoAuthor

(* An author who attests the claim already does not corroborate it.        *)
Emphasis(s) == \E a \in work[s].note : SameAuthor(a.src, s)

(* Mutant: the attestation takes the place of those that were there.       *)
Attest_replaces(s) ==
  /\ At(s, "write")
  /\ live' = [live EXCEPT ![work[s].claim] = {Here(s)}]
  /\ work' = [work EXCEPT ![s].step = "bump"]
  /\ UNCHANGED <<rows, vecs, merged, run, plan, file, withdrawn, crashes, killed, cut>>

(* The note as read is written back, with the attestation.                 *)
Attest(s) ==
  /\ At(s, "write")
  /\ LET w == work[s]
     IN IF Emphasis(s)
        THEN /\ live' = [live EXCEPT ![w.claim] = w.note]
             /\ work' = [work EXCEPT ![s] = NextCandidate(s)]
        ELSE /\ live' = [live EXCEPT ![w.claim] = w.note \cup {Here(s)}]
             /\ work' = [work EXCEPT ![s].step = "bump"]
  /\ UNCHANGED <<rows, vecs, merged, run, plan, file, withdrawn, crashes, killed, cut>>

Bump(s) ==
  /\ At(s, "bump")
  /\ rows' = WithCount(work[s].claim, 1)
  /\ work' = [work EXCEPT ![s] = NextCandidate(s)]
  /\ UNCHANGED <<vecs, live, merged, run, plan, file, withdrawn, crashes, killed, cut>>

(* Nothing in the index says the same: a new claim, its note first.        *)
Create(s) ==
  /\ At(s, "judge") /\ Candidates(s)
  /\ LET c == <<s, work[s].pos>>
     IN /\ live' = [live EXCEPT ![c] = {Here(s)}]
        /\ work' = [work EXCEPT ![s] = Chosen(s, "insert", c, {})]
  /\ UNCHANGED <<rows, vecs, merged, run, plan, file, withdrawn, crashes, killed, cut>>

(* Mutant: the source itself is not counted.                               *)
Insert_uncounted(s) ==
  /\ At(s, "insert")
  /\ rows' = [rows EXCEPT ![work[s].claim] = [count |-> 0, into |-> Nobody]]
  /\ work' = [work EXCEPT ![s].step = "index"]
  /\ UNCHANGED <<vecs, live, merged, run, plan, file, withdrawn, crashes, killed, cut>>

Insert(s) ==
  /\ At(s, "insert")
  /\ rows' = [rows EXCEPT ![work[s].claim] = [count |-> 1, into |-> Nobody]]
  /\ work' = [work EXCEPT ![s].step = "index"]
  /\ UNCHANGED <<vecs, live, merged, run, plan, file, withdrawn, crashes, killed, cut>>

Index(s) ==
  /\ At(s, "index")
  /\ vecs' = vecs \cup {work[s].claim}
  /\ work' = [work EXCEPT ![s] = NextCandidate(s)]
  /\ UNCHANGED <<rows, live, merged, run, plan, file, withdrawn, crashes, killed, cut>>

(* The stage ends: it has committed, or a model call, the reading of a     *)
(* note or git has raised. What is written so far stays.                   *)
End(s) ==
  /\ At(s, "judge")
  /\ work' = [work EXCEPT ![s] = Idle]
  /\ UNCHANGED <<corpus, run, plan, file, withdrawn, crashes, killed, cut>>

(* The process is killed between two statements, or one of them raises:    *)
(* either way the rest of the pass is not written.                         *)
Crash(s) ==
  /\ ~ At(s, "idle")
  /\ crashes < MaxCrashes
  /\ crashes' = crashes + 1 /\ killed' = killed \cup {"dedup"}
  /\ work' = [work EXCEPT ![s] = Idle]
  /\ UNCHANGED <<corpus, run, plan, file, withdrawn, cut>>

-----------------------------------------------------------------------------
(* groom. A plan is saved and applied later, when the corpus may have      *)
(* changed. Operators groom and retract while no dedup is under way.       *)

Indexed == {c \in vecs : rows[c] # NoRow /\ rows[c].into = Nobody}

(* plan_merges goes through the live claims and gives each at most one     *)
(* survivor that is not itself absorbed so far.                            *)
Plans ==
  {p \in UNION {[1..n -> Indexed \X Indexed] : n \in 1..MaxMerges} :
     /\ \A i \in DOMAIN p : p[i][1] # p[i][2]
     /\ \A i, j \in DOMAIN p : i < j => p[i][2] \notin {p[j][1], p[j][2]}}

MakePlan ==
  /\ AtWork = {}
  /\ plan = <<>>
  /\ plan' \in Plans /\ file' = plan'
  /\ UNCHANGED <<corpus, work, run, withdrawn, crashes, killed, cut>>

(* The first n of the five writes of a pair: the survivor's note gains the *)
(* attestations of sources it has none of, the absorbed note is written    *)
(* under merged/ and unlinked, the one row counts and the other points.    *)
MergeWrites(n) ==
  LET v == Head(plan)[1]
      a == Head(plan)[2]
      new == {x \in live[a] : \A y \in live[v] : y.src # x.src}
  IN /\ live[v] # NoNote /\ live[a] # NoNote
     /\ live' = [c \in ClaimId |-> IF c = v /\ n >= 1 THEN live[v] \cup new
                                   ELSE IF c = a /\ n >= 3 THEN NoNote ELSE live[c]]
     /\ merged' = [c \in ClaimId |-> IF c = a /\ n >= 2 THEN live[a] ELSE merged[c]]
     /\ rows' = [c \in ClaimId |->
                   IF rows[c] = NoRow THEN NoRow
                   ELSE IF c = v /\ n >= 4 THEN [rows[v] EXCEPT !.count = @ + Cardinality(new)]
                   ELSE IF c = a /\ n = 5 THEN [rows[a] EXCEPT !.into = v]
                   ELSE rows[c]]

(* On to the next pair; a plan that was applied to its end is done with.   *)
NextPair ==
  /\ plan' = Tail(plan)
  /\ file' = IF Tail(plan) = <<>> THEN <<>> ELSE file

(* One pair of apply_merges.                                               *)
Merge ==
  /\ AtWork = {} /\ plan # <<>>
  /\ NextPair
  /\ MergeWrites(5)
  /\ UNCHANGED <<vecs, work, run, withdrawn, crashes, killed, cut>>

(* A pair one of whose notes is gone is passed over.                       *)
Skip ==
  /\ AtWork = {} /\ plan # <<>>
  /\ NoNote \in {live[Head(plan)[1]], live[Head(plan)[2]]}
  /\ NextPair
  /\ UNCHANGED <<corpus, work, run, withdrawn, crashes, killed, cut>>

(* groom is killed after some write of a plan and before one. The plan is  *)
(* applied again from its file or, if it has none, is forgotten.           *)
MergeKilled ==
  /\ AtWork = {} /\ plan # <<>> /\ crashes < MaxCrashes
  /\ crashes' = crashes + 1 /\ killed' = killed \cup {"groom"}
  /\ \E n \in 0..4 : (n > 0 \/ plan # file) /\ MergeWrites(n)
  /\ \/ plan' = file /\ UNCHANGED file
     \/ plan' = <<>> /\ file' = <<>>
  /\ UNCHANGED <<vecs, work, run, withdrawn, cut>>

-----------------------------------------------------------------------------
(* retract.                                                                *)

(* Mutant: what its claims have absorbed stays absorbed.                   *)
Unmerged_none(s) == {}

(* Claims of others that claims of s have absorbed, and claims of others   *)
(* that have absorbed claims of s.                                         *)
Unmerged(s) == {c \in ClaimId \ Owned(s) : rows[c] # NoRow /\ rows[c].into \in Owned(s)}
Survivors(s) == {c \in ClaimId \ Owned(s) : \E o \in Owned(s) : rows[o].into = c}

(* Mutant: the note of a claim that is un-merged is not moved back.        *)
Restored_row_only(s, c) == live[c]

Restored(s, c) == IF c \in Unmerged(s) /\ merged[c] # NoNote THEN merged[c] ELSE live[c]
Kept(s, c) == {a \in Restored(s, c) : a.src # s}

(* Mutant: only the claims that have absorbed its own are cleaned.         *)
Detached_survivors(s) ==
  {c \in Survivors(s) : Restored(s, c) # NoNote /\ Kept(s, c) # Restored(s, c)}

(* The notes it takes attestations of s out of: _detach_attestations goes  *)
(* through the live rows and empties no note, _clean_survivor may.         *)
Detached(s) ==
  {c \in ClaimId \ Owned(s) :
     /\ Live(c) \/ c \in Unmerged(s) \cup Survivors(s)
     /\ Restored(s, c) # NoNote
     /\ Kept(s, c) # Restored(s, c)
     /\ Kept(s, c) # {} \/ c \in Survivors(s)}

(* Mutant: the notes are stripped and the count stays.                     *)
Less_nothing(n, d) == n

Less(n, d) == IF n > d THEN n - d ELSE 1

(* Its statements, in the order in which they come to one claim: one that  *)
(* was absorbed is restored, one that holds attestations of s is cleaned,  *)
(* one that s owns is removed.                                             *)
Rank == [restore |-> 1, move |-> 2, unmerge |-> 3, strip |-> 4, lower |-> 5,
              unlink |-> 6, unput |-> 7, delete |-> 8, unindex |-> 9]
Restoring == {"restore", "move", "unmerge"}
Cleaning == {"strip", "lower"}
Removing == {"unlink", "unput", "delete", "unindex"}

Writes(s) ==
  (Restoring \X Unmerged(s)) \cup (Cleaning \X Detached(s)) \cup (Removing \X Owned(s))

(* The corpus after the writes W of them.                                  *)
RetractWrites(s, W) ==
  /\ live' = [c \in ClaimId |->
                IF <<"unlink", c>> \in W THEN NoNote
                ELSE IF <<"strip", c>> \in W THEN Kept(s, c)
                ELSE IF <<"restore", c>> \in W THEN Restored(s, c) ELSE live[c]]
  /\ merged' = [c \in ClaimId |->
                  IF <<"move", c>> \in W \/ <<"unput", c>> \in W THEN NoNote ELSE merged[c]]
  /\ rows' = [c \in ClaimId |->
                IF <<"delete", c>> \in W \/ rows[c] = NoRow THEN NoRow
                ELSE [count |-> IF <<"lower", c>> \in W
                                THEN Less(rows[c].count, Cardinality(Restored(s, c) \ Kept(s, c)))
                                ELSE rows[c].count,
                      into |-> IF <<"unmerge", c>> \in W THEN Nobody ELSE rows[c].into]]
  /\ vecs' = {c \in vecs : <<"unindex", c>> \notin W}

(* For a source that owns no claims the command says so and changes        *)
(* nothing, although its attestations may be on the notes of others.       *)
Retract(s) ==
  /\ AtWork = {} /\ Owned(s) # {}
  /\ withdrawn' = withdrawn \cup {s} /\ cut' = cut \ {s}
  /\ RetractWrites(s, Writes(s))
  /\ UNCHANGED <<work, run, plan, file, crashes, killed>>

(* The claims of s come in the order of their rows: what each has absorbed *)
(* is restored, what has absorbed it is cleaned, and it is removed. The    *)
(* live claims nobody had to clean so far are cleaned in the end.          *)
CleanedFor(s, c) ==
  {o \in Owned(s) : rows[o].into = c /\ (c \in Unmerged(s) => rows[c].into[2] <= o[2])}
TurnOf(s, w) ==
  IF w[1] \in Removing THEN w[2][2]
  ELSE IF w[1] \in Restoring THEN rows[w[2]].into[2]
  ELSE LET turns == {o[2] : o \in CleanedFor(s, w[2])} \cup {MaxCandidates + 1}
       IN CHOOSE t \in turns : \A u \in turns : t <= u
PlaceOf(s, w) ==
  3 * TurnOf(s, w) + (IF w[1] \in Restoring THEN 0 ELSE IF w[1] \in Cleaning THEN 1 ELSE 2)

(* What is written before w. Of claims that are treated alike in one place *)
(* some are done, in an order the code leaves to the database.             *)
Alike(s, w) ==
  {c \in ClaimId \ {w[2]} : \E x \in Writes(s) : x[2] = c /\ PlaceOf(s, x) = PlaceOf(s, w)}
WrittenBefore(s, w, done) ==
  {x \in Writes(s) :
     \/ PlaceOf(s, x) < PlaceOf(s, w)
     \/ /\ PlaceOf(s, x) = PlaceOf(s, w)
        /\ x[2] \in done \/ (x[2] = w[2] /\ Rank[x[1]] < Rank[w[1]])}

(* retract is killed, or raises, after some of its writes and before one.  *)
RetractKilled(s) ==
  /\ AtWork = {} /\ Owned(s) # {} /\ crashes < MaxCrashes
  /\ crashes' = crashes + 1 /\ killed' = killed \cup {"retract"} /\ cut' = cut \cup {s}
  /\ \E w \in Writes(s) : \E done \in SUBSET Alike(s, w) :
       /\ WrittenBefore(s, w, done) # {}
       /\ RetractWrites(s, WrittenBefore(s, w, done))
  /\ UNCHANGED <<work, run, plan, file, withdrawn>>

-----------------------------------------------------------------------------
Dedup(s) ==
  \/ Begin(s) \/ (\E m \in ClaimId : Match(s, m)) \/ Attest(s) \/ Bump(s)
  \/ Create(s) \/ Insert(s) \/ Index(s) \/ End(s) \/ Crash(s)

Groom == MakePlan \/ Merge \/ Skip \/ MergeKilled

Next == Groom \/ \E s \in Source : Dedup(s) \/ Retract(s) \/ RetractKilled(s)

Spec == Init /\ [][Next]_vars
-----------------------------------------------------------------------------
(* What the corpus promises.                                               *)

CorpusTypeOK ==
  /\ rows \in [ClaimId -> Row \cup {NoRow}]
  /\ vecs \subseteq ClaimId
  /\ live \in [ClaimId -> {NoNote} \cup Note]
  /\ merged \in [ClaimId -> {NoNote} \cup Note]
  /\ work \in [Source -> Work]
  /\ run \in [Source -> Nat] /\ \A s \in Source : run[s] <= MaxRuns[s]
  /\ {plan, file} \subseteq Seq(ClaimId \X ClaimId)
  /\ withdrawn \subseteq Source /\ cut \subseteq Source
  /\ crashes \in 0..MaxCrashes
  /\ killed \subseteq {"dedup", "groom", "retract"}

(* The note of a claim, where its row says it is and wherever it is.       *)
NoteOf(c) == IF Live(c) THEN live[c] ELSE merged[c]
Shown(c) == IF live[c] # NoNote THEN live[c] ELSE merged[c]

(* Whatever fails and whatever is groomed, derived again or withdrawn, the *)
(* note of every row is where its row says, among the live notes or the    *)
(* merged ones, even if dedup is killed at any statement: nothing that     *)
(* reads a row can miss its note (the crash the test of resolve_live       *)
(* recalls). A groom or retract that is killed may leave it in the other   *)
(* place, but no row is left without a note, except those of the source    *)
(* whose retraction was killed, until that is run again.                   *)
RowsHaveNotes ==
  \A c \in ClaimId : rows[c] # NoRow =>
    /\ killed \subseteq {"dedup"} => NoteOf(c) # NoNote
    /\ Owner(c) \notin cut => Shown(c) # NoNote

(* A claim never counts more corroboration than its note can show, unless  *)
(* a retract was killed, which strips the note before it lowers the count. *)
(* dedup and groom count after they have written, and only what they add,  *)
(* so the kill of either leaves the count behind at worst.                 *)
CountNeverAhead ==
  "retract" \notin killed =>
    \A c \in ClaimId : rows[c] # NoRow => rows[c].count <= Cardinality(Shown(c))

(* The note of a claim keeps an attestation of the source that owns it,    *)
(* through any merge, retraction and kill, so that retract's refusal to    *)
(* empty a note never leaves the attestation of the withdrawn source on    *)
(* the note of a row. Only a retraction of the owner itself takes it away. *)
ClaimsKeepTheirOrigin ==
  \A c \in ClaimId : rows[c] # NoRow /\ Owner(c) \notin cut /\ Shown(c) # NoNote =>
    \E a \in Shown(c) : a.src = Owner(c)

(* As long as nothing was killed, then whenever no dedup is under way rows,*)
(* vectors and notes are the same claims, live where the others are live,  *)
(* and each row's count is its note's number of attestations.              *)
NotesAgreeWithRows ==
  killed = {} /\ AtWork = {} =>
    \A c \in ClaimId :
      /\ live[c] # NoNote <=> Live(c)
      /\ merged[c] # NoNote <=> rows[c] # NoRow /\ ~ Live(c)
      /\ c \in vecs <=> rows[c] # NoRow
      /\ rows[c] # NoRow => rows[c].count = Cardinality(NoteOf(c))

(* A claim that was groomed away leads to a live claim, over any chain of  *)
(* merges and retractions, unless something was killed.                    *)
EverySurvivorLives ==
  killed = {} => \A c \in ClaimId : rows[c] # NoRow => Live(resolve_live(rows, c))

(* Deriving again, corroborating and grooming lose no support: a source    *)
(* that attests a claim attests, afterwards, the claim that has absorbed   *)
(* it, even if dedup is killed. Only retract takes attestations away, and  *)
(* a groom that is killed may hide them in the note it was moving.         *)
SupportIsKept ==
  [][withdrawn' \subseteq withdrawn /\ killed' \subseteq {"dedup"} =>
       \A c \in ClaimId : Live(c) /\ live[c] # NoNote =>
         \A a \in live[c] :
           LET d == resolve_live(rows', c)
           IN live'[d] # NoNote /\ \E b \in live'[d] : b.src = a.src]_vars

TraceFree(s) ==
  \A c \in ClaimId :
    /\ Owner(c) = s => rows[c] = NoRow /\ c \notin vecs /\ live[c] = NoNote /\ merged[c] = NoNote
    /\ live[c] # NoNote => \A a \in live[c] : a.src # s

(* When a source that owns claims is withdrawn, no row, vector or note of  *)
(* it is left, and no live note that it attests, unless something was      *)
(* killed. (Of one that owns none but attests those of others, retract     *)
(* withdraws nothing: the premise is not met, and it is not silenced.)     *)
RetractionOfClaimsIsComplete ==
  [][killed' = {} =>
       \A s \in Source : Owned(s) # {} /\ Owned(s)' = {} => TraceFree(s)']_vars

(* A withdrawn source corroborates nothing until it is derived again.      *)
WithdrawnStaysSilent ==
  killed = {} =>
    \A s \in withdrawn, c \in ClaimId :
      live[c] # NoNote => \A a \in live[c] : a.src # s
=============================================================================
