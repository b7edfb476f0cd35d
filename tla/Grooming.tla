------------------------------ MODULE Grooming ------------------------------
(***************************************************************************)
(* `pipeline groom` (corpus_dedup.py) statement by statement, over the     *)
(* corpus of Corpus and next to its dedup and retract: the verdicts are    *)
(* fetched in parallel, a greedy planner reads them, and the plan is       *)
(* applied pair by pair, note by note and row by row.                      *)
(*                                                                         *)
(* Corpus has one step for a plan and one for a pair, killed or not; this  *)
(* module says which plans the planner makes, what a model call that fails *)
(* does to them, and takes a pair write by write. As there, nobody         *)
(* derives, withdraws or grooms while a pair is at work. A retract that is *)
(* killed is left to Corpus.                                               *)
(*                                                                         *)
(* What is near what is a constant, and no two claims are equally near.    *)
(* Claims of one second, which the code takes in the order of their ids,   *)
(* are taken in that of their rows. --author, which looks at fewer claims, *)
(* and costs are left out.                                                 *)
(***************************************************************************)
EXTENDS Corpus

CONSTANTS
  Judge,           (* prompt versions of dedup_confirm                     *)
  Threshold,       (* values of --max-distance                             *)
  Distance,        (* Distance[c][m]: how far m is from c                  *)
  ShortlistK       (* neighbours looked at                                 *)

(* There are plans of any length the planner may come to.                  *)
ASSUME GroomingAssumption ==
  /\ Threshold \subseteq Nat
  /\ Distance \in [ClaimId -> [ClaimId -> Nat]]
  /\ \A c \in ClaimId : \A m, n \in ClaimId \ {c} : m # n => Distance[c][m] # Distance[c][n]
  /\ ShortlistK \in Nat
  /\ MaxMerges >= Cardinality(ClaimId)

VARIABLES
  older,           (* <<c, d>>: the row of c has the earlier created_at    *)
  verdicts,        (* dedup_verdicts: <<judge, neighbour, claim, same>>    *)
  groom            (* the groom command under way                          *)

groomVars == <<verdicts, groom>>
groomed == <<vars, older, groomVars>>

(* Its next statement; how it judges; the pairs it still has to ask for,   *)
(* whether a call has failed and whether it had to ask again; the claims   *)
(* still to examine, the one under examination, the neighbours left of it, *)
(* and the pairs found; the two notes of a pair as read, and (history)     *)
(* what was under merged/ then.                                            *)
AtRest == [step |-> "rest", judge |-> Nobody, near |-> Nobody, todo |-> {},
           failed |-> FALSE, asked |-> FALSE, left |-> {}, claim |-> Nobody, around |-> {},
           pairs |-> << >>, survivor |-> {}, absorbed |-> {}, under |-> NoNote]

GroomInit ==
  /\ Init
  /\ older = {} /\ verdicts = {} /\ groom = AtRest

On(step) == groom.step = step
Free == AtWork = {} /\ On("rest")
-----------------------------------------------------------------------------
(* What the model is asked about *)

LiveClaims == {c \in ClaimId : Live(c)}

(* The shortlist of the vector index, rows that are gone passed over. The  *)
(* vector of a claim that was groomed away is in it.                       *)
Closer(c, m) == {n \in vecs \ {c} : Distance[c][n] < Distance[c][m]}
Neighbours(c, t) ==
  {m \in vecs \ {c} : /\ c \in vecs /\ rows[m] # NoRow
                     /\ Cardinality(Closer(c, m)) < ShortlistK
                     /\ Distance[c][m] <= t}

Verdict(j, m, c) == {same \in BOOLEAN : <<j, m, c, same>> \in verdicts}

(* Mutant: only neighbours older than the claim.                           *)
CandidatePairs_older(t) ==
  {p \in older : Live(p[2]) /\ p[1] \in Neighbours(p[2], t)}

(* candidate_pairs: neighbour first.                                       *)
CandidatePairs(t) ==
  {p \in ClaimId \X ClaimId : Live(p[2]) /\ p[1] \in Neighbours(p[2], t)}
-----------------------------------------------------------------------------
(* warm_cache *)

Warm(j, t) ==
  /\ Free /\ plan = << >>
  /\ groom' = [AtRest EXCEPT !.step = "warm", !.judge = j, !.near = t,
                 !.todo = {p \in CandidatePairs(t) : Verdict(j, p[1], p[2]) = {}}]
  /\ UNCHANGED <<vars, older, verdicts>>

(* The answers come in any order, each is one row, and some never come.    *)
Judged(p, same) ==
  /\ On("warm") /\ p \in groom.todo
  /\ verdicts' = verdicts \cup {<<groom.judge, p[1], p[2], same>>}
  /\ groom' = [groom EXCEPT !.todo = @ \ {p}]
  /\ UNCHANGED <<vars, older>>

NotJudged(p) ==
  /\ On("warm") /\ p \in groom.todo
  /\ groom' = [groom EXCEPT !.todo = @ \ {p}, !.failed = TRUE]
  /\ UNCHANGED <<vars, older, verdicts>>

Warmed ==
  /\ On("warm") /\ groom.todo = {}
  /\ groom' = [groom EXCEPT !.step = "claim", !.left = LiveClaims]
  /\ UNCHANGED <<vars, older, verdicts>>
-----------------------------------------------------------------------------
(* plan_merges *)

Absorbed == {groom.pairs[i][2] : i \in DOMAIN groom.pairs}

(* ORDER BY created_at. One that is absorbed has no turn.                  *)
Examine(c) ==
  /\ On("claim") /\ c \in groom.left
  /\ \A d \in groom.left : <<d, c>> \notin older
  /\ groom' = [groom EXCEPT !.step = "neighbour", !.claim = c, !.left = @ \ {c},
                 !.around = IF c \in Absorbed THEN {} ELSE Neighbours(c, groom.near)]
  /\ UNCHANGED <<vars, older, verdicts>>

(* Closest first.                                                          *)
Turn(m) ==
  /\ On("neighbour") /\ m \in groom.around
  /\ \A n \in groom.around : Distance[groom.claim][m] <= Distance[groom.claim][n]

(* Mutant: what this plan has absorbed is compared with all the same.      *)
Passes_unmerged(m) == ~Live(m)

Passes(m) == m \in Absorbed \/ ~Live(m)

PassOver(m) ==
  /\ Turn(m) /\ Passes(m)
  /\ groom' = [groom EXCEPT !.around = @ \ {m}]
  /\ UNCHANGED <<vars, older, verdicts>>

(* One neighbour: the verdict that is there, or the model's. A claim that  *)
(* is the same as one is compared with no more.                            *)
Compare(m, same) ==
  /\ Turn(m) /\ ~Passes(m)
  /\ LET known == Verdict(groom.judge, m, groom.claim)
     IN  /\ known # {} => same \in known
         /\ verdicts' = verdicts \cup {<<groom.judge, m, groom.claim, same>>}
         /\ groom' = [groom EXCEPT
                        !.pairs = IF same THEN Append(@, <<m, groom.claim>>) ELSE @,
                        !.around = IF same THEN {} ELSE @ \ {m},
                        !.asked = @ \/ known = {}]
  /\ UNCHANGED <<vars, older>>

NoneLeft ==
  /\ On("neighbour") /\ groom.around = {}
  /\ groom' = [groom EXCEPT !.step = "claim", !.claim = Nobody]
  /\ UNCHANGED <<vars, older, verdicts>>

(* The plan is saved, or goes straight on to be applied.                   *)
Planned ==
  /\ On("claim") /\ groom.left = {}
  /\ plan' = groom.pairs /\ file' = groom.pairs
  /\ groom' = AtRest
  /\ UNCHANGED <<corpus, work, run, withdrawn, crashes, killed, cut, older, verdicts>>

(* A model call of the planner raises, or the command is killed: the       *)
(* verdicts stay.                                                          *)
GivesUp ==
  /\ groom.step \in {"warm", "claim", "neighbour"}
  /\ groom' = AtRest
  /\ UNCHANGED <<vars, older, verdicts>>
-----------------------------------------------------------------------------
(* apply_merges: Head(plan) is the pair at hand *)

Survivor == Head(plan)[1]
Loser == Head(plan)[2]
Gained == {x \in groom.absorbed : \A y \in groom.survivor : y.src # x.src}
Statement(step, next) == On(step) /\ groom' = [groom EXCEPT !.step = next]

PairGone ==
  /\ Free /\ plan # << >>
  /\ NoNote \in {live[Survivor], live[Loser]}
  /\ NextPair
  /\ UNCHANGED <<corpus, work, run, withdrawn, crashes, killed, cut, older, groomVars>>

ReadPair ==
  /\ Free /\ plan # << >>
  /\ NoNote \notin {live[Survivor], live[Loser]}
  /\ groom' = [AtRest EXCEPT !.step = "survivor",
                             !.survivor = live[Survivor], !.absorbed = live[Loser],
                             !.under = merged[Loser]]
  /\ UNCHANGED <<vars, older, verdicts>>

WriteSurvivor ==
  /\ Statement("survivor", "move")
  /\ live' = [live EXCEPT ![Survivor] = groom.survivor \cup Gained]
  /\ UNCHANGED <<rows, vecs, merged, work, run, plan, file, withdrawn, crashes, killed,
                 cut, older, verdicts>>

(* Mutant: the attestations move to the survivor instead of being copied.  *)
WriteMerged_stripped ==
  /\ Statement("move", "unlink")
  /\ merged' = [merged EXCEPT ![Loser] = groom.absorbed \ Gained]
  /\ UNCHANGED <<rows, vecs, live, work, run, plan, file, withdrawn, crashes, killed,
                 cut, older, verdicts>>

WriteMerged ==
  /\ Statement("move", "unlink")
  /\ merged' = [merged EXCEPT ![Loser] = groom.absorbed]
  /\ UNCHANGED <<rows, vecs, live, work, run, plan, file, withdrawn, crashes, killed,
                 cut, older, verdicts>>

Unlink ==
  /\ Statement("unlink", "count")
  /\ live' = [live EXCEPT ![Loser] = NoNote]
  /\ UNCHANGED <<rows, vecs, merged, work, run, plan, file, withdrawn, crashes, killed,
                 cut, older, verdicts>>

CountGained ==
  /\ Statement("count", "mark")
  /\ rows' = WithCount(Survivor, Cardinality(Gained))
  /\ UNCHANGED <<vecs, live, merged, work, run, plan, file, withdrawn, crashes, killed,
                 cut, older, verdicts>>

MarkAbsorbed ==
  /\ On("mark") /\ groom' = AtRest
  /\ rows' = IF rows[Loser] = NoRow THEN rows ELSE [rows EXCEPT ![Loser].into = Survivor]
  /\ NextPair
  /\ UNCHANGED <<vecs, live, merged, work, run, withdrawn, crashes, killed, cut, older, verdicts>>

(* It is killed after some write of a plan and before one.                 *)
GroomKilled ==
  /\ groom.step \in {"survivor", "move", "unlink", "count", "mark"}
  /\ ~On("survivor") \/ plan # file
  /\ crashes < MaxCrashes
  /\ crashes' = crashes + 1 /\ killed' = killed \cup {"groom"}
  /\ \/ plan' = file /\ UNCHANGED file
     \/ plan' = << >> /\ file' = << >>
  /\ groom' = AtRest
  /\ UNCHANGED <<corpus, work, run, withdrawn, cut, older, verdicts>>
-----------------------------------------------------------------------------
GroomCommand ==
  \/ \E j \in Judge, t \in Threshold : Warm(j, t)
  \/ \E p \in ClaimId \X ClaimId : NotJudged(p) \/ \E same \in BOOLEAN : Judged(p, same)
  \/ \E c \in ClaimId : Examine(c) \/ PassOver(c) \/ \E same \in BOOLEAN : Compare(c, same)
  \/ Warmed \/ NoneLeft \/ Planned \/ GivesUp
  \/ PairGone \/ ReadPair \/ WriteSurvivor \/ WriteMerged \/ Unlink \/ CountGained
  \/ MarkAbsorbed \/ GroomKilled

(* What dedup and retract do to the order of the claims: a row that is     *)
(* inserted is the latest, and none that is gone has an age.               *)
Dated(c) ==
  {p \in older : c \notin {p[1], p[2]}} \cup {d \in ClaimId \ {c} : rows[d] # NoRow} \X {c}

Derive(s) ==
  /\ On("rest") /\ Dedup(s)
  /\ older' = IF At(s, "insert") /\ At(s, "index")' THEN Dated(work[s].claim) ELSE older
  /\ UNCHANGED groomVars

Withdraw(s) ==
  /\ On("rest") /\ Retract(s)
  /\ older' = {p \in older : rows'[p[1]] # NoRow /\ rows'[p[2]] # NoRow}
  /\ UNCHANGED groomVars

GroomNext == GroomCommand \/ \E s \in Source : Derive(s) \/ Withdraw(s)

GroomSpec == GroomInit /\ [][GroomNext]_groomed
-----------------------------------------------------------------------------
(* Properties *)

(* A pass whose calls have all been answered in parallel plans off the     *)
(* cache: the planner asks for no verdict that was not asked for before.   *)
WarmedPlansAreFree == groom.asked => groom.failed

(* A pair that is half merged is, to Corpus, not merged: its notes are as  *)
(* they were read, and nothing has been counted.                           *)
LiveBefore ==
  IF groom.step \in {"move", "unlink", "count", "mark"}
  THEN [live EXCEPT ![Survivor] = groom.survivor, ![Loser] = groom.absorbed] ELSE live
MergedBefore ==
  IF groom.step \in {"unlink", "count", "mark"}
  THEN [merged EXCEPT ![Loser] = groom.under] ELSE merged
RowsBefore ==
  IF On("mark") /\ rows[Survivor] # NoRow
  THEN [rows EXCEPT ![Survivor].count = @ - Cardinality(Gained)] ELSE rows

Before ==
  INSTANCE Corpus WITH live <- LiveBefore, merged <- MergedBefore, rows <- RowsBefore

(* The groom command does what Corpus has it do: it makes one of its       *)
(* plans, in which nothing that has been absorbed is merged again, applies *)
(* it pair by pair and, wherever it is killed within one, leaves what      *)
(* Corpus says such a kill leaves.                                         *)
ImplementsCorpus == Before!Spec

(* What the notes of a claim attest, live or put away, and what of it was  *)
(* neither withdrawn nor derived again.                                    *)
Said(c) == UNION ({live[c], merged[c]} \ {NoNote})
Stands(c) == {x \in Said(c) : x.run = run[x.src] /\ x.src \notin withdrawn}

(* Nothing is deleted: wherever groom is killed and applied again, and as  *)
(* long as nothing else is, the notes of a claim attest what they did,     *)
(* unless it is withdrawn or derived again, and who attests a claim that   *)
(* was absorbed attests the one that absorbed it.                          *)
NothingIsLost ==
  /\ [][withdrawn' \subseteq withdrawn /\ run' = run /\ killed' \subseteq {"groom"}
           => \A c \in ClaimId : Stands(c) \subseteq Stands(c)']_groomed
  /\ [](killed \subseteq {"groom"} =>
          \A c \in ClaimId : rows[c] # NoRow /\ ~Live(c) =>
            \A x \in Stands(c) : \E y \in Said(rows[c].into) : y.src = x.src)
=============================================================================
