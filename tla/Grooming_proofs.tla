--------------------------- MODULE Grooming_proofs ---------------------------
(***************************************************************************)
(* Proofs about Grooming, for any claims, distances, thresholds and        *)
(* prompts: a warmed pass plans off the cache, groom statement by          *)
(* statement implements the grooming of Corpus, and nothing it does or     *)
(* leaves undone loses an attestation.                                     *)
(***************************************************************************)
EXTENDS Grooming, Corpus_proofs

Pair == ClaimId \X ClaimId
PlanSteps == {"claim", "neighbour"}
PairSteps == {"survivor", "move", "unlink", "count", "mark"}

GroomRecord ==
  [step : {"rest", "warm"} \cup PlanSteps \cup PairSteps,
   judge : Judge \cup {Nobody}, near : Threshold \cup {Nobody}, todo : SUBSET Pair,
   failed : BOOLEAN, asked : BOOLEAN, left : SUBSET ClaimId, claim : ClaimId \cup {Nobody},
   around : SUBSET ClaimId, pairs : Seq(Pair),
   survivor : Note, absorbed : Note, under : Note \cup {NoNote}]

GroomTypeOK ==
  /\ groom \in GroomRecord
  /\ On("neighbour") => groom.claim \in ClaimId
  /\ IsFiniteSet(groom.survivor) /\ IsFiniteSet(groom.absorbed)

(* The groom command is alone with the corpus, a plan is made when none is *)
(* applied, and its file goes with the last pair of it.                    *)
Alone ==
  /\ ~On("rest") => AtWork = {}
  /\ groom.step \in {"warm"} \cup PlanSteps => plan = << >>
  /\ groom.step \in PairSteps => plan # << >>
  /\ plan = << >> => file = << >>

(* The pairs found so far are a plan that Corpus could have made.          *)
PairsSoFar ==
  /\ \A i \in DOMAIN groom.pairs :
       /\ groom.pairs[i] \in Indexed \X Indexed
       /\ groom.pairs[i][1] # groom.pairs[i][2]
  /\ \A i, j \in DOMAIN groom.pairs :
       i < j => groom.pairs[i][2] \notin {groom.pairs[j][1], groom.pairs[j][2]}

(* A claim is examined once, and is absorbed by one.                       *)
Planning ==
  /\ PairsSoFar
  /\ groom.step \notin PlanSteps => groom.pairs = << >> /\ groom.left = {}
  /\ groom.left \subseteq LiveClaims /\ groom.left \cap Absorbed = {}
  /\ On("neighbour") =>
       /\ groom.claim \in LiveClaims \ groom.left
       /\ groom.around \subseteq Neighbours(groom.claim, groom.near)
       /\ groom.around # {} => groom.claim \notin Absorbed

(* The two notes of a pair, before and after each statement.               *)
Halfway ==
  groom.step \in PairSteps =>
    /\ live[Survivor] = IF On("survivor") THEN groom.survivor ELSE groom.survivor \cup Gained
    /\ live[Loser] = IF groom.step \in {"count", "mark"} THEN NoNote ELSE groom.absorbed
    /\ merged[Loser] = IF groom.step \in {"survivor", "move"} THEN groom.under ELSE groom.absorbed
    /\ On("mark") /\ rows[Survivor] # NoRow =>
         rows[Survivor].count - Cardinality(Gained) \in Nat \ {0}

GroomInv == TypeInv /\ GroomTypeOK /\ Alone /\ Planning /\ Halfway
-----------------------------------------------------------------------------
(* Types. *)

LEMMA RestIsTyped ==
  /\ AtRest \in GroomRecord /\ AtRest.step = "rest" /\ AtRest.pairs = << >>
  /\ AtRest.left = {} /\ AtRest.asked = FALSE
  /\ IsFiniteSet(AtRest.survivor) /\ IsFiniteSet(AtRest.absorbed)
  <1>1. {} \in Note
    BY Bounds
  <1>2. IsFiniteSet({})
    BY FS_EmptySet
  <1> QED
    BY <1>1, <1>2 DEF AtRest, GroomRecord, Pair, PlanSteps, PairSteps

(* At rest nothing is planned and no pair is at hand.                      *)
LEMMA Resting ==
  ASSUME groom' = AtRest, plan' = << >> => file' = << >>
  PROVE  Alone' /\ Planning' /\ Halfway' /\ GroomTypeOK'
  <1>1. /\ groom'.step = "rest" /\ groom'.pairs = << >> /\ groom'.left = {}
        /\ groom' \in GroomRecord
        /\ IsFiniteSet(groom'.survivor) /\ IsFiniteSet(groom'.absorbed)
    BY RestIsTyped
  <1>2. Alone' /\ Halfway'
    BY <1>1 DEF Alone, Halfway, On, PlanSteps, PairSteps
  <1>3. Planning'
    BY <1>1 DEF Planning, PairsSoFar, On, PlanSteps
  <1>4. GroomTypeOK'
    BY <1>1 DEF GroomTypeOK, On
  <1> QED
    BY <1>2, <1>3, <1>4

LEMMA SameCorpus ==
  ASSUME TypeInv, UNCHANGED vars
  PROVE  TypeInv'
BY TypeStep

LEMMA GroomInit1 ==
  ASSUME GroomInit
  PROVE  GroomInv
  <1>1. TypeInv
    BY TypeInit DEF GroomInit
  <1>2. groom = AtRest /\ file = << >>
    BY DEF GroomInit, Init
  <1>3. GroomTypeOK
    BY <1>2, RestIsTyped DEF GroomTypeOK, On
  <1>4. Alone /\ Halfway
    BY <1>2, RestIsTyped DEF Alone, Halfway, On, PlanSteps, PairSteps
  <1>5. Planning
    BY <1>2, RestIsTyped DEF Planning, PairsSoFar, On, PlanSteps
  <1> QED
    BY <1>1, <1>3, <1>4, <1>5 DEF GroomInv

(* The neighbours of a claim are other claims of the index.                *)
LEMMA NeighboursAreClaims ==
  ASSUME TypeInv, NEW c, NEW t
  PROVE  /\ Neighbours(c, t) \subseteq ClaimId \ {c}
         /\ \A m \in Neighbours(c, t) : m \in vecs /\ c \in vecs /\ rows[m] # NoRow
BY DEF Neighbours, TypeInv, CorpusTypeOK

-----------------------------------------------------------------------------
(* The warming. *)

LEMMA InvWarm ==
  ASSUME GroomInv, NEW j \in Judge, NEW t \in Threshold, Warm(j, t)
  PROVE  GroomInv'
  <1>1. PICK T : T = {p \in CandidatePairs(t) : Verdict(j, p[1], p[2]) = {}}
    OBVIOUS
  <1>2. T \in SUBSET Pair
    BY <1>1 DEF CandidatePairs, Pair
  <1>3. groom' = [AtRest EXCEPT !.step = "warm", !.judge = j, !.near = t, !.todo = T]
    BY <1>1 DEF Warm
  <1>4. /\ groom' \in GroomRecord /\ groom'.step = "warm" /\ groom'.pairs = << >>
        /\ groom'.left = {} /\ groom'.survivor = {} /\ groom'.absorbed = {}
    BY <1>2, <1>3, RestIsTyped DEF GroomRecord, AtRest
  <1>5. TypeInv'
    BY SameCorpus DEF Warm, GroomInv
  <1>6. GroomTypeOK'
    BY <1>4, FS_EmptySet DEF GroomTypeOK, On, Warm, GroomInv
  <1>7. Alone'
    BY <1>4 DEF GroomInv, Alone, On, Warm, Free, vars, AtWork, PlanSteps, PairSteps
  <1>8. Planning' /\ Halfway'
    BY <1>4 DEF Planning, PairsSoFar, Halfway, On, PlanSteps, PairSteps
  <1> QED
    BY <1>5, <1>6, <1>7, <1>8 DEF GroomInv

LEMMA InvJudged ==
  ASSUME GroomInv, NEW p \in Pair, NotJudged(p) \/ \E same \in BOOLEAN : Judged(p, same)
  PROVE  GroomInv'
  <1>1. groom \in GroomRecord /\ groom.step = "warm" /\ UNCHANGED vars
    BY DEF GroomInv, GroomTypeOK, Judged, NotJudged, On
  <1>2. PICK T \in SUBSET Pair, f \in BOOLEAN :
          groom' = [groom EXCEPT !.todo = T, !.failed = f]
    <2>1. groom.todo \ {p} \in SUBSET Pair /\ groom.failed \in BOOLEAN
      BY <1>1 DEF GroomRecord
    <2>2. CASE NotJudged(p)
      BY <2>1, <2>2 DEF NotJudged
    <2>3. ASSUME NEW same \in BOOLEAN, Judged(p, same)
          PROVE  groom' = [groom EXCEPT !.todo = groom.todo \ {p}, !.failed = groom.failed]
      BY <1>1, <2>3 DEF Judged, GroomRecord
    <2> QED
      BY <2>1, <2>2, <2>3
  <1>3. /\ groom' \in GroomRecord /\ groom'.step = "warm" /\ groom'.pairs = groom.pairs
        /\ groom'.left = groom.left
        /\ groom'.survivor = groom.survivor /\ groom'.absorbed = groom.absorbed
    BY <1>1, <1>2 DEF GroomRecord
  <1>4. TypeInv'
    BY <1>1, SameCorpus DEF GroomInv
  <1>5. GroomTypeOK'
    BY <1>1, <1>3 DEF GroomTypeOK, On, GroomInv
  <1>6. Alone'
    BY <1>1, <1>3 DEF GroomInv, Alone, On, vars, AtWork, PlanSteps, PairSteps
  <1>7. Planning' /\ Halfway'
    BY <1>1, <1>3 DEF GroomInv, Planning, PairsSoFar, Halfway, On, PlanSteps, PairSteps
  <1> QED
    BY <1>4, <1>5, <1>6, <1>7 DEF GroomInv

LEMMA InvWarmed ==
  ASSUME GroomInv, Warmed
  PROVE  GroomInv'
  <1>1. groom \in GroomRecord /\ groom.step = "warm" /\ UNCHANGED vars
    BY DEF GroomInv, GroomTypeOK, Warmed, On
  <1>2. LiveClaims \in SUBSET ClaimId
    BY DEF LiveClaims
  <1>3. /\ groom' \in GroomRecord /\ groom'.step = "claim" /\ groom'.pairs = << >>
        /\ groom'.left = LiveClaims
        /\ groom'.survivor = groom.survivor /\ groom'.absorbed = groom.absorbed
    BY <1>1, <1>2 DEF GroomRecord, PlanSteps, GroomInv, Planning, Warmed
  <1>4. TypeInv'
    BY <1>1, SameCorpus DEF GroomInv
  <1>5. GroomTypeOK'
    BY <1>1, <1>3 DEF GroomTypeOK, On, GroomInv
  <1>6. Alone'
    BY <1>1, <1>3 DEF GroomInv, Alone, On, vars, AtWork, PlanSteps, PairSteps
  <1>7. Planning'
    <2>1. LiveClaims' = LiveClaims
      BY <1>1 DEF vars, LiveClaims, Live
    <2> QED
      BY <1>3, <2>1 DEF Planning, PairsSoFar, On, PlanSteps, Absorbed
  <1>8. Halfway'
    BY <1>3 DEF Halfway, PairSteps
  <1> QED
    BY <1>4, <1>5, <1>6, <1>7, <1>8 DEF GroomInv
-----------------------------------------------------------------------------
(* The planner. *)

(* Where the planner looks at stays as it is.                              *)
LEMMA SameView ==
  ASSUME UNCHANGED vars
  PROVE  /\ LiveClaims' = LiveClaims /\ Indexed' = Indexed
         /\ \A c, t : Neighbours(c, t)' = Neighbours(c, t)
BY DEF vars, LiveClaims, Live, Indexed, Neighbours, Closer

(* A step of the planner that leaves its pairs alone.                      *)
LEMMA PlannerStep ==
  ASSUME GroomInv, UNCHANGED vars, groom.step \in PlanSteps,
         groom' \in GroomRecord, groom'.step \in PlanSteps,
         groom'.survivor = groom.survivor, groom'.absorbed = groom.absorbed,
         groom'.pairs = groom.pairs, groom'.near = groom.near,
         groom'.left \subseteq groom.left,
         On("neighbour")' =>
           /\ groom'.claim \in LiveClaims \ groom'.left
           /\ groom'.around \subseteq Neighbours(groom'.claim, groom.near)
           /\ groom'.around # {} => groom'.claim \notin Absorbed
  PROVE  GroomInv'
  <1>1. TypeInv'
    BY SameCorpus DEF GroomInv
  <1>2. GroomTypeOK'
    BY DEF GroomTypeOK, GroomInv, LiveClaims
  <1>3. Alone'
    BY DEF GroomInv, Alone, On, vars, AtWork, PlanSteps, PairSteps
  <1>4. Planning'
    <2>1. LiveClaims' = LiveClaims /\ Indexed' = Indexed /\ Absorbed' = Absorbed
          /\ \A c, t : Neighbours(c, t)' = Neighbours(c, t)
      BY SameView DEF Absorbed
    <2>2. PairsSoFar'
      BY <2>1 DEF PairsSoFar, GroomInv, Planning
    <2>3. groom'.around \subseteq Neighbours(groom'.claim, groom.near) =>
            groom'.around \subseteq Neighbours(groom.claim, groom.near)'
      BY <2>1
    <2> QED
      BY <2>1, <2>2, <2>3 DEF GroomInv, Planning
  <1>5. Halfway'
    BY DEF Halfway, PairSteps, PlanSteps
  <1> QED
    BY <1>1, <1>2, <1>3, <1>4, <1>5 DEF GroomInv

LEMMA InvExamine ==
  ASSUME GroomInv, NEW c \in ClaimId, Examine(c)
  PROVE  GroomInv'
  <1>1. groom \in GroomRecord /\ groom.step = "claim" /\ UNCHANGED vars
        /\ c \in groom.left
    BY DEF GroomInv, GroomTypeOK, Examine, On
  <1>2. PICK A \in SUBSET ClaimId :
          /\ A = IF c \in Absorbed THEN {} ELSE Neighbours(c, groom.near)
          /\ groom' = [groom EXCEPT !.step = "neighbour", !.claim = c,
                                    !.left = groom.left \ {c}, !.around = A]
    BY NeighboursAreClaims DEF Examine, GroomInv
  <1>3. /\ groom' \in GroomRecord /\ groom'.step = "neighbour" /\ groom'.claim = c
        /\ groom'.left = groom.left \ {c} /\ groom'.around = A /\ groom'.pairs = groom.pairs
        /\ groom'.near = groom.near
        /\ groom'.survivor = groom.survivor /\ groom'.absorbed = groom.absorbed
    BY <1>1, <1>2 DEF GroomRecord, PlanSteps
  <1>4. c \in LiveClaims
    BY <1>1 DEF GroomInv, Planning
  <1> QED
    BY <1>1, <1>2, <1>3, <1>4, PlannerStep DEF PlanSteps

LEMMA InvPassOver ==
  ASSUME GroomInv, NEW m \in ClaimId, PassOver(m)
  PROVE  GroomInv'
  <1>1. groom \in GroomRecord /\ groom.step = "neighbour" /\ UNCHANGED vars
    BY DEF GroomInv, GroomTypeOK, PassOver, Turn, On
  <1>2. /\ groom' \in GroomRecord /\ groom'.step = "neighbour" /\ groom'.claim = groom.claim
        /\ groom'.left = groom.left /\ groom'.around = groom.around \ {m}
        /\ groom'.pairs = groom.pairs /\ groom'.near = groom.near
        /\ groom'.survivor = groom.survivor /\ groom'.absorbed = groom.absorbed
    BY <1>1 DEF PassOver, GroomRecord
  <1>3. /\ groom.claim \in LiveClaims \ groom.left
        /\ groom.around \subseteq Neighbours(groom.claim, groom.near)
        /\ groom.around # {} => groom.claim \notin Absorbed
    BY <1>1 DEF GroomInv, Planning, On
  <1> QED
    BY <1>1, <1>2, <1>3, PlannerStep DEF PlanSteps

LEMMA InvNoneLeft ==
  ASSUME GroomInv, NoneLeft
  PROVE  GroomInv'
  <1>1. groom \in GroomRecord /\ groom.step = "neighbour" /\ UNCHANGED vars
    BY DEF GroomInv, GroomTypeOK, NoneLeft, On
  <1>2. /\ groom' \in GroomRecord /\ groom'.step = "claim"
        /\ groom'.left = groom.left /\ groom'.pairs = groom.pairs /\ groom'.near = groom.near
        /\ groom'.survivor = groom.survivor /\ groom'.absorbed = groom.absorbed
    BY <1>1 DEF NoneLeft, GroomRecord, PlanSteps
  <1> QED
    BY <1>1, <1>2, PlannerStep DEF PlanSteps, On

LEMMA InvCompare ==
  ASSUME GroomInv, NEW m \in ClaimId, NEW same \in BOOLEAN, Compare(m, same)
  PROVE  GroomInv'
  <1> DEFINE P == IF same THEN Append(groom.pairs, <<m, groom.claim>>) ELSE groom.pairs
             A == IF same THEN {} ELSE groom.around \ {m}
  <1>1. /\ groom \in GroomRecord /\ groom.step = "neighbour" /\ UNCHANGED vars
        /\ m \in groom.around /\ groom.claim \in ClaimId /\ groom.pairs \in Seq(Pair)
    BY DEF GroomInv, GroomTypeOK, Compare, Turn, On, GroomRecord
  <1>2. P \in Seq(Pair) /\ A \in SUBSET ClaimId
    BY <1>1 DEF Pair, GroomRecord
  <1>3. PICK b \in BOOLEAN :
          groom' = [groom EXCEPT !.pairs = P, !.around = A, !.asked = b]
    <2>1. PICK b : b = (groom.asked \/ Verdict(groom.judge, m, groom.claim) = {})
      OBVIOUS
    <2>2. b \in BOOLEAN
      BY <2>1
    <2> QED
      BY <2>1, <2>2 DEF Compare
  <1> HIDE DEF P, A
  <1>4. /\ groom' \in GroomRecord /\ groom'.step = "neighbour" /\ groom'.claim = groom.claim
        /\ groom'.left = groom.left /\ groom'.around = A
        /\ groom'.pairs = P /\ groom'.near = groom.near
        /\ groom'.survivor = groom.survivor /\ groom'.absorbed = groom.absorbed
    BY <1>1, <1>2, <1>3 DEF GroomRecord
  <1>5. /\ groom.claim \in LiveClaims \ groom.left /\ groom.claim \notin Absorbed
        /\ groom.around \subseteq Neighbours(groom.claim, groom.near)
        /\ groom.left \subseteq LiveClaims /\ groom.left \cap Absorbed = {}
    BY <1>1 DEF GroomInv, Planning, On
  <1>6. CASE ~same
    <2>1. P = groom.pairs /\ A = groom.around \ {m}
      BY <1>6 DEF P, A
    <2> QED
      BY <1>1, <1>4, <1>5, <2>1, PlannerStep DEF PlanSteps
  <1>7. CASE same
    <2>1. /\ P = Append(groom.pairs, <<m, groom.claim>>) /\ A = {}
          /\ m \notin Absorbed /\ Live(m)
      BY <1>7 DEF P, A, Compare, Passes
    <2>2. m \in Indexed /\ groom.claim \in Indexed /\ m # groom.claim
      BY <1>1, <1>5, <2>1, NeighboursAreClaims DEF GroomInv, Indexed, Live, LiveClaims
    <2>3. PICK n \in Nat :
            /\ DOMAIN groom.pairs = 1..n /\ DOMAIN P = 1..(n + 1)
            /\ \A i \in 1..n : P[i] = groom.pairs[i]
            /\ P[n + 1] = <<m, groom.claim>>
      <3>1. Len(groom.pairs) \in Nat /\ DOMAIN groom.pairs = 1..Len(groom.pairs)
        BY <1>1
      <3> QED
        BY <1>1, <2>1, <3>1
    <2>4. \A i \in 1..n : groom.pairs[i][2] \in Absorbed
      BY <2>3 DEF Absorbed
    <2>5. LiveClaims' = LiveClaims /\ Indexed' = Indexed
      BY <1>1, SameView
    <2>6. Absorbed' \subseteq Absorbed \cup {groom.claim}
      <3>1. \A i \in 1..(n + 1) : P[i][2] \in Absorbed \cup {groom.claim}
        BY <2>3, <2>4
      <3> QED
        BY <1>4, <2>3, <3>1 DEF Absorbed
    <2>7. PairsSoFar'
      <3>1. /\ \A i \in 1..n : /\ groom.pairs[i] \in Indexed \X Indexed
                               /\ groom.pairs[i][1] # groom.pairs[i][2]
            /\ \A i, j \in 1..n :
                 i < j => groom.pairs[i][2] \notin {groom.pairs[j][1], groom.pairs[j][2]}
        BY <2>3 DEF GroomInv, Planning, PairsSoFar
      <3>2. ASSUME NEW i \in 1..(n + 1)
            PROVE  P[i] \in Indexed \X Indexed /\ P[i][1] # P[i][2]
        <4>1. CASE i = n + 1
          BY <2>2, <2>3, <4>1
        <4>2. CASE i # n + 1
          BY <2>3, <3>1, <4>2
        <4> QED
          BY <4>1, <4>2
      <3>3. ASSUME NEW i \in 1..(n + 1), NEW j \in 1..(n + 1), i < j
            PROVE  P[i][2] \notin {P[j][1], P[j][2]}
        <4>1. i \in 1..n
          BY <3>3
        <4>2. CASE j = n + 1
          BY <1>5, <2>1, <2>3, <2>4, <4>1, <4>2
        <4>3. CASE j \in 1..n
          BY <2>3, <3>1, <3>3, <4>1, <4>3
        <4> QED
          BY <4>2, <4>3
      <3> QED
        BY <1>4, <2>3, <2>5, <3>2, <3>3 DEF PairsSoFar
    <2>8. Planning'
      BY <1>4, <1>5, <2>1, <2>5, <2>6, <2>7 DEF Planning, On, PlanSteps
    <2>9. GroomTypeOK' /\ Alone' /\ Halfway'
      BY <1>1, <1>4 DEF GroomInv, GroomTypeOK, Alone, Halfway, On, vars, AtWork, PlanSteps,
                        PairSteps
    <2> QED
      BY <1>1, <2>8, <2>9, SameCorpus DEF GroomInv
  <1> QED
    BY <1>6, <1>7

LEMMA InvPlanned ==
  ASSUME GroomInv, Planned
  PROVE  GroomInv'
  <1>1. /\ groom.step = "claim" /\ plan' = groom.pairs /\ file' = groom.pairs
        /\ groom' = AtRest
        /\ UNCHANGED <<corpus, work, run, withdrawn, crashes, killed, cut>>
        /\ groom.pairs \in Seq(Pair)
    BY DEF Planned, On, GroomInv, GroomTypeOK, GroomRecord
  <1>2. \A i \in DOMAIN groom.pairs : groom.pairs[i][1] # groom.pairs[i][2]
    BY DEF GroomInv, Planning, PairsSoFar
  <1>3. TypeInv'
    BY <1>1, <1>2 DEF GroomInv, TypeInv, CorpusTypeOK, Control, FiniteNotes, corpus, At,
                      Candidates, Pair
  <1> QED
    BY <1>1, <1>3, Resting DEF GroomInv

LEMMA InvGivesUp ==
  ASSUME GroomInv, GivesUp
  PROVE  GroomInv'
BY SameCorpus, Resting DEF GroomInv, GivesUp, Alone, vars
-----------------------------------------------------------------------------
(* A pair. *)

(* The pair at hand; what the survivor gains.                              *)
LEMMA AtHand ==
  ASSUME GroomInv, plan # << >>
  PROVE  /\ Survivor \in ClaimId /\ Loser \in ClaimId /\ Survivor # Loser
         /\ Tail(plan) \in Seq(Pair)
         /\ \A i \in DOMAIN Tail(plan) : Tail(plan)[i][1] # Tail(plan)[i][2]
BY HeadOfPlan DEF GroomInv, Survivor, Loser, Pair

LEMMA GainedIsFinite ==
  ASSUME GroomInv
  PROVE  /\ groom.survivor \in Note /\ groom.absorbed \in Note
         /\ Gained \subseteq groom.absorbed /\ Gained \in Note /\ IsFiniteSet(Gained)
         /\ Cardinality(Gained) \in Nat
         /\ groom.survivor \cup Gained \in Note /\ IsFiniteSet(groom.survivor \cup Gained)
  <1>1. groom.survivor \in Note /\ groom.absorbed \in Note
    BY DEF GroomInv, GroomTypeOK, GroomRecord
  <1>2. IsFiniteSet(groom.survivor) /\ IsFiniteSet(groom.absorbed)
    BY DEF GroomInv, GroomTypeOK
  <1>3. Gained \subseteq groom.absorbed
    BY DEF Gained
  <1>4. IsFiniteSet(Gained) /\ Cardinality(Gained) \in Nat
    BY <1>2, <1>3, FS_Subset, FS_CardinalityType
  <1>5. IsFiniteSet(groom.survivor \cup Gained)
    BY <1>2, <1>4, FS_Union
  <1> QED
    BY <1>1, <1>3, <1>4, <1>5 DEF Note

(* What goes on to the next statement has the same pair at hand.           *)
LEMMA SamePair ==
  ASSUME GroomInv, NEW a \in PairSteps, NEW b \in PairSteps, Statement(a, b),
         UNCHANGED <<work, run, plan, file>>
  PROVE  /\ groom.step = a /\ groom'.step = b /\ plan # << >>
         /\ GroomTypeOK' /\ Alone' /\ Planning'
         /\ Survivor' = Survivor /\ Loser' = Loser /\ Gained' = Gained
         /\ groom'.survivor = groom.survivor /\ groom'.absorbed = groom.absorbed
         /\ groom'.under = groom.under
  <1>1. /\ groom \in GroomRecord /\ groom.step = a
        /\ groom' = [groom EXCEPT !.step = b]
    BY DEF GroomInv, GroomTypeOK, Statement, On
  <1>2. /\ groom' \in GroomRecord /\ groom'.step = b
        /\ groom'.pairs = groom.pairs /\ groom'.left = groom.left
        /\ groom'.survivor = groom.survivor /\ groom'.absorbed = groom.absorbed
        /\ groom'.under = groom.under
    BY <1>1 DEF GroomRecord
  <1>3. GroomTypeOK'
    BY <1>2 DEF GroomInv, GroomTypeOK, On, PairSteps
  <1>4. Alone' /\ plan # << >>
    BY <1>1, <1>2 DEF GroomInv, Alone, On, AtWork, PlanSteps, PairSteps
  <1>5. groom.pairs = << >> /\ groom.left = {}
    BY <1>1 DEF GroomInv, Planning, PlanSteps, PairSteps
  <1>6. Planning'
    BY <1>2, <1>5 DEF Planning, PairsSoFar, On, PlanSteps, PairSteps
  <1> QED
    BY <1>1, <1>2, <1>3, <1>4, <1>6 DEF Survivor, Loser, Gained

(* A step that goes on with the plan, or is killed, and changes the rows   *)
(* at most.                                                                *)
LEMMA TypesStay ==
  ASSUME TypeInv, plan # << >>, UNCHANGED <<vecs, live, merged, work, run, withdrawn, cut>>,
         rows' \in [ClaimId -> Row \cup {NoRow}],
         \/ UNCHANGED <<crashes, killed>>
         \/ crashes < MaxCrashes /\ crashes' = crashes + 1 /\ killed' = killed \cup {"groom"},
         NextPair \/ (plan' = file /\ file' = file) \/ (plan' = << >> /\ file' = << >>)
  PROVE  TypeInv'
  <1>1. crashes' \in 0..MaxCrashes /\ killed' \subseteq {"dedup", "groom", "retract"}
    BY TypeKilled
  <1>2. CorpusTypeOK'
    BY <1>1, TypePlan DEF TypeInv, CorpusTypeOK
  <1>3. Control'
    <2>1. killed \subseteq killed'
      OBVIOUS
    <2> QED
      BY <2>1, TypePlan DEF TypeInv, Control, At, Candidates
  <1>4. FiniteNotes'
    BY DEF TypeInv, FiniteNotes
  <1> QED
    BY <1>2, <1>3, <1>4 DEF TypeInv

LEMMA InvPairGone ==
  ASSUME GroomInv, PairGone
  PROVE  GroomInv'
  <1>1. /\ plan # << >> /\ NextPair /\ groom.step = "rest" /\ groom' = groom
        /\ UNCHANGED <<corpus, work, run, withdrawn, crashes, killed, cut>>
    BY DEF PairGone, Free, On, groomVars
  <1>2. TypeInv'
    <2>1. /\ TypeInv /\ UNCHANGED <<vecs, live, merged, work, run, withdrawn, cut>>
          /\ rows' \in [ClaimId -> Row \cup {NoRow}]
      BY <1>1 DEF GroomInv, TypeInv, CorpusTypeOK, corpus
    <2> QED
      BY <1>1, <2>1, TypesStay
  <1>3. GroomTypeOK' /\ Alone' /\ Halfway'
    BY <1>1 DEF GroomInv, GroomTypeOK, Alone, Halfway, On, NextPair, PlanSteps, PairSteps
  <1>4. Planning'
    BY <1>1 DEF GroomInv, Planning, PairsSoFar, On, PlanSteps, Absorbed
  <1> QED
    BY <1>2, <1>3, <1>4 DEF GroomInv

LEMMA InvReadPair ==
  ASSUME GroomInv, ReadPair
  PROVE  GroomInv'
  <1>1. /\ plan # << >> /\ AtWork = {} /\ UNCHANGED vars
        /\ Survivor \in ClaimId /\ Loser \in ClaimId
        /\ live[Survivor] # NoNote /\ live[Loser] # NoNote
    BY AtHand DEF ReadPair, Free
  <1>2. /\ live[Survivor] \in Note /\ live[Loser] \in Note
        /\ merged[Loser] \in Note \cup {NoNote}
        /\ IsFiniteSet(live[Survivor]) /\ IsFiniteSet(live[Loser])
    BY <1>1 DEF GroomInv, TypeInv, CorpusTypeOK, FiniteNotes
  <1>3. PICK v, a, u : v = live[Survivor] /\ a = live[Loser] /\ u = merged[Loser]
    OBVIOUS
  <1>4. groom' = [AtRest EXCEPT !.step = "survivor", !.survivor = v, !.absorbed = a, !.under = u]
    BY <1>3 DEF ReadPair
  <1>5. /\ groom' \in GroomRecord /\ groom'.step = "survivor"
        /\ groom'.pairs = << >> /\ groom'.left = {}
        /\ groom'.survivor = v /\ groom'.absorbed = a /\ groom'.under = u
    BY <1>2, <1>3, <1>4, RestIsTyped DEF GroomRecord, AtRest, PairSteps
  <1>6. TypeInv'
    BY <1>1, SameCorpus DEF GroomInv
  <1>7. GroomTypeOK' /\ Alone'
    BY <1>1, <1>2, <1>3, <1>5 DEF GroomInv, GroomTypeOK, Alone, On, vars, AtWork, PlanSteps,
                                  PairSteps
  <1>8. Planning'
    BY <1>5 DEF Planning, PairsSoFar, On, PlanSteps
  <1>9. Halfway'
    BY <1>1, <1>3, <1>5 DEF Halfway, On, vars, Survivor, Loser
  <1> QED
    BY <1>6, <1>7, <1>8, <1>9 DEF GroomInv

LEMMA InvWriteSurvivor ==
  ASSUME GroomInv, WriteSurvivor
  PROVE  GroomInv'
  <1>1. /\ groom.step = "survivor" /\ groom'.step = "move" /\ plan # << >>
        /\ GroomTypeOK' /\ Alone' /\ Planning'
        /\ Survivor' = Survivor /\ Loser' = Loser /\ Gained' = Gained
        /\ groom'.survivor = groom.survivor /\ groom'.absorbed = groom.absorbed
        /\ groom'.under = groom.under
    BY SamePair DEF WriteSurvivor, PairSteps
  <1>2. PICK v, a, n : v = Survivor /\ a = Loser /\ n = groom.survivor \cup Gained
    OBVIOUS
  <1>3. /\ v \in ClaimId /\ a \in ClaimId /\ v # a /\ n \in Note /\ IsFiniteSet(n)
        /\ live' = [live EXCEPT ![v] = n]
        /\ UNCHANGED <<rows, vecs, merged, work, run, plan, file, withdrawn, crashes, killed, cut>>
    BY <1>1, <1>2, AtHand, GainedIsFinite DEF WriteSurvivor
  <1>4. TypeInv'
    BY <1>3 DEF GroomInv, TypeInv, CorpusTypeOK, Control, FiniteNotes, At, Candidates
  <1>5. live'[v] = n /\ live'[a] = live[a]
    BY <1>3 DEF GroomInv, TypeInv, CorpusTypeOK
  <1>6. Halfway'
    BY <1>1, <1>2, <1>3, <1>5 DEF GroomInv, Halfway, On, PairSteps
  <1> QED
    BY <1>1, <1>4, <1>6 DEF GroomInv

LEMMA InvWriteMerged ==
  ASSUME GroomInv, WriteMerged
  PROVE  GroomInv'
  <1>1. /\ groom.step = "move" /\ groom'.step = "unlink" /\ plan # << >>
        /\ GroomTypeOK' /\ Alone' /\ Planning'
        /\ Survivor' = Survivor /\ Loser' = Loser /\ Gained' = Gained
        /\ groom'.survivor = groom.survivor /\ groom'.absorbed = groom.absorbed
        /\ groom'.under = groom.under
    BY SamePair DEF WriteMerged, PairSteps
  <1>2. PICK a, n : a = Loser /\ n = groom.absorbed
    OBVIOUS
  <1>3. /\ a \in ClaimId /\ n \in Note /\ IsFiniteSet(n)
        /\ merged' = [merged EXCEPT ![a] = n]
        /\ UNCHANGED <<rows, vecs, live, work, run, plan, file, withdrawn, crashes, killed, cut>>
    BY <1>1, <1>2, AtHand, GainedIsFinite DEF WriteMerged, GroomInv, GroomTypeOK
  <1>4. TypeInv'
    BY <1>3 DEF GroomInv, TypeInv, CorpusTypeOK, Control, FiniteNotes, At, Candidates
  <1>5. merged'[a] = n
    BY <1>3 DEF GroomInv, TypeInv, CorpusTypeOK
  <1>6. Halfway'
    BY <1>1, <1>2, <1>3, <1>5 DEF GroomInv, Halfway, On, PairSteps
  <1> QED
    BY <1>1, <1>4, <1>6 DEF GroomInv

LEMMA InvUnlink ==
  ASSUME GroomInv, Unlink
  PROVE  GroomInv'
  <1>1. /\ groom.step = "unlink" /\ groom'.step = "count" /\ plan # << >>
        /\ GroomTypeOK' /\ Alone' /\ Planning'
        /\ Survivor' = Survivor /\ Loser' = Loser /\ Gained' = Gained
        /\ groom'.survivor = groom.survivor /\ groom'.absorbed = groom.absorbed
        /\ groom'.under = groom.under
    BY SamePair DEF Unlink, PairSteps
  <1>2. PICK v, a : v = Survivor /\ a = Loser
    OBVIOUS
  <1>3. /\ v \in ClaimId /\ a \in ClaimId /\ v # a
        /\ live' = [live EXCEPT ![a] = NoNote]
        /\ UNCHANGED <<rows, vecs, merged, work, run, plan, file, withdrawn, crashes, killed, cut>>
    BY <1>1, <1>2, AtHand DEF Unlink
  <1>4. TypeInv'
    BY <1>3 DEF GroomInv, TypeInv, CorpusTypeOK, Control, FiniteNotes, At, Candidates
  <1>5. live'[a] = NoNote /\ live'[v] = live[v]
    BY <1>3 DEF GroomInv, TypeInv, CorpusTypeOK
  <1>6. Halfway'
    BY <1>1, <1>2, <1>3, <1>5 DEF GroomInv, Halfway, On, PairSteps
  <1> QED
    BY <1>1, <1>4, <1>6 DEF GroomInv

(* The row of the survivor counts what it gained. *)
LEMMA CountEffect ==
  ASSUME GroomInv, CountGained
  PROVE  /\ rows[Survivor] = NoRow => rows' = rows
         /\ rows[Survivor] # NoRow =>
              \E r \in Row : /\ rows' = [rows EXCEPT ![Survivor] = r]
                             /\ r = [rows[Survivor] EXCEPT
                                       !.count = rows[Survivor].count + Cardinality(Gained)]
                             /\ r.count = rows[Survivor].count + Cardinality(Gained)
                             /\ r.into = rows[Survivor].into
  <1>1. Survivor \in ClaimId /\ Cardinality(Gained) \in Nat
    BY SamePair, AtHand, GainedIsFinite DEF CountGained, PairSteps
  <1>2. CASE rows[Survivor] = NoRow
    BY <1>2 DEF CountGained, WithCount
  <1>3. CASE rows[Survivor] # NoRow
    <2>1. PICK r : r = [rows[Survivor] EXCEPT !.count = rows[Survivor].count + Cardinality(Gained)]
      OBVIOUS
    <2>2. rows[Survivor] \in Row
      BY <1>1, <1>3 DEF GroomInv, TypeInv, CorpusTypeOK
    <2>3. /\ r \in Row /\ r.count = rows[Survivor].count + Cardinality(Gained)
          /\ r.into = rows[Survivor].into
      BY <1>1, <2>1, <2>2 DEF Row
    <2>4. rows' = [rows EXCEPT ![Survivor] = r]
      BY <1>3, <2>1 DEF CountGained, WithCount
    <2> QED
      BY <1>3, <2>1, <2>3, <2>4
  <1> QED
    BY <1>2, <1>3

LEMMA InvCountGained ==
  ASSUME GroomInv, CountGained
  PROVE  GroomInv'
  <1>1. /\ groom.step = "count" /\ groom'.step = "mark" /\ plan # << >>
        /\ GroomTypeOK' /\ Alone' /\ Planning'
        /\ Survivor' = Survivor /\ Loser' = Loser /\ Gained' = Gained
        /\ groom'.survivor = groom.survivor /\ groom'.absorbed = groom.absorbed
        /\ groom'.under = groom.under
    BY SamePair DEF CountGained, PairSteps
  <1>2. /\ Survivor \in ClaimId /\ Cardinality(Gained) \in Nat
        /\ UNCHANGED <<vecs, live, merged, work, run, plan, file, withdrawn, crashes, killed, cut>>
    BY <1>1, AtHand, GainedIsFinite DEF CountGained
  <1>3. /\ rows' \in [ClaimId -> Row \cup {NoRow}]
        /\ rows'[Survivor] # NoRow => rows'[Survivor].count - Cardinality(Gained) \in Nat \ {0}
    <2>1. CASE rows[Survivor] = NoRow
      BY <2>1, CountEffect DEF GroomInv, TypeInv, CorpusTypeOK
    <2>2. CASE rows[Survivor] # NoRow
      <3>1. PICK r \in Row : /\ rows' = [rows EXCEPT ![Survivor] = r]
                             /\ r.count = rows[Survivor].count + Cardinality(Gained)
        BY <2>2, CountEffect
      <3>2. rows[Survivor].count \in Nat \ {0} /\ rows'[Survivor] = r
        BY <1>2, <2>2, <3>1 DEF GroomInv, TypeInv, CorpusTypeOK, Row
      <3> QED
        BY <1>2, <3>1, <3>2 DEF GroomInv, TypeInv, CorpusTypeOK
    <2> QED
      BY <2>1, <2>2
  <1>4. TypeInv'
    BY <1>2, <1>3 DEF GroomInv, TypeInv, CorpusTypeOK, Control, FiniteNotes, At, Candidates
  <1>5. Halfway'
    BY <1>1, <1>2, <1>3 DEF GroomInv, Halfway, On, PairSteps
  <1> QED
    BY <1>1, <1>4, <1>5 DEF GroomInv

(* The row of the loser leads to the survivor. *)
LEMMA MarkEffect ==
  ASSUME GroomInv, MarkAbsorbed
  PROVE  /\ plan # << >> /\ groom.step = "mark" /\ groom' = AtRest
         /\ rows[Loser] = NoRow => rows' = rows
         /\ rows[Loser] # NoRow =>
              \E r \in Row : /\ rows' = [rows EXCEPT ![Loser] = r]
                             /\ r = [rows[Loser] EXCEPT !.into = Survivor]
                             /\ r.count = rows[Loser].count /\ r.into = Survivor
  <1>1. groom.step = "mark" /\ groom' = AtRest /\ plan # << >>
    BY DEF MarkAbsorbed, On, GroomInv, Alone, PairSteps
  <1>2. Survivor \in ClaimId /\ Loser \in ClaimId
    BY <1>1, AtHand
  <1>3. CASE rows[Loser] = NoRow
    BY <1>1, <1>3 DEF MarkAbsorbed
  <1>4. CASE rows[Loser] # NoRow
    <2>1. PICK r : r = [rows[Loser] EXCEPT !.into = Survivor]
      OBVIOUS
    <2>2. rows[Loser] \in Row
      BY <1>2, <1>4 DEF GroomInv, TypeInv, CorpusTypeOK
    <2>3. r \in Row /\ r.count = rows[Loser].count /\ r.into = Survivor
      BY <1>2, <2>1, <2>2 DEF Row
    <2>4. rows' = [rows EXCEPT ![Loser] = r]
      BY <1>4, <2>1 DEF MarkAbsorbed
    <2> QED
      BY <1>1, <1>4, <2>1, <2>3, <2>4
  <1> QED
    BY <1>1, <1>3, <1>4

LEMMA InvMarkAbsorbed ==
  ASSUME GroomInv, MarkAbsorbed
  PROVE  GroomInv'
  <1>1. /\ plan # << >> /\ groom' = AtRest /\ NextPair
        /\ UNCHANGED <<vecs, live, merged, work, run, withdrawn, crashes, killed, cut>>
    BY MarkEffect DEF MarkAbsorbed
  <1>2. rows' \in [ClaimId -> Row \cup {NoRow}]
    BY <1>1, MarkEffect, AtHand DEF GroomInv, TypeInv, CorpusTypeOK
  <1>3. TypeInv'
    BY <1>1, <1>2, TypesStay DEF GroomInv
  <1> QED
    BY <1>1, <1>3, Resting DEF GroomInv, NextPair

LEMMA InvGroomKilled ==
  ASSUME GroomInv, GroomKilled
  PROVE  GroomInv'
  <1>1. /\ groom' = AtRest /\ plan # << >>
        /\ (plan' = file /\ file' = file) \/ (plan' = << >> /\ file' = << >>)
        /\ crashes < MaxCrashes /\ crashes' = crashes + 1 /\ killed' = killed \cup {"groom"}
        /\ UNCHANGED <<rows, vecs, live, merged, work, run, withdrawn, cut>>
    BY DEF GroomKilled, GroomInv, Alone, PairSteps, corpus
  <1>2. TypeInv'
    <2>1. TypeInv /\ rows' \in [ClaimId -> Row \cup {NoRow}]
      BY <1>1 DEF GroomInv, TypeInv, CorpusTypeOK
    <2> QED
      BY <1>1, <2>1, TypesStay
  <1> QED
    BY <1>1, <1>2, Resting DEF GroomInv
-----------------------------------------------------------------------------
(* dedup and retract. *)

LEMMA InvOthers ==
  ASSUME GroomInv, NEW s \in Source, Derive(s) \/ Withdraw(s)
  PROVE  GroomInv'
  <1>1. /\ groom.step = "rest" /\ groom' = groom /\ UNCHANGED <<plan, file>>
        /\ Dedup(s) \/ Retract(s)
    BY DEF Derive, Withdraw, On, groomVars, Dedup, Begin, Match, Attest, Bump, Create, Insert,
           Index, End, Crash, Retract
  <1>2. TypeInv'
    BY <1>1, TypeStep DEF GroomInv, Next
  <1>3. GroomTypeOK' /\ Alone' /\ Halfway'
    BY <1>1 DEF GroomInv, GroomTypeOK, Alone, Halfway, On, PlanSteps, PairSteps
  <1>4. Planning'
    BY <1>1 DEF GroomInv, Planning, PairsSoFar, On, PlanSteps, Absorbed
  <1> QED
    BY <1>2, <1>3, <1>4 DEF GroomInv

LEMMA InvStep ==
  ASSUME GroomInv, [GroomNext]_groomed
  PROVE  GroomInv'
  <1>1. CASE GroomCommand
    BY <1>1, InvWarm, InvJudged, InvWarmed, InvExamine, InvPassOver, InvCompare, InvNoneLeft,
       InvPlanned, InvGivesUp, InvPairGone, InvReadPair, InvWriteSurvivor, InvWriteMerged,
       InvUnlink, InvCountGained, InvMarkAbsorbed, InvGroomKilled DEF GroomCommand, Pair
  <1>2. CASE UNCHANGED groomed
    <2>1. TypeInv'
      BY <1>2, SameCorpus DEF groomed, GroomInv
    <2>2. GroomTypeOK' /\ Alone'
      BY <1>2 DEF groomed, groomVars, vars, GroomInv, GroomTypeOK, Alone, AtWork, On
    <2>3. Planning'
      BY <1>2, SameView DEF groomed, groomVars, GroomInv, Planning, PairsSoFar, Absorbed, On
    <2>4. Halfway'
      BY <1>2 DEF groomed, groomVars, vars, GroomInv, Halfway, On, Survivor, Loser, Gained
    <2> QED
      BY <2>1, <2>2, <2>3, <2>4 DEF GroomInv
  <1> QED
    BY <1>1, <1>2, InvOthers DEF GroomNext
-----------------------------------------------------------------------------
(* Warmed plans are free. *)

Answered(p) == Verdict(groom.judge, p[1], p[2]) # {}

WarmInv ==
  /\ groom.step \notin PlanSteps => ~groom.asked
  /\ On("warm") => groom.failed \/ \A p \in CandidatePairs(groom.near) \ groom.todo : Answered(p)
  /\ groom.step \in PlanSteps =>
       groom.failed \/ (~groom.asked /\ \A p \in CandidatePairs(groom.near) : Answered(p))

LEMMA WarmImplies ==
  ASSUME WarmInv
  PROVE  WarmedPlansAreFree
BY DEF WarmInv, WarmedPlansAreFree

(* What was answered stays so while the corpus and the prompt are the same.*)
LEMMA AnswersStay ==
  ASSUME UNCHANGED vars, verdicts \subseteq verdicts', groom'.judge = groom.judge,
         groom'.near = groom.near
  PROVE  /\ CandidatePairs(groom.near)' = CandidatePairs(groom.near)
         /\ \A p : Answered(p) => Answered(p)'
  <1>1. \A c, t : Neighbours(c, t)' = Neighbours(c, t)
    BY SameView
  <1>2. \A c : Live(c)' = Live(c)
    BY DEF vars, Live
  <1>3. CandidatePairs(groom.near)' = CandidatePairs(groom.near)
    BY <1>1, <1>2 DEF CandidatePairs
  <1>4. \A p : Answered(p) => Answered(p)'
    BY DEF Answered, Verdict
  <1> QED
    BY <1>3, <1>4

LEMMA WarmAtRest ==
  ASSUME groom' = AtRest
  PROVE  WarmInv'
BY DEF WarmInv, AtRest, On, PlanSteps

LEMMA WarmWarm ==
  ASSUME NEW j \in Judge, NEW t \in Threshold, Warm(j, t)
  PROVE  WarmInv'
  <1>1. PICK T : T = {p \in CandidatePairs(t) : Verdict(j, p[1], p[2]) = {}}
    OBVIOUS
  <1>2. groom' = [AtRest EXCEPT !.step = "warm", !.judge = j, !.near = t, !.todo = T]
    BY <1>1 DEF Warm
  <1>3. /\ groom'.step = "warm" /\ ~groom'.asked /\ groom'.judge = j /\ groom'.near = t
        /\ groom'.todo = T
    BY <1>2 DEF AtRest
  <1>4. CandidatePairs(t)' = CandidatePairs(t)
    BY SameView DEF Warm, CandidatePairs, vars, Live
  <1>5. \A p \in CandidatePairs(t) \ T : Verdict(j, p[1], p[2])' # {}
    BY <1>1 DEF Warm, Verdict
  <1> QED
    BY <1>3, <1>4, <1>5 DEF WarmInv, Answered, On, PlanSteps

LEMMA WarmJudged ==
  ASSUME GroomInv, WarmInv, NEW p \in Pair, NotJudged(p) \/ \E same \in BOOLEAN : Judged(p, same)
  PROVE  WarmInv'
  <1>1. /\ groom \in GroomRecord /\ groom.step = "warm" /\ UNCHANGED vars /\ ~groom.asked
        /\ verdicts \subseteq verdicts'
    BY DEF GroomInv, GroomTypeOK, Judged, NotJudged, On, WarmInv, PlanSteps
  <1>2. CASE NotJudged(p)
    <2>1. groom'.step = "warm" /\ groom'.failed /\ groom'.asked = groom.asked
      BY <1>1, <1>2 DEF NotJudged, GroomRecord
    <2> QED
      BY <1>1, <2>1 DEF WarmInv, On, PlanSteps
  <1>3. ASSUME NEW same \in BOOLEAN, Judged(p, same)
        PROVE  WarmInv'
    <2>1. /\ groom'.step = "warm" /\ groom'.failed = groom.failed /\ groom'.asked = groom.asked
          /\ groom'.todo = groom.todo \ {p}
          /\ groom'.judge = groom.judge /\ groom'.near = groom.near
      BY <1>1, <1>3 DEF Judged, GroomRecord
    <2>2. Answered(p)'
      <3>1. <<groom.judge, p[1], p[2], same>> \in verdicts'
        BY <1>3 DEF Judged
      <3>2. same \in Verdict(groom.judge, p[1], p[2])'
        BY <2>1, <3>1 DEF Verdict
      <3> QED
        BY <2>1, <3>2 DEF Answered
    <2>3. \/ groom.failed
          \/ \A q \in CandidatePairs(groom.near) \ groom.todo : Answered(q)
      BY <1>1 DEF WarmInv, On
    <2>4. \/ groom'.failed
          \/ \A q \in CandidatePairs(groom.near)' \ groom'.todo : Answered(q)'
      BY <1>1, <2>1, <2>2, <2>3, AnswersStay
    <2> QED
      BY <1>1, <2>1, <2>4 DEF WarmInv, On, PlanSteps
  <1> QED
    BY <1>2, <1>3

LEMMA WarmWarmed ==
  ASSUME GroomInv, WarmInv, Warmed
  PROVE  WarmInv'
  <1>1. /\ groom \in GroomRecord /\ groom.step = "warm" /\ groom.todo = {}
        /\ UNCHANGED <<vars, verdicts>>
    BY DEF GroomInv, GroomTypeOK, Warmed, On
  <1>2. /\ groom'.step = "claim" /\ groom'.failed = groom.failed /\ groom'.asked = groom.asked
        /\ groom'.judge = groom.judge /\ groom'.near = groom.near
    BY <1>1 DEF Warmed, GroomRecord
  <1>3. ~groom.asked /\ (groom.failed \/ \A p \in CandidatePairs(groom.near) : Answered(p))
    BY <1>1 DEF WarmInv, On, PlanSteps
  <1>4. groom'.failed \/ \A p \in CandidatePairs(groom.near)' : Answered(p)'
    BY <1>1, <1>2, <1>3, AnswersStay
  <1> QED
    BY <1>2, <1>3, <1>4 DEF WarmInv, On, PlanSteps

LEMMA WarmPlanner ==
  ASSUME GroomInv, WarmInv,
         NoneLeft \/ \E m \in ClaimId : Examine(m) \/ PassOver(m)
  PROVE  WarmInv'
  <1>1. groom \in GroomRecord /\ groom.step \in PlanSteps /\ UNCHANGED <<vars, verdicts>>
    BY DEF GroomInv, GroomTypeOK, Examine, PassOver, NoneLeft, Turn, On, PlanSteps
  <1>2. /\ groom'.step \in PlanSteps /\ groom'.failed = groom.failed
        /\ groom'.asked = groom.asked
        /\ groom'.judge = groom.judge /\ groom'.near = groom.near
    <2>1. CASE \E m \in ClaimId : Examine(m)
      <3>1. PICK m, A : groom' = [groom EXCEPT !.step = "neighbour", !.claim = m,
                                               !.left = groom.left \ {m}, !.around = A]
        BY <2>1 DEF Examine
      <3> QED
        BY <1>1, <3>1 DEF GroomRecord, PlanSteps
    <2>2. CASE \E m \in ClaimId : PassOver(m)
      BY <1>1, <2>2 DEF PassOver, GroomRecord
    <2>3. CASE NoneLeft
      BY <1>1, <2>3 DEF NoneLeft, GroomRecord, PlanSteps
    <2> QED
      BY <2>1, <2>2, <2>3
  <1>3. \/ groom.failed
        \/ ~groom.asked /\ \A p \in CandidatePairs(groom.near) : Answered(p)
    BY <1>1 DEF WarmInv
  <1>4. \/ groom'.failed
        \/ ~groom'.asked /\ \A p \in CandidatePairs(groom.near)' : Answered(p)'
    BY <1>1, <1>2, <1>3, AnswersStay
  <1> QED
    BY <1>2, <1>4 DEF WarmInv, On, PlanSteps

(* Whom the planner compares is a candidate pair.                          *)
LEMMA WarmCompare ==
  ASSUME GroomInv, WarmInv, NEW m \in ClaimId, NEW same \in BOOLEAN, Compare(m, same)
  PROVE  WarmInv'
  <1> DEFINE known == Verdict(groom.judge, m, groom.claim)
  <1>1. /\ groom \in GroomRecord /\ groom.step = "neighbour" /\ UNCHANGED vars
        /\ m \in groom.around /\ verdicts \subseteq verdicts'
    BY DEF GroomInv, GroomTypeOK, Compare, Turn, On
  <1>2. PICK P, A, b :
          /\ groom' = [groom EXCEPT !.pairs = P, !.around = A, !.asked = b]
          /\ b = (groom.asked \/ known = {})
    BY DEF Compare
  <1>3. /\ groom'.step = "neighbour" /\ groom'.failed = groom.failed /\ groom'.asked = b
        /\ groom'.judge = groom.judge /\ groom'.near = groom.near
    BY <1>1, <1>2 DEF GroomRecord
  <1>4. <<m, groom.claim>> \in CandidatePairs(groom.near)
    <2>1. groom.claim \in LiveClaims /\ m \in Neighbours(groom.claim, groom.near)
      BY <1>1 DEF GroomInv, Planning, On
    <2> QED
      BY <2>1 DEF CandidatePairs, LiveClaims
  <1>5. \/ groom.failed
        \/ ~groom.asked /\ \A p \in CandidatePairs(groom.near) : Answered(p)
    BY <1>1 DEF WarmInv, PlanSteps
  <1>6. \/ groom.failed
        \/ ~b /\ \A p \in CandidatePairs(groom.near) : Answered(p)
    BY <1>2, <1>4, <1>5 DEF Answered
  <1>7. \/ groom'.failed
        \/ ~groom'.asked /\ \A p \in CandidatePairs(groom.near)' : Answered(p)'
    BY <1>1, <1>3, <1>6, AnswersStay
  <1> QED
    BY <1>3, <1>7 DEF WarmInv, On, PlanSteps

(* While a pair is at work, and outside groom, nothing is asked.           *)
LEMMA WarmOthers ==
  ASSUME GroomInv, WarmInv,
         \/ PairGone \/ ReadPair \/ WriteSurvivor \/ WriteMerged \/ Unlink \/ CountGained
         \/ MarkAbsorbed \/ GroomKilled \/ Planned \/ GivesUp
         \/ \E s \in Source : Derive(s) \/ Withdraw(s)
  PROVE  WarmInv'
  <1>1. CASE Planned \/ GivesUp \/ MarkAbsorbed \/ GroomKilled
    BY <1>1, WarmAtRest DEF Planned, GivesUp, MarkAbsorbed, GroomKilled
  <1>2. CASE ReadPair
    <2>1. PICK v, a, u : groom' = [AtRest EXCEPT !.step = "survivor", !.survivor = v,
                                                 !.absorbed = a, !.under = u]
      BY <1>2 DEF ReadPair
    <2>2. groom'.step = "survivor" /\ ~groom'.asked
      BY <2>1 DEF AtRest
    <2> QED
      BY <2>2 DEF WarmInv, On, PlanSteps
  <1>3. CASE PairGone \/ \E s \in Source : Derive(s) \/ Withdraw(s)
    <2>1. groom' = groom /\ groom.step = "rest"
      BY <1>3 DEF PairGone, Free, Derive, Withdraw, On, groomVars
    <2> QED
      BY <2>1 DEF WarmInv, On, PlanSteps
  <1>4. ASSUME NEW a \in PairSteps, NEW b \in PairSteps, Statement(a, b)
        PROVE  WarmInv'
    <2>1. groom \in GroomRecord /\ groom.step = a /\ groom' = [groom EXCEPT !.step = b]
      BY <1>4 DEF GroomInv, GroomTypeOK, Statement, On
    <2>2. groom'.step = b /\ groom'.asked = groom.asked
      BY <2>1 DEF GroomRecord
    <2> QED
      BY <2>1, <2>2 DEF WarmInv, On, PlanSteps, PairSteps
  <1> QED
    BY <1>1, <1>2, <1>3, <1>4 DEF WriteSurvivor, WriteMerged, Unlink, CountGained, PairSteps

LEMMA WarmStep ==
  ASSUME GroomInv, WarmInv, [GroomNext]_groomed
  PROVE  WarmInv'
  <1>1. CASE GroomCommand
    BY <1>1, WarmWarm, WarmJudged, WarmWarmed, WarmPlanner, WarmCompare, WarmOthers
       DEF GroomCommand, Pair
  <1>2. CASE \E s \in Source : Derive(s) \/ Withdraw(s)
    BY <1>2, WarmOthers
  <1>3. CASE UNCHANGED groomed
    <2>1. UNCHANGED <<vars, verdicts, groom>>
      BY <1>3 DEF groomed, groomVars
    <2>2. /\ CandidatePairs(groom.near)' = CandidatePairs(groom.near)
          /\ \A p : Answered(p) => Answered(p)'
      BY <2>1, AnswersStay
    <2> QED
      BY <2>1, <2>2 DEF WarmInv, On
  <1> QED
    BY <1>1, <1>2, <1>3 DEF GroomNext

(* A pass whose parallel calls were all answered has a verdict of every    *)
(* pair that the planner, which sees the same corpus, comes to: it asks    *)
(* for none.                                                               *)
THEOREM WarmingSuffices == GroomSpec => []WarmedPlansAreFree
  <1>1. GroomInit => GroomInv /\ WarmInv
    BY GroomInit1 DEF GroomInit, WarmInv, AtRest, On, PlanSteps
  <1>2. GroomInv /\ WarmInv /\ [GroomNext]_groomed => GroomInv' /\ WarmInv'
    BY InvStep, WarmStep
  <1> QED
    BY <1>1, <1>2, WarmImplies, PTL DEF GroomSpec
-----------------------------------------------------------------------------
(* groom implements the grooming of Corpus. *)

(* The instance has its own copies of what does not speak of the state.    *)
LEMMA SameCardinality == \A S : Before!Cardinality(S) = Cardinality(S)
BY DEF Before!Cardinality, Cardinality

LEMMA SameResolve == \A R, c : Before!resolve_live(R, c) = resolve_live(R, c)
BY SameCardinality, Zenon
   DEF Before!resolve_live, resolve_live, Before!Hop, Hop, Before!ClaimId, ClaimId,
       Before!Candidate, Candidate

LEMMA SameClaims ==
  Before!ClaimId = ClaimId /\ \A c : Before!Owner(c) = Owner(c)
BY DEF Before!ClaimId, ClaimId, Before!Candidate, Candidate, Before!Owner, Owner

(* At rest both see the same.                                              *)
LEMMA SameAtRest ==
  ASSUME On("rest")
  PROVE  LiveBefore = live /\ MergedBefore = merged /\ RowsBefore = rows
BY DEF On, LiveBefore, MergedBefore, RowsBefore

LEMMA SameAtRestNext ==
  ASSUME On("rest"), groom' = groom
  PROVE  LiveBefore' = live' /\ MergedBefore' = merged' /\ RowsBefore' = rows'
BY DEF On, LiveBefore, MergedBefore, RowsBefore

LEMMA RefineDedup ==
  ASSUME On("rest"), groom' = groom, NEW s \in Source, Dedup(s)
  PROVE  Before!Dedup(s)
  <1> USE SameAtRest, SameAtRestNext
  <1>1. CASE Begin(s)
    <2>1. Before!Begin(s)
      BY <1>1, SameClaims
         DEF Begin, Before!Begin, corpus, Before!corpus, At, Before!At, AtWork, Before!AtWork,
             Owned, Before!Owned, Judging, Before!Judging
    <2> QED
      BY <2>1 DEF Before!Dedup
  <1>2. ASSUME NEW m \in ClaimId, Match(s, m)
        PROVE  Before!Dedup(s)
    <2>1. Before!Match(s, m)
      BY <1>2, SameClaims, SameResolve
         DEF Match, Before!Match, corpus, Before!corpus, At, Before!At, Candidates,
             Before!Candidates, Chosen, Before!Chosen
    <2> QED
      BY <2>1, SameClaims DEF Before!Dedup
  <1>3. CASE Attest(s)
    <2>1. Before!Attest(s)
      BY <1>3
         DEF Attest, Before!Attest, At, Before!At, Emphasis, Before!Emphasis, SameAuthor,
             Before!SameAuthor, NextCandidate, Before!NextCandidate, Judging, Before!Judging,
             Here, Before!Here
    <2> QED
      BY <2>1 DEF Before!Dedup
  <1>4. CASE Bump(s)
    <2>1. Before!Bump(s)
      BY <1>4
         DEF Bump, Before!Bump, At, Before!At, WithCount, Before!WithCount, NextCandidate,
             Before!NextCandidate, Judging, Before!Judging
    <2> QED
      BY <2>1 DEF Before!Dedup
  <1>5. CASE Create(s)
    <2>1. Before!Create(s)
      BY <1>5
         DEF Create, Before!Create, At, Before!At, Candidates, Before!Candidates, Chosen,
             Before!Chosen, Here, Before!Here
    <2> QED
      BY <2>1 DEF Before!Dedup
  <1>6. CASE Insert(s)
    <2>1. Before!Insert(s)
      BY <1>6 DEF Insert, Before!Insert, At, Before!At
    <2> QED
      BY <2>1 DEF Before!Dedup
  <1>7. CASE Index(s)
    <2>1. Before!Index(s)
      BY <1>7 DEF Index, Before!Index, At, Before!At, NextCandidate, Before!NextCandidate,
                  Judging, Before!Judging
    <2> QED
      BY <2>1 DEF Before!Dedup
  <1>8. CASE End(s) \/ Crash(s)
    <2>1. Before!End(s) \/ Before!Crash(s)
      BY <1>8 DEF End, Before!End, Crash, Before!Crash, corpus, Before!corpus, At, Before!At,
                  Idle, Before!Idle
    <2> QED
      BY <2>1 DEF Before!Dedup
  <1> QED
    BY <1>1, <1>2, <1>3, <1>4, <1>5, <1>6, <1>7, <1>8 DEF Dedup

LEMMA RefineRetract ==
  ASSUME On("rest"), groom' = groom, NEW s \in Source, Retract(s)
  PROVE  Before!Retract(s)
  <1> USE SameAtRest, SameAtRestNext
  <1>1. Before!Owned(s) = Owned(s) /\ Before!AtWork = AtWork
    BY SameClaims DEF Owned, Before!Owned, AtWork, Before!AtWork
  <1>2. Before!Unmerged(s) = Unmerged(s) /\ Before!Survivors(s) = Survivors(s)
    BY <1>1, SameClaims DEF Unmerged, Before!Unmerged, Survivors, Before!Survivors
  <1>3. \A c : Before!Restored(s, c) = Restored(s, c)
    BY <1>2 DEF Restored, Before!Restored
  <1>4. \A c : Before!Kept(s, c) = Kept(s, c)
    BY <1>3 DEF Kept, Before!Kept
  <1>5. Before!Detached(s) = Detached(s)
    BY <1>1, <1>2, <1>3, <1>4, SameClaims DEF Detached, Before!Detached, Live, Before!Live
  <1>6. ASSUME NEW c
        PROVE  Before!Less(RowsBefore[c].count,
                 Before!Cardinality(Before!Restored(s, c) \ Before!Kept(s, c)))
               = Less(rows[c].count, Cardinality(Restored(s, c) \ Kept(s, c)))
    BY <1>3, <1>4, SameCardinality DEF Less, Before!Less
  <1>7. PICK W : W = Writes(s) /\ W = Before!Writes(s)
    BY <1>1, <1>2, <1>5
       DEF Writes, Before!Writes, Restoring, Before!Restoring, Cleaning, Before!Cleaning,
           Removing, Before!Removing
  <1>8. RetractWrites(s, W)
    BY <1>7 DEF Retract
  <1>9. LiveBefore' = [c \in Before!ClaimId |->
                         IF <<"unlink", c>> \in W THEN NoNote
                         ELSE IF <<"strip", c>> \in W THEN Before!Kept(s, c)
                         ELSE IF <<"restore", c>> \in W THEN Before!Restored(s, c)
                         ELSE LiveBefore[c]]
    BY <1>3, <1>4, <1>8, SameClaims DEF RetractWrites
  <1>10. MergedBefore' = [c \in Before!ClaimId |->
                            IF <<"move", c>> \in W \/ <<"unput", c>> \in W THEN NoNote
                            ELSE MergedBefore[c]]
    BY <1>8, SameClaims DEF RetractWrites
  <1> DEFINE Fewer(c) == Less(rows[c].count, Cardinality(Restored(s, c) \ Kept(s, c)))
             FewerBefore(c) == Before!Less(RowsBefore[c].count,
                                 Before!Cardinality(Before!Restored(s, c) \ Before!Kept(s, c)))
  <1>11. rows' = [c \in ClaimId |->
                    IF <<"delete", c>> \in W \/ rows[c] = NoRow THEN NoRow
                    ELSE [count |-> IF <<"lower", c>> \in W THEN Fewer(c) ELSE rows[c].count,
                          into |-> IF <<"unmerge", c>> \in W THEN Nobody ELSE rows[c].into]]
    BY <1>8 DEF RetractWrites
  <1>12. \A c : FewerBefore(c) = Fewer(c)
    BY <1>6
  <1> HIDE DEF Fewer
  <1>13. RowsBefore' =
          [c \in Before!ClaimId |->
             IF <<"delete", c>> \in W \/ RowsBefore[c] = NoRow THEN NoRow
             ELSE [count |-> IF <<"lower", c>> \in W THEN FewerBefore(c)
                             ELSE RowsBefore[c].count,
                   into |-> IF <<"unmerge", c>> \in W THEN Nobody ELSE RowsBefore[c].into]]
    <2> HIDE DEF FewerBefore
    <2> QED
      BY <1>11, <1>12, SameClaims
  <1>14. vecs' = {c \in vecs : <<"unindex", c>> \notin W}
    BY <1>8 DEF RetractWrites
  <1>15. Before!RetractWrites(s, W)
    BY <1>9, <1>10, <1>13, <1>14 DEF Before!RetractWrites
  <1> QED
    BY <1>1, <1>7, <1>15 DEF Retract, Before!Retract

(* No claim is absorbed twice, so a plan is no longer than there are       *)
(* claims.                                                                 *)
LEMMA PlansAreShort ==
  ASSUME GroomInv
  PROVE  Len(groom.pairs) \in Nat /\ Len(groom.pairs) <= MaxMerges
  <1>1. groom.pairs \in Seq(Pair)
    BY DEF GroomInv, GroomTypeOK, GroomRecord
  <1>2. PICK n \in Nat : n = Len(groom.pairs) /\ DOMAIN groom.pairs = 1..n
    BY <1>1
  <1>3. MaxMerges \in Nat /\ MaxMerges >= Cardinality(ClaimId)
    BY Bounds, GroomingAssumption
  <1>4. CASE n > Cardinality(ClaimId)
    <2> DEFINE f == [i \in 1..n |-> groom.pairs[i][2]]
    <2>1. f \in [1..n -> ClaimId]
      BY <1>1, <1>2 DEF Pair
    <2>2. IsFiniteSet(1..n) /\ Cardinality(1..n) = n
      BY <1>2, FS_Interval
    <2>3. Cardinality(ClaimId) < Cardinality(1..n)
      BY <1>4, <2>2, ClaimsAreFinite
    <2> HIDE DEF f
    <2>4. \E i, j \in 1..n : i # j /\ f[i] = f[j]
      BY <2>1, <2>2, <2>3, ClaimsAreFinite, FS_PigeonHole
    <2> USE DEF f
    <2>5. PICK i \in 1..n, j \in 1..n : i < j /\ groom.pairs[i][2] = groom.pairs[j][2]
      BY <2>4
    <2> QED
      BY <1>2, <2>5 DEF GroomInv, Planning, PairsSoFar
  <1> QED
    BY <1>2, <1>3, <1>4, ClaimsAreFinite

LEMMA RefinePlanned ==
  ASSUME GroomInv, Planned
  PROVE  Before!MakePlan \/ UNCHANGED Before!vars
  <1>1. /\ groom.step = "claim" /\ AtWork = {} /\ plan = << >> /\ groom'.step = "rest"
        /\ plan' = groom.pairs /\ file' = groom.pairs /\ file = << >>
        /\ UNCHANGED <<corpus, work, run, withdrawn, crashes, killed, cut>>
    BY RestIsTyped DEF Planned, On, GroomInv, Alone, PlanSteps
  <1>2. /\ LiveBefore = live /\ MergedBefore = merged /\ RowsBefore = rows
        /\ LiveBefore' = live' /\ MergedBefore' = merged' /\ RowsBefore' = rows'
    BY <1>1 DEF LiveBefore, MergedBefore, RowsBefore, On
  <1>3. UNCHANGED <<RowsBefore, vecs, LiveBefore, MergedBefore, work, run, withdrawn, crashes,
                   killed, cut>>
    BY <1>1, <1>2 DEF corpus
  <1>4. CASE groom.pairs = << >>
    BY <1>1, <1>3, <1>4 DEF Before!vars
  <1>5. CASE groom.pairs # << >>
    <2>1. /\ Len(groom.pairs) \in 1..MaxMerges
          /\ groom.pairs \in [1..Len(groom.pairs) -> Indexed \X Indexed]
          /\ DOMAIN groom.pairs = 1..Len(groom.pairs)
      <3>1. groom.pairs \in Seq(Pair)
        BY DEF GroomInv, GroomTypeOK, GroomRecord
      <3>2. DOMAIN groom.pairs = 1..Len(groom.pairs) /\ Len(groom.pairs) # 0
        BY <1>5, <3>1
      <3>3. \A i \in DOMAIN groom.pairs : groom.pairs[i] \in Indexed \X Indexed
        BY DEF GroomInv, Planning, PairsSoFar
      <3>4. groom.pairs = [i \in DOMAIN groom.pairs |-> groom.pairs[i]]
        BY <3>1
      <3> QED
        BY <3>2, <3>3, <3>4, PlansAreShort, Bounds
    <2>2. /\ \A i \in DOMAIN groom.pairs : groom.pairs[i][1] # groom.pairs[i][2]
          /\ \A i, j \in DOMAIN groom.pairs :
               i < j => groom.pairs[i][2] \notin {groom.pairs[j][1], groom.pairs[j][2]}
      BY DEF GroomInv, Planning, PairsSoFar
    <2>3. Before!Indexed = Indexed /\ Before!AtWork = AtWork
      BY <1>2 DEF Before!Indexed, Indexed, Before!AtWork, AtWork
    <2>4. groom.pairs \in Before!Plans
      BY <2>1, <2>2, <2>3 DEF Before!Plans
    <2> QED
      BY <1>1, <1>3, <2>3, <2>4 DEF Before!MakePlan, Before!corpus
  <1> QED
    BY <1>4, <1>5

LEMMA RefinePairGone ==
  ASSUME GroomInv, PairGone
  PROVE  Before!Skip
  <1>1. /\ groom' = groom /\ groom.step = "rest" /\ AtWork = {} /\ plan # << >>
        /\ NoNote \in {live[Head(plan)[1]], live[Head(plan)[2]]} /\ NextPair
        /\ UNCHANGED <<corpus, work, run, withdrawn, crashes, killed, cut>>
    BY DEF PairGone, Free, On, Survivor, Loser, groomVars
  <1>2. /\ LiveBefore = live /\ MergedBefore = merged /\ RowsBefore = rows
        /\ LiveBefore' = live' /\ MergedBefore' = merged' /\ RowsBefore' = rows'
    BY <1>1, SameAtRest, SameAtRestNext DEF On
  <1> QED
    BY <1>1, <1>2 DEF Before!Skip, Before!corpus, corpus, Before!AtWork, AtWork,
                      Before!NextPair, NextPair

(* What Corpus sees while a pair is at work.                               *)
PairSeen ==
  GroomInv /\ groom.step \in PairSteps =>
    /\ LiveBefore \in [ClaimId -> {NoNote} \cup Note]
    /\ MergedBefore \in [ClaimId -> {NoNote} \cup Note]
    /\ LiveBefore[Survivor] = groom.survivor /\ LiveBefore[Loser] = groom.absorbed
    /\ MergedBefore[Loser] = groom.under
    /\ \A c \in ClaimId \ {Survivor, Loser} : LiveBefore[c] = live[c]
    /\ \A c \in ClaimId \ {Loser} : MergedBefore[c] = merged[c]

LEMMA Seen == PairSeen
  <1> SUFFICES ASSUME GroomInv, groom.step \in PairSteps
               PROVE  /\ LiveBefore \in [ClaimId -> {NoNote} \cup Note]
                      /\ MergedBefore \in [ClaimId -> {NoNote} \cup Note]
                      /\ LiveBefore[Survivor] = groom.survivor
                      /\ LiveBefore[Loser] = groom.absorbed
                      /\ MergedBefore[Loser] = groom.under
                      /\ \A c \in ClaimId \ {Survivor, Loser} : LiveBefore[c] = live[c]
                      /\ \A c \in ClaimId \ {Loser} : MergedBefore[c] = merged[c]
    BY DEF PairSeen
  <1>1. /\ Survivor \in ClaimId /\ Loser \in ClaimId /\ Survivor # Loser
        /\ groom.survivor \in Note /\ groom.absorbed \in Note
        /\ groom.under \in {NoNote} \cup Note
    BY AtHand DEF GroomInv, Alone, GroomTypeOK, GroomRecord
  <1>2. /\ live \in [ClaimId -> {NoNote} \cup Note]
        /\ merged \in [ClaimId -> {NoNote} \cup Note]
    BY DEF GroomInv, TypeInv, CorpusTypeOK
  <1>3. On("survivor") => live[Survivor] = groom.survivor /\ live[Loser] = groom.absorbed
    BY DEF GroomInv, Halfway, On, PairSteps
  <1>4. groom.step \in {"survivor", "move"} => merged[Loser] = groom.under
    BY DEF GroomInv, Halfway
  <1>5. CASE groom.step \in {"move", "unlink", "count", "mark"}
    <2>1. LiveBefore = [live EXCEPT ![Survivor] = groom.survivor, ![Loser] = groom.absorbed]
      BY <1>5 DEF LiveBefore
    <2>2. /\ LiveBefore \in [ClaimId -> {NoNote} \cup Note]
          /\ LiveBefore[Survivor] = groom.survivor /\ LiveBefore[Loser] = groom.absorbed
          /\ \A c \in ClaimId \ {Survivor, Loser} : LiveBefore[c] = live[c]
      BY <1>1, <1>2, <2>1
    <2>3. CASE On("move")
      BY <1>2, <1>4, <2>2, <2>3 DEF MergedBefore, On
    <2>4. CASE ~On("move")
      <3>1. MergedBefore = [merged EXCEPT ![Loser] = groom.under]
        BY <1>5, <2>4 DEF MergedBefore, On
      <3> QED
        BY <1>1, <1>2, <2>2, <3>1
    <2> QED
      BY <2>3, <2>4
  <1>6. CASE On("survivor")
    BY <1>1, <1>2, <1>3, <1>4, <1>6 DEF LiveBefore, MergedBefore, On
  <1> QED
    BY <1>5, <1>6 DEF On, PairSteps

LEMMA SeenNext == PairSeen'
BY Seen, PTL

(* While nothing of it changes but the two notes, Corpus sees nothing.     *)
LEMMA NothingSeen ==
  ASSUME GroomInv, GroomInv', groom.step \in PairSteps, groom'.step \in PairSteps,
         UNCHANGED <<Survivor, Loser, groom.survivor, groom.absorbed, groom.under>>,
         \A c \in ClaimId \ {Survivor, Loser} : live'[c] = live[c],
         \A c \in ClaimId \ {Loser} : merged'[c] = merged[c]
  PROVE  LiveBefore' = LiveBefore /\ MergedBefore' = MergedBefore
  <1>1. PICK F, G, H, K : /\ F = LiveBefore /\ G = LiveBefore'
                          /\ H = MergedBefore /\ K = MergedBefore'
    OBVIOUS
  <1>2. /\ F \in [ClaimId -> {NoNote} \cup Note] /\ H \in [ClaimId -> {NoNote} \cup Note]
        /\ F[Survivor] = groom.survivor /\ F[Loser] = groom.absorbed /\ H[Loser] = groom.under
        /\ \A c \in ClaimId \ {Survivor, Loser} : F[c] = live[c]
        /\ \A c \in ClaimId \ {Loser} : H[c] = merged[c]
    BY <1>1, Seen DEF PairSeen
  <1>3. /\ G \in [ClaimId -> {NoNote} \cup Note] /\ K \in [ClaimId -> {NoNote} \cup Note]
        /\ G[Survivor] = groom.survivor /\ G[Loser] = groom.absorbed /\ K[Loser] = groom.under
        /\ \A c \in ClaimId \ {Survivor, Loser} : G[c] = live'[c]
        /\ \A c \in ClaimId \ {Loser} : K[c] = merged'[c]
    BY <1>1, SeenNext DEF PairSeen
  <1>4. \A c \in ClaimId : F[c] = G[c] /\ H[c] = K[c]
    BY <1>2, <1>3
  <1> QED
    BY <1>1, <1>2, <1>3, <1>4

LEMMA RefineReadPair ==
  ASSUME GroomInv, ReadPair
  PROVE  UNCHANGED Before!vars
  <1>1. groom.step = "rest" /\ groom'.step = "survivor" /\ UNCHANGED vars
    BY DEF ReadPair, Free, On, AtRest
  <1>2. /\ LiveBefore = live /\ MergedBefore = merged /\ RowsBefore = rows
        /\ LiveBefore' = live' /\ MergedBefore' = merged' /\ RowsBefore' = rows'
    BY <1>1 DEF LiveBefore, MergedBefore, RowsBefore, On
  <1> QED
    BY <1>1, <1>2 DEF vars, Before!vars

(* The writes before the rows are counted.                                 *)
LEMMA RefineNotes ==
  ASSUME GroomInv, WriteSurvivor \/ WriteMerged \/ Unlink
  PROVE  UNCHANGED Before!vars
  <1>1. /\ groom.step \in {"survivor", "move", "unlink"} /\ groom'.step \in PairSteps \ {"mark"}
        /\ UNCHANGED <<Survivor, Loser, groom.survivor, groom.absorbed, groom.under>>
        /\ UNCHANGED <<rows, vecs, work, run, plan, file, withdrawn, crashes, killed, cut>>
    <2>1. CASE WriteSurvivor
      BY <2>1, SamePair DEF WriteSurvivor, Statement, On, PairSteps
    <2>2. CASE WriteMerged
      BY <2>2, SamePair DEF WriteMerged, Statement, On, PairSteps
    <2>3. CASE Unlink
      BY <2>3, SamePair DEF Unlink, Statement, On, PairSteps
    <2> QED
      BY <2>1, <2>2, <2>3
  <1>2. GroomInv'
    BY InvWriteSurvivor, InvWriteMerged, InvUnlink
  <1>3. /\ \A c \in ClaimId \ {Survivor, Loser} : live'[c] = live[c]
        /\ \A c \in ClaimId \ {Loser} : merged'[c] = merged[c]
    BY DEF GroomInv, TypeInv, CorpusTypeOK, WriteSurvivor, WriteMerged, Unlink
  <1>4. groom.step \in PairSteps /\ groom'.step \in PairSteps
    BY <1>1 DEF PairSteps
  <1>5. LiveBefore' = LiveBefore /\ MergedBefore' = MergedBefore
    BY <1>1, <1>2, <1>3, <1>4, NothingSeen
  <1>6. RowsBefore' = RowsBefore
    BY <1>1 DEF RowsBefore, On
  <1> QED
    BY <1>1, <1>5, <1>6 DEF Before!vars

(* Once the survivor is counted, its row as it was.                        *)
LEMMA RowSeen ==
  ASSUME GroomInv, On("mark"), rows[Survivor] # NoRow
  PROVE  \E r \in Row : /\ RowsBefore = [rows EXCEPT ![Survivor] = r]
                        /\ r.into = rows[Survivor].into
                        /\ r.count = rows[Survivor].count - Cardinality(Gained)
                        /\ r.count + Cardinality(Gained) = rows[Survivor].count
  <1>1. /\ Survivor \in ClaimId /\ Cardinality(Gained) \in Nat
        /\ rows[Survivor].count - Cardinality(Gained) \in Nat \ {0}
    BY AtHand, GainedIsFinite DEF GroomInv, Alone, Halfway, On, PairSteps
  <1>2. rows[Survivor] \in Row
    BY <1>1 DEF GroomInv, TypeInv, CorpusTypeOK
  <1>3. PICK r : r = [rows[Survivor] EXCEPT !.count = rows[Survivor].count - Cardinality(Gained)]
    OBVIOUS
  <1>4. /\ r \in Row /\ r.into = rows[Survivor].into
        /\ r.count = rows[Survivor].count - Cardinality(Gained)
    BY <1>1, <1>2, <1>3 DEF Row
  <1>5. RowsBefore = [rows EXCEPT ![Survivor] = r]
    BY <1>3 DEF RowsBefore
  <1>6. r.count + Cardinality(Gained) = rows[Survivor].count
    BY <1>1, <1>2, <1>4 DEF Row
  <1> QED
    BY <1>4, <1>5, <1>6

(* A row is its count and what it leads to.                                *)
LEMMA RowIs ==
  ASSUME NEW r \in Row, NEW q \in Row, r.count = q.count, r.into = q.into
  PROVE  r = q
BY DEF Row

LEMMA RefineCountGained ==
  ASSUME GroomInv, CountGained
  PROVE  UNCHANGED Before!vars
  <1>1. /\ groom.step = "count" /\ groom'.step = "mark"
        /\ UNCHANGED <<Survivor, Loser, groom.survivor, groom.absorbed, groom.under>>
        /\ UNCHANGED <<Gained, vecs, live, merged, work, run, plan, file, withdrawn, crashes,
                       killed, cut>>
    BY SamePair DEF CountGained, Statement, On, PairSteps
  <1>2. GroomInv'
    BY InvCountGained
  <1>3. LiveBefore' = LiveBefore /\ MergedBefore' = MergedBefore
    BY <1>1, <1>2, NothingSeen DEF PairSteps
  <1>4. Survivor \in ClaimId /\ Cardinality(Gained) \in Nat
    BY <1>1, AtHand, GainedIsFinite DEF GroomInv, Alone, PairSteps
  <1>5. RowsBefore = rows
    BY <1>1 DEF RowsBefore, On
  <1>6. RowsBefore' = rows
    <2>1. CASE rows[Survivor] = NoRow
      BY <1>1, <2>1, CountEffect DEF RowsBefore
    <2>2. CASE rows[Survivor] # NoRow
      <3>1. PICK q \in Row : /\ rows' = [rows EXCEPT ![Survivor] = q]
                             /\ q.count = rows[Survivor].count + Cardinality(Gained)
                             /\ q.into = rows[Survivor].into
        BY <2>2, CountEffect
      <3>2. /\ rows \in [ClaimId -> Row \cup {NoRow}] /\ rows[Survivor] \in Row
            /\ rows'[Survivor] = q /\ q # NoRow
        BY <1>4, <2>2, <3>1, NullAssumption DEF GroomInv, TypeInv, CorpusTypeOK
      <3>3. rows'[Survivor].count - Cardinality(Gained) = rows[Survivor].count
        BY <1>4, <3>1, <3>2 DEF Row
      <3>4. PICK r : r = [q EXCEPT !.count = q.count - Cardinality(Gained)]
        OBVIOUS
      <3>5. r \in Row /\ r.count = rows[Survivor].count /\ r.into = rows[Survivor].into
        BY <3>1, <3>2, <3>3, <3>4 DEF Row
      <3>6. r = rows[Survivor]
        BY <3>2, <3>5, RowIs
      <3>7. RowsBefore' = [rows' EXCEPT ![Survivor] = r]
        BY <1>1, <3>2, <3>4 DEF RowsBefore, On
      <3> QED
        BY <1>4, <3>1, <3>2, <3>6, <3>7
    <2> QED
      BY <2>1, <2>2
  <1> QED
    BY <1>1, <1>3, <1>5, <1>6 DEF Before!vars

(* How many writes of the pair at hand are made; what Corpus has them make *)
(* of the corpus it saw before them is what there is.                      *)
Written == [survivor |-> 0, move |-> 1, unlink |-> 2, count |-> 3, mark |-> 4][groom.step]

PairOf(v, a, N, n) ==
  /\ v \in ClaimId /\ a \in ClaimId /\ v # a /\ v = Survivor /\ a = Loser
  /\ LiveBefore[v] # NoNote /\ LiveBefore[a] # NoNote
  /\ live = [c \in ClaimId |-> IF c = v /\ n >= 1 THEN LiveBefore[v] \cup N
                               ELSE IF c = a /\ n >= 3 THEN NoNote
                               ELSE LiveBefore[c]]
  /\ merged = [c \in ClaimId |-> IF c = a /\ n >= 2 THEN LiveBefore[a]
                                 ELSE MergedBefore[c]]
  /\ rows = [c \in ClaimId |->
               IF RowsBefore[c] = NoRow THEN NoRow
               ELSE IF c = v /\ n >= 4
               THEN [RowsBefore[v] EXCEPT !.count = @ + Cardinality(N)]
               ELSE RowsBefore[c]]

LEMMA PairWritten ==
  ASSUME GroomInv, groom.step \in PairSteps, NEW v, NEW a, NEW N,
         NEW n \in 0..4, n = Written,
         v = Head(plan)[1], a = Head(plan)[2],
         N = {x \in LiveBefore[a] : \A y \in LiveBefore[v] : y.src # x.src}
  PROVE  PairOf(v, a, N, n)
  <1> DEFINE k == Cardinality(Gained)
  <1>1. /\ v = Survivor /\ a = Loser /\ v \in ClaimId /\ a \in ClaimId /\ v # a /\ k \in Nat
    BY AtHand, GainedIsFinite DEF Survivor, Loser, GroomInv, Alone
  <1>2. /\ LiveBefore \in [ClaimId -> {NoNote} \cup Note]
        /\ MergedBefore \in [ClaimId -> {NoNote} \cup Note]
        /\ LiveBefore[v] = groom.survivor /\ LiveBefore[a] = groom.absorbed
        /\ MergedBefore[a] = groom.under
        /\ \A c \in ClaimId \ {v, a} : LiveBefore[c] = live[c]
        /\ \A c \in ClaimId \ {a} : MergedBefore[c] = merged[c]
    BY <1>1, Seen DEF PairSeen
  <1>3. N = Gained
    BY <1>2 DEF Gained
  <1>4. /\ live \in [ClaimId -> {NoNote} \cup Note] /\ merged \in [ClaimId -> {NoNote} \cup Note]
        /\ rows \in [ClaimId -> Row \cup {NoRow}]
        /\ groom.survivor \in Note /\ groom.absorbed \in Note
    BY DEF GroomInv, TypeInv, CorpusTypeOK, GroomTypeOK, GroomRecord
  <1>5. /\ n >= 1 <=> ~On("survivor")
        /\ n >= 2 <=> groom.step \notin {"survivor", "move"}
        /\ n >= 3 <=> groom.step \in {"count", "mark"}
        /\ n >= 4 <=> On("mark")
    BY DEF Written, PairSteps, On
  <1>6. /\ live[v] = IF On("survivor") THEN groom.survivor ELSE groom.survivor \cup Gained
        /\ live[a] = IF groom.step \in {"count", "mark"} THEN NoNote ELSE groom.absorbed
        /\ merged[a] = IF groom.step \in {"survivor", "move"} THEN groom.under
                       ELSE groom.absorbed
    BY <1>1 DEF GroomInv, Halfway
  <1>7. LiveBefore[v] # NoNote /\ LiveBefore[a] # NoNote
    BY <1>2, <1>4, NullAssumption
  <1>8. live = [c \in ClaimId |-> IF c = v /\ n >= 1 THEN LiveBefore[v] \cup N
                                  ELSE IF c = a /\ n >= 3 THEN NoNote
                                  ELSE LiveBefore[c]]
    BY <1>1, <1>2, <1>3, <1>4, <1>5, <1>6
  <1>9. merged = [c \in ClaimId |-> IF c = a /\ n >= 2 THEN LiveBefore[a]
                                    ELSE MergedBefore[c]]
    BY <1>1, <1>2, <1>4, <1>5, <1>6
  <1> HIDE DEF k
  <1> DEFINE Counted(r) == [r EXCEPT !.count = r.count + k]
  <1>10. rows = [c \in ClaimId |->
                   IF RowsBefore[c] = NoRow THEN NoRow
                   ELSE IF c = v /\ n >= 4 THEN Counted(RowsBefore[v]) ELSE RowsBefore[c]]
    <2>1. CASE ~On("mark") \/ rows[v] = NoRow
      <3>1. RowsBefore = rows
        BY <1>1, <2>1 DEF RowsBefore
      <3>2. \A c \in ClaimId : RowsBefore[c] # NoRow => ~(c = v /\ n >= 4)
        BY <1>5, <2>1, <3>1
      <3> HIDE DEF Counted
      <3> QED
        BY <1>4, <3>1, <3>2
    <2>2. CASE On("mark") /\ rows[v] # NoRow
      <3>1. PICK r \in Row : /\ RowsBefore = [rows EXCEPT ![v] = r]
                             /\ r.into = rows[v].into
                             /\ r.count + k = rows[v].count
        BY <1>1, <2>2, RowSeen DEF k
      <3>2. rows[v] \in Row
        BY <1>1, <1>4, <2>2
      <3>3. PICK q : q = Counted(r)
        OBVIOUS
      <3>4. q \in Row /\ q.count = rows[v].count /\ q.into = rows[v].into
        BY <1>1, <3>1, <3>2, <3>3 DEF Row
      <3>5. Counted(r) = rows[v]
        BY <3>2, <3>3, <3>4, RowIs
      <3> HIDE DEF Counted
      <3>6. r # NoRow /\ RowsBefore[v] = r /\ \A c \in ClaimId \ {v} : RowsBefore[c] = rows[c]
        BY <1>1, <1>4, <3>1, NullAssumption
      <3> QED
        BY <1>1, <1>4, <1>5, <2>2, <3>5, <3>6
    <2> QED
      BY <2>1, <2>2
  <1>11. k = Cardinality(N)
    BY <1>3 DEF k
  <1>12. rows = [c \in ClaimId |->
                   IF RowsBefore[c] = NoRow THEN NoRow
                   ELSE IF c = v /\ n >= 4
                   THEN [RowsBefore[v] EXCEPT !.count = @ + Cardinality(N)]
                   ELSE RowsBefore[c]]
    BY <1>10, <1>11
  <1> QED
    BY <1>1, <1>7, <1>8, <1>9, <1>12 DEF PairOf

(* The last write of a pair is the merge of Corpus.                        *)
LEMMA RefineMark ==
  ASSUME GroomInv, MarkAbsorbed
  PROVE  Before!Merge
  <1>1. /\ plan # << >> /\ groom.step = "mark" /\ groom' = AtRest /\ AtWork = {}
        /\ NextPair
        /\ UNCHANGED <<vecs, live, merged, work, run, withdrawn, crashes, killed, cut>>
    BY MarkEffect DEF GroomInv, Alone, MarkAbsorbed, On
  <1>2. Written = 4 /\ groom.step \in PairSteps
    BY <1>1 DEF Written, PairSteps
  <1>3. LiveBefore' = live /\ MergedBefore' = merged /\ RowsBefore' = rows'
    BY <1>1, RestIsTyped DEF LiveBefore, MergedBefore, RowsBefore, On
  <1>4. PICK v, a, N :
          /\ v = Head(plan)[1] /\ a = Head(plan)[2]
          /\ N = {x \in LiveBefore[a] : \A y \in LiveBefore[v] : y.src # x.src}
    OBVIOUS
  <1>5. PairOf(v, a, N, 4)
    <2>1. 4 \in 0..4 /\ 4 = Written
      BY <1>2
    <2> QED
      BY <1>2, <1>4, <2>1, PairWritten
  <1> DEFINE Into(r) == [r EXCEPT !.into = v]
             Counted(r) == [r EXCEPT !.count = @ + Cardinality(N)]
  <1>6. rows = [c \in ClaimId |-> IF RowsBefore[c] = NoRow THEN NoRow
                                  ELSE IF c = v THEN Counted(RowsBefore[v]) ELSE RowsBefore[c]]
    BY <1>5 DEF PairOf
  <1>7. rows' = IF rows[a] = NoRow THEN rows ELSE [rows EXCEPT ![a] = Into(rows[a])]
    BY <1>5 DEF MarkAbsorbed, PairOf
  <1> HIDE DEF Into, Counted
  <1>8. rows[a] = RowsBefore[a]
    BY <1>5, <1>6 DEF PairOf
  <1>9. rows' = [c \in ClaimId |->
                   IF RowsBefore[c] = NoRow THEN NoRow
                   ELSE IF c = v THEN Counted(RowsBefore[v])
                   ELSE IF c = a THEN Into(RowsBefore[a]) ELSE RowsBefore[c]]
    BY <1>5, <1>6, <1>7, <1>8 DEF PairOf
  <1>10. Before!AtWork = AtWork /\ Before!NextPair
    BY <1>1 DEF Before!AtWork, AtWork, Before!NextPair, NextPair
  <1>11. /\ LiveBefore' = [c \in Before!ClaimId |->
                             IF c = v /\ 5 >= 1 THEN LiveBefore[v] \cup N
                             ELSE IF c = a /\ 5 >= 3 THEN NoNote ELSE LiveBefore[c]]
         /\ MergedBefore' = [c \in Before!ClaimId |->
                               IF c = a /\ 5 >= 2 THEN LiveBefore[a] ELSE MergedBefore[c]]
    BY <1>3, <1>5, SameClaims DEF PairOf
  <1> USE DEF Into, Counted
  <1>12. RowsBefore' = [c \in Before!ClaimId |->
                          IF RowsBefore[c] = NoRow THEN NoRow
                          ELSE IF c = v /\ 5 >= 4
                          THEN [RowsBefore[v] EXCEPT !.count = @ + Before!Cardinality(N)]
                          ELSE IF c = a /\ 5 = 5 THEN [RowsBefore[a] EXCEPT !.into = v]
                          ELSE RowsBefore[c]]
    BY <1>3, <1>9, SameClaims, SameCardinality
  <1> HIDE DEF Into, Counted
  <1>13. Before!MergeWrites(5)
    BY <1>4, <1>5, <1>11, <1>12, Zenon DEF Before!MergeWrites, PairOf
  <1> QED
    BY <1>1, <1>10, <1>13 DEF Before!Merge

(* Killed within a pair, groom leaves what Corpus has it leave.            *)
LEMMA RefineKilled ==
  ASSUME GroomInv, GroomKilled
  PROVE  Before!MergeKilled
  <1>1. /\ plan # << >> /\ groom.step \in PairSteps /\ groom' = AtRest /\ AtWork = {}
        /\ ~On("survivor") \/ plan # file
        /\ crashes < MaxCrashes /\ crashes' = crashes + 1 /\ killed' = killed \cup {"groom"}
        /\ \/ plan' = file /\ UNCHANGED file
           \/ plan' = << >> /\ file' = << >>
        /\ UNCHANGED <<rows, vecs, live, merged, work, run, withdrawn, cut>>
    BY DEF GroomKilled, GroomInv, Alone, On, PairSteps, corpus
  <1>2. LiveBefore' = live /\ MergedBefore' = merged /\ RowsBefore' = rows
    BY <1>1, RestIsTyped DEF LiveBefore, MergedBefore, RowsBefore, On
  <1>3. PICK v, a, N :
          /\ v = Head(plan)[1] /\ a = Head(plan)[2]
          /\ N = {x \in LiveBefore[a] : \A y \in LiveBefore[v] : y.src # x.src}
    OBVIOUS
  <1>4. PICK n \in 0..4 : n = Written /\ (n > 0 \/ plan # file)
    BY <1>1 DEF Written, PairSteps, On
  <1>5. PairOf(v, a, N, n)
    BY <1>1, <1>3, <1>4, PairWritten
  <1> DEFINE Into(r) == [r EXCEPT !.into = v]
             Counted(r) == [r EXCEPT !.count = @ + Before!Cardinality(N)]
  <1>6. rows = [c \in ClaimId |->
                  IF RowsBefore[c] = NoRow THEN NoRow
                  ELSE IF c = v /\ n >= 4 THEN Counted(RowsBefore[v]) ELSE RowsBefore[c]]
    BY <1>5, SameCardinality DEF PairOf
  <1> HIDE DEF Into, Counted
  <1>7. RowsBefore' = [c \in Before!ClaimId |->
                         IF RowsBefore[c] = NoRow THEN NoRow
                         ELSE IF c = v /\ n >= 4 THEN Counted(RowsBefore[v])
                         ELSE IF c = a /\ n = 5 THEN Into(RowsBefore[a])
                         ELSE RowsBefore[c]]
    BY <1>2, <1>4, <1>6, SameClaims
  <1>8. /\ LiveBefore' = [c \in Before!ClaimId |->
                            IF c = v /\ n >= 1 THEN LiveBefore[v] \cup N
                            ELSE IF c = a /\ n >= 3 THEN NoNote ELSE LiveBefore[c]]
        /\ MergedBefore' = [c \in Before!ClaimId |->
                              IF c = a /\ n >= 2 THEN LiveBefore[a] ELSE MergedBefore[c]]
    BY <1>2, <1>5, SameClaims DEF PairOf
  <1> USE DEF Into, Counted
  <1>9. Before!MergeWrites(n)
    BY <1>3, <1>5, <1>7, <1>8, Zenon DEF Before!MergeWrites, PairOf
  <1>10. Before!AtWork = AtWork
    BY DEF Before!AtWork, AtWork
  <1> QED
    BY <1>1, <1>4, <1>9, <1>10 DEF Before!MergeKilled
-----------------------------------------------------------------------------
LEMMA RefineInit ==
  ASSUME GroomInit
  PROVE  Before!Init
  <1>1. Init /\ On("rest")
    BY RestIsTyped DEF GroomInit, On
  <1> QED
    BY <1>1, SameAtRest, SameClaims DEF Init, Before!Init, Idle, Before!Idle

(* Warming and planning change nothing Corpus knows of.                    *)
LEMMA RefineThought ==
  ASSUME groom.step \notin PairSteps, groom'.step \notin PairSteps, UNCHANGED vars
  PROVE  UNCHANGED Before!vars
BY DEF PairSteps, vars, Before!vars, LiveBefore, MergedBefore, RowsBefore, On

LEMMA RefineStep ==
  ASSUME GroomInv, [GroomNext]_groomed
  PROVE  Before!Next \/ UNCHANGED Before!vars
  <1>1. ASSUME NEW j \in Judge, NEW t \in Threshold, Warm(j, t)
        PROVE  UNCHANGED Before!vars
    BY <1>1, RefineThought DEF Warm, Free, On, AtRest, PairSteps
  <1>2. ASSUME NEW p, NotJudged(p) \/ \E same \in BOOLEAN : Judged(p, same)
        PROVE  UNCHANGED Before!vars
    <2>1. groom.step = "warm" /\ groom'.step = "warm" /\ UNCHANGED vars
      BY <1>2 DEF NotJudged, Judged, On, GroomInv, GroomTypeOK, GroomRecord
    <2> QED
      BY <2>1, RefineThought DEF PairSteps
  <1>3. ASSUME NEW c, Examine(c) \/ PassOver(c) \/ (\E same \in BOOLEAN : Compare(c, same))
        PROVE  UNCHANGED Before!vars
    <2>1. /\ groom.step \in PlanSteps /\ groom'.step = "neighbour" /\ UNCHANGED vars
      BY <1>3 DEF Examine, PassOver, Compare, Turn, On, PlanSteps, GroomInv, GroomTypeOK,
                  GroomRecord
    <2> QED
      BY <2>1, RefineThought DEF PairSteps, PlanSteps
  <1>4. CASE Warmed \/ NoneLeft \/ GivesUp
    <2>1. groom.step \in {"warm"} \cup PlanSteps /\ groom'.step \in {"rest", "claim"}
      BY <1>4, RestIsTyped
         DEF Warmed, NoneLeft, GivesUp, On, PlanSteps, GroomInv, GroomTypeOK, GroomRecord
    <2>2. UNCHANGED vars
      BY <1>4 DEF Warmed, NoneLeft, GivesUp
    <2> QED
      BY <2>1, <2>2, RefineThought DEF PairSteps, PlanSteps
  <1>5. CASE Planned \/ PairGone \/ MarkAbsorbed \/ GroomKilled
    BY <1>5, RefinePlanned, RefinePairGone, RefineMark, RefineKilled
       DEF Before!Next, Before!Groom
  <1>6. CASE ReadPair \/ WriteSurvivor \/ WriteMerged \/ Unlink \/ CountGained
    BY <1>6, RefineReadPair, RefineNotes, RefineCountGained
  <1>7. ASSUME NEW s \in Source, Derive(s) \/ Withdraw(s)
        PROVE  Before!Next
    <2>1. On("rest") /\ groom' = groom /\ (Dedup(s) \/ Retract(s))
      BY <1>7 DEF Derive, Withdraw, groomVars
    <2> QED
      BY <2>1, RefineDedup, RefineRetract DEF Before!Next
  <1>8. CASE UNCHANGED groomed
    BY <1>8 DEF groomed, groomVars, vars, Before!vars, LiveBefore, MergedBefore, RowsBefore,
                On, Survivor, Loser, Gained
  <1>9. CASE GroomCommand
    BY <1>1, <1>2, <1>3, <1>4, <1>5, <1>6, <1>9 DEF GroomCommand
  <1> QED
    BY <1>7, <1>8, <1>9 DEF GroomNext

(* GroomInv holds of every behaviour.                                      *)
LEMMA GroomInvariant == GroomSpec => []GroomInv
  <1>1. GroomInit => GroomInv
    BY GroomInit1
  <1>2. GroomInv /\ [GroomNext]_groomed => GroomInv'
    BY InvStep
  <1> QED
    BY <1>1, <1>2, PTL DEF GroomSpec

(* The groom command of corpus_dedup.py, statement by statement and next   *)
(* to dedup and retract, implements Corpus: it makes a plan of Corpus, its *)
(* last write of a pair merges it and, killed within one or between two,   *)
(* it leaves what the killed merge of Corpus leaves.                       *)
THEOREM GroomDoesWhatCorpusSays == GroomSpec => ImplementsCorpus
  <1>1. GroomInit => Before!Init
    BY RefineInit
  <1>2. GroomInv /\ [GroomNext]_groomed
          => [Before!Next]_(Before!vars)
    BY RefineStep
  <1> QED
    BY <1>1, <1>2, GroomInvariant, PTL DEF GroomSpec, ImplementsCorpus, Before!Spec
-----------------------------------------------------------------------------
(* Nothing is lost. *)

(* What a pass relies on, whoever was killed before.                       *)
Pass(s) ==
  LET w == work[s]
  IN  /\ ~At(s, "idle") =>
           \A c \in Owned(s) : c[2] < w.pos \/ (At(s, "index") /\ c = w.claim)
      /\ At(s, "write") => live[w.claim] = w.note
      /\ w.step \in {"insert", "index"} => w.claim = <<s, w.pos>>

PassInv == OneBusy /\ \A s \in Source : Pass(s)

(* x is in a note of c; it is in the one that counts while c has two; it   *)
(* is of the last pass over a source that is not withdrawn.                *)
Says(c, x) == \E note \in {live[c], merged[c]} : note # NoNote /\ x \in note
Holds(c, x) ==
  LET note == IF live[c] # NoNote THEN live[c] ELSE merged[c]
  IN  note # NoNote /\ x \in note
Standing(x) == x.run = run[x.src] /\ x.src \notin withdrawn

(* No attestation is of a pass to come.                                    *)
Begun == \A c \in ClaimId : \A x : Says(c, x) => x \in Attestation /\ x.run <= run[x.src]

(* Where no dedup was killed: notes have rows but for the one that is about *)
(* to get its own, an absorbed claim has no live note, a claim that was    *)
(* left with two notes has what stands in the live one, and what stands of *)
(* an absorbed claim the one that absorbed it has from the same source.    *)
Whole(c) ==
  /\ rows[c] = NoRow /\ ~Fresh(c) => live[c] = NoNote /\ merged[c] = NoNote
  /\ rows[c] # NoRow /\ ~Live(c) => live[c] = NoNote
  /\ \A x : Says(c, x) /\ Standing(x) => Holds(c, x)
  /\ rows[c] # NoRow /\ ~Live(c) =>
       \A x : Says(c, x) /\ Standing(x) => \E y : Holds(rows[c].into, y) /\ y.src = x.src

WholeInv == "dedup" \notin killed => \A c \in ClaimId : Whole(c)

LossInv == GroomInv /\ PassInv /\ GoneInv /\ Begun /\ WholeInv

(* What a step may not take away.                                          *)
Keeps ==
  withdrawn' \subseteq withdrawn /\ run' = run /\ "dedup" \notin killed'
    => \A c \in ClaimId : \A x : Says(c, x) /\ Standing(x) => Says(c, x)' /\ Standing(x)'

LEMMA IdlePass ==
  ASSUME NEW s \in Source, At(s, "idle")'
  PROVE  Pass(s)'
BY DEF Pass, At

(* What a groom command touches, it touches alone.                         *)
LEMMA CommandIsAlone ==
  ASSUME GroomInv, GroomCommand
  PROVE  /\ UNCHANGED <<work, run, withdrawn, older, vecs>>
         /\ AtWork = {} \/ UNCHANGED <<rows, live, merged>>
         /\ "dedup" \in killed' <=> "dedup" \in killed
         /\ \A c \in ClaimId : rows'[c] = NoRow <=> rows[c] = NoRow
  <1>1. /\ UNCHANGED <<work, run, withdrawn, older, vecs>>
        /\ killed' \in {killed, killed \cup {"groom"}}
    <2> DEFINE Same == /\ UNCHANGED <<work, run, withdrawn, older, vecs>>
                       /\ killed' \in {killed, killed \cup {"groom"}}
    <2>1. \/ UNCHANGED <<vars, older>>
          \/ Planned \/ PairGone \/ WriteSurvivor \/ WriteMerged \/ Unlink \/ CountGained
          \/ MarkAbsorbed \/ GroomKilled
      BY DEF GroomCommand, Warm, NotJudged, Judged, Examine, PassOver, Compare, Warmed,
             NoneLeft, GivesUp, ReadPair
    <2>2. UNCHANGED <<vars, older>> => Same
      BY DEF vars
    <2>3. Planned \/ PairGone \/ GroomKilled => Same
      BY DEF Planned, PairGone, GroomKilled, corpus
    <2>4. WriteSurvivor \/ WriteMerged \/ Unlink => Same
      BY DEF WriteSurvivor, WriteMerged, Unlink
    <2>5. CountGained \/ MarkAbsorbed => Same
      BY DEF CountGained, MarkAbsorbed
    <2> HIDE DEF Same
    <2>6. Same
      BY <2>1, <2>2, <2>3, <2>4, <2>5
    <2> QED
      BY <2>6 DEF Same
  <1>2. "dedup" \in killed' <=> "dedup" \in killed
    BY <1>1
  <1>3. \/ UNCHANGED <<rows, live, merged>>
        \/ WriteSurvivor \/ WriteMerged \/ Unlink \/ CountGained \/ MarkAbsorbed
    BY DEF GroomCommand, Warm, NotJudged, Judged, Examine, PassOver, Compare, Warmed, NoneLeft,
           Planned, GivesUp, PairGone, ReadPair, GroomKilled, vars, corpus
  <1>4. WriteSurvivor \/ WriteMerged \/ Unlink \/ CountGained \/ MarkAbsorbed => AtWork = {}
    BY DEF WriteSurvivor, WriteMerged, Unlink, CountGained, MarkAbsorbed, Statement, On,
           GroomInv, Alone
  <1>5. WriteSurvivor \/ WriteMerged \/ Unlink => rows' = rows
    BY DEF WriteSurvivor, WriteMerged, Unlink
  <1>6. ASSUME CountGained \/ MarkAbsorbed, NEW c \in ClaimId
        PROVE  rows'[c] = NoRow <=> rows[c] = NoRow
    <2>1. rows' = rows \/ \E d \in ClaimId, r \in Row :
                             rows' = [rows EXCEPT ![d] = r] /\ rows[d] # NoRow
      <3>1. CASE CountGained
        <4>1. Survivor \in ClaimId
          BY <3>1, SamePair, AtHand DEF CountGained, PairSteps
        <4> QED
          BY <3>1, <4>1, CountEffect
      <3>2. CASE MarkAbsorbed
        <4>1. Loser \in ClaimId
          BY <3>2, MarkEffect, AtHand
        <4> QED
          BY <3>2, <4>1, MarkEffect
      <3> QED
        BY <1>6, <3>1, <3>2
    <2> QED
      BY <2>1, NullAssumption DEF GroomInv, TypeInv, CorpusTypeOK
  <1> QED
    BY <1>1, <1>2, <1>3, <1>4, <1>5, <1>6

LEMMA PassCommand ==
  ASSUME GroomInv, PassInv, GroomCommand
  PROVE  PassInv'
  <1>1. work' = work /\ (AtWork = {} \/ UNCHANGED <<rows, live, merged>>)
    BY CommandIsAlone
  <1>2. CASE AtWork = {}
    BY <1>1, <1>2, NobodyAtWork, IdlePass DEF PassInv, AtWork, At
  <1>3. CASE UNCHANGED <<rows, live, merged>>
    BY <1>1, <1>3 DEF PassInv, OneBusy, AtWork, At, Pass, Owned
  <1> QED
    BY <1>1, <1>2, <1>3

(* One statement of a pass, by what it makes of that pass.                 *)
LEMMA PassMovesOn ==
  ASSUME TypeInv, PassInv, NEW s \in AtWork, NEW p, work' = [work EXCEPT ![s] = p]
  PROVE  OneBusy' /\ work'[s] = p /\ \A t \in Source \ {s} : Pass(t)'
BY OthersRest, IdlePass DEF PassInv, TypeInv, CorpusTypeOK, AtWork

LEMMA PassDerive ==
  ASSUME OneWriter, TypeInv, PassInv, NEW s \in Source, Dedup(s)
  PROVE  PassInv'
  <1>1. CASE Begin(s)
    <2>1. PICK n \in Sizes[s] : work' = [work EXCEPT ![s] = Judging(n, 1)]
      BY <1>1 DEF Begin
    <2>2. /\ work'[s] = Judging(n, 1) /\ rows' = rows /\ Owned(s) = {}
          /\ \A t \in Source \ {s} : work'[t] = work[t] /\ At(t, "idle")
      BY <1>1, <2>1 DEF Begin, TypeInv, CorpusTypeOK, AtWork, At, corpus
    <2>3. OneBusy' /\ \A t \in Source \ {s} : At(t, "idle")'
      BY <2>2 DEF OneBusy, AtWork, At
    <2>4. Pass(s)'
      BY <2>2 DEF Pass, At, Judging, Owned
    <2> QED
      BY <2>3, <2>4, IdlePass DEF PassInv
  <1>2. ASSUME NEW m \in ClaimId, Match(s, m)
        PROVE  PassInv'
    <2>1. PICK c \in ClaimId : work' = [work EXCEPT ![s] = Chosen(s, "write", c, live[c])]
      BY <1>2 DEF Match
    <2>2. s \in AtWork /\ Pass(s)
      BY <1>2 DEF Match, At, AtWork, PassInv
    <2>3. /\ OneBusy' /\ work'[s] = Chosen(s, "write", c, live[c])
          /\ \A t \in Source \ {s} : Pass(t)'
      BY <2>1, <2>2, PassMovesOn
    <2>4. Pass(s)'
      BY <1>2, <2>2, <2>3 DEF Match, corpus, Pass, At, Chosen, Owned
    <2> QED
      BY <2>3, <2>4 DEF PassInv
  <1>3. CASE Attest(s)
    <2>1. PICK p \in {NextCandidate(s), [work[s] EXCEPT !.step = "bump"]} :
            work' = [work EXCEPT ![s] = p]
      BY <1>3 DEF Attest
    <2>2. s \in AtWork /\ Pass(s) /\ work[s] \in Work /\ work[s].pos \in Nat
      BY <1>3, Bounds DEF Attest, At, AtWork, PassInv, TypeInv, CorpusTypeOK, Work
    <2>3. OneBusy' /\ work'[s] = p /\ \A t \in Source \ {s} : Pass(t)'
      BY <2>1, <2>2, PassMovesOn
    <2>4. /\ p.step \in {"judge", "bump"} /\ p.pos \in {work[s].pos, work[s].pos + 1}
      BY <2>2 DEF NextCandidate, Judging, Work
    <2>5. Pass(s)'
      BY <1>3, <2>2, <2>3, <2>4 DEF Attest, Pass, At, Owned, ClaimId, Candidate
    <2> QED
      BY <2>3, <2>5 DEF PassInv
  <1>4. CASE Bump(s)
    <2>1. /\ work' = [work EXCEPT ![s] = NextCandidate(s)] /\ rows' = WithCount(work[s].claim, 1)
          /\ work[s].claim \in ClaimId
      BY <1>4 DEF Bump, At, TypeInv, Control
    <2>2. s \in AtWork /\ Pass(s) /\ work[s] \in Work /\ work[s].pos \in Nat
      BY <1>4, Bounds DEF Bump, At, AtWork, PassInv, TypeInv, CorpusTypeOK, Work
    <2>3. OneBusy' /\ work'[s] = NextCandidate(s) /\ \A t \in Source \ {s} : Pass(t)'
      BY <2>1, <2>2, PassMovesOn
    <2>4. \A c \in ClaimId : rows[c] = NoRow => rows'[c] = NoRow
      BY <2>1 DEF WithCount, TypeInv, CorpusTypeOK
    <2>5. Pass(s)'
      BY <1>4, <2>2, <2>3, <2>4
         DEF Bump, Pass, At, Owned, ClaimId, Candidate, NextCandidate, Judging
    <2> QED
      BY <2>3, <2>5 DEF PassInv
  <1>5. CASE Create(s)
    <2>1. work' = [work EXCEPT ![s] = Chosen(s, "insert", <<s, work[s].pos>>, {})]
      BY <1>5 DEF Create
    <2>2. s \in AtWork /\ Pass(s)
      BY <1>5 DEF Create, At, AtWork, PassInv
    <2>3. /\ OneBusy' /\ work'[s] = Chosen(s, "insert", <<s, work[s].pos>>, {})
          /\ \A t \in Source \ {s} : Pass(t)'
      BY <2>1, <2>2, PassMovesOn
    <2>4. Pass(s)'
      BY <1>5, <2>2, <2>3 DEF Create, Pass, At, Owned, Chosen
    <2> QED
      BY <2>3, <2>4 DEF PassInv
  <1>6. CASE Insert(s)
    <2>1. /\ work' = [work EXCEPT ![s].step = "index"]
          /\ rows' = [rows EXCEPT ![work[s].claim] = [count |-> 1, into |-> Nobody]]
      BY <1>6 DEF Insert
    <2>2. /\ s \in AtWork /\ Pass(s) /\ work[s] \in Work
          /\ work' = [work EXCEPT ![s] = [work[s] EXCEPT !.step = "index"]]
      BY <1>6, <2>1 DEF Insert, At, AtWork, PassInv, TypeInv, CorpusTypeOK
    <2>3. /\ OneBusy' /\ work'[s] = [work[s] EXCEPT !.step = "index"]
          /\ \A t \in Source \ {s} : Pass(t)'
      BY <2>2, PassMovesOn
    <2>4. /\ work'[s].step = "index" /\ work'[s].claim = work[s].claim
          /\ work'[s].pos = work[s].pos
      BY <2>2, <2>3 DEF Work
    <2>5. \A c \in Owned(s)' : c \in Owned(s) \/ c = work[s].claim
      BY <2>1 DEF Owned, TypeInv, CorpusTypeOK
    <2>6. Pass(s)'
      BY <1>6, <2>2, <2>4, <2>5 DEF Insert, Pass, At
    <2> QED
      BY <2>3, <2>6 DEF PassInv
  <1>7. CASE Index(s)
    <2>1. work' = [work EXCEPT ![s] = NextCandidate(s)] /\ rows' = rows
      BY <1>7 DEF Index
    <2>2. s \in AtWork /\ Pass(s) /\ work[s].pos \in Nat
      BY <1>7, Bounds DEF Index, At, AtWork, PassInv, TypeInv, CorpusTypeOK, Work
    <2>3. OneBusy' /\ work'[s] = NextCandidate(s) /\ \A t \in Source \ {s} : Pass(t)'
      BY <2>1, <2>2, PassMovesOn
    <2>4. Pass(s)'
      BY <1>7, <2>1, <2>2, <2>3
         DEF Index, Pass, At, Owned, ClaimId, Candidate, NextCandidate, Judging
    <2> QED
      BY <2>3, <2>4 DEF PassInv
  <1>8. CASE End(s) \/ Crash(s)
    <2>1. work' = [work EXCEPT ![s] = Idle] /\ s \in AtWork
      BY <1>8 DEF End, Crash, At, AtWork
    <2>2. OneBusy' /\ work'[s] = Idle /\ \A t \in Source \ {s} : Pass(t)'
      BY <2>1, PassMovesOn
    <2> QED
      BY <2>2, IdlePass DEF PassInv, At, Idle
  <1> QED
    BY <1>1, <1>2, <1>3, <1>4, <1>5, <1>6, <1>7, <1>8 DEF Dedup

LEMMA PassStep ==
  ASSUME OneWriter, GroomInv, PassInv, [GroomNext]_groomed
  PROVE  PassInv'
  <1>1. ASSUME NEW s \in Source, Withdraw(s)
        PROVE  PassInv'
    <2>1. AtWork = {} /\ work' = work
      BY <1>1 DEF Withdraw, Retract
    <2> QED
      BY <2>1, NobodyAtWork, IdlePass DEF PassInv, AtWork, At
  <1>2. CASE UNCHANGED groomed
    BY <1>2 DEF groomed, vars, PassInv, OneBusy, AtWork, At, Pass, Owned
  <1> QED
    BY <1>1, <1>2, PassCommand, PassDerive DEF GroomNext, Derive, GroomInv

LEMMA GoneGroomStep ==
  ASSUME GroomInv, PassInv, GoneInv, [GroomNext]_groomed
  PROVE  GoneInv'
  <1>1. CASE GroomCommand
    <2>1. /\ UNCHANGED <<work, withdrawn>>
          /\ \A c \in ClaimId : rows'[c] = NoRow <=> rows[c] = NoRow
      BY <1>1, CommandIsAlone
    <2> QED
      BY <2>1 DEF GoneInv, Owned, At
  <1>2. TypeInv /\ \A t \in Source : At(t, "insert") => work[t].claim = <<t, work[t].pos>>
    BY DEF GroomInv, PassInv, Pass, At
  <1>3. ASSUME NEW s \in Source, Derive(s) \/ Withdraw(s)
        PROVE  GoneInv'
    <2>1. Next
      BY <1>3 DEF Derive, Withdraw, Next
    <2> QED
      BY <1>2, <2>1, GoneStep
  <1>4. CASE UNCHANGED groomed
    <2>1. UNCHANGED vars
      BY <1>4 DEF groomed
    <2> QED
      BY <1>2, <2>1, GoneStep
  <1> QED
    BY <1>1, <1>3, <1>4 DEF GroomNext

(* What each write of a pair does to the notes. *)
LEMMA AtPair ==
  ASSUME GroomInv, groom.step \in PairSteps
  PROVE  /\ Survivor \in ClaimId /\ Loser \in ClaimId /\ Survivor # Loser /\ AtWork = {}
         /\ groom.survivor \in Note /\ groom.absorbed \in Note
         /\ groom.survivor # NoNote /\ groom.absorbed # NoNote
         /\ groom.survivor \cup Gained # NoNote /\ Gained \subseteq groom.absorbed
         /\ live \in [ClaimId -> {NoNote} \cup Note]
         /\ merged \in [ClaimId -> {NoNote} \cup Note]
         /\ rows \in [ClaimId -> Row \cup {NoRow}]
  <1>1. plan # << >> /\ AtWork = {}
    BY DEF GroomInv, Alone, On, PairSteps
  <1> QED
    BY <1>1, AtHand, GainedIsFinite, NullAssumption DEF GroomInv, TypeInv, CorpusTypeOK

LEMMA WriteSurvivorEffect ==
  ASSUME GroomInv, WriteSurvivor
  PROVE  /\ rows' = rows /\ merged' = merged
         /\ \E v, a \in ClaimId : \E gained \in SUBSET live[a] :
              /\ live[v] # NoNote /\ live[a] # NoNote /\ live[v] \cup gained # NoNote
              /\ live' = [live EXCEPT ![v] = live[v] \cup gained]
  <1>1. groom.step \in PairSteps /\ On("survivor")
    BY DEF WriteSurvivor, Statement, On, PairSteps
  <1>2. live[Survivor] = groom.survivor /\ live[Loser] = groom.absorbed
    BY <1>1 DEF GroomInv, Halfway, On
  <1>3. /\ live' = [live EXCEPT ![Survivor] = groom.survivor \cup Gained]
        /\ rows' = rows /\ merged' = merged
    BY DEF WriteSurvivor
  <1> QED
    BY <1>1, <1>2, <1>3, AtPair

LEMMA WriteMergedEffect ==
  ASSUME GroomInv, WriteMerged
  PROVE  /\ rows' = rows /\ live' = live
         /\ \E a \in ClaimId : /\ live[a] # NoNote
                               /\ merged' = [merged EXCEPT ![a] = live[a]]
  <1>1. groom.step \in PairSteps /\ On("move")
    BY DEF WriteMerged, Statement, On, PairSteps
  <1>2. live[Loser] = groom.absorbed
    BY <1>1 DEF GroomInv, Halfway, On
  <1> QED
    BY <1>1, <1>2, AtPair DEF WriteMerged

LEMMA UnlinkEffect ==
  ASSUME GroomInv, Unlink
  PROVE  /\ rows' = rows /\ merged' = merged
         /\ \E a \in ClaimId : /\ live[a] # NoNote /\ merged[a] = live[a]
                               /\ live' = [live EXCEPT ![a] = NoNote]
  <1>1. groom.step \in PairSteps /\ On("unlink")
    BY DEF Unlink, Statement, On, PairSteps
  <1>2. live[Loser] = groom.absorbed /\ merged[Loser] = groom.absorbed
    BY <1>1 DEF GroomInv, Halfway, On
  <1> QED
    BY <1>1, <1>2, AtPair DEF Unlink

LEMMA MarkAbsorbedEffect ==
  ASSUME GroomInv, MarkAbsorbed
  PROVE  /\ live' = live /\ merged' = merged
         /\ \E v, a \in ClaimId :
              /\ live[v] # NoNote /\ live[a] = NoNote /\ merged[a] # NoNote
              /\ \A x \in merged[a] : \E y \in live[v] : y.src = x.src
              /\ \A c \in ClaimId \ {a} : rows'[c] = rows[c]
              /\ rows[a] = NoRow => rows'[a] = NoRow
              /\ rows[a] # NoRow => rows'[a] # NoRow /\ rows'[a].into = v
  <1>1. groom.step \in PairSteps /\ On("mark") /\ live' = live /\ merged' = merged
    BY DEF MarkAbsorbed, On, PairSteps
  <1>2. /\ live[Survivor] = groom.survivor \cup Gained /\ live[Loser] = NoNote
        /\ merged[Loser] = groom.absorbed
    BY <1>1 DEF GroomInv, Halfway, On
  <1>3. \A x \in groom.absorbed : \E y \in groom.survivor \cup Gained : y.src = x.src
    BY DEF Gained
  <1>4. /\ \A c \in ClaimId \ {Loser} : rows'[c] = rows[c]
        /\ rows[Loser] = NoRow => rows'[Loser] = NoRow
        /\ rows[Loser] # NoRow => rows'[Loser] # NoRow /\ rows'[Loser].into = Survivor
    <2>1. CASE rows[Loser] = NoRow
      BY <2>1, MarkEffect
    <2>2. CASE rows[Loser] # NoRow
      BY <1>1, <2>2, MarkEffect, AtPair, NullAssumption
    <2> QED
      BY <2>1, <2>2
  <1> QED
    BY <1>1, <1>2, <1>3, <1>4, AtPair

SameRow(c) ==
  /\ rows'[c] = NoRow <=> rows[c] = NoRow
  /\ rows[c] # NoRow => rows'[c].into = rows[c].into

LEMMA CountGainedEffect ==
  ASSUME GroomInv, CountGained
  PROVE  UNCHANGED <<live, merged>> /\ \A c \in ClaimId : SameRow(c)
  <1>1. groom.step \in PairSteps /\ UNCHANGED <<live, merged>>
    BY DEF CountGained, Statement, On, PairSteps
  <1>2. \/ rows' = rows
        \/ \E r \in Row : /\ rows' = [rows EXCEPT ![Survivor] = r] /\ rows[Survivor] # NoRow
                          /\ r.into = rows[Survivor].into
    BY CountEffect
  <1> QED
    BY <1>1, <1>2, AtPair, NullAssumption DEF SameRow

(* Rows stay what they were but for counts; who held an attestation holds  *)
(* it; what is said and stands was said and stood, or is what a claim that *)
(* is not absorbed holds.                                                  *)
LEMMA NotesGrow ==
  ASSUME \A c \in ClaimId : Whole(c) /\ SameRow(c),
         \A c \in ClaimId : rows[c] # NoRow /\ ~Live(c) => rows[c].into \in ClaimId,
         \A c \in ClaimId : \A x : Holds(c, x) => Holds(c, x)',
         \A c \in ClaimId : \A x : Says(c, x)' /\ Standing(x)' =>
           \/ Says(c, x) /\ Standing(x)
           \/ Holds(c, x)' /\ (rows[c] = NoRow \/ Live(c)),
         \A c \in ClaimId : rows[c] = NoRow /\ ~Fresh(c)' =>
           live'[c] = NoNote /\ merged'[c] = NoNote,
         \A c \in ClaimId : rows[c] # NoRow /\ ~Live(c) => live'[c] = NoNote
  PROVE  \A c \in ClaimId : Whole(c)'
  <1>1. SUFFICES ASSUME NEW c \in ClaimId
                 PROVE  Whole(c)'
    OBVIOUS
  <1>2. /\ Live(c)' <=> Live(c)
        /\ rows'[c] = NoRow <=> rows[c] = NoRow
        /\ rows[c] # NoRow => rows'[c].into = rows[c].into
    BY DEF Live, SameRow
  <1>3. \A x : Says(c, x)' /\ Standing(x)' => Holds(c, x)'
    BY DEF Whole
  <1>4. ASSUME rows[c] # NoRow, ~Live(c), NEW x, Says(c, x)', Standing(x)'
        PROVE  \E y : Holds(rows[c].into, y)' /\ y.src = x.src
    <2>1. Says(c, x) /\ Standing(x)
      BY <1>4
    <2>2. PICK y : Holds(rows[c].into, y) /\ y.src = x.src
      BY <1>4, <2>1 DEF Whole
    <2>3. PICK d \in ClaimId : d = rows[c].into /\ d = rows'[c].into
      BY <1>2, <1>4
    <2>4. Holds(d, y)'
      BY <2>2, <2>3
    <2>5. Holds(rows[c].into, y)'
      BY <2>3, <2>4 DEF Holds
    <2> QED
      BY <2>2, <2>5
  <1> QED
    BY <1>2, <1>3, <1>4 DEF Whole

(* Notes and rows stay what they were but for counts.                      *)
LEMMA NotesStay ==
  ASSUME \A c \in ClaimId : Whole(c) /\ SameRow(c), UNCHANGED <<live, merged>>,
         \A c \in ClaimId : rows[c] # NoRow /\ ~Live(c) => rows[c].into \in ClaimId,
         \A c \in ClaimId : Fresh(c) => Fresh(c)',
         \A c \in ClaimId : \A x : Says(c, x) /\ Standing(x)' => Standing(x)
  PROVE  \A c \in ClaimId : Whole(c)'
  <1>1. \A c \in ClaimId : \A x : /\ Says(c, x)' <=> Says(c, x)
                                  /\ Holds(c, x)' <=> Holds(c, x)
    BY DEF Says, Holds
  <1>2. /\ \A c \in ClaimId : rows[c] = NoRow /\ ~Fresh(c)' =>
             live'[c] = NoNote /\ merged'[c] = NoNote
        /\ \A c \in ClaimId : rows[c] # NoRow /\ ~Live(c) => live'[c] = NoNote
    BY DEF Whole
  <1> QED
    BY <1>1, <1>2, NotesGrow

LEMMA SaidStays ==
  ASSUME \A c \in ClaimId : \A x : Says(c, x) /\ Standing(x) /\ "dedup" \notin killed'
                                     => Says(c, x)'
  PROVE  Keeps
BY DEF Keeps, Standing

LEMMA IntoIsClaim ==
  ASSUME TypeInv, NEW c \in ClaimId, rows[c] # NoRow, ~Live(c)
  PROVE  rows[c].into \in ClaimId
BY DEF TypeInv, CorpusTypeOK, Row, Live

(* No note is written that says what no note has said.                     *)
LEMMA BegunStays ==
  ASSUME Begun, run' = run,
         \A c \in ClaimId : \A x : Says(c, x)' => \E d \in ClaimId : Says(d, x)
  PROVE  Begun'
BY DEF Begun

LEMMA LossWriteSurvivor ==
  ASSUME LossInv, WriteSurvivor
  PROVE  Begun' /\ WholeInv' /\ Keeps
  <1>1. /\ UNCHANGED <<work, run, withdrawn, rows, merged>>
        /\ "dedup" \in killed' <=> "dedup" \in killed
    BY CommandIsAlone DEF LossInv, GroomCommand, WriteSurvivor
  <1>2. PICK v \in ClaimId, a \in ClaimId : \E gained \in SUBSET live[a] :
          /\ live[v] # NoNote /\ live[a] # NoNote /\ live[v] \cup gained # NoNote
          /\ live' = [live EXCEPT ![v] = live[v] \cup gained]
    BY WriteSurvivorEffect DEF LossInv
  <1>3. PICK note : /\ live[v] \subseteq note /\ note \subseteq live[v] \cup live[a]
                    /\ note # NoNote /\ live' = [live EXCEPT ![v] = note]
    BY <1>2
  <1>4. live'[v] = note /\ \A c \in ClaimId \ {v} : live'[c] = live[c]
    BY <1>3 DEF LossInv, GroomInv, TypeInv, CorpusTypeOK
  <1>5. \A x : /\ Standing(x)' <=> Standing(x)
               /\ \A c \in ClaimId : /\ Holds(c, x) => Holds(c, x)'
                                     /\ Says(c, x) => Says(c, x)'
                                     /\ c # v => (Says(c, x)' => Says(c, x))
    BY <1>1, <1>2, <1>3, <1>4 DEF Standing, Holds, Says
  <1>6. \A x : Says(v, x)' => Holds(v, x)' \/ Says(v, x)
    BY <1>1, <1>2, <1>3, <1>4 DEF Holds, Says
  <1>7. Begun'
    <2>1. ASSUME NEW x, Says(v, x)'
          PROVE  Says(v, x) \/ Says(a, x)
      <3>1. \/ x \in live[v] \cup live[a]
            \/ merged[v] # NoNote /\ x \in merged[v]
        BY <1>1, <1>2, <1>4, <2>1 DEF Says
      <3> QED
        BY <1>2, <3>1 DEF Says
    <2> QED
      BY <1>1, <1>5, <2>1, BegunStays DEF LossInv
  <1>8. ASSUME "dedup" \notin killed'
        PROVE  \A c \in ClaimId : Whole(c)'
    <2>1. \A c \in ClaimId : Whole(c)
      BY <1>1, <1>8 DEF LossInv, WholeInv
    <2>2. /\ \A c \in ClaimId : SameRow(c) /\ (Fresh(c)' <=> Fresh(c))
          /\ \A c \in ClaimId : rows[c] # NoRow /\ ~Live(c) => rows[c].into \in ClaimId
      BY <1>1, IntoIsClaim DEF SameRow, Fresh, At, LossInv, GroomInv
    <2>3. /\ rows[v] = NoRow \/ Live(v)
          /\ rows[v] = NoRow => Fresh(v)
      BY <1>2, <2>1 DEF Whole
    <2>4. /\ \A c \in ClaimId : rows[c] = NoRow /\ ~Fresh(c)' =>
               live'[c] = NoNote /\ merged'[c] = NoNote
          /\ \A c \in ClaimId : rows[c] # NoRow /\ ~Live(c) => live'[c] = NoNote
      BY <1>1, <1>4, <2>1, <2>2, <2>3 DEF Whole
    <2> QED
      BY <1>5, <1>6, <2>1, <2>2, <2>3, <2>4, NotesGrow
  <1>9. Keeps
    BY <1>5, SaidStays
  <1> QED
    BY <1>7, <1>8, <1>9 DEF WholeInv

LEMMA LossWriteMerged ==
  ASSUME LossInv, WriteMerged
  PROVE  Begun' /\ WholeInv' /\ Keeps
  <1>1. /\ UNCHANGED <<work, run, withdrawn, rows, live>>
        /\ "dedup" \in killed' <=> "dedup" \in killed
    BY CommandIsAlone DEF LossInv, GroomCommand, WriteMerged
  <1>2. PICK a \in ClaimId : live[a] # NoNote /\ merged' = [merged EXCEPT ![a] = live[a]]
    BY WriteMergedEffect DEF LossInv
  <1>3. merged'[a] = live[a] /\ \A c \in ClaimId \ {a} : merged'[c] = merged[c]
    BY <1>2 DEF LossInv, GroomInv, TypeInv, CorpusTypeOK
  <1>4. \A x : /\ Standing(x)' <=> Standing(x)
               /\ \A c \in ClaimId : /\ Holds(c, x) => Holds(c, x)'
                                     /\ Says(c, x)' => Says(c, x)
                                     /\ Holds(c, x) => Says(c, x)'
    <2>1. \A x : Standing(x)' <=> Standing(x)
      BY <1>1 DEF Standing
    <2>2. \A x : \A c \in ClaimId : Holds(c, x) => Holds(c, x)'
      BY <1>1, <1>2, <1>3 DEF Holds
    <2>3. ASSUME NEW c \in ClaimId, NEW x
          PROVE  (Says(c, x)' => Says(c, x)) /\ (Holds(c, x) => Says(c, x)')
      <3>1. CASE c = a
        BY <1>1, <1>2, <1>3, <3>1 DEF Holds, Says
      <3>2. CASE c # a
        BY <1>1, <1>3, <3>2 DEF Holds, Says
      <3> QED
        BY <3>1, <3>2
    <2> QED
      BY <2>1, <2>2, <2>3
  <1>5. Begun'
    BY <1>1, <1>4, BegunStays DEF LossInv
  <1>6. ASSUME "dedup" \notin killed'
        PROVE  \A c \in ClaimId : Whole(c) /\ Whole(c)'
    <2>1. \A c \in ClaimId : Whole(c)
      BY <1>1, <1>6 DEF LossInv, WholeInv
    <2>2. /\ \A c \in ClaimId : SameRow(c) /\ (Fresh(c)' <=> Fresh(c))
          /\ \A c \in ClaimId : rows[c] # NoRow /\ ~Live(c) => rows[c].into \in ClaimId
      BY <1>1, IntoIsClaim DEF SameRow, Fresh, At, LossInv, GroomInv
    <2>3. rows[a] = NoRow => Fresh(a)
      BY <1>2, <2>1 DEF Whole
    <2>4. /\ \A c \in ClaimId : rows[c] = NoRow /\ ~Fresh(c)' =>
               live'[c] = NoNote /\ merged'[c] = NoNote
          /\ \A c \in ClaimId : rows[c] # NoRow /\ ~Live(c) => live'[c] = NoNote
      BY <1>1, <1>3, <2>1, <2>2, <2>3 DEF Whole
    <2> QED
      BY <1>4, <2>1, <2>2, <2>4, NotesGrow
  <1>7. Keeps
    <2>1. "dedup" \notin killed' =>
            \A c \in ClaimId : \A x : Says(c, x) /\ Standing(x) => Holds(c, x)
      BY <1>6 DEF Whole
    <2> QED
      BY <1>4, <2>1, SaidStays
  <1> QED
    BY <1>5, <1>6, <1>7 DEF WholeInv

LEMMA LossUnlink ==
  ASSUME LossInv, Unlink
  PROVE  Begun' /\ WholeInv' /\ Keeps
  <1>1. /\ UNCHANGED <<work, run, withdrawn, rows, merged>>
        /\ "dedup" \in killed' <=> "dedup" \in killed
    BY CommandIsAlone DEF LossInv, GroomCommand, Unlink
  <1>2. PICK a \in ClaimId : /\ live[a] # NoNote /\ merged[a] = live[a]
                             /\ live' = [live EXCEPT ![a] = NoNote]
    BY UnlinkEffect DEF LossInv
  <1>3. live'[a] = NoNote /\ \A c \in ClaimId \ {a} : live'[c] = live[c]
    BY <1>2 DEF LossInv, GroomInv, TypeInv, CorpusTypeOK
  <1>4. \A x : /\ Standing(x)' <=> Standing(x)
               /\ \A c \in ClaimId : /\ Holds(c, x) => Holds(c, x)'
                                     /\ Says(c, x)' <=> Says(c, x)
    BY <1>1, <1>2, <1>3 DEF Standing, Holds, Says
  <1>5. Begun'
    BY <1>1, <1>4, BegunStays DEF LossInv
  <1>6. ASSUME "dedup" \notin killed'
        PROVE  \A c \in ClaimId : Whole(c)'
    <2>1. \A c \in ClaimId : Whole(c)
      BY <1>1, <1>6 DEF LossInv, WholeInv
    <2>2. /\ \A c \in ClaimId : SameRow(c) /\ (Fresh(c)' <=> Fresh(c))
          /\ \A c \in ClaimId : rows[c] # NoRow /\ ~Live(c) => rows[c].into \in ClaimId
      BY <1>1, IntoIsClaim DEF SameRow, Fresh, At, LossInv, GroomInv
    <2>3. rows[a] = NoRow => Fresh(a)
      BY <1>2, <2>1 DEF Whole
    <2>4. /\ \A c \in ClaimId : rows[c] = NoRow /\ ~Fresh(c)' =>
               live'[c] = NoNote /\ merged'[c] = NoNote
          /\ \A c \in ClaimId : rows[c] # NoRow /\ ~Live(c) => live'[c] = NoNote
      BY <1>1, <1>3, <2>1, <2>2, <2>3 DEF Whole
    <2> QED
      BY <1>4, <2>1, <2>2, <2>4, NotesGrow
  <1>7. Keeps
    BY <1>4, SaidStays
  <1> QED
    BY <1>5, <1>6, <1>7 DEF WholeInv

LEMMA LossMarkAbsorbed ==
  ASSUME LossInv, MarkAbsorbed
  PROVE  Begun' /\ WholeInv' /\ Keeps
  <1>1. /\ UNCHANGED <<work, run, withdrawn, live, merged>>
        /\ "dedup" \in killed' <=> "dedup" \in killed
    BY CommandIsAlone DEF LossInv, GroomCommand, MarkAbsorbed
  <1>2. PICK v \in ClaimId, a \in ClaimId :
          /\ live[v] # NoNote /\ live[a] = NoNote /\ merged[a] # NoNote
          /\ \A x \in merged[a] : \E y \in live[v] : y.src = x.src
          /\ \A c \in ClaimId \ {a} : rows'[c] = rows[c]
          /\ rows[a] = NoRow => rows'[a] = NoRow
          /\ rows[a] # NoRow => rows'[a] # NoRow /\ rows'[a].into = v
    BY MarkAbsorbedEffect DEF LossInv
  <1>3. \A x : /\ Standing(x)' <=> Standing(x)
               /\ \A c : /\ Holds(c, x)' <=> Holds(c, x)
                         /\ Says(c, x)' <=> Says(c, x)
    BY <1>1 DEF Standing, Holds, Says
  <1>4. Begun'
    BY <1>1, <1>3, BegunStays DEF LossInv
  <1>5. ASSUME "dedup" \notin killed', NEW c \in ClaimId
        PROVE  Whole(c)'
    <2>1. Whole(c) /\ (Fresh(c)' <=> Fresh(c))
      BY <1>1, <1>5 DEF LossInv, WholeInv, Fresh, At
    <2>2. CASE c # a
      <3>1. rows'[c] = rows[c]
        BY <1>2, <2>2
      <3> QED
        BY <1>1, <2>1, <3>1 DEF Whole, Live, Says, Holds, Standing
    <2>3. CASE c = a /\ rows[a] = NoRow
      BY <1>1, <1>2, <1>3, <2>1, <2>3 DEF Whole
    <2>4. CASE c = a /\ rows[a] # NoRow
      <3>1. /\ rows'[a].into = v /\ rows'[a] # NoRow /\ live'[a] = NoNote
            /\ merged'[a] = merged[a] /\ live'[v] = live[v]
        BY <1>1, <1>2, <2>4
      <3>2. \A x : Says(a, x)' => \E y \in live'[v] : y.src = x.src
        BY <1>2, <3>1 DEF Says
      <3> QED
        BY <1>2, <1>3, <2>1, <2>4, <3>1, <3>2 DEF Whole, Holds
    <2> QED
      BY <2>2, <2>3, <2>4
  <1>6. Keeps
    BY <1>3, SaidStays
  <1> QED
    BY <1>4, <1>5, <1>6 DEF WholeInv

LEMMA LossCommand ==
  ASSUME LossInv, GroomCommand
  PROVE  Begun' /\ WholeInv' /\ Keeps
  <1>1. CASE UNCHANGED <<live, merged>> /\ \A c \in ClaimId : SameRow(c)
    <2>1. /\ UNCHANGED <<work, run, withdrawn>>
          /\ "dedup" \in killed' <=> "dedup" \in killed
      BY CommandIsAlone DEF LossInv
    <2>2. \A c \in ClaimId : /\ Fresh(c) => Fresh(c)'
                             /\ \A x : /\ Says(c, x)' <=> Says(c, x)
                                       /\ Standing(x)' <=> Standing(x)
      BY <1>1, <2>1 DEF Fresh, At, Says, Standing
    <2>3. Begun' /\ Keeps
      BY <2>1, <2>2, BegunStays, SaidStays DEF LossInv
    <2>4. \A c \in ClaimId : rows[c] # NoRow /\ ~Live(c) => rows[c].into \in ClaimId
      BY IntoIsClaim DEF LossInv, GroomInv
    <2>5. (\A c \in ClaimId : Whole(c)) => \A c \in ClaimId : Whole(c)'
      BY <1>1, <2>2, <2>4, NotesStay
    <2> QED
      BY <2>1, <2>3, <2>5 DEF LossInv, WholeInv
  <1>2. CASE UNCHANGED <<rows, live, merged>>
    BY <1>1, <1>2 DEF SameRow
  <1>3. CASE CountGained
    BY <1>1, <1>3, CountGainedEffect DEF LossInv
  <1>4. \/ UNCHANGED <<rows, live, merged>>
        \/ WriteSurvivor \/ WriteMerged \/ Unlink \/ CountGained \/ MarkAbsorbed
    BY DEF GroomCommand, Warm, NotJudged, Judged, Examine, PassOver, Compare, Warmed, NoneLeft,
           Planned, GivesUp, PairGone, ReadPair, GroomKilled, vars, corpus
  <1> QED
    BY <1>2, <1>3, <1>4, LossWriteSurvivor, LossWriteMerged, LossUnlink, LossMarkAbsorbed

(* dedup. *)

LEMMA LossQuietDedup ==
  ASSUME LossInv, NEW s \in Source, Derive(s),
         \/ Begin(s) \/ Bump(s) \/ Index(s) \/ End(s) \/ Crash(s)
         \/ \E m \in ClaimId : Match(s, m)
  PROVE  Begun' /\ WholeInv' /\ Keeps
  <1>1. TypeInv /\ TypeInv'
    BY TypeStep DEF LossInv, GroomInv, Derive, Next
  <1>2. UNCHANGED <<live, merged>> /\ \A c \in ClaimId : \A x : Says(c, x)' <=> Says(c, x)
    BY DEF Begin, Bump, Index, End, Crash, Match, corpus, Says
  <1>3. ASSUME NEW c \in ClaimId
        PROVE  SameRow(c)
    <2>1. rows' = rows \/ (rows' = WithCount(work[s].claim, 1) /\ work[s].claim \in ClaimId)
      BY <1>1 DEF Begin, Bump, Index, End, Crash, Match, corpus, At, TypeInv, Control
    <2>2. CASE rows' = rows
      BY <2>2 DEF SameRow
    <2>3. CASE rows' # rows
      <3>1. PICK d \in ClaimId : rows[d] # NoRow /\ rows' = [rows EXCEPT ![d].count = @ + 1]
        BY <2>1, <2>3 DEF WithCount
      <3>2. PICK r : r = [rows[d] EXCEPT !.count = rows[d].count + 1]
        OBVIOUS
      <3>3. rows[d] \in Row
        BY <1>1, <3>1 DEF TypeInv, CorpusTypeOK
      <3>4. r \in Row /\ r.into = rows[d].into
        BY <3>2, <3>3 DEF Row
      <3>5. rows' = [rows EXCEPT ![d] = r]
        BY <3>1, <3>2
      <3> QED
        BY <1>1, <3>1, <3>4, <3>5, NullAssumption DEF SameRow, TypeInv, CorpusTypeOK
    <2> QED
      BY <2>2, <2>3
  <1>4. /\ \A t \in Source \ {s} : run'[t] = run[t] /\ work'[t] = work[t]
        /\ \/ run' = run /\ withdrawn' = withdrawn
           \/ run'[s] = run[s] + 1 /\ withdrawn' = withdrawn \ {s}
        /\ At(s, "insert") => "dedup" \in killed'
    <2>1. CASE Begin(s)
      BY <1>1, <2>1 DEF Begin, At, TypeInv, CorpusTypeOK
    <2>2. CASE ~Begin(s)
      <3>1. /\ run' = run /\ withdrawn' = withdrawn
            /\ \E p : work' = [work EXCEPT ![s] = p]
        BY <2>2 DEF Bump, Index, End, Crash, Match
      <3>2. CASE Crash(s)
        BY <1>1, <3>1, <3>2 DEF Crash, TypeInv, CorpusTypeOK
      <3>3. CASE ~Crash(s)
        BY <1>1, <2>2, <3>1, <3>3 DEF Bump, Index, End, Match, At, TypeInv, CorpusTypeOK
      <3> QED
        BY <3>2, <3>3
    <2> QED
      BY <2>1, <2>2
  <1>5. \A t \in Source : run[t] \in Nat /\ run'[t] \in Nat
    BY <1>1 DEF TypeInv, CorpusTypeOK
  <1>6. ASSUME NEW c \in ClaimId, NEW x, Says(c, x)
        PROVE  /\ x \in Attestation /\ x.src \in Source /\ x.run \in Nat /\ x.run <= run[x.src]
    BY <1>6, Bounds DEF LossInv, Begun, Attestation
  <1>7. Begun'
    BY <1>2, <1>4, <1>5, <1>6 DEF Begun
  <1>8. \A c \in ClaimId : \A x : Says(c, x) /\ Standing(x)' => Standing(x)
    <2>1. SUFFICES ASSUME NEW c \in ClaimId, NEW x, Says(c, x), Standing(x)'
                   PROVE  Standing(x)
      OBVIOUS
    <2>2. x.src \in Source /\ x.run \in Nat /\ x.run <= run[x.src] /\ x.run = run'[x.src]
      BY <1>6, <2>1 DEF Standing
    <2>3. CASE run' = run /\ withdrawn' = withdrawn
      BY <2>1, <2>3 DEF Standing
    <2>4. CASE run'[s] = run[s] + 1 /\ withdrawn' = withdrawn \ {s}
      BY <1>4, <1>5, <2>1, <2>2, <2>4 DEF Standing
    <2> QED
      BY <1>4, <2>3, <2>4
  <1>9. "dedup" \in killed => "dedup" \in killed'
    BY DEF Begin, Bump, Index, End, Crash, Match
  <1>10. WholeInv'
    <2>1. SUFFICES ASSUME "dedup" \notin killed'
                   PROVE  \A c \in ClaimId : Whole(c)'
      BY DEF WholeInv
    <2>2. /\ \A c \in ClaimId : Whole(c)
          /\ \A c \in ClaimId : Fresh(c) => Fresh(c)'
          /\ \A c \in ClaimId : rows[c] # NoRow /\ ~Live(c) => rows[c].into \in ClaimId
      BY <1>1, <1>4, <1>9, <2>1, IntoIsClaim DEF LossInv, WholeInv, Fresh, At
    <2> QED
      BY <1>2, <1>3, <1>8, <2>2, NotesStay
  <1>11. Keeps
    BY <1>2, SaidStays
  <1> QED
    BY <1>7, <1>10, <1>11

LEMMA LossAttest ==
  ASSUME LossInv, NEW s \in Source, Derive(s), Attest(s)
  PROVE  Begun' /\ WholeInv' /\ Keeps
  <1>1. /\ TypeInv /\ UNCHANGED <<rows, merged, run, withdrawn>> /\ At(s, "write") /\ Pass(s)
        /\ "dedup" \in killed' <=> "dedup" \in killed
    BY DEF Attest, LossInv, GroomInv, PassInv, Derive
  <1>2. PICK d \in ClaimId :
        /\ d = work[s].claim /\ live[d] = work[s].note /\ live[d] \in Note /\ live[d] # NoNote
        /\ Here(s) \in Attestation /\ run[s] \in Nat
    BY <1>1, HereIsAttestation, NullAssumption
       DEF At, Pass, TypeInv, CorpusTypeOK, Control, Work
  <1>3. PICK note : /\ live[d] \subseteq note /\ note \subseteq live[d] \cup {Here(s)}
                    /\ live' = [live EXCEPT ![d] = note]
    BY <1>2 DEF Attest
  <1>4. /\ note # NoNote /\ live'[d] = note /\ \A c \in ClaimId \ {d} : live'[c] = live[c]
    BY <1>1, <1>2, <1>3, NullAssumption DEF TypeInv, CorpusTypeOK, Note
  <1>5. \A x : /\ Standing(x)' <=> Standing(x)
               /\ \A c \in ClaimId : /\ Holds(c, x) => Holds(c, x)'
                                     /\ Says(c, x) => Says(c, x)'
                                     /\ c # d => (Says(c, x)' => Says(c, x))
    BY <1>1, <1>2, <1>3, <1>4 DEF Standing, Holds, Says
  <1>6. ASSUME NEW x, Says(d, x)'
        PROVE  (Holds(d, x)' \/ Says(d, x)) /\ (x = Here(s) \/ Says(d, x))
    <2>1. CASE x \in note
      <3>1. x \in live[d] \/ x = Here(s)
        BY <1>3, <2>1
      <3>2. Holds(d, x)'
        BY <1>4, <2>1 DEF Holds
      <3> QED
        BY <1>2, <3>1, <3>2 DEF Says
    <2>2. CASE x \notin note
      BY <1>1, <1>4, <1>6, <2>2 DEF Says
    <2> QED
      BY <2>1, <2>2
  <1>7. Begun'
    <2>1. Here(s).src = s /\ Here(s).run = run[s]
      BY DEF Here
    <2> QED
      BY <1>1, <1>2, <1>5, <1>6, <2>1 DEF LossInv, Begun
  <1>8. ASSUME "dedup" \notin killed'
        PROVE  \A c \in ClaimId : Whole(c)'
    <2>1. \A c \in ClaimId : Whole(c)
      BY <1>1, <1>8 DEF LossInv, WholeInv
    <2>2. \A c \in ClaimId : ~Fresh(c)
      BY <1>1 DEF Fresh, At, LossInv, PassInv, OneBusy, AtWork
    <2>3. rows[d] # NoRow /\ Live(d)
      BY <1>2, <2>1, <2>2 DEF Whole
    <2>4. /\ \A c \in ClaimId : SameRow(c)
          /\ \A c \in ClaimId : rows[c] # NoRow /\ ~Live(c) => rows[c].into \in ClaimId
      BY <1>1, IntoIsClaim DEF SameRow
    <2>5. /\ \A c \in ClaimId : rows[c] = NoRow /\ ~Fresh(c)' =>
               live'[c] = NoNote /\ merged'[c] = NoNote
          /\ \A c \in ClaimId : rows[c] # NoRow /\ ~Live(c) => live'[c] = NoNote
      BY <1>1, <1>4, <2>1, <2>2, <2>3 DEF Whole
    <2> QED
      BY <1>5, <1>6, <2>1, <2>3, <2>4, <2>5, NotesGrow
  <1>9. Keeps
    BY <1>5, SaidStays
  <1> QED
    BY <1>7, <1>8, <1>9 DEF WholeInv

LEMMA LossCreate ==
  ASSUME LossInv, NEW s \in Source, Derive(s), Create(s)
  PROVE  Begun' /\ WholeInv' /\ Keeps
  <1>1. /\ TypeInv /\ UNCHANGED <<rows, merged, run, withdrawn>> /\ At(s, "judge") /\ Pass(s)
        /\ Candidates(s)
        /\ "dedup" \in killed' <=> "dedup" \in killed
    BY DEF Create, LossInv, GroomInv, PassInv, Derive
  <1>2. PICK d \in ClaimId : d = <<s, work[s].pos>>
    BY <1>1, HereIsAttestation DEF At
  <1>3. /\ live' = [live EXCEPT ![d] = {Here(s)}]
        /\ work' = [work EXCEPT ![s] = Chosen(s, "insert", d, {})]
        /\ Here(s) \in Attestation /\ run[s] \in Nat
    BY <1>1, <1>2, HereIsAttestation DEF Create, At, TypeInv, CorpusTypeOK
  <1>4. /\ {Here(s)} # NoNote /\ live'[d] = {Here(s)}
        /\ \A c \in ClaimId \ {d} : live'[c] = live[c]
    BY <1>1, <1>3, NullAssumption DEF TypeInv, CorpusTypeOK, Note
  <1>5. work'[s].step = "insert" /\ work'[s].claim = d
    BY <1>1, <1>3 DEF TypeInv, CorpusTypeOK, Chosen
  <1>6. rows[d] = NoRow
    <2>1. work[s].pos \in Nat
      BY <1>1, Bounds DEF TypeInv, CorpusTypeOK, Work
    <2>2. d \notin Owned(s)
      BY <1>1, <1>2, <2>1 DEF Pass, At
    <2> QED
      BY <1>2, <2>2 DEF Owned, Owner
  <1>7. Begun'
    <2>1. Here(s).src = s /\ Here(s).run = run[s]
      BY DEF Here
    <2>2. \A c \in ClaimId : \A x : Says(c, x)' => x = Here(s) \/ Says(c, x)
      BY <1>1, <1>4 DEF Says
    <2> QED
      BY <1>1, <1>3, <2>1, <2>2 DEF LossInv, Begun
  <1>8. ASSUME "dedup" \notin killed'
        PROVE  /\ \A c \in ClaimId : Whole(c)'
               /\ \A c \in ClaimId : \A x : Says(c, x) => Says(c, x)'
    <2>1. \A c \in ClaimId : Whole(c)
      BY <1>1, <1>8 DEF LossInv, WholeInv
    <2>2. \A c \in ClaimId : ~Fresh(c)
      BY <1>1 DEF Fresh, At, LossInv, PassInv, OneBusy, AtWork
    <2>3. live[d] = NoNote /\ merged[d] = NoNote
      BY <1>6, <2>1, <2>2 DEF Whole
    <2>4. \A x : \A c \in ClaimId : /\ Standing(x)' <=> Standing(x)
                                    /\ Holds(c, x) => Holds(c, x)'
                                    /\ Says(c, x) => Says(c, x)'
                                    /\ c # d => (Says(c, x)' => Says(c, x))
      BY <1>1, <1>4, <2>3 DEF Standing, Holds, Says
    <2>5. \A x : Says(d, x)' => Holds(d, x)'
      BY <1>1, <1>4, <2>3 DEF Holds, Says
    <2>6. /\ \A c \in ClaimId : SameRow(c)
          /\ \A c \in ClaimId : rows[c] # NoRow /\ ~Live(c) => rows[c].into \in ClaimId
      BY <1>1, IntoIsClaim DEF SameRow
    <2>7. Fresh(d)'
      BY <1>5 DEF Fresh, At
    <2>8. /\ \A c \in ClaimId : rows[c] = NoRow /\ ~Fresh(c)' =>
               live'[c] = NoNote /\ merged'[c] = NoNote
          /\ \A c \in ClaimId : rows[c] # NoRow /\ ~Live(c) => live'[c] = NoNote
      BY <1>1, <1>4, <1>6, <2>1, <2>2, <2>7 DEF Whole
    <2> QED
      BY <1>6, <2>1, <2>4, <2>5, <2>6, <2>8, NotesGrow
  <1>9. Keeps
    BY <1>8, SaidStays
  <1> QED
    BY <1>7, <1>8, <1>9 DEF WholeInv

LEMMA LossInsert ==
  ASSUME LossInv, NEW s \in Source, Derive(s), Insert(s)
  PROVE  Begun' /\ WholeInv' /\ Keeps
  <1>1. /\ TypeInv /\ UNCHANGED <<live, merged, run, withdrawn>> /\ At(s, "insert") /\ Pass(s)
        /\ "dedup" \in killed' <=> "dedup" \in killed
        /\ work[s].claim \in ClaimId /\ Candidates(s) /\ s \in AtWork
    BY DEF Insert, LossInv, GroomInv, PassInv, Derive, At, AtWork, TypeInv, Control
  <1>2. PICK d \in ClaimId : d = work[s].claim
    BY <1>1
  <1>3. /\ rows'[d] = [count |-> 1, into |-> Nobody]
        /\ \A c \in ClaimId \ {d} : rows'[c] = rows[c]
    BY <1>1, <1>2 DEF Insert, TypeInv, CorpusTypeOK
  <1>4. rows'[d].into = Nobody /\ rows'[d] # NoRow /\ Live(d)'
    <2>1. [count |-> 1, into |-> Nobody] \in Row
      BY DEF Row
    <2> QED
      BY <1>3, <2>1, NullAssumption DEF Live
  <1>5. \A x : /\ Standing(x)' <=> Standing(x)
               /\ \A c : /\ Holds(c, x)' <=> Holds(c, x)
                         /\ Says(c, x)' <=> Says(c, x)
    BY <1>1 DEF Standing, Holds, Says
  <1>6. Begun' /\ Keeps
    BY <1>1, <1>5, BegunStays, SaidStays DEF LossInv
  <1>7. ASSUME "dedup" \notin killed', NEW c \in ClaimId
        PROVE  Whole(c)'
    <2>1. Whole(c)
      BY <1>1, <1>7 DEF LossInv, WholeInv
    <2>2. CASE c = d
      BY <1>4, <1>5, <2>1, <2>2 DEF Whole
    <2>3. CASE c # d
      <3>1. rows'[c] = rows[c] /\ ~Fresh(c)
        BY <1>1, <1>2, <1>3, <2>3 DEF Fresh, At, LossInv, PassInv, OneBusy, AtWork
      <3> QED
        BY <1>1, <2>1, <3>1 DEF Whole, Live, Says, Holds, Standing
    <2> QED
      BY <2>2, <2>3
  <1> QED
    BY <1>6, <1>7 DEF WholeInv

(* retract. *)

(* What a claim holds from another source it holds on.                     *)
LEMMA RetractHolds ==
  ASSUME TypeInv, NEW s \in Source, Retract(s), NEW c \in ClaimId \ Owned(s),
         c \in Unmerged(s) => live[c] = NoNote,
         NEW y, Holds(c, y), y.src # s
  PROVE  Holds(c, y)'
  <1>1. /\ live'[c] = IF c \in Detached(s) THEN Kept(s, c) ELSE Restored(s, c)
        /\ merged'[c] = IF c \in Unmerged(s) THEN NoNote ELSE merged[c]
    BY RetractForm DEF Retracted
  <1>2. Restored(s, c) \in {live[c], merged[c]} /\ Restored(s, c) \in {NoNote} \cup Note
    BY DEF Restored, TypeInv, CorpusTypeOK
  <1>3. CASE c \notin Unmerged(s) /\ live[c] = NoNote
    <2>1. Restored(s, c) = NoNote /\ c \notin Detached(s)
      BY <1>3 DEF Restored, Detached
    <2> QED
      BY <1>1, <1>3, <2>1 DEF Holds
  <1>4. CASE c \in Unmerged(s) \/ live[c] # NoNote
    <2>1. Restored(s, c) # NoNote /\ y \in Restored(s, c)
      BY <1>4 DEF Holds, Restored
    <2>2. y \in Kept(s, c) /\ Kept(s, c) # NoNote
      BY <1>2, <2>1, NullAssumption DEF Kept, Note
    <2> QED
      BY <1>1, <2>1, <2>2 DEF Holds
  <1> QED
    BY <1>3, <1>4

LEMMA RetractSays ==
  ASSUME TypeInv, NEW s \in Source, Retract(s), NEW c \in ClaimId, NEW x, Says(c, x)'
  PROVE  Says(c, x) /\ c \notin Owned(s)
  <1>1. /\ live'[c] = IF c \in Owned(s) THEN NoNote
                      ELSE IF c \in Detached(s) THEN Kept(s, c) ELSE Restored(s, c)
        /\ merged'[c] = IF c \in Owned(s) \cup Unmerged(s) THEN NoNote ELSE merged[c]
    BY RetractForm DEF Retracted
  <1>2. /\ Restored(s, c) \in {live[c], merged[c]} /\ Kept(s, c) \subseteq Restored(s, c)
        /\ c \in Detached(s) => Restored(s, c) # NoNote
    BY DEF Restored, Kept, Detached
  <1> QED
    BY <1>1, <1>2 DEF Says

LEMMA LossWithdraw ==
  ASSUME LossInv, NEW s \in Source, Withdraw(s)
  PROVE  Begun' /\ WholeInv' /\ Keeps
  <1>1. /\ TypeInv /\ Retract(s) /\ AtWork = {} /\ killed' = killed /\ work' = work
        /\ run' = run /\ withdrawn' = withdrawn \cup {s} /\ s \notin withdrawn
    BY DEF LossInv, GroomInv, GoneInv, Withdraw, Retract
  <1>2. Keeps
    BY <1>1 DEF Keeps
  <1>3. Begun'
    BY <1>1, RetractSays, BegunStays DEF LossInv
  <1>4. ASSUME "dedup" \notin killed', NEW c \in ClaimId
        PROVE  Whole(c)'
    <2>1. (\A d \in ClaimId : Whole(d)) /\ (\A d \in ClaimId : ~Fresh(d))
      BY <1>1, <1>4 DEF LossInv, WholeInv, Fresh, AtWork, At
    <2>2. /\ live'[c] = IF c \in Owned(s) THEN NoNote
                        ELSE IF c \in Detached(s) THEN Kept(s, c) ELSE Restored(s, c)
          /\ merged'[c] = IF c \in Owned(s) \cup Unmerged(s) THEN NoNote ELSE merged[c]
          /\ rows'[c] = NoRow <=> c \in Owned(s) \/ rows[c] = NoRow
          /\ rows'[c] # NoRow =>
               rows'[c].into = IF c \in Unmerged(s) THEN Nobody ELSE rows[c].into
      <3>1. c \notin Owned(s) /\ rows[c] # NoRow => rows'[c] \in Row
        BY <1>1, RetractKeepsRow DEF Retract
      <3>2. Retracted(s)
        BY <1>1, RetractForm
      <3> QED
        BY <3>1, <3>2, NullAssumption DEF Retracted
    <2>3. \A d \in Unmerged(s) : rows[d] # NoRow /\ ~Live(d) /\ live[d] = NoNote
      <3>1. \A d \in Unmerged(s) : d \in ClaimId /\ rows[d] # NoRow /\ rows[d].into \in ClaimId
        BY DEF Unmerged, Owned
      <3> QED
        BY <2>1, <3>1, NullAssumption DEF Whole, Live
    <2>4. ASSUME NEW x, Says(c, x)', Standing(x)'
          PROVE  /\ Says(c, x) /\ Standing(x) /\ x.src # s /\ c \notin Owned(s)
                 /\ Holds(c, x) /\ Holds(c, x)'
      <3>1. Says(c, x) /\ Standing(x) /\ x.src # s /\ c \notin Owned(s)
        BY <1>1, <2>4, RetractSays DEF Standing
      <3>2. Holds(c, x)
        BY <2>1, <3>1 DEF Whole
      <3> QED
        BY <1>1, <2>3, <3>1, <3>2, RetractHolds
    <2>5. CASE rows'[c] = NoRow
      <3>1. live'[c] = NoNote /\ merged'[c] = NoNote
        <4>1. CASE c \in Owned(s)
          BY <2>2, <4>1
        <4>2. CASE c \notin Owned(s)
          <5>1. rows[c] = NoRow /\ live[c] = NoNote /\ merged[c] = NoNote
            BY <2>1, <2>2, <2>5, <4>2 DEF Whole
          <5>2. Restored(s, c) = NoNote /\ c \notin Detached(s)
            BY <5>1 DEF Restored, Detached
          <5> QED
            BY <2>2, <4>2, <5>1, <5>2
        <4> QED
          BY <4>1, <4>2
      <3> QED
        BY <2>4, <2>5, <3>1 DEF Whole
    <2>6. CASE rows'[c] # NoRow /\ c \in Unmerged(s)
      <3>1. Live(c)'
        BY <2>2, <2>6 DEF Live
      <3> QED
        BY <2>4, <2>6, <3>1 DEF Whole
    <2>7. CASE rows'[c] # NoRow /\ c \notin Unmerged(s)
      <3>1. /\ rows[c] # NoRow /\ c \notin Owned(s) /\ rows'[c].into = rows[c].into
            /\ Live(c)' <=> Live(c)
        BY <2>2, <2>7 DEF Live
      <3>2. ~Live(c) => live'[c] = NoNote
        <4>1. ~Live(c) => Restored(s, c) = NoNote /\ c \notin Detached(s)
          BY <2>1, <2>7, <3>1 DEF Whole, Restored, Detached
        <4> QED
          BY <2>2, <3>1, <4>1
      <3>3. ASSUME ~Live(c), NEW x, Says(c, x)', Standing(x)'
            PROVE  \E y : Holds(rows[c].into, y)' /\ y.src = x.src
        <4>1. PICK d \in ClaimId : d = rows[c].into /\ d = rows'[c].into
          BY <1>1, <3>1, <3>3, IntoIsClaim
        <4>2. d \notin Owned(s)
          BY <2>7, <3>1, <4>1 DEF Unmerged
        <4>3. Says(c, x) /\ Standing(x) /\ x.src # s
          BY <2>4, <3>3
        <4>4. PICK y : Holds(d, y) /\ y.src = x.src
          BY <2>1, <3>1, <3>3, <4>1, <4>3 DEF Whole
        <4>5. Holds(d, y)'
          BY <1>1, <2>3, <4>2, <4>3, <4>4, RetractHolds
        <4>6. Holds(rows[c].into, y)'
          BY <4>1, <4>5 DEF Holds
        <4> QED
          BY <4>4, <4>6
      <3> QED
        BY <2>4, <2>7, <3>1, <3>2, <3>3 DEF Whole
    <2> QED
      BY <2>5, <2>6, <2>7
  <1> QED
    BY <1>2, <1>3, <1>4 DEF WholeInv

LEMMA LossStep ==
  ASSUME OneWriter, LossInv, [GroomNext]_groomed
  PROVE  LossInv' /\ (Keeps \/ UNCHANGED groomed)
  <1>1. GroomInv' /\ PassInv' /\ GoneInv'
    BY InvStep, PassStep, GoneGroomStep DEF LossInv
  <1>2. CASE GroomCommand
    BY <1>1, <1>2, LossCommand DEF LossInv
  <1>3. ASSUME NEW s \in Source, Derive(s)
        PROVE  Begun' /\ WholeInv' /\ Keeps
    BY <1>3, LossQuietDedup, LossAttest, LossCreate, LossInsert DEF Derive, Dedup
  <1>4. CASE UNCHANGED groomed
    <2>1. UNCHANGED <<rows, live, merged, work, run, withdrawn, killed>>
      BY <1>4 DEF groomed, vars
    <2> QED
      BY <1>1, <1>4, <2>1
         DEF LossInv, Begun, Says, WholeInv, Whole, Live, Fresh, At, Holds, Standing
  <1> QED
    BY <1>1, <1>2, <1>3, <1>4, LossWithdraw DEF LossInv, GroomNext

LEMMA LossInit ==
  ASSUME GroomInit
  PROVE  LossInv
  <1>1. Init /\ killed = {}
    BY DEF GroomInit, Init
  <1>2. AtWork = {} /\ withdrawn = {}
    BY <1>1 DEF Init, AtWork, Idle
  <1>3. PassInv
    BY <1>1, <1>2 DEF PassInv, OneBusy, Pass, At, AtWork, Init, Idle
  <1>4. /\ Begun /\ WholeInv /\ GoneInv
    BY <1>1, <1>2 DEF Init, Begun, Says, WholeInv, Whole, Holds, GoneInv
  <1> QED
    BY <1>3, <1>4, GroomInit1 DEF LossInv

LEMMA SaidIs ==
  /\ \A c, x : x \in Said(c) <=> Says(c, x)
  /\ \A c, x : x \in Stands(c) <=> Says(c, x) /\ Standing(x)
BY DEF Said, Stands, Says, Standing

KeepsStands ==
  withdrawn' \subseteq withdrawn /\ run' = run /\ killed' \subseteq {"groom"}
    => \A c \in ClaimId : Stands(c) \subseteq Stands(c)'

LEMMA KeepsImplies == Keeps => KeepsStands
  <1>1. \A c, x : x \in Stands(c)' <=> Says(c, x)' /\ Standing(x)'
    BY DEF Said, Stands, Says, Standing
  <1> QED
    BY <1>1, SaidIs DEF Keeps, KeepsStands

Passed ==
  killed \subseteq {"groom"} =>
    \A c \in ClaimId : rows[c] # NoRow /\ ~Live(c) =>
      \A x \in Stands(c) : \E y \in Said(rows[c].into) : y.src = x.src

LEMMA WholeImplies == WholeInv => Passed
  <1>1. \A c, x : Holds(c, x) => Says(c, x)
    BY DEF Holds, Says
  <1> QED
    BY <1>1, SaidIs DEF WholeInv, Whole, Passed

(* One dedup at a time, and nothing but groom killed: wherever that is     *)
(* and applied again, and whatever is derived again or withdrawn between,  *)
(* what the notes of a claim attest stays, and whoever attests a claim     *)
(* that was absorbed attests the one it went to.                           *)
THEOREM NothingGetsLost ==
  ASSUME OneWriter
  PROVE  GroomSpec => NothingIsLost
  <1>1. LossInv /\ [GroomNext]_groomed => LossInv'
    BY LossStep
  <1>2. LossInv /\ [GroomNext]_groomed => [KeepsStands]_groomed
    BY LossStep, KeepsImplies
  <1>3. LossInv => Passed
    BY WholeImplies DEF LossInv
  <1>4. GroomInit => LossInv
    BY LossInit
  <1>5. GroomSpec => [][KeepsStands]_groomed /\ []Passed
    BY <1>1, <1>2, <1>3, <1>4, PTL DEF GroomSpec
  <1> QED
    BY <1>5 DEF NothingIsLost, KeepsStands, Passed
=============================================================================
